SPECIFICATION Spec
CONSTANTS
  Sessions = {s1, s2, s3, s4}
  Codes = {c1, c2}
  MinPlayers = 2
  MaxPlayers = 2
  MaxId = 3
  MaxRooms = 3
SYMMETRY SessionSymmetry
INVARIANT SeatKept
