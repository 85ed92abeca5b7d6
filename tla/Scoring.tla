------------------------------- MODULE Scoring -------------------------------
(***************************************************************************)
(* The arithmetic of GameRoom::finish_round: what one finished round is    *)
(* worth to a player.  Scores are integers; the multipliers 1.0, 0.9, 0.8  *)
(* of kAttemptMultipliers are given in tenths, and static_cast<int> of a   *)
(* non-negative product is a floor, hence \div.                            *)
(***************************************************************************)
EXTENDS Integers

CONSTANTS
  MaxAttempts,    \* kMaxAttempts: guesses a detective has in one round
  AttemptTenths,  \* kAttemptMultipliers, in tenths: attempt -> 0..10
  CorrectBonus    \* kCorrectBonus: added to every solver's reward

ASSUME ScoringAssumption ==
  /\ MaxAttempts \in Nat \ {0}
  /\ AttemptTenths \in [1..MaxAttempts -> 0..10]
  /\ CorrectBonus \in Nat

(* std::clamp(attempt, 1, kMaxAttempts) *)
ClampAttempt(attempt) ==
  IF attempt < 1 THEN 1 ELSE IF attempt > MaxAttempts THEN MaxAttempts ELSE attempt

(* What a detective who solves a crime of this score on this attempt earns. *)
Reward(crimeScore, attempt) ==
  ((100 - crimeScore) * AttemptTenths[ClampAttempt(attempt)]) \div 10 + CorrectBonus

(* solved[p] is the attempt on which p solved the crime, 0 when p did not. *)
AnyoneSolved(solved) == \E p \in DOMAIN solved : solved[p] > 0

(* gained[p] of finish_round: the criminal's stake is lost as soon as any   *)
(* detective solved the crime.                                              *)
Gained(p, criminal, crimeScore, solved) ==
  IF solved[p] > 0 THEN Reward(crimeScore, solved[p])
  ELSE IF p = criminal /\ ~AnyoneSolved(solved) THEN crimeScore
  ELSE 0
==============================================================================
