SPECIFICATION FairSpec
CONSTANT MaxSent = 5
INVARIANT OneWriteAtATime
PROPERTIES ChannelSpec QueueDrains
