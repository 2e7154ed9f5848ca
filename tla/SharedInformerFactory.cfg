\* Two goroutines, two types and two stop channels.
SPECIFICATION FairSpec
CONSTANTS
  Callers = {c1, c2}
  Types = {policy, other}
  StopChannels = {s1, s2}
INVARIANTS
  TypeOK
  OneInformerPerType
  StartedOnce
PROPERTIES
  StartCoversRegistered
  WaitCoversStarted
  RegistrationEnds
  WaitEnds
