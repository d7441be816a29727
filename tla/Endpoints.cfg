SPECIFICATION EndpointsSpec
CONSTANTS
  q1 = q1
  q2 = q2
  t1 = t1
  t2 = t2
  m1 = m1
  None = None
  Owner = Owner
  ServerArc = ServerArc
  Tasks = {t1, t2}
  Results = {TRUE, FALSE}
  Threads = {q1, q2}
  Chans = {1}
  Users = {1, Owner, ServerArc}
  Inputs <- MCInputs
  MaxSets = 2
  PerSec = 10
  U64 = 1000
  I32Max = 25
  MaxCerts = 2
  Busy = {1}
  Caller = t1
  MaxChanges = 3
  MaxCalls = 1
  Methods = {m1}
  MaxBinders = 2
  Slots = 2
INVARIANTS ArgsMatchSetters SecretsReclaimed UsersHaveQueues ServerWhole
PROPERTIES WaitAnswersTruly WaitEnds TeardownEnds
