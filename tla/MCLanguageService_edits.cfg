\* keystrokes, members and switches; a change of references beside failing warmups
SPECIFICATION Spec
CONSTANTS
  s1 = s1 s2 = s2 a = a b = b c = c fa1 = fa1 fa2 = fa2 fb = fb r1 = r1 e1 = e1
  NoSolution = NoSolution
  Solutions = {s1, s2}
  Members = {a, b, c}
  Files = {fa1, fa2, fb}
  Owner <- MCOwner
  BaseIds <- MCBaseIds
  Producers = {a, b, c}
  InitialMembers <- MCMembers
  InitialDisk = {fa1, fb}
  Broken <- MCBroken
  Colliding <- MCColliding
  Events = {e1}
  Readers = {r1}
  MaxEdits = 1
  MaxSwitches = 1
  MaxInserts = 1
  MaxRemoves = 1
  MaxDisk = 0
  MaxWarmFailures = 2
  MaxReadFailures = 0
  Mixes <- MCMixes
INVARIANTS TypeOK ReadyIsActive InStep EvictedRefreshed RetryRunsAlone
\* a service with nothing left to do rests
CHECK_DEADLOCK FALSE
