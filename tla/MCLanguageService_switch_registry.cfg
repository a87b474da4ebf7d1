\* a solution switch and the project registry
SPECIFICATION Spec
CONSTANTS
  s1 = s1 s2 = s2 a = a b = b c = c fa1 = fa1 fa2 = fa2 fb = fb r1 = r1 e1 = e1
  NoSolution = NoSolution
  Solutions = {s1, s2}
  Members = {a, b}
  Files = {fa1, fb}
  Owner <- MCOwnerTwo
  BaseIds <- MCBaseIdsTwo
  Producers = {a, b}
  InitialMembers <- MCMembers
  InitialDisk = {fa1, fb}
  Broken = {}
  Colliding = {}
  Events = {}
  Readers = {}
  MaxEdits = 0
  MaxSwitches = 1
  MaxInserts = 0
  MaxRemoves = 0
  MaxDisk = 0
  MaxWarmFailures = 0
  MaxReadFailures = 0
  Mixes <- MCMixesOne
INVARIANT EveryMemberHasProject
\* a service with nothing left to do rests
CHECK_DEADLOCK FALSE
