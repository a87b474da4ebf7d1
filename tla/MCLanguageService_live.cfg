\* any awaited read may fail; builds settle and requests are answered
SPECIFICATION FairSpec
CONSTANTS
  s1 = s1 s2 = s2 a = a b = b c = c fa1 = fa1 fa2 = fa2 fb = fb r1 = r1 e1 = e1
  NoSolution = NoSolution
  Solutions = {s1}
  Members = {a}
  Files = {fa1}
  Owner <- MCOwnerOne
  BaseIds <- MCBaseIdsOne
  Producers = {a}
  InitialMembers <- MCMembersOne
  InitialDisk = {fa1}
  Broken = {}
  Colliding = {}
  Events = {e1}
  Readers = {r1}
  MaxEdits = 1
  MaxSwitches = 1
  MaxInserts = 0
  MaxRemoves = 1
  MaxDisk = 1
  MaxWarmFailures = 1
  MaxReadFailures = 1
  Mixes <- MCMixesOne
INVARIANT BuildingHasSettler
PROPERTIES DisposedIsInert BuildSettles RequestsAnswered
\* a service with nothing left to do rests
CHECK_DEADLOCK FALSE
