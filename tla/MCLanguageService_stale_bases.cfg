\* a change of references in a service that was only warmed up
SPECIFICATION Spec
CONSTANTS
  s1 = s1 s2 = s2 a = a b = b c = c fa1 = fa1 fa2 = fa2 fb = fb r1 = r1 e1 = e1
  NoSolution = NoSolution
  Solutions = {s1}
  Members = {a, b}
  Files = {}
  Owner <- MCOwnerNone
  BaseIds <- MCBaseIdsTwo
  Producers = {a, b}
  InitialMembers <- MCMembersTwo
  InitialDisk = {}
  Broken = {}
  Colliding = {}
  Events = {e1}
  Readers = {}
  MaxEdits = 0
  MaxSwitches = 0
  MaxInserts = 0
  MaxRemoves = 0
  MaxDisk = 0
  MaxWarmFailures = 0
  MaxReadFailures = 0
  Mixes <- MCMixesEvents
INVARIANT BasesFresh
\* a service with nothing left to do rests
CHECK_DEADLOCK FALSE
