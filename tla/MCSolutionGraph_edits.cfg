\* a member per file, files of one member, and refused texts that linger
SPECIFICATION Spec
CONSTANTS
  lib = lib app = app tip = tip loop = loop l1 = l1 l2 = l2 a1 = a1 t1 = t1 o1 = o1
  X = X Y = Y Z = Z W = W R = R
  Members = {lib, app, tip, loop}
  Files = {l1, l2, a1, t1, o1}
  Home <- MCHome
  BaseIds <- MCBases
  Rank <- MCRank
  Names = {X, Y, Z, W, R}
  RuleNames = {R}
  Habits <- MCHabits
INVARIANTS TypeOK RevisionsSound
PROPERTIES ImplementsModel ChangeCovers
