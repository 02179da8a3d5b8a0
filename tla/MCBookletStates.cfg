SPECIFICATION Spec
CONSTANTS
  Root = Root
  Routing = Routing
  Inner = Inner
  Hard = Hard
  Easy = Easy
  Bonus = Bonus
  Right = Right
  Wrong = Wrong
  Null = Null
  None = None
  NaN = NaN
  Invalid = Invalid
  Text = {Right, Wrong, Null}
  BookletFiles <- MCFiles
  Parse <- ParseBooklet
  Holds <- Satisfied
  Schemes = {"u1"}
  Presets <- MCPresets
  Content <- MCContent
  Bases <- MCBases
  Code <- MCCode
  MayOverride = TRUE
  MaxLoads = 2
  MaxChanges = 2
INVARIANTS
  BranchFollowsResponses
  StoredStatesAreCurrent
  RestrictionsAreInherited
PROPERTIES
  ReloadKeepsBranch
  TurnsFollowResponses
CHECK_DEADLOCK FALSE
