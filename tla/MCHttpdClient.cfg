CONSTANTS
  Handles = {h1, h2}
  CliHandle = cli
  NoHandle = none
  NumSlots = 2
  FeedSlot = 0
  Masks = {{}, {"READ"}}
  MaxTasks = 2
  MaxEvents = 2
  MUTECLIENT = TRUE
SPECIFICATION Spec
SYMMETRY HandleSymmetry
INVARIANTS
  StatusMatchesMux
  InactiveIsDetached
  ClientCanBeWoken
  NewTaskIsTriggered
  TriggersAreHonoured
