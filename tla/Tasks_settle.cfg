SPECIFICATION PSpec
CONSTANTS
  w1 = w1
  w2 = w2
  c1 = c1
  c2 = c2
  j = j
  Nil = Nil
  Trees <- MCTrees
  External <- MCExternal
  Calls <- MCCalls
  MaxLocal = 1
  MaxStatus = 2
  Ops = {"create", "label", "archive", "unarchive", "remove", "addstatus", "reorder", "delstatus", "edit"}
SYMMETRY MCSymmetry
INVARIANTS ReferencesWhole NewTasksDistinct InStep
CHECK_DEADLOCK FALSE
CONSTRAINT MCBound
