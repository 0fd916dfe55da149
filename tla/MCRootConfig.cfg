SPECIFICATION FairSpec
CONSTANTS
  p1 = p1
  p2 = p2
  pwA = pwA
  pwB = pwB
  Procs <- MCProcs
  Passwords <- MCPasswords
  Absent = Absent
  Torn = Torn
  NoProc = NoProc
  Hints = {"none", "h"}
  NoHint = "none"
  CreateOptions <- MCCreateOptions
  Overlap = FALSE
  MaxOps = 3
  MaxCrashes = 1
INVARIANTS AckedChangesHold 
PROPERTIES  OperationsEnd
CHECK_DEADLOCK FALSE
