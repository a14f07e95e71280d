\* Lists that end before the announced tree is complete, and lists whose
\* only defect is a map key that is not a string.
SPECIFICATION Spec
CONSTANTS
  Inputs <- CorruptLists
  KeyStrs <- MCKeyStrs
  BadUtf8 <- MCBadUtf8
  NoStr <- MCNoStr
  AllocMayFail = FALSE
  SetItemMayFail = FALSE
INVARIANT CorruptListRejected
CHECK_DEADLOCK FALSE
