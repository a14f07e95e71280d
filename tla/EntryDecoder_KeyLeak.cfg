\* A map key that is not valid UTF-8, no allocation failures.
SPECIFICATION Spec
CONSTANTS
  Inputs <- WellFormedLists
  KeyStrs <- MCKeyStrs
  BadUtf8 <- MCBadUtf8
  NoStr <- MCNoStr
  AllocMayFail = FALSE
  SetItemMayFail = FALSE
INVARIANT ErrorNoLeak
CHECK_DEADLOCK FALSE
