\* Every list of up to MaxLen nodes, and every allocation, PyDict_SetItem's
\* included, may fail: its status is ignored at line 545.
SPECIFICATION Spec
CONSTANTS
  Inputs <- AllLists
  KeyStrs <- MCKeyStrs
  BadUtf8 <- MCBadUtf8
  NoStr <- MCNoStr
  AllocMayFail = TRUE
  SetItemMayFail = TRUE
INVARIANT ErrorIffNull
\* One call of from_entry_data_list returns and the model stops there.
CHECK_DEADLOCK FALSE
