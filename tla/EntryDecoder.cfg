\* Every list of up to MaxLen nodes (malformed ones included); every
\* allocation but PyDict_SetItem may fail.
SPECIFICATION Spec
CONSTANTS
  Inputs <- AllLists
  KeyStrs <- MCKeyStrs
  BadUtf8 <- MCBadUtf8
  NoStr <- MCNoStr
  AllocMayFail = TRUE
  SetItemMayFail = FALSE
INVARIANT TypeOK
INVARIANT DecodeMatchesReference
INVARIANT NoUseAfterFree
INVARIANT SuccessNoLeak
INVARIANT Uint128Correct
\* One call of from_entry_data_list returns and the model stops there.
CHECK_DEADLOCK FALSE
