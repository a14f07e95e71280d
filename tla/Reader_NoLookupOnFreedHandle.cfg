\* One thread whose "packed" attribute read calls the reader; checking
\* NoLookupOnFreedHandle alone.
SPECIFICATION Spec
CONSTANTS
  t1 = t1
  Threads <- MCThreads
  Databases <- MCDatabases
  BadFiles = {"missing", "invalid"}
  PathArgs = {"str", "bytes"}
  Modes = {0, 1, 2}
  Addresses <- MCAddresses
  MaxOpens = 3
  NetmasksV4Db = {0, 32}
  NetmasksV6Db = {0, 128}
  NetmasksV4InV6 = {95, 96, 128}
INVARIANT NoLookupOnFreedHandle
\* After Reader_dealloc the object is gone and nothing can happen.
CHECK_DEADLOCK FALSE
