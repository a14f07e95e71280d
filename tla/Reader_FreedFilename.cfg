\* __init__ called with a str or bytes path to a missing file or one that
\* is not a database; checking NoFreedFilenameRead alone.
SPECIFICATION Spec
CONSTANTS
  t1 = t1
  Threads <- MCThreads
  Databases <- MCDatabases
  BadFiles = {"missing", "invalid"}
  PathArgs = {"str", "bytes"}
  Modes = {0, 1, 2}
  Addresses <- MCAddresses
  MaxOpens = 3
  NetmasksV4Db = {0, 32}
  NetmasksV6Db = {0, 128}
  NetmasksV4InV6 = {95, 96, 128}
INVARIANT NoFreedFilenameRead
\* After Reader_dealloc the object is gone and nothing can happen.
CHECK_DEADLOCK FALSE
