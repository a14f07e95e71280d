\* Metadata maps with a known key absent or an unknown key present.
SPECIFICATION Spec
CONSTANTS
  f1 = f1  f2 = f2  o1 = o1  o2 = o2  o3 = o3  v1 = v1  v2 = v2
  Null = Null
  Unset = Unset
  Fields <- MCFields
  Objects <- MCObjects
  Values <- MCValues
  MaxRefs = 4
  KwArgs <- MapKw
  PyKwArgs <- CompleteKw
  PythonCalls = FALSE
INVARIANT FieldsSafe
\* Every object is eventually deallocated and nothing more happens.
CHECK_DEADLOCK FALSE
