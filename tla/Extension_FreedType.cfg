\* Two imports, both module objects freed, then Reader_metadata: the
\* modules took no reference to Metadata_Type but each gave one back.
SPECIFICATION Spec
CONSTANTS
  f1 = f1  f2 = f2  o1 = o1  o2 = o2  o3 = o3  v1 = v1  v2 = v2
  Null = Null
  Unset = Unset
  Fields <- MCFields
  Objects <- MCObjects
  Values <- MCValues
  MaxRefs = 4
  KwArgs <- CompleteKw
  PyKwArgs <- CompleteKw
  PythonCalls = FALSE
  MaxImports = 3
  TypeBase = 2
  ClassBase = 1
  Failures <- MCFailures
INVARIANT NoFreedTypeUse
\* Imports stop at the bound and every object is eventually deallocated.
CHECK_DEADLOCK FALSE
