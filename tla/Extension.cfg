\* Metadata objects made by Reader_metadata from complete metadata maps and
\* re-initialised by Python code with complete keywords or an unknown one,
\* while the extension is imported up to three times, each import failing
\* at any of its steps or succeeding, and module objects are freed.
SPECIFICATION Spec
CONSTANTS
  f1 = f1  f2 = f2  o1 = o1  o2 = o2  o3 = o3  v1 = v1  v2 = v2
  Null = Null
  Unset = Unset
  Fields <- MCFields
  Objects <- MCObjects
  Values <- MCValues
  MaxRefs = 4
  KwArgs <- CompleteKw
  PyKwArgs <- AnyKw
  PythonCalls = TRUE
  MaxImports = 3
  TypeBase = 2
  ClassBase = 1
  Failures <- MCFailures
INVARIANT TypeOK
 
INVARIANT ReaderTypeBalanced
INVARIANT ErrorClassBacked
\* Imports stop at the bound and every object is eventually deallocated.
CHECK_DEADLOCK FALSE
