------------------------------ MODULE Extension ------------------------------
(***************************************************************************)
(* The extension module and the Metadata objects made from its type.       *)
(* PyInit_extension (ModuleInit) readies Metadata_Type and adds it to each *)
(* module object it makes; Reader_metadata and Python code then create     *)
(* Metadata objects by calling that type (MetadataObject).  A Reader and   *)
(* the Metadata objects it returned outlive the module object they came    *)
(* from, so objects are made, re-initialised and freed through            *)
(* Metadata_Type whatever has since happened to the modules.  Instances of *)
(* a static type hold no reference to it (PyType_GenericAlloc increments  *)
(* the type only for heap types), so nothing they do keeps it alive.       *)
(***************************************************************************)
EXTENDS Integers

CONSTANTS
  Fields, Objects, Values, Null, Unset, MaxRefs, KwArgs, PyKwArgs, PythonCalls,
  MaxImports, TypeBase, ClassBase, Failures

VARIABLES
  state, field, held, fault,                  \* the Metadata objects
  mods, holds, refs, ready, errGlobal, calls, \* the extension module objects
  typeUse   \* a Metadata object was made or used while Metadata_Type's count was 0

Meta == INSTANCE MetadataObject
Mod == INSTANCE ModuleInit

metaVars == <<state, field, held, fault>>
modVars == <<mods, holds, refs, ready, errGlobal, calls>>
vars == <<metaVars, modVars, typeUse>>

\* A step of a Metadata object: type_call(&Metadata_Type), tp_init through
\* the type's slot, or tp_dealloc and tp_free read from it.  The type must
\* have been readied by some PyInit_extension call.
MetadataStep ==
  /\ Mod!MetadataType \in ready
  /\ Meta!Next
  /\ typeUse' = (typeUse \/ refs[Mod!MetadataType] <= 0)
  /\ UNCHANGED modVars

\* An import, a failed import or a module object freed.
ModuleStep ==
  /\ Mod!Next
  /\ UNCHANGED <<metaVars, typeUse>>

Init == Meta!Init /\ Mod!Init /\ typeUse = FALSE

Next == MetadataStep \/ ModuleStep

Spec == Init /\ [][Next]_vars

-----------------------------------------------------------------------------
(* Properties                                                              *)

TypeOK == Meta!TypeOK /\ Mod!TypeOK /\ typeUse \in BOOLEAN

FieldsSafe == Meta!FieldsSafe

\* See ModuleInit.
ReaderTypeBalanced == Mod!ReaderTypeBalanced
ErrorClassBacked == Mod!ErrorClassBacked

\* No Metadata object is created, initialised or freed through Metadata_Type
\* after the modules' Py_DECREFs took its count to zero and type_dealloc
\* ran on it: Reader_metadata after the extension was imported twice and
\* both module objects were freed must not reach a freed type.
NoFreedTypeUse == ~typeUse
=============================================================================
