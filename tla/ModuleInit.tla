----------------------------- MODULE ModuleInit -----------------------------
(***************************************************************************)
(* PyInit_extension (src/extension/maxminddb.c 720-760) and the life of    *)
(* the module objects it makes.  The module defines m_size 0 and no        *)
(* m_slots, so CPython calls PyInit_extension again whenever the module is *)
(* imported afresh: after it is dropped from sys.modules, and in every     *)
(* sub-interpreter.  Each call makes a new module object; when one is      *)
(* deallocated its dict is cleared and each attribute loses a reference.   *)
(*                                                                         *)
(* Tracked are the reference counts of the objects every call shares: the  *)
(* static types Reader_Type and Metadata_Type, and the InvalidDatabaseError *)
(* class (whose module, maxminddb.errors, keeps it alive), and the global  *)
(* MaxMindDB_error.  TypeBase stands for the references a ready static     *)
(* type holds on itself (its own descriptors and __mro__).  Before Python  *)
(* 3.12 static types are counted like any object.                          *)
(***************************************************************************)
EXTENDS Integers, FiniteSets

CONSTANTS
  MaxImports,   \* bound on calls of PyInit_extension
  TypeBase,     \* references a ready static type holds besides the modules'
  ClassBase,    \* references to InvalidDatabaseError besides the extension's
  Failures      \* the calls that may fail: "create", "ready", "import", "getattr"

ASSUME Failures \subseteq {"create", "ready", "import", "getattr"}

ReaderType   == "Reader_Type"
MetadataType == "Metadata_Type"
ErrorClass   == "InvalidDatabaseError"
StaticTypes  == {ReaderType, MetadataType}
Objects      == StaticTypes \cup {ErrorClass}
Slots        == 1..MaxImports

VARIABLES
  mods,       \* mods[i]: "unused", "live", "leaked" (lost by a failed init), "gone"
  holds,      \* holds[i]: the objects module i has as attributes
  refs,       \* refs[o]: reference count of o
  ready,      \* static types PyType_Ready has completed
  errGlobal,  \* MaxMindDB_error: "NULL" or "class"
  calls       \* calls of PyInit_extension so far

vars == <<mods, holds, refs, ready, errGlobal, calls>>

\* Module i is made and left in state st holding the attributes objs.
Attach(i, objs, st) ==
  /\ mods' = [mods EXCEPT ![i] = st]
  /\ holds' = [holds EXCEPT ![i] = objs]

\* Bug variant: PyModule_AddObject(m, "Reader", ...) without Py_INCREF.
AddReaderNoIncref(r) == r

\* Py_INCREF(&Reader_Type), then PyModule_AddObject steals it (733-734).
AddReader(r) == [r EXCEPT ![ReaderType] = @ + 1]

\* Bug variant: the Py_INCREF(MaxMindDB_error) before the steal is missing.
AddErrorNoIncref(r) == [r EXCEPT ![ErrorClass] = @ + 1]

\* PyObject_GetAttrString returns a new reference, Py_INCREF adds one, and
\* PyModule_AddObject steals one of the two (751-757).
AddError(r) == [r EXCEPT ![ErrorClass] = @ + 2]

-----------------------------------------------------------------------------
(* One call of PyInit_extension.  Each early "return NULL" is a disjunct;  *)
(* none of them releases the module object m.  Py_INCREF(&Reader_Type)     *)
(* precedes PyModule_AddObject, which steals a reference; Metadata_Type is *)
(* added with no Py_INCREF.  InvalidDatabaseError is a new reference from  *)
(* PyObject_GetAttrString, Py_INCREF'd once more: one for the global, one  *)
(* stolen by the module.  The global's previous value is overwritten.      *)

PyInitExtension ==
  /\ calls < MaxImports
  /\ calls' = calls + 1
  /\ LET i == calls + 1 IN
     \/ /\ "create" \in Failures                       \* PyModule_Create
        /\ UNCHANGED <<mods, holds, refs, ready, errGlobal>>
     \/ /\ "ready" \in Failures /\ ReaderType \notin ready
        /\ Attach(i, {}, "leaked")
        /\ UNCHANGED <<refs, ready, errGlobal>>
     \/ /\ "ready" \in Failures /\ MetadataType \notin ready
        /\ Attach(i, {ReaderType}, "leaked")
        /\ refs' = AddReader(refs)
        /\ ready' = ready \cup {ReaderType}
        /\ UNCHANGED errGlobal
     \/ /\ "import" \in Failures                       \* maxminddb.errors
        /\ Attach(i, StaticTypes, "leaked")
        /\ refs' = AddReader(refs)
        /\ ready' = StaticTypes
        /\ UNCHANGED errGlobal
     \/ /\ "getattr" \in Failures                      \* no InvalidDatabaseError
        /\ Attach(i, StaticTypes, "leaked")
        /\ refs' = AddReader(refs)
        /\ ready' = StaticTypes
        /\ errGlobal' = "NULL"
     \/ /\ Attach(i, Objects, "live")
        /\ refs' = AddError(AddReader(refs))
        /\ ready' = StaticTypes
        /\ errGlobal' = "class"

\* A live module object is deallocated: each attribute is Py_DECREF'd.
ModuleDealloc(i) ==
  /\ mods[i] = "live"
  /\ mods' = [mods EXCEPT ![i] = "gone"]
  /\ refs' = [o \in Objects |-> IF o \in holds[i] THEN refs[o] - 1 ELSE refs[o]]
  /\ UNCHANGED <<holds, ready, errGlobal, calls>>

Init ==
  /\ mods = [i \in Slots |-> "unused"]
  /\ holds = [i \in Slots |-> {}]
  /\ refs = [o \in Objects |-> IF o \in StaticTypes THEN TypeBase ELSE ClassBase]
  /\ ready = {}
  /\ errGlobal = "NULL"
  /\ calls = 0

Next ==
  \/ PyInitExtension
  \/ \E i \in Slots : ModuleDealloc(i)

Spec == Init /\ [][Next]_vars

-----------------------------------------------------------------------------
(* Properties                                                              *)

TypeOK ==
  /\ mods \in [Slots -> {"unused", "live", "leaked", "gone"}]
  /\ holds \in [Slots -> SUBSET Objects]
  /\ refs \in [Objects -> Int]
  /\ ready \subseteq StaticTypes
  /\ errGlobal \in {"NULL", "class"}
  /\ calls \in 0..MaxImports

\* Modules that hold o as an attribute: live ones, and those a failed call
\* leaked (which keep their references for ever).
Holders(o) ==
  Cardinality({i \in Slots : mods[i] \in {"live", "leaked"} /\ o \in holds[i]})

\* Through any sequence of imports, failed imports and module frees,
\* Reader_Type's count is its own references plus one per module holding
\* it: each module's attribute was paid for by a Py_INCREF, and a module
\* freed gives back exactly that one.
ReaderTypeBalanced == refs[ReaderType] = TypeBase + Holders(ReaderType)

\* InvalidDatabaseError never has fewer references than its holders: the
\* errors module, each extension module, and MaxMindDB_error while it is
\* set.  (It may have more: a re-import overwrites the global without
\* Py_DECREF.)
ErrorClassBacked ==
  refs[ErrorClass] >=
    ClassBase + Holders(ErrorClass) + (IF errGlobal = "class" THEN 1 ELSE 0)

=============================================================================
