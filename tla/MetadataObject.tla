--------------------------- MODULE MetadataObject ---------------------------
(***************************************************************************)
(* The Metadata type of extension/maxminddb.c: Metadata_init (lines        *)
(* 390-446), Metadata_dealloc (448-460) and the tp_new of                  *)
(* PyInit_extension (PyType_GenericNew, which zeroes every field).         *)
(*                                                                         *)
(* Calling the type (PyObject_Call in Reader_metadata, or Python code)     *)
(* runs CPython's type_call: tp_new, then tp_init; when tp_init fails the  *)
(* new object is Py_DECREF'd, which runs tp_dealloc.  Python code may also *)
(* call __init__ again on a live object and drop its last reference.       *)
(*                                                                         *)
(* A field holds a keyword value (a reference Metadata_init took with      *)
(* Py_INCREF), Null (zeroed by tp_new) or Unset:                           *)
(* PyArg_ParseTupleAndKeywords leaves the local of an absent optional      *)
(* keyword untouched, and Metadata_init stores that uninitialized local.   *)
(***************************************************************************)
EXTENDS Integers, FiniteSets

CONSTANTS
  Fields,       \* the nine keywords of kwlist
  Objects,      \* Metadata objects that may be created
  Values,       \* objects passed as keyword values
  KwArgs,       \* keyword dicts a call of the type passes: [args, extra]
  PyKwArgs,     \* keyword dicts Python code passes to __init__ of a live object
  PythonCalls,  \* whether Python code calls __init__ on a live Metadata object
  MaxRefs,      \* bound on the references held to one value
  Null, Unset

\* args: the known keywords given and their values; extra: an unknown
\* keyword (or a positional argument too many) is present.
ASSUME \A kw \in KwArgs \cup PyKwArgs :
         DOMAIN kw.args \subseteq Fields /\ kw.extra \in BOOLEAN

VARIABLES
  state,   \* state[o]: "free" (not created), "live", "gone" (deallocated)
  field,   \* field[o][f]: a value, Null or Unset
  held,    \* held[v]: references to v taken by Metadata_init and not dropped
  fault    \* Py_INCREF or Py_DECREF reached a NULL or uninitialized pointer

vars == <<state, field, held, fault>>

Pointers == Values \cup {Null, Unset}

\* Number of fields of F that point to v.
Refs(F, v) == Cardinality({f \in Fields : F[f] = v})

\* A field no Py_INCREF / Py_DECREF may touch.
Invalid(F) == \E f \in Fields : F[f] \notin Values

-----------------------------------------------------------------------------
(* Metadata_init: PyArg_ParseTupleAndKeywords("|OOOOOOOOO") fails on an    *)
(* unknown keyword and returns -1 before any store; otherwise the nine     *)
(* locals are stored and Py_INCREF'd.                                      *)

\* Bug variant: kwlist and the format string miss the last keyword, whose
\* local is then never written.
InitFieldsSkipLast(kw) ==
  LET last == CHOOSE f \in Fields : TRUE
  IN  [f \in Fields |-> IF f \in DOMAIN kw.args /\ f # last THEN kw.args[f] ELSE Unset]

\* The fields Metadata_init stores for the keyword dict kw.
InitFields(kw) == [f \in Fields |-> IF f \in DOMAIN kw.args THEN kw.args[f] ELSE Unset]

\* The nine Py_INCREFs of Metadata_init.
IncRefs(F) == [v \in Values |-> held[v] + Refs(F, v)]

\* Bug variant: Metadata_dealloc leaves out one field's Py_DECREF.
DecRefsMissingOne(F) ==
  LET skip == CHOOSE f \in Fields : TRUE
  IN  [v \in Values |-> held[v] - Cardinality({f \in Fields \ {skip} : F[f] = v})]

\* Bug variant: one field's Py_DECREF line is duplicated.
DecRefsDuplicated(F) ==
  LET twice == CHOOSE f \in Fields : TRUE
  IN  [v \in Values |-> held[v] - Refs(F, v) - (IF F[twice] = v THEN 1 ELSE 0)]

\* The nine Py_DECREFs of Metadata_dealloc.
DecRefs(F) == [v \in Values |-> held[v] - Refs(F, v)]

\* type_call(Metadata_Type, (), kw): tp_new zeroes the fields; a failing
\* tp_init is followed by Py_DECREF of the new object, hence dealloc.
Call(o, kw) ==
  /\ state[o] = "free"
  /\ IF kw.extra
       THEN /\ state' = [state EXCEPT ![o] = "gone"]
            /\ fault' = TRUE                     \* Py_DECREF(NULL) in dealloc
            /\ UNCHANGED <<field, held>>
       ELSE /\ state' = [state EXCEPT ![o] = "live"]
            /\ field' = [field EXCEPT ![o] = InitFields(kw)]
            /\ held' = IncRefs(InitFields(kw))
            /\ fault' = (fault \/ Invalid(InitFields(kw)))

\* o.__init__(**kw) from Python on a live object: the old fields are
\* overwritten without Py_DECREF.
ReInit(o, kw) ==
  /\ PythonCalls
  /\ state[o] = "live"
  /\ ~kw.extra
  /\ \A v \in Values : held[v] + Refs(InitFields(kw), v) <= MaxRefs
  /\ field' = [field EXCEPT ![o] = InitFields(kw)]
  /\ held' = IncRefs(InitFields(kw))
  /\ fault' = (fault \/ Invalid(InitFields(kw)))
  /\ UNCHANGED state

\* A failing __init__ on a live object changes nothing.
ReInitFails(o, kw) ==
  /\ PythonCalls
  /\ state[o] = "live"
  /\ kw.extra
  /\ UNCHANGED vars

\* The last reference is dropped: Metadata_dealloc.
Dealloc(o) ==
  /\ state[o] = "live"
  /\ state' = [state EXCEPT ![o] = "gone"]
  /\ held' = DecRefs(field[o])
  /\ fault' = (fault \/ Invalid(field[o]))
  /\ UNCHANGED field

Init ==
  /\ state = [o \in Objects |-> "free"]
  /\ field = [o \in Objects |-> [f \in Fields |-> Null]]
  /\ held = [v \in Values |-> 0]
  /\ fault = FALSE

Next ==
  \E o \in Objects :
    \/ \E kw \in KwArgs : Call(o, kw)
    \/ \E kw \in PyKwArgs : ReInit(o, kw) \/ ReInitFails(o, kw)
    \/ Dealloc(o)

Spec == Init /\ [][Next]_vars

-----------------------------------------------------------------------------
(* Properties                                                              *)

TypeOK ==
  /\ state \in [Objects -> {"free", "live", "gone"}]
  /\ field \in [Objects -> [Fields -> Pointers]]
  /\ held \in [Values -> Nat]
  /\ fault \in BOOLEAN

\* Creating, re-initialising and freeing Metadata objects never applies
\* Py_INCREF or Py_DECREF to a NULL or uninitialized field.
FieldsSafe == ~fault

=============================================================================
