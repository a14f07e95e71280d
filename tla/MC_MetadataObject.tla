-------------------------- MODULE MC_MetadataObject --------------------------
(***************************************************************************)
(* Three Metadata objects, two of the nine keywords and two keyword values:  *)
(* enough for a field to hold either value, for two objects to share one, *)
(* and for a re-initialisation to replace a value by the other.            *)
(***************************************************************************)
EXTENDS MetadataObject

CONSTANTS f1, f2, o1, o2, o3, v1, v2

MCFields == {f1, f2}
MCObjects == {o1, o2, o3}
MCValues == {v1, v2}

\* The map Reader_metadata decodes from a database with every field.
CompleteKw == [args : [MCFields -> MCValues], extra : {FALSE}]

\* Keyword dicts with an unknown keyword (a field a newer format adds).
ExtraKw == [args : [MCFields -> MCValues], extra : {TRUE}]

AnyKw == CompleteKw \cup ExtraKw

\* Keyword dicts from metadata maps a database may hold: every known key,
\* some known key absent (an older or partial writer), an unknown key.
MapKw ==
  AnyKw \cup {[args |-> a, extra |-> FALSE] :
                a \in UNION {[S -> MCValues] : S \in SUBSET MCFields \ {MCFields}}}
=============================================================================
