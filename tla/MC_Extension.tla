---------------------------- MODULE MC_Extension ----------------------------
(***************************************************************************)
(* The Metadata model values of MC_MetadataObject, and every step of      *)
(* PyInit_extension that may fail.                                         *)
(***************************************************************************)
EXTENDS Extension

CONSTANTS f1, f2, o1, o2, o3, v1, v2

MCFields == {f1, f2}
MCObjects == {o1, o2, o3}
MCValues == {v1, v2}

\* The map Reader_metadata decodes from a database with every field.
CompleteKw == [args : [MCFields -> MCValues], extra : {FALSE}]

\* Keyword dicts with an unknown keyword (a field a newer format adds).
ExtraKw == [args : [MCFields -> MCValues], extra : {TRUE}]

AnyKw == CompleteKw \cup ExtraKw

\* Every PyInit_extension step that can fail.
MCFailures == {"create", "ready", "import", "getattr"}
=============================================================================
