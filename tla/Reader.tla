------------------------------- MODULE Reader -------------------------------
(***************************************************************************)
(* The Reader object of extension/maxminddb.c and the lookup bridge it     *)
(* runs: Reader_init, get_record (with ip_converter), Reader_metadata with *)
(* Metadata_init, Reader_close, __enter__, __exit__ and Reader_dealloc.    *)
(*                                                                         *)
(* Python threads call methods of one Reader.  Each C function runs while  *)
(* holding the GIL, so it is one step, except get_record: ip_converter     *)
(* calls PyObject_GetAttrString(obj, "packed") for any argument that is    *)
(* not a str, which runs Python code (a property, __getattr__) that may    *)
(* call back into the reader or let another thread run.  get_record has    *)
(* already read self->mmdb at that point.  It is therefore two steps:      *)
(* GetStart up to the attribute read, GetFinish after it.                  *)
(*                                                                         *)
(* libmaxminddb is an external collaborator: a handle is an MMDB_s that    *)
(* MMDB_open fills and MMDB_close + free release; a lookup returns an      *)
(* error, or found/not found with a netmask.  The entry decoder is the     *)
(* component modelled in EntryDecoder; here a decode returns a value or    *)
(* fails.                                                                  *)
(***************************************************************************)
EXTENDS Integers, FiniteSets

CONSTANTS
  Threads,        \* Python threads calling the reader
  Databases,      \* database files that MMDB_open accepts: [ipv, meta]
  BadFiles,       \* paths that are missing/unreadable ("missing") or not a database ("invalid")
  PathArgs,       \* forms of the database argument: "str" (or os.PathLike), "bytes"
  Modes,          \* values passed as the mode argument
  Addresses,      \* arguments of get: [form, fam, len]; form "text" or "badtext" is a str
  MaxOpens,       \* bound on MMDB_open calls that succeed
  NetmasksV4Db,   \* netmasks an IPv4 database reports
  NetmasksV6Db,   \* netmasks an IPv6 database reports for IPv6 queries
  NetmasksV4InV6  \* netmasks an IPv6 database reports for IPv4 queries

Nil == 0
Handles == 1..MaxOpens
MetaFields == {"full", "extra"}   \* metadata map: known keys only, or an unknown one too

ASSUME \A d \in Databases : d.ipv \in {4, 6} /\ d.meta \in MetaFields
ASSUME \A f \in BadFiles : f \in {"missing", "invalid"}
ASSUME PathArgs \subseteq {"str", "bytes"}
ASSUME \A n \in NetmasksV4InV6 : n \in 0..128

VARIABLES
  alive,    \* the Reader object has not been deallocated
  mmdb,     \* self->mmdb: a handle or Nil
  closed,   \* self->closed: "NULL", "False" or "True"
  handles,  \* handles[h]: "unused", "open" or "freed"
  dbOf,     \* the database handle h was opened on
  pc,       \* pc[t]: "idle", or "packed" inside ip_converter's attribute read
  snap,     \* snap[t]: the mmdb get_record read before the attribute read
  arg,      \* arg[t]: the address argument of the get in progress
  res,      \* res[t]: the outcome of t's last call
  uaf,      \* where freed memory was read: "lookup" (a freed MMDB_s), "filename"
  dblFree   \* a handle was closed twice

vars == <<alive, mmdb, closed, handles, dbOf, pc, snap, arg, res, uaf, dblFree>>

NoDb == [ipv |-> 0, meta |-> "full"]
NoArg == [form |-> "none", fam |-> 0, len |-> 0]
Outcome(op, out, fam, plen) ==
  [op |-> op, out |-> out, fam |-> fam, plen |-> plen, addr |-> NoArg, ipv |-> 0]
\* The outcome of a get of address a on a database of IP version ipv.
GetOutcome(a, ipv, out, fam, plen) ==
  [op |-> "get", out |-> out, fam |-> fam, plen |-> plen, addr |-> a, ipv |-> ipv]
Idle == Outcome("none", "none", 0, 0)
\* "ValueError(closed)" and "OSError(closed)" are the errors raised with the
\* message "Attempt to read from a closed MaxMind DB.".

Opened == {h \in Handles : handles[h] # "unused"}

\* Thread t can call a reader method: it is idle, or the Python code run by
\* its own attribute read calls the reader (a nested call).
CanCall(t) == alive /\ pc[t] \in {"idle", "packed"}

-----------------------------------------------------------------------------
(* Reader_init, lines 50-117.  The object is a Reader whose construction   *)
(* succeeded; this is a later, explicit __init__ call on it.  Only a       *)
(* successful MMDB_open changes the object: it stores the new handle       *)
(* without looking at the one it holds.                                    *)
(*                                                                         *)
(* filename points into the bytes object filepath that                     *)
(* PyUnicode_FSConverter produced: for a str (or a path-like object) a new *)
(* object only filepath refers to, for bytes the argument itself with one  *)
(* more reference.  Py_XDECREF(filepath) at line 103 frees the former, and *)
(* the MMDB_open error message at line 110 is formatted from filename.     *)

\* The error Reader_init raises for bad file f given as p, and whether formatting it
\* reads the freed filename buffer.
OpenError(t, f, p) ==
  /\ res' = [res EXCEPT ![t] = Outcome("init",
              IF f = "missing" THEN "OSError" ELSE "InvalidDatabaseError", 0, 0)]
  /\ uaf' = IF f = "invalid" /\ p = "str" THEN uaf \cup {"filename"} ELSE uaf

ReaderInit(t) ==
  /\ CanCall(t)
  /\ \E m \in Modes :
       \/ /\ m \notin {0, 1}
          /\ res' = [res EXCEPT ![t] = Outcome("init", "ValueError", 0, 0)]
          /\ UNCHANGED <<mmdb, closed, handles, dbOf, uaf>>
       \/ /\ m \in {0, 1}
          /\ \E f \in BadFiles, p \in PathArgs : OpenError(t, f, p)
          /\ UNCHANGED <<mmdb, closed, handles, dbOf>>
       \/ /\ m \in {0, 1}
          /\ Cardinality(Opened) < MaxOpens
          /\ \E d \in Databases :
               LET h == Cardinality(Opened) + 1 IN
                 /\ handles' = [handles EXCEPT ![h] = "open"]
                 /\ dbOf' = [dbOf EXCEPT ![h] = d]
                 /\ mmdb' = h
                 /\ closed' = "False"
                 /\ res' = [res EXCEPT ![t] = Outcome("init", "ok", 0, 0)]
                 /\ UNCHANGED uaf
  /\ UNCHANGED <<alive, pc, snap, arg, dblFree>>

-----------------------------------------------------------------------------
(* get_record, lines 140-217, called by Reader_get and                     *)
(* Reader_get_with_prefix_len (lines 119-138).                             *)

\* Bug variant: the netmask is reduced by 96 without the >= 96 check.
PrefixLenNoFloor(n, fam, ipv) ==
  IF fam = 4 /\ ipv = 6 THEN n - 96 ELSE n

\* Bug variant: the correction tests for an IPv4 database.
PrefixLenWrongVersion(n, fam, ipv) ==
  IF fam = 4 /\ ipv = 4 THEN (IF n >= 96 THEN n - 96 ELSE 0) ELSE n

\* The prefix length get_record reports for raw netmask n (lines 180-185).
PrefixLen(n, fam, ipv) ==
  IF fam = 4 /\ ipv = 6 THEN (IF n >= 96 THEN n - 96 ELSE 0) ELSE n

\* Netmasks MMDB_lookup_sockaddr may report for a query of family fam.
Netmasks(fam, ipv) ==
  CASE ipv = 4 -> NetmasksV4Db
    [] fam = 6 -> NetmasksV6Db
    [] OTHER   -> NetmasksV4InV6

\* Statuses MMDB_lookup_sockaddr may report for a query of family fam on a
\* database of version ipv: an IPv6 address in an IPv4 tree is always
\* refused; otherwise the lookup succeeds or finds the tree corrupt.
EngineStatuses(fam, ipv) ==
  IF fam = 6 /\ ipv = 4 THEN {"ipv6_in_ipv4"} ELSE {"success", "corrupt"}

\* The exception get_record raises for a failed lookup (lines 163-169).
ErrorClass(status) ==
  IF status = "ipv6_in_ipv4" THEN "ValueError" ELSE "InvalidDatabaseError"

\* format_sockaddr (lines 298-315): inet_ntop into INET6_ADDRSTRLEN bytes
\* fails only for a family other than AF_INET and AF_INET6, and then sets
\* RuntimeError in place of the lookup's exception (lines 170-176, 195-200).
FormatSockaddr(fam) == fam \in {4, 6}

\* What from_entry_data_list raises when it fails (lines 462-509 and the
\* decoder): InvalidDatabaseError for a NULL node or an unknown type, the
\* UnicodeDecodeError of PyUnicode_FromStringAndSize for a string that is
\* not UTF-8, MemoryError.  A failed MMDB_get_entry_data_list is the first.
DecodeErrors == {"InvalidDatabaseError", "UnicodeDecodeError", "MemoryError"}

\* Everything after ip_converter produced address a of family fam: the
\* lookup on handle h, error classification, the prefix length, and the
\* decode of a found entry (which either yields a record or fails).
Lookup(t, h, a, fam) ==
  LET d == dbOf[h]
      Out(o, plen) == GetOutcome(a, d.ipv, o, fam, plen)
  IN
  /\ uaf' = IF handles[h] = "freed" THEN uaf \cup {"lookup"} ELSE uaf
  /\ \E status \in EngineStatuses(fam, d.ipv) :
       \/ /\ status # "success"
          /\ res' = [res EXCEPT ![t] =
                Out(IF FormatSockaddr(fam) THEN ErrorClass(status) ELSE "RuntimeError", 0)]
       \/ /\ status = "success"
          /\ \E n \in Netmasks(fam, d.ipv), o \in {"none", "record"} \cup DecodeErrors :
               res' = [res EXCEPT ![t] = Out(o, PrefixLen(n, fam, d.ipv))]

\* Arguments PyUnicode_Check accepts: ip_converter takes its str branch.
StrForms == {"text", "badtext"}

\* ip_converter's str branch (lines 220-257): a str that has no UTF-8 form
\* (a lone surrogate) or holds a NUL is a TypeError; getaddrinfo with
\* AI_NUMERICHOST gives the family, or rejects the text with ValueError.
GetText(t) ==
  /\ CanCall(t)
  /\ \E a \in Addresses :
       /\ a.form \in StrForms
       /\ IF mmdb = Nil
            THEN /\ res' = [res EXCEPT ![t] = Outcome("get", "ValueError(closed)", 0, 0)]
                 /\ UNCHANGED uaf
          ELSE IF a.form = "badtext" \/ a.fam = 0
            THEN /\ res' = [res EXCEPT ![t] = GetOutcome(a, dbOf[mmdb].ipv,
                              IF a.form = "badtext" THEN "TypeError" ELSE "ValueError", 0, 0)]
                 /\ UNCHANGED uaf
          ELSE Lookup(t, mmdb, a, a.fam)
  /\ UNCHANGED <<alive, mmdb, closed, handles, dbOf, pc, snap, arg, dblFree>>

\* Lines 141-150 and 259: read self->mmdb, then start reading "packed".
GetStart(t) ==
  /\ alive /\ pc[t] = "idle"
  /\ \E a \in Addresses :
       /\ a.form \notin StrForms
       /\ IF mmdb = Nil
            THEN /\ res' = [res EXCEPT ![t] = Outcome("get", "ValueError(closed)", 0, 0)]
                 /\ UNCHANGED <<pc, snap, arg>>
            ELSE /\ pc' = [pc EXCEPT ![t] = "packed"]
                 /\ snap' = [snap EXCEPT ![t] = mmdb]
                 /\ arg' = [arg EXCEPT ![t] = a]
                 /\ UNCHANGED res
  /\ UNCHANGED <<alive, mmdb, closed, handles, dbOf, uaf, dblFree>>

\* Lines 260-296, then 154-217 with the mmdb read before the attribute.
GetFinish(t) ==
  /\ pc[t] = "packed"
  /\ LET a == arg[t] IN
       IF a.form = "packed" /\ a.len \in {4, 16}
         THEN Lookup(t, snap[t], a, IF a.len = 4 THEN 4 ELSE 6)
         ELSE /\ res' = [res EXCEPT ![t] = GetOutcome(a, dbOf[snap[t]].ipv,
                           IF a.form = "packed" THEN "ValueError" ELSE "TypeError", 0, 0)]
              /\ UNCHANGED uaf
  /\ pc' = [pc EXCEPT ![t] = "idle"]
  /\ snap' = [snap EXCEPT ![t] = Nil]
  /\ arg' = [arg EXCEPT ![t] = NoArg]
  /\ UNCHANGED <<alive, mmdb, closed, handles, dbOf, dblFree>>

-----------------------------------------------------------------------------
(* Reader_metadata (lines 316-347).  The metadata map is decoded and      *)
(* PyObject_Call passes it to the Metadata type as keywords; that type,    *)
(* and what its fields hold, is MetadataObject.  Here only the outcome     *)
(* matters: an unknown key fails Metadata_init, and the Metadata_dealloc   *)
(* that follows Py_DECREFs the NULL fields of the new object (a crash).    *)

\* Outcome of Reader_metadata on handle h once the map is decoded: an
\* unknown key ends in Metadata_dealloc's Py_DECREF(NULL).
MetadataOutcome(t, h) ==
  res' = [res EXCEPT ![t] = Outcome("metadata",
                              IF dbOf[h].meta = "extra" THEN "crash" ELSE "ok", 0, 0)]

\* A closed reader raises OSError; a decode that returns NULL (the list
\* libmaxminddb returned, whose status is ignored, may be NULL) raises
\* InvalidDatabaseError.
ReaderMetadata(t) ==
  /\ CanCall(t)
  /\ \/ /\ mmdb = Nil
        /\ res' = [res EXCEPT ![t] = Outcome("metadata", "OSError(closed)", 0, 0)]
     \/ /\ mmdb # Nil
        /\ res' = [res EXCEPT ![t] = Outcome("metadata", "InvalidDatabaseError", 0, 0)]
     \/ /\ mmdb # Nil
        /\ MetadataOutcome(t, mmdb)
  /\ UNCHANGED <<alive, mmdb, closed, handles, dbOf, pc, snap, arg, uaf, dblFree>>

-----------------------------------------------------------------------------
(* Reader_close (lines 349-361), shared by close, __exit__ and dealloc.    *)

\* Bug variant: Reader_close frees the handle but leaves self->mmdb set.
CloseEffectNoReset ==
  /\ IF mmdb # Nil
       THEN /\ handles' = [handles EXCEPT ![mmdb] = "freed"]
            /\ dblFree' = (dblFree \/ handles[mmdb] = "freed")
       ELSE UNCHANGED <<handles, dblFree>>
  /\ UNCHANGED mmdb
  /\ closed' = "True"

\* The state change of Reader_close.
CloseEffect ==
  /\ IF mmdb # Nil
       THEN /\ handles' = [handles EXCEPT ![mmdb] = "freed"]
            /\ dblFree' = (dblFree \/ handles[mmdb] = "freed")
       ELSE UNCHANGED <<handles, dblFree>>
  /\ mmdb' = Nil
  /\ closed' = "True"

\* close() and __exit__ (lines 376-379).
ReaderClose(t) ==
  /\ CanCall(t)
  /\ CloseEffect
  /\ \E op \in {"close", "exit"} : res' = [res EXCEPT ![t] = Outcome(op, "ok", 0, 0)]
  /\ UNCHANGED <<alive, dbOf, pc, snap, arg, uaf>>

\* __enter__ (lines 363-374) refuses a closed reader.
ReaderEnter(t) ==
  /\ CanCall(t)
  /\ res' = [res EXCEPT ![t] = Outcome("enter", IF closed = "True" THEN "ValueError" ELSE "ok", 0, 0)]
  /\ UNCHANGED <<alive, mmdb, closed, handles, dbOf, pc, snap, arg, uaf, dblFree>>

\* Reader_dealloc (lines 381-388): the last reference is gone, so no call
\* is in progress; an open handle is closed.
ReaderDealloc ==
  /\ alive
  /\ \A t \in Threads : pc[t] = "idle"
  /\ IF mmdb # Nil THEN CloseEffect ELSE UNCHANGED <<mmdb, closed, handles, dblFree>>
  /\ alive' = FALSE
  /\ UNCHANGED <<dbOf, pc, snap, arg, res, uaf>>

-----------------------------------------------------------------------------

Init ==
  /\ alive = TRUE
  /\ \E d \in Databases :
       /\ handles = [h \in Handles |-> IF h = 1 THEN "open" ELSE "unused"]
       /\ dbOf = [h \in Handles |-> IF h = 1 THEN d ELSE NoDb]
  /\ mmdb = 1
  /\ closed = "False"
  /\ pc = [t \in Threads |-> "idle"]
  /\ snap = [t \in Threads |-> Nil]
  /\ arg = [t \in Threads |-> NoArg]
  /\ res = [t \in Threads |-> Idle]
  /\ uaf = {}
  /\ dblFree = FALSE

Next ==
  \/ \E t \in Threads :
       \/ ReaderInit(t) \/ GetText(t) \/ GetStart(t) \/ GetFinish(t)
       \/ ReaderMetadata(t) \/ ReaderClose(t) \/ ReaderEnter(t)
  \/ ReaderDealloc

Spec == Init /\ [][Next]_vars

-----------------------------------------------------------------------------
(* Properties                                                              *)

TypeOK ==
  /\ alive \in BOOLEAN
  /\ mmdb \in Handles \cup {Nil}
  /\ closed \in {"NULL", "False", "True"}
  /\ handles \in [Handles -> {"unused", "open", "freed"}]
  /\ pc \in [Threads -> {"idle", "packed"}]
  /\ snap \in [Threads -> Handles \cup {Nil}]
  /\ \A t \in Threads : res[t].plen \in 0..128
  /\ uaf \subseteq {"lookup", "filename"} /\ dblFree \in BOOLEAN

\* An IPv4 lookup reports a prefix length of at most 32 whatever the
\* database's IP version and wherever the IPv4 subtree of an IPv6 tree
\* sits (the correction of get_record, lines 180-185).
PrefixLenInRange ==
  \A t \in Threads :
    (res[t].op = "get" /\ res[t].out \in {"none", "record"} /\ res[t].fam = 4)
      => res[t].plen <= 32

\* The spec's InvalidAddress (sections 4.1, 4.2 and 7): a str that is not a
\* numeric address or holds a NUL, an object with no bytes "packed", a
\* packed length other than 4 or 16, or an IPv6 address on an IPv4 tree.
SpecInvalid(a, ipv) ==
  \/ a.form \in {"badtext", "object"}
  \/ a.form = "text" /\ a.fam = 0
  \/ a.form = "packed" /\ a.len \notin {4, 16}
  \/ ipv = 4 /\ (a.fam = 6 \/ a.len = 16)

\* The exceptions a caller of get catches as its own error: TypeError and
\* ValueError with its subclass UnicodeDecodeError.
CallerErrors == {"TypeError", "ValueError", "UnicodeDecodeError"}

\* A get on an open reader fails with a caller error exactly when the spec
\* calls its argument invalid for that database (sections 4.1, 4.2 and 7,
\* where a database the decoder cannot read is CorruptDatabase):
\* ip_converter's checks, get_record's split of the engine's statuses
\* (lines 163-169) and the decoder's exceptions together never blame the
\* caller for a corrupt database nor the database for a bad address.
AddressErrorsClassified ==
  \A t \in Threads :
    (res[t].op = "get" /\ res[t].out # "ValueError(closed)")
      => (res[t].out \in CallerErrors <=> SpecInvalid(res[t].addr, res[t].ipv))

\* Through any sequence of __init__, close, __exit__ and dealloc calls the
\* reader never holds a freed handle, closed is True exactly when it holds
\* none, and no handle is closed twice (close is idempotent).
HandleSafety ==
  /\ ~dblFree
  /\ mmdb # Nil => handles[mmdb] = "open"
  /\ closed = "True" <=> mmdb = Nil

\* A lookup never runs on a handle that close already freed, whatever the
\* address argument's "packed" attribute or another thread does meanwhile.
NoLookupOnFreedHandle == "lookup" \notin uaf

\* A failed open reports its error without reading memory Reader_init has
\* already released: the message names the file from a live buffer.
NoFreedFilenameRead == "filename" \notin uaf

\* Every handle MMDB_open filled is either the one the live reader holds
\* or has been closed: no MMDB_s and no mapping is leaked.
NoLeakedHandle ==
  \A h \in Handles : handles[h] = "open" => (alive /\ h = mmdb)


=============================================================================
