---------------------------- MODULE EntryDecoder ----------------------------
(***************************************************************************)
(* The entry decoder of extension/maxminddb.c: from_entry_data_list,       *)
(* from_map and from_array turn libmaxminddb's flat, pre-order list of     *)
(* typed nodes into nested Python objects.                                 *)
(*                                                                         *)
(* The C functions are mutually recursive and share one cursor, the        *)
(* MMDB_entry_data_list_s ** they all advance.  The model makes the call   *)
(* stack explicit: one frame per from_map / from_array activation, and a   *)
(* mode telling whether the next step enters from_entry_data_list          *)
(* ("call"), runs a loop iteration of the top frame ("loop") or hands a    *)
(* return value back to it ("ret").                                        *)
(*                                                                         *)
(* Python objects are identified by the index of the node that created     *)
(* them (each node is decoded at most once).  Every object has one         *)
(* reference: a C local, or the container that owns it (owner).  Dropping  *)
(* a reference (Py_DECREF) frees the object and everything it owns.        *)
(*                                                                         *)
(* A node is a record [type, size, str].  The nine scalar types of the     *)
(* switch (bytes, double, float, uint16, uint32, boolean, uint64, uint128, *)
(* int32) behave alike here: each allocates one object and may fail with   *)
(* MemoryError; they are the single type "scalar".  A utf8_string node     *)
(* carries its text in str; BadUtf8 stands for bytes that are not valid    *)
(* UTF-8, which PyUnicode_FromStringAndSize rejects.  "unknown" is a type  *)
(* tag the switch does not know.                                           *)
(***************************************************************************)
EXTENDS Integers, Sequences, FiniteSets, SequencesExt

CONSTANTS
  Inputs,          \* the entry data lists the decoder may be handed
  KeyStrs,         \* valid UTF-8 texts of string nodes
  BadUtf8,         \* the text of a string node that is not valid UTF-8
  NoStr,           \* the str field of a node that is not a string
  AllocMayFail,    \* whether an object allocation may raise MemoryError
  SetItemMayFail   \* whether PyDict_SetItem may fail (it may grow the table)

Nil == 0           \* NULL, as a cursor and as an object

ContainerTypes == {"map", "array"}
NodeTypes == ContainerTypes \cup {"utf8_string", "scalar", "unknown"}

VARIABLES
  list,      \* the entry data list, fixed for one decode
  cursor,    \* *entry_data_list: index of the current node, or Nil
  stack,     \* from_map / from_array activations, innermost last
  mode,      \* "call", "loop", "ret", or "crash" after a NULL dereference
  ret,       \* the value the last from_entry_data_list call returned
  err,       \* a Python exception is set
  oom,       \* some allocation raised MemoryError in this decode
  live,      \* objects allocated and not yet freed
  owner,     \* owner[o]: the container holding o's reference, or Nil
  slots,     \* slots[o]: contents of container o (key text or index -> object)
  memFault   \* a Py_DECREF reached an object that was already freed

vars == <<list, cursor, stack, mode, ret, err, oom, live, owner, slots, memFault>>

Objs == 1..Len(list)
Top == stack[Len(stack)]
FailChoices == IF AllocMayFail THEN BOOLEAN ELSE {FALSE}
SetItemChoices == IF SetItemMayFail THEN BOOLEAN ELSE {FALSE}

\* (*entry_data_list)->next
NextNode(c) == IF c < Len(list) THEN c + 1 ELSE Nil

\* Objects transitively owned by o.
RECURSIVE OwnedBy(_, _)
OwnedBy(x, o) == owner[x] # Nil /\ (owner[x] = o \/ OwnedBy(owner[x], o))
Subtree(S) == S \cup {x \in live : \E o \in S : OwnedBy(x, o)}

\* Py_DECREF of each object in S, whose reference is the last one.
Release(S) ==
  /\ live' = live \ Subtree(S)
  /\ memFault' = (memFault \/ ~(S \subseteq live))

\* from_entry_data_list returns v to its caller (err: it set an exception).
Return(v, e) ==
  /\ ret' = v
  /\ err' = (err \/ e)
  /\ mode' = "ret"

-----------------------------------------------------------------------------
(* from_entry_data_list, lines 463-510                                     *)

\* A NULL cursor is reported as a corrupt database.
DecodeNull ==
  /\ mode = "call"
  /\ cursor = Nil
  /\ Return(Nil, TRUE)
  /\ UNCHANGED <<list, cursor, stack, oom, live, owner, slots, memFault>>

\* from_map / from_array start: PyDict_New, or PyList_New(size).
DecodeContainer ==
  /\ mode = "call"
  /\ cursor # Nil
  /\ list[cursor].type \in ContainerTypes
  /\ \E fail \in FailChoices :
       IF fail
         THEN /\ Return(Nil, TRUE)
              /\ oom' = TRUE
              /\ UNCHANGED <<stack, live>>
         ELSE /\ stack' = Append(stack, [fn |-> list[cursor].type,
                                         obj |-> cursor,
                                         size |-> list[cursor].size,
                                         i |-> 0, key |-> Nil, kstr |-> NoStr])
              /\ live' = live \cup {cursor}
              /\ mode' = "loop"
              /\ UNCHANGED <<ret, err, oom>>
  /\ UNCHANGED <<list, cursor, owner, slots, memFault>>

\* A scalar or a string: one object, or NULL with an exception.
DecodeLeaf ==
  /\ mode = "call"
  /\ cursor # Nil
  /\ list[cursor].type \in {"utf8_string", "scalar"}
  /\ \E fail \in FailChoices :
       IF fail \/ list[cursor].str = BadUtf8
         THEN /\ Return(Nil, TRUE)
              /\ oom' = (oom \/ fail)
              /\ UNCHANGED live
         ELSE /\ Return(cursor, FALSE)
              /\ live' = live \cup {cursor}
              /\ UNCHANGED oom
  /\ UNCHANGED <<list, cursor, stack, owner, slots, memFault>>

\* The default branch: an unknown type tag.
DecodeUnknown ==
  /\ mode = "call"
  /\ cursor # Nil
  /\ list[cursor].type = "unknown"
  /\ Return(Nil, TRUE)
  /\ UNCHANGED <<list, cursor, stack, oom, live, owner, slots, memFault>>

-----------------------------------------------------------------------------
(* from_map, lines 512-551                                                 *)

\* The text PyUnicode_FromStringAndSize reads at a key node.  The code
\* does not check the key's type; for any other type it reads the union
\* member utf8_string of another member, which is undefined: any text, an
\* invalid one, or a crash.
KeyTexts(n) ==
  IF n.type = "utf8_string" THEN {n.str} ELSE KeyStrs \cup {BadUtf8}
KeyMayCrash(n) == n.type # "utf8_string"

\* Bug variant: the value is decoded from the key node itself.
ValueNodeSkipped(k) == k

\* The second step of an iteration, from the key to its value (line 537).
ValueNode(k) == NextNode(k)

\* One iteration up to the recursive call: step to the key, build the key
\* object, step to the value.  A failing key returns NULL without
\* releasing the dict (line 534).
MapKey ==
  /\ mode = "loop"
  /\ stack # <<>>
  /\ Top.fn = "map"
  /\ Top.i < Top.size
  /\ LET k == NextNode(cursor) IN
       \/ /\ IF k = Nil THEN TRUE ELSE KeyMayCrash(list[k])
          /\ mode' = "crash"
          /\ UNCHANGED <<cursor, stack, ret, err, oom, live>>
       \/ /\ k # Nil
          /\ \E s \in KeyTexts(list[k]), fail \in FailChoices :
               IF fail \/ s = BadUtf8
                 THEN /\ cursor' = k
                      /\ stack' = Front(stack)
                      /\ Return(Nil, TRUE)
                      /\ oom' = (oom \/ fail)
                      /\ UNCHANGED live
                 ELSE /\ cursor' = ValueNode(k)
                      /\ stack' = [stack EXCEPT ![Len(stack)].key = k,
                                                ![Len(stack)].kstr = s]
                      /\ live' = live \cup {k}
                      /\ mode' = "call"
                      /\ UNCHANGED <<ret, err, oom>>
  /\ UNCHANGED <<list, owner, slots, memFault>>

\* Bug variant: the Py_DECREF(key) after PyDict_SetItem is missing.
DictStoreKeptKey(d, s, k, v) ==
  IF s \in DOMAIN slots[d]
    THEN /\ Release({slots[d][s]})
         /\ slots' = [slots EXCEPT ![d][s] = v]
         /\ owner' = [owner EXCEPT ![v] = d]
    ELSE /\ slots' = [slots EXCEPT ![d] = @ @@ (s :> v)]
         /\ owner' = [owner EXCEPT ![v] = d, ![k] = d]
         /\ UNCHANGED <<live, memFault>>

\* PyDict_SetItem(d, key k with text s, v), then Py_DECREF(v) and
\* Py_DECREF(k).  An existing key keeps its first key object and takes the
\* new value; the old value and the new key lose their last reference.
DictStore(d, s, k, v) ==
  IF s \in DOMAIN slots[d]
    THEN /\ Release({slots[d][s], k})
         /\ slots' = [slots EXCEPT ![d][s] = v]
         /\ owner' = [owner EXCEPT ![v] = d]
    ELSE /\ slots' = [slots EXCEPT ![d] = @ @@ (s :> v)]
         /\ owner' = [owner EXCEPT ![v] = d, ![k] = d]
         /\ UNCHANGED <<live, memFault>>

\* The value came back: on NULL drop key and dict and return NULL (the
\* exception is the callee's); else
\* store it.  PyDict_SetItem's status is ignored: when it fails, value and
\* key are dropped, the exception stays set and the loop goes on.
MapValue ==
  /\ mode = "ret"
  /\ stack # <<>>
  /\ Top.fn = "map"
  /\ IF ret = Nil
       THEN /\ Release({Top.key, Top.obj})
            /\ stack' = Front(stack)
            /\ Return(Nil, FALSE)
            /\ UNCHANGED <<owner, slots>>
       ELSE /\ stack' = [stack EXCEPT ![Len(stack)].i = @ + 1,
                                      ![Len(stack)].key = Nil,
                                      ![Len(stack)].kstr = NoStr]
            /\ mode' = "loop"
            /\ UNCHANGED ret
            /\ \E fail \in SetItemChoices :
                 IF fail
                   THEN /\ Release({ret, Top.key})
                        /\ err' = TRUE
                        /\ UNCHANGED <<owner, slots>>
                   ELSE /\ DictStore(Top.obj, Top.kstr, Top.key, ret)
                        /\ UNCHANGED err
  /\ UNCHANGED <<list, cursor, oom>>

-----------------------------------------------------------------------------
(* from_array, lines 553-577                                               *)

\* Bug variant: the loop runs while i <= size.
ArrayLoopsOffByOne == Top.i <= Top.size

\* The loop condition i < size (the second conjunct, entry_data_list, is
\* the address of the caller's cursor and never NULL).
ArrayLoops == Top.i < Top.size

\* One iteration up to the recursive call: step to the element.  The node
\* dereferenced is the array node or the last node of the previous
\* element, never NULL.
ArrayElement ==
  /\ mode = "loop"
  /\ stack # <<>>
  /\ Top.fn = "array"
  /\ ArrayLoops
  /\ cursor' = NextNode(cursor)
  /\ mode' = "call"
  /\ UNCHANGED <<list, stack, ret, err, oom, live, owner, slots, memFault>>

\* Bug variant: Py_DECREF(value) after PyList_SetItem stole it.
ListStoreExtraDecref(a, i, v) ==
  /\ slots' = [slots EXCEPT ![a] = @ @@ ((i + 1) :> v)]
  /\ owner' = [owner EXCEPT ![v] = a]
  /\ Release({v})

\* PyList_SetItem(a, i, v) steals the reference to v into slot i.
ListStore(a, i, v) ==
  /\ slots' = [slots EXCEPT ![a] = @ @@ ((i + 1) :> v)]
  /\ owner' = [owner EXCEPT ![v] = a]
  /\ UNCHANGED <<live, memFault>>

\* The element came back: on NULL drop the list and return NULL (the
\* exception is the callee's); else store it in slot i.
ArrayValue ==
  /\ mode = "ret"
  /\ stack # <<>>
  /\ Top.fn = "array"
  /\ IF ret = Nil
       THEN /\ Release({Top.obj})
            /\ stack' = Front(stack)
            /\ Return(Nil, FALSE)
            /\ UNCHANGED <<owner, slots>>
       ELSE /\ ListStore(Top.obj, Top.i, ret)
            /\ stack' = [stack EXCEPT ![Len(stack)].i = @ + 1]
            /\ mode' = "loop"
            /\ UNCHANGED <<ret, err>>
  /\ UNCHANGED <<list, cursor, oom>>

\* Both loops end after size iterations and return the container.
ContainerDone ==
  /\ mode = "loop"
  /\ stack # <<>>
  /\ Top.i = Top.size
  /\ stack' = Front(stack)
  /\ Return(Top.obj, FALSE)
  /\ UNCHANGED <<list, cursor, oom, live, owner, slots, memFault>>

-----------------------------------------------------------------------------

Init ==
  /\ list \in Inputs
  /\ cursor = 1
  /\ stack = <<>>
  /\ mode = "call"
  /\ ret = Nil
  /\ err = FALSE
  /\ oom = FALSE
  /\ live = {}
  /\ owner = [o \in Objs |-> Nil]
  /\ slots = [o \in Objs |-> <<>>]
  /\ memFault = FALSE

Next ==
  \/ DecodeNull \/ DecodeContainer \/ DecodeLeaf \/ DecodeUnknown
  \/ MapKey \/ MapValue
  \/ ArrayElement \/ ArrayValue
  \/ ContainerDone

Spec == Init /\ [][Next]_vars

\* The outermost from_entry_data_list call has returned.
Finished == mode = "ret" /\ stack = <<>>

-----------------------------------------------------------------------------
(***************************************************************************)
(* What the list means (spec section 3, TaggedNode and DecodedValue): a    *)
(* map node is followed by size (key, value) pairs whose keys are string   *)
(* nodes, an array node by size values, both in pre-order.  ParseAt(l, k)  *)
(* reads the tree rooted at node k: wf is FALSE when the list breaks that  *)
(* contract; bad is TRUE when a string is not UTF-8 or a tag is unknown;   *)
(* val is the decoded value (a later duplicate key wins) and last the      *)
(* index of the tree's last node.                                          *)
(***************************************************************************)
Leaf(n) == [kind |-> "leaf", val |-> n]
Malformed == [wf |-> FALSE, bad |-> FALSE, val |-> Nil, last |-> Nil]
Decodable(n) == n.type \in {"utf8_string", "scalar"} /\ n.str # BadUtf8

RECURSIVE ParseAt(_, _), ParsePairs(_, _, _, _, _), ParseItems(_, _, _, _, _)
ParseAt(l, k) ==
  IF k > Len(l) THEN Malformed
  ELSE CASE l[k].type = "map"   -> ParsePairs(l, l[k].size, k, <<>>, FALSE)
         [] l[k].type = "array" -> ParseItems(l, l[k].size, k, <<>>, FALSE)
         [] OTHER -> [wf |-> TRUE, bad |-> ~Decodable(l[k]),
                      val |-> Leaf(l[k]), last |-> k]

ParsePairs(l, left, k, m, bad) ==
  IF left = 0
    THEN [wf |-> TRUE, bad |-> bad, val |-> [kind |-> "map", val |-> m], last |-> k]
  ELSE IF k + 1 > Len(l) \/ l[k + 1].type # "utf8_string" THEN Malformed
  ELSE LET s == l[k + 1].str
           v == ParseAt(l, k + 2)
       IN IF ~v.wf THEN Malformed
          ELSE ParsePairs(l, left - 1, v.last,
                          [x \in DOMAIN m \cup {s} |-> IF x = s THEN v.val ELSE m[x]],
                          bad \/ v.bad \/ s = BadUtf8)

ParseItems(l, left, k, sq, bad) ==
  IF left = 0
    THEN [wf |-> TRUE, bad |-> bad, val |-> [kind |-> "array", val |-> sq], last |-> k]
  ELSE LET v == ParseAt(l, k + 1)
       IN IF ~v.wf THEN Malformed
          ELSE ParseItems(l, left - 1, v.last, Append(sq, v.val), bad \/ v.bad)

\* A list libmaxminddb can hand over: exactly one tree.
WellFormed(l) == ParseAt(l, 1).wf /\ ParseAt(l, 1).last = Len(l)

\* The list with every scalar node read as a string node: a list that is
\* malformed only because a map key is a scalar becomes well-formed.
StringKeysOnly(l) ==
  [j \in DOMAIN l |-> IF l[j].type = "scalar"
                        THEN [type |-> "utf8_string", size |-> 0,
                              str |-> CHOOSE s \in KeyStrs : TRUE]
                        ELSE l[j]]
NonStringKey(l) == ~WellFormed(l) /\ WellFormed(StringKeysOnly(l))

\* The Python value object o stands for, read from the heap.
RECURSIVE Value(_)
Value(o) ==
  CASE list[o].type = "map" ->
         [kind |-> "map", val |-> [x \in DOMAIN slots[o] |-> Value(slots[o][x])]]
    [] list[o].type = "array" ->
         [kind |-> "array", val |-> [j \in DOMAIN slots[o] |-> Value(slots[o][j])]]
    [] OTHER -> Leaf(list[o])

-----------------------------------------------------------------------------
(* Properties                                                              *)

TypeOK ==
  /\ cursor \in Objs \cup {Nil}
  /\ mode \in {"call", "loop", "ret", "crash"}
  /\ ret \in Objs \cup {Nil}
  /\ err \in BOOLEAN /\ oom \in BOOLEAN /\ memFault \in BOOLEAN
  /\ live \subseteq Objs
  /\ owner \in [Objs -> Objs \cup {Nil}]
  /\ \A f \in Range(stack) :
       /\ f.fn \in ContainerTypes /\ f.obj \in Objs /\ f.key \in Objs \cup {Nil}
       /\ f.i \in 0..f.size

\* Decoding a list that keeps the pre-order contract returns exactly the
\* tree the list describes and leaves the shared cursor on its last node,
\* unless a string or tag is undecodable or an allocation failed; then it
\* returns NULL.  This is what the cursor threading of from_map, from_array
\* and from_entry_data_list has to get right.
DecodeMatchesReference ==
  (Finished /\ WellFormed(list)) =>
    LET r == ParseAt(list, 1) IN
      IF r.bad \/ oom
        THEN ret = Nil
        ELSE ret # Nil /\ Value(ret) = r.val /\ cursor = Len(list)

\* No container that is still alive holds a freed object, and no object is
\* released twice: the Py_DECREFs of from_map and from_array, including the
\* ones for a replaced duplicate key, match the references they own.
NoUseAfterFree ==
  /\ ~memFault
  /\ \A o \in live : Range(slots[o]) \subseteq live
  /\ Finished /\ ret # Nil => ret \in live

\* A successful decode leaves no object behind other than the returned
\* tree: every key, value and replaced duplicate was released.
SuccessNoLeak ==
  (Finished /\ ret # Nil) => live = Subtree({ret})

\* A failed decode leaves no object allocated: every partly built
\* container is released on the way out.
ErrorNoLeak ==
  (Finished /\ ret = Nil) => live = {}

\* A list that breaks the pre-order contract, because it ends before the
\* announced tree is complete or because a map key is not a string, is a
\* corrupt database (spec sections 3 and 6): the decoder neither
\* dereferences a NULL node pointer nor builds a dict from whatever the
\* key's union member holds; it returns NULL with an exception set.
CorruptListRejected ==
  /\ mode # "crash"
  /\ Finished /\ ~WellFormed(list) => ret = Nil /\ err

\* from_entry_data_list returns NULL exactly when it set an exception, on
\* every error path (NULL cursor, bad UTF-8, unknown tag, MemoryError at
\* any depth, PyDict_SetItem failing), so the caller never gets a value
\* together with a pending error, nor NULL without one.
ErrorIffNull ==
  Finished => (ret = Nil <=> err)


=============================================================================
