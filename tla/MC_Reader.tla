----------------------------- MODULE MC_Reader -----------------------------
(***************************************************************************)
(* Model-checking instance of Reader: one thread, up to three successful   *)
(* opens, an IPv4 database and IPv6 databases whose metadata map has known *)
(* keys only or an unknown one too, every form of address argument, and    *)
(* netmasks on both sides of the 96-bit IPv4 subtree offset.  Calls nested *)
(* in the "packed" attribute read do, at the one point where get_record    *)
(* lets Python code run, whatever a second thread could do there.          *)
(***************************************************************************)
EXTENDS Reader

CONSTANTS t1

MCThreads == {t1}

MCDatabases ==
  {[ipv |-> 4, meta |-> "full"], [ipv |-> 6, meta |-> "full"],
   [ipv |-> 6, meta |-> "extra"]}

MCAddresses ==
  {[form |-> "text", fam |-> 4, len |-> 0],     \* "1.2.3.4"
   [form |-> "text", fam |-> 6, len |-> 0],     \* "2001:db8::1", "::ffff:1.2.3.4"
   [form |-> "text", fam |-> 0, len |-> 0],     \* "1.2.3", "not an address"
   [form |-> "badtext", fam |-> 0, len |-> 0],  \* "1.2.3.4\0", "\udc80"
   [form |-> "packed", fam |-> 0, len |-> 4],   \* ipaddress.IPv4Address
   [form |-> "packed", fam |-> 0, len |-> 16],  \* ipaddress.IPv6Address
   [form |-> "packed", fam |-> 0, len |-> 5],   \* packed of another length
   [form |-> "object", fam |-> 0, len |-> 0]}   \* no usable "packed"

=============================================================================
