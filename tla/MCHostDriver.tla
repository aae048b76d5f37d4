---------------------------- MODULE MCHostDriver ----------------------------
(* Strings of a few lengths, with start, end and error bytes among their data. *)
EXTENDS HostDriver

CONSTANT LongName  \* length of one more host name; 0 for none

MCSsids == {<<238>>}
MCPassphrases == {<<239, 224, 1, 7>>}
MCNames == {<<119>>} \cup {[i \in 1 .. n |-> 97] : n \in {LongName} \ {0}}
MCChunks == {<<>>, <<224, 239, 238>>}
MCHeld == {<<>>, <<238, 239>>, <<1, 224, 5>>}
MCAddresses == {<<10, 0, 238, 1>>}
MCPorts == {443}
MCHeldLong == {[i \in 1 .. 300 |-> 1]}

=============================================================================
