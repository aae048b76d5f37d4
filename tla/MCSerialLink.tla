---------------------------- MODULE MCSerialLink ----------------------------
(* A short and a longer command; the longer one carries an '@' among its data. *)
EXTENDS SerialLink

MCPackets == {<<1, 5>>, <<2, 64, 7>>}
MCCmdLen == [code \in 0 .. 255 |-> IF code = 2 THEN 3 ELSE 2]

=============================================================================
