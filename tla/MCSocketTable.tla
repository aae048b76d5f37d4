---------------------------- MODULE MCSocketTable ----------------------------
(* Small instances of SocketTable for TLC. *)
EXTENDS SocketTable, TLC

NetconnSymmetry == Permutations(Netconns)

\* The result of the last call steers nothing in the table.
WithoutRet == <<sockets, conn, fw, wait, delivered, promised>>

=============================================================================
