--------------------------- MODULE MCSocketClient ---------------------------
(* Two objects over two slots, or over one that both of them name.            *)
EXTENDS SocketClient, TLC

Symmetries == Permutations(Netconns) \cup Permutations(Objects)

\* The result of the last call steers nothing once the step that looks at it is over.
WithoutRet == <<sockets, conn, fw, wait, delivered, promised, clientVars>>

=============================================================================
