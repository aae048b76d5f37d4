----------------------------- MODULE MCWsgiServer -----------------------------
(* Requests with and without a body, and one whose first line is malformed.    *)
EXTENDS WsgiServer

Get == <<"line", "blank">>
Post == <<"line", "blank", "body">>
LongPost == <<"line", "blank", "body", "body">>
Malformed == <<"junk", "blank">>

Mixed == {Get, Post, Malformed}
Plain == {Get}
Long == {LongPost}

=============================================================================
