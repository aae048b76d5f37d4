------------------------------ MODULE WsgiServer ------------------------------
(***************************************************************************)
(* WSGIServer of adafruit_esp32spi_wsgiserver.py and the socket objects it *)
(* makes.  The firmware of this repository has no server (its start_server *)
(* raises); here the driver's commands reach one that has (external):      *)
(* asked for the data of the server's slot it answers with the slot of a   *)
(* connected client that has sent something, or 255.                       *)
(*                                                                         *)
(* A request is a line, its header lines ending in a blank one, and the    *)
(* pieces of a body its content-length announces.  The program starts the  *)
(* server once, polls it in its main loop, goes on polling after an        *)
(* exception, and may use sockets of its own between two polls.  The       *)
(* application returns.                                                    *)
(***************************************************************************)
EXTENDS Naturals, Sequences

CONSTANTS
    Slots,       \* slot numbers of the firmware
    Requests,    \* what clients send, piece by piece
    Patient,     \* clients wait for their answer
    OwnSockets   \* the program has sockets of its own

NoSlot == 255
Pieces == {"line", "junk", "blank", "body"}

ASSUME SlotsAssumption == Slots \subseteq 0 .. 254
ASSUME RequestsAssumption == Requests \subseteq Seq(Pieces)
ASSUME SwitchesAssumption == {Patient, OwnSockets} \subseteq BOOLEAN

VARIABLES
    slots,   \* external: the firmware's slots and the connections on them
    server,  \* _server_sock's socknum
    client,  \* _client_sock: its _socknum and _buffer
    poll     \* update_poll: its place, and the body read so far

vars == <<slots, server, client, poll>>

\* "sent" counts the pieces of the request that have left the peer, "answers" the
\* responses it got.
Connection(use, request) ==
    [use |-> use, open |-> TRUE, request |-> request, sent |-> 0, data |-> <<>>, answers |-> 0]
Free == [Connection("free", <<>>) EXCEPT !.open = FALSE]
Server == [Free EXCEPT !.use = "server"]

NoClient == [socknum |-> NoSlot, buffer |-> <<>>]
Rest == [at |-> "rest", body |-> <<>>]

Init ==
    /\ slots = [s \in Slots |-> Free]
    /\ server = NoSlot
    /\ client = NoClient
    /\ poll = Rest

Data(s) == slots[s].data
Goes(at) == poll' = [poll EXCEPT !.at = at]
Announced(s) == Len(SelectSeq(slots[s].request, LAMBDA p : p = "body"))

-----------------------------------------------------------------------------
(* The firmware and the peers *)

Connects(s, request) ==
    /\ server # NoSlot /\ slots[s] = Free
    /\ slots' = [slots EXCEPT ![s] = Connection("client", request)]
    /\ UNCHANGED <<server, client, poll>>

PeerSends(s) ==
    /\ slots[s].open /\ slots[s].sent < Len(slots[s].request)
    /\ slots' = [slots EXCEPT ![s].sent = @ + 1,
                              ![s].data = Append(@, slots[s].request[slots[s].sent + 1])]
    /\ UNCHANGED <<server, client, poll>>

PeerCloses(s) ==
    /\ slots[s].open
    /\ ~Patient
    /\ slots' = [slots EXCEPT ![s].open = FALSE]
    /\ UNCHANGED <<server, client, poll>>

\* socket_available on the server's slot: any client that has something.
Waiting == {s \in Slots : slots[s].use = "client" /\ Data(s) # <<>>}

\* The program's own socket, opened with get_socket, and closed.
OpensOwn(s) ==
    /\ OwnSockets /\ poll = Rest /\ slots[s] = Free
    /\ \E request \in Requests : slots' = [slots EXCEPT ![s] = Connection("own", request)]
    /\ UNCHANGED <<server, client, poll>>

ClosesOwn(s) ==
    /\ poll = Rest /\ slots[s].use = "own"
    /\ slots' = [slots EXCEPT ![s] = Free]
    /\ UNCHANGED <<server, client, poll>>

-----------------------------------------------------------------------------
(* start and client_available *)

\* get_socket gives the server whatever slot is free.
Start(s) ==
    /\ poll = Rest /\ server = NoSlot /\ slots[s] = Free
    /\ server' = s
    /\ slots' = [slots EXCEPT ![s] = Server]
    /\ UNCHANGED <<client, poll>>

\* Mutant of UpdatePoll: whether there is a client is not looked at.
UpdatePollUnchecked ==
    /\ poll = Rest
    /\ Goes(IF server = NoSlot THEN "data" ELSE "old")
    /\ UNCHANGED <<slots, server, client>>

UpdatePoll ==
    /\ poll = Rest
    /\ Goes(IF server = NoSlot THEN "data" ELSE IF client.socknum = NoSlot THEN "new" ELSE "old")
    /\ UNCHANGED <<slots, server, client>>

\* connected(): available, or a state that is not one of a connection that ends.
OldAvailable ==
    /\ poll.at = "old"
    /\ Goes(IF Data(client.socknum) # <<>> THEN "again" ELSE "state")
    /\ UNCHANGED <<slots, server, client>>

OldState ==
    /\ poll.at = "state"
    /\ IF slots[client.socknum].open
       THEN Goes("again") /\ UNCHANGED <<slots, client>>
       ELSE /\ slots' = [slots EXCEPT ![client.socknum] = Free]
            /\ client' = [client EXCEPT !.socknum = NoSlot]
            /\ Goes("new")
    /\ UNCHANGED server

\* Mutant of OldAgain: a client that is connected is kept.
OldAgainStays ==
    /\ poll.at = "again"
    /\ Goes("data")
    /\ UNCHANGED <<slots, server, client>>

OldAgain ==
    /\ poll.at = "again"
    /\ Goes(IF Data(client.socknum) # <<>> THEN "data" ELSE "new")
    /\ UNCHANGED <<slots, server, client>>

NewClient(s) == client' = [socknum |-> s, buffer |-> <<>>] /\ Goes("data") /\ UNCHANGED slots

\* Slot 0 given as socknum counts as none: the socket object gets a slot of its own.
NewSlot ==
    \/ \E s \in Slots :
         /\ slots[s] = Free
         /\ slots' = [slots EXCEPT ![s].use = "own"]
         /\ client' = [socknum |-> s, buffer |-> <<>>]
         /\ Goes("data")
    \/ /\ \A s \in Slots : slots[s] # Free
       /\ poll' = Rest
       /\ UNCHANGED <<slots, client>>

AcceptNone ==
    /\ poll.at = "new" /\ Waiting = {}
    /\ Goes("data")
    /\ UNCHANGED <<slots, server, client>>

Accept(s) ==
    /\ poll.at = "new" /\ s \in Waiting
    /\ IF s = 0 THEN NewSlot ELSE NewClient(s)
    /\ UNCHANGED server

-----------------------------------------------------------------------------
(* update_poll: the request, the application, the response *)

\* Mutant of HasData: the check is left to client_available.
HasDataUnasked ==
    /\ poll.at = "data"
    /\ poll' = IF client.socknum # NoSlot THEN [poll EXCEPT !.at = "line"] ELSE Rest
    /\ UNCHANGED <<slots, server, client>>

HasData ==
    /\ poll.at = "data"
    /\ poll' = IF client.socknum # NoSlot /\ Data(client.socknum) # <<>>
               THEN [poll EXCEPT !.at = "line"] ELSE Rest
    /\ UNCHANGED <<slots, server, client>>

\* A line ends what it is in: all but a body has one.
HasLine == \E i \in DOMAIN client.buffer : client.buffer[i] # "body"

\* readline, for ever if need be: the socket has no timeout.
Collect ==
    /\ poll.at \in {"line", "headers"} /\ ~HasLine
    /\ Data(client.socknum) # <<>>
    /\ client' = [client EXCEPT !.buffer = @ \o Data(client.socknum)]
    /\ slots' = [slots EXCEPT ![client.socknum].data = <<>>]
    /\ UNCHANGED <<server, poll>>

TakesLine(at) ==
    /\ poll.at = at /\ HasLine
    /\ client' = [client EXCEPT !.buffer = Tail(@)]
    /\ UNCHANGED <<slots, server>>

\* A line that is not three words raises a ValueError.
RequestLine ==
    /\ TakesLine("line")
    /\ poll' = IF Head(client.buffer) = "line" THEN [poll EXCEPT !.at = "headers"] ELSE Rest

\* parse_headers (external), up to the blank line.
Headers ==
    /\ TakesLine("headers")
    /\ Goes(IF Head(client.buffer) = "blank" THEN "body" ELSE "headers")

\* client.read(content-length), with what readline left: it returns when all has
\* come, or when something has and no more is there.
Left == Announced(client.socknum) - Len(client.buffer) - Len(poll.body)

BodyPiece ==
    /\ poll.at = "body" /\ Left > 0
    /\ Data(client.socknum) # <<>>
    /\ poll' = [poll EXCEPT !.body = Append(@, Head(Data(client.socknum)))]
    /\ slots' = [slots EXCEPT ![client.socknum].data = Tail(@)]
    /\ UNCHANGED <<server, client>>

BodyEnds ==
    /\ poll.at = "body"
    /\ Left <= 0 \/ (Data(client.socknum) = <<>> /\ poll.body # <<>>)
    /\ poll' = [at |-> "application", body |-> client.buffer \o poll.body]
    /\ client' = [client EXCEPT !.buffer = <<>>]
    /\ UNCHANGED <<slots, server>>

\* finish_response: sent to a peer that is still there.
Respond ==
    /\ poll.at = "application"
    /\ slots' = [slots EXCEPT ![client.socknum].answers = IF slots[client.socknum].open
                                                          THEN @ + 1 ELSE @]
    /\ Goes("close")
    /\ UNCHANGED <<server, client>>

\* Mutant of Close: the socket stays open for another request.
CloseNever ==
    /\ poll.at = "close"
    /\ poll' = Rest
    /\ UNCHANGED <<slots, server, client>>

\* Mutant of Close: the other socket is closed.
CloseServer ==
    /\ poll.at = "close"
    /\ slots' = [slots EXCEPT ![server] = Free]
    /\ poll' = Rest
    /\ UNCHANGED <<server, client>>

\* The finally clause: the object keeps its number.
Close ==
    /\ poll.at = "close"
    /\ slots' = [slots EXCEPT ![client.socknum] = Free]
    /\ poll' = Rest
    /\ UNCHANGED <<server, client>>

Step ==
    \/ UpdatePoll
    \/ OldAvailable \/ OldState \/ OldAgain \/ AcceptNone
    \/ HasData \/ Collect \/ RequestLine \/ Headers
    \/ BodyPiece \/ BodyEnds \/ Respond \/ Close

Next ==
    \/ Step
    \/ \E s \in Slots :
         \/ Start(s)
         \/ \E request \in Requests : Connects(s, request)
         \/ PeerSends(s) \/ PeerCloses(s)
         \/ OpensOwn(s) \/ ClosesOwn(s)
         \/ Accept(s)

Spec == Init /\ [][Next]_vars

\* The main loop polls, and the firmware does not pass over a waiting client for ever.
\* Peers owe nothing: one may stay connected and never send the rest of its request.
FairSpec ==
    /\ Spec
    /\ WF_vars(Step)
    /\ \A s \in Slots : SF_vars(Accept(s))

-----------------------------------------------------------------------------
Places == {"rest", "old", "state", "again", "new", "data", "line", "headers", "body",
           "application", "close"}

\* Every variable keeps its type.
TypeOK ==
    /\ \A s \in Slots :
         /\ slots[s].use \in {"free", "server", "client", "own"}
         /\ slots[s].open \in BOOLEAN /\ slots[s].data \in Seq(Pieces)
         /\ slots[s].sent \in 0 .. Len(slots[s].request)
    /\ server \in Slots \cup {NoSlot}
    /\ client.socknum \in Slots \cup {NoSlot} /\ client.buffer \in Seq(Pieces)
    /\ poll.at \in Places /\ poll.body \in Seq(Pieces)
    /\ poll.at \in {"old", "state", "again", "line", "headers", "body", "application", "close"}
         => client.socknum # NoSlot

\* The application runs only for something that came in over a connection to the
\* server ("When a request comes in, the application callable will be invoked").
OnlyRequestsServed ==
    poll.at = "application" => slots[client.socknum].use = "client"

\* client_available "returns a client socket connection if available".
ClientIsClient ==
    [][\A s \in Slots : Accept(s) => poll'.at = "data" /\ slots[client'.socknum].use = "client"]_vars

\* environ has "the request body" of this request, all of it and nothing else.
BodyIsWhole ==
    poll.at = "application" => Len(poll.body) = Announced(client.socknum)

\* An answered connection is closed by the end of the poll that answered it,
\* whatever happened to its peer meanwhile, and never answered twice.
AnsweredOnce ==
    \A s \in Slots :
        /\ slots[s].answers <= 1
        /\ slots[s].answers = 1 => poll.at = "close" /\ client.socknum = s

\* The server's slot stays its own, whatever the objects of earlier clients, whose
\* numbers were handed out again, close.
ServerKept == server # NoSlot => slots[server] = Server

Reading == poll.at \in {"line", "headers", "body"}
ReadsOwn == Reading /\ slots[client.socknum].use = "own"

\* What the read waits for is not there.
Wants ==
    /\ Data(client.socknum) = <<>>
    /\ IF poll.at = "body" THEN Left > 0 /\ poll.body = <<>> ELSE ~HasLine

\* A request of which a part never came: its peer has stalled, or is gone.
Starved ==
    /\ Reading /\ Wants
    /\ slots[client.socknum].sent < Len(slots[client.socknum].request)

\* A poll, called "inside your main event loop", returns, whatever its client sends
\* and however slowly, unless it waits for ever for a part of a request that its
\* peer, connected or not, never sends.
PollReturns == []<>(poll = Rest) \/ <>[]Starved

Complete(s) ==
    /\ slots[s].use = "client" /\ slots[s].request[1] = "line"
    /\ slots[s].sent = Len(slots[s].request)

\* Slot 0 is taken for no slot.
Servable == \E s \in Slots \ {0} : Complete(s)

\* The server never stands still on complete requests: as long as there are any it
\* goes on answering some, past clients that are idle, were refused half read or
\* have left. Only a peer that never sends the rest of what it began takes the poll
\* away from them, or sockets of the program's own that again and again come to the
\* slot of an earlier client.
ServerProgress ==
    <>[]Servable => []<>(poll.at = "close") \/ []<>ReadsOwn \/ <>[]Starved

\* update_poll is to "get the server check for new incoming client requests": every
\* complete request is answered in the end, if no peer stalls.
RequestsServed ==
    (\A s \in Slots : WF_vars(PeerSends(s))) => \A s \in Slots : Complete(s) ~> ~Complete(s)

=============================================================================
