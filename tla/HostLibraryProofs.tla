--------------------------- MODULE HostLibraryProofs ---------------------------
(***************************************************************************)
(* Proofs about three parts of the host's library, which share no state:   *)
(* the WSGI server (WsgiServer), the pins (HostPins) and the packets of    *)
(* the driver (HostDriver), in this order.                                 *)
(*                                                                         *)
(* The server, for any slots, any requests, patient clients or not, and a  *)
(* program with sockets of its own or without.  _client_sock keeps the     *)
(* number of a slot long after the slot was handed out again.  What saves  *)
(* the server's slot is that no number gets into _client_sock while it is  *)
(* the server's, and that the server's slot is never free for another one: *)
(* ServerInv says both.  A step that writes the table writes one slot;     *)
(* lemma OtherSlot says it is enough that this one is not the server's.    *)
(*                                                                         *)
(* The pins, for any pins, objects and duty cycles.  A method sets         *)
(* attributes before, between and after its commands, so that what a pin   *)
(* is like depends on the method's place; StageInv says how.  No two       *)
(* objects share a pin: lemma OneObject says that then a method's object   *)
(* is all there is to look at.                                             *)
(*                                                                         *)
(* The driver, for any strings, addresses, ports and sizes, and whatever is*)
(* left in the buffers.  A packet is followed through: what a byte string  *)
(* holds at an offset is said by Lies, what a command's packet holds by    *)
(* Carries, a reply by Framed.  The handler's offsets (MeantIsTaken) and   *)
(* the reading of replies (OneRead, ThreeRead, RefusalRead, NoParamsRead)  *)
(* are lemmas about one exchange; the invariant only carries them from one *)
(* step of it to the next.                                                 *)
(***************************************************************************)
EXTENDS HostDriver, HostPins, WsgiServer, SequenceTheorems, TLAPS

(* The WSGI server *)

ConnInfo == [use : {"free", "server", "client", "own"}, open : BOOLEAN, request : Seq(Pieces),
             sent : Nat, data : Seq(Pieces), answers : Nat]

\* Where a poll is busy with a client.
Busy == {"old", "state", "again", "line", "headers", "body", "application", "close"}

Typed ==
    /\ slots \in [Slots -> ConnInfo]
    /\ \A s \in Slots : slots[s].sent <= Len(slots[s].request)
    /\ server \in Slots \cup {NoSlot}
    /\ client \in [socknum : Slots \cup {NoSlot}, buffer : Seq(Pieces)]
    /\ poll \in [at : Places, body : Seq(Pieces)]
    /\ poll.at \in Busy => client.socknum \in Slots

ServerInv ==
    /\ server = NoSlot => client.socknum = NoSlot /\ poll.at \in {"rest", "data"}
    /\ server # NoSlot => slots[server] = Server /\ client.socknum # server

IInv == Typed /\ ServerInv /\ AnsweredOnce

-----------------------------------------------------------------------------
(* Operators *)

LEMMA NoSlotIsNone == NoSlot \notin Slots
BY SlotsAssumption DEF NoSlot

LEMMA ConnectionTyped ==
    ASSUME NEW use \in {"free", "server", "client", "own"}, NEW request \in Seq(Pieces)
    PROVE  /\ Connection(use, request) \in ConnInfo
           /\ Connection(use, request).sent <= Len(Connection(use, request).request)
           /\ Connection(use, request).answers = 0
BY DEF Connection, ConnInfo

LEMMA FreeTyped ==
    /\ Free \in ConnInfo /\ Free.sent <= Len(Free.request) /\ Free.answers = 0
    /\ Free.use = "free" /\ ~ Free.open
    /\ Server \in ConnInfo /\ Server.sent <= Len(Server.request) /\ Server.answers = 0
    /\ Server.use = "server" /\ ~ Server.open
<1> DEFINE c == Connection("free", <<>>)
<1>1. <<>> \in Seq(Pieces)
  OBVIOUS
<1>2. c \in ConnInfo /\ c.sent <= Len(c.request) /\ c.answers = 0 /\ c.use = "free"
  BY <1>1, ConnectionTyped DEF Connection
<1> HIDE DEF c
<1>3. Free = [c EXCEPT !.open = FALSE]
  BY DEF Free, c
<1>4. /\ Free \in ConnInfo /\ Free.sent <= Len(Free.request) /\ Free.answers = 0
      /\ Free.use = "free" /\ ~ Free.open
  BY <1>2, <1>3 DEF ConnInfo
<1>5. Server = [Free EXCEPT !.use = "server"]
  BY DEF Server
<1> QED
  BY <1>4, <1>5 DEF ConnInfo

\* A write of one slot that is not the server's.
LEMMA OtherSlot ==
    ASSUME IInv, NEW s \in Slots, NEW c \in ConnInfo, c.sent <= Len(c.request),
           server # NoSlot => s # server,
           slots' = [slots EXCEPT ![s] = c], server' = server
    PROVE  /\ slots' \in [Slots -> ConnInfo]
           /\ \A t \in Slots : slots'[t].sent <= Len(slots'[t].request)
           /\ server' \in Slots \cup {NoSlot}
           /\ server' # NoSlot => slots'[server] = Server
           /\ slots'[s] = c
           /\ \A t \in Slots : t # s => slots'[t] = slots[t]
BY NoSlotIsNone DEF IInv, Typed, ServerInv

\* A step that leaves the table alone moves the poll to a place that fits.
LEMMA PollMoves ==
    ASSUME IInv, UNCHANGED <<slots, server>>, poll.at # "close",
           client' \in [socknum : Slots \cup {NoSlot}, buffer : Seq(Pieces)],
           client'.socknum \in {client.socknum, NoSlot},
           poll' \in [at : Places, body : Seq(Pieces)],
           poll'.at \in Busy => client'.socknum \in Slots,
           server = NoSlot => poll'.at \in {"rest", "data"}
    PROVE  IInv'
<1>1. Typed'
  BY DEF IInv, Typed
<1>2. ServerInv'
  BY NoSlotIsNone DEF IInv, Typed, ServerInv
<1>3. AnsweredOnce'
  BY DEF IInv, AnsweredOnce
<1> QED
  BY <1>1, <1>2, <1>3 DEF IInv

-----------------------------------------------------------------------------
(* The firmware, the peers and the program *)

\* None of them moves a poll or touches _client_sock; the answers of a slot stay as
\* they are, or are none.
LEMMA AroundIInv ==
    ASSUME IInv, NEW s \in Slots, NEW c \in ConnInfo, c.sent <= Len(c.request),
           server # NoSlot => s # server,
           c.answers = slots[s].answers \/ c.answers = 0,
           slots' = [slots EXCEPT ![s] = c], UNCHANGED <<server, client, poll>>
    PROVE  IInv'
<1>1. /\ slots' \in [Slots -> ConnInfo]
      /\ \A t \in Slots : slots'[t].sent <= Len(slots'[t].request)
      /\ server' # NoSlot => slots'[server] = Server
      /\ slots'[s] = c /\ \A t \in Slots : t # s => slots'[t] = slots[t]
  BY OtherSlot
<1>2. Typed'
  BY <1>1 DEF IInv, Typed
<1>3. ServerInv'
  BY <1>1 DEF IInv, ServerInv
<1>4. AnsweredOnce'
  BY <1>1 DEF IInv, AnsweredOnce, Typed, ConnInfo
<1> QED
  BY <1>2, <1>3, <1>4 DEF IInv

LEMMA ConnectsIInv ==
    ASSUME IInv, NEW s \in Slots, NEW request \in Requests, Connects(s, request)
    PROVE  IInv'
<1>1. server # NoSlot => s # server
  BY FreeTyped DEF Connects, IInv, ServerInv
<1>2. request \in Seq(Pieces)
  BY RequestsAssumption
<1> QED
  BY <1>1, <1>2, ConnectionTyped, AroundIInv DEF Connects

LEMMA PeerSendsIInv ==
    ASSUME IInv, NEW s \in Slots, PeerSends(s)
    PROVE  IInv'
<1> DEFINE c == [slots[s] EXCEPT !.sent = @ + 1,
                                 !.data = Append(@, slots[s].request[slots[s].sent + 1])]
<1>1. server # NoSlot => s # server
  BY FreeTyped DEF PeerSends, IInv, ServerInv
<1>2. slots[s] \in ConnInfo /\ slots[s].sent < Len(slots[s].request)
  BY DEF IInv, Typed, PeerSends
<1>3. slots[s].request[slots[s].sent + 1] \in Pieces
  BY <1>2 DEF ConnInfo
<1>4. c \in ConnInfo /\ c.sent <= Len(c.request) /\ c.answers = slots[s].answers
  <2>1. Append(slots[s].data, slots[s].request[slots[s].sent + 1]) \in Seq(Pieces)
    BY <1>2, <1>3 DEF ConnInfo
  <2>2. slots[s].sent + 1 \in Nat /\ slots[s].sent + 1 <= Len(slots[s].request)
    BY <1>2 DEF ConnInfo
  <2> QED
    BY <1>2, <2>1, <2>2 DEF ConnInfo
<1>5. slots' = [slots EXCEPT ![s] = c] /\ UNCHANGED <<server, client, poll>>
  BY DEF PeerSends, IInv, Typed, ConnInfo
<1> HIDE DEF c
<1> QED
  BY <1>1, <1>4, <1>5, AroundIInv

LEMMA PeerClosesIInv ==
    ASSUME IInv, NEW s \in Slots, PeerCloses(s)
    PROVE  IInv'
<1> DEFINE c == [slots[s] EXCEPT !.open = FALSE]
<1>1. server # NoSlot => s # server
  BY FreeTyped DEF PeerCloses, IInv, ServerInv
<1>2. slots[s] \in ConnInfo /\ slots[s].sent <= Len(slots[s].request)
  BY DEF IInv, Typed
<1>3. c \in ConnInfo /\ c.sent <= Len(c.request) /\ c.answers = slots[s].answers
  BY <1>2 DEF ConnInfo
<1>4. slots' = [slots EXCEPT ![s] = c] /\ UNCHANGED <<server, client, poll>>
  BY DEF PeerCloses, IInv, Typed, ConnInfo
<1> HIDE DEF c
<1> QED
  BY <1>1, <1>3, <1>4, AroundIInv

LEMMA OwnIInv ==
    ASSUME IInv, NEW s \in Slots, OpensOwn(s) \/ ClosesOwn(s)
    PROVE  IInv'
<1>1. server # NoSlot => s # server
  BY FreeTyped DEF OpensOwn, ClosesOwn, IInv, ServerInv
<1>2. CASE OpensOwn(s)
  <2>1. PICK request \in Requests : slots' = [slots EXCEPT ![s] = Connection("own", request)]
    BY <1>2 DEF OpensOwn
  <2>2. request \in Seq(Pieces)
    BY RequestsAssumption
  <2> QED
    BY <1>1, <1>2, <2>1, <2>2, ConnectionTyped, AroundIInv DEF OpensOwn
<1>3. CASE ClosesOwn(s)
  BY <1>1, <1>3, FreeTyped, AroundIInv DEF ClosesOwn
<1> QED
  BY <1>2, <1>3

LEMMA StartIInv == ASSUME IInv, NEW s \in Slots, Start(s) PROVE IInv'
<1>1. /\ slots' \in [Slots -> ConnInfo]
      /\ slots'[s] = Server
      /\ \A t \in Slots : t # s => slots'[t] = slots[t]
  BY FreeTyped, NoSlotIsNone DEF Start, IInv, Typed
<1>2. client.socknum = NoSlot /\ UNCHANGED <<client, poll>> /\ server' = s
  BY DEF Start, IInv, ServerInv
<1>3. Typed'
  BY <1>1, <1>2, FreeTyped DEF IInv, Typed
<1>4. ServerInv'
  BY <1>1, <1>2, NoSlotIsNone DEF ServerInv
<1>5. AnsweredOnce'
  BY <1>1, <1>2, FreeTyped DEF IInv, AnsweredOnce, Start, Rest
<1> QED
  BY <1>3, <1>4, <1>5 DEF IInv

-----------------------------------------------------------------------------
(* The steps of a poll *)

\* A step that writes the slot s of the table and moves the poll; it may count an
\* answer if it goes on to close that very client.
LEMMA PollWrites ==
    ASSUME IInv, poll.at \notin {"rest", "data", "close"},
           NEW s \in Slots, NEW c \in ConnInfo, c.sent <= Len(c.request), s # server,
           slots' = [slots EXCEPT ![s] = c], server' = server,
           client' \in [socknum : Slots \cup {NoSlot}, buffer : Seq(Pieces)],
           client'.socknum # server,
           poll' \in [at : Places, body : Seq(Pieces)],
           poll'.at \in Busy => client'.socknum \in Slots,
           c.answers = 0 \/ (c.answers = 1 /\ poll'.at = "close" /\ client'.socknum = s)
    PROVE  IInv'
<1>1. server # NoSlot
  BY DEF IInv, ServerInv
<1>2. /\ slots' \in [Slots -> ConnInfo]
      /\ \A t \in Slots : slots'[t].sent <= Len(slots'[t].request)
      /\ server' # NoSlot => slots'[server] = Server
      /\ slots'[s] = c /\ \A t \in Slots : t # s => slots'[t] = slots[t]
  BY OtherSlot
<1>3. \A t \in Slots : slots[t].answers <= 1 /\ slots[t].answers # 1
  BY DEF IInv, AnsweredOnce
<1>4. Typed'
  BY <1>2 DEF IInv, Typed
<1>5. ServerInv'
  BY <1>1, <1>2 DEF ServerInv
<1>6. AnsweredOnce'
  BY <1>2, <1>3 DEF AnsweredOnce
<1> QED
  BY <1>4, <1>5, <1>6 DEF IInv

\* Where a poll is busy there is a server, and its client is another slot.
LEMMA BusyClient ==
    ASSUME IInv, poll.at \in Busy
    PROVE  /\ server \in Slots /\ client.socknum \in Slots /\ client.socknum # server
           /\ slots[client.socknum] \in ConnInfo
           /\ slots[client.socknum].sent <= Len(slots[client.socknum].request)
           /\ client.buffer \in Seq(Pieces) /\ poll.body \in Seq(Pieces)
BY NoSlotIsNone DEF IInv, Typed, ServerInv, Busy

\* As long as the poll is not about to close its client, no slot has an answer.
LEMMA Unanswered ==
    ASSUME IInv, poll.at # "close", NEW s \in Slots
    PROVE  slots[s].answers = 0
<1>1. slots[s].answers \in Nat
  BY DEF IInv, Typed, ConnInfo
<1>2. slots[s].answers <= 1 /\ slots[s].answers # 1
  BY DEF IInv, AnsweredOnce
<1> QED
  BY <1>1, <1>2

\* A poll goes to a place, or is over.
LEMMA PlaceTyped ==
    ASSUME poll \in [at : Places, body : Seq(Pieces)], NEW at \in Places
    PROVE  /\ [poll EXCEPT !.at = at] \in [at : Places, body : Seq(Pieces)]
           /\ [poll EXCEPT !.at = at].at = at
           /\ Rest \in [at : Places, body : Seq(Pieces)] /\ Rest.at = "rest"
<1>1. <<>> \in Seq(Pieces)
  OBVIOUS
<1> QED
  BY <1>1 DEF Rest, Places

LEMMA LookIInv ==
    ASSUME IInv,
           UpdatePoll \/ OldAvailable \/ OldAgain \/ AcceptNone \/ HasData
    PROVE  IInv'
<1>1. UNCHANGED <<slots, server, client>> /\ poll.at # "close"
  BY DEF UpdatePoll, OldAvailable, OldAgain, AcceptNone, HasData, Rest
<1>2. \A at \in {"old", "state", "again", "new", "data", "line"} :
         Goes(at) => poll' \in [at : Places, body : Seq(Pieces)] /\ poll'.at = at
  BY PlaceTyped DEF Goes, IInv, Typed, Places
<1>3. HasData => poll' = Rest \/ (Goes("line") /\ client.socknum # NoSlot)
  BY DEF HasData, Goes
<1>4. Rest \in [at : Places, body : Seq(Pieces)] /\ Rest.at = "rest"
  BY PlaceTyped DEF IInv, Typed, Places
<1>5. poll' \in [at : Places, body : Seq(Pieces)]
  BY <1>2, <1>3, <1>4 DEF UpdatePoll, OldAvailable, OldAgain, AcceptNone, HasData
<1>6. poll'.at \in Busy => client.socknum \in Slots
  BY <1>2, <1>3, <1>4
     DEF IInv, Typed, Busy, UpdatePoll, OldAvailable, OldAgain, AcceptNone, HasData
<1>7. server = NoSlot => poll'.at \in {"rest", "data"}
  BY <1>2, <1>3, <1>4
     DEF IInv, Typed, ServerInv, UpdatePoll, OldAvailable, OldAgain, AcceptNone, HasData
<1>8. client \in [socknum : Slots \cup {NoSlot}, buffer : Seq(Pieces)]
  BY DEF IInv, Typed
<1> QED
  BY <1>1, <1>5, <1>6, <1>7, <1>8, PollMoves

LEMMA OldStateIInv == ASSUME IInv, OldState PROVE IInv'
<1>1. poll.at = "state" /\ poll.at \in Busy
  BY DEF OldState, Busy
<1>2. poll' \in [at : Places, body : Seq(Pieces)] /\ poll'.at \in {"again", "new"}
  BY DEF OldState, Goes, IInv, Typed, Places
<1>3. client \in [socknum : Slots \cup {NoSlot}, buffer : Seq(Pieces)]
  BY DEF IInv, Typed
<1>4. CASE slots[client.socknum].open
  BY <1>1, <1>2, <1>3, <1>4, BusyClient, PollMoves, NoSlotIsNone DEF OldState
<1>5. CASE ~ slots[client.socknum].open
  <2> DEFINE c == Free
  <2>1. c \in ConnInfo /\ c.sent <= Len(c.request) /\ c.answers = 0
    BY <1>1, BusyClient, FreeTyped, Unanswered
  <2>2. slots' = [slots EXCEPT ![client.socknum] = c] /\ server' = server
    BY <1>5 DEF OldState, IInv, Typed
  <2>3. /\ client' \in [socknum : Slots \cup {NoSlot}, buffer : Seq(Pieces)]
        /\ client'.socknum = NoSlot
    BY <1>3, <1>5 DEF OldState
  <2>4. poll'.at = "new"
    BY <1>5 DEF OldState, Goes, IInv, Typed
  <2> HIDE DEF c
  <2> QED
    BY <1>1, <1>2, <2>1, <2>2, <2>3, <2>4, BusyClient, NoSlotIsNone, PollWrites DEF Busy
<1> QED
  BY <1>4, <1>5

LEMMA AcceptIInv ==
    ASSUME IInv, NEW s \in Slots, Accept(s)
    PROVE  IInv'
<1>1. poll.at = "new" /\ server \in Slots /\ server' = server /\ slots[s].use = "client"
  BY DEF Accept, Waiting, IInv, Typed, ServerInv
<1>2. <<>> \in Seq(Pieces)
  OBVIOUS
<1>3. CASE NewClient(s)
  <2>1. s # server
    BY <1>1, FreeTyped, NoSlotIsNone DEF IInv, ServerInv
  <2>2. client' = [socknum |-> s, buffer |-> <<>>] /\ slots' = slots
    BY <1>3 DEF NewClient
  <2>3. poll' \in [at : Places, body : Seq(Pieces)] /\ poll'.at = "data"
    BY <1>3 DEF NewClient, Goes, IInv, Typed, Places
  <2>4. Typed'
    BY <1>1, <1>2, <2>2, <2>3 DEF IInv, Typed
  <2>5. ServerInv'
    BY <1>1, <2>1, <2>2, NoSlotIsNone DEF IInv, ServerInv
  <2>6. AnsweredOnce'
    BY <1>1, <2>2 DEF IInv, AnsweredOnce
  <2> QED
    BY <2>4, <2>5, <2>6 DEF IInv
<1>4. CASE NewSlot
  <2>1. CASE \A t \in Slots : slots[t] # Free
    <3>1. UNCHANGED <<slots, client>> /\ poll' = Rest
      BY <1>4, <2>1 DEF NewSlot
    <3>2. Rest \in [at : Places, body : Seq(Pieces)] /\ Rest.at = "rest"
      BY <1>2 DEF Rest, Places
    <3> QED
      BY <1>1, <3>1, <3>2, PollMoves, NoSlotIsNone DEF IInv, Typed, Busy
  <2>2. CASE \E t \in Slots : slots[t] = Free
    <3>1. PICK t \in Slots :
             /\ slots[t] = Free
             /\ slots' = [slots EXCEPT ![t].use = "own"]
             /\ client' = [socknum |-> t, buffer |-> <<>>]
             /\ Goes("data")
      BY <1>4, <2>2 DEF NewSlot
    <3> DEFINE c == [Free EXCEPT !.use = "own"]
    <3>2. c \in ConnInfo /\ c.sent <= Len(c.request) /\ c.answers = 0
      BY FreeTyped DEF ConnInfo
    <3>3. slots' = [slots EXCEPT ![t] = c]
      BY <3>1 DEF IInv, Typed
    <3>4. t # server
      BY <1>1, <3>1, FreeTyped, NoSlotIsNone DEF IInv, ServerInv
    <3>5. poll' \in [at : Places, body : Seq(Pieces)] /\ poll'.at = "data"
      BY <3>1 DEF Goes, IInv, Typed, Places
    <3> HIDE DEF c
    <3> QED
      BY <1>1, <1>2, <3>1, <3>2, <3>3, <3>4, <3>5, PollWrites
  <2> QED
    BY <2>1, <2>2
<1> QED
  BY <1>3, <1>4 DEF Accept

LEMMA CollectIInv == ASSUME IInv, Collect PROVE IInv'
<1> DEFINE s == client.socknum
           c == [slots[s] EXCEPT !.data = <<>>]
<1>1. poll.at \in {"line", "headers"} /\ poll.at \in Busy
  BY DEF Collect, Busy
<1>2. <<>> \in Seq(Pieces) /\ s \in Slots /\ s # server /\ slots[s] \in ConnInfo
  BY <1>1, BusyClient
<1>3. c \in ConnInfo /\ c.sent <= Len(c.request) /\ c.answers = 0
  BY <1>1, <1>2, BusyClient, Unanswered DEF ConnInfo
<1>4. slots' = [slots EXCEPT ![s] = c] /\ server' = server /\ poll' = poll
  BY <1>2 DEF Collect, IInv, Typed
<1>5. client.buffer \o slots[s].data \in Seq(Pieces)
  BY <1>1, <1>2, BusyClient DEF ConnInfo
<1>6. client' \in [socknum : Slots \cup {NoSlot}, buffer : Seq(Pieces)] /\ client'.socknum = s
  BY <1>5 DEF Collect, Data, IInv, Typed
<1>7. poll' \in [at : Places, body : Seq(Pieces)]
  BY <1>4 DEF IInv, Typed
<1> HIDE DEF c
<1> QED
  BY <1>1, <1>2, <1>3, <1>4, <1>6, <1>7, PollWrites

\* The line that is taken leaves a shorter buffer, and the same client.
LEMMA LineIInv ==
    ASSUME IInv, RequestLine \/ Headers
    PROVE  IInv'
<1>1. poll.at \in {"line", "headers"} /\ poll.at \in Busy /\ UNCHANGED <<slots, server>>
  BY DEF RequestLine, Headers, TakesLine, Busy
<1>2. client.buffer # <<>>
  BY DEF RequestLine, Headers, TakesLine, HasLine
<1>3. Tail(client.buffer) \in Seq(Pieces)
  BY <1>1, <1>2, BusyClient
<1>4. /\ client' \in [socknum : Slots \cup {NoSlot}, buffer : Seq(Pieces)]
      /\ client'.socknum = client.socknum
  BY <1>3 DEF RequestLine, Headers, TakesLine, IInv, Typed
<1>5. poll' = Rest \/ Goes("headers") \/ Goes("body")
  BY DEF RequestLine, Headers, Goes
<1>6. poll' \in [at : Places, body : Seq(Pieces)]
  BY <1>5, PlaceTyped DEF Goes, IInv, Typed, Places
<1> QED
  BY <1>1, <1>4, <1>6, BusyClient, NoSlotIsNone, PollMoves

LEMMA BodyPieceIInv == ASSUME IInv, BodyPiece PROVE IInv'
<1> DEFINE s == client.socknum
           c == [slots[s] EXCEPT !.data = Tail(@)]
<1>1. poll.at = "body" /\ poll.at \in Busy
  BY DEF BodyPiece, Busy
<1>2. s \in Slots /\ s # server /\ slots[s] \in ConnInfo /\ slots[s].data # <<>>
  BY <1>1, BusyClient DEF BodyPiece, Data
<1>3. Tail(slots[s].data) \in Seq(Pieces) /\ Head(slots[s].data) \in Pieces
  BY <1>2 DEF ConnInfo
<1>4. c \in ConnInfo /\ c.sent <= Len(c.request) /\ c.answers = 0
  BY <1>1, <1>2, <1>3, BusyClient, Unanswered DEF ConnInfo
<1>5. slots' = [slots EXCEPT ![s] = c] /\ server' = server /\ client' = client
  BY DEF BodyPiece, IInv, Typed, ConnInfo
<1>6. Append(poll.body, Head(slots[s].data)) \in Seq(Pieces)
  BY <1>1, <1>3, BusyClient
<1>7. poll' \in [at : Places, body : Seq(Pieces)]
  BY <1>6 DEF BodyPiece, Data, IInv, Typed
<1>8. client' \in [socknum : Slots \cup {NoSlot}, buffer : Seq(Pieces)]
  BY <1>5 DEF IInv, Typed
<1> HIDE DEF c
<1> QED
  BY <1>1, <1>2, <1>4, <1>5, <1>7, <1>8, PollWrites

LEMMA BodyEndsIInv == ASSUME IInv, BodyEnds PROVE IInv'
<1>1. poll.at = "body" /\ poll.at \in Busy /\ UNCHANGED <<slots, server>>
  BY DEF BodyEnds, Busy
<1>2. <<>> \in Seq(Pieces) /\ client.buffer \o poll.body \in Seq(Pieces)
  BY <1>1, BusyClient
<1>3. /\ client' \in [socknum : Slots \cup {NoSlot}, buffer : Seq(Pieces)]
      /\ client'.socknum = client.socknum
  BY <1>2 DEF BodyEnds, IInv, Typed
<1>4. poll' \in [at : Places, body : Seq(Pieces)]
  BY <1>2 DEF BodyEnds, Places
<1> QED
  BY <1>1, <1>3, <1>4, BusyClient, NoSlotIsNone, PollMoves

\* The one step that answers: nobody had an answer before.
LEMMA RespondIInv == ASSUME IInv, Respond PROVE IInv'
<1> DEFINE s == client.socknum
           c == [slots[s] EXCEPT !.answers = IF slots[s].open THEN @ + 1 ELSE @]
<1>1. poll.at = "application" /\ poll.at \in Busy
  BY DEF Respond, Busy
<1>2. s \in Slots /\ s # server /\ slots[s] \in ConnInfo /\ slots[s].answers = 0
  BY <1>1, BusyClient, Unanswered
<1>3. c \in ConnInfo /\ c.sent <= Len(c.request) /\ c.answers \in {0, 1}
  BY <1>1, <1>2, BusyClient DEF ConnInfo
<1>4. slots' = [slots EXCEPT ![s] = c] /\ server' = server /\ client' = client
  BY DEF Respond, IInv, Typed, ConnInfo
<1>5. poll' \in [at : Places, body : Seq(Pieces)] /\ poll'.at = "close"
  BY PlaceTyped DEF Respond, Goes, IInv, Typed, Places
<1>6. client' \in [socknum : Slots \cup {NoSlot}, buffer : Seq(Pieces)]
  BY <1>4 DEF IInv, Typed
<1> HIDE DEF c
<1> QED
  BY <1>1, <1>2, <1>3, <1>4, <1>5, <1>6, PollWrites

\* The one step that may not leave the answered slot as it is.
LEMMA CloseIInv == ASSUME IInv, Close PROVE IInv'
<1> DEFINE s == client.socknum
<1>1. poll.at = "close" /\ poll.at \in Busy
  BY DEF Close, Busy
<1>2. s \in Slots /\ s # server /\ server \in Slots
  BY <1>1, BusyClient
<1>3. slots' = [slots EXCEPT ![s] = Free] /\ poll' = Rest /\ UNCHANGED <<server, client>>
  BY DEF Close
<1>4. /\ slots' \in [Slots -> ConnInfo]
      /\ \A t \in Slots : slots'[t].sent <= Len(slots'[t].request)
      /\ server' # NoSlot => slots'[server] = Server
      /\ slots'[s] = Free /\ \A t \in Slots : t # s => slots'[t] = slots[t]
  BY <1>2, <1>3, FreeTyped, OtherSlot
<1>5. Typed'
  BY <1>3, <1>4, PlaceTyped DEF IInv, Typed, Places, Busy
<1>6. ServerInv'
  BY <1>2, <1>3, <1>4, NoSlotIsNone DEF ServerInv
<1>7. AnsweredOnce'
  BY <1>4, FreeTyped DEF IInv, AnsweredOnce
<1> QED
  BY <1>5, <1>6, <1>7 DEF IInv

-----------------------------------------------------------------------------
(* The specification *)

LEMMA InitIInv == Init => IInv
<1> SUFFICES ASSUME Init PROVE IInv
  OBVIOUS
<1>1. <<>> \in Seq(Pieces)
  OBVIOUS
<1>2. NoClient \in [socknum : Slots \cup {NoSlot}, buffer : Seq(Pieces)]
  BY <1>1 DEF NoClient
<1>3. Rest \in [at : Places, body : Seq(Pieces)] /\ Rest.at \notin Busy
  BY <1>1 DEF Rest, Places, Busy
<1>4. Typed
  BY <1>2, <1>3, FreeTyped DEF Init, Typed
<1>5. ServerInv
  BY DEF Init, ServerInv, NoClient, Rest
<1>6. \A s \in Slots : slots[s].answers = 0
  <2>1. \A s \in Slots : slots[s] = Free
    BY DEF Init
  <2>2. Free.answers = 0
    BY FreeTyped
  <2> QED
    BY <2>1, <2>2
<1>7. AnsweredOnce
  <2> SUFFICES ASSUME NEW s \in Slots
               PROVE  slots[s].answers <= 1 /\ slots[s].answers # 1
    BY DEF AnsweredOnce
  <2> QED
    BY <1>6
<1> QED
  BY <1>4, <1>5, <1>7 DEF IInv

LEMMA NextIInv == IInv /\ [Next]_vars => IInv'
<1> SUFFICES ASSUME IInv, [Next]_vars PROVE IInv'
  OBVIOUS
<1>1. CASE Step
  BY <1>1, LookIInv, OldStateIInv, CollectIInv, LineIInv, BodyPieceIInv, BodyEndsIInv,
     RespondIInv, CloseIInv DEF Step
<1>2. ASSUME NEW s \in Slots,
             \/ Start(s)
             \/ \E request \in Requests : Connects(s, request)
             \/ PeerSends(s) \/ PeerCloses(s)
             \/ OpensOwn(s) \/ ClosesOwn(s)
             \/ Accept(s)
      PROVE  IInv'
  BY <1>2, StartIInv, ConnectsIInv, PeerSendsIInv, PeerClosesIInv, OwnIInv, AcceptIInv
<1>3. CASE UNCHANGED vars
  BY <1>3 DEF vars, IInv, Typed, ServerInv, AnsweredOnce
<1> QED
  BY <1>1, <1>2, <1>3 DEF Next

\* The server's slot and _client_sock never meet, and answers and polls keep step.
THEOREM IInvariant == Spec => []IInv
BY InitIInv, NextIInv, PTL DEF Spec

\* Every variable of the server keeps its type, and a poll that is busy has a client.
THEOREM TypeCorrect == Spec => []TypeOK
<1>1. IInv => TypeOK
  <2> SUFFICES ASSUME IInv PROVE TypeOK
    OBVIOUS
  <2>1. \A s \in Slots :
           /\ slots[s].use \in {"free", "server", "client", "own"}
           /\ slots[s].open \in BOOLEAN /\ slots[s].data \in Seq(Pieces)
           /\ slots[s].sent \in 0 .. Len(slots[s].request)
    <3> TAKE s \in Slots
    <3>1. slots[s] \in ConnInfo /\ slots[s].sent <= Len(slots[s].request)
      BY DEF IInv, Typed
    <3>2. Len(slots[s].request) \in Nat
      BY <3>1 DEF ConnInfo
    <3> QED
      BY <3>1, <3>2 DEF ConnInfo
  <2>2. /\ server \in Slots \cup {NoSlot}
        /\ client.socknum \in Slots \cup {NoSlot} /\ client.buffer \in Seq(Pieces)
        /\ poll.at \in Places /\ poll.body \in Seq(Pieces)
    BY DEF IInv, Typed
  <2>3. poll.at \in Busy => client.socknum # NoSlot
    BY NoSlotIsNone DEF IInv, Typed
  <2> QED
    BY <2>1, <2>2, <2>3 DEF TypeOK, Busy
<1> QED
  BY <1>1, IInvariant, PTL

\* finish_response answers a connection once, and its finally clause has closed it
\* when the poll is over.
THEOREM AnswersOnce == Spec => []AnsweredOnce
<1>1. IInv => AnsweredOnce
  BY DEF IInv
<1> QED
  BY <1>1, IInvariant, PTL

\* close and connected, called on a number that _client_sock kept from an earlier
\* client, never take the server's slot away.
THEOREM ServerKeepsSlot == Spec => []ServerKept
<1>1. IInv => ServerKept
  BY DEF IInv, Typed, ServerInv, ServerKept
<1> QED
  BY <1>1, IInvariant, PTL

-----------------------------------------------------------------------------
(* The pins *)

\* What the pin of the running method's object is like: an output before the
\* level is written, and at the object's value before the drive mode is set,
\* unless a method raised earlier.
StageInv ==
    LET object == dio[call.h]
        pin == board[object.pin]
    IN  /\ call.at = "write" =>
             /\ object.dir = "OUT"
             /\ call.op = "direction" \/ object.sound => pin.mode = "OUT"
        /\ call.at = "drive" /\ (call.op = "direction" \/ (object.sound /\ object.dir = "OUT")) =>
             pin = [mode |-> "OUT", level |-> object.value]

PinsInv == PinsTypeOK /\ OutputAsWritten /\ StageInv

Level == [mode : Directions \cup {"PWM"}, level : Nat]

-----------------------------------------------------------------------------
(* Lemmas about objects *)

LEMMA NewIsDigital ==
    ASSUME NEW p \in Pins
    PROVE  NewDigital(p) \in DigitalObject
BY DEF NewDigital, DigitalObject, Directions

LEMMA LiveIsDigital ==
    ASSUME PinsTypeOK, NEW h \in LiveDigitals
    PROVE  h \in Digitals /\ dio[h] \in DigitalObject /\ dio[h].pin \in Pins
BY DEF PinsTypeOK, LiveDigitals, DigitalObject

LEMMA LiveIsPwm ==
    ASSUME PinsTypeOK, NEW w \in LivePwms
    PROVE  w \in Pwms /\ pwm[w] \in PwmObject /\ pwm[w].pin \in Pins
BY DEF PinsTypeOK, LivePwms, PwmObject

\* What the setters make of an object is an object, on the same pin.
LEMMA DigitalFields ==
    ASSUME NEW o \in DigitalObject, NEW dir \in Directions, NEW level \in {0, 1}
    PROVE  /\ [o EXCEPT !.dir = dir] \in DigitalObject
           /\ [o EXCEPT !.value = level] \in DigitalObject
           /\ [o EXCEPT !.drive = "PUSH_PULL"] \in DigitalObject
           /\ \A b \in BOOLEAN : [o EXCEPT !.sound = b] \in DigitalObject
BY DEF DigitalObject

\* A command changes the pin of the running method and no other.
LEMMA PinCommands ==
    ASSUME PinsTypeOK, NEW p \in Pins, NEW level \in Nat, NEW mode \in Directions
    PROVE  /\ [board EXCEPT ![p].mode = mode] \in [Pins -> Level]
           /\ [board EXCEPT ![p].level = level] \in [Pins -> Level]
           /\ [board EXCEPT ![p].mode = mode][p] = [mode |-> mode, level |-> board[p].level]
           /\ [board EXCEPT ![p].level = level][p] = [mode |-> board[p].mode, level |-> level]
BY DEF PinsTypeOK, Level

-----------------------------------------------------------------------------
(* The steps of a DigitalInOut method *)

\* A step of the running method that writes its object and the object's pin at
\* most, and leaves that one object in order, leaves everything in order.
LEMMA OneObject ==
    ASSUME PinsInv, NEW g \in Digitals, NEW object, NEW own \in Pins,
           g \in LiveDigitals => dio[g].pin = own,
           g \notin LiveDigitals => own \notin PinsInUse,
           object = NULL \/ (object \in DigitalObject /\ object.pin = own),
           dio' = [dio EXCEPT ![g] = object],
           board' \in [Pins -> Level], \A p \in Pins \ {own} : board'[p] = board[p],
           UNCHANGED pwm,
           call = NoCall \/ call.h = g,
           call' \in Calls,
           call' = NoCall \/ (call'.h = g /\ object # NULL),
           call' = NoCall /\ object # NULL /\ object.sound /\ object.dir = "OUT" =>
              board'[own] = [mode |-> "OUT", level |-> object.value],
           StageInv'
    PROVE  PinsInv'
<1>1. dio' \in [Digitals -> DigitalObject \cup {NULL}]
  BY DEF PinsInv, PinsTypeOK
<1>2. call' # NoCall => call'.h \in LiveDigitals'
  BY <1>1 DEF PinsInv, PinsTypeOK, LiveDigitals
<1>3. \A h \in Digitals \ {g} : dio'[h] = dio[h]
  BY DEF PinsInv, PinsTypeOK
<1>4. \A h \in Digitals \ {g} : h \in LiveDigitals => dio[h].pin \in Pins /\ dio[h].pin # own
  BY LiveIsDigital DEF PinsInv, PinsTypeOK, PinsApart, PinsInUse
<1>5. \A w \in LivePwms : pwm[w].pin # own
  BY DEF PinsInv, PinsTypeOK, PinsApart, PinsInUse
<1>6. dio'[g] = object
  BY DEF PinsInv, PinsTypeOK
<1>7. PinsApart'
  <2>1. ASSUME NEW h \in LiveDigitals', NEW k \in LiveDigitals', dio'[h].pin = dio'[k].pin
        PROVE  h = k
    BY <2>1, <1>3, <1>4, <1>6 DEF PinsInv, PinsTypeOK, PinsApart, LiveDigitals
  <2>2. ASSUME NEW h \in LiveDigitals', NEW w \in LivePwms
        PROVE  dio'[h].pin # pwm[w].pin
    BY <2>2, <1>3, <1>5, <1>6 DEF PinsInv, PinsTypeOK, PinsApart, LiveDigitals
  <2> QED
    BY <2>1, <2>2 DEF PinsApart, LivePwms, PinsInv, PinsTypeOK
<1>8. OutputAsWritten'
  <2> SUFFICES ASSUME NEW h \in Digitals, AtRest(h)', dio'[h].dir = "OUT"
               PROVE  board'[dio'[h].pin] = [mode |-> "OUT", level |-> dio'[h].value]
    BY DEF OutputAsWritten
  <2>1. CASE h = g
    BY <2>1, <1>6 DEF AtRest, LiveDigitals
  <2>2. CASE h # g
    <3>1. AtRest(h)
      BY <2>2, <1>3, NullAssumption DEF AtRest, LiveDigitals, NoCall
    <3>2. board'[dio[h].pin] = board[dio[h].pin]
      BY <2>2, <3>1, <1>4 DEF AtRest
    <3> QED
      BY <2>2, <3>1, <3>2, <1>3 DEF PinsInv, OutputAsWritten
  <2> QED
    BY <2>1, <2>2
<1> QED
  BY <1>1, <1>2, <1>7, <1>8 DEF PinsInv, PinsTypeOK, Level

\* The running method's object and its pin.
LEMMA Running ==
    ASSUME PinsInv, call.at # "none"
    PROVE  \E g \in Digitals, own \in Pins :
              /\ call.h = g /\ g \in LiveDigitals
              /\ dio[g] \in DigitalObject /\ dio[g].pin = own /\ OwnPin = own
BY LiveIsDigital DEF PinsInv, PinsTypeOK, NoCall, OwnPin

LEMMA NoCallTyped == NoCall \in Calls /\ NoCall.at = "none" /\ NoCall.h = NULL
BY DEF NoCall, Calls

\* A method that raises leaves no object, or one of which nothing is promised.
LEMMA Raising ==
    ASSUME PinsInv, NEW g \in Digitals, NEW own \in Pins, call.h = g, g \in LiveDigitals,
           dio[g].pin = own, OwnPin = own,
           NEW object \in DigitalObject, object.pin = own,
           NEW state \in [Pins -> Level], \A p \in Pins \ {own} : state[p] = board[p],
           Missed(state), RaisesWith(object), UNCHANGED pwm
    PROVE  PinsInv'
<1>1. PICK left : /\ left = NULL \/ (left \in DigitalObject /\ left.pin = own /\ left.sound = FALSE)
                  /\ dio' = [dio EXCEPT ![g] = left] /\ call' = NoCall
  BY DEF RaisesWith, Ends, DigitalObject
<1>2. board' \in [Pins -> Level] /\ \A p \in Pins \ {own} : board'[p] = board[p]
  BY DEF Missed, PinsInv, PinsTypeOK, Level
<1>3. StageInv'
  BY <1>1, NoCallTyped DEF StageInv
<1> QED
  BY OneObject, <1>1, <1>2, <1>3, NoCallTyped

\* A method that ends with its object in order.
LEMMA Ending ==
    ASSUME PinsInv, NEW g \in Digitals, NEW own \in Pins, call.h = g, g \in LiveDigitals,
           dio[g].pin = own,
           NEW object \in DigitalObject, object.pin = own, Ends(object),
           board' \in [Pins -> Level], \A p \in Pins \ {own} : board'[p] = board[p],
           (object.sound /\ object.dir = "OUT") =>
              board'[own] = [mode |-> "OUT", level |-> object.value],
           UNCHANGED pwm
    PROVE  PinsInv'
<1>1. dio' = [dio EXCEPT ![g] = object] /\ call' = NoCall
  BY DEF Ends
<1>2. StageInv'
  BY <1>1, NoCallTyped DEF StageInv
<1> QED
  BY OneObject, <1>1, <1>2, NoCallTyped

\* A method that goes on to another stage.
LEMMA GoingOn ==
    ASSUME PinsInv, NEW g \in Digitals, NEW own \in Pins, call.h = g, g \in LiveDigitals,
           dio[g].pin = own, NEW at \in {"write", "drive"},
           NEW object \in DigitalObject, object.pin = own, GoesOn(at, object),
           board' \in [Pins -> Level], \A p \in Pins \ {own} : board'[p] = board[p],
           object.dir = "OUT", board'[own].mode = "OUT",
           at = "drive" => board'[own] = [mode |-> "OUT", level |-> object.value],
           UNCHANGED pwm
    PROVE  PinsInv'
<1>1. dio' = [dio EXCEPT ![g] = object] /\ call' = [call EXCEPT !.at = at]
  BY DEF GoesOn
<1>2. dio'[g] = object
  BY <1>1 DEF PinsInv, PinsTypeOK
<1>3. call' \in Calls /\ call'.h = g /\ call'.at = at /\ object # NULL
  BY <1>1, NullAssumption DEF PinsInv, PinsTypeOK, Calls
<1>4. StageInv'
  BY <1>2, <1>3 DEF StageInv
<1>5. call' # NoCall
  BY <1>3, NoCallTyped
<1> QED
  BY OneObject, <1>1, <1>3, <1>4, <1>5

LEMMA ModeIInv ==
    ASSUME PinsInv, Mode
    PROVE  PinsInv'
<1>1. PICK g \in Digitals, own \in Pins :
         /\ call.h = g /\ g \in LiveDigitals
         /\ dio[g] \in DigitalObject /\ dio[g].pin = own /\ OwnPin = own
  BY Running DEF Mode
<1> DEFINE object == dio[g]
           state == ModeSet(object.dir)
<1>2. object.dir \in Directions
  BY <1>1 DEF DigitalObject
<1>3. /\ state \in [Pins -> Level] /\ \A p \in Pins \ {own} : state[p] = board[p]
      /\ state[own] = [mode |-> object.dir, level |-> board[own].level]
  BY <1>1, <1>2, PinCommands DEF ModeSet, PinsInv, PinsTypeOK, Level
<1>4. UNCHANGED pwm
  BY DEF Mode
<1>5. CASE Performed(state) /\ object.dir = "OUT" /\ GoesOn("write", object)
  BY <1>1, <1>3, <1>4, <1>5, GoingOn DEF Performed
<1>6. CASE Performed(state) /\ object.dir # "OUT" /\ Ends([object EXCEPT !.sound = TRUE])
  <2> DEFINE after == [object EXCEPT !.sound = TRUE]
  <2>1. after \in DigitalObject /\ after.pin = own /\ after.dir # "OUT"
    BY <1>1, <1>6 DEF DigitalObject
  <2>2. Performed(state) /\ Ends(after)
    BY <1>6
  <2> HIDE DEF after
  <2> QED
    BY <1>1, <1>3, <1>4, <2>1, <2>2, Ending DEF Performed
<1>7. CASE Missed(state) /\ RaisesWith(object)
  BY <1>1, <1>3, <1>4, <1>7, Raising
<1> QED
  BY <1>1, <1>5, <1>6, <1>7 DEF Mode

LEMMA WriteIInv ==
    ASSUME PinsInv, Write
    PROVE  PinsInv'
<1>1. PICK g \in Digitals, own \in Pins :
         /\ call.h = g /\ g \in LiveDigitals
         /\ dio[g] \in DigitalObject /\ dio[g].pin = own /\ OwnPin = own
  BY Running DEF Write
<1>2. PICK level \in {0, 1} : call.level = level
  BY DEF PinsInv, PinsTypeOK, Calls
<1> DEFINE object == [dio[g] EXCEPT !.value = level]
           state == LevelSet(level)
<1>3. /\ object \in DigitalObject
      /\ object.pin = own /\ object.dir = dio[g].dir /\ object.sound = dio[g].sound
      /\ object.value = level
  BY <1>1 DEF DigitalObject
<1>4. /\ state \in [Pins -> Level] /\ \A p \in Pins \ {own} : state[p] = board[p]
      /\ state[own] = [mode |-> board[own].mode, level |-> level]
  BY <1>1, PinCommands DEF LevelSet, PinsInv, PinsTypeOK, Level, Directions
<1>5. /\ dio[g].dir = "OUT"
      /\ call.op = "direction" \/ dio[g].sound => board[own].mode = "OUT"
  BY <1>1 DEF PinsInv, StageInv, Write
<1>6. UNCHANGED pwm
  BY DEF Write
<1> HIDE DEF object
<1>7. CASE Performed(state) /\ call.op = "direction" /\ GoesOn("drive", object)
  BY <1>1, <1>3, <1>4, <1>5, <1>6, <1>7, GoingOn DEF Performed
<1>8. CASE Performed(state) /\ Ends(object)
  BY <1>1, <1>3, <1>4, <1>5, <1>6, <1>8, Ending DEF Performed
<1>9. CASE Missed(state) /\ RaisesWith(object)
  BY <1>1, <1>3, <1>4, <1>6, <1>9, Raising
<1> QED
  BY <1>1, <1>2, <1>7, <1>8, <1>9 DEF Write, object

LEMMA DriveIInv ==
    ASSUME PinsInv, Drive
    PROVE  PinsInv'
<1>1. PICK g \in Digitals, own \in Pins :
         /\ call.h = g /\ g \in LiveDigitals
         /\ dio[g] \in DigitalObject /\ dio[g].pin = own /\ OwnPin = own
  BY Running DEF Drive
<1> DEFINE state == ModeSet("OUT")
           object == IF call.op = "direction" THEN [dio[g] EXCEPT !.sound = TRUE] ELSE dio[g]
<1>2. /\ state \in [Pins -> Level] /\ \A p \in Pins \ {own} : state[p] = board[p]
      /\ state[own] = [mode |-> "OUT", level |-> board[own].level]
  BY <1>1, PinCommands DEF ModeSet, PinsInv, PinsTypeOK, Level, Directions
<1>3. /\ object \in DigitalObject
      /\ object.pin = own /\ object.dir = dio[g].dir /\ object.value = dio[g].value
      /\ object.sound => call.op = "direction" \/ dio[g].sound
  BY <1>1 DEF DigitalObject
<1>4. call.op = "direction" \/ (dio[g].sound /\ dio[g].dir = "OUT") =>
         board[own] = [mode |-> "OUT", level |-> dio[g].value]
  BY <1>1 DEF PinsInv, StageInv, Drive
<1>5. UNCHANGED pwm
  BY DEF Drive
<1> HIDE DEF object
<1>6. CASE Performed(state) /\ Ends(object)
  BY <1>1, <1>2, <1>3, <1>4, <1>5, <1>6, Ending DEF Performed
<1>7. CASE Missed(state) /\ RaisesWith(dio[g])
  BY <1>1, <1>2, <1>5, <1>7, Raising
<1> QED
  BY <1>1, <1>6, <1>7 DEF Drive, object

-----------------------------------------------------------------------------
(* The methods' beginnings, PWM and resets *)

\* A method begins, and may have set attributes that no promise rests on.
LEMMA BeginIInv ==
    ASSUME PinsInv, NEW g \in Digitals, NEW own \in Pins,
           g \in LiveDigitals => dio[g].pin = own,
           g \notin LiveDigitals => own \notin PinsInUse,
           NEW op \in {"new", "direction", "value", "drive_mode", "switch"},
           NEW at \in {"mode", "write", "drive"}, NEW level \in {0, 1},
           NEW object \in DigitalObject, object.pin = own,
           Begin(op, g, at, level, object),
           at # "mode" => /\ g \in LiveDigitals /\ op # "direction"
                          /\ object.dir = dio[g].dir /\ object.value = dio[g].value
                          /\ object.sound = dio[g].sound,
           at = "write" => object.dir = "OUT"
    PROVE  PinsInv'
<1>1. /\ call = NoCall /\ call' = Call(op, g, at, level)
      /\ dio' = [dio EXCEPT ![g] = object] /\ board' = board /\ pwm' = pwm
  BY DEF Begin
<1>2. /\ call' \in Calls /\ call'.h = g /\ call'.at = at /\ call'.op = op
      /\ call' # NoCall /\ object # NULL
  BY <1>1, NullAssumption DEF Call, Calls, NoCall
<1>3. dio'[g] = object
  BY <1>1 DEF PinsInv, PinsTypeOK
<1>4. at # "mode" /\ object.sound /\ object.dir = "OUT" =>
         board[own] = [mode |-> "OUT", level |-> object.value]
  BY <1>1, NullAssumption DEF PinsInv, OutputAsWritten, AtRest, NoCall
<1>5. StageInv'
  BY <1>1, <1>2, <1>3, <1>4 DEF StageInv
<1>6. board' \in [Pins -> Level]
  BY <1>1 DEF PinsInv, PinsTypeOK, Level
<1> QED
  BY OneObject, <1>1, <1>2, <1>5, <1>6

LEMMA NewIInv ==
    ASSUME PinsInv, NEW h \in Digitals, NEW p \in Pins, New(h, p)
    PROVE  PinsInv'
<1>1. NewDigital(p).pin = p
  BY DEF NewDigital
<1> QED
  BY BeginIInv, NewIsDigital, <1>1 DEF New

LEMMA SetterIInv ==
    ASSUME PinsInv, NEW h \in Digitals,
           \/ \E dir \in Directions : SetDirection(h, dir)
           \/ \E level \in {0, 1} : SetValue(h, level) \/ SwitchToOutput(h, level, "PUSH_PULL")
           \/ SetDriveMode(h)
    PROVE  PinsInv'
<1>1. /\ h \in LiveDigitals /\ dio[h] \in DigitalObject /\ dio[h].pin \in Pins
  <2>1. h \in LiveDigitals
    BY DEF SetDirection, SetValue, SwitchToOutput, SetDriveMode
  <2> QED
    BY <2>1, LiveIsDigital DEF PinsInv
<1>2. CASE \E dir \in Directions : SetDirection(h, dir)
  <2>1. PICK dir \in Directions : SetDirection(h, dir)
    BY <1>2
  <2>2. [dio[h] EXCEPT !.dir = dir] \in DigitalObject /\ [dio[h] EXCEPT !.dir = dir].pin = dio[h].pin
    BY <1>1 DEF DigitalObject
  <2> QED
    BY <1>1, <2>1, <2>2, BeginIInv DEF SetDirection
<1>3. CASE \E level \in {0, 1} : SetValue(h, level)
  BY <1>1, <1>3, BeginIInv DEF SetValue
<1>4. CASE SetDriveMode(h)
  BY <1>1, <1>4, BeginIInv DEF SetDriveMode
<1>5. CASE \E level \in {0, 1} : SwitchToOutput(h, level, "PUSH_PULL")
  <2> DEFINE object == [dio[h] EXCEPT !.drive = "PUSH_PULL"]
  <2>1. /\ object \in DigitalObject /\ object.pin = dio[h].pin /\ object.dir = dio[h].dir
        /\ object.value = dio[h].value /\ object.sound = dio[h].sound
    BY <1>1 DEF DigitalObject
  <2> HIDE DEF object
  <2>2. CASE object.dir = "OUT" /\ \E level \in {0, 1} : Begin("switch", h, "write", level, object)
    BY <1>1, <2>1, <2>2, BeginIInv
  <2>3. CASE object.dir = "IN" /\ call = NoCall /\ dio' = [dio EXCEPT ![h] = object]
             /\ UNCHANGED <<board, pwm, call>>
    <3>1. StageInv'
      BY <2>3, NoCallTyped DEF StageInv
    <3>2. board' \in [Pins -> Level]
      BY <2>3 DEF PinsInv, PinsTypeOK, Level
    <3> QED
      BY OneObject, <1>1, <2>1, <2>3, <3>1, <3>2, NoCallTyped
  <2> QED
    BY <1>5, <2>2, <2>3 DEF SwitchToOutput, object
<1> QED
  BY <1>2, <1>3, <1>4, <1>5

LEMMA DeinitIInv ==
    ASSUME PinsInv, NEW h \in Digitals, Deinit(h)
    PROVE  PinsInv'
<1>1. h \in LiveDigitals /\ dio[h].pin \in Pins
  BY LiveIsDigital DEF Deinit, PinsInv
<1>2. StageInv'
  BY NoCallTyped DEF Deinit, StageInv
<1>3. board' \in [Pins -> Level]
  BY DEF Deinit, PinsInv, PinsTypeOK, Level
<1> QED
  BY OneObject, <1>1, <1>2, <1>3, NoCallTyped DEF Deinit

\* A PWM writes its own attributes and its own pin, on which no DigitalInOut is.
LEMMA OnePwm ==
    ASSUME PinsInv, call = NoCall, NEW w \in Pwms, NEW object, NEW own \in Pins,
           w \in LivePwms => pwm[w].pin = own,
           w \notin LivePwms => own \notin PinsInUse,
           object = NULL \/ (object \in PwmObject /\ object.pin = own),
           pwm' = [pwm EXCEPT ![w] = object],
           board' \in [Pins -> Level], \A p \in Pins \ {own} : board'[p] = board[p],
           UNCHANGED <<dio, call>>
    PROVE  PinsInv'
<1>1. /\ pwm' \in [Pwms -> PwmObject \cup {NULL}] /\ pwm'[w] = object
      /\ \A v \in Pwms \ {w} : pwm'[v] = pwm[v]
  BY DEF PinsInv, PinsTypeOK
<1>2. \A h \in LiveDigitals : dio[h].pin # own
  BY DEF PinsInv, PinsTypeOK, PinsApart, PinsInUse
<1>3. \A v \in LivePwms \ {w} : pwm[v].pin # own
  BY DEF PinsInv, PinsTypeOK, PinsApart, PinsInUse
<1>4. PinsApart'
  <2>1. ASSUME NEW u \in LivePwms', NEW v \in LivePwms', pwm'[u].pin = pwm'[v].pin
        PROVE  u = v
    BY <2>1, <1>1, <1>3 DEF PinsInv, PinsTypeOK, PinsApart, LivePwms
  <2>2. ASSUME NEW h \in LiveDigitals, NEW v \in LivePwms'
        PROVE  dio[h].pin # pwm'[v].pin
    BY <2>2, <1>1, <1>2 DEF PinsInv, PinsTypeOK, PinsApart, LivePwms
  <2> QED
    BY <2>1, <2>2 DEF PinsApart, LiveDigitals, PinsInv, PinsTypeOK
<1>5. OutputAsWritten'
  <2> SUFFICES ASSUME NEW h \in Digitals, AtRest(h)', dio'[h].dir = "OUT"
               PROVE  board'[dio'[h].pin] = [mode |-> "OUT", level |-> dio'[h].value]
    BY DEF OutputAsWritten
  <2>1. AtRest(h)
    BY DEF AtRest, LiveDigitals
  <2>2. board'[dio[h].pin] = board[dio[h].pin]
    BY <2>1, <1>2, LiveIsDigital DEF AtRest, PinsInv
  <2> QED
    BY <2>1, <2>2 DEF PinsInv, OutputAsWritten
<1>6. StageInv'
  BY NoCallTyped DEF StageInv
<1>7. PinsTypeOK'
  BY <1>1, <1>4 DEF PinsInv, PinsTypeOK, Level, LiveDigitals
<1> QED
  BY <1>5, <1>6, <1>7 DEF PinsInv

LEMMA PwmIInv ==
    ASSUME PinsInv, NEW w \in Pwms,
           \/ \E p \in Pins, duty \in Duties : NewPwmOut(w, p, duty)
           \/ \E duty \in Duties : SetDutyCycle(w, duty)
           \/ \E freq \in Frequencies : SetFrequency(w, freq)
           \/ DeinitPwm(w)
    PROVE  PinsInv'
<1>1. board \in [Pins -> Level]
  BY DEF PinsInv, PinsTypeOK, Level
<1>2. w \in LivePwms => pwm[w] \in PwmObject /\ pwm[w].pin \in Pins
  BY LiveIsPwm DEF PinsInv
<1>3. ASSUME NEW p \in Pins, NEW duty \in Duties, NewPwmOut(w, p, duty)
      PROVE  PinsInv'
  <2>1. NewPwm(p, duty) \in PwmObject /\ NewPwm(p, duty).pin = p
    BY DEF NewPwm, PwmObject
  <2> QED
    BY <1>1, <1>3, <2>1, OnePwm DEF NewPwmOut
<1>4. ASSUME NEW duty \in Duties, SetDutyCycle(w, duty)
      PROVE  PinsInv'
  <2>1. PICK own \in Pins : w \in LivePwms /\ pwm[w] \in PwmObject /\ pwm[w].pin = own
    BY <1>2, <1>4 DEF SetDutyCycle
  <2> DEFINE after == [board EXCEPT ![own] = [mode |-> "PWM", level |-> duty]]
  <2>2. after \in [Pins -> Level] /\ \A p \in Pins \ {own} : after[p] = board[p]
    BY <1>1, DutiesAssumption DEF Level
  <2>3. [pwm[w] EXCEPT !.set = duty] \in PwmObject /\ [pwm[w] EXCEPT !.set = duty].pin = own
    BY <2>1 DEF PwmObject
  <2>4. call = NoCall /\ UNCHANGED <<dio, call>>
    BY <1>4 DEF SetDutyCycle
  <2>5. board' \in [Pins -> Level] /\ \A p \in Pins \ {own} : board'[p] = board[p]
    BY <1>1, <1>4, <2>1, <2>2 DEF SetDutyCycle, Performed, Missed
  <2>6. CASE pwm' = [pwm EXCEPT ![w].set = duty]
    BY <2>1, <2>3, <2>4, <2>5, <2>6, OnePwm
  <2>7. CASE pwm' = pwm
    <3>1. pwm' = [pwm EXCEPT ![w] = pwm[w]]
      BY <2>7 DEF PinsInv, PinsTypeOK
    <3> QED
      BY <2>1, <2>4, <2>5, <3>1, OnePwm
  <2> QED
    BY <1>4, <2>6, <2>7 DEF SetDutyCycle
<1>5. ASSUME NEW freq \in Frequencies, SetFrequency(w, freq)
      PROVE  PinsInv'
  <2>1. PICK own \in Pins : w \in LivePwms /\ pwm[w] \in PwmObject /\ pwm[w].pin = own
    BY <1>2, <1>5 DEF SetFrequency
  <2>2. [pwm[w] EXCEPT !.freq = freq] \in PwmObject /\ [pwm[w] EXCEPT !.freq = freq].pin = own
    BY <2>1 DEF PwmObject
  <2> QED
    BY <1>1, <1>5, <2>1, <2>2, OnePwm DEF SetFrequency
<1>6. CASE DeinitPwm(w)
  BY <1>1, <1>2, <1>6, OnePwm DEF DeinitPwm
<1> QED
  BY <1>3, <1>4, <1>5, <1>6

LEMMA ResetIInv ==
    ASSUME PinsInv, Reset
    PROVE  PinsInv'
<1>1. /\ dio' \in [Digitals -> DigitalObject \cup {NULL}]
      /\ \A h \in Digitals :
           /\ dio'[h] # NULL <=> h \in LiveDigitals
           /\ h \in LiveDigitals => ~dio'[h].sound /\ dio'[h].pin = dio[h].pin
  <2>1. \A h \in LiveDigitals :
           /\ [dio[h] EXCEPT !.sound = FALSE] \in DigitalObject
           /\ [dio[h] EXCEPT !.sound = FALSE].pin = dio[h].pin
           /\ ~[dio[h] EXCEPT !.sound = FALSE].sound
    BY LiveIsDigital DEF PinsInv, DigitalObject
  <2> QED
    BY <2>1, NullAssumption DEF Reset, LiveDigitals
<1>2. LiveDigitals' = LiveDigitals
  <2>1. \A h \in Digitals : dio'[h] # NULL <=> dio[h] # NULL
    BY <1>1 DEF LiveDigitals
  <2> QED
    BY <2>1 DEF LiveDigitals
<1>3. PinsApart'
  BY <1>1, <1>2 DEF PinsInv, PinsTypeOK, PinsApart, Reset, LivePwms, LiveDigitals
<1>4. board' \in [Pins -> Level]
  BY DEF Reset, ResetPin, Level, Directions
<1>5. PinsTypeOK'
  BY <1>1, <1>2, <1>3, <1>4 DEF PinsInv, PinsTypeOK, Reset, Level
<1>6. OutputAsWritten'
  <2>1. \A h \in Digitals : ~AtRest(h)'
    BY <1>1, <1>2 DEF AtRest
  <2> QED
    BY <2>1 DEF OutputAsWritten
<1>7. StageInv'
  BY NoCallTyped DEF Reset, StageInv
<1> QED
  BY <1>5, <1>6, <1>7 DEF PinsInv

-----------------------------------------------------------------------------
(* The theorems *)

LEMMA PinsInitially == PinsInit => PinsInv
<1> SUFFICES ASSUME PinsInit PROVE PinsInv
  OBVIOUS
<1>1. LiveDigitals = {} /\ LivePwms = {}
  BY DEF PinsInit, LiveDigitals, LivePwms
<1>2. PinsTypeOK
  BY <1>1, NoCallTyped DEF PinsInit, PinsTypeOK, ResetPin, PinsApart, Directions
<1>3. OutputAsWritten
  BY <1>1 DEF OutputAsWritten, AtRest
<1>4. StageInv
  BY NoCallTyped DEF PinsInit, StageInv
<1> QED
  BY <1>2, <1>3, <1>4 DEF PinsInv

LEMMA PinsStep == PinsInv /\ [PinsNext]_pinsVars => PinsInv'
<1> SUFFICES ASSUME PinsInv, [PinsNext]_pinsVars PROVE PinsInv'
  OBVIOUS
<1>1. CASE UNCHANGED pinsVars
  <2>1. PinsTypeOK'
    BY <1>1 DEF PinsInv, PinsTypeOK, pinsVars, LiveDigitals, LivePwms, PinsApart
  <2>2. OutputAsWritten'
    BY <1>1 DEF PinsInv, OutputAsWritten, AtRest, pinsVars, LiveDigitals
  <2>3. StageInv'
    BY <1>1 DEF PinsInv, StageInv, pinsVars
  <2> QED
    BY <2>1, <2>2, <2>3 DEF PinsInv
<1>2. ASSUME NEW h \in Digitals, NEW p \in Pins, New(h, p)
      PROVE  PinsInv'
  BY <1>2, NewIInv
<1>3. ASSUME NEW h \in Digitals,
             \/ \E dir \in Directions : SetDirection(h, dir)
             \/ \E level \in {0, 1} : SetValue(h, level) \/ SwitchToOutput(h, level, "PUSH_PULL")
             \/ SetDriveMode(h)
      PROVE  PinsInv'
  BY <1>3, SetterIInv
<1>4. ASSUME NEW h \in Digitals, Deinit(h)
      PROVE  PinsInv'
  BY <1>4, DeinitIInv
<1>5. CASE Mode
  BY <1>5, ModeIInv
<1>6. CASE Write
  BY <1>6, WriteIInv
<1>7. CASE Drive
  BY <1>7, DriveIInv
<1>8. ASSUME NEW w \in Pwms,
             \/ \E p \in Pins, duty \in Duties : NewPwmOut(w, p, duty)
             \/ \E duty \in Duties : SetDutyCycle(w, duty)
             \/ \E freq \in Frequencies : SetFrequency(w, freq)
             \/ DeinitPwm(w)
      PROVE  PinsInv'
  BY <1>8, PwmIInv
<1>9. CASE Reset
  BY <1>9, ResetIInv
<1> QED
  BY <1>1, <1>2, <1>3, <1>4, <1>5, <1>6, <1>7, <1>8, <1>9 DEF PinsNext

\* What the pins of all objects are like between the commands of every method of
\* digitalio.py and PWMOut.py.
THEOREM PinsInvariant == PinsSpec => []PinsInv
BY PinsInitially, PinsStep, PTL DEF PinsSpec

\* The attributes and the board keep their types, and no two objects share a pin.
THEOREM PinsTyped == PinsSpec => []PinsTypeOK
<1>1. PinsInv => PinsTypeOK
  BY DEF PinsInv
<1> QED
  BY PinsInvariant, <1>1, PTL

\* The value setter's promise (digitalio.py: Pin.value): an output is at the level
\* last written, whatever an earlier owner or a missed command left on the pin.
THEOREM OutputsAsWritten == PinsSpec => []OutputAsWritten
<1>1. PinsInv => OutputAsWritten
  BY DEF PinsInv
<1> QED
  BY PinsInvariant, <1>1, PTL

-----------------------------------------------------------------------------
(* The driver *)

\* SPI_RX_BUFFER_SIZE is 256. A longer packet is dropped; a string in one that is not has
\* a length that fits into a byte, as _send_command's "& 0xFF" and the handlers need it.
PageBuffer == RxSize <= 256

-----------------------------------------------------------------------------
(* Bytes and sequences *)

\* The bytes of s stand in b behind the first i.
Lies(b, i, s) ==
    /\ i \in Nat /\ i + Len(s) <= Len(b)
    /\ \A j \in 1 .. Len(s) : b[i + j] = s[j]

LEMMA LiesConcat ==
    ASSUME NEW S, NEW a \in Seq(S), NEW b \in Seq(S)
    PROVE  /\ a \o b \in Seq(S) /\ Len(a \o b) = Len(a) + Len(b)
           /\ Lies(a \o b, 0, a) /\ Lies(a \o b, Len(a), b)
<1>1. a \o b \in Seq(S) /\ Len(a \o b) = Len(a) + Len(b) /\ Len(a) \in Nat /\ Len(b) \in Nat
  BY ConcatProperties, LenProperties
<1>2. \A i \in 1 .. Len(a) + Len(b) : (a \o b)[i] = IF i <= Len(a) THEN a[i] ELSE b[i - Len(a)]
  BY ConcatProperties
<1>3. PICK c, l, m : c = a \o b /\ l = Len(a) /\ m = Len(b)
  OBVIOUS
<1>4. \A j \in 1 .. l : c[0 + j] = a[j]
  <2>1. \A j \in 1 .. l : 0 + j = j /\ j \in 1 .. l + m /\ j <= l
    BY <1>1, <1>3
  <2> QED
    BY <1>2, <1>3, <2>1
<1>5. \A j \in 1 .. m : c[l + j] = b[j]
  <2>1. \A j \in 1 .. m : l + j \in 1 .. l + m /\ ~ (l + j <= l) /\ l + j - l = j
    BY <1>1, <1>3
  <2> QED
    BY <1>2, <1>3, <2>1
<1>6. Len(c) = l + m /\ l \in Nat /\ m \in Nat
  BY <1>1, <1>3
<1>7. Lies(c, 0, a)
  BY <1>3, <1>4, <1>6 DEF Lies
<1>8. Lies(c, l, b)
  BY <1>3, <1>5, <1>6 DEF Lies
<1> QED
  BY <1>1, <1>3, <1>7, <1>8

LEMMA LiesWithin ==
    ASSUME NEW b, NEW i, NEW s, NEW j, NEW t, Lies(b, i, s), Lies(s, j, t),
           Len(b) \in Nat, Len(s) \in Nat, Len(t) \in Nat
    PROVE  Lies(b, i + j, t)
<1>1. /\ i \in Nat /\ j \in Nat /\ i + Len(s) <= Len(b) /\ j + Len(t) <= Len(s)
      /\ \A k \in 1 .. Len(s) : b[i + k] = s[k]
      /\ \A k \in 1 .. Len(t) : s[j + k] = t[k]
  BY DEF Lies
<1>2. PICK l, m, n \in Nat : l = Len(b) /\ m = Len(s) /\ n = Len(t)
  OBVIOUS
<1>3. \A k \in 1 .. n : j + k \in 1 .. m /\ i + (j + k) = i + j + k
  BY <1>1, <1>2
<1>4. \A k \in 1 .. n : b[i + j + k] = t[k]
  BY <1>1, <1>2, <1>3
<1>5. i + j \in Nat /\ i + j + n <= l
  BY <1>1, <1>2
<1> QED
  BY <1>2, <1>4, <1>5 DEF Lies

LEMMA LiesFirst ==
    ASSUME NEW b, NEW s, NEW j, NEW t, Lies(b, 0, s), Lies(s, j, t),
           Len(b) \in Nat, Len(s) \in Nat, Len(t) \in Nat
    PROVE  Lies(b, j, t)
<1>1. PICK i : i = 0
  OBVIOUS
<1>2. Lies(b, i, s)
  BY <1>1
<1>3. Lies(b, i + j, t)
  BY <1>2, LiesWithin
<1>4. j \in Nat
  BY DEF Lies
<1> QED
  BY <1>1, <1>3, <1>4

LEMMA LiesSlice ==
    ASSUME NEW S, NEW b \in Seq(S), NEW s \in Seq(S), NEW i, Lies(b, i, s)
    PROVE  SubSeq(b, i + 1, i + Len(s)) = s
<1>1. PICK l, n \in Nat : l = Len(b) /\ n = Len(s)
  BY LenProperties
<1>2. i \in Nat /\ i + n <= l /\ \A j \in 1 .. n : b[i + j] = s[j]
  BY <1>1 DEF Lies
<1>3. SubSeq(b, i + 1, i + n) = [j \in 1 .. n |-> b[j + i]]
  <2>1. 1 + (i + n) - (i + 1) = n /\ \A j \in Int : j + (i + 1) - 1 = j + i
    BY <1>1, <1>2
  <2> QED
    BY <1>1, <1>2, <2>1
<1>4. \A j \in 1 .. n : j + i = i + j
  BY <1>1, <1>2
<1>5. [j \in 1 .. n |-> b[j + i]] = [j \in 1 .. n |-> s[j]]
  BY <1>2, <1>4
<1>6. s = [j \in 1 .. n |-> s[j]]
  BY <1>1
<1> QED
  BY <1>1, <1>3, <1>5, <1>6

LEMMA LiesByte ==
    ASSUME NEW b, NEW s, NEW i, Lies(b, i, s), NEW j \in Nat, 1 <= j, j <= Len(s), Len(s) \in Nat
    PROVE  b[i + j] = s[j]
<1>1. j \in 1 .. Len(s)
  OBVIOUS
<1> QED
  BY <1>1 DEF Lies

\* FlattenSeq of one to five sequences: they stand one behind the other.
LEMMA Flattens ==
    ASSUME NEW S, NEW n \in 1 .. 5, NEW seqs \in Seq(Seq(S)), Len(seqs) = n
    PROVE  \E f : /\ FlattenSeq(seqs) = f[n] /\ f[1] = seqs[1]
                  /\ \A i \in 1 .. n - 1 : f[i + 1] = f[i] \o seqs[i + 1]
<1> DEFINE Rec(g) == g = [i \in 1 .. Len(seqs) |-> IF i = 1 THEN seqs[i] ELSE g[i - 1] \o seqs[i]]
           two == seqs[1] \o seqs[2]
           three == two \o seqs[3]
           four == three \o seqs[4]
           h == [i \in 1 .. n |-> IF i = 1 THEN seqs[i]
                                  ELSE IF i = 2 THEN seqs[1] \o seqs[i]
                                  ELSE IF i = 3 THEN two \o seqs[i]
                                  ELSE IF i = 4 THEN three \o seqs[i]
                                  ELSE four \o seqs[i]]
           f == CHOOSE g : Rec(g)
<1>1. FlattenSeq(seqs) = f[n]
  <2>1. seqs # <<>>
    <3>1. Len(seqs) # 0
      OBVIOUS
    <3> QED
      BY <3>1
  <2> QED
    BY <2>1 DEF FlattenSeq
<1>2. Rec(h)
  <2>1. \A i \in 1 .. n :
          \/ i = 1
          \/ i = 2 /\ i - 1 = 1 /\ i # 1 /\ 1 \in 1 .. n
          \/ i = 3 /\ i - 1 = 2 /\ i # 1 /\ i # 2 /\ 2 \in 1 .. n
          \/ i = 4 /\ i - 1 = 3 /\ i # 1 /\ i # 2 /\ i # 3 /\ 3 \in 1 .. n
          \/ i = 5 /\ i - 1 = 4 /\ i # 1 /\ i # 2 /\ i # 3 /\ i # 4 /\ 4 \in 1 .. n
    OBVIOUS
  <2>2. \A i \in 1 .. n : h[i] = IF i = 1 THEN seqs[i] ELSE h[i - 1] \o seqs[i]
    BY <2>1
  <2>3. h = [i \in 1 .. n |-> h[i]]
    OBVIOUS
  <2> HIDE DEF h
  <2> QED
    BY <2>2, <2>3
<1>3. Rec(f)
  <2> HIDE DEF Rec, h
  <2> QED
    BY <1>2
<1> HIDE DEF f
<1>4. \A i \in 1 .. n : f[i] = IF i = 1 THEN seqs[i] ELSE f[i - 1] \o seqs[i]
  BY <1>3
<1>5. f[1] = seqs[1]
  BY <1>4
<1>6. \A i \in 1 .. n - 1 : f[i + 1] = f[i] \o seqs[i + 1]
  <2> HIDE DEF h, Rec
  <2> SUFFICES ASSUME NEW i \in 1 .. n - 1 PROVE f[i + 1] = f[i] \o seqs[i + 1]
    OBVIOUS
  <2>1. PICK k \in 1 .. n : k = i + 1 /\ k # 1 /\ k - 1 = i
    OBVIOUS
  <2>2. f[k] = f[k - 1] \o seqs[k]
    BY Zenon, <1>4, <2>1
  <2> QED
    BY <2>1, <2>2
<1> QED
  BY <1>1, <1>5, <1>6

\* Where each of them stands: the i-th behind the first at[i].
Spread(b, seqs, n, first, at) ==
    /\ at[1] = first
    /\ \A i \in 1 .. n : at[i + 1] = at[i] + Len(seqs[i]) /\ at[i] \in Nat /\ Lies(b, at[i], seqs[i])

LEMMA Spreads ==
    ASSUME NEW S, NEW n \in 1 .. 5, NEW seqs \in Seq(Seq(S)), Len(seqs) = n
    PROVE  /\ FlattenSeq(seqs) \in Seq(S)
           /\ \E at : Spread(FlattenSeq(seqs), seqs, n, 0, at) /\ at[n + 1] = Len(FlattenSeq(seqs))
<1>1. PICK f : /\ FlattenSeq(seqs) = f[n] /\ f[1] = seqs[1]
               /\ \A i \in 1 .. n - 1 : f[i + 1] = f[i] \o seqs[i + 1]
  BY Zenon, Flattens
<1>2. \A i \in 1 .. n : seqs[i] \in Seq(S) /\ Len(seqs[i]) \in Nat
  BY ElementOfSeq, LenProperties
<1> DEFINE at == [i \in 1 .. 6 |-> IF i = 1 THEN 0 ELSE Len(f[i - 1])]
           Stands(i) == /\ f[i] \in Seq(S) /\ Len(f[i]) \in Nat /\ at[i + 1] = Len(f[i])
                        /\ \A j \in 1 .. i : at[j + 1] = at[j] + Len(seqs[j]) /\ at[j] \in Nat
                                             /\ Lies(f[i], at[j], seqs[j])
<1>3. at[1] = 0 /\ \A i \in 1 .. 5 : at[i + 1] = Len(f[i])
  <2>1. \A i \in 1 .. 5 : i + 1 \in 1 .. 6 /\ i + 1 # 1 /\ i + 1 - 1 = i
    OBVIOUS
  <2>2. \A i \in 1 .. 6 : at[i] = IF i = 1 THEN 0 ELSE Len(f[i - 1])
    OBVIOUS
  <2> HIDE DEF at
  <2>3. ASSUME NEW i \in 1 .. 5 PROVE at[i + 1] = Len(f[i])
    <3>1. at[i + 1] = IF i + 1 = 1 THEN 0 ELSE Len(f[i + 1 - 1])
      BY <2>1, <2>2
    <3> QED
      BY <2>1, <3>1
  <2> QED
    BY <2>2, <2>3
<1> HIDE DEF at
<1>4. Stands(1)
  <2>1. 1 \in 1 .. n /\ 1 \in 1 .. 5 /\ 1 + 1 = 2
    OBVIOUS
  <2>2. f[1] \in Seq(S) /\ Len(f[1]) \in Nat /\ at[1 + 1] = Len(f[1]) /\ at[1] = 0
    BY <1>1, <1>2, <1>3, <2>1
  <2>3. Lies(f[1], 0, f[1])
    <3>1. PICK l \in Nat : l = Len(f[1])
      BY <2>2
    <3>2. 0 + l <= l /\ \A j \in 1 .. l : 0 + j = j
      OBVIOUS
    <3> QED
      BY <3>1, <3>2 DEF Lies
  <2>4. at[1 + 1] = at[1] + Len(seqs[1])
    BY <1>1, <2>2
  <2>5. \A j \in 1 .. 1 : j = 1
    OBVIOUS
  <2> QED
    BY <1>1, <2>2, <2>3, <2>4, <2>5
<1>5. ASSUME NEW i \in 1 .. n - 1, Stands(i) PROVE Stands(i + 1)
  <2>1. PICK k, a, b, c : k = i + 1 /\ a = f[i] /\ b = seqs[k] /\ c = f[k]
    OBVIOUS
  <2>2. k \in 1 .. n /\ k \in 1 .. 5 /\ i \in 1 .. 5
    BY <2>1
  <2>3. a \in Seq(S) /\ b \in Seq(S) /\ c = a \o b /\ Len(a) \in Nat /\ Len(b) \in Nat
    BY <1>1, <1>2, <1>5, <2>1, <2>2
  <2>4. /\ c \in Seq(S) /\ Len(c) = Len(a) + Len(b) /\ Lies(c, 0, a) /\ Lies(c, Len(a), b)
    BY <2>3, LiesConcat
  <2>5. at[k] = Len(a) /\ at[k + 1] = Len(c)
    BY <1>3, <2>1, <2>2
  <2>6. ASSUME NEW j \in 1 .. i
        PROVE  at[j + 1] = at[j] + Len(seqs[j]) /\ at[j] \in Nat /\ Lies(c, at[j], seqs[j])
    <3>1. at[j + 1] = at[j] + Len(seqs[j]) /\ at[j] \in Nat /\ Lies(a, at[j], seqs[j])
      BY <1>5, <2>1
    <3>2. Len(seqs[j]) \in Nat /\ Len(c) \in Nat
      <4>1. j \in 1 .. n
        OBVIOUS
      <4> QED
        BY <1>2, <2>3, <2>4, <4>1
    <3>3. Lies(c, 0 + at[j], seqs[j])
      BY <2>3, <2>4, <3>1, <3>2, LiesWithin
    <3>4. 0 + at[j] = at[j]
      BY <3>1
    <3> QED
      BY <3>1, <3>3, <3>4
  <2>7. at[k + 1] = at[k] + Len(b) /\ at[k] \in Nat /\ Len(c) \in Nat
    BY <2>3, <2>4, <2>5
  <2>8. \A j \in 1 .. k : j \in 1 .. i \/ j = k
    BY <2>1
  <2>9. \A j \in 1 .. k : at[j + 1] = at[j] + Len(seqs[j]) /\ at[j] \in Nat
                                             /\ Lies(c, at[j], seqs[j])
    BY <2>1, <2>4, <2>5, <2>6, <2>7, <2>8
  <2> QED
    BY <2>1, <2>4, <2>5, <2>7, <2>9
<1>6. Stands(n)
  <2> HIDE DEF Stands
  <2>1. n = 1 \/ n = 2 \/ n = 3 \/ n = 4 \/ n = 5
    OBVIOUS
  <2>2. 2 <= n => Stands(2)
    <3>1. 2 <= n => 1 \in 1 .. n - 1 /\ 1 + 1 = 2
      OBVIOUS
    <3> QED
      BY <1>4, <1>5, <3>1
  <2>3. 3 <= n => Stands(3)
    <3>1. 3 <= n => 2 \in 1 .. n - 1 /\ 2 + 1 = 3 /\ 2 <= n
      OBVIOUS
    <3> QED
      BY <2>2, <1>5, <3>1
  <2>4. 4 <= n => Stands(4)
    <3>1. 4 <= n => 3 \in 1 .. n - 1 /\ 3 + 1 = 4 /\ 3 <= n
      OBVIOUS
    <3> QED
      BY <2>3, <1>5, <3>1
  <2>5. 5 <= n => Stands(5)
    <3>1. 5 <= n => 4 \in 1 .. n - 1 /\ 4 + 1 = 5 /\ 4 <= n
      OBVIOUS
    <3> QED
      BY <2>4, <1>5, <3>1
  <2> QED
    BY <1>4, <2>1, <2>2, <2>3, <2>4, <2>5
<1>7. Spread(f[n], seqs, n, 0, at) /\ at[n + 1] = Len(f[n]) /\ f[n] \in Seq(S)
  BY <1>3, <1>6 DEF Spread
<1> QED
  BY <1>1, <1>7

-----------------------------------------------------------------------------
(* The packet of a command *)

LEMMA DigitIs == ASSUME NEW n \in Nat PROVE Low(n) \in Bytes /\ High(n) \in Bytes
<1>1. n % 256 \in 0 .. 255 /\ (n \div 256) % 256 \in 0 .. 255
  <2>1. PICK m \in Nat : m = n \div 256
    OBVIOUS
  <2>2. m % 256 \in 0 .. 255 /\ n % 256 \in 0 .. 255
    BY <2>1
  <2> QED
    BY <2>1, <2>2
<1> QED
  BY <1>1 DEF Low, High, Bytes

Width(wide) == IF wide THEN 2 ELSE 1

LEMMA LengthIs ==
    ASSUME NEW n \in Nat, NEW wide \in BOOLEAN
    PROVE  Length(n, wide) \in Seq(Bytes) /\ Len(Length(n, wide)) = Width(wide)
BY DigitIs DEF Length, Width

Formed(c) ==
    /\ c.code \in 0 .. 127 /\ c.wide \in BOOLEAN
    /\ c.params \in Seq(Seq(Bytes)) /\ Len(c.params) \in 0 .. 5

\* In b the i-th parameter of command c has its length at at[i], and then its bytes.
Carries(b, c, at) ==
    /\ at[1] = 3
    /\ \A i \in 1 .. Len(c.params) :
         /\ at[i + 1] = at[i] + Width(c.wide) + Len(c.params[i]) /\ at[i] \in Nat
         /\ Lies(b, at[i], Length(Len(c.params[i]), c.wide))
         /\ Lies(b, at[i] + Width(c.wide), c.params[i])

\* Each parameter's length fits into a byte.
Short(c) == \A i \in 1 .. Len(c.params) : Len(c.params[i]) <= 255

LEMMA BodyIs ==
    ASSUME NEW c, Formed(c)
    PROVE  /\ Body(c) \in Seq(Bytes) /\ Len(Body(c)) \in Nat
           /\ Lies(Body(c), 0, <<START, c.code, Len(c.params)>>)
           /\ Len(c.params) # 0 => \E at : Carries(Body(c), c, at)
<1> DEFINE Param(p) == Length(Len(p), c.wide) \o p
           seqs == [i \in DOMAIN c.params |-> Param(c.params[i])]
<1>1. PICK n \in 0 .. 5 : n = Len(c.params)
  BY DEF Formed
<1>2. PICK head, flat, end : head = <<START, c.code, n>> /\ flat = FlattenSeq(seqs) /\ end = <<END>>
  OBVIOUS
<1>3. Body(c) = (head \o flat) \o end
  <2>1. c.code % REPLY_FLAG = c.code
    <3>1. PICK k \in 0 .. 127 : k = c.code
      BY DEF Formed
    <3>2. k % 128 = k
      OBVIOUS
    <3> QED
      BY <3>1, <3>2 DEF REPLY_FLAG
  <2> QED
    BY <1>1, <1>2, <2>1 DEF Body
<1>4. \A i \in 1 .. n : c.params[i] \in Seq(Bytes) /\ Len(c.params[i]) \in Nat
  BY <1>1, ElementOfSeq, LenProperties DEF Formed
<1>5. ASSUME NEW i \in 1 .. n
      PROVE  /\ Param(c.params[i]) \in Seq(Bytes)
             /\ Len(Param(c.params[i])) = Width(c.wide) + Len(c.params[i])
             /\ Lies(Param(c.params[i]), 0, Length(Len(c.params[i]), c.wide))
             /\ Lies(Param(c.params[i]), Width(c.wide), c.params[i])
             /\ Length(Len(c.params[i]), c.wide) \in Seq(Bytes)
             /\ Len(Length(Len(c.params[i]), c.wide)) = Width(c.wide)
  <2>1. PICK p, m, l : p = c.params[i] /\ m = Len(p) /\ l = Length(m, c.wide)
    OBVIOUS
  <2>2. p \in Seq(Bytes) /\ m \in Nat /\ c.wide \in BOOLEAN
    BY <1>4, <2>1 DEF Formed
  <2>3. l \in Seq(Bytes) /\ Len(l) = Width(c.wide)
    BY <2>1, <2>2, LengthIs
  <2>4. /\ l \o p \in Seq(Bytes) /\ Len(l \o p) = Len(l) + Len(p)
        /\ Lies(l \o p, 0, l) /\ Lies(l \o p, Len(l), p)
    BY <2>2, <2>3, LiesConcat
  <2>5. Param(c.params[i]) = l \o p
    BY <2>1
  <2> HIDE DEF Param
  <2> QED
    BY <2>1, <2>3, <2>4, <2>5
<1>6. seqs = [i \in 1 .. n |-> Param(c.params[i])]
  BY <1>1 DEF Formed
<1> HIDE DEF Param
<1>7. seqs \in Seq(Seq(Bytes)) /\ Len(seqs) = n /\ \A i \in 1 .. n : seqs[i] = Param(c.params[i])
  <2>1. n \in Nat /\ \A i \in 1 .. n : Param(c.params[i]) \in Seq(Bytes)
    BY <1>5
  <2>2. seqs \in Seq(Seq(Bytes))
    BY <1>6, <2>1, IsASeq
  <2>3. Len(seqs) = n
    <3>1. DOMAIN seqs = 1 .. n
      BY <1>6
    <3> QED
      BY <2>1, <2>2, <3>1, LenProperties
  <2> QED
    BY <1>6, <2>2, <2>3
<1> HIDE DEF seqs
<1>8. flat \in Seq(Bytes) /\ (n # 0 => \E at : Spread(flat, seqs, n, 0, at))
  <2>1. CASE n = 0
    <3>1. seqs = <<>>
      BY <1>7, <2>1, EmptySeq
    <3>2. FlattenSeq(seqs) = <<>>
      BY <3>1 DEF FlattenSeq
    <3> QED
      BY <1>2, <2>1, <3>2
  <2>2. CASE n # 0
    <3>1. n \in 1 .. 5
      BY <2>2
    <3> QED
      BY <1>2, <1>7, <3>1, Spreads
  <2> QED
    BY <2>1, <2>2
<1>9. head \in Seq(Bytes) /\ Len(head) = 3 /\ end \in Seq(Bytes) /\ Len(end) = 1
  <2>1. START \in Bytes /\ c.code \in Bytes /\ n \in Bytes /\ END \in Bytes
    BY DEF START, END, Bytes, Formed
  <2> QED
    BY <1>2, <2>1
<1>10. PICK b, m : b = Body(c) /\ m = head \o flat
  OBVIOUS
<1>11. m \in Seq(Bytes) /\ Lies(m, 0, head) /\ Lies(m, 3, flat) /\ Len(m) \in Nat /\ Len(flat) \in Nat
  <2>1. m \in Seq(Bytes) /\ Lies(m, 0, head) /\ Lies(m, Len(head), flat)
    BY <1>8, <1>9, <1>10, LiesConcat
  <2> QED
    BY <1>8, <1>9, <2>1, LenProperties
<1>12. b \in Seq(Bytes) /\ Lies(b, 0, m) /\ Len(b) \in Nat
  <2>1. b = m \o end
    BY <1>3, <1>10
  <2>2. b \in Seq(Bytes) /\ Lies(b, 0, m)
    BY <1>9, <1>11, <2>1, LiesConcat
  <2> QED
    BY <2>2, LenProperties
<1>13. Lies(b, 0, head) /\ Lies(b, 3, flat)
  <2>1. Len(head) \in Nat
    BY <1>9
  <2>2. Lies(b, 0, head)
    BY <1>11, <1>12, <2>1, LiesFirst
  <2>3. Lies(b, 3, flat)
    BY <1>11, <1>12, LiesFirst
  <2> QED
    BY <2>2, <2>3
<1>14. ASSUME n # 0 PROVE \E at : Carries(b, c, at)
  <2>1. PICK o : Spread(flat, seqs, n, 0, o)
    BY <1>8, <1>14
  <2>2. o[1] = 0 /\ \A i \in 1 .. n : o[i + 1] = o[i] + Len(seqs[i]) /\ o[i] \in Nat /\ Lies(flat, o[i], seqs[i])
    BY <2>1 DEF Spread
  <2> DEFINE at == [i \in 1 .. 6 |-> 3 + o[i]]
  <2>3. \A i \in 1 .. 6 : at[i] = 3 + o[i]
    OBVIOUS
  <2> HIDE DEF at
  <2>4. at[1] = 3
    BY <2>2, <2>3
  <2>5. ASSUME NEW i \in 1 .. n
        PROVE  /\ at[i + 1] = at[i] + Width(c.wide) + Len(c.params[i]) /\ at[i] \in Nat
               /\ Lies(b, at[i], Length(Len(c.params[i]), c.wide))
               /\ Lies(b, at[i] + Width(c.wide), c.params[i])
    <3>1. PICK s, p, l, w, k : /\ s = seqs[i] /\ p = c.params[i] /\ l = Length(Len(p), c.wide)
                               /\ w = Width(c.wide) /\ k = o[i]
      OBVIOUS
    <3>2. /\ s \in Seq(Bytes) /\ Len(s) = w + Len(p) /\ Lies(s, 0, l) /\ Lies(s, w, p)
          /\ Len(l) = w /\ Len(p) \in Nat /\ w \in Nat /\ Len(s) \in Nat
      BY <1>4, <1>5, <1>7, <3>1, LenProperties DEF Width
    <3>3. o[i + 1] = k + Len(s) /\ k \in Nat /\ Lies(flat, k, s)
      BY <2>2, <3>1
    <3>4. i \in 1 .. 6 /\ i + 1 \in 1 .. 6
      OBVIOUS
    <3>5. at[i] = 3 + k /\ at[i + 1] = at[i] + w + Len(p) /\ at[i] \in Nat
      <4>1. PICK x, y : x = o[i + 1] /\ y = Len(p)
        OBVIOUS
      <4>2. x = k + (w + y) /\ k \in Nat /\ w \in Nat /\ y \in Nat
        BY <3>2, <3>3, <4>1
      <4>3. 3 + x = 3 + k + w + y /\ 3 + k \in Nat
        BY <4>2
      <4>4. at[i] = 3 + k /\ at[i + 1] = 3 + x
        BY <2>3, <3>1, <3>4, <4>1
      <4> QED
        BY <4>1, <4>3, <4>4
    <3>6. Lies(b, 3 + k, s)
      BY <1>11, <1>12, <1>13, <3>2, <3>3, LiesWithin
    <3>7. Lies(b, 3 + k + 0, l) /\ Lies(b, 3 + k + w, p)
      BY <1>12, <3>2, <3>6, LiesWithin
    <3>8. 3 + k + 0 = at[i] /\ 3 + k + w = at[i] + w
      BY <3>3, <3>5
    <3> QED
      BY <3>1, <3>5, <3>7, <3>8
  <2> QED
    BY <1>1, <2>4, <2>5 DEF Carries
<1> QED
  BY <1>1, <1>2, <1>10, <1>12, <1>13, <1>14

\* A buffer that begins with the packet carries the same.
LEMMA StillCarries ==
    ASSUME NEW c, Formed(c), NEW q \in Seq(Bytes), Lies(q, 0, Body(c))
    PROVE  /\ Lies(q, 0, <<START, c.code, Len(c.params)>>)
           /\ Len(c.params) # 0 => \E at : Carries(q, c, at)
<1>1. PICK b, h : b = Body(c) /\ h = <<START, c.code, Len(c.params)>>
  OBVIOUS
<1>2. b \in Seq(Bytes) /\ Len(b) \in Nat /\ Lies(b, 0, h) /\ Len(q) \in Nat /\ Lies(q, 0, b)
  BY <1>1, BodyIs, LenProperties
<1>3. Len(h) = 3
  BY <1>1
<1>4. \A k, s : Len(s) \in Nat /\ k \in Nat /\ Lies(b, k, s) => Lies(q, k, s)
  <2> SUFFICES ASSUME NEW k \in Nat, NEW s, Len(s) \in Nat, Lies(b, k, s) PROVE Lies(q, k, s)
    OBVIOUS
  <2> QED
    BY <1>2, LiesFirst
<1>5. ASSUME NEW at, Carries(b, c, at) PROVE Carries(q, c, at)
  <2> SUFFICES ASSUME NEW i \in 1 .. Len(c.params)
               PROVE  /\ Lies(q, at[i], Length(Len(c.params[i]), c.wide))
                      /\ Lies(q, at[i] + Width(c.wide), c.params[i])
    BY <1>5 DEF Carries
  <2>1. PICK p, l, w, k : p = c.params[i] /\ l = Length(Len(p), c.wide) /\ w = Width(c.wide) /\ k = at[i]
    OBVIOUS
  <2>2. k \in Nat /\ Lies(b, k, l) /\ Lies(b, k + w, p)
    BY <1>5, <2>1 DEF Carries
  <2>3. Len(p) \in Nat /\ Len(l) = w /\ w \in Nat
    <3>1. p \in Seq(Bytes)
      BY <2>1, ElementOfSeq DEF Formed
    <3>2. Len(p) \in Nat /\ c.wide \in BOOLEAN
      BY <3>1, LenProperties DEF Formed
    <3> QED
      BY <2>1, <3>2, LengthIs DEF Width
  <2>4. Lies(q, k, l)
    BY <1>4, <2>2, <2>3
  <2>5. Lies(q, k + w, p)
    <3>1. k + w \in Nat
      BY <2>2, <2>3
    <3> QED
      BY <1>4, <2>2, <2>3, <3>1
  <2> QED
    BY <2>1, <2>4, <2>5
<1>6. Lies(q, 0, h)
  BY <1>2, <1>3, <1>4
<1> QED
  BY <1>1, <1>5, <1>6, BodyIs

-----------------------------------------------------------------------------
(* The commands *)

\* Those no handler takes.
Silent(c) ==
    /\ c.meant = <<>> /\ c.replies \in {1, -1}
    /\ c.code \notin {17, 32, 33, 34, 42, 43, 45, 46, 47, 52, 53, 55, 63, 68, 69}

SocketCommands(s) == {socket_status(s), socket_close(s), socket_available(s), data_sent(s)}

LEMMA WordIs == \A n \in Ports \cup Sizes : n \in Nat /\ n <= 65535
<1>1. ASSUME NEW n \in Words PROVE n \in Nat /\ n <= 65535
  BY DEF Words
<1>2. Ports \cup Sizes \subseteq Words
  BY NumbersAssumption
<1> QED
  BY <1>1, <1>2

LEMMA SocketIs == \A s \in Sockets : s \in 0 .. 9 /\ s \in Bytes /\ s \in Nat
<1>1. \A s \in 0 .. 9 : s \in Bytes /\ s \in Nat
  BY DEF Bytes
<1>2. Sockets \subseteq 0 .. 9
  BY NumbersAssumption
<1> QED
  BY <1>1, <1>2

LEMMA StringIs ==
    /\ \A t \in Ssids \cup Passphrases \cup Names \cup Chunks : t \in Seq(Bytes) /\ Len(t) \in Nat
    /\ \A a \in Addresses : a \in Seq(Bytes) /\ Len(a) = 4
    /\ \A s \in Sockets : s \in Bytes
<1>1. \A t \in Ssids \cup Passphrases \cup Names \cup Chunks : t \in Seq(Bytes) /\ Len(t) \in Nat
  BY StringsAssumption, LenProperties
<1>2. ASSUME NEW a \in Addresses PROVE a \in Seq(Bytes) /\ Len(a) = 4
  <2>1. a \in [1 .. 4 -> Bytes]
    BY StringsAssumption
  <2>2. a = [i \in 1 .. 4 |-> a[i]] /\ 4 \in Nat /\ DOMAIN a = 1 .. 4
    BY <2>1
  <2>3. \A i \in 1 .. 4 : a[i] \in Bytes
    BY <2>1
  <2> DEFINE b == [i \in 1 .. 4 |-> a[i]]
  <2>4. b \in Seq(Bytes) /\ DOMAIN b = 1 .. 4
    BY <2>2, <2>3, IsASeq
  <2> HIDE DEF b
  <2>5. Len(b) = 4
    BY <2>2, <2>4, LenProperties
  <2> USE DEF b
  <2> QED
    BY <2>2, <2>4, <2>5
<1>3. \A s \in Sockets : s \in Bytes
  BY SocketIs
<1> QED
  BY <1>1, <1>2, <1>3

LEMMA NoneFormed ==
    ASSUME NEW c, c.code \in 0 .. 127, c.wide \in BOOLEAN, c.params = <<>>
    PROVE  Formed(c)
BY DEF Formed

LEMMA OneFormed ==
    ASSUME NEW c, c.code \in 0 .. 127, c.wide \in BOOLEAN, NEW p \in Seq(Bytes), c.params = <<p>>
    PROVE  Formed(c)
BY DEF Formed

LEMMA TwoFormed ==
    ASSUME NEW c, c.code \in 0 .. 127, c.wide \in BOOLEAN,
           NEW p \in Seq(Bytes), NEW r \in Seq(Bytes), c.params = <<p, r>>
    PROVE  Formed(c)
BY DEF Formed

LEMMA ThreeFormed ==
    ASSUME NEW c, c.code \in 0 .. 127, c.wide \in BOOLEAN, NEW p \in Seq(Bytes),
           NEW r \in Seq(Bytes), NEW t \in Seq(Bytes), c.params = <<p, r, t>>
    PROVE  Formed(c)
BY DEF Formed

LEMMA FourFormed ==
    ASSUME NEW c, c.code \in 0 .. 127, c.wide \in BOOLEAN, NEW p \in Seq(Bytes),
           NEW r \in Seq(Bytes), NEW t \in Seq(Bytes), NEW u \in Seq(Bytes), c.params = <<p, r, t, u>>
    PROVE  Formed(c)
BY DEF Formed

LEMMA FiveFormed ==
    ASSUME NEW c, c.code \in 0 .. 127, c.wide \in BOOLEAN, NEW p \in Seq(Bytes),
           NEW r \in Seq(Bytes), NEW t \in Seq(Bytes), NEW u \in Seq(Bytes), NEW v \in Seq(Bytes),
           c.params = <<p, r, t, u, v>>
    PROVE  Formed(c)
BY DEF Formed

LEMMA ByteString ==
    /\ \A i \in Bytes : <<i>> \in Seq(Bytes) /\ Len(<<i>>) = 1
    /\ {0, 1, 5, 250, 255} \subseteq Bytes
<1>1. {0, 1, 5, 250, 255} \subseteq Bytes
  BY DEF Bytes
<1> QED
  BY <1>1

LEMMA PortIs == ASSUME NEW port \in Ports PROVE Port(port) \in Seq(Bytes) /\ Len(Port(port)) = 2
<1>1. port \in Nat
  BY WordIs
<1> QED
  BY <1>1, DigitIs DEF Port

LEMMA CommandIs ==
    ASSUME NEW c \in Commands
    PROVE  \/ c \in Queries
           \/ Formed(c) /\ Silent(c)
           \/ \E a \in Ssids, p \in Passphrases : c = wifi_set_passphrase(a, p)
           \/ \E n \in Names : c = request_host(n)
           \/ \E s \in Sockets, n \in Names, p \in Ports : c = open_by_name(s, n, p, 0)
           \/ \E s \in Sockets, i \in Addresses, p \in Ports : c = open_by_address(s, i, p, 0)
           \/ \E s \in Sockets : c \in SocketCommands(s)
           \/ \E s \in Sockets, d \in Chunks : c = write_chunk(s, d)
           \/ \E s \in Sockets, n \in Sizes : c = socket_read(s, n)
<1> DEFINE Quiet == Formed(c) /\ Silent(c)
<1>1. ASSUME c \in {start_scan_networks, get_scan_networks, wifi_set_entenable, disconnect, get_time}
      PROVE  Quiet
  <2>1. c.code \in {54, 39, 79, 48, 59} /\ c.meant = <<>> /\ c.replies \in {1, -1}
    BY <1>1 DEF start_scan_networks, get_scan_networks, wifi_set_entenable, disconnect,
         get_time, Unknown, Command
  <2>2. c.params = <<>> /\ c.wide = FALSE
    BY <1>1 DEF start_scan_networks, get_scan_networks, wifi_set_entenable, disconnect,
         get_time, Unknown, Command
  <2>3. c.code \in 0 .. 127
    BY <2>1
  <2>4. c.wide \in BOOLEAN
    BY <2>2
  <2>5. Silent(c)
    BY <2>1 DEF Silent
  <2>6. Formed(c)
    BY <2>2, <2>3, <2>4, NoneFormed
  <2> QED
    BY <2>5, <2>6
<1>2. ASSUME NEW s \in Sockets, c \in {send_udp(s), server_state(s)} PROVE Quiet
  <2>1. c.code \in {57, 41} /\ c.meant = <<>> /\ c.replies \in {1, -1}
    BY <1>2 DEF send_udp, server_state, Unknown, Command
  <2>2. c.params = <<<<s>>>> /\ c.wide = FALSE
    BY <1>2 DEF send_udp, server_state, Unknown, Command
  <2>3. c.code \in 0 .. 127
    BY <2>1
  <2>4. c.wide \in BOOLEAN
    BY <2>2
  <2>5. Silent(c)
    BY <2>1 DEF Silent
  <2>6. <<s>> \in Seq(Bytes)
    BY StringIs, ByteString
  <2>7. Formed(c)
    BY <2>2, <2>3, <2>4, <2>6, OneFormed
  <2> QED
    BY <2>5, <2>7
<1>3. ASSUME NEW code \in {74, 75, 76}, NEW a \in Ssids, c = wifi_set_ent(code, a) PROVE Quiet
  <2>1. c.code \in {74, 75, 76} /\ c.meant = <<>> /\ c.replies \in {1, -1}
    BY <1>3 DEF wifi_set_ent, Unknown, Command
  <2>2. c.params = <<a>> /\ c.wide = FALSE
    BY <1>3 DEF wifi_set_ent, Unknown, Command
  <2>3. c.code \in 0 .. 127
    BY <2>1
  <2>4. c.wide \in BOOLEAN
    BY <2>2
  <2>5. Silent(c)
    BY <2>1 DEF Silent
  <2>6. a \in Seq(Bytes)
    BY StringIs
  <2>7. Formed(c)
    BY <2>2, <2>3, <2>4, <2>6, OneFormed
  <2> QED
    BY <2>5, <2>7
<1>4. ASSUME NEW a \in Ssids, c = set_ap_network(a) PROVE Quiet
  <2>1. c.code = 24 /\ c.meant = <<>> /\ c.replies \in {1, -1}
    BY <1>4 DEF set_ap_network, Unknown, Command
  <2>2. c.params = <<a, <<0>>>> /\ c.wide = FALSE
    BY <1>4 DEF set_ap_network, Unknown, Command
  <2>3. c.code \in 0 .. 127
    BY <2>1
  <2>4. c.wide \in BOOLEAN
    BY <2>2
  <2>5. Silent(c)
    BY <2>1 DEF Silent
  <2>6. a \in Seq(Bytes) /\ <<0>> \in Seq(Bytes)
    BY StringIs, ByteString
  <2>7. Formed(c)
    BY <2>2, <2>3, <2>4, <2>6, TwoFormed
  <2> QED
    BY <2>5, <2>7
<1>5. ASSUME NEW a \in Ssids, NEW p \in Passphrases, c = set_ap_passphrase(a, p) PROVE Quiet
  <2>1. c.code = 25 /\ c.meant = <<>> /\ c.replies \in {1, -1}
    BY <1>5 DEF set_ap_passphrase, Unknown, Command
  <2>2. c.params = <<a, p, <<0>>>> /\ c.wide = FALSE
    BY <1>5 DEF set_ap_passphrase, Unknown, Command
  <2>3. c.code \in 0 .. 127
    BY <2>1
  <2>4. c.wide \in BOOLEAN
    BY <2>2
  <2>5. Silent(c)
    BY <2>1 DEF Silent
  <2>6. a \in Seq(Bytes) /\ p \in Seq(Bytes) /\ <<0>> \in Seq(Bytes)
    BY StringIs, ByteString
  <2>7. Formed(c)
    BY <2>2, <2>3, <2>4, <2>6, ThreeFormed
  <2> QED
    BY <2>5, <2>7
<1>6. ASSUME NEW code \in {35, 36, 37}, c = current(code) PROVE Quiet
  <2>1. c.code \in {35, 36, 37} /\ c.meant = <<>> /\ c.replies \in {1, -1}
    BY <1>6 DEF current, Unknown, Command
  <2>2. c.params = <<<<255>>>> /\ c.wide = FALSE
    BY <1>6 DEF current, Unknown, Command
  <2>3. c.code \in 0 .. 127
    BY <2>1
  <2>4. c.wide \in BOOLEAN
    BY <2>2
  <2>5. Silent(c)
    BY <2>1 DEF Silent
  <2>6. <<255>> \in Seq(Bytes)
    BY ByteString
  <2>7. Formed(c)
    BY <2>2, <2>3, <2>4, <2>6, OneFormed
  <2> QED
    BY <2>5, <2>7
<1>7. ASSUME NEW i \in Addresses, c = ping(i, 250) PROVE Quiet
  <2>1. c.code = 62 /\ c.meant = <<>> /\ c.replies \in {1, -1}
    BY <1>7 DEF ping, Unknown, Command
  <2>2. c.params = <<i, <<250>>>> /\ c.wide = FALSE
    BY <1>7 DEF ping, Unknown, Command
  <2>3. c.code \in 0 .. 127
    BY <2>1
  <2>4. c.wide \in BOOLEAN
    BY <2>2
  <2>5. Silent(c)
    BY <2>1 DEF Silent
  <2>6. i \in Seq(Bytes) /\ <<250>> \in Seq(Bytes)
    BY StringIs, ByteString
  <2>7. Formed(c)
    BY <2>2, <2>3, <2>4, <2>6, TwoFormed
  <2> QED
    BY <2>5, <2>7
<1>8. ASSUME NEW s \in Sockets, NEW d \in Chunks, c = insert_databuf(s, d) PROVE Quiet
  <2>1. c.code = 70 /\ c.meant = <<>> /\ c.replies \in {1, -1}
    BY <1>8 DEF insert_databuf, Unknown, Command
  <2>2. c.params = <<<<s>>, d>> /\ c.wide = TRUE
    BY <1>8 DEF insert_databuf, Unknown, Command
  <2>3. c.code \in 0 .. 127
    BY <2>1
  <2>4. c.wide \in BOOLEAN
    BY <2>2
  <2>5. Silent(c)
    BY <2>1 DEF Silent
  <2>6. <<s>> \in Seq(Bytes) /\ d \in Seq(Bytes)
    BY StringIs, ByteString
  <2>7. Formed(c)
    BY <2>2, <2>3, <2>4, <2>6, TwoFormed
  <2> QED
    BY <2>5, <2>7
<1>9. ASSUME NEW p \in Ports, NEW s \in Sockets, c = start_server(p, s, 0) PROVE Quiet
  <2>1. c.code = 40 /\ c.meant = <<>> /\ c.replies \in {1, -1}
    BY <1>9 DEF start_server, Unknown, Command
  <2>2. c.params = <<Port(p), <<s>>, <<0>>>> /\ c.wide = FALSE
    BY <1>9 DEF start_server, Unknown, Command
  <2>3. c.code \in 0 .. 127
    BY <2>1
  <2>4. c.wide \in BOOLEAN
    BY <2>2
  <2>5. Silent(c)
    BY <2>1 DEF Silent
  <2>6. Port(p) \in Seq(Bytes) /\ <<s>> \in Seq(Bytes) /\ <<0>> \in Seq(Bytes)
    BY StringIs, PortIs, ByteString
  <2>7. Formed(c)
    BY <2>2, <2>3, <2>4, <2>6, ThreeFormed
  <2> QED
    BY <2>5, <2>7
<1>10. ASSUME NEW on \in {0, 1}, c = set_esp_debug(on) PROVE Quiet
  <2>1. c.code = 26 /\ c.meant = <<>> /\ c.replies \in {1, -1}
    BY <1>10 DEF set_esp_debug, Unknown, Command
  <2>2. c.params = <<<<on>>>> /\ c.wide = FALSE
    BY <1>10 DEF set_esp_debug, Unknown, Command
  <2>3. c.code \in 0 .. 127
    BY <2>1
  <2>4. c.wide \in BOOLEAN
    BY <2>2
  <2>5. Silent(c)
    BY <2>1 DEF Silent
  <2>6. <<on>> \in Seq(Bytes)
    BY ByteString
  <2>7. Formed(c)
    BY <2>2, <2>3, <2>4, <2>6, OneFormed
  <2> QED
    BY <2>5, <2>7
<1>11. ASSUME NEW mode \in {0, 1}, c = set_pin_mode(5, mode) PROVE Quiet
  <2>1. c.code = 80 /\ c.meant = <<>> /\ c.replies \in {1, -1}
    BY <1>11 DEF set_pin_mode, Unknown, Command
  <2>2. c.params = <<<<5>>, <<mode>>>> /\ c.wide = FALSE
    BY <1>11 DEF set_pin_mode, Unknown, Command
  <2>3. c.code \in 0 .. 127
    BY <2>1
  <2>4. c.wide \in BOOLEAN
    BY <2>2
  <2>5. Silent(c)
    BY <2>1 DEF Silent
  <2>6. <<5>> \in Seq(Bytes) /\ <<mode>> \in Seq(Bytes)
    BY ByteString
  <2>7. Formed(c)
    BY <2>2, <2>3, <2>4, <2>6, TwoFormed
  <2> QED
    BY <2>5, <2>7
<1>12. ASSUME NEW code \in {81, 82}, c = set_write(code, 5, 1) PROVE Quiet
  <2>1. c.code \in {81, 82} /\ c.meant = <<>> /\ c.replies \in {1, -1}
    BY <1>12 DEF set_write, Unknown, Command
  <2>2. c.params = <<<<5>>, <<1>>>> /\ c.wide = FALSE
    BY <1>12 DEF set_write, Unknown, Command
  <2>3. c.code \in 0 .. 127
    BY <2>1
  <2>4. c.wide \in BOOLEAN
    BY <2>2
  <2>5. Silent(c)
    BY <2>1 DEF Silent
  <2>6. <<5>> \in Seq(Bytes) /\ <<1>> \in Seq(Bytes)
    BY ByteString
  <2>7. Formed(c)
    BY <2>2, <2>3, <2>4, <2>6, TwoFormed
  <2> QED
    BY <2>5, <2>7
<1>13. ASSUME c \in NotTaken PROVE Quiet
  <2> HIDE DEF Quiet
  <2>1. PICK k \in NotTaken : k = c
    BY <1>13
  <2> QED
    BY <1>1, <1>2, <1>3, <1>4, <1>5, <1>6, <1>7, <1>8, <1>9, <1>10, <1>11, <1>12, <2>1 DEF NotTaken
<1>14. ASSUME c \in WithArguments
       PROVE  \/ \E a \in Ssids, p \in Passphrases : c = wifi_set_passphrase(a, p)
              \/ \E n \in Names : c = request_host(n)
              \/ \E s \in Sockets, n \in Names, p \in Ports : c = open_by_name(s, n, p, 0)
              \/ \E s \in Sockets, i \in Addresses, p \in Ports : c = open_by_address(s, i, p, 0)
              \/ \E s \in Sockets : c \in SocketCommands(s)
              \/ \E s \in Sockets, d \in Chunks : c = write_chunk(s, d)
              \/ \E s \in Sockets, n \in Sizes : c = socket_read(s, n)
  BY <1>14 DEF WithArguments, SocketCommands
<1> QED
  BY <1>13, <1>14 DEF Commands

-----------------------------------------------------------------------------
(* What a handler takes *)

\* The bytes of the buffer as the handlers count them.
Nth(q, i) == q[i + 1]
Part(q, i, n) == SubSeq(q, i + 1, i + n)

LEMMA FewIs ==
    ASSUME NEW n \in Nat, n <= 255
    PROVE  Low(n) = n /\ High(n) = 0
BY DEF Low, High

LEMMA DigitsIs ==
    ASSUME NEW n \in Nat, n <= 65535
    PROVE  256 * High(n) + Low(n) = n /\ Low(n) + 256 * High(n) = n
BY DEF Low, High

\* At k there is a parameter p, behind its length.
Holds(q, k, p, wide) ==
    /\ k \in Nat /\ p \in Seq(Bytes) /\ Len(p) \in Nat
    /\ Part(q, k + Width(wide), Len(p)) = p
    /\ Len(p) = 1 => Nth(q, k + Width(wide)) = p[1]
    /\ wide => Part(q, k, 2) = <<High(Len(p)), Low(Len(p))>>
    /\ ~wide /\ Len(p) <= 255 => Nth(q, k) = Len(p)

LEMMA ParamAt ==
    ASSUME NEW c, Formed(c), NEW q \in Seq(Bytes), NEW at, Carries(q, c, at),
           NEW i \in 1 .. Len(c.params)
    PROVE  /\ Holds(q, at[i], c.params[i], c.wide)
           /\ at[i + 1] = at[i] + Width(c.wide) + Len(c.params[i])
<1>1. PICK p, k, w : p = c.params[i] /\ k = at[i] /\ w = Width(c.wide)
  OBVIOUS
<1>2. p \in Seq(Bytes) /\ Len(p) \in Nat /\ c.wide \in BOOLEAN /\ Len(q) \in Nat
  BY <1>1, ElementOfSeq, LenProperties DEF Formed
<1>3. PICK l : l = Length(Len(p), c.wide)
  OBVIOUS
<1>4. l \in Seq(Bytes) /\ Len(l) = w /\ w \in Nat
  BY <1>1, <1>2, <1>3, LengthIs DEF Width
<1>5. k \in Nat /\ at[i + 1] = k + w + Len(p) /\ Lies(q, k, l) /\ Lies(q, k + w, p)
  BY <1>1, <1>3 DEF Carries
<1>6. Part(q, k + w, Len(p)) = p
  BY <1>2, <1>5, LiesSlice DEF Part
<1>7. Len(p) = 1 => Nth(q, k + w) = p[1]
  <2> SUFFICES ASSUME Len(p) = 1 PROVE Nth(q, k + w) = p[1]
    OBVIOUS
  <2>1. 1 \in 1 .. Len(p)
    OBVIOUS
  <2>2. q[k + w + 1] = p[1]
    BY <1>5, <2>1 DEF Lies
  <2> QED
    BY <2>2 DEF Nth
<1>8. c.wide => Part(q, k, 2) = <<High(Len(p)), Low(Len(p))>>
  <2> SUFFICES ASSUME c.wide PROVE Part(q, k, 2) = <<High(Len(p)), Low(Len(p))>>
    OBVIOUS
  <2>1. w = 2 /\ l = <<High(Len(p)), Low(Len(p))>>
    BY <1>1, <1>3 DEF Width, Length
  <2>2. SubSeq(q, k + 1, k + Len(l)) = l
    BY <1>4, <1>5, LiesSlice
  <2> QED
    BY <1>4, <2>1, <2>2 DEF Part
<1>9. ~c.wide /\ Len(p) <= 255 => Nth(q, k) = Len(p)
  <2> SUFFICES ASSUME ~c.wide, Len(p) <= 255 PROVE Nth(q, k) = Len(p)
    OBVIOUS
  <2>1. w = 1 /\ l[1] = Low(Len(p))
    BY <1>1, <1>3 DEF Width, Length
  <2>2. q[k + 1] = l[1]
    <3>1. 1 \in 1 .. Len(l)
      BY <1>4, <2>1
    <3> QED
      BY <1>5, <3>1 DEF Lies
  <2> QED
    BY <1>2, <2>1, <2>2, FewIs DEF Nth
<1>10. Holds(q, k, p, c.wide)
  BY <1>1, <1>2, <1>5, <1>6, <1>7, <1>8, <1>9 DEF Holds
<1> QED
  BY <1>1, <1>5, <1>10

\* The bytes before the parameters.
LEMMA HeadAt ==
    ASSUME NEW c, NEW q, Lies(q, 0, <<START, c.code, Len(c.params)>>)
    PROVE  Nth(q, 1) = c.code /\ Nth(q, 2) = Len(c.params)
<1>1. PICK h : h = <<START, c.code, Len(c.params)>>
  OBVIOUS
<1>2. Len(h) = 3 /\ h[2] = c.code /\ h[3] = Len(c.params)
  BY <1>1
<1>3. q[0 + 2] = h[2] /\ q[0 + 3] = h[3]
  <2>1. 2 \in 1 .. Len(h) /\ 3 \in 1 .. Len(h)
    BY <1>2
  <2> QED
    BY <1>1, <2>1 DEF Lies
<1>4. 0 + 2 = 1 + 1 /\ 0 + 3 = 2 + 1
  OBVIOUS
<1> QED
  BY <1>2, <1>3, <1>4 DEF Nth

LEMMA ReadsAre == ASSUME NEW q, q = rxBuffer' PROVE \A i, n : At(i) = Nth(q, i) /\ Slice(i, n) = Part(q, i, n)
BY DEF At, Slice, Nth, Part

\* Where the parameters of a command are: the i-th one at at[i].
Found(q, c, n, at) ==
    /\ at[1] = 3
    /\ \A i \in 1 .. n : /\ Holds(q, at[i], c.params[i], c.wide)
                         /\ at[i + 1] = at[i] + Width(c.wide) + Len(c.params[i])

LEMMA FirstAt ==
    ASSUME NEW c, Formed(c), NEW q \in Seq(Bytes), Lies(q, 0, Body(c)),
           Len(c.params) # 0
    PROVE  \E at : Found(q, c, Len(c.params), at)
<1>1. PICK at : Carries(q, c, at)
  BY StillCarries
<1>2. at[1] = 3
  BY <1>1 DEF Carries
<1>3. \A i \in 1 .. Len(c.params) :
        /\ Holds(q, at[i], c.params[i], c.wide)
        /\ at[i + 1] = at[i] + Width(c.wide) + Len(c.params[i])
  BY <1>1, ParamAt
<1> QED
  BY <1>2, <1>3 DEF Found

LEMMA TwoAt ==
    ASSUME NEW c, Formed(c), NEW q \in Seq(Bytes), Lies(q, 0, Body(c)),
           NEW a, NEW b, c.params = <<a, b>>, NEW w, w = Width(c.wide)
    PROVE  Holds(q, 3, a, c.wide) /\ Holds(q, 3 + w + Len(a), b, c.wide)
<1>1. Len(c.params) = 2 /\ c.params[1] = a /\ c.params[2] = b
  OBVIOUS
<1>2. Len(c.params) # 0
  BY <1>1
<1>3. PICK at : Found(q, c, Len(c.params), at)
  BY Zenon, <1>2, FirstAt
<1>4. PICK n : n = Len(c.params) /\ n = 2
  BY <1>1
<1>5. /\ at[1] = 3
      /\ \A i \in 1 .. n : /\ Holds(q, at[i], c.params[i], c.wide)
                           /\ at[i + 1] = at[i] + Width(c.wide) + Len(c.params[i])
  BY <1>3, <1>4 DEF Found
<1>6. 1 \in 1 .. n /\ 2 \in 1 .. n /\ 1 + 1 = 2
  BY <1>4
<1>7. Holds(q, at[1], a, c.wide) /\ at[2] = 3 + w + Len(a) /\ Holds(q, at[2], b, c.wide)
  BY <1>1, <1>5, <1>6
<1> QED
  BY <1>5, <1>7

LEMMA OneAt ==
    ASSUME NEW c, Formed(c), NEW q \in Seq(Bytes), Lies(q, 0, Body(c)),
           NEW a, c.params = <<a>>
    PROVE  Holds(q, 3, a, c.wide)
<1>1. Len(c.params) = 1 /\ c.params[1] = a
  OBVIOUS
<1>2. Len(c.params) # 0
  BY <1>1
<1>3. PICK at : Found(q, c, Len(c.params), at)
  BY Zenon, <1>2, FirstAt
<1>4. 1 \in 1 .. Len(c.params)
  BY <1>1
<1>5. at[1] = 3 /\ Holds(q, at[1], c.params[1], c.wide)
  BY <1>3, <1>4 DEF Found
<1> QED
  BY <1>1, <1>5

\* Every command has up to five byte strings as parameters.
LEMMA FormedIs == ASSUME NEW c \in Commands PROVE Formed(c)
<1>1. ASSUME c \in Queries PROVE Formed(c)
  <2>1. c.code \in {32, 33, 34, 55, 53, 63} /\ c.wide = FALSE
    BY <1>1 DEF Queries, status, network_data, MAC_address, firmware_version, resolved_host,
         get_socket, Command
  <2>2. c.params = <<>> \/ c.params = <<<<255>>>>
    BY <1>1 DEF Queries, status, network_data, MAC_address, firmware_version, resolved_host,
         get_socket, Command
  <2>3. c.code \in 0 .. 127
    BY <2>1
  <2>4. c.wide \in BOOLEAN
    BY <2>1
  <2>5. <<255>> \in Seq(Bytes)
    BY ByteString
  <2> QED
    BY <2>2, <2>3, <2>4, <2>5, NoneFormed, OneFormed
<1>2. ASSUME NEW a \in Ssids, NEW b \in Passphrases, c = wifi_set_passphrase(a, b) PROVE Formed(c)
  <2>1. c.code = 17 /\ c.params = <<a, b>> /\ c.wide = FALSE
    BY <1>2 DEF wifi_set_passphrase, Command
  <2>2. c.code \in 0 .. 127
    BY <2>1
  <2>3. c.wide \in BOOLEAN
    BY <2>1
  <2> QED
    BY <2>1, <2>2, <2>3, StringIs, TwoFormed
<1>3. ASSUME NEW n \in Names, c = request_host(n) PROVE Formed(c)
  <2>1. c.code = 52 /\ c.params = <<n>> /\ c.wide = FALSE
    BY <1>3 DEF request_host, Command
  <2>2. c.code \in 0 .. 127
    BY <2>1
  <2>3. c.wide \in BOOLEAN
    BY <2>1
  <2> QED
    BY <2>1, <2>2, <2>3, StringIs, OneFormed
<1>4. ASSUME NEW s \in Sockets, NEW n \in Names, NEW p \in Ports, c = open_by_name(s, n, p, 0)
      PROVE  Formed(c)
  <2>1. c.code = 45 /\ c.params = <<n, <<0, 0, 0, 0>>, Port(p), <<s>>, <<0>>>> /\ c.wide = FALSE
    BY <1>4 DEF open_by_name, Command
  <2>2. c.code \in 0 .. 127
    BY <2>1
  <2>3. c.wide \in BOOLEAN
    BY <2>1
  <2>4. n \in Seq(Bytes) /\ Port(p) \in Seq(Bytes) /\ <<s>> \in Seq(Bytes) /\ <<0>> \in Seq(Bytes)
    BY StringIs, PortIs, ByteString
  <2>5. <<0, 0, 0, 0>> \in Seq(Bytes)
    <3>1. 0 \in Bytes
      BY ByteString
    <3> QED
      BY <3>1
  <2> QED
    BY <2>1, <2>2, <2>3, <2>4, <2>5, FiveFormed
<1>5. ASSUME NEW s \in Sockets, NEW i \in Addresses, NEW p \in Ports, c = open_by_address(s, i, p, 0)
      PROVE  Formed(c)
  <2>1. c.code = 45 /\ c.params = <<i, Port(p), <<s>>, <<0>>>> /\ c.wide = FALSE
    BY <1>5 DEF open_by_address, Command
  <2>2. c.code \in 0 .. 127
    BY <2>1
  <2>3. c.wide \in BOOLEAN
    BY <2>1
  <2>4. i \in Seq(Bytes) /\ Port(p) \in Seq(Bytes) /\ <<s>> \in Seq(Bytes) /\ <<0>> \in Seq(Bytes)
    BY StringIs, PortIs, ByteString
  <2> QED
    BY <2>1, <2>2, <2>3, <2>4, FourFormed
<1>6. ASSUME NEW s \in Sockets, c \in SocketCommands(s) PROVE Formed(c)
  <2>1. c.code \in {47, 46, 43, 42} /\ c.params = <<<<s>>>> /\ c.wide = FALSE
    BY <1>6 DEF SocketCommands, socket_status, socket_close, socket_available, data_sent, Command
  <2>2. c.code \in 0 .. 127
    BY <2>1
  <2>3. c.wide \in BOOLEAN
    BY <2>1
  <2> QED
    BY <2>1, <2>2, <2>3, StringIs, ByteString, OneFormed
<1>7. ASSUME NEW s \in Sockets, NEW d \in Chunks, c = write_chunk(s, d) PROVE Formed(c)
  <2>1. c.code = 68 /\ c.params = <<<<s>>, d>> /\ c.wide = TRUE
    BY <1>7 DEF write_chunk, Command
  <2>2. c.code \in 0 .. 127
    BY <2>1
  <2>3. c.wide \in BOOLEAN
    BY <2>1
  <2> QED
    <3>1. <<s>> \in Seq(Bytes) /\ d \in Seq(Bytes)
      BY StringIs, ByteString
    <3> QED
      BY <2>1, <2>2, <2>3, <3>1, TwoFormed
<1>8. ASSUME NEW s \in Sockets, NEW n \in Sizes, c = socket_read(s, n) PROVE Formed(c)
  <2>1. c.code = 69 /\ c.params = <<<<s>>, <<Low(n), High(n)>>>> /\ c.wide = TRUE
    BY <1>8 DEF socket_read, Command
  <2>2. c.code \in 0 .. 127
    BY <2>1
  <2>3. c.wide \in BOOLEAN
    BY <2>1
  <2>4. <<Low(n), High(n)>> \in Seq(Bytes)
    BY WordIs, DigitIs
  <2> QED
    <3>1. <<s>> \in Seq(Bytes)
      BY StringIs, ByteString
    <3> QED
      BY <2>1, <2>2, <2>3, <2>4, <3>1, TwoFormed
<1> QED
  BY Zenon, <1>1, <1>2, <1>3, <1>4, <1>5, <1>6, <1>7, <1>8, CommandIs

\* A packet that the firmware's buffer holds has no longer ones.
LEMMA ShortIs == ASSUME NEW c, Formed(c), Len(Body(c)) <= 256 PROVE Short(c)
<1>1. SUFFICES ASSUME NEW i \in 1 .. Len(c.params) PROVE Len(c.params[i]) <= 255
  BY DEF Short
<1>2. PICK b : b = Body(c)
  OBVIOUS
<1>3. b \in Seq(Bytes) /\ Len(b) \in Nat /\ Len(b) <= 256
  BY <1>2, BodyIs
<1>4. Len(c.params) # 0
  BY <1>1 DEF Formed
<1>5. PICK at : Carries(b, c, at)
  BY <1>2, <1>4, BodyIs
<1>6. PICK m, w : m = at[i] /\ w = Width(c.wide) /\ w \in {1, 2}
  BY DEF Width
<1>7. PICK l : l = Len(c.params[i])
  OBVIOUS
<1>8. m \in Nat /\ m + w + l <= Len(b)
  BY <1>1, <1>5, <1>6, <1>7 DEF Carries, Lies
<1>9. l \in Nat
  <2>1. c.params[i] \in Seq(Bytes)
    BY <1>1 DEF Formed
  <2> QED
    BY <1>7, <2>1, LenProperties
<1>10. l <= 255
  BY <1>3, <1>6, <1>8, <1>9
<1> QED
  BY <1>7, <1>10

LEMMA PassphraseTaken ==
    ASSUME NEW a \in Ssids, NEW b \in Passphrases, NEW c, c = wifi_set_passphrase(a, b),
           Formed(c), Short(c), NEW q \in Seq(Bytes), q = rxBuffer', Lies(q, 0, Body(c))
    PROVE  Arguments(c.code) = c.meant
<1>1. c.code = 17 /\ c.params = <<a, b>> /\ c.wide = FALSE
  BY DEF wifi_set_passphrase, Command
<1>2. c.meant = <<a, b>>
  BY DEF wifi_set_passphrase, Command
<1>3. Len(a) <= 255 /\ Len(b) <= 255
  <2>1. Len(c.params) = 2 /\ c.params[1] = a /\ c.params[2] = b
    BY <1>1
  <2> QED
    BY <2>1 DEF Short
<1>4. Holds(q, 3, a, FALSE) /\ Holds(q, 3 + 1 + Len(a), b, FALSE)
  BY <1>1, TwoAt DEF Width
<1>5. PICK l \in Nat : l = Len(a)
  BY <1>4 DEF Holds
<1>6. 3 + 1 = 4 /\ 3 + 1 + l = 4 + l /\ 4 + l + 1 = 5 + l
  OBVIOUS
<1>7. Part(q, 4, l) = a /\ Nth(q, 3) = l
  BY <1>3, <1>4, <1>5, <1>6 DEF Holds, Width
<1>8. Part(q, 5 + l, Len(b)) = b /\ Nth(q, 4 + l) = Len(b)
  BY <1>3, <1>4, <1>5, <1>6 DEF Holds, Width
<1>9. Slice(4, At(3)) = a /\ Slice(5 + At(3), At(4 + At(3))) = b
  <2>1. At(3) = l /\ At(4 + l) = Len(b)
    BY <1>7, <1>8 DEF At, Nth
  <2>2. Slice(4, l) = a /\ Slice(5 + l, Len(b)) = b
    BY <1>7, <1>8 DEF Slice, Part
  <2> QED
    BY <2>1, <2>2
<1>10. Arguments(17) = <<Slice(4, At(3)), Slice(5 + At(3), At(4 + At(3)))>>
  BY DEF Arguments
<1> QED
  BY <1>1, <1>2, <1>9, <1>10

LEMMA HostTaken ==
    ASSUME NEW a \in Names, NEW c, c = request_host(a), Formed(c), Short(c),
           NEW q \in Seq(Bytes), q = rxBuffer', Lies(q, 0, Body(c))
    PROVE  Arguments(c.code) = c.meant
<1>1. c.code = 52 /\ c.params = <<a>> /\ c.wide = FALSE /\ c.meant = <<a>>
  BY DEF request_host, Command
<1>2. Len(a) <= 255
  <2>1. Len(c.params) = 1 /\ c.params[1] = a
    BY <1>1
  <2> QED
    BY <2>1 DEF Short
<1>3. Holds(q, 3, a, FALSE)
  BY <1>1, OneAt
<1>4. Part(q, 3 + 1, Len(a)) = a /\ Nth(q, 3) = Len(a)
  BY <1>2, <1>3 DEF Holds, Width
<1>5. 3 + 1 = 4
  OBVIOUS
<1>6. At(3) = Len(a) /\ Slice(4, Len(a)) = a
  BY <1>4, <1>5 DEF At, Nth, Slice, Part
<1>7. Arguments(52) = <<Slice(4, At(3))>>
  BY DEF Arguments
<1> QED
  BY <1>1, <1>6, <1>7

LEMMA SocketTaken ==
    ASSUME NEW s \in Sockets, NEW c \in SocketCommands(s), Formed(c),
           NEW q \in Seq(Bytes), q = rxBuffer', Lies(q, 0, Body(c))
    PROVE  Arguments(c.code) = c.meant
<1>1. c.code \in {42, 43, 46, 47} /\ c.params = <<<<s>>>> /\ c.wide = FALSE /\ c.meant = <<s>>
  BY DEF SocketCommands, socket_status, socket_close, socket_available, data_sent, Command
<1>2. Holds(q, 3, <<s>>, FALSE)
  BY <1>1, OneAt
<1>3. Nth(q, 3 + 1) = s
  BY <1>2 DEF Holds, Width
<1>4. 3 + 1 = 4
  OBVIOUS
<1>5. At(4) = s
  BY <1>3, <1>4 DEF At, Nth
<1>6. Arguments(c.code) = <<At(4)>>
  BY <1>1 DEF Arguments
<1> QED
  BY <1>1, <1>5, <1>6

LEMMA ChunkTaken ==
    ASSUME NEW s \in Sockets, NEW d \in Chunks, NEW c, c = write_chunk(s, d),
           Formed(c), Short(c), NEW q \in Seq(Bytes), q = rxBuffer', Lies(q, 0, Body(c))
    PROVE  Arguments(c.code) = c.meant
<1>1. c.code = 68 /\ c.params = <<<<s>>, d>> /\ c.wide = TRUE /\ c.meant = <<s, d>>
  BY DEF write_chunk, Command
<1>2. Len(d) <= 255 /\ Len(d) \in Nat /\ Len(<<s>>) = 1
  <2>1. Len(c.params) = 2 /\ c.params[2] = d
    BY <1>1
  <2>2. Len(d) <= 255
    BY <2>1 DEF Short
  <2> QED
    BY <2>2, StringIs
<1>3. Holds(q, 3, <<s>>, TRUE) /\ Holds(q, 3 + 2 + Len(<<s>>), d, TRUE)
  BY <1>1, TwoAt DEF Width
<1>4. 3 + 2 = 5 /\ 3 + 2 + 1 = 6 /\ 6 + 2 = 8
  OBVIOUS
<1>5. Nth(q, 5) = s
  BY <1>3, <1>4 DEF Holds, Width
<1>6. Part(q, 8, Len(d)) = d /\ Part(q, 6, 2) = <<High(Len(d)), Low(Len(d))>>
  BY <1>2, <1>3, <1>4 DEF Holds, Width
<1>7. At(5) = s /\ Slice(8, Len(d)) = d /\ Slice(6, 2) = <<High(Len(d)), Low(Len(d))>>
  BY <1>5, <1>6 DEF At, Nth, Slice, Part
<1>8. Be16(Slice(6, 2)) = Len(d)
  <2>1. PICK n \in Nat : n = Len(d) /\ n <= 65535
    BY <1>2
  <2>2. 256 * High(n) + Low(n) = n
    BY <2>1, DigitsIs
  <2> QED
    BY <1>7, <2>1, <2>2 DEF Be16
<1>9. Arguments(68) = <<At(5), Slice(8, Be16(Slice(6, 2)))>>
  BY DEF Arguments
<1> QED
  BY <1>1, <1>7, <1>8, <1>9

LEMMA ReadTaken ==
    ASSUME NEW s \in Sockets, NEW n \in Sizes, NEW c, c = socket_read(s, n), Formed(c),
           NEW q \in Seq(Bytes), q = rxBuffer', Lies(q, 0, Body(c))
    PROVE  Arguments(c.code) = c.meant
<1>1. c.code = 69 /\ c.params = <<<<s>>, <<Low(n), High(n)>>>> /\ c.wide = TRUE /\ c.meant = <<s, n>>
  BY DEF socket_read, Command
<1>2. Len(<<s>>) = 1 /\ Len(<<Low(n), High(n)>>) = 2 /\ n \in Nat /\ n <= 65535
  BY WordIs
<1>3. Holds(q, 3, <<s>>, TRUE) /\ Holds(q, 3 + 2 + Len(<<s>>), <<Low(n), High(n)>>, TRUE)
  BY <1>1, TwoAt DEF Width
<1>4. 3 + 2 = 5 /\ 3 + 2 + 1 = 6 /\ 6 + 2 = 8
  OBVIOUS
<1>5. Nth(q, 5) = s
  BY <1>3, <1>4 DEF Holds, Width
<1>6. Part(q, 8, 2) = <<Low(n), High(n)>>
  BY <1>2, <1>3, <1>4 DEF Holds, Width
<1>7. At(5) = s /\ Slice(8, 2) = <<Low(n), High(n)>>
  BY <1>5, <1>6 DEF At, Nth, Slice, Part
<1>8. Le16(Slice(8, 2)) = n
  <2>1. Low(n) + 256 * High(n) = n
    BY <1>2, DigitsIs
  <2> QED
    BY <1>7, <2>1 DEF Le16
<1>9. Arguments(69) = <<At(5), Le16(Slice(8, 2))>>
  BY DEF Arguments
<1> QED
  BY <1>1, <1>7, <1>8, <1>9

LEMMA PortTaken ==
    ASSUME NEW p \in Ports, NEW k, Slice(k, 2) = Port(p)
    PROVE  Be16(Slice(k, 2)) = p
<1>1. p \in Nat /\ p <= 65535
  BY WordIs
<1>2. 256 * High(p) + Low(p) = p
  BY <1>1, DigitsIs
<1>3. Port(p)[1] = High(p) /\ Port(p)[2] = Low(p)
  BY DEF Port
<1> QED
  BY <1>2, <1>3 DEF Be16

LEMMA FourAt ==
    ASSUME NEW c, Formed(c), c.wide = FALSE, NEW q \in Seq(Bytes), Lies(q, 0, Body(c)),
           NEW a, NEW b, NEW d, NEW e, c.params = <<a, b, d, e>>,
           NEW l1 \in Nat, NEW l2 \in Nat, NEW l3 \in Nat,
           Len(a) = l1, Len(b) = l2, Len(d) = l3
    PROVE  /\ Nth(q, 2) = 4 /\ Holds(q, 3, a, FALSE)
           /\ Holds(q, 3 + 1 + l1, b, FALSE)
           /\ Holds(q, 3 + 1 + l1 + 1 + l2, d, FALSE)
           /\ Holds(q, 3 + 1 + l1 + 1 + l2 + 1 + l3, e, FALSE)
<1>1. PICK u : u = c.params
  OBVIOUS
<1>2. Len(u) = 4 /\ u[1] = a /\ u[2] = b /\ u[3] = d /\ u[4] = e
  BY <1>1
<1>3. Len(c.params) # 0 /\ Len(c.params) = 4
  BY <1>1, <1>2
<1>4. PICK at : Found(q, c, Len(c.params), at)
  BY Zenon, <1>3, FirstAt
<1>5. PICK n : n = Len(c.params) /\ n = 4
  BY <1>3
<1>6. /\ at[1] = 3
      /\ \A i \in 1 .. n : Holds(q, at[i], u[i], FALSE) /\ at[i + 1] = at[i] + 1 + Len(u[i])
  <2>1. Width(FALSE) = 1
    BY DEF Width
  <2> QED
    BY <1>1, <1>4, <1>5, <2>1 DEF Found
<1>7. 1 \in 1 .. n /\ 2 \in 1 .. n /\ 3 \in 1 .. n /\ 4 \in 1 .. n /\ 1 + 1 = 2 /\ 2 + 1 = 3 /\ 3 + 1 = 4
  BY <1>5
<1>8. Holds(q, 3, a, FALSE) /\ at[2] = 3 + 1 + l1
  BY <1>2, <1>6, <1>7
<1>9. Holds(q, 3 + 1 + l1, b, FALSE) /\ at[3] = 3 + 1 + l1 + 1 + l2
  BY <1>2, <1>6, <1>7, <1>8
<1>10. Holds(q, 3 + 1 + l1 + 1 + l2, d, FALSE) /\ at[4] = 3 + 1 + l1 + 1 + l2 + 1 + l3
  BY <1>2, <1>6, <1>7, <1>9
<1>11. Holds(q, 3 + 1 + l1 + 1 + l2 + 1 + l3, e, FALSE)
  BY <1>2, <1>6, <1>7, <1>10
<1>12. Nth(q, 2) = 4
  BY <1>3, StillCarries, HeadAt
<1> QED
  BY <1>8, <1>9, <1>10, <1>11, <1>12

LEMMA FiveAt ==
    ASSUME NEW c, Formed(c), c.wide = FALSE, NEW q \in Seq(Bytes), Lies(q, 0, Body(c)),
           NEW a, NEW b, NEW d, NEW e, NEW f, c.params = <<a, b, d, e, f>>,
           Len(a) \in Nat, Len(b) \in Nat, Len(d) \in Nat, Len(e) \in Nat
    PROVE  /\ Nth(q, 2) = 5 /\ Holds(q, 3, a, FALSE)
           /\ Holds(q, 3 + 1 + Len(a), b, FALSE)
           /\ Holds(q, 3 + 1 + Len(a) + 1 + Len(b), d, FALSE)
           /\ Holds(q, 3 + 1 + Len(a) + 1 + Len(b) + 1 + Len(d), e, FALSE)
           /\ Holds(q, 3 + 1 + Len(a) + 1 + Len(b) + 1 + Len(d) + 1 + Len(e), f, FALSE)
<1>1. PICK u : u = c.params
  OBVIOUS
<1>2. Len(u) = 5 /\ u[1] = a /\ u[2] = b /\ u[3] = d /\ u[4] = e /\ u[5] = f
  BY <1>1
<1>3. Len(c.params) # 0 /\ Len(c.params) = 5
  BY <1>1, <1>2
<1>4. PICK at : Found(q, c, Len(c.params), at)
  BY Zenon, <1>3, FirstAt
<1>5. PICK n : n = Len(c.params) /\ n = 5
  BY <1>3
<1>6. /\ at[1] = 3
      /\ \A i \in 1 .. n : Holds(q, at[i], u[i], FALSE) /\ at[i + 1] = at[i] + 1 + Len(u[i])
  <2>1. Width(FALSE) = 1
    BY DEF Width
  <2> QED
    BY <1>1, <1>4, <1>5, <2>1 DEF Found
<1>7. 1 \in 1 .. n /\ 2 \in 1 .. n /\ 3 \in 1 .. n /\ 4 \in 1 .. n /\ 5 \in 1 .. n /\ 1 + 1 = 2 /\ 2 + 1 = 3 /\ 3 + 1 = 4 /\ 4 + 1 = 5
  BY <1>5
<1>8. Holds(q, 3, a, FALSE) /\ at[2] = 3 + 1 + Len(a)
  BY <1>2, <1>6, <1>7
<1>9. Holds(q, 3 + 1 + Len(a), b, FALSE) /\ at[3] = 3 + 1 + Len(a) + 1 + Len(b)
  BY <1>2, <1>6, <1>7, <1>8
<1>10. Holds(q, 3 + 1 + Len(a) + 1 + Len(b), d, FALSE) /\ at[4] = 3 + 1 + Len(a) + 1 + Len(b) + 1 + Len(d)
  BY <1>2, <1>6, <1>7, <1>9
<1>11. Holds(q, 3 + 1 + Len(a) + 1 + Len(b) + 1 + Len(d), e, FALSE) /\ at[5] = 3 + 1 + Len(a) + 1 + Len(b) + 1 + Len(d) + 1 + Len(e)
  BY <1>2, <1>6, <1>7, <1>10
<1>12. Holds(q, 3 + 1 + Len(a) + 1 + Len(b) + 1 + Len(d) + 1 + Len(e), f, FALSE)
  BY <1>2, <1>6, <1>7, <1>11
<1>13. Nth(q, 2) = 5
  BY <1>3, StillCarries, HeadAt
<1> QED
  BY <1>8, <1>9, <1>10, <1>11, <1>12, <1>13

\* What the buffer has of a START_CLIENT for a name, and for an address.
LEMMA NameFound ==
    ASSUME NEW s \in Sockets, NEW a \in Names, NEW p \in Ports,
           Formed(open_by_name(s, a, p, 0)),
           NEW q \in Seq(Bytes), Lies(q, 0, Body(open_by_name(s, a, p, 0))),
           NEW h \in Nat, h = Len(a), h <= 255
    PROVE  /\ Nth(q, 2) = 5
           /\ Part(q, 4, h) = a /\ Nth(q, 3) = h
           /\ Part(q, 5 + h, 4) = <<0, 0, 0, 0>>
           /\ Part(q, 10 + h, 2) = Port(p)
           /\ Nth(q, 13 + h) = s /\ Nth(q, 15 + h) = 0
<1>1. PICK c, pp, ps, pm, pz : /\ c = open_by_name(s, a, p, 0)
                               /\ pp = Port(p) /\ ps = <<s>> /\ pm = <<0>> /\ pz = <<0, 0, 0, 0>>
  OBVIOUS
<1>2. c.params = <<a, pz, pp, ps, pm>> /\ c.wide = FALSE
  BY <1>1 DEF open_by_name, Command
<1>3. Len(pz) = 4 /\ Len(pp) = 2 /\ Len(ps) = 1 /\ Len(pm) = 1
  BY <1>1 DEF Port
<1>4. ps[1] = s /\ pm[1] = 0
  BY <1>1
<1>5. Formed(c) /\ Lies(q, 0, Body(c))
  BY <1>1
<1>6. /\ Nth(q, 2) = 5 /\ Holds(q, 3, a, FALSE)
      /\ Holds(q, 3 + 1 + h, pz, FALSE)
      /\ Holds(q, 3 + 1 + h + 1 + 4, pp, FALSE)
      /\ Holds(q, 3 + 1 + h + 1 + 4 + 1 + 2, ps, FALSE)
      /\ Holds(q, 3 + 1 + h + 1 + 4 + 1 + 2 + 1 + 1, pm, FALSE)
  <2>1. Len(a) \in Nat /\ Len(pz) \in Nat /\ Len(pp) \in Nat /\ Len(ps) \in Nat
    BY <1>3
  <2>2. /\ Nth(q, 2) = 5 /\ Holds(q, 3, a, FALSE)
        /\ Holds(q, 3 + 1 + Len(a), pz, FALSE)
        /\ Holds(q, 3 + 1 + Len(a) + 1 + Len(pz), pp, FALSE)
        /\ Holds(q, 3 + 1 + Len(a) + 1 + Len(pz) + 1 + Len(pp), ps, FALSE)
        /\ Holds(q, 3 + 1 + Len(a) + 1 + Len(pz) + 1 + Len(pp) + 1 + Len(ps), pm, FALSE)
    BY <1>2, <1>5, <2>1, FiveAt
  <2> QED
    BY <1>3, <2>2
<1>7. /\ 3 + 1 = 4 /\ 3 + 1 + h + 1 = 5 + h /\ 3 + 1 + h + 1 + 4 + 1 = 10 + h
      /\ 3 + 1 + h + 1 + 4 + 1 + 2 + 1 = 13 + h
      /\ 3 + 1 + h + 1 + 4 + 1 + 2 + 1 + 1 + 1 = 15 + h
  OBVIOUS
<1>8. Width(FALSE) = 1
  BY DEF Width
<1>9. Part(q, 3 + 1, h) = a /\ Nth(q, 3) = h
  BY <1>6, <1>8 DEF Holds
<1>10. Part(q, 3 + 1 + h + 1, 4) = pz
  BY <1>3, <1>6, <1>8 DEF Holds
<1>11. Part(q, 3 + 1 + h + 1 + 4 + 1, 2) = pp
  BY <1>3, <1>6, <1>8 DEF Holds
<1>12. Nth(q, 3 + 1 + h + 1 + 4 + 1 + 2 + 1) = s
  BY <1>3, <1>4, <1>6, <1>8 DEF Holds
<1>13. Nth(q, 3 + 1 + h + 1 + 4 + 1 + 2 + 1 + 1 + 1) = 0
  BY <1>3, <1>4, <1>6, <1>8 DEF Holds
<1> QED
  BY <1>1, <1>6, <1>7, <1>9, <1>10, <1>11, <1>12, <1>13

LEMMA AddressFound ==
    ASSUME NEW s \in Sockets, NEW a \in Addresses, NEW p \in Ports,
           Formed(open_by_address(s, a, p, 0)),
           NEW q \in Seq(Bytes), Lies(q, 0, Body(open_by_address(s, a, p, 0)))
    PROVE  /\ Nth(q, 2) = 4
           /\ Part(q, 4, 4) = a
           /\ Part(q, 9, 2) = Port(p)
           /\ Nth(q, 12) = s /\ Nth(q, 14) = 0
<1>1. PICK c, pp, ps, pm : /\ c = open_by_address(s, a, p, 0)
                           /\ pp = Port(p) /\ ps = <<s>> /\ pm = <<0>>
  OBVIOUS
<1>2. c.params = <<a, pp, ps, pm>> /\ c.wide = FALSE
  BY <1>1 DEF open_by_address, Command
<1>3. Len(a) = 4 /\ Len(pp) = 2 /\ Len(ps) = 1 /\ Len(pm) = 1
  BY <1>1, StringIs DEF Port
<1>4. ps[1] = s /\ pm[1] = 0
  BY <1>1
<1>5. Formed(c) /\ Lies(q, 0, Body(c))
  BY <1>1
<1>6. /\ Nth(q, 2) = 4 /\ Holds(q, 3, a, FALSE)
      /\ Holds(q, 3 + 1 + 4, pp, FALSE)
      /\ Holds(q, 3 + 1 + 4 + 1 + 2, ps, FALSE)
      /\ Holds(q, 3 + 1 + 4 + 1 + 2 + 1 + 1, pm, FALSE)
  BY <1>2, <1>3, <1>5, FourAt
<1>7. /\ 3 + 1 = 4 /\ 3 + 1 + 4 + 1 = 9 /\ 3 + 1 + 4 + 1 + 2 + 1 = 12
      /\ 3 + 1 + 4 + 1 + 2 + 1 + 1 + 1 = 14
  OBVIOUS
<1>8. Width(FALSE) = 1
  BY DEF Width
<1>9. Part(q, 3 + 1, 4) = a
  BY <1>3, <1>6, <1>8 DEF Holds
<1>10. Part(q, 3 + 1 + 4 + 1, 2) = pp
  BY <1>3, <1>6, <1>8 DEF Holds
<1>11. Nth(q, 3 + 1 + 4 + 1 + 2 + 1) = s
  BY <1>3, <1>4, <1>6, <1>8 DEF Holds
<1>12. Nth(q, 3 + 1 + 4 + 1 + 2 + 1 + 1 + 1) = 0
  BY <1>3, <1>4, <1>6, <1>8 DEF Holds
<1> QED
  BY <1>1, <1>6, <1>7, <1>9, <1>10, <1>11, <1>12

LEMMA NameTaken ==
    ASSUME NEW s \in Sockets, NEW a \in Names, NEW p \in Ports,
           NEW c, c = open_by_name(s, a, p, 0), Formed(c), Short(c),
           NEW q \in Seq(Bytes), q = rxBuffer', Lies(q, 0, Body(c))
    PROVE  Arguments(c.code) = c.meant
<1>1. c.code = 45 /\ c.meant = <<a, <<0, 0, 0, 0>>, p, s, 0>>
  BY DEF open_by_name, Command
<1>2. PICK h \in Nat : h = Len(a) /\ h <= 255
  <2>1. Len(c.params) = 5 /\ c.params[1] = a
    BY DEF open_by_name, Command
  <2>2. Len(a) <= 255
    BY <2>1 DEF Short
  <2> QED
    BY <2>2, StringIs
<1>3. /\ Nth(q, 2) = 5
      /\ Part(q, 4, h) = a /\ Nth(q, 3) = h
      /\ Part(q, 5 + h, 4) = <<0, 0, 0, 0>>
      /\ Part(q, 10 + h, 2) = Port(p)
      /\ Nth(q, 13 + h) = s /\ Nth(q, 15 + h) = 0
  BY <1>2, NameFound
<1>4. At(2) = 5 /\ At(3) = h /\ At(13 + h) = s /\ At(15 + h) = 0
  BY <1>3 DEF At, Nth
<1>5. Slice(4, h) = a /\ Slice(5 + h, 4) = <<0, 0, 0, 0>> /\ Slice(10 + h, 2) = Port(p)
  BY <1>3 DEF Slice, Part
<1>6. Be16(Slice(10 + h, 2)) = p
  BY <1>5, PortTaken
<1>7. Arguments(45) = OpenArguments
  BY DEF Arguments
<1>8. OpenArguments = <<Slice(4, h), Slice(5 + h, 4), Be16(Slice(10 + h, 2)), At(13 + h), At(15 + h)>>
  BY <1>4 DEF OpenArguments
<1> QED
  BY <1>1, <1>4, <1>5, <1>6, <1>7, <1>8

LEMMA AddressTaken ==
    ASSUME NEW s \in Sockets, NEW a \in Addresses, NEW p \in Ports,
           NEW c, c = open_by_address(s, a, p, 0), Formed(c),
           NEW q \in Seq(Bytes), q = rxBuffer', Lies(q, 0, Body(c))
    PROVE  Arguments(c.code) = c.meant
<1>1. c.code = 45 /\ c.meant = <<<<>>, a, p, s, 0>>
  BY DEF open_by_address, Command
<1>2. /\ Nth(q, 2) = 4
      /\ Part(q, 4, 4) = a
      /\ Part(q, 9, 2) = Port(p)
      /\ Nth(q, 12) = s /\ Nth(q, 14) = 0
  BY AddressFound
<1>3. At(2) = 4 /\ At(12) = s /\ At(14) = 0
  BY <1>2 DEF At, Nth
<1>4. Slice(4, 4) = a /\ Slice(9, 2) = Port(p)
  BY <1>2 DEF Slice, Part
<1>5. Be16(Slice(9, 2)) = p
  BY <1>4, PortTaken
<1>6. Arguments(45) = OpenArguments
  BY DEF Arguments
<1>7. OpenArguments = <<<<>>, Slice(4, 4), Be16(Slice(9, 2)), At(12), At(14)>>
  BY <1>3 DEF OpenArguments
<1> QED
  BY <1>1, <1>3, <1>4, <1>5, <1>6, <1>7

LEMMA NothingTaken ==
    ASSUME NEW c, c \in Queries \/ Silent(c)
    PROVE  Arguments(c.code) = c.meant
<1>1. c \in Queries => c.code \in {32, 33, 34, 55, 53, 63} /\ c.meant = <<>>
  BY DEF Queries, status, network_data, MAC_address, firmware_version, resolved_host,
       get_socket, Command
<1>2. c.code \notin {17, 42, 43, 45, 46, 47, 52, 68, 69} /\ c.meant = <<>>
  BY <1>1 DEF Silent
<1> QED
  BY <1>2 DEF Arguments

\* Once a command's packet stands in rx_buffer, its handler reads there what was meant.
LEMMA MeantIsTaken ==
    ASSUME NEW c \in Commands, Short(c), NEW q \in Seq(Bytes), q = rxBuffer', Lies(q, 0, Body(c))
    PROVE  At(1) = c.code /\ Arguments(c.code) = c.meant
<1>1. Formed(c)
  BY FormedIs
<1>2. At(1) = c.code
  <2>1. Nth(q, 1) = c.code
    BY <1>1, StillCarries, HeadAt
  <2> QED
    BY <2>1 DEF At, Nth
<1> DEFINE Done == Arguments(c.code) = c.meant
<1>3. c \in Queries \/ Silent(c) => Done
  BY NothingTaken
<1>4. ASSUME NEW a \in Ssids, NEW b \in Passphrases, c = wifi_set_passphrase(a, b) PROVE Done
  BY <1>1, <1>4, PassphraseTaken
<1>5. ASSUME NEW n \in Names, c = request_host(n) PROVE Done
  BY <1>1, <1>5, HostTaken
<1>6. ASSUME NEW s \in Sockets, NEW n \in Names, NEW p \in Ports, c = open_by_name(s, n, p, 0) PROVE Done
  BY <1>1, <1>6, NameTaken
<1>7. ASSUME NEW s \in Sockets, NEW i \in Addresses, NEW p \in Ports, c = open_by_address(s, i, p, 0)
      PROVE  Done
  BY <1>1, <1>7, AddressTaken
<1>8. ASSUME NEW s \in Sockets, c \in SocketCommands(s) PROVE Done
  BY <1>1, <1>8, SocketTaken
<1>9. ASSUME NEW s \in Sockets, NEW d \in Chunks, c = write_chunk(s, d) PROVE Done
  BY <1>1, <1>9, ChunkTaken
<1>10. ASSUME NEW s \in Sockets, NEW n \in Sizes, c = socket_read(s, n) PROVE Done
  BY <1>1, <1>10, ReadTaken
<1> HIDE DEF Done
<1>11. Done
  BY Zenon, <1>3, <1>4, <1>5, <1>6, <1>7, <1>8, <1>9, <1>10, CommandIs
<1> QED
  BY <1>2, <1>11 DEF Done

-----------------------------------------------------------------------------
(* The two buffers *)

LEMMA OverlaidIs ==
    ASSUME NEW S, NEW b \in Seq(S), NEW s \in Seq(S), Len(s) <= Len(b)
    PROVE  Overlaid(b, s) \in Seq(S) /\ Len(Overlaid(b, s)) = Len(b) /\ Lies(Overlaid(b, s), 0, s)
<1>1. PICK l, n \in Nat : l = Len(b) /\ n = Len(s)
  BY LenProperties
<1>2. PICK t : t = SubSeq(b, n + 1, l)
  OBVIOUS
<1>3. t \in Seq(S) /\ Len(t) = l - n
  <2>1. \A i \in n + 1 .. l : i \in 1 .. l
    BY <1>1
  <2>2. t \in Seq(S)
    BY <1>1, <1>2, <2>1, SubSeqProperties
  <2>3. Len(t) = IF n + 1 <= l THEN l - (n + 1) + 1 ELSE 0
    BY <1>1, <1>2, <2>1, SubSeqProperties
  <2> QED
    BY <1>1, <2>2, <2>3
<1>4. Overlaid(b, s) = s \o t
  BY <1>1, <1>2 DEF Overlaid
<1>5. s \o t \in Seq(S) /\ Len(s \o t) = Len(s) + Len(t) /\ Lies(s \o t, 0, s)
  BY <1>3, LiesConcat
<1>6. Len(s) + Len(t) = Len(b)
  BY <1>1, <1>3
<1> QED
  BY <1>4, <1>5, <1>6

LEMMA FrontIs ==
    ASSUME NEW S, NEW b \in Seq(S), NEW s \in Seq(S), Lies(b, 0, s), NEW n \in Nat,
           Len(s) <= n, n <= Len(b)
    PROVE  SubSeq(b, 1, n) \in Seq(S) /\ Len(SubSeq(b, 1, n)) = n /\ Lies(SubSeq(b, 1, n), 0, s)
<1>1. PICK l, m \in Nat : l = Len(b) /\ m = Len(s)
  BY LenProperties
<1>2. PICK t : t = SubSeq(b, 1, n)
  OBVIOUS
<1>3. t \in Seq(S) /\ Len(t) = n /\ \A i \in 1 .. n : t[i] = b[i]
  <2>1. \A i \in 1 .. n : i \in 1 .. l
    BY <1>1
  <2>2. t \in Seq(S)
    BY <1>1, <1>2, <2>1, SubSeqProperties
  <2>3. Len(t) = IF 1 <= n THEN n - 1 + 1 ELSE 0
    BY <1>1, <1>2, <2>1, SubSeqProperties
  <2>4. \A i \in 1 .. n - 1 + 1 : t[i] = b[1 + i - 1]
    BY <1>1, <1>2, <2>1, SubSeqProperties
  <2>5. n - 1 + 1 = n /\ \A i \in 1 .. n : 1 + i - 1 = i
    OBVIOUS
  <2> QED
    BY <2>2, <2>3, <2>4, <2>5
<1>4. \A j \in 1 .. m : t[0 + j] = s[j]
  <2>1. \A j \in 1 .. m : 0 + j = j /\ j \in 1 .. n
    BY <1>1
  <2>2. \A j \in 1 .. m : b[0 + j] = s[j]
    BY <1>1 DEF Lies
  <2> QED
    BY <1>3, <2>1, <2>2
<1>5. 0 + m <= n
  BY <1>1
<1>6. Lies(t, 0, s)
  BY <1>1, <1>3, <1>4, <1>5 DEF Lies
<1> QED
  BY <1>2, <1>3, <1>6

\* The driver's packet begins with the command; its buffer never shrinks.
LEMMA SendIs ==
    ASSUME NEW c, Formed(c), sendbuf \in Seq(Bytes), _send_command(c)
    PROVE  /\ sendbuf' \in Seq(Bytes) /\ Len(sendbuf') >= Len(sendbuf)
           /\ packet' \in Seq(Bytes) /\ Lies(packet', 0, Body(c))
<1>1. PICK b, l : b = Body(c) /\ l = Len(b)
  OBVIOUS
<1>2. b \in Seq(Bytes) /\ l \in Nat
  BY <1>1, BodyIs
<1>3. PICK n : n = Padded(l)
  OBVIOUS
<1>4. n \in Nat /\ l <= n
  BY <1>2, <1>3 DEF Padded
<1>5. PICK buffer : buffer = IF n > Len(sendbuf) THEN [i \in 1 .. n |-> 0] ELSE sendbuf
  OBVIOUS
<1>6. buffer \in Seq(Bytes) /\ n <= Len(buffer) /\ Len(sendbuf) <= Len(buffer) /\ Len(buffer) \in Nat
  <2>1. Len(sendbuf) \in Nat
    BY LenProperties
  <2>2. CASE n > Len(sendbuf)
    <3>1. buffer = [i \in 1 .. n |-> 0]
      BY <1>5, <2>2
    <3>2. 0 \in Bytes
      BY ByteString
    <3>3. buffer \in Seq(Bytes)
      <4>1. \A i \in 1 .. n : 0 \in Bytes
        BY <3>2
      <4> QED
        BY <1>4, <3>1, <4>1, IsASeq
    <3>4. Len(buffer) = n
      BY <1>4, <3>1, <3>3, LenProperties
    <3> QED
      BY <1>4, <2>1, <2>2, <3>3, <3>4
  <2>3. CASE ~(n > Len(sendbuf))
    <3>1. buffer = sendbuf
      BY <1>5, <2>3
    <3> QED
      BY <1>4, <2>1, <2>3, <3>1
  <2> QED
    BY <2>2, <2>3
<1>7. sendbuf' = Overlaid(buffer, b) /\ packet' = SubSeq(sendbuf', 1, n)
  BY <1>1, <1>3, <1>5 DEF _send_command
<1>8. PICK o : o = Overlaid(buffer, b)
  OBVIOUS
<1>9. Len(b) <= Len(buffer)
  BY <1>1, <1>2, <1>4, <1>6
<1>10. o \in Seq(Bytes) /\ Len(o) = Len(buffer) /\ Lies(o, 0, b)
  BY <1>2, <1>6, <1>8, <1>9, OverlaidIs
<1>11. Len(b) <= n /\ n <= Len(o)
  BY <1>1, <1>4, <1>6, <1>10
<1>12. SubSeq(o, 1, n) \in Seq(Bytes) /\ Lies(SubSeq(o, 1, n), 0, b)
  BY <1>2, <1>4, <1>10, <1>11, FrontIs
<1>13. Len(o) >= Len(sendbuf)
  <2>1. Len(sendbuf) \in Nat
    BY LenProperties
  <2> QED
    BY <1>6, <1>10, <2>1
<1> QED
  BY <1>1, <1>7, <1>8, <1>10, <1>12, <1>13

-----------------------------------------------------------------------------
(* _wait_response_cmd *)

\* The driver has read all before byte k, and so far the parameters v.
Parsed(k, v) == [at |-> k, raised |-> "none", values |-> v]

LEMMA BeginsIs ==
    ASSUME packet \in Seq(Bytes), Len(packet) >= 1
    PROVE  /\ packet[1] = START => Begins = Parsed(2, <<>>)
           /\ packet[1] = ERR => Begins = [Parsed(2, <<>>) EXCEPT !.raised = "RuntimeError"]
<1> DEFINE marks == {i \in DOMAIN packet : packet[i] \in {START, ERR}}
           first == CHOOSE i \in marks : \A j \in marks : i <= j
<1> SUFFICES ASSUME packet[1] \in {START, ERR}
             PROVE  /\ packet[1] = START => Begins = Parsed(2, <<>>)
                    /\ packet[1] = ERR => Begins = [Parsed(2, <<>>) EXCEPT !.raised = "RuntimeError"]
  OBVIOUS
<1>1. DOMAIN packet = 1 .. Len(packet) /\ Len(packet) \in Nat
  BY LenProperties
<1>2. 1 \in marks /\ \A j \in marks : 1 <= j /\ j \in Nat
  BY <1>1
<1>3. marks # {}
  BY <1>2
<1>4. first \in marks /\ \A j \in marks : first <= j
  <2> HIDE DEF marks
  <2> QED
    BY <1>2
<1>5. first = 1
  <2> HIDE DEF marks, first
  <2> QED
    BY <1>2, <1>4
<1>6. Begins = LET p == [Parsing EXCEPT !.at = first + 1]
               IN  IF packet[first] = ERR THEN Raise(p, "RuntimeError") ELSE p
  BY <1>3 DEF Begins
<1> HIDE DEF marks, first
<1>7. [Parsing EXCEPT !.at = first + 1] = Parsed(2, <<>>)
  BY <1>5 DEF Parsing, Parsed
<1>8. START # ERR
  BY DEF START, ERR
<1> QED
  BY <1>5, <1>6, <1>7, <1>8 DEF Raise

LEMMA CheckIs ==
    ASSUME packet \in Seq(Bytes), NEW k \in Nat, k <= Len(packet), NEW v, NEW d
    PROVE  /\ packet[k] = d => Check(Parsed(k, v), d) = Parsed(k + 1, v)
           /\ packet[k] # d => Check(Parsed(k, v), d) = [Parsed(k + 1, v) EXCEPT !.raised = "RuntimeError"]
<1>1. PICK p : p = Parsed(k, v)
  OBVIOUS
<1>2. p.raised = "none" /\ p.at = k /\ Has(p)
  BY <1>1 DEF Parsed, Has
<1>3. Peek(p, 0) = packet[k]
  BY <1>2 DEF Peek, Has
<1>4. [p EXCEPT !.at = @ + 1] = Parsed(k + 1, v)
  BY <1>1 DEF Parsed
<1>5. Check(p, d) = IF packet[k] # d THEN Raise([p EXCEPT !.at = @ + 1], "RuntimeError")
                    ELSE [p EXCEPT !.at = @ + 1]
  BY <1>2, <1>3 DEF Check
<1> QED
  BY <1>1, <1>4, <1>5 DEF Raise

LEMMA RaisedStays ==
    ASSUME NEW p, p.raised # "none", NEW d, NEW wide
    PROVE  Check(p, d) = p /\ Parameter(p, wide) = p
BY DEF Check, Parameter

LEMMA FilledIs ==
    ASSUME NEW p, NEW wide
    PROVE  /\ Filled(p, wide, 0) = p
           /\ Filled(p, wide, 1) = Parameter(p, wide)
           /\ Filled(p, wide, 3) = Parameter(Parameter(Parameter(p, wide), wide), wide)
<1> DEFINE Rec(g, n) == g = [i \in 0 .. n |-> IF i = 0 THEN p ELSE Parameter(g[i - 1], wide)]
           one == Parameter(p, wide)
           two == Parameter(one, wide)
           three == Parameter(two, wide)
           h == [i \in 0 .. 3 |-> IF i = 0 THEN p ELSE IF i = 1 THEN one
                                  ELSE IF i = 2 THEN two ELSE three]
           f(n) == CHOOSE g : Rec(g, n)
<1>1. Filled(p, wide, 0) = f(0)[0] /\ Filled(p, wide, 1) = f(1)[1] /\ Filled(p, wide, 3) = f(3)[3]
  BY Zenon DEF Filled
<1>2. ASSUME NEW n \in {0, 1, 3} PROVE \E g : Rec(g, n)
  <2> DEFINE g == [i \in 0 .. n |-> h[i]]
  <2>1. \A i \in 0 .. n :
          \/ i = 0
          \/ i = 1 /\ i - 1 = 0 /\ 0 \in 0 .. n
          \/ i = 2 /\ i - 1 = 1 /\ 1 \in 0 .. n
          \/ i = 3 /\ i - 1 = 2 /\ 2 \in 0 .. n
    OBVIOUS
  <2>2. h[0] = p /\ h[1] = one /\ h[2] = two /\ h[3] = three
    OBVIOUS
  <2> HIDE DEF h
  <2>3. \A i \in 0 .. n : g[i] = h[i]
    OBVIOUS
  <2>4. g = [i \in 0 .. n |-> g[i]]
    OBVIOUS
  <2> HIDE DEF g
  <2>5. \A i \in 0 .. n : g[i] = IF i = 0 THEN p ELSE Parameter(g[i - 1], wide)
    BY <2>1, <2>2, <2>3
  <2>6. Rec(g, n)
    BY <2>4, <2>5
  <2> QED
    BY <2>6
<1>3. ASSUME NEW n \in {0, 1, 3} PROVE Rec(f(n), n)
  <2> HIDE DEF Rec
  <2> QED
    BY Zenon, <1>2
<1> HIDE DEF f
<1>4. ASSUME NEW n \in {0, 1, 3}
      PROVE  \A i \in 0 .. n : f(n)[i] = IF i = 0 THEN p ELSE Parameter(f(n)[i - 1], wide)
  BY <1>3
<1>5. f(0)[0] = p
  BY <1>4
<1>6. f(1)[1] = one
  <2>1. \A i \in 0 .. 1 : f(1)[i] = IF i = 0 THEN p ELSE Parameter(f(1)[i - 1], wide)
    BY <1>4
  <2> QED
    BY <2>1
<1>7. f(3)[3] = three
  <2>1. \A i \in 0 .. 3 : f(3)[i] = IF i = 0 THEN p ELSE Parameter(f(3)[i - 1], wide)
    BY <1>4
  <2>2. f(3)[0] = p
    BY <2>1
  <2>3. f(3)[1] = one
    BY <2>1, <2>2
  <2>4. f(3)[2] = two
    BY <2>1, <2>3
  <2> QED
    BY <2>1, <2>4
<1> QED
  BY <1>1, <1>5, <1>6, <1>7

LEMMA ReadIs ==
    ASSUME NEW k \in Nat, NEW n \in Nat, NEW v, NEW t
    PROVE  Read(Parsed(k, v), t, n) = Parsed(k + n, Append(v, t))
<1> DEFINE Fields == {"at", "raised", "values"}
<1>1. PICK p, q, r, u : /\ p = Parsed(k, v) /\ u = Append(v, t)
                        /\ q = [p EXCEPT !.at = @ + n, !.values = u] /\ r = Parsed(k + n, u)
  OBVIOUS
<1>2. DOMAIN p = Fields /\ p.at = k /\ p.raised = "none" /\ p.values = v
  BY <1>1 DEF Parsed
<1>3. q = [f \in Fields |-> q[f]]
  BY <1>1, <1>2
<1>4. r = [f \in Fields |-> r[f]]
  BY <1>1 DEF Parsed
<1>5. q.at = k + n /\ r.at = k + n
  BY <1>1, <1>2 DEF Parsed
<1>6. q.values = u /\ r.values = u
  BY <1>1, <1>2 DEF Parsed
<1>7. q.raised = "none" /\ r.raised = "none"
  BY <1>1, <1>2 DEF Parsed
<1>8. \A f \in Fields : q[f] = r[f]
  BY <1>5, <1>6, <1>7
<1>9. q = r
  <2> HIDE DEF Fields
  <2> QED
    BY <1>3, <1>4, <1>8
<1>10. Read(p, t, n) = q
  BY <1>1, <1>2 DEF Read
<1> QED
  BY <1>1, <1>9, <1>10

\* The largest length that the reply can carry.
Limit(wide) == IF wide THEN 65535 ELSE 255

LEMMA ParameterIs ==
    ASSUME packet \in Seq(Bytes), NEW t \in Seq(Bytes), NEW wide \in BOOLEAN, Len(t) <= Limit(wide),
           NEW k \in Nat, NEW v,
           Lies(packet, k, Length(Len(t), wide)), Lies(packet, k + Width(wide), t),
           k + Width(wide) + Len(t) < Len(packet)
    PROVE  Parameter(Parsed(k + 1, v), wide) = Parsed(k + 1 + Width(wide) + Len(t), Append(v, t))
<1>1. PICK n, l, w \in Nat : n = Len(t) /\ l = Len(packet) /\ w = Width(wide)
  BY LenProperties DEF Width
<1>2. PICK p, q : p = Parsed(k + 1, v) /\ q = Parsed(k + 1 + w, v)
  OBVIOUS
<1>3. p.raised = "none" /\ p.at = k + 1 /\ q.at = k + 1 + w /\ q.values = v
  BY <1>2 DEF Parsed
<1>4. Has(p) /\ Has(q)
  BY <1>1, <1>3 DEF Has
<1>5. [p EXCEPT !.at = @ + w] = q
  BY <1>2 DEF Parsed
<1>6. n = IF wide THEN 256 * Peek(p, 0) + Peek(p, 1) ELSE Peek(p, 0)
  <2>1. CASE wide
    <3>1. w = 2 /\ Length(n, wide) = <<High(n), Low(n)>> /\ n <= 65535
      BY <1>1, <2>1 DEF Width, Length, Limit
    <3>2. packet[k + 1] = High(n) /\ packet[k + 2] = Low(n)
      <4>1. PICK s : s = Length(n, wide)
        OBVIOUS
      <4>2. Len(s) = 2 /\ s[1] = High(n) /\ s[2] = Low(n)
        BY <3>1, <4>1
      <4>3. Lies(packet, k, s) /\ 1 \in 1 .. Len(s) /\ 2 \in 1 .. Len(s)
        BY <1>1, <4>1, <4>2
      <4> QED
        BY <4>2, <4>3 DEF Lies
    <3>3. Peek(p, 0) = packet[k + 1] /\ Peek(p, 1) = packet[k + 2]
      <4>1. k + 1 + 0 = k + 1 /\ k + 1 + 1 = k + 2 /\ k + 2 <= l
        BY <1>1, <3>1
      <4>2. k + 1 <= l
        BY <1>1, <3>1
      <4> QED
        BY <1>1, <1>3, <4>1, <4>2 DEF Peek
    <3>4. 256 * High(n) + Low(n) = n
      BY <3>1, DigitsIs
    <3> QED
      BY <2>1, <3>2, <3>3, <3>4
  <2>2. CASE ~wide
    <3>1. w = 1 /\ Length(n, wide) = <<Low(n)>> /\ n <= 255
      BY <1>1, <2>2 DEF Width, Length, Limit
    <3>2. packet[k + 1] = Low(n)
      <4>1. PICK s : s = Length(n, wide)
        OBVIOUS
      <4>2. Len(s) = 1 /\ s[1] = Low(n)
        BY <3>1, <4>1
      <4>3. Lies(packet, k, s) /\ 1 \in 1 .. Len(s)
        BY <1>1, <4>1, <4>2
      <4> QED
        BY <4>2, <4>3 DEF Lies
    <3>3. Peek(p, 0) = packet[k + 1]
      <4>1. k + 1 + 0 = k + 1 /\ k + 1 <= l
        BY <1>1, <3>1
      <4> QED
        BY <1>1, <1>3, <4>1 DEF Peek
    <3>4. Low(n) = n
      BY <3>1, FewIs
    <3> QED
      BY <2>2, <3>2, <3>3, <3>4
  <2> QED
    BY <2>1, <2>2
<1>7. [i \in 1 .. n |-> Peek(q, i - 1)] = t
  <2>1. ASSUME NEW i \in 1 .. n PROVE Peek(q, i - 1) = t[i]
    <3>1. k + 1 + w + (i - 1) = k + w + i /\ k + w + i <= l
      BY <1>1
    <3>2. packet[k + w + i] = t[i]
      BY <1>1 DEF Lies
    <3> QED
      BY <1>1, <1>3, <3>1, <3>2 DEF Peek
  <2>2. t = [i \in 1 .. n |-> t[i]]
    BY <1>1
  <2> QED
    BY <2>1, <2>2
<1>8. Read(q, t, n) = Parsed(k + 1 + w + n, Append(v, t))
  <2>1. k + 1 + w \in Nat
    OBVIOUS
  <2> QED
    BY <1>2, <2>1, ReadIs
<1>9. w = IF wide THEN 2 ELSE 1
  BY <1>1 DEF Width
<1>10. Parameter(p, wide) = Read(q, [i \in 1 .. n |-> Peek(q, i - 1)], n)
  BY <1>3, <1>4, <1>5, <1>6, <1>9 DEF Parameter
<1> QED
  BY <1>1, <1>2, <1>7, <1>8, <1>10

-----------------------------------------------------------------------------
(* The replies *)

\* A packet with the start byte, the code, body b and the end byte.
Framed(code, b) == <<START, REPLY_FLAG + code>> \o b \o <<END>>

LEMMA FramedIs ==
    ASSUME NEW code \in 0 .. 127, NEW b \in Seq(Bytes), NEW f, f = Framed(code, b)
    PROVE  /\ f \in Seq(Bytes) /\ Len(f) = 3 + Len(b) /\ Lies(f, 2, b)
           /\ f[1] = START /\ f[2] = REPLY_FLAG + code /\ f[Len(f)] = END
<1>1. PICK h, e, m : h = <<START, REPLY_FLAG + code>> /\ e = <<END>> /\ m = h \o b
  OBVIOUS
<1>2. /\ h \in Seq(Bytes) /\ Len(h) = 2 /\ h[1] = START /\ h[2] = REPLY_FLAG + code
      /\ e \in Seq(Bytes) /\ Len(e) = 1 /\ e[1] = END
  <2>1. START \in Bytes /\ END \in Bytes
    BY DEF START, END, Bytes
  <2>2. REPLY_FLAG + code \in Bytes
    BY DEF REPLY_FLAG, Bytes
  <2> QED
    BY <1>1, <2>1, <2>2
<1>3. m \in Seq(Bytes) /\ Len(m) = 2 + Len(b) /\ Lies(m, 0, h) /\ Lies(m, 2, b)
  <2>1. /\ h \o b \in Seq(Bytes) /\ Len(h \o b) = Len(h) + Len(b)
        /\ Lies(h \o b, 0, h) /\ Lies(h \o b, Len(h), b)
    BY <1>2, LiesConcat
  <2> QED
    BY <1>1, <1>2, <2>1
<1>4. f = m \o e
  BY <1>1 DEF Framed
<1>5. PICK l, k \in Nat : l = Len(b) /\ k = Len(m)
  BY <1>3, LenProperties
<1>6. f \in Seq(Bytes) /\ Len(f) = k + 1 /\ Lies(f, 0, m) /\ Lies(f, k, e)
  <2>1. /\ m \o e \in Seq(Bytes) /\ Len(m \o e) = Len(m) + Len(e)
        /\ Lies(m \o e, 0, m) /\ Lies(m \o e, Len(m), e)
    BY <1>2, <1>3, LiesConcat
  <2> QED
    BY <1>2, <1>4, <1>5, <2>1
<1>7. k = 2 + l /\ Len(f) = 3 + Len(b) /\ Len(f) = k + 1
  BY <1>3, <1>5, <1>6
<1>8. f[k + 1] = END
  <2>1. 1 \in 1 .. Len(e)
    BY <1>2
  <2> QED
    BY <1>2, <1>6, <2>1 DEF Lies
<1>9. Len(f) \in Nat /\ Len(m) \in Nat
  BY <1>5, <1>7
<1>10. Lies(f, 0, h) /\ Lies(f, 2, b)
  <2>1. Lies(f, 0, h)
    BY <1>2, <1>3, <1>6, <1>9, LiesFirst
  <2>2. Lies(f, 0 + 2, b)
    BY <1>3, <1>5, <1>6, <1>9, LiesWithin
  <2>3. 0 + 2 = 2
    OBVIOUS
  <2> QED
    BY <2>1, <2>2, <2>3
<1>11. f[1] = START /\ f[2] = REPLY_FLAG + code
  <2>1. 1 \in 1 .. Len(h) /\ 2 \in 1 .. Len(h)
    BY <1>2
  <2>2. f[0 + 1] = h[1] /\ f[0 + 2] = h[2]
    BY <1>10, <2>1 DEF Lies
  <2>3. 0 + 1 = 1 /\ 0 + 2 = 2
    OBVIOUS
  <2> QED
    BY <1>2, <2>2, <2>3
<1> QED
  BY <1>6, <1>7, <1>8, <1>10, <1>11

\* The body of a reply with the one parameter t.
Single(t, wide) == (<<1>> \o Length(Len(t), wide)) \o t

LEMMA SingleIs ==
    ASSUME NEW t \in Seq(Bytes), NEW wide \in BOOLEAN, NEW b, b = Single(t, wide)
    PROVE  /\ b \in Seq(Bytes) /\ Len(b) = 1 + Width(wide) + Len(t) /\ b[1] = 1
           /\ Lies(b, 1, Length(Len(t), wide)) /\ Lies(b, 1 + Width(wide), t)
<1>1. PICK o, s, h : o = <<1>> /\ s = Length(Len(t), wide) /\ h = o \o s
  OBVIOUS
<1>2. PICK n, w \in Nat : n = Len(t) /\ w = Width(wide)
  BY LenProperties DEF Width
<1>3. s \in Seq(Bytes) /\ Len(s) = w /\ o \in Seq(Bytes) /\ Len(o) = 1 /\ o[1] = 1
  <2>1. 1 \in Bytes
    BY ByteString
  <2>2. s \in Seq(Bytes) /\ Len(s) = w
    BY <1>1, <1>2, LengthIs
  <2> QED
    BY <1>1, <2>1, <2>2
<1>4. h \in Seq(Bytes) /\ Len(h) = 1 + w /\ Lies(h, 0, o) /\ Lies(h, 1, s)
  <2>1. o \o s \in Seq(Bytes) /\ Len(o \o s) = Len(o) + Len(s) /\ Lies(o \o s, 0, o) /\ Lies(o \o s, Len(o), s)
    BY <1>3, LiesConcat
  <2> QED
    BY <1>1, <1>3, <2>1
<1>5. b \in Seq(Bytes) /\ Len(b) = 1 + w + n /\ Lies(b, 0, h) /\ Lies(b, 1 + w, t)
  <2>1. h \o t \in Seq(Bytes) /\ Len(h \o t) = Len(h) + Len(t) /\ Lies(h \o t, 0, h) /\ Lies(h \o t, Len(h), t)
    BY <1>4, LiesConcat
  <2>2. b = h \o t
    BY <1>1 DEF Single
  <2> QED
    BY <1>2, <1>4, <2>1, <2>2
<1>6. Len(b) \in Nat /\ Len(h) \in Nat
  BY <1>2, <1>4, <1>5
<1>7. Lies(b, 0, o) /\ Lies(b, 1, s)
  <2>1. Len(o) \in Nat /\ Len(s) \in Nat
    BY <1>2, <1>3
  <2>2. Lies(b, 0, o)
    BY <1>4, <1>5, <1>6, <2>1, LiesFirst
  <2>3. Lies(b, 1, s)
    BY <1>4, <1>5, <1>6, <2>1, LiesFirst
  <2> QED
    BY <2>2, <2>3
<1>8. b[1] = 1
  <2>1. 1 \in 1 .. Len(o) /\ 0 + 1 = 1
    BY <1>3
  <2>2. b[0 + 1] = o[1]
    BY <1>7, <2>1 DEF Lies
  <2> QED
    BY <1>3, <2>1, <2>2
<1> QED
  BY <1>1, <1>2, <1>5, <1>7, <1>8

\* What _wait_response_cmd makes of a reply with one parameter: all of it is read.
LEMMA OneRead ==
    ASSUME NEW code \in 0 .. 127, NEW c, c.code = code, c.replies = 1, NEW t \in Seq(Bytes),
           c.wideReply \in BOOLEAN, Len(t) <= Limit(c.wideReply),
           packet = Framed(code, Single(t, c.wideReply))
    PROVE  packet \in Seq(Bytes) /\ Response(c) = Parsed(Len(packet) + 1, <<t>>)
<1>1. PICK wide, b : wide = c.wideReply /\ b = Single(t, wide)
  OBVIOUS
<1>2. PICK n, w \in Nat : n = Len(t) /\ w = Width(wide)
  BY LenProperties DEF Width
<1>3. wide \in BOOLEAN /\ n <= Limit(wide)
  BY <1>1, <1>2
<1>4. b \in Seq(Bytes) /\ Len(b) = 1 + w + n /\ b[1] = 1 /\ Lies(b, 1, Length(n, wide)) /\ Lies(b, 1 + w, t)
  BY <1>1, <1>2, <1>3, SingleIs
<1>5. /\ packet \in Seq(Bytes) /\ Len(packet) = 3 + Len(b) /\ Lies(packet, 2, b)
      /\ packet[1] = START /\ packet[2] = REPLY_FLAG + code /\ packet[Len(packet)] = END
  BY <1>1, <1>4, FramedIs
<1>6. PICK l \in Nat : l = Len(packet) /\ l = 4 + w + n
  BY <1>2, <1>4, <1>5
<1>7. Len(b) \in Nat /\ Len(Length(n, wide)) \in Nat
  <2>1. Len(Length(n, wide)) = w
    BY <1>2, <1>3, LengthIs
  <2> QED
    BY <1>2, <1>4, <2>1
<1>8. Lies(packet, 3, Length(n, wide)) /\ Lies(packet, 3 + w, t)
  <2>1. Lies(packet, 2 + 1, Length(n, wide))
    BY <1>4, <1>5, <1>6, <1>7, LiesWithin
  <2>2. Lies(packet, 2 + (1 + w), t)
    BY <1>2, <1>4, <1>5, <1>6, <1>7, LiesWithin
  <2>3. 2 + 1 = 3 /\ 2 + (1 + w) = 3 + w
    OBVIOUS
  <2> QED
    BY <2>1, <2>2, <2>3
<1>9. packet[3] = 1
  <2>1. 1 \in 1 .. Len(b) /\ 2 + 1 = 3
    BY <1>4
  <2>2. packet[2 + 1] = b[1]
    BY <1>5, <2>1 DEF Lies
  <2> QED
    BY <1>4, <2>1, <2>2
<1>10. Begins = Parsed(2, <<>>)
  BY <1>5, <1>6, BeginsIs
<1>11. Check(Parsed(2, <<>>), code + REPLY_FLAG) = Parsed(3, <<>>)
  <2>1. packet[2] = code + REPLY_FLAG
    <3>1. PICK f, k : f = REPLY_FLAG /\ k = code
      OBVIOUS
    <3>2. f \in Int /\ k \in Int
      BY <3>1 DEF REPLY_FLAG
    <3>3. f + k = k + f
      BY <3>2
    <3> QED
      BY <1>5, <3>1, <3>3
  <2>2. 2 <= Len(packet) /\ 2 + 1 = 3
    BY <1>6
  <2>3. Check(Parsed(2, <<>>), code + REPLY_FLAG) = Parsed(2 + 1, <<>>)
    BY <1>5, <2>1, <2>2, CheckIs
  <2> QED
    BY <2>3, <2>2
<1>12. Check(Parsed(3, <<>>), 1) = Parsed(4, <<>>)
  <2>1. 3 <= Len(packet) /\ 3 + 1 = 4
    BY <1>6
  <2>2. Check(Parsed(3, <<>>), 1) = Parsed(3 + 1, <<>>)
    BY <1>5, <1>9, <2>1, CheckIs
  <2> QED
    BY <2>1, <2>2
<1>13. Parameter(Parsed(4, <<>>), wide) = Parsed(4 + w + n, <<t>>)
  <2>1. 3 + w + n < Len(packet) /\ 3 + 1 = 4
    BY <1>6
  <2>2. PICK v : v = <<>>
    OBVIOUS
  <2>3. PICK k \in Nat : k = 3
    OBVIOUS
  <2>4. Parameter(Parsed(k + 1, v), wide) = Parsed(k + 1 + Width(wide) + Len(t), Append(v, t))
    <3>1. /\ Len(t) <= Limit(wide)
          /\ Lies(packet, k, Length(Len(t), wide)) /\ Lies(packet, k + Width(wide), t)
          /\ k + Width(wide) + Len(t) < Len(packet)
      BY <1>2, <1>3, <1>8, <2>1, <2>3
    <3> QED
      BY <1>3, <1>5, <3>1, ParameterIs
  <2>5. Append(v, t) = <<t>>
    BY <2>2
  <2> QED
    BY <1>2, <2>1, <2>4, <2>5, <2>2, <2>3
<1>14. Filled(Parsed(4, <<>>), wide, 1) = Parsed(l, <<t>>)
  BY <1>6, <1>13, FilledIs
<1>15. Check(Parsed(l, <<t>>), END) = Parsed(l + 1, <<t>>)
  <2>1. PICK v : v = <<t>>
    OBVIOUS
  <2>2. packet[l] = END /\ l <= Len(packet)
    BY <1>5, <1>6
  <2>3. Check(Parsed(l, v), END) = Parsed(l + 1, v)
    BY <1>5, <2>2, CheckIs
  <2> QED
    BY <2>1, <2>3
<1>16. Response(c) = Check(Filled(Check(Check(Begins, code + REPLY_FLAG), 1), wide, 1), END)
  <2>1. ~(c.replies < 0)
    OBVIOUS
  <2> QED
    BY <1>1, <2>1 DEF Response
<1> QED
  BY <1>5, <1>6, <1>10, <1>11, <1>12, <1>14, <1>15, <1>16

\* A refusal raises.
LEMMA RefusalRead ==
    ASSUME NEW c, c.replies \in {1, 3, -1}, packet = <<ERR, 0, END>>
    PROVE  packet \in Seq(Bytes) /\ Response(c).raised = "RuntimeError"
<1>1. packet \in Seq(Bytes) /\ Len(packet) = 3 /\ packet[1] = ERR /\ packet[2] = 0
  <2>1. ERR \in Bytes /\ END \in Bytes /\ 0 \in Bytes
    BY DEF ERR, END, Bytes
  <2> QED
    BY <2>1
<1>2. PICK p : p = [Parsed(2, <<>>) EXCEPT !.raised = "RuntimeError"]
  OBVIOUS
<1>3. p.raised = "RuntimeError" /\ p.at = 2
  BY <1>2 DEF Parsed
<1>4. Begins = p
  BY <1>1, <1>2, BeginsIs
<1>5. \A d : Check(p, d) = p
  BY <1>3, RaisedStays
<1>6. Peek(p, 0) = 0
  BY <1>1, <1>3 DEF Peek
<1>7. PICK count : count = IF c.replies < 0 THEN 0 ELSE c.replies
  OBVIOUS
<1>8. count \in {0, 1, 3}
  BY <1>7
<1>9. PICK wide : wide = c.wideReply
  OBVIOUS
<1>10. Parameter(p, wide) = p
  BY <1>3, RaisedStays
<1>11. Filled(p, wide, count) = p
  BY <1>8, <1>10, FilledIs
<1>12. Response(c) = Check(Filled(p, wide, count), END)
  BY <1>4, <1>5, <1>6, <1>7, <1>9 DEF Response
<1> QED
  BY <1>1, <1>3, <1>5, <1>11, <1>12

\* So does a START_CLIENT that failed, whose reply has no parameter.
NoParameter(b) == Len(b) = 1 /\ b[1] = 0

LEMMA NoParamsRead ==
    ASSUME NEW code \in 0 .. 127, NEW c, c.code = code, c.replies = 1,
           NEW b \in Seq(Bytes), NoParameter(b), packet = Framed(code, b)
    PROVE  packet \in Seq(Bytes) /\ Response(c).raised = "RuntimeError"
<1>1. /\ packet \in Seq(Bytes) /\ Len(packet) = 4 /\ Lies(packet, 2, b)
      /\ packet[1] = START /\ packet[2] = REPLY_FLAG + code
  <2>1. /\ packet \in Seq(Bytes) /\ Len(packet) = 3 + Len(b) /\ Lies(packet, 2, b)
        /\ packet[1] = START /\ packet[2] = REPLY_FLAG + code
    BY FramedIs
  <2>2. Len(b) = 1
    BY DEF NoParameter
  <2> QED
    BY <2>1, <2>2
<1>2. packet[3] = 0
  <2>1. 1 \in 1 .. Len(b) /\ 2 + 1 = 3 /\ b[1] = 0
    BY DEF NoParameter
  <2>2. packet[2 + 1] = b[1]
    BY <1>1, <2>1 DEF Lies
  <2> QED
    BY <2>1, <2>2
<1>3. Begins = Parsed(2, <<>>)
  BY <1>1, BeginsIs
<1>4. Check(Parsed(2, <<>>), code + REPLY_FLAG) = Parsed(3, <<>>)
  <2>1. packet[2] = code + REPLY_FLAG
    <3>1. PICK f, k : f = REPLY_FLAG /\ k = code
      OBVIOUS
    <3>2. f \in Int /\ k \in Int
      BY <3>1 DEF REPLY_FLAG
    <3>3. f + k = k + f
      BY <3>2
    <3> QED
      BY <1>1, <3>1, <3>3
  <2>2. 2 <= Len(packet) /\ 2 + 1 = 3
    BY <1>1
  <2>3. Check(Parsed(2, <<>>), code + REPLY_FLAG) = Parsed(2 + 1, <<>>)
    BY <1>1, <2>1, <2>2, CheckIs
  <2> QED
    BY <2>2, <2>3
<1>5. PICK p : p = Check(Parsed(3, <<>>), 1)
  OBVIOUS
<1>6. p.raised = "RuntimeError"
  <2>1. 3 <= Len(packet) /\ packet[3] # 1
    BY <1>1, <1>2
  <2>2. p = [Parsed(3 + 1, <<>>) EXCEPT !.raised = "RuntimeError"]
    BY <1>1, <1>5, <2>1, CheckIs
  <2> QED
    BY <2>2 DEF Parsed
<1>7. PICK wide : wide = c.wideReply
  OBVIOUS
<1>8. Parameter(p, wide) = p /\ Check(p, END) = p
  BY <1>6, RaisedStays
<1>9. Filled(p, wide, 1) = p
  BY <1>8, FilledIs
<1>10. Response(c) = Check(Filled(Check(Check(Begins, code + REPLY_FLAG), 1), wide, 1), END)
  <2>1. ~(c.replies < 0)
    OBVIOUS
  <2> QED
    BY <1>7, <2>1 DEF Response
<1> QED
  BY <1>1, <1>3, <1>4, <1>5, <1>6, <1>8, <1>9, <1>10

\* The body of a reply with three parameters of four bytes: an address, a mask, a gateway.
Triple(a, m) == <<3, 4>> \o a \o <<4>> \o m \o <<4>> \o a

LEMMA TripleIs ==
    ASSUME NEW a \in Seq(Bytes), Len(a) = 4, NEW m \in Seq(Bytes), Len(m) = 4, NEW b, b = Triple(a, m)
    PROVE  /\ b \in Seq(Bytes) /\ Len(b) = 16 /\ Lies(b, 0, <<3, 4>>)
           /\ Lies(b, 2, a) /\ Lies(b, 6, <<4>>) /\ Lies(b, 7, m) /\ Lies(b, 11, <<4>>) /\ Lies(b, 12, a)
<1>1. PICK h, f : h = <<3, 4>> /\ f = <<4>>
  OBVIOUS
<1>2. h \in Seq(Bytes) /\ Len(h) = 2 /\ f \in Seq(Bytes) /\ Len(f) = 1
  <2>1. 3 \in Bytes /\ 4 \in Bytes
    BY DEF Bytes
  <2> QED
    BY <1>1, <2>1
<1>3. PICK c : c = h \o a
  OBVIOUS
<1>4. c \in Seq(Bytes) /\ Len(c) = 6 /\ Lies(c, 0, h) /\ Lies(c, 2, a)
  <2>1. c \in Seq(Bytes) /\ Len(c) = Len(h) + Len(a) /\ Lies(c, 0, h) /\ Lies(c, Len(h), a)
    BY <1>2, <1>3, LiesConcat
  <2> QED
    BY <1>2, <2>1
<1>5. PICK d : d = c \o f
  OBVIOUS
<1>6. d \in Seq(Bytes) /\ Len(d) = 7 /\ Lies(d, 0, c) /\ Lies(d, 6, f)
  <2>1. d \in Seq(Bytes) /\ Len(d) = Len(c) + Len(f) /\ Lies(d, 0, c) /\ Lies(d, Len(c), f)
    BY <1>2, <1>4, <1>5, LiesConcat
  <2> QED
    BY <1>2, <1>4, <2>1
<1>7. PICK e : e = d \o m
  OBVIOUS
<1>8. e \in Seq(Bytes) /\ Len(e) = 11 /\ Lies(e, 0, d) /\ Lies(e, 7, m)
  <2>1. e \in Seq(Bytes) /\ Len(e) = Len(d) + Len(m) /\ Lies(e, 0, d) /\ Lies(e, Len(d), m)
    BY <1>6, <1>7, LiesConcat
  <2> QED
    BY <1>6, <2>1
<1>9. PICK g : g = e \o f
  OBVIOUS
<1>10. g \in Seq(Bytes) /\ Len(g) = 12 /\ Lies(g, 0, e) /\ Lies(g, 11, f)
  <2>1. g \in Seq(Bytes) /\ Len(g) = Len(e) + Len(f) /\ Lies(g, 0, e) /\ Lies(g, Len(e), f)
    BY <1>2, <1>8, <1>9, LiesConcat
  <2> QED
    BY <1>2, <1>8, <2>1
<1>11. b = g \o a
  BY <1>1, <1>3, <1>5, <1>7, <1>9 DEF Triple
<1>12. b \in Seq(Bytes) /\ Len(b) = 16 /\ Lies(b, 0, g) /\ Lies(b, 12, a)
  <2>1. b \in Seq(Bytes) /\ Len(b) = Len(g) + Len(a) /\ Lies(b, 0, g) /\ Lies(b, Len(g), a)
    BY <1>10, <1>11, LiesConcat
  <2> QED
    BY <1>10, <2>1
<1>13. /\ Len(b) \in Nat /\ Len(c) \in Nat /\ Len(d) \in Nat /\ Len(e) \in Nat /\ Len(g) \in Nat
       /\ Len(h) \in Nat /\ Len(f) \in Nat /\ Len(a) \in Nat /\ Len(m) \in Nat
  BY <1>2, <1>4, <1>6, <1>8, <1>10, <1>12
<1>14. Lies(b, 0, e) /\ Lies(b, 11, f)
  BY Zenon, <1>10, <1>12, <1>13, LiesFirst
<1>15. Lies(b, 0, d) /\ Lies(b, 7, m)
  BY Zenon, <1>8, <1>13, <1>14, LiesFirst
<1>16. Lies(b, 0, c) /\ Lies(b, 6, f)
  BY Zenon, <1>6, <1>13, <1>15, LiesFirst
<1>17. Lies(b, 0, h) /\ Lies(b, 2, a)
  BY Zenon, <1>4, <1>13, <1>16, LiesFirst
<1> QED
  BY <1>1, <1>12, <1>14, <1>15, <1>16, <1>17

LEMMA NarrowIs ==
    ASSUME NEW wide \in BOOLEAN, ~wide
    PROVE  Length(4, wide) = <<4>> /\ Width(wide) = 1 /\ 4 <= Limit(wide)
<1>1. Low(4) = 4
  BY FewIs
<1> QED
  BY <1>1 DEF Length, Width, Limit

LEMMA NarrowRead ==
    ASSUME packet \in Seq(Bytes), NEW wide \in BOOLEAN, Width(wide) = 1, 4 <= Limit(wide),
           NEW k \in Nat, NEW v, NEW t \in Seq(Bytes), Len(t) = 4,
           Lies(packet, k, Length(4, wide)), Lies(packet, k + 1, t), k + 5 < Len(packet)
    PROVE  Parameter(Parsed(k + 1, v), wide) = Parsed(k + 6, Append(v, t))
<1>1. PICK w, n \in Nat : w = 1 /\ n = 4
  OBVIOUS
<1>2. w = Width(wide) /\ n = Len(t) /\ k + 1 + w + n = k + 6 /\ k + w + n = k + 5
  BY <1>1
<1>3. /\ Len(t) <= Limit(wide) /\ Lies(packet, k, Length(Len(t), wide))
      /\ Lies(packet, k + Width(wide), t)
  BY <1>1, <1>2
<1>4. k + Width(wide) + Len(t) < Len(packet)
  BY <1>1, <1>2
<1>5. Parameter(Parsed(k + 1, v), wide) = Parsed(k + 1 + Width(wide) + Len(t), Append(v, t))
  BY <1>3, <1>4, ParameterIs
<1> QED
  BY <1>2, <1>5

LEMMA ThreeRead ==
    ASSUME NEW code \in 0 .. 127, NEW c, c.code = code, c.replies = 3,
           NEW wide \in BOOLEAN, c.wideReply = wide, ~wide,
           NEW a \in Seq(Bytes), Len(a) = 4, NEW m \in Seq(Bytes), Len(m) = 4,
           packet = Framed(code, Triple(a, m))
    PROVE  packet \in Seq(Bytes) /\ Response(c) = Parsed(Len(packet) + 1, <<a, m, a>>)
<1>1. PICK b, f, h : b = Triple(a, m) /\ f = <<4>> /\ h = <<3, 4>>
  OBVIOUS
<1>2. /\ b \in Seq(Bytes) /\ Len(b) = 16 /\ Lies(b, 0, h)
      /\ Lies(b, 2, a) /\ Lies(b, 6, f) /\ Lies(b, 7, m) /\ Lies(b, 11, f) /\ Lies(b, 12, a)
  BY <1>1, TripleIs
<1>3. /\ packet \in Seq(Bytes) /\ Len(packet) = 3 + Len(b) /\ Lies(packet, 2, b)
      /\ packet[1] = START /\ packet[2] = REPLY_FLAG + code /\ packet[Len(packet)] = END
  BY <1>1, <1>2, FramedIs
<1>4. Len(packet) = 19 /\ Len(f) = 1 /\ f[1] = 4 /\ Len(h) = 2 /\ h[1] = 3 /\ h[2] = 4
  BY <1>1, <1>2, <1>3
<1>5. \A i, s : Lies(b, i, s) /\ Len(s) \in Nat => Lies(packet, 2 + i, s)
  <2> SUFFICES ASSUME NEW i, NEW s, Lies(b, i, s), Len(s) \in Nat PROVE Lies(packet, 2 + i, s)
    OBVIOUS
  <2>1. Len(packet) \in Nat /\ Len(b) \in Nat
    BY <1>2, <1>4
  <2> QED
    BY <1>3, <2>1, LiesWithin
<1>6. /\ Lies(packet, 4, a) /\ Lies(packet, 8, f) /\ Lies(packet, 9, m)
      /\ Lies(packet, 13, f) /\ Lies(packet, 14, a)
  <2>1. /\ Lies(packet, 2 + 2, a) /\ Lies(packet, 2 + 6, f) /\ Lies(packet, 2 + 7, m)
        /\ Lies(packet, 2 + 11, f) /\ Lies(packet, 2 + 12, a)
    BY <1>2, <1>4, <1>5
  <2>2. 2 + 2 = 4 /\ 2 + 6 = 8 /\ 2 + 7 = 9 /\ 2 + 11 = 13 /\ 2 + 12 = 14
    OBVIOUS
  <2> QED
    BY <2>1, <2>2
<1>7. packet[3] = 3 /\ Lies(packet, 3, f)
  <2>1. Lies(packet, 2 + 0, h) /\ 2 + 0 = 2
    BY <1>2, <1>4, <1>5
  <2>2. 1 \in 1 .. Len(h) /\ 2 \in 1 .. Len(h) /\ 2 + 1 = 3 /\ 2 + 2 = 4 /\ 3 + 1 = 4
    BY <1>4
  <2>3. packet[3] = 3 /\ packet[4] = 4
    BY <1>4, <2>1, <2>2 DEF Lies
  <2>4. \A j \in 1 .. 1 : packet[3 + j] = f[j]
    BY <1>4, <2>3
  <2>5. 3 \in Nat /\ 3 + 1 <= 19
    OBVIOUS
  <2> QED
    BY <1>4, <2>3, <2>4, <2>5 DEF Lies
<1>8. f = Length(4, wide) /\ Width(wide) = 1 /\ 4 <= Limit(wide)
  BY <1>1, NarrowIs
<1>9. ASSUME NEW k \in Nat, NEW v, NEW t \in Seq(Bytes), Len(t) = 4, Lies(packet, k, f),
             Lies(packet, k + 1, t), k + 5 < 19
      PROVE  Parameter(Parsed(k + 1, v), wide) = Parsed(k + 6, Append(v, t))
  <2>1. Lies(packet, k, Length(4, wide)) /\ k + 5 < Len(packet)
    BY <1>4, <1>8, <1>9
  <2> QED
    BY <1>3, <1>8, <1>9, <2>1, NarrowRead
<1>10. PICK v0, v1, v2, v3 : v0 = <<>> /\ v1 = <<a>> /\ v2 = <<a, m>> /\ v3 = <<a, m, a>>
  OBVIOUS
<1>11. v1 = Append(v0, a) /\ v2 = Append(v1, m) /\ v3 = Append(v2, a)
  BY <1>10
<1>12. Begins = Parsed(2, v0)
  BY <1>3, <1>4, <1>10, BeginsIs
<1>13. Check(Parsed(2, v0), code + REPLY_FLAG) = Parsed(3, v0)
  <2>1. packet[2] = code + REPLY_FLAG
    <3>1. PICK g, k : g = REPLY_FLAG /\ k = code
      OBVIOUS
    <3>2. g \in Int /\ k \in Int
      BY <3>1 DEF REPLY_FLAG
    <3>3. g + k = k + g
      BY <3>2
    <3> QED
      BY <1>3, <3>1, <3>3
  <2>2. 2 <= Len(packet) /\ 2 + 1 = 3
    BY <1>4
  <2>3. Check(Parsed(2, v0), code + REPLY_FLAG) = Parsed(2 + 1, v0)
    BY <1>3, <2>1, <2>2, CheckIs
  <2> QED
    BY <2>2, <2>3
<1>14. Check(Parsed(3, v0), 3) = Parsed(4, v0)
  <2>1. 3 <= Len(packet) /\ 3 + 1 = 4
    BY <1>4
  <2>2. Check(Parsed(3, v0), 3) = Parsed(3 + 1, v0)
    BY <1>3, <1>7, <2>1, CheckIs
  <2> QED
    BY <2>1, <2>2
<1>15. Parameter(Parsed(4, v0), wide) = Parsed(9, v1)
  <2>1. 3 \in Nat /\ 3 + 1 = 4 /\ 3 + 5 < 19 /\ 3 + 6 = 9
    OBVIOUS
  <2>2. Parameter(Parsed(3 + 1, v0), wide) = Parsed(3 + 6, Append(v0, a))
    BY <1>6, <1>7, <1>9, <2>1
  <2> QED
    BY <1>11, <2>1, <2>2
<1>16. Parameter(Parsed(9, v1), wide) = Parsed(14, v2)
  <2>1. 8 \in Nat /\ 8 + 1 = 9 /\ 8 + 5 < 19 /\ 8 + 6 = 14
    OBVIOUS
  <2>2. Parameter(Parsed(8 + 1, v1), wide) = Parsed(8 + 6, Append(v1, m))
    BY <1>6, <1>9, <2>1
  <2> QED
    BY <1>11, <2>1, <2>2
<1>17. Parameter(Parsed(14, v2), wide) = Parsed(19, v3)
  <2>1. 13 \in Nat /\ 13 + 1 = 14 /\ 13 + 5 < 19 /\ 13 + 6 = 19
    OBVIOUS
  <2>2. Parameter(Parsed(13 + 1, v2), wide) = Parsed(13 + 6, Append(v2, a))
    BY <1>6, <1>9, <2>1
  <2> QED
    BY <1>11, <2>1, <2>2
<1>18. Filled(Parsed(4, v0), wide, 3) = Parsed(19, v3)
  <2>1. PICK p0, p1, p2, p3 : /\ p0 = Parsed(4, v0) /\ p1 = Parsed(9, v1)
                             /\ p2 = Parsed(14, v2) /\ p3 = Parsed(19, v3)
    OBVIOUS
  <2>2. Parameter(p0, wide) = p1 /\ Parameter(p1, wide) = p2 /\ Parameter(p2, wide) = p3
    BY <1>15, <1>16, <1>17, <2>1
  <2>3. Filled(p0, wide, 3) = p3
    BY <2>2, FilledIs
  <2> QED
    BY <2>1, <2>3
<1>19. Check(Parsed(19, v3), END) = Parsed(20, v3)
  <2>1. PICK l \in Nat : l = Len(packet) /\ l = 19 /\ l + 1 = 20
    BY <1>4
  <2>2. packet[l] = END /\ l <= Len(packet)
    BY <1>3, <2>1
  <2>3. Check(Parsed(l, v3), END) = Parsed(l + 1, v3)
    BY <1>3, <2>2, CheckIs
  <2> QED
    BY <2>1, <2>3
<1>20. Response(c) = Check(Filled(Check(Check(Begins, code + REPLY_FLAG), 3), wide, 3), END)
  <2>1. ~(c.replies < 0)
    OBVIOUS
  <2> QED
    BY <2>1 DEF Response
<1>21. Response(c) = Parsed(20, v3)
  BY <1>12, <1>13, <1>14, <1>18, <1>19, <1>20
<1>22. Len(packet) + 1 = 20
  BY <1>4
<1> QED
  BY <1>3, <1>10, <1>21, <1>22

-----------------------------------------------------------------------------
(* What the handlers answer *)

\* What two bytes can count.
Few(n) == n <= 65535

LEMMA ListTwo ==
    ASSUME NEW S, NEW a \in S, NEW b \in S
    PROVE  <<a>> \o <<b>> = <<a, b>>
<1>1. PICK x, y, z, c : x = <<a>> /\ y = <<b>> /\ z = <<a, b>> /\ c = x \o y
  OBVIOUS
<1>2. x \in Seq(S) /\ y \in Seq(S) /\ z \in Seq(S)
  BY <1>1
<1>3. Len(x) = 1 /\ Len(y) = 1 /\ Len(z) = 2 /\ x[1] = a /\ y[1] = b /\ z[1] = a /\ z[2] = b
  BY <1>1
<1>4. c \in Seq(S) /\ Len(c) = 2 /\ c[1] = a /\ c[2] = b
  BY <1>1, <1>2, <1>3, ConcatProperties
<1>5. \A i \in 1 .. 2 : i = 1 \/ i = 2
  OBVIOUS
<1>6. \A i \in 1 .. 2 : c[i] = z[i]
  BY <1>3, <1>4, <1>5
<1>7. c = z
  <2>1. Len(c) = Len(z) /\ \A i \in 1 .. Len(c) : c[i] = z[i]
    BY <1>3, <1>4, <1>6
  <2> QED
    BY Zenon, <1>2, <1>4, <2>1, SeqEqual
<1> QED
  BY <1>1, <1>7

LEMMA ListThree ==
    ASSUME NEW S, NEW a \in S, NEW b \in S, NEW d \in S
    PROVE  <<a, b>> \o <<d>> = <<a, b, d>>
<1>1. PICK u, v, z, c : u = <<a, b>> /\ v = <<d>> /\ z = <<a, b, d>> /\ c = u \o v
  OBVIOUS
<1>2. u \in Seq(S) /\ v \in Seq(S) /\ z \in Seq(S)
  BY <1>1
<1>3. /\ Len(u) = 2 /\ u[1] = a /\ u[2] = b /\ Len(v) = 1 /\ v[1] = d
      /\ Len(z) = 3 /\ z[1] = a /\ z[2] = b /\ z[3] = d
  BY <1>1
<1>4. c \in Seq(S) /\ Len(c) = 3 /\ c[1] = a /\ c[2] = b /\ c[3] = d
  BY <1>1, <1>2, <1>3, ConcatProperties
<1>5. \A i \in 1 .. 3 : i = 1 \/ i = 2 \/ i = 3
  OBVIOUS
<1>6. \A i \in 1 .. 3 : c[i] = z[i]
  BY <1>3, <1>4, <1>5
<1>7. Len(c) = Len(z) /\ \A i \in 1 .. Len(c) : c[i] = z[i]
  BY <1>3, <1>4, <1>6
<1>8. c = z
  BY Zenon, <1>2, <1>4, <1>7, SeqEqual
<1> QED
  BY <1>1, <1>8

LEMMA ListOneTwo ==
    ASSUME NEW S, NEW a \in S, NEW b \in S, NEW d \in S
    PROVE  <<a>> \o <<b, d>> = <<a, b, d>>
<1>1. PICK u, v, z, c : u = <<a>> /\ v = <<b, d>> /\ z = <<a, b, d>> /\ c = u \o v
  OBVIOUS
<1>2. u \in Seq(S) /\ v \in Seq(S) /\ z \in Seq(S)
  BY <1>1
<1>3. /\ Len(u) = 1 /\ u[1] = a /\ Len(v) = 2 /\ v[1] = b /\ v[2] = d
      /\ Len(z) = 3 /\ z[1] = a /\ z[2] = b /\ z[3] = d
  BY <1>1
<1>4. c \in Seq(S) /\ Len(c) = 3 /\ c[1] = a /\ c[2] = b /\ c[3] = d
  BY <1>1, <1>2, <1>3, ConcatProperties
<1>5. \A i \in 1 .. 3 : i = 1 \/ i = 2 \/ i = 3
  OBVIOUS
<1>6. \A i \in 1 .. 3 : c[i] = z[i]
  BY <1>3, <1>4, <1>5
<1>7. Len(c) = Len(z) /\ \A i \in 1 .. Len(c) : c[i] = z[i]
  BY <1>3, <1>4, <1>6
<1>8. c = z
  BY Zenon, <1>2, <1>4, <1>7, SeqEqual
<1> QED
  BY <1>1, <1>8

LEMMA ListFour ==
    ASSUME NEW S, NEW a \in S, NEW b \in S, NEW d \in S, NEW f \in S
    PROVE  <<a, b>> \o <<d, f>> = <<a, b, d, f>>
<1>1. PICK u, v, z, c : u = <<a, b>> /\ v = <<d, f>> /\ z = <<a, b, d, f>> /\ c = u \o v
  OBVIOUS
<1>2. u \in Seq(S) /\ v \in Seq(S) /\ z \in Seq(S)
  BY <1>1
<1>3. /\ Len(u) = 2 /\ u[1] = a /\ u[2] = b /\ Len(v) = 2 /\ v[1] = d /\ v[2] = f
      /\ Len(z) = 4 /\ z[1] = a /\ z[2] = b /\ z[3] = d /\ z[4] = f
  BY <1>1
<1>4. c \in Seq(S) /\ Len(c) = 4 /\ c[1] = a /\ c[2] = b /\ c[3] = d /\ c[4] = f
  BY <1>1, <1>2, <1>3, ConcatProperties
<1>5. \A i \in 1 .. 4 : i = 1 \/ i = 2 \/ i = 3 \/ i = 4
  OBVIOUS
<1>6. \A i \in 1 .. 4 : c[i] = z[i]
  BY <1>3, <1>4, <1>5
<1>7. Len(c) = Len(z) /\ \A i \in 1 .. Len(c) : c[i] = z[i]
  BY <1>3, <1>4, <1>6
<1>8. c = z
  BY Zenon, <1>2, <1>4, <1>7, SeqEqual
<1> QED
  BY <1>1, <1>8
LEMMA FlagBody ==
    ASSUME NEW n \in Bytes, NEW wide \in BOOLEAN, ~wide, NEW t, t = <<n>>
    PROVE  t \in Seq(Bytes) /\ Len(t) = 1 /\ Len(t) <= Limit(wide) /\ Flag(n).body = Single(t, wide)
<1>1. t \in Seq(Bytes) /\ Len(t) = 1
  OBVIOUS
<1>2. 1 <= Limit(wide)
  BY DEF Limit
<1>3. Length(1, wide) = <<1>>
  <2>1. Low(1) = 1
    BY FewIs
  <2> QED
    BY <2>1 DEF Length
<1>4. Single(t, wide) = (<<1>> \o <<1>>) \o <<n>>
  BY <1>1, <1>3 DEF Single
<1>5. (<<1>> \o <<1>>) \o <<n>> = <<1, 1, n>>
  <2>1. PICK o \in Bytes : o = 1
    BY ByteString
  <2>2. <<o>> \o <<o>> = <<o, o>>
    BY ListTwo
  <2>3. <<o, o>> \o <<n>> = <<o, o, n>>
    BY ListThree
  <2> QED
    BY <2>1, <2>2, <2>3
<1>6. Flag(n).body = <<1, 1, n>>
  BY DEF Flag, Answer
<1> QED
  BY <1>1, <1>2, <1>4, <1>5, <1>6

LEMMA NumberBody ==
    ASSUME NEW n \in Nat, NEW wide \in BOOLEAN, ~wide, NEW t, t = <<Low(n), High(n)>>
    PROVE  t \in Seq(Bytes) /\ Len(t) = 2 /\ Len(t) <= Limit(wide) /\ Number16(n).body = Single(t, wide)
<1>1. PICK x, y \in Bytes : x = Low(n) /\ y = High(n)
  BY DigitIs
<1>2. t \in Seq(Bytes) /\ Len(t) = 2 /\ t = <<x, y>>
  BY <1>1
<1>3. 2 <= Limit(wide)
  BY DEF Limit
<1>4. Length(2, wide) = <<2>>
  <2>1. Low(2) = 2
    BY FewIs
  <2> QED
    BY <2>1 DEF Length
<1>5. Single(t, wide) = (<<1>> \o <<2>>) \o <<x, y>>
  BY <1>2, <1>4 DEF Single
<1>6. (<<1>> \o <<2>>) \o <<x, y>> = <<1, 2, x, y>>
  <2>1. PICK o, d \in Bytes : o = 1 /\ d = 2
    BY DEF Bytes
  <2>2. <<o>> \o <<d>> = <<o, d>>
    BY ListTwo
  <2>3. <<o, d>> \o <<x, y>> = <<o, d, x, y>>
    BY ListFour
  <2> QED
    BY <2>1, <2>2, <2>3
<1>7. Number16(n).body = <<1, 2, x, y>>
  BY <1>1 DEF Number16, Answer
<1> QED
  BY <1>2, <1>3, <1>5, <1>6, <1>7

LEMMA TextBody ==
    ASSUME NEW t \in Seq(Bytes), Len(t) <= 255, NEW wide \in BOOLEAN, ~wide
    PROVE  Len(t) <= Limit(wide) /\ Text(t).body = Single(t, wide)
<1>1. PICK n \in Nat : n = Len(t)
  BY LenProperties
<1>2. n <= Limit(wide)
  BY <1>1 DEF Limit
<1>3. Length(n, wide) = <<n>>
  <2>1. Low(n) = n
    BY <1>1, FewIs
  <2> QED
    BY <2>1 DEF Length
<1>4. Single(t, wide) = (<<1>> \o <<n>>) \o t
  BY <1>1, <1>3 DEF Single
<1>5. <<1>> \o <<n>> = <<1, n>>
  <2>1. 1 \in Nat
    OBVIOUS
  <2> QED
    BY <2>1, ListTwo
<1>6. Text(t).body = <<1, n>> \o t
  BY <1>1 DEF Text, Answer
<1> QED
  BY <1>1, <1>2, <1>4, <1>5, <1>6

LEMMA LongBody ==
    ASSUME NEW t \in Seq(Bytes), Few(Len(t)), NEW wide \in BOOLEAN, wide
    PROVE  Len(t) <= Limit(wide) /\ LongText(t).body = Single(t, wide)
<1>1. PICK n, x, y : n \in Nat /\ n = Len(t) /\ x = High(n) /\ y = Low(n)
  BY LenProperties
<1>2. n <= Limit(wide)
  BY <1>1 DEF Limit, Few
<1>3. Length(n, wide) = <<x, y>>
  BY <1>1 DEF Length
<1>4. Single(t, wide) = (<<1>> \o <<x, y>>) \o t
  BY <1>1, <1>3 DEF Single
<1>5. <<1>> \o <<x, y>> = <<1, x, y>>
  <2>1. 1 \in Int /\ x \in Int /\ y \in Int
    BY <1>1 DEF High, Low
  <2> QED
    BY <2>1, ListOneTwo
<1>6. LongText(t).body = <<1, x, y>> \o t
  BY <1>1 DEF LongText, Answer
<1> QED
  BY <1>1, <1>2, <1>4, <1>5, <1>6

\* g is an answer with the one parameter t, which the command's method decodes to its value.
TellsBy(c, g, t) ==
    /\ c.replies = 1 /\ c.wideReply \in BOOLEAN
    /\ t \in Seq(Bytes) /\ Len(t) <= Limit(c.wideReply)
    /\ g.ok = TRUE /\ g.body = Single(t, c.wideReply)
    /\ g.value = Decoded(c, <<t>>)
    /\ c.decode = "slot" => t[1] # 255

LEMMA DecodedIs ==
    ASSUME NEW c, NEW t
    PROVE  /\ c.decode \in {"flag", "byte", "any", "slot"} => Decoded(c, <<t>>) = t[1]
           /\ c.decode = "le16" => Decoded(c, <<t>>) = Le16(t)
           /\ c.decode = "bytes" => Decoded(c, <<t>>) = t
<1>1. <<t>>[1] = t
  OBVIOUS
<1> QED
  BY <1>1 DEF Decoded

LEMMA FlagTold ==
    ASSUME NEW c, c.replies = 1, NEW wide \in BOOLEAN, c.wideReply = wide, ~wide,
           c.decode \in {"flag", "byte", "any", "slot"}, NEW n \in Bytes, c.decode = "slot" => n # 255
    PROVE  \E t : TellsBy(c, Flag(n), t)
<1>1. PICK t : t = <<n>>
  OBVIOUS
<1>2. t \in Seq(Bytes) /\ Len(t) <= Limit(wide) /\ Flag(n).body = Single(t, wide)
  BY <1>1, FlagBody
<1>3. t[1] = n /\ Flag(n).ok = TRUE /\ Flag(n).value = n
  BY <1>1 DEF Flag, Answer
<1>4. Decoded(c, <<t>>) = n
  BY <1>3, DecodedIs
<1>5. TellsBy(c, Flag(n), t)
  BY <1>2, <1>3, <1>4 DEF TellsBy
<1> QED
  BY <1>5

LEMMA NumberTold ==
    ASSUME NEW c, c.replies = 1, NEW wide \in BOOLEAN, c.wideReply = wide, ~wide,
           NEW n \in Nat, Few(n), c.decode = "le16" \/ (c.decode = "byte" /\ n <= 255)
    PROVE  \E t : TellsBy(c, Number16(n), t)
<1>1. PICK t : t = <<Low(n), High(n)>>
  OBVIOUS
<1>2. t \in Seq(Bytes) /\ Len(t) <= Limit(wide) /\ Number16(n).body = Single(t, wide)
  BY <1>1, NumberBody
<1>3. Number16(n).ok = TRUE /\ Number16(n).value = n
  BY DEF Number16, Answer
<1>4. Decoded(c, <<t>>) = n
  <2>1. CASE c.decode = "le16"
    <3>1. Le16(t) = n
      BY <1>1, DigitsIs DEF Le16, Few
    <3> QED
      BY <2>1, <3>1, DecodedIs
  <2>2. CASE c.decode = "byte" /\ n <= 255
    <3>1. t[1] = n
      BY <1>1, <2>2, FewIs
    <3> QED
      BY <2>2, <3>1, DecodedIs
  <2> QED
    BY <2>1, <2>2
<1>5. c.decode # "slot"
  OBVIOUS
<1>6. TellsBy(c, Number16(n), t)
  BY <1>2, <1>3, <1>4, <1>5 DEF TellsBy
<1> QED
  BY <1>6

LEMMA TextTold ==
    ASSUME NEW c, c.replies = 1, NEW wide \in BOOLEAN, c.wideReply = wide, c.decode = "bytes",
           NEW t \in Seq(Bytes), NEW g, g = IF wide THEN LongText(t) ELSE Text(t),
           wide => Few(Len(t)), ~wide => Len(t) <= 255
    PROVE  \E u : TellsBy(c, g, u)
<1>1. Len(t) <= Limit(wide) /\ g.body = Single(t, wide)
  BY TextBody, LongBody
<1>2. g.ok = TRUE /\ g.value = t
  BY DEF Text, LongText, Answer
<1>3. Decoded(c, <<t>>) = t
  BY DecodedIs
<1>4. TellsBy(c, g, t)
  BY <1>1, <1>2, <1>3 DEF TellsBy
<1> QED
  BY <1>4

\* g is an answer with an address, a mask and a gateway.
TellsThree(c, g, a, m) ==
    /\ c.replies = 3 /\ c.wideReply = FALSE /\ c.decode = "list"
    /\ a \in Seq(Bytes) /\ Len(a) = 4 /\ m \in Seq(Bytes) /\ Len(m) = 4
    /\ g.ok = TRUE /\ g.body = Triple(a, m) /\ g.value = <<a, m, a>>

Tells(c, g) == (\E t : TellsBy(c, g, t)) \/ (\E a, m : TellsThree(c, g, a, m))

LEMMA ByteIs == {0, 1, 3, 4, 6, 11, 255} \subseteq Bytes /\ \A s \in Sockets : s \in Bytes /\ s # 255
<1>1. {0, 1, 3, 4, 6, 11, 255} \subseteq Bytes
  BY DEF Bytes
<1>2. \A s \in 0 .. 9 : s # 255
  OBVIOUS
<1> QED
  BY <1>1, <1>2, SocketIs

LEMMA StatusTold ==
    ASSUME NEW c, c = status, NEW g \in Answers(c.code, c.meant)
    PROVE  Tells(c, g)
<1>1. c.code = 32 /\ c.replies = 1 /\ c.decode = "byte"
  BY DEF status, Command
<1>2. PICK wide \in BOOLEAN : c.wideReply = wide /\ ~wide
  BY DEF status, Command
<1>3. g \in StatusAnswers
  BY <1>1 DEF Answers
<1>4. PICK n : g = Flag(n) /\ n \in {0, 1, 3, 4}
  BY <1>3 DEF StatusAnswers
<1>5. n \in Bytes
  BY <1>4, ByteIs
<1>6. \E t : TellsBy(c, g, t)
  BY <1>1, <1>2, <1>4, <1>5, FlagTold
<1> QED
  BY <1>6 DEF Tells

LEMMA NetworkTold ==
    ASSUME NEW c, c = network_data, NEW g \in Answers(c.code, c.meant)
    PROVE  Tells(c, g)
<1>1. c.code = 33 /\ c.replies = 3 /\ c.decode = "list" /\ c.wideReply = FALSE
  BY DEF network_data, Command
<1>2. g \in AddressAnswers
  BY <1>1 DEF Answers
<1>3. PICK a, m : a \in Addresses /\ g = Answer(<<a, m, a>>, Triple(a, m)) /\ m = <<255, 255, 255, 0>>
  <2>1. PICK m : m = <<255, 255, 255, 0>>
    OBVIOUS
  <2>2. PICK a \in Addresses :
           g = Answer(<<a, m, a>>, <<3, 4>> \o a \o <<4>> \o m \o <<4>> \o a)
    BY <1>2, <2>1 DEF AddressAnswers
  <2>3. g = Answer(<<a, m, a>>, Triple(a, m))
    BY <2>2 DEF Triple
  <2> QED
    BY <2>1, <2>3
<1>4. a \in Seq(Bytes) /\ Len(a) = 4
  BY <1>3, StringIs
<1>5. m \in Seq(Bytes) /\ Len(m) = 4
  <2>1. PICK x, y \in Bytes : x = 255 /\ y = 0
    BY ByteIs
  <2>2. m = <<x, x, x, y>>
    BY <1>3, <2>1
  <2> QED
    BY <2>2
<1>6. g.ok = TRUE /\ g.body = Triple(a, m) /\ g.value = <<a, m, a>>
  BY <1>3 DEF Answer
<1>7. TellsThree(c, g, a, m)
  BY <1>1, <1>4, <1>5, <1>6 DEF TellsThree
<1> QED
  BY <1>7 DEF Tells

LEMMA TextsTold ==
    ASSUME NEW c \in {MAC_address, firmware_version, resolved_host}, NEW g \in Answers(c.code, c.meant)
    PROVE  Tells(c, g)
<1>1. c.code \in {34, 55, 53} /\ c.replies = 1 /\ c.decode = "bytes"
  BY DEF MAC_address, firmware_version, resolved_host, Command
<1>2. PICK wide \in BOOLEAN : c.wideReply = wide /\ ~wide
  <2>1. c.wideReply = FALSE
    BY DEF MAC_address, firmware_version, resolved_host, Command
  <2> QED
    BY Zenon, <2>1
<1>3. g \in {Text(Mac), Text(Version)} \cup {Text(a) : a \in Addresses}
  BY <1>1 DEF Answers
<1>4. PICK t : g = Text(t) /\ (t = Mac \/ t = Version \/ t \in Addresses)
  BY <1>3
<1>5. t \in Seq(Bytes) /\ Len(t) <= 255
  <2>1. Mac \in Seq(Bytes) /\ Len(Mac) <= 255
    <3>1. 0 \in Bytes /\ 224 \in Bytes /\ 76 \in Bytes /\ 238 \in Bytes /\ 239 \in Bytes /\ 1 \in Bytes
      BY DEF Bytes
    <3> QED
      BY <3>1 DEF Mac
  <2>2. Version \in Seq(Bytes) /\ Len(Version) <= 255
    <3>1. 48 \in Bytes /\ 46 \in Bytes /\ 49 \in Bytes /\ 45 \in Bytes
      BY DEF Bytes
    <3>2. 97 \in Bytes /\ 108 \in Bytes /\ 112 \in Bytes /\ 104 \in Bytes
      BY DEF Bytes
    <3> QED
      BY <3>1, <3>2 DEF Version
  <2>3. t \in Addresses => t \in Seq(Bytes) /\ Len(t) = 4
    BY Zenon, StringIs
  <2>4. t \in Addresses => Len(t) <= 255
    <3>1. 4 <= 255
      OBVIOUS
    <3> QED
      BY <2>3, <3>1
  <2> QED
    BY Zenon, <1>4, <2>1, <2>2, <2>3, <2>4
<1>6. \E u : TellsBy(c, g, u)
  BY <1>1, <1>2, <1>4, <1>5, TextTold
<1> QED
  BY <1>6 DEF Tells

LEMMA SlotTold ==
    ASSUME NEW c, c = get_socket, NEW g \in Answers(c.code, c.meant)
    PROVE  Tells(c, g)
<1>1. c.code = 63 /\ c.replies = 1 /\ c.decode = "slot"
  BY DEF get_socket, Command
<1>2. PICK wide \in BOOLEAN : c.wideReply = wide /\ ~wide
  BY DEF get_socket, Command
<1>3. PICK s \in Sockets : g = Flag(s)
  BY <1>1 DEF Answers
<1>4. s \in Bytes /\ s # 255
  BY ByteIs
<1>5. \E t : TellsBy(c, g, t)
  BY <1>1, <1>2, <1>3, <1>4, FlagTold
<1> QED
  BY <1>5 DEF Tells

\* WIFI_SET_PASSPHRASE, REQ_HOST_BY_NAME, START_CLIENT, DATA_SENT, STOP_CLIENT, GET_CLIENT_STATE.
LEMMA FlagsTold ==
    ASSUME NEW c, c.code \in {17, 52, 45, 42, 46, 47}, c.replies = 1, c.decode \in {"flag", "byte", "any"},
           NEW wide \in BOOLEAN, c.wideReply = wide, ~wide, NEW g \in Answers(c.code, c.meant)
    PROVE  Tells(c, g)
<1>1. g \in {Flag(0), Flag(1), Flag(4)}
  BY DEF Answers
<1>2. PICK n \in Bytes : g = Flag(n)
  BY <1>1, ByteIs
<1>3. c.decode # "slot" /\ c.decode \in {"flag", "byte", "any", "slot"}
  OBVIOUS
<1>4. \E t : TellsBy(c, g, t)
  BY <1>2, <1>3, FlagTold
<1> QED
  BY <1>4 DEF Tells

LEMMA AvailableTold ==
    ASSUME NEW s, NEW c, c = socket_available(s), NEW g \in Answers(c.code, c.meant)
    PROVE  Tells(c, g)
<1>1. c.code = 43 /\ c.replies = 1 /\ c.decode = "le16"
  BY DEF socket_available, Command
<1>2. PICK wide \in BOOLEAN : c.wideReply = wide /\ ~wide
  BY DEF socket_available, Command
<1>3. PICK n \in {0} \cup Sizes : g = Number16(n)
  BY <1>1 DEF Answers
<1>4. n \in Nat /\ Few(n)
  BY WordIs DEF Few
<1>5. \E t : TellsBy(c, g, t)
  BY <1>1, <1>2, <1>3, <1>4, NumberTold
<1> QED
  BY <1>5 DEF Tells

LEMMA WriteTold ==
    ASSUME NEW s, NEW d \in Chunks, NEW c, c = write_chunk(s, d), Short(c),
           NEW g \in Answers(c.code, c.meant)
    PROVE  Tells(c, g)
<1>1. c.code = 68 /\ c.replies = 1 /\ c.decode = "byte" /\ c.meant = <<s, d>>
  BY DEF write_chunk, Command
<1>2. PICK wide \in BOOLEAN : c.wideReply = wide /\ ~wide
  BY DEF write_chunk, Command
<1>3. PICK n : n = Len(d)
  OBVIOUS
<1>4. g = Number16(n)
  <2>1. c.meant[2] = d
    BY <1>1
  <2>2. g = Number16(Len(c.meant[2]))
    BY <1>1 DEF Answers
  <2> QED
    BY <1>3, <2>1, <2>2
<1>5. n \in Nat /\ n <= 255 /\ Few(n)
  <2>1. Len(c.params) = 2 /\ c.params[2] = d
    BY DEF write_chunk, Command
  <2>2. n <= 255
    BY <1>3, <2>1 DEF Short
  <2> QED
    BY <1>3, <2>2, StringIs DEF Few
<1>6. \E t : TellsBy(c, g, t)
  BY <1>1, <1>2, <1>4, <1>5, NumberTold
<1> QED
  BY <1>6 DEF Tells

LEMMA ReadTold ==
    ASSUME NEW s, NEW n \in Sizes, NEW c, c = socket_read(s, n), NEW g \in Answers(c.code, c.meant)
    PROVE  Tells(c, g)
<1>1. c.code = 69 /\ c.replies = 1 /\ c.decode = "bytes" /\ c.meant = <<s, n>>
  BY DEF socket_read, Command
<1>2. PICK wide \in BOOLEAN : c.wideReply = wide /\ wide
  BY DEF socket_read, Command
<1>3. g \in ReadAnswers(n)
  <2>1. c.meant[2] = n
    BY <1>1
  <2>2. g \in ReadAnswers(c.meant[2])
    BY <1>1 DEF Answers
  <2> QED
    BY <2>1, <2>2
<1>4. PICK d \in Held : g = LongText(SubSeq(d, 1, IF n < Len(d) THEN n ELSE Len(d)))
  BY <1>3 DEF ReadAnswers
<1>5. PICK l, k : l = Len(d) /\ k = IF n < l THEN n ELSE l
  OBVIOUS
<1>6. d \in Seq(Bytes) /\ l \in Nat /\ n \in Nat /\ Few(n)
  BY <1>5, StringsAssumption, WordIs, LenProperties DEF Few
<1>7. k \in Nat /\ k <= l /\ Few(k)
  BY <1>5, <1>6 DEF Few
<1>8. PICK t : t = SubSeq(d, 1, k)
  OBVIOUS
<1>9. t \in Seq(Bytes) /\ Len(t) = k
  <2>1. \A i \in 1 .. k : i \in 1 .. l
    BY <1>6, <1>7
  <2>2. t \in Seq(Bytes)
    BY <1>5, <1>6, <1>7, <1>8, <2>1, SubSeqProperties
  <2>3. Len(t) = IF 1 <= k THEN k - 1 + 1 ELSE 0
    BY <1>5, <1>6, <1>7, <1>8, <2>1, SubSeqProperties
  <2> QED
    BY <1>7, <2>2, <2>3
<1>10. g = LongText(t) /\ Few(Len(t))
  BY <1>4, <1>5, <1>7, <1>8, <1>9
<1>11. \E u : TellsBy(c, g, u)
  BY <1>1, <1>2, <1>9, <1>10, TextTold
<1> QED
  BY <1>11 DEF Tells

\* Every answer a handler has for a command is one that the command's method can be told.
LEMMA AnswersTold ==
    ASSUME NEW c \in Commands, Short(c), NEW g \in Answers(c.code, c.meant)
    PROVE  Tells(c, g)
<1> DEFINE Done == Tells(c, g)
<1>1. ASSUME c \in Queries PROVE Done
  <2> DEFINE texts == {MAC_address, firmware_version, resolved_host}
  <2>1. c = status \/ c = network_data \/ c = get_socket \/ c \in texts
    BY <1>1 DEF Queries
  <2> HIDE DEF texts
  <2>2. c \in texts => Done
    BY TextsTold DEF texts
  <2> HIDE DEF Done
  <2>3. c = status => Done
    BY StatusTold DEF Done
  <2>4. c = network_data => Done
    BY NetworkTold DEF Done
  <2>5. c = get_socket => Done
    BY SlotTold DEF Done
  <2> QED
    BY Zenon, <2>1, <2>2, <2>3, <2>4, <2>5
<1>2. ASSUME Silent(c) PROVE Done
  <2>1. c.code \notin {17, 32, 33, 34, 42, 43, 45, 46, 47, 52, 53, 55, 63, 68, 69}
    BY <1>2 DEF Silent
  <2>2. Answers(c.code, c.meant) = {}
    BY <2>1 DEF Answers
  <2> QED
    BY Zenon, <2>2
<1>3. ASSUME c.code \in {17, 52, 45, 42, 46, 47}, c.replies = 1, c.decode \in {"flag", "byte", "any"},
             c.wideReply = FALSE
      PROVE  Done
  <2>1. PICK wide \in BOOLEAN : c.wideReply = wide /\ ~wide
    BY Zenon, <1>3
  <2> QED
    BY <1>3, <2>1, FlagsTold
<1>4. ASSUME NEW a \in Ssids, NEW b \in Passphrases, c = wifi_set_passphrase(a, b) PROVE Done
  <2>1. c.code = 17 /\ c.replies = 1 /\ c.decode = "flag" /\ c.wideReply = FALSE
    BY <1>4 DEF wifi_set_passphrase, Command
  <2> HIDE DEF Done
  <2> QED
    BY <1>3, <2>1
<1>5. ASSUME NEW n \in Names, c = request_host(n) PROVE Done
  <2>1. c.code = 52 /\ c.replies = 1 /\ c.decode = "flag" /\ c.wideReply = FALSE
    BY <1>5 DEF request_host, Command
  <2> HIDE DEF Done
  <2> QED
    BY <1>3, <2>1
<1>6. ASSUME NEW s \in Sockets, NEW n \in Names, NEW p \in Ports, c = open_by_name(s, n, p, 0) PROVE Done
  <2>1. c.code = 45 /\ c.replies = 1 /\ c.decode = "flag" /\ c.wideReply = FALSE
    BY <1>6 DEF open_by_name, Command
  <2> HIDE DEF Done
  <2> QED
    BY <1>3, <2>1
<1>7. ASSUME NEW s \in Sockets, NEW i \in Addresses, NEW p \in Ports, c = open_by_address(s, i, p, 0)
      PROVE  Done
  <2>1. c.code = 45 /\ c.replies = 1 /\ c.decode = "flag" /\ c.wideReply = FALSE
    BY <1>7 DEF open_by_address, Command
  <2> HIDE DEF Done
  <2> QED
    BY <1>3, <2>1
<1>8. ASSUME NEW s \in Sockets, c \in SocketCommands(s) PROVE Done
  <2>1. CASE c = socket_available(s)
    BY <2>1, AvailableTold
  <2>2. CASE c \in {socket_status(s), socket_close(s), data_sent(s)}
    <3>1. c.code \in {47, 46, 42} /\ c.replies = 1 /\ c.decode \in {"byte", "any", "flag"} /\ c.wideReply = FALSE
      BY <2>2 DEF socket_status, socket_close, data_sent, Command
    <3> HIDE DEF Done
    <3> QED
      BY <1>3, <3>1
  <2> QED
    BY <1>8, <2>1, <2>2 DEF SocketCommands
<1>9. ASSUME NEW s \in Sockets, NEW d \in Chunks, c = write_chunk(s, d) PROVE Done
  BY <1>9, WriteTold
<1>10. ASSUME NEW s \in Sockets, NEW n \in Sizes, c = socket_read(s, n) PROVE Done
  BY <1>10, ReadTold
<1> HIDE DEF Done
<1>11. Done
  BY Zenon, <1>1, <1>2, <1>4, <1>5, <1>6, <1>7, <1>8, <1>9, <1>10, CommandIs
<1> QED
  BY <1>11 DEF Done

\* How many parameters the methods expect.
LEMMA RepliesIs ==
    ASSUME NEW c \in Commands
    PROVE  c.replies \in {1, 3, -1} /\ (c.code = 45 => c.replies = 1)
<1> DEFINE Done == c.replies \in {1, 3, -1} /\ (c.code = 45 => c.replies = 1)
<1>1. ASSUME c \in Queries PROVE Done
  <2>1. c.code \in {32, 33, 34, 55, 53, 63} /\ c.replies \in {1, 3}
    BY <1>1 DEF Queries, status, network_data, MAC_address, firmware_version, resolved_host,
         get_socket, Command
  <2> QED
    BY <2>1
<1>2. ASSUME Silent(c) PROVE Done
  BY <1>2 DEF Silent
<1>3. c.replies = 1 => Done
  OBVIOUS
<1>4. ASSUME NEW a \in Ssids, NEW b \in Passphrases, c = wifi_set_passphrase(a, b) PROVE c.replies = 1
  BY <1>4 DEF wifi_set_passphrase, Command
<1>5. ASSUME NEW n \in Names, c = request_host(n) PROVE c.replies = 1
  BY <1>5 DEF request_host, Command
<1>6. ASSUME NEW s \in Sockets, NEW n \in Names, NEW p \in Ports, c = open_by_name(s, n, p, 0)
      PROVE  c.replies = 1
  BY <1>6 DEF open_by_name, Command
<1>7. ASSUME NEW s \in Sockets, NEW i \in Addresses, NEW p \in Ports, c = open_by_address(s, i, p, 0)
      PROVE  c.replies = 1
  BY <1>7 DEF open_by_address, Command
<1>8. ASSUME NEW s \in Sockets, c \in SocketCommands(s) PROVE c.replies = 1
  BY <1>8 DEF SocketCommands, socket_status, socket_close, socket_available, data_sent, Command
<1>9. ASSUME NEW s \in Sockets, NEW d \in Chunks, c = write_chunk(s, d) PROVE c.replies = 1
  BY <1>9 DEF write_chunk, Command
<1>10. ASSUME NEW s \in Sockets, NEW n \in Sizes, c = socket_read(s, n) PROVE c.replies = 1
  BY <1>10 DEF socket_read, Command
<1> HIDE DEF Done
<1>11. Done
  BY Zenon, <1>1, <1>2, <1>3, <1>4, <1>5, <1>6, <1>7, <1>8, <1>9, <1>10, CommandIs
<1> QED
  BY <1>11 DEF Done

LEMMA CodeIs == ASSUME NEW c \in Commands PROVE c.code \in 0 .. 127
  BY FormedIs DEF Formed

\* What the method of command c is to make of answer g.
Heard(c, g) ==
    IF g.ok /\ (c.decode = "flag" => g.value = 1)
    THEN [raised |-> "none", value |-> g.value]
    ELSE Raised("RuntimeError")

\* What is left of the reply once the method has read it.
Unread(c) == SubSeq(packet, Response(c).at, Len(packet))

LEMMA UnreadIs ==
    ASSUME packet \in Seq(Bytes), NEW c, NEW v, Response(c) = Parsed(Len(packet) + 1, v)
    PROVE  Unread(c) = <<>>
<1>1. PICK n \in Nat : n = Len(packet)
  BY LenProperties
<1>2. Response(c).at = n + 1
  BY <1>1 DEF Parsed
<1>3. Unread(c) = SubSeq(packet, n + 1, n)
  BY <1>1, <1>2 DEF Unread
<1>4. \A i \in n + 1 .. n : i \in 1 .. n
  BY <1>1
<1>5. PICK r : r = SubSeq(packet, n + 1, n)
  OBVIOUS
<1>6. r \in Seq(Bytes)
  BY <1>1, <1>4, <1>5, SubSeqProperties
<1>7. Len(r) = IF n + 1 <= n THEN n - (n + 1) + 1 ELSE 0
  BY <1>1, <1>4, <1>5, SubSeqProperties
<1>8. Len(r) = 0
  BY <1>1, <1>7
<1>9. r = <<>>
  BY <1>6, <1>8, EmptySeq
<1> QED
  BY <1>3, <1>5, <1>9

\* The method returns the one value that the reply tells.
LEMMA OneHeard ==
    ASSUME NEW c \in Commands, NEW g, NEW t, TellsBy(c, g, t), packet = ReplyBytes(c.code, g)
    PROVE  packet \in Seq(Bytes) /\ Outcome(c, Response(c)) = Heard(c, g) /\ Unread(c) = <<>>
<1>1. PICK code : code = c.code
  OBVIOUS
<1>2. code \in 0 .. 127
  BY <1>1, CodeIs
<1>3. packet = Framed(code, Single(t, c.wideReply))
  BY <1>1 DEF TellsBy, ReplyBytes, Framed
<1>4. packet \in Seq(Bytes) /\ Response(c) = Parsed(Len(packet) + 1, <<t>>)
  <2>1. /\ c.replies = 1 /\ c.wideReply \in BOOLEAN
        /\ t \in Seq(Bytes) /\ Len(t) <= Limit(c.wideReply)
    BY DEF TellsBy
  <2> QED
    BY Zenon, <1>1, <1>2, <1>3, <2>1, OneRead
<1>5. PICK p : p = Response(c)
  OBVIOUS
<1>6. p.raised = "none" /\ p.values = <<t>>
  BY <1>4, <1>5 DEF Parsed
<1>7. <<t>>[1] = t
  OBVIOUS
<1>8. c.decode = "flag" => g.value = t[1]
  BY DecodedIs DEF TellsBy
<1>9. g.ok = TRUE /\ g.value = Decoded(c, p.values) /\ (c.decode = "slot" => t[1] # 255)
  BY <1>6 DEF TellsBy
<1>10. p.values[1][1] = t[1]
  BY <1>6, <1>7
<1>11. Outcome(c, p) = Heard(c, g)
  BY <1>6, <1>8, <1>9, <1>10 DEF Outcome, Heard
<1> QED
  BY <1>4, <1>5, <1>11, UnreadIs

LEMMA ThreeHeard ==
    ASSUME NEW c \in Commands, NEW g, NEW a, NEW m, TellsThree(c, g, a, m),
           packet = ReplyBytes(c.code, g)
    PROVE  packet \in Seq(Bytes) /\ Outcome(c, Response(c)) = Heard(c, g) /\ Unread(c) = <<>>
<1>1. PICK code : code = c.code
  OBVIOUS
<1>2. code \in 0 .. 127
  BY <1>1, CodeIs
<1>3. packet = Framed(code, Triple(a, m))
  BY <1>1 DEF TellsThree, ReplyBytes, Framed
<1>4. PICK wide \in BOOLEAN : c.wideReply = wide /\ ~wide
  BY Zenon DEF TellsThree
<1>5. a \in Seq(Bytes) /\ Len(a) = 4 /\ m \in Seq(Bytes) /\ Len(m) = 4 /\ c.replies = 3
  BY DEF TellsThree
<1>6. packet \in Seq(Bytes) /\ Response(c) = Parsed(Len(packet) + 1, <<a, m, a>>)
  BY <1>1, <1>2, <1>3, <1>4, <1>5, ThreeRead
<1>7. PICK p : p = Response(c)
  OBVIOUS
<1>8. p.raised = "none" /\ p.values = <<a, m, a>>
  BY <1>6, <1>7 DEF Parsed
<1>9. c.decode = "list" /\ g.ok = TRUE /\ g.value = <<a, m, a>>
  BY DEF TellsThree
<1>10. Decoded(c, p.values) = p.values
  BY <1>9 DEF Decoded
<1>11. Outcome(c, p) = Heard(c, g)
  BY <1>8, <1>9, <1>10 DEF Outcome, Heard
<1> QED
  BY <1>6, <1>7, <1>11, UnreadIs

\* A refusal is heard as a RuntimeError.
LEMMA RefusalHeard ==
    ASSUME NEW c \in Commands, NEW g \in Refuses(c.code), packet = ReplyBytes(c.code, g)
    PROVE  packet \in Seq(Bytes) /\ Outcome(c, Response(c)).raised = "RuntimeError" /\ g.ok = FALSE
<1>1. packet \in Seq(Bytes) /\ Response(c).raised = "RuntimeError" /\ g.ok = FALSE
  <2>1. CASE c.code = 45
    <3>1. g = NoParams
      BY <2>1 DEF Refuses
    <3>2. PICK b : b = <<0>>
      OBVIOUS
    <3>3. b \in Seq(Bytes) /\ Len(b) = 1 /\ b[1] = 0 /\ b # <<>>
      <4>1. PICK z \in Bytes : z = 0
        BY ByteIs
      <4>2. b = <<z>>
        BY <3>2, <4>1
      <4> QED
        BY <4>1, <4>2
    <3>4. g.ok = FALSE /\ g.body = b
      BY <3>1, <3>2 DEF NoParams
    <3>5. packet = Framed(45, b)
      BY <2>1, <3>3, <3>4 DEF ReplyBytes, Framed
    <3>6. 45 \in 0 .. 127 /\ c.replies = 1
      BY <2>1, RepliesIs
    <3>7. packet \in Seq(Bytes) /\ Response(c).raised = "RuntimeError"
      BY <2>1, <3>3, <3>5, <3>6, NoParamsRead DEF NoParameter
    <3> QED
      BY <3>4, <3>7
  <2>2. CASE c.code # 45
    <3>1. g = Refused
      BY <2>2 DEF Refuses
    <3>2. g.ok = FALSE /\ g.body = <<>>
      BY <3>1 DEF Refused
    <3>3. packet = <<ERR, 0, END>>
      BY <3>2 DEF ReplyBytes
    <3> QED
      BY <3>2, <3>3, RepliesIs, RefusalRead
  <2> QED
    BY <2>1, <2>2
<1>2. PICK p : p = Response(c)
  OBVIOUS
<1>3. Outcome(c, p) = Raised("RuntimeError")
  BY <1>1, <1>2 DEF Outcome
<1> QED
  BY <1>1, <1>2, <1>3 DEF Raised

-----------------------------------------------------------------------------
(* The invariant *)

\* The buffers hold bytes; a command on its way stands at the front of its packet; a
\* handler took what was meant, and its reply is one of those it has for the command.
Exchange ==
    /\ phase = "sent" => packet \in Seq(Bytes) /\ Lies(packet, 0, Body(command))
    /\ phase = "replied" =>
         /\ Short(command)
         /\ took = command.meant /\ packet = ReplyBytes(command.code, gave)
         /\ gave \in Answers(command.code, command.meant) \/ gave \in Refuses(command.code)

ExchangeInv ==
    /\ sendbuf \in Seq(Bytes)
    /\ rxBuffer \in Seq(Bytes) /\ Len(rxBuffer) = RxSize
    /\ phase \in {"fresh", "sent", "replied", "done"}
    /\ command \in Commands
    /\ Exchange
    /\ OutcomeIsAnswer

LEMMA ZeroBuffer == ASSUME NEW n \in Nat, NEW b, b = [i \in 1 .. n |-> 0] PROVE b \in Seq(Bytes) /\ Len(b) = n
<1>1. PICK z \in Bytes : z = 0
  BY ByteIs
<1>2. b \in [1 .. n -> Bytes] /\ DOMAIN b = 1 .. n
  BY <1>1
<1> QED
  BY <1>2, LenProperties

LEMMA Begun == ASSUME DriverInit PROVE ExchangeInv
<1>1. sendbuf \in Seq(Bytes) /\ rxBuffer \in Seq(Bytes) /\ Len(rxBuffer) = RxSize
  BY SizesAssumption, ZeroBuffer DEF DriverInit
<1>2. phase = "fresh" /\ command \in Commands
  BY DEF DriverInit, Commands, Queries
<1>3. Exchange /\ OutcomeIsAnswer
  BY <1>2 DEF Exchange, OutcomeIsAnswer
<1> QED
  BY <1>1, <1>2, <1>3 DEF ExchangeInv

LEMMA Sent == ASSUME ExchangeInv, Send PROVE ExchangeInv'
<1>1. PICK c \in Commands : command' = c /\ _send_command(c)
  BY DEF Send
<1>2. sendbuf \in Seq(Bytes) /\ rxBuffer \in Seq(Bytes) /\ Len(rxBuffer) = RxSize
  BY DEF ExchangeInv
<1>3. sendbuf' \in Seq(Bytes) /\ packet' \in Seq(Bytes) /\ Lies(packet', 0, Body(c))
  BY <1>1, <1>2, FormedIs, SendIs
<1>4. phase' = "sent" /\ rxBuffer' = rxBuffer
  BY DEF Send
<1>5. Lies(packet', 0, Body(command'))
  BY <1>1, <1>3
<1>6. Exchange'
  BY <1>3, <1>4, <1>5 DEF Exchange
<1>7. OutcomeIsAnswer'
  BY <1>4 DEF OutcomeIsAnswer
<1> QED
  BY <1>1, <1>2, <1>3, <1>4, <1>6, <1>7 DEF ExchangeInv

LEMMA Handled == ASSUME PageBuffer, ExchangeInv, Handle PROVE ExchangeInv'
<1>1. /\ phase = "sent" /\ phase' = "replied" /\ Len(packet) <= RxSize
      /\ rxBuffer' = Overlaid(rxBuffer, packet) /\ sendbuf' = sendbuf /\ command' = command
  BY DEF Handle
<1>2. /\ sendbuf \in Seq(Bytes) /\ rxBuffer \in Seq(Bytes) /\ Len(rxBuffer) = RxSize
      /\ command \in Commands /\ packet \in Seq(Bytes) /\ Lies(packet, 0, Body(command))
  BY <1>1 DEF ExchangeInv, Exchange
<1>3. PICK q : q = rxBuffer'
  OBVIOUS
<1>4. q \in Seq(Bytes) /\ Len(q) = RxSize /\ Lies(q, 0, packet)
  BY <1>1, <1>2, <1>3, OverlaidIs
<1>5. Lies(q, 0, Body(command))
  <2>1. Len(q) \in Nat /\ Len(packet) \in Nat /\ Len(Body(command)) \in Nat
    <3>1. Body(command) \in Seq(Bytes)
      BY <1>2, FormedIs, BodyIs
    <3> QED
      BY <1>2, <1>4, <3>1, LenProperties
  <2> QED
    BY <1>2, <1>4, <2>1, LiesFirst
<1>6. Short(command)
  <2>1. PICK b, l, n : b = Body(command) /\ l = Len(b) /\ n = Len(packet)
    OBVIOUS
  <2>2. b \in Seq(Bytes) /\ l \in Nat /\ n \in Nat
    BY <1>2, <2>1, FormedIs, BodyIs, LenProperties
  <2>3. 0 + l <= n /\ n <= RxSize
    BY <1>1, <1>2, <2>1 DEF Lies
  <2>4. l <= 256
    BY <2>2, <2>3, SizesAssumption DEF PageBuffer
  <2> QED
    BY <1>2, <2>1, <2>4, FormedIs, ShortIs
<1>7. At(1) = command.code /\ Arguments(command.code) = command.meant
  BY <1>2, <1>3, <1>4, <1>5, <1>6, MeantIsTaken
<1>8. /\ took' = Arguments(At(1)) /\ packet' = ReplyBytes(At(1), gave')
      /\ gave' \in Answers(At(1), took') \/ gave' \in Refuses(At(1))
  BY DEF Handle
<1>9. took' = command.meant /\ packet' = ReplyBytes(command.code, gave')
  BY Zenon, <1>7, <1>8
<1>10. gave' \in Answers(command.code, command.meant) \/ gave' \in Refuses(command.code)
  BY Zenon, <1>7, <1>8, <1>9
<1>11. Exchange'
  BY <1>1, <1>6, <1>9, <1>10 DEF Exchange
<1>12. OutcomeIsAnswer'
  BY <1>1 DEF OutcomeIsAnswer
<1> QED
  BY <1>1, <1>2, <1>3, <1>4, <1>11, <1>12 DEF ExchangeInv

LEMMA Received == ASSUME ExchangeInv, Receive PROVE ExchangeInv'
<1>1. /\ phase = "replied" /\ phase' = "done" /\ sendbuf' = sendbuf /\ rxBuffer' = rxBuffer
      /\ command' = command /\ gave' = gave
  BY DEF Receive
<1>2. outcome' = Outcome(command, Response(command)) /\ packet' = Unread(command)
  BY DEF Receive, Unread
<1>3. /\ sendbuf \in Seq(Bytes) /\ rxBuffer \in Seq(Bytes) /\ Len(rxBuffer) = RxSize /\ command \in Commands
      /\ packet = ReplyBytes(command.code, gave) /\ Short(command)
      /\ gave \in Answers(command.code, command.meant) \/ gave \in Refuses(command.code)
  BY <1>1 DEF ExchangeInv, Exchange
<1>4. PICK c, g, o : c = command /\ g = gave /\ o = Outcome(c, Response(c))
  OBVIOUS
<1>5. c \in Commands /\ Short(c)
  BY <1>3, <1>4
<1>6. IF g.ok /\ (c.decode = "flag" => g.value = 1)
      THEN o.raised = "none" /\ o.value = g.value /\ Unread(c) = <<>>
      ELSE o.raised = "RuntimeError"
  <2>1. CASE g \in Answers(c.code, c.meant)
    <3>1. (\E t : TellsBy(c, g, t)) \/ (\E a, m : TellsThree(c, g, a, m))
      BY <1>5, <2>1, AnswersTold DEF Tells
    <3>2. o = Heard(c, g) /\ Unread(c) = <<>>
      <4>1. packet = ReplyBytes(c.code, g)
        BY <1>3, <1>4
      <4>2. ASSUME NEW t, TellsBy(c, g, t) PROVE Outcome(c, Response(c)) = Heard(c, g) /\ Unread(c) = <<>>
        BY <1>5, <4>1, <4>2, OneHeard
      <4>3. ASSUME NEW a, NEW m, TellsThree(c, g, a, m)
            PROVE  Outcome(c, Response(c)) = Heard(c, g) /\ Unread(c) = <<>>
        BY <1>5, <4>1, <4>3, ThreeHeard
      <4> QED
        BY Zenon, <1>4, <3>1, <4>2, <4>3
    <3> QED
      BY <3>2 DEF Heard, Raised
  <2>2. CASE g \in Refuses(c.code)
    <3>1. o.raised = "RuntimeError" /\ g.ok = FALSE
      BY <1>3, <1>4, <1>5, <2>2, RefusalHeard
    <3> QED
      BY <3>1
  <2> QED
    BY <1>3, <1>4, <2>1, <2>2
<1>7. outcome' = o /\ packet' = Unread(c) /\ gave' = g /\ command' = c
  BY <1>1, <1>2, <1>4
<1>8. OutcomeIsAnswer'
  BY <1>6, <1>7 DEF OutcomeIsAnswer
<1>9. Exchange'
  BY <1>1 DEF Exchange
<1> QED
  BY <1>1, <1>3, <1>8, <1>9 DEF ExchangeInv

LEMMA Idle == ASSUME ExchangeInv, UNCHANGED driverVars PROVE ExchangeInv'
  BY DEF ExchangeInv, Exchange, OutcomeIsAnswer, driverVars

\* The strengthening that the two properties rest on.
THEOREM ExchangesKept == ASSUME PageBuffer PROVE DriverSpec => []ExchangeInv
<1>1. DriverInit => ExchangeInv
  BY Begun
<1>2. ExchangeInv /\ [DriverNext]_driverVars => ExchangeInv'
  <2>1. ExchangeInv /\ DriverNext => ExchangeInv'
    BY Sent, Handled, Received DEF DriverNext
  <2> QED
    BY Zenon, <2>1, Idle
<1> QED
  BY <1>1, <1>2, PTL DEF DriverSpec

\* Whatever strings the driver's methods are called with, a handler takes from rx_buffer
\* exactly the arguments of the command whose packet it was given.
THEOREM MeaningKept == ASSUME PageBuffer PROVE DriverSpec => []HandlerTakesWhatWasMeant
<1>1. ExchangeInv => HandlerTakesWhatWasMeant
  BY DEF ExchangeInv, Exchange, HandlerTakesWhatWasMeant
<1> QED
  BY <1>1, ExchangesKept, PTL

\* Every method that returns, returns what the handler answered and has read the whole
\* reply, or raises a RuntimeError where the handler refused.
THEOREM AnswersKept == ASSUME PageBuffer PROVE DriverSpec => []OutcomeIsAnswer
<1>1. ExchangeInv => OutcomeIsAnswer
  BY DEF ExchangeInv
<1> QED
  BY <1>1, ExchangesKept, PTL

=============================================================================
