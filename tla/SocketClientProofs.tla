-------------------------- MODULE SocketClientProofs --------------------------
(***************************************************************************)
(* Proofs about SocketClient, for any number of objects, slots and         *)
(* netconns, any sizes and any line ends.                                  *)
(*                                                                         *)
(* A method's step is one call of the table on the slot of the object, and *)
(* a new place in the method.  That no read waits rests on the place: at   *)
(* "read" the bytes just announced are still promised (ReadInv).  That     *)
(* slots and objects match, and that no byte is lost, rests on the objects *)
(* holding slots of their own (HolderInv): then a step changes one slot    *)
(* and what one object has got of it, and everything else stays.  The last *)
(* two are for a program that lets go of closed objects.                   *)
(***************************************************************************)
EXTENDS SocketClient, SequenceTheorems, TLAPS

TP == INSTANCE SocketTableProofs

Ops == {"none", "new", "connect", "close", "send", "recv", "recvall", "readline", "connected"}
Places == {"none", "start", "poll", "again", "close", "avail", "read", "flush", "state"}
Calls == [op : Ops, h : Objects \cup {NULL}, at : Places, left : Int, avail : Nat,
          got : Seq(Nat)]

ClientTyped ==
    /\ obj \in [Objects -> ObjInfo \cup {NULL}]
    /\ returned \in [Objects -> Seq(Nat)]
    /\ call \in Calls

\* The object a method runs on is held, and stays held until the method's end.
PlaceInv ==
    /\ call.op = "none" => call = NoCall
    /\ call.op = "new" => call.at = "start" /\ call.h \in Objects \ Held
    /\ call.op \notin {"none", "new"} => call.h \in Held
    /\ call.at = "close" => call.op \in {"close", "readline", "connected"}
    /\ call.op = "recv" => call.left \in Nat

\* Between available() and the read the announcement stands.
ReadInv ==
    call.at = "read" =>
        /\ call.op \in {"recv", "recvall", "readline"}
        /\ promised[Slot(call.h)] = call.avail
        /\ call.avail > 0
        /\ call.op = "recv" => ToGet > 0

Used(psi) == psi.type = "TCP" /\ psi.state = Table!ESTABLISHED /\ psi.pnc # NULL

\* What recv drops when the firmware stops answering was of no connection: an
\* established one is never asked in vain.
LostInv ==
    fw # "up" /\ call.op = "recv" /\ call.got # <<>> => ~Used(sockets[Slot(call.h)])

Client == ClientTyped /\ PlaceInv

IInv == TP!IInv /\ fw # "blocked" /\ Client /\ ReadInv /\ LostInv

\* What object o has got of its connection, when c is the running method and r
\* what it has returned.
GotOf(o, r, c, h) == r \o o.buffer \o (IF c.op = "recv" /\ c.h = h THEN c.got ELSE <<>>)
Got(h) == GotOf(obj[h], returned[h], call, h)
GotNext(h) == GotOf(obj'[h], returned'[h], call', h)

Polling(c) == c.op = "connect" /\ c.at \in {"poll", "again"}

\* A step that neither connects nor closes nor reads: the objects keep their slots
\* and what they have got, but for what is dropped of no connection or of one that
\* connect is still polling.
Follows(h) ==
    \/ GotNext(h) = Got(h)
    \/ /\ Got(h) = <<>> => GotNext(h) = <<>>
       /\ ~Used(sockets[Slot(h)]) \/ (Polling(call) /\ call.h = h)

SameSlotsHeld == Held' = Held /\ \A h \in Held : obj'[h].socknum = Slot(h)

StillThere ==
    /\ SameSlotsHeld
    /\ Polling(call') => Polling(call) /\ call'.h = call.h
    /\ ~KeepsClosed => \A h \in Held : Follows(h)

Quiet ==
    /\ TP!SameUse /\ delivered' = delivered
    /\ fw' = "up" => fw = "up"
    /\ StillThere

-----------------------------------------------------------------------------
(* The table's steps are those SocketTableProofs speaks of *)

LEMMA TableAssumed ==
    /\ MaxSockets \in Nat \ {0}
    /\ Modes \subseteq {"TCP"} \cup TP!Unsupported
    /\ ReadSizes \subseteq Nat
    /\ MaxRx \in Nat
    /\ NULL \notin Netconns /\ NULL \notin [first: Nat, len: Nat]
BY TableAssumption DEF Table!MaxSocketsAssumption, Table!ModesAssumption,
       Table!ReadSizesAssumption, Table!MaxRxAssumption, Table!NULLAssumption,
       Table!Unsupported, TP!Unsupported

LEMMA SameInit == ASSUME Table!Init PROVE TP!Init
BY DEF Table!Init, TP!Init, Table!Sockets, TP!Sockets, Table!EmptySlot, TP!EmptySlot,
       Table!FreeConn, TP!FreeConn, Table!NoResult, TP!NoResult, Table!Result, TP!Result,
       Table!CLOSED, TP!CLOSED

LEMMA SameReset == ASSUME Table!ResetSockets PROVE TP!ResetSockets
BY DEF Table!ResetSockets, TP!ResetSockets, Table!Sockets, TP!Sockets, Table!Teardown,
       TP!Teardown, Table!Delete, TP!Delete, Table!Deleted, TP!Deleted, Table!Closes,
       TP!Closes, Table!Unsupported, TP!Unsupported, Table!CLOSED, TP!CLOSED,
       Table!FreeConn, TP!FreeConn

LEMMA SameReboot == ASSUME Table!Reboot PROVE TP!Reboot
BY DEF Table!Reboot, TP!Reboot, Table!Sockets, TP!Sockets, Table!EmptySlot, TP!EmptySlot,
       Table!FreeConn, TP!FreeConn, Table!NoResult, TP!NoResult, Table!Result, TP!Result,
       Table!CLOSED, TP!CLOSED

LEMMA SameUndefined == ASSUME Table!Undefined PROVE TP!Undefined
BY DEF Table!Undefined, TP!Undefined, Table!NoResult, TP!NoResult, Table!Result, TP!Result

LEMMA SameGetSocket == ASSUME Table!GetSocket PROVE TP!GetSocket
BY DEF Table!GetSocket, TP!GetSocket, Table!Unallocated, TP!Unallocated, Table!Sockets,
       TP!Sockets, Table!Return, TP!Return, Table!Result, TP!Result

LEMMA SameConnect ==
    ASSUME NEW s, NEW mode, Table!SocketConnect(s, mode)
    PROVE  TP!SocketConnect(s, mode)
BY DEF Table!SocketConnect, TP!SocketConnect, Table!ConnectRejected, TP!ConnectRejected,
       Table!ConnectUnsupported, TP!ConnectUnsupported, Table!TcpConnect, TP!TcpConnect,
       Table!Connecting, TP!Connecting, Table!OpenConn, TP!OpenConn, Table!FailedConn,
       TP!FailedConn, Table!FreeConn, TP!FreeConn, Table!CLOSED, TP!CLOSED,
       Table!ESTABLISHED, TP!ESTABLISHED, Table!Return, TP!Return, Table!Result, TP!Result

LEMMA SameStop == ASSUME NEW s, Table!StopSocket(s) PROVE TP!StopSocket(s)
BY DEF Table!StopSocket, TP!StopSocket, Table!Teardown, TP!Teardown, Table!Delete,
       TP!Delete, Table!Deleted, TP!Deleted, Table!Closes, TP!Closes, Table!Unsupported,
       TP!Unsupported, Table!CLOSED, TP!CLOSED, Table!FreeConn, TP!FreeConn,
       Table!Result, TP!Result

LEMMA SameState == ASSUME NEW s, Table!GetSocketState(s) PROVE TP!GetSocketState(s)
BY DEF Table!GetSocketState, TP!GetSocketState, Table!Return, TP!Return, Table!Result,
       TP!Result

LEMMA SameAnnounce == ASSUME NEW s, NEW psi, Table!Announce(s, psi) PROVE TP!Announce(s, psi)
BY DEF Table!Announce, TP!Announce, Table!Available, TP!Available, Table!Result, TP!Result

LEMMA SameAvail == ASSUME NEW s, Table!AvailData(s) PROVE TP!AvailData(s)
<1>1. ASSUME Table!AvailTcp(s) PROVE TP!AvailTcp(s)
  BY <1>1, SameAnnounce, SameUndefined
     DEF Table!AvailTcp, TP!AvailTcp, Table!WithNetbuf, TP!WithNetbuf, Table!Netbuf,
         TP!Netbuf, Table!Recv, TP!Recv, Table!HasData, TP!HasData, Table!Result, TP!Result
<1> QED
  BY <1>1 DEF Table!AvailData, TP!AvailData, Table!Return, TP!Return, Table!Result, TP!Result

LEMMA SameRecvAndCopy ==
    ASSUME NEW s, NEW want, Table!RecvAndCopy(s, want)
    PROVE  TP!RecvAndCopy(s, want)
BY DEF Table!RecvAndCopy, TP!RecvAndCopy, Table!HasData, TP!HasData, Table!RecvFails,
       TP!RecvFails, Table!Recv, TP!Recv, Table!WithNetbuf, TP!WithNetbuf, Table!Netbuf,
       TP!Netbuf, Table!Copy, TP!Copy, Table!ToCopy, TP!ToCopy, Table!AfterCopy,
       TP!AfterCopy, Table!Bytes, TP!Bytes, Table!Result, TP!Result

LEMMA SameRead == ASSUME NEW s, NEW want, Table!ReadData(s, want) PROVE TP!ReadData(s, want)
BY SameRecvAndCopy
   DEF Table!ReadData, TP!ReadData, Table!ReadTcp, TP!ReadTcp, Table!HasData, TP!HasData,
       Table!RecvFails, TP!RecvFails, Table!Copy, TP!Copy, Table!ToCopy, TP!ToCopy,
       Table!AfterCopy, TP!AfterCopy, Table!Bytes, TP!Bytes, Table!Undefined,
       TP!Undefined, Table!NoResult, TP!NoResult, Table!Return, TP!Return, Table!Result,
       TP!Result

LEMMA SameSend == ASSUME NEW s, Table!SendData(s) PROVE TP!SendData(s)
BY DEF Table!SendData, TP!SendData, Table!SendTcp, TP!SendTcp, Table!HasPcb, TP!HasPcb,
       Table!Note, TP!Note, Table!Undefined, TP!Undefined, Table!NoResult, TP!NoResult,
       Table!Return, TP!Return, Table!Result, TP!Result

LEMMA SameFlush == ASSUME NEW s, Table!WriteFlush(s) PROVE TP!WriteFlush(s)
BY DEF Table!WriteFlush, TP!WriteFlush, Table!HasPcb, TP!HasPcb, Table!Note, TP!Note,
       Table!Undefined, TP!Undefined, Table!NoResult, TP!NoResult, Table!Return,
       TP!Return, Table!Result, TP!Result

LEMMA SamePeer == ASSUME NEW n, Table!Peer(n) PROVE TP!Peer(n)
BY DEF Table!Peer, TP!Peer, Table!PeerSend, TP!PeerSend, Table!PeerClose, TP!PeerClose,
       Table!PeerReset, TP!PeerReset

LEMMA SameSlots == ObjInfo = [socknum : TP!Sockets, buffer : Seq(Nat)] /\ NULL \notin ObjInfo
                   /\ Table!Sockets = TP!Sockets
BY ObjectsAssumption DEF ObjInfo, Table!Sockets, TP!Sockets

-----------------------------------------------------------------------------
(* What a step does to the objects and the method *)

LEMMA NoCallTyped ==
    /\ NoCall \in Calls /\ NoCall.op = "none" /\ NoCall.at = "none" /\ NoCall.got = <<>>
BY DEF NoCall, Calls, Ops, Places

LEMMA HeldTyped ==
    ASSUME ClientTyped, NEW h \in Held
    PROVE  /\ h \in Objects /\ obj[h] \in ObjInfo /\ obj[h] # NULL
           /\ Slot(h) \in TP!Sockets /\ Buffer(h) \in Seq(Nat) /\ returned[h] \in Seq(Nat)
<1>1. h \in Objects /\ obj[h] \in ObjInfo /\ obj[h] # NULL
  BY DEF Held, ClientTyped
<1> QED
  BY <1>1, SameSlots DEF Slot, Buffer, ClientTyped

LEMMA CallerHeld ==
    ASSUME Client, call.op \notin {"none", "new"}
    PROVE  call.h \in Held /\ call.h \in Objects /\ Slot(call.h) \in TP!Sockets
BY HeldTyped DEF Client, PlaceInv

LEMMA Ending ==
    ASSUME Client, Ends
    PROVE  Client' /\ ReadInv'
BY NoCallTyped DEF Ends, Client, ClientTyped, PlaceInv, ReadInv, Held

LEMMA Unmoved ==
    ASSUME Client, UNCHANGED clientVars, call.at # "read"
    PROVE  Client' /\ ReadInv'
BY DEF clientVars, Client, ClientTyped, PlaceInv, ReadInv, Held

LEMMA LettingGo ==
    ASSUME Client, call.op \notin {"none", "new"}, LetGo
    PROVE  /\ Client' /\ ReadInv'
           /\ call' = NoCall /\ returned' = returned
           /\ \A h \in Objects \ {call.h} : obj'[h] = obj[h]
           /\ ~KeepsClosed => obj'[call.h] = NULL
<1>1. call' = NoCall /\ returned' = returned
  BY DEF LetGo
<1>2. call.h \in Objects
  BY CallerHeld
<1>3. obj' = obj \/ obj' = [obj EXCEPT ![call.h] = NULL]
  BY DEF LetGo
<1>4. /\ obj' \in [Objects -> ObjInfo \cup {NULL}]
      /\ \A h \in Objects \ {call.h} : obj'[h] = obj[h]
  BY <1>2, <1>3 DEF Client, ClientTyped
<1>5. ~KeepsClosed => obj'[call.h] = NULL
  BY <1>2 DEF LetGo, Client, ClientTyped
<1>6. Client' /\ ReadInv'
  BY <1>1, <1>4, NoCallTyped DEF Client, ClientTyped, PlaceInv, ReadInv
<1> QED
  BY <1>1, <1>4, <1>5, <1>6

LEMMA CallAt ==
    ASSUME NEW c \in Calls, NEW place \in Places
    PROVE  /\ [c EXCEPT !.at = place] \in Calls
           /\ [c EXCEPT !.at = place].op = c.op /\ [c EXCEPT !.at = place].h = c.h
           /\ [c EXCEPT !.at = place].at = place /\ [c EXCEPT !.at = place].left = c.left
           /\ [c EXCEPT !.at = place].avail = c.avail /\ [c EXCEPT !.at = place].got = c.got
BY DEF Calls

LEMMA Going ==
    ASSUME Client, NEW place \in Places \ {"read"}, Goto(place),
           call.op \notin {"none", "new"},
           place = "close" => call.op \in {"close", "readline", "connected"}
    PROVE  /\ Client' /\ ReadInv'
           /\ obj' = obj /\ returned' = returned
           /\ call'.op = call.op /\ call'.h = call.h /\ call'.at = place /\ call'.got = call.got
<1>1. call \in Calls
  BY DEF Client, ClientTyped
<1>2. /\ call' \in Calls /\ call'.op = call.op /\ call'.h = call.h /\ call'.at = place
      /\ call'.left = call.left /\ call'.got = call.got
      /\ obj' = obj /\ returned' = returned
  BY <1>1, CallAt DEF Goto
<1>3. Client'
  BY <1>2 DEF Client, ClientTyped, PlaceInv, Held
<1> QED
  BY <1>2, <1>3 DEF ReadInv

\* To the read, with the announcement of this very step.
LEMMA Reading ==
    ASSUME Client, ToRead, call.op \in {"recv", "recvall", "readline"},
           ret'.val \in Nat \ {0}, promised'[Slot(call.h)] = ret'.val,
           call.op = "recv" => ToGet > 0
    PROVE  /\ Client' /\ ReadInv'
           /\ obj' = obj /\ returned' = returned
           /\ call'.op = call.op /\ call'.h = call.h /\ call'.at = "read" /\ call'.got = call.got
<1>1. call \in Calls /\ call' = [call EXCEPT !.at = "read", !.avail = ret'.val]
  BY DEF Client, ClientTyped, ToRead
<1>2. /\ call' \in Calls /\ call'.op = call.op /\ call'.h = call.h /\ call'.at = "read"
      /\ call'.left = call.left /\ call'.got = call.got /\ call'.avail = ret'.val
  BY <1>1 DEF Calls, Places
<1>3. obj' = obj /\ returned' = returned
  BY DEF ToRead
<1>4. Client'
  BY <1>2, <1>3 DEF Client, ClientTyped, PlaceInv, Held
<1>5. ReadInv'
  BY <1>2, <1>3 DEF ReadInv, Slot, ToGet, Buffer
<1> QED
  BY <1>2, <1>3, <1>4, <1>5

\* A new buffer for the object of the method.
LEMMA Rebuffered ==
    ASSUME Client, call.op \notin {"none", "new"}, NEW rest \in Seq(Nat),
           obj' = [obj EXCEPT ![call.h].buffer = rest]
    PROVE  /\ obj' \in [Objects -> ObjInfo \cup {NULL}]
           /\ obj'[call.h] \in ObjInfo /\ obj'[call.h] # NULL
           /\ obj'[call.h].socknum = Slot(call.h) /\ obj'[call.h].buffer = rest
           /\ \A h \in Objects \ {call.h} : obj'[h] = obj[h]
           /\ Held' = Held
<1>1. call.h \in Objects /\ obj[call.h] \in ObjInfo /\ obj \in [Objects -> ObjInfo \cup {NULL}]
  BY CallerHeld, HeldTyped DEF Client, ClientTyped
<1>2. obj' = [obj EXCEPT ![call.h] = [obj[call.h] EXCEPT !.buffer = rest]]
  BY <1>1
<1>3. /\ [obj[call.h] EXCEPT !.buffer = rest] \in ObjInfo
      /\ [obj[call.h] EXCEPT !.buffer = rest].buffer = rest
      /\ [obj[call.h] EXCEPT !.buffer = rest].socknum = obj[call.h].socknum
  BY <1>1 DEF ObjInfo
<1>4. /\ obj' \in [Objects -> ObjInfo \cup {NULL}]
      /\ obj'[call.h] = [obj[call.h] EXCEPT !.buffer = rest]
      /\ \A h \in Objects \ {call.h} : obj'[h] = obj[h]
  BY <1>1, <1>2, <1>3
<1>5. Held' = Held
  BY <1>1, <1>3, <1>4, CallerHeld, SameSlots DEF Held
<1> QED
  BY <1>3, <1>4, <1>5, SameSlots DEF Slot

LEMMA Returning ==
    ASSUME Client, call.op \notin {"none", "new"}, NEW bytes \in Seq(Nat), NEW rest \in Seq(Nat),
           Returns(bytes, rest)
    PROVE  /\ Client' /\ ReadInv' /\ call' = NoCall /\ Held' = Held
           /\ obj'[call.h].socknum = Slot(call.h) /\ obj'[call.h].buffer = rest
           /\ ~KeepsClosed => returned'[call.h] = returned[call.h] \o bytes
           /\ \A h \in Objects \ {call.h} : obj'[h] = obj[h] /\ returned'[h] = returned[h]
<1>1. call' = NoCall /\ obj' = [obj EXCEPT ![call.h].buffer = rest]
  BY DEF Returns
<1>2. call.h \in Objects /\ returned[call.h] \o bytes \in Seq(Nat)
  BY CallerHeld DEF Client, ClientTyped
<1>3. /\ returned' \in [Objects -> Seq(Nat)]
      /\ ~KeepsClosed => returned'[call.h] = returned[call.h] \o bytes
      /\ \A h \in Objects \ {call.h} : returned'[h] = returned[h]
  BY <1>2 DEF Returns, Client, ClientTyped
<1>4. /\ obj' \in [Objects -> ObjInfo \cup {NULL}]
      /\ obj'[call.h].socknum = Slot(call.h) /\ obj'[call.h].buffer = rest
      /\ \A h \in Objects \ {call.h} : obj'[h] = obj[h]
      /\ Held' = Held
  BY <1>1, Rebuffered
<1>5. Client' /\ ReadInv'
  BY <1>1, <1>3, <1>4, NoCallTyped DEF Client, ClientTyped, PlaceInv, ReadInv
<1> QED
  BY <1>1, <1>3, <1>4, <1>5

-----------------------------------------------------------------------------
(* Sequences *)

LEMMA SplitSeq ==
    ASSUME NEW all \in Seq(Nat), NEW size \in 0 .. Len(all)
    PROVE  /\ SubSeq(all, 1, size) \in Seq(Nat)
           /\ SubSeq(all, size + 1, Len(all)) \in Seq(Nat)
           /\ SubSeq(all, 1, size) \o SubSeq(all, size + 1, Len(all)) = all
<1>1. Len(all) \in Nat /\ \A i \in 1 .. Len(all) : all[i] \in Nat
  BY LenProperties, ElementOfSeq
<1>2. SubSeq(all, 1, size) \o SubSeq(all, size + 1, Len(all)) = SubSeq(all, 1, Len(all))
  <2>1. 1 \in 1 .. Len(all) + 1 /\ size \in 1 - 1 .. Len(all) /\ Len(all) \in size .. Len(all)
    BY <1>1
  <2> QED
    BY <2>1, ConcatAdjacentSubSeq
<1>3. SubSeq(all, 1, Len(all)) = all
  BY SubSeqFull
<1>4. SubSeq(all, 1, size) \in Seq(Nat)
  BY <1>1, SubSeqProperties
<1>5. SubSeq(all, size + 1, Len(all)) \in Seq(Nat)
  BY <1>1, SubSeqProperties
<1> QED
  BY <1>2, <1>3, <1>4, <1>5

LEMMA TailOfConcat ==
    ASSUME NEW a \in Seq(Nat), NEW b \in Seq(Nat), Len(b) > 0
    PROVE  SubSeq(a \o b, Len(a) + 1, Len(a \o b)) = b
<1>1. Len(a) \in Nat /\ Len(b) \in Nat /\ Len(a \o b) = Len(a) + Len(b)
  BY LenProperties, ConcatProperties
<1>2. SubSeq(a \o b, Len(a) + 1, Len(a) + Len(b)) = SubSeq(b, 1, Len(b))
  <2>1. /\ Len(a) + 1 \in Len(a) + 1 .. Len(a) + Len(b)
        /\ Len(a) + Len(b) \in Len(a) + 1 .. Len(a) + Len(b)
        /\ Len(a) + 1 - Len(a) = 1 /\ Len(a) + Len(b) - Len(a) = Len(b)
    BY <1>1
  <2>2. SubSeq(a \o b, Len(a) + 1, Len(a) + Len(b))
            = SubSeq(b, Len(a) + 1 - Len(a), Len(a) + Len(b) - Len(a))
    BY <2>1, SubSeqOfConcat2
  <2> QED
    BY <2>1, <2>2
<1> QED
  BY <1>1, <1>2, SubSeqFull

\* What a read of this step has returned is what the slot has delivered more.
LEMMA PieceIs ==
    ASSUME TP!IInv, NEW s \in TP!Sockets, s = Slot(call.h), TP!Grown(s)
    PROVE  /\ Piece \in Seq(Nat) /\ delivered'[s] = delivered[s] \o Piece
           /\ \A t \in TP!Sockets \ {s} : delivered'[t] = delivered[t]
<1>1. delivered \in [TP!Sockets -> Seq(Nat)]
  BY DEF TP!IInv, TP!TypeOK
<1>2. PICK x \in Nat \ {0}, k \in Nat \ {0} :
        delivered' = [delivered EXCEPT ![s] = @ \o TP!Bytes(x, k)]
  BY DEF TP!Grown
<1>3. TP!Bytes(x, k) \in Seq(Nat) /\ Len(TP!Bytes(x, k)) > 0
  BY DEF TP!Bytes
<1>4. /\ delivered'[s] = delivered[s] \o TP!Bytes(x, k)
      /\ \A t \in TP!Sockets \ {s} : delivered'[t] = delivered[t]
  BY <1>1, <1>2
<1>5. delivered[s] \in Seq(Nat)
  BY <1>1
<1>6. Piece = SubSeq(delivered[s] \o TP!Bytes(x, k), Len(delivered[s]) + 1,
                     Len(delivered[s] \o TP!Bytes(x, k)))
  BY <1>4 DEF Piece
<1>7. Piece = TP!Bytes(x, k)
  <2> DEFINE b == TP!Bytes(x, k)
  <2>1. b \in Seq(Nat) /\ Len(b) > 0 /\ delivered[s] \in Seq(Nat)
    BY <1>3, <1>5
  <2>2. Piece = SubSeq(delivered[s] \o b, Len(delivered[s]) + 1, Len(delivered[s] \o b))
    BY <1>6
  <2> HIDE DEF b
  <2>3. Piece = b
    BY <2>1, <2>2, TailOfConcat
  <2> QED
    BY <2>3 DEF b
<1> QED
  BY <1>3, <1>4, <1>7

-----------------------------------------------------------------------------
(* The table under the client *)

LEMMA AskSeen ==
    ASSUME IInv, NEW s \in TP!Sockets, Table!AvailData(s)
    PROVE  /\ TP!IInv' /\ TP!SameUse /\ delivered' = delivered /\ fw' \in {"up", "undefined"}
           /\ ret'.val \in Nat
           /\ fw' = "undefined" => sockets[s].pnc = NULL
           /\ fw' = "up" => IF ret'.err = "E_SUCCESS"
                            THEN sockets[s].type = "TCP" /\ promised'[s] = ret'.val
                            ELSE sockets[s].type # "TCP"
<1>1. TP!AvailData(s) /\ TP!IInv
  BY SameAvail DEF IInv
<1>2. TP!IInv'
  BY <1>1, TP!AvailDataStep, TableAssumed
<1>3. ret'.val \in Nat
  BY <1>2 DEF TP!IInv, TP!TypeOK
<1> QED
  BY <1>1, <1>2, <1>3, TP!AvailSeen, TableAssumed

LEMMA FetchSeen ==
    ASSUME IInv, NEW s \in TP!Sockets, promised[s] > 0, NEW want \in Nat \ {0},
           Table!ReadData(s, want)
    PROVE  /\ TP!IInv' /\ TP!SameUse /\ fw' = "up" /\ ret'.err = "E_SUCCESS" /\ TP!Grown(s)
<1>1. TP!ReadData(s, want) /\ TP!IInv
  BY SameRead DEF IInv
<1>2. TP!IInv'
  BY <1>1, TP!ReadDataStep, TableAssumed
<1> QED
  BY <1>1, <1>2, TP!ReadSeen, TableAssumed

LEMMA NewSeen ==
    ASSUME IInv, Table!GetSocket
    PROVE  /\ TP!IInv' /\ fw = "up" /\ fw' = "up" /\ delivered' = delivered /\ promised' = promised
           /\ IF ret'.err = "E_SUCCESS"
              THEN /\ ret'.val \in TP!Sockets /\ sockets[ret'.val].type = "UNALLOCATED"
                   /\ sockets'[ret'.val].type = "IDLE"
                   /\ TP!SameUseElsewhere(ret'.val)
              ELSE TP!SameUse
<1>1. TP!GetSocket /\ TP!IInv
  BY SameGetSocket DEF IInv
<1> QED
  BY <1>1, TP!GetSocketStep, TP!GetSocketSeen, TableAssumed

LEMMA OpenSeen ==
    ASSUME IInv, NEW s \in TP!Sockets, Table!SocketConnect(s, "TCP")
    PROVE  /\ TP!IInv' /\ fw = "up" /\ fw' = "up" /\ promised' = promised
           /\ \A t \in TP!Sockets \ {s} : delivered'[t] = delivered[t]
           /\ TP!SameUseElsewhere(s)
           /\ \/ ret'.err # "E_SUCCESS" /\ TP!SameUse /\ delivered' = delivered
              \/ /\ sockets[s].type = "IDLE" /\ sockets'[s].type = "TCP"
                 /\ IF ret'.err = "E_SUCCESS" THEN delivered'[s] = <<>>
                                              ELSE sockets'[s].pnc = NULL
<1>1. TP!SocketConnect(s, "TCP") /\ TP!IInv /\ "TCP" \in {"TCP"} \cup TP!Unsupported
  BY SameConnect DEF IInv
<1>2. TP!IInv'
  BY <1>1, TP!SocketConnectStep, TableAssumed
<1> QED
  BY <1>1, <1>2, TP!ConnectSeen, TableAssumed

LEMMA CloseSeen ==
    ASSUME IInv, NEW s \in TP!Sockets, Table!StopSocket(s)
    PROVE  /\ TP!IInv' /\ fw = "up" /\ fw' = "up" /\ delivered' = delivered
           /\ TP!SameUseElsewhere(s)
           /\ sockets[s].type \notin TP!Unsupported => sockets'[s].type = "UNALLOCATED"
<1>1. TP!StopSocket(s) /\ TP!IInv
  BY SameStop DEF IInv
<1> QED
  BY <1>1, TP!StopSocketStep, TP!StopSeen, TableAssumed

LEMMA WriteSeen ==
    ASSUME IInv, NEW s \in TP!Sockets, Table!SendData(s) \/ Table!WriteFlush(s)
    PROVE  /\ TP!IInv' /\ TP!SameUse /\ delivered' = delivered /\ promised' = promised
           /\ fw' \in {"up", "undefined"}
<1>1. (TP!SendData(s) \/ TP!WriteFlush(s)) /\ TP!IInv
  BY SameSend, SameFlush DEF IInv
<1>2. TP!IInv'
  BY <1>1, TP!SendDataStep, TP!WriteFlushStep, TableAssumed
<1> QED
  BY <1>1, <1>2, TP!SendSeen, TableAssumed

LEMMA StateSeen ==
    ASSUME IInv, NEW s \in TP!Sockets, Table!GetSocketState(s)
    PROVE  TP!IInv' /\ fw = "up" /\ UNCHANGED <<sockets, conn, fw, wait, delivered, promised>>
<1>1. TP!GetSocketState(s) /\ TP!IInv
  BY SameState DEF IInv
<1>2. TP!IInv'
  BY <1>1, TP!GetSocketStateStep, TableAssumed
<1> QED
  BY <1>1, <1>2 DEF TP!GetSocketState, TP!Return

LEMMA AllGoneSeen ==
    ASSUME IInv, Table!WifiReset \/ Table!Reboot
    PROVE  /\ TP!IInv' /\ fw' = "up"
           /\ \A s \in TP!Sockets :
                  sockets[s].type \notin TP!Unsupported => sockets'[s].type = "UNALLOCATED"
<1>1. TP!IInv
  BY DEF IInv
<1>2. CASE Table!WifiReset
  <2>1. TP!ResetSockets /\ TP!WifiReset
    BY <1>2, SameReset DEF Table!WifiReset, TP!WifiReset, Table!NoResult, TP!NoResult,
       Table!Result, TP!Result
  <2> QED
    BY <1>1, <2>1, TP!WifiResetStep, TP!ResetSeen, TableAssumed
<1>3. CASE Table!Reboot
  BY <1>1, <1>3, SameReboot, TP!RebootStep, TP!ResetSeen, TableAssumed
<1> QED
  BY <1>2, <1>3

LEMMA PeersSeen ==
    ASSUME IInv, NEW n \in Netconns, Table!Peer(n)
    PROVE  TP!IInv' /\ UNCHANGED <<sockets, fw, delivered, promised>>
<1>1. TP!Peer(n) /\ TP!IInv
  BY SamePeer DEF IInv
<1> QED
  BY <1>1, TP!PeerStep, TP!PeerSeen, TableAssumed

LEMMA TableStays ==
    ASSUME IInv, UNCHANGED tableVars
    PROVE  /\ TP!IInv' /\ fw' = fw
           /\ UNCHANGED <<sockets, conn, fw, wait, delivered, promised>>
<1>1. UNCHANGED TP!vars /\ TP!IInv /\ UNCHANGED <<sockets, conn, fw, wait, delivered, promised>>
  BY DEF tableVars, TP!vars, IInv
<1> QED
  BY <1>1, TP!NextIInv, TableAssumed

-----------------------------------------------------------------------------
(* What the objects have got, method by method *)

LEMMA GotTyped ==
    ASSUME Client, NEW h \in Held
    PROVE  /\ Got(h) \in Seq(Nat)
           /\ call.op = "recv" /\ call.h = h => Got(h) = returned[h] \o Buffer(h) \o call.got
           /\ ~(call.op = "recv" /\ call.h = h) => Got(h) = returned[h] \o Buffer(h)
<1>1. returned[h] \in Seq(Nat) /\ Buffer(h) \in Seq(Nat) /\ call.got \in Seq(Nat)
  BY HeldTyped DEF Client, ClientTyped, Calls
<1>2. returned[h] \o Buffer(h) \in Seq(Nat)
  BY <1>1, ConcatProperties
<1>3. (returned[h] \o Buffer(h)) \o <<>> = returned[h] \o Buffer(h)
  BY <1>2, ConcatEmptySeq
<1>4. (returned[h] \o Buffer(h)) \o call.got \in Seq(Nat)
  BY <1>1, <1>2, ConcatProperties
<1> QED
  BY <1>2, <1>3, <1>4 DEF Got, GotOf, Buffer

LEMMA NothingAdded ==
    ASSUME NEW a \in Seq(Nat)
    PROVE  a \o <<>> = a
BY ConcatEmptySeq

LEMMA Regrouped ==
    ASSUME NEW a \in Seq(Nat), NEW b \in Seq(Nat), NEW c \in Seq(Nat)
    PROVE  (a \o b) \o c = a \o (b \o c)
BY ConcatAssociative

LEMMA Joined ==
    ASSUME NEW a \in Seq(Nat), NEW b \in Seq(Nat)
    PROVE  a \o b \in Seq(Nat)
BY ConcatProperties

LEMMA NothingGot ==
    ASSUME NEW a \in Seq(Nat), NEW b \in Seq(Nat)
    PROVE  a \o b = <<>> <=> a = <<>> /\ b = <<>>
<1>1. Len(a \o b) = Len(a) + Len(b) /\ a \o b \in Seq(Nat) /\ Len(a) \in Nat /\ Len(b) \in Nat
  BY ConcatProperties, LenProperties
<1>2. \A q \in Seq(Nat) : q = <<>> <=> Len(q) = 0
  BY EmptySeq
<1> QED
  BY <1>1, <1>2

LEMMA GoingThere ==
    ASSUME Client, obj' = obj, returned' = returned,
           call'.op = call.op, call'.h = call.h, call'.got = call.got,
           Polling(call') => Polling(call)
    PROVE  StillThere
BY DEF StillThere, SameSlotsHeld, Held, Slot, Follows, Got, GotNext, GotOf

LEMMA UnmovedThere ==
    ASSUME Client, UNCHANGED clientVars
    PROVE  StillThere
BY GoingThere DEF clientVars

\* The end of a method drops what recv has received.
LEMMA EndsThere ==
    ASSUME Client, Ends,
           \/ call.op # "recv" \/ call.got = <<>>
           \/ ~Used(sockets[Slot(call.h)])
    PROVE  StillThere
<1>1. SameSlotsHeld /\ ~Polling(call')
  BY NoCallTyped DEF Ends, SameSlotsHeld, Held, Slot, Polling
<1>2. ASSUME NEW h \in Held
      PROVE  Follows(h)
  <2>1. returned[h] \in Seq(Nat) /\ Buffer(h) \in Seq(Nat) /\ call.got \in Seq(Nat)
    BY HeldTyped DEF Client, ClientTyped, Calls
  <2>2. GotNext(h) = (returned[h] \o Buffer(h)) \o <<>>
    BY NoCallTyped DEF Ends, GotNext, GotOf, Buffer
  <2>3. returned[h] \o Buffer(h) \in Seq(Nat)
    BY <2>1, ConcatProperties
  <2>4. GotNext(h) = returned[h] \o Buffer(h)
    BY <2>2, <2>3, ConcatEmptySeq
  <2>5. CASE ~(call.op = "recv" /\ call.h = h)
    BY <2>4, <2>5, GotTyped DEF Follows
  <2>6. CASE call.op = "recv" /\ call.h = h
    <3>1. Got(h) = (returned[h] \o Buffer(h)) \o call.got
      BY <2>6, GotTyped
    <3>2. CASE call.got = <<>>
      BY <2>2, <3>1, <3>2 DEF Follows
    <3>3. CASE call.got # <<>>
      <4>1. ~Used(sockets[Slot(h)])
        BY <2>6, <3>3
      <4>2. Got(h) = <<>> => GotNext(h) = <<>>
        BY <2>1, <2>3, <2>4, <3>1, NothingGot
      <4> QED
        BY <4>1, <4>2 DEF Follows
    <3> QED
      BY <3>2, <3>3
  <2> QED
    BY <2>5, <2>6
<1> QED
  BY <1>1, <1>2 DEF StillThere

\* What a method returns and keeps is what was buffered and received.
LEMMA ReturningThere ==
    ASSUME Client, call.op \notin {"none", "new"}, NEW bytes \in Seq(Nat), NEW rest \in Seq(Nat),
           Returns(bytes, rest),
           call.op = "recv" => bytes \o rest = Buffer(call.h) \o call.got,
           call.op # "recv" => bytes \o rest = Buffer(call.h)
    PROVE  StillThere
<1>1. /\ call' = NoCall /\ Held' = Held
      /\ obj'[call.h].socknum = Slot(call.h) /\ obj'[call.h].buffer = rest
      /\ ~KeepsClosed => returned'[call.h] = returned[call.h] \o bytes
      /\ \A h \in Objects \ {call.h} : obj'[h] = obj[h] /\ returned'[h] = returned[h]
  BY Returning
<1>2. SameSlotsHeld
  BY <1>1 DEF SameSlotsHeld, Held, Slot
<1>3. ~Polling(call')
  BY <1>1, NoCallTyped DEF Polling
<1>4. ASSUME ~KeepsClosed, NEW h \in Held
      PROVE  GotNext(h) = Got(h)
  <2>1. /\ returned[h] \in Seq(Nat) /\ Buffer(h) \in Seq(Nat) /\ call.got \in Seq(Nat)
        /\ h \in Objects
    BY HeldTyped DEF Client, ClientTyped, Calls
  <2>2. CASE h # call.h
    <3>1. GotNext(h) = (returned[h] \o Buffer(h)) \o <<>>
      BY <1>1, <2>1, <2>2, NoCallTyped DEF GotNext, GotOf, Buffer
    <3>2. Got(h) = (returned[h] \o Buffer(h)) \o <<>>
      BY <2>2 DEF Got, GotOf, Buffer
    <3> QED
      BY <3>1, <3>2
  <2>3. CASE h = call.h
    <3>1. GotNext(h) = ((returned[h] \o bytes) \o rest) \o <<>>
      BY <1>1, <1>4, <2>3, NoCallTyped DEF GotNext, GotOf
    <3>2. (returned[h] \o bytes) \o rest \in Seq(Nat)
      BY <2>1, Joined
    <3>3. ((returned[h] \o bytes) \o rest) \o <<>> = returned[h] \o (bytes \o rest)
      BY <2>1, <3>2, Regrouped, NothingAdded
    <3>5. CASE call.op = "recv"
      <4>1. Got(h) = (returned[h] \o Buffer(h)) \o call.got
        BY <2>3, <3>5, GotTyped
      <4>2. (returned[h] \o Buffer(h)) \o call.got = returned[h] \o (Buffer(h) \o call.got)
        BY <2>1, Regrouped
      <4> QED
        BY <2>3, <3>1, <3>3, <3>5, <4>1, <4>2
    <3>6. CASE call.op # "recv"
      BY <2>3, <3>1, <3>3, <3>6, GotTyped
    <3> QED
      BY <3>5, <3>6
  <2> QED
    BY <2>2, <2>3
<1> QED
  BY <1>2, <1>3, <1>4 DEF StillThere, Follows

\* The table keeps what LostInv says of a slot.
LEMMA StaysLost ==
    ASSUME IInv, TP!SameUse,
           call'.op = "recv" /\ call'.got # <<>> =>
               /\ call.op = "recv" /\ call.got # <<>> /\ call'.h = call.h
               /\ obj'[call.h].socknum = Slot(call.h)
               /\ fw' = "up" \/ fw' = fw \/ sockets[Slot(call.h)].pnc = NULL
    PROVE  LostInv'
<1> SUFFICES ASSUME fw' # "up", call'.op = "recv", call'.got # <<>>
             PROVE  ~Used(sockets[Slot(call.h)]) /\ obj'[call'.h].socknum = Slot(call.h)
                    /\ Slot(call.h) \in TP!Sockets
  BY DEF LostInv, Slot, Used, TP!SameUse
<1>1. Slot(call.h) \in TP!Sockets
  BY CallerHeld DEF IInv
<1> QED
  BY <1>1 DEF IInv, LostInv, Used
-----------------------------------------------------------------------------
(* The steps that neither connect, nor close, nor read *)

LEMMA Together ==
    ASSUME TP!IInv', fw' \in {"up", "undefined"}, fw' = "up" => fw = "up",
           Client', ReadInv', LostInv',
           TP!SameUse, delivered' = delivered, StillThere
    PROVE  IInv' /\ Quiet
<1>1. IInv'
  BY DEF IInv
<1> QED
  BY <1>1 DEF Quiet

LEMMA Firmware == ASSUME IInv PROVE fw \in {"up", "undefined"}
BY DEF IInv, TP!IInv, TP!TypeOK

LEMMA StandsStill ==
    ASSUME IInv, UNCHANGED tableVars
    PROVE  /\ TP!IInv' /\ TP!SameUse /\ delivered' = delivered /\ fw' = fw
           /\ fw' \in {"up", "undefined"}
BY TableStays, Firmware DEF TP!SameUse

LEMMA NoAnswerStep ==
    ASSUME IInv, NoAnswer, call.at # "close"
    PROVE  IInv' /\ Quiet
<1>1. Ends /\ UNCHANGED tableVars /\ fw # "up"
  BY DEF NoAnswer
<1>2. Client' /\ ReadInv' /\ call' = NoCall
  BY <1>1, Ending DEF IInv, Ends
<1>3. StillThere
  BY <1>1, EndsThere DEF IInv, LostInv
<1>4. LostInv'
  BY <1>2, NoCallTyped DEF LostInv
<1> QED
  BY <1>1, <1>2, <1>3, <1>4, StandsStill, Together

LEMMA CallIs ==
    ASSUME NEW op \in Ops, NEW h \in Objects, NEW at \in Places, NEW left \in Int
    PROVE  LET c == Call(op, h, at, left) IN
           /\ c \in Calls /\ c.op = op /\ c.h = h /\ c.at = at /\ c.left = left /\ c.got = <<>>
<1>1. NoCall \in [op : Ops, h : {NULL}, at : Places, left : Int, avail : Nat, got : Seq(Nat)]
  BY DEF NoCall, Ops, Places
<1>2. NoCall.got = <<>> /\ NoCall.avail = 0
  BY DEF NoCall
<1> QED
  BY <1>1, <1>2 DEF Call, Calls

\* The program's next call.
LEMMA BeginStep ==
    ASSUME IInv, Begin
    PROVE  IInv' /\ Quiet
<1>1. call = NoCall /\ UNCHANGED <<tableVars, obj, returned>>
  BY DEF Begin
<1>2. /\ call' \in Calls /\ call'.got = <<>> /\ call'.op # "none"
      /\ call'.at \in {"start", "avail", "close"}
      /\ call'.op = "new" => call'.h \in Objects \ Held /\ call'.at = "start"
      /\ call'.op # "new" => call'.h \in Held
      /\ call'.at = "close" => call'.op = "close"
      /\ call'.op = "recv" => call'.left \in Nat
  <2>1. ASSUME NEW h \in Objects \ Held, call' = Call("new", h, "start", 0)
        PROVE  <1>2
    BY <2>1, CallIs, NoCallTyped DEF Ops, Places
  <2>2. ASSUME NEW h \in Held, NEW op \in Ops \ {"none", "new"},
               NEW at \in {"start", "avail", "close"}, NEW left \in Nat,
               at = "close" => op = "close", call' = Call(op, h, at, left)
        PROVE  <1>2
    BY <2>2, CallIs, NoCallTyped DEF Held, Places
  <2>3. ASSUME NEW h \in Held, call' \in Methods(h)
        PROVE  <1>2
    <3>1. \A n \in 1 .. MaxChunks : n \in Nat
      BY MaxChunksAssumption
    <3>2. BufSizes \subseteq Nat
      BY BufSizesAssumption
    <3>3. {"connect", "readline", "connected", "close", "send", "recv", "recvall"}
              \subseteq Ops \ {"none", "new"}
      BY DEF Ops
    <3> QED
      BY <2>2, <2>3, <3>1, <3>2, <3>3 DEF Methods
  <2> QED
    BY <2>1, <2>3 DEF Begin
<1>3. Client' /\ ReadInv'
  BY <1>1, <1>2 DEF IInv, Client, ClientTyped, PlaceInv, ReadInv, Held
<1>4. LostInv' /\ ~Polling(call')
  BY <1>2 DEF LostInv, Polling
<1>5. call.op # "recv" /\ call'.got = <<>>
  BY <1>1, <1>2, NoCallTyped
<1>6. StillThere
  BY <1>1, <1>4, <1>5 DEF StillThere, SameSlotsHeld, Held, Slot, Follows, Got, GotNext, GotOf
<1> QED
  BY <1>1, <1>3, <1>4, <1>6, StandsStill, Together DEF IInv

LEMMA EndsQuietly ==
    ASSUME IInv, TP!IInv', fw' \in {"up", "undefined"}, fw' = "up" => fw = "up",
           TP!SameUse, delivered' = delivered, Ends,
           call.op # "recv" \/ call.got = <<>> \/ ~Used(sockets[Slot(call.h)])
    PROVE  IInv' /\ Quiet
<1>1. Client' /\ ReadInv' /\ call' = NoCall
  BY Ending DEF IInv, Ends
<1>2. StillThere
  BY EndsThere DEF IInv
<1>3. LostInv'
  BY <1>1, NoCallTyped DEF LostInv
<1> QED
  BY <1>1, <1>2, <1>3, Together

LEMMA GoesQuietly ==
    ASSUME IInv, TP!IInv', fw' \in {"up", "undefined"}, fw' = "up" => fw = "up",
           TP!SameUse, delivered' = delivered,
           NEW place \in Places \ {"read"}, Goto(place), call.op \notin {"none", "new"},
           place = "close" => call.op \in {"close", "readline", "connected"},
           call.op = "recv" => fw' = "up",
           call.op = "connect" => Polling(call)
    PROVE  IInv' /\ Quiet
<1>1. /\ Client' /\ ReadInv' /\ obj' = obj /\ returned' = returned
      /\ call'.op = call.op /\ call'.h = call.h /\ call'.got = call.got
  BY Going DEF IInv
<1>2. StillThere
  BY <1>1, GoingThere DEF IInv, Polling
<1>3. LostInv'
  BY <1>1 DEF LostInv
<1> QED
  BY <1>1, <1>2, <1>3, Together

LEMMA ReturnsQuietly ==
    ASSUME IInv, TP!IInv', fw' \in {"up", "undefined"}, fw' = "up" => fw = "up",
           TP!SameUse, delivered' = delivered, call.op \notin {"none", "new"},
           NEW bytes \in Seq(Nat), NEW rest \in Seq(Nat), Returns(bytes, rest),
           call.op = "recv" => bytes \o rest = Buffer(call.h) \o call.got,
           call.op # "recv" => bytes \o rest = Buffer(call.h)
    PROVE  IInv' /\ Quiet
<1>1. Client' /\ ReadInv' /\ call' = NoCall
  BY Returning DEF IInv
<1>2. StillThere
  BY ReturningThere DEF IInv
<1>3. LostInv'
  BY <1>1, NoCallTyped DEF LostInv
<1> QED
  BY <1>1, <1>2, <1>3, Together

\* A firmware that has stopped leaves the method where it is.
LEMMA WaitsQuietly ==
    ASSUME IInv, TP!IInv', fw' \in {"up", "undefined"}, fw' = "up" => fw = "up",
           TP!SameUse, delivered' = delivered, UNCHANGED clientVars, call.at # "read",
           call.op = "recv" => fw' = fw \/ sockets[Slot(call.h)].pnc = NULL
    PROVE  IInv' /\ Quiet
<1>1. Client' /\ ReadInv'
  BY Unmoved DEF IInv
<1>2. StillThere
  BY UnmovedThere DEF IInv
<1>3. LostInv'
  <2>1. call' = call /\ obj' = obj
    BY DEF clientVars
  <2> QED
    BY <2>1, StaysLost DEF Slot
<1> QED
  BY <1>1, <1>2, <1>3, Together

LEMMA ReadsQuietly ==
    ASSUME IInv, TP!IInv', fw' = "up", fw = "up",
           TP!SameUse, delivered' = delivered,
           ToRead, call.op \in {"recv", "recvall", "readline"},
           ret'.val \in Nat \ {0}, promised'[Slot(call.h)] = ret'.val,
           call.op = "recv" => ToGet > 0
    PROVE  IInv' /\ Quiet
<1>1. /\ Client' /\ ReadInv' /\ obj' = obj /\ returned' = returned
      /\ call'.op = call.op /\ call'.h = call.h /\ call'.got = call.got
  BY Reading DEF IInv
<1>2. StillThere
  BY <1>1, GoingThere DEF IInv, Polling
<1>3. LostInv'
  BY DEF LostInv
<1> QED
  BY <1>1, <1>2, <1>3, Together

\* RecvReturns gives out the buffered and the received bytes.
LEMMA RecvReturnsQuietly ==
    ASSUME IInv, TP!IInv', fw' \in {"up", "undefined"}, fw' = "up" => fw = "up",
           TP!SameUse, delivered' = delivered, call.op = "recv", RecvReturns(call.got)
    PROVE  IInv' /\ Quiet
<1> DEFINE all == Buffer(call.h) \o call.got
           size == IF Len(all) < call.left THEN Len(all) ELSE call.left
<1>1. Buffer(call.h) \in Seq(Nat) /\ call.got \in Seq(Nat) /\ call.left \in Nat
  BY CallerHeld, HeldTyped DEF IInv, Client, ClientTyped, PlaceInv, Calls
<1>2. all \in Seq(Nat) /\ Len(all) \in Nat
  BY <1>1, Joined, LenProperties
<1>4. Returns(SubSeq(all, 1, size), SubSeq(all, size + 1, Len(all)))
  BY DEF RecvReturns
<1>5. all = Buffer(call.h) \o call.got
  OBVIOUS
<1> HIDE DEF all
<1>3. size \in 0 .. Len(all)
  BY <1>1, <1>2
<1> HIDE DEF size
<1>6. /\ SubSeq(all, 1, size) \in Seq(Nat) /\ SubSeq(all, size + 1, Len(all)) \in Seq(Nat)
      /\ SubSeq(all, 1, size) \o SubSeq(all, size + 1, Len(all)) = all
  BY <1>2, <1>3, SplitSeq
<1> QED
  BY <1>4, <1>5, <1>6, ReturnsQuietly

LEMMA Asked ==
    ASSUME IInv, NEW op \in Ops \ {"none", "new"}, Ask(op)
    PROVE  LET s == Slot(call.h) IN
           /\ s \in TP!Sockets /\ call.op = op /\ call.at \in {"avail", "again"} /\ fw = "up"
           /\ TP!IInv' /\ TP!SameUse /\ delivered' = delivered /\ fw' \in {"up", "undefined"}
           /\ fw' = "undefined" => sockets[s].pnc = NULL
           /\ Answered => ret'.val \in Nat /\ promised'[s] = ret'.val
           /\ fw' = "up" /\ ret'.err # "E_SUCCESS" => ~Used(sockets[s])
<1>1. call.op = op /\ call.at \in {"avail", "again"} /\ Table!AvailData(Slot(call.h))
  BY DEF Ask, In
<1>2. Slot(call.h) \in TP!Sockets
  BY <1>1, CallerHeld DEF IInv
<1>3. fw = "up"
  BY <1>1 DEF Table!AvailData
<1> QED
  BY <1>1, <1>2, <1>3, AskSeen DEF Answered, Used

LEMMA AskFails ==
    ASSUME IInv, NEW op \in Ops \ {"none", "new"}, Ask(op), Failed
    PROVE  IInv' /\ Quiet
<1>1. CASE fw' = "up" /\ ret'.err # "E_SUCCESS" /\ Ends
  BY <1>1, Asked, EndsQuietly
<1>2. CASE fw' # "up" /\ UNCHANGED clientVars
  BY <1>2, Asked, WaitsQuietly
<1> QED
  BY <1>1, <1>2 DEF Failed

\* Asked again after nothing, or on to the read.
LEMMA AskGoesOn ==
    ASSUME IInv, NEW op \in Ops \ {"none", "new", "connect"}, Ask(op), Answered,
           NEW place \in Places \ {"read", "close"}, Goto(place)
    PROVE  IInv' /\ Quiet
BY Asked, GoesQuietly DEF Answered

LEMMA AskToRead ==
    ASSUME IInv, NEW op \in {"recv", "recvall", "readline"}, Ask(op), Answered,
           ret'.val > 0, ToRead, op = "recv" => ToGet > 0
    PROVE  IInv' /\ Quiet
<1>1. op \in Ops \ {"none", "new"}
  BY DEF Ops
<1>2. /\ call.op = op /\ fw = "up" /\ fw' = "up" /\ TP!IInv' /\ TP!SameUse
      /\ delivered' = delivered /\ ret'.val \in Nat /\ promised'[Slot(call.h)] = ret'.val
  BY <1>1, Asked DEF Answered
<1>3. ret'.val \in Nat \ {0}
  BY <1>2
<1> QED
  BY <1>2, <1>3, ReadsQuietly

LEMMA RecvAvailStep ==
    ASSUME IInv, RecvAvail
    PROVE  IInv' /\ Quiet
<1> "recv" \in Ops \ {"none", "new", "connect"} /\ "again" \in Places \ {"read", "close"}
  BY DEF Ops, Places
<1> Ask("recv") /\ ToGet > 0
  BY DEF RecvAvail
<1>1. CASE Failed
  BY <1>1, AskFails
<1>2. CASE Answered /\ ret'.val > 0 /\ ToRead
  BY <1>2, AskToRead
<1>3. CASE Answered /\ Goto("again")
  BY <1>3, AskGoesOn
<1>4. CASE Answered /\ RecvReturns(call.got)
  BY <1>4, Asked, RecvReturnsQuietly
<1> QED
  BY <1>1, <1>2, <1>3, <1>4 DEF RecvAvail

LEMMA RecvEndsStep ==
    ASSUME IInv, RecvBuffered \/ RecvTimesOut
    PROVE  IInv' /\ Quiet
<1>1. call.op = "recv" /\ RecvReturns(call.got) /\ UNCHANGED tableVars
  BY DEF RecvBuffered, RecvTimesOut, In
<1> QED
  BY <1>1, StandsStill, RecvReturnsQuietly

\* recv(0) returns all there is in the buffer once nothing more has come.
LEMMA RecvAllAsks ==
    ASSUME IInv, Ask("recvall"),
           \/ Failed
           \/ Answered /\ ret'.val > 0 /\ ToRead
           \/ Answered /\ ret'.val = 0 /\ Returns(Buffer(call.h), <<>>)
    PROVE  IInv' /\ Quiet
<1> "recvall" \in Ops \ {"none", "new"}
  BY DEF Ops
<1>1. CASE Failed
  BY <1>1, AskFails
<1>2. CASE Answered /\ ret'.val > 0 /\ ToRead
  BY <1>2, AskToRead
<1>3. CASE Answered /\ Returns(Buffer(call.h), <<>>)
  <2>1. call.op = "recvall" /\ call.h \in Held
    BY Asked, CallerHeld DEF IInv
  <2>2. Buffer(call.h) \in Seq(Nat) /\ <<>> \in Seq(Nat)
    BY <2>1, HeldTyped, EmptySeq DEF IInv, Client
  <2>3. Buffer(call.h) \o <<>> = Buffer(call.h)
    BY <2>2, NothingAdded
  <2> QED
    BY <1>3, <2>1, <2>2, <2>3, Asked, ReturnsQuietly
<1> QED
  BY <1>1, <1>2, <1>3

LEMMA ReadlineAsks ==
    ASSUME IInv, Ask("readline"),
           \/ Failed
           \/ Answered /\ ret'.val > 0 /\ ToRead
           \/ Answered /\ ret'.val = 0 /\ Goto("again")
    PROVE  IInv' /\ Quiet
<1> "readline" \in Ops \ {"none", "new", "connect"} /\ "again" \in Places \ {"read", "close"}
  BY DEF Ops, Places
<1>1. CASE Failed
  BY <1>1, AskFails
<1>2. CASE Answered /\ ret'.val > 0 /\ ToRead
  BY <1>2, AskToRead
<1>3. CASE Answered /\ Goto("again")
  BY <1>3, AskGoesOn
<1> QED
  BY <1>1, <1>2, <1>3

LEMMA LineReturnsStep ==
    ASSUME IInv, LineReturns
    PROVE  IInv' /\ Quiet
<1>1. call.op = "readline" /\ UNCHANGED tableVars
  BY DEF LineReturns, In
<1>2. Buffer(call.h) \in Seq(Nat)
  BY <1>1, CallerHeld, HeldTyped DEF IInv, Client
<1>3. PICK i \in Lines :
        Returns(SubSeq(Buffer(call.h), 1, i), SubSeq(Buffer(call.h), i + 1, Len(Buffer(call.h))))
  BY DEF LineReturns
<1>4. i \in 0 .. Len(Buffer(call.h))
  BY <1>2, <1>3, LenProperties DEF Lines
<1> QED
  BY <1>1, <1>2, <1>3, <1>4, SplitSeq, StandsStill, ReturnsQuietly

LEMMA ReadlineTimesOutStep ==
    ASSUME IInv, ReadlineTimesOut
    PROVE  IInv' /\ Quiet
<1>1. call.op = "readline" /\ Goto("close") /\ UNCHANGED tableVars /\ "close" \in Places \ {"read"}
  BY DEF ReadlineTimesOut, In, Places
<1> QED
  BY <1>1, StandsStill, GoesQuietly

LEMMA ConnectedStep ==
    ASSUME IInv, Connected
    PROVE  IInv' /\ Quiet
<1> "connected" \in Ops \ {"none", "new", "connect"} /\ "close" \in Places \ {"read"}
    /\ "state" \in Places \ {"read", "close"}
  BY DEF Ops, Places
<1>1. CASE Ask("connected") /\ Failed
  BY <1>1, AskFails
<1>2. CASE Ask("connected") /\ Answered /\ Ends
  BY <1>2, Asked, EndsQuietly
<1>3. CASE Ask("connected") /\ Answered /\ Goto("state")
  BY <1>3, AskGoesOn
<1>4. ASSUME In("connected", {"state"}), Table!GetSocketState(Slot(call.h)),
             Goto("close") \/ Ends
      PROVE  IInv' /\ Quiet
  <2>1. call.op = "connected" /\ Slot(call.h) \in TP!Sockets
    BY <1>4, CallerHeld DEF In, IInv
  <2>2. TP!IInv' /\ fw = "up" /\ UNCHANGED <<sockets, conn, fw, wait, delivered, promised>>
    BY <1>4, <2>1, StateSeen
  <2>3. TP!SameUse
    BY <2>2 DEF TP!SameUse
  <2> QED
    BY <1>4, <2>1, <2>2, <2>3, GoesQuietly, EndsQuietly
<1> QED
  BY <1>1, <1>2, <1>3, <1>4 DEF Connected

LEMMA SendStep ==
    ASSUME IInv, SendChunk \/ SendFlush
    PROVE  IInv' /\ Quiet
<1>1. /\ call.op = "send" /\ call.at \in {"start", "flush"}
      /\ Table!SendData(Slot(call.h)) \/ Table!WriteFlush(Slot(call.h))
  BY DEF SendChunk, SendFlush, In
<1>2. Slot(call.h) \in TP!Sockets
  BY <1>1, CallerHeld DEF IInv
<1>3. fw = "up"
  BY <1>1 DEF Table!SendData, Table!WriteFlush
<1>4. TP!IInv' /\ TP!SameUse /\ delivered' = delivered /\ fw' \in {"up", "undefined"}
  BY <1>1, <1>2, WriteSeen
<1>5. CASE Ends
  BY <1>1, <1>3, <1>4, <1>5, EndsQuietly
<1>6. CASE UNCHANGED clientVars
  BY <1>1, <1>3, <1>4, <1>6, WaitsQuietly
<1>7. CASE /\ call' = [call EXCEPT !.left = @ - 1, !.at = IF call.left = 1 THEN "flush" ELSE @]
           /\ UNCHANGED <<obj, returned>>
  <2>1. call \in Calls
    BY DEF IInv, Client, ClientTyped
  <2>2. /\ call' \in Calls /\ call'.op = call.op /\ call'.h = call.h /\ call'.got = call.got
        /\ call'.at \in {"start", "flush"}
    <3>1. call.left - 1 \in Int /\ {"start", "flush"} \subseteq Places
      BY <2>1 DEF Calls, Places
    <3> DEFINE place == IF call.left = 1 THEN "flush" ELSE call.at
               left == call.left - 1
    <3>2. call' = [call EXCEPT !.left = left, !.at = place]
      BY <1>7
    <3>3. place \in {"start", "flush"} /\ left \in Int
      BY <1>1, <3>1
    <3> HIDE DEF place, left
    <3> QED
      BY <2>1, <3>1, <3>2, <3>3 DEF Calls
  <2>3. Client' /\ ReadInv' /\ LostInv'
    BY <1>1, <1>7, <2>2 DEF IInv, Client, ClientTyped, PlaceInv, ReadInv, LostInv, Held
  <2>4. StillThere
    BY <1>1, <1>7, <2>2, GoingThere DEF IInv, Polling
  <2> QED
    BY <1>3, <1>4, <2>3, <2>4, Together
<1> QED
  BY <1>5, <1>6, <1>7 DEF SendChunk, SendFlush, Failed

\* connect's polls: an established connection ends them, with an empty buffer.
LEMMA PollStep ==
    ASSUME IInv, Poll
    PROVE  IInv' /\ Quiet
<1>1. /\ call.op = "connect" /\ call.at \in {"poll", "again"} /\ Polling(call)
      /\ Table!GetSocketState(Slot(call.h))
  BY DEF Poll, In, Polling
<1>2. Slot(call.h) \in TP!Sockets
  BY <1>1, CallerHeld DEF IInv
<1>3. TP!IInv' /\ fw = "up" /\ UNCHANGED <<sockets, conn, fw, wait, delivered, promised>>
  BY <1>1, <1>2, StateSeen
<1>4. TP!SameUse
  BY <1>3 DEF TP!SameUse
<1>5. CASE Goto("again")
  <2>1. "again" \in Places \ {"read"}
    BY DEF Places
  <2> QED
    BY <1>1, <1>3, <1>4, <1>5, <2>1, GoesQuietly
<1>6. CASE obj' = [obj EXCEPT ![call.h].buffer = <<>>] /\ call' = NoCall /\ UNCHANGED returned
  <2>1. <<>> \in Seq(Nat)
    BY EmptySeq
  <2>2. /\ obj' \in [Objects -> ObjInfo \cup {NULL}] /\ Held' = Held
        /\ obj'[call.h].socknum = Slot(call.h) /\ obj'[call.h].buffer = <<>>
        /\ \A h \in Objects \ {call.h} : obj'[h] = obj[h]
    BY <1>1, <1>6, <2>1, Rebuffered DEF IInv
  <2>3. Client' /\ ReadInv' /\ LostInv' /\ ~Polling(call')
    BY <1>6, <2>2, NoCallTyped
       DEF IInv, Client, ClientTyped, PlaceInv, ReadInv, LostInv, Polling
  <2>4. SameSlotsHeld
    BY <2>2 DEF SameSlotsHeld, Held, Slot
  <2>5. ASSUME NEW h \in Held
        PROVE  Follows(h)
    <3>1. returned[h] \in Seq(Nat) /\ Buffer(h) \in Seq(Nat) /\ h \in Objects
      BY HeldTyped DEF IInv, Client
    <3>2. CASE h # call.h
      BY <1>1, <1>6, <2>2, <3>1, <3>2, NoCallTyped DEF Follows, Got, GotNext, GotOf
    <3>3. CASE h = call.h
      <4>1. GotNext(h) = (returned[h] \o <<>>) \o <<>>
        BY <1>6, <2>2, <3>3, NoCallTyped DEF GotNext, GotOf
      <4>2. GotNext(h) = returned[h]
        BY <3>1, <4>1, NothingAdded
      <4>3. Got(h) = returned[h] \o Buffer(h)
        BY <1>1, GotTyped DEF IInv
      <4>4. Got(h) = <<>> => GotNext(h) = <<>>
        BY <3>1, <4>2, <4>3, NothingGot
      <4> QED
        BY <1>1, <3>3, <4>4 DEF Follows
    <3> QED
      BY <3>2, <3>3
  <2>6. StillThere
    BY <2>3, <2>4, <2>5 DEF StillThere
  <2> QED
    BY <1>3, <1>4, <2>3, <2>6, Firmware, Together
<1> QED
  BY <1>5, <1>6 DEF Poll

LEMMA PollTimesOutStep ==
    ASSUME IInv, PollTimesOut
    PROVE  IInv' /\ Quiet
<1>1. call.op = "connect" /\ Ends /\ UNCHANGED tableVars
  BY DEF PollTimesOut, In
<1> QED
  BY <1>1, StandsStill, EndsQuietly

\* The peers, and a step of nothing.  A peer may move between the two calls of a read.
LEMMA AroundStep ==
    ASSUME IInv, PeerMoves \/ UNCHANGED vars
    PROVE  IInv' /\ Quiet
<1>1. /\ TP!IInv' /\ UNCHANGED clientVars
      /\ UNCHANGED <<sockets, fw, delivered, promised>>
  BY PeersSeen, TableStays DEF PeerMoves, vars
<1>2. TP!SameUse
  BY <1>1 DEF TP!SameUse
<1>3. StillThere
  BY <1>1, UnmovedThere DEF IInv
<1>4. Client' /\ ReadInv' /\ LostInv'
  BY <1>1 DEF IInv, clientVars, Client, ClientTyped, PlaceInv, ReadInv, LostInv, Held, Slot,
         ToGet, Buffer
<1> QED
  BY <1>1, <1>2, <1>3, <1>4, Firmware, Together
-----------------------------------------------------------------------------
(* The reads *)

\* What was delivered of the slot of the method's object is what it has got more.
Grew ==
    LET s == Slot(call.h) IN
    /\ TP!SameUse /\ fw = "up" /\ SameSlotsHeld /\ ~Polling(call')
    /\ call.h \in Held /\ sockets[s].type = "TCP"
    /\ \A t \in TP!Sockets \ {s} : delivered'[t] = delivered[t]
    /\ \E piece \in Seq(Nat) : /\ delivered'[s] = delivered[s] \o piece
                               /\ GotNext(call.h) = Got(call.h) \o piece
    /\ \A g \in Held \ {call.h} : GotNext(g) = Got(g)

LEMMA Fetched ==
    ASSUME IInv, NEW op \in {"recv", "recvall", "readline"}, NEW size \in Nat \ {0},
           ReadNext(op, size)
    PROVE  LET s == Slot(call.h) IN
           /\ call.op = op /\ call.at = "read" /\ call.h \in Held /\ s \in TP!Sockets
           /\ TP!IInv' /\ TP!SameUse /\ fw = "up" /\ fw' = "up" /\ ret'.err = "E_SUCCESS"
           /\ sockets[s].type = "TCP"
           /\ Piece \in Seq(Nat) /\ delivered'[s] = delivered[s] \o Piece
           /\ \A t \in TP!Sockets \ {s} : delivered'[t] = delivered[t]
<1>1. call.op = op /\ call.at = "read" /\ Table!ReadData(Slot(call.h), size)
  BY DEF ReadNext, In
<1>2. call.h \in Held /\ Slot(call.h) \in TP!Sockets
  BY <1>1, CallerHeld DEF IInv
<1>3. promised[Slot(call.h)] > 0
  BY <1>1 DEF IInv, ReadInv
<1>4. /\ TP!IInv' /\ TP!SameUse /\ fw' = "up" /\ ret'.err = "E_SUCCESS"
      /\ TP!Grown(Slot(call.h))
  BY <1>1, <1>2, <1>3, FetchSeen
<1>5. fw = "up" /\ sockets[Slot(call.h)].type = "TCP"
  BY <1>1, <1>4 DEF Table!ReadData, Table!Return, Table!Result
<1>6. /\ Piece \in Seq(Nat) /\ delivered'[Slot(call.h)] = delivered[Slot(call.h)] \o Piece
      /\ \A t \in TP!Sockets \ {Slot(call.h)} : delivered'[t] = delivered[t]
  BY <1>2, <1>4, PieceIs DEF IInv
<1> QED
  BY <1>1, <1>2, <1>4, <1>5, <1>6

LEMMA RecvReadStep ==
    ASSUME IInv, RecvRead
    PROVE  IInv' /\ Grew
<1> DEFINE size == IF ToGet < call.avail THEN ToGet ELSE call.avail
<1>1. ReadNext("recv", size)
  BY DEF RecvRead
<1>2. call \in Calls /\ Client /\ ClientTyped
  BY DEF IInv, Client, ClientTyped
<1>3. call.op = "recv" /\ call.at = "read" /\ call.h \in Held
  BY <1>1, <1>2, CallerHeld DEF ReadNext, In
<1>4. size \in Nat \ {0}
  <2>1. call.avail \in Nat /\ call.avail > 0 /\ ToGet > 0
    BY <1>2, <1>3 DEF IInv, ReadInv, Calls
  <2>2. ToGet \in Int
    BY <1>2, <1>3, HeldTyped, LenProperties DEF ToGet, Calls
  <2> QED
    BY <2>1, <2>2
<1> HIDE DEF size
<1>5. /\ Slot(call.h) \in TP!Sockets
      /\ TP!IInv' /\ TP!SameUse /\ fw = "up" /\ fw' = "up" /\ ret'.err = "E_SUCCESS"
      /\ sockets[Slot(call.h)].type = "TCP"
      /\ Piece \in Seq(Nat) /\ delivered'[Slot(call.h)] = delivered[Slot(call.h)] \o Piece
      /\ \A t \in TP!Sockets \ {Slot(call.h)} : delivered'[t] = delivered[t]
  BY <1>1, <1>4, Fetched
<1>6. call' = [call EXCEPT !.at = "avail", !.got = @ \o Piece] /\ UNCHANGED <<obj, returned>>
  BY <1>5 DEF RecvRead, Failed
<1>7. /\ call' \in Calls /\ call'.op = "recv" /\ call'.h = call.h /\ call'.at = "avail"
      /\ call'.left = call.left /\ call'.got = call.got \o Piece
  <2>1. call.got \o Piece \in Seq(Nat)
    BY <1>2, <1>5, Joined DEF Calls
  <2> QED
    BY <1>2, <1>3, <1>6, <2>1 DEF Calls, Places
<1>8. Client' /\ ReadInv' /\ LostInv'
  BY <1>2, <1>3, <1>5, <1>6, <1>7 DEF Client, ClientTyped, PlaceInv, ReadInv, LostInv, Held
<1>9. SameSlotsHeld /\ ~Polling(call')
  BY <1>6, <1>7 DEF SameSlotsHeld, Held, Slot, Polling
<1>10. \A g \in Held \ {call.h} : GotNext(g) = Got(g)
  BY <1>6, <1>7 DEF GotNext, Got, GotOf
<1>11. GotNext(call.h) = Got(call.h) \o Piece
  <2>1. /\ returned[call.h] \in Seq(Nat) /\ Buffer(call.h) \in Seq(Nat)
        /\ call.got \in Seq(Nat)
    BY <1>2, <1>3, HeldTyped DEF Calls
  <2>2. GotNext(call.h) = (returned[call.h] \o Buffer(call.h)) \o (call.got \o Piece)
    BY <1>6, <1>7 DEF GotNext, GotOf, Buffer
  <2>3. Got(call.h) = (returned[call.h] \o Buffer(call.h)) \o call.got
    BY <1>2, <1>3, GotTyped
  <2>4. returned[call.h] \o Buffer(call.h) \in Seq(Nat)
    BY <2>1, Joined
  <2> DEFINE before == returned[call.h] \o Buffer(call.h)
  <2>5. before \in Seq(Nat) /\ GotNext(call.h) = before \o (call.got \o Piece)
        /\ Got(call.h) = before \o call.got
    BY <2>2, <2>3, <2>4
  <2> HIDE DEF before
  <2>6. (before \o call.got) \o Piece = before \o (call.got \o Piece)
    BY <1>5, <2>1, <2>5, Regrouped
  <2> QED
    BY <2>5, <2>6
<1> QED
  BY <1>3, <1>5, <1>8, <1>9, <1>10, <1>11 DEF IInv, Grew

LEMMA CollectStep ==
    ASSUME IInv, NEW op \in {"recvall", "readline"}, Collect(op)
    PROVE  IInv' /\ Grew
<1>1. ReadNext(op, call.avail)
  BY DEF Collect
<1>2. call \in Calls /\ Client /\ ClientTyped
  BY DEF IInv, Client, ClientTyped
<1>3. call.avail \in Nat \ {0}
  BY <1>1, <1>2 DEF ReadNext, In, IInv, ReadInv, Calls
<1>4. /\ call.op = op /\ call.h \in Held /\ Slot(call.h) \in TP!Sockets
      /\ TP!IInv' /\ TP!SameUse /\ fw = "up" /\ fw' = "up" /\ ret'.err = "E_SUCCESS"
      /\ sockets[Slot(call.h)].type = "TCP"
      /\ Piece \in Seq(Nat) /\ delivered'[Slot(call.h)] = delivered[Slot(call.h)] \o Piece
      /\ \A t \in TP!Sockets \ {Slot(call.h)} : delivered'[t] = delivered[t]
  BY <1>1, <1>3, Fetched
<1>5. /\ obj' = [obj EXCEPT ![call.h].buffer = @ \o Piece]
      /\ call' = [call EXCEPT !.at = "avail"] /\ returned' = returned
  BY <1>4 DEF Collect, Failed
<1>6. /\ call' \in Calls /\ call'.op = op /\ call'.h = call.h /\ call'.at = "avail"
      /\ call'.left = call.left /\ call'.got = call.got
  BY <1>2, <1>4, <1>5 DEF Calls, Places
<1>7. returned[call.h] \in Seq(Nat) /\ Buffer(call.h) \in Seq(Nat) /\ call.h \in Objects
  BY <1>2, <1>4, HeldTyped
<1>8. /\ obj' \in [Objects -> ObjInfo \cup {NULL}] /\ Held' = Held
      /\ obj'[call.h].socknum = Slot(call.h) /\ obj'[call.h].buffer = Buffer(call.h) \o Piece
      /\ \A h \in Objects \ {call.h} : obj'[h] = obj[h]
  <2> DEFINE rest == Buffer(call.h) \o Piece
  <2>1. rest \in Seq(Nat)
    BY <1>4, <1>7, Joined
  <2>2. obj' = [obj EXCEPT ![call.h].buffer = rest]
    BY <1>5, <1>7 DEF Buffer
  <2> HIDE DEF rest
  <2>3. /\ obj' \in [Objects -> ObjInfo \cup {NULL}] /\ Held' = Held
        /\ obj'[call.h].socknum = Slot(call.h) /\ obj'[call.h].buffer = rest
        /\ \A h \in Objects \ {call.h} : obj'[h] = obj[h]
    BY <1>2, <1>4, <2>1, <2>2, Rebuffered
  <2> QED
    BY <2>3 DEF rest
<1>9. Client' /\ ReadInv' /\ LostInv'
  <2>1. ClientTyped'
    BY <1>2, <1>5, <1>6, <1>8 DEF ClientTyped
  <2>2. call'.op \in {"recvall", "readline"} /\ call'.at = "avail" /\ call'.h \in Held'
    BY <1>4, <1>6, <1>8
  <2>3. call' # NoCall /\ PlaceInv'
    BY <2>2 DEF PlaceInv, NoCall
  <2>4. ReadInv' /\ LostInv'
    BY <2>2 DEF ReadInv, LostInv
  <2> QED
    BY <2>1, <2>3, <2>4 DEF Client
<1>10. SameSlotsHeld /\ ~Polling(call')
  BY <1>4, <1>6, <1>8 DEF SameSlotsHeld, Held, Slot, Polling
<1>11. \A g \in Held \ {call.h} : GotNext(g) = Got(g)
  <2> SUFFICES ASSUME NEW g \in Held \ {call.h}
               PROVE  GotNext(g) = Got(g)
    OBVIOUS
  <2>1. g \in Objects \ {call.h}
    BY DEF Held
  <2>2. obj'[g] = obj[g] /\ returned'[g] = returned[g]
    BY <1>5, <1>6, <1>8, <2>1
  <2> QED
    BY <1>5, <1>6, <2>1, <2>2 DEF GotNext, Got, GotOf
<1>12. GotNext(call.h) = Got(call.h) \o Piece
  <2>1. GotNext(call.h) = (returned[call.h] \o (Buffer(call.h) \o Piece)) \o <<>>
    BY <1>4, <1>5, <1>6, <1>8 DEF GotNext, GotOf
  <2>2. Buffer(call.h) \o Piece \in Seq(Nat)
    BY <1>4, <1>7, Joined
  <2>3. returned[call.h] \o (Buffer(call.h) \o Piece) \in Seq(Nat)
    BY <1>7, <2>2, Joined
  <2>4. GotNext(call.h) = returned[call.h] \o (Buffer(call.h) \o Piece)
    BY <2>1, <2>3, NothingAdded
  <2>5. Got(call.h) = returned[call.h] \o Buffer(call.h)
    BY <1>2, <1>4, GotTyped
  <2>6. (returned[call.h] \o Buffer(call.h)) \o Piece = returned[call.h] \o (Buffer(call.h) \o Piece)
    BY <1>4, <1>7, Regrouped
  <2> QED
    BY <2>4, <2>5, <2>6
<1> QED
  BY <1>4, <1>9, <1>10, <1>11, <1>12 DEF IInv, Grew
-----------------------------------------------------------------------------
(* Opening and closing *)

\* A new object takes a slot that was free.
Made ==
    LET s == ret'.val IN
    /\ fw = "up" /\ fw' = "up" /\ delivered' = delivered
    /\ s \in TP!Sockets /\ sockets[s].type = "UNALLOCATED" /\ sockets'[s].type = "IDLE"
    /\ TP!SameUseElsewhere(s)
    /\ call.h \in Objects \ Held /\ Held' = Held \cup {call.h}
    /\ obj'[call.h].socknum = s /\ GotNext(call.h) = <<>>
    /\ \A g \in Held : obj'[g].socknum = Slot(g) /\ GotNext(g) = Got(g)
    /\ ~Polling(call')

LEMMA NewStep ==
    ASSUME IInv, New
    PROVE  IInv' /\ (Quiet \/ Made)
<1>1. call.op = "new" /\ Table!GetSocket
  BY DEF New, In
<1>2. /\ TP!IInv' /\ fw = "up" /\ fw' = "up" /\ delivered' = delivered
      /\ IF ret'.err = "E_SUCCESS"
         THEN /\ ret'.val \in TP!Sockets /\ sockets[ret'.val].type = "UNALLOCATED"
              /\ sockets'[ret'.val].type = "IDLE"
              /\ TP!SameUseElsewhere(ret'.val)
         ELSE TP!SameUse
  BY <1>1, NewSeen
<1>3. CASE Failed
  BY <1>1, <1>2, <1>3, EndsQuietly DEF Failed
<1>4. CASE /\ Answered
           /\ obj' = [obj EXCEPT ![call.h] = [socknum |-> ret'.val, buffer |-> <<>>]]
           /\ returned' = [returned EXCEPT ![call.h] = <<>>]
           /\ call' = NoCall
  <2>1. call.h \in Objects \ Held /\ ClientTyped
    BY <1>1 DEF IInv, Client, PlaceInv
  <2>2. ret'.val \in TP!Sockets /\ ret'.err = "E_SUCCESS"
    BY <1>2, <1>4 DEF Answered
  <2>3. <<>> \in Seq(Nat)
    BY EmptySeq
  <2> DEFINE new == [socknum |-> ret'.val, buffer |-> <<>>]
  <2>4. new \in ObjInfo /\ new.socknum = ret'.val /\ new.buffer = <<>> /\ new # NULL
    <3>1. new \in [socknum : TP!Sockets, buffer : Seq(Nat)]
      BY <2>2, <2>3
    <3>2. new.socknum = ret'.val /\ new.buffer = <<>>
      OBVIOUS
    <3> HIDE DEF new
    <3> QED
      BY <3>1, <3>2, SameSlots
  <2> HIDE DEF new
  <2>5. obj' = [obj EXCEPT ![call.h] = new]
    BY <1>4 DEF new
  <2>6. /\ obj' \in [Objects -> ObjInfo \cup {NULL}] /\ returned' \in [Objects -> Seq(Nat)]
        /\ obj'[call.h] = new /\ returned'[call.h] = <<>>
        /\ \A g \in Objects \ {call.h} : obj'[g] = obj[g] /\ returned'[g] = returned[g]
    BY <1>4, <2>1, <2>3, <2>4, <2>5 DEF ClientTyped
  <2>7. Held' = Held \cup {call.h}
    BY <2>1, <2>4, <2>6 DEF Held
  <2>8. Client' /\ ReadInv' /\ LostInv' /\ ~Polling(call')
    BY <1>4, <2>6, NoCallTyped
       DEF Client, ClientTyped, PlaceInv, ReadInv, LostInv, Polling
  <2>9. \A g \in Held : obj'[g].socknum = Slot(g) /\ GotNext(g) = Got(g)
    BY <1>1, <1>4, <2>1, <2>6, NoCallTyped DEF Held, Slot, GotNext, Got, GotOf
  <2>10. GotNext(call.h) = (<<>> \o <<>>) \o <<>>
    BY <1>4, <2>4, <2>6, NoCallTyped DEF GotNext, GotOf
  <2>11. GotNext(call.h) = <<>>
    BY <2>3, <2>10, NothingAdded
  <2>12. Made
    BY <1>2, <2>1, <2>2, <2>4, <2>6, <2>7, <2>8, <2>9, <2>11 DEF Made
  <2> QED
    BY <1>2, <2>8, <2>12 DEF IInv
<1> QED
  BY <1>3, <1>4 DEF New

\* A connect takes the slot it was given, and has nothing delivered yet.
Opened ==
    LET s == Slot(call.h) IN
    /\ fw = "up" /\ call.h \in Held /\ SameSlotsHeld
    /\ \A h \in Held : GotNext(h) = Got(h)
    /\ Polling(call') => call'.h = call.h
    /\ TP!SameUseElsewhere(s) /\ sockets[s].type = "IDLE" /\ sockets'[s].type = "TCP"
    /\ sockets'[s].pnc = NULL \/ delivered'[s] = <<>>
    /\ \A t \in TP!Sockets \ {s} : delivered'[t] = delivered[t]

LEMMA OpenStep ==
    ASSUME IInv, Open
    PROVE  IInv' /\ (Quiet \/ Opened)
<1> DEFINE s == Slot(call.h)
<1>1. call.op = "connect" /\ Table!SocketConnect(s, "TCP")
  BY DEF Open, In
<1>2. s \in TP!Sockets /\ call.h \in Held
  BY <1>1, CallerHeld DEF IInv
<1>3. /\ TP!IInv' /\ fw = "up" /\ fw' = "up"
      /\ \A t \in TP!Sockets \ {s} : delivered'[t] = delivered[t]
      /\ TP!SameUseElsewhere(s)
      /\ \/ ret'.err # "E_SUCCESS" /\ TP!SameUse /\ delivered' = delivered
         \/ /\ sockets[s].type = "IDLE" /\ sockets'[s].type = "TCP"
            /\ IF ret'.err = "E_SUCCESS" THEN delivered'[s] = <<>> ELSE sockets'[s].pnc = NULL
  BY <1>1, <1>2, OpenSeen
<1>4. CASE Answered /\ Goto("poll")
  <2>1. "poll" \in Places \ {"read"} /\ Client
    BY DEF Places, IInv
  <2>2. /\ Client' /\ ReadInv' /\ obj' = obj /\ returned' = returned
        /\ call'.op = call.op /\ call'.h = call.h /\ call'.got = call.got
    BY <1>1, <1>4, <2>1, Going
  <2>3. SameSlotsHeld /\ \A h \in Held : GotNext(h) = Got(h)
    BY <2>2 DEF SameSlotsHeld, Held, Slot, GotNext, Got, GotOf
  <2>4. Opened
    BY <1>2, <1>3, <1>4, <2>2, <2>3 DEF Opened, Answered
  <2> QED
    BY <1>3, <2>2, <2>4 DEF IInv, LostInv
<1>5. CASE Ends /\ ret'.err # "E_SUCCESS" /\ TP!SameUse /\ delivered' = delivered
  BY <1>1, <1>3, <1>5, EndsQuietly
<1>6. CASE /\ Ends /\ sockets[s].type = "IDLE" /\ sockets'[s].type = "TCP"
           /\ sockets'[s].pnc = NULL
  <2>1. Client' /\ ReadInv' /\ call' = NoCall /\ obj' = obj /\ returned' = returned
    BY <1>6, Ending DEF IInv, Ends
  <2>2. /\ SameSlotsHeld /\ \A h \in Held : GotNext(h) = Got(h)
        /\ ~Polling(call')
    BY <1>1, <2>1, NoCallTyped DEF SameSlotsHeld, Held, Slot, GotNext, Got, GotOf, Polling
  <2>3. Opened
    BY <1>2, <1>3, <1>6, <2>1, <2>2 DEF Opened
  <2> QED
    BY <1>3, <2>1, <2>3 DEF IInv, LostInv
<1> QED
  BY <1>3, <1>4, <1>5, <1>6 DEF Open, Failed

\* The object of the method is gone, and nothing else.
Gone ==
    /\ call.h \in Held /\ call' = NoCall /\ returned' = returned
    /\ \A h \in Objects \ {call.h} : obj'[h] = obj[h]
    /\ ~KeepsClosed => obj'[call.h] = NULL

Closed ==
    LET s == Slot(call.h) IN
    /\ fw = "up" /\ fw' = "up" /\ delivered' = delivered /\ TP!SameUseElsewhere(s)
    /\ sockets[s].type \notin TP!Unsupported => sockets'[s].type = "UNALLOCATED"
    /\ Gone

LEMMA CloseStep ==
    ASSUME IInv, Close
    PROVE  IInv' /\ Closed
<1>1. call.op \in {"close", "readline", "connected"} /\ call.op \notin {"none", "new"}
  BY DEF Close, IInv, Client, PlaceInv
<1>2. call.h \in Held /\ Slot(call.h) \in TP!Sockets
  BY <1>1, CallerHeld DEF IInv
<1>3. /\ TP!IInv' /\ fw = "up" /\ fw' = "up" /\ delivered' = delivered
      /\ TP!SameUseElsewhere(Slot(call.h))
      /\ sockets[Slot(call.h)].type \notin TP!Unsupported
             => sockets'[Slot(call.h)].type = "UNALLOCATED"
  BY <1>2, CloseSeen DEF Close
<1>4. /\ Client' /\ ReadInv' /\ Gone
  BY <1>1, <1>2, LettingGo DEF Close, IInv, Gone
<1> QED
  BY <1>3, <1>4 DEF IInv, Closed, LostInv

\* The driver gives up on the stop command: the object goes without the slot.
LEMMA NoAnswerCloses ==
    ASSUME IInv, NoAnswer, call.at = "close"
    PROVE  IInv' /\ TP!SameUse /\ delivered' = delivered /\ fw # "up" /\ fw' # "up" /\ Gone
<1>1. call.op \in {"close", "readline", "connected"} /\ call.op \notin {"none", "new"}
  BY DEF IInv, Client, PlaceInv
<1>2. LetGo /\ UNCHANGED tableVars /\ fw # "up"
  BY DEF NoAnswer
<1>3. call.h \in Held
  BY <1>1, CallerHeld DEF IInv
<1>4. Client' /\ ReadInv' /\ Gone
  BY <1>1, <1>2, <1>3, LettingGo DEF IInv, Gone
<1>5. LostInv'
  BY <1>4, NoCallTyped DEF Gone, LostInv
<1> QED
  BY <1>2, <1>4, <1>5, StandsStill DEF IInv

\* A join and a reset let go of everything.
LEMMA AllGoneStep ==
    ASSUME IInv, Join \/ Reset
    PROVE  /\ IInv' /\ Held' = {} /\ call' = NoCall
           /\ \A s \in TP!Sockets :
                  sockets[s].type \notin TP!Unsupported => sockets'[s].type = "UNALLOCATED"
<1>1. /\ call = NoCall /\ call' = call /\ returned' = returned
      /\ obj' = [h \in Objects |-> NULL]
      /\ Table!WifiReset \/ Table!Reboot
  BY DEF Join, Reset, LetGoOfAll
<1>2. /\ TP!IInv' /\ fw' = "up"
      /\ \A s \in TP!Sockets :
             sockets[s].type \notin TP!Unsupported => sockets'[s].type = "UNALLOCATED"
  BY <1>1, AllGoneSeen
<1>3. Held' = {} /\ obj' \in [Objects -> ObjInfo \cup {NULL}]
  BY <1>1 DEF Held
<1>4. Client' /\ ReadInv' /\ LostInv'
  BY <1>1, <1>3, NoCallTyped DEF IInv, Client, ClientTyped, PlaceInv, ReadInv, LostInv
<1> QED
  BY <1>1, <1>2, <1>3, <1>4 DEF IInv

-----------------------------------------------------------------------------
(* No read waits *)

\* Every step of the client is of one of these kinds.
LEMMA NextStep ==
    ASSUME IInv, [Next]_vars
    PROVE  /\ IInv'
           /\ \/ Quiet \/ Grew \/ Made \/ Opened \/ Closed
              \/ TP!SameUse /\ delivered' = delivered /\ fw # "up" /\ fw' # "up" /\ Gone
              \/ /\ Held' = {} /\ call' = NoCall
                 /\ \A s \in TP!Sockets : sockets[s].type \notin TP!Unsupported
                                              => sockets'[s].type = "UNALLOCATED"
<1>1. CASE Begin
  BY <1>1, BeginStep
<1>2. CASE NoAnswer
  BY <1>2, NoAnswerStep, NoAnswerCloses
<1>3. CASE New \/ Open \/ Poll \/ Close
  BY <1>3, NewStep, OpenStep, PollStep, CloseStep
<1>4. CASE SendChunk \/ SendFlush \/ Connected
  BY <1>4, SendStep, ConnectedStep
<1>5. CASE RecvBuffered \/ RecvAvail \/ RecvRead
  BY <1>5, RecvEndsStep, RecvAvailStep, RecvReadStep
<1>6. CASE RecvAll
  BY <1>6, RecvAllAsks, CollectStep DEF RecvAll
<1>7. CASE Readline \/ LineReturns
  BY <1>7, ReadlineAsks, CollectStep, LineReturnsStep DEF Readline
<1>8. CASE Timeout
  BY <1>8, PollTimesOutStep, RecvEndsStep, ReadlineTimesOutStep DEF Timeout
<1>9. CASE Join \/ Reset
  BY <1>9, AllGoneStep
<1>10. CASE PeerMoves \/ UNCHANGED vars
  BY <1>10, AroundStep
<1> QED
  BY <1>1, <1>2, <1>3, <1>4, <1>5, <1>6, <1>7, <1>8, <1>9, <1>10 DEF Next, Step

LEMMA InitIInv == Init => IInv
<1> SUFFICES ASSUME Init
             PROVE  IInv
  OBVIOUS
<1>1. TP!Init
  BY SameInit DEF Init
<1>2. TP!IInv /\ fw = "up"
  BY <1>1, TP!InitIInv, TableAssumed DEF TP!Init
<1>3. <<>> \in Seq(Nat)
  BY EmptySeq
<1>4. Client /\ ReadInv /\ LostInv
  BY <1>2, <1>3, NoCallTyped DEF Init, Client, ClientTyped, PlaceInv, ReadInv, LostInv
<1> QED
  BY <1>2, <1>4 DEF IInv

THEOREM IInvariant == Spec => []IInv
<1>1. IInv /\ [Next]_vars => IInv'
  BY NextStep
<1> QED
  BY <1>1, InitIInv, PTL DEF Spec

\* Whatever the program calls, however the peers move and whether or not it goes on
\* with closed objects, the firmware never waits in netconn_recv for this client.
THEOREM NeverBlocks == Spec => []FirmwareNeverBlocks
<1>1. IInv => FirmwareNeverBlocks
  BY DEF IInv, FirmwareNeverBlocks
<1> QED
  BY <1>1, IInvariant, PTL

\* The objects, the running method and what was returned keep their types.
THEOREM TypeCorrect == Spec => []TypeOK
<1>1. IInv => TypeOK
  <2> SUFFICES ASSUME IInv
               PROVE  TypeOK
    OBVIOUS
  <2>1. Table!TypeOK
    BY DEF IInv, TP!IInv, TP!TypeOK, Table!TypeOK, Table!Sockets, TP!Sockets,
           Table!SocketInfo, TP!SocketInfo, Table!SlotTypes, TP!SlotTypes, Table!SlotStates,
           TP!SlotStates, Table!Netbufs, TP!Netbufs, Table!ConnInfo, TP!ConnInfo,
           Table!Waits, TP!Waits, Table!Errors, TP!Errors, Table!Unsupported,
           TP!Unsupported, Table!CLOSED, TP!CLOSED, Table!ESTABLISHED, TP!ESTABLISHED
  <2>2. \A h \in Held : obj[h] \in ObjInfo
    BY HeldTyped DEF IInv, Client
  <2>3. call.avail \in Nat /\ call.got \in Seq(Nat) /\ returned \in [Objects -> Seq(Nat)]
    BY DEF IInv, Client, ClientTyped, Calls
  <2>4. call.op # "none" => call.h \in (IF call.op = "new" THEN Objects \ Held ELSE Held)
    BY DEF IInv, Client, PlaceInv
  <2> QED
    BY <2>1, <2>2, <2>3, <2>4 DEF TypeOK
<1> QED
  BY <1>1, IInvariant, PTL

-----------------------------------------------------------------------------
(* Slots and objects.  From here on the program lets go of closed objects.     *)

OneEach ==
    /\ \A s \in TP!Sockets : sockets[s].type \notin TP!Unsupported
    /\ \A h \in Held : sockets[Slot(h)].type # "UNALLOCATED"
    /\ \A g, h \in Held : Slot(g) = Slot(h) => g = h
    /\ fw = "up" => \A s \in TP!Sockets :
           sockets[s].type # "UNALLOCATED" => \E h \in Held : Slot(h) = s

\* What each object has got is what its slot has delivered since it connected.
Streams ==
    \A h \in Held :
        /\ Used(sockets[Slot(h)]) => Got(h) = delivered[Slot(h)]
        /\ sockets[Slot(h)].type = "IDLE" => Got(h) = <<>>
        /\ Polling(call) /\ call.h = h => Got(h) = <<>>

LEMMA HeldSlots ==
    ASSUME IInv, NEW h \in Held
    PROVE  Slot(h) \in TP!Sockets /\ h \in Objects
BY HeldTyped DEF IInv, Client

LEMMA OneEachNext ==
    ASSUME \A s \in TP!Sockets : sockets'[s].type \notin TP!Unsupported,
           \A h \in Held' : sockets'[obj'[h].socknum].type # "UNALLOCATED",
           \A g, h \in Held' : obj'[g].socknum = obj'[h].socknum => g = h,
           fw' = "up" => \A s \in TP!Sockets :
               sockets'[s].type # "UNALLOCATED" => \E h \in Held' : obj'[h].socknum = s
    PROVE  OneEach'
BY DEF OneEach, Slot

LEMMA OneEachKept ==
    ASSUME IInv, OneEach, TP!SameUse, SameSlotsHeld, fw' = "up" => fw = "up"
    PROVE  OneEach'
<1>1. \A s \in TP!Sockets : sockets'[s].type = sockets[s].type
  BY DEF TP!SameUse
<1>2. Held' = Held /\ \A h \in Held : obj'[h].socknum = Slot(h) /\ Slot(h) \in TP!Sockets
  BY HeldSlots DEF SameSlotsHeld
<1> QED
  BY <1>1, <1>2, OneEachNext DEF OneEach

LEMMA OneEachMade ==
    ASSUME IInv, OneEach, Made
    PROVE  OneEach'
<1> DEFINE s == ret'.val
<1>1. /\ s \in TP!Sockets /\ sockets[s].type = "UNALLOCATED" /\ sockets'[s].type = "IDLE"
      /\ \A t \in TP!Sockets \ {s} : sockets'[t].type = sockets[t].type
      /\ fw = "up" /\ Held' = Held \cup {call.h} /\ call.h \notin Held
      /\ obj'[call.h].socknum = s
      /\ \A g \in Held : obj'[g].socknum = Slot(g)
  BY DEF Made, TP!SameUseElsewhere
<1>2. \A g \in Held : Slot(g) \in TP!Sockets \ {s}
  BY <1>1, HeldSlots DEF OneEach
<1> HIDE DEF s
<1>3. \A t \in TP!Sockets : sockets'[t].type \notin TP!Unsupported
  BY <1>1 DEF OneEach, TP!Unsupported
<1>4. \A h \in Held' : sockets'[obj'[h].socknum].type # "UNALLOCATED"
  BY <1>1, <1>2 DEF OneEach
<1>5. \A g, h \in Held' : obj'[g].socknum = obj'[h].socknum => g = h
  BY <1>1, <1>2 DEF OneEach
<1>6. \A t \in TP!Sockets :
          sockets'[t].type # "UNALLOCATED" => \E h \in Held' : obj'[h].socknum = t
  BY <1>1 DEF OneEach
<1> QED
  BY <1>3, <1>4, <1>5, <1>6, OneEachNext

LEMMA OneEachOpened ==
    ASSUME IInv, OneEach, Opened
    PROVE  OneEach'
<1> DEFINE s == Slot(call.h)
<1>1. /\ call.h \in Held /\ sockets[s].type = "IDLE" /\ sockets'[s].type = "TCP"
      /\ \A t \in TP!Sockets \ {s} : sockets'[t].type = sockets[t].type
      /\ fw = "up" /\ Held' = Held
      /\ \A g \in Held : obj'[g].socknum = Slot(g)
  BY DEF Opened, TP!SameUseElsewhere, SameSlotsHeld
<1>2. \A g \in Held : Slot(g) \in TP!Sockets
  BY HeldSlots
<1> HIDE DEF s
<1>3. \A t \in TP!Sockets :
          /\ sockets'[t].type \notin TP!Unsupported
          /\ sockets'[t].type = "UNALLOCATED" <=> sockets[t].type = "UNALLOCATED"
  BY <1>1 DEF OneEach, TP!Unsupported
<1> QED
  BY <1>1, <1>2, <1>3, OneEachNext DEF OneEach

LEMMA GoneIs ==
    ASSUME ~KeepsClosed, IInv, Gone
    PROVE  /\ Held' = Held \ {call.h}
           /\ \A g \in Held' : g \in Objects \ {call.h} /\ obj'[g] = obj[g]
<1>1. /\ call.h \in Held /\ obj'[call.h] = NULL
      /\ \A h \in Objects \ {call.h} : obj'[h] = obj[h]
  BY DEF Gone
<1> QED
  BY <1>1 DEF Held

LEMMA OneEachGone ==
    ASSUME ~KeepsClosed, IInv, OneEach, Gone,
           (fw' # "up" /\ TP!SameUse) \/ Closed
    PROVE  OneEach'
<1> DEFINE s == Slot(call.h)
<1>1. /\ call.h \in Held /\ Held' = Held \ {call.h}
      /\ \A g \in Held' : g \in Held /\ obj'[g].socknum = Slot(g)
  BY GoneIs DEF Gone, Held, Slot
<1>2. s \in TP!Sockets /\ \A g \in Held' : Slot(g) \in TP!Sockets \ {s}
  BY <1>1, HeldSlots DEF OneEach
<1>3. \A t \in TP!Sockets \ {s} : sockets'[t].type = sockets[t].type
  BY DEF TP!SameUse, TP!SameUseElsewhere, Closed
<1>4. fw' = "up" => sockets'[s].type = "UNALLOCATED"
  BY <1>2 DEF Closed, OneEach
<1>5. sockets'[s].type \notin TP!Unsupported
  BY <1>2 DEF Closed, OneEach, TP!SameUse, TP!Unsupported
<1>6. fw' = "up" => fw = "up"
  BY DEF Closed
<1> HIDE DEF s
<1>7. \A t \in TP!Sockets : sockets'[t].type \notin TP!Unsupported
  BY <1>3, <1>5 DEF OneEach
<1>8. \A h \in Held' : sockets'[obj'[h].socknum].type # "UNALLOCATED"
  BY <1>1, <1>2, <1>3 DEF OneEach
<1>9. \A g, h \in Held' : obj'[g].socknum = obj'[h].socknum => g = h
  BY <1>1 DEF OneEach
<1>10. ASSUME fw' = "up", NEW t \in TP!Sockets, sockets'[t].type # "UNALLOCATED"
       PROVE  \E h \in Held' : obj'[h].socknum = t
  <2>1. t # s /\ sockets[t].type # "UNALLOCATED"
    BY <1>3, <1>4, <1>10
  <2>2. PICK h \in Held : Slot(h) = t
    BY <1>6, <1>10, <2>1 DEF OneEach
  <2>3. h \in Held'
    BY <1>1, <2>1, <2>2 DEF s
  <2> QED
    BY <1>1, <2>2, <2>3
<1> QED
  BY <1>7, <1>8, <1>9, <1>10, OneEachNext

LEMMA OneEachAllGone ==
    ASSUME OneEach, Held' = {},
           \A s \in TP!Sockets :
               sockets[s].type \notin TP!Unsupported => sockets'[s].type = "UNALLOCATED"
    PROVE  OneEach'
<1>1. \A s \in TP!Sockets : sockets'[s].type = "UNALLOCATED"
  BY DEF OneEach
<1> QED
  BY <1>1, OneEachNext DEF TP!Unsupported

LEMMA OneEachStep ==
    ASSUME ~KeepsClosed, IInv, OneEach, [Next]_vars
    PROVE  OneEach'
<1>1. CASE Quiet \/ Grew
  BY <1>1, OneEachKept DEF Quiet, Grew, StillThere
<1>2. CASE Made \/ Opened
  BY <1>2, OneEachMade, OneEachOpened
<1>3. CASE Closed
  BY <1>3, OneEachGone DEF Closed
<1> QED
  BY <1>1, <1>2, <1>3, OneEachGone, OneEachAllGone, NextStep

-----------------------------------------------------------------------------
(* Streams *)

LEMMA StreamsNext ==
    ASSUME \A h \in Held' :
               /\ Used(sockets'[obj'[h].socknum])
                      => GotNext(h) = delivered'[obj'[h].socknum]
               /\ sockets'[obj'[h].socknum].type = "IDLE" => GotNext(h) = <<>>
               /\ Polling(call') /\ call'.h = h => GotNext(h) = <<>>
    PROVE  Streams'
BY DEF Streams, Slot, Used, Got, GotNext, Polling

LEMMA StreamsQuiet ==
    ASSUME ~KeepsClosed, IInv, Streams, Quiet
    PROVE  Streams'
<1>1. /\ Held' = Held /\ delivered' = delivered /\ TP!SameUse
      /\ Polling(call') => Polling(call) /\ call'.h = call.h
      /\ \A h \in Held : obj'[h].socknum = Slot(h) /\ Slot(h) \in TP!Sockets /\ Follows(h)
  BY HeldSlots DEF Quiet, StillThere, SameSlotsHeld
<1>2. ASSUME NEW h \in Held
      PROVE  /\ Used(sockets'[Slot(h)]) => GotNext(h) = delivered[Slot(h)]
             /\ sockets'[Slot(h)].type = "IDLE" => GotNext(h) = <<>>
             /\ Polling(call') /\ call'.h = h => GotNext(h) = <<>>
  <2>1. /\ Used(sockets'[Slot(h)]) <=> Used(sockets[Slot(h)])
        /\ sockets'[Slot(h)].type = sockets[Slot(h)].type
    BY <1>1 DEF TP!SameUse, Used
  <2>2. Got(h) = <<>> => GotNext(h) = <<>>
    BY <1>1 DEF Follows
  <2>3. Used(sockets[Slot(h)]) => GotNext(h) = Got(h)
    BY <1>1, <2>2 DEF Follows, Streams
  <2> QED
    BY <1>1, <2>1, <2>2, <2>3 DEF Streams
<1> QED
  BY <1>1, <1>2, StreamsNext

LEMMA StreamsGrew ==
    ASSUME IInv, OneEach, Streams, Grew
    PROVE  Streams'
<1> DEFINE s == Slot(call.h)
<1>1. /\ Held' = Held /\ TP!SameUse /\ ~Polling(call') /\ call.h \in Held
      /\ \A h \in Held : obj'[h].socknum = Slot(h) /\ Slot(h) \in TP!Sockets
      /\ \A g \in Held \ {call.h} : GotNext(g) = Got(g)
      /\ sockets[s].type = "TCP"
      /\ \A t \in TP!Sockets \ {s} : delivered'[t] = delivered[t]
  BY HeldSlots DEF Grew, SameSlotsHeld
<1>2. PICK piece \in Seq(Nat) : /\ delivered'[s] = delivered[s] \o piece
                                /\ GotNext(call.h) = Got(call.h) \o piece
  BY DEF Grew
<1>3. \A h \in Held \ {call.h} : Slot(h) \in TP!Sockets \ {s}
  BY <1>1 DEF OneEach
<1>4. \A h \in Held : /\ Used(sockets'[Slot(h)]) <=> Used(sockets[Slot(h)])
                      /\ sockets'[Slot(h)].type = sockets[Slot(h)].type
  BY <1>1 DEF TP!SameUse, Used
<1> HIDE DEF s
<1>5. Used(sockets[Slot(call.h)]) => GotNext(call.h) = delivered'[Slot(call.h)]
  BY <1>1, <1>2 DEF Streams, s
<1>6. \A h \in Held \ {call.h} :
          /\ Used(sockets[Slot(h)]) => GotNext(h) = delivered'[Slot(h)]
          /\ sockets[Slot(h)].type = "IDLE" => GotNext(h) = <<>>
  BY <1>1, <1>3 DEF Streams
<1>7. sockets[Slot(call.h)].type # "IDLE"
  BY <1>1 DEF s
<1> QED
  BY <1>1, <1>4, <1>5, <1>6, <1>7, StreamsNext

LEMMA StreamsMade ==
    ASSUME IInv, OneEach, Streams, Made
    PROVE  Streams'
<1> DEFINE s == ret'.val
<1>1. /\ sockets[s].type = "UNALLOCATED" /\ sockets'[s].type = "IDLE" /\ delivered' = delivered
      /\ Held' = Held \cup {call.h} /\ ~Polling(call')
      /\ obj'[call.h].socknum = s /\ GotNext(call.h) = <<>>
      /\ \A g \in Held : obj'[g].socknum = Slot(g) /\ GotNext(g) = Got(g)
      /\ TP!SameUseElsewhere(s)
  BY DEF Made
<1>2. \A g \in Held : Slot(g) \in TP!Sockets \ {s}
  BY <1>1, HeldSlots DEF OneEach
<1> HIDE DEF s
<1>3. \A g \in Held : /\ Used(sockets'[Slot(g)]) <=> Used(sockets[Slot(g)])
                      /\ sockets'[Slot(g)].type = sockets[Slot(g)].type
  BY <1>1, <1>2 DEF TP!SameUseElsewhere, Used
<1>4. ~Used(sockets'[s])
  BY <1>1 DEF Used
<1> QED
  BY <1>1, <1>3, <1>4, StreamsNext DEF Streams

LEMMA StreamsOpened ==
    ASSUME IInv, OneEach, Streams, Opened
    PROVE  Streams'
<1> DEFINE s == Slot(call.h)
<1>1. /\ call.h \in Held /\ Held' = Held
      /\ \A h \in Held : obj'[h].socknum = Slot(h) /\ GotNext(h) = Got(h)
      /\ Polling(call') => call'.h = call.h
      /\ TP!SameUseElsewhere(s) /\ sockets[s].type = "IDLE" /\ sockets'[s].type = "TCP"
      /\ sockets'[s].pnc = NULL \/ delivered'[s] = <<>>
      /\ \A t \in TP!Sockets \ {s} : delivered'[t] = delivered[t]
  BY DEF Opened, SameSlotsHeld
<1>2. \A g \in Held \ {call.h} : Slot(g) \in TP!Sockets \ {s}
  BY <1>1, HeldSlots DEF OneEach
<1>3. Got(call.h) = <<>>
  BY <1>1 DEF Streams
<1> HIDE DEF s
<1>4. \A g \in Held \ {call.h} : /\ Used(sockets'[Slot(g)]) <=> Used(sockets[Slot(g)])
                                 /\ sockets'[Slot(g)].type = sockets[Slot(g)].type
                                 /\ delivered'[Slot(g)] = delivered[Slot(g)]
  BY <1>1, <1>2 DEF TP!SameUseElsewhere, Used
<1>5. Used(sockets'[s]) => delivered'[s] = <<>>
  BY <1>1 DEF Used
<1>6. ASSUME NEW h \in Held
      PROVE  /\ Used(sockets'[Slot(h)]) => GotNext(h) = delivered'[Slot(h)]
             /\ sockets'[Slot(h)].type = "IDLE" => GotNext(h) = <<>>
             /\ Polling(call') /\ call'.h = h => GotNext(h) = <<>>
  <2>1. CASE h = call.h
    BY <1>1, <1>3, <1>5, <2>1 DEF s
  <2>2. CASE h # call.h
    BY <1>1, <1>4, <2>2 DEF Streams
  <2> QED
    BY <2>1, <2>2
<1> QED
  BY <1>1, <1>6, StreamsNext

LEMMA StreamsGone ==
    ASSUME ~KeepsClosed, IInv, OneEach, Streams, Gone, delivered' = delivered,
           TP!SameUseElsewhere(Slot(call.h))
    PROVE  Streams'
<1>1. /\ call.h \in Held /\ call' = NoCall /\ returned' = returned /\ Held' = Held \ {call.h}
      /\ \A g \in Held' : obj'[g] = obj[g] /\ obj'[g].socknum = Slot(g)
  BY GoneIs DEF Gone, Slot
<1>2. \A g \in Held' : g \in Held /\ Slot(g) \in TP!Sockets \ {Slot(call.h)}
  BY <1>1, HeldSlots DEF OneEach
<1>3. \A g \in Held' : /\ Used(sockets'[Slot(g)]) <=> Used(sockets[Slot(g)])
                       /\ sockets'[Slot(g)].type = sockets[Slot(g)].type
  BY <1>2 DEF TP!SameUseElsewhere, Used
<1>4. \A g \in Held' : GotNext(g) = Got(g)
  BY <1>1, NoCallTyped DEF GotNext, Got, GotOf
<1>5. ~Polling(call')
  BY <1>1, NoCallTyped DEF Polling
<1> QED
  BY <1>1, <1>2, <1>3, <1>4, <1>5, StreamsNext DEF Streams

LEMMA StreamsStep ==
    ASSUME ~KeepsClosed, IInv, OneEach, Streams, [Next]_vars
    PROVE  Streams'
<1>1. CASE Quiet \/ Grew \/ Made \/ Opened
  BY <1>1, StreamsQuiet, StreamsGrew, StreamsMade, StreamsOpened
<1>2. CASE Closed
  BY <1>2, StreamsGone DEF Closed
<1>3. CASE TP!SameUse /\ delivered' = delivered /\ Gone
  BY <1>3, StreamsGone DEF TP!SameUse, TP!SameUseElsewhere
<1>4. CASE Held' = {}
  BY <1>4, StreamsNext
<1> QED
  BY <1>1, <1>2, <1>3, <1>4, NextStep

-----------------------------------------------------------------------------

OwnInv == OneEach /\ Streams

THEOREM OwnInvariant == ASSUME ~KeepsClosed PROVE Spec => [](IInv /\ OwnInv)
<1>1. Init => OwnInv
  <2> SUFFICES ASSUME Init
               PROVE  OwnInv
    OBVIOUS
  <2>1. Held = {} /\ \A s \in TP!Sockets : sockets[s].type = "UNALLOCATED"
    BY DEF Init, Held, Table!Init, Table!EmptySlot, Table!Sockets, TP!Sockets
  <2> QED
    BY <2>1 DEF OwnInv, OneEach, Streams, TP!Unsupported
<1>2. IInv /\ OwnInv /\ [Next]_vars => IInv' /\ OwnInv'
  BY NextStep, OneEachStep, StreamsStep DEF OwnInv
<1> QED
  BY <1>1, <1>2, InitIInv, PTL DEF Spec

\* Neither a failed connect, nor a timeout, nor a join loses a slot, and no two
\* objects share one.
THEOREM NoSlotLost == ASSUME ~KeepsClosed PROVE Spec => []SlotsAccounted
<1>1. IInv /\ OwnInv => SlotsAccounted
  BY SameSlots DEF OwnInv, OneEach, SlotsAccounted
<1> QED
  BY <1>1, OwnInvariant, PTL

LEMMA BytesLen ==
    ASSUME NEW d \in Seq(Nat), NEW n \in Int, d = TP!Bytes(1, n)
    PROVE  d = Table!Bytes(1, Len(d))
<1>1. Len(d) \in Nat /\ DOMAIN d = 1 .. Len(d)
  BY LenProperties
<1>2. d = [i \in 1 .. n |-> 1 + i - 1]
  BY DEF TP!Bytes
<1>3. \A i \in 1 .. Len(d) : d[i] = 1 + i - 1
  BY <1>1, <1>2
<1>4. d = [i \in 1 .. Len(d) |-> d[i]]
  BY <1>1
<1> QED
  BY <1>3, <1>4 DEF Table!Bytes

\* recv and readline in any mix, with any timeouts, neither lose, nor repeat, nor
\* swap a byte of the connection.
THEOREM StreamKept == ASSUME ~KeepsClosed PROVE Spec => []StreamUnbroken
<1>1. IInv /\ OwnInv => StreamUnbroken
  <2> SUFFICES ASSUME IInv, OwnInv, NEW h \in Held, Table!Connected(Slot(h))
               PROVE  /\ Got(h) = Table!Bytes(1, Len(Got(h)))
                      /\ Got(h) = delivered[Slot(h)]
    BY DEF StreamUnbroken, Got, GotOf, Buffer, InFlight
  <2> DEFINE s == Slot(h)
  <2>1. s \in TP!Sockets
    BY HeldSlots
  <2>2. Used(sockets[s]) /\ TP!Connected(s)
    BY DEF Table!Connected, TP!Connected, Used, Table!ESTABLISHED, TP!ESTABLISHED
  <2>3. Got(h) = delivered[s]
    BY <2>2 DEF OwnInv, Streams
  <2>4. TP!DeliveredInOrder
    BY TP!IInvImplies, TableAssumed DEF IInv
  <2> DEFINE n == conn[sockets[s].pnc].taken - TP!Held(s)
  <2>5. delivered[s] = TP!Bytes(1, n)
    BY <2>1, <2>2, <2>4 DEF TP!DeliveredInOrder
  <2>6. delivered[s] \in Seq(Nat) /\ n \in Int
    <3>1. /\ sockets[s] \in TP!SocketInfo /\ conn \in [Netconns -> TP!ConnInfo]
          /\ delivered \in [TP!Sockets -> Seq(Nat)]
      BY <2>1 DEF IInv, TP!IInv, TP!TypeOK
    <3>2. sockets[s].pnc \in Netconns
      BY <2>2, <3>1 DEF Used, TP!SocketInfo
    <3>3. /\ conn[sockets[s].pnc].taken \in Nat
          /\ sockets[s].dlen \in Nat /\ sockets[s].offset \in Nat
      BY <3>1, <3>2 DEF TP!SocketInfo, TP!ConnInfo
    <3> QED
      BY <2>1, <3>1, <3>3 DEF TP!Held
  <2> HIDE DEF n
  <2> QED
    BY <2>3, <2>5, <2>6, BytesLen
<1> QED
  BY <1>1, OwnInvariant, PTL
=============================================================================
