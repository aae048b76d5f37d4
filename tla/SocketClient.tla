---------------------------- MODULE SocketClient ----------------------------
(***************************************************************************)
(* The host's socket objects (adafruit_esp32spi_socket.py) and the driver  *)
(* calls under them (adafruit_esp32spi.py), over the socket table: a       *)
(* method is a sequence of commands, each one step of the firmware, and    *)
(* the peers move between them.  A command the firmware cannot answer any  *)
(* more ends in the driver's RuntimeError after its 10 s.                  *)
(*                                                                         *)
(* The program calls one method at a time on objects it holds, with a      *)
(* timeout set, connects over TCP, and lets go of all objects when it      *)
(* joins a network or resets the board.  Whether it also lets go of an     *)
(* object that a method has closed is KeepsClosed: the object still has    *)
(* its number, and its methods use it (all but connected, which takes the  *)
(* number away and so leaves an object that does nothing any more).        *)
(***************************************************************************)
EXTENDS Integers, Sequences

CONSTANTS
    MaxSockets, Netconns, Modes, ReadSizes, MaxRx, NULL,  \* SocketTable
    Objects,    \* socket objects of the program
    BufSizes,   \* sizes it asks recv for; 0 is "whatever there is"
    LineEnds,   \* the bytes of a stream that end a line
    KeepsClosed, \* the program may go on with an object that was closed
    MaxChunks   \* bound: chunks of 64 bytes in one send

ASSUME BufSizesAssumption == BufSizes \subseteq Nat
ASSUME LineEndsAssumption == LineEnds \subseteq Nat
ASSUME KeepsClosedAssumption == KeepsClosed \in BOOLEAN
ASSUME MaxChunksAssumption == MaxChunks \in Nat \ {0}

VARIABLES
    sockets, conn, fw, wait, ret, delivered, promised,  \* SocketTable
    obj,       \* an object's _socknum and _buffer, NULL when there is none
    call,      \* the method that is running
    returned   \* history: what an object's methods have returned to the program

tableVars == <<sockets, conn, fw, wait, ret, delivered, promised>>
clientVars == <<obj, call, returned>>
vars == <<tableVars, clientVars>>

Table == INSTANCE SocketTable

ASSUME TableAssumption ==
    /\ Table!MaxSocketsAssumption /\ Table!ModesAssumption /\ Table!ReadSizesAssumption
    /\ Table!MaxRxAssumption /\ Table!NULLAssumption
ASSUME ObjectsAssumption == NULL \notin [socknum : Table!Sockets, buffer : Seq(Nat)]

\* "at" is the place in the method, "left" recv's bufsize or send's chunks,
\* "avail" and "got" the locals avail and received.
NoCall == [op |-> "none", h |-> NULL, at |-> "none", left |-> 0, avail |-> 0, got |-> <<>>]
Call(op, h, at, left) == [NoCall EXCEPT !.op = op, !.h = h, !.at = at, !.left = left]

Held == {h \in Objects : obj[h] # NULL}
Slot(h) == obj[h].socknum
Buffer(h) == obj[h].buffer

Init ==
    /\ Table!Init
    /\ obj = [h \in Objects |-> NULL]
    /\ call = NoCall
    /\ returned = [h \in Objects |-> <<>>]

-----------------------------------------------------------------------------
(* Places and outcomes *)

In(op, places) == call.op = op /\ call.at \in places

Answered == fw' = "up" /\ ret'.err = "E_SUCCESS"

Goto(place) == call' = [call EXCEPT !.at = place] /\ UNCHANGED <<obj, returned>>
Ends == call' = NoCall /\ UNCHANGED <<obj, returned>>

\* An error packet raises a RuntimeError, and what recv had received is gone;
\* without an answer the method stays where it is until NoAnswer.
Failed ==
    \/ fw' = "up" /\ ret'.err # "E_SUCCESS" /\ Ends
    \/ fw' # "up" /\ UNCHANGED clientVars

LetGo ==
    /\ \/ obj' = [obj EXCEPT ![call.h] = NULL]
       \/ KeepsClosed /\ call.op # "connected" /\ UNCHANGED obj
    /\ call' = NoCall
    /\ UNCHANGED returned

\* A method returns bytes and keeps the rest in _buffer.  Where closed objects go on
\* reading there is no end to what they return, and it is not kept.
Returns(bytes, rest) ==
    /\ returned' = IF KeepsClosed THEN returned ELSE [returned EXCEPT ![call.h] = @ \o bytes]
    /\ obj' = [obj EXCEPT ![call.h].buffer = rest]
    /\ call' = NoCall

\* The driver gives up on a firmware that is never ready again.
NoAnswer ==
    /\ call.op # "none"
    /\ fw # "up"
    /\ IF call.at = "close" THEN LetGo ELSE Ends
    /\ UNCHANGED tableVars

-----------------------------------------------------------------------------
(* Opening and closing *)

New ==
    /\ In("new", {"start"})
    /\ Table!GetSocket
    /\ \/ Failed
       \/ /\ Answered
          /\ obj' = [obj EXCEPT ![call.h] = [socknum |-> ret'.val, buffer |-> <<>>]]
          /\ returned' = [returned EXCEPT ![call.h] = <<>>]
          /\ call' = NoCall

Open ==
    /\ In("connect", {"start"})
    /\ Table!SocketConnect(Slot(call.h), "TCP")
    /\ (Answered /\ Goto("poll")) \/ Failed

\* socket_connect asks for the state, again and again for 3 s.
Poll ==
    /\ In("connect", {"poll", "again"})
    /\ Table!GetSocketState(Slot(call.h))
    /\ IF ret'.val = Table!ESTABLISHED
       THEN /\ obj' = [obj EXCEPT ![call.h].buffer = <<>>]
            /\ call' = NoCall
            /\ UNCHANGED returned
       ELSE Goto("again")

PollTimesOut == In("connect", {"again"}) /\ Ends /\ UNCHANGED tableVars

\* A RuntimeError of the stop command is swallowed.
Close ==
    /\ call.at = "close"
    /\ Table!StopSocket(Slot(call.h))
    /\ LetGo

-----------------------------------------------------------------------------
\* socket_write: the chunks, one of them empty if need be, then the flush.
SendChunk ==
    /\ In("send", {"start"})
    /\ Table!SendData(Slot(call.h))
    /\ \/ Failed
       \/ /\ Answered
          /\ call' = [call EXCEPT !.left = @ - 1, !.at = IF call.left = 1 THEN "flush" ELSE @]
          /\ UNCHANGED <<obj, returned>>

\* DATA_SENT_TCP is answered with 1 whatever the flush did.
SendFlush ==
    /\ In("send", {"flush"})
    /\ Table!WriteFlush(Slot(call.h))
    /\ IF fw' = "up" THEN Ends ELSE UNCHANGED clientVars

-----------------------------------------------------------------------------
(* Receiving: available(), then a read of no more than it said. *)

Ask(op) == In(op, {"avail", "again"}) /\ Table!AvailData(Slot(call.h))

ReadNext(op, size) == In(op, {"read"}) /\ Table!ReadData(Slot(call.h), size)

ToRead == call' = [call EXCEPT !.at = "read", !.avail = ret'.val] /\ UNCHANGED <<obj, returned>>

\* What the read of this step has returned.
Piece == SubSeq(delivered'[Slot(call.h)], Len(delivered[Slot(call.h)]) + 1,
                Len(delivered'[Slot(call.h)]))

\* recv's to_read, and its end: bufsize bytes at most, the rest stays buffered.
ToGet == call.left - Len(Buffer(call.h)) - Len(call.got)

RecvReturns(got) ==
    LET all == Buffer(call.h) \o got
        size == IF Len(all) < call.left THEN Len(all) ELSE call.left IN
    Returns(SubSeq(all, 1, size), SubSeq(all, size + 1, Len(all)))

RecvBuffered ==
    /\ In("recv", {"avail"})
    /\ ToGet <= 0
    /\ RecvReturns(call.got)
    /\ UNCHANGED tableVars

RecvAvail ==
    /\ Ask("recv")
    /\ ToGet > 0
    /\ \/ Failed
       \/ Answered /\ ret'.val > 0 /\ ToRead
       \/ Answered /\ ret'.val = 0 /\ call.got = <<>> /\ Goto("again")
       \/ Answered /\ ret'.val = 0 /\ call.got # <<>> /\ RecvReturns(call.got)

\* Mutant of RecvRead: the loop asks available() once and reads on.
RecvReadsOn ==
    /\ ReadNext("recv", IF ToGet < call.avail THEN ToGet ELSE call.avail)
    /\ \/ Failed
       \/ /\ Answered
          /\ call' = [call EXCEPT !.got = @ \o Piece]
          /\ UNCHANGED <<obj, returned>>

RecvRead ==
    /\ ReadNext("recv", IF ToGet < call.avail THEN ToGet ELSE call.avail)
    /\ \/ Failed
       \/ /\ Answered
          /\ call' = [call EXCEPT !.at = "avail", !.got = @ \o Piece]
          /\ UNCHANGED <<obj, returned>>

\* The clock is looked at after an empty answer and after a read.
RecvTimesOut ==
    /\ In("recv", {"again", "avail"})
    /\ call.at = "avail" => call.got # <<>>
    /\ RecvReturns(call.got)
    /\ UNCHANGED tableVars

\* recv(0) and readline collect in _buffer.
Collect(op) ==
    /\ ReadNext(op, call.avail)
    /\ \/ Failed
       \/ /\ Answered
          /\ obj' = [obj EXCEPT ![call.h].buffer = @ \o Piece]
          /\ call' = [call EXCEPT !.at = "avail"]
          /\ UNCHANGED returned

RecvAll ==
    \/ /\ Ask("recvall")
       /\ \/ Failed
          \/ Answered /\ ret'.val > 0 /\ ToRead
          \/ Answered /\ ret'.val = 0 /\ Returns(Buffer(call.h), <<>>)
    \/ Collect("recvall")

Lines == {i \in DOMAIN Buffer(call.h) : Buffer(call.h)[i] \in LineEnds}

Readline ==
    \/ /\ Ask("readline")
       /\ Lines = {}
       /\ \/ Failed
          \/ Answered /\ ret'.val > 0 /\ ToRead
          \/ Answered /\ ret'.val = 0 /\ Goto("again")
    \/ Collect("readline")

\* Mutant of LineReturns: the lines after the first are dropped.
LineReturnsDrops ==
    /\ In("readline", {"avail"})
    /\ \E i \in Lines :
         /\ \A j \in Lines : i <= j
         /\ Returns(SubSeq(Buffer(call.h), 1, i), <<>>)
    /\ UNCHANGED tableVars

\* readline's split, which takes the line end off the line it returns.
LineReturns ==
    /\ In("readline", {"avail"})
    /\ \E i \in Lines :
         /\ \A j \in Lines : i <= j
         /\ Returns(SubSeq(Buffer(call.h), 1, i),
                    SubSeq(Buffer(call.h), i + 1, Len(Buffer(call.h))))
    /\ UNCHANGED tableVars

\* Mutant of ReadlineTimesOut: the clock is looked at only once something has come.
ReadlineTimesOutLate ==
    /\ In("readline", {"again"})
    /\ Buffer(call.h) # <<>>
    /\ Goto("close")
    /\ UNCHANGED tableVars

ReadlineTimesOut == In("readline", {"again"}) /\ Goto("close") /\ UNCHANGED tableVars

\* connected(): data to read, or a state that is not CLOSED.
Connected ==
    \/ /\ Ask("connected")
       /\ \/ Failed
          \/ Answered /\ ret'.val > 0 /\ Ends
          \/ Answered /\ ret'.val = 0 /\ Goto("state")
    \/ /\ In("connected", {"state"})
       /\ Table!GetSocketState(Slot(call.h))
       /\ IF ret'.val = Table!CLOSED THEN Goto("close") ELSE Ends

-----------------------------------------------------------------------------
(* The program *)

Methods(h) ==
    {Call("connect", h, "start", 0), Call("readline", h, "avail", 0),
     Call("connected", h, "avail", 0), Call("close", h, "close", 0)}
        \cup {Call("send", h, "start", chunks) : chunks \in 1 .. MaxChunks}
        \cup {Call("recv", h, "avail", size) : size \in BufSizes \ {0}}
        \cup {Call("recvall", h, "avail", 0) : size \in BufSizes \cap {0}}

Begin ==
    /\ call = NoCall
    /\ \/ \E h \in Objects \ Held : call' = Call("new", h, "start", 0)
       \/ \E h \in Held : call' \in Methods(h)
    /\ UNCHANGED <<tableVars, obj, returned>>

LetGoOfAll == obj' = [h \in Objects |-> NULL] /\ UNCHANGED <<call, returned>>

Join == call = NoCall /\ Table!WifiReset /\ LetGoOfAll
Reset == call = NoCall /\ Table!Reboot /\ LetGoOfAll

PeerMoves == \E n \in Netconns : Table!Peer(n) /\ UNCHANGED clientVars

Step ==
    \/ NoAnswer \/ New \/ Open \/ Poll \/ Close
    \/ SendChunk \/ SendFlush
    \/ RecvBuffered \/ RecvAvail \/ RecvRead
    \/ RecvAll \/ Readline \/ LineReturns \/ Connected

Timeout == PollTimesOut \/ RecvTimesOut \/ ReadlineTimesOut

Next == Begin \/ Step \/ Timeout \/ Join \/ Reset \/ PeerMoves

\* The program runs on once it is in a method, and time passes.
Fairness == WF_vars(Step) /\ WF_vars(Timeout)

Spec == Init /\ [][Next]_vars /\ Fairness

-----------------------------------------------------------------------------
ObjInfo == [socknum : Table!Sockets, buffer : Seq(Nat)]

\* Every variable keeps its type.
TypeOK ==
    /\ Table!TypeOK
    /\ \A h \in Held : obj[h] \in ObjInfo
    /\ call.op # "none" => call.h \in (IF call.op = "new" THEN Objects \ Held ELSE Held)
    /\ call.avail \in Nat /\ call.got \in Seq(Nat)
    /\ returned \in [Objects -> Seq(Nat)]

\* The whole firmware never stands still inside netconn_recv for this client:
\* whatever it reads, it reads after available() announced it, and nothing a
\* peer or another object does in between takes the announced bytes away.
FirmwareNeverBlocks == fw # "blocked"

\* An allocated slot is the slot of exactly one object the program holds: none is
\* lost to a failed connect, a timeout or a join, and no two objects share one.
SlotsAccounted ==
    fw = "up" =>
        \A s \in Table!Sockets :
            sockets[s].type # "UNALLOCATED" =>
                \E h \in Held : Slot(h) = s /\ \A g \in Held : Slot(g) = s => g = h

InFlight(h) == IF call.op = "recv" /\ call.h = h THEN call.got ELSE <<>>

\* What an object has returned, buffered and is about to buffer is its connection's
\* stream from the first byte on: recv and readline, in any mix and with any
\* timeouts, lose, repeat and swap nothing ("Reads some bytes from the connected
\* remote address").
StreamUnbroken ==
    \A h \in Held :
        Table!Connected(Slot(h)) =>
            LET got == returned[h] \o Buffer(h) \o InFlight(h) IN
            got = Table!Bytes(1, Len(got)) /\ got = delivered[Slot(h)]

\* Every method ends, however the peer and the firmware behave: the polls of connect
\* and the waits of recv and readline all have a way out, and so has a command the
\* firmware never answers.
CallsReturn == (call.op # "none") ~> (call.op = "none")

PeerGone(h) ==
    LET psi == sockets[Slot(h)] IN
    /\ psi.pnc # NULL
    /\ conn[psi.pnc].st \in {"fin", "rst"}
    /\ ~Table!HasData(psi.pnc) /\ psi.pbuf = NULL

\* socket.connected tells "Whether or not we are connected to the socket": called on
\* a connection whose peer has gone, with nothing left to read, it finds out, and
\* closes the socket.  The state it asks for never changes once it is ESTABLISHED.
ConnectedIsTrue ==
    \A h \in Objects :
        fw = "up" /\ In("connected", {"avail"}) /\ call.h = h /\ PeerGone(h)
            ~> obj[h] = NULL \/ fw # "up"

=============================================================================
