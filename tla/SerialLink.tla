----------------------------- MODULE SerialLink -----------------------------
(***************************************************************************)
(* The serial transport: serial_dispatch_run of src/serial-dispatch.cpp at *)
(* one end, FakeSerialSPI of testapp/serialrtl.py at the other, a UART in  *)
(* between that delivers every byte in order and after any delay.          *)
(*                                                                         *)
(* A packet is a sequence of bytes: the command's code, then its           *)
(* parameters, whose number the code determines (CmdLen).  A frame is '@', *)
(* a 16 bit length and the packet; a reply is framed the same way and is   *)
(* cut down to the code it answers.  Handlers are taken to return.         *)
(***************************************************************************)
EXTENDS Integers, Sequences

CONSTANTS
    Packets,      \* the command packets a host may send
    CmdLen,       \* length of the packet each command code starts
    BufferSize,   \* SPI_RX_BUFFER_SIZE
    Uninit,       \* what a stack byte may hold before it is written
    LengthTimely, \* the two length bytes have arrived when they are read
    Restarts,     \* the host's program may be killed and started again
    CutShort,     \* ... and what the port had not sent yet is lost
    MaxSends      \* bound: packets a host sends

AT == 64    \* '@'
LOG == 32   \* any byte the firmware's printf puts on the same UART; never '@'

ASSUME PacketsAssumption ==
    \A p \in Packets : /\ p \in Seq(0 .. 255) /\ 0 < Len(p) /\ Len(p) <= BufferSize
                       /\ p[1] < 128 /\ CmdLen[p[1]] = Len(p)  \* no _REPLY_FLAG in it
ASSUME BufferAssumption == BufferSize \in 1 .. 65535  \* the length has two bytes
ASSUME UninitAssumption == Uninit \subseteq 0 .. 255
ASSUME SwitchesAssumption == {LengthTimely, Restarts, CutShort} \subseteq BOOLEAN
ASSUME MaxSendsAssumption == MaxSends \in Nat

VARIABLES
    toFw,      \* bytes on their way to the firmware
    rxFifo,    \* bytes Serial.available() counts
    loop,      \* where serial_dispatch_run is: "seek", "length" or "body"
    bytes,     \* its local bytes[0], bytes[1]
    remaining, \* bytes of the packet still to read
    rxBuffer,  \* rx_buffer
    toHost,    \* bytes on their way to the host
    host,      \* what the host's write is doing
    sent,      \* history: the packets the host wrote
    executed   \* history: the packets the handlers were given

fwVars == <<rxFifo, loop, bytes, remaining, rxBuffer, executed>>
hostVars == <<host, sent>>
vars == <<toFw, fwVars, toHost, hostVars>>

Frame(packet) == <<AT, Len(packet) \div 256, Len(packet) % 256>> \o packet

\* History: "killed" says that the host's program has been killed in a write.
Idle == [doing |-> "idle", need |-> 0, got |-> <<>>, killed |-> FALSE]
Seeks == [Idle EXCEPT !.doing = "seek", !.killed = host.killed]

Init ==
    /\ toFw = <<>> /\ rxFifo = <<>> /\ toHost = <<>>
    /\ loop = "seek"
    /\ bytes \in [0 .. 1 -> Uninit]
    /\ remaining = 0
    /\ rxBuffer = [i \in 1 .. BufferSize |-> 0]
    /\ host = Idle
    /\ sent = <<>>
    /\ executed = <<>>

\* The UART's receiver.
ByteArrives ==
    /\ toFw # <<>>
    /\ rxFifo' = Append(rxFifo, Head(toFw))
    /\ toFw' = Tail(toFw)
    /\ UNCHANGED <<loop, bytes, remaining, rxBuffer, executed, toHost, hostVars>>

-----------------------------------------------------------------------------
(* The firmware *)

\* spi_dispatch_command on rx_buffer; the handler reads as many bytes as the
\* command has, whatever the frame's length was.
Execute(buffer) ==
    /\ executed' = Append(executed, SubSeq(buffer, 1, CmdLen[buffer[1]]))
    /\ toHost' = toHost \o <<LOG>> \o Frame(<<buffer[1] + 128>>)
    /\ bytes' = [bytes EXCEPT ![0] = AT, ![1] = 0]  \* the reply's header is built in bytes
    /\ loop' = "seek"
    /\ remaining' = 0

SeekFrame ==
    /\ loop = "seek"
    /\ rxFifo # <<>>
    /\ bytes' = [bytes EXCEPT ![0] = Head(rxFifo)]
    /\ rxFifo' = Tail(rxFifo)
    /\ loop' = IF Head(rxFifo) = AT THEN "length" ELSE "seek"
    /\ UNCHANGED <<remaining, rxBuffer, executed, toHost>>

\* readBytes with a timeout of 0 takes what has arrived, at most two bytes, and
\* its count is ignored.
Taken == IF Len(rxFifo) < 2 THEN Len(rxFifo) ELSE 2
\* Mutant of LengthBytes: the low byte first.
LengthBytesLowFirst ==
    [i \in 0 .. 1 |-> IF 1 - i < Taken THEN rxFifo[2 - i] ELSE bytes[i]]

LengthBytes == [i \in 0 .. 1 |-> IF i < Taken THEN rxFifo[i + 1] ELSE bytes[i]]

ReadLength ==
    LET len == 256 * LengthBytes[0] + LengthBytes[1] IN
    /\ loop = "length"
    /\ LengthTimely => Taken = 2
    /\ rxFifo' = SubSeq(rxFifo, Taken + 1, Len(rxFifo))
    /\ \/ /\ len > BufferSize  \* the frame is dropped
          /\ bytes' = LengthBytes
          /\ loop' = "seek"
          /\ UNCHANGED <<remaining, executed, toHost>>
       \/ /\ len = 0
          /\ Execute(rxBuffer)
       \/ /\ len \in 1 .. BufferSize
          /\ bytes' = LengthBytes
          /\ remaining' = len
          /\ loop' = "body"
          /\ UNCHANGED <<executed, toHost>>
    /\ UNCHANGED rxBuffer

\* Mutant of Filled: every read starts at the beginning of the buffer.
FilledFromStart(pos, n) ==
    [i \in 1 .. BufferSize |-> IF i \in 1 .. n THEN rxFifo[i] ELSE rxBuffer[i]]

\* The buffer after the next n received bytes.
Filled(pos, n) ==
    [i \in 1 .. BufferSize |-> IF i \in pos + 1 .. pos + n THEN rxFifo[i - pos] ELSE rxBuffer[i]]

FrameLength == 256 * bytes[0] + bytes[1]

\* Mutants of ReadBody: the remainder subtracted the wrong way round, and one read
\* taken for the whole packet.
ReadBodyReversed ==
    LET n == IF Len(rxFifo) < remaining THEN Len(rxFifo) ELSE remaining
        buffer == Filled(FrameLength - remaining, n) IN
    /\ loop = "body"
    /\ rxFifo # <<>>
    /\ rxFifo' = SubSeq(rxFifo, n + 1, Len(rxFifo))
    /\ rxBuffer' = buffer
    /\ IF n = remaining
       THEN Execute(buffer)
       ELSE /\ remaining' = n - remaining
            /\ UNCHANGED <<loop, bytes, executed, toHost>>

ReadBodyOnce ==
    LET n == IF Len(rxFifo) < remaining THEN Len(rxFifo) ELSE remaining
        buffer == Filled(FrameLength - remaining, n) IN
    /\ loop = "body"
    /\ rxFifo # <<>>
    /\ rxFifo' = SubSeq(rxFifo, n + 1, Len(rxFifo))
    /\ rxBuffer' = buffer
    /\ Execute(buffer)

\* readBytes again takes what has arrived; here the loop adds it up.
ReadBody ==
    LET n == IF Len(rxFifo) < remaining THEN Len(rxFifo) ELSE remaining
        buffer == Filled(FrameLength - remaining, n) IN
    /\ loop = "body"
    /\ rxFifo # <<>>
    /\ rxFifo' = SubSeq(rxFifo, n + 1, Len(rxFifo))
    /\ rxBuffer' = buffer
    /\ IF n = remaining
       THEN Execute(buffer)
       ELSE /\ remaining' = remaining - n
            /\ UNCHANGED <<loop, bytes, executed, toHost>>

Firmware ==
    /\ SeekFrame \/ ReadLength \/ ReadBody
    /\ UNCHANGED <<toFw, hostVars>>

-----------------------------------------------------------------------------
(* The host: write sends a frame and reads until it has the whole reply. *)

HostWrites(packet) ==
    /\ host.doing = "idle"
    /\ Len(sent) < MaxSends
    /\ toFw' = toFw \o Frame(packet)
    /\ sent' = Append(sent, packet)
    /\ host' = Seeks
    /\ UNCHANGED <<fwVars, toHost>>

\* One blocking read(1), or one byte of the read of the whole packet.
HostReads ==
    LET byte == Head(toHost) IN
    /\ toHost # <<>>
    /\ toHost' = Tail(toHost)
    /\ \/ /\ host.doing = "seek"
          /\ host' = IF byte = AT THEN [host EXCEPT !.doing = "high"] ELSE host
       \/ /\ host.doing = "high"
          /\ host' = [host EXCEPT !.doing = "low", !.need = 256 * byte]
       \/ /\ host.doing = "low"
          /\ host' = [host EXCEPT !.doing = "body", !.need = @ + byte]
       \/ /\ host.doing = "body"
          /\ host' = [host EXCEPT !.doing = IF host.need = 1 THEN "idle" ELSE "body",
                                  !.need = @ - 1, !.got = Append(@, byte)]
    /\ UNCHANGED <<toFw, fwVars, sent>>

\* The host's program is killed in its write and started again.  Of the reply any
\* part is gone; the firmware notices nothing, for its reset pin is not wired.
HostRestarts ==
    /\ Restarts
    /\ host.doing # "idle"
    /\ \E n \in 0 .. Len(toFw) :
         /\ n < Len(toFw) => CutShort
         /\ toFw' = SubSeq(toFw, 1, n)
    /\ \E n \in 0 .. Len(toHost) : toHost' = SubSeq(toHost, n + 1, Len(toHost))
    /\ host' = [Idle EXCEPT !.killed = TRUE]
    /\ UNCHANGED <<fwVars, sent>>

\* The host's program ends.
HostEnds ==
    /\ host.doing = "idle"
    /\ Len(sent) = MaxSends
    /\ UNCHANGED vars

Next ==
    \/ ByteArrives
    \/ Firmware
    \/ \E packet \in Packets : HostWrites(packet)
    \/ HostReads
    \/ HostRestarts
    \/ HostEnds

Fairness == WF_vars(ByteArrives) /\ WF_vars(Firmware) /\ WF_vars(HostReads)

Spec == Init /\ [][Next]_vars /\ Fairness

-----------------------------------------------------------------------------
\* Every variable keeps its type.
TypeOK ==
    /\ toFw \in Seq(0 .. 255) /\ rxFifo \in Seq(0 .. 255) /\ toHost \in Seq(0 .. 255)
    /\ loop \in {"seek", "length", "body"}
    /\ bytes \in [0 .. 1 -> 0 .. 255]
    /\ remaining \in 0 .. BufferSize
    /\ rxBuffer \in [1 .. BufferSize -> 0 .. 255]
    /\ host.doing \in {"idle", "seek", "high", "low", "body"}
    /\ sent \in Seq(Packets)
    /\ executed \in Seq(Seq(0 .. 255))

\* The dispatcher hands the handlers the packets the host sent, each once and in
\* order: "it bundles up a serial requests, hands it off to a handler", also those of
\* a host that was killed while it waited for a reply.
HandsOffRequests ==
    /\ Len(executed) <= Len(sent)
    /\ \A i \in 1 .. Len(executed) : executed[i] = sent[i]

\* A host that has its reply has the reply to the packet it sent last, and nothing
\* of the exchange is left behind for the next one to trip over.  A host that was
\* killed finds the reply it did not wait for.
ReplyIsOwn ==
    host.doing = "idle" /\ sent # <<>> /\ ~host.killed =>
        /\ host.got = <<sent[Len(sent)][1] + 128>> /\ Len(executed) = Len(sent)
        /\ toFw = <<>> /\ rxFifo = <<>> /\ toHost = <<>> /\ loop = "seek"

\* Every write gets a reply, also one after a kill that lost none of the bytes on
\* their way to the firmware: the dispatcher "then returns the result over serial".
Answered == host.doing # "idle" ~> host.doing = "idle"

=============================================================================
