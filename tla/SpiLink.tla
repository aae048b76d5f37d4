------------------------------- MODULE SpiLink -------------------------------
(***************************************************************************)
(* The SPI transport: spi_dispatch_run of src/spi-dispatch.cpp against     *)
(* _send_command and _wait_response_cmd of the driver, over the select and *)
(* ready pins and the two FIFOs of the slave.  The sketch is built for the *)
(* serial transport (serial_mode = 1); this is the other one.              *)
(*                                                                         *)
(* A transfer moves a byte each way: what the host clocks in while it      *)
(* reads fills the RX FIFO, what it writes empties the TX FIFO, and an     *)
(* empty TX FIFO clocks out zeros.  rx is the FIFO and what the interrupt  *)
(* has moved on from it; beyond RxSize bytes that nobody takes it          *)
(* overflows.                                                              *)
(*                                                                         *)
(* Every wait of the driver can run out, however the firmware stands.      *)
(* That raises and does no more: a program may reset the firmware then, as *)
(* is_connected does, or go on with its next command.                      *)
(***************************************************************************)
EXTENDS Integers, Sequences

CONSTANTS
    Packets,  \* packets a program sends, in any order, up to the end byte
    Left,     \* what _sendbuf may hold behind a packet
    Handled,  \* codes whose handler has an answer
    RxSize,   \* SPI_RX_BUFFER_SIZE
    MaxLost   \* bound: commands before a reset, from the one that failed or went unsound

Bytes == 0 .. 255

ASSUME PacketsAssumption == Packets \subseteq Seq(Bytes) /\ Left \subseteq Bytes
ASSUME HandledAssumption == Handled \subseteq Bytes
ASSUME SizesAssumption == RxSize \in Nat \ {0} /\ MaxLost \in Nat

VARIABLES
    ready, selected,  \* the two pins; selected is chip select, asserted
    rx, tx,           \* the FIFOs
    buffer,           \* rx_buffer
    fw,               \* the dispatcher: place, bytes wanted, ptr, idx, bytes to discard
    host,             \* the driver: place, packet, what the last method came to
    lost,             \* history: commands since the dispatcher was last sure of its place
    turn              \* history: numbers the commands until then, 4 before 1

pins == <<ready, selected>>
sound == lost = 0
vars == <<pins, rx, tx, buffer, fw, host, turn, lost>>

START == 224
END == 238
ERR == 239
SEND_DATA == 68

\* The stages of one command in the dispatcher.
Idle == [at |-> "idle", want |-> 0, ptr |-> 0, idx |-> 0, discard |-> 0]
After(n) == IF n = 4 THEN 1 ELSE n + 1

NoBytes == [i \in 0 .. RxSize - 1 |-> 0]

AtRest == [at |-> "rest", packet |-> <<>>, raised |-> FALSE, value |-> 0]

Init ==
    /\ ready = 0 /\ selected = FALSE
    /\ rx = <<>> /\ tx = <<>>
    /\ buffer = NoBytes
    /\ fw = Idle
    /\ host = AtRest
    /\ turn = 0 /\ lost = 0

-----------------------------------------------------------------------------
(* The dispatcher *)

firmwareOnly == <<selected, host, turn, lost>>

Reads(stage, n, idx, ptr) ==
    fw' = [Idle EXCEPT !.at = stage, !.want = n, !.idx = idx, !.ptr = ptr]

\* Mutant of NextParameter: the loop ends one parameter early.
NextParameterShort(idx, ptr) ==
    IF idx + 1 < buffer'[3]
    THEN Reads("length", IF buffer'[1] = SEND_DATA THEN 2 ELSE 1, idx, ptr)
    ELSE Reads("end", 1, idx, ptr)

\* The loop's test, and the parameter length or the end byte it goes on with.
\* rx_buffer[3], not rx_buffer[2], is taken for the number of parameters.
NextParameter(idx, ptr) ==
    IF idx < buffer'[3]
    THEN Reads("length", IF buffer'[1] = SEND_DATA THEN 2 ELSE 1, idx, ptr)
    ELSE Reads("end", 1, idx, ptr)

Wake ==
    /\ fw.at = "idle" /\ selected
    /\ ready' = 1
    /\ Reads("header", 3, 0, 0)
    /\ UNCHANGED <<firmwareOnly, rx, tx, buffer>>

\* spi_dispatch_read returns when all that was asked for has come.
Take(stage) ==
    /\ fw.at = stage /\ Len(rx) >= fw.want
    /\ fw.ptr + fw.want <= RxSize
    /\ buffer' = [i \in DOMAIN buffer |->
                    IF i \in fw.ptr .. fw.ptr + fw.want - 1 THEN rx[i - fw.ptr + 1] ELSE buffer[i]]
    /\ rx' = SubSeq(rx, fw.want + 1, Len(rx))
    /\ UNCHANGED <<firmwareOnly, ready, tx>>

Header == Take("header") /\ NextParameter(0, 3)

Length ==
    /\ Take("length")
    /\ Reads("data", IF fw.want = 2 THEN 256 * buffer'[fw.ptr] + buffer'[fw.ptr + 1]
                                    ELSE buffer'[fw.ptr],
             fw.idx, fw.ptr + fw.want)

Data == Take("data") /\ NextParameter(fw.idx + 1, fw.ptr + fw.want)

End == Take("end") /\ fw' = [Idle EXCEPT !.at = "execute", !.ptr = fw.ptr + 1]

\* What the handler is given, and its reply, with the turn it is an answer in as its
\* value: 0 if it is not one to the host's command.
Frame == [i \in 1 .. fw.ptr |-> buffer[i - 1]]
ReplyCode(code) == IF code < 128 THEN 128 + code ELSE code
Reply ==
    IF buffer[1] \in Handled
    THEN <<START, ReplyCode(buffer[1]), 1, 1, IF Frame = host.packet THEN turn ELSE 0, END>>
    ELSE <<ERR, 0, END>>

\* The handler and the first half of spi_dispatch_write: the reply fills the TX
\* FIFO, and as many bytes as it has are to be read and thrown away.
WriteReply ==
    /\ fw.at = "execute"
    /\ tx' = tx \o Reply
    /\ LET n == IF Len(rx) < Len(Reply) THEN Len(rx) ELSE Len(Reply)
       IN  /\ rx' = SubSeq(rx, n + 1, Len(rx))
           /\ fw' = [Idle EXCEPT !.at = "select", !.discard = Len(Reply) - n]
    /\ ready' = 0
    /\ UNCHANGED <<firmwareOnly, buffer>>

\* Mutant of Selected: the ready pin stays low.
SelectedQuiet ==
    /\ fw.at = "select" /\ selected
    /\ fw' = [fw EXCEPT !.at = "drain"]
    /\ UNCHANGED <<firmwareOnly, ready, rx, tx, buffer>>

Selected ==
    /\ fw.at = "select" /\ selected
    /\ ready' = 1
    /\ fw' = [fw EXCEPT !.at = "drain"]
    /\ UNCHANGED <<firmwareOnly, rx, tx, buffer>>

\* sem_rx_done: as much has been clocked in as the reply has bytes.
Drain ==
    /\ fw.at = "drain" /\ Len(rx) >= fw.discard
    /\ rx' = SubSeq(rx, fw.discard + 1, Len(rx))
    /\ fw' = [Idle EXCEPT !.at = "release"]
    /\ UNCHANGED <<firmwareOnly, ready, tx, buffer>>

Release ==
    /\ fw.at = "release" /\ ~selected
    /\ ready' = 0
    /\ fw' = Idle
    /\ UNCHANGED <<firmwareOnly, rx, tx, buffer>>

Firmware ==
    \/ Wake \/ Header \/ Length \/ Data \/ End
    \/ WriteReply \/ Selected \/ Drain \/ Release

-----------------------------------------------------------------------------
(* The driver *)

hostOnly == <<ready, buffer, fw, turn>>

Goes(at) == host' = [host EXCEPT !.at = at]

\* How many bytes fill a packet up to whole words.
Pad(packet) == (-Len(packet)) % 4

\* What rx_buffer[3] holds before the header is the number of parameters to the first
\* test of the dispatcher's loop, and the first parameter's length to the others.
Counted(packet) ==
    IF packet[3] = 0 THEN buffer[3] = 0 ELSE buffer[3] > 0 /\ packet[4] = packet[3]

Send(packet) ==
    /\ host.at = "rest" /\ lost < MaxLost
    /\ host' = [AtRest EXCEPT !.at = "send", !.packet = packet]
    /\ lost' = IF sound /\ Pad(host.packet) = 0 /\ Counted(packet) THEN 0 ELSE lost + 1
    /\ turn' = IF lost' = 0 THEN After(turn) ELSE 0
    /\ UNCHANGED <<pins, rx, tx, buffer, fw>>

\* _wait_for_ready, then the select.
Select(from, to) ==
    /\ host.at = from /\ ready = 0
    /\ selected' = TRUE
    /\ Goes(to)
    /\ UNCHANGED <<hostOnly, rx, tx, lost>>

\* A transfer of so many bytes: what comes in, and what is left of the TX FIFO.
Transfer(bytes) ==
    /\ rx' = SubSeq(rx \o bytes, 1, IF Len(rx) + Len(bytes) < RxSize THEN Len(rx) + Len(bytes)
                                                                    ELSE RxSize)
    /\ tx' = SubSeq(tx, Len(bytes) + 1, Len(tx))

Zeros(n) == [i \in 1 .. n |-> 0]

Write ==
    /\ host.at = "write" /\ ready = 1
    /\ \E padding \in [1 .. Pad(host.packet) -> Left] : Transfer(host.packet \o padding)
    /\ Goes("written")
    /\ UNCHANGED <<hostOnly, selected, lost>>

Deselect(from, to) ==
    /\ host.at = from
    /\ selected' = FALSE
    /\ Goes(to)
    /\ UNCHANGED <<hostOnly, rx, tx, lost>>

Begin ==
    /\ host.at = "read" /\ ready = 1
    /\ Goes("reading")
    /\ UNCHANGED <<hostOnly, selected, rx, tx, lost>>

\* _wait_spi_char goes on past what is neither a start byte nor an error byte.
AtMark == tx # <<>> /\ tx[1] \in {START, ERR}

Skip ==
    /\ host.at = "reading" /\ ~AtMark
    /\ Transfer(Zeros(1))
    /\ UNCHANGED <<hostOnly, host, selected, lost>>

\* Up to the byte that is not what it should be, or the whole reply.
IsReply == tx[1] = START /\ tx[2] = 128 + host.packet[2]
ReadLength == IF IsReply THEN 6 ELSE IF tx[1] = START THEN 2 ELSE 1

ReadReply ==
    /\ host.at = "reading" /\ AtMark
    /\ Transfer(Zeros(ReadLength))
    /\ host' = [host EXCEPT !.at = "done", !.raised = ~IsReply,
                            !.value = IF IsReply THEN tx[5] ELSE 0]
    /\ UNCHANGED <<hostOnly, selected, lost>>

\* A wait for the ready pin (10 s for low, 1 s for high) or for the reply's first
\* byte (0.1 s) runs out: the method raises, and the transfer, if there is one, ends.
GiveUp ==
    /\ host.at \in {"send", "write", "reply", "read", "reading"}
    /\ host' = [host EXCEPT !.at = "rest", !.raised = TRUE]
    /\ selected' = FALSE
    /\ lost' = IF sound THEN 1 ELSE lost
    /\ turn' = 0
    /\ UNCHANGED <<ready, buffer, fw, rx, tx>>

\* Mutant of Reset: the reset pin is not wired, as in SerialRTL.
ResetUnwired ==
    /\ host.at = "rest"
    /\ selected' = FALSE
    /\ host' = AtRest
    /\ turn' = 0 /\ lost' = 0
    /\ UNCHANGED <<ready, rx, tx, buffer, fw>>

\* reset, through the pin: RAM and FIFOs of the module start afresh.
Reset ==
    /\ host.at = "rest"
    /\ ready' = 0 /\ selected' = FALSE
    /\ rx' = <<>> /\ tx' = <<>>
    /\ buffer' = NoBytes
    /\ fw' = Idle
    /\ host' = AtRest
    /\ turn' = 0 /\ lost' = 0

Host ==
    \/ Select("send", "write") \/ Write \/ Deselect("written", "reply")
    \/ Select("reply", "read") \/ Begin \/ Skip \/ ReadReply \/ Deselect("done", "rest")

Sends == \E packet \in Packets : Send(packet)

Next == Sends \/ Host \/ Firmware \/ GiveUp \/ Reset

\* Both ends go on while they can; no wait has to run out.
Spec == Init /\ [][Next]_vars /\ WF_vars(Host) /\ WF_vars(Firmware)

-----------------------------------------------------------------------------
Stages == {"idle", "header", "length", "data", "end", "execute", "select", "drain", "release"}
Places == {"rest", "send", "write", "written", "reply", "read", "reading", "done"}

\* Every variable keeps its type, and a chip is selected only inside a transfer.
TypeOK ==
    /\ ready \in {0, 1} /\ selected \in BOOLEAN
    /\ rx \in Seq(Bytes) /\ tx \in Seq(Bytes)
    /\ buffer \in [0 .. RxSize - 1 -> Bytes]
    /\ fw \in [at : Stages, want : Nat, ptr : Nat, idx : Nat, discard : Nat]
    /\ host \in [at : Places, packet : Packets \cup {<<>>}, raised : BOOLEAN, value : Bytes]
    /\ turn \in 0 .. 4 /\ lost \in 0 .. MaxLost
    /\ selected <=> host.at \in {"write", "written", "read", "reading", "done"}

\* rx_buffer has the command's "start, command, param_count" and its parameters when the
\* handler is called: the packet that was sent.
HandsOffWhatWasSent ==
    fw.at = "execute" => Frame = host.packet

\* A handler is given the packet of the command the host is waiting on, from its
\* start byte to its end byte, whatever earlier commands and their replies left in
\* the FIFOs and in rx_buffer: as long as since the last reset no wait has run out,
\* no packet before this one was padded, and rx_buffer[3] held a count that serves.
HandsOff == sound => HandsOffWhatWasSent

\* A method returns the answer to its own command, and raises when there is none.
OwnOutcome ==
    host.at = "done" =>
        /\ host.raised <=> host.packet[2] \notin Handled
        /\ ~host.raised => host.value = turn

\* It does under the same conditions, whoever is the faster at the two handshakes.
OutcomeIsOwn == sound => OwnOutcome

\* The firmware waits for the host to fetch the rest of a reply, with the ready pin
\* high, and the host for that pin to go low.
Standoff(at) == host.at = at /\ ready = 1 /\ fw.at = "drain" /\ Len(rx) < fw.discard

\* The select of the packet is not taken for the one of the reply: the driver would
\* say "ESP32 not responding" of a firmware that has its reply ready.
SelectIsForReply == sound => ~Standoff("reply")

\* An error packet ("Error response to command") leaves the firmware ready for the
\* next command.
ErrorIsReadWhole == sound => ~Standoff("send")

\* Under those conditions every command ends without the help of the clock, but for
\* the two standoffs; and with it every command ends, whatever has happened before.
CommandEnds ==
    /\ (sound /\ host.at # "rest") ~> (host.at = "rest" \/ Standoff("reply") \/ Standoff("send"))
    /\ WF_vars(GiveUp) => ((host.at # "rest") ~> (host.at = "rest"))

=============================================================================
