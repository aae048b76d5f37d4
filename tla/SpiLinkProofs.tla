----------------------------- MODULE SpiLinkProofs -----------------------------
(***************************************************************************)
(* Proofs about SpiLink, for any packets that are formed as the driver     *)
(* forms them and a buffer of any size that holds them.                    *)
(*                                                                         *)
(* Nothing is claimed once `lost` counts; until then the two ends keep     *)
(* step.  Handed says for each place of the host where the dispatcher is   *)
(* and what is in the FIFOs.  Where a packet is read, it lies in rx_buffer *)
(* up to ptr and in the RX FIFO behind, with the bytes it is padded with   *)
(* (Split), and Within ties the dispatcher's stage to a place where the    *)
(* packet is cut into its parameters.  The cut is a function of which only *)
(* the steps from one parameter to the next are known.  After a padded     *)
(* packet (Rough) no more is claimed than that the dispatcher waits: the   *)
(* next one counts as lost.                                                *)
(***************************************************************************)
EXTENDS SpiLink, SequenceTheorems, TLAPS

\* A parameter's length takes one byte or two; Value is that length.
Word(p) == IF p[2] = SEND_DATA THEN 2 ELSE 1
Value(p, at) == IF Word(p) = 2 THEN 256 * p[at + 1] + p[at + 2] ELSE p[at + 1]

\* The p[3] parameters, each with its length before it, end where the end byte
\* stands: cut[i] is where the i-th starts.
Cuts(p) ==
    {cut \in [0 .. p[3] -> 3 .. Len(p)] :
        /\ cut[0] = 3 /\ cut[p[3]] = Len(p) - 1
        /\ \A i \in 0 .. p[3] - 1 :
            /\ cut[i] + Word(p) < Len(p)
            /\ cut[i + 1] = cut[i] + Word(p) + Value(p, cut[i])}

\* What _send_command makes of a command and its parameters, in a buffer that holds it.
Formed ==
    /\ RxSize >= 6
    /\ \A p \in Packets :
        /\ Len(p) >= 4 /\ Len(p) + Pad(p) <= RxSize
        /\ p[2] < 128
        /\ Cuts(p) # {}

-----------------------------------------------------------------------------
(* The inductive invariant *)

Parsing == {"header", "length", "data", "end", "execute"}

Dispatcher == [at : Stages, want : Nat, ptr : Nat, idx : Nat, discard : Nat]
Driver == [at : Places, packet : Packets \cup {<<>>}, raised : BOOLEAN, value : 0 .. 4]

\* The driver by itself, with the outcome of the command that has just ended.
Driving ==
    /\ host \in Driver /\ turn \in 0 .. 4
    /\ host.at # "rest" => host.packet \in Packets
    /\ host.at = "done" =>
        /\ host.raised <=> host.packet[2] \notin Handled
        /\ ~host.raised => host.value = turn

Typed ==
    /\ ready \in {0, 1} /\ selected \in BOOLEAN
    /\ rx \in Seq(Bytes)
    /\ buffer \in [0 .. RxSize - 1 -> Bytes]
    /\ fw \in Dispatcher

\* What the two pins say of the two ends.
Pins ==
    /\ selected <=> host.at \in {"write", "written", "read", "reading", "done"}
    /\ ready = 0 <=> fw.at \in {"idle", "select"}
    /\ host.at = "reading" => ready = 1

\* Nothing of an earlier command is left that the dispatcher would not throw away
\* by itself; or it waits for the rest of an error packet to be read.
Settled ==
    \/ fw.at \in {"idle", "release"} /\ rx = <<>> /\ tx = <<>>
    \/ fw.at = "drain" /\ fw.discard = 6 /\ Len(rx) = 6 /\ tx = <<>>
    \/ fw.at = "drain" /\ fw.discard = 3 /\ Len(rx) = 1

\* The dispatcher is about to read a packet from its start byte on.
AtHeader == fw.at = "header" /\ fw.ptr = 0 /\ fw.want = 3

\* A padded packet has been sent and answered: some of its padding may be left, and
\* the dispatcher waits, at the header too when the reply was as short as the padding.
Rough ==
    /\ host.at \in {"rest", "done"} /\ Pad(host.packet) # 0
    /\ selected <=> host.at = "done"
    /\ \/ fw.at \in {"drain", "release"}
       \/ fw.at = "idle" /\ host.at = "rest"
       \/ AtHeader /\ Len(rx) = 1

\* The packet has not been written yet.
Unwritten == (fw.at = "idle" \/ AtHeader) /\ rx = <<>> /\ tx = <<>> /\ Counted(host.packet)

\* What the driver may write for packet p.
Wires(p) == {p \o padding : padding \in [1 .. Pad(p) -> Left]}

\* Of q the first n bytes are in buffer b and the others in FIFO r.
Split(q, n, r, b) ==
    /\ n \in 0 .. Len(q)
    /\ r = SubSeq(q, n + 1, Len(q))
    /\ \A i \in 0 .. n - 1 : b[i] = q[i + 1]

\* How far the dispatcher is in packet p, cut there into its parameters.
AtLength(p, cut) == fw.at = "length" /\ fw.ptr = cut[fw.idx] /\ fw.want = Word(p)
AtData(p, cut) ==
    fw.at = "data" /\ fw.ptr = cut[fw.idx] + Word(p) /\ fw.want = Value(p, cut[fw.idx])
Within(p) ==
    \/ AtHeader /\ Counted(p)
    \/ /\ fw.idx < p[3] /\ p[4] = p[3]
       /\ \E cut \in Cuts(p) : AtLength(p, cut) \/ AtData(p, cut)
    \/ fw.at = "end" /\ fw.ptr = Len(p) - 1 /\ fw.want = 1
    \/ fw.at = "execute" /\ fw.ptr = Len(p)

Read ==
    /\ tx = <<>> /\ Within(host.packet)
    /\ \E q \in Wires(host.packet) : Split(q, fw.ptr, rx, buffer)

\* The reply to packet p in turn n.
ReplyTo(p, n) ==
    IF p[2] \in Handled THEN <<START, 128 + p[2], 1, 1, n, END>> ELSE <<ERR, 0, END>>

\* The reply is to be fetched.  Padding counts as if it had been clocked in with
\* it, so the dispatcher may throw all of that away and go on before it is.
Answered ==
    /\ rx = <<>> /\ tx = ReplyTo(host.packet, turn)
    /\ \/ /\ fw.at \in {"select", "drain"}
          /\ fw.discard = Len(ReplyTo(host.packet, turn)) - Pad(host.packet)
       \/ /\ Len(ReplyTo(host.packet, turn)) = Pad(host.packet)
          /\ fw.at \in {"release", "idle"} \/ AtHeader

\* Where the dispatcher is at each place of the host.
Handed ==
    \/ host.at = "rest" /\ Settled
    \/ host.at = "send" /\ Settled /\ Counted(host.packet)
    \/ host.at = "write" /\ Unwritten
    \/ host.at \in {"written", "reply"} /\ Read
    \/ host.at \in {"written", "reply", "read", "reading"} /\ Answered
    \/ host.at = "done" /\ Settled /\ fw.at # "idle"

InStep == Typed /\ Pins /\ Handed

IInv == lost \in Nat /\ (sound => Driving /\ (Rough \/ InStep))

-----------------------------------------------------------------------------
(* Bytes and sequences *)

LEMMA ByteIs == ASSUME NEW b \in Bytes PROVE b \in 0 .. 255 /\ b \in Nat /\ b \in Int
BY DEF Bytes

LEMMA EmptyIs == Len(<<>>) = 0 /\ <<>> \in Seq(Bytes) /\ SubSeq(<<>>, 1, 0) = <<>>
OBVIOUS

\* A sequence without its first a elements.
LEMMA RestOf ==
    ASSUME NEW S, NEW p \in Seq(S), NEW a \in 0 .. Len(p), NEW r, r = SubSeq(p, a + 1, Len(p))
    PROVE  r \in Seq(S) /\ Len(r) = Len(p) - a /\ \A i \in 1 .. Len(p) - a : r[i] = p[a + i]
<1>1. Len(p) \in Nat /\ a \in Nat
  BY LenProperties
<1>2. r = [i \in 1 .. Len(p) - a |-> p[i + a]]
  <2>1. 1 + Len(p) - (a + 1) = Len(p) - a /\ \A i \in Int : i + (a + 1) - 1 = i + a
    BY <1>1
  <2> QED
    BY <1>1, <2>1
<1>3. \A i \in 1 .. Len(p) - a : i + a \in 1 .. Len(p) /\ p[i + a] \in S /\ i + a = a + i
  BY <1>1, ElementOfSeq
<1>4. Len(p) - a \in Nat
  BY <1>1
<1> QED
  BY <1>2, <1>3, <1>4, IsASeq, LenProperties

\* Without w more of them it is without its first a + w.
LEMMA RestOfRest ==
    ASSUME NEW S, NEW p \in Seq(S), NEW a \in 0 .. Len(p), NEW w \in 0 .. Len(p) - a, NEW r,
           r = SubSeq(p, a + 1, Len(p))
    PROVE  /\ a + w \in 0 .. Len(p)
           /\ SubSeq(r, w + 1, Len(r)) = SubSeq(p, a + w + 1, Len(p))
<1> DEFINE l == Len(p)
           t == SubSeq(r, w + 1, Len(r))
           u == SubSeq(p, a + w + 1, Len(p))
<1>1. l \in Nat /\ a \in 0 .. l /\ w \in 0 .. l - a
  BY LenProperties
<1>2. r \in Seq(S) /\ Len(r) = l - a /\ \A i \in 1 .. l - a : r[i] = p[a + i]
  BY RestOf
<1>3. t \in Seq(S) /\ Len(t) = l - a - w /\ \A i \in 1 .. l - a - w : t[i] = r[w + i]
  <2>1. w \in 0 .. Len(r)
    BY <1>1, <1>2
  <2>2. t \in Seq(S) /\ Len(t) = Len(r) - w /\ \A i \in 1 .. Len(r) - w : t[i] = r[w + i]
    BY <1>2, <2>1, RestOf
  <2> QED
    BY <1>2, <2>2
<1>4. a + w \in 0 .. l
  BY <1>1
<1>5. u \in Seq(S) /\ Len(u) = l - (a + w) /\ \A i \in 1 .. l - (a + w) : u[i] = p[a + w + i]
  BY <1>4, RestOf
<1> HIDE DEF l, t, u
<1>6. l - a - w = l - (a + w) /\ l - a - w \in Nat
      /\ \A i \in 1 .. l - a - w : w + i \in 1 .. l - a /\ a + (w + i) = a + w + i
  BY <1>1
<1>7. \A i \in 1 .. l - a - w : t[i] = u[i]
  BY <1>2, <1>3, <1>5, <1>6
<1>8. t = u
  BY <1>3, <1>5, <1>6, <1>7, SeqEqual
<1> QED
  BY <1>4, <1>8 DEF l, t, u

LEMMA PadIs == ASSUME NEW p, Len(p) \in Nat PROVE Pad(p) \in 0 .. 3 /\ Pad(p) \in Nat
<1>1. PICK l \in Nat : l = Len(p)
  OBVIOUS
<1>2. (-l) % 4 \in 0 .. 3
  OBVIOUS
<1> QED
  BY <1>1, <1>2 DEF Pad

LEMMA PacketIs ==
    ASSUME Formed, NEW p \in Packets
    PROVE  /\ p \in Seq(Bytes) /\ Len(p) \in Nat /\ Len(p) >= 4
           /\ Pad(p) \in 0 .. 3 /\ Pad(p) \in Nat /\ Len(p) + Pad(p) <= RxSize
           /\ p[2] \in 0 .. 127 /\ p[3] \in Nat /\ p[4] \in Nat
           /\ \E cut : cut \in Cuts(p)
<1>1. p \in Seq(Bytes) /\ Len(p) \in Nat
  BY PacketsAssumption, LenProperties
<1>2. Len(p) >= 4 /\ Len(p) + Pad(p) <= RxSize /\ p[2] < 128 /\ Cuts(p) # {}
  BY DEF Formed
<1>3. 2 \in 1 .. Len(p) /\ 3 \in 1 .. Len(p) /\ 4 \in 1 .. Len(p)
  BY <1>1, <1>2
<1>4. p[2] \in Bytes /\ p[3] \in Bytes /\ p[4] \in Bytes
  BY <1>1, <1>3, ElementOfSeq
<1>5. p[2] \in 0 .. 127 /\ p[3] \in Nat /\ p[4] \in Nat
  <2>1. p[2] \in 0 .. 127
    <3>1. PICK b : b = p[2]
      OBVIOUS
    <3>2. b \in Bytes /\ b < 128
      BY <1>2, <1>4, <3>1
    <3>3. b \in 0 .. 127
      BY <3>2 DEF Bytes
    <3> QED
      BY <3>1, <3>3
  <2>2. p[3] \in Nat /\ p[4] \in Nat
    BY <1>4, ByteIs
  <2> QED
    BY <2>1, <2>2
<1> QED
  BY <1>1, <1>2, <1>5, PadIs

\* What is written begins with the packet, and is as long as whole words take.
LEMMA WireIs ==
    ASSUME Formed, NEW p \in Packets, NEW q \in Wires(p)
    PROVE  /\ q \in Seq(Bytes) /\ Len(q) = Len(p) + Pad(p)
           /\ \A i \in 1 .. Len(p) : q[i] = p[i]
<1>1. PICK padding \in [1 .. Pad(p) -> Left] : q = p \o padding
  BY DEF Wires
<1>2. p \in Seq(Bytes) /\ Len(p) \in Nat /\ Pad(p) \in Nat
  BY PacketIs
<1>3. padding \in Seq(Bytes) /\ Len(padding) = Pad(p)
  <2>1. padding = [i \in 1 .. Pad(p) |-> padding[i]]
    OBVIOUS
  <2>2. \A i \in 1 .. Pad(p) : padding[i] \in Bytes
    BY PacketsAssumption
  <2>3. PICK f : f = padding
    OBVIOUS
  <2>4. f = [i \in 1 .. Pad(p) |-> f[i]] /\ \A i \in 1 .. Pad(p) : f[i] \in Bytes
    BY <2>1, <2>2, <2>3
  <2>5. [i \in 1 .. Pad(p) |-> f[i]] \in Seq(Bytes)
    BY <1>2, <2>4, IsASeq
  <2>6. f \in Seq(Bytes) /\ DOMAIN f = 1 .. Pad(p)
    BY <2>4, <2>5
  <2>7. Len(f) = Pad(p)
    <3>1. Len(f) \in Nat /\ 1 .. Len(f) = 1 .. Pad(p)
      BY <2>6, LenProperties
    <3> QED
      BY <1>2, <3>1
  <2> QED
    BY <2>3, <2>6, <2>7
<1>4. /\ p \o padding \in Seq(Bytes) /\ Len(p \o padding) = Len(p) + Len(padding)
      /\ \A i \in 1 .. Len(p) + Len(padding) :
            (p \o padding)[i] = IF i <= Len(p) THEN p[i] ELSE padding[i - Len(p)]
  BY <1>2, <1>3, ConcatProperties
<1>5. \A i \in 1 .. Len(p) : i \in 1 .. Len(p) + Len(padding) /\ i <= Len(p)
  BY <1>2, <1>3
<1> QED
  BY <1>1, <1>3, <1>4, <1>5

-----------------------------------------------------------------------------
(* The dispatcher reads *)

LEMMA InPart ==
    ASSUME NEW l \in Nat, NEW a \in 0 .. l, NEW w \in Nat, w <= l - a, NEW i \in a .. a + w - 1
    PROVE  i - a + 1 \in 1 .. l - a /\ i - a + 1 \in 1 .. w /\ a + (i - a + 1) = i + 1 /\ i \in Nat
OBVIOUS

\* w bytes of FIFO r go into buffer b behind the first a: c and s are what comes of it.
Moves(r, b, a, w, s, c) ==
    /\ w <= Len(r)
    /\ c = [i \in DOMAIN b |-> IF i \in a .. a + w - 1 THEN r[i - a + 1] ELSE b[i]]
    /\ s = SubSeq(r, w + 1, Len(r))

LEMMA Moved ==
    ASSUME NEW p \in Seq(Bytes), NEW size \in Nat, Len(p) <= size, 3 < size,
           NEW a, NEW r, NEW b \in [0 .. size - 1 -> Bytes], Split(p, a, r, b),
           NEW w \in Nat, NEW s, NEW c, Moves(r, b, a, w, s, c)
    PROVE  /\ Split(p, a + w, s, c) /\ s \in Seq(Bytes) /\ c \in [0 .. size - 1 -> Bytes]
           /\ a + w <= 3 => c[3] = b[3]
<1> DEFINE l == Len(p)
           n == a + w
<1>1. /\ l \in Nat /\ a \in 0 .. l /\ r = SubSeq(p, a + 1, l) /\ w <= Len(r)
      /\ \A i \in 0 .. a - 1 : b[i] = p[i + 1]
  BY LenProperties DEF Split, Moves
<1>2. r \in Seq(Bytes) /\ Len(r) = l - a /\ \A i \in 1 .. l - a : r[i] = p[a + i]
  BY <1>1, RestOf
<1>3. w \in 0 .. l - a
  BY <1>1, <1>2
<1>4. n \in 0 .. l /\ SubSeq(r, w + 1, Len(r)) = SubSeq(p, n + 1, l)
  BY <1>1, <1>3, RestOfRest
<1>5. SubSeq(p, n + 1, l) \in Seq(Bytes)
  BY <1>4, RestOf
<1>6. ASSUME NEW i \in a .. a + w - 1
      PROVE  i - a + 1 \in 1 .. l - a /\ r[i - a + 1] = p[i + 1] /\ r[i - a + 1] \in Bytes
  <2> HIDE DEF l
  <2>1. i - a + 1 \in 1 .. l - a /\ a + (i - a + 1) = i + 1
    BY <1>1, <1>3, InPart
  <2>2. r[i - a + 1] = p[a + (i - a + 1)]
    BY <1>2, <2>1
  <2>3. r[i - a + 1] \in Bytes
    BY <1>2, <2>1, ElementOfSeq
  <2> QED
    BY <2>1, <2>2, <2>3
<1>7. /\ DOMAIN b = 0 .. size - 1 /\ \A i \in 0 .. size - 1 : b[i] \in Bytes
      /\ c = [i \in DOMAIN b |-> IF i \in a .. a + w - 1 THEN r[i - a + 1] ELSE b[i]]
  <2>1. DOMAIN b = 0 .. size - 1 /\ \A i \in 0 .. size - 1 : b[i] \in Bytes
    OBVIOUS
  <2>2. c = [i \in DOMAIN b |-> IF i \in a .. a + w - 1 THEN r[i - a + 1] ELSE b[i]]
    BY DEF Moves
  <2> QED
    BY <2>1, <2>2
<1>8. c \in [0 .. size - 1 -> Bytes]
  <2> DEFINE e(i) == IF i \in a .. a + w - 1 THEN r[i - a + 1] ELSE b[i]
  <2>1. \A i \in 0 .. size - 1 : e(i) \in Bytes
    <3> HIDE DEF n
    <3> QED
      BY <1>6, <1>7
  <2>2. c = [i \in 0 .. size - 1 |-> e(i)]
    BY <1>7
  <2> HIDE DEF e
  <2> QED
    BY <2>1, <2>2
<1>9. ASSUME NEW i \in 0 .. n - 1 PROVE c[i] = p[i + 1]
  <2>1. i \in 0 .. size - 1 /\ (i \in a .. a + w - 1 \/ (i \in 0 .. a - 1 /\ i \notin a .. a + w - 1))
    BY <1>1, <1>4
  <2> QED
    BY <1>1, <1>6, <1>7, <2>1
<1>10. n <= 3 => c[3] = b[3]
  <2>1. n <= 3 => 3 \notin a .. a + w - 1
    BY <1>1, <1>4
  <2>2. 3 \in 0 .. size - 1
    OBVIOUS
  <2> QED
    BY <1>7, <2>1, <2>2
<1> QED
  BY <1>4, <1>5, <1>8, <1>9, <1>10 DEF Split, Moves


\* A part of the packet comes into rx_buffer behind what is there.
LEMMA Taken ==
    ASSUME Formed, Driving, InStep, NEW stage \in {"header", "length", "data", "end"}, Take(stage),
           NEW p, p = host.packet, NEW n, n = fw.ptr + fw.want
    PROVE  /\ fw.at = stage /\ host.at \in {"written", "reply"} /\ p \in Packets
           /\ tx = <<>> /\ Within(p) /\ fw.ptr \in Nat /\ fw.want \in Nat /\ fw.idx \in Nat
           /\ n \in Nat
           /\ \E q \in Wires(p) : Split(q, n, rx', buffer')
           /\ rx' \in Seq(Bytes) /\ buffer' \in [0 .. RxSize - 1 -> Bytes]
           /\ n <= 3 => buffer'[3] = buffer[3]
           /\ UNCHANGED <<ready, selected, tx, host, turn>>
<1>1. /\ fw.at = stage /\ Len(rx) >= fw.want
      /\ buffer' = [i \in DOMAIN buffer |->
                      IF i \in fw.ptr .. fw.ptr + fw.want - 1 THEN rx[i - fw.ptr + 1] ELSE buffer[i]]
      /\ rx' = SubSeq(rx, fw.want + 1, Len(rx))
      /\ UNCHANGED <<ready, selected, tx, host, turn>>
  BY DEF Take, firmwareOnly
<1>2. /\ fw.ptr \in Nat /\ fw.want \in Nat /\ fw.idx \in Nat
      /\ buffer \in [0 .. RxSize - 1 -> Bytes]
  BY DEF InStep, Typed, Dispatcher
<1>3. ~(rx = <<>> /\ AtHeader)
  BY <1>1, EmptyIs DEF AtHeader
<1>4. host.at \in {"written", "reply"} /\ Read
  <2>1. fw.at \notin {"idle", "select", "drain", "release"}
    BY <1>1
  <2> QED
    BY <1>3, <2>1 DEF InStep, Handed, Settled, Unwritten, Answered
<1>5. p \in Packets /\ tx = <<>> /\ Within(p)
  BY <1>4 DEF Driving, Read
<1>6. PICK q \in Wires(p) : Split(q, fw.ptr, rx, buffer)
  BY <1>4 DEF Read
<1>7. q \in Seq(Bytes) /\ RxSize \in Nat /\ Len(q) <= RxSize /\ 3 < RxSize
  <2>1. q \in Seq(Bytes) /\ Len(q) = Len(p) + Pad(p)
    BY <1>5, <1>6, WireIs
  <2>2. Len(p) + Pad(p) <= RxSize
    BY <1>5, PacketIs
  <2>3. RxSize \in Nat /\ RxSize >= 6
    BY SizesAssumption DEF Formed
  <2> QED
    BY <2>1, <2>2, <2>3
<1>8. /\ Split(q, n, rx', buffer') /\ rx' \in Seq(Bytes)
      /\ buffer' \in [0 .. RxSize - 1 -> Bytes]
      /\ n <= 3 => buffer'[3] = buffer[3]
  <2>1. PICK a, w, r, b, c, t :
          a = fw.ptr /\ w = fw.want /\ r = rx /\ b = buffer /\ c = buffer' /\ t = rx'
    OBVIOUS
  <2>2. Moves(r, b, a, w, t, c)
    <3>1. w <= Len(r)
      <4>1. Len(r) \in Nat
        BY <2>1, LenProperties DEF InStep, Typed
      <4> QED
        BY <1>1, <1>2, <2>1, <4>1
    <3> QED
      BY <1>1, <2>1, <3>1 DEF Moves
  <2>3. /\ Split(q, a, r, b) /\ w \in Nat /\ b \in [0 .. RxSize - 1 -> Bytes]
    BY <1>2, <1>6, <2>1
  <2>4. /\ Split(q, a + w, t, c) /\ t \in Seq(Bytes) /\ c \in [0 .. RxSize - 1 -> Bytes]
        /\ a + w <= 3 => c[3] = b[3]
    BY <1>7, <2>2, <2>3, Moved
  <2> QED
    BY <2>1, <2>4
<1>9. n \in Nat /\ \E x \in Wires(p) : Split(x, n, rx', buffer')
  BY <1>2, <1>6, <1>8
<1> QED
  BY <1>1, <1>2, <1>4, <1>5, <1>8, <1>9

\* It goes on reading: only its place in the packet is to be shown.
LEMMA StillParsing ==
    ASSUME InStep, host.at \in {"written", "reply"}, fw.at \in Parsing, fw'.at \in Parsing,
           fw' \in Dispatcher, rx' \in Seq(Bytes), buffer' \in [0 .. RxSize - 1 -> Bytes],
           UNCHANGED <<ready, selected, tx, host, turn>>, tx = <<>>,
           NEW p, p = host.packet, NEW q \in Wires(p), Split(q, fw'.ptr, rx', buffer'), Within(p)'
    PROVE  InStep'
<1>1. Typed'
  BY DEF InStep, Typed
<1>2. Pins'
  BY DEF InStep, Pins, Parsing
<1>3. Read'
  <2>1. host'.packet = p /\ tx' = <<>>
    OBVIOUS
  <2>2. Within(host.packet)'
    BY <2>1 DEF Within, AtLength, AtData, AtHeader, Counted
  <2>3. \E x \in Wires(host'.packet) : Split(x, fw'.ptr, rx', buffer')
    BY <2>1
  <2> QED
    BY <2>1, <2>2, <2>3 DEF Read, Split
<1> QED
  BY <1>1, <1>2, <1>3 DEF InStep, Handed

\* Reads(stage, n, idx, ptr) is a state of the dispatcher.
LEMMA ReadsIs ==
    ASSUME NEW stage \in Stages, NEW n \in Nat, NEW idx \in Nat, NEW ptr \in Nat,
           Reads(stage, n, idx, ptr)
    PROVE  /\ fw' \in Dispatcher /\ fw'.at = stage /\ fw'.want = n /\ fw'.idx = idx
           /\ fw'.ptr = ptr
BY DEF Reads, Idle, Dispatcher

LEMMA WordIs == ASSUME NEW p PROVE Word(p) \in {1, 2} /\ Word(p) \in Nat /\ Word(p) >= 1
BY DEF Word

\* The first n bytes of packet p are in buffer b.
Filled(p, n, b) == \A i \in 0 .. n - 1 : b[i] = p[i + 1]

LEMMA FilledIs ==
    ASSUME Formed, NEW p \in Packets, NEW q \in Wires(p), NEW n \in Nat, n <= Len(p),
           NEW r, NEW b, Split(q, n, r, b)
    PROVE  Filled(p, n, b)
<1>1. Len(p) \in Nat /\ \A i \in 1 .. Len(p) : q[i] = p[i]
  BY PacketIs, WireIs
<1>2. ASSUME NEW i \in 0 .. n - 1 PROVE b[i] = p[i + 1]
  <2>1. i + 1 \in 1 .. Len(p)
    BY <1>1
  <2>2. b[i] = q[i + 1] /\ q[i + 1] = p[i + 1]
    BY <1>1, <2>1 DEF Split
  <2> QED
    BY <2>2
<1> QED
  BY <1>2 DEF Filled

LEMMA HeadIs ==
    ASSUME NEW p, NEW n \in Nat, n >= 4, NEW b, Filled(p, n, b)
    PROVE  b[1] = p[2] /\ b[3] = p[4]
<1>1. 1 \in 0 .. n - 1 /\ 3 \in 0 .. n - 1 /\ 1 + 1 = 2 /\ 3 + 1 = 4
  OBVIOUS
<1>2. b[1] = p[1 + 1] /\ b[3] = p[3 + 1]
  BY <1>1 DEF Filled
<1> QED
  BY <1>1, <1>2

\* A length of one or two bytes, at at.
LEMMA ValueIs ==
    ASSUME NEW p \in Seq(Bytes), NEW at \in Nat, NEW n, n = at + Word(p), n <= Len(p),
           NEW b, Filled(p, n, b)
    PROVE  /\ Value(p, at) \in Nat
           /\ Value(p, at) = IF Word(p) = 2 THEN 256 * b[at] + b[at + 1] ELSE b[at]
<1>1. Word(p) \in {1, 2} /\ Len(p) \in Nat /\ n \in Nat
  BY WordIs, LenProperties
<1>2. at \in 0 .. n - 1 /\ at + 1 \in 1 .. Len(p)
  BY <1>1
<1>3. b[at] = p[at + 1] /\ p[at + 1] \in Bytes
  BY <1>2, ElementOfSeq DEF Filled
<1>4. CASE Word(p) = 1
  BY <1>3, <1>4, ByteIs DEF Value
<1>5. CASE Word(p) = 2
  <2>1. at + 1 \in 0 .. n - 1 /\ at + 2 \in 1 .. Len(p) /\ at + 1 + 1 = at + 2
    BY <1>1, <1>5
  <2>2. b[at + 1] = p[at + 2] /\ p[at + 2] \in Bytes
    <3>1. b[at + 1] = p[at + 1 + 1]
      BY <2>1 DEF Filled
    <3>2. p[at + 2] \in Bytes
      BY <2>1, ElementOfSeq
    <3> QED
      BY <2>1, <3>1, <3>2
  <2>3. p[at + 1] \in Nat /\ p[at + 2] \in Nat
    BY <1>3, <2>2, ByteIs
  <2>4. Value(p, at) = 256 * p[at + 1] + p[at + 2]
    BY <1>5 DEF Value
  <2>5. 256 * p[at + 1] + p[at + 2] \in Nat
    BY <2>3
  <2> QED
    BY <1>3, <1>5, <2>2, <2>4, <2>5
<1> QED
  BY <1>1, <1>4, <1>5

LEMMA CutIs ==
    ASSUME NEW p \in Seq(Bytes), NEW cut \in Cuts(p), p[3] \in Nat, NEW i \in Nat, i < p[3]
    PROVE  /\ cut[i] \in 3 .. Len(p) /\ cut[i + 1] \in 3 .. Len(p)
           /\ cut[i] \in Nat /\ cut[i + 1] \in Nat /\ cut[i] + Word(p) < Len(p)
           /\ cut[i + 1] = cut[i] + Word(p) + Value(p, cut[i])
<1> DEFINE k == p[3]
           l == Len(p)
<1>1. k \in Nat /\ l \in Nat /\ i < k
  BY LenProperties
<1> HIDE DEF k, l
<1>2. i \in 0 .. k - 1 /\ i \in 0 .. k /\ i + 1 \in 0 .. k
  BY <1>1
<1> USE DEF k, l
<1>3. cut[i] \in 3 .. Len(p) /\ cut[i + 1] \in 3 .. Len(p)
  BY <1>2 DEF Cuts
<1> QED
  BY <1>1, <1>2, <1>3 DEF Cuts

LEMMA EndsAt == ASSUME NEW p, NEW cut \in Cuts(p) PROVE cut[0] = 3 /\ cut[p[3]] = Len(p) - 1
BY DEF Cuts

LEMMA HeaderKeeps == ASSUME Formed, Driving, InStep, Header PROVE InStep'
<1>1. PICK p, n : p = host.packet /\ n = fw.ptr + fw.want
  OBVIOUS
<1>2. /\ fw.at = "header" /\ host.at \in {"written", "reply"} /\ p \in Packets /\ tx = <<>>
      /\ Within(p) /\ rx' \in Seq(Bytes) /\ buffer' \in [0 .. RxSize - 1 -> Bytes]
      /\ (n <= 3 => buffer'[3] = buffer[3])
      /\ UNCHANGED <<ready, selected, tx, host, turn>>
  BY <1>1, Taken DEF Header
<1>3. PICK q \in Wires(p) : Split(q, n, rx', buffer')
  BY <1>1, Taken DEF Header
<1>4. n = 3 /\ Counted(p)
  BY <1>1, <1>2 DEF Within, AtHeader, AtLength, AtData
<1>5. p \in Seq(Bytes) /\ Len(p) \in Nat /\ Len(p) >= 4 /\ p[3] \in Nat
  BY <1>2, PacketIs
<1>6. buffer'[3] = buffer[3] /\ buffer'[1] = p[2] /\ buffer'[3] \in Nat
  <2>1. 1 \in 0 .. n - 1 /\ 1 + 1 = 2 /\ 3 \in 0 .. RxSize - 1
    BY <1>4, SizesAssumption DEF Formed
  <2>2. PICK r, b : r = rx' /\ b = buffer'
    OBVIOUS
  <2>3. Filled(p, n, b)
    BY <1>2, <1>3, <1>4, <1>5, <2>2, FilledIs
  <2>4. buffer'[1] = p[1 + 1]
    BY <2>1, <2>2, <2>3 DEF Filled
  <2>5. buffer'[3] \in Nat
    BY <1>2, <2>1, ByteIs
  <2> QED
    BY <1>2, <1>4, <2>1, <2>4, <2>5
<1>7. PICK cut : cut \in Cuts(p)
  BY <1>2, PacketIs
<1>8. CASE p[3] = 0
  <2>1. Reads("end", 1, 0, 3)
    BY <1>4, <1>6, <1>8 DEF Header, NextParameter, Counted
  <2>2. fw' \in Dispatcher /\ fw'.at = "end" /\ fw'.want = 1 /\ fw'.ptr = 3
    BY <2>1, ReadsIs DEF Stages
  <2>3. Len(p) - 1 = 3
    BY <1>7, <1>8, EndsAt
  <2>4. Within(p)'
    BY <2>2, <2>3 DEF Within
  <2> QED
    BY <1>1, <1>2, <1>3, <1>4, <2>2, <2>4, StillParsing DEF Parsing
<1>9. CASE p[3] # 0
  <2>1. buffer[3] > 0 /\ p[4] = p[3] /\ 0 < p[3]
    BY <1>4, <1>5, <1>9 DEF Counted
  <2>2. Reads("length", Word(p), 0, 3)
    BY <1>6, <2>1 DEF Header, NextParameter, Word
  <2>3. /\ fw' \in Dispatcher /\ fw'.at = "length" /\ fw'.want = Word(p) /\ fw'.ptr = 3
        /\ fw'.idx = 0
    BY <2>2, ReadsIs, WordIs DEF Stages
  <2>4. AtLength(p, cut)'
    BY <1>7, <2>3, EndsAt DEF AtLength
  <2>5. Within(p)'
    BY <1>7, <2>1, <2>3, <2>4 DEF Within
  <2> QED
    BY <1>1, <1>2, <1>3, <1>4, <2>3, <2>5, StillParsing DEF Parsing
<1> QED
  BY <1>8, <1>9

LEMMA LengthKeeps == ASSUME Formed, Driving, InStep, Length PROVE InStep'
<1>1. PICK p, n, at, i, r, b :
         p = host.packet /\ r = rx' /\ b = buffer' /\ n = fw.ptr + fw.want /\ at = fw.ptr /\ i = fw.idx
  OBVIOUS
<1>2. /\ fw.at = "length" /\ host.at \in {"written", "reply"} /\ p \in Packets /\ tx = <<>>
      /\ Within(p) /\ rx' \in Seq(Bytes) /\ buffer' \in [0 .. RxSize - 1 -> Bytes]
      /\ at \in Nat /\ i \in Nat /\ n \in Nat
      /\ UNCHANGED <<ready, selected, tx, host, turn>>
  BY <1>1, Taken DEF Length
<1>3. PICK q \in Wires(p) : Split(q, n, r, b)
  BY <1>1, Taken DEF Length
<1>4. i < p[3] /\ p[4] = p[3]
  BY <1>1, <1>2 DEF Within, AtHeader
<1>5. PICK cut \in Cuts(p) : at = cut[i] /\ fw.want = Word(p)
  BY <1>1, <1>2 DEF Within, AtHeader, AtLength, AtData
<1>6. p \in Seq(Bytes) /\ Len(p) \in Nat /\ p[3] \in Nat
  BY <1>2, PacketIs
<1>7. /\ cut[i] \in 3 .. Len(p) /\ cut[i + 1] <= Len(p) /\ cut[i] + Word(p) < Len(p)
      /\ cut[i + 1] = cut[i] + Word(p) + Value(p, cut[i])
  BY <1>2, <1>4, <1>5, <1>6, CutIs
<1>8. n = at + Word(p) /\ n >= 4 /\ n <= Len(p)
  BY <1>1, <1>2, <1>5, <1>6, <1>7, WordIs
<1>9. Filled(p, n, b)
  BY <1>2, <1>3, <1>8, FilledIs
<1>10. /\ Value(p, at) \in Nat
       /\ Value(p, at) = IF Word(p) = 2 THEN 256 * buffer'[at] + buffer'[at + 1] ELSE buffer'[at]
  <2>1. /\ Value(p, at) \in Nat
        /\ Value(p, at) = IF Word(p) = 2 THEN 256 * b[at] + b[at + 1] ELSE b[at]
    BY <1>2, <1>6, <1>8, <1>9, ValueIs
  <2> QED
    BY <1>1, <2>1
<1>11. Reads("data", Value(p, at), i, n)
  BY <1>1, <1>5, <1>10 DEF Length
<1>12. /\ fw' \in Dispatcher /\ fw'.at = "data" /\ fw'.want = Value(p, at) /\ fw'.ptr = n
       /\ fw'.idx = i
  BY <1>2, <1>10, <1>11, ReadsIs DEF Stages
<1>13. Within(p)'
  <2>1. AtData(p, cut)'
    BY <1>5, <1>8, <1>12 DEF AtData
  <2> QED
    BY <1>4, <1>5, <1>12, <2>1 DEF Within
<1> QED
  BY <1>1, <1>2, <1>3, <1>12, <1>13, StillParsing DEF Parsing

LEMMA DataKeeps == ASSUME Formed, Driving, InStep, Data PROVE InStep'
<1>1. PICK p, n, i, r, b : p = host.packet /\ r = rx' /\ b = buffer' /\ n = fw.ptr + fw.want /\ i = fw.idx
  OBVIOUS
<1>2. /\ fw.at = "data" /\ host.at \in {"written", "reply"} /\ p \in Packets /\ tx = <<>>
      /\ Within(p) /\ rx' \in Seq(Bytes) /\ buffer' \in [0 .. RxSize - 1 -> Bytes]
      /\ fw.want \in Nat /\ i \in Nat /\ n \in Nat
      /\ UNCHANGED <<ready, selected, tx, host, turn>>
  BY <1>1, Taken DEF Data
<1>3. PICK q \in Wires(p) : Split(q, n, r, b)
  BY <1>1, Taken DEF Data
<1>4. i < p[3] /\ p[4] = p[3]
  BY <1>1, <1>2 DEF Within, AtHeader
<1>5. PICK cut \in Cuts(p) : fw.ptr = cut[i] + Word(p) /\ fw.want = Value(p, cut[i])
  BY <1>1, <1>2 DEF Within, AtHeader, AtLength, AtData
<1>6. p \in Seq(Bytes) /\ Len(p) \in Nat /\ p[3] \in Nat
  BY <1>2, PacketIs
<1>7. n = cut[i + 1] /\ n >= 4 /\ n <= Len(p)
  <2>1. PICK c : c = cut[i] /\ c \in Nat /\ c >= 3 /\ cut[i + 1] <= Len(p)
                 /\ cut[i + 1] = c + Word(p) + Value(p, c)
    BY <1>2, <1>4, <1>5, <1>6, CutIs
  <2>2. n = c + Word(p) + fw.want /\ Word(p) >= 1 /\ Word(p) \in Nat
    BY <1>1, <1>5, <2>1, WordIs
  <2>3. n >= 4
    BY <1>2, <2>1, <2>2
  <2> QED
    BY <1>5, <2>1, <2>2, <2>3
<1>8. buffer'[1] = p[2] /\ buffer'[3] = p[3]
  <2>1. Filled(p, n, b)
    BY <1>2, <1>3, <1>7, FilledIs
  <2> QED
    BY <1>1, <1>2, <1>4, <1>7, <2>1, HeadIs
<1>9. i + 1 \in Nat
  BY <1>2
<1>10. CASE i + 1 < p[3]
  <2>1. Reads("length", Word(p), i + 1, n)
    BY <1>1, <1>8, <1>10 DEF Data, NextParameter, Word
  <2>2. /\ fw' \in Dispatcher /\ fw'.at = "length" /\ fw'.want = Word(p) /\ fw'.ptr = n
        /\ fw'.idx = i + 1
    BY <1>2, <1>9, <2>1, ReadsIs, WordIs DEF Stages
  <2>3. AtLength(p, cut)'
    BY <1>7, <2>2 DEF AtLength
  <2>4. Within(p)'
    BY <1>4, <1>5, <1>10, <2>2, <2>3 DEF Within
  <2> QED
    BY <1>1, <1>2, <1>3, <2>2, <2>4, StillParsing DEF Parsing
<1>11. CASE i + 1 = p[3]
  <2>1. Reads("end", 1, i + 1, n)
    BY <1>1, <1>6, <1>8, <1>11 DEF Data, NextParameter
  <2>2. /\ fw' \in Dispatcher /\ fw'.at = "end" /\ fw'.want = 1 /\ fw'.ptr = n
    BY <1>2, <1>9, <2>1, ReadsIs DEF Stages
  <2>3. n = Len(p) - 1
    BY <1>5, <1>7, <1>11, EndsAt
  <2>4. Within(p)'
    BY <2>2, <2>3 DEF Within
  <2> QED
    BY <1>1, <1>2, <1>3, <2>2, <2>4, StillParsing DEF Parsing
<1> QED
  BY <1>2, <1>4, <1>6, <1>10, <1>11

LEMMA EndKeeps == ASSUME Formed, Driving, InStep, End PROVE InStep'
<1>1. PICK p, n : p = host.packet /\ n = fw.ptr + fw.want
  OBVIOUS
<1>2. /\ fw.at = "end" /\ host.at \in {"written", "reply"} /\ p \in Packets /\ tx = <<>>
      /\ Within(p) /\ rx' \in Seq(Bytes) /\ buffer' \in [0 .. RxSize - 1 -> Bytes]
      /\ UNCHANGED <<ready, selected, tx, host, turn>>
  BY <1>1, Taken DEF End
<1>3. PICK q \in Wires(p) : Split(q, n, rx', buffer')
  BY <1>1, Taken DEF End
<1>4. fw.ptr = Len(p) - 1 /\ fw.want = 1
  BY <1>2 DEF Within, AtHeader, AtLength, AtData
<1>5. Len(p) \in Nat
  BY <1>2, PacketIs
<1>6. n = Len(p) /\ fw.ptr + 1 = n
  BY <1>1, <1>4, <1>5
<1>7. fw' = [Idle EXCEPT !.at = "execute", !.ptr = n]
  BY <1>6 DEF End
<1>8. fw' \in Dispatcher /\ fw'.at = "execute" /\ fw'.ptr = n
  BY <1>5, <1>6, <1>7 DEF Idle, Dispatcher, Stages
<1>9. Within(p)'
  BY <1>6, <1>8 DEF Within
<1> QED
  BY <1>1, <1>2, <1>3, <1>8, <1>9, StillParsing DEF Parsing

-----------------------------------------------------------------------------
(* The dispatcher answers *)

LEMMA WakeKeeps == ASSUME Driving, InStep, Wake PROVE InStep'
<1>1. /\ fw.at = "idle" /\ selected /\ ready' = 1
      /\ UNCHANGED <<selected, host, rx, tx, buffer, turn>>
  BY DEF Wake, firmwareOnly
<1>2. fw' \in Dispatcher /\ AtHeader'
  <2>1. Reads("header", 3, 0, 0)
    BY DEF Wake
  <2> QED
    BY <2>1, ReadsIs DEF Stages, AtHeader
<1>3. \/ host.at = "write" /\ Unwritten
      \/ /\ host.at \in {"written", "reply", "read", "reading"} /\ rx = <<>>
         /\ tx = ReplyTo(host.packet, turn) /\ Len(tx) = Pad(host.packet)
  <2>1. host.at \notin {"rest", "send"}
    BY <1>1 DEF InStep, Pins
  <2>2. ~Read
    BY <1>1 DEF Read, Within, AtHeader, AtLength, AtData
  <2> QED
    BY <1>1, <2>1, <2>2 DEF InStep, Handed, Answered
<1>4. Typed'
  BY <1>1, <1>2 DEF InStep, Typed
<1>5. Pins'
  BY <1>1, <1>2 DEF InStep, Pins, AtHeader
<1>6. Handed'
  <2>1. CASE host.at = "write" /\ Unwritten
    <3>1. Unwritten'
      BY <1>1, <1>2, <2>1 DEF Unwritten, Counted
    <3> QED
      BY <1>1, <2>1, <3>1 DEF Handed
  <2>2. CASE host.at # "write"
    <3>1. Answered'
      BY <1>1, <1>2, <1>3, <2>2 DEF Answered
    <3> QED
      BY <1>1, <1>3, <2>2, <3>1 DEF Handed
  <2> QED
    BY <1>3, <2>1, <2>2
<1> QED
  BY <1>4, <1>5, <1>6 DEF InStep

\* At the handler the packet is in rx_buffer, whole, and only what it was padded with
\* is left in the FIFO.
LEMMA Executing ==
    ASSUME Formed, Driving, InStep, fw.at = "execute", NEW p, p = host.packet
    PROVE  /\ host.at \in {"written", "reply"} /\ p \in Packets
           /\ tx = <<>> /\ Len(rx) = Pad(p) /\ rx \in Seq(Bytes)
           /\ Frame = p /\ buffer[1] = p[2]
<1>1. PICK n, r, b : n = fw.ptr /\ r = rx /\ b = buffer
  OBVIOUS
<1>2. host.at \in {"written", "reply"} /\ Read
  BY DEF InStep, Handed, Settled, Unwritten, Answered, AtHeader
<1>3. p \in Packets /\ tx = <<>> /\ n = Len(p)
  BY <1>1, <1>2 DEF Driving, Read, Within, AtHeader, AtLength, AtData
<1>4. PICK q \in Wires(p) : Split(q, n, r, b)
  BY <1>1, <1>2 DEF Read
<1>5. p \in Seq(Bytes) /\ Len(p) \in Nat /\ Len(p) >= 4 /\ Pad(p) \in Nat
  BY <1>3, PacketIs
<1>6. Filled(p, n, b)
  BY <1>3, <1>4, <1>5, FilledIs
<1>7. b[1] = p[2]
  BY <1>3, <1>5, <1>6, HeadIs
<1>8. r \in Seq(Bytes) /\ Len(r) = Pad(p)
  <2>1. q \in Seq(Bytes) /\ Len(q) = Len(p) + Pad(p)
    BY <1>3, WireIs
  <2>2. n \in 0 .. Len(q) /\ r = SubSeq(q, n + 1, Len(q))
    BY <1>4 DEF Split
  <2>3. r \in Seq(Bytes) /\ Len(r) = Len(q) - n
    BY <2>1, <2>2, RestOf
  <2> QED
    BY <1>3, <1>5, <2>1, <2>3
<1>9. Frame = p
  <2>1. Frame = [i \in 1 .. n |-> b[i - 1]]
    BY <1>1 DEF Frame
  <2>2. \A i \in 1 .. n : b[i - 1] = p[i]
    <3>1. \A i \in 1 .. n : i - 1 \in 0 .. n - 1 /\ i - 1 + 1 = i
      BY <1>3, <1>5
    <3> QED
      BY <1>6, <3>1 DEF Filled
  <2>3. p = [i \in 1 .. n |-> p[i]]
    BY <1>3, <1>5
  <2> QED
    BY <2>1, <2>2, <2>3
<1> QED
  BY <1>1, <1>2, <1>3, <1>7, <1>8, <1>9

LEMMA ReplyIs ==
    ASSUME NEW p, p[2] \in 0 .. 127, NEW n
    PROVE  /\ Len(ReplyTo(p, n)) = IF p[2] \in Handled THEN 6 ELSE 3
           /\ ReplyTo(p, n)[1] = IF p[2] \in Handled THEN START ELSE ERR
           /\ p[2] \in Handled => ReplyTo(p, n)[2] = 128 + p[2] /\ ReplyTo(p, n)[5] = n
           /\ ReplyTo(p, n) # <<>>
BY DEF ReplyTo

LEMMA WriteReplyKeeps == ASSUME Formed, Driving, InStep, WriteReply PROVE InStep'
<1>1. fw.at = "execute" /\ UNCHANGED <<selected, host, buffer, turn>> /\ ready' = 0
  BY DEF WriteReply, firmwareOnly
<1>2. PICK p, k : p = host.packet /\ k = Len(ReplyTo(p, turn))
  OBVIOUS
<1>3. /\ host.at \in {"written", "reply"} /\ p \in Packets
      /\ tx = <<>> /\ Len(rx) = Pad(p) /\ rx \in Seq(Bytes) /\ Frame = p /\ buffer[1] = p[2]
  BY <1>1, <1>2, Executing
<1>4. p[2] \in 0 .. 127 /\ Pad(p) \in 0 .. 3
  BY <1>3, PacketIs
<1>5. k \in {3, 6}
  BY <1>2, <1>4, ReplyIs
<1>6. Reply = ReplyTo(p, turn)
  <2>1. ReplyCode(p[2]) = 128 + p[2]
    BY <1>4 DEF ReplyCode
  <2> QED
    BY <1>2, <1>3, <2>1 DEF Reply, ReplyTo
<1>7. tx' = ReplyTo(p, turn)
  <2>1. <<>> \o ReplyTo(p, turn) = ReplyTo(p, turn)
    BY DEF ReplyTo
  <2> QED
    BY <1>3, <1>6, <2>1 DEF WriteReply
<1>8. rx' = <<>> /\ fw' = [Idle EXCEPT !.at = "select", !.discard = k - Pad(p)]
  <2> DEFINE n == IF Len(rx) < Len(Reply) THEN Len(rx) ELSE Len(Reply)
  <2>1. n = Pad(p)
    <3>1. Len(rx) = Pad(p) /\ Len(Reply) = k
      BY <1>2, <1>3, <1>6
    <3>2. PICK a : a = Pad(p) /\ a \in 0 .. 3
      BY <1>4
    <3>3. n = IF a < k THEN a ELSE k
      BY <3>1, <3>2
    <3>4. (IF a < k THEN a ELSE k) = a
      BY <1>5, <3>2
    <3> QED
      BY <3>2, <3>3, <3>4
  <2>2. rx' = SubSeq(rx, n + 1, Len(rx)) /\ fw' = [Idle EXCEPT !.at = "select", !.discard = Len(Reply) - n]
    BY DEF WriteReply
  <2> HIDE DEF n
  <2>3. rx' = SubSeq(rx, Pad(p) + 1, Len(rx))
    BY <2>1, <2>2
  <2>4. PICK s : s = rx'
    OBVIOUS
  <2>5. s \in Seq(Bytes) /\ Len(s) = Len(rx) - Pad(p)
    BY <1>3, <1>4, <2>3, <2>4, RestOf
  <2>6. s = <<>>
    BY <1>3, <1>4, <2>5, EmptySeq
  <2> QED
    BY <1>2, <1>6, <2>1, <2>2, <2>4, <2>6
<1>9. fw' \in Dispatcher /\ fw'.at = "select" /\ fw'.discard = k - Pad(p)
  <2>1. PICK d : d = k - Pad(p)
    OBVIOUS
  <2>2. d \in Nat
    BY <1>4, <1>5, <2>1
  <2>3. fw' = [Idle EXCEPT !.at = "select", !.discard = d]
    BY <1>8, <2>1
  <2> QED
    BY <2>1, <2>2, <2>3 DEF Idle, Dispatcher, Stages
<1>10. Typed'
  BY <1>1, <1>8, <1>9, EmptyIs DEF InStep, Typed
<1>11. Pins'
  BY <1>1, <1>3, <1>9 DEF InStep, Pins
<1>12. Answered'
  BY <1>1, <1>2, <1>7, <1>8, <1>9 DEF Answered
<1> QED
  BY <1>1, <1>3, <1>10, <1>11, <1>12 DEF InStep, Handed

\* The select it waits for may be that of the packet itself.
LEMMA SelectedKeeps == ASSUME Driving, InStep, Selected PROVE InStep'
<1>1. /\ fw.at = "select" /\ selected /\ ready' = 1
      /\ UNCHANGED <<selected, host, rx, tx, buffer, turn>>
  BY DEF Selected, firmwareOnly
<1>2. fw' \in Dispatcher /\ fw'.at = "drain" /\ fw'.discard = fw.discard
  <2>1. fw' = [fw EXCEPT !.at = "drain"] /\ fw \in Dispatcher
    BY DEF Selected, InStep, Typed
  <2> QED
    BY <2>1 DEF Dispatcher, Stages
<1>3. host.at \in {"written", "reply", "read", "reading"} /\ Answered
  BY <1>1 DEF InStep, Handed, Settled, Unwritten, Read, Within, AtHeader, AtLength, AtData
<1>4. Typed'
  BY <1>1, <1>2 DEF InStep, Typed
<1>5. Pins'
  BY <1>1, <1>2 DEF InStep, Pins
<1>6. Answered'
  BY <1>1, <1>2, <1>3 DEF Answered, AtHeader
<1> QED
  BY <1>1, <1>3, <1>4, <1>5, <1>6 DEF InStep, Handed

LEMMA DrainKeeps == ASSUME Formed, Driving, InStep, Drain PROVE InStep'
<1>1. /\ fw.at = "drain" /\ Len(rx) >= fw.discard /\ rx' = SubSeq(rx, fw.discard + 1, Len(rx))
      /\ UNCHANGED <<selected, host, ready, tx, buffer, turn>>
  BY DEF Drain, firmwareOnly
<1>2. fw' \in Dispatcher /\ fw'.at = "release"
  BY DEF Drain, Idle, Dispatcher, Stages
<1>3. Typed' /\ Pins'
  <2>1. rx \in Seq(Bytes) /\ fw.discard \in Nat /\ Len(rx) \in Nat
    BY LenProperties DEF InStep, Typed, Dispatcher
  <2>2. PICK s : s = rx'
    OBVIOUS
  <2>3. s \in Seq(Bytes)
    BY <1>1, <2>1, <2>2, RestOf
  <2>4. Typed'
    BY <1>1, <1>2, <2>2, <2>3 DEF InStep, Typed
  <2>5. Pins'
    BY <1>1, <1>2 DEF InStep, Pins
  <2> QED
    BY <2>4, <2>5
<1>4. CASE host.at \in {"rest", "send", "done"}
  <2>1. fw.discard = 6 /\ Len(rx) = 6 /\ tx = <<>> /\ rx \in Seq(Bytes)
    <3>1. Settled
      BY <1>4 DEF InStep, Handed
    <3>2. rx \in Seq(Bytes)
      BY DEF InStep, Typed
    <3>3. ~(fw.discard = 3 /\ Len(rx) = 1)
      <4>1. PICK d, l : d = fw.discard /\ l = Len(rx) /\ l >= d
        BY <1>1
      <4>2. ~(d = 3 /\ l = 1)
        BY <4>1
      <4> QED
        BY <4>1, <4>2
    <3>4. fw.at \notin {"idle", "release"}
      BY <1>1
    <3> QED
      BY <3>1, <3>2, <3>3, <3>4 DEF Settled
  <2>2. PICK s : s = rx'
    OBVIOUS
  <2>3. s \in Seq(Bytes) /\ Len(s) = 0
    <3>1. s = SubSeq(rx, 6 + 1, Len(rx)) /\ 6 \in 0 .. Len(rx)
      <4>1. s = SubSeq(rx, fw.discard + 1, Len(rx))
        BY <1>1, <2>2
      <4>2. s = SubSeq(rx, 6 + 1, Len(rx))
        BY <2>1, <4>1
      <4>3. 6 \in 0 .. Len(rx)
        BY <2>1
      <4> QED
        BY <4>2, <4>3
    <3>2. s \in Seq(Bytes) /\ Len(s) = Len(rx) - 6
      BY <2>1, <3>1, RestOf
    <3> QED
      BY <2>1, <3>2
  <2>4. rx' = <<>>
    BY <2>2, <2>3, EmptySeq
  <2>5. Settled'
    BY <1>1, <1>2, <2>1, <2>4 DEF Settled
  <2>6. host.at = "send" => Counted(host.packet)'
    BY <1>1, <1>4 DEF InStep, Handed, Counted
  <2> QED
    BY <1>1, <1>2, <1>3, <1>4, <2>5, <2>6 DEF InStep, Handed
<1>5. CASE host.at \notin {"rest", "send", "done"}
  <2>1. host.at \in {"written", "reply", "read", "reading"} /\ Answered
    BY <1>1, <1>5 DEF InStep, Handed, Unwritten, Read, Within, AtHeader, AtLength, AtData
  <2>2. PICK p : p = host.packet
    OBVIOUS
  <2>3. p \in Packets /\ rx = <<>> /\ fw.discard = Len(ReplyTo(p, turn)) - Pad(p)
    BY <1>1, <2>1, <2>2 DEF Driving, Answered, AtHeader
  <2>4. p[2] \in 0 .. 127 /\ Pad(p) \in 0 .. 3 /\ Len(ReplyTo(p, turn)) \in {3, 6}
    BY <2>3, PacketIs, ReplyIs
  <2>5. fw.discard = 0 /\ Len(ReplyTo(p, turn)) = Pad(p)
    <3>1. PICK d, l, a : d = fw.discard /\ l = Len(ReplyTo(p, turn)) /\ a = Pad(p)
      OBVIOUS
    <3>2. d = l - a /\ 0 >= d /\ l \in {3, 6} /\ a \in 0 .. 3
      BY <1>1, <2>3, <2>4, <3>1, EmptyIs
    <3>3. d = 0 /\ l = a
      BY <3>2
    <3> QED
      BY <3>1, <3>3
  <2>6. rx' = <<>>
    BY <1>1, <2>3, <2>5, EmptyIs
  <2>7. Answered'
    BY <1>1, <1>2, <2>1, <2>2, <2>5, <2>6 DEF Answered
  <2> QED
    BY <1>1, <1>3, <2>1, <2>7 DEF InStep, Handed
<1> QED
  BY <1>4, <1>5

LEMMA ReleaseKeeps == ASSUME Driving, InStep, Release PROVE InStep'
<1>1. /\ fw.at = "release" /\ ~selected /\ ready' = 0
      /\ UNCHANGED <<selected, host, rx, tx, buffer, turn>>
  BY DEF Release, firmwareOnly
<1>2. fw' \in Dispatcher /\ fw'.at = "idle"
  BY DEF Release, Idle, Dispatcher, Stages
<1>3. host.at \in {"rest", "send", "reply"}
  BY <1>1 DEF InStep, Pins, Driving, Driver, Places, Handed
<1>4. Typed'
  BY <1>1, <1>2 DEF InStep, Typed
<1>5. Pins'
  BY <1>1, <1>2, <1>3 DEF InStep, Pins
<1>6. CASE host.at \in {"rest", "send"}
  <2>1. Settled'
    BY <1>1, <1>2, <1>6 DEF InStep, Handed, Settled
  <2>2. host.at = "send" => Counted(host.packet)'
    BY <1>1, <1>6 DEF InStep, Handed, Counted
  <2> QED
    BY <1>1, <1>4, <1>5, <1>6, <2>1, <2>2 DEF InStep, Handed
<1>7. CASE host.at = "reply"
  <2>1. Answered /\ Len(ReplyTo(host.packet, turn)) = Pad(host.packet)
    BY <1>1, <1>7 DEF InStep, Handed, Answered, Read, Within, AtHeader, AtLength, AtData
  <2>2. Answered'
    BY <1>1, <1>2, <2>1 DEF Answered
  <2> QED
    BY <1>1, <1>4, <1>5, <1>7, <2>2 DEF InStep, Handed
<1> QED
  BY <1>3, <1>6, <1>7

LEMMA FirmwareKeeps ==
    ASSUME Formed, Driving, Rough \/ InStep, Firmware
    PROVE  Driving' /\ (Rough' \/ InStep') /\ lost' = lost
<1>1. UNCHANGED <<host, turn, lost>>
  BY DEF Firmware, Wake, Header, Length, Data, End, Take, WriteReply, Selected, Drain, Release,
         firmwareOnly
<1>2. Driving'
  BY <1>1 DEF Driving
<1>3. CASE Rough
  <2>1. CASE Drain
    <3>1. fw'.at = "release" /\ UNCHANGED <<selected, host>>
      BY <2>1 DEF Drain, firmwareOnly, Idle
    <3>2. Rough'
      BY <1>3, <3>1 DEF Rough
    <3> QED
      BY <1>1, <1>2, <3>2
  <2>2. CASE Release
    <3>1. fw'.at = "idle" /\ ~selected /\ UNCHANGED <<selected, host>>
      BY <2>2 DEF Release, firmwareOnly, Idle
    <3>2. Rough'
      BY <1>3, <3>1 DEF Rough
    <3> QED
      BY <1>1, <1>2, <3>2
  <2>3. ~Header
    <3>1. ~(Len(rx) = 1 /\ Len(rx) >= 3)
      OBVIOUS
    <3> QED
      BY <1>3, <3>1 DEF Rough, AtHeader, Header, Take
  <2>4. fw.at \notin {"length", "data", "end", "execute", "select"} /\ ~(fw.at = "idle" /\ selected)
    BY <1>3 DEF Rough, AtHeader
  <2>5. Drain \/ Release
    BY <2>3, <2>4 DEF Firmware, Wake, Length, Data, End, Take, WriteReply, Selected
  <2> QED
    BY <2>1, <2>2, <2>5
<1>4. CASE InStep
  BY <1>1, <1>2, <1>4, WakeKeeps, HeaderKeeps, LengthKeeps, DataKeeps, EndKeeps,
     WriteReplyKeeps, SelectedKeeps, DrainKeeps, ReleaseKeeps DEF Firmware
<1> QED
  BY <1>3, <1>4

-----------------------------------------------------------------------------
(* The driver *)

\* A change of the host's place only.
LEMMA GoesIs ==
    ASSUME host \in Driver, NEW at \in Places, Goes(at)
    PROVE  /\ host' \in Driver /\ host'.at = at /\ host'.packet = host.packet
           /\ host'.raised = host.raised /\ host'.value = host.value
BY DEF Goes, Driver

\* To a place where there is no outcome yet, or from where there is one no more.
LEMMA DrivingOn ==
    ASSUME Driving, NEW at \in Places \ {"done"}, Goes(at), turn' = turn, host.at # "rest"
    PROVE  Driving'
<1>1. host' \in Driver /\ host'.at = at /\ host'.packet = host.packet /\ host.packet \in Packets
  BY GoesIs DEF Driving
<1> QED
  BY <1>1 DEF Driving

\* The command is one of those that count only if all before it has been read.
LEMMA SendKeeps ==
    ASSUME Driving, Rough \/ InStep, sound, NEW p \in Packets, Send(p), lost' = 0
    PROVE  Driving' /\ InStep'
<1>1. host.at = "rest" /\ UNCHANGED <<ready, selected, buffer, fw, rx, tx>>
  BY DEF Send, pins
<1>2. Pad(host.packet) = 0 /\ Counted(p) /\ turn' = After(turn)
  <2>1. lost' = IF sound /\ Pad(host.packet) = 0 /\ Counted(p) THEN 0 ELSE lost + 1
    BY DEF Send
  <2>2. lost + 1 # 0
    BY DEF sound
  <2> QED
    BY <2>1, <2>2 DEF Send
<1>3. host' \in Driver /\ host'.at = "send" /\ host'.packet = p
  <2>1. host' = [at |-> "send", packet |-> p, raised |-> FALSE, value |-> 0]
    BY DEF Send, AtRest
  <2> QED
    BY <2>1 DEF Driver, Places
<1>4. InStep /\ Settled
  BY <1>1, <1>2 DEF Rough, InStep, Handed
<1>5. Driving'
  <2>1. turn' \in 0 .. 4
    BY <1>2 DEF Driving, After
  <2> QED
    BY <1>3, <2>1 DEF Driving
<1>6. Typed' /\ Pins'
  BY <1>1, <1>3, <1>4 DEF InStep, Typed, Pins
<1>7. Settled' /\ Counted(host.packet)'
  BY <1>1, <1>2, <1>3, <1>4 DEF Settled, Counted
<1> QED
  BY <1>3, <1>5, <1>6, <1>7 DEF InStep, Handed

LEMMA SelectWriteKeeps ==
    ASSUME Driving, InStep, Select("send", "write") PROVE Driving' /\ InStep'
<1>1. /\ host.at = "send" /\ ready = 0 /\ selected' = TRUE
      /\ UNCHANGED <<ready, buffer, fw, rx, tx, turn>>
  BY DEF Select, hostOnly
<1>2. host' \in Driver /\ host'.at = "write" /\ host'.packet = host.packet
  BY GoesIs DEF Select, Driving, Places
<1>3. fw.at = "idle" /\ rx = <<>> /\ tx = <<>> /\ Counted(host.packet)
  BY <1>1 DEF InStep, Pins, Handed, Settled
<1>4. Driving'
  BY <1>1, DrivingOn DEF Select, Places
<1>5. Typed' /\ Pins'
  BY <1>1, <1>2, <1>3 DEF InStep, Typed, Pins
<1>6. Unwritten'
  BY <1>1, <1>2, <1>3 DEF Unwritten, Counted
<1> QED
  BY <1>2, <1>4, <1>5, <1>6 DEF InStep, Handed

LEMMA SelectReadKeeps ==
    ASSUME Driving, InStep, Select("reply", "read") PROVE Driving' /\ InStep'
<1>1. /\ host.at = "reply" /\ ready = 0 /\ selected' = TRUE
      /\ UNCHANGED <<ready, buffer, fw, rx, tx, turn>>
  BY DEF Select, hostOnly
<1>2. host' \in Driver /\ host'.at = "read" /\ host'.packet = host.packet
  BY GoesIs DEF Select, Driving, Places
<1>3. Answered
  <2>1. fw.at \in {"idle", "select"}
    BY <1>1 DEF InStep, Pins
  <2> QED
    BY <1>1, <2>1 DEF InStep, Handed, Read, Within, AtHeader, AtLength, AtData
<1>4. Driving'
  BY <1>1, DrivingOn DEF Select, Places
<1>5. Typed' /\ Pins'
  BY <1>1, <1>2 DEF InStep, Typed, Pins
<1>6. Answered'
  BY <1>1, <1>2, <1>3 DEF Answered, AtHeader
<1> QED
  BY <1>2, <1>4, <1>5, <1>6 DEF InStep, Handed

LEMMA WriteKeeps == ASSUME Formed, Driving, InStep, Write PROVE Driving' /\ InStep'
<1>1. host.at = "write" /\ ready = 1 /\ UNCHANGED <<ready, buffer, fw, selected, turn>>
  BY DEF Write, hostOnly
<1>2. PICK p : p = host.packet
  OBVIOUS
<1>3. host' \in Driver /\ host'.at = "written" /\ host'.packet = p /\ p \in Packets
  BY <1>1, <1>2, GoesIs DEF Write, Driving, Places
<1>4. AtHeader /\ rx = <<>> /\ tx = <<>> /\ Counted(p)
  BY <1>1, <1>2 DEF InStep, Pins, Handed, Unwritten
<1>5. PICK padding \in [1 .. Pad(p) -> Left] : Transfer(p \o padding)
  BY <1>2 DEF Write
<1>6. PICK q \in Wires(p) : q = p \o padding
  BY <1>5 DEF Wires
<1>7. q \in Seq(Bytes) /\ Len(q) \in Nat /\ Len(q) <= RxSize /\ Len(q) >= 4
  <2>1. q \in Seq(Bytes) /\ Len(q) = Len(p) + Pad(p)
    BY <1>3, WireIs
  <2>2. Len(p) \in Nat /\ Pad(p) \in Nat /\ Len(p) >= 4 /\ Len(p) + Pad(p) <= RxSize
    BY <1>3, PacketIs
  <2> QED
    BY <2>1, <2>2
<1>8. rx' = q /\ tx' = <<>>
  <2>1. /\ rx' = SubSeq(rx \o q, 1, IF Len(rx) + Len(q) < RxSize THEN Len(rx) + Len(q) ELSE RxSize)
        /\ tx' = SubSeq(tx, Len(q) + 1, Len(tx))
    BY <1>5, <1>6 DEF Transfer
  <2>2. rx \o q = q /\ Len(rx) = 0
    BY <1>4, <1>7, EmptyIs, ConcatEmptySeq
  <2>3. (IF Len(rx) + Len(q) < RxSize THEN Len(rx) + Len(q) ELSE RxSize) = Len(q)
    <3>1. PICK l, m : l = Len(q) /\ m = RxSize /\ l \in Nat /\ m \in Nat /\ l <= m
      BY <1>7, SizesAssumption
    <3>2. (IF 0 + l < m THEN 0 + l ELSE m) = l
      BY <3>1
    <3> QED
      BY <2>2, <3>1, <3>2
  <2>4. SubSeq(q, 1, Len(q)) = q
    BY <1>7, SubSeqProperties, SeqEqual
  <2>5. rx' = q
    BY <2>1, <2>2, <2>3, <2>4
  <2>6. tx' = SubSeq(<<>>, Len(q) + 1, 0)
    BY <1>4, <2>1, EmptyIs
  <2>7. SubSeq(<<>>, Len(q) + 1, 0) = <<>>
    BY <1>7
  <2> QED
    BY <2>5, <2>6, <2>7
<1>9. Driving'
  BY <1>1, DrivingOn DEF Write, Places
<1>10. Typed' /\ Pins'
  BY <1>1, <1>3, <1>7, <1>8 DEF InStep, Typed, Pins
<1>11. Read'
  <2>1. Within(p)'
    BY <1>1, <1>4 DEF Within, AtHeader, Counted
  <2>2. Split(q, 0, rx', buffer')
    <3>1. SubSeq(q, 0 + 1, Len(q)) = q
      BY <1>7, SubSeqProperties, SeqEqual
    <3> QED
      BY <1>7, <1>8, <3>1 DEF Split
  <2>3. fw'.ptr = 0
    BY <1>1, <1>4 DEF AtHeader
  <2>4. \E x \in Wires(p) : Split(x, fw'.ptr, rx', buffer')
    BY <2>2, <2>3
  <2> QED
    BY <1>3, <1>8, <2>1, <2>4 DEF Read, Within, AtHeader, Counted, AtLength, AtData, Split
<1> QED
  BY <1>3, <1>9, <1>10, <1>11 DEF InStep, Handed

LEMMA DeselectWrittenKeeps ==
    ASSUME Driving, InStep, Deselect("written", "reply") PROVE Driving' /\ InStep'
<1>1. /\ host.at = "written" /\ selected' = FALSE
      /\ UNCHANGED <<ready, buffer, fw, rx, tx, turn>>
  BY DEF Deselect, hostOnly
<1>2. host' \in Driver /\ host'.at = "reply" /\ host'.packet = host.packet
  BY GoesIs DEF Deselect, Driving, Places
<1>3. Driving'
  BY <1>1, DrivingOn DEF Deselect, Places
<1>4. Typed' /\ Pins'
  BY <1>1, <1>2 DEF InStep, Typed, Pins
<1>5. CASE Read
  <2>1. Read'
    BY <1>1, <1>2, <1>5 DEF Read, Within, Split, AtHeader, AtLength, AtData, Counted
  <2> QED
    BY <1>2, <1>3, <1>4, <2>1 DEF InStep, Handed
<1>6. CASE Answered
  <2>1. Answered'
    BY <1>1, <1>2, <1>6 DEF Answered, AtHeader
  <2> QED
    BY <1>2, <1>3, <1>4, <2>1 DEF InStep, Handed
<1> QED
  BY <1>1, <1>5, <1>6 DEF InStep, Handed

LEMMA BeginKeeps == ASSUME Driving, InStep, Begin PROVE Driving' /\ InStep'
<1>1. /\ host.at = "read" /\ ready = 1
      /\ UNCHANGED <<ready, selected, buffer, fw, rx, tx, turn>>
  BY DEF Begin, hostOnly
<1>2. host' \in Driver /\ host'.at = "reading" /\ host'.packet = host.packet
  BY GoesIs DEF Begin, Driving, Places
<1>3. Driving'
  BY <1>1, DrivingOn DEF Begin, Places
<1>4. Typed' /\ Pins'
  BY <1>1, <1>2 DEF InStep, Typed, Pins
<1>5. Answered'
  BY <1>1, <1>2 DEF InStep, Handed, Answered, AtHeader
<1> QED
  BY <1>2, <1>3, <1>4, <1>5 DEF InStep, Handed

\* The first byte the host finds is that of the reply.
LEMMA NoSkip == ASSUME Formed, Driving, InStep PROVE ~Skip
<1> SUFFICES ASSUME host.at = "reading" PROVE AtMark
  BY DEF Skip
<1>1. host.packet \in Packets /\ tx = ReplyTo(host.packet, turn)
  BY DEF Driving, InStep, Handed, Answered
<1>2. host.packet[2] \in 0 .. 127
  BY <1>1, PacketIs
<1> QED
  BY <1>1, <1>2, ReplyIs DEF AtMark

LEMMA ZerosIs ==
    ASSUME NEW n \in Nat PROVE Zeros(n) \in Seq(Bytes) /\ Len(Zeros(n)) = n
<1>1. \A i \in 1 .. n : 0 \in Bytes
  BY DEF Bytes
<1>2. Zeros(n) \in Seq(Bytes)
  BY <1>1, IsASeq DEF Zeros
<1> QED
  BY <1>2, LenProperties DEF Zeros

\* The reply under way is the one to the command.
LEMMA ReadReplyKeeps ==
    ASSUME Formed, Driving, InStep, ReadReply PROVE Driving' /\ (Rough' \/ InStep')
<1>1. host.at = "reading" /\ UNCHANGED <<ready, buffer, fw, selected, turn>>
  BY DEF ReadReply, hostOnly
<1>2. PICK p, n : p = host.packet /\ n = turn
  OBVIOUS
<1>3. p \in Packets /\ n \in 0 .. 4 /\ rx = <<>> /\ tx = ReplyTo(p, n) /\ ready = 1
  BY <1>1, <1>2 DEF Driving, InStep, Pins, Handed, Answered
<1>4. p[2] \in 0 .. 127 /\ Pad(p) \in 0 .. 3
  BY <1>3, PacketIs
<1>5. /\ Transfer(Zeros(ReadLength))
      /\ host' = [host EXCEPT !.at = "done", !.raised = ~IsReply,
                              !.value = IF IsReply THEN tx[5] ELSE 0]
  BY DEF ReadReply
<1>6. IsReply <=> p[2] \in Handled
  <2>1. CASE p[2] \in Handled
    BY <1>2, <1>3, <1>4, <2>1, ReplyIs DEF IsReply
  <2>2. CASE p[2] \notin Handled
    <3>1. tx[1] = ERR
      BY <1>3, <1>4, <2>2, ReplyIs
    <3> QED
      BY <2>2, <3>1 DEF IsReply, START, ERR
  <2> QED
    BY <2>1, <2>2
<1>7. ReadLength = IF p[2] \in Handled THEN 6 ELSE 1
  BY <1>3, <1>4, <1>6, ReplyIs DEF ReadLength, START, ERR
<1>8. /\ host' \in Driver /\ host'.at = "done" /\ host'.packet = p
      /\ host'.raised <=> p[2] \notin Handled
      /\ ~host'.raised => host'.value = n
  <2>1. IsReply => tx[5] = n
    BY <1>3, <1>4, <1>6, ReplyIs
  <2>2. PICK v \in 0 .. 4 : v = (IF IsReply THEN tx[5] ELSE 0)
    BY <1>3, <2>1
  <2>3. host \in Driver
    BY DEF Driving
  <2>4. host' = [host EXCEPT !.at = "done", !.raised = ~IsReply, !.value = v]
    BY <1>5, <2>2
  <2>5. IsReply \in BOOLEAN
    BY DEF IsReply
  <2>6. host' \in Driver /\ host'.at = "done" /\ host'.packet = p /\ host'.raised = ~IsReply
        /\ host'.value = v
    BY <1>2, <2>3, <2>4, <2>5 DEF Driver, Places
  <2> QED
    BY <1>6, <2>1, <2>2, <2>6
<1>9. Driving'
  BY <1>1, <1>2, <1>3, <1>8 DEF Driving
<1>10. CASE Pad(p) # 0
  <2>1. selected /\ (fw.at \in {"drain", "release"} \/ (AtHeader /\ p[2] \notin Handled))
    <3>1. selected /\ fw.at \notin {"idle", "select"}
      BY <1>1, <1>3 DEF InStep, Pins
    <3>2. Len(ReplyTo(p, n)) = Pad(p) => p[2] \notin Handled
      BY <1>4, ReplyIs
    <3> QED
      BY <1>1, <1>2, <3>1, <3>2 DEF InStep, Handed, Answered
  <2>2. AtHeader => Len(rx') = 1
    <3> SUFFICES ASSUME AtHeader PROVE Len(rx') = 1
      OBVIOUS
    <3>1. ReadLength = 1
      BY <1>7, <2>1 DEF AtHeader
    <3>2. PICK z : z = Zeros(1) /\ z \in Seq(Bytes) /\ Len(z) = 1
      BY ZerosIs
    <3>3. rx' = SubSeq(rx \o z, 1, IF Len(rx) + Len(z) < RxSize THEN Len(rx) + Len(z) ELSE RxSize)
      BY <1>5, <3>1, <3>2 DEF Transfer
    <3>4. rx \o z = z /\ Len(rx) = 0
      BY <1>3, <3>2, EmptyIs, ConcatEmptySeq
    <3>5. (IF Len(rx) + Len(z) < RxSize THEN Len(rx) + Len(z) ELSE RxSize) = 1
      <4>1. PICK m : m = RxSize /\ m \in Nat /\ m >= 6
        BY SizesAssumption DEF Formed
      <4>2. (IF 0 + 1 < m THEN 0 + 1 ELSE m) = 1
        BY <4>1
      <4> QED
        BY <3>2, <3>4, <4>1, <4>2
    <3>6. SubSeq(z, 1, 1) = z
      BY <3>2, SubSeqProperties, SeqEqual
    <3> QED
      BY <3>2, <3>3, <3>4, <3>5, <3>6
  <2>3. Rough'
    BY <1>1, <1>8, <1>10, <2>1, <2>2 DEF Rough, AtHeader, Pad
  <2> QED
    BY <1>9, <2>3
<1>11. CASE Pad(p) = 0
  <2>1. PICK k : k = ReadLength /\ k \in {1, 6}
    BY <1>7
  <2>2. Zeros(k) \in Seq(Bytes) /\ Len(Zeros(k)) = k
    BY <2>1, ZerosIs
  <2>3. PICK z : z = Zeros(k)
    OBVIOUS
  <2>4. rx' = z /\ tx' = SubSeq(tx, k + 1, Len(tx))
    <3>1. /\ rx' = SubSeq(rx \o z, 1, IF Len(rx) + Len(z) < RxSize THEN Len(rx) + Len(z) ELSE RxSize)
          /\ tx' = SubSeq(tx, Len(z) + 1, Len(tx))
      BY <1>5, <2>1, <2>3 DEF Transfer
    <3>2. rx \o z = z /\ Len(rx) = 0
      BY <1>3, <2>2, <2>3, EmptyIs, ConcatEmptySeq
    <3>3. (IF Len(rx) + Len(z) < RxSize THEN Len(rx) + Len(z) ELSE RxSize) = k
      BY <2>1, <2>2, <2>3, <3>2, SizesAssumption DEF Formed
    <3>4. SubSeq(z, 1, Len(z)) = z
      BY <2>1, <2>2, <2>3, SubSeqProperties, SeqEqual
    <3> QED
      BY <2>2, <2>3, <3>1, <3>2, <3>3, <3>4
  <2>5. fw.at = "drain" /\ fw.discard = Len(ReplyTo(p, n))
    <3>1. fw.at # "select"
      BY <1>3 DEF InStep, Pins
    <3>2. fw.at = "drain" /\ fw.discard = Len(ReplyTo(p, n)) - Pad(p)
      <4>1. Len(ReplyTo(p, n)) # Pad(p)
        BY <1>4, <1>11, ReplyIs
      <4> QED
        BY <1>1, <1>2, <3>1, <4>1 DEF InStep, Handed, Answered
    <3> QED
      BY <1>4, <1>11, <3>2, ReplyIs
  <2>6. Settled'
    <3>1. CASE p[2] \in Handled
      <4>1. k = 6 /\ fw.discard = 6 /\ Len(rx') = 6
        BY <1>4, <1>7, <2>1, <2>2, <2>3, <2>4, <2>5, <3>1, ReplyIs
      <4>2. tx' = <<>>
        <5>1. SubSeq(ReplyTo(p, n), 7, 6) = <<>>
          BY <3>1 DEF ReplyTo
        <5>2. Len(tx) = 6
          BY <1>3, <1>4, <3>1, ReplyIs
        <5> QED
          BY <1>3, <2>4, <4>1, <5>1, <5>2
      <4> QED
        BY <1>1, <2>5, <4>1, <4>2 DEF Settled
    <3>2. CASE p[2] \notin Handled
      <4>1. fw.discard = 3 /\ Len(rx') = 1
        BY <1>4, <1>7, <2>1, <2>2, <2>3, <2>4, <2>5, <3>2, ReplyIs
      <4> QED
        BY <1>1, <2>5, <4>1 DEF Settled
    <3> QED
      BY <3>1, <3>2
  <2>7. Typed' /\ Pins'
    BY <1>1, <1>3, <1>8, <2>2, <2>3, <2>4 DEF InStep, Typed, Pins
  <2>8. fw'.at # "idle"
    BY <1>1, <2>5
  <2> QED
    BY <1>8, <1>9, <2>6, <2>7, <2>8 DEF InStep, Handed
<1> QED
  BY <1>10, <1>11

LEMMA DeselectDoneKeeps ==
    ASSUME Driving, Rough \/ InStep, Deselect("done", "rest")
    PROVE  Driving' /\ (Rough' \/ InStep')
<1>1. /\ host.at = "done" /\ selected' = FALSE
      /\ UNCHANGED <<ready, buffer, fw, rx, tx, turn>>
  BY DEF Deselect, hostOnly
<1>2. host' \in Driver /\ host'.at = "rest" /\ host'.packet = host.packet
  BY GoesIs DEF Deselect, Driving, Places
<1>3. Driving'
  BY <1>1, DrivingOn DEF Deselect, Places
<1>4. CASE Rough
  BY <1>1, <1>2, <1>3, <1>4 DEF Rough, AtHeader, Pad
<1>5. CASE InStep
  <2>1. Typed' /\ Pins'
    BY <1>1, <1>2, <1>5 DEF InStep, Typed, Pins
  <2>2. Settled'
    BY <1>1, <1>5 DEF InStep, Handed, Settled
  <2> QED
    BY <1>2, <1>3, <2>1, <2>2 DEF InStep, Handed
<1> QED
  BY <1>4, <1>5

LEMMA HostKeeps ==
    ASSUME Formed, Driving, Rough \/ InStep, Host
    PROVE  Driving' /\ (Rough' \/ InStep') /\ lost' = lost
<1>1. lost' = lost
  BY DEF Host, Select, Write, Deselect, Begin, Skip, ReadReply
<1>2. CASE Rough
  <2>1. host.at \in {"rest", "done"}
    BY <1>2 DEF Rough
  <2>2. Deselect("done", "rest")
    BY <2>1 DEF Host, Select, Write, Deselect, Begin, Skip, ReadReply
  <2> QED
    BY <1>1, <2>2, DeselectDoneKeeps
<1>3. CASE InStep
  BY <1>1, <1>3, SelectWriteKeeps, WriteKeeps, DeselectWrittenKeeps, SelectReadKeeps, BeginKeeps,
     NoSkip, ReadReplyKeeps, DeselectDoneKeeps DEF Host
<1> QED
  BY <1>2, <1>3

-----------------------------------------------------------------------------
(* The theorems *)

\* All starts afresh.
LEMMA FreshIs ==
    ASSUME ready = 0, selected = FALSE, rx = <<>>, tx = <<>>, buffer = NoBytes, fw = Idle,
           host = AtRest, turn = 0
    PROVE  Driving /\ InStep
<1>1. fw \in Dispatcher /\ fw.at = "idle"
  BY DEF Idle, Dispatcher, Stages
<1>2. host \in Driver /\ host.at = "rest"
  BY DEF AtRest, Driver, Places
<1>3. buffer \in [0 .. RxSize - 1 -> Bytes]
  BY DEF NoBytes, Bytes
<1>4. Driving
  BY <1>2 DEF Driving
<1>5. Typed /\ Pins
  BY <1>1, <1>2, <1>3, EmptyIs DEF Typed, Pins
<1>6. Settled
  BY <1>1 DEF Settled
<1> QED
  BY <1>2, <1>4, <1>5, <1>6 DEF InStep, Handed

LEMMA ResetKeeps == ASSUME Reset PROVE Driving' /\ InStep'
<1>1. /\ ready' = 0 /\ selected' = FALSE /\ rx' = <<>> /\ tx' = <<>> /\ buffer' = NoBytes
      /\ fw' = Idle /\ host' = AtRest /\ turn' = 0
  BY DEF Reset
<1>2. fw' \in Dispatcher /\ fw'.at = "idle"
  BY <1>1 DEF Idle, Dispatcher, Stages
<1>3. host' \in Driver /\ host'.at = "rest"
  BY <1>1 DEF AtRest, Driver, Places
<1>4. buffer' \in [0 .. RxSize - 1 -> Bytes]
  BY <1>1 DEF NoBytes, Bytes
<1>5. Driving'
  BY <1>1, <1>3 DEF Driving
<1>6. Typed' /\ Pins'
  BY <1>1, <1>2, <1>3, <1>4, EmptyIs DEF Typed, Pins
<1>7. Settled'
  BY <1>1, <1>2 DEF Settled
<1> QED
  BY <1>3, <1>5, <1>6, <1>7 DEF InStep, Handed

LEMMA StutterKeeps ==
    ASSUME Driving, Rough \/ InStep, UNCHANGED vars
    PROVE  Driving' /\ (Rough' \/ InStep')
<1>1. UNCHANGED <<ready, selected, rx, tx, buffer, fw, host, turn>>
  BY DEF vars, pins
<1>2. Driving' /\ (Rough => Rough')
  BY <1>1 DEF Driving, Rough, AtHeader, Pad
<1>3. Typed => Typed'
  BY <1>1 DEF Typed
<1>4. Pins => Pins'
  BY <1>1 DEF Pins
<1>5. Handed => Handed'
  BY <1>1 DEF Handed, Settled, Unwritten, AtHeader, Counted, Read, Within, AtLength, AtData, Split,
     Answered
<1> QED
  BY <1>2, <1>3, <1>4, <1>5 DEF InStep

LEMMA LostIs == ASSUME IInv, [Next]_vars PROVE lost' \in Nat
<1>1. lost \in Nat /\ lost + 1 \in Nat
  BY DEF IInv
<1>2. lost' \in {0, 1, lost, lost + 1}
  <2>1. CASE Sends
    BY <2>1 DEF Sends, Send
  <2>2. CASE Host \/ Firmware \/ UNCHANGED vars
    BY <2>2 DEF Host, Select, Write, Deselect, Begin, Skip, ReadReply, Firmware, Wake, Header,
       Length, Data, End, Take, WriteReply, Selected, Drain, Release, firmwareOnly, vars
  <2>3. CASE GiveUp \/ Reset
    BY <2>3 DEF GiveUp, Reset
  <2> QED
    BY <2>1, <2>2, <2>3 DEF Next
<1> QED
  BY <1>1, <1>2

\* A wait that runs out, and a command that is not one of those that count, end what is
\* claimed; a reset begins it again.
LEMMA StepKeeps == ASSUME Formed, IInv, [Next]_vars PROVE IInv'
<1> SUFFICES ASSUME lost' = 0 PROVE Driving' /\ (Rough' \/ InStep')
  BY LostIs DEF IInv, sound
<1>1. CASE Reset
  BY <1>1, ResetKeeps
<1>2. ASSUME ~Reset PROVE sound /\ ~GiveUp
  <2>1. ASSUME GiveUp PROVE FALSE
    BY <2>1 DEF GiveUp, sound
  <2>2. CASE Sends
    <3>1. lost + 1 # 0
      BY DEF IInv
    <3>2. sound
      BY <2>2, <3>1 DEF Sends, Send, sound
    <3> QED
      BY <2>1, <3>2
  <2>3. CASE Host \/ Firmware \/ UNCHANGED vars
    <3>1. lost' = lost
      BY <2>3 DEF Host, Select, Write, Deselect, Begin, Skip, ReadReply, Firmware, Wake, Header,
         Length, Data, End, Take, WriteReply, Selected, Drain, Release, firmwareOnly, vars
    <3> QED
      BY <2>1, <3>1 DEF sound
  <2> QED
    BY <1>2, <2>1, <2>2, <2>3 DEF Next
<1>3. CASE ~Reset
  <2>1. Driving /\ (Rough \/ InStep) /\ sound /\ ~GiveUp
    BY <1>2, <1>3 DEF IInv
  <2>2. CASE Sends
    BY <2>1, <2>2, SendKeeps DEF Sends
  <2>3. CASE Host
    BY <2>1, <2>3, HostKeeps
  <2>4. CASE Firmware
    BY <2>1, <2>4, FirmwareKeeps
  <2>5. CASE UNCHANGED vars
    BY <2>1, <2>5, StutterKeeps
  <2> QED
    BY <1>3, <2>1, <2>2, <2>3, <2>4, <2>5 DEF Next
<1> QED
  BY <1>1, <1>3

\* The two ends of the SPI transport keep step: from a reset on until a wait runs out,
\* a packet is padded or rx_buffer[3] holds no count that serves, the pins, the
\* FIFOs, rx_buffer and the place in the packet fit together, whatever the packets.
THEOREM KeepsStep == ASSUME Formed PROVE Spec => []IInv
<1>1. Init => IInv
  <2> SUFFICES ASSUME Init PROVE IInv
    OBVIOUS
  <2>1. Driving /\ InStep
    BY FreshIs DEF Init
  <2>2. lost \in Nat
    BY DEF Init
  <2> QED
    BY <2>1, <2>2 DEF IInv
<1>2. IInv /\ [Next]_vars => IInv'
  BY StepKeeps
<1> QED
  BY <1>1, <1>2, PTL DEF Spec

\* spi_dispatch_run hands the handler the very packet that _send_command wrote, padded
\* or not: an earlier command or its reply is no part of it, however often either
\* end was the faster one.
THEOREM HandsOffPacket == ASSUME Formed PROVE Spec => []HandsOff
<1>1. IInv => HandsOff
  <2> SUFFICES ASSUME IInv, sound, fw.at = "execute" PROVE Frame = host.packet
    BY DEF HandsOff, HandsOffWhatWasSent
  <2>1. ~Rough
    BY DEF Rough, AtHeader
  <2>2. Driving /\ InStep
    BY <2>1 DEF IInv
  <2> QED
    BY <2>2, Executing
<1> QED
  BY <1>1, KeepsStep, PTL

\* A method of the driver that goes by _send_command and _wait_response_cmd returns the
\* answer to its own command, and raises if there is no handler for it.
THEOREM AnswersOwn == ASSUME Formed PROVE Spec => []OutcomeIsOwn
<1>1. IInv => OutcomeIsOwn
  BY DEF IInv, Driving, OutcomeIsOwn, OwnOutcome
<1> QED
  BY <1>1, KeepsStep, PTL
====
