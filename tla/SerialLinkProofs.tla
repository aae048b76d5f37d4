--------------------------- MODULE SerialLinkProofs ---------------------------
(***************************************************************************)
(* Proofs about SerialLink, for any packets and buffer size, when the      *)
(* length bytes are in time and a kill of the host loses nothing that is   *)
(* on its way to the firmware (the runs show what happens otherwise).      *)
(*                                                                         *)
(* Between the host and the handlers lies a line of bytes: what the UART   *)
(* still has to deliver and what it has received.  The invariant cuts the  *)
(* line into the frames of the packets that have not been executed yet;    *)
(* the dispatcher stands somewhere in the first of them, and its place,    *)
(* its locals and the head of rx_buffer say where (Reached).  A restarted  *)
(* host adds frames to the line without waiting, so there may be several.  *)
(*                                                                         *)
(* A frame's place is given by a function, cut, of which only the steps    *)
(* from one frame to the next are known, and so nothing here is recursive. *)
(***************************************************************************)
EXTENDS SerialLink, SequenceTheorems, TLAPS

Byte == 0 .. 255

\* The bytes the dispatcher has not taken yet.
Line == rxFifo \o toFw

\* cut[i] is where the frame of q[i] ends in the line s; the first k are executed, and
\* of the next the line may hold only the end.
Framed(s, cut, q, k) ==
    /\ cut \in [Nat -> Int]
    /\ cut[Len(q)] = Len(s)
    /\ \A i \in k .. Len(q) : cut[i] <= Len(s)
    /\ \A i \in k + 1 .. Len(q) :
         /\ cut[i] = cut[i - 1] + 3 + Len(q[i])
         /\ \A j \in 1 .. 3 + Len(q[i]) :
              cut[i - 1] + j > 0 => s[cut[i - 1] + j] = Frame(q[i])[j]

\* How far the dispatcher is in the frame after start, that of q[k + 1].
Reached(place, rem, header, buffer, q, k, start) ==
    /\ place = "seek" => start = 0
    /\ place = "length" => k < Len(q) /\ start = -1
    /\ place = "body" =>
         /\ k < Len(q) /\ rem \in 1 .. Len(q[k + 1])
         /\ start = rem - Len(q[k + 1]) - 3
         /\ 256 * header[0] + header[1] = Len(q[k + 1])
         /\ \A i \in 1 .. Len(q[k + 1]) - rem : buffer[i] = q[k + 1][i]

HostStates == [doing : {"idle", "seek", "high", "low", "body"}, need : Int,
               got : Seq(Byte), killed : BOOLEAN]

Typed ==
    /\ toFw \in Seq(Byte) /\ rxFifo \in Seq(Byte) /\ toHost \in Seq(Byte)
    /\ loop \in {"seek", "length", "body"}
    /\ bytes \in [0 .. 1 -> Byte]
    /\ remaining \in 0 .. BufferSize
    /\ rxBuffer \in [1 .. BufferSize -> Byte]
    /\ host \in HostStates
    /\ sent \in Seq(Packets)
    /\ executed \in Seq(Seq(Byte))

Wire ==
    \E cut \in [Nat -> Int] :
        /\ Framed(Line, cut, sent, Len(executed))
        /\ Reached(loop, remaining, bytes, rxBuffer, sent, Len(executed), cut[Len(executed)])

\* What of the reply is still to be read, by what the host is doing.
Unread(state, line, code) ==
    /\ state.got = <<>>
    /\ \/ state.doing = "seek" /\ (line = <<LOG, AT, 0, 1, code>> \/ line = <<AT, 0, 1, code>>)
       \/ state.doing = "high" /\ line = <<0, 1, code>>
       \/ state.doing = "low" /\ state.need = 0 /\ line = <<1, code>>
       \/ state.doing = "body" /\ state.need = 1 /\ line = <<code>>

\* A host that was never killed: with its reply, waiting for the dispatcher, or reading.
Exchange ==
    \/ /\ host.doing = "idle" /\ toHost = <<>> /\ Len(executed) = Len(sent)
       /\ Len(sent) > 0 => host.got = <<sent[Len(sent)][1] + 128>>
    \/ /\ host.doing = "seek" /\ host.got = <<>> /\ toHost = <<>>
       /\ Len(sent) > 0 /\ Len(executed) = Len(sent) - 1
    \/ /\ Len(sent) > 0 /\ Len(executed) = Len(sent)
       /\ Unread(host, toHost, sent[Len(sent)][1] + 128)

IInv == Typed /\ HandsOffRequests /\ Wire /\ (~host.killed => Exchange)

-----------------------------------------------------------------------------
(* Sequences and frames *)

LEMMA Sizes == BufferSize \in Nat /\ BufferSize <= 65535
BY BufferAssumption

LEMMA Between ==
    ASSUME NEW n \in Nat, NEW size \in Nat, size <= 65535, 0 < n, n <= size
    PROVE  n \in 1 .. size /\ n <= 65535 /\ n \in Nat \ {0}
OBVIOUS

LEMMA LowCode == ASSUME NEW c \in 0 .. 255, c < 128 PROVE c \in 0 .. 127
OBVIOUS

LEMMA BothNone == ASSUME NEW a \in Nat, NEW b \in Nat, a + b = 0 PROVE a = 0 /\ b = 0
OBVIOUS

\* The bytes of two strings put together.
LEMMA TwoStrings ==
    ASSUME NEW s \in Seq(Byte), NEW f \in Seq(Byte)
    PROVE  /\ s \o f \in Seq(Byte) /\ Len(s \o f) = Len(s) + Len(f)
           /\ \A i \in 1 .. Len(s) + Len(f) :
                (s \o f)[i] = IF i <= Len(s) THEN s[i] ELSE f[i - Len(s)]
BY ConcatProperties

LEMMA PacketIs ==
    ASSUME NEW p \in Packets
    PROVE  /\ p \in Seq(Byte) /\ Len(p) \in 1 .. BufferSize /\ Len(p) \in Nat \ {0}
           /\ p[1] \in 0 .. 127 /\ CmdLen[p[1]] = Len(p)
           /\ Len(p) \div 256 \in Byte /\ Len(p) % 256 \in Byte
           /\ 256 * (Len(p) \div 256) + (Len(p) % 256) = Len(p)
<1>1. p \in Seq(0 .. 255) /\ 0 < Len(p) /\ Len(p) <= BufferSize /\ p[1] < 128
      /\ CmdLen[p[1]] = Len(p)
  BY PacketsAssumption
<1>2. Len(p) \in Nat
  BY <1>1, LenProperties
<1>3. Len(p) \in 1 .. BufferSize /\ Len(p) <= 65535 /\ Len(p) \in Nat \ {0}
  BY <1>1, <1>2, Sizes, Between
<1>4. p[1] \in 0 .. 255
  <2>1. 1 \in 1 .. Len(p)
    BY <1>3
  <2> QED
    BY <1>1, <2>1, ElementOfSeq
<1>5. p[1] \in 0 .. 127
  <2> DEFINE c == p[1]
  <2>1. c \in 0 .. 255 /\ c < 128
    BY <1>1, <1>4
  <2> HIDE DEF c
  <2>2. c \in 0 .. 127
    BY <2>1, LowCode
  <2> QED
    BY <2>2 DEF c
\* The two bytes a length is sent in.
<1>6. /\ Len(p) \div 256 \in Byte /\ Len(p) % 256 \in Byte
      /\ 256 * (Len(p) \div 256) + (Len(p) % 256) = Len(p)
  <2>1. PICK n \in Nat : n = Len(p) /\ n <= 65535
    BY <1>3
  <2>2. n \div 256 \in 0 .. 255 /\ n % 256 \in 0 .. 255 /\ 256 * (n \div 256) + (n % 256) = n
    <3>1. n % 256 \in 0 .. 255
      OBVIOUS
    <3>2. n \div 256 \in Nat
      OBVIOUS
    <3>3. 256 * (n \div 256) + (n % 256) = n
      OBVIOUS
    <3>4. n \div 256 <= 255
      BY <2>1, <3>1, <3>2, <3>3
    <3> QED
      BY <3>1, <3>2, <3>3, <3>4
  <2> QED
    BY <2>1, <2>2 DEF Byte
<1>7. p \in Seq(Byte)
  BY <1>1 DEF Byte
<1> QED
  BY <1>1, <1>3, <1>5, <1>6, <1>7

LEMMA FrameIs ==
    ASSUME NEW p \in Packets
    PROVE  /\ Frame(p) \in Seq(Byte) /\ Len(Frame(p)) = 3 + Len(p)
           /\ Frame(p)[1] = AT /\ Frame(p)[2] \in Byte /\ Frame(p)[3] \in Byte
           /\ 256 * Frame(p)[2] + Frame(p)[3] = Len(p)
           /\ \A i \in 1 .. Len(p) : Frame(p)[3 + i] = p[i]
<1> DEFINE high == Len(p) \div 256
           low == Len(p) % 256
           head == <<AT, high, low>>
<1>1. /\ p \in Seq(Byte) /\ Len(p) \in Nat /\ high \in Byte /\ low \in Byte
      /\ 256 * high + low = Len(p)
  BY PacketIs
<1>2. head \in Seq(Byte) /\ Len(head) = 3 /\ head[1] = AT /\ head[2] = high /\ head[3] = low
  <2>1. AT \in Byte
    BY DEF AT, Byte
  <2> HIDE DEF high, low
  <2> QED
    BY <1>1, <2>1
<1>3. Frame(p) = head \o p
  BY DEF Frame
<1> HIDE DEF head, high, low
<1>4. /\ head \o p \in Seq(Byte) /\ Len(head \o p) = 3 + Len(p)
      /\ \A i \in 1 .. 3 + Len(p) : (head \o p)[i] = IF i <= 3 THEN head[i] ELSE p[i - 3]
  <2>1. p \in Seq(Byte) /\ head \in Seq(Byte)
    BY <1>1, <1>2
  <2>2. /\ head \o p \in Seq(Byte) /\ Len(head \o p) = Len(head) + Len(p)
        /\ \A i \in 1 .. Len(head) + Len(p) :
             (head \o p)[i] = IF i <= Len(head) THEN head[i] ELSE p[i - Len(head)]
    BY <2>1, TwoStrings
  <2>3. Len(head) = 3
    BY <1>2
  <2> QED
    BY <2>2, <2>3
<1>5. \A i \in 1 .. Len(p) : 3 + i \in 1 .. 3 + Len(p) /\ ~(3 + i <= 3) /\ 3 + i - 3 = i
  BY <1>1
<1>6. 1 \in 1 .. 3 + Len(p) /\ 2 \in 1 .. 3 + Len(p) /\ 3 \in 1 .. 3 + Len(p)
  BY <1>1
<1> QED
  BY <1>1, <1>2, <1>3, <1>4, <1>5, <1>6

\* The line after its first m bytes.
Behind(t, s, m) ==
    /\ t \in Seq(Byte) /\ Len(t) = Len(s) - m
    /\ \A x \in 1 .. Len(t) : t[x] = s[x + m]

LEMMA InLine ==
    ASSUME NEW c \in Int, NEW n \in Nat, NEW j \in 1 .. n, NEW l \in Nat, NEW m \in Nat,
           c + n <= l, c - m + j > 0
    PROVE  c - m + j \in 1 .. l - m /\ c - m + j + m = c + j /\ c + j > 0 /\ c + j \in 1 .. l
OBVIOUS

LEMMA StillApart ==
    ASSUME NEW a \in Int, NEW b \in Int, NEW m \in Nat, NEW n \in Nat, a = b + 3 + n
    PROVE  a - m = b - m + 3 + n
OBVIOUS

LEMMA Shifted ==
    ASSUME NEW s \in Seq(Byte), NEW t, NEW q \in Seq(Packets), NEW k \in 0 .. Len(q),
           NEW cut, Framed(s, cut, q, k), NEW m \in 0 .. Len(s), Behind(t, s, m)
    PROVE  Framed(t, [i \in Nat |-> cut[i] - m], q, k)
<1> DEFINE next == [i \in Nat |-> cut[i] - m]
<1>1. Len(q) \in Nat /\ Len(s) \in Nat /\ Len(t) = Len(s) - m /\ m \in Nat /\ k \in Nat
  BY LenProperties DEF Behind
<1>2. cut \in [Nat -> Int] /\ next \in [Nat -> Int]
  BY <1>1 DEF Framed
<1>3. \A i \in Nat : next[i] = cut[i] - m /\ cut[i] \in Int
  BY <1>2
<1> HIDE DEF next
<1>5. next[Len(q)] = Len(t)
  BY <1>1, <1>3 DEF Framed
<1>6. ASSUME NEW i \in k .. Len(q) PROVE next[i] <= Len(t)
  <2>1. i \in Nat /\ cut[i] <= Len(s)
    BY <1>1 DEF Framed
  <2> QED
    BY <1>1, <1>3, <2>1
<1>4. ASSUME NEW i \in k + 1 .. Len(q)
      PROVE  /\ next[i] = next[i - 1] + 3 + Len(q[i])
             /\ \A j \in 1 .. 3 + Len(q[i]) :
                  next[i - 1] + j > 0 => t[next[i - 1] + j] = Frame(q[i])[j]
  <2>1. /\ i \in Nat /\ i - 1 \in Nat /\ i \in k .. Len(q) /\ i \in 1 .. Len(q)
        /\ next[i] = cut[i] - m /\ next[i - 1] = cut[i - 1] - m
        /\ cut[i] \in Int /\ cut[i - 1] \in Int
    BY <1>1, <1>3
  <2>2. q[i] \in Packets /\ Len(q[i]) \in Nat
    BY <2>1, ElementOfSeq, PacketIs
  <2>3. cut[i] = cut[i - 1] + 3 + Len(q[i]) /\ cut[i] <= Len(s)
    BY <2>1 DEF Framed
  <2>4. ASSUME NEW j \in 1 .. 3 + Len(q[i]), next[i - 1] + j > 0
        PROVE  t[next[i - 1] + j] = Frame(q[i])[j]
    <3> DEFINE x == next[i - 1] + j
               n == 3 + Len(q[i])
    <3>0. n \in Nat /\ cut[i - 1] + n <= Len(s)
      <4>1. Len(q[i]) \in Nat /\ cut[i - 1] \in Int
        BY <2>1, <2>2
      <4>2. cut[i] = cut[i - 1] + 3 + Len(q[i]) /\ cut[i] <= Len(s)
        BY <2>3
      <4> QED
        BY <4>1, <4>2
    <3>1. x \in 1 .. Len(t) /\ x + m = cut[i - 1] + j /\ cut[i - 1] + j > 0
      <4>1. cut[i - 1] - m + j > 0 /\ x = cut[i - 1] - m + j /\ j \in 1 .. n
        BY <2>1, <2>4
      <4> DEFINE c == cut[i - 1]
      <4>2. c \in Int /\ m \in Nat /\ Len(s) \in Nat /\ c + n <= Len(s) /\ c - m + j > 0
        BY <1>1, <2>1, <3>0, <4>1
      <4> HIDE DEF n, x, c
      <4>3. c - m + j \in 1 .. Len(s) - m /\ c - m + j + m = c + j /\ c + j > 0
        BY <3>0, <4>1, <4>2, InLine
      <4> USE DEF c
      <4> QED
        BY <1>1, <4>1, <4>3
    <3>2. t[x] = s[cut[i - 1] + j]
      BY <3>1 DEF Behind
    <3>3. s[cut[i - 1] + j] = Frame(q[i])[j]
      BY <3>1 DEF Framed
    <3> QED
      BY <3>2, <3>3
  <2>5. next[i] = next[i - 1] + 3 + Len(q[i])
    <3>1. cut[i] \in Int /\ cut[i - 1] \in Int /\ m \in Nat /\ Len(q[i]) \in Nat
      BY <1>1, <2>1, <2>2
    <3>2. cut[i] = cut[i - 1] + 3 + Len(q[i])
      BY <2>3
    <3>3. next[i] = cut[i] - m /\ next[i - 1] = cut[i - 1] - m
      BY <2>1
    <3>4. cut[i] - m = cut[i - 1] - m + 3 + Len(q[i])
      BY <3>1, <3>2, StillApart
    <3> QED
      BY <3>3, <3>4
  <2> QED
    BY <2>4, <2>5
<1>7. Framed(t, next, q, k)
  BY <1>2, <1>4, <1>5, <1>6 DEF Framed
<1> QED
  BY <1>7 DEF next

\* One frame more has been executed.
LEMMA Fewer ==
    ASSUME NEW s, NEW cut, NEW q, NEW k \in Nat, Len(q) \in Nat, k < Len(q), Framed(s, cut, q, k)
    PROVE  Framed(s, cut, q, k + 1)
<1>1. \A i \in k + 1 .. Len(q) : i \in k .. Len(q)
  OBVIOUS
<1>2. \A i \in k + 1 + 1 .. Len(q) : i \in k + 1 .. Len(q)
  OBVIOUS
<1> QED
  BY <1>1, <1>2 DEF Framed

\* The line with one frame more.
Extends(t, s, p) ==
    /\ t \in Seq(Byte) /\ Len(t) = Len(s) + 3 + Len(p)
    /\ \A x \in 1 .. Len(s) : t[x] = s[x]
    /\ \A j \in 1 .. 3 + Len(p) : t[Len(s) + j] = Frame(p)[j]

LEMMA Longer ==
    ASSUME NEW s \in Seq(Byte), NEW q \in Seq(Packets), NEW k \in 0 .. Len(q), NEW cut,
           Framed(s, cut, q, k), NEW p \in Packets, NEW t, Extends(t, s, p)
    PROVE  LET next == [cut EXCEPT ![Len(q) + 1] = Len(t)] IN
           Framed(t, next, Append(q, p), k) /\ \A i \in 0 .. Len(q) : next[i] = cut[i]
<1> DEFINE next == [cut EXCEPT ![Len(q) + 1] = Len(t)]
           r == Append(q, p)
           n == Len(q)
<1>0. /\ Len(t) = Len(s) + 3 + Len(p)
      /\ \A x \in 1 .. Len(s) : t[x] = s[x]
      /\ \A j \in 1 .. 3 + Len(p) : t[Len(s) + j] = Frame(p)[j]
  BY DEF Extends
<1>1. n \in Nat /\ Len(s) \in Nat /\ Len(p) \in Nat /\ k \in Nat /\ k <= n
  BY LenProperties, PacketIs
<1>2. /\ Len(r) = n + 1 /\ r[n + 1] = p
      /\ \A i \in 1 .. n : r[i] = q[i] /\ q[i] \in Packets
  BY AppendProperties, ElementOfSeq
<1>3. cut \in [Nat -> Int] /\ Len(t) \in Int
  BY <1>0, <1>1 DEF Framed
<1>4. /\ next \in [Nat -> Int] /\ next[n + 1] = Len(t)
      /\ \A i \in Nat \ {n + 1} : next[i] = cut[i]
  BY <1>1, <1>3
<1> HIDE DEF next, r
<1>5. next[n] = Len(s) /\ \A i \in 0 .. n : next[i] = cut[i]
  <2>1. \A i \in 0 .. n : i \in Nat \ {n + 1}
    BY <1>1
  <2>2. cut[n] = Len(s) /\ n \in 0 .. n
    BY <1>1 DEF Framed
  <2> QED
    BY <1>4, <2>1, <2>2
<1>6. next[Len(r)] = Len(t) /\ \A i \in k .. Len(r) : next[i] <= Len(t)
  <2>1. ASSUME NEW i \in k .. n PROVE next[i] <= Len(t)
    <3>1. next[i] = cut[i] /\ cut[i] <= Len(s) /\ cut[i] \in Int
      BY <1>1, <1>3, <1>5 DEF Framed
    <3> QED
      BY <1>0, <1>1, <3>1
  <2>2. \A i \in k .. n + 1 : i \in k .. n \/ i = n + 1
    BY <1>1
  <2> QED
    BY <1>0, <1>1, <1>2, <1>4, <2>1, <2>2
<1>7. ASSUME NEW i \in k + 1 .. Len(r)
      PROVE  /\ next[i] = next[i - 1] + 3 + Len(r[i])
             /\ \A j \in 1 .. 3 + Len(r[i]) :
                  next[i - 1] + j > 0 => t[next[i - 1] + j] = Frame(r[i])[j]
  <2>1. CASE i = n + 1
    <3>1. next[i] = Len(t) /\ next[i - 1] = Len(s) /\ r[i] = p
      BY <1>1, <1>2, <1>4, <1>5, <2>1
    <3> QED
      BY <1>0, <3>1
  <2>2. CASE i # n + 1
    <3>1. i \in k + 1 .. n /\ i \in 1 .. n /\ i \in 0 .. n /\ i - 1 \in 0 .. n /\ i \in k .. n
      BY <1>1, <1>2, <2>2
    <3>2. /\ next[i] = cut[i] /\ next[i - 1] = cut[i - 1] /\ r[i] = q[i]
          /\ cut[i - 1] \in Int /\ cut[i] \in Int
      <4>1. next[i] = cut[i] /\ next[i - 1] = cut[i - 1]
        BY <1>5, <3>1
      <4>2. r[i] = q[i]
        BY <1>2, <1>3, <3>1
      <4>3. cut[i - 1] \in Int /\ cut[i] \in Int
        BY <1>2, <1>3, <3>1
      <4> QED
        BY <4>1, <4>2, <4>3
    <3>3. /\ cut[i] = cut[i - 1] + 3 + Len(q[i]) /\ cut[i] <= Len(s)
          /\ \A j \in 1 .. 3 + Len(q[i]) :
               cut[i - 1] + j > 0 => s[cut[i - 1] + j] = Frame(q[i])[j]
      BY <3>1 DEF Framed
    <3>4. Len(q[i]) \in Nat
      BY <1>2, <3>1, PacketIs
    <3>5. ASSUME NEW j \in 1 .. 3 + Len(q[i]), cut[i - 1] + j > 0
          PROVE  t[cut[i - 1] + j] = Frame(q[i])[j]
      <4> DEFINE w == 3 + Len(q[i])
      <4>0. w \in Nat /\ cut[i - 1] + w <= Len(s) /\ j \in 1 .. w
        <5>1. cut[i - 1] \in Int
          BY <3>2
        <5>2. cut[i] = cut[i - 1] + 3 + Len(q[i]) /\ cut[i] <= Len(s)
          BY <3>3
        <5>3. w \in Nat
          BY <3>4
        <5>4. cut[i - 1] + w <= Len(s)
          BY <3>4, <5>1, <5>2
        <5> QED
          BY <3>5, <5>3, <5>4
      <4>1. cut[i - 1] + j \in 1 .. Len(s)
        <5>1. cut[i - 1] - 0 + j > 0 /\ 0 \in Nat
          BY <3>2, <3>5
        <5> HIDE DEF w
        <5> QED
          BY <1>1, <3>2, <4>0, <5>1, InLine
      <4> QED
        BY <1>0, <3>3, <3>5, <4>1
    <3> QED
      BY <3>2, <3>3, <3>5
  <2> QED
    BY <2>1, <2>2
<1>8. Framed(t, next, r, k)
  BY <1>4, <1>6, <1>7 DEF Framed
<1> QED
  BY <1>5, <1>8 DEF next, r

\* A byte that arrives stays on the line.
LEMMA Arrived ==
    ASSUME NEW a \in Seq(Byte), NEW b \in Seq(Byte), b # <<>>
    PROVE  /\ Append(a, Head(b)) \in Seq(Byte) /\ Tail(b) \in Seq(Byte)
           /\ Append(a, Head(b)) \o Tail(b) = a \o b
<1>1. Head(b) \in Byte /\ Tail(b) \in Seq(Byte) /\ <<Head(b)>> \o Tail(b) = b
  BY HeadTailProperties, ConcatSimplifications
<1>2. Append(a, Head(b)) = a \o <<Head(b)>> /\ Append(a, Head(b)) \in Seq(Byte)
  BY <1>1, AppendIsConcat, AppendProperties
<1>3. <<Head(b)>> \in Seq(Byte)
  BY <1>1
<1>4. (a \o <<Head(b)>>) \o Tail(b) = a \o (<<Head(b)>> \o Tail(b))
  BY <1>1, <1>3, ConcatAssociative
<1> QED
  BY <1>1, <1>2, <1>4

\* The bytes of a after its first m.
LEMMA RestIs ==
    ASSUME NEW a \in Seq(Byte), NEW m \in 0 .. Len(a)
    PROVE  LET c == SubSeq(a, m + 1, Len(a)) IN
           c \in Seq(Byte) /\ Len(c) = Len(a) - m /\ \A i \in 1 .. Len(c) : c[i] = a[i + m]
<1>1. Len(a) \in Nat /\ m \in Nat
  BY LenProperties
<1>2. SubSeq(a, m + 1, Len(a)) = [i \in 1 .. Len(a) - m |-> a[i + m]]
  <2>1. 1 + Len(a) - (m + 1) = Len(a) - m /\ \A i \in Int : i + (m + 1) - 1 = i + m
    BY <1>1
  <2> QED
    BY <1>1, <2>1
<1>3. \A i \in 1 .. Len(a) - m : i + m \in 1 .. Len(a) /\ a[i + m] \in Byte
  BY <1>1, ElementOfSeq
<1>4. Len(a) - m \in Nat
  BY <1>1
<1> QED
  BY <1>2, <1>3, <1>4, IsASeq, LenProperties

LEMMA MovedBy ==
    ASSUME NEW l \in Nat, NEW m \in 0 .. l, NEW n, n = l - m
    PROVE  /\ \A x \in Int : (x <= n <=> x + m <= l) /\ x - n = x + m - l
           /\ \A k \in Nat : n + k = l + k - m /\ m \in 0 .. l + k
OBVIOUS

\* What of the line a, b is left when m bytes of a have been taken.
LEMMA Dropped ==
    ASSUME NEW a \in Seq(Byte), NEW b \in Seq(Byte), NEW m \in 0 .. Len(a), NEW c,
           c = SubSeq(a, m + 1, Len(a))
    PROVE  /\ c \in Seq(Byte) /\ Behind(c \o b, a \o b, m) /\ m \in 0 .. Len(a \o b)
           /\ a \o b \in Seq(Byte) /\ \A x \in 1 .. Len(a) : (a \o b)[x] = a[x]
<1>1. Len(a) \in Nat /\ Len(b) \in Nat /\ m \in Nat
  BY LenProperties
<1>2. /\ a \o b \in Seq(Byte) /\ Len(a \o b) = Len(a) + Len(b)
      /\ \A i \in 1 .. Len(a) + Len(b) :
           (a \o b)[i] = IF i <= Len(a) THEN a[i] ELSE b[i - Len(a)]
  BY ConcatProperties
<1>0. PICK d : d = c
  OBVIOUS
<1>3. d \in Seq(Byte) /\ Len(d) = Len(a) - m /\ \A i \in 1 .. Len(d) : d[i] = a[i + m]
  BY <1>0, RestIs
<1>4. /\ d \o b \in Seq(Byte) /\ Len(d \o b) = Len(d) + Len(b)
      /\ \A i \in 1 .. Len(d) + Len(b) :
           (d \o b)[i] = IF i <= Len(d) THEN d[i] ELSE b[i - Len(d)]
  BY <1>3, ConcatProperties
<1>5. ASSUME NEW x \in 1 .. Len(d) + Len(b) PROVE (d \o b)[x] = (a \o b)[x + m]
  <2>1. x + m \in 1 .. Len(a) + Len(b) /\ x \in Int /\ Len(d) \in Int
    BY <1>1, <1>3
  <2>2. CASE x <= Len(d)
    <3>1. x + m <= Len(a) /\ x \in 1 .. Len(d)
      BY <1>1, <1>3, <2>1, <2>2, MovedBy
    <3>2. (d \o b)[x] = a[x + m]
      BY <1>3, <1>4, <2>2, <3>1
    <3> QED
      BY <1>2, <2>1, <3>1, <3>2
  <2>3. CASE ~(x <= Len(d))
    <3>1. ~(x + m <= Len(a)) /\ x - Len(d) = x + m - Len(a)
      BY <1>1, <1>3, <2>1, <2>3, MovedBy
    <3>2. (d \o b)[x] = b[x + m - Len(a)]
      BY <1>4, <2>3, <3>1
    <3> QED
      BY <1>2, <2>1, <3>1, <3>2
  <2> QED
    BY <2>2, <2>3
<1>6. Len(d \o b) = Len(a \o b) - m /\ m \in 0 .. Len(a \o b)
  <2>1. Len(d) + Len(b) = Len(a) + Len(b) - m /\ m \in 0 .. Len(a) + Len(b)
    BY <1>1, <1>3, MovedBy
  <2> QED
    BY <1>2, <1>4, <2>1
<1>7. \A x \in 1 .. Len(a) : x \in 1 .. Len(a) + Len(b) /\ x <= Len(a)
  BY <1>1
<1>8. Behind(d \o b, a \o b, m)
  BY <1>4, <1>5, <1>6 DEF Behind
<1> QED
  BY <1>0, <1>2, <1>3, <1>6, <1>7, <1>8

\* The frame of a packet at the end of the line.
LEMMA Extended ==
    ASSUME NEW a \in Seq(Byte), NEW b \in Seq(Byte), NEW p \in Packets
    PROVE  /\ b \o Frame(p) \in Seq(Byte)
           /\ a \o (b \o Frame(p)) = (a \o b) \o Frame(p)
           /\ Extends((a \o b) \o Frame(p), a \o b, p)
<1> DEFINE s == a \o b
           f == Frame(p)
<1>1. f \in Seq(Byte) /\ Len(f) = 3 + Len(p) /\ Len(p) \in Nat
  BY FrameIs, PacketIs
<1>2. s \in Seq(Byte) /\ Len(s) \in Nat
  BY ConcatProperties, LenProperties
<1>3. a \o (b \o f) = s \o f /\ b \o f \in Seq(Byte)
  <2>1. f \in Seq(Byte)
    BY <1>1
  <2> HIDE DEF f
  <2>2. b \o f \in Seq(Byte)
    BY <2>1, TwoStrings
  <2>3. a \o (b \o f) = (a \o b) \o f
    BY <2>1, ConcatAssociative
  <2> QED
    BY <2>2, <2>3
<1> HIDE DEF s, f
<1>4. /\ s \o f \in Seq(Byte) /\ Len(s \o f) = Len(s) + Len(f)
      /\ \A i \in 1 .. Len(s) + Len(f) :
           (s \o f)[i] = IF i <= Len(s) THEN s[i] ELSE f[i - Len(s)]
  <2>1. s \in Seq(Byte) /\ f \in Seq(Byte)
    BY <1>1, <1>2
  <2> QED
    BY <2>1, TwoStrings
<1>5. Len(s \o f) = Len(s) + 3 + Len(p)
  BY <1>1, <1>2, <1>4
<1>6. \A x \in 1 .. Len(s) : x \in 1 .. Len(s) + Len(f) /\ x <= Len(s)
  BY <1>1, <1>2
<1>7. \A j \in 1 .. 3 + Len(p) : /\ Len(s) + j \in 1 .. Len(s) + Len(f)
                                 /\ ~(Len(s) + j <= Len(s)) /\ Len(s) + j - Len(s) = j
  BY <1>1, <1>2
<1>8. \A x \in 1 .. Len(s) : (s \o f)[x] = s[x]
  BY <1>4, <1>6
<1>9. \A j \in 1 .. 3 + Len(p) : (s \o f)[Len(s) + j] = f[j]
  BY <1>4, <1>7
<1> QED
  BY <1>3, <1>4, <1>5, <1>8, <1>9 DEF s, f, Extends

\* What the firmware sends for a command.
LEMMA ReplyIs ==
    ASSUME NEW c \in 0 .. 127, NEW line \in Seq(Byte)
    PROVE  /\ line \o <<LOG>> \o Frame(<<c + 128>>) \in Seq(Byte)
           /\ line = <<>> => line \o <<LOG>> \o Frame(<<c + 128>>) = <<LOG, AT, 0, 1, c + 128>>
<1> DEFINE d == c + 128
<1>1. d \in Byte /\ 0 \in Byte /\ 1 \in Byte /\ AT \in Byte /\ LOG \in Byte
  BY DEF Byte, AT, LOG
<1> HIDE DEF d
<1>2. Frame(<<d>>) = <<AT, 0, 1, d>>
  <2>1. Len(<<d>>) = 1 /\ 1 \div 256 = 0 /\ 1 % 256 = 1
    BY <1>1
  <2>2. Frame(<<d>>) = <<AT, 0, 1>> \o <<d>>
    BY <2>1 DEF Frame
  <2> QED
    BY <1>1, <2>2
<1>3. Frame(<<d>>) \in Seq(Byte) /\ <<LOG>> \in Seq(Byte) /\ Len(<<LOG>>) = 1
  <2>1. <<AT, 0, 1, d>> \in Seq(Byte)
    BY <1>1
  <2>2. <<LOG>> \in Seq(Byte)
    BY <1>1
  <2> QED
    BY <1>2, <2>1, <2>2
<1>4. line \o <<LOG>> \o Frame(<<d>>) \in Seq(Byte)
  BY <1>3, ConcatProperties
<1>5. ASSUME line = <<>> PROVE line \o <<LOG>> \o Frame(<<d>>) = <<LOG, AT, 0, 1, d>>
  <2>1. line \o <<LOG>> = <<LOG>>
    BY <1>3, <1>5, ConcatEmptySeq
  <2>2. <<LOG>> \o <<AT, 0, 1, d>> = <<LOG, AT, 0, 1, d>>
    <3> DEFINE u == <<LOG>>
               v == <<AT, 0, 1, d>>
               w == <<LOG, AT, 0, 1, d>>
    <3>1. /\ u \in Seq(Byte) /\ v \in Seq(Byte) /\ w \in Seq(Byte)
          /\ Len(u) = 1 /\ Len(v) = 4 /\ Len(w) = 5
      BY <1>1
    <3>2. /\ u[1] = LOG /\ v[1] = AT /\ v[2] = 0 /\ v[3] = 1 /\ v[4] = d
          /\ w[1] = LOG /\ w[2] = AT /\ w[3] = 0 /\ w[4] = 1 /\ w[5] = d
      OBVIOUS
    <3> HIDE DEF u, v, w
    <3>3. /\ u \o v \in Seq(Byte) /\ Len(u \o v) = 5
          /\ \A i \in 1 .. 5 : (u \o v)[i] = IF i <= 1 THEN u[i] ELSE v[i - 1]
      <4>1. /\ u \o v \in Seq(Byte) /\ Len(u \o v) = Len(u) + Len(v)
            /\ \A i \in 1 .. Len(u) + Len(v) :
                 (u \o v)[i] = IF i <= Len(u) THEN u[i] ELSE v[i - Len(u)]
        BY <3>1, ConcatProperties
      <4>2. Len(u) + Len(v) = 5
        BY <3>1
      <4> QED
        BY <3>1, <4>1, <4>2
    <3>4. \A i \in 1 .. 5 : i = 1 \/ i = 2 \/ i = 3 \/ i = 4 \/ i = 5
      OBVIOUS
    <3>5. \A i \in 1 .. 5 : (u \o v)[i] = w[i]
      <4>1. /\ (u \o v)[1] = w[1] /\ (u \o v)[2] = w[2] /\ (u \o v)[3] = w[3]
            /\ (u \o v)[4] = w[4] /\ (u \o v)[5] = w[5]
        BY <3>2, <3>3
      <4> HIDE DEF w
      <4> QED
        BY <3>4, <4>1
    <3>6. u \o v = w
      BY <3>1, <3>3, <3>5, SeqEqual
    <3> QED
      BY <3>6 DEF u, v, w
  <2> QED
    BY <1>2, <2>1, <2>2
<1> QED
  BY <1>4, <1>5 DEF d

\* The packet in the buffer is the one the handler reads.
LEMMA HandedOver ==
    ASSUME NEW p \in Packets, NEW b \in [1 .. BufferSize -> Byte],
           \A i \in 1 .. Len(p) : b[i] = p[i]
    PROVE  b[1] = p[1] /\ SubSeq(b, 1, CmdLen[b[1]]) = p
<1>1. Len(p) \in Nat \ {0} /\ p \in Seq(Byte) /\ CmdLen[p[1]] = Len(p) /\ 1 \in 1 .. Len(p)
  BY PacketIs
<1>2. b[1] = p[1]
  BY <1>1
<1>3. SubSeq(b, 1, Len(p)) = [i \in 1 .. Len(p) |-> b[i]]
  BY <1>1
<1>4. p = [i \in 1 .. Len(p) |-> p[i]]
  BY <1>1, LenProperties
<1> QED
  BY <1>1, <1>2, <1>3, <1>4

-----------------------------------------------------------------------------
(* The dispatcher *)

\* Where the dispatcher stands, spelled out for one cut of the line.
At(cut, k) ==
    /\ cut \in [Nat -> Int]
    /\ Framed(Line, cut, sent, k)
    /\ Reached(loop, remaining, bytes, rxBuffer, sent, k, cut[k])

\* The first frame the line still holds, as far as it has been read: the packet it
\* carries, and the byte of the frame that each received byte is.
LEMMA FirstFrame ==
    ASSUME Typed, NEW k \in 0 .. Len(sent), NEW cut, At(cut, k), k < Len(sent)
    PROVE  LET p == sent[k + 1] IN
           /\ p \in Packets /\ cut[k] \in Int
           /\ cut[k + 1] = cut[k] + 3 + Len(p)
           /\ \A x \in 1 .. Len(rxFifo) :
                x - cut[k] \in 1 .. 3 + Len(p) => rxFifo[x] = Frame(p)[x - cut[k]]
<1> DEFINE p == sent[k + 1]
<1>1. k \in Nat /\ k + 1 \in 1 .. Len(sent) /\ k + 1 \in k + 1 .. Len(sent) /\ k + 1 - 1 = k
      /\ k + 1 \in Nat
  BY LenProperties DEF Typed
<1>2. p \in Packets /\ cut[k] \in Int /\ Len(p) \in Nat
  BY <1>1, ElementOfSeq, PacketIs DEF Typed, At
<1>3. /\ cut[k + 1] = cut[k] + 3 + Len(p)
      /\ \A j \in 1 .. 3 + Len(p) : cut[k] + j > 0 => Line[cut[k] + j] = Frame(p)[j]
  <2>1. \A i \in k + 1 .. Len(sent) :
          /\ cut[i] = cut[i - 1] + 3 + Len(sent[i])
          /\ \A j \in 1 .. 3 + Len(sent[i]) :
               cut[i - 1] + j > 0 => Line[cut[i - 1] + j] = Frame(sent[i])[j]
    BY DEF At, Framed
  <2> QED
    BY <1>1, <2>1
<1> HIDE DEF p
<1>4. \A x \in 1 .. Len(rxFifo) : Line[x] = rxFifo[x]
  <2>1. Len(rxFifo) \in Nat /\ 0 \in 0 .. Len(rxFifo) /\ rxFifo \in Seq(Byte) /\ toFw \in Seq(Byte)
    BY LenProperties DEF Typed
  <2> QED
    BY <2>1, Dropped DEF Line
<1>5. ASSUME NEW x \in 1 .. Len(rxFifo), x - cut[k] \in 1 .. 3 + Len(p)
      PROVE  rxFifo[x] = Frame(p)[x - cut[k]]
  <2>1. Len(rxFifo) \in Nat
    BY LenProperties DEF Typed
  <2>2. cut[k] + (x - cut[k]) = x /\ x > 0
    BY <1>2, <2>1
  <2> QED
    BY <1>3, <1>4, <1>5, <2>2
<1> QED
  BY <1>2, <1>3, <1>5 DEF p

\* m received bytes taken: every frame moves up by m.
LEMMA MovesUp ==
    ASSUME Typed, NEW k \in 0 .. Len(sent), NEW cut, At(cut, k), NEW m \in 0 .. Len(rxFifo),
           rxFifo' = SubSeq(rxFifo, m + 1, Len(rxFifo)), toFw' = toFw
    PROVE  LET next == [i \in Nat |-> cut[i] - m] IN
           /\ Framed(Line', next, sent, k) /\ next \in [Nat -> Int]
           /\ \A i \in Nat : next[i] = cut[i] - m
<1>1. Len(rxFifo) \in Nat /\ m \in Nat /\ cut \in [Nat -> Int]
  BY LenProperties DEF Typed, At
<1>2. Behind(Line', Line, m) /\ Line \in Seq(Byte) /\ m \in 0 .. Len(Line)
  BY Dropped DEF Typed, Line
<1>3. Framed(Line', [i \in Nat |-> cut[i] - m], sent, k)
  BY <1>2, Shifted DEF Typed, At
<1> QED
  BY <1>1, <1>3

\* While the line holds a byte, a packet is still to be executed.
LEMMA SomethingLeft ==
    ASSUME Typed, NEW k \in 0 .. Len(sent), NEW cut, At(cut, k), cut[k] <= 0, rxFifo # <<>>
    PROVE  k < Len(sent)
<1>1. Len(Line) = Len(rxFifo) + Len(toFw) /\ Len(rxFifo) \in Nat \ {0} /\ Len(toFw) \in Nat
  BY ConcatProperties, LenProperties, EmptySeq DEF Typed, Line
<1>2. Len(sent) \in Nat
  BY LenProperties DEF Typed
<1>3. cut[Len(sent)] = Len(Line)
  BY DEF At, Framed
<1> QED
  BY <1>1, <1>2, <1>3

LEMMA Opened == 
    ASSUME IInv
    PROVE  /\ Typed /\ Len(executed) \in 0 .. Len(sent) /\ Len(executed) \in Nat
           /\ Len(sent) \in Nat /\ \E cut : At(cut, Len(executed))
<1>1. Len(executed) \in Nat /\ Len(sent) \in Nat
  BY LenProperties DEF IInv, Typed
<1> QED
  BY <1>1 DEF IInv, Wire, At, HandsOffRequests

\* A step that hands nothing over disturbs neither the history nor the host's exchange.
LEMMA NothingHanded ==
    ASSUME IInv, Typed', Wire', UNCHANGED <<executed, toHost, host, sent>>
    PROVE  IInv'
<1>1. HandsOffRequests'
  BY DEF IInv, HandsOffRequests
<1>2. (~host.killed => Exchange)'
  BY DEF IInv, Exchange
<1> QED
  BY <1>1, <1>2 DEF IInv

LEMMA SeekKeeps ==
    ASSUME IInv, SeekFrame, UNCHANGED <<toFw, hostVars>>
    PROVE  IInv'
<1> DEFINE k == Len(executed)
<1>1. PICK cut : At(cut, k)
  BY Opened
<1>2. k \in 0 .. Len(sent) /\ k \in Nat /\ Typed /\ loop = "seek" /\ rxFifo # <<>>
  BY Opened DEF SeekFrame
<1>3. cut[k] = 0
  BY <1>1, <1>2 DEF At, Reached
<1>4. k < Len(sent)
  BY <1>1, <1>2, <1>3, SomethingLeft
<1>5. /\ Len(rxFifo) \in Nat \ {0} /\ 1 \in 1 .. Len(rxFifo) /\ 1 \in 0 .. Len(rxFifo)
      /\ rxFifo \in Seq(Byte) /\ Head(rxFifo) = rxFifo[1] /\ Head(rxFifo) \in Byte
      /\ Tail(rxFifo) = SubSeq(rxFifo, 1 + 1, Len(rxFifo)) /\ Tail(rxFifo) \in Seq(Byte)
  BY <1>2, EmptySeq, LenProperties, HeadTailProperties, TailIsSubSeq DEF Typed
<1>6. Head(rxFifo) = AT
  <2> DEFINE p == sent[k + 1]
  <2>1. p \in Packets /\ \A x \in 1 .. Len(rxFifo) :
          x - cut[k] \in 1 .. 3 + Len(p) => rxFifo[x] = Frame(p)[x - cut[k]]
    BY <1>1, <1>2, <1>4, FirstFrame
  <2>2. 1 - cut[k] = 1 /\ 1 \in 1 .. 3 + Len(p)
    BY <1>3, <2>1, PacketIs
  <2>3. Frame(p)[1] = AT
    BY <2>1, FrameIs
  <2> QED
    BY <1>5, <2>1, <2>2, <2>3
<1>7. Wire'
  <2> DEFINE next == [i \in Nat |-> cut[i] - 1]
  <2>1. Framed(Line', next, sent, k) /\ next \in [Nat -> Int] /\ next[k] = cut[k] - 1
    BY <1>1, <1>2, <1>5, MovesUp DEF SeekFrame
  <2> HIDE DEF next
  <2>2. next[k] = -1 /\ loop' = "length" /\ sent' = sent /\ executed' = executed
    BY <1>3, <1>6, <2>1 DEF SeekFrame, hostVars
  <2>3. Reached(loop', remaining', bytes', rxBuffer', sent', k, next[k])
    BY <1>4, <2>2 DEF Reached
  <2> QED
    BY <2>1, <2>2, <2>3 DEF Wire
<1>8. Typed'
  <2>1. bytes' \in [0 .. 1 -> Byte]
    BY <1>2, <1>5 DEF Typed, SeekFrame
  <2> QED
    BY <1>2, <1>5, <2>1 DEF Typed, SeekFrame, hostVars
<1> QED
  BY <1>7, <1>8, NothingHanded DEF SeekFrame, hostVars

LEMMA LengthKeeps ==
    ASSUME IInv, LengthTimely, ReadLength, UNCHANGED <<toFw, hostVars>>
    PROVE  IInv'
<1> DEFINE k == Len(executed)
           p == sent[k + 1]
<1>1. PICK cut : At(cut, k)
  BY Opened
<1>2. k \in 0 .. Len(sent) /\ k \in Nat /\ Typed /\ loop = "length"
  BY Opened DEF ReadLength
<1>3. cut[k] = -1 /\ k < Len(sent)
  BY <1>1, <1>2 DEF At, Reached
<1>4. Taken = 2 /\ rxFifo \in Seq(Byte) /\ Len(rxFifo) \in Nat /\ 2 \in 0 .. Len(rxFifo)
      /\ 1 \in 1 .. Len(rxFifo) /\ 2 \in 1 .. Len(rxFifo)
      /\ rxFifo' = SubSeq(rxFifo, 2 + 1, Len(rxFifo)) /\ rxFifo' \in Seq(Byte)
  <2>1. Taken = 2 /\ rxFifo' = SubSeq(rxFifo, Taken + 1, Len(rxFifo))
    BY LengthTimely DEF ReadLength
  <2>2. rxFifo \in Seq(Byte) /\ Len(rxFifo) \in Nat
    BY <1>2, LenProperties DEF Typed
  <2>3. 2 <= Len(rxFifo)
    <3> DEFINE n == Len(rxFifo)
    <3>1. (IF n < 2 THEN n ELSE 2) = 2
      BY <2>1 DEF Taken
    <3>2. n \in Nat
      BY <2>2
    <3> HIDE DEF n
    <3>3. 2 <= n
      BY <3>1, <3>2
    <3> QED
      BY <3>3 DEF n
  <2>4. 2 \in 0 .. Len(rxFifo) /\ 1 \in 1 .. Len(rxFifo) /\ 2 \in 1 .. Len(rxFifo)
    BY <2>2, <2>3
  <2>5. rxFifo' \in Seq(Byte)
    BY <1>2, <2>1, <2>2, <2>4, Dropped DEF Typed
  <2> QED
    BY <2>1, <2>2, <2>4, <2>5
<1>5. /\ p \in Packets /\ Len(p) \in 1 .. BufferSize /\ Len(p) \in Nat
      /\ 256 * rxFifo[1] + rxFifo[2] = Len(p)
  <2>1. p \in Packets /\ \A x \in 1 .. Len(rxFifo) :
          x - cut[k] \in 1 .. 3 + Len(p) => rxFifo[x] = Frame(p)[x - cut[k]]
    BY <1>1, <1>2, <1>3, FirstFrame
  <2>2. /\ 1 - cut[k] = 2 /\ 2 \in 1 .. 3 + Len(p)
        /\ 2 - cut[k] = 3 /\ 3 \in 1 .. 3 + Len(p)
        /\ Len(p) \in 1 .. BufferSize /\ Len(p) \in Nat
    BY <1>3, <2>1, PacketIs
  <2>3. 256 * Frame(p)[2] + Frame(p)[3] = Len(p)
    BY <2>1, FrameIs
  <2> QED
    BY <1>4, <2>1, <2>2, <2>3
<1> HIDE DEF p
<1>6. 256 * LengthBytes[0] + LengthBytes[1] = Len(p) /\ LengthBytes \in [0 .. 1 -> Byte]
  <2>1. LengthBytes = [i \in 0 .. 1 |-> rxFifo[i + 1]]
    BY <1>4 DEF LengthBytes
  <2>2. \A i \in 0 .. 1 : i + 1 \in 1 .. Len(rxFifo) /\ rxFifo[i + 1] \in Byte
    BY <1>4, ElementOfSeq
  <2> QED
    BY <1>5, <2>1, <2>2
<1>7. /\ bytes' = LengthBytes /\ remaining' = Len(p) /\ loop' = "body"
      /\ UNCHANGED <<executed, toHost, rxBuffer>>
  <2> DEFINE len == 256 * LengthBytes[0] + LengthBytes[1]
  <2>1. len = Len(p)
    BY <1>5, <1>6
  <2>2. /\ \/ len > BufferSize
           \/ len = 0
           \/ /\ bytes' = LengthBytes /\ remaining' = len /\ loop' = "body"
              /\ UNCHANGED <<executed, toHost>>
        /\ UNCHANGED rxBuffer
    BY DEF ReadLength
  <2> HIDE DEF len
  <2>3. ~(len > BufferSize) /\ len # 0
    <3> DEFINE n == Len(p)
    <3>1. len = n /\ n \in 1 .. BufferSize /\ BufferSize \in Nat
      BY <1>5, <2>1, Sizes
    <3> HIDE DEF n
    <3> QED
      BY <3>1
  <2> QED
    BY <2>1, <2>2, <2>3
<1>8. Wire'
  <2> DEFINE next == [i \in Nat |-> cut[i] - 2]
  <2>1. Framed(Line', next, sent, k) /\ next \in [Nat -> Int] /\ next[k] = cut[k] - 2
    <3>1. 2 \in 0 .. Len(rxFifo) /\ k \in Nat
          /\ rxFifo' = SubSeq(rxFifo, 2 + 1, Len(rxFifo)) /\ toFw' = toFw
      BY <1>1, <1>4
    <3>2. /\ Framed(Line', next, sent, k) /\ next \in [Nat -> Int]
          /\ \A i \in Nat : next[i] = cut[i] - 2
      BY <1>1, <1>2, <3>1, MovesUp
    <3> HIDE DEF next
    <3> QED
      BY <3>1, <3>2
  <2> HIDE DEF next
  <2>2. next[k] = -3 /\ sent' = sent /\ executed' = executed
    BY <1>3, <1>7, <2>1 DEF hostVars
  <2>3. /\ remaining' \in 1 .. Len(p) /\ next[k] = remaining' - Len(p) - 3
        /\ 1 .. Len(p) - remaining' = {}
    BY <1>5, <1>7, <2>2
  <2>4. Reached(loop', remaining', bytes', rxBuffer', sent', k, next[k])
    BY <1>3, <1>6, <1>7, <2>2, <2>3 DEF Reached, p
  <2> QED
    BY <2>1, <2>2, <2>4 DEF Wire
<1>9. Typed'
  <2>1. remaining' \in 0 .. BufferSize
    BY <1>5, <1>7, Sizes
  <2> QED
    BY <1>2, <1>4, <1>6, <1>7, <2>1 DEF Typed, hostVars
<1> QED
  BY <1>7, <1>8, <1>9, NothingHanded DEF hostVars

\* What ReadBody takes, and where it puts it.
Batch == IF Len(rxFifo) < remaining THEN Len(rxFifo) ELSE remaining
Position == FrameLength - remaining
Grown == Filled(Position, Batch)

\* The buffer grows by the packet's next bytes.
LEMMA BodyGrows ==
    ASSUME Typed, NEW k \in 0 .. Len(sent), NEW cut, At(cut, k), loop = "body", rxFifo # <<>>
    PROVE  LET p == sent[k + 1] IN
           /\ k < Len(sent) /\ p \in Packets /\ remaining \in 1 .. Len(p)
           /\ cut[k] = remaining - Len(p) - 3 /\ cut[k + 1] = cut[k] + 3 + Len(p)
           /\ FrameLength = Len(p)
           /\ Batch \in 1 .. remaining /\ Batch \in 0 .. Len(rxFifo)
           /\ Grown \in [1 .. BufferSize -> Byte]
           /\ \A i \in 1 .. Len(p) - remaining + Batch : Grown[i] = p[i]
<1> DEFINE p == sent[k + 1]
<1>1. /\ k < Len(sent) /\ remaining \in 1 .. Len(p) /\ cut[k] = remaining - Len(p) - 3
      /\ FrameLength = Len(p)
      /\ \A i \in 1 .. Len(p) - remaining : rxBuffer[i] = p[i]
  BY DEF At, Reached, FrameLength
<1>2. /\ p \in Packets /\ cut[k + 1] = cut[k] + 3 + Len(p)
      /\ \A x \in 1 .. Len(rxFifo) :
           x - cut[k] \in 1 .. 3 + Len(p) => rxFifo[x] = Frame(p)[x - cut[k]]
  BY <1>1, FirstFrame
<1>3. Len(p) \in Nat /\ Len(p) \in 1 .. BufferSize /\ \A i \in 1 .. Len(p) : Frame(p)[3 + i] = p[i]
  BY <1>2, PacketIs, FrameIs
<1>4. /\ rxFifo \in Seq(Byte) /\ Len(rxFifo) \in Nat \ {0}
      /\ \A x \in 1 .. Len(rxFifo) : rxFifo[x] \in Byte
      /\ rxBuffer \in [1 .. BufferSize -> Byte]
  BY EmptySeq, LenProperties, ElementOfSeq DEF Typed
<1> HIDE DEF p
<1>5. /\ remaining \in Nat /\ Batch \in 1 .. remaining /\ Batch \in 0 .. Len(rxFifo)
      /\ Batch \in Nat
  BY <1>1, <1>3, <1>4 DEF Batch
<1>6. Position = Len(p) - remaining /\ Position \in Nat
  BY <1>1, <1>3, <1>5 DEF Position
<1>7. \A i \in 1 .. BufferSize :
        Grown[i] = IF i \in Position + 1 .. Position + Batch THEN rxFifo[i - Position] ELSE rxBuffer[i]
  BY DEF Grown, Filled
<1>8. Grown \in [1 .. BufferSize -> Byte]
  <2>1. \A i \in Position + 1 .. Position + Batch : rxFifo[i - Position] \in Byte
    <3>1. \A i \in Position + 1 .. Position + Batch : i - Position \in 1 .. Len(rxFifo)
      BY <1>4, <1>5, <1>6
    <3> QED
      BY <1>4, <3>1
  <2> QED
    BY <1>4, <2>1 DEF Grown, Filled
<1>9. ASSUME NEW i \in 1 .. Len(p) - remaining + Batch PROVE Grown[i] = p[i]
  <2>1. i \in 1 .. BufferSize /\ i \in 1 .. Len(p)
    BY <1>1, <1>3, <1>5, Sizes
  <2>2. CASE i \in Position + 1 .. Position + Batch
    <3> DEFINE x == i - Position
    <3>1. x \in 1 .. Len(rxFifo)
      BY <1>4, <1>5, <1>6, <2>2
    <3>2. x - cut[k] = 3 + i /\ x - cut[k] \in 1 .. 3 + Len(p)
      BY <1>1, <1>3, <1>5, <1>6, <2>1
    <3> HIDE DEF x
    <3>3. rxFifo[x] = p[i]
      BY <1>2, <1>3, <2>1, <3>1, <3>2
    <3> QED
      BY <1>7, <2>1, <2>2, <3>3 DEF x
  <2>3. CASE i \notin Position + 1 .. Position + Batch
    <3>1. i \in 1 .. Len(p) - remaining
      BY <1>3, <1>5, <1>6, <2>3
    <3> QED
      BY <1>1, <1>7, <2>1, <2>3, <3>1
  <2> QED
    BY <2>2, <2>3
<1> QED
  BY <1>1, <1>2, <1>5, <1>8, <1>9 DEF p

\* Part of the packet: the dispatcher goes on reading.
LEMMA PartKeeps ==
    ASSUME IInv, ReadBody, Batch # remaining, UNCHANGED <<toFw, hostVars>>
    PROVE  IInv'
<1> DEFINE k == Len(executed)
           p == sent[k + 1]
<1>1. PICK cut : At(cut, k)
  BY Opened
<1>2. k \in 0 .. Len(sent) /\ k \in Nat /\ Typed /\ loop = "body" /\ rxFifo # <<>>
  BY Opened DEF ReadBody
<1>3. /\ rxFifo' = SubSeq(rxFifo, Batch + 1, Len(rxFifo)) /\ rxBuffer' = Grown
      /\ remaining' = remaining - Batch
      /\ UNCHANGED <<loop, bytes, executed, toHost>>
  BY DEF ReadBody, Batch, Position, Grown
<1>4. /\ k < Len(sent) /\ p \in Packets /\ remaining \in 1 .. Len(p)
      /\ cut[k] = remaining - Len(p) - 3
      /\ FrameLength = Len(p)
      /\ Batch \in 1 .. remaining /\ Batch \in 0 .. Len(rxFifo)
      /\ Grown \in [1 .. BufferSize -> Byte]
      /\ \A i \in 1 .. Len(p) - remaining + Batch : Grown[i] = p[i]
  BY <1>1, <1>2, BodyGrows
<1>5. Len(p) \in Nat /\ Len(p) \in 1 .. BufferSize
  BY <1>4, PacketIs
<1> HIDE DEF p
<1>6. /\ remaining' \in 1 .. Len(p) /\ remaining' \in 0 .. BufferSize
      /\ Len(p) - remaining' = Len(p) - remaining + Batch
      /\ cut[k] - Batch = remaining' - Len(p) - 3
  BY <1>3, <1>4, <1>5, Sizes
<1>7. Wire'
  <2>0. PICK m : m = Batch
    OBVIOUS
  <2> DEFINE next == [i \in Nat |-> cut[i] - m]
  <2>1. Framed(Line', next, sent, k) /\ next \in [Nat -> Int] /\ next[k] = cut[k] - Batch
    <3>1. m \in 0 .. Len(rxFifo) /\ rxFifo' = SubSeq(rxFifo, m + 1, Len(rxFifo)) /\ toFw' = toFw
      BY <1>3, <1>4, <2>0
    <3>2. Framed(Line', next, sent, k) /\ next \in [Nat -> Int] /\ next[k] = cut[k] - m
      BY <1>1, <1>2, <3>1, MovesUp
    <3> QED
      BY <2>0, <3>2
  <2> HIDE DEF next
  <2>2. sent' = sent /\ executed' = executed
    BY <1>3 DEF hostVars
  <2>3. Reached(loop', remaining', bytes', rxBuffer', sent', k, next[k])
    BY <1>2, <1>3, <1>4, <1>6, <2>1, <2>2 DEF Reached, FrameLength, p
  <2> QED
    BY <2>1, <2>2, <2>3 DEF Wire
<1>8. Typed'
  <2>1. rxFifo' \in Seq(Byte)
    BY <1>2, <1>3, <1>4, Dropped DEF Typed
  <2> QED
    BY <1>2, <1>3, <1>4, <1>6, <2>1 DEF Typed, hostVars
<1> QED
  BY <1>3, <1>7, <1>8, NothingHanded DEF hostVars

\* The whole packet: it is executed, and its reply sent.
LEMMA WholeKeeps ==
    ASSUME IInv, ReadBody, Batch = remaining, UNCHANGED <<toFw, hostVars>>
    PROVE  IInv'
<1> DEFINE k == Len(executed)
           p == sent[k + 1]
           reply == toHost \o <<LOG>> \o Frame(<<p[1] + 128>>)
<1>1. PICK cut : At(cut, k)
  BY Opened
<1>2. k \in 0 .. Len(sent) /\ k \in Nat /\ Len(sent) \in Nat /\ Typed /\ loop = "body"
      /\ rxFifo # <<>>
  BY Opened DEF ReadBody
<1>3. /\ k < Len(sent) /\ p \in Packets /\ remaining \in 1 .. Len(p)
      /\ cut[k] = remaining - Len(p) - 3 /\ cut[k + 1] = cut[k] + 3 + Len(p)
      /\ Batch \in 0 .. Len(rxFifo)
      /\ Grown \in [1 .. BufferSize -> Byte]
      /\ \A i \in 1 .. Len(p) - remaining + Batch : Grown[i] = p[i]
  BY <1>1, <1>2, BodyGrows
<1>4. Len(p) \in Nat /\ p \in Seq(Byte) /\ p[1] \in 0 .. 127
  BY <1>3, PacketIs
<1>5. Grown[1] = p[1] /\ SubSeq(Grown, 1, CmdLen[Grown[1]]) = p
  <2>1. Len(p) - remaining + Batch = Len(p)
    BY <1>3, <1>4
  <2> QED
    BY <1>3, <2>1, HandedOver
<1>6. /\ rxFifo' = SubSeq(rxFifo, Batch + 1, Len(rxFifo)) /\ rxBuffer' = Grown
      /\ executed' = Append(executed, p) /\ toHost' = reply
      /\ bytes' = [bytes EXCEPT ![0] = AT, ![1] = 0] /\ loop' = "seek" /\ remaining' = 0
  <2>1. /\ rxFifo' = SubSeq(rxFifo, Batch + 1, Len(rxFifo)) /\ rxBuffer' = Grown
        /\ Execute(Grown)
    BY DEF ReadBody, Batch, Position, Grown
  <2> QED
    BY <1>5, <2>1 DEF Execute
<1> HIDE DEF p
<1>7. /\ executed' \in Seq(Seq(Byte)) /\ Len(executed') = k + 1 /\ executed'[k + 1] = p
      /\ \A i \in 1 .. k : executed'[i] = executed[i]
  BY <1>2, <1>4, <1>6, AppendProperties DEF Typed
<1>8. Wire'
  <2>0. PICK m : m = Batch
    OBVIOUS
  <2> DEFINE next == [i \in Nat |-> cut[i] - m]
  <2>1. /\ Framed(Line', next, sent, k) /\ next \in [Nat -> Int]
        /\ next[k + 1] = cut[k + 1] - m
    <3>1. m \in 0 .. Len(rxFifo) /\ rxFifo' = SubSeq(rxFifo, m + 1, Len(rxFifo)) /\ toFw' = toFw
      BY <1>3, <1>6, <2>0
    <3>2. k + 1 \in Nat
      BY <1>2
    <3> QED
      BY <1>1, <1>2, <3>1, <3>2, MovesUp
  <2> HIDE DEF next
  <2>2. next[k + 1] = 0
    <3>1. cut[k + 1] = m
      BY <1>3, <1>4, <2>0
    <3> QED
      BY <1>3, <2>0, <2>1, <3>1
  <2>3. Framed(Line', next, sent, k + 1)
    BY <1>2, <1>3, <2>1, Fewer
  <2>4. Reached(loop', remaining', bytes', rxBuffer', sent, k + 1, next[k + 1])
    BY <1>6, <2>2 DEF Reached
  <2>5. sent' = sent
    BY DEF hostVars
  <2> QED
    BY <1>7, <2>1, <2>3, <2>4, <2>5 DEF Wire
<1>9. /\ reply \in Seq(Byte)
      /\ toHost = <<>> => reply = <<LOG, AT, 0, 1, p[1] + 128>>
  BY <1>2, <1>4, ReplyIs DEF Typed
<1> HIDE DEF reply
<1>10. Typed'
  <2>1. rxFifo' \in Seq(Byte)
    <3>1. PICK m : m = Batch
      OBVIOUS
    <3> QED
      BY <1>2, <1>3, <1>6, <3>1, Dropped DEF Typed
  <2>2. bytes' \in [0 .. 1 -> Byte] /\ remaining' \in 0 .. BufferSize
    <3>1. AT \in Byte /\ 0 \in Byte
      BY DEF AT, Byte
    <3>2. bytes \in [0 .. 1 -> Byte] /\ 0 \in 0 .. BufferSize
      BY <1>2, Sizes DEF Typed
    <3> QED
      BY <1>6, <3>1, <3>2
  <2> QED
    BY <1>2, <1>3, <1>6, <1>7, <1>9, <2>1, <2>2 DEF Typed, hostVars
<1>11. HandsOffRequests'
  <2>1. \A i \in 1 .. k + 1 : i \in 1 .. k \/ i = k + 1
    BY <1>2
  <2>2. k + 1 <= Len(sent) /\ sent' = sent
    BY <1>2, <1>3 DEF hostVars
  <2>3. \A i \in 1 .. k : executed[i] = sent[i]
    BY DEF IInv, HandsOffRequests
  <2> QED
    BY <1>7, <2>1, <2>2, <2>3 DEF HandsOffRequests, p
<1>12. ASSUME ~host'.killed PROVE Exchange'
  <2>1. host' = host /\ sent' = sent /\ Exchange
    BY <1>12 DEF hostVars, IInv
  <2>2. /\ host.doing = "seek" /\ host.got = <<>> /\ toHost = <<>>
        /\ Len(sent) > 0 /\ k = Len(sent) - 1
    BY <1>2, <1>3, <2>1 DEF Exchange
  <2>3. Len(executed') = Len(sent) /\ k + 1 = Len(sent)
    BY <1>2, <1>7, <2>2
  <2>4. toHost' = <<LOG, AT, 0, 1, sent[Len(sent)][1] + 128>>
    BY <1>6, <1>9, <2>2, <2>3 DEF p
  <2> QED
    BY <2>1, <2>2, <2>3, <2>4 DEF Exchange, Unread
<1> QED
  BY <1>8, <1>10, <1>11, <1>12 DEF IInv

-----------------------------------------------------------------------------
(* The UART and the host *)

LEMMA ArrivalKeeps == ASSUME IInv, ByteArrives PROVE IInv'
<1>1. Typed /\ toFw # <<>> /\ rxFifo' = Append(rxFifo, Head(toFw)) /\ toFw' = Tail(toFw)
      /\ UNCHANGED <<loop, bytes, remaining, rxBuffer, executed, toHost, host, sent>>
  BY DEF IInv, ByteArrives, hostVars
<1>2. rxFifo' \in Seq(Byte) /\ toFw' \in Seq(Byte) /\ Line' = Line
  BY <1>1, Arrived DEF Typed, Line
<1>3. Typed'
  BY <1>1, <1>2 DEF Typed
<1>4. Wire'
  BY <1>1, <1>2 DEF IInv, Wire
<1> QED
  BY <1>1, <1>3, <1>4, NothingHanded

LEMMA WriteKeeps ==
    ASSUME IInv, NEW packet \in Packets, HostWrites(packet)
    PROVE  IInv'
<1> DEFINE k == Len(executed)
           n == Len(sent)
<1>1. PICK cut : At(cut, k)
  BY Opened
<1>2. k \in 0 .. n /\ k \in Nat /\ n \in Nat /\ Typed
  BY Opened
<1>3. /\ host.doing = "idle" /\ toFw' = toFw \o Frame(packet) /\ sent' = Append(sent, packet)
      /\ host' = [doing |-> "seek", need |-> 0, got |-> <<>>, killed |-> host.killed]
      /\ UNCHANGED <<rxFifo, loop, bytes, remaining, rxBuffer, executed, toHost>>
  BY DEF HostWrites, Seeks, Idle, fwVars
<1>4. /\ sent' \in Seq(Packets) /\ Len(sent') = n + 1 /\ sent'[n + 1] = packet
      /\ \A i \in 1 .. n : sent'[i] = sent[i]
  BY <1>2, <1>3, AppendProperties DEF Typed
<1>5. toFw' \in Seq(Byte) /\ Extends(Line', Line, packet)
  <2>1. /\ toFw \o Frame(packet) \in Seq(Byte)
        /\ rxFifo \o (toFw \o Frame(packet)) = Line \o Frame(packet)
        /\ Extends(Line \o Frame(packet), Line, packet)
    <3>1. rxFifo \in Seq(Byte) /\ toFw \in Seq(Byte)
      BY <1>2 DEF Typed
    <3> QED
      BY <3>1, Extended DEF Line
  <2>2. Line' = Line \o Frame(packet)
    BY <1>3, <2>1 DEF Line
  <2> QED
    BY <1>3, <2>1, <2>2
<1>6. Wire'
  <2>0. PICK t : t = Line'
    OBVIOUS
  <2> DEFINE next == [cut EXCEPT ![n + 1] = Len(t)]
  <2>1. Framed(t, next, Append(sent, packet), k) /\ \A i \in 0 .. n : next[i] = cut[i]
    <3>1. Line \in Seq(Byte) /\ Framed(Line, cut, sent, k) /\ sent \in Seq(Packets)
      BY <1>1, <1>2, ConcatProperties DEF At, Typed, Line
    <3> QED
      BY <1>2, <1>5, <2>0, <3>1, Longer
  <2>2. next \in [Nat -> Int] /\ next[k] = cut[k]
    BY <1>2, <2>1 DEF Framed
  <2> HIDE DEF next
  <2>3. k < n => sent'[k + 1] = sent[k + 1] /\ k < n + 1
    BY <1>2, <1>4
  <2>4. Reached(loop', remaining', bytes', rxBuffer', sent', k, next[k])
    BY <1>1, <1>3, <1>4, <2>2, <2>3 DEF At, Reached
  <2>5. executed' = executed
    BY <1>3
  <2> QED
    BY <1>3, <2>0, <2>1, <2>2, <2>4, <2>5 DEF Wire
<1>7. Typed'
  <2>1. host' \in HostStates
    <3>1. host.killed \in BOOLEAN /\ <<>> \in Seq(Byte)
      BY <1>2, EmptySeq DEF Typed, HostStates
    <3> QED
      BY <1>3, <3>1 DEF HostStates
  <2> QED
    BY <1>2, <1>3, <1>4, <1>5, <2>1 DEF Typed
<1>8. HandsOffRequests'
  <2>1. \A i \in 1 .. k : executed[i] = sent[i] /\ i \in 1 .. n
    BY <1>2 DEF IInv, HandsOffRequests
  <2> QED
    BY <1>2, <1>3, <1>4, <2>1 DEF HandsOffRequests
<1>9. ASSUME ~host'.killed PROVE Exchange'
  <2>1. ~host.killed /\ Exchange
    BY <1>3, <1>9 DEF IInv
  <2>2. toHost = <<>> /\ k = n
    BY <1>3, <2>1 DEF Exchange, Unread
  <2> QED
    BY <1>2, <1>3, <1>4, <2>2 DEF Exchange
<1> QED
  BY <1>6, <1>7, <1>8, <1>9 DEF IInv

LEMMA TakesFirst ==
    /\ \A a, b, c, d, e : Head(<<a, b, c, d, e>>) = a /\ Tail(<<a, b, c, d, e>>) = <<b, c, d, e>>
    /\ \A a, b, c, d : Head(<<a, b, c, d>>) = a /\ Tail(<<a, b, c, d>>) = <<b, c, d>>
    /\ \A a, b, c : Head(<<a, b, c>>) = a /\ Tail(<<a, b, c>>) = <<b, c>>
    /\ \A a, b : Head(<<a, b>>) = a /\ Tail(<<a, b>>) = <<b>>
    /\ \A a : Head(<<a>>) = a /\ Tail(<<a>>) = <<>>
OBVIOUS

\* A step of the host's that touches neither the dispatcher nor the line.
LEMMA HostOnly ==
    ASSUME IInv, UNCHANGED <<toFw, rxFifo, loop, bytes, remaining, rxBuffer, executed, sent>>,
           toHost' \in Seq(Byte), host' \in HostStates, (~host.killed => Exchange)'
    PROVE  IInv'
<1>1. Typed'
  BY DEF IInv, Typed
<1>2. HandsOffRequests' /\ Wire'
  BY DEF IInv, HandsOffRequests, Wire, Line
<1> QED
  BY <1>1, <1>2 DEF IInv

LEMMA ReadKeeps == ASSUME IInv, HostReads PROVE IInv'
<1> DEFINE byte == Head(toHost)
           code == sent[Len(sent)][1] + 128
<1>1. /\ Typed /\ toHost # <<>> /\ toHost' = Tail(toHost)
      /\ UNCHANGED <<toFw, rxFifo, loop, bytes, remaining, rxBuffer, executed, sent>>
  BY DEF IInv, HostReads, fwVars
<1>2. /\ \/ /\ host.doing = "seek"
            /\ host' = IF byte = AT THEN [host EXCEPT !.doing = "high"] ELSE host
         \/ /\ host.doing = "high"
            /\ host' = [host EXCEPT !.doing = "low", !.need = 256 * byte]
         \/ /\ host.doing = "low"
            /\ host' = [host EXCEPT !.doing = "body", !.need = host.need + byte]
         \/ /\ host.doing = "body"
            /\ host' = [host EXCEPT !.doing = IF host.need = 1 THEN "idle" ELSE "body",
                                    !.need = host.need - 1, !.got = Append(host.got, byte)]
  BY DEF HostReads
<1>3. byte \in Byte /\ byte \in Int /\ toHost' \in Seq(Byte)
  <2>1. byte \in Byte /\ toHost' \in Seq(Byte)
    BY <1>1, HeadTailProperties DEF Typed
  <2> HIDE DEF byte
  <2>2. byte \in Int
    BY <2>1 DEF Byte
  <2> QED
    BY <2>1, <2>2
<1> HIDE DEF byte, code
<1>4. host \in HostStates /\ host.need \in Int /\ host.got \in Seq(Byte)
      /\ Append(host.got, byte) \in Seq(Byte)
  BY <1>1, <1>3, AppendProperties DEF Typed, HostStates
<1>5. host' \in HostStates /\ host'.killed = host.killed
  <2>1. 256 * byte \in Int /\ host.need + byte \in Int /\ host.need - 1 \in Int
    BY <1>3, <1>4
  <2>2. host' \in HostStates
    BY <1>2, <1>4, <2>1 DEF HostStates
  <2>3. host'.killed = host.killed
    BY <1>2, <1>4 DEF HostStates
  <2> QED
    BY <2>2, <2>3
<1>6. ASSUME ~host'.killed PROVE Exchange'
  <2>1. Exchange
    BY <1>5, <1>6 DEF IInv
  <2>2. Len(sent) > 0 /\ Len(executed) = Len(sent) /\ Unread(host, toHost, code)
    BY <1>1, <1>2, <2>1 DEF Exchange, code
  <2>3. host.got = <<>>
    BY <2>2 DEF Unread
  <2>4. CASE host.doing = "seek" /\ toHost = <<LOG, AT, 0, 1, code>>
    <3>1. byte = LOG /\ toHost' = <<AT, 0, 1, code>> /\ LOG # AT
      BY <1>1, <2>4, TakesFirst DEF byte, LOG, AT
    <3>2. host' = host
      BY <1>2, <2>4, <3>1
    <3>3. Unread(host', toHost', code)
      BY <2>3, <2>4, <3>1, <3>2 DEF Unread
    <3> QED
      BY <1>1, <2>2, <3>3 DEF Exchange, code
  <2>5. CASE host.doing = "seek" /\ toHost = <<AT, 0, 1, code>>
    <3>1. byte = AT /\ toHost' = <<0, 1, code>>
      BY <1>1, <2>5, TakesFirst DEF byte
    <3>2. host'.doing = "high" /\ host'.got = <<>>
      BY <1>2, <1>4, <2>3, <2>5, <3>1 DEF HostStates
    <3>3. Unread(host', toHost', code)
      BY <3>1, <3>2 DEF Unread
    <3> QED
      BY <1>1, <2>2, <3>3 DEF Exchange, code
  <2>6. CASE host.doing = "high" /\ toHost = <<0, 1, code>>
    <3>1. byte = 0 /\ toHost' = <<1, code>> /\ 256 * byte = 0
      BY <1>1, <2>6, TakesFirst DEF byte
    <3>2. host'.doing = "low" /\ host'.need = 0 /\ host'.got = <<>>
      BY <1>2, <1>4, <2>3, <2>6, <3>1 DEF HostStates
    <3>3. Unread(host', toHost', code)
      BY <3>1, <3>2 DEF Unread
    <3> QED
      BY <1>1, <2>2, <3>3 DEF Exchange, code
  <2>7. CASE host.doing = "low" /\ host.need = 0 /\ toHost = <<1, code>>
    <3>1. byte = 1 /\ toHost' = <<code>> /\ host.need + byte = 1
      BY <1>1, <2>7, TakesFirst DEF byte
    <3>2. host'.doing = "body" /\ host'.need = 1 /\ host'.got = <<>>
      BY <1>2, <1>4, <2>3, <2>7, <3>1 DEF HostStates
    <3>3. Unread(host', toHost', code)
      BY <3>1, <3>2 DEF Unread
    <3> QED
      BY <1>1, <2>2, <3>3 DEF Exchange, code
  <2>8. CASE host.doing = "body" /\ host.need = 1 /\ toHost = <<code>>
    <3>1. byte = code /\ toHost' = <<>>
      BY <1>1, <2>8, TakesFirst DEF byte
    <3>2. host'.doing = "idle" /\ host'.got = Append(<<>>, code)
      <4>1. host' = [host EXCEPT !.doing = "idle", !.need = 0, !.got = Append(<<>>, code)]
        BY <1>2, <2>3, <2>8, <3>1
      <4> QED
        BY <1>4, <4>1 DEF HostStates
    <3>3. Append(<<>>, code) = <<code>>
      OBVIOUS
    <3> QED
      BY <1>1, <2>2, <3>1, <3>2, <3>3 DEF Exchange, code
  <2> QED
    BY <2>2, <2>4, <2>5, <2>6, <2>7, <2>8 DEF Unread
<1> QED
  BY <1>1, <1>3, <1>5, <1>6, HostOnly

\* A kill takes nothing from the line; of the reply it takes any part.
LEMMA RestartKeeps == ASSUME IInv, ~CutShort, HostRestarts PROVE IInv'
<1>1. /\ Typed /\ UNCHANGED <<rxFifo, loop, bytes, remaining, rxBuffer, executed, sent>>
      /\ host' = [doing |-> "idle", need |-> 0, got |-> <<>>, killed |-> TRUE]
  BY DEF IInv, HostRestarts, Idle, fwVars
<1>2. toFw' = toFw
  <2>1. PICK n \in 0 .. Len(toFw) : (n < Len(toFw) => CutShort) /\ toFw' = SubSeq(toFw, 1, n)
    BY DEF HostRestarts
  <2>2. toFw \in Seq(Byte) /\ Len(toFw) \in Nat
    BY <1>1, LenProperties DEF Typed
  <2>3. n = Len(toFw)
    BY <2>1, <2>2
  <2> QED
    BY <2>1, <2>2, <2>3, SubSeqFull
<1>3. toHost' \in Seq(Byte)
  <2>1. PICK n \in 0 .. Len(toHost) : toHost' = SubSeq(toHost, n + 1, Len(toHost))
    BY DEF HostRestarts
  <2> QED
    BY <1>1, <2>1, Dropped DEF Typed
<1>4. host' \in HostStates /\ host'.killed
  BY <1>1, EmptySeq DEF HostStates
<1> QED
  BY <1>1, <1>2, <1>3, <1>4, HostOnly

-----------------------------------------------------------------------------
(* The theorems *)

LEMMA Starts == ASSUME Init PROVE IInv
<1>1. /\ toFw = <<>> /\ rxFifo = <<>> /\ toHost = <<>> /\ loop = "seek" /\ remaining = 0
      /\ host = [doing |-> "idle", need |-> 0, got |-> <<>>, killed |-> FALSE]
      /\ sent = <<>> /\ executed = <<>>
  BY DEF Init, Idle
<1>2. Typed
  <2>1. bytes \in [0 .. 1 -> Byte]
    BY UninitAssumption DEF Init, Byte
  <2>2. rxBuffer \in [1 .. BufferSize -> Byte]
    BY DEF Init, Byte
  <2>3. host \in HostStates
    BY <1>1, EmptySeq DEF HostStates
  <2>4. 0 \in 0 .. BufferSize
    BY Sizes
  <2> QED
    BY <1>1, <2>1, <2>2, <2>3, <2>4, EmptySeq DEF Typed
<1>3. Len(executed) = 0 /\ Len(sent) = 0 /\ Line = <<>> /\ Len(Line) = 0
  <2>1. <<>> \o <<>> = <<>> /\ Len(<<>>) = 0
    BY EmptySeq, ConcatEmptySeq
  <2> QED
    BY <1>1, <2>1 DEF Line
<1>4. HandsOffRequests
  BY <1>3 DEF HandsOffRequests
<1>5. Wire
  <2> DEFINE cut == [i \in Nat |-> 0]
  <2>1. cut \in [Nat -> Int] /\ cut[0] = 0 /\ \A i \in 0 .. 0 : cut[i] <= 0
    OBVIOUS
  <2> HIDE DEF cut
  <2>2. Framed(Line, cut, sent, Len(executed))
    <3>1. 0 + 1 .. 0 = {} /\ cut[Len(sent)] = Len(Line)
      BY <1>3, <2>1
    <3> QED
      BY <1>3, <2>1, <3>1 DEF Framed
  <2>3. Reached(loop, remaining, bytes, rxBuffer, sent, Len(executed), cut[Len(executed)])
    BY <1>1, <1>3, <2>1 DEF Reached
  <2> QED
    BY <2>1, <2>2, <2>3 DEF Wire
<1>6. Exchange
  BY <1>1, <1>3 DEF Exchange
<1> QED
  BY <1>2, <1>4, <1>5, <1>6 DEF IInv

LEMMA Keeps ==
    ASSUME IInv, [Next]_vars, LengthTimely, ~CutShort
    PROVE  IInv'
<1>1. CASE ByteArrives
  BY <1>1, ArrivalKeeps
<1>2. CASE Firmware
  <2>1. UNCHANGED <<toFw, hostVars>>
    BY <1>2 DEF Firmware
  <2>2. CASE SeekFrame
    BY <2>1, <2>2, SeekKeeps
  <2>3. CASE ReadLength
    BY <2>1, <2>3, LengthKeeps
  <2>4. CASE ReadBody
    BY <2>1, <2>4, PartKeeps, WholeKeeps
  <2> QED
    BY <1>2, <2>2, <2>3, <2>4 DEF Firmware
<1>3. CASE \E packet \in Packets : HostWrites(packet)
  BY <1>3, WriteKeeps
<1>4. CASE HostReads
  BY <1>4, ReadKeeps
<1>5. CASE HostRestarts
  BY <1>5, RestartKeeps
<1>6. CASE UNCHANGED vars
  <2>1. UNCHANGED <<toFw, rxFifo, loop, bytes, remaining, rxBuffer, executed, toHost, host, sent>>
    BY <1>6 DEF vars, fwVars, hostVars
  <2>2. toHost' \in Seq(Byte) /\ host' \in HostStates /\ (~host.killed => Exchange)'
    BY <2>1 DEF IInv, Typed, Exchange
  <2> QED
    BY <2>1, <2>2, HostOnly
<1> QED
  BY <1>1, <1>2, <1>3, <1>4, <1>5, <1>6 DEF Next, HostEnds

\* The invariant of the two ends and the line between them: the bytes on the line are the
\* frames still to be executed, and the dispatcher knows where it is in the first.
THEOREM IInvariant ==
    ASSUME LengthTimely, ~CutShort
    PROVE  Spec => []IInv
<1>1. Init => IInv
  BY Starts
<1>2. IInv /\ [Next]_vars => IInv'
  BY Keeps
<1> QED
  BY <1>1, <1>2, PTL DEF Spec

\* Every variable keeps its type.
THEOREM TypeCorrect ==
    ASSUME LengthTimely, ~CutShort
    PROVE  Spec => []TypeOK
<1>1. IInv => TypeOK
  BY DEF IInv, Typed, TypeOK, HostStates, Byte
<1> QED
  BY <1>1, IInvariant, PTL

\* However the bytes are delayed and however often the host's program is killed in a
\* write, serial_dispatch_run hands the handlers the packets FakeSerialSPI.write sent,
\* each once and in order.
THEOREM RequestsHandedOff ==
    ASSUME LengthTimely, ~CutShort
    PROVE  Spec => []HandsOffRequests
<1>1. IInv => HandsOffRequests
  BY DEF IInv
<1> QED
  BY <1>1, IInvariant, PTL

\* When FakeSerialSPI.write returns, it has the reply to the packet it sent, and neither
\* end has anything of the exchange left.
THEOREM ReplyIsToRequest ==
    ASSUME LengthTimely, ~CutShort
    PROVE  Spec => []ReplyIsOwn
<1>1. ASSUME IInv, host.doing = "idle", sent # <<>>, ~host.killed
      PROVE  /\ host.got = <<sent[Len(sent)][1] + 128>> /\ Len(executed) = Len(sent)
             /\ toFw = <<>> /\ rxFifo = <<>> /\ toHost = <<>> /\ loop = "seek"
  <2> DEFINE k == Len(executed)
  <2>1. PICK cut : At(cut, k)
    BY <1>1, Opened
  <2>2. k \in 0 .. Len(sent) /\ Len(sent) \in Nat \ {0} /\ Typed
    BY <1>1, Opened, EmptySeq DEF Typed
  <2>3. toHost = <<>> /\ k = Len(sent) /\ host.got = <<sent[Len(sent)][1] + 128>>
    BY <1>1, <2>2 DEF IInv, Exchange, Unread
  <2>4. loop = "seek" /\ cut[k] = 0
    BY <2>1, <2>2, <2>3 DEF At, Reached, Typed
  <2>5. Len(Line) = 0
    BY <2>1, <2>3, <2>4 DEF At, Framed
  <2>6. toFw = <<>> /\ rxFifo = <<>>
    <3>1. /\ Len(Line) = Len(rxFifo) + Len(toFw) /\ Len(rxFifo) \in Nat /\ Len(toFw) \in Nat
          /\ toFw \in Seq(Byte) /\ rxFifo \in Seq(Byte)
      BY <2>2, ConcatProperties, LenProperties DEF Typed, Line
    <3>2. Len(rxFifo) = 0 /\ Len(toFw) = 0
      <4>1. Len(rxFifo) + Len(toFw) = 0
        BY <2>5, <3>1
      <4> QED
        BY <3>1, <4>1, BothNone
    <3> QED
      BY <3>1, <3>2, EmptySeq
  <2> QED
    BY <2>3, <2>4, <2>6
<1>2. IInv => ReplyIsOwn
  BY <1>1 DEF ReplyIsOwn
<1> QED
  BY <1>2, IInvariant, PTL

=============================================================================
