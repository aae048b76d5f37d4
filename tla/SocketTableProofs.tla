-------------------------- MODULE SocketTableProofs --------------------------
(***************************************************************************)
(* Proofs about SocketTable, for any number of slots and netconns, any     *)
(* read lengths and any amount of data.                                    *)
(*                                                                         *)
(* The inductive invariant says, slot by slot, how the fields of a slot    *)
(* and the netconn it points at fit together (SlotInv), that no two slots  *)
(* share a netconn, that every live netconn has a slot, and what the loop  *)
(* knows when it waits in a read.  Every call but ResetSockets touches one *)
(* slot, so the invariant is proved through one lemma, OneSlot, and each   *)
(* call only has to show that the slot it writes is again in order.        *)
(*                                                                         *)
(* Four parts rest on it: the note about Nagle, the counting of netconns   *)
(* behind the null pointers, the steps of the table as steps of            *)
(* SocketService, and what a caller of the table sees of its slot.         *)
(***************************************************************************)
EXTENDS SocketTable, FiniteSetTheorems, TLAPS

InUse(psi) == psi.type = "TCP" /\ psi.state = ESTABLISHED

\* A slot psi, given the netconns cf, what its reads returned (d) and what has
\* been announced (p).
PncInv(psi, cf) ==
    psi.pnc # NULL => /\ cf[psi.pnc].st # "free"
                      /\ InUse(psi) <=> cf[psi.pnc].st # "failed"

HeldInv(psi, cf) ==
    IF psi.pbuf = NULL
    THEN psi.offset = 0 /\ psi.dlen = 0
    ELSE /\ InUse(psi) /\ psi.pnc # NULL
         /\ psi.offset < psi.dlen
         /\ psi.dlen = psi.pbuf.len
         /\ psi.pbuf.first + psi.pbuf.len = cf[psi.pnc].taken + 1

StreamInv(psi, cf, d) ==
    InUse(psi) /\ psi.pnc # NULL => d = Bytes(1, cf[psi.pnc].taken - (psi.dlen - psi.offset))

PromiseInv(psi, p) ==
    p > 0 => psi.pbuf # NULL /\ p <= psi.dlen - psi.offset

SlotInv(psi, cf, d, p) ==
    PncInv(psi, cf) /\ HeldInv(psi, cf) /\ StreamInv(psi, cf, d) /\ PromiseInv(psi, p)

Shared(s, t) == sockets[s].pnc = sockets[t].pnc /\ sockets[s].pnc # NULL

SlotsInv ==
    /\ \A s \in Sockets : SlotInv(sockets[s], conn, delivered[s], promised[s])
    /\ \A s, t \in Sockets : Shared(s, t) => s = t
    /\ \A n \in Netconns : Live(n) => \E s \in Sockets : Owns(s, n)
    /\ \A n \in Netconns : conn[n].taken <= conn[n].rcvd

\* A blocked loop waits for a connection that lives and holds nothing.
WaitInv ==
    fw = "blocked" => /\ wait \in Waits
                      /\ InUse(sockets[wait.sock])
                      /\ sockets[wait.sock].pnc # NULL
                      /\ sockets[wait.sock].pbuf = NULL

IInv == TypeOK /\ SlotsInv /\ WaitInv

-----------------------------------------------------------------------------
(* Data *)

LEMMA BytesConcat ==
    ASSUME NEW a \in Nat, NEW k \in Nat
    PROVE  Bytes(1, a) \o Bytes(a + 1, k) = Bytes(1, a + k)
  BY DEF Bytes

LEMMA BytesType ==
    ASSUME NEW first \in Nat \ {0}, NEW k \in Nat
    PROVE  Bytes(first, k) \in Seq(Nat)
<1>1. \A i \in 1 .. k : first + i - 1 \in Nat
  OBVIOUS
<1> QED
  BY <1>1 DEF Bytes

LEMMA WriteSlot ==
    ASSUME NEW f \in [Sockets -> SocketInfo], NEW s \in Sockets, NEW psi \in SocketInfo
    PROVE  /\ [f EXCEPT ![s] = psi] \in [Sockets -> SocketInfo]
           /\ [f EXCEPT ![s] = psi][s] = psi
           /\ \A t \in Sockets \ {s} : [f EXCEPT ![s] = psi][t] = f[t]
  OBVIOUS

LEMMA TeardownFields ==
    ASSUME NEW psi \in SocketInfo
    PROVE  /\ Teardown(psi) \in SocketInfo
           /\ Teardown(psi).type # "TCP"
           /\ Teardown(psi).state = psi.state
           /\ Teardown(psi).pbuf = IF Closes(psi) THEN NULL ELSE psi.pbuf
           /\ Teardown(psi).pnc = IF Closes(psi) THEN NULL ELSE psi.pnc
           /\ psi.type # "TCP" => Teardown(psi).pnc = psi.pnc /\ Teardown(psi).pbuf = psi.pbuf
           /\ Teardown(psi).offset = IF Closes(psi) /\ psi.pnc # NULL THEN 0 ELSE psi.offset
           /\ Teardown(psi).dlen = IF Closes(psi) /\ psi.pnc # NULL THEN 0 ELSE psi.dlen
  BY DEF Teardown, Closes, SocketInfo, SlotTypes, SlotStates, Unsupported

LEMMA NetbufFields ==
    ASSUME NEW psi \in SocketInfo, psi.pnc \in Netconns, conn \in [Netconns -> ConnInfo],
           NEW k \in Nat \ {0}
    PROVE  /\ WithNetbuf(psi, k) \in SocketInfo
           /\ WithNetbuf(psi, k).pbuf = [first |-> conn[psi.pnc].taken + 1, len |-> k]
           /\ WithNetbuf(psi, k).pbuf # NULL
           /\ WithNetbuf(psi, k).dlen = k
           /\ WithNetbuf(psi, k).offset = psi.offset
           /\ WithNetbuf(psi, k).pnc = psi.pnc
           /\ WithNetbuf(psi, k).type = psi.type
           /\ WithNetbuf(psi, k).state = psi.state
<1>1. conn[psi.pnc].taken \in Nat
  BY DEF ConnInfo
<1>2. Netbuf(psi.pnc, k) \in Netbufs
  BY <1>1 DEF Netbuf, Netbufs
<1>3. Netbuf(psi.pnc, k) # NULL
  BY <1>2, NULLAssumption DEF Netbufs
<1> QED
  BY <1>2, <1>3 DEF WithNetbuf, SocketInfo, Netbuf

LEMMA CopyFields ==
    ASSUME NEW psi \in SocketInfo, psi.offset < psi.dlen, NEW want \in Nat \ {0}
    PROVE  /\ ToCopy(psi, want) \in Nat \ {0}
           /\ ToCopy(psi, want) <= psi.dlen - psi.offset
           /\ ToCopy(psi, want) <= want
           /\ AfterCopy(psi, ToCopy(psi, want)) \in SocketInfo
           /\ AfterCopy(psi, ToCopy(psi, want)).pnc = psi.pnc
           /\ AfterCopy(psi, ToCopy(psi, want)).type = psi.type
           /\ AfterCopy(psi, ToCopy(psi, want)).state = psi.state
           /\ \/ /\ ToCopy(psi, want) = psi.dlen - psi.offset
                 /\ AfterCopy(psi, ToCopy(psi, want)).pbuf = NULL
                 /\ AfterCopy(psi, ToCopy(psi, want)).offset = 0
                 /\ AfterCopy(psi, ToCopy(psi, want)).dlen = 0
              \/ /\ ToCopy(psi, want) < psi.dlen - psi.offset
                 /\ AfterCopy(psi, ToCopy(psi, want)).pbuf = psi.pbuf
                 /\ AfterCopy(psi, ToCopy(psi, want)).offset = psi.offset + ToCopy(psi, want)
                 /\ AfterCopy(psi, ToCopy(psi, want)).dlen = psi.dlen
<1> DEFINE k == ToCopy(psi, want)
<1>1. psi.dlen \in Nat /\ psi.offset \in Nat
  BY DEF SocketInfo
<1>2. k \in Nat \ {0} /\ k <= psi.dlen - psi.offset /\ k <= want
  BY <1>1 DEF ToCopy
<1> HIDE DEF k
<1>3. CASE psi.offset + k >= psi.dlen
  <2>1. AfterCopy(psi, k) = [psi EXCEPT !.offset = 0, !.dlen = 0, !.pbuf = NULL]
    BY <1>3 DEF AfterCopy
  <2>2. k = psi.dlen - psi.offset
    BY <1>1, <1>2, <1>3
  <2>3. [psi EXCEPT !.offset = 0, !.dlen = 0, !.pbuf = NULL] \in SocketInfo
    BY DEF SocketInfo
  <2>4. /\ AfterCopy(psi, k).pnc = psi.pnc
        /\ AfterCopy(psi, k).type = psi.type
        /\ AfterCopy(psi, k).state = psi.state
        /\ AfterCopy(psi, k).pbuf = NULL
        /\ AfterCopy(psi, k).offset = 0
        /\ AfterCopy(psi, k).dlen = 0
    BY <2>1 DEF SocketInfo
  <2> QED
    BY <1>2, <2>1, <2>2, <2>3, <2>4 DEF k
<1>4. CASE ~(psi.offset + k >= psi.dlen)
  <2>1. AfterCopy(psi, k) = [psi EXCEPT !.offset = psi.offset + k]
    BY <1>4 DEF AfterCopy
  <2>2. k < psi.dlen - psi.offset /\ psi.offset + k \in Nat
    BY <1>1, <1>2, <1>4
  <2>3. /\ AfterCopy(psi, k) \in SocketInfo
        /\ AfterCopy(psi, k).pnc = psi.pnc
        /\ AfterCopy(psi, k).type = psi.type
        /\ AfterCopy(psi, k).state = psi.state
        /\ AfterCopy(psi, k).pbuf = psi.pbuf
        /\ AfterCopy(psi, k).offset = psi.offset + k
        /\ AfterCopy(psi, k).dlen = psi.dlen
    BY <2>1, <2>2 DEF SocketInfo
  <2> QED
    BY <1>2, <2>2, <2>3 DEF k
<1> QED
  BY <1>3, <1>4

-----------------------------------------------------------------------------
(* A step that writes one slot, and no netconn but the slot's old and new one, *)
(* keeps SlotsInv if it leaves that slot in order.                             *)

LEMMA OneSlot ==
    ASSUME TypeOK, TypeOK', SlotsInv,
           NEW s \in Sockets,
           \A t \in Sockets \ {s} : /\ sockets'[t] = sockets[t]
                                    /\ delivered'[t] = delivered[t]
                                    /\ promised'[t] = promised[t],
           \A n \in Netconns : /\ n # sockets'[s].pnc /\ n # sockets[s].pnc => conn'[n] = conn[n]
                               /\ conn'[n].taken <= conn'[n].rcvd,
           sockets'[s].pnc # sockets[s].pnc =>
               /\ sockets'[s].pnc # NULL => conn[sockets'[s].pnc].st = "free"
               /\ sockets[s].pnc # NULL => conn'[sockets[s].pnc].st \in {"free", "failed"},
           SlotInv(sockets'[s], conn', delivered'[s], promised'[s])
    PROVE  SlotsInv'
<1>1. ASSUME NEW t \in Sockets \ {s}, sockets[t].pnc # NULL
      PROVE  /\ conn'[sockets[t].pnc] = conn[sockets[t].pnc]
             /\ sockets[t].pnc # sockets'[s].pnc
  <2>1. sockets[t].pnc \in Netconns
    BY <1>1 DEF TypeOK, SocketInfo
  <2>2. sockets[t].pnc # sockets[s].pnc
    BY <1>1 DEF SlotsInv, Shared
  <2>3. conn[sockets[t].pnc].st # "free"
    BY <1>1 DEF SlotsInv, SlotInv, PncInv
  <2>4. sockets[t].pnc # sockets'[s].pnc
    BY <1>1, <2>2, <2>3
  <2> QED
    BY <2>1, <2>2, <2>4
<1>2. ASSUME NEW t \in Sockets
      PROVE  SlotInv(sockets'[t], conn', delivered'[t], promised'[t])
  <2>1. CASE t = s
    BY <2>1
  <2>2. CASE t # s
    <3>1. SlotInv(sockets[t], conn, delivered[t], promised[t])
      BY DEF SlotsInv
    <3>2. sockets[t].pnc # NULL => conn'[sockets[t].pnc] = conn[sockets[t].pnc]
      BY <1>1, <2>2
    <3>3. SlotInv(sockets[t], conn', delivered[t], promised[t])
      BY <3>1, <3>2 DEF SlotInv, PncInv, HeldInv, StreamInv, PromiseInv
    <3> QED
      BY <2>2, <3>3
  <2> QED
    BY <2>1, <2>2
<1>3. ASSUME NEW t \in Sockets, NEW u \in Sockets, Shared(t, u)'
      PROVE  t = u
  BY <1>1, <1>3 DEF Shared, SlotsInv
<1>4. ASSUME NEW n \in Netconns, Live(n)'
      PROVE  \E t \in Sockets : Owns(t, n)'
  <2>1. CASE n = sockets'[s].pnc
    BY <2>1 DEF Owns
  <2>2. CASE n # sockets'[s].pnc
    <3>1. n # NULL
      BY NULLAssumption
    <3>2. n # sockets[s].pnc
      BY <1>4, <2>2, <3>1 DEF Live
    <3>3. conn'[n] = conn[n]
      BY <2>2, <3>2
    <3>4. PICK t \in Sockets : Owns(t, n)
      BY <1>4, <3>3 DEF Live, SlotsInv
    <3>5. t # s
      BY <3>2, <3>4 DEF Owns
    <3> QED
      BY <3>4, <3>5 DEF Owns
  <2> QED
    BY <2>1, <2>2
<1> QED
  BY <1>2, <1>3, <1>4 DEF SlotsInv

\* The peers write only live netconns: they stay live, and what was taken from
\* them stays taken.
LEMMA OnePeer ==
    ASSUME TypeOK, TypeOK', SlotsInv,
           UNCHANGED <<sockets, delivered, promised>>,
           NEW n \in Netconns,
           \A m \in Netconns \ {n} : conn'[m] = conn[m],
           Live(n), Live(n)',
           conn'[n].taken = conn[n].taken,
           conn'[n].taken <= conn'[n].rcvd
    PROVE  SlotsInv'
<1>1. ASSUME NEW t \in Sockets
      PROVE  SlotInv(sockets[t], conn', delivered[t], promised[t])
  <2>1. SlotInv(sockets[t], conn, delivered[t], promised[t])
    BY DEF SlotsInv
  <2>2. sockets[t].pnc # NULL => sockets[t].pnc \in Netconns
    BY DEF TypeOK, SocketInfo
  <2>3. sockets[t].pnc # NULL =>
            /\ conn'[sockets[t].pnc].taken = conn[sockets[t].pnc].taken
            /\ conn'[sockets[t].pnc].st = "free" <=> conn[sockets[t].pnc].st = "free"
            /\ conn'[sockets[t].pnc].st = "failed" <=> conn[sockets[t].pnc].st = "failed"
    BY <2>2 DEF Live
  <2> QED
    BY <2>1, <2>3 DEF SlotInv, PncInv, HeldInv, StreamInv, PromiseInv
<1>2. \A m \in Netconns : Live(m)' => Live(m)
  BY DEF Live
<1> QED
  BY <1>1, <1>2 DEF SlotsInv, Shared, Owns

-----------------------------------------------------------------------------
(* The copy of a read, from a slot psi that holds a netbuf: its own, or the   *)
(* slot after a recv.                                                         *)

LEMMA CopySlot ==
    ASSUME TypeOK, conn' \in [Netconns -> ConnInfo],
           NEW s \in Sockets, NEW psi \in SocketInfo, NEW want \in Nat \ {0},
           psi.pbuf # NULL, InUse(psi),
           HeldInv(psi, conn'), PncInv(psi, conn'), StreamInv(psi, conn', delivered[s]),
           promised[s] <= psi.dlen - psi.offset,
           Copy(s, psi, want)
    PROVE  /\ SlotInv(sockets'[s], conn', delivered'[s], promised'[s])
           /\ sockets'[s].pnc = psi.pnc
           /\ \A t \in Sockets \ {s} : /\ sockets'[t] = sockets[t]
                                       /\ delivered'[t] = delivered[t]
                                       /\ promised'[t] = promised[t]
           /\ sockets' \in [Sockets -> SocketInfo]
           /\ delivered' \in [Sockets -> Seq(Nat)]
           /\ promised' \in [Sockets -> Nat]
           /\ ret' \in [err : Errors, val : Nat]
<1> DEFINE k == ToCopy(psi, want)
           taken == conn'[psi.pnc].taken
           a == taken - (psi.dlen - psi.offset)
           new == AfterCopy(psi, k)
<1>1. /\ psi.pnc \in Netconns
      /\ psi.pbuf.first \in Nat \ {0} /\ psi.dlen \in Nat /\ psi.offset \in Nat
  BY DEF SocketInfo, Netbufs, HeldInv
<1>2. taken \in Nat
  BY <1>1 DEF ConnInfo
<1>3. /\ psi.offset < psi.dlen
      /\ a \in Nat /\ psi.pbuf.first + psi.offset = a + 1
  BY <1>1, <1>2 DEF HeldInv
<1>4. /\ k \in Nat \ {0} /\ k <= psi.dlen - psi.offset
      /\ new \in SocketInfo /\ new.pnc = psi.pnc
      /\ new.type = psi.type /\ new.state = psi.state
      /\ \/ /\ k = psi.dlen - psi.offset
            /\ new.pbuf = NULL /\ new.offset = 0 /\ new.dlen = 0
         \/ /\ k < psi.dlen - psi.offset
            /\ new.pbuf = psi.pbuf /\ new.offset = psi.offset + k /\ new.dlen = psi.dlen
  BY <1>3, CopyFields
<1>5. /\ sockets' = [sockets EXCEPT ![s] = new]
      /\ delivered' = [delivered EXCEPT ![s] = @ \o Bytes(psi.pbuf.first + psi.offset, k)]
      /\ promised' = [promised EXCEPT ![s] = IF k < @ THEN @ - k ELSE 0]
      /\ ret' = [err |-> "E_SUCCESS", val |-> k]
  BY DEF Copy, Result
<1> HIDE DEF k, new
<1>6. /\ sockets \in [Sockets -> SocketInfo] /\ promised \in [Sockets -> Nat]
      /\ delivered \in [Sockets -> Seq(Nat)]
  BY DEF TypeOK
<1>7. sockets'[s] = new /\ sockets' \in [Sockets -> SocketInfo]
  BY <1>4, <1>5, <1>6
<1>8. /\ delivered'[s] = Bytes(1, a + k)
      /\ delivered' \in [Sockets -> Seq(Nat)]
  <2>1. delivered[s] = Bytes(1, a)
    BY <1>1 DEF StreamInv, InUse, HeldInv
  <2>2. delivered[s] \o Bytes(psi.pbuf.first + psi.offset, k) = Bytes(1, a + k)
    BY <2>1, <1>3, <1>4, BytesConcat
  <2>3. Bytes(1, a + k) \in Seq(Nat)
    BY <1>3, <1>4, BytesType
  <2> QED
    BY <1>5, <1>6, <2>2, <2>3
<1>9. /\ promised'[s] = IF k < promised[s] THEN promised[s] - k ELSE 0
      /\ promised' \in [Sockets -> Nat]
  BY <1>4, <1>5, <1>6
<1>10. PncInv(new, conn')
  BY <1>4 DEF PncInv, InUse
<1>11. HeldInv(new, conn')
  BY <1>1, <1>3, <1>4 DEF HeldInv, InUse
<1>12. StreamInv(new, conn', delivered'[s])
  <2>1. a + k = taken - (new.dlen - new.offset)
    BY <1>1, <1>2, <1>4
  <2> QED
    BY <1>4, <1>8, <2>1 DEF StreamInv
<1>13. PromiseInv(new, promised'[s])
  BY <1>1, <1>4, <1>6, <1>9 DEF PromiseInv
<1>14. ret' \in [err : Errors, val : Nat]
  BY <1>4, <1>5 DEF Errors
<1> QED
  BY <1>4, <1>5, <1>6, <1>7, <1>8, <1>9, <1>10, <1>11, <1>12, <1>13, <1>14 DEF SlotInv

-----------------------------------------------------------------------------
(* One lemma per operation. *)

LEMMA InitIInv == Init => IInv
<1> SUFFICES ASSUME Init PROVE IInv
  OBVIOUS
<1>1. EmptySlot \in SocketInfo
  BY DEF EmptySlot, SocketInfo, SlotTypes, SlotStates, CLOSED
<1>2. FreeConn \in ConnInfo
  BY DEF FreeConn, ConnInfo
<1>3. TypeOK
  BY <1>1, <1>2 DEF Init, TypeOK, NoResult, Result, Errors
<1>4. \A s \in Sockets : SlotInv(sockets[s], conn, delivered[s], promised[s])
  BY DEF Init, SlotInv, PncInv, HeldInv, StreamInv, PromiseInv, InUse, EmptySlot
<1>a. \A s \in Sockets : sockets[s].pnc = NULL
  BY DEF Init, EmptySlot
<1>b. \A n \in Netconns : conn[n].st = "free" /\ conn[n].taken <= conn[n].rcvd
  BY DEF Init, FreeConn
<1>5. SlotsInv
  BY <1>4, <1>a, <1>b DEF SlotsInv, Shared, Live
<1>6. WaitInv
  BY DEF Init, WaitInv
<1> QED
  BY <1>3, <1>5, <1>6 DEF IInv

LEMMA RebootStep == IInv /\ Reboot => IInv'
<1> SUFFICES ASSUME Reboot PROVE IInv'
  OBVIOUS
<1>1. EmptySlot \in SocketInfo
  BY DEF EmptySlot, SocketInfo, SlotTypes, SlotStates, CLOSED
<1>2. FreeConn \in ConnInfo
  BY DEF FreeConn, ConnInfo
<1>3. TypeOK'
  BY <1>1, <1>2 DEF Reboot, TypeOK, NoResult, Result, Errors
<1>4. \A s \in Sockets : SlotInv(sockets'[s], conn', delivered'[s], promised'[s])
  BY DEF Reboot, SlotInv, PncInv, HeldInv, StreamInv, PromiseInv, InUse, EmptySlot
<1>a. \A s \in Sockets : sockets'[s].pnc = NULL
  BY DEF Reboot, EmptySlot
<1>b. \A n \in Netconns : conn'[n].st = "free" /\ conn'[n].taken <= conn'[n].rcvd
  BY DEF Reboot, FreeConn
<1>5. SlotsInv'
  BY <1>4, <1>a, <1>b DEF SlotsInv, Shared, Live
<1>6. WaitInv'
  BY DEF Reboot, WaitInv
<1> QED
  BY <1>3, <1>5, <1>6 DEF IInv

\* A step that leaves the slots and the netconns alone.
LEMMA QuietStep ==
    ASSUME IInv, UNCHANGED <<sockets, conn, delivered, promised>>,
           fw' \in {"up", "undefined"}, wait' = wait,
           ret' \in [err : Errors, val : Nat]
    PROVE  IInv'
<1>1. TypeOK'
  BY DEF IInv, TypeOK
<1>2. SlotsInv'
  BY DEF IInv, SlotsInv, Shared, Live, Owns
<1> QED
  BY <1>1, <1>2 DEF IInv, WaitInv

LEMMA ReturnStep ==
    ASSUME IInv, fw = "up", NEW err \in Errors, NEW val \in Nat, Return(err, val)
    PROVE  IInv'
  BY QuietStep DEF Return, Result

LEMMA UndefinedStep == ASSUME IInv, Undefined PROVE IInv'
<1>1. ret' \in [err : Errors, val : Nat]
  BY DEF Undefined, NoResult, Result, Errors
<1> QED
  BY <1>1, QuietStep DEF Undefined

LEMMA GetSocketStep == IInv /\ GetSocket => IInv'
<1> SUFFICES ASSUME IInv, GetSocket PROVE IInv'
  OBVIOUS
<1>1. CASE Return("E_SOCKETS_EXHAUSTED", 0)
  BY <1>1, ReturnStep DEF GetSocket, Errors
<1>2. ASSUME NEW s \in Unallocated,
             sockets' = [sockets EXCEPT ![s].type = "IDLE"],
             ret' = Result("E_SUCCESS", s),
             UNCHANGED <<conn, fw, wait, delivered, promised>>
      PROVE  IInv'
  <2>1. s \in Sockets /\ sockets[s].type = "UNALLOCATED" /\ sockets[s] \in SocketInfo
    BY DEF Unallocated, IInv, TypeOK
  <2> DEFINE new == [sockets[s] EXCEPT !.type = "IDLE"]
  <2>2. /\ new \in SocketInfo /\ new.type = "IDLE" /\ new.pnc = sockets[s].pnc
        /\ new.pbuf = sockets[s].pbuf /\ new.offset = sockets[s].offset
        /\ new.dlen = sockets[s].dlen
    BY <2>1 DEF SocketInfo, SlotTypes
  <2>3. sockets' = [sockets EXCEPT ![s] = new]
    BY <1>2
  <2> HIDE DEF new
  <2>a. s \in Nat /\ ret' \in [err : Errors, val : Nat]
    BY <1>2, <2>1, MaxSocketsAssumption DEF Result, Errors, Sockets
  <2>4. TypeOK'
    BY <1>2, <2>1, <2>2, <2>3, <2>a DEF IInv, TypeOK
  <2>5. sockets'[s] = new
    BY <2>1, <2>3 DEF IInv, TypeOK
  <2>6. SlotInv(new, conn, delivered[s], promised[s])
    BY <2>1, <2>2 DEF IInv, SlotsInv, SlotInv, PncInv, HeldInv, StreamInv, PromiseInv, InUse
  <2>7. SlotsInv'
    BY <1>2, <2>1, <2>2, <2>3, <2>4, <2>5, <2>6, OneSlot DEF IInv, TypeOK, SlotsInv
  <2>8. WaitInv'
    BY <1>2 DEF GetSocket, WaitInv
  <2> QED
    BY <2>4, <2>7, <2>8 DEF IInv
<1> QED
  BY <1>1, <1>2 DEF GetSocket

\* A slot that is torn down is in order, whether or not it gave its netconn back;
\* the netconn it keeps, if any, is one whose connect failed.
LEMMA TornDown ==
    ASSUME IInv, NEW s \in Sockets, NEW cf, NEW d,
           sockets[s].pnc # NULL /\ ~Closes(sockets[s]) =>
               cf[sockets[s].pnc] = conn[sockets[s].pnc]
    PROVE  /\ SlotInv(Teardown(sockets[s]), cf, d, 0)
           /\ Closes(sockets[s]) <=> InUse(sockets[s])
           /\ sockets[s].pnc # NULL =>
                  (Closes(sockets[s]) <=> conn[sockets[s].pnc].st # "failed")
<1> DEFINE psi == sockets[s]
           new == Teardown(psi)
<1>1. psi \in SocketInfo
  BY DEF IInv, TypeOK
<1>2. /\ new.type # "TCP"
      /\ new.pbuf = IF Closes(psi) THEN NULL ELSE psi.pbuf
      /\ new.pnc = IF Closes(psi) THEN NULL ELSE psi.pnc
      /\ new.offset = IF Closes(psi) /\ psi.pnc # NULL THEN 0 ELSE psi.offset
      /\ new.dlen = IF Closes(psi) /\ psi.pnc # NULL THEN 0 ELSE psi.dlen
  BY <1>1, TeardownFields
<1>3. Closes(psi) <=> InUse(psi)
  BY <1>1 DEF Closes, InUse, SocketInfo, SlotStates, CLOSED, ESTABLISHED
<1>4. SlotInv(psi, conn, delivered[s], promised[s])
  BY DEF IInv, SlotsInv
<1>5. psi.pnc # NULL => (Closes(psi) <=> conn[psi.pnc].st # "failed")
  BY <1>3, <1>4 DEF SlotInv, PncInv
<1>6. PncInv(new, cf)
  BY <1>2, <1>5 DEF PncInv, InUse
<1>7. HeldInv(new, cf)
  BY <1>2, <1>3, <1>4 DEF SlotInv, HeldInv
<1>8. StreamInv(new, cf, d) /\ PromiseInv(new, 0)
  BY <1>2 DEF StreamInv, PromiseInv, InUse
<1> QED
  BY <1>3, <1>5, <1>6, <1>7, <1>8 DEF SlotInv

LEMMA FreeConnType == FreeConn \in ConnInfo /\ FreeConn.st = "free" /\ FreeConn.taken <= FreeConn.rcvd
  BY DEF FreeConn, ConnInfo

LEMMA StopSocketStep == ASSUME IInv, NEW s \in Sockets, StopSocket(s) PROVE IInv'
<1> DEFINE psi == sockets[s]
<1>1. /\ fw = "up" /\ fw' = fw /\ wait' = wait /\ delivered' = delivered
      /\ sockets' = [sockets EXCEPT ![s] = Teardown(psi)]
      /\ conn' = Delete(Deleted(psi))
      /\ promised' = [promised EXCEPT ![s] = 0]
  BY DEF StopSocket
<1>2. psi \in SocketInfo /\ Teardown(psi) \in SocketInfo
  BY TeardownFields DEF IInv, TypeOK
<1>3. conn' \in [Netconns -> ConnInfo]
  BY <1>1, FreeConnType DEF Delete, IInv, TypeOK
<1>4. ret' \in [err : Errors, val : Nat]
  BY DEF StopSocket, Result, Errors
<1>5. TypeOK'
  BY <1>1, <1>2, <1>3, <1>4 DEF IInv, TypeOK
<1>6. \A n \in Netconns : conn'[n] = IF n \in Deleted(psi) THEN FreeConn ELSE conn[n]
  BY <1>1 DEF Delete
<1>7. /\ sockets'[s] = Teardown(psi)
      /\ promised'[s] = 0
      /\ \A t \in Sockets \ {s} : sockets'[t] = sockets[t] /\ promised'[t] = promised[t]
  BY <1>1 DEF IInv, TypeOK
<1>8. psi.pnc # NULL => psi.pnc \in Netconns
  BY <1>2 DEF SocketInfo
<1>9. Teardown(psi).pnc = IF Closes(psi) THEN NULL ELSE psi.pnc
  BY <1>2, TeardownFields
<1>10. SlotInv(sockets'[s], conn', delivered'[s], promised'[s])
  <2>1. psi.pnc # NULL /\ ~Closes(psi) => conn'[psi.pnc] = conn[psi.pnc]
    BY <1>6, <1>8 DEF Deleted
  <2> QED
    BY <2>1, <1>7, TornDown
<1>11. \A n \in Netconns : /\ n # psi.pnc => conn'[n] = conn[n]
                           /\ conn'[n].taken <= conn'[n].rcvd
  BY <1>6, FreeConnType DEF Deleted, IInv, SlotsInv
<1>12. sockets'[s].pnc # psi.pnc =>
          /\ sockets'[s].pnc = NULL
          /\ psi.pnc # NULL => conn'[psi.pnc].st = "free"
  BY <1>6, <1>7, <1>8, <1>9, FreeConnType DEF Deleted
<1>13. SlotsInv'
  BY <1>1, <1>5, <1>7, <1>10, <1>11, <1>12, OneSlot DEF IInv
<1> QED
  BY <1>1, <1>5, <1>13 DEF IInv, WaitInv

\* The loop over all slots keeps the invariant and leaves no connection open,
\* whatever the command that runs it goes on to return.
LEMMA ResetSocketsStep ==
    ASSUME IInv, ResetSockets, ret' \in [err : Errors, val : Nat]
    PROVE  IInv' /\ \A n \in Netconns : conn'[n].st \in {"free", "failed"}
<1> DEFINE gone == UNION {Deleted(sockets[s]) : s \in Sockets}
<1>1. /\ fw = "up" /\ fw' = fw /\ wait' = wait /\ delivered' = delivered
      /\ sockets' = [s \in Sockets |-> Teardown(sockets[s])]
      /\ conn' = Delete(gone)
      /\ promised' = [s \in Sockets |-> 0]
  BY DEF ResetSockets
<1>2. \A s \in Sockets : sockets[s] \in SocketInfo /\ Teardown(sockets[s]) \in SocketInfo
  BY TeardownFields DEF IInv, TypeOK
<1>3. conn' \in [Netconns -> ConnInfo]
  BY <1>1, FreeConnType DEF Delete, IInv, TypeOK
<1>4. TypeOK'
  BY <1>1, <1>2, <1>3 DEF IInv, TypeOK
<1>5. \A n \in Netconns : conn'[n] = IF n \in gone THEN FreeConn ELSE conn[n]
  BY <1>1 DEF Delete
<1>6. \A s \in Sockets : sockets[s].pnc # NULL => sockets[s].pnc \in Netconns
  BY <1>2 DEF SocketInfo
<1>7. ASSUME NEW s \in Sockets
      PROVE  /\ SlotInv(sockets'[s], conn', delivered'[s], promised'[s])
             /\ sockets'[s].pnc = IF Closes(sockets[s]) THEN NULL ELSE sockets[s].pnc
  <2>1. ASSUME sockets[s].pnc # NULL, ~Closes(sockets[s])
        PROVE  conn'[sockets[s].pnc] = conn[sockets[s].pnc]
    <3>1. ASSUME NEW t \in Sockets, sockets[s].pnc \in Deleted(sockets[t])
          PROVE  FALSE
      <4>1. sockets[t].pnc = sockets[s].pnc /\ Closes(sockets[t])
        BY <3>1 DEF Deleted
      <4>2. s = t
        BY <2>1, <4>1 DEF IInv, SlotsInv, Shared
      <4> QED
        BY <2>1, <4>1, <4>2
    <3> QED
      BY <1>5, <1>6, <2>1, <3>1
  <2>2. sockets'[s] = Teardown(sockets[s]) /\ promised'[s] = 0
    BY <1>1
  <2>3. SlotInv(Teardown(sockets[s]), conn', delivered'[s], 0)
    BY <2>1, TornDown
  <2> QED
    BY <1>2, <2>2, <2>3, TeardownFields
<1>8. \A s, t \in Sockets : Shared(s, t)' => s = t
  BY <1>7 DEF Shared, IInv, SlotsInv
<1>9. ASSUME NEW n \in Netconns, Live(n)'
      PROVE  FALSE
  <2>1. n \notin gone /\ Live(n)
    BY <1>5, <1>9, FreeConnType DEF Live
  <2>2. PICK s \in Sockets : sockets[s].pnc = n
    BY <2>1 DEF IInv, SlotsInv, Owns
  <2>3. sockets[s].pnc # NULL
    BY <2>2, NULLAssumption
  <2>4. Closes(sockets[s]) <=> conn[sockets[s].pnc].st # "failed"
    BY <2>3, TornDown
  <2>5. Closes(sockets[s])
    BY <2>1, <2>2, <2>4 DEF Live
  <2> QED
    BY <2>1, <2>2, <2>3, <2>5 DEF Deleted
<1>10. \A n \in Netconns : conn'[n].taken <= conn'[n].rcvd
  BY <1>5, FreeConnType DEF IInv, SlotsInv
<1>11. SlotsInv'
  BY <1>7, <1>8, <1>9, <1>10 DEF SlotsInv
<1>12. \A n \in Netconns : conn'[n].st \in {"free", "failed"}
  BY <1>3, <1>9 DEF Live, ConnInfo
<1> QED
  BY <1>1, <1>4, <1>11, <1>12 DEF IInv, WaitInv

LEMMA WifiResetStep == IInv /\ WifiReset => IInv'
<1>1. WifiReset => ResetSockets /\ ret' \in [err : Errors, val : Nat]
  BY DEF WifiReset, NoResult, Result, Errors
<1> QED
  BY <1>1, ResetSocketsStep

-----------------------------------------------------------------------------
(* Connects.  A slot that is not TCP holds no data and at most a netconn whose *)
(* connect failed.                                                             *)

LEMMA IdleSlot ==
    ASSUME IInv, NEW s \in Sockets, sockets[s].type # "TCP"
    PROVE  /\ sockets[s] \in SocketInfo
           /\ sockets[s].pbuf = NULL /\ sockets[s].offset = 0 /\ sockets[s].dlen = 0
           /\ promised[s] = 0
           /\ sockets[s].pnc # NULL => conn[sockets[s].pnc].st = "failed"
<1>1. SlotInv(sockets[s], conn, delivered[s], promised[s])
  BY DEF IInv, SlotsInv
<1>2. sockets[s] \in SocketInfo /\ promised[s] \in Nat
  BY DEF IInv, TypeOK
<1> QED
  BY <1>1, <1>2 DEF SlotInv, PncInv, HeldInv, PromiseInv, InUse

LEMMA UnsupportedStep ==
    ASSUME IInv, fw = "up", NEW s \in Sockets, NEW mode \in {"TCP"} \cup Unsupported,
           ConnectUnsupported(s, mode)
    PROVE  IInv'
<1> DEFINE psi == sockets[s]
           new == [psi EXCEPT !.type = mode]
<1>1. /\ psi.type # "TCP" /\ mode # "TCP"
      /\ sockets' = [sockets EXCEPT ![s] = new]
      /\ UNCHANGED <<conn, fw, wait, delivered, promised>>
  BY DEF ConnectUnsupported
<1>2. mode \in SlotTypes
  BY DEF SlotTypes
<1>3. /\ psi \in SocketInfo /\ psi.pbuf = NULL /\ psi.offset = 0 /\ psi.dlen = 0
      /\ promised[s] = 0
      /\ psi.pnc # NULL => conn[psi.pnc].st = "failed"
  BY <1>1, IdleSlot
<1>4. /\ new \in SocketInfo /\ new.type # "TCP" /\ new.pnc = psi.pnc
      /\ new.pbuf = NULL /\ new.offset = 0 /\ new.dlen = 0
  BY <1>1, <1>2, <1>3 DEF SocketInfo
<1> HIDE DEF new
<1>5. ret' \in [err : Errors, val : Nat]
  BY DEF ConnectUnsupported, Result, Errors
<1>6. TypeOK' /\ sockets'[s] = new
  BY <1>1, <1>4, <1>5 DEF IInv, TypeOK
<1>7. SlotInv(new, conn, delivered[s], promised[s])
  BY <1>3, <1>4 DEF SlotInv, PncInv, HeldInv, StreamInv, PromiseInv, InUse
<1>8. SlotsInv'
  BY <1>1, <1>4, <1>6, <1>7, OneSlot DEF IInv, TypeOK, SlotsInv
<1> QED
  BY <1>1, <1>6, <1>8 DEF IInv, WaitInv

LEMMA NoMemStep ==
    ASSUME IInv, fw = "up", NEW s \in Sockets, sockets[s].type # "TCP",
           sockets' = [sockets EXCEPT ![s].type = "TCP", ![s].pnc = NULL],
           ret' = Result("E_NOMEM", 0),
           UNCHANGED <<conn, fw, wait, delivered, promised>>
    PROVE  IInv'
<1> DEFINE psi == sockets[s]
           new == [psi EXCEPT !.type = "TCP", !.pnc = NULL]
<1>1. /\ psi \in SocketInfo /\ psi.pbuf = NULL /\ psi.offset = 0 /\ psi.dlen = 0
      /\ promised[s] = 0
      /\ psi.pnc # NULL => conn[psi.pnc].st = "failed"
  BY IdleSlot
<1>2. sockets' = [sockets EXCEPT ![s] = new]
  BY DEF IInv, TypeOK
<1>3. /\ new \in SocketInfo /\ new.pnc = NULL
      /\ new.pbuf = NULL /\ new.offset = 0 /\ new.dlen = 0
  BY <1>1 DEF SocketInfo, SlotTypes
<1> HIDE DEF new
<1>4. ret' \in [err : Errors, val : Nat]
  BY DEF Result, Errors
<1>5. TypeOK' /\ sockets'[s] = new
  BY <1>2, <1>3, <1>4 DEF IInv, TypeOK
<1>6. SlotInv(new, conn, delivered[s], promised[s])
  BY <1>1, <1>3 DEF SlotInv, PncInv, HeldInv, StreamInv, PromiseInv
<1>7. SlotsInv'
  BY <1>1, <1>2, <1>3, <1>5, <1>6, OneSlot DEF IInv, TypeOK, SlotsInv
<1> QED
  BY <1>5, <1>7 DEF IInv, WaitInv

LEMMA NewConnStep ==
    ASSUME IInv, fw = "up", NEW s \in Sockets, sockets[s].type # "TCP",
           NEW n \in Netconns, conn[n].st = "free",
           NEW c \in ConnInfo, c.rcvd = 0, c.taken = 0, c.st # "free",
           NEW new \in SocketInfo,
           new.type = "TCP", new.pnc = n, InUse(new) <=> c.st # "failed",
           new.pbuf = sockets[s].pbuf, new.offset = sockets[s].offset, new.dlen = sockets[s].dlen,
           sockets' = [sockets EXCEPT ![s] = new],
           conn' = [conn EXCEPT ![n] = c],
           ret' = Result("E_SUCCESS", 0),
           delivered' = [delivered EXCEPT ![s] = <<>>],
           UNCHANGED <<fw, wait, promised>>
    PROVE  IInv'
<1> DEFINE psi == sockets[s]
<1>1. /\ psi \in SocketInfo /\ psi.pbuf = NULL /\ psi.offset = 0 /\ psi.dlen = 0
      /\ promised[s] = 0
      /\ psi.pnc # NULL => conn[psi.pnc].st = "failed"
  BY IdleSlot
<1>2. /\ sockets' \in [Sockets -> SocketInfo] /\ sockets'[s] = new
      /\ \A t \in Sockets \ {s} : sockets'[t] = sockets[t]
  BY DEF IInv, TypeOK
<1>3. /\ delivered' \in [Sockets -> Seq(Nat)] /\ delivered'[s] = <<>>
      /\ \A t \in Sockets \ {s} : delivered'[t] = delivered[t]
  BY DEF IInv, TypeOK
<1>4. ret' \in [err : Errors, val : Nat]
  BY DEF Result, Errors
<1>5. /\ conn' \in [Netconns -> ConnInfo]
      /\ conn'[n] = c
      /\ \A m \in Netconns : m # n => conn'[m] = conn[m]
  BY DEF IInv, TypeOK
<1>6. TypeOK'
  BY <1>2, <1>3, <1>4, <1>5 DEF IInv, TypeOK
<1>7. Bytes(1, 0) = <<>>
  BY DEF Bytes
<1>8. SlotInv(new, conn', <<>>, 0)
  BY <1>1, <1>5, <1>7 DEF SlotInv, PncInv, HeldInv, StreamInv, PromiseInv
<1>9. \A m \in Netconns : conn'[m].taken <= conn'[m].rcvd
  BY <1>5 DEF IInv, SlotsInv
<1>10. psi.pnc # NULL => psi.pnc \in Netconns /\ psi.pnc # n
  BY <1>1 DEF SocketInfo
<1>11. SlotInv(sockets'[s], conn', delivered'[s], promised'[s])
  BY <1>1, <1>2, <1>3, <1>8
<1>12. sockets'[s].pnc # sockets[s].pnc =>
          /\ sockets'[s].pnc # NULL => conn[sockets'[s].pnc].st = "free"
          /\ sockets[s].pnc # NULL => conn'[sockets[s].pnc].st \in {"free", "failed"}
  BY <1>1, <1>2, <1>5, <1>10
<1>13. SlotsInv'
  BY <1>2, <1>3, <1>5, <1>6, <1>9, <1>11, <1>12, OneSlot DEF IInv
<1> QED
  BY <1>6, <1>13 DEF IInv, WaitInv

LEMMA SocketConnectStep ==
    ASSUME IInv, NEW s \in Sockets, NEW mode \in {"TCP"} \cup Unsupported,
           SocketConnect(s, mode)
    PROVE  IInv'
<1>1. fw = "up"
  BY DEF SocketConnect
<1>2. CASE ConnectRejected(s)
  BY <1>1, <1>2, ReturnStep DEF ConnectRejected, Errors
<1>3. CASE ConnectUnsupported(s, mode)
  BY <1>1, <1>3, UnsupportedStep
<1>4. CASE TcpConnect(s)
  <2>1. sockets[s].type # "TCP" /\ UNCHANGED <<fw, wait, promised>>
    BY <1>4 DEF TcpConnect
  <2>2. CASE /\ sockets' = [sockets EXCEPT ![s].type = "TCP", ![s].pnc = NULL]
             /\ ret' = Result("E_NOMEM", 0)
             /\ UNCHANGED <<conn, delivered>>
    BY <1>1, <2>1, <2>2, NoMemStep
  <2>3. ASSUME NEW n \in Netconns, conn[n].st = "free",
               ret' = Result("E_SUCCESS", 0), delivered' = [delivered EXCEPT ![s] = <<>>],
               conn' = [conn EXCEPT ![n] = OpenConn],
               sockets' = [sockets EXCEPT ![s] = Connecting(@, n, ESTABLISHED)]
        PROVE  IInv'
    <3>1. OpenConn \in ConnInfo /\ OpenConn.rcvd = 0 /\ OpenConn.taken = 0 /\ OpenConn.st = "open"
      BY DEF OpenConn, FreeConn, ConnInfo
    <3> DEFINE new == Connecting(sockets[s], n, ESTABLISHED)
    <3>2. /\ new \in SocketInfo /\ new.type = "TCP" /\ new.pnc = n /\ InUse(new)
          /\ new.pbuf = sockets[s].pbuf /\ new.offset = sockets[s].offset
          /\ new.dlen = sockets[s].dlen
      BY DEF Connecting, IInv, TypeOK, SocketInfo, SlotTypes, SlotStates, InUse
    <3>3. sockets' = [sockets EXCEPT ![s] = new]
      BY <2>3 DEF IInv, TypeOK
    <3> HIDE DEF new
    <3> QED
      BY <1>1, <2>1, <2>3, <3>1, <3>2, <3>3, NewConnStep
  <2>4. ASSUME NEW n \in Netconns, conn[n].st = "free",
               ret' = Result("E_SUCCESS", 0), delivered' = [delivered EXCEPT ![s] = <<>>],
               NEW hasPcb \in BOOLEAN, conn' = [conn EXCEPT ![n] = FailedConn(hasPcb)],
               sockets' = [sockets EXCEPT ![s] = Connecting(@, n, CLOSED)]
        PROVE  IInv'
    <3>1. /\ FailedConn(hasPcb) \in ConnInfo /\ FailedConn(hasPcb).rcvd = 0
          /\ FailedConn(hasPcb).taken = 0 /\ FailedConn(hasPcb).st = "failed"
      BY DEF FailedConn, FreeConn, ConnInfo
    <3> DEFINE new == Connecting(sockets[s], n, CLOSED)
    <3>2. /\ new \in SocketInfo /\ new.type = "TCP" /\ new.pnc = n /\ ~InUse(new)
          /\ new.pbuf = sockets[s].pbuf /\ new.offset = sockets[s].offset
          /\ new.dlen = sockets[s].dlen
      <4>1. CLOSED \in SlotStates /\ CLOSED # ESTABLISHED
        BY DEF SlotStates, CLOSED, ESTABLISHED
      <4>2. sockets[s] \in SocketInfo
        BY DEF IInv, TypeOK
      <4>3. new \in SocketInfo
        BY <4>1, <4>2 DEF Connecting, SocketInfo, SlotTypes
      <4> QED
        BY <4>1, <4>2, <4>3 DEF Connecting, SocketInfo, InUse
    <3>3. sockets' = [sockets EXCEPT ![s] = new]
      BY <2>4 DEF IInv, TypeOK
    <3> HIDE DEF new
    <3> QED
      BY <1>1, <2>1, <2>4, <3>1, <3>2, <3>3, NewConnStep
  <2> QED
    BY <1>4, <2>2, <2>3, <2>4 DEF TcpConnect
<1> QED
  BY <1>2, <1>3, <1>4 DEF SocketConnect

LEMMA GetSocketStateStep ==
    ASSUME IInv, NEW s \in Sockets, GetSocketState(s)
    PROVE  IInv'
<1>1. sockets[s].state \in Nat
  BY DEF IInv, TypeOK, SocketInfo, SlotStates, CLOSED, ESTABLISHED
<1> QED
  BY <1>1, ReturnStep DEF GetSocketState, Errors

-----------------------------------------------------------------------------
(* Receiving.  netconn_recv puts the next k bytes into a slot that holds none. *)

LEMMA Received ==
    ASSUME IInv, NEW s \in Sockets, NEW psi \in SocketInfo, NEW k \in Nat \ {0},
           psi.type = "TCP", psi.pnc = sockets[s].pnc, psi.state = sockets[s].state,
           psi.offset = 0,
           sockets[s].type = "TCP", sockets[s].pbuf = NULL, sockets[s].pnc # NULL,
           HasData(psi.pnc), k <= conn[psi.pnc].rcvd - conn[psi.pnc].taken,
           conn' = Recv(psi.pnc, k)
    PROVE  /\ conn' \in [Netconns -> ConnInfo]
           /\ \A n \in Netconns : /\ n # psi.pnc => conn'[n] = conn[n]
                                  /\ conn'[n].taken <= conn'[n].rcvd
           /\ InUse(WithNetbuf(psi, k))
           /\ PncInv(WithNetbuf(psi, k), conn')
           /\ HeldInv(WithNetbuf(psi, k), conn')
           /\ StreamInv(WithNetbuf(psi, k), conn', delivered[s])
           /\ promised[s] = 0
<1> DEFINE n == psi.pnc
           c == [conn[n] EXCEPT !.taken = @ + k]
           new == WithNetbuf(psi, k)
<1>1. SlotInv(sockets[s], conn, delivered[s], promised[s])
  BY DEF IInv, SlotsInv
<1>2. n \in Netconns /\ conn \in [Netconns -> ConnInfo] /\ promised[s] \in Nat
  BY DEF IInv, TypeOK, SocketInfo
<1>3. conn[n] \in ConnInfo /\ conn[n].taken \in Nat /\ conn[n].rcvd \in Nat
  BY <1>2 DEF ConnInfo
<1>4. /\ c \in ConnInfo /\ c.taken = conn[n].taken + k
      /\ c.rcvd = conn[n].rcvd /\ c.st = conn[n].st
  BY <1>3 DEF ConnInfo
<1>5. conn' = [conn EXCEPT ![n] = c]
  BY <1>2 DEF Recv
<1> HIDE DEF c
<1>6. /\ conn' \in [Netconns -> ConnInfo] /\ conn'[n] = c
      /\ \A m \in Netconns : m # n => conn'[m] = conn[m]
  BY <1>2, <1>4, <1>5
<1>7. \A m \in Netconns : conn'[m].taken <= conn'[m].rcvd
  BY <1>3, <1>4, <1>6 DEF IInv, SlotsInv
<1>8. conn[n].st \in {"open", "fin"}
  BY DEF HasData
<1>9. InUse(sockets[s]) /\ InUse(psi)
  BY <1>1, <1>8 DEF SlotInv, PncInv, InUse
<1>10. /\ new.pbuf = [first |-> conn[n].taken + 1, len |-> k]
       /\ new.pbuf # NULL /\ new.dlen = k /\ new.offset = 0
       /\ new.pnc = n /\ new.type = psi.type /\ new.state = psi.state
  BY <1>2, NetbufFields
<1> HIDE DEF new
<1>11. InUse(new)
  BY <1>9, <1>10 DEF InUse
<1>12. PncInv(new, conn')
  BY <1>4, <1>6, <1>8, <1>10, <1>11 DEF PncInv
<1>13. HeldInv(new, conn')
  BY <1>3, <1>4, <1>6, <1>10, <1>11 DEF HeldInv
<1>14. StreamInv(new, conn', delivered[s])
  <2>1. delivered[s] = Bytes(1, conn[n].taken)
    BY <1>1, <1>3, <1>9 DEF SlotInv, StreamInv, HeldInv
  <2>2. c.taken - (new.dlen - new.offset) = conn[n].taken
    BY <1>3, <1>4, <1>10
  <2> QED
    BY <1>6, <1>10, <2>1, <2>2 DEF StreamInv
<1>15. promised[s] = 0
  BY <1>1, <1>2 DEF SlotInv, PromiseInv
<1> QED
  BY <1>6, <1>7, <1>11, <1>12, <1>13, <1>14, <1>15 DEF new

LEMMA AnnounceStep ==
    ASSUME IInv, NEW s \in Sockets, NEW psi \in SocketInfo, psi.pbuf # NULL,
           psi.pnc = sockets[s].pnc,
           conn' \in [Netconns -> ConnInfo],
           \A n \in Netconns : /\ n # psi.pnc => conn'[n] = conn[n]
                               /\ conn'[n].taken <= conn'[n].rcvd,
           PncInv(psi, conn'), HeldInv(psi, conn'), StreamInv(psi, conn', delivered[s]),
           fw = "up", Announce(s, psi)
    PROVE  IInv'
<1> DEFINE a == Available(psi)
<1>1. psi.dlen \in Nat /\ psi.offset \in Nat /\ psi.offset < psi.dlen
  BY DEF SocketInfo, HeldInv
<1>2. a \in Nat /\ a <= psi.dlen - psi.offset
  BY <1>1 DEF Available
<1>3. /\ sockets' = [sockets EXCEPT ![s] = psi]
      /\ ret' = [err |-> "E_SUCCESS", val |-> a]
      /\ promised' = [promised EXCEPT ![s] = a]
      /\ UNCHANGED <<fw, wait, delivered>>
  BY DEF Announce, Result
<1> HIDE DEF a
<1>4. /\ sockets' \in [Sockets -> SocketInfo] /\ sockets'[s] = psi
      /\ \A t \in Sockets \ {s} : sockets'[t] = sockets[t]
  BY <1>3 DEF IInv, TypeOK
<1>5. /\ promised' \in [Sockets -> Nat] /\ promised'[s] = a
      /\ \A t \in Sockets \ {s} : promised'[t] = promised[t]
  BY <1>2, <1>3 DEF IInv, TypeOK
<1>6. ret' \in [err : Errors, val : Nat]
  BY <1>2, <1>3 DEF Errors
<1>7. TypeOK'
  BY <1>3, <1>4, <1>5, <1>6 DEF IInv, TypeOK
<1>8. SlotInv(sockets'[s], conn', delivered'[s], promised'[s])
  BY <1>2, <1>3, <1>4, <1>5 DEF SlotInv, PromiseInv
<1>9. SlotsInv'
  BY <1>3, <1>4, <1>5, <1>7, <1>8, OneSlot DEF IInv
<1> QED
  BY <1>3, <1>7, <1>9 DEF IInv, WaitInv

LEMMA AvailDataStep == ASSUME IInv, NEW s \in Sockets, AvailData(s) PROVE IInv'
<1> DEFINE psi == sockets[s]
<1>1. fw = "up" /\ psi \in SocketInfo
  BY DEF AvailData, IInv, TypeOK
<1>2. SlotInv(psi, conn, delivered[s], promised[s])
  BY DEF IInv, SlotsInv
<1>3. CASE Return("E_UNSUPPORTED", 0)
  BY <1>1, <1>3, ReturnStep DEF Errors
<1>4. CASE psi.pbuf # NULL /\ Announce(s, psi) /\ UNCHANGED conn
  <2>1. conn' = conn /\ conn \in [Netconns -> ConnInfo]
    BY <1>4 DEF IInv, TypeOK
  <2>2. \A n \in Netconns : conn[n].taken <= conn[n].rcvd
    BY DEF IInv, SlotsInv
  <2>3. PncInv(psi, conn') /\ HeldInv(psi, conn') /\ StreamInv(psi, conn', delivered[s])
    BY <1>2, <2>1 DEF SlotInv
  <2> QED
    BY <1>1, <1>4, <2>1, <2>2, <2>3, AnnounceStep
<1>5. CASE Undefined
  BY <1>5, UndefinedStep
<1>6. ASSUME psi.type = "TCP", psi.pbuf = NULL, psi.pnc # NULL, HasData(psi.pnc),
             NEW k \in 1 .. conn[psi.pnc].rcvd - conn[psi.pnc].taken,
             conn' = Recv(psi.pnc, k), Announce(s, WithNetbuf(psi, k))
      PROVE  IInv'
  <2>1. psi.offset = 0
    BY <1>2, <1>6 DEF SlotInv, HeldInv
  <2>2. psi.pnc \in Netconns /\ conn \in [Netconns -> ConnInfo]
    BY <1>1, <1>6 DEF SocketInfo, IInv, TypeOK
  <2>3. k \in Nat \ {0} /\ k <= conn[psi.pnc].rcvd - conn[psi.pnc].taken
    BY <2>2 DEF ConnInfo
  <2>4. /\ conn' \in [Netconns -> ConnInfo]
        /\ \A n \in Netconns : /\ n # psi.pnc => conn'[n] = conn[n]
                               /\ conn'[n].taken <= conn'[n].rcvd
        /\ PncInv(WithNetbuf(psi, k), conn')
        /\ HeldInv(WithNetbuf(psi, k), conn')
        /\ StreamInv(WithNetbuf(psi, k), conn', delivered[s])
    BY <1>1, <1>6, <2>1, <2>3, Received
  <2>5. /\ WithNetbuf(psi, k) \in SocketInfo /\ WithNetbuf(psi, k).pbuf # NULL
        /\ WithNetbuf(psi, k).pnc = psi.pnc
    BY <1>1, <2>2, <2>3, NetbufFields
  <2> QED
    BY <1>1, <1>6, <2>4, <2>5, AnnounceStep
<1>7. ASSUME psi.pbuf = NULL, ret' = Result("E_SUCCESS", 0), promised' = [promised EXCEPT ![s] = 0],
             UNCHANGED <<sockets, conn, fw, wait, delivered>>
      PROVE  IInv'
  <2>1. promised[s] = 0
    BY <1>2, <1>7 DEF SlotInv, PromiseInv, IInv, TypeOK
  <2>2. promised' = promised
    BY <1>7, <2>1 DEF IInv, TypeOK
  <2>3. ret' \in [err : Errors, val : Nat]
    BY <1>7 DEF Result, Errors
  <2> QED
    BY <1>1, <1>7, <2>2, <2>3, QuietStep
<1>8. (AvailTcp(s) /\ psi.type = "TCP") \/ Return("E_UNSUPPORTED", 0)
  BY DEF AvailData
<1> QED
  BY <1>3, <1>4, <1>5, <1>6, <1>7, <1>8 DEF AvailTcp

-----------------------------------------------------------------------------
(* Reading *)

\* What a copy needs to be a step of the table, whatever the loop does next.
LEMMA CopyStep ==
    ASSUME IInv, NEW s \in Sockets, NEW psi \in SocketInfo, NEW want \in Nat \ {0},
           psi.pbuf # NULL, InUse(psi), psi.pnc = sockets[s].pnc,
           conn' \in [Netconns -> ConnInfo],
           \A n \in Netconns : /\ n # psi.pnc => conn'[n] = conn[n]
                               /\ conn'[n].taken <= conn'[n].rcvd,
           HeldInv(psi, conn'), PncInv(psi, conn'), StreamInv(psi, conn', delivered[s]),
           promised[s] <= psi.dlen - psi.offset,
           Copy(s, psi, want),
           fw' = "up", wait' \in {wait, NULL}
    PROVE  IInv'
<1>1. /\ SlotInv(sockets'[s], conn', delivered'[s], promised'[s])
      /\ sockets'[s].pnc = psi.pnc
      /\ \A t \in Sockets \ {s} : /\ sockets'[t] = sockets[t]
                                  /\ delivered'[t] = delivered[t]
                                  /\ promised'[t] = promised[t]
      /\ sockets' \in [Sockets -> SocketInfo]
      /\ delivered' \in [Sockets -> Seq(Nat)]
      /\ promised' \in [Sockets -> Nat]
      /\ ret' \in [err : Errors, val : Nat]
  BY CopySlot DEF IInv
<1>2. TypeOK'
  BY <1>1 DEF IInv, TypeOK
<1>3. SlotsInv'
  BY <1>1, <1>2, OneSlot DEF IInv
<1> QED
  BY <1>2, <1>3 DEF IInv, WaitInv

LEMMA RecvAndCopyStep ==
    ASSUME IInv, NEW s \in Sockets, NEW want \in Nat \ {0},
           sockets[s].type = "TCP", sockets[s].pbuf = NULL, sockets[s].pnc # NULL,
           RecvAndCopy(s, want),
           fw' = "up", wait' \in {wait, NULL}
    PROVE  IInv'
<1> DEFINE psi == [sockets[s] EXCEPT !.offset = 0]
<1>1. sockets[s] \in SocketInfo
  BY DEF IInv, TypeOK
<1>2. /\ psi \in SocketInfo /\ psi.type = "TCP" /\ psi.pnc = sockets[s].pnc
      /\ psi.state = sockets[s].state /\ psi.offset = 0
  BY <1>1 DEF SocketInfo
<1>3. psi.pnc \in Netconns /\ conn \in [Netconns -> ConnInfo]
  BY <1>1, <1>2 DEF SocketInfo, IInv, TypeOK
<1>4. \/ /\ HasData(psi.pnc)
         /\ \E k \in 1 .. conn[psi.pnc].rcvd - conn[psi.pnc].taken :
              conn' = Recv(psi.pnc, k) /\ Copy(s, WithNetbuf(psi, k), want)
      \/ /\ ret' = Result("E_INTERNAL", 0)
         /\ UNCHANGED <<sockets, conn, delivered, promised>>
  BY DEF RecvAndCopy
<1> HIDE DEF psi
<1>5. ASSUME HasData(psi.pnc), NEW k \in 1 .. conn[psi.pnc].rcvd - conn[psi.pnc].taken,
             conn' = Recv(psi.pnc, k), Copy(s, WithNetbuf(psi, k), want)
      PROVE  IInv'
  <2>1. k \in Nat \ {0} /\ k <= conn[psi.pnc].rcvd - conn[psi.pnc].taken
    BY <1>3, <1>5 DEF ConnInfo
  <2>2. /\ conn' \in [Netconns -> ConnInfo]
        /\ \A n \in Netconns : /\ n # psi.pnc => conn'[n] = conn[n]
                               /\ conn'[n].taken <= conn'[n].rcvd
        /\ InUse(WithNetbuf(psi, k))
        /\ PncInv(WithNetbuf(psi, k), conn')
        /\ HeldInv(WithNetbuf(psi, k), conn')
        /\ StreamInv(WithNetbuf(psi, k), conn', delivered[s])
        /\ promised[s] = 0
    BY <1>2, <1>5, <2>1, Received
  <2>3. /\ WithNetbuf(psi, k) \in SocketInfo /\ WithNetbuf(psi, k).pbuf # NULL
        /\ WithNetbuf(psi, k).pnc = sockets[s].pnc
        /\ WithNetbuf(psi, k).dlen = k /\ WithNetbuf(psi, k).offset = 0
    BY <1>2, <1>3, <2>1, NetbufFields
  <2>4. promised[s] <= WithNetbuf(psi, k).dlen - WithNetbuf(psi, k).offset
    BY <2>1, <2>2, <2>3
  <2> QED
    BY <1>2, <1>5, <2>2, <2>3, <2>4, CopyStep
<1>6. ASSUME ret' = Result("E_INTERNAL", 0), UNCHANGED <<sockets, conn, delivered, promised>>
      PROVE  IInv'
  <2>1. ret' \in [err : Errors, val : Nat]
    BY <1>6 DEF Result, Errors
  <2>2. TypeOK'
    BY <1>6, <2>1 DEF IInv, TypeOK
  <2>3. SlotsInv'
    BY <1>6 DEF IInv, SlotsInv, Shared, Live, Owns
  <2> QED
    BY <2>2, <2>3 DEF IInv, WaitInv
<1> QED
  BY <1>4, <1>5, <1>6

LEMMA ReadDataStep ==
    ASSUME IInv, NEW s \in Sockets, NEW want \in Nat, ReadData(s, want)
    PROVE  IInv'
<1> DEFINE psi == sockets[s]
<1>1. fw = "up" /\ psi \in SocketInfo /\ want \in Nat /\ promised[s] \in Nat
  BY DEF ReadData, IInv, TypeOK
<1>2. SlotInv(psi, conn, delivered[s], promised[s])
  BY DEF IInv, SlotsInv
<1>3. CASE Return("E_SUCCESS", 0) \/ Return("E_INTERNAL", 0)
  BY <1>1, <1>3, ReturnStep DEF Errors
<1>4. CASE want > 0 /\ psi.pbuf # NULL /\ Copy(s, psi, want) /\ UNCHANGED <<conn, fw, wait>>
  <2>1. conn' = conn /\ conn \in [Netconns -> ConnInfo]
    BY <1>4 DEF IInv, TypeOK
  <2>2. \A n \in Netconns : conn[n].taken <= conn[n].rcvd
    BY DEF IInv, SlotsInv
  <2>3. /\ PncInv(psi, conn') /\ HeldInv(psi, conn') /\ StreamInv(psi, conn', delivered[s])
        /\ InUse(psi)
    BY <1>2, <1>4, <2>1 DEF SlotInv, HeldInv
  <2>4. promised[s] <= psi.dlen - psi.offset
    BY <1>1, <1>2, <1>4 DEF SlotInv, HeldInv, PromiseInv, SocketInfo
  <2> QED
    BY <1>1, <1>4, <2>1, <2>2, <2>3, <2>4, CopyStep
<1>5. CASE Undefined
  BY <1>5, UndefinedStep
<1>6. CASE /\ psi.type = "TCP" /\ want > 0 /\ psi.pbuf = NULL /\ psi.pnc # NULL
           /\ RecvAndCopy(s, want) /\ UNCHANGED <<fw, wait>>
  BY <1>1, <1>6, RecvAndCopyStep
<1>7. CASE /\ psi.type = "TCP" /\ want > 0 /\ psi.pbuf = NULL /\ psi.pnc # NULL
           /\ ~RecvFails(psi.pnc)
           /\ fw' = "blocked"
           /\ wait' = [sock |-> s, want |-> want]
           /\ ret' = NoResult
           /\ UNCHANGED <<sockets, conn, delivered, promised>>
  <2>1. wait' \in Waits /\ wait'.sock = s
    BY <1>1, <1>7 DEF Waits
  <2>2. ret' \in [err : Errors, val : Nat]
    BY <1>7 DEF NoResult, Result, Errors
  <2>3. TypeOK'
    BY <1>7, <2>1, <2>2 DEF IInv, TypeOK
  <2>4. SlotsInv'
    BY <1>7 DEF IInv, SlotsInv, Shared, Live, Owns
  <2>5. InUse(psi)
    BY <1>2, <1>7 DEF SlotInv, PncInv, RecvFails
  <2>6. WaitInv'
    BY <1>7, <2>1, <2>5 DEF WaitInv, InUse
  <2> QED
    BY <2>3, <2>4, <2>6 DEF IInv
<1> QED
  BY <1>3, <1>4, <1>5, <1>6, <1>7 DEF ReadData, ReadTcp

LEMMA ReadWakesStep == IInv /\ ReadWakes => IInv'
<1> SUFFICES ASSUME IInv, ReadWakes PROVE IInv'
  OBVIOUS
<1>1. /\ wait \in Waits
      /\ InUse(sockets[wait.sock]) /\ sockets[wait.sock].pnc # NULL
      /\ sockets[wait.sock].pbuf = NULL
  BY DEF IInv, WaitInv, ReadWakes
<1>2. PICK s \in Sockets, want \in Nat \ {0} : s = wait.sock /\ want = wait.want
  BY <1>1 DEF Waits
<1>3. RecvAndCopy(s, want) /\ fw' = "up" /\ wait' = NULL
  BY <1>2 DEF ReadWakes
<1> QED
  BY <1>1, <1>2, <1>3, RecvAndCopyStep DEF InUse

-----------------------------------------------------------------------------
(* Writing only changes the note about Nagle and the pcb it is about. *)

LEMMA NoteStep ==
    ASSUME IInv, fw = "up", NEW s \in Sockets, sockets[s].pnc # NULL,
           NEW note \in BOOLEAN,
           sockets' = [sockets EXCEPT ![s] = Note(@, note)],
           NEW c \in ConnInfo, conn' = [conn EXCEPT ![sockets[s].pnc] = c],
           c.st = conn[sockets[s].pnc].st, c.taken = conn[sockets[s].pnc].taken,
           c.rcvd = conn[sockets[s].pnc].rcvd,
           ret' \in [err : Errors, val : Nat],
           UNCHANGED <<fw, wait, delivered, promised>>
    PROVE  IInv'
<1> DEFINE psi == sockets[s]
           new == Note(psi, note)
<1>1. psi \in SocketInfo /\ psi.pnc \in Netconns
  BY DEF IInv, TypeOK, SocketInfo
<1>2. sockets' = [sockets EXCEPT ![s] = new]
  BY DEF IInv, TypeOK
<1>3. /\ new \in SocketInfo /\ new.type = psi.type /\ new.state = psi.state
      /\ new.pnc = psi.pnc /\ new.pbuf = psi.pbuf
      /\ new.offset = psi.offset /\ new.dlen = psi.dlen
  BY <1>1 DEF Note, SocketInfo
<1> HIDE DEF new
<1>4. /\ conn' \in [Netconns -> ConnInfo] /\ conn'[psi.pnc] = c
      /\ \A m \in Netconns : m # psi.pnc => conn'[m] = conn[m]
  BY <1>1 DEF IInv, TypeOK
<1>5. TypeOK'
  BY <1>2, <1>3, <1>4 DEF IInv, TypeOK
<1>6. sockets'[s] = new /\ \A t \in Sockets \ {s} : sockets'[t] = sockets[t]
  BY <1>2 DEF IInv, TypeOK
<1>7. SlotInv(psi, conn, delivered[s], promised[s])
  BY DEF IInv, SlotsInv
<1>8. SlotInv(new, conn', delivered[s], promised[s])
  BY <1>3, <1>4, <1>7 DEF SlotInv, PncInv, HeldInv, StreamInv, PromiseInv, InUse
<1>9. \A m \in Netconns : conn'[m].taken <= conn'[m].rcvd
  BY <1>1, <1>4 DEF IInv, SlotsInv
<1>10. SlotsInv'
  BY <1>3, <1>4, <1>5, <1>6, <1>8, <1>9, OneSlot DEF IInv
<1> QED
  BY <1>5, <1>10 DEF IInv, WaitInv

LEMMA SendDataStep == ASSUME IInv, NEW s \in Sockets, SendData(s) PROVE IInv'
<1> DEFINE psi == sockets[s]
           n == psi.pnc
<1>1. fw = "up" /\ psi \in SocketInfo
  BY DEF SendData, IInv, TypeOK
<1>2. CASE Return("E_INTERNAL", 0)
  BY <1>1, <1>2, ReturnStep DEF Errors
<1>3. CASE Undefined
  BY <1>3, UndefinedStep
<1>4. ASSUME n # NULL, sockets' = [sockets EXCEPT ![s] = Note(@, TRUE)],
             NEW ok \in BOOLEAN,
             conn' = [conn EXCEPT ![n].nagle = @ \/ ~psi.nagle_enabled, ![n].wrote = @ \/ ok],
             ret' = Result(IF ok THEN "E_SUCCESS" ELSE "E_INTERNAL", 0),
             UNCHANGED <<fw, wait, delivered, promised>>
      PROVE  IInv'
  <2> DEFINE c == [conn[n] EXCEPT !.nagle = @ \/ ~psi.nagle_enabled, !.wrote = @ \/ ok]
  <2>1. n \in Netconns /\ conn \in [Netconns -> ConnInfo]
    BY <1>1, <1>4 DEF IInv, TypeOK, SocketInfo
  <2>2. conn[n] \in ConnInfo
    BY <2>1
  <2>3. /\ c \in ConnInfo /\ c.st = conn[n].st /\ c.taken = conn[n].taken
        /\ c.rcvd = conn[n].rcvd
    BY <2>2 DEF ConnInfo
  <2>4. conn' = [conn EXCEPT ![n] = c]
    BY <1>4, <2>1
  <2>5. ret' \in [err : Errors, val : Nat]
    BY <1>4 DEF Result, Errors
  <2> HIDE DEF c
  <2> QED
    BY <1>1, <1>4, <2>3, <2>4, <2>5, NoteStep
<1> QED
  BY <1>2, <1>3, <1>4 DEF SendData, SendTcp

LEMMA WriteFlushStep == ASSUME IInv, NEW s \in Sockets, WriteFlush(s) PROVE IInv'
<1> DEFINE psi == sockets[s]
           n == psi.pnc
<1>1. fw = "up" /\ psi \in SocketInfo
  BY DEF WriteFlush, IInv, TypeOK
<1>2. CASE Return("E_INTERNAL", 0)
  BY <1>1, <1>2, ReturnStep DEF Errors
<1>3. CASE Undefined
  BY <1>3, UndefinedStep
<1>4. ASSUME HasPcb(n), sockets' = [sockets EXCEPT ![s] = Note(@, FALSE)],
             conn' = [conn EXCEPT ![n].nagle = FALSE],
             ret' = Result("E_INTERNAL", 0),
             UNCHANGED <<fw, wait, delivered, promised>>
      PROVE  IInv'
  <2> DEFINE c == [conn[n] EXCEPT !.nagle = FALSE]
  <2>1. n # NULL /\ n \in Netconns /\ conn \in [Netconns -> ConnInfo]
    BY <1>1, <1>4 DEF HasPcb, IInv, TypeOK, SocketInfo
  <2>2. conn[n] \in ConnInfo
    BY <2>1
  <2>3. /\ c \in ConnInfo /\ c.st = conn[n].st /\ c.taken = conn[n].taken
        /\ c.rcvd = conn[n].rcvd
    BY <2>2 DEF ConnInfo
  <2>4. conn' = [conn EXCEPT ![n] = c]
    BY <1>4, <2>1
  <2>5. ret' \in [err : Errors, val : Nat]
    BY <1>4 DEF Result, Errors
  <2> HIDE DEF c
  <2> QED
    BY <1>1, <1>4, <2>1, <2>3, <2>4, <2>5, NoteStep
<1> QED
  BY <1>2, <1>3, <1>4 DEF WriteFlush

LEMMA PeerStep == ASSUME IInv, NEW n \in Netconns, Peer(n) PROVE IInv'
<1>1. UNCHANGED <<sockets, fw, wait, ret, delivered, promised>>
  BY DEF Peer, PeerSend, PeerClose, PeerReset
<1>2. conn \in [Netconns -> ConnInfo] /\ conn[n] \in ConnInfo
  BY DEF IInv, TypeOK
<1>3. conn[n].rcvd \in Nat /\ conn[n].taken \in Nat /\ conn[n].taken <= conn[n].rcvd
  BY <1>2 DEF ConnInfo, IInv, SlotsInv
<1>4. ASSUME NEW c \in ConnInfo, conn' = [conn EXCEPT ![n] = c],
             Live(n), c.st \in {"open", "fin", "rst"},
             c.taken = conn[n].taken, c.taken <= c.rcvd
      PROVE  IInv'
  <2>1. /\ conn' \in [Netconns -> ConnInfo] /\ conn'[n] = c
        /\ \A m \in Netconns \ {n} : conn'[m] = conn[m]
    BY <1>2, <1>4
  <2>2. TypeOK'
    BY <1>1, <2>1 DEF IInv, TypeOK
  <2>3. Live(n)'
    BY <1>4, <2>1 DEF Live
  <2>4. SlotsInv'
    BY <1>1, <1>4, <2>1, <2>2, <2>3, OnePeer DEF IInv
  <2> QED
    BY <1>1, <2>2, <2>4 DEF IInv, WaitInv
<1>5. CASE PeerSend(n)
  <2> DEFINE c == [conn[n] EXCEPT !.rcvd = @ + 1]
  <2>1. /\ c \in ConnInfo /\ c.st = conn[n].st /\ c.taken = conn[n].taken
        /\ c.rcvd = conn[n].rcvd + 1
    BY <1>2, <1>3 DEF ConnInfo
  <2>2. conn' = [conn EXCEPT ![n] = c] /\ conn[n].st = "open"
    BY <1>2, <1>5 DEF PeerSend
  <2>3. c.taken <= c.rcvd
    BY <1>3, <2>1
  <2> HIDE DEF c
  <2> QED
    BY <1>4, <2>1, <2>2, <2>3 DEF Live
<1>6. CASE PeerClose(n)
  <2> DEFINE c == [conn[n] EXCEPT !.st = "fin"]
  <2>1. /\ c \in ConnInfo /\ c.st = "fin" /\ c.taken = conn[n].taken
        /\ c.rcvd = conn[n].rcvd
    BY <1>2 DEF ConnInfo
  <2>2. conn' = [conn EXCEPT ![n] = c] /\ conn[n].st = "open"
    BY <1>2, <1>6 DEF PeerClose
  <2> HIDE DEF c
  <2> QED
    BY <1>3, <1>4, <2>1, <2>2 DEF Live
<1>7. CASE PeerReset(n)
  <2> DEFINE c == [conn[n] EXCEPT !.st = "rst", !.pcb = FALSE]
  <2>1. /\ c \in ConnInfo /\ c.st = "rst" /\ c.taken = conn[n].taken
        /\ c.rcvd = conn[n].rcvd
    BY <1>2 DEF ConnInfo
  <2>2. conn' = [conn EXCEPT ![n] = c] /\ conn[n].st \in {"open", "fin"}
    BY <1>2, <1>7 DEF PeerReset
  <2> HIDE DEF c
  <2> QED
    BY <1>3, <1>4, <2>1, <2>2 DEF Live
<1> QED
  BY <1>5, <1>6, <1>7 DEF Peer

-----------------------------------------------------------------------------
LEMMA NextIInv == IInv /\ [Next]_vars => IInv'
<1> SUFFICES ASSUME IInv, [Next]_vars PROVE IInv'
  OBVIOUS
<1>1. CASE GetSocket
  BY <1>1, GetSocketStep
<1>2. CASE WifiReset
  BY <1>2, WifiResetStep
<1>3. CASE Reboot
  BY <1>3, RebootStep
<1>4. CASE ReadWakes
  BY <1>4, ReadWakesStep
<1>5. ASSUME NEW s \in Sockets, Call(s)
      PROVE  IInv'
  <2>1. CASE StopSocket(s)
    BY <2>1, StopSocketStep
  <2>2. ASSUME NEW mode \in Modes, SocketConnect(s, mode)
        PROVE  IInv'
    BY <2>2, ModesAssumption, SocketConnectStep
  <2>3. CASE GetSocketState(s)
    BY <2>3, GetSocketStateStep
  <2>4. CASE AvailData(s)
    BY <2>4, AvailDataStep
  <2>5. ASSUME NEW want \in ReadSizes, ReadData(s, want)
        PROVE  IInv'
    BY <2>5, ReadSizesAssumption, ReadDataStep
  <2>6. CASE SendData(s)
    BY <2>6, SendDataStep
  <2>7. CASE WriteFlush(s)
    BY <2>7, WriteFlushStep
  <2> QED
    BY <1>5, <2>1, <2>2, <2>3, <2>4, <2>5, <2>6, <2>7 DEF Call
<1>6. ASSUME NEW n \in Netconns, Peer(n)
      PROVE  IInv'
  BY <1>6, PeerStep
<1>7. CASE UNCHANGED vars
  BY <1>7 DEF vars, IInv, TypeOK, SlotsInv, WaitInv, Shared, Live, Owns
<1> QED
  BY <1>1, <1>2, <1>3, <1>4, <1>5, <1>6, <1>7 DEF Next

\* The invariant the theorems below follow from.
THEOREM IInvariant == Spec => []IInv
  BY InitIInv, NextIInv, PTL DEF Spec

LEMMA IInvImplies ==
    IInv => /\ LiveConnsOwned /\ PncNeverDangles /\ StateTellsConnect
            /\ HeldDataIsOwn /\ DeliveredInOrder /\ AnnouncedBytesHeld
<1> SUFFICES ASSUME IInv
             PROVE  /\ LiveConnsOwned /\ PncNeverDangles /\ StateTellsConnect
                    /\ HeldDataIsOwn /\ DeliveredInOrder /\ AnnouncedBytesHeld
  OBVIOUS
<1>1. \A s \in Sockets : SlotInv(sockets[s], conn, delivered[s], promised[s])
  BY DEF IInv, SlotsInv
<1>2. \A s \in Sockets :
        /\ InUse(sockets[s]) /\ sockets[s].pnc # NULL <=> Connected(s)
        /\ sockets[s].type = "TCP" => (InUse(sockets[s]) <=> sockets[s].state = ESTABLISHED)
  BY DEF InUse, Connected
<1>3. LiveConnsOwned
  <2> SUFFICES ASSUME NEW n \in Netconns, Live(n)
               PROVE  \E s \in Sockets : Owns(s, n) /\ Connected(s)
    BY DEF LiveConnsOwned
  <2>1. PICK s \in Sockets : Owns(s, n)
    BY DEF IInv, SlotsInv
  <2>2. sockets[s].pnc = n /\ n # NULL /\ conn[n].st # "failed"
    BY <2>1, NULLAssumption DEF Owns, Live
  <2>3. InUse(sockets[s])
    BY <1>1, <2>2 DEF SlotInv, PncInv
  <2> QED
    BY <1>2, <2>1, <2>2, <2>3
<1>4. PncNeverDangles
  BY <1>1 DEF PncNeverDangles, SlotInv, PncInv, IInv, SlotsInv, Shared
<1>5. StateTellsConnect
  BY <1>1, <1>2 DEF StateTellsConnect, SlotInv, PncInv
<1>6. HeldDataIsOwn
  BY <1>1, <1>2 DEF HeldDataIsOwn, SlotInv, HeldInv
<1>7. DeliveredInOrder
  BY <1>1, <1>2 DEF DeliveredInOrder, SlotInv, StreamInv, Held
<1>8. AnnouncedBytesHeld
  BY <1>1 DEF AnnouncedBytesHeld, SlotInv, PromiseInv, Held
<1> QED
  BY <1>3, <1>4, <1>5, <1>6, <1>7, <1>8

\* Whatever the host calls and the peers do, the table stays a table of
\* socket_info_t, its lwIP handles and its histories of their types.
THEOREM TypeCorrect == Spec => []TypeOK
<1>1. IInv => TypeOK
  BY DEF IInv
<1> QED
  BY <1>1, IInvariant, PTL

\* No established connection is ever leaked by closes, reconnects or AP changes.
THEOREM NoConnectionLeaks == Spec => []LiveConnsOwned
  BY IInvariant, IInvImplies, PTL

\* No slot is left with a deleted netconn, or with another slot's.
THEOREM NoDanglingPnc == Spec => []PncNeverDangles
  BY IInvariant, IInvImplies, PTL

\* The state a host polls is that of the slot's own connect.
THEOREM StateIsTrue == Spec => []StateTellsConnect
  BY IInvariant, IInvImplies, PTL

\* A held netbuf is the slot's own, and offset and dlen are 0 without one.
THEOREM HeldDataOwned == Spec => []HeldDataIsOwn
  BY IInvariant, IInvImplies, PTL

\* Reads return the peer's bytes, each once and in order.
THEOREM DeliveryInOrder == Spec => []DeliveredInOrder
  BY IInvariant, IInvImplies, PTL

\* A read of announced bytes never waits in netconn_recv.
THEOREM AnnouncementsKept == Spec => []AnnouncedBytesHeld
  BY IInvariant, IInvImplies, PTL

-----------------------------------------------------------------------------
(* The note about Nagle.  NagleNoteTrue is about a connected slot whose       *)
(* netconn has its pcb, and is inductive given IInv: a step either leaves such *)
(* a slot's note and netconn alone or sets both.                               *)

NoteTrue(psi, c) == /\ psi.nagle_enabled => c.nagle
                    /\ c.wrote /\ c.nagle => psi.nagle_enabled

Noted(psi, cf) == InUse(psi) /\ psi.pnc # NULL /\ cf[psi.pnc].pcb => NoteTrue(psi, cf[psi.pnc])

LEMMA NagleNoteIs == NagleNoteTrue <=> \A s \in Sockets : Noted(sockets[s], conn)
  BY DEF NagleNoteTrue, Noted, NoteTrue, Connected, InUse

\* The same use of the same netconn, as far as the note is concerned.
SameNote(old, new, cold, cnew) ==
    /\ new.type = old.type /\ new.state = old.state /\ new.pnc = old.pnc
    /\ new.nagle_enabled = old.nagle_enabled
    /\ cnew.nagle = cold.nagle /\ cnew.wrote = cold.wrote /\ (cnew.pcb => cold.pcb)

LEMMA NoteKept ==
    ASSUME IInv, NagleNoteTrue,
           \A s \in Sockets :
               \/ Noted(sockets'[s], conn')
               \/ SameNote(sockets[s], sockets'[s], conn[sockets[s].pnc], conn'[sockets[s].pnc])
    PROVE  NagleNoteTrue'
<1>1. \A s \in Sockets : Noted(sockets[s], conn)
  BY NagleNoteIs
<1>2. \A s \in Sockets : Noted(sockets'[s], conn')
  BY <1>1 DEF Noted, NoteTrue, SameNote, InUse
<1> QED
  BY <1>2 DEF NagleNoteTrue, Noted, NoteTrue, Connected, InUse

\* A torn-down slot is not in use, so nothing is said of its note.
LEMMA TornDownNoted ==
    ASSUME IInv, NEW s \in Sockets, NEW cf
    PROVE  Noted(Teardown(sockets[s]), cf)
<1>1. Teardown(sockets[s]).type # "TCP"
  BY TeardownFields DEF IInv, TypeOK
<1> QED
  BY <1>1 DEF Noted, InUse

LEMMA NoteReset == IInv /\ NagleNoteTrue /\ (WifiReset \/ Reboot) => NagleNoteTrue'
<1> SUFFICES ASSUME IInv, NagleNoteTrue, WifiReset \/ Reboot PROVE NagleNoteTrue'
  OBVIOUS
<1>1. CASE WifiReset
  <2>1. \A s \in Sockets : sockets'[s] = Teardown(sockets[s])
    BY <1>1 DEF WifiReset, ResetSockets
  <2>2. \A s \in Sockets : Noted(sockets'[s], conn')
    BY <2>1, TornDownNoted
  <2> QED
    BY <2>2, NoteKept
<1>2. CASE Reboot
  <2>1. \A s \in Sockets : Noted(sockets'[s], conn')
    BY <1>2 DEF Reboot, EmptySlot, Noted
  <2> QED
    BY <2>1, NoteKept
<1> QED
  BY <1>1, <1>2

\* A step that changes neither a slot's use nor its netconn's pcb.
LEMMA NoteSameConn ==
    ASSUME IInv, NagleNoteTrue,
           \A s \in Sockets : SameNote(sockets[s], sockets'[s], conn[sockets[s].pnc],
                                      conn'[sockets[s].pnc])
    PROVE  NagleNoteTrue'
  BY NoteKept

LEMMA NoteOneSlot ==
    ASSUME IInv, NagleNoteTrue, NEW s \in Sockets,
           \A t \in Sockets \ {s} : sockets'[t] = sockets[t],
           \A n \in Netconns : n # sockets'[s].pnc /\ n # sockets[s].pnc => conn'[n] = conn[n],
           sockets'[s].pnc # sockets[s].pnc /\ sockets'[s].pnc # NULL =>
               conn[sockets'[s].pnc].st = "free",
           \/ Noted(sockets'[s], conn')
           \/ SameNote(sockets[s], sockets'[s], conn[sockets[s].pnc], conn'[sockets[s].pnc])
    PROVE  NagleNoteTrue'
<1>1. ASSUME NEW t \in Sockets, t # s, sockets[t].pnc # NULL
      PROVE  conn'[sockets[t].pnc] = conn[sockets[t].pnc]
  <2>1. sockets[t].pnc \in Netconns
    BY <1>1 DEF IInv, TypeOK, SocketInfo
  <2>2. sockets[t].pnc # sockets[s].pnc
    BY <1>1 DEF IInv, SlotsInv, Shared
  <2>3. conn[sockets[t].pnc].st # "free"
    BY <1>1 DEF IInv, SlotsInv, SlotInv, PncInv
  <2> QED
    BY <1>1, <2>1, <2>2, <2>3
<1>2. ASSUME NEW t \in Sockets
      PROVE  \/ Noted(sockets'[t], conn')
             \/ SameNote(sockets[t], sockets'[t], conn[sockets[t].pnc], conn'[sockets[t].pnc])
  <2>1. CASE t = s
    BY <2>1
  <2>2. CASE t # s /\ sockets[t].pnc = NULL
    BY <2>2 DEF Noted
  <2>3. CASE t # s /\ sockets[t].pnc # NULL
    BY <1>1, <2>3 DEF SameNote
  <2> QED
    BY <2>1, <2>2, <2>3
<1> QED
  BY <1>2, NoteKept

LEMMA NoteUnchanged == NagleNoteTrue /\ UNCHANGED <<sockets, conn>> => NagleNoteTrue'
  BY DEF NagleNoteTrue, Connected

\* What a call that only receives or copies does: the slot keeps its use and
\* its note, and of the netconns only bytes are taken.
ReceiveEffect(s) ==
    \E psi \in SocketInfo :
        /\ sockets' = [sockets EXCEPT ![s] = psi]
        /\ psi.type = sockets[s].type /\ psi.state = sockets[s].state
        /\ psi.pnc = sockets[s].pnc /\ psi.nagle_enabled = sockets[s].nagle_enabled
        /\ \/ conn' = conn
           \/ sockets[s].pnc # NULL /\ \E k \in Nat : conn' = Recv(sockets[s].pnc, k)

LEMMA NoEffect ==
    ASSUME IInv, NEW s \in Sockets, UNCHANGED <<sockets, conn>>
    PROVE  ReceiveEffect(s)
<1>1. sockets[s] \in SocketInfo /\ sockets' = [sockets EXCEPT ![s] = sockets[s]]
  BY DEF IInv, TypeOK
<1> QED
  BY <1>1 DEF ReceiveEffect

LEMMA CopyEffect ==
    ASSUME IInv, NEW s \in Sockets, NEW want \in Nat \ {0},
           NEW psi \in SocketInfo, psi.offset < psi.dlen, Copy(s, psi, want),
           psi.type = sockets[s].type, psi.state = sockets[s].state,
           psi.pnc = sockets[s].pnc, psi.nagle_enabled = sockets[s].nagle_enabled,
           sockets[s].pnc # NULL,
           conn' = conn \/ \E k \in Nat : conn' = Recv(sockets[s].pnc, k)
    PROVE  ReceiveEffect(s)
<1> DEFINE new == AfterCopy(psi, ToCopy(psi, want))
<1>1. /\ new \in SocketInfo /\ new.type = psi.type /\ new.state = psi.state
      /\ new.pnc = psi.pnc
  BY CopyFields
<1>2. new.nagle_enabled = psi.nagle_enabled
  BY DEF AfterCopy, SocketInfo
<1>3. sockets' = [sockets EXCEPT ![s] = new]
  BY DEF Copy
<1> HIDE DEF new
<1> QED
  BY <1>1, <1>2, <1>3 DEF ReceiveEffect

LEMMA RecvAndCopyEffect ==
    ASSUME IInv, NEW s \in Sockets, NEW want \in Nat \ {0}, RecvAndCopy(s, want),
           sockets[s].pbuf = NULL, sockets[s].pnc # NULL
    PROVE  ReceiveEffect(s)
<1> DEFINE psi == [sockets[s] EXCEPT !.offset = 0]
           n == psi.pnc
<1>1. sockets[s] \in SocketInfo
  BY DEF IInv, TypeOK
<1>2. /\ psi \in SocketInfo /\ psi.type = sockets[s].type /\ psi.pnc = sockets[s].pnc
      /\ psi.state = sockets[s].state /\ psi.offset = 0
      /\ psi.nagle_enabled = sockets[s].nagle_enabled
  BY <1>1 DEF SocketInfo
<1>3. \/ \E k \in 1 .. conn[n].rcvd - conn[n].taken :
            conn' = Recv(n, k) /\ Copy(s, WithNetbuf(psi, k), want)
      \/ UNCHANGED <<sockets, conn>>
  BY DEF RecvAndCopy
<1> HIDE DEF psi
<1>4. ASSUME NEW k \in 1 .. conn[n].rcvd - conn[n].taken,
             conn' = Recv(n, k), Copy(s, WithNetbuf(psi, k), want)
      PROVE  ReceiveEffect(s)
  <2>1. n \in Netconns /\ conn \in [Netconns -> ConnInfo]
    BY <1>1, <1>2 DEF SocketInfo, IInv, TypeOK
  <2>2. k \in Nat \ {0}
    BY <1>4, <2>1 DEF ConnInfo
  <2> DEFINE new == WithNetbuf(psi, k)
  <2>3. /\ new \in SocketInfo /\ new.dlen = k /\ new.offset = 0
        /\ new.type = psi.type /\ new.state = psi.state /\ new.pnc = psi.pnc
    BY <1>2, <2>1, <2>2, NetbufFields
  <2>4. new.nagle_enabled = psi.nagle_enabled
    BY <1>2 DEF WithNetbuf, SocketInfo
  <2> HIDE DEF new
  <2> QED
    BY <1>2, <1>4, <2>2, <2>3, <2>4, CopyEffect DEF new
<1> QED
  BY <1>3, <1>4, NoEffect

LEMMA ReadEffect ==
    ASSUME IInv, NEW s \in Sockets, NEW want \in Nat, ReadData(s, want)
    PROVE  ReceiveEffect(s)
<1>1. SlotInv(sockets[s], conn, delivered[s], promised[s]) /\ sockets[s] \in SocketInfo
  BY DEF IInv, SlotsInv, TypeOK
<1>2. CASE UNCHANGED <<sockets, conn>>
  BY <1>2, NoEffect
<1>3. CASE want > 0 /\ sockets[s].pbuf # NULL /\ Copy(s, sockets[s], want) /\ conn' = conn
  BY <1>1, <1>3, CopyEffect DEF SlotInv, HeldInv
<1>4. CASE want > 0 /\ sockets[s].pbuf = NULL /\ sockets[s].pnc # NULL /\ RecvAndCopy(s, want)
  BY <1>4, RecvAndCopyEffect
<1> QED
  BY <1>2, <1>3, <1>4 DEF ReadData, ReadTcp, Undefined, Return

LEMMA WakeEffect == ASSUME IInv, ReadWakes PROVE \E s \in Sockets : ReceiveEffect(s)
<1>1. wait \in Waits /\ RecvAndCopy(wait.sock, wait.want)
  BY DEF ReadWakes, IInv, WaitInv
<1>2. PICK s \in Sockets, want \in Nat \ {0} : s = wait.sock /\ want = wait.want
  BY <1>1 DEF Waits
<1>3. sockets[s].pbuf = NULL /\ sockets[s].pnc # NULL
  BY <1>2 DEF ReadWakes, IInv, WaitInv
<1> QED
  BY <1>1, <1>2, <1>3, RecvAndCopyEffect

LEMMA AvailEffect == ASSUME IInv, NEW s \in Sockets, AvailData(s) PROVE ReceiveEffect(s)
<1> DEFINE psi == sockets[s]
<1>1. psi \in SocketInfo
  BY DEF IInv, TypeOK
<1>2. CASE UNCHANGED <<sockets, conn>>
  BY <1>2, NoEffect
<1>3. CASE Announce(s, psi) /\ conn' = conn
  BY <1>1, <1>3 DEF Announce, ReceiveEffect
<1>4. ASSUME psi.pnc # NULL, NEW k \in 1 .. conn[psi.pnc].rcvd - conn[psi.pnc].taken,
             conn' = Recv(psi.pnc, k), Announce(s, WithNetbuf(psi, k))
      PROVE  ReceiveEffect(s)
  <2>1. psi.pnc \in Netconns /\ conn \in [Netconns -> ConnInfo]
    BY <1>1, <1>4 DEF SocketInfo, IInv, TypeOK
  <2>2. k \in Nat \ {0}
    BY <1>4, <2>1 DEF ConnInfo
  <2> DEFINE new == WithNetbuf(psi, k)
  <2>3. /\ new \in SocketInfo /\ new.type = psi.type /\ new.state = psi.state
        /\ new.pnc = psi.pnc
    BY <1>1, <2>1, <2>2, NetbufFields
  <2>4. new.nagle_enabled = psi.nagle_enabled /\ sockets' = [sockets EXCEPT ![s] = new]
    BY <1>1, <1>4 DEF WithNetbuf, SocketInfo, Announce
  <2> HIDE DEF new
  <2> QED
    BY <1>4, <2>2, <2>3, <2>4 DEF ReceiveEffect
<1> QED
  BY <1>2, <1>3, <1>4 DEF AvailData, AvailTcp, Undefined, Return

LEMMA NoteRecv ==
    ASSUME IInv, NagleNoteTrue, NEW s \in Sockets, ReceiveEffect(s)
    PROVE  NagleNoteTrue'
<1> DEFINE n == sockets[s].pnc
<1>1. PICK psi \in SocketInfo :
        /\ sockets' = [sockets EXCEPT ![s] = psi]
        /\ psi.type = sockets[s].type /\ psi.state = sockets[s].state
        /\ psi.pnc = n /\ psi.nagle_enabled = sockets[s].nagle_enabled
        /\ \/ conn' = conn
           \/ n # NULL /\ \E k \in Nat : conn' = Recv(n, k)
  BY DEF ReceiveEffect
<1>2. /\ sockets'[s] = psi /\ \A t \in Sockets \ {s} : sockets'[t] = sockets[t]
      /\ n # NULL => n \in Netconns /\ conn[n] \in ConnInfo
  BY <1>1 DEF IInv, TypeOK, SocketInfo
<1>3. /\ \A m \in Netconns : m # n => conn'[m] = conn[m]
      /\ conn'[n].nagle = conn[n].nagle /\ conn'[n].wrote = conn[n].wrote
      /\ conn'[n].pcb = conn[n].pcb
  <2>1. CASE conn' = conn
    BY <2>1
  <2>2. ASSUME n # NULL, NEW k \in Nat, conn' = Recv(n, k)
        PROVE  /\ \A m \in Netconns : m # n => conn'[m] = conn[m]
               /\ conn'[n].nagle = conn[n].nagle /\ conn'[n].wrote = conn[n].wrote
               /\ conn'[n].pcb = conn[n].pcb
    <3>1. /\ conn'[n] = [conn[n] EXCEPT !.taken = @ + k]
          /\ \A m \in Netconns : m # n => conn'[m] = conn[m]
      BY <1>2, <2>2 DEF Recv, IInv, TypeOK
    <3> QED
      BY <1>2, <2>2, <3>1 DEF ConnInfo
  <2> QED
    BY <1>1, <2>1, <2>2
<1>4. SameNote(sockets[s], sockets'[s], conn[n], conn'[n])
  BY <1>1, <1>2, <1>3 DEF SameNote
<1> QED
  BY <1>1, <1>2, <1>3, <1>4, NoteOneSlot

LEMMA NoteStop ==
    ASSUME IInv, NagleNoteTrue, NEW s \in Sockets, StopSocket(s)
    PROVE  NagleNoteTrue'
<1>1. sockets[s] \in SocketInfo
  BY DEF IInv, TypeOK
<1>2. /\ sockets'[s] = Teardown(sockets[s])
      /\ \A t \in Sockets \ {s} : sockets'[t] = sockets[t]
      /\ \A n \in Netconns : n # sockets[s].pnc => conn'[n] = conn[n]
  BY DEF StopSocket, Delete, Deleted, IInv, TypeOK
<1>3. sockets'[s].pnc # sockets[s].pnc => sockets'[s].pnc = NULL
  BY <1>1, <1>2, TeardownFields
<1>4. Noted(sockets'[s], conn')
  BY <1>2, TornDownNoted
<1> QED
  BY <1>2, <1>3, <1>4, NoteOneSlot

\* A new netconn starts with Nagle on and nothing written, which agrees with
\* either note the slot may have kept.
LEMMA NoteConnect ==
    ASSUME IInv, NagleNoteTrue, NEW s \in Sockets, NEW mode \in Modes, SocketConnect(s, mode)
    PROVE  NagleNoteTrue'
<1>1. sockets \in [Sockets -> SocketInfo] /\ conn \in [Netconns -> ConnInfo]
  BY DEF IInv, TypeOK
<1>2. CASE ConnectRejected(s)
  BY <1>2, NoteUnchanged DEF ConnectRejected, Return
<1>3. CASE ConnectUnsupported(s, mode)
  <2>1. /\ sockets'[s].type # "TCP" /\ sockets'[s].pnc = sockets[s].pnc /\ conn' = conn
        /\ \A t \in Sockets \ {s} : sockets'[t] = sockets[t]
    BY <1>1, <1>3 DEF ConnectUnsupported, SocketInfo
  <2> QED
    BY <2>1, NoteOneSlot DEF Noted, InUse
<1>4. CASE TcpConnect(s)
  <2>1. CASE /\ sockets' = [sockets EXCEPT ![s].type = "TCP", ![s].pnc = NULL]
             /\ UNCHANGED conn
    <3>1. /\ sockets'[s].pnc = NULL /\ conn' = conn
          /\ \A t \in Sockets \ {s} : sockets'[t] = sockets[t]
      BY <1>1, <2>1 DEF SocketInfo
    <3> QED
      BY <3>1, NoteOneSlot DEF Noted
  <2>2. ASSUME NEW n \in Netconns, conn[n].st = "free",
               NEW state \in SlotStates,
               sockets' = [sockets EXCEPT ![s] = Connecting(@, n, state)],
               NEW c, c.nagle, ~c.wrote, conn' = [conn EXCEPT ![n] = c]
        PROVE  NagleNoteTrue'
    <3>1. sockets[s] \in SocketInfo /\ Connecting(sockets[s], n, state).pnc = n
      BY <1>1 DEF Connecting, SocketInfo
    <3>2. /\ sockets'[s].pnc = n
          /\ \A t \in Sockets \ {s} : sockets'[t] = sockets[t]
      BY <1>1, <2>2, <3>1
    <3>3. /\ conn'[n] = c
          /\ \A m \in Netconns : m # n => conn'[m] = conn[m]
      BY <1>1, <2>2
    <3>4. Noted(sockets'[s], conn')
      BY <2>2, <3>2, <3>3 DEF Noted, NoteTrue
    <3> QED
      BY <2>2, <3>2, <3>3, <3>4, NoteOneSlot
  <2>3. /\ OpenConn.nagle /\ ~OpenConn.wrote
        /\ \A hasPcb \in BOOLEAN : FailedConn(hasPcb).nagle /\ ~FailedConn(hasPcb).wrote
    BY DEF OpenConn, FailedConn, FreeConn
  <2>4. CLOSED \in SlotStates /\ ESTABLISHED \in SlotStates
    BY DEF SlotStates
  <2> QED
    BY <1>4, <2>1, <2>2, <2>3, <2>4 DEF TcpConnect
<1> QED
  BY <1>2, <1>3, <1>4 DEF SocketConnect

\* A write leaves the note on, with Nagle on whether it was or not; a flush
\* leaves both off.
LEMMA NoteWritten ==
    ASSUME IInv, NagleNoteTrue, NEW s \in Sockets, sockets[s].pnc # NULL,
           NEW on \in BOOLEAN, NEW c,
           c.pcb = conn[sockets[s].pnc].pcb,
           on => (c.nagle <=> conn[sockets[s].pnc].nagle \/ ~sockets[s].nagle_enabled),
           ~on => ~c.nagle,
           sockets' = [sockets EXCEPT ![s] = Note(@, on)],
           conn' = [conn EXCEPT ![sockets[s].pnc] = c]
    PROVE  NagleNoteTrue'
<1> DEFINE psi == sockets[s]
           n == psi.pnc
<1>1. psi \in SocketInfo /\ n \in Netconns /\ Noted(psi, conn)
  BY NagleNoteIs DEF IInv, TypeOK, SocketInfo
<1>2. /\ sockets'[s] = Note(psi, on)
      /\ \A t \in Sockets \ {s} : sockets'[t] = sockets[t]
      /\ conn'[n] = c
      /\ \A m \in Netconns : m # n => conn'[m] = conn[m]
  BY <1>1 DEF IInv, TypeOK
<1>3. /\ sockets'[s].pnc = n /\ sockets'[s].type = psi.type
      /\ sockets'[s].state = psi.state /\ sockets'[s].nagle_enabled = on
  BY <1>1, <1>2 DEF Note, SocketInfo
<1>4. Noted(sockets'[s], conn')
  BY <1>1, <1>2, <1>3 DEF Noted, NoteTrue, InUse
<1> QED
  BY <1>2, <1>3, <1>4, NoteOneSlot

LEMMA NoteSend ==
    ASSUME IInv, NagleNoteTrue, NEW s \in Sockets, SendData(s)
    PROVE  NagleNoteTrue'
<1> DEFINE psi == sockets[s]
           n == psi.pnc
<1>1. psi \in SocketInfo /\ conn \in [Netconns -> ConnInfo]
  BY DEF IInv, TypeOK
<1>2. CASE UNCHANGED <<sockets, conn>>
  BY <1>2, NoteUnchanged
<1>3. ASSUME n # NULL, sockets' = [sockets EXCEPT ![s] = Note(@, TRUE)], NEW ok \in BOOLEAN,
             conn' = [conn EXCEPT ![n].nagle = @ \/ ~psi.nagle_enabled, ![n].wrote = @ \/ ok]
      PROVE  NagleNoteTrue'
  <2> DEFINE c == [conn[n] EXCEPT !.nagle = @ \/ ~psi.nagle_enabled, !.wrote = @ \/ ok]
  <2>1. n \in Netconns /\ conn[n] \in ConnInfo
    BY <1>1, <1>3 DEF SocketInfo
  <2>2. /\ c.pcb = conn[n].pcb
        /\ c.nagle <=> conn[n].nagle \/ ~psi.nagle_enabled
    BY <2>1 DEF ConnInfo
  <2>3. conn' = [conn EXCEPT ![n] = c]
    BY <1>1, <1>3, <2>1
  <2> HIDE DEF c
  <2> QED
    BY <1>3, <2>2, <2>3, NoteWritten
<1> QED
  BY <1>2, <1>3 DEF SendData, SendTcp, Undefined, Return

LEMMA NoteFlush ==
    ASSUME IInv, NagleNoteTrue, NEW s \in Sockets, WriteFlush(s)
    PROVE  NagleNoteTrue'
<1> DEFINE psi == sockets[s]
           n == psi.pnc
<1>1. psi \in SocketInfo /\ conn \in [Netconns -> ConnInfo]
  BY DEF IInv, TypeOK
<1>2. CASE UNCHANGED <<sockets, conn>>
  BY <1>2, NoteUnchanged
<1>3. ASSUME HasPcb(n), sockets' = [sockets EXCEPT ![s] = Note(@, FALSE)],
             conn' = [conn EXCEPT ![n].nagle = FALSE]
      PROVE  NagleNoteTrue'
  <2> DEFINE c == [conn[n] EXCEPT !.nagle = FALSE]
  <2>1. n # NULL /\ n \in Netconns /\ conn[n] \in ConnInfo
    BY <1>1, <1>3 DEF SocketInfo, HasPcb
  <2>2. c.pcb = conn[n].pcb /\ ~c.nagle
    BY <2>1 DEF ConnInfo
  <2>3. conn' = [conn EXCEPT ![n] = c]
    BY <1>1, <1>3, <2>1
  <2> HIDE DEF c
  <2> QED
    BY <1>3, <2>1, <2>2, <2>3, NoteWritten
<1> QED
  BY <1>2, <1>3 DEF WriteFlush, Undefined, Return

LEMMA NotePeer ==
    ASSUME IInv, NagleNoteTrue, NEW n \in Netconns, Peer(n)
    PROVE  NagleNoteTrue'
<1>1. conn \in [Netconns -> ConnInfo] /\ conn[n] \in ConnInfo /\ sockets' = sockets
  BY DEF IInv, TypeOK, Peer, PeerSend, PeerClose, PeerReset
<1>2. \A m \in Netconns : m # n => conn'[m] = conn[m]
  BY <1>1 DEF Peer, PeerSend, PeerClose, PeerReset
<1>3. /\ conn'[n].nagle = conn[n].nagle /\ conn'[n].wrote = conn[n].wrote
      /\ conn'[n].pcb => conn[n].pcb
  <2>1. CASE PeerSend(n)
    BY <1>1, <2>1 DEF PeerSend, ConnInfo
  <2>2. CASE PeerClose(n)
    BY <1>1, <2>2 DEF PeerClose, ConnInfo
  <2>3. CASE PeerReset(n)
    BY <1>1, <2>3 DEF PeerReset, ConnInfo
  <2> QED
    BY <2>1, <2>2, <2>3 DEF Peer
<1>4. ASSUME NEW s \in Sockets
      PROVE  \/ Noted(sockets'[s], conn')
             \/ SameNote(sockets[s], sockets'[s], conn[sockets[s].pnc], conn'[sockets[s].pnc])
  <2>1. sockets[s].pnc \in Netconns \cup {NULL}
    BY DEF IInv, TypeOK, SocketInfo
  <2> QED
    BY <1>1, <1>2, <1>3, <2>1 DEF SameNote, Noted
<1> QED
  BY <1>4, NoteKept

LEMMA NextNagleNote == IInv /\ NagleNoteTrue /\ [Next]_vars => NagleNoteTrue'
<1> SUFFICES ASSUME IInv, NagleNoteTrue, [Next]_vars PROVE NagleNoteTrue'
  OBVIOUS
<1>1. CASE GetSocket
  <2>1. ASSUME NEW s \in Unallocated, sockets' = [sockets EXCEPT ![s].type = "IDLE"], conn' = conn
        PROVE  NagleNoteTrue'
    <3>1. s \in Sockets /\ sockets[s] \in SocketInfo
      BY DEF Unallocated, IInv, TypeOK
    <3>2. /\ sockets'[s].type = "IDLE" /\ sockets'[s].pnc = sockets[s].pnc
          /\ \A t \in Sockets \ {s} : sockets'[t] = sockets[t]
      BY <2>1, <3>1 DEF IInv, TypeOK, SocketInfo
    <3> QED
      BY <2>1, <3>1, <3>2, NoteOneSlot DEF Noted, InUse
  <2> QED
    BY <1>1, <2>1, NoteUnchanged DEF GetSocket, Return
<1>2. CASE WifiReset \/ Reboot
  BY <1>2, NoteReset
<1>3. CASE ReadWakes
  BY <1>3, WakeEffect, NoteRecv
<1>4. ASSUME NEW s \in Sockets, Call(s)
      PROVE  NagleNoteTrue'
  <2>1. CASE StopSocket(s)
    BY <2>1, NoteStop
  <2>2. ASSUME NEW mode \in Modes, SocketConnect(s, mode)
        PROVE  NagleNoteTrue'
    BY <2>2, NoteConnect
  <2>3. CASE GetSocketState(s)
    BY <2>3, NoteUnchanged DEF GetSocketState, Return
  <2>4. CASE AvailData(s)
    BY <2>4, AvailEffect, NoteRecv
  <2>5. ASSUME NEW want \in ReadSizes, ReadData(s, want)
        PROVE  NagleNoteTrue'
    BY <2>5, ReadSizesAssumption, ReadEffect, NoteRecv
  <2>6. CASE SendData(s)
    BY <2>6, NoteSend
  <2>7. CASE WriteFlush(s)
    BY <2>7, NoteFlush
  <2> QED
    BY <1>4, <2>1, <2>2, <2>3, <2>4, <2>5, <2>6, <2>7 DEF Call
<1>5. ASSUME NEW n \in Netconns, Peer(n)
      PROVE  NagleNoteTrue'
  BY <1>5, NotePeer
<1>6. CASE UNCHANGED vars
  BY <1>6, NoteUnchanged DEF vars
<1> QED
  BY <1>1, <1>2, <1>3, <1>4, <1>5, <1>6 DEF Next

LEMMA InitNagleNote == Init => NagleNoteTrue
  BY DEF Init, NagleNoteTrue, Connected, EmptySlot

\* The firmware's note about Nagle is true of every connected slot's pcb, also
\* when an earlier connection of the slot has left it behind.
THEOREM NagleNoteIsTrue == Spec => []NagleNoteTrue
  BY IInvariant, InitNagleNote, NextNagleNote, PTL DEF Spec

\* A flush that finds the connection alive leaves nothing it has written held
\* back by Nagle: either it turned Nagle off, or the note told it truly that
\* there was nothing to turn off.
THEOREM FlushesRelease == Spec => FlushReleasesWrites
<1>1. ASSUME IInv, NagleNoteTrue, NEW s \in Sockets,
             WriteFlush(s), Connected(s), fw' = "up", conn[sockets[s].pnc].pcb
      PROVE  ~(conn[sockets[s].pnc].wrote /\ conn'[sockets[s].pnc].nagle)
  <2> DEFINE psi == sockets[s]
             n == psi.pnc
  <2>1. n \in Netconns /\ conn \in [Netconns -> ConnInfo] /\ conn[n] \in ConnInfo
    BY <1>1 DEF IInv, TypeOK, SocketInfo, Connected
  <2>2. CASE ~psi.nagle_enabled /\ conn' = conn
    BY <1>1, <2>2 DEF NagleNoteTrue
  <2>3. CASE conn' = [conn EXCEPT ![n].nagle = FALSE]
    <3>1. ~conn'[n].nagle
      BY <2>1, <2>3 DEF ConnInfo
    <3> QED
      BY <3>1
  <2> QED
    BY <1>1, <2>2, <2>3 DEF WriteFlush, Connected, Return, Undefined
<1>2. IInv /\ NagleNoteTrue =>
        [\A s \in Sockets :
            WriteFlush(s) /\ Connected(s) /\ fw' = "up" /\ conn[sockets[s].pnc].pcb
              => ~(conn[sockets[s].pnc].wrote /\ conn'[sockets[s].pnc].nagle)]_vars
  BY <1>1
<1> QED
  BY <1>2, IInvariant, NagleNoteIsTrue, PTL DEF FlushReleasesWrites

-----------------------------------------------------------------------------
(* Null pointers.  Undefined behaviour needs a TCP slot without a usable pcb:  *)
(* either its netconn failed or was reset, or netconn_new found the pool empty. *)
(* With a netconn for every slot the pool is only empty when a connect has      *)
(* failed, since a failed netconn is the only kind no slot gives back.          *)

\* lwIP's pool holds a netconn for every slot: a setting of the board's lwIP build.
EnoughNetconns == IsFiniteSet(Netconns) /\ Cardinality(Netconns) >= MaxSockets

FaultInv ==
    /\ \A n \in Netconns : conn[n].st \in {"open", "fin"} => conn[n].pcb
    /\ \A s \in Sockets :
         sockets[s].type = "TCP" /\ sockets[s].pnc = NULL => \E n \in Netconns : conn[n].st = "failed"
    /\ UndefinedOnlyAfterFault

\* The pool is empty and a slot is idle: some netconn is one whose connect failed.
LEMMA EmptyPool ==
    ASSUME EnoughNetconns, IInv, NEW s \in Sockets, sockets[s].type # "TCP",
           \A n \in Netconns : conn[n].st # "free"
    PROVE  \E n \in Netconns : conn[n].st = "failed"
<1> SUFFICES ASSUME \A n \in Netconns : conn[n].st # "failed" PROVE FALSE
  OBVIOUS
<1> DEFINE others == Sockets \ {s}
           owner == [n \in Netconns |-> CHOOSE t \in Sockets : Owns(t, n)]
<1>1. ASSUME NEW n \in Netconns
      PROVE  owner[n] \in others /\ Owns(owner[n], n)
  <2>1. Live(n)
    BY DEF IInv, TypeOK, ConnInfo, Live
  <2>2. PICK t \in Sockets : Owns(t, n)
    BY <2>1 DEF IInv, SlotsInv
  <2>3. owner[n] \in Sockets /\ Owns(owner[n], n)
    BY <2>2
  <2>4. n # NULL
    BY NULLAssumption
  <2>5. owner[n] # s
    BY <2>1, <2>3, <2>4, IdleSlot DEF Owns
  <2> QED
    BY <2>3, <2>5
<1>2. owner \in [Netconns -> others]
  BY <1>1
<1>3. IsFiniteSet(others) /\ Cardinality(others) = MaxSockets - 1
  <2>1. IsFiniteSet(Sockets) /\ Cardinality(Sockets) = MaxSockets
    BY MaxSocketsAssumption, FS_Interval DEF Sockets
  <2> QED
    BY <2>1, FS_RemoveElement
<1>4. Cardinality(others) < Cardinality(Netconns)
  BY <1>3, MaxSocketsAssumption, FS_CardinalityType DEF EnoughNetconns
<1> HIDE DEF owner, others
<1>5. PICK m, n \in Netconns : m # n /\ owner[m] = owner[n]
  BY <1>2, <1>3, <1>4, FS_PigeonHole DEF EnoughNetconns
<1> QED
  BY <1>1, <1>5 DEF Owns

\* What a step does to a slot and to the netconns, as far as faults go.
LEMMA FaultKept ==
    ASSUME FaultInv, fw' = "undefined" => fw = "undefined",
           \A n \in Netconns :
               /\ conn'[n].st \in {"open", "fin"} => conn'[n].pcb
               /\ conn[n].st = "failed" => conn'[n].st = "failed",
           fw' = "undefined" =>
               \A n \in Netconns : conn[n].st = "rst" => conn'[n].st = "rst",
           \A s \in Sockets :
               sockets'[s].type = "TCP" /\ sockets'[s].pnc = NULL =>
                   \/ sockets[s].type = "TCP" /\ sockets[s].pnc = NULL
                   \/ \E n \in Netconns : conn[n].st = "failed"
    PROVE  FaultInv'
  BY DEF FaultInv, UndefinedOnlyAfterFault

LEMMA UndefinedFault ==
    ASSUME IInv, FaultInv, NEW s \in Sockets,
           sockets[s].type = "TCP", ~HasPcb(sockets[s].pnc), Undefined
    PROVE  FaultInv'
<1> DEFINE n == sockets[s].pnc
<1>1. /\ n \in Netconns \cup {NULL} /\ conn \in [Netconns -> ConnInfo]
      /\ n # NULL => conn[n].st # "free"
  BY DEF IInv, TypeOK, SocketInfo, SlotsInv, SlotInv, PncInv
<1>2. \E m \in Netconns : conn[m].st \in {"failed", "rst"}
  <2>1. CASE n = NULL
    BY <2>1 DEF FaultInv
  <2>2. CASE n # NULL
    <3>1. n \in Netconns /\ conn[n] \in ConnInfo /\ ~conn[n].pcb
      BY <1>1, <2>2 DEF HasPcb
    <3>2. conn[n].st \in {"failed", "rst"}
      BY <1>1, <2>2, <3>1 DEF FaultInv, ConnInfo
    <3> QED
      BY <3>1, <3>2
  <2> QED
    BY <2>1, <2>2
<1>3. sockets' = sockets /\ conn' = conn
  BY DEF Undefined
<1> QED
  BY <1>2, <1>3 DEF FaultInv, UndefinedOnlyAfterFault

\* A step of the running loop that leaves the netconns' state and pcb alone and
\* makes no slot a TCP slot without a netconn.
LEMMA FaultQuiet ==
    ASSUME IInv, FaultInv, fw' = "undefined" => fw = "undefined",
           conn' = conn \/ \E n \in Netconns : \E c \in ConnInfo :
               /\ conn' = [conn EXCEPT ![n] = c]
               /\ c.st = conn[n].st /\ c.pcb = conn[n].pcb,
           \A s \in Sockets :
               sockets'[s].type = "TCP" /\ sockets'[s].pnc = NULL =>
                   sockets[s].type = "TCP" /\ sockets[s].pnc = NULL
    PROVE  FaultInv'
<1>1. \A n \in Netconns : conn'[n].st = conn[n].st /\ conn'[n].pcb = conn[n].pcb
  BY DEF IInv, TypeOK
<1>2. \A n \in Netconns : conn'[n].st \in {"open", "fin"} => conn'[n].pcb
  BY <1>1 DEF FaultInv
<1> QED
  BY <1>1, <1>2, FaultKept

LEMMA FaultTeardown ==
    ASSUME IInv, FaultInv, fw' = "up", NEW torn \in SUBSET Sockets,
           \A s \in torn : sockets'[s] = Teardown(sockets[s]),
           \A s \in Sockets \ torn : sockets'[s] = sockets[s],
           conn' = Delete(UNION {Deleted(sockets[s]) : s \in torn})
    PROVE  FaultInv'
<1> DEFINE gone == UNION {Deleted(sockets[s]) : s \in torn}
<1>1. \A n \in Netconns : conn'[n] = IF n \in gone THEN FreeConn ELSE conn[n]
  BY DEF Delete
<1>2. \A n \in gone : conn[n].st # "failed"
  <2> SUFFICES ASSUME NEW s \in torn, NEW n \in Deleted(sockets[s])
               PROVE  conn[n].st # "failed"
    OBVIOUS
  <2>1. n = sockets[s].pnc /\ n # NULL /\ Closes(sockets[s])
    BY DEF Deleted
  <2> QED
    BY <2>1, TornDown
<1>3. \A s \in Sockets : sockets'[s].type = "TCP" => sockets'[s] = sockets[s]
  BY TeardownFields DEF IInv, TypeOK
<1> HIDE DEF gone
<1>4. \A n \in Netconns : /\ conn'[n].st \in {"open", "fin"} => conn'[n].pcb
                          /\ conn[n].st = "failed" => conn'[n].st = "failed"
  BY <1>1, <1>2, FreeConnType DEF FaultInv
<1> QED
  BY <1>3, <1>4, FaultKept

LEMMA FaultConnect ==
    ASSUME EnoughNetconns, IInv, FaultInv, NEW s \in Sockets, NEW mode \in Modes,
           SocketConnect(s, mode)
    PROVE  FaultInv'
<1>1. /\ sockets \in [Sockets -> SocketInfo] /\ conn \in [Netconns -> ConnInfo]
      /\ fw' = "up"
  BY DEF IInv, TypeOK, SocketConnect, ConnectRejected, ConnectUnsupported, TcpConnect, Return
<1>2. CASE UNCHANGED <<sockets, conn>>
  BY <1>1, <1>2, FaultQuiet
<1>3. CASE ConnectUnsupported(s, mode)
  <2>1. \A t \in Sockets : sockets'[t].type = "TCP" => sockets'[t] = sockets[t]
    BY <1>1, <1>3 DEF ConnectUnsupported, SocketInfo
  <2> QED
    BY <1>1, <1>3, <2>1, FaultQuiet DEF ConnectUnsupported
<1>4. CASE TcpConnect(s)
  <2>1. sockets[s].type # "TCP"
    BY <1>4 DEF TcpConnect
  <2>2. CASE /\ \A n \in Netconns : conn[n].st # "free"
             /\ conn' = conn
    <3>1. \E n \in Netconns : conn[n].st = "failed"
      BY <2>1, <2>2, EmptyPool
    <3>2. \A n \in Netconns : conn'[n].st \in {"open", "fin"} => conn'[n].pcb
      BY <2>2 DEF FaultInv
    <3> QED
      BY <1>1, <2>2, <3>1, <3>2, FaultKept
  <2>3. ASSUME NEW n \in Netconns, conn[n].st = "free", NEW state \in SlotStates,
               sockets' = [sockets EXCEPT ![s] = Connecting(@, n, state)],
               NEW c, c.st \in {"open", "fin"} => c.pcb, conn' = [conn EXCEPT ![n] = c]
        PROVE  FaultInv'
    <3>1. n # NULL /\ Connecting(sockets[s], n, state).pnc = n
      BY <1>1, NULLAssumption DEF Connecting, SocketInfo
    <3>2. /\ sockets'[s].pnc # NULL
          /\ \A t \in Sockets \ {s} : sockets'[t] = sockets[t]
      BY <1>1, <2>3, <3>1
    <3>3. /\ conn'[n] = c
          /\ \A m \in Netconns : m # n => conn'[m] = conn[m]
      BY <1>1, <2>3
    <3>4. \A m \in Netconns : /\ conn'[m].st \in {"open", "fin"} => conn'[m].pcb
                              /\ conn[m].st = "failed" => conn'[m].st = "failed"
      BY <2>3, <3>3 DEF FaultInv
    <3> QED
      BY <1>1, <3>2, <3>4, FaultKept
  <2>4. /\ OpenConn.pcb
        /\ \A hasPcb \in BOOLEAN : FailedConn(hasPcb).st = "failed"
    BY DEF OpenConn, FailedConn, FreeConn
  <2>5. CLOSED \in SlotStates /\ ESTABLISHED \in SlotStates
    BY DEF SlotStates
  <2> QED
    BY <1>4, <2>2, <2>3, <2>4, <2>5 DEF TcpConnect
<1> QED
  BY <1>2, <1>3, <1>4 DEF SocketConnect, ConnectRejected, Return

LEMMA FaultReceive ==
    ASSUME IInv, FaultInv, NEW s \in Sockets, ReceiveEffect(s), fw' = "undefined" => fw = "undefined"
    PROVE  FaultInv'
<1> DEFINE n == sockets[s].pnc
<1>1. PICK psi \in SocketInfo :
        /\ sockets' = [sockets EXCEPT ![s] = psi]
        /\ psi.type = sockets[s].type /\ psi.pnc = n
        /\ \/ conn' = conn
           \/ n # NULL /\ \E k \in Nat : conn' = Recv(n, k)
  BY DEF ReceiveEffect
<1>2. \A t \in Sockets : sockets'[t].type = sockets[t].type /\ sockets'[t].pnc = sockets[t].pnc
  BY <1>1 DEF IInv, TypeOK
<1>3. ASSUME n # NULL, NEW k \in Nat, conn' = Recv(n, k)
      PROVE  \E m \in Netconns : \E c \in ConnInfo :
                 /\ conn' = [conn EXCEPT ![m] = c]
                 /\ c.st = conn[m].st /\ c.pcb = conn[m].pcb
  <2> DEFINE c == [conn[n] EXCEPT !.taken = @ + k]
  <2>1. n \in Netconns /\ conn \in [Netconns -> ConnInfo] /\ conn[n] \in ConnInfo
    BY <1>3 DEF IInv, TypeOK, SocketInfo
  <2>2. c \in ConnInfo /\ c.st = conn[n].st /\ c.pcb = conn[n].pcb
    BY <2>1 DEF ConnInfo
  <2>3. conn' = [conn EXCEPT ![n] = c]
    BY <1>3, <2>1 DEF Recv
  <2> HIDE DEF c
  <2> QED
    BY <2>1, <2>2, <2>3
<1> QED
  BY <1>1, <1>2, <1>3, FaultQuiet

LEMMA FaultNoted ==
    ASSUME IInv, FaultInv, NEW s \in Sockets, sockets[s].pnc # NULL,
           fw' = fw, NEW on, sockets' = [sockets EXCEPT ![s] = Note(@, on)],
           NEW c \in ConnInfo, c.st = conn[sockets[s].pnc].st, c.pcb = conn[sockets[s].pnc].pcb,
           conn' = [conn EXCEPT ![sockets[s].pnc] = c]
    PROVE  FaultInv'
<1>1. sockets[s] \in SocketInfo /\ sockets[s].pnc \in Netconns
  BY DEF IInv, TypeOK, SocketInfo
<1>2. /\ sockets'[s] = Note(sockets[s], on)
      /\ \A t \in Sockets \ {s} : sockets'[t] = sockets[t]
  BY DEF IInv, TypeOK
<1>3. sockets'[s].pnc = sockets[s].pnc
  BY <1>1, <1>2 DEF Note, SocketInfo
<1>4. \A t \in Sockets : sockets'[t].type = "TCP" /\ sockets'[t].pnc = NULL =>
                             sockets[t].type = "TCP" /\ sockets[t].pnc = NULL
  BY <1>2, <1>3
<1> QED
  BY <1>1, <1>4, FaultQuiet

LEMMA FaultSend == ASSUME IInv, FaultInv, NEW s \in Sockets, SendData(s) PROVE FaultInv'
<1> DEFINE psi == sockets[s]
           n == psi.pnc
<1>1. psi \in SocketInfo /\ conn \in [Netconns -> ConnInfo] /\ fw = "up"
  BY DEF IInv, TypeOK, SendData
<1>2. CASE Return("E_INTERNAL", 0)
  BY <1>1, <1>2, FaultQuiet DEF Return
<1>3. CASE psi.type = "TCP" /\ ~HasPcb(n) /\ Undefined
  BY <1>3, UndefinedFault
<1>4. ASSUME n # NULL, sockets' = [sockets EXCEPT ![s] = Note(@, TRUE)], NEW ok \in BOOLEAN,
             conn' = [conn EXCEPT ![n].nagle = @ \/ ~psi.nagle_enabled, ![n].wrote = @ \/ ok],
             fw' = fw
      PROVE  FaultInv'
  <2> DEFINE c == [conn[n] EXCEPT !.nagle = @ \/ ~psi.nagle_enabled, !.wrote = @ \/ ok]
  <2>1. n \in Netconns /\ conn[n] \in ConnInfo
    BY <1>1, <1>4 DEF SocketInfo
  <2>2. c \in ConnInfo /\ c.pcb = conn[n].pcb /\ c.st = conn[n].st
    BY <2>1 DEF ConnInfo
  <2>3. conn' = [conn EXCEPT ![n] = c]
    BY <1>1, <1>4, <2>1
  <2> HIDE DEF c
  <2> QED
    BY <1>4, <2>2, <2>3, FaultNoted
<1> QED
  BY <1>2, <1>3, <1>4 DEF SendData, SendTcp, HasPcb

LEMMA FaultFlush == ASSUME IInv, FaultInv, NEW s \in Sockets, WriteFlush(s) PROVE FaultInv'
<1> DEFINE psi == sockets[s]
           n == psi.pnc
<1>1. psi \in SocketInfo /\ conn \in [Netconns -> ConnInfo] /\ fw = "up"
  BY DEF IInv, TypeOK, WriteFlush
<1>2. CASE Return("E_INTERNAL", 0)
  BY <1>1, <1>2, FaultQuiet DEF Return
<1>3. CASE psi.type = "TCP" /\ ~HasPcb(n) /\ Undefined
  BY <1>3, UndefinedFault
<1>4. ASSUME HasPcb(n), sockets' = [sockets EXCEPT ![s] = Note(@, FALSE)],
             conn' = [conn EXCEPT ![n].nagle = FALSE], fw' = fw
      PROVE  FaultInv'
  <2> DEFINE c == [conn[n] EXCEPT !.nagle = FALSE]
  <2>1. n # NULL /\ n \in Netconns /\ conn[n] \in ConnInfo
    BY <1>1, <1>4 DEF SocketInfo, HasPcb
  <2>2. c \in ConnInfo /\ c.pcb = conn[n].pcb /\ c.st = conn[n].st
    BY <2>1 DEF ConnInfo
  <2>3. conn' = [conn EXCEPT ![n] = c]
    BY <1>1, <1>4, <2>1
  <2> HIDE DEF c
  <2> QED
    BY <1>4, <2>1, <2>2, <2>3, FaultNoted
<1> QED
  BY <1>2, <1>3, <1>4 DEF WriteFlush

LEMMA FaultPeer == ASSUME IInv, FaultInv, NEW n \in Netconns, Peer(n) PROVE FaultInv'
<1>1. /\ conn \in [Netconns -> ConnInfo] /\ conn[n] \in ConnInfo
      /\ sockets' = sockets /\ fw' = fw
  BY DEF IInv, TypeOK, Peer, PeerSend, PeerClose, PeerReset
<1>2. \A m \in Netconns : m # n => conn'[m] = conn[m]
  BY <1>1 DEF Peer, PeerSend, PeerClose, PeerReset
<1>3. /\ conn[n].st \in {"open", "fin"}
      /\ \/ conn'[n].st \in {"open", "fin"} /\ conn'[n].pcb = conn[n].pcb
         \/ conn'[n].st = "rst"
  <2>1. CASE PeerSend(n)
    BY <1>1, <2>1 DEF PeerSend, ConnInfo
  <2>2. CASE PeerClose(n)
    BY <1>1, <2>2 DEF PeerClose, ConnInfo
  <2>3. CASE PeerReset(n)
    BY <1>1, <2>3 DEF PeerReset, ConnInfo
  <2> QED
    BY <2>1, <2>2, <2>3 DEF Peer
<1>4. \A m \in Netconns :
        /\ conn'[m].st \in {"open", "fin"} => conn'[m].pcb
        /\ conn[m].st = "failed" => conn'[m].st = "failed"
        /\ conn[m].st = "rst" => conn'[m].st = "rst"
  BY <1>2, <1>3 DEF FaultInv
<1> QED
  BY <1>1, <1>4, FaultKept

LEMMA NextFault ==
    ASSUME EnoughNetconns, IInv, FaultInv, [Next]_vars
    PROVE  FaultInv'
<1>1. CASE GetSocket
  <2>1. \A t \in Sockets : sockets'[t].type = "TCP" => sockets'[t] = sockets[t]
    BY <1>1 DEF GetSocket, Return, IInv, TypeOK, SocketInfo
  <2> QED
    BY <1>1, <2>1, FaultQuiet DEF GetSocket, Return
<1>2. CASE WifiReset
  BY <1>2, FaultTeardown DEF WifiReset, ResetSockets
<1>3. CASE Reboot
  <2>1. /\ \A n \in Netconns : conn'[n].st = "free"
        /\ \A s \in Sockets : sockets'[s].type = "UNALLOCATED"
        /\ fw' = "up"
    BY <1>3 DEF Reboot, FreeConn, EmptySlot
  <2> QED
    BY <2>1 DEF FaultInv, UndefinedOnlyAfterFault
<1>4. CASE ReadWakes
  BY <1>4, WakeEffect, FaultReceive DEF ReadWakes
<1>5. ASSUME NEW s \in Sockets, Call(s)
      PROVE  FaultInv'
  <2>1. CASE StopSocket(s)
    <3>1. \A t \in {s} : sockets'[t] = Teardown(sockets[t])
      BY <2>1 DEF StopSocket, IInv, TypeOK
    <3>2. \A t \in Sockets \ {s} : sockets'[t] = sockets[t]
      BY <2>1 DEF StopSocket, IInv, TypeOK
    <3>3. conn' = Delete(UNION {Deleted(sockets[t]) : t \in {s}}) /\ fw' = "up"
      BY <2>1 DEF StopSocket
    <3> QED
      BY <3>1, <3>2, <3>3, FaultTeardown
  <2>2. ASSUME NEW mode \in Modes, SocketConnect(s, mode)
        PROVE  FaultInv'
    BY <2>2, FaultConnect
  <2>3. CASE GetSocketState(s)
    BY <2>3, FaultQuiet DEF GetSocketState, Return
  <2>4. CASE AvailData(s)
    <3>1. CASE Undefined /\ sockets[s].type = "TCP" /\ sockets[s].pnc = NULL
      BY <3>1, UndefinedFault DEF HasPcb
    <3>2. CASE fw' = fw
      BY <2>4, <3>2, AvailEffect, FaultReceive
    <3> QED
      BY <2>4, <3>1, <3>2 DEF AvailData, AvailTcp, Announce, Return
  <2>5. ASSUME NEW want \in ReadSizes, ReadData(s, want)
        PROVE  FaultInv'
    <3>1. CASE Undefined /\ sockets[s].type = "TCP" /\ sockets[s].pnc = NULL
      BY <3>1, UndefinedFault DEF HasPcb
    <3>2. CASE fw' # "undefined"
      BY <2>5, <3>2, ReadSizesAssumption, ReadEffect, FaultReceive
    <3>3. fw = "up"
      BY <2>5 DEF ReadData
    <3> QED
      BY <2>5, <3>1, <3>2, <3>3 DEF ReadData, ReadTcp, Return
  <2>6. CASE SendData(s)
    BY <2>6, FaultSend
  <2>7. CASE WriteFlush(s)
    BY <2>7, FaultFlush
  <2> QED
    BY <1>5, <2>1, <2>2, <2>3, <2>4, <2>5, <2>6, <2>7 DEF Call
<1>6. ASSUME NEW n \in Netconns, Peer(n)
      PROVE  FaultInv'
  BY <1>6, FaultPeer
<1>7. CASE UNCHANGED vars
  BY <1>7 DEF vars, FaultInv, UndefinedOnlyAfterFault
<1> QED
  BY <1>1, <1>2, <1>3, <1>4, <1>5, <1>6, <1>7 DEF Next

\* With a netconn for every slot, only a reset by the peer or a failed connect
\* ever leads the firmware to a null pointer.
THEOREM NullPointersNeedFault ==
    ASSUME EnoughNetconns
    PROVE  Spec => []UndefinedOnlyAfterFault
<1>1. Init => FaultInv
  BY DEF Init, FaultInv, UndefinedOnlyAfterFault, FreeConn, EmptySlot
<1>2. IInv /\ FaultInv /\ [Next]_vars => FaultInv'
  BY NextFault
<1>3. FaultInv => UndefinedOnlyAfterFault
  BY DEF FaultInv
<1> QED
  BY <1>1, <1>2, <1>3, IInvariant, PTL DEF Spec

-----------------------------------------------------------------------------
(* The table implements SocketService.  What a host sees of a slot are its     *)
(* phase, the bytes that have arrived and the bytes read; a step of the table   *)
(* that changes what is seen of one slot is one step of the service.            *)

PhaseOf(psi) ==
    IF psi.type = "UNALLOCATED" THEN "free"
    ELSE IF psi.type = "IDLE" THEN "reserved"
    ELSE IF psi.type \in Unsupported THEN "stuck"
    ELSE IF InUse(psi) /\ psi.pnc # NULL THEN "connected" ELSE "dead"
ArrivedOf(psi, cf) == IF InUse(psi) /\ psi.pnc # NULL THEN cf[psi.pnc].rcvd ELSE 0
ReadOf(psi, d) == IF InUse(psi) /\ psi.pnc # NULL THEN d ELSE <<>>

\* The refinement mapping, and its value after a step.
phaseBar == [s \in Sockets |-> Phase(s)]
arrivedBar == [s \in Sockets |-> IF Connected(s) THEN conn[sockets[s].pnc].rcvd ELSE 0]
readBar == [s \in Sockets |-> IF Connected(s) THEN delivered[s] ELSE <<>>]

LEMMA Bars ==
    /\ phaseBar = [s \in Sockets |-> PhaseOf(sockets[s])]
    /\ arrivedBar = [s \in Sockets |-> ArrivedOf(sockets[s], conn)]
    /\ readBar = [s \in Sockets |-> ReadOf(sockets[s], delivered[s])]
    /\ phaseBar' = [s \in Sockets |-> PhaseOf(sockets'[s])]
    /\ arrivedBar' = [s \in Sockets |-> ArrivedOf(sockets'[s], conn')]
    /\ readBar' = [s \in Sockets |-> ReadOf(sockets'[s], delivered'[s])]
<1>1. \A s \in Sockets : /\ Phase(s) = PhaseOf(sockets[s])
                         /\ Connected(s) <=> InUse(sockets[s]) /\ sockets[s].pnc # NULL
  BY DEF Phase, PhaseOf, Connected, InUse, Unsupported
<1>2. \A s \in Sockets : /\ Phase(s)' = PhaseOf(sockets'[s])
                         /\ Connected(s)' <=> InUse(sockets'[s]) /\ sockets'[s].pnc # NULL
  BY DEF Phase, PhaseOf, Connected, InUse, Unsupported
<1> QED
  BY <1>1, <1>2 DEF phaseBar, arrivedBar, readBar, ArrivedOf, ReadOf

\* What is seen of a slot before and after a step.
Seen(psi, cf, d) == <<PhaseOf(psi), ArrivedOf(psi, cf), ReadOf(psi, d)>>

\* One slot's part in a step of the service.
Allocated(v, w) == v[1] = "free" /\ w = <<"reserved", v[2], v[3]>>
Settled(v, w) == /\ v[1] = "reserved"
                 /\ \E p \in {"connected", "dead", "stuck"} : w = <<p, v[2], v[3]>>
Arrived(v, w) == v[1] = "connected" /\ w = <<"connected", v[2] + 1, v[3]>>
HasRead(v, w) == /\ v[1] = "connected"
                 /\ \E k \in Len(v[3]) + 1 .. v[2] : w = <<"connected", v[2], Bytes(1, k)>>
Released(v, w) == v[1] # "stuck" /\ w = <<"free", 0, <<>>>>

LEMMA OneSlotSeen ==
    ASSUME NEW s \in Sockets,
           \A t \in Sockets \ {s} : Seen(sockets'[t], conn', delivered'[t])
                                        = Seen(sockets[t], conn, delivered[t]),
           LET v == Seen(sockets[s], conn, delivered[s])
               w == Seen(sockets'[s], conn', delivered'[s])
           IN  w = v \/ Allocated(v, w) \/ Settled(v, w) \/ Arrived(v, w) \/ HasRead(v, w)
                 \/ Released(v, w)
    PROVE  [Service!Next]_(Service!vars)
<1> DEFINE p == phaseBar  a == arrivedBar  r == readBar
           v == Seen(sockets[s], conn, delivered[s])
           w == Seen(sockets'[s], conn', delivered'[s])
<1>1. /\ \A t \in Sockets : /\ p[t] = PhaseOf(sockets[t])
                            /\ a[t] = ArrivedOf(sockets[t], conn)
                            /\ r[t] = ReadOf(sockets[t], delivered[t])
                            /\ p'[t] = PhaseOf(sockets'[t])
                            /\ a'[t] = ArrivedOf(sockets'[t], conn')
                            /\ r'[t] = ReadOf(sockets'[t], delivered'[t])
  BY Bars
<1>2. /\ p = [t \in Sockets |-> p[t]] /\ p' = [t \in Sockets |-> p'[t]]
      /\ a = [t \in Sockets |-> a[t]] /\ a' = [t \in Sockets |-> a'[t]]
      /\ r = [t \in Sockets |-> r[t]] /\ r' = [t \in Sockets |-> r'[t]]
  BY Bars
<1>3. \A t \in Sockets \ {s} : p'[t] = p[t] /\ a'[t] = a[t] /\ r'[t] = r[t]
  BY <1>1 DEF Seen
<1>4. v = <<p[s], a[s], r[s]>> /\ w = <<p'[s], a'[s], r'[s]>>
  BY <1>1 DEF Seen
<1> HIDE DEF p, a, r, v, w
<1>5. CASE w = v
  <2>1. p' = p /\ a' = a /\ r' = r
    BY <1>2, <1>3, <1>4, <1>5
  <2> QED
    BY <2>1 DEF Service!vars, p, a, r, phaseBar, arrivedBar, readBar
<1>6. CASE Allocated(v, w)
  <2>1. p[s] = "free" /\ p' = [p EXCEPT ![s] = "reserved"] /\ a' = a /\ r' = r
    BY <1>2, <1>3, <1>4, <1>6 DEF Allocated
  <2>2. Service!Allocate(s)
    BY <2>1 DEF Service!Allocate, p, a, r, phaseBar, arrivedBar, readBar
  <2> QED
    BY <2>2 DEF Service!Next
<1>7. CASE Settled(v, w)
  <2>1. /\ p[s] = "reserved" /\ a' = a /\ r' = r
        /\ \E q \in {"connected", "dead", "stuck"} : p' = [p EXCEPT ![s] = q]
    BY <1>2, <1>3, <1>4, <1>7 DEF Settled
  <2>2. Service!Settle(s)
    BY <2>1 DEF Service!Settle, p, a, r, phaseBar, arrivedBar, readBar
  <2> QED
    BY <2>2 DEF Service!Next
<1>8. CASE Arrived(v, w)
  <2>1. p[s] = "connected" /\ p' = p /\ a' = [a EXCEPT ![s] = @ + 1] /\ r' = r
    BY <1>2, <1>3, <1>4, <1>8 DEF Arrived
  <2>2. Service!Arrive(s)
    BY <2>1 DEF Service!Arrive, p, a, r, phaseBar, arrivedBar, readBar
  <2> QED
    BY <2>2 DEF Service!Next
<1>9. CASE HasRead(v, w)
  <2>1. \A k : Bytes(1, k) = Service!Upto(k)
    BY DEF Bytes, Service!Upto
  <2>2. /\ p[s] = "connected" /\ p' = p /\ a' = a
        /\ \E k \in Len(r[s]) + 1 .. a[s] : r' = [r EXCEPT ![s] = Bytes(1, k)]
    BY <1>2, <1>3, <1>4, <1>9 DEF HasRead
  <2>3. Service!Read(s)
    BY <2>1, <2>2 DEF Service!Read, p, a, r, phaseBar, arrivedBar, readBar
  <2> QED
    BY <2>3 DEF Service!Next
<1>10. CASE Released(v, w)
  <2>1. /\ p[s] # "stuck"
        /\ p' = [t \in Sockets |-> IF t \in {s} THEN "free" ELSE p[t]]
        /\ a' = [t \in Sockets |-> IF t \in {s} THEN 0 ELSE a[t]]
        /\ r' = [t \in Sockets |-> IF t \in {s} THEN <<>> ELSE r[t]]
    BY <1>2, <1>3, <1>4, <1>10 DEF Released
  <2>2. Service!Release({s})
    BY <2>1 DEF Service!Release, p, a, r, phaseBar, arrivedBar, readBar
  <2> QED
    BY <2>2 DEF Service!Next
<1> QED
  BY <1>5, <1>6, <1>7, <1>8, <1>9, <1>10 DEF v, w

LEMMA Unseen ==
    ASSUME \A t \in Sockets : Seen(sockets'[t], conn', delivered'[t])
                                  = Seen(sockets[t], conn, delivered[t])
    PROVE  [Service!Next]_(Service!vars)
<1>1. 0 \in Sockets
  BY MaxSocketsAssumption DEF Sockets
<1> QED
  BY <1>1, OneSlotSeen

LEMMA SameSeen ==
    ASSUME UNCHANGED <<sockets, conn, delivered>>
    PROVE  [Service!Next]_(Service!vars)
  BY Unseen

\* A step that writes slot s and no netconn another slot points at.
LEMMA SeenElsewhere ==
    ASSUME IInv, NEW s \in Sockets,
           \A t \in Sockets \ {s} : sockets'[t] = sockets[t] /\ delivered'[t] = delivered[t],
           \A n \in Netconns : n # sockets'[s].pnc /\ n # sockets[s].pnc => conn'[n] = conn[n],
           sockets'[s].pnc # sockets[s].pnc /\ sockets'[s].pnc # NULL =>
               conn[sockets'[s].pnc].st = "free"
    PROVE  \A t \in Sockets \ {s} : Seen(sockets'[t], conn', delivered'[t])
                                        = Seen(sockets[t], conn, delivered[t])
<1> SUFFICES ASSUME NEW t \in Sockets, t # s
             PROVE  Seen(sockets'[t], conn', delivered'[t]) = Seen(sockets[t], conn, delivered[t])
  OBVIOUS
<1>1. ASSUME sockets[t].pnc # NULL
      PROVE  conn'[sockets[t].pnc] = conn[sockets[t].pnc]
  <2>1. sockets[t].pnc \in Netconns
    BY <1>1 DEF IInv, TypeOK, SocketInfo
  <2>2. sockets[t].pnc # sockets[s].pnc
    BY <1>1 DEF IInv, SlotsInv, Shared
  <2>3. conn[sockets[t].pnc].st # "free"
    BY <1>1 DEF IInv, SlotsInv, SlotInv, PncInv
  <2> QED
    BY <1>1, <2>1, <2>2, <2>3
<1> QED
  BY <1>1 DEF Seen, ArrivedOf, ReadOf

LEMMA GetSocketServes == IInv /\ GetSocket => [Service!Next]_(Service!vars)
<1> SUFFICES ASSUME IInv, GetSocket PROVE [Service!Next]_(Service!vars)
  OBVIOUS
<1>1. CASE UNCHANGED <<sockets, conn, delivered>>
  BY <1>1, SameSeen
<1>2. ASSUME NEW s \in Unallocated, sockets' = [sockets EXCEPT ![s].type = "IDLE"],
             UNCHANGED <<conn, delivered>>
      PROVE  [Service!Next]_(Service!vars)
  <2>1. s \in Sockets /\ sockets[s].type = "UNALLOCATED" /\ sockets[s] \in SocketInfo
    BY DEF Unallocated, IInv, TypeOK
  <2>2. /\ sockets'[s].type = "IDLE" /\ sockets'[s].pnc = sockets[s].pnc
        /\ \A t \in Sockets \ {s} : sockets'[t] = sockets[t]
    BY <1>2, <2>1 DEF IInv, TypeOK, SocketInfo
  <2>3. Allocated(Seen(sockets[s], conn, delivered[s]), Seen(sockets'[s], conn', delivered'[s]))
    BY <2>1, <2>2 DEF Allocated, Seen, PhaseOf, ArrivedOf, ReadOf, InUse
  <2>4. \A t \in Sockets \ {s} : Seen(sockets'[t], conn', delivered'[t])
                                        = Seen(sockets[t], conn, delivered[t])
    BY <1>2, <2>2
  <2> QED
    BY <2>1, <2>3, <2>4, OneSlotSeen
<1> QED
  BY <1>1, <1>2 DEF GetSocket, Return

\* What is seen of a torn-down slot: a stuck one as before, any other free.
LEMMA TornDownSeen ==
    ASSUME NEW psi \in SocketInfo, NEW cf, NEW d, NEW cg, NEW e
    PROVE  LET v == Seen(psi, cf, d)
               w == Seen(Teardown(psi), cg, e)
           IN  IF v[1] = "stuck" THEN w = v ELSE w = <<"free", 0, <<>>>>
<1>1. CASE psi.type \in Unsupported
  <2>1. psi.type # "TCP"
    BY <1>1 DEF Unsupported
  <2>2. Teardown(psi).type = psi.type
    BY <1>1 DEF Teardown, SocketInfo
  <2> QED
    BY <1>1, <2>1, <2>2 DEF Seen, PhaseOf, ArrivedOf, ReadOf, InUse, Unsupported
<1>2. CASE psi.type \notin Unsupported
  <2>1. Teardown(psi).type = "UNALLOCATED"
    BY <1>2 DEF Teardown, SocketInfo
  <2>2. PhaseOf(psi) # "stuck"
    BY <1>2 DEF PhaseOf
  <2> QED
    BY <2>1, <2>2 DEF Seen, PhaseOf, ArrivedOf, ReadOf, InUse
<1> QED
  BY <1>1, <1>2

LEMMA StopServes ==
    ASSUME IInv, NEW s \in Sockets, StopSocket(s)
    PROVE  [Service!Next]_(Service!vars)
<1>1. sockets[s] \in SocketInfo
  BY DEF IInv, TypeOK
<1>2. /\ sockets'[s] = Teardown(sockets[s])
      /\ \A t \in Sockets \ {s} : sockets'[t] = sockets[t]
      /\ \A n \in Netconns : n # sockets[s].pnc => conn'[n] = conn[n]
      /\ delivered' = delivered
  BY DEF StopSocket, Delete, Deleted, IInv, TypeOK
<1>3. sockets'[s].pnc # sockets[s].pnc => sockets'[s].pnc = NULL
  BY <1>1, <1>2, TeardownFields
<1>4. \A t \in Sockets \ {s} : Seen(sockets'[t], conn', delivered'[t])
                                   = Seen(sockets[t], conn, delivered[t])
  BY <1>2, <1>3, SeenElsewhere
<1>5. LET v == Seen(sockets[s], conn, delivered[s])
          w == Seen(sockets'[s], conn', delivered'[s])
      IN  w = v \/ Released(v, w)
  BY <1>1, <1>2, TornDownSeen DEF Released
<1> QED
  BY <1>4, <1>5, OneSlotSeen

\* On an AP change the service releases every slot that is not stuck.
LEMMA ResetServes == IInv /\ WifiReset => [Service!Next]_(Service!vars)
<1> SUFFICES ASSUME IInv, WifiReset PROVE Service!Next
  OBVIOUS
<1> DEFINE p == phaseBar  a == arrivedBar  r == readBar
           closed == {s \in Sockets : p[s] # "stuck"}
<1>1. ASSUME NEW s \in Sockets
      PROVE  LET v == Seen(sockets[s], conn, delivered[s])
                 w == Seen(sockets'[s], conn', delivered'[s])
             IN  IF v[1] = "stuck" THEN w = v ELSE w = <<"free", 0, <<>>>>
  <2>1. sockets'[s] = Teardown(sockets[s]) /\ sockets[s] \in SocketInfo
    BY DEF WifiReset, ResetSockets, IInv, TypeOK
  <2> QED
    BY <2>1, TornDownSeen
<1>2. \A s \in Sockets :
        /\ p[s] = PhaseOf(sockets[s]) /\ p'[s] = IF s \in closed THEN "free" ELSE p[s]
        /\ a'[s] = IF s \in closed THEN 0 ELSE a[s]
        /\ r'[s] = IF s \in closed THEN <<>> ELSE r[s]
  BY <1>1, Bars DEF Seen
<1>3. /\ p' = [s \in Sockets |-> p'[s]]
      /\ a' = [s \in Sockets |-> a'[s]]
      /\ r' = [s \in Sockets |-> r'[s]]
  BY Bars
<1> HIDE DEF p, a, r
<1>4. /\ p' = [s \in Sockets |-> IF s \in closed THEN "free" ELSE p[s]]
      /\ a' = [s \in Sockets |-> IF s \in closed THEN 0 ELSE a[s]]
      /\ r' = [s \in Sockets |-> IF s \in closed THEN <<>> ELSE r[s]]
  BY <1>2, <1>3
<1>5. Service!Release({s \in Sockets : p[s] # "stuck"})
  BY <1>4 DEF Service!Release, p, a, r, phaseBar, arrivedBar, readBar
<1> QED
  BY <1>5 DEF Service!Next, p, phaseBar

LEMMA RebootServes == Reboot => [Service!Next]_(Service!vars)
<1> SUFFICES ASSUME Reboot PROVE Service!Next
  OBVIOUS
<1>1. \A s \in Sockets : /\ PhaseOf(sockets'[s]) = "free"
                         /\ ArrivedOf(sockets'[s], conn') = 0
                         /\ ReadOf(sockets'[s], delivered'[s]) = <<>>
  BY DEF Reboot, EmptySlot, PhaseOf, ArrivedOf, ReadOf, InUse
<1>2. /\ phaseBar' = [s \in Sockets |-> "free"]
      /\ arrivedBar' = [s \in Sockets |-> 0]
      /\ readBar' = [s \in Sockets |-> <<>>]
  BY <1>1, Bars
<1>3. Service!Reboot
  BY <1>2 DEF Service!Reboot, phaseBar, arrivedBar, readBar
<1> QED
  BY <1>3 DEF Service!Next

\* A step that keeps every slot's use and delivers nothing to and for it.
LEMMA SameUseSeen ==
    ASSUME IInv, delivered' = delivered,
           \A t \in Sockets : /\ sockets'[t].type = sockets[t].type
                              /\ sockets'[t].state = sockets[t].state
                              /\ sockets'[t].pnc = sockets[t].pnc,
           \A n \in Netconns : conn'[n].rcvd = conn[n].rcvd
    PROVE  [Service!Next]_(Service!vars)
<1>1. \A t \in Sockets : sockets[t].pnc # NULL => sockets[t].pnc \in Netconns
  BY DEF IInv, TypeOK, SocketInfo
<1>2. \A t \in Sockets : Seen(sockets'[t], conn', delivered'[t])
                             = Seen(sockets[t], conn, delivered[t])
  BY <1>1 DEF Seen, PhaseOf, ArrivedOf, ReadOf, InUse
<1> QED
  BY <1>2, Unseen

LEMMA ConnectServes ==
    ASSUME IInv, NEW s \in Sockets, NEW mode \in Modes, SocketConnect(s, mode)
    PROVE  [Service!Next]_(Service!vars)
<1> DEFINE v == Seen(sockets[s], conn, delivered[s])
           w == Seen(sockets'[s], conn', delivered'[s])
<1>1. sockets \in [Sockets -> SocketInfo] /\ conn \in [Netconns -> ConnInfo]
  BY DEF IInv, TypeOK
<1>2. CASE ConnectRejected(s)
  BY <1>2, SameSeen DEF ConnectRejected, Return
<1>3. ASSUME sockets[s].type = "IDLE",
             w \in {<<"connected", 0, <<>>>>, <<"dead", 0, <<>>>>, <<"stuck", 0, <<>>>>},
             \A t \in Sockets \ {s} : sockets'[t] = sockets[t] /\ delivered'[t] = delivered[t],
             \A n \in Netconns : n # sockets'[s].pnc /\ n # sockets[s].pnc => conn'[n] = conn[n],
             sockets'[s].pnc # sockets[s].pnc /\ sockets'[s].pnc # NULL =>
                 conn[sockets'[s].pnc].st = "free"
      PROVE  [Service!Next]_(Service!vars)
  <2>1. v = <<"reserved", 0, <<>>>>
    BY <1>3 DEF Seen, PhaseOf, ArrivedOf, ReadOf, InUse
  <2>2. Settled(v, w)
    BY <1>3, <2>1 DEF Settled
  <2>3. \A t \in Sockets \ {s} : Seen(sockets'[t], conn', delivered'[t])
                                     = Seen(sockets[t], conn, delivered[t])
    BY <1>3, SeenElsewhere
  <2> QED
    BY <2>2, <2>3, OneSlotSeen
<1>4. CASE ConnectUnsupported(s, mode)
  <2>1. mode \in Unsupported
    BY <1>4, ModesAssumption DEF ConnectUnsupported
  <2>2. /\ sockets[s].type = "IDLE" /\ sockets'[s].type = mode
        /\ sockets'[s].pnc = sockets[s].pnc /\ conn' = conn /\ delivered' = delivered
        /\ \A t \in Sockets \ {s} : sockets'[t] = sockets[t]
    BY <1>1, <1>4 DEF ConnectUnsupported, SocketInfo
  <2>3. w = <<"stuck", 0, <<>>>>
    BY <2>1, <2>2 DEF Seen, PhaseOf, ArrivedOf, ReadOf, InUse, Unsupported
  <2> QED
    BY <1>3, <2>2, <2>3
<1>5. CASE TcpConnect(s)
  <2>1. sockets[s].type = "IDLE"
    BY <1>5 DEF TcpConnect
  <2>2. CASE /\ sockets' = [sockets EXCEPT ![s].type = "TCP", ![s].pnc = NULL]
             /\ UNCHANGED <<conn, delivered>>
    <3>1. /\ sockets'[s].pnc = NULL /\ sockets'[s].type = "TCP"
          /\ \A t \in Sockets \ {s} : sockets'[t] = sockets[t]
      BY <1>1, <2>2 DEF SocketInfo
    <3>2. w = <<"dead", 0, <<>>>>
      BY <3>1 DEF Seen, PhaseOf, ArrivedOf, ReadOf, Unsupported
    <3> QED
      BY <1>3, <2>1, <2>2, <3>1, <3>2
  <2>3. ASSUME NEW n \in Netconns, conn[n].st = "free", NEW state \in SlotStates,
               delivered' = [delivered EXCEPT ![s] = <<>>],
               sockets' = [sockets EXCEPT ![s] = Connecting(@, n, state)],
               NEW c, c.rcvd = 0, conn' = [conn EXCEPT ![n] = c]
        PROVE  [Service!Next]_(Service!vars)
    <3>1. /\ n # NULL /\ Connecting(sockets[s], n, state).pnc = n
          /\ Connecting(sockets[s], n, state).type = "TCP"
      BY <1>1, NULLAssumption DEF Connecting, SocketInfo
    <3>2. /\ sockets'[s].pnc = n /\ sockets'[s].type = "TCP"
          /\ \A t \in Sockets \ {s} : sockets'[t] = sockets[t]
      BY <1>1, <2>3, <3>1
    <3>3. /\ conn'[n] = c
          /\ \A m \in Netconns : m # n => conn'[m] = conn[m]
      BY <1>1, <2>3
    <3>4. delivered'[s] = <<>> /\ \A t \in Sockets \ {s} : delivered'[t] = delivered[t]
      BY <2>3 DEF IInv, TypeOK
    <3>5. w = <<"connected", 0, <<>>>> \/ w = <<"dead", 0, <<>>>>
      BY <2>3, <3>1, <3>2, <3>3, <3>4 DEF Seen, PhaseOf, ArrivedOf, ReadOf, Unsupported
    <3> HIDE DEF w
    <3> QED
      BY <1>3, <2>1, <2>3, <3>2, <3>3, <3>4, <3>5
  <2>4. /\ OpenConn.rcvd = 0
        /\ \A hasPcb \in BOOLEAN : FailedConn(hasPcb).rcvd = 0
    BY DEF OpenConn, FailedConn, FreeConn
  <2>5. CLOSED \in SlotStates /\ ESTABLISHED \in SlotStates
    BY DEF SlotStates
  <2> QED
    BY <1>5, <2>2, <2>3, <2>4, <2>5 DEF TcpConnect
<1> QED
  BY <1>2, <1>4, <1>5 DEF SocketConnect

\* Receiving changes no netconn's count of arrived bytes.
LEMMA ReceiveKeepsUse ==
    ASSUME IInv, NEW s \in Sockets, ReceiveEffect(s)
    PROVE  /\ \A t \in Sockets : /\ sockets'[t].type = sockets[t].type
                                 /\ sockets'[t].state = sockets[t].state
                                 /\ sockets'[t].pnc = sockets[t].pnc
           /\ \A n \in Netconns : conn'[n].rcvd = conn[n].rcvd
           /\ \A n \in Netconns : n # sockets[s].pnc => conn'[n] = conn[n]
           /\ \A t \in Sockets \ {s} : sockets'[t] = sockets[t]
<1> DEFINE n == sockets[s].pnc
<1>1. PICK psi \in SocketInfo :
        /\ sockets' = [sockets EXCEPT ![s] = psi]
        /\ psi.type = sockets[s].type /\ psi.state = sockets[s].state /\ psi.pnc = n
        /\ \/ conn' = conn
           \/ n # NULL /\ \E k \in Nat : conn' = Recv(n, k)
  BY DEF ReceiveEffect
<1>2. \A t \in Sockets : /\ sockets'[t].type = sockets[t].type
                         /\ sockets'[t].state = sockets[t].state
                         /\ sockets'[t].pnc = sockets[t].pnc
                         /\ t # s => sockets'[t] = sockets[t]
  BY <1>1 DEF IInv, TypeOK
<1>3. ASSUME n # NULL, NEW k \in Nat, conn' = Recv(n, k)
      PROVE  \A m \in Netconns : conn'[m].rcvd = conn[m].rcvd /\ (m # n => conn'[m] = conn[m])
  <2>1. n \in Netconns /\ conn \in [Netconns -> ConnInfo] /\ conn[n] \in ConnInfo
    BY <1>3 DEF IInv, TypeOK, SocketInfo
  <2>2. conn'[n] = [conn[n] EXCEPT !.taken = @ + k] /\ \A m \in Netconns : m # n => conn'[m] = conn[m]
    BY <1>3, <2>1 DEF Recv
  <2> QED
    BY <2>1, <2>2 DEF ConnInfo
<1> QED
  BY <1>1, <1>2, <1>3

\* What a read that returns data adds to what the slot has delivered.
Grown(s) == \E x \in Nat \ {0}, k \in Nat \ {0} :
                delivered' = [delivered EXCEPT ![s] = @ \o Bytes(x, k)]

LEMMA CopyGrows ==
    ASSUME NEW s, NEW psi \in SocketInfo, psi.pbuf # NULL, psi.offset < psi.dlen,
           NEW want \in Nat \ {0}, Copy(s, psi, want)
    PROVE  Grown(s)
<1>1. psi.pbuf.first + psi.offset \in Nat \ {0}
  BY DEF SocketInfo, Netbufs
<1>2. ToCopy(psi, want) \in Nat \ {0}
  BY CopyFields
<1> QED
  BY <1>1, <1>2 DEF Copy, Grown

LEMMA RecvAndCopyGrows ==
    ASSUME IInv, NEW s \in Sockets, NEW want \in Nat \ {0}, RecvAndCopy(s, want),
           sockets[s].pbuf = NULL, sockets[s].type = "TCP", sockets[s].pnc # NULL
    PROVE  \/ UNCHANGED <<sockets, conn, delivered>>
           \/ Grown(s) /\ InUse(sockets[s]) /\ sockets[s].pnc # NULL
<1> DEFINE psi == [sockets[s] EXCEPT !.offset = 0]
           n == psi.pnc
<1>1. sockets[s] \in SocketInfo /\ SlotInv(sockets[s], conn, delivered[s], promised[s])
  BY DEF IInv, TypeOK, SlotsInv
<1>2. psi \in SocketInfo /\ psi.pnc = sockets[s].pnc /\ psi.offset = 0
  BY <1>1 DEF SocketInfo
<1>3. \/ /\ HasData(n)
         /\ \E k \in 1 .. conn[n].rcvd - conn[n].taken : Copy(s, WithNetbuf(psi, k), want)
      \/ UNCHANGED <<sockets, conn, delivered>>
  BY DEF RecvAndCopy
<1> HIDE DEF psi
<1>4. ASSUME HasData(n), NEW k \in 1 .. conn[n].rcvd - conn[n].taken,
             Copy(s, WithNetbuf(psi, k), want)
      PROVE  Grown(s) /\ InUse(sockets[s])
  <2>1. n \in Netconns /\ conn \in [Netconns -> ConnInfo]
    BY <1>1, <1>2 DEF SocketInfo, IInv, TypeOK
  <2>2. k \in Nat \ {0}
    BY <1>4, <2>1 DEF ConnInfo
  <2> DEFINE new == WithNetbuf(psi, k)
  <2>3. new \in SocketInfo /\ new.pbuf # NULL /\ new.dlen = k /\ new.offset = 0
    BY <1>2, <2>1, <2>2, NetbufFields
  <2>4. InUse(sockets[s])
    BY <1>1, <1>2, <1>4 DEF SlotInv, PncInv, HasData
  <2> HIDE DEF new
  <2> QED
    BY <1>4, <2>2, <2>3, <2>4, CopyGrows DEF new
<1> QED
  BY <1>3, <1>4

LEMMA ReadServes ==
    ASSUME IInv, IInv', NEW s \in Sockets, ReceiveEffect(s), Grown(s),
           InUse(sockets[s]), sockets[s].pnc # NULL
    PROVE  [Service!Next]_(Service!vars)
<1> DEFINE n == sockets[s].pnc
           new == sockets'[s]
           m == conn'[n].taken - (new.dlen - new.offset)
           v == Seen(sockets[s], conn, delivered[s])
           w == Seen(sockets'[s], conn', delivered'[s])
<1>1. /\ n \in Netconns
      /\ new.pnc = n /\ InUse(new) /\ new.type = "TCP"
      /\ conn'[n].rcvd = conn[n].rcvd
      /\ \A t \in Sockets \ {s} : sockets'[t] = sockets[t]
      /\ \A k \in Netconns : k # n => conn'[k] = conn[k]
  BY ReceiveKeepsUse DEF InUse, IInv, TypeOK, SocketInfo
<1>2. PICK x \in Nat \ {0}, k \in Nat \ {0} :
        delivered' = [delivered EXCEPT ![s] = @ \o Bytes(x, k)]
  BY DEF Grown
<1>3. /\ delivered'[s] = delivered[s] \o Bytes(x, k)
      /\ \A t \in Sockets \ {s} : delivered'[t] = delivered[t]
      /\ delivered[s] \in Seq(Nat)
  BY <1>2 DEF IInv, TypeOK
<1>4. Len(delivered'[s]) = Len(delivered[s]) + k
  BY <1>3 DEF Bytes
<1>5. /\ new \in SocketInfo /\ conn'[n].taken \in Nat /\ conn'[n].rcvd \in Nat
      /\ conn'[n].taken <= conn'[n].rcvd
      /\ SlotInv(new, conn', delivered'[s], promised'[s])
  BY <1>1 DEF IInv, TypeOK, SlotsInv, ConnInfo
<1>6. m \in Nat /\ m <= conn[n].rcvd
  <2>1. new.offset \in Nat /\ new.dlen \in Nat
    BY <1>5 DEF SocketInfo
  <2>2. CASE new.pbuf = NULL
    BY <1>1, <1>5, <2>1, <2>2 DEF SlotInv, HeldInv
  <2>3. CASE new.pbuf # NULL
    <3>1. new.pbuf.first \in Nat \ {0} /\ new.pbuf.len \in Nat
      BY <1>5, <2>3 DEF SocketInfo, Netbufs
    <3>2. new.offset < new.dlen /\ new.pbuf.first + new.dlen = conn'[n].taken + 1
      BY <1>1, <1>5, <2>3 DEF SlotInv, HeldInv
    <3> QED
      BY <1>1, <1>5, <2>1, <3>1, <3>2
  <2> QED
    BY <2>2, <2>3
<1>7. delivered'[s] = Bytes(1, m)
  BY <1>1, <1>5 DEF SlotInv, StreamInv
<1> HIDE DEF m
<1>8. Len(delivered'[s]) = m
  BY <1>6, <1>7 DEF Bytes
<1>9. m \in Len(delivered[s]) + 1 .. conn[n].rcvd
  BY <1>1, <1>3, <1>4, <1>5, <1>6, <1>8
<1>10. /\ v = <<"connected", conn[n].rcvd, delivered[s]>>
       /\ w = <<"connected", conn[n].rcvd, delivered'[s]>>
  BY <1>1 DEF Seen, PhaseOf, ArrivedOf, ReadOf, InUse, Unsupported
<1>11. HasRead(v, w)
  BY <1>7, <1>9, <1>10 DEF HasRead
<1>12. \A t \in Sockets \ {s} : Seen(sockets'[t], conn', delivered'[t])
                                    = Seen(sockets[t], conn, delivered[t])
  BY <1>1, <1>3, SeenElsewhere
<1> QED
  BY <1>11, <1>12, OneSlotSeen

LEMMA ReadDataServes ==
    ASSUME IInv, IInv', NEW s \in Sockets, NEW want \in ReadSizes, ReadData(s, want)
    PROVE  [Service!Next]_(Service!vars)
<1>1. SlotInv(sockets[s], conn, delivered[s], promised[s]) /\ sockets[s] \in SocketInfo
  BY DEF IInv, SlotsInv, TypeOK
<1>2. want \in Nat
  BY ReadSizesAssumption
<1>3. CASE UNCHANGED <<sockets, conn, delivered>>
  BY <1>3, SameSeen
<1>4. CASE want > 0 /\ sockets[s].pbuf # NULL /\ Copy(s, sockets[s], want)
  <2>1. /\ sockets[s].offset < sockets[s].dlen
        /\ InUse(sockets[s]) /\ sockets[s].pnc # NULL
    BY <1>1, <1>4 DEF SlotInv, HeldInv
  <2>2. Grown(s)
    BY <1>1, <1>2, <1>4, <2>1, CopyGrows
  <2> QED
    BY <1>2, <2>1, <2>2, ReadEffect, ReadServes
<1>5. CASE /\ want > 0 /\ sockets[s].type = "TCP"
           /\ sockets[s].pbuf = NULL /\ sockets[s].pnc # NULL
           /\ RecvAndCopy(s, want)
  BY <1>2, <1>3, <1>5, RecvAndCopyGrows, ReadEffect, ReadServes
<1> QED
  BY <1>3, <1>4, <1>5 DEF ReadData, ReadTcp, Undefined, Return

LEMMA ReadWakesServes ==
    ASSUME IInv, IInv', ReadWakes
    PROVE  [Service!Next]_(Service!vars)
<1>1. /\ wait \in Waits /\ RecvAndCopy(wait.sock, wait.want)
      /\ InUse(sockets[wait.sock])
      /\ sockets[wait.sock].pnc # NULL /\ sockets[wait.sock].pbuf = NULL
  BY DEF ReadWakes, IInv, WaitInv
<1>2. PICK s \in Sockets, want \in Nat \ {0} : s = wait.sock /\ want = wait.want
  BY <1>1 DEF Waits
<1>3. RecvAndCopy(s, want) /\ sockets[s].pbuf = NULL /\ sockets[s].pnc # NULL /\ InUse(sockets[s])
  BY <1>1, <1>2
<1>4. \/ UNCHANGED <<sockets, conn, delivered>>
      \/ Grown(s)
  BY <1>3, RecvAndCopyGrows DEF InUse
<1> QED
  BY <1>3, <1>4, RecvAndCopyEffect, ReadServes, SameSeen

\* A write or a flush keeps the slot's use and what has arrived.
LEMMA NotedServes ==
    ASSUME IInv, NEW s \in Sockets, NEW on, sockets' = [sockets EXCEPT ![s] = Note(@, on)],
           NEW n \in Netconns, NEW c, c.rcvd = conn[n].rcvd, conn' = [conn EXCEPT ![n] = c],
           delivered' = delivered
    PROVE  [Service!Next]_(Service!vars)
<1>1. /\ sockets[s] \in SocketInfo
      /\ sockets'[s] = Note(sockets[s], on)
      /\ \A t \in Sockets \ {s} : sockets'[t] = sockets[t]
  BY DEF IInv, TypeOK
<1>2. \A t \in Sockets : /\ sockets'[t].type = sockets[t].type
                         /\ sockets'[t].state = sockets[t].state
                         /\ sockets'[t].pnc = sockets[t].pnc
  BY <1>1 DEF Note, SocketInfo
<1>3. \A m \in Netconns : conn'[m].rcvd = conn[m].rcvd
  BY DEF IInv, TypeOK
<1> QED
  BY <1>2, <1>3, SameUseSeen

LEMMA WriteServes ==
    ASSUME IInv, NEW s \in Sockets, SendData(s) \/ WriteFlush(s)
    PROVE  [Service!Next]_(Service!vars)
<1> DEFINE psi == sockets[s]
           n == psi.pnc
<1>1. psi \in SocketInfo /\ conn \in [Netconns -> ConnInfo]
  BY DEF IInv, TypeOK
<1>2. CASE UNCHANGED <<sockets, conn, delivered>>
  BY <1>2, SameSeen
<1>3. ASSUME n # NULL, sockets' = [sockets EXCEPT ![s] = Note(@, TRUE)], NEW ok \in BOOLEAN,
             conn' = [conn EXCEPT ![n].nagle = @ \/ ~psi.nagle_enabled, ![n].wrote = @ \/ ok],
             delivered' = delivered
      PROVE  [Service!Next]_(Service!vars)
  <2> DEFINE c == [conn[n] EXCEPT !.nagle = @ \/ ~psi.nagle_enabled, !.wrote = @ \/ ok]
  <2>1. n \in Netconns /\ conn[n] \in ConnInfo
    BY <1>1, <1>3 DEF SocketInfo
  <2>2. c.rcvd = conn[n].rcvd
    BY <2>1 DEF ConnInfo
  <2>3. conn' = [conn EXCEPT ![n] = c]
    BY <1>1, <1>3, <2>1
  <2> HIDE DEF c
  <2> QED
    BY <1>3, <2>1, <2>2, <2>3, NotedServes
<1>4. ASSUME HasPcb(n), sockets' = [sockets EXCEPT ![s] = Note(@, FALSE)],
             conn' = [conn EXCEPT ![n].nagle = FALSE], delivered' = delivered
      PROVE  [Service!Next]_(Service!vars)
  <2> DEFINE c == [conn[n] EXCEPT !.nagle = FALSE]
  <2>1. n \in Netconns /\ conn[n] \in ConnInfo
    BY <1>1, <1>4 DEF SocketInfo, HasPcb
  <2>2. c.rcvd = conn[n].rcvd
    BY <2>1 DEF ConnInfo
  <2>3. conn' = [conn EXCEPT ![n] = c]
    BY <1>1, <1>4, <2>1
  <2> HIDE DEF c
  <2> QED
    BY <1>4, <2>1, <2>2, <2>3, NotedServes
<1>5. CASE SendData(s)
  BY <1>2, <1>3, <1>5 DEF SendData, SendTcp, Undefined, Return
<1>6. CASE WriteFlush(s)
  BY <1>2, <1>4, <1>6 DEF WriteFlush, Undefined, Return
<1> QED
  BY <1>5, <1>6

\* A byte that arrives on a netconn arrives for the slot that owns it.
LEMMA PeerServes ==
    ASSUME IInv, NEW n \in Netconns, Peer(n)
    PROVE  [Service!Next]_(Service!vars)
<1>1. /\ conn \in [Netconns -> ConnInfo] /\ conn[n] \in ConnInfo
      /\ sockets' = sockets /\ delivered' = delivered
  BY DEF IInv, TypeOK, Peer, PeerSend, PeerClose, PeerReset
<1>2. CASE PeerClose(n) \/ PeerReset(n)
  <2>1. \A m \in Netconns : conn'[m].rcvd = conn[m].rcvd
    BY <1>1, <1>2 DEF PeerClose, PeerReset, ConnInfo
  <2> QED
    BY <1>1, <2>1, SameUseSeen
<1>3. CASE PeerSend(n)
  <2>1. /\ Live(n)
        /\ conn'[n].rcvd = conn[n].rcvd + 1
        /\ \A m \in Netconns : m # n => conn'[m] = conn[m]
    BY <1>1, <1>3 DEF PeerSend, Live, ConnInfo
  <2>2. PICK s \in Sockets : Owns(s, n) /\ Connected(s)
    BY <2>1, IInvImplies DEF LiveConnsOwned
  <2>3. sockets[s].pnc = n /\ InUse(sockets[s]) /\ n # NULL /\ sockets[s].type = "TCP"
    BY <2>2 DEF Owns, Connected, InUse
  <2>4. /\ Seen(sockets[s], conn, delivered[s]) = <<"connected", conn[n].rcvd, delivered[s]>>
        /\ Seen(sockets'[s], conn', delivered'[s])
               = <<"connected", conn[n].rcvd + 1, delivered[s]>>
    BY <1>1, <2>1, <2>3 DEF Seen, PhaseOf, ArrivedOf, ReadOf, Unsupported
  <2>5. Arrived(Seen(sockets[s], conn, delivered[s]), Seen(sockets'[s], conn', delivered'[s]))
    BY <2>4 DEF Arrived
  <2>6. \A t \in Sockets \ {s} : Seen(sockets'[t], conn', delivered'[t])
                                     = Seen(sockets[t], conn, delivered[t])
    BY <1>1, <2>1, <2>3, SeenElsewhere
  <2> QED
    BY <2>5, <2>6, OneSlotSeen
<1> QED
  BY <1>2, <1>3 DEF Peer

LEMMA NextServes == IInv /\ IInv' /\ [Next]_vars => [Service!Next]_(Service!vars)
<1> SUFFICES ASSUME IInv, IInv', [Next]_vars PROVE [Service!Next]_(Service!vars)
  OBVIOUS
<1>1. CASE GetSocket
  BY <1>1, GetSocketServes
<1>2. CASE WifiReset
  BY <1>2, ResetServes
<1>3. CASE Reboot
  BY <1>3, RebootServes
<1>4. CASE ReadWakes
  BY <1>4, ReadWakesServes
<1>5. ASSUME NEW s \in Sockets, Call(s)
      PROVE  [Service!Next]_(Service!vars)
  <2>1. CASE StopSocket(s)
    BY <2>1, StopServes
  <2>2. ASSUME NEW mode \in Modes, SocketConnect(s, mode)
        PROVE  [Service!Next]_(Service!vars)
    BY <2>2, ConnectServes
  <2>3. CASE GetSocketState(s)
    BY <2>3, SameSeen DEF GetSocketState, Return
  <2>4. CASE AvailData(s)
    <3>1. delivered' = delivered
      BY <2>4 DEF AvailData, AvailTcp, Announce, Undefined, Return
    <3> QED
      BY <2>4, <3>1, AvailEffect, ReceiveKeepsUse, SameUseSeen
  <2>5. ASSUME NEW want \in ReadSizes, ReadData(s, want)
        PROVE  [Service!Next]_(Service!vars)
    BY <2>5, ReadDataServes
  <2>6. CASE SendData(s) \/ WriteFlush(s)
    BY <2>6, WriteServes
  <2> QED
    BY <1>5, <2>1, <2>2, <2>3, <2>4, <2>5, <2>6 DEF Call
<1>6. ASSUME NEW n \in Netconns, Peer(n)
      PROVE  [Service!Next]_(Service!vars)
  BY <1>6, PeerServes
<1>7. CASE UNCHANGED vars
  BY <1>7, SameSeen DEF vars
<1> QED
  BY <1>1, <1>2, <1>3, <1>4, <1>5, <1>6, <1>7 DEF Next

LEMMA InitServes == Init => Service!Init
<1> SUFFICES ASSUME Init PROVE Service!Init
  OBVIOUS
<1>1. \A s \in Sockets : /\ PhaseOf(sockets[s]) = "free"
                         /\ ArrivedOf(sockets[s], conn) = 0
                         /\ ReadOf(sockets[s], delivered[s]) = <<>>
  BY DEF Init, EmptySlot, PhaseOf, ArrivedOf, ReadOf, InUse
<1>2. /\ phaseBar = [s \in Sockets |-> "free"]
      /\ arrivedBar = [s \in Sockets |-> 0]
      /\ readBar = [s \in Sockets |-> <<>>]
  BY <1>1, Bars
<1> QED
  BY <1>2 DEF Service!Init, phaseBar, arrivedBar, readBar

\* The table implements the service a host is promised: every call, peer and
\* reset is a step of SocketService on the slots' phases and byte streams, or
\* leaves them as they are.
THEOREM ImplementsService == Spec => ImplementsSocketService
<1>1. Spec => Service!Init /\ [][Service!Next]_(Service!vars)
  BY IInvariant, InitServes, NextServes, PTL DEF Spec
<1> QED
  BY <1>1 DEF ImplementsSocketService, Service!Spec

-----------------------------------------------------------------------------
(* What a caller of the table can tell of its own slot and of the others; the  *)
(* proofs about the host's socket objects rest on these.                       *)

SameUse == \A t \in Sockets : /\ sockets'[t].type = sockets[t].type
                              /\ sockets'[t].state = sockets[t].state
                              /\ sockets'[t].pnc = sockets[t].pnc

SameUseElsewhere(s) == \A t \in Sockets \ {s} : /\ sockets'[t].type = sockets[t].type
                                                /\ sockets'[t].state = sockets[t].state
                                                /\ sockets'[t].pnc = sockets[t].pnc

\* avail_data announces what it returns; only a TCP slot is asked, and only a
\* missing netconn makes it undefined.
LEMMA AvailSeen ==
    ASSUME IInv, NEW s \in Sockets, AvailData(s)
    PROVE  /\ SameUse /\ delivered' = delivered /\ fw' \in {"up", "undefined"}
           /\ fw' = "undefined" => sockets[s].pnc = NULL
           /\ fw' = "up" => IF ret'.err = "E_SUCCESS"
                            THEN sockets[s].type = "TCP" /\ promised'[s] = ret'.val
                            ELSE sockets[s].type # "TCP"
<1>1. SameUse
  BY AvailEffect, ReceiveKeepsUse DEF SameUse
<1>2. promised \in [Sockets -> Nat] /\ fw = "up"
  BY DEF IInv, TypeOK, AvailData
<1>3. CASE sockets[s].type = "TCP" /\ \E psi : Announce(s, psi)
  BY <1>1, <1>2, <1>3 DEF Announce, Result
<1>4. CASE Undefined /\ sockets[s].pnc = NULL
  BY <1>1, <1>4 DEF Undefined
<1>5. CASE /\ sockets[s].type = "TCP"
           /\ ret' = Result("E_SUCCESS", 0)
           /\ promised' = [promised EXCEPT ![s] = 0]
           /\ UNCHANGED <<sockets, conn, fw, wait, delivered>>
  BY <1>1, <1>2, <1>5 DEF Result
<1>6. CASE sockets[s].type # "TCP" /\ Return("E_UNSUPPORTED", 0)
  BY <1>1, <1>2, <1>6 DEF Return, Result
<1> QED
  BY <1>3, <1>4, <1>5, <1>6 DEF AvailData, AvailTcp

\* A read of announced bytes neither waits nor fails.
LEMMA ReadSeen ==
    ASSUME IInv, NEW s \in Sockets, promised[s] > 0, NEW want \in Nat \ {0}, ReadData(s, want)
    PROVE  /\ SameUse /\ fw' = "up" /\ ret'.err = "E_SUCCESS"
           /\ Grown(s)
<1>1. SlotInv(sockets[s], conn, delivered[s], promised[s]) /\ sockets[s] \in SocketInfo
  BY DEF IInv, SlotsInv, TypeOK
<1>2. sockets[s].pbuf # NULL /\ sockets[s].type = "TCP" /\ sockets[s].offset < sockets[s].dlen
  BY <1>1 DEF SlotInv, PromiseInv, HeldInv, InUse
<1>3. Copy(s, sockets[s], want) /\ UNCHANGED <<conn, fw, wait>> /\ fw = "up"
  BY <1>2 DEF ReadData, ReadTcp
<1>4. SameUse
  BY ReadEffect, ReceiveKeepsUse DEF SameUse
<1>5. Grown(s)
  BY <1>1, <1>2, <1>3, CopyGrows
<1> QED
  BY <1>3, <1>4, <1>5 DEF Copy, Result

LEMMA GetSocketSeen ==
    ASSUME IInv, GetSocket
    PROVE  /\ fw = "up" /\ fw' = "up" /\ delivered' = delivered /\ promised' = promised
           /\ IF ret'.err = "E_SUCCESS"
              THEN /\ ret'.val \in Sockets /\ sockets[ret'.val].type = "UNALLOCATED"
                   /\ sockets'[ret'.val].type = "IDLE"
                   /\ SameUseElsewhere(ret'.val)
              ELSE SameUse
<1>1. CASE Unallocated = {} /\ Return("E_SOCKETS_EXHAUSTED", 0)
  BY <1>1 DEF GetSocket, Return, Result, SameUse
<1>2. ASSUME NEW s \in Unallocated,
             sockets' = [sockets EXCEPT ![s].type = "IDLE"], ret' = Result("E_SUCCESS", s),
             UNCHANGED <<conn, fw, wait, delivered, promised>>
      PROVE  /\ ret'.err = "E_SUCCESS" /\ ret'.val \in Sockets
             /\ sockets[ret'.val].type = "UNALLOCATED" /\ sockets'[ret'.val].type = "IDLE"
             /\ SameUseElsewhere(ret'.val)
  <2>1. s \in Sockets /\ ret'.val = s /\ ret'.err = "E_SUCCESS" /\ sockets[s].type = "UNALLOCATED"
    BY <1>2 DEF Unallocated, Result
  <2>2. sockets \in [Sockets -> SocketInfo]
    BY DEF IInv, TypeOK
  <2>3. sockets'[s].type = "IDLE" /\ SameUseElsewhere(s)
    BY <1>2, <2>1, <2>2 DEF SameUseElsewhere, SocketInfo
  <2> QED
    BY <2>1, <2>3
<1> QED
  BY <1>1, <1>2 DEF GetSocket

\* A connect is for a reserved slot; it leaves its slot connected with nothing
\* delivered, or without a netconn, or as it was.
LEMMA ConnectSeen ==
    ASSUME IInv, NEW s \in Sockets, SocketConnect(s, "TCP")
    PROVE  /\ fw = "up" /\ fw' = "up" /\ promised' = promised
           /\ \A t \in Sockets \ {s} : delivered'[t] = delivered[t]
           /\ SameUseElsewhere(s)
           /\ \/ ret'.err # "E_SUCCESS" /\ SameUse /\ delivered' = delivered
              \/ /\ sockets[s].type = "IDLE" /\ sockets'[s].type = "TCP"
                 /\ IF ret'.err = "E_SUCCESS" THEN delivered'[s] = <<>>
                                              ELSE sockets'[s].pnc = NULL
<1>1. sockets \in [Sockets -> SocketInfo] /\ delivered \in [Sockets -> Seq(Nat)]
  BY DEF IInv, TypeOK
<1>2. fw = "up"
  BY DEF SocketConnect
<1>3. CASE ConnectRejected(s)
  BY <1>2, <1>3 DEF ConnectRejected, Return, Result, SameUse, SameUseElsewhere
<1>4. CASE TcpConnect(s)
  <2>1. sockets[s].type = "IDLE" /\ UNCHANGED <<fw, wait, promised>>
    BY <1>4 DEF TcpConnect
  <2>2. CASE /\ sockets' = [sockets EXCEPT ![s].type = "TCP", ![s].pnc = NULL]
             /\ ret' = Result("E_NOMEM", 0) /\ UNCHANGED <<conn, delivered>>
    <3>1. sockets'[s].type = "TCP" /\ sockets'[s].pnc = NULL /\ SameUseElsewhere(s)
      BY <1>1, <2>2 DEF SocketInfo, SameUseElsewhere
    <3> QED
      BY <1>2, <2>1, <2>2, <3>1 DEF Result
  <2>3. ASSUME NEW n, NEW state,
               ret' = Result("E_SUCCESS", 0), delivered' = [delivered EXCEPT ![s] = <<>>],
               sockets' = [sockets EXCEPT ![s] = Connecting(@, n, state)]
        PROVE  /\ sockets'[s].type = "TCP" /\ SameUseElsewhere(s) /\ ret'.err = "E_SUCCESS"
               /\ delivered'[s] = <<>> /\ \A t \in Sockets \ {s} : delivered'[t] = delivered[t]
    <3>1. sockets'[s] = Connecting(sockets[s], n, state) /\ SameUseElsewhere(s)
      BY <1>1, <2>3 DEF SameUseElsewhere
    <3>2. sockets'[s].type = "TCP"
      BY <1>1, <3>1 DEF Connecting, SocketInfo
    <3> QED
      BY <1>1, <2>3, <3>1, <3>2 DEF Result
  <2> QED
    BY <1>2, <1>4, <2>1, <2>2, <2>3 DEF TcpConnect
<1> QED
  BY <1>3, <1>4 DEF SocketConnect, ConnectUnsupported

LEMMA StopSeen ==
    ASSUME IInv, NEW s \in Sockets, StopSocket(s)
    PROVE  /\ fw = "up" /\ fw' = "up" /\ delivered' = delivered
           /\ SameUseElsewhere(s)
           /\ sockets[s].type \notin Unsupported => sockets'[s].type = "UNALLOCATED"
<1>1. sockets \in [Sockets -> SocketInfo]
  BY DEF IInv, TypeOK
<1>2. sockets'[s] = Teardown(sockets[s]) /\ SameUseElsewhere(s)
  BY <1>1 DEF StopSocket, SameUseElsewhere
<1>3. sockets[s].type \notin Unsupported => Teardown(sockets[s]).type = "UNALLOCATED"
  BY <1>1 DEF Teardown, SocketInfo
<1> QED
  BY <1>2, <1>3 DEF StopSocket

\* After a join's teardown or a reboot every slot of a supported type is free.
LEMMA ResetSeen ==
    ASSUME IInv, ResetSockets \/ Reboot
    PROVE  /\ fw' = "up"
           /\ \A s \in Sockets :
                  sockets[s].type \notin Unsupported => sockets'[s].type = "UNALLOCATED"
<1>1. CASE ResetSockets
  <2>1. \A s \in Sockets : sockets'[s] = Teardown(sockets[s]) /\ sockets[s] \in SocketInfo
    BY <1>1 DEF ResetSockets, IInv, TypeOK
  <2>2. \A s \in Sockets : sockets[s].type \notin Unsupported => Teardown(sockets[s]).type = "UNALLOCATED"
    BY <2>1 DEF Teardown, SocketInfo
  <2> QED
    BY <1>1, <2>1, <2>2 DEF ResetSockets
<1>2. CASE Reboot
  BY <1>2 DEF Reboot, EmptySlot
<1> QED
  BY <1>1, <1>2

LEMMA SendSeen ==
    ASSUME IInv, NEW s \in Sockets, SendData(s) \/ WriteFlush(s)
    PROVE  SameUse /\ delivered' = delivered /\ promised' = promised /\ fw' \in {"up", "undefined"}
<1>1. sockets \in [Sockets -> SocketInfo] /\ fw = "up"
  BY DEF IInv, TypeOK, SendData, WriteFlush
<1>2. CASE Undefined \/ Return("E_INTERNAL", 0)
  BY <1>1, <1>2 DEF Undefined, Return, SameUse
<1>3. ASSUME NEW on \in BOOLEAN, sockets' = [sockets EXCEPT ![s] = Note(@, on)]
      PROVE  SameUse
  BY <1>1, <1>3 DEF Note, SocketInfo, SameUse
<1> QED
  BY <1>1, <1>2, <1>3 DEF SendData, SendTcp, WriteFlush

LEMMA PeerSeen ==
    ASSUME NEW n, Peer(n)
    PROVE  UNCHANGED <<sockets, fw, delivered, promised>>
BY DEF Peer, PeerSend, PeerClose, PeerReset

=============================================================================
