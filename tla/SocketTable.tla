----------------------------- MODULE SocketTable -----------------------------
(***************************************************************************)
(* The socket table of src/wifi-api.cpp: MAX_SOCKETS slots of type         *)
(* socket_info_t, and the wifi_api_* functions the command handlers call   *)
(* on them.  The firmware runs one command at a time, so each function is  *)
(* one action; the lwIP stack and the remote peers move between them.      *)
(*                                                                         *)
(* lwIP is external.  A netconn comes from a finite pool; the bytes a peer *)
(* sends on a connection are numbered 1, 2, 3, ...; netconn_recv hands out *)
(* the next k >= 1 bytes that have arrived, k being the peer's choice of   *)
(* segments.                                                               *)
(***************************************************************************)
EXTENDS Integers, Sequences

CONSTANTS
    MaxSockets,  \* MAX_SOCKETS
    Netconns,    \* the netconns lwIP's pool can hand out
    Modes,       \* the connection types a host may ask for
    ReadSizes,   \* the read lengths a host may ask for
    MaxRx,       \* bound: bytes a peer sends on one connection
    NULL

Unsupported == {"UDP", "TLS"}

\* The two SOCK_STATE_* values the firmware stores, as a host reads them.
CLOSED == 0
ESTABLISHED == 4

ASSUME MaxSocketsAssumption == MaxSockets \in Nat \ {0}
ASSUME ModesAssumption == Modes \subseteq {"TCP"} \cup Unsupported
ASSUME ReadSizesAssumption == ReadSizes \subseteq Nat
ASSUME MaxRxAssumption == MaxRx \in Nat
ASSUME NULLAssumption == NULL \notin Netconns /\ NULL \notin [first: Nat, len: Nat]

Sockets == 0 .. MaxSockets - 1

VARIABLES
    sockets,    \* wifi.sockets
    conn,       \* lwIP: the netconn pool and what each peer has done
    fw,         \* the command loop: running, inside netconn_recv, or after undefined behaviour
    wait,       \* the read the loop is blocked in
    ret,        \* result of the last wifi_api_* call
    delivered,  \* history: bytes each slot's reads have returned since it connected
    promised    \* history: bytes avail_data has announced and no read has taken yet

vars == <<sockets, conn, fw, wait, ret, delivered, promised>>

-----------------------------------------------------------------------------
(* lwIP as this code uses it.  "failed" is a netconn whose connect failed,  *)
(* "fin" one whose peer has closed, "rst" one that was reset: then the      *)
(* stack has dropped the pcb and netconn_recv fails whatever had arrived.   *)

FreeConn == [st |-> "free", pcb |-> FALSE, nagle |-> TRUE, wrote |-> FALSE,
             rcvd |-> 0, taken |-> 0]
OpenConn == [FreeConn EXCEPT !.st = "open", !.pcb = TRUE]

FailedConn(hasPcb) == [FreeConn EXCEPT !.st = "failed", !.pcb = hasPcb]

HasData(n) == conn[n].st \in {"open", "fin"} /\ conn[n].taken < conn[n].rcvd
RecvFails(n) == \/ conn[n].st \in {"failed", "rst"}
                \/ conn[n].st = "fin" /\ ~HasData(n)

\* pnc->pcb.tcp can be dereferenced.
HasPcb(pnc) == pnc # NULL /\ conn[pnc].pcb

\* netconn_recv taking k bytes, and the netbuf it returns.
Recv(n, k) == [conn EXCEPT ![n].taken = @ + k]
Netbuf(n, k) == [first |-> conn[n].taken + 1, len |-> k]

\* netconn_close and netconn_delete of a set of netconns.
Delete(gone) == [n \in Netconns |-> IF n \in gone THEN FreeConn ELSE conn[n]]

Bytes(first, k) == [i \in 1 .. k |-> first + i - 1]

-----------------------------------------------------------------------------
EmptySlot == [type |-> "UNALLOCATED", state |-> CLOSED, nagle_enabled |-> FALSE,
              pnc |-> NULL, pbuf |-> NULL, offset |-> 0, dlen |-> 0]

Result(err, val) == [err |-> err, val |-> val]
NoResult == Result("none", 0)

Init ==
    /\ sockets = [s \in Sockets |-> EmptySlot]
    /\ conn = [n \in Netconns |-> FreeConn]
    /\ fw = "up"
    /\ wait = NULL
    /\ ret = NoResult
    /\ delivered = [s \in Sockets |-> <<>>]
    /\ promised = [s \in Sockets |-> 0]

\* A dereference of a null pnc or a null pcb: nothing is promised from here on.
Undefined ==
    /\ fw' = "undefined"
    /\ ret' = NoResult
    /\ UNCHANGED <<sockets, conn, wait, delivered, promised>>

\* A call that only returns.
Return(err, val) ==
    /\ ret' = Result(err, val)
    /\ UNCHANGED <<sockets, conn, fw, wait, delivered, promised>>

-----------------------------------------------------------------------------
(* Teardown.  Only a TCP slot whose state is not CLOSED gives back its      *)
(* netbuf and netconn; a slot of an unsupported type stays as it is.        *)

Closes(psi) == psi.type = "TCP" /\ psi.state # CLOSED

\* Mutants of Teardown: without psi->pnc = NULL, without offset = dlen = 0, and
\* without psi->pbuf = NULL.
TeardownKeepsPnc(psi) ==
    [psi EXCEPT !.type = IF psi.type \in Unsupported THEN @ ELSE "UNALLOCATED",
                !.pbuf = IF Closes(psi) THEN NULL ELSE @,
                !.offset = IF Closes(psi) THEN 0 ELSE @,
                !.dlen = IF Closes(psi) THEN 0 ELSE @]

TeardownKeepsOffset(psi) ==
    [psi EXCEPT !.type = IF psi.type \in Unsupported THEN @ ELSE "UNALLOCATED",
                !.pbuf = IF Closes(psi) THEN NULL ELSE @,
                !.pnc = IF Closes(psi) THEN NULL ELSE @]

TeardownKeepsPbuf(psi) ==
    [psi EXCEPT !.type = IF psi.type \in Unsupported THEN @ ELSE "UNALLOCATED",
                !.pnc = IF Closes(psi) THEN NULL ELSE @]

Teardown(psi) ==
    [psi EXCEPT
        !.type = IF psi.type \in Unsupported THEN @ ELSE "UNALLOCATED",
        !.pbuf = IF Closes(psi) THEN NULL ELSE @,
        !.pnc = IF Closes(psi) THEN NULL ELSE @,
        !.offset = IF Closes(psi) /\ psi.pnc # NULL THEN 0 ELSE @,
        !.dlen = IF Closes(psi) /\ psi.pnc # NULL THEN 0 ELSE @]

\* Mutant of Deleted: without netconn_delete.
DeletedNever(psi) == {}

Deleted(psi) == IF Closes(psi) THEN {psi.pnc} \ {NULL} ELSE {}

StopSocket(s) ==
    /\ fw = "up"
    /\ sockets' = [sockets EXCEPT ![s] = Teardown(@)]
    /\ conn' = Delete(Deleted(sockets[s]))
    /\ ret' = Result(IF sockets[s].type \in Unsupported THEN "E_INTERNAL" ELSE "E_SUCCESS", 0)
    /\ promised' = [promised EXCEPT ![s] = 0]
    /\ UNCHANGED <<fw, wait, delivered>>

\* Mutant of ResetSockets: the loop ends at the first teardown that fails.
ResetSocketsStops ==
    LET torn == {s \in Sockets : \A t \in 0 .. s : sockets[t].type \notin Unsupported} IN
    /\ fw = "up"
    /\ sockets' = [s \in Sockets |-> IF s \in torn THEN Teardown(sockets[s]) ELSE sockets[s]]
    /\ conn' = Delete(UNION {Deleted(sockets[s]) : s \in torn})
    /\ promised' = [s \in Sockets |-> IF s \in torn THEN 0 ELSE promised[s]]
    /\ UNCHANGED <<fw, wait, delivered>>

\* wifi_reset_state(false): every slot is torn down, the results are ignored.
ResetSockets ==
    /\ fw = "up"
    /\ sockets' = [s \in Sockets |-> Teardown(sockets[s])]
    /\ conn' = Delete(UNION {Deleted(sockets[s]) : s \in Sockets})
    /\ promised' = [s \in Sockets |-> 0]
    /\ UNCHANGED <<fw, wait, delivered>>

\* wifi_reset_state(true) after the host pulls the reset pin.
Reboot ==
    /\ sockets' = [s \in Sockets |-> EmptySlot]
    /\ conn' = [n \in Netconns |-> FreeConn]
    /\ fw' = "up"
    /\ wait' = NULL
    /\ ret' = NoResult
    /\ delivered' = [s \in Sockets |-> <<>>]
    /\ promised' = [s \in Sockets |-> 0]

-----------------------------------------------------------------------------
\* Mutant of Unallocated: a slot that is not connected yet counts as unallocated.
UnallocatedOrIdle == {s \in Sockets : sockets[s].type \in {"UNALLOCATED", "IDLE"}}

Unallocated == {s \in Sockets : sockets[s].type = "UNALLOCATED"}

GetSocket ==
    /\ fw = "up"
    /\ \/ \E s \in Unallocated :
            /\ \A t \in Unallocated : s <= t
            /\ sockets' = [sockets EXCEPT ![s].type = "IDLE"]
            /\ ret' = Result("E_SUCCESS", s)
            /\ UNCHANGED <<conn, fw, wait, delivered, promised>>
       \/ Unallocated = {} /\ Return("E_SOCKETS_EXHAUSTED", 0)

ConnectRejected(s) ==
    \/ sockets[s].type # "IDLE" /\ Return("E_INVALID_PARAMETER", 0)
    \/ sockets[s].type = "IDLE" /\ Return("E_HOST_NOT_FOUND", 0)

\* The slot takes the mode before the mode is looked at.
ConnectUnsupported(s, mode) ==
    /\ sockets[s].type = "IDLE"
    /\ mode # "TCP"
    /\ sockets' = [sockets EXCEPT ![s].type = mode]
    /\ ret' = Result("E_INTERNAL", 0)
    /\ UNCHANGED <<conn, fw, wait, delivered, promised>>

\* Mutant of Connecting: without the state of a connect that failed.
ConnectingKeepsState(psi, n, state) ==
    [psi EXCEPT !.type = "TCP", !.pnc = n, !.state = IF state = CLOSED THEN @ ELSE state]

\* The slot with its new netconn, after the connect.
Connecting(psi, n, state) == [psi EXCEPT !.type = "TCP", !.pnc = n, !.state = state]

TcpConnect(s) ==
    /\ sockets[s].type = "IDLE"
    /\ \/ /\ \A n \in Netconns : conn[n].st # "free"
          /\ sockets' = [sockets EXCEPT ![s].type = "TCP", ![s].pnc = NULL]
          /\ ret' = Result("E_NOMEM", 0)
          /\ UNCHANGED <<conn, delivered>>
       \/ \E n \in Netconns :
            /\ conn[n].st = "free"
            /\ ret' = Result("E_SUCCESS", 0)
            /\ delivered' = [delivered EXCEPT ![s] = <<>>]
            /\ \/ /\ conn' = [conn EXCEPT ![n] = OpenConn]
                  /\ sockets' = [sockets EXCEPT ![s] = Connecting(@, n, ESTABLISHED)]
               \/ /\ \E hasPcb \in BOOLEAN : conn' = [conn EXCEPT ![n] = FailedConn(hasPcb)]
                  /\ sockets' = [sockets EXCEPT ![s] = Connecting(@, n, CLOSED)]
    /\ UNCHANGED <<fw, wait, promised>>

SocketConnect(s, mode) ==
    /\ fw = "up"
    /\ \/ ConnectRejected(s)
       \/ ConnectUnsupported(s, mode)
       \/ mode = "TCP" /\ TcpConnect(s)

GetSocketState(s) ==
    /\ fw = "up"
    /\ Return("E_SUCCESS", sockets[s].state)

-----------------------------------------------------------------------------
\* The slot after netconn_recv has put a netbuf of k bytes in it.
WithNetbuf(psi, k) == [psi EXCEPT !.pbuf = Netbuf(psi.pnc, k), !.dlen = k]

\* Mutants of Available: the operands swapped in an int, and without the offset.
AvailableSwapped(psi) == psi.offset - psi.dlen
AvailableFromStart(psi) == psi.dlen % 65536

Available(psi) == (psi.dlen - psi.offset) % 65536

Announce(s, psi) ==
    /\ sockets' = [sockets EXCEPT ![s] = psi]
    /\ ret' = Result("E_SUCCESS", Available(psi))
    /\ promised' = [promised EXCEPT ![s] = Available(psi)]
    /\ UNCHANGED <<fw, wait, delivered>>

AvailTcp(s) ==
    LET psi == sockets[s] IN
    \/ psi.pbuf # NULL /\ Announce(s, psi) /\ UNCHANGED conn
    \/ psi.pbuf = NULL /\ psi.pnc = NULL /\ Undefined
    \/ /\ psi.pbuf = NULL /\ psi.pnc # NULL
       /\ \/ /\ HasData(psi.pnc)
             /\ \E k \in 1 .. conn[psi.pnc].rcvd - conn[psi.pnc].taken :
                  conn' = Recv(psi.pnc, k) /\ Announce(s, WithNetbuf(psi, k))
          \/ /\ ~HasData(psi.pnc)  \* a timeout or an error: both are answered with 0
             /\ ret' = Result("E_SUCCESS", 0)
             /\ promised' = [promised EXCEPT ![s] = 0]
             /\ UNCHANGED <<sockets, conn, fw, wait, delivered>>

AvailData(s) ==
    /\ fw = "up"
    /\ \/ sockets[s].type = "TCP" /\ AvailTcp(s)
       \/ sockets[s].type # "TCP" /\ Return("E_UNSUPPORTED", 0)

-----------------------------------------------------------------------------
ToCopy(psi, want) ==
    LET held == psi.dlen - psi.offset IN IF want < held THEN want ELSE held

\* Mutant of AfterCopy: without psi->offset += to_copy.
AfterCopyStays(psi, k) ==
    IF psi.offset + k >= psi.dlen
    THEN [psi EXCEPT !.offset = 0, !.dlen = 0, !.pbuf = NULL]
    ELSE psi

\* The slot after the copy: an exhausted netbuf is freed.
AfterCopy(psi, k) ==
    IF psi.offset + k >= psi.dlen
    THEN [psi EXCEPT !.offset = 0, !.dlen = 0, !.pbuf = NULL]
    ELSE [psi EXCEPT !.offset = @ + k]

\* One turn of the read loop.  A TCP netbuf holds at least a byte, so the
\* loop never takes a second one.
Copy(s, psi, want) ==
    LET k == ToCopy(psi, want) IN
    /\ sockets' = [sockets EXCEPT ![s] = AfterCopy(psi, k)]
    /\ delivered' = [delivered EXCEPT ![s] = @ \o Bytes(psi.pbuf.first + psi.offset, k)]
    /\ promised' = [promised EXCEPT ![s] = IF k < @ THEN @ - k ELSE 0]
    /\ ret' = Result("E_SUCCESS", k)

\* netconn_recv in the read, which waits without a timeout (recv_timeout is 0).
RecvAndCopy(s, want) ==
    LET psi == [sockets[s] EXCEPT !.offset = 0]
        n == psi.pnc IN
    \/ /\ HasData(n)
       /\ \E k \in 1 .. conn[n].rcvd - conn[n].taken :
            conn' = Recv(n, k) /\ Copy(s, WithNetbuf(psi, k), want)
    \/ /\ RecvFails(n)
       /\ ret' = Result("E_INTERNAL", 0)
       /\ UNCHANGED <<sockets, conn, delivered, promised>>

ReadTcp(s, want) ==
    LET psi == sockets[s] IN
    \/ want = 0 /\ Return("E_SUCCESS", 0)
    \/ want > 0 /\ psi.pbuf # NULL /\ Copy(s, psi, want) /\ UNCHANGED <<conn, fw, wait>>
    \/ want > 0 /\ psi.pbuf = NULL /\ psi.pnc = NULL /\ Undefined
    \/ /\ want > 0 /\ psi.pbuf = NULL /\ psi.pnc # NULL
       /\ \/ RecvAndCopy(s, want) /\ UNCHANGED <<fw, wait>>
          \/ /\ ~HasData(psi.pnc) /\ ~RecvFails(psi.pnc)
             /\ fw' = "blocked"
             /\ wait' = [sock |-> s, want |-> want]
             /\ ret' = NoResult
             /\ UNCHANGED <<sockets, conn, delivered, promised>>

ReadData(s, want) ==
    /\ fw = "up"
    /\ \/ sockets[s].type = "TCP" /\ ReadTcp(s, want)
       \/ sockets[s].type # "TCP" /\ Return("E_INTERNAL", 0)

\* netconn_recv returns to the read that was waiting in it.
ReadWakes ==
    /\ fw = "blocked"
    /\ RecvAndCopy(wait.sock, wait.want)
    /\ fw' = "up"
    /\ wait' = NULL

-----------------------------------------------------------------------------
\* Mutants of Note: the flush does not clear it, the write does not set it.
NoteStays(psi, on) == [psi EXCEPT !.nagle_enabled = @ \/ on]
NoteNever(psi, on) == [psi EXCEPT !.nagle_enabled = @ /\ on]

\* The slot after nagle_enabled is written.
Note(psi, on) == [psi EXCEPT !.nagle_enabled = on]

\* The write first turns Nagle on, through the pcb, once per burst of writes;
\* netconn_write then takes all the data or fails.
SendTcp(s) ==
    LET psi == sockets[s]
        n == psi.pnc IN
    \/ n = NULL /\ Undefined
    \/ ~psi.nagle_enabled /\ ~HasPcb(n) /\ Undefined
    \/ /\ n # NULL
       /\ ~psi.nagle_enabled => HasPcb(n)
       /\ sockets' = [sockets EXCEPT ![s] = Note(@, TRUE)]
       /\ \E ok \in BOOLEAN :
            /\ ok => conn[n].st \in {"open", "fin"}
            /\ conn' = [conn EXCEPT ![n].nagle = @ \/ ~psi.nagle_enabled,
                                    ![n].wrote = @ \/ ok]
            /\ ret' = Result(IF ok THEN "E_SUCCESS" ELSE "E_INTERNAL", 0)
       /\ UNCHANGED <<fw, wait, delivered, promised>>

SendData(s) ==
    /\ fw = "up"
    /\ \/ sockets[s].type = "TCP" /\ SendTcp(s)
       \/ sockets[s].type # "TCP" /\ Return("E_INTERNAL", 0)

\* The TCP case falls through to the default: the result is E_INTERNAL.
WriteFlush(s) ==
    LET psi == sockets[s]
        n == psi.pnc IN
    /\ fw = "up"
    /\ \/ ~(psi.type = "TCP" /\ psi.nagle_enabled) /\ Return("E_INTERNAL", 0)
       \/ /\ psi.type = "TCP" /\ psi.nagle_enabled
          /\ \/ ~HasPcb(n) /\ Undefined
             \/ /\ HasPcb(n)
                /\ conn' = [conn EXCEPT ![n].nagle = FALSE]
                /\ sockets' = [sockets EXCEPT ![s] = Note(@, FALSE)]
                /\ ret' = Result("E_INTERNAL", 0)
                /\ UNCHANGED <<fw, wait, delivered, promised>>

-----------------------------------------------------------------------------
(* The peers and the network, at any time.  A reset drops the pcb. *)

PeerSend(n) ==
    /\ conn[n].st = "open"
    /\ conn[n].rcvd < MaxRx
    /\ conn' = [conn EXCEPT ![n].rcvd = @ + 1]
    /\ UNCHANGED <<sockets, fw, wait, ret, delivered, promised>>

PeerClose(n) ==
    /\ conn[n].st = "open"
    /\ conn' = [conn EXCEPT ![n].st = "fin"]
    /\ UNCHANGED <<sockets, fw, wait, ret, delivered, promised>>

PeerReset(n) ==
    /\ conn[n].st \in {"open", "fin"}
    /\ conn' = [conn EXCEPT ![n].st = "rst", ![n].pcb = FALSE]
    /\ UNCHANGED <<sockets, fw, wait, ret, delivered, promised>>

-----------------------------------------------------------------------------
WifiReset == ResetSockets /\ ret' = NoResult

Call(s) ==
    \/ StopSocket(s)
    \/ \E mode \in Modes : SocketConnect(s, mode)
    \/ GetSocketState(s)
    \/ AvailData(s)
    \/ \E want \in ReadSizes : ReadData(s, want)
    \/ SendData(s)
    \/ WriteFlush(s)

Peer(n) == PeerSend(n) \/ PeerClose(n) \/ PeerReset(n)

Next ==
    \/ GetSocket
    \/ WifiReset
    \/ Reboot
    \/ ReadWakes
    \/ \E s \in Sockets : Call(s)
    \/ \E n \in Netconns : Peer(n)

Spec == Init /\ [][Next]_vars

-----------------------------------------------------------------------------
SlotTypes == {"UNALLOCATED", "IDLE", "TCP"} \cup Unsupported
SlotStates == {CLOSED, ESTABLISHED}
Netbufs == [first : Nat \ {0}, len : Nat \ {0}]
SocketInfo == [type : SlotTypes, state : SlotStates, nagle_enabled : BOOLEAN,
               pnc : Netconns \cup {NULL}, pbuf : Netbufs \cup {NULL},
               offset : Nat, dlen : Nat]
ConnInfo == [st : {"free", "open", "fin", "rst", "failed"}, pcb : BOOLEAN,
             nagle : BOOLEAN, wrote : BOOLEAN, rcvd : Nat, taken : Nat]
Waits == [sock : Sockets, want : Nat \ {0}]
Errors == {"none", "E_SUCCESS", "E_INTERNAL", "E_INVALID_PARAMETER", "E_SSID_TOO_LONG",
           "E_PASSWORD_TOO_LONG", "E_SCAN_ERROR", "E_SSID_NOT_FOUND", "E_CONNECT_ERROR",
           "E_DHCP_ERROR", "E_HOST_NOT_FOUND", "E_SOCKETS_EXHAUSTED", "E_NOMEM",
           "E_UNSUPPORTED"}

\* Every variable keeps its type: the slots are those of socket_info_t, and the
\* loop waits in a read exactly when it is blocked.
TypeOK ==
    /\ sockets \in [Sockets -> SocketInfo]
    /\ conn \in [Netconns -> ConnInfo]
    /\ fw \in {"up", "blocked", "undefined"}
    /\ wait \in Waits \cup {NULL}
    /\ ret \in [err : Errors, val : Nat]
    /\ delivered \in [Sockets -> Seq(Nat)]
    /\ promised \in [Sockets -> Nat]

Live(n) == conn[n].st \in {"open", "fin", "rst"}
Owns(s, n) == sockets[s].pnc = n
Connected(s) == /\ sockets[s].type = "TCP"
                /\ sockets[s].state = ESTABLISHED
                /\ sockets[s].pnc # NULL

\* No connection that was ever established is leaked: its netconn stays the pnc
\* of a TCP slot in state ESTABLISHED, the only slots teardown closes, through
\* every close, reconnect and AP change.  (A failed connect's netconn is leaked.)
LiveConnsOwned ==
    \A n \in Netconns : Live(n) => \E s \in Sockets : Owns(s, n) /\ Connected(s)

\* A slot's pnc never points at a netconn that was deleted, nor at one another
\* slot points at: the NULL teardown stores, and the pointer it leaves behind in
\* a CLOSED slot, are both safe.
PncNeverDangles ==
    /\ \A s \in Sockets : sockets[s].pnc # NULL => conn[sockets[s].pnc].st # "free"
    /\ \A s, t \in Sockets :
         sockets[s].pnc = sockets[t].pnc /\ sockets[s].pnc # NULL => s = t

\* The state a host polls tells how the connect of this slot went; it never
\* comes from an earlier use of the slot, unless netconn_new failed (pnc is NULL).
StateTellsConnect ==
    \A s \in Sockets :
        sockets[s].type = "TCP" /\ sockets[s].pnc # NULL =>
            (sockets[s].state = ESTABLISHED <=> conn[sockets[s].pnc].st # "failed")

\* A held netbuf belongs to the slot's own live connection and to its last recv,
\* with bytes left in it; a slot without one has offset and dlen 0, which
\* avail_data relies on when it subtracts an offset it never resets.
HeldDataIsOwn ==
    \A s \in Sockets :
        LET psi == sockets[s] IN
        IF psi.pbuf = NULL
        THEN psi.offset = 0 /\ psi.dlen = 0
        ELSE /\ Connected(s)
             /\ psi.offset < psi.dlen
             /\ psi.dlen = psi.pbuf.len
             /\ psi.pbuf.first + psi.pbuf.len = conn[psi.pnc].taken + 1

Held(s) == sockets[s].dlen - sockets[s].offset

\* What the reads of a connection have returned is what its peer sent, each byte
\* once and in order, up to what the slot still holds.
DeliveredInOrder ==
    \A s \in Sockets :
        Connected(s) =>
            delivered[s] = Bytes(1, conn[sockets[s].pnc].taken - Held(s))

\* Bytes avail_data has announced are still there: a read that follows the
\* announcement finds them held, so it never enters netconn_recv, where the
\* whole firmware would stand still.
AnnouncedBytesHeld ==
    \A s \in Sockets :
        promised[s] > 0 => sockets[s].pbuf # NULL /\ promised[s] <= Held(s)

\* The firmware's note that Nagle is on is never wrong about the pcb, although it
\* survives teardown and the next connection inherits it: otherwise a write
\* would skip turning Nagle on, or a flush would skip turning it off.
NagleNoteTrue ==
    \A s \in Sockets :
        Connected(s) /\ conn[sockets[s].pnc].pcb =>
            /\ sockets[s].nagle_enabled => conn[sockets[s].pnc].nagle
            /\ conn[sockets[s].pnc].wrote /\ conn[sockets[s].pnc].nagle
                   => sockets[s].nagle_enabled

\* With a netconn for every slot, the firmware dereferences a null pointer only
\* if a peer has reset its connection or a connect has failed since the boot: the
\* pool never runs out otherwise, whatever the order of opens, closes and AP
\* changes, and a slot that connected keeps a pnc as long as it is TCP.
UndefinedOnlyAfterFault ==
    fw = "undefined" => \E n \in Netconns : conn[n].st \in {"failed", "rst"}

\* After a flush that found its connection alive, Nagle no longer holds back
\* anything the connection has written, whatever the flush returned.
FlushReleasesWrites ==
    [][\A s \in Sockets :
          WriteFlush(s) /\ Connected(s) /\ fw' = "up" /\ conn[sockets[s].pnc].pcb
            => ~(conn[sockets[s].pnc].wrote /\ conn'[sockets[s].pnc].nagle)]_vars

-----------------------------------------------------------------------------
(* The table implements the service: a slot's phase follows from its fields. *)

Phase(s) ==
    CASE sockets[s].type = "UNALLOCATED" -> "free"
      [] sockets[s].type = "IDLE" -> "reserved"
      [] sockets[s].type \in Unsupported -> "stuck"
      [] OTHER -> IF Connected(s) THEN "connected" ELSE "dead"

Service == INSTANCE SocketService WITH
    Slots <- Sockets,
    phase <- [s \in Sockets |-> Phase(s)],
    arrived <- [s \in Sockets |-> IF Connected(s) THEN conn[sockets[s].pnc].rcvd ELSE 0],
    read <- [s \in Sockets |-> IF Connected(s) THEN delivered[s] ELSE <<>>]

\* Whatever the table does with netconns, netbufs and offsets, a host sees the
\* slots and byte streams SocketService promises: no byte of an earlier
\* connection, none lost or repeated, and no slot used for two connections.
ImplementsSocketService == Service!Spec

=============================================================================
