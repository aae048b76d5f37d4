-------------------------- MODULE NinaFirmwareProofs --------------------------
(***************************************************************************)
(* Proofs about NinaFirmware, for any number of slots and netconns, any    *)
(* access points, networks and names.                                      *)
(*                                                                         *)
(* A handler makes a step of the socket table, of the station, or of both, *)
(* and both write "ret": what SocketTableProofs and WifiStationProofs show *)
(* of the two holds here because each half sees a step of its own or only  *)
(* a new ret.  Those modules speak of their own copies of the definitions; *)
(* the "Same" lemmas say that they are the same steps.                     *)
(***************************************************************************)
EXTENDS NinaFirmware, TLAPS

TP == INSTANCE SocketTableProofs
SP == INSTANCE WifiStationProofs

IInv == TP!IInv /\ SP!IInv

Rets == [err : TP!Errors, val : Nat]

-----------------------------------------------------------------------------
(* What the instances assume *)

LEMMA TableAssumed ==
    /\ MaxSockets \in Nat \ {0}
    /\ Modes \subseteq {"TCP"} \cup TP!Unsupported
    /\ ReadSizes \subseteq Nat
    /\ MaxRx \in Nat
    /\ NULL \notin Netconns /\ NULL \notin [first: Nat, len: Nat]
BY TableAssumption DEF Table!MaxSocketsAssumption, Table!ModesAssumption,
       Table!ReadSizesAssumption, Table!MaxRxAssumption, Table!NULLAssumption,
       Table!Unsupported, TP!Unsupported

LEMMA StationAssumed ==
    /\ NULL \notin APs /\ SsidOf \in [APs -> Ssids \ {NoSsid}]
    /\ DottedQuads \subseteq Names /\ NULL \notin Names /\ AddressOf \in [Names -> Nat \ {0}]
BY StationAssumption DEF Station!ApsAssumption, Station!NamesAssumption

-----------------------------------------------------------------------------
(* The same steps *)

LEMMA SameInit == ASSUME Table!Init PROVE TP!Init
BY DEF Table!Init, TP!Init, Table!Sockets, TP!Sockets, Table!EmptySlot, TP!EmptySlot,
       Table!FreeConn, TP!FreeConn, Table!NoResult, TP!NoResult, Table!Result, TP!Result,
       Table!CLOSED, TP!CLOSED

LEMMA SameReset == ASSUME Table!ResetSockets PROVE TP!ResetSockets
BY DEF Table!ResetSockets, TP!ResetSockets, Table!Sockets, TP!Sockets, Table!Teardown,
       TP!Teardown, Table!Delete, TP!Delete, Table!Deleted, TP!Deleted, Table!Closes,
       TP!Closes, Table!Unsupported, TP!Unsupported, Table!CLOSED, TP!CLOSED,
       Table!FreeConn, TP!FreeConn

LEMMA SameReboot == ASSUME Table!Reboot PROVE TP!Reboot
BY DEF Table!Reboot, TP!Reboot, Table!Sockets, TP!Sockets, Table!EmptySlot, TP!EmptySlot,
       Table!FreeConn, TP!FreeConn, Table!NoResult, TP!NoResult, Table!Result, TP!Result,
       Table!CLOSED, TP!CLOSED

LEMMA SameUndefined == ASSUME Table!Undefined PROVE TP!Undefined
BY DEF Table!Undefined, TP!Undefined, Table!NoResult, TP!NoResult, Table!Result, TP!Result

LEMMA SameGetSocket == ASSUME Table!GetSocket PROVE TP!GetSocket
BY DEF Table!GetSocket, TP!GetSocket, Table!Unallocated, TP!Unallocated, Table!Sockets,
       TP!Sockets, Table!Return, TP!Return, Table!Result, TP!Result

LEMMA SameConnect ==
    ASSUME NEW s, NEW mode, Table!SocketConnect(s, mode)
    PROVE  TP!SocketConnect(s, mode)
BY DEF Table!SocketConnect, TP!SocketConnect, Table!ConnectRejected, TP!ConnectRejected,
       Table!ConnectUnsupported, TP!ConnectUnsupported, Table!TcpConnect, TP!TcpConnect,
       Table!Connecting, TP!Connecting, Table!OpenConn, TP!OpenConn, Table!FailedConn,
       TP!FailedConn, Table!FreeConn, TP!FreeConn, Table!CLOSED, TP!CLOSED,
       Table!ESTABLISHED, TP!ESTABLISHED, Table!Return, TP!Return, Table!Result, TP!Result

LEMMA SameStop == ASSUME NEW s, Table!StopSocket(s) PROVE TP!StopSocket(s)
BY DEF Table!StopSocket, TP!StopSocket, Table!Teardown, TP!Teardown, Table!Delete,
       TP!Delete, Table!Deleted, TP!Deleted, Table!Closes, TP!Closes, Table!Unsupported,
       TP!Unsupported, Table!CLOSED, TP!CLOSED, Table!FreeConn, TP!FreeConn,
       Table!Result, TP!Result

LEMMA SameState == ASSUME NEW s, Table!GetSocketState(s) PROVE TP!GetSocketState(s)
BY DEF Table!GetSocketState, TP!GetSocketState, Table!Return, TP!Return, Table!Result,
       TP!Result

LEMMA SameAnnounce == ASSUME NEW s, NEW psi, Table!Announce(s, psi) PROVE TP!Announce(s, psi)
BY DEF Table!Announce, TP!Announce, Table!Available, TP!Available, Table!Result, TP!Result

LEMMA SameAvail == ASSUME NEW s, Table!AvailData(s) PROVE TP!AvailData(s)
<1>1. ASSUME Table!AvailTcp(s) PROVE TP!AvailTcp(s)
  BY <1>1, SameAnnounce, SameUndefined
     DEF Table!AvailTcp, TP!AvailTcp, Table!WithNetbuf, TP!WithNetbuf, Table!Netbuf,
         TP!Netbuf, Table!Recv, TP!Recv, Table!HasData, TP!HasData, Table!Result, TP!Result
<1> QED
  BY <1>1 DEF Table!AvailData, TP!AvailData, Table!Return, TP!Return, Table!Result, TP!Result

LEMMA SameRecvAndCopy ==
    ASSUME NEW s, NEW want, Table!RecvAndCopy(s, want)
    PROVE  TP!RecvAndCopy(s, want)
BY DEF Table!RecvAndCopy, TP!RecvAndCopy, Table!HasData, TP!HasData, Table!RecvFails,
       TP!RecvFails, Table!Recv, TP!Recv, Table!WithNetbuf, TP!WithNetbuf, Table!Netbuf,
       TP!Netbuf, Table!Copy, TP!Copy, Table!ToCopy, TP!ToCopy, Table!AfterCopy,
       TP!AfterCopy, Table!Bytes, TP!Bytes, Table!Result, TP!Result

LEMMA SameRead == ASSUME NEW s, NEW want, Table!ReadData(s, want) PROVE TP!ReadData(s, want)
BY SameRecvAndCopy
   DEF Table!ReadData, TP!ReadData, Table!ReadTcp, TP!ReadTcp, Table!HasData, TP!HasData,
       Table!RecvFails, TP!RecvFails, Table!Copy, TP!Copy, Table!ToCopy, TP!ToCopy,
       Table!AfterCopy, TP!AfterCopy, Table!Bytes, TP!Bytes, Table!Undefined,
       TP!Undefined, Table!NoResult, TP!NoResult, Table!Return, TP!Return, Table!Result,
       TP!Result

LEMMA SameWakes == ASSUME Table!ReadWakes PROVE TP!ReadWakes
BY SameRecvAndCopy DEF Table!ReadWakes, TP!ReadWakes

LEMMA SameSend == ASSUME NEW s, Table!SendData(s) PROVE TP!SendData(s)
BY DEF Table!SendData, TP!SendData, Table!SendTcp, TP!SendTcp, Table!HasPcb, TP!HasPcb,
       Table!Note, TP!Note, Table!Undefined, TP!Undefined, Table!NoResult, TP!NoResult,
       Table!Return, TP!Return, Table!Result, TP!Result

LEMMA SameFlush == ASSUME NEW s, Table!WriteFlush(s) PROVE TP!WriteFlush(s)
BY DEF Table!WriteFlush, TP!WriteFlush, Table!HasPcb, TP!HasPcb, Table!Note, TP!Note,
       Table!Undefined, TP!Undefined, Table!NoResult, TP!NoResult, Table!Return,
       TP!Return, Table!Result, TP!Result

LEMMA SamePeer == ASSUME NEW n, Table!Peer(n) PROVE TP!Peer(n)
BY DEF Table!Peer, TP!Peer, Table!PeerSend, TP!PeerSend, Table!PeerClose, TP!PeerClose,
       Table!PeerReset, TP!PeerReset

\* Station steps.
LEMMA SameJoin ==
    ASSUME NEW ssid, NEW password, Station!Connect(ssid, password)
    PROVE  SP!Connect(ssid, password)
BY DEF Station!Connect, SP!Connect, Station!ScanFails, SP!ScanFails,
       Station!NotFound, SP!NotFound, Station!AssociationFails, SP!AssociationFails,
       Station!DhcpFails, SP!DhcpFails, Station!Joins, SP!Joins,
       Station!Candidates, SP!Candidates, Station!Found, SP!Found,
       Station!IdleStation, SP!IdleStation, Station!Target, SP!Target,
       Station!Result, SP!Result, Station!IDLE, SP!IDLE,
       Station!CONNECTED, SP!CONNECTED, Station!NO_SSID_AVAIL, SP!NO_SSID_AVAIL,
       Station!CONNECT_FAILED, SP!CONNECT_FAILED

LEMMA SameResolve ==
    ASSUME NEW name, Station!GetHostByName(name)
    PROVE  SP!GetHostByName(name)
BY DEF Station!GetHostByName, SP!GetHostByName, Station!Result, SP!Result

LEMMA SameStationReboot == ASSUME Station!Reboot PROVE SP!Reboot
BY DEF Station!Reboot, SP!Reboot, Station!IdleStation, SP!IdleStation, Station!IDLE,
       SP!IDLE, Station!Result, SP!Result

LEMMA SameStationInit == ASSUME Station!Init PROVE SP!Init
BY DEF Station!Init, SP!Init, Station!IdleStation, SP!IdleStation, Station!IDLE,
       SP!IDLE, Station!Result, SP!Result

LEMMA SameRadio ==
    ASSUME NEW a, Station!ApGone(a) \/ Station!ApAppears(a)
    PROVE  SP!ApGone(a) \/ SP!ApAppears(a)
BY DEF Station!ApGone, SP!ApGone, Station!ApAppears, SP!ApAppears

-----------------------------------------------------------------------------
(* What a step of one half leaves of the other's invariant *)

\* Only the result of the last call changes, if anything does.
LEMMA TableAtRest ==
    ASSUME TP!IInv, UNCHANGED tableVars, ret' \in Rets
    PROVE  TP!IInv'
<1>1. UNCHANGED <<sockets, conn, fw, wait, delivered, promised>>
  BY DEF tableVars
<1>2. TP!TypeOK'
  BY <1>1 DEF TP!IInv, TP!TypeOK, Rets
<1>3. TP!SlotsInv'
  BY <1>1 DEF TP!IInv, TP!SlotsInv, TP!Shared, TP!Live, TP!Owns
<1> QED
  BY <1>1, <1>2, <1>3 DEF TP!IInv, TP!WaitInv

LEMMA StationAtRest == ASSUME SP!IInv, UNCHANGED stationVars PROVE SP!IInv'
BY DEF stationVars, SP!IInv, SP!TypeOK, SP!ConnectedMeansLeased

LEMMA RetTyped == ASSUME TP!IInv PROVE ret \in Rets
BY DEF TP!IInv, TP!TypeOK, Rets

\* The station's errors are errors of wifi_api_*, its values numbers.
LEMMA StationStatus == SP!Stations = [status : {0, 1, 3, 4},
                                      ssid : Ssids \cup {NoSsid}, ap : APs \cup {NULL},
                                      password : Passwords \cup {NULL}]
BY DEF SP!Stations, SP!IDLE, SP!NO_SSID_AVAIL, SP!CONNECTED, SP!CONNECT_FAILED

LEMMA QueryTyped ==
    ASSUME SP!IInv, Station!ConnectRejected \/ Station!ConnStatus \/ Station!ReadResolved
    PROVE  ret' \in Rets /\ UNCHANGED stationVars
<1>1. station.status \in Nat /\ resolved \in Nat
  BY StationStatus DEF SP!IInv, SP!TypeOK
<1> QED
  BY <1>1 DEF Station!ConnectRejected, Station!ConnStatus, Station!ReadResolved,
       Station!Result, Station!stationVars, stationVars, Rets, TP!Errors

LEMMA JoinTyped ==
    ASSUME NEW ssid, NEW password, Station!Connect(ssid, password)
    PROVE  ret' \in Rets
<1>1. PICK err \in TP!Errors : ret' = [err |-> err, val |-> 0]
  <2>1. {"E_SCAN_ERROR", "E_SSID_NOT_FOUND", "E_CONNECT_ERROR", "E_DHCP_ERROR", "E_SUCCESS"}
           \subseteq TP!Errors
    BY DEF TP!Errors
  <2>2. \E err \in {"E_SCAN_ERROR", "E_SSID_NOT_FOUND", "E_CONNECT_ERROR", "E_DHCP_ERROR",
                   "E_SUCCESS"} : ret' = Station!Result(err, 0)
    BY DEF Station!Connect, Station!ScanFails, Station!NotFound, Station!AssociationFails,
           Station!DhcpFails, Station!Joins
  <2> QED
    BY <2>1, <2>2 DEF Station!Result
<1> QED
  BY <1>1 DEF Rets

LEMMA ResolveTyped ==
    ASSUME NEW name, Station!GetHostByName(name)
    PROVE  ret' \in Rets
BY DEF Station!GetHostByName, Station!Result, Rets, TP!Errors

-----------------------------------------------------------------------------
(* The handlers *)

\* A command of the station alone, with whatever it returns.
LEMMA StationOnly ==
    ASSUME IInv, UNCHANGED tableVars, ret' \in Rets, SP!Next \/ UNCHANGED stationVars
    PROVE  IInv'
<1>1. TP!IInv /\ SP!IInv
  BY DEF IInv
<1>2. SP!IInv'
  BY <1>1, StationAtRest, SP!NextIInv, StationAssumed
<1> QED
  BY <1>1, <1>2, TableAtRest DEF IInv

\* A command of the table alone.
LEMMA TableOnly ==
    ASSUME IInv, UNCHANGED stationVars, TP!Next \/ TP!Undefined
    PROVE  IInv'
<1>1. TP!IInv /\ SP!IInv
  BY DEF IInv
<1>2. TP!IInv'
  BY <1>1, TP!NextIInv, TP!UndefinedStep, TableAssumed
<1> QED
  BY <1>1, <1>2, StationAtRest DEF IInv

\* wifi_api_connect past its length checks: the teardown and the join are one command.
LEMMA JoinKeeps ==
    ASSUME IInv, NEW ssid \in Ssids, NEW password \in Passwords,
           Table!ResetSockets, Station!Connect(ssid, password)
    PROVE  IInv' /\ \A n \in Netconns : conn'[n].st \in {"free", "failed"}
<1>1. TP!IInv /\ SP!IInv
  BY DEF IInv
<1>2. ret' \in [err : TP!Errors, val : Nat]
  BY JoinTyped DEF Rets
<1>3. TP!IInv' /\ \A n \in Netconns : conn'[n].st \in {"free", "failed"}
  BY <1>1, <1>2, SameReset, TP!ResetSocketsStep, TableAssumed
<1>4. SP!Next
  BY SameJoin DEF SP!Next
<1>5. SP!IInv'
  BY <1>1, <1>4, SP!NextIInv, StationAssumed
<1> QED
  BY <1>3, <1>5 DEF IInv

LEMMA SetPassphraseIInv ==
    ASSUME IInv, NEW ssid \in Ssids, NEW password \in Passwords,
           h_set_passphrase(ssid, password)
    PROVE  IInv'
<1>1. CASE TooLong("SET_PASSPHRASE")
  BY <1>1, QueryTyped, StationOnly DEF TooLong, IInv
<1>2. CASE Table!ResetSockets /\ Station!Connect(ssid, password)
  BY <1>2, JoinKeeps
<1> QED
  BY <1>1, <1>2 DEF h_set_passphrase

LEMMA SetNetIInv == ASSUME IInv, h_set_net PROVE IInv'
<1>1. CASE TooLong("SET_NET")
  BY <1>1, QueryTyped, StationOnly DEF TooLong, IInv
<1>2. CASE Table!Undefined /\ UNCHANGED stationVars
  BY <1>2, SameUndefined, TableOnly
<1> QED
  BY <1>1, <1>2 DEF h_set_net

LEMMA StationCommandIInv == ASSUME IInv, StationCommand PROVE IInv'
<1>1. CASE h_set_net
  BY <1>1, SetNetIInv
<1>2. CASE \E ssid \in Ssids, password \in Passwords : h_set_passphrase(ssid, password)
  BY <1>2, SetPassphraseIInv
<1>3. CASE h_get_conn_status
  BY <1>3, QueryTyped, StationOnly DEF h_get_conn_status, IInv
<1>4. CASE h_get_ip_addr
  BY <1>4, RetTyped, StationOnly DEF h_get_ip_addr, IInv
<1>5. CASE \E name \in Names : h_req_host_by_name(name)
  <2>1. PICK name \in Names : h_req_host_by_name(name)
    BY <1>5
  <2>2. Station!GetHostByName(name) /\ UNCHANGED tableVars
    BY <2>1 DEF h_req_host_by_name
  <2>3. SP!Next
    BY <2>2, SameResolve DEF SP!Next
  <2> QED
    BY <2>2, <2>3, ResolveTyped, StationOnly
<1>6. CASE h_get_host_by_name
  BY <1>6, QueryTyped, StationOnly DEF h_get_host_by_name, IInv
<1> QED
  BY <1>1, <1>2, <1>3, <1>4, <1>5, <1>6 DEF StationCommand

LEMMA SameSlots == Table!Sockets = TP!Sockets
BY DEF Table!Sockets, TP!Sockets

LEMMA SocketCommandCalls ==
    ASSUME NEW s \in Table!Sockets, SocketCommand(s)
    PROVE  TP!Next /\ UNCHANGED stationVars
<1>1. TP!Call(s) /\ UNCHANGED stationVars
  <2>1. CASE \E mode \in Modes : h_start_client_tcp(s, mode)
    BY <2>1, SameConnect DEF h_start_client_tcp, TP!Call
  <2>2. CASE h_stop_client_tcp(s)
    BY <2>2, SameStop DEF h_stop_client_tcp, TP!Call
  <2>3. CASE h_get_client_state_tcp(s)
    BY <2>3, SameState DEF h_get_client_state_tcp, TP!Call
  <2>4. CASE h_avail_data_tcp(s)
    BY <2>4, SameAvail DEF h_avail_data_tcp, TP!Call
  <2>5. CASE \E want \in ReadSizes : h_get_data_buf_tcp(s, want)
    BY <2>5, SameRead DEF h_get_data_buf_tcp, TP!Call
  <2>6. CASE h_send_data_tcp(s)
    BY <2>6, SameSend DEF h_send_data_tcp, TP!Call
  <2>7. CASE h_data_sent_tcp(s)
    BY <2>7, SameFlush DEF h_data_sent_tcp, TP!Call
  <2> QED
    BY <2>1, <2>2, <2>3, <2>4, <2>5, <2>6, <2>7 DEF SocketCommand
<1> QED
  BY <1>1, SameSlots DEF TP!Next

\* Every step of the firmware that is not the station's or the board's leaves the
\* station alone.
LEMMA TableSteps ==
    ASSUME h_get_socket \/ (\E s \in Table!Sockets : SocketCommand(s)) \/ ReadReturns \/ PeerMoves
    PROVE  TP!Next /\ UNCHANGED stationVars
<1>1. CASE h_get_socket
  BY <1>1, SameGetSocket DEF h_get_socket, TP!Next
<1>2. CASE \E s \in Table!Sockets : SocketCommand(s)
  BY <1>2, SocketCommandCalls
<1>3. CASE ReadReturns
  BY <1>3, SameWakes DEF ReadReturns, TP!Next
<1>4. CASE PeerMoves
  BY <1>4, SamePeer DEF PeerMoves, TP!Next
<1> QED
  BY <1>1, <1>2, <1>3, <1>4

LEMMA RebootIInv ==
    ASSUME IInv, Reboot
    PROVE  IInv' /\ \A n \in Netconns : conn'[n].st = "free"
<1>1. TP!Next /\ SP!Next
  BY SameReboot, SameStationReboot DEF Reboot, TP!Next, SP!Next
<1>2. TP!IInv' /\ SP!IInv'
  BY <1>1, TP!NextIInv, SP!NextIInv, TableAssumed, StationAssumed DEF IInv
<1>3. \A n \in Netconns : conn'[n].st = "free"
  BY DEF Reboot, Table!Reboot, Table!FreeConn
<1> QED
  BY <1>2, <1>3 DEF IInv

LEMMA RadioIInv == ASSUME IInv, RadioMoves PROVE IInv' /\ UNCHANGED station
<1>1. PICK a \in APs : Station!ApGone(a) \/ Station!ApAppears(a)
  BY DEF RadioMoves
<1>2. ret' = ret /\ UNCHANGED station
  BY <1>1 DEF Station!ApGone, Station!ApAppears
<1>3. SP!Next
  BY <1>1, SameRadio DEF SP!Next
<1> QED
  BY <1>2, <1>3, RetTyped, StationOnly DEF RadioMoves, IInv

LEMMA InitIInv == Init => IInv
BY SameInit, SameStationInit, TP!InitIInv, SP!InitIInv, TableAssumed, StationAssumed
   DEF Init, IInv

LEMMA NextIInv == IInv /\ [Next]_vars => IInv'
<1> SUFFICES ASSUME IInv, [Next]_vars PROVE IInv'
  OBVIOUS
<1>1. CASE StationCommand
  BY <1>1, StationCommandIInv
<1>2. CASE h_get_socket \/ (\E s \in Table!Sockets : SocketCommand(s)) \/ ReadReturns \/ PeerMoves
  BY <1>2, TableSteps, TableOnly
<1>3. CASE NoHandler \/ UNCHANGED vars
  BY <1>3, RetTyped, StationOnly DEF NoHandler, vars, IInv
<1>4. CASE Reboot
  BY <1>4, RebootIInv
<1>5. CASE RadioMoves
  BY <1>5, RadioIInv
<1> QED
  BY <1>1, <1>2, <1>3, <1>4, <1>5 DEF Next

\* The table's invariant and the station's hold together under the handlers,
\* although both halves write the one result.
THEOREM IInvariant == Spec => []IInv
BY InitIInv, NextIInv, PTL DEF Spec

-----------------------------------------------------------------------------
(* Joins and reboots *)

\* The two results of a command that never reached the teardown.
LEMMA RejectedTells ==
    ASSUME NEW cmd, TooLong(cmd)
    PROVE  ret'.err \in {"E_SSID_TOO_LONG", "E_PASSWORD_TOO_LONG"} /\ UNCHANGED station
BY DEF TooLong, Station!ConnectRejected, Station!Result, Station!stationVars

LEMMA JoinCloses ==
    ASSUME IInv, NEW ssid \in Ssids, NEW password \in Passwords,
           h_set_passphrase(ssid, password),
           ret'.err \notin {"E_SSID_TOO_LONG", "E_PASSWORD_TOO_LONG"}
    PROVE  \A n \in Netconns : conn'[n].st \in {"free", "failed"}
<1>1. Table!ResetSockets /\ Station!Connect(ssid, password)
  BY RejectedTells DEF h_set_passphrase
<1> QED
  BY <1>1, JoinKeeps

\* wifi_api_connect runs wifi_reset_state before it scans: a join that got that far
\* leaves no connection of the network before it open, whatever comes of the join.
THEOREM JoinLeavesNothingOpen == Spec => JoinClosesConnections
<1>1. IInv /\ [Next]_vars =>
        [\A ssid \in Ssids, password \in Passwords :
            h_set_passphrase(ssid, password) /\ ret'.err \notin {"E_SSID_TOO_LONG", "E_PASSWORD_TOO_LONG"}
              => \A n \in Netconns : conn'[n].st \in {"free", "failed"}]_vars
  BY JoinCloses
<1> QED
  BY <1>1, IInvariant, PTL DEF Spec, JoinClosesConnections

\* A step that takes CONNECTED back is a join past its length checks or a reboot.
LEMMA StatusTakenBack ==
    ASSUME IInv, [Next]_vars, station' # station
    PROVE  \/ Reboot
           \/ \E ssid \in Ssids, password \in Passwords :
                  Table!ResetSockets /\ Station!Connect(ssid, password)
<1>1. CASE StationCommand
  <2>1. CASE h_set_net
    <3>1. ~ TooLong("SET_NET")
      BY RejectedTells
    <3>2. UNCHANGED stationVars
      BY <2>1, <3>1 DEF h_set_net
    <3> QED
      BY <3>2 DEF stationVars
  <2>2. CASE \E ssid \in Ssids, password \in Passwords : h_set_passphrase(ssid, password)
    BY <2>2, RejectedTells DEF h_set_passphrase
  <2>3. CASE h_get_conn_status \/ h_get_ip_addr \/ h_get_host_by_name
    BY <2>3 DEF h_get_conn_status, h_get_ip_addr, h_get_host_by_name, Station!ConnStatus,
       Station!ReadResolved, Station!stationVars, stationVars
  <2>4. CASE \E name \in Names : h_req_host_by_name(name)
    BY <2>4 DEF h_req_host_by_name, Station!GetHostByName
  <2> QED
    BY <1>1, <2>1, <2>2, <2>3, <2>4 DEF StationCommand
<1>2. CASE h_get_socket \/ (\E s \in Table!Sockets : SocketCommand(s)) \/ ReadReturns \/ PeerMoves
  BY <1>2, TableSteps DEF stationVars
<1>3. CASE NoHandler \/ UNCHANGED vars
  BY <1>3 DEF NoHandler, vars, stationVars
<1>4. CASE Reboot
  BY <1>4
<1>5. CASE RadioMoves
  BY <1>5, RadioIInv
<1> QED
  BY <1>1, <1>2, <1>3, <1>4, <1>5 DEF Next

\* conn_status goes from CONNECTED to anything else only in a step that leaves no
\* connection open: wifi.status and wifi.sockets are reset together.
THEOREM StatusNeverDisowns == Spec => OpenOnlyWhileJoined
<1>1. IInv /\ [Next]_vars =>
        [station.status = Station!CONNECTED /\ station'.status # Station!CONNECTED
           => LiveConns' = {}]_vars
  <2> SUFFICES ASSUME IInv, [Next]_vars, station.status = Station!CONNECTED,
                      station'.status # Station!CONNECTED
               PROVE  LiveConns' = {}
    OBVIOUS
  <2>1. \A n \in Netconns : conn'[n].st \in {"free", "failed"}
    <3>1. CASE Reboot
      BY <3>1, RebootIInv
    <3>2. CASE \E ssid \in Ssids, password \in Passwords :
                  Table!ResetSockets /\ Station!Connect(ssid, password)
      BY <3>2, JoinKeeps
    <3> QED
      BY <3>1, <3>2, StatusTakenBack
  <2> QED
    BY <2>1 DEF LiveConns, Table!Live
<1> QED
  BY <1>1, IInvariant, PTL DEF Spec, OpenOnlyWhileJoined

-----------------------------------------------------------------------------
(* What each half promises holds of the whole firmware *)

LEMMA TableTyped == ASSUME TP!TypeOK PROVE Table!TypeOK
<1>1. /\ Table!Sockets = TP!Sockets /\ Table!ConnInfo = TP!ConnInfo
      /\ Table!Waits = TP!Waits /\ Table!Errors = TP!Errors
  BY DEF Table!Sockets, TP!Sockets, Table!ConnInfo, TP!ConnInfo, Table!Waits, TP!Waits,
         Table!Errors, TP!Errors
<1>2. Table!SocketInfo = TP!SocketInfo
  BY DEF Table!SocketInfo, TP!SocketInfo, Table!SlotTypes, TP!SlotTypes, Table!SlotStates,
         TP!SlotStates, Table!Netbufs, TP!Netbufs, Table!Unsupported, TP!Unsupported,
         Table!CLOSED, TP!CLOSED, Table!ESTABLISHED, TP!ESTABLISHED
<1> QED
  BY <1>1, <1>2 DEF Table!TypeOK, TP!TypeOK

LEMMA StationTyped == ASSUME SP!TypeOK PROVE Station!TypeOK
BY DEF Station!TypeOK, SP!TypeOK, Station!Stations, SP!Stations, Station!IDLE, SP!IDLE,
       Station!CONNECTED, SP!CONNECTED, Station!NO_SSID_AVAIL, SP!NO_SSID_AVAIL,
       Station!CONNECT_FAILED, SP!CONNECT_FAILED

ReplyInv ==
    /\ reply.kind \in {"none", "reply", "error"}
    /\ fw # "up" => reply = NoReply

LEMMA ReplyKinds ==
    /\ NoReply.kind = "none"
    /\ \A cmd, params : Reply(cmd, params).kind = "reply"
    /\ \A cmd : ErrorReply(cmd).kind = "error"
BY DEF NoReply, Reply, ErrorReply

LEMMA AnswersTyped ==
    ASSUME NEW ok, NEW cmd, NEW params, AnswerIf(ok, cmd, params)
    PROVE  ReplyInv'
BY ReplyKinds DEF AnswerIf, ReplyInv

LEMMA NextReplyInv == ReplyInv /\ [Next]_vars => ReplyInv'
<1> SUFFICES ASSUME ReplyInv, [Next]_vars PROVE ReplyInv'
  OBVIOUS
<1>1. ASSUME NEW cmd, TooLong(cmd) PROVE ReplyInv'
  BY <1>1, ReplyKinds DEF TooLong, ReplyInv, tableVars
<1>2. CASE StationCommand
  <2>1. CASE h_set_net
    BY <1>1, <2>1, ReplyKinds DEF h_set_net, ReplyInv
  <2>2. CASE \E ssid \in Ssids, password \in Passwords : h_set_passphrase(ssid, password)
    BY <1>1, <2>2, AnswersTyped DEF h_set_passphrase
  <2>3. CASE h_get_conn_status \/ h_get_ip_addr \/ h_get_host_by_name
    BY <2>3, ReplyKinds DEF h_get_conn_status, h_get_ip_addr, h_get_host_by_name, tableVars, ReplyInv
  <2>4. CASE \E name \in Names : h_req_host_by_name(name)
    BY <2>4, ReplyKinds DEF h_req_host_by_name, tableVars, ReplyInv
  <2> QED
    BY <1>2, <2>1, <2>2, <2>3, <2>4 DEF StationCommand
<1>3. CASE h_get_socket \/ ReadReturns
  BY <1>3, AnswersTyped DEF h_get_socket, ReadReturns
<1>4. CASE \E s \in Table!Sockets : SocketCommand(s)
  <2>1. PICK s \in Table!Sockets : SocketCommand(s)
    BY <1>4
  <2>2. CASE \E mode \in Modes : h_start_client_tcp(s, mode)
    <3>1. PICK mode \in Modes : h_start_client_tcp(s, mode)
      BY <2>2
    <3>2. fw' = "up"
      BY <3>1 DEF h_start_client_tcp, Table!SocketConnect, Table!ConnectRejected,
         Table!ConnectUnsupported, Table!TcpConnect, Table!Return
    <3> QED
      BY <3>1, <3>2, ReplyKinds DEF h_start_client_tcp, ReplyInv
  <2>3. CASE \/ h_stop_client_tcp(s) \/ h_get_client_state_tcp(s) \/ h_avail_data_tcp(s)
             \/ (\E want \in ReadSizes : h_get_data_buf_tcp(s, want))
             \/ h_send_data_tcp(s) \/ h_data_sent_tcp(s)
    BY <2>3, AnswersTyped DEF h_stop_client_tcp, h_get_client_state_tcp, h_avail_data_tcp,
       h_get_data_buf_tcp, h_send_data_tcp, h_data_sent_tcp
  <2> QED
    BY <2>1, <2>2, <2>3 DEF SocketCommand
<1>5. CASE NoHandler
  BY <1>5, ReplyKinds DEF NoHandler, tableVars, ReplyInv
<1>6. CASE Reboot
  BY <1>6, ReplyKinds DEF Reboot, ReplyInv
<1>7. CASE PeerMoves
  BY <1>7 DEF PeerMoves, Table!Peer, Table!PeerSend, Table!PeerClose, Table!PeerReset, ReplyInv
<1>8. CASE RadioMoves \/ UNCHANGED vars
  BY <1>8 DEF RadioMoves, vars, tableVars, ReplyInv
<1> QED
  BY <1>2, <1>3, <1>4, <1>5, <1>6, <1>7, <1>8 DEF Next

\* Every variable keeps its type, and a firmware that is blocked or past undefined
\* behaviour has sent no reply (spi_dispatch_command never gets that far).
THEOREM TypeCorrect == Spec => []TypeOK
<1>1. Init => ReplyInv
  BY ReplyKinds DEF Init, ReplyInv, Table!Init
<1>2. Spec => []ReplyInv
  BY <1>1, NextReplyInv, PTL DEF Spec
<1>3. IInv /\ ReplyInv => TypeOK
  BY TableTyped, StationTyped DEF IInv, TP!IInv, SP!IInv, ReplyInv, TypeOK
<1> QED
  BY <1>2, <1>3, IInvariant, PTL

\* Under the handlers as under the table's own calls, no live connection is without
\* its slot, no slot's pnc dangles, and no announced byte is taken away.
THEOREM TableStaysSafe ==
    Spec => [](Table!LiveConnsOwned /\ Table!PncNeverDangles /\ Table!AnnouncedBytesHeld)
<1>1. ASSUME TP!LiveConnsOwned PROVE Table!LiveConnsOwned
  BY <1>1 DEF TP!LiveConnsOwned, Table!LiveConnsOwned, TP!Live, Table!Live, TP!Owns,
     Table!Owns, TP!Connected, Table!Connected, TP!ESTABLISHED, Table!ESTABLISHED,
     TP!Sockets, Table!Sockets
<1>2. ASSUME TP!PncNeverDangles PROVE Table!PncNeverDangles
  BY <1>2, SameSlots DEF TP!PncNeverDangles, Table!PncNeverDangles
<1>3. ASSUME TP!AnnouncedBytesHeld PROVE Table!AnnouncedBytesHeld
  BY <1>3, SameSlots DEF TP!AnnouncedBytesHeld, Table!AnnouncedBytesHeld, TP!Held, Table!Held
<1>4. IInv => Table!LiveConnsOwned /\ Table!PncNeverDangles /\ Table!AnnouncedBytesHeld
  BY <1>1, <1>2, <1>3, TP!IInvImplies, TableAssumed DEF IInv
<1> QED
  BY <1>4, IInvariant, PTL

\* A host that reads CONNECTED from h_get_conn_status has its address from the
\* network "wifi" names, whatever socket commands came in between.
THEOREM HostReadsLeasedStatus == Spec => []Station!ConnectedMeansLeased
<1>1. IInv => Station!ConnectedMeansLeased
  BY DEF IInv, SP!IInv, SP!ConnectedMeansLeased, Station!ConnectedMeansLeased,
         SP!CONNECTED, Station!CONNECTED
<1> QED
  BY <1>1, IInvariant, PTL

=============================================================================
