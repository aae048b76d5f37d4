---------------------------- MODULE NinaFirmware ----------------------------
(***************************************************************************)
(* The command handlers of src/handlers.cpp over the socket table and the  *)
(* station: what each command does and what goes back to the host.  A      *)
(* handler that returns 0 becomes the error packet in spi_dispatch_command;*)
(* any other reply carries the command's code and its parameters.  While   *)
(* the firmware is inside a blocking read, or past undefined behaviour,    *)
(* there is no reply.                                                      *)
(*                                                                         *)
(* Reads are assumed to fit in tx_buffer (ReadSizes <= 250 in the code).   *)
(***************************************************************************)
EXTENDS Integers, Sequences

CONSTANTS
    MaxSockets, Netconns, Modes, ReadSizes, MaxRx,                   \* SocketTable
    APs, SsidOf, Ssids, NoSsid, Passwords, Names, DottedQuads, AddressOf,  \* WifiStation
    NULL

VARIABLES
    sockets, conn, fw, wait, delivered, promised,     \* SocketTable
    station, link, lease, inRange, resolved, asked,   \* WifiStation
    ret,                                              \* of the last wifi_api_* call
    reply                                             \* what the last command sent back

tableVars == <<sockets, conn, fw, wait, delivered, promised>>
stationVars == <<station, link, lease, inRange, resolved, asked>>
vars == <<tableVars, stationVars, ret, reply>>

Table == INSTANCE SocketTable
Station == INSTANCE WifiStation

ASSUME TableAssumption ==
    /\ Table!MaxSocketsAssumption /\ Table!ModesAssumption /\ Table!ReadSizesAssumption
    /\ Table!MaxRxAssumption /\ Table!NULLAssumption
ASSUME StationAssumption == Station!ApsAssumption /\ Station!NamesAssumption

NoReply == [cmd |-> "none", kind |-> "none", params |-> <<>>]
Reply(cmd, params) == [cmd |-> cmd, kind |-> "reply", params |-> params]
ErrorReply(cmd) == [cmd |-> cmd, kind |-> "error", params |-> <<>>]

Init ==
    /\ Table!Init
    /\ Station!Init
    /\ ret = Table!NoResult
    /\ reply = NoReply

\* The handler's answer to a call that succeeded, if it answers at all.
AnswerIf(ok, cmd, params) ==
    reply' = IF fw' # "up" THEN NoReply
             ELSE IF ok THEN Reply(cmd, params) ELSE ErrorReply(cmd)

Succeeded == ret'.err = "E_SUCCESS"

-----------------------------------------------------------------------------
(* Station commands *)

TooLong(cmd) ==
    /\ fw = "up"
    /\ Station!ConnectRejected
    /\ reply' = ErrorReply(cmd)
    /\ UNCHANGED tableVars

\* The open network's missing password is the null pointer, which
\* wifi_api_connect takes the length of.
h_set_net ==
    \/ TooLong("SET_NET")
    \/ /\ fw = "up"
       /\ Table!Undefined
       /\ reply' = NoReply
       /\ UNCHANGED stationVars

\* Mutant of h_set_passphrase: the sockets are torn down once the join has worked.
SetPassphraseLate(ssid, password) ==
    \/ TooLong("SET_PASSPHRASE")
    \/ /\ fw = "up"
       /\ Station!Connect(ssid, password)
       /\ IF Succeeded THEN Table!ResetSockets ELSE UNCHANGED tableVars
       /\ AnswerIf(Succeeded, "SET_PASSPHRASE", <<1>>)

h_set_passphrase(ssid, password) ==
    \/ TooLong("SET_PASSPHRASE")
    \/ /\ Table!ResetSockets
       /\ Station!Connect(ssid, password)
       /\ AnswerIf(Succeeded, "SET_PASSPHRASE", <<1>>)

h_get_conn_status ==
    /\ fw = "up"
    /\ Station!ConnStatus
    /\ reply' = Reply("GET_CONN_STATUS", <<ret'.val>>)
    /\ UNCHANGED tableVars

\* Address, mask and gateway come from the interface, whatever the status is.
h_get_ip_addr ==
    /\ fw = "up"
    /\ reply' = Reply("GET_IP_ADDR", <<lease, lease, lease>>)
    /\ UNCHANGED <<tableVars, stationVars, ret>>

h_req_host_by_name(name) ==
    /\ fw = "up"
    /\ Station!GetHostByName(name)
    /\ reply' = Reply("REQ_HOST_BY_NAME", <<IF Succeeded THEN 1 ELSE 0>>)
    /\ UNCHANGED tableVars

h_get_host_by_name ==
    /\ fw = "up"
    /\ Station!ReadResolved
    /\ reply' = Reply("GET_HOST_BY_NAME", <<ret'.val>>)
    /\ UNCHANGED tableVars

-----------------------------------------------------------------------------
(* Socket commands *)

h_get_socket ==
    /\ Table!GetSocket
    /\ AnswerIf(Succeeded, "GET_SOCKET", <<ret'.val>>)
    /\ UNCHANGED stationVars

\* A failure is a reply without parameters, not the error packet.
h_start_client_tcp(s, mode) ==
    /\ Table!SocketConnect(s, mode)
    /\ reply' = Reply("START_CLIENT_TCP", IF Succeeded THEN <<1>> ELSE <<>>)
    /\ UNCHANGED stationVars

h_stop_client_tcp(s) ==
    /\ Table!StopSocket(s)
    /\ AnswerIf(Succeeded, "STOP_CLIENT_TCP", <<1>>)
    /\ UNCHANGED stationVars

h_get_client_state_tcp(s) ==
    /\ Table!GetSocketState(s)
    /\ AnswerIf(Succeeded, "GET_CLIENT_STATE_TCP", <<ret'.val>>)
    /\ UNCHANGED stationVars

h_avail_data_tcp(s) ==
    /\ Table!AvailData(s)
    /\ AnswerIf(Succeeded, "AVAIL_DATA_TCP", <<ret'.val>>)
    /\ UNCHANGED stationVars

h_get_data_buf_tcp(s, want) ==
    /\ Table!ReadData(s, want)
    /\ AnswerIf(Succeeded, "GET_DATABUF_TCP", <<ret'.val>>)
    /\ UNCHANGED stationVars

\* The same command, when the read it was blocked in returns.
ReadReturns ==
    /\ Table!ReadWakes
    /\ AnswerIf(Succeeded, "GET_DATABUF_TCP", <<ret'.val>>)
    /\ UNCHANGED stationVars

h_send_data_tcp(s) ==
    /\ Table!SendData(s)
    /\ AnswerIf(Succeeded, "SEND_DATA_TCP", <<1>>)
    /\ UNCHANGED stationVars

\* The result of the flush is not looked at.
h_data_sent_tcp(s) ==
    /\ Table!WriteFlush(s)
    /\ AnswerIf(TRUE, "DATA_SENT_TCP", <<1>>)
    /\ UNCHANGED stationVars

\* handler_for knows no handler: server, UDP, AP, scan and pin commands.
NoHandler ==
    /\ fw = "up"
    /\ reply' = ErrorReply("unsupported")
    /\ UNCHANGED <<tableVars, stationVars, ret>>

-----------------------------------------------------------------------------
Reboot ==
    /\ Table!Reboot
    /\ Station!Reboot
    /\ reply' = NoReply

PeerMoves ==
    /\ \E n \in Netconns : Table!Peer(n)
    /\ UNCHANGED <<stationVars, reply>>

RadioMoves ==
    /\ \E a \in APs : Station!ApGone(a) \/ Station!ApAppears(a)
    /\ UNCHANGED <<tableVars, reply>>

SocketCommand(s) ==
    \/ \E mode \in Modes : h_start_client_tcp(s, mode)
    \/ h_stop_client_tcp(s)
    \/ h_get_client_state_tcp(s)
    \/ h_avail_data_tcp(s)
    \/ \E want \in ReadSizes : h_get_data_buf_tcp(s, want)
    \/ h_send_data_tcp(s)
    \/ h_data_sent_tcp(s)

StationCommand ==
    \/ h_set_net
    \/ \E ssid \in Ssids, password \in Passwords : h_set_passphrase(ssid, password)
    \/ h_get_conn_status
    \/ h_get_ip_addr
    \/ \E name \in Names : h_req_host_by_name(name)
    \/ h_get_host_by_name

Next ==
    \/ StationCommand
    \/ h_get_socket
    \/ \E s \in Table!Sockets : SocketCommand(s)
    \/ ReadReturns
    \/ NoHandler
    \/ Reboot
    \/ PeerMoves
    \/ RadioMoves

Spec == Init /\ [][Next]_vars

-----------------------------------------------------------------------------
\* Every variable keeps its type, and only a running firmware has replied.
TypeOK ==
    /\ Table!TypeOK
    /\ Station!TypeOK
    /\ reply.kind \in {"none", "reply", "error"}
    /\ fw # "up" => reply = NoReply

LiveConns == {n \in Netconns : Table!Live(n)}

\* Joining a network, whether it succeeds or fails, closes every connection of
\* the network before it: none is left open behind a slot that no command can
\* reach, even when another slot refuses its teardown.
JoinClosesConnections ==
    [][\A ssid \in Ssids, password \in Passwords :
          h_set_passphrase(ssid, password) /\ ret'.err \notin {"E_SSID_TOO_LONG", "E_PASSWORD_TOO_LONG"}
            => \A n \in Netconns : conn'[n].st \in {"free", "failed"}]_vars

\* Once a host has been told the network is up, only a join or a reboot takes
\* that back, and each of them closes the connections: a host never reads a
\* status that disowns connections it still has open.
OpenOnlyWhileJoined ==
    [][station.status = Station!CONNECTED /\ station'.status # Station!CONNECTED
         => LiveConns' = {}]_vars

\* h_start_client_tcp: "out param 1: 1 on success, 0 on failure".
StartClientTellsOutcome ==
    [][\A s \in Table!Sockets, mode \in Modes :
          h_start_client_tcp(s, mode) /\ reply'.params = <<1>>
            => sockets'[s].state = Table!ESTABLISHED]_vars

\* h_set_net: "ssid of open network to connect to ... out param 1: 1 for success":
\* the command is answered.
SetNetAnswers == [][h_set_net => reply'.kind # "none"]_vars

=============================================================================
