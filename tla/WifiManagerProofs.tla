--------------------------- MODULE WifiManagerProofs ---------------------------
(***************************************************************************)
(* Proofs about WifiManager, for any list of networks, access points and   *)
(* number of attempts.                                                     *)
(*                                                                         *)
(* Every step of the manager is a step of the station or leaves it alone   *)
(* (StationStep), so that what WifiStationProofs shows holds here.  What the *)
(* manager adds is where it stands: at a request the station is connected, *)
(* at a join it is not, and all it ever joins are networks of its list.    *)
(***************************************************************************)
EXTENDS WifiManager, TLAPS

Proved == INSTANCE WifiStationProofs

Managers == [at : Places, ap : Entries \cup {NULL}, failures : 0..Attempts, type : Types]

MgrTyped ==
    /\ fw \in {"up", "dead"}
    /\ apIndex \in DOMAIN Secrets
    /\ mgr \in Managers

\* The station's network is one of the list, opened with its own password.
Listed ==
    station.status = Station!CONNECTED =>
        [ssid |-> station.ssid, password |-> station.password] \in Entries

\* What holds where a method stands.
PlaceInv ==
    /\ mgr.at \in {"join", "status", "request"} => fw = "up"
    /\ mgr.at = "join" => station.status # Station!CONNECTED
    /\ mgr.at = "request" => station.status = Station!CONNECTED
    /\ mgr.at \in {"poll", "join", "status", "reset"} => mgr.ap \in Entries

IInv == Proved!IInv /\ MgrTyped /\ Listed /\ PlaceInv

-----------------------------------------------------------------------------
(* The list *)

LEMMA EntryFields ==
    ASSUME NEW e \in Entries
    PROVE  /\ e.ssid \in Ssids \ {NoSsid} /\ e.password \in Passwords \cup {NoPassword}
           /\ e = [ssid |-> e.ssid, password |-> e.password]
<1> DEFINE Networks == [ssid : Ssids \ {NoSsid}, password : Passwords \cup {NoPassword}]
<1>0. ASSUME NEW x \in Networks
      PROVE  /\ x.ssid \in Ssids \ {NoSsid} /\ x.password \in Passwords \cup {NoPassword}
             /\ x = [ssid |-> x.ssid, password |-> x.password]
  OBVIOUS
<1>1. PICK i \in DOMAIN Secrets : e = Secrets[i]
  BY DEF Entries
<1>2. Secrets[i] \in Networks
  <2>1. Secrets \in Seq(Networks)
    BY SecretsAssumption
  <2> HIDE DEF Networks
  <2> QED
    BY <2>1
<1> QED
  BY <1>0, <1>1, <1>2

LEMMA ListIndex ==
    ASSUME apIndex \in DOMAIN Secrets
    PROVE  NextIndex \in DOMAIN Secrets /\ Secrets[apIndex] \in Entries
<1>1. DOMAIN Secrets = 1 .. Len(Secrets) /\ Len(Secrets) \in Nat
  BY SecretsAssumption
<1> QED
  BY <1>1 DEF NextIndex, Entries

LEMMA FirstIndex == 1 \in DOMAIN Secrets
<1>1. Len(Secrets) \in Nat \ {0} /\ DOMAIN Secrets = 1 .. Len(Secrets)
  BY SecretsAssumption
<1> QED
  BY <1>1

LEMMA AtRestTyped ==
    ASSUME NEW type \in Types
    PROVE  /\ AtRest(type) \in Managers
           /\ AtRest(type).at = "idle"
BY AttemptsAssumption DEF AtRest, Places, Managers

-----------------------------------------------------------------------------
(* The station under the manager *)

LEMMA StationAssumed ==
    /\ NULL \notin APs /\ SsidOf \in [APs -> Ssids \ {NoSsid}]
    /\ DottedQuads \subseteq Names /\ NULL \notin Names /\ AddressOf \in [Names -> Nat \ {0}]
BY StationAssumption DEF Station!ApsAssumption, Station!NamesAssumption

\* WifiStationProofs speaks of its own copy of the station's definitions.
LEMMA SameStatus ==
    /\ Proved!IDLE = Station!IDLE /\ Proved!NO_SSID_AVAIL = Station!NO_SSID_AVAIL
    /\ Proved!CONNECTED = Station!CONNECTED /\ Proved!CONNECT_FAILED = Station!CONNECT_FAILED
    /\ Station!IDLE # Station!CONNECTED
BY DEF Station!IDLE, Proved!IDLE, Station!CONNECTED, Proved!CONNECTED, Station!NO_SSID_AVAIL,
       Proved!NO_SSID_AVAIL, Station!CONNECT_FAILED, Proved!CONNECT_FAILED

LEMMA SameConnect ==
    ASSUME NEW ssid, NEW password, Station!Connect(ssid, password)
    PROVE  Proved!Connect(ssid, password)
BY DEF Station!Connect, Proved!Connect, Station!ScanFails, Proved!ScanFails,
       Station!NotFound, Proved!NotFound, Station!AssociationFails, Proved!AssociationFails,
       Station!DhcpFails, Proved!DhcpFails, Station!Joins, Proved!Joins,
       Station!Candidates, Proved!Candidates, Station!Found, Proved!Found,
       Station!IdleStation, Proved!IdleStation, Station!Target, Proved!Target,
       Station!Result, Proved!Result, Station!IDLE, Proved!IDLE,
       Station!CONNECTED, Proved!CONNECTED, Station!NO_SSID_AVAIL, Proved!NO_SSID_AVAIL,
       Station!CONNECT_FAILED, Proved!CONNECT_FAILED

LEMMA SameReboot == ASSUME Station!Reboot PROVE Proved!Reboot
BY SameStatus DEF Station!Reboot, Proved!Reboot, Station!IdleStation, Proved!IdleStation,
       Station!Result, Proved!Result

LEMMA SameRadio ==
    ASSUME NEW a \in APs, Station!ApGone(a) \/ Station!ApAppears(a)
    PROVE  Proved!ApGone(a) \/ Proved!ApAppears(a)
BY DEF Station!ApGone, Station!ApAppears, Proved!ApGone, Proved!ApAppears

LEMMA SameConnStatus == ASSUME Station!ConnStatus PROVE Proved!ConnStatus
BY DEF Station!ConnStatus, Proved!ConnStatus, Station!Result, Proved!Result,
       Station!stationVars, Proved!stationVars

LEMMA StationStep ==
    ASSUME Proved!IInv, Proved!Next \/ UNCHANGED <<stationVars, ret>>
    PROVE  Proved!IInv'
<1>1. UNCHANGED <<stationVars, ret>> => UNCHANGED Proved!vars
  BY DEF Proved!vars, Proved!stationVars, stationVars
<1> QED
  BY <1>1, Proved!NextIInv, StationAssumed

\* A join of a network of the list is one of the station's, and where it ends
\* connected it is to that network.
LEMMA ListedJoin ==
    ASSUME Proved!IInv, NEW ap \in Entries, ap.password # NoPassword,
           Station!Connect(ap.ssid, ap.password)
    PROVE  /\ Proved!IInv'
           /\ station'.status = Station!CONNECTED =>
                station'.ssid = ap.ssid /\ station'.password = ap.password
<1>1. Proved!Connect(ap.ssid, ap.password)
  BY SameConnect
<1>2. ap.ssid \in Ssids /\ ap.password \in Passwords
  BY EntryFields
<1>3. Proved!IInv'
  BY <1>1, <1>2, StationStep DEF Proved!Next
<1>4. Proved!TypeOK
  BY DEF Proved!IInv
<1>5. CASE Proved!Joins(ap.ssid, ap.password)
  BY <1>2, <1>3, <1>4, <1>5, Proved!LastExit, StationAssumed
<1>6. CASE \/ Proved!ScanFails \/ Proved!NotFound(ap.ssid)
           \/ Proved!AssociationFails(ap.ssid) \/ Proved!DhcpFails(ap.ssid)
  BY <1>2, <1>3, <1>4, <1>6, Proved!FailedExit, SameStatus, StationAssumed
<1> QED
  BY <1>1, <1>5, <1>6 DEF Proved!Connect

\* is_connected tells the stored status.
LEMMA StatusTells ==
    ASSUME Proved!IInv, NEW connected \in BOOLEAN, StatusIs(connected)
    PROVE  /\ Proved!IInv' /\ station' = station /\ fw = "up" /\ fw' = fw
           /\ connected <=> station.status = Station!CONNECTED
<1>1. Proved!ConnStatus
  BY SameConnStatus DEF StatusIs
<1>2. Proved!IInv'
  BY <1>1, StationStep DEF Proved!Next
<1>3. station' = station /\ ret'.val = station.status
  BY DEF StatusIs, Station!ConnStatus, Station!stationVars, Station!Result
<1> QED
  BY <1>2, <1>3 DEF StatusIs

LEMMA ResetClears ==
    ASSUME Proved!IInv, Reset
    PROVE  Proved!IInv' /\ fw' = "up" /\ station'.status # Station!CONNECTED
<1>1. Proved!IInv'
  BY SameReboot, StationStep DEF Reset, Proved!Next
<1>2. station'.status = Station!IDLE
  BY DEF Reset, Station!Reboot, Station!IdleStation
<1> QED
  BY <1>1, <1>2, SameStatus DEF Reset

-----------------------------------------------------------------------------
(* The manager's own steps *)

LEMMA GoesTyped ==
    ASSUME MgrTyped, NEW at \in Places
    PROVE  /\ Goes(at) \in Managers
           /\ Goes(at).at = at /\ Goes(at).ap = mgr.ap
BY DEF MgrTyped, Goes, Managers

LEMMA MgrFields == ASSUME MgrTyped PROVE mgr.failures \in 0..Attempts /\ mgr.type \in Types
BY DEF MgrTyped, Managers

LEMMA FailuresTyped ==
    ASSUME NEW m \in Managers, NEW n \in 0..Attempts
    PROVE  /\ [m EXCEPT !.failures = n] \in Managers
           /\ [m EXCEPT !.failures = n].at = m.at /\ [m EXCEPT !.failures = n].ap = m.ap
BY DEF Managers

LEMMA NextApTyped ==
    ASSUME MgrTyped, NEW at \in {"poll", "reset"}, NextAp(at), fw' \in {"up", "dead"}
    PROVE  MgrTyped' /\ mgr'.at = at /\ mgr'.ap \in Entries
<1>1. at \in Places /\ 0 \in 0 .. Attempts
  BY AttemptsAssumption DEF Places
<1>2. NextIndex \in DOMAIN Secrets /\ Secrets[apIndex] \in Entries
  BY ListIndex DEF MgrTyped
<1>3. mgr' = [mgr EXCEPT !.at = at, !.ap = Secrets[apIndex], !.failures = 0] /\ apIndex' = NextIndex
  BY DEF NextAp
<1>4. mgr' \in Managers /\ mgr'.at = at /\ mgr'.ap = Secrets[apIndex]
  BY <1>1, <1>2, <1>3 DEF MgrTyped, Managers
<1> QED
  BY <1>2, <1>3, <1>4 DEF MgrTyped

\* The except clause goes back to the loop, with a network of the list.
LEMMA FailGoesOn ==
    ASSUME MgrTyped, mgr.ap \in Entries, Fail, fw' \in {"up", "dead"}
    PROVE  MgrTyped' /\ mgr'.at \in {"poll", "reset"} /\ mgr'.ap \in Entries
<1>1. CASE mgr.failures + 1 >= Attempts
  BY <1>1, NextApTyped DEF Fail
<1>2. CASE ~(mgr.failures + 1 >= Attempts)
  <2>1. mgr' = [Goes("poll") EXCEPT !.failures = mgr.failures + 1] /\ apIndex' = apIndex
    BY <1>2 DEF Fail, Goes
  <2>2. mgr.failures + 1 \in 0 .. Attempts
    BY <1>2, AttemptsAssumption, MgrFields
  <2> QED
    BY <2>1, <2>2, GoesTyped, FailuresTyped DEF MgrTyped, Places
<1> QED
  BY <1>1, <1>2

\* A step to a place of which little is said.
LEMMA ElsewhereIInv ==
    ASSUME Proved!IInv', MgrTyped', Listed',
           mgr'.at \notin {"join", "status", "request"},
           mgr'.at \in {"poll", "reset"} => mgr'.ap \in Entries
    PROVE  IInv'
BY DEF IInv, PlaceInv

\* A manager's step that sends no command, or one that the station does not get to.
LEMMA StationKept ==
    ASSUME IInv, UNCHANGED <<stationVars, ret>>
    PROVE  Proved!IInv' /\ Listed' /\ station' = station
BY StationStep DEF IInv, Listed, stationVars

\* A status check that decides between a request and a join, or a connect.
LEMMA IsConnectedIInv ==
    ASSUME IInv, NEW no \in {"join", "connect"}, no = "join" => mgr.ap \in Entries,
           IsConnected(Goes("request"), Goes(no)), UNCHANGED apIndex
    PROVE  IInv'
<1>1. MgrTyped /\ Proved!IInv /\ Listed
  BY DEF IInv
<1>2. \A at \in {"request", no} :
         /\ Goes(at) \in Managers
         /\ Goes(at).at = at /\ Goes(at).ap = mgr.ap
  BY <1>1, GoesTyped DEF Places
<1>3. CASE StatusIs(TRUE) /\ mgr' = Goes("request")
  BY <1>1, <1>2, <1>3, StatusTells DEF IInv, MgrTyped, Listed, PlaceInv
<1>4. CASE StatusIs(FALSE) /\ mgr' = Goes(no)
  BY <1>1, <1>2, <1>4, StatusTells DEF IInv, MgrTyped, Listed, PlaceInv
<1>5. CASE Reset /\ mgr' = Goes(no)
  BY <1>1, <1>2, <1>5, ResetClears DEF IInv, MgrTyped, Listed, PlaceInv
<1> QED
  BY <1>3, <1>4, <1>5 DEF IsConnected

\* A reset on the way to a place of which little is said.
LEMMA ResetIInv ==
    ASSUME IInv, Reset, apIndex' \in DOMAIN Secrets,
           mgr' \in Managers,
           mgr'.at \notin {"join", "status", "request"},
           mgr'.at \in {"poll", "reset"} => mgr'.ap \in Entries
    PROVE  IInv'
<1>1. Proved!IInv' /\ fw' = "up" /\ station'.status # Station!CONNECTED
  BY ResetClears DEF IInv
<1>2. MgrTyped'
  BY <1>1 DEF MgrTyped
<1>3. Listed'
  BY <1>1 DEF Listed
<1> QED
  BY <1>1, <1>2, <1>3, ElsewhereIInv

LEMMA JoinIInv ==
    ASSUME IInv, JoinAnswered \/ JoinFails \/ JoinOpen
    PROVE  IInv'
<1>1. MgrTyped /\ Proved!IInv /\ mgr.ap \in Entries /\ fw = "up"
  BY DEF IInv, PlaceInv, JoinAnswered, JoinFails, JoinOpen
<1>2. CASE JoinAnswered \/ JoinFails
  <2>1. Station!Connect(mgr.ap.ssid, mgr.ap.password) /\ mgr.ap.password # NoPassword /\ fw' = fw
    BY <1>2 DEF JoinAnswered, JoinFails
  <2>2. Proved!IInv' /\ Listed'
    <3>1. PICK ap \in Entries : ap = mgr.ap
      BY <1>1
    <3>2. /\ Proved!IInv'
          /\ station'.status = Station!CONNECTED =>
               station'.ssid = ap.ssid /\ station'.password = ap.password
      BY <1>1, <2>1, <3>1, ListedJoin
    <3> QED
      BY <3>2, EntryFields DEF Listed
  <2>3. CASE JoinAnswered
    <3>1. mgr' = Goes("status") /\ apIndex' = apIndex
      BY <2>3 DEF JoinAnswered
    <3>2. MgrTyped' /\ mgr'.at = "status" /\ mgr'.ap = mgr.ap
      BY <1>1, <2>1, <3>1, GoesTyped DEF MgrTyped, Places
    <3> QED
      BY <1>1, <2>1, <2>2, <3>2 DEF IInv, PlaceInv
  <2>4. CASE JoinFails
    <3>1. MgrTyped' /\ mgr'.at \in {"poll", "reset"} /\ mgr'.ap \in Entries
      BY <1>1, <2>1, <2>4, FailGoesOn DEF JoinFails
    <3> QED
      BY <2>2, <3>1, ElsewhereIInv
  <2> QED
    BY <1>2, <2>3, <2>4
<1>3. CASE JoinOpen
  <2>1. Proved!IInv' /\ Listed'
    BY <1>3, StationKept DEF JoinOpen
  <2>2. MgrTyped' /\ mgr'.at \in {"poll", "reset"} /\ mgr'.ap \in Entries
    BY <1>1, <1>3, FailGoesOn DEF JoinOpen
  <2> QED
    BY <2>1, <2>2, ElsewhereIInv
<1> QED
  BY <1>2, <1>3

LEMMA StatusIInv ==
    ASSUME IInv, StatusAnswered \/ StatusLost
    PROVE  IInv'
<1>1. MgrTyped /\ Proved!IInv /\ mgr.ap \in Entries /\ fw = "up"
  BY DEF IInv, PlaceInv, StatusAnswered, StatusLost
<1>2. CASE StatusAnswered
  <2>1. Proved!IInv' /\ station' = station /\ fw' = "up"
    BY <1>1, <1>2, StatusTells DEF StatusAnswered
  <2>2. MgrTyped' /\ mgr'.at = "poll" /\ mgr'.ap = mgr.ap
    <3>1. mgr' = [Goes("poll") EXCEPT !.failures = 0] /\ apIndex' = apIndex
      BY <1>2 DEF StatusAnswered
    <3> QED
      BY <1>1, <2>1, <3>1, GoesTyped, FailuresTyped, AttemptsAssumption DEF MgrTyped, Places
  <2>3. Listed'
    BY <2>1 DEF IInv, Listed
  <2> QED
    BY <1>1, <2>1, <2>2, <2>3, ElsewhereIInv
<1>3. CASE StatusLost
  <2>1. Proved!IInv' /\ Listed'
    BY <1>3, StationKept DEF StatusLost, firmwareVars
  <2>2. MgrTyped' /\ mgr'.at \in {"poll", "reset"} /\ mgr'.ap \in Entries
    BY <1>1, <1>3, FailGoesOn DEF StatusLost, firmwareVars
  <2> QED
    BY <2>1, <2>2, ElsewhereIInv
<1> QED
  BY <1>2, <1>3

\* The beginnings and ends of methods, and what sends no command.
LEMMA QuietIInv ==
    ASSUME IInv,
           \/ Enterprise \/ ConnectNormal \/ Serve \/ ApJoin
           \/ \E at \in {"connect", "guard", "ap_poll"} : Call(at)
    PROVE  IInv'
<1>1. MgrTyped
  BY DEF IInv
<1>2. UNCHANGED <<stationVars, ret>>
  BY DEF Enterprise, ConnectNormal, Serve, ApJoin, Call, firmwareVars
<1>3. Proved!IInv' /\ Listed'
  BY <1>2, StationKept
<1>4. CASE ConnectNormal
  <2>1. MgrTyped' /\ mgr'.at = "poll" /\ mgr'.ap \in Entries
    BY <1>1, <1>4, NextApTyped DEF ConnectNormal, firmwareVars, MgrTyped
  <2> QED
    BY <1>3, <2>1, ElsewhereIInv
<1>5. CASE Enterprise \/ Serve
  <2>1. MgrTyped' /\ mgr'.at = "idle"
    <3>1. mgr' = AtRest(mgr.type) /\ mgr.type \in Types /\ apIndex' = apIndex /\ fw' \in {"up", "dead"}
      BY <1>1, <1>5, MgrFields DEF Enterprise, Serve, Returns, MgrTyped, firmwareVars
    <3> QED
      BY <1>1, <3>1, AtRestTyped DEF MgrTyped
  <2> QED
    BY <1>3, <2>1, ElsewhereIInv
<1>6. CASE ApJoin
  <2>1. MgrTyped' /\ mgr'.at \in {"ap_reset", "ap_poll"}
    <3>1. PICK n \in 0 .. Attempts, at \in {"ap_reset", "ap_poll"} :
             mgr' = [Goes(at) EXCEPT !.failures = n]
      <4>1. 0 \in 0 .. Attempts
        BY AttemptsAssumption
      <4>2. CASE mgr.failures + 1 >= Attempts
        BY <1>6, <4>1, <4>2 DEF ApJoin
      <4>3. CASE ~(mgr.failures + 1 >= Attempts)
        <5>1. mgr' = [Goes("ap_poll") EXCEPT !.failures = mgr.failures + 1]
          BY <1>6, <4>3 DEF ApJoin, Goes
        <5>2. mgr.failures + 1 \in 0 .. Attempts
          BY <1>1, <4>3, AttemptsAssumption, MgrFields
        <5> QED
          BY <5>1, <5>2
      <4> QED
        BY <4>2, <4>3
    <3>2. apIndex' = apIndex /\ fw' = fw
      BY <1>6 DEF ApJoin, firmwareVars
    <3> QED
      BY <1>1, <3>1, <3>2, GoesTyped, FailuresTyped DEF MgrTyped, Places
  <2> QED
    BY <1>3, <2>1, ElsewhereIInv
<1>7. CASE \E at \in {"connect", "guard", "ap_poll"} : Call(at)
  <2>1. PICK at \in {"connect", "guard", "ap_poll"} : Call(at)
    BY <1>7
  <2>2. MgrTyped' /\ mgr'.at = at
    BY <1>1, <2>1, GoesTyped DEF Call, MgrTyped, Places, firmwareVars
  <2> QED
    BY <1>3, <2>2, ElsewhereIInv
<1> QED
  BY <1>4, <1>5, <1>6, <1>7

LEMMA ResetsIInv ==
    ASSUME IInv, ResetStep \/ ApReset \/ CallReset \/ HostRestarts \/ ApPoll
    PROVE  IInv'
<1>1. MgrTyped /\ Proved!IInv
  BY DEF IInv
<1>2. CASE ResetStep
  <2>1. mgr.ap \in Entries
    BY <1>2 DEF IInv, PlaceInv, ResetStep
  <2>2. mgr' = Goes("poll") /\ apIndex' = apIndex /\ Reset
    BY <1>2 DEF ResetStep
  <2> QED
    BY <1>1, <2>1, <2>2, ResetIInv, GoesTyped DEF MgrTyped, Places
<1>3. CASE ApReset
  <2>1. mgr' = Goes("ap_poll") /\ apIndex' = apIndex /\ Reset
    BY <1>3 DEF ApReset
  <2> QED
    BY <1>1, <2>1, ResetIInv, GoesTyped DEF MgrTyped, Places
<1>4. CASE CallReset
  BY <1>1, <1>4, ResetIInv DEF CallReset, MgrTyped
<1>5. CASE HostRestarts
  BY <1>5, ResetIInv, AtRestTyped, FirstIndex DEF HostRestarts
<1>6. CASE ApPoll
  <2>1. mgr' = Goes("ap_join") /\ apIndex' = apIndex
    BY <1>6 DEF ApPoll
  <2>2. /\ mgr' \in Managers
        /\ mgr'.at = "ap_join"
    BY <1>1, <2>1, GoesTyped DEF Places
  <2>3. CASE Reset
    BY <1>1, <2>1, <2>2, <2>3, ResetIInv DEF MgrTyped
  <2>4. CASE StatusIs(TRUE) \/ StatusIs(FALSE)
    <3>1. Proved!IInv' /\ station' = station /\ fw' = fw
      BY <1>1, <2>4, StatusTells
    <3>2. MgrTyped' /\ Listed'
      BY <1>1, <2>1, <2>2, <3>1 DEF IInv, MgrTyped, Listed
    <3> QED
      BY <2>2, <3>1, <3>2, ElsewhereIInv
  <2> QED
    BY <1>6, <2>3, <2>4 DEF ApPoll
<1> QED
  BY <1>2, <1>3, <1>4, <1>5, <1>6

\* The radio changes neither status nor place.
LEMMA RadioIInv ==
    ASSUME IInv, Radio
    PROVE  IInv'
<1>1. Proved!IInv'
  BY SameRadio, StationStep DEF Radio, IInv, Proved!Next
<1>2. UNCHANGED <<station, fw, apIndex, mgr>>
  BY DEF Radio, Station!ApGone, Station!ApAppears
<1> QED
  BY <1>1, <1>2 DEF IInv, MgrTyped, Listed, PlaceInv

-----------------------------------------------------------------------------
(* The theorems *)

LEMMA InitIInv == Init => IInv
<1> SUFFICES ASSUME Init PROVE IInv
  OBVIOUS
<1>1. Proved!Init
  BY SameStatus DEF Init, Station!Init, Proved!Init, Station!IdleStation, Proved!IdleStation,
                    Station!Result, Proved!Result
<1>2. Proved!IInv
  BY <1>1, Proved!InitIInv, StationAssumed
<1>3. MgrTyped /\ mgr.at = "idle"
  BY AtRestTyped, FirstIndex DEF Init, MgrTyped
<1>4. Listed
  BY SameStatus DEF Init, Station!Init, Station!IdleStation, Listed
<1> QED
  BY <1>2, <1>3, <1>4 DEF IInv, PlaceInv

LEMMA NextIInv == IInv /\ [Next]_vars => IInv'
<1> SUFFICES ASSUME IInv, [Next]_vars PROVE IInv'
  OBVIOUS
<1>1. CASE UNCHANGED vars
  <2>1. UNCHANGED <<stationVars, ret>> /\ UNCHANGED <<fw, apIndex, mgr>>
    BY <1>1 DEF vars, firmwareVars
  <2>2. Proved!IInv' /\ Listed' /\ station' = station
    BY <2>1, StationKept
  <2> QED
    BY <2>1, <2>2 DEF IInv, MgrTyped, PlaceInv
<1>2. CASE \/ Enterprise \/ ConnectNormal \/ Serve \/ ApJoin
           \/ \E at \in {"connect", "guard", "ap_poll"} : Call(at)
  BY <1>2, QuietIInv
<1>3. CASE Poll
  <2>1. mgr.ap \in Entries
    BY <1>3 DEF IInv, PlaceInv, Poll
  <2> QED
    BY <1>3, <2>1, IsConnectedIInv DEF Poll
<1>4. CASE Guard
  BY <1>4, IsConnectedIInv DEF Guard
<1>5. CASE JoinAnswered \/ JoinFails \/ JoinOpen
  BY <1>5, JoinIInv
<1>6. CASE StatusAnswered \/ StatusLost
  BY <1>6, StatusIInv
<1>7. CASE ResetStep \/ ApReset \/ CallReset \/ HostRestarts \/ ApPoll
  BY <1>7, ResetsIInv
<1>8. CASE Radio
  BY <1>8, RadioIInv
<1> QED
  BY <1>1, <1>2, <1>3, <1>4, <1>5, <1>6, <1>7, <1>8 DEF Next, Step

\* Where a method of the manager stands tells what the station is in, after any
\* number of failed joins, missed answers, resets and restarts.
THEOREM IInvariant == Spec => []IInv
BY InitIInv, NextIInv, PTL DEF Spec

\* get, post and the others (is_connected, then the request): a request goes out
\* only on a firmware with an address from a network of the list.
THEOREM RequestsOnListed == Spec => []RequestOnListedNetwork
<1>1. IInv => RequestOnListedNetwork
  BY SameStatus DEF IInv, Proved!IInv, Proved!ConnectedMeansLeased, Listed, PlaceInv,
                    RequestOnListedNetwork
<1> QED
  BY IInvariant, <1>1, PTL

\* connect_normal: no join is sent to a firmware that is connected.
THEOREM JoinsOnlyWhenDown == Spec => []JoinOnlyWhenDown
<1>1. IInv => JoinOnlyWhenDown
  BY DEF IInv, PlaceInv, JoinOnlyWhenDown
<1> QED
  BY IInvariant, <1>1, PTL

=============================================================================
