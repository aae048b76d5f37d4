-------------------------- MODULE WifiStationProofs --------------------------
(***************************************************************************)
(* Proofs about WifiStation, for any access points, networks, passwords    *)
(* and names.                                                              *)
(*                                                                         *)
(* What a join leaves in the station depends on the stage at which it      *)
(* ends; a lemma for each stage says so once.  A host reads CONNECTED only *)
(* after the last of them, and everything that could take the lease away   *)
(* comes with another status.                                              *)
(***************************************************************************)
EXTENDS WifiStation, TLAPS

\* Typing and the agreement of status and lease.
IInv == TypeOK /\ ConnectedMeansLeased

-----------------------------------------------------------------------------
(* Operators *)

LEMMA IdleIsStation == IdleStation \in Stations /\ IdleStation.status # CONNECTED
BY DEF IdleStation, Stations, IDLE, NO_SSID_AVAIL, CONNECTED, CONNECT_FAILED

\* A candidate is an access point in range with the ssid that was asked for.
LEMMA CandidateIsAP ==
    ASSUME inRange \subseteq APs, NEW ssid, NEW a \in Candidates(ssid)
    PROVE  a \in APs /\ SsidOf[a] = ssid
BY DEF Candidates

LEMMA FoundIsStation ==
    ASSUME NEW ssid \in Ssids, NEW a \in APs
    PROVE  /\ Found(ssid, a) \in Stations
           /\ Found(ssid, a).status = IDLE
           /\ Found(ssid, a).ssid = ssid
BY DEF Found, IdleStation, Stations, IDLE, NO_SSID_AVAIL, CONNECTED, CONNECT_FAILED

LEMMA TargetIsStation ==
    ASSUME inRange \subseteq APs, NEW ssid \in Ssids, NEW st \in Target(ssid)
    PROVE  st \in Stations
BY CandidateIsAP, FoundIsStation, IdleIsStation DEF Target

-----------------------------------------------------------------------------
(* The exits of a join *)

\* Every exit but the last one leaves a status other than CONNECTED.
LEMMA FailedExit ==
    ASSUME TypeOK, NEW ssid \in Ssids,
           ScanFails \/ NotFound(ssid) \/ AssociationFails(ssid) \/ DhcpFails(ssid)
    PROVE  /\ station' \in Stations /\ station'.status # CONNECTED
           /\ link' \in APs \cup {NULL} /\ lease' \in APs \cup {NULL}
<1>1. CASE ScanFails
  BY <1>1, IdleIsStation DEF ScanFails, TypeOK
<1>2. CASE NotFound(ssid)
  BY <1>2 DEF NotFound, TypeOK, IdleStation, Stations, IDLE, NO_SSID_AVAIL, CONNECTED, CONNECT_FAILED
<1>3. CASE AssociationFails(ssid)
  <2>1. PICK st \in Target(ssid) : station' = [st EXCEPT !.status = CONNECT_FAILED]
    BY <1>3 DEF AssociationFails
  <2>2. st \in Stations
    BY TargetIsStation DEF TypeOK
  <2>3. station' \in Stations /\ station'.status = CONNECT_FAILED
    BY <2>1, <2>2 DEF Stations
  <2> QED
    BY <1>3, <2>3 DEF AssociationFails, TypeOK, CONNECTED, CONNECT_FAILED
<1>4. CASE DhcpFails(ssid)
  <2>1. PICK a \in Candidates(ssid), joined \in Candidates(ssid) :
           station' = Found(ssid, a) /\ link' = joined
    BY <1>4 DEF DhcpFails
  <2>2. a \in APs /\ joined \in APs
    BY CandidateIsAP DEF TypeOK
  <2> QED
    BY <1>4, <2>1, <2>2, FoundIsStation DEF DhcpFails, IDLE, CONNECTED
<1> QED
  BY <1>1, <1>2, <1>3, <1>4

\* The last exit names the network of the lease.
LEMMA LastExit ==
    ASSUME TypeOK, NEW ssid \in Ssids, NEW password \in Passwords, Joins(ssid, password)
    PROVE  /\ station' \in Stations /\ station'.ssid = ssid /\ station'.password = password
           /\ lease' \in APs /\ SsidOf[lease'] = ssid /\ link' = lease'
<1>1. PICK a \in Candidates(ssid), joined \in Candidates(ssid) :
         /\ link' = joined /\ lease' = joined
         /\ station' = [Found(ssid, a) EXCEPT !.status = CONNECTED, !.password = password]
  BY DEF Joins
<1>2. a \in APs /\ joined \in APs /\ SsidOf[joined] = ssid
  BY CandidateIsAP DEF TypeOK
<1>3. Found(ssid, a) \in Stations /\ Found(ssid, a).ssid = ssid
  BY <1>2, FoundIsStation
<1>4. \A st \in Stations :
         LET joinedSt == [st EXCEPT !.status = CONNECTED, !.password = password]
         IN  joinedSt \in Stations /\ joinedSt.ssid = st.ssid /\ joinedSt.password = password
  BY DEF Stations
<1> QED
  BY <1>1, <1>2, <1>3, <1>4

LEMMA ConnectIInv ==
    ASSUME IInv, NEW ssid \in Ssids, NEW password \in Passwords, Connect(ssid, password)
    PROVE  IInv'
<1> USE ApsAssumption
<1>1. TypeOK /\ ConnectedMeansLeased
  BY DEF IInv
<1>2. inRange' \subseteq APs /\ resolved' \in Nat /\ asked' \in Names \cup {NULL}
  BY <1>1 DEF Connect, TypeOK
<1>3. CASE Joins(ssid, password)
  BY <1>1, <1>2, <1>3, LastExit DEF IInv, TypeOK, ConnectedMeansLeased
<1>4. CASE ScanFails \/ NotFound(ssid) \/ AssociationFails(ssid) \/ DhcpFails(ssid)
  BY <1>1, <1>2, <1>4, FailedExit DEF IInv, TypeOK, ConnectedMeansLeased
<1> QED
  BY <1>3, <1>4 DEF Connect

-----------------------------------------------------------------------------
(* The other actions *)

\* The resolver touches neither station nor lease.
LEMMA GetHostByNameIInv ==
    ASSUME IInv, NEW name \in Names, GetHostByName(name)
    PROVE  IInv'
<1>1. UNCHANGED <<station, link, lease, inRange>>
  BY DEF GetHostByName
<1>2. resolved' \in Nat /\ asked' \in Names \cup {NULL}
  BY NamesAssumption DEF GetHostByName, IInv, TypeOK
<1> QED
  BY <1>1, <1>2 DEF IInv, TypeOK, ConnectedMeansLeased

\* The radio only ever takes the association away.
LEMMA RadioIInv ==
    ASSUME IInv, NEW a \in APs, ApGone(a) \/ ApAppears(a)
    PROVE  IInv'
<1>1. UNCHANGED <<station, lease, resolved, asked>>
  BY DEF ApGone, ApAppears
<1>2. link' = link \/ link' = NULL
  BY DEF ApGone, ApAppears
<1>3. inRange' \subseteq APs
  BY DEF ApGone, ApAppears, IInv, TypeOK
<1> QED
  BY <1>1, <1>2, <1>3 DEF IInv, TypeOK, ConnectedMeansLeased

LEMMA RebootIInv == ASSUME IInv, Reboot PROVE IInv'
BY IdleIsStation DEF Reboot, IInv, TypeOK, ConnectedMeansLeased

LEMMA InitIInv == Init => IInv
BY IdleIsStation DEF Init, IInv, TypeOK, ConnectedMeansLeased

LEMMA NextIInv == IInv /\ [Next]_vars => IInv'
<1> SUFFICES ASSUME IInv, [Next]_vars PROVE IInv'
  OBVIOUS
<1>1. CASE \E ssid \in Ssids, password \in Passwords : Connect(ssid, password)
  BY <1>1, ConnectIInv
<1>2. CASE ConnectRejected \/ ConnStatus \/ ReadResolved \/ UNCHANGED vars
  <2>1. UNCHANGED stationVars
    BY <1>2 DEF ConnectRejected, ConnStatus, ReadResolved, vars
  <2> QED
    BY <2>1 DEF stationVars, IInv, TypeOK, ConnectedMeansLeased
<1>3. CASE \E name \in Names : GetHostByName(name)
  BY <1>3, GetHostByNameIInv
<1>4. CASE \E a \in APs : ApGone(a) \/ ApAppears(a)
  BY <1>4, RadioIInv
<1>5. CASE Reboot
  BY <1>5, RebootIInv
<1> QED
  BY <1>1, <1>2, <1>3, <1>4, <1>5 DEF Next

\* Typing and the agreement of status and lease are inductive together: only a
\* join's last exit sets CONNECTED, and it sets all they speak of at once.
THEOREM IInvariant == Spec => []IInv
BY InitIInv, NextIInv, PTL DEF Spec

\* Every variable of the station keeps its type (wifi_api_connect's assignments).
THEOREM TypeCorrect == Spec => []TypeOK
<1>1. IInv => TypeOK
  BY DEF IInv
<1> QED
  BY <1>1, IInvariant, PTL

\* wifi_api_connect: a host that reads CONNECTED has its address from the network
\* that "wifi" names.
THEOREM ConnectedIsLeased == Spec => []ConnectedMeansLeased
<1>1. IInv => ConnectedMeansLeased
  BY DEF IInv
<1> QED
  BY <1>1, IInvariant, PTL

\* wifi_api_connect: no exit on failure leaves CONNECTED behind.
THEOREM FailureIsReported == Spec => FailedJoinIsReported
<1>1. IInv /\ [Next]_vars =>
        [\A ssid \in Ssids, password \in Passwords :
            Connect(ssid, password) /\ ret'.err # "E_SUCCESS" => station'.status # CONNECTED]_vars
  <2> SUFFICES ASSUME IInv, NEW ssid \in Ssids, NEW password \in Passwords,
                      Connect(ssid, password), ret'.err # "E_SUCCESS"
               PROVE  station'.status # CONNECTED
    OBVIOUS
  <2>1. ~ Joins(ssid, password)
    <3> SUFFICES ASSUME Joins(ssid, password) PROVE FALSE
      OBVIOUS
    <3>1. ret' = Result("E_SUCCESS", 0)
      BY DEF Joins
    <3> QED
      BY <3>1 DEF Result
  <2>2. ScanFails \/ NotFound(ssid) \/ AssociationFails(ssid) \/ DhcpFails(ssid)
    BY <2>1 DEF Connect
  <2> QED
    BY <2>2, FailedExit DEF IInv
<1> QED
  BY <1>1, IInvariant, PTL DEF Spec, FailedJoinIsReported

=============================================================================
