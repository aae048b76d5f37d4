----------------------------- MODULE WifiManager -----------------------------
(***************************************************************************)
(* ESPSPI_WiFiManager of adafruit_esp32spi_wifimanager.py, with connect_AP, *)
(* create_AP and is_connected of the driver, over the firmware's station.  *)
(*                                                                         *)
(* A method is at one place at a time and each step is one command to the  *)
(* firmware.  A command can be performed and its answer still be missed: a *)
(* join may well take longer than the 10 s the driver waits.  The driver   *)
(* then raises RuntimeError; the answer itself is taken to be gone when    *)
(* the next command is sent.                                               *)
(*                                                                         *)
(* What a request does once the network is up belongs to SocketClient.     *)
(* Secrets that _get_next_ap refuses, and the status pixel, are left out.  *)
(***************************************************************************)
EXTENDS Naturals, Sequences

CONSTANTS
    APs, SsidOf, Ssids, NoSsid, Passwords, Names, DottedQuads, AddressOf, NULL, \* WifiStation
    NoPassword,  \* the empty passphrase
    Secrets,     \* the ssids and passwords of the secrets, paired
    Attempts     \* failed attempts before a reset

ASSUME SecretsAssumption ==
    /\ Secrets \in Seq([ssid : Ssids \ {NoSsid}, password : Passwords \cup {NoPassword}])
    /\ Secrets # <<>> /\ NoPassword \notin Passwords
ASSUME AttemptsAssumption == Attempts \in Nat

VARIABLES
    station, link, lease, inRange, resolved, asked, ret,  \* WifiStation
    fw,       \* "up", or "dead" behind a null dereference
    apIndex,  \* _ap_index, counted from 1
    mgr       \* the method that runs: its place, network and failure_count

Station == INSTANCE WifiStation

ASSUME StationAssumption == Station!ApsAssumption /\ Station!NamesAssumption

stationVars == <<station, link, lease, inRange, resolved, asked>>
firmwareVars == <<stationVars, ret, fw>>
vars == <<firmwareVars, apIndex, mgr>>

Types == {"normal", "enterprise"}

\* A manager of some connection type in no method.
AtRest(type) == [at |-> "idle", ap |-> NULL, failures |-> 0, type |-> type]

Init ==
    /\ Station!Init
    /\ fw = "up"
    /\ apIndex = 1
    /\ \E type \in Types : mgr = AtRest(type)

Goes(at) == [mgr EXCEPT !.at = at]
Returns == AtRest(mgr.type)

-----------------------------------------------------------------------------
(* Commands and their answers *)

Succeeded == ret'.err = "E_SUCCESS"

\* Mutant of Reset: the driver pulses no pin.
ResetLeft == UNCHANGED firmwareVars

\* The reset pin.
Reset ==
    /\ Station!Reboot
    /\ fw' = "up"

\* status, answered.
StatusIs(connected) ==
    /\ fw = "up"
    /\ Station!ConnStatus
    /\ (ret'.val = Station!CONNECTED) = connected
    /\ UNCHANGED fw

\* Mutant of IsConnected: a lost answer is taken for a yes.
IsConnectedOrLost(yes, no) ==
    \/ StatusIs(TRUE) /\ mgr' = yes
    \/ StatusIs(FALSE) /\ mgr' = no
    \/ UNCHANGED firmwareVars /\ mgr' = yes

\* is_connected: a RuntimeError resets the firmware and counts as no.
IsConnected(yes, no) ==
    \/ StatusIs(TRUE) /\ mgr' = yes
    \/ StatusIs(FALSE) /\ mgr' = no
    \/ Reset /\ mgr' = no

-----------------------------------------------------------------------------
(* connect *)

\* Mutant of NextIndex: the list starts over before its last entry.
NextIndexShort == IF apIndex + 1 >= Len(Secrets) THEN 1 ELSE apIndex + 1

\* _get_next_ap
NextIndex == IF apIndex = Len(Secrets) THEN 1 ELSE apIndex + 1
NextAp(at) ==
    /\ mgr' = [mgr EXCEPT !.at = at, !.ap = Secrets[apIndex], !.failures = 0]
    /\ apIndex' = NextIndex

\* wifi_set_network of connect_enterprise, outside its try: no answer comes
\* from SET_NET, and the method ends with the exception.
Enterprise ==
    /\ mgr.at = "connect" /\ mgr.type = "enterprise"
    /\ fw' = "dead"
    /\ mgr' = Returns
    /\ UNCHANGED <<stationVars, ret, apIndex>>

ConnectNormal ==
    /\ mgr.at = "connect" /\ mgr.type = "normal"
    /\ NextAp("poll")
    /\ UNCHANGED firmwareVars

Poll ==
    /\ mgr.at = "poll"
    /\ IsConnected(Goes("request"), Goes("join"))
    /\ UNCHANGED apIndex

\* Mutant of Fail: the failures of a network are not added up.
FailForgets == mgr' = [Goes("poll") EXCEPT !.failures = 1] /\ UNCHANGED apIndex

\* The except clause of connect_normal.
Fail ==
    IF mgr.failures + 1 >= Attempts
    THEN NextAp("reset")
    ELSE mgr' = [Goes("poll") EXCEPT !.failures = @ + 1] /\ UNCHANGED apIndex

\* wifi_set_passphrase.  Whatever the firmware did, the answer may be missed.
JoinAnswered ==
    /\ mgr.at = "join" /\ mgr.ap.password # NoPassword
    /\ Station!Connect(mgr.ap.ssid, mgr.ap.password) /\ Succeeded
    /\ mgr' = Goes("status")
    /\ UNCHANGED <<fw, apIndex>>

JoinFails ==
    /\ mgr.at = "join" /\ mgr.ap.password # NoPassword
    /\ Station!Connect(mgr.ap.ssid, mgr.ap.password)
    /\ Fail
    /\ UNCHANGED fw

\* wifi_set_network: connect_AP takes an empty password for none.
JoinOpen ==
    /\ mgr.at = "join" /\ mgr.ap.password = NoPassword
    /\ fw' = "dead"
    /\ Fail
    /\ UNCHANGED <<stationVars, ret>>

\* connect_AP's polling: the join is over when its answer comes, so the first
\* status that is answered decides.
StatusAnswered ==
    /\ mgr.at = "status"
    /\ StatusIs(TRUE)
    /\ mgr' = [Goes("poll") EXCEPT !.failures = 0]
    /\ UNCHANGED apIndex

StatusLost ==
    /\ mgr.at = "status"
    /\ Fail
    /\ UNCHANGED firmwareVars

ResetStep ==
    /\ mgr.at = "reset"
    /\ Reset
    /\ mgr' = Goes("poll")
    /\ UNCHANGED apIndex

-----------------------------------------------------------------------------
(* Requests and access point mode *)

\* get, post, put, patch, delete, ping, ip_address, signal_strength
Guard ==
    /\ mgr.at = "guard"
    /\ IsConnected(Goes("request"), Goes("connect"))
    /\ UNCHANGED apIndex

Serve ==
    /\ mgr.at = "request"
    /\ mgr' = Returns
    /\ UNCHANGED <<firmwareVars, apIndex>>

\* ap_listening: the firmware has no such status.
ApPoll ==
    /\ mgr.at = "ap_poll"
    /\ Reset \/ (StatusIs(TRUE) \/ StatusIs(FALSE))
    /\ mgr' = Goes("ap_join")
    /\ UNCHANGED apIndex

\* create_AP: SET_AP_NET and SET_AP_PASSPHRASE have no handler and raise.
ApJoin ==
    /\ mgr.at = "ap_join"
    /\ mgr' = IF mgr.failures + 1 >= Attempts
              THEN [Goes("ap_reset") EXCEPT !.failures = 0]
              ELSE [Goes("ap_poll") EXCEPT !.failures = @ + 1]
    /\ UNCHANGED <<firmwareVars, apIndex>>

ApReset ==
    /\ mgr.at = "ap_reset"
    /\ Reset
    /\ mgr' = Goes("ap_poll")
    /\ UNCHANGED apIndex

-----------------------------------------------------------------------------
Call(at) ==
    /\ mgr.at = "idle"
    /\ mgr' = Goes(at)
    /\ UNCHANGED <<firmwareVars, apIndex>>

\* reset, called by the program.
CallReset ==
    /\ mgr.at = "idle"
    /\ Reset
    /\ UNCHANGED <<apIndex, mgr>>

\* The program starts again, in the middle of whatever ran: the driver's
\* constructor resets the firmware.
HostRestarts ==
    /\ Reset
    /\ apIndex' = 1
    /\ \E type \in Types : mgr' = AtRest(type)

Radio ==
    /\ \E a \in APs : Station!ApGone(a) \/ Station!ApAppears(a)
    /\ UNCHANGED <<fw, apIndex, mgr>>

\* A step of the method that runs.
Step ==
    \/ Enterprise \/ ConnectNormal \/ Poll
    \/ JoinAnswered \/ JoinFails \/ JoinOpen
    \/ StatusAnswered \/ StatusLost \/ ResetStep
    \/ Guard \/ Serve
    \/ ApPoll \/ ApJoin \/ ApReset

Next ==
    \/ \E at \in {"connect", "guard", "ap_poll"} : Call(at)
    \/ CallReset
    \/ Step
    \/ HostRestarts
    \/ Radio

Spec == Init /\ [][Next]_vars

\* A method that runs goes on.  A join that could work is not missed for ever,
\* and neither is the answer of a firmware that is connected.
FairSpec ==
    /\ Spec
    /\ WF_vars(Step)
    /\ SF_vars(JoinAnswered)
    /\ SF_vars(StatusAnswered)
    /\ SF_vars(Poll /\ StatusIs(TRUE))

-----------------------------------------------------------------------------
Places == {"idle", "guard", "connect", "poll", "join", "status", "reset", "request",
           "ap_poll", "ap_join", "ap_reset"}

Entries == {Secrets[i] : i \in DOMAIN Secrets}

\* Every variable keeps its type, and the firmware is up wherever a command
\* that is not a status check is sent.
TypeOK ==
    /\ Station!TypeOK
    /\ fw \in {"up", "dead"}
    /\ apIndex \in DOMAIN Secrets
    /\ mgr \in [at : Places, ap : Entries \cup {NULL}, failures : 0..Attempts, type : Types]
    /\ mgr.at \in {"join", "status", "request"} => fw = "up"

\* A request goes out only on a firmware that holds an address from a network of
\* the secrets, opened with that network's own password - after any number of
\* failed joins, missed answers, resets and restarts ("A class to help manage the
\* Wifi connection").
RequestOnListedNetwork ==
    mgr.at = "request" =>
        /\ fw = "up"
        /\ lease # NULL /\ SsidOf[lease] = station.ssid
        /\ [ssid |-> station.ssid, password |-> station.password] \in Entries

\* No join, which closes every socket, is sent to a firmware that is connected: a
\* connect called on a working network leaves it alone, and a missed answer
\* resets the firmware first.
JoinOnlyWhenDown == mgr.at = "join" => station.status # Station!CONNECTED

Connecting == mgr.at \in {"connect", "poll", "join", "status", "reset"}

\* A connect that goes on for ever tries every network of the list again and
\* again: index, failure count and resets never settle on some of them.
EveryNetworkTried ==
    \A i \in DOMAIN Secrets :
        []<>~Connecting \/ []<>(mgr.at = "join" /\ mgr.ap = Secrets[i])

\* connect ends once a network of the list stays in range, wherever in the list
\* it is.
ConnectEnds ==
    (\E i \in DOMAIN Secrets :
        Secrets[i].password # NoPassword /\ <>[](Station!Candidates(Secrets[i].ssid) # {}))
    => (Connecting ~> ~Connecting)

\* is_connected: "Whether the ESP32 is connected to an access point".
IsConnectedTrue ==
    [][mgr.at \in {"guard", "poll"} /\ mgr'.at = "request" => link # NULL]_vars

=============================================================================
