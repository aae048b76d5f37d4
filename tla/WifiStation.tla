----------------------------- MODULE WifiStation -----------------------------
(***************************************************************************)
(* The station half of src/wifi-api.cpp: joining an access point, the      *)
(* status a host polls, and the resolver.  wifi_api_connect runs to its    *)
(* end inside one command, so it is one action with an outcome; access     *)
(* points come and go between commands.                                    *)
(*                                                                         *)
(* The radio and DHCP are external: "link" is the access point the radio   *)
(* is associated with and "lease" the one the interface's address is from. *)
(* wifi_api_last_error is left out: no code reads it.                      *)
(***************************************************************************)
EXTENDS Naturals

CONSTANTS
    APs,         \* access points
    SsidOf,      \* the network each one belongs to
    Ssids,       \* networks a host may ask for
    NoSsid,      \* the empty ssid
    Passwords,   \* passphrases a host may send
    Names,       \* host names a host may look up
    DottedQuads, \* those inet_aton accepts
    AddressOf,   \* the address of each name
    NULL

ASSUME ApsAssumption == NULL \notin APs /\ SsidOf \in [APs -> Ssids \ {NoSsid}]
ASSUME NamesAssumption ==
    DottedQuads \subseteq Names /\ NULL \notin Names /\ AddressOf \in [Names -> Nat \ {0}]

VARIABLES
    station,   \* status, ssid, chosen access point and password of "wifi"
    link,      \* external: the radio's association
    lease,     \* external: where the interface's address comes from
    inRange,   \* external: the access points a scan sees
    resolved,  \* resolved_hostname of src/handlers.cpp
    asked,     \* history: the name of the last lookup, if it succeeded
    ret        \* result of the last wifi_api_* call

stationVars == <<station, link, lease, inRange, resolved, asked>>
vars == <<stationVars, ret>>

\* The WL_* values of src/wifi-api.h that the code assigns.
IDLE == 0
NO_SSID_AVAIL == 1
CONNECTED == 3
CONNECT_FAILED == 4

Result(err, val) == [err |-> err, val |-> val]

\* Mutant of IdleStation: the host's WL_NO_SHIELD, 0xFF, for WL_IDLE_STATUS.
NoShieldStation == [status |-> 255, ssid |-> NoSsid, ap |-> NULL, password |-> NULL]

IdleStation == [status |-> IDLE, ssid |-> NoSsid, ap |-> NULL, password |-> NULL]

Init ==
    /\ station = IdleStation
    /\ link = NULL
    /\ lease = NULL
    /\ inRange \in SUBSET APs
    /\ resolved = 0
    /\ asked = NULL
    /\ ret = Result("none", 0)

-----------------------------------------------------------------------------
\* _find_ap keeps the last match of the scan buffer, whose order is the radio's.
Candidates(ssid) == {a \in inRange : SsidOf[a] = ssid}

\* The station once the scan is over: reset, then filled in from the match.
Found(ssid, a) == [IdleStation EXCEPT !.ssid = ssid, !.ap = a]

\* Mutant of ScanFails: the reset comes after the scan.
ScanFailsFirst ==
    /\ ret' = Result("E_SCAN_ERROR", 0)
    /\ UNCHANGED <<station, link, lease>>

ScanFails ==
    /\ station' = IdleStation
    /\ ret' = Result("E_SCAN_ERROR", 0)
    /\ UNCHANGED <<link, lease>>

NotFound(ssid) ==
    /\ Candidates(ssid) = {}
    /\ ssid # NoSsid  \* the reset left wifi.ssid empty: strcmp finds it equal
    /\ station' = [IdleStation EXCEPT !.status = NO_SSID_AVAIL]
    /\ ret' = Result("E_SSID_NOT_FOUND", 0)
    /\ UNCHANGED <<link, lease>>

\* What wifi_connect is called with.
Target(ssid) ==
    {Found(ssid, a) : a \in Candidates(ssid)} \cup
        {IdleStation : x \in {ssid} \cap {NoSsid}}

AssociationFails(ssid) ==
    /\ \E st \in Target(ssid) : station' = [st EXCEPT !.status = CONNECT_FAILED]
    /\ link' = NULL
    /\ ret' = Result("E_CONNECT_ERROR", 0)
    /\ UNCHANGED lease

\* Mutant of DhcpFails: the status is set before the lease is waited for.
DhcpFailsConnected(ssid) ==
    /\ \E a, joined \in Candidates(ssid) :
         station' = [Found(ssid, a) EXCEPT !.status = CONNECTED] /\ link' = joined
    /\ lease' = NULL
    /\ ret' = Result("E_DHCP_ERROR", 0)

\* wifi_connect is not told which of the candidates was found, and picks one.
\* The status stays IDLE when the lease does not come.
DhcpFails(ssid) ==
    /\ \E a, joined \in Candidates(ssid) : station' = Found(ssid, a) /\ link' = joined
    /\ lease' = NULL
    /\ ret' = Result("E_DHCP_ERROR", 0)

Joins(ssid, password) ==
    /\ \E a, joined \in Candidates(ssid) :
         /\ link' = joined
         /\ lease' = joined
         /\ station' = [Found(ssid, a) EXCEPT !.status = CONNECTED, !.password = password]
    /\ ret' = Result("E_SUCCESS", 0)

\* wifi_api_connect past its length checks.
Connect(ssid, password) ==
    /\ \/ ScanFails
       \/ NotFound(ssid)
       \/ AssociationFails(ssid)
       \/ DhcpFails(ssid)
       \/ Joins(ssid, password)
    /\ UNCHANGED <<inRange, resolved, asked>>

\* A too long ssid or passphrase: nothing is reset.
ConnectRejected ==
    /\ \E err \in {"E_SSID_TOO_LONG", "E_PASSWORD_TOO_LONG"} : ret' = Result(err, 0)
    /\ UNCHANGED stationVars

ConnStatus ==
    /\ ret' = Result("E_SUCCESS", station.status)
    /\ UNCHANGED stationVars

-----------------------------------------------------------------------------
\* inet_aton is given the address of the local pointer: a dotted quad is
\* accepted and resolved_hostname stays as it was.
GetHostByName(name) ==
    /\ \/ /\ name \in DottedQuads
          /\ ret' = Result("E_SUCCESS", 0)
          /\ asked' = name
          /\ UNCHANGED resolved
       \/ /\ name \notin DottedQuads
          /\ resolved' = AddressOf[name]
          /\ asked' = name
          /\ ret' = Result("E_SUCCESS", 0)
       \/ /\ name \notin DottedQuads
          /\ ret' = Result("E_HOST_NOT_FOUND", 0)
          /\ asked' = NULL
          /\ UNCHANGED resolved
    /\ UNCHANGED <<station, link, lease, inRange>>

ReadResolved ==
    /\ ret' = Result("E_SUCCESS", resolved)
    /\ UNCHANGED stationVars

-----------------------------------------------------------------------------
\* The radio loses its access point, or one appears: no callback tells "wifi".
ApGone(a) ==
    /\ a \in inRange
    /\ inRange' = inRange \ {a}
    /\ link' = IF link = a THEN NULL ELSE link
    /\ UNCHANGED <<station, lease, resolved, asked, ret>>

ApAppears(a) ==
    /\ a \notin inRange
    /\ inRange' = inRange \cup {a}
    /\ UNCHANGED <<station, link, lease, resolved, asked, ret>>

Reboot ==
    /\ station' = IdleStation
    /\ link' = NULL
    /\ lease' = NULL
    /\ resolved' = 0
    /\ asked' = NULL
    /\ ret' = Result("none", 0)
    /\ UNCHANGED inRange

Next ==
    \/ \E ssid \in Ssids, password \in Passwords : Connect(ssid, password)
    \/ ConnectRejected
    \/ ConnStatus
    \/ \E name \in Names : GetHostByName(name)
    \/ ReadResolved
    \/ \E a \in APs : ApGone(a) \/ ApAppears(a)
    \/ Reboot

Spec == Init /\ [][Next]_vars

-----------------------------------------------------------------------------
Stations == [status : {IDLE, NO_SSID_AVAIL, CONNECTED, CONNECT_FAILED},
             ssid : Ssids \cup {NoSsid}, ap : APs \cup {NULL},
             password : Passwords \cup {NULL}]

\* Every variable keeps its type.
TypeOK ==
    /\ station \in Stations
    /\ link \in APs \cup {NULL}
    /\ lease \in APs \cup {NULL}
    /\ inRange \subseteq APs
    /\ resolved \in Nat
    /\ asked \in Names \cup {NULL}

\* A host that reads CONNECTED has an address from the very network "wifi" names,
\* with the password that opened it: no join that failed half way, after an
\* earlier one that worked, leaves the two disagreeing.
ConnectedMeansLeased ==
    station.status = CONNECTED =>
        /\ lease # NULL /\ SsidOf[lease] = station.ssid
        /\ station.password \in Passwords
        /\ link # NULL => link = lease

\* A join that got past its length checks and failed at any stage - scan, search,
\* association, DHCP - no longer reports the connection it replaced.
FailedJoinIsReported ==
    [][\A ssid \in Ssids, password \in Passwords :
          Connect(ssid, password) /\ ret'.err # "E_SUCCESS"
            => station'.status # CONNECTED]_vars

\* The address a host reads after a lookup that succeeded is the one of the name
\* it looked up ("Convert a hostname to a packed 4-byte IP address").
ResolvedIsAsked == asked # NULL => resolved = AddressOf[asked]

=============================================================================
