---------------------------- MODULE MCWifiManager ----------------------------
(* A list of three networks: one with a passphrase, one without, and the one  *)
(* that is found last.                                                        *)
EXTENDS WifiManager, TLC

CONSTANTS home1, cafe1

MCSsidOf == home1 :> "home" @@ cafe1 :> "cafe"
MCAddressOf == "www" :> 8
MCSecrets == <<[ssid |-> "cafe", password |-> "beans"],
               [ssid |-> "park", password |-> ""],
               [ssid |-> "home", password |-> "secret"]>>

=============================================================================
