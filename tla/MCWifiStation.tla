---------------------------- MODULE MCWifiStation ----------------------------
(* Two access points of one network and one of another; a host name and a     *)
(* dotted quad.                                                               *)
EXTENDS WifiStation, TLC

CONSTANTS home1, home2, cafe1

MCSsidOf == home1 :> "home" @@ home2 :> "home" @@ cafe1 :> "cafe"
MCAddressOf == "www" :> 8 @@ "10.0.0.1" :> 10

=============================================================================
