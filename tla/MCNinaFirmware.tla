--------------------------- MODULE MCNinaFirmware ---------------------------
(* Two slots and one access point: the firmware with everything its commands  *)
(* share.                                                                     *)
EXTENDS NinaFirmware, TLC

CONSTANT home1

MCSsidOf == home1 :> "home"
MCAddressOf == "www" :> 8

\* Neither the last result nor the last reply steers a later command.
WithoutReplies == <<tableVars, stationVars>>

=============================================================================
