------------------------------ MODULE MCSpiLink ------------------------------
(* Commands of each kind: without parameters, padded, in whole words, refused padded and not. *)
EXTENDS SpiLink

GetFwVersion == <<224, 55, 0, 238>>
StopClient == <<224, 46, 1, 1, 9, 238>>
SetPassphrase == <<224, 17, 2, 2, 97, 112, 4, 112, 97, 115, 115, 238>>
SetApPassphrase == <<224, 25, 3, 3, 97, 112, 49, 1, 112, 1, 6, 238>>
SetApNet == <<224, 24, 2, 2, 97, 112, 1, 6, 238>>
SendData == <<224, 68, 2, 0, 1, 0, 0, 3, 71, 69, 84, 238>>

Kinds == {GetFwVersion, StopClient, SetPassphrase, SetApPassphrase, SetApNet}
WithSend == {GetFwVersion, SendData}
WithAp == {GetFwVersion, SetApPassphrase}
Codes == {17, 45, 46, 55, 68}

=============================================================================
