----------------------------- MODULE MCHostPins -----------------------------
(* Two pins, two digital objects and a PWM: every object can get a pin that    *)
(* another one has used.                                                      *)
EXTENDS HostPins, TLC

Symmetries == Permutations(Pins) \cup Permutations(Digitals)

=============================================================================
