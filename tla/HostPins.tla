------------------------------- MODULE HostPins -------------------------------
(***************************************************************************)
(* DigitalInOut and Pin of digitalio.py and PWMOut of PWMOut.py, over the  *)
(* driver's pin commands.  The firmware of this repository has no handler  *)
(* for them, so that every one of them raises; here they reach a board     *)
(* that has (external), which may still miss one, or its answer be missed. *)
(* A method is a sequence of commands and attributes set in between.       *)
(*                                                                         *)
(* The program runs one method at a time, never has two objects on a pin,  *)
(* and drops an object it has deinitialised or whose constructor raised.   *)
(* Reads of digital values, which only raise, are left out.                *)
(***************************************************************************)
EXTENDS Naturals

CONSTANTS
    Pins,
    Digitals,    \* DigitalInOut objects
    Pwms,        \* PWMOut objects
    Duties,      \* duty cycles a program sets
    Frequencies, \* frequencies a program sets
    Reliable,    \* every command is performed and answered
    NULL

Unset == "unset"
Directions == {"IN", "OUT"}

\* The attributes of an object.  "dir" is __direction, "value" the Pin's _value,
\* "drive" _drive_mode.  History: "sound" says that no method has raised, and the
\* board has not been reset, since the direction was set.
DigitalObject ==
    [pin : Pins, dir : Directions, value : {0, 1}, drive : {Unset, "PUSH_PULL"}, sound : BOOLEAN]

\* History: "set" is the duty cycle last set.
PwmObject == [pin : Pins, duty : Duties, freq : Frequencies \cup {500}, set : Duties]

ASSUME NullAssumption == NULL \notin Digitals /\ NULL \notin DigitalObject /\ NULL \notin PwmObject
ASSUME DutiesAssumption == Duties \cup Frequencies \subseteq Nat
ASSUME ReliableAssumption == Reliable \in BOOLEAN

VARIABLES
    board,  \* external: mode and level of each pin
    dio,    \* the attributes of each DigitalInOut, NULL when there is none
    pwm,    \* the attributes of each PWMOut
    call    \* the DigitalInOut method that is running

pinsVars == <<board, dio, pwm, call>>

ResetPin == [mode |-> "IN", level |-> 0]

NewDigital(p) == [pin |-> p, dir |-> "IN", value |-> 0, drive |-> Unset, sound |-> FALSE]

NewPwm(p, duty) == [pin |-> p, duty |-> duty, freq |-> 500, set |-> duty]

NoCall == [op |-> "none", h |-> NULL, at |-> "none", level |-> 0]
Call(op, h, at, level) == [op |-> op, h |-> h, at |-> at, level |-> level]

LiveDigitals == {h \in Digitals : dio[h] # NULL}
LivePwms == {w \in Pwms : pwm[w] # NULL}
PinsInUse == {dio[h].pin : h \in LiveDigitals} \cup {pwm[w].pin : w \in LivePwms}

PinsInit ==
    /\ board = [p \in Pins |-> ResetPin]
    /\ dio = [h \in Digitals |-> NULL]
    /\ pwm = [w \in Pwms |-> NULL]
    /\ call = NoCall

-----------------------------------------------------------------------------
(* Commands *)

OwnPin == dio[call.h].pin

\* set_pin_mode and set_digital_write: performed, or not, and a RuntimeError.
Performed(state) == board' = state
Missed(state) == ~Reliable /\ board' \in {board, state}

ModeSet(mode) == [board EXCEPT ![OwnPin].mode = mode]
LevelSet(level) == [board EXCEPT ![OwnPin].level = level]

Ends(object) == dio' = [dio EXCEPT ![call.h] = object] /\ call' = NoCall
GoesOn(at, object) == dio' = [dio EXCEPT ![call.h] = object] /\ call' = [call EXCEPT !.at = at]

\* The exception leaves the attributes as they are; a constructor leaves no object.
RaisesWith(object) ==
    Ends(IF call.op = "new" THEN NULL ELSE [object EXCEPT !.sound = FALSE])

-----------------------------------------------------------------------------
(* DigitalInOut *)

Begin(op, h, at, level, object) ==
    /\ call = NoCall
    /\ call' = Call(op, h, at, level)
    /\ dio' = [dio EXCEPT ![h] = object]
    /\ UNCHANGED <<board, pwm>>

\* The constructor sets the direction to INPUT.
New(h, p) ==
    /\ h \notin LiveDigitals /\ p \notin PinsInUse
    /\ Begin("new", h, "mode", 0, NewDigital(p))

\* direction.setter: the attribute first, then the command.
SetDirection(h, dir) ==
    /\ h \in LiveDigitals
    /\ Begin("direction", h, "mode", 0, [dio[h] EXCEPT !.dir = dir])

SetValue(h, level) ==
    /\ h \in LiveDigitals /\ dio[h].dir = "OUT"
    /\ Begin("value", h, "write", level, dio[h])

\* drive_mode.setter: OPEN_DRAIN raises before any command.
SetDriveMode(h) ==
    /\ h \in LiveDigitals
    /\ Begin("drive_mode", h, "drive", 0, dio[h])

\* switch_to_output sets _direction, which nothing reads, and then the value: on
\* an input this raises.
SwitchToOutput(h, level, drive) ==
    /\ h \in LiveDigitals
    /\ LET object == [dio[h] EXCEPT !.drive = drive]
       IN  \/ object.dir = "OUT" /\ Begin("switch", h, "write", level, object)
           \/ /\ object.dir = "IN" /\ call = NoCall
              /\ dio' = [dio EXCEPT ![h] = object]
              /\ UNCHANGED <<board, pwm, call>>

\* Pin.init
Mode ==
    /\ call.at = "mode"
    /\ LET object == dio[call.h]
       IN  \/ /\ Performed(ModeSet(object.dir))
              /\ IF object.dir = "OUT"
                 THEN GoesOn("write", object)
                 ELSE Ends([object EXCEPT !.sound = TRUE])
           \/ Missed(ModeSet(object.dir)) /\ RaisesWith(object)
    /\ UNCHANGED pwm

\* Mutant of Write: the pin remembers the value, and the command is forgotten.
WriteForgotten ==
    /\ call.at = "write"
    /\ LET object == [dio[call.h] EXCEPT !.value = call.level]
       IN  IF call.op = "direction" THEN GoesOn("drive", object) ELSE Ends(object)
    /\ UNCHANGED <<board, pwm>>

\* Pin.value
Write ==
    /\ call.at = "write"
    /\ LET object == [dio[call.h] EXCEPT !.value = call.level]
       IN  \/ /\ Performed(LevelSet(call.level))
              /\ IF call.op = "direction" THEN GoesOn("drive", object) ELSE Ends(object)
           \/ Missed(LevelSet(call.level)) /\ RaisesWith(object)
    /\ UNCHANGED pwm

\* PUSH_PULL makes the pin an output, whatever the direction is.
Drive ==
    /\ call.at = "drive"
    /\ LET object == dio[call.h]
       IN  \/ /\ Performed(ModeSet("OUT"))
              /\ Ends(IF call.op = "direction" THEN [object EXCEPT !.sound = TRUE] ELSE object)
           \/ Missed(ModeSet("OUT")) /\ RaisesWith(object)
    /\ UNCHANGED pwm

Deinit(h) ==
    /\ call = NoCall /\ h \in LiveDigitals
    /\ dio' = [dio EXCEPT ![h] = NULL]
    /\ UNCHANGED <<board, pwm, call>>

-----------------------------------------------------------------------------
(* PWMOut *)

NewPwmOut(w, p, duty) ==
    /\ call = NoCall /\ w \notin LivePwms /\ p \notin PinsInUse
    /\ pwm' = [pwm EXCEPT ![w] = NewPwm(p, duty)]
    /\ UNCHANGED <<board, dio, call>>

\* duty_cycle.setter: one command, and no attribute.
SetDutyCycle(w, duty) ==
    /\ call = NoCall /\ w \in LivePwms
    /\ LET after == [board EXCEPT ![pwm[w].pin] = [mode |-> "PWM", level |-> duty]]
       IN  \/ Performed(after) /\ pwm' = [pwm EXCEPT ![w].set = duty]
           \/ Missed(after) /\ UNCHANGED pwm
    /\ UNCHANGED <<dio, call>>

\* frequency.setter keeps the frequency, and raises.
SetFrequency(w, freq) ==
    /\ call = NoCall /\ w \in LivePwms
    /\ pwm' = [pwm EXCEPT ![w].freq = freq]
    /\ UNCHANGED <<board, dio, call>>

\* deinit sends nothing: the pin goes on pulsing.
DeinitPwm(w) ==
    /\ call = NoCall /\ w \in LivePwms
    /\ pwm' = [pwm EXCEPT ![w] = NULL]
    /\ UNCHANGED <<board, dio, call>>

\* The driver's reset, between two methods: no object hears of it.
Reset ==
    /\ call = NoCall
    /\ board' = [p \in Pins |-> ResetPin]
    /\ dio' = [h \in Digitals |-> IF h \in LiveDigitals
                                  THEN [dio[h] EXCEPT !.sound = FALSE] ELSE NULL]
    /\ UNCHANGED <<pwm, call>>

PinsNext ==
    \/ \E h \in Digitals :
         \/ \E p \in Pins : New(h, p)
         \/ \E dir \in Directions : SetDirection(h, dir)
         \/ \E level \in {0, 1} :
              SetValue(h, level) \/ SwitchToOutput(h, level, "PUSH_PULL")
         \/ SetDriveMode(h)
         \/ Deinit(h)
    \/ Mode \/ Write \/ Drive
    \/ \E w \in Pwms :
         \/ \E p \in Pins, duty \in Duties : NewPwmOut(w, p, duty)
         \/ \E duty \in Duties : SetDutyCycle(w, duty)
         \/ \E freq \in Frequencies : SetFrequency(w, freq)
         \/ DeinitPwm(w)
    \/ Reset

PinsSpec == PinsInit /\ [][PinsNext]_pinsVars

-----------------------------------------------------------------------------
Calls ==
    [op : {"none", "new", "direction", "value", "drive_mode", "switch"},
     h : Digitals \cup {NULL}, at : {"none", "mode", "write", "drive"}, level : {0, 1}]

\* No two objects have a pin in common.
PinsApart ==
    /\ \A g, h \in LiveDigitals : dio[g].pin = dio[h].pin => g = h
    /\ \A v, w \in LivePwms : pwm[v].pin = pwm[w].pin => v = w
    /\ \A h \in LiveDigitals, w \in LivePwms : dio[h].pin # pwm[w].pin

\* Every variable keeps its type; a method runs on an object that exists.
PinsTypeOK ==
    /\ board \in [Pins -> [mode : Directions \cup {"PWM"}, level : Nat]]
    /\ dio \in [Digitals -> DigitalObject \cup {NULL}]
    /\ pwm \in [Pwms -> PwmObject \cup {NULL}]
    /\ call \in Calls
    /\ call # NoCall => call.h \in LiveDigitals
    /\ PinsApart

AtRest(h) == h \in LiveDigitals /\ dio[h].sound /\ call.h # h

\* An object that says OUTPUT, with every method since its direction was set
\* completed, has its pin as an output at the level last written: whatever an
\* earlier object, a PWM or a command missed half way left on the pin.
OutputAsWritten ==
    \A h \in Digitals :
        AtRest(h) /\ dio[h].dir = "OUT" =>
            board[dio[h].pin] = [mode |-> "OUT", level |-> dio[h].value]

\* direction "Returns the pin's direction."
DirectionTellsPin ==
    \A h \in Digitals : AtRest(h) => board[dio[h].pin].mode = dio[h].dir

\* switch_to_output: "Set the drive mode and value and then switch to writing out
\* digital values."
SwitchesToOutput ==
    [][\A h \in Digitals, level \in {0, 1} :
          SwitchToOutput(h, level, "PUSH_PULL") => dio'[h].dir = "OUT"]_pinsVars

\* duty_cycle: "Returns the PWMOut object's duty cycle".
DutyCycleIsSet == \A w \in LivePwms : pwm[w].duty = pwm[w].set

=============================================================================
