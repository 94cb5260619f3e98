----------------------------- MODULE Microphone -----------------------------
(***************************************************************************)
(* What updateIsRecording promises: the microphone is on from the moment   *)
(* something needs it, and is turned off only when nothing has needed it   *)
(* for Hold ticks, the second that State::updateIsRecording adds.          *)
(*                                                                         *)
(* There are no deadline and no timers here, and no streams to be counted: *)
(* Recording implements this specification with them.                      *)
(***************************************************************************)
EXTENDS Integers

CONSTANT Hold

VARIABLES
  needed,  \* something needs the microphone
  on,      \* the device records
  idle     \* ticks since it was last needed, up to Hold

micVars == <<needed, on, idle>>

MicInit == ~needed /\ ~on /\ idle = Hold

\* What is needed is on at once.
NeedBegins == ~needed /\ needed' /\ on' /\ idle' = 0

\* What is no longer needed stays as it is.
NeedEnds == needed /\ ~needed' /\ UNCHANGED <<on, idle>>

\* Time passes.
Elapse == ~needed /\ idle < Hold /\ idle' = idle + 1 /\ UNCHANGED <<needed, on>>

\* The microphone is turned off.
TurnOff == ~needed /\ on /\ idle = Hold /\ ~on' /\ UNCHANGED <<needed, idle>>

MicNext == NeedBegins \/ NeedEnds \/ Elapse \/ TurnOff

MicSpec == MicInit /\ [][MicNext]_micVars
=============================================================================
