------------------------------- MODULE Buzzer -------------------------------
(***************************************************************************)
(* The buzzer driver (cloud-wise-sdk/drivers/buzzer.c) over the PWM driver *)
(* (nrfx_pwm.c): the monitor task and the BLE task play melodies and notes *)
(* with one PWM and one binary semaphore, which any task may give.         *)
(*                                                                         *)
(* nrf_delay_ms waits busily and the two tasks have one priority, without  *)
(* time slicing; but whenever the keypad task, of a higher one, has run,   *)
(* the kernel goes on with the next of them.  So a task can be cut between *)
(* any two steps below.                                                    *)
(*                                                                         *)
(* The PWM itself stops sounding when it is told to, and latches its       *)
(* STOPPED event then or later; one that is disabled does neither play nor *)
(* raise an event.                                                         *)
(*                                                                         *)
(* A buzzer_train or buzzer_long that does not get the semaphore within    *)
(* its tick returns and has done nothing: it is no step here.              *)
(*                                                                         *)
(* A definition introduced by "Mutant:" is not part of the specification:  *)
(* it is its neighbour with a plausible mistake, and the property named    *)
(* there must fail when it takes the neighbour's place.                    *)
(***************************************************************************)
EXTENDS Integers

CONSTANTS
  Tasks,       \* tasks that use the buzzer
  Pitches,     \* base frequencies
  MAX_NOTES,   \* bound: notes of a melody
  MAX_ROUNDS   \* bound: repeats of buzzer_train (3 in the source)

ASSUME BuzzerAssumption ==
  /\ Pitches # {}
  /\ MAX_NOTES \in Nat \ {0} /\ MAX_ROUNDS \in Nat \ {0}

VARIABLES
  buzzer_semaphore,          \* TRUE: available
  is_initialized,            \* the static of pwm_init
  state,                     \* of the PWM driver
  enabled, top_value,        \* the PWM: ENABLE, period ...
  playing, stopping,         \* ... does it sound, is it going to raise STOPPED ...
  stopped,                   \* ... and the latched STOPPED event
  pc,                        \* where each task is
  call,                      \* what it plays: kind, base_freq
  notes, rounds,             \* and how much is left of it
  mixed,    \* history: has anything but melodies been played ...
  overlap   \* history: ... or two calls been made at once, since all was quiet?

signal == <<playing, stopping, stopped>>
pwm == <<is_initialized, state, enabled, top_value, signal>>
left == <<notes, rounds>>
history == <<mixed, overlap>>
vars == <<buzzer_semaphore, pwm, pc, call, left, history>>

Go(t, from, to) == pc[t] = from /\ pc' = [pc EXCEPT ![t] = to]
Quiet == \A t \in Tasks : pc[t] = "idle"

-----------------------------------------------------------------------------
(* The calls.                                                              *)

Called(t, kind, to) ==
  /\ Go(t, "idle", to)
  /\ \E p \in Pitches : call' = [call EXCEPT ![t] = [kind |-> kind, pitch |-> p]]
  /\ mixed' = (kind # "melody" \/ (mixed /\ ~Quiet))
  /\ overlap' = ~Quiet
  /\ UNCHANGED pwm

\* Mutant: a melody plays whether it gets the semaphore or not (MelodiesExclusive).
PlayMelodyAnyway(t) ==
  /\ \E n \in 1..MAX_NOTES : notes' = [notes EXCEPT ![t] = n]
  /\ buzzer_semaphore' = FALSE /\ Called(t, "melody", "reset")
  /\ UNCHANGED rounds

\* play_melody with the semaphore.  Without it within a tick it goes to its
\* end, which stops the PWM all the same.
PlayMelody(t) ==
  /\ \E n \in 1..MAX_NOTES : notes' = [notes EXCEPT ![t] = n]
  /\ \/ buzzer_semaphore /\ buzzer_semaphore' = FALSE /\ Called(t, "melody", "reset")
     \/ ~buzzer_semaphore /\ UNCHANGED buzzer_semaphore /\ Called(t, "melody", "stop")
  /\ UNCHANGED rounds

\* Mutant: train of no repeats; it takes the semaphore and gives nothing (QuietBuzzer).
BuzzerTrainOfNone(t) ==
  /\ buzzer_semaphore /\ buzzer_semaphore' = FALSE
  /\ Called(t, "notes", "idle")
  /\ UNCHANGED left

\* buzzer_train, and buzzer_long, which is one round of it.
BuzzerTrain(t) ==
  /\ buzzer_semaphore /\ buzzer_semaphore' = FALSE
  /\ Called(t, "notes", "reset")
  /\ \E n \in 1..MAX_ROUNDS : rounds' = [rounds EXCEPT ![t] = n]
  /\ notes' = [notes EXCEPT ![t] = 1]

-----------------------------------------------------------------------------
(* play_melody, called by the tasks above and by play_note.                *)

\* Mutant: pwm_init leaves an initialised PWM as it is (OwnPitch).
KeepPwm(t) ==
  /\ Go(t, "reset", "init")
  /\ UNCHANGED <<buzzer_semaphore, pwm, call, left, history>>

\* pwm_init: nrfx_pwm_uninit ...
ResetPwm(t) ==
  /\ Go(t, "reset", "init")
  /\ IF is_initialized
     THEN state' = "UNINITIALIZED" /\ enabled' = FALSE /\ playing' = FALSE
     ELSE UNCHANGED <<state, enabled, playing>>
  /\ UNCHANGED <<buzzer_semaphore, is_initialized, top_value, stopping, stopped, call,
                 left, history>>

\* ... nrfx_pwm_init, which fails unless the PWM is uninitialised ...
InitPwm(t) ==
  /\ Go(t, "init", "mark")
  /\ IF state = "UNINITIALIZED"
     THEN /\ state' = "INITIALIZED" /\ enabled' = TRUE /\ top_value' = call[t].pitch
          /\ stopped' = FALSE
     ELSE UNCHANGED <<state, enabled, top_value, stopped>>
  /\ UNCHANGED <<buzzer_semaphore, is_initialized, playing, stopping, call, left, history>>

\* ... and is_initialized.
MarkInitialized(t) ==
  /\ Go(t, "mark", "note")
  /\ is_initialized' = TRUE
  /\ UNCHANGED <<buzzer_semaphore, state, enabled, top_value, signal, call, left, history>>

\* nrfx_pwm_simple_playback loops until it is stopped, and does not look at
\* ENABLE.
StartNote(t) ==
  /\ Go(t, "note", "sound")
  /\ state' = "POWERED_ON" /\ stopped' = FALSE /\ playing' = enabled
  /\ UNCHANGED <<buzzer_semaphore, is_initialized, enabled, top_value, stopping, call,
                 left, history>>

\* Mutant: a note more than the melody has is played (TypeOK).
EndNotePast(t) ==
  /\ IF notes[t] > 0 THEN Go(t, "sound", "note") ELSE Go(t, "sound", "give")
  /\ notes' = [notes EXCEPT ![t] = @ - 1]
  /\ UNCHANGED <<buzzer_semaphore, pwm, call, rounds, history>>

\* The note's duration is over.
EndNote(t) ==
  /\ IF notes[t] > 1 THEN Go(t, "sound", "note") ELSE Go(t, "sound", "give")
  /\ notes' = [notes EXCEPT ![t] = @ - 1]
  /\ UNCHANGED <<buzzer_semaphore, pwm, call, rounds, history>>

\* The semaphore is given also when it was the caller that took it.
Give(t) ==
  /\ Go(t, "give", "stop")
  /\ buzzer_semaphore' = TRUE
  /\ UNCHANGED <<pwm, call, left, history>>

\* A melody is over, or a round's note.
Leave(t, from) ==
  IF call[t].kind = "melody" THEN Go(t, from, "idle") ELSE Go(t, from, "gap")

\* Mutant: nothing is stopped after the last note (QuietBuzzer).
NeverStop(t) ==
  /\ Leave(t, "stop")
  /\ UNCHANGED <<buzzer_semaphore, pwm, call, left, history>>

\* nrfx_pwm_stop, whoever plays by now: the STOP task ...
StopPwm(t) ==
  /\ Go(t, "stop", "ask")
  /\ playing' = FALSE /\ stopping' = (stopping \/ enabled)
  /\ UNCHANGED <<buzzer_semaphore, is_initialized, state, enabled, top_value, stopped,
                 call, left, history>>

\* ... then nrfx_pwm_is_stopped until it says so: it reads the state ...
AskState(t) ==
  /\ IF state = "POWERED_ON" THEN Go(t, "ask", "on") ELSE Go(t, "ask", "off")
  /\ UNCHANGED <<buzzer_semaphore, pwm, call, left, history>>

\* ... and the event, in vain perhaps if another task has cleared it or disabled the
\* PWM: no fairness is assumed ...
AskEvent(t) ==
  /\ \/ stopped /\ (Go(t, "on", "event") \/ Go(t, "off", "event"))
     \/ ~stopped /\ (Go(t, "on", "ask") \/ Leave(t, "off"))
  /\ UNCHANGED <<buzzer_semaphore, pwm, call, left, history>>

\* ... after which the driver is initialised, also when another task has uninitialised
\* it, or has started a note by now.
SetInitialized(t) ==
  /\ Leave(t, "event")
  /\ state' = "INITIALIZED"
  /\ UNCHANGED <<buzzer_semaphore, is_initialized, enabled, top_value, signal, call, left,
                 history>>

\* The PWM latches its event.
RaiseStopped ==
  /\ stopping /\ stopping' = FALSE /\ stopped' = TRUE
  /\ UNCHANGED <<buzzer_semaphore, is_initialized, state, enabled, top_value, playing, pc,
                 call, left, history>>

\* After its pause of 50 ms a round gives the semaphore, a second time; the
\* next round does not take it.
EndRound(t) ==
  /\ IF rounds[t] > 1 THEN Go(t, "gap", "reset") ELSE Go(t, "gap", "idle")
  /\ buzzer_semaphore' = TRUE
  /\ rounds' = [rounds EXCEPT ![t] = @ - 1] /\ notes' = [notes EXCEPT ![t] = 1]
  /\ UNCHANGED <<pwm, call, history>>

-----------------------------------------------------------------------------
Init ==
  /\ buzzer_semaphore = TRUE
  /\ is_initialized = FALSE
  /\ state = "UNINITIALIZED" /\ enabled = FALSE /\ top_value \in Pitches
  /\ playing = FALSE /\ stopping = FALSE /\ stopped = FALSE
  /\ pc = [t \in Tasks |-> "idle"]
  /\ call \in [Tasks -> [kind : {"melody"}, pitch : Pitches]]
  /\ notes = [t \in Tasks |-> 0] /\ rounds = [t \in Tasks |-> 0]
  /\ mixed = FALSE /\ overlap = FALSE

Step(t) ==
  \/ PlayMelody(t) \/ BuzzerTrain(t)
  \/ ResetPwm(t) \/ InitPwm(t) \/ MarkInitialized(t)
  \/ StartNote(t) \/ EndNote(t) \/ Give(t)
  \/ StopPwm(t) \/ AskState(t) \/ AskEvent(t) \/ SetInitialized(t) \/ EndRound(t)

Next == RaiseStopped \/ \E t \in Tasks : Step(t)

Spec == Init /\ [][Next]_vars

-----------------------------------------------------------------------------
TypeOK ==
  /\ buzzer_semaphore \in BOOLEAN /\ is_initialized \in BOOLEAN /\ enabled \in BOOLEAN
  /\ playing \in BOOLEAN /\ stopping \in BOOLEAN /\ stopped \in BOOLEAN
  /\ mixed \in BOOLEAN /\ overlap \in BOOLEAN
  /\ state \in {"UNINITIALIZED", "INITIALIZED", "POWERED_ON"}
  /\ top_value \in Pitches
  /\ pc \in [Tasks -> {"idle", "reset", "init", "mark", "note", "sound", "give",
                       "stop", "ask", "on", "off", "event", "gap"}]
  /\ call \in [Tasks -> [kind : {"melody", "notes"}, pitch : Pitches]]
  /\ notes \in [Tasks -> 0..MAX_NOTES] /\ rounds \in [Tasks -> 0..MAX_ROUNDS]

\* However the calls of the tasks overlapped, and whoever's STOPPED event they took for
\* their own, once all have returned nothing sounds, for the PWM or for its driver, though
\* each note is started to loop, and the semaphore, given more often than taken, is not
\* lost.
QuietBuzzer == Quiet => buzzer_semaphore /\ ~playing /\ state # "POWERED_ON"

\* Between its semaphore and the end of its last note.
Playing == {t \in Tasks : pc[t] \in {"reset", "init", "mark", "note", "sound", "give"}}

\* Melodies wait for each other: as long as nobody plays notes, whose rounds
\* give a semaphore that is no longer theirs, one melody plays at a time.
MelodiesExclusive == ~mixed => \A t, u \in Playing : t = u

\* A call that no other overlaps sounds, and at its own pitch, in whatever
\* state earlier overlapping calls have left the PWM, its STOPPED event, its driver
\* and is_initialized.
OwnPitch ==
  \A t \in Tasks : pc[t] = "sound" /\ ~overlap => playing /\ top_value = call[t].pitch
=============================================================================
