---------------------------- MODULE BuzzerProofs ----------------------------
(***************************************************************************)
(* Proofs about Buzzer, for any tasks, pitches and bounds.                 *)
(*                                                                         *)
(* The argument: a task that has a step left in which it gives the         *)
(* semaphore is responsible for it being taken, one that has a StopPwm     *)
(* left for the PWM playing, and one that still waits for the PWM for its  *)
(* driver to believe so.  The counts of takes and gives do not matter,     *)
(* only that nobody leaves the driver without having done all three after  *)
(* whatever it started.                                                    *)
(***************************************************************************)
EXTENDS Buzzer, TLAPS

Stopping == {"stop", "ask", "on", "off", "event"}

\* The tasks that will give the semaphore, stop the PWM, and see it stopped.
Givers == {t \in Tasks : \/ pc[t] \in {"reset", "init", "mark", "note", "sound", "give", "gap"}
                         \/ pc[t] \in Stopping /\ call[t].kind = "notes"}
Stoppers == {t \in Tasks : pc[t] \in {"reset", "init", "mark", "note", "sound", "give", "stop"}}
Waiters == {t \in Tasks : pc[t] \notin {"idle", "gap", "off"}}

Returned ==
  /\ ~buzzer_semaphore => Givers # {}
  /\ playing => Stoppers # {}
  /\ state = "POWERED_ON" => Waiters # {}

Melodies ==
  ~mixed => /\ \A t \in Tasks : pc[t] # "idle" => call[t].kind = "melody" /\ pc[t] # "gap"
            /\ \A t, u \in Playing : t = u
            /\ Playing # {} => ~buzzer_semaphore

\* What one task finds as it goes along, alone.
Alone(t) ==
  /\ pc[t] = "init" => state = "UNINITIALIZED"
  /\ pc[t] \in {"mark", "note", "sound"} => enabled /\ top_value = call[t].pitch
  /\ pc[t] = "sound" => playing

\* The PWM or its driver has been in use.
Used == \/ state # "UNINITIALIZED" \/ enabled \/ stopping \/ stopped
        \/ \E t \in Tasks : pc[t] = "event"

Pitch ==
  /\ \A t \in Tasks : pc[t] \in {"note", "sound"} => is_initialized
  /\ ~is_initialized /\ Used => \E t \in Tasks : pc[t] = "mark"
  /\ ~overlap => \A t, u \in Tasks : pc[t] # "idle" /\ pc[u] # "idle" => t = u
  /\ ~overlap => \A t \in Tasks : Alone(t)

\* What is left to play is there to be counted down.
Counted ==
  \A t \in Tasks :
    /\ pc[t] \in {"reset", "init", "mark", "note", "sound"} => notes[t] > 0
    /\ pc[t] = "gap" => call[t].kind = "notes"
    /\ pc[t] # "idle" /\ call[t].kind = "notes" => rounds[t] > 0

IInv == TypeOK /\ Counted /\ Returned /\ Melodies /\ Pitch

-----------------------------------------------------------------------------
\* What a call leaves behind.
LEMMA CallTypes ==
  ASSUME NEW t \in Tasks, NEW kind \in {"melody", "notes"}, NEW to \in {"reset", "stop"},
         Called(t, kind, to), TypeOK
  PROVE  /\ pc[t] = "idle" /\ pc' = [pc EXCEPT ![t] = to]
         /\ pc' \in [Tasks -> {"idle", "reset", "init", "mark", "note", "sound", "give",
                               "stop", "ask", "on", "off", "event", "gap"}]
         /\ call' \in [Tasks -> [kind : {"melody", "notes"}, pitch : Pitches]]
         /\ call'[t].kind = kind /\ \A u \in Tasks \ {t} : call'[u] = call[u]
         /\ mixed' \in BOOLEAN /\ overlap' \in BOOLEAN
         /\ is_initialized' = is_initialized /\ state' = state
         /\ enabled' = enabled /\ top_value' = top_value /\ playing' = playing
         /\ stopping' = stopping /\ stopped' = stopped
<1>1. PICK p \in Pitches : call' = [call EXCEPT ![t] = [kind |-> kind, pitch |-> p]]
  BY DEF Called
<1>2. mixed' \in BOOLEAN /\ overlap' \in BOOLEAN
  BY Zenon DEF Called
<1> QED BY <1>1, <1>2 DEF Called, Go, TypeOK, pwm, signal

\* A step of the driver keeps the types and the counts.
LEMMA StepTypes ==
  ASSUME NEW t \in Tasks, Step(t), TypeOK, Counted
  PROVE  TypeOK' /\ Counted'
<1> USE BuzzerAssumption DEF TypeOK, Counted, Go, Leave, left, history, pwm, signal
<1>1. CASE PlayMelody(t)
  <2>1. /\ Called(t, "melody", "reset") \/ Called(t, "melody", "stop")
        /\ buzzer_semaphore' \in BOOLEAN /\ rounds' = rounds
    BY <1>1 DEF PlayMelody
  <2>2. PICK n \in 1..MAX_NOTES : notes' = [notes EXCEPT ![t] = n]
    BY <1>1 DEF PlayMelody
  <2> HIDE DEF Go, pwm, signal
  <2> QED BY <2>1, <2>2, CallTypes
<1>2. CASE BuzzerTrain(t)
  <2>1. Called(t, "notes", "reset") /\ buzzer_semaphore' \in BOOLEAN
        /\ notes' = [notes EXCEPT ![t] = 1]
    BY <1>2 DEF BuzzerTrain
  <2>2. PICK n \in 1..MAX_ROUNDS : rounds' = [rounds EXCEPT ![t] = n]
    BY <1>2 DEF BuzzerTrain
  <2> HIDE DEF Go, pwm, signal
  <2> QED BY <2>1, <2>2, CallTypes
<1>3. CASE ResetPwm(t)
  BY <1>3 DEF ResetPwm
<1>4. CASE InitPwm(t)
  <2>1. call[t].pitch \in Pitches
    OBVIOUS
  <2>2. top_value' \in Pitches /\ enabled' \in BOOLEAN
        /\ state' \in {"UNINITIALIZED", "INITIALIZED", "POWERED_ON"}
    BY <1>4, <2>1 DEF InitPwm
  <2> QED BY <1>4, <2>2 DEF InitPwm
<1>5. CASE MarkInitialized(t)
  BY <1>5 DEF MarkInitialized
<1>6. CASE StartNote(t)
  BY <1>6 DEF StartNote
<1>7. CASE EndNote(t)
  BY <1>7 DEF EndNote
<1>8. CASE Give(t)
  BY <1>8 DEF Give
<1>9. CASE StopPwm(t)
  BY <1>9 DEF StopPwm
<1>10. CASE AskState(t)
  BY <1>10 DEF AskState
<1>11. CASE AskEvent(t)
  BY <1>11 DEF AskEvent
<1>12. CASE SetInitialized(t)
  BY <1>12 DEF SetInitialized
<1>13. CASE EndRound(t)
  <2>1. CASE rounds[t] > 1
    BY <1>13, <2>1 DEF EndRound
  <2>2. CASE ~(rounds[t] > 1)
    BY <1>13, <2>2 DEF EndRound
  <2> QED BY <2>1, <2>2
<1> QED BY <1>1, <1>2, <1>3, <1>4, <1>5, <1>6, <1>7, <1>8, <1>9, <1>10,
       <1>11, <1>12, <1>13 DEF Step

\* Nobody leaves the semaphore taken or the PWM playing without being
\* the one who will give it, or stop it.
LEMMA StepReturned ==
  ASSUME NEW t \in Tasks, Step(t), TypeOK, Counted, Returned
  PROVE  Returned'
<1> USE DEF TypeOK, Counted, Returned, Givers, Stoppers, Waiters, Stopping
<1>1. CASE PlayMelody(t)
  BY <1>1, CallTypes DEF PlayMelody
<1>2. CASE BuzzerTrain(t)
  BY <1>2, CallTypes DEF BuzzerTrain
<1> USE DEF Go, Leave, pwm, signal
<1>3. CASE ResetPwm(t)
  BY <1>3 DEF ResetPwm
<1>4. CASE InitPwm(t)
  BY <1>4 DEF InitPwm
<1>5. CASE MarkInitialized(t)
  BY <1>5 DEF MarkInitialized
<1>6. CASE StartNote(t)
  BY <1>6 DEF StartNote
<1>7. CASE EndNote(t)
  BY <1>7 DEF EndNote
<1>8. CASE Give(t)
  BY <1>8 DEF Give
<1>9. CASE StopPwm(t)
  BY <1>9 DEF StopPwm
<1>10. CASE AskState(t)
  BY <1>10 DEF AskState
<1>11. CASE AskEvent(t)
  BY <1>11 DEF AskEvent
<1>12. CASE SetInitialized(t)
  BY <1>12 DEF SetInitialized
<1>13. CASE EndRound(t)
  BY <1>13 DEF EndRound
<1> QED BY <1>1, <1>2, <1>3, <1>4, <1>5, <1>6, <1>7, <1>8, <1>9, <1>10,
       <1>11, <1>12, <1>13 DEF Step

\* While only melodies are played they hold the semaphore one at a time.
LEMMA StepMelodies ==
  ASSUME NEW t \in Tasks, Step(t), TypeOK, Counted, Melodies
  PROVE  Melodies'
<1> USE DEF TypeOK, Counted, Melodies, Playing
<1>1. CASE PlayMelody(t)
  <2>1. ~mixed' => Quiet \/ ~mixed
    BY <1>1 DEF PlayMelody, Called
  <2>2. CASE buzzer_semaphore /\ buzzer_semaphore' = FALSE /\ Called(t, "melody", "reset")
    BY <2>1, <2>2, CallTypes DEF Quiet
  <2>3. CASE ~buzzer_semaphore /\ UNCHANGED buzzer_semaphore /\ Called(t, "melody", "stop")
    BY <2>1, <2>3, CallTypes DEF Quiet
  <2> QED BY <1>1, <2>2, <2>3 DEF PlayMelody
<1>2. CASE BuzzerTrain(t)
  BY <1>2 DEF BuzzerTrain, Called
<1> USE DEF Go, Leave, pwm, signal, history
<1>3. CASE ResetPwm(t)
  BY <1>3 DEF ResetPwm
<1>4. CASE InitPwm(t)
  BY <1>4 DEF InitPwm
<1>5. CASE MarkInitialized(t)
  BY <1>5 DEF MarkInitialized
<1>6. CASE StartNote(t)
  BY <1>6 DEF StartNote
<1>7. CASE EndNote(t)
  BY <1>7 DEF EndNote
<1>8. CASE Give(t)
  BY <1>8 DEF Give
<1>9. CASE StopPwm(t)
  BY <1>9 DEF StopPwm
<1>10. CASE AskState(t)
  BY <1>10 DEF AskState
<1>11. CASE AskEvent(t)
  BY <1>11 DEF AskEvent
<1>12. CASE SetInitialized(t)
  BY <1>12 DEF SetInitialized
<1>13. CASE EndRound(t)
  BY <1>13 DEF EndRound
<1> QED BY <1>1, <1>2, <1>3, <1>4, <1>5, <1>6, <1>7, <1>8, <1>9, <1>10,
       <1>11, <1>12, <1>13 DEF Step

\* A task that is alone finds the PWM as it has prepared it.
LEMMA StepPitch ==
  ASSUME NEW t \in Tasks, Step(t), TypeOK, Counted, Pitch
  PROVE  Pitch'
<1> USE DEF TypeOK, Counted, Pitch, Alone, Used
<1>1. ASSUME NEW kind \in {"melody", "notes"}, NEW to \in {"reset", "stop"},
             Called(t, kind, to)
      PROVE  Pitch'
  <2>1. ~overlap' => Quiet
    BY <1>1 DEF Called
  <2> QED BY <1>1, <2>1, CallTypes DEF Quiet
<1>2. CASE PlayMelody(t)
  BY <1>1, <1>2 DEF PlayMelody
<1>3. CASE BuzzerTrain(t)
  BY <1>1, <1>3 DEF BuzzerTrain
<1> USE DEF Go, Leave, pwm, signal, history
<1>4. CASE ResetPwm(t)
  BY <1>4 DEF ResetPwm
<1>5. CASE InitPwm(t)
  BY <1>5 DEF InitPwm
<1>6. CASE MarkInitialized(t)
  BY <1>6 DEF MarkInitialized
<1>7. CASE StartNote(t)
  BY <1>7 DEF StartNote
<1>8. CASE EndNote(t)
  BY <1>8 DEF EndNote
<1>9. CASE Give(t)
  BY <1>9 DEF Give
<1>10. CASE StopPwm(t)
  <2>1. pc[t] = "stop" /\ \A u \in Tasks \ {t} : pc'[u] = pc[u]
    BY <1>10 DEF StopPwm
  <2>2. pc'[t] = "ask"
    BY <1>10 DEF StopPwm
  <2> QED BY <1>10, <2>1, <2>2 DEF StopPwm
<1>11. CASE AskState(t)
  BY <1>11 DEF AskState
<1>12. CASE AskEvent(t)
  BY <1>12 DEF AskEvent
<1>13. CASE SetInitialized(t)
  BY <1>13 DEF SetInitialized
<1>14. CASE EndRound(t)
  BY <1>14 DEF EndRound
<1> QED BY <1>2, <1>3, <1>4, <1>5, <1>6, <1>7, <1>8, <1>9, <1>10, <1>11,
       <1>12, <1>13, <1>14 DEF Step

LEMMA Invariant == Spec => []IInv
<1>1. Init => IInv
  <2> SUFFICES ASSUME Init PROVE IInv
    OBVIOUS
  <2>1. TypeOK
    <3>1. call \in [Tasks -> [kind : {"melody", "notes"}, pitch : Pitches]]
      BY DEF Init
    <3>2. notes \in [Tasks -> 0..MAX_NOTES] /\ rounds \in [Tasks -> 0..MAX_ROUNDS]
      BY BuzzerAssumption DEF Init
    <3> QED BY <3>1, <3>2 DEF Init, TypeOK
  <2>2. Counted /\ Returned /\ Melodies /\ Pitch
    BY DEF Init, Counted, Returned, Melodies, Playing, Pitch, Alone, Used
  <2> QED BY <2>1, <2>2 DEF IInv
<1>2. IInv /\ [Next]_vars => IInv'
  <2> SUFFICES ASSUME IInv, [Next]_vars PROVE IInv'
    OBVIOUS
  <2>1. ASSUME NEW t \in Tasks, Step(t) PROVE IInv'
    BY <2>1, StepTypes, StepReturned, StepMelodies, StepPitch DEF IInv
  <2>3. CASE RaiseStopped
    BY <2>3 DEF RaiseStopped, left, history, IInv, TypeOK, Counted, Returned, Givers,
       Stoppers, Waiters, Stopping, Melodies, Playing, Pitch, Alone, Used
  <2>2. CASE UNCHANGED vars
    BY <2>2 DEF vars, pwm, signal, left, history, IInv, TypeOK, Counted, Returned, Givers, Stoppers,
       Waiters, Stopping, Melodies, Playing, Pitch, Alone, Used
  <2> QED BY <2>1, <2>2, <2>3 DEF Next
<1> QED BY <1>1, <1>2, PTL DEF Spec

-----------------------------------------------------------------------------
\* The types, and that no counter runs below zero.
THEOREM TypeCorrect == Spec => []TypeOK
BY Invariant, PTL DEF IInv

\* When all calls have returned the buzzer is silent, its driver knows it, and its
\* semaphore is free.
THEOREM BuzzerReturns == Spec => []QuietBuzzer
<1>1. IInv => QuietBuzzer
  BY DEF IInv, TypeOK, Returned, Givers, Stoppers, Waiters, Stopping,
     QuietBuzzer, Quiet
<1> QED BY <1>1, Invariant, PTL

\* As long as only melodies are played, one plays at a time.
THEOREM MelodiesWait == Spec => []MelodiesExclusive
<1>1. IInv => MelodiesExclusive
  BY DEF IInv, Melodies, MelodiesExclusive
<1> QED BY <1>1, Invariant, PTL

\* A call nobody overlaps sounds at its own pitch, whatever overlapping ones have left
\* of the driver's state, the STOPPED event included.
THEOREM PitchKept == Spec => []OwnPitch
<1>1. IInv => OwnPitch
  BY DEF IInv, Pitch, Alone, OwnPitch
<1> QED BY <1>1, Invariant, PTL
=============================================================================
