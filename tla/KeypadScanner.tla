---------------------------- MODULE KeypadScanner ----------------------------
(***************************************************************************)
(* The keypad task (cloud-wise-sdk/logic/keypad.c): it scans the matrix,   *)
(* turns touches into press, long and release messages, and sends them     *)
(* through a queue of one.  Its reader is the typing part of the monitor   *)
(* task (monitor.c, keypad_state_machine), which KeypadMonitor has whole   *)
(* and which is reduced here to what it does with a message.               *)
(*                                                                         *)
(* A definition introduced by "Mutant:" is not part of the specification:  *)
(* it is its neighbour with a plausible mistake, and the property named    *)
(* there must fail when it takes the neighbour's place.                    *)
(***************************************************************************)
EXTENDS Integers, Sequences

CONSTANTS
  Keys,          \* keys of the matrix in use
  LONG_PRESS,    \* KEYPAD_LONG_PRESS_THRESHOLD, in units of the scan time
  ScanTimes,     \* units that may pass from one scan to the next
  Residue,       \* messages a failed receive may leave in msg_key
  MAX_TOUCHES    \* bound: touches in a behaviour

Star == 6
None == -1
Message(k, long, release) == [key |-> k, is_long_key |-> long, key_release |-> release]
Messages == [key : Keys, is_long_key : BOOLEAN, key_release : BOOLEAN]

ASSUME ScannerAssumption ==
  /\ Keys \subseteq 1..6 /\ 6 \in Keys
  /\ LONG_PRESS \in Nat \ {0}
  /\ ScanTimes \subseteq Nat \ {0}
  /\ Residue \subseteq Messages
  /\ MAX_TOUCHES \in Nat

VARIABLES
  scanning,              \* FALSE while keypad_sendkey waits for room
  last_key,              \* 0: none
  key_press_time,        \* as time since the press, capped; None: 0 in the source
  long_key_found,
  message,               \* being sent
  keypad_message_queue,
  msg_key, received,     \* the monitor task's message slot and "ret"
  reading,               \* TRUE between its receive and its switch (key_state)
  key_state,
  held, seen, open,      \* history: the finger's time and key, is it a long touch?
  touches,               \* history: every touch it made
  stray,                 \* history: no message filled msg_key as it is
  delivered, digits,     \* history: completed touches received, digits of messages queued
  lost                   \* history: releases that found no room in the queue

keypad == <<scanning, last_key, key_press_time, long_key_found, message>>
monitor == <<msg_key, stray, received, reading, key_state>>
finger == <<held, seen, open, touches>>
vars == <<keypad, keypad_message_queue, monitor, finger, delivered, digits, lost>>

-----------------------------------------------------------------------------
(* The keypad task.                                                        *)

\* The matrix is read in this order, and the first pressed key wins.
ScanOrder == <<6, 5, 1, 2, 3, 4>>
Scanned(S) == ScanOrder[CHOOSE i \in 1..6 :
                /\ ScanOrder[i] \in S /\ \A j \in 1..(i - 1) : ScanOrder[j] \notin S]

Later(age, d) == IF age + d < LONG_PRESS THEN age + d ELSE LONG_PRESS

Send(m) == message' = m /\ scanning' = FALSE
SendNothing == UNCHANGED <<message, scanning>>

\* The first scan that sees a key reports it; the time starts to count.
Press(k) ==
  /\ key_press_time = None /\ key_press_time' = 0
  /\ Send(Message(k, FALSE, FALSE))
  /\ UNCHANGED long_key_found

\* Mutant: a long touch is reported by every further scan (TouchCountsOnce).
HoldRepeats(k, d) ==
  /\ key_press_time # None /\ key_press_time' = Later(key_press_time, d)
  /\ IF key_press_time' >= LONG_PRESS THEN Send(Message(k, TRUE, TRUE)) ELSE SendNothing
  /\ UNCHANGED long_key_found

\* Held: reported as long once, when the threshold is reached.  The key is the one
\* seen now, the time that of the first key.
Hold(k, d) ==
  /\ key_press_time # None /\ key_press_time' = Later(key_press_time, d)
  /\ IF key_press_time' >= LONG_PRESS /\ ~long_key_found
       THEN Send(Message(k, TRUE, TRUE)) /\ long_key_found' = TRUE
       ELSE SendNothing /\ UNCHANGED long_key_found

\* Mutant: the last key is remembered (TypeOK).
ReleaseKeepsKey(d) ==
  /\ IF last_key # 0 /\ ~long_key_found
       THEN Send(Message(last_key, Later(key_press_time, d) >= LONG_PRESS, TRUE))
       ELSE SendNothing
  /\ key_press_time' = None /\ long_key_found' = FALSE /\ UNCHANGED last_key

\* Mutant: the flag of a long touch is not reset (LostOnlyWhenFull).
ReleaseKeepsFlag(d) ==
  /\ IF last_key # 0 /\ ~long_key_found
       THEN Send(Message(last_key, Later(key_press_time, d) >= LONG_PRESS, TRUE))
       ELSE SendNothing
  /\ key_press_time' = None /\ last_key' = 0 /\ UNCHANGED long_key_found

\* No key any more: reported unless the touch was reported as long.
Release(d) ==
  /\ IF last_key # 0 /\ ~long_key_found
       THEN Send(Message(last_key, Later(key_press_time, d) >= LONG_PRESS, TRUE))
       ELSE SendNothing
  /\ key_press_time' = None /\ last_key' = 0 /\ long_key_found' = FALSE

\* What the finger did, from the pressed keys alone.
Touch(k, long) == [key |-> k, long |-> long]
Touches == [key : Keys, long : BOOLEAN]
FingerDown(k, d) ==
  /\ held' = IF held = None THEN 0 ELSE Later(held, d)
  /\ seen' = k
  /\ IF held' >= LONG_PRESS /\ ~open
       THEN open' = TRUE /\ touches' = Append(touches, Touch(k, TRUE))
       ELSE UNCHANGED <<open, touches>>
FingerUp(d) ==
  /\ held' = None /\ open' = FALSE /\ UNCHANGED seen
  /\ touches' = IF held # None /\ ~open
                  THEN Append(touches, Touch(seen, Later(held, d) >= LONG_PRESS))
                  ELSE touches

\* One scan, d after the last one, with the keys S pressed.
Scan(d, S) ==
  /\ scanning
  /\ S = {} \/ held # None \/ Len(touches) < MAX_TOUCHES
  /\ \/ /\ S = {} /\ Release(d) /\ FingerUp(d)
     \/ /\ S # {} /\ last_key' = Scanned(S)
        /\ Press(Scanned(S)) \/ Hold(Scanned(S), d)
        /\ FingerDown(Scanned(S), d)
  /\ UNCHANGED <<keypad_message_queue, monitor, delivered, digits, lost>>

\* xQueueSend waits for one tick; the message is lost if there is no room by then.
SendKey ==
  /\ ~scanning /\ scanning' = TRUE
  /\ \/ /\ keypad_message_queue = <<>>
        /\ keypad_message_queue' = <<message>>
        /\ UNCHANGED lost
     \/ /\ keypad_message_queue # <<>>
        /\ UNCHANGED keypad_message_queue
        /\ lost' = IF message.key_release THEN lost + 1 ELSE lost
  /\ UNCHANGED <<last_key, key_press_time, long_key_found, message, monitor, finger,
                 delivered, digits>>

-----------------------------------------------------------------------------
(* The monitor task.                                                       *)

\* keypad_receive_key fills msg_key from the queue.  Without a message msg_key, which no
\* pass of the loop initialises, is the last one still, or whatever its place in the
\* stack was used for since.
Receive ==
  /\ ~reading /\ reading' = TRUE
  /\ received' = (keypad_message_queue # <<>>)
  /\ keypad_message_queue' = <<>>
  /\ \/ received' /\ msg_key' = Head(keypad_message_queue) /\ stray' = FALSE
     \/ ~received' /\ UNCHANGED <<msg_key, stray>>
     \/ ~received' /\ msg_key' \in Residue /\ stray' = TRUE
  /\ delivered' = IF received' /\ msg_key'.key_release
                    THEN Append(delivered, Touch(msg_key'.key, msg_key'.is_long_key))
                    ELSE delivered
  /\ UNCHANGED <<keypad, key_state, finger, digits, lost>>

Idle ==
  /\ reading /\ reading' = FALSE /\ key_state = "IDLE"
  /\ key_state' = IF received /\ ~msg_key.is_long_key /\ msg_key.key = Star
                    THEN "ASTRIX_RECEIVED" ELSE "IDLE"
  /\ UNCHANGED <<keypad, keypad_message_queue, msg_key, stray, received, finger,
                 delivered, digits, lost>>

KeyTyped == msg_key.key_release /\ ~msg_key.is_long_key

\* Mutant: the message is read again on every pass (DigitsWereTouched).
TypeKeyAgain ==
  /\ reading /\ reading' = FALSE /\ key_state = "ASTRIX_RECEIVED"
  /\ digits' = IF KeyTyped /\ ~stray /\ msg_key.key # Star /\ Len(digits) <= MAX_TOUCHES
                 THEN Append(digits, msg_key.key) ELSE digits
  /\ UNCHANGED <<keypad, keypad_message_queue, key_state, received, msg_key, stray, finger,
                 delivered, lost>>

\* A digit is queued, whether there was a message or not; reading a release clears it,
\* so that it is not read again.  The history has the digits that came with a message.
TypeKey ==
  /\ reading /\ reading' = FALSE /\ key_state = "ASTRIX_RECEIVED"
  /\ digits' = IF KeyTyped /\ ~stray /\ msg_key.key # Star
                 THEN Append(digits, msg_key.key) ELSE digits
  /\ msg_key' = [msg_key EXCEPT !.key_release = FALSE]
  /\ UNCHANGED <<keypad, keypad_message_queue, key_state, received, stray, finger,
                 delivered, lost>>

\* A menu or the lock: the message stays in the slot.
OtherState ==
  /\ reading /\ reading' = FALSE /\ key_state = "OTHER"
  /\ UNCHANGED <<keypad, keypad_message_queue, msg_key, stray, received, key_state,
                 finger, delivered, digits, lost>>

\* A password is complete, a command or a time-out: the monitor task leaves the typing,
\* and comes back to it by the idle state.
LeaveTyping ==
  /\ ~reading
  /\ \/ key_state = "ASTRIX_RECEIVED" /\ key_state' \in {"IDLE", "OTHER"}
     \/ key_state = "IDLE" /\ key_state' = "OTHER"
     \/ key_state = "OTHER" /\ key_state' = "IDLE"
  /\ UNCHANGED <<keypad, keypad_message_queue, msg_key, stray, received, reading, finger,
                 delivered, digits, lost>>

-----------------------------------------------------------------------------
Next ==
  \/ \E d \in ScanTimes, S \in SUBSET Keys : Scan(d, S)
  \/ SendKey
  \/ Receive \/ Idle \/ TypeKey \/ OtherState \/ LeaveTyping

\* long_key_found is a local that keypad_thread does not initialise, msg_key one of
\* keypad_state_machine.
Init ==
  /\ scanning = TRUE /\ last_key = 0 /\ key_press_time = None
  /\ long_key_found \in BOOLEAN
  /\ message = Message(Star, FALSE, FALSE)
  /\ keypad_message_queue = <<>>
  /\ msg_key \in {Message(Star, FALSE, FALSE)} \cup Residue /\ stray = TRUE
  /\ received = FALSE /\ reading = FALSE
  /\ key_state = "IDLE"
  /\ held = None /\ seen = Star /\ open = FALSE /\ touches = <<>>
  /\ delivered = <<>> /\ digits = <<>> /\ lost = 0

Spec == Init /\ [][Next]_vars

-----------------------------------------------------------------------------
TypeOK ==
  /\ scanning \in BOOLEAN /\ last_key \in {0} \cup Keys
  /\ key_press_time \in {None} \cup 0..LONG_PRESS /\ long_key_found \in BOOLEAN
  /\ (key_press_time = None) = (last_key = 0)
  /\ message \in Messages /\ msg_key \in Messages
  /\ keypad_message_queue \in {<<>>} \cup {<<m>> : m \in Messages}
  /\ stray \in BOOLEAN /\ received \in BOOLEAN /\ reading \in BOOLEAN
  /\ key_state \in {"IDLE", "ASTRIX_RECEIVED", "OTHER"}
  /\ held \in {None} \cup 0..LONG_PRESS /\ seen \in Keys /\ open \in BOOLEAN
  /\ touches \in Seq(Touches) /\ Len(touches) <= MAX_TOUCHES
  /\ delivered \in Seq(Touches) /\ digits \in Seq(Keys) /\ lost \in Nat

\* s is t with some elements left out.
IsSubsequence(s, t) ==
  \E at \in [1..Len(s) -> 1..Len(t)] :
    /\ \A i \in 1..Len(s) : s[i] = t[at[i]]
    /\ \A i, j \in 1..Len(s) : i < j => at[i] < at[j]

(* Messages may be lost when the monitor task is slow, but what it receives is what *)
(* the finger did, in order: no touch is completed twice, as a long and a short one *)
(* or by two scans, and none is made up from the state an earlier touch left.       *)
TouchCountsOnce == IsSubsequence(delivered, touches)

\* Completed touches on their way from the scanner to the monitor task.
Releases(q) == IF q # <<>> /\ Head(q).key_release THEN 1 ELSE 0
Underway == Releases(IF scanning THEN <<>> ELSE <<message>>) + Releases(keypad_message_queue)

(* The queue of one is the only place where touches get lost: every other one is    *)
(* received or on its way, whatever keys roll over and however long they are held,  *)
(* but for one, the first, which long_key_found can mask since keypad_thread does   *)
(* not initialise it.                                                               *)
LostOnlyWhenFull == Len(touches) - (Len(delivered) + Underway + lost) \in {0, 1}

(* Every digit of a password attempt that came with a message is a short touch of   *)
(* its own, in order, though the monitor task looks at the same message slot on     *)
(* every pass, with or without a new message, and the slot survives menus and       *)
(* locks.  The other digits, which a slot that nothing initialised may hold         *)
(* (Residue), do not make one touch count twice or hide one either.                 *)
Entered == [i \in 1..Len(digits) |-> Touch(digits[i], FALSE)]
DigitsWereTouched == IsSubsequence(Entered, touches)
=============================================================================
