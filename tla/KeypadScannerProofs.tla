------------------------- MODULE KeypadScannerProofs -------------------------
(***************************************************************************)
(* Proofs about KeypadScanner, for any keys, thresholds and scan times.    *)
(*                                                                         *)
(* The argument: a release on its way to the monitor task, in the scanner  *)
(* or in the queue, is put behind what has been delivered (InFlight), and  *)
(* a short release that a message left in the slot behind the digits       *)
(* (Typed).  Every step then appends to a sequence what it appends to the  *)
(* one it is part of, or drops its last element, and both keep             *)
(* IsSubsequence.                                                          *)
(***************************************************************************)
EXTENDS KeypadScanner, SequenceTheorems, TLAPS

\* A release in the queue, and in the hands of the scanner.
InQueue ==
  IF keypad_message_queue # <<>> /\ Head(keypad_message_queue).key_release
    THEN Append(delivered, Touch(Head(keypad_message_queue).key,
                                 Head(keypad_message_queue).is_long_key))
    ELSE delivered
InFlight ==
  IF ~scanning /\ message.key_release
    THEN Append(InQueue, Touch(message.key, message.is_long_key))
    ELSE InQueue

\* A release that a message left in the slot and that could still be read as a digit.
Readable == KeyTyped /\ ~stray
Typed ==
  IF Readable THEN Append(Entered, Touch(msg_key.key, FALSE)) ELSE Entered

\* The scanner's locals follow the finger; only the flag of the first touch
\* may be set too early.
Follows ==
  /\ key_press_time = held
  /\ last_key = IF held = None THEN 0 ELSE seen
  /\ open => held # None /\ long_key_found
  /\ held # None /\ ~open => Len(touches) < MAX_TOUCHES

IInv ==
  /\ TypeOK /\ Follows
  /\ IsSubsequence(InFlight, touches)
  /\ IsSubsequence(Typed, delivered)

-----------------------------------------------------------------------------
(* Sequences and their subsequences.                                       *)

\* The same element behind both.
LEMMA AppendBoth ==
  ASSUME NEW T, NEW s \in Seq(T), NEW t \in Seq(T), NEW x \in T, IsSubsequence(s, t)
  PROVE  IsSubsequence(Append(s, x), Append(t, x))
<1>1. PICK at \in [1..Len(s) -> 1..Len(t)] :
        /\ \A i \in 1..Len(s) : s[i] = t[at[i]]
        /\ \A i, j \in 1..Len(s) : i < j => at[i] < at[j]
  BY DEF IsSubsequence
<1> DEFINE n == Len(s)
           to == [i \in 1..(n + 1) |-> IF i <= n THEN at[i] ELSE Len(t) + 1]
<1>2. /\ Len(Append(s, x)) = n + 1 /\ Len(Append(t, x)) = Len(t) + 1
      /\ n \in Nat /\ Len(t) \in Nat
  OBVIOUS
<1>3. \A i \in 1..n : at[i] \in 1..Len(t)
  OBVIOUS
<1>4. to \in [1..(n + 1) -> 1..(Len(t) + 1)]
  BY <1>2, <1>3
<1>5. ASSUME NEW i \in 1..(n + 1) PROVE Append(s, x)[i] = Append(t, x)[to[i]]
  <2>1. CASE i <= n
    <3>1. i \in 1..n /\ to[i] = at[i] /\ at[i] \in 1..Len(t)
      BY <1>2, <1>3, <2>1
    <3> HIDE DEF to
    <3>2. Append(s, x)[i] = s[i] /\ Append(t, x)[at[i]] = t[at[i]]
      BY <3>1
    <3> QED BY <1>1, <3>1, <3>2
  <2>2. CASE ~(i <= n)
    <3>1. i = n + 1 /\ to[i] = Len(t) + 1
      BY <1>2, <2>2
    <3> HIDE DEF to
    <3> QED BY <1>2, <3>1
  <2> QED BY <2>1, <2>2
<1>6. ASSUME NEW i \in 1..(n + 1), NEW j \in 1..(n + 1), i < j PROVE to[i] < to[j]
  <2>1. i \in 1..n /\ to[i] = at[i] /\ at[i] \in 1..Len(t)
    BY <1>2, <1>3, <1>6
  <2>2. CASE j <= n
    BY <1>1, <1>2, <1>6, <2>1, <2>2
  <2>3. CASE ~(j <= n)
    BY <1>2, <2>1, <2>3
  <2> QED BY <2>2, <2>3
<1> HIDE DEF to
<1> QED BY <1>2, <1>4, <1>5, <1>6 DEF IsSubsequence

\* An element more to be a subsequence of.
LEMMA AppendRight ==
  ASSUME NEW T, NEW s \in Seq(T), NEW t \in Seq(T), NEW x \in T, IsSubsequence(s, t)
  PROVE  IsSubsequence(s, Append(t, x))
<1>1. PICK at \in [1..Len(s) -> 1..Len(t)] :
        /\ \A i \in 1..Len(s) : s[i] = t[at[i]]
        /\ \A i, j \in 1..Len(s) : i < j => at[i] < at[j]
  BY DEF IsSubsequence
<1>2. Len(Append(t, x)) = Len(t) + 1 /\ Len(t) \in Nat
  OBVIOUS
<1>3. \A i \in 1..Len(s) : at[i] \in 1..Len(t)
  OBVIOUS
<1>4. at \in [1..Len(s) -> 1..(Len(t) + 1)]
  BY <1>2, <1>3
<1>5. \A i \in 1..Len(s) : s[i] = Append(t, x)[at[i]]
  BY <1>1, <1>3
<1> QED BY <1>1, <1>2, <1>4, <1>5 DEF IsSubsequence

\* An element less.
LEMMA DropLast ==
  ASSUME NEW T, NEW s \in Seq(T), NEW t \in Seq(T), NEW x \in T,
         IsSubsequence(Append(s, x), t)
  PROVE  IsSubsequence(s, t)
<1> DEFINE n == Len(s)
<1>1. PICK at \in [1..Len(Append(s, x)) -> 1..Len(t)] :
        /\ \A i \in 1..Len(Append(s, x)) : Append(s, x)[i] = t[at[i]]
        /\ \A i, j \in 1..Len(Append(s, x)) : i < j => at[i] < at[j]
  BY DEF IsSubsequence
<1>2. Len(Append(s, x)) = n + 1 /\ n \in Nat
  OBVIOUS
<1> DEFINE to == [i \in 1..n |-> at[i]]
<1>3. \A i \in 1..n : i \in 1..(n + 1) /\ Append(s, x)[i] = s[i]
  BY <1>2
<1>4. \A i \in 1..n : to[i] = at[i]
  OBVIOUS
<1>5. to \in [1..n -> 1..Len(t)]
  BY <1>1, <1>2, <1>3
<1> HIDE DEF to
<1>6. \A i \in 1..n : s[i] = t[to[i]]
  BY <1>1, <1>2, <1>3, <1>4
<1>7. \A i, j \in 1..n : i < j => to[i] < to[j]
  BY <1>1, <1>2, <1>3, <1>4
<1> QED BY <1>5, <1>6, <1>7 DEF IsSubsequence

LEMMA Transitive ==
  ASSUME NEW T, NEW r \in Seq(T), NEW s \in Seq(T), NEW t \in Seq(T),
         IsSubsequence(r, s), IsSubsequence(s, t)
  PROVE  IsSubsequence(r, t)
<1>1. PICK a \in [1..Len(r) -> 1..Len(s)] :
        /\ \A i \in 1..Len(r) : r[i] = s[a[i]]
        /\ \A i, j \in 1..Len(r) : i < j => a[i] < a[j]
  BY DEF IsSubsequence
<1>2. PICK b \in [1..Len(s) -> 1..Len(t)] :
        /\ \A i \in 1..Len(s) : s[i] = t[b[i]]
        /\ \A i, j \in 1..Len(s) : i < j => b[i] < b[j]
  BY DEF IsSubsequence
<1> DEFINE c == [i \in 1..Len(r) |-> b[a[i]]]
<1>3. \A i \in 1..Len(r) : a[i] \in 1..Len(s) /\ c[i] = b[a[i]] /\ c[i] \in 1..Len(t)
  OBVIOUS
<1>4. c \in [1..Len(r) -> 1..Len(t)]
  BY <1>3
<1> HIDE DEF c
<1>5. \A i \in 1..Len(r) : r[i] = t[c[i]]
  BY <1>1, <1>2, <1>3
<1>6. \A i, j \in 1..Len(r) : i < j => c[i] < c[j]
  BY <1>1, <1>2, <1>3
<1> QED BY <1>4, <1>5, <1>6 DEF IsSubsequence

LEMMA EmptyIsSubsequence ==
  ASSUME NEW t
  PROVE  IsSubsequence(<<>>, t)
<1> DEFINE at == [i \in 1..0 |-> 1]
<1>1. 1..Len(<<>>) = {} /\ 1..0 = {}
  OBVIOUS
<1>2. at \in [1..Len(<<>>) -> 1..Len(t)]
  BY <1>1
<1> QED BY <1>1, <1>2 DEF IsSubsequence

-----------------------------------------------------------------------------
(* The steps.                                                              *)

\* The scan finds a key that is pressed.
LEMMA ScannedKey ==
  ASSUME NEW S \in SUBSET Keys, S # {}
  PROVE  Scanned(S) \in S
<1> DEFINE First(i) == /\ ScanOrder[i] \in S
                       /\ \A j \in 1..(i - 1) : ScanOrder[j] \notin S
<1>1. S \subseteq {1, 2, 3, 4, 5, 6}
  BY ScannerAssumption
<1>2. /\ ScanOrder[1] = 6 /\ ScanOrder[2] = 5 /\ ScanOrder[3] = 1
      /\ ScanOrder[4] = 2 /\ ScanOrder[5] = 3 /\ ScanOrder[6] = 4
  BY DEF ScanOrder
<1>3. \E i \in 1..6 : First(i)
  <2>1. CASE 6 \in S
    BY <1>2, <2>1
  <2>2. CASE 6 \notin S /\ 5 \in S
    <3>1. First(2)
      BY <1>2, <2>2
    <3> QED BY <3>1
  <2>3. CASE S \cap {5, 6} = {} /\ 1 \in S
    <3>1. First(3)
      BY <1>2, <2>3
    <3> QED BY <3>1
  <2>4. CASE S \cap {1, 5, 6} = {} /\ 2 \in S
    <3>1. First(4)
      BY <1>2, <2>4
    <3> QED BY <3>1
  <2>5. CASE S \cap {1, 2, 5, 6} = {} /\ 3 \in S
    <3>1. First(5)
      BY <1>2, <2>5
    <3> QED BY <3>1
  <2>6. CASE S \cap {1, 2, 3, 5, 6} = {} /\ 4 \in S
    <3>1. First(6)
      BY <1>2, <2>6
    <3> QED BY <3>1
  <2> QED BY <1>1, <2>1, <2>2, <2>3, <2>4, <2>5, <2>6
<1>4. First(CHOOSE i \in 1..6 : First(i))
  BY <1>3
<1> QED BY <1>4 DEF Scanned

\* What a scan makes of the time of a touch.
LEMMA LaterType ==
  ASSUME NEW age \in 0..LONG_PRESS, NEW d \in ScanTimes
  PROVE  Later(age, d) \in 0..LONG_PRESS
BY ScannerAssumption DEF Later

\* The finger of a scan that sees the key k: its time counts, and a touch
\* becomes a long one at the threshold.
LEMMA Down ==
  ASSUME TypeOK, Follows, NEW d \in ScanTimes, NEW k \in Keys, FingerDown(k, d),
         held # None \/ Len(touches) < MAX_TOUCHES
  PROVE  /\ held' \in 0..LONG_PRESS /\ seen' = k /\ open' \in BOOLEAN
         /\ touches' \in Seq(Touches) /\ Len(touches') <= MAX_TOUCHES
         /\ ~open' => Len(touches') < MAX_TOUCHES
         /\ held = None => held' = 0 /\ ~open' /\ touches' = touches
         /\ held # None => held' = Later(held, d)
         /\ held # None /\ held' >= LONG_PRESS /\ ~open =>
              open' /\ touches' = Append(touches, Touch(k, TRUE))
         /\ held # None /\ ~(held' >= LONG_PRESS /\ ~open) => open' = open /\ touches' = touches
<1>1. /\ held \in {None} \cup 0..LONG_PRESS /\ open \in BOOLEAN
      /\ touches \in Seq(Touches) /\ Len(touches) <= MAX_TOUCHES
      /\ Touch(k, TRUE) \in Touches /\ Len(touches) \in Nat
      /\ LONG_PRESS \in Nat /\ LONG_PRESS > 0 /\ None \notin 0..LONG_PRESS
      /\ MAX_TOUCHES \in Nat
  BY ScannerAssumption DEF TypeOK, Touch, Touches, None
<1>2. held' \in 0..LONG_PRESS /\ seen' = k
  BY <1>1, LaterType DEF FingerDown
<1>3. CASE held = None
  <2>1. held' = 0 /\ ~(held' >= LONG_PRESS) /\ ~open
    BY <1>1, <1>3 DEF FingerDown, Follows
  <2>2. open' = open /\ touches' = touches
    BY <2>1 DEF FingerDown
  <2> QED BY <1>1, <1>2, <1>3, <2>1, <2>2
<1>4. CASE held # None
  <2>1. held' = Later(held, d)
    BY <1>4 DEF FingerDown
  <2>2. CASE held' >= LONG_PRESS /\ ~open
    <3>1. open' = TRUE /\ touches' = Append(touches, Touch(k, TRUE))
      BY <2>2 DEF FingerDown
    <3>2. Len(touches) < MAX_TOUCHES
      BY <1>4, <2>2 DEF Follows
    <3>3. touches' \in Seq(Touches) /\ Len(touches') <= MAX_TOUCHES
      <4>1. /\ Append(touches, Touch(k, TRUE)) \in Seq(Touches)
            /\ Len(Append(touches, Touch(k, TRUE))) = Len(touches) + 1
        BY <1>1, AppendProperties
      <4>2. Len(touches) + 1 <= MAX_TOUCHES
        BY <1>1, <3>2
      <4> QED BY <3>1, <4>1, <4>2, Zenon
    <3> QED BY <1>1, <1>2, <1>4, <2>1, <2>2, <3>1, <3>3, Zenon
  <2>3. CASE ~(held' >= LONG_PRESS /\ ~open)
    <3>1. open' = open /\ touches' = touches
      BY <2>3 DEF FingerDown
    <3>2. ~open => Len(touches) < MAX_TOUCHES
      BY <1>4 DEF Follows
    <3> QED BY <1>1, <1>2, <1>4, <2>1, <2>3, <3>1, <3>2, Zenon
  <2> QED BY <2>2, <2>3
<1> QED BY <1>3, <1>4

\* The finger of a scan that sees no key: a touch that was not long ends.
LEMMA Up ==
  ASSUME TypeOK, Follows, NEW d \in ScanTimes, FingerUp(d)
  PROVE  /\ held' = None /\ seen' = seen /\ open' = FALSE
         /\ touches' \in Seq(Touches) /\ Len(touches') <= MAX_TOUCHES
         /\ held # None /\ ~open =>
              touches' = Append(touches, Touch(seen, Later(held, d) >= LONG_PRESS))
         /\ ~(held # None /\ ~open) => touches' = touches
<1>1. /\ touches \in Seq(Touches) /\ Len(touches) <= MAX_TOUCHES
      /\ Len(touches) \in Nat /\ MAX_TOUCHES \in Nat
  BY ScannerAssumption DEF TypeOK
<1>2. CASE held # None /\ ~open
  <2> DEFINE x == Touch(seen, Later(held, d) >= LONG_PRESS)
  <2>1. touches' = Append(touches, x)
    BY <1>2 DEF FingerUp
  <2>2. x \in Touches
    BY DEF Touch, Touches, TypeOK
  <2> HIDE DEF x
  <2>3. Append(touches, x) \in Seq(Touches) /\ Len(Append(touches, x)) = Len(touches) + 1
    BY <1>1, <2>2, AppendProperties
  <2>4. Len(touches) + 1 <= MAX_TOUCHES
    BY <1>1, <1>2 DEF Follows
  <2> QED BY <1>2, <2>1, <2>3, <2>4, Zenon DEF FingerUp, x
<1>3. CASE ~(held # None /\ ~open)
  BY <1>1, <1>3, Zenon DEF FingerUp
<1> QED BY <1>2, <1>3

\* What a scan sends and what the finger did: a release only for a touch that
\* has just been completed, and with its key and length.
Reported ==
  \/ /\ ~scanning' /\ message'.key_release
     /\ touches' = Append(touches, Touch(message'.key, message'.is_long_key))
  \/ /\ ~(~scanning' /\ message'.key_release)
     /\ touches' = touches \/ \E x \in Touches : touches' = Append(touches, x)

ScannerTypes ==
  /\ scanning \in BOOLEAN /\ last_key \in {0} \cup Keys
  /\ key_press_time \in {None} \cup 0..LONG_PRESS /\ long_key_found \in BOOLEAN
  /\ (key_press_time = None) = (last_key = 0)
  /\ message \in Messages
  /\ held \in {None} \cup 0..LONG_PRESS /\ seen \in Keys /\ open \in BOOLEAN
  /\ touches \in Seq(Touches) /\ Len(touches) <= MAX_TOUCHES

LEMMA ScanStep ==
  ASSUME TypeOK, Follows, NEW d \in ScanTimes, NEW S \in SUBSET Keys, Scan(d, S)
  PROVE  ScannerTypes' /\ Follows' /\ Reported
<1>1. /\ scanning = TRUE /\ long_key_found \in BOOLEAN /\ message \in Messages
      /\ held \in {None} \cup 0..LONG_PRESS /\ open \in BOOLEAN /\ seen \in Keys
      /\ LONG_PRESS \in Nat /\ LONG_PRESS > 0 /\ None \notin 0..LONG_PRESS
      /\ Keys \subseteq 1..6
  BY ScannerAssumption DEF TypeOK, Scan, None
<1>2. CASE S = {}
  <2>1. Release(d) /\ FingerUp(d)
    BY <1>2 DEF Scan
  <2>2. /\ held' = None /\ seen' = seen /\ open' = FALSE
        /\ touches' \in Seq(Touches) /\ Len(touches') <= MAX_TOUCHES
        /\ held # None /\ ~open =>
             touches' = Append(touches, Touch(seen, Later(held, d) >= LONG_PRESS))
        /\ ~(held # None /\ ~open) => touches' = touches
    BY <2>1, Up
  <2>3. key_press_time' = None /\ last_key' = 0 /\ long_key_found' = FALSE
    BY <2>1 DEF Release
  <2>4. Follows'
    BY <2>2, <2>3 DEF Follows
  <2>5. CASE last_key # 0 /\ ~long_key_found
    <3> DEFINE long == Later(key_press_time, d) >= LONG_PRESS
    <3>1. message' = Message(last_key, long, TRUE) /\ scanning' = FALSE
      BY <2>1, <2>5 DEF Release, Send
    <3>2. held # None /\ ~open /\ last_key = seen /\ key_press_time = held
      BY <2>5 DEF Follows
    <3>3. long \in BOOLEAN
      OBVIOUS
    <3>4. touches' = Append(touches, Touch(seen, long))
      BY <2>2, <3>2
    <3> HIDE DEF long
    <3>5. /\ message' \in Messages /\ message'.key_release = TRUE
          /\ message'.key = seen /\ message'.is_long_key = long
      BY <1>1, <3>1, <3>2, <3>3 DEF Message, Messages
    <3>6. Reported
      BY <3>1, <3>4, <3>5 DEF Reported
    <3> QED BY <1>1, <2>2, <2>3, <2>4, <3>1, <3>5, <3>6 DEF ScannerTypes
  <2>6. CASE ~(last_key # 0 /\ ~long_key_found)
    <3>1. message' = message /\ scanning' = scanning
      BY <2>1, <2>6 DEF Release, SendNothing
    <3>2. Touch(seen, Later(held, d) >= LONG_PRESS) \in Touches
      BY <1>1 DEF Touch, Touches
    <3>3. touches' = touches \/ \E x \in Touches : touches' = Append(touches, x)
      BY <2>2, <3>2, Zenon
    <3>4. Reported
      BY <1>1, <3>1, <3>3 DEF Reported
    <3> QED BY <1>1, <2>2, <2>3, <2>4, <3>1, <3>4 DEF ScannerTypes
  <2> QED BY <2>5, <2>6
<1>3. CASE S # {}
  <2> DEFINE k == Scanned(S)
  <2>1. k \in Keys
    BY <1>3, ScannedKey
  <2>2. /\ last_key' = k /\ FingerDown(k, d) /\ (Press(k) \/ Hold(k, d))
        /\ held # None \/ Len(touches) < MAX_TOUCHES
    BY <1>3 DEF Scan
  <2> HIDE DEF k
  <2>3. /\ held' \in 0..LONG_PRESS /\ seen' = k /\ open' \in BOOLEAN
        /\ touches' \in Seq(Touches) /\ Len(touches') <= MAX_TOUCHES
        /\ ~open' => Len(touches') < MAX_TOUCHES
        /\ held = None => held' = 0 /\ ~open' /\ touches' = touches
        /\ held # None => held' = Later(held, d)
        /\ held # None /\ held' >= LONG_PRESS /\ ~open =>
             open' /\ touches' = Append(touches, Touch(k, TRUE))
        /\ held # None /\ ~(held' >= LONG_PRESS /\ ~open) => open' = open /\ touches' = touches
    BY <2>1, <2>2, Down
  <2>4. CASE Press(k)
    <3>1. /\ held = None /\ key_press_time' = 0 /\ long_key_found' = long_key_found
          /\ message' = Message(k, FALSE, FALSE) /\ scanning' = FALSE
      BY <2>4 DEF Press, Follows, Send
    <3>2. message' \in Messages /\ message'.key_release = FALSE
      BY <2>1, <3>1 DEF Message, Messages
    <3>3. Follows'
      BY <1>1, <2>2, <2>3, <3>1, Zenon DEF Follows
    <3>4. Reported
      BY <2>3, <3>1, <3>2 DEF Reported
    <3>5. /\ key_press_time' \in 0..LONG_PRESS /\ key_press_time' # None
          /\ last_key' \in Keys /\ last_key' # 0
          /\ scanning' \in BOOLEAN /\ long_key_found' \in BOOLEAN
      <4>1. key_press_time' \in 0..LONG_PRESS /\ key_press_time' # None
        BY <1>1, <3>1
      <4>2. last_key' \in Keys /\ last_key' # 0
        BY <1>1, <2>1, <2>2
      <4> QED BY <1>1, <3>1, <4>1, <4>2, Zenon
    <3>6. ScannerTypes'
      BY <2>1, <2>3, <3>2, <3>5, Zenon DEF ScannerTypes
    <3> QED BY <3>3, <3>4, <3>6
  <2>5. CASE Hold(k, d)
    <3>1. held # None /\ key_press_time' = held'
      BY <2>3, <2>5 DEF Hold, Follows
    <3>2. CASE held' >= LONG_PRESS /\ ~long_key_found
      <4>1. message' = Message(k, TRUE, TRUE) /\ scanning' = FALSE /\ long_key_found' = TRUE
        BY <2>5, <3>1, <3>2 DEF Hold, Send
      <4>2. ~open
        BY <3>2 DEF Follows
      <4>3. /\ message' \in Messages /\ message'.key_release = TRUE
            /\ message'.key = k /\ message'.is_long_key = TRUE
        BY <2>1, <4>1 DEF Message, Messages
      <4>4. touches' = Append(touches, Touch(k, TRUE)) /\ open'
        BY <2>3, <3>1, <3>2, <4>2
      <4>5. Follows'
        BY <1>1, <2>2, <2>3, <3>1, <4>1, <4>4, Zenon DEF Follows
      <4>6. Reported
        BY <4>1, <4>3, <4>4 DEF Reported
      <4>7. /\ key_press_time' \in 0..LONG_PRESS /\ key_press_time' # None
            /\ last_key' \in Keys /\ last_key' # 0
            /\ scanning' \in BOOLEAN /\ long_key_found' \in BOOLEAN
        <5>1. key_press_time' \in 0..LONG_PRESS /\ key_press_time' # None
          BY <1>1, <2>3, <3>1, Zenon
        <5>2. last_key' \in Keys /\ last_key' # 0
          BY <1>1, <2>1, <2>2
        <5> QED BY <4>1, <5>1, <5>2, Zenon
      <4>8. ScannerTypes'
        BY <2>1, <2>3, <4>3, <4>7, Zenon DEF ScannerTypes
      <4> QED BY <4>5, <4>6, <4>8
    <3>3. CASE ~(held' >= LONG_PRESS /\ ~long_key_found)
      <4>1. message' = message /\ scanning' = scanning /\ long_key_found' = long_key_found
        BY <2>5, <3>1, <3>3 DEF Hold, SendNothing
      <4>2. Touch(k, TRUE) \in Touches
        BY <2>1 DEF Touch, Touches
      <4>3. touches' = touches \/ \E x \in Touches : touches' = Append(touches, x)
        BY <2>3, <3>1, <4>2, Zenon
      <4>4. open' => long_key_found'
        BY <2>3, <3>1, <3>3, <4>1 DEF Follows
      <4>5. Follows'
        BY <1>1, <2>2, <2>3, <3>1, <4>4, Zenon DEF Follows
      <4>6. Reported
        BY <1>1, <4>1, <4>3 DEF Reported
      <4> QED BY <1>1, <2>1, <2>2, <2>3, <3>1, <4>1, <4>5, <4>6 DEF ScannerTypes
    <3> QED BY <3>2, <3>3
  <2> QED BY <2>2, <2>4, <2>5
<1> QED BY <1>2, <1>3

\* A step of the queue or of the monitor task, which the finger does not see.
Elsewhere == SendKey \/ Receive \/ Idle \/ TypeKey \/ OtherState \/ LeaveTyping

LEMMA StepTypes == TypeOK /\ Follows /\ Next => TypeOK' /\ Follows'
<1> SUFFICES ASSUME TypeOK, Follows, Next PROVE TypeOK' /\ Follows'
  OBVIOUS
<1>1. ASSUME NEW d \in ScanTimes, NEW S \in SUBSET Keys, Scan(d, S)
      PROVE  TypeOK' /\ Follows'
  BY <1>1, ScanStep DEF Scan, monitor, TypeOK, ScannerTypes
<1>2. ASSUME Elsewhere PROVE Follows'
  BY <1>2 DEF Elsewhere, SendKey, Receive, Idle, TypeKey, OtherState, LeaveTyping, keypad,
     finger, Follows
<1>3. CASE SendKey
  BY <1>2, <1>3 DEF Elsewhere, SendKey, TypeOK, monitor, finger
<1>4. CASE Receive
  <2>1. /\ keypad_message_queue # <<>> => Head(keypad_message_queue) \in Messages
        /\ Residue \subseteq Messages
    BY ScannerAssumption DEF TypeOK
  <2>2. msg_key' \in Messages /\ received' \in BOOLEAN /\ stray' \in BOOLEAN
    BY <1>4, <2>1 DEF Receive, TypeOK
  <2>3. delivered' \in Seq(Touches)
    <3>1. Touch(msg_key'.key, msg_key'.is_long_key) \in Touches
      BY <2>2 DEF Messages, Touch, Touches
    <3>2. Append(delivered, Touch(msg_key'.key, msg_key'.is_long_key)) \in Seq(Touches)
      BY <3>1, AppendProperties DEF TypeOK
    <3>3. delivered' = delivered
          \/ delivered' = Append(delivered, Touch(msg_key'.key, msg_key'.is_long_key))
      BY <1>4 DEF Receive
    <3> QED BY <3>2, <3>3, Zenon DEF TypeOK
  <2> QED BY <1>2, <1>4, <2>2, <2>3, Zenon DEF Elsewhere, Receive, TypeOK, keypad, finger
<1>5. CASE Idle
  BY <1>2, <1>5 DEF Elsewhere, Idle, TypeOK, keypad, finger
<1>6. CASE TypeKey
  <2>1. msg_key' \in Messages
    BY <1>6 DEF TypeKey, TypeOK, Messages
  <2>2. digits' \in Seq(Keys)
    BY <1>6 DEF TypeKey, TypeOK, Messages
  <2> QED BY <1>2, <1>6, <2>1, <2>2 DEF Elsewhere, TypeKey, TypeOK, keypad, finger
<1>7. CASE OtherState \/ LeaveTyping
  BY <1>2, <1>7 DEF Elsewhere, OtherState, LeaveTyping, TypeOK, keypad, finger
<1> QED BY <1>1, <1>3, <1>4, <1>5, <1>6, <1>7 DEF Next

\* The types of the sequences the argument is about.
LEMMA PipeTypes ==
  ASSUME TypeOK
  PROVE  /\ touches \in Seq(Touches) /\ delivered \in Seq(Touches)
         /\ InQueue \in Seq(Touches)
         /\ message \in Messages /\ msg_key \in Messages
         /\ keypad_message_queue # <<>> => Head(keypad_message_queue) \in Messages
         /\ \A m \in Messages : \A long \in BOOLEAN : Touch(m.key, long) \in Touches
<1>1. \A m \in Messages : \A long \in BOOLEAN : Touch(m.key, long) \in Touches
  BY DEF Messages, Touch, Touches
<1>2. \A m \in Messages : m.is_long_key \in BOOLEAN
  BY DEF Messages
<1>3. keypad_message_queue # <<>> => Head(keypad_message_queue) \in Messages
  BY DEF TypeOK
<1>4. \A x \in Touches : Append(delivered, x) \in Seq(Touches)
  BY AppendProperties DEF TypeOK
<1>5. InQueue \in Seq(Touches)
  BY <1>1, <1>2, <1>3, <1>4, Zenon DEF InQueue, TypeOK
<1> QED BY <1>1, <1>3, <1>5 DEF TypeOK

\* What is on its way is what the finger did.
LEMMA StepInFlight ==
  TypeOK /\ Follows /\ IsSubsequence(InFlight, touches) /\ Next
    => IsSubsequence(InFlight, touches)'
<1> SUFFICES ASSUME TypeOK, Follows, IsSubsequence(InFlight, touches), Next
             PROVE  IsSubsequence(InFlight', touches')
  BY Zenon
<1>1. /\ touches \in Seq(Touches) /\ InQueue \in Seq(Touches) /\ message \in Messages
      /\ Touch(message.key, message.is_long_key) \in Touches
  BY PipeTypes, Zenon DEF Messages
<1>2. IsSubsequence(InQueue, touches)
  <2>1. CASE ~scanning /\ message.key_release
    BY <1>1, <2>1, DropLast DEF InFlight
  <2>2. CASE ~(~scanning /\ message.key_release)
    BY <2>2 DEF InFlight
  <2> QED BY <2>1, <2>2
<1>3. ASSUME NEW d \in ScanTimes, NEW S \in SUBSET Keys, Scan(d, S)
      PROVE  IsSubsequence(InFlight', touches')
  <2>1. Reported /\ message' \in Messages
    BY <1>3, ScanStep DEF ScannerTypes
  <2>2. InQueue' = InQueue
    BY <1>3 DEF Scan, InQueue
  <2>3. CASE ~scanning' /\ message'.key_release
    <3>1. Touch(message'.key, message'.is_long_key) \in Touches
      BY <2>1, PipeTypes DEF Messages, Touch, Touches
    <3>2. touches' = Append(touches, Touch(message'.key, message'.is_long_key))
      BY <2>1, <2>3 DEF Reported
    <3>3. InFlight' = Append(InQueue, Touch(message'.key, message'.is_long_key))
      BY <2>2, <2>3, Zenon DEF InFlight
    <3> QED BY <1>1, <1>2, <3>1, <3>2, <3>3, AppendBoth
  <2>4. CASE ~(~scanning' /\ message'.key_release)
    <3>1. InFlight' = InQueue
      BY <2>2, <2>4, Zenon DEF InFlight
    <3>2. touches' = touches \/ \E x \in Touches : touches' = Append(touches, x)
      BY <2>1, <2>4 DEF Reported
    <3>3. ASSUME NEW x \in Touches, touches' = Append(touches, x)
          PROVE  IsSubsequence(InFlight', touches')
      BY <1>1, <1>2, <3>1, <3>3, AppendRight
    <3> QED BY <1>2, <3>1, <3>2, <3>3, Zenon
  <2> QED BY <2>3, <2>4
<1>4. CASE SendKey
  <2>1. scanning' /\ touches' = touches
    BY <1>4 DEF SendKey, finger
  <2>2. InFlight' = InQueue'
    BY <2>1, Zenon DEF InFlight
  <2>3. CASE keypad_message_queue = <<>>
    <3>1. ~scanning /\ delivered' = delivered /\ keypad_message_queue' = <<message>>
      BY <1>4, <2>3 DEF SendKey
    <3>2. InQueue = delivered
      BY <2>3 DEF InQueue
    <3>3. <<message>> # <<>> /\ Head(<<message>>) = message
      OBVIOUS
    <3>4. InQueue' = InFlight
      BY <3>1, <3>2, <3>3, Zenon DEF InFlight, InQueue
    <3> QED BY <2>1, <2>2, <3>4
  <2>4. CASE keypad_message_queue # <<>>
    <3>1. InQueue' = InQueue
      BY <1>4, <2>4 DEF SendKey, InQueue
    <3> QED BY <1>2, <2>1, <2>2, <3>1
  <2> QED BY <2>3, <2>4
<1>5. CASE Receive
  <2>1. InQueue' = InQueue
    BY <1>5 DEF Receive, InQueue
  <2>2. InFlight' = InFlight /\ touches' = touches
    BY <1>5, <2>1, Zenon DEF Receive, InFlight, keypad, finger
  <2> QED BY <2>2
<1>6. CASE Idle \/ TypeKey \/ OtherState \/ LeaveTyping
  BY <1>6 DEF Idle, TypeKey, OtherState, LeaveTyping, InFlight, InQueue, keypad, finger
<1> QED BY <1>3, <1>4, <1>5, <1>6 DEF Next

\* A digit more is an entry more.
LEMMA EnteredAppend ==
  ASSUME TypeOK, NEW k \in Keys, digits' = Append(digits, k)
  PROVE  Entered' = Append(Entered, Touch(k, FALSE))
<1>1. digits \in Seq(Keys) /\ Len(digits) \in Nat
  BY DEF TypeOK
<1>2. \A i \in 1..Len(digits) : digits[i] \in Keys
  BY <1>1
<1>3. Entered \in Seq(Touches) /\ Len(Entered) = Len(digits)
  BY <1>1, <1>2 DEF Entered, Touch, Touches
<1>4. Touch(k, FALSE) \in Touches
  BY DEF Touch, Touches
<1> DEFINE n == Len(digits)
           x == Touch(k, FALSE)
           a == Append(Entered, x)
           e == Entered'
<1> HIDE DEF x
<1>5. x \in Touches
  BY <1>4 DEF x
<1>6. a \in Seq(Touches) /\ Len(a) = n + 1
  BY <1>3, <1>5, AppendProperties
<1>7. a[n + 1] = x /\ \A i \in 1..n : a[i] = Entered[i]
  BY <1>3, <1>5, AppendProperties
<1>8. Len(digits') = n + 1 /\ digits'[n + 1] = k /\ \A i \in 1..n : digits'[i] = digits[i]
  BY <1>1, AppendProperties
<1>9. e = [i \in 1..(n + 1) |-> Touch(digits'[i], FALSE)]
  BY <1>8 DEF Entered
<1> HIDE DEF a, e
<1>10. ASSUME NEW i \in 1..(n + 1) PROVE e[i] = a[i]
  <2>1. CASE i \in 1..n
    BY <1>7, <1>8, <1>9, <2>1 DEF Entered
  <2>2. CASE i = n + 1
    BY <1>7, <1>8, <1>9, <2>2 DEF x
  <2>3. i \in 1..n \/ i = n + 1
    BY <1>1
  <2> QED BY <2>1, <2>2, <2>3
<1>11. \A i \in 1..(n + 1) : Touch(digits'[i], FALSE) \in Touches
  BY <1>1, <1>8 DEF Touch, Touches
<1>12. e \in Seq(Touches) /\ Len(e) = n + 1
  <2>1. n + 1 \in Nat
    BY <1>1
  <2>2. e \in [1..(n + 1) -> Touches]
    BY <1>9, <1>11, Zenon
  <2> QED BY <2>1, <2>2
<1>13. e = a
  BY <1>6, <1>10, <1>12, SeqEqual
<1> QED BY <1>13 DEF a, e, x

\* What is typed, or may still be read from the slot, was delivered.
LEMMA StepTyped == TypeOK /\ IsSubsequence(Typed, delivered) /\ Next
                     => IsSubsequence(Typed, delivered)'
<1> SUFFICES ASSUME TypeOK, IsSubsequence(Typed, delivered), Next
             PROVE  IsSubsequence(Typed', delivered')
  BY Zenon
<1>1. /\ delivered \in Seq(Touches) /\ msg_key \in Messages /\ Entered \in Seq(Touches)
      /\ Touch(msg_key.key, FALSE) \in Touches
  <2>1. Entered \in Seq(Touches)
    BY DEF TypeOK, Entered, Touch, Touches
  <2> QED BY <2>1, PipeTypes
<1>2. IsSubsequence(Entered, delivered)
  <2>1. CASE Readable
    BY <1>1, <2>1, DropLast DEF Typed
  <2>2. CASE ~Readable
    BY <2>2 DEF Typed
  <2> QED BY <2>1, <2>2
<1>3. CASE Receive
  <2>1. Entered' = Entered
    BY <1>3 DEF Receive, Entered
  <2>2. CASE keypad_message_queue = <<>>
    <3>1. delivered' = delivered /\ (stray' \/ UNCHANGED <<msg_key, stray>>)
      BY <1>3, <2>2 DEF Receive
    <3>2. CASE stray'
      <4>1. Typed' = Entered
        BY <2>1, <3>2, Zenon DEF Typed, Readable
      <4> QED BY <1>2, <3>1, <4>1
    <3>3. CASE UNCHANGED <<msg_key, stray>>
      <4>1. Typed' = Typed
        BY <2>1, <3>3, Zenon DEF Typed, Readable, KeyTyped
      <4> QED BY <3>1, <4>1
    <3> QED BY <3>1, <3>2, <3>3
  <2>3. CASE keypad_message_queue # <<>>
    <3> DEFINE x == Touch(msg_key'.key, msg_key'.is_long_key)
    <3>1. msg_key' \in Messages /\ x \in Touches
      <4>1. msg_key' = Head(keypad_message_queue) /\ Head(keypad_message_queue) \in Messages
        BY <1>3, <2>3, PipeTypes DEF Receive
      <4> QED BY <4>1 DEF Messages, Touch, Touches
    <3>2. delivered' = IF msg_key'.key_release THEN Append(delivered, x) ELSE delivered
      BY <1>3, <2>3 DEF Receive
    <3>0. ~stray'
      BY <1>3, <2>3 DEF Receive
    <3>3. CASE msg_key'.key_release /\ ~msg_key'.is_long_key
      <4>1. x = Touch(msg_key'.key, FALSE)
        BY <3>1, <3>3 DEF Messages
      <4>2. Typed' = Append(Entered, x)
        BY <2>1, <3>0, <3>3, <4>1, Zenon DEF Typed, Readable, KeyTyped
      <4>3. delivered' = Append(delivered, x)
        BY <3>2, <3>3
      <4> HIDE DEF x
      <4> QED BY <1>1, <1>2, <3>1, <4>2, <4>3, AppendBoth
    <3>4. CASE ~(msg_key'.key_release /\ ~msg_key'.is_long_key)
      <4>1. Typed' = Entered
        BY <2>1, <3>4, Zenon DEF Typed, Readable, KeyTyped
      <4> HIDE DEF x
      <4>2. CASE msg_key'.key_release
        BY <1>1, <1>2, <3>1, <3>2, <4>1, <4>2, AppendRight
      <4>3. CASE ~msg_key'.key_release
        BY <1>2, <3>2, <4>1, <4>3
      <4> QED BY <4>2, <4>3
    <3> QED BY <3>3, <3>4
  <2> QED BY <2>2, <2>3
<1>4. CASE TypeKey
  <2>1. delivered' = delivered /\ ~Readable'
    BY <1>1, <1>4 DEF TypeKey, Readable, KeyTyped, Messages
  <2>2. Typed' = Entered'
    BY <2>1, Zenon DEF Typed
  <2>3. CASE Readable /\ msg_key.key # Star
    <3>1. digits' = Append(digits, msg_key.key) /\ msg_key.key \in Keys
      BY <1>1, <1>4, <2>3 DEF TypeKey, Readable, Messages
    <3>2. Entered' = Typed
      BY <2>3, <3>1, EnteredAppend DEF Typed
    <3> QED BY <2>1, <2>2, <3>2
  <2>4. CASE ~(Readable /\ msg_key.key # Star)
    <3>1. Entered' = Entered
      BY <1>4, <2>4 DEF TypeKey, Readable, Entered
    <3> QED BY <1>2, <2>1, <2>2, <3>1
  <2> QED BY <2>3, <2>4
<1>5. ASSUME SendKey \/ Idle \/ OtherState \/ LeaveTyping
             \/ \E d \in ScanTimes, S \in SUBSET Keys : Scan(d, S)
      PROVE  IsSubsequence(Typed', delivered')
  <2>1. UNCHANGED <<msg_key, stray, digits, delivered>>
    BY <1>5 DEF SendKey, Idle, OtherState, LeaveTyping, Scan, monitor
  <2>2. Typed' = Typed
    BY <2>1, Zenon DEF Typed, Readable, KeyTyped, Entered
  <2> QED BY <2>1, <2>2
<1> QED BY <1>3, <1>4, <1>5 DEF Next

-----------------------------------------------------------------------------
(* Where touches get lost.                                                 *)

\* Touches that are neither received nor on their way nor lost at the queue.
Missing == Len(touches) - (Len(delivered) + Underway + lost)

\* At most one, and none as long as the flag of the first touch is still up.
Balance ==
  /\ LostOnlyWhenFull
  /\ long_key_found /\ ~open => Missing = 0

\* A touch that a scan completes is sent, but under the flag of the first one, and
\* no scan puts that flag up.
LEMMA ScanMask ==
  ASSUME TypeOK, Follows, NEW d \in ScanTimes, NEW S \in SUBSET Keys, Scan(d, S)
  PROVE  /\ \/ touches' = touches
            \/ ~scanning' /\ message'.key_release
            \/ long_key_found /\ ~open
         /\ long_key_found' /\ ~open' => long_key_found /\ ~open /\ touches' = touches
<1>1. CASE S = {}
  <2>1. Release(d) /\ FingerUp(d)
    BY <1>1 DEF Scan
  <2>2. long_key_found' = FALSE
    BY <2>1 DEF Release
  <2>3. ~(held # None /\ ~open) => touches' = touches
    BY <2>1, Up
  <2>4. CASE last_key # 0 /\ ~long_key_found
    BY <2>1, <2>2, <2>4 DEF Release, Send, Message
  <2>5. CASE ~(last_key # 0 /\ ~long_key_found)
    BY <2>2, <2>3, <2>5 DEF Follows, TypeOK
  <2> QED BY <2>4, <2>5
<1>2. CASE S # {}
  <2> DEFINE k == Scanned(S)
  <2>1. k \in Keys /\ FingerDown(k, d) /\ (Press(k) \/ Hold(k, d))
        /\ (held # None \/ Len(touches) < MAX_TOUCHES)
    BY <1>2, ScannedKey DEF Scan
  <2> HIDE DEF k
  <2>2. /\ held = None => ~open' /\ touches' = touches
        /\ held # None => held' = Later(held, d)
        /\ held # None /\ held' >= LONG_PRESS /\ ~open => open'
        /\ held # None /\ ~(held' >= LONG_PRESS /\ ~open) => open' = open /\ touches' = touches
    BY <2>1, Down
  <2>3. CASE Press(k)
    BY <2>2, <2>3 DEF Press, Follows
  <2>4. CASE Hold(k, d)
    <3>1. held # None /\ key_press_time' = held' /\ (open => long_key_found)
      BY <2>2, <2>4 DEF Hold, Follows
    <3>2. CASE held' >= LONG_PRESS /\ ~long_key_found
      <4>1. ~scanning' /\ message'.key_release
        BY <2>4, <3>1, <3>2 DEF Hold, Send, Message
      <4>2. open'
        BY <2>2, <3>1, <3>2
      <4> QED BY <4>1, <4>2
    <3>3. CASE ~(held' >= LONG_PRESS /\ ~long_key_found)
      <4>1. long_key_found' = long_key_found
        BY <2>4, <3>1, <3>3 DEF Hold
      <4> QED BY <2>2, <3>1, <3>3, <4>1
    <3> QED BY <3>2, <3>3
  <2> QED BY <2>1, <2>3, <2>4
<1> QED BY <1>1, <1>2

\* The numbers that are balanced.
LEMMA Counts ==
  ASSUME TypeOK
  PROVE  /\ Len(touches) \in Nat /\ Len(delivered) \in Nat /\ lost \in Nat
         /\ \A x \in Touches : /\ Len(Append(touches, x)) = Len(touches) + 1
                               /\ Len(Append(delivered, x)) = Len(delivered) + 1
<1>1. touches \in Seq(Touches) /\ delivered \in Seq(Touches) /\ lost \in Nat
  BY DEF TypeOK
<1> QED BY <1>1

LEMMA ReleasesType == \A q : Releases(q) \in {0, 1}
BY DEF Releases

LEMMA OneReleases ==
  \A m : Releases(<<m>>) = (IF m.key_release THEN 1 ELSE 0) /\ Releases(<<>>) = 0
<1> TAKE m
<1>1. <<m>> # <<>> /\ Head(<<m>>) = m
  OBVIOUS
<1> QED BY <1>1 DEF Releases

\* No step loses a touch but a full queue, and the flag of the first one.
LEMMA StepBalance == TypeOK /\ TypeOK' /\ Follows /\ Balance /\ Next => Balance'
<1> SUFFICES ASSUME TypeOK, TypeOK', Follows, Balance, Next PROVE Balance'
  OBVIOUS
<1> DEFINE sent == IF scanning THEN <<>> ELSE <<message>>
<1>1. /\ Len(touches) \in Nat /\ Len(delivered) \in Nat /\ lost \in Nat
      /\ \A x \in Touches : /\ Len(Append(touches, x)) = Len(touches) + 1
                            /\ Len(Append(delivered, x)) = Len(delivered) + 1
  BY Counts
<1>2. Len(touches') \in Nat /\ Len(delivered') \in Nat /\ lost' \in Nat
  BY DEF TypeOK
<1>3. /\ Underway = Releases(sent) + Releases(keypad_message_queue)
      /\ Releases(sent) \in {0, 1} /\ Releases(keypad_message_queue) \in {0, 1}
      /\ Releases(sent') \in {0, 1} /\ Releases(keypad_message_queue') \in {0, 1}
      /\ Underway' = Releases(sent') + Releases(keypad_message_queue')
      /\ Releases(sent) = (IF ~scanning /\ message.key_release THEN 1 ELSE 0)
      /\ Releases(sent') = (IF ~scanning' /\ message'.key_release THEN 1 ELSE 0)
  BY ReleasesType, OneReleases DEF Underway
<1>4. Missing \in {0, 1} /\ (long_key_found /\ ~open => Missing = 0)
  BY DEF Balance, LostOnlyWhenFull, Missing
<1>5. ASSUME Missing' \in {0, 1}, long_key_found' /\ ~open' => Missing' = 0 PROVE Balance'
  BY <1>5 DEF Balance, LostOnlyWhenFull, Missing
<1> HIDE DEF sent
<1>6. ASSUME NEW d \in ScanTimes, NEW S \in SUBSET Keys, Scan(d, S) PROVE Balance'
  <2>1. /\ \/ touches' = touches
           \/ ~scanning' /\ message'.key_release
           \/ long_key_found /\ ~open
        /\ long_key_found' /\ ~open' => long_key_found /\ ~open /\ touches' = touches
    BY <1>6, ScanMask
  <2>2. Reported /\ message' \in Messages
    BY <1>6, ScanStep DEF ScannerTypes
  <2>3. scanning /\ UNCHANGED <<keypad_message_queue, delivered, lost>>
    BY <1>6 DEF Scan
  <2>4. Releases(sent) = 0
    BY <1>3, <2>3
  <2>5. CASE ~scanning' /\ message'.key_release
    <3>1. Touch(message'.key, message'.is_long_key) \in Touches
      BY <2>2 DEF Messages, Touch, Touches
    <3>2. Len(touches') = Len(touches) + 1
      BY <1>1, <2>2, <2>5, <3>1 DEF Reported
    <3>3. Releases(sent') = 1
      BY <1>3, <2>5
    <3>4. Missing' = Missing
      BY <1>1, <1>3, <2>3, <2>4, <3>2, <3>3 DEF Missing
    <3> QED BY <1>4, <1>5, <2>1, <3>4
  <2>6. CASE ~(~scanning' /\ message'.key_release)
    <3>1. Releases(sent') = 0
      BY <1>3, <2>6
    <3>2. CASE touches' = touches
      <4>1. Missing' = Missing
        BY <1>1, <1>3, <2>3, <2>4, <3>1, <3>2 DEF Missing
      <4> QED BY <1>4, <1>5, <2>1, <4>1
    <3>3. CASE touches' # touches
      <4>1. Missing = 0 /\ ~(long_key_found' /\ ~open')
        BY <1>4, <2>1, <2>6, <3>3
      <4>2. Len(touches') = Len(touches) + 1
        BY <1>1, <2>2, <2>6, <3>3 DEF Reported
      <4>3. Missing' = 1
        BY <1>1, <1>3, <2>3, <2>4, <3>1, <4>1, <4>2 DEF Missing
      <4> QED BY <1>5, <4>1, <4>3
    <3> QED BY <3>2, <3>3
  <2> QED BY <2>5, <2>6
<1>7. ASSUME Missing' = Missing, UNCHANGED <<long_key_found, open>> PROVE Balance'
  BY <1>4, <1>5, <1>7
<1>8. CASE SendKey
  <2>1. /\ ~scanning /\ scanning'
        /\ UNCHANGED <<message, long_key_found, open, touches, delivered>>
    BY <1>8 DEF SendKey, finger
  <2>2. Releases(sent') = 0
    BY <1>3, <2>1
  <2>3. CASE keypad_message_queue = <<>>
    <3>1. keypad_message_queue' = <<message>> /\ lost' = lost
      BY <1>8, <2>3 DEF SendKey
    <3>2. Releases(keypad_message_queue) = 0 /\ Releases(keypad_message_queue') = Releases(sent)
      BY <1>3, <2>1, <2>3, <3>1, OneReleases
    <3>3. Missing' = Missing
      BY <1>1, <1>3, <2>1, <2>2, <3>1, <3>2 DEF Missing
    <3> QED BY <1>7, <2>1, <3>3
  <2>4. CASE keypad_message_queue # <<>>
    <3>1. keypad_message_queue' = keypad_message_queue /\ lost' = lost + Releases(sent)
      BY <1>1, <1>3, <1>8, <2>1, <2>4 DEF SendKey
    <3>2. Missing' = Missing
      BY <1>1, <1>3, <2>1, <2>2, <3>1 DEF Missing
    <3> QED BY <1>7, <2>1, <3>2
  <2> QED BY <2>3, <2>4
<1>9. CASE Receive
  <2>1. /\ UNCHANGED <<scanning, message, long_key_found, open, touches, lost>>
        /\ keypad_message_queue' = <<>>
    BY <1>9 DEF Receive, keypad, finger
  <2>2. Releases(keypad_message_queue') = 0 /\ Releases(sent') = Releases(sent)
    BY <1>3, <2>1, OneReleases
  <2>3. Len(delivered') = Len(delivered) + Releases(keypad_message_queue)
    <3>1. CASE keypad_message_queue # <<>> /\ Head(keypad_message_queue).key_release
      <4> DEFINE m == Head(keypad_message_queue)
      <4>1. delivered' = Append(delivered, Touch(m.key, m.is_long_key))
        BY <1>9, <3>1 DEF Receive
      <4>2. Touch(m.key, m.is_long_key) \in Touches
        BY <3>1, PipeTypes DEF Messages, Touch, Touches
      <4>3. Releases(keypad_message_queue) = 1
        BY <3>1 DEF Releases
      <4> HIDE DEF m
      <4> QED BY <1>1, <4>1, <4>2, <4>3
    <3>2. CASE ~(keypad_message_queue # <<>> /\ Head(keypad_message_queue).key_release)
      <4>1. delivered' = delivered
        BY <1>9, <3>2 DEF Receive
      <4>2. Releases(keypad_message_queue) = 0
        BY <3>2 DEF Releases
      <4> QED BY <1>1, <4>1, <4>2
    <3> QED BY <3>1, <3>2
  <2>4. Missing' = Missing
    BY <1>1, <1>3, <2>1, <2>2, <2>3 DEF Missing
  <2> QED BY <1>7, <2>1, <2>4
<1>10. CASE Idle \/ TypeKey \/ OtherState \/ LeaveTyping
  <2>1. UNCHANGED <<scanning, message, keypad_message_queue, long_key_found, open, touches,
                    delivered, lost>>
    BY <1>10 DEF Idle, TypeKey, OtherState, LeaveTyping, keypad, finger
  <2>2. Missing' = Missing
    BY <2>1 DEF Missing, Underway
  <2> QED BY <1>7, <2>1, <2>2
<1> QED BY <1>6, <1>8, <1>9, <1>10 DEF Next

-----------------------------------------------------------------------------
(* The theorems.                                                           *)

LEMMA Invariant == Spec => []IInv
<1>1. Init => IInv
  <2> SUFFICES ASSUME Init PROVE IInv
    OBVIOUS
  <2>1. TypeOK
    <3>1. Star \in Keys /\ Message(Star, FALSE, FALSE) \in Messages
      BY ScannerAssumption DEF Star, Message, Messages
    <3>5. msg_key \in Messages
      BY <3>1, ScannerAssumption DEF Init
    <3>2. MAX_TOUCHES \in Nat /\ <<>> \in Seq(Touches) /\ <<>> \in Seq(Keys) /\ Len(<<>>) = 0
      BY ScannerAssumption
    <3>3. /\ key_press_time \in {None} \cup 0..LONG_PRESS /\ held \in {None} \cup 0..LONG_PRESS
          /\ (key_press_time = None) = (last_key = 0)
      BY Zenon DEF Init
    <3>4. Len(touches) <= MAX_TOUCHES
      BY <3>2 DEF Init
    <3> QED BY <3>1, <3>2, <3>3, <3>4, <3>5, Zenon DEF Init, TypeOK
  <2>2. Follows
    BY DEF Init, Follows
  <2>3. InFlight = <<>> /\ Typed = <<>> /\ touches = <<>> /\ delivered = <<>>
    <3>1. InFlight = <<>>
      BY DEF Init, InFlight, InQueue
    <3>2. Entered = <<>>
      BY DEF Init, Entered
    <3>3. ~Readable
      BY DEF Init, Readable
    <3> QED BY <3>1, <3>2, <3>3 DEF Init, Typed
  <2> QED BY <2>1, <2>2, <2>3, EmptyIsSubsequence DEF IInv
<1>2. IInv /\ [Next]_vars => IInv'
  <2> SUFFICES ASSUME IInv, [Next]_vars PROVE IInv'
    OBVIOUS
  <2>1. CASE Next
    BY <2>1, StepTypes, StepInFlight, StepTyped DEF IInv
  <2>2. CASE UNCHANGED vars
    BY <2>2 DEF vars, keypad, monitor, finger, IInv, TypeOK, Follows, InFlight, InQueue, Typed,
       Readable, KeyTyped, Entered
  <2> QED BY <2>1, <2>2
<1> QED BY <1>1, <1>2, PTL DEF Spec

\* Every variable keeps its type, and the bound on touches holds.
THEOREM TypeCorrect == Spec => []TypeOK
BY Invariant, PTL DEF IInv

\* What the monitor task receives are touches the finger completed, in order,
\* each at most once.
THEOREM CountsOnce == Spec => []TouchCountsOnce
<1>1. IInv => TouchCountsOnce
  <2> SUFFICES ASSUME IInv PROVE IsSubsequence(delivered, touches)
    BY DEF TouchCountsOnce
  <2>1. TypeOK
    BY DEF IInv
  <2>2. IsSubsequence(InQueue, touches)
    <3>1. message \in Messages /\ Touch(message.key, message.is_long_key) \in Touches
      BY <2>1, PipeTypes, Zenon DEF Messages
    <3>2. CASE ~scanning /\ message.key_release
      BY <2>1, <3>1, <3>2, PipeTypes, DropLast DEF IInv, InFlight
    <3>3. CASE ~(~scanning /\ message.key_release)
      BY <3>3 DEF IInv, InFlight
    <3> QED BY <3>2, <3>3
  <2>3. CASE keypad_message_queue # <<>> /\ Head(keypad_message_queue).key_release
    <3> DEFINE x == Touch(Head(keypad_message_queue).key, Head(keypad_message_queue).is_long_key)
    <3>1. x \in Touches
      BY <2>1, <2>3, PipeTypes DEF Messages, Touch, Touches
    <3>2. InQueue = Append(delivered, x)
      BY <2>3 DEF InQueue
    <3> HIDE DEF x
    <3> QED BY <2>1, <2>2, <3>1, <3>2, PipeTypes, DropLast
  <2>4. CASE ~(keypad_message_queue # <<>> /\ Head(keypad_message_queue).key_release)
    BY <2>2, <2>4 DEF InQueue
  <2> QED BY <2>3, <2>4
<1> QED BY <1>1, Invariant, PTL

\* Every digit of a password that came with a message is a short touch of its own, in
\* order, whatever a failed receive leaves in the slot.
THEOREM DigitsAreTouches == Spec => []DigitsWereTouched
<1>1. IInv /\ TouchCountsOnce => DigitsWereTouched
  <2> SUFFICES ASSUME IInv, TouchCountsOnce PROVE IsSubsequence(Entered, touches)
    BY DEF DigitsWereTouched
  <2>1. Entered \in Seq(Touches)
    BY DEF IInv, TypeOK, Entered, Touch, Touches
  <2>2. IsSubsequence(Entered, delivered)
    <3>1. Touch(msg_key.key, FALSE) \in Touches
      BY PipeTypes DEF IInv
    <3>2. CASE Readable
      BY <2>1, <3>1, <3>2, PipeTypes, DropLast DEF IInv, Typed
    <3>3. CASE ~Readable
      BY <3>3 DEF IInv, Typed
    <3> QED BY <3>2, <3>3
  <2> QED BY <2>1, <2>2, PipeTypes, Transitive DEF IInv, TouchCountsOnce
<1> QED BY <1>1, CountsOnce, Invariant, PTL

\* However slow the reader and whatever is pressed, a touch is lost only at a full queue,
\* but for the very first, which the uninitialised long_key_found can mask.
THEOREM LostAtTheQueue == Spec => []LostOnlyWhenFull
<1>1. Init => Balance
  <2> SUFFICES ASSUME Init PROVE Balance
    OBVIOUS
  <2>1. Len(touches) = 0 /\ Len(delivered) = 0 /\ lost = 0 /\ Underway = 0
    BY OneReleases DEF Init, Underway
  <2>2. Missing = 0
    BY <2>1 DEF Missing
  <2> QED BY <2>2 DEF Balance, LostOnlyWhenFull, Missing
<1>2. IInv /\ IInv' /\ Balance /\ [Next]_vars => Balance'
  <2>1. UNCHANGED vars => (Balance <=> Balance')
    BY DEF vars, keypad, finger, Balance, LostOnlyWhenFull, Missing, Underway
  <2> QED BY <2>1, StepBalance DEF IInv
<1>3. Balance => LostOnlyWhenFull
  BY DEF Balance
<1> QED BY <1>1, <1>2, <1>3, Invariant, PTL DEF Spec

==============================================================================
