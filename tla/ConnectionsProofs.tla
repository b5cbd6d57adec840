-------------------------- MODULE ConnectionsProofs --------------------------
(***************************************************************************)
(* Proofs about Connections, for any devices, links, length of the list    *)
(* and number of connections.                                              *)
(*                                                                         *)
(* The argument: outside of garage mode the list is the saved roster unless*)
(* need_refresh_scan_filter says that it has to be loaded again, the app   *)
(* has changed it, or a server command has left an enrolment open          *)
(* (ListFollows); while it is loaded it holds the slots gone through so far*)
(* (Loading); in garage mode it is what was accepted there, with a handle  *)
(* (GarageList), because whatever the BLE task verifies has one            *)
(* (NewsIsNamed), and because the entry it has chosen is still the right   *)
(* one when it writes it (Chosen), unless the list was emptied or loaded in*)
(* between (raced).  An enrolment stays open outside of garage mode only   *)
(* after a command of the server (Points), so that what is saved was       *)
(* accepted in garage mode.                                                *)
(***************************************************************************)
EXTENDS Connections, FiniteSetTheorems, SequenceTheorems, WellFoundedInduction, TLAPS

-----------------------------------------------------------------------------
(* Facts about sets, sequences and the recursion of StoredTo.  The library's *)
(* induction theorems take an operator; here a least counterexample (WFMin)  *)
(* does their work.                                                          *)

\* A set of naturals that is not empty has a least element.
LEMMA LeastElement ==
  ASSUME NEW S \in SUBSET Nat, S # {}
  PROVE  \E m \in S : \A n \in S : m <= n
<1>1. PICK m \in S : \A n \in S : ~ (<<n, m>> \in OpToRel(<, Nat))
  BY WFMin, NatLessThanWellFounded
<1>2. \A n \in S : ~ (n < m)
  BY <1>1 DEF OpToRel
<1> QED BY <1>2

\* Min of FiniteSetsExt picks it.
LEMMA MinIsIn ==
  ASSUME NEW S \in SUBSET Nat, S # {}
  PROVE  Min(S) \in S
BY LeastElement DEF Min

LEMMA MinIsLeast ==
  ASSUME NEW S \in SUBSET Nat, NEW n \in S
  PROVE  Min(S) <= n
BY LeastElement DEF Min

LEMMA IntervalCardinality ==
  ASSUME NEW n \in Nat
  PROVE  IsFiniteSet(1..n) /\ Cardinality(1..n) = n
<1>1. 1 \in Int /\ n \in Int
  OBVIOUS
<1>2. /\ IsFiniteSet(1..n)
      /\ Cardinality(1..n) = IF 1 > n THEN 0 ELSE n - 1 + 1
  BY <1>1, FS_Interval
<1>3. (IF 1 > n THEN 0 ELSE n - 1 + 1) = n
  OBVIOUS
<1> QED BY <1>2, <1>3

\* Distinct names are as many as their indices.
LEMMA DistinctCardinality ==
  ASSUME NEW n \in Nat, NEW Name, Name = [i \in 1..n |-> Name[i]],
         \A i, j \in 1..n : Name[i] = Name[j] => i = j
  PROVE  Cardinality({Name[i] : i \in 1..n}) = n
<1> DEFINE T == {Name[i] : i \in 1..n}
<1>1. Name \in Bijection(1..n, T)
  BY DEF Bijection, Injection, Surjection, IsInjective
<1>2. ExistsBijection(1..n, T)
  BY <1>1 DEF ExistsBijection
<1> QED BY <1>2, IntervalCardinality, FS_Bijection

Elements(q) == {q[i] : i \in 1..Len(q)}

\* What is in a concatenation.
LEMMA ConcatElements ==
  ASSUME NEW S, NEW a \in Seq(S), NEW b \in Seq(S)
  PROVE  /\ a \o b \in Seq(S) /\ Len(a \o b) = Len(a) + Len(b)
         /\ Elements(a \o b) = Elements(a) \union Elements(b)
<1>1. /\ a \o b \in Seq(S) /\ Len(a \o b) = Len(a) + Len(b)
      /\ \A i \in 1..Len(a \o b) :
           (a \o b)[i] = IF i <= Len(a) THEN a[i] ELSE b[i - Len(a)]
  BY ConcatProperties
<1>2. ASSUME NEW i \in 1..Len(a)
      PROVE  i \in 1..Len(a \o b) /\ (a \o b)[i] = a[i]
  BY <1>1
<1>3. ASSUME NEW i \in 1..Len(b)
      PROVE  Len(a) + i \in 1..Len(a \o b) /\ (a \o b)[Len(a) + i] = b[i]
  BY <1>1
<1>4. ASSUME NEW i \in 1..Len(a \o b)
      PROVE  \/ \E j \in 1..Len(a) : (a \o b)[i] = a[j]
             \/ \E j \in 1..Len(b) : (a \o b)[i] = b[j]
  <2>1. CASE i <= Len(a)
    BY <1>1, <2>1
  <2>2. CASE ~(i <= Len(a))
    <3>1. i - Len(a) \in 1..Len(b)
      BY <1>1, <2>2
    <3> QED BY <1>1, <2>2, <3>1
  <2> QED BY <2>1, <2>2
<1>5. Elements(a \o b) \subseteq Elements(a) \union Elements(b)
  BY <1>4 DEF Elements
<1>6. Elements(a) \subseteq Elements(a \o b)
  BY <1>2 DEF Elements
<1>7. Elements(b) \subseteq Elements(a \o b)
  BY <1>3 DEF Elements
<1> QED BY <1>1, <1>5, <1>6, <1>7

-----------------------------------------------------------------------------
(* The list that is loaded from a roster.                                   *)

SlotSet == {"Leach_address_1", "Leach_address_2", "canbus_Leach_address", "modem_address"}
RosterType == [SlotSet -> Devices \union {NoDevice}]
DevicesOf(s) == {s[x] : x \in SlotSet} \ {NoDevice}

LEMMA SlotsAre == Range(Slots) = SlotSet
BY DEF Range, Slots, SlotSet

LEMMA EntryIs ==
  ASSUME NEW s, NEW x \in SlotSet
  PROVE  /\ Entry(s, x) \in Seq(SlotSet) /\ Len(Entry(s, x)) \in 0..1
         /\ Elements(Entry(s, x)) = IF s[x] = NoDevice THEN {} ELSE {x}
BY DEF Entry, Elements

\* Every slot in use is loaded once.
LEMMA FilledIs ==
  ASSUME NEW s
  PROVE  /\ Filled(s) \in Seq(SlotSet) /\ Len(Filled(s)) \in 0..4
         /\ Elements(Filled(s)) = {x \in SlotSet : s[x] # NoDevice}
<1> DEFINE e1 == Entry(s, "Leach_address_1")
           e2 == Entry(s, "Leach_address_2")
           e3 == Entry(s, "canbus_Leach_address")
           e4 == Entry(s, "modem_address")
<1>1. \A q \in {e1, e2, e3, e4} : q \in Seq(SlotSet) /\ Len(q) \in 0..1
  <2>1. \A x \in SlotSet : Entry(s, x) \in Seq(SlotSet) /\ Len(Entry(s, x)) \in 0..1
    BY EntryIs
  <2>2. \A x \in {"Leach_address_1", "Leach_address_2", "canbus_Leach_address",
                   "modem_address"} : x \in SlotSet
    BY DEF SlotSet
  <2> QED BY <2>1, <2>2
<1>2. Elements(e1) \union Elements(e2) \union Elements(e3) \union Elements(e4) = {x \in SlotSet : s[x] # NoDevice}
  <2>1. /\ Elements(e1) = IF s["Leach_address_1"] = NoDevice THEN {} ELSE {"Leach_address_1"}
        /\ Elements(e2) = IF s["Leach_address_2"] = NoDevice THEN {} ELSE {"Leach_address_2"}
        /\ Elements(e3) = IF s["canbus_Leach_address"] = NoDevice THEN {} ELSE {"canbus_Leach_address"}
        /\ Elements(e4) = IF s["modem_address"] = NoDevice THEN {} ELSE {"modem_address"}
    BY EntryIs DEF SlotSet
  <2> HIDE DEF e1, e2, e3, e4
  <2> QED BY <2>1 DEF SlotSet
<1>3. Filled(s) = ((e1 \o e2) \o e3) \o e4
  BY DEF Filled
<1> HIDE DEF e1, e2, e3, e4
<1>4. ASSUME NEW a \in Seq(SlotSet), NEW b \in {e1, e2, e3, e4}
      PROVE  /\ a \o b \in Seq(SlotSet) /\ Len(a \o b) = Len(a) + Len(b)
             /\ Elements(a \o b) = Elements(a) \union Elements(b)
  <2>1. b \in Seq(SlotSet)
    BY <1>1
  <2> QED BY <2>1, ConcatElements
<1>5. /\ e1 \o e2 \in Seq(SlotSet) /\ Len(e1 \o e2) = Len(e1) + Len(e2)
      /\ Elements(e1 \o e2) = Elements(e1) \union Elements(e2)
  BY <1>1, <1>4
<1>6. /\ (e1 \o e2) \o e3 \in Seq(SlotSet)
      /\ Len((e1 \o e2) \o e3) = Len(e1 \o e2) + Len(e3)
      /\ Elements((e1 \o e2) \o e3) = Elements(e1 \o e2) \union Elements(e3)
  BY <1>4, <1>5
<1>7. /\ Filled(s) \in Seq(SlotSet)
      /\ Len(Filled(s)) = Len((e1 \o e2) \o e3) + Len(e4)
      /\ Elements(Filled(s)) = Elements((e1 \o e2) \o e3) \union Elements(e4)
  BY <1>3, <1>4, <1>6
<1>8. Elements(Filled(s)) = {x \in SlotSet : s[x] # NoDevice}
  BY <1>2, <1>5, <1>6, <1>7
<1>9. Len(Filled(s)) \in 0..4
  <2>1. \A a, b, c, d \in 0..1 : ((a + b) + c) + d \in 0..4
    OBVIOUS
  <2>2. Len(e1) \in 0..1 /\ Len(e2) \in 0..1 /\ Len(e3) \in 0..1 /\ Len(e4) \in 0..1
    BY <1>1
  <2>3. Len(Filled(s)) = ((Len(e1) + Len(e2)) + Len(e3)) + Len(e4)
    BY <1>5, <1>6, <1>7
  <2> HIDE DEF e1, e2, e3, e4
  <2> QED BY <2>1, <2>2, <2>3
<1> QED BY <1>7, <1>8, <1>9

ArrayType == [1..MAX_CONNECTIONS -> Infos]

ListOf(array, n) == {array[i].addr : i \in 1..n}

LEMMA InfoType ==
  ASSUME NEW d \in Devices \union {NoDevice}, NEW type \in Types,
         NEW h \in Handles \union {NoHandle}, NEW b \in BOOLEAN
  PROVE  Info(d, type, h, b) \in Infos
BY DEF Info, Infos

LEMMA NothingType == Nothing \in Infos /\ NoSlots \in RosterType
BY SlotsAre, InfoType DEF Nothing, NoSlots, RosterType, Types

\* What is loaded is typed, and lists the devices of the roster.
LEMMA LoadedIs ==
  ASSUME NEW s \in RosterType
  PROVE  /\ Loaded(s) \in ArrayType /\ Len(Filled(s)) \in 0..MAX_CONNECTIONS
         /\ ListOf(Loaded(s), Len(Filled(s))) = DevicesOf(s)
<1> DEFINE n == Len(Filled(s))
<1>1. /\ n \in 0..4 /\ Filled(s) \in Seq(SlotSet)
      /\ Elements(Filled(s)) = {x \in SlotSet : s[x] # NoDevice}
  BY FilledIs
<1>2. \A i \in 1..n : Filled(s)[i] \in SlotSet
  BY <1>1
<1>3. Elements(Filled(s)) = {Filled(s)[i] : i \in 1..n}
  BY DEF Elements
<1> HIDE DEF n
<1>4. n \in 0..MAX_CONNECTIONS /\ \A i \in 1..n : i \in 1..MAX_CONNECTIONS /\ i <= n
  BY <1>1, ConnectionsAssumption DEF ConnectionsAssumption
<1>5. \A i \in 1..MAX_CONNECTIONS : i <= n => i \in 1..n
  BY <1>4
<1>6. \A x \in SlotSet : Info(s[x], TypeOfSlot(x), NoHandle, FALSE) \in Infos
  BY DEF Info, Infos, TypeOfSlot, Types, RosterType
<1>7. Loaded(s) =
        [i \in 1..MAX_CONNECTIONS |->
           IF i <= n THEN Info(s[Filled(s)[i]], TypeOfSlot(Filled(s)[i]), NoHandle, FALSE)
                     ELSE Nothing]
  BY DEF Loaded, n
<1>8. Loaded(s) \in ArrayType
  BY <1>2, <1>5, <1>6, <1>7, NothingType DEF ArrayType
<1>9. \A i \in 1..n : Loaded(s)[i].addr = s[Filled(s)[i]]
  BY <1>4, <1>7 DEF Info
<1>10. ListOf(Loaded(s), n) \subseteq DevicesOf(s)
  BY <1>1, <1>3, <1>9 DEF ListOf, DevicesOf
<1>11. DevicesOf(s) \subseteq ListOf(Loaded(s), n)
  <2> SUFFICES ASSUME NEW x \in SlotSet, s[x] # NoDevice
               PROVE  s[x] \in ListOf(Loaded(s), n)
    BY DEF DevicesOf
  <2>1. PICK i \in 1..n : Filled(s)[i] = x
    BY <1>1, <1>3
  <2> QED BY <1>9, <2>1 DEF ListOf
<1> QED BY <1>4, <1>8, <1>10, <1>11 DEF n

-----------------------------------------------------------------------------
(* configuration_save_address_list.                                         *)

Distinct(s) == \A x, y \in SlotSet : s[x] = s[y] /\ s[x] # NoDevice => x = y

\* One entry: it is stored in one slot at most, and only if it has a handle
\* and is not in the roster yet.
LEMMA StoredIs ==
  ASSUME NEW s \in RosterType, NEW info \in Infos
  PROVE  /\ Stored(s, info) \in RosterType
         /\ Distinct(s) => Distinct(Stored(s, info))
         /\ DevicesOf(Stored(s, info)) \subseteq DevicesOf(s) \union {info.addr}
         /\ info.conn_handler = NoHandle => Stored(s, info) = s
<1>1. Range(s) = {s[x] : x \in SlotSet}
  BY DEF Range, RosterType
<1>2. info.addr \in Devices \union {NoDevice}
  BY DEF Infos
<1>3. CASE info.addr \in Range(s) \/ info.conn_handler = NoHandle \/ EmptyFor(s, info.type) = {}
  BY <1>3 DEF Stored
<1>4. CASE ~(info.addr \in Range(s) \/ info.conn_handler = NoHandle \/ EmptyFor(s, info.type) = {})
  <2> DEFINE x == SlotFor(s, info.type)
  <2>1. EmptyFor(s, info.type) \subseteq SlotSet /\ EmptyFor(s, info.type) # {}
    BY <1>4 DEF EmptyFor, SlotSet
  <2>2. x \in SlotSet
    BY <2>1 DEF SlotFor
  <2>3. Stored(s, info) = [s EXCEPT ![x] = info.addr]
    BY <1>4 DEF Stored
  <2> HIDE DEF x
  <2>4. Stored(s, info) \in RosterType
    BY <1>2, <2>2, <2>3 DEF RosterType
  <2>5. \A y \in SlotSet : Stored(s, info)[y] = IF y = x THEN info.addr ELSE s[y]
    BY <2>3 DEF RosterType
  <2>6. \A y \in SlotSet : s[y] # info.addr
    BY <1>1, <1>4
  <2>7. Distinct(s) => Distinct(Stored(s, info))
    BY <2>5, <2>6 DEF Distinct
  <2>8. DevicesOf(Stored(s, info)) \subseteq DevicesOf(s) \union {info.addr}
    BY <2>5 DEF DevicesOf
  <2> QED BY <1>4, <2>4, <2>7, <2>8
<1> QED BY <1>3, <1>4

\* The recursion is well founded: there is a function that satisfies it.
LEMMA StoredToExists ==
  ASSUME NEW n \in Nat
  PROVE  \E g : g = [i \in 0..n |-> IF i = 0 THEN saved
                                     ELSE Stored(g[i - 1], connections_array[i])]
<1> DEFINE Solves(g, k) == g = [i \in 0..k |-> IF i = 0 THEN saved
                                     ELSE Stored(g[i - 1], connections_array[i])]
           Unsolved == {k \in Nat : ~ \E g : Solves(g, k)}
<1>1. SUFFICES ASSUME Unsolved # {} PROVE FALSE
  OBVIOUS
<1>2. PICK m \in Unsolved : \A k \in Unsolved : m <= k
  BY <1>1, LeastElement
<1>3. CASE m = 0
  <2> DEFINE g == [i \in 0..0 |-> saved]
  <2>1. Solves(g, 0)
    OBVIOUS
  <2> QED BY <1>2, <1>3, <2>1
<1>4. CASE m # 0
  <2>1. m - 1 \in Nat /\ m - 1 \notin Unsolved
    <3>1. m \in Nat
      OBVIOUS
    <3> HIDE DEF Unsolved
    <3> QED BY <1>2, <1>4, <3>1
  <2>2. PICK g : Solves(g, m - 1)
    BY <2>1
  <2> DEFINE h == [i \in 0..m |-> IF i = m THEN Stored(g[m - 1], connections_array[m]) ELSE g[i]]
  <2>3. \A i \in 0..m : i # m => i \in 0..(m - 1)
    BY <1>2
  <2>4. \A i \in 0..(m - 1) : g[i] = IF i = 0 THEN saved ELSE Stored(g[i - 1], connections_array[i])
    BY <2>2
  <2>5. \A i \in 0..m : i # 0 => i - 1 \in 0..m /\ i - 1 # m
    BY <1>2
  <2>6. \A i \in 0..m : i # 0 => h[i - 1] = g[i - 1]
    BY <2>5
  <2>7. \A i \in 0..m : h[i] = IF i = 0 THEN saved ELSE Stored(h[i - 1], connections_array[i])
    BY <1>4, <2>3, <2>4, <2>6
  <2>8. Solves(h, m)
    BY <2>7
  <2> QED BY <1>2, <2>8
<1> QED BY <1>3, <1>4

\* Whatever the single stores keep, the whole save keeps.
LEMMA SaveKeeps ==
  ASSUME NEW X, bonded_count \in Nat, saved \in X,
         \A s \in X : \A i \in 1..bonded_count : Stored(s, connections_array[i]) \in X
  PROVE  StoredTo[bonded_count] \in X
<1>1. StoredTo = [i \in 0..bonded_count |-> IF i = 0 THEN saved
                    ELSE Stored(StoredTo[i - 1], connections_array[i])]
  BY StoredToExists DEF StoredTo
<1> DEFINE Out == {i \in 0..bonded_count : StoredTo[i] \notin X}
<1>2. SUFFICES ASSUME Out # {} PROVE FALSE
  OBVIOUS
<1>3. Out \in SUBSET Nat
  OBVIOUS
<1>4. PICK m \in Out : \A k \in Out : m <= k
  BY <1>2, <1>3, LeastElement
<1>5. m # 0
  BY <1>1, <1>4
<1>6. m - 1 \in 0..bonded_count /\ m - 1 \notin Out /\ m \in 1..bonded_count
  BY <1>4, <1>5
<1>7. StoredTo[m] = Stored(StoredTo[m - 1], connections_array[m])
  BY <1>1, <1>4, <1>5
<1> QED BY <1>4, <1>6, <1>7

-----------------------------------------------------------------------------
(* The inductive invariant.                                                 *)

\* Where the monitor task goes on when the routine it is in has returned.
Goal == IF monitor \in {"leach", "empty"} THEN after ELSE monitor
Loads == {"load", "resume"} \union SlotSet

\* Where the monitor task can be in each state, and when an enrolment is open.
Points ==
  /\ monitor \notin {"leach", "empty"} => after = "loop"
  /\ monitor = "leach" => after \in {"loop", "report", "rearm", "unbond", "armed", "refresh"}
  /\ monitor = "empty" => after \in {"garage", "closing", "load"}
  /\ monitor \in {"garage", "closing"} \union Loads => need_refresh_scan_filter
  /\ Goal = "garage" => security_state = "DISARMED"
  /\ Goal = "enrol" => security_state = "GARAGE"
  /\ Goal \in {"rearm", "refresh"} \union Loads => security_state = "ARMED"
  /\ Goal = "report" => security_state # "GARAGE"
  /\ Goal = "armed" /\ security_state = "GARAGE" => ~in_bonding_state
  /\ afterStudy /\ ~interrupted => /\ security_state = "GARAGE" /\ in_bonding_state
                                   /\ Goal \in {"loop", "enrol", "save"}

\* A link is left for the connection that is being made.
LinkLeft == connecting # NoDevice => Free # {}

Named(info) == info.addr \in Devices /\ info.conn_handler # NoHandle

\* What is about to be verified, or is being verified, is a device with a handle.
NewsIsNamed ==
  /\ 1 \in event_ble_connection_changed \/ ble = "settle" => Named(current_conn_info)
  /\ ble \in {"verify", "recognise", "accept"} => Named(peripheral_info)

InGarage == security_state = "GARAGE" \/ monitor = "garage"
Closing == monitor = "empty" /\ after = "closing"

\* What the search found still holds when the entry is written.
Chosen ==
  /\ ble = "recognise" /\ (InGarage \/ ~app_session)
       => index \in Bonded /\ connections_array[index].addr = peripheral_info.addr
  /\ ble = "accept" /\ InGarage
       => /\ index = bonded_count + 1 /\ peripheral_info.addr \notin Listed
          /\ in_bonding_state \/ Closing

\* The list in garage mode.
GarageList ==
  InGarage =>
    /\ \A i, j \in Bonded : connections_array[i].addr = connections_array[j].addr => i = j
    /\ \A i \in Bonded : connections_array[i].conn_handler # NoHandle
    /\ Listed = enrolled

\* The list is the roster unless somebody has noted that it is not.
ListFollows ==
  /\ need_refresh_scan_filter /\ Goal \in {"loop", "report", "rearm"}
       => security_state = "GARAGE" \/ interrupted
  /\ ~interrupted /\ ~app_session /\ ~need_refresh_scan_filter
       /\ Goal # "unbond" /\ ~Closing /\ (security_state = "GARAGE" => ~in_bonding_state)
       => Listed = SavedDevices

SlotsTo(i) == {saved[Slots[j]] : j \in 1..i} \ {NoDevice}

\* While it is loaded it holds the slots before the one that is next.
Loading ==
  ~app_session =>
    /\ \A k \in 1..4 : monitor = Slots[k] =>
         saved[Slots[k]] # NoDevice /\ Listed = SlotsTo(k - 1)
    /\ monitor = "resume" => Listed = SavedDevices

ListInv == Chosen /\ GarageList /\ ListFollows /\ Loading

IInv == /\ TypeOK /\ SavedDistinct /\ Points /\ LinkLeft /\ NewsIsNamed /\ ScanPending
        /\ raced \/ ListInv

-----------------------------------------------------------------------------
(* Types.                                                                   *)

LEMMA FreeHandle ==
  ASSUME Free # {}
  PROVE  Min(Free) \in Free
<1>1. Free \in SUBSET Nat
  BY ConnectionsAssumption DEF ConnectionsAssumption, Free, Handles
<1> QED BY <1>1, MinIsIn

LEMMA RecognisedIndex ==
  ASSUME TypeOK, NEW d, Recognised(d) # {}
  PROVE  /\ Min(Recognised(d)) \in Bonded /\ Min(Recognised(d)) \in 1..MAX_CONNECTIONS
         /\ connections_array[Min(Recognised(d))].addr = d
<1>1. bonded_count \in Nat /\ bonded_count <= MAX_CONNECTIONS /\ MAX_CONNECTIONS \in Nat
  BY ConnectionsAssumption DEF TypeOK, ConnectionsAssumption
<1>2. Recognised(d) \in SUBSET Nat
  BY <1>1 DEF Recognised, Bonded
<1>3. Min(Recognised(d)) \in Recognised(d)
  BY <1>2, MinIsIn
<1> QED BY <1>1, <1>3 DEF Recognised, Bonded

LEMMA SetLeachStateType ==
  ASSUME TypeOK, NEW available, SetLeachState(available)
  PROVE  {in_bonding_state', scanning', forced_stop_scan', use_mac_address_filter',
          stopScanDone'} \subseteq BOOLEAN
BY DEF SetLeachState, AppScan, StopAppScan, scan, TypeOK

LEMMA BootedType ==
  ASSUME NEW s \in RosterType, NEW state \in {"ARMED", "DISARMED", "GARAGE"},
         TypeOK, Booted(s, state)
  PROVE  TypeOK'
<1>1. Loaded(s) \in ArrayType /\ Len(Filled(s)) \in 0..MAX_CONNECTIONS
  BY LoadedIs
<1>2. /\ saved' \in [Range(Slots) -> Devices \union {NoDevice}]
      /\ connections_array' \in [1..MAX_CONNECTIONS -> Infos]
      /\ bonded_count' \in 0..MAX_CONNECTIONS
  BY <1>1, SlotsAre DEF Booted, ArrayType, RosterType
<1>3. {in_bonding_state', afterStudy', enablePairing', need_refresh_scan_filter',
       connection_list_semaphore', scanning', forced_stop_scan',
       use_mac_address_filter', stopScanDone', app_session', interrupted',
       raced'} \subseteq BOOLEAN
  BY DEF Booted
<1>4. /\ connecting' \in Devices \union {NoDevice}
      /\ link' \in [Handles -> Devices \union {NoDevice}] /\ unread' \subseteq Handles
      /\ {current_conn_info', peripheral_info'} \subseteq Infos
      /\ leachfound' \in 0..1 /\ event_ble_connection_changed' \subseteq 1..2
      /\ index' \in 0..MAX_CONNECTIONS
      /\ ble' = "wait" /\ monitor' = "loop" /\ after' = "loop"
      /\ security_state' \in {"ARMED", "DISARMED", "GARAGE"}
      /\ enrolled' \subseteq Devices
      /\ sessions' \in 0..MAX_SESSIONS
  BY NothingType, ConnectionsAssumption DEF Booted, TypeOK, ConnectionsAssumption
<1> QED BY <1>2, <1>3, <1>4 DEF TypeOK

\* The saved roster: typed, distinct, and made of what was saved and listed.
LEMMA SaveIs ==
  ASSUME TypeOK, SavedDistinct, NEW D,
         DevicesOf(saved) \subseteq D,
         \A i \in Bonded : connections_array[i].conn_handler # NoHandle =>
                           connections_array[i].addr \in D
  PROVE  StoredTo[bonded_count] \in {s \in RosterType : Distinct(s) /\ DevicesOf(s) \subseteq D}
<1> DEFINE X == {s \in RosterType : Distinct(s) /\ DevicesOf(s) \subseteq D}
<1>1. saved \in X
  BY SlotsAre DEF TypeOK, SavedDistinct, RosterType, Distinct
<1>2. ASSUME NEW s \in X, NEW i \in Bonded
      PROVE  Stored(s, connections_array[i]) \in X
  <2>1. connections_array[i] \in Infos
    BY ConnectionsAssumption DEF TypeOK, Bonded, ConnectionsAssumption
  <2> QED BY <1>2, <2>1, StoredIs
<1>3. bonded_count \in Nat
  BY DEF TypeOK
<1> QED BY <1>1, <1>2, <1>3, SaveKeeps DEF Bonded

LEMMA SaveType ==
  ASSUME TypeOK, SavedDistinct
  PROVE  StoredTo[bonded_count] \in [Range(Slots) -> Devices \union {NoDevice}]
<1>1. \A i \in Bonded : connections_array[i].addr \in Devices \union {NoDevice}
  BY ConnectionsAssumption DEF TypeOK, Bonded, Infos, ConnectionsAssumption
<1>2. DevicesOf(saved) \subseteq Devices \union {NoDevice}
  BY SlotsAre DEF TypeOK, DevicesOf
<1> QED BY <1>1, <1>2, SaveIs, SlotsAre DEF RosterType

\* The slot after the first i ones is the next one in use.
LEMMA SlotAfterIs ==
  ASSUME NEW i \in 0..4
  PROVE  \/ /\ SlotAfter(i) = "resume"
            /\ \A j \in 1..4 : j > i => saved[Slots[j]] = NoDevice
         \/ \E k \in 1..4 :
              /\ k > i /\ SlotAfter(i) = Slots[k] /\ saved[Slots[k]] # NoDevice
              /\ \A j \in 1..4 : j > i /\ j < k => saved[Slots[j]] = NoDevice
<1> DEFINE used == {j \in 1..4 : j > i /\ saved[Slots[j]] # NoDevice}
<1>1. CASE used = {}
  BY <1>1 DEF SlotAfter
<1>2. CASE used # {}
  <2>1. Min(used) \in used /\ \A j \in used : Min(used) <= j
    BY <1>2, MinIsIn, MinIsLeast
  <2> DEFINE k == Min(used)
  <2>2. SlotAfter(i) = Slots[k]
    BY <1>2 DEF SlotAfter
  <2> HIDE DEF k
  <2>3. k \in used /\ \A j \in used : k <= j
    BY <2>1 DEF k
  <2> QED BY <2>2, <2>3
<1> QED BY <1>1, <1>2

LEMMA SlotAfterType ==
  ASSUME NEW i \in 0..4
  PROVE  SlotAfter(i) \in {"resume"} \union SlotSet
<1>1. \A j \in 1..4 : Slots[j] \in SlotSet
  BY DEF Slots, SlotSet
<1> QED BY <1>1, SlotAfterIs

\* The number of a slot.
LEMMA SlotNumber ==
  ASSUME NEW slot \in SlotSet
  PROVE  /\ (CHOOSE i \in 1..4 : Slots[i] = slot) \in 1..4
         /\ Slots[CHOOSE i \in 1..4 : Slots[i] = slot] = slot
<1>1. \E i \in 1..4 : Slots[i] = slot
  BY DEF Slots, SlotSet
<1> QED BY <1>1

\* An entry is written with the copy that was verified.
LEMMA WrittenType ==
  ASSUME TypeOK, Written
  PROVE  connections_array' \in [1..MAX_CONNECTIONS -> Infos]
<1>1. [peripheral_info EXCEPT !.is_connected = TRUE] \in Infos
  BY DEF TypeOK, Infos
<1> QED BY <1>1 DEF TypeOK, Written

\* A slot is loaded into the entry behind the last, and the next one follows.
LEMMA LoadSlotIs ==
  ASSUME TypeOK, LoadSlot
  PROVE  /\ SlotIndex(monitor) \in 1..MAX_CONNECTIONS
         /\ monitor \in SlotSet /\ monitor' \in {"resume"} \union SlotSet
         /\ connections_array' \in [1..MAX_CONNECTIONS -> Infos]
         /\ \A i \in 1..MAX_CONNECTIONS : connections_array'[i].addr =
              IF i = SlotIndex(monitor) THEN saved[monitor] ELSE connections_array[i].addr
<1> DEFINE x == SlotIndex(monitor)
           e == [[connections_array[x] EXCEPT !.addr = saved[monitor]]
                   EXCEPT !.type = TypeOfSlot(monitor)]
           k == CHOOSE i \in 1..4 : Slots[i] = monitor
<1>1. monitor \in SlotSet /\ bonded_count < MAX_CONNECTIONS
  BY SlotsAre DEF LoadSlot
<1>2. x \in 1..MAX_CONNECTIONS
  BY <1>1, ConnectionsAssumption DEF TypeOK, SlotIndex, ConnectionsAssumption
<1>3. connections_array' = [connections_array EXCEPT ![x].addr = saved[monitor],
                                                     ![x].type = TypeOfSlot(monitor)]
  BY DEF LoadSlot
<1>4. saved[monitor] \in Devices \union {NoDevice} /\ TypeOfSlot(monitor) \in Types
  BY <1>1, SlotsAre DEF TypeOK, TypeOfSlot, Types
<1>5. k \in 1..4 /\ monitor' = SlotAfter(k)
  BY <1>1, SlotNumber DEF LoadSlot
<1> HIDE DEF x, k
<1>6. connections_array = [i \in 1..MAX_CONNECTIONS |-> connections_array[i]]
      /\ \A i \in 1..MAX_CONNECTIONS : connections_array[i] \in Infos
  BY DEF TypeOK
<1>7. connections_array' = [i \in 1..MAX_CONNECTIONS |->
                              IF i = x THEN e ELSE connections_array[i]]
  BY <1>2, <1>3, <1>6
<1>8. e \in Infos /\ e.addr = saved[monitor]
  BY <1>2, <1>4, <1>6 DEF Infos
<1> HIDE DEF e
<1>9. k \in 0..4
  BY <1>5
<1>10. monitor' \in {"resume"} \union SlotSet
  BY <1>5, <1>9, SlotAfterType
<1> QED BY <1>1, <1>2, <1>6, <1>7, <1>8, <1>10 DEF x

LEMMA NewIndexType ==
  ASSUME TypeOK
  PROVE  NewIndex \in Nat \ {0}
<1> DEFINE S == {i \in Bonded : connections_array[i].conn_handler # NoHandle}
<1>1. bonded_count \in Nat
  BY DEF TypeOK
<1>2. IsFiniteSet(S)
  BY <1>1, IntervalCardinality, FS_Subset DEF Bonded
<1>3. Cardinality(S) \in Nat
  BY <1>2, FS_CardinalityType
<1> HIDE DEF S
<1>4. Cardinality(S) + 1 \in Nat \ {0}
  BY <1>3
<1> QED BY <1>4 DEF NewIndex, S

SoftDeviceStep == \/ \E d \in Devices : Match(d)
                  \/ Connected
                  \/ \E h \in Handles : Discover(h) \/ Drop(h)
BleStep == \/ Wait \/ StartVerify \/ Find \/ Recognise \/ Accept \/ Unlock \/ Announce
           \/ RemovePeripheral \/ ClearBits \/ ResumeScan \/ EnablePairing
MonitorStep == \/ Log \/ Report \/ KeepAlive \/ Disarm \/ RemoteArm \/ ClearApp
               \/ EnterGarage \/ EmptyList \/ OpenGarage \/ StartEnrolment \/ ActivateBonding
               \/ SaveBondings \/ SaveRoster \/ EndBonding \/ Rearm \/ Refresh
               \/ ResetList \/ LoadSlot \/ Reloaded
Boots == \E s \in {saved, NoSlots}, state \in {"ARMED", "DISARMED", "GARAGE"} :
           /\ Booted(s, state)
           /\ state = "GARAGE" => s = NoSlots

LEMMA SoftDeviceType ==
  ASSUME TypeOK, LinkLeft, SoftDeviceStep
  PROVE  TypeOK'
<1> USE DEF list, bonding, scan, task, point, security, history
<1>1. ASSUME NEW d \in Devices, Match(d) PROVE TypeOK'
  <2>1. sessions' \in 0..MAX_SESSIONS
    BY <1>1, ConnectionsAssumption DEF Match, TypeOK, ConnectionsAssumption
  <2> QED BY <1>1, <2>1 DEF Match, TypeOK
<1>2. CASE Connected
  <2>1. Min(Free) \in Handles
    BY <1>2, FreeHandle DEF Connected, Free, LinkLeft
  <2>2. Info(connecting, "NEW", Min(Free), FALSE) \in Infos
    BY <2>1, InfoType DEF Types, TypeOK
  <2> DEFINE h == Min(Free)
  <2>3. /\ link' = [link EXCEPT ![h] = connecting] /\ unread' = unread \union {h}
        /\ current_conn_info' = Info(connecting, "NEW", h, FALSE)
        /\ event_ble_connection_changed' = event_ble_connection_changed \union {1}
    BY <1>2 DEF Connected
  <2> HIDE DEF h
  <2>6. h \in Handles /\ Info(connecting, "NEW", h, FALSE) \in Infos
    BY <2>1, <2>2 DEF h
  <2>4. /\ link' \in [Handles -> Devices \union {NoDevice}]
        /\ unread' \subseteq Handles /\ current_conn_info' \in Infos
        /\ event_ble_connection_changed' \subseteq 1..2
    <3>1. /\ link \in [Handles -> Devices \union {NoDevice}] /\ unread \subseteq Handles
          /\ connecting \in Devices \union {NoDevice} /\ event_ble_connection_changed \subseteq 1..2
      BY DEF TypeOK
    <3>2. link' \in [Handles -> Devices \union {NoDevice}]
      BY <2>6, <2>3, <3>1
    <3>3. unread' \subseteq Handles /\ current_conn_info' \in Infos
      BY <2>6, <2>3, <3>1
    <3>4. event_ble_connection_changed' \subseteq 1..2
      BY <2>3, <3>1
    <3> QED BY <3>2, <3>3, <3>4
  <2> HIDE DEF list, bonding, scan, task, point, security, history
  <2>5. UNCHANGED <<saved, list, bonding, enablePairing, need_refresh_scan_filter,
                 connection_list_semaphore, scan, leachfound, sessions, task, point,
                 security, history>> /\ connecting' = NoDevice
    BY <1>2 DEF Connected
  <2> QED BY <2>4, <2>5 DEF TypeOK, list, bonding, scan, task, point, security, history
<1>3. ASSUME NEW h \in Handles, Discover(h) PROVE TypeOK'
  BY <1>3 DEF Discover, TypeOK, TypeOfDevice, Infos, Types
<1>4. ASSUME NEW h \in Handles, Drop(h) PROVE TypeOK'
  BY <1>4 DEF Drop, TypeOK, Infos
<1> QED BY <1>1, <1>2, <1>3, <1>4 DEF SoftDeviceStep

LEMMA BleType ==
  ASSUME TypeOK, NewsIsNamed, BleStep
  PROVE  TypeOK'
<1> USE DEF list, bonding, scan, radio, task, point, security, history
<1>1. CASE Wait
  BY <1>1 DEF Wait, TypeOK
<1>2. CASE StartVerify
  BY <1>2 DEF StartVerify, TypeOK
<1>3. CASE Find
  <2>1. index' \in 0..MAX_CONNECTIONS
    <3>1. Recognised(peripheral_info.addr) # {} =>
            Min(Recognised(peripheral_info.addr)) \in 0..MAX_CONNECTIONS
      BY RecognisedIndex, ConnectionsAssumption DEF ConnectionsAssumption
    <3>2. NewIndex <= MAX_CONNECTIONS => NewIndex \in 0..MAX_CONNECTIONS
      BY NewIndexType, ConnectionsAssumption DEF ConnectionsAssumption
    <3> QED BY <1>3, <3>1, <3>2 DEF Find, TypeOK
  <2>2. peripheral_info' \in Infos
    BY <1>3 DEF Find, TypeOK, Infos, Types
  <2>3. ble' \in {"recognise", "accept", "unlock"}
    BY <1>3 DEF Find
  <2> QED BY <1>3, <2>1, <2>2, <2>3 DEF Find, TypeOK
<1>4. CASE Recognise
  BY <1>4, WrittenType DEF Recognise, TypeOK
<1>5. CASE Accept
  <2>1. bonded_count' \in 0..MAX_CONNECTIONS
    BY <1>5, ConnectionsAssumption DEF Accept, TypeOK, ConnectionsAssumption
  <2>2. /\ enrolled' \subseteq Devices /\ app_session' \in BOOLEAN
        /\ interrupted' \in BOOLEAN /\ raced' \in BOOLEAN
    BY <1>5 DEF Accept, Noted, NewsIsNamed, Named, TypeOK
  <2> QED BY <1>5, <2>1, <2>2, WrittenType DEF Accept, TypeOK
<1>6. CASE Unlock
  BY <1>6, NothingType, ConnectionsAssumption DEF Unlock, TypeOK, ConnectionsAssumption
<1>7. CASE Announce
  BY <1>7, SetLeachStateType DEF Announce, TypeOK
<1>8. CASE RemovePeripheral
  <2>1. connections_array' \in [1..MAX_CONNECTIONS -> Infos]
    BY <1>8 DEF RemovePeripheral, TypeOK, Infos
  <2> QED BY <1>8, <2>1 DEF RemovePeripheral, TypeOK
<1>9. CASE ClearBits
  BY <1>9 DEF ClearBits, TypeOK
<1>10. CASE ResumeScan
  BY <1>10 DEF ResumeScan, TypeOK
<1>11. CASE EnablePairing
  BY <1>11 DEF EnablePairing, TypeOK
<1> QED BY <1>1, <1>2, <1>3, <1>4, <1>5, <1>6, <1>7, <1>8, <1>9, <1>10, <1>11
       DEF BleStep

LEMMA MonitorType ==
  ASSUME TypeOK, SavedDistinct, MonitorStep
  PROVE  TypeOK'
<1> USE DEF list, bonding, scan, radio, task, point, security, history
<1>1. CASE Log \/ Report
  BY <1>1 DEF Log, Report, SendLog, TypeOK
<1>2. CASE KeepAlive
  BY <1>2, SetLeachStateType DEF KeepAlive, Return, TypeOK
<1>3. CASE Disarm \/ RemoteArm
  <2>1. interrupted' \in BOOLEAN
    BY <1>3 DEF Disarm, RemoteArm
  <2> QED BY <1>3, <2>1 DEF Disarm, RemoteArm, ChangeSecurityState, TypeOK
<1>4. CASE ClearApp
  <2>1. 0 \in Handles
    BY ConnectionsAssumption DEF ConnectionsAssumption, Handles
  <2>2. Info(NoDevice, "UNKNOWN", 0, FALSE) \in Infos
    BY <2>1, InfoType DEF Types
  <2> QED BY <1>4, <2>2 DEF ClearApp, ChangeSecurityState, TypeOK
<1>5. CASE EnterGarage \/ OpenGarage \/ StartEnrolment
  BY <1>5 DEF EnterGarage, OpenGarage, StartEnrolment, ChangeSecurityState, TypeOK
<1>6. CASE EmptyList
  <2>1. raced' \in BOOLEAN
    BY <1>6 DEF EmptyList
  <2> QED BY <1>6, <2>1, ConnectionsAssumption
          DEF EmptyList, Return, TypeOK, ConnectionsAssumption
<1>7. CASE ActivateBonding
  BY <1>7 DEF ActivateBonding, Return, TypeOK
<1>8. CASE SaveBondings
  BY <1>8 DEF SaveBondings, TypeOK
<1>9. CASE SaveRoster
  <2>1. saved' \in [Range(Slots) -> Devices \union {NoDevice}] /\ afterStudy' \in BOOLEAN
    BY <1>9, SaveType DEF SaveRoster, SaveList, TypeOK
  <2> QED BY <1>9, <2>1 DEF SaveRoster, TypeOK
<1>10. CASE EndBonding
  BY <1>10 DEF EndBonding, TypeOK
<1>11. CASE Rearm \/ Refresh
  BY <1>11 DEF Rearm, Refresh, ChangeSecurityState, TypeOK
<1>12. CASE ResetList
  <2>1. \A i \in 1..MAX_CONNECTIONS : ResetEntry(connections_array[i]) \in Infos
    BY DEF ResetEntry, Info, Infos, Types, TypeOK
  <2>2. monitor' \in {"resume"} \union Range(Slots)
    BY <1>12, SlotAfterType, SlotsAre DEF ResetList
  <2>3. connections_array' \in [1..MAX_CONNECTIONS -> Infos]
    BY <1>12, <2>1 DEF ResetList
  <2>4. raced' \in BOOLEAN /\ bonded_count' \in 0..MAX_CONNECTIONS
    BY <1>12, ConnectionsAssumption DEF ResetList, ConnectionsAssumption
  <2> QED BY <1>12, <2>2, <2>3, <2>4 DEF ResetList, TypeOK
<1>13. CASE LoadSlot
  <2>1. connections_array' \in [1..MAX_CONNECTIONS -> Infos]
    BY <1>13, LoadSlotIs
  <2>2. monitor' \in {"resume"} \union Range(Slots)
    BY <1>13, LoadSlotIs, SlotsAre
  <2>3. bonded_count' \in 0..MAX_CONNECTIONS
    BY <1>13, ConnectionsAssumption DEF LoadSlot, TypeOK, ConnectionsAssumption
  <2>4. raced' \in BOOLEAN
    BY <1>13 DEF LoadSlot
  <2> QED BY <1>13, <2>1, <2>2, <2>3, <2>4 DEF LoadSlot, TypeOK
<1>14. CASE Reloaded
  <2>1. interrupted' \in BOOLEAN
    BY <1>14 DEF Reloaded
  <2> QED BY <1>14, <2>1 DEF Reloaded, SendLog, TypeOK
<1> QED BY <1>1, <1>2, <1>3, <1>4, <1>5, <1>6, <1>7, <1>8, <1>9, <1>10, <1>11, <1>12, <1>13, <1>14
       DEF MonitorStep

LEMMA Parties ==
  ASSUME [Next]_vars
  PROVE  SoftDeviceStep \/ BleStep \/ MonitorStep \/ Boots \/ UNCHANGED vars
BY DEF Next, SoftDeviceStep, BleStep, MonitorStep, Boots, Restart, EraseBondings

LEMMA TypeStep ==
  ASSUME IInv, [Next]_vars
  PROVE  TypeOK'
<1>1. CASE SoftDeviceStep
  BY <1>1, SoftDeviceType DEF IInv
<1>2. CASE BleStep
  BY <1>2, BleType DEF IInv
<1>3. CASE MonitorStep
  BY <1>3, MonitorType DEF IInv
<1>4. CASE Boots
  <2>1. saved \in RosterType
    BY SlotsAre DEF IInv, TypeOK, RosterType
  <2> QED BY <1>4, <2>1, BootedType, NothingType DEF Boots, IInv
<1>5. CASE UNCHANGED vars
  BY <1>5 DEF vars, IInv, TypeOK, list, bonding, scan, radio, task, point, security, history
<1> QED BY <1>1, <1>2, <1>3, <1>4, <1>5, Parties

-----------------------------------------------------------------------------
(* What the parties leave alone.                                            *)

LEMMA SoftDeviceFrame ==
  ASSUME SoftDeviceStep
  PROVE  UNCHANGED <<saved, connections_array, bonded_count, in_bonding_state, afterStudy,
                     need_refresh_scan_filter, forced_stop_scan, monitor, after,
                     security_state, enrolled, app_session, interrupted, raced, ble,
                     peripheral_info, index>>
BY DEF SoftDeviceStep, Match, Connected, Discover, Drop, list, bonding, scan, task, point,
       security, history

LEMMA MonitorFrame ==
  ASSUME MonitorStep
  PROVE  UNCHANGED <<connecting, link, current_conn_info, event_ble_connection_changed, ble,
                     peripheral_info, index>>
BY DEF MonitorStep, Log, Report, KeepAlive, Disarm, RemoteArm, ClearApp, EnterGarage,
       EmptyList, OpenGarage, StartEnrolment, ActivateBonding, SaveBondings, SaveRoster,
       EndBonding, Rearm, Refresh, ResetList, LoadSlot, Reloaded, radio, task

\* The steps of the BLE task change the list and the scan, no state.
LEMMA BleFrame ==
  ASSUME BleStep
  PROVE  UNCHANGED <<saved, afterStudy, need_refresh_scan_filter, monitor, after,
                     security_state, interrupted, raced, connecting, link,
                     current_conn_info>>
BY DEF BleStep, Wait, StartVerify, Find, Recognise, Accept, Noted, Unlock, Announce,
       RemovePeripheral, ClearBits, ResumeScan, EnablePairing, bonding, scan, radio, task,
       point, security, history

LEMMA SetLeachStateIs ==
  ASSUME NEW available, SetLeachState(available)
  PROVE  /\ security_state = "GARAGE"
              => UNCHANGED <<in_bonding_state, scanning, forced_stop_scan>>
         /\ scanning' \/ forced_stop_scan' \/ UNCHANGED <<scanning, forced_stop_scan>>
BY DEF SetLeachState, AppScan, StopAppScan, scan

\* In garage mode the BLE task leaves the flag of key 4 alone.
LEMMA BleBonding ==
  ASSUME BleStep
  PROVE  ~Announce \/ security_state = "GARAGE" => in_bonding_state' = in_bonding_state
<1>1. CASE Announce
  BY <1>1, SetLeachStateIs DEF Announce
<1>2. CASE ~Announce
  BY <1>2 DEF BleStep, Wait, StartVerify, Find, Recognise, Accept, Unlock,
       RemovePeripheral, ClearBits, ResumeScan, EnablePairing, bonding
<1> QED BY <1>1, <1>2

-----------------------------------------------------------------------------
LEMMA LinkStep ==
  ASSUME IInv, [Next]_vars
  PROVE  LinkLeft'
<1> USE DEF LinkLeft, Free
<1>1. LinkLeft /\ TypeOK
  BY DEF IInv
<1>2. ASSUME NEW d \in Devices, Match(d) PROVE LinkLeft'
  BY <1>1, <1>2 DEF Match
<1>3. CASE Connected
  BY <1>3 DEF Connected
<1>4. ASSUME NEW h \in Handles, Discover(h) PROVE LinkLeft'
  BY <1>1, <1>4 DEF Discover
<1>5. ASSUME NEW h \in Handles, Drop(h) PROVE LinkLeft'
  <2>1. link'[h] = NoDevice
    BY <1>1, <1>5 DEF Drop, TypeOK
  <2> QED BY <2>1
<1>6. CASE BleStep
  BY <1>1, <1>6, BleFrame
<1>7. CASE MonitorStep
  BY <1>1, <1>7, MonitorFrame
<1>8. CASE Boots
  BY <1>8 DEF Boots, Booted
<1>9. CASE UNCHANGED vars
  BY <1>1, <1>9 DEF vars, radio
<1> QED BY <1>2, <1>3, <1>4, <1>5, <1>6, <1>7, <1>8, <1>9, Parties DEF SoftDeviceStep

LEMMA NewsStep ==
  ASSUME IInv, [Next]_vars
  PROVE  NewsIsNamed'
<1> USE DEF NewsIsNamed, Named
<1>1. NewsIsNamed /\ TypeOK /\ LinkLeft
  BY DEF IInv
<1>2. CASE SoftDeviceStep
  <2>1. ASSUME NEW d \in Devices, Match(d) PROVE NewsIsNamed'
    BY <1>1, <2>1 DEF Match, task
  <2>2. CASE Connected
    <3>1. Min(Free) # NoHandle
      BY <1>1, <2>2, FreeHandle, ConnectionsAssumption
      DEF Connected, LinkLeft, Free, Handles, NoHandle, ConnectionsAssumption
    <3>2. current_conn_info' = Info(connecting, "NEW", Min(Free), FALSE)
      BY <2>2 DEF Connected
    <3>3. Named(current_conn_info')
      BY <1>1, <2>2, <3>1, <3>2 DEF Connected, Info, TypeOK
    <3> QED BY <1>1, <1>2, <3>3, SoftDeviceFrame
  <2>3. ASSUME NEW h \in Handles, Discover(h) PROVE NewsIsNamed'
    BY <1>1, <1>2, <2>3, SoftDeviceFrame DEF Discover, TypeOK, Infos
  <2>4. ASSUME NEW h \in Handles, Drop(h) PROVE NewsIsNamed'
    <3>1. h # NoHandle
      BY ConnectionsAssumption DEF Handles, NoHandle, ConnectionsAssumption
    <3> QED BY <1>1, <1>2, <2>4, <3>1, SoftDeviceFrame DEF Drop, TypeOK, Infos
  <2> QED BY <1>2, <2>1, <2>2, <2>3, <2>4 DEF SoftDeviceStep
<1>3. CASE BleStep
  <2>1. CASE Wait \/ StartVerify
    BY <1>1, <2>1 DEF Wait, StartVerify, radio
  <2>2. CASE Find
    BY <1>1, <2>2 DEF Find, radio, TypeOK, Infos
  <2>3. CASE Recognise \/ Accept \/ Unlock \/ Announce \/ RemovePeripheral \/ ClearBits
             \/ ResumeScan \/ EnablePairing
    BY <1>1, <2>3 DEF Recognise, Accept, Unlock, Announce, RemovePeripheral, ClearBits,
                      ResumeScan, EnablePairing, radio, task
  <2> QED BY <1>3, <2>1, <2>2, <2>3 DEF BleStep
<1>4. CASE MonitorStep
  BY <1>1, <1>4, MonitorFrame
<1>5. CASE Boots
  BY <1>5 DEF Boots, Booted
<1>6. CASE UNCHANGED vars
  BY <1>1, <1>6 DEF vars, radio, task
<1> QED BY <1>2, <1>3, <1>4, <1>5, <1>6, Parties

LEMMA ScanStep ==
  ASSUME IInv, [Next]_vars
  PROVE  ScanPending'
<1> USE DEF ScanPending
<1>1. ScanPending /\ TypeOK
  BY DEF IInv
<1>2. CASE SoftDeviceStep
  <2>1. ASSUME NEW d \in Devices, Match(d) PROVE ScanPending'
    <3>1. Free' = Free
      BY <2>1 DEF Match, Free
    <3>2. d # NoDevice
      BY ConnectionsAssumption DEF ConnectionsAssumption
    <3> QED BY <1>1, <2>1, <3>1, <3>2 DEF Match
  <2>2. CASE Connected
    BY <2>2 DEF Connected
  <2>3. ASSUME NEW h \in Handles, Discover(h) PROVE ScanPending'
    <3>1. Free' = Free
      BY <2>3 DEF Discover, Free
    <3> QED BY <1>1, <2>3, <3>1 DEF Discover, scan, task
  <2>4. ASSUME NEW h \in Handles, Drop(h) PROVE ScanPending'
    BY <2>4 DEF Drop
  <2> QED BY <1>2, <2>1, <2>2, <2>3, <2>4 DEF SoftDeviceStep
<1>3. CASE BleStep
  <2>1. CASE Wait \/ StartVerify \/ Find \/ Recognise \/ Accept \/ Unlock \/ Announce
             \/ RemovePeripheral
    BY <2>1 DEF Wait, StartVerify, Find, Recognise, Accept, Unlock, Announce, RemovePeripheral
  <2>2. CASE ClearBits
    BY <2>2 DEF ClearBits, scan
  <2>3. CASE ResumeScan
    BY <2>3 DEF ResumeScan
  <2>4. CASE EnablePairing
    BY <1>1, <2>4 DEF EnablePairing, scan, radio, task, Free
  <2> QED BY <1>3, <2>1, <2>2, <2>3, <2>4 DEF BleStep
<1>4. CASE MonitorStep
  <2>1. scanning' \/ forced_stop_scan' \/ UNCHANGED <<scanning, forced_stop_scan>>
    <3>1. CASE KeepAlive
      BY <3>1, SetLeachStateIs DEF KeepAlive
    <3>2. CASE ~KeepAlive
      BY <1>4, <3>2 DEF MonitorStep, Log, Report, Disarm, RemoteArm, ClearApp,
        EnterGarage, EmptyList, OpenGarage, StartEnrolment, ActivateBonding, SaveBondings,
        SaveRoster, EndBonding, Rearm, Refresh, ResetList, LoadSlot, Reloaded, scan
    <3> QED BY <3>1, <3>2
  <2>2. UNCHANGED <<event_ble_connection_changed, ble, connecting, Free>>
    BY <1>4, MonitorFrame DEF Free
  <2> QED BY <1>1, <2>1, <2>2
<1>5. CASE Boots
  BY <1>5 DEF Boots, Booted
<1>6. CASE UNCHANGED vars
  BY <1>1, <1>6 DEF vars, scan, radio, task, Free
<1> QED BY <1>2, <1>3, <1>4, <1>5, <1>6, Parties

\* Only save_bondings writes the roster, and EraseBondings.
LEMMA RosterKept ==
  ASSUME [Next]_vars, ~(SaveRoster /\ afterStudy), ~Boots
  PROVE  saved' = saved
<1>1. CASE SoftDeviceStep \/ BleStep
  BY <1>1, SoftDeviceFrame, BleFrame
<1>2. CASE MonitorStep
  BY <1>2 DEF MonitorStep, Log, Report, KeepAlive, Disarm, RemoteArm, ClearApp, EnterGarage,
        EmptyList, OpenGarage, StartEnrolment, ActivateBonding, SaveBondings, SaveRoster,
        SaveList, EndBonding, Rearm, Refresh, ResetList, LoadSlot, Reloaded
<1>3. CASE UNCHANGED vars
  BY <1>3 DEF vars
<1> QED BY <1>1, <1>2, <1>3, Parties

LEMMA SavedDevicesIs == SavedDevices = DevicesOf(saved)
BY SlotsAre DEF SavedDevices, DevicesOf

\* A boot loads the roster, and garage mode is entered with none.
LEMMA BootsIs ==
  ASSUME IInv, Boots
  PROVE  /\ Listed' = SavedDevices'
         /\ saved' \in RosterType /\ SavedDistinct'
         /\ security_state' = "GARAGE" => bonded_count' = 0
         /\ monitor' = "loop" /\ after' = "loop" /\ ble' = "wait"
         /\ need_refresh_scan_filter' = FALSE /\ enrolled' = {}
         /\ afterStudy' = FALSE /\ interrupted' = FALSE
         /\ SavedDevices' \subseteq SavedDevices
<1>1. PICK s \in {saved, NoSlots}, state \in {"ARMED", "DISARMED", "GARAGE"} :
        Booted(s, state) /\ (state = "GARAGE" => s = NoSlots)
  BY DEF Boots
<1>2. s \in RosterType /\ saved' = s
  BY <1>1, NothingType, SlotsAre DEF Booted, IInv, TypeOK, RosterType
<1>3. ListOf(Loaded(s), Len(Filled(s))) = DevicesOf(s)
  BY <1>2, LoadedIs
<1>4. Listed' = ListOf(connections_array', bonded_count')
  BY DEF Listed, Bonded, ListOf
<1>5. SavedDevices' = DevicesOf(saved')
  BY SlotsAre DEF SavedDevices, DevicesOf
<1>6. \A x \in SlotSet : NoSlots[x] = NoDevice
  BY SlotsAre DEF NoSlots
<1>7. SavedDistinct'
  BY <1>1, <1>2, <1>6, SlotsAre DEF SavedDistinct, IInv
<1>8. Filled(NoSlots) = <<>>
  BY <1>6 DEF Filled, Entry, SlotSet
<1>9. SavedDevices' \subseteq SavedDevices
  BY <1>1, <1>2, <1>6, SlotsAre DEF SavedDevices
<1> QED BY <1>1, <1>2, <1>3, <1>4, <1>5, <1>7, <1>8, <1>9 DEF Booted

LEMMA DistinctStep ==
  ASSUME IInv, [Next]_vars
  PROVE  SavedDistinct'
<1>1. CASE SaveRoster /\ afterStudy
  <2> DEFINE D == Devices \union {NoDevice}
  <2>1. DevicesOf(saved) \subseteq D
    BY SlotsAre DEF IInv, TypeOK, DevicesOf
  <2>2. \A i \in Bonded : connections_array[i].addr \in D
    BY ConnectionsAssumption DEF IInv, TypeOK, Bonded, Infos, ConnectionsAssumption
  <2>3. saved' = StoredTo[bonded_count]
    BY <1>1 DEF SaveRoster, SaveList
  <2>4. Distinct(saved')
    BY <2>1, <2>2, <2>3, SaveIs DEF IInv
  <2> QED BY <2>4, SlotsAre DEF Distinct, SavedDistinct
<1>2. CASE Boots
  BY <1>2, BootsIs
<1>3. CASE ~(SaveRoster /\ afterStudy) /\ ~Boots
  BY <1>3, RosterKept DEF SavedDistinct, IInv
<1> QED BY <1>1, <1>2, <1>3

LEMMA SlotsElsewhere ==
  \A slot \in SlotSet : slot \notin {"loop", "leach", "empty", "garage", "enrol", "rearm",
     "save", "unbond", "closing", "armed", "refresh", "load", "resume", "report"}
BY DEF SlotSet

LEMMA PointsStep ==
  ASSUME IInv, [Next]_vars
  PROVE  Points'
<1> USE DEF Points, Goal, Loads
<1>1. Points /\ TypeOK
  BY DEF IInv
<1>2. CASE SoftDeviceStep
  BY <1>1, <1>2, SoftDeviceFrame
<1>3. CASE BleStep
  <2>1. security_state = "GARAGE" => in_bonding_state' = in_bonding_state
    BY <1>3, BleBonding
  <2> QED BY <1>1, <1>3, <2>1, BleFrame
<1>4. CASE Boots
  BY <1>4, BootsIs, SlotsElsewhere
<1>5. CASE Log \/ Report \/ UNCHANGED vars
  BY <1>1, <1>5, SlotsElsewhere DEF Log, Report, vars, bonding, point, security, history
<1>6. CASE KeepAlive
  <2>1. security_state = "GARAGE" => in_bonding_state' = in_bonding_state
    BY <1>6, SetLeachStateIs DEF KeepAlive
  <2> QED BY <1>1, <1>6, <2>1, SlotsElsewhere DEF KeepAlive, Return, history
<1>7. CASE Disarm \/ RemoteArm
  <2>1. interrupted' <=> interrupted \/ security_state = "GARAGE"
    BY <1>7, Zenon DEF Disarm, RemoteArm
  <2> QED BY <1>1, <1>7, <2>1, SlotsElsewhere DEF Disarm, RemoteArm, ChangeSecurityState, bonding
<1>8. CASE ClearApp
  BY <1>1, <1>8, SlotsElsewhere DEF ClearApp, ChangeSecurityState, security, point, bonding
<1>9. CASE EnterGarage \/ OpenGarage
  BY <1>1, <1>9, SlotsElsewhere
  DEF EnterGarage, OpenGarage, ChangeSecurityState, bonding, security, history
<1>10. CASE EmptyList
  BY <1>1, <1>10, SlotsElsewhere DEF EmptyList, Return, bonding, security
<1>11. CASE StartEnrolment \/ ActivateBonding
  BY <1>1, <1>11, SlotsElsewhere
  DEF StartEnrolment, ActivateBonding, Return, bonding, security, history
<1>12. CASE SaveBondings
  BY <1>1, <1>12, SlotsElsewhere DEF SaveBondings, bonding, security, history
<1>13. CASE SaveRoster
  BY <1>1, <1>13, SlotsElsewhere DEF SaveRoster, SaveList, security, history
<1>14. CASE EndBonding
  BY <1>1, <1>14, SlotsElsewhere DEF EndBonding, security, history
<1>15. CASE Rearm \/ Refresh
  BY <1>1, <1>15, SlotsElsewhere
  DEF Rearm, Refresh, ChangeSecurityState, bonding, security, history
<1>16. CASE ResetList
  <2>1. monitor' \in {"resume"} \union SlotSet
    BY <1>16, SlotAfterType DEF ResetList
  <2> QED BY <1>1, <1>16, <2>1, SlotsElsewhere DEF ResetList, bonding, security
<1>17. CASE LoadSlot
  <2>1. monitor \in SlotSet /\ monitor' \in {"resume"} \union SlotSet
    BY <1>1, <1>17, LoadSlotIs
  <2> QED BY <1>1, <1>17, <2>1, SlotsElsewhere DEF LoadSlot, bonding, security
<1>18. CASE Reloaded
  <2>1. interrupted' <=> interrupted /\ afterStudy
    BY <1>18, Zenon DEF Reloaded
  <2> QED BY <1>1, <1>18, <2>1, SlotsElsewhere DEF Reloaded, bonding, security
<1> QED BY <1>2, <1>3, <1>4, <1>5, <1>6, <1>7, <1>8, <1>9, <1>10, <1>11, <1>12, <1>13, <1>14,
           <1>15, <1>16, <1>17, <1>18, Parties DEF MonitorStep

-----------------------------------------------------------------------------
(* The list.                                                                *)

\* A step that is no race has the list as it should be before it, unless it
\* is a boot.
LEMMA Unraced ==
  ASSUME IInv, [Next]_vars, ~raced', ~Boots
  PROVE  /\ ~raced /\ ListInv
         /\ EmptyList \/ ResetList \/ LoadSlot => ~Undecided
<1>1. CASE SoftDeviceStep \/ BleStep
  <2>1. ~raced
    BY <1>1, SoftDeviceFrame, BleFrame
  <2>2. ~(EmptyList \/ ResetList \/ LoadSlot) \/ ~Undecided
    BY <1>1, <2>1 DEF EmptyList, ResetList, LoadSlot
  <2> QED BY <2>1, <2>2 DEF IInv
<1>2. CASE MonitorStep
  <2>1. CASE EmptyList \/ ResetList \/ LoadSlot
    <3>1. raced' = (raced \/ Undecided)
      BY <2>1 DEF EmptyList, ResetList, LoadSlot
    <3>2. ~raced /\ ~Undecided
      BY <3>1, Zenon
    <3> QED BY <3>2 DEF IInv
  <2>2. CASE ~(EmptyList \/ ResetList \/ LoadSlot)
    <3>1. raced' = raced
      BY <1>2, <2>2 DEF MonitorStep, Log, Report, KeepAlive, Disarm, RemoteArm, ClearApp,
        EnterGarage, OpenGarage, StartEnrolment, ActivateBonding, SaveBondings, SaveRoster,
        EndBonding, Rearm, Refresh, Reloaded, history
    <3> QED BY <2>2, <3>1 DEF IInv
  <2> QED BY <2>1, <2>2
<1>3. CASE UNCHANGED vars
  <2>1. ~raced /\ connections_array' = connections_array
    BY <1>3 DEF vars, list, history
  <2>2. ~(EmptyList \/ ResetList \/ LoadSlot) \/ ~Undecided
    <3>1. EmptyList \/ ResetList \/ LoadSlot => raced' = (raced \/ Undecided)
      BY DEF EmptyList, ResetList, LoadSlot
    <3> QED BY <3>1, Zenon
  <2> QED BY <2>1, <2>2 DEF IInv
<1> QED BY <1>1, <1>2, <1>3, Parties

\* The addresses of the list stay, and an entry with a handle keeps one.
ListKept ==
  /\ bonded_count' = bonded_count
  /\ \A i \in Bonded : /\ connections_array'[i].addr = connections_array[i].addr
                       /\ \/ connections_array'[i].conn_handler = connections_array[i].conn_handler
                          \/ connections_array'[i].conn_handler # NoHandle

LEMMA BondedInList ==
  ASSUME TypeOK
  PROVE  bonded_count \in Nat /\ Bonded \subseteq 1..MAX_CONNECTIONS
BY ConnectionsAssumption DEF TypeOK, Bonded, ConnectionsAssumption

\* An entry of the list is written with the device it holds.
LEMMA RecogniseKeeps ==
  ASSUME TypeOK, NewsIsNamed, Recognise, index \in Bonded,
         connections_array[index].addr = peripheral_info.addr
  PROVE  ListKept
<1> DEFINE new == [peripheral_info EXCEPT !.is_connected = TRUE]
<1>1. connections_array' = [connections_array EXCEPT ![index] = new]
  BY DEF Recognise, Written
<1>2. new.addr = peripheral_info.addr /\ new.conn_handler = peripheral_info.conn_handler
  BY DEF TypeOK, Infos
<1>3. peripheral_info.conn_handler # NoHandle
  BY DEF Recognise, NewsIsNamed, Named
<1>4. connections_array = [j \in 1..MAX_CONNECTIONS |-> connections_array[j]]
  BY DEF TypeOK
<1> HIDE DEF new
<1>5. \A j \in 1..MAX_CONNECTIONS : connections_array'[j] =
        IF j = index THEN new ELSE connections_array[j]
  BY <1>1, <1>4
<1> QED BY <1>2, <1>3, <1>5, BondedInList DEF ListKept, Recognise

LEMMA RemoveKeeps ==
  ASSUME TypeOK, RemovePeripheral
  PROVE  ListKept
<1>1. bonded_count' = bonded_count
  BY DEF RemovePeripheral
<1>2. PICK x : connections_array' = [connections_array EXCEPT ![x].is_connected = FALSE]
               \/ connections_array' = connections_array
  BY DEF RemovePeripheral
<1>3. \A i \in 1..MAX_CONNECTIONS :
        /\ connections_array'[i].addr = connections_array[i].addr
        /\ connections_array'[i].conn_handler = connections_array[i].conn_handler
  <2> TAKE i \in 1..MAX_CONNECTIONS
  <2>1. connections_array = [j \in 1..MAX_CONNECTIONS |-> connections_array[j]]
        /\ connections_array[i] \in Infos
    BY DEF TypeOK
  <2>2. \/ connections_array'[i] = [connections_array[i] EXCEPT !.is_connected = FALSE]
        \/ connections_array'[i] = connections_array[i]
    BY <1>2, <2>1
  <2> QED BY <2>1, <2>2 DEF Infos
<1> QED BY <1>1, <1>3, BondedInList DEF ListKept

\* All that the BLE task does but to accept a device keeps the list, where it
\* matters.
LEMMA BleKeepsList ==
  ASSUME IInv, Chosen, BleStep, ~Accept, InGarage \/ ~app_session
  PROVE  ListKept
<1>1. CASE Recognise
  <2>1. index \in Bonded /\ connections_array[index].addr = peripheral_info.addr
    BY <1>1 DEF Chosen, Recognise
  <2> QED BY <1>1, <2>1, RecogniseKeeps DEF IInv
<1>2. CASE RemovePeripheral
  BY <1>2, RemoveKeeps DEF IInv
<1>3. CASE ~Recognise /\ ~RemovePeripheral
  BY <1>3 DEF BleStep, Wait, StartVerify, Find, Unlock, Announce, ClearBits, ResumeScan,
              EnablePairing, list, ListKept
<1> QED BY <1>1, <1>2, <1>3

LEMMA BleNotes ==
  ASSUME BleStep, ~Accept
  PROVE  UNCHANGED <<enrolled, app_session>>
BY DEF BleStep, Wait, StartVerify, Find, Recognise, Unlock, Announce, RemovePeripheral, ClearBits,
       ResumeScan, EnablePairing, history

LEMMA KeptListed ==
  ASSUME ListKept
  PROVE  Listed' = Listed /\ Bonded' = Bonded
BY DEF ListKept, Listed, Bonded

\* What the monitor task leaves of the list.
LEMMA MonitorKeepsList ==
  ASSUME MonitorStep, ~ClearApp, ~EmptyList, ~ResetList, ~LoadSlot
  PROVE  UNCHANGED <<connections_array, bonded_count, enrolled, app_session>>
BY DEF MonitorStep, Log, Report, KeepAlive, Disarm, RemoteArm, EnterGarage, OpenGarage,
       StartEnrolment, ActivateBonding, SaveBondings, SaveRoster, EndBonding, Rearm, Refresh,
       Reloaded, list, history

\* Garage mode is entered with an empty list.
LEMMA MonitorGarage ==
  ASSUME IInv, MonitorStep, ~EmptyList, InGarage'
  PROVE  /\ InGarage /\ ~ClearApp /\ ~ResetList /\ ~LoadSlot
         /\ UNCHANGED <<connections_array, bonded_count, enrolled>>
<1> USE DEF InGarage, Points, Goal, Loads
<1>1. Points
  BY DEF IInv
<1>2. KeepAlive => InGarage
  BY <1>1 DEF KeepAlive, Return
<1>3. ActivateBonding => InGarage
  BY <1>1 DEF ActivateBonding, Return, security
<1>4. Log \/ Report \/ StartEnrolment \/ SaveBondings \/ SaveRoster \/ EndBonding
        \/ Refresh \/ Reloaded => InGarage
  BY <1>1 DEF Log, Report, StartEnrolment, SaveBondings, SaveRoster, EndBonding, Refresh,
                    Reloaded, security, point
<1>5. Disarm \/ RemoteArm \/ EnterGarage \/ Rearm \/ OpenGarage => InGarage
  BY <1>1 DEF Disarm, RemoteArm, EnterGarage, Rearm, OpenGarage, ChangeSecurityState,
                    security
<1>6. ~ClearApp
  BY DEF ClearApp, ChangeSecurityState, security, point
<1>7. ~ResetList
  <2>1. ResetList => monitor' \in {"resume"} \union SlotSet
    BY SlotAfterType DEF ResetList
  <2> QED BY <1>1, <2>1, SlotsElsewhere DEF ResetList, security
<1>8. ~LoadSlot
  BY <1>1, LoadSlotIs, SlotsElsewhere DEF LoadSlot, security, IInv
<1>9. InGarage
  BY <1>2, <1>3, <1>4, <1>5, <1>6, <1>7, <1>8 DEF MonitorStep
<1> QED BY <1>6, <1>7, <1>8, <1>9, MonitorKeepsList

-----------------------------------------------------------------------------
\* In garage mode every entry counts, so a new one goes behind the last.
LEMMA NewIndexIs ==
  ASSUME TypeOK, GarageList, InGarage
  PROVE  NewIndex = bonded_count + 1
<1>1. {i \in Bonded : connections_array[i].conn_handler # NoHandle} = 1..bonded_count
  BY DEF GarageList, Bonded
<1>2. bonded_count \in Nat
  BY DEF TypeOK
<1> QED BY <1>1, <1>2, IntervalCardinality DEF NewIndex

LEMMA ChosenFound ==
  ASSUME TypeOK, GarageList, Find
  PROVE  Chosen'
<1>1. /\ UNCHANGED <<connections_array, bonded_count, in_bonding_state, security_state,
                     monitor, after, app_session>>
      /\ peripheral_info'.addr = peripheral_info.addr
  BY DEF Find, list, bonding, security, point, history, TypeOK, Infos
<1>2. Bonded' = Bonded /\ Listed' = Listed /\ (InGarage' <=> InGarage)
  BY <1>1 DEF Bonded, Listed, InGarage
<1>3. ASSUME ble' = "recognise"
      PROVE  index' \in Bonded /\ connections_array[index'].addr = peripheral_info.addr
  BY <1>3, RecognisedIndex DEF Find
<1>4. ASSUME ble' = "accept", InGarage
      PROVE  /\ index' = bonded_count + 1 /\ peripheral_info.addr \notin Listed
             /\ in_bonding_state
  <2>1. index' = NewIndex /\ Recognised(peripheral_info.addr) = {} /\ in_bonding_state
    BY <1>4 DEF Find, MayJoin
  <2>2. peripheral_info.addr \notin Listed
    BY <2>1 DEF Recognised, Listed
  <2> QED BY <1>4, <2>1, <2>2, NewIndexIs
<1>5. connections_array'[index'] = connections_array[index']
  BY <1>1
<1> QED BY <1>1, <1>2, <1>3, <1>4, <1>5 DEF Chosen

LEMMA ChosenStep ==
  ASSUME IInv, [Next]_vars, ~raced'
  PROVE  Chosen'
<1>1. CASE Boots
  BY <1>1, BootsIs DEF Chosen
<1> SUFFICES ASSUME ~Boots PROVE Chosen'
  BY <1>1
<1>2. /\ TypeOK /\ Points /\ Chosen /\ GarageList
      /\ EmptyList \/ ResetList \/ LoadSlot => ~Undecided
  BY Unraced DEF IInv, ListInv
<1>3. CASE SoftDeviceStep
  BY <1>2, <1>3, SoftDeviceFrame DEF Chosen, Bonded, Listed, InGarage, Closing
<1>4. CASE BleStep
  <2>1. CASE Find
    BY <1>2, <2>1, ChosenFound
  <2>2. CASE ~Find
    <3>1. ble' \notin {"recognise", "accept"}
      BY <1>4, <2>2 DEF BleStep, Wait, StartVerify, Recognise, Accept, Unlock, Announce,
                        RemovePeripheral, ClearBits, ResumeScan, EnablePairing, task
    <3> QED BY <3>1 DEF Chosen
  <2> QED BY <2>1, <2>2
<1>5. CASE EmptyList \/ ResetList \/ LoadSlot
  BY <1>2, <1>5 DEF EmptyList, ResetList, LoadSlot, task, Undecided, Chosen
<1>6. CASE ClearApp
  BY <1>6 DEF ClearApp, ChangeSecurityState, security, point, Chosen, InGarage
<1>7. CASE MonitorStep /\ ~ClearApp /\ ~EmptyList /\ ~ResetList /\ ~LoadSlot
  <2>1. /\ UNCHANGED <<connections_array, bonded_count, app_session>>
        /\ UNCHANGED <<ble, peripheral_info, index>>
    BY <1>7, MonitorKeepsList, MonitorFrame
  <2>2. Bonded' = Bonded /\ Listed' = Listed
    BY <2>1 DEF Bonded, Listed
  <2>3. InGarage' => InGarage
    BY <1>7, MonitorGarage
  <2>4. ASSUME InGarage', in_bonding_state \/ Closing
        PROVE  in_bonding_state' \/ Closing'
    <3>1. KeepAlive => ~Closing /\ (security_state = "GARAGE" => in_bonding_state' = in_bonding_state)
      BY <1>2, SetLeachStateIs DEF KeepAlive, Closing
    <3>2. KeepAlive => security_state = "GARAGE"
      BY <2>3, <2>4, <1>2 DEF KeepAlive, Return, InGarage, Points, Goal
    <3>3. EndBonding => Closing'
      BY DEF EndBonding, Closing
    <3>4. ActivateBonding => in_bonding_state'
      BY DEF ActivateBonding
    <3>5. CASE ~KeepAlive /\ ~EndBonding /\ ~ActivateBonding
      <4>1. in_bonding_state' = in_bonding_state
        BY <1>7, <3>5 DEF MonitorStep, Log, Report, Disarm, RemoteArm, EnterGarage, OpenGarage,
             StartEnrolment, SaveBondings, SaveRoster, Rearm, Refresh, Reloaded, bonding
      <4>2. ~Closing
        BY <1>7, <3>5 DEF MonitorStep, Log, Report, Disarm, RemoteArm, EnterGarage, OpenGarage,
             StartEnrolment, SaveBondings, SaveRoster, Rearm, Refresh, Reloaded, Closing
      <4> QED BY <2>4, <4>1, <4>2
    <3> QED BY <2>4, <3>1, <3>2, <3>3, <3>4, <3>5
  <2> QED BY <1>2, <2>1, <2>2, <2>3, <2>4 DEF Chosen
<1>8. CASE UNCHANGED vars
  BY <1>2, <1>8 DEF vars, list, bonding, task, point, security, history, Chosen, Bonded, Listed,
                    InGarage, Closing
<1> QED BY <1>3, <1>4, <1>5, <1>6, <1>7, <1>8, Parties

-----------------------------------------------------------------------------
(* The list in garage mode.                                                 *)

LEMMA KeptGarage ==
  ASSUME GarageList, ListKept, InGarage' <=> InGarage, enrolled' = enrolled
  PROVE  GarageList'
<1>1. Listed' = Listed /\ Bonded' = Bonded
  BY KeptListed
<1> QED BY <1>1 DEF GarageList, ListKept

\* The accepted device is the last entry of a list of one more.
LEMMA AcceptIs ==
  ASSUME TypeOK, NewsIsNamed, Accept, index = bonded_count + 1
  PROVE  /\ Bonded' = Bonded \union {index} /\ index \notin Bonded
         /\ \A i \in Bonded : connections_array'[i] = connections_array[i]
         /\ connections_array'[index].addr = peripheral_info.addr
         /\ connections_array'[index].conn_handler # NoHandle
         /\ Listed' = Listed \union {peripheral_info.addr}
<1> DEFINE new == [peripheral_info EXCEPT !.is_connected = TRUE]
<1>1. connections_array' = [connections_array EXCEPT ![index] = new]
      /\ bonded_count' = index
  BY DEF Accept, Written
<1>2. new.addr = peripheral_info.addr /\ new.conn_handler = peripheral_info.conn_handler
  BY DEF TypeOK, Infos
<1>3. peripheral_info.conn_handler # NoHandle
  BY DEF Accept, NewsIsNamed, Named
<1>4. connections_array = [j \in 1..MAX_CONNECTIONS |-> connections_array[j]]
  BY DEF TypeOK
<1>5. index \in 1..MAX_CONNECTIONS
  BY ConnectionsAssumption DEF Accept, TypeOK, ConnectionsAssumption
<1> HIDE DEF new
<1>6. \A j \in 1..MAX_CONNECTIONS : connections_array'[j] =
        IF j = index THEN new ELSE connections_array[j]
  BY <1>1, <1>4
<1>7. Bonded' = Bonded \union {index} /\ index \notin Bonded
  BY <1>1, BondedInList DEF Bonded
<1>8. /\ \A i \in Bonded : connections_array'[i] = connections_array[i]
      /\ connections_array'[index] = new
  BY <1>5, <1>6, <1>7, BondedInList
<1>9. Listed' = {connections_array'[i].addr : i \in Bonded'}
  BY DEF Listed
<1>10. Listed' = Listed \union {peripheral_info.addr}
  BY <1>2, <1>7, <1>8, <1>9 DEF Listed
<1> QED BY <1>2, <1>3, <1>7, <1>8, <1>10

LEMMA AcceptGarage ==
  ASSUME IInv, Chosen, GarageList, Accept
  PROVE  GarageList'
<1>1. InGarage' <=> InGarage
  BY DEF Accept, InGarage, security, point
<1> SUFFICES ASSUME InGarage PROVE GarageList'
  BY <1>1 DEF GarageList
<1>2. index = bonded_count + 1 /\ peripheral_info.addr \notin Listed
  BY DEF Chosen, Accept
<1>3. /\ Bonded' = Bonded \union {index} /\ index \notin Bonded
      /\ \A i \in Bonded : connections_array'[i] = connections_array[i]
      /\ connections_array'[index].addr = peripheral_info.addr
      /\ connections_array'[index].conn_handler # NoHandle
      /\ Listed' = Listed \union {peripheral_info.addr}
  BY <1>2, AcceptIs DEF IInv
<1>4. enrolled' = enrolled \union {peripheral_info.addr}
  BY DEF Accept, Noted, InGarage
<1>5. \A i \in Bonded : connections_array[i].addr # peripheral_info.addr
  BY <1>2 DEF Listed
<1>6. \A i, j \in Bonded' : connections_array'[i].addr = connections_array'[j].addr => i = j
  BY <1>3, <1>5 DEF GarageList
<1>7. \A i \in Bonded' : connections_array'[i].conn_handler # NoHandle
  BY <1>3 DEF GarageList
<1>8. Listed' = enrolled'
  BY <1>3, <1>4 DEF GarageList
<1> QED BY <1>6, <1>7, <1>8 DEF GarageList

LEMMA GarageStep ==
  ASSUME IInv, [Next]_vars, ~raced'
  PROVE  GarageList'
<1>1. CASE Boots
  <2>1. security_state' = "GARAGE" => bonded_count' = 0 /\ enrolled' = {}
    BY <1>1, BootsIs
  <2>2. InGarage' => security_state' = "GARAGE"
    BY <1>1, BootsIs DEF InGarage
  <2>3. bonded_count' = 0 => Bonded' = {} /\ Listed' = {}
    BY DEF Bonded, Listed
  <2> QED BY <2>1, <2>2, <2>3 DEF GarageList
<1> SUFFICES ASSUME ~Boots PROVE GarageList'
  BY <1>1
<1>2. TypeOK /\ Points /\ Chosen /\ GarageList
  BY Unraced DEF IInv, ListInv
<1>3. CASE SoftDeviceStep
  BY <1>2, <1>3, SoftDeviceFrame DEF GarageList, Bonded, Listed, InGarage
<1>4. CASE BleStep
  <2>1. InGarage' <=> InGarage
    BY <1>4, BleFrame DEF InGarage
  <2>2. CASE Accept
    BY <1>2, <2>2, AcceptGarage
  <2>3. CASE ~Accept /\ InGarage
    BY <1>2, <1>4, <2>1, <2>3, BleKeepsList, BleNotes, KeptGarage
  <2>4. CASE ~InGarage
    BY <2>1, <2>4 DEF GarageList
  <2> QED BY <2>2, <2>3, <2>4
<1>5. CASE EmptyList
  <2>1. bonded_count' = 0 /\ enrolled' = {}
    BY <1>5 DEF EmptyList
  <2>2. Bonded' = {} /\ Listed' = {}
    BY <2>1 DEF Bonded, Listed
  <2> QED BY <2>1, <2>2 DEF GarageList
<1>6. CASE MonitorStep /\ ~EmptyList
  BY <1>2, <1>6, MonitorGarage DEF GarageList, Bonded, Listed
<1>7. CASE UNCHANGED vars
  BY <1>2, <1>7 DEF vars, list, point, security, history, GarageList, Bonded, Listed, InGarage
<1> QED BY <1>3, <1>4, <1>5, <1>6, <1>7, Parties

-----------------------------------------------------------------------------
(* The list out of garage mode.                                             *)

Flagged == need_refresh_scan_filter /\ Goal \in {"loop", "report", "rearm"}
             => security_state = "GARAGE" \/ interrupted
Settled == /\ ~interrupted /\ ~app_session /\ ~need_refresh_scan_filter
           /\ Goal # "unbond" /\ ~Closing /\ (security_state = "GARAGE" => ~in_bonding_state)

LEMMA FollowsIs == ListFollows <=> Flagged /\ (Settled => Listed = SavedDevices)
BY DEF ListFollows, Flagged, Settled

\* The flag that the list is to be loaded is served before the loop goes on.
LEMMA FlaggedStep ==
  ASSUME IInv, [Next]_vars, Flagged, ~Boots
  PROVE  Flagged'
<1> USE DEF Flagged, Goal
<1>1. Points
  BY DEF IInv
<1>2. CASE SoftDeviceStep
  BY <1>2, SoftDeviceFrame
<1>3. CASE BleStep
  BY <1>3, BleFrame
<1>4. CASE Log \/ Report \/ UNCHANGED vars
  <2>1. /\ UNCHANGED <<need_refresh_scan_filter, security_state, interrupted>>
        /\ \/ UNCHANGED <<monitor, after>>
           \/ monitor = "report" /\ monitor' = "loop"
    BY <1>4 DEF Log, Report, vars, point, security, history
  <2> QED BY <2>1
<1>5. CASE KeepAlive \/ ActivateBonding
  BY <1>1, <1>5 DEF KeepAlive, ActivateBonding, Return, security, history, Points
<1>6. CASE Disarm \/ RemoteArm
  <2>1. interrupted' <=> interrupted \/ security_state = "GARAGE"
    BY <1>6, Zenon DEF Disarm, RemoteArm
  <2> QED BY <1>6, <2>1 DEF Disarm, RemoteArm, ChangeSecurityState
<1>7. CASE ClearApp
  BY <1>7 DEF ClearApp, ChangeSecurityState, security, point
<1>8. CASE EnterGarage \/ OpenGarage \/ StartEnrolment
  BY <1>8 DEF EnterGarage, OpenGarage, StartEnrolment, ChangeSecurityState, security, history
<1>9. CASE EmptyList
  BY <1>1, <1>9 DEF EmptyList, Return, Points
<1>10. CASE SaveBondings \/ SaveRoster \/ EndBonding \/ Rearm \/ Refresh
  BY <1>1, <1>10 DEF SaveBondings, SaveRoster, EndBonding, Rearm, Refresh, ChangeSecurityState,
                     Points, security, history
<1>11. CASE ResetList
  <2>1. monitor' \in {"resume"} \union SlotSet
    BY <1>11, SlotAfterType DEF ResetList
  <2> QED BY <2>1, SlotsElsewhere
<1>12. CASE LoadSlot
  BY <1>12, LoadSlotIs, SlotsElsewhere DEF IInv
<1>13. CASE Reloaded
  BY <1>13 DEF Reloaded
<1> QED BY <1>2, <1>3, <1>4, <1>5, <1>6, <1>7, <1>8, <1>9, <1>10, <1>11, <1>12, <1>13, Parties
        DEF MonitorStep

\* What the monitor does settles nothing that was not settled, but to load.
LEMMA MonitorSettled ==
  ASSUME IInv, MonitorStep, Settled'
  PROVE  /\ ~ClearApp /\ ~EmptyList /\ ~ResetList /\ ~LoadSlot /\ ~SaveRoster
         /\ Reloaded \/ Settled
<1> USE DEF Settled, Goal, Closing
<1>1. Points
  BY DEF IInv
<1>2. ~ClearApp /\ ~EmptyList
  BY DEF ClearApp, EmptyList
<1>3. ~SaveRoster
  BY DEF SaveRoster
<1>4. ~ResetList /\ ~LoadSlot
  BY <1>1, SlotsAre DEF ResetList, LoadSlot, Points, Loads
<1>5. Log \/ Report => Settled
  BY <1>1 DEF Log, Report, bonding, point, security, history
<1>6. KeepAlive => Settled
  <2>1. KeepAlive => (security_state = "GARAGE" => in_bonding_state' = in_bonding_state)
    BY SetLeachStateIs DEF KeepAlive
  <2> QED BY <1>1, <2>1 DEF KeepAlive, Return, history, Points
<1>7. Disarm \/ RemoteArm => Settled
  <2>1. Disarm \/ RemoteArm => (interrupted' <=> interrupted \/ security_state = "GARAGE")
    BY Zenon DEF Disarm, RemoteArm
  <2>2. Disarm \/ RemoteArm => monitor = "loop" /\ app_session' = app_session
          /\ need_refresh_scan_filter' = need_refresh_scan_filter
    BY DEF Disarm, RemoteArm
  <2> QED BY <2>1, <2>2
<1>8. EnterGarage => Settled
  BY DEF EnterGarage, bonding, security, history
<1>9. ~OpenGarage /\ ~ActivateBonding
  BY <1>1 DEF OpenGarage, ActivateBonding, Return, ChangeSecurityState, Points, Loads, security
<1>10. StartEnrolment \/ SaveBondings => Settled
  BY DEF StartEnrolment, SaveBondings, bonding, security, history
<1>11. ~EndBonding
  BY DEF EndBonding
<1>12. Rearm \/ Refresh => Settled
  BY <1>1 DEF Rearm, Refresh, ChangeSecurityState, bonding, security, history, Points, Loads
<1> QED BY <1>2, <1>3, <1>4, <1>5, <1>6, <1>7, <1>8, <1>9, <1>10, <1>11, <1>12 DEF MonitorStep

LEMMA FollowsStep ==
  ASSUME IInv, [Next]_vars, ~raced'
  PROVE  ListFollows'
<1>1. CASE Boots
  BY <1>1, BootsIs DEF ListFollows
<1> SUFFICES ASSUME ~Boots PROVE ListFollows'
  BY <1>1
<1>2. /\ TypeOK /\ Points /\ Chosen /\ Flagged /\ Loading /\ NewsIsNamed
      /\ Settled => Listed = SavedDevices
  BY Unraced, FollowsIs DEF IInv, ListInv
<1>3. Flagged'
  BY <1>2, FlaggedStep
<1> SUFFICES ASSUME Settled' PROVE Listed' = SavedDevices'
  BY <1>3 DEF ListFollows, Flagged, Settled
<1>4. CASE SoftDeviceStep
  BY <1>2, <1>4, SoftDeviceFrame DEF Settled, Goal, Closing, Listed, Bonded, SavedDevices
<1>5. CASE BleStep /\ ~Accept
  <2>1. Settled
    BY <1>5, BleFrame, BleBonding, BleNotes DEF Settled, Goal, Closing
  <2>2. Listed' = Listed
    BY <1>2, <1>5, <2>1, BleKeepsList, KeptListed DEF Settled
  <2> QED BY <1>2, <1>5, <2>1, <2>2, BleFrame DEF SavedDevices
<1>6. CASE Accept
  <2>1. in_bonding_state' = in_bonding_state
        /\ UNCHANGED <<security_state, monitor, after, need_refresh_scan_filter>>
    BY <1>6 DEF Accept, bonding, security, point
  <2>2. CASE InGarage
    BY <1>2, <1>6, <2>1, <2>2 DEF InGarage, Chosen, Accept, Points, Settled, Closing
  <2>3. CASE ~InGarage
    BY <1>6, <2>3 DEF InGarage, Accept, Noted, Settled
  <2> QED BY <2>2, <2>3
<1>7. CASE MonitorStep
  <2>1. /\ ~ClearApp /\ ~EmptyList /\ ~ResetList /\ ~LoadSlot /\ ~SaveRoster
        /\ Reloaded \/ Settled
    BY <1>7, MonitorSettled
  <2>2. Listed' = Listed
    BY <1>7, <2>1, MonitorKeepsList DEF Listed, Bonded
  <2>3. SavedDevices' = SavedDevices
    BY <1>7, <2>1, RosterKept DEF SavedDevices
  <2>4. Reloaded => Listed = SavedDevices
    BY <1>2 DEF Reloaded, Loading, Settled, history
  <2> QED BY <1>2, <2>1, <2>2, <2>3, <2>4
<1>8. CASE UNCHANGED vars
  BY <1>2, <1>8 DEF vars, list, bonding, point, security, history, Settled, Goal, Closing, Listed,
                    Bonded, SavedDevices
<1> QED BY <1>4, <1>5, <1>6, <1>7, <1>8, Parties

-----------------------------------------------------------------------------
(* The list while it is loaded.                                             *)

\* The slots passed over are empty.
LEMMA SlotsToIs ==
  ASSUME TypeOK, NEW i \in 0..4
  PROVE  /\ SlotAfter(i) = "resume" => SlotsTo(i) = SavedDevices
         /\ \A k \in 1..4 : SlotAfter(i) = Slots[k]
              => saved[Slots[k]] # NoDevice /\ SlotsTo(k - 1) = SlotsTo(i)
<1>1. \A j, k \in 1..4 : Slots[j] = Slots[k] => j = k
  BY DEF Slots
<1>2. \A j \in 1..4 : Slots[j] # "resume"
  BY DEF Slots
<1>3. SavedDevices = SlotsTo(4)
  <2>1. SlotSet = {Slots[j] : j \in 1..4}
    BY DEF Slots, SlotSet
  <2> QED BY <2>1, SavedDevicesIs DEF SlotsTo, DevicesOf
<1>4. ASSUME NEW k \in 1..5, k > i, \A j \in 1..4 : j > i /\ j < k => saved[Slots[j]] = NoDevice
      PROVE  SlotsTo(k - 1) = SlotsTo(i)
  <2>1. \A j \in 1..i : j \in 1..(k - 1)
    BY <1>4
  <2>2. \A j \in 1..(k - 1) : j \in 1..i \/ saved[Slots[j]] = NoDevice
    BY <1>4
  <2> QED BY <2>1, <2>2 DEF SlotsTo
<1>5. CASE /\ SlotAfter(i) = "resume"
           /\ \A j \in 1..4 : j > i => saved[Slots[j]] = NoDevice
  <2>1. SlotsTo(5 - 1) = SlotsTo(i)
    BY <1>4, <1>5
  <2>2. 5 - 1 = 4
    OBVIOUS
  <2> QED BY <1>2, <1>3, <1>5, <2>1, <2>2
<1>6. ASSUME NEW k \in 1..4, k > i, SlotAfter(i) = Slots[k], saved[Slots[k]] # NoDevice,
             \A j \in 1..4 : j > i /\ j < k => saved[Slots[j]] = NoDevice
      PROVE  /\ SlotAfter(i) # "resume"
             /\ \A m \in 1..4 : SlotAfter(i) = Slots[m]
                  => saved[Slots[m]] # NoDevice /\ SlotsTo(m - 1) = SlotsTo(i)
  <2>1. SlotsTo(k - 1) = SlotsTo(i)
    BY <1>4, <1>6
  <2>2. \A m \in 1..4 : SlotAfter(i) = Slots[m] => m = k
    BY <1>1, <1>6
  <2> QED BY <1>2, <1>6, <2>1, <2>2
<1> QED BY <1>5, <1>6, SlotAfterIs

LEMMA ResetLoading ==
  ASSUME TypeOK, ResetList
  PROVE  Loading'
<1>1. bonded_count' = 0 /\ saved' = saved /\ monitor' = SlotAfter(0)
  BY DEF ResetList
<1>2. Listed' = {}
  BY <1>1 DEF Listed, Bonded
<1>3. SlotsTo(0) = {}
  BY DEF SlotsTo
<1>4. SavedDevices' = SavedDevices /\ \A i : SlotsTo(i)' = SlotsTo(i)
  BY <1>1 DEF SavedDevices, SlotsTo
<1>5. /\ SlotAfter(0) = "resume" => SavedDevices = {}
      /\ \A k \in 1..4 : SlotAfter(0) = Slots[k]
           => saved[Slots[k]] # NoDevice /\ SlotsTo(k - 1) = {}
  BY <1>3, SlotsToIs
<1> QED BY <1>1, <1>2, <1>4, <1>5 DEF Loading

LEMMA SlotLoading ==
  ASSUME TypeOK, Loading, LoadSlot
  PROVE  Loading'
<1> SUFFICES ASSUME ~app_session PROVE Loading'
  BY DEF LoadSlot, Loading
<1> DEFINE k == CHOOSE i \in 1..4 : Slots[i] = monitor
<1>1. monitor \in SlotSet
  BY LoadSlotIs
<1>2. k \in 1..4 /\ Slots[k] = monitor /\ monitor' = SlotAfter(k)
  BY <1>1, SlotNumber DEF LoadSlot
<1> HIDE DEF k
<1>3. saved[Slots[k]] # NoDevice /\ Listed = SlotsTo(k - 1)
  BY <1>2 DEF Loading
<1>4. bonded_count' = bonded_count + 1 /\ saved' = saved
  BY DEF LoadSlot
<1>5. SlotIndex(monitor) = bonded_count + 1
  <2>1. CASE monitor = "Leach_address_1"
    <3>1. k = 1
      BY <1>2, <2>1 DEF Slots
    <3>2. SlotsTo(k - 1) = {}
      BY <3>1 DEF SlotsTo
    <3>3. Bonded = {}
      BY <1>3, <3>2 DEF Listed
    <3>4. bonded_count = 0
      BY <3>3 DEF Bonded, TypeOK
    <3> QED BY <2>1, <3>4 DEF SlotIndex
  <2>2. CASE monitor # "Leach_address_1"
    BY <2>2 DEF SlotIndex
  <2> QED BY <2>1, <2>2
<1>6. Bonded' = Bonded \union {bonded_count + 1} /\ bonded_count + 1 \notin Bonded
  BY <1>4, BondedInList DEF Bonded
<1>7. /\ \A i \in Bonded : connections_array'[i].addr = connections_array[i].addr
      /\ connections_array'[bonded_count + 1].addr = saved[Slots[k]]
  BY <1>2, <1>5, <1>6, LoadSlotIs, BondedInList
<1>8. Listed' = {connections_array'[i].addr : i \in Bonded'}
  BY DEF Listed
<1>9. Listed' = Listed \union {saved[Slots[k]]}
  BY <1>6, <1>7, <1>8 DEF Listed
<1>10. SlotsTo(k) = SlotsTo(k - 1) \union {saved[Slots[k]]}
  <2>1. 1..k = (1..(k - 1)) \union {k}
    BY <1>2
  <2> QED BY <1>3, <2>1 DEF SlotsTo
<1>11. SavedDevices' = SavedDevices /\ \A i : SlotsTo(i)' = SlotsTo(i)
  BY <1>4 DEF SavedDevices, SlotsTo
<1>12. k \in 0..4
  BY <1>2
<1>13. /\ SlotAfter(k) = "resume" => SlotsTo(k) = SavedDevices
       /\ \A m \in 1..4 : SlotAfter(k) = Slots[m]
            => saved[Slots[m]] # NoDevice /\ SlotsTo(m - 1) = SlotsTo(k)
  BY <1>12, SlotsToIs
<1> QED BY <1>2, <1>3, <1>4, <1>9, <1>10, <1>11, <1>13 DEF Loading

LEMMA LoadingStep ==
  ASSUME IInv, [Next]_vars, ~raced'
  PROVE  Loading'
<1> DEFINE Underway == monitor = "resume" \/ monitor \in SlotSet
<1>1. ASSUME ~Underway' PROVE Loading'
  <2>1. \A k \in 1..4 : Slots[k] \in SlotSet
    BY DEF Slots, SlotSet
  <2> QED BY <1>1, <2>1 DEF Loading
<1>2. CASE Boots
  BY <1>1, <1>2, BootsIs, SlotsElsewhere
<1> SUFFICES ASSUME ~Boots PROVE Loading'
  BY <1>2
<1>3. TypeOK /\ Points /\ Chosen /\ Loading
  BY Unraced DEF IInv, ListInv
<1>4. CASE SoftDeviceStep
  <2>1. UNCHANGED <<monitor, app_session, saved, connections_array, bonded_count>>
    BY <1>4, SoftDeviceFrame
  <2>2. UNCHANGED <<Listed, SavedDevices>> /\ \A i : SlotsTo(i)' = SlotsTo(i)
    BY <2>1 DEF Listed, Bonded, SavedDevices, SlotsTo
  <2> QED BY <1>3, <2>1, <2>2 DEF Loading
<1>5. CASE BleStep
  <2> SUFFICES ASSUME Underway', ~app_session' PROVE Loading'
    BY <1>1 DEF Loading
  <2>1. UNCHANGED <<monitor, saved, security_state>>
    BY <1>5, BleFrame
  <2>2. ~InGarage
    BY <1>3, <2>1, SlotsElsewhere DEF InGarage, Points, Goal, Loads
  <2>3. ~Accept
    BY <2>2 DEF Accept, Noted, InGarage
  <2>4. app_session' = app_session
    BY <1>5, <2>3, BleNotes
  <2>5. Listed' = Listed
    BY <1>3, <1>5, <2>3, <2>4, BleKeepsList, KeptListed
  <2> QED BY <1>3, <2>1, <2>4, <2>5 DEF Loading, SavedDevices, SlotsTo
<1>6. CASE ResetList
  BY <1>3, <1>6, ResetLoading
<1>7. CASE LoadSlot
  BY <1>3, <1>7, SlotLoading
<1>8. CASE MonitorStep /\ ~ResetList /\ ~LoadSlot
  <2>1. monitor' \in {"loop", "leach", "empty", "garage", "enrol", "rearm", "save", "unbond",
                      "closing", "armed", "refresh", "load", "report"}
    <3>1. CASE KeepAlive \/ ActivateBonding \/ EmptyList
      BY <1>3, <3>1 DEF KeepAlive, ActivateBonding, EmptyList, Return, Points
    <3>2. CASE ~(KeepAlive \/ ActivateBonding \/ EmptyList)
      BY <1>8, <3>2 DEF MonitorStep, Log, Report, Disarm, RemoteArm, ClearApp, EnterGarage,
        OpenGarage, StartEnrolment, SaveBondings, SaveRoster, EndBonding, Rearm, Refresh,
        Reloaded, ChangeSecurityState, point
    <3> QED BY <3>1, <3>2
  <2> QED BY <1>1, <2>1, SlotsElsewhere
<1>9. CASE UNCHANGED vars
  BY <1>3, <1>9 DEF vars, list, point, history, Loading, Listed, Bonded, SavedDevices, SlotsTo
<1> QED BY <1>4, <1>5, <1>6, <1>7, <1>8, <1>9, Parties

-----------------------------------------------------------------------------
LEMMA InitEstablishes == Init => IInv
<1> SUFFICES ASSUME Init PROVE IInv
  OBVIOUS
<1>1. saved \in RosterType /\ SavedDistinct
  BY SlotsAre DEF Init, Rosters, RosterType, SavedDistinct
<1>2. /\ Loaded(saved) \in ArrayType /\ Len(Filled(saved)) \in 0..MAX_CONNECTIONS
      /\ ListOf(Loaded(saved), Len(Filled(saved))) = DevicesOf(saved)
  BY <1>1, LoadedIs
<1>3. 0 \in 0..MAX_SESSIONS /\ 0 \in 0..MAX_CONNECTIONS
  BY ConnectionsAssumption DEF ConnectionsAssumption
<1>4. /\ saved \in [Range(Slots) -> Devices \union {NoDevice}]
      /\ connections_array \in [1..MAX_CONNECTIONS -> Infos]
      /\ bonded_count \in 0..MAX_CONNECTIONS
  BY <1>1, <1>2, SlotsAre DEF Init, RosterType, ArrayType
<1>5. TypeOK
  <2>1. {in_bonding_state, afterStudy, enablePairing, need_refresh_scan_filter,
         connection_list_semaphore, scanning, forced_stop_scan,
         use_mac_address_filter, stopScanDone, app_session, interrupted, raced} \subseteq BOOLEAN
    BY DEF Init
  <2>2. /\ connecting \in Devices \union {NoDevice}
        /\ link \in [Handles -> Devices \union {NoDevice}] /\ unread \subseteq Handles
        /\ {current_conn_info, peripheral_info} \subseteq Infos
        /\ leachfound \in 0..1 /\ event_ble_connection_changed \subseteq 1..2
        /\ index \in 0..MAX_CONNECTIONS
        /\ enrolled \subseteq Devices /\ sessions \in 0..MAX_SESSIONS
    BY <1>3, NothingType DEF Init
  <2>3. ble = "wait" /\ monitor = "loop" /\ after = "loop" /\ security_state = "ARMED"
    BY DEF Init
  <2> QED BY <1>4, <2>1, <2>2, <2>3 DEF TypeOK
<1>6. LinkLeft /\ NewsIsNamed /\ ScanPending
  BY DEF Init, LinkLeft, NewsIsNamed, ScanPending
<1>7. Points
  BY SlotsElsewhere DEF Init, Points, Goal, Loads
<1>8. Listed = SavedDevices
  <2>1. Listed = ListOf(connections_array, bonded_count)
    BY DEF Listed, Bonded, ListOf
  <2> QED BY <1>2, <2>1, SavedDevicesIs DEF Init
<1>9. Chosen /\ GarageList /\ ListFollows /\ Loading
  <2>1. Chosen /\ GarageList
    BY DEF Init, Chosen, GarageList, InGarage
  <2>2. ListFollows
    BY <1>8 DEF Init, ListFollows
  <2>3. \A k \in 1..4 : Slots[k] # "loop"
    BY DEF Slots
  <2>4. Loading
    BY <2>3 DEF Init, Loading
  <2> QED BY <2>1, <2>2, <2>4
<1> QED BY <1>1, <1>5, <1>6, <1>7, <1>9 DEF IInv, ListInv

LEMMA ListStep ==
  ASSUME IInv, [Next]_vars
  PROVE  raced' \/ ListInv'
BY ChosenStep, GarageStep, FollowsStep, LoadingStep DEF ListInv

\* The invariant: what holds between the list, the roster, the entry the BLE
\* task has chosen and the states of the two tasks wherever they are cut, for
\* any devices, links, list length and number of connections.
THEOREM Invariance == Spec => []IInv
<1>1. IInv /\ [Next]_vars => IInv'
  <2> SUFFICES ASSUME IInv, [Next]_vars PROVE IInv'
    OBVIOUS
  <2> QED BY TypeStep, DistinctStep, PointsStep, LinkStep, NewsStep, ScanStep, ListStep DEF IInv
<1> QED BY <1>1, InitEstablishes, PTL DEF Spec

\* Every variable keeps its type: the index of a new entry and bonded_count
\* stay in the list, and no nameless device is enrolled.
THEOREM TypeCorrect == Spec => []TypeOK
<1>1. IInv => TypeOK
  BY DEF IInv
<1> QED BY <1>1, Invariance, PTL

\* The saved roster holds a device once.
THEOREM RosterDistinct == Spec => []SavedDistinct
<1>1. IInv => SavedDistinct
  BY DEF IInv
<1> QED BY <1>1, Invariance, PTL

\* In garage mode the list is what was accepted there or on the way in, each
\* device once and with a handle, unless the list was emptied under a
\* verification.
THEOREM EnrolmentListed == Spec => []EnrolmentList
<1>1. IInv => EnrolmentList
  <2> SUFFICES ASSUME IInv, security_state = "GARAGE", ~raced PROVE EnrolmentList
    BY DEF EnrolmentList
  <2> DEFINE Name == [i \in 1..bonded_count |-> connections_array[i].addr]
  <2>1. bonded_count \in Nat
    BY DEF IInv, TypeOK
  <2>2. GarageList /\ InGarage
    BY DEF IInv, ListInv, InGarage
  <2>3. \A i, j \in 1..bonded_count : Name[i] = Name[j] => i = j
    BY <2>2 DEF GarageList, Bonded
  <2>4. \A i \in 1..bonded_count : Name[i] = connections_array[i].addr
    OBVIOUS
  <2>5. Name = [i \in 1..bonded_count |-> Name[i]]
    OBVIOUS
  <2>6. {Name[i] : i \in 1..bonded_count} = Listed
    BY <2>4 DEF Listed, Bonded
  <2> HIDE DEF Name
  <2>7. Cardinality({Name[i] : i \in 1..bonded_count}) = bonded_count
    BY <2>1, <2>3, <2>5, DistinctCardinality
  <2> QED BY <2>2, <2>6, <2>7 DEF EnrolmentList, GarageList
<1> QED BY <1>1, Invariance, PTL

\* Out of garage mode the BLE task verifies against the saved roster, also
\* when the list was loaded entry by entry beside it, unless it was loaded
\* between its search and what it wrote.
THEOREM RosterListed == Spec => []RosterIsSaved
<1>1. IInv => RosterIsSaved
  BY DEF IInv, ListInv, ListFollows, RosterIsSaved, Goal, Closing
<1> QED BY <1>1, Invariance, PTL

\* The scan comes back: it is off only for a reason that ends.
THEOREM ScanComesBack == Spec => []ScanPending
<1>1. IInv => ScanPending
  BY DEF IInv
<1> QED BY <1>1, Invariance, PTL

\* Nothing gets into the saved roster that was not accepted in garage mode.
THEOREM SavedEnrolled == Spec => SavedWasEnrolled
<1>1. ASSUME IInv, [Next]_vars, ~interrupted, ~raced
      PROVE  SavedDevices' \subseteq SavedDevices \union enrolled
  <2>1. CASE SaveRoster /\ afterStudy
    <3> DEFINE D == SavedDevices \union enrolled \union {NoDevice}
    <3>1. DevicesOf(saved) \subseteq D
      BY SavedDevicesIs
    <3>2. security_state = "GARAGE" /\ GarageList
      BY <1>1, <2>1 DEF IInv, ListInv, Points
    <3>3. Listed = enrolled
      BY <3>2 DEF GarageList, InGarage
    <3>4. \A i \in Bonded : connections_array[i].addr \in D
      BY <3>3 DEF Listed
    <3>5. saved' = StoredTo[bonded_count]
      BY <2>1 DEF SaveRoster, SaveList
    <3> HIDE DEF D
    <3>6. DevicesOf(saved') \subseteq D
      BY <1>1, <3>1, <3>4, <3>5, SaveIs DEF IInv
    <3>7. SavedDevices' = DevicesOf(saved') /\ NoDevice \notin SavedDevices'
      BY SlotsAre DEF DevicesOf, SavedDevices
    <3> QED BY <3>6, <3>7 DEF D
  <2>2. CASE Boots
    BY <1>1, <2>2, BootsIs
  <2>3. CASE ~(SaveRoster /\ afterStudy) /\ ~Boots
    BY <1>1, <2>3, RosterKept DEF SavedDevices
  <2> QED BY <2>1, <2>2, <2>3
<1>2. IInv /\ [Next]_vars
        => [~interrupted /\ ~raced => SavedDevices' \subseteq SavedDevices \union enrolled]_vars
  BY <1>1
<1> QED BY <1>2, Invariance, PTL DEF Spec, SavedWasEnrolled
=============================================================================
