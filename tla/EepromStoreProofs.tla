-------------------------- MODULE EepromStoreProofs --------------------------
(***************************************************************************)
(* Proofs about EepromStore, for any tasks, pages, contents and bounds.    *)
(*                                                                         *)
(* The argument: a page of the EEPROM that differs from RAM is in the debt *)
(* of somebody, who has yet to save (Owes) or is in the middle of a save   *)
(* that has not passed that page (Saving).  When all are idle there is no  *)
(* debt.  And as long as one task alone has changed RAM, no other touches  *)
(* the pages or the CRC while it goes through its session, so the CRC it   *)
(* saves is the one of the pages it saves.                                 *)
(***************************************************************************)
EXTENDS EepromStore, TLAPS

\* A save is still to come.
Owes(t) == pc[t] \in {"load", "changing", "crc", "assign", "take"}
Owed == \E t \in Tasks : Owes(t)

\* A save is going on, and has page p before it.
Saving(t) == pc[t] \in {"copy", "write"}
Ahead(p) == \E t \in Tasks : Saving(t) /\ page[t] <= p

Mutex == \A t \in Tasks : Saving(t) \/ pc[t] = "crc" => configuration_semaphore = t

\* The monitor task boots alone.
Boot == \A t \in Tasks :
  /\ pc[t] = "load" => t = Monitor
  /\ pc[Monitor] = "load" /\ t # Monitor => pc[t] = "off"

\* Every page and the CRC, in the buffer about to be written and in the EEPROM.
Current ==
  \/ Owed
  \/ /\ \A t \in Tasks : pc[t] = "write" =>
          buffer[t].data = ram[page[t]] /\ buffer[t].crc = crc
     /\ \A p \in Pages : rom[p] = ram[p] \/ Ahead(p)
     /\ rom_crc = crc \/ \E t \in Tasks : Saving(t)

Writers == \A t \in Tasks : t \notin writers => pc[t] \in {"off", "idle", "load"}

\* What a lone task has made sure of at each point of its session.
Sound(t) ==
  /\ pc[t] = "crc" => \A p \in Pages : p < page[t] => computed[t][p] = ram[p]
  /\ pc[t] = "assign" => computed[t] = ram
  /\ pc[t] \in {"take", "copy", "write"} => crc = ram

\* A torn save shows in its last page, which it has not reached.
Torn == rom[PAGES] # rom_crc[PAGES]

Rest == \A t \in Tasks : pc[t] \in {"off", "idle"}

Settled ==
  /\ \A t \in Tasks : Sound(t)
  /\ Rest => crc = ram
  /\ rom_crc = saved \/ Torn

LoneSession == Lone => Settled

IInv == TypeOK /\ Mutex /\ Boot /\ Current /\ Writers /\ LoneSession

-----------------------------------------------------------------------------
\* Every step keeps the types.
LEMMA StepTypes == TypeOK /\ Next => TypeOK'
<1> SUFFICES ASSUME TypeOK, Next PROVE TypeOK'
  OBVIOUS
<1> USE StoreAssumption DEF TypeOK, At
<1>1. DefaultContent \in Contents
  BY DEF DefaultContent, Contents
<1>2. ASSUME NEW t \in Tasks, Change(t) PROVE TypeOK'
  <2>1. ram' \in Contents
    BY <1>2 DEF Change, Contents
  <2>2. writers' \subseteq Tasks
    BY <1>2 DEF Change
  <2> QED BY <1>2, <2>1, <2>2 DEF Change
<1>3. ASSUME NEW t \in Tasks, TakeForCrc(t) PROVE TypeOK'
  BY <1>3 DEF TakeForCrc, Pages
<1>4. ASSUME NEW t \in Tasks, ComputeCrc(t) PROVE TypeOK'
  <2>1. computed' \in [Tasks -> Contents]
    BY <1>4 DEF ComputeCrc, Contents
  <2>2. page' \in [Tasks -> Pages]
    BY <1>4 DEF ComputeCrc, Pages
  <2> QED BY <1>4, <2>1, <2>2 DEF ComputeCrc
<1>5. ASSUME NEW t \in Tasks, AssignCrc(t) PROVE TypeOK'
  BY <1>5 DEF AssignCrc
<1>6. ASSUME NEW t \in Tasks, TakeForSave(t) PROVE TypeOK'
  BY <1>6 DEF TakeForSave, Pages
<1>7. ASSUME NEW t \in Tasks, CopyPage(t) PROVE TypeOK'
  <2>1. ram[page[t]] \in Values
    BY DEF Contents
  <2> QED BY <1>7, <2>1 DEF CopyPage
<1>8. ASSUME NEW t \in Tasks, WritePage(t) PROVE TypeOK'
  <2>1. rom' \in Contents /\ rom_crc' \in Contents /\ saved' \in Contents
    BY <1>8 DEF WritePage, Contents
  <2>2. page' \in [Tasks -> Pages]
    BY <1>8 DEF WritePage, Pages
  <2>3. pc' \in [Tasks -> {"off", "load", "idle", "changing", "crc", "assign", "take",
                           "copy", "write"}]
        /\ configuration_semaphore' \in Tasks \cup {Free}
    BY <1>8 DEF WritePage
  <2> QED BY <1>8, <2>1, <2>2, <2>3 DEF WritePage
<1>9. ASSUME PowerLoss \/ Reset PROVE TypeOK'
  BY <1>9 DEF PowerLoss, Reset, Restart
<1>10. CASE Load
  BY <1>1, <1>10 DEF Load
<1>11. CASE Start
  BY <1>11 DEF Start
<1> QED BY <1>2, <1>3, <1>4, <1>5, <1>6, <1>7, <1>8, <1>9, <1>10, <1>11 DEF Next, Session

\* The semaphore keeps two tasks apart while one computes a CRC or saves, and
\* the monitor task boots alone.
LEMMA StepMutex == TypeOK /\ Mutex /\ Boot /\ Next => Mutex' /\ Boot'
<1> SUFFICES ASSUME TypeOK, Mutex, Boot, Next PROVE Mutex' /\ Boot'
  OBVIOUS
<1> USE StoreAssumption DEF TypeOK, Mutex, Boot, Saving, At
<1>1. ASSUME NEW t \in Tasks, Session(t) PROVE Mutex' /\ Boot'
  BY <1>1 DEF Session, Change, TakeForCrc, ComputeCrc, AssignCrc, TakeForSave, CopyPage,
     WritePage
<1>2. ASSUME PowerLoss \/ Reset \/ Load \/ Start PROVE Mutex' /\ Boot'
  BY <1>2 DEF PowerLoss, Reset, Restart, Load, Start
<1> QED BY <1>1, <1>2 DEF Next

LEMMA StepWriters == TypeOK /\ Boot /\ Writers /\ Next => Writers'
<1> SUFFICES ASSUME TypeOK, Boot, Writers, Next PROVE Writers'
  OBVIOUS
<1> USE StoreAssumption DEF TypeOK, Boot, Writers, At
<1>1. ASSUME NEW t \in Tasks, Session(t) PROVE Writers'
  BY <1>1 DEF Session, Change, TakeForCrc, ComputeCrc, AssignCrc, TakeForSave, CopyPage,
     WritePage
<1>2. ASSUME PowerLoss \/ Reset \/ Load \/ Start PROVE Writers'
  BY <1>2 DEF PowerLoss, Reset, Restart, Load, Start
<1> QED BY <1>1, <1>2 DEF Next

\* Nobody leaves a page of the EEPROM behind RAM and is not going to write it.
LEMMA StepCurrent == TypeOK /\ Mutex /\ Boot /\ Current /\ Next => Current'
<1> SUFFICES ASSUME TypeOK, Mutex, Boot, Current, Next PROVE Current'
  OBVIOUS
<1> USE StoreAssumption DEF TypeOK, At
<1>1. ASSUME NEW t \in Tasks, Owes(t)' PROVE Current'
  BY <1>1 DEF Current, Owed
<1>2. ASSUME NEW t \in Tasks,
             Change(t) \/ TakeForCrc(t) \/ ComputeCrc(t) \/ AssignCrc(t)
      PROVE  Owes(t)'
  BY <1>2 DEF Change, TakeForCrc, ComputeCrc, AssignCrc, Owes
<1>3. ASSUME NEW t \in Tasks, TakeForSave(t) PROVE Current'
  <2>1. Saving(t)' /\ page'[t] = 1
    BY <1>3 DEF TakeForSave, Saving
  <2>2. \A p \in Pages : Ahead(p)'
    BY <2>1 DEF Ahead, Pages
  <2>3. \A u \in Tasks : pc'[u] # "write"
    BY <1>3 DEF TakeForSave, Mutex, Saving
  <2> QED BY <2>1, <2>2, <2>3 DEF Current
<1>4. ASSUME NEW t \in Tasks, CopyPage(t) PROVE Current'
  <2>1. CASE Owed
    BY <1>4, <2>1 DEF CopyPage, Owed, Owes, Current
  <2>2. CASE ~Owed
    <3>1. \A u \in Tasks : Saving(u) => u = t
      BY <1>4 DEF CopyPage, Mutex, Saving
    <3>2. buffer'[t] = [data |-> ram[page[t]], crc |-> crc]
          /\ Saving(t)' /\ page' = page /\ rom' = rom /\ rom_crc' = rom_crc
          /\ ram' = ram /\ crc' = crc
      BY <1>4 DEF CopyPage, Saving
    <3>3. \A u \in Tasks : pc'[u] = "write" => u = t
      BY <1>4, <3>1 DEF CopyPage, Saving
    <3>4. \A p \in Pages : Ahead(p) => Ahead(p)'
      BY <3>1, <3>2 DEF Ahead
    <3> QED BY <2>2, <3>2, <3>3, <3>4 DEF Current
  <2> QED BY <2>1, <2>2
<1>5. ASSUME NEW t \in Tasks, WritePage(t) PROVE Current'
  <2>1. CASE Owed
    BY <1>5, <2>1 DEF WritePage, Owed, Owes, Current
  <2>2. CASE ~Owed
    <3>1. \A u \in Tasks : Saving(u) => u = t
      BY <1>5 DEF WritePage, Mutex, Saving
    <3>2. buffer[t].data = ram[page[t]] /\ buffer[t].crc = crc
      BY <1>5, <2>2 DEF WritePage, Current
    <3>3. \A u \in Tasks : pc'[u] # "write"
      BY <1>5, <3>1 DEF WritePage, Saving
    <3>4. ASSUME NEW p \in Pages PROVE rom'[p] = ram'[p] \/ Ahead(p)'
      <4>1. CASE p = page[t]
        BY <1>5, <3>2, <4>1 DEF WritePage, Contents
      <4>2. CASE p < page[t]
        <5>1. rom'[p] = rom[p] /\ ram' = ram
          BY <1>5, <4>2 DEF WritePage, Contents, Pages
        <5>2. ~Ahead(p)
          BY <3>1, <4>2 DEF Ahead, Pages
        <5> QED BY <2>2, <5>1, <5>2 DEF Current
      <4>3. CASE p > page[t]
        <5>1. Saving(t)' /\ page'[t] <= p
          BY <1>5, <4>3 DEF WritePage, Saving, Pages
        <5> QED BY <5>1 DEF Ahead
      <4>4. p \in Nat /\ page[t] \in Nat
        BY DEF Pages
      <4>5. p = page[t] \/ p < page[t] \/ p > page[t]
        <5> HIDE DEF TypeOK, At
        <5> QED BY <4>4
      <4> QED BY <4>1, <4>2, <4>3, <4>5, Zenon
    <3>5. rom_crc' = crc' \/ \E u \in Tasks : Saving(u)'
      BY <1>5, <3>2 DEF WritePage, Saving
    <3> QED BY <3>3, <3>4, <3>5 DEF Current
  <2> QED BY <2>1, <2>2
<1>6. ASSUME PowerLoss \/ Reset PROVE Owes(Monitor)'
  BY <1>6 DEF PowerLoss, Reset, Restart, Owes
<1>7. CASE Load
  <2>1. CASE Valid
    <3>1. \A u \in Tasks : pc'[u] # "write"
      BY <1>7 DEF Load, Boot
    <3> QED BY <1>7, <2>1, <3>1 DEF Load, Valid, Current
  <2>2. CASE ~Valid
    BY <1>7, <2>2, <1>1 DEF Load, Owes
  <2> QED BY <2>1, <2>2
<1>8. CASE Start
  <2>1. CASE Owed
    BY <1>8, <2>1 DEF Start, Owed, Owes, Current
  <2>2. CASE ~Owed
    BY <1>8, <2>2 DEF Start, Current, Ahead, Saving
  <2> QED BY <2>1, <2>2
<1> QED BY <1>1, <1>2, <1>3, <1>4, <1>5, <1>6, <1>7, <1>8 DEF Next, Session

\* A lone task finds at each point what it has made sure of, and a boot finds
\* the CRC of what was saved or a store that shows it is torn.
LEMMA StepLone == IInv /\ Next => LoneSession'
<1> SUFFICES ASSUME IInv, Next, Lone' PROVE Settled'
  BY DEF LoneSession
<1> USE StoreAssumption DEF IInv, TypeOK, At
<1>1. ASSUME NEW t \in Tasks, Session(t) PROVE Settled'
  <2>1. Lone /\ t \in writers'
    BY <1>1 DEF Session, Change, TakeForCrc, ComputeCrc, AssignCrc, TakeForSave, CopyPage,
       WritePage, Writers, Lone
  <2>2. \A u \in Tasks : u # t => pc[u] \in {"off", "idle", "load"} /\ pc'[u] = pc[u]
    BY <1>1, <2>1 DEF Session, Change, TakeForCrc, ComputeCrc, AssignCrc, TakeForSave, CopyPage,
       WritePage, Writers, Lone
  <2>3. \A u \in Tasks : u # t => Sound(u)'
    BY <2>2 DEF Sound
  <2>4. Sound(t) /\ (rom_crc = saved \/ Torn)
    BY <2>1 DEF LoneSession, Settled
  <2>5. CASE ~WritePage(t)
    <3>1. rom_crc' = saved' \/ Torn'
      BY <1>1, <2>4, <2>5 DEF Session, Change, TakeForCrc, ComputeCrc, AssignCrc, TakeForSave,
         CopyPage, Torn
    <3>2. ~Rest'
      BY <1>1, <2>5 DEF Session, Change, TakeForCrc, ComputeCrc, AssignCrc, TakeForSave,
         CopyPage, Rest
    <3>3. CASE Change(t) \/ TakeForCrc(t)
      BY <3>3, <3>1, <3>2, <2>3 DEF Change, TakeForCrc, Sound, Pages, Settled
    <3>4. CASE ComputeCrc(t)
      <4>1. \A p \in Pages : p <= page[t] => computed'[t][p] = ram'[p]
        BY <3>4, <2>4 DEF ComputeCrc, Sound, Contents, Pages
      <4>2. CASE page[t] < PAGES
        <5>1. pc'[t] = "crc" /\ page'[t] = page[t] + 1
          BY <3>4, <4>2 DEF ComputeCrc
        <5> QED BY <4>1, <5>1, <3>1, <3>2, <2>3 DEF Sound, Pages, Settled
      <4>3. CASE ~(page[t] < PAGES)
        <5>1. pc'[t] = "assign" /\ computed'[t] \in Contents /\ ram' \in Contents
          BY <3>4, <4>3 DEF ComputeCrc, Contents
        <5>2. \A p \in Pages : computed'[t][p] = ram'[p]
          BY <4>1, <4>3 DEF Pages
        <5>3. computed'[t] = ram'
          BY <5>1, <5>2 DEF Contents
        <5> QED BY <5>1, <5>3, <3>1, <3>2, <2>3 DEF Sound, Settled
      <4> QED BY <4>2, <4>3
    <3>5. CASE AssignCrc(t)
      BY <3>5, <3>1, <3>2, <2>3, <2>4 DEF AssignCrc, Sound, Settled
    <3>6. CASE TakeForSave(t)
      BY <3>6, <3>1, <3>2, <2>3, <2>4 DEF TakeForSave, Sound, Settled
    <3>7. CASE CopyPage(t)
      BY <3>7, <3>1, <3>2, <2>3, <2>4 DEF CopyPage, Sound, Settled
    <3> QED BY <1>1, <2>5, <3>3, <3>4, <3>5, <3>6, <3>7 DEF Session
  <2>6. CASE WritePage(t)
    <3>1. pc[t] = "write" /\ crc = ram /\ crc' = ram'
      BY <2>6, <2>4 DEF WritePage, Sound
    <3>2. ~Owed
      BY <2>2, <3>1 DEF Owed, Owes, Boot
    <3>3. buffer[t].crc = crc
      BY <3>1, <3>2 DEF Current
    <3>4. Sound(t)'
      BY <2>6, <3>1 DEF WritePage, Sound
    <3>5. CASE page[t] < PAGES
      <4>1. rom'[PAGES] = rom[PAGES] /\ rom_crc' = rom_crc /\ saved' = saved
        BY <2>6, <3>5 DEF WritePage, Contents, Pages
      <4> QED BY <2>3, <2>4, <3>1, <3>4, <4>1 DEF Torn, Settled
    <3>6. CASE ~(page[t] < PAGES)
      <4>1. rom_crc' = saved'
        BY <2>6, <3>1, <3>3, <3>6 DEF WritePage
      <4> QED BY <2>3, <3>1, <3>4, <4>1 DEF Settled
    <3> QED BY <3>5, <3>6
  <2> QED BY <2>5, <2>6
<1>2. CASE PowerLoss \/ Reset
  <2>1. Lone /\ \A u \in Tasks : pc'[u] \in {"off", "load"}
    BY <1>2 DEF PowerLoss, Reset, Restart, Lone
  <2>2. pc'[Monitor] = "load" /\ rom' = rom /\ rom_crc' = rom_crc /\ saved' = saved
    BY <1>2 DEF PowerLoss, Reset, Restart
  <2> QED BY <2>1, <2>2 DEF LoneSession, Settled, Rest, Sound, Torn
<1>3. CASE Load
  <2>1. \A u \in Tasks : pc'[u] \in {"off", "idle", "changing"}
    BY <1>3 DEF Load, Boot
  <2>2. CASE Valid
    BY <1>3, <2>1, <2>2 DEF Load, Valid, Settled, Sound
  <2>3. CASE ~Valid
    <3>1. Lone /\ pc'[Monitor] = "changing"
      BY <1>3, <2>3 DEF Load, Lone
    <3> QED BY <1>3, <2>1, <2>3, <3>1 DEF Load, LoneSession, Settled, Rest, Sound, Torn
  <2> QED BY <2>2, <2>3
<1>4. CASE Start
  <2>1. Lone
    BY <1>4 DEF Start, Lone
  <2>2. \A u \in Tasks : pc'[u] = pc[u] \/ (pc[u] = "off" /\ pc'[u] = "idle")
    BY <1>4 DEF Start
  <2>3. Rest' => Rest
    BY <2>2 DEF Rest
  <2> QED BY <1>4, <2>1, <2>2, <2>3 DEF Start, LoneSession, Settled, Sound, Torn
<1> QED BY <1>1, <1>2, <1>3, <1>4 DEF Next

-----------------------------------------------------------------------------
(* The theorems.                                                           *)

LEMMA Invariant == Spec => []IInv
<1> USE StoreAssumption
<1>1. Init => IInv
  <2> SUFFICES ASSUME Init PROVE IInv
    OBVIOUS
  <2> DEFINE other == CHOOSE v \in Values : v # Default
  <2>1. other \in Values /\ other # Default
    OBVIOUS
  <2> HIDE DEF other
  <2>2. DefaultContent \in Contents /\ [p \in Pages |-> other] \in Contents
    BY <2>1 DEF DefaultContent, Contents
  <2>3. TypeOK
    <3>1. rom_crc \in Contents
      BY <2>2 DEF Init, other
    <3>2. 1 \in Pages
      BY DEF Pages
    <3> QED BY <2>2, <3>1, <3>2 DEF Init, TypeOK
  <2>4. Owed /\ Mutex /\ Boot /\ Writers
    BY DEF Init, Owed, Owes, Mutex, Saving, Boot, Writers
  <2>5. Settled
    <3>1. rom_crc = saved \/ Torn
      <4>1. CASE rom_crc = DefaultContent
        BY <4>1 DEF Init
      <4>2. CASE rom_crc = [p \in Pages |-> other]
        BY <2>1, <4>2 DEF Init, Torn, DefaultContent, Pages
      <4> QED BY <4>1, <4>2 DEF Init, other
    <3> QED BY <3>1 DEF Init, Settled, Sound, Rest
  <2> QED BY <2>3, <2>4, <2>5 DEF IInv, Current, LoneSession
<1>2. IInv /\ [Next]_vars => IInv'
  <2> SUFFICES ASSUME IInv, [Next]_vars PROVE IInv'
    OBVIOUS
  <2>1. CASE Next
    BY <2>1, StepTypes, StepMutex, StepWriters, StepCurrent, StepLone DEF IInv
  <2>2. CASE UNCHANGED vars
    BY <2>2 DEF vars, device, IInv, TypeOK, Mutex, Saving, Boot, Current, Owed, Owes, Ahead,
       Writers, LoneSession, Lone, Settled, Sound, Rest, Torn
  <2> QED BY <2>1, <2>2
<1> QED BY <1>1, <1>2, PTL DEF Spec

\* Every variable keeps its type; no save runs past the last page.
THEOREM TypeCorrect == Spec => []TypeOK
BY Invariant, PTL DEF IInv

\* When all tasks are idle the EEPROM holds what RAM holds, page by page.
THEOREM QuietIsCurrent == Spec => []QuietStoreIsCurrent
<1>1. IInv => QuietStoreIsCurrent
  <2> SUFFICES ASSUME IInv, AllIdle PROVE rom = ram /\ rom_crc = crc
    BY DEF QuietStoreIsCurrent
  <2>1. \A t \in Tasks : ~Owes(t) /\ ~Saving(t)
    BY DEF AllIdle, Owes, Saving
  <2>2. (\A p \in Pages : rom[p] = ram[p]) /\ rom_crc = crc
    BY <2>1 DEF IInv, Current, Owed, Ahead
  <2> QED BY <2>2 DEF IInv, TypeOK, Contents
<1> QED BY <1>1, Invariant, PTL

\* A lone task's sessions leave a store that the next boot accepts.
THEOREM LoneIsValid == Spec => []LoneSaveIsValid
<1>1. QuietStoreIsCurrent /\ IInv => LoneSaveIsValid
  BY DEF QuietStoreIsCurrent, IInv, LoneSession, Settled, Rest, AllIdle, LoneSaveIsValid, Valid
<1> QED BY <1>1, QuietIsCurrent, Invariant, PTL

\* A boot takes what was saved last, whole, or the defaults.
THEOREM RecoversSaved == Spec => RecoversLastSaved
<1> DEFINE Boots == pc[Monitor] = "load" /\ pc'[Monitor] # "load" /\ Lone
                      => ram' \in {saved, DefaultContent}
<1>1. IInv /\ [Next]_vars => [Boots]_vars
  <2> SUFFICES ASSUME IInv, Next, pc[Monitor] = "load", pc'[Monitor] # "load", Lone
               PROVE  ram' \in {saved, DefaultContent}
    OBVIOUS
  <2>1. Load
    <3>1. \A t \in Tasks : pc[t] \in {"load", "off"}
      BY DEF IInv, Boot
    <3> QED BY <3>1 DEF Next, Session, Change, TakeForCrc, ComputeCrc, AssignCrc, TakeForSave,
            CopyPage, WritePage, PowerLoss, Reset, Start
  <2>2. CASE Valid
    BY <2>1, <2>2 DEF Load, Valid, IInv, LoneSession, Settled, Torn
  <2>3. CASE ~Valid
    BY <2>1, <2>3 DEF Load
  <2> QED BY <2>2, <2>3
<1> QED BY <1>1, Invariant, PTL DEF Spec, RecoversLastSaved

-----------------------------------------------------------------------------
(* The refinement.                                                         *)

\* When a lone task writes the last page, the EEPROM holds RAM and its CRC.
LEMMA LoneSaveEnds ==
  ASSUME IInv, IInv', Lone, NEW t \in Tasks, WritePage(t), ~(page[t] < PAGES)
  PROVE  saved' = ram /\ Wakes' = ram
<1> USE StoreAssumption DEF IInv, TypeOK, At
<1>1. t \in writers /\ \A u \in Tasks : u # t => pc[u] \in {"off", "idle", "load"}
  BY DEF WritePage, Writers, Lone
<1>2. \A u \in Tasks : pc'[u] \in {"off", "idle"}
  BY <1>1 DEF WritePage, Boot
<1>3. ram' = ram /\ crc' = crc /\ saved' = ram /\ Lone'
  BY DEF WritePage, Lone
<1>4. ~Owed' /\ \A p \in Pages : ~Ahead(p)'
  BY <1>2 DEF Owed, Owes, Ahead, Saving
<1>5. (\A p \in Pages : rom'[p] = ram'[p]) /\ rom_crc' = crc'
  BY <1>2, <1>4 DEF Current, Saving
<1>6. crc' = ram'
  BY <1>2, <1>3 DEF LoneSession, Settled, Rest
<1>7. rom' = ram'
  BY <1>5 DEF Contents
<1> QED BY <1>3, <1>5, <1>6, <1>7 DEF Wakes, Valid

\* A boot would take the same as long as the EEPROM is not written, and only a new
\* writer shares the RAM copy.
LEMMA EepromUnwritten ==
  UNCHANGED <<rom, rom_crc, writers>> => UNCHANGED <<Wakes, ~Lone>>
BY DEF Wakes, Valid, Lone

\* Every step of the store is a step of ConfigurationStore or a stutter.
LEMMA StoreStep ==
  ASSUME IInv, IInv', [Next]_vars
  PROVE  [Store!Next]_<<ram, saved, Wakes, Phase, ~Lone>>
<1> USE StoreAssumption DEF IInv, TypeOK, At
<1>1. Wakes' \in Contents
  BY DEF DefaultContent, Contents, Wakes
<1>2. ASSUME NEW t \in Tasks, Change(t) PROVE Store!Change
  <2>1. ram' \in Contents /\ saved' = saved /\ Wakes' = Wakes
    BY <1>2 DEF Change, Wakes, Valid
  <2>2. Phase' = Phase /\ Phase # "off"
    BY <1>2 DEF Change, Phase, SaveGoesOn, Boot
  <2>3. ~Lone => ~Lone'
    BY <1>2 DEF Change, Lone
  <2>4. Phase = "saving" => ~Lone'
    BY <1>2 DEF Change, Phase, SaveGoesOn, Lone, Writers
  <2>5. (~Lone)' \in {~Lone, TRUE}
    BY <2>3, Zenon DEF Lone
  <2> QED BY <2>1, <2>2, <2>4, <2>5 DEF Store!Change
<1>3. ASSUME NEW t \in Tasks,
             TakeForCrc(t) \/ ComputeCrc(t) \/ AssignCrc(t) \/ CopyPage(t)
      PROVE  UNCHANGED <<ram, saved, Wakes, Phase, ~Lone>>
  <2>1. UNCHANGED <<ram, saved, rom, rom_crc, writers>>
    BY <1>3 DEF TakeForCrc, ComputeCrc, AssignCrc, CopyPage
  <2>2. Phase' = Phase
    BY <1>3 DEF TakeForCrc, ComputeCrc, AssignCrc, CopyPage, Phase, SaveGoesOn
  <2> QED BY <2>1, <2>2, EepromUnwritten
<1>4. ASSUME NEW t \in Tasks, TakeForSave(t) PROVE Store!BeginSave
  <2>1. Phase = "on"
    BY <1>4 DEF TakeForSave, Phase, SaveGoesOn, Mutex, Saving, Boot
  <2>2. Phase' = "saving"
    BY <1>4 DEF TakeForSave, Phase, SaveGoesOn, Boot
  <2>3. UNCHANGED <<ram, saved, rom, rom_crc, writers>>
    BY <1>4 DEF TakeForSave
  <2> QED BY <2>1, <2>2, <2>3, EepromUnwritten DEF Store!BeginSave
<1>5. ASSUME NEW t \in Tasks, WritePage(t) PROVE Store!Tear \/ Store!EndSave
  <2>1. Phase = "saving" /\ ram' = ram /\ (~Lone)' = ~Lone
    BY <1>5 DEF WritePage, Phase, SaveGoesOn, Boot, Lone
  <2>2. CASE page[t] < PAGES
    <3>1. Phase' = "saving" /\ saved' = saved
      BY <1>5, <2>2 DEF WritePage, Phase, SaveGoesOn, Boot
    <3>2. Lone => Wakes' \in {saved, DefaultContent}
      BY <1>5, <3>1 DEF WritePage, LoneSession, Lone, Settled, Torn, Wakes, Valid
    <3> QED BY <1>1, <2>1, <3>1, <3>2 DEF Store!Tear
  <2>3. CASE ~(page[t] < PAGES)
    <3>1. Phase' = "on" /\ saved' = ram
      BY <1>5, <2>3 DEF WritePage, Phase, SaveGoesOn, Mutex, Saving, Boot
    <3>2. Lone => Wakes' = ram
      BY <1>5, <2>3, LoneSaveEnds
    <3> QED BY <1>1, <2>1, <3>1, <3>2 DEF Store!EndSave
  <2> QED BY <2>2, <2>3
<1>6. CASE PowerLoss \/ Reset
  <2>1. UNCHANGED <<ram, saved, rom, rom_crc, writers>>
    BY <1>6 DEF PowerLoss, Reset, Restart
  <2>2. Phase # "off" /\ Phase' = "off"
    BY <1>6 DEF PowerLoss, Reset, Restart, Phase
  <2>3. Store!PowerOff
    BY <2>1, <2>2, EepromUnwritten DEF Store!PowerOff
  <2> QED BY <2>3 DEF Store!Next
<1>7. CASE Load
  <2>1. Phase = "off" /\ Phase' = "on"
    BY <1>7 DEF Load, Boot, Phase, SaveGoesOn
  <2>2. Wakes' = Wakes
    BY <1>7 DEF Load, Wakes, Valid
  <2>3. CASE Valid
    <3>1. ram' = Wakes /\ saved' = Wakes /\ (~Lone)' = FALSE
      BY <1>7, <2>3 DEF Load, Wakes, Lone
    <3>2. Store!PowerOn
      BY <2>1, <2>2, <3>1 DEF Store!PowerOn
    <3> QED BY <3>2 DEF Store!Next
  <2>4. CASE ~Valid
    <3>1. ram' = DefaultContent /\ Wakes = DefaultContent /\ saved' = saved
      BY <1>7, <2>4 DEF Load, Wakes
    <3>2. ~Lone => ~Lone'
      BY <1>7, <2>4 DEF Load, Lone
    <3>3. (~Lone)' \in {~Lone, TRUE}
      BY <3>2, Zenon DEF Lone
    <3>4. Store!Fallback
      BY <2>1, <2>2, <3>1, <3>3 DEF Store!Fallback
    <3> QED BY <3>4 DEF Store!Next
  <2> QED BY <2>3, <2>4
<1>8. CASE Start
  <2>1. UNCHANGED <<ram, saved, rom, rom_crc, writers>>
    BY <1>8 DEF Start
  <2>2. Phase' = Phase
    BY <1>8 DEF Start, Phase, SaveGoesOn
  <2> QED BY <2>1, <2>2, EepromUnwritten
<1>9. CASE UNCHANGED vars
  BY <1>9, EepromUnwritten DEF vars, device, Phase, SaveGoesOn
<1>10. CASE Next
  <2>1. ASSUME NEW t \in Tasks, Session(t)
        PROVE  [Store!Next]_<<ram, saved, Wakes, Phase, ~Lone>>
    BY <2>1, <1>2, <1>3, <1>4, <1>5 DEF Session, Store!Next
  <2> QED BY <1>10, <2>1, <1>6, <1>7, <1>8 DEF Next
<1> QED BY <1>9, <1>10

(* The store implements ConfigurationStore (configuration.c over eprom.c): what a  *)
(* boot would take is what was kept or the defaults until a save is over, and then *)
(* what was saved.                                                                 *)
THEOREM StoreImplementation == Spec => ImplementsStore
<1>1. Init => Store!Init
  <2> SUFFICES ASSUME Init PROVE Store!Init
    OBVIOUS
  <2>1. Phase = "off" /\ (~Lone) = FALSE
    BY StoreAssumption DEF Init, Phase, Lone
  <2>2. ram = DefaultContent /\ saved = DefaultContent /\ Wakes = DefaultContent
    BY DEF Init, Wakes
  <2> QED BY <2>1, <2>2 DEF Store!Init
<1>2. IInv /\ IInv' /\ [Next]_vars
        => [Store!Next]_<<ram, saved, Wakes, Phase, ~Lone>>
  BY StoreStep
<1> QED BY <1>1, <1>2, Invariant, PTL DEF Spec, ImplementsStore, Store!Spec, Store!store

(* What ConfigurationStore promises of itself: nothing but the configuration kept, *)
(* or the defaults, comes out of an EEPROM that one task at a time has saved.      *)
LEMMA AbstractKeeps == Store!Spec => []Store!KeptOrDefault
<1>1. Store!Init => Store!KeptOrDefault
  BY DEF Store!Init, Store!KeptOrDefault
<1>2. Store!KeptOrDefault /\ [Store!Next]_(Store!store) => Store!KeptOrDefault'
  BY DEF Store!KeptOrDefault, Store!Next, Store!store, Store!Change, Store!BeginSave,
     Store!Tear, Store!EndSave, Store!PowerOff, Store!PowerOn, Store!Fallback
<1> QED BY <1>1, <1>2, PTL DEF Store!Spec

(* So the pages and the CRC keep that promise, at every moment and not only at a   *)
(* boot: were power to fail now, the boot would take the configuration last saved  *)
(* or the defaults, as long as no two tasks share the RAM copy.                    *)
THEOREM StoreKeeps == Spec => []Store!KeptOrDefault
BY StoreImplementation, AbstractKeeps, PTL DEF ImplementsStore
==============================================================================
