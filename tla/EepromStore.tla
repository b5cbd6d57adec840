----------------------------- MODULE EepromStore -----------------------------
(***************************************************************************)
(* The configuration store (cloud-wise-sdk/logic/configuration.c over      *)
(* drivers/eprom.c): one RAM copy that several tasks change without a      *)
(* lock, a CRC kept in it, and a save that copies it to the EEPROM page by *)
(* page under configuration_semaphore.  Every task's session is the same:  *)
(* change pages, compute the CRC (semaphore taken and given), store the    *)
(* CRC in RAM (no semaphore), save (semaphore taken and given).            *)
(*                                                                         *)
(* The content of a page is one of Values; the CRC of a content is that    *)
(* content itself (two contents never collide here).  A page is written    *)
(* whole or not at all.                                                    *)
(*                                                                         *)
(* A definition introduced by "Mutant:" is not part of the specification:  *)
(* it is its neighbour with a plausible mistake, and the property named    *)
(* there must fail when it takes the neighbour's place.                    *)
(***************************************************************************)
EXTENDS Naturals

CONSTANTS
  Tasks,          \* tasks that change and save the configuration
  Monitor,        \* the one that loads it at boot, and that can reset the device
  PAGES,          \* pages a save writes (12 in the source), the CRC in the last one
  Values,         \* contents of a page
  Default,        \* what configuration_set_default leaves in every page
  MAX_CHANGES,    \* bound: page changes in a behaviour
  MAX_CRASHES     \* bound: power losses in a behaviour

Free == "free"

ASSUME StoreAssumption ==
  /\ Monitor \in Tasks /\ Free \notin Tasks
  /\ Default \in Values /\ \E v \in Values : v # Default
  /\ PAGES \in Nat \ {0}
  /\ MAX_CHANGES \in Nat /\ MAX_CRASHES \in Nat

Pages == 1..PAGES
Contents == [Pages -> Values]
DefaultContent == [p \in Pages |-> Default]

VARIABLES
  ram, crc,        \* eprom_configuration, and its crc field
  rom, rom_crc,    \* the EEPROM: pages, and the CRC in the last one
  pc, page,        \* each task's point, and the page it is at
  computed,        \* each task's calculated_crc
  buffer,          \* each task's page buffer
  configuration_semaphore,
  changes, crashes,
  saved,           \* history: content last saved or loaded
  writers          \* history: tasks that changed RAM since it was last loaded valid

device == <<ram, crc, rom, rom_crc, pc, page, computed, buffer,
            configuration_semaphore>>
vars == <<device, changes, crashes, saved, writers>>

At(t, p) == pc' = [pc EXCEPT ![t] = p]

-----------------------------------------------------------------------------
(* A session of task t.                                                    *)

\* A field of the configuration is assigned: nobody is asked for permission.
Change(t) ==
  /\ pc[t] \in {"idle", "changing"} /\ changes < MAX_CHANGES
  /\ \E p \in Pages : \E v \in Values \ {ram[p]} : ram' = [ram EXCEPT ![p] = v]
  /\ changes' = changes + 1 /\ writers' = writers \cup {t}
  /\ At(t, "changing")
  /\ UNCHANGED <<crc, rom, rom_crc, page, computed, buffer, configuration_semaphore,
                 crashes, saved>>

\* configuration_calculate_eprom_crc: the semaphore is held for the computation only.
TakeForCrc(t) ==
  /\ pc[t] = "changing" /\ configuration_semaphore = Free
  /\ configuration_semaphore' = t /\ At(t, "crc")
  /\ page' = [page EXCEPT ![t] = 1]
  /\ UNCHANGED <<ram, crc, rom, rom_crc, computed, buffer, changes, crashes, saved, writers>>

\* The task can be preempted between two pages, and another change the next one.
ComputeCrc(t) ==
  /\ pc[t] = "crc"
  /\ computed' = [computed EXCEPT ![t][page[t]] = ram[page[t]]]
  /\ IF page[t] < PAGES
       THEN page' = [page EXCEPT ![t] = @ + 1] /\ UNCHANGED <<configuration_semaphore, pc>>
       ELSE configuration_semaphore' = Free /\ At(t, "assign") /\ UNCHANGED page
  /\ UNCHANGED <<ram, crc, rom, rom_crc, buffer, changes, crashes, saved, writers>>

\* Mutant: the CRC field is left as it was (LoneSaveIsValid).
AssignNothing(t) ==
  /\ pc[t] = "assign"
  /\ At(t, "take")
  /\ UNCHANGED <<ram, crc, rom, rom_crc, page, computed, buffer,
                 configuration_semaphore, changes, crashes, saved, writers>>

\* configuration_save_with_crc stores the CRC in RAM without the semaphore.
AssignCrc(t) ==
  /\ pc[t] = "assign"
  /\ crc' = computed[t]
  /\ At(t, "take")
  /\ UNCHANGED <<ram, rom, rom_crc, page, computed, buffer, configuration_semaphore,
                 changes, crashes, saved, writers>>

\* Mutant: the save does not wait for the other task's save (QuietStoreIsCurrent).
TakeAnyway(t) ==
  /\ pc[t] = "take"
  /\ At(t, "copy") /\ page' = [page EXCEPT ![t] = 1]
  /\ UNCHANGED <<ram, crc, rom, rom_crc, computed, buffer, configuration_semaphore,
                 changes, crashes, saved, writers>>

\* configuration_save, page by page: copy to the buffer, then eprom_write.
TakeForSave(t) ==
  /\ pc[t] = "take" /\ configuration_semaphore = Free
  /\ configuration_semaphore' = t
  /\ At(t, "copy") /\ page' = [page EXCEPT ![t] = 1]
  /\ UNCHANGED <<ram, crc, rom, rom_crc, computed, buffer, changes, crashes, saved, writers>>

CopyPage(t) ==
  /\ pc[t] = "copy"
  /\ buffer' = [buffer EXCEPT ![t] = [data |-> ram[page[t]], crc |-> crc]]
  /\ At(t, "write")
  /\ UNCHANGED <<ram, crc, rom, rom_crc, page, computed, configuration_semaphore,
                 changes, crashes, saved, writers>>

\* Mutant: the page counter runs past the last page (TypeOK).
WritePastEnd(t) ==
  /\ pc[t] = "write"
  /\ rom' = [rom EXCEPT ![page[t]] = buffer[t].data]
  /\ page' = [page EXCEPT ![t] = @ + 1]
  /\ IF page[t] < PAGES
       THEN At(t, "copy") /\ UNCHANGED <<rom_crc, configuration_semaphore, saved>>
       ELSE /\ rom_crc' = buffer[t].crc /\ configuration_semaphore' = Free
            /\ At(t, "idle") /\ saved' = ram
  /\ UNCHANGED <<ram, crc, computed, buffer, changes, crashes, writers>>

WritePage(t) ==
  /\ pc[t] = "write"
  /\ rom' = [rom EXCEPT ![page[t]] = buffer[t].data]
  /\ IF page[t] < PAGES
       THEN /\ page' = [page EXCEPT ![t] = @ + 1] /\ At(t, "copy")
            /\ UNCHANGED <<rom_crc, configuration_semaphore, saved>>
       ELSE /\ rom_crc' = buffer[t].crc /\ configuration_semaphore' = Free
            /\ At(t, "idle") /\ saved' = ram /\ UNCHANGED page
  /\ UNCHANGED <<ram, crc, computed, buffer, changes, crashes, writers>>

-----------------------------------------------------------------------------
(* Reset and boot.                                                         *)

\* RAM and the tasks are gone; only the monitor task runs until it has loaded.
Restart ==
  /\ pc' = [t \in Tasks |-> IF t = Monitor THEN "load" ELSE "off"]
  /\ configuration_semaphore' = Free
  /\ UNCHANGED <<ram, crc, rom, rom_crc, page, computed, buffer, changes, saved,
                 writers>>

\* Power fails at any moment ...
PowerLoss ==
  /\ pc[Monitor] # "load" /\ crashes < MAX_CRASHES /\ crashes' = crashes + 1
  /\ Restart

\* ... and the monitor task resets the device after a save of its own (reset_device),
\* without asking whether the other task is in the middle of one.
Reset ==
  /\ pc[Monitor] = "idle" /\ Monitor \in writers
  /\ UNCHANGED crashes /\ Restart

\* Mutant: the CRC is not checked (RecoversLastSaved).
Unchecked == TRUE

Valid == rom_crc = rom

\* Mutant: the defaults are not set when the CRC is wrong (ImplementsStore).
LoadsAnyway ==
  /\ pc[Monitor] = "load"
  /\ ram' = rom /\ crc' = rom_crc
  /\ IF Valid
       THEN saved' = rom /\ writers' = {} /\ At(Monitor, "idle")
       ELSE writers' = writers \cup {Monitor} /\ At(Monitor, "changing") /\ UNCHANGED saved
  /\ UNCHANGED <<rom, rom_crc, page, computed, buffer, configuration_semaphore,
                 changes, crashes>>

\* monitor_thread: configuration_load and the CRC check; when it fails the defaults are
\* set, to be saved.
Load ==
  /\ pc[Monitor] = "load"
  /\ IF Valid
       THEN /\ ram' = rom /\ saved' = rom /\ writers' = {}
            /\ At(Monitor, "idle")
       ELSE /\ ram' = DefaultContent /\ writers' = writers \cup {Monitor}
            /\ At(Monitor, "changing") /\ UNCHANGED saved
  /\ crc' = rom_crc
  /\ UNCHANGED <<rom, rom_crc, page, computed, buffer, configuration_semaphore,
                 changes, crashes>>

\* The other tasks have work only after the boot.
Start ==
  /\ pc[Monitor] = "idle" /\ \E t \in Tasks : pc[t] = "off"
  /\ pc' = [t \in Tasks |-> IF pc[t] = "off" THEN "idle" ELSE pc[t]]
  /\ UNCHANGED <<ram, crc, rom, rom_crc, page, computed, buffer,
                 configuration_semaphore, changes, crashes, saved, writers>>

-----------------------------------------------------------------------------
Session(t) ==
  \/ Change(t) \/ TakeForCrc(t) \/ ComputeCrc(t) \/ AssignCrc(t)
  \/ TakeForSave(t) \/ CopyPage(t) \/ WritePage(t)

Next == (\E t \in Tasks : Session(t)) \/ PowerLoss \/ Reset \/ Load \/ Start

\* A device out of production: an EEPROM that was never written.
Init ==
  /\ ram = DefaultContent /\ crc = DefaultContent
  /\ rom = DefaultContent
  /\ rom_crc \in {DefaultContent, [p \in Pages |-> CHOOSE v \in Values : v # Default]}
  /\ pc = [t \in Tasks |-> IF t = Monitor THEN "load" ELSE "off"]
  /\ page = [t \in Tasks |-> 1]
  /\ computed = [t \in Tasks |-> DefaultContent]
  /\ buffer = [t \in Tasks |-> [data |-> Default, crc |-> DefaultContent]]
  /\ configuration_semaphore = Free
  /\ changes = 0 /\ crashes = 0
  /\ saved = DefaultContent /\ writers = {}

Spec == Init /\ [][Next]_vars

-----------------------------------------------------------------------------
TypeOK ==
  /\ ram \in Contents /\ crc \in Contents /\ rom \in Contents /\ rom_crc \in Contents
  /\ pc \in [Tasks -> {"off", "load", "idle", "changing", "crc", "assign", "take", "copy",
                       "write"}]
  /\ page \in [Tasks -> Pages] /\ computed \in [Tasks -> Contents]
  /\ buffer \in [Tasks -> [data : Values, crc : Contents]]
  /\ configuration_semaphore \in Tasks \cup {Free}
  /\ changes \in 0..MAX_CHANGES /\ crashes \in 0..MAX_CRASHES
  /\ saved \in Contents /\ writers \subseteq Tasks

AllIdle == \A t \in Tasks : pc[t] = "idle"
Lone == \A t, u \in writers : t = u

(* Whenever every task has finished its sessions the EEPROM holds what RAM holds,  *)
(* however their changes and saves overlapped: no page of an older configuration   *)
(* is left behind (configuration_save copies and writes under the semaphore).      *)
QuietStoreIsCurrent == AllIdle => rom = ram /\ rom_crc = crc

(* A task whose sessions no other task disturbed leaves a store the next boot      *)
(* accepts: its CRC is the one of its pages.                                       *)
LoneSaveIsValid == AllIdle /\ Lone => Valid

(* Power lost at any moment of one task's session, or the device reset: the boot   *)
(* finds the configuration last saved, or falls back to the defaults; a mixture of *)
(* two configurations is never accepted, nor a new one before its save is over.    *)
RecoversLastSaved ==
  [][pc[Monitor] = "load" /\ pc'[Monitor] # "load" /\ Lone
       => ram' \in {saved, DefaultContent}]_vars

Wakes == IF Valid THEN rom ELSE DefaultContent
SaveGoesOn == \E t \in Tasks : pc[t] \in {"copy", "write"}
Phase == CASE pc[Monitor] = "load"                   -> "off"
           [] pc[Monitor] # "load" /\ SaveGoesOn     -> "saving"
           [] pc[Monitor] # "load" /\ ~SaveGoesOn    -> "on"

Store == INSTANCE ConfigurationStore
           WITH Configurations <- Contents, Default <- DefaultContent,
                config <- ram, kept <- saved, wakes <- Wakes,
                phase <- Phase, shared <- ~Lone

(* Every behaviour of the store, page by page, with its resets, power losses and    *)
(* overlapping sessions, is a behaviour of ConfigurationStore: what a boot would    *)
(* take changes only while a save goes on, is what was kept or the defaults until   *)
(* that save is over, and then what was saved (configuration_save over eprom_write, *)
(* the CRC check of monitor_thread).                                                *)
ImplementsStore == Store!Spec

(* docs/GLOSSARY.md says the EEPROM's "CRC values" are "guarded by semaphores":    *)
(* when all tasks have finished, the stored CRC matches.  configuration_save_with_  *)
(* crc stores the CRC in RAM between two uses of the semaphore, so that a task that *)
(* was preempted there overwrites the CRC of the other one with its own, older one. *)
QuietStoreIsValid == AllIdle => Valid
=============================================================================
