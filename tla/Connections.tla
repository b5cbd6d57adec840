----------------------------- MODULE Connections -----------------------------
(***************************************************************************)
(* The peripherals of the keypad: the roster in the EEPROM, the list of    *)
(* connected devices, and the three parties that work on them.             *)
(*   - the SoftDevice (ble_services_manager.c, nrf_ble_scan.c): scans,     *)
(*     connects what its filter accepts and raises event bits;             *)
(*   - the BLE task (ble_task.c): takes the bits, waits, and verifies or   *)
(*     removes the device that current_conn_info names by then;            *)
(*   - the monitor task (monitor.c, save_bondings in ble_task.c): garage   *)
(*     mode, enrolment, the scan for the phone app, the return to ARMED.   *)
(* connection_list_semaphore is a binary semaphore: any task may give it.  *)
(*                                                                         *)
(* A step ends wherever its task sleeps, waits for the semaphore, or has   *)
(* read what another task may write before it is done with it; a statement *)
(* (the copy of an entry, the reset of the array) is one step.  The server,*)
(* the keys and the timers decide in KeypadMonitor when the monitor acts;  *)
(* here it may do so at any time.  A link may drop at any time, one the    *)
(* firmware asked to drop included.                                        *)
(*                                                                         *)
(* NEW_PASSWORD is not told from DISARMED.                                 *)
(*                                                                         *)
(* A definition introduced by "Mutant:" is not part of the specification:  *)
(* it is its neighbour with a plausible mistake, and the property named    *)
(* there must fail when it takes the neighbour's place.                    *)
(***************************************************************************)
EXTENDS Integers, Sequences, SequencesExt

CONSTANTS
  Leaches, Canbuses, Modems,  \* the devices in radio range, by what their
                              \* Device Information Service says they are
  LINKS,                      \* NRF_SDH_BLE_CENTRAL_LINK_COUNT
  MAX_CONNECTIONS,            \* entries of connections_array
  NoDevice,
  MAX_SESSIONS                \* bound: connections in a behaviour

Devices == Leaches \union Canbuses \union Modems

ASSUME ConnectionsAssumption ==
  /\ Leaches \cap (Canbuses \union Modems) = {} /\ Canbuses \cap Modems = {}
  /\ NoDevice \notin Devices
  /\ LINKS \in Nat \ {0}
  /\ MAX_CONNECTIONS \in Nat /\ MAX_CONNECTIONS >= 4
  /\ MAX_SESSIONS \in Nat

VARIABLES
  saved,                     \* the addresses in eprom_configuration
  connections_array, bonded_count,
  in_bonding_state, afterStudy, enablePairing,
  need_refresh_scan_filter,
  connection_list_semaphore, \* TRUE: available
  scanning, forced_stop_scan, use_mac_address_filter,
  connecting,                \* the device the SoftDevice tries to connect to
  link,                      \* the device on each connection handle
  unread,                    \* handles whose Device Information is not in yet
  current_conn_info, leachfound,
  event_ble_connection_changed,
  ble, peripheral_info, index,  \* where the BLE task is, the copy it verifies,
                                \* and the entry it will write
  monitor, after,               \* where the monitor task is, and where it goes
                                \* on after the routine it has called
  security_state, stopScanDone,
  sessions,                  \* connections so far
  enrolled,     \* history: devices accepted in garage mode, or on the way into
                \* it, since the list was emptied
  app_session,  \* history: was the list changed in ARMED or DISARMED since
                \* it was loaded?  (a device accepted, the app's entry cleared)
  interrupted,  \* history: did a command of the server end garage mode, and
                \* nothing yet the enrolment?
  raced         \* history: did the monitor empty or load the list while the
                \* BLE task was between its search and what it writes there?

list == <<connections_array, bonded_count>>
bonding == <<in_bonding_state, afterStudy>>
scan == <<scanning, forced_stop_scan, use_mac_address_filter>>
radio == <<connecting, link, unread, current_conn_info, leachfound, event_ble_connection_changed,
           sessions>>
task == <<ble, peripheral_info, index>>
point == <<monitor, after>>
security == <<security_state, stopScanDone>>
history == <<enrolled, app_session, interrupted, raced>>
vars == <<saved, list, bonding, enablePairing, need_refresh_scan_filter,
          connection_list_semaphore, scan, radio, task, point, security, history>>

Slots == <<"Leach_address_1", "Leach_address_2", "canbus_Leach_address", "modem_address">>
Handles == 0..(LINKS - 1)
NoHandle == -1
Types == {"UNKNOWN", "NEW", "LEACH", "CANBUS_LEACH", "MODEM"}

TypeOfDevice(d) == IF d \in Leaches THEN "LEACH"
                   ELSE IF d \in Canbuses THEN "CANBUS_LEACH" ELSE "MODEM"
TypeOfSlot(slot) == CASE slot = "canbus_Leach_address" -> "CANBUS_LEACH"
                      [] slot = "modem_address" -> "MODEM"
                      [] OTHER -> "LEACH"

Info(d, type, h, connected) ==
  [addr |-> d, type |-> type, conn_handler |-> h, is_connected |-> connected]
Infos == [addr : Devices \union {NoDevice}, type : Types,
          conn_handler : Handles \union {NoHandle}, is_connected : BOOLEAN]
Nothing == Info(NoDevice, "UNKNOWN", NoHandle, FALSE)

SavedDevices == {saved[s] : s \in Range(Slots)} \ {NoDevice}
Bonded == 1..bonded_count
Listed == {connections_array[i].addr : i \in Bonded}

TypeOK ==
  /\ saved \in [Range(Slots) -> Devices \union {NoDevice}]
  /\ connections_array \in [1..MAX_CONNECTIONS -> Infos]
  /\ bonded_count \in 0..MAX_CONNECTIONS
  /\ {in_bonding_state, afterStudy, enablePairing, need_refresh_scan_filter,
      connection_list_semaphore, scanning, forced_stop_scan,
      use_mac_address_filter, stopScanDone, app_session, interrupted,
      raced} \subseteq BOOLEAN
  /\ connecting \in Devices \union {NoDevice}
  /\ link \in [Handles -> Devices \union {NoDevice}]
  /\ unread \subseteq Handles
  /\ {current_conn_info, peripheral_info} \subseteq Infos
  /\ leachfound \in 0..1
  /\ event_ble_connection_changed \subseteq 1..2
  /\ ble \in {"wait", "settle", "gone", "verify", "recognise", "accept", "unlock",
             "leach", "clear", "resume"}
  /\ index \in 0..MAX_CONNECTIONS
  /\ {monitor, after} \subseteq {"loop", "leach", "empty", "garage", "enrol", "rearm",
       "save", "unbond", "closing", "armed", "refresh", "load", "resume", "report"}
                                \union Range(Slots)
  /\ security_state \in {"ARMED", "DISARMED", "GARAGE"}
  /\ enrolled \subseteq Devices
  /\ sessions \in 0..MAX_SESSIONS

-----------------------------------------------------------------------------
(* The SoftDevice and its event handler (ble_evt_handler).                 *)

\* adv_uuid_compare, for a peripheral that advertises the service.
PassesFilter(d) == use_mac_address_filter => d \in SavedDevices

Free == {h \in Handles : link[h] = NoDevice}

\* An advertisement passes the filter: the scan is stopped, then the
\* SoftDevice is asked to connect.  With all links in use it refuses, and
\* scan_evt_handler ignores that; while it is still connecting to another
\* device it refuses too, which ends in a reset (Restart).
Match(d) ==
  /\ scanning /\ PassesFilter(d) /\ d \notin Range(link)
  /\ scanning' = FALSE
  /\ \/ /\ Free # {} /\ connecting = NoDevice
        /\ sessions < MAX_SESSIONS /\ sessions' = sessions + 1
        /\ connecting' = d
     \/ /\ Free = {}
        /\ UNCHANGED <<connecting, sessions>>
  /\ UNCHANGED <<saved, list, bonding, enablePairing, need_refresh_scan_filter,
                 connection_list_semaphore, forced_stop_scan, use_mac_address_filter,
                 link, unread, current_conn_info, leachfound,
                 event_ble_connection_changed, task, point, security, history>>

\* BLE_GAP_EVT_CONNECTED, some time later, or never: the attempt has no
\* time-out (NRF_BLE_SCAN_SCAN_DURATION is 0).
Connected ==
  /\ connecting # NoDevice
  /\ LET h == Min(Free) IN
       /\ link' = [link EXCEPT ![h] = connecting]
       /\ unread' = unread \union {h}
       /\ current_conn_info' = Info(connecting, "NEW", h, FALSE)
  /\ connecting' = NoDevice
  /\ event_ble_connection_changed' = event_ble_connection_changed \union {1}
  /\ UNCHANGED <<saved, list, bonding, enablePairing, need_refresh_scan_filter,
                 connection_list_semaphore, scan, leachfound, sessions, task, point,
                 security, history>>

\* The model number of some connected device arrives: it is written to
\* current_conn_info, whichever device that is about by now.
Discover(h) ==
  /\ h \in unread
  /\ unread' = unread \ {h}
  /\ current_conn_info' = [current_conn_info EXCEPT !.type = TypeOfDevice(link[h])]
  /\ leachfound' = IF link[h] \in Modems THEN 0 ELSE 1
  /\ UNCHANGED <<saved, list, bonding, enablePairing, need_refresh_scan_filter,
                 connection_list_semaphore, scan, connecting, link,
                 event_ble_connection_changed, sessions, task, point, security, history>>

\* Mutant: a disconnection clears the record of the last connection (TypeOK).
DropForgets(h) ==
  /\ link[h] # NoDevice
  /\ link' = [link EXCEPT ![h] = NoDevice]
  /\ unread' = unread \ {h}
  /\ current_conn_info' = Info(NoDevice, "UNKNOWN", h, FALSE)
  /\ event_ble_connection_changed' = event_ble_connection_changed \union {2}
  /\ UNCHANGED <<saved, list, bonding, enablePairing, need_refresh_scan_filter,
                 connection_list_semaphore, scan, connecting, leachfound, sessions, task,
                 point, security, history>>

\* BLE_GAP_EVT_DISCONNECTED: only the handle is written.
Drop(h) ==
  /\ link[h] # NoDevice
  /\ link' = [link EXCEPT ![h] = NoDevice]
  /\ unread' = unread \ {h}
  /\ current_conn_info' = [current_conn_info EXCEPT !.conn_handler = h]
  /\ event_ble_connection_changed' = event_ble_connection_changed \union {2}
  /\ UNCHANGED <<saved, list, bonding, enablePairing, need_refresh_scan_filter,
                 connection_list_semaphore, scan, connecting, leachfound, sessions, task,
                 point, security, history>>

-----------------------------------------------------------------------------
(* set_leach_state, called by both tasks: what it does besides logging and  *)
(* sending the ignition state.  It gives up when the semaphore is not to be *)
(* had in a tick; activate_bonding_state takes it again just after it was   *)
(* given.  In ARMED every eighth call opens the scan for the phone app: any *)
(* call, here.                                                              *)

AppScan ==
  /\ in_bonding_state' = TRUE
  /\ scanning' = TRUE /\ forced_stop_scan' = FALSE
  /\ use_mac_address_filter' = FALSE
  /\ stopScanDone' = FALSE

StopAppScan ==
  /\ in_bonding_state' = FALSE
  /\ scanning' = FALSE /\ forced_stop_scan' = TRUE
  /\ stopScanDone' = TRUE
  /\ UNCHANGED use_mac_address_filter

SetLeachState(available) ==
  \/ available /\ security_state = "ARMED" /\ AppScan
  \/ available /\ security_state = "DISARMED" /\ ~stopScanDone /\ StopAppScan
  \/ /\ available /\ security_state = "DISARMED" => stopScanDone
     /\ UNCHANGED <<in_bonding_state, scan, stopScanDone>>

-----------------------------------------------------------------------------
(* The BLE task (ble_thread).                                              *)

\* The bits stay set while it waits: a device that is still NEW holds up
\* everything, a disconnection included.
Wait ==
  /\ ble = "wait"
  /\ \/ /\ 1 \in event_ble_connection_changed /\ current_conn_info.type # "NEW"
        /\ ble' = "settle"
     \/ /\ event_ble_connection_changed = {2}
        /\ ble' = "gone"
  /\ UNCHANGED <<saved, list, bonding, enablePairing, need_refresh_scan_filter,
                 connection_list_semaphore, scan, radio, peripheral_info, index,
                 point, security, history>>

\* After the delay of 250: the copy, and the entry of verify_peripheral.
StartVerify ==
  /\ ble = "settle" /\ connection_list_semaphore
  /\ peripheral_info' = current_conn_info
  /\ connection_list_semaphore' = FALSE
  /\ ble' = "verify"
  /\ UNCHANGED <<saved, list, bonding, enablePairing, need_refresh_scan_filter,
                 scan, radio, index, point, security, history>>

\* Mutant: an entry whose device has dropped is passed over (EnrolmentList).
RecognisedConnected(d) == {i \in Bonded : /\ connections_array[i].addr = d
                                          /\ connections_array[i].is_connected}

\* find_peripheral_recognized
Recognised(d) == {i \in Bonded : connections_array[i].addr = d}

\* add_new_device_to_list: as many entries as have a handle come before it.
NewIndex == Cardinality({i \in Bonded : connections_array[i].conn_handler # NoHandle}) + 1

MayJoin == in_bonding_state /\ (leachfound = 1 => enablePairing)

\* After the delay of 500: what verify_peripheral reads of the list before it
\* writes there.  A device that is refused is asked to disconnect, or is left
\* linked (see Drop).  With more entries than MAX_CONNECTIONS the firmware
\* reads past the array: the model stops short of it.
Find ==
  /\ ble = "verify"
  /\ LET known == Recognised(peripheral_info.addr) IN
       \/ /\ known # {}
          /\ index' = Min(known)
          /\ ble' = "recognise" /\ UNCHANGED peripheral_info
       \/ /\ known = {} /\ MayJoin /\ NewIndex <= MAX_CONNECTIONS
          /\ index' = NewIndex
          /\ peripheral_info' = [peripheral_info EXCEPT
                                   !.type = IF leachfound = 1 THEN "LEACH" ELSE @]
          /\ ble' = "accept"
       \/ /\ known = {} /\ (MayJoin => NewIndex > MAX_CONNECTIONS)
          /\ ble' = "unlock" /\ UNCHANGED <<index, peripheral_info>>
  /\ UNCHANGED <<saved, list, bonding, enablePairing, need_refresh_scan_filter,
                 connection_list_semaphore, scan, radio, point, security, history>>

Written == connections_array' = [connections_array EXCEPT
                                   ![index] = [peripheral_info EXCEPT !.is_connected = TRUE]]

\* A device of the list; its log gives the semaphore (see SendLog).
Recognise ==
  /\ ble = "recognise"
  /\ Written
  /\ connection_list_semaphore' = TRUE
  /\ ble' = "unlock"
  /\ UNCHANGED <<saved, bonded_count, bonding, enablePairing, need_refresh_scan_filter,
                 scan, radio, peripheral_info, index, point, security, history>>

Noted ==
  /\ IF security_state = "GARAGE" \/ monitor = "garage"
     THEN enrolled' = enrolled \union {peripheral_info.addr} /\ UNCHANGED app_session
     ELSE app_session' = TRUE /\ UNCHANGED enrolled
  /\ UNCHANGED <<interrupted, raced>>

Accept ==
  /\ ble = "accept" /\ bonded_count < MAX_CONNECTIONS
  /\ Written
  /\ bonded_count' = bonded_count + 1
  /\ Noted
  /\ ble' = "unlock"
  /\ UNCHANGED <<saved, bonding, enablePairing, need_refresh_scan_filter,
                 connection_list_semaphore, scan, radio, peripheral_info, index,
                 point, security>>

\* After a delay of 100, unless the device was recognised.
Unlock ==
  /\ ble = "unlock"
  /\ connection_list_semaphore' = TRUE
  /\ peripheral_info' = Nothing /\ index' = 0
  /\ ble' = "leach"
  /\ UNCHANGED <<saved, list, bonding, enablePairing, need_refresh_scan_filter,
                 scan, radio, point, security, history>>

\* set_leach_state, after its delays.
Announce ==
  /\ ble = "leach"
  /\ SetLeachState(TRUE)
  /\ ble' = "clear"
  /\ UNCHANGED <<saved, list, afterStudy, enablePairing, need_refresh_scan_filter,
                 connection_list_semaphore, radio, peripheral_info, index, point,
                 security_state, history>>

\* After the delay of 250: the copy, and remove_peripheral.
RemovePeripheral ==
  /\ ble = "gone" /\ connection_list_semaphore
  /\ LET lost == {i \in 1..MAX_CONNECTIONS :
                    /\ connections_array[i].conn_handler = current_conn_info.conn_handler
                    /\ connections_array[i].is_connected}
     IN connections_array' = IF lost = {} THEN connections_array
                             ELSE [connections_array EXCEPT ![Min(lost)].is_connected = FALSE]
  /\ ble' = "clear"
  /\ UNCHANGED <<saved, bonded_count, bonding, enablePairing, need_refresh_scan_filter,
                 connection_list_semaphore, scan, radio, peripheral_info, index, point,
                 security, history>>

\* Mutant: the scan is not resumed (ScanPending).
ClearedSilently ==
  /\ ble = "clear"
  /\ event_ble_connection_changed' = {}
  /\ ble' = "wait"
  /\ UNCHANGED <<saved, list, bonding, enablePairing, need_refresh_scan_filter,
                 connection_list_semaphore, scan, connecting, link, unread,
                 current_conn_info, leachfound, sessions, peripheral_info, index, point,
                 security, history>>

\* xEventGroupClearBits on every bit, those raised meanwhile included, and
\* scan_start(false) as far as its test of forced_stop_scan.
ClearBits ==
  /\ ble = "clear"
  /\ event_ble_connection_changed' = {}
  /\ ble' = IF forced_stop_scan THEN "wait" ELSE "resume"
  /\ UNCHANGED <<saved, list, bonding, enablePairing, need_refresh_scan_filter,
                 connection_list_semaphore, scan, connecting, link, unread,
                 current_conn_info, leachfound, sessions, peripheral_info, index, point,
                 security, history>>

\* The rest of scan_start(false).
ResumeScan ==
  /\ ble = "resume"
  /\ scanning' = TRUE
  /\ ble' = "wait"
  /\ UNCHANGED <<saved, list, bonding, enablePairing, need_refresh_scan_filter,
                 connection_list_semaphore, forced_stop_scan, use_mac_address_filter,
                 radio, peripheral_info, index, point, security, history>>

\* A command of the server, decoded in this task.
EnablePairing ==
  /\ ble = "wait"
  /\ enablePairing' = TRUE
  /\ UNCHANGED <<saved, list, bonding, need_refresh_scan_filter,
                 connection_list_semaphore, scan, radio, task, point, security, history>>

-----------------------------------------------------------------------------
(* The monitor task.                                                       *)

\* send_log sends to every connected device and gives the semaphore, which
\* its caller has not taken.
SendLog == connection_list_semaphore' = TRUE

\* Logs outside of the operations below (a wrong password, counters), and
\* the one of a change of the ignition state.
Log ==
  /\ monitor \in {"loop", "leach"}
  /\ SendLog
  /\ UNCHANGED <<saved, list, bonding, enablePairing, need_refresh_scan_filter,
                 scan, radio, task, point, security, history>>

\* A change of state is reported when everything else is done.
Report ==
  /\ monitor = "report"
  /\ SendLog
  /\ monitor' = "loop" /\ UNCHANGED after
  /\ UNCHANGED <<saved, list, bonding, enablePairing, need_refresh_scan_filter,
                 scan, radio, task, security, history>>

Return == monitor' = after /\ after' = "loop"

\* set_leach_state, once a second, and at the end of change_security_state,
\* after its delays.
KeepAlive ==
  /\ monitor \in {"loop", "leach"}
  /\ SetLeachState(connection_list_semaphore)
  /\ Return
  /\ UNCHANGED <<saved, list, afterStudy, enablePairing, need_refresh_scan_filter,
                 connection_list_semaphore, radio, task, security_state, history>>

\* change_security_state, as far as the delays of set_leach_state.
ChangeSecurityState(state, next) ==
  /\ security_state' = state /\ UNCHANGED stopScanDone
  /\ monitor' = "leach" /\ after' = next

\* The password, in ARMED; or DISARM by the server, in any state: an
\* enrolment it falls into is not closed.
Disarm ==
  /\ monitor = "loop"
  /\ \/ security_state = "ARMED" /\ ChangeSecurityState("DISARMED", "report")
     \/ ChangeSecurityState("DISARMED", "loop")
  /\ interrupted' = (interrupted \/ security_state = "GARAGE")
  /\ UNCHANGED <<saved, list, bonding, enablePairing, need_refresh_scan_filter,
                 connection_list_semaphore, scan, radio, task, enrolled, app_session,
                 raced>>

\* ARM by the server: back_to_armed_state follows.
RemoteArm ==
  /\ monitor = "loop"
  /\ ChangeSecurityState("ARMED", "rearm")
  /\ interrupted' = (interrupted \/ security_state = "GARAGE")
  /\ UNCHANGED <<saved, list, bonding, enablePairing, need_refresh_scan_filter,
                 connection_list_semaphore, scan, radio, task, enrolled, app_session,
                 raced>>

\* The third entry turned out to be a LEACH: the phone app, which disarms
\* when its serial number is right.  (The reset that follows otherwise is a
\* Restart.)
ClearApp ==
  /\ monitor = "loop" /\ security_state = "ARMED"
  /\ connections_array[3].type = "LEACH"
  /\ connections_array' = [connections_array EXCEPT ![3] = Info(NoDevice, "UNKNOWN", 0, FALSE)]
  /\ \/ ChangeSecurityState("DISARMED", "loop")
     \/ UNCHANGED <<security, point>>
  /\ app_session' = TRUE
  /\ UNCHANGED <<saved, bonded_count, bonding, enablePairing, need_refresh_scan_filter,
                 connection_list_semaphore, scan, radio, task, enrolled, interrupted,
                 raced>>

\* The BLE task has chosen an entry that it has not written yet.
Undecided == ble \in {"recognise", "accept"}

\* Mutant: the flag that has the list reloaded is not set (RosterIsSaved).
EmptyListOnly ==
  /\ monitor = "empty" /\ connection_list_semaphore
  /\ bonded_count' = 0
  /\ enrolled' = {} /\ raced' = (raced \/ Undecided)
  /\ Return
  /\ UNCHANGED <<saved, connections_array, bonding, enablePairing,
                 need_refresh_scan_filter, connection_list_semaphore, scan, radio, task,
                 security, app_session, interrupted>>

\* disconnect_and_delete_all_peripheral, as far as the save it ends with.
EmptyList ==
  /\ monitor = "empty" /\ connection_list_semaphore
  /\ need_refresh_scan_filter' = TRUE
  /\ bonded_count' = 0
  /\ enrolled' = {} /\ raced' = (raced \/ Undecided)
  /\ Return
  /\ UNCHANGED <<saved, connections_array, bonding, enablePairing,
                 connection_list_semaphore, scan, radio, task, security, app_session,
                 interrupted>>

\* Key 5 in the main menu: scan_stop(true), and the list is emptied.
EnterGarage ==
  /\ monitor = "loop" /\ security_state = "DISARMED"
  /\ scanning' = FALSE /\ forced_stop_scan' = TRUE
  /\ monitor' = "empty" /\ after' = "garage"
  /\ UNCHANGED <<saved, list, bonding, enablePairing, need_refresh_scan_filter,
                 connection_list_semaphore, use_mac_address_filter, radio, task,
                 security, history>>

\* The state follows when the save is over.
OpenGarage ==
  /\ monitor = "garage"
  /\ ChangeSecurityState("GARAGE", "loop")
  /\ UNCHANGED <<saved, list, bonding, enablePairing, need_refresh_scan_filter,
                 connection_list_semaphore, scan, radio, task, history>>

\* Key 4 in the garage menu: scan_init_by_uuid and scan_start, ...
StartEnrolment ==
  /\ monitor = "loop" /\ security_state = "GARAGE"
  /\ use_mac_address_filter' = FALSE
  /\ scanning' = TRUE /\ forced_stop_scan' = FALSE
  /\ monitor' = "enrol" /\ UNCHANGED after
  /\ UNCHANGED <<saved, list, bonding, enablePairing, need_refresh_scan_filter,
                 connection_list_semaphore, radio, task, security, history>>

\* ... and activate_bonding_state, which waits for the semaphore.
ActivateBonding ==
  /\ monitor = "enrol" /\ connection_list_semaphore
  /\ in_bonding_state' = TRUE /\ afterStudy' = TRUE
  /\ Return
  /\ UNCHANGED <<saved, list, enablePairing, need_refresh_scan_filter,
                 connection_list_semaphore, scan, radio, task, security, history>>

-----------------------------------------------------------------------------
(* back_to_armed_state.                                                    *)

\* configuration_save_address_list: slot by slot, what is new and connected.
EmptyFor(s, type) ==
  CASE type = "LEACH" -> {x \in {"Leach_address_1", "Leach_address_2"} : s[x] = NoDevice}
    [] type = "CANBUS_LEACH" -> {"canbus_Leach_address"}
    [] type = "MODEM" -> {"modem_address"}
    [] OTHER -> {}
SlotFor(s, type) == IF "Leach_address_1" \in EmptyFor(s, type) THEN "Leach_address_1"
                    ELSE CHOOSE x \in EmptyFor(s, type) : TRUE

\* Mutant: what is saved already is stored again (SavedDistinct).
StoredAgain(s, info) ==
  IF info.conn_handler = NoHandle \/ EmptyFor(s, info.type) = {}
  THEN s ELSE [s EXCEPT ![SlotFor(s, info.type)] = info.addr]

Stored(s, info) ==
  IF info.addr \in Range(s) \/ info.conn_handler = NoHandle \/ EmptyFor(s, info.type) = {}
  THEN s ELSE [s EXCEPT ![SlotFor(s, info.type)] = info.addr]

\* The roster once the first i entries of the list have been gone through.
StoredTo[i \in 0..bonded_count] ==
  IF i = 0 THEN saved ELSE Stored(StoredTo[i - 1], connections_array[i])

\* Mutant: without the flag of key 4 (SavedWasEnrolled).
SaveListAlways ==
  /\ saved' = StoredTo[bonded_count]
  /\ afterStudy' = FALSE

SaveList ==
  IF afterStudy
  THEN /\ saved' = StoredTo[bonded_count]
       /\ afterStudy' = FALSE
  ELSE UNCHANGED <<saved, afterStudy>>

\* save_bondings, up to scan_stop(true).
SaveBondings ==
  /\ monitor \in {"loop", "rearm"} /\ connection_list_semaphore
  /\ IF in_bonding_state
     THEN /\ scanning' = FALSE /\ forced_stop_scan' = TRUE
          /\ monitor' = "save"
     ELSE /\ monitor' = "armed"
          /\ UNCHANGED <<scanning, forced_stop_scan>>
  /\ UNCHANGED <<saved, list, bonding, enablePairing, need_refresh_scan_filter,
                 connection_list_semaphore, use_mac_address_filter, radio, task, after,
                 security, history>>

\* The list is read without the semaphore; set_leach_state follows.
SaveRoster ==
  /\ monitor = "save"
  /\ SaveList
  /\ monitor' = "leach" /\ after' = "unbond"
  /\ UNCHANGED <<list, in_bonding_state, enablePairing, need_refresh_scan_filter,
                 connection_list_semaphore, scan, radio, task, security, history>>

\* connections_state_lock(1) whatever its result, the unlock and the log.
EndBonding ==
  /\ monitor = "unbond"
  /\ in_bonding_state' = FALSE
  /\ connection_list_semaphore' = TRUE
  /\ monitor' = "empty" /\ after' = "closing"
  /\ UNCHANGED <<saved, list, afterStudy, enablePairing, need_refresh_scan_filter,
                 scan, radio, task, security, history>>

\* The end of save_bondings, and what back_to_armed_state does after it: both
\* change to ARMED.
Rearm ==
  /\ \/ monitor = "closing" /\ ChangeSecurityState("ARMED", "armed")
     \/ monitor = "armed" /\ ChangeSecurityState("ARMED", "refresh")
  /\ UNCHANGED <<saved, list, bonding, enablePairing, need_refresh_scan_filter,
                 connection_list_semaphore, scan, radio, task, history>>

Refresh ==
  /\ monitor = "refresh"
  /\ IF need_refresh_scan_filter
     THEN monitor' = "empty" /\ after' = "load"
     ELSE monitor' = "report" /\ UNCHANGED after
  /\ UNCHANGED <<saved, list, bonding, enablePairing, need_refresh_scan_filter,
                 connection_list_semaphore, scan, radio, task, security, history>>

\* Where configuration_load_address_list goes on after the first i slots: an
\* empty one is skipped.
SlotAfter(i) == LET used == {j \in 1..4 : j > i /\ saved[Slots[j]] # NoDevice}
                IN IF used = {} THEN "resume" ELSE Slots[Min(used)]

ResetEntry(info) == Info(info.addr, "UNKNOWN", NoHandle, FALSE)

\* It runs after a delay of 100 and without the semaphore: first the list is
\* reset, ...
ResetList ==
  /\ monitor = "load"
  /\ bonded_count' = 0
  /\ connections_array' = [i \in 1..MAX_CONNECTIONS |-> ResetEntry(connections_array[i])]
  /\ app_session' = FALSE /\ raced' = (raced \/ Undecided)
  /\ monitor' = SlotAfter(0) /\ UNCHANGED after
  /\ UNCHANGED <<saved, bonding, enablePairing, need_refresh_scan_filter,
                 connection_list_semaphore, scan, radio, task, security, enrolled,
                 interrupted>>

\* ... then each slot in use is appended (the first one to the first entry).
SlotIndex(slot) == IF slot = "Leach_address_1" THEN 1 ELSE bonded_count + 1

LoadSlot ==
  /\ monitor \in Range(Slots) /\ bonded_count < MAX_CONNECTIONS
  /\ connections_array' = [connections_array EXCEPT
       ![SlotIndex(monitor)].addr = saved[monitor],
       ![SlotIndex(monitor)].type = TypeOfSlot(monitor)]
  /\ bonded_count' = bonded_count + 1
  /\ raced' = (raced \/ Undecided)
  /\ monitor' = SlotAfter(CHOOSE i \in 1..4 : Slots[i] = monitor) /\ UNCHANGED after
  /\ UNCHANGED <<saved, bonding, enablePairing, need_refresh_scan_filter,
                 connection_list_semaphore, scan, radio, task, security, enrolled,
                 app_session, interrupted>>

\* scan_init_by_uuid(true), scan_start(true), the flag and the log.
Reloaded ==
  /\ monitor = "resume"
  /\ use_mac_address_filter' = TRUE
  /\ scanning' = TRUE /\ forced_stop_scan' = FALSE
  /\ need_refresh_scan_filter' = FALSE
  /\ interrupted' = (interrupted /\ afterStudy)
  /\ SendLog
  /\ monitor' = "loop" /\ UNCHANGED after
  /\ UNCHANGED <<saved, list, bonding, enablePairing, radio, task, security, enrolled,
                 app_session, raced>>

-----------------------------------------------------------------------------
(* Resets.                                                                 *)

NoSlots == [slot \in Range(Slots) |-> NoDevice]
EmptyArray == [i \in 1..MAX_CONNECTIONS |-> Nothing]

\* What configuration_load_address_list makes of s at start-up, when no other
\* task looks at the list yet.
Entry(s, slot) == IF s[slot] = NoDevice THEN <<>> ELSE <<slot>>
Filled(s) == Entry(s, "Leach_address_1") \o Entry(s, "Leach_address_2")
               \o Entry(s, "canbus_Leach_address") \o Entry(s, "modem_address")
Loaded(s) ==
  [i \in 1..MAX_CONNECTIONS |->
     IF i <= Len(Filled(s))
     THEN Info(s[Filled(s)[i]], TypeOfSlot(Filled(s)[i]), NoHandle, FALSE)
     ELSE Nothing]

Booted(s, state) ==
  /\ saved' = s
  /\ connections_array' = Loaded(s) /\ bonded_count' = Len(Filled(s))
  /\ in_bonding_state' = FALSE /\ afterStudy' = FALSE /\ enablePairing' = FALSE
  /\ need_refresh_scan_filter' = FALSE
  /\ connection_list_semaphore' = TRUE
  /\ scanning' = TRUE /\ forced_stop_scan' = FALSE /\ use_mac_address_filter' = TRUE
  /\ connecting' = NoDevice /\ link' = [h \in Handles |-> NoDevice] /\ unread' = {}
  /\ current_conn_info' = Nothing /\ peripheral_info' = Nothing /\ index' = 0
  /\ leachfound' = 0
  /\ event_ble_connection_changed' = {}
  /\ ble' = "wait" /\ monitor' = "loop" /\ after' = "loop"
  /\ security_state' = state /\ stopScanDone' = (state # "ARMED")
  /\ enrolled' = {} /\ app_session' = FALSE /\ interrupted' = FALSE /\ raced' = FALSE
  /\ UNCHANGED sessions

\* A power cut, or reset_device with the list as saved: a lost device, none
\* connected, the end of an app session, the watchdog.
Restart == \E state \in {"ARMED", "DISARMED"} : Booted(saved, state)

\* Key 1 in the garage menu: it ends in a reset, back into the garage, or in
\* another one once the roster is gone.
EraseBondings ==
  /\ monitor = "loop" /\ security_state = "GARAGE"
  /\ \E state \in {"GARAGE", "ARMED", "DISARMED"} : Booted(NoSlots, state)

Rosters == {s \in [Range(Slots) -> Devices \union {NoDevice}] :
  /\ \A x, y \in Range(Slots) : s[x] = s[y] /\ s[x] # NoDevice => x = y
  /\ \A x \in Range(Slots) : s[x] # NoDevice => TypeOfDevice(s[x]) = TypeOfSlot(x)
  /\ s["Leach_address_2"] # NoDevice => s["Leach_address_1"] # NoDevice}

Init ==
  /\ saved \in Rosters
  /\ connections_array = Loaded(saved) /\ bonded_count = Len(Filled(saved))
  /\ in_bonding_state = FALSE /\ afterStudy = FALSE /\ enablePairing = FALSE
  /\ need_refresh_scan_filter = FALSE
  /\ connection_list_semaphore = TRUE
  /\ scanning = TRUE /\ forced_stop_scan = FALSE /\ use_mac_address_filter = TRUE
  /\ connecting = NoDevice /\ link = [h \in Handles |-> NoDevice] /\ unread = {}
  /\ current_conn_info = Nothing /\ peripheral_info = Nothing /\ index = 0
  /\ leachfound = 0
  /\ event_ble_connection_changed = {}
  /\ ble = "wait" /\ monitor = "loop" /\ after = "loop"
  /\ security_state = "ARMED" /\ stopScanDone = FALSE
  /\ enrolled = {} /\ app_session = FALSE /\ interrupted = FALSE /\ raced = FALSE
  /\ sessions = 0

Next ==
  \/ \E d \in Devices : Match(d)
  \/ Connected
  \/ \E h \in Handles : Discover(h) \/ Drop(h)
  \/ Wait \/ StartVerify \/ Find \/ Recognise \/ Accept \/ Unlock \/ Announce
  \/ RemovePeripheral \/ ClearBits \/ ResumeScan
  \/ EnablePairing
  \/ Log \/ Report \/ KeepAlive \/ Disarm \/ RemoteArm \/ ClearApp
  \/ EnterGarage \/ EmptyList \/ OpenGarage \/ StartEnrolment \/ ActivateBonding
  \/ SaveBondings \/ SaveRoster \/ EndBonding \/ Rearm \/ Refresh
  \/ ResetList \/ LoadSlot \/ Reloaded
  \/ Restart \/ EraseBondings

Spec == Init /\ [][Next]_vars

-----------------------------------------------------------------------------
(* Properties.                                                             *)

\* However often a device is enrolled, drops and comes back, the saved
\* roster holds it once.
SavedDistinct == \A x, y \in Range(Slots) : saved[x] = saved[y] /\ saved[x] # NoDevice => x = y

\* In garage mode the list is what was accepted there (or on the way in, once
\* the list was empty) and nothing else: nothing of the old roster, no device
\* twice, though the BLE task may have been in the middle of a verification
\* when the mode was entered.  The blinking LED (blink_bonded_device_count)
\* and the index of the next entry rely on it.  Excepted: the list was emptied
\* between the BLE task's search and what it writes, which a semaphore given
\* by send_log allows (raced).
EnrolmentList ==
  security_state = "GARAGE" /\ ~raced =>
    /\ Listed = enrolled /\ Cardinality(enrolled) = bonded_count
    /\ \A i \in Bonded : connections_array[i].conn_handler # NoHandle

\* A device gets into the saved roster only if it was accepted in garage
\* mode: one let in for the app, in ARMED, is never saved, whatever key 4,
\* the re-arming and the BLE task's delays do.  Excepted: the server's ARM or
\* DISARM in garage mode, which leaves an enrolment open, and raced.
SavedWasEnrolled ==
  [][~interrupted /\ ~raced => SavedDevices' \subseteq SavedDevices \union enrolled]_vars

\* Out of garage mode, and when nothing was done to it for the app, the list
\* the BLE task verifies against is the saved roster: every way into garage
\* mode empties it and every way out loads it again, also past a
\* verification under way, unless the list changes between the search and
\* what is written (raced): loading it takes no semaphore.
RosterIsSaved ==
  monitor = "loop" /\ security_state # "GARAGE" /\ ~app_session /\ ~interrupted /\ ~raced
    => Listed = SavedDevices

\* The scan that a match stopped is resumed: as long as nobody stopped it on
\* purpose, it is off only while a connection is being made, an event is still
\* to be served, or every link is in use, however the events were merged,
\* cleared together or raised during a verification.  (A device that drops
\* before its Device Information is in stays NEW, and its event is not served
\* until another one comes.)
ScanPending ==
  ~scanning /\ ~forced_stop_scan =>
    event_ble_connection_changed # {} \/ ble # "wait" \/ connecting # NoDevice \/ Free = {}

\* What the documentation of ble_task.c says, "connection_list_semaphore:
\* protects shared connection data": while verify_peripheral works on the
\* list the semaphore is not to be had.  Violated: send_log gives it.
ListExclusive == ble \in {"verify", "recognise", "accept"} => ~connection_list_semaphore
=============================================================================
