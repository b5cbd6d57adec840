-------------------------- MODULE ConfigurationStore --------------------------
(***************************************************************************)
(* What the configuration store promises, and nothing of pages, CRCs and   *)
(* semaphores: "config" is the configuration in RAM, "kept" the one last   *)
(* saved, "wakes" the one a boot would take at this moment.  A save may be *)
(* torn, and what a boot would take is then what was kept or the defaults; *)
(* once it is over, it is what was saved.  While two tasks share the RAM   *)
(* copy, a save leaves the EEPROM with no promise until the next good boot.*)
(***************************************************************************)
CONSTANTS Configurations, Default

VARIABLES config, kept, wakes, phase, shared

store == <<config, kept, wakes, phase, shared>>

Init ==
  /\ config = Default /\ kept = Default /\ wakes = Default
  /\ phase = "off" /\ shared = FALSE

\* A task changes the RAM copy, and may be the second one to do so.  During a save
\* only another task than the one that saves can.
Change ==
  /\ phase # "off"
  /\ config' \in Configurations
  /\ shared' \in {shared, TRUE} /\ (phase = "saving" => shared')
  /\ UNCHANGED <<kept, wakes, phase>>

BeginSave ==
  phase = "on" /\ phase' = "saving" /\ UNCHANGED <<config, kept, wakes, shared>>

\* Part of it is written.
Tear ==
  /\ phase = "saving"
  /\ wakes' \in IF shared THEN Configurations ELSE {kept, Default}
  /\ UNCHANGED <<config, kept, phase, shared>>

EndSave ==
  /\ phase = "saving" /\ phase' = "on"
  /\ kept' = config
  /\ wakes' \in IF shared THEN Configurations ELSE {config}
  /\ UNCHANGED <<config, shared>>

\* Power fails, or the device resets, in the middle of a save or not.
PowerOff ==
  phase # "off" /\ phase' = "off" /\ UNCHANGED <<config, kept, wakes, shared>>

\* A boot takes what the EEPROM holds, and nobody shares it then ...
PowerOn ==
  /\ phase = "off" /\ phase' = "on"
  /\ config' = wakes /\ kept' = wakes /\ shared' = FALSE
  /\ UNCHANGED wakes

\* ... or refuses it and takes the defaults, which are yet to be saved.
Fallback ==
  /\ phase = "off" /\ phase' = "on"
  /\ wakes = Default /\ config' = Default /\ shared' \in {shared, TRUE}
  /\ UNCHANGED <<kept, wakes>>

Next == Change \/ BeginSave \/ Tear \/ EndSave \/ PowerOff \/ PowerOn \/ Fallback

Spec == Init /\ [][Next]_store

(* A configuration that no two tasks shared is found again by the next boot, whole, *)
(* or is replaced by the defaults: nothing else ever comes out of the EEPROM.       *)
KeptOrDefault == ~shared => wakes \in {kept, Default}
=============================================================================
