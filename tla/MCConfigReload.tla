---------------------------- MODULE MCConfigReload ----------------------------
(* Instances of ConfigReload for TLC.                                        *)
EXTENDS ConfigReload, TLC

CONSTANTS plain, full

(* The defaults register the first tool and answer no sudo prompt; a file    *)
(* may drop it, add a command, the second, hide it from the REST face,       *)
(* and configure a password.                                                 *)
MCConfigs == {plain, full}
MCToolsOf == [c \in MCConfigs |-> IF c = plain THEN {1} ELSE {2}]
MCExposedBy == [c \in MCConfigs |-> IF c = plain THEN {1, 2} ELSE {1}]
MCWithSudo == {full}
MCGoverned == {1}

(* With --config the file may not load; without, it may be gone, which       *)
(* stands for the defaults.  The second edit comes when the first is applied *)
(* or does not load, or in the middle of a reload, which has read by then.   *)
Told == IF explicit THEN {plain, full, Broken} ELSE {full, Gone}
Bound ==
  /\ file' \in Told
  /\ edits = 1 /\ edits' = 2 =>
       IF holder = NoOne THEN Load(file) \in {applied, NoConfig} ELSE at[holder] = "clear"

===============================================================================
