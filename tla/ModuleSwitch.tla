----------------------------- MODULE ModuleSwitch -----------------------------
(***************************************************************************)
(* One module as its hooks see it: its state_map flag and how far the boot *)
(* is with it.  The modules share neither flags nor maps, so that one of   *)
(* them is followed, any one; Lifecycle and ControlPlane have them all.    *)
(***************************************************************************)
EXTENDS Naturals

CONSTANTS
  Tasks,    \* the processes that call into the kernel
  Nobody,   \* no process, or one that is not among them
  MaxEdits  \* bound: toggles, crashes and changes around the module

ASSUME SwitchAssumption == Nobody \notin Tasks /\ MaxEdits \in Nat

VARIABLES
  module,  \* the module that is followed
  boot,    \* "down", "flagged" or "filled"
  state,   \* its state_map flag, read by is_module_active
  edits

switchVars == <<module, boot, state, edits>>

Edit == edits < MaxEdits /\ edits' = edits + 1

InitSwitch(m) ==
  /\ module = m
  /\ boot = "down" /\ state = FALSE
  /\ edits = 0

(* initialize_active_modules: the flag ...                                 *)
WriteFlag(enabled) ==
  /\ boot = "down"
  /\ boot' = "flagged" /\ state' = enabled
  /\ UNCHANGED <<module, edits>>

(* ... and then init, so that for a moment a module is on with empty maps. *)
InitModule ==
  /\ boot = "flagged"
  /\ boot' = "filled"
  /\ UNCHANGED <<module, state, edits>>

SetModuleState ==
  /\ boot = "filled" /\ Edit
  /\ state' = ~state
  /\ UNCHANGED <<module, boot>>

(* The daemon is gone, and with it hooks and maps.                         *)
Crash ==
  /\ boot # "down" /\ Edit
  /\ boot' = "down" /\ state' = FALSE
  /\ UNCHANGED module

(* The hook is in force, with the maps of this boot.                       *)
Judges == state /\ boot = "filled"

SwitchTypeOK ==
  /\ boot \in {"down", "flagged", "filled"}
  /\ state \in BOOLEAN
  /\ boot = "down" => ~state
  /\ edits \in 0 .. MaxEdits
=============================================================================
