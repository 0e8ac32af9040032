------------------------------ MODULE ExecBlock ------------------------------
(***************************************************************************)
(* exec_block: bprm_check_security refuses to execute a file whose parent  *)
(* directory is in protected_dirs, and memory that is still writable.  The *)
(* hook reads a map that the walk and the hooks of Watchlist are changing. *)
(* What runs has no influence on the map, so that one verdict at a time is *)
(* followed; alerts are left out.                                          *)
(***************************************************************************)
EXTENDS Watchlist

(* A file without a link has no inode number here.                         *)
ASSUME ExecAssumption == "nameless" \notin Inodes

VARIABLE ran  \* what was just let through

execVars == <<vars, ran>>

(* Files without a link, by what the hook can tell of them: a memfd or a   *)
(* nameless file in memory, unsealed or with F_SEAL_WRITE, and one on disk.*)
Nameless == {"unsealed", "sealed", "disk"}

ExecInit == Init /\ ran = None
-----------------------------------------------------------------------------
BlockedItself(f) == state /\ f \in protected_dirs  \* mutant: not its parent

(* The directory the file is in now decides, whatever name was used.       *)
Blocked(f) == state /\ parent[f] \in protected_dirs

Exec(f) ==
  /\ phase # "down" /\ kind[f] = "file" /\ ran = None
  /\ ~Blocked(f)
  /\ ran' = f
  /\ UNCHANGED vars

ExecNameless(x) ==
  /\ phase # "down" /\ ran = None
  /\ ~(state /\ x = "unsealed")
  /\ ran' = "nameless"
  /\ UNCHANGED vars

Executed == ran # None /\ ran' = None /\ UNCHANGED vars

ExecNext ==
  \/ ran = None /\ Next /\ UNCHANGED ran
  \/ \E f \in Inodes : Exec(f)
  \/ \E x \in Nameless : ExecNameless(x)
  \/ Executed

ExecSpec == ExecInit /\ [][ExecNext]_execVars
-----------------------------------------------------------------------------
(* With the module on and its walk done, a file of the watched tree is     *)
(* executed only from a directory that no one had to index or whose exit   *)
(* hook has not run yet.                                                   *)
RunsExplained ==
  [][ran' \in Inodes /\ ran' # ran /\ state /\ phase = "run"
       /\ Under(parent[ran']) =>
         parent[ran'] \in missed \/ Busy(parent[ran'])]_execVars
=============================================================================
