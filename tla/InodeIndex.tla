------------------------------ MODULE InodeIndex ------------------------------
(***************************************************************************)
(* The maps by which modules know files: protected_processes, filled by    *)
(* ptrace_block from a list of paths; protected_files, by shield from two  *)
(* paths; strict_wx_binaries and io_restrict_binaries, by a walk that      *)
(* looks for an extended attribute.  All hold inode numbers, are filled    *)
(* once per boot and are not looked at again when files are replaced.      *)
(*                                                                         *)
(* All files are on one device.  An update that fails is Lifecycle's.      *)
(***************************************************************************)
EXTENDS ModuleSwitch

CONSTANTS
  Names,   \* paths of files
  Marked,  \* those that the module means to index
  Inodes,  \* inode numbers, handed out again once free
  Absent,  \* no file
  Home     \* the inode of each path before the first boot

(* Modules that list their paths, and those with an xattr_watchlist.       *)
ByPath      == {"ptrace_block", "shield"}
ByAttribute == {"strict_wx", "io_restrict"}

ASSUME IndexAssumption ==
  /\ Absent \notin Inodes
  /\ Home \in [Names -> Inodes]
  /\ \A m, n \in Names : Home[m] = Home[n] => m = n  \* no hard links
  /\ Marked \subseteq Names

VARIABLES
  entry,   \* the inode a path names itself, a link's own if it is a link
  leads,   \* the inode one gets by opening the path
  bears,   \* files with the module's extended attribute
  index,   \* the module's map
  unseen   \* history: inodes that changed behind the map, or it never had

indexVars == <<entry, leads, bears, index, unseen>>

Placed == {entry[n] : n \in Names} \cup {leads[n] : n \in Names}
Spare  == Inodes \ {Home[n] : n \in Names}

(* What the module is meant to know: where its paths lead, if flagged.     *)
Wanted ==
  LET files == {leads[n] : n \in Marked} \ {Absent}
  IN  IF module \in ByAttribute THEN files \cap bears ELSE files

IndexedAll ==  \* mutant: the attribute is not read
  {leads[n] : n \in {x \in Marked : entry[x] = leads[x]}} \ {Absent}

(* get_secure_hardware_key opens with O_PATH and O_NOFOLLOW, which yields  *)
(* the link itself and no error; populate_map_from_xattr skips links.      *)
Indexed ==
  IF module \in ByAttribute
    THEN {leads[n] : n \in {x \in Marked : entry[x] = leads[x]}} \cap bears
    ELSE {entry[n] : n \in Marked} \ {Absent}

(* Before the first boot at most one of the paths is a link.               *)
InitIndex ==
  /\ entry = Home
  /\ leads \in {Home} \cup
       {[Home EXCEPT ![n] = i] : n \in Names, i \in Spare}
  /\ bears \in IF module \in ByAttribute
                 THEN SUBSET {leads[n] : n \in Marked} ELSE {{}}
  /\ index = {} /\ unseen = {}
-----------------------------------------------------------------------------
(* init fills the map.  History: of a link it has the wrong inode, if any. *)
FillMap ==
  LET links == {n \in Marked : entry[n] # leads[n]} IN
  /\ InitModule
  /\ index' = Indexed
  /\ unseen' = {entry[n] : n \in links} \cup {leads[n] : n \in links}
  /\ UNCHANGED <<entry, leads, bears>>

LoseMap ==
  /\ Crash
  /\ index' = {} /\ unseen' = {}
  /\ UNCHANGED <<entry, leads, bears>>

(* A package manager or an editor renames a new file over the path, or the *)
(* path is removed.  The new file takes any number that nothing holds.     *)
Replace(n, i, flagged, open) ==
  LET old == {entry[n], leads[n]} \ {Absent}
      new == {i} \ {Absent}
  IN
  /\ i # entry[n] /\ new \cap (open \cup Placed) = {}
  /\ flagged => module \in ByAttribute /\ n \in Marked
  /\ Edit
  /\ entry' = [entry EXCEPT ![n] = i] /\ leads' = [leads EXCEPT ![n] = i]
  /\ bears' = (bears \ (old \cup new)) \cup (IF flagged THEN new ELSE {})
  /\ unseen' = unseen \cup new \cup (IF n \in Marked THEN old ELSE {})
  /\ UNCHANGED <<module, boot, state, index>>

(* setfattr on a marked path.                                              *)
SetAttribute(n) ==
  LET i == leads[n] IN
  /\ module \in ByAttribute /\ n \in Marked /\ i # Absent
  /\ Edit
  /\ bears' = IF i \in bears THEN bears \ {i} ELSE bears \cup {i}
  /\ unseen' = unseen \cup {i}
  /\ UNCHANGED <<module, boot, state, entry, leads, index>>

IndexTypeOK ==
  /\ entry \in [Names -> Inodes \cup {Absent}]
  /\ leads \in [Names -> Inodes \cup {Absent}]
  /\ bears \subseteq Inodes /\ index \subseteq Inodes /\ unseen \subseteq Inodes
  /\ index # {} => boot = "filled"

(* Of the files the map and the administrator disagree on, each is a link, *)
(* or was replaced, flagged or given its number since the boot.            *)
IndexIsCurrent ==
  boot = "filled" /\ module \in ByPath \cup ByAttribute =>
    (Wanted \ index) \cup (index \ Wanted) \subseteq unseen
=============================================================================
