------------------------------ MODULE Watchlist ------------------------------
(***************************************************************************)
(* The inode watchlist of exec_block and rename_entropy: protected_dirs,   *)
(* filled by populate_map_from_paths when the daemon boots and kept up by  *)
(* the exit hooks of vfs_mkdir and vfs_rename (bpf/headers/vfs_helpers.h). *)
(*                                                                         *)
(* The boot-time walk and the hooks run while other tasks change the tree. *)
(* An exit hook runs after its directory became visible, but before the    *)
(* locks are released that keep it from being moved or removed.  One       *)
(* watched tree and one tree outside stand for all of them; hidden names   *)
(* are left out.                                                           *)
(***************************************************************************)
EXTENDS Naturals, Sequences, FiniteSets

CONSTANTS
  Inodes,       \* inode numbers, handed out again once free
  Watched,      \* a target path of the module
  Elsewhere,    \* a directory that is not watched
  None,         \* parent of a free inode
  MaxDepth,     \* max_depth(20)
  MinCapacity,  \* min_capacity: 8192
  MaxHooks,     \* exit hooks on the way at the same time
  MaxFiles      \* files that exist at the same time

Tops == {Watched, Elsewhere}

ASSUME WatchlistAssumption ==
  /\ IsFiniteSet(Inodes) /\ Tops \subseteq Inodes /\ None \notin Inodes
  /\ Watched # Elsewhere
  /\ MaxDepth \in Nat /\ MinCapacity \in Nat \ {0}
  /\ MaxHooks \in Nat \ {0} /\ MaxFiles \in Nat

VARIABLES
  kind,           \* "free", "dir" or "file"
  parent,         \* the directory an inode is in
  phase,          \* the daemon: "down", "walk" or "run"
  state,          \* the module's state_map flag
  capacity,       \* max_entries given to protected_dirs
  protected_dirs, \* the LRU hash map
  found,          \* paths the walk still has to visit
  reading,        \* the path whose directory it has just opened
  opened,         \* the path it has just visited and has to list
  pending,        \* exit hooks that have not run: <<parent, inode>>
  (* history, by cause *)
  missed,         \* watched directories that no one had to index
  leftover        \* indexed inodes outside the watched tree

fsVars   == <<kind, parent>>
walkVars == <<found, reading, opened>>
vars == <<fsVars, phase, state, capacity, protected_dirs, walkVars, pending,
          missed, leftover>>

(* The inodes from d up to the top of its tree.                            *)
Lineage(d) ==
  LET up[x \in Inodes] ==
        IF x \in Tops \/ parent[x] = None THEN {x} ELSE {x} \cup up[parent[x]]
  IN up[d]

Dirs == {d \in Inodes : kind[d] = "dir"}
Under(d) == Watched \in Lineage(d)
Depth(d) == Cardinality(Lineage(d)) - 1
Subtree(d) == {x \in Dirs : d \in Lineage(x)}
Busy(d) == \E p \in Inodes : <<p, d>> \in pending

Init ==
  /\ kind = [i \in Inodes |-> IF i \in Tops THEN "dir" ELSE "free"]
  /\ parent = [i \in Inodes |-> IF i \in Tops THEN i ELSE None]
  /\ phase = "down"
  /\ state = FALSE
  /\ capacity = 0
  /\ protected_dirs = {}
  /\ found = {} /\ reading = {} /\ opened = {}
  /\ pending = {}
  /\ missed = {} /\ leftover = {}
-----------------------------------------------------------------------------
(* bpf_map_update_elem on an LRU hash: a full map silently gives up some   *)
(* other entry.                                                            *)
Insert(x) ==
  IF x \in protected_dirs \/ Cardinality(protected_dirs) < capacity
    THEN /\ protected_dirs' = protected_dirs \cup {x}
         /\ missed' = missed \ {x}
    ELSE \E victim \in protected_dirs :
           /\ protected_dirs' = (protected_dirs \ {victim}) \cup {x}
           /\ missed' = (missed \ {x}) \cup ({victim} \cap Dirs)

(* vfs_mkdir succeeded: the directory is there, its exit hook still to run *)
(* (if the hooks are attached).                                            *)
Mkdir(p, d) ==
  /\ p \in Dirs /\ kind[d] = "free" /\ Cardinality(pending) < MaxHooks
  /\ kind' = [kind EXCEPT ![d] = "dir"]
  /\ parent' = [parent EXCEPT ![d] = p]
  /\ pending' = IF phase = "down" THEN pending ELSE pending \cup {<<p, d>>}
  /\ leftover' = IF d \in protected_dirs /\ ~Under(p)
                   THEN leftover \cup {d} ELSE leftover
  /\ UNCHANGED <<phase, state, capacity, protected_dirs, walkVars, missed>>

(* vfs_rename moved the directory d, with all below it, into p.            *)
Rename(d, p) ==
  /\ d \in Dirs \ Tops /\ ~Busy(d) /\ Cardinality(pending) < MaxHooks
  /\ p \in Dirs \ Subtree(d) /\ p # parent[d]
  /\ parent' = [parent EXCEPT ![d] = p]
  /\ pending' = IF phase = "down" THEN pending ELSE pending \cup {<<p, d>>}
  /\ missed' = IF phase = "down" THEN missed
               ELSE missed \cup (Subtree(d) \ ({d} \cup protected_dirs))
  /\ leftover' = IF Under(p) THEN leftover \ Subtree(d)
                 ELSE leftover \cup (Subtree(d) \cap protected_dirs)
  /\ UNCHANGED <<kind, phase, state, capacity, protected_dirs, walkVars>>

InheritsAlways(p) == state  \* mutant: the parent is not looked up

(* inherit_protection's condition: the module is on, the parent indexed.   *)
Inherits(p) == state /\ p \in protected_dirs

(* inherit_protection in the exit hook: the child is indexed when the      *)
(* module is on and the parent is indexed.  History: it may stay out with  *)
(* the module off, with a parent that is out or not indexed yet by its own *)
(* hook, or beyond the depth the walk reaches.                             *)
InheritProtection(p, d) ==
  /\ <<p, d>> \in pending
  /\ pending' = pending \ {<<p, d>>}
  /\ IF Inherits(p)
       THEN /\ Insert(d)
            /\ leftover' = IF p \in leftover THEN leftover \cup {d}
                         ELSE leftover
       ELSE /\ missed' = IF \/ ~state \/ p \in missed \/ Busy(p)
                            \/ Depth(d) > MaxDepth
                           THEN missed \cup {d} ELSE missed
            /\ UNCHANGED <<protected_dirs, leftover>>
  /\ UNCHANGED <<fsVars, phase, state, capacity, walkVars>>

(* A file is renamed inside p: the same hook, which does not look at what  *)
(* was moved, indexes the file's inode.                                    *)
RenameFile(p, f) ==
  /\ p \in Dirs /\ kind[f] = "free"
  /\ Cardinality({x \in Inodes : kind[x] = "file"}) < MaxFiles
  /\ kind' = [kind EXCEPT ![f] = "file"]
  /\ parent' = [parent EXCEPT ![f] = p]
  /\ IF phase # "down" /\ Inherits(p)
       THEN Insert(f)
       ELSE UNCHANGED <<protected_dirs, missed>>
  /\ UNCHANGED <<phase, state, capacity, walkVars, pending, leftover>>

(* rmdir or unlink: no hook, the entry stays in the map.                   *)
Remove(d) ==
  /\ d \notin Tops /\ kind[d] # "free" /\ ~Busy(d)
  /\ \A x \in Inodes \ {d} : parent[x] # d
  /\ kind' = [kind EXCEPT ![d] = "free"]
  /\ parent' = [parent EXCEPT ![d] = None]
  /\ missed' = missed \ {d} /\ leftover' = leftover \ {d}
  /\ UNCHANGED <<phase, state, capacity, protected_dirs, walkVars, pending>>
-----------------------------------------------------------------------------
(* The daemon boots: a first walk sizes the map (the count and a quarter), *)
(* the hooks are attached, the flag is written, and init starts the walk.  *)
Boot(active) ==
  /\ phase = "down"
  /\ phase' = "walk"
  /\ LET count == Cardinality({d \in Subtree(Watched) : Depth(d) <= MaxDepth})
         sized == (count * 5) \div 4
     IN capacity' = IF sized < MinCapacity THEN MinCapacity ELSE sized
  /\ state' = active
  /\ found' = {<<Watched>>}
  /\ missed' = {d \in Subtree(Watched) : Depth(d) > MaxDepth}
  /\ UNCHANGED <<fsVars, protected_dirs, reading, opened, pending, leftover>>

(* The walk goes by names.  A path stands for the names of its inodes, and *)
(* from where an inode was moved or removed the name may be another's, or  *)
(* that of a symbolic link.                                                *)
Replaced(path) == {i \in 2 .. Len(path) : parent[path[i]] # path[i - 1]}
Valid(path) == Replaced(path) = {}

(* Where read_dir arrives, which follows every link ...                    *)
ListedAt(path) ==
  IF Valid(path) THEN {path[Len(path)]} \cap Dirs ELSE Dirs

(* ... and get_secure_hardware_key, which follows all but the last one.    *)
KeyAt(path) ==
  IF Valid(path) THEN {path[Len(path)]}
  ELSE IF Replaced(path) = {Len(path)}
    THEN {x \in Inodes \ Tops : parent[x] = path[Len(path) - 1]}
  ELSE {x \in Inodes : kind[x] # "free"}

(* walkdir comes to an entry, deepest first, and opens its directory, or   *)
(* skips the entry.                                                        *)
WalkOpen(path) ==
  /\ path \in found /\ reading = {} /\ opened = {}
  /\ \A other \in found : Len(other) <= Len(path)
  /\ found' = found \ {path}
  /\ \/ \E e \in ListedAt(path) : reading' = {<<path, e>>}
     \/ ~(Valid(path) /\ kind[path[Len(path)]] = "dir") /\ UNCHANGED reading
  /\ UNCHANGED <<fsVars, phase, state, capacity, protected_dirs, opened,
                 pending, missed, leftover>>

(* It yields the entry, whose key is inserted, if there is one.  History:  *)
(* a link before the last name may have led out of the tree.               *)
WalkVisit(path, e) ==
  /\ reading = {<<path, e>>} /\ reading' = {}
  /\ opened' = opened \cup {<<path, e>>}
  /\ \/ \E x \in KeyAt(path) :
          /\ Insert(x)
          /\ leftover' = IF Replaced(path) \subseteq {Len(path)} \/ Under(x)
                           THEN leftover ELSE leftover \cup {x}
     \/ ~Valid(path) /\ UNCHANGED <<protected_dirs, missed, leftover>>
  /\ UNCHANGED <<fsVars, phase, state, capacity, found, pending>>

(* Then the directory it opened is listed, no deeper than MaxDepth.        *)
Listed(e, depth) ==
  {x \in Dirs \ Tops : parent[x] = e /\ depth < MaxDepth}

WalkListWith(path, e, depth) ==
  /\ opened = {<<path, e>>} /\ opened' = {}
  /\ found' = found \cup {Append(path, x) : x \in Listed(e, depth)}
  /\ UNCHANGED <<fsVars, phase, state, capacity, protected_dirs, reading,
                 pending, missed, leftover>>

WalkListShallow(path, e) == WalkListWith(path, e, Len(path))  \* mutant: one level too few

WalkList(path, e) == WalkListWith(path, e, Len(path) - 1)

(* init returns; the control plane comes up.                               *)
WalkDone ==
  /\ phase = "walk" /\ found = {} /\ reading = {} /\ opened = {}
  /\ phase' = "run"
  /\ UNCHANGED <<fsVars, state, capacity, protected_dirs, walkVars, pending,
                 missed, leftover>>

(* ENABLE and DISABLE write the flag; nothing walks the tree again.        *)
SetModuleState(enable) ==
  /\ phase = "run" /\ state # enable
  /\ state' = enable
  /\ UNCHANGED <<fsVars, phase, capacity, protected_dirs, walkVars, pending,
                 missed, leftover>>

Next ==
  \/ \E p, d \in Inodes : \/ Mkdir(p, d) \/ Rename(d, p)
                          \/ InheritProtection(p, d) \/ RenameFile(p, d)
  \/ \E d \in Inodes : Remove(d)
  \/ \E active \in BOOLEAN : Boot(active) \/ SetModuleState(active)
  \/ \E path \in found : WalkOpen(path)
  \/ \E r \in reading : WalkVisit(r[1], r[2])
  \/ \E r \in opened : WalkList(r[1], r[2])
  \/ WalkDone

Spec == Init /\ [][Next]_vars
-----------------------------------------------------------------------------
(* The walk and the hooks leave no gap between them: once the walk is done *)
(* every directory of the watched tree is indexed, or came in with the     *)
(* module off, with a subtree that was moved in, under a parent that was   *)
(* not indexed itself, too deep, or was evicted by the LRU.                *)
CoverageExplained ==
  phase = "run" =>
    \A d \in Dirs : Under(d) =>
      d \in protected_dirs \/ d \in missed \/ Busy(d)

(* Nothing else is indexed, but for directories that were moved out, that  *)
(* reuse an indexed inode number, that the walk took for another because a *)
(* component before the last one of a path was replaced in the meantime,   *)
(* or that were created below such a one.                                  *)
OverreachExplained ==
  \A d \in Dirs \cap protected_dirs : Under(d) \/ d \in leftover
=============================================================================
