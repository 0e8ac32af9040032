------------------------------ MODULE PipeTaint ------------------------------
(***************************************************************************)
(* The tainted-pipe tracker of bpf/io_restrict.bpf.c.                      *)
(*                                                                         *)
(* A pipe is an address and an inode number; the kernel hands both out     *)
(* again once the pipe is freed.  Several open files may refer to one pipe *)
(* (its two ends, and any end opened again), and pipe_release runs for     *)
(* each of them.  The hooks of splice, write and pipe_release run in       *)
(* different tasks at once and take no reference on what they look at, so  *)
(* a splice is three steps: the hook reads the descriptors and looks the   *)
(* pipe up, it inserts the taint, and then the call itself runs.  The hook *)
(* is a probe on the entry: it cannot refuse the call, a signal it sends   *)
(* is handled only after the call, and the call resolves its descriptors   *)
(* again, which another thread may have replaced meanwhile.                *)
(*                                                                         *)
(* Only unprivileged tasks are modelled: every hook returns at once for    *)
(* uid 0.  Alerts are left out.                                            *)
(***************************************************************************)
EXTENDS OpaqueId, FiniteSets

CONSTANTS
  Tasks,          \* unprivileged tasks
  Ptrs,           \* addresses of pipe_inode_info objects
  Inos,           \* inode numbers of pipefs
  Free,           \* the inode number of an address without a pipe
  TaintCap,       \* max_entries of pipe_taint_map
  MaxFiles        \* bound: open files per pipe

ASSUME PipeAssumption ==
  /\ Ptrs \subseteq Word /\ Inos \subseteq Word /\ Free \notin Word
  /\ TaintCap \in Nat
  /\ MaxFiles \in Nat \ {0, 1}

VARIABLES
  state,          \* the module's state_map flag
  ino,            \* inode number of the pipe at each address, or Free
  files,          \* open files per address
  pipe_taint_map, \* identifiers marked TAINTED_READONLY
  task,           \* "idle", "marking", "splicing" (the hook is done), "dying"
                  \* (and has sent SIGKILL, the call still runs) or "killed"
  at,             \* the pipe a marking task was looking at, or Free
  id,             \* the identifier it computed, or Free
  (* history *)
  cover,          \* the identifier a call in progress has stored, until that
                  \* is evicted; else Free
  targeted,       \* pipes marked as the destination of read-only data
  ingested,       \* pipes that took read-only data
  untracked,      \* those that took it in a call that had stored nothing for
                  \* them, or whose taint was evicted early
  stale,          \* entries whose pipe went away without an eviction
  wronged         \* tasks killed over a pipe that was not a destination

pipeVars    == <<ino, files>>
taskVars    == <<task, at, id>>
historyVars == <<cover, targeted, ingested, untracked, stale, wronged>>
vars == <<state, pipeVars, pipe_taint_map, taskVars, historyVars>>

Live == {p \in Ptrs : ino[p] # Free}
IdOf(p) == generate_opaque_pipe_id(p, ino[p])

(* Pipes in which pointer and inode number have the same XOR.              *)
Twins(p) == {q \in Live : xor(q, ino[q]) = xor(p, ino[p])}

Init ==
  /\ state \in BOOLEAN
  /\ ino = [p \in Ptrs |-> Free]
  /\ files = [p \in Ptrs |-> 0]
  /\ pipe_taint_map = {}
  /\ task = [t \in Tasks |-> "idle"]
  /\ at = [t \in Tasks |-> Free]
  /\ id = [t \in Tasks |-> Free]
  /\ cover = [t \in Tasks |-> Free]
  /\ targeted = {} /\ ingested = {} /\ untracked = {}
  /\ stale = {} /\ wronged = {}
-----------------------------------------------------------------------------
(* pipe(2): a free address, an inode number no live pipe has, two ends.    *)
CreatePipe(p, i) ==
  /\ ino[p] = Free
  /\ \A q \in Ptrs : ino[q] # i
  /\ ino' = [ino EXCEPT ![p] = i]
  /\ files' = [files EXCEPT ![p] = 2]
  /\ UNCHANGED <<state, pipe_taint_map, taskVars, historyVars>>

(* One end is opened again, by a fifo's name or through /proc/self/fd.     *)
Reopen(p) ==
  /\ p \in Live
  /\ files[p] < MaxFiles
  /\ files' = [files EXCEPT ![p] = @ + 1]
  /\ UNCHANGED <<state, ino, pipe_taint_map, taskVars, historyVars>>

ReleaseKeeps(p) ==  \* mutant: pipe_release is not hooked
  LET gone == IF files[p] = 1 THEN {p} ELSE {} IN
  /\ p \in Live
  /\ files' = [files EXCEPT ![p] = @ - 1]
  /\ ino' = IF files[p] = 1 THEN [ino EXCEPT ![p] = Free] ELSE ino
  /\ targeted' = targeted \ gone /\ ingested' = ingested \ gone
  /\ untracked' = untracked \ gone
  /\ UNCHANGED <<state, pipe_taint_map, taskVars, cover, stale, wronged>>

(* The last reference to one open file goes: the pipe_release hook, unless *)
(* the module is off, then the kernel's own release, which frees the pipe  *)
(* with its last file.                                                     *)
Release(p) ==
  LET gone    == IF files[p] = 1 THEN {p} ELSE {}
      evicted == IF state THEN {IdOf(p)} ELSE {}
      bared   == IF state THEN Twins(p) \cap ingested ELSE {}
  IN
  /\ p \in Live
  /\ pipe_taint_map' = pipe_taint_map \ evicted
  /\ files' = [files EXCEPT ![p] = @ - 1]
  /\ ino' = IF files[p] = 1 THEN [ino EXCEPT ![p] = Free] ELSE ino
  /\ cover' = [t \in Tasks |-> IF cover[t] \in evicted THEN Free ELSE cover[t]]
  /\ targeted' = targeted \ gone /\ ingested' = ingested \ gone
  /\ untracked' = (untracked \cup bared) \ gone
  /\ stale' = IF state THEN stale \ evicted
              ELSE IF gone # {} THEN stale \cup ({IdOf(p)} \cap pipe_taint_map)
              ELSE stale
  /\ UNCHANGED <<state, taskVars, wronged>>
-----------------------------------------------------------------------------
(* bpf_send_signal(9) over the pipe p.                                     *)
Kill(t, p, then) ==
  /\ task' = [task EXCEPT ![t] = then]
  /\ wronged' = IF Twins(p) \cap targeted # {} \/ IdOf(p) \in stale
                  THEN wronged ELSE wronged \cup {t}
  /\ UNCHANGED <<state, pipeVars, pipe_taint_map, at, id, cover, targeted,
                 ingested, untracked, stale>>

(* splice from, or into, a tainted pipe.                                   *)
SpliceKilled(t, p) ==
  /\ task[t] = "idle" /\ state
  /\ p \in Live /\ IdOf(p) \in pipe_taint_map
  /\ Kill(t, p, "dying")

(* write(2) into a tainted pipe; what it writes is the task's own.         *)
WriteKilled(t, p) ==
  /\ task[t] = "idle" /\ state
  /\ p \in Live /\ IdOf(p) \in pipe_taint_map
  /\ Kill(t, p, "killed")

(* splice with GIFT or MOVE: signalled whatever the descriptors are, with  *)
(* no look at the pipe.                                                    *)
SpliceFlags(t) ==
  /\ task[t] = "idle" /\ state
  /\ task' = [task EXCEPT ![t] = "dying"]
  /\ UNCHANGED <<state, pipeVars, pipe_taint_map, at, id, historyVars>>

(* splice that passes without a mark: the module is off, or the            *)
(* descriptors, as the hook finds them, are no read-only file and pipe.    *)
SplicePasses(t) ==
  /\ task[t] = "idle"
  /\ task' = [task EXCEPT ![t] = "splicing"]
  /\ UNCHANGED <<state, pipeVars, pipe_taint_map, at, id, historyVars>>

(* splice from a read-only file into an untainted pipe: the descriptors    *)
(* are read and both lookups miss ...                                      *)
SpliceLookup(t, p) ==
  /\ task[t] = "idle" /\ state
  /\ p \in Live /\ IdOf(p) \notin pipe_taint_map
  /\ task' = [task EXCEPT ![t] = "marking"]
  /\ at' = [at EXCEPT ![t] = p]
  /\ id' = [id EXCEPT ![t] = IdOf(p)]
  /\ UNCHANGED <<state, pipeVars, pipe_taint_map, historyVars>>

SpliceMarkLru(t) ==  \* mutant: an LRU map makes room when it is full
  LET arrived == at[t] \in Live /\ IdOf(at[t]) = id[t] IN
  /\ task[t] = "marking"
  /\ task' = [task EXCEPT ![t] = "splicing"]
  /\ at' = [at EXCEPT ![t] = Free]
  /\ id' = [id EXCEPT ![t] = Free]
  /\ IF Cardinality(pipe_taint_map) < TaintCap \/ id[t] \in pipe_taint_map
       THEN pipe_taint_map' = pipe_taint_map \cup {id[t]}
       ELSE \E x \in pipe_taint_map :
              pipe_taint_map' = (pipe_taint_map \ {x}) \cup {id[t]}
  /\ cover' = [cover EXCEPT ![t] = id[t]]
  /\ targeted' = IF arrived THEN targeted \cup {at[t]} ELSE targeted
  /\ untracked' = {q \in untracked : IdOf(q) # id[t]}
  /\ stale' = IF arrived THEN stale ELSE stale \cup {id[t]}
  /\ UNCHANGED <<state, pipeVars, ingested, wronged>>

(* ... and the taint is stored under the identifier computed then, or the  *)
(* map is full and the call is let through ...                             *)
SpliceMark(t) ==
  LET fits == \/ Cardinality(pipe_taint_map) < TaintCap
              \/ id[t] \in pipe_taint_map
      arrived == at[t] \in Live /\ IdOf(at[t]) = id[t]
      marked  == IF arrived THEN {at[t]} ELSE {}
  IN
  /\ task[t] = "marking"
  /\ task' = [task EXCEPT ![t] = "splicing"]
  /\ at' = [at EXCEPT ![t] = Free]
  /\ id' = [id EXCEPT ![t] = Free]
  /\ IF fits
       THEN /\ pipe_taint_map' = pipe_taint_map \cup {id[t]}
            /\ cover' = [cover EXCEPT ![t] = id[t]]
            /\ targeted' = targeted \cup marked
            /\ untracked' = {q \in untracked : IdOf(q) # id[t]}
            /\ stale' = IF arrived THEN stale ELSE stale \cup {id[t]}
       ELSE UNCHANGED <<pipe_taint_map, cover, targeted, untracked, stale>>
  /\ UNCHANGED <<state, pipeVars, ingested, wronged>>

(* ... then the call runs, signalled or not, and read-only data goes to    *)
(* took: no pipe, or the one that its descriptor leads to now.             *)
SpliceEnds(t, took) ==
  LET bare == {q \in took : IdOf(q) # cover[t]} IN
  /\ task[t] \in {"splicing", "dying"}
  /\ task' = [task EXCEPT ![t] = IF @ = "dying" THEN "killed" ELSE "idle"]
  /\ cover' = [cover EXCEPT ![t] = Free]
  /\ ingested' = ingested \cup took
  /\ untracked' = (untracked \ (took \ bare)) \cup (bare \ ingested)
  /\ UNCHANGED <<state, pipeVars, pipe_taint_map, at, id, targeted, stale,
                 wronged>>

(* The control plane writes the module's flag.                             *)
SetModuleState(enable) ==
  /\ state # enable
  /\ state' = enable
  /\ UNCHANGED <<pipeVars, pipe_taint_map, taskVars, historyVars>>

Next ==
  \/ \E p \in Ptrs :
       \/ \E i \in Inos : CreatePipe(p, i)
       \/ Reopen(p) \/ Release(p)
       \/ \E t \in Tasks : \/ SpliceKilled(t, p) \/ WriteKilled(t, p)
                           \/ SpliceLookup(t, p)
  \/ \E t \in Tasks :
       \/ SpliceFlags(t) \/ SplicePasses(t) \/ SpliceMark(t)
       \/ \E took \in {{}} \cup {{q} : q \in Live} : SpliceEnds(t, took)
  \/ \E enable \in BOOLEAN : SetModuleState(enable)

Spec == Init /\ [][Next]_vars
-----------------------------------------------------------------------------
TypeOK ==
  /\ state \in BOOLEAN
  /\ ino \in [Ptrs -> Inos \cup {Free}]
  /\ files \in [Ptrs -> 0 .. MaxFiles]
  /\ \A p \in Ptrs : files[p] = 0 <=> ino[p] = Free
  /\ pipe_taint_map \subseteq Word
  /\ Cardinality(pipe_taint_map) <= TaintCap
  /\ task \in [Tasks -> {"idle", "marking", "splicing", "dying", "killed"}]
  /\ at \in [Tasks -> Ptrs \cup {Free}]
  /\ id \in [Tasks -> Word \cup {Free}]
  /\ \A t \in Tasks : task[t] = "marking" <=> at[t] # Free /\ id[t] # Free
  /\ cover \in [Tasks -> Word \cup {Free}]
  /\ targeted \subseteq Live /\ ingested \subseteq Live
  /\ untracked \subseteq ingested
  /\ stale \subseteq pipe_taint_map
  /\ wronged \subseteq Tasks

(* "... causing false-positive SIGKILLs for legitimate zero-copy system    *)
(* operations": a task dies only over a pipe that a splice of read-only    *)
(* data was called on, or a twin of one, or if an entry was left behind,   *)
(* by a release the disabled module did not see or by a splice that marked *)
(* a pipe already gone.                                                    *)
NoWrongKill == wronged = {}

(* What a marked splice puts into the pipe it was marked for stays tainted *)
(* though splices, toggles and a full map follow, until a file of the pipe *)
(* or of a twin is released.  Read-only data gets into a pipe untracked    *)
(* only in a call that stored nothing for it: it was signalled, and runs   *)
(* on; it passed; the map was full; or its descriptor was replaced after   *)
(* the hook had looked.                                                    *)
TaintIsComplete ==
  \A p \in ingested \ untracked : IdOf(p) \in pipe_taint_map

(* What is true of "a unique, opaque 64-bit identifier": the finaliser     *)
(* merges nothing that the XOR keeps apart, so of live pipes only twins    *)
(* have the same identifier.                                               *)
OnlyTwinsCollide ==
  \A p, q \in Live : IdOf(p) = IdOf(q) => q \in Twins(p)
=============================================================================
