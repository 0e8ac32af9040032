----------------------------- MODULE CrashLockbox -----------------------------
(***************************************************************************)
(* Core dumps under bpf/dump_restrict.bpf.c and modules/src/               *)
(* dump_restrict.rs.                                                       *)
(*                                                                         *)
(* A crash dumps to a file, which file_open judges in the crashing task,   *)
(* or through the helper core_pattern names.  Then two hooks have to find  *)
(* each other: the observer in the crashing task, which knows the uid and  *)
(* pushes a token, and bprm_check in the kernel worker that starts the     *)
(* helper later, which knows nothing of the crash and pops the oldest      *)
(* token.  The helper's inode is indexed once, when the daemon boots.      *)
(***************************************************************************)
EXTENDS Naturals, Sequences, FiniteSets

CONSTANTS
  Crashes,    \* the crashes that may happen
  Handlers,   \* helpers core_pattern may name
  File,       \* a core_pattern that is not a pipe
  Nobody,     \* no crash
  QueueCap    \* max_entries of pending_crash_blocks

ASSUME LockboxAssumption ==
  /\ IsFiniteSet(Crashes)
  /\ File \notin Handlers /\ Nobody \notin Crashes
  /\ QueueCap \in Nat \ {0}

VARIABLES
  state,                \* the module's state_map flag
  core_pattern,         \* the current dump destination
  protected_files,      \* helpers whose inode is indexed
  pending_crash_blocks, \* the queue of tokens, oldest first
  uid,                  \* "root" or "user", per crash
  crash,                \* how far each crash got
  via,                  \* the helper its dump goes through
  (* history *)
  pushed,               \* crashes whose token was queued
  popped,               \* the token that each blocked helper consumed
  leaked,               \* pushed crashes whose helper found no token left
  excused               \* crashes that met a hook that was off, or a full queue

vars == <<state, core_pattern, protected_files, pending_crash_blocks, uid,
          crash, via, pushed, popped, leaked, excused>>

(* init resolves core_pattern and indexes the helper, or cannot and only   *)
(* warns.                                                                  *)
Init ==
  /\ state \in BOOLEAN
  /\ core_pattern \in Handlers \cup {File}
  /\ protected_files \in {{}, {core_pattern} \ {File}}
  /\ pending_crash_blocks = <<>>
  /\ uid \in [Crashes -> {"root", "user"}]
  /\ crash = [c \in Crashes |-> "running"]
  /\ via = [c \in Crashes |-> File]
  /\ pushed = {}
  /\ popped = [c \in Crashes |-> Nobody]
  /\ leaked = {}
  /\ excused = {}
-----------------------------------------------------------------------------
(* prctl(PR_SET_DUMPABLE, 0): a crash would leave no dump ...              *)
ClearDumpable(c) ==
  /\ crash[c] = "running"
  /\ crash' = [crash EXCEPT ![c] = "closed"]
  /\ UNCHANGED <<state, core_pattern, protected_files, pending_crash_blocks,
                 uid, via, pushed, popped, leaked, excused>>

(* ... and 1, which task_prctl denies to an unprivileged task.             *)
SetDumpable(c) ==
  /\ crash[c] = "closed"
  /\ ~(state /\ uid[c] = "user")
  /\ crash' = [crash EXCEPT ![c] = "running"]
  /\ UNCHANGED <<state, core_pattern, protected_files, pending_crash_blocks,
                 uid, via, pushed, popped, leaked, excused>>

(* The dump goes to a file: file_open denies it to an unprivileged task.   *)
DumpToFile(c) ==
  /\ crash[c] = "running"
  /\ core_pattern = File
  /\ crash' = [crash EXCEPT ![c] =
                 IF state /\ uid[c] = "user" THEN "denied" ELSE "dumped"]
  /\ excused' = IF state THEN excused ELSE excused \cup {c}
  /\ UNCHANGED <<state, core_pattern, protected_files, pending_crash_blocks,
                 uid, via, pushed, popped, leaked>>

(* History: the observer is off or finds the queue full.                   *)
Missed(c) ==
  IF ~state \/ Len(pending_crash_blocks) = QueueCap
    THEN excused \cup {c} ELSE excused

ObserverOverwrites(c) ==  \* mutant: BPF_EXIST, a full queue drops its oldest
  /\ crash[c] = "running"
  /\ core_pattern # File
  /\ crash' = [crash EXCEPT ![c] = "setup"]
  /\ via' = [via EXCEPT ![c] = core_pattern]
  /\ IF state /\ uid[c] = "user"
       THEN /\ pending_crash_blocks' =
                 IF Len(pending_crash_blocks) < QueueCap
                   THEN Append(pending_crash_blocks, c)
                   ELSE Append(Tail(pending_crash_blocks), c)
            /\ pushed' = pushed \cup {c}
       ELSE UNCHANGED <<pending_crash_blocks, pushed>>
  /\ excused' = Missed(c)
  /\ UNCHANGED <<state, core_pattern, protected_files, uid, popped, leaked>>

ObserverOfRoot(c) ==  \* mutant: the uid test is inverted
  /\ crash[c] = "running"
  /\ core_pattern # File
  /\ crash' = [crash EXCEPT ![c] = "setup"]
  /\ via' = [via EXCEPT ![c] = core_pattern]
  /\ IF state /\ uid[c] = "root" /\ Len(pending_crash_blocks) < QueueCap
       THEN /\ pending_crash_blocks' = Append(pending_crash_blocks, c)
            /\ pushed' = pushed \cup {c}
       ELSE UNCHANGED <<pending_crash_blocks, pushed>>
  /\ excused' = Missed(c)
  /\ UNCHANGED <<state, core_pattern, protected_files, uid, popped, leaked>>

(* call_usermodehelper_setup in the crashing task: the observer pushes a   *)
(* token for an unprivileged crash.  The result of the push is not looked  *)
(* at: a full queue loses the token.                                       *)
Observer(c) ==
  /\ crash[c] = "running"
  /\ core_pattern # File
  /\ crash' = [crash EXCEPT ![c] = "setup"]
  /\ via' = [via EXCEPT ![c] = core_pattern]
  /\ IF state /\ uid[c] = "user" /\ Len(pending_crash_blocks) < QueueCap
       THEN /\ pending_crash_blocks' = Append(pending_crash_blocks, c)
            /\ pushed' = pushed \cup {c}
       ELSE UNCHANGED <<pending_crash_blocks, pushed>>
  /\ excused' = Missed(c)
  /\ UNCHANGED <<state, core_pattern, protected_files, uid, popped, leaked>>

(* The helper is never started: no memory, or the waiting task is killed.  *)
Abort(c) ==
  /\ crash[c] = "setup"
  /\ crash' = [crash EXCEPT ![c] = "aborted"]
  /\ UNCHANGED <<state, core_pattern, protected_files, pending_crash_blocks,
                 uid, via, pushed, popped, leaked, excused>>

(* bprm_check in the kernel worker.  Off, or an unknown inode: not judged. *)
Unchecked(c) ==
  /\ crash[c] = "setup"
  /\ ~state \/ via[c] \notin protected_files
  /\ crash' = [crash EXCEPT ![c] = "dumped"]
  /\ excused' = IF state THEN excused ELSE excused \cup {c}
  /\ UNCHANGED <<state, core_pattern, protected_files, pending_crash_blocks,
                 uid, via, pushed, popped, leaked>>

PopPeeks(c) ==  \* mutant: bpf_map_peek_elem leaves the token in the queue
  /\ crash[c] = "setup"
  /\ state /\ via[c] \in protected_files
  /\ pending_crash_blocks # <<>>
  /\ popped' = [popped EXCEPT ![c] = Head(pending_crash_blocks)]
  /\ crash' = [crash EXCEPT ![c] = "blocked"]
  /\ UNCHANGED <<state, core_pattern, protected_files, pending_crash_blocks,
                 uid, via, pushed, leaked, excused>>

(* A token: the helper is refused, the token's crash is reported.          *)
PopBlocks(c) ==
  /\ crash[c] = "setup"
  /\ state /\ via[c] \in protected_files
  /\ pending_crash_blocks # <<>>
  /\ popped' = [popped EXCEPT ![c] = Head(pending_crash_blocks)]
  /\ pending_crash_blocks' = Tail(pending_crash_blocks)
  /\ crash' = [crash EXCEPT ![c] = "blocked"]
  /\ UNCHANGED <<state, core_pattern, protected_files, uid, via, pushed,
                 leaked, excused>>

(* No token: taken for the crash of a root process and let through.        *)
PopEmpty(c) ==
  /\ crash[c] = "setup"
  /\ state /\ via[c] \in protected_files
  /\ pending_crash_blocks = <<>>
  /\ crash' = [crash EXCEPT ![c] = "dumped"]
  /\ leaked' = IF c \in pushed THEN leaked \cup {c} ELSE leaked
  /\ UNCHANGED <<state, core_pattern, protected_files, pending_crash_blocks,
                 uid, via, pushed, popped, excused>>

(* The administrator points core_pattern elsewhere; nothing re-indexes it. *)
SetCorePattern(h) ==
  /\ core_pattern # h
  /\ core_pattern' = h
  /\ UNCHANGED <<state, protected_files, pending_crash_blocks, uid, crash, via,
                 pushed, popped, leaked, excused>>

(* The control plane writes the module's flag.                             *)
SetModuleState(enable) ==
  /\ state # enable
  /\ state' = enable
  /\ UNCHANGED <<core_pattern, protected_files, pending_crash_blocks, uid,
                 crash, via, pushed, popped, leaked, excused>>

Next ==
  \/ \E c \in Crashes :
       \/ ClearDumpable(c) \/ SetDumpable(c)
       \/ DumpToFile(c) \/ Observer(c) \/ Abort(c)
       \/ Unchecked(c) \/ PopBlocks(c) \/ PopEmpty(c)
  \/ \E h \in Handlers \cup {File} : SetCorePattern(h)
  \/ \E enable \in BOOLEAN : SetModuleState(enable)

Spec == Init /\ [][Next]_vars
-----------------------------------------------------------------------------
Stages == {"running", "closed", "denied", "setup", "aborted", "blocked",
           "dumped"}

TypeOK ==
  /\ state \in BOOLEAN
  /\ core_pattern \in Handlers \cup {File}
  /\ protected_files \subseteq Handlers
  /\ pending_crash_blocks \in Seq(Crashes)
  /\ Len(pending_crash_blocks) <= QueueCap
  /\ uid \in [Crashes -> {"root", "user"}]
  /\ crash \in [Crashes -> Stages]
  /\ via \in [Crashes -> Handlers \cup {File}]
  /\ pushed \subseteq Crashes
  /\ popped \in [Crashes -> Crashes \cup {Nobody}]
  /\ leaked \subseteq Crashes
  /\ excused \subseteq Crashes

(* Blocked helpers whose own crash had queued no token: root's, and those  *)
(* of unprivileged crashes the observer missed.                            *)
Swapped == {c \in Crashes : crash[c] = "blocked" /\ c \notin pushed}

(* Tokens carry no name, but none is invented or lost: a helper of an      *)
(* observed crash finds the queue empty only because another helper was    *)
(* blocked in its stead.                                                   *)
LeaksAreAccounted == Cardinality(leaked) <= Cardinality(Swapped)

(* An unprivileged crash leaves a dump only with the module off at one of  *)
(* its hooks, with a full queue, with its token spent on another helper,   *)
(* or through a helper that core_pattern did not name at boot.             *)
DumpsExplained ==
  \A c \in Crashes :
    crash[c] = "dumped" /\ uid[c] = "user" =>
      c \in excused \cup leaked \/ via[c] \notin protected_files \cup {File}

(* A token is consumed once, and only by a helper that was blocked.        *)
TokensConsumedOnce ==
  \A c, d \in Crashes :
    popped[c] # Nobody =>
      /\ crash[c] = "blocked" /\ popped[c] \in pushed
      /\ popped[c] = popped[d] => c = d
      /\ \A i \in 1 .. Len(pending_crash_blocks) :
           pending_crash_blocks[i] # popped[c]
=============================================================================
