---------------------------- MODULE StrikeTracker ----------------------------
(***************************************************************************)
(* The rename_entropy module beyond its verdict: the hook kills a process  *)
(* that renames a file to a random name and reports its parent; the daemon *)
(* counts the strikes of each parent in STRIKE_TRACKER and, at the third   *)
(* within two seconds, kills the parent's children and then the parent     *)
(* from a snapshot of the process table.  Meanwhile processes fork, exit,  *)
(* are reparented, and process ids are used again.                         *)
(*                                                                         *)
(* A tick is a second, the unit of start_time.  The snapshot is taken at   *)
(* once.  Names and paths are left out; EntropyVerdict has the verdict.    *)
(***************************************************************************)
EXTENDS Integers, Sequences

CONSTANTS
  Pids,      \* process ids, the daemon's among them
  Daemon,    \* the daemon's process id
  Reaper,    \* pid 1, which adopts orphans and cannot be killed
  Window,    \* 2 seconds
  PruneAge,  \* 5 seconds
  Strikes,   \* 3
  RingCap,   \* alerts that fit in the ring
  MaxForks,  \* bound: processes started
  MaxTime    \* bound: the clock stops there

ASSUME TrackerAssumption ==
  /\ Daemon \in Pids /\ Reaper \notin Pids
  /\ Window \in Nat /\ PruneAge \in Nat /\ Window < PruneAge
  /\ Strikes \in Nat \ {0, 1}
  /\ RingCap \in Nat \ {0}
  /\ MaxForks \in Nat /\ MaxTime \in Nat

VARIABLES
  clock,
  proc,      \* the live processes: identity, parent and start time
  forks,     \* processes started so far; their numbers are identities
  ring,      \* the parents named by the alerts, oldest first
  tracker,   \* STRIKE_TRACKER: PpidStrike of each parent
  poisoned,  \* its mutex was poisoned by a panic
  phase,     \* what the handler does: "idle", "snapshot" or "kill"
  target,    \* the parent it neutralises
  todo,      \* children of the snapshot still to be killed
  boss,      \* the target as the snapshot shows it: none or one
  (* history *)
  seen,      \* times of the last Memory strikes of each parent, 0 for one
             \* that was out of the window at the last
  family,    \* the target's children when the last strike was counted
  chief,     \* the identity of the target at that moment: none or one
  since,     \* processes started by that moment
  orphaned,  \* that process was gone when the snapshot was taken
  escaped    \* children that outlived an eradication

handlerVars == <<tracker, poisoned, phase, target, todo, boss>>
historyVars == <<seen, family, chief, since, orphaned, escaped>>
vars == <<clock, proc, forks, ring, handlerVars, historyVars>>

Parents == Pids \cup {Reaper}
Live == DOMAIN proc
Memory == 2 * Strikes - 2
NoStrikes == [i \in 1 .. Memory |-> 0]

(* The function f with v at x.                                             *)
Put(f, x, v) ==
  [y \in DOMAIN f \cup {x} |-> IF y = x THEN v ELSE f[y]]

NoEntries == [p \in {} |-> 0]
ChildrenOf(p) ==
  {[pid |-> q, id |-> proc[q].id] : q \in {r \in Live : proc[r].parent = p}}
IdentityOf(p) == {proc[q].id : q \in {p} \cap Live}
Lives(v) == v.pid \in Live /\ proc[v.pid].id = v.id

(* A process dies and its children are adopted.                            *)
Without(p) ==
  [q \in Live \ {p} |->
     [proc[q] EXCEPT !.parent = IF @ = p THEN Reaper ELSE @]]

HandlerIdle ==
  /\ phase' = "idle" /\ target' = Reaper /\ todo' = {} /\ boss' = {}
  /\ family' = {} /\ chief' = {} /\ since' = 0 /\ orphaned' = FALSE

Init ==
  /\ clock = 1
  /\ proc = [p \in {Daemon} |-> [id |-> 0, parent |-> Reaper, start |-> 1]]
  /\ forks = 0
  /\ ring = <<>>
  /\ tracker = NoEntries
  /\ poisoned = FALSE
  /\ phase = "idle" /\ target = Reaper /\ todo = {} /\ boss = {}
  /\ seen = [p \in Parents |-> NoStrikes]
  /\ family = {} /\ chief = {} /\ since = 0
  /\ orphaned = FALSE /\ escaped = {}
-----------------------------------------------------------------------------
(* The system around the daemon.                                           *)
Tick ==
  /\ clock < MaxTime
  /\ clock' = clock + 1
  /\ UNCHANGED <<proc, forks, ring, handlerVars, historyVars>>

Fork(p, child) ==
  /\ p \in Live \cup {Reaper} /\ p # Daemon
  /\ child \notin Live \cup {Daemon} /\ forks < MaxForks
  /\ forks' = forks + 1
  /\ proc' = Put(proc, child, [id |-> forks', parent |-> p, start |-> clock])
  /\ UNCHANGED <<clock, ring, handlerVars, historyVars>>

Exit(p) ==
  /\ p \in Live \ {Daemon}
  /\ proc' = Without(p)
  /\ UNCHANGED <<clock, forks, ring, handlerVars, historyVars>>

(* Killed by its own eradication (it is a child of pid 1), the daemon is   *)
(* started again: Restart=on-failure.  Its maps and its memory are new.    *)
Restart ==
  /\ Daemon \notin Live
  /\ proc' = Put(proc, Daemon, [id |-> 0, parent |-> Reaper, start |-> clock])
  /\ ring' = <<>>
  /\ tracker' = NoEntries /\ poisoned' = FALSE
  /\ HandlerIdle
  /\ seen' = [p \in Parents |-> NoStrikes]
  /\ UNCHANGED <<clock, forks, escaped>>
-----------------------------------------------------------------------------
(* The hook on a process whose rename is judged random: the parent goes    *)
(* into an alert unless the ring is full, and the process is killed unless *)
(* the signal fails.  The rename is denied in any case.                    *)
RenameBlocked(p) ==
  /\ Daemon \in Live /\ p \in Live \ {Daemon}
  /\ ring' = IF Len(ring) < RingCap THEN Append(ring, proc[p].parent) ELSE ring
  /\ proc' \in {proc, Without(p)}
  /\ UNCHANGED <<clock, forks, handlerVars, historyVars>>
-----------------------------------------------------------------------------
(* The handler, in the actor's thread.  A poisoned mutex has its map       *)
(* cleared, and stays poisoned; then stale entries are pruned.             *)
Pruned ==
  LET fresh == {p \in DOMAIN tracker : clock - tracker[p].first < PruneAge}
  IN  IF poisoned THEN NoEntries ELSE [p \in fresh |-> tracker[p]]

StruckSlides(p) ==  \* mutant: every strike moves the window on
  LET s == IF p \in DOMAIN Pruned THEN Pruned[p]
                                  ELSE [count |-> 0, first |-> clock]
  IN  [count |-> IF clock - s.first > Window THEN 1 ELSE s.count + 1,
       first |-> clock]

StruckForgets(p) ==  \* mutant: the strike that opens a new window is lost
  LET s == IF p \in DOMAIN Pruned THEN Pruned[p]
                                  ELSE [count |-> 0, first |-> clock]
  IN  IF clock - s.first > Window THEN [count |-> 0, first |-> clock]
                                  ELSE [s EXCEPT !.count = @ + 1]

(* The strike that an alert adds: a window that expired begins anew.       *)
Struck(p) ==
  LET s == IF p \in DOMAIN Pruned THEN Pruned[p]
                                  ELSE [count |-> 0, first |-> clock]
  IN  IF clock - s.first > Window THEN [count |-> 1, first |-> clock]
                                  ELSE [s EXCEPT !.count = @ + 1]

(* The times s after one more strike, now.                                 *)
Recorded(s) ==
  [i \in 1 .. Memory |-> IF i = Memory THEN clock
                         ELSE IF clock - s[i + 1] > Window THEN 0
                         ELSE s[i + 1]]

HandleAlert ==
  /\ Daemon \in Live /\ phase = "idle" /\ ring # <<>>
  /\ LET p == Head(ring) IN
       /\ tracker' = Put(Pruned, p, Struck(p))
       /\ seen' = [seen EXCEPT ![p] = Recorded(@)]
       /\ IF Struck(p).count >= Strikes
            THEN /\ phase' = "snapshot" /\ target' = p
                 /\ family' = ChildrenOf(p) /\ chief' = IdentityOf(p)
                 /\ since' = forks
            ELSE UNCHANGED <<phase, target, family, chief, since>>
  /\ ring' = Tail(ring)
  /\ UNCHANGED <<clock, proc, forks, poisoned, todo, boss, orphaned, escaped>>

(* The handler panics with the lock held, where it prints; the callback of *)
(* the poll catches the panic, but the mutex stays poisoned for good.      *)
HandlerPanics ==
  /\ Daemon \in Live
  /\ \/ phase = "idle" /\ ring # <<>> /\ ring' = Tail(ring)
        /\ tracker' = Pruned
     \/ phase # "idle" /\ UNCHANGED <<ring, tracker>>
  /\ poisoned' = TRUE
  /\ HandlerIdle
  /\ seen' = [p \in Parents |-> NoStrikes]
  /\ UNCHANGED <<clock, proc, forks, escaped>>

SnapshotSiblings ==  \* mutant: the target's siblings are taken for workers
  /\ Daemon \in Live /\ phase = "snapshot"
  /\ phase' = "kill"
  /\ todo' = UNION {ChildrenOf(p) : p \in {target}
                       \cup {proc[q].parent : q \in {target} \cap Live}}
  /\ boss' = IF target \in Live THEN {proc[target]} ELSE {}
  /\ orphaned' = (IdentityOf(target) # chief)
  /\ UNCHANGED <<clock, proc, forks, ring, tracker, poisoned, target, seen,
                 family, chief, since, escaped>>

(* neutralize_threat_tree: System::new_all and refresh_processes ...       *)
Snapshot ==
  /\ Daemon \in Live /\ phase = "snapshot"
  /\ phase' = "kill"
  /\ todo' = ChildrenOf(target)
  /\ boss' = IF target \in Live THEN {proc[target]} ELSE {}
  /\ orphaned' = (IdentityOf(target) # chief)
  /\ UNCHANGED <<clock, proc, forks, ring, tracker, poisoned, target, seen,
                 family, chief, since, escaped>>

KillChildStillThere ==  \* mutant: the parent is looked up again
  /\ Daemon \in Live /\ phase = "kill"
  /\ \E v \in todo :
       /\ todo' = todo \ {v}
       /\ proc' = IF v.pid \in Live /\ proc[v.pid].parent = target
                    THEN Without(v.pid) ELSE proc
  /\ UNCHANGED <<clock, forks, ring, tracker, poisoned, phase, target, boss,
                 historyVars>>

(* ... then SIGKILL for each child, that is, for whoever has its pid ...   *)
KillChild ==
  /\ Daemon \in Live /\ phase = "kill"
  /\ \E v \in todo :
       /\ todo' = todo \ {v}
       /\ proc' = Without(v.pid)
  /\ UNCHANGED <<clock, forks, ring, tracker, poisoned, phase, target, boss,
                 historyVars>>

(* ... at last for the parent, unless it started in this second, and the   *)
(* parent's strikes are flushed.                                           *)
KillParent ==
  /\ Daemon \in Live /\ phase = "kill" /\ todo = {}
  /\ proc' = IF \E b \in boss : b.start < clock THEN Without(target) ELSE proc
  /\ tracker' = [p \in DOMAIN tracker \ {target} |-> tracker[p]]
  /\ HandlerIdle
  /\ seen' = [seen EXCEPT ![target] = NoStrikes]
  /\ escaped' = IF orphaned THEN escaped
                ELSE escaped \cup {v \in family : Lives(v)}
  /\ UNCHANGED <<clock, forks, ring, poisoned>>

Next ==
  \/ Tick \/ Restart
  \/ \E p \in Parents, q \in Pids : Fork(p, q)
  \/ \E p \in Pids : Exit(p) \/ RenameBlocked(p)
  \/ HandleAlert \/ HandlerPanics \/ Snapshot \/ KillChild \/ KillParent

Spec == Init /\ [][Next]_vars
-----------------------------------------------------------------------------
Times == 0 .. MaxTime
Process == [id : 0 .. MaxForks, parent : Parents, start : Times]
Victims == [pid : Pids, id : 0 .. MaxForks]

TypeOK ==
  /\ clock \in Times
  /\ Live \subseteq Pids /\ \A p \in Live : proc[p] \in Process
  /\ forks \in 0 .. MaxForks
  /\ ring \in Seq(Parents) /\ Len(ring) <= RingCap
  /\ DOMAIN tracker \subseteq Parents
  /\ \A p \in DOMAIN tracker :
       tracker[p] \in [count : 0 .. Strikes, first : Times]
  /\ poisoned \in BOOLEAN
  /\ phase \in {"idle", "snapshot", "kill"}
  /\ target \in Parents
  /\ todo \subseteq Victims /\ family \subseteq Victims
  /\ escaped \subseteq Victims
  /\ boss \subseteq Process
  /\ chief \subseteq 0 .. MaxForks /\ since \in 0 .. forks
  /\ seen \in [Parents -> [1 .. Memory -> Times]]
  /\ orphaned \in BOOLEAN

(* A tree is eradicated only for its parent's strikes: the last three came *)
(* within the window, none of them before the previous eradication.        *)
EradicationJustified == phase # "idle" => seen[target][Strikes - 1] # 0

(* No spree goes unpunished.  The window begins with its first strike, so  *)
(* a third strike may fall into a new one; but of any four strikes within  *)
(* two seconds (2 * Strikes - 2 in general) one starts an eradication,     *)
(* unless the tracker was poisoned.                                        *)
SpreeIsEradicated ==
  phase = "idle" /\ ~poisoned => \A p \in Parents : seen[p][1] = 0

(* Killing the children first, and from a snapshot, leaves no worker       *)
(* behind: those there were at the last strike are gone when the           *)
(* eradication is over, though the parent may exit and its orphans be      *)
(* adopted meanwhile; only its exit before the snapshot hides them.        *)
NoWorkerEscapes == escaped = {}

(* The live processes that the rest of the eradication will kill: whoever  *)
(* has the pid of a child or, if its start time is old enough, the         *)
(* target's.                                                               *)
Doomed ==
  {q \in Live : \/ \E v \in todo : v.pid = q
                \/ q = target /\ \E b \in boss : b.start < clock}

(* A live process that was in the tree at the last strike or is younger.   *)
Implicated(q) ==
  \/ [pid |-> q, id |-> proc[q].id] \in family
  \/ proc[q].id \in chief
  \/ proc[q].id > since

(* Process ids are used again between the strike, the snapshot and the     *)
(* kill, and signals go to ids.  Still an eradication never reaches a      *)
(* process that stood outside the tree when the last strike was counted:   *)
(* whom it kills belonged to the tree or came to life after that.  (As the *)
(* parent, pid 1 has every orphan in its tree, at any time.)               *)
NoBystander ==
  phase = "kill" /\ target # Reaper => \A q \in Doomed : Implicated(q)
=============================================================================
