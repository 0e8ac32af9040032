------------------------- MODULE StrikeTrackerProofs -------------------------
(***************************************************************************)
(* Proofs about StrikeTracker for every set of process ids, window and     *)
(* threshold: what the tracker holds agrees with the strikes that really   *)
(* came, and an eradication kills the tree it is meant for, though process *)
(* ids are used again.                                                     *)
(***************************************************************************)
EXTENDS StrikeTracker, TLAPS

Strike == [count : 1 .. Strikes, first : Nat \ {0}]

(* The types of what the handler works on.                                 *)
HandlerTypes ==
  /\ clock \in Nat \ {0}
  /\ ring \in Seq(Parents)
  /\ DOMAIN tracker \subseteq Parents
  /\ tracker = [p \in DOMAIN tracker |-> tracker[p]]
  /\ \A p \in DOMAIN tracker :
       tracker[p] \in Strike /\ tracker[p].first <= clock
  /\ poisoned \in BOOLEAN
  /\ phase \in {"idle", "snapshot", "kill"}
  /\ target \in Parents
  /\ seen \in [Parents -> [1 .. Memory -> Nat]]
  /\ \A p \in Parents, i \in 1 .. Memory : seen[p][i] <= clock

(* The times s agree with an entry (c, f): the last c strikes are those of *)
(* the entry's window, what came before is not later than f, and enough of *)
(* it is out of the window.                                                *)
Agree(s, c, f) ==
  \A i \in 1 .. Memory :
    /\ i > Memory - c => s[i] >= f
    /\ i <= Memory - c + 1 => s[i] <= f
    /\ i <= Strikes - c => s[i] = 0

(* Without an entry, what is left of the times is out of the window.       *)
Stale(s) ==
  \A i \in 1 .. Memory : i <= Strikes => s[i] = 0 \/ clock - s[i] > Window

Busy(p) == phase # "idle" /\ p = target

Accurate ==
  /\ \A p \in DOMAIN tracker :
       /\ Agree(seen[p], tracker[p].count, tracker[p].first)
       /\ tracker[p].count = Strikes => Busy(p)
  /\ \A p \in Parents \ DOMAIN tracker : Stale(seen[p])
  /\ \A p \in Parents : seen[p][1] = 0 \/ Busy(p)
  /\ phase # "idle" =>
       target \in DOMAIN tracker /\ tracker[target].count = Strikes

IInv ==
  /\ HandlerTypes
  /\ poisoned => phase = "idle"
  /\ ~poisoned => Accurate

(* Arithmetic of the register.                                             *)
LEMMA MemoryFacts == Memory \in Nat /\ Memory = 2 * Strikes - 2 /\ Strikes \in Nat
                     /\ Strikes >= 2 /\ Memory >= 2 /\ Window \in Nat
                     /\ PruneAge \in Nat /\ Window < PruneAge
BY TrackerAssumption DEF Memory

(* One more strike keeps the times well formed.                            *)
LEMMA RecordedType ==
  ASSUME clock \in Nat \ {0}, NEW s \in [1 .. Memory -> Nat],
         \A i \in 1 .. Memory : s[i] <= clock
  PROVE  /\ Recorded(s) \in [1 .. Memory -> Nat]
         /\ \A i \in 1 .. Memory : Recorded(s)[i] <= clock
BY MemoryFacts DEF Recorded

(* A strike within the window of an entry.                                 *)
LEMMA StrikeInWindow ==
  ASSUME clock \in Nat \ {0}, NEW s \in [1 .. Memory -> Nat],
         NEW c \in 1 .. Strikes, NEW f \in Nat, c < Strikes,
         f <= clock, clock - f <= Window, Agree(s, c, f)
  PROVE  Agree(Recorded(s), c + 1, f)
BY MemoryFacts DEF Agree, Recorded

(* A strike after the window of an entry begins a new one.                 *)
LEMMA StrikeAfterWindow ==
  ASSUME clock \in Nat \ {0}, NEW s \in [1 .. Memory -> Nat],
         NEW c \in 1 .. Strikes, NEW f \in Nat, c < Strikes,
         clock - f > Window, Agree(s, c, f),
         \A i \in 1 .. Memory : s[i] <= clock
  PROVE  Agree(Recorded(s), 1, clock)
BY MemoryFacts DEF Agree, Recorded

(* A strike without an entry begins a window as well.                      *)
LEMMA StrikeFirst ==
  ASSUME clock \in Nat \ {0}, NEW s \in [1 .. Memory -> Nat],
         Stale(s), \A i \in 1 .. Memory : s[i] <= clock
  PROVE  Agree(Recorded(s), 1, clock)
BY MemoryFacts DEF Agree, Stale, Recorded

(* An entry old enough to be pruned leaves only stale times behind.        *)
LEMMA PrunedIsStale ==
  ASSUME clock \in Nat \ {0}, NEW s \in [1 .. Memory -> Nat],
         NEW c \in 1 .. Strikes, NEW f \in Nat, c < Strikes,
         clock - f >= PruneAge, Agree(s, c, f)
  PROVE  Stale(s)
BY MemoryFacts DEF Agree, Stale
-----------------------------------------------------------------------------
(* Time passes, and the ring fills: nothing of the tracker changes.        *)
LEMMA QuietSteps ==
  ASSUME IInv, clock' \in Nat, clock' >= clock, ring' \in Seq(Parents),
         UNCHANGED <<tracker, poisoned, target, seen>>,
         phase' \in {"idle", "snapshot", "kill"},
         phase' = "idle" <=> phase = "idle"
  PROVE  IInv'
<1> USE MemoryFacts
<1>1. HandlerTypes'
  <2>1. \A p \in DOMAIN tracker : tracker'[p].first <= clock'
    BY DEF IInv, HandlerTypes, Strike
  <2>2. \A p \in Parents, i \in 1 .. Memory : seen'[p][i] <= clock'
    <3> TAKE p \in Parents, i \in 1 .. Memory
    <3>1. seen[p][i] \in Nat /\ seen[p][i] <= clock
      BY DEF IInv, HandlerTypes
    <3> QED BY <3>1 DEF IInv, HandlerTypes
  <2> QED BY <2>1, <2>2 DEF IInv, HandlerTypes
<1>2. ASSUME NEW p \in Parents, Stale(seen[p]) PROVE Stale(seen[p])'
  <2>1. seen[p] \in [1 .. Memory -> Nat]
    BY DEF IInv, HandlerTypes
  <2> QED BY <1>2, <2>1 DEF IInv, HandlerTypes, Stale
<1>3. ASSUME Accurate PROVE Accurate'
  <2>1. \A p \in Parents : Busy(p)' = Busy(p)
    BY DEF Busy
  <2>2. \A p \in DOMAIN tracker : p \in Parents
    BY DEF IInv, HandlerTypes
  <2> QED BY <1>2, <1>3, <2>1, <2>2 DEF Accurate, Agree
<1> QED BY <1>1, <1>3 DEF IInv

(* A tracker without entries and times without strikes agree.              *)
Fresh ==
  /\ tracker = NoEntries /\ phase = "idle" /\ target \in Parents
  /\ seen = [p \in Parents |-> NoStrikes] /\ clock \in Nat \ {0}
  /\ ring \in Seq(Parents) /\ poisoned \in BOOLEAN

LEMMA FreshStart == Fresh => IInv
<1> SUFFICES ASSUME Fresh PROVE IInv
  OBVIOUS
<1> USE MemoryFacts DEF Fresh
<1>1. DOMAIN tracker = {}
  BY DEF NoEntries
<1>2. HandlerTypes
  BY <1>1 DEF HandlerTypes, NoStrikes, NoEntries
<1>3. Accurate
  BY <1>1 DEF Accurate, Stale, NoStrikes, Busy
<1> QED BY <1>2, <1>3 DEF IInv

(* The panic: from then on only the types matter.                          *)
LEMMA PanicStep ==
  ASSUME IInv, HandlerPanics
  PROVE  IInv'
<1> USE MemoryFacts
<1>1. ring' \in Seq(Parents)
  <2>1. ring \in Seq(Parents)
    BY DEF IInv, HandlerTypes
  <2>2. ring' = ring \/ (ring # <<>> /\ ring' = Tail(ring))
    BY DEF HandlerPanics
  <2> QED BY <2>1, <2>2
<1>2. DOMAIN tracker' \subseteq Parents /\ tracker' = [p \in DOMAIN tracker' |-> tracker'[p]]
      /\ \A p \in DOMAIN tracker' : tracker'[p] \in Strike /\ tracker'[p].first <= clock
  <2>1. CASE tracker' = tracker
    BY <2>1 DEF IInv, HandlerTypes
  <2>2. CASE tracker' = Pruned
    BY <2>2 DEF IInv, HandlerTypes, Pruned, NoEntries
  <2> QED BY <2>1, <2>2 DEF HandlerPanics
<1>3. HandlerTypes'
  BY <1>1, <1>2 DEF IInv, HandlerTypes, HandlerPanics, HandlerIdle, NoStrikes,
     Parents
<1> QED BY <1>3 DEF IInv, HandlerPanics, HandlerIdle

(* The end of an eradication: the target's entry and strikes are flushed.  *)
LEMMA FlushStep ==
  ASSUME IInv, KillParent
  PROVE  IInv'
<1> USE MemoryFacts
<1>1. /\ phase = "kill" /\ phase' = "idle" /\ target' = Reaper
      /\ tracker' = [p \in DOMAIN tracker \ {target} |-> tracker[p]]
      /\ seen' = [seen EXCEPT ![target] = NoStrikes]
      /\ UNCHANGED <<clock, ring, poisoned>>
  BY DEF KillParent, HandlerIdle
<1>2. ~poisoned /\ Accurate
  BY <1>1 DEF IInv, HandlerTypes
<1>3. NoStrikes \in [1 .. Memory -> Nat] /\ \A i \in 1 .. Memory : NoStrikes[i] = 0
  BY DEF NoStrikes
<1>4. /\ seen' \in [Parents -> [1 .. Memory -> Nat]]
      /\ seen'[target] = NoStrikes
      /\ \A p \in Parents : p # target => seen'[p] = seen[p]
  BY <1>1, <1>3 DEF IInv, HandlerTypes
<1>5. DOMAIN tracker' = DOMAIN tracker \ {target}
      /\ \A p \in DOMAIN tracker' : tracker'[p] = tracker[p]
  BY <1>1
<1>6. HandlerTypes'
  <2>1. \A p \in Parents, i \in 1 .. Memory : seen'[p][i] <= clock
    <3> TAKE p \in Parents, i \in 1 .. Memory
    <3>1. CASE p = target
      <4>1. seen'[p][i] = 0 /\ clock \in Nat
        BY <1>3, <1>4, <3>1 DEF IInv, HandlerTypes
      <4> QED BY <4>1
    <3>2. CASE p # target
      BY <1>4, <3>2 DEF IInv, HandlerTypes
    <3> QED BY <3>1, <3>2
  <2>2. target' \in Parents
    BY <1>1 DEF Parents
  <2> QED BY <1>1, <1>4, <1>5, <2>1, <2>2 DEF IInv, HandlerTypes
<1>7. Accurate'
  <2>1. ASSUME NEW p \in DOMAIN tracker'
        PROVE  /\ Agree(seen'[p], tracker'[p].count, tracker'[p].first)
               /\ tracker'[p].count # Strikes
    BY <1>2, <1>4, <1>5 DEF Accurate, Busy, IInv, HandlerTypes
  <2>2. ASSUME NEW p \in Parents \ DOMAIN tracker' PROVE Stale(seen[p])'
    <3>1. CASE p = target
      BY <1>3, <1>4, <3>1 DEF Stale
    <3>2. CASE p # target
      BY <1>1, <1>2, <1>4, <1>5, <3>2 DEF Accurate, Stale
    <3> QED BY <3>1, <3>2
  <2>3. \A p \in Parents : seen'[p][1] = 0
    BY <1>2, <1>3, <1>4 DEF Accurate, Busy
  <2> QED BY <1>1, <2>1, <2>2, <2>3 DEF Accurate, Agree
<1> QED BY <1>1, <1>2, <1>6, <1>7 DEF IInv

(* A strike while the mutex is poisoned: the cleared tracker counts to one.*)
LEMMA PoisonedStrike ==
  ASSUME IInv, HandleAlert, poisoned
  PROVE  IInv'
<1> USE MemoryFacts
<1> DEFINE p == Head(ring)
<1>1. p \in Parents /\ ring' \in Seq(Parents)
  BY DEF IInv, HandlerTypes, HandleAlert
<1>2. DOMAIN Pruned = {}
  BY DEF Pruned, NoEntries
<1>3. Struck(p) = [count |-> 1, first |-> clock]
  BY <1>2 DEF Struck, IInv, HandlerTypes
<1>4. phase' = "idle" /\ target' = target /\ UNCHANGED <<clock, poisoned>>
  BY <1>3 DEF HandleAlert, IInv
<1>5. tracker' = [q \in {p} |-> Struck(p)]
  BY <1>2 DEF HandleAlert, Put
<1>6. seen' \in [Parents -> [1 .. Memory -> Nat]]
      /\ \A q \in Parents, i \in 1 .. Memory : seen'[q][i] <= clock
  BY <1>1, RecordedType DEF HandleAlert, IInv, HandlerTypes
<1>7. Struck(p) \in Strike /\ Struck(p).first <= clock
  <2>1. clock \in Nat \ {0}
    BY DEF IInv, HandlerTypes
  <2> QED BY <1>3, <2>1 DEF Strike
<1>8. /\ DOMAIN tracker' = {p}
      /\ tracker' = [q \in DOMAIN tracker' |-> tracker'[q]]
      /\ tracker'[p] = Struck(p)
  BY <1>5
<1>9. HandlerTypes'
  BY <1>1, <1>4, <1>6, <1>7, <1>8 DEF IInv, HandlerTypes
<1> QED BY <1>4, <1>9 DEF IInv

(* A strike otherwise: the entry of the parent is opened, reopened or      *)
(* counted on, and old entries of others go.                               *)
LEMMA SoundStrike ==
  ASSUME IInv, HandleAlert, ~poisoned
  PROVE  IInv'
<1> USE MemoryFacts
<1> DEFINE p == Head(ring)
<1>1. p \in Parents /\ ring' \in Seq(Parents)
  BY DEF IInv, HandlerTypes, HandleAlert
<1>2. Accurate /\ phase = "idle" /\ clock \in Nat \ {0}
  BY DEF IInv, HandlerTypes, HandleAlert
<1>3. /\ DOMAIN Pruned = {q \in DOMAIN tracker : clock - tracker[q].first < PruneAge}
      /\ \A q \in DOMAIN Pruned : Pruned[q] = tracker[q]
  BY DEF Pruned
<1>4. \A q \in DOMAIN tracker :
        /\ q \in Parents /\ tracker[q] \in Strike
        /\ tracker[q].count \in 1 .. Strikes /\ tracker[q].count < Strikes
        /\ tracker[q].first \in Nat \ {0} /\ tracker[q].first <= clock
        /\ tracker[q] = [count |-> tracker[q].count, first |-> tracker[q].first]
  BY <1>2 DEF IInv, HandlerTypes, Accurate, Busy, Strike
<1>5. \A q \in Parents : /\ seen[q] \in [1 .. Memory -> Nat]
                         /\ \A i \in 1 .. Memory : seen[q][i] <= clock
  BY DEF IInv, HandlerTypes
<1>6. ASSUME NEW q \in Parents \ DOMAIN Pruned PROVE Stale(seen[q])
  <2>1. CASE q \in DOMAIN tracker
    <3>1. clock - tracker[q].first >= PruneAge
      BY <1>2, <1>3, <1>4, <2>1
    <3> QED BY <1>2, <1>4, <1>5, <2>1, <3>1, PrunedIsStale DEF Accurate
  <2>2. CASE q \notin DOMAIN tracker
    BY <1>2, <2>2 DEF Accurate
  <2> QED BY <2>1, <2>2
<1>7. /\ Struck(p) \in Strike /\ Struck(p).first <= clock
      /\ Agree(Recorded(seen[p]), Struck(p).count, Struck(p).first)
  <2>1. CASE p \notin DOMAIN Pruned
    <3>1. Struck(p) = [count |-> 1, first |-> clock]
      BY <1>2, <2>1 DEF Struck
    <3>2. Stale(seen[p])
      BY <1>1, <1>6, <2>1
    <3> QED BY <1>1, <1>2, <1>5, <3>1, <3>2, StrikeFirst DEF Strike
  <2>2. CASE p \in DOMAIN Pruned /\ clock - tracker[p].first > Window
    <3>1. Struck(p) = [count |-> 1, first |-> clock]
      BY <1>3, <2>2 DEF Struck
    <3>2. Agree(seen[p], tracker[p].count, tracker[p].first)
      BY <1>2, <1>3, <2>2 DEF Accurate
    <3>3. p \in DOMAIN tracker
      BY <1>3, <2>2
    <3>4. Agree(Recorded(seen[p]), 1, clock)
      BY <1>1, <1>2, <1>4, <1>5, <2>2, <3>2, <3>3, StrikeAfterWindow
    <3>5. Struck(p) \in Strike /\ Struck(p).first <= clock
      BY <1>2, <3>1 DEF Strike
    <3> QED BY <3>1, <3>4, <3>5
  <2>3. CASE p \in DOMAIN Pruned /\ ~(clock - tracker[p].first > Window)
    <3>1. Struck(p) = [count |-> tracker[p].count + 1, first |-> tracker[p].first]
      BY <1>3, <1>4, <2>3 DEF Struck
    <3>2. Agree(seen[p], tracker[p].count, tracker[p].first)
      BY <1>2, <1>3, <2>3 DEF Accurate
    <3>3. p \in DOMAIN tracker
      BY <1>3, <2>3
    <3>4. Struck(p) \in Strike /\ Struck(p).first <= clock
      BY <1>4, <3>1, <3>3 DEF Strike
    <3>5. clock - tracker[p].first <= Window
      BY <1>2, <1>4, <2>3, <3>3
    <3>6. Agree(Recorded(seen[p]), tracker[p].count + 1, tracker[p].first)
      BY <1>1, <1>2, <1>4, <1>5, <3>2, <3>3, <3>5, StrikeInWindow
    <3> QED BY <3>1, <3>4, <3>6
  <2> QED BY <2>1, <2>2, <2>3
<1>8. /\ DOMAIN tracker' = DOMAIN Pruned \cup {p}
      /\ tracker' = [q \in DOMAIN tracker' |-> tracker'[q]]
      /\ tracker'[p] = Struck(p)
      /\ \A q \in DOMAIN tracker' : q # p => tracker'[q] = tracker[q]
  BY <1>3 DEF HandleAlert, Put
<1>9. /\ seen' \in [Parents -> [1 .. Memory -> Nat]]
      /\ seen'[p] = Recorded(seen[p])
      /\ \A q \in Parents : q # p => seen'[q] = seen[q]
      /\ \A q \in Parents, i \in 1 .. Memory : seen'[q][i] <= clock
  BY <1>1, <1>2, <1>5, RecordedType DEF HandleAlert, IInv, HandlerTypes
<1>10. /\ UNCHANGED <<clock, poisoned>>
       /\ IF Struck(p).count >= Strikes THEN phase' = "snapshot" /\ target' = p
                                       ELSE UNCHANGED <<phase, target>>
  BY DEF HandleAlert
<1>11. HandlerTypes'
  BY <1>1, <1>3, <1>4, <1>7, <1>8, <1>9, <1>10 DEF IInv, HandlerTypes
<1>12. Struck(p).count \in 1 .. Strikes
  BY <1>7 DEF Strike
<1>13. Accurate'
  <2>1. ASSUME NEW q \in DOMAIN tracker'
        PROVE  /\ Agree(seen'[q], tracker'[q].count, tracker'[q].first)
               /\ tracker'[q].count = Strikes => Busy(q)'
    <3>1. CASE q = p
      BY <1>7, <1>8, <1>9, <1>10, <1>12, <3>1 DEF Busy
    <3>2. CASE q # p
      BY <1>2, <1>3, <1>4, <1>8, <1>9, <3>2 DEF Accurate, Busy
    <3> QED BY <3>1, <3>2
  <2>2. ASSUME NEW q \in Parents \ DOMAIN tracker' PROVE Stale(seen[q])'
    BY <1>6, <1>8, <1>9, <1>10 DEF Stale
  <2>3. ASSUME NEW q \in Parents PROVE seen'[q][1] = 0 \/ Busy(q)'
    <3>1. CASE q # p
      BY <1>2, <1>9, <3>1 DEF Accurate, Busy
    <3>2. CASE q = p /\ Struck(p).count < Strikes
      <4>1. 1 \in 1 .. Memory /\ 1 <= Strikes - Struck(p).count
        BY <1>12, <3>2
      <4> QED BY <1>7, <1>9, <3>2, <4>1 DEF Agree
    <3>3. CASE q = p /\ ~(Struck(p).count < Strikes)
      BY <1>10, <1>12, <3>3 DEF Busy
    <3> QED BY <3>1, <3>2, <3>3
  <2>4. phase' # "idle" =>
          target' \in DOMAIN tracker' /\ tracker'[target'].count = Strikes
    BY <1>2, <1>8, <1>10, <1>12
  <2> QED BY <2>1, <2>2, <2>3, <2>4 DEF Accurate, Agree
<1> QED BY <1>10, <1>11, <1>13 DEF IInv

(* The process table: a process has a parent, or was adopted.              *)
Processes ==
  /\ clock \in Nat /\ forks \in Nat
  /\ \A p \in DOMAIN proc :
       proc[p] \in [id : Nat, parent : Parents, start : Nat]

LEMMA DeathKeepsTable ==
  ASSUME Processes, NEW p
  PROVE  \A q \in DOMAIN Without(p) :
           Without(p)[q] \in [id : Nat, parent : Parents, start : Nat]
BY DEF Processes, Without, Live, Parents

LEMMA BirthKeepsTable ==
  ASSUME Processes, NEW c, NEW v \in [id : Nat, parent : Parents, start : Nat]
  PROVE  \A q \in DOMAIN Put(proc, c, v) :
           Put(proc, c, v)[q] \in [id : Nat, parent : Parents, start : Nat]
BY DEF Processes, Put

(* IInv holds in every reachable state.                                    *)
THEOREM Invariance == Spec => [](Processes /\ IInv)
<1>1. Init => Processes /\ IInv
  <2> SUFFICES ASSUME Init PROVE Processes /\ IInv
    OBVIOUS
  <2>1. Fresh
    <3>1. Reaper \in Parents /\ <<>> \in Seq(Parents)
      BY DEF Parents
    <3>2. clock \in Nat \ {0}
      BY DEF Init
    <3> QED BY <3>1, <3>2, Zenon DEF Init, Fresh
  <2>2. Processes
    BY DEF Init, Processes, Parents
  <2> QED BY <2>1, <2>2, FreshStart
<1>2. Processes /\ IInv /\ [Next]_vars
        => (Processes /\ IInv)'
  <2> SUFFICES ASSUME Processes, IInv, [Next]_vars
               PROVE  (Processes /\ IInv)'
    OBVIOUS
  <2>1. /\ clock \in Nat /\ forks \in Nat /\ ring \in Seq(Parents)
        /\ phase \in {"idle", "snapshot", "kill"}
    BY DEF IInv, HandlerTypes, Processes
  <2>2. CASE Tick
    BY <2>1, <2>2, QuietSteps DEF Tick, handlerVars, historyVars, Processes
  <2>3. CASE Restart
    <3>1. Fresh'
      <4>1. Reaper \in Parents /\ <<>> \in Seq(Parents)
        BY DEF Parents
      <4>2. clock' \in Nat \ {0}
        BY <2>3 DEF Restart, IInv, HandlerTypes
      <4> QED BY <2>3, <4>1, <4>2 DEF Restart, HandlerIdle, Fresh
    <3>2. [id |-> 0, parent |-> Reaper, start |-> clock]
            \in [id : Nat, parent : Parents, start : Nat]
      BY <2>1 DEF Parents
    <3>3. Processes'
      BY <2>1, <2>3, <3>2, BirthKeepsTable DEF Restart, Processes
    <3>4. IInv'
      BY <3>1, FreshStart, PTL
    <3> QED BY <2>3, <3>3, <3>4 DEF Restart, HandlerIdle
  <2>4. ASSUME NEW p \in Parents, NEW q \in Pids, Fork(p, q)
        PROVE  (Processes /\ IInv)'
    <3>1. [id |-> forks', parent |-> p, start |-> clock]
            \in [id : Nat, parent : Parents, start : Nat]
      BY <2>1, <2>4 DEF Fork
    <3>2. Processes'
      BY <2>1, <2>4, <3>1, BirthKeepsTable DEF Fork, Processes
    <3> QED BY <2>1, <2>4, <3>2, QuietSteps DEF Fork, handlerVars, historyVars
  <2>5. ASSUME NEW p \in Pids, Exit(p)
        PROVE  (Processes /\ IInv)'
    <3>1. Processes'
      BY <2>5, DeathKeepsTable DEF Exit, Processes, Parents
    <3> QED BY <2>1, <2>5, <3>1, QuietSteps DEF Exit, handlerVars, historyVars
  <2>6. ASSUME NEW p \in Pids, RenameBlocked(p)
        PROVE  (Processes /\ IInv)'
    <3>1. ring' = ring \/ ring' = Append(ring, proc[p].parent)
      BY <2>6 DEF RenameBlocked
    <3>2. proc[p].parent \in Parents
      BY <2>6 DEF RenameBlocked, Processes, Live
    <3>3. ring' \in Seq(Parents)
      BY <2>1, <3>1, <3>2
    <3>4. Processes'
      BY <2>6, DeathKeepsTable DEF RenameBlocked, Processes, Parents
    <3> QED BY <2>1, <2>6, <3>3, <3>4, QuietSteps
            DEF RenameBlocked, handlerVars, historyVars
  <2>7. CASE HandleAlert
    <3>1. IInv'
      BY <2>7, PoisonedStrike, SoundStrike
    <3> QED BY <2>7, <3>1 DEF HandleAlert, Processes
  <2>8. CASE HandlerPanics
    <3>1. IInv'
      BY <2>8, PanicStep
    <3> QED BY <2>8, <3>1 DEF HandlerPanics, HandlerIdle, Processes
  <2>9. CASE Snapshot
    <3>1. IInv'
      BY <2>1, <2>9, QuietSteps DEF Snapshot
    <3> QED BY <2>9, <3>1 DEF Snapshot, Processes
  <2>10. CASE KillChild
    <3>1. IInv'
      BY <2>1, <2>10, QuietSteps DEF KillChild, historyVars
    <3>2. PICK v \in todo : todo' = todo \ {v} /\ proc' = Without(v.pid)
      BY <2>10 DEF KillChild
    <3> QED BY <2>10, <3>1, <3>2, DeathKeepsTable
            DEF KillChild, Processes
  <2>11. CASE KillParent
    <3>1. IInv'
      BY <2>11, FlushStep
    <3>2. Processes'
      BY <2>11, DeathKeepsTable DEF KillParent, Processes, IInv, HandlerTypes
    <3> QED BY <2>11, <3>1, <3>2 DEF KillParent, HandlerIdle
  <2>12. CASE UNCHANGED vars
    BY <2>1, <2>12, QuietSteps DEF vars, handlerVars, historyVars, Processes
  <2> QED BY <2>2, <2>3, <2>4, <2>5, <2>6, <2>7, <2>8, <2>9, <2>10, <2>11,
             <2>12 DEF Next
<1> QED BY <1>1, <1>2, PTL DEF Spec

(* For every threshold and window: no eradication without the strikes that *)
(* warrant it.                                                             *)
THEOREM OnlyJustifiedEradications == Spec => []EradicationJustified
<1>1. IInv => EradicationJustified
  <2> SUFFICES ASSUME IInv, phase # "idle" PROVE seen[target][Strikes - 1] # 0
    BY DEF EradicationJustified
  <2> USE MemoryFacts
  <2>1. /\ target \in DOMAIN tracker /\ tracker[target].count = Strikes
        /\ Agree(seen[target], tracker[target].count, tracker[target].first)
        /\ tracker[target].first \in Nat \ {0}
        /\ seen[target] \in [1 .. Memory -> Nat]
    BY DEF IInv, HandlerTypes, Accurate, Strike
  <2>2. Strikes - 1 \in 1 .. Memory /\ Strikes - 1 > Memory - Strikes
    OBVIOUS
  <2>3. seen[target][Strikes - 1] >= tracker[target].first
    BY <2>1, <2>2 DEF Agree
  <2> QED BY <2>1, <2>2, <2>3
<1> QED BY <1>1, Invariance, PTL

(* For every threshold and window: of 2 * Strikes - 2 strikes within one   *)
(* window one starts an eradication, unless the tracker was poisoned.      *)
THEOREM SpreesAreEradicated == Spec => []SpreeIsEradicated
<1>1. IInv => SpreeIsEradicated
  BY DEF IInv, Accurate, Busy, SpreeIsEradicated
<1> QED BY <1>1, Invariance, PTL
-----------------------------------------------------------------------------
(* Eradications and the process table.  Numbers of processes are not used  *)
(* again, and every process has a live parent or the reaper.               *)
Table ==
  /\ forks \in Nat
  /\ DOMAIN proc \subseteq Pids
  /\ \A q \in DOMAIN proc :
       /\ proc[q] \in [id : Nat, parent : Parents, start : Nat]
       /\ proc[q].id <= forks
       /\ proc[q].parent \in DOMAIN proc \cup {Reaper}

(* A child that is still alive is one of the target still, or the target   *)
(* is another process now.                                                 *)
Reachable(v) ==
  \/ proc[v.pid].parent = target /\ (target = Reaper \/ chief # {})
  \/ chief # {} /\ IdentityOf(target) # chief

Kinship ==
  /\ family \subseteq [pid : Pids, id : Nat]
  /\ \A v \in family : v.id <= forks
  /\ \A k \in chief : k \in Nat /\ k <= forks
  /\ todo \subseteq [pid : Pids, id : Nat]
  /\ phase = "snapshot" => \A v \in family : Lives(v) => Reachable(v)
  /\ phase = "kill" /\ ~orphaned => \A v \in family : Lives(v) => v \in todo

FamilyInv == Table /\ Kinship /\ escaped = {}

(* A death: nobody comes to life, and only children of the dead change     *)
(* their parent.                                                           *)
LEMMA DeathOfOne ==
  ASSUME Table, NEW p, proc' = Without(p), forks' = forks
  PROVE  /\ Table'
         /\ \A q \in DOMAIN proc' :
              /\ q # p /\ q \in DOMAIN proc /\ proc'[q].id = proc[q].id
              /\ proc'[q].parent = IF proc[q].parent = p THEN Reaper
                                                         ELSE proc[q].parent
         /\ DOMAIN proc' = DOMAIN proc \ {p}
<1>1. DOMAIN proc' = DOMAIN proc \ {p}
  BY DEF Without, Live
<1>2. ASSUME NEW q \in DOMAIN proc \ {p}
      PROVE  proc'[q] = [id |-> proc[q].id,
                         parent |-> IF proc[q].parent = p THEN Reaper
                                                          ELSE proc[q].parent,
                         start |-> proc[q].start]
  BY DEF Without, Live, Table
<1>3. ASSUME NEW q \in DOMAIN proc \ {p}
      PROVE  /\ proc'[q] \in [id : Nat, parent : Parents, start : Nat]
             /\ proc'[q].id <= forks
             /\ proc'[q].parent \in DOMAIN proc' \cup {Reaper}
  BY <1>1, <1>2 DEF Table, Parents
<1>4. Table'
  BY <1>1, <1>3 DEF Table
<1> QED BY <1>1, <1>2, <1>4

(* A birth: the new process has a number nobody had before.                *)
LEMMA BirthOfOne ==
  ASSUME Table, NEW c \in Pids, c \notin DOMAIN proc,
         NEW v \in [id : Nat, parent : Parents, start : Nat],
         v.parent \in DOMAIN proc \cup {Reaper},
         proc' = Put(proc, c, v), forks' \in Nat, v.id <= forks', forks <= forks'
  PROVE  /\ Table'
         /\ DOMAIN proc' = DOMAIN proc \cup {c}
         /\ \A q \in DOMAIN proc : proc'[q] = proc[q]
         /\ proc'[c] = v
<1>1. DOMAIN proc' = DOMAIN proc \cup {c} /\ proc'[c] = v
      /\ \A q \in DOMAIN proc : proc'[q] = proc[q]
  BY DEF Put
<1>2. ASSUME NEW q \in DOMAIN proc'
      PROVE  /\ proc'[q] \in [id : Nat, parent : Parents, start : Nat]
             /\ proc'[q].id <= forks'
             /\ proc'[q].parent \in DOMAIN proc' \cup {Reaper}
  BY <1>1 DEF Table
<1> QED BY <1>1, <1>2 DEF Table

(* Deaths keep the kinship, whoever dies and whatever killed it: when the  *)
(* target dies its identity is gone, and other deaths move no child of it. *)
LEMMA DeathKeepsKin ==
  ASSUME FamilyInv, NEW p \in Pids, proc' = Without(p),
         UNCHANGED <<forks, phase, target, family, chief, orphaned, escaped>>,
         \/ todo' = todo
         \/ \E v \in todo : todo' = todo \ {v} /\ v.pid = p
  PROVE  FamilyInv'
<1>1. /\ Table'
      /\ DOMAIN proc' = DOMAIN proc \ {p}
      /\ \A q \in DOMAIN proc' :
           /\ q # p /\ q \in DOMAIN proc /\ proc'[q].id = proc[q].id
           /\ proc'[q].parent = IF proc[q].parent = p THEN Reaper
                                                      ELSE proc[q].parent
  BY DeathOfOne DEF FamilyInv
<1>2. \A v \in family : Lives(v)' => Lives(v) /\ v.pid # p
  BY <1>1 DEF Lives, Live
<1>3. IdentityOf(target)' = IF target = p THEN {} ELSE IdentityOf(target)
  BY <1>1 DEF IdentityOf, Live
<1>4. ASSUME phase = "snapshot", NEW v \in family, Lives(v)'
      PROVE  Reachable(v)'
  <2>1. Lives(v) /\ Reachable(v) /\ v.pid \in DOMAIN proc'
    BY <1>2, <1>4 DEF FamilyInv, Kinship, Lives, Live
  <2>2. p # Reaper
    BY TrackerAssumption
  <2>3. CASE chief # {} /\ IdentityOf(target) # chief
    BY <1>3, <2>3 DEF Reachable
  <2>4. CASE proc[v.pid].parent = target /\ (target = Reaper \/ chief # {})
    <3>1. CASE target = p
      BY <1>3, <2>2, <2>4, <3>1 DEF Reachable
    <3>2. CASE target # p
      BY <1>1, <2>1, <2>4, <3>2 DEF Reachable
    <3> QED BY <3>1, <3>2
  <2> QED BY <2>1, <2>3, <2>4 DEF Reachable
<1>5. ASSUME phase = "kill", ~orphaned, NEW v \in family, Lives(v)'
      PROVE  v \in todo'
  BY <1>2, <1>5 DEF FamilyInv, Kinship
<1> QED BY <1>1, <1>4, <1>5 DEF FamilyInv, Kinship

LEMMA ForkKeepsKin ==
  ASSUME FamilyInv, clock \in Nat, NEW p \in Parents, NEW c \in Pids, Fork(p, c)
  PROVE  FamilyInv'
<1> DEFINE v == [id |-> forks + 1, parent |-> p, start |-> clock]
<1>1. /\ p \in DOMAIN proc \cup {Reaper} /\ c \notin DOMAIN proc
      /\ forks' = forks + 1 /\ proc' = Put(proc, c, v)
      /\ UNCHANGED <<phase, target, todo, family, chief, orphaned, escaped>>
  BY DEF Fork, Live, handlerVars, historyVars
<1>2. v \in [id : Nat, parent : Parents, start : Nat] /\ forks \in Nat
  BY DEF FamilyInv, Table
<1>3. /\ Table'
      /\ DOMAIN proc' = DOMAIN proc \cup {c}
      /\ \A q \in DOMAIN proc : proc'[q] = proc[q]
      /\ proc'[c].id = forks + 1
  BY <1>1, <1>2, BirthOfOne DEF FamilyInv
<1>4. \A x \in family : Lives(x)' => Lives(x) /\ proc'[x.pid] = proc[x.pid]
  BY <1>2, <1>3 DEF Lives, Live, FamilyInv, Kinship
<1>5. IdentityOf(target)' =
        IF target = c THEN {forks + 1} ELSE IdentityOf(target)
  BY <1>1, <1>3 DEF IdentityOf, Live
<1>6. chief # {} /\ IdentityOf(target) # chief => IdentityOf(target)' # chief
  BY <1>2, <1>5 DEF FamilyInv, Kinship
<1>7. \A x \in family : Lives(x)' /\ Reachable(x) => Reachable(x)'
  BY <1>1, <1>4, <1>6 DEF Reachable
<1> QED BY <1>1, <1>2, <1>3, <1>4, <1>7 DEF FamilyInv, Kinship

(* The last strike: the target's children are there, and it lives unless   *)
(* it is the reaper.                                                       *)
LEMMA StrikeKeepsKin ==
  ASSUME FamilyInv, HandleAlert
  PROVE  FamilyInv'
<1> DEFINE p == Head(ring)
<1>1. /\ phase = "idle"
      /\ UNCHANGED <<forks, proc, todo, orphaned, escaped>>
      /\ \/ UNCHANGED <<phase, target, family, chief>>
         \/ /\ phase' = "snapshot" /\ target' = p
            /\ family' = ChildrenOf(p) /\ chief' = IdentityOf(p)
  BY DEF HandleAlert
<1>2. CASE UNCHANGED <<phase, target, family, chief>>
  BY <1>1, <1>2 DEF FamilyInv, Table, Kinship
<1>3. CASE /\ phase' = "snapshot" /\ target' = p
           /\ family' = ChildrenOf(p) /\ chief' = IdentityOf(p)
  <2>1. ASSUME NEW v \in family'
        PROVE  /\ v \in [pid : Pids, id : Nat] /\ v.id <= forks
               /\ proc[v.pid].parent = p /\ (p = Reaper \/ chief' # {})
    <3>1. PICK q \in DOMAIN proc :
            proc[q].parent = p /\ v = [pid |-> q, id |-> proc[q].id]
      BY <1>3, <2>1 DEF ChildrenOf, Live
    <3>2. p = Reaper \/ p \in DOMAIN proc
      BY <3>1 DEF FamilyInv, Table
    <3>3. p \in DOMAIN proc => proc[p].id \in chief'
      BY <1>3 DEF IdentityOf, Live
    <3> QED BY <3>1, <3>2, <3>3 DEF FamilyInv, Table
  <2>2. \A v \in family' : Reachable(v)'
    BY <1>1, <1>3, <2>1 DEF Reachable
  <2>3. \A k \in chief' : k \in Nat /\ k <= forks
    BY <1>3 DEF IdentityOf, Live, FamilyInv, Table
  <2> QED BY <1>1, <1>3, <2>1, <2>2, <2>3 DEF FamilyInv, Kinship, Table
<1> QED BY <1>1, <1>2, <1>3

(* The snapshot has all that is left of the family, if the target is still *)
(* the process it was.                                                     *)
LEMMA SnapshotKeepsKin ==
  ASSUME FamilyInv, Snapshot
  PROVE  FamilyInv'
<1>1. /\ phase = "snapshot" /\ phase' = "kill"
      /\ todo' = ChildrenOf(target)
      /\ ~orphaned' => IdentityOf(target) = chief
      /\ UNCHANGED <<forks, proc, target, family, chief, escaped>>
  BY DEF Snapshot
<1>2. ASSUME ~orphaned', NEW v \in family, Lives(v)
      PROVE  v \in todo'
  <2>1. v.pid \in DOMAIN proc /\ proc[v.pid].parent = target
        /\ proc[v.pid].id = v.id
    BY <1>1, <1>2 DEF FamilyInv, Kinship, Reachable, Lives, Live
  <2>2. v = [pid |-> v.pid, id |-> v.id]
    BY DEF FamilyInv, Kinship
  <2> QED BY <1>1, <2>1, <2>2 DEF ChildrenOf, Live
<1>3. todo' \subseteq [pid : Pids, id : Nat]
  BY <1>1 DEF ChildrenOf, Live, FamilyInv, Table
<1>4. \A v \in family : Lives(v)' <=> Lives(v)
  BY <1>1 DEF Lives, Live
<1> QED BY <1>1, <1>2, <1>3, <1>4 DEF FamilyInv, Kinship, Table

(* Nobody is left of the family when the last child has been killed.       *)
LEMMA KillParentKeepsKin ==
  ASSUME FamilyInv, KillParent, target \in Parents
  PROVE  FamilyInv'
<1>1. /\ phase = "kill" /\ todo = {} /\ phase' = "idle"
      /\ family' = {} /\ chief' = {} /\ todo' = {} /\ forks' = forks
      /\ escaped' = IF orphaned THEN escaped
                    ELSE escaped \cup {v \in family : Lives(v)}
  BY DEF KillParent, HandlerIdle
<1>2. escaped' = {}
  BY <1>1 DEF FamilyInv, Kinship
<1>3. Table'
  <2>1. CASE proc' = proc
    BY <1>1, <2>1 DEF FamilyInv, Table
  <2>2. CASE proc' = Without(target)
    BY <1>1, <2>2, DeathOfOne DEF FamilyInv
  <2> QED BY <2>1, <2>2 DEF KillParent
<1> QED BY <1>1, <1>2, <1>3 DEF FamilyInv, Kinship

(* FamilyInv is inductive, so it holds in every reachable state.           *)
LEMMA FamilyStep ==
  ASSUME Processes, IInv, FamilyInv, [Next]_vars
  PROVE  FamilyInv'
<1>1. clock \in Nat /\ target \in Parents
  BY DEF Processes, IInv, HandlerTypes
<1>2. CASE \/ Tick \/ UNCHANGED vars
           \/ \E p \in Pids : RenameBlocked(p) /\ proc' = proc
  <2>1. UNCHANGED <<proc, forks, phase, target, todo, family, chief, orphaned,
                    escaped>>
    BY <1>2 DEF Tick, RenameBlocked, vars, handlerVars, historyVars
  <2> QED BY <2>1 DEF FamilyInv, Table, Kinship, Reachable, Lives, Live,
                      IdentityOf
<1>3. CASE Restart
  <2> DEFINE v == [id |-> 0, parent |-> Reaper, start |-> clock]
  <2>1. /\ v \in [id : Nat, parent : Parents, start : Nat]
        /\ v.parent = Reaper /\ v.id = 0
    BY <1>1 DEF Parents
  <2>2. /\ Daemon \in Pids /\ Daemon \notin DOMAIN proc
        /\ proc' = Put(proc, Daemon, v)
        /\ forks' = forks /\ forks \in Nat
    BY <1>3, TrackerAssumption DEF Restart, Live, FamilyInv, Table
  <2> HIDE DEF v
  <2>3. v.parent \in DOMAIN proc \cup {Reaper} /\ v.id <= forks' /\ forks <= forks'
        /\ forks' \in Nat
    BY <2>1, <2>2
  <2>4. Table'
    BY <2>1, <2>2, <2>3, BirthOfOne DEF FamilyInv
  <2> QED BY <1>3, <2>4 DEF Restart, HandlerIdle, FamilyInv, Kinship
<1>4. CASE \E p \in Parents, q \in Pids : Fork(p, q)
  BY <1>1, <1>4, ForkKeepsKin
<1>5. ASSUME NEW p \in Pids, Exit(p) \/ (RenameBlocked(p) /\ proc' # proc)
      PROVE  FamilyInv'
  <2>1. proc' = Without(p) /\ UNCHANGED <<forks, handlerVars, historyVars>>
    BY <1>5 DEF Exit, RenameBlocked
  <2> QED BY <2>1, DeathKeepsKin DEF handlerVars, historyVars
<1>6. CASE HandleAlert
  BY <1>6, StrikeKeepsKin
<1>7. CASE HandlerPanics
  BY <1>7 DEF HandlerPanics, HandlerIdle, FamilyInv, Table, Kinship
<1>8. CASE Snapshot
  BY <1>8, SnapshotKeepsKin
<1>9. CASE KillChild
  <2>1. PICK v \in todo : todo' = todo \ {v} /\ proc' = Without(v.pid)
    BY <1>9 DEF KillChild
  <2>2. UNCHANGED <<forks, phase, target, historyVars>>
    BY <1>9 DEF KillChild
  <2>3. v.pid \in Pids
    BY DEF FamilyInv, Kinship
  <2> QED BY <2>1, <2>2, <2>3, DeathKeepsKin DEF historyVars
<1>10. CASE KillParent
  BY <1>1, <1>10, KillParentKeepsKin
<1> QED BY <1>2, <1>3, <1>4, <1>5, <1>6, <1>7, <1>8, <1>9, <1>10 DEF Next

LEMMA FamilyInvariance == Spec => []FamilyInv
<1>1. Init => FamilyInv
  <2> SUFFICES ASSUME Init PROVE FamilyInv
    OBVIOUS
  <2>1. Table
    BY TrackerAssumption DEF Init, Table, Parents
  <2> QED BY <2>1 DEF Init, FamilyInv, Kinship
<1>2. Processes /\ IInv /\ FamilyInv /\ [Next]_vars => FamilyInv'
  BY FamilyStep
<1> QED BY <1>1, <1>2, Invariance, PTL DEF Spec

(* For every set of process ids and however they are used again: an        *)
(* eradication whose target is still the process that was counted leaves   *)
(* none of the children that process had at its last strike.               *)
THEOREM WorkersEradicated == Spec => []NoWorkerEscapes
<1>1. FamilyInv => NoWorkerEscapes
  BY DEF FamilyInv, NoWorkerEscapes
<1> QED BY <1>1, FamilyInvariance, PTL
-----------------------------------------------------------------------------
(* Whom an eradication can reach.  The numbers of processes grow, so       *)
(* whoever takes a pid over is younger than the last strike; until the     *)
(* snapshot this is needed of the target's children, from then on of the   *)
(* pids to be killed, and of the target all along.                         *)
TreeInv ==
  /\ since \in Nat /\ since <= forks
  /\ phase # "idle" /\ target # Reaper =>
       /\ target \in Live => Implicated(target)
       /\ phase = "snapshot" =>
            \A q \in Live : proc[q].parent = target => Implicated(q)
       /\ phase = "kill" =>
            \A v \in todo : v.pid \in Live => Implicated(v.pid)

(* A death brings nobody into the tree: orphans go to the reaper.          *)
LEMMA DeathKeepsTree ==
  ASSUME Table, TreeInv, NEW p, proc' = Without(p), todo' \subseteq todo,
         UNCHANGED <<forks, phase, target, family, chief, since>>
  PROVE  TreeInv'
<1>1. /\ Table'
      /\ DOMAIN proc' = DOMAIN proc \ {p}
      /\ \A q \in DOMAIN proc' :
           /\ q # p /\ q \in DOMAIN proc /\ proc'[q].id = proc[q].id
           /\ proc'[q].parent = IF proc[q].parent = p THEN Reaper
                                                      ELSE proc[q].parent
  BY DeathOfOne
<1>2. \A q \in DOMAIN proc' : Implicated(q) => Implicated(q)'
  BY <1>1 DEF Implicated
<1> QED BY <1>1, <1>2 DEF TreeInv, Live

(* A new process is younger than the last strike, whatever its pid.        *)
LEMMA ForkKeepsTree ==
  ASSUME Table, TreeInv, clock \in Nat, NEW p \in Parents, NEW c \in Pids,
         Fork(p, c)
  PROVE  TreeInv'
<1> DEFINE v == [id |-> forks + 1, parent |-> p, start |-> clock]
<1>1. /\ p \in DOMAIN proc \cup {Reaper} /\ c \notin DOMAIN proc
      /\ forks' = forks + 1 /\ proc' = Put(proc, c, v)
      /\ UNCHANGED <<phase, target, todo, family, chief, since>>
  BY DEF Fork, Live, handlerVars, historyVars
<1>2. /\ v \in [id : Nat, parent : Parents, start : Nat] /\ forks \in Nat
      /\ v.id = forks + 1 /\ v.parent = p
  BY DEF Table
<1> HIDE DEF v
<1>3. /\ Table'
      /\ DOMAIN proc' = DOMAIN proc \cup {c}
      /\ \A q \in DOMAIN proc : proc'[q] = proc[q]
      /\ proc'[c] = v
  <2>1. v.id <= forks' /\ forks <= forks' /\ forks' \in Nat
    BY <1>1, <1>2
  <2> QED BY <1>1, <1>2, <2>1, BirthOfOne
<1>4. Implicated(c)'
  BY <1>1, <1>2, <1>3 DEF Implicated, TreeInv
<1>5. \A q \in DOMAIN proc : Implicated(q) => Implicated(q)'
  BY <1>1, <1>3 DEF Implicated
<1>6. since' \in Nat /\ since' <= forks'
  BY <1>1, <1>2 DEF TreeInv
<1> QED BY <1>1, <1>3, <1>4, <1>5, <1>6 DEF TreeInv, Live

(* The last strike takes down the tree as it is, and the snapshot finds    *)
(* what became of it.                                                      *)
LEMMA HandlerKeepsTree ==
  ASSUME Table, TreeInv, HandleAlert \/ Snapshot
  PROVE  TreeInv'
<1>1. CASE HandleAlert
  <2>1. PICK p : /\ phase = "idle" /\ UNCHANGED <<forks, proc, todo>>
                 /\ \/ UNCHANGED <<phase, target, family, chief, since>>
                    \/ /\ phase' = "snapshot" /\ target' = p
                       /\ since' = forks
                       /\ family' = ChildrenOf(p) /\ chief' = IdentityOf(p)
    BY <1>1 DEF HandleAlert
  <2>2. CASE UNCHANGED <<phase, target, family, chief, since>>
    BY <2>1, <2>2 DEF TreeInv
  <2>3. CASE /\ phase' = "snapshot" /\ target' = p /\ since' = forks
             /\ family' = ChildrenOf(p) /\ chief' = IdentityOf(p)
    <3>1. p \in Live => Implicated(p)'
      BY <2>1, <2>3 DEF Implicated, IdentityOf
    <3>2. \A q \in Live : proc[q].parent = p => Implicated(q)'
      BY <2>1, <2>3 DEF Implicated, ChildrenOf
    <3>3. since' \in Nat /\ since' <= forks'
      BY <2>1, <2>3 DEF Table
    <3> QED BY <2>1, <2>3, <3>1, <3>2, <3>3 DEF TreeInv, Live
  <2> QED BY <2>1, <2>2, <2>3
<1>2. CASE Snapshot
  <2>1. /\ phase = "snapshot" /\ phase' = "kill"
        /\ todo' = ChildrenOf(target)
        /\ UNCHANGED <<forks, proc, target, family, chief, since>>
    BY <1>2 DEF Snapshot
  <2>2. \A q : Implicated(q) => Implicated(q)'
    BY <2>1 DEF Implicated
  <2>3. \A v \in todo' : v.pid \in Live /\ proc[v.pid].parent = target
    BY <2>1 DEF ChildrenOf
  <2> QED BY <2>1, <2>2, <2>3 DEF TreeInv, Live
<1> QED BY <1>1, <1>2

(* TreeInv is inductive, given what holds of the process table.            *)
LEMMA TreeStep ==
  ASSUME IInv, FamilyInv, TreeInv, [Next]_vars
  PROVE  TreeInv'
<1>1. clock \in Nat /\ Table /\ forks \in Nat
  BY DEF IInv, HandlerTypes, FamilyInv, Table
<1>2. CASE \/ Tick \/ UNCHANGED vars
           \/ \E p \in Pids : RenameBlocked(p) /\ proc' = proc
  <2>1. UNCHANGED <<proc, forks, phase, target, todo, family, chief, since>>
    BY <1>2 DEF Tick, RenameBlocked, vars, handlerVars, historyVars
  <2> QED BY <2>1 DEF TreeInv, Implicated, Live
<1>3. CASE Restart \/ HandlerPanics \/ KillParent
  <2>1. phase' = "idle" /\ since' = 0 /\ forks' = forks
    BY <1>3 DEF Restart, HandlerPanics, KillParent, HandlerIdle
  <2> QED BY <1>1, <2>1 DEF TreeInv
<1>4. CASE \E p \in Parents, q \in Pids : Fork(p, q)
  BY <1>1, <1>4, ForkKeepsTree
<1>5. ASSUME NEW p \in Pids, Exit(p) \/ (RenameBlocked(p) /\ proc' # proc)
      PROVE  TreeInv'
  <2>1. proc' = Without(p) /\ UNCHANGED <<forks, handlerVars, historyVars>>
    BY <1>5 DEF Exit, RenameBlocked
  <2> QED BY <1>1, <2>1, DeathKeepsTree DEF handlerVars, historyVars
<1>6. CASE HandleAlert \/ Snapshot
  BY <1>1, <1>6, HandlerKeepsTree
<1>7. CASE KillChild
  <2>1. PICK v \in todo : todo' = todo \ {v} /\ proc' = Without(v.pid)
    BY <1>7 DEF KillChild
  <2>2. UNCHANGED <<forks, phase, target, historyVars>>
    BY <1>7 DEF KillChild
  <2> QED BY <1>1, <2>1, <2>2, DeathKeepsTree DEF historyVars
<1> QED BY <1>2, <1>3, <1>4, <1>5, <1>6, <1>7 DEF Next

(* For every set of process ids and however they are used again: an        *)
(* eradication kills nobody who stood outside the tree at the last strike. *)
THEOREM BystandersAreSpared == Spec => []NoBystander
<1>1. Init => TreeInv
  BY DEF Init, TreeInv
<1>2. IInv /\ FamilyInv /\ TreeInv /\ [Next]_vars => TreeInv'
  BY TreeStep
<1>3. TreeInv => NoBystander
  BY DEF TreeInv, NoBystander, Doomed
<1> QED BY <1>1, <1>2, <1>3, Invariance, FamilyInvariance, PTL DEF Spec
=============================================================================
