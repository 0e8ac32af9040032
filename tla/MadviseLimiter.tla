---------------------------- MODULE MadviseLimiter ----------------------------
(***************************************************************************)
(* The MADV_DONTNEED limiter of bpf/madvise_ratelimit.bpf.c: the hook runs *)
(* on several CPUs at once, for the threads of one user, on the tracker of *)
(* that user.  Every access to the tracker is a step of its own.           *)
(*                                                                         *)
(* Time stamps are unsigned and subtracted modulo Modulus; a CPU reads the *)
(* clock before it looks the tracker up, so another CPU may have opened a  *)
(* window that begins later.  Calls that return at once (module off, other *)
(* advice), other users and alerts are left out; with fewer users than the *)
(* LRU map has entries, none is evicted.                                   *)
(***************************************************************************)
EXTENDS Naturals, Sequences, FiniteSets

CONSTANTS
  CPUs,       \* hooks that may run at the same time
  Window,     \* RATELIMIT_WINDOW_NS
  Threshold,  \* RATELIMIT_THRESHOLD
  Modulus,    \* 2^64
  MaxTime,    \* bound: the clock stops there
  MaxCount    \* bound: the counter stops there when signals keep failing

ASSUME LimiterAssumption ==
  /\ Window \in Nat \ {0} /\ Threshold \in Nat \ {0}
  /\ MaxTime \in Nat /\ MaxCount \in Nat
  /\ Modulus \in Nat /\ Window < Modulus /\ MaxTime < Modulus

VARIABLES
  clock,
  present,              \* the user has a tracker in the map
  window_start, count,  \* the tracker
  step,                 \* what the hook on each CPU does next
  now,                  \* the time stamp it took
  (* history *)
  log,                  \* times of the calls counted since the window began
  raced,                \* the tracker was overwritten under another hook
  unkilled,             \* a SIGKILL of this window was not delivered
  wronged               \* a kill within the limit that no race explains

trackerVars == <<present, window_start, count>>
historyVars == <<log, raced, unkilled, wronged>>
vars == <<clock, trackerVars, step, now, historyVars>>

Times == 0 .. MaxTime
Alone(c) == \A d \in CPUs \ {c} : step[d] = "idle"
InWindow == Cardinality({i \in 1 .. Len(log) : log[i] >= window_start})
Goto(c, s) == step' = [step EXCEPT ![c] = s]
Expired(c) == (now[c] + Modulus - window_start) % Modulus > Window

Init ==
  /\ clock = 0
  /\ present = FALSE
  /\ window_start = 0 /\ count = 0
  /\ step = [c \in CPUs |-> "idle"]
  /\ now = [c \in CPUs |-> 0]
  /\ log = <<>>
  /\ raced = FALSE /\ unkilled = FALSE /\ wronged = FALSE

Tick ==
  /\ clock < MaxTime
  /\ clock' = clock + 1
  /\ UNCHANGED <<trackerVars, step, now, historyVars>>

(* A thread calls madvise(MADV_DONTNEED): the hook reads the clock ...     *)
Enter(c) ==
  /\ step[c] = "idle" /\ count < MaxCount
  /\ Goto(c, "lookup")
  /\ now' = [now EXCEPT ![c] = clock]
  /\ raced' = (raced \/ \E d \in CPUs :
                 step[d] \in {"insert", "reset", "recount", "kill", "zero"})
  /\ UNCHANGED <<clock, trackerVars, log, unkilled, wronged>>

(* ... and looks the tracker up.                                           *)
Lookup(c) ==
  /\ step[c] = "lookup"
  /\ Goto(c, IF present THEN "check" ELSE "insert")
  /\ UNCHANGED <<clock, trackerVars, now, historyVars>>

(* A new tracker goes into the map.  When another CPU was faster it takes  *)
(* that one's place, and hooks that hold the old one end here: whatever    *)
(* they still do touches no tracker in the map.                            *)
Insert(c) ==
  /\ step[c] = "insert"
  /\ present' = TRUE
  /\ window_start' = now[c] /\ count' = 1
  /\ step' = [d \in CPUs |-> IF d = c \/ step[d] \notin {"lookup", "insert"}
                               THEN "idle" ELSE step[d]]
  /\ log' = <<now[c]>>
  /\ raced' = ~Alone(c)
  /\ unkilled' = FALSE
  /\ UNCHANGED <<clock, now, wronged>>

(* now - state_ptr->window_start > RATELIMIT_WINDOW_NS                     *)
Check(c) ==
  /\ step[c] = "check"
  /\ Goto(c, IF Expired(c) THEN "reset" ELSE "add")
  /\ UNCHANGED <<clock, trackerVars, now, historyVars>>

(* The expired window is reopened by two plain stores.                     *)
ResetStart(c) ==
  /\ step[c] = "reset"
  /\ window_start' = now[c]
  /\ Goto(c, "recount")
  /\ log' = <<now[c]>>
  /\ raced' = ~Alone(c)
  /\ unkilled' = FALSE
  /\ UNCHANGED <<clock, present, count, now, wronged>>

ResetCountForgotten(c) ==  \* mutant: the counter of the old window goes on
  /\ step[c] = "recount"
  /\ count' = count + 1
  /\ Goto(c, "idle")
  /\ UNCHANGED <<clock, present, window_start, now, historyVars>>

ResetCount(c) ==
  /\ step[c] = "recount"
  /\ count' = 1
  /\ Goto(c, "idle")
  /\ UNCHANGED <<clock, present, window_start, now, historyVars>>

(* __sync_fetch_and_add ...                                                *)
Add(c) ==
  /\ step[c] = "add"
  /\ count' = count + 1
  /\ Goto(c, "read")
  /\ log' = Append(log, now[c])
  /\ UNCHANGED <<clock, present, window_start, now, raced, unkilled, wronged>>

ReadFetched(c) ==  \* mutant: the value before the addition is judged
  /\ step[c] = "read"
  /\ Goto(c, IF count > Threshold + 1 THEN "kill" ELSE "idle")
  /\ UNCHANGED <<clock, trackerVars, now, historyVars>>

ReadInclusive(c) ==  \* mutant: >= RATELIMIT_THRESHOLD
  /\ step[c] = "read"
  /\ Goto(c, IF count >= Threshold THEN "kill" ELSE "idle")
  /\ UNCHANGED <<clock, trackerVars, now, historyVars>>

(* ... and the counter is read back and judged.                            *)
Read(c) ==
  /\ step[c] = "read"
  /\ Goto(c, IF count > Threshold THEN "kill" ELSE "idle")
  /\ UNCHANGED <<clock, trackerVars, now, historyVars>>

(* bpf_send_signal(9) succeeds, or fails and leaves the counter.           *)
Kill(c) ==
  /\ step[c] = "kill"
  /\ \/ /\ Goto(c, "zero")
        /\ wronged' = IF raced \/ InWindow > Threshold THEN wronged ELSE TRUE
        /\ UNCHANGED unkilled
     \/ /\ Goto(c, "idle")
        /\ unkilled' = TRUE
        /\ UNCHANGED wronged
  /\ UNCHANGED <<clock, trackerVars, now, log, raced>>

(* After a kill the user starts from nothing, in the same window.          *)
Zero(c) ==
  /\ step[c] = "zero"
  /\ count' = 0
  /\ Goto(c, "idle")
  /\ log' = <<>>
  /\ raced' = (raced \/ ~Alone(c))
  /\ unkilled' = FALSE
  /\ UNCHANGED <<clock, present, window_start, now, wronged>>

Next ==
  \/ Tick
  \/ \E c \in CPUs :
       \/ Enter(c) \/ Lookup(c) \/ Insert(c) \/ Check(c)
       \/ ResetStart(c) \/ ResetCount(c)
       \/ Add(c) \/ Read(c) \/ Kill(c) \/ Zero(c)

Spec == Init /\ [][Next]_vars
-----------------------------------------------------------------------------
Steps == {"idle", "lookup", "insert", "check", "reset", "recount", "add",
          "read", "kill", "zero"}

TypeOK ==
  /\ clock \in Times
  /\ present \in BOOLEAN
  /\ window_start \in Times
  /\ count \in Nat
  /\ step \in [CPUs -> Steps]
  /\ now \in [CPUs -> Times]
  /\ log \in Seq(Times)
  /\ raced \in BOOLEAN /\ unkilled \in BOOLEAN /\ wronged \in BOOLEAN
  /\ present \/ \A c \in CPUs : step[c] \in {"idle", "lookup", "insert"}

(* The counter never stays above the threshold behind everyone's back:     *)
(* while it is above, some hook is about to read it, to kill or to reset   *)
(* it, or a signal failed.  Re-reading the counter after the addition, and *)
(* plain stores that race it, do not let a spinning user through.          *)
SpamIsNoticed ==
  count > Threshold =>
    \/ unkilled
    \/ \E c \in CPUs : step[c] \in {"read", "kill", "zero", "recount"}

(* The additions lose nothing: as long as no hook overwrites the tracker   *)
(* under another one, the counter is the number of calls of the window.    *)
CountIsExact ==
  ~raced /\ (\A c \in CPUs : step[c] # "recount") =>
    count = InWindow

(* No thread is killed within the limit, but for such an overlap: "The     *)
(* micro-race condition is acceptable" (madvise_ratelimit.bpf.c:154).      *)
NoUndeservedKill == ~wronged
=============================================================================
