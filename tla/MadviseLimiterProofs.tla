------------------------- MODULE MadviseLimiterProofs -------------------------
(***************************************************************************)
(* Proofs about the madvise limiter, for any number of CPUs, any window,   *)
(* threshold and clock.                                                    *)
(***************************************************************************)
EXTENDS MadviseLimiter, FiniteSetTheorems, TLAPS

(* The type invariant and the safety property are inductive together: the  *)
(* hook that pushed the counter over the threshold has still to read it.   *)
IInv == TypeOK /\ SpamIsNoticed

(* The clock and a hook's first steps leave the counter alone, and none of *)
(* them ends a hook that the invariant relies on.                          *)
LEMMA QuietSteps ==
  ASSUME IInv, NEW c \in CPUs,
         Tick \/ Enter(c) \/ Lookup(c) \/ Check(c)
  PROVE  IInv'
<1> USE LimiterAssumption DEF IInv, Times
<1>1. CASE Tick
  <2>1. TypeOK'
    BY <1>1 DEF Tick, TypeOK, trackerVars, historyVars
  <2>2. SpamIsNoticed'
    BY <1>1 DEF Tick, SpamIsNoticed, trackerVars, historyVars
  <2> QED BY <2>1, <2>2
<1>2. CASE Enter(c)
  <2>1. raced' \in BOOLEAN
    BY <1>2 DEF Enter, TypeOK
  <2>2. TypeOK'
    BY <1>2, <2>1 DEF Enter, Goto, TypeOK, Steps, trackerVars
  <2>3. \A d \in CPUs : step[d] # "idle" => step'[d] = step[d]
    BY <1>2 DEF Enter, Goto, TypeOK
  <2>4. SpamIsNoticed'
    BY <1>2, <2>3 DEF Enter, SpamIsNoticed, trackerVars
  <2> QED BY <2>2, <2>4
<1>3. CASE Lookup(c)
  <2>1. TypeOK'
    BY <1>3 DEF Lookup, Goto, TypeOK, Steps, trackerVars, historyVars
  <2>2. \A d \in CPUs : step[d] # "lookup" => step'[d] = step[d]
    BY <1>3 DEF Lookup, Goto, TypeOK
  <2>3. SpamIsNoticed'
    BY <1>3, <2>2 DEF Lookup, SpamIsNoticed, trackerVars, historyVars
  <2> QED BY <2>1, <2>3
<1>4. CASE Check(c)
  <2>1. TypeOK'
    BY <1>4 DEF Check, Goto, TypeOK, Steps, trackerVars, historyVars
  <2>2. \A d \in CPUs : step[d] # "check" => step'[d] = step[d]
    BY <1>4 DEF Check, Goto, TypeOK
  <2>3. SpamIsNoticed'
    BY <1>4, <2>2 DEF Check, SpamIsNoticed, trackerVars, historyVars
  <2> QED BY <2>1, <2>3
<1> QED BY <1>1, <1>2, <1>3, <1>4

(* A new tracker, and the two stores that reopen a window: the counter is  *)
(* at most 1 afterwards, or the hook that will make it so is on its way.   *)
LEMMA WindowSteps ==
  ASSUME IInv, NEW c \in CPUs,
         Insert(c) \/ ResetStart(c) \/ ResetCount(c)
  PROVE  IInv'
<1> USE LimiterAssumption DEF IInv, Times
<1>1. ASSUME NEW t \in 0 .. MaxTime
      PROVE  <<t>> \in Seq(0 .. MaxTime)
  OBVIOUS
<1>2. (~Alone(c)) \in BOOLEAN
  BY DEF Alone
<1>3. CASE Insert(c)
  <2>1. now[c] \in 0 .. MaxTime
    BY DEF TypeOK
  <2>2. TypeOK'
    BY <1>1, <1>2, <1>3, <2>1 DEF Insert, TypeOK, Steps
  <2>3. SpamIsNoticed'
    BY <1>3 DEF Insert, SpamIsNoticed
  <2> QED BY <2>2, <2>3
<1>4. CASE ResetStart(c)
  <2>1. now[c] \in 0 .. MaxTime
    BY DEF TypeOK
  <2>2. TypeOK'
    BY <1>1, <1>2, <1>4, <2>1 DEF ResetStart, Goto, TypeOK, Steps
  <2>3. step'[c] = "recount"
    BY <1>4 DEF ResetStart, Goto, TypeOK
  <2>4. SpamIsNoticed'
    BY <2>3 DEF SpamIsNoticed
  <2> QED BY <2>2, <2>4
<1>5. CASE ResetCount(c)
  <2>1. TypeOK'
    BY <1>5 DEF ResetCount, Goto, TypeOK, Steps, historyVars
  <2>2. SpamIsNoticed'
    BY <1>5 DEF ResetCount, SpamIsNoticed
  <2> QED BY <2>1, <2>2
<1> QED BY <1>3, <1>4, <1>5

(* Counting and killing: whoever adds reads afterwards, and whoever reads  *)
(* a counter above the threshold goes on to kill and to clear it.          *)
LEMMA CountSteps ==
  ASSUME IInv, NEW c \in CPUs,
         Add(c) \/ Read(c) \/ Kill(c) \/ Zero(c)
  PROVE  IInv'
<1> USE LimiterAssumption DEF IInv, Times
<1>1. CASE Add(c)
  <2>1. TypeOK'
    BY <1>1 DEF Add, Goto, TypeOK, Steps
  <2>2. step'[c] = "read"
    BY <1>1 DEF Add, Goto, TypeOK
  <2>3. SpamIsNoticed'
    BY <2>2 DEF SpamIsNoticed
  <2> QED BY <2>1, <2>3
<1>2. CASE Read(c)
  <2>1. TypeOK'
    BY <1>2 DEF Read, Goto, TypeOK, Steps, trackerVars, historyVars
  <2>2. count' = count /\ (count > Threshold => step'[c] = "kill")
    BY <1>2 DEF Read, Goto, TypeOK, trackerVars
  <2>3. SpamIsNoticed'
    BY <2>2 DEF SpamIsNoticed
  <2> QED BY <2>1, <2>3
<1>3. CASE Kill(c)
  <2>1. wronged' \in BOOLEAN /\ unkilled' \in BOOLEAN
    BY <1>3 DEF Kill, TypeOK
  <2>2. TypeOK'
    BY <1>3, <2>1 DEF Kill, Goto, TypeOK, Steps, trackerVars
  <2>3. step'[c] = "zero" \/ unkilled'
    BY <1>3 DEF Kill, Goto, TypeOK
  <2>4. SpamIsNoticed'
    BY <2>3 DEF SpamIsNoticed
  <2> QED BY <2>2, <2>4
<1>4. CASE Zero(c)
  <2>1. (raced \/ ~Alone(c)) \in BOOLEAN
    BY DEF Alone
  <2>2. <<>> \in Seq(0 .. MaxTime)
    OBVIOUS
  <2>3. TypeOK'
    BY <1>4, <2>1, <2>2 DEF Zero, Goto, TypeOK, Steps
  <2>4. SpamIsNoticed'
    BY <1>4 DEF Zero, SpamIsNoticed
  <2> QED BY <2>3, <2>4
<1> QED BY <1>1, <1>2, <1>3, <1>4

(* IInv holds in every state the limiter can reach.                        *)
THEOREM Invariance == Spec => []IInv
<1>1. Init => IInv
  <2> SUFFICES ASSUME Init PROVE IInv
    OBVIOUS
  <2>1. 0 \in Times /\ <<>> \in Seq(Times)
    BY LimiterAssumption DEF Times
  <2>2. TypeOK
    BY <2>1 DEF Init, TypeOK, Steps
  <2>3. ~(count > Threshold)
    BY LimiterAssumption DEF Init
  <2> QED BY <2>2, <2>3 DEF IInv, SpamIsNoticed
<1>2. IInv /\ [Next]_vars => IInv'
  <2> SUFFICES ASSUME IInv, [Next]_vars PROVE IInv'
    OBVIOUS
  <2>1. CASE Tick
    <3>1. CASE CPUs = {}
      BY <2>1, <3>1, LimiterAssumption
      DEF IInv, TypeOK, SpamIsNoticed, Tick, trackerVars, historyVars, Times
    <3>2. CASE CPUs # {}
      BY <2>1, <3>2, QuietSteps
    <3> QED BY <3>1, <3>2
  <2>2. ASSUME NEW c \in CPUs, Enter(c) \/ Lookup(c) \/ Check(c)
        PROVE  IInv'
    BY <2>2, QuietSteps
  <2>3. ASSUME NEW c \in CPUs, Insert(c) \/ ResetStart(c) \/ ResetCount(c)
        PROVE  IInv'
    BY <2>3, WindowSteps
  <2>4. ASSUME NEW c \in CPUs, Add(c) \/ Read(c) \/ Kill(c) \/ Zero(c)
        PROVE  IInv'
    BY <2>4, CountSteps
  <2>5. CASE UNCHANGED vars
    BY <2>5
    DEF IInv, TypeOK, SpamIsNoticed, vars, trackerVars, historyVars
  <2> QED BY <2>1, <2>2, <2>3, <2>4, <2>5 DEF Next
<1> QED BY <1>1, <1>2, PTL DEF Spec

(* The limiter's variables keep their types; no hook works on a tracker    *)
(* before there is one.                                                    *)
THEOREM TypeCorrect == Spec => []TypeOK
BY Invariance, PTL DEF IInv

(* However the hooks of all CPUs interleave, a counter above the threshold *)
(* is about to be read, acted upon or reset, unless a signal failed.       *)
THEOREM NoSpinnerEscapes == Spec => []SpamIsNoticed
BY Invariance, PTL DEF IInv
-----------------------------------------------------------------------------
(* Counting.  Time stamps are not ahead of the clock, so that a hook that  *)
(* enters after a window was opened does not belong before it.             *)
Timely ==
  /\ window_start <= clock
  /\ \A c \in CPUs : now[c] <= clock

(* As long as no overlap is recorded: hooks that will add belong to the    *)
(* window, and so does all that was added; whoever reopens the window is   *)
(* alone, with its own call in the log; otherwise the counter is the       *)
(* length of the log; and whoever is about to kill read it above the       *)
(* threshold.                                                              *)
Undisturbed ==
  /\ \A c \in CPUs :
       step[c] \in {"lookup", "check", "add"} => now[c] >= window_start
  /\ \A i \in 1 .. Len(log) : log[i] >= window_start
  /\ \A c \in CPUs : step[c] = "recount" => Alone(c) /\ Len(log) = 1
  /\ (\A c \in CPUs : step[c] # "recount") => count = Len(log)
  /\ \A c \in CPUs : step[c] = "kill" => count > Threshold

CountInv == Timely /\ (~raced => Undisturbed) /\ ~wronged

(* When all of the log is of the window, its length is what InWindow says. *)
LEMMA WholeLog ==
  ASSUME TypeOK, \A i \in 1 .. Len(log) : log[i] >= window_start
  PROVE  InWindow = Len(log)
<1>1. {i \in 1 .. Len(log) : log[i] >= window_start} = 1 .. Len(log)
  OBVIOUS
<1>2. Len(log) \in Nat
  BY DEF TypeOK
<1>3. Cardinality(1 .. Len(log)) = Len(log)
  <2>1. Cardinality(1 .. Len(log)) =
          IF 1 > Len(log) THEN 0 ELSE Len(log) - 1 + 1
    BY <1>2, FS_Interval
  <2> QED BY <1>2, <2>1
<1> QED BY <1>1, <1>3 DEF InWindow

(* Steps that do not touch the tracker, other than a failed or successful  *)
(* kill: a hook moves on, and a new one has the time of the clock.         *)
LEMMA QuietCounts ==
  ASSUME TypeOK, CountInv, NEW c \in CPUs,
         Enter(c) \/ Lookup(c) \/ Check(c) \/ Read(c)
  PROVE  CountInv'
<1> USE LimiterAssumption
<1>0. /\ clock \in Nat /\ window_start \in Nat /\ count \in Nat
      /\ step \in [CPUs -> Steps] /\ now \in [CPUs -> 0 .. MaxTime]
      /\ UNCHANGED <<clock, window_start, count, log, wronged>>
  BY DEF TypeOK, Times, Enter, Lookup, Check, Read, trackerVars, historyVars
<1>1. CASE Enter(c)
  <2>1. /\ step[c] = "idle" /\ step' = [step EXCEPT ![c] = "lookup"]
        /\ now' = [now EXCEPT ![c] = clock]
        /\ ~raced' => /\ ~raced
                      /\ \A d \in CPUs : step[d] \notin {"recount", "kill"}
    BY <1>1 DEF Enter, Goto
  <2>2. Timely'
    BY <1>0, <2>1 DEF CountInv, Timely
  <2>3. ~raced' => Undisturbed'
    BY <1>0, <2>1 DEF CountInv, Timely, Undisturbed
  <2> QED BY <1>0, <2>2, <2>3 DEF CountInv
<1>2. CASE Lookup(c) \/ Check(c) \/ Read(c)
  <2>1. PICK s \in Steps :
          /\ step' = [step EXCEPT ![c] = s] /\ UNCHANGED <<now, raced>>
          /\ step[c] \notin {"idle", "recount"} /\ s # "recount"
          /\ s \in {"lookup", "check", "add"} =>
               step[c] \in {"lookup", "check", "add"}
          /\ s = "kill" => count > Threshold
    <3>1. CASE Lookup(c)
      BY <3>1, Zenon DEF Lookup, Goto, Steps, historyVars
    <3>2. CASE Check(c)
      BY <3>2, Zenon DEF Check, Goto, Steps, historyVars
    <3>3. CASE Read(c)
      BY <3>3, Zenon DEF Read, Goto, Steps, historyVars
    <3> QED BY <1>2, <3>1, <3>2, <3>3
  <2>2. Timely'
    BY <1>0, <2>1 DEF CountInv, Timely
  <2>3. ~raced' => Undisturbed'
    <3> SUFFICES ASSUME ~raced PROVE Undisturbed'
      BY <2>1
    <3>1. Undisturbed
      BY DEF CountInv
    <3>2. \A d \in CPUs : step[d] # "recount" /\ step'[d] # "recount"
      BY <1>0, <2>1, <3>1 DEF Undisturbed, Alone
    <3> QED BY <1>0, <2>1, <3>1, <3>2 DEF Undisturbed
  <2> QED BY <1>0, <2>2, <2>3 DEF CountInv
<1> QED BY <1>1, <1>2

(* A window is opened: without overlap all the others are idle.            *)
LEMMA WindowCounts ==
  ASSUME TypeOK, CountInv, NEW c \in CPUs,
         Insert(c) \/ ResetStart(c) \/ ResetCount(c) \/ Zero(c)
  PROVE  CountInv'
<1> USE LimiterAssumption
<1>0. /\ clock \in Nat /\ window_start \in Nat /\ now \in [CPUs -> 0 .. MaxTime]
      /\ step \in [CPUs -> Steps] /\ now[c] <= clock /\ now[c] \in Nat
      /\ UNCHANGED <<clock, now, wronged>>
  BY DEF TypeOK, Times, CountInv, Timely, Insert, ResetStart, ResetCount, Zero,
         historyVars
<1>1. Timely'
  BY <1>0 DEF CountInv, Timely, Insert, ResetStart, ResetCount, Zero
<1>2. ASSUME ~raced' PROVE Undisturbed'
  <2>1. \A d \in CPUs \ {c} : step[d] = "idle"
    BY <1>2 DEF Insert, ResetStart, ResetCount, Zero, historyVars, CountInv,
                Undisturbed, Alone
  <2>2. CASE Insert(c)
    <3>1. \A d \in CPUs : step'[d] = "idle"
      BY <1>0, <2>1, <2>2 DEF Insert
    <3>2. Len(log') = 1 /\ log'[1] = window_start' /\ count' = 1
      BY <2>2 DEF Insert
    <3> QED BY <1>0, <2>2, <3>1, <3>2 DEF Undisturbed, Insert
  <2>3. CASE ResetStart(c)
    <3>1. step'[c] = "recount" /\ \A d \in CPUs \ {c} : step'[d] = "idle"
      BY <1>0, <2>1, <2>3 DEF ResetStart, Goto
    <3>2. Len(log') = 1 /\ log'[1] = window_start'
      BY <2>3 DEF ResetStart
    <3> QED BY <1>0, <2>3, <3>1, <3>2 DEF Undisturbed, Alone, ResetStart
  <2>4. CASE ResetCount(c)
    <3>1. \A d \in CPUs : step'[d] = "idle"
      BY <1>0, <2>1, <2>4 DEF ResetCount, Goto
    <3>2. /\ Len(log) = 1 /\ count' = 1
          /\ \A i \in 1 .. Len(log) : log[i] >= window_start
      BY <1>2, <2>4 DEF ResetCount, historyVars, CountInv, Undisturbed
    <3> QED BY <2>4, <3>1, <3>2 DEF ResetCount, historyVars, Undisturbed
  <2>5. CASE Zero(c)
    <3>1. \A d \in CPUs : step'[d] = "idle"
      BY <1>0, <2>1, <2>5 DEF Zero, Goto
    <3> QED BY <2>5, <3>1 DEF Zero, Undisturbed
  <2> QED BY <2>2, <2>3, <2>4, <2>5
<1> QED BY <1>0, <1>1, <1>2 DEF CountInv

(* An addition is counted and logged; a kill follows a counter that is the *)
(* length of the log.                                                      *)
LEMMA AddCounts ==
  ASSUME TypeOK, CountInv, NEW c \in CPUs, Add(c)
  PROVE  CountInv'
<1> USE LimiterAssumption
<1>0. /\ clock \in Nat /\ window_start \in Nat /\ count \in Nat
      /\ now \in [CPUs -> 0 .. MaxTime] /\ step \in [CPUs -> Steps]
      /\ log \in Seq(0 .. MaxTime)
  BY DEF TypeOK, Times
<1>1. /\ step[c] = "add" /\ step' = [step EXCEPT ![c] = "read"]
      /\ count' = count + 1 /\ log' = Append(log, now[c])
      /\ UNCHANGED <<clock, window_start, now, raced, wronged>>
  BY DEF Add, Goto
<1>2. Timely'
  BY <1>1 DEF CountInv, Timely
<1>3. ASSUME ~raced PROVE Undisturbed'
  <2>1. Undisturbed
    BY <1>3 DEF CountInv
  <2>2. \A d \in CPUs : step[d] # "recount" /\ step'[d] # "recount"
    BY <1>0, <1>1, <2>1 DEF Undisturbed, Alone
  <2>3. now[c] >= window_start /\ count = Len(log)
    BY <1>1, <2>1, <2>2 DEF Undisturbed
  <2>4. /\ Len(log') = Len(log) + 1
        /\ \A i \in 1 .. Len(log') : log'[i] >= window_start
    BY <1>0, <1>1, <2>1, <2>3 DEF Undisturbed
  <2>5. \A d \in CPUs : step'[d] = "kill" => count' > Threshold
    BY <1>0, <1>1, <2>1 DEF Undisturbed
  <2>6. \A d \in CPUs :
          step'[d] \in {"lookup", "check", "add"} => now[d] >= window_start
    BY <1>0, <1>1, <2>1 DEF Undisturbed
  <2> QED BY <1>1, <2>2, <2>3, <2>4, <2>5, <2>6 DEF Undisturbed
<1> QED BY <1>1, <1>2, <1>3 DEF CountInv

LEMMA KillCounts ==
  ASSUME TypeOK, CountInv, NEW c \in CPUs, Kill(c)
  PROVE  CountInv'
<1> USE LimiterAssumption
<1>0. count \in Nat /\ step \in [CPUs -> Steps] /\ log \in Seq(0 .. MaxTime)
  BY DEF TypeOK, Times
<1>1. /\ step[c] = "kill"
      /\ \E s \in {"zero", "idle"} : step' = [step EXCEPT ![c] = s]
      /\ wronged' = wronged \/ ~(raced \/ InWindow > Threshold)
      /\ UNCHANGED <<clock, window_start, count, now, log, raced>>
  BY DEF Kill, Goto, trackerVars
<1>2. ~raced => InWindow > Threshold
  <2> SUFFICES ASSUME ~raced PROVE InWindow > Threshold
    OBVIOUS
  <2>1. Undisturbed
    BY DEF CountInv
  <2>2. \A d \in CPUs : step[d] # "recount"
    BY <1>0, <1>1, <2>1 DEF Undisturbed, Alone
  <2>3. count = Len(log) /\ count > Threshold
    BY <1>1, <2>1, <2>2 DEF Undisturbed
  <2>4. InWindow = Len(log)
    BY <2>1, WholeLog DEF Undisturbed
  <2> QED BY <2>3, <2>4
<1>3. Timely'
  BY <1>1 DEF CountInv, Timely
<1>4. ASSUME ~raced PROVE Undisturbed'
  <2>1. Undisturbed
    BY <1>4 DEF CountInv
  <2>2. \A d \in CPUs : step[d] # "recount" /\ step'[d] # "recount"
    BY <1>0, <1>1, <2>1 DEF Undisturbed, Alone
  <2> QED BY <1>0, <1>1, <2>1, <2>2 DEF Undisturbed
<1>5. ~wronged'
  BY <1>1, <1>2 DEF CountInv
<1> QED BY <1>1, <1>3, <1>4, <1>5 DEF CountInv

(* The counting invariant holds in every reachable state.                  *)
LEMMA Counting == Spec => []CountInv
<1>1. Init => CountInv
  BY LimiterAssumption DEF Init, CountInv, Timely, Undisturbed, Alone
<1>2. TypeOK /\ CountInv /\ [Next]_vars => CountInv'
  <2> SUFFICES ASSUME TypeOK, CountInv, [Next]_vars PROVE CountInv'
    OBVIOUS
  <2>1. CASE Tick
    <3>1. Timely'
      BY <2>1, LimiterAssumption
      DEF Tick, TypeOK, Times, CountInv, Timely, trackerVars
    <3> QED BY <2>1, <3>1 DEF Tick, CountInv, Undisturbed, Alone, trackerVars,
                              historyVars
  <2>2. ASSUME NEW c \in CPUs, Enter(c) \/ Lookup(c) \/ Check(c) \/ Read(c)
        PROVE  CountInv'
    BY <2>2, QuietCounts
  <2>3. ASSUME NEW c \in CPUs,
               Insert(c) \/ ResetStart(c) \/ ResetCount(c) \/ Zero(c)
        PROVE  CountInv'
    BY <2>3, WindowCounts
  <2>4. ASSUME NEW c \in CPUs, Add(c) \/ Kill(c)
        PROVE  CountInv'
    BY <2>4, AddCounts, KillCounts
  <2>5. CASE UNCHANGED vars
    BY <2>5 DEF vars, trackerVars, historyVars, CountInv, Timely, Undisturbed,
                Alone
  <2> QED BY <2>1, <2>2, <2>3, <2>4, <2>5 DEF Next
<1> QED BY <1>1, <1>2, TypeCorrect, PTL DEF Spec

(* For any number of CPUs: the atomic additions lose nothing.  Without an  *)
(* overlap of two hooks on the stores, the counter is the number of calls  *)
(* of the window, and no stamp in it is older than the window.             *)
THEOREM CounterIsExact == Spec => []CountIsExact
<1>1. TypeOK /\ CountInv => CountIsExact
  BY WholeLog DEF CountInv, Undisturbed, CountIsExact
<1> QED BY <1>1, Counting, TypeCorrect, PTL

(* For any number of CPUs: a kill within the limit needs such an overlap.  *)
THEOREM KillsAreDeserved == Spec => []NoUndeservedKill
<1>1. CountInv => NoUndeservedKill
  BY DEF CountInv, NoUndeservedKill
<1> QED BY <1>1, Counting, PTL
=============================================================================
