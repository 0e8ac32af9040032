-------------------------- MODULE CrashLockboxProofs --------------------------
(***************************************************************************)
(* Proofs about the crash lockbox, for any number of crashes, any set of   *)
(* helpers and any queue size.                                             *)
(***************************************************************************)
EXTENDS CrashLockbox, FiniteSetTheorems, TLAPS

Blocked == {c \in Crashes : crash[c] = "blocked"}

(* What the history sets hold.                                             *)
HistoryInv ==
  /\ \A c \in Crashes : crash[c] \in {"running", "closed"} => c \notin pushed
  /\ \A c \in leaked : c \in pushed /\ crash[c] = "dumped"
  /\ \A c \in Crashes : crash[c] = "setup" =>
       via[c] # File /\ (uid[c] = "user" => c \in pushed \cup excused)

(* Every token pushed is in the queue or was consumed by a blocked helper: *)
(* the one relation between tokens and helpers, and it is only a number.   *)
Balance ==
  Cardinality(pushed) = Len(pending_crash_blocks) + Cardinality(Blocked)

IInv == TypeOK /\ HistoryInv /\ Balance /\ LeaksAreAccounted /\ DumpsExplained

(* Sets of crashes are finite.                                             *)
LEMMA CrashSetsFinite ==
  ASSUME NEW S \in SUBSET Crashes
  PROVE  IsFiniteSet(S) /\ Cardinality(S) \in Nat
BY LockboxAssumption, FS_Subset, FS_CardinalityType

(* Disjoint sets of crashes add up.                                        *)
LEMMA DisjointUnion ==
  ASSUME NEW S \in SUBSET Crashes, NEW T \in SUBSET Crashes, S \cap T = {}
  PROVE  Cardinality(S \cup T) = Cardinality(S) + Cardinality(T)
<1>1. Cardinality(S \cup T) =
        Cardinality(S) + Cardinality(T) - Cardinality(S \cap T)
  BY CrashSetsFinite, FS_Union
<1>2. Cardinality(S \cap T) = 0
  BY FS_EmptySet
<1>3. Cardinality(S) \in Nat /\ Cardinality(T) \in Nat
  BY CrashSetsFinite
<1> QED
  BY <1>1, <1>2, <1>3

(* One more element, one more in the count.                                *)
LEMMA OneMore ==
  ASSUME NEW S \in SUBSET Crashes, NEW c \in Crashes, c \notin S
  PROVE  Cardinality(S \cup {c}) = Cardinality(S) + 1
BY CrashSetsFinite, FS_AddElement

(* Nothing is queued, blocked or leaked at first. *)
LEMMA InitEstablishes == Init => IInv
<1> SUFFICES ASSUME Init PROVE IInv
  OBVIOUS
<1>1. TypeOK
  BY LockboxAssumption DEF Init, TypeOK, Stages
<1>2. Blocked = {} /\ Swapped = {}
  BY DEF Init, Blocked, Swapped
<1>3. Balance /\ LeaksAreAccounted
  BY <1>2, FS_EmptySet DEF Init, Balance, LeaksAreAccounted
<1> QED
  BY <1>1, <1>3 DEF Init, IInv, HistoryInv, DumpsExplained

(* Steps that neither push nor pop keep the balance. *)
LEMMA OtherPreserves ==
  ASSUME IInv, NEW c \in Crashes,
         \/ ClearDumpable(c) \/ SetDumpable(c)
         \/ DumpToFile(c) \/ Abort(c) \/ Unchecked(c)
  PROVE  IInv'
<1> USE DEF ClearDumpable, SetDumpable, DumpToFile, Abort, Unchecked, IInv
<1>1. TypeOK'
  BY DEF TypeOK, Stages
<1>2. Blocked' = Blocked /\ Swapped' = Swapped
  BY DEF Blocked, Swapped, TypeOK
<1>3. HistoryInv'
  BY DEF HistoryInv, TypeOK
<1>4. UNCHANGED <<pushed, leaked, pending_crash_blocks>>
  OBVIOUS
<1>5. Balance' /\ LeaksAreAccounted'
  BY <1>2, <1>4 DEF Balance, LeaksAreAccounted
<1>6. DumpsExplained'
  BY DEF DumpsExplained, HistoryInv, TypeOK
<1> QED
  BY <1>1, <1>3, <1>5, <1>6

(* A push adds one token to both sides. *)
LEMMA ObserverPreserves ==
  ASSUME IInv, NEW c \in Crashes, Observer(c)
  PROVE  IInv'
<1> USE LockboxAssumption DEF Observer, Missed, IInv
<1>1. TypeOK'
  <2>1. /\ pending_crash_blocks' \in Seq(Crashes)
        /\ Len(pending_crash_blocks') <= QueueCap
    BY DEF TypeOK
  <2> QED
    BY <2>1 DEF TypeOK, Stages
<1>2. c \notin pushed /\ pushed \subseteq Crashes
  BY DEF HistoryInv, TypeOK
<1>3. Blocked' = Blocked
  BY DEF Blocked, TypeOK
<1>4. Swapped' = Swapped
  BY DEF Swapped, TypeOK
<1>5. HistoryInv'
  BY DEF HistoryInv, TypeOK
<1>6. Balance'
  <2>1. Cardinality(Blocked) \in Nat
    BY CrashSetsFinite DEF Blocked
  <2>2. CASE pushed' = pushed \cup {c}
    <3>1. Cardinality(pushed') = Cardinality(pushed) + 1
      BY <1>2, <2>2, OneMore
    <3>2. /\ Len(pending_crash_blocks) \in Nat
          /\ Len(pending_crash_blocks') = Len(pending_crash_blocks) + 1
      BY <1>2, <2>2 DEF TypeOK
    <3> QED
      BY <1>3, <2>1, <3>1, <3>2 DEF Balance
  <2>3. CASE UNCHANGED <<pending_crash_blocks, pushed>>
    BY <1>3, <2>3 DEF Balance
  <2> QED
    BY <2>2, <2>3
<1>7. LeaksAreAccounted'
  BY <1>4 DEF LeaksAreAccounted
<1>8. DumpsExplained'
  BY DEF DumpsExplained, TypeOK
<1> QED
  BY <1>1, <1>5, <1>6, <1>7, <1>8

(* A pop moves one token from the queue to a blocked helper. *)
LEMMA PopBlocksPreserves ==
  ASSUME IInv, NEW c \in Crashes, PopBlocks(c)
  PROVE  IInv'
<1> USE LockboxAssumption DEF PopBlocks, IInv
<1>1. TypeOK'
  BY DEF TypeOK, Stages
<1>2. HistoryInv'
  BY DEF HistoryInv, TypeOK
<1>3. Blocked' = Blocked \cup {c} /\ c \notin Blocked
  BY DEF Blocked, TypeOK
<1>4. Balance'
  <2>1. Cardinality(Blocked') = Cardinality(Blocked) + 1
    BY <1>3, OneMore DEF Blocked
  <2>2. /\ Len(pending_crash_blocks) \in Nat
        /\ Len(pending_crash_blocks') = Len(pending_crash_blocks) - 1
    BY DEF TypeOK
  <2>3. Cardinality(Blocked) \in Nat /\ pushed' = pushed
    BY CrashSetsFinite DEF Blocked
  <2> QED
    BY <2>1, <2>2, <2>3 DEF Balance
<1>5. LeaksAreAccounted'
  <2>1. Swapped \in SUBSET Swapped' /\ Swapped' \in SUBSET Crashes
    BY DEF Swapped, TypeOK
  <2>2. Cardinality(Swapped) <= Cardinality(Swapped')
    BY <2>1, CrashSetsFinite, FS_Subset
  <2>3. /\ Cardinality(Swapped) \in Nat /\ Cardinality(Swapped') \in Nat
        /\ Cardinality(leaked) \in Nat
    BY <2>1, CrashSetsFinite DEF TypeOK
  <2> QED
    BY <2>2, <2>3 DEF LeaksAreAccounted
<1>6. DumpsExplained'
  BY DEF DumpsExplained, TypeOK
<1> QED
  BY <1>1, <1>2, <1>4, <1>5, <1>6

(* A helper of an observed crash finds the queue empty: every token went   *)
(* to a blocked helper, and at least as many of those as there are leaks   *)
(* had none of their own.                                                  *)
LEMMA PopEmptyPreserves ==
  ASSUME IInv, NEW c \in Crashes, PopEmpty(c)
  PROVE  IInv'
<1> USE LockboxAssumption DEF PopEmpty, IInv
<1>1. TypeOK'
  BY DEF TypeOK, Stages
<1>2. HistoryInv'
  BY DEF HistoryInv, TypeOK
<1>3. Blocked' = Blocked /\ Swapped' = Swapped
  BY DEF Blocked, Swapped, TypeOK
<1>4. Balance'
  BY <1>3 DEF Balance
<1>5. LeaksAreAccounted'
  <2> DEFINE Own == Blocked \cap pushed
  <2>1. /\ Own \in SUBSET Crashes /\ Swapped \in SUBSET Crashes
        /\ leaked' \in SUBSET Crashes /\ pushed \in SUBSET Crashes
        /\ Own \cup leaked' \in SUBSET pushed
        /\ Own \cap leaked' = {}
        /\ Own \cup Swapped = Blocked /\ Own \cap Swapped = {}
    BY <1>2 DEF Blocked, Swapped, TypeOK, HistoryInv
  <2>2. /\ IsFiniteSet(Own) /\ IsFiniteSet(Swapped) /\ IsFiniteSet(leaked')
        /\ IsFiniteSet(pushed)
        /\ Cardinality(Own) \in Nat /\ Cardinality(Swapped) \in Nat
        /\ Cardinality(leaked') \in Nat /\ Cardinality(pushed) \in Nat
    BY <2>1, CrashSetsFinite
  <2> HIDE DEF Own
  <2>3. Cardinality(Own \cup leaked') = Cardinality(Own) + Cardinality(leaked')
    BY <2>1, DisjointUnion
  <2>4. Cardinality(Blocked) = Cardinality(Own) + Cardinality(Swapped)
    BY <2>1, DisjointUnion
  <2>5. Cardinality(Own \cup leaked') <= Cardinality(pushed)
    BY <2>1, <2>2, FS_Subset
  <2>6. Cardinality(pushed) = Cardinality(Blocked)
    BY <2>2, <2>4 DEF Balance
  <2> QED
    BY <1>3, <2>2, <2>3, <2>4, <2>5, <2>6 DEF LeaksAreAccounted
<1>6. DumpsExplained'
  BY DEF DumpsExplained, HistoryInv, TypeOK
<1> QED
  BY <1>1, <1>2, <1>4, <1>5, <1>6

(* The balance holds in every reachable state. *)
THEOREM Invariance == Spec => []IInv
<1>1. IInv /\ [Next]_vars => IInv'
  <2> SUFFICES ASSUME IInv, [Next]_vars PROVE IInv'
    OBVIOUS
  <2>1. ASSUME NEW c \in Crashes,
               \/ ClearDumpable(c) \/ SetDumpable(c)
               \/ DumpToFile(c) \/ Observer(c) \/ Abort(c)
               \/ Unchecked(c) \/ PopBlocks(c) \/ PopEmpty(c)
        PROVE  IInv'
    BY <2>1, OtherPreserves, ObserverPreserves, PopBlocksPreserves,
       PopEmptyPreserves
  <2>2. CASE \/ \E h \in Handlers \cup {File} : SetCorePattern(h)
             \/ \E enable \in BOOLEAN : SetModuleState(enable)
             \/ UNCHANGED vars
    <3> USE <2>2 DEF SetCorePattern, SetModuleState, vars, IInv
    <3>1. TypeOK'
      BY DEF TypeOK, Stages
    <3>2. Blocked' = Blocked /\ Swapped' = Swapped
      BY DEF Blocked, Swapped
    <3>3. UNCHANGED <<pushed, leaked, pending_crash_blocks, crash>>
      OBVIOUS
    <3> QED
      BY <3>1, <3>2, <3>3
      DEF HistoryInv, Balance, LeaksAreAccounted, DumpsExplained
  <2> QED
    BY <2>1, <2>2 DEF Next
<1> QED
  BY <1>1, InitEstablishes, PTL DEF Spec

(* A helper of an observed unprivileged crash runs only if another one was *)
(* blocked in its stead.                                                   *)
THEOREM LeaksAccounted == Spec => []LeaksAreAccounted
<1>1. IInv => LeaksAreAccounted
  BY DEF IInv
<1> QED
  BY <1>1, Invariance, PTL

(* Every dump of an unprivileged crash has one of the named causes.        *)
THEOREM DumpsAreExplained == Spec => []DumpsExplained
<1>1. IInv => DumpsExplained
  BY DEF IInv
<1> QED
  BY <1>1, Invariance, PTL

(* Tokens are queued once, and those in the queue were consumed by no one. *)
TokenInv ==
  /\ \A i, j \in 1 .. Len(pending_crash_blocks) :
       pending_crash_blocks[i] = pending_crash_blocks[j] => i = j
  /\ \A i \in 1 .. Len(pending_crash_blocks) : pending_crash_blocks[i] \in pushed
  /\ TokensConsumedOnce

(* A new token is that of a crash that had none before.                    *)
LEMMA PushKeepsTokens ==
  ASSUME IInv, TokenInv, NEW c \in Crashes, Observer(c)
  PROVE  TokenInv'
<1> USE LockboxAssumption DEF Observer, IInv, TypeOK
<1>1. c \notin pushed /\ popped' = popped
  BY DEF HistoryInv
<1>2. \A d \in Crashes : crash[d] = "blocked" => crash'[d] = "blocked"
  OBVIOUS
<1>3. CASE UNCHANGED <<pending_crash_blocks, pushed>>
  BY <1>1, <1>2, <1>3 DEF TokenInv, TokensConsumedOnce
<1>4. CASE /\ pending_crash_blocks' = Append(pending_crash_blocks, c)
           /\ pushed' = pushed \cup {c}
  <2>1. /\ Len(pending_crash_blocks) \in Nat
        /\ Len(pending_crash_blocks') = Len(pending_crash_blocks) + 1
        /\ \A i \in 1 .. Len(pending_crash_blocks) :
             pending_crash_blocks'[i] = pending_crash_blocks[i]
        /\ pending_crash_blocks'[Len(pending_crash_blocks) + 1] = c
    BY <1>4
  <2>2. \A i \in 1 .. Len(pending_crash_blocks') :
          \/ i \in 1 .. Len(pending_crash_blocks)
          \/ i = Len(pending_crash_blocks) + 1
    BY <2>1
  <2>3. \A i \in 1 .. Len(pending_crash_blocks') :
          pending_crash_blocks'[i] \in pushed'
    BY <1>4, <2>1, <2>2 DEF TokenInv
  <2>4. \A i, j \in 1 .. Len(pending_crash_blocks') :
          pending_crash_blocks'[i] = pending_crash_blocks'[j] => i = j
    BY <1>1, <2>1, <2>2 DEF TokenInv
  <2>5. \A d \in Crashes : popped[d] # Nobody =>
          \A i \in 1 .. Len(pending_crash_blocks') :
            pending_crash_blocks'[i] # popped[d]
    BY <1>1, <2>1, <2>2 DEF TokenInv, TokensConsumedOnce
  <2>6. TokensConsumedOnce'
    BY <1>1, <1>2, <1>4, <2>5 DEF TokenInv, TokensConsumedOnce
  <2> QED
    BY <2>3, <2>4, <2>6 DEF TokenInv
<1> QED
  BY <1>3, <1>4

(* The oldest token changes hands.                                         *)
LEMMA PopKeepsTokens ==
  ASSUME IInv, TokenInv, NEW c \in Crashes, PopBlocks(c)
  PROVE  TokenInv'
<1> USE LockboxAssumption DEF PopBlocks, IInv, TypeOK
<1> DEFINE q == pending_crash_blocks
           token == Head(q)
<1>1. /\ Len(q) \in Nat /\ Len(q) >= 1 /\ token = q[1] /\ Len(q') = Len(q) - 1
      /\ \A i \in 1 .. Len(q') : q'[i] = q[i + 1] /\ i + 1 \in 1 .. Len(q)
  OBVIOUS
<1>2. /\ \A i \in 1 .. Len(q') : q'[i] # token /\ q'[i] \in pushed
      /\ \A i, j \in 1 .. Len(q') : q'[i] = q'[j] => i = j
  BY <1>1 DEF TokenInv
<1>3. /\ token \in pushed /\ token # Nobody
      /\ \A d \in Crashes : popped[d] # Nobody => popped[d] # token
  BY <1>1 DEF TokenInv, TokensConsumedOnce
<1>4. /\ \A d \in Crashes : popped'[d] = IF d = c THEN token ELSE popped[d]
      /\ \A d \in Crashes : crash'[d] = IF d = c THEN "blocked" ELSE crash[d]
      /\ pushed' = pushed
  OBVIOUS
<1>5. popped[c] = Nobody
  BY DEF TokenInv, TokensConsumedOnce
<1>6. ASSUME NEW d \in Crashes, popped[d] # Nobody
      PROVE  /\ crash[d] = "blocked" /\ popped[d] \in pushed
             /\ \A e \in Crashes : popped[d] = popped[e] => d = e
             /\ \A i \in 1 .. Len(q') : q'[i] # popped[d]
  BY <1>1, <1>6 DEF TokenInv, TokensConsumedOnce
<1> HIDE DEF q, token
<1>7. TokensConsumedOnce'
  <2> SUFFICES ASSUME NEW d \in Crashes, NEW e \in Crashes, popped'[d] # Nobody
               PROVE  /\ crash'[d] = "blocked" /\ popped'[d] \in pushed'
                      /\ popped'[d] = popped'[e] => d = e
                      /\ \A i \in 1 .. Len(q') : q'[i] # popped'[d]
    BY DEF TokensConsumedOnce, q
  <2>1. CASE d = c
    BY <1>2, <1>3, <1>4, <2>1
  <2>2. CASE d # c
    BY <1>3, <1>4, <1>6, <2>2
  <2> QED
    BY <2>1, <2>2
<1> QED
  BY <1>2, <1>4, <1>7 DEF TokenInv, q

(* Tokens carry no name of the helper, but each stops exactly one: none is *)
(* consumed twice, or consumed and still queued.                           *)
THEOREM TokensOnce == Spec => []TokensConsumedOnce
<1>1. Init => TokenInv
  BY DEF Init, TokenInv, TokensConsumedOnce
<1>2. IInv /\ TokenInv /\ [Next]_vars => TokenInv'
  <2> SUFFICES ASSUME IInv, TokenInv, [Next]_vars PROVE TokenInv'
    OBVIOUS
  <2>1. ASSUME NEW c \in Crashes,
               \/ ClearDumpable(c) \/ SetDumpable(c) \/ DumpToFile(c)
               \/ Abort(c) \/ Unchecked(c) \/ PopEmpty(c)
        PROVE  TokenInv'
    <3>1. /\ crash[c] # "blocked"
          /\ UNCHANGED <<pending_crash_blocks, pushed, popped>>
          /\ \A d \in Crashes : d # c => crash'[d] = crash[d]
      BY <2>1 DEF ClearDumpable, SetDumpable, DumpToFile, Abort, Unchecked,
                  PopEmpty, IInv, TypeOK
    <3> QED
      BY <3>1 DEF TokenInv, TokensConsumedOnce
  <2>2. CASE \/ \E h \in Handlers \cup {File} : SetCorePattern(h)
             \/ \E enable \in BOOLEAN : SetModuleState(enable)
             \/ UNCHANGED vars
    BY <2>2 DEF SetCorePattern, SetModuleState, vars, TokenInv,
                TokensConsumedOnce
  <2> QED
    BY <2>1, <2>2, PushKeepsTokens, PopKeepsTokens DEF Next
<1>3. TokenInv => TokensConsumedOnce
  BY DEF TokenInv
<1> QED
  BY <1>1, <1>2, <1>3, Invariance, PTL DEF Spec
=============================================================================
