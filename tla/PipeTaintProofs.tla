--------------------------- MODULE PipeTaintProofs ---------------------------
(***************************************************************************)
(* Proofs about the tainted-pipe tracker, for any number of tasks, pipes   *)
(* and open files, any map size and any width of a word.                   *)
(***************************************************************************)
EXTENDS PipeTaint, FiniteSetTheorems, TLAPS

-----------------------------------------------------------------------------
(* The identifiers.  The code's factors have inverses modulo 2^64, as the  *)
(* assumption on words wants it: the products are one more than a          *)
(* multiple of 2^64.                                                       *)
LEMMA CodeFactors ==
  /\ (18397679294719823053 * 5725274745694666757) % 18446744073709551616 = 1
  /\ (14181476777654086739 * 11291846944257947611) % 18446744073709551616 = 1
BY SMT

(* What the hardware's words are like.                                     *)
LEMMA WordType ==
  /\ Modulus \in Nat \ {0} /\ Shift \in Nat \ {0} /\ Word \subseteq Nat
  /\ \A h \in Word : h \div Shift \in Word /\ (h \div Shift) \div Shift = 0
  /\ 0 \in Word
<1>1. Modulus \in Nat \ {0} /\ Shift \in Nat \ {0} /\ Modulus <= Shift * Shift
  BY WordAssumption
<1>2. ASSUME NEW h \in Word
      PROVE  h \div Shift \in Word /\ (h \div Shift) \div Shift = 0
  <2>1. h \in Nat /\ h < Modulus /\ h < Shift * Shift
    BY <1>1 DEF Word
  <2>2. h \div Shift \in Nat /\ h \div Shift <= h
    BY <1>1, <2>1
  <2>3. h \div Shift < Shift
    BY <1>1, <2>1
  <2>4. \A n \in Nat : n < Shift => n \div Shift = 0
    BY <1>1
  <2> QED BY <1>1, <2>1, <2>2, <2>3, <2>4 DEF Word
<1> QED BY <1>1, <1>2 DEF Word

(* The shift is by more than half of a word, so that doing it twice undoes *)
(* it.                                                                     *)
LEMMA XorShiftUndone ==
  ASSUME NEW h \in Word
  PROVE  XorShift(h) \in Word /\ XorShift(XorShift(h)) = h
<1> DEFINE s == h \div Shift
<1>1. s \in Word /\ s \div Shift = 0 /\ 0 \in Word
  BY WordType
<1> HIDE DEF s
<1>2. XorShift(h) = xor(h, s) /\ xor(h, s) \in Word
  BY <1>1, WordAssumption DEF XorShift, s
<1>3. xor(h, s) \div Shift = xor(s, 0)
  <2>1. xor(h, s) \div Shift = xor(h \div Shift, s \div Shift)
    BY <1>1, WordAssumption
  <2> QED BY <1>1, <2>1 DEF s
<1>4. xor(s, 0) = s
  BY <1>1, WordAssumption
<1>5. XorShift(XorShift(h)) = xor(xor(h, s), s)
  BY <1>2, <1>3, <1>4 DEF XorShift
<1>6. xor(xor(h, s), s) = xor(h, xor(s, s))
  BY <1>1, WordAssumption
<1>7. xor(s, s) = 0 /\ xor(h, 0) = h
  BY <1>1, WordAssumption
<1> QED BY <1>2, <1>5, <1>6, <1>7

(* Multiplying by a factor that has an inverse merges nothing.             *)
LEMMA MultiplyInjective ==
  ASSUME NEW k \in Nat, NEW j \in Word, (k * j) % Modulus = 1,
         NEW g \in Word, NEW h \in Word, Multiply(g, k) = Multiply(h, k)
  PROVE  g = h
<1>0. /\ Modulus \in Nat \ {0} /\ j \in Nat /\ g \in Nat /\ h \in Nat
      /\ g < Modulus /\ h < Modulus
  BY WordType DEF Word
<1>1. \A n \in Nat : /\ n = Modulus * (n \div Modulus) + (n % Modulus)
                     /\ n \div Modulus \in Nat
  BY <1>0
<1>2. k * j \in Nat /\ g * k \in Nat /\ h * k \in Nat
  BY <1>0
<1>3. PICK u \in Nat : k * j = Modulus * u + 1
  BY <1>1, <1>2
<1>4. PICK a \in Nat, b \in Nat, r \in Int :
        g * k = Modulus * a + r /\ h * k = Modulus * b + r
  <2>1. (g * k) % Modulus = (h * k) % Modulus
    BY DEF Multiply
  <2>2. (g * k) % Modulus \in Int
    BY <1>0, <1>2
  <2> QED BY <1>1, <1>2, <2>1, <2>2
<1> DEFINE d == g - h
<1>5. d \in Int /\ d < Modulus /\ -d < Modulus
  BY <1>0
<1>6. d * k = Modulus * (a - b)
  BY <1>0, <1>4
<1> HIDE DEF d
<1>7. d * (k * j) = Modulus * ((a - b) * j)
  <2>1. d * (k * j) = (d * k) * j
    BY <1>0, <1>5
  <2>2. (Modulus * (a - b)) * j = Modulus * ((a - b) * j)
    BY <1>0
  <2> QED BY <1>6, <2>1, <2>2
<1>8. d * (Modulus * u + 1) = Modulus * (d * u) + d
  BY <1>0, <1>5
<1>9. d = Modulus * ((a - b) * j - d * u)
  <2> DEFINE x == (a - b) * j
             y == d * u
  <2>1. x \in Int /\ y \in Int
    BY <1>0, <1>5
  <2>2. Modulus * y + d = Modulus * x
    BY <1>3, <1>7, <1>8
  <2> HIDE DEF x, y
  <2>3. d = Modulus * (x - y)
    BY <1>0, <1>5, <2>1, <2>2
  <2> QED BY <2>3 DEF x, y
<1>10. \A m \in Nat \ {0}, e \in Int : m * e < m /\ -(m * e) < m => e = 0
  OBVIOUS
<1>11. d = 0
  <2> DEFINE e == (a - b) * j - d * u
  <2>1. e \in Int
    BY <1>0, <1>5
  <2> HIDE DEF e
  <2>2. d = Modulus * e
    BY <1>9 DEF e
  <2> QED BY <1>0, <1>5, <1>10, <2>1, <2>2
<1> QED BY <1>0, <1>11 DEF d

LEMMA MultiplyType ==
  ASSUME NEW k \in Nat, NEW h \in Word
  PROVE  Multiply(h, k) \in Word
BY WordType DEF Multiply, Word

(* The finaliser is injective.                                             *)
LEMMA MixInjective ==
  ASSUME NEW g \in Word, NEW h \in Word
  PROVE  Mix(g) \in Word /\ (Mix(g) = Mix(h) => g = h)
<1> DEFINE A(w) == XorShift(w)
           B(w) == Multiply(A(w), First)
           C(w) == XorShift(B(w))
           D(w) == Multiply(C(w), Second)
<1>1. First \in Nat /\ Second \in Nat
  BY WordAssumption
<1>2. \A w \in Word : A(w) \in Word /\ B(w) \in Word /\ C(w) \in Word
                     /\ D(w) \in Word
  BY <1>1, XorShiftUndone, MultiplyType
<1>3. Mix(g) = XorShift(D(g)) /\ Mix(h) = XorShift(D(h))
  BY DEF Mix
<1>4. Mix(g) \in Word
  BY <1>2, <1>3, XorShiftUndone
<1>5. ASSUME Mix(g) = Mix(h)
      PROVE  g = h
  <2>1. D(g) = D(h)
    <3>1. D(g) \in Word /\ D(h) \in Word
      BY <1>2
    <3>2. XorShift(D(g)) = XorShift(D(h))
      BY <1>3, <1>5
    <3> HIDE DEF D
    <3> QED BY <3>1, <3>2, XorShiftUndone
  <2>2. C(g) = C(h)
    <3>1. PICK j \in Word : (Second * j) % Modulus = 1
      BY WordAssumption
    <3> QED BY <1>1, <1>2, <2>1, <3>1, MultiplyInjective
  <2>3. B(g) = B(h)
    BY <1>2, <2>2, XorShiftUndone
  <2>4. A(g) = A(h)
    <3>1. PICK j \in Word : (First * j) % Modulus = 1
      BY WordAssumption
    <3> QED BY <1>1, <1>2, <2>3, <3>1, MultiplyInjective
  <2> QED BY <2>4, XorShiftUndone
<1> QED BY <1>4, <1>5

(* A live pipe's identifier is a word, and only twins share it.            *)
LEMMA Identifiers ==
  ASSUME TypeOK, NEW p \in Live
  PROVE  /\ IdOf(p) \in Word /\ p \in Twins(p)
         /\ \A q \in Live : IdOf(q) = IdOf(p) <=> q \in Twins(p)
<1>1. \A q \in Live : xor(q, ino[q]) \in Word
  BY PipeAssumption, WordAssumption DEF TypeOK, Live
<1>2. \A q \in Live : IdOf(q) = Mix(xor(q, ino[q]))
  BY DEF IdOf, generate_opaque_pipe_id
<1> QED BY <1>1, <1>2, MixInjective DEF Twins
-----------------------------------------------------------------------------
(* Every identifier of the map belongs to a live pipe that was marked, or  *)
(* was left behind by a release or a mark that came too late.              *)
TaintIsExplained ==
  \A x \in pipe_taint_map :
    x \in stale \/ \E p \in targeted : IdOf(p) = x

(* What a call in progress has stored is in the map until it is evicted.   *)
CoverIsStored == \A t \in Tasks : cover[t] # Free => cover[t] \in pipe_taint_map

(* The map is finite, so that its size is a number.                        *)
MapInv ==
  /\ IsFiniteSet(pipe_taint_map)
  /\ Cardinality(pipe_taint_map) <= TaintCap

IInv ==
  /\ TypeOK /\ MapInv
  /\ TaintIsExplained /\ CoverIsStored /\ TaintIsComplete /\ NoWrongKill

(* Deleting an entry, and inserting one while there is room or the entry   *)
(* exists, keep the map within its bound.                                  *)
LEMMA MapStaysBounded ==
  ASSUME MapInv, NEW x
  PROVE  /\ IsFiniteSet(pipe_taint_map \ {x})
         /\ Cardinality(pipe_taint_map \ {x}) <= TaintCap
         /\ \/ Cardinality(pipe_taint_map) < TaintCap
            \/ x \in pipe_taint_map
            => /\ IsFiniteSet(pipe_taint_map \cup {x})
               /\ Cardinality(pipe_taint_map \cup {x}) <= TaintCap
<1> USE PipeAssumption DEF MapInv
<1>1. Cardinality(pipe_taint_map) \in Nat
  BY FS_CardinalityType
<1>2. /\ IsFiniteSet(pipe_taint_map \ {x})
      /\ Cardinality(pipe_taint_map \ {x}) <= TaintCap
  <2>1. /\ IsFiniteSet(pipe_taint_map \ {x})
        /\ Cardinality(pipe_taint_map \ {x}) =
             IF x \in pipe_taint_map THEN Cardinality(pipe_taint_map) - 1
                                     ELSE Cardinality(pipe_taint_map)
    BY FS_RemoveElement
  <2> HIDE DEF MapInv
  <2>2. Cardinality(pipe_taint_map) <= TaintCap
    BY DEF MapInv
  <2> QED
    BY <1>1, <2>1, <2>2
<1>3. ASSUME \/ Cardinality(pipe_taint_map) < TaintCap
             \/ x \in pipe_taint_map
      PROVE  /\ IsFiniteSet(pipe_taint_map \cup {x})
             /\ Cardinality(pipe_taint_map \cup {x}) <= TaintCap
  <2>1. CASE x \in pipe_taint_map
    <3>1. pipe_taint_map \cup {x} = pipe_taint_map
      BY <2>1
    <3> QED
      BY <3>1
  <2>2. CASE x \notin pipe_taint_map
    <3>1. /\ IsFiniteSet(pipe_taint_map \cup {x})
          /\ Cardinality(pipe_taint_map \cup {x}) =
               Cardinality(pipe_taint_map) + 1
      BY <2>2, FS_AddElement
    <3> QED
      BY <1>1, <1>3, <2>2, <3>1
  <2> QED
    BY <2>1, <2>2
<1> QED
  BY <1>2, <1>3

(* Nothing is tainted at first. *)
LEMMA InitEstablishes == Init => IInv
<1> SUFFICES ASSUME Init PROVE IInv
  OBVIOUS
<1>1. MapInv
  BY FS_EmptySet, PipeAssumption DEF Init, MapInv
<1>2. TypeOK
  BY <1>1, PipeAssumption DEF Init, TypeOK, MapInv, Live
<1> QED
  BY <1>1, <1>2 DEF Init, IInv, TaintIsExplained, CoverIsStored,
                    TaintIsComplete, NoWrongKill

(* A new pipe has taken nothing yet. *)
LEMMA CreatePipePreserves ==
  ASSUME IInv, NEW p \in Ptrs, NEW i \in Inos, CreatePipe(p, i)
  PROVE  IInv'
<1> USE PipeAssumption DEF IInv, CreatePipe, taskVars, historyVars
<1>1. p \notin Live /\ \A q \in Live : q \in Live' /\ IdOf(q)' = IdOf(q)
  BY DEF TypeOK, Live, IdOf
<1>2. TypeOK'
  BY <1>1 DEF TypeOK, Live
<1>3. MapInv'
  BY DEF MapInv
<1>4. TaintIsExplained' /\ CoverIsStored' /\ TaintIsComplete' /\ NoWrongKill'
  BY <1>1 DEF TypeOK, TaintIsExplained, CoverIsStored, TaintIsComplete,
              NoWrongKill
<1> QED
  BY <1>2, <1>3, <1>4

(* One more file for a live pipe. *)
LEMMA ReopenPreserves ==
  ASSUME IInv, NEW p \in Ptrs, Reopen(p)
  PROVE  IInv'
<1> USE PipeAssumption DEF IInv, Reopen, taskVars, historyVars
<1>1. TypeOK'
  BY DEF TypeOK, Live
<1>2. MapInv'
  BY DEF MapInv
<1>3. TaintIsExplained' /\ CoverIsStored' /\ TaintIsComplete' /\ NoWrongKill'
  BY DEF TaintIsExplained, CoverIsStored, TaintIsComplete, NoWrongKill, IdOf
<1> QED
  BY <1>1, <1>2, <1>3

(* pipe_release deletes the entry of this pipe, which is that of its twins *)
(* and of no other.                                                        *)
LEMMA ReleasePreserves ==
  ASSUME IInv, NEW p \in Ptrs, Release(p)
  PROVE  IInv'
<1> USE PipeAssumption DEF IInv
<1> DEFINE last    == files[p] = 1
           evicted == IF state THEN {IdOf(p)} ELSE {}
<1>1. /\ p \in Live /\ p \in Twins(p) /\ IdOf(p) \in Word
      /\ \A q \in Live : IdOf(q) = IdOf(p) <=> q \in Twins(p)
      /\ Twins(p) \subseteq Live
  BY Identifiers DEF Release, Twins
<1>2. /\ pipe_taint_map' = pipe_taint_map \ evicted
      /\ files' = [files EXCEPT ![p] = @ - 1]
      /\ ino' = IF last THEN [ino EXCEPT ![p] = Free] ELSE ino
      /\ cover' = [t \in Tasks |-> IF cover[t] \in evicted THEN Free
                                                           ELSE cover[t]]
      /\ targeted' = targeted \ (IF last THEN {p} ELSE {})
      /\ ingested' = ingested \ (IF last THEN {p} ELSE {})
      /\ untracked' = (untracked \cup (IF state THEN Twins(p) \cap ingested
                                                ELSE {}))
                        \ (IF last THEN {p} ELSE {})
      /\ stale' = IF state THEN stale \ evicted
                  ELSE IF last THEN stale \cup ({IdOf(p)} \cap pipe_taint_map)
                  ELSE stale
      /\ UNCHANGED <<state, task, at, id, wronged>>
  BY DEF Release, taskVars
<1>3. \A q \in Live :
        q # p \/ ~last => q \in Live' /\ IdOf(q)' = IdOf(q)
  BY <1>1, <1>2 DEF TypeOK, Live, IdOf
<1>4. MapInv'
  BY <1>2, MapStaysBounded DEF MapInv
<1>5. TypeOK'
  <2>1. /\ targeted' \subseteq Live' /\ ingested' \subseteq Live'
        /\ untracked' \subseteq ingested'
    BY <1>1, <1>2, <1>3 DEF TypeOK
  <2>2. /\ stale' \subseteq pipe_taint_map' /\ pipe_taint_map' \subseteq Word
        /\ cover' \in [Tasks -> Word \cup {Free}]
    BY <1>1, <1>2 DEF TypeOK
  <2>3. /\ ino' \in [Ptrs -> Inos \cup {Free}]
        /\ files' \in [Ptrs -> 0 .. MaxFiles]
        /\ \A q \in Ptrs : files'[q] = 0 <=> ino'[q] = Free
    BY <1>1, <1>2 DEF TypeOK, Live
  <2> QED
    BY <1>2, <1>4, <2>1, <2>2, <2>3 DEF TypeOK, MapInv
<1>6. TaintIsExplained'
  <2> SUFFICES ASSUME NEW x \in pipe_taint_map'
               PROVE  x \in stale' \/ \E q \in targeted' : IdOf(q)' = x
    BY DEF TaintIsExplained
  <2>1. x \in pipe_taint_map /\ (state => x # IdOf(p))
    BY <1>2
  <2>2. CASE x \in stale
    BY <1>2, <2>1, <2>2
  <2>3. CASE x \notin stale
    <3>1. PICK q \in targeted : IdOf(q) = x
      BY <2>1, <2>3 DEF TaintIsExplained
    <3>2. q \in Live
      BY DEF TypeOK
    <3>3. CASE q = p /\ last
      BY <1>2, <2>1, <3>1, <3>3
    <3>4. CASE q # p \/ ~last
      <4>1. q \in targeted' /\ IdOf(q)' = x
        BY <1>2, <1>3, <3>1, <3>2, <3>4
      <4> QED BY <4>1
    <3> QED BY <3>3, <3>4
  <2> QED BY <2>2, <2>3
<1>7. TaintIsComplete'
  <2> SUFFICES ASSUME NEW q \in ingested', q \notin untracked'
               PROVE  IdOf(q)' \in pipe_taint_map'
    BY DEF TaintIsComplete
  <2>1. q \in ingested /\ (q # p \/ ~last)
    BY <1>2
  <2>2. q \in Live /\ IdOf(q)' = IdOf(q)
    BY <1>3, <2>1 DEF TypeOK
  <2>3. q \notin untracked /\ (state => q \notin Twins(p))
    BY <1>2, <2>1
  <2>4. IdOf(q) \in pipe_taint_map /\ (state => IdOf(q) # IdOf(p))
    BY <1>1, <2>1, <2>2, <2>3 DEF TaintIsComplete
  <2> QED BY <1>2, <2>2, <2>4
<1>8. CoverIsStored'
  BY <1>2 DEF CoverIsStored
<1> QED
  BY <1>2, <1>4, <1>5, <1>6, <1>7, <1>8 DEF NoWrongKill

(* A task is killed only over an identifier of the map. *)
LEMMA KillPreserves ==
  ASSUME IInv, NEW t \in Tasks, NEW p \in Live, NEW then \in {"dying", "killed"},
         IdOf(p) \in pipe_taint_map, task[t] = "idle", Kill(t, p, then)
  PROVE  IInv'
<1> USE PipeAssumption DEF IInv, Kill, pipeVars
<1>1. Twins(p) \cap targeted # {} \/ IdOf(p) \in stale
  <2>1. CASE IdOf(p) \notin stale
    <3>1. PICK q \in targeted : IdOf(q) = IdOf(p)
      BY <2>1 DEF TaintIsExplained
    <3>2. q \in Twins(p)
      BY <3>1, Identifiers DEF TypeOK
    <3> QED BY <3>1, <3>2
  <2> QED BY <2>1
<1>2. TypeOK'
  BY <1>1 DEF TypeOK, Live
<1>3. MapInv'
  BY DEF MapInv
<1> QED
  BY <1>1, <1>2, <1>3
  DEF TaintIsExplained, CoverIsStored, TaintIsComplete, NoWrongKill, IdOf

(* The mark is stored for the pipe that was looked up, or left behind. *)
LEMMA SpliceMarkPreserves ==
  ASSUME IInv, NEW t \in Tasks, SpliceMark(t)
  PROVE  IInv'
<1> USE PipeAssumption DEF IInv
<1> DEFINE fits == \/ Cardinality(pipe_taint_map) < TaintCap
                   \/ id[t] \in pipe_taint_map
           arrived == at[t] \in Live /\ IdOf(at[t]) = id[t]
           marked == IF arrived THEN {at[t]} ELSE {}
<1>1. at[t] \in Ptrs /\ id[t] \in Word
  BY DEF TypeOK, SpliceMark
<1>2. /\ task' = [task EXCEPT ![t] = "splicing"]
      /\ at' = [at EXCEPT ![t] = Free] /\ id' = [id EXCEPT ![t] = Free]
      /\ UNCHANGED <<state, ino, files, ingested, wronged>>
  BY DEF SpliceMark, pipeVars
<1>3. CASE ~fits
  <2>1. UNCHANGED <<pipe_taint_map, cover, targeted, untracked, stale>>
    BY <1>3 DEF SpliceMark
  <2>2. TypeOK'
    BY <1>2, <2>1 DEF TypeOK, Live
  <2> QED BY <1>2, <2>1, <2>2 DEF MapInv, TaintIsExplained, CoverIsStored,
                                  TaintIsComplete, NoWrongKill, IdOf
<1>4. CASE fits
  <2>1. /\ pipe_taint_map' = pipe_taint_map \cup {id[t]}
        /\ cover' = [cover EXCEPT ![t] = id[t]]
        /\ targeted' = targeted \cup marked
        /\ untracked' = {q \in untracked : IdOf(q) # id[t]}
        /\ stale' = IF arrived THEN stale ELSE stale \cup {id[t]}
    BY <1>4 DEF SpliceMark
  <2>2. Live' = Live /\ \A q \in Ptrs : IdOf(q)' = IdOf(q)
    BY <1>2 DEF Live, IdOf
  <2>3. MapInv'
    BY <1>4, <2>1, MapStaysBounded DEF MapInv
  <2>4. marked \subseteq Live
    OBVIOUS
  <2> HIDE DEF fits
  <2>5. TypeOK'
    <3>1. /\ targeted' \subseteq Live' /\ ingested' \subseteq Live'
          /\ untracked' \subseteq ingested'
      BY <1>2, <2>1, <2>2, <2>4 DEF TypeOK
    <3>2. /\ stale' \subseteq pipe_taint_map' /\ pipe_taint_map' \subseteq Word
          /\ cover' \in [Tasks -> Word \cup {Free}]
      BY <1>1, <2>1 DEF TypeOK
    <3>3. /\ task' \in [Tasks -> {"idle", "marking", "splicing", "dying",
                                  "killed"}]
          /\ at' \in [Tasks -> Ptrs \cup {Free}]
          /\ id' \in [Tasks -> Word \cup {Free}]
          /\ \A u \in Tasks :
               task'[u] = "marking" <=> at'[u] # Free /\ id'[u] # Free
      BY <1>2 DEF TypeOK
    <3> QED
      BY <1>2, <2>3, <3>1, <3>2, <3>3 DEF TypeOK, MapInv
  <2>6. TaintIsExplained'
    <3> SUFFICES ASSUME NEW x \in pipe_taint_map'
                 PROVE  x \in stale' \/ \E q \in targeted' : IdOf(q)' = x
      BY DEF TaintIsExplained
    <3>1. CASE x \in pipe_taint_map
      <4>1. x \in stale \/ \E q \in targeted : IdOf(q) = x
        BY <3>1 DEF TaintIsExplained
      <4>2. targeted \subseteq Ptrs
        BY DEF TypeOK, Live
      <4> QED BY <2>1, <2>2, <4>1, <4>2
    <3>2. CASE x = id[t] /\ arrived
      <4>1. PICK q \in Ptrs : q = at[t]
        BY <1>1
      <4>2. q \in targeted' /\ IdOf(q)' = x
        BY <2>1, <2>2, <3>2, <4>1
      <4> QED BY <4>2
    <3>3. CASE x = id[t] /\ ~arrived
      BY <2>1, <3>3
    <3> QED BY <2>1, <3>1, <3>2, <3>3
  <2>7. TaintIsComplete'
    <3> SUFFICES ASSUME NEW q \in ingested', q \notin untracked'
                 PROVE  IdOf(q)' \in pipe_taint_map'
      BY DEF TaintIsComplete
    <3>1. q \in Ptrs /\ IdOf(q)' = IdOf(q) /\ q \in ingested
      BY <1>2, <2>2 DEF TypeOK, Live
    <3>2. IdOf(q) = id[t] \/ q \notin untracked
      BY <2>1
    <3> QED BY <2>1, <3>1, <3>2 DEF TaintIsComplete
  <2>8. CoverIsStored'
    BY <2>1 DEF CoverIsStored, TypeOK
  <2> QED
    BY <1>2, <2>3, <2>5, <2>6, <2>7, <2>8 DEF NoWrongKill
<1> QED BY <1>3, <1>4

(* Data that arrives under the identifier its call has stored is tracked.  *)
LEMMA SpliceEndsPreserves ==
  ASSUME IInv, NEW t \in Tasks, NEW took \in SUBSET Live, SpliceEnds(t, took)
  PROVE  IInv'
<1> USE PipeAssumption DEF IInv
<1> DEFINE bare == {q \in took : IdOf(q) # cover[t]}
<1>1. /\ task[t] \in {"splicing", "dying"}
      /\ task' = [task EXCEPT ![t] = IF @ = "dying" THEN "killed" ELSE "idle"]
      /\ cover' = [cover EXCEPT ![t] = Free]
      /\ ingested' = ingested \cup took
      /\ untracked' = (untracked \ (took \ bare)) \cup (bare \ ingested)
      /\ UNCHANGED <<state, ino, files, pipe_taint_map, at, id, targeted,
                     stale, wronged>>
  BY DEF SpliceEnds, pipeVars
<1>2. Live' = Live /\ \A q \in Ptrs : IdOf(q)' = IdOf(q)
  BY <1>1 DEF Live, IdOf
<1>3. TypeOK'
  <2>1. ingested' \subseteq Live' /\ untracked' \subseteq ingested'
    BY <1>1, <1>2 DEF TypeOK
  <2>2. /\ task' \in [Tasks -> {"idle", "marking", "splicing", "dying",
                                "killed"}]
        /\ \A u \in Tasks :
             task'[u] = "marking" <=> at'[u] # Free /\ id'[u] # Free
        /\ cover' \in [Tasks -> Word \cup {Free}]
    BY <1>1 DEF TypeOK
  <2> QED BY <1>1, <1>2, <2>1, <2>2 DEF TypeOK
<1>4. TaintIsComplete'
  <2> SUFFICES ASSUME NEW q \in ingested', q \notin untracked'
               PROVE  IdOf(q)' \in pipe_taint_map'
    BY DEF TaintIsComplete
  <2>1. q \in Live /\ IdOf(q) \in Word /\ IdOf(q)' = IdOf(q)
    BY <1>1, <1>2, Identifiers DEF TypeOK, Live
  <2>2. CASE q \in took \ bare
    BY <1>1, <2>1, <2>2 DEF CoverIsStored
  <2>3. CASE q \notin took \ bare
    BY <1>1, <2>1, <2>3 DEF TaintIsComplete
  <2> QED BY <2>2, <2>3
<1>5. CoverIsStored' /\ NoWrongKill' /\ MapInv'
  BY <1>1 DEF CoverIsStored, NoWrongKill, MapInv, TypeOK
<1>6. TaintIsExplained'
  BY <1>1, <1>2 DEF TaintIsExplained, TypeOK, Live
<1> QED BY <1>3, <1>4, <1>5, <1>6

(* Every step keeps the invariant. *)
LEMMA NextPreserves == IInv /\ [Next]_vars => IInv'
<1> SUFFICES ASSUME IInv, [Next]_vars PROVE IInv'
  OBVIOUS
<1>1. ASSUME NEW p \in Ptrs, NEW i \in Inos, CreatePipe(p, i) PROVE IInv'
  BY <1>1, CreatePipePreserves
<1>2. ASSUME NEW p \in Ptrs, Reopen(p) \/ Release(p) PROVE IInv'
  BY <1>2, ReopenPreserves, ReleasePreserves
<1>3. ASSUME NEW t \in Tasks, NEW p \in Ptrs,
             SpliceKilled(t, p) \/ WriteKilled(t, p)
      PROVE  IInv'
  BY <1>3, KillPreserves DEF SpliceKilled, WriteKilled
<1>4. ASSUME NEW t \in Tasks, NEW p \in Ptrs, SpliceLookup(t, p) PROVE IInv'
  <2> USE <1>4, PipeAssumption DEF IInv, SpliceLookup, pipeVars, historyVars
  <2>1. IdOf(p) \in Word /\ p # Free /\ IdOf(p) # Free
    BY Identifiers
  <2>2. TypeOK'
    BY <2>1 DEF TypeOK, Live
  <2>3. MapInv'
    BY DEF MapInv
  <2> QED
    BY <2>2, <2>3 DEF TaintIsExplained, CoverIsStored, TaintIsComplete,
                      NoWrongKill, IdOf
<1>5. ASSUME NEW t \in Tasks, SpliceMark(t) PROVE IInv'
  BY <1>5, SpliceMarkPreserves
<1>6. ASSUME NEW t \in Tasks, SpliceFlags(t) \/ SplicePasses(t) PROVE IInv'
  <2> USE <1>6 DEF IInv, SpliceFlags, SplicePasses, pipeVars, historyVars
  <2>1. TypeOK'
    BY DEF TypeOK, Live
  <2> QED
    BY <2>1 DEF MapInv, TaintIsExplained, CoverIsStored, TaintIsComplete,
                     NoWrongKill, IdOf
<1>7. ASSUME NEW enable \in BOOLEAN, SetModuleState(enable) PROVE IInv'
  <2> USE <1>7 DEF IInv, SetModuleState, pipeVars, taskVars, historyVars
  <2>1. TypeOK'
    BY DEF TypeOK, Live
  <2> QED
    BY <2>1 DEF MapInv, TaintIsExplained, CoverIsStored, TaintIsComplete,
                     NoWrongKill, IdOf
<1>8. CASE UNCHANGED vars
  BY <1>8 DEF vars, pipeVars, taskVars, historyVars, IInv, TypeOK, Live,
              MapInv, TaintIsExplained, CoverIsStored, TaintIsComplete,
                     NoWrongKill, IdOf
<1>9. ASSUME NEW t \in Tasks, NEW took \in {{}} \cup {{q} : q \in Live},
             SpliceEnds(t, took)
      PROVE  IInv'
  <2>1. took \in SUBSET Live
    OBVIOUS
  <2> QED BY <1>9, <2>1, SpliceEndsPreserves
<1> QED
  BY <1>1, <1>2, <1>3, <1>4, <1>5, <1>6, <1>7, <1>8, <1>9 DEF Next

(* Entries of the map are explained and pipes with data have theirs, in    *)
(* every interleaving of splices, writes, releases and toggles.            *)
THEOREM Invariance == Spec => []IInv
BY InitEstablishes, NextPreserves, PTL DEF Spec

(* A task is killed over a pipe only if the pipe or a twin of it was the   *)
(* destination of a splice of read-only data, or because of an entry that  *)
(* a disabled module or a late mark left in the map.                       *)
THEOREM KillsAreJustified == Spec => []NoWrongKill
<1>1. IInv => NoWrongKill
  BY DEF IInv
<1> QED
  BY <1>1, Invariance, PTL

(* What a call put into the pipe it had stored the taint of stays in the   *)
(* map until a file of the pipe or of a twin is released, whatever other   *)
(* calls do, those that run on after a SIGKILL among them.                 *)
THEOREM TrackingIsComplete == Spec => []TaintIsComplete
<1>1. IInv => TaintIsComplete
  BY DEF IInv
<1> QED
  BY <1>1, Invariance, PTL

(* generate_opaque_pipe_id, for every width of a word and all factors with *)
(* inverses: its finaliser merges no pipes that the XOR keeps apart.       *)
THEOREM IdentifiersAreFaithful == Spec => []OnlyTwinsCollide
<1>1. IInv => OnlyTwinsCollide
  BY Identifiers DEF IInv, OnlyTwinsCollide
<1> QED
  BY <1>1, Invariance, PTL
=============================================================================
