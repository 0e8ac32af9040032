---------------------------- MODULE WatchlistProofs ----------------------------
(***************************************************************************)
(* Proofs about the directory watchlist and the execution verdict that     *)
(* reads it, for trees of any size and shape, any depth limit, any map     *)
(* capacity and any number of exit hooks on the way.                       *)
(*                                                                         *)
(* The first part is about trees alone: the ancestors of an inode, as the  *)
(* least set that contains it and the parents of its members, and what a   *)
(* change of one parent does to them.  There is no induction over paths:   *)
(* a tree is well founded if every set of inodes has a member whose parent *)
(* is outside, and what holds of all inodes is shown by looking at such a  *)
(* member of the set of exceptions.                                        *)
(*                                                                         *)
(* The second part is about the daemon.  CoverageExplained speaks of the   *)
(* time after the walk; CoverageInv is what the walk and the hooks keep up *)
(* until then.                                                             *)
(***************************************************************************)
EXTENDS ExecBlock, FiniteSetTheorems, TLAPS

Closed(par, S) == \A x \in S : x \in Tops \/ par[x] = None \/ par[x] \in S

Ancestors(par, d) ==
  {y \in Inodes : \A S \in SUBSET Inodes : d \in S /\ Closed(par, S) => y \in S}

Forest(par) ==
  /\ par \in [Inodes -> Inodes \cup {None}]
  /\ \A S \in SUBSET Inodes : S # {} => \E x \in S : x \in Tops \/ par[x] \notin S

LEMMA ParentClosed ==
  ASSUME NEW par, NEW d \in Inodes
  PROVE  /\ Ancestors(par, d) \subseteq Inodes /\ d \in Ancestors(par, d)
         /\ par \in [Inodes -> Inodes \cup {None}]
              => Closed(par, Ancestors(par, d))
<1>1. Ancestors(par, d) \subseteq Inodes /\ d \in Ancestors(par, d)
  BY DEF Ancestors
<1>2. ASSUME par \in [Inodes -> Inodes \cup {None}],
             NEW x \in Ancestors(par, d), x \notin Tops, par[x] # None
      PROVE  par[x] \in Ancestors(par, d)
  <2>1. x \in Inodes /\ par[x] \in Inodes
    BY <1>1, <1>2
  <2>2. ASSUME NEW S \in SUBSET Inodes, d \in S, Closed(par, S)
        PROVE  par[x] \in S
    <3>1. x \in S
      BY <2>2 DEF Ancestors
    <3> QED BY <1>2, <2>2, <3>1 DEF Closed
  <2> QED BY <2>1, <2>2 DEF Ancestors
<1> QED BY <1>1, <1>2 DEF Closed

LEMMA Least ==
  ASSUME NEW par, NEW d, NEW S \in SUBSET Inodes, d \in S, Closed(par, S)
  PROVE  Ancestors(par, d) \subseteq S
BY DEF Ancestors

LEMMA Transitive ==
  ASSUME NEW par \in [Inodes -> Inodes \cup {None}], NEW d \in Inodes,
         NEW e \in Ancestors(par, d)
  PROVE  Ancestors(par, e) \subseteq Ancestors(par, d)
BY ParentClosed, Least

(* The equations of Lineage.                                               *)
LEMMA AtTop ==
  ASSUME NEW par, NEW d \in Inodes, d \in Tops \/ par[d] = None
  PROVE  Ancestors(par, d) = {d}
<1>1. Closed(par, {d})
  BY DEF Closed
<1> QED BY <1>1, ParentClosed, Least

LEMMA AboveTop ==
  ASSUME NEW par \in [Inodes -> Inodes \cup {None}],
         NEW d \in Inodes \ Tops, par[d] # None
  PROVE  /\ par[d] \in Inodes
         /\ Ancestors(par, d) = {d} \cup Ancestors(par, par[d])
<1>1. par[d] \in Inodes
  OBVIOUS
<1>2. par[d] \in Ancestors(par, d) /\ d \in Ancestors(par, d)
  BY ParentClosed DEF Closed
<1>3. Ancestors(par, par[d]) \subseteq Ancestors(par, d)
  BY <1>2, Transitive
<1>4. Closed(par, {d} \cup Ancestors(par, par[d]))
  BY <1>1, ParentClosed DEF Closed
<1>5. Ancestors(par, d) \subseteq {d} \cup Ancestors(par, par[d])
  BY <1>1, <1>4, ParentClosed, Least
<1> QED BY <1>1, <1>2, <1>3, <1>5

(* The recursive definition has one solution on a forest.                  *)
Up(par) ==
  CHOOSE f : f = [x \in Inodes |-> IF x \in Tops \/ par[x] = None
                                     THEN {x} ELSE {x} \cup f[par[x]]]

LEMMA Solution ==
  ASSUME NEW par, Forest(par)
  PROVE  Up(par) = [x \in Inodes |-> Ancestors(par, x)]
<1> DEFINE G(f) == [x \in Inodes |-> IF x \in Tops \/ par[x] = None
                                       THEN {x} ELSE {x} \cup f[par[x]]]
           anc == [x \in Inodes |-> Ancestors(par, x)]
           up == CHOOSE f : f = G(f)
<1>0. par \in [Inodes -> Inodes \cup {None}]
  BY DEF Forest
<1>1. anc = G(anc)
  <2>1. ASSUME NEW x \in Inodes
        PROVE  anc[x] = IF x \in Tops \/ par[x] = None
                          THEN {x} ELSE {x} \cup anc[par[x]]
    BY <1>0, AtTop, AboveTop
  <2> QED BY <2>1
<1>2. \E f : f = G(f)
  BY <1>1
<1> HIDE DEF G, anc
<1>3. up = G(up)
  BY <1>2
<1> HIDE DEF up
<1>4. \A x \in Inodes : up[x] = IF x \in Tops \/ par[x] = None
                                  THEN {x} ELSE {x} \cup up[par[x]]
  BY <1>3 DEF G
<1>5. \A x \in Inodes : anc[x] = IF x \in Tops \/ par[x] = None
                                   THEN {x} ELSE {x} \cup anc[par[x]]
  BY <1>1 DEF G
<1>6. \A x \in Inodes : up[x] = anc[x]
  <2> DEFINE odd == {x \in Inodes : up[x] # anc[x]}
  <2> SUFFICES ASSUME odd # {} PROVE FALSE
    OBVIOUS
  <2>1. PICK x \in odd : x \in Tops \/ par[x] \notin odd
    BY DEF Forest
  <2>2. CASE x \in Tops \/ par[x] = None
    BY <1>4, <1>5, <2>2
  <2>3. CASE x \notin Tops /\ par[x] # None
    <3>1. par[x] \in Inodes /\ up[par[x]] = anc[par[x]]
      BY <1>0, <2>1, <2>3
    <3>2. up[x] = {x} \cup up[par[x]]
      BY <1>4, <2>3
    <3>3. anc[x] = {x} \cup anc[par[x]]
      BY <1>5, <2>3
    <3> QED BY <3>1, <3>2, <3>3
  <2> QED BY <2>2, <2>3
<1>7. up = [x \in Inodes |-> up[x]]
  BY <1>3 DEF G
<1>8. anc = [x \in Inodes |-> anc[x]]
  BY DEF anc
<1>9. up = anc
  BY <1>6, <1>7, <1>8
<1> QED BY <1>9 DEF up, anc, G, Up

(* An inode is not above its own parent.                                   *)
LEMMA NoLoop ==
  ASSUME NEW par, Forest(par), NEW d \in Inodes \ Tops, par[d] # None
  PROVE  d \notin Ancestors(par, par[d])
<1> SUFFICES ASSUME d \in Ancestors(par, par[d]) PROVE FALSE
  OBVIOUS
<1> DEFINE loop == {x \in Inodes : d \in Ancestors(par, x)
                                     /\ x \in Ancestors(par, d)}
<1>0. par \in [Inodes -> Inodes \cup {None}]
  BY DEF Forest
<1>1. d \in loop
  BY ParentClosed
<1>2. PICK x \in loop : x \in Tops \/ par[x] \notin loop
  BY <1>1 DEF Forest
<1>3. x \notin Tops /\ par[x] # None
  BY <1>2, AtTop
<1>4. par[x] \in Inodes /\ Ancestors(par, x) = {x} \cup Ancestors(par, par[x])
  BY <1>0, <1>2, <1>3, AboveTop
<1>5. d \in Ancestors(par, par[x])
  BY <1>2, <1>4
<1>6. par[x] \in Ancestors(par, x)
  BY <1>4, ParentClosed
<1>7. par[x] \in Ancestors(par, d)
  BY <1>0, <1>2, <1>6, Transitive
<1> QED BY <1>2, <1>3, <1>4, <1>5, <1>7

(* What is above an inode is above one of its children.                    *)
LEMMA Below ==
  ASSUME NEW par, Forest(par), NEW d \in Inodes, NEW a \in Ancestors(par, d),
         a # d
  PROVE  \E y \in Ancestors(par, d) : y \notin Tops /\ par[y] = a
<1> DEFINE S == {x \in Ancestors(par, d) :
                   x = d \/ \E y \in Ancestors(par, d) : y \notin Tops /\ par[y] = x}
<1>0. par \in [Inodes -> Inodes \cup {None}]
  BY DEF Forest
<1>1. S \in SUBSET Inodes /\ d \in S
  BY ParentClosed
<1>2. Closed(par, S)
  <2> SUFFICES ASSUME NEW x \in S, x \notin Tops, par[x] # None
               PROVE  par[x] \in S
    BY DEF Closed
  <2>1. par[x] \in Ancestors(par, d)
    BY <1>0, ParentClosed DEF Closed
  <2> QED BY <2>1
<1>3. a \in S
  BY <1>1, <1>2, Least
<1> QED BY <1>3

(* The top of an inode's tree is above each of its ancestors.              *)
LEMMA SameTop ==
  ASSUME NEW par, Forest(par), NEW d \in Inodes, NEW a \in Ancestors(par, d),
         NEW t \in Tops
  PROVE  t \in Ancestors(par, d) <=> t \in Ancestors(par, a)
<1>0. par \in [Inodes -> Inodes \cup {None}]
  BY DEF Forest
<1>1. t \in Ancestors(par, a) => t \in Ancestors(par, d)
  BY <1>0, Transitive
<1>2. ASSUME t \in Ancestors(par, d), t \notin Ancestors(par, a)
      PROVE  FALSE
  <2> DEFINE odd == {x \in Inodes : a \in Ancestors(par, x)
                                      /\ t \in Ancestors(par, x)}
  <2>1. d \in odd
    BY <1>2
  <2>2. PICK x \in odd : x \in Tops \/ par[x] \notin odd
    BY <2>1 DEF Forest
  <2>3. a # x
    BY <1>2, <2>2
  <2>4. x \notin Tops /\ par[x] # None
    BY <2>2, <2>3, AtTop
  <2>5. par[x] \in Inodes /\ Ancestors(par, x) = {x} \cup Ancestors(par, par[x])
    BY <1>0, <2>2, <2>4, AboveTop
  <2>6. a \in Ancestors(par, par[x]) /\ t \in Ancestors(par, par[x])
    BY <2>2, <2>3, <2>4, <2>5
  <2> QED BY <2>2, <2>4, <2>5, <2>6
<1> QED BY <1>1, <1>2

(* Ancestors are finitely many, and an inode has one more than its parent. *)
LEMMA CountUp ==
  ASSUME NEW par, Forest(par), NEW d \in Inodes
  PROVE  /\ IsFiniteSet(Ancestors(par, d))
         /\ Cardinality(Ancestors(par, d)) \in Nat \ {0}
         /\ d \notin Tops /\ par[d] # None =>
              Cardinality(Ancestors(par, d))
                = Cardinality(Ancestors(par, par[d])) + 1
<1>0. par \in [Inodes -> Inodes \cup {None}]
  BY DEF Forest
<1>1. \A x \in Inodes : IsFiniteSet(Ancestors(par, x))
  BY ParentClosed, WatchlistAssumption, FS_Subset
<1>2. Cardinality(Ancestors(par, d)) \in Nat \ {0}
  <2>1. Cardinality(Ancestors(par, d)) \in Nat
    BY <1>1, FS_CardinalityType
  <2>2. Ancestors(par, d) # {}
    BY ParentClosed
  <2> QED BY <1>1, <2>1, <2>2, FS_EmptySet
<1>3. ASSUME d \notin Tops, par[d] # None
      PROVE  Cardinality(Ancestors(par, d))
               = Cardinality(Ancestors(par, par[d])) + 1
  <2>1. par[d] \in Inodes /\ Ancestors(par, d) = Ancestors(par, par[d]) \cup {d}
    BY <1>0, <1>3, AboveTop
  <2>2. d \notin Ancestors(par, par[d])
    BY <1>3, NoLoop
  <2> QED BY <1>1, <2>1, <2>2, FS_AddElement
<1> QED BY <1>1, <1>2, <1>3

LEMMA CountStrict ==
  ASSUME NEW par, Forest(par), NEW d \in Inodes, NEW a \in Ancestors(par, d),
         a # d
  PROVE  Cardinality(Ancestors(par, a)) < Cardinality(Ancestors(par, d))
<1>0. par \in [Inodes -> Inodes \cup {None}]
  BY DEF Forest
<1>1. d \notin Tops /\ par[d] # None
  BY AtTop
<1>2. /\ par[d] \in Inodes
      /\ Ancestors(par, d) = {d} \cup Ancestors(par, par[d])
  BY <1>0, <1>1, AboveTop
<1>3. Ancestors(par, a) \subseteq Ancestors(par, par[d])
  BY <1>0, <1>2, Transitive
<1>4. /\ IsFiniteSet(Ancestors(par, par[d]))
      /\ Cardinality(Ancestors(par, par[d])) \in Nat
      /\ Cardinality(Ancestors(par, d)) = Cardinality(Ancestors(par, par[d])) + 1
  BY <1>1, <1>2, CountUp
<1>5. /\ Cardinality(Ancestors(par, a)) <= Cardinality(Ancestors(par, par[d]))
      /\ Cardinality(Ancestors(par, a)) \in Nat
  BY <1>3, <1>4, FS_Subset, FS_CardinalityType
<1> QED BY <1>4, <1>5

(* The parent of d becomes p, an inode that is not below d.                *)
LEMMA MovedOutside ==
  ASSUME NEW par, Forest(par), NEW d \in Inodes,
         NEW new \in [Inodes -> Inodes \cup {None}],
         \A y \in Inodes \ {d} : new[y] = par[y],
         NEW x \in Inodes, d \notin Ancestors(par, x)
  PROVE  Ancestors(new, x) = Ancestors(par, x)
<1> DEFINE S == Ancestors(new, x) \cap Ancestors(par, x)
<1>0. par \in [Inodes -> Inodes \cup {None}]
  BY DEF Forest
<1>1. Closed(new, Ancestors(par, x))
  BY <1>0, ParentClosed DEF Closed
<1>2. Closed(par, S)
  BY <1>0, ParentClosed DEF Closed
<1>3. Ancestors(new, x) \subseteq Ancestors(par, x)
  BY <1>1, ParentClosed, Least
<1>4. Ancestors(par, x) \subseteq S
  BY <1>2, ParentClosed, Least
<1> QED BY <1>3, <1>4

LEMMA Grafted ==
  ASSUME NEW par, Forest(par), NEW d \in Inodes \ Tops, NEW p \in Inodes,
         d \notin Ancestors(par, p),
         NEW new \in [Inodes -> Inodes \cup {None}], new[d] = p,
         \A y \in Inodes \ {d} : new[y] = par[y]
  PROVE  Forest(new)
<1>0. par \in [Inodes -> Inodes \cup {None}]
  BY DEF Forest
<1> SUFFICES ASSUME NEW S \in SUBSET Inodes, S # {}
             PROVE  \E x \in S : x \in Tops \/ new[x] \notin S
  BY <1>0 DEF Forest
<1> DEFINE far == {x \in S : d \notin Ancestors(par, x)}
<1>1. CASE far # {}
  <2>1. PICK x \in far : x \in Tops \/ par[x] \notin far
    BY <1>1 DEF Forest
  <2>2. x # d
    BY ParentClosed
  <2>3. ASSUME x \notin Tops, par[x] \in S
        PROVE  FALSE
    <3>1. par[x] \in Inodes /\ par[x] # None
      BY <2>3, WatchlistAssumption
    <3>2. Ancestors(par, par[x]) \subseteq Ancestors(par, x)
      BY <1>0, <2>3, <3>1, AboveTop
    <3> QED BY <2>1, <2>3, <3>2
  <2> QED BY <1>0, <2>2, <2>3
<1>2. CASE far = {}
  <2>1. PICK x \in S : x \in Tops \/ par[x] \notin S
    BY DEF Forest
  <2>2. p \notin S
    BY <1>2
  <2> QED BY <1>0, <2>1, <2>2
<1> QED BY <1>1, <1>2

LEMMA Pruned ==
  ASSUME NEW par, Forest(par), NEW d \in Inodes
  PROVE  Forest([par EXCEPT ![d] = None])
<1> DEFINE new == [par EXCEPT ![d] = None]
<1>0. /\ par \in [Inodes -> Inodes \cup {None}]
      /\ new \in [Inodes -> Inodes \cup {None}]
      /\ \A y \in Inodes : new[y] \in {par[y], None}
  BY DEF Forest
<1> SUFFICES ASSUME NEW S \in SUBSET Inodes, S # {}
             PROVE  \E x \in S : x \in Tops \/ new[x] \notin S
  BY <1>0 DEF Forest
<1>1. PICK x \in S : x \in Tops \/ par[x] \notin S
  BY DEF Forest
<1>2. new[x] \in {par[x], None} /\ None \notin S
  BY <1>0, WatchlistAssumption
<1> QED BY <1>1, <1>2

(* What was below d stays below it, and is now in the tree of p.           *)
LEMMA MovedInside ==
  ASSUME NEW par, Forest(par), NEW d \in Inodes \ Tops, NEW p \in Inodes,
         d \notin Ancestors(par, p),
         NEW new \in [Inodes -> Inodes \cup {None}], new[d] = p,
         \A y \in Inodes \ {d} : new[y] = par[y],
         NEW x \in Inodes, d \in Ancestors(par, x), NEW t \in Tops
  PROVE  t \in Ancestors(new, x) <=> t \in Ancestors(par, p)
<1>0. par \in [Inodes -> Inodes \cup {None}] /\ p # None
  BY WatchlistAssumption DEF Forest
<1>1. Forest(new)
  BY Grafted
<1>2. d \in Ancestors(new, x)
  <2> DEFINE odd == {y \in Inodes : d \in Ancestors(par, y)
                                      /\ d \notin Ancestors(new, y)}
  <2> SUFFICES ASSUME odd # {} PROVE FALSE
    OBVIOUS
  <2>1. PICK y \in odd : y \in Tops \/ par[y] \notin odd
    BY DEF Forest
  <2>2. y # d
    BY ParentClosed
  <2>3. y \notin Tops /\ par[y] # None
    BY <2>1, <2>2, AtTop
  <2>4. par[y] \in Inodes /\ d \in Ancestors(par, par[y])
    BY <1>0, <2>1, <2>2, <2>3, AboveTop
  <2>5. d \in Ancestors(new, par[y])
    BY <2>1, <2>3, <2>4
  <2>6. new[y] = par[y]
    BY <1>0, <2>2
  <2>7. Ancestors(new, y) = {y} \cup Ancestors(new, new[y])
    BY <1>0, <2>3, <2>6, AboveTop
  <2> QED BY <2>1, <2>5, <2>6, <2>7
<1>3. t \in Ancestors(new, x) <=> t \in Ancestors(new, d)
  BY <1>1, <1>2, SameTop
<1>4. Ancestors(new, d) = {d} \cup Ancestors(new, p)
  BY <1>0, AboveTop
<1>5. Ancestors(new, p) = Ancestors(par, p)
  BY MovedOutside
<1> QED BY <1>3, <1>4, <1>5
-----------------------------------------------------------------------------
(* The tree: an inode is free or in a directory, and there are no loops.   *)
TreeInv ==
  /\ kind \in [Inodes -> {"free", "dir", "file"}]
  /\ Forest(parent)
  /\ \A x \in Tops : kind[x] = "dir"
  /\ \A x \in Inodes : kind[x] = "free" <=> parent[x] = None
  /\ \A x \in Inodes \ Tops : kind[x] # "free" => parent[x] \in Dirs

(* A hook on the way is about a directory that is still where it put it.   *)
PendingInv ==
  /\ pending \subseteq Inodes \X Inodes
  /\ \A p, d \in Inodes :
       <<p, d>> \in pending => d \in Dirs \ Tops /\ parent[d] = p

(* The paths of the walk start at the target and stay below it.            *)
Starts(path) ==
  /\ path \in Seq(Inodes) /\ Len(path) > 0 /\ path[1] = Watched
  /\ \A i \in 2 .. Len(path) : path[i] \notin Tops

PathInv ==
  /\ \A path \in found : Starts(path)
  /\ \A path, e : <<path, e>> \in reading \cup opened => Starts(path)

(* A path that leads to its last directory by that directory's ancestors.  *)
Leads(path) ==
  LET e == path[Len(path)] IN
  /\ Valid(path) /\ Len(path) = Cardinality(Ancestors(parent, e))
  /\ \A i \in 1 .. Len(path) : path[i] \in Ancestors(parent, e)

(* The walk has still to come to d, on a path that is still valid and, if  *)
(* it is open, was valid when its directory was opened.                    *)
Awaited(d) ==
  \E path \in Seq(Inodes) :
    LET e == path[Len(path)] IN
    /\ Leads(path) /\ e \in Ancestors(parent, d)
    /\ path \in found \/ <<path, e>> \in reading \/ (<<path, e>> \in opened /\ e # d)

Excepted(d) == d \in protected_dirs \/ d \in missed \/ Busy(d)

(* While the walk runs, a watched directory is indexed, on record as       *)
(* missed, about to be indexed by its hook, or still ahead of the walk.    *)
CoverageInv ==
  /\ phase \in {"down", "walk", "run"}
  /\ phase = "run" => found = {} /\ reading = {} /\ opened = {}
  /\ phase # "down" =>
       \A d \in Dirs :
         Watched \in Ancestors(parent, d) /\ ~Excepted(d) =>
           /\ Cardinality(Ancestors(parent, d)) <= MaxDepth + 1
           /\ Awaited(d)

OverreachInv ==
  \A d \in Dirs \cap protected_dirs :
    Watched \in Ancestors(parent, d) \/ d \in leftover

WatchInv == TreeInv /\ PendingInv /\ PathInv /\ CoverageInv /\ OverreachInv
-----------------------------------------------------------------------------
(* The specification's notions, in these terms, before and after a step.   *)
LEMMA Terms ==
  ASSUME Forest(parent), NEW d \in Inodes
  PROVE  /\ Lineage(d) = Ancestors(parent, d)
         /\ Under(d) <=> Watched \in Ancestors(parent, d)
         /\ Depth(d) = Cardinality(Ancestors(parent, d)) - 1
<1>1. Lineage(d) = Ancestors(parent, d)
  <2>1. Lineage(d) = Up(parent)[d]
    BY DEF Lineage, Up
  <2>2. Up(parent) = [x \in Inodes |-> Ancestors(parent, x)]
    BY Solution
  <2> QED BY <2>1, <2>2
<1> QED BY <1>1 DEF Under, Depth

LEMMA TermsAfter ==
  ASSUME Forest(parent'), NEW d \in Inodes
  PROVE  /\ Lineage(d)' = Ancestors(parent', d)
         /\ Under(d)' <=> Watched \in Ancestors(parent', d)
         /\ Depth(d)' = Cardinality(Ancestors(parent', d)) - 1
<1>1. Lineage(d)' = Ancestors(parent', d)
  <2>1. Lineage(d)' = Up(parent')[d]
    BY DEF Lineage, Up
  <2>2. Up(parent') = [x \in Inodes |-> Ancestors(parent', x)]
    BY Solution
  <2> QED BY <2>1, <2>2
<1> QED BY <1>1 DEF Under, Depth

LEMMA SubtreeIs ==
  ASSUME Forest(parent), NEW d
  PROVE  Subtree(d) = {x \in Dirs : d \in Ancestors(parent, x)}
BY Terms DEF Subtree, Dirs

LEMMA DirsAbove ==
  ASSUME TreeInv, NEW x \in Dirs
  PROVE  Ancestors(parent, x) \subseteq Dirs
<1>1. Dirs \in SUBSET Inodes
  BY DEF Dirs
<1>2. Closed(parent, Dirs)
  BY <1>1 DEF Closed, TreeInv, Dirs
<1> QED BY <1>1, <1>2, Least

LEMMA ValidIs ==
  ASSUME NEW path
  PROVE  /\ Valid(path) <=>
              \A i \in 2 .. Len(path) : parent[path[i]] = path[i - 1]
         /\ Valid(path)' <=>
              \A i \in 2 .. Len(path) : parent'[path[i]] = path[i - 1]
BY DEF Valid, Replaced

(* A change of the parent of d does not reach an inode that is not below.  *)
LEMMA Unaffected ==
  ASSUME Forest(parent), Forest(parent'), NEW d \in Inodes,
         \A y \in Inodes \ {d} : parent'[y] = parent[y],
         found' = found, reading' = reading, opened' = opened,
         NEW x \in Inodes, d \notin Ancestors(parent, x)
  PROVE  /\ Ancestors(parent', x) = Ancestors(parent, x)
         /\ Awaited(x) => Awaited(x)'
<1>0. /\ parent \in [Inodes -> Inodes \cup {None}]
      /\ parent' \in [Inodes -> Inodes \cup {None}]
  BY DEF Forest
<1>1. ASSUME NEW y \in Ancestors(parent, x)
      PROVE  /\ Ancestors(parent', y) = Ancestors(parent, y)
             /\ parent'[y] = parent[y]
  <2>1. y \in Inodes /\ y # d /\ d \notin Ancestors(parent, y)
    BY <1>0, Transitive, ParentClosed
  <2> QED BY <1>0, <2>1, MovedOutside
<1>2. Ancestors(parent', x) = Ancestors(parent, x)
  BY <1>1, ParentClosed
<1>3. ASSUME NEW path \in Seq(Inodes), Leads(path),
             path[Len(path)] \in Ancestors(parent, x)
      PROVE  Leads(path)' /\ path[Len(path)] \in Ancestors(parent', x)
  <2> DEFINE e == path[Len(path)]
  <2>1. Ancestors(parent', e) = Ancestors(parent, e)
    BY <1>1, <1>3
  <2>2. \A i \in 1 .. Len(path) : path[i] \in Ancestors(parent, x)
    BY <1>0, <1>3, Transitive DEF Leads
  <2>3. \A i \in 1 .. Len(path) : parent'[path[i]] = parent[path[i]]
    BY <1>1, <2>2
  <2>4. Len(path) \in Nat
    OBVIOUS
  <2>5. Valid(path)'
    BY <1>3, <2>3, <2>4, ValidIs DEF Leads
  <2> QED BY <1>2, <1>3, <2>1, <2>5 DEF Leads
<1>4. ASSUME Awaited(x)
      PROVE  Awaited(x)'
  BY <1>2, <1>3, <1>4 DEF Awaited
<1> QED BY <1>2, <1>4

(* Coverage survives a change of the tree if every directory is excepted   *)
(* afterwards, or was not below the change and is as excepted as before.   *)
LEMMA CoverageStep ==
  ASSUME TreeInv, PathInv, CoverageInv, Forest(parent'), NEW d \in Inodes,
         \A y \in Inodes \ {d} : parent'[y] = parent[y],
         found' = found, reading' = reading, opened' = opened, phase' = phase,
         phase # "down" =>
           \A x \in Dirs' :
             \/ Excepted(x)'
             \/ /\ x \in Dirs /\ d \notin Ancestors(parent, x)
                /\ Excepted(x) => Excepted(x)'
  PROVE  CoverageInv'
<1> SUFFICES ASSUME phase # "down", NEW x \in Dirs',
                    Watched \in Ancestors(parent', x), ~Excepted(x)'
             PROVE  /\ Cardinality(Ancestors(parent', x)) <= MaxDepth + 1
                    /\ Awaited(x)'
  BY DEF CoverageInv
<1>1. x \in Dirs /\ x \in Inodes /\ d \notin Ancestors(parent, x) /\ ~Excepted(x)
  BY DEF Dirs
<1>2. /\ Ancestors(parent', x) = Ancestors(parent, x)
      /\ Awaited(x) => Awaited(x)'
  BY <1>1, Unaffected DEF TreeInv
<1> QED BY <1>1, <1>2 DEF CoverageInv
-----------------------------------------------------------------------------
LEMMA Relinked ==
  ASSUME Forest(parent), NEW d \in Inodes \ Tops, NEW p \in Inodes,
         d \notin Ancestors(parent, p), parent'[d] = p,
         parent' \in [Inodes -> Inodes \cup {None}],
         \A y \in Inodes \ {d} : parent'[y] = parent[y]
  PROVE  /\ Forest(parent')
         /\ Ancestors(parent', d) = {d} \cup Ancestors(parent, p)
         /\ \A x \in Inodes : d \in Ancestors(parent, x) =>
              (Watched \in Ancestors(parent', x) <=> Watched \in Ancestors(parent, p))
<1>1. Forest(parent')
  BY Grafted
<1>2. Ancestors(parent', p) = Ancestors(parent, p)
  BY MovedOutside
<1>3. Ancestors(parent', d) = {d} \cup Ancestors(parent', p)
  BY AboveTop, WatchlistAssumption
<1>4. Watched \in Tops
  BY DEF Tops
<1>5. ASSUME NEW x \in Inodes, d \in Ancestors(parent, x)
      PROVE  Watched \in Ancestors(parent', x) <=> Watched \in Ancestors(parent, p)
  BY <1>4, <1>5, MovedInside
<1> QED BY <1>1, <1>2, <1>3, <1>5

(* A new inode.                                                            *)
LEMMA TreeGrows ==
  ASSUME TreeInv, NEW p \in Dirs, NEW d \in Inodes, kind[d] = "free",
         NEW k \in {"dir", "file"}, kind' = [kind EXCEPT ![d] = k],
         parent' = [parent EXCEPT ![d] = p]
  PROVE  /\ TreeInv' /\ d \notin Tops /\ p # d
         /\ \A y \in Inodes \ {d} : parent'[y] = parent[y]
         /\ \A x \in Dirs : d \notin Ancestors(parent, x)
         /\ Ancestors(parent', d) = {d} \cup Ancestors(parent, p)
         /\ parent'[d] = p
         /\ Dirs' = IF k = "dir" THEN Dirs \cup {d} ELSE Dirs
<1>1. /\ d \notin Tops /\ p \in Inodes /\ p # d /\ d \notin Dirs
      /\ p # None
  BY WatchlistAssumption DEF TreeInv, Dirs
<1>2. /\ parent \in [Inodes -> Inodes \cup {None}]
      /\ parent' \in [Inodes -> Inodes \cup {None}]
      /\ \A y \in Inodes \ {d} : parent'[y] = parent[y]
      /\ parent'[d] = p
  BY <1>1 DEF TreeInv, Forest
<1>3. \A x \in Dirs : d \notin Ancestors(parent, x)
  BY <1>1, DirsAbove
<1>4. Forest(parent) /\ d \notin Ancestors(parent, p)
  BY <1>3 DEF TreeInv
<1>5. Forest(parent') /\ Ancestors(parent', d) = {d} \cup Ancestors(parent, p)
  BY <1>1, <1>2, <1>4, Relinked
<1>7. /\ kind' \in [Inodes -> {"free", "dir", "file"}] /\ kind'[d] = k
      /\ \A y \in Inodes \ {d} : kind'[y] = kind[y]
  BY DEF TreeInv
<1>8. Dirs' = IF k = "dir" THEN Dirs \cup {d} ELSE Dirs
  BY <1>1, <1>7 DEF Dirs
<1>9. \A x \in Inodes \ Tops : kind'[x] # "free" => parent'[x] \in Dirs'
  BY <1>2, <1>7, <1>8 DEF TreeInv
<1>10. TreeInv'
  BY <1>1, <1>2, <1>5, <1>7, <1>9 DEF TreeInv
<1> QED BY <1>1, <1>2, <1>3, <1>5, <1>8, <1>10

LEMMA TreeMoves ==
  ASSUME TreeInv, NEW d \in Dirs \ Tops, NEW p \in Dirs \ Subtree(d),
         kind' = kind, parent' = [parent EXCEPT ![d] = p]
  PROVE  /\ TreeInv' /\ d \notin Ancestors(parent, p) /\ Dirs' = Dirs
         /\ \A y \in Inodes \ {d} : parent'[y] = parent[y]
         /\ parent'[d] = p
         /\ \A x \in Subtree(d) : Watched \in Ancestors(parent', x)
                                    <=> Watched \in Ancestors(parent, p)
<1>1. d \in Inodes /\ p \in Inodes /\ p # None /\ Dirs' = Dirs
  BY WatchlistAssumption DEF Dirs
<1>2. /\ parent \in [Inodes -> Inodes \cup {None}]
      /\ parent' \in [Inodes -> Inodes \cup {None}]
      /\ \A y \in Inodes \ {d} : parent'[y] = parent[y]
      /\ parent'[d] = p
  BY <1>1 DEF TreeInv, Forest
<1>3. Subtree(d) = {x \in Dirs : d \in Ancestors(parent, x)}
  BY SubtreeIs DEF TreeInv
<1>4. d \notin Ancestors(parent, p)
  BY <1>3
<1>5. /\ Forest(parent')
      /\ \A x \in Inodes : d \in Ancestors(parent, x) =>
           (Watched \in Ancestors(parent', x) <=> Watched \in Ancestors(parent, p))
  BY <1>1, <1>2, <1>4, Relinked DEF TreeInv
<1>6. TreeInv'
  <2>1. \A x \in Inodes : kind[x] = "free" <=> parent'[x] = None
    BY <1>1, <1>2 DEF TreeInv, Dirs
  <2>2. \A x \in Inodes \ Tops : kind[x] # "free" => parent'[x] \in Dirs
    BY <1>2 DEF TreeInv
  <2> QED BY <1>1, <1>5, <2>1, <2>2 DEF TreeInv
<1>7. ASSUME NEW x \in Subtree(d)
      PROVE  Watched \in Ancestors(parent', x) <=> Watched \in Ancestors(parent, p)
  <2>1. x \in Inodes /\ d \in Ancestors(parent, x)
    BY <1>3 DEF Dirs
  <2> QED BY <1>5, <2>1
<1> QED BY <1>1, <1>2, <1>4, <1>6, <1>7

LEMMA TreeShrinks ==
  ASSUME TreeInv, NEW d \in Inodes \ Tops, \A x \in Inodes \ {d} : parent[x] # d,
         kind' = [kind EXCEPT ![d] = "free"],
         parent' = [parent EXCEPT ![d] = None]
  PROVE  /\ TreeInv' /\ Dirs' = Dirs \ {d}
         /\ \A y \in Inodes \ {d} : parent'[y] = parent[y]
         /\ \A x \in Inodes \ {d} : d \notin Ancestors(parent, x)
<1>1. /\ parent \in [Inodes -> Inodes \cup {None}]
      /\ parent' \in [Inodes -> Inodes \cup {None}]
      /\ \A y \in Inodes \ {d} : parent'[y] = parent[y]
      /\ parent'[d] = None
  BY DEF TreeInv, Forest
<1>2. Forest(parent')
  BY Pruned DEF TreeInv
<1>3. ASSUME NEW x \in Inodes \ {d}
      PROVE  d \notin Ancestors(parent, x)
  <2> SUFFICES ASSUME d \in Ancestors(parent, x) PROVE FALSE
    OBVIOUS
  <2>1. PICK y \in Ancestors(parent, x) : y \notin Tops /\ parent[y] = d
    BY Below DEF TreeInv
  <2>2. y \in Inodes /\ y = d
    BY <2>1, ParentClosed
  <2>3. d \notin Ancestors(parent, parent[d]) /\ d \in Ancestors(parent, d)
    BY <2>1, <2>2, NoLoop, ParentClosed, WatchlistAssumption DEF TreeInv
  <2> QED BY <2>1, <2>2, <2>3
<1>4. /\ kind' \in [Inodes -> {"free", "dir", "file"}] /\ kind'[d] = "free"
      /\ \A y \in Inodes \ {d} : kind'[y] = kind[y]
  BY DEF TreeInv
<1>5. Dirs' = Dirs \ {d}
  BY <1>4 DEF Dirs
<1>6. \A x \in Inodes \ Tops : kind'[x] # "free" => parent'[x] \in Dirs'
  BY <1>1, <1>4, <1>5 DEF TreeInv
<1>7. Tops \subseteq Inodes
  BY WatchlistAssumption
<1>8. TreeInv'
  BY <1>1, <1>2, <1>4, <1>6, <1>7 DEF TreeInv
<1> QED BY <1>1, <1>3, <1>5, <1>8

(* Who is put into the map is in it, and who is evicted is on record.      *)
LEMMA InsertCases ==
  ASSUME NEW x, Insert(x)
  PROVE  /\ x \in protected_dirs' /\ protected_dirs' \subseteq protected_dirs \cup {x}
         /\ \A y \in Dirs : y \in protected_dirs \/ y \in missed
                             => y \in protected_dirs' \/ y \in missed'
<1>1. CASE /\ protected_dirs' = protected_dirs \cup {x}
           /\ missed' = missed \ {x}
  BY <1>1
<1>2. CASE \E victim \in protected_dirs :
             /\ protected_dirs' = (protected_dirs \ {victim}) \cup {x}
             /\ missed' = (missed \ {x}) \cup ({victim} \cap Dirs)
  BY <1>2
<1> QED BY <1>1, <1>2 DEF Insert
-----------------------------------------------------------------------------
(* One lemma per action.                                                   *)
LEMMA MkdirKeeps ==
  ASSUME WatchInv, NEW p \in Inodes, NEW d \in Inodes, Mkdir(p, d)
  PROVE  WatchInv'
<1>1. /\ p \in Dirs /\ kind[d] = "free"
      /\ kind' = [kind EXCEPT ![d] = "dir"] /\ parent' = [parent EXCEPT ![d] = p]
      /\ UNCHANGED <<phase, protected_dirs, found, reading, opened, missed>>
      /\ leftover' = IF d \in protected_dirs /\ ~Under(p)
                       THEN leftover \cup {d} ELSE leftover
      /\ pending' = IF phase = "down" THEN pending ELSE pending \cup {<<p, d>>}
  BY DEF Mkdir, walkVars
<1>2. /\ TreeInv' /\ d \notin Tops /\ p # d
      /\ \A y \in Inodes \ {d} : parent'[y] = parent[y]
      /\ \A x \in Dirs : d \notin Ancestors(parent, x)
      /\ Ancestors(parent', d) = {d} \cup Ancestors(parent, p)
      /\ parent'[d] = p /\ Dirs' = Dirs \cup {d}
  BY <1>1, TreeGrows DEF WatchInv
<1>3. Forest(parent) /\ Forest(parent') /\ d \notin Dirs
  BY <1>1, <1>2 DEF WatchInv, TreeInv, Dirs
<1>4. PendingInv'
  BY <1>1, <1>2, <1>3 DEF WatchInv, PendingInv
<1>5. PathInv'
  BY <1>1 DEF WatchInv, PathInv
<1>6. ASSUME phase # "down", NEW x \in Dirs'
      PROVE  \/ Excepted(x)'
             \/ /\ x \in Dirs /\ d \notin Ancestors(parent, x)
                /\ Excepted(x) => Excepted(x)'
  BY <1>1, <1>2, <1>6 DEF Excepted, Busy
<1>7. CoverageInv'
  BY <1>1, <1>2, <1>3, <1>6, CoverageStep DEF WatchInv
<1>8. OverreachInv'
  <2> SUFFICES ASSUME NEW x \in Dirs', x \in protected_dirs
               PROVE  Watched \in Ancestors(parent', x) \/ x \in leftover'
    BY <1>1 DEF OverreachInv
  <2>1. CASE x = d
    BY <1>1, <1>2, <1>3, <2>1, Terms
  <2>2. CASE x \in Dirs
    <3>1. x \in Inodes /\ d \notin Ancestors(parent, x)
      BY <1>2, <2>2 DEF Dirs
    <3>2. Ancestors(parent', x) = Ancestors(parent, x)
      BY <1>1, <1>2, <1>3, <3>1, Unaffected DEF WatchInv
    <3> QED BY <1>1, <2>2, <3>2 DEF WatchInv, OverreachInv
  <2> QED BY <1>2, <2>1, <2>2
<1> QED BY <1>2, <1>4, <1>5, <1>7, <1>8 DEF WatchInv

LEMMA RenameFileKeeps ==
  ASSUME WatchInv, NEW p \in Inodes, NEW f \in Inodes, RenameFile(p, f)
  PROVE  WatchInv'
<1>1. /\ p \in Dirs /\ kind[f] = "free"
      /\ kind' = [kind EXCEPT ![f] = "file"] /\ parent' = [parent EXCEPT ![f] = p]
      /\ UNCHANGED <<phase, found, reading, opened, pending, leftover>>
      /\ Insert(f) \/ UNCHANGED <<protected_dirs, missed>>
  BY DEF RenameFile, walkVars
<1>2. /\ TreeInv' /\ f \notin Tops
      /\ \A y \in Inodes \ {f} : parent'[y] = parent[y]
      /\ \A x \in Dirs : f \notin Ancestors(parent, x)
      /\ Dirs' = Dirs
  BY <1>1, TreeGrows DEF WatchInv
<1>3. Forest(parent) /\ Forest(parent') /\ f \notin Dirs
  BY <1>1, <1>2 DEF WatchInv, TreeInv, Dirs
<1>4. /\ protected_dirs' \subseteq protected_dirs \cup {f}
      /\ \A y \in Dirs : y \in protected_dirs \/ y \in missed
                          => y \in protected_dirs' \/ y \in missed'
  BY <1>1, InsertCases
<1>5. PendingInv'
  BY <1>1, <1>2, <1>3 DEF WatchInv, PendingInv
<1>6. PathInv'
  BY <1>1 DEF WatchInv, PathInv
<1>7. ASSUME NEW x \in Dirs', Excepted(x)
      PROVE  Excepted(x)'
  BY <1>1, <1>2, <1>4, <1>7 DEF Excepted, Busy
<1>8. CoverageInv'
  BY <1>1, <1>2, <1>3, <1>7, CoverageStep DEF WatchInv
<1>9. OverreachInv'
  <2> SUFFICES ASSUME NEW x \in Dirs, x \in protected_dirs'
               PROVE  Watched \in Ancestors(parent', x) \/ x \in leftover
    BY <1>1, <1>2 DEF OverreachInv
  <2>1. x \in Inodes /\ f \notin Ancestors(parent, x) /\ x \in protected_dirs
    BY <1>2, <1>3, <1>4 DEF Dirs
  <2>2. Ancestors(parent', x) = Ancestors(parent, x)
    BY <1>1, <1>2, <1>3, <2>1, Unaffected DEF WatchInv
  <2> QED BY <2>1, <2>2 DEF WatchInv, OverreachInv
<1> QED BY <1>2, <1>5, <1>6, <1>8, <1>9 DEF WatchInv

LEMMA RemoveKeeps ==
  ASSUME WatchInv, NEW d \in Inodes, Remove(d)
  PROVE  WatchInv'
<1>1. /\ d \notin Tops /\ ~Busy(d) /\ \A x \in Inodes \ {d} : parent[x] # d
      /\ kind' = [kind EXCEPT ![d] = "free"]
      /\ parent' = [parent EXCEPT ![d] = None]
      /\ missed' = missed \ {d} /\ leftover' = leftover \ {d}
      /\ UNCHANGED <<phase, protected_dirs, found, reading, opened, pending>>
  BY DEF Remove, walkVars
<1>2. /\ TreeInv' /\ Dirs' = Dirs \ {d}
      /\ \A y \in Inodes \ {d} : parent'[y] = parent[y]
      /\ \A x \in Inodes \ {d} : d \notin Ancestors(parent, x)
  BY <1>1, TreeShrinks DEF WatchInv
<1>3. Forest(parent) /\ Forest(parent') /\ Dirs \subseteq Inodes
  BY <1>2 DEF WatchInv, TreeInv, Dirs
<1>4. PendingInv'
  BY <1>1, <1>2, <1>3 DEF WatchInv, PendingInv, Busy
<1>5. PathInv'
  BY <1>1 DEF WatchInv, PathInv
<1>6. ASSUME NEW x \in Dirs'
      PROVE  /\ x \in Dirs /\ x \in Inodes \ {d} /\ d \notin Ancestors(parent, x)
             /\ Excepted(x) => Excepted(x)'
  BY <1>1, <1>2, <1>3 DEF Excepted, Busy
<1>7. CoverageInv'
  BY <1>1, <1>2, <1>3, <1>6, CoverageStep DEF WatchInv
<1>8. OverreachInv'
  <2> SUFFICES ASSUME NEW x \in Dirs', x \in protected_dirs
               PROVE  Watched \in Ancestors(parent', x) \/ x \in leftover'
    BY <1>1 DEF OverreachInv
  <2>1. Ancestors(parent', x) = Ancestors(parent, x)
    BY <1>1, <1>2, <1>3, <1>6, Unaffected DEF WatchInv
  <2> QED BY <1>1, <1>6, <2>1 DEF WatchInv, OverreachInv
<1> QED BY <1>2, <1>4, <1>5, <1>7, <1>8 DEF WatchInv

(* A directory moves with its subtree: itself it has a hook on the way,    *)
(* what comes with it is indexed or on record.                             *)
LEMMA RenameKeeps ==
  ASSUME WatchInv, NEW p \in Inodes, NEW d \in Inodes, Rename(d, p)
  PROVE  WatchInv'
<1>1. /\ d \in Dirs \ Tops /\ ~Busy(d) /\ p \in Dirs \ Subtree(d)
      /\ parent' = [parent EXCEPT ![d] = p]
      /\ pending' = IF phase = "down" THEN pending ELSE pending \cup {<<p, d>>}
      /\ missed' = IF phase = "down" THEN missed
                   ELSE missed \cup (Subtree(d) \ ({d} \cup protected_dirs))
      /\ leftover' = IF Under(p) THEN leftover \ Subtree(d)
                     ELSE leftover \cup (Subtree(d) \cap protected_dirs)
      /\ UNCHANGED <<kind, phase, protected_dirs, found, reading, opened>>
  BY DEF Rename, walkVars
<1>2. /\ TreeInv' /\ Dirs' = Dirs
      /\ \A y \in Inodes \ {d} : parent'[y] = parent[y]
      /\ parent'[d] = p
      /\ \A x \in Subtree(d) : Watched \in Ancestors(parent', x)
                                 <=> Watched \in Ancestors(parent, p)
  BY <1>1, TreeMoves DEF WatchInv
<1>3. Forest(parent) /\ Forest(parent') /\ Dirs \subseteq Inodes
  BY <1>2 DEF WatchInv, TreeInv, Dirs
<1>4. Subtree(d) = {x \in Dirs : d \in Ancestors(parent, x)}
  BY <1>3, SubtreeIs
<1>5. PendingInv'
  BY <1>1, <1>2, <1>3 DEF WatchInv, PendingInv, Busy
<1>6. PathInv'
  BY <1>1 DEF WatchInv, PathInv
<1>7. ASSUME phase # "down", NEW x \in Dirs'
      PROVE  \/ Excepted(x)'
             \/ /\ x \in Dirs /\ d \notin Ancestors(parent, x)
                /\ Excepted(x) => Excepted(x)'
  <2>1. CASE x = d
    BY <1>1, <1>7, <2>1 DEF Excepted, Busy
  <2>2. CASE x \in Subtree(d) \ {d}
    BY <1>1, <1>7, <2>2 DEF Excepted
  <2>3. CASE x \notin Subtree(d)
    BY <1>1, <1>2, <1>4, <1>7, <2>3 DEF Excepted, Busy
  <2> QED BY <2>1, <2>2, <2>3
<1>8. CoverageInv'
  BY <1>1, <1>2, <1>3, <1>7, CoverageStep DEF WatchInv
<1>9. OverreachInv'
  <2> SUFFICES ASSUME NEW x \in Dirs, x \in protected_dirs
               PROVE  Watched \in Ancestors(parent', x) \/ x \in leftover'
    BY <1>1, <1>2 DEF OverreachInv
  <2>1. CASE x \in Subtree(d)
    BY <1>1, <1>2, <1>3, <2>1, Terms
  <2>2. CASE x \notin Subtree(d)
    <3>1. x \in Inodes /\ d \notin Ancestors(parent, x)
      BY <1>3, <1>4, <2>2
    <3>2. Ancestors(parent', x) = Ancestors(parent, x)
      BY <1>1, <1>2, <1>3, <3>1, Unaffected DEF WatchInv
    <3> QED BY <1>1, <2>2, <3>2 DEF WatchInv, OverreachInv
  <2> QED BY <2>1, <2>2
<1> QED BY <1>2, <1>5, <1>6, <1>8, <1>9 DEF WatchInv

LEMMA SameTree ==
  ASSUME UNCHANGED fsVars
  PROVE  /\ parent' = parent /\ Dirs' = Dirs /\ (TreeInv => TreeInv')
         /\ \A path : Leads(path)' <=> Leads(path)
<1>1. kind' = kind /\ parent' = parent
  BY DEF fsVars
<1>2. \A path : Valid(path)' <=> Valid(path)
  BY <1>1, ValidIs
<1> QED BY <1>1, <1>2 DEF Dirs, TreeInv, Leads

(* The hook of d ran.  If it found the parent out of the map, the parent   *)
(* is ahead of the walk, and so is d.                                      *)
LEMMA InheritKeeps ==
  ASSUME WatchInv, NEW p \in Inodes, NEW d \in Inodes, InheritProtection(p, d)
  PROVE  WatchInv'
<1>1. /\ <<p, d>> \in pending /\ pending' = pending \ {<<p, d>>}
      /\ UNCHANGED <<phase, found, reading, opened>> /\ UNCHANGED fsVars
  BY DEF InheritProtection, walkVars
<1>2. /\ parent' = parent /\ Dirs' = Dirs /\ TreeInv'
      /\ \A path : Leads(path)' <=> Leads(path)
  BY <1>1, SameTree DEF WatchInv
<1>3. /\ Forest(parent) /\ parent \in [Inodes -> Inodes \cup {None}]
      /\ d \in Dirs \ Tops /\ parent[d] = p /\ p \in Dirs /\ p # None
  BY <1>1, WatchlistAssumption DEF WatchInv, PendingInv, TreeInv, Forest, Dirs
<1>4. /\ Ancestors(parent, d) = {d} \cup Ancestors(parent, p)
      /\ d \notin Ancestors(parent, p)
  BY <1>3, AboveTop, NoLoop
<1>5. Watched \in Ancestors(parent, d) <=> Watched \in Ancestors(parent, p)
  <2>1. Watched # d
    BY <1>3 DEF Tops
  <2> QED BY <1>4, <2>1
<1>6. \A x \in Inodes : x # d => (Busy(x) => Busy(x)')
  BY <1>1 DEF Busy
<1>7. PendingInv'
  BY <1>1, <1>2 DEF WatchInv, PendingInv
<1>8. PathInv'
  BY <1>1 DEF WatchInv, PathInv
<1>9. \A x \in Inodes : Awaited(x)' <=> Awaited(x)
  BY <1>1, <1>2 DEF Awaited
<1>10. CASE Inherits(p)
  <2>1. /\ Insert(d)
        /\ leftover' = IF p \in leftover THEN leftover \cup {d} ELSE leftover
    BY <1>10 DEF InheritProtection
  <2>2. /\ d \in protected_dirs' /\ protected_dirs' \subseteq protected_dirs \cup {d}
        /\ \A y \in Dirs : y \in protected_dirs \/ y \in missed
                            => y \in protected_dirs' \/ y \in missed'
    BY <2>1, InsertCases
  <2>3. \A x \in Dirs : Excepted(x) => Excepted(x)'
    BY <1>6, <2>2 DEF Excepted, Dirs
  <2>4. CoverageInv'
    BY <1>1, <1>2, <1>9, <2>3 DEF WatchInv, CoverageInv, Dirs
  <2>5. p \in protected_dirs
    BY <1>10 DEF Inherits
  <2>6. OverreachInv'
    BY <1>2, <1>3, <1>5, <2>1, <2>2, <2>5 DEF WatchInv, OverreachInv
  <2> QED BY <1>2, <1>7, <1>8, <2>4, <2>6 DEF WatchInv
<1>11. CASE ~Inherits(p)
  <2>1. /\ missed' = IF ~state \/ p \in missed \/ Busy(p) \/ Depth(d) > MaxDepth
                       THEN missed \cup {d} ELSE missed
        /\ UNCHANGED <<protected_dirs, leftover>>
    BY <1>11 DEF InheritProtection
  <2>2. \A x \in Dirs \ {d} : Excepted(x) => Excepted(x)'
    BY <1>6, <2>1 DEF Excepted, Dirs
  <2>3. ASSUME phase # "down", Watched \in Ancestors(parent, d), ~Excepted(d)'
        PROVE  Cardinality(Ancestors(parent, d)) <= MaxDepth + 1 /\ Awaited(d)
    <3>1. state /\ p \notin missed /\ ~Busy(p) /\ ~(Depth(d) > MaxDepth)
      BY <2>1, <2>3 DEF Excepted
    <3>2. p \notin protected_dirs
      BY <1>11, <3>1 DEF Inherits
    <3>3. Awaited(p)
      BY <1>3, <1>5, <2>3, <3>1, <3>2 DEF WatchInv, CoverageInv, Excepted
    <3>4. Awaited(d)
      BY <1>4, <3>3 DEF Awaited
    <3>5. Cardinality(Ancestors(parent, d)) \in Nat /\ d \in Inodes
      BY <1>3, CountUp DEF Dirs
    <3>6. Cardinality(Ancestors(parent, d)) - 1 <= MaxDepth
      BY <1>3, <3>1, <3>5, Terms, WatchlistAssumption
    <3> QED BY <3>4, <3>5, <3>6, WatchlistAssumption
  <2>4. CoverageInv'
    BY <1>1, <1>2, <1>9, <2>2, <2>3 DEF WatchInv, CoverageInv, Dirs
  <2>5. OverreachInv'
    BY <1>2, <2>1 DEF WatchInv, OverreachInv
  <2> QED BY <1>2, <1>7, <1>8, <2>4, <2>5 DEF WatchInv
<1> QED BY <1>10, <1>11

(* The walk starts with the whole tree, down to its limit, ahead of it.    *)
LEMMA BootKeeps ==
  ASSUME WatchInv, NEW active \in BOOLEAN, Boot(active)
  PROVE  WatchInv'
<1>1. /\ phase' = "walk" /\ found' = {<<Watched>>} /\ UNCHANGED fsVars
      /\ missed' = {d \in Subtree(Watched) : Depth(d) > MaxDepth}
      /\ UNCHANGED <<protected_dirs, reading, opened, pending, leftover>>
  BY DEF Boot
<1>2. /\ parent' = parent /\ Dirs' = Dirs /\ TreeInv'
      /\ \A path : Leads(path)' <=> Leads(path)
  BY <1>1, SameTree DEF WatchInv
<1>3. Forest(parent) /\ Watched \in Inodes /\ Watched \in Tops
  BY WatchlistAssumption DEF WatchInv, TreeInv, Tops
<1>4. /\ Len(<<Watched>>) = 1 /\ <<Watched>>[1] = Watched
      /\ <<Watched>> \in Seq(Inodes)
  BY <1>3
<1>5. PendingInv'
  BY <1>1, <1>2 DEF WatchInv, PendingInv
<1>6. PathInv'
  BY <1>1, <1>4 DEF WatchInv, PathInv, Starts
<1>7. Leads(<<Watched>>)
  <2>1. Ancestors(parent, Watched) = {Watched}
    BY <1>3, AtTop
  <2>2. Cardinality({Watched}) = 1
    BY FS_Singleton
  <2>3. Valid(<<Watched>>)
    BY <1>4, ValidIs
  <2> QED BY <1>4, <2>1, <2>2, <2>3 DEF Leads
<1>8. ASSUME NEW d \in Dirs, Watched \in Ancestors(parent, d), ~Excepted(d)'
      PROVE  Cardinality(Ancestors(parent, d)) <= MaxDepth + 1 /\ Awaited(d)'
  <2>1. d \in Inodes /\ d \in Subtree(Watched)
    BY <1>3, <1>8, SubtreeIs DEF Dirs
  <2>2. ~(Depth(d) > MaxDepth)
    BY <1>1, <1>8, <2>1 DEF Excepted
  <2>3. Cardinality(Ancestors(parent, d)) \in Nat
    BY <1>3, <2>1, CountUp
  <2>4. Cardinality(Ancestors(parent, d)) <= MaxDepth + 1
    BY <1>3, <2>1, <2>2, <2>3, Terms, WatchlistAssumption
  <2>5. Awaited(d)'
    BY <1>1, <1>2, <1>4, <1>7, <1>8 DEF Awaited
  <2> QED BY <2>4, <2>5
<1>9. CoverageInv'
  BY <1>1, <1>2, <1>8 DEF CoverageInv
<1>10. OverreachInv'
  BY <1>1, <1>2 DEF WatchInv, OverreachInv
<1> QED BY <1>2, <1>5, <1>6, <1>9, <1>10 DEF WatchInv

(* As far as a path of the walk is still valid it leads down the watched   *)
(* tree.                                                                   *)
LEMMA ValidLeadsUnder ==
  ASSUME Forest(parent), NEW path, Starts(path), NEW n \in 1 .. Len(path),
         \A i \in 2 .. n : parent[path[i]] = path[i - 1]
  PROVE  path[n] \in Inodes /\ Watched \in Ancestors(parent, path[n])
<1> DEFINE odd == {path[i] : i \in {j \in 1 .. n :
                                      Watched \notin Ancestors(parent, path[j])}}
<1>0. parent \in [Inodes -> Inodes \cup {None}]
  BY DEF Forest
<1>1. /\ \A i \in 1 .. n : path[i] \in Inodes
      /\ path[1] = Watched /\ \A i \in 2 .. n : path[i] \notin Tops
  BY DEF Starts
<1>2. odd \in SUBSET Inodes
  BY <1>1
<1>3. ASSUME odd # {}
      PROVE  FALSE
  <2>1. PICK x \in odd : x \in Tops \/ parent[x] \notin odd
    BY <1>2, <1>3 DEF Forest
  <2>2. PICK i \in 1 .. n :
          x = path[i] /\ Watched \notin Ancestors(parent, path[i])
    BY <2>1
  <2>3. i # 1
    BY <1>1, <2>2, ParentClosed
  <2>4. i \in 2 .. n /\ i - 1 \in 1 .. n
    BY <2>2, <2>3
  <2>5. x \notin Tops /\ parent[x] = path[i - 1] /\ x \in Inodes
    BY <1>1, <2>2, <2>4
  <2>6. parent[x] \in Inodes /\ parent[x] # None
    BY <1>1, <2>4, <2>5, WatchlistAssumption
  <2>7. Watched \in Ancestors(parent, path[i - 1])
    BY <2>1, <2>4, <2>5
  <2>8. Watched \in Ancestors(parent, x)
    BY <1>0, <2>5, <2>6, <2>7, AboveTop
  <2> QED BY <2>2, <2>8
<1>4. n \in 1 .. n
  OBVIOUS
<1> QED BY <1>1, <1>3, <1>4

(* While no name before the last is another's, the key is one of the tree. *)
LEMMA KeyIsUnder ==
  ASSUME TreeInv, NEW path, Starts(path), Replaced(path) \subseteq {Len(path)},
         NEW x \in KeyAt(path)
  PROVE  Watched \in Ancestors(parent, x)
<1>1. /\ Len(path) \in Nat \ {0} /\ Forest(parent)
      /\ parent \in [Inodes -> Inodes \cup {None}]
  BY DEF Starts, TreeInv, Forest
<1>2. CASE Valid(path)
  <2>1. x = path[Len(path)] /\ Len(path) \in 1 .. Len(path)
    BY <1>1, <1>2 DEF KeyAt
  <2> QED BY <1>1, <1>2, <2>1, ValidIs, ValidLeadsUnder
<1>3. CASE ~Valid(path)
  <2>1. Replaced(path) = {Len(path)} /\ Len(path) \in 2 .. Len(path)
    BY <1>3 DEF Valid, Replaced
  <2>2. x \in Inodes \ Tops /\ parent[x] = path[Len(path) - 1]
    BY <1>3, <2>1 DEF KeyAt
  <2> DEFINE n == Len(path) - 1
  <2>3. /\ n \in 1 .. Len(path) /\ \A i \in 2 .. n : i \in 2 .. Len(path) /\ i # Len(path)
    BY <1>1, <2>1
  <2>4. \A i \in 2 .. n : parent[path[i]] = path[i - 1]
    BY <2>1, <2>3 DEF Replaced
  <2> HIDE DEF n
  <2>5. path[n] \in Inodes /\ Watched \in Ancestors(parent, path[n])
    BY <1>1, <2>3, <2>4, ValidLeadsUnder
  <2>6. parent[x] = path[n] /\ parent[x] # None
    BY <2>2, <2>5, WatchlistAssumption DEF n
  <2> QED BY <1>1, <2>2, <2>5, <2>6, AboveTop
<1> QED BY <1>2, <1>3

(* A path that is still valid is opened where it leads.                    *)
LEMMA OpenKeeps ==
  ASSUME WatchInv, NEW path \in found, WalkOpen(path)
  PROVE  WatchInv'
<1> DEFINE last == path[Len(path)]
<1>1. /\ found' = found \ {path} /\ UNCHANGED fsVars /\ reading = {}
      /\ UNCHANGED <<phase, protected_dirs, opened, pending, missed, leftover>>
      /\ \/ \E e \in ListedAt(path) : reading' = {<<path, e>>}
         \/ ~(Valid(path) /\ kind[last] = "dir") /\ reading' = reading
  BY DEF WalkOpen
<1>2. /\ parent' = parent /\ Dirs' = Dirs /\ TreeInv'
      /\ \A q : Leads(q)' <=> Leads(q)
  BY <1>1, SameTree DEF WatchInv
<1>3. PendingInv'
  BY <1>1, <1>2 DEF WatchInv, PendingInv
<1>4. PathInv'
  BY <1>1 DEF WatchInv, PathInv, Starts
<1>5. ASSUME NEW x \in Dirs, Awaited(x)
      PROVE  Awaited(x)'
  <2>1. PICK q \in Seq(Inodes) :
          /\ Leads(q) /\ q[Len(q)] \in Ancestors(parent, x)
          /\ q \in found \/ (<<q, q[Len(q)]>> \in opened /\ q[Len(q)] # x)
    BY <1>1, <1>5 DEF Awaited
  <2>2. CASE q # path \/ q \notin found
    BY <1>1, <1>2, <2>1, <2>2 DEF Awaited
  <2>3. CASE q = path
    <3>1. Ancestors(parent, x) \subseteq Dirs
      BY DirsAbove DEF WatchInv
    <3>2. Valid(path) /\ kind[last] = "dir" /\ last \in Dirs
      BY <2>1, <2>3, <3>1 DEF Leads, Dirs
    <3>3. ListedAt(path) = {last}
      BY <3>2 DEF ListedAt
    <3>4. <<path, last>> \in reading'
      BY <1>1, <3>2, <3>3
    <3> QED BY <1>2, <2>1, <2>3, <3>4 DEF Awaited
  <2> QED BY <2>2, <2>3
<1>6. phase # "run"
  BY DEF WatchInv, CoverageInv
<1>7. CoverageInv'
  BY <1>1, <1>2, <1>5, <1>6 DEF WatchInv, CoverageInv, Excepted, Busy
<1>8. OverreachInv'
  BY <1>1, <1>2 DEF WatchInv, OverreachInv
<1> QED BY <1>2, <1>3, <1>4, <1>7, <1>8 DEF WatchInv

LEMMA VisitKeeps ==
  ASSUME WatchInv, NEW path, NEW e, WalkVisit(path, e)
  PROVE  WatchInv'
<1>1. /\ reading = {<<path, e>>} /\ reading' = {}
      /\ opened' = opened \cup {<<path, e>>}
      /\ UNCHANGED fsVars /\ UNCHANGED <<phase, found, pending>>
  BY DEF WalkVisit
<1>2. /\ parent' = parent /\ Dirs' = Dirs /\ TreeInv' /\ Dirs \subseteq Inodes
      /\ \A q : Leads(q)' <=> Leads(q)
  BY <1>1, SameTree DEF WatchInv, Dirs
<1>3. Starts(path) /\ Forest(parent) /\ phase # "run"
  BY <1>1 DEF WatchInv, PathInv, TreeInv, CoverageInv
<1>4. PendingInv'
  BY <1>1, <1>2 DEF WatchInv, PendingInv
<1>5. PathInv'
  BY <1>1, <1>3 DEF WatchInv, PathInv, Starts
<1>6. ASSUME NEW x \in Dirs, Awaited(x),
             ~(Valid(path) /\ e = path[Len(path)] /\ x = e)
      PROVE  Awaited(x)'
  <2>1. PICK q \in Seq(Inodes) :
          /\ Leads(q) /\ q[Len(q)] \in Ancestors(parent, x)
          /\ \/ q \in found \/ (<<q, q[Len(q)]>> \in opened /\ q[Len(q)] # x)
             \/ <<q, q[Len(q)]>> = <<path, e>>
    BY <1>1, <1>6 DEF Awaited
  <2>2. CASE <<q, q[Len(q)]>> = <<path, e>>
    <3>1. q = path /\ e = q[Len(q)] /\ Valid(path) /\ e # x
      BY <1>6, <2>1, <2>2 DEF Leads
    <3> QED BY <1>1, <1>2, <2>1, <3>1 DEF Awaited
  <2>3. CASE <<q, q[Len(q)]>> # <<path, e>>
    BY <1>1, <1>2, <2>1, <2>3 DEF Awaited
  <2> QED BY <2>2, <2>3
<1>7. CASE \E x \in KeyAt(path) :
             /\ Insert(x)
             /\ leftover' = IF Replaced(path) \subseteq {Len(path)} \/ Under(x)
                              THEN leftover ELSE leftover \cup {x}
  <2>1. PICK x \in KeyAt(path) :
             /\ Insert(x)
             /\ leftover' = IF Replaced(path) \subseteq {Len(path)} \/ Under(x)
                              THEN leftover ELSE leftover \cup {x}
    BY <1>7
  <2>2. /\ x \in protected_dirs' /\ protected_dirs' \subseteq protected_dirs \cup {x}
        /\ \A y \in Dirs : y \in protected_dirs \/ y \in missed
                            => y \in protected_dirs' \/ y \in missed'
    BY <2>1, InsertCases
  <2>3. \A y \in Dirs : Excepted(y) => Excepted(y)'
    BY <1>1, <2>2 DEF Excepted, Busy
  <2>4. ASSUME NEW y \in Dirs, Awaited(y), ~Excepted(y)'
        PROVE  Awaited(y)'
    <3>1. Valid(path) => x = path[Len(path)]
      BY <2>1 DEF KeyAt
    <3>2. y # x
      BY <2>2, <2>4 DEF Excepted
    <3> QED BY <1>6, <2>4, <3>1, <3>2
  <2>5. CoverageInv'
    BY <1>1, <1>2, <1>3, <2>3, <2>4 DEF WatchInv, CoverageInv
  <2>6. x \in Dirs => Watched \in Ancestors(parent, x) \/ x \in leftover'
    <3>1. CASE Replaced(path) \subseteq {Len(path)}
      BY <1>3, <2>1, <3>1, KeyIsUnder DEF WatchInv
    <3>2. CASE ~(Replaced(path) \subseteq {Len(path)})
      BY <1>2, <1>3, <2>1, <3>2, Terms
    <3> QED BY <3>1, <3>2
  <2>7. leftover \subseteq leftover'
    BY <2>1
  <2>8. OverreachInv'
    BY <1>2, <2>2, <2>6, <2>7 DEF WatchInv, OverreachInv
  <2> QED BY <1>2, <1>4, <1>5, <2>5, <2>8 DEF WatchInv
<1>8. CASE ~Valid(path) /\ UNCHANGED <<protected_dirs, missed, leftover>>
  <2>1. CoverageInv'
    BY <1>1, <1>2, <1>3, <1>6, <1>8 DEF WatchInv, CoverageInv, Excepted, Busy
  <2>2. OverreachInv'
    BY <1>2, <1>8 DEF WatchInv, OverreachInv
  <2> QED BY <1>2, <1>4, <1>5, <2>1, <2>2 DEF WatchInv
<1> QED BY <1>7, <1>8 DEF WalkVisit

(* Listing a directory finds the next one on the way to each that waits.   *)
LEMMA ListKeeps ==
  ASSUME WatchInv, NEW path, NEW e, WalkList(path, e)
  PROVE  WatchInv'
<1> DEFINE depth == Len(path) - 1
<1>1. /\ opened = {<<path, e>>} /\ opened' = {} /\ UNCHANGED fsVars
      /\ found' = found \cup {Append(path, y) : y \in Listed(e, depth)}
      /\ UNCHANGED <<phase, protected_dirs, reading, pending, missed, leftover>>
  BY DEF WalkList, WalkListWith
<1>2. /\ parent' = parent /\ Dirs' = Dirs /\ TreeInv'
      /\ \A q : Leads(q)' <=> Leads(q)
  BY <1>1, SameTree DEF WatchInv
<1>3. /\ path \in Seq(Inodes) /\ Len(path) > 0 /\ path[1] = Watched
      /\ \A i \in 2 .. Len(path) : path[i] \notin Tops
      /\ Forest(parent) /\ Dirs \subseteq Inodes
      /\ parent \in [Inodes -> Inodes \cup {None}]
  BY <1>1 DEF WatchInv, PathInv, Starts, TreeInv, Forest, Dirs
<1>4. ASSUME NEW y \in Inodes
      PROVE  /\ Append(path, y) \in Seq(Inodes)
             /\ Len(Append(path, y)) = Len(path) + 1
             /\ Append(path, y)[Len(path) + 1] = y
             /\ \A i \in 1 .. Len(path) : Append(path, y)[i] = path[i]
  BY <1>3
<1>5. PathInv'
  <2> SUFFICES ASSUME NEW y \in Dirs \ Tops
               PROVE  Starts(Append(path, y))
    BY <1>1 DEF WatchInv, PathInv, Starts, Listed
  <2>1. y \in Inodes /\ Len(path) \in Nat
    BY <1>3
  <2>2. \A i \in 2 .. Len(path) + 1 :
          i = Len(path) + 1 \/ (i \in 2 .. Len(path) /\ i \in 1 .. Len(path))
    BY <2>1
  <2> QED BY <1>3, <1>4, <2>1, <2>2 DEF Starts
<1>6. PendingInv'
  BY <1>1, <1>2 DEF WatchInv, PendingInv
<1>7. ASSUME NEW x \in Dirs, Cardinality(Ancestors(parent, x)) <= MaxDepth + 1,
             Leads(path), e = path[Len(path)], e \in Ancestors(parent, x) \ {x}
      PROVE  \E q \in found' \cap Seq(Inodes) : Leads(q) /\ q[Len(q)] \in Ancestors(parent, x)
  <2>1. PICK y \in Ancestors(parent, x) : y \notin Tops /\ parent[y] = e
    BY <1>3, <1>7, Below
  <2>2. y \in Dirs /\ y \in Inodes /\ e \in Inodes /\ e # None
    BY <1>3, <1>7, DirsAbove, WatchlistAssumption DEF WatchInv
  <2>3. /\ Cardinality(Ancestors(parent, y)) = Cardinality(Ancestors(parent, e)) + 1
        /\ Cardinality(Ancestors(parent, e)) \in Nat
    BY <1>3, <2>1, <2>2, CountUp
  <2>4. Len(path) = Cardinality(Ancestors(parent, e)) /\ e \in Inodes
    BY <1>3, <1>7 DEF Leads
  <2>5. Cardinality(Ancestors(parent, e)) < Cardinality(Ancestors(parent, x))
    BY <1>3, <1>7, CountStrict
  <2>6. Cardinality(Ancestors(parent, x)) \in Nat
    BY <1>3, CountUp
  <2>7. depth < MaxDepth
    BY <1>3, <1>7, <2>3, <2>4, <2>5, <2>6, WatchlistAssumption
  <2> DEFINE q == Append(path, y)
  <2>8. q \in found' /\ q \in Seq(Inodes)
    BY <1>1, <1>4, <2>1, <2>2, <2>7 DEF Listed
  <2>9. /\ Len(q) = Len(path) + 1 /\ q[Len(q)] = y /\ Len(path) \in Nat \ {0}
        /\ \A i \in 1 .. Len(path) : q[i] = path[i]
    BY <1>3, <1>4, <2>2
  <2> HIDE DEF q
  <2>10. Valid(q)
    <3> SUFFICES ASSUME NEW i \in 2 .. Len(path) + 1
                 PROVE  parent[q[i]] = q[i - 1]
      BY <2>9, ValidIs
    <3>1. CASE i \in 2 .. Len(path)
      <4>1. i \in 1 .. Len(path) /\ i - 1 \in 1 .. Len(path)
        BY <2>9, <3>1
      <4>2. parent[path[i]] = path[i - 1]
        BY <1>7, <3>1, ValidIs DEF Leads
      <4> QED BY <2>9, <4>1, <4>2
    <3>2. CASE i = Len(path) + 1
      <4>1. q[i] = y /\ i - 1 = Len(path) /\ Len(path) \in 1 .. Len(path)
        BY <2>9, <3>2
      <4> QED BY <1>7, <2>1, <2>9, <4>1
    <3> QED BY <2>9, <3>1, <3>2
  <2>11. /\ Ancestors(parent, e) \subseteq Ancestors(parent, y)
         /\ y \in Ancestors(parent, y)
    BY <1>3, <2>1, <2>2, AboveTop, ParentClosed
  <2>12. \A i \in 1 .. Len(q) : q[i] \in Ancestors(parent, y)
    <3>1. \A i \in 1 .. Len(path) : path[i] \in Ancestors(parent, e)
      BY <1>7 DEF Leads
    <3>2. \A i \in 1 .. Len(q) : i = Len(q) \/ i \in 1 .. Len(path)
      BY <2>9
    <3> QED BY <2>9, <2>11, <3>1, <3>2
  <2>13. Leads(q)
    BY <2>3, <2>4, <2>9, <2>10, <2>12 DEF Leads
  <2> QED BY <2>1, <2>8, <2>9, <2>13
<1>8. ASSUME NEW x \in Dirs, Awaited(x),
             Cardinality(Ancestors(parent, x)) <= MaxDepth + 1
      PROVE  Awaited(x)'
  <2>1. CASE Leads(path) /\ e = path[Len(path)] /\ e \in Ancestors(parent, x) \ {x}
    BY <1>2, <1>7, <1>8, <2>1 DEF Awaited
  <2>2. CASE ~(Leads(path) /\ e = path[Len(path)] /\ e \in Ancestors(parent, x) \ {x})
    <3>1. PICK q \in Seq(Inodes) :
            /\ Leads(q) /\ q[Len(q)] \in Ancestors(parent, x)
            /\ \/ q \in found \/ <<q, q[Len(q)]>> \in reading
               \/ <<q, q[Len(q)]>> = <<path, e>> /\ q[Len(q)] # x
      BY <1>1, <1>8 DEF Awaited
    <3>2. <<q, q[Len(q)]>> = <<path, e>> => q = path /\ q[Len(q)] = e
      OBVIOUS
    <3>3. q \in found \/ <<q, q[Len(q)]>> \in reading
      BY <2>2, <3>1, <3>2
    <3> QED BY <1>1, <1>2, <3>1, <3>3 DEF Awaited
  <2> QED BY <2>1, <2>2
<1>9. phase # "run"
  BY <1>1 DEF WatchInv, CoverageInv
<1>10. CoverageInv'
  BY <1>1, <1>2, <1>8, <1>9 DEF WatchInv, CoverageInv, Excepted, Busy
<1>11. OverreachInv'
  BY <1>1, <1>2 DEF WatchInv, OverreachInv
<1> QED BY <1>2, <1>5, <1>6, <1>10, <1>11 DEF WatchInv

LEMMA PhaseKeeps ==
  ASSUME WatchInv,
         WalkDone \/ (\E active \in BOOLEAN : SetModuleState(active))
           \/ UNCHANGED vars
  PROVE  WatchInv'
<1>1. /\ UNCHANGED fsVars
      /\ UNCHANGED <<protected_dirs, found, reading, opened, pending, missed, leftover>>
      /\ \/ phase' = phase
         \/ /\ phase = "walk" /\ phase' = "run"
            /\ found = {} /\ reading = {} /\ opened = {}
  BY DEF WalkDone, SetModuleState, vars, walkVars
<1>2. /\ parent' = parent /\ Dirs' = Dirs /\ TreeInv'
      /\ \A q : Leads(q)' <=> Leads(q)
  BY <1>1, SameTree DEF WatchInv
<1>3. PendingInv' /\ PathInv' /\ OverreachInv'
  BY <1>1, <1>2 DEF WatchInv, PendingInv, PathInv, OverreachInv
<1>4. CoverageInv'
  BY <1>1, <1>2 DEF WatchInv, CoverageInv, Excepted, Busy, Awaited
<1> QED BY <1>2, <1>3, <1>4 DEF WatchInv

LEMMA WatchInit ==
  ASSUME Init
  PROVE  WatchInv
<1>1. /\ kind = [i \in Inodes |-> IF i \in Tops THEN "dir" ELSE "free"]
      /\ parent = [i \in Inodes |-> IF i \in Tops THEN i ELSE None]
      /\ phase = "down" /\ protected_dirs = {}
      /\ found = {} /\ reading = {} /\ opened = {} /\ pending = {}
  BY DEF Init
<1>2. Forest(parent)
  BY <1>1, WatchlistAssumption DEF Forest
<1>3. TreeInv
  BY <1>1, <1>2, WatchlistAssumption DEF TreeInv
<1>4. PendingInv /\ PathInv /\ CoverageInv /\ OverreachInv
  BY <1>1 DEF PendingInv, PathInv, CoverageInv, OverreachInv
<1> QED BY <1>3, <1>4 DEF WatchInv

LEMMA WatchStep ==
  ASSUME WatchInv, [Next]_vars
  PROVE  WatchInv'
BY MkdirKeeps, RenameKeeps, InheritKeeps, RenameFileKeeps, RemoveKeeps,
   BootKeeps, OpenKeeps, VisitKeeps, ListKeeps, PhaseKeeps DEF Next

LEMMA WatchExplains ==
  ASSUME WatchInv
  PROVE  CoverageExplained /\ OverreachExplained
<1>1. Forest(parent) /\ Dirs \subseteq Inodes
  BY DEF WatchInv, TreeInv, Dirs
<1>2. CoverageExplained
  BY <1>1, Terms
  DEF WatchInv, CoverageInv, Awaited, Excepted, CoverageExplained
<1>3. OverreachExplained
  BY <1>1, Terms DEF WatchInv, OverreachInv, OverreachExplained
<1> QED BY <1>2, <1>3

(* WatchInv is inductive, and what is executed does not touch it.          *)
THEOREM WatchInvariant == ExecSpec => []WatchInv
<1>1. ExecInit => WatchInv
  BY WatchInit DEF ExecInit
<1>2. WatchInv /\ [ExecNext]_execVars => WatchInv'
  <2> SUFFICES ASSUME WatchInv, [ExecNext]_execVars PROVE WatchInv'
    OBVIOUS
  <2>1. [Next]_vars
    BY DEF ExecNext, execVars, Exec, ExecNameless, Executed
  <2> QED BY <2>1, WatchStep
<1> QED BY <1>1, <1>2, PTL DEF ExecSpec

(* For any tree, depth limit and capacity: once the boot-time walk is done *)
(* every directory of the watched tree is in protected_dirs, was missed    *)
(* for one of the recorded causes, or has an exit hook about to run.       *)
THEOREM WalkAndHooksLeaveNoGap == ExecSpec => []CoverageExplained
<1>1. WatchInv => CoverageExplained
  BY WatchExplains
<1> QED BY <1>1, WatchInvariant, PTL

(* Likewise, a directory in protected_dirs is below the watched one unless *)
(* it was moved out, reuses a number, was reached by the walk where a name *)
(* before the last one of its path had become another's, or was created    *)
(* below such a one.                                                       *)
THEOREM NothingElseIndexed == ExecSpec => []OverreachExplained
<1>1. WatchInv => OverreachExplained
  BY WatchExplains
<1> QED BY <1>1, WatchInvariant, PTL

(* bprm_check_security, which reads the map at any moment, lets a file of  *)
(* the watched tree run only from a directory that is so explained.        *)
THEOREM ExecutionsExplained == ExecSpec => RunsExplained
<1> DEFINE Run == ran' \in Inodes /\ ran' # ran /\ state /\ phase = "run"
                    /\ Under(parent[ran']) =>
                      parent[ran'] \in missed \/ Busy(parent[ran'])
<1>1. WatchInv /\ [ExecNext]_execVars => [Run]_execVars
  <2> SUFFICES ASSUME WatchInv, ExecNext, ran' \in Inodes, ran' # ran, state,
                      phase = "run", Under(parent[ran'])
               PROVE  parent[ran'] \in missed \/ Busy(parent[ran'])
    OBVIOUS
  <2>1. Exec(ran') /\ None \notin Inodes
    BY ExecAssumption, WatchlistAssumption
    DEF ExecNext, Exec, ExecNameless, Executed
  <2>2. kind[ran'] = "file" /\ parent[ran'] \notin protected_dirs
    BY <2>1 DEF Exec, Blocked
  <2>3. parent[ran'] \in Dirs
    BY <2>2 DEF WatchInv, TreeInv
  <2>4. CoverageExplained
    BY WatchExplains
  <2> QED BY <2>2, <2>3, <2>4 DEF CoverageExplained
<1> QED BY <1>1, WatchInvariant, PTL DEF ExecSpec, RunsExplained
=============================================================================
