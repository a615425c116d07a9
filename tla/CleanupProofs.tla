---------------------------- MODULE CleanupProofs ----------------------------
(***************************************************************************)
(* The quota that the .bin and .tlog writers share with the cleanup child, *)
(* for any files, sizes and limits.                                        *)
(*                                                                         *)
(* The quota is about sums over a directory that several processes change. *)
(* Sums are reasoned about by a least counterexample: of the sets of files *)
(* for which a fact fails, one has the fewest files.  The inductive        *)
(* invariant says that a pass never counts less than it may still unlink,  *)
(* and that the .bin writer knows what the other files take up to what the *)
(* .tlog grew since it looked.                                             *)
(***************************************************************************)
EXTENDS Cleanup, FiniteSetTheorems, WellFoundedInduction, TLAPS

(* Every set of naturals that is not empty has a least element. *)
LEMMA LeastNat ==
    ASSUME NEW T, T \subseteq Nat, T # {}
    PROVE  \E m \in T : \A k \in T : m <= k
  <1> DEFINE R == {p \in Nat \X Nat : p[1] < p[2]}
  <1>1. IsWellFoundedOn(R, Nat)
    BY NatLessThanWellFounded DEF OpToRel
  <1>2. PICK m \in T : \A k \in T : ~(<<k, m>> \in R)
    <2> HIDE DEF R
    <2> QED BY <1>1, WFMin
  <1>3. ASSUME NEW k \in T PROVE m <= k
    <2>1. ~(k < m)
      BY <1>2
    <2> QED BY <2>1
  <1> QED BY <1>3

(* The least size among subsets of a finite set that have a property. *)
LEMMA LeastSubset ==
    ASSUME NEW S, IsFiniteSet(S), NEW B \in SUBSET SUBSET S, B # {}
    PROVE  \E s \in B : \A t \in B : Cardinality(s) <= Cardinality(t)
  <1> DEFINE T == {n \in Nat : \E s \in B : Cardinality(s) = n}
  <1>1. \A s \in B : Cardinality(s) \in Nat
    BY FS_Subset, FS_CardinalityType
  <1>2. T # {} /\ T \subseteq Nat
    BY <1>1
  <1>3. PICK m \in T : \A k \in T : m <= k
    <2> HIDE DEF T
    <2> QED BY <1>2, LeastNat
  <1>4. PICK s \in B : Cardinality(s) = m
    BY <1>3
  <1> QED BY <1>1, <1>3, <1>4

First(s) == CHOOSE x \in s : TRUE

(* one step of the sum that Allocated is, with g the sums of smaller sets *)
Added(d, g, s) == IF s = {} THEN 0 ELSE d[First(s)].size + g[s \ {First(s)}]

(* g is the sum of the sizes in d, for every subset of S *)
Sums(d, S, g) ==
    /\ g \in [SUBSET S -> Nat]
    /\ \A s \in SUBSET S : g[s] = Added(d, g, s)

(* What is left when the first element is taken is smaller. *)
LEMMA FirstTaken ==
    ASSUME NEW S, IsFiniteSet(S), NEW s \in SUBSET S, s # {}
    PROVE  /\ First(s) \in s /\ s \ {First(s)} \in SUBSET S
           /\ Cardinality(s) \in Nat /\ Cardinality(s \ {First(s)}) \in Nat
           /\ Cardinality(s \ {First(s)}) = Cardinality(s) - 1
  <1>1. First(s) \in s
    BY DEF First
  <1>2. IsFiniteSet(s)
    BY FS_Subset
  <1>3. Cardinality(s \ {First(s)}) = Cardinality(s) - 1 /\ IsFiniteSet(s \ {First(s)})
    BY <1>1, <1>2, FS_RemoveElement
  <1> QED BY <1>1, <1>2, <1>3, FS_CardinalityType

(* The recursion of MapThenSumSet has a solution. *)
LEMMA SumsExist ==
    ASSUME NEW S, IsFiniteSet(S), NEW d, \A x \in S : d[x].size \in Nat
    PROVE  \E g : Sums(d, S, g)
  <1> DEFINE Upto(n, g) ==
               \A s \in SUBSET S : Cardinality(s) <= n => g[s] = Added(d, g, s)
             T == {n \in Nat : ~ \E g \in [SUBSET S -> Nat] : Upto(n, g)}
  <1>1. \A s \in SUBSET S : Cardinality(s) \in Nat /\ (Cardinality(s) = 0 <=> s = {})
    BY FS_Subset, FS_CardinalityType, FS_EmptySet
  <1>2. T = {}
    <2> SUFFICES ASSUME T # {} PROVE FALSE
      OBVIOUS
    <2>1. PICK m \in T : \A k \in T : m <= k
      <3>1. T \subseteq Nat
        OBVIOUS
      <3> HIDE DEF T
      <3> QED BY <3>1, LeastNat
    <2>2. m \in Nat /\ ~ \E g \in [SUBSET S -> Nat] : Upto(m, g)
      OBVIOUS
    <2>3. m # 0
      <3> DEFINE z == [s \in SUBSET S |-> 0]
      <3>1. z \in [SUBSET S -> Nat]
        OBVIOUS
      <3>2. Upto(0, z)
        <4> SUFFICES ASSUME NEW s \in SUBSET S, Cardinality(s) <= 0
                     PROVE  z[s] = Added(d, z, s)
          OBVIOUS
        <4>1. s = {}
          BY <1>1
        <4> QED BY <4>1 DEF Added
      <3> HIDE DEF Upto, z
      <3> QED BY <2>2, <3>1, <3>2
    <2>4. m - 1 \in Nat /\ m - 1 \notin T
      <3> HIDE DEF T
      <3> QED BY <2>1, <2>2, <2>3
    <2>5. PICK g \in [SUBSET S -> Nat] : Upto(m - 1, g)
      BY <2>4
    <2> DEFINE h == [s \in SUBSET S |-> Added(d, g, s)]
    <2>6. h \in [SUBSET S -> Nat]
      <3> SUFFICES ASSUME NEW s \in SUBSET S PROVE Added(d, g, s) \in Nat
        OBVIOUS
      <3>1. CASE s = {}
        BY <3>1 DEF Added
      <3>2. CASE s # {}
        <4>1. First(s) \in s /\ s \ {First(s)} \in SUBSET S
          BY <3>2, FirstTaken
        <4>2. g[s \ {First(s)}] \in Nat /\ d[First(s)].size \in Nat
          BY <4>1
        <4> QED BY <3>2, <4>2 DEF Added
      <3> QED BY <3>1, <3>2
    <2>7. Upto(m, h)
      <3> SUFFICES ASSUME NEW s \in SUBSET S, Cardinality(s) <= m
                   PROVE  h[s] = Added(d, h, s)
        OBVIOUS
      <3>1. h[s] = Added(d, g, s)
        OBVIOUS
      <3>2. CASE s = {}
        BY <3>1, <3>2 DEF Added
      <3>3. CASE s # {}
        <4> DEFINE t == s \ {First(s)}
        <4>1. t \in SUBSET S /\ Cardinality(t) <= m - 1
          BY <2>2, <3>3, FirstTaken
        <4>2. h[t] = Added(d, g, t)
          BY <4>1
        <4>3. g[t] = Added(d, g, t)
          <5> HIDE DEF t
          <5> QED BY <2>5, <4>1
        <4> HIDE DEF h
        <4> QED BY <3>1, <3>3, <4>2, <4>3 DEF Added
      <3> QED BY <3>2, <3>3
    <2> HIDE DEF h, Upto
    <2> QED BY <2>2, <2>6, <2>7
  <1>3. Cardinality(S) \in Nat
    BY FS_CardinalityType
  <1>4. PICK g \in [SUBSET S -> Nat] : Upto(Cardinality(S), g)
    <2> HIDE DEF Upto
    <2> QED BY <1>2, <1>3
  <1>5. \A s \in SUBSET S : Cardinality(s) <= Cardinality(S)
    BY FS_Subset
  <1> QED BY <1>4, <1>5 DEF Sums

(* Whatever solves the recursion on part of S agrees with it there. *)
LEMMA SumsUnique ==
    ASSUME NEW S, IsFiniteSet(S), NEW d, NEW g, Sums(d, S, g),
           NEW R \in SUBSET S, NEW f,
           \A s \in SUBSET R : f[s] = Added(d, f, s)
    PROVE  f[R] = g[R]
  <1> DEFINE B == {s \in SUBSET R : f[s] # g[s]}
  <1>1. IsFiniteSet(R)
    BY FS_Subset
  <1>2. B = {}
    <2> SUFFICES ASSUME B # {} PROVE FALSE
      OBVIOUS
    <2>1. PICK s \in B : \A t \in B : Cardinality(s) <= Cardinality(t)
      <3>1. B \in SUBSET SUBSET R
        OBVIOUS
      <3> HIDE DEF B
      <3> QED BY <1>1, <3>1, LeastSubset
    <2>2. s \in SUBSET R /\ f[s] # g[s] /\ s \in SUBSET S
      OBVIOUS
    <2>3. f[s] = Added(d, f, s) /\ g[s] = Added(d, g, s)
      BY <2>2 DEF Sums
    <2>4. s # {}
      BY <2>2, <2>3 DEF Added
    <2> DEFINE t == s \ {First(s)}
    <2>5. t \in SUBSET R /\ ~(Cardinality(s) <= Cardinality(t))
      BY <1>1, <2>2, <2>4, FirstTaken
    <2>6. t \notin B
      <3> HIDE DEF B, t
      <3> QED BY <2>1, <2>5
    <2>7. f[t] = g[t]
      <3> HIDE DEF t
      <3> QED BY <2>5, <2>6
    <2> QED BY <2>2, <2>3, <2>4, <2>7 DEF Added
  <1> QED BY <1>2

(* The order in which the elements are taken does not matter. *)
LEMMA SumsRemove ==
    ASSUME NEW S, IsFiniteSet(S), NEW d, \A x \in S : d[x].size \in Nat,
           NEW g, Sums(d, S, g)
    PROVE  \A s \in SUBSET S : \A x \in s : g[s] = d[x].size + g[s \ {x}]
  <1> DEFINE Good(s) == \A x \in s : g[s] = d[x].size + g[s \ {x}]
             B == {s \in SUBSET S : ~Good(s)}
  <1>1. B = {}
    <2> SUFFICES ASSUME B # {} PROVE FALSE
      OBVIOUS
    <2>1. PICK s \in B : \A t \in B : Cardinality(s) <= Cardinality(t)
      <3>1. B \in SUBSET SUBSET S
        OBVIOUS
      <3> HIDE DEF B
      <3> QED BY <3>1, LeastSubset
    <2>2. s \in SUBSET S /\ ~Good(s)
      OBVIOUS
    <2>3. PICK x \in s : g[s] # d[x].size + g[s \ {x}]
      BY <2>2
    <2> DEFINE c == First(s)
               t == s \ {c}
               u == s \ {x}
               v == s \ {x, c}
    <2>4. c \in s /\ IsFiniteSet(s)
      BY <2>2, <2>3, FirstTaken, FS_Subset
    <2>5. g[s] = d[c].size + g[t]
      BY <2>2, <2>3 DEF Sums, Added
    <2>6. x # c
      BY <2>3, <2>5
    <2>7. /\ t \in SUBSET S /\ u \in SUBSET S /\ v \in SUBSET S
          /\ x \in t /\ c \in u /\ t \ {x} = v /\ u \ {c} = v
      BY <2>2, <2>4, <2>6
    <2>8. ~(Cardinality(s) <= Cardinality(t)) /\ ~(Cardinality(s) <= Cardinality(u))
      <3>1. ASSUME NEW y \in s PROVE ~(Cardinality(s) <= Cardinality(s \ {y}))
        <4>1. Cardinality(s \ {y}) = Cardinality(s) - 1
          BY <2>4, <3>1, FS_RemoveElement
        <4>2. Cardinality(s) \in Nat
          BY <2>4, FS_CardinalityType
        <4> QED BY <4>1, <4>2
      <3> QED BY <2>4, <3>1
    <2> HIDE DEF t, u, v, c
    <2>9. Good(t) /\ Good(u)
      <3> HIDE DEF Good
      <3>1. t \notin B /\ u \notin B
        <4> HIDE DEF B
        <4> QED BY <2>1, <2>8
      <3> QED BY <2>7, <3>1
    <2>10. g[t] = d[x].size + g[v] /\ g[u] = d[c].size + g[v]
      BY <2>7, <2>9
    <2>11. /\ d[x].size \in Nat /\ d[c].size \in Nat /\ g[v] \in Nat
      BY <2>2, <2>4, <2>7 DEF Sums
    <2>12. g[s] = d[x].size + g[u]
      BY <2>5, <2>10, <2>11
    <2> QED BY <2>3, <2>12 DEF u
  <1> QED BY <1>1

(* a directory whose files have sizes *)
Sized(d) == \A f \in Present(d) : d[f].size \in Nat

(* Allocated of any files is what the sums over the directory say. *)
LEMMA AllocatedIs ==
    ASSUME NEW d, Sized(d)
    PROVE  \E g : /\ Sums(d, Present(d), g)
                  /\ \A ids : Allocated(d, ids) = g[ids \cap Present(d)]
  <1> DEFINE P == Present(d)
  <1>1. IsFiniteSet(P)
    BY CleanupAssumption, FS_Subset DEF Present
  <1>2. \A x \in P : d[x].size \in Nat
    BY DEF Sized
  <1> HIDE DEF P
  <1>3. PICK g : Sums(d, P, g)
    BY <1>1, <1>2, SumsExist
  <1>4. ASSUME NEW ids PROVE Allocated(d, ids) = g[ids \cap P]
    <2> DEFINE R == ids \cap P
               Solves(f) == f = [s \in SUBSET R |-> Added(d, f, s)]
               f == CHOOSE x : Solves(x)
    <2>1. R \in SUBSET P /\ IsFiniteSet(R)
      BY <1>1, FS_Subset
    <2>2. Allocated(d, ids) = f[R]
      BY DEF Allocated, MapThenSumSet, MapThenFoldSet, Added, First, P
    <2>3. PICK h : Sums(d, R, h)
      <3>1. \A x \in R : d[x].size \in Nat
        BY <1>2
      <3> HIDE DEF R
      <3> QED BY <2>1, <3>1, SumsExist
    <2>4. Solves(h)
      <3> HIDE DEF R
      <3> QED BY <2>3 DEF Sums
    <2>5. Solves(f)
      <3> HIDE DEF Solves
      <3> QED BY <2>4
    <2>6. \A s \in SUBSET R : f[s] = Added(d, f, s)
      <3> HIDE DEF f, R
      <3> QED BY <2>5
    <2> HIDE DEF f, R, Solves
    <2>7. f[R] = g[R]
      BY <1>1, <1>3, <2>1, <2>6, SumsUnique
    <2> QED BY <2>2, <2>7 DEF R
  <1> QED BY <1>3, <1>4 DEF P

(* The blocks of no file, of one file more, and their type. *)
LEMMA AllocatedFacts ==
    ASSUME NEW d, Sized(d), NEW ids
    PROVE  /\ Allocated(d, ids) \in Nat
           /\ ids = {} => Allocated(d, ids) = 0
           /\ \A f \in ids \cap Present(d) :
                 Allocated(d, ids) = d[f].size + Allocated(d, ids \ {f})
           /\ \A f : f \notin Present(d) =>
                 Allocated(d, ids) = Allocated(d, ids \ {f})
  <1>1. PICK g : /\ Sums(d, Present(d), g)
                 /\ \A i : Allocated(d, i) = g[i \cap Present(d)]
    BY AllocatedIs
  <1>2. IsFiniteSet(Present(d))
    BY CleanupAssumption, FS_Subset DEF Present
  <1>3. Allocated(d, ids) \in Nat
    <2>1. ids \cap Present(d) \in SUBSET Present(d)
      OBVIOUS
    <2>2. g \in [SUBSET Present(d) -> Nat]
      BY <1>1 DEF Sums
    <2>3. g[ids \cap Present(d)] \in Nat
      BY <2>1, <2>2
    <2> QED BY <1>1, <2>3
  <1>4. ASSUME ids = {} PROVE Allocated(d, ids) = 0
    <2>1. ids \cap Present(d) = {} /\ {} \in SUBSET Present(d)
      BY <1>4
    <2>2. g[{}] = 0
      BY <1>1, <2>1 DEF Sums, Added
    <2> QED BY <1>1, <2>1, <2>2
  <1>5. ASSUME NEW f \in ids \cap Present(d)
        PROVE  Allocated(d, ids) = d[f].size + Allocated(d, ids \ {f})
    <2> DEFINE s == ids \cap Present(d)
    <2>1. s \in SUBSET Present(d) /\ f \in s /\ (ids \ {f}) \cap Present(d) = s \ {f}
      OBVIOUS
    <2>2. g[s] = d[f].size + g[s \ {f}]
      <3> HIDE DEF s
      <3> QED BY <1>1, <1>2, <2>1, SumsRemove DEF Sized
    <2> QED BY <1>1, <2>1, <2>2
  <1>6. ASSUME NEW f, f \notin Present(d)
        PROVE  Allocated(d, ids) = Allocated(d, ids \ {f})
    <2>1. ids \cap Present(d) = (ids \ {f}) \cap Present(d)
      BY <1>6
    <2> QED BY <1>1, <2>1
  <1> QED BY <1>3, <1>4, <1>5, <1>6

(* a file of e is a file of d that is at least as large *)
Within(e, d, ids) ==
    \A f \in ids \cap Present(e) : f \in Present(d) /\ e[f].size <= d[f].size

(* A directory with fewer and smaller files takes fewer blocks. *)
LEMMA AllocatedMono ==
    ASSUME NEW d, Sized(d), NEW e, Sized(e), NEW ids \in SUBSET Ids, Within(e, d, ids)
    PROVE  Allocated(e, ids) <= Allocated(d, ids)
  <1> DEFINE B == {s \in SUBSET ids : ~(Allocated(e, s) <= Allocated(d, s))}
  <1>1. IsFiniteSet(ids)
    BY CleanupAssumption, FS_Subset
  <1>2. B = {}
    <2> SUFFICES ASSUME B # {} PROVE FALSE
      OBVIOUS
    <2>1. PICK s \in B : \A t \in B : Cardinality(s) <= Cardinality(t)
      <3>1. B \in SUBSET SUBSET ids
        OBVIOUS
      <3> HIDE DEF B
      <3> QED BY <1>1, <3>1, LeastSubset
    <2>2. s \in SUBSET ids /\ ~(Allocated(e, s) <= Allocated(d, s))
      OBVIOUS
    <2>3. s # {}
      BY <2>2, AllocatedFacts
    <2> DEFINE f == First(s)
               t == s \ {f}
    <2>4. f \in s /\ t \in SUBSET ids /\ ~(Cardinality(s) <= Cardinality(t))
      <3>1. IsFiniteSet(s)
        BY <1>1, <2>2, FS_Subset
      <3> HIDE DEF B
      <3>2. /\ First(s) \in s
            /\ s \ {First(s)} \in SUBSET s
            /\ ~(Cardinality(s) <= Cardinality(s \ {First(s)}))
        BY <2>3, <3>1, FirstTaken
      <3> QED BY <2>2, <3>2
    <2> HIDE DEF f, t
    <2>5. Allocated(e, t) <= Allocated(d, t)
      <3>1. t \notin B
        <4> HIDE DEF B
        <4> QED BY <2>1, <2>4
      <3> QED BY <2>4, <3>1
    <2>6. /\ Allocated(e, s) \in Nat /\ Allocated(e, t) \in Nat
          /\ Allocated(d, s) \in Nat /\ Allocated(d, t) \in Nat
      BY AllocatedFacts
    <2>7. CASE f \in Present(e)
      <3>1. f \in Present(d) /\ e[f].size <= d[f].size
        BY <2>2, <2>4, <2>7 DEF Within
      <3>2. Allocated(e, s) = e[f].size + Allocated(e, t)
        BY <2>4, <2>7, AllocatedFacts DEF t
      <3>3. Allocated(d, s) = d[f].size + Allocated(d, t)
        BY <2>4, <3>1, AllocatedFacts DEF t
      <3>4. e[f].size \in Nat /\ d[f].size \in Nat
        BY <2>7, <3>1 DEF Sized
      <3> QED BY <2>2, <2>5, <2>6, <3>1, <3>2, <3>3, <3>4
    <2>8. CASE f \notin Present(e)
      <3>1. Allocated(e, s) = Allocated(e, t)
        BY <2>8, AllocatedFacts DEF t
      <3>2. Allocated(d, t) <= Allocated(d, s)
        <4>1. CASE f \in Present(d)
          <5>1. Allocated(d, s) = d[f].size + Allocated(d, t)
            BY <2>4, <4>1, AllocatedFacts DEF t
          <5>2. d[f].size \in Nat
            BY <4>1 DEF Sized
          <5> QED BY <2>6, <5>1, <5>2
        <4>2. CASE f \notin Present(d)
          <5>1. Allocated(d, s) = Allocated(d, t)
            BY <4>2, AllocatedFacts DEF t
          <5> QED BY <2>6, <5>1
        <4> QED BY <4>1, <4>2
      <3> QED BY <2>2, <2>5, <2>6, <3>1, <3>2
    <2> QED BY <2>7, <2>8
  <1> QED BY <1>2
(* the candidates of a pass, as a directory *)
Listed(todo) ==
    [f \in Ids |-> IF \E i \in todo : i.id = f THEN CHOOSE i \in todo : i.id = f
                   ELSE None]

(* A pass under way: its total covers what it may still unlink, so that    *)
(* what it takes off never goes below zero.                                *)
GoodPass(p, m) ==
    /\ p \in [total : Nat, todo : SUBSET [id : Ids, size : Sizes, age : 0 .. m]]
    /\ \A i, j \in p.todo : i.id = j.id => i = j
    /\ Allocated(Listed(p.todo), Ids) <= p.total

(* the directory d, no file of it older than m *)
GoodDir(d, m) == d \in [Ids -> [size : Sizes, age : 0 .. m] \cup {None}]

(* The writer b beside the .tlog t: what the other files take is what it   *)
(* believes and at most u more.                                            *)
GoodBin(d, b, t, u) ==
    /\ b \in [id : Ids, size : Sizes, other : Nat, writes : 0 .. REFRESH - 1]
    /\ d[b.id] # None => b.size = d[b.id].size
    /\ b.id # t
    /\ Allocated(d, Ids \ {b.id}) <= b.other + u

CleanupInv ==
    /\ retention \in RETENTION /\ GoodDir(file, MaxAge)
    /\ tlog \in Ids \cup {None}
    /\ refused \in BOOLEAN /\ unseen \in Nat
    /\ bin # None => GoodBin(file, bin, tlog, unseen)
    /\ pass = [r \in Runners |-> pass[r]]
    /\ \A r \in Runners : pass[r] # None => GoodPass(pass[r], MaxAge)
    /\ pass["writer"] # None => bin # None

(* The files of a directory have sizes. *)
LEMMA DirSized ==
    ASSUME NEW d, NEW m, GoodDir(d, m)
    PROVE  Sized(d)
  BY CleanupAssumption DEF GoodDir, Sized, Present, Sizes

(* The ages of files are naturals. *)
LEMMA AgeBound == retention \in RETENTION => MaxAge \in Nat /\ GRACE <= MaxAge
  BY CleanupAssumption DEF MaxAge

(* A candidate is found by its name. *)
LEMMA ListedFacts ==
    ASSUME NEW m, NEW todo \in SUBSET [id : Ids, size : Sizes, age : 0 .. m],
           m \in Nat, \A i, j \in todo : i.id = j.id => i = j
    PROVE  /\ Sized(Listed(todo))
           /\ \A i \in todo : i.id \in Present(Listed(todo)) /\ Listed(todo)[i.id] = i
           /\ \A f \in Present(Listed(todo)) :
                 Listed(todo)[f] \in todo /\ Listed(todo)[f].id = f
  <1>1. ASSUME NEW i \in todo PROVE i # None /\ i.size \in Nat /\ i.id \in Ids
    <2>1. i \in [id : Ids, size : Nat, age : Nat]
      BY CleanupAssumption DEF Sizes
    <2> QED BY <2>1, CleanupAssumption
  <1>2. ASSUME NEW i \in todo PROVE Listed(todo)[i.id] = i
    <2>1. (CHOOSE j \in todo : j.id = i.id) = i
      OBVIOUS
    <2> QED BY <1>1, <2>1 DEF Listed
  <1>3. ASSUME NEW f \in Present(Listed(todo))
        PROVE  Listed(todo)[f] \in todo /\ Listed(todo)[f].id = f
    <2>1. f \in Ids /\ Listed(todo)[f] # None
      BY DEF Present
    <2>2. PICK i \in todo : i.id = f
      BY <2>1 DEF Listed
    <2> QED BY <1>2, <2>2
  <1>4. \A i \in todo : i.id \in Present(Listed(todo))
    BY <1>1, <1>2 DEF Present
  <1>5. Sized(Listed(todo))
    BY <1>1, <1>3 DEF Sized
  <1> QED BY <1>2, <1>3, <1>4, <1>5

(* enforce_quota counts every file it may unlink. *)
LEMMA ScanGood ==
    ASSUME NEW m \in Nat, NEW d, GoodDir(d, m), NEW todo,
           \/ todo = {}
           \/ todo = {[id |-> f, size |-> d[f].size, age |-> d[f].age] : f \in Evictable(d)}
    PROVE  GoodPass([total |-> Allocated(d, Ids), todo |-> todo], m)
  <1>1. Sized(d)
    BY DirSized
  <1>2. ASSUME NEW i \in todo
        PROVE  /\ i \in [id : Ids, size : Sizes, age : 0 .. m]
               /\ i.id \in Present(d) /\ i.size = d[i.id].size /\ i.age = d[i.id].age
    <2>1. PICK f \in Evictable(d) :
             i = [id |-> f, size |-> d[f].size, age |-> d[f].age]
      OBVIOUS
    <2>2. f \in Present(d) /\ f \in Ids
      BY DEF Evictable, Present
    <2>3. d[f] \in [size : Sizes, age : 0 .. m]
      BY <2>2 DEF GoodDir, Present
    <2> QED BY <2>1, <2>2, <2>3
  <1>3. todo \in SUBSET [id : Ids, size : Sizes, age : 0 .. m]
    BY <1>2
  <1>4. \A i, j \in todo : i.id = j.id => i = j
    BY <1>2
  <1>5. /\ Sized(Listed(todo))
        /\ \A f \in Present(Listed(todo)) :
              Listed(todo)[f] \in todo /\ Listed(todo)[f].id = f
    BY <1>3, <1>4, ListedFacts
  <1>6. Within(Listed(todo), d, Ids)
    <2> SUFFICES ASSUME NEW f \in Present(Listed(todo))
                 PROVE  f \in Present(d) /\ Listed(todo)[f].size <= d[f].size
      BY DEF Within
    <2>1. f \in Present(d) /\ Listed(todo)[f].size = d[f].size
      BY <1>2, <1>5
    <2>2. d[f].size \in Nat
      BY <1>1, <2>1 DEF Sized
    <2> QED BY <2>1, <2>2
  <1>7. Allocated(Listed(todo), Ids) <= Allocated(d, Ids)
    BY <1>1, <1>5, <1>6, AllocatedMono
  <1>8. Allocated(d, Ids) \in Nat
    BY <1>1, AllocatedFacts
  <1> QED BY <1>3, <1>4, <1>7, <1>8 DEF GoodPass

(* Taking a candidate off the list, and off the total or not. *)
LEMMA UnlinkGood ==
    ASSUME NEW m \in Nat, NEW p, GoodPass(p, m), NEW i \in p.todo
    PROVE  /\ GoodPass([total |-> p.total - i.size, todo |-> p.todo \ {i}], m)
           /\ GoodPass([total |-> p.total, todo |-> p.todo \ {i}], m)
  <1> DEFINE rest == p.todo \ {i}
  <1>1. /\ p.total \in Nat /\ p.todo \in SUBSET [id : Ids, size : Sizes, age : 0 .. m]
        /\ rest \in SUBSET [id : Ids, size : Sizes, age : 0 .. m]
    BY DEF GoodPass
  <1>2. /\ \A j, k \in p.todo : j.id = k.id => j = k
        /\ \A j, k \in rest : j.id = k.id => j = k
    BY DEF GoodPass
  <1>3. /\ Sized(Listed(p.todo)) /\ i.id \in Present(Listed(p.todo))
        /\ Listed(p.todo)[i.id] = i
        /\ \A j \in p.todo :
              j.id \in Present(Listed(p.todo)) /\ Listed(p.todo)[j.id] = j
    BY <1>1, <1>2, ListedFacts
  <1>4. /\ Sized(Listed(rest))
        /\ \A f \in Present(Listed(rest)) :
              Listed(rest)[f] \in rest /\ Listed(rest)[f].id = f
    <2> HIDE DEF rest
    <2> QED BY <1>1, <1>2, ListedFacts
  <1>5. i.id \in Ids /\ i.size \in Nat
    BY <1>1, CleanupAssumption DEF Sizes
  <1>6. i.id \notin Present(Listed(rest))
    BY <1>2, <1>4
  <1>7. Within(Listed(rest), Listed(p.todo), Ids \ {i.id})
    <2> SUFFICES ASSUME NEW f \in Present(Listed(rest))
                 PROVE  /\ f \in Present(Listed(p.todo))
                        /\ Listed(rest)[f].size <= Listed(p.todo)[f].size
      BY DEF Within
    <2>1. f \in Present(Listed(p.todo)) /\ Listed(rest)[f] = Listed(p.todo)[f]
      BY <1>3, <1>4
    <2>2. Listed(rest)[f].size \in Nat
      BY <1>4 DEF Sized
    <2> QED BY <2>1, <2>2
  <1> HIDE DEF rest
  <1>8. Allocated(Listed(rest), Ids \ {i.id}) <= Allocated(Listed(p.todo), Ids \ {i.id})
    BY <1>3, <1>4, <1>7, AllocatedMono
  <1>9. Allocated(Listed(rest), Ids) = Allocated(Listed(rest), Ids \ {i.id})
    BY <1>4, <1>6, AllocatedFacts
  <1>10. Allocated(Listed(p.todo), Ids) = i.size + Allocated(Listed(p.todo), Ids \ {i.id})
    BY <1>3, <1>5, AllocatedFacts
  <1>11. /\ Allocated(Listed(rest), Ids) \in Nat
         /\ Allocated(Listed(p.todo), Ids \ {i.id}) \in Nat
    BY <1>3, <1>4, AllocatedFacts
  <1>12. Allocated(Listed(p.todo), Ids) <= p.total
    BY DEF GoodPass
  <1>13. /\ Allocated(Listed(rest), Ids) <= p.total - i.size
         /\ Allocated(Listed(rest), Ids) <= p.total
         /\ p.total - i.size \in Nat
    BY <1>1, <1>5, <1>8, <1>9, <1>10, <1>11, <1>12
  <1> QED BY <1>1, <1>2, <1>13 DEF GoodPass, rest

(* what deleting files and the passing of time may do to a directory *)
Shrunk(e, d) == \A f \in Ids : e[f] # None => d[f] # None /\ e[f].size = d[f].size

(* The writer's belief survives what others delete. *)
LEMMA ShrunkGood ==
    ASSUME NEW m, NEW d, GoodDir(d, m), NEW e, GoodDir(e, m), Shrunk(e, d),
           NEW b, NEW t, NEW u \in Nat, GoodBin(d, b, t, u)
    PROVE  GoodBin(e, b, t, u)
  <1>1. Sized(d) /\ Sized(e)
    BY DirSized
  <1>2. Within(e, d, Ids \ {b.id})
    <2> SUFFICES ASSUME NEW f \in Present(e)
                 PROVE  f \in Present(d) /\ e[f].size <= d[f].size
      BY DEF Within
    <2>1. f \in Ids /\ e[f] # None /\ d[f] # None /\ e[f].size = d[f].size
      BY DEF Present, Shrunk
    <2>2. e[f].size \in Nat
      BY <1>1 DEF Sized
    <2> QED BY <2>1, <2>2 DEF Present
  <1>3. Allocated(e, Ids \ {b.id}) <= Allocated(d, Ids \ {b.id})
    BY <1>1, <1>2, AllocatedMono
  <1>4. /\ Allocated(e, Ids \ {b.id}) \in Nat /\ Allocated(d, Ids \ {b.id}) \in Nat
    BY <1>1, AllocatedFacts
  <1>5. b.other \in Nat /\ b.id \in Ids
    BY DEF GoodBin
  <1>6. Allocated(e, Ids \ {b.id}) <= b.other + u
    BY <1>3, <1>4, <1>5 DEF GoodBin
  <1>7. e[b.id] # None => b.size = e[b.id].size
    BY <1>5 DEF GoodBin, Shrunk
  <1> QED BY <1>6, <1>7 DEF GoodBin

(* One file written: the others take what they took. *)
LEMMA OthersSame ==
    ASSUME NEW m, NEW d, GoodDir(d, m), NEW e, GoodDir(e, m), NEW f \in Ids,
           \A g \in Ids \ {f} : e[g] = d[g], NEW ids \in SUBSET (Ids \ {f})
    PROVE  Allocated(e, ids) = Allocated(d, ids)
  <1>1. Sized(d) /\ Sized(e)
    BY DirSized
  <1>2. \A g \in ids \cap Present(d) : d[g].size \in Nat
    BY <1>1 DEF Sized
  <1>3. Within(e, d, ids) /\ Within(d, e, ids)
    BY <1>2 DEF Within, Present
  <1>4. Allocated(e, ids) <= Allocated(d, ids) /\ Allocated(d, ids) <= Allocated(e, ids)
    BY <1>1, <1>3, AllocatedMono
  <1>5. Allocated(e, ids) \in Nat /\ Allocated(d, ids) \in Nat
    BY <1>1, AllocatedFacts
  <1> QED BY <1>4, <1>5

(* A file's own blocks are added to those of the others. *)
LEMMA FileAdded ==
    ASSUME NEW m, NEW d, GoodDir(d, m), NEW ids, NEW f \in ids, f \in Ids
    PROVE  /\ Allocated(d, ids) \in Nat /\ Allocated(d, ids \ {f}) \in Nat
           /\ d[f] = None => Allocated(d, ids) = Allocated(d, ids \ {f})
           /\ d[f] # None => /\ d[f].size \in Nat
                             /\ Allocated(d, ids) = d[f].size + Allocated(d, ids \ {f})
  <1>1. Sized(d)
    BY DirSized
  <1>2. d[f] # None <=> f \in Present(d)
    BY DEF Present
  <1> QED BY <1>1, <1>2, AllocatedFacts DEF Sized

(* ensure_tlog_open beside an open .bin *)
LEMMA TlogOpens ==
    ASSUME NEW m \in Nat, NEW d, GoodDir(d, m), NEW e, GoodDir(e, m),
           NEW f \in Ids, e[f] = [size |-> 0, age |-> 0], d[f] = None,
           \A g \in Ids \ {f} : e[g] = d[g],
           NEW b, NEW t, NEW u \in Nat, GoodBin(d, b, t, u), f # b.id
    PROVE  GoodBin(e, b, f, u)
  <1> DEFINE ids == Ids \ {b.id}
  <1>1. b.id \in Ids /\ f \in ids /\ ids \ {f} \in SUBSET (Ids \ {f})
    BY DEF GoodBin
  <1> HIDE DEF ids
  <1>2. Allocated(e, ids \ {f}) = Allocated(d, ids \ {f})
    BY <1>1, OthersSame
  <1>3. /\ Allocated(e, ids) \in Nat /\ Allocated(e, ids \ {f}) \in Nat
        /\ e[f] = None => Allocated(e, ids) = Allocated(e, ids \ {f})
        /\ e[f] # None => Allocated(e, ids) = e[f].size + Allocated(e, ids \ {f})
    BY <1>1, FileAdded
  <1>4. Allocated(d, ids) = Allocated(d, ids \ {f})
    BY <1>1, FileAdded
  <1>5. Allocated(e, ids) = Allocated(d, ids)
    BY <1>2, <1>3, <1>4
  <1>6. e[b.id] = d[b.id]
    BY <1>1
  <1> QED BY <1>5, <1>6 DEF GoodBin, ids

(* write_frame beside an open .bin: one block more that it has not seen *)
LEMMA TlogGrows ==
    ASSUME NEW m \in Nat, NEW d, GoodDir(d, m), NEW e, GoodDir(e, m),
           NEW t \in Ids, d[t] # None, e[t] = [size |-> d[t].size + 1, age |-> 0],
           \A g \in Ids \ {t} : e[g] = d[g],
           NEW b, NEW u \in Nat, GoodBin(d, b, t, u)
    PROVE  GoodBin(e, b, t, u + 1)
  <1> DEFINE ids == Ids \ {b.id}
  <1>1. /\ b.id \in Ids /\ b.other \in Nat /\ t \in ids
        /\ ids \ {t} \in SUBSET (Ids \ {t})
    BY DEF GoodBin
  <1>2. Allocated(d, ids) <= b.other + u
    BY DEF GoodBin
  <1> HIDE DEF ids
  <1>3. Allocated(e, ids \ {t}) = Allocated(d, ids \ {t})
    BY <1>1, OthersSame
  <1>4. /\ Allocated(e, ids) \in Nat /\ Allocated(e, ids \ {t}) \in Nat
        /\ e[t] = None => Allocated(e, ids) = Allocated(e, ids \ {t})
        /\ e[t] # None => Allocated(e, ids) = e[t].size + Allocated(e, ids \ {t})
    BY <1>1, FileAdded
  <1>5. d[t].size \in Nat /\ Allocated(d, ids) = d[t].size + Allocated(d, ids \ {t})
    BY <1>1, FileAdded
  <1>6. Allocated(e, ids) <= Allocated(d, ids) + 1
    BY <1>3, <1>4, <1>5
  <1>7. Allocated(e, ids) <= b.other + (u + 1)
    BY <1>1, <1>2, <1>3, <1>4, <1>5, <1>6
  <1>8. e[b.id] = d[b.id]
    BY <1>1 DEF ids
  <1> QED BY <1>7, <1>8 DEF GoodBin, ids

(* the directory e: the file f of d, if it is there, was written to n blocks *)
Grown(e, d, f, n) ==
    e = IF d[f] = None THEN d ELSE [d EXCEPT ![f] = [size |-> n, age |-> 0]]

(* A file is written: what the others take stays.                          *)
LEMMA FileGrows ==
    ASSUME NEW m \in Nat, NEW d, GoodDir(d, m), NEW f \in Ids, NEW n \in Sizes,
           NEW e, Grown(e, d, f, n)
    PROVE  /\ GoodDir(e, m)
           /\ e[f] # None => e[f].size = n
           /\ Allocated(e, Ids \ {f}) = Allocated(d, Ids \ {f})
           /\ Allocated(e, Ids) <= n + Allocated(d, Ids \ {f})
  <1>1. /\ GoodDir(e, m) /\ \A g \in Ids \ {f} : e[g] = d[g]
        /\ e[f] # None => e[f].size = n
    BY DEF Grown, GoodDir
  <1>2. Allocated(e, Ids \ {f}) = Allocated(d, Ids \ {f})
    BY <1>1, OthersSame
  <1>3. /\ Allocated(e, Ids) \in Nat /\ Allocated(e, Ids \ {f}) \in Nat
        /\ e[f] = None => Allocated(e, Ids) = Allocated(e, Ids \ {f})
        /\ e[f] # None => Allocated(e, Ids) = e[f].size + Allocated(e, Ids \ {f})
    BY <1>1, FileAdded
  <1>4. n \in Nat
    BY CleanupAssumption DEF Sizes
  <1>5. Allocated(e, Ids) <= n + Allocated(d, Ids \ {f})
    BY <1>1, <1>2, <1>3, <1>4
  <1> QED BY <1>1, <1>2, <1>5

(* The write of handle_block, from a belief that covers the other files:   *)
(* it is sound afterwards too, and the blocks taken are within what was    *)
(* believed, what it missed and the file.                                  *)
LEMMA StoredGood ==
    ASSUME CleanupInv, bin # None, NEW other \in Nat, NEW missed \in Nat,
           Allocated(file, Ids \ {bin.id}) <= other + missed,
           NEW grow \in 0 .. 1, Stored(other, missed, grow)
    PROVE  /\ GoodDir(file', MaxAge) /\ GoodBin(file', bin', tlog, unseen')
           /\ unseen' \in Nat /\ refused' \in BOOLEAN
           /\ bin'.size = bin.size + grow
           /\ Allocated(file', Ids) <= other + bin.size + grow + missed
  <1>1. /\ MaxAge \in Nat /\ GoodDir(file, MaxAge) /\ unseen \in Nat
        /\ GoodBin(file, bin, tlog, unseen)
    BY AgeBound DEF CleanupInv
  <1>2. /\ bin \in [id : Ids, size : Sizes, other : Nat, writes : 0 .. REFRESH - 1]
        /\ bin.id # tlog /\ (file[bin.id] # None => bin.size = file[bin.id].size)
    BY <1>1 DEF GoodBin
  <1>3. bin.size + grow \in Sizes
    BY <1>2, CleanupAssumption DEF Stored, Sizes
  <1>4. Grown(file', file, bin.id, bin.size + grow)
    BY <1>2 DEF Stored, Grown
  <1>5. /\ GoodDir(file', MaxAge)
        /\ file'[bin.id] # None => file'[bin.id].size = bin.size + grow
        /\ Allocated(file', Ids \ {bin.id}) = Allocated(file, Ids \ {bin.id})
        /\ Allocated(file', Ids) <= bin.size + grow + Allocated(file, Ids \ {bin.id})
    BY <1>1, <1>3, <1>2, <1>4, FileGrows
  <1>6. /\ Allocated(file, Ids \ {bin.id}) \in Nat
        /\ Allocated(file', Ids) \in Nat
    BY <1>1, <1>5, DirSized, AllocatedFacts
  <1> DEFINE again == bin.writes + 1 >= REFRESH
  <1>7. bin' = [id |-> bin.id, size |-> bin.size + grow,
                other |-> IF again THEN Allocated(file, Ids \ {bin.id}) ELSE other,
                writes |-> IF again THEN 0 ELSE bin.writes + 1]
    BY <1>2 DEF Stored, Others
  <1>8. unseen' = (IF again THEN 0 ELSE missed) /\ refused' = FALSE
    BY DEF Stored
  <1>9. (IF again THEN 0 ELSE bin.writes + 1) \in 0 .. REFRESH - 1
    BY <1>2, CleanupAssumption
  <1>10. bin' \in [id : Ids, size : Sizes, other : Nat, writes : 0 .. REFRESH - 1]
    BY <1>3, <1>2, <1>6, <1>7, <1>9
  <1>11. Allocated(file', Ids \ {bin.id}) <= bin'.other + unseen'
    BY <1>5, <1>6, <1>7, <1>8
  <1>12. GoodBin(file', bin', tlog, unseen')
    <2>1. bin'.id = bin.id /\ bin'.size = bin.size + grow
      BY <1>7
    <2> QED BY <1>5, <1>2, <1>10, <1>11, <2>1 DEF GoodBin
  <1>13. bin.size \in Nat
    BY <1>2, CleanupAssumption DEF Sizes
  <1>14. Allocated(file', Ids) <= other + bin.size + grow + missed
    BY <1>5, <1>6, <1>13
  <1> QED BY <1>5, <1>7, <1>8, <1>12, <1>14

(* The invariant after a step that keeps the entry's settings. *)
LEMMA CleanupRebuilt ==
    ASSUME CleanupInv, retention' = retention, GoodDir(file', MaxAge),
           tlog' \in Ids \cup {None}, refused' \in BOOLEAN, unseen' \in Nat,
           bin' # None => GoodBin(file', bin', tlog', unseen'),
           pass' = [r \in Runners |-> pass'[r]],
           \A r \in Runners : pass'[r] # None => GoodPass(pass'[r], MaxAge),
           pass'["writer"] # None => bin' # None
    PROVE  CleanupInv'
  <1>1. MaxAge' = MaxAge
    BY DEF MaxAge
  <1>2. retention' \in RETENTION
    BY DEF CleanupInv
  <1> QED BY <1>1, <1>2 DEF CleanupInv

(* What the invariant says, in the parts that the actions use. *)
LEMMA CleanupParts ==
    ASSUME CleanupInv
    PROVE  /\ MaxAge \in Nat /\ GoodDir(file, MaxAge)
           /\ tlog \in Ids \cup {None} /\ refused \in BOOLEAN /\ unseen \in Nat
           /\ bin # None => GoodBin(file, bin, tlog, unseen)
           /\ pass = [r \in Runners |-> pass[r]]
           /\ \A r \in Runners : pass[r] # None => GoodPass(pass[r], MaxAge)
           /\ pass["writer"] # None => bin # None
  BY AgeBound DEF CleanupInv

(* the types give the first state *)
LEMMA CleanupInit == Init => CleanupInv
  <1> SUFFICES ASSUME Init PROVE CleanupInv
    OBVIOUS
  <1>1. MaxAge \in Nat /\ GRACE <= MaxAge
    BY AgeBound DEF Init
  <1>2. [size |-> 1, age |-> GRACE] \in [size : Sizes, age : 0 .. MaxAge]
    BY <1>1, CleanupAssumption DEF Sizes
  <1>3. GoodDir(file, MaxAge)
    BY <1>2 DEF Init, GoodDir
  <1> QED BY <1>3 DEF Init, CleanupInv, Runners

(* a step of a pass *)
LEMMA UnlinkKeeps ==
    ASSUME CleanupInv, NEW r \in Runners, Unlink(r)
    PROVE  CleanupInv'
  <1>1. PICK i \in Oldest(pass[r].todo) :
          /\ file' = [file EXCEPT ![i.id] = None]
          /\ pass' = [pass EXCEPT ![r].todo = @ \ {i},
                          ![r].total = IF file[i.id] # None THEN @ - i.size ELSE @]
    BY DEF Unlink
  <1>2. /\ retention' = retention /\ tlog' = tlog /\ bin' = bin
        /\ refused' = refused /\ unseen' = unseen /\ pass[r] # None
    BY DEF Unlink, sessionVars
  <1>3. i \in pass[r].todo
    BY DEF Oldest
  <1>4. GoodPass(pass[r], MaxAge) /\ MaxAge \in Nat /\ GoodDir(file, MaxAge)
    BY <1>2, CleanupParts
  <1>5. /\ pass[r] \in [total : Nat,
                        todo : SUBSET [id : Ids, size : Sizes, age : 0 .. MaxAge]]
        /\ i.id \in Ids
    BY <1>3, <1>4 DEF GoodPass
  <1>6. GoodDir(file', MaxAge) /\ Shrunk(file', file)
    BY <1>1, <1>4, <1>5 DEF GoodDir, Shrunk
  <1>7. bin' # None => GoodBin(file', bin', tlog', unseen')
    <2> SUFFICES ASSUME bin # None PROVE GoodBin(file', bin, tlog, unseen)
      BY <1>2
    <2>1. GoodBin(file, bin, tlog, unseen) /\ unseen \in Nat
      BY CleanupParts
    <2> QED BY <1>4, <1>6, <2>1, ShrunkGood
  <1>8. /\ pass'[r] = [total |-> IF file[i.id] # None THEN pass[r].total - i.size
                                 ELSE pass[r].total,
                       todo |-> pass[r].todo \ {i}]
        /\ \A q \in Runners \ {r} : pass'[q] = pass[q]
        /\ pass' = [q \in Runners |-> pass'[q]]
    <2>1. pass = [q \in Runners |-> pass[q]]
      BY CleanupParts
    <2> QED BY <1>1, <1>5, <2>1
  <1>9. GoodPass(pass'[r], MaxAge)
    <2>1. /\ GoodPass([total |-> pass[r].total - i.size, todo |-> pass[r].todo \ {i}], MaxAge)
          /\ GoodPass([total |-> pass[r].total, todo |-> pass[r].todo \ {i}], MaxAge)
      BY <1>3, <1>4, UnlinkGood
    <2> QED BY <1>8, <2>1
  <1>10. \A q \in Runners : pass'[q] # None => GoodPass(pass'[q], MaxAge)
    BY <1>8, <1>9, CleanupParts
  <1>11. pass'["writer"] # None => bin' # None
    <2>1. CASE r = "writer"
      BY <1>2, <2>1, CleanupParts
    <2>2. CASE r # "writer"
      <3>1. pass'["writer"] = pass["writer"]
        BY <1>8, <2>2 DEF Runners
      <3> QED BY <1>2, <3>1, CleanupParts
    <2> QED BY <2>1, <2>2
  <1>12. tlog' \in Ids \cup {None} /\ refused' \in BOOLEAN /\ unseen' \in Nat
    BY <1>2, CleanupParts
  <1> QED BY <1>2, <1>6, <1>7, <1>8, <1>10, <1>11, <1>12, CleanupRebuilt

(* the scan of enforce_quota starts a pass *)
LEMMA ScanKeeps ==
    ASSUME CleanupInv, NEW r \in Runners, NEW d, GoodDir(d, MaxAge), Scan(r, d)
    PROVE  /\ pass' = [q \in Runners |-> pass'[q]]
           /\ \A q \in Runners : pass'[q] # None => GoodPass(pass'[q], MaxAge)
           /\ \A q \in Runners \ {r} : pass'[q] = pass[q]
  <1> DEFINE todo == IF Over(Allocated(d, Ids), r)
                     THEN {[id |-> f, size |-> d[f].size, age |-> d[f].age] :
                              f \in Evictable(d)}
                     ELSE {}
  <1>1. GoodPass([total |-> Allocated(d, Ids), todo |-> todo], MaxAge)
    BY CleanupParts, ScanGood
  <1>2. pass' = [pass EXCEPT ![r] = [total |-> Allocated(d, Ids), todo |-> todo]]
    BY DEF Scan
  <1> HIDE DEF todo
  <1>3. /\ pass' = [q \in Runners |-> pass'[q]]
        /\ pass'[r] = [total |-> Allocated(d, Ids), todo |-> todo]
        /\ \A q \in Runners \ {r} : pass'[q] = pass[q]
    <2>1. pass = [q \in Runners |-> pass[q]]
      BY CleanupParts
    <2> QED BY <1>2, <2>1
  <1> QED BY <1>1, <1>3, CleanupParts

(* log_cleanup_once and its end *)
LEMMA CleanerKeeps ==
    ASSUME CleanupInv, CleanerWakes \/ CleanerSleeps
    PROVE  CleanupInv'
  <1>1. /\ retention' = retention /\ tlog' = tlog /\ bin' = bin
        /\ refused' = refused /\ unseen' = unseen
    BY DEF CleanerWakes, CleanerSleeps, sessionVars
  <1>2. MaxAge \in Nat /\ GoodDir(file, MaxAge)
    BY CleanupParts
  <1>3. GoodDir(file', MaxAge) /\ Shrunk(file', file)
    <2>1. CASE CleanerWakes
      BY <1>2, <2>1 DEF CleanerWakes, GoodDir, Shrunk
    <2>2. CASE CleanerSleeps
      BY <1>2, <2>2 DEF CleanerSleeps, GoodDir, Shrunk
    <2> QED BY <2>1, <2>2
  <1>4. bin' # None => GoodBin(file', bin', tlog', unseen')
    <2> SUFFICES ASSUME bin # None PROVE GoodBin(file', bin, tlog, unseen)
      BY <1>1
    <2>1. GoodBin(file, bin, tlog, unseen) /\ unseen \in Nat
      BY CleanupParts
    <2> QED BY <1>2, <1>3, <2>1, ShrunkGood
  <1>5. /\ pass' = [q \in Runners |-> pass'[q]]
        /\ \A q \in Runners : pass'[q] # None => GoodPass(pass'[q], MaxAge)
        /\ \A q \in Runners \ {"cleaner"} : pass'[q] = pass[q]
    <2>1. CASE CleanerWakes
      BY <1>3, <2>1, ScanKeeps DEF CleanerWakes, Runners
    <2>2. CASE CleanerSleeps
      BY <2>2, CleanupParts DEF CleanerSleeps, Runners
    <2> QED BY <2>1, <2>2
  <1>6. pass'["writer"] # None => bin' # None
    BY <1>1, <1>5, CleanupParts DEF Runners
  <1>7. tlog' \in Ids \cup {None} /\ refused' \in BOOLEAN /\ unseen' \in Nat
    BY <1>1, CleanupParts
  <1> QED BY <1>1, <1>3, <1>4, <1>5, <1>6, <1>7, CleanupRebuilt

(* time passes *)
LEMMA AgeKeeps ==
    ASSUME CleanupInv, Age
    PROVE  CleanupInv'
  <1>1. /\ retention' = retention /\ tlog' = tlog /\ bin' = bin
        /\ refused' = refused /\ unseen' = unseen /\ pass' = pass
    BY DEF Age, sessionVars
  <1>2. MaxAge \in Nat /\ GoodDir(file, MaxAge)
    BY CleanupParts
  <1>3. ASSUME NEW f \in Ids
        PROVE  /\ file'[f] \in [size : Sizes, age : 0 .. MaxAge] \cup {None}
               /\ file'[f] # None => file[f] # None /\ file'[f].size = file[f].size
    <2>1. file'[f] = IF file[f] = None \/ file[f].age = MaxAge THEN file[f]
                     ELSE [file[f] EXCEPT !.age = @ + 1]
      BY DEF Age
    <2>2. CASE file[f] = None \/ file[f].age = MaxAge
      BY <1>2, <2>1, <2>2 DEF GoodDir
    <2>3. CASE ~(file[f] = None \/ file[f].age = MaxAge)
      <3>1. file[f] \in [size : Sizes, age : 0 .. MaxAge] /\ file[f].age # MaxAge
        BY <1>2, <2>3 DEF GoodDir
      <3>2. file[f].age + 1 \in 0 .. MaxAge
        BY <1>2, <3>1
      <3>3. file'[f] = [size |-> file[f].size, age |-> file[f].age + 1]
        BY <2>1, <2>3, <3>1
      <3> QED BY <2>3, <3>1, <3>2, <3>3
    <2> QED BY <2>2, <2>3
  <1>4. GoodDir(file', MaxAge) /\ Shrunk(file', file)
    <2>1. file' = [f \in Ids |-> file'[f]]
      BY DEF Age
    <2> QED BY <1>3, <2>1 DEF GoodDir, Shrunk
  <1>5. bin' # None => GoodBin(file', bin', tlog', unseen')
    <2> SUFFICES ASSUME bin # None PROVE GoodBin(file', bin, tlog, unseen)
      BY <1>1
    <2>1. GoodBin(file, bin, tlog, unseen) /\ unseen \in Nat
      BY CleanupParts
    <2> QED BY <1>2, <1>4, <2>1, ShrunkGood
  <1> QED BY <1>1, <1>4, <1>5, CleanupParts, CleanupRebuilt

(* a log is opened *)
LEMMA OpenKeeps ==
    ASSUME CleanupInv, NEW f \in Ids, OpenTlog(f) \/ OpenBin(f)
    PROVE  CleanupInv'
  <1>1. /\ retention' = retention /\ refused' = refused /\ pass' = pass
        /\ file[f] = None /\ file' = [file EXCEPT ![f] = [size |-> 0, age |-> 0]]
    BY DEF OpenTlog, OpenBin, Fresh
  <1>2. /\ MaxAge \in Nat /\ GoodDir(file, MaxAge) /\ unseen \in Nat /\ 0 \in Sizes
        /\ tlog \in Ids \cup {None}
    BY CleanupParts, CleanupAssumption DEF Sizes
  <1>3. /\ GoodDir(file', MaxAge) /\ file'[f] = [size |-> 0, age |-> 0]
        /\ \A g \in Ids \ {f} : file'[g] = file[g]
    BY <1>1, <1>2 DEF GoodDir
  <1>4. CASE OpenTlog(f)
    <2>1. bin' = bin /\ unseen' = unseen /\ tlog' = f /\ (bin # None => f # bin.id)
      BY <1>4 DEF OpenTlog, Fresh
    <2>2. bin' # None => GoodBin(file', bin', tlog', unseen')
      <3> SUFFICES ASSUME bin # None PROVE GoodBin(file', bin, f, unseen)
        BY <2>1
      <3>1. GoodBin(file, bin, tlog, unseen) /\ file[f] = None /\ f # bin.id
        BY <1>1, <2>1, CleanupParts
      <3> QED BY <1>2, <1>3, <3>1, TlogOpens
    <2> QED BY <1>1, <1>2, <1>3, <2>1, <2>2, CleanupParts, CleanupRebuilt
  <1>5. CASE OpenBin(f)
    <2>1. /\ bin = None /\ unseen' = 0 /\ tlog' = tlog /\ f # tlog
          /\ bin' = [id |-> f, size |-> 0, other |-> Others(f), writes |-> 0]
      BY <1>5 DEF OpenBin, Fresh
    <2>2. /\ Others(f) \in Nat /\ Allocated(file', Ids \ {f}) = Others(f)
      BY <1>2, <1>3, OthersSame, DirSized, AllocatedFacts DEF Others
    <2>3. 0 \in 0 .. REFRESH - 1
      BY CleanupAssumption
    <2>4. GoodBin(file', bin', tlog', unseen')
      <3>1. /\ bin'.id = f /\ bin'.size = 0 /\ bin'.other = Others(f)
            /\ bin' \in [id : Ids, size : Sizes, other : Nat, writes : 0 .. REFRESH - 1]
        BY <1>2, <2>1, <2>2, <2>3
      <3>2. Allocated(file', Ids \ {bin'.id}) <= bin'.other + unseen'
        BY <2>1, <2>2, <3>1
      <3> QED BY <1>3, <2>1, <3>1, <3>2 DEF GoodBin
    <2>5. pass'["writer"] # None => bin' # None
      BY <1>1, <2>1, CleanupParts
    <2> QED BY <1>1, <1>2, <1>3, <2>1, <2>4, <2>5, CleanupParts, CleanupRebuilt
  <1> QED BY <1>4, <1>5

(* write_frame of the .tlog *)
LEMMA TlogWriteKeeps ==
    ASSUME CleanupInv, TlogWrite
    PROVE  CleanupInv'
  <1>1. /\ retention' = retention /\ refused' = refused /\ pass' = pass
        /\ tlog' = tlog /\ bin' = bin /\ tlog # None
    BY DEF TlogWrite
  <1>2. /\ MaxAge \in Nat /\ GoodDir(file, MaxAge) /\ unseen \in Nat /\ tlog \in Ids
    BY <1>1, CleanupParts
  <1>3. CASE file[tlog] = None
    <2>1. file' = file /\ unseen' = unseen
      BY <1>3 DEF TlogWrite
    <2> QED BY <1>1, <2>1, CleanupParts, CleanupRebuilt
  <1>4. CASE file[tlog] # None
    <2> DEFINE n == file[tlog].size + 1
    <2>1. /\ file' = [file EXCEPT ![tlog] = [size |-> n, age |-> 0]]
          /\ unseen' = IF bin # None THEN unseen + 1 ELSE unseen
      BY <1>4 DEF TlogWrite
    <2>2. n \in Sizes
      <3>1. file[tlog].size \in Sizes /\ file[tlog].size < MaxSize
        BY <1>2, <1>4 DEF TlogWrite, GoodDir
      <3> QED BY <3>1, CleanupAssumption DEF Sizes
    <2>3. /\ GoodDir(file', MaxAge) /\ file'[tlog] = [size |-> n, age |-> 0]
          /\ \A g \in Ids \ {tlog} : file'[g] = file[g]
      <3> HIDE DEF n
      <3> QED BY <1>2, <2>1, <2>2 DEF GoodDir
    <2>4. bin' # None => GoodBin(file', bin', tlog', unseen')
      <3> SUFFICES ASSUME bin # None PROVE GoodBin(file', bin, tlog, unseen + 1)
        BY <1>1, <2>1
      <3>1. GoodBin(file, bin, tlog, unseen)
        BY CleanupParts
      <3> QED BY <1>2, <1>4, <2>3, <3>1, TlogGrows
    <2>5. unseen' \in Nat
      BY <1>2, <2>1
    <2> QED BY <1>1, <2>3, <2>4, <2>5, CleanupParts, CleanupRebuilt
  <1> QED BY <1>3, <1>4

(* the end of a log *)
LEMMA CloseKeeps ==
    ASSUME CleanupInv, CloseBin \/ EndSession
    PROVE  CleanupInv'
  <1>1. /\ retention' = retention /\ file' = file /\ pass' = pass /\ bin' = None
        /\ pass'["writer"] = None
    BY CleanupParts DEF CloseBin, EndSession
  <1>2. tlog' \in Ids \cup {None} /\ refused' \in BOOLEAN /\ unseen' \in Nat
    <2>1. CASE CloseBin
      <3>1. tlog' = tlog /\ refused' = FALSE /\ unseen' = 0
        BY <2>1 DEF CloseBin
      <3> QED BY <3>1, CleanupParts
    <2>2. CASE EndSession
      <3>1. tlog' = None /\ refused' = refused /\ unseen' = unseen
        BY <2>2 DEF EndSession
      <3> QED BY <3>1, CleanupParts
    <2> QED BY <2>1, <2>2
  <1> QED BY <1>1, <1>2, CleanupParts, CleanupRebuilt

(* What handle_block stores is within the quota but for what it missed. *)
LEMMA BlockKeeps ==
    ASSUME CleanupInv, (\E due \in BOOLEAN : BinBlock(due)) \/ BinAfterPass
    PROVE  /\ CleanupInv'
           /\ bin'.size > bin.size => Allocated(file', Ids) <= QUOTA + unseen
  <1>1. bin # None /\ retention' = retention /\ tlog' = tlog
    BY CleanupParts DEF BinBlock, BinAfterPass, PassDone
  <1>2. /\ MaxAge \in Nat /\ GoodDir(file, MaxAge) /\ unseen \in Nat
        /\ GoodBin(file, bin, tlog, unseen) /\ pass = [q \in Runners |-> pass[q]]
        /\ tlog \in Ids \cup {None} /\ refused \in BOOLEAN
    BY <1>1, CleanupParts
  <1>3. /\ bin \in [id : Ids, size : Sizes, other : Nat, writes : 0 .. REFRESH - 1]
        /\ bin.size \in Nat /\ bin.id # tlog
        /\ Allocated(file, Ids \ {bin.id}) <= bin.other + unseen
        /\ file[bin.id] # None => bin.size = file[bin.id].size
    BY <1>2, CleanupAssumption DEF GoodBin, Sizes
  <1>4. Others(bin.id) \in Nat /\ Others(bin.id) = Allocated(file, Ids \ {bin.id})
    BY <1>2, DirSized, AllocatedFacts DEF Others
  <1>5. ASSUME NEW other \in Nat, NEW missed \in Nat, missed <= unseen,
               Allocated(file, Ids \ {bin.id}) <= other + missed, ~Breach(other),
               NEW grow \in 0 .. 1, Stored(other, missed, grow),
               pass' = [q \in Runners |-> pass'[q]], pass'["writer"] = None,
               pass'["cleaner"] = pass["cleaner"]
        PROVE  /\ CleanupInv'
               /\ bin'.size > bin.size => Allocated(file', Ids) <= QUOTA + unseen
    <2>1. /\ GoodDir(file', MaxAge) /\ GoodBin(file', bin', tlog, unseen')
          /\ unseen' \in Nat /\ refused' \in BOOLEAN
          /\ bin'.size = bin.size + grow
          /\ Allocated(file', Ids) <= other + bin.size + grow + missed
      BY <1>1, <1>5, StoredGood
    <2>2. \A q \in Runners : pass'[q] # None => GoodPass(pass'[q], MaxAge)
      BY <1>5, CleanupParts DEF Runners
    <2>3. CleanupInv'
      BY <1>1, <1>2, <1>5, <2>1, <2>2, CleanupRebuilt
    <2>4. Allocated(file', Ids) \in Nat
      BY <2>1, DirSized, AllocatedFacts
    <2>5. other + bin.size + 1 <= QUOTA
      BY <1>3, <1>5, CleanupAssumption DEF Breach
    <2>6. other + bin.size + grow + missed <= QUOTA + unseen
      BY <1>2, <1>3, <1>5, <2>5, CleanupAssumption
    <2>7. Allocated(file', Ids) <= QUOTA + unseen
      BY <1>2, <1>3, <1>5, <2>1, <2>4, <2>6, CleanupAssumption
    <2> QED BY <2>3, <2>7
  <1>6. ASSUME NEW due \in BOOLEAN, BinBlock(due)
        PROVE  /\ CleanupInv'
               /\ bin'.size > bin.size => Allocated(file', Ids) <= QUOTA + unseen
    <2>1. ASSUME ~Breach(bin.other), NEW grow \in 0 .. 1,
                 Stored(bin.other, unseen, grow), pass' = pass
          PROVE  /\ CleanupInv'
                 /\ bin'.size > bin.size => Allocated(file', Ids) <= QUOTA + unseen
      <3>1. pass' = [q \in Runners |-> pass'[q]] /\ pass'["writer"] = None
        BY <1>2, <1>6, <2>1 DEF BinBlock
      <3>2. unseen <= unseen /\ bin.other \in Nat
        BY <1>2, <1>3
      <3> QED BY <1>2, <1>3, <1>5, <2>1, <3>1, <3>2
    <2>2. ASSUME file' = file, bin' = bin, unseen' = unseen, refused' = refused,
                 Scan("writer", file)
          PROVE  CleanupInv'
      <3>1. /\ pass' = [q \in Runners |-> pass'[q]]
            /\ \A q \in Runners : pass'[q] # None => GoodPass(pass'[q], MaxAge)
        BY <1>2, <2>2, ScanKeeps DEF Runners
      <3> QED BY <1>1, <1>2, <2>2, <3>1, CleanupRebuilt
    <2>3. ASSUME file' = file, bin' = bin, unseen' = unseen, refused' = TRUE,
                 pass' = pass
          PROVE  CleanupInv'
      BY <1>1, <1>2, <2>3, CleanupParts, CleanupRebuilt
    <2>4. bin' = bin => ~(bin'.size > bin.size)
      BY <1>3
    <2> QED BY <1>6, <2>1, <2>2, <2>3, <2>4 DEF BinBlock
  <1>7. ASSUME BinAfterPass
        PROVE  /\ CleanupInv'
               /\ bin'.size > bin.size => Allocated(file', Ids) <= QUOTA + unseen
    <2>1. /\ pass' = [pass EXCEPT !["writer"] = None]
          /\ pass' = [q \in Runners |-> pass'[q]] /\ pass'["writer"] = None
          /\ pass'["cleaner"] = pass["cleaner"]
      BY <1>2, <1>7 DEF BinAfterPass, Runners
    <2>2. CASE Breach(Others(bin.id))
      <3>1. /\ refused' = TRUE /\ unseen' = 0 /\ file' = file
            /\ bin' = [bin EXCEPT !.other = Others(bin.id)]
        BY <1>7, <2>2 DEF BinAfterPass
      <3>2. /\ bin' \in [id : Ids, size : Sizes, other : Nat, writes : 0 .. REFRESH - 1]
            /\ bin'.id = bin.id /\ bin'.size = bin.size /\ bin'.other = Others(bin.id)
        BY <1>3, <1>4, <3>1
      <3>3. Allocated(file', Ids \ {bin'.id}) <= bin'.other + unseen'
        BY <1>4, <3>1, <3>2
      <3>4. GoodBin(file', bin', tlog', unseen')
        BY <1>1, <1>3, <3>1, <3>2, <3>3 DEF GoodBin
      <3>5. \A q \in Runners : pass'[q] # None => GoodPass(pass'[q], MaxAge)
        BY <2>1, CleanupParts DEF Runners
      <3>6. CleanupInv'
        BY <1>1, <1>2, <2>1, <3>1, <3>4, <3>5, CleanupRebuilt
      <3>7. ~(bin'.size > bin.size)
        BY <1>3, <3>2
      <3> QED BY <3>6, <3>7
    <2>3. CASE ~Breach(Others(bin.id))
      <3>1. PICK grow \in 0 .. 1 : Stored(Others(bin.id), 0, grow)
        BY <1>7, <2>3 DEF BinAfterPass
      <3>2. /\ 0 \in Nat /\ 0 <= unseen
            /\ Allocated(file, Ids \ {bin.id}) <= Others(bin.id) + 0
        BY <1>2, <1>4
      <3> QED BY <1>4, <1>5, <2>1, <2>3, <3>1, <3>2
    <2> QED BY <2>2, <2>3
  <1> QED BY <1>6, <1>7

(* Every step keeps the invariant, and growth of the .bin the quota. *)
LEMMA CleanupNext ==
    CleanupInv /\ [Next]_vars =>
       /\ CleanupInv'
       /\ bin # None /\ bin' # None /\ bin'.size > bin.size
             => Allocated(file', Ids) <= QUOTA + unseen
  <1> SUFFICES ASSUME CleanupInv, [Next]_vars
               PROVE  /\ CleanupInv'
                      /\ bin # None /\ bin' # None /\ bin'.size > bin.size
                            => Allocated(file', Ids) <= QUOTA + unseen
    OBVIOUS
  <1>1. bin # None => ~(bin.size > bin.size)
    BY CleanupParts, CleanupAssumption DEF GoodBin, Sizes
  <1>2. CASE CleanerWakes \/ CleanerSleeps
    <2>1. bin' = bin
      BY <1>2 DEF CleanerWakes, CleanerSleeps, sessionVars
    <2> QED BY <1>1, <1>2, <2>1, CleanerKeeps
  <1>3. ASSUME NEW r \in Runners, Unlink(r)
        PROVE  CleanupInv' /\ bin' = bin
    BY <1>3, UnlinkKeeps DEF Unlink, sessionVars
  <1>4. ASSUME NEW f \in Ids, OpenTlog(f) \/ OpenBin(f)
        PROVE  CleanupInv' /\ (bin = None \/ bin' = bin)
    BY <1>4, OpenKeeps DEF OpenTlog, OpenBin
  <1>5. CASE TlogWrite
    <2>1. bin' = bin
      BY <1>5 DEF TlogWrite
    <2> QED BY <1>1, <1>5, <2>1, TlogWriteKeeps
  <1>6. CASE CloseBin \/ EndSession
    <2>1. bin' = None \/ bin' = bin
      BY <1>6 DEF CloseBin, EndSession
    <2> QED BY <1>1, <1>6, <2>1, CloseKeeps
  <1>7. CASE (\E due \in BOOLEAN : BinBlock(due)) \/ BinAfterPass
    BY <1>7, BlockKeeps
  <1>8. CASE Age
    <2>1. bin' = bin
      BY <1>8 DEF Age, sessionVars
    <2> QED BY <1>1, <1>8, <2>1, AgeKeeps
  <1>9. CASE UNCHANGED vars
    <2>1. /\ retention' = retention /\ file' = file /\ tlog' = tlog /\ bin' = bin
          /\ refused' = refused /\ unseen' = unseen /\ pass' = pass
      BY <1>9 DEF vars, sessionVars
    <2>2. CleanupInv'
      BY <2>1, CleanupParts, CleanupRebuilt
    <2> QED BY <1>1, <2>1, <2>2
  <1> QED
    BY <1>1, <1>2, <1>3, <1>4, <1>5, <1>6, <1>7, <1>8, <1>9 DEF Next, SessionNext

(* The inductive invariant of the quota. *)
THEOREM CleanupInvariant == Spec => []CleanupInv
  <1>1. CleanupInv /\ [Next]_vars => CleanupInv'
    BY CleanupNext
  <1> QED
    BY <1>1, CleanupInit, PTL DEF Spec

(* The types of the directory, the writers and the passes.  They include   *)
(* that the total of a pass of enforce_quota never goes below zero,        *)
(* whatever the other pass and the writers do meanwhile.                   *)
THEOREM CleanupTypes == Spec => []TypeOK
  <1>1. CleanupInv => TypeOK
    BY DEF CleanupInv, TypeOK, GoodDir, GoodBin, GoodPass, File, Item
  <1> QED
    BY <1>1, CleanupInvariant, PTL

(* Whatever is deleted and written meanwhile, a block that the .bin writer *)
(* stores leaves telemetry within its quota but for what the .tlog grew    *)
(* since it last looked (the quota gate of handle_block).                  *)
THEOREM QuotaAlwaysHeld == Spec => QuotaHeld
  <1>1. CleanupInv /\ [Next]_vars
          => [bin # None /\ bin' # None /\ bin'.size > bin.size
                => Allocated(file', Ids) <= QUOTA + unseen]_vars
    BY CleanupNext
  <1> QED
    BY <1>1, CleanupInvariant, PTL DEF Spec, QuotaHeld

-----------------------------------------------------------------------------
(* A pass that is alone deletes no more than it has to.  What it believes  *)
(* of the directory is then never more than what is there: files only grow *)
(* until it unlinks them.                                                  *)

(* the cleanup child and the writer do not pass over the directory at once *)
OnePass == pass["cleaner"] = None \/ pass["writer"] = None

(* the directory d with the sizes that the pass has listed *)
Expect(d, todo) ==
    [f \in Ids |-> IF Listed(todo)[f] # None THEN Listed(todo)[f] ELSE d[f]]

(* What p has listed is there, at least as large, and its total is within  *)
(* what it may expect.                                                     *)
Covers(d, p) ==
    /\ \A i \in p.todo : d[i.id] # None /\ i.size <= d[i.id].size
    /\ p.total <= Allocated(Expect(d, p.todo), Ids)

LoneInv == \A r \in Runners : pass[r] # None => Covers(file, pass[r])

(* what writing and the passing of time may do to a directory *)
NoSmaller(e, d) ==
    \A f \in Ids : d[f] # None => e[f] # None /\ d[f].size <= e[f].size

(* x has the files of todo as they are listed, and the others as in d *)
Expected(x, d, todo) ==
    /\ Sized(x) /\ Sized(d)
    /\ \A i \in todo : i.id \in Ids /\ i.size \in Nat /\ i # None /\ x[i.id] = i
    /\ \A f \in Ids : (\A i \in todo : i.id # f) => x[f] = d[f]

(* What a pass expects of a file: what it has listed, or what is there. *)
LEMMA ExpectFacts ==
    ASSUME NEW m \in Nat, NEW d, GoodDir(d, m), NEW p, GoodPass(p, m)
    PROVE  Expected(Expect(d, p.todo), d, p.todo)
  <1>1. /\ p.todo \in SUBSET [id : Ids, size : Sizes, age : 0 .. m]
        /\ \A i, j \in p.todo : i.id = j.id => i = j
    BY DEF GoodPass
  <1>2. /\ Sized(Listed(p.todo))
        /\ \A i \in p.todo :
              i.id \in Present(Listed(p.todo)) /\ Listed(p.todo)[i.id] = i
        /\ \A f \in Present(Listed(p.todo)) :
              Listed(p.todo)[f] \in p.todo /\ Listed(p.todo)[f].id = f
    BY <1>1, ListedFacts
  <1>3. Sized(d)
    BY DirSized
  <1>4. ASSUME NEW i \in p.todo
        PROVE  /\ i.id \in Ids /\ i.size \in Nat /\ i # None
               /\ Expect(d, p.todo)[i.id] = i
    <2>1. i.id \in Ids /\ i.size \in Sizes
      BY <1>1
    <2>2. i # None
      BY <1>2 DEF Present
    <2> QED BY <1>2, <2>1, <2>2, CleanupAssumption DEF Expect, Sizes
  <1>5. ASSUME NEW f \in Ids, \A i \in p.todo : i.id # f
        PROVE  Expect(d, p.todo)[f] = d[f]
    <2>1. f \notin Present(Listed(p.todo))
      BY <1>2, <1>5
    <2> QED BY <2>1 DEF Present, Expect
  <1>6. ASSUME NEW f \in Present(Expect(d, p.todo))
        PROVE  Expect(d, p.todo)[f].size \in Nat
    <2>1. f \in Ids /\ Expect(d, p.todo)[f] # None
      BY DEF Present
    <2>2. CASE \E i \in p.todo : i.id = f
      BY <1>4, <2>2
    <2>3. CASE \A i \in p.todo : i.id # f
      BY <1>3, <1>5, <2>1, <2>3 DEF Sized, Present
    <2> QED BY <2>2, <2>3
  <1> QED BY <1>3, <1>4, <1>5, <1>6 DEF Sized, Expected

(* The total is no more than what the directory takes. *)
LEMMA CoveredTotal ==
    ASSUME NEW m \in Nat, NEW d, GoodDir(d, m), NEW p, GoodPass(p, m), Covers(d, p)
    PROVE  p.total <= Allocated(d, Ids)
  <1> DEFINE x == Expect(d, p.todo)
  <1>1. /\ Sized(x) /\ Sized(d) /\ p.total \in Nat
        /\ \A i \in p.todo : i.id \in Ids /\ i.size \in Nat /\ x[i.id] = i
        /\ \A f \in Ids : (\A i \in p.todo : i.id # f) => x[f] = d[f]
    <2>1. Expected(x, d, p.todo)
      BY ExpectFacts
    <2>2. p.total \in Nat
      BY DEF GoodPass
    <2> HIDE DEF x
    <2> QED BY <2>1, <2>2 DEF Expected
  <1>2. p.total <= Allocated(x, Ids)
    BY DEF Covers
  <1> HIDE DEF x
  <1>3. Within(x, d, Ids)
    <2> SUFFICES ASSUME NEW f \in Present(x)
                 PROVE  f \in Present(d) /\ x[f].size <= d[f].size
      BY DEF Within
    <2>1. f \in Ids /\ x[f] # None /\ x[f].size \in Nat
      BY <1>1 DEF Present, Sized
    <2>2. CASE \E i \in p.todo : i.id = f
      BY <1>1, <2>1, <2>2 DEF Covers, Present
    <2>3. CASE \A i \in p.todo : i.id # f
      BY <1>1, <2>1, <2>3 DEF Present
    <2> QED BY <2>2, <2>3
  <1>4. Allocated(x, Ids) <= Allocated(d, Ids)
    BY <1>1, <1>3, AllocatedMono
  <1>5. Allocated(x, Ids) \in Nat /\ Allocated(d, Ids) \in Nat
    BY <1>1, AllocatedFacts
  <1> QED BY <1>1, <1>2, <1>4, <1>5

(* Files may grow while the pass is under way. *)
LEMMA CoversGrowth ==
    ASSUME NEW m \in Nat, NEW d, GoodDir(d, m), NEW e, GoodDir(e, m),
           NEW p, GoodPass(p, m), Covers(d, p), NoSmaller(e, d)
    PROVE  Covers(e, p)
  <1> DEFINE x == Expect(d, p.todo)
             y == Expect(e, p.todo)
  <1>1. /\ Sized(x) /\ Sized(d) /\ p.total \in Nat
        /\ \A i \in p.todo : /\ i.id \in Ids /\ i.size \in Nat /\ i # None
                             /\ x[i.id] = i
        /\ \A f \in Ids : (\A i \in p.todo : i.id # f) => x[f] = d[f]
    <2>1. Expected(x, d, p.todo)
      BY ExpectFacts
    <2>2. p.total \in Nat
      BY DEF GoodPass
    <2> HIDE DEF x
    <2> QED BY <2>1, <2>2 DEF Expected
  <1>2. /\ Sized(y) /\ Sized(e)
        /\ \A i \in p.todo : y[i.id] = i
        /\ \A f \in Ids : (\A i \in p.todo : i.id # f) => y[f] = e[f]
    <2>1. Expected(y, e, p.todo)
      BY ExpectFacts
    <2> HIDE DEF y
    <2> QED BY <2>1 DEF Expected
  <1>3. p.total <= Allocated(x, Ids)
    BY DEF Covers
  <1>4. ASSUME NEW i \in p.todo PROVE e[i.id] # None /\ i.size <= e[i.id].size
    <2>1. d[i.id] # None /\ i.size <= d[i.id].size
      BY DEF Covers
    <2>2. e[i.id] # None /\ d[i.id].size <= e[i.id].size
      BY <1>1, <2>1 DEF NoSmaller
    <2>3. d[i.id].size \in Nat /\ e[i.id].size \in Nat /\ i.size \in Nat
      BY <1>1, <1>2, <2>1, <2>2 DEF Sized, Present
    <2> QED BY <2>1, <2>2, <2>3
  <1> HIDE DEF x, y
  <1>5. Within(x, y, Ids)
    <2> SUFFICES ASSUME NEW f \in Present(x)
                 PROVE  f \in Present(y) /\ x[f].size <= y[f].size
      BY DEF Within
    <2>1. f \in Ids /\ x[f] # None /\ x[f].size \in Nat
      BY <1>1 DEF Present, Sized
    <2>2. CASE \E i \in p.todo : i.id = f
      <3>1. x[f] = y[f]
        BY ONLY <1>1, <1>2, <2>2
      <3> QED BY ONLY <2>1, <3>1 DEF Present
    <2>3. CASE \A i \in p.todo : i.id # f
      <3>1. x[f] = d[f] /\ y[f] = e[f]
        BY ONLY <1>1, <1>2, <2>1, <2>3
      <3> QED BY <1>1, <2>1, <3>1 DEF Present, NoSmaller
    <2> QED BY <2>2, <2>3
  <1>6. Allocated(x, Ids) <= Allocated(y, Ids)
    BY <1>1, <1>2, <1>5, AllocatedMono
  <1>7. Allocated(x, Ids) \in Nat /\ Allocated(y, Ids) \in Nat
    BY <1>1, <1>2, AllocatedFacts
  <1>8. p.total <= Allocated(y, Ids)
    <2>1. p.total \in Nat
      BY <1>1
    <2> QED BY ONLY <1>3, <1>6, <1>7, <2>1
  <1> QED BY <1>4, <1>8 DEF Covers, y

(* The scan lists what is there. *)
LEMMA ScanCovers ==
    ASSUME NEW m \in Nat, NEW d, GoodDir(d, m), NEW todo,
           \/ todo = {}
           \/ todo = {[id |-> f, size |-> d[f].size, age |-> d[f].age] :
                         f \in Evictable(d)}
    PROVE  Covers(d, [total |-> Allocated(d, Ids), todo |-> todo])
  <1> DEFINE p == [total |-> Allocated(d, Ids), todo |-> todo]
             x == Expect(d, todo)
  <1>1. GoodPass(p, m) /\ p.todo = todo /\ p.total = Allocated(d, Ids)
    BY ScanGood
  <1> HIDE DEF p
  <1>2. /\ Sized(x) /\ Sized(d)
        /\ \A i \in todo : i.id \in Ids /\ i.size \in Nat /\ i # None /\ x[i.id] = i
        /\ \A f \in Ids : (\A i \in todo : i.id # f) => x[f] = d[f]
    <2>1. Expected(Expect(d, p.todo), d, p.todo)
      BY <1>1, ExpectFacts
    <2>2. Expected(x, d, todo)
      BY <1>1, <2>1
    <2> HIDE DEF x
    <2> QED BY <2>2 DEF Expected
  <1>3. ASSUME NEW i \in todo PROVE d[i.id] # None /\ i.size = d[i.id].size
    <2>1. PICK f \in Evictable(d) : i = [id |-> f, size |-> d[f].size, age |-> d[f].age]
      OBVIOUS
    <2> QED BY <2>1 DEF Evictable, Present
  <1> HIDE DEF x
  <1>4. Within(d, x, Ids)
    <2> SUFFICES ASSUME NEW f \in Present(d)
                 PROVE  f \in Present(x) /\ d[f].size <= x[f].size
      BY DEF Within
    <2>1. f \in Ids /\ d[f] # None /\ d[f].size \in Nat
      BY <1>2 DEF Present, Sized
    <2>2. CASE \E i \in todo : i.id = f
      BY <1>2, <1>3, <2>1, <2>2 DEF Present
    <2>3. CASE \A i \in todo : i.id # f
      <3>1. x[f] = d[f]
        BY ONLY <1>2, <2>1, <2>3
      <3> QED BY ONLY <2>1, <3>1 DEF Present
    <2> QED BY <2>2, <2>3
  <1>5. Allocated(d, Ids) <= Allocated(x, Ids)
    BY <1>2, <1>4, AllocatedMono
  <1>6. Covers(d, p)
    <2>1. p.total <= Allocated(Expect(d, p.todo), Ids)
      BY <1>1, <1>5 DEF x
    <2>2. ASSUME NEW i \in p.todo
          PROVE  d[i.id] # None /\ i.size <= d[i.id].size
      <3>1. i \in todo
        BY <1>1
      <3>2. i.size \in Nat /\ d[i.id] # None /\ i.size = d[i.id].size
        BY <1>2, <1>3, <3>1
      <3> QED BY ONLY <3>2
    <2> QED BY <2>1, <2>2 DEF Covers
  <1> QED BY <1>6 DEF p

(* The pass unlinks a file it has listed. *)
LEMMA UnlinkCovers ==
    ASSUME NEW m \in Nat, NEW d, GoodDir(d, m), NEW p, GoodPass(p, m), Covers(d, p),
           NEW i \in p.todo, NEW e, e = [d EXCEPT ![i.id] = None]
    PROVE  Covers(e, [total |-> p.total - i.size, todo |-> p.todo \ {i}])
  <1> DEFINE q == [total |-> p.total - i.size, todo |-> p.todo \ {i}]
             x == Expect(d, p.todo)
             y == Expect(e, p.todo \ {i})
  <1>1. GoodPass(q, m) /\ q.todo = p.todo \ {i} /\ q.total = p.total - i.size
    BY UnlinkGood
  <1>2. /\ \A j \in p.todo : j.id = i.id => j = i
        /\ p.total \in Nat
    BY DEF GoodPass
  <1>3. /\ Sized(x) /\ Sized(d)
        /\ \A j \in p.todo : /\ j.id \in Ids /\ j.size \in Nat /\ j # None
                             /\ x[j.id] = j
        /\ \A f \in Ids : (\A j \in p.todo : j.id # f) => x[f] = d[f]
    <2>1. Expected(x, d, p.todo)
      BY ExpectFacts
    <2> HIDE DEF x
    <2> QED BY <2>1 DEF Expected
  <1>4. GoodDir(e, m) /\ \A f \in Ids : f # i.id => e[f] = d[f]
    BY DEF GoodDir
  <1> HIDE DEF q
  <1>5. /\ Sized(y) /\ Sized(e)
        /\ \A j \in p.todo \ {i} : y[j.id] = j
        /\ \A f \in Ids : (\A j \in p.todo \ {i} : j.id # f) => y[f] = e[f]
    <2>1. m \in Nat /\ GoodDir(e, m) /\ GoodPass(q, m)
      BY <1>1, <1>4
    <2>2. Expected(Expect(e, q.todo), e, q.todo)
      BY ONLY <2>1, ExpectFacts
    <2>3. Expected(y, e, p.todo \ {i})
      BY <1>1, <2>2
    <2> HIDE DEF y
    <2> QED BY <2>3 DEF Expected
  <1>6. p.total <= Allocated(x, Ids)
    BY DEF Covers
  <1> HIDE DEF x, y
  <1>7. Within(x, y, Ids \ {i.id})
    <2> SUFFICES ASSUME NEW f \in Present(x), f # i.id
                 PROVE  f \in Present(y) /\ x[f].size <= y[f].size
      BY DEF Within
    <2>1. f \in Ids /\ x[f] # None /\ x[f].size \in Nat
      BY <1>3 DEF Present, Sized
    <2>2. CASE \E j \in p.todo : j.id = f
      BY <1>3, <1>5, <2>1, <2>2 DEF Present
    <2>3. CASE \A j \in p.todo : j.id # f
      BY <1>3, <1>4, <1>5, <2>1, <2>3 DEF Present
    <2> QED BY <2>2, <2>3
  <1>8. Allocated(x, Ids \ {i.id}) <= Allocated(y, Ids \ {i.id})
    BY <1>3, <1>5, <1>7, AllocatedMono
  <1>9. Allocated(x, Ids) = i.size + Allocated(x, Ids \ {i.id})
    <2>1. i.id \in Ids \cap Present(x) /\ x[i.id].size = i.size
      BY <1>3 DEF Present
    <2> QED BY <1>3, <2>1, AllocatedFacts
  <1>10. Allocated(y, Ids) = Allocated(y, Ids \ {i.id})
    <2>1. i.id \in Ids /\ e[i.id] = None
      BY <1>3 DEF GoodDir
    <2>2. y[i.id] = None
      BY <1>2, <1>5, <2>1
    <2> QED BY <1>5, <2>2, AllocatedFacts DEF Present
  <1>11. /\ Allocated(x, Ids \ {i.id}) \in Nat /\ Allocated(y, Ids \ {i.id}) \in Nat
         /\ i.size \in Nat
    <2>1. Ids \ {i.id} \in SUBSET Ids /\ Sized(x) /\ Sized(y)
      BY <1>3, <1>5
    <2>2. Allocated(x, Ids \ {i.id}) \in Nat /\ Allocated(y, Ids \ {i.id}) \in Nat
      BY ONLY <2>1, AllocatedFacts
    <2> QED BY <1>3, <2>2
  <1>12. q.total <= Allocated(y, Ids)
    <2>1. q.total = p.total - i.size /\ p.total \in Nat
      BY <1>1, <1>2
    <2> QED BY ONLY <1>6, <1>8, <1>9, <1>10, <1>11, <2>1
  <1>13. ASSUME NEW j \in q.todo PROVE e[j.id] # None /\ j.size <= e[j.id].size
    <2>1. j \in p.todo /\ j.id # i.id
      BY <1>1, <1>2
    <2> QED BY <1>3, <1>4, <2>1 DEF Covers
  <1>14. Covers(e, q)
    BY <1>1, <1>12, <1>13 DEF Covers, y
  <1> QED BY <1>14 DEF q

(* A write leaves files as they are or makes one larger. *)
LEMMA StoredGrows ==
    ASSUME CleanupInv, bin # None, NEW other, NEW missed, NEW grow \in 0 .. 1,
           Stored(other, missed, grow)
    PROVE  NoSmaller(file', file) /\ Present(file') = Present(file)
  <1>1. GoodDir(file, MaxAge) /\ GoodBin(file, bin, tlog, unseen)
    BY CleanupParts
  <1>2. bin.id \in Ids
    BY <1>1 DEF GoodBin
  <1>3. ASSUME NEW f \in Ids, file[f] # None
        PROVE  file[f].size \in Nat
    BY <1>1, <1>3, DirSized DEF Sized, Present
  <1>4. CASE file[bin.id] = None
    BY <1>3, <1>4 DEF Stored, NoSmaller, Present
  <1>5. CASE file[bin.id] # None
    <2> DEFINE new == [size |-> file[bin.id].size + grow, age |-> 0]
    <2>1. new \in [size : Nat, age : Nat] /\ new.size >= file[bin.id].size
      BY <1>2, <1>3, <1>5
    <2>2. new # None
      BY <2>1, NoneAssumption
    <2>3. file' = [file EXCEPT ![bin.id] = new]
      BY <1>5 DEF Stored
    <2> HIDE DEF new
    <2>4. \A f \in Ids : file'[f] = IF f = bin.id THEN new ELSE file[f]
      BY <1>1, <2>3 DEF GoodDir
    <2>5. new.size \in Nat
      BY <2>1
    <2> QED BY <1>2, <1>3, <1>5, <2>1, <2>2, <2>4, <2>5 DEF NoSmaller, Present
  <1> QED BY <1>4, <1>5

(* The sweep of a lone pass stays within what is there. *)
LEMMA LoneNext ==
    CleanupInv /\ CleanupInv' /\ OnePass /\ OnePass' /\ LoneInv /\ [Next]_vars
       => LoneInv'
  <1> SUFFICES ASSUME CleanupInv, CleanupInv', OnePass, OnePass', LoneInv,
                      [Next]_vars
               PROVE  LoneInv'
    OBVIOUS
  <1>1. /\ MaxAge \in Nat /\ GoodDir(file, MaxAge) /\ MaxAge' = MaxAge
        /\ GoodDir(file', MaxAge) /\ pass = [r \in Runners |-> pass[r]]
        /\ \A r \in Runners : pass[r] # None => GoodPass(pass[r], MaxAge)
        /\ \A r \in Runners : pass[r] # None => Covers(file, pass[r])
    <2>1. retention' = retention
      BY DEF Next, CleanerWakes, CleanerSleeps, Unlink, SessionNext, OpenTlog, OpenBin,
             BinBlock, TlogWrite, BinAfterPass, CloseBin, EndSession, Age, vars
    <2>2. MaxAge' = MaxAge
      BY <2>1 DEF MaxAge
    <2>3. GoodDir(file', MaxAge')
      BY DEF CleanupInv
    <2> QED BY <2>2, <2>3, CleanupParts DEF LoneInv
  <1>2. ASSUME NoSmaller(file', file),
               \A r \in Runners : pass'[r] \in {pass[r], None}
        PROVE  LoneInv'
    <2> SUFFICES ASSUME NEW r \in Runners, pass'[r] # None
                 PROVE  Covers(file', pass'[r])
      BY DEF LoneInv
    <2>1. /\ pass'[r] = pass[r] /\ pass[r] # None
          /\ GoodPass(pass[r], MaxAge) /\ Covers(file, pass[r])
      BY <1>1, <1>2
    <2>2. Covers(file', pass[r])
      BY <1>1, <1>2, <2>1, CoversGrowth
    <2> QED BY <2>1, <2>2
  <1>3. file' = file => NoSmaller(file', file)
    BY <1>1, DirSized DEF NoSmaller, Sized, Present
  <1>4. ASSUME NEW r \in Runners, NEW d, GoodDir(d, MaxAge), file' = d, Scan(r, d)
        PROVE  LoneInv'
    <2> DEFINE todo == IF Over(Allocated(d, Ids), r)
                       THEN {[id |-> f, size |-> d[f].size, age |-> d[f].age] :
                                f \in Evictable(d)}
                       ELSE {}
               p == [total |-> Allocated(d, Ids), todo |-> todo]
    <2>1. Covers(d, p)
      BY <1>1, <1>4, ScanCovers
    <2>2. p # None
      <3>1. GoodPass(p, MaxAge)
        BY <1>1, <1>4, ScanGood
      <3> HIDE DEF p
      <3>2. p \in [total : Nat, todo : SUBSET [id : Ids, size : Nat, age : Nat]]
        BY <1>1, <3>1, CleanupAssumption DEF GoodPass, Sizes
      <3> QED BY <3>2, NoneAssumption
    <2>3. pass' = [pass EXCEPT ![r] = p]
      BY <1>4 DEF Scan
    <2> HIDE DEF p
    <2>4. pass'[r] = p
      BY <1>1, <2>3
    <2>5. \A q \in Runners \ {r} : pass'[q] = None
      BY <2>2, <2>4 DEF OnePass, Runners
    <2> QED BY <1>4, <2>1, <2>4, <2>5 DEF LoneInv
  <1>5. CASE CleanerWakes
    BY <1>1, <1>4, <1>5 DEF CleanerWakes, Runners
  <1>6. CASE CleanerSleeps \/ CloseBin \/ EndSession \/ UNCHANGED vars
    <2>1. file' = file /\ \A r \in Runners : pass'[r] \in {pass[r], None}
      BY <1>1, <1>6 DEF CleanerSleeps, CloseBin, EndSession, vars, Runners
    <2> QED BY <1>2, <1>3, <2>1
  <1>7. ASSUME NEW r \in Runners, Unlink(r) PROVE LoneInv'
    <2>1. PICK i \in Oldest(pass[r].todo) :
            /\ file' = [file EXCEPT ![i.id] = None]
            /\ pass' = [pass EXCEPT ![r].todo = @ \ {i},
                            ![r].total = IF file[i.id] # None THEN @ - i.size
                                         ELSE @]
      BY <1>7 DEF Unlink
    <2>2. /\ pass[r] # None /\ i \in pass[r].todo /\ GoodPass(pass[r], MaxAge)
          /\ Covers(file, pass[r])
      BY <1>1, <1>7 DEF Unlink, Oldest
    <2>3. pass[r] \in [total : Nat,
                       todo : SUBSET [id : Ids, size : Sizes, age : 0 .. MaxAge]]
      BY <2>2 DEF GoodPass
    <2>4. file[i.id] # None
      BY <2>2 DEF Covers
    <2>5. /\ pass'[r] = [total |-> pass[r].total - i.size, todo |-> pass[r].todo \ {i}]
          /\ \A q \in Runners \ {r} : pass'[q] = pass[q]
      BY <1>1, <2>1, <2>3, <2>4
    <2>6. Covers(file', pass'[r])
      <3> DEFINE q == [total |-> pass[r].total - i.size, todo |-> pass[r].todo \ {i}]
      <3>1. /\ MaxAge \in Nat /\ GoodDir(file, MaxAge) /\ GoodPass(pass[r], MaxAge)
            /\ Covers(file, pass[r]) /\ i \in pass[r].todo
            /\ file' = [file EXCEPT ![i.id] = None]
        BY <1>1, <2>1, <2>2
      <3>2. Covers(file', q)
        BY ONLY <3>1, UnlinkCovers
      <3> QED BY <2>5, <3>2
    <2>7. \A q \in Runners \ {r} : pass'[q] = None
      <3>1. \A q \in Runners \ {r} : pass[q] = None
        BY <2>2 DEF OnePass, Runners
      <3> QED BY <2>5, <3>1
    <2> QED BY <2>6, <2>7 DEF LoneInv
  <1>8. ASSUME NEW f \in Ids, OpenTlog(f) \/ OpenBin(f) PROVE LoneInv'
    <2>1. /\ file[f] = None /\ file' = [file EXCEPT ![f] = [size |-> 0, age |-> 0]]
          /\ pass' = pass
      BY <1>8 DEF OpenTlog, OpenBin, Fresh
    <2>2. \A g \in Ids : file[g] # None => file'[g] = file[g] /\ file[g].size \in Nat
      BY <1>1, <2>1, DirSized DEF GoodDir, Sized, Present
    <2> QED BY <1>2, <2>1, <2>2 DEF NoSmaller
  <1>9. CASE TlogWrite
    <2>1. pass' = pass /\ tlog # None
      BY <1>9 DEF TlogWrite
    <2>2. CASE file[tlog] = None
      BY <1>2, <1>3, <1>9, <2>1, <2>2 DEF TlogWrite
    <2>3. CASE file[tlog] # None
      <3> DEFINE new == [size |-> file[tlog].size + 1, age |-> 0]
      <3>1. file' = [file EXCEPT ![tlog] = new]
        BY <1>9, <2>3 DEF TlogWrite
      <3>2. \A g \in Ids : file[g] # None => file[g].size \in Nat
        BY <1>1, DirSized DEF Sized, Present
      <3>3. tlog \in Ids
        BY <2>1, CleanupParts
      <3>4. new \in [size : Nat, age : Nat] /\ file[tlog].size <= new.size
        BY <2>3, <3>2, <3>3
      <3>5. new # None
        BY <3>4, NoneAssumption
      <3> HIDE DEF new
      <3>6. \A g \in Ids : file'[g] = IF g = tlog THEN new ELSE file[g]
        BY <1>1, <3>1 DEF GoodDir
      <3>7. NoSmaller(file', file)
        BY <3>2, <3>4, <3>5, <3>6 DEF NoSmaller
      <3> QED BY <1>2, <2>1, <3>7
    <2> QED BY <2>2, <2>3
  <1>10. ASSUME NEW due \in BOOLEAN, BinBlock(due) PROVE LoneInv'
    <2>1. ASSUME NEW grow \in 0 .. 1, Stored(bin.other, unseen, grow), pass' = pass
          PROVE  LoneInv'
      BY <1>2, <1>10, <2>1, StoredGrows DEF BinBlock
    <2>2. CASE Scan("writer", file) /\ file' = file
      BY <1>1, <1>4, <2>2 DEF Runners
    <2>3. CASE file' = file /\ pass' = pass
      BY <1>2, <1>3, <2>3
    <2> QED BY <1>10, <2>1, <2>2, <2>3 DEF BinBlock
  <1>11. CASE BinAfterPass
    <2>1. \A r \in Runners : pass'[r] \in {pass[r], None}
      BY <1>1, <1>11 DEF BinAfterPass, Runners
    <2>2. bin # None
      BY <1>11, CleanupParts DEF BinAfterPass, PassDone
    <2>3. NoSmaller(file', file)
      BY <1>3, <1>11, <2>2, StoredGrows DEF BinAfterPass
    <2> QED BY <1>2, <2>1, <2>3
  <1>12. CASE Age
    <2>1. pass' = pass
      BY <1>12 DEF Age
    <2>2. ASSUME NEW f \in Ids, file[f] # None
          PROVE  file'[f] # None /\ file[f].size <= file'[f].size
      <3>1. file[f] \in [size : Sizes, age : 0 .. MaxAge] /\ file[f].size \in Nat
        BY <1>1, <2>2, DirSized DEF GoodDir, Sized, Present
      <3>2. CASE file[f].age = MaxAge
        BY <1>12, <2>2, <3>1, <3>2 DEF Age
      <3>3. CASE file[f].age # MaxAge
        <4> DEFINE new == [size |-> file[f].size, age |-> file[f].age + 1]
        <4>1. file'[f] = new
          BY <1>12, <2>2, <3>1, <3>3 DEF Age
        <4>2. new \in [size : Nat, age : Nat] /\ file[f].size <= new.size
          BY <1>1, <3>1
        <4> HIDE DEF new
        <4> QED BY <4>1, <4>2, NoneAssumption
      <3> QED BY <3>2, <3>3
    <2> QED BY <1>2, <2>1, <2>2 DEF NoSmaller
  <1> QED
    BY <1>5, <1>6, <1>7, <1>8, <1>9, <1>10, <1>11, <1>12 DEF Next, SessionNext
(* While a pass is alone it unlinks nothing that it could have spared:     *)
(* telemetry takes more than 80% of its quota at each unlink, as the       *)
(* comment in enforce_quota says.  That two passes may run at once is      *)
(* therefore the only way to delete more.                                  *)
THEOREM EvictedWhenAlone == Spec /\ []OnePass => EvictedForNeed
  <1> DEFINE Freed(r) == /\ pass[r] # None /\ pass'[r] # None /\ pass'[r] # pass[r]
                         /\ Present(file') # Present(file)
             Need(r) == Allocated(file, Ids) + Needed(r) > TARGET
  <1>1. CleanupInv /\ LoneInv /\ [Next]_vars
          => [\A r \in Runners : Freed(r) => Need(r)]_vars
    <2> SUFFICES ASSUME CleanupInv, LoneInv, Next, NEW r \in Runners, Freed(r)
                 PROVE  Need(r)
      OBVIOUS
    <2>1. /\ MaxAge \in Nat /\ GoodDir(file, MaxAge) /\ pass = [q \in Runners |-> pass[q]]
          /\ GoodPass(pass[r], MaxAge) /\ Covers(file, pass[r])
      BY CleanupParts DEF LoneInv
    <2>2. ASSUME NEW q \in Runners, Unlink(q) PROVE Need(r)
      <3>1. q = r
        BY <2>1, <2>2 DEF Unlink
      <3>2. ~(pass[r].total + Needed(r) <= TARGET)
        BY <2>2, <3>1 DEF Unlink, PassDone
      <3>3. pass[r].total <= Allocated(file, Ids)
        BY <2>1, CoveredTotal
      <3>4. /\ pass[r].total \in Nat /\ Allocated(file, Ids) \in Nat
            /\ Needed(r) \in Nat /\ TARGET \in Nat
        <4>1. pass[r].total \in Nat /\ TARGET \in Nat
          BY <2>1, CleanupAssumption DEF GoodPass
        <4>2. Allocated(file, Ids) \in Nat
          BY <2>1, DirSized, AllocatedFacts
        <4>3. Needed(r) \in Nat
          BY DEF Needed
        <4> QED BY <4>1, <4>2, <4>3
      <3> QED BY <3>2, <3>3, <3>4
    <2>3. CASE CleanerWakes
      BY <2>1, <2>3 DEF CleanerWakes, Scan, Runners
    <2>4. CASE \/ CleanerSleeps \/ SessionNext \/ Age
      BY <2>1, <2>4 DEF CleanerSleeps, SessionNext, OpenTlog, OpenBin, BinBlock,
         TlogWrite, BinAfterPass, CloseBin, EndSession, Scan, Age, Runners
    <2> QED BY <2>2, <2>3, <2>4 DEF Next
  <1>2. Init => LoneInv
    BY DEF Init, LoneInv
  <1>3. CleanupInv /\ CleanupInv' /\ OnePass /\ OnePass' /\ LoneInv /\ [Next]_vars
          => LoneInv'
    BY LoneNext
  <1>4. Spec => []CleanupInv
    BY CleanupInvariant
  <1> HIDE DEF Freed, Need
  <1>5. Spec /\ []OnePass => []LoneInv
    BY <1>2, <1>3, <1>4, PTL DEF Spec
  <1>6. Spec /\ []OnePass => [][\A r \in Runners : Freed(r) => Need(r)]_vars
    BY <1>1, <1>4, <1>5, PTL DEF Spec
  <1> QED BY <1>6 DEF EvictedForNeed, Freed, Need
=============================================================================
