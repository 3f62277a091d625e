-------------------------- MODULE CompactionProofs --------------------------
(***************************************************************************)
(* Proofs about the levels of leveldb: for any number of keys, levels,     *)
(* snapshots and writes and any limits on sizes, tables of a level below 0 *)
(* never overlap and of two entries for a key the newer is found first.    *)
(*                                                                         *)
(* Neither half is inductive.  A compaction runs without the mutex between *)
(* the choice of its inputs and the edit that installs its outputs, and    *)
(* memtables become tables meanwhile.  So the invariant says of the inputs *)
(* of a running compaction that they are still where they were found; that *)
(* no user key has room between them, so that no table can have been put   *)
(* there (Covered); that what stays in the next level lies beside them all *)
(* (Apart); and that what stays in their own level is newer than they are  *)
(* (StaysNewer), which is what AddBoundaryInputs is for.                   *)
(*                                                                         *)
(* CompactRange is left out (NoManual): the range of a manual compaction   *)
(* has room between its tables, and a memtable that is put there while it  *)
(* runs ends up inside an output.                                          *)
(*                                                                         *)
(* And the levels implement SnapshotStore: no flush, move or compaction    *)
(* changes the answer of a Get.  A Get stops at the first table that has   *)
(* its key; since newer entries are above, that is the newest entry of all *)
(* that are stored (GetIs), wherever they are.  A compaction drops what no *)
(* snapshot can see, and deletions with nothing below them; that nothing   *)
(* came to be below them while it ran, and that no read is older than its  *)
(* snapshot, is ReadsInv.  Where one both deletes and takes snapshots the  *)
(* entries for a key may be in two tables of the next level, of which a    *)
(* compaction takes one, and this is false (NoResurfacing).                *)
(***************************************************************************)
EXTENDS Compaction, FiniteSetTheorems, WellFoundedInduction, TLAPS

\* Nobody calls DB::CompactRange.
NoManual == ManualLevels = {}

\* A table lies between its bounds.
WellFormed(f) ==
  /\ f.num \in Nat /\ f.entries \subseteq Entries
  /\ Low(f) \in f.entries /\ High(f) \in f.entries
  /\ \A e \in f.entries : ~Less(e, Low(f)) /\ ~Less(High(f), e)
\* Entries of different writes.
Distinct(S) == \A a, b \in S : a.seq = b.seq => a = b
\* One set of entries lies before another.
AllLess(S, T) == \A a \in S, b \in T : Less(a, b)

\* What is stored, and where.
Tables == [num : Nat, entries : SUBSET Entries, smallest : Entries, largest : Entries]
Stored == mem \cup All(UNION {files[l] : l \in Levels})

\* The types; no manual compaction is asked for.
Typed ==
  /\ mem \subseteq Entries
  /\ files \in [Levels -> SUBSET Tables]
  /\ lastSeq \in 0..MaxSeq
  /\ snapshots \in [Handles -> {NoSnapshot} \cup 0..MaxSeq]
  /\ compactPointer \in [Levels -> {NoPointer} \cup Entries]
  /\ manual = {}
\* Each table has its entries between its bounds.
Formed == \A l \in Levels : \A f \in files[l] : WellFormed(f)
\* Every write has a number of its own, and a table of level 0 those before its own.
Numbered ==
  /\ Distinct(Stored)
  /\ \A e \in Stored : e.seq <= lastSeq
  /\ \A f \in files[0] : f.num <= lastSeq /\ \A e \in mem : f.num < e.seq

Precedes(f, g) == Less(High(f), Low(g))
\* Between the tables of a set there is no room for another user key.
Covered(tables) ==
  \A f, g \in tables, k \in Keys :
    Low(f).key <= k /\ k <= High(g).key => \E h \in tables : InRange(k, h)
\* What stays in the next level lies before all inputs or after all of them.
Apart(c) ==
  \A g \in files[c.level + 1] \ c.in1 :
    \/ \A f \in c.in0 \cup c.in1 : Precedes(f, g)
    \/ \A f \in c.in0 \cup c.in1 : Precedes(g, f)
\* What stays in the level is newer than what is taken, for the keys of both.
StaysNewer(level, tables) ==
  \A e \in All(files[level] \ tables), f \in All(tables) : e.key = f.key => e.seq > f.seq
\* The inputs of a compaction that may run while memtables are flushed.
GoodInputs(c) ==
  /\ c.level \in 0..NumLevels - 2
  /\ c.in0 \subseteq files[c.level] /\ c.in1 \subseteq files[c.level + 1] /\ c.in0 # {}
  /\ Covered(c.in0 \cup c.in1) /\ Apart(c) /\ StaysNewer(c.level, c.in0)
Compacting ==
  compaction = {} \/ \E c : compaction = {c} /\ GoodInputs(c)

LevelsInv ==
  /\ Typed /\ Formed /\ Numbered /\ LevelsDisjoint /\ NewerAbove /\ Compacting
\* What a step of the levels has to keep, whatever the compaction.
Shape == Formed /\ Numbered /\ LevelsDisjoint /\ NewerAbove

-----------------------------------------------------------------------------
(***************************************************************************)
(* Entries in order, and the files a compaction writes.                    *)
(***************************************************************************)
\* Subsets of the naturals have least elements.
LEMMA LeastNumber ==
  ASSUME NEW S, S \subseteq Nat, S # {}
  PROVE  \E m \in S : \A n \in S : m <= n
<1>. DEFINE Upto(n) == 0..n
            R == StrictSubsetOrdering(Nat)
            F == FiniteSubsetsOf(Nat)
            T == {Upto(n) : n \in S}
<1>1. IsWellFoundedOn(R, F)
  BY FS_StrictSubsetOrderingWellFounded
<1>2. \A n \in S : IsFiniteSet(Upto(n)) /\ Upto(n) \in SUBSET Nat
  BY FS_Interval
<1>3. T \subseteq F /\ T # {}
  BY <1>2 DEF FiniteSubsetsOf
<1>4. PICK x \in T : \A y \in T : <<y, x>> \notin R
  <2>. HIDE DEF R, F, T
  <2> QED  BY <1>1, <1>3, WFMin
<1>5. PICK m \in S : x = Upto(m)
  OBVIOUS
<1>6. ASSUME NEW n \in S, n < m PROVE FALSE
  <2>1. Upto(n) \subseteq Upto(m) /\ m \in Upto(m) /\ m \notin Upto(n)
    BY <1>6
  <2>2. <<Upto(n), Upto(m)>> \in (SUBSET Nat) \X (SUBSET Nat)
    BY <1>2
  <2>3. <<Upto(n), Upto(m)>> \in R
    BY <2>1, <2>2 DEF StrictSubsetOrdering
  <2> QED
    BY <2>3, <1>4, <1>5
<1> QED
  BY <1>6

\* Of a set with a measure, some element has the least.
LEMMA LeastElement ==
  ASSUME NEW S, S # {}, NEW f \in [S -> Nat]
  PROVE  \E a \in S : \A e \in S : f[a] <= f[e]
<1>. DEFINE K == {f[e] : e \in S}
<1>1. K \subseteq Nat /\ K # {}
  OBVIOUS
<1>2. PICK m \in K : \A n \in K : m <= n
  <2>. HIDE DEF K
  <2> QED  BY <1>1, LeastNumber
<1> QED
  BY <1>2

\* A set of entries has a smallest and a largest one, as Smallest and Largest say.
LEMMA SmallestIs ==
  ASSUME NEW S, S \subseteq Entries, S # {}, SizesAssumption
  PROVE  /\ Smallest(S) \in S /\ \A e \in S : ~Less(e, Smallest(S))
         /\ Largest(S) \in S /\ \A e \in S : ~Less(Largest(S), e)
<1>0. MaxKey \in Nat /\ MaxSeq \in Nat /\ \A e \in S : e.key \in 1..MaxKey /\ e.seq \in 1..MaxSeq
  BY DEF SizesAssumption, Entries, Keys
<1>1. PICK a \in S : \A e \in S : a.key <= e.key
  <2>. DEFINE f == [e \in S |-> e.key]
  <2>1. f \in [S -> Nat]
    BY <1>0
  <2>2. PICK a \in S : \A e \in S : f[a] <= f[e]
    BY <2>1, LeastElement
  <2> QED  BY <2>2
<1>2. PICK b \in S : \A e \in S : e.key <= b.key
  <2>. DEFINE f == [e \in S |-> MaxKey - e.key]
  <2>1. f \in [S -> Nat]
    BY <1>0
  <2>2. PICK b \in S : \A e \in S : f[b] <= f[e]
    BY <2>1, LeastElement
  <2> QED  BY <2>2, <1>0
<1>3. PICK c \in S : c.key = a.key /\ \A e \in S : e.key = a.key => e.seq <= c.seq
  <2>. DEFINE T == {e \in S : e.key = a.key}
              f == [e \in T |-> MaxSeq - e.seq]
  <2>1. f \in [T -> Nat] /\ T # {}
    BY <1>0
  <2>2. PICK c \in T : \A e \in T : f[c] <= f[e]
    BY <2>1, LeastElement
  <2> QED  BY <2>2, <1>0
<1>4. PICK d \in S : d.key = b.key /\ \A e \in S : e.key = b.key => d.seq <= e.seq
  <2>. DEFINE T == {e \in S : e.key = b.key}
              f == [e \in T |-> e.seq]
  <2>1. f \in [T -> Nat] /\ T # {}
    BY <1>0
  <2>2. PICK d \in T : \A e \in T : f[d] <= f[e]
    BY <2>1, LeastElement
  <2> QED  BY <2>2
<1>5. \A e \in S : ~Less(e, c)
  BY <1>0, <1>1, <1>3 DEF Less
<1>6. \A e \in S : ~Less(d, e)
  BY <1>0, <1>2, <1>4 DEF Less
<1> QED
  BY <1>5, <1>6 DEF Smallest, Largest

\* Entries of different writes are finitely many: there is a write per number.
LEMMA DistinctIsFinite ==
  ASSUME NEW S, S \subseteq Entries, Distinct(S), SizesAssumption
  PROVE  IsFiniteSet(S) /\ Cardinality(S) \in Nat
<1>. DEFINE f == [e \in S |-> e.seq]
<1>1. MaxSeq \in Nat /\ IsFiniteSet(1..MaxSeq)
  BY FS_Interval DEF SizesAssumption
<1>2. f \in Injection(S, 1..MaxSeq)
  BY DEF Injection, IsInjective, Entries, Distinct
<1>3. IsFiniteSet(S)
  <2>. HIDE DEF f
  <2> QED  BY <1>1, <1>2, FS_Injection
<1> QED
  BY <1>3, FS_CardinalityType

\* KeysInOrder names every entry of such a set once, in the order of Less.
LEMMA KeysInOrderIs ==
  ASSUME NEW S, S \subseteq Entries, Distinct(S), SizesAssumption
  PROVE  /\ \A i \in 1..Cardinality(S) : KeysInOrder(S)[i] \in S
         /\ \A i, j \in 1..Cardinality(S) :
              i < j => Less(KeysInOrder(S)[i], KeysInOrder(S)[j])
         /\ \A e \in S : \E i \in 1..Cardinality(S) : KeysInOrder(S)[i] = e
<1>. DEFINE n == Cardinality(S)
            Smaller(e) == {f \in S : Less(f, e)}
            count == [e \in S |-> Cardinality(Smaller(e))]
<1>0. IsFiniteSet(S) /\ n \in Nat
  BY DistinctIsFinite
<1>1. \A e \in S : e.key \in Int /\ e.seq \in Int
  BY DEF Entries, SizesAssumption, Keys
<1>2. \A e \in S : count[e] = Cardinality(Smaller(e))
  OBVIOUS
<1>3. count \in [S -> 0..n - 1]
  <2>1. ASSUME NEW e \in S
        PROVE  Cardinality(Smaller(e)) \in Nat /\ Cardinality(Smaller(e)) < n
    <3>1. Smaller(e) \in SUBSET S /\ Smaller(e) # S
      BY <1>1 DEF Less
    <3>2. IsFiniteSet(Smaller(e)) /\ Cardinality(Smaller(e)) <= n /\ Cardinality(Smaller(e)) # n
      BY <1>0, <3>1, FS_Subset
    <3>3. Cardinality(Smaller(e)) \in Nat
      BY <3>2, FS_CardinalityType
    <3> QED  BY <3>2, <3>3, <1>0
  <2> QED  BY <2>1, <1>0
<1>4. ASSUME NEW a \in S, NEW b \in S, Less(a, b) PROVE count[a] < count[b]
  <2>1. Smaller(a) \in SUBSET Smaller(b) /\ Smaller(a) # Smaller(b)
    BY <1>1, <1>4 DEF Less
  <2>2. IsFiniteSet(Smaller(b))
    BY <1>0, FS_Subset
  <2>3. Cardinality(Smaller(a)) <= Cardinality(Smaller(b)) /\ Cardinality(Smaller(a)) # Cardinality(Smaller(b))
    BY <2>1, <2>2, FS_Subset
  <2>4. count[a] <= count[b] /\ count[a] # count[b]
    BY <2>3, <1>2
  <2> QED  BY <2>4, <1>3, <1>0
<1>5. \A i \in 1..n : KeysInOrder(S)[i] = CHOOSE e \in S : count[e] = i - 1
  BY DEF KeysInOrder
<1>. HIDE DEF count
<1>6. ASSUME NEW a \in S, NEW b \in S, a # b PROVE Less(a, b) \/ Less(b, a)
  BY <1>1, <1>6 DEF Less, Distinct
<1>7. ASSUME NEW a \in S, NEW b \in S, count[a] = count[b] PROVE a = b
  BY <1>7, <1>3, <1>4, <1>6, <1>0
<1>8. \A i \in 1..n : \E e \in S : count[e] = i - 1
  <2>. DEFINE rank == [e \in S |-> count[e] + 1]
  <2>1. rank \in Injection(S, 1..n)
    BY <1>0, <1>3, <1>7 DEF Injection, IsInjective
  <2>2. IsFiniteSet(1..n) /\ Cardinality(1..n) = n
    BY <1>0, FS_Interval
  <2>3. rank \in Surjection(S, 1..n)
    <3>. HIDE DEF rank
    <3> QED  BY <2>1, <2>2, FS_Injection
  <2>4. \A i \in 1..n : \E e \in S : rank[e] = i
    <3>. HIDE DEF rank
    <3> QED  BY <2>3 DEF Surjection
  <2> QED  BY <2>4, <1>0, <1>3
<1>. DEFINE order(i) == CHOOSE e \in S : count[e] = i - 1
<1>9. \A i \in 1..n : order(i) \in S /\ count[order(i)] = i - 1
  BY <1>8
<1>. HIDE DEF order
<1>10. ASSUME NEW i \in 1..n, NEW j \in 1..n, i < j PROVE Less(order(i), order(j))
  <2>1. order(i) # order(j) /\ ~Less(order(j), order(i))
    BY <1>9, <1>4, <1>10, <1>0
  <2> QED  BY <2>1, <1>9, <1>6
<1>11. ASSUME NEW e \in S PROVE \E i \in 1..n : order(i) = e
  <2>1. count[e] + 1 \in 1..n /\ count[e] = (count[e] + 1) - 1
    BY <1>3, <1>0
  <2> QED  BY <2>1, <1>9, <1>7
<1>12. \A i \in 1..n : KeysInOrder(S)[i] = order(i)
  BY <1>5 DEF order
<1> QED
  BY <1>9, <1>10, <1>11, <1>12

\* Progress is the loop of DoCompactionWork: each value comes from the one before it.
LEMMA ProgressIs ==
  ASSUME NEW c, NEW order, NEW n \in Nat, DOMAIN order = 1..n
  PROVE  /\ Progress(c, order)[0] = NoOutput
         /\ \A i \in 1..n :
              Progress(c, order)[i] = Write1(c, Progress(c, order)[i - 1], order[i], i = 1)
<1>. DEFINE Pass(i, s) == IF i = 0 THEN NoOutput ELSE Write1(c, s, order[i], i = 1)
            Upto(m, g) == g = [i \in 0..m |-> Pass(i, g[i - 1])]
            Has(m) == \E g : Upto(m, g)
<1>0. Cardinality(DOMAIN order) = n
  BY FS_Interval
<1>1. Has(0)
  <2>1. Upto(0, [i \in 0..0 |-> NoOutput])
    OBVIOUS
  <2> QED  BY <2>1
<1>2. ASSUME NEW m \in Nat, Has(m) PROVE Has(m + 1)
  <2>1. PICK g : Upto(m, g)
    BY <1>2
  <2>. DEFINE h == [i \in 0..m + 1 |-> IF i = m + 1 THEN Pass(m + 1, g[m]) ELSE g[i]]
  <2>. HIDE DEF Pass
  <2>2. \A i \in 0..m : h[i] = g[i] /\ g[i] = Pass(i, g[i - 1])
    BY <2>1
  <2>3. \A i \in 0..m : h[i] = Pass(i, h[i - 1])
    <3>1. ASSUME NEW i \in 1..m PROVE h[i] = Pass(i, h[i - 1])
      <4>1. i \in 0..m /\ i - 1 \in 0..m
        OBVIOUS
      <4>2. h[i] = g[i] /\ g[i] = Pass(i, g[i - 1]) /\ h[i - 1] = g[i - 1]
        BY <4>1, <2>2
      <4>. HIDE DEF h
      <4> QED  BY <4>2
    <3>2. h[0] = Pass(0, h[0 - 1])
      BY <2>2 DEF Pass
    <3> QED  BY <3>1, <3>2
  <2>4. h[m + 1] = Pass(m + 1, h[(m + 1) - 1])
    BY <2>2
  <2>5. \A i \in 0..m + 1 : h[i] = Pass(i, h[i - 1])
    <3>. HIDE DEF h
    <3>1. \A i \in 0..m + 1 : i \in 0..m \/ i = m + 1
      OBVIOUS
    <3> QED  BY <3>1, <2>3, <2>4
  <2>6. Upto(m + 1, h)
    BY <2>5
  <2> QED  BY <2>6
<1>3. Has(n)
  <2>. DEFINE S == {m \in Nat : ~Has(m)}
  <2>. HIDE DEF Has
  <2>1. SUFFICES ASSUME ~Has(n) PROVE FALSE
    OBVIOUS
  <2>2. PICK m \in S : \A k \in S : m <= k
    BY <2>1, LeastNumber
  <2>3. m # 0 /\ m - 1 \in Nat /\ m - 1 \notin S
    BY <1>1, <2>2
  <2> QED  BY <2>2, <2>3, <1>2
<1>. DEFINE at == CHOOSE g : Upto(n, g)
<1>4. Progress(c, order) = at
  BY <1>0 DEF Progress
<1>5. Upto(n, at)
  BY <1>3
<1>. HIDE DEF at
<1>6. at[0] = NoOutput /\ \A i \in 1..n : at[i] = Write1(c, at[i - 1], order[i], i = 1)
  BY <1>5
<1> QED
  BY <1>4, <1>6

\* A table made of some entries is well formed and holds just these.
LEMMA TableIs ==
  ASSUME NEW S, S \subseteq Entries, S # {}, NEW num \in Nat, SizesAssumption
  PROVE  /\ WellFormed(Table(num, S)) /\ Table(num, S).entries = S /\ Table(num, S).num = num
BY SmallestIs DEF WellFormed, Table, Low, High

\* What a pass makes of the files: kept joins the open one, after which it or before
\* which the open one may end.
Extends(s, t, kept) ==
  \/ t.done = s.done /\ t.open = s.open \cup kept
  \/ s.open # {} /\ t.done = s.done \cup {s.open} /\ t.open = kept
  \/ kept # {} /\ t.done = s.done \cup {s.open \cup kept} /\ t.open = {}
  \/ /\ kept # {} /\ s.open # {}
     /\ t.done = s.done \cup {s.open, kept} /\ t.open = {}
Taken(c, e) == IF e \in Kept(c) THEN {e} ELSE {}

\* One pass of the loop of DoCompactionWork does one of these.
LEMMA Write1Is ==
  ASSUME NEW c, NEW s, NEW e, NEW isFirst
  PROVE  Extends(s, Write1(c, s, e, isFirst), Taken(c, e))
<1>. DEFINE t == Write1(c, s, e, isFirst)
            kept == Taken(c, e)
            passed == {f \in c.grandparents : Less(High(f), e)}
            more == IF isFirst THEN 0 ELSE s.overlapped + TotalFileSize(passed \ s.passed)
            stop == more > MaxGrandparents
            cut == stop /\ s.open # {}
            open == (IF cut THEN {} ELSE s.open) \cup kept
            full == kept # {} /\ Cardinality(open) >= MaxOutput
<1>1. /\ t.done = s.done \cup (IF cut THEN {s.open} ELSE {}) \cup (IF full THEN {open} ELSE {})
      /\ t.open = IF full THEN {} ELSE open
  BY DEF Write1, Taken
<1>2. cut => s.open # {}
  OBVIOUS
<1>3. full => kept # {}
  OBVIOUS
<1>. SUFFICES Extends(s, t, kept)
  OBVIOUS
<1>. HIDE DEF full, cut, t, kept
<1>4. CASE full /\ cut
  BY <1>1, <1>2, <1>3, <1>4 DEF Extends
<1>5. CASE full /\ ~cut
  BY <1>1, <1>3, <1>5 DEF Extends
<1>6. CASE ~full /\ cut
  BY <1>1, <1>2, <1>6 DEF Extends
<1>7. CASE ~full /\ ~cut
  BY <1>1, <1>7 DEF Extends
<1> QED
  BY <1>4, <1>5, <1>6, <1>7

\* What is written so far: all that is kept of what was read, in files one after
\* the other.
Written(s, S) ==
  /\ s.open \cup UNION s.done = S /\ {} \notin s.done
  /\ \A X, Y \in s.done : X # Y => AllLess(X, Y) \/ AllLess(Y, X)
  /\ \A X \in s.done : AllLess(X, s.open)

\* A pass over an entry that comes after all that was written keeps Written.
LEMMA Writes1 ==
  ASSUME NEW s, NEW t, NEW kept, Extends(s, t, kept),
         NEW S, Written(s, S), AllLess(S, kept)
  PROVE  Written(t, S \cup kept)
<1>1. /\ s.open \cup UNION s.done = S /\ {} \notin s.done
      /\ \A X, Y \in s.done : X # Y => AllLess(X, Y) \/ AllLess(Y, X)
      /\ \A X \in s.done : AllLess(X, s.open)
  BY DEF Written
<1>2. AllLess(s.open, kept) /\ \A X \in s.done : AllLess(X, kept) /\ AllLess(X, s.open \cup kept)
  BY <1>1 DEF AllLess
<1>3. \A X : AllLess(X, {})
  BY DEF AllLess
<1>4. CASE t.done = s.done /\ t.open = s.open \cup kept
  BY <1>1, <1>2, <1>4 DEF Written
<1>5. CASE s.open # {} /\ t.done = s.done \cup {s.open} /\ t.open = kept
  <2>1. t.open \cup UNION t.done = S \cup kept /\ {} \notin t.done
    BY <1>1, <1>5
  <2> QED  BY <2>1, <1>1, <1>2, <1>5 DEF Written
<1>6. CASE kept # {} /\ t.done = s.done \cup {s.open \cup kept} /\ t.open = {}
  <2>. DEFINE new == s.open \cup kept
  <2>1. new # {} /\ (UNION s.done) \cup new = S \cup kept /\ \A X \in s.done : AllLess(X, new)
    BY <1>1, <1>2, <1>6
  <2>2. t.done = s.done \cup {new}
    BY <1>6
  <2>. HIDE DEF new
  <2>3. t.open \cup UNION t.done = S \cup kept /\ {} \notin t.done
    BY <1>1, <2>1, <2>2, <1>6
  <2> QED  BY <2>1, <2>2, <2>3, <1>1, <1>3, <1>6 DEF Written
<1>7. CASE /\ kept # {} /\ s.open # {}
           /\ t.done = s.done \cup {s.open, kept} /\ t.open = {}
  <2>1. t.open \cup UNION t.done = S \cup kept /\ {} \notin t.done
    BY <1>1, <1>7
  <2>2. \A X, Y \in t.done : X # Y => AllLess(X, Y) \/ AllLess(Y, X)
    BY <1>1, <1>2, <1>7
  <2> QED  BY <2>1, <2>2, <1>3, <1>7 DEF Written
<1> QED
  BY <1>4, <1>5, <1>6, <1>7 DEF Extends

\* The output files of a compaction hold what is kept, one file after the other.
LEMMA OutputsAre ==
  ASSUME NEW c, All(c.in0 \cup c.in1) \subseteq Entries, Distinct(All(c.in0 \cup c.in1)),
         SizesAssumption
  PROVE  /\ \A f \in Outputs(c) : WellFormed(f) /\ f.num = 0 /\ f.entries # {}
         /\ \A f, g \in Outputs(c) : f # g => AllLess(f.entries, g.entries) \/ AllLess(g.entries, f.entries)
         /\ All(Outputs(c)) = Kept(c)
<1>. DEFINE input == All(c.in0 \cup c.in1)
            n == Cardinality(input)
            order == KeysInOrder(input)
            at == Progress(c, order)
            read(i) == {order[j] : j \in 1..i} \cap Kept(c)
<1>1. /\ n \in Nat /\ DOMAIN order = 1..n
      /\ \A i \in 1..n : order[i] \in input
      /\ \A i, j \in 1..n : i < j => Less(order[i], order[j])
      /\ \A e \in input : \E i \in 1..n : order[i] = e
  <2>1. DOMAIN order = 1..n
    BY DEF KeysInOrder
  <2> QED  BY <2>1, KeysInOrderIs, DistinctIsFinite
<1>2. at[0] = NoOutput /\ \A i \in 1..n : at[i] = Write1(c, at[i - 1], order[i], i = 1)
  <2>. HIDE DEF order, n
  <2> QED  BY <1>1, ProgressIs
<1>3. Kept(c) \subseteq input
  BY DEF Kept
<1>4. Outputs(c) = {Table(0, entries) : entries \in (at[n].done \cup {at[n].open}) \ {{}}}
  BY DEF Outputs
<1>. HIDE DEF at, order, input, n
<1>5. Written(at[0], read(0))
  <2>1. read(0) = {}
    OBVIOUS
  <2> QED  BY <1>2, <2>1 DEF Written, NoOutput
<1>6. ASSUME NEW i \in 1..n, Written(at[i - 1], read(i - 1)) PROVE Written(at[i], read(i))
  <2>1. AllLess(read(i - 1), Taken(c, order[i]))
    BY <1>1 DEF AllLess, Taken
  <2>2. 1..i = (1..i - 1) \cup {i}
    BY <1>1
  <2>3. read(i) = read(i - 1) \cup Taken(c, order[i])
    BY <2>2 DEF Taken
  <2>4. Extends(at[i - 1], at[i], Taken(c, order[i]))
    BY <1>2, Write1Is
  <2>. HIDE DEF read
  <2> QED  BY <1>6, <2>1, <2>3, <2>4, Writes1
<1>7. Written(at[n], read(n))
  <2>. DEFINE S == {i \in 0..n : ~Written(at[i], read(i))}
  <2>. HIDE DEF read
  <2>1. SUFFICES ASSUME ~Written(at[n], read(n)) PROVE FALSE
    OBVIOUS
  <2>2. PICK m \in S : \A k \in S : m <= k
    <3>1. S \subseteq Nat /\ S # {}
      BY <1>1, <2>1
    <3>. HIDE DEF S
    <3> QED  BY <3>1, LeastNumber
  <2>3. m # 0 /\ m \in 1..n /\ m - 1 \in 0..n /\ m - 1 \notin S
    BY <1>1, <1>5, <2>2
  <2> QED  BY <2>2, <2>3, <1>6
<1>8. read(n) = Kept(c)
  BY <1>1, <1>3
<1>9. Written(at[n], Kept(c))
  BY <1>7, <1>8
<1>. DEFINE written == (at[n].done \cup {at[n].open}) \ {{}}
<1>10. UNION written = Kept(c) /\ \A X \in written : X # {} /\ X \subseteq Entries
  <2>1. Kept(c) \subseteq Entries
    BY <1>3 DEF input
  <2> QED  BY <2>1, <1>9 DEF Written
<1>11. \A X, Y \in written : X # Y => AllLess(X, Y) \/ AllLess(Y, X)
  BY <1>9 DEF Written
<1>12. Outputs(c) = {Table(0, X) : X \in written}
  BY <1>4
<1>. HIDE DEF written
<1>13. \A X \in written : /\ WellFormed(Table(0, X)) /\ Table(0, X).entries = X
                          /\ Table(0, X).num = 0
  BY <1>10, TableIs
<1>14. All(Outputs(c)) = Kept(c)
  BY <1>10, <1>12, <1>13 DEF All
<1>15. \A f \in Outputs(c) : WellFormed(f) /\ f.num = 0 /\ f.entries # {}
  BY <1>10, <1>12, <1>13
<1>16. \A f, g \in Outputs(c) : f # g => AllLess(f.entries, g.entries) \/ AllLess(g.entries, f.entries)
  BY <1>11, <1>12, <1>13
<1> QED
  BY <1>14, <1>15, <1>16
-----------------------------------------------------------------------------
(***************************************************************************)
(* Which tables overlap.                                                   *)
(***************************************************************************)
\* The numbers of an entry are numbers.
LEMMA EntryIs ==
  ASSUME SizesAssumption
  PROVE  \A e \in Entries : e.key \in Keys /\ e.key \in Int /\ e.seq \in Int
BY DEF Entries, Keys, SizesAssumption

\* What the bounds of a well formed table say of its entries.
LEMMA FormedIs ==
  ASSUME NEW f, WellFormed(f), SizesAssumption
  PROVE  /\ Low(f) \in Entries /\ High(f) \in Entries
         /\ Low(f).key \in Keys /\ High(f).key \in Keys
         /\ Low(f).key \in Int /\ High(f).key \in Int
         /\ Low(f).seq \in Int /\ High(f).seq \in Int
         /\ Low(f).key <= High(f).key /\ ~Less(High(f), Low(f))
         /\ \A e \in f.entries : /\ e \in Entries /\ e.key \in Int /\ e.seq \in Int
                                 /\ Low(f).key <= e.key /\ e.key <= High(f).key
BY EntryIs DEF WellFormed, Less

\* GetRange: the bounds of some tables are bounds of theirs, and bound them all.
LEMMA RangeIs ==
  ASSUME NEW T, T # {}, \A f \in T : WellFormed(f), SizesAssumption
  PROVE  /\ \E p \in T : RangeOf(T).lo = Low(p)
         /\ \E p \in T : RangeOf(T).hi = High(p)
         /\ RangeOf(T).lo \in Entries /\ RangeOf(T).hi \in Entries
         /\ RangeOf(T).lo.key \in Int /\ RangeOf(T).hi.key \in Int
         /\ \A f \in T : /\ ~Less(Low(f), RangeOf(T).lo) /\ ~Less(RangeOf(T).hi, High(f))
                         /\ RangeOf(T).lo.key <= Low(f).key
                         /\ High(f).key <= RangeOf(T).hi.key
<1>. DEFINE L == {Low(f) : f \in T}
            H == {High(f) : f \in T}
<1>1. L \subseteq Entries /\ L # {} /\ H \subseteq Entries /\ H # {}
  BY FormedIs
<1>2. RangeOf(T).lo = Smallest(L) /\ RangeOf(T).hi = Largest(H)
  BY DEF RangeOf
<1>3. Smallest(L) \in L /\ \A e \in L : ~Less(e, Smallest(L))
  <2>. HIDE DEF L
  <2> QED  BY <1>1, SmallestIs
<1>4. Largest(H) \in H /\ \A e \in H : ~Less(Largest(H), e)
  <2>. HIDE DEF H
  <2> QED  BY <1>1, SmallestIs
<1>5. /\ \E p \in T : RangeOf(T).lo = Low(p)
      /\ \E p \in T : RangeOf(T).hi = High(p)
      /\ \A f \in T : ~Less(Low(f), RangeOf(T).lo) /\ ~Less(RangeOf(T).hi, High(f))
      /\ RangeOf(T).lo \in Entries /\ RangeOf(T).hi \in Entries
  BY <1>1, <1>2, <1>3, <1>4
<1> QED
  BY <1>5, EntryIs, FormedIs DEF Less

\* What GetOverlappingInputs answers, in level 0 and in the others.
LEMMA OverlappingIs ==
  ASSUME NEW level, NEW lo, NEW hi
  PROVE  /\ OverlappingInputs(level, lo, hi) \subseteq files[level]
         /\ \A f \in files[level] : Overlaps(f, lo, hi) => f \in OverlappingInputs(level, lo, hi)
         /\ level # 0 => \A f \in OverlappingInputs(level, lo, hi) : Overlaps(f, lo, hi)
         /\ level = 0 => \A tables \in SUBSET files[0] : HasOverlapping(tables, lo, hi) =>
                           OverlappingInputs(0, lo, hi) \subseteq tables
         /\ level = 0 => HasOverlapping(OverlappingInputs(0, lo, hi), lo, hi)
<1>1. CASE level # 0
  BY <1>1 DEF OverlappingInputs
<1>2. CASE level = 0
  <2>. DEFINE O == OverlappingInputs(0, lo, hi)
  <2>1. /\ O \subseteq files[0]
        /\ \A f \in files[0] : f \in O <=> \A tables \in SUBSET files[0] :
                                             HasOverlapping(tables, lo, hi) => f \in tables
    BY DEF OverlappingInputs
  <2>. HIDE DEF O
  <2>2. \A tables \in SUBSET files[0] : HasOverlapping(tables, lo, hi) => O \subseteq tables
    BY <2>1
  <2>3. HasOverlapping(O, lo, hi)
    <3>1. ASSUME NEW f \in files[0],
                 \/ Overlaps(f, lo, hi)
                 \/ \E g \in O : Overlaps(f, Low(g).key, High(g).key),
                 NEW tables \in SUBSET files[0], HasOverlapping(tables, lo, hi)
          PROVE  f \in tables
      BY <3>1, <2>2 DEF HasOverlapping
    <3> QED  BY <3>1, <2>1 DEF HasOverlapping
  <2>4. \A f \in files[0] : Overlaps(f, lo, hi) => f \in O
    BY <2>3 DEF HasOverlapping
  <2> QED  BY <2>1, <2>2, <2>3, <2>4, <1>2 DEF O
<1> QED
  BY <1>1, <1>2

\* What overlaps the range of tables without room between them leaves none either.
LEMMA OverlappingCovers ==
  ASSUME NEW level \in Levels, Formed, SizesAssumption,
         NEW S, S # {}, \A f \in S : WellFormed(f), Covered(S)
  PROVE  Covered(S \cup OverlappingInputs(level, RangeOf(S).lo.key, RangeOf(S).hi.key))
<1>. DEFINE lo == RangeOf(S).lo.key
            hi == RangeOf(S).hi.key
            O == OverlappingInputs(level, lo, hi)
            Between(j, k) == (lo <= j /\ j <= k) \/ (k <= j /\ j <= lo)
            Reached(k) == \A j \in Keys : Between(j, k) => \E h \in S \cup O : InRange(j, h)
<1>1. /\ \E p \in S : Low(p).key = lo
      /\ \E p \in S : High(p).key = hi
      /\ lo \in Int /\ hi \in Int /\ lo <= hi
      /\ \A f \in S : lo <= Low(f).key /\ High(f).key <= hi
  BY RangeIs, FormedIs
<1>2. Keys \subseteq Int
  BY DEF Keys, SizesAssumption
<1>3. O \subseteq files[level] /\ \A f \in O : WellFormed(f)
  BY OverlappingIs DEF Formed
<1>4. \A j \in Keys : lo <= j /\ j <= hi => \E h \in S : InRange(j, h)
  BY <1>1 DEF Covered
<1>. HIDE DEF lo, hi, O
\* Every key of a table that overlaps the range is reached.
<1>5. ASSUME NEW f \in files[level], f \in O, Overlaps(f, lo, hi), NEW k \in Keys, InRange(k, f)
      PROVE  Reached(k)
  <2>. SUFFICES ASSUME NEW j \in Keys, Between(j, k) PROVE \E h \in S \cup O : InRange(j, h)
    OBVIOUS
  <2>1. Low(f).key \in Int /\ High(f).key \in Int
    BY <1>3, <1>5, FormedIs
  <2>2. CASE lo <= j /\ j <= hi
    BY <2>2, <1>4
  <2>3. CASE j < lo \/ j > hi
    <3>1. InRange(j, f)
      BY <2>1, <2>3, <1>1, <1>2, <1>5 DEF Overlaps, InRange
    <3> QED  BY <3>1, <1>5
  <2> QED  BY <2>2, <2>3, <1>1, <1>2
<1>6. \A f \in O, k \in Keys : InRange(k, f) => Reached(k)
  <2>1. CASE level # 0
    BY <2>1, <1>3, <1>5, OverlappingIs DEF O
  <2>2. CASE level = 0
    <3>. DEFINE G == {f \in O : \A k \in Keys : InRange(k, f) => Reached(k)}
    <3>1. ASSUME NEW f \in files[0], Overlaps(f, lo, hi) PROVE f \in G
      <4>1. f \in O
        BY <3>1, <2>2, OverlappingIs DEF O
      <4> QED  BY <4>1, <3>1, <2>2, <1>5
    <3>2. ASSUME NEW f \in files[0], NEW g \in G, Overlaps(f, Low(g).key, High(g).key)
          PROVE  f \in G
      <4>1. f \in O
        BY <3>2, <2>2, OverlappingIs DEF O, HasOverlapping
      <4>2. /\ Low(f).key \in Keys /\ High(f).key \in Keys /\ Low(f).key <= High(f).key
            /\ Low(g).key \in Keys /\ High(g).key \in Keys /\ Low(g).key <= High(g).key
            /\ Low(f).key \in Int /\ High(f).key \in Int /\ Low(g).key \in Int /\ High(g).key \in Int
        BY <4>1, <1>3, FormedIs
      <4>3. PICK m \in Keys : InRange(m, f) /\ InRange(m, g)
        <5>1. CASE Low(f).key <= Low(g).key
          <6>1. InRange(Low(g).key, f) /\ InRange(Low(g).key, g)
            BY <5>1, <4>2, <3>2 DEF Overlaps, InRange
          <6> QED  BY <6>1, <4>2
        <5>2. CASE Low(g).key <= Low(f).key
          <6>1. InRange(Low(f).key, f) /\ InRange(Low(f).key, g)
            BY <5>2, <4>2, <3>2 DEF Overlaps, InRange
          <6> QED  BY <6>1, <4>2
        <5> QED  BY <5>1, <5>2, <4>2, <1>2
      <4>4. Reached(m)
        BY <4>3
      <4>5. ASSUME NEW k \in Keys, InRange(k, f), NEW j \in Keys, Between(j, k)
            PROVE  \E h \in S \cup O : InRange(j, h)
        <5>1. Between(j, m) \/ InRange(j, f)
          BY <4>2, <4>3, <4>5, <1>1, <1>2 DEF InRange
        <5> QED  BY <5>1, <4>1, <4>4
      <4> QED  BY <4>1, <4>5
    <3>3. HasOverlapping(G, lo, hi) /\ G \in SUBSET files[0]
      <4>. HIDE DEF G
      <4>1. G \subseteq files[0]
        BY <1>3, <2>2 DEF G
      <4> QED  BY <4>1, <3>1, <3>2 DEF HasOverlapping
    <3>4. O \subseteq G
      <4>. HIDE DEF G
      <4> QED  BY <3>3, <2>2, OverlappingIs DEF O
    <3> QED  BY <3>4
  <2> QED  BY <2>1, <2>2
<1>7. ASSUME NEW f \in S \cup O, NEW g \in S \cup O, NEW k \in Keys,
             Low(f).key <= k, k <= High(g).key
      PROVE  \E h \in S \cup O : InRange(k, h)
  <2>1. /\ Low(f).key \in Keys /\ InRange(Low(f).key, f)
        /\ High(g).key \in Keys /\ InRange(High(g).key, g)
        /\ Low(f).key \in Int /\ High(g).key \in Int /\ k \in Int
    BY <1>2, <1>3, FormedIs DEF InRange
  <2>2. CASE lo <= k /\ k <= hi
    BY <2>2, <1>4
  <2>3. CASE k < lo
    <3>1. f \in O
      BY <2>1, <2>3, <1>1, <1>2, <1>7
    <3>2. Reached(Low(f).key)
      BY <3>1, <2>1, <1>6
    <3> QED  BY <3>2, <2>3, <1>7, <1>1, <1>2
  <2>4. CASE k > hi
    <3>1. g \in O
      BY <2>1, <2>4, <1>1, <1>2, <1>7
    <3>2. Reached(High(g).key)
      BY <3>1, <2>1, <1>6
    <3> QED  BY <3>2, <2>4, <1>7, <1>1, <1>2
  <2> QED  BY <2>2, <2>3, <2>4, <1>1, <1>2
<1> QED
  BY <1>7 DEF Covered, O, lo, hi

\* Less is a strict order.
LEMMA LessIs ==
  ASSUME SizesAssumption
  PROVE  /\ \A a \in Entries : ~Less(a, a)
         /\ \A a, b, c \in Entries : Less(a, b) /\ Less(b, c) => Less(a, c)
         /\ \A a, b, c \in Entries : Less(a, b) /\ ~Less(c, b) => Less(a, c)
         /\ \A a, b, c \in Entries : ~Less(b, a) /\ Less(b, c) => Less(a, c)
         /\ \A a, b, c \in Entries : ~Less(b, a) /\ ~Less(c, b) => ~Less(c, a)
         /\ \A a, b \in Entries : Less(a, b) => a.key <= b.key /\ ~Less(b, a)
         /\ \A a, b, c \in Entries : ~Less(b, a) /\ ~Less(c, b) => a.key <= b.key /\ b.key <= c.key
BY EntryIs DEF Less

\* The tables of a level below 0 lie one before the other.
LEMMA LevelOrder ==
  ASSUME NEW level \in Levels \ {0}, Formed, LevelsDisjoint, SizesAssumption,
         NEW f \in files[level], NEW g \in files[level]
  PROVE  /\ WellFormed(f) /\ WellFormed(g)
         /\ f = g \/ Precedes(f, g) \/ Precedes(g, f)
         /\ Precedes(f, g) => /\ Less(Low(f), Low(g)) /\ Less(High(f), High(g))
                              /\ High(f).key <= Low(g).key /\ ~Less(Low(g), High(f))
<1>1. WellFormed(f) /\ WellFormed(g)
  BY DEF Formed
<1>2. f = g \/ Precedes(f, g) \/ Precedes(g, f)
  BY DEF LevelsDisjoint, Precedes
<1> QED
  BY <1>1, <1>2, FormedIs, LessIs DEF Precedes

\* AddBoundaryInputs leaves no table that goes on with a key the inputs have.
LEMMA BoundaryIs ==
  ASSUME NEW level \in Levels \ {0}, Formed, LevelsDisjoint, SizesAssumption,
         NEW inputs, inputs \subseteq files[level], inputs # {},
         \A f, p \in inputs, g \in files[level] :
           Precedes(f, g) /\ Precedes(g, p) /\ High(f).key = Low(g).key => g \in inputs
  PROVE  LET B == AddBoundaryInputs(level, inputs)
         IN  /\ inputs \subseteq B /\ B \subseteq files[level]
             /\ \A f \in B, g \in files[level] \ B :
                  Precedes(f, g) => High(f).key # Low(g).key
<1>. DEFINE B == AddBoundaryInputs(level, inputs)
            last == RangeOf(inputs).hi
            next == {f \in files[level] : Less(last, Low(f))}
            GoesOn(f) == \E g \in files[level] :
                           /\ High(g).key = Low(f).key
                           /\ Less(High(g), Low(f)) /\ ~Less(High(g), last)
            added == {f \in next : \A g \in next : ~Less(Low(f), Low(g)) => GoesOn(g)}
<1>1. B = inputs \cup added
  BY DEF AddBoundaryInputs
<1>2. inputs \subseteq B /\ B \subseteq files[level]
  BY <1>1
<1>3. PICK p \in inputs : last = High(p)
  BY RangeIs DEF Formed
<1>4. \A f \in inputs : ~Less(last, High(f))
  BY RangeIs DEF Formed
<1>. HIDE DEF last, B
<1>5. ASSUME NEW f \in B, NEW g \in files[level] \ B, Precedes(f, g), High(f).key = Low(g).key
      PROVE  FALSE
  <2>1. /\ WellFormed(f) /\ WellFormed(g) /\ WellFormed(p) /\ f \in files[level] /\ p \in files[level]
        /\ Low(f) \in Entries /\ High(f) \in Entries /\ Low(g) \in Entries
        /\ High(p) \in Entries /\ Low(p) \in Entries /\ last \in Entries
    BY <1>2, <1>3, FormedIs DEF Formed
  <2>2. CASE f \in inputs
    <3>1. ~Precedes(g, p)
      BY <2>2, <1>1, <1>3, <1>5
    <3>2. Precedes(p, g)
      BY <3>1, <1>1, <1>3, <1>5, LevelOrder
    <3>3. High(p).key = Low(g).key
      <4>1. High(f).key <= High(p).key /\ High(p).key <= Low(g).key
        BY <3>2, <2>1, <2>2, <1>3, <1>4, LevelOrder, LessIs, EntryIs DEF Less
      <4> QED  BY <4>1, <1>5, <2>1, EntryIs
    <3>4. g \in next
      BY <3>2, <1>3 DEF Precedes
    <3>5. ASSUME NEW h \in next, ~Less(Low(g), Low(h)) PROVE GoesOn(h)
      <4>1. High(p).key = Low(h).key
        <5>1. Low(h) \in Entries
          BY FormedIs DEF Formed
        <5>2. High(p).key <= Low(h).key /\ Low(h).key <= Low(g).key
          BY <5>1, <3>5, <2>1, <1>3, EntryIs DEF Less
        <5> QED  BY <5>1, <5>2, <3>3, <2>1, EntryIs
      <4>2. Less(High(p), Low(h)) /\ ~Less(High(p), last)
        BY <1>3, <2>1, LessIs
      <4> QED  BY <4>1, <4>2, <2>1
    <3>6. g \in added
      BY <3>4, <3>5
    <3> QED  BY <3>6, <1>1
  <2>3. CASE f \in added
    <3>1. g \in next /\ ~Less(High(f), last)
      <4>1. Less(last, Low(f)) /\ ~Less(High(f), Low(f)) /\ Less(High(f), Low(g))
        BY <2>1, <2>3, <1>5, FormedIs DEF Precedes
      <4> QED  BY <4>1, <2>1, LessIs
    <3>2. ASSUME NEW h \in next, ~Less(Low(g), Low(h)) PROVE GoesOn(h)
      <4>1. CASE ~Less(Low(f), Low(h))
        BY <4>1, <2>3
      <4>2. CASE Less(Low(f), Low(h))
        <5>1. Low(h) \in Entries /\ h \in files[level]
          BY FormedIs DEF Formed
        <5>2. Precedes(f, h)
          BY <5>1, <4>2, <2>1, LevelOrder, LessIs
        <5>3. High(f).key <= Low(h).key /\ Low(h).key <= Low(g).key
          BY <5>1, <5>2, <3>2, <2>1, LevelOrder, EntryIs DEF Less
        <5>4. High(f).key = Low(h).key
          BY <5>1, <5>3, <2>1, <1>5, EntryIs
        <5> QED  BY <5>2, <5>4, <3>1, <2>1 DEF Precedes
      <4> QED  BY <4>1, <4>2
    <3>3. g \in added
      BY <3>1, <3>2
    <3> QED  BY <3>3, <1>1
  <2> QED  BY <2>2, <2>3, <1>1
<1> QED
  BY <1>2, <1>5 DEF B

\* The tables AddBoundaryInputs adds leave no room either.
LEMMA BoundaryCovers ==
  ASSUME NEW level \in Levels \ {0}, Formed, LevelsDisjoint, SizesAssumption,
         NEW inputs, inputs \subseteq files[level], inputs # {},
         NEW S, \A f \in S : WellFormed(f), Covered(S \cup inputs)
  PROVE  Covered(S \cup AddBoundaryInputs(level, inputs))
<1>. DEFINE B == AddBoundaryInputs(level, inputs)
            last == RangeOf(inputs).hi
            next == {f \in files[level] : Less(last, Low(f))}
            GoesOn(f) == \E g \in files[level] :
                           /\ High(g).key = Low(f).key
                           /\ Less(High(g), Low(f)) /\ ~Less(High(g), last)
            added == {f \in next : \A g \in next : ~Less(Low(f), Low(g)) => GoesOn(g)}
<1>1. B = inputs \cup added
  BY DEF AddBoundaryInputs
<1>2. inputs \subseteq B /\ B \subseteq files[level]
  BY <1>1
<1>3. PICK p \in inputs : last = High(p)
  BY RangeIs DEF Formed
<1>4. \A f \in inputs : ~Less(last, High(f))
  BY RangeIs DEF Formed
<1>5. \A f \in S \cup files[level] : WellFormed(f)
  BY DEF Formed
<1>6. p \in files[level] /\ last \in Entries /\ last.key \in Int
  BY <1>3, <1>5, FormedIs
<1>7. Keys \subseteq Int
  BY DEF Keys, SizesAssumption
<1>. HIDE DEF last, B
\* The added table that comes first among those that end at k or beyond has k.
<1>8. ASSUME NEW k \in Keys, last.key < k, NEW b \in added, k <= High(b).key
      PROVE  \E h \in added : InRange(k, h)
  <2>. DEFINE far == {f \in added : k <= High(f).key}
              lows == {Low(f) : f \in far}
  <2>1. lows \subseteq Entries /\ lows # {}
    BY <1>5, <1>8, FormedIs
  <2>2. Smallest(lows) \in lows /\ \A e \in lows : ~Less(e, Smallest(lows))
    <3>. HIDE DEF lows
    <3> QED  BY <2>1, SmallestIs
  <2>3. PICK f \in far : \A g \in far : ~Less(Low(g), Low(f))
    <3>1. PICK f \in far : Smallest(lows) = Low(f)
      BY <2>2
    <3> QED
      BY <3>1, <2>2
  <2>. SUFFICES ASSUME k < Low(f).key PROVE FALSE
    <3>1. f \in added /\ k <= High(f).key
      BY <2>3
    <3>2. Low(f).key \in Int /\ k \in Int
      BY <3>1, <1>5, <1>7, FormedIs
    <3> QED
      BY <3>1, <3>2 DEF InRange
  <2>4. f \in next /\ f \in files[level] /\ Low(f) \in Entries /\ Low(f).key \in Int /\ GoesOn(f)
    BY <1>5, FormedIs, LessIs
  <2>5. PICK g \in files[level] : High(g).key = Low(f).key /\ Less(High(g), Low(f)) /\ ~Less(High(g), last)
    BY <2>4
  <2>6. High(g) \in Entries /\ Low(g) \in Entries /\ Low(g).key \in Int
    BY <1>5, FormedIs
  <2>7. g # p
    BY <1>3, <1>6, <1>7, <1>8, <2>4, <2>5
  <2>8. ~Precedes(g, p)
    BY <1>3, <1>6, <2>5, LevelOrder
  <2>9. g \in next
    BY <2>7, <2>8, <1>3, <1>6, LevelOrder DEF Precedes
  <2>10. Less(Low(g), Low(f))
    BY <2>5, <2>4, LevelOrder DEF Precedes
  <2>11. g \in added
    <3>1. ASSUME NEW h \in next, ~Less(Low(g), Low(h)) PROVE GoesOn(h)
      <4>1. Low(h) \in Entries
        BY <1>5, FormedIs
      <4>2. ~Less(Low(f), Low(h))
        BY <4>1, <2>10, <2>4, <2>6, <3>1, LessIs
      <4> QED  BY <4>2
    <3> QED  BY <3>1, <2>9
  <2>12. g \in far
    BY <2>11, <2>5, <2>4, <1>7
  <2> QED  BY <2>12, <2>10, <2>3
<1>9. ASSUME NEW f \in S \cup B, NEW g \in S \cup B, NEW k \in Keys,
             Low(f).key <= k, k <= High(g).key
      PROVE  \E h \in S \cup B : InRange(k, h)
  <2>1. k \in Int /\ Low(f).key \in Int /\ High(g).key \in Int /\ Low(p).key \in Int
    BY <1>1, <1>2, <1>3, <1>5, <1>7, FormedIs
  <2>2. f \in added => last.key <= Low(f).key
    BY <1>5, <1>6, LessIs, FormedIs
  <2>3. CASE k <= last.key
    <3>1. CASE f \in added
      <4>1. InRange(k, p)
        BY <3>1, <2>1, <2>2, <2>3, <1>3, <1>5, <1>6, <1>9, FormedIs DEF InRange
      <4> QED  BY <4>1, <1>2
    <3>2. CASE f \in S \cup inputs
      <4>1. \E h \in S \cup inputs : InRange(k, h)
        BY <3>2, <2>3, <1>3, <1>9 DEF Covered
      <4> QED  BY <4>1, <1>2
    <3> QED  BY <3>1, <3>2, <1>1
  <2>4. CASE last.key < k
    <3>1. CASE g \in added
      BY <3>1, <2>4, <1>1, <1>8, <1>9
    <3>2. CASE g \in S \cup inputs
      <4>1. Low(p).key <= k
        BY <2>1, <2>4, <1>3, <1>5, <1>6, FormedIs
      <4>2. \E h \in S \cup inputs : InRange(k, h)
        BY <4>1, <3>2, <1>9 DEF Covered
      <4> QED  BY <4>2, <1>2
    <3> QED  BY <3>1, <3>2, <1>1
  <2> QED  BY <2>1, <2>3, <2>4, <1>6
<1> QED
  BY <1>9 DEF Covered, B
-----------------------------------------------------------------------------
(***************************************************************************)
(* What PickCompaction and SetupOtherInputs choose.                        *)
(***************************************************************************)
\* What can be picked: tables without room between them, in level 0 with all that have
\* a key of theirs, in another with those between them that go on with a key.
GoodPick(level, tables) ==
  /\ tables \subseteq files[level] /\ tables # {} /\ Covered(tables)
  /\ level = 0 => StaysNewer(0, tables)
  /\ level # 0 => \A f, p \in tables, g \in files[level] :
       Precedes(f, g) /\ Precedes(g, p) /\ High(f).key = Low(g).key => g \in tables

\* Below level 0, where no key goes on behind the tables, what stays is newer.
LEMMA BoundaryStaysNewer ==
  ASSUME NEW level \in Levels \ {0}, Formed, LevelsDisjoint, SizesAssumption,
         NEW tables, tables \subseteq files[level],
         \A f \in tables, g \in files[level] \ tables :
           Precedes(f, g) => High(f).key # Low(g).key
  PROVE  StaysNewer(level, tables)
<1>1. SUFFICES ASSUME NEW g \in files[level] \ tables, NEW f \in tables,
                      NEW d \in g.entries, NEW e \in f.entries, d.key = e.key
               PROVE  d.seq > e.seq
  BY DEF StaysNewer, All
<1>2. /\ WellFormed(f) /\ WellFormed(g) /\ f # g
      /\ Precedes(f, g) \/ Precedes(g, f)
  BY LevelOrder
<1>3. ~Precedes(f, g)
  <2>1. SUFFICES ASSUME Precedes(f, g) PROVE FALSE
    OBVIOUS
  <2>2. High(f).key <= Low(g).key /\ High(f).key # Low(g).key
    BY <2>1, LevelOrder
  <2> QED  BY <2>2, <1>1, <1>2, FormedIs
<1>4. Less(High(g), Low(f)) /\ ~Less(High(g), d) /\ ~Less(e, Low(f))
  BY <1>2, <1>3 DEF Precedes, WellFormed
<1>5. Less(d, e)
  BY <1>2, <1>4, FormedIs, LessIs
<1> QED
  BY <1>1, <1>2, <1>5, FormedIs DEF Less

\* In level 0 what is not taken has no key of what is.
LEMMA Overlapping0StaysNewer ==
  ASSUME Formed, SizesAssumption, 0 \in Levels, NEW lo, NEW hi
  PROVE  StaysNewer(0, OverlappingInputs(0, lo, hi))
<1>. DEFINE O == OverlappingInputs(0, lo, hi)
<1>1. HasOverlapping(O, lo, hi) /\ O \subseteq files[0]
  BY OverlappingIs
<1>. HIDE DEF O
<1>2. ASSUME NEW g \in files[0] \ O, NEW f \in O, NEW d \in g.entries, NEW e \in f.entries, d.key = e.key
      PROVE  FALSE
  <2>1. WellFormed(f) /\ WellFormed(g)
    BY <1>1 DEF Formed
  <2>2. Overlaps(g, Low(f).key, High(f).key)
    BY <2>1, <1>2, FormedIs DEF Overlaps
  <2> QED  BY <2>2, <1>1, <1>2 DEF HasOverlapping
<1> QED
  BY <1>2 DEF StaysNewer, All, O

\* The one table of a level, or what it overlaps in level 0, is a good pick.
LEMMA PickedIsGood ==
  ASSUME NEW level \in Levels, Formed, LevelsDisjoint, SizesAssumption, NEW f \in files[level]
  PROVE  GoodPick(level, Picked(level, f))
<1>1. WellFormed(f) /\ Covered({f})
  BY DEF Formed, Covered, InRange
<1>2. CASE level = 0
  <2>. DEFINE O == OverlappingInputs(0, Low(f).key, High(f).key)
  <2>1. Overlaps(f, Low(f).key, High(f).key)
    BY <1>1, FormedIs DEF Overlaps
  <2>2. O \subseteq files[0] /\ f \in O
    BY <2>1, <1>2, OverlappingIs
  <2>3. RangeOf({f}).lo = Low(f) /\ RangeOf({f}).hi = High(f)
    BY <1>1, RangeIs
  <2>4. Covered({f} \cup O)
    BY <1>1, <1>2, <2>3, OverlappingCovers
  <2>5. {f} \cup O = O
    BY <2>2
  <2>6. StaysNewer(0, O)
    BY <1>2, Overlapping0StaysNewer
  <2> QED  BY <1>2, <2>2, <2>4, <2>5, <2>6 DEF GoodPick, Picked
<1>3. CASE level # 0
  <2>1. ASSUME NEW g \in files[level], Precedes(f, g), Precedes(g, f) PROVE FALSE
    <3>1. Less(Low(f), Low(g)) /\ Less(Low(g), Low(f)) /\ WellFormed(g)
      BY <2>1, <1>3, LevelOrder
    <3> QED  BY <3>1, <1>1, FormedIs, LessIs
  <2> QED  BY <2>1, <1>1, <1>3 DEF GoodPick, Picked
<1> QED
  BY <1>2, <1>3

\* A table of the next level that is not taken lies before all inputs or after all.
LEMMA NextInputsApart ==
  ASSUME NEW level \in 0..NumLevels - 2, Formed, LevelsDisjoint, SizesAssumption,
         NEW first, first \subseteq files[level], first # {},
         NEW g \in files[level + 1] \ NextInputs(level, first)
  PROVE  \/ \A f \in first \cup NextInputs(level, first) : Precedes(f, g)
         \/ \A f \in first \cup NextInputs(level, first) : Precedes(g, f)
<1>. DEFINE N == NextInputs(level, first)
            lo == RangeOf(first).lo.key
            hi == RangeOf(first).hi.key
<1>0. level \in Levels /\ level + 1 \in Levels \ {0} /\ level + 1 # 0
  BY DEF Levels, SizesAssumption
<1>1. N \subseteq files[level + 1] /\ \A f \in files[level + 1] : f \in N <=> Overlaps(f, lo, hi)
  BY <1>0, OverlappingIs DEF NextInputs
<1>2. \A f \in first : WellFormed(f)
  BY <1>0 DEF Formed
<1>3. /\ lo \in Int /\ hi \in Int
      /\ \A f \in first : lo <= Low(f).key /\ High(f).key <= hi
  BY <1>2, RangeIs
<1>. HIDE DEF N, lo, hi
<1>4. g \in files[level + 1] \ N
  BY DEF N
<1>5. WellFormed(g)
  BY <1>0 DEF Formed
<1>6. High(g).key < lo \/ hi < Low(g).key
  BY <1>1, <1>3, <1>4, <1>5, FormedIs DEF Overlaps
<1>7. CASE High(g).key < lo
  <2>1. ASSUME NEW f \in first PROVE Precedes(g, f)
    BY <1>2, <1>3, <1>5, <1>7, FormedIs DEF Precedes, Less
  <2>2. ASSUME NEW f \in N PROVE Precedes(g, f)
    <3>1. ~Precedes(f, g)
      <4>1. SUFFICES ASSUME Precedes(f, g) PROVE FALSE
        OBVIOUS
      <4>2. High(f).key <= Low(g).key /\ High(f).key >= lo /\ WellFormed(f)
        BY <4>1, <1>0, <1>1, <1>4, LevelOrder DEF Overlaps
      <4> QED  BY <4>2, <1>3, <1>5, <1>7, FormedIs
    <3> QED  BY <3>1, <1>0, <1>1, <1>4, LevelOrder
  <2> QED  BY <2>1, <2>2 DEF N
<1>8. CASE hi < Low(g).key
  <2>1. ASSUME NEW f \in first PROVE Precedes(f, g)
    BY <1>2, <1>3, <1>5, <1>8, FormedIs DEF Precedes, Less
  <2>2. ASSUME NEW f \in N PROVE Precedes(f, g)
    <3>1. ~Precedes(g, f)
      <4>1. SUFFICES ASSUME Precedes(g, f) PROVE FALSE
        OBVIOUS
      <4>2. High(g).key <= Low(f).key /\ Low(f).key <= hi /\ WellFormed(f)
        BY <4>1, <1>0, <1>1, <1>4, LevelOrder DEF Overlaps
      <4> QED  BY <4>2, <1>3, <1>5, <1>8, FormedIs
    <3> QED  BY <3>1, <1>0, <1>1, <1>4, LevelOrder
  <2> QED  BY <2>1, <2>2 DEF N
<1> QED
  BY <1>6, <1>7, <1>8

\* The tables of a pick with those the boundary adds.
LEMMA WithBoundary ==
  ASSUME NEW level \in Levels, Formed, LevelsDisjoint, SizesAssumption,
         NEW tables, tables \subseteq files[level], tables # {},
         level = 0 => StaysNewer(0, tables),
         level # 0 => \A f, p \in tables, g \in files[level] :
           Precedes(f, g) /\ Precedes(g, p) /\ High(f).key = Low(g).key => g \in tables,
         NEW S, \A f \in S : WellFormed(f), Covered(S \cup tables)
  PROVE  LET B == AddBoundaryInputs(level, tables)
         IN  /\ tables \subseteq B /\ B \subseteq files[level] /\ StaysNewer(level, B)
             /\ Covered(S \cup B)
<1>1. CASE level = 0
  BY <1>1 DEF AddBoundaryInputs
<1>2. CASE level # 0
  <2>1. /\ tables \subseteq AddBoundaryInputs(level, tables)
        /\ AddBoundaryInputs(level, tables) \subseteq files[level]
        /\ \A f \in AddBoundaryInputs(level, tables),
              g \in files[level] \ AddBoundaryInputs(level, tables) :
                Precedes(f, g) => High(f).key # Low(g).key
    BY <1>2, BoundaryIs
  <2>2. Covered(S \cup AddBoundaryInputs(level, tables))
    BY <1>2, BoundaryCovers
  <2>3. StaysNewer(level, AddBoundaryInputs(level, tables))
    BY <1>2, <2>1, BoundaryStaysNewer
  <2> QED  BY <2>1, <2>2, <2>3
<1> QED
  BY <1>1, <1>2

\* What the second half of SetupOtherInputs makes of inputs that are good.
LEMMA ChosenIsGood ==
  ASSUME NEW level \in 0..NumLevels - 2, Formed, LevelsDisjoint, SizesAssumption,
         NEW first, first \subseteq files[level], first # {}, StaysNewer(level, first),
         Covered(first \cup NextInputs(level, first))
  PROVE  GoodInputs(Chosen(level, first, NextInputs(level, first)))
<1>. DEFINE c == Chosen(level, first, NextInputs(level, first))
<1>1. c.level = level /\ c.in0 = first /\ c.in1 = NextInputs(level, first)
  BY DEF Chosen
<1>2. NextInputs(level, first) \subseteq files[level + 1]
  BY OverlappingIs DEF NextInputs
<1>3. \A g \in files[level + 1] \ NextInputs(level, first) :
        \/ \A f \in first \cup NextInputs(level, first) : Precedes(f, g)
        \/ \A f \in first \cup NextInputs(level, first) : Precedes(g, f)
  BY NextInputsApart
<1>. HIDE DEF c
<1>4. Apart(c)
  BY <1>1, <1>3 DEF Apart
<1>5. GoodInputs(c)
  BY <1>1, <1>2, <1>4 DEF GoodInputs
<1> QED
  BY <1>5 DEF c

\* What overlaps tables in the next level leaves no room, with some of it or without.
LEMMA NextInputsCover ==
  ASSUME NEW level \in 0..NumLevels - 2, Formed, SizesAssumption,
         NEW first, first \subseteq files[level], first # {},
         NEW some, some \subseteq NextInputs(level, first), Covered(first \cup some)
  PROVE  Covered(first \cup NextInputs(level, first))
<1>. DEFINE N == NextInputs(level, first)
            lo == RangeOf(first).lo.key
            hi == RangeOf(first).hi.key
<1>0. level \in Levels /\ level + 1 \in Levels /\ level + 1 # 0 /\ Keys \subseteq Int
  BY DEF Levels, Keys, SizesAssumption
<1>1. N \subseteq files[level + 1] /\ \A f \in N : Overlaps(f, lo, hi)
  BY <1>0, OverlappingIs DEF NextInputs
<1>2. \A f \in first \cup N : WellFormed(f)
  BY <1>0, <1>1 DEF Formed
<1>3. /\ lo \in Int /\ hi \in Int
      /\ \E p \in first : lo = Low(p).key
      /\ \E p \in first : hi = High(p).key
      /\ \A f \in first : lo <= Low(f).key /\ High(f).key <= hi
  BY <1>2, RangeIs
<1>. HIDE DEF N, lo, hi
<1>4. ASSUME NEW f \in first \cup N, NEW g \in first \cup N, NEW k \in Keys,
             Low(f).key <= k, k <= High(g).key
      PROVE  \E h \in first \cup N : InRange(k, h)
  <2>1. k \in Int /\ Low(f).key \in Int /\ High(f).key \in Int /\ Low(g).key \in Int /\ High(g).key \in Int
    BY <1>0, <1>2, FormedIs
  <2>2. CASE lo <= k /\ k <= hi
    <3>1. \E h \in first \cup some : InRange(k, h)
      BY <2>2, <1>3 DEF Covered
    <3> QED  BY <3>1 DEF N
  <2>3. CASE k < lo
    <3>1. f \in N
      BY <2>1, <2>3, <1>3, <1>4
    <3>2. InRange(k, f)
      BY <3>1, <2>1, <2>3, <1>1, <1>3, <1>4 DEF Overlaps, InRange
    <3> QED  BY <3>1, <3>2
  <2>4. CASE hi < k
    <3>1. g \in N
      BY <2>1, <2>4, <1>3, <1>4
    <3>2. InRange(k, g)
      BY <3>1, <2>1, <2>4, <1>1, <1>3, <1>4 DEF Overlaps, InRange
    <3> QED  BY <3>1, <3>2
  <2> QED  BY <2>1, <2>2, <2>3, <2>4, <1>3
<1> QED
  BY <1>4 DEF Covered, N

\* SetupOtherInputs makes good inputs of a good pick, expanded or not.
LEMMA SetupIsGood ==
  ASSUME NEW level \in 0..NumLevels - 2, Formed, LevelsDisjoint, SizesAssumption,
         NEW picked, GoodPick(level, picked)
  PROVE  GoodInputs(SetupOtherInputs(level, picked))
<1>. DEFINE in0 == AddBoundaryInputs(level, picked)
            in1 == NextInputs(level, in0)
            all == RangeOf(in0 \cup in1)
            found == OverlappingInputs(level, all.lo.key, all.hi.key)
            expanded == AddBoundaryInputs(level, found)
            wider == NextInputs(level, expanded)
<1>0. level \in Levels /\ level + 1 \in Levels \ {0} /\ level + 1 # 0
  BY DEF Levels, SizesAssumption
<1>1. picked \subseteq in0 /\ in0 \subseteq files[level] /\ in0 # {} /\ StaysNewer(level, in0) /\ Covered(in0)
  <2>1. \A f \in {} : WellFormed(f)
    OBVIOUS
  <2>2. {} \cup picked = picked /\ {} \cup in0 = in0
    OBVIOUS
  <2>3. picked \subseteq files[level] /\ picked # {} /\ Covered({} \cup picked)
    BY <2>2 DEF GoodPick
  <2>4. /\ level = 0 => StaysNewer(0, picked)
        /\ level # 0 => \A f, p \in picked, g \in files[level] :
             Precedes(f, g) /\ Precedes(g, p) /\ High(f).key = Low(g).key => g \in picked
    BY DEF GoodPick
  <2>5. picked \subseteq in0 /\ in0 \subseteq files[level] /\ StaysNewer(level, in0) /\ Covered({} \cup in0)
    BY <1>0, <2>1, <2>3, <2>4, WithBoundary
  <2> QED  BY <2>2, <2>3, <2>5
<1>2. SetupOtherInputs(level, picked) = Chosen(level, in0, in1)
      \/ SetupOtherInputs(level, picked) = Chosen(level, expanded, wider)
  BY DEF SetupOtherInputs, Overlapped, Expanded
<1>. HIDE DEF in0
<1>3. in1 \subseteq files[level + 1] /\ \A f \in in0 \cup in1 : WellFormed(f)
  <2>1. in1 \subseteq files[level + 1]
    BY OverlappingIs DEF NextInputs
  <2> QED  BY <2>1, <1>0, <1>1 DEF Formed
<1>4. Covered(in0 \cup in1)
  <2>1. in0 \cup {} = in0 /\ {} \subseteq in1
    OBVIOUS
  <2> QED  BY <2>1, <1>1, NextInputsCover
<1>5. GoodInputs(Chosen(level, in0, in1))
  BY <1>1, <1>4, ChosenIsGood
<1>6. GoodInputs(Chosen(level, expanded, wider))
  <2>. HIDE DEF in1
  <2>1. /\ all.lo.key \in Int /\ all.hi.key \in Int
        /\ \A f \in in0 \cup in1 : all.lo.key <= Low(f).key /\ High(f).key <= all.hi.key
    BY <1>1, <1>3, RangeIs
  <2>2. in0 \subseteq found /\ found \subseteq files[level] /\ found # {}
    <3>1. ASSUME NEW f \in in0 PROVE Overlaps(f, all.lo.key, all.hi.key)
      <4>. HIDE DEF all
      <4> QED  BY <2>1, <1>3, FormedIs DEF Overlaps
    <3>2. found \subseteq files[level]
      BY OverlappingIs
    <3>3. in0 \subseteq found
      <4>. HIDE DEF all
      <4>1. \A f \in files[level] : Overlaps(f, all.lo.key, all.hi.key) => f \in found
        BY OverlappingIs
      <4> QED  BY <4>1, <3>1, <1>1
    <3> QED  BY <3>2, <3>3, <1>1
  <2>3. Covered(in0 \cup in1 \cup found)
    BY <1>0, <1>1, <1>3, <1>4, OverlappingCovers
  <2>4. level = 0 => StaysNewer(0, found)
    BY <1>0, Overlapping0StaysNewer
  <2>5. ASSUME level # 0, NEW f \in found, NEW p \in found, NEW g \in files[level],
               Precedes(f, g), Precedes(g, p), High(f).key = Low(g).key
        PROVE  g \in found
    <3>1. /\ WellFormed(f) /\ WellFormed(g) /\ WellFormed(p)
          /\ Overlaps(f, all.lo.key, all.hi.key) /\ Overlaps(p, all.lo.key, all.hi.key)
      BY <1>0, <2>2, <2>5, OverlappingIs DEF Formed
    <3>2. High(g).key <= Low(p).key
      BY <1>0, <2>2, <2>5, LevelOrder
    <3>3. Overlaps(g, all.lo.key, all.hi.key)
      <4>. HIDE DEF all
      <4> QED  BY <2>1, <2>5, <3>1, <3>2, FormedIs DEF Overlaps
    <3> QED  BY <3>3, OverlappingIs
  <2>. HIDE DEF found
  <2>6. found \subseteq expanded /\ expanded \subseteq files[level] /\ StaysNewer(level, expanded)
        /\ Covered(in0 \cup in1 \cup expanded)
    BY <1>0, <1>3, <2>2, <2>3, <2>4, <2>5, WithBoundary
  <2>. HIDE DEF expanded
  <2>7. in0 \cup in1 \cup expanded = expanded \cup in1 /\ expanded # {} /\ in0 \subseteq expanded
    BY <2>2, <2>6
  <2>8. in1 \subseteq wider
    <3>1. \A f \in expanded : WellFormed(f)
      BY <1>0, <2>6 DEF Formed
    <3>2. /\ RangeOf(expanded).lo.key \in Int /\ RangeOf(expanded).hi.key \in Int
          /\ RangeOf(in0).lo.key \in Int /\ RangeOf(in0).hi.key \in Int
          /\ RangeOf(expanded).lo.key <= RangeOf(in0).lo.key
          /\ RangeOf(in0).hi.key <= RangeOf(expanded).hi.key
      BY <3>1, <2>7, <1>1, RangeIs
    <3>3. ASSUME NEW f \in in1 PROVE f \in wider
      <4>1. /\ f \in files[level + 1] /\ WellFormed(f)
            /\ Overlaps(f, RangeOf(in0).lo.key, RangeOf(in0).hi.key)
        BY <1>0, <1>3, OverlappingIs DEF in1, NextInputs
      <4>2. Overlaps(f, RangeOf(expanded).lo.key, RangeOf(expanded).hi.key)
        BY <4>1, <3>2, FormedIs DEF Overlaps
      <4> QED  BY <4>1, <4>2, OverlappingIs DEF NextInputs
    <3> QED  BY <3>3
  <2>9. Covered(expanded \cup wider)
    BY <2>6, <2>7, <2>8, NextInputsCover
  <2> QED  BY <2>6, <2>7, <2>9, ChosenIsGood
<1> QED
  BY <1>2, <1>5, <1>6
-----------------------------------------------------------------------------
(***************************************************************************)
(* Edits: the end of a compaction, a move, a flush.                        *)
(***************************************************************************)
\* An entry that is stored is in the memtable or in a table of some level.
LEMMA StoredIs ==
  /\ \A e : e \in Stored <=> e \in mem \/ \E l \in Levels : e \in All(files[l])
  /\ \A e : e \in All(UNION {files[l] : l \in Levels}) <=> \E l \in Levels : e \in All(files[l])
BY DEF Stored, All

\* What an edit of a compaction changes: its inputs make way, and outputs hold some of
\* what they held.
LEMMA InstallKeeps ==
  ASSUME Typed, Shape, SizesAssumption, NEW c, GoodInputs(c),
         NEW outputs, outputs \subseteq Tables, \A f \in outputs : WellFormed(f),
         All(outputs) \subseteq All(c.in0 \cup c.in1),
         \A f, g \in outputs : f # g => Precedes(f, g) \/ Precedes(g, f),
         files' = Installed(c, outputs), UNCHANGED <<mem, lastSeq>>
  PROVE  files' \in [Levels -> SUBSET Tables] /\ Shape'
<1>. DEFINE L == c.level
<1>0. 0 \in Levels /\ L \in Levels /\ L + 1 \in Levels /\ L + 1 # 0 /\ L < L + 1 /\ L \in Int
  BY DEF GoodInputs, Levels, SizesAssumption
<1>1. /\ files' \in [Levels -> SUBSET Tables]
      /\ files'[L] = files[L] \ c.in0
      /\ files'[L + 1] = (files[L + 1] \ c.in1) \cup outputs
      /\ \A l \in Levels : l # L /\ l # L + 1 => files'[l] = files[l]
  BY <1>0 DEF Typed, Installed
<1>2. c.in0 \subseteq files[L] /\ c.in1 \subseteq files[L + 1]
  BY DEF GoodInputs
<1>3. Formed'
  BY <1>0, <1>1 DEF Shape, Formed, WellFormed, Low, High, Less
<1>10. files'[0] \subseteq files[0]
  <2>1. CASE 0 = L
    BY <2>1, <1>1
  <2>2. CASE 0 # L
    BY <2>2, <1>0, <1>1
  <2> QED  BY <2>1, <2>2
\* What is in a level afterwards was there, or was in the inputs.
<1>4. /\ All(files'[L]) = All(files[L] \ c.in0) /\ All(files'[L]) \subseteq All(files[L])
      /\ All(files'[L + 1]) \subseteq All(files[L + 1]) \cup All(c.in0)
      /\ \A l \in Levels : l # L /\ l # L + 1 => All(files'[l]) = All(files[l])
      /\ All(c.in0) \subseteq All(files[L])
  BY <1>1, <1>2 DEF All
<1>5. \A l \in Levels : \A e \in All(files'[l]) : \E m \in Levels : e \in All(files[m])
  BY <1>0, <1>4
<1>6. Stored' \subseteq Stored
  BY <1>5, StoredIs DEF Stored, All
<1>7. Numbered'
  BY <1>6, <1>10 DEF Shape, Numbered, Distinct
<1>8. LevelsDisjoint'
  <2>1. SUFFICES ASSUME NEW l \in Levels \ {0}, NEW f \in files'[l], NEW g \in files'[l], f # g
                 PROVE  Precedes(f, g) \/ Precedes(g, f)
    BY DEF LevelsDisjoint, Precedes, Less, Low, High
  <2>2. CASE f \in files[l] /\ g \in files[l]
    BY <2>1, <2>2, LevelOrder DEF Shape
  <2>3. ASSUME NEW o \in outputs, NEW h \in files[L + 1] \ c.in1
        PROVE  Precedes(o, h) \/ Precedes(h, o)
    <3>1. WellFormed(o) /\ Low(o) \in All(outputs) /\ High(o) \in All(outputs)
      BY DEF WellFormed, All
    <3>2. PICK p \in c.in0 \cup c.in1, q \in c.in0 \cup c.in1 : Low(o) \in p.entries /\ High(o) \in q.entries
      BY <3>1 DEF All
    <3>3. WellFormed(p) /\ WellFormed(q) /\ WellFormed(h)
      BY <1>0, <1>2 DEF Shape, Formed
    <3>4. \/ Precedes(p, h) /\ Precedes(q, h)
          \/ Precedes(h, p) /\ Precedes(h, q)
      BY DEF GoodInputs, Apart
    <3>5. CASE Precedes(q, h)
      <4>1. Less(High(q), Low(h)) /\ ~Less(High(q), High(o))
        BY <3>2, <3>3, <3>5 DEF Precedes, WellFormed
      <4> QED  BY <4>1, <3>1, <3>3, FormedIs, LessIs DEF Precedes
    <3>6. CASE Precedes(h, p)
      <4>1. Less(High(h), Low(p)) /\ ~Less(Low(o), Low(p))
        BY <3>2, <3>3, <3>6 DEF Precedes, WellFormed
      <4> QED  BY <4>1, <3>1, <3>3, FormedIs, LessIs DEF Precedes
    <3> QED  BY <3>4, <3>5, <3>6
  <2>4. CASE ~(f \in files[l] /\ g \in files[l])
    <3>1. l = L + 1
      BY <2>1, <2>4, <1>1
    <3> QED  BY <3>1, <2>1, <2>3, <2>4, <1>1
  <2> QED  BY <2>2, <2>4
<1>9. NewerAbove'
  <2>1. \A e \in mem', l \in Levels : \A f \in All(files'[l]) : e.key = f.key => e.seq > f.seq
    BY <1>5, StoredIs DEF Shape, NewerAbove
  <2>2. ASSUME NEW l \in Levels, NEW m \in Levels, l < m,
               NEW e \in All(files'[l]), NEW f \in All(files'[m]), e.key = f.key
        PROVE  e.seq > f.seq
    <3>1. \A i, j \in Levels : i < j => \A a \in All(files[i]), b \in All(files[j]) :
             a.key = b.key => a.seq > b.seq
      BY DEF Shape, NewerAbove
    <3>2. l \in Int /\ m \in Int
      BY DEF Levels
    <3>3. CASE f \in All(files[m]) /\ e \in All(files[l])
      BY <3>1, <3>3, <2>2
    <3>4. CASE f \notin All(files[m])
      <4>1. m = L + 1 /\ f \in All(c.in0) /\ f \in All(files[L])
        BY <3>4, <1>4, <2>2
      <4>2. CASE l = L
        BY <4>1, <4>2, <1>4, <2>2 DEF GoodInputs, StaysNewer
      <4>3. CASE l # L
        <5>1. l < L /\ e \in All(files[l])
          BY <4>1, <4>3, <3>2, <2>2, <1>0, <1>4
        <5> QED  BY <5>1, <4>1, <3>1, <2>2, <1>0
      <4> QED  BY <4>2, <4>3
    <3>5. CASE e \notin All(files[l]) /\ f \in All(files[m])
      <4>1. l = L + 1 /\ e \in All(files[L]) /\ L < m
        BY <3>5, <1>0, <1>4, <3>2, <2>2
      <4> QED  BY <4>1, <3>1, <3>5, <2>2, <1>0
    <3> QED  BY <3>3, <3>4, <3>5
  <2>4. \A s, t \in files'[0] : s.num > t.num =>
          \A e \in s.entries, f \in t.entries : e.key = f.key => e.seq > f.seq
    BY <1>10 DEF Shape, NewerAbove
  <2>5. \A e \in All(UNION {files'[l] : l \in Levels}) : \E l \in Levels : e \in All(files'[l])
    BY DEF All
  <2> QED  BY <2>1, <2>2, <2>4, <2>5 DEF NewerAbove, All
<1> QED
  BY <1>1, <1>3, <1>7, <1>8, <1>9 DEF Shape

\* A memtable goes below level 0 only where nothing down to there overlaps it.
LEMMA FlushLevelIs ==
  ASSUME SizesAssumption, NEW lo, NEW hi, NEW level \in PickLevelForMemTableOutput(lo, hi)
  PROVE  /\ level \in Levels
         /\ level # 0 => \A l \in Levels : l <= level => ~OverlapInLevel(l, lo, hi)
<1>1. CASE OverlapInLevel(0, lo, hi)
  BY <1>1 DEF PickLevelForMemTableOutput, Levels, SizesAssumption
<1>2. CASE ~OverlapInLevel(0, lo, hi)
  <2>1. level \in 0..MaxMemLevel /\ \A l \in 0..level - 1 : ~OverlapInLevel(l + 1, lo, hi)
    BY <1>2 DEF PickLevelForMemTableOutput
  <2>2. level \in Levels
    BY <2>1 DEF Levels, SizesAssumption
  <2>3. ASSUME NEW l \in Levels, l <= level PROVE ~OverlapInLevel(l, lo, hi)
    <3>1. CASE l = 0
      BY <3>1, <1>2
    <3>2. CASE l # 0
      <4>1. l - 1 \in 0..level - 1 /\ (l - 1) + 1 = l
        BY <2>1, <2>3, <3>2 DEF Levels, SizesAssumption
      <4> QED  BY <4>1, <2>1
    <3> QED  BY <3>1, <3>2
  <2> QED  BY <2>2, <2>3
<1> QED
  BY <1>1, <1>2

\* CompactMemTable keeps the levels in order, and good inputs stay good: the new
\* table lies above the output level of a running compaction or apart from its range.
LEMMA FlushKeeps ==
  ASSUME Typed, Shape, SizesAssumption, mem # {},
         NEW level \in PickLevelForMemTableOutput(Smallest(mem).key, Largest(mem).key),
         FlushTo(level), mem' = {}, lastSeq' = lastSeq
  PROVE  /\ files' \in [Levels -> SUBSET Tables] /\ Shape'
         /\ \A c : GoodInputs(c) => GoodInputs(c)'
<1>. DEFINE num == IF level = 0 THEN lastSeq ELSE 0
            T == Table(num, mem)
<1>1. num \in Nat /\ lastSeq \in Nat
  BY DEF Typed
<1>2. mem \subseteq Entries
  BY DEF Typed
<1>3. WellFormed(T) /\ T.entries = mem /\ T.num = num
  BY <1>1, <1>2, TableIs
<1>4. T \in Tables
  <2>1. Smallest(mem) \in Entries /\ Largest(mem) \in Entries
    BY <1>2, SmallestIs
  <2> QED  BY <1>1, <1>2, <2>1 DEF Table, Tables
<1>5. level \in Levels /\ (level # 0 => \A l \in Levels : l <= level =>
        ~OverlapInLevel(l, Low(T).key, High(T).key))
  BY FlushLevelIs DEF T, Table, Low, High
<1>6. /\ files' \in [Levels -> SUBSET Tables]
      /\ files'[level] = files[level] \cup {T}
      /\ \A l \in Levels : l # level => files'[l] = files[l]
  BY <1>4, <1>5 DEF FlushTo, Typed
<1>. HIDE DEF T
<1>7. level = 0 => T.num = lastSeq
  BY <1>3
<1>. HIDE DEF num
<1>8. Formed'
  BY <1>3, <1>5, <1>6 DEF Shape, Formed, WellFormed, Low, High, Less
<1>9. /\ All(files'[level]) = All(files[level]) \cup mem
      /\ \A l \in Levels : l # level => All(files'[l]) = All(files[l])
  BY <1>3, <1>6 DEF All
<1>10. Stored' = Stored
  BY <1>5, <1>9, StoredIs DEF Stored, All
<1>11. Numbered'
  <2>1. \A f \in files'[0] : f.num <= lastSeq
    <3>1. 0 \in Levels /\ \A f \in files[0] : f.num <= lastSeq
      BY DEF Levels, SizesAssumption, Shape, Numbered
    <3>2. CASE level = 0
      BY <3>1, <3>2, <1>1, <1>6, <1>7
    <3>3. CASE level # 0
      BY <3>1, <3>3, <1>6
    <3> QED  BY <3>2, <3>3
  <2>2. Distinct(Stored)' /\ \A e \in Stored' : e.seq <= lastSeq
    BY <1>10 DEF Shape, Numbered, Distinct
  <2> QED  BY <2>1, <2>2 DEF Numbered
\* Above the table and in its level nothing has a key between its keys.
<1>12. ASSUME level # 0, NEW l \in Levels, l <= level, NEW f \in files[l]
       PROVE  /\ WellFormed(f)
              /\ High(f).key < Low(T).key \/ High(T).key < Low(f).key
  <2>1. WellFormed(f)
    BY DEF Shape, Formed
  <2>2. ~Overlaps(f, Low(T).key, High(T).key)
    BY <1>5, <1>12 DEF OverlapInLevel
  <2> QED  BY <1>3, <2>1, <2>2, FormedIs DEF Overlaps
<1>13. LevelsDisjoint'
  <2>1. ASSUME NEW f \in files[level], level # 0
        PROVE  Less(High(f), Low(T)) \/ Less(High(T), Low(f))
    BY <2>1, <1>3, <1>5, <1>12, FormedIs DEF Less, Levels
  <2> QED  BY <2>1, <1>5, <1>6 DEF Shape, LevelsDisjoint, Less, Low, High
<1>14. \A l \in Levels : \A e \in mem, f \in All(files[l]) : e.key = f.key => e.seq > f.seq
  BY StoredIs DEF Shape, NewerAbove
<1>15. NewerAbove'
  <2>1. ASSUME NEW l \in Levels, NEW m \in Levels, l < m,
               NEW e \in All(files'[l]), NEW f \in All(files'[m]), e.key = f.key
        PROVE  e.seq > f.seq
    <3>1. CASE e \in All(files[l]) /\ f \in All(files[m])
      BY <2>1, <3>1 DEF Shape, NewerAbove
    <3>2. CASE e \notin All(files[l])
      <4>1. l = level /\ e \in mem /\ m # level
        BY <2>1, <3>2, <1>9 DEF Levels
      <4> QED  BY <4>1, <2>1, <1>9, <1>14
    <3>3. CASE f \notin All(files[m]) /\ e \in All(files[l])
      <4>1. m = level /\ f \in T.entries /\ level # 0 /\ l <= level
        BY <2>1, <3>3, <1>3, <1>9 DEF Levels
      <4>2. PICK g \in files[l] : e \in g.entries
        BY <3>3 DEF All
      <4>3. /\ WellFormed(g)
            /\ High(g).key < Low(T).key \/ High(T).key < Low(g).key
        BY <4>1, <1>12
      <4> QED  BY <4>1, <4>2, <4>3, <1>3, <2>1, FormedIs
    <3> QED  BY <3>1, <3>2, <3>3
  <2>2. \A s, t \in files'[0] : s.num > t.num =>
          \A e \in s.entries, f \in t.entries : e.key = f.key => e.seq > f.seq
    <3>1. SUFFICES ASSUME NEW s \in files'[0], NEW t \in files'[0], s.num > t.num,
                          NEW e \in s.entries, NEW f \in t.entries, e.key = f.key
                   PROVE  e.seq > f.seq
      OBVIOUS
    <3>2. 0 \in Levels
      BY DEF Levels, SizesAssumption
    <3>3. CASE s \in files[0] /\ t \in files[0]
      BY <3>1, <3>3 DEF Shape, NewerAbove
    <3>4. CASE s \notin files[0]
      <4>1. e \in mem
        BY <3>1, <3>2, <3>4, <1>3, <1>6
      <4>2. t \in files[0]
        BY <3>1, <3>2, <3>4, <1>1, <1>3, <1>6
      <4> QED  BY <4>1, <4>2, <3>1, <3>2, <1>14 DEF All
    <3>5. CASE s \in files[0] /\ t \notin files[0]
      <4>1. t.num = lastSeq /\ s.num <= lastSeq /\ s.num \in Int
        BY <3>2, <3>5, <1>6, <1>7 DEF Shape, Numbered, Formed, WellFormed
      <4> QED  BY <4>1, <3>1, <1>1
    <3> QED  BY <3>3, <3>4, <3>5
  <2> QED  BY <2>1, <2>2 DEF NewerAbove
<1>16. ASSUME NEW c, GoodInputs(c) PROVE GoodInputs(c)'
  <2>1. /\ c.level \in Levels /\ c.level + 1 \in Levels /\ c.level + 1 # 0
        /\ \A f \in c.in0 \cup c.in1 : WellFormed(f)
        /\ c.level \in Int
    BY <1>16 DEF GoodInputs, Levels, SizesAssumption, Shape, Formed
  <2>2. c.in0 \subseteq files'[c.level] /\ c.in1 \subseteq files'[c.level + 1]
    BY <2>1, <1>6, <1>16 DEF GoodInputs
  <2>3. Apart(c)'
    <3>1. SUFFICES ASSUME NEW g \in files'[c.level + 1] \ c.in1
                   PROVE  \/ \A f \in c.in0 \cup c.in1 : Precedes(f, g)
                          \/ \A f \in c.in0 \cup c.in1 : Precedes(g, f)
      BY DEF Apart, Precedes, Less, Low, High
    <3>2. CASE g \in files[c.level + 1]
      BY <3>1, <3>2, <1>16 DEF GoodInputs, Apart
    <3>3. CASE g \notin files[c.level + 1]
      <4>1. g = T /\ level = c.level + 1 /\ level # 0
        BY <3>1, <3>3, <2>1, <1>6
      <4>2. \A f \in c.in0 \cup c.in1 : High(f).key < Low(T).key \/ High(T).key < Low(f).key
        BY <4>1, <2>1, <1>12, <1>16 DEF GoodInputs
      <4>3. ASSUME NEW f \in c.in0 \cup c.in1, NEW h \in c.in0 \cup c.in1,
                   High(f).key < Low(T).key, High(T).key < Low(h).key
            PROVE  FALSE
        <5>1. /\ Low(T).key \in Keys /\ Low(T).key <= High(T).key
              /\ Low(f).key <= Low(T).key /\ Low(T).key <= High(h).key
          BY <4>3, <2>1, <1>3, FormedIs
        <5>2. PICK i \in c.in0 \cup c.in1 : InRange(Low(T).key, i)
          BY <5>1, <1>16 DEF GoodInputs, Covered
        <5> QED  BY <5>1, <5>2, <4>2, <2>1, <1>3, FormedIs DEF InRange
      <4>4. \A f \in c.in0 \cup c.in1 :
              /\ High(f).key < Low(T).key => Precedes(f, T)
              /\ High(T).key < Low(f).key => Precedes(T, f)
        BY DEF Precedes, Less
      <4> QED  BY <4>1, <4>2, <4>3, <4>4
    <3> QED  BY <3>2, <3>3
  <2>4. StaysNewer(c.level, c.in0)'
    <3>1. SUFFICES ASSUME NEW g \in files'[c.level] \ c.in0, NEW e \in g.entries,
                          NEW f \in All(c.in0), e.key = f.key
                   PROVE  e.seq > f.seq
      BY DEF StaysNewer, All
    <3>2. CASE g \in files[c.level]
      BY <3>1, <3>2, <1>16 DEF GoodInputs, StaysNewer, All
    <3>3. CASE g \notin files[c.level]
      <4>1. e \in mem /\ f \in All(files[c.level])
        BY <3>1, <3>3, <2>1, <1>3, <1>6, <1>16 DEF GoodInputs, All
      <4> QED  BY <4>1, <3>1, <2>1, <1>14
    <3> QED  BY <3>2, <3>3
  <2>5. Covered(c.in0 \cup c.in1)'
    BY <1>16 DEF GoodInputs, Covered, InRange, Low, High
  <2> QED  BY <2>2, <2>3, <2>4, <2>5, <1>16 DEF GoodInputs
<1> QED
  BY <1>6, <1>8, <1>11, <1>13, <1>15, <1>16 DEF Shape
-----------------------------------------------------------------------------
(***************************************************************************)
(* The invariant.                                                          *)
(***************************************************************************)
\* The inductive invariant says what the levels promise.
LEMMA InvImplies ==
  ASSUME LevelsInv, SizesAssumption
  PROVE  LevelsInOrder
<1>1. \A l \in Levels : \A f \in files[l] :
        f.num \in Nat /\ f.entries # {} /\ f.entries \subseteq Entries
  BY DEF LevelsInv, Formed, WellFormed
<1>2. Cardinality(manual) <= 1 /\ Cardinality(compaction) <= 1
  <2>1. Cardinality({}) = 0
    BY FS_EmptySet
  <2>2. \A c : Cardinality({c}) = 1
    BY FS_Singleton
  <2>3. compaction = {} \/ \E c : compaction = {c}
    BY DEF LevelsInv, Compacting
  <2>4. Cardinality(compaction) = 0 \/ Cardinality(compaction) = 1
    BY <2>1, <2>2, <2>3
  <2> QED  BY <2>1, <2>4 DEF LevelsInv, Typed
<1>3. \A c \in compaction \cup manual : c.level \in 0..NumLevels - 2
  BY DEF LevelsInv, Typed, Compacting, GoodInputs
<1> QED
  BY <1>1, <1>2, <1>3 DEF LevelsInv, Typed, LevelsTypeOK, LevelsInOrder

\* An empty database has the invariant.
LEMMA LevelsInit == SizesAssumption /\ Init => LevelsInv
<1>. SUFFICES ASSUME SizesAssumption, Init PROVE LevelsInv
  OBVIOUS
<1>1. 0 \in Levels /\ \A l \in Levels : files[l] = {}
  BY DEF Init, Levels, SizesAssumption
<1>2. Stored = {}
  BY <1>1 DEF Init, Stored, All
<1>3. Typed
  BY DEF Init, Typed, SizesAssumption
<1>4. NewerAbove
  BY <1>1 DEF Init, NewerAbove, All
<1> QED
  BY <1>1, <1>2, <1>3, <1>4
  DEF Init, LevelsInv, Formed, Numbered, Distinct, LevelsDisjoint, Compacting

\* Nothing about the levels depends on the other variables.
LEMMA SameLevels ==
  ASSUME UNCHANGED <<mem, files, lastSeq>>
  PROVE  /\ Shape => Shape'
         /\ \A c : GoodInputs(c) => GoodInputs(c)'
  BY DEF Shape, Formed, WellFormed, Numbered, Distinct, Stored, All, LevelsDisjoint, NewerAbove,
         GoodInputs, Apart, StaysNewer, Covered, Precedes, InRange, Less, Low, High

\* A write has the greatest number, and tables do not change.
LEMMA WriteKeeps ==
  ASSUME LevelsInv, SizesAssumption, NEW k \in Keys, NEW del \in {FALSE, Deletes}, Write(k, del)
  PROVE  LevelsInv'
<1>. DEFINE w == [key |-> k, seq |-> lastSeq + 1, del |-> del]
<1>1. /\ lastSeq \in Nat /\ lastSeq' = lastSeq + 1 /\ lastSeq' \in 0..MaxSeq
      /\ mem' = mem \cup {w} /\ w.seq = lastSeq + 1 /\ files' = files
  BY DEF Write, LevelsInv, Typed, SizesAssumption
<1>2. w \in Entries
  <2>1. del \in BOOLEAN
    BY DEF SizesAssumption
  <2>2. lastSeq + 1 \in 1..MaxSeq
    BY <1>1 DEF SizesAssumption
  <2> QED  BY <2>1, <2>2 DEF Entries
<1>. HIDE DEF w
<1>3. Typed'
  BY <1>1, <1>2 DEF Write, LevelsInv, Typed
<1>4. Formed' /\ LevelsDisjoint'
  BY <1>1 DEF LevelsInv, Formed, WellFormed, LevelsDisjoint, Less, Low, High
<1>5. Stored' = Stored \cup {w} /\ Stored \subseteq Entries
  <2>1. Stored' = Stored \cup {w}
    BY <1>1 DEF Stored, All
  <2>2. Stored \subseteq Entries
    BY DEF LevelsInv, Typed, Formed, WellFormed, Stored, All
  <2> QED  BY <2>1, <2>2
<1>6. \A e \in Stored : e.seq \in Int /\ e.seq <= lastSeq /\ e.seq < w.seq
  BY <1>1, <1>5, EntryIs DEF LevelsInv, Numbered
<1>7. Numbered'
  <2>1. Distinct(Stored)'
    BY <1>5, <1>6 DEF LevelsInv, Numbered, Distinct
  <2>2. \A e \in Stored' : e.seq <= lastSeq'
    BY <1>1, <1>5, <1>6
  <2>3. 0 \in Levels /\ \A f \in files[0] : f.num \in Int
    BY DEF Levels, SizesAssumption, LevelsInv, Formed, WellFormed
  <2>4. \A f \in files'[0] : f.num <= lastSeq' /\ \A e \in mem' : f.num < e.seq
    BY <2>3, <1>1 DEF LevelsInv, Numbered
  <2> QED  BY <2>1, <2>2, <2>4 DEF Numbered
<1>8. NewerAbove'
  <2>1. \A f \in All(UNION {files[l] : l \in Levels}) : w.seq > f.seq
    BY <1>6 DEF Stored
  <2> QED  BY <2>1, <1>1 DEF LevelsInv, NewerAbove, All
<1>9. Compacting'
  BY <1>1 DEF Write, LevelsInv, Compacting, GoodInputs, Apart, StaysNewer, All, Covered, Precedes,
              InRange, Less, Low, High
<1> QED
  BY <1>3, <1>4, <1>7, <1>8, <1>9 DEF LevelsInv

\* A compaction whose inputs were picked well: a move is done at once.
LEMMA BeginKeeps ==
  ASSUME LevelsInv, SizesAssumption, NEW level \in 0..NumLevels - 2,
         NEW picked, GoodPick(level, picked), BeginCompaction(level, picked, FALSE)
  PROVE  LevelsInv'
<1>. DEFINE c == SetupOtherInputs(level, picked)
            moved == {Table(0, f.entries) : f \in c.in0}
<1>0. Formed /\ LevelsDisjoint /\ Shape /\ Typed
  BY DEF LevelsInv, Shape
<1>1. GoodInputs(c)
  BY <1>0, SetupIsGood
<1>2. Starts(c, FALSE)
  BY DEF BeginCompaction
<1>. HIDE DEF c
<1>3. /\ compactPointer' = [compactPointer EXCEPT ![c.level] = High0(c)]
      /\ UNCHANGED <<mem, lastSeq, snapshots, manual>>
  BY <1>2 DEF Starts
<1>4. c.level \in Levels /\ c.in0 \subseteq files[c.level] /\ c.in0 # {} /\ \A f \in c.in0 : WellFormed(f)
  BY <1>0, <1>1 DEF GoodInputs, Levels, SizesAssumption, Formed
<1>5. compactPointer' \in [Levels -> {NoPointer} \cup Entries]
  <2>1. High0(c) \in Entries
    BY <1>4, RangeIs DEF High0
  <2> QED  BY <2>1, <1>0, <1>3, <1>4 DEF Typed
<1>6. CASE IsTrivialMove(c)
  <2>1. files' = Installed(c, moved) /\ compaction' = {}
    BY <1>2, <1>6 DEF Starts
  <2>2. PICK f : c.in0 = {f}
    BY <1>6 DEF IsTrivialMove
  <2>3. /\ moved = {Table(0, f.entries)} /\ WellFormed(f) /\ f.entries \subseteq Entries
        /\ f.entries # {}
    BY <2>2, <1>4 DEF WellFormed
  <2>4. WellFormed(Table(0, f.entries)) /\ Table(0, f.entries).entries = f.entries
        /\ Table(0, f.entries) \in Tables
    <3>1. Smallest(f.entries) \in Entries /\ Largest(f.entries) \in Entries
      BY <2>3, SmallestIs
    <3> QED  BY <3>1, <2>3, TableIs DEF Tables, Table
  <2>5. All(moved) \subseteq All(c.in0 \cup c.in1)
    BY <2>2, <2>3, <2>4 DEF All
  <2>6. /\ moved \subseteq Tables /\ \A g \in moved : WellFormed(g)
        /\ \A g, h \in moved : g # h => Precedes(g, h) \/ Precedes(h, g)
    BY <2>3, <2>4
  <2>. HIDE DEF moved
  <2>7. files' \in [Levels -> SUBSET Tables] /\ Shape'
    BY <1>0, <1>1, <1>3, <2>1, <2>5, <2>6, InstallKeeps
  <2> QED  BY <2>1, <2>7, <1>0, <1>3, <1>5 DEF LevelsInv, Shape, Typed, Compacting
<1>7. CASE ~IsTrivialMove(c)
  <2>1. files' = files /\ \E d : /\ compaction' = {d} /\ d.level = c.level
                                 /\ d.in0 = c.in0 /\ d.in1 = c.in1
    <3>. DEFINE new == [level |-> c.level, in0 |-> c.in0, in1 |-> c.in1,
                        grandparents |-> c.grandparents, manual |-> FALSE,
                        below |-> TablesBelow(c.level), snapshot |-> SmallestSnapshot]
    <3>1. files' = files /\ compaction' = {new}
      BY <1>2, <1>7 DEF Starts
    <3>2. new.level = c.level /\ new.in0 = c.in0 /\ new.in1 = c.in1
      OBVIOUS
    <3>. HIDE DEF new
    <3> QED  BY <3>1, <3>2
  <2>2. PICK d : compaction' = {d} /\ d.level = c.level /\ d.in0 = c.in0 /\ d.in1 = c.in1
    BY <2>1
  <2>3. GoodInputs(d)
    BY <1>1, <2>2 DEF GoodInputs, Apart
  <2>4. Shape' /\ GoodInputs(d)'
    BY <2>1, <2>3, <1>0, <1>3, SameLevels
  <2> QED  BY <2>1, <2>2, <2>4, <1>0, <1>3, <1>5 DEF LevelsInv, Shape, Typed, Compacting
<1> QED
  BY <1>6, <1>7

\* The end of a compaction: its outputs take the place of its inputs.
LEMMA DoCompactionWorkKeeps ==
  ASSUME LevelsInv, SizesAssumption, DoCompactionWork
  PROVE  LevelsInv'
<1>1. PICK c \in compaction :
        /\ files' = Installed(c, Outputs(c))
        /\ compaction' = {}
        /\ manual = {} => manual' = {}
        /\ UNCHANGED <<mem, lastSeq, snapshots, compactPointer>>
  BY DEF DoCompactionWork
<1>2. GoodInputs(c) /\ Shape /\ Typed
  BY DEF LevelsInv, Compacting, Shape
<1>3. manual' = {}
  BY <1>1, <1>2 DEF Typed
<1>. DEFINE input == All(c.in0 \cup c.in1)
<1>4. input \subseteq Stored /\ input \subseteq Entries
  <2>1. c.level \in Levels /\ c.level + 1 \in Levels
    BY <1>2 DEF GoodInputs, Levels, SizesAssumption
  <2>2. \A f \in c.in0 \cup c.in1 : f.entries \subseteq Stored /\ f.entries \subseteq Entries
    BY <2>1, <1>2 DEF GoodInputs, Stored, All, Shape, Formed, WellFormed
  <2> QED  BY <2>2 DEF All
<1>5. Distinct(input)
  BY <1>2, <1>4 DEF Shape, Numbered, Distinct
<1>6. /\ \A f \in Outputs(c) : WellFormed(f) /\ f.num = 0 /\ f.entries # {}
      /\ \A f, g \in Outputs(c) : f # g => AllLess(f.entries, g.entries) \/ AllLess(g.entries, f.entries)
      /\ All(Outputs(c)) = Kept(c)
  BY <1>4, <1>5, OutputsAre
<1>7. Outputs(c) \subseteq Tables
  <2>1. \A f \in Outputs(c) : \E S : f = Table(0, S)
    BY DEF Outputs
  <2>2. ASSUME NEW f \in Outputs(c) PROVE f \in Tables
    <3>1. WellFormed(f) /\ f.num \in Nat
      BY <1>6
    <3>2. Low(f) \in Entries /\ High(f) \in Entries /\ f.entries \subseteq Entries
      BY <3>1, FormedIs DEF WellFormed
    <3> QED  BY <2>1, <3>1, <3>2 DEF Table, Tables, Low, High
  <2> QED  BY <2>2
<1>8. All(Outputs(c)) \subseteq input
  BY <1>6 DEF Kept
<1>9. \A f, g \in Outputs(c) : f # g => Precedes(f, g) \/ Precedes(g, f)
  BY <1>6 DEF AllLess, Precedes, WellFormed
<1>10. files' \in [Levels -> SUBSET Tables] /\ Shape'
  BY <1>1, <1>2, <1>6, <1>7, <1>8, <1>9, InstallKeeps
<1> QED
  BY <1>1, <1>2, <1>3, <1>10 DEF LevelsInv, Shape, Typed, Compacting

\* Each step keeps the invariant.
LEMMA LevelsStep ==
  SizesAssumption /\ NoManual /\ LevelsInv /\ [Next]_vars => LevelsInv'
<1>. SUFFICES ASSUME SizesAssumption, NoManual, LevelsInv, [Next]_vars PROVE LevelsInv'
  OBVIOUS
<1>0. Typed /\ Shape /\ Compacting /\ Formed /\ LevelsDisjoint
  BY DEF LevelsInv, Shape
<1>1. ASSUME NEW k \in Keys, NEW del \in {FALSE, Deletes}, Write(k, del) PROVE LevelsInv'
  BY <1>1, WriteKeeps
<1>2. ASSUME UNCHANGED <<mem, files, lastSeq, compaction>>, Typed' PROVE LevelsInv'
  BY <1>0, <1>2, SameLevels DEF LevelsInv, Shape, Compacting
<1>3. ASSUME NEW h \in Handles, GetSnapshot(h) \/ ReleaseSnapshot(h) PROVE LevelsInv'
  BY <1>0, <1>2, <1>3 DEF GetSnapshot, ReleaseSnapshot, Typed, NoSnapshot
<1>4. CASE CompactMemTable
  <2>1. PICK level \in PickLevelForMemTableOutput(Smallest(mem).key, Largest(mem).key) : FlushTo(level)
    BY <1>4 DEF CompactMemTable
  <2>2. /\ mem # {} /\ mem' = {}
        /\ UNCHANGED <<lastSeq, snapshots, compactPointer, compaction, manual>>
    BY <1>4 DEF CompactMemTable
  <2>3. /\ files' \in [Levels -> SUBSET Tables] /\ Shape'
        /\ \A c : GoodInputs(c) => GoodInputs(c)'
    BY <1>0, <2>1, <2>2, FlushKeeps
  <2> QED  BY <1>0, <2>2, <2>3 DEF LevelsInv, Shape, Typed, Compacting
<1>5. ASSUME NEW level \in 0..NumLevels - 2, NEW f \in files[level], BeginCompaction(level, Picked(level, f), FALSE)
      PROVE  LevelsInv'
  <2>1. level \in Levels
    BY DEF Levels, SizesAssumption
  <2> QED  BY <2>1, <1>0, <1>5, PickedIsGood, BeginKeeps
<1>6. CASE PickSizeCompaction
  BY <1>5, <1>6 DEF PickSizeCompaction, FirstAfterPointer, FirstOf
<1>7. CASE PickSeekCompaction
  BY <1>5, <1>7 DEF PickSeekCompaction
<1>8. ~PickManualCompaction /\ ~FinishManual /\ ~PostAgain
  BY <1>0 DEF Typed, PickManualCompaction, FinishManual, PostAgain, Posted
<1>9. CASE DoCompactionWork
  BY <1>9, DoCompactionWorkKeeps
<1>10. CASE UNCHANGED vars
  BY <1>0, <1>2, <1>10 DEF vars, Typed
<1> QED
  BY <1>1, <1>3, <1>4, <1>6, <1>7, <1>8, <1>9, <1>10
  DEF Next, Client, Background, NoManual

\* "Must not overlap" (version_set.cc:741) and "Entries never hop across levels"
\* (version_set.cc:336): whatever is written, flushed, moved and compacted, and in
\* whatever order, the tables of a level below 0 do not overlap, and of two entries
\* for a key the newer is in the memtable, a newer table of level 0 or a level above.
THEOREM LevelsStayInOrder ==
  ASSUME SizesAssumption, NoManual
  PROVE  Spec => []LevelsInOrder
<1>1. Init => LevelsInv
  BY LevelsInit
<1>2. LevelsInv /\ [Next]_vars => LevelsInv'
  BY LevelsStep
<1>3. LevelsInv => LevelsInOrder
  BY InvImplies
<1> QED
  BY <1>1, <1>2, <1>3, PTL DEF Spec

-----------------------------------------------------------------------------
(***************************************************************************)
(* What a read finds.                                                      *)
(***************************************************************************)
\* The newest entry for a key, of those that are not newer than seq.
Answer(S, k, seq) ==
  LET found == Matching(S, k, seq)
  IN  IF found = {} THEN NotFound ELSE Value(Newest(found))

\* A set of entries has a newest one.
LEMMA NewestIs ==
  ASSUME NEW S, S \subseteq Entries, S # {}, SizesAssumption
  PROVE  Newest(S) \in S /\ \A e \in S : e.seq <= Newest(S).seq
<1>1. MaxSeq \in Nat /\ \A e \in S : e.seq \in 1..MaxSeq
  BY DEF SizesAssumption, Entries
<1>. DEFINE f == [e \in S |-> MaxSeq - e.seq]
<1>2. f \in [S -> Nat]
  BY <1>1
<1>3. PICK a \in S : \A e \in S : f[a] <= f[e]
  <2>. HIDE DEF f
  <2> QED  BY <1>2, LeastElement
<1>4. \A e \in S : e.seq <= a.seq
  BY <1>1, <1>3
<1> QED
  BY <1>4 DEF Newest

\* Of two sets of entries of different writes, one in the other, the newest are the same
\* if the one has the newest of the other.
LEMMA NewestSame ==
  ASSUME NEW T, T \subseteq Entries, T # {}, Distinct(T), NEW S \in SUBSET T, Newest(T) \in S,
         SizesAssumption
  PROVE  Newest(S) = Newest(T)
<1>1. /\ Newest(T) \in T /\ \A e \in T : e.seq <= Newest(T).seq
      /\ Newest(S) \in S /\ \A e \in S : e.seq <= Newest(S).seq
  BY NewestIs
<1>2. Newest(S) \in T /\ Newest(S).seq \in Int /\ Newest(T).seq \in Int
  BY <1>1 DEF Entries
<1>3. Newest(S).seq <= Newest(T).seq /\ Newest(T).seq <= Newest(S).seq
  BY <1>1, <1>2
<1>4. Newest(S).seq = Newest(T).seq
  BY <1>2, <1>3
<1> QED
  BY <1>1, <1>2, <1>4 DEF Distinct

\* All that is stored are entries.
LEMMA StoredAreEntries ==
  ASSUME Typed, Shape
  PROVE  /\ mem \subseteq Entries /\ Stored \subseteq Entries /\ Distinct(Stored)
         /\ \A l \in Levels : \A f \in files[l] : f.entries \subseteq Entries
  BY DEF Typed, Shape, Numbered, Formed, WellFormed, Stored, All

\* The table with the newest entry is one that a read of its level finds.
LEMMA NewestIsCandidate ==
  ASSUME Typed, Shape, SizesAssumption, NEW k \in Keys, NEW seq \in Int,
         NEW l \in Levels, NEW g \in files[l], NEW n \in g.entries, n.key = k, n.seq <= seq,
         \A e \in Stored : e.key = k /\ e.seq <= seq => e.seq <= n.seq
  PROVE  g \in Hits(l, k, seq) /\ g \in Newer(Hits(l, k, seq))
<1>0. /\ Stored \subseteq Entries /\ WellFormed(g) /\ g.num \in Nat /\ n \in Stored /\ n \in Entries
      /\ \A f \in files[l] : WellFormed(f) /\ f.num \in Nat /\ f.entries \subseteq Stored
      /\ Formed /\ LevelsDisjoint /\ NewerAbove
  BY StoredAreEntries DEF Shape, Formed, WellFormed, Stored, All
<1>1. /\ k \in Int /\ n.seq \in Int /\ n.key \in Int
      /\ Low(g).key \in Int /\ High(g).key \in Int /\ Low(g).seq \in Int /\ High(g).seq \in Int
      /\ Low(g).key <= k /\ k <= High(g).key
      /\ ~Less(n, Low(g)) /\ ~Less(High(g), n)
  <2>1. Low(g) \in Entries /\ High(g) \in Entries /\ ~Less(n, Low(g)) /\ ~Less(High(g), n)
    BY <1>0, FormedIs DEF WellFormed
  <2> QED
    BY <2>1, <1>0, EntryIs DEF Less
<1>2. Matching(g.entries, k, seq) # {}
  BY DEF Matching
<1>3. CASE l = 0
  <2>1. g \in Hits(l, k, seq)
    BY <1>1, <1>2, <1>3 DEF Hits, Candidates, InRange
  <2>2. ASSUME NEW f \in Hits(l, k, seq), ~(f.num <= g.num) PROVE FALSE
    <3>1. f \in files[0]
      BY <1>3 DEF Hits, Candidates
    <3>2. PICK e \in f.entries : e.key = k /\ e.seq <= seq
      BY DEF Hits, Matching
    <3>3. e.seq > n.seq
      BY <3>1, <3>2, <2>2, <1>0, <1>3 DEF NewerAbove
    <3>4. e \in Stored /\ e.seq \in Int
      BY <3>1, <1>0, <1>3, EntryIs
    <3> QED
      BY <3>2, <3>3, <3>4, <1>1
  <2> QED
    BY <2>1, <2>2 DEF Newer
<1>4. CASE l # 0
  <2>. DEFINE probe == [key |-> k, seq |-> seq]
  <2>0. l \in Levels \ {0}
    BY <1>4
  <2>1. ~Less(High(g), probe)
    BY <1>1 DEF Less
  <2>2. ASSUME NEW f \in files[l], ~Less(High(f), probe), Less(High(f), High(g)) PROVE FALSE
    <3>1. /\ High(f) \in f.entries /\ High(f) \in Entries /\ Low(f) \in Entries
          /\ High(g) \in Entries /\ Low(g) \in Entries
          /\ ~Less(High(f), Low(f)) /\ ~Less(High(g), Low(g))
      BY <1>0, FormedIs DEF WellFormed
    <3>2. f = g \/ Precedes(f, g) \/ Precedes(g, f)
      BY <2>0, <1>0, LevelOrder
    <3>3. ~Precedes(g, f) /\ f # g
      BY <3>1, <2>2, LessIs DEF Precedes
    <3>4. Less(High(f), n)
      BY <3>1, <3>2, <3>3, <1>0, <1>1, LessIs DEF Precedes
    <3>5. High(f).key = k /\ High(f).seq > n.seq /\ High(f).seq <= seq
      BY <3>1, <3>4, <2>2, <1>1, EntryIs DEF Less
    <3>6. High(f) \in Stored /\ High(f).seq \in Int
      BY <3>1, <1>0, EntryIs
    <3> QED
      BY <3>5, <3>6, <1>1
  <2>3. g \in FindFile(files[l], k, seq)
    BY <2>1, <2>2 DEF FindFile
  <2>4. g \in Hits(l, k, seq)
    BY <2>3, <1>1, <1>2, <1>4 DEF Hits, Candidates
  <2>5. ASSUME NEW f \in Hits(l, k, seq) PROVE f = g
    <3>1. f \in FindFile(files[l], k, seq) /\ f \in files[l]
      BY <1>4 DEF Hits, Candidates, FindFile
    <3>2. ~Less(High(g), High(f)) /\ ~Less(High(f), High(g))
      BY <3>1, <2>3 DEF FindFile
    <3> QED
      BY <3>1, <3>2, <2>0, <1>0, LevelOrder
  <2> QED
    BY <2>4, <2>5, <1>0 DEF Newer
<1> QED
  BY <1>3, <1>4

\* Version::Get and the memtable before it find the newest entry of all that is stored,
\* though they look at one table of a level.
GetsRight == \A k \in Keys, seq \in Int : Get(k, seq) = Answer(Stored, k, seq)
\* And so a read finds the newest of all entries for its key, up to its snapshot.
LEMMA GetIs ==
  ASSUME SizesAssumption PROVE LevelsInv => GetsRight
<1>. SUFFICES ASSUME LevelsInv, NEW k \in Keys, NEW seq \in Int
              PROVE  Get(k, seq) = Answer(Stored, k, seq)
  BY DEF GetsRight
<1>0. /\ Typed /\ Shape /\ NewerAbove
      /\ mem \subseteq Entries /\ Stored \subseteq Entries /\ Distinct(Stored)
      /\ \A l \in Levels : \A f \in files[l] : f.entries \subseteq Entries
  BY StoredAreEntries DEF LevelsInv, Shape
<1>. DEFINE T == Matching(Stored, k, seq)
            inMem == Matching(mem, k, seq)
            inHits == Matching(All(FirstHits(k, seq)), k, seq)
            found == IF inMem # {} THEN inMem ELSE inHits
<1>1. Get(k, seq) = IF found = {} THEN NotFound ELSE Value(Newest(found))
  BY DEF Get
<1>2. FirstHits(k, seq) \subseteq UNION {files[l] : l \in Levels}
  BY DEF FirstHits, Newer, Hits, Candidates, FindFile
<1>3. found \subseteq T
  BY <1>2 DEF Matching, All, Stored
<1>4. T \subseteq Entries /\ Distinct(T) /\ \A e \in T : e \in Stored /\ e.key = k /\ e.seq <= seq
  BY <1>0 DEF Matching, Distinct
<1>. HIDE DEF T
<1>5. ASSUME T # {} PROVE Newest(T) \in found
  <2>. DEFINE n == Newest(T)
  <2>1. n \in T /\ n \in Stored /\ n \in Entries /\ n.key = k /\ n.seq <= seq
        /\ \A e \in T : e.seq <= n.seq
    BY <1>4, <1>5, NewestIs
  <2>2. \A e \in Stored : e.key = k /\ e.seq <= seq => e.seq <= n.seq
    BY <2>1 DEF T, Matching
  <2>. HIDE DEF n
  <2>3. CASE n \in mem
    BY <2>1, <2>3 DEF Matching, n
  <2>4. CASE n \notin mem
    <3>1. PICK l \in Levels : \E g \in files[l] : n \in g.entries
      BY <2>1, <2>4 DEF Stored, All
    <3>. PICK g \in files[l] : n \in g.entries
      BY <3>1
    <3>2. ASSUME NEW e \in inMem PROVE FALSE
      <4>1. e \in mem /\ e \in Stored /\ e.key = k /\ e.seq <= seq
        BY <3>2 DEF Matching, Stored
      <4>2. e.seq > n.seq
        BY <4>1, <3>1, <2>1, <1>0 DEF NewerAbove, All
      <4> QED
        BY <4>1, <4>2, <2>1, <2>2, <1>0, EntryIs
    <3>3. ASSUME NEW m \in 0..l - 1 PROVE Hits(m, k, seq) = {}
      <4>0. m \in Levels /\ m < l
        BY DEF Levels, SizesAssumption
      <4>1. SUFFICES ASSUME NEW f \in Hits(m, k, seq) PROVE FALSE
        OBVIOUS
      <4>2. PICK e \in f.entries : e.key = k /\ e.seq <= seq
        BY DEF Hits, Matching
      <4>3. f \in files[m]
        BY DEF Hits, Candidates, FindFile
      <4>4. e \in All(files[m]) /\ n \in All(files[l]) /\ e \in Stored
        BY <4>0, <4>2, <4>3, <3>1 DEF All, Stored
      <4>5. e.seq > n.seq
        BY <4>0, <4>2, <4>4, <2>1, <1>0 DEF NewerAbove
      <4> QED
        BY <4>2, <4>4, <4>5, <2>1, <2>2, <1>0, EntryIs
    <3>4. g \in Newer(Hits(l, k, seq))
      BY <3>1, <2>1, <2>2, <1>0, NewestIsCandidate
    <3>5. g \in FirstHits(k, seq)
      <4>. DEFINE hits == [i \in Levels |-> Hits(i, k, seq)]
                  first == {i \in Levels : hits[i] # {} /\ \A m \in 0..i - 1 : hits[m] = {}}
      <4>1. hits[l] = Hits(l, k, seq) /\ hits[l] # {}
        BY <3>4 DEF Newer
      <4>2. ASSUME NEW m \in 0..l - 1 PROVE hits[m] = {}
        <5>1. m \in Levels
          BY DEF Levels, SizesAssumption
        <5> QED  BY <5>1, <3>3
      <4>3. l \in first
        BY <4>1, <4>2
      <4>4. FirstHits(k, seq) = UNION {Newer(hits[i]) : i \in first}
        BY DEF FirstHits
      <4> QED
        BY <4>1, <4>3, <4>4, <3>4
    <3> QED
      BY <3>1, <3>2, <3>5, <2>1 DEF Matching, All, n
  <2> QED
    BY <2>3, <2>4 DEF n
<1>. HIDE DEF found
<1>6. CASE T = {}
  BY <1>1, <1>3, <1>6 DEF Answer, T
<1>7. CASE T # {}
  <2>1. found # {} /\ Newest(found) = Newest(T)
    BY <1>3, <1>4, <1>5, <1>7, NewestSame
  <2> QED
    BY <2>1, <1>1, <1>7 DEF Answer, T
<1> QED
  BY <1>6, <1>7

-----------------------------------------------------------------------------
(***************************************************************************)
(* What each step changes of the answers.                                  *)
(***************************************************************************)
\* The answers of all reads, now and in the snapshots, in terms of what is stored.
ReadsAnswer ==
  /\ NowRead = [k \in Keys |-> Answer(Stored, k, lastSeq)]
  /\ ViewsRead = [h \in Handles |-> [k \in Keys |->
                    IF snapshots[h] = NoSnapshot THEN 0 ELSE Answer(Stored, k, snapshots[h])]]
\* Both are answers about what is stored, wherever it is.
LEMMA ReadsAre == ASSUME SizesAssumption PROVE LevelsInv => ReadsAnswer
<1>. SUFFICES ASSUME LevelsInv PROVE ReadsAnswer
  OBVIOUS
<1>1. GetsRight
  BY GetIs
<1>2. lastSeq \in Int /\ \A h \in Handles : snapshots[h] \in Int
  BY DEF LevelsInv, Typed, NoSnapshot, SizesAssumption
<1> QED
  BY <1>1, <1>2 DEF ReadsAnswer, NowRead, ViewsRead, GetsRight

\* Every snapshot that is held was taken.
SnapshotsTaken == \A h \in Handles : snapshots[h] <= lastSeq

\* A write changes what is found for its key, and nothing that a snapshot sees.
LEMMA WriteReads ==
  ASSUME LevelsInv, ReadsAnswer, ReadsAnswer', SnapshotsTaken, SizesAssumption,
         NEW k \in Keys, NEW del \in {FALSE, Deletes}, Write(k, del)
  PROVE  Promised!Next
<1>. DEFINE w == [key |-> k, seq |-> lastSeq + 1, del |-> del]
<1>1. /\ lastSeq \in Int /\ lastSeq' = lastSeq + 1 /\ snapshots' = snapshots
      /\ Stored' = Stored \cup {w}
      /\ \A h \in Handles : snapshots[h] \in Int /\ snapshots[h] <= lastSeq
  <2>1. lastSeq \in Int /\ lastSeq' = lastSeq + 1 /\ snapshots' = snapshots
    BY DEF Write, LevelsInv, Typed, SizesAssumption
  <2>2. Stored' = Stored \cup {w}
    BY DEF Write, Stored
  <2>3. \A h \in Handles : snapshots[h] \in Int /\ snapshots[h] <= lastSeq
    BY DEF LevelsInv, Typed, SnapshotsTaken, NoSnapshot, SizesAssumption
  <2> QED
    BY <2>1, <2>2, <2>3
<1>2. \A e \in Stored : e.seq \in Int /\ e.seq <= lastSeq
  BY StoredAreEntries, EntryIs DEF LevelsInv, Shape, Numbered
<1>. w.key = k /\ w.seq = lastSeq + 1 /\ w.del = del
  OBVIOUS
<1>. HIDE DEF w
<1>3. ASSUME NEW i, NEW seq \in Int, seq <= lastSeq
      PROVE  Answer(Stored', i, seq) = Answer(Stored, i, seq)
  <2>1. Matching(Stored', i, seq) = Matching(Stored, i, seq)
    BY <1>1, <1>3 DEF Matching
  <2> QED
    BY <2>1 DEF Answer
<1>4. ASSUME NEW i \in Keys, i # k
      PROVE  Answer(Stored', i, lastSeq') = Answer(Stored, i, lastSeq)
  <2>1. Matching(Stored', i, lastSeq') = Matching(Stored, i, lastSeq)
    BY <1>1, <1>2, <1>4 DEF Matching
  <2> QED
    BY <2>1 DEF Answer
<1>5. Answer(Stored', k, lastSeq') \in {lastSeq', 0}
  <2>. DEFINE T == Matching(Stored', k, lastSeq')
  <2>1. w \in T /\ \A e \in T : e.seq <= lastSeq + 1 /\ (e.seq = lastSeq + 1 => e = w)
    BY <1>1, <1>2 DEF Matching
  <2>2. Newest(T) \in T /\ \A e \in T : e.seq <= Newest(T).seq
    <3>1. \E n \in T : \A e \in T : e.seq <= n.seq
      BY <2>1
    <3> QED
      BY <3>1 DEF Newest
  <2>3. Newest(T) = w
    <3>1. Newest(T).seq \in Int
      BY <2>2, <1>1, <1>2 DEF Matching
    <3>2. w.seq <= Newest(T).seq /\ Newest(T).seq <= lastSeq + 1
      BY <2>1, <2>2
    <3>3. Newest(T).seq = lastSeq + 1
      BY <3>1, <3>2, <1>1
    <3> QED
      BY <3>3, <2>1, <2>2
  <2> QED
    BY <2>1, <2>3, <1>1 DEF Answer, Value, NotFound
<1>6. NowRead' = [NowRead EXCEPT ![k] = Answer(Stored', k, lastSeq')]
  BY <1>4 DEF ReadsAnswer
<1>7. ViewsRead' = ViewsRead
  BY <1>1, <1>3 DEF ReadsAnswer
<1>8. Promised!Set
  BY <1>1, <1>5, <1>6, <1>7 DEF Promised!Set
<1> QED
  BY <1>8 DEF Promised!Next

\* A snapshot sees from now on what a read finds now.
LEMMA GetSnapshotReads ==
  ASSUME LevelsInv, ReadsAnswer, ReadsAnswer', SizesAssumption, NEW h \in Handles, GetSnapshot(h)
  PROVE  Promised!Next
<1>1. /\ Stored' = Stored /\ lastSeq' = lastSeq /\ snapshots' = [snapshots EXCEPT ![h] = lastSeq]
      /\ lastSeq # NoSnapshot /\ snapshots \in [Handles -> {NoSnapshot} \cup 0..MaxSeq]
  BY DEF GetSnapshot, LevelsInv, Typed, Stored, NoSnapshot, SizesAssumption
<1>2. NowRead' = NowRead
  BY <1>1 DEF ReadsAnswer
<1>3. ViewsRead' = [ViewsRead EXCEPT ![h] = NowRead]
  BY <1>1 DEF ReadsAnswer
<1>4. Promised!GetSnapshot
  BY <1>1, <1>2, <1>3 DEF Promised!GetSnapshot
<1> QED
  BY <1>4 DEF Promised!Next

\* Releasing a snapshot changes no other answer.
LEMMA ReleaseSnapshotReads ==
  ASSUME LevelsInv, ReadsAnswer, ReadsAnswer', NEW h \in Handles, ReleaseSnapshot(h)
  PROVE  Promised!Next
<1>1. /\ Stored' = Stored /\ lastSeq' = lastSeq
      /\ snapshots' = [snapshots EXCEPT ![h] = NoSnapshot]
      /\ snapshots \in [Handles -> {NoSnapshot} \cup 0..MaxSeq]
  BY DEF ReleaseSnapshot, LevelsInv, Typed, Stored
<1>2. NowRead' = NowRead
  BY <1>1 DEF ReadsAnswer
<1>3. ViewsRead' = [ViewsRead EXCEPT ![h] = Promised!NotHeld]
  BY <1>1 DEF ReadsAnswer, Promised!NotHeld
<1>4. Promised!ReleaseSnapshot
  BY <1>1, <1>2, <1>3 DEF Promised!ReleaseSnapshot
<1> QED
  BY <1>4 DEF Promised!Next

\* Entries that only move change no answer.
LEMMA SameReads ==
  ASSUME ReadsAnswer, ReadsAnswer', Stored' = Stored, UNCHANGED <<lastSeq, snapshots>>
  PROVE  UNCHANGED Promised!vars
BY DEF ReadsAnswer, Promised!vars

\* Before anything is written nothing is found.
LEMMA InitReads ==
  ASSUME ReadsAnswer, Init
  PROVE  Promised!Init
<1>1. Stored = {} /\ lastSeq = 0 /\ \A h \in Handles : snapshots[h] = NoSnapshot
  BY DEF Init, Stored, All, Levels
<1>2. \A k, seq : Answer(Stored, k, seq) = 0
  BY <1>1 DEF Answer, Matching, NotFound
<1> QED
  BY <1>1, <1>2 DEF ReadsAnswer, Promised!Init, Promised!NotHeld

-----------------------------------------------------------------------------
(***************************************************************************)
(* A compaction changes no answer.                                         *)
(***************************************************************************)
NoCommonKeys(S, T) == \A a \in S, b \in T : a.key # b.key

\* Where nobody deletes nothing is deleted.
NothingDeleted == Deletes = FALSE => \A e \in Stored : ~e.del
\* Without snapshots the entries for a key in a level below 0 are in one table.
KeysApart ==
  Handles = {} =>
    \A l \in Levels \ {0} : \A f, g \in files[l] :
      f # g => NoCommonKeys(f.entries, g.entries)
\* What stays in the next level has no key of the inputs from the level itself.
NextApart(c) ==
  \A g \in files[c.level + 1] \ c.in1 : NoCommonKeys(g.entries, All(c.in0))
\* Nor have the tables below that were not there when the compaction began.
BelowKnown(c) ==
  \A l \in c.level + 2..NumLevels - 1 : \A g \in files[l] \ c.below :
    NoCommonKeys(g.entries, All(c.in0 \cup c.in1))
\* No snapshot, and no read to come, sees less than the compaction's snapshot.
SeenByAll(c) ==
  /\ c.snapshot \in 0..lastSeq
  /\ \A h \in Handles : snapshots[h] = NoSnapshot \/ c.snapshot <= snapshots[h]
  /\ Handles = {} => \A e \in All(c.in0 \cup c.in1) : e.seq <= c.snapshot
ReadsInv ==
  /\ LevelsInv /\ SnapshotsTaken /\ NothingDeleted /\ KeysApart
  /\ \A c \in compaction : NextApart(c) /\ BelowKnown(c) /\ SeenByAll(c)

\* Nobody deletes, or nobody takes snapshots (no part of the program takes one).
NoResurfacing == Deletes = FALSE \/ Handles = {}

\* Where the entries are when a compaction has ended: where they were, or in its outputs.
LEMMA InstalledEntries ==
  ASSUME LevelsInv, SizesAssumption, NEW c \in compaction,
         files' = Installed(c, Outputs(c)), mem' = mem
  PROVE  /\ GoodInputs(c) /\ c.level + 1 \in Levels
         /\ \A e \in Stored : e \notin All(c.in0 \cup c.in1) \/ e \in Kept(c) => e \in Stored'
         /\ \A e \in Stored' :
              \/ e \in mem
              \/ e \in Kept(c)
              \/ \E l \in Levels : \E f \in files[l] :
                   /\ e \in f.entries
                   /\ l = c.level => f \notin c.in0
                   /\ l = c.level + 1 => f \notin c.in1
<1>. DEFINE lv == c.level
            input == All(c.in0 \cup c.in1)
<1>0. GoodInputs(c) /\ Typed /\ Shape
  BY DEF LevelsInv, Compacting, Shape
<1>1. /\ lv \in Levels /\ lv + 1 \in Levels /\ lv # lv + 1
      /\ c.in0 \subseteq files[lv] /\ c.in1 \subseteq files[lv + 1]
      /\ lv + 1 \in Int
  BY <1>0 DEF GoodInputs, Levels, SizesAssumption
<1>2. input \subseteq Stored
  BY <1>1 DEF Stored, All
<1>3. All(Outputs(c)) = Kept(c)
  <2>1. input \subseteq Entries /\ Distinct(input)
    BY <1>0, <1>2, StoredAreEntries DEF Distinct
  <2> QED
    BY <2>1, OutputsAre
<1>4. /\ files \in [Levels -> SUBSET Tables]
      /\ files'[lv] = files[lv] \ c.in0
      /\ files'[lv + 1] = (files[lv + 1] \ c.in1) \cup Outputs(c)
      /\ \A l \in Levels : l # lv /\ l # lv + 1 => files'[l] = files[l]
  BY <1>0, <1>1 DEF Installed, Typed
<1>5. ASSUME NEW e \in Stored, e \notin input \/ e \in Kept(c) PROVE e \in Stored'
  <2>1. CASE e \in mem
    BY <2>1 DEF Stored
  <2>2. CASE e \in Kept(c)
    BY <2>2, <1>1, <1>3, <1>4 DEF Stored, All
  <2>3. CASE e \notin mem /\ e \notin input
    <3>1. PICK l \in Levels : \E f \in files[l] : e \in f.entries
      BY <2>3 DEF Stored, All
    <3>2. PICK f \in files[l] : e \in f.entries
      BY <3>1
    <3>3. f \notin c.in0 /\ f \notin c.in1
      BY <3>2, <2>3 DEF All
    <3>4. f \in files'[l]
      BY <3>2, <3>3, <1>4
    <3> QED
      BY <3>2, <3>4 DEF Stored, All
  <2> QED
    BY <2>1, <2>2, <2>3, <1>5
<1>6. ASSUME NEW e \in Stored', e \notin mem, e \notin Kept(c)
      PROVE  \E l \in Levels : \E f \in files[l] :
               e \in f.entries /\ (l = lv => f \notin c.in0) /\ (l = lv + 1 => f \notin c.in1)
  <2>1. PICK l \in Levels : \E f \in files'[l] : e \in f.entries
    BY <1>6 DEF Stored, All
  <2>2. PICK f \in files'[l] : e \in f.entries
    BY <2>1
  <2>3. f \notin Outputs(c)
    BY <2>2, <1>6, <1>3 DEF All
  <2>4. f \in files[l] /\ (l = lv => f \notin c.in0) /\ (l = lv + 1 => f \notin c.in1)
    BY <2>2, <2>3, <1>1, <1>4
  <2> QED
    BY <2>2, <2>4
<1> QED
  BY <1>0, <1>1, <1>5, <1>6

\* If the compaction drops a deletion, nothing is left that the deletion had hidden.
LEMMA DeletionHidesNothing ==
  ASSUME ReadsInv, SizesAssumption, NoResurfacing, NEW c \in compaction,
         files' = Installed(c, Outputs(c)), mem' = mem,
         NEW n \in All(c.in0 \cup c.in1), n.del, n.seq <= c.snapshot,
         IsBaseLevelForKey(c, n.key),
         NEW e \in Stored', e.key = n.key, e.seq < n.seq
  PROVE  FALSE
<1>. DEFINE lv == c.level
<1>0. /\ LevelsInv /\ GoodInputs(c) /\ lv + 1 \in Levels /\ lv \in Levels /\ lv \in Int
      /\ Typed /\ Shape /\ NewerAbove
      /\ \A l \in Levels : l \in Int /\ 0 <= l /\ l <= NumLevels - 1
  <2>1. LevelsInv /\ GoodInputs(c) /\ lv + 1 \in Levels
    BY InstalledEntries DEF ReadsInv
  <2>2. lv \in Levels /\ lv \in Int /\ \A l \in Levels : l \in Int /\ 0 <= l /\ l <= NumLevels - 1
    BY <2>1 DEF GoodInputs, Levels, SizesAssumption
  <2> QED
    BY <2>1, <2>2 DEF LevelsInv, Shape
<1>1. PICK p \in c.in0 \cup c.in1 : n \in p.entries
  BY DEF All
<1>2. \/ p \in c.in0 /\ p \in files[lv]
      \/ p \in c.in1 /\ p \in files[lv + 1]
  BY <1>0, <1>1 DEF GoodInputs
<1>3. n \in Stored /\ n \in Entries /\ n.seq \in Int
  BY <1>0, <1>1, <1>2, StoredAreEntries, EntryIs DEF Stored, All
<1>4. Handles = {} /\ KeysApart
  BY <1>3 DEF NoResurfacing, ReadsInv, NothingDeleted
<1>5. CASE e \in mem
  <2>1. n \in All(UNION {files[l] : l \in Levels})
    BY <1>0, <1>1, <1>2 DEF All
  <2>2. e.seq > n.seq /\ e.seq \in Int
    BY <2>1, <1>5, <1>0, StoredAreEntries, EntryIs DEF NewerAbove
  <2> QED
    BY <2>2, <1>3
<1>6. CASE e \in Kept(c)
  BY <1>3, <1>6 DEF Kept
<1>7. ASSUME NEW l \in Levels, NEW g \in files[l], e \in g.entries,
             l = lv => g \notin c.in0, l = lv + 1 => g \notin c.in1
      PROVE  FALSE
  <2>0. e.seq \in Int /\ e \in Entries /\ e \in All(files[l]) /\ WellFormed(g)
    BY <1>7, <1>0, StoredAreEntries, EntryIs DEF All, Shape, Formed
  <2>1. CASE l < lv
    <3>1. \E m \in Levels : l < m /\ n \in All(files[m])
      BY <2>1, <1>0, <1>1, <1>2 DEF All
    <3>2. e.seq > n.seq
      BY <3>1, <2>0, <1>0 DEF NewerAbove
    <3> QED
      BY <3>2, <2>0, <1>3
  <2>2. CASE l = lv
    <3>1. CASE p \in c.in0
      <4>1. e \in All(files[lv] \ c.in0) /\ n \in All(c.in0)
        BY <3>1, <2>2, <1>1, <1>7 DEF All
      <4>2. e.seq > n.seq
        BY <4>1, <1>0 DEF GoodInputs, StaysNewer
      <4> QED
        BY <4>2, <2>0, <1>3
    <3>2. CASE p \in files[lv + 1]
      <4>1. n \in All(files[lv + 1]) /\ l < lv + 1
        BY <3>2, <2>2, <1>0, <1>1 DEF All
      <4>2. e.seq > n.seq
        BY <4>1, <2>0, <1>0 DEF NewerAbove
      <4> QED
        BY <4>2, <2>0, <1>3
    <3> QED
      BY <3>1, <3>2, <1>2
  <2>3. CASE l = lv + 1
    <3>1. CASE p \in c.in0
      <4>1. n \in All(c.in0) /\ g \in files[lv + 1] \ c.in1
        BY <3>1, <2>3, <1>1, <1>7 DEF All
      <4>2. NextApart(c)
        BY DEF ReadsInv
      <4> QED
        BY <4>1, <4>2, <1>7 DEF NextApart, NoCommonKeys
    <3>2. CASE p \in c.in1 /\ p \in files[lv + 1]
      <4>1. p # g /\ lv + 1 \in Levels \ {0}
        BY <3>2, <2>3, <1>7, <1>0 DEF GoodInputs
      <4> QED
        BY <4>1, <3>2, <2>3, <1>1, <1>4, <1>7 DEF KeysApart, NoCommonKeys
    <3> QED
      BY <3>1, <3>2, <1>2
  <2>4. CASE l \in lv + 2..NumLevels - 1
    <3>1. CASE g \in c.below
      <4>1. Low(g).key <= e.key /\ e.key <= High(g).key
        <5>1. Low(g) \in Entries /\ High(g) \in Entries /\ ~Less(e, Low(g)) /\ ~Less(High(g), e)
          BY <2>0, <1>7, FormedIs DEF WellFormed
        <5> QED
          BY <5>1, <2>0, EntryIs DEF Less
      <4> QED
        BY <4>1, <3>1 DEF IsBaseLevelForKey, InRange
    <3>2. CASE g \notin c.below
      <4>1. BelowKnown(c)
        BY DEF ReadsInv
      <4> QED
        BY <4>1, <3>2, <2>4, <1>7 DEF BelowKnown, NoCommonKeys
    <3> QED
      BY <3>1, <3>2
  <2> QED
    BY <2>1, <2>2, <2>3, <2>4, <1>0 DEF SizesAssumption
<1> QED
  BY <1>0, <1>5, <1>6, <1>7, InstalledEntries

\* No read at or after the snapshot of a compaction is answered otherwise once its
\* outputs have taken the place of its inputs.
LEMMA CompactionAnswers ==
  ASSUME ReadsInv, SizesAssumption, NoResurfacing, NEW c \in compaction,
         files' = Installed(c, Outputs(c)), mem' = mem,
         NEW k \in Keys, NEW seq \in Int, c.snapshot <= seq
  PROVE  Answer(Stored', k, seq) = Answer(Stored, k, seq)
<1>. DEFINE T == Matching(Stored, k, seq)
            S == Matching(Stored', k, seq)
<1>0. /\ LevelsInv /\ GoodInputs(c)
      /\ Stored \subseteq Entries /\ Distinct(Stored) /\ c.snapshot \in Int
      /\ All(c.in0 \cup c.in1) \subseteq Stored
  <2>1. LevelsInv /\ GoodInputs(c)
    BY InstalledEntries DEF ReadsInv
  <2>2. Typed /\ Shape /\ lastSeq \in Int
    BY <2>1 DEF LevelsInv, Shape, Typed, SizesAssumption
  <2>3. c.snapshot \in Int
    <3>1. c.snapshot \in 0..lastSeq
      BY DEF ReadsInv, SeenByAll
    <3> QED
      BY <2>2, <3>1
  <2>4. All(c.in0 \cup c.in1) \subseteq Stored
    BY <2>1 DEF GoodInputs, Stored, All, Levels, SizesAssumption
  <2> QED
    BY <2>1, <2>2, <2>3, <2>4, StoredAreEntries
<1>1. Stored' \subseteq Stored
  BY <1>0, InstalledEntries DEF Stored, All, Kept
<1>2. /\ S \in SUBSET T /\ T \subseteq Entries /\ Distinct(T)
      /\ \A e \in T : e \in Stored /\ e.key = k /\ e.seq <= seq /\ e.seq \in Int
      /\ \A e \in S : e \in Stored'
      /\ \A e \in T : e \in Stored' => e \in S
  BY <1>0, <1>1, EntryIs DEF Matching, Distinct
<1>. HIDE DEF T, S
<1>3. CASE T = {}
  BY <1>2, <1>3 DEF Answer, S, T
<1>4. CASE T # {}
  <2>. DEFINE n == Newest(T)
  <2>1. n \in T /\ \A e \in T : e.seq <= n.seq
    BY <1>2, <1>4, NewestIs
  <2>2. CASE n \in Stored'
    <3>1. n \in S /\ Newest(S) = n
      BY <2>1, <2>2, <1>2, <1>4, NewestSame
    <3> QED
      BY <3>1, <1>4 DEF Answer, S, T
  <2>. HIDE DEF n
  <2>3. CASE n \notin Stored'
    <3>1. n \in All(c.in0 \cup c.in1) /\ n \notin Kept(c)
      BY <2>1, <2>3, <1>0, <1>2, InstalledEntries
    <3>2. ASSUME NEW f \in All(c.in0 \cup c.in1), f.key = n.key, f.seq > n.seq, f.seq <= c.snapshot
          PROVE  FALSE
      <4>1. f \in Stored /\ f.seq \in Int
        BY <1>0, EntryIs
      <4>2. f \in T
        BY <4>1, <3>2, <2>1, <1>0, <1>2 DEF T, Matching
      <4> QED
        BY <4>1, <4>2, <3>2, <2>1, <1>2
    <3>3. n.del /\ n.seq <= c.snapshot /\ IsBaseLevelForKey(c, n.key)
      BY <3>1, <3>2 DEF Kept
    <3>4. ASSUME NEW e \in S PROVE FALSE
      <4>1. e \in Stored' /\ e \in T /\ e.key = n.key /\ e.seq <= n.seq /\ e # n
        BY <3>4, <2>1, <2>3, <1>2
      <4>2. e.seq < n.seq
        BY <4>1, <2>1, <1>2 DEF Distinct
      <4> QED
        BY <4>1, <4>2, <3>1, <3>3, DeletionHidesNothing
    <3> QED
      BY <3>3, <3>4, <1>4 DEF Answer, S, T, Value, NotFound, n
  <2> QED
    BY <2>2, <2>3
<1> QED
  BY <1>3, <1>4

-----------------------------------------------------------------------------
(***************************************************************************)
(* What reads rely on is kept.                                             *)
(***************************************************************************)
\* What a running compaction is to leave to reads.
Running(c) == NextApart(c) /\ BelowKnown(c) /\ SeenByAll(c)

\* Tables that a range of keys passes by have no key in it.
LEMMA PassedBy ==
  ASSUME NEW f, WellFormed(f), SizesAssumption, NEW lo \in Int, NEW hi \in Int,
         ~Overlaps(f, lo, hi)
  PROVE  \A e \in f.entries : ~(lo <= e.key /\ e.key <= hi)
<1>1. Low(f) \in Entries /\ High(f) \in Entries
  BY FormedIs
<1>2. \A e \in f.entries : e \in Entries /\ ~Less(e, Low(f)) /\ ~Less(High(f), e)
  BY DEF WellFormed
<1>3. Low(f).key \in Int /\ High(f).key \in Int /\ \A e \in f.entries : e.key \in Int
  BY <1>1, <1>2, EntryIs
<1>4. \A e \in f.entries : Low(f).key <= e.key /\ e.key <= High(f).key
  BY <1>2, <1>3 DEF Less
<1> QED
  BY <1>3, <1>4 DEF Overlaps

\* The inputs from the next level are all it has of the range of the others.
LEMMA SetupIs ==
  ASSUME NEW level, NEW picked
  PROVE  LET c == SetupOtherInputs(level, picked)
         IN  c.level = level /\ c.in1 = NextInputs(level, c.in0)
<1>1. \A first, second : /\ Chosen(level, first, second).level = level
                         /\ Chosen(level, first, second).in0 = first
                         /\ Chosen(level, first, second).in1 = second
  BY DEF Chosen
<1>2. \E first : SetupOtherInputs(level, picked) = Chosen(level, first, NextInputs(level, first))
  BY DEF SetupOtherInputs, Overlapped, Expanded
<1> QED
  BY <1>1, <1>2

\* What SetupOtherInputs leaves in the next level has no key of the inputs.
LEMMA NextHasNoKeys ==
  ASSUME SizesAssumption, Formed, NEW level \in 0..NumLevels - 2,
         NEW first, first \subseteq files[level], first # {},
         NEW g \in files[level + 1] \ NextInputs(level, first)
  PROVE  NoCommonKeys(g.entries, All(first))
<1>. DEFINE lo == RangeOf(first).lo
            hi == RangeOf(first).hi
<1>0. level \in Levels /\ level + 1 \in Levels
  BY DEF Levels, SizesAssumption
<1>1. WellFormed(g) /\ \A p \in first : WellFormed(p)
  BY <1>0 DEF Formed
<1>2. /\ lo \in Entries /\ hi \in Entries /\ lo.key \in Int /\ hi.key \in Int
      /\ \A p \in first : ~Less(Low(p), lo) /\ ~Less(hi, High(p))
  BY <1>1, RangeIs
<1>3. ~Overlaps(g, lo.key, hi.key)
  BY OverlappingIs DEF NextInputs
<1>4. ASSUME NEW p \in first, NEW b \in p.entries PROVE lo.key <= b.key /\ b.key <= hi.key
  <2>1. /\ Low(p) \in Entries /\ High(p) \in Entries /\ b \in Entries
        /\ ~Less(b, Low(p)) /\ ~Less(High(p), b)
    BY <1>1, FormedIs DEF WellFormed
  <2> QED
    BY <2>1, <1>2, EntryIs DEF Less
<1>. HIDE DEF lo, hi
<1>5. \A e \in g.entries : ~(lo.key <= e.key /\ e.key <= hi.key)
  BY <1>1, <1>2, <1>3, PassedBy
<1> QED
  BY <1>4, <1>5 DEF NoCommonKeys, All

\* Where a memtable goes nothing has a key of it, nor above.
LEMMA FlushedApart ==
  ASSUME LevelsInv, SizesAssumption, mem # {},
         NEW level \in PickLevelForMemTableOutput(Smallest(mem).key, Largest(mem).key),
         NEW l \in Levels, l <= level, level # 0, NEW g \in files[l]
  PROVE  NoCommonKeys(mem, g.entries)
<1>1. /\ Smallest(mem) \in mem /\ \A e \in mem : ~Less(e, Smallest(mem))
      /\ Largest(mem) \in mem /\ \A e \in mem : ~Less(Largest(mem), e)
      /\ mem \subseteq Entries
  BY SmallestIs DEF LevelsInv, Typed
<1>2. \A e \in mem : Smallest(mem).key <= e.key /\ e.key <= Largest(mem).key
  BY <1>1, EntryIs DEF Less
<1>3. WellFormed(g) /\ ~Overlaps(g, Smallest(mem).key, Largest(mem).key)
  BY FlushLevelIs DEF OverlapInLevel, LevelsInv, Formed
<1>4. Smallest(mem).key \in Int /\ Largest(mem).key \in Int
  BY <1>1, EntryIs
<1>5. \A e \in g.entries : ~(Smallest(mem).key <= e.key /\ e.key <= Largest(mem).key)
  BY <1>3, <1>4, PassedBy
<1> QED
  BY <1>2, <1>5 DEF NoCommonKeys

\* What writes and snapshots change.
LEMMA SameFilesRead ==
  ASSUME ReadsInv, LevelsInv', UNCHANGED <<files, compaction>>, SnapshotsTaken', NothingDeleted',
         \A c \in compaction : SeenByAll(c)'
  PROVE  ReadsInv'
<1>1. KeysApart'
  BY DEF ReadsInv, KeysApart, NoCommonKeys
<1>2. \A c \in compaction : NextApart(c)' /\ BelowKnown(c)'
  BY DEF ReadsInv, NextApart, BelowKnown, NoCommonKeys, All
<1> QED
  BY <1>1, <1>2 DEF ReadsInv

\* A write gets a number above those of all snapshots and all entries.
LEMMA WriteReadsInv ==
  ASSUME ReadsInv, LevelsInv', SizesAssumption,
         NEW k \in Keys, NEW del \in {FALSE, Deletes}, Write(k, del)
  PROVE  ReadsInv'
<1>. DEFINE w == [key |-> k, seq |-> lastSeq + 1, del |-> del]
<1>1. lastSeq \in Int /\ lastSeq' = lastSeq + 1 /\ UNCHANGED <<files, compaction, snapshots>>
      /\ \A h \in Handles : snapshots[h] \in Int
  BY DEF Write, ReadsInv, LevelsInv, Typed, NoSnapshot, SizesAssumption
<1>2. SnapshotsTaken'
  BY <1>1 DEF ReadsInv, SnapshotsTaken
<1>3. NothingDeleted'
  <2>1. Stored' = Stored \cup {w}
    BY DEF Write, Stored
  <2>2. Deletes = FALSE => w.del = FALSE
    OBVIOUS
  <2>. HIDE DEF w
  <2> QED
    BY <2>1, <2>2 DEF ReadsInv, NothingDeleted
<1>4. ASSUME NEW c \in compaction PROVE SeenByAll(c)'
  <2>1. SeenByAll(c)
    BY DEF ReadsInv
  <2>2. c.snapshot \in 0..lastSeq'
    BY <2>1, <1>1 DEF SeenByAll
  <2> QED
    BY <2>1, <2>2, <1>1 DEF SeenByAll
<1> QED
  BY <1>1, <1>2, <1>3, <1>4, SameFilesRead

\* A snapshot is taken at the last write, which no running compaction is ahead of.
LEMMA SnapshotsReadsInv ==
  ASSUME ReadsInv, LevelsInv', SizesAssumption, NEW h \in Handles,
         GetSnapshot(h) \/ ReleaseSnapshot(h)
  PROVE  ReadsInv'
<1>1. /\ lastSeq \in Nat /\ UNCHANGED <<mem, files, lastSeq, compaction>>
      /\ snapshots \in [Handles -> {NoSnapshot} \cup 0..MaxSeq]
      /\ \/ snapshots' = [snapshots EXCEPT ![h] = lastSeq]
         \/ snapshots' = [snapshots EXCEPT ![h] = NoSnapshot]
  BY DEF GetSnapshot, ReleaseSnapshot, ReadsInv, LevelsInv, Typed, SizesAssumption
<1>2. SnapshotsTaken'
  BY <1>1 DEF ReadsInv, SnapshotsTaken, NoSnapshot
<1>3. NothingDeleted'
  <2>1. Stored' = Stored
    BY <1>1 DEF Stored
  <2> QED
    BY <2>1 DEF ReadsInv, NothingDeleted
<1>4. \A c \in compaction : SeenByAll(c)'
  BY <1>1 DEF ReadsInv, SeenByAll
<1> QED
  BY <1>1, <1>2, <1>3, <1>4, SameFilesRead

\* A flush: the table's place was chosen so that reads still find the newest first.
LEMMA FlushReadsInv ==
  ASSUME ReadsInv, LevelsInv', SizesAssumption, CompactMemTable
  PROVE  ReadsInv' /\ Stored' = Stored
<1>1. PICK level \in PickLevelForMemTableOutput(Smallest(mem).key, Largest(mem).key) : FlushTo(level)
  BY DEF CompactMemTable
<1>. DEFINE t == Table(IF level = 0 THEN lastSeq ELSE 0, mem)
<1>2. /\ mem # {} /\ mem' = {} /\ UNCHANGED <<lastSeq, snapshots, compaction>>
      /\ LevelsInv /\ files \in [Levels -> SUBSET Tables] /\ level \in Levels
      /\ \A l \in Levels : l \in Int
      /\ level # 0 => \A l \in Levels : l <= level => \A g \in files[l] : NoCommonKeys(mem, g.entries)
  BY FlushLevelIs, FlushedApart DEF CompactMemTable, ReadsInv, LevelsInv, Typed, Levels
<1>3. /\ t.entries = mem
      /\ files'[level] = files[level] \cup {t}
      /\ \A l \in Levels : l # level => files'[l] = files[l]
  BY <1>1, <1>2 DEF FlushTo, Table
<1>. HIDE DEF t
<1>4. Stored' = Stored
  <2>1. /\ All(files'[level]) = All(files[level]) \cup mem
        /\ \A l \in Levels : l # level => All(files'[l]) = All(files[l])
    BY <1>3 DEF All
  <2> QED
    BY <2>1, <1>2, StoredIs DEF Stored, All
<1>5. NothingDeleted' /\ SnapshotsTaken'
  BY <1>2, <1>4 DEF ReadsInv, NothingDeleted, SnapshotsTaken
<1>6. KeysApart'
  <2>1. SUFFICES ASSUME Handles = {}, NEW l \in Levels \ {0}, NEW f \in files'[l], NEW g \in files'[l], f # g
                 PROVE  NoCommonKeys(f.entries, g.entries)
    BY DEF KeysApart
  <2>2. CASE f \in files[l] /\ g \in files[l]
    BY <2>1, <2>2 DEF ReadsInv, KeysApart
  <2>3. CASE l = level /\ f = t /\ g \in files[l]
    BY <2>3, <1>2, <1>3
  <2>4. CASE l = level /\ g = t /\ f \in files[l]
    BY <2>4, <1>2, <1>3 DEF NoCommonKeys
  <2> QED
    BY <2>1, <2>2, <2>3, <2>4, <1>3
<1>7. ASSUME NEW c \in compaction PROVE Running(c)'
  <2>1. /\ Running(c) /\ GoodInputs(c)
        /\ c.level \in Int /\ 0 <= c.level /\ c.level \in Levels /\ c.level + 1 \in Levels
    <3>1. Running(c) /\ GoodInputs(c)
      BY DEF ReadsInv, Running, LevelsInv, Compacting
    <3> QED
      BY <3>1 DEF GoodInputs, Levels, SizesAssumption
  <2>2. NextApart(c)'
    <3>1. ASSUME NEW g \in files'[c.level + 1] \ c.in1 PROVE NoCommonKeys(g.entries, All(c.in0))
      <4>1. CASE g \in files[c.level + 1]
        BY <2>1, <3>1, <4>1 DEF Running, NextApart
      <4>2. CASE g = t /\ level = c.level + 1
        <5>1. \A p \in c.in0 : NoCommonKeys(mem, p.entries)
          BY <4>2, <2>1, <1>2 DEF GoodInputs
        <5> QED
          BY <5>1, <4>2, <1>3 DEF NoCommonKeys, All
      <4> QED
        BY <4>1, <4>2, <2>1, <3>1, <1>3
    <3> QED
      BY <3>1 DEF NextApart
  <2>3. BelowKnown(c)'
    <3>1. ASSUME NEW l \in c.level + 2..NumLevels - 1, NEW g \in files'[l] \ c.below
          PROVE  NoCommonKeys(g.entries, All(c.in0 \cup c.in1))
      <4>0. l \in Levels
        BY <2>1 DEF Levels, SizesAssumption
      <4>1. CASE g \in files[l]
        BY <2>1, <3>1, <4>1 DEF Running, BelowKnown
      <4>2. CASE g = t /\ level = l
        <5>1. \A p \in c.in0 \cup c.in1 : NoCommonKeys(mem, p.entries)
          <6>1. c.level <= level /\ c.level + 1 <= level /\ level # 0
            BY <4>2, <2>1
          <6> QED
            BY <6>1, <2>1, <1>2 DEF GoodInputs
        <5> QED
          BY <5>1, <4>2, <1>3 DEF NoCommonKeys, All
      <4> QED
        BY <4>0, <4>1, <4>2, <3>1, <1>3
    <3> QED
      BY <3>1 DEF BelowKnown
  <2>4. SeenByAll(c)'
    BY <2>1, <1>2 DEF Running, SeenByAll
  <2> QED
    BY <2>2, <2>3, <2>4 DEF Running
<1> QED
  BY <1>2, <1>4, <1>5, <1>6, <1>7 DEF ReadsInv, Running

\* The smallest snapshot is no greater than any that is held, nor than the last sequence.
LEMMA SmallestSnapshotIs ==
  ASSUME LevelsInv, SnapshotsTaken, SizesAssumption
  PROVE  /\ SmallestSnapshot \in 0..lastSeq
         /\ \A h \in Handles : snapshots[h] = NoSnapshot \/ SmallestSnapshot <= snapshots[h]
         /\ Handles = {} => SmallestSnapshot = lastSeq
<1>1. /\ lastSeq \in Nat /\ \A h \in Handles : snapshots[h] = NoSnapshot \/ snapshots[h] \in Nat
      /\ Held \subseteq 0..lastSeq
  <2>1. lastSeq \in Nat /\ \A h \in Handles : snapshots[h] = NoSnapshot \/ snapshots[h] \in Nat
    BY DEF LevelsInv, Typed, SizesAssumption
  <2> QED
    BY <2>1 DEF Held, SnapshotsTaken
<1>2. CASE Held = {}
  BY <1>1, <1>2 DEF SmallestSnapshot, Held
<1>3. CASE Held # {}
  <2>1. \E s \in Held : \A r \in Held : s <= r
    <3>1. Held \subseteq Nat
      BY <1>1
    <3> QED
      BY <3>1, <1>3, LeastNumber
  <2>2. SmallestSnapshot \in Held /\ \A r \in Held : SmallestSnapshot <= r
    BY <2>1, <1>3 DEF SmallestSnapshot
  <2> QED
    BY <2>2, <1>1, <1>3 DEF Held
<1> QED
  BY <1>2, <1>3

\* A compaction begins, or a table moves a level down.
LEMMA BeginReadsInv ==
  ASSUME ReadsInv, LevelsInv', SizesAssumption, NEW level \in 0..NumLevels - 2,
         NEW picked, GoodPick(level, picked), BeginCompaction(level, picked, FALSE)
  PROVE  ReadsInv' /\ Stored' = Stored
<1>. DEFINE c == SetupOtherInputs(level, picked)
<1>0. LevelsInv /\ Formed /\ LevelsDisjoint /\ Shape /\ Typed
  BY DEF ReadsInv, LevelsInv, Shape
<1>1. GoodInputs(c) /\ c.level = level /\ c.in1 = NextInputs(level, c.in0)
  BY <1>0, SetupIsGood, SetupIs
<1>2. Starts(c, FALSE)
  BY DEF BeginCompaction
<1>. HIDE DEF c
<1>3. UNCHANGED <<mem, lastSeq, snapshots>>
  BY <1>2 DEF Starts
<1>4. level \in Levels /\ level + 1 \in Levels /\ level # level + 1
      /\ c.in0 \subseteq files[level] /\ c.in1 \subseteq files[level + 1] /\ c.in0 # {}
  BY <1>1 DEF GoodInputs, Levels, SizesAssumption
<1>5. \A g \in files[level + 1] \ c.in1 : NoCommonKeys(g.entries, All(c.in0))
  BY <1>0, <1>1, <1>4, NextHasNoKeys
<1>6. SnapshotsTaken'
  BY <1>3 DEF ReadsInv, SnapshotsTaken
<1>7. CASE IsTrivialMove(c)
  <2>1. PICK f : c.in0 = {f} /\ c.in1 = {}
    BY <1>7 DEF IsTrivialMove
  <2>. DEFINE t == Table(0, f.entries)
  <2>2. files' = Installed(c, {t}) /\ compaction' = {}
    BY <1>2, <1>7, <2>1 DEF Starts
  <2>3. /\ t.entries = f.entries
        /\ files'[level] = files[level] \ {f}
        /\ files'[level + 1] = files[level + 1] \cup {t}
        /\ \A l \in Levels : l # level /\ l # level + 1 => files'[l] = files[l]
    BY <2>1, <2>2, <1>0, <1>1, <1>4 DEF Installed, Typed, Table
  <2>. HIDE DEF t
  <2>4. Stored' = Stored
    <3>1. f \in files[level]
      BY <2>1, <1>4
    <3>2. \A e : (\E l \in Levels : e \in All(files'[l])) <=> (\E l \in Levels : e \in All(files[l]))
      <4>1. ASSUME NEW e, NEW l \in Levels, e \in All(files[l])
            PROVE  \E m \in Levels : e \in All(files'[m])
        <5>1. PICK g \in files[l] : e \in g.entries
          BY <4>1 DEF All
        <5>2. CASE g = f
          BY <5>1, <5>2, <2>3, <1>4 DEF All
        <5>3. CASE g # f
          BY <5>1, <5>3, <2>3 DEF All
        <5> QED
          BY <5>2, <5>3
      <4>2. ASSUME NEW e, NEW l \in Levels, e \in All(files'[l])
            PROVE  \E m \in Levels : e \in All(files[m])
        <5>1. PICK g \in files'[l] : e \in g.entries
          BY <4>2 DEF All
        <5>2. CASE g = t
          BY <5>1, <5>2, <2>3, <3>1, <1>4 DEF All
        <5>3. CASE g # t
          BY <5>1, <5>3, <2>3 DEF All
        <5> QED
          BY <5>2, <5>3
      <4> QED
        BY <4>1, <4>2
    <3> QED
      BY <3>2, <1>3 DEF Stored, All
  <2>5. NothingDeleted'
    BY <2>4 DEF ReadsInv, NothingDeleted
  <2>6. KeysApart'
    <3>1. SUFFICES ASSUME Handles = {}, NEW l \in Levels \ {0},
                          NEW a \in files'[l], NEW b \in files'[l], a # b
                   PROVE  NoCommonKeys(a.entries, b.entries)
      BY DEF KeysApart
    <3>2. CASE a \in files[l] /\ b \in files[l]
      BY <3>1, <3>2 DEF ReadsInv, KeysApart
    <3>3. \A g \in files[level + 1] : NoCommonKeys(g.entries, f.entries)
      BY <2>1, <1>5 DEF NoCommonKeys, All
    <3>4. CASE l = level + 1 /\ a = t /\ b \in files[l]
      BY <3>3, <3>4, <2>3 DEF NoCommonKeys
    <3>5. CASE l = level + 1 /\ b = t /\ a \in files[l]
      BY <3>3, <3>5, <2>3
    <3> QED
      BY <3>1, <3>2, <3>4, <3>5, <2>3
  <2> QED
    BY <2>2, <2>4, <2>5, <2>6, <1>6 DEF ReadsInv
<1>8. CASE ~IsTrivialMove(c)
  <2>1. /\ files' = files
        /\ \E d : /\ compaction' = {d} /\ d.level = level /\ d.in0 = c.in0 /\ d.in1 = c.in1
                  /\ d.below = TablesBelow(level) /\ d.snapshot = SmallestSnapshot
    <3>. DEFINE new == [level |-> c.level, in0 |-> c.in0, in1 |-> c.in1,
                        grandparents |-> c.grandparents, manual |-> FALSE,
                        below |-> TablesBelow(c.level), snapshot |-> SmallestSnapshot]
    <3>1. files' = files /\ compaction' = {new}
      BY <1>2, <1>8 DEF Starts
    <3>2. /\ new.level = level /\ new.in0 = c.in0 /\ new.in1 = c.in1
          /\ new.below = TablesBelow(level) /\ new.snapshot = SmallestSnapshot
      BY <1>1
    <3>. HIDE DEF new
    <3> QED
      BY <3>1, <3>2
  <2>2. PICK d : /\ compaction' = {d} /\ d.level = level /\ d.in0 = c.in0 /\ d.in1 = c.in1
                 /\ d.below = TablesBelow(level) /\ d.snapshot = SmallestSnapshot
    BY <2>1
  <2>3. Stored' = Stored
    BY <2>1, <1>3 DEF Stored
  <2>4. NothingDeleted' /\ KeysApart'
    BY <2>1, <2>3 DEF ReadsInv, NothingDeleted, KeysApart
  <2>5. NextApart(d)' /\ BelowKnown(d)'
    <3>1. \A l \in level + 2..NumLevels - 1 : files[l] \ d.below = {}
      BY <2>2 DEF TablesBelow
    <3> QED
      BY <3>1, <2>1, <2>2, <1>5 DEF NextApart, BelowKnown
  <2>6. SeenByAll(d)'
    <3>1. \A e \in All(c.in0 \cup c.in1) : e.seq <= lastSeq
      <4>1. All(c.in0 \cup c.in1) \subseteq Stored
        BY <1>4 DEF Stored, All
      <4> QED
        BY <4>1, <1>0 DEF Shape, Numbered
    <3>2. /\ SmallestSnapshot \in 0..lastSeq
          /\ \A h \in Handles : snapshots[h] = NoSnapshot \/ SmallestSnapshot <= snapshots[h]
          /\ Handles = {} => SmallestSnapshot = lastSeq
      BY <1>0, SmallestSnapshotIs DEF ReadsInv
    <3> QED
      BY <3>1, <3>2, <2>2, <1>3 DEF SeenByAll
  <2> QED
    BY <2>2, <2>3, <2>4, <2>5, <2>6, <1>6 DEF ReadsInv
<1> QED
  BY <1>7, <1>8

\* Without snapshots a compaction leaves one entry for a key.
LEMMA KeptOnce ==
  ASSUME NEW c, NEW S, S = All(c.in0 \cup c.in1), Distinct(S), \A e \in S : e.seq \in Int,
         \A e \in S : e.seq <= c.snapshot
  PROVE  \A a, b \in Kept(c) : a.key = b.key => a = b
<1>1. SUFFICES ASSUME NEW a \in Kept(c), NEW b \in Kept(c), a.key = b.key PROVE a = b
  OBVIOUS
<1>2. a \in S /\ b \in S /\ a.seq \in Int /\ b.seq \in Int
  BY DEF Kept
<1>3. ~(a.seq > b.seq) /\ ~(b.seq > a.seq)
  BY <1>1, <1>2 DEF Kept
<1>4. a.seq = b.seq
  BY <1>2, <1>3
<1> QED
  BY <1>2, <1>4 DEF Distinct

\* The end of a compaction.
LEMMA DoCompactionWorkReadsInv ==
  ASSUME ReadsInv, LevelsInv', SizesAssumption, NEW c \in compaction,
         files' = Installed(c, Outputs(c)), compaction' = {}, UNCHANGED <<mem, lastSeq, snapshots>>
  PROVE  ReadsInv'
<1>. DEFINE input == All(c.in0 \cup c.in1)
            lv == c.level
<1>1. GoodInputs(c) /\ lv + 1 \in Levels /\ LevelsInv
  BY InstalledEntries DEF ReadsInv
<1>2. /\ lv \in Levels /\ lv # lv + 1 /\ Typed /\ Shape
      /\ c.in0 \subseteq files[lv] /\ c.in1 \subseteq files[lv + 1]
  BY <1>1 DEF GoodInputs, Levels, SizesAssumption, LevelsInv, Shape
<1>3. input \subseteq Stored /\ input \subseteq Entries /\ Distinct(input)
      /\ \A e \in input : e.seq \in Int
  <2>1. input \subseteq Stored
    BY <1>1, <1>2 DEF Stored, All
  <2> QED
    BY <2>1, <1>2, StoredAreEntries, EntryIs DEF Distinct
<1>4. /\ \A f, g \in Outputs(c) : f # g => AllLess(f.entries, g.entries) \/ AllLess(g.entries, f.entries)
      /\ All(Outputs(c)) = Kept(c)
  BY <1>3, OutputsAre
<1>5. /\ files'[lv + 1] = (files[lv + 1] \ c.in1) \cup Outputs(c)
      /\ \A l \in Levels : files'[l] \subseteq files[l] \/ l = lv + 1
  BY <1>1, <1>2 DEF Installed, Typed
<1>6. Kept(c) \subseteq input
  BY DEF Kept
<1>7. Stored' \subseteq Stored
  BY <1>1, <1>3, <1>6, InstalledEntries DEF Stored, All
<1>8. SnapshotsTaken' /\ NothingDeleted'
  BY <1>7 DEF ReadsInv, SnapshotsTaken, NothingDeleted
<1>9. KeysApart'
  <2>1. SUFFICES ASSUME Handles = {}, NEW l \in Levels \ {0},
                        NEW f \in files'[l], NEW g \in files'[l], f # g
                 PROVE  NoCommonKeys(f.entries, g.entries)
    BY DEF KeysApart
  <2>2. CASE f \in files[l] /\ g \in files[l]
    BY <2>1, <2>2 DEF ReadsInv, KeysApart
  <2>3. ASSUME NEW p \in Outputs(c), NEW q \in files[lv + 1] \ c.in1, l = lv + 1
        PROVE  NoCommonKeys(p.entries, q.entries)
    <3>1. SUFFICES ASSUME NEW a \in p.entries, NEW b \in q.entries, a.key = b.key PROVE FALSE
      BY DEF NoCommonKeys
    <3>2. a \in input
      BY <1>4, <1>6 DEF All
    <3>3. NextApart(c) /\ KeysApart
      BY DEF ReadsInv
    <3>4. CASE a \in All(c.in0)
      BY <3>1, <3>3, <3>4 DEF NextApart, NoCommonKeys
    <3>5. CASE a \in All(c.in1)
      <4>1. PICK r \in c.in1 : a \in r.entries
        BY <3>5 DEF All
      <4> QED
        BY <4>1, <3>1, <3>3, <2>1, <2>3, <1>2 DEF KeysApart, NoCommonKeys
    <3> QED
      BY <3>2, <3>4, <3>5 DEF All
  <2>4. CASE f \in Outputs(c) /\ g \in Outputs(c)
    <3>1. SUFFICES ASSUME NEW a \in f.entries, NEW b \in g.entries, a.key = b.key PROVE FALSE
      BY DEF NoCommonKeys
    <3>2. a \in Kept(c) /\ b \in Kept(c)
      BY <2>4, <1>4 DEF All
    <3>3. \A e \in input : e.seq <= c.snapshot
      BY <2>1 DEF ReadsInv, SeenByAll
    <3>4. a = b
      BY <3>1, <3>2, <3>3, <1>3, KeptOnce
    <3>5. Less(a, a)
      BY <3>4, <2>1, <2>4, <1>4 DEF AllLess
    <3> QED
      BY <3>2, <3>5, <1>3, <1>6, LessIs
  <2>5. CASE f \in Outputs(c) /\ g \in files[lv + 1] \ c.in1 /\ l = lv + 1
    BY <2>3, <2>5
  <2>6. CASE g \in Outputs(c) /\ f \in files[lv + 1] \ c.in1 /\ l = lv + 1
    BY <2>3, <2>6 DEF NoCommonKeys
  <2> QED
    BY <2>1, <2>2, <2>4, <2>5, <2>6, <1>5
<1> QED
  BY <1>8, <1>9 DEF ReadsInv

\* The end of a compaction changes no answer.
LEMMA DoCompactionWorkReads ==
  ASSUME ReadsInv, ReadsAnswer, ReadsAnswer', SizesAssumption, NoResurfacing, NEW c \in compaction,
         files' = Installed(c, Outputs(c)), UNCHANGED <<mem, lastSeq, snapshots>>
  PROVE  UNCHANGED Promised!vars
<1>1. /\ lastSeq \in Int /\ c.snapshot <= lastSeq
      /\ \A h \in Handles : /\ snapshots[h] \in Int
                            /\ snapshots[h] = NoSnapshot \/ c.snapshot <= snapshots[h]
  <2>1. lastSeq \in Nat /\ \A h \in Handles : snapshots[h] \in Int
    BY DEF ReadsInv, LevelsInv, Typed, NoSnapshot, SizesAssumption
  <2>2. SeenByAll(c)
    BY DEF ReadsInv
  <2> QED
    BY <2>1, <2>2 DEF SeenByAll
<1>2. \A k \in Keys, seq \in Int :
        c.snapshot <= seq => Answer(Stored', k, seq) = Answer(Stored, k, seq)
  BY CompactionAnswers
<1>3. NowRead' = NowRead
  BY <1>1, <1>2 DEF ReadsAnswer
<1>4. ViewsRead' = ViewsRead
  BY <1>1, <1>2 DEF ReadsAnswer
<1> QED
  BY <1>3, <1>4 DEF Promised!vars

\* In the beginning nothing is stored.
LEMMA ReadsInit == SizesAssumption /\ Init => ReadsInv
<1>. SUFFICES ASSUME SizesAssumption, Init PROVE ReadsInv
  OBVIOUS
<1>1. LevelsInv
  BY LevelsInit
<1>2. SnapshotsTaken
  BY DEF Init, SnapshotsTaken, NoSnapshot
<1>3. NothingDeleted /\ KeysApart
  BY DEF Init, NothingDeleted, KeysApart, Stored, All, Levels
<1> QED
  BY <1>1, <1>2, <1>3 DEF Init, ReadsInv

\* Each step keeps the invariant and is a step of what leveldb promises, or none.
LEMMA ReadsStep ==
  ASSUME SizesAssumption, NoManual, NoResurfacing, ReadsInv, LevelsInv', ReadsAnswer, ReadsAnswer',
         [Next]_vars
  PROVE  ReadsInv' /\ [Promised!Next]_Promised!vars
<1>0. LevelsInv /\ Typed /\ Formed /\ LevelsDisjoint
  BY DEF ReadsInv, LevelsInv
<1>1. ASSUME NEW k \in Keys, NEW del \in {FALSE, Deletes}, Write(k, del)
      PROVE  ReadsInv' /\ Promised!Next
  BY <1>0, <1>1, WriteReadsInv, WriteReads DEF ReadsInv
<1>2. ASSUME NEW h \in Handles, GetSnapshot(h) \/ ReleaseSnapshot(h)
      PROVE  ReadsInv' /\ Promised!Next
  BY <1>0, <1>2, SnapshotsReadsInv, GetSnapshotReads, ReleaseSnapshotReads
<1>3. CASE CompactMemTable
  <2>1. ReadsInv' /\ Stored' = Stored
    BY <1>3, FlushReadsInv
  <2>2. UNCHANGED <<lastSeq, snapshots>>
    BY <1>3 DEF CompactMemTable
  <2> QED
    BY <2>1, <2>2, SameReads
<1>4. ASSUME NEW level \in 0..NumLevels - 2, NEW f \in files[level],
             BeginCompaction(level, Picked(level, f), FALSE)
      PROVE  ReadsInv' /\ UNCHANGED Promised!vars
  <2>1. level \in Levels
    BY DEF Levels, SizesAssumption
  <2>2. ReadsInv' /\ Stored' = Stored
    BY <2>1, <1>0, <1>4, PickedIsGood, BeginReadsInv
  <2>3. UNCHANGED <<lastSeq, snapshots>>
    BY <1>4 DEF BeginCompaction, Starts
  <2> QED
    BY <2>2, <2>3, SameReads
<1>5. CASE PickSizeCompaction
  BY <1>4, <1>5 DEF PickSizeCompaction, FirstAfterPointer, FirstOf
<1>6. CASE PickSeekCompaction
  BY <1>4, <1>6 DEF PickSeekCompaction
<1>7. ~PickManualCompaction /\ ~FinishManual /\ ~PostAgain
  BY <1>0 DEF Typed, PickManualCompaction, FinishManual, PostAgain, Posted
<1>8. CASE DoCompactionWork
  <2>1. PICK c \in compaction :
          /\ files' = Installed(c, Outputs(c)) /\ compaction' = {}
          /\ UNCHANGED <<mem, lastSeq, snapshots>>
    BY <1>8 DEF DoCompactionWork
  <2> QED
    BY <2>1, DoCompactionWorkReadsInv, DoCompactionWorkReads
<1>9. CASE UNCHANGED vars
  <2>1. UNCHANGED <<mem, files, lastSeq, snapshots, compaction>>
    BY <1>9 DEF vars
  <2>2. Stored' = Stored
    BY <2>1 DEF Stored
  <2>3. SnapshotsTaken' /\ NothingDeleted' /\ \A c \in compaction : SeenByAll(c)'
    BY <2>1, <2>2 DEF ReadsInv, SnapshotsTaken, NothingDeleted, SeenByAll
  <2>4. ReadsInv'
    BY <2>1, <2>3, SameFilesRead
  <2> QED
    BY <2>1, <2>2, <2>4, SameReads
<1> QED
  BY <1>1, <1>2, <1>3, <1>5, <1>6, <1>7, <1>8, <1>9 DEF Next, Client, Background, NoManual

\* Get finds the latest write of its key (db.h:83), and a snapshot is a "stable snapshot
\* of the current DB state" (db.h:99): the levels implement SnapshotStore, where nobody
\* deletes or nobody takes snapshots.
THEOREM ReadsStayRight ==
  ASSUME SizesAssumption, NoManual, NoResurfacing
  PROVE  Spec => ReadsAreRight
<1>1. Init => LevelsInv /\ ReadsInv
  BY LevelsInit, ReadsInit
<1>2. LevelsInv /\ [Next]_vars => LevelsInv'
  BY LevelsStep
<1>3. LevelsInv => ReadsAnswer
  BY ReadsAre
<1>4. ReadsAnswer /\ Init => Promised!Init
  BY InitReads
<1>5. /\ LevelsInv' /\ ReadsAnswer /\ ReadsAnswer' /\ ReadsInv /\ [Next]_vars
      => ReadsInv' /\ [Promised!Next]_Promised!vars
  BY ReadsStep
<1> QED
  BY <1>1, <1>2, <1>3, <1>4, <1>5, PTL DEF Spec, ReadsAreRight, Promised!Spec
=============================================================================
