---------------------------- MODULE SkipListProofs ----------------------------
(***************************************************************************)
(* Proofs about SkipList, for any keys and heights: a reader without a     *)
(* lock walks a list, whatever the Insert under way has stored.            *)
(*                                                                         *)
(* Every state of memory is a list on each level (IsList), later states    *)
(* have what the earlier had (MemoryGrows), and a store without a barrier  *)
(* changes no link of a linked node (StoresRelease): what a reader loads   *)
(* from a node it can reach is what the memory it then knows of says.      *)
(***************************************************************************)
EXTENDS SkipList, SequenceTheorems, TLAPS

Memories == [next: [Node -> [Level -> Node \cup {Null, Unset}]],
             height: 1..MaxHeight, release: BOOLEAN]
Searches == {"none", "seek", "prev", "last"}
Typed ==
  /\ log \in Seq(Memories)
  /\ Len(log) > 0
  /\ done \in 1..Len(log)
  /\ insert \in [step: {"none", "find", "height", "own", "link"}, key: ListKeys \cup {Null},
                 x: Node, level: Level, height: 0..MaxHeight,
                 prev: [Level -> Node \cup {Unset}]]
  /\ iter \in [node: ListKeys \cup {Null}, known: 1..Len(log), knownHeight: 1..Len(log),
               search: Searches, x: Node, level: Level, from: Node \cup {Null},
               since: 1..Len(log), did: Searches \cup {"next"}]

\* The nodes of a level.
On(mem, l) == Linked(mem, l) \cup {HeadNode}
\* Links lead upwards and pass over nothing; a node is on every level below its own.
IsList(mem) ==
  \A l \in Level :
    /\ \A n \in On(mem, l) :
         /\ mem.next[n][l] \in ListKeys \cup {Null} /\ mem.next[n][l] > n
         /\ \A k \in Linked(mem, l) : k > n => k >= mem.next[n][l]
    /\ \A m \in Level : m <= l => Linked(mem, l) \subseteq Linked(mem, m)

AreLists == \A s \in 1..Len(log) : IsList(log[s])
MemoryGrows ==
  \A s, t \in 1..Len(log) : \A l \in Level :
    s <= t => Linked(log[s], l) \subseteq Linked(log[t], l)
StoresRelease ==
  \A s \in 2..Len(log) : \A l \in Level : \A n \in On(log[s - 1], l) :
    ~log[s].release => log[s].next[n][l] = log[s - 1].next[n][l]
UpToHeight == \A l \in Level : l >= Now.height => Linked(Now, l) = {}

\* The Insert under way: where it is, and that its node is linked below only.
GoodPrev(l) ==
  LET prev == insert.prev[l]
  IN  prev \in On(Now, l) /\ prev < insert.key /\ Now.next[prev][l] > insert.key
Finding ==
  insert.step \in {"find", "height"} =>
    /\ insert.key \in ListKeys \ Present(Now)
    /\ insert.step = "find" =>
         /\ insert.level < Now.height
         /\ insert.x \in On(Now, insert.level) /\ insert.x < insert.key
    /\ \A l \in Level :
         l < Now.height /\ (insert.step = "find" => l > insert.level) => GoodPrev(l)
Linking ==
  insert.step \in {"own", "link"} =>
    /\ insert.key \in ListKeys
    /\ insert.level < insert.height /\ insert.height <= Now.height
    /\ \A l \in Level :
         IF l < insert.level THEN insert.key \in Linked(Now, l)
         ELSE insert.key \notin Linked(Now, l) /\ (l < insert.height => GoodPrev(l))
    /\ insert.step = "link" =>
         Now.next[insert.key][insert.level] = Now.next[insert.prev[insert.level]][insert.level]
\* Links of nodes that are not linked were not written, but for that one.
Unwritten ==
  \A k \in ListKeys, l \in Level :
    k \notin Linked(Now, l) /\ Now.next[k][l] # Unset =>
      insert.step = "link" /\ k = insert.key /\ l = insert.level

\* The reader stands on a node of the memory it knows of.
Reading ==
  /\ iter.since <= iter.known
  /\ iter.node # Null => iter.node \in Present(log[iter.known])
  /\ iter.search # "none" =>
       /\ iter.x \in On(log[iter.known], iter.level) /\ iter.x < iter.from
       /\ iter.did = iter.search

SkipInv ==
  /\ Typed /\ AreLists /\ MemoryGrows /\ StoresRelease /\ UpToHeight
  /\ Finding /\ Linking /\ Unwritten /\ Reading /\ SearchIsExact
-----------------------------------------------------------------------------
LEMMA Numbers ==
  /\ HeadNode = 0 /\ Unset = -1 /\ Null \in Nat /\ Null > 0
  /\ \A k \in ListKeys : k \in Nat /\ k > 0 /\ k < Null
  /\ \A n \in Node : n \in Nat /\ n < Null
  /\ ListKeys \subseteq Node /\ HeadNode \in Node
  /\ MaxHeight \in Nat /\ MaxHeight > 0
  /\ 0 \in Level /\ \A l \in Level : l \in Nat /\ l < MaxHeight
BY ListAssumption DEF SkipAssumption, HeadNode, Unset, Node, Level

\* What a store makes of the log.
LEMMA Stored ==
  ASSUME log \in Seq(Memories), Len(log) > 0, NEW mem \in Memories,
         log' = Append(log, mem)
  PROVE  /\ log' \in Seq(Memories) /\ Len(log') = Len(log) + 1
         /\ Len(log) \in Nat
         /\ Now' = mem /\ log'[Len(log) + 1] = mem
         /\ \A s \in 1..Len(log) : log'[s] = log[s] /\ log[s] \in Memories
         /\ Now \in Memories /\ Len(log) \in 1..Len(log)
BY DEF Now

LEMMA NowTyped ==
  ASSUME Typed
  PROVE  /\ Now \in Memories /\ Len(log) \in 1..Len(log) /\ Len(log) \in Nat
         /\ \A s \in 1..Len(log) : log[s] \in Memories
BY DEF Typed, Now

LEMMA LinkedIsKey ==
  ASSUME NEW mem, NEW l, NEW n \in On(mem, l)
  PROVE  n \in Node /\ (n \in ListKeys \/ n = HeadNode)
BY DEF On, Linked, Node

\* A load from a node the reader can reach gives what the memory it then knows of says.
LEMMA LoadIsCurrent ==
  ASSUME Typed, AreLists, MemoryGrows, StoresRelease,
         NEW l \in Level, NEW n \in On(log[iter.known], l), NEW s \in Stores(n, l)
  PROVE  /\ Knows(s) \in iter.known..Len(log) /\ Knows(s) \in 1..Len(log)
         /\ log[s].next[n][l] = log[Knows(s)].next[n][l]
         /\ n \in On(log[Knows(s)], l)
<1>1. iter.known \in 1..Len(log) /\ Len(log) \in Nat
  BY DEF Typed
<1>2. /\ s \in 1..Len(log)
      /\ s = 1 \/ log[s].next[n][l] # log[s - 1].next[n][l]
      /\ \A r \in s..iter.known : log[r].next[n][l] = log[s].next[n][l]
  BY DEF Stores
<1>3. \A t \in 1..Len(log) : iter.known <= t => n \in On(log[t], l)
  BY <1>1 DEF MemoryGrows, On
<1>4. CASE s <= iter.known
  <2>1. Knows(s) = iter.known
    BY <1>1, <1>2, <1>4 DEF Knows
  <2>2. iter.known \in s..iter.known
    BY <1>1, <1>2, <1>4
  <2> QED
    BY <2>1, <2>2, <1>1, <1>2
<1>5. CASE s > iter.known
  <2>1. s \in 2..Len(log) /\ s - 1 \in 1..Len(log) /\ iter.known <= s - 1
    BY <1>1, <1>2, <1>5
  <2>2. n \in On(log[s - 1], l)
    BY <2>1, <1>3
  <2>3. log[s].next[n][l] # log[s - 1].next[n][l]
    BY <1>1, <1>2, <1>5
  <2>4. log[s].release
    BY <2>1, <2>2, <2>3 DEF StoresRelease
  <2>5. Knows(s) = s
    BY <2>4, <1>5 DEF Knows
  <2> QED
    BY <2>5, <1>1, <1>2, <1>3, <1>5
<1> QED
  BY <1>1, <1>2, <1>4, <1>5

\* What is known of the memory a reader knows of after a load.
LEMMA KnownMemory ==
  ASSUME Typed, AreLists, MemoryGrows, Reading,
         NEW t \in 1..Len(log), iter.known <= t
  PROVE  /\ IsList(log[t])
         /\ \A l \in Level : Linked(log[iter.known], l) \subseteq Linked(log[t], l)
         /\ \A l \in Level : On(log[iter.known], l) \subseteq On(log[t], l)
         /\ Present(log[iter.since]) \subseteq Present(log[t])
         /\ Present(log[t]) \subseteq Present(Now)
<1>1. /\ iter.known \in 1..Len(log) /\ iter.since \in 1..Len(log) /\ Len(log) \in 1..Len(log)
      /\ iter.since <= t /\ t <= Len(log) /\ Len(log) \in Nat
  BY DEF Typed, Reading
<1>2. \A l \in Level : Linked(log[iter.known], l) \subseteq Linked(log[t], l)
  BY <1>1 DEF MemoryGrows
<1>3. 0 \in Level
  BY Numbers
<1>4. /\ Linked(log[iter.since], 0) \subseteq Linked(log[t], 0)
      /\ Linked(log[t], 0) \subseteq Linked(log[Len(log)], 0)
  BY <1>1, <1>3 DEF MemoryGrows
<1> QED
  BY <1>1, <1>2, <1>4 DEF AreLists, On, Present, Now
-----------------------------------------------------------------------------
\* A store into a link.
Writes(mem, new, n, l, to) ==
  /\ new \in Memories /\ new.height = mem.height
  /\ \A m \in Node, k \in Level :
       new.next[m][k] = IF m = n /\ k = l THEN to ELSE mem.next[m][k]

With(mem, n, l, to, release) == [mem EXCEPT !.next[n][l] = to, !.release = release]

LEMMA StoreLink ==
  ASSUME NEW mem \in Memories, NEW n \in Node, NEW l \in Level, NEW to \in Node \cup {Null, Unset},
         NEW release \in BOOLEAN
  PROVE  /\ Writes(mem, With(mem, n, l, to, release), n, l, to)
         /\ With(mem, n, l, to, release).release = release
<1>0. PICK new : new = With(mem, n, l, to, release)
  OBVIOUS
<1>1. /\ mem.next \in [Node -> [Level -> Node \cup {Null, Unset}]]
      /\ new = [next |-> [mem.next EXCEPT ![n][l] = to], height |-> mem.height,
                release |-> release]
  BY <1>0 DEF Memories, With
<1>2. new.next = [mem.next EXCEPT ![n] = [mem.next[n] EXCEPT ![l] = to]]
  BY <1>1
<1>3. new.next \in [Node -> [Level -> Node \cup {Null, Unset}]]
  BY <1>1, <1>2
<1>4. \A m \in Node, k \in Level :
        new.next[m][k] = IF m = n /\ k = l THEN to ELSE mem.next[m][k]
  BY <1>1, <1>2
<1> QED
  <2>1. Writes(mem, new, n, l, to) /\ new.release = release
    BY <1>1, <1>3, <1>4 DEF Memories, Writes
  <2> QED
    BY <1>0, <2>1

\* The same links make the same lists.
LEMMA SameLists ==
  ASSUME NEW mem, NEW new, IsList(mem),
         \A l \in Level : Linked(new, l) = Linked(mem, l),
         \A l \in Level : \A n \in On(mem, l) : new.next[n][l] = mem.next[n][l]
  PROVE  IsList(new)
<1>1. \A l \in Level : On(new, l) = On(mem, l)
  BY DEF On
<1> QED
  BY <1>1 DEF IsList

\* The link of a node that is not linked yet changes no list.
LEMMA OwnLinkKeepsLists ==
  ASSUME NEW mem \in Memories, IsList(mem), NEW l \in Level,
         NEW key \in ListKeys \ Linked(mem, l), NEW prev \in On(mem, l),
         mem.next[key][l] = Unset,
         NEW new, Writes(mem, new, key, l, mem.next[prev][l])
  PROVE  /\ IsList(new)
         /\ \A m \in Level : Linked(new, m) = Linked(mem, m)
         /\ \A m \in Level : \A n \in On(mem, m) : new.next[n][m] = mem.next[n][m]
         /\ new.next[key][l] = mem.next[prev][l] /\ new.next[prev][l] = mem.next[prev][l]
         /\ \A n \in Node, m \in Level : n # key \/ m # l => new.next[n][m] = mem.next[n][m]
<1>1. /\ mem.next[prev][l] \in ListKeys \cup {Null}
      /\ prev \in Node /\ key \in Node /\ prev # key
  BY LinkedIsKey, Numbers DEF IsList, On
<1>2. \A m \in Node, k \in Level :
        new.next[m][k] = IF m = key /\ k = l THEN mem.next[prev][l] ELSE mem.next[m][k]
  BY DEF Writes
<1>3. ASSUME NEW m \in Level PROVE Linked(new, m) = Linked(mem, m)
  <2>1. ASSUME NEW k \in ListKeys, NEW n \in Node, new.next[n][m] = k PROVE k \in Linked(mem, m)
    BY <1>1, <1>2, <2>1 DEF Linked
  <2>2. ASSUME NEW k \in ListKeys, NEW n \in Node, mem.next[n][m] = k PROVE k \in Linked(new, m)
    BY <1>1, <1>2, <2>2, Numbers DEF Linked
  <2> QED
    BY <2>1, <2>2 DEF Linked
<1>4. ASSUME NEW m \in Level, NEW n \in On(mem, m) PROVE new.next[n][m] = mem.next[n][m]
  <2>1. n \in Node /\ ~(n = key /\ m = l)
    BY LinkedIsKey, Numbers DEF On
  <2> QED
    BY <1>2, <2>1
<1>5. IsList(new)
  <2>1. /\ \A m \in Level : Linked(new, m) = Linked(mem, m)
        /\ \A m \in Level : \A n \in On(mem, m) : new.next[n][m] = mem.next[n][m]
    BY <1>3, <1>4
  <2> QED
    BY <2>1, SameLists
<1> QED
  BY <1>1, <1>2, <1>3, <1>4, <1>5

\* The link to the new node puts it into the list of the level, and changes no other.
LEMMA LinkMakesList ==
  ASSUME NEW mem \in Memories, IsList(mem), NEW l \in Level,
         NEW key \in ListKeys \ Linked(mem, l), NEW prev \in On(mem, l),
         prev < key, mem.next[prev][l] > key, mem.next[key][l] = mem.next[prev][l],
         \A m \in Level : m < l => key \in Linked(mem, m),
         NEW new, Writes(mem, new, prev, l, key)
  PROVE  /\ IsList(new)
         /\ Linked(new, l) = Linked(mem, l) \cup {key}
         /\ \A m \in Level : m # l => Linked(new, m) = Linked(mem, m)
         /\ \A n \in Node, m \in Level : n # prev \/ m # l => new.next[n][m] = mem.next[n][m]
<1> DEFINE after == mem.next[prev][l]
<1>1. /\ after \in ListKeys \cup {Null} /\ after \in Nat
      /\ prev \in Node /\ prev \in Nat /\ key \in Node /\ key \in Nat /\ prev # key
  <2>1. after \in ListKeys \cup {Null}
    BY DEF IsList
  <2>2. prev \in Node /\ key \in Node /\ prev \in Nat /\ key \in Nat
    BY LinkedIsKey, Numbers
  <2>3. after \in Nat
    BY <2>1, Numbers
  <2> QED
    BY <2>1, <2>2, <2>3
<1>2. \A m \in Node, k \in Level :
        new.next[m][k] = IF m = prev /\ k = l THEN key ELSE mem.next[m][k]
  BY DEF Writes
<1>3. Linked(new, l) = Linked(mem, l) \cup {key}
  <2>1. ASSUME NEW k \in ListKeys, NEW n \in Node, new.next[n][l] = k
        PROVE  k = key \/ k \in Linked(mem, l)
    BY <1>1, <1>2, <2>1 DEF Linked
  <2>2. ASSUME NEW k \in ListKeys, NEW n \in Node, mem.next[n][l] = k PROVE k \in Linked(new, l)
    <3>1. CASE n = prev
      BY <3>1, <1>1, <1>2, <2>2 DEF Linked
    <3>2. CASE n # prev
      BY <3>2, <1>2, <2>2 DEF Linked
    <3> QED
      BY <3>1, <3>2
  <2>3. key \in Linked(new, l)
    BY <1>1, <1>2 DEF Linked
  <2> QED
    BY <2>1, <2>2, <2>3 DEF Linked
<1>4. ASSUME NEW m \in Level, m # l PROVE Linked(new, m) = Linked(mem, m)
  BY <1>2, <1>4 DEF Linked
<1>5. ASSUME NEW n \in On(new, l)
      PROVE  /\ new.next[n][l] \in ListKeys \cup {Null} /\ new.next[n][l] > n
             /\ \A k \in Linked(new, l) : k > n => k >= new.next[n][l]
  <2>1. /\ n \in Node /\ n \in Nat
        /\ \A k \in Linked(new, l) : k \in Nat /\ (k = key \/ k \in Linked(mem, l))
        /\ n \in On(mem, l) \/ n = key
    BY <1>3, LinkedIsKey, Numbers DEF On, Linked
  <2>2. \A k \in Linked(mem, l) : k > prev => k >= after
    BY DEF IsList
  <2>3. CASE n = prev
    <3>1. new.next[n][l] = key
      BY <2>3, <1>1, <1>2
    <3> QED
      BY <3>1, <2>1, <2>2, <2>3, <1>1
  <2>4. CASE n = key
    <3>1. new.next[n][l] = after
      BY <2>4, <1>1, <1>2
    <3> QED
      BY <3>1, <2>1, <2>2, <2>4, <1>1
  <2>5. CASE n # key /\ n # prev
    <3>1. n \in On(mem, l) /\ new.next[n][l] = mem.next[n][l]
      BY <2>5, <2>1, <1>2
    <3>2. /\ mem.next[n][l] \in ListKeys \cup {Null} /\ mem.next[n][l] > n
          /\ mem.next[n][l] \in Nat
          /\ \A k \in Linked(mem, l) : k > n => k >= mem.next[n][l]
      BY <3>1, Numbers DEF IsList
    <3>3. key > n => key >= mem.next[n][l]
      <4>1. CASE n < prev
        <5>1. prev \in Linked(mem, l)
          BY <4>1, <2>1, <1>1, Numbers DEF On
        <5> QED
          BY <5>1, <4>1, <3>2, <2>1, <1>1
      <4>2. CASE n > prev
        <5>1. n \in Linked(mem, l)
          BY <4>2, <3>1, <2>1, <1>1, Numbers DEF On
        <5>2. n >= after
          BY <5>1, <4>2, <2>2
        <5> QED
          BY <5>2, <2>1, <1>1
      <4> QED
        BY <4>1, <4>2, <2>5, <2>1, <1>1
    <3> QED
      BY <3>1, <3>2, <3>3, <2>1
  <2> QED
    BY <2>3, <2>4, <2>5
<1>6. ASSUME NEW m \in Level, m # l, NEW n \in On(new, m)
      PROVE  /\ new.next[n][m] \in ListKeys \cup {Null} /\ new.next[n][m] > n
             /\ \A k \in Linked(new, m) : k > n => k >= new.next[n][m]
  <2>1. n \in On(mem, m) /\ Linked(new, m) = Linked(mem, m)
    BY <1>4, <1>6 DEF On
  <2>2. new.next[n][m] = mem.next[n][m]
    BY <2>1, <1>2, <1>6, LinkedIsKey
  <2> QED
    BY <2>1, <2>2 DEF IsList
<1>7. ASSUME NEW k \in Level, NEW m \in Level, m <= k
      PROVE  Linked(new, k) \subseteq Linked(new, m)
  <2>1. Linked(mem, k) \subseteq Linked(mem, m) /\ Linked(mem, m) \subseteq Linked(new, m)
    BY <1>3, <1>4, <1>7 DEF IsList
  <2>2. k = l => key \in Linked(new, m)
    <3>1. CASE m = l
      BY <3>1, <1>3
    <3>2. CASE m # l /\ k = l
      BY <3>2, <1>4, <1>7, Numbers
    <3> QED
      BY <3>1, <3>2
  <2> QED
    BY <2>1, <2>2, <1>3, <1>4
<1>8. IsList(new)
  <2>1. \A m \in Level : \A n \in On(new, m) :
          /\ new.next[n][m] \in ListKeys \cup {Null} /\ new.next[n][m] > n
          /\ \A k \in Linked(new, m) : k > n => k >= new.next[n][m]
    BY <1>5, <1>6
  <2> QED
    BY <2>1, <1>7 DEF IsList
<1> QED
  BY <1>1, <1>2, <1>3, <1>4, <1>8
-----------------------------------------------------------------------------
\* A store that keeps what is linked, and if it is no release the links of what is.
LEMMA StoreKeepsMemory ==
  ASSUME Typed, AreLists, MemoryGrows, StoresRelease,
         NEW mem \in Memories, log' = Append(log, mem), IsList(mem),
         \A l \in Level : Linked(Now, l) \subseteq Linked(mem, l),
         ~mem.release => \A l \in Level : \A n \in On(Now, l) : mem.next[n][l] = Now.next[n][l]
  PROVE  AreLists' /\ MemoryGrows' /\ StoresRelease'
<1> DEFINE L == Len(log)
<1>1. /\ L \in Nat /\ L > 0 /\ Len(log') = L + 1 /\ log'[L + 1] = mem
      /\ \A s \in 1..L : log'[s] = log[s]
      /\ Now = log[L] /\ L \in 1..L
  BY Stored DEF Typed, Now
<1>2. AreLists'
  BY <1>1 DEF AreLists
<1>3. MemoryGrows'
  <2>1. ASSUME NEW s \in 1..L + 1, NEW t \in 1..L + 1, s <= t, NEW l \in Level
        PROVE  Linked(log'[s], l) \subseteq Linked(log'[t], l)
    <3> HIDE DEF L
    <3>0. \/ s \in 1..L /\ t \in 1..L
          \/ t = L + 1 /\ s \in 1..L
          \/ t = L + 1 /\ s = L + 1
      BY <1>1, <2>1
    <3>1. CASE s \in 1..L /\ t \in 1..L
      <4>1. Linked(log[s], l) \subseteq Linked(log[t], l)
        BY <2>1, <3>1 DEF MemoryGrows, L
      <4>2. log'[s] = log[s] /\ log'[t] = log[t]
        BY <1>1, <3>1
      <4> QED
        BY <4>1, <4>2
    <3>2. CASE t = L + 1 /\ s \in 1..L
      <4>1. s <= L
        BY <1>1, <3>2
      <4>2. Linked(log[s], l) \subseteq Linked(log[L], l)
        BY <1>1, <3>2, <4>1 DEF MemoryGrows, L
      <4> QED
        BY <1>1, <3>2, <4>2
    <3>3. CASE t = L + 1 /\ s = L + 1
      BY <3>3
    <3> QED
      BY <3>0, <3>1, <3>2, <3>3
  <2> QED
    BY <1>1, <2>1 DEF MemoryGrows
<1>4. StoresRelease'
  <2>1. ASSUME NEW s \in 2..L + 1, NEW l \in Level, NEW n \in On(log'[s - 1], l),
               ~log'[s].release
        PROVE  log'[s].next[n][l] = log'[s - 1].next[n][l]
    <3>1. CASE s <= L
      <4>1. s \in 2..L /\ s \in 1..L /\ s - 1 \in 1..L
        BY <1>1, <3>1
      <4> QED
        BY <1>1, <2>1, <4>1 DEF StoresRelease
    <3>2. CASE s = L + 1
      <4>1. log'[s - 1] = Now /\ log'[s] = mem
        BY <1>1, <3>2
      <4> QED
        BY <2>1, <4>1
    <3> QED
      BY <1>1, <3>1, <3>2
  <2> QED
    BY <1>1, <2>1 DEF StoresRelease
<1> QED
  BY <1>2, <1>3, <1>4

\* A step of the writer takes nothing from the reader.
LEMMA ReaderKeeps ==
  ASSUME Typed, Reading, SearchIsExact, UNCHANGED iter,
         \/ log' = log
         \/ /\ Len(log') = Len(log) + 1 /\ \A s \in 1..Len(log) : log'[s] = log[s]
            /\ Linked(Now, 0) \subseteq Linked(Now', 0)
  PROVE  Reading' /\ SearchIsExact'
<1>1. /\ log'[iter.known] = log[iter.known] /\ log'[iter.since] = log[iter.since]
      /\ iter' = iter
  BY DEF Typed
<1>2. Present(Now) \subseteq Present(Now)'
  BY DEF Present, Now
<1> QED
  BY <1>1, <1>2 DEF Reading, SearchIsExact

LEMMA SameMemory ==
  ASSUME log' = log, AreLists, MemoryGrows, StoresRelease, UpToHeight
  PROVE  AreLists' /\ MemoryGrows' /\ StoresRelease' /\ UpToHeight'
<1>1. Now' = Now
  BY DEF Now
<1>2. AreLists'
  BY DEF AreLists
<1>3. MemoryGrows'
  BY DEF MemoryGrows
<1>4. StoresRelease'
  BY DEF StoresRelease
<1>5. UpToHeight'
  BY <1>1 DEF UpToHeight
<1> QED
  BY <1>2, <1>3, <1>4, <1>5

\* The writer's own steps without a store.
LEMMA InsertKeeps ==
  ASSUME SkipInv, NEW key \in ListKeys, Insert(key)
  PROVE  SkipInv'
<1>1. /\ insert' = [step |-> "find", key |-> key, x |-> HeadNode, level |-> Now.height - 1,
                    height |-> 0, prev |-> [l \in Level |-> Unset]]
      /\ insert.step = "none" /\ key \notin Present(Now)
      /\ log' = log /\ done' = done /\ iter' = iter
  BY DEF Insert, NoInsert
<1>2. Now.height \in 1..MaxHeight /\ Now' = Now
  BY <1>1, NowTyped DEF SkipInv, Memories, Now
<1>3. Typed'
  <2>1. Now.height - 1 \in Level
    BY <1>2, Numbers DEF Level
  <2>2. insert' \in [step: {"none", "find", "height", "own", "link"}, key: ListKeys \cup {Null},
                     x: Node, level: Level, height: 0..MaxHeight,
                     prev: [Level -> Node \cup {Unset}]]
    BY <1>1, <2>1, Numbers
  <2> QED
    BY <1>1, <2>2 DEF SkipInv, Typed
<1>4. AreLists' /\ MemoryGrows' /\ StoresRelease' /\ UpToHeight'
  BY <1>1, <1>2, SameMemory DEF SkipInv
<1>5. Finding'
  <2>1. \A l \in Level : ~(l < Now.height /\ l > Now.height - 1)
    BY <1>2, Numbers
  <2>2. HeadNode \in On(Now, Now.height - 1) /\ HeadNode < key /\ Now.height - 1 < Now.height
    BY <1>2, Numbers DEF On
  <2> QED
    BY <1>1, <1>2, <2>1, <2>2 DEF Finding
<1>6. Linking' /\ Unwritten'
  BY <1>1, <1>2 DEF SkipInv, Linking, Unwritten
<1>7. Reading' /\ SearchIsExact'
  BY <1>1, ReaderKeeps DEF SkipInv
<1> QED
  BY <1>3, <1>4, <1>5, <1>6, <1>7 DEF SkipInv

LEMMA FindPositionKeeps ==
  ASSUME SkipInv, FindPosition
  PROVE  SkipInv'
<1> DEFINE i == insert
           next == Now.next[i.x][i.level]
           found == [i EXCEPT !.prev[i.level] = i.x]
<1>1. /\ i.step = "find" /\ log' = log /\ done' = done /\ iter' = iter
      /\ insert' = IF KeyIsAfterNode(next, i.key) THEN [i EXCEPT !.x = next]
                   ELSE IF i.level = 0 THEN [found EXCEPT !.step = "height"]
                   ELSE [found EXCEPT !.level = SwitchToNextList(@)]
  BY DEF FindPosition
<1>2. /\ Now' = Now /\ Now \in Memories /\ IsList(Now) /\ Now.height \in 1..MaxHeight
  BY <1>1, NowTyped DEF SkipInv, AreLists, Now, Memories
<1>3. /\ i \in [step: {"none", "find", "height", "own", "link"}, key: ListKeys \cup {Null},
                x: Node, level: Level, height: 0..MaxHeight, prev: [Level -> Node \cup {Unset}]]
      /\ i.key \in ListKeys \ Present(Now) /\ i.level < Now.height
      /\ i.x \in On(Now, i.level) /\ i.x < i.key
      /\ \A l \in Level : l < Now.height /\ l > i.level => GoodPrev(l)
  BY <1>1 DEF SkipInv, Typed, Finding
<1>4. /\ next \in ListKeys \cup {Null} /\ next > i.x /\ next \in Nat
      /\ i.level \in Level /\ i.level \in Nat /\ i.key \in Nat /\ i.x \in Node
  BY <1>2, <1>3, Numbers DEF IsList
<1>5. AreLists' /\ MemoryGrows' /\ StoresRelease' /\ UpToHeight'
  BY <1>1, <1>2, SameMemory DEF SkipInv
<1>6. Reading' /\ SearchIsExact'
  BY <1>1, ReaderKeeps DEF SkipInv
<1>7. insert'.step \in {"find", "height"} => Linking' /\ Unwritten'
  BY <1>1, <1>2 DEF SkipInv, Linking, Unwritten
<1>8. CASE next < i.key
  <2>1. insert' = [i EXCEPT !.x = next]
    BY <1>1, <1>8 DEF KeyIsAfterNode
  <2>2. next \in ListKeys /\ next \in Node /\ next \in Linked(Now, i.level)
    <3>1. next # Null
      BY <1>3, <1>4, <1>8, Numbers
    <3>2. next \in ListKeys /\ next \in Node
      BY <3>1, <1>4, Numbers
    <3> QED
      BY <3>2, <1>4 DEF Linked
  <2>3. /\ insert'.step = "find" /\ insert'.x = next /\ insert'.key = i.key
        /\ insert'.level = i.level /\ insert'.prev = i.prev
    BY <2>1, <1>1, <1>3
  <2>4. insert' \in [step: {"none", "find", "height", "own", "link"}, key: ListKeys \cup {Null},
                     x: Node, level: Level, height: 0..MaxHeight,
                     prev: [Level -> Node \cup {Unset}]]
    BY <2>1, <2>2, <1>3
  <2>5. Typed'
    BY <2>4, <1>1 DEF SkipInv, Typed
  <2>6. \A l \in Level : GoodPrev(l)' <=> GoodPrev(l)
    BY <2>3, <1>2 DEF GoodPrev
  <2>7. Finding'
    BY <2>2, <2>3, <2>6, <1>2, <1>3, <1>8 DEF Finding, On
  <2> QED
    BY <2>3, <2>5, <2>7, <1>5, <1>6, <1>7 DEF SkipInv
<1>9. CASE ~(next < i.key)
  <2>1. insert' = IF i.level = 0 THEN [found EXCEPT !.step = "height"]
                  ELSE [found EXCEPT !.level = i.level - 1]
    BY <1>1, <1>3, <1>9 DEF KeyIsAfterNode, SwitchToNextList
  <2>2. found.prev = [i.prev EXCEPT ![i.level] = i.x] /\ found \in
           [step: {"none", "find", "height", "own", "link"}, key: ListKeys \cup {Null},
            x: Node, level: Level, height: 0..MaxHeight, prev: [Level -> Node \cup {Unset}]]
    BY <1>3
  <2>3. /\ insert'.step = (IF i.level = 0 THEN "height" ELSE "find")
        /\ insert'.x = i.x /\ insert'.key = i.key
        /\ insert'.level = (IF i.level = 0 THEN 0 ELSE i.level - 1)
        /\ insert'.prev = [i.prev EXCEPT ![i.level] = i.x]
    BY <2>1, <2>2, <1>1, <1>3
  <2>4. insert' \in [step: {"none", "find", "height", "own", "link"}, key: ListKeys \cup {Null},
                     x: Node, level: Level, height: 0..MaxHeight,
                     prev: [Level -> Node \cup {Unset}]]
    <3>1. i.level # 0 => i.level - 1 \in Level
      BY <1>4, Numbers DEF Level
    <3> QED
      BY <2>1, <2>2, <3>1
  <2>5. Typed'
    BY <2>4, <1>1 DEF SkipInv, Typed
  <2>6. next > i.key
    <3>1. next # i.key
      <4>1. SUFFICES ASSUME next = i.key PROVE FALSE
        OBVIOUS
      <4>2. i.key \in Linked(Now, i.level)
        BY <4>1, <1>3, <1>4 DEF Linked
      <4>3. 0 \in Level /\ 0 <= i.level
        BY Numbers, <1>4
      <4> QED
        BY <4>2, <4>3, <1>2, <1>3, <1>4 DEF IsList, Present
    <3> QED
      BY <3>1, <1>4, <1>9
  <2>7. ASSUME NEW l \in Level, l < Now.height, l >= i.level
        PROVE  GoodPrev(l)'
    <3>1. CASE l = i.level
      <4>1. insert'.prev[l] = i.x
        BY <2>3, <3>1, <1>3
      <4> QED
        BY <4>1, <3>1, <2>3, <2>6, <1>2, <1>3 DEF GoodPrev
    <3>2. CASE l # i.level
      <4>1. GoodPrev(l) /\ insert'.prev[l] = i.prev[l] /\ insert'.key = i.key
        BY <3>2, <2>3, <2>7, <1>3, <1>4, Numbers
      <4> QED
        BY <4>1, <1>2 DEF GoodPrev
    <3> QED
      BY <3>1, <3>2
  <2>8. Finding'
    <3>1. insert'.step = "find" => i.level # 0 /\ i.x \in On(Now, i.level - 1)
      <4>1. SUFFICES ASSUME i.level # 0
                     PROVE  i.x \in On(Now, i.level - 1)
        BY <2>3
      <4>2. i.level - 1 \in Level /\ i.level - 1 <= i.level
        BY <4>1, <1>4, Numbers DEF Level
      <4> QED
        BY <4>2, <1>2, <1>3, <1>4 DEF IsList, On
    <3>2. \A l \in Level : l < Now.height /\ (insert'.step = "find" => l > insert'.level)
                             => l >= i.level
      BY <2>3, <1>4, Numbers
    <3>3. insert'.step = "find" => insert'.level < Now.height
      BY <2>3, <1>2, <1>3, <1>4
    <3> QED
      BY <3>1, <3>2, <3>3, <2>3, <2>7, <1>2, <1>3 DEF Finding
  <2> QED
    BY <2>3, <2>5, <2>8, <1>5, <1>6, <1>7 DEF SkipInv
<1> QED
  BY <1>8, <1>9
-----------------------------------------------------------------------------
Inserts == [step: {"none", "find", "height", "own", "link"}, key: ListKeys \cup {Null},
            x: Node, level: Level, height: 0..MaxHeight, prev: [Level -> Node \cup {Unset}]]

\* A store and a step of the Insert are typed.
LEMMA StoreTyped ==
  ASSUME Typed, NEW mem \in Memories, log' = Append(log, mem), insert' \in Inserts,
         done' \in 1..Len(log) + 1, UNCHANGED iter
  PROVE  Typed'
<1>1. Len(log) \in Nat /\ log' \in Seq(Memories) /\ Len(log') = Len(log) + 1
  BY Stored DEF Typed
<1>2. iter' \in [node: ListKeys \cup {Null}, known: 1..Len(log'), knownHeight: 1..Len(log'),
                 search: Searches, x: Node, level: Level, from: Node \cup {Null},
                 since: 1..Len(log'), did: Searches \cup {"next"}]
  <2>1. 1..Len(log) \subseteq 1..Len(log')
    BY <1>1
  <2> QED
    BY <2>1 DEF Typed
<1>3. Len(log') > 0 /\ done' \in 1..Len(log')
  BY <1>1
<1> QED
  BY <1>1, <1>2, <1>3 DEF Typed, Inserts

\* A key that is on no list is on no level.
LEMMA NotPresent ==
  ASSUME NEW mem, IsList(mem), NEW key, key \notin Present(mem),
         NEW l \in Level
  PROVE  key \notin Linked(mem, l)
<1>1. 0 \in Level /\ 0 <= l
  BY Numbers
<1> QED
  BY <1>1 DEF IsList, Present

\* Above the height of the list the head is before every key.
LEMMA HeadIsGoodPrev ==
  ASSUME IsList(Now), UpToHeight, NEW l \in Level, l >= Now.height,
         NEW key \in ListKeys
  PROVE  HeadNode \in On(Now, l) /\ HeadNode < key /\ Now.next[HeadNode][l] > key
<1>1. HeadNode \in On(Now, l) /\ Linked(Now, l) = {}
  BY DEF On, UpToHeight
<1>2. Now.next[HeadNode][l] \in ListKeys \cup {Null}
  BY <1>1 DEF IsList
<1>3. Now.next[HeadNode][l] \notin ListKeys
  BY <1>1, Numbers DEF Linked
<1> QED
  BY <1>1, <1>2, <1>3, Numbers

LEMMA RandomHeightKeeps ==
  ASSUME SkipInv, NEW height \in 1..MaxHeight, RandomHeight(height)
  PROVE  SkipInv'
<1> DEFINE i == insert
           prev == [l \in Level |->
                      IF l \in Now.height..(height - 1) THEN HeadNode ELSE i.prev[l]]
           mem == [Now EXCEPT !.height = height, !.release = FALSE]
<1>1. /\ i.step = "height" /\ done' = done /\ iter' = iter
      /\ IF height > Now.height THEN log' = Append(log, mem) ELSE log' = log
      /\ Now \in Memories /\ i \in Inserts /\ height \in 0..MaxHeight
      /\ insert' = [i EXCEPT !.step = "own", !.height = height, !.level = 0,
                    !.prev = [l \in Level |->
                                IF l \in Now.height..(height - 1) THEN HeadNode ELSE @[l]]]
  BY NowTyped DEF RandomHeight, StoreHeight, SkipInv, Typed, Inserts
<1>2. /\ insert'.step = "own" /\ insert'.key = i.key /\ insert'.level = 0
      /\ insert'.height = height /\ insert'.prev = prev /\ insert' \in Inserts
  <2>1. insert' = [step |-> "own", key |-> i.key, x |-> i.x, level |-> 0,
                   height |-> height, prev |-> prev]
    BY <1>1 DEF Inserts
  <2>2. prev \in [Level -> Node \cup {Unset}]
    BY <1>1, Numbers DEF Inserts
  <2>3. i.key \in ListKeys \cup {Null} /\ i.x \in Node /\ 0 \in Level
    BY <1>1, Numbers DEF Inserts
  <2> QED
    BY <2>1, <2>2, <2>3, <1>1 DEF Inserts
<1>3. /\ mem \in Memories /\ mem.next = Now.next /\ mem.height = height /\ mem.release = FALSE
  BY <1>1 DEF Memories
<1>4. /\ IsList(Now) /\ UpToHeight /\ Now.height \in 1..MaxHeight /\ height \in Nat
      /\ i.key \in ListKeys \ Present(Now)
      /\ \A l \in Level : l < Now.height => GoodPrev(l)
  BY <1>1, NowTyped DEF SkipInv, AreLists, Memories, Now, Finding
<1> HIDE DEF mem, prev
<1>5. /\ \A l : Linked(mem, l) = Linked(Now, l)
      /\ \A l : On(mem, l) = On(Now, l)
      /\ IsList(mem)
  BY <1>3, <1>4 DEF Linked, On, IsList
<1>6. /\ Now'.next = Now.next
      /\ \A l : Linked(Now', l) = Linked(Now, l)
      /\ \A l : On(Now', l) = On(Now, l)
      /\ Now'.height = (IF height > Now.height THEN height ELSE Now.height)
  <2>1. CASE height > Now.height
    <3>1. Now' = mem
      BY <2>1, <1>1, <1>3, Stored DEF SkipInv, Typed
    <3> QED
      BY <2>1, <3>1, <1>3, <1>5
  <2>2. CASE ~(height > Now.height)
    <3>1. Now' = Now
      BY <2>2, <1>1 DEF Now
    <3> QED
      BY <2>2, <3>1
  <2> QED
    BY <2>1, <2>2
<1>7. Typed'
  <2>1. CASE height > Now.height
    <3>1. done' \in 1..Len(log) + 1
      BY <1>1 DEF SkipInv, Typed
    <3> QED
      BY <2>1, <3>1, <1>1, <1>2, <1>3, StoreTyped DEF SkipInv
  <2>2. CASE ~(height > Now.height)
    BY <2>2, <1>1, <1>2 DEF SkipInv, Typed, Inserts
  <2> QED
    BY <2>1, <2>2
<1>8. AreLists' /\ MemoryGrows' /\ StoresRelease'
  <2>1. CASE height > Now.height
    <3>1. \A l \in Level : Linked(Now, l) \subseteq Linked(mem, l)
      BY <1>5
    <3>2. \A l \in Level : \A n \in On(Now, l) : mem.next[n][l] = Now.next[n][l]
      BY <1>3
    <3> QED
      BY <2>1, <3>1, <3>2, <1>1, <1>3, <1>5, StoreKeepsMemory DEF SkipInv
  <2>2. CASE ~(height > Now.height)
    BY <2>2, <1>1, SameMemory DEF SkipInv
  <2> QED
    BY <2>1, <2>2
<1>9. UpToHeight'
  <2>1. ASSUME NEW l \in Level, l >= Now'.height PROVE l >= Now.height
    BY <2>1, <1>4, <1>6, Numbers
  <2> QED
    BY <2>1, <1>4, <1>6 DEF UpToHeight
<1>10. Finding' /\ Unwritten'
  <2>1. Finding'
    BY <1>2 DEF Finding
  <2>2. Unwritten'
    BY <1>1, <1>6 DEF SkipInv, Unwritten
  <2> QED
    BY <2>1, <2>2
<1>11. ASSUME NEW l \in Level, l < height
       PROVE  prev[l] \in On(Now, l) /\ prev[l] < i.key /\ Now.next[prev[l]][l] > i.key
  <2>1. CASE l < Now.height
    <3>1. prev[l] = i.prev[l]
      BY <2>1, <1>4, <1>11, Numbers DEF prev
    <3> QED
      BY <2>1, <3>1, <1>4 DEF GoodPrev
  <2>2. CASE l >= Now.height
    <3>1. prev[l] = HeadNode
      BY <2>2, <1>4, <1>11, Numbers DEF prev
    <3> QED
      BY <2>2, <3>1, <1>4, HeadIsGoodPrev
  <2> QED
    BY <2>1, <2>2, <1>4, Numbers
<1>12. Linking'
  <2>1. \A l \in Level : ~(l < 0) /\ i.key \notin Linked(Now, l)
    BY <1>4, NotPresent, Numbers
  <2>2. \A l \in Level : l < height => GoodPrev(l)'
    BY <1>2, <1>6, <1>11 DEF GoodPrev
  <2>3. 0 < height /\ height <= Now'.height
    BY <1>4, <1>6
  <2> QED
    BY <2>1, <2>2, <2>3, <1>2, <1>4, <1>6 DEF Linking
<1>13. Reading' /\ SearchIsExact'
  <2>1. CASE height > Now.height
    <3>1. /\ Len(log') = Len(log) + 1 /\ \A s \in 1..Len(log) : log'[s] = log[s]
      BY <2>1, <1>1, <1>3, Stored DEF SkipInv, Typed
    <3> QED
      BY <3>1, <1>1, <1>6, ReaderKeeps DEF SkipInv
  <2>2. CASE ~(height > Now.height)
    BY <2>2, <1>1, ReaderKeeps DEF SkipInv
  <2> QED
    BY <2>1, <2>2
<1> QED
  BY <1>7, <1>8, <1>9, <1>10, <1>12, <1>13 DEF SkipInv

\* What the Insert knows when it links.
LEMMA WhileLinking ==
  ASSUME SkipInv, insert.step \in {"own", "link"}
  PROVE  /\ Now \in Memories /\ IsList(Now) /\ insert \in Inserts
         /\ insert.level \in Level /\ insert.level < insert.height
         /\ insert.height \in Nat /\ insert.height <= Now.height /\ insert.height <= MaxHeight
         /\ insert.key \in ListKeys \ Linked(Now, insert.level) /\ insert.key \in Node
         /\ insert.prev[insert.level] \in On(Now, insert.level)
         /\ insert.prev[insert.level] \in Node
         /\ insert.prev[insert.level] < insert.key
         /\ Now.next[insert.prev[insert.level]][insert.level] > insert.key
         /\ Now.next[insert.prev[insert.level]][insert.level] \in ListKeys \cup {Null}
<1>1. /\ Now \in Memories /\ IsList(Now) /\ insert \in Inserts
  BY NowTyped DEF SkipInv, Typed, Inserts, AreLists, Now
<1>2. insert.level \in Level /\ insert.height \in 0..MaxHeight
  BY <1>1 DEF Inserts
<1>3. /\ insert.key \in ListKeys /\ insert.level < insert.height /\ insert.height <= Now.height
      /\ insert.key \notin Linked(Now, insert.level) /\ GoodPrev(insert.level)
  <2>1. ~(insert.level < insert.level)
    BY <1>2, Numbers
  <2> QED
    BY <2>1, <1>2 DEF SkipInv, Linking
<1>4. Now.next[insert.prev[insert.level]][insert.level] \in ListKeys \cup {Null}
  BY <1>1, <1>2, <1>3 DEF GoodPrev, IsList
<1>5. insert.prev[insert.level] \in Node /\ insert.key \in Node
  BY <1>3, LinkedIsKey, Numbers DEF GoodPrev
<1>6. insert.height \in Nat /\ insert.height <= MaxHeight
  BY <1>2, Numbers
<1> QED
  BY <1>1, <1>2, <1>3, <1>4, <1>5, <1>6 DEF GoodPrev

LEMMA SetOwnLinkKeeps ==
  ASSUME SkipInv, SetOwnLink
  PROVE  SkipInv'
<1> DEFINE i == insert
           level == i.level
           prev == i.prev[level]
           mem == With(Now, i.key, level, Now.next[prev][level], FALSE)
<1>1. /\ i.step = "own" /\ done' = done /\ iter' = iter
      /\ log' = Append(log, mem) /\ insert' = [i EXCEPT !.step = "link"]
  BY DEF SetOwnLink, Store, With
<1>2. /\ Now \in Memories /\ IsList(Now) /\ i \in Inserts /\ level \in Level
      /\ i.key \in ListKeys \ Linked(Now, level) /\ i.key \in Node
      /\ prev \in On(Now, level) /\ prev \in Node
      /\ Now.next[prev][level] \in ListKeys \cup {Null}
      /\ Now.height \in 1..MaxHeight
  BY <1>1, WhileLinking DEF Memories
<1>3. /\ insert'.step = "link" /\ insert'.key = i.key /\ insert'.level = level
      /\ insert'.height = i.height /\ insert'.prev = i.prev /\ insert' \in Inserts
  BY <1>1, <1>2 DEF Inserts
<1>4. Writes(Now, mem, i.key, level, Now.next[prev][level]) /\ mem.release = FALSE
  <2>1. Now.next[prev][level] \in Node \cup {Null, Unset} /\ FALSE \in BOOLEAN
    BY <1>2, Numbers
  <2> QED
    BY <1>2, <2>1, StoreLink
<1>5. Now.next[i.key][level] = Unset
  BY <1>1, <1>2 DEF SkipInv, Unwritten
<1> HIDE DEF mem
<1>6. /\ mem \in Memories /\ mem.height = Now.height /\ IsList(mem)
      /\ \A m \in Level : Linked(mem, m) = Linked(Now, m)
      /\ \A m \in Level : \A n \in On(Now, m) : mem.next[n][m] = Now.next[n][m]
      /\ mem.next[i.key][level] = Now.next[prev][level]
      /\ mem.next[prev][level] = Now.next[prev][level]
      /\ \A n \in Node, m \in Level : n # i.key \/ m # level => mem.next[n][m] = Now.next[n][m]
  <2>1. mem \in Memories /\ mem.height = Now.height
    BY <1>4 DEF Writes
  <2> QED
    BY <2>1, <1>2, <1>4, <1>5, OwnLinkKeepsLists
<1>7. /\ Now' = mem /\ Len(log') = Len(log) + 1
      /\ \A s \in 1..Len(log) : log'[s] = log[s]
  BY <1>1, <1>6, Stored DEF SkipInv, Typed
<1>8. Typed'
  <2>1. done' \in 1..Len(log) + 1
    BY <1>1 DEF SkipInv, Typed
  <2> QED
    BY <2>1, <1>1, <1>3, <1>6, StoreTyped DEF SkipInv
<1>9. AreLists' /\ MemoryGrows' /\ StoresRelease'
  <2>1. \A l \in Level : Linked(Now, l) \subseteq Linked(mem, l)
    BY <1>6
  <2> QED
    BY <2>1, <1>1, <1>6, StoreKeepsMemory DEF SkipInv
<1>10. UpToHeight'
  BY <1>6, <1>7 DEF SkipInv, UpToHeight
<1>11. Finding'
  BY <1>3 DEF Finding
<1>12. Linking'
  <2>1. ASSUME NEW l \in Level, GoodPrev(l) PROVE GoodPrev(l)'
    <3>1. insert'.prev[l] \in On(Now, l) /\ On(mem, l) = On(Now, l)
      BY <2>1, <1>3, <1>6 DEF GoodPrev, On
    <3>2. mem.next[insert'.prev[l]][l] = Now.next[i.prev[l]][l]
      BY <3>1, <1>3, <1>6
    <3> QED
      BY <2>1, <3>1, <3>2, <1>3, <1>7 DEF GoodPrev
  <2>2. /\ i.key \in ListKeys /\ i.level < i.height /\ i.height <= Now.height
        /\ \A l \in Level :
             IF l < i.level THEN i.key \in Linked(Now, l)
             ELSE i.key \notin Linked(Now, l) /\ (l < i.height => GoodPrev(l))
    BY <1>1 DEF SkipInv, Linking
  <2>3. \A l \in Level :
          IF l < i.level THEN i.key \in Linked(Now', l)
          ELSE i.key \notin Linked(Now', l) /\ (l < i.height => GoodPrev(l)')
    BY <2>1, <2>2, <1>6, <1>7
  <2>4. Now'.height = Now.height
        /\ Now'.next[i.key][level] = Now'.next[prev][level]
    BY <1>6, <1>7
  <2> QED
    BY <2>2, <2>3, <2>4, <1>3 DEF Linking
<1>13. Unwritten'
  <2>1. ASSUME NEW k \in ListKeys, NEW l \in Level, k \notin Linked(mem, l), mem.next[k][l] # Unset,
               ~(k = i.key /\ l = level)
        PROVE  FALSE
    <3>1. k \notin Linked(Now, l) /\ Now.next[k][l] # Unset
      BY <2>1, <1>6, Numbers
    <3> QED
      BY <3>1, <1>1 DEF SkipInv, Unwritten
  <2> QED
    BY <2>1, <1>3, <1>7 DEF Unwritten
<1>14. Reading' /\ SearchIsExact'
  <2>1. Linked(Now, 0) \subseteq Linked(Now', 0)
    BY <1>6, <1>7, Numbers
  <2> QED
    BY <2>1, <1>1, <1>7, ReaderKeeps DEF SkipInv
<1> QED
  BY <1>8, <1>9, <1>10, <1>11, <1>12, <1>13, <1>14 DEF SkipInv

LEMMA LinkNodeKeeps ==
  ASSUME SkipInv, LinkNode
  PROVE  SkipInv'
<1> DEFINE i == insert
           level == i.level
           prev == i.prev[level]
           last == level = i.height - 1
           mem == With(Now, prev, level, i.key, TRUE)
<1>1. /\ i.step = "link" /\ iter' = iter
      /\ log' = Append(log, mem)
      /\ insert' = IF last THEN NoInsert ELSE [i EXCEPT !.step = "own", !.level = level + 1]
      /\ done' = IF last THEN Len(log') ELSE done
  BY DEF LinkNode, Store, With
<1>2. /\ Now \in Memories /\ IsList(Now) /\ i \in Inserts /\ level \in Level
      /\ i.key \in ListKeys \ Linked(Now, level) /\ i.key \in Node
      /\ prev \in On(Now, level) /\ prev \in Node /\ prev < i.key
      /\ Now.next[prev][level] > i.key
      /\ Now.height \in 1..MaxHeight /\ level \in Nat
      /\ i.height \in Nat /\ level < i.height /\ i.height <= MaxHeight /\ i.height <= Now.height
  BY <1>1, WhileLinking, Numbers DEF Memories
<1>3. /\ Now.next[i.key][level] = Now.next[prev][level]
      /\ \A l \in Level :
           IF l < level THEN i.key \in Linked(Now, l)
           ELSE i.key \notin Linked(Now, l) /\ (l < i.height => GoodPrev(l))
  BY <1>1 DEF SkipInv, Linking
<1>4. insert' \in Inserts /\ (last => insert'.step = "none")
      /\ (~last => /\ insert'.step = "own" /\ insert'.key = i.key /\ insert'.level = level + 1
                   /\ insert'.height = i.height /\ insert'.prev = i.prev)
  <2>1. CASE last
    <3>1. NoInsert \in Inserts
      BY Numbers DEF NoInsert, Inserts
    <3> QED
      BY <2>1, <3>1, <1>1 DEF NoInsert
  <2>2. CASE ~last
    <3>1. level + 1 \in Level
      BY <2>2, <1>2, Numbers DEF Level
    <3> QED
      BY <2>2, <3>1, <1>1, <1>2 DEF Inserts
  <2> QED
    BY <2>1, <2>2
<1>5. Writes(Now, mem, prev, level, i.key) /\ mem.release = TRUE
  <2>1. i.key \in Node \cup {Null, Unset} /\ TRUE \in BOOLEAN
    BY <1>2
  <2> QED
    BY <1>2, <2>1, StoreLink
<1> HIDE DEF mem
<1>6. /\ mem \in Memories /\ mem.height = Now.height /\ IsList(mem)
      /\ Linked(mem, level) = Linked(Now, level) \cup {i.key}
      /\ \A m \in Level : m # level => Linked(mem, m) = Linked(Now, m)
      /\ \A n \in Node, m \in Level : n # prev \/ m # level => mem.next[n][m] = Now.next[n][m]
  <2>1. mem \in Memories /\ mem.height = Now.height
    BY <1>5 DEF Writes
  <2>2. \A m \in Level : m < level => i.key \in Linked(Now, m)
    BY <1>3
  <2> QED
    BY <2>1, <2>2, <1>2, <1>3, <1>5, LinkMakesList
<1>7. /\ Now' = mem /\ Len(log') = Len(log) + 1 /\ Len(log) \in Nat
      /\ \A s \in 1..Len(log) : log'[s] = log[s]
  BY <1>1, <1>6, Stored DEF SkipInv, Typed
<1>8. Typed'
  <2>1. done' \in 1..Len(log) + 1
    BY <1>1, <1>7 DEF SkipInv, Typed
  <2> QED
    BY <2>1, <1>1, <1>4, <1>6, StoreTyped DEF SkipInv
<1>9. \A l \in Level : Linked(Now, l) \subseteq Linked(mem, l)
  BY <1>6
<1>10. AreLists' /\ MemoryGrows' /\ StoresRelease'
  BY <1>1, <1>5, <1>6, <1>9, StoreKeepsMemory DEF SkipInv
<1>11. UpToHeight'
  <2>1. ~(level >= Now.height)
    BY <1>2
  <2> QED
    BY <2>1, <1>6, <1>7 DEF SkipInv, UpToHeight
<1>12. Finding'
  BY <1>4 DEF Finding
<1>13. Linking'
  <2>1. SUFFICES ASSUME ~last PROVE Linking'
    BY <1>4 DEF Linking
  <2>2. /\ insert'.step = "own" /\ insert'.key = i.key /\ insert'.level = level + 1
        /\ insert'.height = i.height /\ insert'.prev = i.prev
    BY <2>1, <1>4
  <2>3. ASSUME NEW l \in Level, l < level + 1 PROVE i.key \in Linked(mem, l)
    <3>1. CASE l = level
      BY <3>1, <1>6
    <3>2. CASE l < level
      BY <3>2, <1>3, <1>9
    <3> QED
      BY <2>3, <3>1, <3>2, <1>2, Numbers
  <2>4. ASSUME NEW l \in Level, ~(l < level + 1)
        PROVE  i.key \notin Linked(mem, l) /\ (l < i.height => GoodPrev(l)')
    <3>1. l # level /\ ~(l < level)
      BY <2>4, <1>2, Numbers
    <3>2. Linked(mem, l) = Linked(Now, l) /\ On(mem, l) = On(Now, l)
      BY <3>1, <1>6 DEF On
    <3>3. i.key \notin Linked(Now, l) /\ (l < i.height => GoodPrev(l))
      BY <3>1, <1>3
    <3>4. ASSUME l < i.height PROVE GoodPrev(l)'
      <4>1. i.prev[l] \in On(Now, l) /\ i.prev[l] < i.key /\ Now.next[i.prev[l]][l] > i.key
        BY <3>3, <3>4 DEF GoodPrev
      <4>2. mem.next[i.prev[l]][l] = Now.next[i.prev[l]][l]
        BY <4>1, <3>1, <1>6, LinkedIsKey
      <4> QED
        BY <4>1, <4>2, <3>2, <2>2, <1>7 DEF GoodPrev
    <3> QED
      BY <3>2, <3>3, <3>4
  <2>5. level + 1 < i.height /\ i.height <= mem.height
    BY <2>1, <1>2, <1>6
  <2> QED
    BY <2>2, <2>3, <2>4, <2>5, <1>2, <1>7 DEF Linking
<1>14. Unwritten'
  <2>1. ASSUME NEW k \in ListKeys, NEW l \in Level, k \notin Linked(mem, l), mem.next[k][l] # Unset
        PROVE  FALSE
    <3>1. ~(k = i.key /\ l = level) /\ k \notin Linked(Now, l)
      BY <2>1, <1>6, <1>9
    <3>2. ~(k = prev /\ l = level)
      BY <3>1, <1>2, Numbers DEF On
    <3>3. Now.next[k][l] # Unset
      BY <2>1, <3>2, <1>6, Numbers
    <3> QED
      BY <3>1, <3>3 DEF SkipInv, Unwritten
  <2> QED
    BY <2>1, <1>7 DEF Unwritten
<1>15. Reading' /\ SearchIsExact'
  <2>1. Linked(Now, 0) \subseteq Linked(Now', 0)
    BY <1>7, <1>9, Numbers
  <2> QED
    BY <2>1, <1>1, <1>7, ReaderKeeps DEF SkipInv
<1> QED
  BY <1>8, <1>10, <1>11, <1>12, <1>13, <1>14, <1>15 DEF SkipInv
-----------------------------------------------------------------------------
Iterators == [node: ListKeys \cup {Null}, known: 1..Len(log), knownHeight: 1..Len(log),
              search: Searches, x: Node, level: Level, from: Node \cup {Null},
              since: 1..Len(log), did: Searches \cup {"next"}]

\* A step of the reader changes nothing for the writer.
LEMMA ReaderStep ==
  ASSUME SkipInv, UNCHANGED <<log, insert, done>>, iter' \in Iterators,
         Reading', SearchIsExact'
  PROVE  SkipInv'
<1>1. Now' = Now
  BY DEF Now
<1>2. Typed'
  BY DEF SkipInv, Typed, Iterators
<1>3. AreLists' /\ MemoryGrows' /\ StoresRelease' /\ UpToHeight'
  BY SameMemory DEF SkipInv
<1>4. \A l : GoodPrev(l)' <=> GoodPrev(l)
  BY <1>1 DEF GoodPrev
<1>5. Finding'
  BY <1>1, <1>4 DEF SkipInv, Finding
<1>6. Linking'
  BY <1>1, <1>4 DEF SkipInv, Linking
<1>7. Unwritten'
  BY <1>1 DEF SkipInv, Unwritten
<1> QED
  BY <1>2, <1>3, <1>5, <1>6, <1>7 DEF SkipInv

LEMMA NewIteratorKeeps ==
  ASSUME SkipInv, NewIterator
  PROVE  SkipInv'
<1>1. /\ iter' = [node |-> Null, known |-> done, knownHeight |-> done, search |-> "none",
                  x |-> HeadNode, level |-> 0, from |-> HeadNode, since |-> done,
                  did |-> "none"]
      /\ UNCHANGED <<log, insert, done>> /\ done \in 1..Len(log)
  BY DEF NewIterator, NewIter, SkipInv, Typed
<1>2. iter' \in Iterators
  BY <1>1, Numbers DEF Iterators, Searches
<1>3. Reading'
  BY <1>1 DEF Reading
<1>4. SearchIsExact'
  BY <1>1 DEF SearchIsExact
<1> QED
  BY <1>1, <1>2, <1>3, <1>4, ReaderStep

LEMMA AdvanceKeeps ==
  ASSUME SkipInv, iter.search = "none", UNCHANGED <<log, insert, done>>,
         NEW n \in On(log[iter.known], 0), Advance(n, "next")
  PROVE  SkipInv'
<1>1. PICK s \in Stores(n, 0) :
        iter' = [iter EXCEPT !.node = log[s].next[n][0], !.known = Knows(s),
                             !.from = n, !.since = iter.known, !.did = "next"]
  BY DEF Advance
<1> DEFINE t == Knows(s)
           at == log[s].next[n][0]
<1>2. /\ 0 \in Level /\ iter \in Iterators /\ n \in Node
      /\ iter.known \in 1..Len(log) /\ Len(log) \in Nat
  BY Numbers, LinkedIsKey DEF SkipInv, Typed, Iterators
<1>3. /\ t \in 1..Len(log) /\ iter.known <= t
      /\ at = log[t].next[n][0] /\ n \in On(log[t], 0)
  BY <1>2, LoadIsCurrent DEF SkipInv
<1>4. /\ IsList(log[t])
      /\ Present(log[iter.known]) \subseteq Present(log[t])
      /\ Present(log[t]) \subseteq Present(Now)
  BY <1>2, <1>3, KnownMemory DEF SkipInv, Present
<1>5. /\ at \in ListKeys \cup {Null} /\ at > n /\ at \in Nat /\ n \in Nat
      /\ \A k \in Present(log[t]) : k > n => k >= at
      /\ at # Null => at \in Present(log[t])
  BY <1>2, <1>3, <1>4, Numbers DEF IsList, Present, Linked
<1>6. /\ iter'.node = at /\ iter'.known = t /\ iter'.from = n /\ iter'.since = iter.known
      /\ iter'.did = "next" /\ iter'.search = "none"
  BY <1>1, <1>2 DEF Iterators
<1>7. iter' \in Iterators
  BY <1>1, <1>2, <1>3, <1>5 DEF Iterators
<1>8. Reading'
  BY <1>3, <1>5, <1>6 DEF Reading
<1>9. SearchIsExact'
  <2>1. \A k \in Present(log[iter.known]) : ~(n < k /\ k < at)
    <3>1. \A k \in Present(log[iter.known]) : k \in Nat /\ (k > n => k >= at)
      BY <1>4, <1>5, Numbers DEF Present, Linked
    <3> QED
      BY <3>1, <1>5
  <2>2. at \in Present(Now) \cup {Null}
    BY <1>4, <1>5
  <2>3. Now' = Now /\ log'[iter'.since] = log[iter.known]
    BY <1>6 DEF Now
  <2> QED
    BY <2>1, <2>2, <2>3, <1>5, <1>6 DEF SearchIsExact
<1> QED
  BY <1>7, <1>8, <1>9, ReaderStep

LEMMA BeginKeeps ==
  ASSUME SkipInv, NEW search \in Searches \ {"none"},
         NEW from \in ListKeys \cup {Null}, Begin(search, from)
  PROVE  SkipInv'
<1>1. PICK s \in HeightStores :
        iter' = [iter EXCEPT !.search = search, !.from = from, !.x = HeadNode,
                             !.level = log[s].height - 1, !.knownHeight = s,
                             !.since = iter.known, !.did = search]
  BY DEF Begin
<1>2. /\ UNCHANGED <<log, insert, done>> /\ iter \in Iterators
      /\ iter.known \in 1..Len(log) /\ Len(log) \in Nat
  BY DEF Begin, SkipInv, Typed, Iterators
<1>3. s \in 1..Len(log) /\ log[s].height - 1 \in Level
  <2>1. s \in 1..Len(log)
    BY DEF HeightStores
  <2>2. log[s].height \in 1..MaxHeight
    BY <2>1, NowTyped DEF SkipInv, Memories
  <2> QED
    BY <2>1, <2>2, Numbers DEF Level
<1>4. /\ iter'.search = search /\ iter'.did = search /\ iter'.x = HeadNode
      /\ iter'.from = from /\ iter'.known = iter.known /\ iter'.since = iter.known
      /\ iter'.node = iter.node
  BY <1>1, <1>2 DEF Iterators
<1>5. iter' \in Iterators
  BY <1>1, <1>2, <1>3, Numbers DEF Iterators
<1>6. Reading'
  <2>1. HeadNode \in On(log[iter.known], iter'.level)
    BY DEF On
  <2>2. HeadNode < from
    BY Numbers
  <2>3. iter.node # Null => iter.node \in Present(log[iter.known])
    BY DEF SkipInv, Reading
  <2>4. iter.known <= iter.known
    BY <1>2
  <2> QED
    BY <2>1, <2>2, <2>3, <2>4, <1>2, <1>4 DEF Reading
<1>7. SearchIsExact'
  BY <1>4 DEF SearchIsExact
<1> QED
  BY <1>2, <1>5, <1>6, <1>7, ReaderStep

LEMMA FindStepKeeps ==
  ASSUME SkipInv, FindStep
  PROVE  SkipInv'
<1> DEFINE l == iter.level
           x == iter.x
<1>1. PICK s \in Stores(x, l) :
        iter' = IF KeyIsAfterNode(log[s].next[x][l], iter.from)
                THEN [iter EXCEPT !.known = Knows(s), !.x = log[s].next[x][l]]
                ELSE IF l = 0
                THEN [iter EXCEPT !.known = Knows(s), !.search = "none",
                                  !.node = Found(log[s].next[x][l])]
                ELSE [iter EXCEPT !.known = Knows(s), !.level = SwitchToNextList(l)]
  <2>1. iter \in Iterators
    BY DEF SkipInv, Typed, Iterators
  <2> QED
    BY <2>1 DEF FindStep, Iterators
<1> DEFINE t == Knows(s)
           at == log[s].next[x][l]
<1>2. /\ UNCHANGED <<log, insert, done>> /\ iter \in Iterators
      /\ iter.known \in 1..Len(log) /\ iter.since \in 1..Len(log) /\ Len(log) \in Nat
      /\ iter.search \in Searches \ {"none"} /\ iter.from \in Node \cup {Null}
      /\ l \in Level /\ l \in Nat /\ x \in Node /\ x \in Nat /\ iter.from \in Nat
  BY Numbers DEF FindStep, SkipInv, Typed, Iterators
<1>3. /\ x \in On(log[iter.known], l) /\ x < iter.from /\ iter.did = iter.search
      /\ iter.since <= iter.known
      /\ iter.node # Null => iter.node \in Present(log[iter.known])
  BY <1>2 DEF SkipInv, Reading
<1>4. /\ t \in 1..Len(log) /\ iter.known <= t
      /\ at = log[t].next[x][l] /\ x \in On(log[t], l)
  BY <1>2, <1>3, LoadIsCurrent DEF SkipInv
<1>5. /\ IsList(log[t])
      /\ Present(log[iter.known]) \subseteq Present(log[t])
      /\ Present(log[iter.since]) \subseteq Present(log[t])
      /\ Present(log[t]) \subseteq Present(Now)
  BY <1>2, <1>4, KnownMemory, Numbers DEF SkipInv, Present
<1>6. /\ at \in ListKeys \cup {Null} /\ at > x /\ at \in Nat
      /\ \A k \in Linked(log[t], l) : k > x => k >= at
      /\ at # Null => at \in Linked(log[t], l)
  <2>1. /\ at \in ListKeys \cup {Null} /\ at > x
        /\ \A k \in Linked(log[t], l) : k > x => k >= at
    BY <1>2, <1>4, <1>5 DEF IsList
  <2>2. at \in Nat
    BY <2>1, Numbers
  <2>3. at # Null => at \in Linked(log[t], l)
    BY <2>1, <1>2, <1>4 DEF Linked
  <2> QED
    BY <2>1, <2>2, <2>3
<1>7. Now' = Now /\ log' = log
  BY <1>2 DEF Now
<1>8. CASE at < iter.from
  <2>1. /\ iter' = [iter EXCEPT !.known = t, !.x = at]
        /\ at # Null
    <3>1. at # Null
      BY <1>2, <1>8, Numbers
    <3> QED
      BY <3>1, <1>1, <1>8 DEF KeyIsAfterNode
  <2>2. iter'.known = t /\ iter'.x = at /\ iter'.search = iter.search /\ iter'.did = iter.did
        /\ iter'.level = l /\ iter'.from = iter.from /\ iter'.since = iter.since
        /\ iter'.node = iter.node
    BY <2>1, <1>2 DEF Iterators
  <2>3. iter' \in Iterators
    BY <2>1, <1>2, <1>4, <1>6, Numbers DEF Iterators
  <2>4. Reading'
    <3>1. iter.since <= t
      BY <1>2, <1>3, <1>4
    <3> QED
      BY <3>1, <2>1, <2>2, <1>3, <1>5, <1>6, <1>7, <1>8 DEF Reading, On
  <2>5. SearchIsExact'
    BY <2>2, <1>2 DEF SearchIsExact
  <2> QED
    BY <2>3, <2>4, <2>5, <1>2, ReaderStep
<1>9. CASE ~(at < iter.from) /\ l # 0
  <2>1. iter' = [iter EXCEPT !.known = t, !.level = l - 1]
    BY <1>1, <1>9 DEF KeyIsAfterNode, SwitchToNextList
  <2>2. /\ iter'.known = t /\ iter'.x = x /\ iter'.search = iter.search /\ iter'.did = iter.did
        /\ iter'.level = l - 1 /\ iter'.from = iter.from /\ iter'.since = iter.since
        /\ iter'.node = iter.node
    BY <2>1, <1>2 DEF Iterators
  <2>3. l - 1 \in Level /\ l - 1 <= l
    BY <1>2, <1>9, Numbers DEF Level
  <2>4. iter' \in Iterators
    BY <2>1, <2>3, <1>2, <1>4 DEF Iterators
  <2>5. x \in On(log[t], l - 1)
    BY <2>3, <1>2, <1>4, <1>5 DEF On, IsList
  <2>6. Reading'
    <3>1. iter.since <= t
      BY <1>2, <1>3, <1>4
    <3> QED
      BY <3>1, <2>2, <2>5, <1>3, <1>5, <1>7 DEF Reading
  <2>7. SearchIsExact'
    BY <2>2, <1>2 DEF SearchIsExact
  <2> QED
    BY <2>4, <2>6, <2>7, <1>2, ReaderStep
<1>10. CASE ~(at < iter.from) /\ l = 0
  <2> DEFINE found == Found(at)
  <2>1. iter' = [iter EXCEPT !.known = t, !.search = "none", !.node = found]
    BY <1>1, <1>10 DEF KeyIsAfterNode
  <2>2. found = IF iter.search = "seek" THEN at ELSE IF x = HeadNode THEN Null ELSE x
    BY DEF Found
  <2>3. /\ x = HeadNode \/ x \in Present(log[t])
        /\ at = Null \/ at \in Present(log[t])
        /\ \A k \in Present(log[t]) : k > x => k >= at
    BY <1>4, <1>6, <1>10 DEF On, Present
  <2>4. found = Null \/ found \in Present(log[t])
    BY <2>2, <2>3
  <2>5. found \in ListKeys \cup {Null}
    BY <2>4 DEF Present, Linked
  <2> HIDE DEF found
  <2>6. /\ iter'.known = t /\ iter'.search = "none" /\ iter'.did = iter.search
        /\ iter'.from = iter.from /\ iter'.since = iter.since /\ iter'.node = found
    BY <2>1, <1>2, <1>3 DEF Iterators
  <2>7. iter' \in Iterators
    BY <2>1, <2>5, <1>2, <1>4 DEF Iterators, Searches
  <2>8. Reading'
    <3>1. iter.since <= t
      BY <1>2, <1>3, <1>4
    <3> QED
      BY <3>1, <2>4, <2>6, <1>7 DEF Reading
  <2>9. SearchIsExact'
    <3>1. \A k \in Present(log[iter.since]) : k \in Nat /\ (k > x => k >= at)
      BY <2>3, <1>5, Numbers DEF Present, Linked
    <3>2. \A k \in Present(log[iter.since]) : ~(x < k /\ k < iter.from) /\ ~(iter.from <= k /\ k < at)
      <4>1. \A k \in Present(log[iter.since]) : ~(x < k /\ k < iter.from)
        BY <3>1, <1>2, <1>3, <1>6, <1>10
      <4>2. \A k \in Present(log[iter.since]) : ~(iter.from <= k /\ k < at)
        BY <3>1, <1>2, <1>3, <1>6, <1>10
      <4> QED
        BY <4>1, <4>2
    <3>3. found \in Present(Now) \cup {Null}
      BY <2>4, <1>5
    <3>4. CASE iter.search = "seek"
      <4>1. found = at /\ found >= iter.from
        BY <3>4, <2>2, <1>2, <1>6, <1>10
      <4> QED
        BY <3>2, <3>3, <3>4, <4>1, <2>6, <1>7 DEF SearchIsExact
    <3>5. CASE iter.search # "seek"
      <4>1. (IF found = Null THEN HeadNode ELSE found) = x
        BY <3>5, <2>2, <1>2, Numbers
      <4> QED
        BY <3>2, <3>3, <3>5, <4>1, <2>6, <1>2, <1>3, <1>7 DEF SearchIsExact, Searches
    <3> QED
      BY <3>4, <3>5
  <2> QED
    BY <2>7, <2>8, <2>9, <1>2, ReaderStep
<1> QED
  BY <1>8, <1>9, <1>10
-----------------------------------------------------------------------------
LEMMA SkipInvInit ==
  ASSUME SkipInit
  PROVE  SkipInv
<1> DEFINE mem == [next |-> [n \in Node |->
                          [l \in Level |-> IF n = HeadNode THEN Null ELSE Unset]],
                   height |-> 1, release |-> TRUE]
<1>1. /\ log = <<mem>> /\ insert = NoInsert /\ done = 1 /\ iter = NewIter(1)
  BY DEF SkipInit
<1>2. mem \in Memories /\ \A n \in Node, l \in Level :
                            mem.next[n][l] = IF n = HeadNode THEN Null ELSE Unset
  BY Numbers DEF Memories
<1> HIDE DEF mem
<1>3. Len(log) = 1 /\ log[1] = mem /\ Now = mem /\ log \in Seq(Memories)
  BY <1>1, <1>2 DEF Now
<1>4. \A l \in Level : Linked(mem, l) = {}
  BY <1>2, Numbers DEF Linked
<1>5. Typed
  <2>1. insert \in Inserts
    BY <1>1, Numbers DEF NoInsert, Inserts
  <2>2. iter \in Iterators
    BY <1>1, <1>3, Numbers DEF NewIter, Iterators, Searches
  <2> QED
    BY <2>1, <2>2, <1>1, <1>3 DEF Typed, Inserts, Iterators
<1>6. IsList(mem)
  <2>1. \A l \in Level : On(mem, l) = {HeadNode}
    BY <1>4 DEF On
  <2> QED
    BY <2>1, <1>2, <1>4, Numbers DEF IsList
<1>7. AreLists /\ MemoryGrows /\ StoresRelease /\ UpToHeight
  BY <1>3, <1>4, <1>6 DEF AreLists, MemoryGrows, StoresRelease, UpToHeight
<1>8. Finding /\ Linking
  BY <1>1 DEF NoInsert, Finding, Linking
<1>9. Unwritten
  BY <1>2, <1>3, Numbers DEF Unwritten
<1>10. Reading /\ SearchIsExact
  BY <1>1 DEF NewIter, Reading, SearchIsExact
<1> QED
  BY <1>5, <1>7, <1>8, <1>9, <1>10 DEF SkipInv

LEMMA SkipInvStep ==
  ASSUME SkipInv, [SkipNext]_skipVars
  PROVE  SkipInv'
<1>1. ASSUME NEW key \in ListKeys, Insert(key) PROVE SkipInv'
  BY <1>1, InsertKeeps
<1>2. ASSUME FindPosition PROVE SkipInv'
  BY <1>2, FindPositionKeeps
<1>3. ASSUME NEW height \in 1..MaxHeight, RandomHeight(height) PROVE SkipInv'
  BY <1>3, RandomHeightKeeps
<1>4. ASSUME SetOwnLink PROVE SkipInv'
  BY <1>4, SetOwnLinkKeeps
<1>5. ASSUME LinkNode PROVE SkipInv'
  BY <1>5, LinkNodeKeeps
<1>6. ASSUME NewIterator PROVE SkipInv'
  BY <1>6, NewIteratorKeeps
<1>7. ASSUME IterNext PROVE SkipInv'
  <2>1. iter.node \in On(log[iter.known], 0)
    BY <1>7 DEF IterNext, SkipInv, Reading, On, Present
  <2> QED
    BY <1>7, <2>1, AdvanceKeeps DEF IterNext
<1>8. ASSUME SeekToFirst PROVE SkipInv'
  <2>1. HeadNode \in On(log[iter.known], 0)
    BY DEF On
  <2> QED
    BY <1>8, <2>1, AdvanceKeeps DEF SeekToFirst
<1>9. ASSUME NEW target \in ListKeys, Seek(target) PROVE SkipInv'
  BY <1>9, BeginKeeps DEF Seek, Searches
<1>10. ASSUME Prev PROVE SkipInv'
  <2>1. iter.node \in ListKeys \cup {Null}
    BY DEF SkipInv, Typed
  <2> QED
    BY <1>10, <2>1, BeginKeeps DEF Prev, Searches
<1>11. ASSUME SeekToLast PROVE SkipInv'
  BY <1>11, BeginKeeps DEF SeekToLast, Searches
<1>12. ASSUME FindStep PROVE SkipInv'
  BY <1>12, FindStepKeeps
<1>13. ASSUME UNCHANGED skipVars PROVE SkipInv'
  <2>1. UNCHANGED <<log, insert, done, iter>> /\ Now' = Now
    BY <1>13 DEF skipVars, Now
  <2>2. iter' \in Iterators
    BY <2>1 DEF SkipInv, Typed, Iterators
  <2>3. Reading' /\ SearchIsExact'
    BY <2>1, ReaderKeeps DEF SkipInv
  <2> QED
    BY <2>1, <2>2, <2>3, ReaderStep
<1> QED
  BY <1>1, <1>2, <1>3, <1>4, <1>5, <1>6, <1>7, <1>8, <1>9, <1>10, <1>11, <1>12, <1>13
     DEF SkipNext, WriterStep, Work, Read


LEMMA SkipListIsSound == SkipSpec => []SkipInv
<1>1. SkipInit => SkipInv
  BY SkipInvInit
<1>2. SkipInv /\ [SkipNext]_skipVars => SkipInv'
  BY SkipInvStep
<1> QED
  BY <1>1, <1>2, PTL DEF SkipSpec

\* What is known of the last state of memory, and of a node the reader knows of.
LEMMA SoundNow ==
  ASSUME SkipInv
  PROVE  /\ IsList(Now) /\ Now \in Memories
         /\ Present(log[iter.known]) \subseteq Present(Now)
         /\ IsList(log[iter.known]) /\ iter.known \in 1..Len(log)
<1>1. IsList(Now) /\ Now \in Memories
  BY NowTyped DEF SkipInv, AreLists, Now
<1>2. iter.known \in 1..Len(log) /\ iter.known <= iter.known
  BY DEF SkipInv, Typed
<1> QED
  BY <1>1, <1>2, KnownMemory DEF SkipInv

LEMMA SkipListTyped == SkipInv => SkipTypeOK
<1> SUFFICES ASSUME SkipInv PROVE SkipTypeOK
  OBVIOUS
<1>1. ASSUME NEW n \in Node, NEW l \in Level, Now.next[n][l] \notin {Unset, Null}
      PROVE  Now.next[n][l] \in Present(Now) /\ Now.next[n][l] > n
  <2> DEFINE to == Now.next[n][l]
  <2>1. 0 \in Level /\ 0 <= l
    BY Numbers
  <2>2. \A k \in Linked(Now, l) : k \in Present(Now)
    BY <2>1, SoundNow DEF IsList, Present
  <2>3. CASE n \in On(Now, l)
    <3>1. to \in ListKeys /\ to > n
      BY <2>3, <1>1, SoundNow DEF IsList
    <3>2. to \in Linked(Now, l)
      BY <3>1 DEF Linked
    <3> QED
      BY <3>1, <3>2, <2>2
  <2>4. CASE n \notin On(Now, l)
    <3>1. n \in ListKeys /\ n \notin Linked(Now, l)
      BY <2>4 DEF On, Node
    <3>2. insert.step = "link" /\ n = insert.key /\ l = insert.level
      BY <3>1, <1>1 DEF SkipInv, Unwritten
    <3>3. to = Now.next[insert.prev[l]][l]
      BY <3>2 DEF SkipInv, Linking
    <3>4. to > n /\ to \in ListKeys /\ insert.prev[l] \in Node
      BY <3>2, <3>3, <1>1, WhileLinking
    <3>5. to \in Linked(Now, l)
      BY <3>3, <3>4 DEF Linked
    <3> QED
      BY <3>4, <3>5, <2>2
  <2> QED
    BY <2>3, <2>4
<1>2. Now.height \in 1..MaxHeight /\ done \in 1..Len(log) /\ iter.level \in Level
  BY SoundNow DEF SkipInv, Typed, Memories
<1>3. iter.node \in Present(Now) \cup {Null}
  BY SoundNow DEF SkipInv, Reading
<1>4. ASSUME iter.search # "none"
      PROVE  iter.x \in Present(Now) \cup {HeadNode} /\ iter.x < iter.from
  <2>1. iter.x \in On(log[iter.known], iter.level) /\ iter.x < iter.from
    BY <1>4 DEF SkipInv, Reading
  <2>2. 0 \in Level /\ 0 <= iter.level /\ iter.level \in Level
    BY <1>2, Numbers
  <2>3. Linked(log[iter.known], iter.level) \subseteq Present(Now)
    BY <2>2, SoundNow DEF IsList, Present
  <2> QED
    BY <2>1, <2>3 DEF On
<1> QED
  BY <1>1, <1>2, <1>3, <1>4 DEF SkipTypeOK

LEMMA SkipListNests == SkipInv => LevelsNest
<1> SUFFICES ASSUME SkipInv, NEW l \in Level
             PROVE  /\ l > 0 => Linked(Now, l) \subseteq Linked(Now, l - 1)
                    /\ l >= Now.height => Linked(Now, l) = {}
  BY DEF LevelsNest
<1>1. l > 0 => l - 1 \in Level /\ l - 1 <= l
  BY Numbers DEF Level
<1> QED
  BY <1>1, SoundNow DEF SkipInv, IsList, UpToHeight

LEMMA ReadersSeeWholeNodes == SkipInv => WholeNodes
<1> SUFFICES ASSUME SkipInv
             PROVE  WholeNodes
  OBVIOUS
<1>1. /\ iter.node \in ListKeys \cup {Null} /\ iter.x \in Node
      /\ iter.level \in Level /\ iter.level \in Nat
  BY Numbers DEF SkipInv, Typed
<1>2. iter.node # Unset /\ iter.x # Unset
  BY <1>1, Numbers
<1>3. ASSUME iter.search # "none", NEW l \in 0..iter.level
      PROVE  log[iter.known].next[iter.x][l] # Unset
  <2>1. IsList(log[iter.known]) /\ iter.x \in On(log[iter.known], iter.level)
    BY <1>3, SoundNow DEF SkipInv, Reading
  <2>2. l \in Level /\ l <= iter.level
    BY <1>1, <1>3, Numbers DEF Level
  <2>3. iter.x \in On(log[iter.known], l)
    BY <2>1, <2>2, <1>1 DEF IsList, On
  <2>4. log[iter.known].next[iter.x][l] \in ListKeys \cup {Null}
    BY <2>1, <2>2, <2>3 DEF IsList
  <2> QED
    BY <2>4, Numbers
<1> QED
  BY <1>2, <1>3 DEF WholeNodes

\* A search finds what was inserted before it began, and nothing that was not
\* inserted, at whatever moment of an Insert it loads each link; the lists nest, and
\* no reader meets a link that was not written.
THEOREM SearchesMissNothing == SkipSpec => []NothingMissed
<1>1. SkipInv => NothingMissed
  BY SkipListTyped, SkipListNests, ReadersSeeWholeNodes DEF NothingMissed, SkipInv
<1> QED
  BY <1>1, SkipListIsSound, PTL
=============================================================================
