------------------------------ MODULE SkipList ------------------------------
(***************************************************************************)
(* The skip list of a memtable (skiplist.h): one writer that inserts, and  *)
(* readers without a lock (here one; they do not meet each other).         *)
(*                                                                         *)
(* Memory is the sequence of its states, one per store of the writer.  A   *)
(* load may see the state after any store from those the reader knows of   *)
(* on; an acquire load of a release store makes all stores up to that one  *)
(* known.  With one writer this is what C++ promises.                      *)
(***************************************************************************)
EXTENDS Integers, Sequences

CONSTANTS ListKeys,   \* positive numbers; a node is named by its key
          Null,       \* nullptr, "considered infinite"
          MaxHeight   \* kMaxHeight

\* What the constants must be.
SkipAssumption ==
  /\ ListKeys \subseteq Nat \ {0} /\ MaxHeight \in Nat \ {0}
  /\ Null \in Nat \ {0} /\ \A k \in ListKeys : k < Null
ASSUME ListAssumption == SkipAssumption

HeadNode == 0   \* head_
Unset == -1             \* a link of a new node that was not written yet
Node == ListKeys \cup {HeadNode}
Level == 0..(MaxHeight - 1)

VARIABLES
  log,     \* states of memory: links, max_height_, and whether the store released
  insert,  \* the Insert under way, or NoInsert
  done,    \* length of log when the last Insert returned
  iter     \* an iterator and the search it is in

skipVars == <<log, insert, done, iter>>
-----------------------------------------------------------------------------
Now == log[Len(log)]
\* Stores: the links of a node, and max_height_ without a barrier.
Store(n, level, to, release) ==
  log' = Append(log, [Now EXCEPT !.next[n][level] = to, !.release = release])
StoreHeight(height) ==
  log' = Append(log, [Now EXCEPT !.height = height, !.release = FALSE])

\* compare_(next->key, key) < 0.
KeyIsAfterNode(next, key) == next < key
\* level--.
SwitchToNextList(level) == level - 1

\* The locals of Insert and of the FindGreaterOrEqual it calls.
NoInsert == [step |-> "none", key |-> Null, x |-> HeadNode, level |-> 0, height |-> 0,
             prev |-> [l \in Level |-> Unset]]

\* The keys on a level, and all that were inserted.
Linked(mem, l) == {k \in ListKeys : \E n \in Node : mem.next[n][l] = k}
Present(mem) == Linked(mem, 0)

Insert(key) ==
  /\ insert.step = "none" /\ key \notin Present(Now)
  /\ insert' = [NoInsert EXCEPT !.step = "find", !.key = key, !.level = Now.height - 1]
  /\ UNCHANGED <<log, done, iter>>

\* One pass of the loop of FindGreaterOrEqual, of the writer.
FindPosition ==
  LET i == insert
      next == Now.next[i.x][i.level]
      found == [i EXCEPT !.prev[i.level] = i.x]
  IN  /\ i.step = "find"
      /\ insert' = IF KeyIsAfterNode(next, i.key) THEN [i EXCEPT !.x = next]
                   ELSE IF i.level = 0 THEN [found EXCEPT !.step = "height"]
                   ELSE [found EXCEPT !.level = SwitchToNextList(@)]
      /\ UNCHANGED <<log, done, iter>>

RandomHeight(height) ==
  /\ insert.step = "height"
  /\ insert' = [insert EXCEPT !.step = "own", !.height = height, !.level = 0,
                 !.prev = [l \in Level |->
                             IF l \in Now.height..(height - 1) THEN HeadNode ELSE @[l]]]
  /\ IF height > Now.height THEN StoreHeight(height) ELSE UNCHANGED log
  /\ UNCHANGED <<done, iter>>

\* The links of the new node from the lowest level up, each followed by the link
\* to the node.
SetOwnLink ==
  LET i == insert
  IN  /\ i.step = "own"
      /\ Store(i.key, i.level, Now.next[i.prev[i.level]][i.level], FALSE)
      /\ insert' = [i EXCEPT !.step = "link"]
      /\ UNCHANGED <<done, iter>>
LinkNode ==
  LET i == insert
      last == i.level = i.height - 1
  IN  /\ i.step = "link"
      /\ Store(i.prev[i.level], i.level, i.key, TRUE)
      /\ insert' = IF last THEN NoInsert ELSE [i EXCEPT !.step = "own", !.level = @ + 1]
      /\ done' = IF last THEN Len(log') ELSE done
      /\ UNCHANGED iter
-----------------------------------------------------------------------------
(***************************************************************************)
(* An iterator: its node, the stores it knows of (links, height), the      *)
(* search it is in with the search's local variables, and where and with   *)
(* which knowledge the search started.                                     *)
(***************************************************************************)
NewIter(known) ==
  [node |-> Null, known |-> known, knownHeight |-> known, search |-> "none",
   x |-> HeadNode, level |-> 0, from |-> HeadNode, since |-> known, did |-> "none"]

\* The stores a load of x->Next(level) may read from: those the reader knows of no
\* later one to the same link, ...
Stores(n, level) ==
  {s \in 1..Len(log) :
     /\ s = 1 \/ log[s].next[n][level] # log[s - 1].next[n][level]
     /\ \A r \in s..iter.known : log[r].next[n][level] = log[s].next[n][level]}
\* ... and what the reader knows of then.
Knows(s) == IF log[s].release /\ s > iter.known THEN s ELSE iter.known
\* The stores a load of max_height_ may read from.
HeightStores ==
  {s \in 1..Len(log) :
     /\ s = 1 \/ log[s].height # log[s - 1].height
     /\ \A r \in s..iter.known \cup s..iter.knownHeight : log[r].height = log[s].height}

\* A new iterator, after the mutex under which the last insert was published.
NewIterator ==
  /\ iter.search = "none"
  /\ iter' = NewIter(done)
  /\ UNCHANGED <<log, insert, done>>

\* Next and SeekToFirst: a single load.
Advance(n, did) ==
  \E s \in Stores(n, 0) :
    iter' = [iter EXCEPT !.node = log[s].next[n][0], !.known = Knows(s),
                         !.from = n, !.since = iter.known, !.did = did]
IterNext == iter.search = "none" /\ iter.node # Null /\ Advance(iter.node, "next")
                 /\ UNCHANGED <<log, insert, done>>
SeekToFirst == iter.search = "none" /\ Advance(HeadNode, "next")
                 /\ UNCHANGED <<log, insert, done>>

\* Seek, Prev and SeekToLast: a search that begins with the height it sees.
Begin(search, from) ==
  /\ iter.search = "none"
  /\ \E s \in HeightStores :
       iter' = [iter EXCEPT !.search = search, !.from = from, !.x = HeadNode,
                            !.level = log[s].height - 1, !.knownHeight = s,
                            !.since = iter.known, !.did = search]
  /\ UNCHANGED <<log, insert, done>>
Seek(target) == Begin("seek", target)
Prev == iter.node # Null /\ Begin("prev", iter.node)
SeekToLast == Begin("last", Null)

\* What a search returns.  Mutant: Seek is given the node before.
LastBefore(next) == IF iter.x = HeadNode THEN Null ELSE iter.x
Found(next) ==
  CASE iter.search = "seek" -> next
    [] OTHER -> IF iter.x = HeadNode THEN Null ELSE iter.x
\* One pass of the loop of FindGreaterOrEqual, FindLessThan or FindLast.
FindStep ==
  /\ iter.search # "none"
  /\ \E s \in Stores(iter.x, iter.level) :
       LET next == log[s].next[iter.x][iter.level]
           read == [iter EXCEPT !.known = Knows(s)]
       IN  iter' = IF KeyIsAfterNode(next, iter.from) THEN [read EXCEPT !.x = next]
                   ELSE IF iter.level = 0
                   THEN [read EXCEPT !.search = "none", !.node = Found(next)]
                   ELSE [read EXCEPT !.level = SwitchToNextList(@)]
  /\ UNCHANGED <<log, insert, done>>
-----------------------------------------------------------------------------
SkipInit ==
  /\ log = <<[next |-> [n \in Node |->
                          [l \in Level |-> IF n = HeadNode THEN Null ELSE Unset]],
              height |-> 1, release |-> TRUE]>>
  /\ insert = NoInsert /\ done = 1 /\ iter = NewIter(1)

Work == FindPosition \/ SetOwnLink \/ LinkNode
          \/ \E height \in 1..MaxHeight : RandomHeight(height)
WriterStep == Work \/ \E key \in ListKeys : Insert(key)
Read == IterNext \/ SeekToFirst \/ Prev \/ SeekToLast \/ FindStep
          \/ \E target \in ListKeys : Seek(target)
SkipNext == WriterStep \/ Read \/ NewIterator

SkipSpec == SkipInit /\ [][SkipNext]_skipVars
-----------------------------------------------------------------------------
(***************************************************************************)
(* What readers of the skip list rely on (skiplist.h, lines 8-27).         *)
(***************************************************************************)

\* The lists are lists: links go up, from linked nodes to linked nodes; an
\* iterator stands on a node of the list and a search is before its target
\* (the assertion of FindLessThan).
SkipTypeOK ==
  /\ \A n \in Node, l \in Level :
       Now.next[n][l] \notin {Unset, Null} => Now.next[n][l] \in Present(Now) /\ Now.next[n][l] > n
  /\ Now.height \in 1..MaxHeight /\ done \in 1..Len(log)
  /\ iter.node \in Present(Now) \cup {Null} /\ iter.level \in Level
  /\ iter.search # "none" => iter.x \in Present(Now) \cup {HeadNode} /\ iter.x < iter.from

\* Every node of a list is in the list below: a search that goes down a level
\* stays before its target, at every moment of an Insert.
LevelsNest ==
  \A l \in Level : /\ l > 0 => Linked(Now, l) \subseteq Linked(Now, l - 1)
                   /\ l >= Now.height => Linked(Now, l) = {}

\* A reader never follows a link of a node that is still being built.
WholeNodes == /\ iter.node # Unset /\ iter.x # Unset
              /\ \A l \in 0..iter.level :
                   iter.search # "none" => log[iter.known].next[iter.x][l] # Unset

\* A finished search has led to the first or last key there is, of those the
\* reader knew of when it started, and never to a key that was not inserted.
SearchIsExact ==
  LET known == Present(log[iter.since])
      at == iter.node
  IN  iter.search = "none" =>
        /\ at \in Present(Now) \cup {Null}
        /\ iter.did = "next" => at > iter.from /\ ~\E k \in known : iter.from < k /\ k < at
        /\ iter.did = "seek" => at >= iter.from /\ ~\E k \in known : iter.from <= k /\ k < at
        /\ iter.did \in {"prev", "last"} =>
             LET low == IF at = Null THEN HeadNode ELSE at
             IN  low < iter.from /\ ~\E k \in known : low < k /\ k < iter.from

\* A search of a skip list finds what was inserted before it began, and
\* nothing else, and no reader follows a link of a node that is still being
\* built.
NothingMissed == SkipTypeOK /\ LevelsNest /\ WholeNodes /\ SearchIsExact
=============================================================================
