------------------------------ MODULE LRUCache ------------------------------
(***************************************************************************)
(* ShardedLRUCache (cache.cc): entries that clients hold by handles, the   *)
(* least recently used of which go when a shard is over its capacity.      *)
(* Every operation runs under the mutex of its shard.  The hash table is   *)
(* a function here.                                                        *)
(***************************************************************************)
EXTENDS Integers, Sequences, SequencesExt, FiniteSets, FiniteSetsExt

CONSTANTS
  Keys, ShardOf,  \* ShardOf[key]: the upper bits of its hash, 0..(NumShards - 1)
  NumShards,      \* kNumShards
  Capacity,       \* capacity given to NewLRUCache
  Charges,        \* charges clients insert with
  Handles,        \* addresses of entries, numbers; bound: no others are allocated
  MaxHeld         \* bound: how many handles are held at a time

\* What the constants must be.
CacheAssumption ==
  /\ NumShards \in Nat \ {0} /\ ShardOf \in [Keys -> 0..(NumShards - 1)]
  /\ Capacity \in Nat /\ Charges \subseteq Nat /\ MaxHeld \in Nat
  /\ Handles \subseteq Nat \ {0} /\ IsFiniteSet(Handles)

VARIABLES
  entry,  \* the LRUHandles: key, charge, in_cache, refs (0: the memory is free)
  table,  \* table_ of all shards: key -> handle
  lru,    \* lru_ of each shard, the oldest entry first
  inUse,  \* in_use_ of all shards
  usage,  \* usage_ of each shard
  held    \* handles held by clients: how many times each

cacheVars == <<entry, table, lru, inUse, usage, held>>

Nil == 0
Shards == 0..(NumShards - 1)
PerShard == (Capacity + NumShards - 1) \div NumShards
NoEntry == [key |-> Nil, charge |-> 0, inCache |-> FALSE, refs |-> 0]
Unused == {h \in Handles : entry[h].refs = 0}
-----------------------------------------------------------------------------
MayHold == MapThenSumSet(LAMBDA h : held[h], Handles) < MaxHeld

\* Lookup, with Ref: an entry on lru_ moves to in_use_.  Mutant: it stays.
RefInPlace(h) ==
  /\ entry' = [entry EXCEPT ![h].refs = @ + 1]
  /\ UNCHANGED <<lru, inUse>>
Ref(h) ==
  LET e == entry[h]
      s == ShardOf[e.key]
  IN  /\ entry' = [entry EXCEPT ![h].refs = @ + 1]
      /\ IF e.refs = 1 /\ e.inCache
         THEN lru' = [lru EXCEPT ![s] = RemoveFirst(@, h)] /\ inUse' = inUse \cup {h}
         ELSE UNCHANGED <<lru, inUse>>

Lookup(k) ==
  LET h == table[k]
  IN  /\ MayHold
      /\ IF h = Nil THEN UNCHANGED <<entry, lru, inUse, held>>
                    ELSE Ref(h) /\ held' = [held EXCEPT ![h] = @ + 1]
      /\ UNCHANGED <<table, usage>>

\* Release, with Unref: the last reference frees the entry, calling its deleter; when
\* only the reference of the cache is left it moves to the end of lru_.
Release(h) ==
  LET e == entry[h]
      left == e.refs - 1
      s == ShardOf[e.key]
  IN  /\ held[h] > 0
      /\ held' = [held EXCEPT ![h] = @ - 1]
      /\ entry' = [entry EXCEPT
           ![h] = IF left = 0 THEN NoEntry ELSE [@ EXCEPT !.refs = left]]
      /\ IF e.inCache /\ left = 1
         THEN lru' = [lru EXCEPT ![s] = Append(@, h)] /\ inUse' = inUse \ {h}
         ELSE UNCHANGED <<lru, inUse>>
      /\ UNCHANGED <<table, usage>>

\* FinishErase of a set of entries: they leave the lists and lose the reference of the
\* cache.
DropRef(e) == e.refs - 1
Finish(entries, gone) ==
  [h \in Handles |->
     IF h \notin gone THEN entries[h]
     ELSE IF DropRef(entries[h]) = 0 THEN NoEntry
     ELSE [entries[h] EXCEPT !.inCache = FALSE, !.refs = DropRef(entries[h])]]
ChargeOf(entries, gone) == MapThenSumSet(LAMBDA h : entries[h].charge, gone)

\* How many entries the loop of Insert evicts, from the front of lru_, until the shard
\* is within its capacity.  Mutant: it stops one early.
UsedAfter(n, entries, list, used) ==
  used - ChargeOf(entries, ToSet(SubSeq(list, 1, n)))
StopsEarly(entries, list, used) ==
  Min({n \in 0..Len(list) :
         UsedAfter(n, entries, list, used) <= PerShard + 1 \/ n = Len(list)})
Evicted(entries, list, used) ==
  Min({n \in 0..Len(list) :
         UsedAfter(n, entries, list, used) <= PerShard \/ n = Len(list)})

\* usage_ += charge.
Grown(used, charge) == used + charge
\* HandleTable::Remove.
Unmapped(gone) == [k \in Keys |-> IF table[k] \in gone THEN Nil ELSE table[k]]

\* References of a new entry: of the handle, and of the cache.
NewRefs(cached) == IF cached THEN 2 ELSE 1

\* Insert: an entry of the same key is dropped, then others if there is no room.
Insert(k, charge) ==
  LET s == ShardOf[k]
      h == Min(Unused)
      cached == PerShard > 0
      old == IF cached /\ table[k] # Nil THEN {table[k]} ELSE {}
      new == [entry EXCEPT ![h] = [key |-> k, charge |-> charge, inCache |-> cached,
                                   refs |-> NewRefs(cached)]]
      list == IF cached THEN RemoveFirst(lru[s], table[k]) ELSE lru[s]
      used == (IF cached THEN Grown(usage[s], charge) ELSE usage[s]) - ChargeOf(entry, old)
      n == Evicted(new, list, used)
      out == ToSet(SubSeq(list, 1, n))
      gone == old \cup out
  IN  /\ MayHold /\ Unused # {}
      /\ entry' = Finish(new, gone)
      /\ table' = IF cached THEN [Unmapped(out) EXCEPT ![k] = h] ELSE Unmapped(out)
      /\ lru' = [lru EXCEPT ![s] = SubSeq(list, n + 1, Len(list))]
      /\ inUse' = (inUse \ old) \cup (IF cached THEN {h} ELSE {})
      /\ usage' = [usage EXCEPT ![s] = used - ChargeOf(new, out)]
      /\ held' = [held EXCEPT ![h] = 1]

\* Entries removed from the hash table, by Erase of a key or by Prune, and what they
\* leave of lru_.
EraseAll(gone, left) ==
  /\ entry' = Finish(entry, gone)
  /\ table' = Unmapped(gone)
  /\ lru' = left
  /\ inUse' = inUse \ gone
  /\ usage' = [s \in Shards |->
                 usage[s] - ChargeOf(entry, {h \in gone : ShardOf[entry[h].key] = s})]
  /\ UNCHANGED held
Erase(k) ==
  EraseAll({table[k]} \ {Nil}, [lru EXCEPT ![ShardOf[k]] = RemoveFirst(@, table[k])])
Prune == EraseAll(UNION {ToSet(lru[s]) : s \in Shards}, [s \in Shards |-> <<>>])

CacheInit ==
  /\ entry = [h \in Handles |-> NoEntry] /\ table = [k \in Keys |-> Nil]
  /\ lru = [s \in Shards |-> <<>>] /\ inUse = {} /\ usage = [s \in Shards |-> 0]
  /\ held = [h \in Handles |-> 0]

CacheNext ==
  \/ \E k \in Keys : Lookup(k) \/ Erase(k) \/ \E charge \in Charges : Insert(k, charge)
  \/ \E h \in Handles : Release(h)
  \/ Prune

CacheSpec == CacheInit /\ [][CacheNext]_cacheVars
-----------------------------------------------------------------------------
(***************************************************************************)
(* What cache.cc asserts and its comments promise, lines 23-39 and 193-200.*)
(***************************************************************************)

InCache(h) == entry[h].refs > 0 /\ entry[h].inCache
OnLru(h) == \E s \in Shards : \E i \in 1..Len(lru[s]) : lru[s][i] = h

\* Among the types: memory that is not allocated is no entry.
CacheTypeOK ==
  /\ entry \in [Handles -> [key : Keys \cup {Nil}, charge : Charges \cup {0},
                            inCache : BOOLEAN, refs : Nat]]
  /\ \A h \in Handles : IF entry[h].refs = 0 THEN entry[h] = NoEntry ELSE entry[h].key \in Keys
  /\ table \in [Keys -> Handles \cup {Nil}] /\ usage \in [Shards -> Nat]
  /\ lru \in [Shards -> Seq(Handles)] /\ inUse \subseteq Handles /\ held \in [Handles -> Nat]

\* An entry has a reference for each handle that clients hold and one for the
\* cache: it is freed with the last of them, neither under a client nor never.
References ==
  \A h \in Handles : entry[h].refs = held[h] + (IF entry[h].inCache THEN 1 ELSE 0)

\* The hash table leads to the cached entries, one for each key.
TableIsExact ==
  /\ \A h \in Handles : InCache(h) => table[entry[h].key] = h
  /\ \A k \in Keys : table[k] # Nil => InCache(table[k]) /\ entry[table[k]].key = k

\* A cached entry is on lru_ if no client holds it, once and in the shard of its
\* key, and in in_use_ otherwise; no other entry is on a list.
ListsPartition ==
  /\ inUse = {h \in Handles : InCache(h) /\ entry[h].refs >= 2}
  /\ \A h \in Handles : OnLru(h) <=> InCache(h) /\ entry[h].refs = 1
  /\ \A s \in Shards : \A i, j \in 1..Len(lru[s]) :
       ShardOf[entry[lru[s][i]].key] = s /\ (i # j => lru[s][i] # lru[s][j])

\* usage_ is the charge of what is cached.
UsageIsCharge ==
  \A s \in Shards :
    usage[s] = ChargeOf(entry, {h \in Handles : InCache(h) /\ ShardOf[entry[h].key] = s})

\* Without capacity nothing is cached.
OffIsEmpty == PerShard = 0 => \A h \in Handles : ~InCache(h)

\* All of it, at any time.
CacheIsExact ==
  CacheTypeOK /\ References /\ TableIsExact /\ ListsPartition /\ UsageIsCharge /\ OffIsEmpty

\* After an Insert its shard is within its share of the capacity, unless clients
\* hold all that is cached; and nothing is evicted without need.
InsertStep(h) == entry[h].refs = 0 /\ entry'[h].refs > 0
MakesRoom ==
  \A h \in Handles : InsertStep(h) =>
    LET s == ShardOf[entry'[h].key]
        lost == {g \in Handles : InCache(g) /\ entry[g].refs = 1 /\ ~InCache(g)'
                                   /\ entry[g].key # entry'[h].key}
    IN  /\ usage'[s] <= PerShard \/ lru'[s] = <<>>
        /\ lost # {} => \E g \in lost : usage'[s] + entry[g].charge > PerShard
InsertMakesRoom == [][MakesRoom]_cacheVars
=============================================================================
