-------------------------------- MODULE Block --------------------------------
(***************************************************************************)
(* A block of a table: BlockBuilder (block_builder.cc) writes entries that *)
(* share prefixes with the one before, with restart points in between, and *)
(* Block::Iter (block.cc) reads them both ways.  An entry's offset is its  *)
(* number, from 0: the code only compares offsets.                         *)
(***************************************************************************)
EXTENDS Strings, FiniteSets, FiniteSetsExt

CONSTANTS
  KeySet,    \* keys that may be added, strings
  Interval,  \* block_restart_interval
  MaxDamage  \* bound: entries that cannot be decoded

\* What the constants must be.
BlockAssumption ==
  KeySet \subseteq Seq(0..MaxByte) /\ Interval \in Nat \ {0} /\ MaxDamage \in Nat

VARIABLES
  buffer,    \* buffer_: [shared, delta] of each entry
  restarts,  \* restarts_: offsets
  counter,   \* entries since the last restart point
  lastKey,   \* last_key_
  added,     \* the keys added, in order
  finished,
  bad,       \* offsets of entries DecodeEntry rejects, once finished
  current,   \* current_: Size if the iterator is not valid
  restartIndex, key,
  ok         \* status_

buildVars == <<buffer, restarts, counter, lastKey, added, finished, bad>>
vars == <<buildVars, current, restartIndex, key, ok>>

Size == Len(buffer)
-----------------------------------------------------------------------------
\* Add: a prefix is shared, or after Interval entries a restart point is made.
\* Mutant: the restart point shares a prefix too.
RunEnds == counter >= Interval
AlwaysShares(k) == Shared(lastKey, k)
SharedPart(k) == IF RunEnds THEN 0 ELSE Shared(lastKey, k)
Add(k) ==
  /\ ~finished /\ (added = <<>> \/ Before(lastKey, k))
  /\ LET shared == SharedPart(k)
     IN  /\ restarts' = IF RunEnds THEN Append(restarts, Size) ELSE restarts
         /\ counter' = IF RunEnds THEN 1 ELSE counter + 1
         /\ buffer' = Append(buffer, [shared |-> shared, delta |-> SubSeq(k, shared + 1, Len(k))])
  /\ lastKey' = k /\ added' = Append(added, k)
  /\ UNCHANGED <<finished, bad, current, restartIndex, key, ok>>

\* Finish; the block is read back, some entries perhaps damaged, by a new Iter.
Finish ==
  /\ ~finished /\ finished' = TRUE
  /\ bad' \in {b \in SUBSET (0..(Size - 1)) : Cardinality(b) <= MaxDamage}
  /\ current' = Size /\ restartIndex' = Len(restarts)
  /\ UNCHANGED <<buffer, restarts, counter, lastKey, added, key, ok>>
-----------------------------------------------------------------------------
RestartPoint(i) == restarts[i + 1]
LastRestart == Len(restarts) - 1

\* ParseNextKey over and over from one restart point: the key after the entry at n.
KeyFrom(r, n) ==
  LET k[i \in r..n] ==
        LET e == buffer[i + 1]
        IN  (IF i = r THEN <<>> ELSE SubSeq(k[i - 1], 1, e.shared)) \o e.delta
  IN  k[n]
\* The first entry from n on that cannot be parsed, if any.
Stuck(r, n) == {i \in r..n : i \in bad}
\* Its restart block, as ParseNextKey advances restart_index_ to it from i.
IndexOf(i, n) == Max({i} \cup {j \in (i + 1)..LastRestart : RestartPoint(j) < n})

NoMore == current' = Size /\ restartIndex' = Len(restarts) /\ UNCHANGED ok
CorruptionError == current' = Size /\ restartIndex' = Len(restarts) /\ key' = <<>> /\ ok' = FALSE

\* From the restart point i entries are parsed up to n, if none is damaged.
ParseTo(i, n) ==
  IF Stuck(RestartPoint(i), n) # {} THEN CorruptionError
  ELSE /\ current' = n /\ restartIndex' = IndexOf(i, n)
       /\ key' = KeyFrom(RestartPoint(i), n) /\ UNCHANGED ok

\* Seek: binary search for the last restart point before target, or a damaged one.
IsBefore(r, target) == Before(buffer[r + 1].delta, target)
Damaged == -1
SearchRestart(target) ==
  LET find[left \in 0..LastRestart, right \in 0..LastRestart] ==
        LET mid == (left + right + 1) \div 2
        IN  IF left >= right THEN left
            ELSE IF RestartPoint(mid) \in bad \/ buffer[RestartPoint(mid) + 1].shared # 0
            THEN Damaged
            ELSE IF IsBefore(RestartPoint(mid), target) THEN find[mid, right]
            ELSE find[left, mid - 1]
  IN  find[0, LastRestart]

\* Then the first entry from there that is not before target, or Size.
Sought(target) ==
  LET r == RestartPoint(SearchRestart(target))
      found == {n \in r..(Size - 1) :
                  Stuck(r, n) = {} /\ ~Before(KeyFrom(r, n), target)}
  IN  IF SearchRestart(target) = Damaged THEN Damaged
      ELSE IF found # {} THEN Min(found)
      ELSE IF Stuck(r, Size - 1) # {} THEN Damaged ELSE Size
Seek(target) ==
  LET i == SearchRestart(target)
      n == Sought(target)
  IN  CASE n = Damaged -> CorruptionError
        [] n = Size -> /\ NoMore
                       /\ key' = IF Size = 0 THEN <<>> ELSE KeyFrom(RestartPoint(i), Size - 1)
        [] OTHER -> ParseTo(i, n)

SeekToFirst == IF Size = 0 THEN NoMore /\ key' = <<>> ELSE ParseTo(0, 0)
SeekToLast ==
  IF Size = 0 THEN NoMore /\ key' = <<>> ELSE ParseTo(LastRestart, Size - 1)

Valid == finished /\ current < Size
Next1 ==
  /\ Valid
  /\ IF current + 1 = Size THEN NoMore /\ UNCHANGED key
     ELSE IF current + 1 \in bad THEN CorruptionError
     ELSE /\ current' = current + 1 /\ restartIndex' = IndexOf(restartIndex, current')
          /\ key' = SubSeq(key, 1, buffer[current' + 1].shared) \o buffer[current' + 1].delta
          /\ UNCHANGED ok

\* Prev: back to a restart point before the entry, and on to the one before it.
StrictlyBefore(i) == RestartPoint(i) < current
RestartsBack == {i \in 0..restartIndex : StrictlyBefore(i)}
PrevEntry == Max({RestartPoint(Max(RestartsBack)), current - 1})
Prev1 ==
  /\ Valid
  /\ IF RestartsBack = {} THEN NoMore /\ UNCHANGED key ELSE ParseTo(Max(RestartsBack), PrevEntry)

Init ==
  /\ buffer = <<>> /\ restarts = <<0>> /\ counter = 0 /\ lastKey = <<>> /\ added = <<>>
  /\ finished = FALSE /\ bad = {} /\ current = 0 /\ restartIndex = 0 /\ key = <<>> /\ ok = TRUE

Moves ==
  /\ finished
  /\ (\E target \in KeySet : Seek(target)) \/ SeekToFirst \/ SeekToLast \/ Next1 \/ Prev1
  /\ UNCHANGED buildVars

Next == (\E k \in KeySet : Add(k)) \/ Finish \/ Moves
Spec == Init /\ [][Next]_vars
-----------------------------------------------------------------------------
\* Type invariant.
BlockTypeOK ==
  /\ counter \in 0..Interval /\ restarts \in Seq(Nat)
  /\ finished => current \in 0..Size /\ restartIndex \in 0..Len(restarts)
  /\ ~ok => bad # {}

\* Whichever restart point the parsing starts from, it gives back the keys that were
\* added, also past further restart points; and a restart point is never far.
KeysReadBack ==
  /\ \A i \in 0..LastRestart : \A n \in RestartPoint(i)..(Size - 1) :
       KeyFrom(RestartPoint(i), n) = added[n + 1]
  /\ \A n \in 0..(Size - 1) : \E i \in 0..LastRestart : RestartPoint(i) \in (n - Interval + 1)..n

\* The iterator's key and restart block are those of its position, however it got there,
\* and lead Prev to the entry before.
PositionsAgree ==
  Valid => /\ key = added[current + 1] /\ current \notin bad
           /\ RestartPoint(restartIndex) <= current
           /\ RestartsBack = {} <=> current = 0
           /\ current > 0 => PrevEntry = current - 1

\* Seek finds the first key not before its target, whichever restart points the binary
\* search has looked at, or says that an entry is damaged.
SeekFinds ==
  finished => \A target \in KeySet :
    LET n == Sought(target)
    IN  IF n = Damaged THEN bad # {}
        ELSE n = Min({Size} \cup {m \in 0..(Size - 1) : ~Before(added[m + 1], target)})

\* Until it reports a damaged entry the iterator is a cursor over the keys added: in
\* particular it ends only at an end, and Seek skips nothing.
Rank(k) == Cardinality({j \in KeySet : Before(j, k)}) + 1
Walk == INSTANCE Cursor
  WITH Keys <- 1..Cardinality(KeySet),
       view <- [n \in 1..Cardinality(KeySet) |->
                  IF \E i \in DOMAIN added : Rank(added[i]) = n THEN n ELSE 0],
       at <- IF Valid THEN Rank(key) ELSE 0
WalkStep ==
  finished /\ ok' =>
    /\ Next1 => Walk!Next1
    /\ Prev1 => Walk!Prev1
    /\ SeekToFirst => Walk!SeekToFirst
    /\ SeekToLast => Walk!SeekToLast
WalksUntilError == [][WalkStep]_vars
=============================================================================
