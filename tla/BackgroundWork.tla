--------------------------- MODULE BackgroundWork ---------------------------
(***************************************************************************)
(* PosixEnv::Schedule and BackgroundThreadMain (env_posix.cc): a queue     *)
(* under a mutex, a condition variable, and one thread, started by the     *)
(* first call, that runs what is queued.  An item may schedule the next    *)
(* one, as DBImpl::BackgroundCall does.                                    *)
(***************************************************************************)
EXTENDS Integers, Sequences, FiniteSets

CONSTANTS
  Schedulers,   \* threads that call Schedule
  Nobody,       \* no thread
  MaxItems   \* bound: calls of Schedule

ASSUME WorkAssumption ==
  Nobody \notin Schedulers \cup {"worker"} /\ "worker" \notin Schedulers /\ MaxItems \in Nat

VARIABLES
  mutex,    \* who has background_work_mutex_
  queue,    \* background_work_queue_: items are numbered as they come
  started,  \* started_background_thread_
  workPc,   \* where the callers and the background thread are
  signaled, \* the background thread waits and has been woken
  current,  \* the item the background thread has taken
  ran,      \* items that have run
  next      \* the next item's number

workVars == <<mutex, queue, started, workPc, signaled, current, ran, next>>

Actors == Schedulers \cup {"worker"}
WorkGoes(a, to) == workPc' = [workPc EXCEPT ![a] = to]
-----------------------------------------------------------------------------
\* Schedule.  The worker calls it from inside an item.
Lock(a) ==
  /\ next <= MaxItems /\ mutex = Nobody
  /\ IF a = "worker" THEN workPc[a] = "run" ELSE workPc[a] = "idle"
  /\ mutex' = a /\ WorkGoes(a, "locked")
  /\ UNCHANGED <<queue, started, signaled, current, ran, next>>

StartThread(a) ==
  /\ workPc[a] = "locked"
  /\ started' = TRUE
  /\ workPc' = [workPc EXCEPT ![a] = "signal", !["worker"] = IF started THEN @ ELSE "main"]
  /\ UNCHANGED <<mutex, queue, signaled, current, ran, next>>
StartedByWorker ==
  /\ workPc["worker"] = "locked"
  /\ WorkGoes("worker", "signal")
  /\ UNCHANGED <<mutex, queue, started, signaled, current, ran, next>>

\* Mutant: the signal is for a queue that has something already.
SignalsLate == queue # <<>>
Signals == queue = <<>>
HeldBy(a) == a
Signal(a) ==
  /\ workPc[a] = "signal"
  /\ signaled' = (signaled \/ (Signals /\ workPc["worker"] = "wait"))
  /\ mutex' = HeldBy(a) /\ WorkGoes(a, "emplace")
  /\ UNCHANGED <<queue, started, current, ran, next>>

\* emplace and Unlock.
Emplace(a) ==
  /\ workPc[a] = "emplace"
  /\ queue' = Append(queue, next) /\ next' = next + 1
  /\ mutex' = Nobody /\ WorkGoes(a, IF a = "worker" THEN "run" ELSE "idle")
  /\ UNCHANGED <<started, signaled, current, ran>>

\* BackgroundThreadMain: Lock, and Wait, which gives the mutex up, while there is
\* nothing to do.  A wait may also end unsignaled.
WorkerLocks ==
  /\ workPc["worker"] = "main" /\ mutex = Nobody
  /\ mutex' = "worker" /\ WorkGoes("worker", "check")
  /\ UNCHANGED <<queue, started, signaled, current, ran, next>>
Wait ==
  /\ workPc["worker"] = "check" /\ queue = <<>>
  /\ mutex' = Nobody /\ signaled' = FALSE /\ WorkGoes("worker", "wait")
  /\ UNCHANGED <<queue, started, current, ran, next>>
Wakes ==
  /\ workPc["worker"] = "wait" /\ mutex = Nobody
  /\ mutex' = "worker" /\ WorkGoes("worker", "check")
  /\ UNCHANGED <<queue, started, signaled, current, ran, next>>
Wake == signaled /\ Wakes
SpuriousWake == ~signaled /\ Wakes

\* Mutant: the newest item is taken.
Newest(q) == Len(q)
Oldest(q) == 1
Take ==
  /\ workPc["worker"] = "check" /\ queue # <<>>
  /\ LET n == Oldest(queue)
     IN  /\ current' = <<queue[n]>>
         /\ queue' = SubSeq(queue, 1, n - 1) \o SubSeq(queue, n + 1, Len(queue))
  /\ mutex' = Nobody /\ WorkGoes("worker", "run")
  /\ UNCHANGED <<started, signaled, ran, next>>

\* The function returns.
Return ==
  /\ workPc["worker"] = "run"
  /\ ran' = ran \o current /\ current' = <<>>
  /\ WorkGoes("worker", "main")
  /\ UNCHANGED <<mutex, queue, started, signaled, next>>

WorkInit ==
  /\ mutex = Nobody /\ queue = <<>> /\ started = FALSE /\ signaled = FALSE
  /\ workPc = [a \in Actors |-> IF a = "worker" THEN "unborn" ELSE "idle"]
  /\ current = <<>> /\ ran = <<>> /\ next = 1

Call(a) == (IF a = "worker" THEN StartedByWorker ELSE StartThread(a)) \/ Signal(a) \/ Emplace(a)
Worker == WorkerLocks \/ Wait \/ Wake \/ Take \/ Return
WorkNext == Worker \/ SpuriousWake \/ \E a \in Actors : Lock(a) \/ Call(a)

\* The threads are scheduled and functions return, after they have scheduled what
\* they had to; nobody has to call Schedule, and no wait has to end by itself.
WorkFairness ==
  /\ \A a \in Actors : WF_workVars(Call(a))
  /\ WF_workVars(WorkerLocks) /\ WF_workVars(Wake) /\ WF_workVars(Wait \/ Take \/ Return)
WorkSpec == WorkInit /\ [][WorkNext]_workVars /\ WorkFairness
-----------------------------------------------------------------------------
InCall == {"locked", "signal", "emplace"}
\* Type invariant: among the types, who has the mutex is between Lock and Unlock.
WorkTypeOK ==
  /\ \A a \in Actors : workPc[a] \in {"locked", "signal", "emplace", "check"} => mutex = a
  /\ mutex \in Actors \cup {Nobody} /\ started \in BOOLEAN /\ signaled \in BOOLEAN
  /\ workPc \in [Actors -> {"unborn", "idle", "main", "check", "wait", "run"} \cup InCall]
  /\ next \in 1..(MaxItems + 1) /\ queue \in Seq(1..MaxItems) /\ ran \in Seq(1..MaxItems)

\* No wake-up is lost: while items wait, the worker is on its way to them, or
\* is woken, or the caller that will wake it holds the mutex.
NotAsleep ==
  (queue # <<>> /\ workPc["worker"] = "wait") => signaled

\* What Schedule is for: items run one at a time in the order they were given, each
\* once, and all of them in the end, though nobody wakes the worker but for an
\* empty queue.
Abstract == INSTANCE WorkQueue
  WITH Items <- 1..MaxItems, waiting <- queue, running <- current, done <- ran
IsWorkQueue == Abstract!Spec
AllRun == \A i \in 1..MaxItems : (next > i) ~> (\E k \in DOMAIN ran : ran[k] = i)
=============================================================================
