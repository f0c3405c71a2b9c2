------------------------------- MODULE PosixAio ------------------------------
(***************************************************************************)
(* posix-aio-compat.c: the thread pool that performs QEMU's disk I/O.      *)
(*                                                                         *)
(* The owner is whichever thread holds QEMU's global mutex (the main loop  *)
(* or the vCPU thread): it submits and cancels requests, runs the bottom   *)
(* half that creates threads, and reaps finished requests in               *)
(* posix_aio_read, whose callbacks submit, cancel and wait in turn.  The   *)
(* workers run aio_thread.  The critical sections of `lock' are single     *)
(* steps; what the code does outside them is a step of its own.            *)
(***************************************************************************)
EXTENDS Integers, Sequences, FiniteSets

CONSTANTS
  Requests,     \* aiocb slots
  Threads,      \* identities the workers can have
  MaxThreads,   \* max_threads, set once by setAIOMaxThreads before QEMU runs
  PipeCap,      \* bytes the notification pipe holds
  Chunk,        \* sizeof(bytes) in posix_aio_read
  MaxNest       \* bound: callbacks nested inside callbacks

CONSTANT NoRequest   \* no aiocb

ASSUME PoolAssumption ==
  /\ NoRequest \notin Requests
  /\ MaxThreads \in Nat \ {0}
  /\ PipeCap \in Nat \ {0}
  /\ Chunk \in Nat \ {0}
  /\ MaxNest \in Nat \ {0}
  /\ IsFiniteSet(Threads)

VARIABLES
  request_list,     \* requests no worker has taken yet, oldest first
  first_aio,        \* every outstanding aiocb, newest first
  ret,              \* aiocb->ret
  active,           \* aiocb->active
  cur_threads, idle_threads, new_threads, pending_threads,
  bh_scheduled,     \* new_thread_bh->scheduled
  pipe,             \* bytes in the notification pipe
  pc,               \* where each worker is
  job,              \* the aiocb each worker holds
  at,               \* where the owner is
  arg,              \* the aiocb of the owner's current operation
  cursor,           \* position of posix_aio_read in first_aio
  callbacks,        \* the callbacks running, outermost first
  ready             \* the main loop's select saw rfd readable

lists == <<request_list, first_aio>>
acbs == <<ret, active>>
pool == <<cur_threads, idle_threads, new_threads, pending_threads>>
workers == <<pc, job>>
owner == <<at, arg, cursor, callbacks, ready>>
vars == <<lists, acbs, pool, bh_scheduled, pipe, workers, owner>>

Results == {"full", "short", "errno"}
Codes == {"0", "-EINVAL", "-errno"}
Rets == Results \cup {"-EINPROGRESS", "-ECANCELED", "freed"}

WorkerPlaces == {"none", "starting", "spawn", "create", "top", "waiting",
                 "woken", "timedout", "working", "notify"}
OwnerPlaces == {"run", "enqueue", "signal", "spawn", "create", "drain",
                "scan", "cancel", "spin", "remove"}

(* qemu_aio_release: what the memory of a released aiocb holds no longer   *)
(* matters until the next submission writes it.                            *)
Release(r) ==
  /\ ret' = [ret EXCEPT ![r] = "freed"]
  /\ active' = [active EXCEPT ![r] = FALSE]

Elems(s) == {s[i] : i \in 1..Len(s)}
Without(s, i) == [j \in 1..(Len(s) - 1) |-> IF j < i THEN s[j] ELSE s[j + 1]]
Position(s, x) == CHOOSE i \in 1..Len(s) : s[i] = x

Init ==
  /\ request_list = <<>> /\ first_aio = <<>>
  /\ ret = [r \in Requests |-> "freed"]
  /\ active = [r \in Requests |-> FALSE]
  /\ cur_threads = 0 /\ idle_threads = 0
  /\ new_threads = 0 /\ pending_threads = 0
  /\ bh_scheduled = FALSE /\ pipe = 0
  /\ pc = [t \in Threads |-> "none"]
  /\ job = [t \in Threads |-> NoRequest]
  /\ at = "run" /\ arg = NoRequest /\ cursor = 1
  /\ callbacks = <<>> /\ ready = FALSE

-----------------------------------------------------------------------------
(* do_spawn_thread: claim one of the threads owed, then create it.  It is  *)
(* run by the bottom half and by every thread that starts.                 *)

ClaimThread_Unchecked ==   \* fault: the early return is missing
  /\ new_threads' = new_threads - 1
  /\ pending_threads' = pending_threads + 1
  /\ UNCHANGED <<cur_threads, idle_threads>>

ClaimThread ==
  /\ new_threads > 0
  /\ new_threads' = new_threads - 1
  /\ pending_threads' = pending_threads + 1
  /\ UNCHANGED <<cur_threads, idle_threads>>

NoThreadOwed == new_threads = 0 /\ UNCHANGED pool

-----------------------------------------------------------------------------
(* The workers: aio_thread.                                                *)

WorkerStart_NoDecrement(t) ==   \* fault: pending_threads-- is missing
  /\ pc[t] = "starting"
  /\ pc' = [pc EXCEPT ![t] = "spawn"]
  /\ UNCHANGED <<lists, acbs, pool, bh_scheduled, pipe, job, owner>>

WorkerStart(t) ==
  /\ pc[t] = "starting"
  /\ pending_threads' = pending_threads - 1
  /\ pc' = [pc EXCEPT ![t] = "spawn"]
  /\ UNCHANGED <<lists, acbs, cur_threads, idle_threads, new_threads,
                 bh_scheduled, pipe, job, owner>>

WorkerSpawn_Skipped(t) ==   \* fault: a new thread does not spawn the next
  /\ pc[t] = "spawn"
  /\ pc' = [pc EXCEPT ![t] = "top"]
  /\ UNCHANGED <<lists, acbs, pool, bh_scheduled, pipe, job, owner>>

WorkerSpawn(t) ==
  /\ pc[t] = "spawn"
  /\ \/ ClaimThread /\ pc' = [pc EXCEPT ![t] = "create"]
     \/ NoThreadOwed /\ pc' = [pc EXCEPT ![t] = "top"]
  /\ UNCHANGED <<lists, acbs, bh_scheduled, pipe, job, owner>>

WorkerCreate(t) ==
  /\ pc[t] = "create"
  /\ \E u \in Threads :
       /\ pc[u] = "none"
       /\ pc' = [pc EXCEPT ![t] = "top", ![u] = "starting"]
  /\ UNCHANGED <<lists, acbs, pool, bh_scheduled, pipe, job, owner>>

(* What a worker that holds the lock and is not idle does with the queue:  *)
(* takes the oldest request, goes (back) to sleep, or leaves the pool.     *)
TakeRequest(t) ==
  /\ request_list # <<>>
  /\ LET r == Head(request_list) IN
       /\ active' = [active EXCEPT ![r] = TRUE]
       /\ job' = [job EXCEPT ![t] = r]
  /\ request_list' = Tail(request_list)
  /\ pc' = [pc EXCEPT ![t] = "working"]

Sleep(t) ==
  /\ request_list = <<>>
  /\ pc' = [pc EXCEPT ![t] = "waiting"]
  /\ UNCHANGED <<request_list, active, job>>

WorkerLook(t) ==
  /\ pc[t] = "top"
  /\ \/ TakeRequest(t) /\ UNCHANGED idle_threads
     \/ Sleep(t) /\ idle_threads' = idle_threads + 1
  /\ UNCHANGED <<first_aio, ret, cur_threads, new_threads, pending_threads,
                 bh_scheduled, pipe, owner>>

(* pthread_cond_timedwait returns: spuriously, or after ten seconds.  (For *)
(* the return that answers a signal see Signal.)                           *)
WorkerWake(t) ==
  /\ pc[t] = "waiting"
  /\ pc' \in {[pc EXCEPT ![t] = "woken"], [pc EXCEPT ![t] = "timedout"]}
  /\ UNCHANGED <<lists, acbs, pool, bh_scheduled, pipe, job, owner>>

WorkerAwake_NoRecheck(t) ==   \* fault: a timeout leaves without looking
  /\ pc[t] \in {"woken", "timedout"}
  /\ \/ /\ pc[t] = "woken"
        /\ TakeRequest(t)
        /\ idle_threads' = idle_threads - 1
        /\ UNCHANGED cur_threads
     \/ /\ pc[t] = "woken"
        /\ Sleep(t)
        /\ UNCHANGED <<cur_threads, idle_threads>>
     \/ /\ pc[t] = "timedout"
        /\ idle_threads' = idle_threads - 1
        /\ cur_threads' = cur_threads - 1
        /\ pc' = [pc EXCEPT ![t] = "none"]
        /\ UNCHANGED <<request_list, active, job>>
  /\ UNCHANGED <<first_aio, ret, new_threads, pending_threads, bh_scheduled,
                 pipe, owner>>

(* The woken thread has the lock again and looks at the queue before it    *)
(* looks at the reason it woke up for.                                     *)
WorkerAwake(t) ==
  /\ pc[t] \in {"woken", "timedout"}
  /\ \/ /\ TakeRequest(t)
        /\ idle_threads' = idle_threads - 1
        /\ UNCHANGED cur_threads
     \/ /\ pc[t] = "woken"
        /\ Sleep(t)
        /\ UNCHANGED <<cur_threads, idle_threads>>
     \/ /\ pc[t] = "timedout"
        /\ request_list = <<>>
        /\ idle_threads' = idle_threads - 1
        /\ cur_threads' = cur_threads - 1
        /\ pc' = [pc EXCEPT ![t] = "none"]
        /\ UNCHANGED <<request_list, active, job>>
  /\ UNCHANGED <<first_aio, ret, new_threads, pending_threads, bh_scheduled,
                 pipe, owner>>

(* The transfer is over and its result stored under the lock; from here    *)
(* on the worker does not touch the aiocb.                                 *)
WorkerFinish(t) ==
  /\ pc[t] = "working"
  /\ \E res \in Results : ret' = [ret EXCEPT ![job[t]] = res]
  /\ pc' = [pc EXCEPT ![t] = "notify"]
  /\ job' = [job EXCEPT ![t] = NoRequest]
  /\ UNCHANGED <<lists, active, pool, bh_scheduled, pipe, owner>>

(* posix_aio_notify_event: one byte, or EAGAIN when the pipe is full.      *)
WorkerNotify(t) ==
  /\ pc[t] = "notify"
  /\ pipe' = IF pipe < PipeCap THEN pipe + 1 ELSE pipe
  /\ pc' = [pc EXCEPT ![t] = "top"]
  /\ UNCHANGED <<lists, acbs, pool, bh_scheduled, job, owner>>

-----------------------------------------------------------------------------
(* The owner: submission.                                                  *)

Busy(r) == r \in Elems(first_aio) \/ \E i \in 1..Len(callbacks) : callbacks[i].acb = r

(* paio_submit, paio_ioctl up to the lock of qemu_paio_submit.             *)
Submit(r) ==
  /\ at = "run"
  /\ ~Busy(r)
  /\ first_aio' = <<r>> \o first_aio
  /\ ret' = [ret EXCEPT ![r] = "-EINPROGRESS"]
  /\ active' = [active EXCEPT ![r] = FALSE]
  /\ at' = "enqueue" /\ arg' = r
  /\ UNCHANGED <<request_list, pool, bh_scheduled, pipe, workers, cursor,
                 callbacks, ready>>

NeedThread == idle_threads = 0 /\ cur_threads < MaxThreads

(* The locked part of qemu_paio_submit, spawn_thread included.             *)
Enqueue ==
  /\ at = "enqueue"
  /\ IF NeedThread
       THEN /\ cur_threads' = cur_threads + 1
            /\ new_threads' = new_threads + 1
            /\ bh_scheduled' = (bh_scheduled \/ pending_threads = 0)
       ELSE UNCHANGED <<cur_threads, new_threads, bh_scheduled>>
  /\ request_list' = Append(request_list, arg)
  /\ at' = "signal" /\ arg' = NoRequest
  /\ UNCHANGED <<first_aio, acbs, idle_threads, pending_threads, pipe,
                 workers, cursor, callbacks, ready>>

Signal_Lost ==   \* fault: the condition is not signalled
  /\ at = "signal"
  /\ at' = "run"
  /\ UNCHANGED <<lists, acbs, pool, bh_scheduled, pipe, workers, arg, cursor,
                 callbacks, ready>>

(* pthread_cond_signal, after the unlock: wakes a waiter if there is one.  *)
Signal ==
  /\ at = "signal"
  /\ \/ \E t \in Threads : pc[t] = "waiting" /\ pc' = [pc EXCEPT ![t] = "woken"]
     \/ (\A t \in Threads : pc[t] # "waiting") /\ UNCHANGED pc
  /\ at' = "run"
  /\ UNCHANGED <<lists, acbs, pool, bh_scheduled, pipe, job, arg, cursor,
                 callbacks, ready>>

-----------------------------------------------------------------------------
(* The owner: the bottom half that creates threads (spawn_thread_bh_fn).   *)

RunSpawnBH ==
  /\ at = "run" /\ bh_scheduled
  /\ bh_scheduled' = FALSE
  /\ at' = "spawn"
  /\ UNCHANGED <<lists, acbs, pool, pipe, workers, arg, cursor, callbacks, ready>>

OwnerSpawn ==
  /\ at = "spawn"
  /\ \/ ClaimThread /\ at' = "create"
     \/ NoThreadOwed /\ at' = "run"
  /\ UNCHANGED <<lists, acbs, bh_scheduled, pipe, workers, arg, cursor,
                 callbacks, ready>>

OwnerCreate ==
  /\ at = "create"
  /\ \E u \in Threads : pc[u] = "none" /\ pc' = [pc EXCEPT ![u] = "starting"]
  /\ at' = "run"
  /\ UNCHANGED <<lists, acbs, pool, bh_scheduled, pipe, job, arg, cursor,
                 callbacks, ready>>

-----------------------------------------------------------------------------
(* The owner: reaping.                                                     *)

(* The main loop's select.                                                 *)
Select ==
  /\ at = "run" /\ callbacks = <<>>
  /\ pipe > 0 /\ ~ready
  /\ ready' = TRUE
  /\ UNCHANGED <<lists, acbs, pool, bh_scheduled, pipe, workers, at, arg,
                 cursor, callbacks>>

(* posix_aio_read is entered from the main loop's dispatch, or from a      *)
(* qemu_aio_wait that a synchronous request or a callback makes.           *)
StartRead ==
  /\ at = "run"
  /\ \/ ready /\ callbacks = <<>> /\ ready' = FALSE
     \/ pipe > 0 /\ first_aio # <<>> /\ UNCHANGED ready
  /\ Len(callbacks) < MaxNest
  /\ at' = "drain"
  /\ UNCHANGED <<lists, acbs, pool, bh_scheduled, pipe, workers, arg, cursor,
                 callbacks>>

Drain ==
  /\ at = "drain"
  /\ IF pipe >= Chunk
       THEN pipe' = pipe - Chunk /\ UNCHANGED <<at, cursor>>
       ELSE pipe' = 0 /\ at' = "scan" /\ cursor' = 1
  /\ UNCHANGED <<lists, acbs, pool, bh_scheduled, workers, arg, callbacks, ready>>

Code_ShortIsSuccess(res) ==   \* fault: a short transfer reported as done
  IF res = "errno" THEN "-errno" ELSE "0"

Code(res) == CASE res = "full" -> "0" [] res = "short" -> "-EINVAL"
               [] res = "errno" -> "-errno"

(* One aiocb of the scan: skipped while in progress, otherwise unlinked    *)
(* and called back.  The code also drops an aiocb it finds cancelled; that *)
(* branch is dead, for paio_cancel unlinks what it cancels before the      *)
(* owner does anything else.                                               *)
Scan ==
  /\ at = "scan" /\ cursor <= Len(first_aio)
  /\ LET r == first_aio[cursor] IN
       \/ /\ ret[r] = "-EINPROGRESS"
          /\ cursor' = cursor + 1
          /\ UNCHANGED <<first_aio, acbs, at, callbacks>>
       \/ /\ ret[r] \in Results
          /\ first_aio' = Without(first_aio, cursor)
          /\ callbacks' = Append(callbacks, [acb |-> r, code |-> Code(ret[r])])
          /\ at' = "run" /\ cursor' = 1
          /\ UNCHANGED acbs
  /\ UNCHANGED <<request_list, pool, bh_scheduled, pipe, workers, arg, ready>>

EndScan ==
  /\ at = "scan" /\ cursor > Len(first_aio)
  /\ at' = "run" /\ cursor' = 1
  /\ UNCHANGED <<lists, acbs, pool, bh_scheduled, pipe, workers, arg,
                 callbacks, ready>>

CallbackReturn_NoRescan ==   \* fault: one completion per notification
  /\ at = "run" /\ callbacks # <<>>
  /\ Release(callbacks[Len(callbacks)].acb)
  /\ callbacks' = SubSeq(callbacks, 1, Len(callbacks) - 1)
  /\ UNCHANGED <<lists, pool, bh_scheduled, pipe, workers, at, cursor, arg,
                 ready>>

(* The callback returns: release its aiocb and scan again from the head.   *)
CallbackReturn ==
  /\ at = "run" /\ callbacks # <<>>
  /\ Release(callbacks[Len(callbacks)].acb)
  /\ callbacks' = SubSeq(callbacks, 1, Len(callbacks) - 1)
  /\ at' = "scan" /\ cursor' = 1
  /\ UNCHANGED <<lists, pool, bh_scheduled, pipe, workers, arg, ready>>

-----------------------------------------------------------------------------
(* The owner: paio_cancel.  A device cancels only a request whose callback *)
(* has not begun.                                                          *)

Cancel(r) ==
  /\ at = "run"
  /\ r \in Elems(first_aio)
  /\ at' = "cancel" /\ arg' = r
  /\ UNCHANGED <<lists, acbs, pool, bh_scheduled, pipe, workers, cursor,
                 callbacks, ready>>

CancelLocked_NoWait ==   \* fault: does not wait for a transfer under way
  /\ at = "cancel"
  /\ IF ~active[arg]
       THEN /\ request_list' = Without(request_list, Position(request_list, arg))
            /\ ret' = [ret EXCEPT ![arg] = "-ECANCELED"]
       ELSE UNCHANGED <<request_list, ret>>
  /\ at' = "remove"
  /\ UNCHANGED <<first_aio, active, pool, bh_scheduled, pipe, workers, arg,
                 cursor, callbacks, ready>>

CancelLocked ==
  /\ at = "cancel"
  /\ IF ~active[arg]
       THEN /\ request_list' = Without(request_list, Position(request_list, arg))
            /\ ret' = [ret EXCEPT ![arg] = "-ECANCELED"]
            /\ at' = "remove"
       ELSE /\ at' = IF ret[arg] = "-EINPROGRESS" THEN "spin" ELSE "remove"
            /\ UNCHANGED <<request_list, ret>>
  /\ UNCHANGED <<first_aio, active, pool, bh_scheduled, pipe, workers, arg,
                 cursor, callbacks, ready>>

CancelSpin ==
  /\ at = "spin" /\ ret[arg] # "-EINPROGRESS"
  /\ at' = "remove"
  /\ UNCHANGED <<lists, acbs, pool, bh_scheduled, pipe, workers, arg, cursor,
                 callbacks, ready>>

(* paio_remove.                                                            *)
Remove ==
  /\ at = "remove"
  /\ first_aio' = Without(first_aio, Position(first_aio, arg))
  /\ Release(arg)
  /\ at' = "run" /\ arg' = NoRequest
  /\ UNCHANGED <<request_list, pool, bh_scheduled, pipe, workers,
                 cursor, callbacks, ready>>

-----------------------------------------------------------------------------
Worker(t) ==
  \/ WorkerStart(t) \/ WorkerSpawn(t) \/ WorkerCreate(t) \/ WorkerLook(t)
  \/ WorkerAwake(t) \/ WorkerFinish(t) \/ WorkerNotify(t)

(* Steps the owner is committed to once begun.                             *)
OwnerContinues ==
  \/ Enqueue \/ Signal \/ OwnerSpawn \/ OwnerCreate \/ Drain \/ Scan
  \/ EndScan \/ CancelLocked \/ CancelSpin \/ Remove

Next ==
  \/ \E t \in Threads : Worker(t) \/ WorkerWake(t)
  \/ OwnerContinues
  \/ \E r \in Requests : Submit(r) \/ Cancel(r)
  \/ RunSpawnBH \/ Select \/ StartRead \/ CallbackReturn

Spec == Init /\ [][Next]_vars

(* Threads and the host make progress; the main loop serves its bottom     *)
(* halves and readable descriptors again and again whatever else it does;  *)
(* callbacks return.                                                       *)
Fairness ==
  /\ \A t \in Threads : WF_vars(Worker(t))
  /\ WF_vars(OwnerContinues)
  /\ SF_vars(RunSpawnBH) /\ SF_vars(Select) /\ SF_vars(StartRead)
  /\ \A d \in 1..MaxNest : SF_vars(CallbackReturn /\ Len(callbacks) = d)

FairSpec == Spec /\ Fairness
-----------------------------------------------------------------------------
(* Properties.                                                             *)

Count(places) == Cardinality({t \in Threads : pc[t] \in places})
InPool == WorkerPlaces \ {"none", "starting"}
Claimed == {"create", "starting"}
Idle == {"waiting", "woken", "timedout"}

(* Every variable has its type, and an operation on an aiocb has one.      *)
TypeOK ==
  /\ request_list \in Seq(Requests) /\ first_aio \in Seq(Requests)
  /\ ret \in [Requests -> Rets] /\ active \in [Requests -> BOOLEAN]
  /\ cur_threads \in Nat /\ idle_threads \in Nat
  /\ new_threads \in Nat /\ pending_threads \in Nat
  /\ bh_scheduled \in BOOLEAN /\ pipe \in 0..PipeCap
  /\ pc \in [Threads -> WorkerPlaces]
  /\ job \in [Threads -> Requests \cup {NoRequest}]
  /\ at \in OwnerPlaces /\ arg \in Requests \cup {NoRequest}
  /\ at \in {"enqueue", "cancel", "spin", "remove"} => arg \in Requests
  /\ cursor \in Nat \ {0}
  /\ callbacks \in Seq([acb : Requests, code : Codes])
  /\ ready \in BOOLEAN

(* The four counters the pool decides by agree with the threads there are. *)
PendingExact ==
  pending_threads = Count(Claimed)
                      + IF at = "create" THEN 1 ELSE 0
IdleExact == idle_threads = Count(Idle)
CurExact == cur_threads = new_threads + pending_threads + Count(InPool)
CountersExact == PendingExact /\ IdleExact /\ CurExact

(* Never more threads than max_threads: one, on the devices for which Limbo*)
(* asks for a single one.                                                  *)
PoolWithinLimit ==
  /\ cur_threads <= MaxThreads
  /\ Count(WorkerPlaces \ {"none"}) <= MaxThreads

(* A thread that is owed will be created: the bottom half is scheduled, or *)
(* somebody is on the way to do_spawn_thread.                              *)
NoLostSpawn ==
  new_threads > 0 =>
    \/ bh_scheduled \/ at = "spawn" \/ pending_threads > 0
    \/ \E t \in Threads : pc[t] = "spawn"

(* A queued request is never left to workers that are all asleep: one will *)
(* look at the queue, or the owner is about to signal one.                 *)
QueueWatched ==
  request_list # <<>> =>
    \/ new_threads + pending_threads > 0
    \/ \E t \in Threads : pc[t] \in InPool \ {"waiting"}
    \/ at = "signal" /\ \E t \in Threads : pc[t] = "waiting"

(* A finished request will be found: its byte is in the pipe or about to be*)
(* written, or posix_aio_read still has it ahead.                          *)
NoLostCompletion ==
  \A i \in 1..Len(first_aio) :
    ret[first_aio[i]] \in Results =>
      \/ pipe > 0 \/ \E t \in Threads : pc[t] = "notify"
      \/ at = "drain" \/ (at = "scan" /\ cursor <= i)
      \/ callbacks # <<>>
      \/ at \in {"cancel", "spin", "remove"} /\ arg = first_aio[i]

(* A worker only touches an aiocb that is still allocated, and no two work *)
(* on the same one.                                                        *)
WorkersOwnTheirRequest ==
  \A t \in Threads : pc[t] = "working" =>
    /\ job[t] \in Elems(first_aio) /\ ret[job[t]] = "-EINPROGRESS"
    /\ job[t] \notin Elems(request_list)
    /\ \A u \in Threads : pc[u] = "working" /\ job[u] = job[t] => u = t

(* The block layer sees AsyncIO.                                           *)
Calling(r) == {i \in 1..Len(callbacks) : callbacks[i].acb = r}
phase == [r \in Requests |->
  IF Calling(r) # {} THEN "calling"
  ELSE CASE ret[r] \in Results -> "performed"
         [] ret[r] = "-EINPROGRESS" -> IF active[r] THEN "running" ELSE "queued"
         [] OTHER -> "free"]
result == [r \in Requests |->
  IF Calling(r) # {} THEN callbacks[CHOOSE i \in Calling(r) : TRUE].code
  ELSE IF ret[r] \in Results THEN ret[r] ELSE "none"]
Abs == INSTANCE AsyncIO WITH Full <- "full", Success <- "0"

(* Each request is performed at most once, called back once, after its     *)
(* transfer and with its result, and never after it was cancelled.         *)
Implements == Abs!Spec

(* Every submitted request is called back or cancelled in the end.         *)
EveryRequestEnds == Abs!EveryRequestEnds
=============================================================================
