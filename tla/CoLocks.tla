------------------------------- MODULE CoLocks ------------------------------
(***************************************************************************)
(* qemu-coroutine.c and qemu-coroutine-lock.c: a mutex and a read/write    *)
(* lock for coroutines.                                                    *)
(*                                                                         *)
(* Coroutines are entered and yield; no two run at once, so a section      *)
(* without a yield is one step.  A waiter is not handed the lock: unlock   *)
(* moves it to a queue of woken coroutines, a bottom half enters it later, *)
(* and until then anybody may take the lock again.                         *)
(***************************************************************************)
EXTENDS Integers, Sequences, FiniteSets

CONSTANTS
  Cos,          \* Coroutine structures, reused once terminated
  Bh,           \* qemu_co_queue_next_bh, where `stack' shows it
  MaxCalls,     \* bound: how often a coroutine takes a lock
  MaxDepth      \* bound: coroutines and bottom halves on the stack

ASSUME CoAssumption ==
  IsFiniteSet(Cos) /\ Bh \notin Cos /\ MaxCalls \in Nat /\ MaxDepth \in Nat

VARIABLES
  locked,               \* CoMutex
  reader, writer,       \* CoRwlock
  queue,                \* the waiters of each lock
  unlock_bh_queue,      \* the coroutines that were woken
  scheduled,            \* unlock_bh is scheduled
  stack,                \* who entered whom, the running coroutine last
  want, held,           \* per coroutine: the call it is in, what it holds
  in_io,                \* the coroutines that yielded for I/O
  calls                 \* per coroutine: how many locks it may still take

locks == <<locked, reader, writer>>
queues == <<queue, unlock_bh_queue, scheduled>>
vars == <<locks, queues, stack, want, held, in_io, calls>>

Modes == {"mutex", "read", "write"}
LockOf(m) == IF m = "mutex" THEN "mutex" ELSE "rwlock"

Elems(s) == {s[i] : i \in 1..Len(s)}

Init ==
  /\ locked = FALSE /\ reader = 0 /\ writer = FALSE
  /\ queue = [l \in {"mutex", "rwlock"} |-> <<>>]
  /\ unlock_bh_queue = <<>> /\ scheduled = FALSE
  /\ stack = <<>> /\ in_io = {}
  /\ want = [c \in Cos |-> "none"] /\ held = [c \in Cos |-> "none"]
  /\ calls = [c \in Cos |-> MaxCalls]

-----------------------------------------------------------------------------
(* Entering and yielding.                                                  *)

Running(c) == stack # <<>> /\ stack[Len(stack)] = c

Enter(c) == stack' = Append(stack, c)

Return == stack' = SubSeq(stack, 1, Len(stack) - 1)

Terminated(c) ==
  /\ want[c] = "none" /\ held[c] = "none"
  /\ c \notin in_io /\ c \notin Elems(stack)

(* The main program, or a coroutine outside the calls of this module, may  *)
(* enter others: it submits requests, or waits for AIO and so runs         *)
(* completions and bottom halves.                                          *)
UserCode ==
  /\ Len(stack) < MaxDepth
  /\ stack = <<>> \/ \E c \in Cos : Running(c) /\ want[c] = "none"

Start(c) ==   \* qemu_coroutine_create and the first qemu_coroutine_enter
  /\ Terminated(c) /\ UserCode /\ Enter(c)
  /\ UNCHANGED <<locks, queues, want, held, in_io, calls>>

Terminate(c) ==
  /\ Running(c) /\ want[c] = "none" /\ held[c] = "none" /\ Return
  /\ UNCHANGED <<locks, queues, want, held, in_io, calls>>

(* It submits I/O and yields, maybe with a lock; the completion enters it. *)
YieldForIO(c) ==
  /\ Running(c) /\ want[c] = "none"
  /\ in_io' = in_io \cup {c} /\ Return
  /\ UNCHANGED <<locks, queues, want, held, calls>>

CompleteIO(c) ==
  /\ c \in in_io /\ in_io' = in_io \ {c}
  /\ UserCode /\ Enter(c)
  /\ UNCHANGED <<locks, queues, want, held, calls>>

-----------------------------------------------------------------------------
(* The wait queues.                                                        *)

Wait(c, l) ==   \* qemu_co_queue_wait
  /\ queue' = [queue EXCEPT ![l] = Append(@, c)] /\ Return
  /\ UNCHANGED <<unlock_bh_queue, scheduled>>

WakeFirst_Dropped(l) ==   \* fault: the bottom half is not scheduled
  IF queue[l] = <<>> THEN UNCHANGED queues
  ELSE /\ queue' = [queue EXCEPT ![l] = Tail(@)]
       /\ unlock_bh_queue' = Append(unlock_bh_queue, Head(queue[l]))
       /\ UNCHANGED scheduled

WakeFirst(l) ==   \* qemu_co_queue_next
  IF queue[l] = <<>> THEN UNCHANGED queues
  ELSE /\ queue' = [queue EXCEPT ![l] = Tail(@)]
       /\ unlock_bh_queue' = Append(unlock_bh_queue, Head(queue[l]))
       /\ scheduled' = TRUE

WakeAll(l) ==   \* qemu_co_queue_restart_all
  IF queue[l] = <<>> THEN UNCHANGED queues
  ELSE /\ queue' = [queue EXCEPT ![l] = <<>>]
       /\ unlock_bh_queue' = unlock_bh_queue \o queue[l]
       /\ scheduled' = TRUE

BhStarts ==   \* qemu_bh_poll calls qemu_co_queue_next_bh
  /\ scheduled /\ scheduled' = FALSE
  /\ UserCode /\ Enter(Bh)
  /\ UNCHANGED <<locks, queue, unlock_bh_queue, want, held, in_io, calls>>

BhEnters_Kept ==   \* fault: the coroutine is not removed from the queue
  /\ Running(Bh)
  /\ IF unlock_bh_queue = <<>> THEN Return ELSE Enter(Head(unlock_bh_queue))
  /\ UNCHANGED <<locks, queues, want, held, in_io, calls>>

BhEnters ==   \* its loop: enter the first, or return
  /\ Running(Bh)
  /\ IF unlock_bh_queue = <<>>
     THEN Return /\ UNCHANGED unlock_bh_queue
     ELSE /\ Enter(Head(unlock_bh_queue))
          /\ unlock_bh_queue' = Tail(unlock_bh_queue)
  /\ UNCHANGED <<locks, queue, scheduled, want, held, in_io, calls>>

-----------------------------------------------------------------------------
(* The locks.                                                              *)

Free(m) ==
  CASE m = "mutex" -> ~locked
    [] m = "read" -> ~writer
    [] m = "write" -> ~writer /\ reader = 0

Take(c, m) ==
  /\ locked' = (locked \/ m = "mutex")
  /\ reader' = IF m = "read" THEN reader + 1 ELSE reader
  /\ writer' = (writer \/ m = "write")
  /\ held' = [held EXCEPT ![c] = m] /\ want' = [want EXCEPT ![c] = "none"]
  /\ UNCHANGED <<queues, stack>>

(* A coroutine holds one lock at a time; it enters the call, or comes back *)
(* from the wait inside it.                                                *)
InCall(c, m) ==
  /\ Running(c)
  /\ \/ want[c] = m /\ UNCHANGED calls
     \/ /\ want[c] = "none" /\ held[c] = "none" /\ calls[c] > 0
        /\ calls' = [calls EXCEPT ![c] = @ - 1]

Lock_Handed(c, m) ==   \* fault: a woken waiter does not look again
  /\ InCall(c, m) /\ UNCHANGED in_io
  /\ IF Free(m) \/ want[c] = m THEN Take(c, m)
     ELSE /\ Wait(c, LockOf(m)) /\ want' = [want EXCEPT ![c] = m]
          /\ UNCHANGED <<locks, held>>

Lock(c, m) ==   \* ..._mutex_lock, _rdlock, _wrlock, from test to test
  /\ InCall(c, m) /\ UNCHANGED in_io
  /\ IF Free(m) THEN Take(c, m)
     ELSE /\ Wait(c, LockOf(m)) /\ want' = [want EXCEPT ![c] = m]
          /\ UNCHANGED <<locks, held>>

Unlocks(c, m) ==
  /\ Running(c) /\ held[c] = m /\ want[c] = "none"
  /\ held' = [held EXCEPT ![c] = "none"]
  /\ UNCHANGED <<stack, want, in_io, calls>>

MutexUnlock(c) ==
  /\ Unlocks(c, "mutex") /\ locked' = FALSE /\ UNCHANGED <<reader, writer>>
  /\ WakeFirst("mutex")

WriteUnlock_One(c) ==   \* fault: wakes a single waiter, maybe a reader
  /\ Unlocks(c, "write") /\ writer' = FALSE /\ UNCHANGED <<locked, reader>>
  /\ WakeFirst("rwlock")

WriteUnlock_AsReader(c) ==   \* fault: takes the other branch
  /\ Unlocks(c, "write") /\ reader' = reader - 1
  /\ UNCHANGED <<locked, writer, queues>>

WriteUnlock(c) ==
  /\ Unlocks(c, "write") /\ writer' = FALSE /\ UNCHANGED <<locked, reader>>
  /\ WakeAll("rwlock")

ReadUnlock_Silent(c) ==   \* fault: the last reader wakes nobody
  /\ Unlocks(c, "read") /\ reader' = reader - 1
  /\ UNCHANGED <<locked, writer, queues>>

ReadUnlock(c) ==
  /\ Unlocks(c, "read") /\ reader' = reader - 1
  /\ UNCHANGED <<locked, writer>>
  /\ IF reader' = 0 THEN WakeFirst("rwlock") ELSE UNCHANGED queues

-----------------------------------------------------------------------------
Runs(c) ==   \* a running coroutine goes on
  \/ \E m \in Modes : Lock(c, m)
  \/ MutexUnlock(c) \/ WriteUnlock(c) \/ ReadUnlock(c)
  \/ YieldForIO(c) \/ Terminate(c)

Next ==
  \/ \E c \in Cos : Start(c) \/ Runs(c) \/ CompleteIO(c)
  \/ BhStarts \/ BhEnters

Spec == Init /\ [][Next]_vars

(* Coroutines do not run for ever: they give locks back, and yield.  I/O   *)
(* completes and the main loop polls its bottom halves.                    *)
Unlock(c) == MutexUnlock(c) \/ WriteUnlock(c) \/ ReadUnlock(c)
Fairness ==
  /\ SF_vars(BhStarts) /\ WF_vars(BhEnters)
  /\ \A c \in Cos :
       /\ SF_vars(CompleteIO(c)) /\ SF_vars(Unlock(c))
       /\ SF_vars(YieldForIO(c) \/ Terminate(c))
       /\ WF_vars(\E m \in Modes : want[c] = m /\ Lock(c, m))

FairSpec == Spec /\ Fairness

-----------------------------------------------------------------------------
(* Properties.                                                             *)

Holders(m) == {c \in Cos : held[c] = m}

(* Every variable keeps its type; a coroutine in a call holds nothing.     *)
TypeOK ==
  /\ locked \in BOOLEAN /\ reader \in Nat /\ writer \in BOOLEAN
  /\ queue \in [{"mutex", "rwlock"} -> Seq(Cos)]
  /\ unlock_bh_queue \in Seq(Cos) /\ scheduled \in BOOLEAN
  /\ stack \in Seq(Cos \cup {Bh})
  /\ want \in [Cos -> Modes \cup {"none"}]
  /\ held \in [Cos -> Modes \cup {"none"}]
  /\ in_io \in SUBSET Cos /\ calls \in [Cos -> Nat]
  /\ \A c \in Cos : want[c] # "none" => held[c] = "none"

(* The fields of a lock agree with its holders: the mutex has one owner,   *)
(* the read/write lock one writer or any number of readers, even though a  *)
(* waiter and a newcomer race for a lock that was given back.              *)
Exclusion ==
  /\ locked <=> Holders("mutex") # {}
  /\ \A c, d \in Holders("mutex") : c = d
  /\ reader = Cardinality(Holders("read"))
  /\ writer <=> Holders("write") # {}
  /\ \A c, d \in Holders("write") : c = d
  /\ writer => reader = 0

(* No lost wake-up: a lock that coroutines queue for is held, or one of its*)
(* waiters is among the woken, or was entered, and will look again.        *)
Woken(l) ==
  {c \in Elems(unlock_bh_queue) \cup (Elems(stack) \ {Bh}) :
     want[c] # "none" /\ LockOf(want[c]) = l}

NoLostWakeup ==
  /\ queue["mutex"] # <<>> => locked \/ Woken("mutex") # {}
  /\ queue["rwlock"] # <<>> => writer \/ reader > 0 \/ Woken("rwlock") # {}

(* "Wakeup only one waiting writer" when the last reader leaves: no reader *)
(* can be in the queue then, readers only wait while a writer holds.       *)
ReadersWaitForAWriter ==
  \A c \in Elems(queue["rwlock"]) : want[c] = "read" => writer

(* A woken coroutine will be entered: the bottom half is scheduled, or is  *)
(* in its loop.                                                            *)
WokenEntered == unlock_bh_queue # <<>> => scheduled \/ Bh \in Elems(stack)

(* Whoever waits is in one queue, once, and not running; nobody else is in *)
(* one: "Co-routine re-entered recursively" is unreachable.                *)
Waiting == queue["mutex"] \o queue["rwlock"] \o unlock_bh_queue
NeverReentered ==
  /\ \A i, j \in 1..Len(Waiting) : Waiting[i] = Waiting[j] => i = j
  /\ \A c \in Elems(Waiting) : want[c] # "none" /\ c \notin Elems(stack) \cup in_io
  /\ \A i, j \in 1..Len(stack) : stack[i] = stack[j] /\ stack[i] # Bh => i = j
  /\ Elems(stack) \cap in_io = {}

(* A coroutine that waits for a lock gets it in the end, newcomers or not, *)
(* as long as there are finitely many.                                     *)
EveryLockTaken == \A c \in Cos : want[c] # "none" ~> want[c] = "none"
=============================================================================
