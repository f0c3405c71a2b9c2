------------------------------- MODULE AioLoop ------------------------------
(***************************************************************************)
(* async.c and aio.c: bottom halves, and the synchronous wait for AIO that *)
(* block drivers fall back to.                                             *)
(*                                                                         *)
(* Everything here runs in the thread that holds QEMU's global mutex.      *)
(* What makes it hard is reentrancy: qemu_bh_poll and qemu_aio_wait call   *)
(* back, and a callback may create, schedule, cancel and delete bottom     *)
(* halves, add and remove handlers, and call qemu_aio_wait in turn.  The   *)
(* calls in progress are the frames of `stack', innermost last.            *)
(***************************************************************************)
EXTENDS Integers, Sequences, FiniteSets, SequencesExt

CONSTANTS
  BHs,          \* QEMUBH structures, reused once freed
  Nodes,        \* AioHandler structures, reused once freed
  Fds,          \* file descriptors
  None,         \* the null pointer
  Ops,          \* what callers and callbacks do, a subset of AllOps
  MaxDepth      \* bound: frames

AllOps == {"new", "schedule", "schedule_idle", "cancel", "delete",
           "set", "unset", "submit", "wait"}

ASSUME LoopAssumption ==
  /\ None \notin BHs \cup Nodes \cup Fds
  /\ Ops \subseteq AllOps
  /\ MaxDepth \in Nat \ {0}

VARIABLES
  first_bh,             \* the list of bottom halves, newest first
  scheduled, idle, deleted,
  nesting,              \* of qemu_bh_poll
  aio_handlers,         \* the list of handlers, newest first
  fd_of, gone,          \* node->fd, node->deleted
  walking_handlers,
  inflight,             \* the requests io_flush counts for a descriptor
  readable,             \* the descriptors an answer has arrived on
  stack

bhs == <<first_bh, scheduled, idle, deleted, nesting>>
nodes == <<aio_handlers, fd_of, gone, walking_handlers>>
io == <<inflight, readable>>
vars == <<bhs, nodes, io, stack>>

Init ==
  /\ first_bh = <<>> /\ nesting = 0
  /\ scheduled = [b \in BHs |-> FALSE] /\ idle = [b \in BHs |-> FALSE]
  /\ deleted = [b \in BHs |-> FALSE]
  /\ aio_handlers = <<>> /\ walking_handlers = FALSE
  /\ fd_of = [n \in Nodes |-> None] /\ gone = [n \in Nodes |-> FALSE]
  /\ inflight = {} /\ readable = {}
  /\ stack = <<>>

-----------------------------------------------------------------------------
(* Lists and frames.                                                       *)

First(list) == IF list = <<>> THEN None ELSE list[1]

After(list, x) ==   \* what x->next points to
  LET i == CHOOSE i \in DOMAIN list : list[i] = x
  IN IF i < Len(list) THEN list[i + 1] ELSE None

(* What is left of a list, in its order: the i-th element that is kept     *)
(* becomes the Rank(kept, i)-th.                                           *)
Rank(kept, i) == Cardinality({k \in kept : k <= i})

Live(list, freed) ==
  LET kept == {i \in DOMAIN list : list[i] \notin freed}
  IN [j \in 1..Cardinality(kept) |-> list[CHOOSE i \in kept : Rank(kept, i) = j]]

(* A frame: the function and where it is; the element it stands at; whether*)
(* a poll made progress, and whether it ran an idle bottom half; the       *)
(* descriptors select found readable.                                      *)
Frame(fn, place, at) ==
  [fn |-> fn, place |-> place, at |-> at, ret |-> FALSE, idled |-> FALSE,
   rdfds |-> {}]

Idle == Frame("main", "idle", None)   \* the main loop, outside its calls

Top == IF stack = <<>> THEN Idle ELSE Last(stack)
AtPlace(fn, place) == Top.fn = fn /\ Top.place = place
SetTop(frame) == stack' = Append(Front(stack), frame)

(* User code runs: the caller of everything, or a callback.                *)
UserCode == Top.place \in {"idle", "callback"}

PushPoll(below) ==   \* qemu_bh_poll, up to its first bottom half
  /\ stack' = Append(below, Frame("poll", "walk", First(first_bh)))
  /\ nesting' = nesting + 1

-----------------------------------------------------------------------------
(* Bottom halves.                                                          *)

Allocated == {b \in ToSet(first_bh) : ~deleted[b]}

BhNew(b) ==
  /\ "new" \in Ops /\ b \notin ToSet(first_bh)
  /\ first_bh' = Cons(b, first_bh)
  /\ scheduled' = [scheduled EXCEPT ![b] = FALSE]
  /\ idle' = [idle EXCEPT ![b] = FALSE]
  /\ deleted' = [deleted EXCEPT ![b] = FALSE]

BhSchedule(b) ==
  /\ "schedule" \in Ops /\ b \in Allocated /\ ~scheduled[b]
  /\ scheduled' = [scheduled EXCEPT ![b] = TRUE]
  /\ idle' = [idle EXCEPT ![b] = FALSE]
  /\ UNCHANGED <<first_bh, deleted>>

BhScheduleIdle(b) ==
  /\ "schedule_idle" \in Ops /\ b \in Allocated /\ ~scheduled[b]
  /\ scheduled' = [scheduled EXCEPT ![b] = TRUE]
  /\ idle' = [idle EXCEPT ![b] = TRUE]
  /\ UNCHANGED <<first_bh, deleted>>

BhCancel(b) ==
  /\ "cancel" \in Ops /\ b \in Allocated
  /\ scheduled' = [scheduled EXCEPT ![b] = FALSE]
  /\ UNCHANGED <<first_bh, idle, deleted>>

BhDelete(b) ==
  /\ "delete" \in Ops /\ b \in Allocated
  /\ scheduled' = [scheduled EXCEPT ![b] = FALSE]
  /\ deleted' = [deleted EXCEPT ![b] = TRUE]
  /\ UNCHANGED <<first_bh, idle>>

BhOp ==
  /\ UserCode
  /\ \E b \in BHs : \/ BhNew(b) \/ BhSchedule(b) \/ BhScheduleIdle(b)
                    \/ BhCancel(b) \/ BhDelete(b)
  /\ UNCHANGED <<nesting, nodes, io, stack>>

(* The loop of qemu_bh_poll.  next is read before the callback runs.       *)
PollStep ==
  /\ AtPlace("poll", "walk") /\ Top.at # None
  /\ LET b == Top.at
         next == After(first_bh, b)
     IN \/ /\ ~deleted[b] /\ scheduled[b]
           /\ scheduled' = [scheduled EXCEPT ![b] = FALSE]
           /\ idle' = [idle EXCEPT ![b] = FALSE]
           /\ SetTop([Top EXCEPT !.place = "callback", !.at = next,
                                 !.ret = @ \/ ~idle[b],
                                 !.idled = @ \/ idle[b]])
        \/ /\ deleted[b] \/ ~scheduled[b]
           /\ SetTop([Top EXCEPT !.at = next]) /\ UNCHANGED <<scheduled, idle>>
  /\ UNCHANGED <<first_bh, deleted, nesting, nodes, io>>

BhReturns_EndsPoll ==   \* fault: the poll ends after one callback
  /\ AtPlace("poll", "callback")
  /\ SetTop([Top EXCEPT !.place = "walk", !.at = None])
  /\ UNCHANGED <<bhs, nodes, io>>

BhReturns ==   \* the callback returns to the loop
  /\ AtPlace("poll", "callback")
  /\ SetTop([Top EXCEPT !.place = "walk"])
  /\ UNCHANGED <<bhs, nodes, io>>

(* The end of qemu_bh_poll, and of a qemu_aio_wait it made progress for.   *)
FreeDeleted_Nested ==   \* fault: frees although an outer poll is walking
  {b \in ToSet(first_bh) : deleted[b]}

FreeDeleted ==
  IF nesting = 1 THEN {b \in ToSet(first_bh) : deleted[b]} ELSE {}

Caller == Front(stack)
PolledForWait ==
  IF Caller = <<>> THEN FALSE
  ELSE Last(Caller).fn = "wait" /\ Last(Caller).place = "poll"
WaitGoesOn == [Frame("wait", "fill", None) EXCEPT !.idled = Top.idled]

PollReturns_StillNested ==   \* fault: nesting is not decremented
  /\ AtPlace("poll", "walk") /\ Top.at = None
  /\ stack' = IF ~PolledForWait THEN Caller
              ELSE IF Top.ret THEN Front(Caller)
              ELSE Append(Front(Caller), WaitGoesOn)
  /\ UNCHANGED <<bhs, nodes, io>>

PollReturns_RetIgnored ==   \* fault: waits although a bottom half ran
  /\ AtPlace("poll", "walk") /\ Top.at = None
  /\ nesting' = nesting - 1
  /\ first_bh' = Live(first_bh, FreeDeleted)
  /\ stack' = IF ~PolledForWait THEN Caller
              ELSE Append(Front(Caller), WaitGoesOn)
  /\ UNCHANGED <<scheduled, idle, deleted, nodes, io>>

PollReturns ==
  /\ AtPlace("poll", "walk") /\ Top.at = None
  /\ nesting' = nesting - 1
  /\ first_bh' = Live(first_bh, FreeDeleted)
  /\ stack' = IF ~PolledForWait THEN Caller
              ELSE IF Top.ret THEN Front(Caller)
              ELSE Append(Front(Caller), WaitGoesOn)
  /\ UNCHANGED <<scheduled, idle, deleted, nodes, io>>

-----------------------------------------------------------------------------
(* Handlers: qemu_aio_set_fd_handler.                                      *)

FreeNode(n) ==
  /\ aio_handlers' = Live(aio_handlers, {n})
  /\ fd_of' = [fd_of EXCEPT ![n] = None]

Handling(fd) == {n \in ToSet(aio_handlers) : fd_of[n] = fd /\ ~gone[n]}

SetHandler(fd) ==
  /\ "set" \in Ops /\ Handling(fd) = {}
  /\ \E n \in Nodes \ ToSet(aio_handlers) :
       /\ aio_handlers' = Cons(n, aio_handlers)
       /\ fd_of' = [fd_of EXCEPT ![n] = fd]
  /\ UNCHANGED <<gone, io>>

UnsetHandler(fd) ==   \* a driver that goes away; it abandons its requests
  /\ "unset" \in Ops
  /\ \E n \in Handling(fd) :
       IF walking_handlers
       THEN gone' = [gone EXCEPT ![n] = TRUE] /\ UNCHANGED <<aio_handlers, fd_of>>
       ELSE FreeNode(n) /\ UNCHANGED gone
  /\ inflight' = inflight \ {fd} /\ readable' = readable \ {fd}

Submit(fd) ==   \* a driver sends a request over a descriptor it handles
  /\ "submit" \in Ops /\ Handling(fd) # {}
  /\ inflight' = inflight \cup {fd}
  /\ UNCHANGED <<readable, aio_handlers, fd_of, gone>>

HandlerOp ==
  /\ UserCode
  /\ \E fd \in Fds : SetHandler(fd) \/ UnsetHandler(fd) \/ Submit(fd)
  /\ UNCHANGED <<bhs, walking_handlers, stack>>

Answer ==   \* the other end answers
  /\ \E fd \in inflight \ readable : readable' = readable \cup {fd}
  /\ UNCHANGED <<bhs, nodes, inflight, stack>>

-----------------------------------------------------------------------------
(* The callers: the main loop polls; anyone waits.                         *)

MainPoll ==   \* main_loop_wait
  /\ stack = <<>> /\ PushPoll(<<>>)
  /\ UNCHANGED <<first_bh, scheduled, idle, deleted, nodes, io>>

(* Anyone but an io_read callback: those resume coroutines, which yield.   *)
AioWait ==
  /\ "wait" \in Ops /\ UserCode /\ Top.fn # "wait" /\ Len(stack) + 1 < MaxDepth
  /\ PushPoll(Append(stack, Frame("wait", "poll", None)))
  /\ UNCHANGED <<first_bh, scheduled, idle, deleted, nodes, io>>

(* Fill the descriptor sets: qemu_aio_wait returns false unless an io_flush*)
(* (a deleted node's too) reports requests.                                *)
Busy == {n \in ToSet(aio_handlers) : fd_of[n] \in inflight}
Watched == {fd_of[n] : n \in {m \in Busy : ~gone[m]}}

WaitFill ==
  /\ AtPlace("wait", "fill")
  /\ walking_handlers' = FALSE
  /\ stack' = IF Busy = {} THEN Front(stack)
              ELSE Append(Front(stack), [Top EXCEPT !.place = "select",
                                                    !.rdfds = Watched])
  /\ UNCHANGED <<bhs, aio_handlers, fd_of, gone, io>>

WaitSelect ==
  /\ AtPlace("wait", "select") /\ Top.rdfds \cap readable # {}
  /\ walking_handlers' = TRUE
  /\ SetTop([Top EXCEPT !.place = "walk", !.at = First(aio_handlers),
                        !.rdfds = @ \cap readable])
  /\ UNCHANGED <<bhs, aio_handlers, fd_of, gone, io>>

WaitInterrupted ==   \* select returns without a descriptor: EINTR
  /\ AtPlace("wait", "select") /\ stack' = Front(stack)
  /\ UNCHANGED <<bhs, nodes, io>>

(* One handler: io_read if it is readable, which takes the answer.         *)
WaitRead ==
  /\ AtPlace("wait", "walk") /\ Top.at # None
  /\ LET n == Top.at IN
       /\ ~gone[n] /\ fd_of[n] \in Top.rdfds
       /\ inflight' = inflight \ {fd_of[n]}
       /\ readable' = readable \ {fd_of[n]}
       /\ SetTop([Top EXCEPT !.place = "callback"])
  /\ UNCHANGED <<bhs, nodes>>

(* On to the next handler; this one is freed if it has been deleted.       *)
WaitAdvance ==
  /\ \/ AtPlace("wait", "callback")
     \/ /\ AtPlace("wait", "walk") /\ Top.at # None
        /\ gone[Top.at] \/ fd_of[Top.at] \notin Top.rdfds
  /\ LET n == Top.at IN
       /\ n \in ToSet(aio_handlers)
       /\ SetTop([Top EXCEPT !.place = "walk", !.at = After(aio_handlers, n)])
       /\ IF gone[n] THEN FreeNode(n) ELSE UNCHANGED <<aio_handlers, fd_of>>
       /\ gone' = [gone EXCEPT ![n] = FALSE]
  /\ UNCHANGED <<bhs, walking_handlers, io>>

WaitReturns ==
  /\ AtPlace("wait", "walk") /\ Top.at = None
  /\ walking_handlers' = FALSE
  /\ stack' = Front(stack)
  /\ UNCHANGED <<bhs, aio_handlers, fd_of, gone, io>>

-----------------------------------------------------------------------------
Calls == MainPoll \/ AioWait
LoopStep ==
  \/ PollStep \/ BhReturns \/ PollReturns
  \/ WaitFill \/ WaitSelect \/ WaitRead \/ WaitAdvance \/ WaitReturns

Next == BhOp \/ HandlerOp \/ Answer \/ Calls \/ LoopStep \/ WaitInterrupted

Spec == Init /\ [][Next]_vars

(* Callbacks return, requests are answered, the main loop polls.           *)
Fairness == WF_vars(LoopStep) /\ WF_vars(Answer) /\ WF_vars(MainPoll)

FairSpec == Spec /\ Fairness

-----------------------------------------------------------------------------
(* Properties.                                                             *)

Frames == 1..Len(stack)
Polls == {i \in Frames : stack[i].fn = "poll"}
Walks == {i \in Frames : stack[i].fn = "wait"
                           /\ stack[i].place \in {"walk", "callback"}}

(* Every variable keeps its type; nesting counts the polls in progress.    *)
TypeOK ==
  /\ ToSet(first_bh) \subseteq BHs /\ IsInjective(first_bh)
  /\ scheduled \in [BHs -> BOOLEAN] /\ idle \in [BHs -> BOOLEAN]
  /\ deleted \in [BHs -> BOOLEAN]
  /\ nesting = Cardinality(Polls)
  /\ ToSet(aio_handlers) \subseteq Nodes /\ IsInjective(aio_handlers)
  /\ fd_of \in [Nodes -> Fds \cup {None}] /\ gone \in [Nodes -> BOOLEAN]
  /\ walking_handlers \in BOOLEAN
  /\ inflight \subseteq Fds /\ readable \subseteq inflight
  /\ Len(stack) <= MaxDepth

(* Whatever callbacks delete, and however deeply the calls that bottom     *)
(* halves make are nested, the bottom half a poll goes on to after its     *)
(* callback is still allocated, and the handler a walk stands at is not    *)
(* freed under it: "it's used to ensure that no callbacks are removed      *)
(* while we're walking".                                                   *)
WalksLiveMemory ==
  /\ \A i \in Polls : stack[i].at # None => stack[i].at \in ToSet(first_bh)
  /\ \A i \in Walks :
       stack[i].at # None => stack[i].at \in ToSet(aio_handlers)

(* qemu_aio_wait reports that nothing is pending only when nothing is:     *)
(* qemu_aio_flush does not return while a bottom half is still scheduled.  *)
(* The exception is one that an idle bottom half scheduled meanwhile, whose*)
(* callback does not count as progress.                                    *)
FlushComplete ==
  AtPlace("wait", "fill") /\ Busy = {} =>
    /\ inflight = {}
    /\ Top.idled \/ \A b \in BHs : scheduled[b] => idle[b]

(* A bottom half that is scheduled runs, or is cancelled or deleted.       *)
EveryBhRuns == \A b \in BHs : scheduled[b] ~> ~scheduled[b]
=============================================================================
