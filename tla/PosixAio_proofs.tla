--------------------------- MODULE PosixAio_proofs ---------------------------
(***************************************************************************)
(* Proofs about the thread pool of PosixAio, for any number of requests,   *)
(* threads, pipe bytes and nested callbacks: its pool of workers, and that *)
(* it implements AsyncIO.                                                  *)
(***************************************************************************)
EXTENDS PosixAio, FiniteSetTheorems, SequenceTheorems, TLAPS

-----------------------------------------------------------------------------
(* Counting workers.                                                       *)

CountIn(f, P) == Cardinality({t \in Threads : f[t] \in P})

(* A count is a natural number, positive iff some thread is counted.       *)
LEMMA CountType ==
  ASSUME NEW f, NEW P
  PROVE  /\ CountIn(f, P) \in Nat
         /\ CountIn(f, P) > 0 <=> \E t \in Threads : f[t] \in P
<1> DEFINE S == {t \in Threads : f[t] \in P}
<1>1. IsFiniteSet(S)
  BY FS_Subset, PoolAssumption DEF PoolAssumption
<1>2. Cardinality(S) \in Nat /\ (Cardinality(S) = 0 <=> S = {})
  BY <1>1, FS_CardinalityType, FS_EmptySet
<1>3. QED
  BY <1>2 DEF CountIn

(* Counting a set of places counts at most what a larger set counts.       *)
LEMMA CountMonotonic ==
  ASSUME NEW f, NEW P, NEW Q, P \subseteq Q
  PROVE  CountIn(f, P) <= CountIn(f, Q)
<1>1. IsFiniteSet({t \in Threads : f[t] \in Q})
  BY FS_Subset, PoolAssumption DEF PoolAssumption
<1>2. {t \in Threads : f[t] \in P} \in SUBSET {t \in Threads : f[t] \in Q}
  OBVIOUS
<1>3. QED
  BY <1>1, <1>2, FS_Subset DEF CountIn

(* u moves to place b, nobody else moves.                                  *)
In(x, P) == IF x \in P THEN 1 ELSE 0
Moves(f, g, u, b) == g[u] = b /\ \A t \in Threads : t # u => g[t] = f[t]

(* Moving one thread changes a count by what the thread leaves and enters. *)
LEMMA CountMove ==
  ASSUME NEW f, NEW g, NEW u \in Threads, NEW b, NEW P, Moves(f, g, u, b)
  PROVE  CountIn(g, P) = CountIn(f, P) - In(f[u], P) + In(b, P)
<1> DEFINE S == {t \in Threads : f[t] \in P}
           T == {t \in Threads : g[t] \in P}
<1>1. IsFiniteSet(S) /\ Cardinality(S) \in Nat
  BY FS_Subset, FS_CardinalityType, PoolAssumption DEF PoolAssumption
<1>2. T = IF b \in P THEN (S \ {u}) \cup {u} ELSE S \ {u}
  BY DEF Moves
<1>3. /\ IsFiniteSet(S \ {u})
      /\ Cardinality(S \ {u}) = IF u \in S THEN Cardinality(S) - 1
                                           ELSE Cardinality(S)
  BY <1>1, FS_RemoveElement
<1>4. Cardinality((S \ {u}) \cup {u}) = Cardinality(S \ {u}) + 1
  BY <1>3, FS_AddElement
<1>5. u \in S <=> f[u] \in P
  OBVIOUS
<1>6. Cardinality(T) = Cardinality(S) - In(f[u], P) + In(b, P)
  <2> HIDE DEF S, T
  <2> QED BY <1>1, <1>2, <1>3, <1>4, <1>5 DEF In
<1>7. QED
  BY <1>6 DEF CountIn

(* The counts of the model are counts of pc.                               *)
LEMMA CountOf == ASSUME NEW P PROVE Count(P) = CountIn(pc, P)
BY DEF Count, CountIn

(* The same after a step.                                                  *)
LEMMA CountOfNext == ASSUME NEW P PROVE Count(P)' = CountIn(pc', P)
BY DEF Count, CountIn

-----------------------------------------------------------------------------
(* Types.                                                                  *)

(* QTAILQ_REMOVE: what is left of a list is a list of the same elements.   *)
LEMMA WithoutType ==
  ASSUME NEW S, NEW s \in Seq(S), NEW i
  PROVE  Without(s, i) \in Seq(S)
<1>1. CASE Len(s) = 0
  <2>1. Without(s, i) = << >>
    BY <1>1 DEF Without
  <2>2. QED BY <2>1
<1>2. CASE Len(s) # 0
  <2>1. Len(s) - 1 \in Nat
    BY <1>2
  <2>2. \A j \in 1..(Len(s) - 1) : s[j] \in S /\ s[j + 1] \in S
    BY <2>1
  <2>3. Without(s, i) \in [1..(Len(s) - 1) -> S]
    BY <2>2 DEF Without
  <2>4. QED BY <2>1, <2>3
<1>3. QED BY <1>1, <1>2

(* A callback returns: what is left of the callbacks is still a stack.     *)
LEMMA PopType ==
  ASSUME NEW S, NEW s \in Seq(S), s # << >>
  PROVE  SubSeq(s, 1, Len(s) - 1) \in Seq(S)
OBVIOUS

(* A worker that takes a request keeps the types of what it changes.       *)
LEMMA TakeRequestType ==
  ASSUME TypeOK, NEW t \in Threads, TakeRequest(t)
  PROVE  /\ request_list' \in Seq(Requests)
         /\ active' \in [Requests -> BOOLEAN]
         /\ job' \in [Threads -> Requests \cup {NoRequest}]
         /\ pc' \in [Threads -> WorkerPlaces]
<1>1. Head(request_list) \in Requests /\ Tail(request_list) \in Seq(Requests)
  BY DEF TypeOK, TakeRequest
<1>2. QED BY <1>1 DEF TypeOK, TakeRequest, WorkerPlaces

(* Every step keeps the types, given that the counters are exact.          *)
LEMMA TypeStep ==
  ASSUME TypeOK, CountersExact, [Next]_vars
  PROVE  TypeOK'
<1> USE DEF TypeOK, WorkerPlaces, OwnerPlaces, lists, acbs, pool, workers,
            owner, Rets, Results, Codes
<1>1. ASSUME NEW t \in Threads, WorkerStart(t) PROVE TypeOK'
  <2>1. Count(Claimed) > 0 /\ Count(Claimed) \in Nat
    BY <1>1, CountOf, CountType DEF WorkerStart, Claimed
  <2>2. pending_threads' \in Nat
    BY <1>1, <2>1 DEF WorkerStart, CountersExact, PendingExact
  <2>3. QED BY <1>1, <2>2 DEF WorkerStart
<1>2. ASSUME NEW t \in Threads, WorkerSpawn(t) PROVE TypeOK'
  <2>1. CASE ClaimThread
    BY <1>2, <2>1 DEF WorkerSpawn, ClaimThread
  <2>2. CASE NoThreadOwed
    BY <1>2, <2>2 DEF WorkerSpawn, ClaimThread, NoThreadOwed
  <2>3. QED BY <1>2, <2>1, <2>2 DEF WorkerSpawn
<1>3. ASSUME NEW t \in Threads, WorkerCreate(t) PROVE TypeOK'
  BY <1>3 DEF WorkerCreate
<1>4. ASSUME NEW t \in Threads, WorkerLook(t) PROVE TypeOK'
  <2>1. CASE TakeRequest(t) /\ UNCHANGED idle_threads
    BY <1>4, <2>1, TakeRequestType DEF WorkerLook
  <2>2. CASE Sleep(t) /\ idle_threads' = idle_threads + 1
    BY <1>4, <2>2 DEF WorkerLook, Sleep
  <2>3. QED BY <1>4, <2>1, <2>2 DEF WorkerLook
<1>5. ASSUME NEW t \in Threads, WorkerWake(t) PROVE TypeOK'
  BY <1>5 DEF WorkerWake
<1>6. ASSUME NEW t \in Threads, WorkerAwake(t) PROVE TypeOK'
  <2>1. /\ Count(Idle) > 0 /\ Count(Idle) \in Nat
        /\ Count(InPool) > 0 /\ Count(InPool) \in Nat
    BY <1>6, CountOf, CountType DEF WorkerAwake, Idle, InPool
  <2>2. idle_threads - 1 \in Nat /\ cur_threads - 1 \in Nat
    BY <2>1 DEF CountersExact, IdleExact, CurExact
  <2>3. CASE TakeRequest(t)
    BY <1>6, <2>2, <2>3, TakeRequestType DEF WorkerAwake, TakeRequest, Sleep
  <2>4. CASE Sleep(t)
    BY <1>6, <2>4 DEF WorkerAwake, TakeRequest, Sleep
  <2>5. CASE ~TakeRequest(t) /\ ~Sleep(t)
    BY <1>6, <2>2, <2>5 DEF WorkerAwake
  <2>6. QED BY <2>3, <2>4, <2>5
<1>7. ASSUME NEW t \in Threads, WorkerFinish(t) PROVE TypeOK'
  BY <1>7 DEF WorkerFinish
<1>8. ASSUME NEW t \in Threads, WorkerNotify(t) PROVE TypeOK'
  BY <1>8, PoolAssumption DEF WorkerNotify, PoolAssumption
<1>9. ASSUME NEW r \in Requests, Submit(r) PROVE TypeOK'
  BY <1>9 DEF Submit
<1>10. CASE Enqueue
  <2>1. Append(request_list, arg) \in Seq(Requests)
    BY <1>10 DEF Enqueue
  <2>2. cur_threads' \in Nat /\ new_threads' \in Nat
    BY <1>10 DEF Enqueue
  <2>3. bh_scheduled' \in BOOLEAN
    BY <1>10, Zenon DEF Enqueue
  <2>4. UNCHANGED <<first_aio, ret, active, idle_threads, pending_threads, pipe,
                    pc, job, cursor, callbacks, ready>>
    BY <1>10 DEF Enqueue
  <2>5. at' = "signal" /\ arg' = NoRequest /\ request_list' \in Seq(Requests)
    BY <1>10, <2>1 DEF Enqueue
  <2>6. QED BY <2>2, <2>3, <2>4, <2>5
<1>11. CASE Signal
  BY <1>11 DEF Signal
<1>12. CASE RunSpawnBH
  BY <1>12 DEF RunSpawnBH
<1>13. CASE OwnerSpawn
  BY <1>13 DEF OwnerSpawn, ClaimThread, NoThreadOwed
<1>14. CASE OwnerCreate
  BY <1>14 DEF OwnerCreate
<1>15. CASE Select
  BY <1>15 DEF Select
<1>16. CASE StartRead
  BY <1>16 DEF StartRead
<1>17. CASE Drain
  BY <1>17, PoolAssumption DEF Drain, PoolAssumption
<1>18. CASE Scan
  <2>1. first_aio[cursor] \in Requests
    BY <1>18 DEF Scan
  <2>2. Without(first_aio, cursor) \in Seq(Requests)
    BY WithoutType
  <2>3. CASE ret[first_aio[cursor]] = "-EINPROGRESS"
    BY <1>18, <2>3 DEF Scan
  <2>4. CASE ret[first_aio[cursor]] \in Results
    <3> DEFINE c == [acb |-> first_aio[cursor], code |-> Code(ret[first_aio[cursor]])]
    <3>1. c \in [acb : Requests, code : Codes]
      BY <2>1, <2>4 DEF Code
    <3>2. Append(callbacks, c) \in Seq([acb : Requests, code : Codes])
      BY <3>1
    <3>3. /\ callbacks' \in Seq([acb : Requests, code : Codes])
          /\ first_aio' \in Seq(Requests)
      BY <1>18, <2>2, <2>4, <3>2 DEF Scan
    <3>4. /\ at' = "run" /\ cursor' = 1
          /\ UNCHANGED <<request_list, acbs, pool, bh_scheduled, pipe, workers,
                         arg, ready>>
      BY <1>18, <2>4 DEF Scan
    <3>5. QED BY <3>3, <3>4
  <2>5. QED BY <1>18, <2>3, <2>4 DEF Scan
<1>19. CASE EndScan
  BY <1>19 DEF EndScan
<1>20. CASE CallbackReturn
  <2>1. callbacks' \in Seq([acb : Requests, code : Codes])
    BY <1>20, PopType DEF CallbackReturn
  <2>2. ret' \in [Requests -> Rets] /\ active' \in [Requests -> BOOLEAN]
    BY <1>20 DEF CallbackReturn, Release
  <2>3. /\ at' = "scan" /\ cursor' = 1
        /\ UNCHANGED <<lists, pool, bh_scheduled, pipe, workers, arg, ready>>
    BY <1>20 DEF CallbackReturn
  <2>4. QED BY <2>1, <2>2, <2>3
<1>21. ASSUME NEW r \in Requests, Cancel(r) PROVE TypeOK'
  BY <1>21 DEF Cancel
<1>22. CASE CancelLocked
  <2>1. Without(request_list, Position(request_list, arg)) \in Seq(Requests)
    BY WithoutType
  <2>2. QED BY <1>22, <2>1 DEF CancelLocked
<1>23. CASE CancelSpin
  BY <1>23 DEF CancelSpin
<1>24. CASE Remove
  <2>1. Without(first_aio, Position(first_aio, arg)) \in Seq(Requests)
    BY WithoutType
  <2>2. QED BY <1>24, <2>1 DEF Remove, Release
<1>25. CASE UNCHANGED vars
  BY <1>25 DEF vars
<1>26. QED
  BY <1>1, <1>2, <1>3, <1>4, <1>5, <1>6, <1>7, <1>8, <1>9, <1>10, <1>11,
     <1>12, <1>13, <1>14, <1>15, <1>16, <1>17, <1>18, <1>19, <1>20, <1>21,
     <1>22, <1>23, <1>24, <1>25 DEF Next, Worker, OwnerContinues

-----------------------------------------------------------------------------
(* The counters.                                                           *)

(* What one thread's move from place a to place b does to the counts.      *)
CountsMove(a, b) ==
  /\ Count(Claimed)' = Count(Claimed) - In(a, Claimed) + In(b, Claimed)
  /\ Count(Idle)' = Count(Idle) - In(a, Idle) + In(b, Idle)
  /\ Count(InPool)' = Count(InPool) - In(a, InPool) + In(b, InPool)

CountsSame ==
  /\ Count(Claimed)' = Count(Claimed)
  /\ Count(Idle)' = Count(Idle)
  /\ Count(InPool)' = Count(InPool)

(* A step of one worker moves the three counts by what it leaves and enters. *)
LEMMA MoveCounts ==
  ASSUME TypeOK, NEW u \in Threads, NEW b \in WorkerPlaces,
         pc' = [pc EXCEPT ![u] = b]
  PROVE  CountsMove(pc[u], b)
<1>1. Moves(pc, pc', u, b)
  BY DEF TypeOK, Moves
<1>2. ASSUME NEW P
      PROVE CountIn(pc', P) = CountIn(pc, P) - In(pc[u], P) + In(b, P)
  BY <1>1, CountMove
<1>3. QED
  BY <1>2, CountOf, CountOfNext DEF CountsMove, Claimed, Idle, InPool, WorkerPlaces

(* A step in which no worker moves keeps the three counts.                 *)
LEMMA StillCounts == UNCHANGED pc => CountsSame
BY DEF CountsSame, Count, Claimed, Idle, InPool, WorkerPlaces

(* A thread that creates another leaves one place it owes, and the thread  *)
(* it creates takes it.                                                    *)
LEMMA CreateCounts ==
  ASSUME TypeOK, NEW t \in Threads, NEW u \in Threads,
         pc[t] = "create", pc[u] = "none",
         pc' = [pc EXCEPT ![t] = "top", ![u] = "starting"]
  PROVE  CountsSame
<1> DEFINE f == [pc EXCEPT ![t] = "top"]
<1>1. f[u] = "none" /\ Moves(f, pc', u, "starting")
  BY DEF TypeOK, Moves
<1>2. Moves(pc, f, t, "top")
  BY DEF TypeOK, Moves
<1> HIDE DEF f
<1>3. ASSUME NEW P
      PROVE  CountIn(pc', P) = CountIn(f, P) - In("none", P) + In("starting", P)
  BY <1>1, CountMove
<1>4. ASSUME NEW P
      PROVE  CountIn(f, P) = CountIn(pc, P) - In("create", P) + In("top", P)
  BY <1>2, CountMove
<1>5. ASSUME NEW P PROVE CountIn(pc, P) \in Nat
  BY CountType
<1>6. ASSUME NEW P,
             In("starting", P) + In("top", P) = In("create", P) + In("none", P)
      PROVE  CountIn(pc', P) = CountIn(pc, P)
  <2>1. CountIn(pc', P) = CountIn(f, P) - In("none", P) + In("starting", P)
    BY <1>3
  <2>2. CountIn(f, P) = CountIn(pc, P) - In("create", P) + In("top", P)
    BY <1>4
  <2>3. /\ CountIn(pc, P) \in Nat
        /\ In("starting", P) \in Int /\ In("top", P) \in Int
        /\ In("create", P) \in Int /\ In("none", P) \in Int
    BY <1>5 DEF In
  <2>4. QED BY <1>6, <2>1, <2>2, <2>3
<1>7. CountIn(pc', Claimed) = CountIn(pc, Claimed)
  BY <1>6 DEF In, Claimed
<1>8. CountIn(pc', Idle) = CountIn(pc, Idle)
  BY <1>6 DEF In, Idle
<1>9. CountIn(pc', InPool) = CountIn(pc, InPool)
  <2>1. /\ "starting" \notin InPool /\ "none" \notin InPool
        /\ "top" \in InPool /\ "create" \in InPool
    BY DEF InPool, WorkerPlaces
  <2>2. /\ In("starting", InPool) = 0 /\ In("none", InPool) = 0
        /\ In("top", InPool) = 1 /\ In("create", InPool) = 1
    BY <2>1 DEF In
  <2>3. In("starting", InPool) + In("top", InPool)
          = In("create", InPool) + In("none", InPool)
    BY <2>2
  <2>4. QED BY <1>6, <2>3
<1>10. QED
  BY <1>7, <1>8, <1>9, CountOf, CountOfNext
  DEF CountsSame, Claimed, Idle, InPool, WorkerPlaces

(* Every step keeps the counters exact.                                    *)
LEMMA CountersStep ==
  ASSUME TypeOK, CountersExact, [Next]_vars
  PROVE  CountersExact'
<1> USE DEF CountersExact, PendingExact, IdleExact, CurExact, pool, workers, owner
<1>0. /\ Count(Claimed) \in Nat /\ Count(Idle) \in Nat /\ Count(InPool) \in Nat
      /\ cur_threads \in Nat /\ idle_threads \in Nat
      /\ new_threads \in Nat /\ pending_threads \in Nat
  BY CountOf, CountType DEF TypeOK
<1>1. ASSUME NEW t \in Threads, WorkerStart(t) PROVE CountersExact'
  <2>1. CountsMove("starting", "spawn")
    BY <1>1, MoveCounts DEF WorkerStart, WorkerPlaces
  <2>2. QED
    BY <1>0, <1>1, <2>1 DEF WorkerStart, CountsMove, In, Claimed, Idle, InPool, WorkerPlaces
<1>2. ASSUME NEW t \in Threads, WorkerSpawn(t) PROVE CountersExact'
  <2>1. CASE ClaimThread /\ pc' = [pc EXCEPT ![t] = "create"]
    <3>1. CountsMove("spawn", "create")
      BY <1>2, <2>1, MoveCounts DEF WorkerSpawn, ClaimThread, WorkerPlaces
    <3>2. QED
      BY <1>0, <1>2, <2>1, <3>1 DEF WorkerSpawn, ClaimThread, CountsMove, In, Claimed, Idle, InPool, WorkerPlaces
  <2>2. CASE NoThreadOwed /\ pc' = [pc EXCEPT ![t] = "top"]
    <3>1. CountsMove("spawn", "top")
      BY <1>2, <2>2, MoveCounts DEF WorkerSpawn, NoThreadOwed, WorkerPlaces
    <3>2. QED
      BY <1>0, <1>2, <2>2, <3>1 DEF WorkerSpawn, NoThreadOwed, CountsMove, In, Claimed, Idle, InPool, WorkerPlaces
  <2>3. QED BY <1>2, <2>1, <2>2 DEF WorkerSpawn
<1>3. ASSUME NEW t \in Threads, WorkerCreate(t) PROVE CountersExact'
  <2>1. CountsSame
    BY <1>3, CreateCounts DEF WorkerCreate
  <2>2. QED BY <1>3, <2>1 DEF WorkerCreate, CountsSame
<1>4. ASSUME NEW t \in Threads, WorkerLook(t) PROVE CountersExact'
  <2>1. CASE TakeRequest(t) /\ UNCHANGED idle_threads
    <3>1. CountsMove("top", "working")
      BY <1>4, <2>1, MoveCounts DEF WorkerLook, TakeRequest, WorkerPlaces
    <3>2. QED
      BY <1>0, <1>4, <2>1, <3>1 DEF WorkerLook, TakeRequest, CountsMove, In, Claimed, Idle, InPool, WorkerPlaces
  <2>2. CASE Sleep(t) /\ idle_threads' = idle_threads + 1
    <3>1. CountsMove("top", "waiting")
      BY <1>4, <2>2, MoveCounts DEF WorkerLook, Sleep, WorkerPlaces
    <3>2. QED
      BY <1>0, <1>4, <2>2, <3>1 DEF WorkerLook, Sleep, CountsMove, In, Claimed, Idle, InPool, WorkerPlaces
  <2>3. QED BY <1>4, <2>1, <2>2 DEF WorkerLook
<1>5. ASSUME NEW t \in Threads, WorkerWake(t) PROVE CountersExact'
  <2>1. CountsMove("waiting", "woken") \/ CountsMove("waiting", "timedout")
    BY <1>5, MoveCounts DEF WorkerWake, WorkerPlaces
  <2>2. QED
    BY <1>0, <1>5, <2>1 DEF WorkerWake, CountsMove, In, Claimed, Idle, InPool, WorkerPlaces
<1>6. ASSUME NEW t \in Threads, WorkerAwake(t) PROVE CountersExact'
  <2>0. /\ pc[t] \in {"woken", "timedout"}
        /\ UNCHANGED <<new_threads, pending_threads, at>>
    BY <1>6 DEF WorkerAwake
  <2>1. CASE /\ TakeRequest(t) /\ idle_threads' = idle_threads - 1
             /\ UNCHANGED cur_threads
    <3>1. CountsMove(pc[t], "working")
      BY <2>1, MoveCounts DEF TakeRequest, WorkerPlaces
    <3>2. QED
      BY <1>0, <2>0, <2>1, <3>1 DEF CountsMove, In, Claimed, Idle, InPool, WorkerPlaces
  <2>2. CASE Sleep(t) /\ UNCHANGED <<cur_threads, idle_threads>>
    <3>1. CountsMove(pc[t], "waiting")
      BY <2>2, MoveCounts DEF Sleep, WorkerPlaces
    <3>2. QED
      BY <1>0, <2>0, <2>2, <3>1 DEF CountsMove, In, Claimed, Idle, InPool, WorkerPlaces
  <2>3. CASE /\ idle_threads' = idle_threads - 1
             /\ cur_threads' = cur_threads - 1
             /\ pc' = [pc EXCEPT ![t] = "none"]
    <3>1. CountsMove(pc[t], "none")
      BY <2>3, MoveCounts DEF WorkerPlaces
    <3>2. QED
      BY <1>0, <2>0, <2>3, <3>1 DEF CountsMove, In, Claimed, Idle, InPool, WorkerPlaces
  <2>4. QED BY <1>6, <2>1, <2>2, <2>3 DEF WorkerAwake
<1>7. ASSUME NEW t \in Threads, WorkerFinish(t) PROVE CountersExact'
  <2>1. CountsMove("working", "notify")
    BY <1>7, MoveCounts DEF WorkerFinish, WorkerPlaces
  <2>2. QED
    BY <1>0, <1>7, <2>1 DEF WorkerFinish, CountsMove, In, Claimed, Idle, InPool, WorkerPlaces
<1>8. ASSUME NEW t \in Threads, WorkerNotify(t) PROVE CountersExact'
  <2>1. CountsMove("notify", "top")
    BY <1>8, MoveCounts DEF WorkerNotify, WorkerPlaces
  <2>2. QED
    BY <1>0, <1>8, <2>1 DEF WorkerNotify, CountsMove, In, Claimed, Idle, InPool, WorkerPlaces
<1>9. ASSUME NEW r \in Requests, Submit(r) PROVE CountersExact'
  BY <1>9, StillCounts DEF Submit, CountsSame
<1>10. CASE Enqueue
  <2>1. CountsSame
    BY <1>10, StillCounts DEF Enqueue
  <2>2. QED BY <1>0, <1>10, <2>1 DEF Enqueue, CountsSame
<1>11. CASE Signal
  <2>1. CASE UNCHANGED pc
    BY <1>11, <2>1, StillCounts DEF Signal, CountsSame
  <2>2. ASSUME NEW t \in Threads, pc[t] = "waiting", pc' = [pc EXCEPT ![t] = "woken"]
        PROVE  CountersExact'
    <3>1. CountsMove("waiting", "woken")
      BY <2>2, MoveCounts DEF WorkerPlaces
    <3>2. QED
      BY <1>0, <1>11, <3>1 DEF Signal, CountsMove, In, Claimed, Idle, InPool, WorkerPlaces
  <2>3. QED BY <1>11, <2>1, <2>2 DEF Signal
<1>12. CASE RunSpawnBH
  BY <1>12, StillCounts DEF RunSpawnBH, CountsSame
<1>13. CASE OwnerSpawn
  <2>1. CountsSame
    BY <1>13, StillCounts DEF OwnerSpawn
  <2>2. CASE ClaimThread /\ at' = "create"
    BY <1>0, <1>13, <2>1, <2>2 DEF OwnerSpawn, ClaimThread, CountsSame
  <2>3. CASE NoThreadOwed /\ at' = "run"
    BY <1>0, <1>13, <2>1, <2>3 DEF OwnerSpawn, NoThreadOwed, CountsSame
  <2>4. QED BY <1>13, <2>2, <2>3 DEF OwnerSpawn
<1>14. CASE OwnerCreate
  <2>1. CountsMove("none", "starting")
    BY <1>14, MoveCounts DEF OwnerCreate, WorkerPlaces
  <2>2. QED
    BY <1>0, <1>14, <2>1 DEF OwnerCreate, CountsMove, In, Claimed, Idle, InPool, WorkerPlaces
<1>15. CASE Select
  BY <1>15, StillCounts DEF Select, CountsSame
<1>16. CASE StartRead
  BY <1>16, StillCounts DEF StartRead, CountsSame
<1>17. CASE Drain
  BY <1>17, StillCounts DEF Drain, CountsSame
<1>18. CASE Scan
  BY <1>18, StillCounts DEF Scan, CountsSame
<1>19. CASE EndScan
  BY <1>19, StillCounts DEF EndScan, CountsSame
<1>20. CASE CallbackReturn
  BY <1>20, StillCounts DEF CallbackReturn, CountsSame
<1>21. ASSUME NEW r \in Requests, Cancel(r) PROVE CountersExact'
  BY <1>21, StillCounts DEF Cancel, CountsSame
<1>22. CASE CancelLocked
  BY <1>22, StillCounts DEF CancelLocked, CountsSame
<1>23. CASE CancelSpin
  BY <1>23, StillCounts DEF CancelSpin, CountsSame
<1>24. CASE Remove
  BY <1>24, StillCounts DEF Remove, CountsSame
<1>25. CASE UNCHANGED vars
  BY <1>25, StillCounts DEF vars, CountsSame
<1>26. QED
  BY <1>1, <1>2, <1>3, <1>4, <1>5, <1>6, <1>7, <1>8, <1>9, <1>10, <1>11,
     <1>12, <1>13, <1>14, <1>15, <1>16, <1>17, <1>18, <1>19, <1>20, <1>21,
     <1>22, <1>23, <1>24, <1>25 DEF Next, Worker, OwnerContinues

(* Initially there are no threads and no requests.                         *)
LEMMA InitTyped == Init => TypeOK /\ CountersExact
<1> SUFFICES ASSUME Init PROVE TypeOK /\ CountersExact
  OBVIOUS
<1>1. TypeOK
  <2>1. /\ request_list \in Seq(Requests) /\ first_aio \in Seq(Requests)
        /\ callbacks \in Seq([acb : Requests, code : Codes])
    BY DEF Init
  <2>2. pipe \in 0..PipeCap
    BY PoolAssumption DEF Init, PoolAssumption
  <2>3. ret \in [Requests -> Rets] /\ active \in [Requests -> BOOLEAN]
    BY DEF Init, Rets
  <2>4. /\ pc \in [Threads -> WorkerPlaces]
        /\ job \in [Threads -> Requests \cup {NoRequest}]
    BY DEF Init, WorkerPlaces
  <2>5. /\ cur_threads \in Nat /\ idle_threads \in Nat
        /\ new_threads \in Nat /\ pending_threads \in Nat
        /\ cursor \in Nat \ {0}
    BY DEF Init
  <2>6. /\ at \in OwnerPlaces /\ arg \in Requests \cup {NoRequest}
        /\ at \notin {"enqueue", "cancel", "spin", "remove"}
    BY DEF Init, OwnerPlaces
  <2>7. bh_scheduled \in BOOLEAN /\ ready \in BOOLEAN
    BY Zenon DEF Init
  <2>8. QED
    BY <2>1, <2>2, <2>3, <2>4, <2>5, <2>6, <2>7 DEF TypeOK
<1>2. \A P \in {Claimed, Idle, InPool} : CountIn(pc, P) = 0
  <2> TAKE P \in {Claimed, Idle, InPool}
  <2>1. ~\E t \in Threads : pc[t] \in P
    BY DEF Init, Claimed, Idle, InPool, WorkerPlaces
  <2>2. QED BY <2>1, CountType
<1>3. Count(Claimed) = 0 /\ Count(Idle) = 0 /\ Count(InPool) = 0
  BY <1>2, CountOf
<1>4. CountersExact
  BY <1>3 DEF Init, CountersExact, PendingExact, IdleExact, CurExact
<1>5. QED BY <1>1, <1>4

(* The variables always have their types (TypeOK), and idle_threads,       *)
(* pending_threads and cur_threads always tell the truth (CountersExact):  *)
(* neither invariant is inductive without the other, for aio_thread        *)
(* decrements counters it does not test.                                   *)
THEOREM CountersAlwaysExact == Spec => [](TypeOK /\ CountersExact)
<1>1. Init => TypeOK /\ CountersExact
  BY InitTyped
<1>2. TypeOK /\ CountersExact /\ [Next]_vars => (TypeOK /\ CountersExact)'
  BY TypeStep, CountersStep
<1>3. QED BY <1>1, <1>2, PTL DEF Spec

(* Every variable of the pool and of its owner keeps its type, whatever the *)
(* interleaving of workers, owner and callbacks.                           *)
THEOREM TypeCorrect == Spec => []TypeOK
BY CountersAlwaysExact, PTL

-----------------------------------------------------------------------------
(* The pool stays within its limit, creates every thread it owes, and      *)
(* never leaves a request to workers that all sleep.                       *)

PoolInv == TypeOK /\ CountersExact /\ cur_threads <= MaxThreads
             /\ NoLostSpawn /\ QueueWatched

(* Only the locked part of qemu_paio_submit adds to cur_threads, and it    *)
(* checks max_threads first.                                               *)
LEMMA LimitStep ==
  ASSUME TypeOK, cur_threads <= MaxThreads, [Next]_vars
  PROVE  cur_threads' <= MaxThreads
<1> USE DEF pool, workers, owner
<1>1. cur_threads \in Nat /\ MaxThreads \in Nat
  BY PoolAssumption DEF TypeOK, PoolAssumption
<1>2. ASSUME NEW t \in Threads, WorkerAwake(t) PROVE cur_threads' <= MaxThreads
  BY <1>1, <1>2 DEF WorkerAwake
<1>3. CASE Enqueue
  BY <1>1, <1>3 DEF Enqueue, NeedThread
<1>4. ASSUME NEW t \in Threads, Worker(t) \/ WorkerWake(t), ~WorkerAwake(t)
      PROVE  UNCHANGED cur_threads
  BY <1>4 DEF Worker, WorkerStart, WorkerSpawn, WorkerCreate, WorkerLook, WorkerWake,
     WorkerFinish, WorkerNotify, ClaimThread, NoThreadOwed
<1>5. CASE OwnerContinues /\ ~Enqueue
  BY <1>1, <1>5 DEF OwnerContinues, Signal, OwnerSpawn, OwnerCreate, Drain, Scan,
     EndScan, CancelLocked, CancelSpin, Remove, ClaimThread, NoThreadOwed
<1>6. ASSUME NEW r \in Requests, Submit(r) \/ Cancel(r) PROVE UNCHANGED cur_threads
  BY <1>6 DEF Submit, Cancel
<1>7. CASE RunSpawnBH \/ Select \/ StartRead \/ CallbackReturn \/ UNCHANGED vars
  BY <1>1, <1>7 DEF RunSpawnBH, Select, StartRead, CallbackReturn, vars
<1>8. QED
  BY <1>1, <1>2, <1>3, <1>4, <1>5, <1>6, <1>7 DEF Next, Worker

(* As many threads exist as the counters say, so no more than cur_threads. *)
LEMMA LimitOnThreads ==
  ASSUME TypeOK, CountersExact, cur_threads <= MaxThreads
  PROVE  PoolWithinLimit
<1> DEFINE A == {t \in Threads : pc[t] \in {"starting"}}
           B == {t \in Threads : pc[t] \in InPool}
<1>1. IsFiniteSet(A) /\ IsFiniteSet(B) /\ IsFiniteSet(A \cap B)
  BY FS_Subset, PoolAssumption DEF PoolAssumption
<1>2. {t \in Threads : pc[t] \in WorkerPlaces \ {"none"}} = A \cup B
  BY DEF InPool, WorkerPlaces
<1>3. Cardinality(A \cup B) <= Cardinality(A) + Cardinality(B)
  <2> HIDE DEF A, B
  <2>1. /\ Cardinality(A) \in Nat /\ Cardinality(B) \in Nat
        /\ Cardinality(A \cap B) \in Nat
    BY <1>1, FS_CardinalityType
  <2>2. Cardinality(A \cup B) =
          Cardinality(A) + Cardinality(B) - Cardinality(A \cap B)
    BY <1>1, FS_Union
  <2>3. QED BY <2>1, <2>2
<1>4. Cardinality(A) <= CountIn(pc, Claimed)
  <2>1. CountIn(pc, {"starting"}) <= CountIn(pc, Claimed)
    BY CountMonotonic DEF Claimed
  <2>2. QED BY <2>1 DEF CountIn
<1>5. Count(WorkerPlaces \ {"none"}) <= CountIn(pc, Claimed) + CountIn(pc, InPool)
  <2>1. /\ Cardinality(A) \in Nat /\ Cardinality(B) \in Nat
        /\ CountIn(pc, Claimed) \in Nat /\ Cardinality(A \cup B) \in Nat
    <3>1. IsFiniteSet(A \cup B)
      BY <1>1, FS_Union
    <3>2. QED BY <1>1, <3>1, FS_CardinalityType, CountType
  <2>2. Count(WorkerPlaces \ {"none"}) = Cardinality(A \cup B)
    BY <1>2 DEF Count
  <2>3. CountIn(pc, InPool) = Cardinality(B)
    BY DEF CountIn
  <2> HIDE DEF A, B
  <2>4. QED BY <1>3, <1>4, <2>1, <2>2, <2>3
<1>6. /\ cur_threads \in Nat /\ new_threads \in Nat /\ MaxThreads \in Nat
      /\ pending_threads \in Nat /\ pending_threads >= CountIn(pc, Claimed)
      /\ cur_threads = new_threads + pending_threads + CountIn(pc, InPool)
      /\ CountIn(pc, Claimed) \in Nat /\ CountIn(pc, InPool) \in Nat
      /\ Count(WorkerPlaces \ {"none"}) \in Nat
  BY PoolAssumption, CountOf, CountType
  DEF TypeOK, PoolAssumption, CountersExact, PendingExact, CurExact
<1>7. QED
  BY <1>5, <1>6 DEF PoolWithinLimit

(* Every step keeps a promised thread on its way: spawn_thread schedules the *)
(* bottom half unless a pending thread will look, and do_spawn_thread leaves *)
(* a thread pending while some are owed.                                   *)
LEMMA SpawnStep ==
  ASSUME TypeOK, NoLostSpawn, [Next]_vars
  PROVE  NoLostSpawn'
<1> USE DEF NoLostSpawn, pool, workers, owner
<1>0. new_threads \in Nat /\ pending_threads \in Nat /\ pc \in [Threads -> WorkerPlaces]
  BY DEF TypeOK
<1>1. ASSUME NEW t \in Threads, WorkerStart(t) PROVE NoLostSpawn'
  BY <1>0, <1>1 DEF WorkerStart
<1>2. ASSUME NEW t \in Threads, WorkerSpawn(t) PROVE NoLostSpawn'
  BY <1>0, <1>2 DEF WorkerSpawn, ClaimThread, NoThreadOwed
<1>3. ASSUME NEW t \in Threads, WorkerCreate(t) PROVE NoLostSpawn'
  BY <1>0, <1>3 DEF WorkerCreate
<1>4. ASSUME NEW t \in Threads, WorkerLook(t) PROVE NoLostSpawn'
  BY <1>0, <1>4 DEF WorkerLook, TakeRequest, Sleep
<1>5. ASSUME NEW t \in Threads, WorkerWake(t) PROVE NoLostSpawn'
  BY <1>0, <1>5 DEF WorkerWake
<1>6. ASSUME NEW t \in Threads, WorkerAwake(t) PROVE NoLostSpawn'
  <2>1. /\ pc[t] \in {"woken", "timedout"}
        /\ \E b \in {"working", "waiting", "none"} : pc' = [pc EXCEPT ![t] = b]
        /\ UNCHANGED <<new_threads, pending_threads, bh_scheduled, at>>
    BY <1>6 DEF WorkerAwake, TakeRequest, Sleep
  <2>2. QED BY <1>0, <2>1
<1>7. ASSUME NEW t \in Threads, WorkerFinish(t) PROVE NoLostSpawn'
  BY <1>0, <1>7 DEF WorkerFinish
<1>8. ASSUME NEW t \in Threads, WorkerNotify(t) PROVE NoLostSpawn'
  BY <1>0, <1>8 DEF WorkerNotify
<1>9. CASE Enqueue
  <2>1. CASE NeedThread /\ pending_threads = 0
    <3>1. bh_scheduled'
      BY <1>9, <2>1, Zenon DEF Enqueue
    <3>2. QED BY <3>1
  <2>2. CASE NeedThread /\ pending_threads > 0
    BY <1>9, <2>2 DEF Enqueue
  <2>3. CASE ~NeedThread
    BY <1>9, <2>3 DEF Enqueue
  <2>4. QED BY <1>0, <2>1, <2>2, <2>3
<1>10. CASE Signal
  BY <1>0, <1>10 DEF Signal
<1>11. CASE RunSpawnBH
  BY <1>11 DEF RunSpawnBH
<1>12. CASE OwnerSpawn
  BY <1>0, <1>12 DEF OwnerSpawn, ClaimThread, NoThreadOwed
<1>13. CASE OwnerCreate
  BY <1>0, <1>13 DEF OwnerCreate
<1>14. CASE Drain \/ Scan \/ EndScan \/ CancelLocked \/ CancelSpin \/ Remove
  BY <1>14 DEF Drain, Scan, EndScan, CancelLocked, CancelSpin, Remove
<1>15. ASSUME NEW r \in Requests, Submit(r) \/ Cancel(r) PROVE NoLostSpawn'
  BY <1>15 DEF Submit, Cancel
<1>16. CASE Select \/ StartRead \/ CallbackReturn \/ UNCHANGED vars
  BY <1>16 DEF Select, StartRead, CallbackReturn, vars
<1>17. QED
  BY <1>1, <1>2, <1>3, <1>4, <1>5, <1>6, <1>7, <1>8, <1>9, <1>10, <1>11,
     <1>12, <1>13, <1>14, <1>15, <1>16 DEF Next, Worker, OwnerContinues

(* Every step keeps the queue watched: a worker leaves the pool or goes to *)
(* sleep only when it has seen the queue empty, and a submission that finds *)
(* no idle worker asks for a thread or finds the pool full of busy ones.   *)
LEMMA WatchStep ==
  ASSUME TypeOK, CountersExact, cur_threads <= MaxThreads, QueueWatched, [Next]_vars
  PROVE  QueueWatched'
<1> USE DEF QueueWatched, lists, pool, workers, owner
<1>0. /\ new_threads \in Nat /\ pending_threads \in Nat
      /\ pc \in [Threads -> WorkerPlaces]
      /\ InPool = {"spawn", "create", "top", "waiting", "woken", "timedout",
                   "working", "notify"}
      /\ InPool' = InPool
  BY DEF TypeOK, InPool, WorkerPlaces
<1>1. ASSUME NEW t \in Threads, WorkerStart(t) PROVE QueueWatched'
  BY <1>0, <1>1 DEF WorkerStart
<1>2. ASSUME NEW t \in Threads, WorkerSpawn(t) PROVE QueueWatched'
  BY <1>0, <1>2 DEF WorkerSpawn
<1>3. ASSUME NEW t \in Threads, WorkerCreate(t) PROVE QueueWatched'
  BY <1>0, <1>3 DEF WorkerCreate
<1>4. ASSUME NEW t \in Threads, WorkerLook(t) PROVE QueueWatched'
  BY <1>0, <1>4 DEF WorkerLook, TakeRequest, Sleep
<1>5. ASSUME NEW t \in Threads, WorkerWake(t) PROVE QueueWatched'
  BY <1>0, <1>5 DEF WorkerWake
<1>6. ASSUME NEW t \in Threads, WorkerAwake(t) PROVE QueueWatched'
  <2>1. \/ request_list' = << >>
        \/ pc' = [pc EXCEPT ![t] = "working"]
    BY <1>6 DEF WorkerAwake, TakeRequest, Sleep
  <2>2. QED BY <1>0, <2>1
<1>7. ASSUME NEW t \in Threads, WorkerFinish(t) PROVE QueueWatched'
  BY <1>0, <1>7 DEF WorkerFinish
<1>8. ASSUME NEW t \in Threads, WorkerNotify(t) PROVE QueueWatched'
  BY <1>0, <1>8 DEF WorkerNotify
<1>9. CASE Enqueue
  <2>0. at' = "signal" /\ UNCHANGED <<pc, pending_threads>>
    BY <1>9 DEF Enqueue
  <2>1. CASE NeedThread
    BY <1>0, <1>9, <2>1 DEF Enqueue
  <2>2. CASE idle_threads # 0
    <3>1. CountIn(pc, Idle) > 0
      BY <2>2, CountOf, CountType DEF CountersExact, IdleExact
    <3>2. PICK t \in Threads : pc[t] \in Idle
      BY <3>1, CountType
    <3>3. QED BY <1>0, <2>0, <3>2 DEF Idle
  <2>3. CASE idle_threads = 0 /\ ~NeedThread
    <3>1. cur_threads > 0 /\ UNCHANGED new_threads
      BY <1>9, <2>3, PoolAssumption DEF Enqueue, NeedThread, TypeOK, PoolAssumption
    <3>2. new_threads + pending_threads > 0 \/ CountIn(pc, InPool) > 0
      <4>1. CountIn(pc, InPool) \in Nat
        BY CountType
      <4>2. cur_threads = new_threads + pending_threads + CountIn(pc, InPool)
        BY CountOf DEF CountersExact, CurExact
      <4>3. QED BY <1>0, <3>1, <4>1, <4>2
    <3>3. CASE new_threads + pending_threads > 0
      BY <2>0, <3>1, <3>3
    <3>4. CASE CountIn(pc, InPool) > 0
      <4>1. PICK t \in Threads : pc[t] \in InPool
        BY <3>4, CountType
      <4>2. CountIn(pc, Idle) = 0
        BY <2>3, CountOf DEF CountersExact, IdleExact
      <4>3. pc[t] # "waiting"
        BY <4>2, CountType DEF Idle
      <4>4. QED BY <1>0, <2>0, <4>1, <4>3
    <3>5. QED BY <3>2, <3>3, <3>4
  <2>4. QED BY <2>1, <2>2, <2>3
<1>10. CASE Signal
  BY <1>0, <1>10 DEF Signal
<1>11. CASE RunSpawnBH
  BY <1>0, <1>11 DEF RunSpawnBH
<1>12. CASE OwnerSpawn
  BY <1>0, <1>12 DEF OwnerSpawn, ClaimThread, NoThreadOwed
<1>13. CASE OwnerCreate
  BY <1>0, <1>13 DEF OwnerCreate
<1>14. CASE Drain \/ Scan \/ EndScan \/ CancelSpin \/ Remove
  BY <1>0, <1>14 DEF Drain, Scan, EndScan, CancelSpin, Remove
<1>15. CASE CancelLocked
  <2>1. \A i : Without(<< >>, i) = << >>
    BY DEF Without
  <2>2. CASE request_list = << >>
    <3>1. request_list' = << >>
      BY <1>15, <2>1, <2>2 DEF CancelLocked
    <3>2. QED BY <3>1
  <2>3. CASE request_list # << >>
    BY <1>0, <1>15, <2>3 DEF CancelLocked
  <2>4. QED BY <2>2, <2>3
<1>16. ASSUME NEW r \in Requests, Submit(r) \/ Cancel(r) PROVE QueueWatched'
  BY <1>0, <1>16 DEF Submit, Cancel
<1>17. CASE Select \/ StartRead \/ CallbackReturn \/ UNCHANGED vars
  BY <1>0, <1>17 DEF Select, StartRead, CallbackReturn, vars, lists
<1>18. QED
  BY <1>1, <1>2, <1>3, <1>4, <1>5, <1>6, <1>7, <1>8, <1>9, <1>10, <1>11,
     <1>12, <1>13, <1>14, <1>15, <1>16, <1>17 DEF Next, Worker, OwnerContinues

(* PoolInv is inductive, so it holds in every reachable state.             *)
LEMMA PoolInvariant == Spec => []PoolInv
<1>1. Init => PoolInv
  BY InitTyped, PoolAssumption DEF Init, PoolInv, NoLostSpawn, QueueWatched,
     PoolAssumption
<1>2. PoolInv /\ [Next]_vars => PoolInv'
  BY TypeStep, CountersStep, LimitStep, SpawnStep, WatchStep DEF PoolInv
<1>3. QED BY <1>1, <1>2, PTL DEF Spec

(* setAIOMaxThreads is respected: at no time do more threads exist, or are *)
(* promised, than max_threads.                                             *)
THEOREM PoolLimited == Spec => []PoolWithinLimit
<1>1. PoolInv => PoolWithinLimit
  BY LimitOnThreads DEF PoolInv
<1>2. QED BY <1>1, PoolInvariant, PTL

(* No thread that was promised is forgotten.                               *)
THEOREM SpawnNeverLost == Spec => []NoLostSpawn
BY PoolInvariant, PTL DEF PoolInv

(* No request waits in the queue while every worker sleeps unsignalled.    *)
THEOREM QueueAlwaysWatched == Spec => []QueueWatched
BY PoolInvariant, PTL DEF PoolInv
-----------------------------------------------------------------------------
(* PosixAio implements AsyncIO.                                            *)

(* Sequences in which nothing occurs twice.                                *)
Once(s) == \A i, j \in 1..Len(s) : s[i] = s[j] => i = j

LEMMA OncePrepend ==
  ASSUME NEW S, NEW s \in Seq(S), NEW x \in S
  PROVE  /\ Elems(<<x>> \o s) = Elems(s) \cup {x}
         /\ Once(s) /\ x \notin Elems(s) => Once(<<x>> \o s)
<1> DEFINE p == <<x>> \o s
<1>1. /\ Len(p) = Len(s) + 1 /\ Len(s) \in Nat /\ p[1] = x
      /\ \A i \in 1..Len(s) : p[i + 1] = s[i]
      /\ \A i \in 2..Len(p) : i - 1 \in 1..Len(s) /\ p[i] = s[i - 1]
  OBVIOUS
<1> HIDE DEF p
<1>2. Elems(p) = Elems(s) \cup {x}
  <2>1. \A i \in 1..Len(s) : i + 1 \in 1..Len(p)
    BY <1>1
  <2>2. 1 \in 1..Len(p) /\ \A i \in 1..Len(p) : i = 1 \/ i \in 2..Len(p)
    BY <1>1
  <2>3. QED BY <1>1, <2>1, <2>2 DEF Elems
<1>3. ASSUME Once(s), x \notin Elems(s), NEW i \in 1..Len(p), NEW j \in 1..Len(p),
             p[i] = p[j]
      PROVE  i = j
  BY <1>1, <1>3 DEF Once, Elems
<1>4. QED BY <1>2, <1>3 DEF p, Once

LEMMA OnceAppend ==
  ASSUME NEW S, NEW s \in Seq(S), NEW x \in S
  PROVE  /\ Elems(Append(s, x)) = Elems(s) \cup {x}
         /\ Once(s) /\ x \notin Elems(s) => Once(Append(s, x))
<1> DEFINE p == Append(s, x)
<1>1. /\ Len(p) = Len(s) + 1 /\ Len(s) \in Nat /\ p[Len(s) + 1] = x
      /\ \A i \in 1..Len(s) : p[i] = s[i]
  OBVIOUS
<1> HIDE DEF p
<1>2. Elems(p) = Elems(s) \cup {x}
  <2>1. \A i \in 1..Len(s) : i \in 1..Len(p)
    BY <1>1
  <2>2. /\ Len(s) + 1 \in 1..Len(p)
        /\ \A i \in 1..Len(p) : i = Len(s) + 1 \/ i \in 1..Len(s)
    BY <1>1
  <2>3. QED BY <1>1, <2>1, <2>2 DEF Elems
<1>3. ASSUME Once(s), x \notin Elems(s), NEW i \in 1..Len(p), NEW j \in 1..Len(p),
             p[i] = p[j]
      PROVE  i = j
  BY <1>1, <1>3 DEF Once, Elems
<1>4. QED BY <1>2, <1>3 DEF p, Once

LEMMA OnceWithout ==
  ASSUME NEW S, NEW s \in Seq(S), NEW k \in 1..Len(s), Once(s)
  PROVE  Elems(Without(s, k)) = Elems(s) \ {s[k]} /\ Once(Without(s, k))
<1> DEFINE p == Without(s, k)
<1>1. /\ Len(s) \in Nat /\ Len(p) = Len(s) - 1 /\ k \in Nat
      /\ \A i \in 1..Len(p) : p[i] = IF i < k THEN s[i] ELSE s[i + 1]
  <2>1. Len(s) - 1 \in Nat
    OBVIOUS
  <2>2. p = [j \in 1..(Len(s) - 1) |-> IF j < k THEN s[j] ELSE s[j + 1]]
    BY DEF Without
  <2>3. QED BY <2>1, <2>2
<1> HIDE DEF p
<1>2. ASSUME NEW i \in 1..Len(p) PROVE p[i] \in Elems(s) \ {s[k]}
  BY <1>1 DEF Elems, Once
<1>3. ASSUME NEW i \in 1..Len(s), i # k PROVE s[i] \in Elems(p)
  <2>1. CASE i < k
    <3>1. i \in 1..Len(p) /\ p[i] = s[i]
      BY <1>1, <2>1
    <3>2. QED BY <3>1 DEF Elems
  <2>2. CASE i > k
    <3>1. i - 1 \in 1..Len(p) /\ p[i - 1] = s[i]
      BY <1>1, <2>2
    <3>2. QED BY <3>1 DEF Elems
  <2>3. QED BY <1>1, <1>3, <2>1, <2>2
<1>4. Elems(p) = Elems(s) \ {s[k]}
  BY <1>2, <1>3 DEF Elems
<1>5. Once(p)
  BY <1>1 DEF Once
<1>6. QED BY <1>4, <1>5 DEF p

LEMMA OnceTail ==
  ASSUME NEW S, NEW s \in Seq(S), s # <<>>, Once(s)
  PROVE  /\ Head(s) \in Elems(s)
         /\ Elems(Tail(s)) = Elems(s) \ {Head(s)} /\ Once(Tail(s))
<1> DEFINE p == Tail(s)
<1>1. /\ Len(s) \in Nat \ {0} /\ Len(p) = Len(s) - 1 /\ Head(s) = s[1]
      /\ \A i \in 1..Len(p) : p[i] = s[i + 1]
  OBVIOUS
<1> HIDE DEF p
<1>2. ASSUME NEW i \in 1..Len(p) PROVE p[i] \in Elems(s) \ {s[1]}
  BY <1>1 DEF Elems, Once
<1>3. ASSUME NEW i \in 1..Len(s), i # 1 PROVE s[i] \in Elems(p)
  <2>1. i - 1 \in 1..Len(p) /\ p[i - 1] = s[i]
    BY <1>1, <1>3
  <2>2. QED BY <2>1 DEF Elems
<1>4. Elems(p) = Elems(s) \ {s[1]}
  BY <1>2, <1>3 DEF Elems
<1>5. Once(p) /\ s[1] \in Elems(s)
  BY <1>1 DEF Once, Elems
<1>6. QED BY <1>1, <1>4, <1>5 DEF p

LEMMA PositionFound ==
  ASSUME NEW s, NEW x \in Elems(s)
  PROVE  Position(s, x) \in 1..Len(s) /\ s[Position(s, x)] = x
<1>1. \E i \in 1..Len(s) : s[i] = x
  BY DEF Elems
<1>2. QED BY <1>1 DEF Position

LEMMA PopElements ==
  ASSUME NEW S, NEW s \in Seq(S), NEW n \in Nat, Len(s) = n + 1
  PROVE  /\ Len(SubSeq(s, 1, n)) = n
         /\ \A i \in 1..n : SubSeq(s, 1, n)[i] = s[i]
<1>1. 1 \in Int /\ n \in Int /\ \A i \in 1..n : s[i] \in S
  OBVIOUS
<1>2. /\ Len(SubSeq(s, 1, n)) = IF 1 <= n THEN n - 1 + 1 ELSE 0
      /\ \A i \in 1..(n - 1 + 1) : SubSeq(s, 1, n)[i] = s[1 + i - 1]
  BY <1>1, SubSeqProperties
<1> DEFINE p == SubSeq(s, 1, n)
<1> HIDE DEF p
<1>3. Len(p) = n /\ \A i \in 1..n : p[i] = s[1 + i - 1] /\ 1 + i - 1 = i
  BY <1>2 DEF p
<1>4. QED BY <1>3 DEF p

-----------------------------------------------------------------------------
(* The stages of a request.                                                *)

Linked(r) == r \in Elems(first_aio)
Queued(r) == r \in Elems(request_list)
Worked(r) == \E t \in Threads : pc[t] = "working" /\ job[t] = r
InCall(r) == Calling(r) # {}

IsFree(r) == /\ ~Linked(r) /\ ~InCall(r) /\ ~Queued(r) /\ ~Worked(r)
             /\ ret[r] = "freed"
IsNew(r) == /\ Linked(r) /\ ~InCall(r) /\ ~Queued(r) /\ ~Worked(r)
            /\ ret[r] = "-EINPROGRESS" /\ ~active[r]
            /\ at = "enqueue" /\ arg = r
IsQueued(r) == /\ Linked(r) /\ ~InCall(r) /\ Queued(r) /\ ~Worked(r)
               /\ ret[r] = "-EINPROGRESS" /\ ~active[r]
IsRunning(r) == /\ Linked(r) /\ ~InCall(r) /\ ~Queued(r) /\ Worked(r)
                /\ ret[r] = "-EINPROGRESS" /\ active[r]
IsDone(r) == /\ Linked(r) /\ ~InCall(r) /\ ~Queued(r) /\ ~Worked(r)
             /\ ret[r] \in Results /\ active[r]
IsCancelled(r) == /\ Linked(r) /\ ~InCall(r) /\ ~Queued(r) /\ ~Worked(r)
                  /\ ret[r] = "-ECANCELED" /\ at = "remove" /\ arg = r
IsCalled(r) == /\ ~Linked(r) /\ InCall(r) /\ ~Queued(r) /\ ~Worked(r)
               /\ ret[r] \in Results

(* Every request is in one of them.                                        *)
Stage(r) ==
  \/ IsFree(r) \/ IsNew(r) \/ IsQueued(r) \/ IsRunning(r)
  \/ IsDone(r) \/ IsCancelled(r) \/ IsCalled(r)
Stages == \A r \in Requests : Stage(r)

(* No list has a request twice, and no two workers or callbacks have one.  *)
OnceEach ==
  /\ Once(first_aio) /\ Once(request_list)
  /\ \A i, j \in 1..Len(callbacks) : callbacks[i].acb = callbacks[j].acb => i = j
  /\ \A t, u \in Threads :
       pc[t] = "working" /\ pc[u] = "working" /\ job[t] = job[u] => t = u
  /\ \A t \in Threads : pc[t] = "working" => job[t] \in Requests

(* What the owner has in hand.                                             *)
OwnerHolds ==
  /\ at = "enqueue" => IsNew(arg)
  /\ at \in {"cancel", "spin"} => Linked(arg)
  /\ at = "spin" => active[arg]
  /\ at = "remove" => Linked(arg) /\ ret[arg] # "-EINPROGRESS"

OwnInv == TypeOK /\ Stages /\ OnceEach /\ OwnerHolds

LEMMA OwnEnough == OwnInv => WorkersOwnTheirRequest
<1> SUFFICES ASSUME OwnInv, NEW t \in Threads, pc[t] = "working"
             PROVE  /\ job[t] \in Elems(first_aio) /\ ret[job[t]] = "-EINPROGRESS"
                    /\ job[t] \notin Elems(request_list)
                    /\ \A u \in Threads : pc[u] = "working" /\ job[u] = job[t] => u = t
  BY DEF WorkersOwnTheirRequest
<1>1. job[t] \in Requests /\ Worked(job[t])
  BY DEF OwnInv, OnceEach, Worked
<1>2. IsRunning(job[t])
  BY <1>1 DEF OwnInv, Stages, Stage, IsFree, IsNew, IsQueued, IsDone, IsCancelled, IsCalled
<1>3. QED BY <1>2 DEF IsRunning, Linked, Queued, OwnInv, OnceEach

-----------------------------------------------------------------------------
(* A step moves one request on, or none, and leaves the others alone.      *)

Still(r) ==
  /\ Linked(r)' <=> Linked(r)
  /\ Queued(r)' <=> Queued(r)
  /\ Worked(r)' <=> Worked(r)
  /\ Calling(r)' = Calling(r)
  /\ \A i \in Calling(r) : callbacks'[i] = callbacks[i]
  /\ ret'[r] = ret[r] /\ active'[r] = active[r]

InHand(r) == at \in {"enqueue", "remove"} /\ arg = r

LEMMA StageKept ==
  ASSUME NEW r, Stage(r), Still(r), InHand(r) => UNCHANGED <<at, arg>>
  PROVE  Stage(r)'
<1>1. InCall(r)' <=> InCall(r)
  BY DEF Still, InCall
<1>2. QED
  BY <1>1 DEF Stage, IsFree, IsNew, IsQueued, IsRunning, IsDone, IsCancelled,
              IsCalled, Still, InHand

LEMMA OthersKept ==
  ASSUME OwnInv, NEW r \in Requests, Stage(r)',
         \A q \in Requests \ {r} : Still(q) /\ (InHand(q) => UNCHANGED <<at, arg>>)
  PROVE  Stages'
<1>1. ASSUME NEW q \in Requests \ {r} PROVE Stage(q)'
  BY <1>1, StageKept DEF OwnInv, Stages
<1>2. QED BY <1>1 DEF Stages

(* Steps that move no request.                                             *)
LEMMA NoneMoved ==
  ASSUME OwnInv, UNCHANGED <<lists, acbs, callbacks, job>>,
         \A t \in Threads : pc'[t] = "working" <=> pc[t] = "working"
  PROVE  /\ \A q : Still(q)
         /\ OnceEach'
         /\ (at \in {"enqueue", "remove"} => UNCHANGED <<at, arg>>) => Stages'
<1> USE DEF lists, acbs
<1>1. ASSUME NEW q PROVE Still(q)
  BY DEF Still, Linked, Queued, Worked, Calling
<1>2. OnceEach'
  BY DEF OwnInv, OnceEach, Once
<1>3. ASSUME at \in {"enqueue", "remove"} => UNCHANGED <<at, arg>> PROVE Stages'
  BY <1>1, <1>3, StageKept DEF OwnInv, Stages, InHand
<1>4. QED BY <1>1, <1>2, <1>3

(* A worker takes the oldest request.                                      *)
LEMMA Taken ==
  ASSUME OwnInv, NEW t \in Threads, TakeRequest(t), pc[t] # "working",
         UNCHANGED <<first_aio, ret, callbacks, at, arg>>,
         NEW r \in Requests, r = Head(request_list)
  PROVE  /\ IsQueued(r) /\ IsRunning(r)'
         /\ \A q \in Requests \ {r} : Still(q)
         /\ OnceEach' /\ OwnerHolds' /\ Stages'
<1>1. /\ request_list # <<>> /\ request_list' = Tail(request_list)
      /\ active' = [active EXCEPT ![r] = TRUE] /\ job' = [job EXCEPT ![t] = r]
      /\ pc' = [pc EXCEPT ![t] = "working"]
  BY DEF TakeRequest
<1>2. /\ request_list \in Seq(Requests) /\ active \in [Requests -> BOOLEAN]
      /\ pc \in [Threads -> WorkerPlaces] /\ DOMAIN job = Threads
  BY DEF OwnInv, TypeOK
<1>3. /\ r \in Elems(request_list)
      /\ Elems(request_list') = Elems(request_list) \ {r} /\ Once(request_list')
  BY <1>1, <1>2, OnceTail DEF OwnInv, OnceEach
<1>4. IsQueued(r)
  BY <1>3 DEF OwnInv, Stages, Stage, IsFree, IsNew, IsRunning, IsDone,
              IsCancelled, IsCalled, Queued
<1>5. pc'[t] = "working" /\ job'[t] = r
      /\ \A u \in Threads \ {t} : pc'[u] = pc[u] /\ job'[u] = job[u]
  BY <1>1, <1>2
<1>6. ASSUME NEW q \in Requests, q # r PROVE Still(q)
  BY <1>1, <1>2, <1>3, <1>5, <1>6 DEF Still, Linked, Queued, Worked, Calling
<1>7. IsRunning(r)'
  <2>1. Worked(r)'
    BY <1>5 DEF Worked
  <2>2. Linked(r)' /\ ~InCall(r)' /\ ~Queued(r)'
    BY <1>1, <1>3, <1>4 DEF IsQueued, Linked, Queued, InCall, Calling
  <2>3. ret'[r] = "-EINPROGRESS" /\ active'[r]
    BY <1>1, <1>2, <1>3, <1>4 DEF IsQueued
  <2>4. QED BY <2>1, <2>2, <2>3 DEF IsRunning
<1>8. OnceEach'
  BY <1>1, <1>2, <1>3, <1>4, <1>5 DEF OwnInv, OnceEach, IsQueued, Worked
<1>9. Stages'
  <2>1. Stage(r)'
    BY <1>7 DEF Stage
  <2>2. QED BY <1>3, <1>6, <2>1, OthersKept
<1>10. OwnerHolds'
  <2>1. at = "enqueue" => arg # r /\ arg \in Requests
    BY <1>4 DEF OwnInv, OwnerHolds, IsQueued, IsNew, TypeOK
  <2>2. at = "enqueue" => IsNew(arg)'
    BY <2>1, <1>6 DEF OwnInv, OwnerHolds, IsNew, Still, InCall
  <2>3. at = "spin" => active'[arg]
    BY <1>1, <1>2 DEF OwnInv, OwnerHolds, TypeOK
  <2>4. QED BY <2>2, <2>3 DEF OwnInv, OwnerHolds, Linked
<1>11. QED BY <1>3, <1>4, <1>6, <1>7, <1>8, <1>9, <1>10

(* A worker stores the result.                                             *)
LEMMA Finished ==
  ASSUME OwnInv, NEW t \in Threads, WorkerFinish(t),
         NEW r \in Requests, r = job[t]
  PROVE  /\ IsRunning(r) /\ IsDone(r)'
         /\ \A q \in Requests \ {r} : Still(q)
         /\ OnceEach' /\ OwnerHolds' /\ Stages'
<1> USE DEF owner, lists
<1>1. /\ pc[t] = "working" /\ pc' = [pc EXCEPT ![t] = "notify"]
      /\ job' = [job EXCEPT ![t] = NoRequest]
      /\ UNCHANGED <<lists, active, callbacks, at, arg>>
  BY DEF WorkerFinish
<1>2. /\ ret \in [Requests -> Rets] /\ pc \in [Threads -> WorkerPlaces]
      /\ DOMAIN job = Threads
  BY DEF OwnInv, TypeOK
<1>3. PICK res \in Results : ret' = [ret EXCEPT ![r] = res]
  BY DEF WorkerFinish
<1>4. IsRunning(r)
  BY <1>1, <1>2 DEF OwnInv, Stages, Stage, IsFree, IsNew, IsQueued, IsDone,
              IsCancelled, IsCalled, Worked
<1>5. \A u \in Threads : (pc'[u] = "working" <=> pc[u] = "working" /\ u # t)
                           /\ (u # t => job'[u] = job[u])
  BY <1>1, <1>2
<1>6. \A u \in Threads : pc[u] = "working" /\ job[u] = r => u = t
  BY <1>1 DEF OwnInv, OnceEach
<1>7. job[t] = r
  OBVIOUS
<1>8. ASSUME NEW q \in Requests, q # r PROVE Still(q)
  BY <1>1, <1>2, <1>3, <1>5, <1>7, <1>8 DEF Still, Linked, Queued, Worked, Calling
<1>9. IsDone(r)'
  <2>1. ~Worked(r)'
    BY <1>5, <1>6 DEF Worked
  <2>2. Linked(r)' /\ ~InCall(r)' /\ ~Queued(r)'
    BY <1>1, <1>4 DEF IsRunning, Linked, Queued, InCall, Calling
  <2>3. ret'[r] \in Results /\ active'[r]
    BY <1>1, <1>2, <1>3, <1>4 DEF IsRunning
  <2>4. QED BY <2>1, <2>2, <2>3 DEF IsDone
<1>10. OnceEach'
  BY <1>1, <1>5 DEF OwnInv, OnceEach, Once
<1>11. Stages'
  <2>1. Stage(r)'
    BY <1>9 DEF Stage
  <2>2. QED BY <1>1, <1>8, <2>1, OthersKept
<1>12. OwnerHolds'
  <2>1. at = "enqueue" => arg # r /\ arg \in Requests
    BY <1>4 DEF OwnInv, OwnerHolds, IsRunning, IsNew, TypeOK
  <2>2. at = "enqueue" => IsNew(arg)'
    BY <1>1, <2>1, <1>8 DEF OwnInv, OwnerHolds, IsNew, Still, InCall
  <2>3. at = "remove" => ret'[arg] # "-EINPROGRESS"
    BY <1>2, <1>3 DEF OwnInv, OwnerHolds, TypeOK, Results
  <2>4. QED BY <1>1, <2>2, <2>3 DEF OwnInv, OwnerHolds, Linked
<1>13. QED BY <1>2, <1>4, <1>8, <1>9, <1>10, <1>11, <1>12

(* A submission links a free request.                                      *)
LEMMA Submitted ==
  ASSUME OwnInv, NEW r \in Requests, Submit(r)
  PROVE  /\ IsFree(r) /\ IsNew(r)'
         /\ \A q \in Requests \ {r} : Still(q)
         /\ OnceEach' /\ OwnerHolds' /\ Stages'
<1> USE DEF workers
<1>1. /\ at = "run" /\ first_aio' = <<r>> \o first_aio
      /\ ret' = [ret EXCEPT ![r] = "-EINPROGRESS"]
      /\ active' = [active EXCEPT ![r] = FALSE]
      /\ at' = "enqueue" /\ arg' = r
      /\ UNCHANGED <<request_list, pc, job, callbacks>>
      /\ ~Linked(r) /\ ~InCall(r)
  BY DEF Submit, Busy, Linked, InCall, Calling
<1>2. /\ first_aio \in Seq(Requests) /\ ret \in [Requests -> Rets]
      /\ active \in [Requests -> BOOLEAN]
  BY DEF OwnInv, TypeOK
<1>3. Elems(first_aio') = Elems(first_aio) \cup {r} /\ Once(first_aio')
  BY <1>1, <1>2, OncePrepend DEF OwnInv, OnceEach, Linked
<1>4. IsFree(r)
  BY <1>1 DEF OwnInv, Stages, Stage, IsNew, IsQueued, IsRunning, IsDone,
              IsCancelled, IsCalled
<1>5. ASSUME NEW q \in Requests, q # r PROVE Still(q)
  BY <1>1, <1>2, <1>3, <1>5 DEF Still, Linked, Queued, Worked, Calling
<1>6. IsNew(r)'
  BY <1>1, <1>2, <1>3, <1>4 DEF IsFree, IsNew, Linked, Queued, Worked, InCall, Calling
<1>7. OnceEach'
  BY <1>1, <1>3 DEF OwnInv, OnceEach
<1>8. Stages'
  <2>1. Stage(r)'
    BY <1>6 DEF Stage
  <2>2. QED BY <1>1, <1>5, <2>1, OthersKept DEF InHand
<1>9. OwnerHolds'
  BY <1>1, <1>6 DEF OwnerHolds
<1>10. QED BY <1>4, <1>5, <1>6, <1>7, <1>8, <1>9

(* It is queued, under the lock.                                           *)
LEMMA Enqueued ==
  ASSUME OwnInv, Enqueue, NEW r \in Requests, r = arg
  PROVE  /\ IsNew(r) /\ IsQueued(r)'
         /\ \A q \in Requests \ {r} : Still(q)
         /\ OnceEach' /\ OwnerHolds' /\ Stages'
<1> USE DEF workers, acbs
<1>1. /\ at = "enqueue" /\ request_list' = Append(request_list, r)
      /\ at' = "signal" /\ UNCHANGED <<first_aio, ret, active, pc, job, callbacks>>
  BY DEF Enqueue
<1>2. request_list \in Seq(Requests)
  BY DEF OwnInv, TypeOK
<1>3. IsNew(r)
  BY <1>1 DEF OwnInv, OwnerHolds
<1>4. Elems(request_list') = Elems(request_list) \cup {r} /\ Once(request_list')
  BY <1>1, <1>2, <1>3, OnceAppend DEF OwnInv, OnceEach, IsNew, Queued
<1>5. ASSUME NEW q \in Requests, q # r PROVE Still(q)
  BY <1>1, <1>4, <1>5 DEF Still, Linked, Queued, Worked, Calling
<1>6. IsQueued(r)'
  BY <1>1, <1>3, <1>4 DEF IsNew, IsQueued, Linked, Queued, Worked, InCall, Calling
<1>7. OnceEach'
  BY <1>1, <1>4 DEF OwnInv, OnceEach
<1>8. Stages'
  <2>1. Stage(r)'
    BY <1>6 DEF Stage
  <2>2. QED BY <1>1, <1>5, <2>1, OthersKept DEF InHand
<1>9. OwnerHolds'
  BY <1>1 DEF OwnerHolds
<1>10. QED BY <1>3, <1>5, <1>6, <1>7, <1>8, <1>9

(* The scan finds a result: unlink and call back.                          *)
LEMMA CalledBack ==
  ASSUME OwnInv, Scan, ret[first_aio[cursor]] \in Results,
         NEW r \in Requests, r = first_aio[cursor]
  PROVE  /\ IsDone(r) /\ IsCalled(r)'
         /\ Calling(r)' # {} /\ \A i \in Calling(r)' : callbacks'[i].code = Code(ret[r])
         /\ \A q \in Requests \ {r} : Still(q)
         /\ OnceEach' /\ OwnerHolds' /\ Stages'
<1> USE DEF workers, acbs
<1>1. /\ at = "scan" /\ cursor \in 1..Len(first_aio)
      /\ first_aio' = Without(first_aio, cursor)
      /\ callbacks' = Append(callbacks, [acb |-> r, code |-> Code(ret[r])])
      /\ at' = "run" /\ UNCHANGED <<request_list, ret, active, pc, job>>
  <2>1. cursor \in Nat \ {0} /\ Len(first_aio) \in Nat
    BY DEF OwnInv, TypeOK
  <2>2. ret[r] # "-EINPROGRESS"
    BY DEF Results
  <2>3. QED BY <2>1, <2>2 DEF Scan
<1>2. first_aio \in Seq(Requests) /\ callbacks \in Seq([acb : Requests, code : Codes])
  BY DEF OwnInv, TypeOK
<1>3. r \in Elems(first_aio)
      /\ Elems(first_aio') = Elems(first_aio) \ {r} /\ Once(first_aio')
  <2>1. r \in Elems(first_aio)
    BY <1>1 DEF Elems
  <2>2. Once(first_aio)
    BY DEF OwnInv, OnceEach
  <2>3. QED BY <1>1, <1>2, <2>1, <2>2, OnceWithout
<1>4. IsDone(r)
  BY <1>3 DEF OwnInv, Stages, Stage, IsFree, IsNew, IsQueued, IsRunning,
              IsCancelled, IsCalled, Linked, Results
<1> DEFINE n == Len(callbacks)
<1>5. /\ n \in Nat /\ Len(callbacks') = n + 1
      /\ callbacks'[n + 1] = [acb |-> r, code |-> Code(ret[r])]
      /\ \A i \in 1..n : callbacks'[i] = callbacks[i] /\ callbacks[i].acb # r
  BY <1>1, <1>2, <1>4 DEF IsDone, InCall, Calling
<1> HIDE DEF n
<1>6. Calling(r)' = {n + 1}
  BY <1>5 DEF Calling
<1>7. \A q \in Requests \ {r} : Calling(q)' = Calling(q)
  BY <1>5 DEF Calling, n
<1>8. ASSUME NEW q \in Requests, q # r PROVE Still(q)
  <2>1. \A i \in Calling(q) : callbacks'[i] = callbacks[i]
    BY <1>5 DEF Calling, n
  <2>2. Calling(q)' = Calling(q)
    BY <1>7, <1>8
  <2>3. QED BY <1>1, <1>3, <1>8, <2>1, <2>2 DEF Still, Linked, Queued, Worked
<1>9. IsCalled(r)'
  BY <1>1, <1>3, <1>4, <1>6 DEF IsDone, IsCalled, Linked, Queued, Worked, InCall
<1>10. OnceEach'
  <2>1. \A i, j \in 1..Len(callbacks') :
          callbacks'[i].acb = callbacks'[j].acb => i = j
    BY <1>5 DEF OwnInv, OnceEach, n
  <2>2. QED BY <1>1, <1>3, <2>1 DEF OwnInv, OnceEach
<1>11. Stages'
  <2>1. Stage(r)'
    BY <1>9 DEF Stage
  <2>2. QED BY <1>1, <1>8, <2>1, OthersKept DEF InHand
<1>12. OwnerHolds'
  BY <1>1 DEF OwnerHolds
<1>13. QED BY <1>4, <1>5, <1>6, <1>8, <1>9, <1>10, <1>11, <1>12

(* The callback returns: its request is released.                          *)
LEMMA Returned ==
  ASSUME OwnInv, CallbackReturn, NEW r \in Requests,
         r = callbacks[Len(callbacks)].acb
  PROVE  /\ IsCalled(r) /\ IsFree(r)'
         /\ \A q \in Requests \ {r} : Still(q)
         /\ OnceEach' /\ OwnerHolds' /\ Stages'
<1> USE DEF workers, lists
<1> DEFINE n == Len(callbacks)
<1>1. /\ at = "run" /\ callbacks # <<>> /\ callbacks' = SubSeq(callbacks, 1, n - 1)
      /\ ret' = [ret EXCEPT ![r] = "freed"]
      /\ active' = [active EXCEPT ![r] = FALSE]
      /\ at' = "scan" /\ UNCHANGED <<request_list, first_aio, pc, job>>
  BY DEF CallbackReturn, Release
<1>2. /\ callbacks \in Seq([acb : Requests, code : Codes])
      /\ ret \in [Requests -> Rets] /\ active \in [Requests -> BOOLEAN]
  BY DEF OwnInv, TypeOK
<1>3. /\ n \in Nat \ {0} /\ Len(callbacks') = n - 1 /\ callbacks[n].acb = r
      /\ \A i \in 1..(n - 1) : callbacks'[i] = callbacks[i]
  <2>1. n \in Nat \ {0}
    BY <1>1, <1>2
  <2>2. /\ Len(SubSeq(callbacks, 1, n - 1)) = n - 1
        /\ \A i \in 1..(n - 1) : SubSeq(callbacks, 1, n - 1)[i] = callbacks[i]
    <3>1. n - 1 \in Nat /\ Len(callbacks) = (n - 1) + 1
      BY <2>1
    <3>2. QED BY <1>2, <3>1, PopElements
  <2>3. QED BY <1>1, <2>1, <2>2
<1>4. \A i \in 1..(n - 1) : callbacks[i].acb # r
  BY <1>3 DEF OwnInv, OnceEach
<1>5. n \in Calling(r)
  BY <1>3 DEF Calling
<1>6. IsCalled(r)
  BY <1>5 DEF OwnInv, Stages, Stage, IsFree, IsNew, IsQueued, IsRunning,
              IsDone, IsCancelled, InCall
<1>7. Calling(r)' = {}
  BY <1>3, <1>4 DEF Calling
<1>8. ASSUME NEW q \in Requests, q # r PROVE Still(q)
  <2>1. Calling(q)' = Calling(q) /\ \A i \in Calling(q) : callbacks'[i] = callbacks[i]
    <3>1. \A i \in 1..n : i = n \/ i \in 1..(n - 1)
      BY <1>3
    <3>2. QED BY <1>3, <1>8, <3>1 DEF Calling
  <2>2. QED BY <1>1, <1>2, <1>8, <2>1 DEF Still, Linked, Queued, Worked
<1>9. IsFree(r)'
  BY <1>1, <1>2, <1>6, <1>7 DEF IsCalled, IsFree, Linked, Queued, Worked, InCall
<1>10. OnceEach'
  <2>1. \A i, j \in 1..Len(callbacks') :
          callbacks'[i].acb = callbacks'[j].acb => i = j
    BY <1>3 DEF OwnInv, OnceEach
  <2>2. QED BY <1>1, <2>1 DEF OwnInv, OnceEach
<1>11. Stages'
  <2>1. Stage(r)'
    BY <1>9 DEF Stage
  <2>2. QED BY <1>1, <1>8, <2>1, OthersKept DEF InHand
<1>12. OwnerHolds'
  BY <1>1 DEF OwnerHolds
<1>13. QED BY <1>6, <1>8, <1>9, <1>10, <1>11, <1>12

(* A request that no worker has taken is withdrawn.                        *)
LEMMA Withdrawn ==
  ASSUME OwnInv, CancelLocked, ~active[arg], NEW r \in Requests, r = arg
  PROVE  /\ IsQueued(r) /\ IsCancelled(r)'
         /\ \A q \in Requests \ {r} : Still(q)
         /\ OnceEach' /\ OwnerHolds' /\ Stages'
<1> USE DEF workers
<1>1. /\ at = "cancel" /\ at' = "remove" /\ arg' = r
      /\ request_list' = Without(request_list, Position(request_list, r))
      /\ ret' = [ret EXCEPT ![r] = "-ECANCELED"]
      /\ UNCHANGED <<first_aio, active, pc, job, callbacks>>
  BY DEF CancelLocked
<1>2. request_list \in Seq(Requests) /\ ret \in [Requests -> Rets]
  BY DEF OwnInv, TypeOK
<1>3. IsQueued(r)
  <2>1. Linked(r) /\ Stage(r)
    BY <1>1 DEF OwnInv, OwnerHolds, Stages
  <2>2. QED
    BY <1>1, <2>1 DEF Stage, IsFree, IsNew, IsRunning, IsDone, IsCancelled, IsCalled
<1>4. Elems(request_list') = Elems(request_list) \ {r} /\ Once(request_list')
  <2>1. /\ Position(request_list, r) \in 1..Len(request_list)
        /\ request_list[Position(request_list, r)] = r
    BY <1>3, PositionFound DEF IsQueued, Queued
  <2>2. Once(request_list)
    BY DEF OwnInv, OnceEach
  <2>3. QED BY <1>1, <1>2, <2>1, <2>2, OnceWithout
<1>5. ASSUME NEW q \in Requests, q # r PROVE Still(q)
  BY <1>1, <1>2, <1>4, <1>5 DEF Still, Linked, Queued, Worked, Calling
<1>6. IsCancelled(r)'
  BY <1>1, <1>2, <1>3, <1>4
  DEF IsQueued, IsCancelled, Linked, Queued, Worked, InCall, Calling
<1>7. OnceEach'
  BY <1>1, <1>4 DEF OwnInv, OnceEach
<1>8. Stages'
  <2>1. Stage(r)'
    BY <1>6 DEF Stage
  <2>2. QED BY <1>1, <1>5, <2>1, OthersKept DEF InHand
<1>9. OwnerHolds'
  <2>1. ret'[r] # "-EINPROGRESS"
    BY <1>1, <1>2
  <2>2. Linked(r)'
    BY <1>6 DEF IsCancelled
  <2>3. QED BY <1>1, <2>1, <2>2 DEF OwnerHolds, Linked
<1>10. QED BY <1>3, <1>5, <1>6, <1>7, <1>8, <1>9

(* The cancelled request is unlinked and released.                         *)
LEMMA Removed ==
  ASSUME OwnInv, Remove, NEW r \in Requests, r = arg
  PROVE  /\ IsDone(r) \/ IsCancelled(r)
         /\ IsFree(r)'
         /\ \A q \in Requests \ {r} : Still(q)
         /\ OnceEach' /\ OwnerHolds' /\ Stages'
<1> USE DEF workers
<1>1. /\ at = "remove" /\ at' = "run"
      /\ first_aio' = Without(first_aio, Position(first_aio, r))
      /\ ret' = [ret EXCEPT ![r] = "freed"]
      /\ active' = [active EXCEPT ![r] = FALSE]
      /\ UNCHANGED <<request_list, pc, job, callbacks>>
  BY DEF Remove, Release
<1>2. /\ first_aio \in Seq(Requests) /\ ret \in [Requests -> Rets]
      /\ active \in [Requests -> BOOLEAN]
  BY DEF OwnInv, TypeOK
<1>3. Linked(r) /\ (IsDone(r) \/ IsCancelled(r))
  BY <1>1 DEF OwnInv, OwnerHolds, Stages, Stage, IsFree, IsNew, IsQueued,
              IsRunning, IsCalled
<1>4. Elems(first_aio') = Elems(first_aio) \ {r} /\ Once(first_aio')
  <2>1. /\ Position(first_aio, r) \in 1..Len(first_aio)
        /\ first_aio[Position(first_aio, r)] = r
    BY <1>3, PositionFound DEF Linked
  <2>2. Once(first_aio)
    BY DEF OwnInv, OnceEach
  <2>3. QED BY <1>1, <1>2, <2>1, <2>2, OnceWithout
<1>5. ASSUME NEW q \in Requests, q # r PROVE Still(q)
  BY <1>1, <1>2, <1>4, <1>5 DEF Still, Linked, Queued, Worked, Calling
<1>6. IsFree(r)'
  BY <1>1, <1>2, <1>3, <1>4
  DEF IsDone, IsCancelled, IsFree, Linked, Queued, Worked, InCall, Calling
<1>7. OnceEach'
  BY <1>1, <1>4 DEF OwnInv, OnceEach
<1>8. Stages'
  <2>1. Stage(r)'
    BY <1>6 DEF Stage
  <2>2. QED BY <1>1, <1>5, <2>1, OthersKept DEF InHand
<1>9. OwnerHolds'
  BY <1>1 DEF OwnerHolds
<1>10. QED BY <1>3, <1>5, <1>6, <1>7, <1>8, <1>9

-----------------------------------------------------------------------------
(* The abstraction.                                                        *)

(* What AsyncIO sees of a request that no step touches stays the same.     *)
LEMMA SeenSame ==
  ASSUME NEW r \in Requests, Still(r)
  PROVE  phase'[r] = phase[r] /\ result'[r] = result[r]
<1>1. /\ Calling(r)' = Calling(r) /\ ret'[r] = ret[r] /\ active'[r] = active[r]
      /\ \A i \in Calling(r) : callbacks'[i] = callbacks[i]
  BY DEF Still
<1>2. phase'[r] = phase[r]
  BY <1>1 DEF phase, Results
<1>3. Calling(r) # {} => (CHOOSE i \in Calling(r) : TRUE) \in Calling(r)
  OBVIOUS
<1>4. result'[r] = result[r]
  <2>1. result'[r] = IF Calling(r)' # {} THEN callbacks'[CHOOSE i \in Calling(r)' : TRUE].code
                     ELSE IF ret'[r] \in Results THEN ret'[r] ELSE "none"
    BY DEF result
  <2>2. result[r] = IF Calling(r) # {} THEN callbacks[CHOOSE i \in Calling(r) : TRUE].code
                    ELSE IF ret[r] \in Results THEN ret[r] ELSE "none"
    BY DEF result
  <2>3. (CHOOSE i \in Calling(r)' : TRUE) = (CHOOSE i \in Calling(r) : TRUE)
    BY <1>1
  <2>4. QED BY <1>1, <1>3, <2>1, <2>2, <2>3
<1>5. QED BY <1>2, <1>4

(* What it sees of the stages.                                             *)
LEMMA Seen ==
  ASSUME NEW r \in Requests
  PROVE  /\ IsFree(r) => phase[r] = "free" /\ result[r] = "none"
         /\ IsNew(r) => phase[r] = "queued" /\ result[r] = "none"
         /\ IsQueued(r) => phase[r] = "queued" /\ result[r] = "none"
         /\ IsRunning(r) => phase[r] = "running" /\ result[r] = "none"
         /\ IsDone(r) => phase[r] = "performed" /\ result[r] = ret[r]
         /\ IsCancelled(r) => phase[r] = "free" /\ result[r] = "none"
         /\ IsCalled(r) => phase[r] = "calling"
                             /\ \E i \in Calling(r) : result[r] = callbacks[i].code
<1>1. phase[r] = IF InCall(r) THEN "calling"
        ELSE IF ret[r] \in Results THEN "performed"
        ELSE IF ret[r] = "-EINPROGRESS" THEN IF active[r] THEN "running" ELSE "queued"
        ELSE "free"
  BY DEF phase, InCall, Results
<1>2. result[r] = IF InCall(r) THEN callbacks[CHOOSE i \in Calling(r) : TRUE].code
        ELSE IF ret[r] \in Results THEN ret[r] ELSE "none"
  BY DEF result, InCall
<1>3. InCall(r) => (CHOOSE i \in Calling(r) : TRUE) \in Calling(r)
  BY DEF InCall
<1>4. QED
  BY <1>1, <1>2, <1>3
  DEF IsFree, IsNew, IsQueued, IsRunning, IsDone, IsCancelled, IsCalled, Results

(* The same of the state after a step.                                     *)
LEMMA SeenNext ==
  ASSUME NEW r \in Requests
  PROVE  /\ IsFree(r)' => phase'[r] = "free" /\ result'[r] = "none"
         /\ IsQueued(r)' => phase'[r] = "queued" /\ result'[r] = "none"
         /\ IsNew(r)' => phase'[r] = "queued" /\ result'[r] = "none"
         /\ IsRunning(r)' => phase'[r] = "running" /\ result'[r] = "none"
         /\ IsDone(r)' => phase'[r] = "performed" /\ result'[r] = ret'[r]
         /\ IsCancelled(r)' => phase'[r] = "free" /\ result'[r] = "none"
         /\ IsCalled(r)' => phase'[r] = "calling"
                              /\ \E i \in Calling(r)' : result'[r] = callbacks'[i].code
<1>1. phase'[r] = IF InCall(r)' THEN "calling"
        ELSE IF ret'[r] \in Results THEN "performed"
        ELSE IF ret'[r] = "-EINPROGRESS" THEN IF active'[r] THEN "running" ELSE "queued"
        ELSE "free"
  BY DEF phase, InCall, Results
<1>2. result'[r] = IF InCall(r)' THEN callbacks'[CHOOSE i \in Calling(r)' : TRUE].code
        ELSE IF ret'[r] \in Results THEN ret'[r] ELSE "none"
  BY DEF result, InCall
<1>3. InCall(r)' => (CHOOSE i \in Calling(r)' : TRUE) \in Calling(r)'
  BY DEF InCall
<1>4. QED
  BY <1>1, <1>2, <1>3
  DEF IsFree, IsNew, IsQueued, IsRunning, IsDone, IsCancelled, IsCalled, Results

LEMMA OneMoves ==
  ASSUME NEW r \in Requests, NEW from, NEW to, NEW res,
         phase[r] = from, phase'[r] = to, result'[r] = res,
         \A q \in Requests \ {r} : Still(q)
  PROVE  Abs!Move(r, from, to, res)
<1>1. /\ phase = [q \in Requests |-> phase[q]] /\ result = [q \in Requests |-> result[q]]
      /\ phase' = [q \in Requests |-> phase'[q]]
      /\ result' = [q \in Requests |-> result'[q]]
  BY DEF phase, result
<1>2. \A q \in Requests \ {r} : phase'[q] = phase[q] /\ result'[q] = result[q]
  BY SeenSame
<1> DEFINE p == phase  p2 == phase'  s == result  s2 == result'
<1>3. p2 = [p EXCEPT ![r] = to] /\ s2 = [s EXCEPT ![r] = res]
  <2> HIDE DEF p, p2, s, s2
  <2>1. /\ p = [q \in Requests |-> p[q]] /\ s = [q \in Requests |-> s[q]]
        /\ p2 = [q \in Requests |-> p2[q]] /\ s2 = [q \in Requests |-> s2[q]]
        /\ p2[r] = to /\ s2[r] = res
        /\ \A q \in Requests \ {r} : p2[q] = p[q] /\ s2[q] = s[q]
    BY <1>1, <1>2 DEF p, p2, s, s2
  <2>2. QED BY <2>1
<1>4. QED BY <1>3 DEF Abs!Move

LEMMA NothingSeen ==
  ASSUME \A q \in Requests : phase'[q] = phase[q] /\ result'[q] = result[q]
  PROVE  UNCHANGED Abs!vars
<1>1. /\ phase = [q \in Requests |-> phase[q]] /\ result = [q \in Requests |-> result[q]]
      /\ phase' = [q \in Requests |-> phase'[q]]
      /\ result' = [q \in Requests |-> result'[q]]
  BY DEF phase, result
<1>2. \A q \in Requests : phase'[q] = phase[q] /\ result'[q] = result[q]
  OBVIOUS
<1> DEFINE p == phase  p2 == phase'  s == result  s2 == result'
<1>3. p2 = p /\ s2 = s
  <2> HIDE DEF p, p2, s, s2
  <2>1. /\ p = [q \in Requests |-> p[q]] /\ s = [q \in Requests |-> s[q]]
        /\ p2 = [q \in Requests |-> p2[q]] /\ s2 = [q \in Requests |-> s2[q]]
        /\ \A q \in Requests : p2[q] = p[q] /\ s2[q] = s[q]
    BY <1>1, <1>2 DEF p, p2, s, s2
  <2>2. QED BY <2>1
<1>4. QED BY <1>3 DEF Abs!vars

(* What a step must keep, and what it must look like from outside.         *)
Good == OnceEach' /\ OwnerHolds' /\ Stages' /\ [Abs!Next]_(Abs!vars)

LEMMA TakenGood ==
  ASSUME OwnInv, NEW t \in Threads, TakeRequest(t), pc[t] # "working",
         UNCHANGED <<first_aio, ret, callbacks, at, arg>>
  PROVE  Good
<1>1. PICK r \in Requests : r = Head(request_list)
  BY OnceTail DEF OwnInv, TypeOK, TakeRequest
<1>2. /\ IsQueued(r) /\ IsRunning(r)' /\ \A q \in Requests \ {r} : Still(q)
      /\ OnceEach' /\ OwnerHolds' /\ Stages'
  BY <1>1, Taken
<1>3. phase[r] = "queued" /\ phase'[r] = "running" /\ result'[r] = "none"
  BY <1>2, Seen, SeenNext
<1>4. Abs!Start(r)
  BY <1>2, <1>3, OneMoves DEF Abs!Start
<1>5. QED BY <1>2, <1>4 DEF Good, Abs!Next

LEMMA FinishedGood ==
  ASSUME OwnInv, NEW t \in Threads, WorkerFinish(t)
  PROVE  Good
<1>1. PICK r \in Requests : r = job[t]
  BY DEF OwnInv, OnceEach, WorkerFinish
<1>2. /\ IsRunning(r) /\ IsDone(r)' /\ \A q \in Requests \ {r} : Still(q)
      /\ OnceEach' /\ OwnerHolds' /\ Stages'
  BY <1>1, Finished
<1>3. /\ phase[r] = "running" /\ phase'[r] = "performed"
      /\ result'[r] = ret'[r] /\ ret'[r] \in Results
  BY <1>2, Seen, SeenNext DEF IsDone
<1>4. Abs!Perform(r)
  BY <1>2, <1>3, OneMoves DEF Abs!Perform
<1>5. QED BY <1>2, <1>4 DEF Good, Abs!Next

LEMMA SubmittedGood ==
  ASSUME OwnInv, NEW r \in Requests, Submit(r)
  PROVE  Good
<1>1. /\ IsFree(r) /\ IsNew(r)' /\ \A q \in Requests \ {r} : Still(q)
      /\ OnceEach' /\ OwnerHolds' /\ Stages'
  BY Submitted
<1>2. phase[r] = "free" /\ phase'[r] = "queued" /\ result'[r] = "none"
  BY <1>1, Seen, SeenNext
<1>3. Abs!Submit(r)
  BY <1>1, <1>2, OneMoves DEF Abs!Submit
<1>4. QED BY <1>1, <1>3 DEF Good, Abs!Next

(* AsyncIO has the request queued since its submission.                    *)
LEMMA EnqueuedGood ==
  ASSUME OwnInv, Enqueue
  PROVE  Good
<1>1. PICK r \in Requests : r = arg
  BY DEF OwnInv, TypeOK, Enqueue
<1>2. /\ IsNew(r) /\ IsQueued(r)' /\ \A q \in Requests \ {r} : Still(q)
      /\ OnceEach' /\ OwnerHolds' /\ Stages'
  BY <1>1, Enqueued
<1>3. phase'[r] = phase[r] /\ result'[r] = result[r]
  BY <1>2, Seen, SeenNext
<1>4. UNCHANGED Abs!vars
  BY <1>2, <1>3, NothingSeen, SeenSame
<1>5. QED BY <1>2, <1>4 DEF Good

LEMMA CalledBackGood ==
  ASSUME OwnInv, Scan, ret[first_aio[cursor]] \in Results
  PROVE  Good
<1>1. PICK r \in Requests : r = first_aio[cursor]
  BY DEF OwnInv, TypeOK, Scan
<1>2. /\ IsDone(r) /\ IsCalled(r)' /\ \A q \in Requests \ {r} : Still(q)
      /\ \A i \in Calling(r)' : callbacks'[i].code = Code(ret[r])
      /\ OnceEach' /\ OwnerHolds' /\ Stages'
  BY <1>1, CalledBack
<1>3. phase[r] = "performed" /\ result[r] = ret[r]
  BY <1>2, Seen
<1>4. phase'[r] = "calling" /\ result'[r] = Code(ret[r])
  BY <1>2, SeenNext
<1>5. Code(ret[r]) \in Codes /\ (Code(ret[r]) = "0" <=> ret[r] = "full")
  BY <1>2 DEF IsDone, Results, Code, Codes
<1>6. Abs!Complete(r)
  BY <1>2, <1>3, <1>4, <1>5, OneMoves DEF Abs!Complete
<1>7. QED BY <1>2, <1>6 DEF Good, Abs!Next

LEMMA ReturnedGood ==
  ASSUME OwnInv, CallbackReturn
  PROVE  Good
<1>1. PICK r \in Requests : r = callbacks[Len(callbacks)].acb
  <2>1. /\ callbacks \in Seq([acb : Requests, code : Codes]) /\ callbacks # <<>>
    BY DEF OwnInv, TypeOK, CallbackReturn
  <2>2. Len(callbacks) \in 1..Len(callbacks)
    BY <2>1
  <2>3. callbacks[Len(callbacks)] \in [acb : Requests, code : Codes]
    BY <2>1, <2>2, ElementOfSeq
  <2>4. QED BY <2>3
<1>2. /\ IsCalled(r) /\ IsFree(r)' /\ \A q \in Requests \ {r} : Still(q)
      /\ OnceEach' /\ OwnerHolds' /\ Stages'
  BY <1>1, Returned
<1>3. phase[r] = "calling" /\ phase'[r] = "free" /\ result'[r] = "none"
  BY <1>2, Seen, SeenNext
<1>4. Abs!Return(r)
  BY <1>2, <1>3, OneMoves DEF Abs!Return
<1>5. QED BY <1>2, <1>4 DEF Good, Abs!Next

LEMMA WithdrawnGood ==
  ASSUME OwnInv, CancelLocked, ~active[arg]
  PROVE  Good
<1>1. PICK r \in Requests : r = arg
  BY DEF OwnInv, TypeOK, CancelLocked
<1>2. /\ IsQueued(r) /\ IsCancelled(r)' /\ \A q \in Requests \ {r} : Still(q)
      /\ OnceEach' /\ OwnerHolds' /\ Stages'
  BY <1>1, Withdrawn
<1>3. phase[r] = "queued" /\ phase'[r] = "free" /\ result'[r] = "none"
  BY <1>2, Seen, SeenNext
<1>4. Abs!Cancel(r)
  BY <1>2, <1>3, OneMoves DEF Abs!Cancel
<1>5. QED BY <1>2, <1>4 DEF Good, Abs!Next

(* AsyncIO has a withdrawn request free already.                           *)
LEMMA RemovedGood ==
  ASSUME OwnInv, Remove
  PROVE  Good
<1>1. PICK r \in Requests : r = arg
  BY DEF OwnInv, TypeOK, Remove
<1>2. /\ IsDone(r) \/ IsCancelled(r)
      /\ IsFree(r)' /\ \A q \in Requests \ {r} : Still(q)
      /\ OnceEach' /\ OwnerHolds' /\ Stages'
  BY <1>1, Removed
<1>3. phase'[r] = "free" /\ result'[r] = "none"
  BY <1>2, SeenNext
<1>4. CASE IsDone(r)
  <2>1. phase[r] = "performed"
    BY <1>4, Seen
  <2>2. Abs!Cancel(r)
    BY <1>2, <1>3, <2>1, OneMoves DEF Abs!Cancel
  <2>3. QED BY <1>2, <2>2 DEF Good, Abs!Next
<1>5. CASE IsCancelled(r)
  <2>1. phase'[r] = phase[r] /\ result'[r] = result[r]
    BY <1>3, <1>5, Seen
  <2>2. UNCHANGED Abs!vars
    BY <1>2, <2>1, NothingSeen, SeenSame
  <2>3. QED BY <1>2, <2>2 DEF Good
<1>6. QED BY <1>2, <1>4, <1>5

(* Steps AsyncIO does not see.                                             *)
LEMMA HiddenGood ==
  ASSUME OwnInv, UNCHANGED <<lists, acbs, callbacks, job>>,
         \A t \in Threads : pc'[t] = "working" <=> pc[t] = "working",
         \/ UNCHANGED <<at, arg>>
         \/ at \notin {"enqueue", "remove"} /\ OwnerHolds'
  PROVE  Good
<1>1. \A q : Still(q)
  BY NoneMoved
<1>2. OnceEach' /\ Stages'
  BY NoneMoved
<1>3. UNCHANGED Abs!vars
  BY <1>1, NothingSeen, SeenSame
<1>4. OwnerHolds'
  BY <1>1 DEF OwnInv, OwnerHolds, IsNew, Still, InCall
<1>5. QED BY <1>2, <1>3, <1>4 DEF Good

LEMMA WorkersGood ==
  ASSUME OwnInv, NEW t \in Threads, Worker(t) \/ WorkerWake(t)
  PROVE  Good
<1> USE DEF lists, acbs, owner
<1>0. pc \in [Threads -> WorkerPlaces]
  BY DEF OwnInv, TypeOK
<1>1. CASE WorkerStart(t) \/ WorkerWake(t) \/ WorkerNotify(t)
  <2>1. /\ UNCHANGED <<lists, acbs, callbacks, job, at, arg>>
        /\ \A u \in Threads : pc'[u] = "working" <=> pc[u] = "working"
    BY <1>0, <1>1 DEF WorkerStart, WorkerWake, WorkerNotify
  <2>2. QED BY <2>1, HiddenGood
<1>2. CASE WorkerSpawn(t) \/ WorkerCreate(t)
  <2>1. /\ UNCHANGED <<lists, acbs, callbacks, job, at, arg>>
        /\ \A u \in Threads : pc'[u] = "working" <=> pc[u] = "working"
    BY <1>0, <1>2 DEF WorkerSpawn, WorkerCreate
  <2>2. QED BY <2>1, HiddenGood
<1>3. CASE WorkerLook(t) \/ WorkerAwake(t)
  <2>1. /\ pc[t] # "working"
        /\ UNCHANGED <<first_aio, ret, callbacks, at, arg>>
    BY <1>3 DEF WorkerLook, WorkerAwake
  <2>2. CASE TakeRequest(t)
    BY <2>1, <2>2, TakenGood
  <2>3. CASE ~TakeRequest(t)
    <3>1. /\ UNCHANGED <<lists, acbs, callbacks, job, at, arg>>
          /\ \A u \in Threads : pc'[u] = "working" <=> pc[u] = "working"
      BY <1>0, <1>3, <2>3 DEF WorkerLook, WorkerAwake, Sleep
    <3>2. QED BY <3>1, HiddenGood
  <2>4. QED BY <2>2, <2>3
<1>4. CASE WorkerFinish(t)
  BY <1>4, FinishedGood
<1>5. QED BY <1>1, <1>2, <1>3, <1>4 DEF Worker

(* The owner is busy with no request.                                      *)
Elsewhere == {"run", "signal", "spawn", "create", "drain", "scan"}

LEMMA OwnerGood ==
  ASSUME OwnInv, OwnerContinues
  PROVE  Good
<1> USE DEF lists, acbs, workers
<1>1. CASE Enqueue
  BY <1>1, EnqueuedGood
<1>2. CASE Signal \/ OwnerSpawn \/ OwnerCreate \/ Drain \/ EndScan
  <2>1. /\ UNCHANGED <<lists, acbs, callbacks, job>>
        /\ at \in Elsewhere /\ at' \in Elsewhere
    BY <1>2 DEF Signal, OwnerSpawn, OwnerCreate, Drain, EndScan, Elsewhere
  <2>2. \A t \in Threads : pc'[t] = "working" <=> pc[t] = "working"
    BY <1>2 DEF Signal, OwnerSpawn, OwnerCreate, Drain, EndScan, OwnInv, TypeOK
  <2>3. at \notin {"enqueue", "remove"} /\ OwnerHolds'
    BY <2>1 DEF Elsewhere, OwnerHolds
  <2>4. QED BY <2>1, <2>2, <2>3, HiddenGood
<1>3. CASE Scan
  <2>1. CASE ret[first_aio[cursor]] \in Results
    BY <1>3, <2>1, CalledBackGood
  <2>2. CASE ret[first_aio[cursor]] \notin Results
    <3>1. UNCHANGED <<lists, acbs, callbacks, job, pc, at, arg>>
      BY <1>3, <2>2 DEF Scan
    <3>2. QED BY <3>1, HiddenGood
  <2>3. QED BY <2>1, <2>2
<1>4. CASE CancelLocked
  <2>1. CASE ~active[arg]
    BY <1>4, <2>1, WithdrawnGood
  <2>2. CASE active[arg]
    <3>1. /\ UNCHANGED <<lists, acbs, callbacks, job, pc, arg>> /\ at = "cancel"
          /\ \/ at' = "spin"
             \/ at' = "remove" /\ ret[arg] # "-EINPROGRESS"
      BY <1>4, <2>2 DEF CancelLocked
    <3>2. OwnerHolds'
      BY <2>2, <3>1 DEF OwnInv, OwnerHolds, Linked
    <3>3. QED BY <3>1, <3>2, HiddenGood
  <2>3. QED BY <2>1, <2>2
<1>5. CASE CancelSpin
  <2>1. /\ UNCHANGED <<lists, acbs, callbacks, job, pc, arg>> /\ at = "spin"
        /\ at' = "remove" /\ ret[arg] # "-EINPROGRESS"
    BY <1>5 DEF CancelSpin
  <2>2. OwnerHolds'
    BY <2>1 DEF OwnInv, OwnerHolds, Linked
  <2>3. QED BY <2>1, <2>2, HiddenGood
<1>6. CASE Remove
  BY <1>6, RemovedGood
<1>7. QED BY <1>1, <1>2, <1>3, <1>4, <1>5, <1>6 DEF OwnerContinues

LEMMA StepGood ==
  ASSUME OwnInv, [Next]_vars
  PROVE  Good
<1> USE DEF lists, acbs, workers, owner
<1>1. ASSUME NEW t \in Threads, Worker(t) \/ WorkerWake(t) PROVE Good
  BY <1>1, WorkersGood
<1>2. CASE OwnerContinues
  BY <1>2, OwnerGood
<1>3. ASSUME NEW r \in Requests, Submit(r) PROVE Good
  BY <1>3, SubmittedGood
<1>4. ASSUME NEW r \in Requests, Cancel(r) PROVE Good
  <2>1. /\ UNCHANGED <<lists, acbs, callbacks, job, pc>> /\ at = "run"
        /\ at' = "cancel" /\ Linked(arg)'
    BY <1>4 DEF Cancel, Linked
  <2>2. OwnerHolds'
    BY <2>1 DEF OwnerHolds
  <2>3. QED BY <2>1, <2>2, HiddenGood
<1>5. CASE RunSpawnBH \/ Select \/ StartRead
  <2>1. /\ UNCHANGED <<lists, acbs, callbacks, job, pc>> /\ at = "run"
        /\ at' \in Elsewhere
    BY <1>5 DEF RunSpawnBH, Select, StartRead, Elsewhere
  <2>2. OwnerHolds'
    BY <2>1 DEF OwnerHolds, Elsewhere
  <2>3. QED BY <2>1, <2>2, HiddenGood
<1>6. CASE CallbackReturn
  BY <1>6, ReturnedGood
<1>7. CASE UNCHANGED vars
  <2>1. UNCHANGED <<lists, acbs, callbacks, job, pc, at, arg>>
    BY <1>7 DEF vars
  <2>2. QED BY <2>1, HiddenGood
<1>8. QED BY <1>1, <1>2, <1>3, <1>4, <1>5, <1>6, <1>7 DEF Next

LEMMA InitGood == Init => OwnInv /\ Abs!Init
<1> SUFFICES ASSUME Init PROVE OwnInv /\ Abs!Init
  OBVIOUS
<1>1. /\ first_aio = <<>> /\ request_list = <<>> /\ callbacks = <<>> /\ at = "run"
      /\ ret = [r \in Requests |-> "freed"] /\ pc = [t \in Threads |-> "none"]
  BY DEF Init
<1>2. \A r \in Requests : IsFree(r)
  BY <1>1 DEF IsFree, Linked, Queued, InCall, Calling, Worked, Elems
<1>3. OnceEach /\ OwnerHolds
  BY <1>1 DEF OnceEach, OwnerHolds, Once
<1>4. \A r \in Requests : phase[r] = "free" /\ result[r] = "none"
  BY <1>2, Seen
<1>5. phase = [r \in Requests |-> phase[r]] /\ result = [r \in Requests |-> result[r]]
  BY DEF phase, result
<1>6. Abs!Init
  <2> DEFINE p == phase  s == result
  <2> HIDE DEF p, s
  <2>1. p = [r \in Requests |-> "free"] /\ s = [r \in Requests |-> "none"]
    BY <1>4, <1>5 DEF p, s
  <2>2. QED BY <2>1 DEF p, s, Abs!Init
<1>7. QED BY <1>2, <1>3, <1>6, InitTyped DEF OwnInv, Stages, Stage

LEMMA OwnInvariant == Spec => []OwnInv
<1>1. OwnInv /\ TypeOK' /\ [Next]_vars => OwnInv'
  BY StepGood DEF OwnInv, Good
<1>2. QED BY <1>1, InitGood, TypeCorrect, PTL DEF Spec

(* A worker is only ever inside a request that is allocated, in progress   *)
(* and off the queue, and no other worker is inside it: neither paio_cancel*)
(* nor posix_aio_read frees what a transfer still uses.                    *)
THEOREM RequestsOwned == Spec => []WorkersOwnTheirRequest
BY OwnInvariant, OwnEnough, PTL

(* The pool is an implementation of AsyncIO: a request is performed at most*)
(* once, called back once, after its transfer and with its result, and     *)
(* never after it was cancelled.                                           *)
THEOREM ImplementsAsyncIO == Spec => Implements
<1>1. OwnInv /\ [Next]_vars => [Abs!Next]_(Abs!vars)
  BY StepGood DEF Good
<1>2. QED BY <1>1, InitGood, OwnInvariant, PTL DEF Spec, Implements, Abs!Spec

-----------------------------------------------------------------------------
(* Finished requests are found.                                            *)

(* The owner will hear of a result, whatever it is doing.                  *)
Awake == pipe > 0 \/ (\E t \in Threads : pc[t] = "notify") \/ callbacks # <<>>

(* A scan that starts at the head sees every request.                      *)
Fresh == at = "drain" \/ (at = "scan" /\ cursor = 1)

LEMMA AwakeStep ==
  ASSUME TypeOK, Awake, [Next]_vars
  PROVE  Awake' \/ Fresh'
<1> USE DEF lists, acbs, pool, workers, owner
<1>0. /\ pc \in [Threads -> WorkerPlaces] /\ pipe \in Nat
      /\ callbacks \in Seq([acb : Requests, code : Codes])
      /\ PipeCap \in Nat \ {0} /\ Chunk \in Nat \ {0}
  BY PoolAssumption DEF TypeOK, PoolAssumption
<1>1. ASSUME NEW t \in Threads, WorkerStart(t) \/ WorkerSpawn(t) \/ WorkerCreate(t)
      PROVE  Awake'
  BY <1>0, <1>1 DEF WorkerStart, WorkerSpawn, WorkerCreate, Awake
<1>2. ASSUME NEW t \in Threads, WorkerLook(t) \/ WorkerAwake(t) \/ WorkerWake(t)
      PROVE  Awake'
  BY <1>0, <1>2 DEF WorkerLook, WorkerAwake, WorkerWake, TakeRequest, Sleep, Awake
<1>3. ASSUME NEW t \in Threads, WorkerFinish(t)
      PROVE  Awake'
  <2>1. pc'[t] = "notify"
    BY <1>0, <1>3 DEF WorkerFinish
  <2>2. QED BY <2>1 DEF Awake
<1>4. ASSUME NEW t \in Threads, WorkerNotify(t)
      PROVE  Awake'
  <2>1. pipe' > 0
    BY <1>0, <1>4 DEF WorkerNotify
  <2>2. QED BY <2>1 DEF Awake
<1>5. CASE Enqueue \/ OwnerSpawn \/ EndScan \/ CancelLocked \/ CancelSpin \/ Remove
  BY <1>5 DEF Enqueue, OwnerSpawn, EndScan, CancelLocked, CancelSpin, Remove, Awake
<1>6. CASE Signal \/ OwnerCreate
  BY <1>0, <1>6 DEF Signal, OwnerCreate, Awake
<1>7. CASE Drain
  <2>1. CASE pipe >= Chunk
    BY <1>7, <2>1 DEF Drain, Fresh
  <2>2. CASE ~(pipe >= Chunk)
    BY <1>7, <2>2 DEF Drain, Fresh
  <2>3. QED BY <2>1, <2>2
<1>8. CASE Scan
  <2>1. CASE UNCHANGED callbacks
    BY <1>8, <2>1 DEF Scan, Awake
  <2>2. CASE \E c : callbacks' = Append(callbacks, c)
    <3>1. callbacks' # <<>>
      BY <1>0, <2>2
    <3>2. QED BY <3>1 DEF Awake
  <2>3. QED BY <1>8, <2>1, <2>2 DEF Scan
<1>9. ASSUME NEW r \in Requests, Submit(r) \/ Cancel(r) PROVE Awake'
  BY <1>9 DEF Submit, Cancel, Awake
<1>10. CASE RunSpawnBH \/ Select \/ StartRead \/ UNCHANGED vars
  BY <1>10 DEF RunSpawnBH, Select, StartRead, vars, Awake
<1>11. CASE CallbackReturn
  BY <1>11 DEF CallbackReturn, Fresh
<1>12. QED
  BY <1>1, <1>2, <1>3, <1>4, <1>5, <1>6, <1>7, <1>8, <1>9, <1>10, <1>11
  DEF Next, Worker, OwnerContinues

LEMMA AwakeEnough == TypeOK /\ (Awake \/ Fresh) => NoLostCompletion
BY DEF TypeOK, Awake, Fresh, NoLostCompletion

(* When nobody is awake it is the owner's scan, or its cancellation, that  *)
(* will find the result.                                                   *)
Seeing(i) ==
  \/ at = "scan" /\ cursor <= i
  \/ at \in {"cancel", "spin", "remove"} /\ arg = first_aio[i]

LEMMA CompletionStep ==
  ASSUME OwnInv, TypeOK', NoLostCompletion, [Next]_vars
  PROVE  NoLostCompletion'
<1> USE DEF lists, acbs, pool, workers, owner
<1>0. /\ pc \in [Threads -> WorkerPlaces] /\ ret \in [Requests -> Rets]
      /\ first_aio \in Seq(Requests) /\ Len(first_aio) \in Nat
      /\ cursor \in Nat \ {0}
      /\ callbacks \in Seq([acb : Requests, code : Codes])
  BY DEF OwnInv, TypeOK
<1>a. Awake' \/ Fresh' => NoLostCompletion'
  <2>1. TypeOK' /\ (Awake' \/ Fresh') => NoLostCompletion'
    BY AwakeEnough, PTL
  <2>2. QED BY <2>1
<1>b. CASE Awake
  BY <1>a, <1>b, AwakeStep DEF OwnInv
<1>c. CASE ~Awake
  <2>0. \A i \in 1..Len(first_aio) :
          ret[first_aio[i]] \in Results => at = "drain" \/ Seeing(i)
    BY <1>c DEF NoLostCompletion, Awake, Seeing
  <2>1. ASSUME NEW t \in Threads, WorkerFinish(t) PROVE Awake'
    <3>1. pc'[t] = "notify"
      BY <1>0, <2>1 DEF WorkerFinish
    <3>2. QED BY <3>1 DEF Awake
  <2>2. ASSUME NEW t \in Threads, WorkerNotify(t) PROVE Awake'
    BY <1>c, <2>2 DEF WorkerNotify, Awake
  <2>3. ASSUME UNCHANGED <<first_aio, ret, at, arg, cursor>> PROVE NoLostCompletion'
    BY <2>0, <2>3 DEF NoLostCompletion, Seeing
  <2>4. ASSUME NEW t \in Threads, Worker(t) \/ WorkerWake(t) PROVE NoLostCompletion'
    <3>1. CASE WorkerFinish(t) \/ WorkerNotify(t)
      BY <1>a, <2>1, <2>2, <3>1
    <3>2. CASE ~(WorkerFinish(t) \/ WorkerNotify(t))
      <4>1. UNCHANGED <<first_aio, ret, at, arg, cursor>>
        BY <2>4, <3>2 DEF Worker, WorkerStart, WorkerSpawn, WorkerCreate,
           WorkerLook, WorkerAwake, WorkerWake
      <4>2. QED BY <2>3, <4>1
    <3>3. QED BY <3>1, <3>2
  <2>5. CASE Drain \/ StartRead \/ CallbackReturn
    <3>1. CASE Drain /\ pipe >= Chunk
      BY <1>a, <3>1 DEF Drain, Fresh
    <3>2. CASE Drain /\ ~(pipe >= Chunk)
      BY <1>a, <3>2 DEF Drain, Fresh
    <3>3. CASE StartRead \/ CallbackReturn
      BY <1>a, <3>3 DEF StartRead, CallbackReturn, Fresh
    <3>4. QED BY <2>5, <3>1, <3>2, <3>3
  <2>6. CASE Enqueue \/ Signal \/ OwnerSpawn \/ OwnerCreate \/ RunSpawnBH \/ Select
    <3>1. /\ UNCHANGED <<first_aio, ret>>
          /\ at \notin {"drain", "scan", "cancel", "spin", "remove"}
      BY <2>6 DEF Enqueue, Signal, OwnerSpawn, OwnerCreate, RunSpawnBH, Select
    <3>2. QED BY <2>0, <3>1 DEF NoLostCompletion, Seeing
  <2>7. CASE Scan
    <3>1. CASE ret[first_aio[cursor]] \in Results
      <4>1. \E c : callbacks' = Append(callbacks, c)
        BY <2>7, <3>1 DEF Scan, Results
      <4>2. callbacks' # <<>>
        BY <1>0, <4>1
      <4>3. QED BY <1>a, <4>2 DEF Awake
    <3>2. CASE ret[first_aio[cursor]] \notin Results
      <4>1. /\ at = "scan" /\ cursor' = cursor + 1
            /\ UNCHANGED <<first_aio, ret, at>>
        BY <2>7, <3>2 DEF Scan
      <4>2. \A i \in 1..Len(first_aio) : ret[first_aio[i]] \in Results => cursor + 1 <= i
        BY <1>0, <2>0, <3>2, <4>1 DEF Seeing
      <4>3. QED BY <4>1, <4>2 DEF NoLostCompletion
    <3>3. QED BY <3>1, <3>2
  <2>8. CASE EndScan
    <3>1. \A i \in 1..Len(first_aio) : ret[first_aio[i]] \notin Results
      BY <1>0, <2>0, <2>8 DEF EndScan, Seeing
    <3>2. QED BY <2>8, <3>1 DEF EndScan, NoLostCompletion
  <2>9. CASE CancelLocked
    <3>1. /\ at = "cancel" /\ at' \in {"spin", "remove"} /\ UNCHANGED <<first_aio, arg>>
          /\ ret' = ret \/ ret' = [ret EXCEPT ![arg] = "-ECANCELED"]
      BY <2>9 DEF CancelLocked
    <3>2. \A r \in Requests : ret'[r] \in Results => ret[r] \in Results
      BY <1>0, <3>1 DEF Results
    <3>3. \A i \in 1..Len(first_aio) : first_aio[i] \in Requests
      BY <1>0
    <3>4. \A i \in 1..Len(first_aio) : ret'[first_aio[i]] \in Results => arg = first_aio[i]
      BY <2>0, <3>1, <3>2, <3>3 DEF Seeing
    <3>5. QED BY <3>1, <3>4 DEF NoLostCompletion
  <2>10. CASE CancelSpin
    BY <2>0, <2>10 DEF CancelSpin, NoLostCompletion, Seeing
  <2>11. CASE Remove
    <3>1. /\ at = "remove" /\ ret' = [ret EXCEPT ![arg] = "freed"]
          /\ first_aio' = Without(first_aio, Position(first_aio, arg))
      BY <2>11 DEF Remove, Release
    <3>2. Elems(first_aio') = Elems(first_aio) \ {arg}
      <4>1. arg \in Elems(first_aio) /\ Once(first_aio)
        BY <3>1 DEF OwnInv, OwnerHolds, OnceEach, Linked
      <4>2. QED BY <1>0, <3>1, <4>1, PositionFound, OnceWithout
    <3>3. \A r \in Elems(first_aio) \ {arg} : ret[r] \notin Results
      BY <2>0, <3>1 DEF Elems, Seeing
    <3>4. \A r \in Elems(first_aio) : r \in Requests
      BY <1>0 DEF Elems
    <3>5. \A r \in Elems(first_aio') : ret'[r] \notin Results
      BY <1>0, <3>1, <3>2, <3>3, <3>4
    <3>6. QED BY <3>5 DEF NoLostCompletion, Elems
  <2>12. ASSUME NEW r \in Requests, Submit(r) PROVE NoLostCompletion'
    <3>1. /\ at = "run" /\ ret' = [ret EXCEPT ![r] = "-EINPROGRESS"]
          /\ first_aio' = <<r>> \o first_aio
      BY <2>12 DEF Submit
    <3>2. Elems(first_aio') = Elems(first_aio) \cup {r}
      BY <1>0, <3>1, OncePrepend
    <3>3. \A q \in Elems(first_aio) : ret[q] \notin Results
      BY <2>0, <3>1 DEF Elems, Seeing
    <3>4. \A q \in Elems(first_aio') : ret'[q] \notin Results
      BY <1>0, <3>1, <3>2, <3>3 DEF Results
    <3>5. QED BY <3>4 DEF NoLostCompletion, Elems
  <2>13. ASSUME NEW r \in Requests, Cancel(r) PROVE NoLostCompletion'
    <3>1. UNCHANGED <<first_aio, ret>> /\ at = "run"
      BY <2>13 DEF Cancel
    <3>2. QED BY <2>0, <3>1 DEF NoLostCompletion, Seeing
  <2>14. CASE UNCHANGED vars
    <3>1. UNCHANGED <<first_aio, ret, at, arg, cursor>>
      BY <2>14 DEF vars
    <3>2. QED BY <2>3, <3>1
  <2>15. QED
    BY <2>4, <2>5, <2>6, <2>7, <2>8, <2>9, <2>10, <2>11, <2>12, <2>13, <2>14
    DEF Next, OwnerContinues
<1>d. QED BY <1>b, <1>c

(* No result is left lying in the list: its byte is in the pipe or coming, *)
(* or the owner is on the way to it, though the pipe may be full and the   *)
(* list changes under posix_aio_read's feet.                               *)
THEOREM CompletionsNeverLost == Spec => []NoLostCompletion
<1>1. Init => NoLostCompletion
  BY DEF Init, NoLostCompletion
<1>2. OwnInv /\ TypeOK' /\ NoLostCompletion /\ [Next]_vars => NoLostCompletion'
  BY CompletionStep
<1>3. QED BY <1>1, <1>2, OwnInvariant, TypeCorrect, PTL DEF Spec
=============================================================================
