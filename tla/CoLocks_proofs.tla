---------------------------- MODULE CoLocks_proofs --------------------------
(***************************************************************************)
(* Proofs about the coroutine locks of CoLocks, for any number of          *)
(* coroutines.                                                             *)
(***************************************************************************)
EXTENDS CoLocks, FiniteSetTheorems, SequenceTheorems, TLAPS

-----------------------------------------------------------------------------
(* Sequences without repetition.                                           *)

Distinct(s) == \A i, j \in 1..Len(s) : s[i] = s[j] => i = j

(* Appending a new element.                                                *)
LEMMA AppendElems ==
  ASSUME NEW S, NEW s \in Seq(S), NEW c \in S
  PROVE  /\ Append(s, c) \in Seq(S)
         /\ Elems(Append(s, c)) = Elems(s) \cup {c}
         /\ Distinct(s) /\ c \notin Elems(s) => Distinct(Append(s, c))
<1>1. Len(Append(s, c)) = Len(s) + 1 /\ Len(s) \in Nat
  OBVIOUS
<1>2. \A i \in 1..(Len(s) + 1) :
        Append(s, c)[i] = IF i <= Len(s) THEN s[i] ELSE c
  OBVIOUS
<1>3. QED
  BY <1>1, <1>2 DEF Elems, Distinct

(* Removing the first element.                                             *)
LEMMA TailElems ==
  ASSUME NEW S, NEW s \in Seq(S), s # <<>>
  PROVE  /\ Head(s) \in S /\ Head(s) \in Elems(s) /\ Tail(s) \in Seq(S)
         /\ Elems(s) = Elems(Tail(s)) \cup {Head(s)}
         /\ Distinct(s) => Distinct(Tail(s)) /\ Head(s) \notin Elems(Tail(s))
<1>1. Len(s) \in Nat \ {0} /\ Len(Tail(s)) = Len(s) - 1 /\ Head(s) = s[1]
  OBVIOUS
<1>2. \A i \in 1..(Len(s) - 1) : Tail(s)[i] = s[i + 1]
  OBVIOUS
<1>3. Tail(s) \in Seq(S) /\ s[1] \in S
  OBVIOUS
<1>4. \A i \in 1..Len(s) : i = 1 \/ (i - 1 \in 1..(Len(s) - 1) /\ s[i] = Tail(s)[i - 1])
  BY <1>1, <1>2
<1>5. QED
  BY <1>1, <1>2, <1>3, <1>4 DEF Elems, Distinct

(* Concatenating sequences that share nothing.                             *)
LEMMA ConcatElems ==
  ASSUME NEW S, NEW s \in Seq(S), NEW t \in Seq(S)
  PROVE  /\ s \o t \in Seq(S)
         /\ Elems(s \o t) = Elems(s) \cup Elems(t)
         /\ Distinct(s) /\ Distinct(t) /\ Elems(s) \cap Elems(t) = {}
              => Distinct(s \o t)
<1>1. Len(s \o t) = Len(s) + Len(t) /\ Len(s) \in Nat /\ Len(t) \in Nat
  OBVIOUS
<1>2. \A i \in 1..(Len(s) + Len(t)) :
        (s \o t)[i] = IF i <= Len(s) THEN s[i] ELSE t[i - Len(s)]
  OBVIOUS
<1>3. \A i \in 1..Len(t) : (s \o t)[i + Len(s)] = t[i]
  BY <1>1, <1>2
<1>4. Elems(s \o t) = Elems(s) \cup Elems(t)
  <2>1. ASSUME NEW i \in 1..Len(s \o t)
        PROVE  (s \o t)[i] \in Elems(s) \cup Elems(t)
    <3>1. i \in 1..Len(s) \/ i - Len(s) \in 1..Len(t)
      BY <1>1
    <3>2. QED BY <1>1, <1>2, <3>1 DEF Elems
  <2>2. ASSUME NEW i \in 1..Len(s)
        PROVE  s[i] \in Elems(s \o t)
    BY <1>1, <1>2 DEF Elems
  <2>3. ASSUME NEW i \in 1..Len(t)
        PROVE  t[i] \in Elems(s \o t)
    <3>1. i + Len(s) \in 1..Len(s \o t)
      BY <1>1
    <3>2. QED BY <1>3, <3>1 DEF Elems
  <2>4. Elems(s \o t) \subseteq Elems(s) \cup Elems(t)
    BY <2>1 DEF Elems
  <2>5. Elems(s) \subseteq Elems(s \o t) /\ Elems(t) \subseteq Elems(s \o t)
    BY <2>2, <2>3 DEF Elems
  <2>6. QED BY <2>4, <2>5
<1>5. ASSUME Distinct(s), Distinct(t), Elems(s) \cap Elems(t) = {}
      PROVE  Distinct(s \o t)
  <2>1. SUFFICES ASSUME NEW i \in 1..Len(s \o t), NEW j \in 1..Len(s \o t),
                        (s \o t)[i] = (s \o t)[j]
                 PROVE  i = j
    BY DEF Distinct
  <2>2. i \in 1..Len(s) \/ i - Len(s) \in 1..Len(t)
    BY <1>1
  <2>3. j \in 1..Len(s) \/ j - Len(s) \in 1..Len(t)
    BY <1>1
  <2>4. CASE i <= Len(s) /\ j <= Len(s)
    BY <1>1, <1>2, <1>5, <2>1, <2>4 DEF Distinct
  <2>5. CASE i > Len(s) /\ j > Len(s)
    BY <1>1, <1>2, <1>5, <2>1, <2>2, <2>3, <2>5 DEF Distinct
  <2>6. ASSUME NEW k \in 1..Len(s), NEW m \in 1..Len(t)
        PROVE  s[k] # t[m]
    BY <1>5 DEF Elems
  <2>7. CASE i <= Len(s) <=> j > Len(s)
    BY <1>1, <1>2, <2>1, <2>2, <2>3, <2>6, <2>7
  <2>8. QED BY <1>1, <2>4, <2>5, <2>7
<1>6. QED BY <1>4, <1>5

(* Removing the last element: yielding, terminating, returning.            *)
DistinctBut(s, x) == \A i, j \in 1..Len(s) : s[i] = s[j] /\ s[i] # x => i = j

LEMMA PopElems ==
  ASSUME NEW S, NEW n \in Nat, NEW s \in Seq(S), Len(s) = n + 1,
         NEW x, DistinctBut(s, x)
  PROVE  /\ SubSeq(s, 1, n) \in Seq(S) /\ DistinctBut(SubSeq(s, 1, n), x)
         /\ s[n + 1] \in Elems(s)
         /\ Elems(s) = Elems(SubSeq(s, 1, n)) \cup {s[n + 1]}
         /\ s[n + 1] # x => s[n + 1] \notin Elems(SubSeq(s, 1, n))
<1> DEFINE p == SubSeq(s, 1, n)
<1>1. \A i \in 1..n : s[i] \in S
  OBVIOUS
<1>2. /\ p \in Seq(S)
      /\ Len(p) = IF 1 <= n THEN n - 1 + 1 ELSE 0
      /\ \A i \in 1..(n - 1 + 1) : p[i] = s[1 + i - 1]
  BY <1>1, SubSeqProperties
<1> HIDE DEF p
<1>3. Len(p) = n /\ \A i \in 1..n : p[i] = s[i]
  BY <1>2
<1>4. s[n + 1] \in Elems(s) /\ Elems(s) = Elems(p) \cup {s[n + 1]}
  BY <1>3 DEF Elems
<1>5. DistinctBut(p, x)
  BY <1>3 DEF DistinctBut
<1>6. ASSUME s[n + 1] # x, s[n + 1] \in Elems(p) PROVE FALSE
  <2>1. PICK i \in 1..n : s[n + 1] = s[i]
    BY <1>3, <1>6 DEF Elems
  <2>2. QED BY <1>6, <2>1 DEF DistinctBut
<1>7. QED BY <1>2, <1>4, <1>5, <1>6 DEF p

(* Appending to a stack.                                                   *)
LEMMA PushElems ==
  ASSUME NEW S, NEW s \in Seq(S), NEW x, NEW c \in S, DistinctBut(s, x),
         c = x \/ c \notin Elems(s)
  PROVE  /\ Append(s, c) \in Seq(S) /\ Append(s, c) # <<>>
         /\ Elems(Append(s, c)) = Elems(s) \cup {c}
         /\ DistinctBut(Append(s, c), x)
<1>1. Len(Append(s, c)) = Len(s) + 1 /\ Len(s) \in Nat
  OBVIOUS
<1>2. \A i \in 1..(Len(s) + 1) :
        Append(s, c)[i] = IF i <= Len(s) THEN s[i] ELSE c
  OBVIOUS
<1>3. QED
  BY <1>1, <1>2, AppendElems DEF Elems, DistinctBut

-----------------------------------------------------------------------------
(* The invariant.                                                          *)

Names == {"mutex", "rwlock"}

(* A coroutine is in one place: a wait queue, the queue of the woken, the  *)
(* stack, or suspended for I/O.                                            *)
Apart ==
  /\ \A l \in Names : Distinct(queue[l])
  /\ Distinct(unlock_bh_queue) /\ DistinctBut(stack, Bh)
  /\ Elems(queue["mutex"]) \cap Elems(queue["rwlock"]) = {}
  /\ \A l \in Names : Elems(queue[l]) \cap Elems(unlock_bh_queue) = {}
  /\ \A l \in Names : \A c \in Elems(queue[l]) :
       want[c] # "none" /\ LockOf(want[c]) = l /\ c \notin Elems(stack) \cup in_io
  /\ \A c \in Elems(unlock_bh_queue) :
       want[c] # "none" /\ c \notin Elems(stack) \cup in_io
  /\ Elems(stack) \cap in_io = {}

CoInv ==
  /\ TypeOK /\ Exclusion /\ Apart /\ NoLostWakeup /\ ReadersWaitForAWriter
  /\ WokenEntered

-----------------------------------------------------------------------------
(* What the building blocks of the actions do.                             *)

(* The elements of a sequence over S are in S.                             *)
LEMMA ElemsType ==
  ASSUME NEW S, NEW s \in Seq(S)
  PROVE  Elems(s) \subseteq S /\ (s = <<>> <=> Elems(s) = {})
<1>1. CASE s = <<>>
  BY <1>1 DEF Elems
<1>2. CASE s # <<>>
  <2>1. s[1] \in Elems(s)
    BY <1>2 DEF Elems
  <2>2. QED BY <1>2, <2>1 DEF Elems
<1>3. QED BY <1>1, <1>2

(* Whoever enters a coroutine, or the bottom half, pushes it.              *)
LEMMA EnterEffect ==
  ASSUME TypeOK, Apart, NEW c \in Cos \cup {Bh}, Enter(c),
         c = Bh \/ c \notin Elems(stack)
  PROVE  /\ stack' \in Seq(Cos \cup {Bh}) /\ DistinctBut(stack', Bh)
         /\ Elems(stack') = Elems(stack) \cup {c}
<1>1. /\ stack \in Seq(Cos \cup {Bh}) /\ DistinctBut(stack, Bh)
      /\ stack' = Append(stack, c)
  BY DEF TypeOK, Apart, Enter
<1>2. QED BY <1>1, PushElems

(* Whoever returns leaves the stack.                                       *)
LEMMA ReturnEffect ==
  ASSUME TypeOK, Apart, NEW c, Running(c), Return
  PROVE  /\ stack' \in Seq(Cos \cup {Bh}) /\ DistinctBut(stack', Bh)
         /\ c \in Elems(stack) /\ Elems(stack) = Elems(stack') \cup {c}
         /\ c # Bh => c \notin Elems(stack')
<1>1. PICK n \in Nat : Len(stack) = n + 1
  <2>1. Len(stack) \in Nat /\ Len(stack) # 0
    BY DEF TypeOK, Running
  <2>2. \A k \in Nat : k # 0 => \E n \in Nat : k = n + 1
    <3>1. ASSUME NEW k \in Nat, k # 0 PROVE k - 1 \in Nat /\ k = (k - 1) + 1
      BY <3>1
    <3>2. QED BY <3>1
  <2>3. QED BY <2>1, <2>2
<1>2. stack' = SubSeq(stack, 1, n) /\ c = stack[n + 1]
  BY <1>1 DEF Return, Running
<1>3. stack \in Seq(Cos \cup {Bh}) /\ DistinctBut(stack, Bh)
  BY DEF TypeOK, Apart
<1>4. QED
  BY <1>1, <1>2, <1>3, PopElems

(* A running coroutine is on the stack and in no queue.                    *)
LEMMA RunningAlone ==
  ASSUME TypeOK, Apart, NEW c \in Cos, Running(c)
  PROVE  /\ c \in Elems(stack) /\ c \notin in_io /\ c # Bh
         /\ c \notin Elems(queue["mutex"]) \cup Elems(queue["rwlock"])
         /\ c \notin Elems(unlock_bh_queue)
<1>1. Len(stack) \in 1..Len(stack)
  BY DEF TypeOK, Running
<1>2. c \in Elems(stack)
  BY <1>1 DEF Running, Elems
<1>3. QED
  BY <1>2, CoAssumption DEF Apart, Names, CoAssumption

(* What waking one or all waiters of l does: they move to the woken.       *)
Wakes(l) ==
  /\ queue' \in [Names -> Seq(Cos)] /\ unlock_bh_queue' \in Seq(Cos)
  /\ scheduled' \in BOOLEAN
  /\ \A k \in Names \ {l} : queue'[k] = queue[k]
  /\ Elems(queue[l]) \cup Elems(unlock_bh_queue)
       = Elems(queue'[l]) \cup Elems(unlock_bh_queue')
  /\ Elems(queue'[l]) \subseteq Elems(queue[l])
  /\ Elems(unlock_bh_queue) \subseteq Elems(unlock_bh_queue')
  /\ Elems(queue'[l]) \cap Elems(unlock_bh_queue') = {}
  /\ Distinct(queue'[l]) /\ Distinct(unlock_bh_queue')
  /\ queue[l] # <<>> => Elems(queue[l]) \cap Elems(unlock_bh_queue') # {}
  /\ scheduled' \/ (UNCHANGED unlock_bh_queue /\ UNCHANGED scheduled)

LEMMA WakeFirstWakes ==
  ASSUME TypeOK, Apart, NEW l \in Names, WakeFirst(l)
  PROVE  Wakes(l)
<1>0. /\ queue \in [Names -> Seq(Cos)] /\ queue[l] \in Seq(Cos)
      /\ unlock_bh_queue \in Seq(Cos) /\ scheduled \in BOOLEAN
      /\ Distinct(queue[l]) /\ Distinct(unlock_bh_queue)
      /\ Elems(queue[l]) \cap Elems(unlock_bh_queue) = {}
  BY DEF TypeOK, Apart, Names
<1>1. CASE queue[l] = <<>>
  BY <1>0, <1>1 DEF WakeFirst, Wakes, queues
<1>2. CASE queue[l] # <<>>
  <2> DEFINE h == Head(queue[l])
             t == Tail(queue[l])
  <2>1. /\ h \in Cos /\ h \in Elems(queue[l]) /\ t \in Seq(Cos)
        /\ Elems(queue[l]) = Elems(t) \cup {h}
        /\ Distinct(t) /\ h \notin Elems(t)
    BY <1>0, <1>2, TailElems
  <2>2. /\ queue' = [queue EXCEPT ![l] = t] /\ scheduled' = TRUE
        /\ unlock_bh_queue' = Append(unlock_bh_queue, h)
    BY <1>2 DEF WakeFirst
  <2>3. /\ unlock_bh_queue' \in Seq(Cos)
        /\ Elems(unlock_bh_queue') = Elems(unlock_bh_queue) \cup {h}
        /\ Distinct(unlock_bh_queue')
    BY <1>0, <2>1, <2>2, AppendElems
  <2>4. queue' \in [Names -> Seq(Cos)] /\ queue'[l] = t
        /\ \A k \in Names \ {l} : queue'[k] = queue[k]
    BY <1>0, <2>1, <2>2
  <2> HIDE DEF h, t
  <2>5. QED
    BY <1>0, <2>1, <2>2, <2>3, <2>4 DEF Wakes
<1>3. QED BY <1>1, <1>2

LEMMA WakeAllWakes ==
  ASSUME TypeOK, Apart, NEW l \in Names, WakeAll(l)
  PROVE  Wakes(l) /\ queue'[l] = <<>>
<1>0. /\ queue \in [Names -> Seq(Cos)] /\ queue[l] \in Seq(Cos)
      /\ unlock_bh_queue \in Seq(Cos) /\ scheduled \in BOOLEAN
      /\ Distinct(queue[l]) /\ Distinct(unlock_bh_queue)
      /\ Elems(queue[l]) \cap Elems(unlock_bh_queue) = {}
  BY DEF TypeOK, Apart, Names
<1>1. CASE queue[l] = <<>>
  BY <1>0, <1>1 DEF WakeAll, Wakes, queues
<1>2. CASE queue[l] # <<>>
  <2>1. /\ queue' = [queue EXCEPT ![l] = <<>>] /\ scheduled' = TRUE
        /\ unlock_bh_queue' = unlock_bh_queue \o queue[l]
    BY <1>2 DEF WakeAll
  <2>2. /\ unlock_bh_queue' \in Seq(Cos)
        /\ Elems(unlock_bh_queue') = Elems(unlock_bh_queue) \cup Elems(queue[l])
        /\ Distinct(unlock_bh_queue')
    BY <1>0, <2>1, ConcatElems
  <2>3. queue' \in [Names -> Seq(Cos)] /\ queue'[l] = <<>>
        /\ \A k \in Names \ {l} : queue'[k] = queue[k]
    BY <1>0, <2>1
  <2>4. Elems(queue'[l]) = {} /\ Distinct(queue'[l])
    BY <2>3 DEF Elems, Distinct
  <2>5. Elems(queue[l]) # {}
    BY <1>0, <1>2, ElemsType
  <2>6. QED
    BY <1>0, <2>1, <2>2, <2>3, <2>4, <2>5 DEF Wakes
<1>3. QED BY <1>1, <1>2

-----------------------------------------------------------------------------
(* Types and places.                                                       *)

(* Starting a coroutine: it was nowhere.                                   *)
LEMMA StartNowhere ==
  ASSUME TypeOK, Apart, NEW c \in Cos, Start(c) \/ CompleteIO(c)
  PROVE  /\ c \notin Elems(stack)
         /\ c \notin Elems(queue["mutex"]) \cup Elems(queue["rwlock"])
         /\ c \notin Elems(unlock_bh_queue)
BY DEF Start, CompleteIO, Terminated, Apart, Names

(* What a lock call does: it takes the lock, or waits.                     *)
LEMMA LockEffect ==
  ASSUME TypeOK, Apart, NEW c \in Cos, NEW m \in Modes, Lock(c, m)
  PROVE  /\ want[c] \in {m, "none"} /\ held[c] = "none" /\ Running(c)
         /\ \/ Free(m) /\ Take(c, m)
            \/ /\ ~Free(m) /\ Wait(c, LockOf(m))
               /\ want' = [want EXCEPT ![c] = m] /\ UNCHANGED <<locks, held>>
         /\ in_io' = in_io /\ calls' \in [Cos -> Nat]
<1>1. want[c] \in {m, "none"} /\ held[c] = "none" /\ Running(c)
  BY DEF Lock, InCall, TypeOK, Modes
<1>2. calls' \in [Cos -> Nat]
  <2>1. CASE UNCHANGED calls
    BY <2>1 DEF TypeOK
  <2>2. CASE calls[c] > 0 /\ calls' = [calls EXCEPT ![c] = @ - 1]
    <3>1. calls[c] - 1 \in Nat
      BY <2>2 DEF TypeOK
    <3>2. QED BY <2>2, <3>1 DEF TypeOK
  <2>3. QED BY <2>1, <2>2 DEF Lock, InCall
<1>3. QED BY <1>1, <1>2 DEF Lock

(* What waiting does to the queues.                                        *)
LEMMA WaitEffect ==
  ASSUME TypeOK, Apart, NEW c \in Cos, Running(c), NEW l \in Names, Wait(c, l)
  PROVE  /\ queue' \in [Names -> Seq(Cos)]
         /\ \A k \in Names \ {l} : queue'[k] = queue[k]
         /\ Elems(queue'[l]) = Elems(queue[l]) \cup {c} /\ Distinct(queue'[l])
         /\ UNCHANGED <<unlock_bh_queue, scheduled>>
         /\ stack' \in Seq(Cos \cup {Bh}) /\ DistinctBut(stack', Bh)
         /\ Elems(stack') = Elems(stack) \ {c}
<1>1. c \notin Elems(queue[l]) /\ c # Bh
  BY RunningAlone DEF Names
<1>2. queue[l] \in Seq(Cos) /\ Distinct(queue[l]) /\ queue \in [Names -> Seq(Cos)]
  BY DEF TypeOK, Apart, Names
<1>3. queue' = [queue EXCEPT ![l] = Append(queue[l], c)] /\ Return
      /\ UNCHANGED <<unlock_bh_queue, scheduled>>
  BY DEF Wait
<1>4. /\ Append(queue[l], c) \in Seq(Cos)
      /\ Elems(Append(queue[l], c)) = Elems(queue[l]) \cup {c}
      /\ Distinct(Append(queue[l], c))
  BY <1>1, <1>2, AppendElems
<1>5. /\ queue' \in [Names -> Seq(Cos)] /\ queue'[l] = Append(queue[l], c)
      /\ \A k \in Names \ {l} : queue'[k] = queue[k]
  BY <1>2, <1>3, <1>4
<1>6. /\ stack' \in Seq(Cos \cup {Bh}) /\ DistinctBut(stack', Bh)
      /\ Elems(stack') = Elems(stack) \ {c}
  BY <1>1, <1>3, ReturnEffect
<1>7. QED BY <1>3, <1>4, <1>5, <1>6

(* What the bottom half does: it returns, or enters the first of the woken.*)
LEMMA BhEffect ==
  ASSUME TypeOK, Apart, BhEnters
  PROVE  /\ stack' \in Seq(Cos \cup {Bh}) /\ DistinctBut(stack', Bh)
         /\ \/ /\ unlock_bh_queue = <<>> /\ UNCHANGED unlock_bh_queue
               /\ Elems(stack) = Elems(stack') \cup {Bh}
            \/ \E h \in Elems(unlock_bh_queue) :
                 /\ h \in Cos /\ unlock_bh_queue' \in Seq(Cos)
                 /\ Distinct(unlock_bh_queue')
                 /\ Elems(unlock_bh_queue') = Elems(unlock_bh_queue) \ {h}
                 /\ Elems(stack') = Elems(stack) \cup {h} /\ Bh \in Elems(stack)
<1>0. Running(Bh) /\ unlock_bh_queue \in Seq(Cos) /\ Distinct(unlock_bh_queue)
  BY DEF BhEnters, TypeOK, Apart
<1>1. CASE unlock_bh_queue = <<>>
  BY <1>0, <1>1, ReturnEffect DEF BhEnters
<1>2. CASE unlock_bh_queue # <<>>
  <2> DEFINE h == Head(unlock_bh_queue)
             t == Tail(unlock_bh_queue)
  <2>1. /\ h \in Cos /\ h \in Elems(unlock_bh_queue) /\ t \in Seq(Cos)
        /\ Distinct(t) /\ Elems(t) = Elems(unlock_bh_queue) \ {h}
    BY <1>0, <1>2, TailElems
  <2>2. Enter(h) /\ unlock_bh_queue' = t
    BY <1>2 DEF BhEnters
  <2>3. h \notin Elems(stack)
    BY <2>1 DEF Apart
  <2>4. Bh \in Elems(stack)
    <3>1. Len(stack) \in 1..Len(stack)
      BY DEF TypeOK, BhEnters, Running
    <3>2. QED BY <1>0, <3>1 DEF Running, Elems
  <2> HIDE DEF h, t
  <2>5. /\ stack' \in Seq(Cos \cup {Bh}) /\ DistinctBut(stack', Bh)
        /\ Elems(stack') = Elems(stack) \cup {h}
    BY <2>1, <2>2, <2>3, EnterEffect
  <2>6. QED BY <2>1, <2>2, <2>4, <2>5
<1>3. QED BY <1>1, <1>2

(* The three ways to unlock wake the waiters of one lock, and change no    *)
(* place.                                                                  *)
LEMMA UnlockEffect ==
  ASSUME TypeOK, Apart, NEW c \in Cos, Unlock(c)
  PROVE  /\ Running(c) /\ UNCHANGED <<stack, want, in_io, calls>>
         /\ \/ MutexUnlock(c) /\ Wakes("mutex")
            \/ WriteUnlock(c) /\ Wakes("rwlock") /\ queue'["rwlock"] = <<>>
            \/ ReadUnlock(c) /\ reader' = 0 /\ Wakes("rwlock")
            \/ ReadUnlock(c) /\ reader' # 0 /\ UNCHANGED queues
<1>0. "mutex" \in Names /\ "rwlock" \in Names
  BY DEF Names
<1>1. CASE MutexUnlock(c)
  BY <1>0, <1>1, WakeFirstWakes DEF MutexUnlock, Unlocks
<1>2. CASE WriteUnlock(c)
  BY <1>0, <1>2, WakeAllWakes DEF WriteUnlock, Unlocks
<1>3. CASE ReadUnlock(c)
  BY <1>0, <1>3, WakeFirstWakes DEF ReadUnlock, Unlocks
<1>4. QED BY <1>1, <1>2, <1>3 DEF Unlock

(* A count of holders is a natural number; a reader makes it positive.     *)
LEMMA HoldersType ==
  ASSUME TypeOK, NEW m
  PROVE  /\ IsFiniteSet(Holders(m)) /\ Cardinality(Holders(m)) \in Nat
         /\ Cardinality(Holders(m)) = 0 <=> Holders(m) = {}
<1>1. IsFiniteSet(Holders(m))
  BY FS_Subset, CoAssumption DEF Holders, CoAssumption
<1>2. QED BY <1>1, FS_CardinalityType, FS_EmptySet

(* Every step keeps the types.                                             *)
LEMMA TypeStep ==
  ASSUME TypeOK, Exclusion, Apart, [Next]_vars
  PROVE  TypeOK'
<1>0. TypeOK /\ queue \in [Names -> Seq(Cos)]
  BY DEF TypeOK, Names
<1>1. ASSUME NEW c \in Cos, Start(c) \/ CompleteIO(c) PROVE TypeOK'
  <2>1. stack' \in Seq(Cos \cup {Bh})
    BY <1>1, StartNowhere, EnterEffect DEF Start, CompleteIO
  <2>2. QED BY <1>0, <1>1, <2>1 DEF TypeOK, Start, CompleteIO, locks, queues
<1>2. ASSUME NEW c \in Cos, Terminate(c) \/ YieldForIO(c) PROVE TypeOK'
  <2>1. stack' \in Seq(Cos \cup {Bh})
    BY <1>2, ReturnEffect DEF Terminate, YieldForIO
  <2>2. QED
    BY <1>0, <1>2, <2>1 DEF TypeOK, Terminate, YieldForIO, locks, queues
<1>3. ASSUME NEW c \in Cos, NEW m \in Modes, Lock(c, m) PROVE TypeOK'
  <2>0. want[c] \in {m, "none"} /\ held[c] = "none" /\ in_io' = in_io
        /\ calls' \in [Cos -> Nat] /\ Running(c)
    BY <1>3, LockEffect
  <2>1. CASE Free(m) /\ Take(c, m)
    BY <1>0, <2>0, <2>1 DEF TypeOK, Take, queues, Modes
  <2>2. CASE /\ ~Free(m) /\ Wait(c, LockOf(m))
             /\ want' = [want EXCEPT ![c] = m] /\ UNCHANGED <<locks, held>>
    <3>1. LockOf(m) \in Names
      BY DEF LockOf, Names
    <3>2. /\ queue' \in [Names -> Seq(Cos)] /\ stack' \in Seq(Cos \cup {Bh})
          /\ UNCHANGED <<unlock_bh_queue, scheduled>>
      BY <2>0, <2>2, <3>1, WaitEffect
    <3>3. want' \in [Cos -> Modes \cup {"none"}]
          /\ \A d \in Cos : want'[d] # "none" => held'[d] = "none"
      BY <1>0, <2>0, <2>2 DEF TypeOK
    <3>4. QED BY <1>0, <2>0, <2>2, <3>2, <3>3 DEF TypeOK, locks, Names
  <2>3. QED BY <1>3, <2>1, <2>2, LockEffect
<1>4. ASSUME NEW c \in Cos, Unlock(c) PROVE TypeOK'
  <2>0. UNCHANGED <<stack, want, in_io, calls>>
    BY <1>4, UnlockEffect
  <2>1. /\ queue' \in [Names -> Seq(Cos)] /\ unlock_bh_queue' \in Seq(Cos)
        /\ scheduled' \in BOOLEAN
    BY <1>0, <1>4, UnlockEffect DEF Wakes, queues, TypeOK
  <2>2. locked' \in BOOLEAN /\ writer' \in BOOLEAN /\ reader' \in Nat
    <3>1. CASE MutexUnlock(c) \/ WriteUnlock(c)
      BY <1>0, <3>1 DEF MutexUnlock, WriteUnlock, TypeOK
    <3>2. CASE ReadUnlock(c)
      <4>1. c \in Holders("read")
        BY <3>2 DEF ReadUnlock, Unlocks, Holders
      <4>2. reader \in Nat /\ reader # 0
        BY <4>1, HoldersType DEF Exclusion
      <4>3. reader - 1 \in Nat
        BY <4>2
      <4>4. QED BY <1>0, <3>2, <4>3 DEF ReadUnlock, TypeOK
    <3>3. QED BY <1>4, <3>1, <3>2 DEF Unlock
  <2>3. /\ held' \in [Cos -> Modes \cup {"none"}]
        /\ \A d \in Cos : want[d] # "none" => held'[d] = "none"
    BY <1>0, <1>4
       DEF Unlock, MutexUnlock, WriteUnlock, ReadUnlock, Unlocks, TypeOK
  <2>4. QED BY <1>0, <2>0, <2>1, <2>2, <2>3 DEF TypeOK, Names
<1>5. CASE BhStarts
  <2>1. stack' \in Seq(Cos \cup {Bh})
    BY <1>5, EnterEffect DEF BhStarts
  <2>2. QED BY <1>0, <1>5, <2>1 DEF BhStarts, TypeOK, locks
<1>6. CASE BhEnters
  <2>1. stack' \in Seq(Cos \cup {Bh}) /\ unlock_bh_queue' \in Seq(Cos)
    BY <1>0, <1>6, BhEffect DEF TypeOK
  <2>2. QED BY <1>0, <1>6, <2>1 DEF BhEnters, TypeOK, locks
<1>7. CASE UNCHANGED vars
  BY <1>0, <1>7 DEF TypeOK, vars, locks, queues
<1>8. QED
  BY <1>1, <1>2, <1>3, <1>4, <1>5, <1>6, <1>7 DEF Next, Runs, Unlock

(* Every step keeps each coroutine in one place.                           *)
LEMMA ApartStep ==
  ASSUME TypeOK, Apart, [Next]_vars
  PROVE  Apart'
<1>0. /\ Apart /\ want \in [Cos -> Modes \cup {"none"}]
      /\ \A l \in Names : Elems(queue[l]) \subseteq Cos
      /\ Elems(unlock_bh_queue) \subseteq Cos
      /\ "mutex" \in Names /\ "rwlock" \in Names
  BY ElemsType DEF TypeOK, Names
<1>1. ASSUME NEW c \in Cos, Start(c) \/ CompleteIO(c) PROVE Apart'
  <2>1. DistinctBut(stack', Bh) /\ Elems(stack') = Elems(stack) \cup {c}
    BY <1>1, StartNowhere, EnterEffect DEF Start, CompleteIO
  <2>2. UNCHANGED <<queues, want>> /\ in_io' = in_io \ {c}
    BY <1>1 DEF Start, CompleteIO, Terminated
  <2>3. QED
    BY <1>0, <1>1, <2>1, <2>2, StartNowhere DEF Apart, Names, queues
<1>2. ASSUME NEW c \in Cos, Terminate(c) \/ YieldForIO(c) PROVE Apart'
  <2>0. Running(c) /\ Return /\ UNCHANGED <<queues, want>>
        /\ in_io' \subseteq in_io \cup {c}
    BY <1>2 DEF Terminate, YieldForIO
  <2>1. DistinctBut(stack', Bh) /\ Elems(stack') = Elems(stack) \ {c}
    BY <2>0, ReturnEffect, RunningAlone
  <2>2. QED
    BY <1>0, <2>0, <2>1, RunningAlone DEF Apart, Names, queues
<1>3. ASSUME NEW c \in Cos, NEW m \in Modes, Lock(c, m) PROVE Apart'
  <2>0. Running(c) /\ in_io' = in_io
    BY <1>3, LockEffect
  <2>1. CASE Free(m) /\ Take(c, m)
    BY <1>0, <2>0, <2>1, RunningAlone DEF Apart, Names, Take, queues
  <2>2. CASE /\ ~Free(m) /\ Wait(c, LockOf(m))
             /\ want' = [want EXCEPT ![c] = m] /\ UNCHANGED <<locks, held>>
    <3> DEFINE l == LockOf(m)
    <3>1. l \in Names
      BY DEF LockOf, Names
    <3> HIDE DEF l
    <3>2. /\ \A k \in Names \ {l} : queue'[k] = queue[k]
          /\ Elems(queue'[l]) = Elems(queue[l]) \cup {c} /\ Distinct(queue'[l])
          /\ UNCHANGED unlock_bh_queue
          /\ DistinctBut(stack', Bh) /\ Elems(stack') = Elems(stack) \ {c}
      BY <2>0, <2>2, <3>1, WaitEffect DEF l
    <3>3. want'[c] # "none" /\ LockOf(want'[c]) = l
          /\ \A d \in Cos \ {c} : want'[d] = want[d]
      BY <1>0, <2>2 DEF Modes, l
    <3>4. c \notin Elems(queue["mutex"]) \cup Elems(queue["rwlock"])
          /\ c \notin Elems(unlock_bh_queue) /\ c \notin in_io
      BY <2>0, RunningAlone
    <3>5. \A k \in Names : Distinct(queue'[k])
      BY <1>0, <3>1, <3>2 DEF Apart
    <3>6. \A k \in Names : \A d \in Elems(queue'[k]) :
            \/ d \in Elems(queue[k]) /\ d # c
            \/ d = c /\ k = l
      BY <3>2, <3>4 DEF Names
    <3>7. \A k \in Names : \A d \in Elems(queue'[k]) :
            want'[d] # "none" /\ LockOf(want'[d]) = k
              /\ d \notin Elems(stack') \cup in_io
      BY <1>0, <3>2, <3>3, <3>4, <3>6 DEF Apart
    <3>8. Elems(queue'["mutex"]) \cap Elems(queue'["rwlock"]) = {}
      BY <1>0, <3>4, <3>6 DEF Apart
    <3>9. \A k \in Names : Elems(queue'[k]) \cap Elems(unlock_bh_queue) = {}
      BY <1>0, <3>4, <3>6 DEF Apart
    <3>10. \A d \in Elems(unlock_bh_queue) :
             want'[d] # "none" /\ d \notin Elems(stack') \cup in_io
      BY <1>0, <3>2, <3>3, <3>4 DEF Apart
    <3>11. Elems(stack') \cap in_io = {} /\ Distinct(unlock_bh_queue)
      BY <1>0, <3>2 DEF Apart
    <3>12. QED
      BY <2>0, <3>2, <3>5, <3>7, <3>8, <3>9, <3>10, <3>11 DEF Apart
  <2>3. QED BY <1>3, <2>1, <2>2, LockEffect
<1>4. ASSUME NEW l \in Names, Wakes(l), UNCHANGED <<stack, want, in_io>>
      PROVE  Apart'
  <2>1. \A k \in Names : Distinct(queue'[k])
    BY <1>0, <1>4 DEF Apart, Wakes
  <2>2. \A k \in Names : Elems(queue'[k]) \subseteq Elems(queue[k])
    BY <1>4 DEF Wakes
  <2>3. Elems(unlock_bh_queue') \subseteq Elems(unlock_bh_queue) \cup Elems(queue[l])
    BY <1>4 DEF Wakes
  <2>4. \A k \in Names : Elems(queue'[k]) \cap Elems(unlock_bh_queue') = {}
    <3>1. Elems(queue'[l]) \cap Elems(unlock_bh_queue') = {}
      BY <1>4 DEF Wakes
    <3>2. ASSUME NEW k \in Names, k # l
          PROVE  Elems(queue'[k]) \cap Elems(unlock_bh_queue') = {}
      BY <1>0, <2>2, <2>3, <3>2 DEF Apart, Names
    <3>3. QED BY <3>1, <3>2
  <2>5. \A d \in Elems(unlock_bh_queue') :
          want[d] # "none" /\ d \notin Elems(stack) \cup in_io
    BY <1>0, <1>4, <2>3 DEF Apart
  <2>6. Distinct(unlock_bh_queue')
    BY <1>4 DEF Wakes
  <2>7. Elems(queue'["mutex"]) \cap Elems(queue'["rwlock"]) = {}
    BY <1>0, <2>2 DEF Apart
  <2>8. QED
    BY <1>0, <1>4, <2>1, <2>2, <2>4, <2>5, <2>6, <2>7 DEF Apart
<1>5. ASSUME NEW c \in Cos, Unlock(c) PROVE Apart'
  <2>1. CASE \E l \in Names : Wakes(l)
    BY <1>4, <1>5, <2>1, UnlockEffect
  <2>2. CASE UNCHANGED queues
    BY <1>0, <1>5, <2>2, UnlockEffect DEF Apart, queues
  <2>3. QED BY <1>0, <1>5, <2>1, <2>2, UnlockEffect
<1>6. CASE BhStarts
  <2>1. DistinctBut(stack', Bh) /\ Elems(stack') = Elems(stack) \cup {Bh}
    BY <1>6, EnterEffect DEF BhStarts
  <2>2. Bh \notin Cos /\ in_io \subseteq Cos
    BY CoAssumption DEF CoAssumption, TypeOK
  <2>3. QED BY <1>0, <1>6, <2>1, <2>2 DEF Apart, BhStarts
<1>7. CASE BhEnters
  <2>0. UNCHANGED <<queue, want, in_io>>
    BY <1>7 DEF BhEnters
  <2>1. DistinctBut(stack', Bh)
    BY <1>7, BhEffect
  <2>2. CASE UNCHANGED unlock_bh_queue /\ Elems(stack) = Elems(stack') \cup {Bh}
    BY <1>0, <2>0, <2>1, <2>2 DEF Apart
  <2>3. ASSUME NEW h \in Elems(unlock_bh_queue), Distinct(unlock_bh_queue'),
               Elems(unlock_bh_queue') = Elems(unlock_bh_queue) \ {h},
               Elems(stack') = Elems(stack) \cup {h}
        PROVE  Apart'
    BY <1>0, <2>0, <2>1, <2>3 DEF Apart
  <2>4. QED BY <1>7, <2>2, <2>3, BhEffect
<1>8. CASE UNCHANGED vars
  BY <1>0, <1>8 DEF Apart, vars, queues
<1>9. QED
  BY <1>1, <1>2, <1>3, <1>5, <1>6, <1>7, <1>8 DEF Next, Runs, Unlock

-----------------------------------------------------------------------------
(* Exclusion.                                                              *)

(* Every step keeps the fields of the locks in agreement with the holders. *)
LEMMA ExclusionStep ==
  ASSUME TypeOK, Exclusion, Apart, [Next]_vars
  PROVE  Exclusion'
<1>0. /\ Exclusion /\ held \in [Cos -> Modes \cup {"none"}]
      /\ reader \in Nat /\ writer \in BOOLEAN /\ locked \in BOOLEAN
  BY DEF TypeOK
<1>1. CASE UNCHANGED <<locks, held>>
  BY <1>0, <1>1 DEF Exclusion, Holders, locks
<1>2. ASSUME NEW c \in Cos, NEW m \in Modes, Lock(c, m) PROVE Exclusion'
  <2>0. held[c] = "none"
    BY <1>2, LockEffect
  <2>1. CASE Free(m) /\ Take(c, m)
    <3>1. Holders(m)' = Holders(m) \cup {c} /\ c \notin Holders(m)
          /\ \A k \in Modes \ {m} : Holders(k)' = Holders(k)
      BY <1>0, <2>0, <2>1 DEF Take, Holders, Modes
    <3>2. CASE m = "mutex"
      BY <1>0, <2>1, <3>1, <3>2 DEF Exclusion, Free, Take, Modes
    <3>3. CASE m = "read"
      <4>1. Cardinality(Holders("read"))' = reader + 1
        BY <1>0, <3>1, <3>3, HoldersType, FS_AddElement DEF Exclusion
      <4>2. QED
        BY <1>0, <2>1, <3>1, <3>3, <4>1 DEF Exclusion, Free, Take, Modes
    <3>4. CASE m = "write"
      BY <1>0, <2>1, <3>1, <3>4 DEF Exclusion, Free, Take, Modes
    <3>5. QED BY <3>2, <3>3, <3>4 DEF Modes
  <2>2. CASE UNCHANGED <<locks, held>>
    BY <1>1, <2>2
  <2>3. QED BY <1>2, <2>1, <2>2, LockEffect
<1>3. ASSUME NEW c \in Cos, NEW m \in Modes, Unlocks(c, m)
      PROVE  /\ c \in Holders(m) /\ Holders(m)' = Holders(m) \ {c}
             /\ \A k \in Modes \ {m} : Holders(k)' = Holders(k)
  BY <1>0, <1>3 DEF Unlocks, Holders, Modes
<1>4. ASSUME NEW c \in Cos, MutexUnlock(c) PROVE Exclusion'
  <2>1. /\ c \in Holders("mutex") /\ Holders("mutex")' = Holders("mutex") \ {c}
        /\ \A k \in Modes \ {"mutex"} : Holders(k)' = Holders(k)
    BY <1>3, <1>4 DEF MutexUnlock, Modes
  <2>2. QED BY <1>0, <1>4, <2>1 DEF Exclusion, MutexUnlock, Modes
<1>5. ASSUME NEW c \in Cos, WriteUnlock(c) PROVE Exclusion'
  <2>1. /\ c \in Holders("write") /\ Holders("write")' = Holders("write") \ {c}
        /\ \A k \in Modes \ {"write"} : Holders(k)' = Holders(k)
    BY <1>3, <1>5 DEF WriteUnlock, Modes
  <2>2. QED BY <1>0, <1>5, <2>1 DEF Exclusion, WriteUnlock, Modes
<1>6. ASSUME NEW c \in Cos, ReadUnlock(c) PROVE Exclusion'
  <2>1. /\ c \in Holders("read") /\ Holders("read")' = Holders("read") \ {c}
        /\ \A k \in Modes \ {"read"} : Holders(k)' = Holders(k)
    BY <1>3, <1>6 DEF ReadUnlock, Modes
  <2>2. Cardinality(Holders("read"))' = reader - 1
    BY <1>0, <2>1, HoldersType, FS_RemoveElement DEF Exclusion
  <2>3. ~writer
    BY <1>0, <2>1, HoldersType DEF Exclusion
  <2>4. QED
    BY <1>0, <1>6, <2>1, <2>2, <2>3 DEF Exclusion, ReadUnlock, Modes
<1>7. QED
  BY <1>1, <1>2, <1>4, <1>5, <1>6
     DEF Next, Runs, Start, CompleteIO, Terminate, YieldForIO, BhStarts,
         BhEnters, vars

-----------------------------------------------------------------------------
(* Wake-ups.                                                               *)

(* Every step keeps a waiter of a free lock awake.                         *)
LEMMA WakeupStep ==
  ASSUME TypeOK, Exclusion, Apart, NoLostWakeup, [Next]_vars
  PROVE  NoLostWakeup'
<1> DEFINE Up == Elems(unlock_bh_queue) \cup (Elems(stack) \ {Bh})
<1>0. /\ NoLostWakeup /\ reader \in Nat /\ locked \in BOOLEAN
      /\ writer \in BOOLEAN /\ want \in [Cos -> Modes \cup {"none"}]
      /\ "mutex" \in Names /\ "rwlock" \in Names
  BY DEF TypeOK, Names
<1>1. ASSUME UNCHANGED <<locks, queue, want>>, Up \subseteq Up'
      PROVE  NoLostWakeup'
  <2>1. \A l \in Names : Woken(l) \subseteq Woken(l)'
    BY <1>1 DEF Woken
  <2>2. QED BY <1>0, <1>1, <2>1 DEF NoLostWakeup, locks
<1>2. ASSUME NEW c \in Cos, Start(c) \/ CompleteIO(c) PROVE NoLostWakeup'
  <2>1. Elems(stack') = Elems(stack) \cup {c}
    BY <1>2, StartNowhere, EnterEffect DEF Start, CompleteIO
  <2>2. QED BY <1>1, <1>2, <2>1 DEF Start, CompleteIO, queues
<1>3. ASSUME NEW c \in Cos, Terminate(c) \/ YieldForIO(c) PROVE NoLostWakeup'
  <2>0. Running(c) /\ Return /\ UNCHANGED <<locks, queues, want>>
        /\ want[c] = "none"
    BY <1>3 DEF Terminate, YieldForIO
  <2>1. Elems(stack) = Elems(stack') \cup {c}
    BY <2>0, ReturnEffect
  <2>2. \A l \in Names : Woken(l) \subseteq Woken(l)'
    BY <2>0, <2>1 DEF Woken, queues
  <2>3. QED BY <1>0, <2>0, <2>2 DEF NoLostWakeup, locks, queues
<1>4. ASSUME NEW c \in Cos, NEW m \in Modes, Lock(c, m) PROVE NoLostWakeup'
  <2>0. Running(c) /\ want[c] \in {m, "none"} /\ LockOf(m) \in Names
    BY <1>4, LockEffect DEF LockOf, Names
  <2>1. CASE Free(m) /\ Take(c, m)
    <3>1. UNCHANGED <<queue, unlock_bh_queue, stack>>
      BY <2>1 DEF Take, queues
    <3>2. \A d \in Cos \ {c} : want'[d] = want[d]
      BY <1>0, <2>1 DEF Take
    <3>3. \A l \in Names \ {LockOf(m)} : Woken(l) \subseteq Woken(l)'
      <4>1. \A d \in Elems(unlock_bh_queue) \cup (Elems(stack) \ {Bh}) : d \in Cos
        BY ElemsType DEF TypeOK
      <4>2. QED BY <2>0, <3>1, <3>2, <4>1 DEF Woken
    <3>4. CASE m = "mutex"
      <4>1. locked' /\ UNCHANGED <<reader, writer>>
        BY <1>0, <2>1, <3>4 DEF Take
      <4>2. Woken("rwlock") \subseteq Woken("rwlock")'
        BY <3>3, <3>4 DEF LockOf, Names
      <4>3. QED BY <1>0, <3>1, <4>1, <4>2 DEF NoLostWakeup
    <3>5. CASE m \in {"read", "write"}
      <4>1. UNCHANGED locked /\ (writer' \/ reader' > 0)
        <5>1. m # "mutex" /\ (locked' <=> locked) /\ locked' \in BOOLEAN
          BY <1>0, <2>1, <3>5 DEF Take
        <5>2. CASE m = "read"
          BY <1>0, <2>1, <5>1, <5>2 DEF Take
        <5>3. CASE m = "write"
          BY <1>0, <2>1, <5>1, <5>3 DEF Take
        <5>4. QED BY <3>5, <5>2, <5>3
      <4>2. Woken("mutex") \subseteq Woken("mutex")'
        BY <3>3, <3>5 DEF LockOf, Names
      <4>3. QED BY <1>0, <3>1, <4>1, <4>2 DEF NoLostWakeup
    <3>6. QED BY <3>4, <3>5 DEF Modes
  <2>2. CASE /\ ~Free(m) /\ Wait(c, LockOf(m))
             /\ want' = [want EXCEPT ![c] = m] /\ UNCHANGED <<locks, held>>
    <3> DEFINE l == LockOf(m)
    <3>1. /\ \A k \in Names \ {l} : queue'[k] = queue[k]
          /\ UNCHANGED unlock_bh_queue /\ Elems(stack') = Elems(stack) \ {c}
      BY <2>0, <2>2, WaitEffect
    <3>2. \A d \in Cos \ {c} : want'[d] = want[d]
      BY <1>0, <2>2
    <3>3. c \notin Elems(unlock_bh_queue)
      BY <2>0, RunningAlone
    <3>4. \A k \in Names \ {l} : Woken(k) \subseteq Woken(k)'
      <4>1. \A d \in Elems(unlock_bh_queue) \cup (Elems(stack) \ {Bh}) : d \in Cos
        BY ElemsType DEF TypeOK
      <4>2. QED BY <2>0, <3>1, <3>2, <3>3, <4>1 DEF Woken
    <3>5. CASE m = "mutex"
      <4>1. locked' /\ UNCHANGED <<reader, writer>>
        BY <2>2, <3>5 DEF Free, locks
      <4>2. Woken("rwlock") \subseteq Woken("rwlock")' /\ queue'["rwlock"] = queue["rwlock"]
        BY <3>1, <3>4, <3>5 DEF LockOf, Names
      <4>3. QED BY <1>0, <4>1, <4>2 DEF NoLostWakeup
    <3>6. CASE m \in {"read", "write"}
      <4>1. UNCHANGED locked /\ (writer' \/ reader' > 0)
        <5>1. UNCHANGED <<locked, reader, writer>>
          BY <2>2 DEF locks
        <5>2. CASE m = "read"
          BY <2>2, <5>1, <5>2 DEF Free
        <5>3. CASE m = "write"
          <6>1. writer \/ reader # 0
            BY <2>2, <5>3 DEF Free
          <6>2. QED BY <1>0, <5>1, <6>1
        <5>4. QED BY <3>6, <5>2, <5>3
      <4>2. Woken("mutex") \subseteq Woken("mutex")' /\ queue'["mutex"] = queue["mutex"]
        BY <3>1, <3>4, <3>6 DEF LockOf, Names
      <4>3. QED BY <1>0, <4>1, <4>2 DEF NoLostWakeup
    <3>7. QED BY <3>5, <3>6 DEF Modes
  <2>3. QED BY <1>4, <2>1, <2>2, LockEffect
<1>5. ASSUME NEW l \in Names, Wakes(l), UNCHANGED <<stack, want>>
      PROVE  /\ queue[l] # <<>> => Woken(l)' # {}
             /\ \A k \in Names : Woken(k) \subseteq Woken(k)'
             /\ \A k \in Names \ {l} : queue'[k] = queue[k]
             /\ queue[l] = <<>> => queue'[l] = <<>>
  <2>1. \A d \in Elems(queue[l]) : want[d] # "none" /\ LockOf(want[d]) = l
    BY DEF Apart
  <2>2. \A k \in Names : Woken(k) \subseteq Woken(k)'
    BY <1>5 DEF Wakes, Woken
  <2>3. queue[l] # <<>> => Woken(l)' # {}
    BY <1>5, <2>1 DEF Wakes, Woken
  <2>4. queue[l] = <<>> => queue'[l] = <<>>
    BY <1>5, ElemsType DEF Wakes, TypeOK, Names
  <2>5. QED BY <1>5, <2>2, <2>3, <2>4 DEF Wakes
<1>6. ASSUME NEW c \in Cos, MutexUnlock(c) PROVE NoLostWakeup'
  <2>0. Wakes("mutex") /\ UNCHANGED <<stack, want, reader, writer>>
    BY <1>6, UnlockEffect DEF Unlock, MutexUnlock, WriteUnlock, ReadUnlock, Unlocks
  <2>1. QED BY <1>0, <1>5, <2>0 DEF NoLostWakeup, Names
<1>7. ASSUME NEW c \in Cos, WriteUnlock(c) PROVE NoLostWakeup'
  <2>0. Wakes("rwlock") /\ UNCHANGED <<stack, want, locked>>
    BY <1>7, UnlockEffect DEF Unlock, MutexUnlock, WriteUnlock, ReadUnlock, Unlocks
  <2>1. QED BY <1>0, <1>5, <2>0 DEF NoLostWakeup, Names
<1>8. ASSUME NEW c \in Cos, ReadUnlock(c) PROVE NoLostWakeup'
  <2>0. /\ UNCHANGED <<stack, want, locked>> /\ reader' = reader - 1
        /\ c \in Holders("read")
    BY <1>8 DEF ReadUnlock, Unlocks, Holders
  <2>1. reader # 0
    BY <2>0, HoldersType DEF Exclusion
  <2>2. CASE reader' = 0 /\ Wakes("rwlock")
    BY <1>0, <1>5, <2>0, <2>2 DEF NoLostWakeup, Names
  <2>3. CASE reader' # 0 /\ UNCHANGED queues
    <3>1. reader' > 0
      BY <1>0, <2>0, <2>1, <2>3
    <3>2. Woken("mutex") \subseteq Woken("mutex")'
      BY <2>0, <2>3 DEF Woken, queues
    <3>3. QED BY <1>0, <2>0, <2>3, <3>1, <3>2 DEF NoLostWakeup, queues
  <2>4. QED
    BY <1>8, <2>2, <2>3, WakeFirstWakes DEF ReadUnlock, Names
<1>9. CASE BhStarts
  <2>1. Elems(stack') = Elems(stack) \cup {Bh}
    BY <1>9, EnterEffect DEF BhStarts
  <2>2. QED BY <1>1, <1>9, <2>1 DEF BhStarts
<1>10. CASE BhEnters
  <2>1. Up \subseteq Up'
    <3>1. CASE UNCHANGED unlock_bh_queue /\ Elems(stack) = Elems(stack') \cup {Bh}
      BY <3>1
    <3>2. ASSUME NEW h \in Elems(unlock_bh_queue), h \in Cos,
                 Elems(unlock_bh_queue') = Elems(unlock_bh_queue) \ {h},
                 Elems(stack') = Elems(stack) \cup {h}
          PROVE  Up \subseteq Up'
      BY <3>2, CoAssumption DEF CoAssumption
    <3>3. QED BY <1>10, <3>1, <3>2, BhEffect
  <2>2. QED BY <1>1, <1>10, <2>1 DEF BhEnters
<1>11. CASE UNCHANGED vars
  BY <1>1, <1>11 DEF vars, queues
<1>12. QED
  BY <1>2, <1>3, <1>4, <1>6, <1>7, <1>8, <1>9, <1>10, <1>11 DEF Next, Runs

(* Every step keeps readers from waiting without a writer.                 *)
LEMMA ReadersStep ==
  ASSUME TypeOK, Exclusion, Apart, ReadersWaitForAWriter, [Next]_vars
  PROVE  ReadersWaitForAWriter'
<1>0. /\ ReadersWaitForAWriter /\ want \in [Cos -> Modes \cup {"none"}]
      /\ "mutex" \in Names /\ "rwlock" \in Names /\ writer \in BOOLEAN
      /\ Elems(queue["rwlock"]) \subseteq Cos
  BY ElemsType DEF TypeOK, Names
<1>1. CASE UNCHANGED <<queue, want, writer>>
  BY <1>0, <1>1 DEF ReadersWaitForAWriter
<1>2. ASSUME NEW c \in Cos, NEW m \in Modes, Lock(c, m)
      PROVE  ReadersWaitForAWriter'
  <2>0. Running(c) /\ LockOf(m) \in Names /\ c \notin Elems(queue["rwlock"])
    BY <1>2, LockEffect, RunningAlone DEF LockOf, Names
  <2>1. CASE Free(m) /\ Take(c, m)
    BY <1>0, <2>0, <2>1 DEF ReadersWaitForAWriter, Take, queues
  <2>2. CASE /\ ~Free(m) /\ Wait(c, LockOf(m))
             /\ want' = [want EXCEPT ![c] = m] /\ UNCHANGED <<locks, held>>
    <3>1. Elems(queue'["rwlock"]) \subseteq Elems(queue["rwlock"]) \cup {c}
      BY <1>0, <2>0, <2>2, WaitEffect
    <3>2. want'[c] = "read" => writer'
      BY <1>0, <2>2 DEF Free, locks
    <3>3. \A d \in Elems(queue["rwlock"]) : want'[d] = want[d]
      BY <1>0, <2>0, <2>2
    <3>4. UNCHANGED writer
      BY <2>2 DEF locks
    <3>5. QED BY <1>0, <3>1, <3>2, <3>3, <3>4 DEF ReadersWaitForAWriter
  <2>3. QED BY <1>2, <2>1, <2>2, LockEffect
<1>3. ASSUME NEW c \in Cos, Unlock(c) PROVE ReadersWaitForAWriter'
  <2>0. UNCHANGED want
    BY <1>3, UnlockEffect
  <2>1. CASE MutexUnlock(c) /\ Wakes("mutex")
    BY <1>0, <2>0, <2>1 DEF ReadersWaitForAWriter, Wakes, MutexUnlock, Names
  <2>2. CASE queue'["rwlock"] = <<>>
    <3>1. Elems(queue'["rwlock"]) = {}
      BY <2>2 DEF Elems
    <3>2. QED BY <3>1 DEF ReadersWaitForAWriter
  <2>3. CASE ReadUnlock(c) /\ Wakes("rwlock")
    BY <1>0, <2>0, <2>3 DEF ReadersWaitForAWriter, Wakes, ReadUnlock
  <2>4. CASE ReadUnlock(c) /\ UNCHANGED queues
    BY <1>0, <2>0, <2>4 DEF ReadersWaitForAWriter, ReadUnlock, queues
  <2>5. QED BY <1>3, <2>1, <2>2, <2>3, <2>4, UnlockEffect
<1>4. QED
  BY <1>1, <1>2, <1>3
     DEF Next, Runs, Unlock, Start, CompleteIO, Terminate, YieldForIO,
         BhStarts, BhEnters, vars, locks, queues

(* Every step keeps the bottom half scheduled, or in its loop, for the     *)
(* coroutines that were woken.                                             *)
LEMMA EnteredStep ==
  ASSUME TypeOK, Apart, WokenEntered, [Next]_vars
  PROVE  WokenEntered'
<1>0. WokenEntered /\ Bh \notin Cos /\ "mutex" \in Names /\ "rwlock" \in Names
  BY CoAssumption DEF CoAssumption, Names
<1>1. CASE UNCHANGED queues /\ Elems(stack) \ Cos \subseteq Elems(stack')
  BY <1>0, <1>1 DEF WokenEntered, queues
<1>2. ASSUME NEW c \in Cos, Start(c) \/ CompleteIO(c) PROVE WokenEntered'
  <2>1. Elems(stack') = Elems(stack) \cup {c}
    BY <1>2, StartNowhere, EnterEffect DEF Start, CompleteIO
  <2>2. QED BY <1>1, <1>2, <2>1 DEF Start, CompleteIO
<1>3. ASSUME NEW c \in Cos, Terminate(c) \/ YieldForIO(c) PROVE WokenEntered'
  <2>1. Elems(stack) = Elems(stack') \cup {c}
    BY <1>3, ReturnEffect DEF Terminate, YieldForIO
  <2>2. QED BY <1>1, <1>3, <2>1 DEF Terminate, YieldForIO
<1>4. ASSUME NEW c \in Cos, NEW m \in Modes, Lock(c, m) PROVE WokenEntered'
  <2>0. Running(c) /\ LockOf(m) \in Names
    BY <1>4, LockEffect DEF LockOf, Names
  <2>1. CASE Take(c, m)
    BY <1>1, <2>1 DEF Take
  <2>2. CASE Wait(c, LockOf(m))
    <3>1. /\ UNCHANGED <<unlock_bh_queue, scheduled>>
          /\ Elems(stack') = Elems(stack) \ {c}
      BY <2>0, <2>2, WaitEffect
    <3>2. QED BY <1>0, <3>1 DEF WokenEntered
  <2>3. QED BY <1>4, <2>1, <2>2, LockEffect
<1>5. ASSUME NEW c \in Cos, Unlock(c) PROVE WokenEntered'
  <2>1. CASE \E l \in Names : Wakes(l)
    BY <1>0, <1>5, <2>1, UnlockEffect DEF Wakes, WokenEntered
  <2>2. CASE UNCHANGED queues
    BY <1>0, <1>5, <2>2, UnlockEffect DEF WokenEntered, queues
  <2>3. QED BY <1>0, <1>5, <2>1, <2>2, UnlockEffect
<1>6. CASE BhStarts
  <2>1. Elems(stack') = Elems(stack) \cup {Bh}
    BY <1>6, EnterEffect DEF BhStarts
  <2>2. QED BY <2>1 DEF WokenEntered
<1>7. CASE BhEnters
  <2>1. CASE unlock_bh_queue = <<>> /\ UNCHANGED unlock_bh_queue
    BY <2>1 DEF WokenEntered
  <2>2. CASE Bh \in Elems(stack')
    BY <2>2 DEF WokenEntered
  <2>3. QED BY <1>7, <2>1, <2>2, BhEffect
<1>8. CASE UNCHANGED vars
  BY <1>1, <1>8 DEF vars
<1>9. QED
  BY <1>2, <1>3, <1>4, <1>5, <1>6, <1>7, <1>8 DEF Next, Runs, Unlock

-----------------------------------------------------------------------------
(* Theorems.                                                               *)

(* The invariant holds at first: nobody runs, waits or holds.              *)
LEMMA InitHolds == Init => CoInv
<1>1. SUFFICES ASSUME Init PROVE CoInv
  OBVIOUS
<1>2. Elems(<<>>) = {} /\ Distinct(<<>>) /\ DistinctBut(<<>>, Bh)
  BY DEF Elems, Distinct, DistinctBut
<1>3. \A m \in Modes : Holders(m) = {}
  BY <1>1 DEF Init, Holders, Modes
<1>4. TypeOK
  <2>1. /\ queue \in [{"mutex", "rwlock"} -> Seq(Cos)] /\ stack \in Seq(Cos \cup {Bh})
        /\ unlock_bh_queue \in Seq(Cos)
    BY <1>1 DEF Init
  <2>2. calls \in [Cos -> Nat] /\ in_io \in SUBSET Cos /\ reader \in Nat
    BY <1>1, CoAssumption DEF Init, CoAssumption
  <2>3. /\ want \in [Cos -> Modes \cup {"none"}] /\ held \in [Cos -> Modes \cup {"none"}]
        /\ \A c \in Cos : want[c] # "none" => held[c] = "none"
    BY <1>1 DEF Init
  <2>4. locked \in BOOLEAN /\ writer \in BOOLEAN /\ scheduled \in BOOLEAN
    BY <1>1 DEF Init
  <2>5. QED BY <2>1, <2>2, <2>3, <2>4 DEF TypeOK
<1>5. Exclusion
  <2>1. Cardinality(Holders("read")) = 0
    BY <1>3, FS_EmptySet DEF Modes
  <2>2. QED BY <1>1, <1>3, <2>1 DEF Exclusion, Init, Modes
<1>6. Apart
  <2>1. \A l \in Names : queue[l] = <<>>
    BY <1>1 DEF Init, Names
  <2>2. QED BY <1>1, <1>2, <2>1 DEF Apart, Init, Names
<1>7. NoLostWakeup /\ ReadersWaitForAWriter /\ WokenEntered
  BY <1>1, <1>2
     DEF Init, NoLostWakeup, ReadersWaitForAWriter, WokenEntered
<1>8. QED BY <1>4, <1>5, <1>6, <1>7 DEF CoInv

(* CoInv is inductive, so it holds in every reachable state.               *)
LEMMA CoInvariant == Spec => []CoInv
<1>1. CoInv /\ [Next]_vars => CoInv'
  BY TypeStep, ExclusionStep, ApartStep, WakeupStep, ReadersStep, EnteredStep
     DEF CoInv
<1>2. QED BY <1>1, InitHolds, PTL DEF Spec

(* Every variable of the locks keeps its type.                             *)
THEOREM CoTypeCorrect == Spec => []TypeOK
BY CoInvariant, PTL DEF CoInv

(* qemu_co_mutex_lock excludes; qemu_co_rwlock_rdlock and _wrlock admit one*)
(* writer or any number of readers.                                        *)
THEOREM LocksExclude == Spec => []Exclusion
BY CoInvariant, PTL DEF CoInv

(* While coroutines queue for a lock it is held, or one of them was woken. *)
THEOREM WakeupNeverLost == Spec => []NoLostWakeup
BY CoInvariant, PTL DEF CoInv

(* When the last reader leaves, only writers are in the queue.             *)
THEOREM OneWriterIsEnough == Spec => []ReadersWaitForAWriter
BY CoInvariant, PTL DEF CoInv

(* The woken are entered: the bottom half is scheduled or in its loop.     *)
THEOREM WokenAreEntered == Spec => []WokenEntered
BY CoInvariant, PTL DEF CoInv

(* Waiting lists the coroutines of the three queues, each once.            *)
LEMMA WaitingElems ==
  ASSUME TypeOK, Apart
  PROVE  /\ Distinct(Waiting)
         /\ Elems(Waiting) = Elems(queue["mutex"]) \cup Elems(queue["rwlock"])
                               \cup Elems(unlock_bh_queue)
<1> DEFINE q == queue["mutex"]
           r == queue["rwlock"]
<1>1. /\ q \in Seq(Cos) /\ r \in Seq(Cos) /\ unlock_bh_queue \in Seq(Cos)
      /\ Distinct(q) /\ Distinct(r) /\ Distinct(unlock_bh_queue)
      /\ Elems(q) \cap Elems(r) = {}
      /\ Elems(q) \cap Elems(unlock_bh_queue) = {}
      /\ Elems(r) \cap Elems(unlock_bh_queue) = {}
  BY DEF TypeOK, Apart, Names
<1> HIDE DEF q, r
<1> DEFINE u == q \o r
<1>2. u \in Seq(Cos) /\ Distinct(u) /\ Elems(u) = Elems(q) \cup Elems(r)
  BY <1>1, ConcatElems
<1> HIDE DEF u
<1>3. Elems(u) \cap Elems(unlock_bh_queue) = {}
  BY <1>1, <1>2
<1>4. /\ Distinct(u \o unlock_bh_queue)
      /\ Elems(u \o unlock_bh_queue) = Elems(u) \cup Elems(unlock_bh_queue)
  BY <1>1, <1>2, <1>3, ConcatElems
<1>5. QED BY <1>2, <1>4 DEF Waiting, q, r, u

(* "Co-routine re-entered recursively" is unreachable.                     *)
THEOREM NoReentry == Spec => []NeverReentered
<1>1. CoInv => NeverReentered
  <2>1. SUFFICES ASSUME CoInv PROVE NeverReentered
    OBVIOUS
  <2>2. TypeOK /\ Apart
    BY <2>1 DEF CoInv
  <2>3. Distinct(Waiting) /\ \A c \in Elems(Waiting) :
          want[c] # "none" /\ c \notin Elems(stack) \cup in_io
    BY <2>2, WaitingElems DEF Apart, Names
  <2>4. QED
    BY <2>2, <2>3 DEF NeverReentered, Apart, Distinct, DistinctBut
<1>2. QED BY <1>1, CoInvariant, PTL
=============================================================================
