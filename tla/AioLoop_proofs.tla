---------------------------- MODULE AioLoop_proofs --------------------------
(***************************************************************************)
(* Proofs about AioLoop, for any bottom halves, handlers and nesting.      *)
(***************************************************************************)
EXTENDS AioLoop, FiniteSetTheorems, TLAPS

-----------------------------------------------------------------------------
(* The lists.                                                              *)

(* Ranks number the elements of a finite set of numbers from 1 on.         *)
LEMMA Ranks ==
  ASSUME NEW n \in Nat, NEW kept \in SUBSET (1..n)
  PROVE  /\ IsFiniteSet(kept) /\ Cardinality(kept) \in Nat
         /\ \A i \in kept : Rank(kept, i) \in 1..Cardinality(kept)
         /\ \A i, j \in kept : Rank(kept, i) = Rank(kept, j) => i = j
         /\ \A j \in 1..Cardinality(kept) : \E i \in kept : Rank(kept, i) = j
<1> DEFINE below(i) == {k \in kept : k <= i}
           c == Cardinality(kept)
           f == [i \in kept |-> Rank(kept, i)]
<1>1. IsFiniteSet(kept) /\ c \in Nat
  <2>1. IsFiniteSet(1..n)
    BY FS_Interval
  <2>2. IsFiniteSet(kept)
    BY <2>1, FS_Subset
  <2>3. QED BY <2>2, FS_CardinalityType
<1>2. \A i \in kept : IsFiniteSet(below(i)) /\ Cardinality(below(i)) <= c
  BY <1>1, FS_Subset
<1>3. ASSUME NEW i \in kept
      PROVE  Rank(kept, i) \in 1..c
  <2>1. i \in below(i)
    OBVIOUS
  <2>2. Cardinality(below(i)) \in Nat /\ Cardinality(below(i)) # 0
    BY <1>2, <2>1, FS_CardinalityType, FS_EmptySet
  <2>3. QED BY <1>1, <1>2, <2>2 DEF Rank
<1>4. ASSUME NEW i \in kept, NEW j \in kept, i < j
      PROVE  Rank(kept, i) < Rank(kept, j)
  <2>1. below(i) \in SUBSET below(j) /\ j \in below(j) \ below(i)
    <3>1. i \in Int /\ j \in Int /\ \A k \in kept : k \in Int
      OBVIOUS
    <3>2. \A k \in kept : k <= i => k <= j
      BY <1>4, <3>1
    <3>3. j <= j /\ ~(j <= i)
      BY <1>4, <3>1
    <3>4. QED BY <3>2, <3>3
  <2>2. Cardinality(below(i)) <= Cardinality(below(j))
        /\ (Cardinality(below(j)) = Cardinality(below(i)) => below(j) = below(i))
    BY <1>2, <2>1, FS_Subset
  <2>3. Cardinality(below(i)) # Cardinality(below(j))
    BY <2>1, <2>2
  <2>4. Rank(kept, i) \in Nat /\ Rank(kept, j) \in Nat
    BY <1>3
  <2>5. QED BY <2>2, <2>3, <2>4 DEF Rank
<1>5. \A i, j \in kept : Rank(kept, i) = Rank(kept, j) => i = j
  <2>1. ASSUME NEW i \in kept, NEW j \in kept, i # j
        PROVE  Rank(kept, i) # Rank(kept, j)
    <3>1. (i < j \/ j < i) /\ Rank(kept, i) \in Int /\ Rank(kept, j) \in Int
      BY <1>3, <2>1
    <3>2. QED BY <1>4, <3>1
  <2>2. QED BY <2>1
<1>6. f \in [kept -> 1..c]
  BY <1>3
<1>7. \A a, b \in kept : f[a] = f[b] => a = b
  BY <1>5
<1>8. f \in Injection(kept, 1..c)
  BY <1>6, <1>7 DEF Injection, IsInjective
<1>9. IsFiniteSet(1..c) /\ Cardinality(1..c) = c
  BY <1>1, FS_Interval
<1>10. f \in Surjection(kept, 1..c)
  BY <1>1, <1>8, <1>9, FS_Injection
<1>11. \A j \in 1..c : \E i \in kept : f[i] = j
  BY <1>10 DEF Surjection
<1>12. QED BY <1>1, <1>3, <1>5, <1>11

(* What Live keeps.                                                        *)
LEMMA LiveKeeps ==
  ASSUME NEW S, NEW list \in Seq(S), IsInjective(list), NEW freed
  PROVE  /\ Live(list, freed) \in Seq(S) /\ IsInjective(Live(list, freed))
         /\ ToSet(Live(list, freed)) = ToSet(list) \ freed
<1> DEFINE kept == {i \in DOMAIN list : list[i] \notin freed}
           c == Cardinality(kept)
           at(j) == CHOOSE i \in kept : Rank(kept, i) = j
           r == [j \in 1..c |-> list[at(j)]]
<1>1. Len(list) \in Nat /\ DOMAIN list = 1..Len(list) /\ kept \in SUBSET (1..Len(list))
  OBVIOUS
<1>2. /\ c \in Nat
      /\ \A i \in kept : Rank(kept, i) \in 1..c
      /\ \A i, j \in kept : Rank(kept, i) = Rank(kept, j) => i = j
      /\ \A j \in 1..c : \E i \in kept : Rank(kept, i) = j
  <2> HIDE DEF kept
  <2>1. QED BY <1>1, Ranks
<1>3. \A j \in 1..c : at(j) \in kept /\ Rank(kept, at(j)) = j
  <2> HIDE DEF kept
  <2>1. QED BY <1>2
<1>4. \A i \in kept : at(Rank(kept, i)) = i
  <2> HIDE DEF kept
  <2>1. QED BY <1>2
<1>5. Live(list, freed) = r
  BY DEF Live
<1>6. \A j \in 1..c : list[at(j)] \in S /\ list[at(j)] \notin freed /\ at(j) \in DOMAIN list
  <2>1. \A i \in kept : list[i] \in S /\ list[i] \notin freed /\ i \in DOMAIN list
    OBVIOUS
  <2> HIDE DEF kept, at
  <2>2. QED BY <1>3, <2>1
<1> HIDE DEF kept, at
<1>7. r \in Seq(S) /\ DOMAIN r = 1..c
  <2>1. \A j \in 1..c : r[j] \in S
    BY <1>6
  <2>2. QED BY <1>2, <2>1
<1>8. IsInjective(r)
  <2>1. \A a, b \in 1..c : r[a] = r[b] => a = b
    BY <1>3, <1>6 DEF IsInjective
  <2>2. QED BY <1>7, <2>1 DEF IsInjective
<1>9. ToSet(r) = ToSet(list) \ freed
  <2>1. ASSUME NEW x \in ToSet(r) PROVE x \in ToSet(list) \ freed
    BY <1>6, <1>7, <2>1 DEF ToSet
  <2>2. ASSUME NEW x \in ToSet(list) \ freed PROVE x \in ToSet(r)
    <3>1. PICK i \in DOMAIN list : x = list[i]
      BY <2>2 DEF ToSet
    <3>2. i \in kept
      BY <2>2, <3>1 DEF kept
    <3>3. r[Rank(kept, i)] = x /\ Rank(kept, i) \in 1..c
      BY <1>2, <1>4, <3>1, <3>2
    <3>4. QED BY <1>7, <3>3 DEF ToSet
  <2>3. QED BY <2>1, <2>2
<1>10. QED BY <1>5, <1>7, <1>8, <1>9

(* A structure that is put in front of a list.                             *)
LEMMA Consed ==
  ASSUME NEW S, NEW list \in Seq(S), IsInjective(list), NEW x \in S, x \notin ToSet(list)
  PROVE  /\ <<x>> \o list \in Seq(S) /\ IsInjective(<<x>> \o list)
         /\ ToSet(<<x>> \o list) = ToSet(list) \cup {x}
<1> DEFINE r == <<x>> \o list
           n == Len(list)
<1>1. /\ r \in Seq(S) /\ n \in Nat /\ Len(r) = n + 1 /\ r[1] = x
      /\ \A i \in 2..(n + 1) : r[i] = list[i - 1]
      /\ DOMAIN r = 1..(n + 1) /\ DOMAIN list = 1..n
  OBVIOUS
<1> HIDE DEF r, n
<1>0. /\ \A y : y \in ToSet(list) <=> \E i \in 1..n : y = list[i]
      /\ \A y : y \in ToSet(r) <=> \E i \in 1..(n + 1) : y = r[i]
  <2>1. ToSet(list) = {list[i] : i \in 1..n} /\ ToSet(r) = {r[i] : i \in 1..(n + 1)}
    BY <1>1, Zenon DEF ToSet
  <2>2. QED BY <2>1
<1>2. \A i \in 1..(n + 1) : i # 1 => i \in 2..(n + 1) /\ i - 1 \in 1..n
  BY <1>1
<1>3. \A i \in 1..n : list[i] # x /\ i + 1 \in 2..(n + 1) /\ i + 1 \in 1..(n + 1)
                      /\ r[i + 1] = list[i]
  BY <1>0, <1>1
<1>4. ASSUME NEW i \in 1..(n + 1), NEW j \in 1..(n + 1), r[i] = r[j] PROVE i = j
  <2>1. CASE i = 1 \/ j = 1
    BY <1>1, <1>2, <1>3, <1>4, <2>1
  <2>2. CASE i # 1 /\ j # 1
    <3>1. i - 1 \in 1..n /\ j - 1 \in 1..n /\ list[i - 1] = list[j - 1]
      BY <1>1, <1>2, <1>4, <2>2
    <3>2. i - 1 = j - 1
      BY <1>1, <3>1 DEF IsInjective
    <3>3. QED BY <3>2, <1>1
  <2>3. QED BY <2>1, <2>2
<1>5. IsInjective(r)
  BY <1>1, <1>4 DEF IsInjective
<1>6. ToSet(r) = ToSet(list) \cup {x}
  <2>1. ASSUME NEW y \in ToSet(r) PROVE y \in ToSet(list) \cup {x}
    BY <1>0, <1>1, <1>2, <2>1
  <2>2. ASSUME NEW y \in ToSet(list) \cup {x} PROVE y \in ToSet(r)
    <3>1. CASE y = x
      <4>1. 1 \in 1..(n + 1)
        BY <1>1
      <4>2. QED BY <1>0, <1>1, <3>1, <4>1
    <3>2. CASE y \in ToSet(list)
      BY <1>0, <1>3, <3>2
    <3>3. QED BY <2>2, <3>1, <3>2
  <2>3. QED BY <2>1, <2>2
<1>7. QED BY <1>1, <1>5, <1>6 DEF r

(* What After finds.                                                       *)
LEMMA AfterFinds ==
  ASSUME NEW S, NEW list \in Seq(S), IsInjective(list),
         NEW k \in 1..Len(list), NEW x, x = list[k]
  PROVE  After(list, x) = IF k < Len(list) THEN list[k + 1] ELSE None
<1>1. \E i \in DOMAIN list : list[i] = x
  OBVIOUS
<1> DEFINE c == CHOOSE i \in DOMAIN list : list[i] = x
<1>2. c = k
  BY <1>1 DEF IsInjective
<1>3. After(list, x) = IF c < Len(list) THEN list[c + 1] ELSE None
  BY Zenon DEF After
<1> HIDE DEF c
<1>4. QED BY <1>2, <1>3
-----------------------------------------------------------------------------
(* The invariant.                                                          *)

PollFrames == [fn : {"poll"}, place : {"walk", "callback"}, at : BHs \cup {None},
               ret : BOOLEAN, idled : BOOLEAN, rdfds : SUBSET Fds]
WaitFrames == [fn : {"wait"}, place : {"poll", "fill", "select", "walk", "callback"},
               at : Nodes \cup {None}, ret : BOOLEAN, idled : BOOLEAN,
               rdfds : SUBSET Fds]
AnyFrame == PollFrames \cup WaitFrames

(* How calls nest: a wait calls only its poll, and the bottom halves it    *)
(* runs call the rest.  A callback that ran is counted.                    *)
Nested(s) ==
  /\ s \in Seq(AnyFrame)
  /\ \A i \in 1..Len(s) :
       /\ s[i].fn = "wait" => (s[i].place = "poll" <=> i < Len(s))
       /\ s[i].fn = "wait" /\ i < Len(s) => s[i + 1].fn = "poll"
       /\ s[i].fn = "poll" /\ i < Len(s) => s[i].place = "callback"
       /\ s[i].fn = "poll" /\ s[i].place = "callback" => s[i].ret \/ s[i].idled

PollsOf(s) == {i \in 1..Len(s) : s[i].fn = "poll"}

(* The bottom halves a list of calls stands at are in a set.               *)
PollsIn(s, B) == \A i \in PollsOf(s) : s[i].at # None => s[i].at \in B

BhInv ==
  /\ first_bh \in Seq(BHs) /\ IsInjective(first_bh)
  /\ scheduled \in [BHs -> BOOLEAN] /\ idle \in [BHs -> BOOLEAN]
  /\ deleted \in [BHs -> BOOLEAN]
  /\ \A b \in BHs : scheduled[b] => b \in Allocated

(* A request in flight has a handler that nobody has deleted.              *)
NodeInv ==
  /\ aio_handlers \in Seq(Nodes) /\ IsInjective(aio_handlers)
  /\ fd_of \in [Nodes -> Fds \cup {None}] /\ gone \in [Nodes -> BOOLEAN]
  /\ walking_handlers \in BOOLEAN
  /\ \A n \in Nodes : gone[n] => n \in ToSet(aio_handlers)
  /\ inflight \subseteq Fds /\ readable \subseteq inflight
  /\ \A fd \in inflight : Handling(fd) # {}

StackInv ==
  /\ Nested(stack) /\ Len(stack) <= MaxDepth
  /\ nesting = Cardinality(PollsOf(stack))
  /\ PollsIn(stack, ToSet(first_bh))

(* Only the innermost call walks the handlers, and it has said so.         *)
WalkInv ==
  Top.fn = "wait" /\ Top.place \in {"walk", "callback"} =>
    walking_handlers /\ (Top.at # None => Top.at \in ToSet(aio_handlers))

(* A poll that has run nothing yet has all there is to run before it.      *)
Ahead(b) ==
  \E i, j \in 1..Len(first_bh) : i <= j /\ first_bh[i] = Top.at /\ first_bh[j] = b

ProgressInv ==
  \A b \in BHs : scheduled[b] /\ ~idle[b] =>
    /\ AtPlace("poll", "walk") /\ ~Top.ret /\ ~Top.idled => Ahead(b)
    /\ AtPlace("wait", "fill") => Top.idled

LoopInv == BhInv /\ NodeInv /\ StackInv /\ WalkInv /\ ProgressInv

-----------------------------------------------------------------------------
(* Calls and returns.                                                      *)

LEMMA FrontOf ==
  ASSUME NEW S, NEW s \in Seq(S), s # <<>>
  PROVE  /\ Len(s) \in Nat \ {0} /\ Front(s) \in Seq(S)
         /\ Len(Front(s)) = Len(s) - 1
         /\ \A i \in 1..(Len(s) - 1) : Front(s)[i] = s[i]
         /\ Last(s) = s[Len(s)] /\ Last(s) \in S /\ Len(s) \in 1..Len(s)
<1>1. Len(s) \in Nat \ {0}
  OBVIOUS
<1>2. Front(s) = [i \in 1..(Len(s) - 1) |-> s[i]]
  BY <1>1 DEF Front
<1>3. Len(s) - 1 \in Nat /\ \A i \in 1..(Len(s) - 1) : s[i] \in S
  BY <1>1
<1>4. Front(s) \in Seq(S) /\ Len(Front(s)) = Len(s) - 1
  BY <1>2, <1>3
<1>5. QED BY <1>1, <1>2, <1>4 DEF Last

LEMMA PollsFinite ==
  ASSUME NEW s, Nested(s)
  PROVE  IsFiniteSet(PollsOf(s)) /\ Cardinality(PollsOf(s)) \in Nat
<1>1. IsFiniteSet(1..Len(s))
  BY FS_Interval DEF Nested
<1>2. QED BY <1>1, FS_Subset, FS_CardinalityType DEF PollsOf

LEMMA AppendedTo ==
  ASSUME NEW S, NEW s \in Seq(S), NEW f \in S
  PROVE  /\ Append(s, f) \in Seq(S) /\ Len(s) \in Nat
         /\ Len(Append(s, f)) = Len(s) + 1 /\ Append(s, f)[Len(s) + 1] = f
         /\ \A i \in 1..Len(s) : Append(s, f)[i] = s[i]
OBVIOUS

(* A call from the main loop or a bottom half.                             *)
LEMMA Call ==
  ASSUME NEW s, Nested(s), NEW f \in AnyFrame, f.place \notin {"poll", "callback"},
         s # <<>> => Last(s).fn = "poll" /\ Last(s).place = "callback"
  PROVE  /\ Nested(Append(s, f)) /\ Len(s) \in Nat /\ Len(Append(s, f)) = Len(s) + 1
         /\ Append(s, f) # <<>> /\ Last(Append(s, f)) = f
         /\ Cardinality(PollsOf(Append(s, f))) =
              IF f.fn = "poll" THEN Cardinality(PollsOf(s)) + 1
              ELSE Cardinality(PollsOf(s))
         /\ \A B : PollsIn(s, B) /\ (f.fn = "poll" /\ f.at # None => f.at \in B)
                   => PollsIn(Append(s, f), B)
<1> DEFINE r == Append(s, f)
<1>1. s \in Seq(AnyFrame) /\ f.fn \in {"poll", "wait"}
  BY DEF Nested, AnyFrame, PollFrames, WaitFrames
<1>2. /\ r \in Seq(AnyFrame) /\ Len(s) \in Nat /\ Len(r) = Len(s) + 1
      /\ r[Len(s) + 1] = f /\ \A i \in 1..Len(s) : r[i] = s[i]
  BY <1>1, AppendedTo
<1>3. ASSUME s # <<>> PROVE Last(s) = s[Len(s)] /\ Len(s) \in 1..Len(s)
  BY <1>1, <1>3, FrontOf
<1> HIDE DEF r
<1>4. ASSUME NEW i \in 1..Len(r)
      PROVE  /\ r[i].fn = "wait" => (r[i].place = "poll" <=> i < Len(r))
             /\ r[i].fn = "wait" /\ i < Len(r) => r[i + 1].fn = "poll"
             /\ r[i].fn = "poll" /\ i < Len(r) => r[i].place = "callback"
             /\ r[i].fn = "poll" /\ r[i].place = "callback" => r[i].ret \/ r[i].idled
  <2>1. CASE i = Len(s) + 1
    <3>1. r[i] = f /\ ~(i < Len(r))
      BY <1>2, <2>1
    <3>2. QED BY <3>1
  <2>2. CASE i = Len(s) /\ i \in 1..Len(s)
    <3>1. r[i] = s[i] /\ s # <<>> /\ i < Len(r)
      BY <1>2, <2>2
    <3>2. s[i].fn = "poll" /\ s[i].place = "callback"
      BY <1>3, <2>2, <3>1
    <3>3. s[i].ret \/ s[i].idled
      BY <2>2, <3>2 DEF Nested
    <3>4. QED BY <3>1, <3>2, <3>3
  <2>3. CASE i \in 1..(Len(s) - 1)
    <3>1. i \in 1..Len(s) /\ i + 1 \in 1..Len(s) /\ i < Len(s) /\ i < Len(r)
      BY <1>2, <2>3
    <3>2. r[i] = s[i] /\ r[i + 1] = s[i + 1]
      BY <1>2, <3>1
    <3>3. QED BY <3>1, <3>2 DEF Nested
  <2>4. QED BY <1>2, <2>1, <2>2, <2>3
<1>5. Nested(r)
  BY <1>2, <1>4 DEF Nested, AnyFrame
<1>6. /\ PollsOf(r) = IF f.fn = "poll" THEN PollsOf(s) \cup {Len(s) + 1} ELSE PollsOf(s)
      /\ Len(s) + 1 \notin PollsOf(s)
  <2>1. ASSUME NEW i \in 1..Len(r)
        PROVE  i \in PollsOf(r) <=> i \in PollsOf(s) \/ (i = Len(s) + 1 /\ f.fn = "poll")
    BY <1>2 DEF PollsOf
  <2>2. PollsOf(r) \subseteq 1..Len(r) /\ PollsOf(s) \subseteq 1..Len(r)
        /\ Len(s) + 1 \notin PollsOf(s) /\ Len(s) + 1 \in 1..Len(r)
    BY <1>2 DEF PollsOf
  <2>3. QED BY <2>1, <2>2
<1>7. Cardinality(PollsOf(r)) = IF f.fn = "poll" THEN Cardinality(PollsOf(s)) + 1
                                ELSE Cardinality(PollsOf(s))
  <2>1. IsFiniteSet(PollsOf(s))
    BY PollsFinite
  <2>2. Cardinality(PollsOf(s) \cup {Len(s) + 1}) = Cardinality(PollsOf(s)) + 1
    BY <1>6, <2>1, FS_AddElement
  <2>3. QED BY <1>6, <2>2
<1>8. ASSUME NEW B, PollsIn(s, B), f.fn = "poll" /\ f.at # None => f.at \in B
      PROVE  PollsIn(r, B)
  <2>1. ASSUME NEW i \in PollsOf(r), r[i].at # None PROVE r[i].at \in B
    <3>1. (i \in PollsOf(s) /\ i \in 1..Len(s)) \/ (i = Len(s) + 1 /\ f.fn = "poll")
      BY <1>6 DEF PollsOf
    <3>2. QED BY <1>2, <1>8, <2>1, <3>1 DEF PollsIn
  <2>2. QED BY <2>1 DEF PollsIn
<1>9. r # <<>> /\ Last(r) = f
  BY <1>2 DEF Last
<1>10. QED BY <1>2, <1>5, <1>7, <1>8, <1>9 DEF r

(* A wait is called, and calls its poll.                                   *)
LEMMA CallWait ==
  ASSUME NEW s, Nested(s), NEW w \in WaitFrames, w.place = "poll",
         NEW f \in PollFrames, f.place = "walk",
         s # <<>> => Last(s).fn = "poll" /\ Last(s).place = "callback"
  PROVE  /\ Nested(Append(Append(s, w), f)) /\ Len(Append(Append(s, w), f)) = Len(s) + 2
         /\ Append(Append(s, w), f) # <<>> /\ Last(Append(Append(s, w), f)) = f
         /\ Cardinality(PollsOf(Append(Append(s, w), f))) = Cardinality(PollsOf(s)) + 1
         /\ \A B : PollsIn(s, B) /\ (f.at # None => f.at \in B)
                     => PollsIn(Append(Append(s, w), f), B)
<1> DEFINE q == Append(s, w)
           r == Append(q, f)
<1>1. /\ s \in Seq(AnyFrame) /\ w \in AnyFrame /\ f \in AnyFrame
      /\ w.fn = "wait" /\ f.fn = "poll"
  BY DEF Nested, AnyFrame, PollFrames, WaitFrames
<1>2. /\ q \in Seq(AnyFrame) /\ Len(s) \in Nat /\ Len(q) = Len(s) + 1
      /\ q[Len(s) + 1] = w /\ \A i \in 1..Len(s) : q[i] = s[i]
  BY <1>1, AppendedTo
<1>3. ASSUME s # <<>> PROVE Last(s) = s[Len(s)] /\ Len(s) \in 1..Len(s)
  BY <1>1, <1>3, FrontOf
<1> HIDE DEF q
<1>4. /\ r \in Seq(AnyFrame) /\ Len(r) = Len(q) + 1
      /\ r[Len(q) + 1] = f /\ \A i \in 1..Len(q) : r[i] = q[i]
  BY <1>1, <1>2, AppendedTo
<1> HIDE DEF r
<1>5. /\ Len(r) = Len(s) + 2 /\ r[Len(s) + 2] = f /\ r[Len(s) + 1] = w
      /\ \A i \in 1..Len(s) : r[i] = s[i]
  BY <1>2, <1>4
<1>6. ASSUME NEW i \in 1..Len(r)
      PROVE  /\ r[i].fn = "wait" => (r[i].place = "poll" <=> i < Len(r))
             /\ r[i].fn = "wait" /\ i < Len(r) => r[i + 1].fn = "poll"
             /\ r[i].fn = "poll" /\ i < Len(r) => r[i].place = "callback"
             /\ r[i].fn = "poll" /\ r[i].place = "callback" => r[i].ret \/ r[i].idled
  <2>1. CASE i = Len(s) + 2
    BY <1>1, <1>5, <2>1
  <2>2. CASE i = Len(s) + 1
    <3>1. i < Len(r) /\ r[i] = w /\ r[i + 1] = f
      BY <1>2, <1>5, <2>2
    <3>2. QED BY <1>1, <3>1
  <2>3. CASE i = Len(s) /\ i \in 1..Len(s)
    <3>1. r[i] = s[i] /\ s # <<>> /\ i < Len(r)
      BY <1>2, <1>5, <2>3
    <3>2. s[i].fn = "poll" /\ s[i].place = "callback"
      BY <1>3, <2>3, <3>1
    <3>3. s[i].ret \/ s[i].idled
      BY <2>3, <3>2 DEF Nested
    <3>4. QED BY <3>1, <3>2, <3>3
  <2>4. CASE i \in 1..(Len(s) - 1)
    <3>1. i \in 1..Len(s) /\ i + 1 \in 1..Len(s) /\ i < Len(s) /\ i < Len(r)
      BY <1>2, <1>5, <2>4
    <3>2. r[i] = s[i] /\ r[i + 1] = s[i + 1]
      BY <1>5, <3>1
    <3>3. QED BY <3>1, <3>2 DEF Nested
  <2>5. QED BY <1>2, <1>5, <2>1, <2>2, <2>3, <2>4
<1>7. Nested(r)
  BY <1>4, <1>6 DEF Nested, AnyFrame
<1>8. PollsOf(r) = PollsOf(s) \cup {Len(s) + 2} /\ Len(s) + 2 \notin PollsOf(s)
  <2>1. ASSUME NEW i \in 1..Len(r)
        PROVE  i \in PollsOf(r) <=> i \in PollsOf(s) \/ i = Len(s) + 2
    BY <1>1, <1>2, <1>5 DEF PollsOf
  <2>2. QED BY <1>2, <1>5, <2>1 DEF PollsOf
<1>9. Cardinality(PollsOf(r)) = Cardinality(PollsOf(s)) + 1
  BY <1>8, PollsFinite, FS_AddElement
<1>10. ASSUME NEW B, PollsIn(s, B), f.at # None => f.at \in B
       PROVE  PollsIn(r, B)
  BY <1>5, <1>8, <1>10 DEF PollsIn, PollsOf
<1>11. r # <<>> /\ Last(r) = f
  BY <1>2, <1>5 DEF Last
<1>12. QED BY <1>5, <1>7, <1>9, <1>10, <1>11 DEF r, q

(* The innermost call goes on.                                             *)
LEMMA GoOn ==
  ASSUME NEW s, Nested(s), s # <<>>, NEW f \in AnyFrame, f.fn = Last(s).fn,
         f.fn = "wait" => f.place # "poll",
         f.fn = "poll" /\ f.place = "callback" => f.ret \/ f.idled
  PROVE  /\ Nested(Append(Front(s), f)) /\ Len(Append(Front(s), f)) = Len(s)
         /\ Append(Front(s), f) # <<>> /\ Last(Append(Front(s), f)) = f
         /\ Cardinality(PollsOf(Append(Front(s), f))) = Cardinality(PollsOf(s))
         /\ \A B : PollsIn(s, B) /\ (f.fn = "poll" /\ f.at # None => f.at \in B)
                   => PollsIn(Append(Front(s), f), B)
<1> DEFINE r == Append(Front(s), f)
           n == Len(s)
<1>1. s \in Seq(AnyFrame)
  BY DEF Nested, AnyFrame
<1>2. /\ n \in Nat \ {0} /\ Front(s) \in Seq(AnyFrame) /\ Len(Front(s)) = n - 1
      /\ \A i \in 1..(n - 1) : Front(s)[i] = s[i]
      /\ Last(s) = s[n]
  BY <1>1, FrontOf
<1>3. /\ r \in Seq(AnyFrame) /\ Len(r) = n /\ r[n] = f
      /\ \A i \in 1..(n - 1) : r[i] = s[i]
  BY <1>2, AppendedTo
<1>4. r # <<>> /\ Last(r) = f
  BY <1>2, <1>3 DEF Last
<1> HIDE DEF r, n
<1>5. ASSUME NEW i \in 1..n
      PROVE  /\ r[i].fn = s[i].fn
             /\ r[i].fn = "wait" => (r[i].place = "poll" <=> i < n)
             /\ r[i].fn = "poll" /\ i < n => r[i].place = "callback"
             /\ r[i].fn = "poll" /\ r[i].place = "callback" => r[i].ret \/ r[i].idled
  <2>1. CASE i = n
    BY <1>2, <1>3, <2>1
  <2>2. CASE i # n
    <3>1. i \in 1..(n - 1)
      BY <1>2, <2>2
    <3>2. r[i] = s[i]
      BY <1>3, <3>1
    <3>3. QED BY <3>2 DEF Nested, n
  <2>3. QED BY <2>1, <2>2
<1>6. ASSUME NEW i \in 1..n, r[i].fn = "wait", i < n PROVE r[i + 1].fn = "poll"
  <2>1. i + 1 \in 1..n
    BY <1>2, <1>6
  <2>2. r[i + 1].fn = s[i + 1].fn /\ s[i].fn = "wait"
    BY <1>5, <1>6, <2>1
  <2>3. QED BY <1>6, <2>2 DEF Nested, n
<1>7. Nested(r)
  BY <1>3, <1>5, <1>6 DEF Nested, AnyFrame
<1>8. PollsOf(r) = PollsOf(s)
  BY <1>3, <1>5 DEF PollsOf, n
<1>9. ASSUME NEW B, PollsIn(s, B), f.fn = "poll" /\ f.at # None => f.at \in B
      PROVE  PollsIn(r, B)
  <2>1. ASSUME NEW i \in PollsOf(r), r[i].at # None PROVE r[i].at \in B
    <3>1. i \in PollsOf(s) /\ i \in 1..n /\ r[i].fn = "poll"
      BY <1>3, <1>8, <2>1 DEF PollsOf
    <3>2. CASE i = n
      BY <1>3, <1>9, <2>1, <3>1, <3>2
    <3>3. CASE i # n
      <4>1. i \in 1..(n - 1)
        BY <1>2, <3>1, <3>3
      <4>2. QED BY <1>3, <1>9, <2>1, <3>1, <4>1 DEF PollsIn
    <3>4. QED BY <3>2, <3>3
  <2>2. QED BY <2>1 DEF PollsIn
<1>10. QED BY <1>3, <1>4, <1>7, <1>8, <1>9 DEF r, n

(* A call returns to a bottom half or to the main loop.                    *)
LEMMA Returns ==
  ASSUME NEW s, Nested(s), s # <<>>,
         Front(s) # <<>> => Last(Front(s)).fn = "poll"
  PROVE  /\ Nested(Front(s)) /\ Len(s) \in Nat /\ Len(Front(s)) = Len(s) - 1
         /\ Cardinality(PollsOf(Front(s))) =
              IF Last(s).fn = "poll" THEN Cardinality(PollsOf(s)) - 1
              ELSE Cardinality(PollsOf(s))
         /\ \A B : PollsIn(s, B) => PollsIn(Front(s), B)
         /\ Front(s) # <<>> => Last(Front(s)).place = "callback"
<1> DEFINE r == Front(s)
           n == Len(s)
<1>1. s \in Seq(AnyFrame)
  BY DEF Nested, AnyFrame
<1>2. /\ n \in Nat \ {0} /\ r \in Seq(AnyFrame) /\ Len(r) = n - 1
      /\ \A i \in 1..(n - 1) : r[i] = s[i]
      /\ Last(s) = s[n]
  BY <1>1, FrontOf
<1>3. ASSUME r # <<>> PROVE n - 1 \in 1..(n - 1) /\ s[n - 1].fn = "poll" /\ Last(r) = s[n - 1]
  <2>1. Last(r) = r[Len(r)] /\ Len(r) \in 1..Len(r)
    BY <1>2, <1>3, FrontOf
  <2>2. QED BY <1>2, <1>3, <2>1
<1> HIDE DEF r, n
<1>4. ASSUME NEW i \in 1..Len(r)
      PROVE  /\ r[i].fn = "wait" => (r[i].place = "poll" <=> i < Len(r))
             /\ r[i].fn = "wait" /\ i < Len(r) => r[i + 1].fn = "poll"
             /\ r[i].fn = "poll" /\ i < Len(r) => r[i].place = "callback"
             /\ r[i].fn = "poll" /\ r[i].place = "callback" => r[i].ret \/ r[i].idled
  <2>1. i \in 1..(n - 1) /\ i \in 1..n /\ i < n /\ r[i] = s[i] /\ i + 1 \in 1..n
    BY <1>2
  <2>2. i < Len(r) => r[i + 1] = s[i + 1]
    BY <1>2, <2>1
  <2>3. r[i].fn = "wait" => i < Len(r)
    <3>1. ASSUME r[i].fn = "wait", ~(i < Len(r)) PROVE FALSE
      <4>1. i = n - 1 /\ r # <<>>
        BY <1>2, <2>1, <3>1
      <4>2. QED BY <1>3, <2>1, <3>1, <4>1
    <3>2. QED BY <3>1
  <2>4. QED BY <2>1, <2>2, <2>3 DEF Nested, n
<1>5. Nested(r)
  BY <1>2, <1>4 DEF Nested, AnyFrame
<1>6. PollsOf(r) = PollsOf(s) \ {n}
  <2>1. ASSUME NEW i \in 1..n
        PROVE  i \in PollsOf(r) <=> i \in PollsOf(s) /\ i # n
    BY <1>2 DEF PollsOf, n
  <2>2. PollsOf(r) \subseteq 1..n /\ PollsOf(s) \subseteq 1..n
    BY <1>2 DEF PollsOf, n
  <2>3. QED BY <2>1, <2>2
<1>7. n \in PollsOf(s) <=> Last(s).fn = "poll"
  BY <1>2 DEF PollsOf, n
<1>8. Cardinality(PollsOf(r)) = IF Last(s).fn = "poll" THEN Cardinality(PollsOf(s)) - 1
                                ELSE Cardinality(PollsOf(s))
  BY <1>6, <1>7, PollsFinite, FS_RemoveElement
<1>9. ASSUME NEW B, PollsIn(s, B) PROVE PollsIn(r, B)
  <2>1. ASSUME NEW i \in PollsOf(r), r[i].at # None PROVE r[i].at \in B
    <3>1. i \in PollsOf(s) /\ i \in 1..(n - 1)
      BY <1>2, <1>6 DEF PollsOf
    <3>2. QED BY <1>2, <1>9, <2>1, <3>1 DEF PollsIn
  <2>2. QED BY <2>1 DEF PollsIn
<1>10. ASSUME r # <<>> PROVE Last(r).place = "callback"
  <2>1. n - 1 \in 1..n /\ n - 1 < n /\ s[n - 1].fn = "poll" /\ Last(r) = s[n - 1]
    BY <1>2, <1>3, <1>10
  <2>2. QED BY <2>1 DEF Nested, n
<1>11. QED BY <1>2, <1>5, <1>8, <1>9, <1>10 DEF r, n

(* A wait was called from a bottom half or from the main loop.             *)
LEMMA BelowWait ==
  ASSUME NEW s, Nested(s), s # <<>>, Last(s).fn = "wait", Front(s) # <<>>
  PROVE  Last(Front(s)).fn = "poll"
<1> DEFINE n == Len(s)
<1>1. s \in Seq(AnyFrame)
  BY DEF Nested, AnyFrame
<1>2. /\ n \in Nat \ {0} /\ Front(s) \in Seq(AnyFrame) /\ Len(Front(s)) = n - 1
      /\ \A i \in 1..(n - 1) : Front(s)[i] = s[i] /\ Last(s) = s[n]
      /\ Last(Front(s)) = Front(s)[n - 1] /\ n - 1 \in 1..(n - 1)
  BY <1>1, FrontOf
<1>3. s[n].fn = "wait" /\ s[n - 1] \in AnyFrame
  BY <1>1, <1>2
<1>4. s[n - 1].fn \in {"poll", "wait"}
  BY <1>3 DEF AnyFrame, PollFrames, WaitFrames
<1>5. s[n - 1].fn = "wait" => s[n].fn = "poll"
  <2>1. n - 1 \in 1..n /\ n - 1 < n /\ (n - 1) + 1 = n
    BY <1>2
  <2>2. QED BY <2>1 DEF Nested
<1>6. QED BY <1>2, <1>3, <1>4, <1>5

(* Who is below a poll is where it was when it called.                     *)
LEMMA CallerPlace ==
  ASSUME NEW s, Nested(s), s # <<>>, Front(s) # <<>>
  PROVE  /\ Last(Front(s)).fn \in {"poll", "wait"}
         /\ Last(Front(s)).fn = "wait" => Last(Front(s)).place = "poll"
<1> DEFINE n == Len(s)
<1>1. s \in Seq(AnyFrame)
  BY DEF Nested, AnyFrame
<1>2. /\ n \in Nat \ {0} /\ Front(s) \in Seq(AnyFrame) /\ Len(Front(s)) = n - 1
      /\ \A i \in 1..(n - 1) : Front(s)[i] = s[i]
      /\ Last(Front(s)) = Front(s)[n - 1] /\ n - 1 \in 1..(n - 1)
  BY <1>1, FrontOf
<1>3. n - 1 \in 1..n /\ n - 1 < n /\ Last(Front(s)) = s[n - 1] /\ s[n - 1] \in AnyFrame
  BY <1>1, <1>2
<1>4. s[n - 1].fn \in {"poll", "wait"}
  BY <1>3 DEF AnyFrame, PollFrames, WaitFrames
<1>5. QED BY <1>3, <1>4 DEF Nested

(* A poll returns to a wait, which returns or goes on to its handlers.     *)
LEMMA ReturnsToWait ==
  ASSUME NEW s, Nested(s), s # <<>>, Last(s).fn = "poll", Front(s) # <<>>,
         Last(Front(s)).fn = "wait",
         NEW f \in WaitFrames, f.place \notin {"poll", "callback"}
  PROVE  LET c == Front(Front(s))
             r == Append(c, f)
         IN /\ Nested(c) /\ Nested(r) /\ Len(s) \in Nat
            /\ Len(c) = Len(s) - 2 /\ Len(r) = Len(s) - 1
            /\ r # <<>> /\ Last(r) = f
            /\ Cardinality(PollsOf(c)) = Cardinality(PollsOf(s)) - 1
            /\ Cardinality(PollsOf(r)) = Cardinality(PollsOf(s)) - 1
            /\ \A B : PollsIn(s, B) => PollsIn(c, B) /\ PollsIn(r, B)
            /\ c # <<>> => Last(c).fn = "poll" /\ Last(c).place = "callback"
<1> DEFINE n == Len(s)
           q == Front(s)
           p == Append(Front(q), f)
<1>1. s \in Seq(AnyFrame)
  BY DEF Nested, AnyFrame
<1>2. /\ n \in Nat \ {0} /\ q \in Seq(AnyFrame) /\ Len(q) = n - 1
      /\ \A i \in 1..(n - 1) : q[i] = s[i]
      /\ Last(s) = s[n] /\ Last(s) \in AnyFrame
      /\ Last(q) = q[n - 1] /\ Last(q) \in AnyFrame /\ n - 1 \in 1..(n - 1)
  BY <1>1, FrontOf
<1> DEFINE c == Front(q)
<1>3. q # <<>> /\ q[n - 1].fn = "wait" /\ q[n - 1] = s[n - 1]
  BY <1>2
<1>4. /\ c \in Seq(AnyFrame) /\ n - 1 \in Nat \ {0} /\ Len(c) = (n - 1) - 1
      /\ \A i \in 1..((n - 1) - 1) : c[i] = q[i]
  BY <1>2, <1>3, FrontOf
<1>5. Len(c) = n - 2 /\ \A i \in 1..(n - 2) : c[i] = s[i]
  BY <1>2, <1>4
<1>6. ASSUME c # <<>> PROVE Last(c) = c[n - 2] /\ n - 2 \in 1..(n - 2)
  BY <1>4, <1>5, <1>6, FrontOf
<1> HIDE DEF n, q, c
<1>7. ASSUME n - 2 \in 1..(n - 2)
      PROVE  s[n - 2].fn = "poll" /\ s[n - 2].place = "callback"
  <2>1. /\ n - 2 \in 1..n /\ n - 2 < n /\ (n - 2) + 1 = n - 1
    BY <1>2, <1>7
  <2>2. s[n - 2].fn = "wait" => s[n - 1].fn = "poll"
    BY <2>1 DEF Nested, n
  <2>3. s[n - 2].fn \in {"poll", "wait"}
    <3>1. s[n - 2] \in AnyFrame
      BY <1>1, <2>1 DEF n
    <3>2. QED BY <3>1 DEF AnyFrame, PollFrames, WaitFrames
  <2>4. s[n - 2].fn = "poll"
    BY <1>3, <2>2, <2>3
  <2>5. QED BY <2>1, <2>4 DEF Nested, n
<1>8. ASSUME NEW i \in 1..Len(c)
      PROVE  /\ c[i].fn = "wait" => (c[i].place = "poll" <=> i < Len(c))
             /\ c[i].fn = "wait" /\ i < Len(c) => c[i + 1].fn = "poll"
             /\ c[i].fn = "poll" /\ i < Len(c) => c[i].place = "callback"
             /\ c[i].fn = "poll" /\ c[i].place = "callback" => c[i].ret \/ c[i].idled
  <2>1. i \in 1..n /\ i < n /\ c[i] = s[i] /\ i + 1 \in 1..n /\ i \in 1..(n - 2)
    BY <1>2, <1>5
  <2>2. i < Len(c) => c[i + 1] = s[i + 1]
    BY <1>2, <1>5, <2>1
  <2>3. c[i].fn = "wait" => i < Len(c)
    <3>1. ASSUME c[i].fn = "wait", ~(i < Len(c)) PROVE FALSE
      <4>1. i = n - 2
        BY <1>2, <1>5, <2>1, <3>1
      <4>2. QED BY <1>7, <2>1, <3>1, <4>1
    <3>2. QED BY <3>1
  <2>4. QED BY <2>1, <2>2, <2>3 DEF Nested, n
<1>9. Nested(c)
  BY <1>4, <1>8 DEF Nested, AnyFrame
<1>10. ASSUME c # <<>> PROVE Last(c).fn = "poll" /\ Last(c).place = "callback"
  <2>1. Last(c) = s[n - 2] /\ n - 2 \in 1..(n - 2)
    BY <1>5, <1>6, <1>10
  <2>2. QED BY <1>7, <2>1
<1>11. PollsOf(c) = PollsOf(s) \ {n} /\ n \in PollsOf(s)
  <2>1. ASSUME NEW i \in 1..n
        PROVE  i \in PollsOf(c) <=> i \in PollsOf(s) /\ i # n
    <3>1. CASE i = n \/ i \in 1..(n - 2)
      BY <1>2, <1>5, <3>1 DEF PollsOf, n
    <3>2. CASE i = n - 1
      <4>1. i \notin 1..Len(c) /\ s[i].fn = "wait"
        BY <1>2, <1>3, <1>5, <3>2
      <4>2. QED BY <4>1 DEF PollsOf
    <3>3. i = n \/ i \in 1..(n - 2) \/ i = n - 1
      BY <1>2
    <3>4. QED BY <3>1, <3>2, <3>3
  <2>2. PollsOf(c) \subseteq 1..n /\ PollsOf(s) \subseteq 1..n /\ n \in PollsOf(s)
    BY <1>2, <1>5 DEF PollsOf, n
  <2>3. QED BY <2>1, <2>2
<1>12. Cardinality(PollsOf(c)) = Cardinality(PollsOf(s)) - 1
  BY <1>11, PollsFinite, FS_RemoveElement
<1>13. ASSUME NEW B, PollsIn(s, B) PROVE PollsIn(c, B)
  <2>1. ASSUME NEW i \in PollsOf(c), c[i].at # None PROVE c[i].at \in B
    <3>1. i \in PollsOf(s) /\ i \in 1..(n - 2)
      BY <1>5, <1>11 DEF PollsOf
    <3>2. QED BY <1>5, <1>13, <2>1, <3>1 DEF PollsIn
  <2>2. QED BY <2>1 DEF PollsIn
<1> DEFINE r == Append(c, f)
<1>14. f \in AnyFrame /\ f.fn = "wait"
  BY DEF AnyFrame, WaitFrames
<1>15. /\ Nested(r) /\ Len(c) \in Nat /\ Len(r) = Len(c) + 1
        /\ r # <<>> /\ Last(r) = f
        /\ Cardinality(PollsOf(r)) = Cardinality(PollsOf(c))
        /\ \A B : PollsIn(c, B) => PollsIn(r, B)
  BY <1>9, <1>10, <1>14, Call
<1>16. n - 2 + 1 = n - 1
  BY <1>2
<1> HIDE DEF r
<1>17. QED BY <1>2, <1>5, <1>9, <1>10, <1>12, <1>13, <1>15, <1>16 DEF r, c, q, n

-----------------------------------------------------------------------------
(* Each part of the invariant is disturbed by a few actions only.          *)

LEMMA InitLoop == Init => LoopInv
<1> SUFFICES ASSUME Init PROVE LoopInv
  OBVIOUS
<1>1. BhInv
  <2>1. first_bh = <<>> /\ \A b \in BHs : ~scheduled[b]
    BY DEF Init
  <2>2. first_bh \in Seq(BHs) /\ IsInjective(first_bh)
    BY <2>1 DEF IsInjective
  <2>3. QED BY <2>1, <2>2 DEF Init, BhInv
<1>2. NodeInv
  <2>1. aio_handlers \in Seq(Nodes) /\ IsInjective(aio_handlers)
    BY DEF Init, IsInjective
  <2>2. QED BY <2>1 DEF Init, NodeInv
<1>3. stack = <<>> /\ nesting = 0
  BY DEF Init
<1>4. PollsOf(stack) = {}
  BY <1>3 DEF PollsOf
<1>5. StackInv
  <2>1. Nested(stack) /\ Len(stack) <= MaxDepth
    BY <1>3, LoopAssumption DEF Nested
  <2>2. Cardinality(PollsOf(stack)) = 0
    BY <1>4, FS_EmptySet
  <2>3. QED BY <1>3, <1>4, <2>1, <2>2 DEF StackInv, PollsIn
<1>6. Top.fn = "main"
  BY <1>3 DEF Top, Idle, Frame
<1>7. WalkInv /\ ProgressInv
  BY <1>6 DEF WalkInv, ProgressInv, AtPlace
<1>8. QED BY <1>1, <1>2, <1>5, <1>7 DEF LoopInv

(* User code runs in no call, in a bottom half or in io_read.              *)
LEMMA UserCodeAt ==
  ASSUME StackInv, UserCode
  PROVE  /\ ~AtPlace("poll", "walk") /\ ~AtPlace("wait", "fill")
         /\ Top.fn # "wait" /\ stack # <<>> =>
              Last(stack).fn = "poll" /\ Last(stack).place = "callback"
<1>1. ~AtPlace("poll", "walk") /\ ~AtPlace("wait", "fill")
  BY DEF UserCode, AtPlace
<1>2. ASSUME stack # <<>> PROVE Top = Last(stack) /\ Last(stack) \in AnyFrame
  <2>1. stack \in Seq(AnyFrame)
    BY DEF StackInv, Nested, AnyFrame
  <2>2. Last(stack) \in AnyFrame
    BY <1>2, <2>1, FrontOf
  <2>3. QED BY <1>2, <2>2 DEF Top
<1>3. QED
  BY <1>1, <1>2 DEF UserCode, AnyFrame, PollFrames, WaitFrames

(* Bottom halves change while the calls stand still.                       *)
LEMMA BhOpInv ==
  ASSUME LoopInv, BhOp
  PROVE  LoopInv'
<1> USE DEF nodes, io
<1>0. BhInv /\ NodeInv /\ StackInv /\ WalkInv /\ ProgressInv
  BY DEF LoopInv
<1>1. UserCode /\ UNCHANGED <<nesting, nodes, io, stack>>
  BY DEF BhOp
<1>2. PICK b \in BHs : \/ BhNew(b) \/ BhSchedule(b) \/ BhScheduleIdle(b)
                       \/ BhCancel(b) \/ BhDelete(b)
  BY DEF BhOp
<1>3. Top' = Top
  BY <1>1 DEF Top
<1>4. NodeInv' /\ WalkInv'
  BY <1>0, <1>1, <1>3 DEF NodeInv, WalkInv, Handling
<1>5. ProgressInv'
  BY <1>0, <1>1, <1>3, UserCodeAt DEF ProgressInv, AtPlace
<1>6. BhInv' /\ ToSet(first_bh) \subseteq ToSet(first_bh')
  <2>1. CASE BhNew(b)
    <3>1. first_bh' = <<b>> \o first_bh /\ b \notin ToSet(first_bh)
      BY <2>1 DEF BhNew, Cons
    <3>2. /\ first_bh' \in Seq(BHs) /\ IsInjective(first_bh')
          /\ ToSet(first_bh') = ToSet(first_bh) \cup {b}
      BY <1>0, <3>1, Consed DEF BhInv
    <3>3. QED BY <1>0, <2>1, <3>2 DEF BhInv, BhNew, Allocated
  <2>2. CASE BhSchedule(b) \/ BhScheduleIdle(b)
    BY <1>0, <2>2 DEF BhInv, BhSchedule, BhScheduleIdle, Allocated
  <2>3. CASE BhCancel(b) \/ BhDelete(b)
    BY <1>0, <2>3 DEF BhInv, BhCancel, BhDelete, Allocated
  <2>4. QED BY <1>2, <2>1, <2>2, <2>3
<1>7. StackInv'
  BY <1>0, <1>1, <1>6 DEF StackInv, PollsIn
<1>8. QED BY <1>4, <1>5, <1>6, <1>7 DEF LoopInv

LEMMA SameBhs ==
  ASSUME BhInv, StackInv, ProgressInv, UNCHANGED <<bhs, stack>>
  PROVE  BhInv' /\ StackInv' /\ ProgressInv' /\ Top' = Top
<1> USE DEF bhs
<1>1. Top' = Top
  BY DEF Top
<1>2. QED BY <1>1 DEF BhInv, Allocated, StackInv, PollsIn, ProgressInv, AtPlace, Ahead

(* Handlers come and go; a walk keeps the ones it may stand at.            *)
LEMMA HandlerOpInv ==
  ASSUME LoopInv, HandlerOp
  PROVE  LoopInv'
<1>0. BhInv /\ NodeInv /\ StackInv /\ WalkInv /\ ProgressInv
  BY DEF LoopInv
<1>1. UserCode /\ UNCHANGED <<bhs, walking_handlers, stack>>
  BY DEF HandlerOp
<1>2. PICK fd \in Fds : SetHandler(fd) \/ UnsetHandler(fd) \/ Submit(fd)
  BY DEF HandlerOp
<1>3. BhInv' /\ StackInv' /\ ProgressInv' /\ Top' = Top
  BY <1>0, <1>1, SameBhs
<1>4. CASE SetHandler(fd)
  <2>1. PICK n \in Nodes \ ToSet(aio_handlers) :
          /\ aio_handlers' = Cons(n, aio_handlers)
          /\ fd_of' = [fd_of EXCEPT ![n] = fd]
    BY <1>4 DEF SetHandler
  <2>2. UNCHANGED <<gone, inflight, readable>>
    BY <1>4 DEF SetHandler, io
  <2>3. /\ aio_handlers' \in Seq(Nodes) /\ IsInjective(aio_handlers')
        /\ ToSet(aio_handlers') = ToSet(aio_handlers) \cup {n}
    BY <1>0, <2>1, Consed DEF NodeInv, Cons
  <2>4. \A g \in Fds : Handling(g) \subseteq Handling(g)'
    BY <1>0, <2>1, <2>2, <2>3 DEF NodeInv, Handling
  <2>5. NodeInv'
    BY <1>0, <1>1, <2>1, <2>2, <2>3, <2>4 DEF NodeInv
  <2>6. WalkInv'
    BY <1>0, <1>1, <1>3, <2>3 DEF WalkInv
  <2>7. QED BY <1>3, <2>5, <2>6 DEF LoopInv
<1>5. CASE UnsetHandler(fd)
  <2>1. PICK n \in Handling(fd) :
          IF walking_handlers
          THEN gone' = [gone EXCEPT ![n] = TRUE] /\ UNCHANGED <<aio_handlers, fd_of>>
          ELSE FreeNode(n) /\ UNCHANGED gone
    BY <1>5 DEF UnsetHandler
  <2>2. inflight' = inflight \ {fd} /\ readable' = readable \ {fd}
    BY <1>5 DEF UnsetHandler
  <2>3. n \in ToSet(aio_handlers) /\ fd_of[n] = fd /\ ~gone[n] /\ n \in Nodes
    BY <1>0 DEF Handling, NodeInv, ToSet
  <2>4. CASE walking_handlers
    <3>1. gone' = [gone EXCEPT ![n] = TRUE] /\ UNCHANGED <<aio_handlers, fd_of>>
      BY <2>1, <2>4
    <3>2. \A g \in inflight' : Handling(g) \subseteq Handling(g)'
      BY <1>0, <2>2, <2>3, <3>1 DEF NodeInv, Handling
    <3>3. NodeInv'
      BY <1>0, <1>1, <2>2, <2>3, <3>1, <3>2 DEF NodeInv
    <3>4. WalkInv'
      BY <1>0, <1>1, <1>3, <3>1 DEF WalkInv
    <3>5. QED BY <1>3, <3>3, <3>4 DEF LoopInv
  <2>5. CASE ~walking_handlers
    <3>1. /\ aio_handlers' = Live(aio_handlers, {n})
          /\ fd_of' = [fd_of EXCEPT ![n] = None] /\ gone' = gone
      BY <2>1, <2>5 DEF FreeNode
    <3>2. /\ aio_handlers' \in Seq(Nodes) /\ IsInjective(aio_handlers')
          /\ ToSet(aio_handlers') = ToSet(aio_handlers) \ {n}
      BY <1>0, <3>1, LiveKeeps DEF NodeInv
    <3>3. \A g \in inflight' : Handling(g) \subseteq Handling(g)'
      <4>1. ASSUME NEW g \in inflight', NEW m \in Handling(g) PROVE m \in Handling(g)'
        <5>1. g # fd /\ m \in ToSet(aio_handlers) /\ fd_of[m] = g /\ ~gone[m]
          BY <2>2, <4>1 DEF Handling
        <5>2. m # n /\ m \in ToSet(aio_handlers')
          BY <2>3, <3>2, <5>1
        <5>3. m \in Nodes
          BY <1>0, <5>1 DEF NodeInv, ToSet
        <5>4. fd_of'[m] = g /\ ~gone'[m]
          BY <1>0, <3>1, <5>1, <5>2, <5>3 DEF NodeInv
        <5>5. QED BY <5>2, <5>4 DEF Handling
      <4>2. QED BY <4>1
    <3>4. NodeInv'
      BY <1>0, <1>1, <2>2, <2>3, <3>1, <3>2, <3>3 DEF NodeInv
    <3>5. WalkInv'
      BY <1>0, <1>1, <1>3, <2>5 DEF WalkInv
    <3>6. QED BY <1>3, <3>4, <3>5 DEF LoopInv
  <2>6. QED BY <2>4, <2>5
<1>6. CASE Submit(fd)
  <2>1. NodeInv'
    BY <1>0, <1>1, <1>6 DEF NodeInv, Submit, Handling
  <2>2. WalkInv'
    BY <1>0, <1>1, <1>3, <1>6 DEF WalkInv, Submit
  <2>3. QED BY <1>3, <2>1, <2>2 DEF LoopInv
<1>7. QED BY <1>2, <1>4, <1>5, <1>6

LEMMA AnswerInv ==
  ASSUME LoopInv, Answer
  PROVE  LoopInv'
<1>0. BhInv /\ NodeInv /\ StackInv /\ WalkInv /\ ProgressInv
  BY DEF LoopInv
<1>1. UNCHANGED <<bhs, nodes, inflight, stack>>
  BY DEF Answer
<1>2. BhInv' /\ StackInv' /\ ProgressInv' /\ Top' = Top
  BY <1>0, <1>1, SameBhs
<1>3. NodeInv' /\ WalkInv'
  BY <1>0, <1>1, <1>2 DEF Answer, nodes, NodeInv, Handling, WalkInv
<1>4. QED BY <1>2, <1>3 DEF LoopInv

(* A poll begins at the first bottom half: all that are scheduled are ahead. *)
LEMMA CallsInv ==
  ASSUME LoopInv, Calls
  PROVE  LoopInv'
<1> USE DEF nodes, io
<1>0. BhInv /\ NodeInv /\ StackInv /\ WalkInv /\ ProgressInv
  BY DEF LoopInv
<1> DEFINE f == Frame("poll", "walk", First(first_bh))
           w == Frame("wait", "poll", None)
<1>1. /\ UNCHANGED <<first_bh, scheduled, idle, deleted, nodes, io>>
      /\ nesting' = nesting + 1
  BY DEF Calls, MainPoll, AioWait, PushPoll
<1>2. /\ First(first_bh) \in BHs \cup {None}
      /\ First(first_bh) # None => First(first_bh) \in ToSet(first_bh)
  <2>1. CASE first_bh = <<>>
    BY <2>1 DEF First
  <2>2. CASE first_bh # <<>>
    <3>1. 1 \in DOMAIN first_bh /\ first_bh[1] \in BHs
      BY <1>0, <2>2 DEF BhInv
    <3>2. QED BY <2>2, <3>1 DEF First, ToSet
  <2>3. QED BY <2>1, <2>2
<1>3. /\ f \in PollFrames /\ f \in AnyFrame /\ f.fn = "poll" /\ f.place = "walk"
      /\ f.at = First(first_bh) /\ w \in WaitFrames /\ w.place = "poll"
  BY <1>2 DEF Frame, PollFrames, WaitFrames, AnyFrame
<1>4. BhInv' /\ NodeInv'
  BY <1>0, <1>1 DEF BhInv, NodeInv, Allocated, Handling
<1>5. PollsIn(stack, ToSet(first_bh)) /\ ToSet(first_bh)' = ToSet(first_bh)
  BY <1>0, <1>1 DEF StackInv
<1>6. StackInv' /\ Top' = f
  <2>1. CASE MainPoll
    <3>1. stack = <<>> /\ stack' = Append(stack, f)
      BY <2>1 DEF MainPoll, PushPoll
    <3>2. /\ Nested(stack') /\ Len(stack') = Len(stack) + 1
          /\ stack' # <<>> /\ Last(stack') = f
          /\ Cardinality(PollsOf(stack')) = Cardinality(PollsOf(stack)) + 1
          /\ PollsIn(stack', ToSet(first_bh))
      BY <1>0, <1>2, <1>3, <1>5, <3>1, Call DEF StackInv
    <3>3. Len(stack') <= MaxDepth
      BY <3>1, <3>2, LoopAssumption
    <3>4. QED BY <1>0, <1>1, <1>5, <3>2, <3>3 DEF StackInv, Top
  <2>2. CASE AioWait
    <3>1. /\ UserCode /\ Top.fn # "wait" /\ Len(stack) + 1 < MaxDepth
          /\ stack' = Append(Append(stack, w), f)
      BY <2>2 DEF AioWait, PushPoll
    <3>2. stack # <<>> => Last(stack).fn = "poll" /\ Last(stack).place = "callback"
      BY <1>0, <3>1, UserCodeAt
    <3>3. /\ Nested(stack') /\ Len(stack') = Len(stack) + 2
          /\ stack' # <<>> /\ Last(stack') = f
          /\ Cardinality(PollsOf(stack')) = Cardinality(PollsOf(stack)) + 1
          /\ PollsIn(stack', ToSet(first_bh))
      BY <1>0, <1>2, <1>3, <1>5, <3>1, <3>2, CallWait DEF StackInv
    <3>4. Len(stack) \in Nat
      BY <1>0 DEF StackInv, Nested
    <3>5. Len(stack') <= MaxDepth
      BY <3>1, <3>3, <3>4, LoopAssumption
    <3>6. QED BY <1>0, <1>1, <1>5, <3>3, <3>5 DEF StackInv, Top
  <2>3. QED BY <2>1, <2>2 DEF Calls
<1>7. WalkInv'
  BY <1>3, <1>6 DEF WalkInv
<1>8. ASSUME NEW b \in BHs, scheduled[b]
      PROVE  Ahead(b)'
  <2>1. b \in ToSet(first_bh)
    BY <1>0, <1>8 DEF BhInv, Allocated
  <2>2. PICK j \in DOMAIN first_bh : first_bh[j] = b
    BY <2>1 DEF ToSet
  <2>3. /\ 1 \in 1..Len(first_bh) /\ 1 <= j /\ j \in 1..Len(first_bh)
        /\ first_bh # <<>>
    BY <1>0, <2>2 DEF BhInv
  <2>4. first_bh[1] = Top.at'
    BY <1>3, <1>6, <2>3 DEF First
  <2>5. QED BY <1>1, <2>2, <2>3, <2>4 DEF Ahead
<1>9. ProgressInv'
  BY <1>1, <1>3, <1>6, <1>8 DEF ProgressInv, AtPlace
<1>10. QED BY <1>4, <1>6, <1>7, <1>9 DEF LoopInv

LEMMA SameNodes ==
  ASSUME NodeInv, UNCHANGED <<nodes, io>>
  PROVE  NodeInv'
BY DEF NodeInv, Handling, nodes, io

(* The innermost call goes on or returns: what it stands at next.          *)
LEMMA TopOf ==
  ASSUME StackInv, Top.fn \in {"poll", "wait"}
  PROVE  /\ stack # <<>> /\ Top = Last(stack) /\ Top \in AnyFrame
         /\ Top.fn = "poll" => Top \in PollFrames
         /\ Top.fn = "wait" => Top \in WaitFrames
<1>1. stack # <<>>
  BY DEF Top, Idle, Frame
<1>2. stack \in Seq(AnyFrame) /\ Top = Last(stack)
  BY <1>1 DEF StackInv, Nested, AnyFrame, Top
<1>3. Top \in AnyFrame
  BY <1>1, <1>2, FrontOf
<1>4. QED BY <1>1, <1>2, <1>3 DEF AnyFrame, PollFrames, WaitFrames

LEMMA GoesOn ==
  ASSUME StackInv, Top.fn \in {"poll", "wait"}, NEW f \in AnyFrame, f.fn = Top.fn,
         f.fn = "wait" => f.place # "poll",
         f.fn = "poll" /\ f.place = "callback" => f.ret \/ f.idled,
         f.fn = "poll" /\ f.at # None => f.at \in ToSet(first_bh),
         stack' = Append(Front(stack), f), UNCHANGED <<nesting, first_bh>>
  PROVE  StackInv' /\ Top' = f
<1>1. stack # <<>> /\ f.fn = Last(stack).fn
  BY TopOf
<1>2. Nested(stack) /\ PollsIn(stack, ToSet(first_bh))
  BY DEF StackInv
<1>3. /\ Nested(stack') /\ Len(stack') = Len(stack)
      /\ stack' # <<>> /\ Last(stack') = f
      /\ Cardinality(PollsOf(stack')) = Cardinality(PollsOf(stack))
      /\ PollsIn(stack', ToSet(first_bh))
  BY <1>1, <1>2, GoOn
<1>4. QED BY <1>3 DEF StackInv, Top

(* The bottom half after the one a poll stands at.                         *)
LEMMA NextBh ==
  ASSUME BhInv, NEW b \in ToSet(first_bh)
  PROVE  /\ After(first_bh, b) \in BHs \cup {None}
         /\ After(first_bh, b) # None => After(first_bh, b) \in ToSet(first_bh)
         /\ \A i, j \in 1..Len(first_bh) : i <= j /\ first_bh[i] = b /\ i # j =>
               i + 1 \in 1..Len(first_bh) /\ i + 1 <= j /\ first_bh[i + 1] = After(first_bh, b)
<1>1. first_bh \in Seq(BHs) /\ IsInjective(first_bh) /\ Len(first_bh) \in Nat
  BY DEF BhInv
<1>2. PICK k \in 1..Len(first_bh) : b = first_bh[k]
  BY <1>1 DEF ToSet
<1>3. After(first_bh, b) = IF k < Len(first_bh) THEN first_bh[k + 1] ELSE None
  BY <1>1, <1>2, AfterFinds
<1>4. k < Len(first_bh) => k + 1 \in DOMAIN first_bh /\ first_bh[k + 1] \in BHs
  BY <1>1
<1>5. /\ After(first_bh, b) \in BHs \cup {None}
      /\ After(first_bh, b) # None => After(first_bh, b) \in ToSet(first_bh)
  BY <1>3, <1>4 DEF ToSet
<1>6. ASSUME NEW i \in 1..Len(first_bh), NEW j \in 1..Len(first_bh), i <= j,
             first_bh[i] = b, i # j
      PROVE  i + 1 \in 1..Len(first_bh) /\ i + 1 <= j /\ first_bh[i + 1] = After(first_bh, b)
  <2>1. i = k
    BY <1>1, <1>2, <1>6 DEF IsInjective
  <2>2. k < Len(first_bh) /\ k + 1 \in 1..Len(first_bh) /\ k + 1 <= j
    BY <1>1, <1>6, <2>1
  <2>3. QED BY <1>3, <2>1, <2>2
<1>7. QED BY <1>5, <1>6

LEMMA PollStepInv ==
  ASSUME LoopInv, PollStep
  PROVE  LoopInv'
<1>0. BhInv /\ NodeInv /\ StackInv /\ WalkInv /\ ProgressInv
  BY DEF LoopInv
<1> DEFINE b == Top.at
           next == After(first_bh, b)
<1>1. /\ AtPlace("poll", "walk") /\ b # None
      /\ UNCHANGED <<first_bh, deleted, nesting, nodes, io>>
  BY DEF PollStep
<1>2. /\ Top.fn = "poll" /\ Top.place = "walk" /\ Top \in PollFrames
  BY <1>0, <1>1, TopOf DEF AtPlace
<1>3. b \in ToSet(first_bh) /\ b \in BHs
  <2>1. stack \in Seq(AnyFrame) /\ stack # <<>> /\ Top = Last(stack)
    BY <1>0, <1>2, TopOf DEF StackInv, Nested, AnyFrame
  <2>2. Len(stack) \in 1..Len(stack) /\ Top = stack[Len(stack)]
    BY <2>1, FrontOf
  <2>3. Len(stack) \in PollsOf(stack)
    BY <1>2, <2>2 DEF PollsOf
  <2>4. b \in ToSet(first_bh)
    BY <1>0, <1>1, <2>2, <2>3 DEF StackInv, PollsIn
  <2>5. QED BY <1>0, <2>4 DEF BhInv, ToSet
<1>4. /\ next \in BHs \cup {None}
      /\ next # None => next \in ToSet(first_bh)
      /\ \A i, j \in 1..Len(first_bh) : i <= j /\ first_bh[i] = b /\ i # j =>
            i + 1 \in 1..Len(first_bh) /\ i + 1 <= j /\ first_bh[i + 1] = next
  BY <1>0, <1>3, NextBh
<1> HIDE DEF next
<1>5. NodeInv'
  BY <1>0, <1>1, SameNodes
<1>6. CASE /\ ~deleted[b] /\ scheduled[b]
           /\ scheduled' = [scheduled EXCEPT ![b] = FALSE]
           /\ idle' = [idle EXCEPT ![b] = FALSE]
           /\ SetTop([Top EXCEPT !.place = "callback", !.at = next,
                                 !.ret = @ \/ ~idle[b],
                                 !.idled = @ \/ idle[b]])
  <2> DEFINE f == [Top EXCEPT !.place = "callback", !.at = next,
                              !.ret = @ \/ ~idle[b], !.idled = @ \/ idle[b]]
  <2>1. /\ f \in PollFrames /\ f \in AnyFrame /\ f.fn = "poll" /\ f.place = "callback"
        /\ f.at = next
        /\ f.ret = (Top.ret \/ ~idle[b]) /\ f.idled = (Top.idled \/ idle[b])
    BY <1>0, <1>2, <1>3, <1>4 DEF PollFrames, AnyFrame, BhInv
  <2>2. f.ret \/ f.idled
    BY <2>1
  <2>3. stack' = Append(Front(stack), f)
    BY <1>6 DEF SetTop
  <2> HIDE DEF f
  <2>4. StackInv' /\ Top' = f
    BY <1>0, <1>1, <1>2, <1>4, <2>1, <2>2, <2>3, GoesOn
  <2>5. BhInv'
    BY <1>0, <1>1, <1>3, <1>6 DEF BhInv, Allocated
  <2>6. WalkInv' /\ ProgressInv'
    BY <2>1, <2>4 DEF WalkInv, ProgressInv, AtPlace
  <2>7. QED BY <1>5, <2>4, <2>5, <2>6 DEF LoopInv
<1>7. CASE /\ deleted[b] \/ ~scheduled[b]
           /\ SetTop([Top EXCEPT !.at = next]) /\ UNCHANGED <<scheduled, idle>>
  <2> DEFINE f == [Top EXCEPT !.at = next]
  <2>1. /\ f \in PollFrames /\ f \in AnyFrame /\ f.fn = "poll" /\ f.place = "walk"
        /\ f.at = next /\ f.ret = Top.ret /\ f.idled = Top.idled
    BY <1>2, <1>4 DEF PollFrames, AnyFrame
  <2>2. stack' = Append(Front(stack), f)
    BY <1>7 DEF SetTop
  <2> HIDE DEF f
  <2>3. StackInv' /\ Top' = f
    BY <1>0, <1>1, <1>2, <1>4, <2>1, <2>2, GoesOn
  <2>4. BhInv'
    BY <1>0, <1>1, <1>7 DEF BhInv, Allocated
  <2>5. WalkInv'
    BY <2>1, <2>3 DEF WalkInv
  <2>6. ASSUME NEW c \in BHs, scheduled[c], ~idle[c], ~Top.ret, ~Top.idled
        PROVE  Ahead(c)'
    <3>1. PICK i, j \in 1..Len(first_bh) :
            i <= j /\ first_bh[i] = b /\ first_bh[j] = c
      BY <1>0, <1>1, <2>6 DEF ProgressInv, Ahead
    <3>2. c # b
      BY <1>0, <1>7, <2>6 DEF BhInv, Allocated
    <3>3. i + 1 \in 1..Len(first_bh) /\ i + 1 <= j /\ first_bh[i + 1] = next
      BY <1>4, <3>1, <3>2
    <3>4. QED BY <1>1, <2>1, <2>3, <3>1, <3>3 DEF Ahead
  <2>7. ProgressInv'
    BY <1>7, <2>1, <2>3, <2>6 DEF ProgressInv, AtPlace
  <2>8. QED BY <1>5, <2>3, <2>4, <2>5, <2>7 DEF LoopInv
<1>8. QED BY <1>6, <1>7 DEF PollStep, next

LEMMA BhReturnsInv ==
  ASSUME LoopInv, BhReturns
  PROVE  LoopInv'
<1>0. BhInv /\ NodeInv /\ StackInv /\ WalkInv /\ ProgressInv
  BY DEF LoopInv
<1> DEFINE f == [Top EXCEPT !.place = "walk"]
<1>1. /\ Top.fn = "poll" /\ Top.place = "callback" /\ stack' = Append(Front(stack), f)
      /\ UNCHANGED <<bhs, nodes, io>>
  BY DEF BhReturns, AtPlace, SetTop
<1>2. Top \in PollFrames /\ stack # <<>> /\ Top = Last(stack)
  BY <1>0, <1>1, TopOf
<1>3. /\ f \in AnyFrame /\ f.fn = "poll" /\ f.place = "walk" /\ f.at = Top.at
      /\ f.ret = Top.ret /\ f.idled = Top.idled
  BY <1>1, <1>2 DEF PollFrames, AnyFrame
<1> HIDE DEF f
<1>4. /\ Top.ret \/ Top.idled
      /\ Top.at # None => Top.at \in ToSet(first_bh)
  <2>1. stack \in Seq(AnyFrame)
    BY <1>0 DEF StackInv, Nested, AnyFrame
  <2>2. Len(stack) \in 1..Len(stack) /\ Top = stack[Len(stack)]
    BY <1>2, <2>1, FrontOf
  <2>3. Len(stack) \in PollsOf(stack)
    BY <1>1, <2>2 DEF PollsOf
  <2>4. QED BY <1>0, <1>1, <2>2, <2>3 DEF StackInv, Nested, PollsIn
<1>5. StackInv' /\ Top' = f
  BY <1>0, <1>1, <1>3, <1>4, GoesOn DEF bhs
<1>6. BhInv' /\ NodeInv'
  BY <1>0, <1>1, SameNodes DEF BhInv, Allocated, bhs
<1>7. WalkInv' /\ ProgressInv'
  BY <1>3, <1>4, <1>5 DEF WalkInv, ProgressInv, AtPlace
<1>8. QED BY <1>5, <1>6, <1>7 DEF LoopInv

(* The last poll to return frees the bottom halves that were deleted.      *)
LEMMA PollReturnsInv ==
  ASSUME LoopInv, PollReturns
  PROVE  LoopInv'
<1>0. BhInv /\ NodeInv /\ StackInv /\ WalkInv /\ ProgressInv
  BY DEF LoopInv
<1>1. /\ Top.fn = "poll" /\ Top.place = "walk" /\ Top.at = None
      /\ nesting' = nesting - 1
      /\ first_bh' = Live(first_bh, FreeDeleted)
      /\ stack' = IF ~PolledForWait THEN Caller
                  ELSE IF Top.ret THEN Front(Caller)
                  ELSE Append(Front(Caller), WaitGoesOn)
      /\ UNCHANGED <<scheduled, idle, deleted, nodes, io>>
  BY DEF PollReturns, AtPlace
<1>2. /\ Top \in PollFrames /\ stack # <<>> /\ Top = Last(stack)
      /\ Nested(stack) /\ Last(stack).fn = "poll"
      /\ PollsIn(stack, ToSet(first_bh)) /\ Len(stack) <= MaxDepth /\ Len(stack) \in Nat
      /\ nesting = Cardinality(PollsOf(stack))
  BY <1>0, <1>1, TopOf DEF StackInv, Nested
<1>3. /\ first_bh' \in Seq(BHs) /\ IsInjective(first_bh')
      /\ ToSet(first_bh') = ToSet(first_bh) \ FreeDeleted
  BY <1>0, <1>1, LiveKeeps DEF BhInv
<1>4. BhInv' /\ NodeInv'
  BY <1>0, <1>1, <1>3, SameNodes DEF BhInv, Allocated, FreeDeleted
<1>5. ASSUME Nested(stack'), Len(stack') <= Len(stack), Len(stack') \in Nat,
             Cardinality(PollsOf(stack')) = Cardinality(PollsOf(stack)) - 1,
             PollsIn(stack', ToSet(first_bh))
      PROVE  StackInv'
  <2>1. PollsIn(stack', ToSet(first_bh'))
    <3>1. CASE nesting = 1
      <4>1. Cardinality(PollsOf(stack')) = 0
        BY <1>2, <1>5, <3>1
      <4>2. PollsOf(stack') = {}
        BY <1>5, <4>1, PollsFinite, FS_EmptySet
      <4>3. QED BY <4>2 DEF PollsIn
    <3>2. CASE nesting # 1
      <4>1. ToSet(first_bh') = ToSet(first_bh)
        BY <1>3, <3>2 DEF FreeDeleted
      <4>2. QED BY <1>5, <4>1
    <3>3. QED BY <3>1, <3>2
  <2>2. Len(stack') <= MaxDepth
    BY <1>2, <1>5, LoopAssumption
  <2>3. QED BY <1>1, <1>2, <1>5, <2>1, <2>2 DEF StackInv
<1>6. CASE ~PolledForWait
  <2>1. stack' = Front(stack)
    BY <1>1, <1>6 DEF Caller
  <2>2. ASSUME Front(stack) # <<>> PROVE Last(Front(stack)).fn = "poll"
    BY <1>2, <1>6, <2>2, CallerPlace DEF PolledForWait, Caller
  <2>3. /\ Nested(stack') /\ Len(stack') = Len(stack) - 1
        /\ Cardinality(PollsOf(stack')) = Cardinality(PollsOf(stack)) - 1
        /\ PollsIn(stack', ToSet(first_bh))
        /\ stack' # <<>> => Last(stack').place = "callback"
    BY <1>2, <2>1, <2>2, Returns
  <2>4. stack' # <<>> => Last(stack').fn = "poll"
    BY <2>1, <2>2
  <2>5. Top'.place \in {"idle", "callback"} /\ Top'.fn # "wait"
    BY <2>3, <2>4 DEF Top, Idle, Frame
  <2>6. WalkInv' /\ ProgressInv'
    BY <2>5 DEF WalkInv, ProgressInv, AtPlace
  <2>7. Len(stack') \in Nat /\ Len(stack') <= Len(stack)
    BY <1>2, <2>3 DEF Nested
  <2>8. QED BY <1>4, <1>5, <2>3, <2>6, <2>7 DEF LoopInv
<1>7. CASE PolledForWait
  <2> DEFINE c == Front(Front(stack))
             r == Append(c, WaitGoesOn)
  <2>1. /\ Front(stack) # <<>> /\ Last(Front(stack)).fn = "wait"
        /\ stack' = IF Top.ret THEN c ELSE r
    BY <1>1, <1>7 DEF PolledForWait, Caller
  <2>2. /\ WaitGoesOn \in WaitFrames /\ WaitGoesOn.place = "fill"
        /\ WaitGoesOn.fn = "wait" /\ WaitGoesOn.idled = Top.idled
    BY <1>2 DEF WaitGoesOn, Frame, WaitFrames, PollFrames
  <2>3. /\ Nested(c) /\ Nested(r)
        /\ Len(c) = Len(stack) - 2 /\ Len(r) = Len(stack) - 1
        /\ r # <<>> /\ Last(r) = WaitGoesOn
        /\ Cardinality(PollsOf(c)) = Cardinality(PollsOf(stack)) - 1
        /\ Cardinality(PollsOf(r)) = Cardinality(PollsOf(stack)) - 1
        /\ PollsIn(c, ToSet(first_bh)) /\ PollsIn(r, ToSet(first_bh))
        /\ c # <<>> => Last(c).fn = "poll" /\ Last(c).place = "callback"
    BY <1>2, <2>1, <2>2, ReturnsToWait
  <2> HIDE DEF c, r
  <2>4. StackInv'
    <3>1. Len(c) \in Nat /\ Len(r) \in Nat /\ Len(c) <= Len(stack) /\ Len(r) <= Len(stack)
      BY <1>2, <2>3 DEF Nested
    <3>2. QED BY <1>5, <2>1, <2>3, <3>1
  <2>5. CASE Top.ret
    <3>1. Top'.place \in {"idle", "callback"} /\ Top'.fn # "wait"
      BY <2>1, <2>3, <2>5 DEF Top, Idle, Frame
    <3>2. WalkInv' /\ ProgressInv'
      BY <3>1 DEF WalkInv, ProgressInv, AtPlace
    <3>3. QED BY <1>4, <2>4, <3>2 DEF LoopInv
  <2>6. CASE ~Top.ret
    <3>1. Top' = WaitGoesOn
      BY <2>1, <2>3, <2>6 DEF Top
    <3>2. ASSUME NEW b \in BHs, scheduled[b], ~idle[b] PROVE Top.idled
      <4>1. ~Ahead(b)
        BY <1>0, <1>1, LoopAssumption DEF Ahead, BhInv
      <4>2. QED BY <1>0, <1>1, <2>6, <3>2, <4>1 DEF ProgressInv, AtPlace
    <3>3. WalkInv' /\ ProgressInv'
      BY <1>1, <2>2, <3>1, <3>2 DEF WalkInv, ProgressInv, AtPlace
    <3>4. QED BY <1>4, <2>4, <3>3 DEF LoopInv
  <2>7. QED BY <2>5, <2>6
<1>8. QED BY <1>6, <1>7

-----------------------------------------------------------------------------
(* The wait.                                                               *)

LEMMA SameBhInv == BhInv /\ UNCHANGED bhs => BhInv'
BY DEF BhInv, Allocated, bhs

LEMMA WaitEnds ==
  ASSUME StackInv, Top.fn = "wait", stack' = Front(stack), UNCHANGED bhs
  PROVE  StackInv' /\ WalkInv' /\ ProgressInv'
<1>1. stack # <<>> /\ Nested(stack) /\ Last(stack).fn = "wait"
  BY TopOf DEF StackInv
<1>2. ASSUME Front(stack) # <<>> PROVE Last(Front(stack)).fn = "poll"
  BY <1>1, <1>2, BelowWait
<1>3. /\ Nested(stack') /\ Len(stack) \in Nat /\ Len(stack') = Len(stack) - 1
      /\ Cardinality(PollsOf(stack')) = Cardinality(PollsOf(stack))
      /\ \A B : PollsIn(stack, B) => PollsIn(stack', B)
      /\ stack' # <<>> => Last(stack').place = "callback"
  BY <1>1, <1>2, Returns
<1>4. StackInv'
  BY <1>3, LoopAssumption DEF StackInv, bhs
<1>5. Top'.place \in {"idle", "callback"} /\ Top'.fn # "wait"
  BY <1>2, <1>3 DEF Top, Idle, Frame
<1>6. QED BY <1>4, <1>5 DEF WalkInv, ProgressInv, AtPlace

LEMMA WaitFillInv ==
  ASSUME LoopInv, WaitFill
  PROVE  LoopInv'
<1>0. BhInv /\ NodeInv /\ StackInv /\ WalkInv /\ ProgressInv
  BY DEF LoopInv
<1>1. /\ Top.fn = "wait" /\ walking_handlers' = FALSE
      /\ UNCHANGED <<bhs, aio_handlers, fd_of, gone, io>>
  BY DEF WaitFill, AtPlace
<1>2. BhInv' /\ NodeInv'
  BY <1>0, <1>1, SameBhInv DEF NodeInv, Handling, io
<1>3. CASE Busy = {}
  <2>1. stack' = Front(stack)
    BY <1>3 DEF WaitFill
  <2>2. QED BY <1>0, <1>1, <1>2, <2>1, WaitEnds DEF LoopInv
<1>4. CASE Busy # {}
  <2> DEFINE f == [Top EXCEPT !.place = "select", !.rdfds = Watched]
  <2>1. stack' = Append(Front(stack), f)
    BY <1>4 DEF WaitFill
  <2>2. Top \in WaitFrames
    BY <1>0, <1>1, TopOf
  <2>3. Watched \subseteq Fds
    BY <1>0 DEF Watched, Busy, NodeInv
  <2>4. f \in AnyFrame /\ f.fn = "wait" /\ f.place = "select"
    BY <2>2, <2>3 DEF WaitFrames, AnyFrame
  <2> HIDE DEF f
  <2>5. StackInv' /\ Top' = f
    BY <1>0, <1>1, <2>1, <2>4, GoesOn DEF bhs
  <2>6. WalkInv' /\ ProgressInv'
    BY <2>4, <2>5 DEF WalkInv, ProgressInv, AtPlace
  <2>7. QED BY <1>2, <2>5, <2>6 DEF LoopInv
<1>5. QED BY <1>3, <1>4

LEMMA WaitSelectInv ==
  ASSUME LoopInv, WaitSelect
  PROVE  LoopInv'
<1>0. BhInv /\ NodeInv /\ StackInv /\ WalkInv /\ ProgressInv
  BY DEF LoopInv
<1> DEFINE f == [Top EXCEPT !.place = "walk", !.at = First(aio_handlers),
                            !.rdfds = @ \cap readable]
<1>1. /\ Top.fn = "wait" /\ walking_handlers' = TRUE
      /\ stack' = Append(Front(stack), f)
      /\ UNCHANGED <<bhs, aio_handlers, fd_of, gone, io>>
  BY DEF WaitSelect, AtPlace, SetTop
<1>2. BhInv' /\ NodeInv'
  BY <1>0, <1>1, SameBhInv DEF NodeInv, Handling, io
<1>3. /\ First(aio_handlers) \in Nodes \cup {None}
      /\ First(aio_handlers) # None => First(aio_handlers) \in ToSet(aio_handlers)
  <2>1. CASE aio_handlers = <<>>
    BY <2>1 DEF First
  <2>2. CASE aio_handlers # <<>>
    <3>1. 1 \in DOMAIN aio_handlers /\ aio_handlers[1] \in Nodes
      BY <1>0, <2>2 DEF NodeInv
    <3>2. QED BY <2>2, <3>1 DEF First, ToSet
  <2>3. QED BY <2>1, <2>2
<1>4. Top \in WaitFrames
  BY <1>0, <1>1, TopOf
<1>5. f \in AnyFrame /\ f.fn = "wait" /\ f.place = "walk" /\ f.at = First(aio_handlers)
  BY <1>3, <1>4 DEF WaitFrames, AnyFrame
<1> HIDE DEF f
<1>6. StackInv' /\ Top' = f
  BY <1>0, <1>1, <1>5, GoesOn DEF bhs
<1>7. WalkInv' /\ ProgressInv'
  BY <1>1, <1>3, <1>5, <1>6 DEF WalkInv, ProgressInv, AtPlace
<1>8. QED BY <1>2, <1>6, <1>7 DEF LoopInv

LEMMA WaitReadInv ==
  ASSUME LoopInv, WaitRead
  PROVE  LoopInv'
<1>0. BhInv /\ NodeInv /\ StackInv /\ WalkInv /\ ProgressInv
  BY DEF LoopInv
<1> DEFINE f == [Top EXCEPT !.place = "callback"]
<1>1. /\ Top.fn = "wait" /\ Top.place = "walk"
      /\ inflight' = inflight \ {fd_of[Top.at]} /\ readable' = readable \ {fd_of[Top.at]}
      /\ stack' = Append(Front(stack), f)
      /\ UNCHANGED <<bhs, nodes>>
  BY DEF WaitRead, AtPlace, SetTop
<1>2. BhInv' /\ NodeInv'
  BY <1>0, <1>1, SameBhInv DEF NodeInv, Handling, nodes
<1>3. Top \in WaitFrames
  BY <1>0, <1>1, TopOf
<1>4. f \in AnyFrame /\ f.fn = "wait" /\ f.place = "callback" /\ f.at = Top.at
  BY <1>3 DEF WaitFrames, AnyFrame
<1> HIDE DEF f
<1>5. StackInv' /\ Top' = f
  BY <1>0, <1>1, <1>4, GoesOn DEF bhs
<1>6. WalkInv' /\ ProgressInv'
  BY <1>0, <1>1, <1>4, <1>5 DEF WalkInv, ProgressInv, AtPlace, nodes
<1>7. QED BY <1>2, <1>5, <1>6 DEF LoopInv

(* The walk reads the next handler before it frees the one it leaves.      *)
LEMMA WaitAdvanceInv ==
  ASSUME LoopInv, WaitAdvance
  PROVE  LoopInv'
<1>0. BhInv /\ NodeInv /\ StackInv /\ WalkInv /\ ProgressInv
  BY DEF LoopInv
<1> DEFINE n == Top.at
           next == After(aio_handlers, n)
           f == [Top EXCEPT !.place = "walk", !.at = next]
<1>1. /\ Top.fn = "wait" /\ Top.place \in {"walk", "callback"}
      /\ n \in ToSet(aio_handlers)
      /\ stack' = Append(Front(stack), f)
      /\ IF gone[n] THEN FreeNode(n) ELSE UNCHANGED <<aio_handlers, fd_of>>
      /\ gone' = [gone EXCEPT ![n] = FALSE]
      /\ UNCHANGED <<bhs, walking_handlers, io>>
  BY DEF WaitAdvance, AtPlace, SetTop
<1>2. /\ aio_handlers \in Seq(Nodes) /\ IsInjective(aio_handlers)
      /\ Len(aio_handlers) \in Nat
  BY <1>0 DEF NodeInv
<1>3. /\ next \in Nodes \cup {None}
      /\ next # None => next \in ToSet(aio_handlers) \ {n}
      /\ n \in Nodes
  <2>1. PICK k \in 1..Len(aio_handlers) : n = aio_handlers[k]
    BY <1>1, <1>2 DEF ToSet
  <2>2. next = IF k < Len(aio_handlers) THEN aio_handlers[k + 1] ELSE None
    BY <1>2, <2>1, AfterFinds
  <2>3. k < Len(aio_handlers) => /\ k + 1 \in DOMAIN aio_handlers
                                 /\ aio_handlers[k + 1] \in Nodes
                                 /\ aio_handlers[k + 1] # n
    BY <1>2, <2>1 DEF IsInjective
  <2>4. QED BY <1>2, <2>1, <2>2, <2>3 DEF ToSet
<1> HIDE DEF next
<1>4. Top \in WaitFrames
  BY <1>0, <1>1, TopOf
<1>5. f \in AnyFrame /\ f.fn = "wait" /\ f.place = "walk" /\ f.at = next
  BY <1>3, <1>4 DEF WaitFrames, AnyFrame
<1> HIDE DEF f
<1>6. StackInv' /\ Top' = f
  BY <1>0, <1>1, <1>5, GoesOn DEF bhs
<1>7. BhInv' /\ ProgressInv'
  BY <1>0, <1>1, <1>5, <1>6, SameBhInv DEF ProgressInv, AtPlace
<1>8. walking_handlers
  BY <1>0, <1>1 DEF WalkInv
<1>9. CASE gone[n]
  <2>1. /\ aio_handlers' = Live(aio_handlers, {n})
        /\ fd_of' = [fd_of EXCEPT ![n] = None]
    BY <1>1, <1>9 DEF FreeNode
  <2>2. /\ aio_handlers' \in Seq(Nodes) /\ IsInjective(aio_handlers')
        /\ ToSet(aio_handlers') = ToSet(aio_handlers) \ {n}
    BY <1>2, <2>1, LiveKeeps
  <2>3. ASSUME NEW g \in Fds, NEW m \in Handling(g) PROVE m \in Handling(g)'
    <3>1. m \in ToSet(aio_handlers) /\ fd_of[m] = g /\ ~gone[m] /\ m # n
      BY <1>9, <2>3 DEF Handling
    <3>2. m \in Nodes
      BY <1>2, <3>1 DEF ToSet
    <3>3. fd_of'[m] = g /\ ~gone'[m] /\ m \in ToSet(aio_handlers')
      BY <1>0, <1>1, <2>1, <2>2, <3>1, <3>2 DEF NodeInv
    <3>4. QED BY <3>3 DEF Handling
  <2>4. \A g \in inflight' : Handling(g)' # {}
    BY <1>0, <1>1, <2>3 DEF NodeInv, io
  <2>5. NodeInv'
    BY <1>0, <1>1, <2>1, <2>2, <2>4 DEF NodeInv, io
  <2>6. WalkInv'
    BY <1>1, <1>3, <1>5, <1>6, <1>8, <2>2 DEF WalkInv
  <2>7. QED BY <1>6, <1>7, <2>5, <2>6 DEF LoopInv
<1>10. CASE ~gone[n]
  <2>1. UNCHANGED <<aio_handlers, fd_of>>
    BY <1>1, <1>10
  <2>2. gone' = gone
    BY <1>0, <1>1, <1>3, <1>10 DEF NodeInv
  <2>3. NodeInv'
    BY <1>0, <1>1, <2>1, <2>2, SameNodes DEF nodes
  <2>4. WalkInv'
    BY <1>1, <1>3, <1>5, <1>6, <1>8, <2>1 DEF WalkInv
  <2>5. QED BY <1>6, <1>7, <2>3, <2>4 DEF LoopInv
<1>11. QED BY <1>9, <1>10

LEMMA WaitReturnsInv ==
  ASSUME LoopInv, WaitReturns
  PROVE  LoopInv'
<1>0. BhInv /\ NodeInv /\ StackInv /\ WalkInv /\ ProgressInv
  BY DEF LoopInv
<1>1. /\ Top.fn = "wait" /\ walking_handlers' = FALSE /\ stack' = Front(stack)
      /\ UNCHANGED <<bhs, aio_handlers, fd_of, gone, io>>
  BY DEF WaitReturns, AtPlace
<1>2. BhInv' /\ NodeInv'
  BY <1>0, <1>1, SameBhInv DEF NodeInv, Handling, io
<1>3. QED BY <1>0, <1>1, <1>2, WaitEnds DEF LoopInv

LEMMA WaitInterruptedInv ==
  ASSUME LoopInv, WaitInterrupted
  PROVE  LoopInv'
<1>0. BhInv /\ NodeInv /\ StackInv /\ WalkInv /\ ProgressInv
  BY DEF LoopInv
<1>1. /\ Top.fn = "wait" /\ stack' = Front(stack)
      /\ UNCHANGED <<bhs, nodes, io>>
  BY DEF WaitInterrupted, AtPlace
<1>2. BhInv' /\ NodeInv'
  BY <1>0, <1>1, SameBhInv, SameNodes
<1>3. QED BY <1>0, <1>1, <1>2, WaitEnds DEF LoopInv, nodes

LEMMA LoopInvStep == LoopInv /\ [Next]_vars => LoopInv'
<1> SUFFICES ASSUME LoopInv, [Next]_vars PROVE LoopInv'
  OBVIOUS
<1>1. CASE UNCHANGED vars
  <2>1. UNCHANGED <<bhs, stack>> /\ UNCHANGED <<nodes, io>>
    BY <1>1 DEF vars
  <2>2. QED BY <2>1, SameBhs, SameNodes DEF LoopInv, WalkInv, nodes
<1>2. CASE Next
  BY <1>2, BhOpInv, HandlerOpInv, AnswerInv, CallsInv, PollStepInv, BhReturnsInv,
     PollReturnsInv, WaitFillInv, WaitSelectInv, WaitReadInv, WaitAdvanceInv,
     WaitReturnsInv, WaitInterruptedInv
  DEF Next, LoopStep
<1>3. QED BY <1>1, <1>2

LEMMA LoopInvariant == Spec => []LoopInv
BY InitLoop, LoopInvStep, PTL DEF Spec

LEMMA LoopTypes == LoopInv => TypeOK
<1> SUFFICES ASSUME LoopInv PROVE TypeOK
  OBVIOUS
<1>1. BhInv /\ NodeInv /\ StackInv
  BY DEF LoopInv
<1>2. ToSet(first_bh) \subseteq BHs /\ ToSet(aio_handlers) \subseteq Nodes
  BY <1>1 DEF BhInv, NodeInv, ToSet
<1>3. Polls = PollsOf(stack)
  BY DEF Polls, Frames, PollsOf
<1>4. QED BY <1>1, <1>2, <1>3 DEF BhInv, NodeInv, StackInv, TypeOK

LEMMA LoopWalks == LoopInv => WalksLiveMemory
<1> SUFFICES ASSUME LoopInv PROVE WalksLiveMemory
  OBVIOUS
<1>1. \A i \in Polls : stack[i].at # None => stack[i].at \in ToSet(first_bh)
  BY DEF LoopInv, StackInv, PollsIn, PollsOf, Polls, Frames
<1>2. ASSUME NEW i \in Walks, stack[i].at # None PROVE stack[i].at \in ToSet(aio_handlers)
  <2>1. /\ i \in 1..Len(stack) /\ stack[i].fn = "wait"
        /\ stack[i].place \in {"walk", "callback"}
        /\ stack \in Seq(AnyFrame)
    BY <1>2 DEF Walks, Frames, LoopInv, StackInv, Nested, AnyFrame
  <2>2. i = Len(stack) /\ stack # <<>>
    BY <2>1 DEF LoopInv, StackInv, Nested
  <2>3. Top = stack[i]
    BY <2>2 DEF Top, Last
  <2>4. QED BY <1>2, <2>1, <2>3 DEF LoopInv, WalkInv
<1>3. QED BY <1>1, <1>2 DEF WalksLiveMemory

LEMMA LoopFlush == LoopInv => FlushComplete
<1> SUFFICES ASSUME LoopInv, AtPlace("wait", "fill"), Busy = {}
             PROVE  inflight = {} /\ (Top.idled \/ \A b \in BHs : scheduled[b] => idle[b])
  BY DEF FlushComplete
<1>1. inflight = {}
  <2>1. ASSUME NEW fd \in inflight PROVE FALSE
    <3>1. PICK n \in ToSet(aio_handlers) : fd_of[n] = fd
      BY <2>1 DEF LoopInv, NodeInv, Handling
    <3>2. QED BY <2>1, <3>1 DEF Busy
  <2>2. QED BY <2>1
<1>2. QED BY <1>1 DEF LoopInv, ProgressInv

(* Every variable keeps its type, and nesting counts the polls in progress,*)
(* however deeply callbacks poll and wait.                                 *)
THEOREM LoopTypeCorrect == Spec => []TypeOK
BY LoopInvariant, LoopTypes, PTL

(* Whatever callbacks create, delete and wait for, a poll never goes on to *)
(* a bottom half, nor a walk to a handler, that has been freed.            *)
THEOREM WalksStayLive == Spec => []WalksLiveMemory
BY LoopInvariant, LoopWalks, PTL

(* When qemu_aio_wait finds nothing busy no request is in flight, and no   *)
(* bottom half is scheduled but idle ones and what those scheduled.        *)
THEOREM FlushIsComplete == Spec => []FlushComplete
BY LoopInvariant, LoopFlush, PTL
=============================================================================
