---------------------------- MODULE Qcow2_crash -----------------------------
(***************************************************************************)
(* Proofs about Qcow2, for any number of coroutines, clusters, requests,   *)
(* crashes and failed transfers of data: what the image holds, in memory   *)
(* and after a crash.                                                      *)
(*                                                                         *)
(* The invariant relates three countings of the references to a cluster:   *)
(* those a crash may leave in the file (OnDisk), those in memory           *)
(* (InMemory), and those in either (Anywhere), to two refcounts: what the  *)
(* file may say after a crash, and what the refcount block says.  Which    *)
(* refcount covers which counting depends on which of the two caches waits *)
(* for the other.                                                          *)
(***************************************************************************)
EXTENDS Qcow2_proofs, FiniteSetTheorems, WellFoundedInduction

-----------------------------------------------------------------------------
(* What a crash leaves.                                                    *)

Possible(u) == lost[u] \cup {file[u]}

One(s) == CHOOSE u \in s : TRUE
With(u, images) == {[f EXCEPT ![u] = v] : f \in images, v \in Possible(u)}

Iter(iter, sets) ==
  iter = [s \in sets |-> IF s = {} THEN {file} ELSE With(One(s), iter[s \ {One(s)}])]

(* The sets of at most n units that a crash may change.                    *)
UpTo(n) == {s \in SUBSET Pending : Cardinality(s) <= n}

LEMMA NatLeast ==
  ASSUME NEW T, T \subseteq Nat, T # {}
  PROVE  \E x \in T : \A y \in T : x <= y
<1> DEFINE U == {1..n : n \in T}
<1>1. U \subseteq FiniteSubsetsOf(Nat) /\ U # {}
  <2>1. ASSUME NEW n \in T PROVE IsFiniteSet(1..n) /\ 1..n \subseteq Nat
    BY FS_Interval
  <2>2. QED BY <2>1 DEF FiniteSubsetsOf
<1>2. PICK s \in U : \A u \in U : <<u, s>> \notin StrictSubsetOrdering(Nat)
  BY <1>1, FS_StrictSubsetOrderingWellFounded, WFMin
<1>3. PICK x \in T : s = 1..x
  OBVIOUS
<1>4. ASSUME NEW y \in T, y < x PROVE FALSE
  <2>1. 1..y \subseteq 1..x /\ x \in 1..x /\ x \notin 1..y
    BY <1>4
  <2>2. 1..y \in U /\ 1..y \subseteq Nat /\ 1..x \subseteq Nat /\ 1..y # 1..x
    BY <2>1
  <2>3. <<1..y, 1..x>> \in StrictSubsetOrdering(Nat)
    BY <2>1, <2>2 DEF StrictSubsetOrdering
  <2>4. QED BY <1>2, <1>3, <2>2, <2>3
<1>5. QED BY <1>4

LEMMA UnitsFinite == IsFiniteSet(Units) /\ IsFiniteSet(Pending)
<1> DEFINE R == {Ref(c) : c \in Clusters}
           C(i) == {Cell(c, i) : c \in Clusters}
<1>1. IsFiniteSet(R) /\ \A i \in Half : IsFiniteSet(C(i))
  <2>1. IsFiniteSet(Clusters)
    BY QcowAssumption
  <2>2. ASSUME NEW T, NEW f, f \in [Clusters -> T], \A t \in T : \E c \in Clusters : f[c] = t
        PROVE  IsFiniteSet(T)
    <3>1. f \in Surjection(Clusters, T)
      BY <2>2 DEF Surjection
    <3>2. QED BY <2>1, <3>1, FS_Surjection
  <2>3. IsFiniteSet(R)
    <3> DEFINE f == [c \in Clusters |-> Ref(c)]
    <3>1. f \in [Clusters -> R] /\ \A t \in R : \E c \in Clusters : f[c] = t
      OBVIOUS
    <3> HIDE DEF f, R
    <3>2. QED BY <2>2, <3>1
  <2>4. ASSUME NEW i \in Half PROVE IsFiniteSet(C(i))
    <3> DEFINE D == C(i)
               f == [c \in Clusters |-> Cell(c, i)]
    <3>1. f \in [Clusters -> D] /\ \A t \in D : \E c \in Clusters : f[c] = t
      OBVIOUS
    <3> HIDE DEF f, D
    <3>2. IsFiniteSet(D)
      BY <2>2, <3>1
    <3>3. QED BY <3>2 DEF D
  <2>5. QED BY <2>3, <2>4
<1>2. IsFiniteSet({L1}) /\ IsFiniteSet(C(0)) /\ IsFiniteSet(C(1))
  BY <1>1, FS_Singleton DEF Half
<1>3. Units = ((R \cup {L1}) \cup C(0)) \cup C(1)
  BY DEF Units, Half
<1>4. IsFiniteSet(Units)
  BY <1>1, <1>2, <1>3, FS_Union
<1>5. QED BY <1>4, FS_Subset DEF Pending

LEMMA IterExtends ==
  ASSUME NEW n \in Nat, NEW g, Iter(g, UpTo(n))
  PROVE  \E h : Iter(h, UpTo(n + 1))
<1> DEFINE h == [s \in UpTo(n + 1) |->
                  IF s = {} THEN {file} ELSE With(One(s), g[s \ {One(s)}])]
<1>1. \A s \in UpTo(n) : s \in UpTo(n + 1) /\ h[s] = g[s]
  <2>1. \A s \in UpTo(n) : s \in UpTo(n + 1)
    <3> SUFFICES ASSUME NEW s \in UpTo(n) PROVE s \in UpTo(n + 1)
      OBVIOUS
    <3>1. Cardinality(s) \in Nat
      BY UnitsFinite, FS_Subset, FS_CardinalityType DEF UpTo
    <3>2. QED BY <3>1 DEF UpTo
  <2>2. QED BY <2>1 DEF Iter
<1>2. ASSUME NEW s \in UpTo(n + 1), s # {} PROVE s \ {One(s)} \in UpTo(n)
  <2>1. One(s) \in s
    BY <1>2 DEF One
  <2>2. IsFiniteSet(s)
    BY UnitsFinite, FS_Subset DEF UpTo
  <2>3. Cardinality(s \ {One(s)}) = Cardinality(s) - 1 /\ Cardinality(s) \in Nat
    BY <2>1, <2>2, FS_RemoveElement, FS_CardinalityType
  <2>4. QED BY <2>3 DEF UpTo
<1>3. \A s \in UpTo(n + 1) : s # {} => h[s \ {One(s)}] = g[s \ {One(s)}]
  BY <1>1, <1>2
<1>4. Iter(h, UpTo(n + 1))
  BY <1>3 DEF Iter
<1>5. QED BY <1>4

LEMMA IterExists == \E g : Iter(g, SUBSET Pending)
<1> DEFINE T == {n \in Nat : ~ \E g : Iter(g, UpTo(n))}
<1>1. 0 \notin T
  <2> DEFINE g == [s \in UpTo(0) |-> {file}]
  <2>1. \A s \in UpTo(0) : s = {}
    BY UnitsFinite, FS_Subset, FS_CardinalityType, FS_EmptySet DEF UpTo
  <2>2. Iter(g, UpTo(0))
    BY <2>1 DEF Iter
  <2>3. QED BY <2>2
<1>2. T = {}
  <2> SUFFICES ASSUME T # {} PROVE FALSE
    OBVIOUS
  <2>1. PICK x \in T : \A y \in T : x <= y
    BY NatLeast
  <2>2. x \in Nat /\ x # 0 /\ x - 1 \in Nat /\ x - 1 \notin T /\ (x - 1) + 1 = x
    BY <1>1, <2>1
  <2>3. \E g : Iter(g, UpTo(x - 1))
    BY <2>2
  <2>4. \E g : Iter(g, UpTo(x))
    BY <2>2, <2>3, IterExtends
  <2>5. QED BY <2>4
<1>3. Cardinality(Pending) \in Nat
  BY UnitsFinite, FS_CardinalityType
<1>4. UpTo(Cardinality(Pending)) = SUBSET Pending
  BY UnitsFinite, FS_Subset, FS_CardinalityType DEF UpTo
<1>5. Cardinality(Pending) \notin T
  BY <1>2
<1> HIDE DEF T
<1>6. \E g : Iter(g, UpTo(Cardinality(Pending)))
  BY <1>3, <1>5 DEF T
<1>7. QED BY <1>4, <1>6

ImageOk(img) == DOMAIN img = Units /\ \A u \in Units : img[u] \in Possible(u)

LEMMA WithOk ==
  ASSUME NEW u \in Units, NEW images, \A f \in images : ImageOk(f)
  PROVE  \A f \in With(u, images) : ImageOk(f)
BY DEF With, ImageOk

(* A crash leaves, in every unit, something that is possible there.        *)
LEMMA CrashImagesAre ==
  ASSUME DOMAIN file = Units
  PROVE  \A img \in CrashImages : ImageOk(img)
<1> DEFINE g == CHOOSE iter : Iter(iter, SUBSET Pending)
<1>1. CrashImages = g[Pending]
  BY DEF CrashImages, MapThenFoldSet, Iter, With, One, Possible
<1>2. Iter(g, SUBSET Pending)
  BY IterExists
<1> HIDE DEF g
<1> DEFINE T == {n \in Nat : \E s \in SUBSET Pending :
                   Cardinality(s) = n /\ \E f \in g[s] : ~ ImageOk(f)}
<1>3. T = {}
  <2> SUFFICES ASSUME T # {} PROVE FALSE
    OBVIOUS
  <2>1. PICK x \in T : \A y \in T : x <= y
    BY NatLeast
  <2>2. PICK s \in SUBSET Pending :
               Cardinality(s) = x /\ \E f \in g[s] : ~ ImageOk(f)
    BY <2>1
  <2>3. s # {}
    <3>1. ImageOk(file)
      BY DEF ImageOk, Possible
    <3>2. s = {} => g[s] = {file}
      BY <1>2 DEF Iter
    <3>3. QED BY <2>2, <3>1, <3>2
  <2> DEFINE u == One(s)
             r == s \ {u}
  <2>4. u \in s /\ u \in Units
    BY <2>3 DEF One, Pending
  <2>5. g[s] = With(u, g[r])
    BY <1>2, <2>3 DEF Iter
  <2>6. Cardinality(r) = x - 1 /\ Cardinality(r) \in Nat /\ r \in SUBSET Pending
    <3>1. IsFiniteSet(s) /\ IsFiniteSet(r)
      BY UnitsFinite, FS_Subset
    <3>2. QED BY <2>2, <2>4, <3>1, FS_RemoveElement, FS_CardinalityType
  <2> HIDE DEF u, r
  <2>7. Cardinality(r) \notin T
    BY <2>1, <2>6
  <2>8. \A f \in g[r] : ImageOk(f)
    BY <2>6, <2>7
  <2>9. QED BY <2>2, <2>4, <2>5, <2>8, WithOk
<1>4. Cardinality(Pending) \in Nat
  BY UnitsFinite, FS_CardinalityType
<1>5. QED BY <1>1, <1>3, <1>4
-----------------------------------------------------------------------------
(* What the image may hold after a crash, and what it holds in memory.     *)

Flags == {"none", "copied", "compressed"}
EntrySet == {Unallocated} \cup [c : Clusters, flag : Flags]
DataSet == [v : Values]

(* The entry i of the guest's L2 table, in memory and after a crash.       *)
Cached(i) == IF l1.c = 0 THEN Unallocated ELSE Entries(l1.c)[i]
Tables == {e.c : e \in Possible(L1)} \ {0}
Stored(i) == UNION {Possible(Cell(t, i)) : t \in Tables}

(* An L1 entry or one of the two L2 entries refers to a cluster if the one *)
(* in memory does, or one that a crash may leave.                          *)
Bit(b) == IF b THEN 1 ELSE 0
Points(S, c) == \E e \in S : e.c = c
BySnap(c) == snap # 0 /\ c \in {1, 2}

(* The references to a cluster: after a crash at most, in memory, and in   *)
(* whichever of the two a reference is.                                    *)
OnDisk(c) ==
  Bit(Points(Possible(L1), c)) + Bit(Points(Stored(0), c))
    + Bit(Points(Stored(1), c)) + Bit(BySnap(c))
InMemory(c) ==
  Bit(l1.c = c) + Bit(Cached(0).c = c) + Bit(Cached(1).c = c) + Bit(BySnap(c))
Anywhere(c) ==
  Bit(Points(Possible(L1) \cup {l1}, c))
    + Bit(Points(Stored(0) \cup {Cached(0)}, c))
    + Bit(Points(Stored(1) \cup {Cached(1)}, c)) + Bit(BySnap(c))

-----------------------------------------------------------------------------
(* Clusters on their way.                                                  *)

(* The cluster a request has taken and no table refers to yet.             *)
Holds(w) ==
  \/ pc[w] \in {"l2_flush_refcount", "l2_copy", "l1_write", "mapped"}
  \/ m[w].alloc /\ pc[w] \in {"data", "wrote", "copy", "copied", "failed", "link"}
Held(c) == \E w \in Cos : Holds(w) /\ m[w].c = c

(* An update of a refcount that is under way and has not been made yet.    *)
Outermost == stack[Len(stack)]
Updating(k, c) ==
  /\ stack # <<>> /\ Outermost.f = "update_refcount" /\ Outermost.k = k
  /\ Outermost.e = c /\ Outermost.at \in {"start", "apply"}
Adding(c) == Updating(1, c)
(* The cluster that a reference was taken away from, until it is counted.  *)
Freeing(c) ==
  \/ Updating(-1, c)
  \/ \E w \in Cos : pc[w] \in {"l1_sync", "unlink"} /\ old[w] = c

-----------------------------------------------------------------------------
(* The counts.                                                             *)

(* A cluster on its way has no references and is counted once.             *)
HeldOk(c) ==
  /\ refcount[c] = IF Adding(c) THEN 0 ELSE 1
  /\ InMemory(c) = 0 /\ ~ Freeing(c)
  /\ depends["ref"] = None => Anywhere(c) = 0
HeldInv ==
  /\ \A w \in Cos : Holds(w) => m[w].c \in Clusters
  /\ \A w, o \in Cos : Holds(w) /\ Holds(o) /\ m[w].c = m[o].c => w = o
  /\ \A c \in Clusters : /\ Adding(c) => Held(c)
                         /\ Held(c) => HeldOk(c)

(* In memory, every other cluster is counted as often as it is referred to *)
(* and, unless the refcounts wait for the L2 tables, as after a crash.     *)
CountOk(c) ==
  /\ refcount[c] >= InMemory(c) + Bit(Freeing(c))
  /\ crashes = 0 /\ errors = 0 => refcount[c] = InMemory(c) + Bit(Freeing(c))
  /\ depends["ref"] = None => refcount[c] >= Anywhere(c)
CountInv == \A c \in Clusters : ~ Held(c) => CountOk(c)

(* What the file says of a cluster covers the references in the file and,  *)
(* unless the L2 tables wait for the refcounts, those in memory.           *)
DiskInv ==
  \A c \in Clusters : \A r \in Possible(Ref(c)) :
    /\ r >= OnDisk(c)
    /\ depends["l2"] = None => r >= Anywhere(c)

(* A cluster that some entry takes for private is.                         *)
AllEntries ==
  Possible(L1) \cup {l1} \cup UNION {Stored(i) \cup {Cached(i)} : i \in Half}
PrivateInv ==
  \A e \in AllEntries : e.flag = "copied" => Anywhere(e.c) <= 1

CountsInv == HeldInv /\ CountInv /\ DiskInv /\ PrivateInv

-----------------------------------------------------------------------------
(* The contents.                                                           *)

FileInv ==
  /\ \A c \in Clusters : Possible(Ref(c)) \subseteq Nat
  /\ \A c \in Clusters, i \in Half : Possible(Cell(c, i)) \subseteq EntrySet \cup DataSet
  /\ \A e \in Possible(L1) :
       /\ e \in EntrySet
       /\ e.flag = "copied" \/ (e.flag = "none" /\ e.c \in {0, snap})
  /\ \A i \in Half : Stored(i) \subseteq EntrySet
  /\ snap # 0 => /\ Possible(Cell(1, 0)) = {Entry(2, "none")}
                 /\ Possible(Cell(1, 1)) = {Unallocated}
                 /\ \A h \in Half : Possible(Cell(2, h)) = {Data(1)}

CacheInv ==
  /\ l1 = file[L1]
  /\ \A e \in lost[L1] : \E w \in Cos : pc[w] = "l1_sync" /\ e.c = old[w]
  /\ DOMAIN l2 \subseteq Clusters
  /\ \A t \in DOMAIN l2 :
       /\ t \in {l1.c, snap} \/ \E w \in Cos : pc[w] = "l1_write" /\ m[w].c = t
       /\ l2[t] \in [Half -> EntrySet]
       /\ <<"l2", t>> \notin dirty => \A i \in Half : file[Cell(t, i)] = l2[t][i]
       /\ <<"l2", t>> \in dirty => t # snap
  /\ dirty \subseteq {<<"ref", 0>>} \cup {<<"l2", t>> : t \in DOMAIN l2}
  /\ <<"ref", 0>> \notin dirty => \A c \in Clusters : file[Ref(c)] = refcount[c]

(* Requests.                                                               *)
Mapped == {"map", "mapped", "data", "wrote", "copy", "copied", "failed", "link",
           "unlink", "unmap"}
RequestInv ==
  /\ \A w \in Cos :
       /\ pc[w] = "idle" <=> req[w].op = "none"
       /\ pc[w] \in Mapped => l1.flag = "copied" /\ req[w].halves # {}
       /\ pc[w] \in {"map", "unmap"} => l1.c \in DOMAIN l2
       /\ pc[w] \in {"l2_flush_refcount", "l2_copy", "l1_write"} =>
            l1.flag = "none" /\ l1.c \in {0, snap}
       /\ pc[w] = "data" /\ ~ m[w].alloc =>
            Cached(req[w].g) = Entry(m[w].c, "copied")
       /\ (pc[w] = "mapped" \/ m[w].alloc) /\ Holds(w) =>
            Cached(req[w].g).flag # "copied"
       /\ (pc[w] = "mapped" \/ m[w].alloc) => \A o \in Cos \ {w} :
            m[o].alloc => req[o].g # req[w].g
       /\ pc[w] = "unmap" => req[w].halves = Half
       /\ req[w].op = "write" => req[w].halves # {}
       /\ req[w].op = "discard" => req[w].halves = Half
       /\ pc[w] \in {"copy", "copied", "link", "unlink"} => m[w].alloc
       /\ pc[w] = "l1_sync" => old[w] \in {0, snap}
       /\ pc[w] = "failed" => errors > 0
  /\ \A w, o \in Cos : w # o => Touches(w) \cap Touches(o) = {}

-----------------------------------------------------------------------------
(* The calls.                                                              *)

GoodFrame(f) ==
  \/ f.f = "cache_flush" /\ f.k \in Caches /\ f.at = "start"
  \/ f.f = "entry_flush" /\ f.k \in Caches /\ f.at \in {"start", "write", "written"}
  \/ f.f = "flush_dependency" /\ f.k \in Caches /\ f.at \in {"start", "flushed"}
  \/ f.f = "set_dependency" /\ f.k \in Caches /\ f.at \in {"start", "set"}
  \/ /\ f.f = "update_refcount" /\ f.k \in {-1, 1} /\ f.e \in Clusters
     /\ f.at \in {"start", "apply", "put"}

(* b waits for the call a.                                                 *)
Awaits(b, a) ==
  \/ b.f = "cache_flush" /\ a.f = "entry_flush" /\ a.k = b.k
  \/ b.f = "entry_flush" /\ b.at = "write" /\ a.f = "flush_dependency" /\ a.k = b.k
  \/ b.f = "flush_dependency" /\ b.at = "flushed" /\ a.f = "cache_flush" /\ a.k = Other(b.k)
  \/ b.f = "set_dependency" /\ b.at = "set" /\ a.f = "flush_dependency" /\ a.k = Other(b.k)
  \/ /\ b.f = "update_refcount" /\ b.at = "apply" /\ b.k = -1
     /\ a.f = "set_dependency" /\ a.k = "ref"
  \/ b.f = "update_refcount" /\ b.at = "put" /\ a.f = "entry_flush" /\ a.k = "ref"

Chained ==
  /\ \A i \in 1..Len(stack) : GoodFrame(stack[i])
  /\ \A i \in 1..(Len(stack) - 1) : Awaits(stack[i + 1], stack[i])

(* What a call knows of the dependencies when it goes on.                  *)
Knows(f, dep) ==
  /\ f.f = "entry_flush" /\ f.at \in {"write", "written"} => dep[f.k] = None
  /\ f.f = "set_dependency" /\ f.at = "set" => dep[Other(f.k)] = None
  /\ f.f = "update_refcount" /\ f.at = "apply" /\ f.k = -1 => dep["ref"] = "l2"

ShapeInv ==
  /\ ret = TRUE
  /\ \A w \in Cos : pc[w] # "l2_put"
  /\ Chained
  /\ \A i \in 1..Len(stack) :
       stack[i].f = "flush_dependency" => depends[stack[i].k] = Other(stack[i].k)
  /\ \A k \in Caches : depends[k] \in {None, Other(k)}
  /\ stack # <<>> => Knows(Top, depends)

(* The call f that a request at l may have made.                           *)
OwnerCalls(l, f, c, o) ==
  /\ l = "link" <=> f.f = "set_dependency"
  /\ l = "link" => f.k = "l2"
  /\ l \in {"l2_flush_refcount", "mapped"} <=> f.f = "update_refcount" /\ f.k = 1
  /\ l \in {"l2_flush_refcount", "mapped"} => f.e = c
  /\ f.f = "update_refcount" /\ f.k = -1 => l \in {"table", "done", "unmap_put"}
  /\ l = "l2_copy" => f.f = "cache_flush" /\ f.k = "ref"
  /\ l = "l1_write" => f.f = "cache_flush" /\ f.k = "l2"
  /\ l = "evict" => /\ f.f = "entry_flush" /\ f.e = o
                    /\ f.k = "ref" <=> o = 0
  /\ l \notin {"l1_sync", "unmap", "flush_l2", "get"}

OwnerInv ==
  \A w \in Cos : lock = w =>
    IF stack # <<>> THEN OwnerCalls(pc[w], Outermost, m[w].c, old[w])
    ELSE pc[w] = "link" => depends["l2"] = "ref"

Clean(k) == \A d \in dirty : d[1] # k
Durable(k) ==
  /\ k = "ref" => \A c \in Clusters : lost[Ref(c)] = {}
  /\ k = "l2" => /\ lost[L1] = {}
                 /\ \A t \in DOMAIN l2 : \A i \in Half : lost[Cell(t, i)] = {}
                 /\ l1.c # 0 => \A i \in Half : lost[Cell(l1.c, i)] = {}
IsFlushed(k) == Clean(k) /\ Durable(k)
RefStable == IsFlushed("ref") /\ depends["ref"] = None

FlushInv ==
  /\ \A i \in 1..Len(stack) : LET f == stack[i] IN
       /\ f.f = "entry_flush" /\ f.at # "start" => <<f.k, f.e>> \in dirty
       /\ f.f = "cache_flush" =>
            \A d \in dirty : d[1] = f.k =>
              d[2] \in f.todo \/ (i > 1 /\ d[2] = stack[i - 1].e)
  /\ In("entry_flush", "written") =>
       LET ws == Contents(Top.k, Top.e) IN \A u \in DOMAIN ws : file[u] = ws[u]
  /\ In("flush_dependency", "flushed") => IsFlushed(Other(Top.k))

(* Flushing the refcounts flushes what they depend on, too.                *)
RefReady == <<"ref", 0>> \in dirty \/ depends["ref"] = None

(* A new table is linked after everything it depends on is in the file.    *)
TableInv ==
  \A w \in Cos : lock = w =>
    /\ pc[w] = "l2_flush_refcount" => Adding(m[w].c) \/ RefReady
    /\ pc[w] = "l2_copy" => RefReady
    /\ pc[w] = "l2_copy" /\ stack = <<>> => RefStable
    /\ pc[w] = "l1_write" =>
         /\ RefStable /\ m[w].c \in DOMAIN l2
         /\ \A i \in Half : l2[m[w].c][i] = Cached(i)
         /\ stack = <<>> => IsFlushed("l2")
    /\ pc[w] = "evict" /\ stack = <<>> => <<"l2", old[w]>> \notin dirty

(* Types.                                                                  *)
ReqSet == {NoRequest} \cup
  [op : {"write", "discard", "flush", "read"}, g : Guest, halves : SUBSET Half,
   v : Values, floor : [Sectors -> Values]]

TypeInv ==
  /\ DOMAIN file = Units /\ DOMAIN lost = Units
  /\ writethrough \in BOOLEAN /\ snap \in {0, 1}
  /\ refcount \in [Clusters -> Nat] /\ free_cluster_index \in Nat \ {0}
  /\ depends_on_flush \in [Caches -> BOOLEAN]
  /\ m \in [Cos -> [alloc : BOOLEAN, c : Clusters \cup {0}]]
  /\ old \in [Cos -> Clusters \cup {0}]
  /\ req \in [Cos -> ReqSet]
  /\ promise \in [Sectors -> SUBSET Values] /\ latest \in [Sectors -> Values]
  /\ count \in 1..MaxRequests + 1 /\ crashes \in Nat /\ errors \in Nat

AllInv ==
  /\ WaitInv /\ DependInv
  /\ TypeInv /\ ShapeInv /\ OwnerInv /\ FlushInv /\ TableInv
  /\ FileInv /\ CacheInv /\ RequestInv /\ CountsInv
LEMMA UnitsDiffer ==
  /\ \A c, d, i : Ref(c) # Cell(d, i)
  /\ \A c : Ref(c) # L1
  /\ \A c, i : Cell(c, i) # L1
  /\ \A c, d : Ref(c) = Ref(d) => c = d
  /\ \A c, d, i, j : Cell(c, i) = Cell(d, j) => c = d /\ i = j
  /\ \A c : Ref(c)[1] = "ref" /\ Ref(c)[2] = c
  /\ \A c, i : Cell(c, i)[1] = "cell" /\ Cell(c, i)[2] = c /\ Cell(c, i)[3] = i
  /\ L1[1] = "l1"
<1>1. \A c, d, i : Ref(c) # Cell(d, i)
  BY DEF Ref, Cell
<1>2. \A c : Ref(c) # L1
  BY DEF Ref, L1
<1>3. \A c, i : Cell(c, i) # L1
  BY DEF Cell, L1
<1>4. \A c, d : Ref(c) = Ref(d) => c = d
  BY DEF Ref
<1>5. \A c, d, i, j : Cell(c, i) = Cell(d, j) => c = d /\ i = j
  BY DEF Cell
<1>6. \A c : Ref(c)[1] = "ref" /\ Ref(c)[2] = c
  BY DEF Ref
<1>7. \A c, i : Cell(c, i)[1] = "cell" /\ Cell(c, i)[2] = c /\ Cell(c, i)[3] = i
  BY DEF Cell
<1>8. L1[1] = "l1"
  BY DEF L1
<1>9. QED BY <1>1, <1>2, <1>3, <1>4, <1>5, <1>6, <1>7, <1>8

LEMMA UnitsAre ==
  /\ \A c \in Clusters : Ref(c) \in Units
  /\ \A c \in Clusters, i \in Half : Cell(c, i) \in Units
  /\ L1 \in Units
  /\ \A u \in Units : \/ u = L1 \/ \E c \in Clusters : u = Ref(c)
                      \/ \E c \in Clusters, i \in Half : u = Cell(c, i)
BY DEF Units

LEMMA WrittenMeans ==
  ASSUME NEW ws, Written(ws), DOMAIN ws \subseteq Units
  PROVE  /\ DOMAIN file' = Units /\ DOMAIN lost' = Units
         /\ \A u \in Units : u \notin DOMAIN ws =>
              file'[u] = file[u] /\ lost'[u] = lost[u] /\ Possible(u)' = Possible(u)
         /\ \A u \in DOMAIN ws : /\ file'[u] = ws[u]
                                 /\ Possible(u)' \subseteq Possible(u) \cup {ws[u]}
BY DEF Written, Possible

LEMMA FlushedMeans ==
  ASSUME Flushed
  PROVE  /\ file' = file /\ DOMAIN lost' = Units
         /\ \A u \in Units : lost'[u] = {} /\ Possible(u)' = {file[u]}
                             /\ Possible(u)' \subseteq Possible(u)
BY DEF Flushed, Possible
-----------------------------------------------------------------------------
(* What the parts of the model mean.                                       *)

(* Only transfers of the guest's data fail, no write of a table.           *)
OnlyDataFails == MayFail \subseteq BOOLEAN \X {"data"}

LEMMA TablesNeverFail ==
  ASSUME OnlyDataFails
  PROVE  ~ Fails("table") /\ ~ Fails("flush")
BY DEF OnlyDataFails, Fails

LEMMA BitIs ==
  /\ \A b : Bit(b) \in {0, 1}
  /\ \A b : b => Bit(b) = 1
  /\ \A b : ~ b => Bit(b) = 0
  /\ \A b, d : (b => d) => Bit(b) <= Bit(d)
BY DEF Bit

LEMMA CachesAre ==
  /\ \A k \in Caches : Other(k) \in Caches /\ Other(k) # k /\ Other(Other(k)) = k
  /\ Other("l2") = "ref" /\ Other("ref") = "l2"
  /\ "l2" \in Caches /\ "ref" \in Caches /\ None \notin Caches
  /\ \A k \in Caches : k = "l2" \/ k = "ref"
BY QcowAssumption DEF Caches, Other

LEMMA ClustersAre ==
  /\ Clusters \subseteq Nat /\ 0 \notin Clusters /\ 1 \in Clusters /\ 2 \in Clusters
<1>1. Cardinality(Clusters) \in Nat
  BY QcowAssumption, FS_CardinalityType
<1>2. QED BY <1>1, QcowAssumption

LEMMA EntriesAre ==
  /\ \A c, flag : Entry(c, flag).c = c /\ Entry(c, flag).flag = flag
  /\ Unallocated = Entry(0, "none") /\ Unallocated \in EntrySet
  /\ \A c \in Clusters, flag \in Flags : Entry(c, flag) \in EntrySet
  /\ \A e \in EntrySet : /\ e.c \in Clusters \cup {0} /\ e.flag \in Flags
                         /\ e = Entry(e.c, e.flag)
                         /\ e.c = 0 <=> e = Unallocated
                         /\ e.c = 0 => e.flag = "none"
BY ClustersAre DEF Entry, Unallocated, EntrySet, Flags

-----------------------------------------------------------------------------
(* What the calls do to the stack.                                         *)

LEMMA StackIs ==
  ASSUME StackType
  PROVE  /\ Len(stack) \in Nat /\ (stack = <<>> <=> Len(stack) = 0)
         /\ stack # <<>> => Top = stack[1] /\ 1 \in 1..Len(stack) /\ Len(stack) \in 1..Len(stack)
         /\ \E V : stack \in Seq(Frames(V))
<1>1. PICK V : stack \in Seq(Frames(V))
  BY DEF StackType
<1>2. QED BY <1>1 DEF Top

LEMMA SeqMoved ==
  ASSUME NEW V, NEW q \in Seq(V), q # <<>>, NEW t
  PROVE  LET p == <<t>> \o Tail(q) IN
         /\ Len(p) = Len(q) /\ p[1] = t /\ p # <<>>
         /\ \A i \in 2..Len(q) : p[i] = q[i]
<1> DEFINE p == <<t>> \o Tail(q)
           W == V \cup {t}
<1>1. /\ Tail(q) \in Seq(V) /\ Tail(q) \in Seq(W) /\ <<t>> \in Seq(W) /\ Len(<<t>>) = 1
      /\ Len(Tail(q)) = Len(q) - 1 /\ Len(q) \in Nat \ {0} /\ <<t>>[1] = t
      /\ \A i \in 1..(Len(q) - 1) : Tail(q)[i] = q[i + 1]
  OBVIOUS
<1>2. p \in Seq(W) /\ Len(p) = Len(q) /\ p[1] = t
  BY <1>1
<1>3. ASSUME NEW i \in 2..Len(q) PROVE p[i] = q[i]
  <2>1. p[i] = Tail(q)[i - 1]
    BY <1>1
  <2>2. QED BY <1>1, <2>1
<1> HIDE DEF p, W
<1>4. QED BY <1>1, <1>2, <1>3 DEF p

LEMMA SeqPushed ==
  ASSUME NEW V, NEW q \in Seq(V), q # <<>>, NEW t, NEW x
  PROVE  LET p == <<x, t>> \o Tail(q) IN
         /\ Len(p) = Len(q) + 1 /\ p[1] = x /\ p[2] = t /\ p # <<>>
         /\ \A i \in 3..(Len(q) + 1) : p[i] = q[i - 1]
<1> DEFINE p == <<x, t>> \o Tail(q)
           W == V \cup {x, t}
<1>1. /\ Tail(q) \in Seq(V) /\ Tail(q) \in Seq(W) /\ <<x, t>> \in Seq(W) /\ Len(<<x, t>>) = 2
      /\ Len(Tail(q)) = Len(q) - 1 /\ Len(q) \in Nat \ {0}
      /\ <<x, t>>[1] = x /\ <<x, t>>[2] = t
      /\ \A i \in 1..(Len(q) - 1) : Tail(q)[i] = q[i + 1]
  OBVIOUS
<1>2. p \in Seq(W) /\ Len(p) = Len(q) + 1 /\ p[1] = x /\ p[2] = t
  BY <1>1
<1>3. ASSUME NEW i \in 3..(Len(q) + 1) PROVE p[i] = q[i - 1]
  <2>1. p[i] = Tail(q)[i - 2]
    BY <1>1
  <2>2. QED BY <1>1, <2>1
<1> HIDE DEF p, W
<1>4. QED BY <1>1, <1>2, <1>3 DEF p

LEMMA CallReturns ==
  ASSUME StackType, stack # <<>>, NEW r, Returns(r)
  PROVE  /\ Len(stack) \in Nat /\ Len(stack') = Len(stack) - 1 /\ ret' = r
         /\ \A i \in 1..(Len(stack) - 1) : stack'[i] = stack[i + 1]
         /\ stack' = <<>> <=> Len(stack) = 1
         /\ stack' # <<>> => /\ Len(stack) > 1 /\ Top' = stack[2]
                             /\ Outermost' = Outermost
<1>1. PICK V : stack \in Seq(Frames(V))
  BY DEF StackType
<1>2. /\ Tail(stack) \in Seq(Frames(V)) /\ Len(Tail(stack)) = Len(stack) - 1
      /\ Len(stack) \in Nat \ {0} /\ stack' = Tail(stack) /\ ret' = r
      /\ \A i \in 1..(Len(stack) - 1) : Tail(stack)[i] = stack[i + 1]
  BY <1>1 DEF Returns
<1>3. stack' = <<>> <=> Len(stack) = 1
  <2>1. \A q \in Seq(Frames(V)) : q = <<>> <=> Len(q) = 0
    OBVIOUS
  <2>2. Tail(stack) = <<>> <=> Len(Tail(stack)) = 0
    BY <1>2, <2>1
  <2>3. Len(stack) - 1 = 0 <=> Len(stack) = 1
    BY <1>2
  <2>4. QED BY <1>2, <2>2, <2>3
<1>4. ASSUME stack' # <<>>
      PROVE  Len(stack) > 1 /\ Top' = stack[2] /\ Outermost' = Outermost
  <2>1. Len(stack) > 1 /\ 1 \in 1..(Len(stack) - 1)
        /\ Len(stack) - 1 \in 1..(Len(stack) - 1) /\ (Len(stack) - 1) + 1 = Len(stack)
    BY <1>2, <1>3, <1>4
  <2>2. stack'[1] = stack[2] /\ stack'[Len(stack')] = stack[Len(stack)]
    BY <1>2, <2>1
  <2>3. QED BY <1>2, <1>4, <2>1, <2>2 DEF Top, Outermost
<1>5. QED BY <1>2, <1>3, <1>4

(* The frame t of a call is that of f, but for how far it got.             *)
SameCall(t, f) == t.f = f.f /\ t.k = f.k /\ t.e = f.e

LEMMA CallMoves ==
  ASSUME StackType, stack # <<>>, NEW at, Calls(<<>>, at)
  PROVE  /\ Len(stack) \in Nat /\ Len(stack') = Len(stack) /\ stack' # <<>> /\ ret' = TRUE
         /\ Top' = stack'[1] /\ SameCall(stack'[1], stack[1]) /\ stack'[1].at = at
         /\ stack'[1].todo = stack[1].todo
         /\ \A i \in 2..Len(stack) : stack'[i] = stack[i]
         /\ SameCall(Outermost', Outermost)
         /\ Len(stack) # 1 => Outermost' = Outermost
         /\ Len(stack) = 1 => Outermost' = stack'[1] /\ Outermost = stack[1]
<1>1. PICK V : stack \in Seq(Frames(V))
  BY DEF StackType
<1> DEFINE t == [Top EXCEPT !.at = at]
<1>2. Top = stack[1] /\ Top \in Frames(V) /\ Len(stack) \in Nat \ {0}
  BY <1>1 DEF Top
<1>3. SameCall(t, Top) /\ t.at = at /\ t.todo = Top.todo
  BY <1>2 DEF Frames, SameCall
<1>4. stack' = <<>> \o <<t>> \o Tail(stack) /\ ret' = TRUE
  BY DEF Calls
<1> HIDE DEF t
<1>5. stack' = <<t>> \o Tail(stack)
  <2>1. <<>> \o <<t>> = <<t>>
    OBVIOUS
  <2>2. QED BY <1>4, <2>1
<1>6. /\ Len(stack') = Len(stack) /\ stack'[1] = t /\ stack' # <<>>
      /\ \A i \in 2..Len(stack) : stack'[i] = stack[i]
  BY <1>1, <1>5, SeqMoved
<1>7. Len(stack) # 1 => Outermost' = Outermost
  BY <1>2, <1>6 DEF Outermost
<1>8. Len(stack) = 1 => Outermost' = stack'[1] /\ Outermost = stack[1]
  BY <1>2, <1>6 DEF Outermost
<1>9. Top' = stack'[1]
  <2>1. PICK W : stack' \in Seq(W)
    <3>1. <<t>> \in Seq(Frames(V) \cup {t}) /\ Tail(stack) \in Seq(Frames(V) \cup {t})
      BY <1>1
    <3>2. QED BY <1>5, <3>1
  <2>2. QED BY <1>6, <2>1 DEF Top
<1>10. QED BY <1>2, <1>3, <1>4, <1>6, <1>7, <1>8, <1>9 DEF SameCall

LEMMA CallPushes ==
  ASSUME StackType, stack # <<>>, NEW x, NEW t,
         stack' = <<x, t>> \o Tail(stack), SameCall(t, Top)
  PROVE  /\ Len(stack) \in Nat /\ Len(stack') = Len(stack) + 1 /\ stack' # <<>>
         /\ Top' = x /\ stack'[1] = x /\ stack'[2] = t
         /\ \A i \in 3..(Len(stack) + 1) : stack'[i] = stack[i - 1]
         /\ SameCall(Outermost', Outermost)
         /\ Len(stack) # 1 => Outermost' = Outermost
         /\ Len(stack) = 1 => Outermost' = t /\ Outermost = stack[1]
<1>1. PICK V : stack \in Seq(Frames(V))
  BY DEF StackType
<1>2. Top = stack[1] /\ Top \in Frames(V) /\ Len(stack) \in Nat \ {0}
  BY <1>1 DEF Top
<1>3. /\ Len(stack') = Len(stack) + 1 /\ stack'[1] = x /\ stack'[2] = t /\ stack' # <<>>
      /\ \A i \in 3..(Len(stack) + 1) : stack'[i] = stack[i - 1]
  BY <1>1, SeqPushed
<1>4. Len(stack) # 1 => Outermost' = Outermost
  <2>1. Len(stack) # 1 => Len(stack) + 1 \in 3..(Len(stack) + 1) /\ (Len(stack) + 1) - 1 = Len(stack)
    BY <1>2
  <2>2. QED BY <1>2, <1>3, <2>1 DEF Outermost
<1>5. Len(stack) = 1 => Outermost' = t /\ Outermost = stack[1]
  BY <1>2, <1>3 DEF Outermost
<1>6. Top' = x
  <2>1. PICK W : stack' \in Seq(W)
    <3>1. <<x, t>> \in Seq(Frames(V) \cup {x, t}) /\ Tail(stack) \in Seq(Frames(V) \cup {x, t})
      BY <1>1
    <3>2. QED BY <3>1
  <2>2. QED BY <1>3, <2>1 DEF Top
<1>7. QED BY <1>2, <1>3, <1>4, <1>5, <1>6 DEF SameCall

LEMMA FramesAre ==
  /\ \A f, k, e, todo : LET x == Frame(f, k, e, todo) IN
       x.f = f /\ x.k = k /\ x.e = e /\ x.todo = todo /\ x.at = "start"
BY DEF Frame

(* The innermost call makes a call x.                                      *)
LEMMA CallCalls ==
  ASSUME StackType, stack # <<>>, NEW x, NEW at,
         stack' = <<x>> \o <<[Top EXCEPT !.at = at]>> \o Tail(stack)
  PROVE  LET t == [Top EXCEPT !.at = at] IN
         /\ stack' = <<x, t>> \o Tail(stack) /\ SameCall(t, Top)
         /\ t.at = at /\ t.todo = Top.todo
<1>1. PICK V : stack \in Seq(Frames(V))
  BY DEF StackType
<1> DEFINE t == [Top EXCEPT !.at = at]
<1>2. Top \in Frames(V)
  BY <1>1 DEF Top
<1>3. SameCall(t, Top) /\ t.at = at /\ t.todo = Top.todo
  BY <1>2 DEF Frames, SameCall
<1>4. stack' = <<x>> \o <<t>> \o Tail(stack)
  OBVIOUS
<1> HIDE DEF t
<1>5. <<x>> \o <<t>> = <<x, t>>
  <2>1. <<x>> \in Seq({x, t}) /\ <<t>> \in Seq({x, t}) /\ <<x, t>> \in Seq({x, t})
    OBVIOUS
  <2>2. /\ Len(<<x>>) = 1 /\ Len(<<t>>) = 1 /\ Len(<<x, t>>) = 2
        /\ <<x>>[1] = x /\ <<t>>[1] = t /\ <<x, t>>[1] = x /\ <<x, t>>[2] = t
    OBVIOUS
  <2>3. /\ <<x>> \o <<t>> \in Seq({x, t}) /\ Len(<<x>> \o <<t>>) = 2
        /\ (<<x>> \o <<t>>)[1] = x /\ (<<x>> \o <<t>>)[2] = t
    BY <2>1, <2>2, ConcatProperties
  <2>4. \A i \in 1..Len(<<x>> \o <<t>>) : (<<x>> \o <<t>>)[i] = <<x, t>>[i]
    <3>1. \A i \in 1..2 : i = 1 \/ i = 2
      OBVIOUS
    <3>2. QED BY <2>2, <2>3, <3>1
  <2> DEFINE p == <<x>> \o <<t>>
             q == <<x, t>>
  <2> HIDE DEF p, q
  <2>5. p \in Seq({x, t}) /\ q \in Seq({x, t}) /\ Len(p) = Len(q)
        /\ \A i \in 1..Len(p) : p[i] = q[i]
    BY <2>1, <2>2, <2>3, <2>4 DEF p, q
  <2>6. p = q
    BY <2>5, SeqEqual
  <2>7. QED BY <2>6 DEF p, q
<1>6. QED BY <1>3, <1>4, <1>5 DEF t

(* A request makes a call x of its own.                                    *)
LEMMA CallStarts ==
  ASSUME NEW x, stack' = <<x>>
  PROVE  /\ Len(stack') = 1 /\ stack'[1] = x /\ stack' # <<>>
         /\ Top' = x /\ Outermost' = x
BY DEF Top, Outermost

-----------------------------------------------------------------------------
(* The shape of the stack.                                                 *)

LEMMA ShapePops ==
  ASSUME ShapeInv, StackType, stack # <<>>, Returns(TRUE), pc' = pc,
         \A k \in Caches : depends'[k] \in {None, Other(k)},
         \A i \in 2..Len(stack) :
           stack[i].f = "flush_dependency" => depends'[stack[i].k] = Other(stack[i].k),
         Len(stack) > 1 => Knows(stack[2], depends')
  PROVE  ShapeInv'
<1>1. /\ Len(stack) \in Nat /\ Len(stack') = Len(stack) - 1 /\ ret' = TRUE
      /\ \A i \in 1..(Len(stack) - 1) : stack'[i] = stack[i + 1]
      /\ stack' # <<>> => Len(stack) > 1 /\ Top' = stack[2]
  BY CallReturns
<1>2. \A i \in 1..Len(stack') : i + 1 \in 2..Len(stack) /\ stack'[i] = stack[i + 1]
  BY <1>1
<1>3. Chained'
  <2>1. \A i \in 1..Len(stack') : GoodFrame(stack'[i])
    BY <1>2 DEF ShapeInv, Chained
  <2>2. ASSUME NEW i \in 1..(Len(stack') - 1) PROVE Awaits(stack'[i + 1], stack'[i])
    <3>1. i \in 1..Len(stack') /\ i + 1 \in 1..Len(stack') /\ i + 1 \in 1..(Len(stack) - 1)
      BY <1>1
    <3>2. QED BY <1>2, <3>1 DEF ShapeInv, Chained
  <2>3. QED BY <2>1, <2>2 DEF Chained
<1>4. QED BY <1>1, <1>2, <1>3 DEF ShapeInv

LEMMA ShapeMoves ==
  ASSUME ShapeInv, StackType, stack # <<>>, NEW at, Calls(<<>>, at),
         pc' = pc, depends' = depends,
         \A t : SameCall(t, Top) /\ t.at = at => GoodFrame(t) /\ Knows(t, depends)
  PROVE  ShapeInv'
<1>1. /\ Len(stack) \in Nat /\ Len(stack') = Len(stack) /\ stack' # <<>> /\ ret' = TRUE
      /\ Top' = stack'[1] /\ SameCall(stack'[1], stack[1]) /\ stack'[1].at = at
      /\ \A i \in 2..Len(stack) : stack'[i] = stack[i]
  BY CallMoves
<1>2. Top = stack[1] /\ Len(stack) # 0
  BY StackIs
<1>3. GoodFrame(stack'[1]) /\ Knows(stack'[1], depends)
  BY <1>1, <1>2
<1>4. ASSUME NEW i \in 1..Len(stack') PROVE i = 1 \/ i \in 2..Len(stack)
  BY <1>1
<1>5. Chained'
  <2>1. \A i \in 1..Len(stack') : GoodFrame(stack'[i])
    BY <1>1, <1>3, <1>4 DEF ShapeInv, Chained
  <2>2. ASSUME NEW i \in 1..(Len(stack') - 1) PROVE Awaits(stack'[i + 1], stack'[i])
    <3>1. /\ i \in 1..Len(stack') /\ i + 1 \in 2..Len(stack) /\ i \in 1..(Len(stack) - 1)
          /\ stack'[i + 1] = stack[i + 1]
      BY <1>1
    <3>2. Awaits(stack[i + 1], stack[i])
      BY <3>1 DEF ShapeInv, Chained
    <3>3. stack'[i].f = stack[i].f /\ stack'[i].k = stack[i].k
      BY <1>1, <1>4, <3>1 DEF SameCall
    <3>4. QED BY <3>1, <3>2, <3>3 DEF Awaits
  <2>3. QED BY <2>1, <2>2 DEF Chained
<1>6. ASSUME NEW i \in 1..Len(stack'), stack'[i].f = "flush_dependency"
      PROVE  depends[stack'[i].k] = Other(stack'[i].k)
  <2>1. i \in 1..Len(stack) /\ stack'[i].f = stack[i].f /\ stack'[i].k = stack[i].k
    BY <1>1, <1>4 DEF SameCall
  <2>2. QED BY <1>6, <2>1 DEF ShapeInv
<1>7. QED BY <1>1, <1>3, <1>5, <1>6 DEF ShapeInv

LEMMA ShapePushes ==
  ASSUME ShapeInv, StackType, stack # <<>>, NEW x, NEW t,
         stack' = <<x, t>> \o Tail(stack), SameCall(t, Top), ret' = TRUE,
         pc' = pc, depends' = depends,
         GoodFrame(t), GoodFrame(x), Awaits(t, x), Knows(x, depends),
         x.f = "flush_dependency" => depends[x.k] = Other(x.k)
  PROVE  ShapeInv'
<1>1. /\ Len(stack) \in Nat /\ Len(stack') = Len(stack) + 1 /\ stack' # <<>>
      /\ Top' = x /\ stack'[1] = x /\ stack'[2] = t
      /\ \A i \in 3..(Len(stack) + 1) : stack'[i] = stack[i - 1]
  BY CallPushes
<1>2. Top = stack[1] /\ Len(stack) # 0
  BY StackIs
<1>3. ASSUME NEW i \in 1..Len(stack')
      PROVE  \/ i = 1 \/ i = 2
             \/ i \in 3..(Len(stack) + 1) /\ i - 1 \in 1..Len(stack) /\ i - 1 # 1
  BY <1>1
<1>4. Chained'
  <2>1. \A i \in 1..Len(stack') : GoodFrame(stack'[i])
    BY <1>1, <1>3 DEF ShapeInv, Chained
  <2>2. ASSUME NEW i \in 1..(Len(stack') - 1) PROVE Awaits(stack'[i + 1], stack'[i])
    <3>1. CASE i = 1
      BY <1>1, <3>1
    <3>2. CASE i # 1
      <4>1. /\ i \in 1..Len(stack') /\ i + 1 \in 3..(Len(stack) + 1)
            /\ i - 1 \in 1..(Len(stack) - 1) /\ (i + 1) - 1 = i /\ (i - 1) + 1 = i
        BY <1>1, <3>2
      <4>2. Awaits(stack[i], stack[i - 1])
        BY <4>1 DEF ShapeInv, Chained
      <4>3. stack'[i].f = stack[i - 1].f /\ stack'[i].k = stack[i - 1].k
        <5>1. CASE i = 2
          BY <1>1, <1>2, <5>1 DEF SameCall
        <5>2. CASE i # 2
          BY <1>1, <1>3, <3>2, <4>1, <5>2
        <5>3. QED BY <5>1, <5>2
      <4>4. stack'[i + 1] = stack[i]
        BY <1>1, <4>1
      <4>5. QED BY <4>2, <4>3, <4>4 DEF Awaits
    <3>3. QED BY <3>1, <3>2
  <2>3. QED BY <2>1, <2>2 DEF Chained
<1>5. ASSUME NEW i \in 1..Len(stack'), stack'[i].f = "flush_dependency"
      PROVE  depends[stack'[i].k] = Other(stack'[i].k)
  <2>1. CASE i = 1
    BY <1>1, <1>5, <2>1
  <2>2. CASE i = 2
    <3>1. 1 \in 1..Len(stack) /\ t.f = stack[1].f /\ t.k = stack[1].k
      BY <1>1, <1>2 DEF SameCall
    <3>2. QED BY <1>1, <1>5, <2>2, <3>1 DEF ShapeInv
  <2>3. CASE i # 1 /\ i # 2
    BY <1>1, <1>3, <1>5, <2>3 DEF ShapeInv
  <2>4. QED BY <2>1, <2>2, <2>3
<1>6. QED BY <1>1, <1>4, <1>5 DEF ShapeInv

(* The innermost call and the one that waits for it.                       *)
LEMMA TopIs ==
  ASSUME ShapeInv, StackType, stack # <<>>
  PROVE  /\ Top = stack[1] /\ GoodFrame(Top) /\ Knows(Top, depends)
         /\ Len(stack) > 1 => Awaits(stack[2], Top) /\ GoodFrame(stack[2])
         /\ Len(stack) > 2 => Awaits(stack[3], stack[2])
         /\ Len(stack) > 3 => Awaits(stack[4], stack[3])
<1>1. Top = stack[1] /\ Len(stack) \in Nat \ {0}
  BY StackIs
<1>2. /\ 1 \in 1..Len(stack)
      /\ Len(stack) > 1 => 1 \in 1..(Len(stack) - 1) /\ 2 \in 1..Len(stack)
      /\ Len(stack) > 2 => 2 \in 1..(Len(stack) - 1)
      /\ Len(stack) > 3 => 3 \in 1..(Len(stack) - 1)
  BY <1>1
<1>3. 1 + 1 = 2 /\ 2 + 1 = 3 /\ 3 + 1 = 4
  OBVIOUS
<1>4. QED BY <1>1, <1>2, <1>3 DEF ShapeInv, Chained

(* There is one flush_dependency under way at most, and it was called by   *)
(* the flush of a cache or a request.                                      *)
LEMMA OneFlushDependency ==
  ASSUME ShapeInv, DependInv, stack # <<>>, Top.f = "flush_dependency"
  PROVE  \A i \in 2..Len(stack) : stack[i].f # "flush_dependency"
<1>1. StackType /\ (depends["l2"] = None \/ depends["ref"] = None)
  BY DEF DependInv, NoDependencyCycle
<1>2. /\ Top = stack[1] /\ GoodFrame(Top)
      /\ Len(stack) > 1 => Awaits(stack[2], Top) /\ GoodFrame(stack[2])
      /\ Len(stack) > 2 => Awaits(stack[3], stack[2])
      /\ Len(stack) > 3 => Awaits(stack[4], stack[3])
      /\ Len(stack) \in Nat \ {0}
  BY <1>1, TopIs, StackIs
<1>3. depends[Top.k] = Other(Top.k) /\ Top.k \in Caches
  BY <1>2 DEF ShapeInv, GoodFrame
<1>4. Len(stack) > 1 => \/ stack[2].f = "entry_flush" /\ stack[2].k = Top.k
                        \/ stack[2].f = "set_dependency" /\ stack[2].k = Other(Top.k)
  BY <1>2, <1>3, CachesAre DEF Awaits, GoodFrame
<1>5. Len(stack) > 2 => \/ stack[3].f = "cache_flush" /\ stack[3].k = Top.k
                        \/ stack[3].f = "update_refcount"
  BY <1>2, <1>4 DEF Awaits
<1>6. Len(stack) > 3 => stack[4].f = "flush_dependency" /\ Other(stack[4].k) = Top.k
                        /\ 4 \in 1..Len(stack) /\ GoodFrame(stack[4])
  BY <1>2, <1>5 DEF Awaits, ShapeInv, Chained
<1>7. Len(stack) <= 3
  <2> SUFFICES ASSUME Len(stack) > 3 PROVE FALSE
    BY <1>2
  <2>1. depends[stack[4].k] = Top.k /\ stack[4].k \in Caches
    BY <1>6 DEF ShapeInv, GoodFrame
  <2>2. QED BY <1>1, <1>3, <1>6, <2>1, CachesAre
<1>8. \A i \in 2..Len(stack) : i = 2 \/ i = 3
  BY <1>2, <1>7
<1>9. QED BY <1>4, <1>5, <1>8
LEMMA CallKeepsShape ==
  ASSUME OnlyDataFails, ShapeInv, DependInv, CallStep
  PROVE  ShapeInv'
<1>1. /\ StackType /\ ret = TRUE /\ pc' = pc /\ stack # <<>>
      /\ depends \in [Caches -> Caches \cup {None}]
  BY DEF ShapeInv, DependInv, CallStep, CacheFlushNext, CacheFlushEnd, EntryFlushStart,
         EntryFlushWrite, EntryFlushWritten, FlushDependencyStep, SetDependencyStep,
         UpdateRefcountStep, In, requests
<1>2. ~ Fails("table") /\ ~ Fails("flush")
  BY TablesNeverFail
<1>3. /\ Top = stack[1] /\ GoodFrame(Top) /\ Knows(Top, depends)
      /\ Len(stack) > 1 => Awaits(stack[2], Top) /\ GoodFrame(stack[2])
      /\ Len(stack) > 2 => Awaits(stack[3], stack[2])
      /\ Len(stack) > 3 => Awaits(stack[4], stack[3])
  BY <1>1, TopIs
<1>4. \A k \in Caches : depends[k] \in {None, Other(k)}
  BY DEF ShapeInv
<1>5. \A i \in 2..Len(stack) :
        stack[i].f = "flush_dependency" => depends[stack[i].k] = Other(stack[i].k)
  BY <1>1, StackIs DEF ShapeInv
<1>6. CASE CacheFlushNext
  <2>1. PICK e \in Top.todo :
          stack' = <<EntryFlush(Top.k, e),
                     [Top EXCEPT !.todo = @ \ {e},
                                 !.at = IF ret THEN @ ELSE "failed"]>> \o Tail(stack)
    BY <1>6 DEF CacheFlushNext
  <2> DEFINE t == [Top EXCEPT !.todo = @ \ {e}, !.at = IF ret THEN @ ELSE "failed"]
             x == EntryFlush(Top.k, e)
  <2>2. /\ Top.f = "cache_flush" /\ ret' = TRUE /\ depends' = depends
    BY <1>6 DEF CacheFlushNext, caches
  <2>3. SameCall(t, Top) /\ t.at = Top.at
    <3>1. PICK V : Top \in Frames(V)
      BY <1>1, <1>3, StackIs
    <3>2. QED BY <1>1, <3>1 DEF Frames, SameCall
  <2>4. x.f = "entry_flush" /\ x.k = Top.k /\ x.at = "start"
    BY DEF EntryFlush, Frame
  <2>5. stack' = <<x, t>> \o Tail(stack)
    BY <2>1
  <2> HIDE DEF x, t
  <2>6. GoodFrame(t) /\ GoodFrame(x) /\ Awaits(t, x) /\ Knows(x, depends)
    BY <1>3, <2>2, <2>3, <2>4 DEF GoodFrame, Awaits, Knows, SameCall
  <2>7. QED BY <1>1, <2>2, <2>3, <2>4, <2>5, <2>6, ShapePushes
<1>7. CASE CacheFlushEnd
  <2>1. Returns(TRUE) /\ depends' = depends /\ Top.f = "cache_flush"
    BY <1>1, <1>2, <1>3, <1>7 DEF CacheFlushEnd, GoodFrame, caches
  <2>2. Len(stack) > 1 => Knows(stack[2], depends')
    BY <1>3, <2>1 DEF Awaits, Knows
  <2>3. QED BY <1>1, <1>4, <1>5, <2>1, <2>2, ShapePops
<1>8. CASE EntryFlushStart
  <2>1. depends' = depends /\ Top.f = "entry_flush" /\ Top.k \in Caches
    BY <1>3, <1>8 DEF EntryFlushStart, In, GoodFrame
  <2>2. CASE Returns(TRUE)
    <3>1. Len(stack) > 1 => Knows(stack[2], depends')
      BY <1>3, <2>1 DEF Awaits, Knows
    <3>2. QED BY <1>1, <1>4, <1>5, <2>1, <2>2, <3>1, ShapePops
  <2>3. CASE Calls(<<FlushDependency(Top.k)>>, "write") /\ depends[Top.k] # None
    <3> DEFINE x == FlushDependency(Top.k)
    <3>1. x.f = "flush_dependency" /\ x.k = Top.k /\ x.at = "start"
      BY DEF FlushDependency, Frame
    <3>2. Calls(<<x>>, "write") /\ depends[x.k] = Other(x.k)
      BY <1>4, <2>1, <2>3, <3>1
    <3> HIDE DEF x
    <3> DEFINE t == [Top EXCEPT !.at = "write"]
    <3>3. /\ stack' = <<x, t>> \o Tail(stack) /\ SameCall(t, Top)
          /\ t.at = "write" /\ t.todo = Top.todo
      BY <1>1, <3>2, CallCalls DEF Calls
    <3> HIDE DEF t
    <3>4. GoodFrame(t) /\ GoodFrame(x) /\ Awaits(t, x) /\ Knows(x, depends) /\ ret' = TRUE
      BY <2>1, <3>1, <3>2, <3>3 DEF GoodFrame, Awaits, Knows, SameCall, Calls
    <3>5. QED BY <1>1, <2>1, <3>2, <3>3, <3>4, ShapePushes
  <2>4. CASE Calls(<<>>, "write") /\ depends[Top.k] = None
    <3>1. \A t : SameCall(t, Top) /\ t.at = "write" => GoodFrame(t) /\ Knows(t, depends)
      BY <2>1, <2>4 DEF SameCall, GoodFrame, Knows
    <3>2. QED BY <1>1, <2>1, <2>4, <3>1, ShapeMoves
  <2>5. QED BY <1>2, <1>8, <2>2, <2>3, <2>4 DEF EntryFlushStart
<1>9. CASE EntryFlushWrite
  <2>1. /\ depends' = depends /\ Top.f = "entry_flush" /\ Top.k \in Caches
        /\ Calls(<<>>, "written") /\ depends[Top.k] = None
    BY <1>1, <1>2, <1>3, <1>9 DEF EntryFlushWrite, In, GoodFrame, Knows, caches
  <2>2. \A t : SameCall(t, Top) /\ t.at = "written" => GoodFrame(t) /\ Knows(t, depends)
    BY <2>1 DEF SameCall, GoodFrame, Knows
  <2>3. QED BY <1>1, <2>1, <2>2, ShapeMoves
<1>10. CASE EntryFlushWritten
  <2>1. depends' = depends /\ Top.f = "entry_flush" /\ Returns(TRUE)
    BY <1>10 DEF EntryFlushWritten, In
  <2>2. Len(stack) > 1 => Knows(stack[2], depends')
    BY <1>3, <2>1 DEF Awaits, Knows
  <2>3. QED BY <1>1, <1>4, <1>5, <2>1, <2>2, ShapePops
<1>11. CASE FlushDependencyStep
  <2>1. Top.f = "flush_dependency" /\ Top.k \in Caches
    BY <1>3, <1>11 DEF FlushDependencyStep, In, GoodFrame
  <2>2. depends[Top.k] = Other(Top.k)
    BY <1>1, <1>3, <2>1, StackIs DEF ShapeInv
  <2>3. CASE Calls(<<CacheFlush(depends[Top.k])>>, "flushed") /\ depends' = depends
    <3> DEFINE x == CacheFlush(depends[Top.k])
    <3>1. x.f = "cache_flush" /\ x.k = Other(Top.k) /\ x.at = "start" /\ x.k \in Caches
      BY <2>1, <2>2, CachesAre DEF CacheFlush, Frame
    <3>2. Calls(<<x>>, "flushed") /\ depends' = depends
      BY <2>3
    <3> HIDE DEF x
    <3> DEFINE t == [Top EXCEPT !.at = "flushed"]
    <3>3. /\ stack' = <<x, t>> \o Tail(stack) /\ SameCall(t, Top)
          /\ t.at = "flushed" /\ t.todo = Top.todo
      BY <1>1, <3>2, CallCalls DEF Calls
    <3> HIDE DEF t
    <3>4. GoodFrame(t) /\ GoodFrame(x) /\ Awaits(t, x) /\ Knows(x, depends) /\ ret' = TRUE
      BY <2>1, <3>1, <3>2, <3>3 DEF GoodFrame, Awaits, Knows, SameCall, Calls
    <3>5. QED BY <1>1, <3>1, <3>2, <3>3, <3>4, ShapePushes
  <2>4. CASE Returns(ret) /\ depends' = [depends EXCEPT ![Top.k] = IF ret THEN None ELSE @]
    <3>1. depends'[Top.k] = None /\ \A k \in Caches : k # Top.k => depends'[k] = depends[k]
      BY <1>1, <2>1, <2>4
    <3>2. Len(stack) > 1 => Knows(stack[2], depends')
      BY <1>3, <2>1, <3>1, CachesAre DEF Awaits, Knows, GoodFrame
    <3>3. \A k \in Caches : depends'[k] \in {None, Other(k)}
      BY <1>4, <3>1
    <3>4. \A i \in 2..Len(stack) : stack[i].f # "flush_dependency"
      BY <1>1, <2>1, OneFlushDependency
    <3>5. Returns(TRUE)
      BY <1>1, <2>4
    <3>6. QED BY <1>1, <3>2, <3>3, <3>4, <3>5, ShapePops
  <2>5. QED BY <1>11, <2>3, <2>4 DEF FlushDependencyStep
<1>12. CASE SetDependencyStep
  <2>1. Top.f = "set_dependency" /\ Top.k \in Caches /\ Other(Top.k) \in Caches
    BY <1>3, <1>12, CachesAre DEF SetDependencyStep, In, GoodFrame
  <2>2. CASE /\ Calls(IF depends[Other(Top.k)] = None THEN <<>>
                      ELSE <<FlushDependency(Other(Top.k))>>, "set")
             /\ depends' = depends
    <3>1. CASE depends[Other(Top.k)] = None
      <4>1. Calls(<<>>, "set")
        BY <2>2, <3>1
      <4>2. \A t : SameCall(t, Top) /\ t.at = "set" => GoodFrame(t) /\ Knows(t, depends)
        BY <2>1, <3>1 DEF SameCall, GoodFrame, Knows
      <4>3. QED BY <1>1, <2>2, <4>1, <4>2, ShapeMoves
    <3>2. CASE depends[Other(Top.k)] # None
      <4> DEFINE x == FlushDependency(Other(Top.k))
      <4>1. x.f = "flush_dependency" /\ x.k = Other(Top.k) /\ x.at = "start"
        BY DEF FlushDependency, Frame
      <4>2. Calls(<<x>>, "set") /\ depends[x.k] = Other(x.k) /\ depends' = depends
        BY <1>4, <2>1, <2>2, <3>2, <4>1
      <4> HIDE DEF x
      <4> DEFINE t == [Top EXCEPT !.at = "set"]
      <4>3. /\ stack' = <<x, t>> \o Tail(stack) /\ SameCall(t, Top)
            /\ t.at = "set" /\ t.todo = Top.todo
        BY <1>1, <4>2, CallCalls DEF Calls
      <4> HIDE DEF t
      <4>4. GoodFrame(t) /\ GoodFrame(x) /\ Awaits(t, x) /\ Knows(x, depends) /\ ret' = TRUE
        BY <2>1, <4>1, <4>2, <4>3 DEF GoodFrame, Awaits, Knows, SameCall, Calls
      <4>5. QED BY <1>1, <4>2, <4>3, <4>4, ShapePushes
    <3>3. QED BY <3>1, <3>2
  <2>3. CASE /\ In("set_dependency", "set") /\ Returns(ret)
             /\ depends' = [depends EXCEPT ![Top.k] = IF ret THEN Other(Top.k) ELSE @]
    <3>1. /\ depends'[Top.k] = Other(Top.k)
          /\ \A k \in Caches : k # Top.k => depends'[k] = depends[k]
      BY <1>1, <2>1, <2>3
    <3>2. Len(stack) > 1 => stack[2].f = "update_refcount" /\ Top.k = "ref"
      BY <1>3, <2>1 DEF Awaits
    <3>3. Len(stack) > 1 => Knows(stack[2], depends')
      BY <3>1, <3>2, CachesAre DEF Knows
    <3>4. \A k \in Caches : depends'[k] \in {None, Other(k)}
      BY <1>4, <3>1
    <3>5. Len(stack) \in Nat /\ Len(stack) <= 2
      <4>1. Len(stack) > 2 => FALSE
        BY <1>3, <1>1, StackIs, <3>2 DEF Awaits
      <4>2. QED BY <1>1, <4>1, StackIs
    <3>6. \A i \in 2..Len(stack) : i = 2
      BY <3>5
    <3>7. Returns(TRUE)
      BY <1>1, <2>3
    <3>8. QED BY <1>1, <3>2, <3>3, <3>4, <3>5, <3>6, <3>7, ShapePops
  <2>4. QED BY <1>12, <2>2, <2>3 DEF SetDependencyStep
<1>13. CASE UpdateRefcountStep
  <2>1. /\ Top.f = "update_refcount" /\ Top.k \in {-1, 1} /\ Top.e \in Clusters
        /\ depends' = depends
    BY <1>3, <1>13 DEF UpdateRefcountStep, In, GoodFrame
  <2>2. CASE Calls(IF Top.k < 0 THEN <<SetDependency("ref")>> ELSE <<>>, "apply")
    <3>1. CASE Top.k = 1
      <4>1. Calls(<<>>, "apply")
        BY <2>2, <3>1
      <4>2. \A t : SameCall(t, Top) /\ t.at = "apply" => GoodFrame(t) /\ Knows(t, depends)
        BY <2>1, <3>1 DEF SameCall, GoodFrame, Knows
      <4>3. QED BY <1>1, <2>1, <4>1, <4>2, ShapeMoves
    <3>2. CASE Top.k = -1
      <4> DEFINE x == SetDependency("ref")
      <4>1. x.f = "set_dependency" /\ x.k = "ref" /\ x.at = "start"
        BY DEF SetDependency, Frame
      <4>2. Calls(<<x>>, "apply")
        BY <2>2, <3>2
      <4> HIDE DEF x
      <4> DEFINE t == [Top EXCEPT !.at = "apply"]
      <4>3. /\ stack' = <<x, t>> \o Tail(stack) /\ SameCall(t, Top)
            /\ t.at = "apply" /\ t.todo = Top.todo
        BY <1>1, <4>2, CallCalls DEF Calls
      <4> HIDE DEF t
      <4>4. GoodFrame(t) /\ GoodFrame(x) /\ Awaits(t, x) /\ Knows(x, depends) /\ ret' = TRUE
        BY <2>1, <3>2, <4>1, <4>2, <4>3, CachesAre
        DEF GoodFrame, Awaits, Knows, SameCall, Calls
      <4>5. QED BY <1>1, <2>1, <4>1, <4>2, <4>3, <4>4, ShapePushes
    <3>3. QED BY <2>1, <3>1, <3>2
  <2>3. CASE In("update_refcount", "apply") /\ Calls(PutFrames("ref", 0), "put")
    <3>1. CASE ~ writethrough
      <4>1. Calls(<<>>, "put")
        BY <2>3, <3>1 DEF PutFrames
      <4>2. \A t : SameCall(t, Top) /\ t.at = "put" => GoodFrame(t) /\ Knows(t, depends)
        BY <2>1, <3>1 DEF SameCall, GoodFrame, Knows
      <4>3. QED BY <1>1, <2>1, <4>1, <4>2, ShapeMoves
    <3>2. CASE writethrough
      <4> DEFINE x == EntryFlush("ref", 0)
      <4>1. x.f = "entry_flush" /\ x.k = "ref" /\ x.at = "start"
        BY DEF EntryFlush, Frame
      <4>2. Calls(<<x>>, "put")
        BY <2>3, <3>2 DEF PutFrames
      <4> HIDE DEF x
      <4> DEFINE t == [Top EXCEPT !.at = "put"]
      <4>3. /\ stack' = <<x, t>> \o Tail(stack) /\ SameCall(t, Top)
            /\ t.at = "put" /\ t.todo = Top.todo
        BY <1>1, <4>2, CallCalls DEF Calls
      <4> HIDE DEF t
      <4>4. GoodFrame(t) /\ GoodFrame(x) /\ Awaits(t, x) /\ Knows(x, depends) /\ ret' = TRUE
        BY <2>1, <3>2, <4>1, <4>2, <4>3, CachesAre
        DEF GoodFrame, Awaits, Knows, SameCall, Calls
      <4>5. QED BY <1>1, <2>1, <4>1, <4>2, <4>3, <4>4, ShapePushes
    <3>3. QED BY <3>1, <3>2
  <2>4. CASE Returns(ret)
    <3>1. Len(stack) > 1 => Knows(stack[2], depends')
      BY <1>3, <2>1 DEF Awaits, Knows
    <3>2. Returns(TRUE)
      BY <1>1, <2>4
    <3>3. QED BY <1>1, <1>4, <1>5, <2>1, <3>1, <3>2, ShapePops
  <2>5. QED BY <1>13, <2>2, <2>3, <2>4 DEF UpdateRefcountStep
<1>14. QED
  BY <1>6, <1>7, <1>8, <1>9, <1>10, <1>11, <1>12, <1>13 DEF CallStep
(* A call returns, goes on or makes another.                               *)
LEMMA CallForms ==
  ASSUME OnlyDataFails, ShapeInv, DependInv, CallStep
  PROVE  /\ stack # <<>> /\ StackType /\ Top = stack[1] /\ GoodFrame(Top)
         /\ UNCHANGED <<lock, requests, ghosts, snap, l1, l2, writethrough, errors>>
         /\ \/ /\ Returns(TRUE)
               /\ Top.f = "update_refcount" => Top.at = "put"
            \/ \E at : /\ Calls(<<>>, at)
                       /\ Top.f = "update_refcount" => <<Top.at, at>> \in {<<"start", "apply">>, <<"apply", "put">>}
            \/ \E x, t : /\ stack' = <<x, t>> \o Tail(stack) /\ SameCall(t, Top)
                         /\ Top.f = "update_refcount" => <<Top.at, t.at>> \in {<<"start", "apply">>, <<"apply", "put">>}
<1>1. /\ StackType /\ ret = TRUE /\ stack # <<>>
      /\ UNCHANGED <<lock, requests, ghosts, snap, l1, l2, writethrough>>
  BY DEF ShapeInv, DependInv, CallStep, CacheFlushNext, CacheFlushEnd, EntryFlushStart,
         EntryFlushWrite, EntryFlushWritten, FlushDependencyStep, SetDependencyStep,
         UpdateRefcountStep, In, caches, image
<1>2. ~ Fails("table") /\ ~ Fails("flush")
  BY TablesNeverFail
<1>3. Top = stack[1] /\ GoodFrame(Top)
  BY <1>1, TopIs
<1>e. UNCHANGED errors
  BY <1>1, <1>2 DEF CallStep, CacheFlushNext, CacheFlushEnd, EntryFlushStart,
         EntryFlushWrite, EntryFlushWritten, FlushDependencyStep, SetDependencyStep,
         UpdateRefcountStep
<1>4. CASE CacheFlushNext
  <2>1. PICK e \in Top.todo :
          stack' = <<EntryFlush(Top.k, e),
                     [Top EXCEPT !.todo = @ \ {e},
                                 !.at = IF ret THEN @ ELSE "failed"]>> \o Tail(stack)
    BY <1>4 DEF CacheFlushNext
  <2> DEFINE t == [Top EXCEPT !.todo = @ \ {e}, !.at = IF ret THEN @ ELSE "failed"]
             x == EntryFlush(Top.k, e)
  <2>2. Top.f = "cache_flush"
    BY <1>4 DEF CacheFlushNext
  <2>3. SameCall(t, Top)
    <3>1. PICK V : Top \in Frames(V)
      BY <1>1, <1>3, StackIs
    <3>2. QED BY <1>1, <3>1 DEF Frames, SameCall
  <2>4. stack' = <<x, t>> \o Tail(stack)
    BY <2>1
  <2> HIDE DEF x, t
  <2>5. QED BY <1>1, <1>3, <1>e, <2>2, <2>3, <2>4
<1>5. CASE CacheFlushEnd \/ EntryFlushWritten
  <2>1. Returns(TRUE) /\ Top.f # "update_refcount"
    BY <1>1, <1>2, <1>3, <1>5 DEF CacheFlushEnd, EntryFlushWritten, In, GoodFrame
  <2>2. QED BY <1>1, <1>3, <1>e, <2>1
<1> DEFINE Made(x, at) == stack' = <<x>> \o <<[Top EXCEPT !.at = at]>> \o Tail(stack)
<1>6. ASSUME NEW x, NEW at, Made(x, at),
             Top.f = "update_refcount" => <<Top.at, at>> \in {<<"start", "apply">>, <<"apply", "put">>}
      PROVE  \E y, t : /\ stack' = <<y, t>> \o Tail(stack) /\ SameCall(t, Top)
                       /\ Top.f = "update_refcount" => <<Top.at, t.at>> \in {<<"start", "apply">>, <<"apply", "put">>}
  <2> DEFINE t == [Top EXCEPT !.at = at]
  <2>1. stack' = <<x, t>> \o Tail(stack) /\ SameCall(t, Top) /\ t.at = at
    BY <1>1, <1>6, CallCalls
  <2> HIDE DEF t
  <2>2. QED BY <1>6, <2>1
<1>7. CASE EntryFlushStart \/ EntryFlushWrite
  <2>1. Top.f # "update_refcount"
    BY <1>7 DEF EntryFlushStart, EntryFlushWrite, In
  <2>2. \/ Returns(TRUE) \/ Calls(<<>>, "write") \/ Calls(<<>>, "written")
        \/ Made(FlushDependency(Top.k), "write")
    BY <1>1, <1>2, <1>7 DEF EntryFlushStart, EntryFlushWrite, Calls
  <2> HIDE DEF Made
  <2>3. QED BY <1>1, <1>3, <1>e, <1>6, <2>1, <2>2
<1>8. CASE FlushDependencyStep
  <2>1. Top.f # "update_refcount"
    BY <1>8 DEF FlushDependencyStep, In
  <2>2. Returns(TRUE) \/ Made(CacheFlush(depends[Top.k]), "flushed")
    BY <1>1, <1>8 DEF FlushDependencyStep, Calls
  <2> HIDE DEF Made
  <2>3. QED BY <1>1, <1>3, <1>e, <1>6, <2>1, <2>2
<1>9. CASE SetDependencyStep
  <2>1. Top.f # "update_refcount"
    BY <1>9 DEF SetDependencyStep, In
  <2>2. \/ Returns(TRUE) \/ Calls(<<>>, "set")
        \/ Made(FlushDependency(Other(Top.k)), "set")
    BY <1>1, <1>9 DEF SetDependencyStep, Calls
  <2> HIDE DEF Made
  <2>3. QED BY <1>1, <1>3, <1>e, <1>6, <2>1, <2>2
<1>10. CASE UpdateRefcountStep
  <2>1. \/ Returns(TRUE) /\ Top.at = "put"
        \/ Calls(<<>>, "apply") /\ Top.at = "start"
        \/ Calls(<<>>, "put") /\ Top.at = "apply"
        \/ Made(SetDependency("ref"), "apply") /\ Top.at = "start"
        \/ Made(EntryFlush("ref", 0), "put") /\ Top.at = "apply"
    BY <1>1, <1>10 DEF UpdateRefcountStep, In, Calls, PutFrames
  <2> HIDE DEF Made
  <2>2. QED BY <1>1, <1>3, <1>e, <1>6, <2>1
<1>11. QED
  BY <1>4, <1>5, <1>7, <1>8, <1>9, <1>10 DEF CallStep

(* The request's own call stays what it is.                                *)
LEMMA CallOutermost ==
  ASSUME OnlyDataFails, ShapeInv, DependInv, CallStep
  PROVE  /\ stack' # <<>> => SameCall(Outermost', Outermost)
         /\ stack' = <<>> => Top = Outermost /\ Returns(TRUE)
         /\ ~ In("update_refcount", "apply") => \A k, c : Updating(k, c)' <=> Updating(k, c)
         /\ In("update_refcount", "apply") =>
              /\ \A k, c : ~ Updating(k, c)'
              /\ \A k, c : Updating(k, c) <=> k = Top.k /\ c = Top.e
<1>0. stack # <<>> /\ StackType /\ Top = stack[1] /\ GoodFrame(Top) /\ ShapeInv
  BY CallForms
<1>1. /\ Len(stack) \in Nat \ {0} /\ (Len(stack) = 1 => Outermost = Top)
      /\ Len(stack) > 1 => Awaits(stack[2], Top)
  BY <1>0, StackIs, TopIs DEF Outermost
<1>a. Len(stack) > 1 => Top.f # "update_refcount"
  BY <1>1 DEF Awaits
<1>2. CASE Returns(TRUE) /\ (Top.f = "update_refcount" => Top.at = "put")
  <2>1. /\ stack' = <<>> <=> Len(stack) = 1
        /\ stack' # <<>> => Outermost' = Outermost
    BY <1>0, <1>2, CallReturns
  <2>2. \A k, c : Updating(k, c)' <=> Updating(k, c)
    <3>1. CASE stack' = <<>>
      BY <1>1, <1>2, <2>1, <3>1 DEF Updating
    <3>2. CASE stack' # <<>>
      BY <1>0, <2>1, <3>2 DEF Updating
    <3>3. QED BY <3>1, <3>2
  <2>3. ~ In("update_refcount", "apply")
    BY <1>2 DEF In
  <2>4. QED BY <1>1, <1>2, <2>1, <2>2, <2>3 DEF SameCall
<1>3. ASSUME NEW at, Calls(<<>>, at),
             Top.f = "update_refcount" => <<Top.at, at>> \in {<<"start", "apply">>, <<"apply", "put">>}
      PROVE  /\ stack' # <<>> /\ SameCall(Outermost', Outermost)
             /\ Len(stack) # 1 => Outermost' = Outermost
             /\ Len(stack) = 1 => Outermost = Top /\
                  (Top.f = "update_refcount" =>
                     <<Outermost.at, Outermost'.at>> \in {<<"start", "apply">>, <<"apply", "put">>})
  <2>1. /\ stack' # <<>> /\ SameCall(Outermost', Outermost) /\ stack'[1].at = at
        /\ Len(stack) # 1 => Outermost' = Outermost
        /\ Len(stack) = 1 => Outermost' = stack'[1] /\ Outermost = stack[1]
    BY <1>0, <1>3, CallMoves
  <2>2. QED BY <1>0, <1>3, <2>1
<1>4. ASSUME NEW x, NEW t, stack' = <<x, t>> \o Tail(stack), SameCall(t, Top),
             Top.f = "update_refcount" => <<Top.at, t.at>> \in {<<"start", "apply">>, <<"apply", "put">>}
      PROVE  /\ stack' # <<>> /\ SameCall(Outermost', Outermost)
             /\ Len(stack) # 1 => Outermost' = Outermost
             /\ Len(stack) = 1 => Outermost = Top /\
                  (Top.f = "update_refcount" =>
                     <<Outermost.at, Outermost'.at>> \in {<<"start", "apply">>, <<"apply", "put">>})
  <2>1. /\ stack' # <<>> /\ SameCall(Outermost', Outermost)
        /\ Len(stack) # 1 => Outermost' = Outermost
        /\ Len(stack) = 1 => Outermost' = t /\ Outermost = stack[1]
    BY <1>0, <1>4, CallPushes
  <2>2. QED BY <1>0, <1>4, <2>1
<1>5. CASE ~ (Returns(TRUE) /\ (Top.f = "update_refcount" => Top.at = "put"))
  <2>1. /\ stack' # <<>> /\ SameCall(Outermost', Outermost)
        /\ Len(stack) # 1 => Outermost' = Outermost
        /\ Len(stack) = 1 => Outermost = Top /\
             (Top.f = "update_refcount" =>
                <<Outermost.at, Outermost'.at>> \in {<<"start", "apply">>, <<"apply", "put">>})
    BY <1>3, <1>4, <1>5, CallForms
  <2>2. CASE Len(stack) = 1
    <3>1. CASE Top.f = "update_refcount"
      BY <1>0, <2>1, <2>2, <3>1 DEF Updating, In, SameCall
    <3>2. CASE Top.f # "update_refcount"
      BY <1>0, <2>1, <2>2, <3>2 DEF Updating, In, SameCall
    <3>3. QED BY <3>1, <3>2
  <2>3. CASE Len(stack) # 1
    <3>1. Outermost' = Outermost /\ Top.f # "update_refcount"
      BY <1>1, <1>a, <2>1, <2>3
    <3>2. \A k, c : Updating(k, c)' <=> Updating(k, c)
      BY <1>0, <2>1, <3>1 DEF Updating
    <3>3. ~ In("update_refcount", "apply")
      BY <3>1 DEF In
    <3>4. QED BY <2>1, <3>2, <3>3
  <2>4. QED BY <2>2, <2>3
<1>6. QED BY <1>2, <1>5

LEMMA CallKeepsOwner ==
  ASSUME OnlyDataFails, ShapeInv, DependInv, OwnerInv, CallStep
  PROVE  OwnerInv'
<1>1. stack # <<>> /\ StackType /\ GoodFrame(Top) /\ UNCHANGED <<lock, requests>>
      /\ depends \in [Caches -> Caches \cup {None}] /\ ret = TRUE
  BY CallForms DEF DependInv, ShapeInv
<1>2. CASE stack' # <<>>
  BY <1>1, <1>2, CallOutermost DEF OwnerInv, OwnerCalls, SameCall, requests
<1>3. CASE stack' = <<>>
  <2>1. Top = Outermost /\ Returns(TRUE)
    BY <1>3, CallOutermost
  <2>2. ASSUME NEW w \in Cos, lock = w, pc[w] = "link" PROVE depends'["l2"] = "ref"
    <3>1. Top.f = "set_dependency" /\ Top.k = "l2"
      BY <1>1, <2>1, <2>2 DEF OwnerInv, OwnerCalls
    <3>2. SetDependencyStep
      BY <3>1 DEF CallStep, CacheFlushNext, CacheFlushEnd, EntryFlushStart,
         EntryFlushWrite, EntryFlushWritten, FlushDependencyStep, UpdateRefcountStep, In
    <3>3. stack' = <<>> => ~ Calls(IF depends[Other(Top.k)] = None THEN <<>>
                      ELSE <<FlushDependency(Other(Top.k))>>, "set")
      <4>1. SUFFICES ASSUME Calls(IF depends[Other(Top.k)] = None THEN <<>>
                                  ELSE <<FlushDependency(Other(Top.k))>>, "set")
                     PROVE  stack' # <<>>
        OBVIOUS
      <4>2. CASE Calls(<<>>, "set")
        BY <1>1, <4>2, CallMoves
      <4>3. CASE Calls(<<FlushDependency(Other(Top.k))>>, "set")
        <5> DEFINE x == FlushDependency(Other(Top.k))
                   t == [Top EXCEPT !.at = "set"]
        <5>1. stack' = <<x>> \o <<t>> \o Tail(stack)
          BY <4>3 DEF Calls
        <5>2. stack' = <<x, t>> \o Tail(stack) /\ SameCall(t, Top)
          BY <1>1, <5>1, CallCalls
        <5> HIDE DEF x, t
        <5>3. QED BY <1>1, <5>2, CallPushes
      <4>4. QED BY <4>1, <4>2, <4>3
    <3>4. depends' = [depends EXCEPT ![Top.k] = IF ret THEN Other(Top.k) ELSE @]
      BY <1>3, <3>2, <3>3 DEF SetDependencyStep
    <3>5. QED BY <1>1, <3>1, <3>4, CachesAre
  <2>3. QED BY <1>1, <1>3, <2>2 DEF OwnerInv, requests
<1>4. QED BY <1>2, <1>3
-----------------------------------------------------------------------------
(* Requests and the stack.                                                 *)

LEMMA GotoIs ==
  ASSUME WaitInv, NEW w \in Cos, NEW l, Goto(w, l)
  PROVE  pc'[w] = l /\ \A o \in Cos : o # w => pc'[o] = pc[o]
BY DEF WaitInv, PlacesType, Goto

LEMMA RequestIs ==
  ASSUME AllInv, NEW w \in Cos
  PROVE  /\ req[w] \in ReqSet /\ req[w].g \in Half /\ req[w].halves \subseteq Half
         /\ req[w].g \in Guest
         /\ m[w].c \in Clusters \cup {0} /\ m[w].alloc \in BOOLEAN
         /\ m[w] = [alloc |-> m[w].alloc, c |-> m[w].c]
         /\ old[w] \in Clusters \cup {0}
         /\ pc[w] \in Locked \cup Unlocked
         /\ lock = w <=> pc[w] \in Locked
         /\ m[w].alloc => pc[w] \in InFlight
<1>1. req[w] \in ReqSet /\ m[w] \in [alloc : BOOLEAN, c : Clusters \cup {0}] /\ old[w] \in Clusters \cup {0}
  BY DEF AllInv, TypeInv
<1>2. req[w].g \in Half /\ req[w].halves \subseteq Half /\ Guest = Half
  BY <1>1 DEF ReqSet, NoRequest, Half, Guest
<1>3. /\ pc[w] \in Locked \cup Unlocked /\ (lock = w <=> pc[w] \in Locked)
      /\ m[w].alloc => pc[w] \in InFlight
  BY DEF AllInv, WaitInv, PlacesType, LockPlaces, AllocPlaces
<1>4. QED BY <1>1, <1>2, <1>3

LEMMA CachedIs ==
  ASSUME AllInv
  PROVE  /\ l1 = file[L1] /\ l1 \in Possible(L1) /\ l1 \in EntrySet
         /\ l1.c # 0 => l1.c \in Tables /\ l1.c \in Clusters
         /\ \A i \in Half : Cached(i) \in EntrySet
         /\ l1.c = 0 => \A i \in Half : Cached(i) = Unallocated
         /\ l1.c # 0 => \A i \in Half : Cached(i) = Entries(l1.c)[i]
         /\ l1.c \in DOMAIN l2 => \A i \in Half : Cached(i) = l2[l1.c][i]
         /\ l1.c # 0 /\ l1.c \notin DOMAIN l2 => \A i \in Half : Cached(i) = file[Cell(l1.c, i)]
         /\ l1.c \in DOMAIN l2 => l1.c # 0
<1>1. l1 = file[L1] /\ l1 \in Possible(L1) /\ l1 \in EntrySet
  BY DEF AllInv, CacheInv, FileInv, Possible
<1>2. l1.c # 0 => l1.c \in Tables /\ l1.c \in Clusters
  BY <1>1, EntriesAre DEF Tables
<1>3. l1.c \in DOMAIN l2 => l1.c # 0
  BY ClustersAre DEF AllInv, CacheInv
<1>4. /\ l1.c = 0 => \A i \in Half : Cached(i) = Unallocated
      /\ l1.c # 0 => \A i \in Half : Cached(i) = Entries(l1.c)[i]
  BY DEF Cached
<1>5. l1.c \in DOMAIN l2 => \A i \in Half : Cached(i) = l2[l1.c][i]
  BY <1>3, <1>4 DEF Entries
<1>6. l1.c # 0 /\ l1.c \notin DOMAIN l2 => \A i \in Half : Cached(i) = file[Cell(l1.c, i)]
  BY <1>4 DEF Entries
<1>7. ASSUME NEW i \in Half PROVE Cached(i) \in EntrySet
  <2>1. CASE l1.c = 0
    BY <1>4, <2>1, EntriesAre
  <2>2. CASE l1.c \in DOMAIN l2
    <3>1. l2[l1.c][i] \in EntrySet
      BY <2>2 DEF AllInv, CacheInv
    <3>2. QED BY <1>5, <2>2, <3>1
  <2>3. CASE l1.c # 0 /\ l1.c \notin DOMAIN l2
    <3>1. Cached(i) = file[Cell(l1.c, i)]
      BY <1>6, <2>3
    <3>2. file[Cell(l1.c, i)] \in Stored(i)
      BY <1>2, <2>3 DEF Stored, Possible
    <3>3. QED BY <3>1, <3>2 DEF AllInv, FileInv
  <2>4. QED BY <2>1, <2>2, <2>3
<1>8. QED BY <1>1, <1>2, <1>3, <1>4, <1>5, <1>6, <1>7

LEMMA RequestCalls ==
  ASSUME AllInv, NEW w \in Cos, depends' = depends, ret' = TRUE,
         \A o \in Cos : pc'[o] # "l2_put", lock' \in {w, None},
         \/ stack' = <<>> /\ (lock' = w => pc'[w] # "link")
         \/ \E x : /\ stack' = <<x>> /\ GoodFrame(x) /\ x.at = "start"
                   /\ x.f # "flush_dependency"
                   /\ OwnerCalls(pc'[w], x, m'[w].c, old'[w])
  PROVE  ShapeInv' /\ OwnerInv'
<1>1. \A k \in Caches : depends[k] \in {None, Other(k)}
  BY DEF AllInv, ShapeInv
<1>2. CASE stack' = <<>> /\ (lock' = w => pc'[w] # "link")
  <2>1. Len(stack') = 0
    BY <1>2
  <2>2. ShapeInv'
    BY <1>1, <1>2, <2>1 DEF ShapeInv, Chained
  <2>3. OwnerInv'
    BY <1>2, QcowAssumption DEF OwnerInv
  <2>4. QED BY <2>2, <2>3
<1>3. ASSUME NEW x, stack' = <<x>>, GoodFrame(x), x.at = "start",
             x.f # "flush_dependency", OwnerCalls(pc'[w], x, m'[w].c, old'[w])
      PROVE  ShapeInv' /\ OwnerInv'
  <2>1. /\ Len(stack') = 1 /\ stack'[1] = x /\ stack' # <<>>
        /\ Top' = x /\ Outermost' = x
    BY <1>3, CallStarts
  <2>2. Knows(x, depends)
    BY <1>3 DEF Knows
  <2>3. \A i \in 1..1 : i = 1
    OBVIOUS
  <2>4. Chained'
    BY <1>3, <2>1, <2>3 DEF Chained
  <2>5. ShapeInv'
    BY <1>1, <1>3, <2>1, <2>2, <2>3, <2>4 DEF ShapeInv
  <2>6. OwnerInv'
    BY <1>3, <2>1, QcowAssumption DEF OwnerInv
  <2>7. QED BY <2>5, <2>6
<1>4. QED BY <1>2, <1>3

(* The frames of a request's own calls.                                    *)
LEMMA OwnFrames ==
  /\ \A k \in Caches : GoodFrame(CacheFlush(k))
  /\ \A k \in Caches : \A todo : GoodFrame(Frame("cache_flush", k, 0, todo))
  /\ \A k \in Caches : \A e : GoodFrame(EntryFlush(k, e))
  /\ \A k \in Caches : GoodFrame(SetDependency(k))
  /\ \A c \in Clusters, n \in {-1, 1} : GoodFrame(UpdateRefcount(c, n))
BY DEF GoodFrame, CacheFlush, EntryFlush, SetDependency, UpdateRefcount, Frame

LEMMA StackEmpty ==
  ASSUME AllInv, lock = None
  PROVE  stack = <<>>
BY DEF AllInv, DependInv

(* The steps that leave the stack alone.                                   *)
LEMMA SameShape ==
  ASSUME AllInv, NEW w \in Cos, UNCHANGED <<stack, ret, depends, lock>>,
         pc[w] \notin Locked, NEW l \in Unlocked, Goto(w, l),
         \A o \in Cos : o # w => m'[o] = m[o] /\ old'[o] = old[o]
  PROVE  ShapeInv' /\ OwnerInv'
<1>0. WaitInv /\ ShapeInv /\ OwnerInv
  BY DEF AllInv
<1>1. pc'[w] = l /\ \A o \in Cos : o # w => pc'[o] = pc[o]
  BY <1>0, GotoIs
<1>2. l # "l2_put"
  BY DEF Unlocked
<1>3. ShapeInv'
  BY <1>0, <1>1, <1>2 DEF ShapeInv, Chained, Top
<1>4. lock # w
  BY RequestIs
<1>5. OwnerInv'
  BY <1>0, <1>1, <1>4 DEF OwnerInv, Outermost
<1>6. QED BY <1>3, <1>5
LEMMA ProgressKeepsShape ==
  ASSUME OnlyDataFails, AllInv, NEW w \in Cos, Progress(w)
  PROVE  ShapeInv' /\ OwnerInv'
<1> USE DEF calls, caches, requests
<1>0. /\ ret = TRUE /\ WaitInv /\ \A o \in Cos : pc[o] # "l2_put"
      /\ ~ Fails("table") /\ ~ Fails("flush")
  BY TablesNeverFail DEF AllInv, ShapeInv
<1>1. \A l : Goto(w, l) => pc'[w] = l /\ \A o \in Cos : o # w => pc'[o] = pc[o]
  BY <1>0, GotoIs
<1>2. lock = None => stack = <<>>
  BY StackEmpty
<1>l. ASSUME NEW l, Goto(w, l), l # "l2_put" PROVE \A o \in Cos : pc'[o] # "l2_put"
  BY <1>0, <1>1, <1>l
<1>m. ASSUME NEW done, Leave(w, done), stack = <<>> PROVE ShapeInv' /\ OwnerInv'
  <2>1. \A o \in Cos : pc'[o] # "l2_put"
    BY <1>0, <1>m DEF Leave
  <2>2. /\ depends' = depends /\ ret' = TRUE /\ lock' = None /\ stack' = <<>>
    BY <1>0, <1>m DEF Leave
  <2>3. lock' \in {w, None} /\ lock' # w
    BY <2>2, QcowAssumption
  <2>4. QED BY <2>1, <2>2, <2>3, RequestCalls
<1>put. ASSUME NEW e, stack' = PutFrames("l2", e), ret' = TRUE, depends' = depends, lock' = w,
               NEW l, Goto(w, l), l \in {"map", "unlink", "unmapped"}
        PROVE  ShapeInv' /\ OwnerInv'
  <2>0. pc'[w] = l /\ \A o \in Cos : pc'[o] # "l2_put"
    BY <1>1, <1>l, <1>put
  <2>1. CASE stack' = <<>>
    BY <1>put, <2>0, <2>1, RequestCalls
  <2>2. CASE stack' = <<EntryFlush("l2", e)>>
    <3> DEFINE x == EntryFlush("l2", e)
    <3>1. GoodFrame(x) /\ x.at = "start" /\ x.f = "entry_flush"
      BY OwnFrames, CachesAre DEF EntryFlush, Frame
    <3>2. stack' = <<x>>
      BY <2>2
    <3> HIDE DEF x
    <3>3. OwnerCalls(pc'[w], x, m'[w].c, old'[w])
      BY <1>put, <2>0, <3>1 DEF OwnerCalls
    <3>4. QED BY <1>put, <2>0, <3>1, <3>2, <3>3, RequestCalls
  <2>3. QED BY <1>put, <2>1, <2>2 DEF PutFrames
<1>upd. ASSUME NEW c \in Clusters, stack' = <<UpdateRefcount(c, -1)>>, ret' = TRUE,
               depends' = depends, lock' = w,
               NEW l, Goto(w, l), l \in {"table", "done", "unmap_put"}
        PROVE  ShapeInv' /\ OwnerInv'
  <2>0. pc'[w] = l /\ \A o \in Cos : pc'[o] # "l2_put"
    BY <1>1, <1>l, <1>upd
  <2> DEFINE x == UpdateRefcount(c, -1)
  <2>1. GoodFrame(x) /\ x.at = "start" /\ x.f = "update_refcount" /\ x.k = -1
    BY OwnFrames DEF UpdateRefcount, Frame
  <2>2. stack' = <<x>>
    BY <1>upd
  <2> HIDE DEF x
  <2>3. OwnerCalls(pc'[w], x, m'[w].c, old'[w])
    BY <1>upd, <2>0, <2>1 DEF OwnerCalls
  <2>4. QED BY <1>upd, <2>0, <2>1, <2>2, <2>3, RequestCalls
<1>new. ASSUME NEW c \in Clusters, AllocCluster(c), depends' = depends, lock' = w,
               m'[w].c = c,
               NEW l, Goto(w, l), l \in {"l2_flush_refcount", "mapped"}
        PROVE  ShapeInv' /\ OwnerInv'
  <2>0. pc'[w] = l /\ \A o \in Cos : pc'[o] # "l2_put"
    BY <1>1, <1>l, <1>new
  <2> DEFINE x == UpdateRefcount(c, 1)
  <2>1. GoodFrame(x) /\ x.at = "start" /\ x.f = "update_refcount" /\ x.k = 1 /\ x.e = c
    BY OwnFrames DEF UpdateRefcount, Frame
  <2>2. stack' = <<x>> /\ ret' = TRUE
    BY <1>new DEF AllocCluster
  <2> HIDE DEF x
  <2>3. OwnerCalls(pc'[w], x, m'[w].c, old'[w])
    BY <1>new, <2>0, <2>1 DEF OwnerCalls
  <2>4. QED BY <1>new, <2>0, <2>1, <2>2, <2>3, RequestCalls
<1>flush. ASSUME NEW k \in Caches, NEW todo, stack' = <<Frame("cache_flush", k, 0, todo)>>,
                 ret' = TRUE, depends' = depends, lock' = w,
                 NEW l, Goto(w, l),
                 \/ <<k, l>> \in {<<"ref", "l2_copy">>, <<"l2", "l1_write">>}
                 \/ l \in {"flush_ref", "flush_file"}
          PROVE  ShapeInv' /\ OwnerInv'
  <2>0. pc'[w] = l /\ \A o \in Cos : pc'[o] # "l2_put"
    BY <1>1, <1>l, <1>flush
  <2> DEFINE x == Frame("cache_flush", k, 0, todo)
  <2>1. GoodFrame(x) /\ x.at = "start" /\ x.f = "cache_flush" /\ x.k = k
    BY OwnFrames DEF Frame
  <2>2. stack' = <<x>>
    BY <1>flush
  <2> HIDE DEF x
  <2>3. OwnerCalls(pc'[w], x, m'[w].c, old'[w])
    BY <1>flush, <2>0, <2>1 DEF OwnerCalls
  <2>4. QED BY <1>flush, <2>0, <2>1, <2>2, <2>3, RequestCalls
<1>none. ASSUME stack' = <<>>, ret' = ret, depends' = depends, lock' \in {w, None},
                NEW l, Goto(w, l), l \notin {"link", "l2_put"}
         PROVE  ShapeInv' /\ OwnerInv'
  BY <1>0, <1>1, <1>l, <1>none, RequestCalls
<1>3. CASE Enter(w)
  <2>1. /\ stack' = <<>> /\ ret' = ret /\ depends' = depends /\ lock' = w
        /\ \/ Goto(w, "table") \/ Goto(w, "flush_l2") \/ Goto(w, "get")
    BY <1>2, <1>3 DEF Enter
  <2>2. QED BY <1>none, <2>1
<1>4. CASE L2AllocateFailed(w) \/ CallFailed(w)
  BY <1>0, <1>4 DEF L2AllocateFailed, CallFailed
<1>5. CASE Done(w)
  BY <1>5, <1>m DEF Done, Owns
<1>6. CASE GetClusterTable(w)
  <2>1. lock' = w /\ depends' = depends /\ stack = <<>> /\ ret' = TRUE
    BY <1>0, <1>6 DEF GetClusterTable, Owns, AllocCluster
  <2>2. CASE stack' = PutFrames("l2", l1.c) /\ Goto(w, "map")
    BY <1>put, <2>1, <2>2
  <2>3. CASE stack' = stack /\ Goto(w, "unmap")
    BY <1>0, <1>none, <2>1, <2>3
  <2>4. ASSUME NEW c \in Clusters, AllocCluster(c), m' = [m EXCEPT ![w].c = c],
               Goto(w, "l2_flush_refcount")
        PROVE  ShapeInv' /\ OwnerInv'
    <3>1. m'[w].c = c
      BY <2>4 DEF AllInv, TypeInv
    <3>2. QED BY <1>new, <2>1, <2>4, <3>1
  <2>5. QED BY <1>6, <2>2, <2>3, <2>4 DEF GetClusterTable
<1>7. CASE L2FlushRefcount(w)
  <2>1. /\ lock' = w /\ depends' = depends /\ ret' = TRUE /\ Goto(w, "l2_copy")
        /\ stack' = <<Frame("cache_flush", "ref", 0, {d[2] : d \in {x \in dirty : x[1] = "ref"}})>>
    BY <1>0, <1>7 DEF L2FlushRefcount, Owns, CacheFlush
  <2>2. QED BY <1>flush, <2>1, CachesAre
<1>8. CASE L2Copy(w)
  <2>1. /\ lock' = w /\ depends' = depends /\ ret' = TRUE /\ Goto(w, "l1_write")
        /\ stack' = <<Frame("cache_flush", "l2", 0, {d[2] : d \in {x \in dirty' : x[1] = "l2"}})>>
    BY <1>0, <1>8 DEF L2Copy, Owns
  <2>2. QED BY <1>flush, <2>1, CachesAre
<1>9. CASE WriteL1Entry(w)
  <2>1. /\ lock' = w /\ depends' = depends /\ ret' = ret /\ Goto(w, "l1_sync") /\ stack' = <<>>
    BY <1>0, <1>9 DEF WriteL1Entry, Owns
  <2>2. QED BY <1>none, <2>1
<1>10. CASE SyncL1Entry(w)
  <2>1. lock' = w /\ depends' = depends /\ ret' = ret /\ Goto(w, "table")
    BY <1>10 DEF SyncL1Entry, Owns
  <2>2. CASE old[w] = 0
    BY <1>10, <1>none, <2>1, <2>2 DEF SyncL1Entry
  <2>3. CASE old[w] # 0
    <3>1. old[w] \in Clusters /\ stack' = <<UpdateRefcount(old[w], -1)>>
      BY <1>10, <2>3, RequestIs DEF SyncL1Entry
    <3>2. QED BY <1>0, <1>upd, <2>1, <3>1
  <2>4. QED BY <2>2, <2>3
<1>11. CASE AllocClusterOffset(w)
  <2>1. depends' = depends /\ stack = <<>> /\ lock = w
    BY <1>11 DEF AllocClusterOffset, Owns
  <2>2. CASE lock' = None /\ stack' = stack /\ ret' = ret /\ (Goto(w, "data") \/ Goto(w, "waiting"))
    BY <1>none, <2>1, <2>2
  <2>3. ASSUME NEW c \in Clusters, AllocCluster(c),
               m' = [m EXCEPT ![w] = [alloc |-> FALSE, c |-> c]],
               Goto(w, "mapped"), lock' = lock
        PROVE  ShapeInv' /\ OwnerInv'
    <3>1. m'[w].c = c
      BY <2>3 DEF AllInv, TypeInv
    <3>2. QED BY <1>new, <2>1, <2>3, <3>1
  <2>4. QED BY <1>11, <2>2, <2>3 DEF AllocClusterOffset
<1>12. CASE InsertInFlight(w)
  <2>1. depends' = depends /\ stack' = <<>> /\ lock' = None /\ ret' = ret /\ Goto(w, "data")
    BY <1>12 DEF InsertInFlight, Owns
  <2>2. QED BY <1>none, <2>1
<1>13. CASE WriteData(w) \/ CopySectors(w) \/ FlushDisk(w)
  <2>1. /\ UNCHANGED <<stack, ret, depends, lock, m, old>> /\ pc[w] \notin Locked
    BY <1>13 DEF WriteData, CopySectors, FlushDisk, Locked
  <2>2. \E l \in Unlocked : Goto(w, l)
    BY <1>13 DEF WriteData, CopySectors, FlushDisk, Unlocked
  <2>3. QED BY <2>1, <2>2, SameShape
<1>14. CASE Relock(w)
  <2>1. lock = None /\ stack = <<>>
    BY <1>2, <1>14 DEF Relock
  <2>2. CASE \E done : Leave(w, done)
    BY <1>m, <2>1, <2>2
  <2>3. CASE Goto(w, "copy") /\ UNCHANGED <<stack, ret, lock, depends>>
    BY <1>none, <2>1, <2>3
  <2>4. CASE /\ lock' = w /\ stack' = <<SetDependency("l2")>> /\ ret' = TRUE
             /\ Goto(w, "link") /\ depends' = depends
    <3> DEFINE x == SetDependency("l2")
    <3>1. GoodFrame(x) /\ x.at = "start" /\ x.f = "set_dependency" /\ x.k = "l2"
      BY OwnFrames, CachesAre DEF SetDependency, Frame
    <3>2. stack' = <<x>>
      BY <2>4
    <3> HIDE DEF x
    <3>3. pc'[w] = "link" /\ \A o \in Cos : pc'[o] # "l2_put"
      BY <1>1, <1>l, <2>4
    <3>4. OwnerCalls(pc'[w], x, m'[w].c, old'[w])
      BY <3>1, <3>3 DEF OwnerCalls
    <3>5. QED BY <2>4, <3>1, <3>2, <3>3, <3>4, RequestCalls
  <2>5. QED BY <1>14, <2>2, <2>3, <2>4 DEF Relock, Fail
<1>15. CASE LinkL2(w)
  <2>1. /\ lock' = w /\ depends' = depends /\ ret' = TRUE /\ Goto(w, "unlink")
        /\ stack' = PutFrames("l2", l1.c)
    BY <1>15 DEF LinkL2, Owns
  <2>2. QED BY <1>put, <2>1
<1>16. CASE FreeOld(w)
  <2>1. lock' = w /\ depends' = depends /\ ret' = ret /\ Goto(w, "done")
    BY <1>16 DEF FreeOld, Owns
  <2>2. CASE old[w] = 0
    BY <1>16, <1>none, <2>1, <2>2 DEF FreeOld
  <2>3. CASE old[w] # 0
    <3>1. old[w] \in Clusters /\ stack' = <<UpdateRefcount(old[w], -1)>>
      BY <1>16, <2>3, RequestIs DEF FreeOld
    <3>2. QED BY <1>0, <1>upd, <2>1, <3>1
  <2>4. QED BY <2>2, <2>3
<1>17. CASE Unmap(w)
  <2>1. /\ lock' = w /\ depends' = depends /\ ret' = ret /\ Goto(w, "unmap_put") /\ stack = <<>>
        /\ pc[w] = "unmap"
    BY <1>17 DEF Unmap, Owns
  <2>2. CASE L2Entry(w).c = 0
    BY <1>17, <1>none, <2>1, <2>2 DEF Unmap
  <2>3. CASE L2Entry(w).c # 0
    <3>1. L2Entry(w) \in EntrySet
      <4>1. l1.c \in DOMAIN l2
        BY <2>1 DEF AllInv, RequestInv
      <4>2. QED BY <4>1, CachedIs, RequestIs DEF L2Entry
    <3>2. L2Entry(w).c \in Clusters /\ stack' = <<UpdateRefcount(L2Entry(w).c, -1)>>
      BY <1>17, <2>3, <3>1, EntriesAre DEF Unmap
    <3>3. QED BY <1>0, <1>upd, <2>1, <3>2
  <2>4. QED BY <2>2, <2>3
<1>18. CASE UnmapPut(w)
  <2>1. lock' = w /\ depends' = depends /\ stack = <<>>
    BY <1>18 DEF UnmapPut, Owns
  <2>2. \/ stack' = PutFrames("l2", l1.c) /\ ret' = TRUE /\ Goto(w, "unmapped")
        \/ Goto(w, "done") /\ UNCHANGED <<stack, ret>>
    BY <1>18 DEF UnmapPut
  <2>3. QED BY <1>put, <1>none, <2>1, <2>2
<1>19. CASE FlushToOs(w)
  <2>1. depends' = depends /\ stack = <<>> /\ lock = w
    BY <1>19 DEF FlushToOs, Owns
  <2>2. CASE stack' = <<CacheFlush("l2")>> /\ ret' = TRUE /\ Goto(w, "flush_ref") /\ lock' = lock
    BY <1>flush, <2>1, <2>2, CachesAre DEF CacheFlush
  <2>3. CASE stack' = <<CacheFlush("ref")>> /\ ret' = ret /\ Goto(w, "flush_file") /\ lock' = lock
    BY <1>0, <1>flush, <2>1, <2>3, CachesAre DEF CacheFlush
  <2>4. CASE lock' = None /\ Goto(w, "flush_disk") /\ UNCHANGED <<stack, ret>>
    BY <1>none, <2>1, <2>4
  <2>5. QED BY <1>19, <2>2, <2>3, <2>4 DEF FlushToOs
<1>20. CASE Replace(w)
  <2>1. depends' = depends /\ stack = <<>> /\ lock' = w
    BY <1>20 DEF Replace, Owns
  <2>2. CASE Goto(w, "done") /\ UNCHANGED <<stack, ret>>
    BY <1>none, <2>1, <2>2
  <2>3. ASSUME NEW k \in Caches, NEW e \in {0} \cup DOMAIN l2, (k = "ref") <=> (e = 0),
               stack' = <<EntryFlush(k, e)>>, old' = [old EXCEPT ![w] = e], ret' = TRUE,
               Goto(w, "evict")
        PROVE  ShapeInv' /\ OwnerInv'
    <3> DEFINE x == EntryFlush(k, e)
    <3>1. GoodFrame(x) /\ x.at = "start" /\ x.f = "entry_flush" /\ x.k = k /\ x.e = e
      BY OwnFrames DEF EntryFlush, Frame
    <3>2. stack' = <<x>>
      BY <2>3
    <3> HIDE DEF x
    <3>3. pc'[w] = "evict" /\ \A o \in Cos : pc'[o] # "l2_put"
      BY <1>1, <1>l, <2>3
    <3>4. old'[w] = e
      BY <2>3 DEF AllInv, TypeInv
    <3>5. OwnerCalls(pc'[w], x, m'[w].c, old'[w])
      BY <2>3, <3>1, <3>3, <3>4 DEF OwnerCalls
    <3>6. QED BY <2>1, <2>3, <3>1, <3>2, <3>3, <3>5, RequestCalls
  <2>4. QED BY <1>20, <2>2, <2>3 DEF Replace
<1>21. QED
  BY <1>3, <1>4, <1>5, <1>6, <1>7, <1>8, <1>9, <1>10, <1>11, <1>12, <1>13, <1>14,
     <1>15, <1>16, <1>17, <1>18, <1>19, <1>20 DEF Progress

LEMMA OthersKeepShape ==
  /\ AllInv /\ (\E w \in Cos : SubmitAny(w)) => ShapeInv' /\ OwnerInv'
  /\ Init => ShapeInv /\ OwnerInv
  /\ Crash => ShapeInv' /\ OwnerInv'
<1>1. ASSUME AllInv, NEW w \in Cos, SubmitAny(w) PROVE ShapeInv' /\ OwnerInv'
  <2>1. /\ UNCHANGED <<stack, ret, depends, lock, m, old>> /\ pc[w] \notin Locked
        /\ Goto(w, "enter") /\ "enter" \in Unlocked
    BY <1>1 DEF SubmitAny, Submit, Locked, Unlocked, calls, caches
  <2>2. QED BY <1>1, <2>1, SameShape
<1>2. ASSUME Init PROVE ShapeInv /\ OwnerInv
  <2>1. /\ stack = <<>> /\ ret = TRUE /\ depends = [k \in Caches |-> None] /\ lock = None
        /\ \A w \in Cos : pc[w] = "idle"
    BY <1>2 DEF Init, NoDepends
  <2>2. Len(stack) = 0
    BY <2>1
  <2>3. QED BY <2>1, <2>2, QcowAssumption DEF ShapeInv, OwnerInv, Chained
<1>3. ASSUME Crash PROVE ShapeInv' /\ OwnerInv'
  <2>1. /\ stack' = <<>> /\ ret' = TRUE /\ depends' = [k \in Caches |-> None] /\ lock' = None
        /\ \A w \in Cos : pc'[w] = "idle"
    BY <1>3 DEF Crash, NoDepends
  <2>2. Len(stack') = 0
    BY <2>1
  <2>3. QED BY <2>1, <2>2, QcowAssumption DEF ShapeInv, OwnerInv, Chained
<1>4. QED BY <1>1, <1>2, <1>3
-----------------------------------------------------------------------------
(* Types.                                                                  *)

LEMMA FileStays ==
  /\ Flushed => file' = file /\ DOMAIN lost' = Units
  /\ \A ws : Written(ws) => DOMAIN file' = Units /\ DOMAIN lost' = Units
BY DEF Flushed, Written

LEMMA CountsAre ==
  /\ \A c : Bit(Freeing(c)) \in {0, 1} /\ InMemory(c) \in Nat
  /\ \A c : OnDisk(c) \in Nat /\ Anywhere(c) \in Nat
<1>1. ASSUME NEW a, NEW b, NEW c, NEW d
      PROVE  Bit(a) + Bit(b) + Bit(c) + Bit(d) \in Nat
  <2>1. Bit(a) \in {0, 1} /\ Bit(b) \in {0, 1} /\ Bit(c) \in {0, 1} /\ Bit(d) \in {0, 1}
    BY BitIs
  <2>2. QED BY <2>1
<1>2. QED BY <1>1, BitIs DEF InMemory, OnDisk, Anywhere

LEMMA CallKeepsType ==
  ASSUME OnlyDataFails, AllInv, CallStep
  PROVE  TypeInv'
<1>1. /\ stack # <<>> /\ StackType /\ GoodFrame(Top) /\ Top = stack[1] /\ TypeInv /\ ret = TRUE
      /\ UNCHANGED <<lock, requests, ghosts, snap, l1, l2, writethrough, errors>>
  BY CallForms DEF AllInv, ShapeInv
<1>2. DOMAIN file' = Units /\ DOMAIN lost' = Units
  BY <1>1, FileStays DEF TypeInv, CallStep, CacheFlushNext, CacheFlushEnd, EntryFlushStart,
     EntryFlushWrite, EntryFlushWritten, FlushDependencyStep, SetDependencyStep,
     UpdateRefcountStep, image
<1>3. depends_on_flush' \in [Caches -> BOOLEAN]
  <2>1. depends_on_flush \in [Caches -> BOOLEAN] /\ ret \in BOOLEAN
    BY <1>1 DEF TypeInv
  <2>2. \/ depends_on_flush' = depends_on_flush
        \/ \E k : depends_on_flush' = [depends_on_flush EXCEPT ![k] = FALSE]
        \/ depends_on_flush' = [depends_on_flush EXCEPT ![Top.k] = ~ ret /\ @]
    BY DEF CallStep, CacheFlushNext, CacheFlushEnd, EntryFlushStart,
       EntryFlushWrite, EntryFlushWritten, FlushDependencyStep, SetDependencyStep,
       UpdateRefcountStep, caches
  <2>3. QED BY <1>1, <2>1, <2>2
<1>4. refcount' \in [Clusters -> Nat] /\ free_cluster_index' \in Nat \ {0}
  <2>1. CASE UNCHANGED <<refcount, free_cluster_index>>
    BY <1>1, <2>1 DEF TypeInv
  <2>2. CASE /\ In("update_refcount", "apply")
             /\ LET n == refcount[Top.e] + Top.k IN
                /\ refcount' = [refcount EXCEPT ![Top.e] = n]
                /\ free_cluster_index' = IF n = 0 /\ Top.e < free_cluster_index
                                         THEN Top.e ELSE free_cluster_index
    <3>1. Top.e \in Clusters /\ Top.k \in {-1, 1} /\ Top.e \in Nat \ {0}
          /\ refcount \in [Clusters -> Nat] /\ free_cluster_index \in Nat \ {0}
      BY <1>1, <2>2, ClustersAre DEF GoodFrame, In, TypeInv
    <3>2. Top.k = -1 => refcount[Top.e] >= 1
      <4> SUFFICES ASSUME Top.k = -1 PROVE refcount[Top.e] >= 1
        OBVIOUS
      <4>1. Freeing(Top.e)
        <5>1. ShapeInv /\ DependInv
          BY DEF AllInv
        <5>2. Updating(-1, Top.e)
          BY <2>2, <5>1, CallOutermost
        <5>3. QED BY <5>2 DEF Freeing
      <4>2. ~ Held(Top.e)
        <5>1. Held(Top.e) => HeldOk(Top.e)
          BY <3>1 DEF AllInv, CountsInv, HeldInv
        <5>2. QED BY <4>1, <5>1 DEF HeldOk
      <4>3. refcount[Top.e] >= InMemory(Top.e) + Bit(Freeing(Top.e))
        BY <3>1, <4>2 DEF AllInv, CountsInv, CountInv, CountOk
      <4>4. InMemory(Top.e) \in Nat /\ Bit(Freeing(Top.e)) = 1
        BY <4>1, BitIs, CountsAre
      <4>5. QED BY <3>1, <4>3, <4>4
    <3>3. refcount[Top.e] + Top.k \in Nat
      BY <3>1, <3>2
    <3>4. QED BY <2>2, <3>1, <3>3
  <2>3. QED
    BY <2>1, <2>2 DEF CallStep, CacheFlushNext, CacheFlushEnd, EntryFlushStart,
       EntryFlushWrite, EntryFlushWritten, FlushDependencyStep, SetDependencyStep,
       UpdateRefcountStep, caches
<1>5. QED BY <1>1, <1>2, <1>3, <1>4 DEF TypeInv, requests, ghosts

ValuesAre == -1 \in Values /\ 0 \in Values /\ 1 \in Values /\ Values \subseteq Int

LEMMA ValuesOk == ValuesAre
BY QcowAssumption DEF ValuesAre, Values

LEMMA LeaveKeepsType ==
  ASSUME TypeInv, NEW w \in Cos, NEW done, Leave(w, done)
  PROVE  TypeInv'
<1>1. NoMeta \in [alloc : BOOLEAN, c : Clusters \cup {0}] /\ NoRequest \in ReqSet
  BY DEF NoMeta, ReqSet
<1>2. req[w].v \in Values
  <2>1. req[w] \in ReqSet
    BY DEF TypeInv
  <2>2. QED BY <2>1, ValuesOk DEF ReqSet, NoRequest, ValuesAre
<1>3. latest' \in [Sectors -> Values]
  BY <1>2 DEF TypeInv, Leave
<1>4. promise' \in [Sectors -> SUBSET Values]
  BY DEF TypeInv, Leave
<1>5. /\ req' \in [Cos -> ReqSet] /\ m' \in [Cos -> [alloc : BOOLEAN, c : Clusters \cup {0}]]
      /\ old' \in [Cos -> Clusters \cup {0}]
  BY <1>1 DEF TypeInv, Leave
<1>6. /\ DOMAIN file' = Units /\ DOMAIN lost' = Units
      /\ writethrough' \in BOOLEAN /\ snap' \in {0, 1}
      /\ refcount' \in [Clusters -> Nat] /\ free_cluster_index' \in Nat \ {0}
      /\ depends_on_flush' \in [Caches -> BOOLEAN]
      /\ count' \in 1..MaxRequests + 1 /\ crashes' \in Nat /\ errors' \in Nat
  BY DEF TypeInv, Leave, image, caches
<1>7. QED BY <1>3, <1>4, <1>5, <1>6 DEF TypeInv

LEMMA ProgressKeepsType ==
  ASSUME OnlyDataFails, AllInv, NEW w \in Cos, Progress(w)
  PROVE  TypeInv'
<1> USE DEF calls, caches, requests, image, ghosts
<1>0. /\ TypeInv /\ ret = TRUE /\ \A o \in Cos : pc[o] # "l2_put"
  BY DEF AllInv, ShapeInv
<1>1. CASE \E done : Leave(w, done)
  BY <1>0, <1>1, LeaveKeepsType
<1>2. CASE ~ \E done : Leave(w, done)
  <2>0. ~ CallFailed(w) /\ ~ L2AllocateFailed(w) /\ ~ Done(w)
    BY <1>0, <1>2 DEF CallFailed, Fail, L2AllocateFailed, Done
  <2>1. DOMAIN file' = Units /\ DOMAIN lost' = Units
    BY <1>0, <1>2, <2>0, FileStays
    DEF TypeInv, Progress, Enter, GetClusterTable,
         L2FlushRefcount, L2Copy, WriteL1Entry, SyncL1Entry, AllocClusterOffset,
         InsertInFlight, WriteData, Relock, CopySectors, LinkL2, FreeOld,
         Unmap, UnmapPut, FlushToOs, FlushDisk, Replace, Fail
  <2>2. /\ writethrough' = writethrough /\ snap' = snap /\ refcount' = refcount
        /\ latest' = latest /\ count' = count /\ crashes' = crashes
    BY <1>0, <1>2, <2>0
    DEF TypeInv, Progress, Enter, GetClusterTable,
         L2FlushRefcount, L2Copy, WriteL1Entry, SyncL1Entry, AllocClusterOffset,
         InsertInFlight, WriteData, Relock, CopySectors, LinkL2, FreeOld,
         Unmap, UnmapPut, FlushToOs, FlushDisk, Replace, Fail
  <2>3. errors' \in Nat
    <3>1. errors' = errors \/ \E kind : Fails(kind)
      BY <1>0, <1>2, <2>0
      DEF TypeInv, Progress, Enter, GetClusterTable,
         L2FlushRefcount, L2Copy, WriteL1Entry, SyncL1Entry, AllocClusterOffset,
         InsertInFlight, WriteData, Relock, CopySectors, LinkL2, FreeOld,
         Unmap, UnmapPut, FlushToOs, FlushDisk, Replace, Fail
    <3>2. errors \in Nat
      BY <1>0 DEF TypeInv
    <3>3. (\E kind : Fails(kind)) => errors' = errors + 1
      BY DEF Fails
    <3>4. QED BY <3>1, <3>2, <3>3
  <2>4. free_cluster_index' \in Nat \ {0}
    <3>1. \/ free_cluster_index' = free_cluster_index
          \/ \E c \in Clusters : free_cluster_index' = c + 1
      BY <1>0, <1>2, <2>0
      DEF TypeInv, Progress, Enter, GetClusterTable,
         L2FlushRefcount, L2Copy, WriteL1Entry, SyncL1Entry, AllocClusterOffset,
         InsertInFlight, WriteData, Relock, CopySectors, LinkL2, FreeOld,
         Unmap, UnmapPut, FlushToOs, FlushDisk, Replace, Fail, AllocCluster
    <3>2. QED BY <1>0, <3>1, ClustersAre DEF TypeInv
  <2>5. depends_on_flush' \in [Caches -> BOOLEAN]
    <3>1. \/ depends_on_flush' = depends_on_flush
          \/ depends_on_flush' =
             [depends_on_flush EXCEPT !["l2"] = @ \/ pc[w] = "copied"]
      BY <1>0, <1>2, <2>0
      DEF TypeInv, Progress, Enter, GetClusterTable,
         L2FlushRefcount, L2Copy, WriteL1Entry, SyncL1Entry, AllocClusterOffset,
         InsertInFlight, WriteData, Relock, CopySectors, LinkL2, FreeOld,
         Unmap, UnmapPut, FlushToOs, FlushDisk, Replace, Fail
    <3>2. QED BY <1>0, <3>1, CachesAre DEF TypeInv
  <2>6. m' \in [Cos -> [alloc : BOOLEAN, c : Clusters \cup {0}]]
    <3>1. \/ m' = m
          \/ \E c \in Clusters : m' = [m EXCEPT ![w].c = c]
          \/ m' = [m EXCEPT ![w].alloc = TRUE]
          \/ m' = [m EXCEPT ![w] = NoMeta]
          \/ \E c \in Clusters \cup {0} : m' = [m EXCEPT ![w] = [alloc |-> FALSE, c |-> c]]
      <4>1. CASE AllocClusterOffset(w)
        <5>1. L2Entry(w).c \in Clusters \cup {0}
          <6>1. l1.c \in DOMAIN l2
            BY <4>1 DEF AllInv, RequestInv, AllocClusterOffset
          <6>2. Cached(req[w].g) \in EntrySet /\ L2Entry(w) = Cached(req[w].g)
            <7>1. req[w].g \in Half
              BY RequestIs
            <7>2. QED BY <6>1, <7>1, CachedIs DEF L2Entry
          <6>3. QED BY <6>2, EntriesAre
        <5>2. QED BY <4>1, <5>1 DEF AllocClusterOffset
      <4>2. CASE ~ AllocClusterOffset(w)
        BY <1>0, <1>2, <2>0, <4>2
        DEF Progress, Enter, GetClusterTable,
         L2FlushRefcount, L2Copy, WriteL1Entry, SyncL1Entry,
         InsertInFlight, WriteData, Relock, CopySectors, LinkL2, FreeOld,
         Unmap, UnmapPut, FlushToOs, FlushDisk, Replace, Fail
      <4>3. QED BY <4>1, <4>2
    <3>2. m \in [Cos -> [alloc : BOOLEAN, c : Clusters \cup {0}]]
      BY <1>0 DEF TypeInv
    <3>3. NoMeta \in [alloc : BOOLEAN, c : Clusters \cup {0}]
      BY DEF NoMeta
    <3>4. CASE m' = m \/ m' = [m EXCEPT ![w] = NoMeta]
      BY <3>2, <3>3, <3>4
    <3>5. CASE m' = [m EXCEPT ![w].alloc = TRUE]
      BY <3>2, <3>5
    <3>6. ASSUME NEW c \in Clusters, m' = [m EXCEPT ![w].c = c]
          PROVE  m' \in [Cos -> [alloc : BOOLEAN, c : Clusters \cup {0}]]
      BY <3>2, <3>6
    <3>7. ASSUME NEW c \in Clusters \cup {0}, m' = [m EXCEPT ![w] = [alloc |-> FALSE, c |-> c]]
          PROVE  m' \in [Cos -> [alloc : BOOLEAN, c : Clusters \cup {0}]]
      BY <3>2, <3>7
    <3>8. QED BY <3>1, <3>4, <3>5, <3>6, <3>7
  <2>7. old' \in [Cos -> Clusters \cup {0}]
    <3>1. \/ old' = old
          \/ \E e \in {0} \cup DOMAIN l2 : old' = [old EXCEPT ![w] = e]
          \/ old' = [old EXCEPT ![w] = l1.c]
          \/ old' = [old EXCEPT ![w] = 0]
          \/ LinkL2(w)
      BY <1>0, <1>2, <2>0
      DEF Progress, Enter, GetClusterTable,
         L2FlushRefcount, L2Copy, WriteL1Entry, SyncL1Entry, AllocClusterOffset,
         InsertInFlight, WriteData, Relock, CopySectors, FreeOld,
         Unmap, UnmapPut, FlushToOs, FlushDisk, Replace, Fail
    <3>2. LinkL2(w) => \E c \in Clusters \cup {0} : old' = [old EXCEPT ![w] = c]
      <4> SUFFICES ASSUME LinkL2(w) PROVE Entries(l1.c)[req[w].g].c \in Clusters \cup {0}
        BY DEF LinkL2
      <4>1. l1.flag = "copied"
        BY DEF LinkL2, AllInv, RequestInv, Mapped
      <4>2. l1.c # 0
        BY <4>1, CachedIs, EntriesAre
      <4>3. Cached(req[w].g) \in EntrySet /\ Entries(l1.c)[req[w].g] = Cached(req[w].g)
        <5>1. req[w].g \in Half
          BY RequestIs
        <5>2. QED BY <4>2, <5>1, CachedIs
      <4>4. QED BY <4>3, EntriesAre
    <3>3. l1.c \in Clusters \cup {0} /\ DOMAIN l2 \subseteq Clusters
      BY CachedIs, EntriesAre DEF AllInv, CacheInv
    <3>4. old \in [Cos -> Clusters \cup {0}]
      BY <1>0 DEF TypeInv
    <3>5. QED BY <3>1, <3>2, <3>3, <3>4
  <2>8. req' \in [Cos -> ReqSet]
    <3>1. req' = req \/ req' = [req EXCEPT ![w] = NoRequest]
      BY <1>0, <1>2, <2>0
      DEF Progress, Enter, GetClusterTable,
         L2FlushRefcount, L2Copy, WriteL1Entry, SyncL1Entry, AllocClusterOffset,
         InsertInFlight, WriteData, Relock, CopySectors, FreeOld, LinkL2,
         Unmap, UnmapPut, FlushToOs, FlushDisk, Replace, Fail
    <3>2. QED BY <1>0, <3>1 DEF TypeInv, ReqSet
  <2>9. promise' \in [Sectors -> SUBSET Values]
    <3>1. promise' = promise
          \/ promise' = [x \in Sectors |-> {v \in promise[x] : v >= req[w].floor[x]}]
      BY <1>0, <1>2, <2>0
      DEF Progress, Enter, GetClusterTable,
         L2FlushRefcount, L2Copy, WriteL1Entry, SyncL1Entry, AllocClusterOffset,
         InsertInFlight, WriteData, Relock, CopySectors, FreeOld, LinkL2,
         Unmap, UnmapPut, FlushToOs, FlushDisk, Replace, Fail
    <3>2. QED BY <1>0, <3>1 DEF TypeInv
  <2>10. QED
    BY <1>0, <2>1, <2>2, <2>3, <2>4, <2>5, <2>6, <2>7, <2>8, <2>9 DEF TypeInv
<1>3. QED BY <1>1, <1>2

LEMMA SubmitKeepsType ==
  ASSUME AllInv, NEW w \in Cos, SubmitAny(w)
  PROVE  TypeInv'
<1>0. /\ TypeInv /\ -1 \in Values /\ Half # {}
      /\ req \in [Cos -> ReqSet] /\ promise \in [Sectors -> SUBSET Values]
      /\ latest \in [Sectors -> Values]
  BY ValuesOk DEF AllInv, TypeInv, ValuesAre, Half
<1>1. PICK op, g, halves : /\ Submit(w, op, g, halves) /\ g \in Guest /\ halves \subseteq Half
                           /\ op \in {"write", "discard", "flush", "read"}
  <2>1. 0 \in Guest
    BY DEF Guest
  <2>2. QED BY <2>1 DEF SubmitAny
<1> DEFINE gone == IF op = "discard" THEN {g} \X halves ELSE {}
           forget(f) == [x \in Sectors |-> IF x \in gone THEN -1 ELSE f[x]]
<1>2. count + 1 \in Values /\ count + 1 \in 1..MaxRequests + 1 /\ count' = count + 1
  BY <1>0, <1>1, QcowAssumption DEF TypeInv, Submit, Values
<1>3. latest' = forget(latest)
  BY <1>1 DEF Submit
<1>4. latest' \in [Sectors -> Values]
  BY <1>0, <1>3
<1>5. req' \in [Cos -> ReqSet]
  <2>1. req' = [o \in Cos |->
             IF o = w THEN [op |-> op, g |-> g, halves |-> halves,
                            v |-> count + 1, floor |-> latest']
             ELSE IF req[o].op = "none" THEN req[o]
             ELSE [req[o] EXCEPT !.floor = forget(@)]]
    BY <1>1 DEF Submit
  <2>2. [op |-> op, g |-> g, halves |-> halves, v |-> count + 1, floor |-> latest'] \in ReqSet
    BY <1>1, <1>2, <1>4 DEF ReqSet
  <2>3. ASSUME NEW o \in Cos, req[o].op # "none"
        PROVE  [req[o] EXCEPT !.floor = forget(@)] \in ReqSet
    <3>1. req[o] \in [op : {"write", "discard", "flush", "read"}, g : Guest,
                      halves : SUBSET Half, v : Values, floor : [Sectors -> Values]]
      BY <1>0, <2>3 DEF ReqSet, NoRequest
    <3>2. forget(req[o].floor) \in [Sectors -> Values]
      BY <1>0, <3>1
    <3> HIDE DEF forget
    <3>3. QED BY <3>1, <3>2 DEF ReqSet
  <2> HIDE DEF forget
  <2>4. QED BY <1>0, <2>1, <2>2, <2>3
<1>6. promise' \in [Sectors -> SUBSET Values]
  BY <1>0, <1>1, <1>2 DEF Submit
<1>7. QED
  BY <1>0, <1>1, <1>2, <1>4, <1>5, <1>6 DEF Submit, TypeInv, image, caches

(* What a sector reads as is a value the guest wrote, or not its data.     *)
LEMMA ReadsAre ==
  ASSUME NEW img, NEW t, NEW g \in Half, NEW h \in Half,
         t # 0 => img[Cell(t, g)] \in EntrySet \cup DataSet,
         \A e \in EntrySet : e.c # 0 => img[Cell(e.c, h)] \in EntrySet \cup DataSet
  PROVE  Reads(img, t, g, h) \in Values
<1>1. -1 \in Values /\ 0 \in Values
  BY ValuesOk DEF ValuesAre
<1>2. ASSUME NEW x \in EntrySet \cup DataSet
      PROVE  (IsEntry(x) => x \in EntrySet) /\ (~ IsEntry(x) => x.v \in Values)
  <2>1. x \in DataSet => ~ IsEntry(x) /\ x.v \in Values
    BY DEF DataSet, IsEntry
  <2>2. x \in EntrySet => IsEntry(x)
    BY DEF EntrySet, IsEntry, Unallocated, Entry
  <2>3. QED BY <2>1, <2>2
<1>3. QED BY <1>1, <1>2 DEF Reads
-----------------------------------------------------------------------------
(* What steps do to the file.                                              *)

(* Nothing is written, and a flush may have made something durable.        *)
Settled ==
  file' = file /\ DOMAIN lost' = Units /\ \A u \in Units : lost'[u] \subseteq lost[u]

LEMMA FlushSettles == Flushed => Settled
BY DEF Flushed, Settled

LEMMA SettledMeans ==
  ASSUME Settled
  PROVE  \A u \in Units : Possible(u)' \subseteq Possible(u)
BY DEF Settled, Possible

LEMMA PossibleIs == \A u : file[u] \in Possible(u) /\ (lost[u] = {} => Possible(u) = {file[u]})
BY DEF Possible

LEMMA TablesClusters ==
  ASSUME FileInv
  PROVE  /\ Tables \subseteq Clusters
         /\ \A i \in Half, t \in Tables : Possible(Cell(t, i)) \subseteq Stored(i)
         /\ \A i \in Half : \A e \in Stored(i) : \E t \in Tables : e \in Possible(Cell(t, i))
<1>1. Tables \subseteq Clusters
  BY EntriesAre DEF FileInv, Tables
<1>2. \A i \in Half, t \in Tables : Possible(Cell(t, i)) \subseteq Stored(i)
  BY DEF Stored
<1>3. \A i \in Half : \A e \in Stored(i) : \E t \in Tables : e \in Possible(Cell(t, i))
  BY DEF Stored
<1>4. QED BY <1>1, <1>2, <1>3

LEMMA ShrinkTables ==
  ASSUME FileInv, \A u \in Units : Possible(u)' \subseteq Possible(u)
  PROVE  /\ Tables' \subseteq Tables
         /\ \A i \in Half : Stored(i)' \subseteq Stored(i)
<1>1. Tables' \subseteq Tables
  BY UnitsAre DEF Tables
<1>2. ASSUME NEW i \in Half, NEW t \in Tables
      PROVE  Possible(Cell(t, i))' \subseteq Possible(Cell(t, i))
  BY TablesClusters, UnitsAre
<1>3. ASSUME NEW i \in Half PROVE Stored(i)' \subseteq Stored(i)
  BY <1>1, <1>2 DEF Stored
<1>4. QED BY <1>1, <1>3

LEMMA ShrinkKeepsFile ==
  ASSUME FileInv, \A u \in Units : Possible(u)' \subseteq Possible(u), snap' = snap,
         snap \in {0, 1}
  PROVE  FileInv'
<1>1. \A i \in Half : Stored(i)' \subseteq Stored(i)
  BY ShrinkTables
<1>2. /\ \A c \in Clusters : Possible(Ref(c))' \subseteq Possible(Ref(c))
      /\ \A c \in Clusters, i \in Half : Possible(Cell(c, i))' \subseteq Possible(Cell(c, i))
      /\ Possible(L1)' \subseteq Possible(L1)
  BY UnitsAre
<1>3. \A c \in Clusters : Possible(Ref(c))' \subseteq Nat
  BY <1>2 DEF FileInv
<1>4. \A c \in Clusters, i \in Half : Possible(Cell(c, i))' \subseteq EntrySet \cup DataSet
  BY <1>2 DEF FileInv
<1>5. \A e \in Possible(L1)' : /\ e \in EntrySet
                               /\ e.flag = "copied" \/ (e.flag = "none" /\ e.c \in {0, snap'})
  BY <1>2 DEF FileInv
<1>6. \A i \in Half : Stored(i)' \subseteq EntrySet
  BY <1>1 DEF FileInv
<1>7. ASSUME snap' # 0
      PROVE  /\ Possible(Cell(1, 0))' = {Entry(2, "none")}
             /\ Possible(Cell(1, 1))' = {Unallocated}
             /\ \A h \in Half : Possible(Cell(2, h))' = {Data(1)}
  <2>1. /\ Possible(Cell(1, 0)) = {Entry(2, "none")}
        /\ Possible(Cell(1, 1)) = {Unallocated}
        /\ \A h \in Half : Possible(Cell(2, h)) = {Data(1)}
    BY <1>7 DEF FileInv
  <2>2. 1 \in Clusters /\ 2 \in Clusters /\ 0 \in Half /\ 1 \in Half
    BY ClustersAre DEF Half
  <2>3. /\ Possible(Cell(1, 0))' \subseteq Possible(Cell(1, 0))
        /\ Possible(Cell(1, 1))' \subseteq Possible(Cell(1, 1))
        /\ \A h \in Half : Possible(Cell(2, h))' \subseteq Possible(Cell(2, h))
    BY <1>2, <2>2
  <2>4. \A u : Possible(u)' # {}
    BY DEF Possible
  <2>5. QED BY <2>1, <2>3, <2>4
<1>8. QED BY <1>3, <1>4, <1>5, <1>6, <1>7 DEF FileInv

-----------------------------------------------------------------------------
(* Clusters that are apart from all tables.                                *)

Apart(c) ==
  /\ c \in Clusters /\ c \notin Tables /\ c # l1.c /\ c \notin DOMAIN l2
  /\ snap = 0 \/ c \notin {1, 2}

LEMMA TablesAre ==
  ASSUME AllInv
  PROVE  /\ \A t \in Tables : t = l1.c \/ \E o \in Cos : pc[o] = "l1_sync" /\ old[o] = t
         /\ (\A o \in Cos : pc[o] # "l1_sync") => /\ Possible(L1) = {l1}
                                                  /\ Tables = {l1.c} \ {0}
         /\ \A t \in DOMAIN l2 : \/ t = l1.c
                                 \/ snap = 1 /\ t = 1
                                 \/ \E o \in Cos : pc[o] = "l1_write" /\ m[o].c = t
<1>1. /\ l1 = file[L1] /\ snap \in {0, 1}
      /\ \A e \in lost[L1] : \E o \in Cos : pc[o] = "l1_sync" /\ e.c = old[o]
  BY DEF AllInv, CacheInv, TypeInv
<1>2. \A t \in DOMAIN l2 : /\ t \in {l1.c, snap} \/ \E o \in Cos : pc[o] = "l1_write" /\ m[o].c = t
                           /\ t \in Clusters
  BY DEF AllInv, CacheInv
<1>3. \A t \in DOMAIN l2 : t # 0
  BY <1>2, ClustersAre
<1>4. \A t \in Tables : t = l1.c \/ \E o \in Cos : pc[o] = "l1_sync" /\ old[o] = t
  BY <1>1 DEF Tables, Possible
<1>5. (\A o \in Cos : pc[o] # "l1_sync") => /\ Possible(L1) = {l1}
                                            /\ Tables = {l1.c} \ {0}
  BY <1>1 DEF Tables, Possible
<1>6. QED BY <1>1, <1>2, <1>3, <1>4, <1>5

LEMMA SumZero ==
  ASSUME NEW a, NEW b, NEW c, NEW d
  PROVE  /\ Bit(a) + Bit(b) + Bit(c) + Bit(d) = 0 <=> ~ a /\ ~ b /\ ~ c /\ ~ d
         /\ Bit(a) + Bit(b) + Bit(c) + Bit(d) <= 1 =>
              ~ (a /\ b) /\ ~ (a /\ c) /\ ~ (a /\ d) /\ ~ (b /\ c) /\ ~ (b /\ d) /\ ~ (c /\ d)
BY DEF Bit

LEMMA NotInMemory ==
  \A c : InMemory(c) = 0 <=>
    l1.c # c /\ Cached(0).c # c /\ Cached(1).c # c /\ ~ BySnap(c)
BY DEF InMemory, Bit

LEMMA HeldIs ==
  ASSUME AllInv, NEW w \in Cos, Holds(w)
  PROVE  /\ m[w].c \in Clusters /\ m[w].c \notin Tables /\ ~ BySnap(m[w].c)
         /\ l1.c # m[w].c /\ \A i \in Half : Cached(i).c # m[w].c
         /\ pc[w] # "l1_write" => Apart(m[w].c)
         /\ ~ Freeing(m[w].c)
<1>1. m[w].c \in Clusters /\ InMemory(m[w].c) = 0 /\ ~ Freeing(m[w].c)
  BY DEF AllInv, CountsInv, HeldInv, HeldOk, Held
<1>2. ~ BySnap(m[w].c) /\ l1.c # m[w].c /\ \A i \in Half : Cached(i).c # m[w].c
  BY <1>1, NotInMemory DEF Half
<1>3. m[w].c \notin Tables
  BY <1>1, <1>2, TablesAre DEF Freeing
<1>4. ASSUME pc[w] # "l1_write" PROVE Apart(m[w].c)
  <2>1. m[w].c \notin DOMAIN l2
    <3> SUFFICES ASSUME m[w].c \in DOMAIN l2 PROVE FALSE
      OBVIOUS
    <3>1. \E o \in Cos : pc[o] = "l1_write" /\ m[o].c = m[w].c
      BY <1>2, TablesAre DEF BySnap
    <3>2. PICK o \in Cos : pc[o] = "l1_write" /\ m[o].c = m[w].c
      BY <3>1
    <3>3. Holds(o)
      BY <3>2 DEF Holds
    <3>4. QED BY <1>4, <3>2, <3>3 DEF AllInv, CountsInv, HeldInv
  <2>2. QED BY <1>1, <1>2, <1>3, <2>1 DEF Apart, BySnap
<1>5. QED BY <1>1, <1>2, <1>3, <1>4

(* A cluster with the flag COPIED in the table is apart from the tables.   *)
LEMMA CopiedApart ==
  ASSUME AllInv, NEW i \in Half, Cached(i).flag = "copied"
  PROVE  /\ Apart(Cached(i).c) /\ \A j \in Half \ {i} : Cached(j).c # Cached(i).c
<1> DEFINE c == Cached(i).c
<1>1. Cached(i) \in EntrySet /\ c \in Clusters /\ c # 0
  <2>1. Cached(i) \in EntrySet
    BY CachedIs
  <2>2. QED BY <2>1, EntriesAre
<1>2. Anywhere(c) <= 1
  BY DEF AllInv, CountsInv, PrivateInv, AllEntries
<1> DEFINE A == Points(Possible(L1) \cup {l1}, c)
           B(j) == Points(Stored(j) \cup {Cached(j)}, c)
<1>3. B(i)
  BY DEF Points
<1> HIDE DEF c
<1>4. ~ A /\ ~ BySnap(c) /\ \A j \in Half \ {i} : ~ B(j)
  <2>1. Anywhere(c) = Bit(A) + Bit(B(0)) + Bit(B(1)) + Bit(BySnap(c))
    BY DEF Anywhere
  <2> HIDE DEF A, B
  <2>2. QED BY <1>2, <1>3, <2>1, SumZero DEF Half
<1>5. \A j \in Half \ {i} : Cached(j).c # c
  BY <1>4 DEF Points
<1>6. c \notin Tables /\ c # l1.c
  BY <1>4 DEF Tables, Points
<1>7. c \notin DOMAIN l2
  <2> SUFFICES ASSUME c \in DOMAIN l2 PROVE FALSE
    OBVIOUS
  <2>1. \E o \in Cos : pc[o] = "l1_write" /\ m[o].c = c
    BY <1>4, <1>6, TablesAre DEF BySnap
  <2>2. PICK o \in Cos : pc[o] = "l1_write" /\ m[o].c = c
    BY <2>1
  <2>3. Holds(o)
    BY <2>2 DEF Holds
  <2>4. QED BY <2>2, <2>3, HeldIs DEF c
<1>8. QED BY <1>1, <1>4, <1>5, <1>6, <1>7 DEF Apart, BySnap, c

LEMMA DataApart ==
  ASSUME AllInv, NEW w \in Cos, pc[w] \in {"data", "copy"}
  PROVE  Apart(m[w].c)
<1>1. CASE m[w].alloc
  BY <1>1, HeldIs DEF Holds
<1>2. CASE ~ m[w].alloc
  <2>1. pc[w] = "data"
    BY <1>2 DEF AllInv, RequestInv
  <2>2. Cached(req[w].g) = Entry(m[w].c, "copied") /\ req[w].g \in Half
    BY <1>2, <2>1, RequestIs DEF AllInv, RequestInv
  <2>3. QED BY <2>2, CopiedApart, EntriesAre
<1>3. QED BY <1>1, <1>2
LEMMA DataWritten ==
  ASSUME AllInv, NEW c, Apart(c), NEW ws, Written(ws),
         DOMAIN ws \subseteq {Cell(c, h) : h \in Half}, l1' = l1, l2' = l2
  PROVE  /\ \A d \in Clusters : /\ file'[Ref(d)] = file[Ref(d)] /\ lost'[Ref(d)] = lost[Ref(d)]
                                /\ Possible(Ref(d))' = Possible(Ref(d))
         /\ \A t \in Clusters \ {c}, i \in Half :
              /\ file'[Cell(t, i)] = file[Cell(t, i)] /\ lost'[Cell(t, i)] = lost[Cell(t, i)]
              /\ Possible(Cell(t, i))' = Possible(Cell(t, i))
         /\ file'[L1] = file[L1] /\ lost'[L1] = lost[L1] /\ Possible(L1)' = Possible(L1)
         /\ Tables' = Tables
         /\ \A i \in Half : Stored(i)' = Stored(i) /\ Cached(i)' = Cached(i)
         /\ \A i \in Half : \A x \in Possible(Cell(c, i))' :
              x \in Possible(Cell(c, i)) \/ \E u \in DOMAIN ws : x = ws[u]
<1>1. c \in Clusters /\ c \notin Tables /\ c # l1.c /\ c \notin DOMAIN l2
  BY DEF Apart
<1>2. DOMAIN ws \subseteq Units
  BY <1>1, UnitsAre
<1>3. /\ \A u \in Units : u \notin DOMAIN ws =>
              file'[u] = file[u] /\ lost'[u] = lost[u] /\ Possible(u)' = Possible(u)
      /\ \A u \in DOMAIN ws : Possible(u)' \subseteq Possible(u) \cup {ws[u]}
  BY <1>2, WrittenMeans
<1>4. ASSUME NEW d \in Clusters
      PROVE  /\ file'[Ref(d)] = file[Ref(d)] /\ lost'[Ref(d)] = lost[Ref(d)]
             /\ Possible(Ref(d))' = Possible(Ref(d))
  <2>1. Ref(d) \in Units /\ Ref(d) \notin DOMAIN ws
    BY UnitsAre, UnitsDiffer
  <2>2. QED BY <1>3, <2>1
<1>5. ASSUME NEW t \in Clusters \ {c}, NEW i \in Half
      PROVE  /\ file'[Cell(t, i)] = file[Cell(t, i)] /\ lost'[Cell(t, i)] = lost[Cell(t, i)]
             /\ Possible(Cell(t, i))' = Possible(Cell(t, i))
  <2>1. Cell(t, i) \in Units /\ Cell(t, i) \notin DOMAIN ws
    BY UnitsAre, UnitsDiffer
  <2>2. QED BY <1>3, <2>1
<1>6. file'[L1] = file[L1] /\ lost'[L1] = lost[L1] /\ Possible(L1)' = Possible(L1)
  <2>1. L1 \in Units /\ L1 \notin DOMAIN ws
    BY UnitsAre, UnitsDiffer
  <2>2. QED BY <1>3, <2>1
<1>7. Tables' = Tables
  BY <1>6 DEF Tables
<1>8. ASSUME NEW i \in Half PROVE Stored(i)' = Stored(i)
  <2>1. \A t \in Tables : Possible(Cell(t, i))' = Possible(Cell(t, i))
    BY <1>1, <1>5, TablesClusters DEF AllInv
  <2>2. QED BY <1>7, <2>1 DEF Stored
<1>9. ASSUME NEW i \in Half PROVE Cached(i)' = Cached(i)
  <2>1. l1.c # 0 => l1.c \in Clusters
    BY CachedIs
  <2>2. CASE l1.c = 0
    BY <2>2 DEF Cached
  <2>3. CASE l1.c # 0
    <3>1. file'[Cell(l1.c, i)] = file[Cell(l1.c, i)]
      BY <1>1, <1>5, <2>1, <2>3
    <3>2. CASE l1.c \in DOMAIN l2
      BY <2>3, <3>2 DEF Cached, Entries
    <3>3. CASE l1.c \notin DOMAIN l2
      BY <2>3, <3>1, <3>3 DEF Cached, Entries
    <3>4. QED BY <3>2, <3>3
  <2>4. QED BY <2>2, <2>3
<1>10. ASSUME NEW i \in Half, NEW x \in Possible(Cell(c, i))'
       PROVE  x \in Possible(Cell(c, i)) \/ \E u \in DOMAIN ws : x = ws[u]
  <2>1. Cell(c, i) \in Units
    BY <1>1, UnitsAre
  <2>2. QED BY <1>3, <1>10, <2>1
<1>11. QED BY <1>4, <1>5, <1>6, <1>7, <1>8, <1>9, <1>10

LEMMA DataKeepsFile ==
  ASSUME AllInv, NEW c, Apart(c), NEW ws, Written(ws),
         DOMAIN ws \subseteq {Cell(c, h) : h \in Half}, l1' = l1, l2' = l2, snap' = snap,
         \A u \in DOMAIN ws : ws[u] \in EntrySet \cup DataSet
  PROVE  FileInv'
<1>0. FileInv /\ snap \in {0, 1}
  BY DEF AllInv, TypeInv
<1>1. /\ \A d \in Clusters : Possible(Ref(d))' = Possible(Ref(d))
      /\ \A t \in Clusters \ {c}, i \in Half : Possible(Cell(t, i))' = Possible(Cell(t, i))
      /\ Possible(L1)' = Possible(L1)
      /\ \A i \in Half : Stored(i)' = Stored(i)
      /\ \A i \in Half : \A x \in Possible(Cell(c, i))' :
           x \in Possible(Cell(c, i)) \/ \E u \in DOMAIN ws : x = ws[u]
  BY DataWritten
<1>2. \A d \in Clusters : Possible(Ref(d))' \subseteq Nat
  BY <1>0, <1>1 DEF FileInv
<1>3. \A t \in Clusters, i \in Half : Possible(Cell(t, i))' \subseteq EntrySet \cup DataSet
  <2> SUFFICES ASSUME NEW t \in Clusters, NEW i \in Half, NEW x \in Possible(Cell(t, i))'
               PROVE  x \in EntrySet \cup DataSet
    OBVIOUS
  <2>1. Possible(Cell(t, i)) \subseteq EntrySet \cup DataSet
    BY <1>0 DEF FileInv
  <2>2. CASE t = c
    BY <1>1, <2>1, <2>2
  <2>3. CASE t # c
    BY <1>1, <2>1, <2>3
  <2>4. QED BY <2>2, <2>3
<1>4. \A e \in Possible(L1)' : /\ e \in EntrySet
                               /\ e.flag = "copied" \/ (e.flag = "none" /\ e.c \in {0, snap'})
  BY <1>0, <1>1 DEF FileInv
<1>5. \A i \in Half : Stored(i)' \subseteq EntrySet
  BY <1>0, <1>1 DEF FileInv
<1>6. ASSUME snap' # 0
      PROVE  /\ Possible(Cell(1, 0))' = {Entry(2, "none")}
             /\ Possible(Cell(1, 1))' = {Unallocated}
             /\ \A h \in Half : Possible(Cell(2, h))' = {Data(1)}
  <2>1. /\ Possible(Cell(1, 0)) = {Entry(2, "none")}
        /\ Possible(Cell(1, 1)) = {Unallocated}
        /\ \A h \in Half : Possible(Cell(2, h)) = {Data(1)}
    BY <1>0, <1>6 DEF FileInv
  <2>2. 1 \in Clusters \ {c} /\ 2 \in Clusters \ {c} /\ 0 \in Half /\ 1 \in Half
    BY <1>6, ClustersAre DEF Half, Apart
  <2>3. QED BY <1>1, <2>1, <2>2
<1>7. QED BY <1>2, <1>3, <1>4, <1>5, <1>6 DEF FileInv

-----------------------------------------------------------------------------
(* The parts of the image a request changes.                               *)

(* A transfer of the guest's data to cluster c.                            *)
Transfer(c) ==
  \E ws : /\ Written(ws) /\ DOMAIN ws \subseteq {Cell(c, h) : h \in Half}
          /\ \A u \in DOMAIN ws : ws[u] \in EntrySet \cup DataSet

LEMMA WriteDataIs ==
  ASSUME AllInv, NEW w \in Cos, WriteData(w)
  PROVE  Apart(m[w].c) /\ (Settled \/ Transfer(m[w].c))
<1>0. DOMAIN lost = Units
  BY DEF AllInv, TypeInv
<1>1. pc[w] = "data" /\ Apart(m[w].c)
  BY DataApart DEF WriteData
<1>2. CASE UNCHANGED <<file, lost>>
  BY <1>0, <1>1, <1>2 DEF Settled
<1>3. CASE Written([u \in {Cell(m[w].c, h) : h \in req[w].halves} |-> Data(req[w].v)])
  <2> DEFINE ws == [u \in {Cell(m[w].c, h) : h \in req[w].halves} |-> Data(req[w].v)]
  <2>1. req[w].v \in Values
    <3>1. req[w] \in ReqSet
      BY RequestIs
    <3>2. QED BY <3>1, ValuesOk DEF ReqSet, NoRequest, ValuesAre
  <2>2. Data(req[w].v) \in DataSet
    BY <2>1 DEF Data, DataSet
  <2>3. /\ Written(ws) /\ DOMAIN ws \subseteq {Cell(m[w].c, h) : h \in Half}
        /\ \A u \in DOMAIN ws : ws[u] \in EntrySet \cup DataSet
    BY <1>3, <2>2, RequestIs
  <2> HIDE DEF ws
  <2>4. QED BY <1>1, <2>3 DEF Transfer
<1>4. QED BY <1>1, <1>2, <1>3 DEF WriteData

LEMMA CopySectorsIs ==
  ASSUME AllInv, NEW w \in Cos, CopySectors(w)
  PROVE  Apart(m[w].c) /\ (Settled \/ Transfer(m[w].c))
<1>0. DOMAIN lost = Units
  BY DEF AllInv, TypeInv
<1>1. pc[w] = "copy" /\ Apart(m[w].c)
  BY DataApart DEF CopySectors
<1>2. CASE UNCHANGED <<file, lost>>
  BY <1>0, <1>1, <1>2 DEF Settled
<1> DEFINE e == Entries(l1.c)[req[w].g]
           from(h) == IF e.c = 0 THEN Data(0) ELSE file[Cell(e.c, h)]
           rest == Half \ req[w].halves
           ws == [u \in {Cell(m[w].c, h) : h \in rest} |-> from(u[3])]
<1>3. CASE Written(ws)
  <2>1. l1.c # 0
    <3>1. l1.flag = "copied"
      BY <1>1 DEF AllInv, RequestInv, Mapped
    <3>2. QED BY <3>1, CachedIs, EntriesAre
  <2>2. e = Cached(req[w].g) /\ Cached(req[w].g) \in EntrySet
    BY <2>1, CachedIs, RequestIs
  <2> HIDE DEF e
  <2>3. e.c # 0 => e.c \in Clusters
    BY <2>2, EntriesAre
  <2>4. ASSUME NEW h \in Half PROVE from(h) \in EntrySet \cup DataSet
    <3>1. CASE e.c = 0
      BY <3>1, ValuesOk DEF Data, DataSet, ValuesAre
    <3>2. CASE e.c # 0
      <4>1. file[Cell(e.c, h)] \in Possible(Cell(e.c, h))
        BY DEF Possible
      <4>2. Possible(Cell(e.c, h)) \subseteq EntrySet \cup DataSet
        BY <2>3, <3>2 DEF AllInv, FileInv
      <4>3. QED BY <3>2, <4>1, <4>2
    <3>3. QED BY <3>1, <3>2
  <2> HIDE DEF from
  <2>5. /\ DOMAIN ws \subseteq {Cell(m[w].c, h) : h \in Half}
        /\ \A u \in DOMAIN ws : ws[u] \in EntrySet \cup DataSet
    <3>1. \A h : Cell(m[w].c, h)[3] = h
      BY UnitsDiffer
    <3>2. QED BY <2>4, <3>1
  <2> HIDE DEF ws
  <2>6. QED BY <1>1, <1>3, <2>5 DEF Transfer
<1> HIDE DEF ws
<1>4. UNCHANGED <<file, lost>> \/ Written(ws)
  BY DEF CopySectors, ws, rest, from, e
<1>5. QED BY <1>1, <1>2, <1>3, <1>4

LEMMA ProgressImage ==
  ASSUME OnlyDataFails, AllInv, NEW w \in Cos, Progress(w)
  PROVE  /\ UNCHANGED <<snap, refcount, crashes, writethrough>>
         /\ \/ Settled /\ l1' = l1
            \/ /\ Apart(m[w].c) /\ Transfer(m[w].c) /\ pc[w] \in {"data", "copy"}
               /\ UNCHANGED <<l1, l2, dirty, refcount, depends, stack, ret, lock,
                              req, m, old, waits>>
            \/ WriteL1Entry(w)
<1> USE DEF calls, caches, requests, image, ghosts
<1>0. ret = TRUE /\ TypeInv /\ \A o \in Cos : pc[o] # "l2_put"
  BY DEF AllInv, ShapeInv
<1>s. file' = file /\ lost' = lost => Settled
  BY <1>0 DEF Settled, TypeInv
<1>1. CASE \E done : Leave(w, done)
  BY <1>s, <1>1 DEF Leave
<1>2. CASE WriteData(w)
  <2>1. pc[w] \in {"data", "copy"}
    BY <1>2 DEF WriteData
  <2>2. QED BY <1>2, <2>1, WriteDataIs DEF WriteData
<1>3. CASE CopySectors(w)
  <2>1. pc[w] \in {"data", "copy"}
    BY <1>3 DEF CopySectors
  <2>2. QED BY <1>3, <2>1, CopySectorsIs DEF CopySectors
<1>4. CASE WriteL1Entry(w)
  BY <1>4 DEF WriteL1Entry
<1>5. CASE ~ (\E done : Leave(w, done)) /\ ~ WriteData(w) /\ ~ CopySectors(w) /\ ~ WriteL1Entry(w)
  <2>0. ~ CallFailed(w) /\ ~ L2AllocateFailed(w) /\ ~ Done(w)
    BY <1>0, <1>5 DEF CallFailed, Fail, L2AllocateFailed, Done
  <2>1. UNCHANGED <<snap, refcount, crashes, writethrough, l1>>
    BY <1>0, <1>5, <2>0
    DEF Progress, Enter, GetClusterTable,
         L2FlushRefcount, L2Copy, SyncL1Entry, AllocClusterOffset,
         InsertInFlight, Relock, LinkL2, FreeOld,
         Unmap, UnmapPut, FlushToOs, FlushDisk, Replace, Fail
  <2>2. Settled
    BY <1>0, <1>s, <1>5, <2>0, FlushSettles
    DEF Progress, Enter, GetClusterTable,
         L2FlushRefcount, L2Copy, SyncL1Entry, AllocClusterOffset,
         InsertInFlight, Relock, LinkL2, FreeOld,
         Unmap, UnmapPut, FlushToOs, FlushDisk, Replace, Fail
  <2>3. QED BY <2>1, <2>2
<1>6. QED BY <1>1, <1>2, <1>3, <1>4, <1>5
-----------------------------------------------------------------------------
(* Writing an entry of a cache.                                            *)

LEMMA L1Private ==
  ASSUME AllInv, l1.flag = "copied"
  PROVE  /\ l1.c \in Clusters /\ ~ BySnap(l1.c) /\ l1.c # snap /\ Cached(0).c # l1.c
         /\ Cached(1).c # l1.c
<1>1. l1.c \in Clusters /\ l1.c # 0
  BY CachedIs, EntriesAre
<1>2. Anywhere(l1.c) <= 1
  BY DEF AllInv, CountsInv, PrivateInv, AllEntries
<1> DEFINE A == Points(Possible(L1) \cup {l1}, l1.c)
           B(j) == Points(Stored(j) \cup {Cached(j)}, l1.c)
<1>3. A
  BY DEF Points
<1>4. ~ BySnap(l1.c) /\ ~ B(0) /\ ~ B(1)
  <2>1. Anywhere(l1.c) = Bit(A) + Bit(B(0)) + Bit(B(1)) + Bit(BySnap(l1.c))
    BY DEF Anywhere
  <2> HIDE DEF A, B
  <2>2. QED BY <1>2, <1>3, <2>1 DEF Bit
<1>5. Cached(0).c # l1.c /\ Cached(1).c # l1.c
  BY <1>4 DEF Points
<1>6. l1.c # snap
  <2>1. snap \in {0, 1}
    BY DEF AllInv, TypeInv
  <2>2. QED BY <1>1, <1>4, <2>1 DEF BySnap
<1>7. QED BY <1>1, <1>4, <1>5, <1>6

(* A table in the cache that has to be written is not the snapshot's.      *)
LEMMA DirtyTable ==
  ASSUME AllInv, NEW t, <<"l2", t>> \in dirty
  PROVE  /\ t \in DOMAIN l2 /\ t \in Clusters /\ t # snap
         /\ t \in Tables => t = l1.c
         /\ snap # 0 => t \notin {1, 2}
<1>1. t \in DOMAIN l2
  <2>1. dirty \subseteq {<<"ref", 0>>} \cup {<<"l2", x>> : x \in DOMAIN l2}
    BY DEF AllInv, CacheInv
  <2>2. QED BY <2>1
<1>2. t \in Clusters /\ t # snap /\ t # 0
  BY <1>1, ClustersAre DEF AllInv, CacheInv
<1>3. t \in Tables => t = l1.c
  <2>1. \A o \in Cos : pc[o] = "l1_sync" => old[o] \in {0, snap}
    BY DEF AllInv, RequestInv
  <2>2. QED BY <1>2, <2>1, TablesAre
<1>4. ASSUME snap # 0 PROVE t \notin {1, 2}
  <2>0. snap = 1
    BY <1>4 DEF AllInv, TypeInv
  <2>1. CASE t = l1.c
    <3>1. l1.flag = "copied"
      <4>1. l1 \in Possible(L1)
        BY CachedIs
      <4>2. QED BY <1>2, <2>1, <4>1 DEF AllInv, FileInv
    <3>2. QED BY <1>4, <2>1, <3>1, L1Private DEF BySnap
  <2>2. ASSUME NEW o \in Cos, pc[o] = "l1_write", m[o].c = t PROVE t \notin {1, 2}
    <3>1. Holds(o)
      BY <2>2 DEF Holds
    <3>2. QED BY <1>4, <2>2, <3>1, HeldIs DEF BySnap
  <2>3. QED BY <1>1, <1>2, <2>0, <2>1, <2>2, TablesAre
<1>5. QED BY <1>1, <1>2, <1>3, <1>4

LEMMA ContentsAre ==
  /\ \A e : DOMAIN Contents("ref", e) = {Ref(c) : c \in Clusters}
  /\ \A e : \A c \in Clusters : Contents("ref", e)[Ref(c)] = refcount[c]
  /\ \A e : DOMAIN Contents("l2", e) = {Cell(e, i) : i \in Half}
  /\ \A e : \A i \in Half : Contents("l2", e)[Cell(e, i)] = l2[e][i]
BY UnitsDiffer DEF Contents

(* The innermost call and its entry in the cache.                          *)
LEMMA FlushesDirty ==
  ASSUME AllInv, stack # <<>>, Top.f = "entry_flush", Top.at # "start"
  PROVE  /\ <<Top.k, Top.e>> \in dirty /\ Top.k \in Caches
         /\ depends[Top.k] = None
<1>1. ShapeInv /\ StackType /\ FlushInv
  BY DEF AllInv, DependInv
<1>2. Top = stack[1] /\ GoodFrame(Top) /\ Knows(Top, depends) /\ 1 \in 1..Len(stack)
  BY <1>1, TopIs, StackIs
<1>3. <<Top.k, Top.e>> \in dirty
  BY <1>1, <1>2 DEF FlushInv
<1>4. Top.k \in Caches /\ depends[Top.k] = None
  BY <1>2 DEF GoodFrame, Knows
<1>5. QED BY <1>3, <1>4

(* The units that an entry e of cache k fills.                             *)
Fills(k, e) == IF k = "ref" THEN {Ref(c) : c \in Clusters} ELSE {Cell(e, i) : i \in Half}

LEMMA EntryWritten ==
  ASSUME OnlyDataFails, AllInv, EntryFlushWrite
  PROVE  LET k == Top.k
             e == Top.e IN
         /\ k \in Caches /\ <<k, e>> \in dirty /\ depends[k] = None
         /\ DOMAIN Contents(k, e) = Fills(k, e) /\ Fills(k, e) \subseteq Units
         /\ UNCHANGED <<snap, writethrough, refcount, l2, l1, dirty, depends, lock, pc, req, m,
                        old, waits, crashes, errors>>
         /\ \A u \in Units \ Fills(k, e) :
              file'[u] = file[u] /\ lost'[u] = lost[u] /\ Possible(u)' = Possible(u)
         /\ \A u \in Fills(k, e) : /\ file'[u] = Contents(k, e)[u]
                                   /\ Possible(u)' \subseteq Possible(u) \cup {Contents(k, e)[u]}
<1> DEFINE k == Top.k
           e == Top.e
           ws == Contents(k, e)
<1>1. k \in Caches /\ <<k, e>> \in dirty /\ depends[k] = None
  BY FlushesDirty DEF EntryFlushWrite, In
<1>2. ~ Fails("table") /\ ret = TRUE
  BY TablesNeverFail DEF AllInv, ShapeInv
<1>3. /\ file' = [u \in Units |-> IF u \in DOMAIN ws THEN ws[u] ELSE file[u]]
      /\ lost' = [u \in Units |-> IF u \in DOMAIN ws
                         THEN (lost[u] \cup {file[u]}) \ {ws[u]} ELSE lost[u]]
  BY <1>2 DEF EntryFlushWrite
<1>4. UNCHANGED <<snap, writethrough, refcount, l2, l1, dirty, depends, lock, pc, req, m,
                        old, waits, crashes, errors>>
  BY <1>2 DEF EntryFlushWrite, caches, requests, ghosts
<1>5. DOMAIN ws = Fills(k, e)
  <2>1. k = "ref" \/ k = "l2"
    BY <1>1, CachesAre
  <2>2. QED BY <2>1, ContentsAre DEF Fills
<1>6. Fills(k, e) \subseteq Units
  <2>1. CASE k = "ref"
    BY <2>1, UnitsAre DEF Fills
  <2>2. CASE k = "l2"
    <3>1. e \in Clusters
      BY <1>1, <2>2, DirtyTable
    <3> HIDE DEF k, e
    <3>2. QED BY <2>2, <3>1, UnitsAre DEF Fills
  <2>3. QED BY <1>1, <2>1, <2>2, CachesAre
<1> HIDE DEF ws
<1>7. \A u \in Units \ Fills(k, e) :
              file'[u] = file[u] /\ lost'[u] = lost[u] /\ Possible(u)' = Possible(u)
  BY <1>3, <1>5 DEF Possible
<1>8. \A u \in Fills(k, e) : /\ file'[u] = ws[u]
                             /\ Possible(u)' \subseteq Possible(u) \cup {ws[u]}
  BY <1>3, <1>5, <1>6 DEF Possible
<1>9. QED BY <1>1, <1>4, <1>5, <1>6, <1>7, <1>8 DEF ws

(* The refcount block has been written.                                    *)
LEMMA RefWritten ==
  ASSUME OnlyDataFails, AllInv, EntryFlushWrite, Top.k = "ref"
  PROVE  /\ \A c \in Clusters, i \in Half :
              /\ file'[Cell(c, i)] = file[Cell(c, i)] /\ lost'[Cell(c, i)] = lost[Cell(c, i)]
              /\ Possible(Cell(c, i))' = Possible(Cell(c, i))
         /\ file'[L1] = file[L1] /\ lost'[L1] = lost[L1] /\ Possible(L1)' = Possible(L1)
         /\ \A c \in Clusters : /\ file'[Ref(c)] = refcount[c]
                                /\ Possible(Ref(c))' \subseteq Possible(Ref(c)) \cup {refcount[c]}
         /\ <<"ref", 0>> \in dirty /\ depends["ref"] = None
<1>1. /\ \A u \in Units \ Fills("ref", Top.e) :
              file'[u] = file[u] /\ lost'[u] = lost[u] /\ Possible(u)' = Possible(u)
      /\ \A u \in Fills("ref", Top.e) :
           /\ file'[u] = Contents("ref", Top.e)[u]
           /\ Possible(u)' \subseteq Possible(u) \cup {Contents("ref", Top.e)[u]}
      /\ <<"ref", Top.e>> \in dirty /\ depends["ref"] = None
  BY EntryWritten
<1>2. L1 \in Units \ Fills("ref", Top.e)
  BY UnitsAre, UnitsDiffer DEF Fills
<1>3. \A c \in Clusters, i \in Half : Cell(c, i) \in Units \ Fills("ref", Top.e)
  BY UnitsAre, UnitsDiffer DEF Fills
<1>4. \A c \in Clusters : /\ Ref(c) \in Fills("ref", Top.e)
                          /\ Contents("ref", Top.e)[Ref(c)] = refcount[c]
  BY ContentsAre DEF Fills
<1>5. <<"ref", 0>> \in dirty
  <2>1. dirty \subseteq {<<"ref", 0>>} \cup {<<"l2", x>> : x \in DOMAIN l2}
    BY DEF AllInv, CacheInv
  <2>2. QED BY <1>1, <2>1
<1>6. QED BY <1>1, <1>2, <1>3, <1>4, <1>5

(* An L2 table has been written.                                           *)
LEMMA TableWritten ==
  ASSUME OnlyDataFails, AllInv, EntryFlushWrite, Top.k = "l2", NEW t, t = Top.e
  PROVE  /\ \A c \in Clusters \ {t}, i \in Half :
              /\ file'[Cell(c, i)] = file[Cell(c, i)] /\ lost'[Cell(c, i)] = lost[Cell(c, i)]
              /\ Possible(Cell(c, i))' = Possible(Cell(c, i))
         /\ file'[L1] = file[L1] /\ lost'[L1] = lost[L1] /\ Possible(L1)' = Possible(L1)
         /\ \A c \in Clusters : /\ file'[Ref(c)] = file[Ref(c)] /\ lost'[Ref(c)] = lost[Ref(c)]
                                /\ Possible(Ref(c))' = Possible(Ref(c))
         /\ \A i \in Half : /\ file'[Cell(t, i)] = l2[t][i]
                            /\ Possible(Cell(t, i))' \subseteq Possible(Cell(t, i)) \cup {l2[t][i]}
         /\ <<"l2", t>> \in dirty /\ depends["l2"] = None
<1>1. /\ \A u \in Units \ Fills("l2", t) :
              file'[u] = file[u] /\ lost'[u] = lost[u] /\ Possible(u)' = Possible(u)
      /\ \A u \in Fills("l2", t) :
           /\ file'[u] = Contents("l2", t)[u]
           /\ Possible(u)' \subseteq Possible(u) \cup {Contents("l2", t)[u]}
      /\ <<"l2", t>> \in dirty /\ depends["l2"] = None
  BY EntryWritten
<1>2. L1 \in Units \ Fills("l2", t)
  BY UnitsAre, UnitsDiffer DEF Fills
<1>3. \A c \in Clusters : Ref(c) \in Units \ Fills("l2", t)
  BY UnitsAre, UnitsDiffer DEF Fills
<1>4. \A c \in Clusters \ {t}, i \in Half : Cell(c, i) \in Units \ Fills("l2", t)
  BY UnitsAre, UnitsDiffer DEF Fills
<1>5. \A i \in Half : Cell(t, i) \in Fills("l2", t) /\ Contents("l2", t)[Cell(t, i)] = l2[t][i]
  BY ContentsAre DEF Fills
<1>6. \A c \in Clusters \ {t}, i \in Half :
              /\ file'[Cell(c, i)] = file[Cell(c, i)] /\ lost'[Cell(c, i)] = lost[Cell(c, i)]
              /\ Possible(Cell(c, i))' = Possible(Cell(c, i))
  BY <1>1, <1>4
<1>7. file'[L1] = file[L1] /\ lost'[L1] = lost[L1] /\ Possible(L1)' = Possible(L1)
  BY <1>1, <1>2
<1>8. \A c \in Clusters : /\ file'[Ref(c)] = file[Ref(c)] /\ lost'[Ref(c)] = lost[Ref(c)]
                          /\ Possible(Ref(c))' = Possible(Ref(c))
  BY <1>1, <1>3
<1>9. ASSUME NEW i \in Half
      PROVE  /\ file'[Cell(t, i)] = l2[t][i]
             /\ Possible(Cell(t, i))' \subseteq Possible(Cell(t, i)) \cup {l2[t][i]}
  <2>1. Cell(t, i) \in Fills("l2", t) /\ Contents("l2", t)[Cell(t, i)] = l2[t][i]
    BY <1>5
  <2>2. /\ file'[Cell(t, i)] = Contents("l2", t)[Cell(t, i)]
        /\ Possible(Cell(t, i))' \subseteq Possible(Cell(t, i)) \cup {Contents("l2", t)[Cell(t, i)]}
    BY <1>1, <2>1
  <2>3. QED BY <2>1, <2>2
<1>10. QED BY <1>1, <1>6, <1>7, <1>8, <1>9
-----------------------------------------------------------------------------
(* Caches that have been flushed.                                          *)

LEMMA RefFlushed ==
  ASSUME AllInv, IsFlushed("ref")
  PROVE  \A c \in Clusters : Possible(Ref(c)) = {refcount[c]}
<1>1. <<"ref", 0>> \notin dirty
  BY DEF IsFlushed, Clean
<1>2. \A c \in Clusters : file[Ref(c)] = refcount[c]
  BY <1>1 DEF AllInv, CacheInv
<1>3. \A c \in Clusters : lost[Ref(c)] = {}
  BY DEF IsFlushed, Durable
<1>4. QED BY <1>2, <1>3 DEF Possible

LEMMA L2Flushed ==
  ASSUME AllInv, IsFlushed("l2")
  PROVE  /\ Possible(L1) = {l1} /\ Tables = {l1.c} \ {0}
         /\ \A t \in DOMAIN l2, i \in Half : Possible(Cell(t, i)) = {l2[t][i]}
         /\ \A i \in Half : /\ l1.c # 0 => Possible(Cell(l1.c, i)) = {Cached(i)}
                            /\ Stored(i) \subseteq {Cached(i)}
<1>1. Possible(L1) = {l1}
  <2>1. lost[L1] = {} /\ l1 = file[L1]
    BY DEF IsFlushed, Durable, AllInv, CacheInv
  <2>2. QED BY <2>1, PossibleIs
<1>2. Tables = {l1.c} \ {0}
  BY <1>1 DEF Tables
<1>3. ASSUME NEW t \in DOMAIN l2, NEW i \in Half PROVE Possible(Cell(t, i)) = {l2[t][i]}
  <2>1. <<"l2", t>> \notin dirty /\ lost[Cell(t, i)] = {}
    BY DEF IsFlushed, Clean, Durable
  <2>2. file[Cell(t, i)] = l2[t][i]
    BY <2>1 DEF AllInv, CacheInv
  <2>3. QED BY <2>1, <2>2, PossibleIs
<1>4. ASSUME NEW i \in Half, l1.c # 0 PROVE Possible(Cell(l1.c, i)) = {Cached(i)}
  <2>1. CASE l1.c \in DOMAIN l2
    BY <1>3, <2>1, CachedIs
  <2>2. CASE l1.c \notin DOMAIN l2
    <3>1. Cached(i) = file[Cell(l1.c, i)]
      BY <1>4, <2>2, CachedIs
    <3>2. lost[Cell(l1.c, i)] = {}
      BY <1>4 DEF IsFlushed, Durable
    <3>3. QED BY <3>1, <3>2, PossibleIs
  <2>3. QED BY <2>1, <2>2
<1>5. ASSUME NEW i \in Half PROVE Stored(i) \subseteq {Cached(i)}
  BY <1>2, <1>4 DEF Stored
<1>6. QED BY <1>1, <1>2, <1>3, <1>4, <1>5

(* The L1 entry is written when all it needs is in the file.               *)
LEMMA WriteL1Is ==
  ASSUME OnlyDataFails, AllInv, NEW w \in Cos, WriteL1Entry(w), NEW c, c = m[w].c
  PROVE  /\ pc[w] = "l1_write" /\ lock = w /\ stack = <<>> /\ Holds(w) /\ c \in Clusters
         /\ RefStable /\ IsFlushed("l2") /\ l1.flag = "none" /\ l1.c \in {0, snap} /\ c # l1.c
         /\ l1' = Entry(c, "copied") /\ file'[L1] = l1'
         /\ Possible(L1) = {l1} /\ Possible(L1)' \subseteq {l1, l1'} /\ lost'[L1] \subseteq {l1}
         /\ c \in DOMAIN l2
         /\ \A u \in Units \ {L1} :
              file'[u] = file[u] /\ lost'[u] = lost[u] /\ Possible(u)' = Possible(u)
         /\ \A i \in Half :
              /\ Possible(Cell(c, i)) = {Cached(i)} /\ l2[c][i] = Cached(i)
              /\ Cached(i)' = Cached(i) /\ Stored(i) \subseteq {Cached(i)}
              /\ Stored(i)' \subseteq {Cached(i)}
         /\ \A d \in Clusters : Possible(Ref(d)) = {refcount[d]}
         /\ pc'[w] = "l1_sync" /\ old' = [old EXCEPT ![w] = l1.c]
         /\ UNCHANGED <<snap, writethrough, refcount, l2, dirty, depends,
                 depends_on_flush, free_cluster_index, stack, ret, lock, req, m,
                 waits, ghosts, errors>>
<1>1. /\ pc[w] = "l1_write" /\ lock = w /\ stack = <<>> /\ WaitInv
      /\ ~ Fails("table")
  BY TablesNeverFail DEF WriteL1Entry, Owns, AllInv
<1>2. /\ l1' = Entry(c, "copied") /\ Written([u \in {L1} |-> l1'])
      /\ old' = [old EXCEPT ![w] = l1.c] /\ Goto(w, "l1_sync")
      /\ UNCHANGED <<snap, writethrough, refcount, l2, dirty, depends,
                 depends_on_flush, free_cluster_index, stack, ret, lock, req, m,
                 waits, ghosts, errors>>
  BY <1>1 DEF WriteL1Entry
<1>3. Holds(w) /\ c \in Clusters /\ c # l1.c
  BY <1>1, HeldIs DEF Holds
<1>4. /\ RefStable /\ IsFlushed("l2") /\ c \in DOMAIN l2
      /\ \A i \in Half : l2[c][i] = Cached(i)
  BY <1>1 DEF AllInv, TableInv
<1>5. l1.flag = "none" /\ l1.c \in {0, snap}
  BY <1>1 DEF AllInv, RequestInv
<1>6. /\ Possible(L1) = {l1} /\ Tables = {l1.c} \ {0}
      /\ \A t \in DOMAIN l2, i \in Half : Possible(Cell(t, i)) = {l2[t][i]}
      /\ \A i \in Half : /\ l1.c # 0 => Possible(Cell(l1.c, i)) = {Cached(i)}
                         /\ Stored(i) \subseteq {Cached(i)}
  BY <1>4, L2Flushed
<1>7. \A d \in Clusters : Possible(Ref(d)) = {refcount[d]}
  BY <1>4, RefFlushed DEF RefStable
<1>8. /\ file'[L1] = l1' /\ Possible(L1)' \subseteq {l1, l1'} /\ lost'[L1] \subseteq {l1}
      /\ \A u \in Units \ {L1} :
           file'[u] = file[u] /\ lost'[u] = lost[u] /\ Possible(u)' = Possible(u)
  <2>1. L1 \in Units /\ lost[L1] \cup {file[L1]} = {l1}
    BY <1>6, UnitsAre DEF Possible
  <2> DEFINE ws == [u \in {L1} |-> l1']
  <2>2. DOMAIN ws = {L1} /\ ws[L1] = l1'
    OBVIOUS
  <2>3. /\ file' = [u \in Units |-> IF u \in DOMAIN ws THEN ws[u] ELSE file[u]]
        /\ lost' = [u \in Units |-> IF u \in DOMAIN ws /\ ~ writethrough
                              THEN (lost[u] \cup {file[u]}) \ {ws[u]}
                              ELSE lost[u]]
    BY <1>2 DEF Written
  <2> HIDE DEF ws
  <2>4. file'[L1] = l1' /\ lost'[L1] \subseteq {l1}
    BY <2>1, <2>2, <2>3
  <2>5. \A u \in Units \ {L1} :
           file'[u] = file[u] /\ lost'[u] = lost[u] /\ Possible(u)' = Possible(u)
    BY <2>2, <2>3 DEF Possible
  <2>6. QED BY <2>4, <2>5 DEF Possible
<1>9. pc'[w] = "l1_sync"
  BY <1>1, <1>2, GotoIs
<1>10. \A i \in Half : Possible(Cell(c, i)) = {Cached(i)}
  BY <1>4, <1>6
<1>11. ASSUME NEW i \in Half PROVE Stored(i)' \subseteq {Cached(i)}
  <2>1. Tables' \subseteq {l1.c, c} \ {0}
    BY <1>2, <1>8, EntriesAre DEF Tables
  <2>2. ASSUME NEW t \in Tables' PROVE Possible(Cell(t, i))' = {Cached(i)}
    <3>1. Possible(Cell(t, i)) = {Cached(i)} /\ t \in Clusters
      BY <1>3, <1>6, <1>10, <2>1, CachedIs
    <3>2. Cell(t, i) \in Units \ {L1}
      BY <3>1, UnitsAre, UnitsDiffer
    <3>3. QED BY <1>8, <3>1, <3>2
  <2>3. QED BY <2>2 DEF Stored
<1>12. ASSUME NEW i \in Half PROVE Cached(i)' = Cached(i)
  <2>1. l1'.c = c /\ c # 0
    BY <1>2, <1>3, EntriesAre, ClustersAre
  <2>2. Cached(i)' = l2[c][i]
    BY <1>2, <1>4, <2>1 DEF Cached, Entries
  <2>3. QED BY <1>4, <2>2
<1>13. QED
  BY <1>1, <1>2, <1>3, <1>4, <1>5, <1>6, <1>7, <1>8, <1>9, <1>10, <1>11, <1>12

-----------------------------------------------------------------------------
(* The contents of the file.                                               *)

LEMMA CallImage ==
  ASSUME OnlyDataFails, AllInv, CallStep
  PROVE  Settled \/ EntryFlushWrite
<1>1. DOMAIN lost = Units
  BY DEF AllInv, TypeInv
<1>2. file' = file /\ lost' = lost => Settled
  BY <1>1 DEF Settled
<1>3. QED
  BY <1>2, FlushSettles DEF CallStep, CacheFlushNext, CacheFlushEnd, EntryFlushStart,
         EntryFlushWritten, FlushDependencyStep, SetDependencyStep,
         UpdateRefcountStep, image

(* After an entry was written its table refers to what it did in memory.   *)
LEMMA WrittenTables ==
  ASSUME OnlyDataFails, AllInv, EntryFlushWrite
  PROVE  /\ Tables' = Tables
         /\ \A i \in Half : /\ Cached(i)' = Cached(i)
                            /\ Stored(i)' \subseteq Stored(i) \cup {Cached(i)}
                            /\ Top.k = "ref" => Stored(i)' = Stored(i)
<1>1. /\ Top.k \in Caches /\ <<Top.k, Top.e>> \in dirty /\ UNCHANGED <<l1, l2>>
  BY EntryWritten
<1>2. FileInv /\ Tables \subseteq Clusters
  BY TablesClusters DEF AllInv
<1>3. l1.c # 0 => l1.c \in Clusters
  BY CachedIs
<1>4. CASE Top.k = "ref"
  <2>1. /\ \A c \in Clusters, i \in Half :
              file'[Cell(c, i)] = file[Cell(c, i)] /\ Possible(Cell(c, i))' = Possible(Cell(c, i))
        /\ Possible(L1)' = Possible(L1)
    BY <1>4, RefWritten
  <2>2. Tables' = Tables
    BY <2>1 DEF Tables
  <2>3. \A i \in Half : Stored(i)' = Stored(i)
    BY <1>2, <2>1, <2>2 DEF Stored
  <2>4. ASSUME NEW i \in Half PROVE Cached(i)' = Cached(i)
    <3>1. l1.c # 0 => file'[Cell(l1.c, i)] = file[Cell(l1.c, i)]
      BY <1>3, <2>1
    <3>2. QED BY <1>1, <3>1 DEF Cached, Entries
  <2>5. QED BY <2>2, <2>3, <2>4
<1>5. ASSUME NEW t, t = Top.e, Top.k = "l2"
      PROVE  /\ Tables' = Tables
             /\ \A i \in Half : /\ Cached(i)' = Cached(i)
                                /\ Stored(i)' \subseteq Stored(i) \cup {Cached(i)}
  <2>1. /\ \A c \in Clusters \ {t}, i \in Half :
              /\ file'[Cell(c, i)] = file[Cell(c, i)] /\ lost'[Cell(c, i)] = lost[Cell(c, i)]
              /\ Possible(Cell(c, i))' = Possible(Cell(c, i))
        /\ Possible(L1)' = Possible(L1)
        /\ \A i \in Half : /\ file'[Cell(t, i)] = l2[t][i]
                           /\ Possible(Cell(t, i))' \subseteq Possible(Cell(t, i)) \cup {l2[t][i]}
    BY <1>5, TableWritten
  <2>2. t \in DOMAIN l2 /\ t \in Clusters /\ (t \in Tables => t = l1.c)
    BY <1>1, <1>5, DirtyTable
  <2>3. Tables' = Tables
    BY <2>1 DEF Tables
  <2>4. ASSUME NEW i \in Half PROVE Cached(i)' = Cached(i)
    <3>1. l1.c # 0 /\ l1.c \notin DOMAIN l2 => file'[Cell(l1.c, i)] = file[Cell(l1.c, i)]
      BY <1>3, <2>1, <2>2
    <3>2. QED BY <1>1, <3>1 DEF Cached, Entries
  <2>5. ASSUME NEW i \in Half PROVE Stored(i)' \subseteq Stored(i) \cup {Cached(i)}
    <3>1. \A x \in Tables : Possible(Cell(x, i))' \subseteq Possible(Cell(x, i)) \cup {Cached(i)}
      <4> SUFFICES ASSUME NEW x \in Tables
                   PROVE  Possible(Cell(x, i))' \subseteq Possible(Cell(x, i)) \cup {Cached(i)}
        OBVIOUS
      <4>1. CASE x = t
        <5>1. l2[t][i] = Cached(i)
          BY <2>2, <4>1, CachedIs
        <5>2. QED BY <2>1, <4>1, <5>1
      <4>2. CASE x # t
        BY <1>2, <2>1, <4>2
      <4>3. QED BY <4>1, <4>2
    <3>2. QED BY <2>3, <3>1 DEF Stored
  <2>6. QED BY <2>3, <2>4, <2>5
<1>6. CASE Top.k # "ref"
  <2>1. Top.k = "l2"
    BY <1>1, <1>6, CachesAre
  <2>2. QED BY <1>5, <1>6, <2>1
<1>7. QED BY <1>4, <1>6

LEMMA CallKeepsFile ==
  ASSUME OnlyDataFails, AllInv, CallStep
  PROVE  FileInv'
<1>0. FileInv /\ snap \in {0, 1} /\ snap' = snap
  BY CallForms DEF AllInv, TypeInv
<1>1. CASE Settled
  BY <1>0, <1>1, SettledMeans, ShrinkKeepsFile
<1>2. CASE EntryFlushWrite
  <2>1. Top.k \in Caches /\ <<Top.k, Top.e>> \in dirty
    BY <1>2, EntryWritten
  <2>2. \A i \in Half : Stored(i)' \subseteq EntrySet
    <3>1. \A i \in Half : Cached(i) \in EntrySet /\ Stored(i) \subseteq EntrySet
      BY <1>0, CachedIs DEF FileInv
    <3>2. QED BY <1>2, <3>1, WrittenTables
  <2>3. CASE Top.k = "ref"
    <3>1. /\ \A c \in Clusters, i \in Half : Possible(Cell(c, i))' = Possible(Cell(c, i))
          /\ Possible(L1)' = Possible(L1)
          /\ \A c \in Clusters : Possible(Ref(c))' \subseteq Possible(Ref(c)) \cup {refcount[c]}
      BY <1>2, <2>3, RefWritten
    <3>2. \A c \in Clusters : refcount[c] \in Nat
      BY DEF AllInv, TypeInv
    <3>3. 1 \in Clusters /\ 2 \in Clusters /\ 0 \in Half /\ 1 \in Half
      BY ClustersAre DEF Half
    <3>4. QED BY <1>0, <2>2, <3>1, <3>2, <3>3 DEF FileInv
  <2>4. ASSUME NEW t, t = Top.e, Top.k = "l2" PROVE FileInv'
    <3>1. /\ \A c \in Clusters \ {t}, i \in Half : Possible(Cell(c, i))' = Possible(Cell(c, i))
          /\ Possible(L1)' = Possible(L1)
          /\ \A c \in Clusters : Possible(Ref(c))' = Possible(Ref(c))
          /\ \A i \in Half : Possible(Cell(t, i))' \subseteq Possible(Cell(t, i)) \cup {l2[t][i]}
      BY <1>2, <2>4, TableWritten
    <3>2. t \in DOMAIN l2 /\ t \in Clusters /\ (snap # 0 => t \notin {1, 2})
      BY <2>1, <2>4, DirtyTable
    <3>3. \A i \in Half : l2[t][i] \in EntrySet
      BY <3>2 DEF AllInv, CacheInv
    <3>4. \A c \in Clusters, i \in Half : Possible(Cell(c, i))' \subseteq EntrySet \cup DataSet
      <4> SUFFICES ASSUME NEW c \in Clusters, NEW i \in Half
                   PROVE  Possible(Cell(c, i))' \subseteq EntrySet \cup DataSet
        OBVIOUS
      <4>1. Possible(Cell(c, i)) \subseteq EntrySet \cup DataSet
        BY <1>0 DEF FileInv
      <4>2. CASE c = t
        BY <3>1, <3>3, <4>1, <4>2
      <4>3. CASE c # t
        BY <3>1, <4>1, <4>3
      <4>4. QED BY <4>2, <4>3
    <3>5. ASSUME snap' # 0
          PROVE  /\ Possible(Cell(1, 0))' = {Entry(2, "none")}
                 /\ Possible(Cell(1, 1))' = {Unallocated}
                 /\ \A h \in Half : Possible(Cell(2, h))' = {Data(1)}
      <4>1. 1 \in Clusters \ {t} /\ 2 \in Clusters \ {t} /\ 0 \in Half /\ 1 \in Half
        BY <1>0, <3>2, <3>5, ClustersAre DEF Half
      <4>2. /\ Possible(Cell(1, 0)) = {Entry(2, "none")}
            /\ Possible(Cell(1, 1)) = {Unallocated}
            /\ \A h \in Half : Possible(Cell(2, h)) = {Data(1)}
        BY <1>0, <3>5 DEF FileInv
      <4>3. QED BY <3>1, <4>1, <4>2
    <3>6. \A c \in Clusters : Possible(Ref(c))' \subseteq Nat
      BY <1>0, <3>1 DEF FileInv
    <3>7. \A e \in Possible(L1)' : /\ e \in EntrySet
                                   /\ e.flag = "copied" \/ (e.flag = "none" /\ e.c \in {0, snap'})
      BY <1>0, <3>1 DEF FileInv
    <3>8. QED BY <2>2, <3>4, <3>5, <3>6, <3>7 DEF FileInv
  <2>5. QED BY <2>1, <2>3, <2>4, CachesAre
<1>3. QED BY <1>1, <1>2, CallImage

LEMMA ProgressKeepsFile ==
  ASSUME OnlyDataFails, AllInv, NEW w \in Cos, Progress(w)
  PROVE  FileInv'
<1>0. FileInv /\ snap \in {0, 1} /\ snap' = snap
  BY ProgressImage DEF AllInv, TypeInv
<1>1. CASE Settled
  BY <1>0, <1>1, SettledMeans, ShrinkKeepsFile
<1>2. CASE Apart(m[w].c) /\ Transfer(m[w].c) /\ UNCHANGED <<l1, l2>>
  BY <1>0, <1>2, DataKeepsFile DEF Transfer
<1>3. ASSUME NEW c, c = m[w].c, WriteL1Entry(w) PROVE FileInv'
  <2>1. /\ l1' = Entry(c, "copied") /\ c \in Clusters
        /\ Possible(L1)' \subseteq {l1, l1'}
        /\ \A u \in Units \ {L1} : Possible(u)' = Possible(u)
        /\ \A i \in Half : Stored(i)' \subseteq {Cached(i)}
    BY <1>3, WriteL1Is
  <2>2. /\ \A d \in Clusters : Possible(Ref(d))' = Possible(Ref(d))
        /\ \A d \in Clusters, i \in Half : Possible(Cell(d, i))' = Possible(Cell(d, i))
    BY <2>1, UnitsAre, UnitsDiffer
  <2>3. \A i \in Half : Stored(i)' \subseteq EntrySet
    BY <2>1, CachedIs
  <2>4. \A e \in Possible(L1)' : /\ e \in EntrySet
                                 /\ e.flag = "copied" \/ (e.flag = "none" /\ e.c \in {0, snap'})
    <3>1. l1 \in EntrySet /\ (l1.flag = "copied" \/ (l1.flag = "none" /\ l1.c \in {0, snap}))
      BY <1>0, CachedIs DEF FileInv
    <3>2. l1' \in EntrySet /\ l1'.flag = "copied"
      BY <2>1, EntriesAre DEF Flags
    <3>3. QED BY <1>0, <2>1, <3>1, <3>2
  <2>5. 1 \in Clusters /\ 2 \in Clusters /\ 0 \in Half /\ 1 \in Half
    BY ClustersAre DEF Half
  <2>6. QED BY <1>0, <2>2, <2>3, <2>4, <2>5 DEF FileInv
<1>4. QED BY <1>1, <1>2, <1>3, ProgressImage
-----------------------------------------------------------------------------
(* The caches.                                                             *)

(* A request changes itself and at most wakes others.                      *)
LEMMA OthersStay ==
  ASSUME OnlyDataFails, AllInv, NEW w \in Cos, Progress(w)
  PROVE  \A o \in Cos : o # w =>
           /\ m'[o] = m[o] /\ old'[o] = old[o] /\ req'[o] = req[o]
           /\ pc'[o] = pc[o] \/ (pc[o] = "waiting" /\ pc'[o] = "enter")
<1> USE DEF calls, caches, requests
<1>0. /\ ret = TRUE /\ TypeInv /\ WaitInv /\ \A o \in Cos : pc[o] # "l2_put"
      /\ pc \in [Cos -> Locked \cup Unlocked]
  BY DEF AllInv, ShapeInv, WaitInv, PlacesType
<1>1. CASE \E done : Leave(w, done)
  <2>1. \A o \in Cos : waits[o] = w => pc[o] = "waiting"
    BY <1>0, QcowAssumption DEF WaitInv, WaitsForAlloc
  <2>2. QED BY <1>0, <1>1, <2>1 DEF Leave, TypeInv
<1>2. CASE ~ \E done : Leave(w, done)
  <2>0. ~ CallFailed(w) /\ ~ L2AllocateFailed(w) /\ ~ Done(w)
    BY <1>0, <1>2 DEF CallFailed, Fail, L2AllocateFailed, Done
  <2>1. pc' = pc \/ \E l : Goto(w, l)
    BY <1>0, <1>2, <2>0
    DEF Progress, Enter, GetClusterTable,
         L2FlushRefcount, L2Copy, WriteL1Entry, SyncL1Entry, AllocClusterOffset,
         InsertInFlight, WriteData, Relock, CopySectors, LinkL2, FreeOld,
         Unmap, UnmapPut, FlushToOs, FlushDisk, Replace, Fail
  <2>2. \A o \in Cos : o # w => pc'[o] = pc[o]
    BY <1>0, <2>1 DEF Goto
  <2>3. \A o \in Cos : o # w => m'[o] = m[o]
    BY <1>0, <1>2, <2>0
    DEF TypeInv, Progress, Enter, GetClusterTable,
         L2FlushRefcount, L2Copy, WriteL1Entry, SyncL1Entry, AllocClusterOffset,
         InsertInFlight, WriteData, Relock, CopySectors, LinkL2, FreeOld,
         Unmap, UnmapPut, FlushToOs, FlushDisk, Replace, Fail
  <2>4. \A o \in Cos : o # w => old'[o] = old[o] /\ req'[o] = req[o]
    BY <1>0, <1>2, <2>0
    DEF TypeInv, Progress, Enter, GetClusterTable,
         L2FlushRefcount, L2Copy, WriteL1Entry, SyncL1Entry, AllocClusterOffset,
         InsertInFlight, WriteData, Relock, CopySectors, LinkL2, FreeOld,
         Unmap, UnmapPut, FlushToOs, FlushDisk, Replace, Fail
  <2>5. QED BY <2>2, <2>3, <2>4
<1>3. QED BY <1>1, <1>2

(* Whoever writes the L1 entry goes on doing so.                           *)
Writers ==
  \A o \in Cos : /\ pc[o] = "l1_sync" => pc'[o] = "l1_sync" /\ old'[o] = old[o]
                 /\ pc[o] = "l1_write" => pc'[o] = "l1_write" /\ m'[o].c = m[o].c

LEMMA WritersStay ==
  ASSUME OnlyDataFails, AllInv, NEW w \in Cos, Progress(w),
         pc[w] \notin {"l1_sync", "l1_write"}
  PROVE  Writers
<1>1. \A o \in Cos : o # w /\ pc[o] # "waiting" =>
        pc'[o] = pc[o] /\ m'[o] = m[o] /\ old'[o] = old[o]
  BY OthersStay
<1>2. QED BY <1>1 DEF Writers

LEMMA CacheStays ==
  ASSUME CacheInv, UNCHANGED <<l1, l2, dirty, refcount, snap>>, Writers,
         file'[L1] = file[L1], lost'[L1] \subseteq lost[L1],
         \A t \in DOMAIN l2, i \in Half : file'[Cell(t, i)] = file[Cell(t, i)],
         \A c \in Clusters : file'[Ref(c)] = file[Ref(c)]
  PROVE  CacheInv'
<1>1. l1' = file'[L1] /\ \A e \in lost'[L1] : \E o \in Cos : pc'[o] = "l1_sync" /\ e.c = old'[o]
  BY DEF CacheInv, Writers
<1>2. ASSUME NEW t \in DOMAIN l2'
      PROVE
       /\ t \in {l1'.c, snap'} \/ \E o \in Cos : pc'[o] = "l1_write" /\ m'[o].c = t
       /\ l2'[t] \in [Half -> EntrySet]
       /\ <<"l2", t>> \notin dirty' => \A i \in Half : file'[Cell(t, i)] = l2'[t][i]
       /\ <<"l2", t>> \in dirty' => t # snap'
  <2>1. t \in {l1.c, snap} \/ \E o \in Cos : pc[o] = "l1_write" /\ m[o].c = t
    BY DEF CacheInv
  <2>2. t \in {l1'.c, snap'} \/ \E o \in Cos : pc'[o] = "l1_write" /\ m'[o].c = t
    BY <2>1 DEF Writers
  <2>3. /\ l2[t] \in [Half -> EntrySet]
        /\ <<"l2", t>> \in dirty => t # snap
        /\ <<"l2", t>> \notin dirty => \A i \in Half : file[Cell(t, i)] = l2[t][i]
    BY DEF CacheInv
  <2>4. QED BY <2>2, <2>3
<1>3. DOMAIN l2' \subseteq Clusters /\ dirty' \subseteq {<<"ref", 0>>} \cup {<<"l2", t>> : t \in DOMAIN l2'}
      /\ (<<"ref", 0>> \notin dirty' => \A c \in Clusters : file'[Ref(c)] = refcount'[c])
  BY DEF CacheInv
<1>4. QED BY <1>1, <1>2, <1>3 DEF CacheInv

LEMMA CallKeepsCache ==
  ASSUME OnlyDataFails, AllInv, CallStep
  PROVE  CacheInv'
<1>0. /\ CacheInv /\ UNCHANGED <<l1, l2, snap>> /\ UNCHANGED requests /\ Writers
      /\ StackType /\ stack # <<>> /\ GoodFrame(Top)
  BY CallForms DEF AllInv, Writers, requests
<1>1. CASE EntryFlushWrite
  <2>1. /\ Top.k \in Caches /\ <<Top.k, Top.e>> \in dirty /\ UNCHANGED <<dirty, refcount>>
    BY <1>1, EntryWritten
  <2>c. CacheInv
    BY <1>0
  <2>t. \A t \in DOMAIN l2 : /\ t \in Clusters
                             /\ <<"l2", t>> \notin dirty => \A i \in Half : file[Cell(t, i)] = l2[t][i]
    BY <2>c DEF CacheInv
  <2>2. CASE Top.k = "ref"
    <3>1. /\ \A c \in Clusters, i \in Half : file'[Cell(c, i)] = file[Cell(c, i)]
          /\ file'[L1] = file[L1] /\ lost'[L1] = lost[L1]
          /\ \A c \in Clusters : file'[Ref(c)] = refcount[c]
      BY <1>1, <2>2, RefWritten
    <3>2. \A t \in DOMAIN l2' :
            <<"l2", t>> \notin dirty' => \A i \in Half : file'[Cell(t, i)] = l2'[t][i]
      BY <1>0, <2>1, <2>t, <3>1
    <3>3. QED BY <1>0, <2>1, <2>c, <3>1, <3>2 DEF CacheInv, requests
  <2>3. ASSUME NEW t, t = Top.e, Top.k = "l2" PROVE CacheInv'
    <3>1. /\ \A c \in Clusters \ {t}, i \in Half :
              /\ file'[Cell(c, i)] = file[Cell(c, i)] /\ lost'[Cell(c, i)] = lost[Cell(c, i)]
              /\ Possible(Cell(c, i))' = Possible(Cell(c, i))
          /\ file'[L1] = file[L1] /\ lost'[L1] = lost[L1]
          /\ \A c \in Clusters : file'[Ref(c)] = file[Ref(c)]
          /\ <<"l2", t>> \in dirty
      BY <1>1, <2>3, TableWritten
    <3>2. \A x \in DOMAIN l2' :
            <<"l2", x>> \notin dirty' => \A i \in Half : file'[Cell(x, i)] = l2'[x][i]
      <4> SUFFICES ASSUME NEW x \in DOMAIN l2, <<"l2", x>> \notin dirty, NEW i \in Half
                   PROVE  file'[Cell(x, i)] = l2[x][i]
        BY <1>0, <2>1
      <4>1. x \in Clusters \ {t}
        BY <2>t, <3>1
      <4>2. QED BY <2>t, <3>1, <4>1
    <3>3. QED BY <1>0, <2>1, <2>c, <3>1, <3>2 DEF CacheInv, requests
  <2>4. QED BY <2>1, <2>2, <2>3, CachesAre
<1>2. CASE EntryFlushWritten
  <2>0. Top.k \in Caches /\ In("entry_flush", "written")
    BY <1>0, <1>2 DEF EntryFlushWritten, In, GoodFrame
  <2>1. /\ dirty' = dirty \ {<<Top.k, Top.e>>} /\ file' = file /\ UNCHANGED refcount
        /\ lost'[L1] \subseteq lost[L1]
    BY <1>2, UnitsAre DEF EntryFlushWritten, Flushed
  <2>2. \A u \in DOMAIN Contents(Top.k, Top.e) : file[u] = Contents(Top.k, Top.e)[u]
    BY <2>0 DEF AllInv, FlushInv
  <2>3. ASSUME NEW t \in DOMAIN l2, <<"l2", t>> \notin dirty', NEW i \in Half
        PROVE  file[Cell(t, i)] = l2[t][i]
    <3>1. CASE <<"l2", t>> \in dirty
      <4>1. Top.k = "l2" /\ Top.e = t
        BY <2>1, <2>3, <3>1
      <4>2. QED BY <2>2, <4>1, ContentsAre
    <3>2. CASE <<"l2", t>> \notin dirty
      BY <1>0, <3>2 DEF CacheInv
    <3>3. QED BY <3>1, <3>2
  <2>4. ASSUME NEW c \in Clusters, <<"ref", 0>> \notin dirty' PROVE file[Ref(c)] = refcount[c]
    <3>1. CASE <<"ref", 0>> \in dirty
      <4>1. Top.k = "ref"
        BY <2>1, <2>4, <3>1
      <4>2. QED BY <2>2, <4>1, ContentsAre
    <3>2. CASE <<"ref", 0>> \notin dirty
      BY <1>0, <3>2 DEF CacheInv
    <3>3. QED BY <3>1, <3>2
  <2>5. dirty' \subseteq dirty
    BY <2>1
  <2>6. QED BY <1>0, <2>1, <2>3, <2>4, <2>5 DEF CacheInv, requests
<1>3. CASE In("update_refcount", "apply") /\ UpdateRefcountStep
  <2>1. dirty' = dirty \cup {<<"ref", 0>>} /\ UNCHANGED <<file, lost>>
    BY <1>3 DEF UpdateRefcountStep, In, image
  <2>2. QED BY <1>0, <2>1 DEF CacheInv, requests
<1>4. CASE ~ EntryFlushWrite /\ ~ EntryFlushWritten /\ ~ (In("update_refcount", "apply") /\ UpdateRefcountStep)
  <2>1. UNCHANGED <<dirty, refcount>>
    BY <1>4 DEF CallStep, CacheFlushNext, CacheFlushEnd, EntryFlushStart,
         FlushDependencyStep, SetDependencyStep, UpdateRefcountStep, caches
  <2>2. Settled
    BY <1>4, CallImage
  <2>3. file' = file /\ lost'[L1] \subseteq lost[L1]
    BY <2>2, UnitsAre DEF Settled
  <2>4. QED BY <1>0, <2>1, <2>3, CacheStays
<1>5. QED BY <1>1, <1>2, <1>3, <1>4
-----------------------------------------------------------------------------
(* Loading and changing L2 tables.                                         *)

LEMMA LoadIs ==
  ASSUME NEW t \in Clusters
  PROVE  /\ DOMAIN Load(t) = DOMAIN l2 \cup {t}
         /\ \A x \in DOMAIN l2 : Load(t)[x] = l2[x]
         /\ t \notin DOMAIN l2 => Load(t)[t] = [i \in Half |-> file[Cell(t, i)]]
<1>1. t # 0
  BY ClustersAre
<1>2. CASE t \in DOMAIN l2
  BY <1>1, <1>2 DEF Load
<1>3. CASE t \notin DOMAIN l2
  BY <1>1, <1>3 DEF Load
<1>4. QED BY <1>2, <1>3

(* The guest's table is in the cache after it was loaded.                  *)
LEMMA TableLoads ==
  ASSUME AllInv, l1.c # 0
  PROVE  /\ DOMAIN Load(l1.c) = DOMAIN l2 \cup {l1.c} /\ l1.c \in Clusters
         /\ \A x \in DOMAIN l2 : Load(l1.c)[x] = l2[x]
         /\ Load(l1.c)[l1.c] \in [Half -> EntrySet]
         /\ \A i \in Half : Load(l1.c)[l1.c][i] = Cached(i)
         /\ <<"l2", l1.c>> \notin dirty => \A i \in Half : file[Cell(l1.c, i)] = Cached(i)
<1>0. l1.c \in Clusters
  BY CachedIs
<1>1. /\ DOMAIN Load(l1.c) = DOMAIN l2 \cup {l1.c}
      /\ \A x \in DOMAIN l2 : Load(l1.c)[x] = l2[x]
      /\ l1.c \notin DOMAIN l2 => Load(l1.c)[l1.c] = [i \in Half |-> file[Cell(l1.c, i)]]
  BY <1>0, LoadIs
<1>2. CASE l1.c \in DOMAIN l2
  <2>1. /\ l2[l1.c] \in [Half -> EntrySet]
        /\ <<"l2", l1.c>> \notin dirty => \A i \in Half : file[Cell(l1.c, i)] = l2[l1.c][i]
    BY <1>2 DEF AllInv, CacheInv
  <2>2. \A i \in Half : Cached(i) = l2[l1.c][i]
    BY <1>2, CachedIs
  <2>3. QED BY <1>0, <1>1, <1>2, <2>1, <2>2
<1>3. CASE l1.c \notin DOMAIN l2
  <2>1. \A i \in Half : Cached(i) = file[Cell(l1.c, i)] /\ Cached(i) \in EntrySet
    BY <1>3, CachedIs
  <2>2. QED BY <1>0, <1>1, <1>3, <2>1
<1>4. QED BY <1>2, <1>3

LEMMA NewTable ==
  ASSUME AllInv, l1.c # 0, l1.c \notin DOMAIN l2
  PROVE  <<"l2", l1.c>> \notin dirty
<1>1. dirty \subseteq {<<"ref", 0>>} \cup {<<"l2", x>> : x \in DOMAIN l2}
  BY DEF AllInv, CacheInv
<1>2. QED BY <1>1

LEMMA LoadKeepsCache ==
  ASSUME AllInv, l1.c # 0, l2' = Load(l1.c),
         UNCHANGED <<file, lost, l1, dirty, refcount, snap>>, Writers
  PROVE  CacheInv' /\ \A i \in Half : Cached(i)' = Cached(i)
<1>0. /\ CacheInv
      /\ DOMAIN l2' = DOMAIN l2 \cup {l1.c} /\ l1.c \in Clusters
      /\ \A x \in DOMAIN l2 : l2'[x] = l2[x]
      /\ l2'[l1.c] \in [Half -> EntrySet]
      /\ \A i \in Half : l2'[l1.c][i] = Cached(i)
      /\ <<"l2", l1.c>> \notin dirty => \A i \in Half : file[Cell(l1.c, i)] = Cached(i)
  BY TableLoads DEF AllInv
<1>1. \A i \in Half : Cached(i)' = Cached(i)
  BY <1>0 DEF Cached, Entries
<1>2. ASSUME NEW t \in DOMAIN l2'
      PROVE  /\ t \in {l1'.c, snap'} \/ \E o \in Cos : pc'[o] = "l1_write" /\ m'[o].c = t
             /\ l2'[t] \in [Half -> EntrySet]
             /\ <<"l2", t>> \notin dirty' => \A i \in Half : file'[Cell(t, i)] = l2'[t][i]
             /\ <<"l2", t>> \in dirty' => t # snap'
  <2>1. CASE t \in DOMAIN l2
    <3>1. /\ t \in {l1.c, snap} \/ \E o \in Cos : pc[o] = "l1_write" /\ m[o].c = t
          /\ l2[t] \in [Half -> EntrySet]
          /\ <<"l2", t>> \notin dirty => \A i \in Half : file[Cell(t, i)] = l2[t][i]
          /\ <<"l2", t>> \in dirty => t # snap
      BY <1>0, <2>1 DEF CacheInv
    <3>2. t \in {l1'.c, snap'} \/ \E o \in Cos : pc'[o] = "l1_write" /\ m'[o].c = t
      BY <3>1 DEF Writers
    <3>3. QED BY <1>0, <2>1, <3>1, <3>2
  <2>2. CASE t \notin DOMAIN l2
    <3>1. t = l1.c /\ <<"l2", t>> \notin dirty
      BY <1>0, <2>2, NewTable
    <3>2. QED BY <1>0, <3>1
  <2>3. QED BY <2>1, <2>2
<1>3. l1' = file'[L1] /\ \A e \in lost'[L1] : \E o \in Cos : pc'[o] = "l1_sync" /\ e.c = old'[o]
  BY <1>0 DEF CacheInv, Writers
<1>4. DOMAIN l2' \subseteq Clusters /\ dirty' \subseteq {<<"ref", 0>>} \cup {<<"l2", t>> : t \in DOMAIN l2'}
      /\ (<<"ref", 0>> \notin dirty' => \A c \in Clusters : file'[Ref(c)] = refcount'[c])
  BY <1>0 DEF CacheInv
<1>5. QED BY <1>1, <1>2, <1>3, <1>4 DEF CacheInv

(* An entry of the guest's table changes, in memory.                       *)
LEMMA SetKeepsCache ==
  ASSUME AllInv, NEW w \in Cos, NEW e \in EntrySet, SetL2Entry(w, e), l1.flag = "copied",
         UNCHANGED <<file, lost, l1, refcount, snap>>, Writers
  PROVE  /\ CacheInv'
         /\ \A i \in Half : Cached(i)' = IF i = req[w].g THEN e ELSE Cached(i)
<1>a. l1.c # 0 /\ l1.c # snap /\ req[w].g \in Half
  BY L1Private, ClustersAre, RequestIs
<1> DEFINE g == req[w].g
<1>b. /\ DOMAIN Load(l1.c) = DOMAIN l2 \cup {l1.c} /\ l1.c \in Clusters
      /\ \A x \in DOMAIN l2 : Load(l1.c)[x] = l2[x]
      /\ Load(l1.c)[l1.c] \in [Half -> EntrySet]
      /\ \A i \in Half : Load(l1.c)[l1.c][i] = Cached(i)
  BY <1>a, TableLoads
<1>c. /\ l2' = [Load(l1.c) EXCEPT ![l1.c] = [Load(l1.c)[l1.c] EXCEPT ![g] = e]]
      /\ dirty' = dirty \cup {<<"l2", l1.c>>}
  BY DEF SetL2Entry
<1> HIDE DEF g
<1>0. /\ CacheInv
      /\ DOMAIN l2' = DOMAIN l2 \cup {l1.c} /\ l1.c \in Clusters
      /\ \A x \in DOMAIN l2 : x # l1.c => l2'[x] = l2[x]
      /\ l2'[l1.c] \in [Half -> EntrySet]
      /\ \A i \in Half : l2'[l1.c][i] = IF i = g THEN e ELSE Cached(i)
  BY <1>b, <1>c DEF AllInv
<1>1. \A i \in Half : Cached(i)' = IF i = g THEN e ELSE Cached(i)
  BY <1>a, <1>0 DEF Cached, Entries
<1>2. ASSUME NEW t \in DOMAIN l2'
      PROVE  /\ t \in {l1'.c, snap'} \/ \E o \in Cos : pc'[o] = "l1_write" /\ m'[o].c = t
             /\ l2'[t] \in [Half -> EntrySet]
             /\ <<"l2", t>> \notin dirty' => \A i \in Half : file'[Cell(t, i)] = l2'[t][i]
             /\ <<"l2", t>> \in dirty' => t # snap'
  <2>1. CASE t # l1.c
    <3>0. t \in DOMAIN l2
      BY <1>0, <2>1
    <3>1. /\ t \in {l1.c, snap} \/ \E o \in Cos : pc[o] = "l1_write" /\ m[o].c = t
          /\ l2[t] \in [Half -> EntrySet]
          /\ <<"l2", t>> \notin dirty => \A i \in Half : file[Cell(t, i)] = l2[t][i]
          /\ <<"l2", t>> \in dirty => t # snap
      BY <1>0, <3>0 DEF CacheInv
    <3>2. t \in {l1'.c, snap'} \/ \E o \in Cos : pc'[o] = "l1_write" /\ m'[o].c = t
      BY <3>1 DEF Writers
    <3>3. <<"l2", t>> \in dirty' <=> <<"l2", t>> \in dirty
      BY <1>c, <2>1
    <3>4. QED BY <1>0, <2>1, <3>0, <3>1, <3>2, <3>3
  <2>2. CASE t = l1.c
    <3>1. <<"l2", t>> \in dirty'
      BY <1>c, <2>2
    <3>2. QED BY <1>0, <1>a, <2>2, <3>1
  <2>3. QED BY <2>1, <2>2
<1>3. l1' = file'[L1] /\ \A x \in lost'[L1] : \E o \in Cos : pc'[o] = "l1_sync" /\ x.c = old'[o]
  BY <1>0 DEF CacheInv, Writers
<1>4. DOMAIN l2' \subseteq Clusters /\ dirty' \subseteq {<<"ref", 0>>} \cup {<<"l2", t>> : t \in DOMAIN l2'}
      /\ (<<"ref", 0>> \notin dirty' => \A c \in Clusters : file'[Ref(c)] = refcount'[c])
  BY <1>0, <1>c DEF CacheInv
<1>5. QED BY <1>1, <1>2, <1>3, <1>4 DEF CacheInv, g

(* A copy of the guest's table is made in the cache.                       *)
LEMMA L2CopyIs ==
  ASSUME OnlyDataFails, AllInv, NEW w \in Cos, L2Copy(w), NEW c, c = m[w].c
  PROVE  /\ c \in Clusters /\ Holds(w) /\ pc[w] = "l2_copy" /\ lock = w /\ stack = <<>>
         /\ c \notin DOMAIN l2 /\ c # l1.c /\ c # snap
         /\ DOMAIN l2' = DOMAIN l2 \cup ({l1.c} \ {0}) \cup {c}
         /\ \A x \in DOMAIN l2 : l2'[x] = l2[x]
         /\ l1.c # 0 => l2'[l1.c] \in [Half -> EntrySet] /\ \A i \in Half : l2'[l1.c][i] = Cached(i)
         /\ l2'[c] \in [Half -> EntrySet] /\ \A i \in Half : l2'[c][i] = Cached(i)
         /\ dirty' = dirty \cup {<<"l2", c>>}
         /\ UNCHANGED <<file, lost, l1, refcount, snap>>
         /\ \A i \in Half : Cached(i)' = Cached(i)
<1>1. pc[w] = "l2_copy" /\ lock = w /\ stack = <<>>
  BY DEF L2Copy, Owns
<1>2. Holds(w) /\ c \in Clusters /\ Apart(c)
  BY <1>1, HeldIs DEF Holds
<1>3. c \notin DOMAIN l2 /\ c # l1.c /\ c # snap
  BY <1>2, ClustersAre DEF Apart, AllInv, TypeInv
<1>4. /\ l2' = [x \in DOMAIN Load(l1.c) \cup {c} |->
                 IF x # c THEN Load(l1.c)[x]
                 ELSE IF l1.c = 0 THEN [i \in Half |-> Unallocated]
                 ELSE Load(l1.c)[l1.c]]
      /\ dirty' = dirty \cup {<<"l2", c>>} /\ UNCHANGED <<file, lost, l1, refcount, snap>>
  BY DEF L2Copy, image
<1>5. CASE l1.c = 0
  <2>1. Load(l1.c) = l2
    BY <1>5 DEF Load
  <2>2. /\ DOMAIN l2' = DOMAIN l2 \cup {c} /\ \A x \in DOMAIN l2 : l2'[x] = l2[x]
        /\ l2'[c] = [i \in Half |-> Unallocated]
    BY <1>3, <1>4, <1>5, <2>1
  <2>3. \A i \in Half : Cached(i) = Unallocated /\ Unallocated \in EntrySet
    BY <1>5, EntriesAre DEF Cached
  <2>4. \A i \in Half : Cached(i)' = Cached(i)
    BY <1>4, <1>5, <2>3 DEF Cached
  <2>5. QED BY <1>1, <1>2, <1>3, <1>4, <1>5, <2>2, <2>3, <2>4
<1>6. CASE l1.c # 0
  <2>1. /\ DOMAIN Load(l1.c) = DOMAIN l2 \cup {l1.c} /\ l1.c \in Clusters
        /\ \A x \in DOMAIN l2 : Load(l1.c)[x] = l2[x]
        /\ Load(l1.c)[l1.c] \in [Half -> EntrySet]
        /\ \A i \in Half : Load(l1.c)[l1.c][i] = Cached(i)
    BY <1>6, TableLoads
  <2>2. /\ DOMAIN l2' = DOMAIN l2 \cup {l1.c} \cup {c} /\ \A x \in DOMAIN l2 : l2'[x] = l2[x]
        /\ l2'[c] = Load(l1.c)[l1.c] /\ l2'[l1.c] = Load(l1.c)[l1.c]
    BY <1>3, <1>4, <1>6, <2>1
  <2>3. \A i \in Half : Cached(i)' = Cached(i)
    BY <1>4, <1>6, <2>1, <2>2 DEF Cached, Entries
  <2>4. QED BY <1>1, <1>2, <1>3, <1>4, <1>6, <2>1, <2>2, <2>3
<1>7. QED BY <1>5, <1>6
LEMMA CopyKeepsCache ==
  ASSUME OnlyDataFails, AllInv, NEW w \in Cos, L2Copy(w)
  PROVE  CacheInv' /\ \A i \in Half : Cached(i)' = Cached(i)
<1> SUFFICES ASSUME NEW c, c = m[w].c
             PROVE  CacheInv' /\ \A i \in Half : Cached(i)' = Cached(i)
  OBVIOUS
<1>1. /\ c \in Clusters /\ Holds(w) /\ pc[w] = "l2_copy" /\ lock = w /\ stack = <<>>
      /\ c \notin DOMAIN l2 /\ c # l1.c /\ c # snap
      /\ DOMAIN l2' = DOMAIN l2 \cup ({l1.c} \ {0}) \cup {c}
      /\ \A x \in DOMAIN l2 : l2'[x] = l2[x]
      /\ l1.c # 0 => l2'[l1.c] \in [Half -> EntrySet] /\ \A i \in Half : l2'[l1.c][i] = Cached(i)
      /\ l2'[c] \in [Half -> EntrySet] /\ \A i \in Half : l2'[c][i] = Cached(i)
      /\ dirty' = dirty \cup {<<"l2", c>>}
      /\ UNCHANGED <<file, lost, l1, refcount, snap>>
      /\ \A i \in Half : Cached(i)' = Cached(i)
  BY L2CopyIs
<1>2. CacheInv /\ WaitInv /\ Progress(w)
  BY DEF AllInv, Progress
<1>3. Writers
  BY <1>1, <1>2, WritersStay
<1>4. pc'[w] = "l1_write" /\ m'[w].c = c
  <2>1. Goto(w, "l1_write") /\ m' = m
    BY DEF L2Copy
  <2>2. QED BY <1>2, <2>1, GotoIs
<1>5. ASSUME NEW t \in DOMAIN l2'
      PROVE  /\ t \in {l1'.c, snap'} \/ \E o \in Cos : pc'[o] = "l1_write" /\ m'[o].c = t
             /\ l2'[t] \in [Half -> EntrySet]
             /\ <<"l2", t>> \notin dirty' => \A i \in Half : file'[Cell(t, i)] = l2'[t][i]
             /\ <<"l2", t>> \in dirty' => t # snap'
  <2>1. CASE t \in DOMAIN l2
    <3>1. /\ t \in {l1.c, snap} \/ \E o \in Cos : pc[o] = "l1_write" /\ m[o].c = t
          /\ l2[t] \in [Half -> EntrySet]
          /\ <<"l2", t>> \notin dirty => \A i \in Half : file[Cell(t, i)] = l2[t][i]
          /\ <<"l2", t>> \in dirty => t # snap
      BY <1>2, <2>1 DEF CacheInv
    <3>2. t \in {l1'.c, snap'} \/ \E o \in Cos : pc'[o] = "l1_write" /\ m'[o].c = t
      BY <1>1, <1>3, <3>1 DEF Writers
    <3>3. <<"l2", t>> \in dirty' <=> <<"l2", t>> \in dirty
      BY <1>1, <2>1
    <3>4. QED BY <1>1, <2>1, <3>1, <3>2, <3>3
  <2>2. CASE t = c
    <3>1. <<"l2", t>> \in dirty'
      BY <1>1, <2>2
    <3>2. QED BY <1>1, <1>4, <2>2, <3>1
  <2>3. CASE t \notin DOMAIN l2 /\ t # c
    <3>1. t = l1.c /\ l1.c # 0
      BY <1>1, <2>3
    <3>2. <<"l2", t>> \notin dirty /\ <<"l2", t>> \notin dirty'
      BY <1>1, <2>3, <3>1, NewTable
    <3>3. \A i \in Half : file[Cell(t, i)] = Cached(i)
      BY <3>1, <3>2, TableLoads
    <3>4. QED BY <1>1, <3>1, <3>2, <3>3
  <2>4. QED BY <2>1, <2>2, <2>3
<1>6. l1' = file'[L1] /\ \A e \in lost'[L1] : \E o \in Cos : pc'[o] = "l1_sync" /\ e.c = old'[o]
  BY <1>1, <1>2, <1>3 DEF CacheInv, Writers
<1>7. DOMAIN l2' \subseteq Clusters
  BY <1>1, <1>2, CachedIs DEF CacheInv
<1>8. dirty' \subseteq {<<"ref", 0>>} \cup {<<"l2", t>> : t \in DOMAIN l2'}
      /\ (<<"ref", 0>> \notin dirty' => \A d \in Clusters : file'[Ref(d)] = refcount'[d])
  BY <1>1, <1>2 DEF CacheInv
<1>9. QED BY <1>1, <1>5, <1>6, <1>7, <1>8 DEF CacheInv

LEMMA EvictKeepsCache ==
  ASSUME OnlyDataFails, AllInv, NEW w \in Cos, Replace(w)
  PROVE  CacheInv' /\ \A i \in Half : Cached(i)' = Cached(i)
<1>1. /\ UNCHANGED <<file, lost, l1, refcount, snap, dirty>> /\ lock = w /\ stack = <<>>
      /\ pc[w] \in {"get", "evict"} /\ CacheInv /\ Progress(w)
  BY DEF Replace, Owns, image, AllInv, Progress
<1>2. Writers
  BY <1>1, WritersStay
<1>3. CASE l2' = l2
  <2>1. CacheInv'
    BY <1>1, <1>2, <1>3, CacheStays
  <2>2. QED BY <1>1, <1>3, <2>1 DEF Cached, Entries
<1>4. CASE pc[w] = "evict" /\ l2' = [t \in DOMAIN l2 \ {old[w]} |-> l2[t]]
  <2>1. <<"l2", old[w]>> \notin dirty
    BY <1>1, <1>4 DEF AllInv, TableInv
  <2>2. \A t \in DOMAIN l2' : t \in DOMAIN l2 /\ l2'[t] = l2[t]
    BY <1>4
  <2>3. ASSUME NEW t \in DOMAIN l2'
        PROVE  /\ t \in {l1'.c, snap'} \/ \E o \in Cos : pc'[o] = "l1_write" /\ m'[o].c = t
               /\ l2'[t] \in [Half -> EntrySet]
               /\ <<"l2", t>> \notin dirty' => \A i \in Half : file'[Cell(t, i)] = l2'[t][i]
               /\ <<"l2", t>> \in dirty' => t # snap'
    <3>1. /\ t \in {l1.c, snap} \/ \E o \in Cos : pc[o] = "l1_write" /\ m[o].c = t
          /\ l2[t] \in [Half -> EntrySet]
          /\ <<"l2", t>> \notin dirty => \A i \in Half : file[Cell(t, i)] = l2[t][i]
          /\ <<"l2", t>> \in dirty => t # snap
      BY <1>1, <2>2 DEF CacheInv
    <3>2. t \in {l1'.c, snap'} \/ \E o \in Cos : pc'[o] = "l1_write" /\ m'[o].c = t
      BY <1>1, <1>2, <3>1 DEF Writers
    <3>3. QED BY <1>1, <2>2, <3>1, <3>2
  <2>4. dirty' \subseteq {<<"ref", 0>>} \cup {<<"l2", t>> : t \in DOMAIN l2'}
    <3>1. dirty \subseteq {<<"ref", 0>>} \cup {<<"l2", t>> : t \in DOMAIN l2}
      BY <1>1 DEF CacheInv
    <3>2. QED BY <1>1, <1>4, <2>1, <3>1
  <2>5. DOMAIN l2' \subseteq Clusters
    BY <1>1, <2>2 DEF CacheInv
  <2>6. l1' = file'[L1] /\ \A e \in lost'[L1] : \E o \in Cos : pc'[o] = "l1_sync" /\ e.c = old'[o]
    BY <1>1, <1>2 DEF CacheInv, Writers
  <2>7. <<"ref", 0>> \notin dirty' => \A d \in Clusters : file'[Ref(d)] = refcount'[d]
    BY <1>1 DEF CacheInv
  <2>8. CacheInv'
    BY <2>3, <2>4, <2>5, <2>6, <2>7 DEF CacheInv
  <2>9. ASSUME NEW i \in Half PROVE Cached(i)' = Cached(i)
    <3>1. CASE l1.c = old[w] /\ l1.c \in DOMAIN l2
      <4>1. l2[l1.c][i] = file[Cell(l1.c, i)]
        BY <1>1, <2>1, <3>1 DEF CacheInv
      <4>2. l1.c \notin DOMAIN l2'
        BY <1>4, <3>1
      <4>3. QED BY <1>1, <3>1, <4>1, <4>2 DEF Cached, Entries
    <3>2. CASE ~ (l1.c = old[w] /\ l1.c \in DOMAIN l2)
      <4>1. (l1.c \in DOMAIN l2' <=> l1.c \in DOMAIN l2) /\ (l1.c \in DOMAIN l2 => l2'[l1.c] = l2[l1.c])
        BY <1>4, <3>2
      <4>2. QED BY <1>1, <4>1 DEF Cached, Entries
    <3>3. QED BY <3>1, <3>2
  <2>10. QED BY <2>8, <2>9
<1>5. QED BY <1>3, <1>4 DEF Replace

LEMMA L1KeepsCache ==
  ASSUME OnlyDataFails, AllInv, NEW w \in Cos, WriteL1Entry(w)
  PROVE  CacheInv' /\ \A i \in Half : Cached(i)' = Cached(i)
<1> SUFFICES ASSUME NEW c, c = m[w].c
             PROVE  CacheInv' /\ \A i \in Half : Cached(i)' = Cached(i)
  OBVIOUS
<1>1. /\ pc[w] = "l1_write" /\ lock = w /\ c \in Clusters
      /\ l1.c \in {0, snap}
      /\ l1' = Entry(c, "copied") /\ file'[L1] = l1' /\ lost'[L1] \subseteq {l1}
      /\ \A u \in Units \ {L1} : file'[u] = file[u]
      /\ \A i \in Half : Cached(i)' = Cached(i)
      /\ pc'[w] = "l1_sync" /\ old' = [old EXCEPT ![w] = l1.c]
      /\ UNCHANGED <<snap, refcount, l2, dirty, m>>
  BY WriteL1Is
<1>2. CacheInv /\ old'[w] = l1.c /\ l1'.c = c /\ WaitInv
  BY <1>1, EntriesAre DEF AllInv, TypeInv
<1>3. \A o \in Cos : pc[o] = "l1_write" => o = w
  BY <1>1, <1>2 DEF WaitInv, LockPlaces, Locked
<1>4. \A t \in Clusters, i \in Half : file'[Cell(t, i)] = file[Cell(t, i)]
  BY <1>1, UnitsAre, UnitsDiffer
<1>5. \A d \in Clusters : file'[Ref(d)] = file[Ref(d)]
  BY <1>1, UnitsAre, UnitsDiffer
<1>6. \A e \in lost'[L1] : \E o \in Cos : pc'[o] = "l1_sync" /\ e.c = old'[o]
  BY <1>1, <1>2
<1>7. ASSUME NEW t \in DOMAIN l2'
      PROVE  /\ t \in {l1'.c, snap'}
             /\ l2'[t] \in [Half -> EntrySet]
             /\ <<"l2", t>> \notin dirty' => \A i \in Half : file'[Cell(t, i)] = l2'[t][i]
             /\ <<"l2", t>> \in dirty' => t # snap'
  <2>1. /\ t \in {l1.c, snap} \/ \E o \in Cos : pc[o] = "l1_write" /\ m[o].c = t
        /\ l2[t] \in [Half -> EntrySet] /\ t \in Clusters
        /\ <<"l2", t>> \notin dirty => \A i \in Half : file[Cell(t, i)] = l2[t][i]
        /\ <<"l2", t>> \in dirty => t # snap
    BY <1>1, <1>2 DEF CacheInv
  <2>2. t # 0
    BY <2>1, ClustersAre
  <2>3. t \in {l1'.c, snap'}
    BY <1>1, <1>2, <1>3, <2>1, <2>2
  <2>4. QED BY <1>1, <1>4, <2>1, <2>3
<1>8. QED BY <1>1, <1>2, <1>5, <1>6, <1>7 DEF CacheInv

LEMMA SyncKeepsCache ==
  ASSUME OnlyDataFails, AllInv, NEW w \in Cos, SyncL1Entry(w)
  PROVE  CacheInv' /\ \A i \in Half : Cached(i)' = Cached(i)
<1>1. /\ Flushed /\ UNCHANGED <<l1, l2, dirty, refcount, snap, m>> /\ CacheInv
      /\ pc[w] = "l1_sync" /\ lock = w /\ WaitInv /\ Goto(w, "table")
  BY TablesNeverFail DEF SyncL1Entry, Owns, AllInv, caches
<1>2. file' = file /\ lost'[L1] = {}
  BY <1>1, UnitsAre DEF Flushed
<1>3. \A o \in Cos : pc[o] = "l1_write" => pc'[o] = "l1_write"
  BY <1>1, GotoIs
<1>4. CacheInv'
  <2>1. \A t \in DOMAIN l2' :
       /\ t \in {l1'.c, snap'} \/ \E o \in Cos : pc'[o] = "l1_write" /\ m'[o].c = t
       /\ l2'[t] \in [Half -> EntrySet]
       /\ <<"l2", t>> \notin dirty' => \A i \in Half : file'[Cell(t, i)] = l2'[t][i]
       /\ <<"l2", t>> \in dirty' => t # snap'
    <3> TAKE t \in DOMAIN l2'
    <3>1. t \in {l1.c, snap} \/ \E o \in Cos : pc[o] = "l1_write" /\ m[o].c = t
      BY <1>1 DEF CacheInv
    <3>2. /\ l2[t] \in [Half -> EntrySet]
          /\ <<"l2", t>> \in dirty => t # snap
          /\ <<"l2", t>> \notin dirty => \A i \in Half : file[Cell(t, i)] = l2[t][i]
      BY <1>1 DEF CacheInv
    <3>3. t \in {l1'.c, snap'} \/ \E o \in Cos : pc'[o] = "l1_write" /\ m'[o].c = t
      BY <1>1, <1>3, <3>1
    <3>4. QED BY <1>1, <1>2, <3>2, <3>3
  <2>2. QED BY <1>1, <1>2, <2>1 DEF CacheInv
<1>5. QED BY <1>1, <1>2, <1>4 DEF Cached, Entries

(* What the guest's table says in memory after a step of a request.        *)
Becomes(w, i) ==
  IF i = req[w].g /\ LinkL2(w) THEN Entry(m[w].c, "copied")
  ELSE IF i = req[w].g /\ Unmap(w) THEN Unallocated ELSE Cached(i)

LEMMA ProgressKeepsCache ==
  ASSUME OnlyDataFails, AllInv, NEW w \in Cos, Progress(w)
  PROVE  CacheInv' /\ \A i \in Half : Cached(i)' = Becomes(w, i)
<1> USE DEF calls, caches, requests, image, ghosts
<1>0. /\ ret = TRUE /\ CacheInv /\ \A o \in Cos : pc[o] # "l2_put"
  BY DEF AllInv, ShapeInv
<1>g. req[w].g \in Half
  BY RequestIs
<1>n. ASSUME ~ LinkL2(w), ~ Unmap(w), CacheInv' /\ \A i \in Half : Cached(i)' = Cached(i)
      PROVE  CacheInv' /\ \A i \in Half : Cached(i)' = Becomes(w, i)
  BY <1>n DEF Becomes
<1>1. CASE L2Copy(w) \/ Replace(w) \/ WriteL1Entry(w) \/ SyncL1Entry(w)
  <2>1. ~ LinkL2(w) /\ ~ Unmap(w)
    BY <1>1 DEF L2Copy, Replace, WriteL1Entry, SyncL1Entry, LinkL2, Unmap
  <2>2. QED BY <1>1, <1>n, <2>1, CopyKeepsCache, EvictKeepsCache, L1KeepsCache, SyncKeepsCache
<1>2. CASE pc[w] \in {"data", "copy"} /\ Apart(m[w].c) /\ Transfer(m[w].c)
                /\ UNCHANGED <<l1, l2, dirty, refcount, snap>>
  <2>0. ~ LinkL2(w) /\ ~ Unmap(w) /\ Writers
    BY <1>2, WritersStay DEF LinkL2, Unmap
  <2>1. PICK ws : /\ Written(ws) /\ DOMAIN ws \subseteq {Cell(m[w].c, h) : h \in Half}
    BY <1>2 DEF Transfer
  <2>2. ASSUME NEW c, c = m[w].c
        PROVE  CacheInv' /\ \A i \in Half : Cached(i)' = Cached(i)
    <3>1. /\ \A d \in Clusters : file'[Ref(d)] = file[Ref(d)]
          /\ \A t \in Clusters \ {c}, i \in Half :
              /\ file'[Cell(t, i)] = file[Cell(t, i)] /\ lost'[Cell(t, i)] = lost[Cell(t, i)]
              /\ Possible(Cell(t, i))' = Possible(Cell(t, i))
          /\ file'[L1] = file[L1] /\ lost'[L1] = lost[L1]
          /\ \A i \in Half : Cached(i)' = Cached(i)
      BY <1>2, <2>1, <2>2, DataWritten
    <3>2. \A t \in DOMAIN l2 : t \in Clusters \ {c}
      BY <1>0, <1>2, <2>2 DEF Apart, CacheInv
    <3>3. CacheInv'
      BY <1>0, <1>2, <2>0, <3>1, <3>2, CacheStays
    <3>4. QED BY <3>1, <3>3
  <2>3. QED BY <1>n, <2>0, <2>2
<1>3. CASE GetClusterTable(w)
  <2>0. pc[w] = "table" /\ ~ LinkL2(w) /\ ~ Unmap(w) /\ Writers
        /\ UNCHANGED <<file, lost, l1, dirty, refcount, snap>>
    BY <1>3, WritersStay DEF GetClusterTable, LinkL2, Unmap, Owns
  <2>1. CASE l1.flag = "copied"
    <3>1. l1.c # 0 /\ l2' = Load(l1.c)
      BY <1>3, <2>1, L1Private, ClustersAre DEF GetClusterTable
    <3>2. QED BY <1>n, <2>0, <3>1, LoadKeepsCache
  <2>2. CASE l1.flag # "copied"
    <3>1. l2' = l2
      BY <1>3, <2>2 DEF GetClusterTable
    <3>2. CacheInv'
      BY <1>0, <2>0, <3>1, CacheStays
    <3>3. \A i \in Half : Cached(i)' = Cached(i)
      BY <2>0, <3>1 DEF Cached, Entries
    <3>4. QED BY <1>n, <2>0, <3>2, <3>3
  <2>3. QED BY <2>1, <2>2
<1>4. CASE LinkL2(w)
  <2>1. /\ pc[w] = "link" /\ SetL2Entry(w, Entry(m[w].c, "copied"))
        /\ UNCHANGED <<file, lost, l1, refcount, snap>> /\ Writers
    BY <1>4, WritersStay DEF LinkL2
  <2>2. l1.flag = "copied" /\ m[w].alloc
    BY <2>1 DEF AllInv, RequestInv, Mapped
  <2>3. Holds(w)
    BY <2>1, <2>2 DEF Holds
  <2>4. Entry(m[w].c, "copied") \in EntrySet
    BY <2>3, HeldIs, EntriesAre DEF Flags
  <2>5. CacheInv' /\ \A i \in Half : Cached(i)' = IF i = req[w].g THEN Entry(m[w].c, "copied") ELSE Cached(i)
    BY <2>1, <2>2, <2>4, SetKeepsCache
  <2>6. ~ Unmap(w)
    BY <2>1 DEF Unmap
  <2>7. QED BY <1>4, <2>5, <2>6 DEF Becomes
<1>5. CASE Unmap(w)
  <2>1. /\ pc[w] = "unmap" /\ UNCHANGED <<file, lost, l1, refcount, snap>> /\ Writers
        /\ ~ LinkL2(w)
    BY <1>5, WritersStay DEF Unmap, LinkL2
  <2>2. l1.flag = "copied" /\ l1.c \in DOMAIN l2
    BY <2>1 DEF AllInv, RequestInv, Mapped
  <2>3. L2Entry(w) = Cached(req[w].g) /\ Cached(req[w].g) \in EntrySet
    BY <1>g, <2>2, CachedIs DEF L2Entry
  <2>4. CASE L2Entry(w).c = 0
    <3>1. l2' = l2 /\ dirty' = dirty
      BY <1>5, <2>4 DEF Unmap
    <3>2. CacheInv'
      BY <1>0, <2>1, <3>1, CacheStays
    <3>3. \A i \in Half : Cached(i)' = Cached(i)
      BY <2>1, <3>1 DEF Cached, Entries
    <3>4. Cached(req[w].g) = Unallocated
      BY <2>3, <2>4, EntriesAre
    <3>5. QED BY <1>5, <2>1, <3>2, <3>3, <3>4 DEF Becomes
  <2>5. CASE L2Entry(w).c # 0
    <3>1. SetL2Entry(w, Unallocated)
      BY <1>5, <2>5 DEF Unmap
    <3>2. Unallocated \in EntrySet
      BY EntriesAre
    <3>3. CacheInv' /\ \A i \in Half : Cached(i)' = IF i = req[w].g THEN Unallocated ELSE Cached(i)
      BY <2>1, <2>2, <3>1, <3>2, SetKeepsCache
    <3>4. QED BY <1>5, <2>1, <3>3 DEF Becomes
  <2>6. QED BY <2>4, <2>5
<1>6. CASE /\ ~ L2Copy(w) /\ ~ Replace(w) /\ ~ WriteL1Entry(w) /\ ~ SyncL1Entry(w)
           /\ ~ GetClusterTable(w) /\ ~ LinkL2(w) /\ ~ Unmap(w)
           /\ ~ (pc[w] \in {"data", "copy"} /\ Apart(m[w].c) /\ Transfer(m[w].c)
                 /\ UNCHANGED <<l1, l2, dirty, refcount, snap>>)
  <2>1. Settled /\ UNCHANGED <<l1, snap, refcount>>
    BY <1>6, ProgressImage
  <2>2. UNCHANGED <<l2, dirty>> /\ pc[w] \notin {"l1_sync", "l1_write"}
    BY <1>0, <1>6 DEF Progress, Enter, L2FlushRefcount, AllocClusterOffset,
       InsertInFlight, WriteData, Relock, CopySectors, FreeOld, CallFailed, Fail, Leave, Done,
       L2AllocateFailed, UnmapPut, FlushToOs, FlushDisk
  <2>3. Writers
    BY <2>2, WritersStay
  <2>4. file' = file /\ lost'[L1] \subseteq lost[L1]
    BY <2>1, UnitsAre DEF Settled
  <2>5. CacheInv'
    BY <1>0, <2>1, <2>2, <2>3, <2>4, CacheStays
  <2>6. \A i \in Half : Cached(i)' = Cached(i)
    BY <2>1, <2>2, <2>4 DEF Cached, Entries
  <2>7. QED BY <1>6, <1>n, <2>5, <2>6
<1>7. QED BY <1>1, <1>2, <1>3, <1>4, <1>5, <1>6
-----------------------------------------------------------------------------
(* The requests.                                                           *)

(* What RequestInv says of one of them, and of two.                        *)
PlaceOk(w) ==
  /\ pc[w] = "idle" <=> req[w].op = "none"
  /\ pc[w] \in Mapped => l1.flag = "copied" /\ req[w].halves # {}
  /\ pc[w] \in {"map", "unmap"} => l1.c \in DOMAIN l2
  /\ pc[w] \in {"l2_flush_refcount", "l2_copy", "l1_write"} =>
       l1.flag = "none" /\ l1.c \in {0, snap}
  /\ pc[w] = "unmap" => req[w].halves = Half
  /\ req[w].op = "write" => req[w].halves # {}
  /\ req[w].op = "discard" => req[w].halves = Half
  /\ pc[w] \in {"copy", "copied", "link", "unlink"} => m[w].alloc
  /\ pc[w] = "l1_sync" => old[w] \in {0, snap}
  /\ pc[w] = "failed" => errors > 0
EntryOk(w) ==
  /\ pc[w] = "data" /\ ~ m[w].alloc =>
       Cached(req[w].g) = Entry(m[w].c, "copied")
  /\ (pc[w] = "mapped" \/ m[w].alloc) /\ Holds(w) =>
       Cached(req[w].g).flag # "copied"
AloneOk(w) ==
  pc[w] = "mapped" \/ m[w].alloc => \A o \in Cos \ {w} :
    m[o].alloc => req[o].g # req[w].g
DistinctOk == \A w, o \in Cos : w # o => Touches(w) \cap Touches(o) = {}

LEMMA RequestInvIs ==
  RequestInv <=> (\A w \in Cos : PlaceOk(w) /\ EntryOk(w) /\ AloneOk(w)) /\ DistinctOk
BY DEF RequestInv, PlaceOk, EntryOk, AloneOk, DistinctOk

LEMMA RequestInvThen ==
  ASSUME \A w \in Cos : PlaceOk(w)', \A w \in Cos : EntryOk(w)', \A w \in Cos : AloneOk(w)',
         DistinctOk'
  PROVE  RequestInv'
BY DEF RequestInv, PlaceOk, EntryOk, AloneOk, DistinctOk

LEMMA CallKeepsCached ==
  ASSUME OnlyDataFails, AllInv, CallStep
  PROVE  \A i \in Half : Cached(i)' = Cached(i)
<1>1. UNCHANGED <<l1, l2>>
  BY CallForms DEF AllInv
<1>2. CASE Settled
  BY <1>1, <1>2 DEF Settled, Cached, Entries
<1>3. CASE EntryFlushWrite
  BY <1>3, WrittenTables
<1>4. QED BY <1>2, <1>3, CallImage

LEMMA CallKeepsRequests ==
  ASSUME OnlyDataFails, AllInv, CallStep
  PROVE  RequestInv'
<1>1. UNCHANGED <<requests, snap, l1, l2, errors>>
  BY CallForms DEF AllInv
<1>2. (\A w \in Cos : PlaceOk(w) /\ EntryOk(w) /\ AloneOk(w)) /\ DistinctOk
  BY RequestInvIs DEF AllInv
<1>3. ASSUME NEW w \in Cos PROVE PlaceOk(w)' /\ EntryOk(w)' /\ AloneOk(w)'
  <2>1. Cached(req[w].g)' = Cached(req[w].g)
    <3> SUFFICES ASSUME NEW i \in Half, i = req[w].g PROVE Cached(i)' = Cached(i)
      BY <1>1, RequestIs DEF requests, Cached, Entries
    <3>1. QED BY CallKeepsCached
  <2>2. Holds(w)' <=> Holds(w)
    BY <1>1 DEF requests, Holds
  <2>3. QED BY <1>1, <1>2, <2>1, <2>2 DEF requests, PlaceOk, EntryOk, AloneOk
<1>4. DistinctOk'
  BY <1>1, <1>2 DEF requests, DistinctOk, Touches
<1>5. QED BY <1>3, <1>4, RequestInvThen

(* A step of a request other than the owner of the lock leaves the tables  *)
(* in memory alone, and none changes what it asks for.                     *)
LEMMA RequestGoes ==
  ASSUME OnlyDataFails, AllInv, NEW w \in Cos, Progress(w)
  PROVE  /\ \/ req'[w] = req[w] /\ pc'[w] # "idle" /\ pc[w] # "idle"
            \/ req'[w] = NoRequest /\ pc'[w] = "idle" /\ m'[w].alloc = FALSE
         /\ m'[w].alloc => m[w].alloc \/ InsertInFlight(w)
         /\ snap' = snap /\ errors' >= errors
         /\ lock # w => UNCHANGED <<l1, l2, dirty>>
<1> USE DEF calls, caches, requests, image, ghosts
<1>0. /\ ret = TRUE /\ TypeInv /\ WaitInv /\ \A o \in Cos : pc[o] # "l2_put"
      /\ pc \in [Cos -> Locked \cup Unlocked] /\ (lock = w <=> pc[w] \in Locked)
      /\ (m[w].alloc => pc[w] \in InFlight)
  BY RequestIs DEF AllInv, ShapeInv, WaitInv, PlacesType
<1>t. ~ Fails("flush") /\ ~ Fails("table")
  BY TablesNeverFail
<1>s. snap' = snap
  BY ProgressImage
<1>1. CASE \E done : Leave(w, done)
  BY <1>0, <1>1, <1>s DEF Leave, TypeInv, NoMeta
<1>2. CASE ~ \E done : Leave(w, done)
  <2>0. ~ CallFailed(w) /\ ~ L2AllocateFailed(w) /\ ~ Done(w)
    BY <1>0, <1>2 DEF CallFailed, Fail, L2AllocateFailed, Done
  <2>1. \/ req' = req
        \/ req' = [req EXCEPT ![w] = NoRequest] /\ pc'[w] = "idle" /\ pc[w] = "flush_disk" /\ m' = m
    BY <1>0, <1>2, <2>0
    DEF TypeInv, Progress, Enter, GetClusterTable,
         L2FlushRefcount, L2Copy, WriteL1Entry, SyncL1Entry, AllocClusterOffset,
         InsertInFlight, WriteData, Relock, CopySectors, LinkL2, FreeOld,
         Unmap, UnmapPut, FlushToOs, FlushDisk, Replace, Fail, Goto
  <2>2. m[w].alloc => pc[w] # "flush_disk"
    BY <1>0 DEF InFlight
  <2>3. pc[w] # "idle" /\ (req' = req => pc'[w] # "idle")
    <3>1. CASE FlushDisk(w)
      <4>1. req[w].op # "none"
        BY <3>1 DEF FlushDisk, AllInv, RequestInv
      <4>2. req'[w] = NoRequest
        BY <1>0, <3>1 DEF FlushDisk, TypeInv
      <4>3. QED BY <3>1, <4>1, <4>2 DEF FlushDisk, NoRequest
    <3>2. CASE ~ FlushDisk(w)
      BY <1>0, <1>t, <1>2, <2>0, <3>2
      DEF Progress, Enter, GetClusterTable,
         L2FlushRefcount, L2Copy, WriteL1Entry, SyncL1Entry, AllocClusterOffset,
         InsertInFlight, WriteData, Relock, CopySectors, LinkL2, FreeOld,
         Unmap, UnmapPut, FlushToOs, Replace, Fail, Goto
    <3>3. QED BY <3>1, <3>2
  <2>4. m'[w].alloc => m[w].alloc \/ InsertInFlight(w)
    <3>1. \/ m' = m \/ InsertInFlight(w) \/ \E c : m' = [m EXCEPT ![w].c = c]
          \/ \E c : m' = [m EXCEPT ![w] = [alloc |-> FALSE, c |-> c]]
      BY <1>0, <1>2, <2>0
      DEF NoMeta, Progress, Enter, GetClusterTable,
         L2FlushRefcount, L2Copy, WriteL1Entry, SyncL1Entry, AllocClusterOffset,
         WriteData, Relock, CopySectors, LinkL2, FreeOld,
         Unmap, UnmapPut, FlushToOs, FlushDisk, Replace, Fail
    <3>2. ASSUME NEW c, m' = [m EXCEPT ![w].c = c] PROVE m'[w].alloc = m[w].alloc
      BY <1>0, <3>2 DEF TypeInv
    <3>3. ASSUME NEW c, m' = [m EXCEPT ![w] = [alloc |-> FALSE, c |-> c]]
          PROVE  m'[w].alloc = FALSE
      BY <1>0, <3>3 DEF TypeInv
    <3>4. QED BY <3>1, <3>2, <3>3
  <2>5. errors' >= errors
    <3>1. errors' = errors \/ Fails("data")
      BY <1>0, <1>t, <1>2, <2>0
      DEF Progress, Enter, GetClusterTable,
         L2FlushRefcount, L2Copy, WriteL1Entry, SyncL1Entry, AllocClusterOffset,
         InsertInFlight, WriteData, Relock, CopySectors, LinkL2, FreeOld,
         Unmap, UnmapPut, FlushToOs, FlushDisk, Replace, Fail
    <3>2. errors \in Nat /\ (errors' = errors \/ errors' = errors + 1)
      BY <1>0, <3>1 DEF TypeInv, Fails
    <3>3. QED BY <3>2
  <2>6. lock # w => UNCHANGED <<l1, l2, dirty>>
    BY <1>0, <1>2, <2>0
    DEF Progress, Enter, GetClusterTable, Owns,
         L2FlushRefcount, L2Copy, WriteL1Entry, SyncL1Entry, AllocClusterOffset,
         InsertInFlight, WriteData, Relock, CopySectors, LinkL2, FreeOld,
         Unmap, UnmapPut, FlushToOs, FlushDisk, Replace, Fail
  <2>7. req' = [req EXCEPT ![w] = NoRequest] => req'[w] = NoRequest
    BY <1>0 DEF TypeInv
  <2>8. m[w].alloc \in BOOLEAN
    BY RequestIs
  <2>9. QED BY <1>s, <2>1, <2>2, <2>3, <2>4, <2>5, <2>6, <2>7, <2>8
<1>3. QED BY <1>1, <1>2
-----------------------------------------------------------------------------
(* A request under way takes its clusters of the disk for itself.          *)
LEMMA OthersKeepRequests ==
  ASSUME OnlyDataFails, AllInv, NEW w \in Cos, Progress(w), NEW o \in Cos, o # w
  PROVE  PlaceOk(o)' /\ EntryOk(o)'
<1>1. /\ m'[o] = m[o] /\ old'[o] = old[o] /\ req'[o] = req[o]
      /\ pc'[o] = pc[o] \/ (pc[o] = "waiting" /\ pc'[o] = "enter")
  BY OthersStay
<1>2. PlaceOk(o) /\ EntryOk(o) /\ AloneOk(o) /\ AloneOk(w) /\ PlaceOk(w) /\ EntryOk(w)
      /\ Touches(w) \cap Touches(o) = {}
  BY RequestInvIs DEF AllInv, DistinctOk
<1>3. snap' = snap /\ errors' >= errors /\ errors \in Nat /\ errors' \in Nat
  <2>1. TypeInv'
    BY ProgressKeepsType
  <2>2. QED BY <2>1, RequestGoes DEF AllInv, TypeInv
<1>4. l1' = l1 \/ l1'.flag = "copied"
  <2>1. l1' = l1 \/ WriteL1Entry(w)
    BY ProgressImage
  <2>2. ASSUME WriteL1Entry(w) PROVE l1'.flag = "copied"
    <3> SUFFICES ASSUME NEW c, c = m[w].c PROVE l1'.flag = "copied"
      OBVIOUS
    <3>1. QED BY <2>2, WriteL1Is, EntriesAre
  <2>3. QED BY <2>1, <2>2
<1>5. pc[o] \in Locked => lock = o /\ UNCHANGED <<l1, l2>>
  BY RequestIs, RequestGoes
<1>6. PlaceOk(o)'
  BY <1>1, <1>2, <1>3, <1>4, <1>5 DEF PlaceOk, Mapped, Locked
<1>7. ASSUME NEW i \in Half, i = req[o].g PROVE EntryOk(o)'
  <2>1. Cached(i)' = Becomes(w, i)
    BY ProgressKeepsCache
  <2>2. Holds(o)' => Holds(o)
    BY <1>1 DEF Holds
  <2>3. m[o].alloc => pc[o] \in InFlight
    BY RequestIs
  <2>4. CASE Becomes(w, i) = Cached(i)
    <3>1. Cached(req[o].g)' = Cached(req[o].g)
      BY <1>1, <1>7, <2>1, <2>4 DEF Cached, Entries
    <3>2. QED BY <1>1, <1>2, <2>2, <2>3, <3>1 DEF EntryOk, InFlight
  <2>5. CASE i = req[w].g /\ LinkL2(w)
    <3>1. m[w].alloc /\ pc[w] = "link" /\ Holds(w)
      BY <1>2, <2>5 DEF LinkL2, PlaceOk, Holds
    <3>2. Cached(i).flag # "copied"
      BY <1>2, <2>5, <3>1 DEF EntryOk
    <3>3. ~ (pc[o] = "data" /\ ~ m[o].alloc)
      BY <1>2, <1>7, <3>2, EntriesAre DEF EntryOk
    <3>4. ~ (pc[o] = "mapped" \/ m[o].alloc)
      BY <1>2, <1>7, <2>5, <3>1 DEF AloneOk
    <3>5. QED BY <1>1, <3>3, <3>4 DEF EntryOk
  <2>6. CASE i = req[w].g /\ Unmap(w)
    <3>1. pc[w] = "unmap" /\ req[w].halves = Half
      BY <1>2, <2>6 DEF Unmap, PlaceOk
    <3>2. pc[o] \in Mapped => FALSE
      <4> SUFFICES ASSUME pc[o] \in Mapped PROVE FALSE
        OBVIOUS
      <4>1. PICK h : h \in req[o].halves
        BY <1>2 DEF PlaceOk
      <4>2. h \in Half
        BY <4>1, RequestIs
      <4>3. <<i, h>> \in Touches(w) /\ <<i, h>> \in Touches(o)
        BY <1>7, <2>6, <3>1, <4>1, <4>2 DEF Touches
      <4>4. QED BY <1>2, <4>3
    <3>3. pc[o] \notin Mapped => ~ m[o].alloc \/ pc[o] = "done"
      BY <2>3 DEF Mapped, InFlight
    <3>4. QED BY <1>1, <3>2, <3>3 DEF EntryOk, Mapped, Holds
  <2>7. QED BY <2>4, <2>5, <2>6 DEF Becomes
<1>8. QED BY <1>6, <1>7, RequestIs

LEMMA RequestMaps ==
  ASSUME OnlyDataFails, AllInv, NEW w \in Cos, Progress(w), pc'[w] = "mapped"
  PROVE  /\ AllocClusterOffset(w) /\ Conflicts(w) = {} /\ pc[w] = "map"
         /\ L2Entry(w).flag # "copied"
<1> USE DEF calls, caches, requests, image, ghosts
<1>0. /\ ret = TRUE /\ \A o \in Cos : pc[o] # "l2_put"
      /\ pc \in [Cos -> Locked \cup Unlocked]
  BY DEF AllInv, ShapeInv, WaitInv, PlacesType
<1>1. \A done : ~ Leave(w, done)
  BY <1>0 DEF Leave
<1>2. ~ CallFailed(w) /\ ~ L2AllocateFailed(w) /\ ~ Done(w) /\ pc[w] # "mapped"
  <2>1. ~ CallFailed(w) /\ ~ L2AllocateFailed(w) /\ ~ Done(w)
    BY <1>0, <1>1 DEF CallFailed, Fail, L2AllocateFailed, Done
  <2>2. pc[w] = "mapped" => InsertInFlight(w)
    BY <1>0, <1>1, <2>1
    DEF Progress, Enter, GetClusterTable,
         L2FlushRefcount, L2Copy, WriteL1Entry, SyncL1Entry, AllocClusterOffset,
         WriteData, Relock, CopySectors, LinkL2, FreeOld,
         Unmap, UnmapPut, FlushToOs, FlushDisk, Replace, Fail
  <2>3. ~ InsertInFlight(w)
    BY <1>0 DEF InsertInFlight, Goto
  <2>4. QED BY <2>1, <2>2, <2>3
<1>3. AllocClusterOffset(w)
  BY <1>0, <1>1, <1>2, TablesNeverFail
  DEF Progress, Enter, GetClusterTable,
         L2FlushRefcount, L2Copy, WriteL1Entry, SyncL1Entry,
         InsertInFlight, WriteData, Relock, CopySectors, LinkL2, FreeOld,
         Unmap, UnmapPut, FlushToOs, FlushDisk, Replace, Fail, Goto
<1>4. QED BY <1>0, <1>3 DEF AllocClusterOffset, Goto

LEMMA AloneKept ==
  ASSUME OnlyDataFails, AllInv, NEW w \in Cos, Progress(w)
  PROVE  (\A o \in Cos : AloneOk(o)') /\ DistinctOk'
<1>1. \A o \in Cos : o # w => m'[o] = m[o] /\ req'[o] = req[o]
                       /\ (pc'[o] = "mapped" => pc[o] = "mapped")
  BY OthersStay
<1>2. (\A o \in Cos : AloneOk(o)) /\ DistinctOk
  BY RequestInvIs DEF AllInv
<1>3. /\ req'[w] = req[w] \/ (req'[w] = NoRequest /\ m'[w].alloc = FALSE)
      /\ m'[w].alloc => m[w].alloc \/ InsertInFlight(w)
      /\ pc'[w] = "idle" \/ req'[w] = req[w]
  BY RequestGoes
<1>4. ASSUME NEW o \in Cos, o # w, pc'[o] = "mapped" \/ m'[o].alloc, m'[w].alloc
      PROVE  req'[w].g # req'[o].g
  <2>1. req'[w] = req[w] /\ req'[o] = req[o] /\ (pc[o] = "mapped" \/ m[o].alloc)
    BY <1>1, <1>3, <1>4
  <2>2. CASE m[w].alloc
    BY <1>2, <1>4, <2>1, <2>2 DEF AloneOk
  <2>3. CASE InsertInFlight(w)
    <3>1. pc[w] = "mapped" /\ lock = w
      BY <2>3 DEF InsertInFlight, Owns
    <3>2. pc[o] # "mapped"
      BY <1>4, <3>1, RequestIs DEF Locked
    <3>3. QED BY <1>2, <1>4, <2>1, <3>1, <3>2 DEF AloneOk
  <2>4. QED BY <1>3, <1>4, <2>2, <2>3
<1>5. ASSUME NEW o \in Cos, o # w PROVE AloneOk(o)'
  BY <1>1, <1>2, <1>4, <1>5 DEF AloneOk
<1>6. AloneOk(w)'
  <2> SUFFICES ASSUME pc'[w] = "mapped" \/ m'[w].alloc, NEW o \in Cos \ {w}, m'[o].alloc
               PROVE  req'[o].g # req'[w].g
    BY DEF AloneOk
  <2>1. req'[w] = req[w] /\ req'[o] = req[o] /\ m[o].alloc
    BY <1>1, <1>3
  <2>2. CASE m[w].alloc \/ InsertInFlight(w)
    BY <1>2, <2>1, <2>2 DEF AloneOk, InsertInFlight
  <2>3. CASE ~ m'[w].alloc /\ pc'[w] = "mapped"
    <3>1. Conflicts(w) = {}
      BY <2>3, RequestMaps
    <3>2. req[w].g # req[o].g
      BY <2>1, <3>1 DEF Conflicts
    <3>3. QED BY <2>1, <3>2
  <2>4. QED BY <1>3, <2>2, <2>3
<1>7. DistinctOk'
  <2>1. \A o \in Cos : Touches(o)' \subseteq Touches(o)
    <3>1. \A o \in Cos : req'[o] = req[o] \/ req'[o] = NoRequest
      BY <1>1, <1>3
    <3>2. QED BY <3>1 DEF Touches, NoRequest
  <2>2. QED BY <1>2, <2>1 DEF DistinctOk
<1>8. QED BY <1>5, <1>6, <1>7
-----------------------------------------------------------------------------
LEMMA OwnKeepsPlace ==
  ASSUME OnlyDataFails, AllInv, NEW w \in Cos, Progress(w)
  PROVE  PlaceOk(w)'
<1> USE DEF calls, caches, requests, image, ghosts
<1>0. /\ ret = TRUE /\ \A o \in Cos : pc[o] # "l2_put"
      /\ pc \in [Cos -> Locked \cup Unlocked] /\ m \in [Cos -> [alloc : BOOLEAN, c : Clusters \cup {0}]]
      /\ old \in [Cos -> Clusters \cup {0}] /\ req \in [Cos -> ReqSet] /\ errors \in Nat
  BY DEF AllInv, TypeInv, ShapeInv, WaitInv, PlacesType
<1>t. ~ Fails("flush") /\ ~ Fails("table")
  BY TablesNeverFail
<1>p. PlaceOk(w)
  BY RequestInvIs DEF AllInv
<1>n. NoRequest.op = "none"
  BY DEF NoRequest
<1>s. snap' = snap
  BY ProgressImage
<1>1. CASE pc'[w] = "idle"
  <2>1. req'[w] = NoRequest
    BY <1>1, RequestGoes
  <2>2. QED BY <1>1, <2>1, <1>n DEF PlaceOk, Mapped
<1>2. CASE pc'[w] # "idle"
  <2>1. req'[w] = req[w] /\ pc[w] # "idle"
    BY <1>2, RequestGoes
  <2>n. ~ (\E done : Leave(w, done)) /\ ~ FlushDisk(w)
    BY <1>0, <1>2 DEF Leave, FlushDisk, Goto
  <2>m. ~ CallFailed(w) /\ ~ L2AllocateFailed(w) /\ ~ Done(w)
    BY <1>0, <2>n DEF CallFailed, Fail, L2AllocateFailed, Done
  <2>2. CASE Enter(w) \/ L2FlushRefcount(w) \/ L2Copy(w) \/ SyncL1Entry(w) \/ UnmapPut(w)
             \/ FlushToOs(w) \/ FreeOld(w) \/ Unmap(w)
    <3>1. pc'[w] \in {"table", "flush_l2", "get", "l2_copy", "l1_write", "unmapped", "done",
                      "flush_ref", "flush_file", "flush_disk", "unmap_put"}
      <4>1. CASE Enter(w)
        <5>1. \E l \in {"table", "flush_l2", "get"} : Goto(w, l)
          BY <4>1 DEF Enter
        <5>2. QED BY <1>0, <5>1 DEF Goto
      <4>2. QED
        BY <1>0, <2>2, <4>1 DEF L2FlushRefcount, L2Copy, SyncL1Entry, UnmapPut, FlushToOs,
           FreeOld, Unmap, Goto
    <3>2. pc'[w] \in {"l2_copy", "l1_write"} =>
            pc[w] \in {"l2_flush_refcount", "l2_copy"} /\ l1' = l1
      <4>1. ~ Enter(w) \/ pc'[w] \notin {"l2_copy", "l1_write"}
        <5>1. Enter(w) => \E l \in {"table", "flush_l2", "get"} : Goto(w, l)
          BY DEF Enter
        <5>2. QED BY <1>0, <5>1 DEF Goto
      <4>2. QED BY <1>0, <2>2, <4>1 DEF L2FlushRefcount, L2Copy, SyncL1Entry, UnmapPut, FlushToOs,
           FreeOld, Unmap, Goto
    <3>3. QED BY <1>p, <1>s, <1>2, <2>1, <3>1, <3>2 DEF PlaceOk, Mapped
  <2>3. CASE WriteL1Entry(w)
    <3>1. pc'[w] = "l1_sync" /\ old'[w] = l1.c /\ pc[w] = "l1_write"
      BY <1>0, <1>t, <2>3 DEF WriteL1Entry, Goto
    <3>2. QED BY <1>p, <1>s, <1>2, <2>1, <3>1 DEF PlaceOk, Mapped
  <2>4. CASE GetClusterTable(w)
    <3>1. CASE l1.flag = "copied"
      <4>1. /\ l1' = l1 /\ l2' = Load(l1.c)
            /\ \/ pc'[w] = "map" /\ req[w].op = "write"
               \/ pc'[w] = "unmap" /\ req[w].op = "discard"
        BY <1>0, <2>4, <3>1 DEF GetClusterTable, Goto
      <4>2. l1.c # 0
        BY <3>1, CachedIs, EntriesAre
      <4>3. l1.c \in DOMAIN l2'
        BY <4>1, <4>2, TableLoads
      <4>4. Half # {}
        BY DEF Half
      <4>5. QED BY <1>p, <1>s, <1>2, <2>1, <3>1, <4>1, <4>3, <4>4 DEF PlaceOk, Mapped
    <3>2. CASE l1.flag # "copied"
      <4>1. l1' = l1 /\ pc'[w] = "l2_flush_refcount"
        BY <1>0, <2>4, <3>2 DEF GetClusterTable, Goto
      <4>2. l1.flag = "none" /\ l1.c \in {0, snap}
        BY <3>2, CachedIs DEF AllInv, FileInv
      <4>3. QED BY <1>p, <1>s, <1>2, <2>1, <4>1, <4>2 DEF PlaceOk, Mapped
    <3>3. QED BY <3>1, <3>2
  <2>5. CASE AllocClusterOffset(w) \/ InsertInFlight(w)
    <3>1. pc'[w] \in {"data", "waiting", "mapped"} /\ l1' = l1 /\ pc[w] \in {"map", "mapped"}
      BY <1>0, <2>5 DEF AllocClusterOffset, InsertInFlight, Goto
    <3>2. QED BY <1>p, <1>s, <1>2, <2>1, <3>1 DEF PlaceOk, Mapped
  <2>6. CASE WriteData(w) \/ Relock(w) \/ CopySectors(w)
    <3>1. UNCHANGED <<l1, m>>
      BY <1>0, <2>n, <2>6 DEF WriteData, Relock, CopySectors, Fail
    <3>2. /\ pc[w] \in {"data", "wrote", "copied", "copy", "failed"}
          /\ pc'[w] \in {"wrote", "failed", "copy", "copied", "link"}
          /\ pc'[w] \in {"copy", "link"} => m[w].alloc
          /\ pc'[w] = "copied" => pc[w] = "copy"
          /\ pc'[w] = "failed" => Fails("data")
      BY <1>0, <2>n, <2>6 DEF WriteData, Relock, CopySectors, Fail, Goto, NeedsCow
    <3>3. pc'[w] = "failed" => errors' > 0
      BY <1>0, <3>2 DEF Fails
    <3>4. QED BY <1>p, <1>s, <1>2, <2>1, <3>1, <3>2, <3>3 DEF PlaceOk, Mapped
  <2>7. CASE LinkL2(w)
    <3>1. pc[w] = "link" /\ pc'[w] = "unlink" /\ UNCHANGED <<l1, m>>
      BY <1>0, <2>7 DEF LinkL2, Goto
    <3>2. QED BY <1>p, <1>s, <1>2, <2>1, <3>1 DEF PlaceOk, Mapped
  <2>8. CASE Replace(w)
    <3>1. pc'[w] \in {"evict", "done"}
      BY <1>0, <2>8 DEF Replace, Goto
    <3>2. QED BY <1>p, <1>s, <1>2, <2>1, <3>1 DEF PlaceOk, Mapped
  <2>9. QED BY <2>n, <2>m, <2>2, <2>3, <2>4, <2>5, <2>6, <2>7, <2>8 DEF Progress
<1>3. QED BY <1>1, <1>2

LEMMA OwnKeepsEntry ==
  ASSUME OnlyDataFails, AllInv, NEW w \in Cos, Progress(w), NEW g \in Half, g = req[w].g
  PROVE  EntryOk(w)'
<1> USE DEF calls, caches, requests, image, ghosts
<1>0. /\ ret = TRUE /\ \A o \in Cos : pc[o] # "l2_put"
      /\ pc \in [Cos -> Locked \cup Unlocked] /\ m \in [Cos -> [alloc : BOOLEAN, c : Clusters \cup {0}]]
  BY DEF AllInv, TypeInv, ShapeInv, WaitInv, PlacesType
<1>t. ~ Fails("flush") /\ ~ Fails("table")
  BY TablesNeverFail
<1>p. PlaceOk(w) /\ EntryOk(w)
  BY RequestInvIs DEF AllInv
<1>a. m[w].alloc => pc[w] \in InFlight
  BY RequestIs
<1>1. CASE pc'[w] = "idle"
  <2>1. m'[w].alloc = FALSE
    BY <1>1, RequestGoes
  <2>2. QED BY <1>1, <2>1 DEF EntryOk
<1>2. CASE pc'[w] # "idle"
  <2>1. req'[w] = req[w]
    BY <1>2, RequestGoes
  <2>n. ~ (\E done : Leave(w, done)) /\ ~ FlushDisk(w)
    BY <1>0, <1>2 DEF Leave, FlushDisk, Goto
  <2>m. ~ CallFailed(w) /\ ~ L2AllocateFailed(w) /\ ~ Done(w)
    BY <1>0, <2>n DEF CallFailed, Fail, L2AllocateFailed, Done
  <2>c. Cached(g)' = Becomes(w, g)
    BY ProgressKeepsCache
  <2>d. ~ LinkL2(w) /\ ~ Unmap(w) => Cached(req[w].g)' = Cached(req[w].g)
    BY <2>c, <2>1 DEF Becomes, Cached, Entries
  <2>2. CASE AllocClusterOffset(w)
    <3>0. pc[w] = "map" /\ l1' = l1 /\ l2' = l2 /\ file' = file /\ ~ LinkL2(w) /\ ~ Unmap(w)
      BY <2>2 DEF AllocClusterOffset, LinkL2, Unmap
    <3>1. l1.c \in DOMAIN l2
      BY <1>p, <3>0 DEF PlaceOk
    <3>2. L2Entry(w) = Cached(g) /\ Cached(g) \in EntrySet
      BY <3>1, CachedIs DEF L2Entry
    <3>3. Cached(req[w].g)' = Cached(g)
      BY <2>d, <3>0
    <3>4. CASE pc'[w] = "data"
      <4>1. Cached(g).flag = "copied" /\ m'[w] = [alloc |-> FALSE, c |-> Cached(g).c]
        BY <1>0, <2>2, <3>2, <3>4 DEF AllocClusterOffset, Goto
      <4>2. Cached(g) = Entry(m'[w].c, "copied")
        BY <3>2, <4>1, EntriesAre
      <4>3. QED BY <2>1, <3>3, <3>4, <4>1, <4>2 DEF EntryOk
    <3>5. CASE pc'[w] = "mapped"
      <4>1. Cached(g).flag # "copied"
        BY <3>2, <3>5, RequestMaps
      <4>2. QED BY <2>1, <3>3, <3>5, <4>1 DEF EntryOk
    <3>6. CASE pc'[w] = "waiting"
      <4>1. m'[w].alloc = FALSE
        <5>1. m' = [m EXCEPT ![w] = NoMeta]
          BY <1>0, <2>2, <3>6 DEF AllocClusterOffset, Goto
        <5>2. QED BY <1>0, <5>1 DEF NoMeta
      <4>2. QED BY <3>6, <4>1 DEF EntryOk
    <3>7. QED BY <1>0, <2>2, <3>4, <3>5, <3>6 DEF AllocClusterOffset, Goto
  <2>3. CASE InsertInFlight(w)
    <3>1. pc[w] = "mapped" /\ m'[w].alloc = TRUE /\ ~ LinkL2(w) /\ ~ Unmap(w) /\ Holds(w)
      BY <1>0, <2>3 DEF InsertInFlight, LinkL2, Unmap, Holds
    <3>2. Cached(req[w].g)' = Cached(req[w].g)
      BY <2>d, <3>1
    <3>3. QED BY <1>p, <2>1, <3>1, <3>2 DEF EntryOk
  <2>4. CASE WriteData(w) \/ Relock(w) \/ CopySectors(w)
    <3>1. /\ m' = m /\ ~ LinkL2(w) /\ ~ Unmap(w)
          /\ pc[w] \in {"data", "wrote", "copied", "copy", "failed"}
          /\ pc'[w] \in {"wrote", "failed", "copy", "copied", "link"}
      BY <1>0, <2>n, <2>4 DEF WriteData, Relock, CopySectors, Fail, Goto, NeedsCow, LinkL2, Unmap
    <3>2. m[w].alloc => Holds(w)
      BY <3>1 DEF Holds
    <3>3. Cached(req[w].g)' = Cached(req[w].g)
      BY <2>d, <3>1
    <3>4. QED BY <1>p, <2>1, <3>1, <3>2, <3>3 DEF EntryOk
  <2>5. CASE LinkL2(w) \/ FreeOld(w)
    <3>1. pc'[w] \in {"unlink", "done"}
      BY <1>0, <2>5 DEF LinkL2, FreeOld, Goto
    <3>2. QED BY <3>1 DEF EntryOk, Holds
  <2>6. CASE Enter(w) \/ L2FlushRefcount(w) \/ L2Copy(w) \/ SyncL1Entry(w) \/ UnmapPut(w)
             \/ FlushToOs(w) \/ Unmap(w) \/ GetClusterTable(w) \/ WriteL1Entry(w) \/ Replace(w)
    <3>1. pc[w] \notin InFlight
      BY <2>6 DEF Enter, L2FlushRefcount, L2Copy, SyncL1Entry, UnmapPut, FlushToOs, Unmap,
         GetClusterTable, WriteL1Entry, Replace, InFlight
    <3>2. ~ InsertInFlight(w) /\ ~ AllocClusterOffset(w)
      BY <2>6 DEF Enter, L2FlushRefcount, L2Copy, SyncL1Entry, UnmapPut, FlushToOs, Unmap,
         GetClusterTable, WriteL1Entry, Replace, InsertInFlight, AllocClusterOffset
    <3>3. ~ m'[w].alloc
      BY <1>a, <3>1, <3>2, RequestGoes
    <3>4. pc'[w] # "mapped"
      BY <3>2, RequestMaps
    <3>5. pc'[w] # "data"
      <4>1. Enter(w) => \E l \in {"table", "flush_l2", "get"} : Goto(w, l)
        BY DEF Enter
      <4>2. QED
        BY <1>0, <1>t, <2>6, <4>1, <1>2 DEF L2FlushRefcount, L2Copy, SyncL1Entry, UnmapPut, FlushToOs,
           Unmap, GetClusterTable, WriteL1Entry, Replace, Goto
    <3>6. QED BY <3>3, <3>4, <3>5 DEF EntryOk
  <2>7. QED BY <2>n, <2>m, <2>2, <2>3, <2>4, <2>5, <2>6 DEF Progress
<1>3. QED BY <1>1, <1>2

LEMMA ProgressKeepsRequests ==
  ASSUME OnlyDataFails, AllInv, NEW w \in Cos, Progress(w)
  PROVE  RequestInv'
<1>1. \A o \in Cos : PlaceOk(o)' /\ EntryOk(o)'
  BY OthersKeepRequests, OwnKeepsPlace, OwnKeepsEntry, RequestIs
<1>2. QED BY <1>1, AloneKept, RequestInvThen

LEMMA SubmitKeepsRequests ==
  ASSUME AllInv, NEW w \in Cos, SubmitAny(w)
  PROVE  RequestInv'
<1> USE DEF calls, caches, image
<1>0. /\ req \in [Cos -> ReqSet] /\ pc \in [Cos -> Locked \cup Unlocked] /\ Half # {}
  BY DEF AllInv, TypeInv, WaitInv, PlacesType, Half
<1>1. PICK op, g, halves : /\ Submit(w, op, g, halves) /\ g \in Guest /\ halves \subseteq Half
                           /\ op \in {"write", "discard", "flush", "read"}
                           /\ op = "write" => halves # {}
                           /\ op = "discard" => halves = Half
  <2>1. 0 \in Guest
    BY DEF Guest
  <2>2. CASE \E g \in Guest, h \in (SUBSET Half) \ {{}} : Submit(w, "write", g, h)
    <3>1. PICK g \in Guest, h \in (SUBSET Half) \ {{}} : Submit(w, "write", g, h)
      BY <2>2
    <3>2. h # {} /\ h \subseteq Half
      OBVIOUS
    <3>3. QED BY <3>1, <3>2
  <2>3. CASE \E g \in Guest : Submit(w, "discard", g, Half)
    BY <2>3
  <2>4. CASE \E op \in {"flush", "read"} : Submit(w, op, 0, {})
    BY <2>1, <2>4
  <2>5. QED BY <2>2, <2>3, <2>4 DEF SubmitAny
<1> DEFINE gone == IF op = "discard" THEN {g} \X halves ELSE {}
           forget(f) == [x \in Sectors |-> IF x \in gone THEN -1 ELSE f[x]]
<1>2. /\ req'[w].op = op /\ req'[w].g = g /\ req'[w].halves = halves
      /\ pc[w] = "idle" /\ pc'[w] = "enter"
      /\ UNCHANGED <<file, l1, l2, snap, m, old, errors>>
  BY <1>0, <1>1 DEF Submit, Goto
<1>3. ASSUME NEW o \in Cos, o # w
      PROVE  /\ req'[o].op = req[o].op /\ req'[o].g = req[o].g /\ req'[o].halves = req[o].halves
             /\ pc'[o] = pc[o]
  <2>1. req'[o] = IF req[o].op = "none" THEN req[o] ELSE [req[o] EXCEPT !.floor = forget(@)]
    BY <1>1, <1>3 DEF Submit
  <2> HIDE DEF forget
  <2>2. CASE req[o].op # "none"
    <3>1. req[o] \in [op : {"write", "discard", "flush", "read"}, g : Guest,
                      halves : SUBSET Half, v : Values, floor : [Sectors -> Values]]
      BY <1>0, <2>2 DEF ReqSet, NoRequest
    <3>2. QED BY <1>0, <1>1, <1>3, <2>1, <2>2, <3>1 DEF Submit, Goto
  <2>3. CASE req[o].op = "none"
    BY <1>0, <1>1, <1>3, <2>1, <2>3 DEF Submit, Goto
  <2>4. QED BY <2>2, <2>3
<1>4. (\A o \in Cos : PlaceOk(o) /\ EntryOk(o) /\ AloneOk(o)) /\ DistinctOk
  BY RequestInvIs DEF AllInv
<1>5. ~ m[w].alloc
  BY <1>2, RequestIs DEF InFlight
<1>6. ASSUME NEW o \in Cos PROVE PlaceOk(o)'
  <2>1. CASE o = w
    BY <1>1, <1>2, <2>1 DEF PlaceOk, Mapped
  <2>2. CASE o # w
    BY <1>2, <1>3, <1>4, <2>2 DEF PlaceOk
  <2>3. QED BY <2>1, <2>2
<1>7. ASSUME NEW o \in Cos PROVE EntryOk(o)'
  <2>1. CASE o = w
    BY <1>2, <1>5, <2>1 DEF EntryOk
  <2>2. CASE o # w
    <3>1. Cached(req[o].g)' = Cached(req[o].g)
      BY <1>2, <1>3, <2>2 DEF Cached, Entries
    <3>2. Holds(o)' <=> Holds(o)
      BY <1>2, <1>3, <2>2 DEF Holds
    <3>3. QED BY <1>2, <1>3, <1>4, <2>2, <3>1, <3>2 DEF EntryOk
  <2>3. QED BY <2>1, <2>2
<1>8. ASSUME NEW o \in Cos PROVE AloneOk(o)'
  BY <1>2, <1>3, <1>4, <1>5 DEF AloneOk
<1>9. DistinctOk'
  <2>1. \A o \in Cos : o # w => Touches(o)' = Touches(o)
    BY <1>3 DEF Touches
  <2>2. Touches(w)' = {g} \X halves
    BY <1>2 DEF Touches
  <2>3. \A o \in Cos : Touches(o) \cap ({g} \X halves) = {}
    BY <1>1 DEF Submit
  <2>4. QED BY <1>4, <2>1, <2>2, <2>3 DEF DistinctOk
<1>10. QED BY <1>6, <1>7, <1>8, <1>9, RequestInvThen
-----------------------------------------------------------------------------
(* What a flush has left to do.                                            *)

(* The parts of FlushInv: what it says of each call, and of the last one.  *)
EntryAt(i) ==
  stack[i].f = "entry_flush" /\ stack[i].at # "start" => <<stack[i].k, stack[i].e>> \in dirty
CacheAt(i) ==
  stack[i].f = "cache_flush" =>
    \A d \in dirty : d[1] = stack[i].k =>
      d[2] \in stack[i].todo \/ (i > 1 /\ d[2] = stack[i - 1].e)
TopEntry ==
  In("entry_flush", "written") =>
    LET ws == Contents(Top.k, Top.e) IN \A u \in DOMAIN ws : file[u] = ws[u]
TopDependency == In("flush_dependency", "flushed") => IsFlushed(Other(Top.k))

LEMMA FlushInvIs ==
  FlushInv <=> (\A i \in 1..Len(stack) : EntryAt(i) /\ CacheAt(i)) /\ TopEntry /\ TopDependency
BY DEF FlushInv, EntryAt, CacheAt, TopEntry, TopDependency

LEMMA FlushInvThen ==
  ASSUME \A i \in 1..Len(stack') : EntryAt(i)', \A i \in 1..Len(stack') : CacheAt(i)',
         TopEntry', TopDependency'
  PROVE  FlushInv'
BY DEF FlushInv, EntryAt, CacheAt, TopEntry, TopDependency

LEMMA FlushPops ==
  ASSUME AllInv, stack # <<>>, Returns(TRUE), dirty' \subseteq dirty,
         \A i \in 2..Len(stack) : EntryAt(i) => EntryAt(i - 1)',
         Len(stack) > 1 /\ stack[2].f = "cache_flush" =>
           \A d \in dirty' : ~ (d[1] = stack[2].k /\ d[2] = Top.e),
         \A k : Len(stack) > 1 /\ stack[2].f = "flush_dependency" /\ k = Other(stack[2].k)
                => IsFlushed(k)'
  PROVE  FlushInv'
<1>1. /\ Len(stack) \in Nat /\ Len(stack') = Len(stack) - 1
      /\ \A i \in 1..(Len(stack) - 1) : stack'[i] = stack[i + 1]
      /\ stack' # <<>> => Len(stack) > 1 /\ Top' = stack[2]
      /\ StackType /\ ShapeInv /\ Top = stack[1]
  BY CallReturns, StackIs DEF AllInv, DependInv
<1>2. \A i \in 1..Len(stack) : EntryAt(i) /\ CacheAt(i)
  BY FlushInvIs DEF AllInv
<1>3. ASSUME NEW i \in 1..Len(stack') PROVE EntryAt(i)'
  <2>1. i + 1 \in 2..Len(stack) /\ i + 1 \in 1..Len(stack) /\ (i + 1) - 1 = i
    BY <1>1
  <2>2. EntryAt(i + 1) => EntryAt((i + 1) - 1)'
    BY <2>1
  <2>3. QED BY <1>2, <2>1, <2>2
<1>4. ASSUME NEW i \in 1..Len(stack') PROVE CacheAt(i)'
  <2>1. /\ i + 1 \in 1..Len(stack) /\ i \in Nat \ {0} /\ stack'[i] = stack[i + 1]
        /\ (i + 1) - 1 = i /\ i + 1 > 1
    BY <1>1
  <2>2. CacheAt(i + 1)
    BY <1>2, <2>1
  <2> SUFFICES ASSUME stack'[i].f = "cache_flush", NEW d \in dirty', d[1] = stack'[i].k
               PROVE  d[2] \in stack'[i].todo \/ (i > 1 /\ d[2] = stack'[i - 1].e)
    BY DEF CacheAt
  <2>3. d[2] \in stack[i + 1].todo \/ d[2] = stack[i].e
    BY <2>1, <2>2 DEF CacheAt
  <2>4. CASE i = 1
    BY <1>1, <2>1, <2>3, <2>4
  <2>5. CASE i > 1
    <3>1. i - 1 \in 1..(Len(stack) - 1) /\ (i - 1) + 1 = i
      BY <1>1, <2>1, <2>5
    <3>2. stack'[i - 1] = stack[i]
      BY <1>1, <3>1
    <3>3. QED BY <2>1, <2>3, <2>5, <3>2
  <2>6. QED BY <2>1, <2>4, <2>5
<1>5. stack' # <<>> => Awaits(stack[2], stack[1])
  BY <1>1, TopIs
<1>6. TopEntry'
  BY <1>1, <1>5 DEF TopEntry, In, Awaits
<1>7. TopDependency'
  <2> SUFFICES ASSUME stack' # <<>>, Top'.f = "flush_dependency", NEW k, k = Other(Top'.k)
               PROVE  IsFlushed(k)'
    BY DEF TopDependency, In
  <2>1. k = Other(stack[2].k) /\ Len(stack) > 1 /\ stack[2].f = "flush_dependency"
    BY <1>1
  <2>2. QED BY <2>1
<1>8. QED BY <1>3, <1>4, <1>6, <1>7, FlushInvThen

LEMMA FlushMoves ==
  ASSUME AllInv, stack # <<>>, NEW at, Calls(<<>>, at),
         dirty' = dirty \/ Len(stack) = 1, dirty \subseteq dirty',
         Top.f \in {"entry_flush", "set_dependency", "update_refcount"},
         Top.f = "entry_flush" => <<Top.k, Top.e>> \in dirty,
         Top.f = "entry_flush" /\ at = "written" => TopEntry'
  PROVE  FlushInv'
<1>1. /\ Len(stack) \in Nat /\ Len(stack') = Len(stack) /\ stack' # <<>>
      /\ Top' = stack'[1] /\ SameCall(stack'[1], stack[1]) /\ stack'[1].at = at
      /\ stack'[1].todo = stack[1].todo
      /\ \A i \in 2..Len(stack) : stack'[i] = stack[i]
      /\ Top = stack[1]
  BY CallMoves, StackIs DEF AllInv, DependInv
<1>2. \A i \in 1..Len(stack) : EntryAt(i) /\ CacheAt(i)
  BY FlushInvIs DEF AllInv
<1>3. ASSUME NEW i \in 1..Len(stack') PROVE EntryAt(i)'
  <2>1. CASE i = 1
    BY <1>1, <2>1 DEF EntryAt, SameCall
  <2>2. CASE i # 1
    <3>1. i \in 2..Len(stack) /\ i \in 1..Len(stack)
      BY <1>1, <2>2
    <3>2. QED BY <1>1, <1>2, <3>1 DEF EntryAt
  <2>3. QED BY <2>1, <2>2
<1>4. ASSUME NEW i \in 1..Len(stack') PROVE CacheAt(i)'
  <2>1. CASE i = 1
    BY <1>1, <2>1 DEF CacheAt, SameCall
  <2>2. CASE i # 1
    <3>1. i \in 2..Len(stack) /\ i \in 1..Len(stack) /\ i > 1 /\ Len(stack) # 1 /\ i - 1 \in 1..Len(stack)
      BY <1>1, <2>2
    <3>2. stack'[i - 1].e = stack[i - 1].e
      <4>1. CASE i - 1 = 1
        BY <1>1, <4>1 DEF SameCall
      <4>2. CASE i - 1 # 1
        <5>1. i - 1 \in 2..Len(stack)
          BY <1>1, <3>1, <4>2
        <5>2. QED BY <1>1, <5>1
      <4>3. QED BY <4>1, <4>2
    <3>3. QED BY <1>1, <1>2, <3>1, <3>2 DEF CacheAt
  <2>3. QED BY <2>1, <2>2
<1>5. TopEntry' /\ TopDependency'
  BY <1>1 DEF TopEntry, TopDependency, In, SameCall
<1>6. QED BY <1>3, <1>4, <1>5, FlushInvThen

LEMMA FlushPushes ==
  ASSUME AllInv, stack # <<>>, NEW x, NEW t, stack' = <<x, t>> \o Tail(stack),
         SameCall(t, Top), dirty' = dirty \/ Len(stack) = 1, dirty \subseteq dirty',
         x.at = "start", x.f = "cache_flush" => \A d \in dirty' : d[1] = x.k => d[2] \in x.todo,
         t.f = "entry_flush" => <<t.k, t.e>> \in dirty,
         t.f = "cache_flush" => \A d \in dirty' : d[1] = t.k => d[2] \in t.todo \/ d[2] = x.e
  PROVE  FlushInv'
<1>1. /\ Len(stack) \in Nat /\ Len(stack') = Len(stack) + 1 /\ stack' # <<>>
      /\ Top' = x /\ stack'[1] = x /\ stack'[2] = t
      /\ \A i \in 3..(Len(stack) + 1) : stack'[i] = stack[i - 1]
      /\ Top = stack[1]
  BY CallPushes, StackIs DEF AllInv, DependInv
<1>2. \A i \in 1..Len(stack) : EntryAt(i) /\ CacheAt(i)
  BY FlushInvIs DEF AllInv
<1>3. ASSUME NEW i \in 1..Len(stack') PROVE EntryAt(i)'
  <2>1. CASE i = 1
    BY <1>1, <2>1 DEF EntryAt
  <2>2. CASE i = 2
    BY <1>1, <2>2 DEF EntryAt
  <2>3. CASE i # 1 /\ i # 2
    <3>1. i \in 3..(Len(stack) + 1) /\ i - 1 \in 1..Len(stack)
      BY <1>1, <2>3
    <3>2. QED BY <1>1, <1>2, <3>1 DEF EntryAt
  <2>4. QED BY <2>1, <2>2, <2>3
<1>4. ASSUME NEW i \in 1..Len(stack') PROVE CacheAt(i)'
  <2>1. CASE i = 1
    BY <1>1, <2>1 DEF CacheAt
  <2>2. CASE i = 2
    <3>1. i > 1 /\ i - 1 = 1
      BY <2>2
    <3>2. QED BY <1>1, <2>2, <3>1 DEF CacheAt
  <2>3. CASE i # 1 /\ i # 2
    <3>1. /\ i \in 3..(Len(stack) + 1) /\ i - 1 \in 1..Len(stack) /\ i > 1 /\ i - 1 > 1
          /\ Len(stack) # 1 /\ i \in Nat
      BY <1>1, <2>3
    <3>2. stack'[i - 1].e = stack[(i - 1) - 1].e
      <4>1. CASE i - 1 = 2
        <5>1. (i - 1) - 1 = 1
          BY <4>1
        <5>2. QED BY <1>1, <4>1, <5>1 DEF SameCall
      <4>2. CASE i - 1 # 2
        <5>1. i - 1 \in 3..(Len(stack) + 1)
          BY <1>1, <3>1, <4>2
        <5>2. QED BY <1>1, <5>1
      <4>3. QED BY <4>1, <4>2
    <3>3. stack'[i] = stack[i - 1] /\ CacheAt(i - 1) /\ dirty' = dirty
      BY <1>1, <1>2, <3>1
    <3>4. QED BY <3>1, <3>2, <3>3 DEF CacheAt
  <2>4. QED BY <2>1, <2>2, <2>3
<1>5. TopEntry' /\ TopDependency'
  BY <1>1 DEF TopEntry, TopDependency, In
<1>6. QED BY <1>3, <1>4, <1>5, FlushInvThen
-----------------------------------------------------------------------------
LEMMA DirtyAre ==
  ASSUME AllInv
  PROVE  \A d \in dirty : d = <<d[1], d[2]>> /\ d[1] \in Caches /\ (d[1] = "ref" => d[2] = 0)
<1>1. dirty \subseteq {<<"ref", 0>>} \cup {<<"l2", x>> : x \in DOMAIN l2}
  BY DEF AllInv, CacheInv
<1>2. QED BY <1>1 DEF Caches

LEMMA CacheFlushIs ==
  /\ \A k : /\ CacheFlush(k).f = "cache_flush" /\ CacheFlush(k).k = k /\ CacheFlush(k).at = "start"
            /\ \A d \in dirty : d[1] = k => d[2] \in CacheFlush(k).todo
BY DEF CacheFlush, Frame

(* When the flush of a cache returns, what the cache held is in the file.  *)
LEMMA CacheFlushEnds ==
  ASSUME OnlyDataFails, AllInv, CacheFlushEnd
  PROVE  /\ Returns(TRUE) /\ UNCHANGED <<dirty>> /\ Top.f = "cache_flush" /\ Flushed
         /\ \A k : k = Top.k => IsFlushed(k)'
<1>1. /\ StackType /\ ret = TRUE /\ stack # <<>> /\ ShapeInv /\ UNCHANGED <<l1, l2>>
      /\ Top = stack[1] /\ GoodFrame(Top) /\ 1 \in 1..Len(stack)
  <2>1. /\ StackType /\ ret = TRUE /\ stack # <<>> /\ ShapeInv /\ UNCHANGED <<l1, l2>>
    BY DEF CacheFlushEnd, AllInv, ShapeInv, DependInv, caches
  <2>2. QED BY <2>1, TopIs, StackIs
<1>2. Returns(TRUE) /\ UNCHANGED <<dirty>> /\ Top.f = "cache_flush" /\ Top.todo = {} /\ Flushed
  BY <1>1, TablesNeverFail DEF CacheFlushEnd, GoodFrame, caches
<1>3. CacheAt(1)
  BY <1>1, FlushInvIs DEF AllInv
<1>4. Top.k \in Caches /\ \A d \in dirty : d[1] # Top.k
  BY <1>1, <1>2, <1>3 DEF CacheAt, GoodFrame
<1>5. ASSUME NEW k, k = Top.k PROVE IsFlushed(k)'
  <2>1. Clean(k)'
    BY <1>2, <1>4, <1>5 DEF Clean
  <2>2. \A u \in Units : lost'[u] = {}
    BY <1>2 DEF Flushed
  <2>3. DOMAIN l2' \subseteq Clusters /\ l1' = l1 /\ (l1.c # 0 => l1.c \in Clusters)
    BY <1>1, CachedIs DEF AllInv, CacheInv
  <2>4. Durable(k)'
    BY <2>2, <2>3, UnitsAre DEF Durable
  <2>5. QED BY <2>1, <2>4 DEF IsFlushed
<1>6. QED BY <1>2, <1>5

LEMMA CallKeepsFlush ==
  ASSUME OnlyDataFails, AllInv, CallStep
  PROVE  FlushInv'
<1>1. /\ StackType /\ ret = TRUE /\ stack # <<>> /\ ShapeInv /\ DependInv
      /\ depends \in [Caches -> Caches \cup {None}] /\ UNCHANGED <<l1, l2>>
  BY CallForms DEF AllInv, ShapeInv, DependInv
<1>2. ~ Fails("table") /\ ~ Fails("flush")
  BY TablesNeverFail
<1>3. /\ Top = stack[1] /\ GoodFrame(Top) /\ Knows(Top, depends)
      /\ Len(stack) > 1 => Awaits(stack[2], Top) /\ GoodFrame(stack[2])
      /\ Len(stack) \in Nat \ {0} /\ 1 \in 1..Len(stack)
  BY <1>1, TopIs, StackIs
<1>4. (\A i \in 1..Len(stack) : EntryAt(i) /\ CacheAt(i)) /\ TopEntry /\ TopDependency
  BY FlushInvIs DEF AllInv
<1>5. Returns(TRUE) => \A i \in 2..Len(stack) : stack'[i - 1] = stack[i]
  <2> SUFFICES ASSUME Returns(TRUE), NEW i \in 2..Len(stack) PROVE stack'[i - 1] = stack[i]
    OBVIOUS
  <2>1. i - 1 \in 1..(Len(stack) - 1) /\ (i - 1) + 1 = i
    BY <1>3
  <2>2. \A j \in 1..(Len(stack) - 1) : stack'[j] = stack[j + 1]
    BY <1>1, CallReturns
  <2>3. QED BY <2>1, <2>2
<1>6. CASE CacheFlushNext
  <2>1. PICK e \in Top.todo :
          stack' = <<EntryFlush(Top.k, e),
                     [Top EXCEPT !.todo = @ \ {e},
                                 !.at = IF ret THEN @ ELSE "failed"]>> \o Tail(stack)
    BY <1>6 DEF CacheFlushNext
  <2> DEFINE t == [Top EXCEPT !.todo = @ \ {e}, !.at = IF ret THEN @ ELSE "failed"]
             x == EntryFlush(Top.k, e)
  <2>2. /\ Top.f = "cache_flush" /\ ret' = TRUE /\ dirty' = dirty
    BY <1>6 DEF CacheFlushNext, caches
  <2>3. SameCall(t, Top) /\ t.todo = Top.todo \ {e}
    <3>1. PICK V : Top \in Frames(V)
      BY <1>1, <1>3, StackIs
    <3>2. QED BY <1>1, <3>1 DEF Frames, SameCall
  <2>4. x.f = "entry_flush" /\ x.k = Top.k /\ x.at = "start" /\ x.e = e
    BY DEF EntryFlush, Frame
  <2>5. stack' = <<x, t>> \o Tail(stack)
    BY <2>1
  <2> HIDE DEF x, t
  <2>6. \A d \in dirty : d[1] = Top.k => d[2] \in Top.todo
    BY <1>3, <1>4, <2>2 DEF CacheAt
  <2>7. \A d \in dirty' : d[1] = t.k => d[2] \in t.todo \/ d[2] = x.e
    BY <2>2, <2>3, <2>4, <2>6 DEF SameCall
  <2>8. QED BY <1>1, <2>2, <2>3, <2>4, <2>5, <2>7, FlushPushes DEF SameCall
<1>7. CASE CacheFlushEnd
  <2>1. Returns(TRUE) /\ UNCHANGED <<dirty>> /\ Top.f = "cache_flush"
        /\ \A k : k = Top.k => IsFlushed(k)'
    BY <1>7, CacheFlushEnds
  <2>3. ASSUME NEW k, k = Top.k PROVE IsFlushed(k)'
    BY <2>1, <2>3
  <2>4. \A k : Len(stack) > 1 /\ stack[2].f = "flush_dependency" /\ k = Other(stack[2].k)
               => IsFlushed(k)'
    BY <1>3, <2>1, <2>3 DEF Awaits
  <2>5. Len(stack) > 1 => stack[2].f # "cache_flush"
    BY <1>3, <2>1 DEF Awaits
  <2>6. \A i \in 2..Len(stack) : EntryAt(i) => EntryAt(i - 1)'
    BY <1>5, <2>1 DEF EntryAt
  <2>7. QED BY <1>1, <2>1, <2>4, <2>5, <2>6, FlushPops
<1>8. CASE EntryFlushStart
  <2>1. dirty' = dirty /\ Top.f = "entry_flush" /\ Top.k \in Caches
    BY <1>3, <1>8 DEF EntryFlushStart, In, GoodFrame
  <2>2. CASE Returns(TRUE) /\ <<Top.k, Top.e>> \notin dirty
    <3>1. \A d \in dirty' : ~ (d[1] = Top.k /\ d[2] = Top.e)
      BY <2>1, <2>2, DirtyAre
    <3>2. Len(stack) > 1 => /\ stack[2].f # "flush_dependency"
                            /\ stack[2].f = "cache_flush" => stack[2].k = Top.k
      BY <1>3, <2>1 DEF Awaits
    <3>3. \A i \in 2..Len(stack) : EntryAt(i) => EntryAt(i - 1)'
      BY <1>5, <2>1, <2>2 DEF EntryAt
    <3>4. QED BY <1>1, <2>1, <2>2, <3>1, <3>2, <3>3, FlushPops
  <2>3. CASE Calls(<<FlushDependency(Top.k)>>, "write") /\ <<Top.k, Top.e>> \in dirty
    <3> DEFINE x == FlushDependency(Top.k)
    <3>1. x.f = "flush_dependency" /\ x.k = Top.k /\ x.at = "start"
      BY DEF FlushDependency, Frame
    <3>2. Calls(<<x>>, "write")
      BY <2>3
    <3> HIDE DEF x
    <3> DEFINE t == [Top EXCEPT !.at = "write"]
    <3>3. /\ stack' = <<x, t>> \o Tail(stack) /\ SameCall(t, Top)
      BY <1>1, <3>2, CallCalls DEF Calls
    <3> HIDE DEF t
    <3>4. QED BY <1>1, <2>1, <2>3, <3>1, <3>3, FlushPushes DEF SameCall
  <2>4. CASE Calls(<<>>, "write") /\ <<Top.k, Top.e>> \in dirty
    BY <1>1, <2>1, <2>4, FlushMoves
  <2>5. QED BY <1>2, <1>8, <2>2, <2>3, <2>4 DEF EntryFlushStart
<1>9. CASE EntryFlushWrite
  <2>1. /\ dirty' = dirty /\ Top.f = "entry_flush" /\ Top.at = "write" /\ Top.k \in Caches
        /\ Calls(<<>>, "written") /\ UNCHANGED <<refcount, l2>>
    BY <1>1, <1>2, <1>3, <1>9 DEF EntryFlushWrite, In, GoodFrame, caches
  <2>2. <<Top.k, Top.e>> \in dirty
    BY <1>1, <2>1, FlushesDirty
  <2>3. ASSUME NEW k, k = Top.k, NEW e, e = Top.e PROVE TopEntry'
    <3>1. Top'.k = k /\ Top'.e = e
      <4>1. Top' = stack'[1] /\ SameCall(stack'[1], stack[1])
        BY <1>1, <2>1, CallMoves
      <4>2. QED BY <1>3, <2>3, <4>1 DEF SameCall
    <3>2. \A u \in DOMAIN Contents(k, e) : file'[u] = Contents(k, e)[u]
      BY <1>9, <2>3, EntryWritten
    <3>3. Contents(k, e)' = Contents(k, e)
      BY <2>1 DEF Contents
    <3>4. QED BY <3>1, <3>2, <3>3 DEF TopEntry
  <2>4. QED BY <1>1, <2>1, <2>2, <2>3, FlushMoves
<1>10. CASE EntryFlushWritten
  <2>1. Top.f = "entry_flush" /\ Returns(TRUE) /\ dirty' = dirty \ {<<Top.k, Top.e>>} /\ Top.at = "written"
    BY <1>10 DEF EntryFlushWritten, In
  <2>2. Top.k \in Caches /\ depends[Top.k] = None
    BY <1>1, <2>1, FlushesDirty
  <2>3. \A d \in dirty' : ~ (d[1] = Top.k /\ d[2] = Top.e)
    BY <2>1, DirtyAre
  <2>4. Len(stack) > 1 => /\ stack[2].f # "flush_dependency"
                          /\ stack[2].f = "cache_flush" => stack[2].k = Top.k
    BY <1>3, <2>1 DEF Awaits
  <2>5. ASSUME NEW i \in 2..Len(stack), EntryAt(i) PROVE EntryAt(i - 1)'
    <3> SUFFICES ASSUME stack[i].f = "entry_flush", stack[i].at # "start"
                 PROVE  <<stack[i].k, stack[i].e>> \in dirty'
      BY <1>5, <2>1 DEF EntryAt
    <3>1. i - 1 \in 1..Len(stack) /\ i - 1 \in 1..(Len(stack) - 1) /\ (i - 1) + 1 = i
      BY <1>3
    <3>2. Awaits(stack[i], stack[i - 1])
      BY <1>1, <3>1 DEF ShapeInv, Chained
    <3>3. stack[i - 1].f = "flush_dependency" /\ stack[i - 1].k = stack[i].k
      BY <3>2 DEF Awaits
    <3>4. stack[i - 1].k \in Caches /\ depends[stack[i - 1].k] = Other(stack[i - 1].k)
      BY <1>1, <3>1, <3>3 DEF ShapeInv, Chained, GoodFrame
    <3>5. stack[i].k # Top.k
      BY <2>2, <3>3, <3>4, CachesAre
    <3>6. QED BY <2>1, <2>5, <3>5 DEF EntryAt
  <2>6. QED BY <1>1, <2>1, <2>3, <2>4, <2>5, FlushPops
<1>11. CASE FlushDependencyStep
  <2>1. Top.f = "flush_dependency" /\ Top.k \in Caches /\ dirty' = dirty
    BY <1>3, <1>11 DEF FlushDependencyStep, In, GoodFrame
  <2>2. depends[Top.k] = Other(Top.k)
    BY <1>1, <1>3, <2>1, StackIs DEF ShapeInv
  <2>3. CASE Calls(<<CacheFlush(depends[Top.k])>>, "flushed") /\ depends' = depends
    <3> DEFINE x == CacheFlush(depends[Top.k])
    <3>1. x.f = "cache_flush" /\ x.at = "start" /\ \A d \in dirty' : d[1] = x.k => d[2] \in x.todo
      BY <2>1, CacheFlushIs
    <3>2. Calls(<<x>>, "flushed") /\ depends' = depends
      BY <2>3
    <3> HIDE DEF x
    <3> DEFINE t == [Top EXCEPT !.at = "flushed"]
    <3>3. /\ stack' = <<x, t>> \o Tail(stack) /\ SameCall(t, Top)
      BY <1>1, <3>2, CallCalls DEF Calls
    <3> HIDE DEF t
    <3>5. QED BY <1>1, <2>1, <3>1, <3>3, FlushPushes DEF SameCall
  <2>4. CASE Returns(ret)
    <3>1. \A i \in 2..Len(stack) : EntryAt(i) => EntryAt(i - 1)'
      BY <1>1, <1>5, <2>1, <2>4 DEF EntryAt
    <3>2. Len(stack) > 1 => stack[2].f \notin {"cache_flush", "flush_dependency"}
      BY <1>3, <2>1 DEF Awaits
    <3>3. QED BY <1>1, <2>1, <2>4, <3>1, <3>2, FlushPops
  <2>5. QED BY <1>11, <2>3, <2>4 DEF FlushDependencyStep
<1>12. CASE SetDependencyStep
  <2>1. Top.f = "set_dependency" /\ dirty' = dirty
    BY <1>3, <1>12, CachesAre DEF SetDependencyStep, In, GoodFrame
  <2>2. CASE /\ Calls(IF depends[Other(Top.k)] = None THEN <<>>
                      ELSE <<FlushDependency(Other(Top.k))>>, "set")
    <3>1. CASE depends[Other(Top.k)] = None
      <4>1. Calls(<<>>, "set")
        BY <2>2, <3>1
      <4>3. QED BY <1>1, <2>1, <4>1, FlushMoves
    <3>2. CASE depends[Other(Top.k)] # None
      <4> DEFINE x == FlushDependency(Other(Top.k))
      <4>1. x.f = "flush_dependency" /\ x.at = "start"
        BY DEF FlushDependency, Frame
      <4>2. Calls(<<x>>, "set")
        BY <2>2, <3>2
      <4> HIDE DEF x
      <4> DEFINE t == [Top EXCEPT !.at = "set"]
      <4>3. /\ stack' = <<x, t>> \o Tail(stack) /\ SameCall(t, Top)
        BY <1>1, <4>2, CallCalls DEF Calls
      <4> HIDE DEF t
      <4>5. QED BY <1>1, <2>1, <4>1, <4>3, FlushPushes DEF SameCall
    <3>3. QED BY <3>1, <3>2
  <2>3. CASE Returns(ret)
    <3>1. \A i \in 2..Len(stack) : EntryAt(i) => EntryAt(i - 1)'
      BY <1>1, <1>5, <2>1, <2>3 DEF EntryAt
    <3>2. Len(stack) > 1 => stack[2].f \notin {"cache_flush", "flush_dependency"}
      BY <1>3, <2>1 DEF Awaits
    <3>3. QED BY <1>1, <2>1, <2>3, <3>1, <3>2, FlushPops
  <2>4. QED BY <1>12, <2>2, <2>3 DEF SetDependencyStep
<1>13. CASE UpdateRefcountStep
  <2>1. Top.f = "update_refcount" /\ Top.k \in {-1, 1} /\ Len(stack) = 1
    <3>1. Top.f = "update_refcount"
      BY <1>13 DEF UpdateRefcountStep, In
    <3>2. ~ Len(stack) > 1
      BY <1>3, <3>1 DEF Awaits
    <3>3. QED BY <1>3, <3>1, <3>2 DEF GoodFrame
  <2>0. dirty \subseteq dirty'
    BY <1>13 DEF UpdateRefcountStep
  <2>2. CASE Calls(IF Top.k < 0 THEN <<SetDependency("ref")>> ELSE <<>>, "apply")
    <3>1. CASE Top.k = 1
      <4>1. Calls(<<>>, "apply")
        BY <2>2, <3>1
      <4>3. QED BY <1>1, <2>0, <2>1, <4>1, FlushMoves
    <3>2. CASE Top.k = -1
      <4> DEFINE x == SetDependency("ref")
      <4>1. x.f = "set_dependency" /\ x.k = "ref" /\ x.at = "start"
        BY DEF SetDependency, Frame
      <4>2. Calls(<<x>>, "apply")
        BY <2>2, <3>2
      <4> HIDE DEF x
      <4> DEFINE t == [Top EXCEPT !.at = "apply"]
      <4>3. /\ stack' = <<x, t>> \o Tail(stack) /\ SameCall(t, Top)
        BY <1>1, <4>2, CallCalls DEF Calls
      <4> HIDE DEF t
      <4>5. QED BY <1>1, <2>0, <2>1, <4>1, <4>3, FlushPushes DEF SameCall
    <3>3. QED BY <2>1, <3>1, <3>2
  <2>3. CASE In("update_refcount", "apply") /\ Calls(PutFrames("ref", 0), "put")
    <3>1. CASE ~ writethrough
      <4>1. Calls(<<>>, "put")
        BY <2>3, <3>1 DEF PutFrames
      <4>3. QED BY <1>1, <2>0, <2>1, <4>1, FlushMoves
    <3>2. CASE writethrough
      <4> DEFINE x == EntryFlush("ref", 0)
      <4>1. x.f = "entry_flush" /\ x.k = "ref" /\ x.at = "start"
        BY DEF EntryFlush, Frame
      <4>2. Calls(<<x>>, "put")
        BY <2>3, <3>2 DEF PutFrames
      <4> HIDE DEF x
      <4> DEFINE t == [Top EXCEPT !.at = "put"]
      <4>3. /\ stack' = <<x, t>> \o Tail(stack) /\ SameCall(t, Top)
        BY <1>1, <4>2, CallCalls DEF Calls
      <4> HIDE DEF t
      <4>5. QED BY <1>1, <2>0, <2>1, <4>1, <4>3, FlushPushes DEF SameCall
    <3>3. QED BY <3>1, <3>2
  <2>4. CASE Returns(ret) /\ dirty' = dirty
    <3>1. \A i \in 2..Len(stack) : FALSE
      BY <2>1
    <3>2. QED BY <1>1, <2>1, <2>4, <3>1, FlushPops
  <2>5. QED BY <1>13, <2>2, <2>3, <2>4 DEF UpdateRefcountStep
<1>14. QED
  BY <1>6, <1>7, <1>8, <1>9, <1>10, <1>11, <1>12, <1>13 DEF CallStep
-----------------------------------------------------------------------------
(* A request starts with a call of its own or leaves those of the owner.   *)
LEMMA ProgressCalls ==
  ASSUME OnlyDataFails, AllInv, NEW w \in Cos, Progress(w)
  PROVE  \/ stack' = <<>>
         \/ \E x : /\ stack' = <<x>> /\ x.at = "start"
                   /\ x.f = "cache_flush" => \A d \in dirty' : d[1] = x.k => d[2] \in x.todo
         \/ /\ lock # w /\ stack' = stack /\ UNCHANGED <<l1, l2, dirty, refcount>>
            /\ pc[w] \in {"data", "flush_disk"} /\ (Settled \/ pc[w] = "data")
<1> USE DEF calls, caches, requests, image, ghosts
<1>0. /\ ret = TRUE /\ (\A o \in Cos : pc[o] # "l2_put")
      /\ pc \in [Cos -> Locked \cup Unlocked] /\ (lock = w <=> pc[w] \in Locked)
      /\ (lock = None => stack = <<>>)
  BY RequestIs, StackEmpty DEF AllInv, ShapeInv, WaitInv, PlacesType
<1>f. \A k, e : /\ EntryFlush(k, e).f = "entry_flush" /\ EntryFlush(k, e).at = "start"
                /\ SetDependency(k).f = "set_dependency" /\ SetDependency(k).at = "start"
                /\ UpdateRefcount(k, e).f = "update_refcount" /\ UpdateRefcount(k, e).at = "start"
  BY DEF EntryFlush, SetDependency, UpdateRefcount, Frame
<1>p. \A k, e : stack' = PutFrames(k, e) =>
        \/ stack' = <<>>
        \/ \E x : stack' = <<x>> /\ x.at = "start" /\ x.f # "cache_flush"
  BY <1>f DEF PutFrames
<1>1. CASE \E done : Leave(w, done)
  BY <1>1 DEF Leave
<1>2. CASE L2FlushRefcount(w) \/ FlushToOs(w)
  <2>1. /\ dirty' = dirty
        /\ stack' = <<>> \/ \E k : stack' = <<CacheFlush(k)>>
    BY <1>2 DEF L2FlushRefcount, FlushToOs, Owns
  <2>2. CASE stack' = <<>>
    BY <2>2
  <2>3. ASSUME NEW k, stack' = <<CacheFlush(k)>>
        PROVE \E x : /\ stack' = <<x>> /\ x.at = "start"
                     /\ x.f = "cache_flush" => \A d \in dirty' : d[1] = x.k => d[2] \in x.todo
    BY <2>1, <2>3, CacheFlushIs
  <2>4. QED BY <2>1, <2>2, <2>3
<1>3. CASE L2Copy(w)
  <2> DEFINE x == Frame("cache_flush", "l2", 0, {d[2] : d \in {y \in dirty' : y[1] = "l2"}})
  <2>1. stack' = <<x>>
    BY <1>3 DEF L2Copy
  <2>2. x.at = "start" /\ x.k = "l2" /\ \A d \in dirty' : d[1] = "l2" => d[2] \in x.todo
    BY DEF Frame
  <2> HIDE DEF x
  <2>3. QED BY <2>1, <2>2
<1>4. CASE GetClusterTable(w) \/ AllocClusterOffset(w)
  <2>1. \/ stack' = <<>> \/ stack' = PutFrames("l2", l1.c)
        \/ \E c : stack' = <<UpdateRefcount(c, 1)>>
    BY <1>4 DEF GetClusterTable, AllocClusterOffset, AllocCluster, Owns
  <2>2. QED BY <1>f, <1>p, <2>1
<1>5. CASE \/ Enter(w) \/ L2AllocateFailed(w) \/ WriteL1Entry(w) \/ SyncL1Entry(w)
           \/ InsertInFlight(w) \/ LinkL2(w) \/ FreeOld(w) \/ Unmap(w) \/ UnmapPut(w) \/ Replace(w)
  <2>1. \/ stack' = <<>> \/ \E k, e : stack' = PutFrames(k, e)
        \/ \E c, n : stack' = <<UpdateRefcount(c, n)>>
        \/ \E k, e : stack' = <<EntryFlush(k, e)>>
    BY <1>0, <1>5 DEF Enter, L2AllocateFailed, WriteL1Entry, SyncL1Entry, InsertInFlight, LinkL2,
       FreeOld, Unmap, UnmapPut, Replace, Owns
  <2>2. QED BY <1>f, <1>p, <2>1
<1>6. CASE Relock(w) \/ CopySectors(w)
  <2>1. stack' = <<>> \/ stack' = <<SetDependency("l2")>>
    BY <1>0, <1>6 DEF Relock, CopySectors, Fail, Leave
  <2>2. QED BY <1>f, <2>1
<1>7. CASE WriteData(w) \/ FlushDisk(w)
  <2>1. /\ stack' = stack /\ UNCHANGED <<l1, l2, dirty, refcount>>
        /\ pc[w] \in {"data", "flush_disk"}
    BY <1>7 DEF WriteData, FlushDisk
  <2>2. pc[w] = "data" \/ Flushed
    BY <1>7, TablesNeverFail DEF WriteData, FlushDisk
  <2>3. lock # w
    BY <1>0, <2>1 DEF Locked
  <2>4. QED BY <2>1, <2>2, <2>3, FlushSettles
<1>8. QED
  BY <1>1, <1>2, <1>3, <1>4, <1>5, <1>6, <1>7 DEF Progress, Done, CallFailed, Fail

(* A transfer of data leaves what the caches write and flush.              *)
LEMMA TransferAside ==
  ASSUME AllInv, NEW c, Apart(c), Transfer(c), UNCHANGED <<l1, l2>>
  PROVE  /\ \A d \in Clusters : file'[Ref(d)] = file[Ref(d)] /\ lost'[Ref(d)] = lost[Ref(d)]
         /\ file'[L1] = file[L1] /\ lost'[L1] = lost[L1]
         /\ \A t \in DOMAIN l2, i \in Half :
              file'[Cell(t, i)] = file[Cell(t, i)] /\ lost'[Cell(t, i)] = lost[Cell(t, i)]
         /\ l1.c # 0 => \A i \in Half : lost'[Cell(l1.c, i)] = lost[Cell(l1.c, i)]
<1>1. PICK ws : Written(ws) /\ DOMAIN ws \subseteq {Cell(c, h) : h \in Half}
  BY DEF Transfer
<1>2. /\ \A d \in Clusters : file'[Ref(d)] = file[Ref(d)] /\ lost'[Ref(d)] = lost[Ref(d)]
      /\ \A t \in Clusters \ {c}, i \in Half :
              /\ file'[Cell(t, i)] = file[Cell(t, i)] /\ lost'[Cell(t, i)] = lost[Cell(t, i)]
              /\ Possible(Cell(t, i))' = Possible(Cell(t, i))
      /\ file'[L1] = file[L1] /\ lost'[L1] = lost[L1]
  BY <1>1, DataWritten
<1>3. DOMAIN l2 \subseteq Clusters \ {c} /\ (l1.c # 0 => l1.c \in Clusters \ {c})
  BY CachedIs DEF Apart, AllInv, CacheInv
<1>4. QED BY <1>2, <1>3

(* What is flushed stays so while nothing is written but data.             *)
Aside ==
  /\ \A d \in Clusters : file'[Ref(d)] = file[Ref(d)] /\ lost'[Ref(d)] \subseteq lost[Ref(d)]
  /\ file'[L1] = file[L1] /\ lost'[L1] \subseteq lost[L1]
  /\ \A t \in DOMAIN l2, i \in Half :
       file'[Cell(t, i)] = file[Cell(t, i)] /\ lost'[Cell(t, i)] \subseteq lost[Cell(t, i)]
  /\ l1.c # 0 => \A i \in Half : lost'[Cell(l1.c, i)] \subseteq lost[Cell(l1.c, i)]

LEMMA SettledAside ==
  ASSUME AllInv, Settled
  PROVE  Aside
<1>1. DOMAIN l2 \subseteq Clusters /\ (l1.c # 0 => l1.c \in Clusters)
  BY CachedIs DEF AllInv, CacheInv
<1>2. file' = file /\ \A u \in Units : lost'[u] \subseteq lost[u]
  BY DEF Settled
<1>3. QED BY <1>1, <1>2, UnitsAre DEF Aside

LEMMA FlushedAside ==
  ASSUME Aside, UNCHANGED <<l1, l2>>, dirty' \subseteq dirty, NEW k, IsFlushed(k)
  PROVE  IsFlushed(k)'
<1>1. Clean(k)'
  BY DEF IsFlushed, Clean
<1>2. Durable(k)'
  BY DEF IsFlushed, Durable, Aside
<1>3. QED BY <1>1, <1>2 DEF IsFlushed

LEMMA FlushStays ==
  ASSUME AllInv, UNCHANGED <<stack, dirty, refcount, l1, l2>>, Aside
  PROVE  FlushInv'
<1>1. (\A i \in 1..Len(stack) : EntryAt(i) /\ CacheAt(i)) /\ TopEntry /\ TopDependency
  BY FlushInvIs DEF AllInv
<1>2. (\A i \in 1..Len(stack') : EntryAt(i)') /\ (\A i \in 1..Len(stack') : CacheAt(i)')
  BY <1>1 DEF EntryAt, CacheAt
<1>3. TopDependency'
  <2> SUFFICES ASSUME In("flush_dependency", "flushed"), NEW k, k = Other(Top.k) PROVE IsFlushed(k)'
    BY DEF TopDependency, In, Top
  <2>1. IsFlushed(k)
    BY <1>1 DEF TopDependency
  <2>2. QED BY <2>1, FlushedAside
<1>4. TopEntry'
  <2>1. CASE ~ In("entry_flush", "written")
    BY <2>1 DEF TopEntry, In, Top
  <2>2. ASSUME In("entry_flush", "written"), NEW k, k = Top.k, NEW e, e = Top.e PROVE TopEntry'
    <3>1. Top'.k = k /\ Top'.e = e
      BY <2>2 DEF Top
    <3>2. Contents(k, e)' = Contents(k, e)
      BY DEF Contents
    <3>3. \A u \in DOMAIN Contents(k, e) : file[u] = Contents(k, e)[u]
      BY <1>1, <2>2 DEF TopEntry
    <3>4. k \in Caches /\ <<k, e>> \in dirty
      BY <2>2, FlushesDirty DEF In
    <3>5. CASE k = "ref"
      <4>1. \A u \in DOMAIN Contents(k, e) : \E c \in Clusters : u = Ref(c)
        BY <3>5, ContentsAre
      <4>2. \A u \in DOMAIN Contents(k, e) : file'[u] = file[u]
        BY <4>1 DEF Aside
      <4>3. QED BY <3>1, <3>2, <3>3, <4>2 DEF TopEntry
    <3>6. CASE k = "l2"
      <4>1. \A u \in DOMAIN Contents(k, e) : \E i \in Half : u = Cell(e, i)
        BY <3>6, ContentsAre
      <4>2. e \in DOMAIN l2
        BY <3>4, <3>6, DirtyTable
      <4>3. \A u \in DOMAIN Contents(k, e) : file'[u] = file[u]
        BY <4>1, <4>2 DEF Aside
      <4>4. QED BY <3>1, <3>2, <3>3, <4>3 DEF TopEntry
    <3>7. QED BY <3>4, <3>5, <3>6, CachesAre
  <2>3. QED BY <2>1, <2>2
<1>5. QED BY <1>2, <1>3, <1>4, FlushInvThen

LEMMA FlushFresh ==
  ASSUME \/ stack' = <<>>
         \/ \E x : /\ stack' = <<x>> /\ x.at = "start"
                   /\ x.f = "cache_flush" => \A d \in dirty' : d[1] = x.k => d[2] \in x.todo
  PROVE  FlushInv'
<1>1. CASE stack' = <<>>
  BY <1>1 DEF FlushInv, In
<1>2. CASE stack' # <<>>
  <2>1. PICK x : /\ stack' = <<x>> /\ x.at = "start"
                 /\ x.f = "cache_flush" => \A d \in dirty' : d[1] = x.k => d[2] \in x.todo
    BY <1>2
  <2>2. Len(stack') = 1 /\ stack'[1] = x /\ Top' = x
    BY <2>1, CallStarts
  <2>3. \A i \in 1..Len(stack') : i = 1
    BY <2>2
  <2>4. (\A i \in 1..Len(stack') : EntryAt(i)') /\ (\A i \in 1..Len(stack') : CacheAt(i)')
    BY <2>1, <2>2, <2>3 DEF EntryAt, CacheAt
  <2>5. TopEntry' /\ TopDependency'
    BY <2>1, <2>2 DEF TopEntry, TopDependency, In
  <2>6. QED BY <2>4, <2>5, FlushInvThen
<1>3. QED BY <1>1, <1>2

(* A request that is not the owner only transfers data or flushes.         *)
LEMMA AsideStep ==
  ASSUME OnlyDataFails, AllInv, NEW w \in Cos, Progress(w), lock # w
  PROVE  Aside /\ UNCHANGED <<l1, l2, dirty, refcount>>
<1>1. UNCHANGED <<l1, l2, dirty, refcount>>
  BY RequestGoes, ProgressImage
<1>2. CASE Settled
  BY <1>1, <1>2, SettledAside
<1>3. CASE Apart(m[w].c) /\ Transfer(m[w].c)
  <2> SUFFICES ASSUME NEW c, c = m[w].c PROVE Aside
    BY <1>1
  <2>1. QED BY <1>1, <1>3, TransferAside DEF Aside
<1>4. ~ WriteL1Entry(w)
  BY DEF WriteL1Entry, Owns
<1>5. QED BY <1>2, <1>3, <1>4, ProgressImage

LEMMA ProgressKeepsFlush ==
  ASSUME OnlyDataFails, AllInv, NEW w \in Cos, Progress(w)
  PROVE  FlushInv'
<1>1. CASE lock # w /\ stack' = stack
  BY <1>1, AsideStep, FlushStays
<1>2. CASE ~ (lock # w /\ stack' = stack)
  BY <1>2, ProgressCalls, FlushFresh
<1>3. QED BY <1>1, <1>2

LEMMA SubmitStays ==
  ASSUME AllInv, NEW w \in Cos, SubmitAny(w)
  PROVE  UNCHANGED <<image, caches, calls, m, old, waits, crashes, errors>>
         /\ pc[w] = "idle" /\ Goto(w, "enter")
BY DEF SubmitAny, Submit

LEMMA SubmitKeepsRest ==
  ASSUME AllInv, NEW w \in Cos, SubmitAny(w)
  PROVE  FlushInv' /\ FileInv' /\ CacheInv'
<1>1. UNCHANGED <<image, caches, calls, m, old>> /\ pc[w] = "idle" /\ Goto(w, "enter")
  BY SubmitStays
<1>2. \A u \in Units : Possible(u)' \subseteq Possible(u)
  BY <1>1 DEF Possible, image
<1>3. FileInv'
  BY <1>1, <1>2, ShrinkKeepsFile DEF AllInv, TypeInv, image
<1>4. Aside
  BY <1>1 DEF Aside, image
<1>5. FlushInv'
  BY <1>1, <1>4, FlushStays DEF caches, calls
<1>6. Writers
  BY <1>1, GotoIs DEF Writers, AllInv
<1>7. CacheInv'
  BY <1>1, <1>6, CacheStays DEF AllInv, caches, image
<1>8. QED BY <1>3, <1>5, <1>7
-----------------------------------------------------------------------------
(* A new table.                                                            *)

LEMMA RefStableMeans ==
  RefStable <=> IsFlushed("ref") /\ depends["ref"] = None
BY DEF RefStable

(* The refcounts come to wait for the tables only in a call for that.      *)
LEMMA RefDepends ==
  ASSUME OnlyDataFails, AllInv, CallStep, depends'["ref"] # None
  PROVE  \/ depends["ref"] # None
         \/ Outermost.f = "set_dependency" /\ Outermost.k = "ref"
         \/ Outermost.f = "update_refcount" /\ Outermost.k = -1
<1>1. /\ StackType /\ stack # <<>> /\ Top = stack[1] /\ GoodFrame(Top) /\ ShapeInv
      /\ depends \in [Caches -> Caches \cup {None}] /\ Len(stack) \in Nat \ {0}
      /\ Len(stack) > 1 => Awaits(stack[2], Top)
      /\ Len(stack) > 2 => Awaits(stack[3], stack[2])
      /\ Chained
  <2>1. /\ StackType /\ stack # <<>> /\ ShapeInv /\ depends \in [Caches -> Caches \cup {None}]
    BY CallForms DEF AllInv, DependInv
  <2>2. QED BY <2>1, TopIs, StackIs DEF ShapeInv
<1>2. CASE depends' = depends
  BY <1>2
<1>3. CASE FlushDependencyStep
  <2>1. depends' = depends \/ depends' = [depends EXCEPT ![Top.k] = None]
    BY <1>1, <1>3 DEF FlushDependencyStep, ShapeInv
  <2>2. QED BY <1>1, <2>1, CachesAre
<1>4. CASE SetDependencyStep
  <2>1. depends' = depends \/ depends' = [depends EXCEPT ![Top.k] = Other(Top.k)]
    BY <1>1, <1>4 DEF SetDependencyStep, ShapeInv
  <2>2. Top.f = "set_dependency"
    BY <1>4 DEF SetDependencyStep, In
  <2>3. depends["ref"] # None \/ Top.k = "ref"
    BY <1>1, <2>1, CachesAre
  <2>4. Len(stack) > 1 => stack[2].f = "update_refcount" /\ stack[2].k = -1
    BY <1>1, <2>2 DEF Awaits
  <2>5. ~ Len(stack) > 2
    BY <1>1, <2>4 DEF Awaits
  <2>6. Len(stack) = 1 \/ Len(stack) = 2
    <3> DEFINE n == Len(stack)
    <3>1. n \in Nat \ {0} /\ ~ (n > 2)
      BY <1>1, <2>5
    <3> HIDE DEF n
    <3>2. n = 1 \/ n = 2
      BY <3>1
    <3>3. QED BY <3>2 DEF n
  <2>7. QED BY <1>1, <2>2, <2>3, <2>4, <2>6 DEF Outermost
<1>5. QED
  BY <1>2, <1>3, <1>4 DEF CallStep, CacheFlushNext, CacheFlushEnd, EntryFlushStart,
     EntryFlushWrite, EntryFlushWritten, UpdateRefcountStep, caches

LEMMA CallDirty ==
  ASSUME OnlyDataFails, AllInv, CallStep
  PROVE  \/ dirty' = dirty
         \/ /\ EntryFlushWritten /\ dirty' = dirty \ {<<Top.k, Top.e>>} /\ Top.k \in Caches
            /\ depends' = depends /\ depends[Top.k] = None
         \/ /\ In("update_refcount", "apply") /\ dirty' = dirty \cup {<<"ref", 0>>}
            /\ Outermost = Top
<1>0. stack # <<>> /\ StackType /\ ShapeInv /\ Top = stack[1] /\ Len(stack) \in Nat \ {0}
  BY CallForms, StackIs DEF AllInv
<1>1. CASE EntryFlushWritten
  BY <1>1, FlushesDirty DEF EntryFlushWritten, In
<1>2. CASE UpdateRefcountStep /\ In("update_refcount", "apply")
  <2>1. dirty' = dirty \cup {<<"ref", 0>>}
    BY <1>2 DEF UpdateRefcountStep, In
  <2>2. ~ Len(stack) > 1
    BY <1>0, <1>2, TopIs DEF Awaits, In
  <2>3. QED BY <1>0, <1>2, <2>1, <2>2 DEF Outermost
<1>3. CASE ~ EntryFlushWritten /\ ~ (UpdateRefcountStep /\ In("update_refcount", "apply"))
  BY <1>3 DEF CallStep, CacheFlushNext, CacheFlushEnd, EntryFlushStart,
     EntryFlushWrite, FlushDependencyStep, SetDependencyStep, UpdateRefcountStep, caches
<1>4. QED BY <1>1, <1>2, <1>3

LEMMA RefReadyStays ==
  ASSUME OnlyDataFails, AllInv, CallStep, RefReady,
         ~ (Outermost.f = "set_dependency" /\ Outermost.k = "ref"),
         ~ (Outermost.f = "update_refcount" /\ Outermost.k = -1)
  PROVE  RefReady'
<1>1. depends["ref"] = None => depends'["ref"] = None
  BY RefDepends
<1>2. <<"ref", 0>> \in dirty => <<"ref", 0>> \in dirty' \/ depends'["ref"] = None
  BY CallDirty
<1>3. QED BY <1>1, <1>2 DEF RefReady

LEMMA RefStableStays ==
  ASSUME OnlyDataFails, AllInv, CallStep, RefStable,
         ~ (Outermost.f = "set_dependency" /\ Outermost.k = "ref"),
         Outermost.f # "update_refcount"
  PROVE  RefStable'
<1>1. depends'["ref"] = None
  BY RefDepends DEF RefStable
<1>2. dirty' \subseteq dirty
  BY CallDirty DEF In
<1>3. Clean("ref")' /\ Clean("ref")
  BY <1>2 DEF RefStable, IsFlushed, Clean
<1>4. \A c \in Clusters : lost[Ref(c)] = {}
  BY DEF RefStable, IsFlushed, Durable
<1>5. \A c \in Clusters : lost'[Ref(c)] = {}
  <2>1. CASE Settled
    BY <1>4, <2>1, UnitsAre DEF Settled
  <2>2. CASE EntryFlushWrite
    <3>1. <<Top.k, Top.e>> \in dirty /\ Top.k \in Caches
      BY <2>2, EntryWritten
    <3>2. Top.k = "l2"
      BY <1>3, <3>1, CachesAre DEF Clean
    <3> SUFFICES ASSUME NEW t, t = Top.e PROVE \A c \in Clusters : lost'[Ref(c)] = {}
      OBVIOUS
    <3>3. QED BY <1>4, <2>2, <3>2, TableWritten
  <2>3. QED BY <2>1, <2>2, CallImage
<1>6. QED BY <1>1, <1>3, <1>5 DEF RefStable, IsFlushed, Durable

(* What TableInv says of the owner w.                                      *)
TableOk(w) ==
  /\ pc[w] = "l2_flush_refcount" => Adding(m[w].c) \/ RefReady
  /\ pc[w] = "l2_copy" => RefReady
  /\ pc[w] = "l2_copy" /\ stack = <<>> => RefStable
  /\ pc[w] = "l1_write" =>
       /\ RefStable /\ m[w].c \in DOMAIN l2
       /\ \A i \in Half : l2[m[w].c][i] = Cached(i)
       /\ stack = <<>> => IsFlushed("l2")
  /\ pc[w] = "evict" /\ stack = <<>> => <<"l2", old[w]>> \notin dirty

LEMMA TableInvIs == TableInv <=> \A w \in Cos : lock = w => TableOk(w)
BY DEF TableInv, TableOk

LEMMA TableInvThen ==
  ASSUME \A w \in Cos : lock' = w => TableOk(w)'
  PROVE  TableInv'
BY DEF TableInv, TableOk

LEMMA CallKeepsTable ==
  ASSUME OnlyDataFails, AllInv, CallStep
  PROVE  TableInv'
<1> SUFFICES ASSUME NEW w \in Cos, lock' = w PROVE TableOk(w)'
  BY TableInvThen
<1>1. /\ stack # <<>> /\ StackType /\ Top = stack[1] /\ GoodFrame(Top)
      /\ UNCHANGED <<lock, requests, snap, l1, l2>>
  BY CallForms DEF AllInv
<1>2. TableOk(w) /\ OwnerCalls(pc[w], Outermost, m[w].c, old[w])
  BY <1>1, TableInvIs DEF AllInv, OwnerInv
<1>3. \A i \in Half : Cached(i)' = Cached(i)
  BY CallKeepsCached
<1>4. stack' = <<>> => Top = Outermost /\ Returns(TRUE)
  BY CallOutermost DEF AllInv
<1>5. stack' = <<>> /\ Outermost.f = "cache_flush" => CacheFlushEnd
  <2> SUFFICES ASSUME stack' = <<>>, Outermost.f = "cache_flush" PROVE CacheFlushEnd
    OBVIOUS
  <2>1. Top.f = "cache_flush"
    BY <1>4
  <2>2. ~ CacheFlushNext
    <3> SUFFICES ASSUME CacheFlushNext PROVE FALSE
      OBVIOUS
    <3>1. PICK x, t : stack' = <<x, t>> \o Tail(stack)
      BY DEF CacheFlushNext
    <3>2. PICK V : stack \in Seq(Frames(V))
      BY <1>1 DEF StackType
    <3>3. QED BY <1>1, <3>1, <3>2, SeqPushed
  <2>3. QED BY <2>1, <2>2 DEF CallStep, EntryFlushStart, EntryFlushWrite, EntryFlushWritten,
           FlushDependencyStep, SetDependencyStep, UpdateRefcountStep, In
<1>6. ASSUME pc[w] = "l2_flush_refcount" PROVE Adding(m[w].c)' \/ RefReady'
  <2>1. Outermost.f = "update_refcount" /\ Outermost.k = 1
    BY <1>2, <1>6 DEF OwnerCalls
  <2>2. CASE In("update_refcount", "apply")
    <3>1. UpdateRefcountStep
      BY <2>2 DEF CallStep, CacheFlushNext, CacheFlushEnd, EntryFlushStart, EntryFlushWrite,
         EntryFlushWritten, FlushDependencyStep, SetDependencyStep, In
    <3>2. <<"ref", 0>> \in dirty'
      BY <2>2, <3>1 DEF UpdateRefcountStep, In
    <3>3. QED BY <3>2 DEF RefReady
  <2>3. CASE ~ In("update_refcount", "apply")
    <3>1. ASSUME NEW c, c = m[w].c PROVE Adding(m[w].c)' <=> Adding(c)
      <4>1. m'[w].c = c
        BY <1>1, <3>1 DEF requests
      <4>2. Updating(1, c)' <=> Updating(1, c)
        BY <2>3, CallOutermost DEF AllInv
      <4>3. QED BY <4>1, <4>2 DEF Adding, Updating, Outermost
    <3>2. RefReady => RefReady'
      BY <2>1, RefReadyStays
    <3>3. QED BY <1>2, <1>6, <3>1, <3>2 DEF TableOk
  <2>4. QED BY <2>2, <2>3
<1>7. ASSUME pc[w] = "l2_copy" PROVE RefReady' /\ (stack' = <<>> => RefStable')
  <2>1. Outermost.f = "cache_flush" /\ Outermost.k = "ref"
    BY <1>2, <1>7 DEF OwnerCalls
  <2>2. RefReady'
    BY <1>2, <1>7, <2>1, RefReadyStays DEF TableOk
  <2>3. ASSUME stack' = <<>> PROVE RefStable'
    <3>1. CacheFlushEnd /\ Top.k = "ref"
      BY <1>4, <1>5, <2>1, <2>3
    <3>2. IsFlushed("ref")'
      BY <3>1, CacheFlushEnds
    <3>3. depends'["ref"] = None
      BY <2>2, <3>2 DEF RefReady, IsFlushed, Clean
    <3>4. QED BY <3>2, <3>3 DEF RefStable
  <2>4. QED BY <2>2, <2>3
<1>8. ASSUME pc[w] = "l1_write" PROVE RefStable' /\ (stack' = <<>> => IsFlushed("l2")')
  <2>1. Outermost.f = "cache_flush" /\ Outermost.k = "l2"
    BY <1>2, <1>8 DEF OwnerCalls
  <2>2. RefStable'
    BY <1>2, <1>8, <2>1, RefStableStays DEF TableOk
  <2>3. ASSUME stack' = <<>> PROVE IsFlushed("l2")'
    <3>1. CacheFlushEnd /\ Top.k = "l2"
      BY <1>4, <1>5, <2>1, <2>3
    <3>2. QED BY <3>1, CacheFlushEnds
  <2>4. QED BY <2>2, <2>3
<1>9. ASSUME pc[w] = "evict", stack' = <<>> PROVE <<"l2", old[w]>> \notin dirty'
  <2>1. Top.f = "entry_flush" /\ Top.e = old[w] /\ (Top.k = "ref" <=> old[w] = 0) /\ Top.k \in Caches
    BY <1>1, <1>2, <1>4, <1>9 DEF OwnerCalls, GoodFrame
  <2>2. <<"l2", 0>> \notin dirty /\ dirty' \subseteq dirty
    <3>1. <<"l2", 0>> \notin dirty
      BY DirtyTable, ClustersAre
    <3>2. QED BY <2>1, <3>1, CallDirty DEF In
  <2>3. <<Top.k, Top.e>> \notin dirty'
    <3>1. CASE EntryFlushStart
      <4>1. dirty' = dirty
        BY <3>1 DEF EntryFlushStart
      <4>2. <<Top.k, Top.e>> \in dirty => FALSE
        <5> SUFFICES ASSUME <<Top.k, Top.e>> \in dirty PROVE FALSE
          OBVIOUS
        <5>1. Calls(<<>>, "write") \/ Calls(<<FlushDependency(Top.k)>>, "write")
          BY <3>1, TablesNeverFail DEF EntryFlushStart
        <5>2. CASE Calls(<<>>, "write")
          BY <1>1, <1>9, <5>2, CallMoves
        <5>3. ASSUME NEW x, x = FlushDependency(Top.k), Calls(<<x>>, "write") PROVE FALSE
          <6>1. stack' = <<x, [Top EXCEPT !.at = "write"]>> \o Tail(stack)
                /\ SameCall([Top EXCEPT !.at = "write"], Top)
            BY <1>1, <5>3, CallCalls DEF Calls
          <6> DEFINE t == [Top EXCEPT !.at = "write"]
          <6>2. stack' = <<x, t>> \o Tail(stack) /\ SameCall(t, Top)
            BY <6>1
          <6> HIDE DEF t
          <6>3. QED BY <1>1, <1>9, <6>2, CallPushes
        <5>4. QED BY <5>1, <5>2, <5>3
      <4>3. QED BY <4>1, <4>2
    <3>2. CASE EntryFlushWritten
      BY <3>2 DEF EntryFlushWritten
    <3>3. CASE EntryFlushWrite
      <4>1. Calls(<<>>, "written")
        BY <3>3, TablesNeverFail DEF EntryFlushWrite, AllInv, ShapeInv
      <4>2. QED BY <1>1, <1>9, <4>1, CallMoves
    <3>4. QED BY <2>1, <3>1, <3>2, <3>3 DEF CallStep, CacheFlushNext, CacheFlushEnd,
             FlushDependencyStep, SetDependencyStep, UpdateRefcountStep, In
  <2>4. CASE Top.k = "ref"
    BY <2>1, <2>2, <2>4
  <2>5. CASE Top.k = "l2"
    BY <2>1, <2>3, <2>5
  <2>6. QED BY <2>1, <2>4, <2>5, CachesAre
<1>10. pc' = pc /\ m' = m /\ old' = old
  BY <1>1 DEF requests
<1>11. QED BY <1>1, <1>2, <1>3, <1>6, <1>7, <1>8, <1>9, <1>10 DEF TableOk
-----------------------------------------------------------------------------
LEMMA LockGoes ==
  ASSUME OnlyDataFails, AllInv, NEW w \in Cos, Progress(w)
  PROVE  /\ lock' \in {w, None} \/ (lock' = lock /\ stack' = stack /\ pc[w] \in {"data", "flush_disk"})
         /\ depends' = depends
<1> USE DEF calls, caches
<1>1. depends' = depends
  BY DEF Progress, Enter, GetClusterTable, AllocClusterOffset, CallFailed, Fail, L2AllocateFailed,
         L2FlushRefcount, L2Copy, WriteL1Entry, SyncL1Entry, Done, Leave,
         InsertInFlight, WriteData, Relock, CopySectors, LinkL2, FreeOld,
         Unmap, UnmapPut, FlushToOs, FlushDisk, Replace
<1>2. CASE WriteData(w) \/ FlushDisk(w)
  BY <1>1, <1>2 DEF WriteData, FlushDisk
<1>3. CASE Owns(w) \/ Enter(w) \/ Relock(w) \/ CopySectors(w)
  <2>1. lock' \in {w, None}
    BY <1>3 DEF Progress, Enter, GetClusterTable, AllocClusterOffset, CallFailed, Fail, L2AllocateFailed,
         L2FlushRefcount, L2Copy, WriteL1Entry, SyncL1Entry, Done, Leave, Owns,
         InsertInFlight, WriteData, Relock, CopySectors, LinkL2, FreeOld,
         Unmap, UnmapPut, FlushToOs, FlushDisk, Replace
  <2>2. QED BY <1>1, <2>1
<1>4. QED
  BY <1>2, <1>3 DEF Progress, GetClusterTable, AllocClusterOffset, CallFailed, L2AllocateFailed,
         L2FlushRefcount, L2Copy, WriteL1Entry, SyncL1Entry, Done,
         InsertInFlight, LinkL2, FreeOld, Unmap, UnmapPut, FlushToOs, Replace

(* How the owner comes to the steps of a new table.                        *)
LEMMA TableSteps ==
  ASSUME OnlyDataFails, AllInv, NEW w \in Cos, Progress(w)
  PROVE  /\ pc'[w] = "l2_flush_refcount" => GetClusterTable(w) /\ l1.flag # "copied"
         /\ pc'[w] = "l2_copy" => L2FlushRefcount(w)
         /\ pc'[w] = "l1_write" => L2Copy(w)
         /\ pc'[w] = "l1_sync" => WriteL1Entry(w)
         /\ pc'[w] = "link" => Relock(w)
         /\ pc'[w] = "unlink" => LinkL2(w)
         /\ pc'[w] = "evict" => Replace(w) /\ pc[w] = "get"
<1> USE DEF calls, caches, requests, image, ghosts
<1>0. /\ ret = TRUE /\ \A o \in Cos : pc[o] # "l2_put"
      /\ pc \in [Cos -> Locked \cup Unlocked]
  BY DEF AllInv, ShapeInv, WaitInv, PlacesType
<1>t. ~ Fails("table") /\ ~ Fails("flush")
  BY TablesNeverFail
<1> SUFFICES ASSUME pc'[w] \in {"l2_flush_refcount", "l2_copy", "l1_write", "l1_sync", "link",
                                "unlink", "evict"}
             PROVE  /\ pc'[w] = "l2_flush_refcount" => GetClusterTable(w) /\ l1.flag # "copied"
                    /\ pc'[w] = "l2_copy" => L2FlushRefcount(w)
                    /\ pc'[w] = "l1_write" => L2Copy(w)
                    /\ pc'[w] = "l1_sync" => WriteL1Entry(w)
                    /\ pc'[w] = "link" => Relock(w)
                    /\ pc'[w] = "unlink" => LinkL2(w)
                    /\ pc'[w] = "evict" => Replace(w) /\ pc[w] = "get"
  OBVIOUS
<1>1. ~ (\E done : Leave(w, done)) /\ ~ Enter(w) /\ ~ FlushDisk(w)
  <2>1. Enter(w) => \E l \in {"table", "flush_l2", "get"} : Goto(w, l)
    BY DEF Enter
  <2>2. QED BY <1>0, <2>1 DEF Leave, FlushDisk, Goto
<1>2. ~ CallFailed(w) /\ ~ L2AllocateFailed(w) /\ ~ Done(w)
  BY <1>0, <1>1 DEF CallFailed, Fail, L2AllocateFailed, Done
<1>3. ~ AllocClusterOffset(w) /\ ~ InsertInFlight(w) /\ ~ WriteData(w) /\ ~ CopySectors(w)
  BY <1>0 DEF AllocClusterOffset, InsertInFlight, WriteData, CopySectors, Goto
<1>4. ~ SyncL1Entry(w) /\ ~ FreeOld(w) /\ ~ Unmap(w) /\ ~ UnmapPut(w) /\ ~ FlushToOs(w)
  BY <1>0 DEF SyncL1Entry, FreeOld, Unmap, UnmapPut, FlushToOs, Goto
<1>5. /\ GetClusterTable(w) => pc'[w] \in {"map", "unmap"} \/ (pc'[w] = "l2_flush_refcount" /\ l1.flag # "copied")
      /\ L2FlushRefcount(w) => pc'[w] = "l2_copy"
      /\ L2Copy(w) => pc'[w] = "l1_write"
      /\ WriteL1Entry(w) => pc'[w] = "l1_sync"
      /\ LinkL2(w) => pc'[w] = "unlink"
  BY <1>0, <1>t DEF GetClusterTable, L2FlushRefcount, L2Copy, WriteL1Entry, LinkL2, Goto
<1>6. /\ Relock(w) => pc'[w] \in {"copy", "link"}
      /\ Replace(w) => pc'[w] = "done" \/ (pc'[w] = "evict" /\ pc[w] = "get")
  BY <1>0, <1>1 DEF Relock, Replace, Goto, Fail
<1>7. QED BY <1>1, <1>2, <1>3, <1>4, <1>5, <1>6 DEF Progress

LEMMA OwnKeepsTable ==
  ASSUME OnlyDataFails, AllInv, NEW w \in Cos, Progress(w)
  PROVE  TableOk(w)'
<1> USE DEF caches, calls, requests
<1>0. m \in [Cos -> [alloc : BOOLEAN, c : Clusters \cup {0}]]
  BY DEF AllInv, TypeInv
<1>1. CASE pc'[w] = "l2_flush_refcount"
  <2>1. GetClusterTable(w) /\ l1.flag # "copied"
    BY <1>1, TableSteps
  <2>2. PICK c \in Clusters : AllocCluster(c) /\ m' = [m EXCEPT ![w].c = c]
    BY <2>1 DEF GetClusterTable
  <2>3. stack' = <<UpdateRefcount(c, 1)>> /\ m'[w].c = c
    BY <1>0, <2>2 DEF AllocCluster
  <2>4. /\ Outermost' = UpdateRefcount(c, 1) /\ stack' # <<>>
    BY <2>3, CallStarts
  <2>5. Adding(c)'
    BY <2>4 DEF Adding, Updating, UpdateRefcount, Frame
  <2>6. Adding(m[w].c)'
    BY <2>3, <2>5 DEF Adding, Updating, Outermost
  <2>7. QED BY <1>1, <2>6 DEF TableOk
<1>2. CASE pc'[w] = "l2_copy"
  <2>1. /\ pc[w] = "l2_flush_refcount" /\ lock = w /\ stack = <<>> /\ stack' = <<CacheFlush("ref")>>
        /\ dirty' = dirty /\ depends' = depends
    BY <1>2, TableSteps DEF L2FlushRefcount, Owns
  <2>2. ~ Adding(m[w].c)
    BY <2>1 DEF Adding, Updating
  <2>3. RefReady
    BY <2>1, <2>2 DEF AllInv, TableInv
  <2>4. RefReady' /\ stack' # <<>>
    BY <2>1, <2>3 DEF RefReady
  <2>5. QED BY <1>2, <2>4 DEF TableOk
<1>3. CASE pc'[w] = "l1_write"
  <2>1. L2Copy(w)
    BY <1>3, TableSteps
  <2> SUFFICES ASSUME NEW c, c = m[w].c PROVE TableOk(w)'
    OBVIOUS
  <2>2. /\ pc[w] = "l2_copy" /\ lock = w /\ stack = <<>>
        /\ DOMAIN l2' = DOMAIN l2 \cup ({l1.c} \ {0}) \cup {c}
        /\ \A i \in Half : l2'[c][i] = Cached(i)
        /\ dirty' = dirty \cup {<<"l2", c>>}
        /\ UNCHANGED <<file, lost, l1, refcount, snap>>
        /\ \A i \in Half : Cached(i)' = Cached(i)
    BY <2>1, L2CopyIs
  <2>3. m' = m /\ depends' = depends /\ stack' # <<>>
    BY <2>1 DEF L2Copy
  <2>4. RefStable
    BY <2>2 DEF AllInv, TableInv
  <2>5. RefStable'
    BY <2>2, <2>3, <2>4 DEF RefStable, IsFlushed, Clean, Durable
  <2>6. m'[w].c = c /\ c \in DOMAIN l2'
    BY <2>2, <2>3
  <2>7. QED BY <1>3, <2>2, <2>3, <2>5, <2>6 DEF TableOk
<1>4. CASE pc'[w] = "evict"
  <2>1. \E k, e : stack' = <<EntryFlush(k, e)>>
    BY <1>4, TableSteps DEF Replace
  <2>2. stack' # <<>>
    BY <2>1
  <2>3. QED BY <1>4, <2>2 DEF TableOk
<1>5. CASE pc'[w] \notin {"l2_flush_refcount", "l2_copy", "l1_write", "evict"}
  BY <1>5 DEF TableOk
<1>6. QED BY <1>1, <1>2, <1>3, <1>4, <1>5

LEMMA TableStays ==
  ASSUME AllInv, NEW o \in Cos, TableOk(o), m'[o] = m[o], old'[o] = old[o], pc'[o] = pc[o],
         Aside, UNCHANGED <<l1, l2, dirty, refcount, depends, stack>>,
         \A i \in Half : Cached(i)' = Cached(i)
  PROVE  TableOk(o)'
<1>1. \A k : IsFlushed(k) => IsFlushed(k)'
  BY FlushedAside
<1>2. RefStable => RefStable'
  BY <1>1 DEF RefStable
<1>3. RefReady => RefReady'
  BY DEF RefReady
<1>4. Adding(m[o].c) => Adding(m[o].c)'
  BY DEF Adding, Updating, Outermost
<1>5. QED BY <1>1, <1>2, <1>3, <1>4 DEF TableOk

LEMMA ProgressKeepsTable ==
  ASSUME OnlyDataFails, AllInv, NEW w \in Cos, Progress(w)
  PROVE  TableInv'
<1> SUFFICES ASSUME NEW o \in Cos, lock' = o, o # w PROVE TableOk(o)'
  BY OwnKeepsTable, TableInvThen
<1>1. /\ lock = o /\ stack' = stack /\ depends' = depends /\ o # None
      /\ pc[w] \in {"data", "flush_disk"}
  BY LockGoes, QcowAssumption
<1>2. TableOk(o)
  BY <1>1, TableInvIs DEF AllInv
<1>3. Aside /\ UNCHANGED <<l1, l2, dirty, refcount>>
  BY <1>1, AsideStep
<1>4. \A i \in Half : Cached(i)' = Cached(i)
  BY <1>1, ProgressKeepsCache DEF Becomes, LinkL2, Unmap
<1>5. m'[o] = m[o] /\ old'[o] = old[o] /\ pc'[o] = pc[o]
  <2>1. pc[o] # "waiting"
    BY <1>1, RequestIs DEF Locked
  <2>2. QED BY <2>1, OthersStay
<1>6. QED BY <1>1, <1>2, <1>3, <1>4, <1>5, TableStays

LEMMA SubmitKeepsTable ==
  ASSUME AllInv, NEW w \in Cos, SubmitAny(w)
  PROVE  TableInv'
<1>1. UNCHANGED <<image, caches, calls, m, old>> /\ pc[w] = "idle" /\ Goto(w, "enter")
  BY SubmitStays
<1> SUFFICES ASSUME NEW o \in Cos, lock' = o PROVE TableOk(o)'
  BY TableInvThen
<1>2. lock = o /\ TableOk(o) /\ o # w
  BY <1>1, TableInvIs, RequestIs DEF AllInv, calls, Locked
<1>3. pc'[o] = pc[o]
  BY <1>1, <1>2, GotoIs DEF AllInv
<1>4. Aside
  BY <1>1 DEF Aside, image
<1>5. \A i \in Half : Cached(i)' = Cached(i)
  BY <1>1 DEF Cached, Entries, image, caches
<1>6. QED BY <1>1, <1>2, <1>3, <1>4, <1>5, TableStays DEF caches, calls
-----------------------------------------------------------------------------
(* Counting references.                                                    *)

LEMMA FourBits ==
  ASSUME NEW a, NEW b, NEW c, NEW d, NEW p, NEW q, NEW r, NEW s,
         a => p, b => q, c => r, d => s
  PROVE  Bit(a) + Bit(b) + Bit(c) + Bit(d) <= Bit(p) + Bit(q) + Bit(r) + Bit(s)
<1>1. Bit(a) <= Bit(p) /\ Bit(b) <= Bit(q) /\ Bit(c) <= Bit(r) /\ Bit(d) <= Bit(s)
  BY BitIs
<1>2. /\ Bit(a) \in Int /\ Bit(b) \in Int /\ Bit(c) \in Int /\ Bit(d) \in Int
      /\ Bit(p) \in Int /\ Bit(q) \in Int /\ Bit(r) \in Int /\ Bit(s) \in Int
  BY BitIs
<1>3. QED BY <1>1, <1>2

LEMMA HalfAre == 0 \in Half /\ 1 \in Half /\ \A i \in Half : i = 0 \/ i = 1
BY DEF Half

(* References after a crash, and in memory, are among those anywhere.      *)
LEMMA AnywhereMost == \A c : OnDisk(c) <= Anywhere(c) /\ InMemory(c) <= Anywhere(c)
<1> SUFFICES ASSUME NEW c PROVE OnDisk(c) <= Anywhere(c) /\ InMemory(c) <= Anywhere(c)
  OBVIOUS
<1>1. /\ Points(Possible(L1), c) => Points(Possible(L1) \cup {l1}, c)
      /\ Points(Stored(0), c) => Points(Stored(0) \cup {Cached(0)}, c)
      /\ Points(Stored(1), c) => Points(Stored(1) \cup {Cached(1)}, c)
      /\ l1.c = c => Points(Possible(L1) \cup {l1}, c)
      /\ Cached(0).c = c => Points(Stored(0) \cup {Cached(0)}, c)
      /\ Cached(1).c = c => Points(Stored(1) \cup {Cached(1)}, c)
  BY DEF Points
<1>2. OnDisk(c) <= Anywhere(c)
  BY <1>1, FourBits DEF OnDisk, Anywhere
<1>3. InMemory(c) <= Anywhere(c)
  <2>1. /\ Bit(l1.c = c) <= Bit(Points(Possible(L1) \cup {l1}, c))
        /\ Bit(Cached(0).c = c) <= Bit(Points(Stored(0) \cup {Cached(0)}, c))
        /\ Bit(Cached(1).c = c) <= Bit(Points(Stored(1) \cup {Cached(1)}, c))
    BY <1>1 DEF Bit
  <2>2. /\ Bit(l1.c = c) \in Int /\ Bit(Points(Possible(L1) \cup {l1}, c)) \in Int
        /\ Bit(Cached(0).c = c) \in Int /\ Bit(Points(Stored(0) \cup {Cached(0)}, c)) \in Int
        /\ Bit(Cached(1).c = c) \in Int /\ Bit(Points(Stored(1) \cup {Cached(1)}, c)) \in Int
        /\ Bit(BySnap(c)) \in Int
    BY DEF Bit
  <2>3. QED BY <2>1, <2>2 DEF InMemory, Anywhere
<1>4. QED BY <1>2, <1>3

(* What entries in memory refer to stays, and the file gets no others.     *)
Familiar ==
  /\ l1' = l1 /\ snap' = snap /\ Possible(L1)' \subseteq Possible(L1) \cup {l1}
  /\ \A i \in Half : Cached(i)' = Cached(i) /\ Stored(i)' \subseteq Stored(i) \cup {Cached(i)}

LEMMA FamiliarCounts ==
  ASSUME Familiar
  PROVE  /\ \A c : /\ Anywhere(c)' <= Anywhere(c) /\ InMemory(c)' = InMemory(c)
                   /\ OnDisk(c)' <= Anywhere(c)
         /\ AllEntries' \subseteq AllEntries
<1>1. /\ l1' = l1 /\ snap' = snap /\ Possible(L1)' \subseteq Possible(L1) \cup {l1}
      /\ Cached(0)' = Cached(0) /\ Stored(0)' \subseteq Stored(0) \cup {Cached(0)}
      /\ Cached(1)' = Cached(1) /\ Stored(1)' \subseteq Stored(1) \cup {Cached(1)}
  BY HalfAre DEF Familiar
<1>2. ASSUME NEW c
      PROVE  /\ Anywhere(c)' <= Anywhere(c) /\ InMemory(c)' = InMemory(c)
             /\ OnDisk(c)' <= Anywhere(c)
  <2>1. /\ Points(Possible(L1)', c) => Points(Possible(L1) \cup {l1}, c)
        /\ Points(Stored(0)', c) => Points(Stored(0) \cup {Cached(0)}, c)
        /\ Points(Stored(1)', c) => Points(Stored(1) \cup {Cached(1)}, c)
        /\ Points(Possible(L1)' \cup {l1'}, c) => Points(Possible(L1) \cup {l1}, c)
        /\ Points(Stored(0)' \cup {Cached(0)'}, c) => Points(Stored(0) \cup {Cached(0)}, c)
        /\ Points(Stored(1)' \cup {Cached(1)'}, c) => Points(Stored(1) \cup {Cached(1)}, c)
    BY <1>1 DEF Points
  <2>2. BySnap(c)' <=> BySnap(c)
    BY <1>1 DEF BySnap
  <2>3. /\ OnDisk(c)' = Bit(Points(Possible(L1)', c)) + Bit(Points(Stored(0)', c))
                          + Bit(Points(Stored(1)', c)) + Bit(BySnap(c)')
        /\ Anywhere(c)' = Bit(Points(Possible(L1)' \cup {l1'}, c))
             + Bit(Points(Stored(0)' \cup {Cached(0)'}, c))
             + Bit(Points(Stored(1)' \cup {Cached(1)'}, c)) + Bit(BySnap(c)')
        /\ InMemory(c)' = Bit(l1'.c = c) + Bit(Cached(0)'.c = c) + Bit(Cached(1)'.c = c)
                            + Bit(BySnap(c)')
    BY DEF OnDisk, Anywhere, InMemory, Points, Bit
  <2>a. /\ Bit(Points(Possible(L1)', c)) <= Bit(Points(Possible(L1) \cup {l1}, c))
        /\ Bit(Points(Stored(0)', c)) <= Bit(Points(Stored(0) \cup {Cached(0)}, c))
        /\ Bit(Points(Stored(1)', c)) <= Bit(Points(Stored(1) \cup {Cached(1)}, c))
        /\ Bit(BySnap(c)') <= Bit(BySnap(c))
    BY <2>1, <2>2 DEF Bit
  <2>b. /\ Bit(Points(Possible(L1)' \cup {l1'}, c)) <= Bit(Points(Possible(L1) \cup {l1}, c))
        /\ Bit(Points(Stored(0)' \cup {Cached(0)'}, c)) <= Bit(Points(Stored(0) \cup {Cached(0)}, c))
        /\ Bit(Points(Stored(1)' \cup {Cached(1)'}, c)) <= Bit(Points(Stored(1) \cup {Cached(1)}, c))
    BY <2>1 DEF Bit
  <2>c. \A b : Bit(b) \in Int
    BY DEF Bit
  <2>4. Anywhere(c)' <= Anywhere(c)
    BY <2>a, <2>b, <2>c, <2>3 DEF Anywhere
  <2>5. OnDisk(c)' <= Anywhere(c)
    BY <2>a, <2>c, <2>3 DEF Anywhere
  <2>6. InMemory(c)' = InMemory(c)
    BY <1>1, <2>2, <2>3 DEF InMemory, Bit
  <2>7. QED BY <2>4, <2>5, <2>6
<1>3. AllEntries' \subseteq AllEntries
  BY <1>1, HalfAre DEF AllEntries, Familiar
<1>4. QED BY <1>2, <1>3

(* The file gets no references at all.                                     *)
LEMMA OnDiskShrinks ==
  ASSUME snap' = snap, Possible(L1)' \subseteq Possible(L1),
         \A i \in Half : Stored(i)' \subseteq Stored(i)
  PROVE  \A c : OnDisk(c)' <= OnDisk(c)
<1> SUFFICES ASSUME NEW c PROVE OnDisk(c)' <= OnDisk(c)
  OBVIOUS
<1>1. Stored(0)' \subseteq Stored(0) /\ Stored(1)' \subseteq Stored(1)
  BY HalfAre
<1>2. /\ Points(Possible(L1)', c) => Points(Possible(L1), c)
      /\ Points(Stored(0)', c) => Points(Stored(0), c)
      /\ Points(Stored(1)', c) => Points(Stored(1), c)
      /\ BySnap(c)' <=> BySnap(c)
  BY <1>1 DEF Points, BySnap
<1>3. OnDisk(c)' = Bit(Points(Possible(L1)', c)) + Bit(Points(Stored(0)', c))
                     + Bit(Points(Stored(1)', c)) + Bit(BySnap(c)')
  BY DEF OnDisk, Points, Bit
<1>4. QED BY <1>2, <1>3, FourBits DEF OnDisk

(* Unless the refcounts wait for the tables they cover all references.     *)
LEMMA CountsCover ==
  ASSUME AllInv, NEW c \in Clusters
  PROVE  /\ refcount[c] \in Nat /\ refcount[c] >= InMemory(c)
         /\ depends["ref"] = None => refcount[c] >= Anywhere(c)
<1>1. /\ refcount[c] \in Nat /\ InMemory(c) \in Nat /\ Anywhere(c) \in Nat
      /\ Bit(Freeing(c)) \in {0, 1}
  BY CountsAre DEF AllInv, TypeInv
<1>2. CASE Held(c)
  <2>1. HeldOk(c)
    BY <1>2 DEF AllInv, CountsInv, HeldInv
  <2>2. QED BY <1>1, <2>1 DEF HeldOk
<1>3. CASE ~ Held(c)
  <2>1. CountOk(c)
    BY <1>3 DEF AllInv, CountsInv, CountInv
  <2>2. QED BY <1>1, <2>1 DEF CountOk
<1>4. QED BY <1>2, <1>3

(* A step that changes no count and takes no cluster.                      *)
LEMMA CountsStay ==
  ASSUME AllInv, Familiar, refcount' = refcount, crashes' = crashes,
         errors' = 0 => errors = 0,
         \A w \in Cos : Holds(w)' => Holds(w) /\ m'[w].c = m[w].c,
         \A w \in Cos : Holds(w) /\ ~ Holds(w)' => errors' # 0 /\ ~ Adding(m[w].c),
         \A c \in Clusters : Adding(c)' <=> Adding(c),
         \A c \in Clusters : Freeing(c)' <=> Freeing(c),
         depends'["ref"] = None =>
           depends["ref"] = None \/ \A c \in Clusters : Anywhere(c)' <= InMemory(c)
  PROVE  HeldInv' /\ CountInv' /\ PrivateInv'
<1>1. /\ \A c : /\ Anywhere(c)' <= Anywhere(c) /\ InMemory(c)' = InMemory(c)
                /\ Anywhere(c)' \in Nat /\ Anywhere(c) \in Nat /\ InMemory(c) \in Nat
      /\ AllEntries' \subseteq AllEntries
  <2>1. \A c : Anywhere(c)' \in Nat
    BY BitIs DEF Anywhere
  <2>2. QED BY <2>1, FamiliarCounts, CountsAre
<1>2. HeldInv /\ CountInv /\ PrivateInv
  BY DEF AllInv, CountsInv
<1>3. \A c \in Clusters : refcount[c] \in Nat /\ Bit(Freeing(c)) \in {0, 1}
  BY CountsAre DEF AllInv, TypeInv
<1>4. \A c : Held(c)' => Held(c)
  BY DEF Held
<1>5. \A c \in Clusters : Bit(Freeing(c))' = Bit(Freeing(c))
  BY DEF Bit
<1>6. HeldInv'
  <2>1. \A w \in Cos : Holds(w)' => m'[w].c \in Clusters
    BY <1>2 DEF HeldInv
  <2>2. \A w, o \in Cos : Holds(w)' /\ Holds(o)' /\ m'[w].c = m'[o].c => w = o
    BY <1>2 DEF HeldInv
  <2>3. ASSUME NEW c \in Clusters, Adding(c)' PROVE Held(c)'
    <3>1. Adding(c) /\ Held(c)
      BY <1>2, <2>3 DEF HeldInv
    <3>2. PICK w \in Cos : Holds(w) /\ m[w].c = c
      BY <3>1 DEF Held
    <3>3. Holds(w)'
      BY <3>1, <3>2
    <3>4. QED BY <3>2, <3>3 DEF Held
  <2>4. ASSUME NEW c \in Clusters, Held(c)' PROVE HeldOk(c)'
    <3>1. HeldOk(c)
      BY <1>2, <1>4, <2>4 DEF HeldInv
    <3>2. QED BY <1>1, <3>1 DEF HeldOk
  <2>5. QED BY <2>1, <2>2, <2>3, <2>4 DEF HeldInv
<1>7. ASSUME NEW c \in Clusters, ~ Held(c)' PROVE CountOk(c)'
  <2>1. CASE Held(c)
    <3>1. HeldOk(c)
      BY <1>2, <2>1 DEF HeldInv
    <3>2. errors' # 0 /\ ~ Adding(c)
      BY <1>7, <2>1 DEF Held
    <3>3. refcount[c] = 1 /\ InMemory(c) = 0 /\ Bit(Freeing(c)) = 0
      BY <3>1, <3>2 DEF HeldOk, Bit
    <3>4. depends'["ref"] = None => Anywhere(c)' = 0
      BY <1>1, <3>1, <3>3 DEF HeldOk
    <3>5. QED BY <1>1, <1>5, <3>2, <3>3, <3>4 DEF CountOk
  <2>2. CASE ~ Held(c)
    <3>1. /\ refcount[c] >= InMemory(c) + Bit(Freeing(c))
          /\ crashes = 0 /\ errors = 0 => refcount[c] = InMemory(c) + Bit(Freeing(c))
          /\ depends["ref"] = None => refcount[c] >= Anywhere(c)
      BY <1>2, <2>2 DEF CountInv, CountOk
    <3>2. depends'["ref"] = None => refcount[c] >= Anywhere(c)'
      BY <1>1, <1>3, <3>1
    <3>3. QED BY <1>1, <1>5, <3>1, <3>2 DEF CountOk
  <2>3. QED BY <2>1, <2>2
<1>8. CountInv'
  BY <1>7 DEF CountInv
<1>9. PrivateInv'
  <2> SUFFICES ASSUME NEW e \in AllEntries', e.flag = "copied" PROVE Anywhere(e.c)' <= 1
    BY DEF PrivateInv
  <2>1. Anywhere(e.c) <= 1
    BY <1>1, <1>2 DEF PrivateInv
  <2>2. QED BY <1>1, <2>1
<1>10. QED BY <1>6, <1>8, <1>9

(* What a step does to the refcounts in the file.                          *)
LEMMA DiskStays ==
  ASSUME AllInv, Familiar,
         \A c \in Clusters : \A r \in Possible(Ref(c))' :
           r \in Possible(Ref(c)) \/ (depends["ref"] = None /\ r = refcount[c]),
         depends["l2"] = None \/ \A c \in Clusters : OnDisk(c)' <= OnDisk(c),
         depends'["l2"] = None =>
           depends["l2"] = None \/ \A c \in Clusters : Possible(Ref(c))' = {refcount[c]}
  PROVE  DiskInv'
<1> SUFFICES ASSUME NEW c \in Clusters, NEW r \in Possible(Ref(c))'
             PROVE  r >= OnDisk(c)' /\ (depends'["l2"] = None => r >= Anywhere(c)')
  BY DEF DiskInv
<1>1. /\ Anywhere(c)' <= Anywhere(c) /\ OnDisk(c)' <= Anywhere(c)
      /\ Anywhere(c)' \in Nat /\ Anywhere(c) \in Nat /\ OnDisk(c) \in Nat /\ OnDisk(c)' \in Nat
  <2>1. Anywhere(c)' \in Nat /\ OnDisk(c)' \in Nat
    BY BitIs DEF Anywhere, OnDisk
  <2>2. QED BY <2>1, FamiliarCounts, CountsAre
<1>2. refcount[c] \in Nat /\ (depends["ref"] = None => refcount[c] >= Anywhere(c))
  BY CountsCover
<1>3. depends["l2"] = None \/ depends["ref"] = None
  BY DEF AllInv, DependInv, NoDependencyCycle
<1>4. CASE depends["ref"] = None /\ r = refcount[c]
  BY <1>1, <1>2, <1>4
<1>5. CASE r \in Possible(Ref(c))
  <2>1. r \in Nat /\ r >= OnDisk(c) /\ (depends["l2"] = None => r >= Anywhere(c))
    BY <1>5 DEF AllInv, FileInv, CountsInv, DiskInv
  <2>2. CASE depends["l2"] = None
    BY <1>1, <2>1, <2>2
  <2>3. CASE depends["l2"] # None
    <3>1. depends["ref"] = None /\ OnDisk(c)' <= OnDisk(c)
      BY <1>3, <2>3
    <3>2. r >= OnDisk(c)'
      BY <1>1, <2>1, <3>1
    <3>3. depends'["l2"] = None => r = refcount[c]
      BY <2>3
    <3>4. QED BY <1>1, <1>2, <3>1, <3>2, <3>3
  <2>4. QED BY <2>2, <2>3
<1>6. QED BY <1>4, <1>5
-----------------------------------------------------------------------------
(* Calls and the counts.                                                   *)

LEMMA SettledFamiliar ==
  ASSUME AllInv, Settled, l1' = l1, snap' = snap, \A i \in Half : Cached(i)' = Cached(i)
  PROVE  /\ Familiar /\ \A c : OnDisk(c)' <= OnDisk(c)
         /\ \A c \in Clusters : Possible(Ref(c))' \subseteq Possible(Ref(c))
<1>1. \A u \in Units : Possible(u)' \subseteq Possible(u)
  BY SettledMeans
<1>2. /\ Possible(L1)' \subseteq Possible(L1)
      /\ \A c \in Clusters : Possible(Ref(c))' \subseteq Possible(Ref(c))
  BY <1>1, UnitsAre
<1>3. \A i \in Half : Stored(i)' \subseteq Stored(i)
  BY <1>1, ShrinkTables DEF AllInv
<1>4. Familiar
  BY <1>2, <1>3 DEF Familiar
<1>5. QED BY <1>2, <1>3, <1>4, OnDiskShrinks

LEMMA CallFamiliar ==
  ASSUME OnlyDataFails, AllInv, CallStep
  PROVE  /\ Familiar
         /\ depends["l2"] = None \/ \A c \in Clusters : OnDisk(c)' <= OnDisk(c)
         /\ \A c \in Clusters : \A r \in Possible(Ref(c))' :
              r \in Possible(Ref(c)) \/ (depends["ref"] = None /\ r = refcount[c])
<1>1. l1' = l1 /\ snap' = snap /\ \A i \in Half : Cached(i)' = Cached(i)
  BY CallForms, CallKeepsCached DEF AllInv
<1>2. CASE Settled
  BY <1>1, <1>2, SettledFamiliar
<1>3. CASE EntryFlushWrite
  <2>1. /\ Top.k \in Caches
        /\ \A i \in Half : /\ Stored(i)' \subseteq Stored(i) \cup {Cached(i)}
                           /\ Top.k = "ref" => Stored(i)' = Stored(i)
    BY <1>3, WrittenTables, EntryWritten
  <2>2. CASE Top.k = "ref"
    <3>1. /\ Possible(L1)' = Possible(L1) /\ depends["ref"] = None
          /\ \A c \in Clusters : Possible(Ref(c))' \subseteq Possible(Ref(c)) \cup {refcount[c]}
      BY <1>3, <2>2, RefWritten
    <3>2. Familiar
      BY <1>1, <2>1, <3>1 DEF Familiar
    <3>3. \A c : OnDisk(c)' <= OnDisk(c)
      BY <1>1, <2>1, <2>2, <3>1, OnDiskShrinks
    <3>4. QED BY <3>1, <3>2, <3>3
  <2>3. ASSUME NEW t, t = Top.e, Top.k = "l2"
        PROVE  /\ Possible(L1)' = Possible(L1) /\ depends["l2"] = None
               /\ \A c \in Clusters : Possible(Ref(c))' = Possible(Ref(c))
    BY <1>3, <2>3, TableWritten
  <2>4. CASE Top.k = "l2"
    <3>1. Familiar
      BY <1>1, <2>1, <2>3, <2>4 DEF Familiar
    <3>2. QED BY <2>3, <2>4, <3>1
  <2>5. QED BY <2>1, <2>2, <2>4, CachesAre
<1>4. QED BY <1>2, <1>3, CallImage

LEMMA FlushedAnywhere ==
  ASSUME AllInv, IsFlushed("l2")
  PROVE  \A c : Anywhere(c) = InMemory(c)
<1> SUFFICES ASSUME NEW c PROVE Anywhere(c) <= InMemory(c)
  BY CountsAre, AnywhereMost
<1>1. /\ Possible(L1) = {l1}
      /\ Stored(0) \subseteq {Cached(0)} /\ Stored(1) \subseteq {Cached(1)}
  BY L2Flushed, HalfAre
<1>2. /\ Bit(Points(Possible(L1) \cup {l1}, c)) = Bit(l1.c = c)
      /\ Bit(Points(Stored(0) \cup {Cached(0)}, c)) = Bit(Cached(0).c = c)
      /\ Bit(Points(Stored(1) \cup {Cached(1)}, c)) = Bit(Cached(1).c = c)
  BY <1>1 DEF Points, Bit
<1>3. \A b : Bit(b) \in Int
  BY DEF Bit
<1>4. QED BY <1>2, <1>3 DEF Anywhere, InMemory

(* How a call changes the dependencies.                                    *)
LEMMA CallDepends ==
  ASSUME OnlyDataFails, AllInv, CallStep
  PROVE  /\ depends'["ref"] = None => depends["ref"] = None \/ IsFlushed("l2")
         /\ depends'["l2"] = None =>
              \/ depends["l2"] = None
              \/ IsFlushed("ref") /\ UNCHANGED <<file, lost>>
<1>1. /\ ret = TRUE /\ depends \in [Caches -> Caches \cup {None}] /\ FlushInv
  BY DEF AllInv, ShapeInv, DependInv
<1>2. stack # <<>> /\ GoodFrame(Top)
  BY CallForms DEF AllInv
<1>3. CASE depends' = depends
  BY <1>3
<1>4. CASE In("flush_dependency", "flushed") /\ FlushDependencyStep
  <2>1. Top.k \in Caches /\ IsFlushed(Other(Top.k)) /\ Top.f = "flush_dependency"
    BY <1>1, <1>2, <1>4 DEF FlushInv, In, GoodFrame
  <2>2. /\ depends' = [depends EXCEPT ![Top.k] = None]
        /\ UNCHANGED <<file, lost>>
    BY <1>1, <1>4, <2>1 DEF FlushDependencyStep, In, image
  <2>3. QED BY <1>1, <2>1, <2>2, CachesAre
<1>5. CASE In("set_dependency", "set") /\ SetDependencyStep
  <2>1. Top.k \in Caches
    BY <1>2, <1>5 DEF In, GoodFrame
  <2>2. depends' = [depends EXCEPT ![Top.k] = Other(Top.k)]
    BY <1>1, <1>5 DEF SetDependencyStep, In
  <2>3. Other(Top.k) # None
    BY <2>1, CachesAre
  <2>4. QED BY <1>1, <2>1, <2>2, <2>3, CachesAre
<1>6. QED
  BY <1>3, <1>4, <1>5 DEF CallStep, CacheFlushNext, CacheFlushEnd, EntryFlushStart,
         EntryFlushWrite, EntryFlushWritten, FlushDependencyStep, SetDependencyStep,
         UpdateRefcountStep, caches

LEMMA CallKeepsDisk ==
  ASSUME OnlyDataFails, AllInv, CallStep
  PROVE  DiskInv'
<1>1. depends'["l2"] = None =>
        depends["l2"] = None \/ \A c \in Clusters : Possible(Ref(c))' = {refcount[c]}
  <2> SUFFICES ASSUME IsFlushed("ref"), UNCHANGED <<file, lost>>
               PROVE  \A c \in Clusters : Possible(Ref(c))' = {refcount[c]}
    BY CallDepends
  <2>1. QED BY RefFlushed DEF Possible
<1>2. QED BY <1>1, CallFamiliar, DiskStays

LEMMA CallHolders ==
  ASSUME OnlyDataFails, AllInv, CallStep
  PROVE  /\ UNCHANGED <<pc, m, old, lock, crashes, errors>>
         /\ \A w \in Cos : Holds(w)' <=> Holds(w)
         /\ \A c : Held(c)' <=> Held(c)
<1>1. UNCHANGED <<pc, m, old, lock, crashes, errors>>
  BY CallForms DEF AllInv, requests, ghosts
<1>2. \A w \in Cos : Holds(w)' <=> Holds(w)
  BY <1>1 DEF Holds
<1>3. QED BY <1>1, <1>2 DEF Held

(* update_refcount changes the count.                                      *)
LEMMA ApplyKeepsCounts ==
  ASSUME OnlyDataFails, AllInv, CallStep, In("update_refcount", "apply"),
         NEW x, x = Top.e, NEW n, n = Top.k
  PROVE  HeldInv' /\ CountInv' /\ PrivateInv'
<1>0. /\ Top.f = "update_refcount" /\ Top.at = "apply" /\ x \in Clusters /\ n \in {-1, 1}
      /\ Knows(Top, depends) /\ stack # <<>> /\ lock \in Cos
  <2>1. stack # <<>> /\ GoodFrame(Top) /\ Top.f = "update_refcount" /\ Top.at = "apply"
    BY CallForms DEF AllInv, In
  <2>2. lock # None /\ lock \in Cos \cup {None}
    BY <2>1 DEF AllInv, DependInv, WaitInv, PlacesType
  <2>3. QED BY <2>1, <2>2 DEF GoodFrame, AllInv, ShapeInv
<1>1. refcount' = [refcount EXCEPT ![x] = refcount[x] + n] /\ depends' = depends
  BY <1>0 DEF CallStep, CacheFlushNext, CacheFlushEnd, EntryFlushStart,
         EntryFlushWrite, EntryFlushWritten, FlushDependencyStep, SetDependencyStep,
         UpdateRefcountStep, In
<1>2. /\ \A k, c : ~ Updating(k, c)'
      /\ \A k, c : Updating(k, c) <=> k = n /\ c = x
  BY CallOutermost DEF AllInv
<1>3. /\ \A c : /\ Anywhere(c)' <= Anywhere(c) /\ InMemory(c)' = InMemory(c)
                /\ Anywhere(c)' \in Nat /\ Anywhere(c) \in Nat /\ InMemory(c) \in Nat
      /\ AllEntries' \subseteq AllEntries
  <2>1. \A c : Anywhere(c)' \in Nat
    BY BitIs DEF Anywhere
  <2>2. QED BY <2>1, FamiliarCounts, CountsAre, CallFamiliar
<1>4. HeldInv /\ CountInv /\ PrivateInv /\ refcount \in [Clusters -> Nat]
  BY DEF AllInv, CountsInv, TypeInv
<1>5. /\ UNCHANGED <<pc, m, old, lock, crashes, errors>>
      /\ \A w \in Cos : Holds(w)' <=> Holds(w)
      /\ \A c : Held(c)' <=> Held(c)
  BY CallHolders
<1>6. n = 1 => Adding(x) /\ Held(x) /\ HeldOk(x)
  BY <1>0, <1>2, <1>4 DEF Adding, HeldInv
<1>7. n = -1 => depends["ref"] # None /\ Freeing(x) /\ ~ Held(x)
  <2>1. n = -1 => depends["ref"] # None
    BY <1>0, CachesAre DEF Knows
  <2>2. n = -1 => Freeing(x)
    BY <1>2 DEF Freeing
  <2>3. QED BY <1>0, <1>4, <2>1, <2>2 DEF HeldInv, HeldOk
<1>8. n = -1 => ~ Freeing(x)' /\ \A c : c # x => (Freeing(c)' <=> Freeing(c))
  <2>1. SUFFICES ASSUME n = -1, NEW w \in Cos, pc[w] \in {"l1_sync", "unlink"} PROVE FALSE
    BY <1>2, <1>5 DEF Freeing
  <2>2. lock = w
    BY <2>1, RequestIs DEF Locked
  <2>3. OwnerCalls(pc[w], Outermost, m[w].c, old[w])
    BY <1>0, <2>2 DEF AllInv, OwnerInv
  <2>4. Outermost.f = "update_refcount" /\ Outermost.k = -1
    BY <1>2, <2>1 DEF Updating
  <2>5. QED BY <2>1, <2>3, <2>4 DEF OwnerCalls
<1>9. \A c : ~ Adding(c)'
  BY <1>2 DEF Adding
<1>10. n = 1 => \A c : Freeing(c)' <=> Freeing(c)
  BY <1>2, <1>5 DEF Freeing
<1>11. HeldInv'
  <2>1. \A w \in Cos : Holds(w)' => m'[w].c \in Clusters
    BY <1>4, <1>5 DEF HeldInv
  <2>2. \A w, o \in Cos : Holds(w)' /\ Holds(o)' /\ m'[w].c = m'[o].c => w = o
    BY <1>4, <1>5 DEF HeldInv
  <2>3. ASSUME NEW c \in Clusters, Held(c)' PROVE HeldOk(c)'
    <3>1. HeldOk(c)
      BY <1>4, <1>5, <2>3 DEF HeldInv
    <3>2. refcount'[c] = 1
      <4>1. CASE c = x
        <5>1. n = 1
          BY <1>0, <1>5, <1>7, <2>3, <4>1
        <5>2. refcount[x] = 0
          BY <1>6, <5>1 DEF HeldOk
        <5>3. QED BY <1>0, <1>1, <1>4, <4>1, <5>1, <5>2
      <4>2. CASE c # x
        <5>1. ~ Adding(c)
          BY <1>2, <4>2 DEF Adding
        <5>2. QED BY <1>1, <1>4, <3>1, <4>2, <5>1 DEF HeldOk
      <4>3. QED BY <4>1, <4>2
    <3>3. ~ Freeing(c)'
      <4>1. ~ Freeing(c)
        BY <3>1 DEF HeldOk
      <4>2. QED BY <1>0, <1>8, <1>10, <4>1
    <3>4. InMemory(c)' = 0 /\ (depends'["ref"] = None => Anywhere(c)' = 0)
      BY <1>1, <1>3, <3>1 DEF HeldOk
    <3>5. QED BY <1>9, <3>2, <3>3, <3>4 DEF HeldOk
  <2>4. QED BY <1>9, <2>1, <2>2, <2>3 DEF HeldInv
<1>12. ASSUME NEW c \in Clusters, ~ Held(c)' PROVE CountOk(c)'
  <2>1. /\ refcount[c] >= InMemory(c) + Bit(Freeing(c))
        /\ crashes = 0 /\ errors = 0 => refcount[c] = InMemory(c) + Bit(Freeing(c))
        /\ depends["ref"] = None => refcount[c] >= Anywhere(c)
    BY <1>4, <1>5, <1>12 DEF CountInv, CountOk
  <2>2. CASE c = x
    <3>1. n = -1
      BY <1>0, <1>5, <1>6, <1>12, <2>2
    <3>2. /\ Bit(Freeing(c)) = 1 /\ Bit(Freeing(c))' = 0 /\ depends'["ref"] # None
          /\ refcount'[c] = refcount[c] - 1
      BY <1>1, <1>4, <1>7, <1>8, <2>2, <3>1 DEF Bit
    <3>3. QED BY <1>3, <1>4, <1>5, <2>1, <3>2 DEF CountOk
  <2>3. CASE c # x
    <3>1. Bit(Freeing(c))' = Bit(Freeing(c)) /\ refcount'[c] = refcount[c]
      BY <1>0, <1>1, <1>4, <1>8, <1>10, <2>3 DEF Bit
    <3>2. Bit(Freeing(c)) \in Nat /\ refcount[c] \in Nat
      BY <1>4, CountsAre
    <3>3. QED BY <1>1, <1>3, <1>5, <2>1, <3>1, <3>2 DEF CountOk
  <2>4. QED BY <2>2, <2>3
<1>13. PrivateInv'
  <2> SUFFICES ASSUME NEW e \in AllEntries', e.flag = "copied" PROVE Anywhere(e.c)' <= 1
    BY DEF PrivateInv
  <2>1. Anywhere(e.c) <= 1
    BY <1>3, <1>4 DEF PrivateInv
  <2>2. QED BY <1>3, <2>1
<1>14. QED BY <1>11, <1>12, <1>13 DEF CountInv

LEMMA CallKeepsCounts ==
  ASSUME OnlyDataFails, AllInv, CallStep
  PROVE  CountsInv'
<1>1. DiskInv'
  BY CallKeepsDisk
<1>2. CASE In("update_refcount", "apply")
  BY <1>1, <1>2, ApplyKeepsCounts DEF CountsInv
<1>3. CASE ~ In("update_refcount", "apply")
  <2>1. /\ UNCHANGED <<pc, m, old, lock, crashes, errors>>
        /\ \A w \in Cos : Holds(w)' <=> Holds(w)
    BY CallHolders
  <2>2. \A k, c : Updating(k, c)' <=> Updating(k, c)
    BY <1>3, CallOutermost DEF AllInv
  <2>3. \A c \in Clusters : (Adding(c)' <=> Adding(c)) /\ (Freeing(c)' <=> Freeing(c))
    BY <2>1, <2>2 DEF Adding, Freeing
  <2>4. refcount' = refcount
    BY <1>3 DEF CallStep, CacheFlushNext, CacheFlushEnd, EntryFlushStart,
         EntryFlushWrite, EntryFlushWritten, FlushDependencyStep, SetDependencyStep,
         UpdateRefcountStep, caches
  <2>5. Familiar
    BY CallFamiliar
  <2>6. depends'["ref"] = None =>
           depends["ref"] = None \/ \A c \in Clusters : Anywhere(c)' <= InMemory(c)
    <3> SUFFICES ASSUME IsFlushed("l2"), NEW c \in Clusters PROVE Anywhere(c)' <= InMemory(c)
      BY CallDepends
    <3>1. Anywhere(c)' <= Anywhere(c) /\ Anywhere(c) = InMemory(c)
      BY <2>5, FamiliarCounts, FlushedAnywhere
    <3>2. QED BY <3>1
  <2>7. HeldInv' /\ CountInv' /\ PrivateInv'
    BY <2>1, <2>3, <2>4, <2>5, <2>6, CountsStay
  <2>8. QED BY <1>1, <2>7 DEF CountsInv
<1>4. QED BY <1>2, <1>3
-----------------------------------------------------------------------------
(* Requests and the updates of refcounts.                                  *)

LEMMA UpdatingIs ==
  /\ stack = <<>> => \A k, c : ~ Updating(k, c)
  /\ stack' = <<>> => \A k, c : ~ Updating(k, c)'
  /\ \A x : stack' = <<x>> /\ x.f # "update_refcount" => \A k, c : ~ Updating(k, c)'
  /\ \A e, n : stack' = <<UpdateRefcount(e, n)>> =>
       \A k, c : Updating(k, c)' <=> (k = n /\ c = e)
  /\ stack' = stack => \A k, c : Updating(k, c)' <=> Updating(k, c)
<1>1. ASSUME NEW x, stack' = <<x>>, x.f # "update_refcount"
      PROVE  \A k, c : ~ Updating(k, c)'
  <2>1. Outermost' = x
    BY <1>1, CallStarts
  <2>2. QED BY <1>1, <2>1 DEF Updating
<1>2. ASSUME NEW e, NEW n, stack' = <<UpdateRefcount(e, n)>>
      PROVE  \A k, c : Updating(k, c)' <=> (k = n /\ c = e)
  <2> DEFINE x == UpdateRefcount(e, n)
  <2>1. Outermost' = x /\ stack' # <<>>
    BY <1>2, CallStarts
  <2>2. x.f = "update_refcount" /\ x.k = n /\ x.e = e /\ x.at = "start"
    BY DEF UpdateRefcount, Frame
  <2> HIDE DEF x
  <2>3. QED BY <2>1, <2>2 DEF Updating
<1>3. stack' = stack => Outermost' = Outermost
  BY DEF Outermost
<1>4. QED BY <1>1, <1>2, <1>3 DEF Updating

(* The request w takes a free cluster.                                     *)
Takes(w) == pc'[w] \in {"l2_flush_refcount", "mapped"}

LEMMA TakesIs ==
  ASSUME OnlyDataFails, AllInv, NEW w \in Cos, Progress(w), Takes(w)
  PROVE  \E c \in Clusters :
           /\ AllocCluster(c) /\ m'[w].c = c
           /\ m'[w].alloc = FALSE /\ lock = w /\ stack = <<>>
           /\ UNCHANGED <<file, lost, l1, l2, refcount, snap, depends, errors, crashes>>
           /\ pc[w] \in {"table", "map"}
<1> USE DEF calls, caches, requests, image, ghosts
<1>0. m \in [Cos -> [alloc : BOOLEAN, c : Clusters \cup {0}]] /\ (m[w].alloc => pc[w] \in InFlight)
  BY RequestIs DEF AllInv, TypeInv
<1>1. CASE pc'[w] = "l2_flush_refcount"
  <2>1. GetClusterTable(w) /\ l1.flag # "copied"
    BY <1>1, TableSteps
  <2>2. PICK c \in Clusters : AllocCluster(c) /\ m' = [m EXCEPT ![w].c = c]
    BY <2>1 DEF GetClusterTable
  <2>3. m'[w].c = c /\ m'[w].alloc = FALSE
    BY <1>0, <2>1, <2>2 DEF GetClusterTable, InFlight
  <2>4. QED BY <2>1, <2>2, <2>3 DEF GetClusterTable, Owns
<1>2. CASE pc'[w] = "mapped"
  <2>1. AllocClusterOffset(w) /\ pc[w] = "map"
    BY <1>2, RequestMaps
  <2>2. PICK c \in Clusters : AllocCluster(c) /\ m' = [m EXCEPT ![w] = [alloc |-> FALSE, c |-> c]]
    <3>1. pc \in [Cos -> Locked \cup Unlocked]
      BY DEF AllInv, WaitInv, PlacesType
    <3>2. QED BY <1>2, <2>1, <3>1 DEF AllocClusterOffset, Goto
  <2>3. m'[w].c = c /\ m'[w].alloc = FALSE
    BY <1>0, <2>2
  <2>4. QED BY <2>1, <2>2, <2>3 DEF AllocClusterOffset, Owns
<1>3. QED BY <1>1, <1>2 DEF Takes

(* What a request's step does to the calls.                                *)
LEMMA OwnStack ==
  ASSUME OnlyDataFails, AllInv, NEW w \in Cos, Progress(w)
  PROVE  /\ \/ stack = <<>>
            \/ pc[w] \in {"data", "flush_disk"} /\ stack' = stack
         /\ \/ stack' = <<>>
            \/ \E x : stack' = <<x>> /\ x.f # "update_refcount"
            \/ pc[w] \in {"data", "flush_disk"} /\ stack' = stack
            \/ (SyncL1Entry(w) \/ FreeOld(w)) /\ old[w] # 0 /\ stack' = <<UpdateRefcount(old[w], -1)>>
            \/ Unmap(w) /\ L2Entry(w).c # 0 /\ stack' = <<UpdateRefcount(L2Entry(w).c, -1)>>
            \/ Takes(w)
<1> USE DEF calls, caches, requests, image, ghosts
<1>0. /\ ret = TRUE /\ (\A o \in Cos : pc[o] # "l2_put")
      /\ pc \in [Cos -> Locked \cup Unlocked] /\ (lock = w <=> pc[w] \in Locked)
      /\ (lock = None => stack = <<>>)
  BY RequestIs, StackEmpty DEF AllInv, ShapeInv, WaitInv, PlacesType
<1>f. \A k, e, t : /\ EntryFlush(k, e).f # "update_refcount"
                   /\ SetDependency(k).f # "update_refcount"
                   /\ CacheFlush(k).f # "update_refcount"
                   /\ Frame("cache_flush", "l2", 0, t).f # "update_refcount"
  BY DEF EntryFlush, SetDependency, CacheFlush, Frame
<1>p. \A k, e : stack' = PutFrames(k, e) =>
        \/ stack' = <<>>
        \/ \E x : stack' = <<x>> /\ x.f # "update_refcount"
  BY <1>f DEF PutFrames
<1>1. CASE \E done : Leave(w, done)
  <2>1. stack' = <<>>
    BY <1>1 DEF Leave
  <2>2. stack = <<>> \/ (pc[w] \in {"data", "flush_disk"} /\ stack' = stack)
    BY <1>0, <1>1 DEF Progress, Enter, GetClusterTable, AllocClusterOffset, CallFailed, L2AllocateFailed,
         L2FlushRefcount, L2Copy, WriteL1Entry, SyncL1Entry, Done, Owns,
         InsertInFlight, WriteData, Relock, CopySectors, LinkL2, FreeOld,
         Unmap, UnmapPut, FlushToOs, FlushDisk, Replace
  <2>3. QED BY <2>1, <2>2
<1>2. CASE L2FlushRefcount(w) \/ FlushToOs(w) \/ L2Copy(w)
  <2>1. stack = <<>>
    BY <1>2 DEF L2FlushRefcount, FlushToOs, L2Copy, Owns
  <2>2. \/ stack' = <<>> \/ \E k : stack' = <<CacheFlush(k)>>
        \/ \E t : stack' = <<Frame("cache_flush", "l2", 0, t)>>
    BY <1>2 DEF L2FlushRefcount, FlushToOs, L2Copy, Owns
  <2>3. QED BY <1>f, <2>1, <2>2
<1>4. CASE GetClusterTable(w) \/ AllocClusterOffset(w)
  <2>1. stack = <<>>
    BY <1>4 DEF GetClusterTable, AllocClusterOffset, Owns
  <2>2. \/ stack' = <<>> \/ stack' = PutFrames("l2", l1.c)
        \/ Takes(w)
    BY <1>0, <1>4 DEF GetClusterTable, AllocClusterOffset, Owns, Takes, Goto
  <2>3. QED BY <1>p, <2>1, <2>2
<1>5. CASE \/ Enter(w) \/ L2AllocateFailed(w) \/ WriteL1Entry(w)
           \/ InsertInFlight(w) \/ LinkL2(w) \/ UnmapPut(w) \/ Replace(w)
  <2>1. /\ stack = <<>>
        /\ \/ stack' = <<>> \/ \E k, e : stack' = PutFrames(k, e)
           \/ \E k, e : stack' = <<EntryFlush(k, e)>>
    BY <1>0, <1>5 DEF Enter, L2AllocateFailed, WriteL1Entry, InsertInFlight, LinkL2,
       UnmapPut, Replace, Owns
  <2>2. QED BY <1>f, <1>p, <2>1
<1>6. CASE SyncL1Entry(w) \/ FreeOld(w) \/ Unmap(w)
  BY <1>6 DEF SyncL1Entry, FreeOld, Unmap, Owns
<1>7. CASE Relock(w) \/ CopySectors(w)
  <2>1. stack = <<>> /\ (stack' = <<>> \/ stack' = <<SetDependency("l2")>>)
    BY <1>0, <1>7 DEF Relock, CopySectors, Fail, Leave
  <2>2. QED BY <1>f, <2>1
<1>8. CASE WriteData(w) \/ FlushDisk(w)
  BY <1>8 DEF WriteData, FlushDisk
<1>9. QED
  BY <1>1, <1>2, <1>4, <1>5, <1>6, <1>7, <1>8 DEF Progress, Done, CallFailed, Fail

LEMMA AddingStays ==
  ASSUME OnlyDataFails, AllInv, NEW w \in Cos, Progress(w), ~ Takes(w)
  PROVE  \A c : Adding(c)' <=> Adding(c)
<1>1. \A k, c : stack = <<>> => ~ Updating(k, c)
  BY UpdatingIs
<1>2. CASE stack' = stack
  BY <1>2, UpdatingIs DEF Adding
<1>3. CASE stack = <<>>
  <2>1. ASSUME NEW e, stack' = <<UpdateRefcount(e, -1)>> PROVE \A c : ~ Updating(1, c)'
    BY <2>1, UpdatingIs
  <2>2. ASSUME NEW x, stack' = <<x>>, x.f # "update_refcount" PROVE \A c : ~ Updating(1, c)'
    BY <2>2, UpdatingIs
  <2>3. stack' = <<>> => \A c : ~ Updating(1, c)'
    BY UpdatingIs
  <2>4. \A c : ~ Updating(1, c)'
    BY <1>2, <1>3, <2>1, <2>2, <2>3, OwnStack
  <2>5. QED BY <1>1, <1>3, <2>4 DEF Adding
<1>4. QED BY <1>2, <1>3, OwnStack

LEMMA FreeingStays ==
  ASSUME OnlyDataFails, AllInv, NEW w \in Cos, Progress(w),
         ~ WriteL1Entry(w), ~ LinkL2(w), Unmap(w) => L2Entry(w).c = 0
  PROVE  \A c \in Clusters : Freeing(c)' <=> Freeing(c)
<1> SUFFICES ASSUME NEW c \in Clusters PROVE Freeing(c)' <=> Freeing(c)
  OBVIOUS
<1>0. c # 0 /\ old[w] \in Clusters \cup {0}
  BY ClustersAre, RequestIs
<1>1. pc'[w] \notin {"l1_sync", "unlink"}
  BY TableSteps
<1>2. pc[w] = "l1_sync" => SyncL1Entry(w)
  <2>1. ret = TRUE
    BY DEF AllInv, ShapeInv
  <2>2. QED
    BY <2>1 DEF Progress, Enter, GetClusterTable, AllocClusterOffset, CallFailed, L2AllocateFailed,
         L2FlushRefcount, L2Copy, WriteL1Entry, Done,
         InsertInFlight, WriteData, Relock, CopySectors, LinkL2, FreeOld,
         Unmap, UnmapPut, FlushToOs, FlushDisk, Replace
<1>3. pc[w] = "unlink" => FreeOld(w)
  <2>1. ret = TRUE
    BY DEF AllInv, ShapeInv
  <2>2. QED
    BY <2>1 DEF Progress, Enter, GetClusterTable, AllocClusterOffset, CallFailed, L2AllocateFailed,
         L2FlushRefcount, L2Copy, WriteL1Entry, SyncL1Entry, Done,
         InsertInFlight, WriteData, Relock, CopySectors, LinkL2,
         Unmap, UnmapPut, FlushToOs, FlushDisk, Replace
<1>4. /\ SyncL1Entry(w) => pc[w] = "l1_sync" /\ stack' = IF old[w] = 0 THEN <<>> ELSE <<UpdateRefcount(old[w], -1)>>
      /\ FreeOld(w) => pc[w] = "unlink" /\ stack' = IF old[w] = 0 THEN <<>> ELSE <<UpdateRefcount(old[w], -1)>>
  BY DEF SyncL1Entry, FreeOld
<1>5. ASSUME NEW o \in Cos, o # w
      PROVE  /\ old'[o] = old[o]
             /\ pc'[o] \in {"l1_sync", "unlink"} <=> pc[o] \in {"l1_sync", "unlink"}
  BY <1>5, OthersStay
<1>6. CASE SyncL1Entry(w) \/ FreeOld(w)
  <2>1. Updating(-1, c)' <=> old[w] = c
    <3>1. CASE old[w] = 0
      <4>1. stack' = <<>>
        BY <1>4, <1>6, <3>1
      <4>2. QED BY <1>0, <3>1, <4>1, UpdatingIs
    <3>2. CASE old[w] # 0
      <4>1. stack' = <<UpdateRefcount(old[w], -1)>>
        BY <1>4, <1>6, <3>2
      <4>2. \A e : e = old[w] => (Updating(-1, c)' <=> c = e)
        BY <4>1, UpdatingIs
      <4>3. QED BY <4>2
    <3>3. QED BY <3>1, <3>2
  <2>2. ~ Updating(-1, c)
    <3>1. pc[w] \notin {"data", "flush_disk"}
      BY <1>4, <1>6
    <3>2. stack = <<>>
      BY <3>1, OwnStack
    <3>3. QED BY <3>2, UpdatingIs
  <2>3. pc[w] \in {"l1_sync", "unlink"}
    BY <1>4, <1>6
  <2>4. QED BY <1>1, <1>5, <2>1, <2>2, <2>3 DEF Freeing
<1>7. CASE ~ SyncL1Entry(w) /\ ~ FreeOld(w)
  <2>1. pc[w] \notin {"l1_sync", "unlink"}
    BY <1>2, <1>3, <1>7
  <2>2. Updating(-1, c)' <=> Updating(-1, c)
    <3>1. CASE stack' = stack
      BY <3>1, UpdatingIs
    <3>2. CASE stack = <<>>
      <4>1. ~ Updating(-1, c)
        BY <3>2, UpdatingIs
      <4>2. ASSUME NEW x, stack' = <<x>>, x.f # "update_refcount" PROVE ~ Updating(-1, c)'
        BY <4>2, UpdatingIs
      <4>3. ASSUME Takes(w) PROVE ~ Updating(-1, c)'
        <5>1. PICK e \in Clusters : AllocCluster(e)
          BY <4>3, TakesIs
        <5>2. stack' = <<UpdateRefcount(e, 1)>>
          BY <5>1 DEF AllocCluster
        <5>3. QED BY <5>2, UpdatingIs
      <4>4. stack' = <<>> => ~ Updating(-1, c)'
        BY UpdatingIs
      <4>5. QED BY <1>7, <3>1, <3>2, <4>1, <4>2, <4>3, <4>4, OwnStack
    <3>3. QED BY <3>1, <3>2, OwnStack
  <2>3. QED BY <1>1, <1>5, <2>1, <2>2 DEF Freeing
<1>8. QED BY <1>6, <1>7

(* A request keeps the cluster it holds, until it links it or gives up.    *)
LEMMA HoldsStays ==
  ASSUME OnlyDataFails, AllInv, NEW w \in Cos, Progress(w),
         ~ WriteL1Entry(w), ~ LinkL2(w), ~ Takes(w)
  PROVE  /\ Holds(w)' => Holds(w) /\ m'[w].c = m[w].c
         /\ Holds(w) /\ ~ Holds(w)' => errors' # 0 /\ stack = <<>>
<1> USE DEF calls, caches, requests, image, ghosts
<1>0. /\ ret = TRUE /\ \A o \in Cos : pc[o] # "l2_put"
      /\ pc \in [Cos -> Locked \cup Unlocked] /\ m \in [Cos -> [alloc : BOOLEAN, c : Clusters \cup {0}]]
      /\ errors \in Nat
  BY DEF AllInv, TypeInv, ShapeInv, WaitInv, PlacesType
<1>t. ~ Fails("flush") /\ ~ Fails("table")
  BY TablesNeverFail
<1>p. PlaceOk(w)
  BY RequestInvIs DEF AllInv
<1>a. m[w].alloc => pc[w] \in InFlight
  BY RequestIs
<1>1. CASE pc'[w] = "idle"
  <2>1. m'[w].alloc = FALSE
    BY <1>1, RequestGoes
  <2>2. ~ Holds(w)'
    BY <1>1, <2>1 DEF Holds
  <2>3. ASSUME Holds(w) PROVE pc[w] = "failed"
    BY <1>0, <1>1, <2>3, <1>t DEF Holds, Progress, Enter, GetClusterTable, AllocClusterOffset,
         CallFailed, L2AllocateFailed, L2FlushRefcount, L2Copy, WriteL1Entry, SyncL1Entry, Done,
         InsertInFlight, WriteData, Relock, CopySectors, LinkL2, FreeOld,
         Unmap, UnmapPut, FlushToOs, FlushDisk, Replace, Goto
  <2>4. Holds(w) => errors' # 0
    <3>1. errors' \in Nat
      BY ProgressKeepsType DEF TypeInv
    <3>2. errors' >= errors
      BY RequestGoes
    <3>3. Holds(w) => errors > 0
      BY <1>p, <2>3 DEF PlaceOk
    <3>4. QED BY <1>0, <3>1, <3>2, <3>3
  <2>5. Holds(w) => stack = <<>>
    BY <2>3, OwnStack
  <2>6. QED BY <2>2, <2>4, <2>5
<1>2. CASE pc'[w] # "idle"
  <2>n. ~ (\E done : Leave(w, done)) /\ ~ FlushDisk(w)
    BY <1>0, <1>2 DEF Leave, FlushDisk, Goto
  <2>m. ~ CallFailed(w) /\ ~ L2AllocateFailed(w) /\ ~ Done(w)
    BY <1>0, <2>n DEF CallFailed, Fail, L2AllocateFailed, Done
  <2>1. CASE L2FlushRefcount(w) \/ L2Copy(w) \/ InsertInFlight(w)
    <3>1. Holds(w) /\ m'[w].c = m[w].c
      BY <1>0, <2>1 DEF L2FlushRefcount, L2Copy, InsertInFlight, Holds
    <3>2. Holds(w)'
      BY <1>0, <2>1 DEF L2FlushRefcount, L2Copy, InsertInFlight, Holds, Goto
    <3>3. QED BY <3>1, <3>2
  <2>2. CASE WriteData(w) \/ Relock(w) \/ CopySectors(w)
    <3>1. /\ m' = m
          /\ pc[w] \in {"data", "wrote", "copied", "copy", "failed"}
          /\ pc'[w] \in {"wrote", "failed", "copy", "copied", "link"}
      BY <1>0, <2>n, <2>2 DEF WriteData, Relock, CopySectors, Fail, Goto, NeedsCow
    <3>2. (Holds(w) <=> m[w].alloc) /\ (Holds(w)' <=> m[w].alloc)
      BY <3>1 DEF Holds
    <3>3. QED BY <3>1, <3>2
  <2>3. CASE AllocClusterOffset(w)
    <3>1. pc[w] = "map" /\ pc'[w] \in {"data", "waiting", "mapped"}
      BY <1>0, <2>3 DEF AllocClusterOffset, Goto
    <3>2. ~ m'[w].alloc
      BY <1>0, <2>3, <1>a, <3>1, RequestGoes DEF InFlight, InsertInFlight
    <3>3. ~ Holds(w) /\ ~ Holds(w)'
      BY <3>1, <3>2 DEF Holds, Takes
    <3>4. QED BY <3>3
  <2>4. CASE Enter(w) \/ SyncL1Entry(w) \/ UnmapPut(w) \/ FreeOld(w)
             \/ FlushToOs(w) \/ Unmap(w) \/ GetClusterTable(w) \/ Replace(w)
    <3>1. pc[w] \in {"enter", "l1_sync", "unmap_put", "unmapped", "unlink", "flush_l2",
                     "flush_ref", "flush_file", "unmap", "table", "get", "evict"}
      BY <2>4 DEF Enter, SyncL1Entry, UnmapPut, FlushToOs, Unmap, FreeOld,
         GetClusterTable, Replace
    <3>2. pc'[w] \in {"table", "flush_l2", "get", "map", "unmap", "l2_flush_refcount", "unmapped",
                      "done", "flush_ref", "flush_file", "flush_disk", "unmap_put", "evict"}
      <4>1. Enter(w) => \E l \in {"table", "flush_l2", "get"} : Goto(w, l)
        BY DEF Enter
      <4>2. QED
        BY <1>0, <2>4, <4>1 DEF SyncL1Entry, UnmapPut, FlushToOs, FreeOld,
           Unmap, GetClusterTable, Replace, Goto
    <3>3. ~ Holds(w) /\ ~ Holds(w)'
      BY <3>1, <3>2 DEF Holds, Takes
    <3>4. QED BY <3>3
  <2>5. QED BY <2>n, <2>m, <2>1, <2>2, <2>3, <2>4 DEF Progress
<1>3. QED BY <1>1, <1>2

LEMMA OthersHold ==
  ASSUME OnlyDataFails, AllInv, NEW w \in Cos, Progress(w), NEW o \in Cos, o # w
  PROVE  (Holds(o)' <=> Holds(o)) /\ m'[o].c = m[o].c
<1>1. m'[o] = m[o] /\ (pc'[o] = pc[o] \/ (pc[o] = "waiting" /\ pc'[o] = "enter"))
  BY OthersStay
<1>2. QED BY <1>1 DEF Holds
-----------------------------------------------------------------------------
(* Requests and the counts.                                                *)

LEMMA ProgressFamiliar ==
  ASSUME OnlyDataFails, AllInv, NEW w \in Cos, Progress(w), ~ WriteL1Entry(w),
         \A i \in Half : Cached(i)' = Cached(i)
  PROVE  /\ Familiar /\ \A c : OnDisk(c)' <= OnDisk(c)
         /\ \A c \in Clusters : Possible(Ref(c))' \subseteq Possible(Ref(c))
<1>1. snap' = snap
  BY ProgressImage
<1>2. CASE Settled /\ l1' = l1
  BY <1>1, <1>2, SettledFamiliar
<1>3. ASSUME NEW c, c = m[w].c, Apart(c), Transfer(c), UNCHANGED <<l1, l2>>
      PROVE  /\ Familiar /\ \A d : OnDisk(d)' <= OnDisk(d)
             /\ \A d \in Clusters : Possible(Ref(d))' \subseteq Possible(Ref(d))
  <2>1. PICK ws : Written(ws) /\ DOMAIN ws \subseteq {Cell(c, h) : h \in Half}
    BY <1>3 DEF Transfer
  <2>2. /\ \A d \in Clusters : Possible(Ref(d))' = Possible(Ref(d))
        /\ Possible(L1)' = Possible(L1)
        /\ \A i \in Half : Stored(i)' = Stored(i)
    BY <1>3, <2>1, DataWritten
  <2>3. Familiar
    BY <1>1, <1>3, <2>2 DEF Familiar
  <2>4. \A d : OnDisk(d)' <= OnDisk(d)
    BY <1>1, <2>2, OnDiskShrinks
  <2>5. QED BY <2>2, <2>3, <2>4
<1>4. QED BY <1>2, <1>3, ProgressImage

(* An Unmap finds the entry of the table in memory.                        *)
LEMMA UnmapIs ==
  ASSUME OnlyDataFails, AllInv, NEW w \in Cos, Unmap(w), NEW g, g = req[w].g
  PROVE  /\ g \in Half /\ L2Entry(w) = Cached(g) /\ pc[w] = "unmap" /\ lock = w /\ stack = <<>>
         /\ pc'[w] = "unmap_put"
         /\ L2Entry(w).c = 0 => L2Entry(w) = Unallocated
<1>1. g \in Half /\ pc[w] = "unmap" /\ lock = w /\ stack = <<>>
  BY RequestIs DEF Unmap, Owns
<1>2. PlaceOk(w) /\ pc \in [Cos -> Locked \cup Unlocked]
  BY RequestInvIs DEF AllInv, WaitInv, PlacesType
<1>3. l1.c \in DOMAIN l2
  BY <1>1, <1>2 DEF PlaceOk
<1>4. L2Entry(w) = Cached(g) /\ Cached(g) \in EntrySet
  BY <1>1, <1>3, CachedIs DEF L2Entry
<1>5. pc'[w] = "unmap_put"
  BY <1>1, <1>2 DEF Unmap, Goto
<1>6. QED BY <1>1, <1>4, <1>5, EntriesAre

LEMMA QuietKeepsCounts ==
  ASSUME OnlyDataFails, AllInv, NEW w \in Cos, Progress(w), ~ WriteL1Entry(w), ~ LinkL2(w),
         ~ Takes(w), Unmap(w) => L2Entry(w).c = 0
  PROVE  CountsInv'
<1>1. \A i \in Half : Cached(i)' = Cached(i)
  <2> SUFFICES ASSUME NEW i \in Half PROVE Becomes(w, i) = Cached(i)
    BY ProgressKeepsCache
  <2>1. Unmap(w) /\ i = req[w].g => Cached(i) = Unallocated
    BY UnmapIs
  <2>2. QED BY <2>1 DEF Becomes
<1>2. /\ Familiar /\ \A c : OnDisk(c)' <= OnDisk(c)
      /\ \A c \in Clusters : Possible(Ref(c))' \subseteq Possible(Ref(c))
  BY <1>1, ProgressFamiliar
<1>3. depends' = depends /\ refcount' = refcount /\ crashes' = crashes
  BY LockGoes, ProgressImage
<1>4. DiskInv'
  BY <1>2, <1>3, DiskStays
<1>5. errors' = 0 => errors = 0
  <2>1. errors \in Nat /\ errors' \in Nat /\ errors' >= errors
    BY RequestGoes, ProgressKeepsType DEF AllInv, TypeInv
  <2>2. QED BY <2>1
<1>6. /\ \A o \in Cos : Holds(o)' => Holds(o) /\ m'[o].c = m[o].c
      /\ \A o \in Cos : Holds(o) /\ ~ Holds(o)' => errors' # 0 /\ ~ Adding(m[o].c)
  <2>1. stack = <<>> => \A c : ~ Adding(c)
    BY UpdatingIs DEF Adding
  <2>2. QED BY <2>1, HoldsStays, OthersHold
<1>7. \A c \in Clusters : (Adding(c)' <=> Adding(c)) /\ (Freeing(c)' <=> Freeing(c))
  BY AddingStays, FreeingStays
<1>8. HeldInv' /\ CountInv' /\ PrivateInv'
  BY <1>2, <1>3, <1>5, <1>6, <1>7, CountsStay
<1>9. QED BY <1>4, <1>8 DEF CountsInv

(* A request takes a cluster that nothing refers to.                       *)
LEMMA TakesKeepsCounts ==
  ASSUME OnlyDataFails, AllInv, NEW w \in Cos, Progress(w), Takes(w)
  PROVE  CountsInv'
<1>1. PICK c \in Clusters :
           /\ AllocCluster(c) /\ m'[w].c = c
           /\ m'[w].alloc = FALSE /\ lock = w /\ stack = <<>>
           /\ UNCHANGED <<file, lost, l1, l2, refcount, snap, depends, errors, crashes>>
           /\ pc[w] \in {"table", "map"}
  BY TakesIs
<1>2. refcount[c] = 0 /\ stack' = <<UpdateRefcount(c, 1)>>
  BY <1>1 DEF AllocCluster, Free
<1>3. (\A d : ~ Adding(d)) /\ (\A d : Adding(d)' <=> d = c)
  BY <1>1, <1>2, UpdatingIs DEF Adding
<1>4. \A d \in Clusters : Freeing(d)' <=> Freeing(d)
  <2>1. ~ WriteL1Entry(w) /\ ~ LinkL2(w) /\ ~ Unmap(w)
    BY <1>1 DEF WriteL1Entry, LinkL2, Unmap
  <2>2. QED BY <2>1, FreeingStays
<1>5. Holds(w)' /\ ~ Holds(w)
  <2>1. ~ m[w].alloc
    BY <1>1, RequestIs DEF InFlight
  <2>2. QED BY <1>1, <2>1 DEF Holds, Takes
<1>6. \A o \in Cos : o # w => (Holds(o)' <=> Holds(o)) /\ m'[o].c = m[o].c
  BY OthersHold
<1>7. HeldInv /\ CountInv /\ DiskInv /\ PrivateInv /\ refcount \in [Clusters -> Nat]
  BY DEF AllInv, CountsInv, TypeInv
<1>8. ~ Held(c)
  BY <1>2, <1>3, <1>7 DEF HeldInv, HeldOk
<1>9. \A d : Held(d)' <=> Held(d) \/ d = c
  BY <1>1, <1>5, <1>6 DEF Held
<1>10. /\ \A i \in Half : Cached(i)' = Cached(i)
       /\ \A d : InMemory(d)' = InMemory(d) /\ Anywhere(d)' = Anywhere(d) /\ OnDisk(d)' = OnDisk(d)
       /\ \A u : Possible(u)' = Possible(u)
       /\ AllEntries' = AllEntries
  BY <1>1 DEF Cached, Entries, InMemory, Anywhere, OnDisk, Possible, AllEntries, Stored, Tables,
              BySnap
<1>11. \A d : InMemory(d) \in Nat /\ Anywhere(d) \in Nat /\ Bit(Freeing(d)) \in {0, 1}
  BY CountsAre
<1>12. InMemory(c) = 0 /\ ~ Freeing(c) /\ (depends["ref"] = None => Anywhere(c) = 0)
  <2>1. CountOk(c)
    BY <1>7, <1>8 DEF CountInv
  <2>2. QED BY <1>2, <1>11, <2>1 DEF CountOk, Bit
<1>13. HeldInv'
  <2>1. \A o \in Cos : Holds(o)' => m'[o].c \in Clusters
    BY <1>1, <1>6, <1>7 DEF HeldInv
  <2>2. \A o \in Cos : o # w /\ Holds(o)' => m'[o].c # c
    BY <1>6, <1>8 DEF Held
  <2>3. \A a, o \in Cos : Holds(a)' /\ Holds(o)' /\ m'[a].c = m'[o].c => a = o
    BY <1>1, <1>6, <1>7, <2>2 DEF HeldInv
  <2>4. \A d \in Clusters : Adding(d)' => Held(d)'
    BY <1>3, <1>9
  <2>5. ASSUME NEW d \in Clusters, Held(d)' PROVE HeldOk(d)'
    <3>1. CASE d = c
      BY <1>1, <1>2, <1>3, <1>4, <1>10, <1>12, <3>1 DEF HeldOk
    <3>2. CASE d # c
      <4>1. HeldOk(d)
        BY <1>7, <1>9, <2>5, <3>2 DEF HeldInv
      <4>2. QED BY <1>1, <1>3, <1>4, <1>10, <3>2, <4>1 DEF HeldOk
    <3>3. QED BY <3>1, <3>2
  <2>6. QED BY <2>1, <2>3, <2>4, <2>5 DEF HeldInv
<1>14. CountInv'
  <2> SUFFICES ASSUME NEW d \in Clusters, ~ Held(d)' PROVE CountOk(d)'
    BY DEF CountInv
  <2>1. CountOk(d)
    BY <1>7, <1>9 DEF CountInv
  <2>2. Bit(Freeing(d))' = Bit(Freeing(d))
    BY <1>4 DEF Bit
  <2>3. QED BY <1>1, <1>10, <2>1, <2>2 DEF CountOk
<1>15. DiskInv' /\ PrivateInv'
  BY <1>1, <1>7, <1>10 DEF DiskInv, PrivateInv
<1>16. QED BY <1>13, <1>14, <1>15 DEF CountsInv

LEMMA AllEntriesAre == AllInv => AllEntries \subseteq EntrySet
<1> SUFFICES ASSUME AllInv PROVE AllEntries \subseteq EntrySet
  OBVIOUS
<1>1. /\ Possible(L1) \subseteq EntrySet /\ \A i \in Half : Stored(i) \subseteq EntrySet
  BY DEF AllInv, FileInv
<1>2. l1 \in EntrySet /\ \A i \in Half : Cached(i) \in EntrySet
  BY CachedIs
<1>3. QED BY <1>1, <1>2 DEF AllEntries

(* A reference to x in memory goes, and one to the cluster c that w held   *)
(* comes, if c is a cluster.                                               *)
LEMMA MoveKeepsCounts ==
  ASSUME AllInv, NEW w \in Cos, NEW c \in Clusters \cup {0}, NEW x, x # c \/ x = 0,
         UNCHANGED <<refcount, crashes, errors, depends>>,
         \A d : ~ Adding(d) /\ ~ Adding(d)',
         \A d \in Clusters : ~ Freeing(d) /\ (Freeing(d)' <=> d = x),
         ~ Holds(w)', IF c = 0 THEN ~ Holds(w) ELSE Holds(w) /\ m[w].c = c,
         \A o \in Cos : o # w => (Holds(o)' <=> Holds(o)) /\ m'[o].c = m[o].c,
         \A d \in Clusters : InMemory(d)' =
           InMemory(d) + (IF d = c THEN 1 ELSE 0) - (IF d = x THEN 1 ELSE 0),
         \A d \in Clusters : IF d = c THEN Anywhere(d)' <= 1 ELSE Anywhere(d)' <= Anywhere(d),
         \A e \in AllEntries' : e.flag = "copied" => e \in AllEntries \/ (e.c = c /\ c # 0)
  PROVE  HeldInv' /\ CountInv' /\ PrivateInv'
<1>1. HeldInv /\ CountInv /\ PrivateInv /\ refcount \in [Clusters -> Nat]
  BY DEF AllInv, CountsInv, TypeInv
<1>2. /\ \A d : InMemory(d) \in Nat /\ Anywhere(d) \in Nat /\ InMemory(d) <= Anywhere(d)
      /\ \A d : Anywhere(d)' \in Nat /\ InMemory(d)' \in Nat
  <2>1. \A d : Anywhere(d)' \in Nat /\ InMemory(d)' \in Nat
    BY BitIs DEF Anywhere, InMemory
  <2>2. QED BY <2>1, CountsAre, AnywhereMost
<1>3. \A d \in Clusters : Held(d) => (Held(d)' \/ d = c)
  BY DEF Held
<1>4. \A d \in Clusters : Held(d)' => Held(d) /\ d # c
  <2> SUFFICES ASSUME NEW d \in Clusters, Held(d)' PROVE Held(d) /\ d # c
    OBVIOUS
  <2>1. PICK o \in Cos : Holds(o)' /\ m'[o].c = d
    BY DEF Held
  <2>2. o # w /\ Holds(o) /\ m[o].c = d
    BY <2>1
  <2>3. d = c => c # 0 /\ Holds(w) /\ m[w].c = c
    BY ClustersAre
  <2>4. QED BY <1>1, <2>2, <2>3 DEF HeldInv, Held
<1>5. \A d \in Clusters : Held(d) =>
        refcount[d] = 1 /\ InMemory(d) = 0 /\ (depends["ref"] = None => Anywhere(d) = 0)
  BY <1>1 DEF HeldInv, HeldOk
<1>6. HeldInv'
  <2>1. \A o \in Cos : Holds(o)' => m'[o].c \in Clusters
    BY <1>1 DEF HeldInv
  <2>2. \A a, o \in Cos : Holds(a)' /\ Holds(o)' /\ m'[a].c = m'[o].c => a = o
    BY <1>1 DEF HeldInv
  <2>3. ASSUME NEW d \in Clusters, Held(d)' PROVE HeldOk(d)'
    <3>1. d # c /\ refcount[d] = 1 /\ InMemory(d) = 0 /\ (depends["ref"] = None => Anywhere(d) = 0)
      BY <1>4, <1>5, <2>3
    <3>2. (d = x => InMemory(d)' = 0 - 1) /\ (d # x => InMemory(d)' = 0)
      <4>1. d = x => InMemory(d)' = (0 + 0) - 1
        BY <3>1
      <4>2. d # x => InMemory(d)' = (0 + 0) - 0
        BY <3>1
      <4>3. QED BY <4>1, <4>2
    <3>a. InMemory(d)' \in Nat
      BY <1>2
    <3>b. d # x
      BY <3>2, <3>a
    <3>3. d # x /\ InMemory(d)' = 0
      BY <3>2, <3>b
    <3>4. depends'["ref"] = None => Anywhere(d)' = 0
      BY <1>2, <3>1
    <3>5. QED BY <3>1, <3>3, <3>4 DEF HeldOk
  <2>4. QED BY <2>1, <2>2, <2>3 DEF HeldInv
<1>7. ASSUME NEW d \in Clusters, ~ Held(d)' PROVE CountOk(d)'
  <2>1. Bit(Freeing(d)) = 0 /\ Bit(Freeing(d))' = IF d = x THEN 1 ELSE 0
    BY DEF Bit
  <2>2. CASE d = c
    <3>1. Held(d)
      BY <2>2, ClustersAre DEF Held
    <3>2. refcount[d] = 1 /\ InMemory(d) = 0
      BY <1>5, <3>1
    <3>3. d # x
      BY <2>2, ClustersAre
    <3>4. InMemory(d)' = 1 /\ Bit(Freeing(d))' = 0
      BY <1>2, <2>1, <2>2, <3>2, <3>3
    <3>5. QED BY <2>2, <3>2, <3>4 DEF CountOk
  <2>3. CASE d # c
    <3>1. ~ Held(d)
      BY <1>3, <1>7, <2>3
    <3>2. /\ refcount[d] >= InMemory(d)
          /\ crashes = 0 /\ errors = 0 => refcount[d] = InMemory(d)
          /\ depends["ref"] = None => refcount[d] >= Anywhere(d)
      BY <1>1, <1>2, <2>1, <3>1 DEF CountInv, CountOk
    <3>3. InMemory(d)' + Bit(Freeing(d))' = InMemory(d)
      BY <1>2, <2>1, <2>3
    <3>4. depends'["ref"] = None => refcount[d] >= Anywhere(d)'
      BY <1>1, <1>2, <2>3, <3>2
    <3>5. QED BY <3>2, <3>3, <3>4 DEF CountOk
  <2>4. QED BY <2>2, <2>3
<1>8. PrivateInv'
  <2> SUFFICES ASSUME NEW e \in AllEntries', e.flag = "copied" PROVE Anywhere(e.c)' <= 1
    BY DEF PrivateInv
  <2>1. CASE e.c = c /\ c # 0
    BY <2>1
  <2>2. CASE e \in AllEntries
    <3>1. e.c \in Clusters /\ Anywhere(e.c) <= 1
      BY <1>1, <2>2, AllEntriesAre, EntriesAre DEF PrivateInv
    <3>2. QED BY <1>2, <3>1
  <2>3. QED BY <2>1, <2>2
<1>9. QED BY <1>6, <1>7, <1>8 DEF CountInv
-----------------------------------------------------------------------------
(* References that move.                                                   *)

(* An entry of the table in memory becomes e.                              *)
LEMMA SwapCounts ==
  ASSUME l1' = l1, snap' = snap, Possible(L1)' = Possible(L1), \A i \in Half : Stored(i)' = Stored(i),
         NEW g \in Half, NEW e,
         \A i \in Half : Cached(i)' = IF i = g THEN e ELSE Cached(i)
  PROVE  /\ \A d : InMemory(d)' = InMemory(d) + (IF d = e.c THEN 1 ELSE 0)
                                    - (IF d = Cached(g).c THEN 1 ELSE 0)
         /\ \A d : /\ d # e.c => Anywhere(d)' <= Anywhere(d)
                   /\ Anywhere(d) = 0 => Anywhere(d)' <= 1
                   /\ OnDisk(d)' = OnDisk(d)
         /\ AllEntries' \subseteq AllEntries \cup {e}
<1>1. /\ Stored(0)' = Stored(0) /\ Stored(1)' = Stored(1)
      /\ g = 0 => Cached(0)' = e /\ Cached(1)' = Cached(1)
      /\ g = 1 => Cached(1)' = e /\ Cached(0)' = Cached(0)
      /\ g = 0 \/ g = 1
  BY HalfAre
<1>2. AllEntries' \subseteq AllEntries \cup {e}
  BY <1>1, HalfAre DEF AllEntries
<1>b. \A d : BySnap(d)' <=> BySnap(d)
  BY DEF BySnap
<1>c. \A b : Bit(b) \in {0, 1}
  BY DEF Bit
<1>3. ASSUME NEW d
      PROVE  InMemory(d)' = InMemory(d) + (IF d = e.c THEN 1 ELSE 0)
                              - (IF d = Cached(g).c THEN 1 ELSE 0)
  <2>1. InMemory(d)' = Bit(l1'.c = d) + Bit(Cached(0)'.c = d) + Bit(Cached(1)'.c = d) + Bit(BySnap(d)')
    BY DEF InMemory, Bit
  <2>2. Bit(l1'.c = d) = Bit(l1.c = d) /\ Bit(BySnap(d)') = Bit(BySnap(d))
    BY <1>b DEF Bit
  <2>3. /\ Bit(e.c = d) = (IF d = e.c THEN 1 ELSE 0)
        /\ Bit(Cached(g).c = d) = (IF d = Cached(g).c THEN 1 ELSE 0)
    BY DEF Bit
  <2>4. CASE g = 0
    <3>1. Bit(Cached(0)'.c = d) = Bit(e.c = d) /\ Bit(Cached(1)'.c = d) = Bit(Cached(1).c = d)
      BY <1>1, <2>4
    <3>2. /\ Bit(l1.c = d) \in Int /\ Bit(e.c = d) \in Int /\ Bit(Cached(0).c = d) \in Int
          /\ Bit(Cached(1).c = d) \in Int /\ Bit(BySnap(d)) \in Int
      BY DEF Bit
    <3>3. InMemory(d) = Bit(l1.c = d) + Bit(Cached(0).c = d) + Bit(Cached(1).c = d) + Bit(BySnap(d))
      BY DEF InMemory
    <3>4. InMemory(d)' = InMemory(d) + Bit(e.c = d) - Bit(Cached(0).c = d)
      BY <2>1, <2>2, <3>1, <3>2, <3>3
    <3>5. QED BY <2>3, <2>4, <3>4
  <2>5. CASE g = 1
    <3>1. Bit(Cached(1)'.c = d) = Bit(e.c = d) /\ Bit(Cached(0)'.c = d) = Bit(Cached(0).c = d)
      BY <1>1, <2>5
    <3>2. /\ Bit(l1.c = d) \in Int /\ Bit(e.c = d) \in Int /\ Bit(Cached(0).c = d) \in Int
          /\ Bit(Cached(1).c = d) \in Int /\ Bit(BySnap(d)) \in Int
      BY DEF Bit
    <3>3. InMemory(d) = Bit(l1.c = d) + Bit(Cached(0).c = d) + Bit(Cached(1).c = d) + Bit(BySnap(d))
      BY DEF InMemory
    <3>4. InMemory(d)' = InMemory(d) + Bit(e.c = d) - Bit(Cached(1).c = d)
      BY <2>1, <2>2, <3>1, <3>2, <3>3
    <3>5. QED BY <2>3, <2>5, <3>4
  <2>6. QED BY <1>1, <2>4, <2>5
<1>4. ASSUME NEW d
      PROVE  /\ d # e.c => Anywhere(d)' <= Anywhere(d)
             /\ Anywhere(d) = 0 => Anywhere(d)' <= 1
             /\ OnDisk(d)' = OnDisk(d)
  <2> DEFINE s0 == Stored(0) \cup {Cached(0)}
             s1 == Stored(1) \cup {Cached(1)}
             p == Possible(L1) \cup {l1}
  <2>1. OnDisk(d)' = OnDisk(d)
    <3>1. OnDisk(d)' = Bit(Points(Possible(L1)', d)) + Bit(Points(Stored(0)', d))
                         + Bit(Points(Stored(1)', d)) + Bit(BySnap(d)')
      BY DEF OnDisk, Points, Bit
    <3>2. Bit(BySnap(d)') = Bit(BySnap(d))
      BY <1>b DEF Bit
    <3>3. QED BY <1>1, <3>1, <3>2 DEF OnDisk
  <2>2. Anywhere(d)' = Bit(Points(Possible(L1)' \cup {l1'}, d))
             + Bit(Points(Stored(0)' \cup {Cached(0)'}, d))
             + Bit(Points(Stored(1)' \cup {Cached(1)'}, d)) + Bit(BySnap(d)')
    BY DEF Anywhere, Points, Bit
  <2>3. Anywhere(d) = Bit(Points(p, d)) + Bit(Points(s0, d)) + Bit(Points(s1, d)) + Bit(BySnap(d))
    BY DEF Anywhere
  <2>4. Points(Possible(L1)' \cup {l1'}, d) <=> Points(p, d)
    BY DEF Points
  <2>5. CASE g = 0
    <3>1. /\ Points(Stored(1)' \cup {Cached(1)'}, d) <=> Points(s1, d)
          /\ d # e.c => (Points(Stored(0)' \cup {Cached(0)'}, d) => Points(s0, d))
      BY <1>1, <2>5 DEF Points
    <3>2. /\ Bit(Points(Stored(1)' \cup {Cached(1)'}, d)) = Bit(Points(s1, d))
          /\ d # e.c => Bit(Points(Stored(0)' \cup {Cached(0)'}, d)) <= Bit(Points(s0, d))
          /\ Bit(Points(Possible(L1)' \cup {l1'}, d)) = Bit(Points(p, d))
          /\ Bit(BySnap(d)') = Bit(BySnap(d))
      BY <1>b, <2>4, <3>1 DEF Bit
    <3>3. Bit(Points(Stored(0)' \cup {Cached(0)'}, d)) \in {0, 1}
      BY <1>c
    <3> HIDE DEF p, s0, s1
    <3>4. QED BY <1>c, <2>1, <2>2, <2>3, <3>2, <3>3
  <2>6. CASE g = 1
    <3>1. /\ Points(Stored(0)' \cup {Cached(0)'}, d) <=> Points(s0, d)
          /\ d # e.c => (Points(Stored(1)' \cup {Cached(1)'}, d) => Points(s1, d))
      BY <1>1, <2>6 DEF Points
    <3>2. /\ Bit(Points(Stored(0)' \cup {Cached(0)'}, d)) = Bit(Points(s0, d))
          /\ d # e.c => Bit(Points(Stored(1)' \cup {Cached(1)'}, d)) <= Bit(Points(s1, d))
          /\ Bit(Points(Possible(L1)' \cup {l1'}, d)) = Bit(Points(p, d))
          /\ Bit(BySnap(d)') = Bit(BySnap(d))
      BY <1>b, <2>4, <3>1 DEF Bit
    <3>3. Bit(Points(Stored(1)' \cup {Cached(1)'}, d)) \in {0, 1}
      BY <1>c
    <3> HIDE DEF p, s0, s1
    <3>4. QED BY <1>c, <2>1, <2>2, <2>3, <3>2, <3>3
  <2>7. QED BY <1>1, <2>5, <2>6
<1>5. QED BY <1>2, <1>3, <1>4

(* The steps that put another entry into the table.                        *)
LEMMA SwapImage ==
  ASSUME OnlyDataFails, AllInv, NEW w \in Cos, Progress(w), LinkL2(w) \/ Unmap(w)
  PROVE  /\ UNCHANGED <<refcount, crashes, errors, depends, l1, snap, m>>
         /\ Possible(L1)' = Possible(L1) /\ \A i \in Half : Stored(i)' = Stored(i)
         /\ \A c : Possible(Ref(c))' = Possible(Ref(c))
         /\ (\A d : ~ Adding(d) /\ ~ Adding(d)') /\ (\A d \in Clusters : ~ Freeing(d))
         /\ \A o \in Cos : o # w => /\ (Holds(o)' <=> Holds(o)) /\ m'[o].c = m[o].c
                                    /\ old'[o] = old[o] /\ ~ pc'[o] \in {"l1_sync", "unlink"}
<1> USE DEF image, ghosts, calls, requests, caches
<1>1. /\ UNCHANGED <<refcount, crashes, errors, depends, l1, snap, m, file, lost>>
      /\ lock = w /\ stack = <<>> /\ pc[w] \in {"link", "unmap"}
  BY DEF LinkL2, Unmap, SetL2Entry, Owns
<1>2. /\ Possible(L1)' = Possible(L1) /\ \A i \in Half : Stored(i)' = Stored(i)
      /\ \A c : Possible(Ref(c))' = Possible(Ref(c))
  BY <1>1 DEF Possible, Stored, Tables
<1>3. \A o \in Cos : ~ pc[o] \in {"l1_sync", "unlink"}
  <2> SUFFICES ASSUME NEW o \in Cos, pc[o] \in {"l1_sync", "unlink"} PROVE FALSE
    OBVIOUS
  <2>1. lock = o
    BY RequestIs DEF Locked
  <2>2. QED BY <1>1, <2>1
<1>4. \A d : ~ Adding(d) /\ ~ Freeing(d)
  BY <1>1, <1>3, UpdatingIs DEF Adding, Freeing
<1>5. \A d : ~ Adding(d)'
  <2>1. ~ Takes(w)
    <3>1. GetClusterTable(w) \/ AllocClusterOffset(w) => pc[w] \in {"table", "map"}
      BY DEF GetClusterTable, AllocClusterOffset
    <3>2. QED BY <1>1, <3>1, TableSteps, RequestMaps DEF Takes
  <2>2. QED BY <1>4, <2>1, AddingStays
<1>6. \A o \in Cos : o # w => /\ (Holds(o)' <=> Holds(o)) /\ m'[o].c = m[o].c
                              /\ old'[o] = old[o] /\ ~ pc'[o] \in {"l1_sync", "unlink"}
  BY <1>3, OthersHold, OthersStay
<1>7. QED BY <1>1, <1>2, <1>4, <1>5, <1>6

LEMMA LinkKeepsCounts ==
  ASSUME OnlyDataFails, AllInv, NEW w \in Cos, Progress(w), LinkL2(w),
         NEW g, g = req[w].g, NEW c, c = m[w].c, NEW x, x = Cached(g).c
  PROVE  CountsInv'
<1> USE DEF image, ghosts, calls, requests, caches
<1>0. /\ pc \in [Cos -> Locked \cup Unlocked] /\ old \in [Cos -> Clusters \cup {0}]
      /\ PlaceOk(w) /\ g \in Half
  BY RequestInvIs, RequestIs DEF AllInv, WaitInv, PlacesType, TypeInv
<1>1. pc[w] = "link" /\ lock = w /\ stack = <<>> /\ pc'[w] = "unlink" /\ Holds(w)
  <2>1. pc[w] = "link" /\ lock = w /\ stack = <<>> /\ pc'[w] = "unlink"
    BY <1>0 DEF LinkL2, Owns, Goto
  <2>2. QED BY <1>0, <2>1 DEF Holds, PlaceOk
<1>2. /\ c \in Clusters /\ \A i \in Half : Cached(i).c # c
  BY <1>1, HeldIs
<1>3. old'[w] = x
  <2>1. l1.c # 0
    BY <1>0, <1>1, CachedIs, EntriesAre DEF PlaceOk, Mapped
  <2>2. Entries(l1.c)[req[w].g] = Cached(g)
    BY <1>0, <2>1, CachedIs
  <2>3. QED BY <1>0, <2>2 DEF LinkL2
<1>4. depends["l2"] # None /\ depends["ref"] = None
  <2>1. depends["l2"] = "ref"
    BY <1>1 DEF AllInv, OwnerInv
  <2>2. QED BY <2>1, CachesAre DEF AllInv, DependInv, NoDependencyCycle
<1>5. /\ UNCHANGED <<refcount, crashes, errors, depends, l1, snap, m>>
      /\ Possible(L1)' = Possible(L1) /\ \A i \in Half : Stored(i)' = Stored(i)
      /\ \A d : Possible(Ref(d))' = Possible(Ref(d))
      /\ (\A d : ~ Adding(d) /\ ~ Adding(d)') /\ (\A d \in Clusters : ~ Freeing(d))
      /\ \A o \in Cos : o # w => /\ (Holds(o)' <=> Holds(o)) /\ m'[o].c = m[o].c
                                 /\ old'[o] = old[o] /\ ~ pc'[o] \in {"l1_sync", "unlink"}
  BY SwapImage
<1> DEFINE e == Entry(c, "copied")
<1>6. \A i \in Half : Cached(i)' = IF i = g THEN e ELSE Cached(i)
  <2>1. ~ Unmap(w)
    BY <1>1 DEF Unmap
  <2>2. QED BY <2>1, ProgressKeepsCache DEF Becomes
<1>e. e.c = c /\ e.flag = "copied"
  BY EntriesAre
<1> HIDE DEF e
<1>7. /\ \A d : InMemory(d)' = InMemory(d) + (IF d = c THEN 1 ELSE 0) - (IF d = x THEN 1 ELSE 0)
      /\ \A d : /\ d # c => Anywhere(d)' <= Anywhere(d)
                /\ Anywhere(d) = 0 => Anywhere(d)' <= 1
                /\ OnDisk(d)' = OnDisk(d)
      /\ AllEntries' \subseteq AllEntries \cup {e}
  BY <1>0, <1>5, <1>6, <1>e, SwapCounts
<1>8. Anywhere(c) = 0
  <2>1. Held(c) /\ c \in Clusters
    BY <1>1, <1>2 DEF Held
  <2>2. QED BY <1>4, <2>1 DEF AllInv, CountsInv, HeldInv, HeldOk
<1>9. \A d \in Clusters : Freeing(d)' <=> d = x
  <2>1. \A d : ~ Updating(-1, d)'
    <3>1. stack' = <<>> \/ \E y : stack' = <<y>> /\ y.f # "update_refcount"
      BY DEF LinkL2, PutFrames, EntryFlush, Frame
    <3>2. QED BY <3>1, UpdatingIs
  <2>2. QED BY <1>1, <1>3, <1>5, <2>1 DEF Freeing
<1>10. ~ Holds(w)'
  BY <1>1 DEF Holds
<1>11. /\ c \in Clusters \cup {0} /\ (x # c \/ x = 0) /\ c # 0
       /\ \A d \in Clusters : IF d = c THEN Anywhere(d)' <= 1 ELSE Anywhere(d)' <= Anywhere(d)
       /\ \A y \in AllEntries' : y.flag = "copied" => y \in AllEntries \/ (y.c = c /\ c # 0)
  BY <1>0, <1>2, <1>7, <1>8, <1>e, ClustersAre
<1>12. HeldInv' /\ CountInv' /\ PrivateInv'
  BY <1>1, <1>5, <1>7, <1>9, <1>10, <1>11, MoveKeepsCounts
<1>13. DiskInv'
  BY <1>4, <1>5, <1>7 DEF AllInv, CountsInv, DiskInv
<1>14. QED BY <1>12, <1>13 DEF CountsInv

LEMMA UnmapKeepsCounts ==
  ASSUME OnlyDataFails, AllInv, NEW w \in Cos, Progress(w), Unmap(w),
         NEW g, g = req[w].g, NEW x, x = L2Entry(w).c, x # 0
  PROVE  CountsInv'
<1> USE DEF image, ghosts, calls, requests, caches
<1>1. /\ g \in Half /\ x = Cached(g).c /\ pc[w] = "unmap" /\ pc'[w] = "unmap_put"
  BY UnmapIs
<1>2. stack' = <<UpdateRefcount(x, -1)>>
  BY DEF Unmap
<1>5. /\ UNCHANGED <<refcount, crashes, errors, depends, l1, snap, m>>
      /\ Possible(L1)' = Possible(L1) /\ \A i \in Half : Stored(i)' = Stored(i)
      /\ \A d : Possible(Ref(d))' = Possible(Ref(d))
      /\ (\A d : ~ Adding(d) /\ ~ Adding(d)') /\ (\A d \in Clusters : ~ Freeing(d))
      /\ \A o \in Cos : o # w => /\ (Holds(o)' <=> Holds(o)) /\ m'[o].c = m[o].c
                                 /\ old'[o] = old[o] /\ ~ pc'[o] \in {"l1_sync", "unlink"}
  BY SwapImage
<1>6. \A i \in Half : Cached(i)' = IF i = g THEN Unallocated ELSE Cached(i)
  <2>1. ~ LinkL2(w)
    BY <1>1 DEF LinkL2
  <2>2. QED BY <2>1, ProgressKeepsCache DEF Becomes
<1>e. Unallocated.c = 0 /\ Unallocated.flag = "none"
  BY EntriesAre
<1>7. /\ \A d : InMemory(d)' = InMemory(d) + (IF d = 0 THEN 1 ELSE 0) - (IF d = x THEN 1 ELSE 0)
      /\ \A d : /\ d # 0 => Anywhere(d)' <= Anywhere(d)
                /\ OnDisk(d)' = OnDisk(d)
      /\ AllEntries' \subseteq AllEntries \cup {Unallocated}
  BY <1>1, <1>5, <1>6, <1>e, SwapCounts
<1>9. \A d \in Clusters : Freeing(d)' <=> d = x
  <2>1. \A d : Updating(-1, d)' <=> d = x
    BY <1>2, UpdatingIs
  <2>2. QED BY <1>1, <1>5, <2>1 DEF Freeing
<1>10. ~ Holds(w) /\ ~ Holds(w)'
  <2>1. ~ m[w].alloc
    BY <1>1, RequestIs DEF InFlight
  <2>2. QED BY <1>1, <2>1 DEF Holds
<1>11. /\ 0 \in Clusters \cup {0} /\ x # 0
       /\ \A d \in Clusters : d # 0 /\ Anywhere(d)' <= Anywhere(d)
       /\ \A y \in AllEntries' : y.flag = "copied" => y \in AllEntries \/ (y.c = 0 /\ 0 # 0)
  BY <1>7, <1>e, ClustersAre
<1>12. HeldInv' /\ CountInv' /\ PrivateInv'
  BY <1>5, <1>7, <1>9, <1>10, <1>11, MoveKeepsCounts
<1>13. DiskInv'
  <2>1. \A d \in Clusters : /\ Anywhere(d)' <= Anywhere(d) /\ Anywhere(d)' \in Nat /\ Anywhere(d) \in Nat
    <3>1. \A d : Anywhere(d)' \in Nat
      BY BitIs DEF Anywhere
    <3>2. QED BY <1>11, <3>1, CountsAre
  <2>2. \A d \in Clusters : Possible(Ref(d)) \subseteq Nat
    BY DEF AllInv, FileInv
  <2>3. QED BY <1>5, <1>7, <2>1, <2>2 DEF AllInv, CountsInv, DiskInv
<1>14. QED BY <1>12, <1>13 DEF CountsInv
-----------------------------------------------------------------------------
(* A new table.                                                            *)

LEMMA L1Counts ==
  ASSUME OnlyDataFails, AllInv, NEW w \in Cos, WriteL1Entry(w), NEW c, c = m[w].c
  PROVE  /\ \A d : InMemory(d)' = InMemory(d) + (IF d = c THEN 1 ELSE 0) - (IF d = l1.c THEN 1 ELSE 0)
         /\ \A d : d # c => Anywhere(d)' <= InMemory(d) /\ OnDisk(d)' <= InMemory(d)
         /\ Anywhere(c)' <= 1 /\ OnDisk(c)' <= 1
         /\ AllEntries' \subseteq {l1, l1'} \cup {Cached(0), Cached(1)}
<1>1. /\ l1' = Entry(c, "copied") /\ c \in Clusters /\ snap' = snap /\ Holds(w)
      /\ Possible(L1)' \subseteq {l1, l1'}
      /\ \A i \in Half : Cached(i)' = Cached(i) /\ Stored(i)' \subseteq {Cached(i)}
  BY WriteL1Is
<1>2. /\ Cached(0)' = Cached(0) /\ Stored(0)' \subseteq {Cached(0)}
      /\ Cached(1)' = Cached(1) /\ Stored(1)' \subseteq {Cached(1)}
      /\ l1'.c = c
  BY <1>1, HalfAre, EntriesAre
<1>3. l1.c # c /\ Cached(0).c # c /\ Cached(1).c # c /\ ~ BySnap(c)
  BY <1>1, HeldIs, HalfAre
<1>4. AllEntries' \subseteq {l1, l1'} \cup {Cached(0), Cached(1)}
  BY <1>1, <1>2, HalfAre DEF AllEntries
<1>b. \A d : BySnap(d)' <=> BySnap(d)
  BY <1>1 DEF BySnap
<1>c. \A b : Bit(b) \in {0, 1}
  BY DEF Bit
<1>5. ASSUME NEW d
      PROVE  InMemory(d)' = InMemory(d) + (IF d = c THEN 1 ELSE 0) - (IF d = l1.c THEN 1 ELSE 0)
  <2>1. InMemory(d)' = Bit(c = d) + Bit(Cached(0).c = d) + Bit(Cached(1).c = d) + Bit(BySnap(d))
    BY <1>2, <1>b DEF InMemory, Bit
  <2>2. InMemory(d) = Bit(l1.c = d) + Bit(Cached(0).c = d) + Bit(Cached(1).c = d) + Bit(BySnap(d))
    BY DEF InMemory
  <2>3. /\ Bit(c = d) = (IF d = c THEN 1 ELSE 0)
        /\ Bit(l1.c = d) = (IF d = l1.c THEN 1 ELSE 0)
    BY DEF Bit
  <2>4. /\ Bit(c = d) \in Int /\ Bit(l1.c = d) \in Int /\ Bit(Cached(0).c = d) \in Int
        /\ Bit(Cached(1).c = d) \in Int /\ Bit(BySnap(d)) \in Int
    BY DEF Bit
  <2>5. InMemory(d)' = InMemory(d) + Bit(c = d) - Bit(l1.c = d)
    BY <2>1, <2>2, <2>4
  <2>6. QED BY <2>3, <2>5
<1>6. ASSUME NEW d
      PROVE  /\ d # c => Anywhere(d)' <= InMemory(d) /\ OnDisk(d)' <= InMemory(d)
             /\ d = c => Anywhere(d)' <= 1 /\ OnDisk(d)' <= 1
  <2>1. Anywhere(d)' = Bit(Points(Possible(L1)' \cup {l1'}, d))
             + Bit(Points(Stored(0)' \cup {Cached(0)'}, d))
             + Bit(Points(Stored(1)' \cup {Cached(1)'}, d)) + Bit(BySnap(d)')
    BY DEF Anywhere, Points, Bit
  <2>2. OnDisk(d)' = Bit(Points(Possible(L1)', d)) + Bit(Points(Stored(0)', d))
                         + Bit(Points(Stored(1)', d)) + Bit(BySnap(d)')
    BY DEF OnDisk, Points, Bit
  <2>3. /\ Points(Stored(0)' \cup {Cached(0)'}, d) => Cached(0).c = d
        /\ Points(Stored(1)' \cup {Cached(1)'}, d) => Cached(1).c = d
        /\ Points(Stored(0)', d) => Cached(0).c = d
        /\ Points(Stored(1)', d) => Cached(1).c = d
        /\ Points(Possible(L1)' \cup {l1'}, d) => l1.c = d \/ c = d
        /\ Points(Possible(L1)', d) => l1.c = d \/ c = d
    BY <1>1, <1>2 DEF Points
  <2>4. /\ Bit(Points(Stored(0)' \cup {Cached(0)'}, d)) <= Bit(Cached(0).c = d)
        /\ Bit(Points(Stored(1)' \cup {Cached(1)'}, d)) <= Bit(Cached(1).c = d)
        /\ Bit(Points(Stored(0)', d)) <= Bit(Cached(0).c = d)
        /\ Bit(Points(Stored(1)', d)) <= Bit(Cached(1).c = d)
        /\ Bit(BySnap(d)') = Bit(BySnap(d))
    BY <1>b, <2>3 DEF Bit
  <2>5. /\ d # c => Bit(Points(Possible(L1)' \cup {l1'}, d)) <= Bit(l1.c = d)
        /\ d # c => Bit(Points(Possible(L1)', d)) <= Bit(l1.c = d)
    BY <2>3 DEF Bit
  <2>6. /\ d = c => /\ Bit(Cached(0).c = d) = 0 /\ Bit(Cached(1).c = d) = 0
                    /\ Bit(BySnap(d)) = 0
    BY <1>3 DEF Bit
  <2>7. /\ Bit(l1.c = d) \in {0, 1} /\ Bit(Cached(0).c = d) \in {0, 1}
        /\ Bit(Cached(1).c = d) \in {0, 1} /\ Bit(BySnap(d)) \in {0, 1}
        /\ Bit(Points(Possible(L1)' \cup {l1'}, d)) \in {0, 1}
        /\ Bit(Points(Possible(L1)', d)) \in {0, 1}
        /\ Bit(Points(Stored(0)' \cup {Cached(0)'}, d)) \in {0, 1}
        /\ Bit(Points(Stored(1)' \cup {Cached(1)'}, d)) \in {0, 1}
        /\ Bit(Points(Stored(0)', d)) \in {0, 1} /\ Bit(Points(Stored(1)', d)) \in {0, 1}
    BY <1>c DEF Bit
  <2>8. InMemory(d) = Bit(l1.c = d) + Bit(Cached(0).c = d) + Bit(Cached(1).c = d) + Bit(BySnap(d))
    BY DEF InMemory
  <2>9. CASE d # c
    BY <2>1, <2>2, <2>4, <2>5, <2>7, <2>8, <2>9
  <2>10. CASE d = c
    BY <2>1, <2>2, <2>4, <2>6, <2>7, <2>10
  <2>11. QED BY <2>9, <2>10
<1>7. QED BY <1>4, <1>5, <1>6

LEMMA WriteL1KeepsCounts ==
  ASSUME OnlyDataFails, AllInv, NEW w \in Cos, Progress(w), WriteL1Entry(w), NEW c, c = m[w].c,
         NEW x, x = l1.c
  PROVE  CountsInv'
<1> USE DEF image, ghosts, calls, requests, caches
<1>1. /\ pc[w] = "l1_write" /\ lock = w /\ stack = <<>> /\ Holds(w) /\ c \in Clusters
      /\ RefStable /\ x # c /\ l1.flag = "none" /\ l1' = Entry(c, "copied")
      /\ \A d \in Clusters : Possible(Ref(d)) = {refcount[d]}
      /\ \A u \in Units \ {L1} : Possible(u)' = Possible(u)
      /\ pc'[w] = "l1_sync" /\ old' = [old EXCEPT ![w] = x]
      /\ UNCHANGED <<refcount, crashes, errors, depends, stack, m>>
  BY WriteL1Is
<1>2. /\ \A d : InMemory(d)' = InMemory(d) + (IF d = c THEN 1 ELSE 0) - (IF d = x THEN 1 ELSE 0)
      /\ \A d : d # c => Anywhere(d)' <= InMemory(d) /\ OnDisk(d)' <= InMemory(d)
      /\ Anywhere(c)' <= 1 /\ OnDisk(c)' <= 1
      /\ AllEntries' \subseteq {l1, l1'} \cup {Cached(0), Cached(1)}
  BY L1Counts
<1>3. \A d : ~ Updating(1, d) /\ ~ Updating(-1, d) /\ ~ Updating(1, d)' /\ ~ Updating(-1, d)'
  BY <1>1, UpdatingIs
<1>4. \A o \in Cos : o # w => /\ (Holds(o)' <=> Holds(o)) /\ m'[o].c = m[o].c
                              /\ ~ pc'[o] \in {"l1_sync", "unlink"}
                              /\ ~ pc[o] \in {"l1_sync", "unlink"}
  <2> SUFFICES ASSUME NEW o \in Cos, o # w
               PROVE  /\ (Holds(o)' <=> Holds(o)) /\ m'[o].c = m[o].c
                      /\ ~ pc'[o] \in {"l1_sync", "unlink"}
                      /\ ~ pc[o] \in {"l1_sync", "unlink"}
    OBVIOUS
  <2>1. ~ pc[o] \in {"l1_sync", "unlink"}
    BY <1>1, RequestIs DEF Locked
  <2>2. QED BY <2>1, OthersHold, OthersStay
<1>5. \A d \in Clusters : ~ Freeing(d) /\ (Freeing(d)' <=> d = x)
  <2>1. old'[w] = x
    BY <1>1 DEF AllInv, TypeInv
  <2>2. QED BY <1>1, <1>3, <1>4, <2>1 DEF Freeing
<1>6. ~ Holds(w)'
  <2>1. ~ m[w].alloc
    BY <1>1, RequestIs DEF InFlight
  <2>2. QED BY <1>1, <2>1 DEF Holds
<1>7. \A d : /\ InMemory(d) <= Anywhere(d) /\ InMemory(d) \in Nat /\ Anywhere(d) \in Nat
             /\ Anywhere(d)' \in Nat /\ OnDisk(d)' \in Nat
  <2>1. \A d : Anywhere(d)' \in Nat /\ OnDisk(d)' \in Nat
    BY BitIs DEF Anywhere, OnDisk
  <2>2. QED BY <2>1, AnywhereMost, CountsAre
<1>8. \A d \in Clusters : IF d = c THEN Anywhere(d)' <= 1 ELSE Anywhere(d)' <= Anywhere(d)
  BY <1>2, <1>7
<1>9. \A e \in AllEntries' : e.flag = "copied" => e \in AllEntries \/ (e.c = c /\ c # 0)
  <2>1. l1'.c = c /\ c # 0 /\ Cached(0) \in AllEntries /\ Cached(1) \in AllEntries
    BY <1>1, EntriesAre, ClustersAre, HalfAre DEF AllEntries
  <2>2. QED BY <1>1, <1>2, <2>1
<1>10. c \in Clusters \cup {0} /\ (x # c \/ x = 0) /\ c # 0
  BY <1>1, ClustersAre
<1>11. HeldInv' /\ CountInv' /\ PrivateInv'
  BY <1>1, <1>2, <1>3, <1>4, <1>5, <1>6, <1>8, <1>9, <1>10, MoveKeepsCounts DEF Adding
<1>12. DiskInv'
  <2> SUFFICES ASSUME NEW d \in Clusters, NEW r \in Possible(Ref(d))'
               PROVE  r >= OnDisk(d)' /\ r >= Anywhere(d)'
    BY DEF DiskInv
  <2>1. r = refcount[d]
    BY <1>1, UnitsAre, UnitsDiffer
  <2>2. refcount[d] \in Nat /\ refcount[d] >= InMemory(d)
    BY CountsCover
  <2>3. CASE d = c
    <3>1. Held(c) /\ ~ Adding(c)
      BY <1>1, <1>3 DEF Held, Adding
    <3>2. refcount[c] = 1
      BY <1>1, <3>1 DEF AllInv, CountsInv, HeldInv, HeldOk
    <3>3. QED BY <1>2, <2>1, <2>3, <3>2
  <2>4. CASE d # c
    BY <1>2, <1>7, <2>1, <2>2, <2>4
  <2>5. QED BY <2>3, <2>4
<1>13. QED BY <1>11, <1>12 DEF CountsInv

LEMMA ProgressKeepsCounts ==
  ASSUME OnlyDataFails, AllInv, NEW w \in Cos, Progress(w)
  PROVE  CountsInv'
<1>1. CASE WriteL1Entry(w)
  BY <1>1, WriteL1KeepsCounts
<1>2. CASE LinkL2(w)
  BY <1>2, LinkKeepsCounts
<1>3. CASE Takes(w)
  BY <1>3, TakesKeepsCounts
<1>4. CASE Unmap(w) /\ L2Entry(w).c # 0
  BY <1>4, UnmapKeepsCounts
<1>5. QED BY <1>1, <1>2, <1>3, <1>4, QuietKeepsCounts

LEMMA SubmitKeepsCounts ==
  ASSUME AllInv, NEW w \in Cos, SubmitAny(w)
  PROVE  CountsInv'
<1> USE DEF image, calls, caches
<1>1. /\ UNCHANGED <<image, caches, calls, m, old, waits, crashes, errors>>
      /\ pc[w] = "idle" /\ Goto(w, "enter")
  BY SubmitStays
<1>2. pc'[w] = "enter" /\ \A o \in Cos : o # w => pc'[o] = pc[o]
  BY <1>1, GotoIs DEF AllInv
<1>3. \A o \in Cos : (Holds(o)' <=> Holds(o)) /\ m'[o].c = m[o].c
  <2>1. ~ m[w].alloc
    BY <1>1, RequestIs DEF InFlight
  <2>2. QED BY <1>1, <1>2, <2>1 DEF Holds
<1>4. \A c \in Clusters : (Adding(c)' <=> Adding(c)) /\ (Freeing(c)' <=> Freeing(c))
  BY <1>1, <1>2, UpdatingIs DEF Adding, Freeing
<1>5. Settled
  BY <1>1 DEF Settled, AllInv, TypeInv
<1>6. \A i \in Half : Cached(i)' = Cached(i)
  BY <1>1 DEF Cached, Entries
<1>7. /\ Familiar /\ \A c : OnDisk(c)' <= OnDisk(c)
      /\ \A c \in Clusters : Possible(Ref(c))' \subseteq Possible(Ref(c))
  BY <1>1, <1>5, <1>6, SettledFamiliar
<1>8. DiskInv'
  BY <1>1, <1>7, DiskStays
<1>9. HeldInv' /\ CountInv' /\ PrivateInv'
  BY <1>1, <1>3, <1>4, <1>7, CountsStay
<1>10. QED BY <1>8, <1>9 DEF CountsInv
-----------------------------------------------------------------------------
(* An image that has just been opened, at the start or after a crash.      *)

Opened ==
  /\ DOMAIN file = Units /\ lost = [u \in Units |-> {}]
  /\ refcount = [c \in Clusters |-> file[Ref(c)]] /\ l1 = file[L1]
  /\ l2 = <<>> /\ dirty = {} /\ free_cluster_index = 1
  /\ depends = NoDepends /\ depends_on_flush = NoDependsOnFlush
  /\ lock = None /\ stack = <<>> /\ ret = TRUE
  /\ pc = [w \in Cos |-> "idle"] /\ req = [w \in Cos |-> NoRequest]
  /\ m = [w \in Cos |-> NoMeta] /\ old = [w \in Cos |-> 0]
  /\ waits = [w \in Cos |-> None]

ImageGood ==
  /\ FileInv /\ PrivateInv
  /\ \A c \in Clusters : /\ file[Ref(c)] >= InMemory(c)
                         /\ crashes = 0 /\ errors = 0 => file[Ref(c)] = InMemory(c)

GhostsGood ==
  /\ writethrough \in BOOLEAN /\ snap \in {0, 1}
  /\ promise \in [Sectors -> SUBSET Values] /\ latest \in [Sectors -> Values]
  /\ count \in 1..MaxRequests + 1 /\ crashes \in Nat /\ errors \in Nat

LEMMA OpenedEntries ==
  ASSUME Opened, FileInv
  PROVE  /\ \A u \in Units : Possible(u) = {file[u]}
         /\ file[L1] \in EntrySet
         /\ l1.c = 0 => \A i \in Half : Stored(i) = {} /\ Cached(i) = Unallocated
         /\ l1.c # 0 => \A i \in Half : /\ Stored(i) = {file[Cell(l1.c, i)]}
                                        /\ Cached(i) = file[Cell(l1.c, i)]
<1>1. /\ DOMAIN file = Units /\ lost = [u \in Units |-> {}] /\ l1 = file[L1] /\ l2 = <<>>
  BY DEF Opened
<1>2. \A u \in Units : Possible(u) = {file[u]}
  BY <1>1 DEF Possible
<1>3. Possible(L1) = {l1} /\ l1 \in EntrySet
  BY <1>1, <1>2, UnitsAre DEF FileInv
<1>4. Tables = {l1.c} \ {0} /\ l1.c \in Clusters \cup {0}
  BY <1>3, EntriesAre DEF Tables
<1>5. ASSUME l1.c = 0, NEW i \in Half PROVE Stored(i) = {} /\ Cached(i) = Unallocated
  BY <1>4, <1>5 DEF Stored, Cached
<1>6. ASSUME l1.c # 0, NEW i \in Half
      PROVE  Stored(i) = {file[Cell(l1.c, i)]} /\ Cached(i) = file[Cell(l1.c, i)]
  <2>1. Tables = {l1.c} /\ l1.c \in Clusters
    BY <1>4, <1>6
  <2>2. Possible(Cell(l1.c, i)) = {file[Cell(l1.c, i)]}
    BY <1>2, <2>1, UnitsAre
  <2>3. Stored(i) = {file[Cell(l1.c, i)]}
    BY <2>1, <2>2 DEF Stored
  <2>4. DOMAIN l2 = {}
    BY <1>1
  <2>5. Cached(i) = file[Cell(l1.c, i)]
    BY <1>6, <2>4 DEF Cached, Entries
  <2>6. QED BY <2>3, <2>5
<1>7. QED BY <1>1, <1>2, <1>3, <1>5, <1>6

CachedStored == \A i \in Half : Cached(i) \in {Unallocated} \cup Stored(i)

LEMMA OpenedStored == Opened /\ FileInv => CachedStored
BY OpenedEntries DEF CachedStored

LEMMA OpenedStoredNext == Opened' /\ FileInv' => CachedStored'
BY OpenedStored, PTL

LEMMA OpenedMost ==
  ASSUME Opened, FileInv, NEW c \in Clusters
  PROVE  /\ OnDisk(c) <= InMemory(c) /\ Anywhere(c) <= InMemory(c)
         /\ Possible(Ref(c)) = {file[Ref(c)]} /\ refcount[c] = file[Ref(c)]
<1>1. c # 0
  BY ClustersAre
<1>2. Possible(L1) = {l1} /\ Unallocated.c = 0
  BY OpenedEntries, UnitsAre, EntriesAre DEF Opened
<1>3. \A i \in Half : Points(Stored(i), c) => Cached(i).c = c
  BY OpenedEntries DEF Points
<1>4. \A i \in Half : Points(Stored(i) \cup {Cached(i)}, c) => Cached(i).c = c
  BY <1>3 DEF Points
<1>5. Points(Possible(L1), c) => l1.c = c
  BY <1>2 DEF Points
<1>6. Points(Possible(L1) \cup {l1}, c) => l1.c = c
  BY <1>2 DEF Points
<1>7. OnDisk(c) <= InMemory(c)
  <2>1. /\ Points(Stored(0), c) => Cached(0).c = c
        /\ Points(Stored(1), c) => Cached(1).c = c
    BY <1>3, HalfAre
  <2>2. QED BY <1>5, <2>1 DEF OnDisk, InMemory, Bit
<1>8. Anywhere(c) <= InMemory(c)
  <2>1. /\ Points(Stored(0) \cup {Cached(0)}, c) => Cached(0).c = c
        /\ Points(Stored(1) \cup {Cached(1)}, c) => Cached(1).c = c
    BY <1>4, HalfAre
  <2>2. QED BY <1>6, <2>1 DEF Anywhere, InMemory, Bit
<1>9. Possible(Ref(c)) = {file[Ref(c)]} /\ refcount[c] = file[Ref(c)]
  BY OpenedEntries, UnitsAre DEF Opened
<1>10. QED BY <1>7, <1>8, <1>9

LEMMA OpenedCounts ==
  ASSUME Opened, ImageGood, GhostsGood
  PROVE  CountsInv
<1>0. /\ \A w \in Cos : pc[w] = "idle" /\ m[w].alloc = FALSE
      /\ stack = <<>> /\ depends["ref"] = None /\ FileInv
  BY CachesAre DEF Opened, NoMeta, NoDepends, ImageGood
<1>1. /\ \A w \in Cos : ~ Holds(w)
      /\ \A c : ~ Held(c)
      /\ \A c : ~ Adding(c) /\ ~ Freeing(c)
  BY <1>0 DEF Holds, Held, Adding, Freeing, Updating
<1>2. HeldInv
  BY <1>1 DEF HeldInv
<1>3. ASSUME NEW c \in Clusters
      PROVE  /\ OnDisk(c) <= InMemory(c) /\ Anywhere(c) <= InMemory(c)
             /\ Possible(Ref(c)) = {file[Ref(c)]} /\ refcount[c] = file[Ref(c)]
  BY <1>0, OpenedMost
<1>4. \A c \in Clusters : /\ file[Ref(c)] \in Nat /\ InMemory(c) \in Nat
                          /\ OnDisk(c) \in Nat /\ Anywhere(c) \in Nat
  BY <1>0, <1>3, CountsAre DEF FileInv
<1>5. \A c \in Clusters : /\ file[Ref(c)] >= InMemory(c)
                          /\ crashes = 0 /\ errors = 0 => file[Ref(c)] = InMemory(c)
  BY DEF ImageGood
<1>6. ASSUME NEW c \in Clusters PROVE CountOk(c)
  <2>1. Bit(Freeing(c)) = 0
    BY <1>1, BitIs
  <2>2. InMemory(c) + Bit(Freeing(c)) = InMemory(c)
    BY <1>4, <2>1
  <2>3. refcount[c] >= Anywhere(c)
    BY <1>3, <1>4, <1>5
  <2>4. QED BY <1>3, <1>5, <2>2, <2>3 DEF CountOk
<1>7. CountInv
  BY <1>6 DEF CountInv
<1>8. ASSUME NEW c \in Clusters PROVE file[Ref(c)] >= OnDisk(c) /\ file[Ref(c)] >= Anywhere(c)
  BY <1>3, <1>4, <1>5
<1>9. DiskInv
  BY <1>3, <1>8 DEF DiskInv
<1>10. QED BY <1>2, <1>7, <1>9 DEF CountsInv, ImageGood

LEMMA OpenedOk == Opened /\ ImageGood /\ GhostsGood => AllInv
<1> SUFFICES ASSUME Opened, ImageGood, GhostsGood PROVE AllInv
  OBVIOUS
<1>0. /\ \A w \in Cos : /\ pc[w] = "idle" /\ m[w] = NoMeta /\ req[w] = NoRequest
                        /\ old[w] = 0 /\ waits[w] = None
      /\ stack = <<>> /\ lock = None /\ ret = TRUE /\ l2 = <<>> /\ dirty = {}
      /\ depends = [k \in Caches |-> None] /\ l1 = file[L1] /\ lost[L1] = {}
      /\ lock \notin Cos /\ FileInv /\ Len(stack) = 0 /\ DOMAIN l2 = {}
  BY QcowAssumption, UnitsAre DEF Opened, NoDepends, ImageGood
<1>1. WaitInv
  <2>1. m \in [Cos -> [alloc : BOOLEAN, c : {0}]] /\ \A w \in Cos : ~ m[w].alloc
    BY DEF Opened, NoMeta
  <2>2. PlacesType
    BY <2>1 DEF PlacesType, Unlocked, Opened
  <2>3. QED BY <1>0, <2>1, <2>2
        DEF WaitInv, LockPlaces, AllocPlaces, WaitsForAlloc, Locked
<1>2. DependInv
  <2>1. StackType /\ Careful(stack, ret, depends)
    BY <1>0, Started DEF StackType
  <2>2. QED BY <1>0, <2>1 DEF DependInv, NoDependencyCycle, Caches
<1>3. TypeInv
  <2>1. refcount \in [Clusters -> Nat]
    <3>1. \A c \in Clusters : file[Ref(c)] \in Nat
      BY <1>0 DEF FileInv, Possible
    <3>2. QED BY <3>1 DEF Opened
  <2>2. m \in [Cos -> [alloc : BOOLEAN, c : Clusters \cup {0}]] /\ old \in [Cos -> Clusters \cup {0}]
        /\ req \in [Cos -> ReqSet]
    BY DEF Opened, NoMeta, ReqSet
  <2>3. QED BY <2>1, <2>2 DEF TypeInv, Opened, GhostsGood, NoDependsOnFlush
<1>4. ShapeInv /\ OwnerInv
  BY <1>0 DEF ShapeInv, OwnerInv, Chained
<1>5. FlushInv
  BY <1>0 DEF FlushInv, In
<1>6. TableInv
  BY <1>0 DEF TableInv
<1>7. CacheInv
  BY <1>0 DEF CacheInv, Opened
<1>8. RequestInv
  <2>1. \A w \in Cos : m[w].alloc = FALSE /\ req[w].op = "none" /\ req[w].halves = {}
    BY <1>0 DEF NoMeta, NoRequest
  <2>2. \A w \in Cos : Touches(w) = {}
    BY <2>1 DEF Touches
  <2>3. \A w \in Cos : ~ Holds(w)
    BY <1>0, <2>1 DEF Holds
  <2>4. QED BY <1>0, <2>1, <2>2, <2>3 DEF RequestInv, Mapped
<1>9. CountsInv
  BY OpenedCounts
<1>10. QED BY <1>0, <1>1, <1>2, <1>3, <1>4, <1>5, <1>6, <1>7, <1>8, <1>9 DEF AllInv

(* A crash.                                                                *)
LEMMA CrashImage ==
  ASSUME AllInv, Crash
  PROVE  /\ \A u \in Units : /\ Possible(u)' = {file'[u]} /\ file'[u] \in Possible(u)
                             /\ Possible(u)' \subseteq Possible(u)
         /\ DOMAIN file' = Units /\ Opened' /\ FileInv'
         /\ snap' = snap /\ snap \in {0, 1} /\ FileInv /\ crashes' # 0
<1>0. TypeInv /\ FileInv
  BY DEF AllInv
<1>1. file' \in CrashImages /\ lost' = [u \in Units |-> {}] /\ snap' = snap
      /\ crashes' = crashes + 1
  BY DEF Crash
<1>2. ImageOk(file')
  <2>1. \A img \in CrashImages : ImageOk(img)
    BY <1>0, CrashImagesAre DEF TypeInv
  <2>2. QED BY <1>1, <2>1
<1>3. /\ DOMAIN file' = Units
      /\ \A u \in Units : file'[u] \in Possible(u) /\ Possible(u)' = {file'[u]}
  <2>1. DOMAIN file' = Units /\ \A u \in Units : file'[u] \in Possible(u)
    BY <1>2 DEF ImageOk
  <2>2. \A u \in Units : Possible(u)' = {file'[u]}
    BY <1>1 DEF Possible
  <2>3. QED BY <2>1, <2>2
<1>4. Opened'
  BY <1>3 DEF Opened, Crash
<1>5. FileInv'
  BY <1>0, <1>1, <1>3, ShrinkKeepsFile DEF TypeInv
<1>6. crashes' # 0
  BY <1>0, <1>1 DEF TypeInv
<1>7. QED BY <1>0, <1>1, <1>3, <1>4, <1>5, <1>6 DEF TypeInv

LEMMA CrashEntries ==
  ASSUME AllInv, Crash
  PROVE  /\ l1' \in Possible(L1) /\ Possible(L1)' \subseteq Possible(L1)
         /\ \A i \in Half : /\ Stored(i)' \subseteq Stored(i)
                            /\ Cached(i)' \in Stored(i) \cup {Unallocated}
<1>0. /\ FileInv /\ FileInv' /\ Opened' /\ snap' = snap
      /\ \A u \in Units : Possible(u)' \subseteq Possible(u) /\ Possible(u)' = {file'[u]}
  BY CrashImage
<1>1. \A i \in Half : Stored(i)' \subseteq Stored(i)
  BY <1>0, ShrinkTables
<1>2. l1' \in Possible(L1) /\ Possible(L1)' \subseteq Possible(L1)
  BY <1>0, UnitsAre DEF Opened
<1>3. ASSUME NEW i \in Half PROVE Cached(i)' \in Stored(i) \cup {Unallocated}
  <2>1. CachedStored'
    BY <1>0, OpenedStoredNext
  <2>2. \/ Cached(i)' = Unallocated
        \/ Cached(i)' \in Stored(i)'
    BY <1>3, <2>1 DEF CachedStored, Unallocated, Entry
  <2>3. QED BY <1>1, <2>2
<1>4. QED BY <1>1, <1>2, <1>3
LEMMA CrashCounts ==
  ASSUME AllInv, Crash
  PROVE  /\ \A c \in Clusters : /\ InMemory(c)' <= OnDisk(c)
                                /\ Anywhere(c)' <= Anywhere(c)
         /\ AllEntries' \subseteq AllEntries \cup {Unallocated}
<1>0. /\ l1' \in Possible(L1) /\ Possible(L1)' \subseteq Possible(L1)
      /\ \A i \in Half : /\ Stored(i)' \subseteq Stored(i)
                         /\ Cached(i)' \in Stored(i) \cup {Unallocated}
      /\ snap' = snap
  BY CrashEntries, CrashImage
<1>1. /\ Stored(0)' \subseteq Stored(0) /\ Cached(0)' \in Stored(0) \cup {Unallocated}
      /\ Stored(1)' \subseteq Stored(1) /\ Cached(1)' \in Stored(1) \cup {Unallocated}
  BY <1>0, HalfAre
<1>2. ASSUME NEW c \in Clusters PROVE InMemory(c)' <= OnDisk(c) /\ Anywhere(c)' <= Anywhere(c)
  <2>1. c # 0 /\ Unallocated.c = 0
    BY ClustersAre, EntriesAre
  <2>2. /\ l1'.c = c => Points(Possible(L1), c)
        /\ Cached(0)'.c = c => Points(Stored(0), c)
        /\ Cached(1)'.c = c => Points(Stored(1), c)
        /\ BySnap(c)' <=> BySnap(c)
    BY <1>0, <1>1, <2>1 DEF Points, BySnap
  <2>3. /\ Points(Possible(L1)' \cup {l1'}, c) => Points(Possible(L1) \cup {l1}, c)
        /\ Points(Stored(0)' \cup {Cached(0)'}, c) => Points(Stored(0) \cup {Cached(0)}, c)
        /\ Points(Stored(1)' \cup {Cached(1)'}, c) => Points(Stored(1) \cup {Cached(1)}, c)
    BY <1>0, <1>1, <2>1 DEF Points
  <2>4. InMemory(c)' = (IF l1'.c = c THEN 1 ELSE 0) + (IF Cached(0)'.c = c THEN 1 ELSE 0)
                         + (IF Cached(1)'.c = c THEN 1 ELSE 0) + (IF BySnap(c)' THEN 1 ELSE 0)
    BY DEF InMemory, Bit
  <2>5. InMemory(c)' <= OnDisk(c)
    BY <2>2, <2>4 DEF OnDisk, Bit
  <2>6. Anywhere(c)' =
          (IF Points(Possible(L1)' \cup {l1'}, c) THEN 1 ELSE 0)
            + (IF Points(Stored(0)' \cup {Cached(0)'}, c) THEN 1 ELSE 0)
            + (IF Points(Stored(1)' \cup {Cached(1)'}, c) THEN 1 ELSE 0)
            + (IF BySnap(c)' THEN 1 ELSE 0)
    BY DEF Anywhere, Bit, Points
  <2>7. Anywhere(c)' <= Anywhere(c)
    BY <2>2, <2>3, <2>6 DEF Anywhere, Bit
  <2>8. QED BY <2>5, <2>7
<1>3. AllEntries' \subseteq AllEntries \cup {Unallocated}
  <2>1. AllEntries' = Possible(L1)' \cup {l1'} \cup UNION {Stored(i)' \cup {Cached(i)'} : i \in Half}
    BY DEF AllEntries
  <2>2. QED BY <1>0, <2>1 DEF AllEntries
<1>4. QED BY <1>2, <1>3

LEMMA CrashGood ==
  ASSUME AllInv, Crash
  PROVE  Opened' /\ ImageGood' /\ GhostsGood'
<1>0. /\ \A u \in Units : Possible(u)' = {file'[u]} /\ file'[u] \in Possible(u)
      /\ Opened' /\ FileInv' /\ crashes' # 0 /\ FileInv /\ snap' = snap /\ snap \in {0, 1}
  BY CrashImage
<1>1. TypeInv /\ DiskInv /\ PrivateInv
  BY DEF AllInv, CountsInv
<1>2. ASSUME NEW c \in Clusters PROVE file'[Ref(c)] >= InMemory(c)'
  <2>1. file'[Ref(c)] \in Possible(Ref(c))
    BY <1>0, UnitsAre
  <2>2. file'[Ref(c)] >= OnDisk(c) /\ file'[Ref(c)] \in Nat
    BY <1>0, <1>1, <2>1 DEF DiskInv, FileInv
  <2>3. InMemory(c)' <= OnDisk(c) /\ OnDisk(c) \in Nat
    BY CrashCounts, CountsAre
  <2>4. InMemory(c)' \in Nat
    <3>1. InMemory(c)' = (IF l1'.c = c THEN 1 ELSE 0) + (IF Cached(0)'.c = c THEN 1 ELSE 0)
                         + (IF Cached(1)'.c = c THEN 1 ELSE 0) + (IF BySnap(c)' THEN 1 ELSE 0)
      BY DEF InMemory, Bit
    <3>2. QED BY <3>1
  <2>5. QED BY <2>2, <2>3, <2>4
<1>3. PrivateInv'
  <2> SUFFICES ASSUME NEW e \in AllEntries', e.flag = "copied" PROVE Anywhere(e.c)' <= 1
    BY DEF PrivateInv, AllEntries
  <2>1. e \in AllEntries /\ e \in EntrySet
    BY CrashCounts, EntriesAre, AllEntriesAre
  <2>2. e.c \in Clusters
    BY <2>1, EntriesAre
  <2>3. Anywhere(e.c) <= 1
    BY <1>1, <2>1 DEF PrivateInv
  <2> DEFINE d == e.c
  <2> HIDE DEF d
  <2>4. d \in Clusters /\ Anywhere(d) <= 1
    BY <2>2, <2>3 DEF d
  <2>5. Anywhere(d)' <= Anywhere(d) /\ Anywhere(d) \in Nat
    BY <2>4, CrashCounts, CountsAre
  <2>6. Anywhere(d)' \in Nat
    <3>1. Anywhere(d)' =
            (IF Points(Possible(L1)' \cup {l1'}, d) THEN 1 ELSE 0)
              + (IF Points(Stored(0)' \cup {Cached(0)'}, d) THEN 1 ELSE 0)
              + (IF Points(Stored(1)' \cup {Cached(1)'}, d) THEN 1 ELSE 0)
              + (IF BySnap(d)' THEN 1 ELSE 0)
      BY DEF Anywhere, Bit, Points
    <3>2. QED BY <3>1
  <2>7. Anywhere(d)' <= 1
    BY <2>4, <2>5, <2>6
  <2>8. QED BY <2>7 DEF d
<1>4. ImageGood'
  BY <1>0, <1>2, <1>3 DEF ImageGood
<1>5. latest' \in [Sectors -> Values]
  <2>1. latest' = [x \in Sectors |-> Reads(file', file'[L1].c, x[1], x[2])]
    BY DEF Crash
  <2>2. file'[L1] \in EntrySet
    BY <1>0, UnitsAre DEF FileInv
  <2>3. \A c \in Clusters, i \in Half : file'[Cell(c, i)] \in EntrySet \cup DataSet
    BY <1>0, UnitsAre DEF FileInv
  <2>4. \A h \in Half : \A e \in EntrySet : e.c # 0 => file'[Cell(e.c, h)] \in EntrySet \cup DataSet
    BY <2>3, EntriesAre
  <2>5. \A i \in Half : file'[L1].c # 0 => file'[Cell(file'[L1].c, i)] \in EntrySet \cup DataSet
    BY <2>2, <2>4
  <2> DEFINE img == file'
             t == file'[L1].c
  <2>6. ASSUME NEW g \in Half, NEW h \in Half PROVE Reads(img, t, g, h) \in Values
    <3> HIDE DEF img, t
    <3>1. /\ t # 0 => img[Cell(t, g)] \in EntrySet \cup DataSet
          /\ \A e \in EntrySet : e.c # 0 => img[Cell(e.c, h)] \in EntrySet \cup DataSet
      BY <2>4, <2>5 DEF img, t
    <3>2. QED BY <3>1, ReadsAre
  <2>7. \A x \in Sectors : x[1] \in Half /\ x[2] \in Half
    BY DEF Sectors, Guest, Half
  <2>8. QED BY <2>1, <2>6, <2>7
<1>6. /\ promise' = [x \in Sectors |-> {latest'[x]}]
      /\ UNCHANGED <<writethrough, count, errors>> /\ crashes' = crashes + 1
  BY DEF Crash
<1>7. promise' \in [Sectors -> SUBSET Values]
  BY <1>5, <1>6
<1>8. GhostsGood'
  BY <1>0, <1>1, <1>5, <1>6, <1>7 DEF GhostsGood, TypeInv
<1>9. QED BY <1>0, <1>4, <1>8

LEMMA OpenedOkNext == Opened' /\ ImageGood' /\ GhostsGood' => AllInv'
BY OpenedOk, PTL

LEMMA CrashKeepsAll ==
  ASSUME AllInv, Crash
  PROVE  AllInv'
BY CrashGood, OpenedOkNext

-----------------------------------------------------------------------------
(* The image at the start.                                                 *)

LEMMA FreshIs ==
  ASSUME NEW kind \in {"plain", "shared", "compressed", "empty"}
  PROVE  LET img == FreshImage(kind)
             shared == kind = "shared" IN
         /\ DOMAIN img = Units
         /\ kind = "empty" => /\ img[L1] = Unallocated
                              /\ \A c \in Clusters : img[Ref(c)] = 0
                              /\ \A c \in Clusters, i \in Half : img[Cell(c, i)] = Data(0)
         /\ kind # "empty" =>
              /\ img[L1] = Entry(1, IF shared THEN "none" ELSE "copied")
              /\ \A c \in Clusters : img[Ref(c)] =
                   IF c \notin {1, 2} THEN 0 ELSE IF shared THEN 2 ELSE 1
              /\ \E flag \in Flags : /\ img[Cell(1, 0)] = Entry(2, flag)
                                     /\ shared => flag = "none"
              /\ img[Cell(1, 1)] = Unallocated
              /\ \A i \in Half : img[Cell(2, i)] = Data(1)
              /\ \A c \in Clusters \ {1, 2}, i \in Half : img[Cell(c, i)] = Data(0)
<1> DEFINE flag == CASE kind = "plain" -> "copied" [] kind = "shared" -> "none"
                     [] kind = "compressed" -> "compressed" [] OTHER -> "none"
           n == IF kind = "shared" THEN 2 ELSE 1
           img == FreshImage(kind)
<1>1. img = [u \in Units |->
       CASE u = L1 -> IF kind = "empty" THEN Unallocated
                      ELSE Entry(1, IF n = 1 THEN "copied" ELSE "none")
         [] u[1] = "ref" -> IF kind # "empty" /\ u[2] \in {1, 2} THEN n ELSE 0
         [] OTHER ->
             IF kind = "empty" \/ u[2] > 2 THEN Data(0)
             ELSE IF u[2] = 2 THEN Data(1)
             ELSE IF u[3] = 0 THEN Entry(2, flag) ELSE Unallocated]
  BY DEF FreshImage
<1>2. flag \in Flags /\ (kind = "shared" => flag = "none")
  BY DEF Flags
<1>3. n = IF kind = "shared" THEN 2 ELSE 1
  OBVIOUS
<1> HIDE DEF img, flag, n
<1>4. DOMAIN img = Units
  BY <1>1
<1>5. img[L1] = IF kind = "empty" THEN Unallocated
                ELSE Entry(1, IF n = 1 THEN "copied" ELSE "none")
  <2>1. L1 \in Units /\ L1[1] # "ref"
    BY UnitsAre, UnitsDiffer
  <2>2. QED BY <1>1, <2>1
<1>6. ASSUME NEW c \in Clusters
      PROVE  img[Ref(c)] = IF kind # "empty" /\ c \in {1, 2} THEN n ELSE 0
  <2>1. Ref(c) \in Units /\ Ref(c) # L1 /\ Ref(c)[1] = "ref" /\ Ref(c)[2] = c
    BY UnitsAre, UnitsDiffer
  <2>2. QED BY <1>1, <2>1
<1>7. ASSUME NEW c \in Clusters, NEW i \in Half
      PROVE  img[Cell(c, i)] = IF kind = "empty" \/ c > 2 THEN Data(0)
                               ELSE IF c = 2 THEN Data(1)
                               ELSE IF i = 0 THEN Entry(2, flag) ELSE Unallocated
  <2> DEFINE u == Cell(c, i)
  <2>1. u \in Units /\ u # L1 /\ u[1] # "ref" /\ u[2] = c /\ u[3] = i
    BY UnitsAre, UnitsDiffer
  <2> HIDE DEF u
  <2>2. img[u] = IF kind = "empty" \/ u[2] > 2 THEN Data(0)
             ELSE IF u[2] = 2 THEN Data(1)
             ELSE IF u[3] = 0 THEN Entry(2, flag) ELSE Unallocated
    BY <1>1, <2>1
  <2>3. QED BY <2>1, <2>2 DEF u
<1>8. \A c \in Clusters : c \in Nat \ {0} /\ (c \in {1, 2} \/ c > 2)
  BY ClustersAre
<1>9. 1 \in Clusters /\ 2 \in Clusters /\ 0 \in Half /\ 1 \in Half
  BY ClustersAre, HalfAre
<1>10. kind = "empty" => /\ img[L1] = Unallocated
                         /\ \A c \in Clusters : img[Ref(c)] = 0
                         /\ \A c \in Clusters, i \in Half : img[Cell(c, i)] = Data(0)
  BY <1>5, <1>6, <1>7
<1>11. ASSUME kind # "empty"
       PROVE  /\ img[L1] = Entry(1, IF kind = "shared" THEN "none" ELSE "copied")
              /\ \A c \in Clusters : img[Ref(c)] =
                   IF c \notin {1, 2} THEN 0 ELSE IF kind = "shared" THEN 2 ELSE 1
              /\ img[Cell(1, 0)] = Entry(2, flag)
              /\ img[Cell(1, 1)] = Unallocated
              /\ \A i \in Half : img[Cell(2, i)] = Data(1)
              /\ \A c \in Clusters \ {1, 2}, i \in Half : img[Cell(c, i)] = Data(0)
  <2>1. img[L1] = Entry(1, IF kind = "shared" THEN "none" ELSE "copied")
    BY <1>3, <1>5, <1>11
  <2>2. \A c \in Clusters : img[Ref(c)] =
          IF c \notin {1, 2} THEN 0 ELSE IF kind = "shared" THEN 2 ELSE 1
    BY <1>3, <1>6, <1>11
  <2>3. img[Cell(1, 0)] = Entry(2, flag) /\ img[Cell(1, 1)] = Unallocated
    BY <1>7, <1>9, <1>11
  <2>4. \A i \in Half : img[Cell(2, i)] = Data(1)
    BY <1>7, <1>9, <1>11
  <2>5. \A c \in Clusters \ {1, 2}, i \in Half : img[Cell(c, i)] = Data(0)
    BY <1>7, <1>8, <1>11
  <2>6. QED BY <2>1, <2>2, <2>3, <2>4, <2>5
<1>12. QED BY <1>2, <1>4, <1>10, <1>11 DEF img
LEMMA InitOpened ==
  ASSUME Init
  PROVE  /\ Opened /\ GhostsGood /\ crashes = 0 /\ errors = 0
         /\ \E kind \in {"plain", "shared", "compressed", "empty"} :
              file = FreshImage(kind) /\ snap = IF kind = "shared" THEN 1 ELSE 0
<1>1. PICK s \in Setups :
        /\ writethrough = s[1] /\ file = FreshImage(s[2])
        /\ snap = IF s[2] = "shared" THEN 1 ELSE 0
        /\ latest = [x \in Sectors |-> IF s[2] # "empty" /\ x[1] = 0 THEN 1 ELSE 0]
        /\ promise = [x \in Sectors |-> {latest[x]}]
  BY DEF Init
<1>2. s[1] \in BOOLEAN /\ s[2] \in {"plain", "shared", "compressed", "empty"}
  BY QcowAssumption
<1>3. DOMAIN file = Units
  BY <1>1, <1>2, FreshIs
<1>4. Opened
  BY <1>3 DEF Init, Opened
<1>5. 0 \in Values /\ 1 \in Values /\ 1 \in 1..MaxRequests + 1
  BY QcowAssumption DEF Values
<1>6. latest \in [Sectors -> Values]
  BY <1>1, <1>5
<1>7. promise \in [Sectors -> SUBSET Values]
  BY <1>1, <1>6
<1>8. count = 1 /\ crashes = 0 /\ errors = 0
  BY DEF Init
<1>9. GhostsGood
  BY <1>1, <1>2, <1>5, <1>6, <1>7, <1>8 DEF GhostsGood
<1>10. QED BY <1>1, <1>2, <1>4, <1>8, <1>9

LEMMA InitFile ==
  ASSUME Init
  PROVE  FileInv
<1>0. PICK kind \in {"plain", "shared", "compressed", "empty"} :
        file = FreshImage(kind) /\ snap = IF kind = "shared" THEN 1 ELSE 0
  BY InitOpened
<1>1. \A u \in Units : Possible(u) = {file[u]}
  BY InitOpened DEF Opened, Possible
<1>2. /\ \A c \in Clusters : Possible(Ref(c)) = {file[Ref(c)]}
      /\ \A c \in Clusters, i \in Half : Possible(Cell(c, i)) = {file[Cell(c, i)]}
      /\ Possible(L1) = {file[L1]}
  BY <1>1, UnitsAre
<1>3. Data(0) \in DataSet /\ Data(1) \in DataSet
  BY QcowAssumption DEF Data, DataSet, Values
<1>4. 1 \in Clusters /\ 2 \in Clusters /\ "none" \in Flags /\ "copied" \in Flags
      /\ 0 \in Half /\ 1 \in Half /\ \A i \in Half : i = 0 \/ i = 1
  BY ClustersAre, HalfAre DEF Flags
<1>5. CASE kind = "empty"
  <2>1. /\ file[L1] = Unallocated /\ snap = 0
        /\ \A c \in Clusters : file[Ref(c)] = 0
        /\ \A c \in Clusters, i \in Half : file[Cell(c, i)] = Data(0)
    BY <1>0, <1>5, FreshIs
  <2>2. Tables = {}
    BY <1>2, <2>1, EntriesAre DEF Tables
  <2>3. \A i \in Half : Stored(i) = {}
    BY <2>2 DEF Stored
  <2>4. /\ \A c \in Clusters : Possible(Ref(c)) \subseteq Nat
        /\ \A c \in Clusters, i \in Half : Possible(Cell(c, i)) \subseteq EntrySet \cup DataSet
    BY <1>2, <1>3, <2>1
  <2>5. \A e \in Possible(L1) :
          /\ e \in EntrySet
          /\ e.flag = "copied" \/ (e.flag = "none" /\ e.c \in {0, snap})
    BY <1>2, <2>1, EntriesAre
  <2>6. QED BY <2>1, <2>3, <2>4, <2>5 DEF FileInv
<1>6. CASE kind # "empty"
  <2>1. /\ file[L1] = Entry(1, IF kind = "shared" THEN "none" ELSE "copied")
        /\ \A c \in Clusters : file[Ref(c)] =
             IF c \notin {1, 2} THEN 0 ELSE IF kind = "shared" THEN 2 ELSE 1
        /\ \E flag \in Flags : /\ file[Cell(1, 0)] = Entry(2, flag)
                               /\ kind = "shared" => flag = "none"
        /\ file[Cell(1, 1)] = Unallocated
        /\ \A i \in Half : file[Cell(2, i)] = Data(1)
        /\ \A c \in Clusters \ {1, 2}, i \in Half : file[Cell(c, i)] = Data(0)
    BY <1>0, <1>6, FreshIs
  <2>2. file[L1] \in EntrySet /\ file[L1].c = 1
        /\ file[L1].flag = IF kind = "shared" THEN "none" ELSE "copied"
    BY <1>4, <2>1, EntriesAre
  <2>3. Tables = {1}
    BY <1>2, <2>2 DEF Tables
  <2>4. \A i \in Half : file[Cell(1, i)] \in EntrySet
    BY <1>4, <2>1, EntriesAre
  <2>5. \A i \in Half : Stored(i) = {file[Cell(1, i)]}
    BY <1>2, <1>4, <2>3 DEF Stored
  <2>6. \A c \in Clusters : Possible(Ref(c)) \subseteq Nat
    BY <1>2, <2>1
  <2>7. \A c \in Clusters, i \in Half : Possible(Cell(c, i)) \subseteq EntrySet \cup DataSet
    <3> SUFFICES ASSUME NEW c \in Clusters, NEW i \in Half
                 PROVE  file[Cell(c, i)] \in EntrySet \cup DataSet
      BY <1>2
    <3>1. CASE c = 1
      BY <2>4, <3>1
    <3>2. CASE c = 2
      BY <1>3, <2>1, <3>2
    <3>3. CASE c \notin {1, 2}
      BY <1>3, <2>1, <3>3
    <3>4. QED BY <3>1, <3>2, <3>3
  <2>8. \A e \in Possible(L1) :
          /\ e \in EntrySet
          /\ e.flag = "copied" \/ (e.flag = "none" /\ e.c \in {0, snap})
    BY <1>0, <1>2, <2>2
  <2>9. snap # 0 => /\ Possible(Cell(1, 0)) = {Entry(2, "none")}
                    /\ Possible(Cell(1, 1)) = {Unallocated}
                    /\ \A h \in Half : Possible(Cell(2, h)) = {Data(1)}
    <3>1. snap # 0 => kind = "shared"
      BY <1>0
    <3>2. /\ Possible(Cell(1, 0)) = {file[Cell(1, 0)]} /\ Possible(Cell(1, 1)) = {file[Cell(1, 1)]}
          /\ \A h \in Half : Possible(Cell(2, h)) = {file[Cell(2, h)]}
      BY <1>2, <1>4
    <3>3. QED BY <2>1, <3>1, <3>2
  <2>10. QED BY <2>4, <2>5, <2>6, <2>7, <2>8, <2>9 DEF FileInv
<1>7. QED BY <1>5, <1>6

LEMMA InitGood ==
  ASSUME Init
  PROVE  ImageGood
<1>0. PICK kind \in {"plain", "shared", "compressed", "empty"} :
        file = FreshImage(kind) /\ snap = IF kind = "shared" THEN 1 ELSE 0
  BY InitOpened
<1>1. Opened /\ FileInv /\ crashes = 0 /\ errors = 0 /\ l1 = file[L1]
  BY InitOpened, InitFile DEF Opened
<1>2. /\ Possible(L1) = {l1}
      /\ l1.c = 0 => \A i \in Half : Stored(i) = {} /\ Cached(i) = Unallocated
      /\ l1.c # 0 => \A i \in Half : /\ Stored(i) = {file[Cell(l1.c, i)]}
                                     /\ Cached(i) = file[Cell(l1.c, i)]
  BY <1>1, OpenedEntries, UnitsAre
<1>3. \A c \in Clusters : c # 0 /\ Anywhere(c) <= InMemory(c) /\ Anywhere(c) \in Nat
                          /\ InMemory(c) \in Nat
  BY <1>1, OpenedMost, ClustersAre, CountsAre
<1>4. Unallocated.c = 0 /\ Unallocated.flag = "none" /\ 0 \in Half /\ 1 \in Half
  BY EntriesAre, HalfAre
<1>5. /\ \A c \in Clusters : file[Ref(c)] = InMemory(c)
      /\ \A c \in Clusters : kind # "shared" => InMemory(c) <= 1
      /\ \A e \in AllEntries : e.flag = "copied" => kind # "shared"
  <2>0. AllEntries \subseteq {l1, Cached(0), Cached(1)}
    <3>1. \A i \in Half : Stored(i) \cup {Cached(i)} \subseteq {Cached(0), Cached(1)}
      BY <1>2, HalfAre
    <3>2. QED BY <1>2, <3>1 DEF AllEntries
  <2>1. CASE kind = "empty"
    <3>1. l1 = Unallocated /\ snap = 0 /\ \A c \in Clusters : file[Ref(c)] = 0
      BY <1>0, <1>1, <2>1, FreshIs
    <3>2. l1.c = 0 /\ Cached(0).c = 0 /\ Cached(1).c = 0
      BY <1>2, <1>4, <3>1
    <3>3. ASSUME NEW c \in Clusters PROVE InMemory(c) = 0
      BY <1>3, <3>1, <3>2 DEF InMemory, Bit, BySnap
    <3>4. QED BY <2>1, <3>1, <3>3
  <2>2. CASE kind # "empty"
    <3>1. /\ l1 = Entry(1, IF kind = "shared" THEN "none" ELSE "copied")
          /\ \A c \in Clusters : file[Ref(c)] =
               IF c \notin {1, 2} THEN 0 ELSE IF kind = "shared" THEN 2 ELSE 1
          /\ \E flag \in Flags : /\ file[Cell(1, 0)] = Entry(2, flag)
                                 /\ kind = "shared" => flag = "none"
          /\ file[Cell(1, 1)] = Unallocated
      BY <1>0, <1>1, <2>2, FreshIs
    <3>2. l1.c = 1 /\ l1.flag = IF kind = "shared" THEN "none" ELSE "copied"
      BY <3>1, EntriesAre
    <3>3. Cached(0) = file[Cell(1, 0)] /\ Cached(1) = file[Cell(1, 1)]
      BY <1>2, <1>4, <3>2
    <3>4. /\ Cached(0).c = 2 /\ Cached(1).c = 0 /\ Cached(1).flag = "none"
          /\ kind = "shared" => Cached(0).flag = "none"
      BY <1>4, <3>1, <3>3, EntriesAre
    <3>5. ASSUME NEW c \in Clusters
          PROVE  InMemory(c) = IF c \notin {1, 2} THEN 0 ELSE IF kind = "shared" THEN 2 ELSE 1
      <4>1. BySnap(c) <=> kind = "shared" /\ c \in {1, 2}
        BY <1>0 DEF BySnap
      <4>2. QED BY <1>3, <3>2, <3>4, <4>1 DEF InMemory, Bit
    <3>6. \A c \in Clusters : file[Ref(c)] = InMemory(c)
      BY <3>1, <3>5
    <3>7. \A c \in Clusters : kind # "shared" => InMemory(c) <= 1
      BY <3>5
    <3>8. \A e \in AllEntries : e.flag = "copied" => kind # "shared"
      BY <2>0, <3>2, <3>4
    <3>9. QED BY <3>6, <3>7, <3>8
  <2>3. QED BY <2>1, <2>2
<1>6. PrivateInv
  <2> SUFFICES ASSUME NEW e \in AllEntries, e.flag = "copied" PROVE Anywhere(e.c) <= 1
    BY DEF PrivateInv
  <2>1. AllEntries \subseteq EntrySet
    <3>1. l1 \in EntrySet /\ \A i \in Half : Stored(i) \subseteq EntrySet
      BY <1>1, <1>2 DEF FileInv
    <3>2. \A i \in Half : Cached(i) \in EntrySet
      BY <1>2, <3>1, EntriesAre
    <3>3. QED BY <1>2, <3>1, <3>2 DEF AllEntries
  <2>2. e.c \in Clusters
    BY <2>1, EntriesAre
  <2>3. \A c \in Clusters : InMemory(c) <= 1
    BY <1>5
  <2>4. QED BY <1>3, <2>2, <2>3
<1>7. ASSUME NEW c \in Clusters
      PROVE  file[Ref(c)] >= InMemory(c) /\ file[Ref(c)] = InMemory(c)
  BY <1>3, <1>5
<1>8. QED BY <1>1, <1>6, <1>7 DEF ImageGood

LEMMA InitAll == Init => AllInv
BY InitOpened, InitGood, OpenedOk
-----------------------------------------------------------------------------
(* The invariant is inductive.                                             *)

LEMMA SameWaits ==
  ASSUME WaitInv, UNCHANGED <<pc, m, waits, lock>>
  PROVE  WaitInv'
<1>1. PlacesType'
  BY DEF WaitInv, PlacesType
<1>2. QED BY <1>1 DEF WaitInv, LockPlaces, AllocPlaces, WaitsForAlloc

LEMMA SubmitKeepsWaits ==
  ASSUME AllInv, NEW w \in Cos, SubmitAny(w)
  PROVE  WaitInv' /\ DependInv'
<1>1. WaitInv /\ DependInv
  BY DEF AllInv
<1>2. UNCHANGED <<stack, ret, lock, depends, m, waits>> /\ pc[w] = "idle" /\ Goto(w, "enter")
  BY SubmitStays DEF calls, caches
<1>3. pc' = [pc EXCEPT ![w] = "enter"]
  BY <1>2 DEF Goto
<1>4. WaitInv'
  BY <1>1, <1>2, <1>3, Moved DEF Locked, Unlocked, InFlight
<1>5. QED BY <1>1, <1>2, <1>4, SameCalls

LEMMA CallKeepsAll ==
  ASSUME OnlyDataFails, AllInv, CallStep
  PROVE  AllInv'
<1>1. WaitInv /\ DependInv /\ ShapeInv /\ OwnerInv
  BY DEF AllInv
<1>2. UNCHANGED <<pc, m, waits, lock>>
  BY <1>1, CallForms DEF requests
<1>3. WaitInv'
  BY <1>1, <1>2, SameWaits
<1>4. DependInv' /\ ShapeInv' /\ OwnerInv'
  BY <1>1, CallKeepsDependInv, CallKeepsShape, CallKeepsOwner
<1>5. TypeInv' /\ FileInv' /\ CacheInv' /\ RequestInv'
  BY CallKeepsType, CallKeepsFile, CallKeepsCache, CallKeepsRequests
<1>6. FlushInv' /\ TableInv' /\ CountsInv'
  BY CallKeepsFlush, CallKeepsTable, CallKeepsCounts
<1>7. QED BY <1>3, <1>4, <1>5, <1>6 DEF AllInv

LEMMA ProgressKeepsAll ==
  ASSUME OnlyDataFails, AllInv, NEW w \in Cos, Progress(w)
  PROVE  AllInv'
<1>1. WaitInv /\ DependInv
  BY DEF AllInv
<1>2. WaitInv' /\ DependInv' /\ ShapeInv' /\ OwnerInv'
  BY <1>1, WaitStep, RequestKeepsDependInv, ProgressKeepsShape
<1>3. TypeInv' /\ FileInv' /\ CacheInv' /\ RequestInv'
  BY ProgressKeepsType, ProgressKeepsFile, ProgressKeepsCache, ProgressKeepsRequests
<1>4. FlushInv' /\ TableInv' /\ CountsInv'
  BY ProgressKeepsFlush, ProgressKeepsTable, ProgressKeepsCounts
<1>5. QED BY <1>2, <1>3, <1>4 DEF AllInv

LEMMA SubmitKeepsAll ==
  ASSUME AllInv, NEW w \in Cos, SubmitAny(w)
  PROVE  AllInv'
<1>1. WaitInv' /\ DependInv' /\ ShapeInv' /\ OwnerInv'
  BY SubmitKeepsWaits, OthersKeepShape
<1>2. TypeInv' /\ FileInv' /\ CacheInv' /\ RequestInv'
  BY SubmitKeepsType, SubmitKeepsRest, SubmitKeepsRequests
<1>3. FlushInv' /\ TableInv' /\ CountsInv'
  BY SubmitKeepsRest, SubmitKeepsTable, SubmitKeepsCounts
<1>4. QED BY <1>1, <1>2, <1>3 DEF AllInv

LEMMA StutterKeepsAll ==
  ASSUME AllInv, UNCHANGED vars
  PROVE  AllInv'
<1>0. /\ UNCHANGED <<file, lost, writethrough, snap>>
      /\ UNCHANGED <<refcount, l2, l1, dirty, depends, depends_on_flush, free_cluster_index>>
      /\ UNCHANGED <<lock, stack, ret, pc, req, m, old, waits>>
      /\ UNCHANGED <<promise, latest, count, crashes, errors>>
  BY DEF vars, image, caches, calls, requests, ghosts
<1>1. /\ WaitInv /\ DependInv /\ TypeInv /\ ShapeInv /\ OwnerInv /\ FlushInv /\ TableInv
      /\ FileInv /\ CacheInv /\ RequestInv /\ CountsInv
  BY DEF AllInv
<1>2. WaitInv' /\ DependInv'
  BY <1>0, <1>1, SameWaits, SameCalls
<1>3. TypeInv'
  BY <1>0, <1>1 DEF TypeInv
<1>4. ShapeInv'
  BY <1>0, <1>1 DEF ShapeInv, Chained, Top
<1>5. OwnerInv'
  BY <1>0, <1>1 DEF OwnerInv, Outermost
<1>6. FileInv' /\ CacheInv' /\ FlushInv'
  <2>1. Settled /\ Aside
    BY <1>0, <1>1, SettledAside DEF Settled, TypeInv
  <2>2. FlushInv'
    BY <1>0, <2>1, FlushStays
  <2>3. FileInv'
    <3>1. \A u \in Units : Possible(u)' \subseteq Possible(u)
      BY <2>1, SettledMeans
    <3>2. QED BY <1>0, <1>1, <3>1, ShrinkKeepsFile DEF TypeInv
  <2>4. CacheInv'
    BY <1>0, <1>1, CacheStays DEF Writers
  <2>5. QED BY <2>2, <2>3, <2>4
<1>7. \A i \in Half : Cached(i)' = Cached(i)
  BY <1>0 DEF Cached, Entries
<1>8. TableInv'
  <2> SUFFICES ASSUME NEW w \in Cos, lock' = w PROVE TableOk(w)'
    BY TableInvThen
  <2>1. TableOk(w)
    BY <1>0, <1>1, TableInvIs
  <2>2. Aside
    BY <1>0, <1>1, SettledAside DEF Settled, TypeInv
  <2>3. QED BY <1>0, <1>7, <2>1, <2>2, TableStays
<1>9. RequestInv'
  <2>1. \A w \in Cos : PlaceOk(w) /\ EntryOk(w) /\ AloneOk(w)
    BY <1>1, RequestInvIs
  <2>2. DistinctOk
    BY <1>1, RequestInvIs
  <2>3. ASSUME NEW w \in Cos PROVE PlaceOk(w)' /\ AloneOk(w)'
    BY <1>0, <2>1 DEF PlaceOk, AloneOk
  <2>4. ASSUME NEW w \in Cos PROVE EntryOk(w)'
    <3>1. Holds(w)' <=> Holds(w)
      BY <1>0 DEF Holds
    <3>2. w \in Cos /\ req[w].g \in Half /\ EntryOk(w)
      BY <2>1, RequestIs
    <3>3. Cached(req[w].g)' = Cached(req[w].g)
      BY <1>0 DEF Cached, Entries
    <3>4. QED BY <1>0, <3>1, <3>2, <3>3 DEF EntryOk
  <2>5. DistinctOk'
    BY <1>0, <2>2 DEF DistinctOk, Touches
  <2>6. QED BY <2>3, <2>4, <2>5, RequestInvThen
<1>10. CountsInv'
  <2>1. Settled
    BY <1>0, <1>1 DEF Settled, TypeInv
  <2>2. /\ Familiar /\ \A c : OnDisk(c)' <= OnDisk(c)
        /\ \A c \in Clusters : Possible(Ref(c))' \subseteq Possible(Ref(c))
    BY <1>0, <1>7, <2>1, SettledFamiliar
  <2>3. /\ \A w \in Cos : Holds(w)' <=> Holds(w)
        /\ \A c \in Clusters : Adding(c)' <=> Adding(c)
        /\ \A c \in Clusters : Freeing(c)' <=> Freeing(c)
    BY <1>0 DEF Holds, Adding, Freeing, Updating, Outermost
  <2>4. HeldInv' /\ CountInv' /\ PrivateInv'
    BY <1>0, <2>2, <2>3, CountsStay
  <2>5. DiskInv'
    BY <1>0, <2>2, DiskStays
  <2>6. QED BY <2>4, <2>5 DEF CountsInv
<1>11. QED BY <1>2, <1>3, <1>4, <1>5, <1>6, <1>8, <1>9, <1>10 DEF AllInv

LEMMA StepKeepsAll ==
  ASSUME OnlyDataFails, AllInv, [Next]_vars
  PROVE  AllInv'
<1>1. CASE CallStep
  BY <1>1, CallKeepsAll
<1>2. ASSUME NEW w \in Cos, SubmitAny(w) \/ Progress(w) PROVE AllInv'
  BY <1>2, SubmitKeepsAll, ProgressKeepsAll
<1>3. CASE Crash
  BY <1>3, CrashKeepsAll
<1>4. CASE UNCHANGED vars
  BY <1>4, StutterKeepsAll
<1>5. QED BY <1>1, <1>2, <1>3, <1>4 DEF Next
-----------------------------------------------------------------------------
(* What follows from the invariant.                                        *)

LEMMA TypesOk == AllInv => TypeOK
<1> SUFFICES ASSUME AllInv PROVE TypeOK
  OBVIOUS
<1>1. TypeInv /\ WaitInv /\ DependInv /\ ShapeInv /\ CacheInv
  BY DEF AllInv
<1>2. lock \in Cos \cup {None} /\ waits \in [Cos -> Cos \cup {None}]
  BY <1>1 DEF WaitInv, PlacesType
<1>3. depends \in [Caches -> Caches \cup {None}] /\ (stack # <<>> => lock # None)
  BY <1>1 DEF DependInv
<1>4. ret \in BOOLEAN
  BY <1>1 DEF ShapeInv
<1>5. /\ DOMAIN l2 \subseteq Clusters
      /\ dirty \subseteq {<<"ref", 0>>} \cup {<<"l2", t>> : t \in DOMAIN l2}
  BY <1>1 DEF CacheInv
<1>6. QED BY <1>1, <1>2, <1>3, <1>4, <1>5 DEF TypeOK, TypeInv

LEMMA ReferIs ==
  ASSUME NEW img, NEW t, t # 0, NEW c, \A i \in Half : img[Cell(t, i)] \in EntrySet
  PROVE  Refer(img, t, c) = (IF img[Cell(t, 0)].c = c THEN 1 ELSE 0)
                              + (IF img[Cell(t, 1)].c = c THEN 1 ELSE 0)
<1> DEFINE S == {i \in Half : img[Cell(t, i)].c = c}
<1>1. \A i \in Half : IsEntry(img[Cell(t, i)])
  BY DEF EntrySet, IsEntry, Unallocated, Entry
<1>2. Refer(img, t, c) = Cardinality(S)
  BY <1>1 DEF Refer
<1>3. \A i : i \in S <=> (i = 0 \/ i = 1) /\ img[Cell(t, i)].c = c
  BY HalfAre
<1> HIDE DEF S
<1>4. /\ Cardinality({}) = 0 /\ Cardinality({0}) = 1 /\ Cardinality({1}) = 1
      /\ Cardinality({0, 1}) = 2
  <2>1. Cardinality({}) = 0 /\ Cardinality({0}) = 1 /\ Cardinality({1}) = 1
        /\ IsFiniteSet({0})
    BY FS_EmptySet, FS_Singleton
  <2>2. Cardinality({0} \cup {1}) = Cardinality({0}) + 1
    BY <2>1, FS_AddElement
  <2>3. {0} \cup {1} = {0, 1}
    OBVIOUS
  <2>4. QED BY <2>1, <2>2, <2>3
<1>5. CASE img[Cell(t, 0)].c = c /\ img[Cell(t, 1)].c = c
  <2>1. S = {0, 1}
    BY <1>3, <1>5
  <2>2. QED BY <1>2, <1>4, <1>5, <2>1
<1>6. CASE img[Cell(t, 0)].c = c /\ img[Cell(t, 1)].c # c
  <2>1. S = {0}
    BY <1>3, <1>6
  <2>2. QED BY <1>2, <1>4, <1>6, <2>1
<1>7. CASE img[Cell(t, 0)].c # c /\ img[Cell(t, 1)].c = c
  <2>1. S = {1}
    BY <1>3, <1>7
  <2>2. QED BY <1>2, <1>4, <1>7, <2>1
<1>8. CASE img[Cell(t, 0)].c # c /\ img[Cell(t, 1)].c # c
  <2>1. S = {}
    BY <1>3, <1>8
  <2>2. QED BY <1>2, <1>4, <1>8, <2>1
<1>9. QED BY <1>5, <1>6, <1>7, <1>8

(* The references of a contents of the image.                              *)
LEMMA ReferencesAre ==
  ASSUME NEW img, NEW t, t = img[L1].c, NEW c \in Clusters, snap \in {0, 1},
         t # 0 => \A i \in Half : img[Cell(t, i)] \in EntrySet,
         snap # 0 => img[Cell(1, 0)] = Entry(2, "none") /\ img[Cell(1, 1)] = Unallocated
  PROVE  References(img, c) =
           (IF t = c THEN 1 ELSE 0) + (IF t # 0 /\ img[Cell(t, 0)].c = c THEN 1 ELSE 0)
             + (IF t # 0 /\ img[Cell(t, 1)].c = c THEN 1 ELSE 0)
             + (IF BySnap(c) THEN 1 ELSE 0)
<1>1. c # 0 /\ 1 \in Clusters /\ 2 \in Clusters
  BY ClustersAre
<1>2. Refer(img, t, c) = (IF t # 0 /\ img[Cell(t, 0)].c = c THEN 1 ELSE 0)
                           + (IF t # 0 /\ img[Cell(t, 1)].c = c THEN 1 ELSE 0)
  <2>1. CASE t = 0
    BY <2>1 DEF Refer
  <2>2. CASE t # 0
    BY <2>2, ReferIs
  <2>3. QED BY <2>1, <2>2
<1>3. (IF snap = c THEN 1 ELSE 0) + Refer(img, snap, c) = IF BySnap(c) THEN 1 ELSE 0
  <2>1. CASE snap = 0
    BY <1>1, <2>1 DEF Refer, BySnap
  <2>2. CASE snap = 1
    <3>1. /\ img[Cell(1, 0)].c = 2 /\ img[Cell(1, 1)].c = 0
          /\ \A i \in Half : img[Cell(1, i)] \in EntrySet
      BY <1>1, <2>2, EntriesAre, HalfAre DEF Flags
    <3>2. Refer(img, 1, c) = (IF 2 = c THEN 1 ELSE 0) + (IF 0 = c THEN 1 ELSE 0)
      BY <3>1, ReferIs
    <3>3. QED BY <1>1, <2>2, <3>2 DEF BySnap
  <2>3. QED BY <2>1, <2>2
<1>4. References(img, c) = (IF t = c THEN 1 ELSE 0) + (IF snap = c THEN 1 ELSE 0)
                             + Refer(img, t, c) + Refer(img, snap, c)
  BY DEF References
<1>5. Refer(img, snap, c) \in Int
  <2>1. CASE snap = 0
    BY <2>1 DEF Refer
  <2>2. CASE snap = 1
    <3>1. \A i \in Half : img[Cell(1, i)] \in EntrySet
      BY <1>1, <2>2, EntriesAre, HalfAre DEF Flags
    <3>2. QED BY <2>2, <3>1, ReferIs
  <2>3. QED BY <2>1, <2>2
<1>6. QED BY <1>2, <1>3, <1>4, <1>5

(* What a crash leaves.                                                    *)
LEMMA CrashLeaves ==
  ASSUME AllInv, NEW img \in CrashImages
  PROVE  /\ img[L1] \in Possible(L1) /\ img[L1] \in EntrySet
         /\ img[L1].c # 0 => /\ img[L1].c \in Clusters
                             /\ \A i \in Half : /\ img[Cell(img[L1].c, i)] \in Stored(i)
                                                /\ img[Cell(img[L1].c, i)] \in EntrySet
         /\ \A c \in Clusters : img[Ref(c)] \in Possible(Ref(c))
         /\ snap \in {0, 1}
         /\ snap # 0 => /\ img[Cell(1, 0)] = Entry(2, "none") /\ img[Cell(1, 1)] = Unallocated
                        /\ \A h \in Half : img[Cell(2, h)] = Data(1)
<1>1. TypeInv /\ FileInv
  BY DEF AllInv
<1>2. \A u \in Units : img[u] \in Possible(u)
  BY <1>1, CrashImagesAre DEF TypeInv, ImageOk
<1>3. /\ img[L1] \in Possible(L1)
      /\ \A c \in Clusters : img[Ref(c)] \in Possible(Ref(c))
      /\ \A c \in Clusters, i \in Half : img[Cell(c, i)] \in Possible(Cell(c, i))
  BY <1>2, UnitsAre
<1>4. img[L1] \in EntrySet
  BY <1>1, <1>3 DEF FileInv
<1>5. ASSUME img[L1].c # 0, NEW i \in Half
      PROVE  /\ img[L1].c \in Clusters /\ img[Cell(img[L1].c, i)] \in Stored(i)
             /\ img[Cell(img[L1].c, i)] \in EntrySet
  <2>1. img[L1].c \in Tables /\ img[L1].c \in Clusters
    BY <1>3, <1>4, <1>5, EntriesAre DEF Tables
  <2>2. img[Cell(img[L1].c, i)] \in Stored(i)
    BY <1>1, <1>3, <2>1, TablesClusters
  <2>3. QED BY <1>1, <2>1, <2>2 DEF FileInv
<1>6. snap # 0 => /\ img[Cell(1, 0)] = Entry(2, "none") /\ img[Cell(1, 1)] = Unallocated
                  /\ \A h \in Half : img[Cell(2, h)] = Data(1)
  <2>1. 1 \in Clusters /\ 2 \in Clusters
    BY ClustersAre
  <2>2. /\ img[Cell(1, 0)] \in Possible(Cell(1, 0)) /\ img[Cell(1, 1)] \in Possible(Cell(1, 1))
        /\ \A h \in Half : img[Cell(2, h)] \in Possible(Cell(2, h))
    BY <1>3, <2>1, HalfAre
  <2>3. snap # 0 => /\ Possible(Cell(1, 0)) = {Entry(2, "none")}
                    /\ Possible(Cell(1, 1)) = {Unallocated}
                    /\ \A h \in Half : Possible(Cell(2, h)) = {Data(1)}
    BY <1>1 DEF FileInv
  <2>4. QED BY <2>2, <2>3
<1>7. img[L1].c # 0 => img[L1].c \in Clusters
  BY <1>4, EntriesAre
<1>8. QED BY <1>1, <1>3, <1>4, <1>5, <1>6, <1>7 DEF TypeInv

LEMMA ReferencesFew ==
  ASSUME AllInv, NEW img \in CrashImages, NEW c \in Clusters, NEW t, t = img[L1].c
  PROVE  /\ References(img, c) \in Nat /\ References(img, c) <= OnDisk(c)
         /\ t = c => References(img, c) >= 1
         /\ \A i \in Half : t # 0 /\ img[Cell(t, i)].c = c => References(img, c) >= 1
<1>1. References(img, c) =
           (IF t = c THEN 1 ELSE 0) + (IF t # 0 /\ img[Cell(t, 0)].c = c THEN 1 ELSE 0)
             + (IF t # 0 /\ img[Cell(t, 1)].c = c THEN 1 ELSE 0)
             + (IF BySnap(c) THEN 1 ELSE 0)
  BY CrashLeaves, ReferencesAre
<1>2. /\ t = c => Points(Possible(L1), c)
      /\ t # 0 /\ img[Cell(t, 0)].c = c => Points(Stored(0), c)
      /\ t # 0 /\ img[Cell(t, 1)].c = c => Points(Stored(1), c)
  BY CrashLeaves, HalfAre DEF Points
<1>3. References(img, c) <= OnDisk(c)
  BY <1>1, <1>2 DEF OnDisk, Bit
<1>4. References(img, c) \in Nat
  BY <1>1
<1>5. t = c => References(img, c) >= 1
  BY <1>1
<1>6. \A i \in Half : t # 0 /\ img[Cell(t, i)].c = c => References(img, c) >= 1
  BY <1>1, HalfAre
<1>7. QED BY <1>3, <1>4, <1>5, <1>6

LEMMA NobodyShares == AllInv => NoClusterShared
<1> SUFFICES ASSUME AllInv PROVE NoClusterShared
  OBVIOUS
<1>1. DiskInv /\ PrivateInv /\ FileInv
  BY DEF AllInv, CountsInv
<1>2. ASSUME NEW img \in CrashImages, NEW c \in Clusters PROVE img[Ref(c)] >= References(img, c)
  <2>1. img[Ref(c)] \in Possible(Ref(c))
    BY CrashLeaves
  <2>2. img[Ref(c)] >= OnDisk(c) /\ img[Ref(c)] \in Nat
    BY <1>1, <2>1 DEF DiskInv, FileInv
  <2>3. References(img, c) \in Nat /\ References(img, c) <= OnDisk(c) /\ OnDisk(c) \in Nat
    BY ReferencesFew, CountsAre
  <2>4. QED BY <2>2, <2>3
<1>3. ASSUME NEW img \in CrashImages, NEW e, e.flag = "copied",
             e \in {img[L1]} \cup
               (IF img[L1].c = 0 THEN {} ELSE {img[Cell(img[L1].c, i)] : i \in Half})
      PROVE  References(img, e.c) = 1
  <2>1. e \in AllEntries
    BY <1>3, CrashLeaves DEF AllEntries
  <2>2. e \in EntrySet /\ e.c \in Clusters
    BY <1>3, <2>1, AllEntriesAre, EntriesAre
  <2>3. Anywhere(e.c) <= 1
    BY <1>1, <1>3, <2>1 DEF PrivateInv
  <2>4. References(img, e.c) \in Nat /\ References(img, e.c) <= OnDisk(e.c)
    BY <2>2, ReferencesFew
  <2>5. OnDisk(e.c) <= Anywhere(e.c) /\ OnDisk(e.c) \in Nat /\ Anywhere(e.c) \in Nat
    BY AnywhereMost, CountsAre
  <2>6. References(img, e.c) >= 1
    BY <1>3, <2>2, ReferencesFew
  <2>7. QED BY <2>3, <2>4, <2>5, <2>6
<1>4. RefcountsCover
  BY <1>2 DEF RefcountsCover
<1>5. CopiedIsPrivate
  BY <1>3 DEF CopiedIsPrivate
<1>6. QED BY <1>4, <1>5 DEF NoClusterShared

LEMMA SnapshotStays == AllInv => SnapshotIntact
<1> SUFFICES ASSUME AllInv, snap # 0, NEW img \in CrashImages, NEW g \in Half, NEW h \in Half
             PROVE  Reads(img, snap, g, h) = IF g = 0 THEN 1 ELSE 0
  BY DEF SnapshotIntact, Sectors, Guest, Half
<1>1. /\ snap = 1 /\ img[Cell(1, 0)] = Entry(2, "none") /\ img[Cell(1, 1)] = Unallocated
      /\ img[Cell(2, h)] = Data(1)
  BY CrashLeaves
<1>2. /\ IsEntry(Entry(2, "none")) /\ Entry(2, "none").c = 2
      /\ IsEntry(Unallocated) /\ Unallocated.c = 0
      /\ ~ IsEntry(Data(1)) /\ Data(1).v = 1
  BY DEF IsEntry, Entry, Unallocated, Data
<1>3. g = 0 \/ g = 1
  BY HalfAre
<1>4. QED BY <1>1, <1>2, <1>3 DEF Reads

LEMMA NobodyLeaks == AllInv => NothingLeaked
<1> DEFINE img == [u \in Units |->
          IF u = L1 THEN l1
          ELSE IF u[1] = "cell" /\ u[2] \in DOMAIN l2 THEN l2[u[2]][u[3]]
          ELSE file[u]]
<1> SUFFICES ASSUME AllInv, \A w \in Cos : pc[w] = "idle", crashes = 0, errors = 0,
                    NEW c \in Clusters
             PROVE  refcount[c] = References(img, c)
  BY DEF NothingLeaked
<1>1. WaitInv /\ CacheInv /\ FileInv /\ CountInv /\ TypeInv
  BY DEF AllInv, CountsInv
<1>2. \A w \in Cos : ~ m[w].alloc /\ ~ Holds(w)
  BY <1>1 DEF WaitInv, AllocPlaces, InFlight, Holds
<1>3. lock = None
  BY <1>1 DEF WaitInv, LockPlaces, PlacesType, Locked
<1>4. stack = <<>>
  BY <1>3, StackEmpty
<1>5. ~ Freeing(c) /\ ~ Held(c)
  BY <1>2, <1>4 DEF Freeing, Updating, Held
<1>6. refcount[c] = InMemory(c)
  <2>1. CountOk(c)
    BY <1>1, <1>5 DEF CountInv
  <2>2. Bit(Freeing(c)) = 0 /\ InMemory(c) \in Nat
    BY <1>5, BitIs, CountsAre
  <2>3. QED BY <2>1, <2>2 DEF CountOk
<1>7. /\ img[L1] = l1
      /\ \A d \in Clusters, i \in Half :
           img[Cell(d, i)] = IF d \in DOMAIN l2 THEN l2[d][i] ELSE file[Cell(d, i)]
  <2>1. img[L1] = l1
    BY UnitsAre
  <2>2. ASSUME NEW d \in Clusters, NEW i \in Half
        PROVE  img[Cell(d, i)] = IF d \in DOMAIN l2 THEN l2[d][i] ELSE file[Cell(d, i)]
    <3> DEFINE u == Cell(d, i)
    <3>1. u \in Units /\ u # L1 /\ u[1] = "cell" /\ u[2] = d /\ u[3] = i
      BY UnitsAre, UnitsDiffer
    <3> HIDE DEF u
    <3>2. img[u] = IF u[1] = "cell" /\ u[2] \in DOMAIN l2 THEN l2[u[2]][u[3]] ELSE file[u]
      BY <3>1
    <3>3. QED BY <3>1, <3>2 DEF u
  <2>3. QED BY <2>1, <2>2
<1> HIDE DEF img
<1>8. l1.c # 0 => \A i \in Half : img[Cell(l1.c, i)] = Cached(i)
  BY <1>7, CachedIs
<1>9. snap \in {0, 1}
  BY <1>1 DEF TypeInv
<1>10. snap # 0 => img[Cell(1, 0)] = Entry(2, "none") /\ img[Cell(1, 1)] = Unallocated
  <2> SUFFICES ASSUME snap # 0
               PROVE  img[Cell(1, 0)] = Entry(2, "none") /\ img[Cell(1, 1)] = Unallocated
    OBVIOUS
  <2>1. snap = 1 /\ 1 \in Clusters /\ 0 \in Half /\ 1 \in Half
    BY <1>9, ClustersAre, HalfAre
  <2>2. Possible(Cell(1, 0)) = {Entry(2, "none")} /\ Possible(Cell(1, 1)) = {Unallocated}
    BY <1>1 DEF FileInv
  <2>3. file[Cell(1, 0)] = Entry(2, "none") /\ file[Cell(1, 1)] = Unallocated
    BY <2>2, PossibleIs
  <2>4. 1 \in DOMAIN l2 => \A i \in Half : file[Cell(1, i)] = l2[1][i]
    BY <1>1, <2>1 DEF CacheInv
  <2>5. \A i \in Half : img[Cell(1, i)] = file[Cell(1, i)]
    BY <1>7, <2>1, <2>4
  <2>6. QED BY <2>1, <2>3, <2>5
<1>11. References(img, c) =
           (IF l1.c = c THEN 1 ELSE 0) + (IF l1.c # 0 /\ Cached(0).c = c THEN 1 ELSE 0)
             + (IF l1.c # 0 /\ Cached(1).c = c THEN 1 ELSE 0)
             + (IF BySnap(c) THEN 1 ELSE 0)
  <2> DEFINE t == l1.c
  <2>1. t = img[L1].c
    BY <1>7
  <2>2. t # 0 => \A i \in Half : img[Cell(t, i)] \in EntrySet /\ img[Cell(t, i)] = Cached(i)
    BY <1>8, CachedIs
  <2> HIDE DEF t
  <2>3. References(img, c) =
           (IF t = c THEN 1 ELSE 0) + (IF t # 0 /\ img[Cell(t, 0)].c = c THEN 1 ELSE 0)
             + (IF t # 0 /\ img[Cell(t, 1)].c = c THEN 1 ELSE 0)
             + (IF BySnap(c) THEN 1 ELSE 0)
    BY <1>9, <1>10, <2>1, <2>2, ReferencesAre
  <2>4. t # 0 => img[Cell(t, 0)] = Cached(0) /\ img[Cell(t, 1)] = Cached(1)
    BY <2>2, HalfAre
  <2>5. QED BY <2>3, <2>4 DEF t
<1>12. l1.c = 0 => Cached(0).c # c /\ Cached(1).c # c
  BY CachedIs, EntriesAre, HalfAre, ClustersAre
<1>13. References(img, c) = InMemory(c)
  BY <1>11, <1>12 DEF InMemory, Bit
<1>14. QED BY <1>6, <1>13
-----------------------------------------------------------------------------
(* The theorems, for any number of coroutines, clusters, requests, crashes *)
(* and failed transfers of data.                                           *)

LEMMA InvAlways ==
  ASSUME OnlyDataFails
  PROVE  Spec => []AllInv
<1>1. Init => AllInv
  BY InitAll
<1>2. AllInv /\ [Next]_vars => AllInv'
  BY StepKeepsAll
<1>3. QED BY <1>1, <1>2, PTL DEF Spec

(* The state of block/qcow2*.c is what its types say: tables in the cache  *)
(* are clusters of the file, only they and the refcount block are dirty,   *)
(* refcounts are never negative, and calls are under way only under the    *)
(* lock.                                                                   *)
THEOREM ImageTypeCorrect ==
  ASSUME OnlyDataFails
  PROVE  Spec => []TypeOK
BY InvAlways, TypesOk, PTL

(* Whatever a crash leaves of the writes of block/qcow2-cache.c, the       *)
(* refcounts in the file cover the references in the file, and a cluster   *)
(* with the flag COPIED has one reference: whoever opens the image next    *)
(* neither gives away nor overwrites a cluster that is in use.             *)
THEOREM ClustersNeverShared ==
  ASSUME OnlyDataFails
  PROVE  Spec => []NoClusterShared
BY InvAlways, NobodyShares, PTL

(* Whatever the guest writes or discards and whatever a crash leaves, the  *)
(* snapshot of block/qcow2-snapshot.c reads as when it was taken.          *)
THEOREM SnapshotStaysIntact ==
  ASSUME OnlyDataFails
  PROVE  Spec => []SnapshotIntact
BY InvAlways, SnapshotStays, PTL

(* With no request under way and nothing failed or crashed, the refcounts  *)
(* of block/qcow2-refcount.c are the numbers of references: no cluster has *)
(* leaked, and none is freed that is in use.                               *)
THEOREM NothingEverLeaks ==
  ASSUME OnlyDataFails
  PROVE  Spec => []NothingLeaked
BY InvAlways, NobodyLeaks, PTL
=============================================================================
