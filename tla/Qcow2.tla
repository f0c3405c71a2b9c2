------------------------------- MODULE Qcow2 --------------------------------
(***************************************************************************)
(* block/qcow2*.c: requests of the guest against an image file, and what a *)
(* crash of the host leaves of the image.                                  *)
(*                                                                         *)
(* The image has one L1 entry, L2 tables of two entries and one refcount   *)
(* block.  Tables are changed in the L2 and the refcount cache and reach   *)
(* the file when the caches write them.  `file' is what reading the file   *)
(* returns; `lost' holds, for every entry and sector, the other contents a *)
(* crash may leave there, until the file is flushed.  Coroutines give up   *)
(* s->lock only around data transfers and while they wait for each other;  *)
(* `stack' holds the calls of its owner that write tables, innermost       *)
(* first.                                                                  *)
(***************************************************************************)
EXTENDS Integers, Sequences, FiniteSets, FiniteSetsExt

CONSTANTS
  Cos,          \* the coroutines of guest requests
  None,
  Clusters,     \* host clusters for tables and data: 1..n in file order
  Setups,       \* pairs <<writethrough, image>> to start from
  Ops,          \* the requests the guest makes
  MaxRequests,  \* bound: how many requests it makes
  MaxCrashes,   \* bound: how often the host crashes
  MayFail,      \* pairs <<writethrough, "data" | "table" | "flush">>
  MaxErrors     \* bound: how many of them do

ASSUME QcowAssumption ==
  /\ IsFiniteSet(Clusters) /\ Clusters = 1..Cardinality(Clusters)
  /\ {1, 2} \subseteq Clusters
  /\ Setups \subseteq BOOLEAN \X {"plain", "shared", "compressed", "empty"}
  /\ None \notin Cos \cup {"l2", "ref"}
  /\ MaxRequests \in Nat /\ MaxCrashes \in Nat /\ MaxErrors \in Nat

VARIABLES
  file, lost,           \* the image file
  writethrough,         \* the caches' mode, and O_DSYNC for the file
  snap,                 \* the L2 table of the image's snapshot, 0 for none
  refcount, l2, l1,     \* refcount block, cached L2 tables, l1_table
  dirty,                \* the dirty cache entries
  depends, depends_on_flush,
  free_cluster_index,
  lock, stack, ret,     \* s->lock, its owner's calls, what the last returned
  pc, req,              \* per coroutine: where it is, its request
  m,                    \* per coroutine: QCowL2Meta
  old,                  \* per coroutine: the cluster it will free
  waits,                \* per coroutine: whose dependent_requests it is in
  promise, latest,      \* per sector: what reading it after a crash may
                        \* return; its last completed write
  count, crashes, errors

image == <<file, lost, snap, writethrough>>
caches == <<refcount, l2, l1, dirty, depends, depends_on_flush,
            free_cluster_index>>
calls == <<stack, ret, lock>>
requests == <<pc, req, m, old, waits>>
ghosts == <<promise, latest, count, crashes>>
vars == <<image, caches, calls, requests, ghosts, errors>>

Guest == {0, 1}         \* the guest's clusters, one L2 entry each
Half == {0, 1}          \* a cluster's sectors, or an L2 table's entries
Caches == {"l2", "ref"}

Ref(c) == <<"ref", c>>
Cell(c, i) == <<"cell", c, i>>
L1 == <<"l1">>
Units == {Ref(c) : c \in Clusters} \cup {L1}
           \cup {Cell(c, i) : c \in Clusters, i \in Half}

Data(v) == [v |-> v]
Entry(c, flag) == [c |-> c, flag |-> flag]      \* an L1 or L2 entry
Unallocated == Entry(0, "none")
IsEntry(x) == "c" \in DOMAIN x

(* The image at the start: table 1, data in 2 holding value 1, everything  *)
(* else empty.                                                             *)
FreshImage(kind) ==
  LET flag == CASE kind = "plain" -> "copied" [] kind = "shared" -> "none"
                [] kind = "compressed" -> "compressed" [] OTHER -> "none"
      n == IF kind = "shared" THEN 2 ELSE 1
  IN [u \in Units |->
       CASE u = L1 -> IF kind = "empty" THEN Unallocated
                      ELSE Entry(1, IF n = 1 THEN "copied" ELSE "none")
         [] u[1] = "ref" -> IF kind # "empty" /\ u[2] \in {1, 2} THEN n ELSE 0
         [] OTHER ->
             IF kind = "empty" \/ u[2] > 2 THEN Data(0)
             ELSE IF u[2] = 2 THEN Data(1)
             ELSE IF u[3] = 0 THEN Entry(2, flag) ELSE Unallocated]

NoMeta == [alloc |-> FALSE, c |-> 0]
NoRequest == [op |-> "none", g |-> 0, halves |-> {}, v |-> 0, floor |-> <<>>]

Sectors == Guest \X Half
Values == -1..MaxRequests + 1   \* what they hold; -1 is not the guest's data

NoDepends == [k \in Caches |-> None]
NoDependsOnFlush == [k \in Caches |-> FALSE]

Init ==
  \E s \in Setups :
    /\ writethrough = s[1]
    /\ file = FreshImage(s[2]) /\ lost = [u \in Units |-> {}]
    /\ snap = IF s[2] = "shared" THEN 1 ELSE 0
    /\ latest = [x \in Sectors |-> IF s[2] # "empty" /\ x[1] = 0 THEN 1 ELSE 0]
    /\ promise = [x \in Sectors |-> {latest[x]}]
    /\ count = 1 /\ crashes = 0 /\ errors = 0
    /\ refcount = [c \in Clusters |-> file[Ref(c)]] /\ l1 = file[L1]
    /\ l2 = <<>> /\ dirty = {} /\ free_cluster_index = 1
    /\ depends = NoDepends /\ depends_on_flush = NoDependsOnFlush
    /\ lock = None /\ stack = <<>> /\ ret = TRUE
    /\ pc = [w \in Cos |-> "idle"] /\ req = [w \in Cos |-> NoRequest]
    /\ m = [w \in Cos |-> NoMeta] /\ old = [w \in Cos |-> 0]
    /\ waits = [w \in Cos |-> None]

-----------------------------------------------------------------------------
(* The file.                                                               *)

Fails(kind) ==
  <<writethrough, kind>> \in MayFail /\ errors < MaxErrors /\ errors' = errors + 1

(* A write to the host's page cache: until a flush a crash may undo it, in *)
(* whole or for some of its entries.                                       *)
Written(ws) ==
  /\ file' = [u \in Units |-> IF u \in DOMAIN ws THEN ws[u] ELSE file[u]]
  /\ lost' = [u \in Units |-> IF u \in DOMAIN ws /\ ~ writethrough
                              THEN (lost[u] \cup {file[u]}) \ {ws[u]}
                              ELSE lost[u]]

Flushed == lost' = [u \in Units |-> {}] /\ UNCHANGED file

-----------------------------------------------------------------------------
(* Calls of the owner of the lock.  A frame is the function, the cache it  *)
(* works on, an entry or cluster, the entries it has yet to flush, and how *)
(* far it got.                                                             *)

Frame(f, k, e, todo) == [f |-> f, k |-> k, e |-> e, todo |-> todo, at |-> "start"]

CacheFlush(k) ==
  Frame("cache_flush", k, 0, {d[2] : d \in {x \in dirty : x[1] = k}})
EntryFlush(k, e) == Frame("entry_flush", k, e, {})
FlushDependency(k) == Frame("flush_dependency", k, 0, {})
SetDependency(k) == Frame("set_dependency", k, 0, {})   \* on the other cache
UpdateRefcount(c, addend) == Frame("update_refcount", addend, c, {})

Other(k) == IF k = "l2" THEN "ref" ELSE "l2"

Top == Head(stack)
In(f, at) == stack # <<>> /\ Top.f = f /\ Top.at = at
Calls(frames, at) ==
  stack' = frames \o <<[Top EXCEPT !.at = at]>> \o Tail(stack) /\ ret' = TRUE
Returns(r) == stack' = Tail(stack) /\ ret' = r

(* qcow2_cache_put writes a dirty entry when the cache is writethrough.    *)
PutFrames(k, e) == IF writethrough THEN <<EntryFlush(k, e)>> ELSE <<>>

Contents(k, e) ==
  IF k = "ref" THEN [u \in {Ref(c) : c \in Clusters} |-> refcount[u[2]]]
  ELSE [u \in {Cell(e, i) : i \in Half} |-> l2[e][u[3]]]

CacheFlushNext ==
  /\ stack # <<>> /\ Top.f = "cache_flush" /\ Top.todo # {}
  /\ \E e \in Top.todo :
       /\ stack' = <<EntryFlush(Top.k, e),
                     [Top EXCEPT !.todo = @ \ {e},
                                 !.at = IF ret THEN @ ELSE "failed"]>>
                   \o Tail(stack)
       /\ ret' = TRUE
  /\ UNCHANGED <<image, caches, lock, requests, ghosts, errors>>

CacheFlushEnd_NoSync ==   \* fault: the cache is written but the file not flushed
  /\ stack # <<>> /\ Top.f = "cache_flush" /\ Top.todo = {}
  /\ Returns(ret /\ Top.at # "failed")
  /\ UNCHANGED <<image, caches, lock, requests, ghosts, errors>>

CacheFlushEnd ==
  /\ stack # <<>> /\ Top.f = "cache_flush" /\ Top.todo = {}
  /\ IF ret /\ Top.at # "failed"
     THEN \/ Flushed /\ Returns(TRUE) /\ UNCHANGED errors
          \/ Fails("flush") /\ Returns(FALSE) /\ UNCHANGED <<file, lost>>
     ELSE Returns(FALSE) /\ UNCHANGED <<file, lost, errors>>
  /\ UNCHANGED <<snap, writethrough, caches, lock, requests, ghosts>>

EntryFlushStart ==
  /\ In("entry_flush", "start")
  /\ LET k == Top.k IN
     IF <<k, Top.e>> \notin dirty
     THEN Returns(TRUE) /\ UNCHANGED <<file, lost, depends_on_flush, errors>>
     ELSE IF depends[k] # None
     THEN /\ Calls(<<FlushDependency(k)>>, "write")
          /\ UNCHANGED <<file, lost, depends_on_flush, errors>>
     ELSE IF depends_on_flush[k]
     THEN \/ /\ Flushed /\ Calls(<<>>, "write") /\ UNCHANGED errors
             /\ depends_on_flush' = [depends_on_flush EXCEPT ![k] = FALSE]
          \/ /\ Fails("flush") /\ Returns(FALSE)
             /\ UNCHANGED <<file, lost, depends_on_flush>>
     ELSE /\ Calls(<<>>, "write")
          /\ UNCHANGED <<file, lost, depends_on_flush, errors>>
  /\ UNCHANGED <<snap, writethrough, refcount, l2, l1, dirty, depends,
                 free_cluster_index, lock, requests, ghosts>>

(* The write of a table of several entries: a crash in the middle leaves a *)
(* mixture, also when the write is durable once it returns.                *)
EntryFlushWrite ==
  /\ In("entry_flush", "write")
  /\ \/ /\ ret
        /\ LET ws == Contents(Top.k, Top.e) IN
           /\ file' = [u \in Units |-> IF u \in DOMAIN ws THEN ws[u] ELSE file[u]]
           /\ lost' = [u \in Units |-> IF u \in DOMAIN ws
                         THEN (lost[u] \cup {file[u]}) \ {ws[u]} ELSE lost[u]]
        /\ Calls(<<>>, "written") /\ UNCHANGED errors
     \/ ret /\ Fails("table") /\ Returns(FALSE) /\ UNCHANGED <<file, lost>>
     \/ ~ ret /\ Returns(FALSE) /\ UNCHANGED <<file, lost, errors>>
  /\ UNCHANGED <<snap, writethrough, caches, lock, requests, ghosts>>

EntryFlushWritten ==
  /\ In("entry_flush", "written")
  /\ dirty' = dirty \ {<<Top.k, Top.e>>}
  /\ IF writethrough THEN Flushed ELSE UNCHANGED <<file, lost>>
  /\ Returns(TRUE)
  /\ UNCHANGED <<snap, writethrough, refcount, l2, l1, depends,
                 depends_on_flush, free_cluster_index, lock, requests, ghosts,
                 errors>>

FlushDependencyStep ==
  /\ \/ In("flush_dependency", "start") /\ Calls(<<CacheFlush(depends[Top.k])>>, "flushed")
        /\ UNCHANGED <<depends, depends_on_flush>>
     \/ /\ In("flush_dependency", "flushed") /\ Returns(ret)
        /\ depends' = [depends EXCEPT ![Top.k] = IF ret THEN None ELSE @]
        /\ depends_on_flush' = [depends_on_flush EXCEPT ![Top.k] = ~ ret /\ @]
  /\ UNCHANGED <<image, refcount, l2, l1, dirty, free_cluster_index, lock,
                 requests, ghosts, errors>>

SetDependencyStep_Overwritten ==   \* fault: the other cache's dependency is not flushed first
  /\ In("set_dependency", "start") /\ Returns(TRUE)
  /\ depends' = [depends EXCEPT ![Top.k] = Other(Top.k)]
  /\ UNCHANGED <<image, refcount, l2, l1, dirty, depends_on_flush,
                 free_cluster_index, lock, requests, ghosts, errors>>

SetDependencyStep ==
  /\ \/ /\ In("set_dependency", "start")
        /\ Calls(IF depends[Other(Top.k)] = None THEN <<>>
                 ELSE <<FlushDependency(Other(Top.k))>>, "set")
        /\ UNCHANGED depends
     \/ /\ In("set_dependency", "set") /\ Returns(ret)
        /\ depends' = [depends EXCEPT ![Top.k] = IF ret THEN Other(Top.k) ELSE @]
  /\ UNCHANGED <<image, refcount, l2, l1, dirty, depends_on_flush,
                 free_cluster_index, lock, requests, ghosts, errors>>

(* update_refcount ignores what qcow2_cache_set_dependency returns.        *)
UpdateRefcountStep ==
  /\ \/ /\ In("update_refcount", "start")
        /\ Calls(IF Top.k < 0 THEN <<SetDependency("ref")>> ELSE <<>>, "apply")
        /\ UNCHANGED <<refcount, dirty, free_cluster_index>>
     \/ /\ In("update_refcount", "apply")
        /\ LET n == refcount[Top.e] + Top.k IN
           /\ refcount' = [refcount EXCEPT ![Top.e] = n]
           /\ free_cluster_index' = IF n = 0 /\ Top.e < free_cluster_index
                                    THEN Top.e ELSE free_cluster_index
        /\ dirty' = dirty \cup {<<"ref", 0>>}
        /\ Calls(PutFrames("ref", 0), "put")
     \/ In("update_refcount", "put") /\ Returns(ret)
        /\ UNCHANGED <<refcount, dirty, free_cluster_index>>
  /\ UNCHANGED <<image, l2, l1, depends, depends_on_flush, lock, requests,
                 ghosts, errors>>

CallStep ==
  \/ CacheFlushNext \/ CacheFlushEnd
  \/ EntryFlushStart \/ EntryFlushWrite \/ EntryFlushWritten
  \/ FlushDependencyStep \/ SetDependencyStep \/ UpdateRefcountStep

-----------------------------------------------------------------------------
(* Requests.                                                               *)

Owns(w) == lock = w /\ stack = <<>>

Touches(w) == {req[w].g} \X req[w].halves

Goto(w, l) == pc' = [pc EXCEPT ![w] = l]

(* The guest does not have two requests for a sector under way, and values *)
(* number its writes in the order it makes them.  A sector it discards may *)
(* read as anything until it is written again.                             *)
Submit(w, op, g, halves) ==
  /\ pc[w] = "idle" /\ count < MaxRequests + 1 /\ op \in Ops
  /\ \A o \in Cos : Touches(o) \cap ({g} \X halves) = {}
  /\ count' = count + 1
  /\ LET gone == IF op = "discard" THEN {g} \X halves ELSE {}
         forget(f) == [x \in Sectors |-> IF x \in gone THEN -1 ELSE f[x]]
     IN /\ latest' = forget(latest)
        /\ req' = [o \in Cos |->
             IF o = w THEN [op |-> op, g |-> g, halves |-> halves,
                            v |-> count + 1, floor |-> latest']
             ELSE IF req[o].op = "none" THEN req[o]
             ELSE [req[o] EXCEPT !.floor = forget(@)]]
        /\ promise' = [x \in Sectors |->
             IF x \in gone THEN Values
             ELSE IF op = "write" /\ x \in {g} \X halves
             THEN promise[x] \cup {count + 1} ELSE promise[x]]
  /\ Goto(w, "enter")
  /\ UNCHANGED <<image, caches, calls, m, old, waits, crashes, errors>>

SubmitAny(w) ==
  \/ \E g \in Guest, h \in (SUBSET Half) \ {{}} : Submit(w, "write", g, h)
  \/ \E g \in Guest : Submit(w, "discard", g, Half)
  \/ \E op \in {"flush", "read"} : Submit(w, op, 0, {})

Enter(w) ==
  /\ pc[w] = "enter" /\ lock = None
  /\ lock' = w
  /\ Goto(w, CASE req[w].op \in {"write", "discard"} -> "table"
               [] req[w].op = "flush" -> "flush_l2" [] OTHER -> "get")
  /\ UNCHANGED <<image, caches, stack, ret, req, m, old, waits, ghosts, errors>>

Leave_NobodyWoken(w, completed) ==   \* fault: dependent requests are not restarted
  /\ lock' = None /\ stack' = <<>>
  /\ pc' = [pc EXCEPT ![w] = "idle"] /\ req' = [req EXCEPT ![w] = NoRequest]
  /\ m' = [m EXCEPT ![w] = NoMeta] /\ old' = [old EXCEPT ![w] = 0]
  /\ UNCHANGED <<image, caches, ret, waits, ghosts, errors>>

(* The request gives up the lock for good.  Completed says it was done.    *)
Leave(w, completed) ==
  /\ lock' = None /\ stack' = <<>>
  /\ pc' = [o \in Cos |-> IF o = w THEN "idle"
                          ELSE IF waits[o] = w THEN "enter" ELSE pc[o]]
  /\ waits' = [o \in Cos |-> IF waits[o] = w THEN None ELSE waits[o]]
  /\ req' = [req EXCEPT ![w] = NoRequest]
  /\ m' = [m EXCEPT ![w] = NoMeta] /\ old' = [old EXCEPT ![w] = 0]
  /\ latest' = [x \in Sectors |->
       IF completed /\ req[w].op = "write" /\ x \in Touches(w)
       THEN req[w].v ELSE latest[x]]
  /\ promise' = [x \in Sectors |->
       IF completed /\ writethrough /\ x \in Touches(w) /\ req[w].op = "write"
       THEN {v \in promise[x] : v >= req[w].v} ELSE promise[x]]
  /\ UNCHANGED <<image, caches, ret, count, crashes, errors>>

Fail(w) == Leave(w, FALSE)

-----------------------------------------------------------------------------
(* get_cluster_table: load the L2 table, or allocate one when the L1 entry *)
(* is empty or shared with a snapshot.                                     *)

Load(t) ==
  IF t = 0 \/ t \in DOMAIN l2 THEN l2
  ELSE [x \in DOMAIN l2 \cup {t} |->
         IF x = t THEN [i \in Half |-> file[Cell(t, i)]] ELSE l2[x]]

Free == {c \in Clusters : c >= free_cluster_index /\ refcount[c] = 0}

(* alloc_clusters_noref and update_refcount. The file grows as needed; the *)
(* model's has room for every request it makes.                            *)
AllocCluster(c) ==
  /\ c \in Free /\ \A d \in Free : c <= d
  /\ free_cluster_index' = c + 1
  /\ stack' = <<UpdateRefcount(c, 1)>> /\ ret' = TRUE

GetClusterTable(w) ==
  /\ Owns(w) /\ pc[w] = "table"
  /\ IF l1.flag = "copied"
     THEN /\ l2' = Load(l1.c)
          /\ \/ /\ req[w].op = "write" /\ Goto(w, "map")
                /\ stack' = PutFrames("l2", l1.c) /\ ret' = TRUE
             \/ /\ req[w].op = "discard" /\ Goto(w, "unmap")
                /\ UNCHANGED <<stack, ret>>
          /\ UNCHANGED <<m, free_cluster_index>>
     ELSE /\ \E c \in Clusters : AllocCluster(c) /\ m' = [m EXCEPT ![w].c = c]
          /\ Goto(w, "l2_flush_refcount")
          /\ UNCHANGED l2
  /\ UNCHANGED <<image, refcount, l1, dirty, depends, depends_on_flush, lock,
                 req, old, waits, ghosts, errors>>

L2FlushRefcount_Skipped(w) ==   \* fault: a new table is linked before its refcount
  /\ Owns(w) /\ pc[w] = "l2_flush_refcount" /\ ret /\ Goto(w, "l2_copy")
  /\ UNCHANGED <<image, caches, calls, req, m, old, waits, ghosts, errors>>

L2FlushRefcount(w) ==
  /\ Owns(w) /\ pc[w] = "l2_flush_refcount" /\ ret
  /\ stack' = <<CacheFlush("ref")>>
  /\ Goto(w, "l2_copy")
  /\ UNCHANGED <<image, caches, ret, lock, req, m, old, waits, ghosts, errors>>

L2Copy(w) ==
  /\ Owns(w) /\ pc[w] = "l2_copy" /\ ret
  /\ LET loaded == Load(l1.c)
         t == m[w].c IN
     /\ l2' = [x \in DOMAIN loaded \cup {t} |->
                 IF x # t THEN loaded[x]
                 ELSE IF l1.c = 0 THEN [i \in Half |-> Unallocated]
                 ELSE loaded[l1.c]]
     /\ dirty' = dirty \cup {<<"l2", t>>}
     /\ stack' = <<Frame("cache_flush", "l2", 0,
                         {d[2] : d \in {x \in dirty' : x[1] = "l2"}})>>
  /\ Goto(w, "l1_write")
  /\ UNCHANGED <<image, refcount, l1, depends, depends_on_flush,
                 free_cluster_index, ret, lock, req, m, old, waits, ghosts,
                 errors>>

WriteL1Entry(w) ==
  /\ Owns(w) /\ pc[w] = "l1_write" /\ ret
  /\ \/ /\ l1' = Entry(m[w].c, "copied")
        /\ Written([u \in {L1} |-> l1'])
        /\ old' = [old EXCEPT ![w] = l1.c]
        /\ Goto(w, "l1_sync") /\ UNCHANGED <<ret, errors>>
     \/ /\ Fails("table") /\ ret' = FALSE
        /\ UNCHANGED <<l1, file, lost, old, pc>>
  /\ UNCHANGED <<snap, writethrough, refcount, l2, dirty, depends,
                 depends_on_flush, free_cluster_index, stack, lock, req, m,
                 waits, ghosts>>

(* bdrv_pwrite_sync flushes unless the file is O_DSYNC, and ignores how    *)
(* that ends; then the old table loses a reference.                        *)
SyncL1Entry(w) ==
  /\ Owns(w) /\ pc[w] = "l1_sync"
  /\ \/ Flushed /\ UNCHANGED errors
     \/ ~ writethrough /\ Fails("flush") /\ UNCHANGED <<file, lost>>
  /\ stack' = IF old[w] = 0 THEN <<>> ELSE <<UpdateRefcount(old[w], -1)>>
  /\ old' = [old EXCEPT ![w] = 0]
  /\ Goto(w, "table")
  /\ UNCHANGED <<snap, writethrough, caches, ret, lock, req, m, waits, ghosts>>

(* The error paths: a cluster allocated meanwhile is leaked.               *)
L2AllocateFailed(w) ==
  /\ Owns(w) /\ ~ ret /\ pc[w] = "l1_write"
  /\ stack' = PutFrames("l2", m[w].c) /\ ret' = TRUE
  /\ Goto(w, "l2_put")
  /\ UNCHANGED <<image, caches, lock, req, m, old, waits, ghosts, errors>>

CallFailed(w) ==
  /\ Owns(w)
  /\ \/ pc[w] = "l2_put"
     \/ ~ ret /\ pc[w] \in {"l2_flush_refcount", "l2_copy", "map", "mapped",
                             "unlink", "flush_ref", "flush_file", "evict",
                             "unmapped"}
  /\ Fail(w)

-----------------------------------------------------------------------------
(* qcow2_co_writev.                                                        *)

L2Entry(w) == l2[l1.c][req[w].g]

SetL2Entry(w, e) ==
  /\ l2' = [Load(l1.c) EXCEPT ![l1.c][req[w].g] = e]
  /\ dirty' = dirty \cup {<<"l2", l1.c>>}

(* do_alloc_cluster_offset: a request in flight that allocates this        *)
(* cluster, or the one before it, comes first.                             *)
Conflicts(w) ==
  {o \in Cos : m[o].alloc /\ req[w].g \in {req[o].g, req[o].g + 1}}

AllocClusterOffset_InPlace(w) ==   \* fault: COPIED is not looked at
  /\ Owns(w) /\ pc[w] = "map" /\ ret
  /\ IF L2Entry(w).c # 0
     THEN /\ m' = [m EXCEPT ![w] = [alloc |-> FALSE, c |-> L2Entry(w).c]]
          /\ lock' = None /\ Goto(w, "data")
          /\ UNCHANGED <<free_cluster_index, stack, ret>>
     ELSE /\ \E c \in Clusters : AllocCluster(c) /\ m' = [m EXCEPT ![w].c = c]
          /\ Goto(w, "mapped") /\ UNCHANGED lock
  /\ UNCHANGED <<image, refcount, l2, l1, dirty, depends, depends_on_flush,
                 req, old, waits, ghosts, errors>>

AllocClusterOffset(w) ==
  /\ Owns(w) /\ pc[w] = "map" /\ ret
  /\ LET e == L2Entry(w) IN
     \/ /\ e.flag = "copied"
        /\ m' = [m EXCEPT ![w] = [alloc |-> FALSE, c |-> e.c]]
        /\ lock' = None /\ Goto(w, "data")
        /\ UNCHANGED <<waits, free_cluster_index, stack, ret>>
     \/ /\ e.flag # "copied" /\ Conflicts(w) # {}
        /\ \E o \in Conflicts(w) : waits' = [waits EXCEPT ![w] = o]
        /\ m' = [m EXCEPT ![w] = NoMeta]
        /\ lock' = None /\ Goto(w, "waiting")
        /\ UNCHANGED <<free_cluster_index, stack, ret>>
     \/ /\ e.flag # "copied" /\ Conflicts(w) = {}
        /\ \E c \in Clusters :
             AllocCluster(c) /\ m' = [m EXCEPT ![w] = [alloc |-> FALSE, c |-> c]]
        /\ Goto(w, "mapped") /\ UNCHANGED <<waits, lock>>
  /\ UNCHANGED <<image, refcount, l2, l1, dirty, depends, depends_on_flush,
                 req, old, ghosts, errors>>

InsertInFlight(w) ==
  /\ Owns(w) /\ pc[w] = "mapped" /\ ret
  /\ m' = [m EXCEPT ![w].alloc = TRUE]
  /\ lock' = None /\ Goto(w, "data")
  /\ UNCHANGED <<image, caches, stack, ret, req, old, waits, ghosts, errors>>

(* The transfer of the guest's data, without the lock.                     *)
WriteData(w) ==
  /\ pc[w] = "data"
  /\ \/ /\ Written([u \in {Cell(m[w].c, h) : h \in req[w].halves} |->
                      Data(req[w].v)])
        /\ Goto(w, "wrote") /\ UNCHANGED errors
     \/ Fails("data") /\ Goto(w, "failed") /\ UNCHANGED <<file, lost>>
  /\ UNCHANGED <<snap, writethrough, caches, calls, req, m, old, waits, ghosts>>

NeedsCow(w) == m[w].alloc /\ req[w].halves # Half

Relock(w) ==
  /\ pc[w] \in {"wrote", "copied", "failed"} /\ lock = None
  /\ \/ /\ pc[w] = "failed" /\ Fail(w)
     \/ /\ pc[w] = "wrote" /\ ~ m[w].alloc /\ Leave(w, TRUE)
     \/ /\ pc[w] = "wrote" /\ NeedsCow(w)        \* unlocks again
        /\ Goto(w, "copy")
        /\ UNCHANGED <<image, caches, calls, req, m, old, waits, ghosts, errors>>
     \/ /\ m[w].alloc /\ (NeedsCow(w) => pc[w] = "copied") /\ pc[w] # "failed"
        /\ lock' = w /\ stack' = <<SetDependency("l2")>> /\ ret' = TRUE
        /\ depends_on_flush' =
             [depends_on_flush EXCEPT !["l2"] = @ \/ pc[w] = "copied"]
        /\ Goto(w, "link")
        /\ UNCHANGED <<image, refcount, l2, l1, dirty, depends,
                       free_cluster_index, req, m, old, waits, ghosts, errors>>

(* copy_sectors: the sectors of the cluster the guest did not write come   *)
(* from where the guest reads them now.                                    *)
Entries(t) == IF t \in DOMAIN l2 THEN l2[t] ELSE [i \in Half |-> file[Cell(t, i)]]

CopySectors(w) ==
  /\ pc[w] = "copy" /\ lock = None
  /\ LET e == Entries(l1.c)[req[w].g]
         from(h) == IF e.c = 0 THEN Data(0) ELSE file[Cell(e.c, h)]
         rest == Half \ req[w].halves
     IN \/ /\ Written([u \in {Cell(m[w].c, h) : h \in rest} |-> from(u[3])])
           /\ Goto(w, "copied") /\ UNCHANGED errors
        \/ Fails("data") /\ Goto(w, "failed") /\ UNCHANGED <<file, lost>>
  /\ UNCHANGED <<snap, writethrough, caches, calls, req, m, old, waits, ghosts>>

(* qcow2_alloc_cluster_link_l2, which ignores what                         *)
(* qcow2_cache_set_dependency returned.                                    *)
LinkL2(w) ==
  /\ Owns(w) /\ pc[w] = "link"
  /\ old' = [old EXCEPT ![w] = Entries(l1.c)[req[w].g].c]
  /\ SetL2Entry(w, Entry(m[w].c, "copied"))
  /\ stack' = PutFrames("l2", l1.c) /\ ret' = TRUE
  /\ Goto(w, "unlink")
  /\ UNCHANGED <<image, refcount, l1, depends, depends_on_flush,
                 free_cluster_index, lock, req, m, waits, ghosts, errors>>

FreeOld_Leaks(w) ==   \* fault: the old cluster keeps its refcount
  /\ Owns(w) /\ pc[w] = "unlink" /\ ret /\ Goto(w, "done")
  /\ UNCHANGED <<image, caches, calls, req, m, old, waits, ghosts, errors>>

FreeOld(w) ==
  /\ Owns(w) /\ pc[w] = "unlink" /\ ret
  /\ stack' = IF old[w] = 0 THEN <<>> ELSE <<UpdateRefcount(old[w], -1)>>
  /\ Goto(w, "done")
  /\ UNCHANGED <<image, caches, ret, lock, req, m, old, waits, ghosts, errors>>

Done(w) ==
  /\ Owns(w) /\ pc[w] = "done" /\ Leave(w, TRUE)

-----------------------------------------------------------------------------
(* discard_single_l2; qcow2_co_flush_to_os and the flush of the file; and  *)
(* a read elsewhere on the disk, which makes a cache replace an entry.     *)

Unmap_EntryKept(w) ==   \* fault: the entry is left in the table
  /\ Owns(w) /\ pc[w] = "unmap" /\ Goto(w, "unmap_put")
  /\ stack' = IF L2Entry(w).c = 0 THEN <<>>
              ELSE <<UpdateRefcount(L2Entry(w).c, -1)>>
  /\ UNCHANGED <<image, caches, ret, lock, req, m, old, waits, ghosts, errors>>

Unmap(w) ==
  /\ Owns(w) /\ pc[w] = "unmap"
  /\ LET e == L2Entry(w) IN
     IF e.c = 0 THEN Goto(w, "unmap_put") /\ UNCHANGED <<l2, dirty, stack>>
     ELSE /\ SetL2Entry(w, Unallocated)
          /\ stack' = <<UpdateRefcount(e.c, -1)>>
          /\ Goto(w, "unmap_put")
  /\ UNCHANGED <<image, refcount, l1, depends, depends_on_flush,
                 free_cluster_index, ret, lock, req, m, old, waits, ghosts,
                 errors>>

UnmapPut(w) ==
  /\ Owns(w)
  /\ \/ /\ pc[w] = "unmap_put" /\ stack' = PutFrames("l2", l1.c) /\ ret' = TRUE
        /\ Goto(w, "unmapped")
     \/ pc[w] = "unmapped" /\ ret /\ Goto(w, "done") /\ UNCHANGED <<stack, ret>>
  /\ UNCHANGED <<image, caches, lock, req, m, old, waits, ghosts, errors>>

FlushToOs(w) ==
  /\ Owns(w)
  /\ \/ /\ pc[w] = "flush_l2" /\ stack' = <<CacheFlush("l2")>> /\ ret' = TRUE
        /\ Goto(w, "flush_ref") /\ UNCHANGED lock
     \/ /\ pc[w] = "flush_ref" /\ ret /\ stack' = <<CacheFlush("ref")>>
        /\ Goto(w, "flush_file") /\ UNCHANGED <<lock, ret>>
     \/ /\ pc[w] = "flush_file" /\ ret /\ lock' = None
        /\ Goto(w, "flush_disk") /\ UNCHANGED <<stack, ret>>
  /\ UNCHANGED <<image, caches, req, m, old, waits, ghosts, errors>>

(* What was written before the flush was asked for is now safe.            *)
FlushDisk(w) ==
  /\ pc[w] = "flush_disk"
  /\ \/ /\ Flushed /\ UNCHANGED errors
        /\ promise' = [x \in Sectors |->
                         {v \in promise[x] : v >= req[w].floor[x]}]
     \/ Fails("flush") /\ UNCHANGED <<file, lost, promise>>
  /\ Goto(w, "idle") /\ req' = [req EXCEPT ![w] = NoRequest]
  /\ UNCHANGED <<snap, writethrough, caches, calls, m, old, waits, latest,
                 count, crashes>>

Replace(w) ==
  /\ Owns(w)
  /\ \/ /\ pc[w] = "get"
        /\ \E k \in Caches, e \in {0} \cup DOMAIN l2 :
             /\ (k = "ref") <=> (e = 0)
             /\ stack' = <<EntryFlush(k, e)>> /\ old' = [old EXCEPT ![w] = e]
        /\ ret' = TRUE /\ Goto(w, "evict") /\ UNCHANGED l2
     \/ /\ pc[w] = "evict" /\ ret
        /\ l2' = [t \in DOMAIN l2 \ {old[w]} |-> l2[t]]
        /\ Goto(w, "done") /\ UNCHANGED <<stack, ret, old>>
  /\ UNCHANGED <<image, refcount, l1, dirty, depends, depends_on_flush,
                 free_cluster_index, lock, req, m, waits, ghosts, errors>>

Progress(w) ==
  \/ Enter(w) \/ L2AllocateFailed(w) \/ CallFailed(w)
  \/ GetClusterTable(w) \/ L2FlushRefcount(w) \/ L2Copy(w)
  \/ WriteL1Entry(w) \/ SyncL1Entry(w)
  \/ AllocClusterOffset(w) \/ InsertInFlight(w) \/ WriteData(w) \/ Relock(w)
  \/ CopySectors(w) \/ LinkL2(w) \/ FreeOld(w) \/ Done(w)
  \/ Unmap(w) \/ UnmapPut(w) \/ FlushToOs(w) \/ FlushDisk(w) \/ Replace(w)

-----------------------------------------------------------------------------
(* A crash of the host leaves, in every entry and sector by itself, what   *)
(* was written last or something it was since the last flush.              *)

Pending == {u \in Units : lost[u] # {}}

CrashImages ==
  MapThenFoldSet(
    LAMBDA choice, images : {[f EXCEPT ![choice[1]] = v] :
                               f \in images, v \in choice[2]},
    {file}, LAMBDA u : <<u, lost[u] \cup {file[u]}>>,
    LAMBDA s : CHOOSE u \in s : TRUE, Pending)

Refer(img, t, c) ==     \* how many entries of table t refer to c
  IF t = 0 THEN 0
  ELSE Cardinality({i \in Half : IsEntry(img[Cell(t, i)])
                                  /\ img[Cell(t, i)].c = c})

References(img, c) ==
  (IF img[L1].c = c THEN 1 ELSE 0) + (IF snap = c THEN 1 ELSE 0)
    + Refer(img, img[L1].c, c) + Refer(img, snap, c)

(* What reading sector h of guest cluster g through table t returns; -1    *)
(* when it is a table's contents.                                          *)
Reads(img, t, g, h) ==
  IF t = 0 THEN 0
  ELSE LET e == img[Cell(t, g)] IN
       IF ~ IsEntry(e) THEN -1 ELSE IF e.c = 0 THEN 0
       ELSE IF IsEntry(img[Cell(e.c, h)]) THEN -1 ELSE img[Cell(e.c, h)].v

Crash ==
  /\ crashes < MaxCrashes /\ crashes' = crashes + 1
  /\ file' \in CrashImages /\ lost' = [u \in Units |-> {}]
  /\ refcount' = [c \in Clusters |-> file'[Ref(c)]] /\ l1' = file'[L1]
  /\ l2' = <<>> /\ dirty' = {} /\ free_cluster_index' = 1
  /\ depends' = NoDepends /\ depends_on_flush' = NoDependsOnFlush
  /\ lock' = None /\ stack' = <<>> /\ ret' = TRUE
  /\ pc' = [w \in Cos |-> "idle"] /\ req' = [w \in Cos |-> NoRequest]
  /\ m' = [w \in Cos |-> NoMeta] /\ old' = [w \in Cos |-> 0]
  /\ waits' = [w \in Cos |-> None]
  /\ latest' = [x \in Sectors |-> Reads(file', file'[L1].c, x[1], x[2])]
  /\ promise' = [x \in Sectors |-> {latest'[x]}]
  /\ UNCHANGED <<snap, writethrough, count, errors>>

Next ==
  CallStep \/ (\E w \in Cos : SubmitAny(w) \/ Progress(w)) \/ Crash

Spec == Init /\ [][Next]_vars

-----------------------------------------------------------------------------
(* Properties.                                                             *)

TypeOK ==
  /\ DOMAIN file = Units /\ DOMAIN lost = Units
  /\ refcount \in [Clusters -> Nat] /\ free_cluster_index \in Nat \ {0}
  /\ DOMAIN l2 \subseteq Clusters
  /\ dirty \subseteq {<<"ref", 0>>} \cup {<<"l2", t>> : t \in DOMAIN l2}
  /\ depends \in [Caches -> Caches \cup {None}]
  /\ depends_on_flush \in [Caches -> BOOLEAN]
  /\ lock \in Cos \cup {None} /\ ret \in BOOLEAN
  /\ stack # <<>> => lock # None
  /\ waits \in [Cos -> Cos \cup {None}]
  /\ promise \in [Sectors -> SUBSET Values] /\ latest \in [Sectors -> Values]

(* Whatever a crash leaves of the file, every cluster a table refers to is *)
(* counted as often as it is referred to: the process that opens the image *)
(* next does not give a cluster in use to somebody else.                   *)
RefcountsCover ==
  \A img \in CrashImages : \A c \in Clusters :
    img[Ref(c)] >= References(img, c)

(* Whatever a crash leaves, a cluster with the flag COPIED, which the      *)
(* guest's next write changes in place, belongs to nobody else.            *)
CopiedIsPrivate ==
  \A img \in CrashImages :
    LET entries == {img[L1]} \cup
          (IF img[L1].c = 0 THEN {} ELSE {img[Cell(img[L1].c, i)] : i \in Half})
    IN \A e \in entries : IsEntry(e) /\ e.flag = "copied" =>
                            References(img, e.c) = 1

(* So whoever opens the image next neither gives away nor overwrites a     *)
(* cluster that something else still refers to.                            *)
NoClusterShared == RefcountsCover /\ CopiedIsPrivate

(* Whatever a crash leaves, a sector reads as the last write the guest     *)
(* flushed, or as one it made later.                                       *)
FlushedSurvives ==
  \A img \in CrashImages : \A x \in Sectors :
    Reads(img, img[L1].c, x[1], x[2]) \in promise[x]

(* Whatever a crash leaves, the snapshot reads as when it was taken.       *)
SnapshotIntact ==
  snap # 0 =>
    \A img \in CrashImages : \A x \in Sectors :
      Reads(img, snap, x[1], x[2]) = IF x[1] = 0 THEN 1 ELSE 0

(* The caches never wait for each other: writing an entry would recurse    *)
(* for ever.                                                               *)
NoDependencyCycle == depends["l2"] = None \/ depends["ref"] = None

(* Once no request is under way, and nothing failed or crashed, every      *)
(* cluster is counted exactly as often as the tables in memory refer to it *)
(* and every table refers to what the guest reads: nothing has leaked.     *)
NothingLeaked ==
  (\A w \in Cos : pc[w] = "idle") /\ crashes = 0 /\ errors = 0 =>
    LET img == [u \in Units |->
          IF u = L1 THEN l1
          ELSE IF u[1] = "cell" /\ u[2] \in DOMAIN l2 THEN l2[u[2]][u[3]]
          ELSE file[u]]
    IN \A c \in Clusters : refcount[c] = References(img, c)

(* A coroutine that waits for other requests is woken: it is in the queue  *)
(* of an allocation in flight, which goes on by itself, so that            *)
(* coroutines never wait in a circle or for a request that has gone.       *)
WaitersAreWoken ==
  \A w \in Cos : pc[w] = "waiting" =>
    LET o == waits[w] IN
    /\ o # None /\ m[o].alloc
    /\ \/ pc[o] \in {"data", "wrote", "copy", "copied", "failed"}
       \/ lock = o /\ pc[o] \in {"link", "unlink", "done"}

=============================================================================
