---------------------------- MODULE Qcow2_proofs ----------------------------
(***************************************************************************)
(* Proofs about Qcow2, for any number of coroutines, clusters, requests,   *)
(* errors and crashes: requests that wait are woken, and the two caches    *)
(* never depend on each other.                                             *)
(***************************************************************************)
EXTENDS Qcow2, SequenceTheorems, TLAPS

(* The places in which a request owns the lock, and the others.            *)
Locked == {"table", "l2_flush_refcount", "l2_copy", "l1_write", "l1_sync",
           "l2_put", "map", "mapped", "link", "unlink", "done", "unmap",
           "unmap_put", "unmapped", "flush_l2", "flush_ref", "flush_file",
           "get", "evict"}
Unlocked == {"idle", "enter", "data", "wrote", "copy", "copied", "failed",
             "waiting", "flush_disk"}

(* The places of a request whose allocation is in flight.                  *)
InFlight == {"data", "wrote", "copy", "copied", "failed", "link", "unlink", "done"}

-----------------------------------------------------------------------------
(* Waiting requests.                                                       *)

PlacesType ==
  /\ pc \in [Cos -> Locked \cup Unlocked]
  /\ waits \in [Cos -> Cos \cup {None}]
  /\ lock \in Cos \cup {None}
  /\ \E V : m \in [Cos -> [alloc : BOOLEAN, c : V]]

(* The owner of the lock, and nobody else, is where one owns it.           *)
LockPlaces == \A w \in Cos : lock = w <=> pc[w] \in Locked

(* An allocation stays in flight until its request leaves.                 *)
AllocPlaces == \A w \in Cos : m[w].alloc => pc[w] \in InFlight

(* Whoever waits, waits for an allocation in flight; the others for none.  *)
WaitsForAlloc ==
  \A w \in Cos : IF pc[w] = "waiting" THEN waits[w] \in Cos /\ m[waits[w]].alloc
                ELSE waits[w] = None

WaitInv == PlacesType /\ LockPlaces /\ AllocPlaces /\ WaitsForAlloc

LEMMA WaitInvEnough == WaitInv => WaitersAreWoken
<1> SUFFICES ASSUME WaitInv, NEW w \in Cos, pc[w] = "waiting"
             PROVE  LET o == waits[w] IN
                    /\ o # None /\ m[o].alloc
                    /\ \/ pc[o] \in {"data", "wrote", "copy", "copied", "failed"}
                       \/ lock = o /\ pc[o] \in {"link", "unlink", "done"}
  BY DEF WaitersAreWoken
<1>1. waits[w] \in Cos /\ m[waits[w]].alloc
  BY DEF WaitInv, WaitsForAlloc
<1>2. waits[w] # None
  BY <1>1, QcowAssumption
<1>3. pc[waits[w]] \in InFlight
  BY <1>1 DEF WaitInv, AllocPlaces
<1>4. pc[waits[w]] \in Locked => lock = waits[w]
  BY <1>1 DEF WaitInv, LockPlaces
<1>5. QED BY <1>1, <1>2, <1>3, <1>4 DEF InFlight, Locked

LEMMA WaitInit == Init => WaitInv
<1> SUFFICES ASSUME Init PROVE WaitInv
  OBVIOUS
<1>1. /\ pc = [w \in Cos |-> "idle"] /\ waits = [w \in Cos |-> None]
      /\ lock = None /\ m = [w \in Cos |-> NoMeta]
  BY DEF Init
<1>2. m \in [Cos -> [alloc : BOOLEAN, c : {0}]] /\ \A w \in Cos : ~ m[w].alloc
  BY <1>1 DEF NoMeta
<1>3. PlacesType
  BY <1>1, <1>2 DEF PlacesType, Unlocked
<1>4. QED
  BY <1>1, <1>2, <1>3, QcowAssumption
  DEF WaitInv, LockPlaces, AllocPlaces, WaitsForAlloc, Locked

(* A request moves between places without the lock or between places with  *)
(* it, and its allocation is what it was.                                  *)
LEMMA Moved ==
  ASSUME WaitInv, NEW w \in Cos, NEW l \in Locked \cup Unlocked,
         pc' = [pc EXCEPT ![w] = l], UNCHANGED <<m, waits, lock>>,
         pc[w] \in Locked <=> l \in Locked,
         pc[w] \in InFlight => l \in InFlight, "waiting" \notin {l, pc[w]}
  PROVE  WaitInv'
<1>1. pc \in [Cos -> Locked \cup Unlocked]
  BY DEF WaitInv, PlacesType
<1>2. PlacesType'
  BY <1>1 DEF WaitInv, PlacesType
<1>3. LockPlaces'
  BY <1>1 DEF WaitInv, LockPlaces
<1>4. AllocPlaces' /\ WaitsForAlloc'
  BY <1>1 DEF WaitInv, AllocPlaces, WaitsForAlloc
<1>5. QED BY <1>2, <1>3, <1>4 DEF WaitInv

(* The same where m[w] may change, by a request that allocates nothing yet.*)
LEMMA Changed ==
  ASSUME WaitInv, NEW w \in Cos, NEW l \in Locked \cup Unlocked,
         pc[w] \notin InFlight,
         NEW r, DOMAIN r = {"alloc", "c"}, r.alloc \in BOOLEAN,
         r = [alloc |-> r.alloc, c |-> r.c],
         r.alloc => l \in InFlight,
         pc' = [pc EXCEPT ![w] = l], m' = [m EXCEPT ![w] = r],
         lock \in {w, None}, lock' = IF l \in Locked THEN w ELSE None,
         UNCHANGED waits, "waiting" \notin {l, pc[w]}
  PROVE  WaitInv'
<1>1. pc \in [Cos -> Locked \cup Unlocked] /\ ~ m[w].alloc
  BY DEF WaitInv, PlacesType, AllocPlaces
<1>2. PICK V : m \in [Cos -> [alloc : BOOLEAN, c : V]]
  BY DEF WaitInv, PlacesType
<1>3. m' \in [Cos -> [alloc : BOOLEAN, c : V \cup {r.c}]]
  <2>1. \A x \in [alloc : BOOLEAN, c : V] : x \in [alloc : BOOLEAN, c : V \cup {r.c}]
    OBVIOUS
  <2>2. r \in [alloc : BOOLEAN, c : V \cup {r.c}]
    OBVIOUS
  <2>3. QED BY <1>2, <2>1, <2>2
<1>4. PlacesType'
  BY <1>1, <1>3, QcowAssumption DEF WaitInv, PlacesType
<1>5. \A o \in Cos : o # w => pc'[o] = pc[o] /\ m'[o] = m[o]
  BY <1>1, <1>2
<1>6. pc'[w] = l /\ m'[w] = r
  BY <1>1, <1>2
<1>7. LockPlaces'
  BY <1>1, <1>5, <1>6, QcowAssumption DEF WaitInv, LockPlaces
<1>8. AllocPlaces'
  BY <1>5, <1>6 DEF WaitInv, AllocPlaces
<1>9. WaitsForAlloc'
  BY <1>1, <1>5, <1>6 DEF WaitInv, WaitsForAlloc
<1>10. QED BY <1>4, <1>7, <1>8, <1>9 DEF WaitInv

(* Whoever leaves wakes those that wait for it.                            *)
LEMMA Left ==
  ASSUME WaitInv, NEW w \in Cos, NEW done \in BOOLEAN, Leave(w, done),
         lock \in {w, None}, pc[w] # "waiting"
  PROVE  WaitInv'
<1>0. pc[w] # "waiting"
  OBVIOUS
<1>1. PICK V : m \in [Cos -> [alloc : BOOLEAN, c : V]]
  BY DEF WaitInv, PlacesType
<1>2. /\ pc \in [Cos -> Locked \cup Unlocked] /\ waits \in [Cos -> Cos \cup {None}]
  BY DEF WaitInv, PlacesType
<1>3. /\ lock' = None /\ m' = [m EXCEPT ![w] = NoMeta]
      /\ pc' = [o \in Cos |-> IF o = w THEN "idle"
                              ELSE IF waits[o] = w THEN "enter" ELSE pc[o]]
      /\ waits' = [o \in Cos |-> IF waits[o] = w THEN None ELSE waits[o]]
  BY DEF Leave
<1>4. m' \in [Cos -> [alloc : BOOLEAN, c : V \cup {0}]]
  <2>1. \A x \in [alloc : BOOLEAN, c : V] : x \in [alloc : BOOLEAN, c : V \cup {0}]
    OBVIOUS
  <2>2. NoMeta \in [alloc : BOOLEAN, c : V \cup {0}]
    BY DEF NoMeta
  <2>3. QED BY <1>1, <1>3, <2>1, <2>2
<1>5. PlacesType'
  BY <1>2, <1>3, <1>4 DEF PlacesType, Unlocked
<1>6. m'[w].alloc = FALSE /\ \A o \in Cos : o # w => m'[o] = m[o]
  BY <1>1, <1>3 DEF NoMeta
<1>7. \A o \in Cos : pc'[o] = pc[o] \/ pc'[o] \in {"idle", "enter"}
  BY <1>2, <1>3
<1>8. LockPlaces'
  <2>1. \A o \in Cos : o # w => pc[o] \notin Locked
    BY QcowAssumption DEF WaitInv, LockPlaces
  <2>2. QED BY <1>3, <1>7, <2>1, QcowAssumption DEF LockPlaces, Locked
<1>9. AllocPlaces'
  <2> SUFFICES ASSUME NEW o \in Cos, m'[o].alloc PROVE pc'[o] \in InFlight
    BY DEF AllocPlaces
  <2>1. o # w /\ m[o].alloc
    BY <1>6
  <2>2. pc[o] \in InFlight /\ pc[o] # "waiting"
    BY <2>1 DEF WaitInv, AllocPlaces, InFlight
  <2>3. waits[o] # w
    BY <2>2, QcowAssumption DEF WaitInv, WaitsForAlloc
  <2>4. QED BY <1>3, <2>1, <2>2, <2>3
<1>10. WaitsForAlloc'
  <2>0. \A o \in Cos : pc'[o] # "waiting" => waits'[o] = None
    <3>1. pc[w] # "waiting"
      BY <1>0
    <3>2. QED BY <1>3, <3>1 DEF WaitInv, WaitsForAlloc
  <2> SUFFICES ASSUME NEW o \in Cos, pc'[o] = "waiting"
               PROVE  waits'[o] \in Cos /\ m'[waits'[o]].alloc
    BY <2>0 DEF WaitsForAlloc
  <2>1. o # w /\ waits[o] # w /\ pc[o] = "waiting" /\ waits'[o] = waits[o]
    BY <1>3
  <2>2. waits[o] \in Cos /\ m[waits[o]].alloc
    BY <2>1 DEF WaitInv, WaitsForAlloc
  <2>3. QED BY <1>6, <2>1, <2>2
<1>11. QED BY <1>5, <1>8, <1>9, <1>10 DEF WaitInv

(* A request that finds its cluster being allocated joins the queue.       *)
LEMMA Queued ==
  ASSUME WaitInv, NEW w \in Cos, lock = w, pc[w] \notin InFlight,
         NEW o \in Cos, m[o].alloc,
         waits' = [waits EXCEPT ![w] = o], m' = [m EXCEPT ![w] = NoMeta],
         lock' = None, pc' = [pc EXCEPT ![w] = "waiting"]
  PROVE  WaitInv'
<1>1. PICK V : m \in [Cos -> [alloc : BOOLEAN, c : V]]
  BY DEF WaitInv, PlacesType
<1>2. /\ pc \in [Cos -> Locked \cup Unlocked] /\ waits \in [Cos -> Cos \cup {None}]
  BY DEF WaitInv, PlacesType
<1>3. m' \in [Cos -> [alloc : BOOLEAN, c : V \cup {0}]]
  <2>1. \A x \in [alloc : BOOLEAN, c : V] : x \in [alloc : BOOLEAN, c : V \cup {0}]
    OBVIOUS
  <2>2. NoMeta \in [alloc : BOOLEAN, c : V \cup {0}]
    BY DEF NoMeta
  <2>3. QED BY <1>1, <2>1, <2>2
<1>4. PlacesType'
  BY <1>2, <1>3 DEF PlacesType, Unlocked
<1>5. ~ m[w].alloc /\ o # w
  BY DEF WaitInv, AllocPlaces
<1>6. m'[w].alloc = FALSE /\ \A x \in Cos : x # w => m'[x] = m[x]
  BY <1>1 DEF NoMeta
<1>7. LockPlaces'
  BY <1>2, QcowAssumption DEF WaitInv, LockPlaces, Locked
<1>8. AllocPlaces'
  BY <1>2, <1>6 DEF WaitInv, AllocPlaces
<1>9. WaitsForAlloc'
  BY <1>2, <1>5, <1>6 DEF WaitInv, WaitsForAlloc
<1>10. QED BY <1>4, <1>7, <1>8, <1>9 DEF WaitInv

(* Every step of a request is one of these.                                *)
LEMMA WaitStep ==
  ASSUME WaitInv, NEW w \in Cos, Progress(w)
  PROVE  WaitInv'
<1> USE DEF calls, requests, Goto
<1>0. /\ PlacesType /\ LockPlaces /\ AllocPlaces
      /\ pc[w] \in Locked \cup Unlocked
      /\ (pc[w] \notin Locked => lock # w)
      /\ (m[w].alloc => pc[w] \in InFlight)
  BY DEF WaitInv, PlacesType, LockPlaces, AllocPlaces
<1>1. PICK V : m \in [Cos -> [alloc : BOOLEAN, c : V]]
  BY <1>0 DEF PlacesType
<1>m. /\ m[w] \in [alloc : BOOLEAN, c : V]
      /\ DOMAIN m[w] = {"alloc", "c"} /\ m[w] = [alloc |-> m[w].alloc, c |-> m[w].c]
      /\ m[w].alloc \in BOOLEAN /\ m = [m EXCEPT ![w] = m[w]]
  BY <1>1
<1>2. CASE Enter(w)
  <2>1. PICK l \in {"table", "flush_l2", "get"} : pc' = [pc EXCEPT ![w] = l]
    BY <1>2 DEF Enter
  <2>2. l \in Locked /\ pc[w] = "enter" /\ lock = None /\ lock' = w
        /\ UNCHANGED <<m, waits>>
    BY <1>2, <2>1 DEF Enter, Locked
  <2>3. pc[w] \notin InFlight /\ ~ m[w].alloc
    BY <1>0, <2>2 DEF InFlight
  <2>4. QED BY <1>m, <2>1, <2>2, <2>3, Changed
<1>3. CASE CallFailed(w) \/ Done(w)
  <2>1. PICK done \in BOOLEAN : Leave(w, done)
    BY <1>3 DEF CallFailed, Done, Fail
  <2>2. lock = w /\ pc[w] # "waiting"
    BY <1>3 DEF CallFailed, Done, Owns
  <2>3. QED BY <2>1, <2>2, Left
<1>4. CASE GetClusterTable(w)
  <2>1. lock = w /\ lock' = w /\ pc[w] = "table" /\ UNCHANGED waits
    BY <1>4 DEF GetClusterTable, Owns
  <2>2. PICK l \in {"map", "unmap", "l2_flush_refcount"} : pc' = [pc EXCEPT ![w] = l]
    BY <1>4 DEF GetClusterTable
  <2>3. pc[w] \notin InFlight /\ ~ m[w].alloc /\ l \in Locked
    BY <1>0, <2>1 DEF InFlight, Locked
  <2>4. CASE UNCHANGED m
    BY <1>m, <2>1, <2>2, <2>3, <2>4, Changed
  <2>5. CASE \E c \in Clusters : m' = [m EXCEPT ![w].c = c]
    <3>1. PICK c \in Clusters : m' = [m EXCEPT ![w].c = c]
      BY <2>5
    <3>2. m' = [m EXCEPT ![w] = [alloc |-> m[w].alloc, c |-> c]]
      <4>1. m' = [m EXCEPT ![w] = [m[w] EXCEPT !.c = c]]
        BY <3>1
      <4>2. [m[w] EXCEPT !.c = c] = [alloc |-> m[w].alloc, c |-> c]
        BY <1>m
      <4>3. QED BY <4>1, <4>2
    <3>3. QED BY <1>m, <2>1, <2>2, <2>3, <3>2, Changed
  <2>6. QED BY <1>4, <2>4, <2>5 DEF GetClusterTable
<1>5. CASE \/ L2AllocateFailed(w) \/ L2FlushRefcount(w) \/ L2Copy(w)
           \/ SyncL1Entry(w) \/ Unmap(w) \/ UnmapPut(w) \/ Replace(w)
           \/ LinkL2(w) \/ FreeOld(w)
  <2>1. PICK l \in Locked : pc' = [pc EXCEPT ![w] = l]
                          /\ (pc[w] \in InFlight => l \in InFlight) /\ l # "waiting"
    BY <1>5
    DEF L2AllocateFailed, L2FlushRefcount, L2Copy, SyncL1Entry, Unmap, UnmapPut,
        Replace, LinkL2, FreeOld, Locked, InFlight
  <2>2. lock = w /\ UNCHANGED <<m, waits, lock>>
    BY <1>5
    DEF L2AllocateFailed, L2FlushRefcount, L2Copy, SyncL1Entry, Unmap, UnmapPut,
        Replace, LinkL2, FreeOld, Owns
  <2>3. pc[w] \in Locked /\ pc[w] # "waiting"
    BY <2>2 DEF WaitInv, LockPlaces, Locked
  <2>4. QED BY <2>1, <2>2, <2>3, Moved
<1>6. CASE WriteL1Entry(w)
  <2>1. PICK l \in {"l1_sync", "l1_write"} : pc' = [pc EXCEPT ![w] = l]
    BY <1>0, <1>6 DEF WriteL1Entry, PlacesType
  <2>2. pc[w] = "l1_write" /\ UNCHANGED <<m, waits, lock>>
    BY <1>6 DEF WriteL1Entry
  <2>3. QED BY <2>1, <2>2, Moved DEF Locked, Unlocked, InFlight
<1>7. CASE AllocClusterOffset(w)
  <2>1. lock = w /\ pc[w] = "map" /\ pc[w] \notin InFlight
    BY <1>7 DEF AllocClusterOffset, Owns, InFlight
  <2>2. CASE \E c : /\ m' = [m EXCEPT ![w] = [alloc |-> FALSE, c |-> c]]
                    /\ lock' = None /\ pc' = [pc EXCEPT ![w] = "data"]
                    /\ UNCHANGED waits
    <3>1. PICK c : /\ m' = [m EXCEPT ![w] = [alloc |-> FALSE, c |-> c]]
                   /\ lock' = None /\ pc' = [pc EXCEPT ![w] = "data"]
                   /\ UNCHANGED waits
      BY <2>2
    <3>2. QED BY <2>1, <3>1, Changed DEF Locked, Unlocked
  <2>3. CASE \E o \in Conflicts(w) :
               /\ waits' = [waits EXCEPT ![w] = o] /\ m' = [m EXCEPT ![w] = NoMeta]
               /\ lock' = None /\ pc' = [pc EXCEPT ![w] = "waiting"]
    BY <2>1, <2>3, Queued DEF Conflicts
  <2>4. CASE \E c : /\ m' = [m EXCEPT ![w] = [alloc |-> FALSE, c |-> c]]
                    /\ pc' = [pc EXCEPT ![w] = "mapped"] /\ UNCHANGED <<waits, lock>>
    <3>1. PICK c : /\ m' = [m EXCEPT ![w] = [alloc |-> FALSE, c |-> c]]
                   /\ pc' = [pc EXCEPT ![w] = "mapped"] /\ UNCHANGED <<waits, lock>>
      BY <2>4
    <3>2. QED BY <2>1, <3>1, Changed DEF Locked
  <2>5. QED BY <1>7, <2>2, <2>3, <2>4 DEF AllocClusterOffset
<1>8. CASE InsertInFlight(w)
  <2>1. /\ lock = w /\ pc[w] = "mapped" /\ lock' = None /\ UNCHANGED waits
        /\ pc' = [pc EXCEPT ![w] = "data"] /\ m' = [m EXCEPT ![w].alloc = TRUE]
    BY <1>8 DEF InsertInFlight, Owns
  <2>2. m' = [m EXCEPT ![w] = [alloc |-> TRUE, c |-> m[w].c]]
    <3>1. m' = [m EXCEPT ![w] = [m[w] EXCEPT !.alloc = TRUE]]
      BY <2>1
    <3>2. [m[w] EXCEPT !.alloc = TRUE] = [alloc |-> TRUE, c |-> m[w].c]
      <4>1. ASSUME NEW a, NEW c, NEW b
            PROVE  [[alloc |-> a, c |-> c] EXCEPT !.alloc = b] = [alloc |-> b, c |-> c]
        OBVIOUS
      <4> DEFINE r == [alloc |-> m[w].alloc, c |-> m[w].c]
      <4>2. [r EXCEPT !.alloc = TRUE] = [alloc |-> TRUE, c |-> m[w].c]
        BY <4>1
      <4>3. r = m[w]
        BY <1>m
      <4> HIDE DEF r
      <4>4. QED BY <4>2, <4>3
    <3>3. QED BY <3>1, <3>2
  <2>3. pc[w] \notin InFlight
    BY <2>1 DEF InFlight
  <2>4. QED BY <2>1, <2>2, <2>3, Changed DEF Locked, Unlocked, InFlight
<1>9. CASE WriteData(w) \/ CopySectors(w)
  <2>1. PICK l \in {"wrote", "copied", "failed"} : pc' = [pc EXCEPT ![w] = l]
    BY <1>9 DEF WriteData, CopySectors
  <2>2. pc[w] \in {"data", "copy"} /\ UNCHANGED <<m, waits, lock>>
    BY <1>9 DEF WriteData, CopySectors
  <2>3. QED BY <2>1, <2>2, Moved DEF Locked, Unlocked, InFlight
<1>10. CASE Relock(w)
  <2>1. lock = None /\ pc[w] \in {"wrote", "copied", "failed"}
    BY <1>10 DEF Relock
  <2>2. CASE \E done \in BOOLEAN : Leave(w, done)
    BY <2>1, <2>2, Left
  <2>3. CASE pc' = [pc EXCEPT ![w] = "copy"] /\ UNCHANGED <<m, waits, lock>>
    BY <2>1, <2>3, Moved DEF Locked, Unlocked, InFlight
  <2>4. CASE pc' = [pc EXCEPT ![w] = "link"] /\ lock' = w /\ UNCHANGED <<m, waits>>
    BY <1>0, <1>1, <2>1, <2>4, QcowAssumption
    DEF WaitInv, PlacesType, LockPlaces, AllocPlaces, WaitsForAlloc, Locked, InFlight
  <2>5. QED BY <1>10, <2>2, <2>3, <2>4 DEF Relock, Fail
<1>11. CASE FlushToOs(w)
  <2>1. lock = w /\ pc[w] \in {"flush_l2", "flush_ref", "flush_file"}
        /\ UNCHANGED <<m, waits>>
    BY <1>11 DEF FlushToOs, Owns
  <2>2. pc[w] \notin InFlight /\ ~ m[w].alloc
    BY <1>0, <2>1 DEF InFlight
  <2>3. \/ pc' = [pc EXCEPT ![w] = "flush_disk"] /\ lock' = None
        \/ pc' = [pc EXCEPT ![w] = "flush_ref"] /\ lock' = w
        \/ pc' = [pc EXCEPT ![w] = "flush_file"] /\ lock' = w
    BY <1>11, <2>1 DEF FlushToOs
  <2>4. QED BY <1>m, <2>1, <2>2, <2>3, Changed DEF Locked, Unlocked
<1>12. CASE FlushDisk(w)
  <2>1. pc[w] = "flush_disk" /\ pc' = [pc EXCEPT ![w] = "idle"]
        /\ UNCHANGED <<m, waits, lock>>
    BY <1>12 DEF FlushDisk
  <2>2. QED BY <2>1, Moved DEF Locked, Unlocked, InFlight
<1>13. QED
  BY <1>2, <1>3, <1>4, <1>5, <1>6, <1>7, <1>8, <1>9, <1>10, <1>11, <1>12
  DEF Progress

(* A coroutine that waits for an allocation is woken when it ends, however *)
(* it ends: run_dependent_requests misses nobody.                          *)
THEOREM WaitersAlwaysWoken == Spec => []WaitersAreWoken
<1>1. WaitInv /\ [Next]_vars => WaitInv'
  <2> SUFFICES ASSUME WaitInv, [Next]_vars PROVE WaitInv'
    OBVIOUS
  <2>1. CASE UNCHANGED <<pc, m, waits, lock>>
    BY <2>1
    DEF WaitInv, PlacesType, LockPlaces, AllocPlaces, WaitsForAlloc
  <2>2. CASE CallStep
    BY <2>1, <2>2
    DEF CallStep, CacheFlushNext, CacheFlushEnd, EntryFlushStart,
        EntryFlushWrite, EntryFlushWritten, FlushDependencyStep,
        SetDependencyStep, UpdateRefcountStep, requests
  <2>3. ASSUME NEW w \in Cos, SubmitAny(w) PROVE WaitInv'
    <3>1. /\ pc[w] = "idle" /\ pc' = [pc EXCEPT ![w] = "enter"]
          /\ UNCHANGED <<m, waits, lock>>
      BY <2>3 DEF SubmitAny, Submit, Goto, calls
    <3>2. QED BY <3>1, Moved DEF Locked, Unlocked, InFlight
  <2>4. CASE Crash
    <3>1. /\ pc' = [w \in Cos |-> "idle"] /\ waits' = [w \in Cos |-> None]
          /\ lock' = None /\ m' = [w \in Cos |-> NoMeta]
      BY <2>4 DEF Crash
    <3>2. m' \in [Cos -> [alloc : BOOLEAN, c : {0}]] /\ \A w \in Cos : ~ m'[w].alloc
      BY <3>1 DEF NoMeta
    <3>3. PlacesType'
      BY <3>1, <3>2 DEF PlacesType, Unlocked
    <3>4. QED
      BY <3>1, <3>2, <3>3, QcowAssumption
      DEF WaitInv, LockPlaces, AllocPlaces, WaitsForAlloc, Locked
  <2>5. CASE UNCHANGED vars
    BY <2>1, <2>5 DEF vars, calls, requests
  <2>6. QED BY <2>2, <2>3, <2>4, <2>5, WaitStep DEF Next
<1>2. QED BY <1>1, WaitInit, WaitInvEnough, PTL DEF Spec
-----------------------------------------------------------------------------
(* The caches' dependencies.                                               *)

Frames(V) == [f : V, k : V, e : V, todo : V, at : V]
StackType == \E V : stack \in Seq(Frames(V))

Setting(frame) == frame.f = "set_dependency" /\ frame.at = "set"

(* A call that is about to set a dependency has made sure that the other   *)
(* cache has none: it is the innermost and what it waited for went well,   *)
(* or it waits for the other cache to get rid of its own.                  *)
Careful(q, went, dep) ==
  \A i \in 1..Len(q) : Setting(q[i]) =>
    IF i = 1 THEN went => dep[Other(q[i].k)] = None
    ELSE q[i - 1].f = "flush_dependency" /\ q[i - 1].k = Other(q[i].k)

DependInv ==
  /\ depends \in [Caches -> Caches \cup {None}]
  /\ StackType /\ Careful(stack, ret, depends)
  /\ (lock = None => stack = <<>>)
  /\ NoDependencyCycle

LEMMA Wider ==
  ASSUME NEW V, NEW W, NEW q \in Seq(Frames(V))
  PROVE  q \in Seq(Frames(V \cup W))
<1>1. Frames(V) \subseteq Frames(V \cup W)
  BY DEF Frames
<1>2. QED BY <1>1, SeqMonotonic

(* The innermost call returns.                                             *)
LEMMA Popped ==
  ASSUME NEW V, NEW q \in Seq(Frames(V)), q # <<>>, NEW went, NEW r, NEW dep, NEW dep2,
         Careful(q, went, dep),
         q[1].f # "flush_dependency"
           \/ (r /\ q[1].k \in Caches => dep2[q[1].k] = None)
  PROVE  Tail(q) \in Seq(Frames(V)) /\ Careful(Tail(q), r, dep2)
<1>1. /\ Tail(q) \in Seq(Frames(V)) /\ Len(Tail(q)) = Len(q) - 1 /\ Len(q) \in Nat
      /\ \A i \in 1..(Len(q) - 1) : Tail(q)[i] = q[i + 1]
  OBVIOUS
<1>2. SUFFICES ASSUME NEW i \in 1..(Len(q) - 1), Setting(q[i + 1])
               PROVE  IF i = 1 THEN r => dep2[Other(q[i + 1].k)] = None
                      ELSE /\ Tail(q)[i - 1].f = "flush_dependency"
                           /\ Tail(q)[i - 1].k = Other(q[i + 1].k)
  BY <1>1 DEF Careful
<1>3. q[i].f = "flush_dependency" /\ q[i].k = Other(q[i + 1].k)
  <2>1. i + 1 \in 1..Len(q) /\ i + 1 # 1 /\ (i + 1) - 1 = i
    BY <1>1
  <2>2. QED BY <2>1, <1>2 DEF Careful
<1>4. CASE i = 1
  BY <1>3, <1>4 DEF Other, Caches
<1>5. CASE i # 1
  <2>1. Tail(q)[i - 1] = q[i]
    BY <1>1, <1>5
  <2>2. QED BY <1>3, <1>5, <2>1
<1>6. QED BY <1>4, <1>5

(* The innermost call t goes on; or it calls x, which begins.              *)
LEMMA WentOn ==
  ASSUME NEW V, NEW q \in Seq(Frames(V)), q # <<>>, NEW went, NEW r, NEW dep,
         NEW t \in Frames(V), t.f = q[1].f, t.k = q[1].k,
         Careful(q, went, dep),
         Setting(t) => dep[Other(t.k)] = None
  PROVE  LET p == <<t>> \o Tail(q) IN p \in Seq(Frames(V)) /\ Careful(p, r, dep)
<1> DEFINE p == <<t>> \o Tail(q)
<1>1. /\ Tail(q) \in Seq(Frames(V)) /\ <<t>> \in Seq(Frames(V)) /\ Len(<<t>>) = 1
      /\ Len(Tail(q)) = Len(q) - 1 /\ Len(q) \in Nat \ {0} /\ <<t>>[1] = t
      /\ \A i \in 1..(Len(q) - 1) : Tail(q)[i] = q[i + 1]
  OBVIOUS
<1>2. p \in Seq(Frames(V)) /\ Len(p) = Len(q) /\ p[1] = t
  BY <1>1
<1>3. ASSUME NEW i \in 2..Len(q) PROVE p[i] = q[i]
  <2>1. p[i] = Tail(q)[i - 1]
    BY <1>1
  <2>2. QED BY <1>1, <2>1
<1> HIDE DEF p
<1>4. Careful(p, r, dep)
  <2> SUFFICES ASSUME NEW i \in 1..Len(q), Setting(p[i])
               PROVE  IF i = 1 THEN r => dep[Other(p[i].k)] = None
                      ELSE p[i - 1].f = "flush_dependency" /\ p[i - 1].k = Other(p[i].k)
    BY <1>2 DEF Careful
  <2>1. CASE i = 1
    BY <1>2, <2>1
  <2>2. CASE i # 1
    <3>1. i \in 2..Len(q) /\ p[i] = q[i] /\ (i - 1 = 1 \/ i - 1 \in 2..Len(q))
      BY <1>1, <1>3, <2>2
    <3>2. q[i - 1].f = "flush_dependency" /\ q[i - 1].k = Other(q[i].k)
      BY <3>1 DEF Careful
    <3>3. p[i - 1].f = q[i - 1].f /\ p[i - 1].k = q[i - 1].k
      BY <1>2, <1>3, <3>1
    <3>4. QED BY <2>2, <3>1, <3>2, <3>3
  <2>3. QED BY <2>1, <2>2
<1>5. QED BY <1>2, <1>4 DEF p

LEMMA CalledNext ==
  ASSUME NEW V, NEW q \in Seq(Frames(V)), q # <<>>, NEW went, NEW r, NEW dep,
         NEW t \in Frames(V), t.f = q[1].f, t.k = q[1].k,
         NEW x \in Frames(V), x.at = "start",
         Careful(q, went, dep),
         Setting(t) => x.f = "flush_dependency" /\ x.k = Other(t.k)
  PROVE  LET p == <<x, t>> \o Tail(q) IN p \in Seq(Frames(V)) /\ Careful(p, r, dep)
<1> DEFINE p == <<x, t>> \o Tail(q)
<1>1. /\ Tail(q) \in Seq(Frames(V)) /\ <<x, t>> \in Seq(Frames(V)) /\ Len(<<x, t>>) = 2
      /\ Len(Tail(q)) = Len(q) - 1 /\ Len(q) \in Nat \ {0}
      /\ <<x, t>>[1] = x /\ <<x, t>>[2] = t
      /\ \A i \in 1..(Len(q) - 1) : Tail(q)[i] = q[i + 1]
  OBVIOUS
<1>2. p \in Seq(Frames(V)) /\ Len(p) = Len(q) + 1 /\ p[1] = x /\ p[2] = t
  BY <1>1
<1>3. ASSUME NEW i \in 3..(Len(q) + 1) PROVE p[i] = q[i - 1]
  <2>1. p[i] = Tail(q)[i - 2]
    BY <1>1
  <2>2. QED BY <1>1, <2>1
<1> HIDE DEF p
<1>4. Careful(p, r, dep)
  <2> SUFFICES ASSUME NEW i \in 1..(Len(q) + 1), Setting(p[i])
               PROVE  IF i = 1 THEN r => dep[Other(p[i].k)] = None
                      ELSE p[i - 1].f = "flush_dependency" /\ p[i - 1].k = Other(p[i].k)
    BY <1>2 DEF Careful
  <2>1. CASE i = 1
    BY <1>2, <2>1 DEF Setting
  <2>2. CASE i = 2
    BY <1>2, <2>2
  <2>3. CASE i \in 3..(Len(q) + 1)
    <3>1. p[i] = q[i - 1] /\ i - 1 \in 2..Len(q) /\ (i - 1 = 2 \/ i - 1 \in 3..(Len(q) + 1))
      BY <1>1, <1>3, <2>3
    <3>2. q[i - 2].f = "flush_dependency" /\ q[i - 2].k = Other(q[i - 1].k)
      BY <3>1 DEF Careful
    <3>3. p[i - 1].f = q[i - 2].f /\ p[i - 1].k = q[i - 2].k
      BY <1>2, <1>3, <3>1
    <3>4. QED BY <2>3, <3>1, <3>2, <3>3
  <2>4. QED BY <1>1, <2>1, <2>2, <2>3
<1>5. QED BY <1>2, <1>4 DEF p

(* A request starts calls: a single one, that has not begun.               *)
LEMMA Started ==
  ASSUME NEW q, NEW r, NEW dep,
         q = <<>> \/ \E f, k, e, todo : q = <<Frame(f, k, e, todo)>>
  PROVE  (\E V : q \in Seq(Frames(V))) /\ Careful(q, r, dep)
<1>1. CASE q = <<>>
  <2>1. q \in Seq(Frames({}))
    BY <1>1
  <2>2. QED BY <1>1, <2>1 DEF Careful
<1>2. ASSUME NEW f, NEW k, NEW e, NEW todo, q = <<Frame(f, k, e, todo)>>
      PROVE  (\E V : q \in Seq(Frames(V))) /\ Careful(q, r, dep)
  <2>1. Frame(f, k, e, todo) \in Frames({f, k, e, todo, "start"})
    BY DEF Frame, Frames
  <2>2. q \in Seq(Frames({f, k, e, todo, "start"}))
    BY <1>2, <2>1
  <2>3. Len(q) = 1 /\ q[1] = Frame(f, k, e, todo)
    BY <1>2
  <2>4. ~ Setting(q[1])
    BY <2>3 DEF Frame, Setting
  <2>5. QED BY <2>2, <2>3, <2>4 DEF Careful
<1>3. QED BY <1>1, <1>2

LEMMA FrameMoves ==
  ASSUME NEW V, NEW t \in Frames(V), NEW at
  PROVE  LET s == [t EXCEPT !.at = at] IN
         s \in Frames(V \cup {at}) /\ s.f = t.f /\ s.k = t.k /\ s.at = at
BY DEF Frames

LEMMA NewFrame ==
  ASSUME NEW f, NEW k, NEW e, NEW todo
  PROVE  LET x == Frame(f, k, e, todo) IN
         /\ x \in Frames({f, k, e, todo, "start"})
         /\ x.f = f /\ x.k = k /\ x.at = "start"
BY DEF Frame, Frames

(* What the innermost call may do to the stack.                            *)
LEMMA StackReturns ==
  ASSUME StackType, Careful(stack, ret, depends), stack # <<>>, NEW r, Returns(r),
         Top.f # "flush_dependency"
           \/ (r /\ Top.k \in Caches => depends'[Top.k] = None)
  PROVE  StackType' /\ Careful(stack', ret', depends')
<1>1. PICK V : stack \in Seq(Frames(V))
  BY DEF StackType
<1>2. Top = stack[1] /\ stack' = Tail(stack) /\ ret' = r
  BY <1>1 DEF Top, Returns
<1>3. Tail(stack) \in Seq(Frames(V)) /\ Careful(Tail(stack), r, depends')
  BY <1>1, <1>2, Popped
<1>4. QED BY <1>2, <1>3 DEF StackType

LEMMA StackGoesOn ==
  ASSUME StackType, Careful(stack, ret, depends), stack # <<>>,
         NEW at, Calls(<<>>, at), UNCHANGED depends,
         Top.f = "set_dependency" /\ at = "set" => depends[Other(Top.k)] = None
  PROVE  StackType' /\ Careful(stack', ret', depends')
<1>1. PICK V : stack \in Seq(Frames(V))
  BY DEF StackType
<1> DEFINE t == [Top EXCEPT !.at = at]
           W == V \cup {at}
<1>2. Top = stack[1] /\ Top \in Frames(V)
  BY <1>1 DEF Top
<1> HIDE DEF W
<1>3. t \in Frames(W) /\ t.f = Top.f /\ t.k = Top.k /\ t.at = at
  <2>1. Top \in Frames(V)
    BY <1>2
  <2>2. t \in Frames(V \cup {at}) /\ t.f = Top.f /\ t.k = Top.k /\ t.at = at
    BY <2>1, FrameMoves
  <2>3. QED BY <2>2 DEF W
<1>4. stack' = <<>> \o <<t>> \o Tail(stack) /\ ret' = TRUE
  BY DEF Calls
<1> HIDE DEF t
<1>5. stack' = <<t>> \o Tail(stack)
  <2>1. <<>> \o <<t>> = <<t>>
    OBVIOUS
  <2>2. QED BY <1>4, <2>1
<1>6. stack \in Seq(Frames(W))
  BY <1>1, Wider DEF W
<1>7. Setting(t) => depends[Other(t.k)] = None
  BY <1>3 DEF Setting
<1>8. stack' \in Seq(Frames(W)) /\ Careful(stack', ret', depends)
  BY <1>2, <1>3, <1>5, <1>6, <1>7, WentOn
<1>9. QED BY <1>8 DEF StackType

LEMMA StackCalls ==
  ASSUME StackType, Careful(stack, ret, depends), stack # <<>>,
         NEW f, NEW k, NEW e, NEW todo, NEW t, NEW V,
         t \in Frames(V), t.f = Top.f, t.k = Top.k,
         stack' = <<Frame(f, k, e, todo), t>> \o Tail(stack), UNCHANGED depends,
         Setting(t) => f = "flush_dependency" /\ k = Other(t.k)
  PROVE  StackType' /\ Careful(stack', ret', depends')
<1>1. PICK U : stack \in Seq(Frames(U))
  BY DEF StackType
<1> DEFINE x == Frame(f, k, e, todo)
           W == (U \cup V) \cup {f, k, e, todo, "start"}
<1>2. Top = stack[1]
  BY <1>1 DEF Top
<1>3. stack \in Seq(Frames(W))
  <2>1. W = U \cup (V \cup {f, k, e, todo, "start"})
    OBVIOUS
  <2>2. QED BY <1>1, <2>1, Wider
<1>4. t \in Frames(W)
  BY DEF Frames
<1>5. x \in Frames(W) /\ x.f = f /\ x.k = k /\ x.at = "start"
  BY NewFrame DEF Frames
<1> HIDE DEF W, x
<1>6. stack' = <<x, t>> \o Tail(stack)
  BY DEF x
<1>7. stack' \in Seq(Frames(W)) /\ Careful(stack', ret', depends)
  BY <1>2, <1>3, <1>4, <1>5, <1>6, CalledNext
<1>8. QED BY <1>7 DEF StackType

LEMMA StackCallsOne ==
  ASSUME StackType, Careful(stack, ret, depends), stack # <<>>,
         NEW f, NEW k, NEW e, NEW todo, NEW at,
         Calls(<<Frame(f, k, e, todo)>>, at), UNCHANGED depends,
         Top.f = "set_dependency" /\ at = "set" =>
           f = "flush_dependency" /\ k = Other(Top.k)
  PROVE  StackType' /\ Careful(stack', ret', depends')
<1>1. PICK V : stack \in Seq(Frames(V))
  BY DEF StackType
<1> DEFINE t == [Top EXCEPT !.at = at]
           x == Frame(f, k, e, todo)
<1>2. Top \in Frames(V)
  BY <1>1 DEF Top
<1>3. t \in Frames(V \cup {at}) /\ t.f = Top.f /\ t.k = Top.k /\ t.at = at
  BY <1>2, FrameMoves
<1>4. stack' = <<x>> \o <<t>> \o Tail(stack)
  BY DEF Calls
<1> HIDE DEF t, x
<1>5. stack' = <<x, t>> \o Tail(stack)
  <2>1. <<x>> \in Seq({x, t}) /\ <<t>> \in Seq({x, t}) /\ <<x, t>> \in Seq({x, t})
    OBVIOUS
  <2>2. /\ Len(<<x>>) = 1 /\ Len(<<t>>) = 1 /\ Len(<<x, t>>) = 2
        /\ <<x>>[1] = x /\ <<t>>[1] = t /\ <<x, t>>[1] = x /\ <<x, t>>[2] = t
    OBVIOUS
  <2>3. /\ <<x>> \o <<t>> \in Seq({x, t}) /\ Len(<<x>> \o <<t>>) = 2
        /\ (<<x>> \o <<t>>)[1] = x /\ (<<x>> \o <<t>>)[2] = t
    BY <2>1, <2>2, ConcatProperties
  <2>4. \A i \in 1..Len(<<x>> \o <<t>>) : (<<x>> \o <<t>>)[i] = <<x, t>>[i]
    <3>1. \A i \in 1..2 : i = 1 \/ i = 2
      OBVIOUS
    <3>2. QED BY <2>2, <2>3, <3>1
  <2> DEFINE p == <<x>> \o <<t>>
             q == <<x, t>>
  <2> HIDE DEF p, q
  <2>5. p \in Seq({x, t}) /\ q \in Seq({x, t}) /\ Len(p) = Len(q)
        /\ \A i \in 1..Len(p) : p[i] = q[i]
    BY <2>1, <2>2, <2>3, <2>4 DEF p, q
  <2>6. p = q
    BY <2>5, SeqEqual
  <2>7. QED BY <1>4, <2>6 DEF p, q
<1>6. stack' = <<Frame(f, k, e, todo), t>> \o Tail(stack)
  BY <1>5 DEF x
<1>7. QED BY <1>3, <1>6, StackCalls DEF Setting

(* It is enough to follow the stack and the dependencies.                  *)
LEMMA CallsKeep ==
  ASSUME DependInv, stack # <<>>, lock' = lock, depends' = depends,
         StackType', Careful(stack', ret', depends')
  PROVE  DependInv'
BY DEF DependInv, NoDependencyCycle

LEMMA CallKeepsDependInv ==
  ASSUME DependInv, CallStep
  PROVE  DependInv'
<1>0. /\ StackType /\ Careful(stack, ret, depends)
      /\ depends \in [Caches -> Caches \cup {None}] /\ NoDependencyCycle
  BY DEF DependInv
<1>1. CASE CacheFlushNext
  <2>1. PICK V : stack \in Seq(Frames(V))
    BY <1>0 DEF StackType
  <2>2. PICK e \in Top.todo :
          stack' = <<EntryFlush(Top.k, e),
                     [Top EXCEPT !.todo = @ \ {e},
                                 !.at = IF ret THEN @ ELSE "failed"]>> \o Tail(stack)
    BY <1>1 DEF CacheFlushNext
  <2>3. /\ stack # <<>> /\ Top.f = "cache_flush"
        /\ lock' = lock /\ depends' = depends
    BY <1>1 DEF CacheFlushNext, caches
  <2> DEFINE t == [Top EXCEPT !.todo = @ \ {e}, !.at = IF ret THEN @ ELSE "failed"]
             W == V \cup {Top.todo \ {e}, "failed"}
  <2>4. Top \in Frames(V)
    BY <2>1, <2>3 DEF Top
  <2>5. t \in Frames(W) /\ t.f = Top.f /\ t.k = Top.k
    BY <2>4 DEF Frames
  <2>6. stack' = <<Frame("entry_flush", Top.k, e, {}), t>> \o Tail(stack)
    BY <2>2 DEF EntryFlush
  <2> HIDE DEF t, W
  <2>7. ~ Setting(t)
    BY <2>3, <2>5 DEF Setting
  <2>8. StackType' /\ Careful(stack', ret', depends')
    BY <1>0, <2>3, <2>5, <2>6, <2>7, StackCalls
  <2>9. QED BY <2>3, <2>8, CallsKeep
<1>2. CASE CacheFlushEnd \/ EntryFlushWritten
  <2>1. PICK r : Returns(r)
    BY <1>2 DEF CacheFlushEnd, EntryFlushWritten
  <2>2. /\ stack # <<>> /\ Top.f \in {"cache_flush", "entry_flush"}
        /\ lock' = lock /\ depends' = depends
    BY <1>2 DEF CacheFlushEnd, EntryFlushWritten, In, caches
  <2>3. StackType' /\ Careful(stack', ret', depends')
    BY <1>0, <2>1, <2>2, StackReturns
  <2>4. QED BY <2>2, <2>3, CallsKeep
<1>3. CASE EntryFlushStart \/ EntryFlushWrite
  <2>1. /\ stack # <<>> /\ Top.f = "entry_flush"
        /\ lock' = lock /\ depends' = depends
    BY <1>3 DEF EntryFlushStart, EntryFlushWrite, In, caches
  <2>2. \/ \E r \in BOOLEAN : Returns(r)
        \/ \E at : Calls(<<>>, at)
        \/ Calls(<<FlushDependency(Top.k)>>, "write")
    BY <1>3 DEF EntryFlushStart, EntryFlushWrite
  <2>3. StackType' /\ Careful(stack', ret', depends')
    BY <1>0, <2>1, <2>2, StackReturns, StackGoesOn, StackCallsOne DEF FlushDependency
  <2>4. QED BY <2>1, <2>3, CallsKeep
<1>4. CASE FlushDependencyStep
  <2>1. /\ stack # <<>> /\ Top.f = "flush_dependency" /\ lock' = lock
    BY <1>4 DEF FlushDependencyStep, In
  <2>2. CASE Calls(<<CacheFlush(depends[Top.k])>>, "flushed") /\ UNCHANGED depends
    <3>1. StackType' /\ Careful(stack', ret', depends')
      BY <1>0, <2>1, <2>2, StackCallsOne DEF CacheFlush
    <3>2. QED BY <2>1, <2>2, <3>1, CallsKeep
  <2>3. CASE /\ Returns(ret)
             /\ depends' = [depends EXCEPT ![Top.k] = IF ret THEN None ELSE @]
    <3>1. ret /\ Top.k \in Caches => depends'[Top.k] = None
      BY <1>0, <2>3
    <3>2. StackType' /\ Careful(stack', ret', depends')
      BY <1>0, <2>1, <2>3, <3>1, StackReturns
    <3>3. /\ depends' \in [Caches -> Caches \cup {None}]
          /\ \A k \in Caches : depends[k] = None => depends'[k] = None
      BY <1>0, <2>3
    <3>4. NoDependencyCycle'
      BY <1>0, <3>3 DEF NoDependencyCycle, Caches
    <3>5. lock' # None
      BY <2>1 DEF DependInv
    <3>6. QED BY <3>2, <3>3, <3>4, <3>5 DEF DependInv
  <2>4. QED BY <1>4, <2>2, <2>3 DEF FlushDependencyStep
<1>5. CASE SetDependencyStep
  <2>1. stack # <<>> /\ Top.f = "set_dependency" /\ lock' = lock
    BY <1>5 DEF SetDependencyStep, In
  <2>2. CASE /\ Calls(IF depends[Other(Top.k)] = None THEN <<>>
                      ELSE <<FlushDependency(Other(Top.k))>>, "set")
             /\ UNCHANGED depends
    <3>1. StackType' /\ Careful(stack', ret', depends')
      BY <1>0, <2>1, <2>2, StackGoesOn, StackCallsOne DEF FlushDependency
    <3>2. QED BY <2>1, <2>2, <3>1, CallsKeep
  <2>3. CASE /\ In("set_dependency", "set") /\ Returns(ret)
             /\ depends' = [depends EXCEPT ![Top.k] = IF ret THEN Other(Top.k) ELSE @]
    <3>1. StackType' /\ Careful(stack', ret', depends')
      BY <1>0, <2>1, <2>3, StackReturns
    <3>2. ret => depends[Other(Top.k)] = None
      <4>1. PICK V : stack \in Seq(Frames(V))
        BY <1>0 DEF StackType
      <4>2. Top = stack[1] /\ 1 \in 1..Len(stack)
        BY <2>1, <4>1 DEF Top
      <4>3. Setting(stack[1])
        BY <2>3, <4>2 DEF Setting, In
      <4>4. QED BY <1>0, <4>2, <4>3 DEF Careful
    <3>3. depends' \in [Caches -> Caches \cup {None}]
      BY <1>0, <2>3 DEF Other, Caches
    <3>4. NoDependencyCycle'
      BY <1>0, <2>3, <3>2 DEF NoDependencyCycle, Other, Caches
    <3>5. lock' # None
      BY <2>1 DEF DependInv
    <3>6. QED BY <3>1, <3>3, <3>4, <3>5 DEF DependInv
  <2>4. QED BY <1>5, <2>2, <2>3 DEF SetDependencyStep
<1>6. CASE UpdateRefcountStep
  <2>1. /\ stack # <<>> /\ Top.f = "update_refcount"
        /\ lock' = lock /\ depends' = depends
    BY <1>6 DEF UpdateRefcountStep, In
  <2>2. \/ Returns(ret)
        \/ \E at : Calls(<<>>, at)
        \/ Calls(<<SetDependency("ref")>>, "apply")
        \/ Calls(<<EntryFlush("ref", 0)>>, "put")
    BY <1>6 DEF UpdateRefcountStep, PutFrames
  <2>3. StackType' /\ Careful(stack', ret', depends')
    BY <1>0, <2>1, <2>2, StackReturns, StackGoesOn, StackCallsOne
    DEF SetDependency, EntryFlush
  <2>4. QED BY <2>1, <2>3, CallsKeep
<1>7. QED BY <1>1, <1>2, <1>3, <1>4, <1>5, <1>6 DEF CallStep

LEMMA SameCalls ==
  ASSUME DependInv, UNCHANGED <<stack, ret, lock, depends>>
  PROVE  DependInv'
<1>1. StackType'
  BY DEF DependInv, StackType
<1>2. Careful(stack', ret', depends')
  BY DEF DependInv
<1>3. QED BY <1>1, <1>2 DEF DependInv, NoDependencyCycle

(* A request touches the stack only when it is empty, and no dependency.   *)
LEMMA RequestKeepsDependInv ==
  ASSUME DependInv, NEW w \in Cos, Progress(w)
  PROVE  DependInv'
<1> USE DEF calls, caches, requests
<1>0. /\ StackType /\ Careful(stack, ret, depends)
      /\ depends \in [Caches -> Caches \cup {None}] /\ NoDependencyCycle
      /\ (lock = None => stack = <<>>)
  BY DEF DependInv
<1>1. depends' = depends
  BY DEF Progress, Enter, L2AllocateFailed, CallFailed, GetClusterTable,
         L2FlushRefcount, L2Copy, WriteL1Entry, SyncL1Entry, AllocClusterOffset,
         InsertInFlight, WriteData, Relock, CopySectors, LinkL2, FreeOld, Done,
         Unmap, UnmapPut, FlushToOs, FlushDisk, Replace, Leave, Fail
<1>2. CASE WriteData(w) \/ CopySectors(w) \/ FlushDisk(w)
  <2>1. UNCHANGED <<stack, ret, lock, depends>>
    BY <1>1, <1>2 DEF WriteData, CopySectors, FlushDisk
  <2>2. QED BY <2>1, SameCalls
<1>3. ASSUME \/ Enter(w) \/ L2AllocateFailed(w) \/ CallFailed(w)
             \/ GetClusterTable(w) \/ L2FlushRefcount(w) \/ L2Copy(w)
             \/ WriteL1Entry(w) \/ SyncL1Entry(w)
             \/ AllocClusterOffset(w) \/ InsertInFlight(w) \/ Relock(w)
             \/ LinkL2(w) \/ FreeOld(w) \/ Done(w)
             \/ Unmap(w) \/ UnmapPut(w) \/ FlushToOs(w) \/ Replace(w)
      PROVE  DependInv'
  <2>1. stack = <<>>
    BY <1>0, <1>3
    DEF Enter, L2AllocateFailed, CallFailed, GetClusterTable, L2FlushRefcount,
        L2Copy, WriteL1Entry, SyncL1Entry, AllocClusterOffset, InsertInFlight,
        Relock, LinkL2, FreeOld, Done, Unmap, UnmapPut, FlushToOs, Replace, Owns
  <2>2. \/ stack' = <<>>
        \/ lock' = w /\ \E f, k, e, todo : stack' = <<Frame(f, k, e, todo)>>
    <3>1. CASE Enter(w) \/ CallFailed(w) \/ Done(w)
      BY <2>1, <3>1 DEF Enter, CallFailed, Done, Fail, Leave
    <3>2. CASE L2AllocateFailed(w) \/ L2FlushRefcount(w) \/ L2Copy(w) \/ LinkL2(w)
      BY <2>1, <3>2
      DEF L2AllocateFailed, L2FlushRefcount, L2Copy, LinkL2, Owns, PutFrames,
          EntryFlush, CacheFlush
    <3>3. CASE GetClusterTable(w) \/ WriteL1Entry(w) \/ SyncL1Entry(w)
      BY <2>1, <3>3
      DEF GetClusterTable, WriteL1Entry, SyncL1Entry, Owns, AllocCluster,
          PutFrames, EntryFlush, UpdateRefcount
    <3>4. CASE AllocClusterOffset(w) \/ InsertInFlight(w)
      BY <2>1, <3>4 DEF AllocClusterOffset, InsertInFlight, Owns, AllocCluster,
                        UpdateRefcount
    <3>5. CASE Relock(w)
      BY <2>1, <3>5 DEF Relock, Fail, Leave, SetDependency
    <3>6. CASE FreeOld(w) \/ Unmap(w) \/ UnmapPut(w)
      BY <2>1, <3>6 DEF FreeOld, Unmap, UnmapPut, Owns, UpdateRefcount, PutFrames,
                        EntryFlush
    <3>7. CASE FlushToOs(w) \/ Replace(w)
      BY <2>1, <3>7 DEF FlushToOs, Replace, Owns, CacheFlush, EntryFlush
    <3>8. QED BY <1>3, <3>1, <3>2, <3>3, <3>4, <3>5, <3>6, <3>7
  <2>3. StackType' /\ Careful(stack', ret', depends')
    <3>1. \E V : stack' \in Seq(Frames(V))
      BY <2>2, Started
    <3>2. Careful(stack', ret', depends')
      BY <2>2, Started
    <3>3. QED BY <3>1, <3>2 DEF StackType
  <2>4. lock' = None => stack' = <<>>
    BY <2>2, QcowAssumption
  <2>5. QED BY <1>0, <1>1, <2>3, <2>4 DEF DependInv, NoDependencyCycle
<1>4. QED BY <1>2, <1>3 DEF Progress

(* qcow2-cache.c keeps the two caches from waiting for each other: whoever *)
(* makes one depend on the other first flushes what the other depends on,  *)
(* and gives up when that fails.                                           *)
THEOREM DependenciesNeverCycle == Spec => []NoDependencyCycle
<1>1. Init => DependInv
  <2> SUFFICES ASSUME Init PROVE DependInv
    OBVIOUS
  <2>1. stack = <<>> /\ lock = None /\ depends = [k \in Caches |-> None]
    BY DEF Init, NoDepends
  <2>2. StackType /\ Careful(stack, ret, depends)
    BY <2>1, Started DEF StackType
  <2>3. QED BY <2>1, <2>2 DEF DependInv, NoDependencyCycle, Caches
<1>2. DependInv /\ [Next]_vars => DependInv'
  <2> SUFFICES ASSUME DependInv, [Next]_vars PROVE DependInv'
    OBVIOUS
  <2>1. CASE UNCHANGED <<stack, ret, lock, depends>>
    BY <2>1, SameCalls
  <2>2. ASSUME NEW w \in Cos, SubmitAny(w) PROVE DependInv'
    BY <2>1, <2>2 DEF SubmitAny, Submit, calls, caches
  <2>3. CASE Crash
    <3>1. stack' = <<>> /\ lock' = None /\ depends' = [k \in Caches |-> None]
      BY <2>3 DEF Crash, NoDepends
    <3>2. StackType' /\ Careful(stack', ret', depends')
      BY <3>1, Started DEF StackType
    <3>3. QED BY <3>1, <3>2 DEF DependInv, NoDependencyCycle, Caches
  <2>4. CASE UNCHANGED vars
    BY <2>1, <2>4 DEF vars, calls, caches
  <2>5. QED BY <2>2, <2>3, <2>4, CallKeepsDependInv, RequestKeepsDependInv DEF Next
<1>3. DependInv => NoDependencyCycle
  BY DEF DependInv
<1>4. QED BY <1>1, <1>2, <1>3, PTL DEF Spec
=============================================================================
