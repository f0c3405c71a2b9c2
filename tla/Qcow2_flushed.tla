--------------------------- MODULE Qcow2_flushed ----------------------------
(***************************************************************************)
(* Proofs about Qcow2, for any number of coroutines, clusters, requests,   *)
(* crashes and failed transfers of data: what the guest flushed survives a *)
(* crash.                                                                  *)
(*                                                                         *)
(* The guest reads through an entry of a table to a sector.  The invariant *)
(* says which entries (Stored) and which contents behind them (Behind) a   *)
(* crash may leave, and relates both to what was promised: what is in      *)
(* memory is promised and goes to the file only when what it refers to is  *)
(* there, and a cluster that an entry in the file still refers to is given *)
(* to other data only where the guest has nothing to lose.                 *)
(***************************************************************************)
EXTENDS Qcow2_crash

-----------------------------------------------------------------------------
(* What the guest reads.                                                   *)

(* What an entry or sector holds, read as a sector's content.              *)
Content(d) == IF IsEntry(d) THEN -1 ELSE d.v

(* The possible contents of sector h of the cluster that e refers to.      *)
Behind(e, h) == IF e.c = 0 THEN {0} ELSE {Content(d) : d \in Possible(Cell(e.c, h))}

(* What the guest reads in memory and through the tables of the file.      *)
Sector(e, h) == IF e.c = 0 THEN Data(0) ELSE file[Cell(e.c, h)]
Shown(x) == Sector(Cached(x[1]), x[2])
Filed(i) == IF l1.c = 0 THEN Unallocated ELSE file[Cell(l1.c, i)]

(* The entries of the guest's L2 table: in the file, and in memory.        *)
Known(i) == Stored(i) \cup {Cached(i)}

(* A flush that has the L2 tables behind it.                               *)
Past(w) ==
  \/ pc[w] = "flush_ref" /\ stack = <<>>
  \/ pc[w] \in {"flush_file", "flush_disk"}

(* The cluster of e holds what it did when e was written.                  *)
Solid(e, i) ==
  \/ e.c \in {0, Cached(i).c} \/ BySnap(e.c)
  \/ \E w \in Cos : pc[w] = "unlink" /\ old[w] = e.c

(* A cluster that has been a table stays one.                              *)
Tabled(c) == \E i \in Half : \E d \in Possible(Cell(c, i)) : IsEntry(d)
TableKept(c) ==
  /\ refcount[c] >= 1 /\ \A r \in Possible(Ref(c)) : r >= 1
  /\ \A i \in Half : \A e \in Known(i) : e.c # c
  /\ Freeing(c) => BySnap(c)
  /\ \A w \in Cos : Holds(w) /\ m[w].c = c => pc[w] = "l1_write"
TabledInv == \A c \in Clusters : Tabled(c) => TableKept(c)

LEMMA DataIs ==
  /\ \A e \in EntrySet : IsEntry(e) /\ Content(e) = -1
  /\ \A d \in DataSet : ~ IsEntry(d) /\ d.v \in Values /\ Content(d) = d.v /\ d = Data(d.v)
  /\ \A v : Data(v).v = v /\ ~ IsEntry(Data(v)) /\ Content(Data(v)) = v
  /\ \A v \in Values : Data(v) \in DataSet
  /\ \A d \in EntrySet \cup DataSet : Content(d) \in Values
<1>1. \A v : Data(v).v = v /\ ~ IsEntry(Data(v)) /\ Content(Data(v)) = v
  BY DEF Data, IsEntry, Content
<1>2. \A e \in EntrySet : IsEntry(e) /\ Content(e) = -1
  BY DEF EntrySet, Unallocated, Entry, IsEntry, Content
<1>3. \A d \in DataSet : d.v \in Values /\ d = Data(d.v)
  BY DEF DataSet, Data
<1>4. \A v \in Values : Data(v) \in DataSet
  BY DEF DataSet, Data
<1>5. \A d \in DataSet : ~ IsEntry(d) /\ Content(d) = d.v
  BY <1>1, <1>3
<1>6. QED BY <1>1, <1>2, <1>3, <1>4, <1>5, ValuesOk DEF ValuesAre

LEMMA BehindIs ==
  ASSUME NEW e, NEW h \in Half
  PROVE  /\ e.c = 0 => Behind(e, h) = {0} /\ Sector(e, h) = Data(0)
         /\ e.c # 0 => /\ Sector(e, h) = file[Cell(e.c, h)]
                       /\ \A v : v \in Behind(e, h) <=> \E d \in Possible(Cell(e.c, h)) : v = Content(d)
         /\ Content(Sector(e, h)) \in Behind(e, h)
<1>1. /\ e.c = 0 => Behind(e, h) = {0} /\ Sector(e, h) = Data(0)
      /\ e.c # 0 => /\ Sector(e, h) = file[Cell(e.c, h)]
                    /\ \A v : v \in Behind(e, h) <=> \E d \in Possible(Cell(e.c, h)) : v = Content(d)
  BY DEF Behind, Sector
<1>2. Content(Sector(e, h)) \in Behind(e, h)
  BY <1>1, DataIs, PossibleIs
<1>3. QED BY <1>1, <1>2

(* The entry that a table of the file holds is among those it may hold.    *)
LEMMA FiledIs ==
  ASSUME AllInv, NEW i \in Half
  PROVE  /\ Filed(i) \in EntrySet
         /\ l1.c = 0 => Filed(i) = Unallocated /\ Cached(i) = Unallocated
         /\ l1.c # 0 => Filed(i) = file[Cell(l1.c, i)] /\ Filed(i) \in Stored(i)
         /\ Known(i) \subseteq EntrySet
<1>1. /\ l1.c # 0 => l1.c \in Tables /\ Cached(i) \in EntrySet
      /\ l1.c = 0 => Cached(i) = Unallocated
      /\ Cached(i) \in EntrySet
  BY CachedIs
<1>2. FileInv
  BY DEF AllInv
<1>3. l1.c # 0 => file[Cell(l1.c, i)] \in Stored(i)
  BY <1>1, <1>2, TablesClusters, PossibleIs
<1>4. Stored(i) \subseteq EntrySet
  BY <1>2 DEF FileInv
<1>5. QED BY <1>1, <1>3, <1>4, EntriesAre DEF Filed, Known

(* Entries refer to sectors, never to a table.                             *)
LEMMA SectorIs ==
  ASSUME AllInv, TabledInv, NEW i \in Half, NEW e \in Known(i), NEW h \in Half
  PROVE  /\ e.c \in Clusters \cup {0}
         /\ e.c # 0 => Possible(Cell(e.c, h)) \subseteq DataSet
         /\ Sector(e, h) \in DataSet /\ Content(Sector(e, h)) = Sector(e, h).v
         /\ Behind(e, h) \subseteq Values
<1>1. e \in EntrySet
  BY FiledIs
<1>2. e.c \in Clusters \cup {0}
  BY <1>1, EntriesAre
<1>3. ASSUME e.c # 0 PROVE Possible(Cell(e.c, h)) \subseteq DataSet
  <2>1. e.c \in Clusters
    BY <1>2, <1>3
  <2>2. Possible(Cell(e.c, h)) \subseteq EntrySet \cup DataSet
    BY <2>1 DEF AllInv, FileInv
  <2>3. ~ Tabled(e.c)
    BY <2>1 DEF TabledInv, TableKept
  <2>4. QED BY <2>2, <2>3, DataIs DEF Tabled
<1>4. Sector(e, h) \in DataSet
  BY <1>3, PossibleIs, DataIs, ValuesOk DEF Sector, ValuesAre
<1>5. Behind(e, h) \subseteq Values
  BY <1>3, DataIs, ValuesOk DEF Behind, ValuesAre
<1>6. QED BY <1>2, <1>3, <1>4, <1>5, DataIs

LEMMA ShownIs ==
  ASSUME AllInv, TabledInv, NEW x \in Sectors
  PROVE  /\ x[1] \in Half /\ x[2] \in Half /\ x = <<x[1], x[2]>>
         /\ Shown(x) \in DataSet /\ Content(Shown(x)) = Shown(x).v /\ Shown(x).v \in Values
         /\ Cached(x[1]) \in Known(x[1])
<1>1. x[1] \in Half /\ x[2] \in Half /\ x = <<x[1], x[2]>>
  BY DEF Sectors, Guest, Half
<1>2. Cached(x[1]) \in Known(x[1])
  BY DEF Known
<1>3. QED BY <1>1, <1>2, SectorIs, DataIs DEF Shown

-----------------------------------------------------------------------------
(* What the steps do to the guest's data.                                  *)

(* A table with changes that are not in the file is nobody's data.         *)
LEMMA DirtyApart ==
  ASSUME AllInv, NEW t, <<"l2", t>> \in dirty
  PROVE  \A i \in Half : \A e \in Known(i) : e.c # t
<1>1. t \in DOMAIN l2 /\ t \in Clusters /\ t # snap
  BY DirtyTable
<1>2. \/ t = l1.c \/ \E w \in Cos : pc[w] = "l1_write" /\ m[w].c = t
  BY <1>1 DEF AllInv, CacheInv
<1>3. ASSUME ~ Points(Stored(0) \cup {Cached(0)}, t), ~ Points(Stored(1) \cup {Cached(1)}, t)
      PROVE  \A i \in Half : \A e \in Known(i) : e.c # t
  BY <1>3, HalfAre DEF Points, Known
<1>4. CASE t = l1.c
  <2>1. l1 \in Possible(L1) /\ t # 0
    BY <1>1, <1>4, CachedIs, ClustersAre
  <2>2. l1.flag = "copied"
    BY <1>1, <1>4, <2>1 DEF AllInv, FileInv
  <2>3. Anywhere(t) <= 1
    BY <1>4, <2>1, <2>2 DEF AllInv, CountsInv, PrivateInv, AllEntries
  <2>4. Points(Possible(L1) \cup {l1}, t)
    BY <1>4 DEF Points
  <2>5. ~ Points(Stored(0) \cup {Cached(0)}, t) /\ ~ Points(Stored(1) \cup {Cached(1)}, t)
    BY <2>3, <2>4, SumZero DEF Anywhere
  <2>6. QED BY <1>3, <2>5
<1>5. CASE \E w \in Cos : pc[w] = "l1_write" /\ m[w].c = t
  <2>1. PICK w \in Cos : pc[w] = "l1_write" /\ m[w].c = t
    BY <1>5
  <2>2. lock = w
    BY <2>1, RequestIs DEF Locked
  <2>3. depends["ref"] = None
    BY <2>1, <2>2 DEF AllInv, TableInv, RefStable
  <2>4. Held(t)
    BY <2>1 DEF Held, Holds
  <2>5. Anywhere(t) = 0
    BY <1>1, <2>3, <2>4 DEF AllInv, CountsInv, HeldInv, HeldOk
  <2>6. ~ Points(Stored(0) \cup {Cached(0)}, t) /\ ~ Points(Stored(1) \cup {Cached(1)}, t)
    BY <2>5, SumZero DEF Anywhere
  <2>7. QED BY <1>3, <2>6
<1>6. QED BY <1>2, <1>4, <1>5

(* A step that changes no entry and no sector.                             *)
Still ==
  /\ l1' = l1 /\ snap' = snap /\ \A i \in Half : Cached(i)' = Cached(i)
  /\ Possible(L1)' \subseteq Possible(L1)
  /\ \A c \in Clusters, i \in Half : /\ file'[Cell(c, i)] = file[Cell(c, i)]
                                     /\ Possible(Cell(c, i))' \subseteq Possible(Cell(c, i))

(* What is behind an entry stays.                                          *)
Kept(e, h) == Behind(e, h)' = Behind(e, h) /\ Sector(e, h)' = Sector(e, h)

LEMMA BehindKept ==
  ASSUME NEW e, NEW h,
         e.c # 0 => /\ file'[Cell(e.c, h)] = file[Cell(e.c, h)]
                    /\ Possible(Cell(e.c, h))' = Possible(Cell(e.c, h))
  PROVE  Kept(e, h)
BY DEF Kept, Behind, Sector

LEMMA StillMeans ==
  ASSUME AllInv, Still
  PROVE  /\ \A i \in Half : /\ Stored(i)' \subseteq Stored(i) /\ Known(i)' \subseteq Known(i)
                            /\ Filed(i)' = Filed(i) /\ Cached(i)' = Cached(i)
         /\ \A e \in EntrySet, h \in Half : /\ Behind(e, h)' \subseteq Behind(e, h)
                                            /\ Sector(e, h)' = Sector(e, h)
         /\ \A x \in Sectors : Shown(x)' = Shown(x)
         /\ \A c \in Clusters : Tabled(c)' => Tabled(c)
<1>0. FileInv
  BY DEF AllInv
<1>1. Tables' \subseteq Tables /\ Tables \subseteq Clusters
  BY <1>0, TablesClusters DEF Still, Tables
<1>2. ASSUME NEW i \in Half PROVE Stored(i)' \subseteq Stored(i) /\ Known(i)' \subseteq Known(i)
  <2>1. Stored(i)' \subseteq Stored(i)
    BY <1>1 DEF Still, Stored
  <2>2. QED BY <2>1 DEF Still, Known
<1>3. ASSUME NEW i \in Half PROVE Filed(i)' = Filed(i)
  <2>1. l1.c # 0 => l1.c \in Clusters
    BY CachedIs
  <2>2. QED BY <2>1 DEF Still, Filed
<1>4. ASSUME NEW e \in EntrySet, NEW h \in Half
      PROVE  Behind(e, h)' \subseteq Behind(e, h) /\ Sector(e, h)' = Sector(e, h)
  <2>1. e.c # 0 => e.c \in Clusters
    BY EntriesAre
  <2>2. e.c # 0 => /\ file'[Cell(e.c, h)] = file[Cell(e.c, h)]
                   /\ Possible(Cell(e.c, h))' \subseteq Possible(Cell(e.c, h))
    BY <2>1 DEF Still
  <2>3. QED BY <2>2 DEF Behind, Sector
<1>5. ASSUME NEW x \in Sectors PROVE Shown(x)' = Shown(x)
  <2>1. x[1] \in Half /\ x[2] \in Half
    BY DEF Sectors, Guest, Half
  <2>2. Cached(x[1]) \in EntrySet /\ Cached(x[1])' = Cached(x[1])
    BY <2>1, CachedIs DEF Still
  <2>3. Sector(Cached(x[1]), x[2])' = Sector(Cached(x[1]), x[2])
    BY <2>1, <2>2, <1>4 DEF Sector, Still
  <2>4. QED BY <2>3 DEF Shown
<1>6. \A c \in Clusters : Tabled(c)' => Tabled(c)
  BY DEF Still, Tabled
<1>7. QED BY <1>2, <1>3, <1>4, <1>5, <1>6 DEF Still

LEMMA SettledStill ==
  ASSUME AllInv, Settled, l1' = l1, snap' = snap, \A i \in Half : Cached(i)' = Cached(i)
  PROVE  Still
BY SettledMeans, UnitsAre DEF Still, Settled

(* Writing the refcount block changes no entry either.                     *)
LEMMA CallStill ==
  ASSUME OnlyDataFails, AllInv, CallStep
  PROVE  /\ Still \/ (EntryFlushWrite /\ Top.k = "l2")
         /\ l1' = l1 /\ snap' = snap /\ \A i \in Half : Cached(i)' = Cached(i)
         /\ UNCHANGED <<requests, ghosts, lock, writethrough, l2>>
<1>0. /\ UNCHANGED <<lock, requests, ghosts, snap, l1, l2, writethrough>>
      /\ \A i \in Half : Cached(i)' = Cached(i)
  BY CallForms, CallKeepsCached DEF AllInv
<1>1. CASE Settled
  BY <1>0, <1>1, SettledStill
<1>2. CASE EntryFlushWrite /\ Top.k = "ref"
  BY <1>0, <1>2, RefWritten DEF Still
<1>3. EntryFlushWrite => Top.k \in Caches
  BY EntryWritten
<1>4. QED BY <1>0, <1>1, <1>2, <1>3, CallImage, CachesAre

(* Writing a table brings its entries, and nothing else, to the file.      *)
LEMMA TableWriteIs ==
  ASSUME OnlyDataFails, AllInv, EntryFlushWrite, Top.k = "l2"
  PROVE  /\ Possible(L1)' = Possible(L1) /\ depends["l2"] = None
         /\ UNCHANGED <<depends, pc, m, old, lock, l1, refcount>>
         /\ \A i \in Half : /\ Stored(i)' \subseteq Known(i) /\ Known(i)' \subseteq Known(i)
                            /\ Cached(i)' = Cached(i) /\ Filed(i)' \in {Filed(i), Cached(i)}
         /\ \A i \in Half, h \in Half : \A e \in Known(i) : Kept(e, h)
         /\ \A x \in Sectors : Shown(x)' = Shown(x)
         /\ \E t \in Clusters : <<"l2", t>> \in dirty /\ \A c \in Clusters \ {t}, h \in Half :
              file'[Cell(c, h)] = file[Cell(c, h)] /\ Possible(Cell(c, h))' = Possible(Cell(c, h))
<1> DEFINE t == Top.e
<1>0. /\ \A c \in Clusters \ {t}, i \in Half :
           /\ file'[Cell(c, i)] = file[Cell(c, i)]
           /\ Possible(Cell(c, i))' = Possible(Cell(c, i))
      /\ Possible(L1)' = Possible(L1)
      /\ \A i \in Half : file'[Cell(t, i)] = l2[t][i]
      /\ <<"l2", t>> \in dirty /\ depends["l2"] = None
  BY TableWritten
<1>1. UNCHANGED <<depends, pc, m, old, lock, l1, refcount>>
  BY EntryWritten
<1>2. ASSUME NEW i \in Half
      PROVE  Stored(i)' \subseteq Known(i) /\ Known(i)' \subseteq Known(i) /\ Cached(i)' = Cached(i)
  <2>1. Cached(i)' = Cached(i) /\ Stored(i)' \subseteq Stored(i) \cup {Cached(i)}
    BY WrittenTables
  <2>2. QED BY <2>1 DEF Known
<1>3. t \in DOMAIN l2 /\ t \in Clusters
  BY <1>0, DirtyTable
<1>4. ASSUME NEW i \in Half PROVE Filed(i)' \in {Filed(i), Cached(i)}
  <2>1. l1.c # 0 => l1.c \in Clusters
    BY CachedIs
  <2>2. l1.c # 0 /\ l1.c = t => file'[Cell(l1.c, i)] = Cached(i)
    BY <1>0, <1>3, CachedIs
  <2>3. QED BY <1>0, <1>1, <2>1, <2>2 DEF Filed
<1>5. ASSUME NEW i \in Half, NEW h \in Half, NEW e \in Known(i) PROVE Kept(e, h)
  <2>1. e.c # t /\ e \in EntrySet
    BY <1>0, DirtyApart, FiledIs
  <2>2. e.c # 0 => e.c \in Clusters \ {t}
    BY <2>1, EntriesAre
  <2>3. QED BY <1>0, <2>2, BehindKept
<1>6. ASSUME NEW x \in Sectors PROVE Shown(x)' = Shown(x)
  <2>1. x[1] \in Half /\ x[2] \in Half
    BY DEF Sectors, Guest, Half
  <2>2. Cached(x[1])' = Cached(x[1]) /\ Kept(Cached(x[1]), x[2])
    BY <2>1, <1>2, <1>5 DEF Known
  <2>3. QED BY <2>2 DEF Kept, Shown, Sector
<1>7. QED
  <2>1. \E s \in Clusters : <<"l2", s>> \in dirty /\ \A c \in Clusters \ {s}, h \in Half :
          file'[Cell(c, h)] = file[Cell(c, h)] /\ Possible(Cell(c, h))' = Possible(Cell(c, h))
    BY <1>0, <1>3
  <2>2. QED BY <1>0, <1>1, <1>2, <1>4, <1>5, <1>6, <2>1

(* A transfer changes the sectors hs of cluster c.                         *)
Puts(c, hs) ==
  /\ UNCHANGED <<l1, l2, snap, writethrough, refcount, dirty, depends, stack, ret, lock,
                 req, m, old, waits, promise, latest, count>>
  /\ Possible(L1)' = Possible(L1)
  /\ \A i \in Half : /\ Stored(i)' = Stored(i) /\ Cached(i)' = Cached(i)
                     /\ Known(i)' = Known(i) /\ Filed(i)' = Filed(i)
  /\ \A d \in Clusters : Possible(Ref(d))' = Possible(Ref(d))
  /\ \A d \in Clusters, h \in Half : d # c \/ h \notin hs =>
       file'[Cell(d, h)] = file[Cell(d, h)] /\ Possible(Cell(d, h))' = Possible(Cell(d, h))

(* The sectors that a write leaves to copy on write.                       *)
Rest(w) == Half \ req[w].halves

LEMMA PutsIs ==
  ASSUME AllInv, NEW c, Apart(c), NEW hs \in SUBSET Half, NEW from,
         Written([u \in {Cell(c, h) : h \in hs} |-> from[u[3]]]),
         UNCHANGED <<l1, l2, snap, writethrough, refcount, dirty, depends, stack, ret, lock,
                     req, m, old, waits, promise, latest, count>>
  PROVE  /\ Puts(c, hs)
         /\ \A h \in hs : /\ file'[Cell(c, h)] = from[h]
                          /\ Possible(Cell(c, h))' \subseteq Possible(Cell(c, h)) \cup {from[h]}
<1> DEFINE ws == [u \in {Cell(c, h) : h \in hs} |-> from[u[3]]]
<1>0. c \in Clusters /\ c # l1.c
  BY DEF Apart
<1>1. DOMAIN ws \subseteq {Cell(c, h) : h \in Half} /\ DOMAIN ws = {Cell(c, h) : h \in hs}
  OBVIOUS
<1>2. DOMAIN ws \subseteq Units
  BY <1>0, <1>1, UnitsAre
<1>3. \A h \in hs : Cell(c, h) \in DOMAIN ws /\ ws[Cell(c, h)] = from[h]
  BY <1>1, UnitsDiffer
<1>4. /\ \A d \in Clusters : Possible(Ref(d))' = Possible(Ref(d))
      /\ Possible(L1)' = Possible(L1)
      /\ \A i \in Half : Stored(i)' = Stored(i) /\ Cached(i)' = Cached(i)
  BY <1>1, DataWritten
<1>5. /\ \A u \in Units : u \notin DOMAIN ws =>
           file'[u] = file[u] /\ Possible(u)' = Possible(u)
      /\ \A u \in DOMAIN ws : file'[u] = ws[u] /\ Possible(u)' \subseteq Possible(u) \cup {ws[u]}
  BY <1>2, WrittenMeans
<1>6. \A d \in Clusters, h \in Half : d # c \/ h \notin hs =>
        file'[Cell(d, h)] = file[Cell(d, h)] /\ Possible(Cell(d, h))' = Possible(Cell(d, h))
  <2>1. ASSUME NEW d \in Clusters, NEW h \in Half, d # c \/ h \notin hs
        PROVE  Cell(d, h) \in Units /\ Cell(d, h) \notin DOMAIN ws
    BY <1>1, <2>1, UnitsAre, UnitsDiffer
  <2>2. QED BY <1>5, <2>1
<1>7. \A i \in Half : Filed(i)' = Filed(i)
  <2>1. l1.c # 0 => l1.c \in Clusters
    BY CachedIs
  <2>2. QED BY <1>0, <1>6, <2>1 DEF Filed
<1>8. \A i \in Half : Known(i)' = Known(i)
  BY <1>4 DEF Known
<1>9. QED BY <1>3, <1>4, <1>5, <1>6, <1>7, <1>8 DEF Puts

LEMMA WriteIs ==
  ASSUME AllInv, NEW w \in Cos, WriteData(w), NEW c, c = m[w].c
  PROVE  /\ pc[w] = "data" /\ Apart(c) /\ Goto(w, pc'[w])
         /\ \/ Still /\ pc'[w] = "failed"
            \/ /\ pc'[w] = "wrote" /\ Puts(c, req[w].halves)
               /\ \A h \in req[w].halves :
                    /\ file'[Cell(c, h)] = Data(req[w].v)
                    /\ Possible(Cell(c, h))' \subseteq Possible(Cell(c, h)) \cup {Data(req[w].v)}
<1>0. pc[w] = "data" /\ WaitInv
  BY DEF WriteData, AllInv
<1>1. Apart(c)
  BY <1>0, DataApart
<1>2. UNCHANGED <<l1, l2, snap, writethrough, refcount, dirty, depends, stack, ret, lock,
                  req, m, old, waits, promise, latest, count>>
  BY DEF WriteData, caches, calls, ghosts
<1>3. CASE /\ Written([u \in {Cell(m[w].c, h) : h \in req[w].halves} |-> Data(req[w].v)])
           /\ Goto(w, "wrote")
  <2> DEFINE from == [h \in Half |-> Data(req[w].v)]
  <2>1. req[w].halves \in SUBSET Half
    BY RequestIs
  <2>2. \A u \in {Cell(c, h) : h \in req[w].halves} : u[3] \in Half
    BY <2>1, UnitsDiffer
  <2>3. [u \in {Cell(m[w].c, h) : h \in req[w].halves} |-> Data(req[w].v)]
          = [u \in {Cell(c, h) : h \in req[w].halves} |-> from[u[3]]]
    BY <2>2
  <2>4. Written([u \in {Cell(c, h) : h \in req[w].halves} |-> from[u[3]]])
    BY <1>3, <2>3
  <2> HIDE DEF from
  <2>5. /\ Puts(c, req[w].halves)
        /\ \A h \in req[w].halves :
             /\ file'[Cell(c, h)] = from[h]
             /\ Possible(Cell(c, h))' \subseteq Possible(Cell(c, h)) \cup {from[h]}
    BY <1>1, <1>2, <2>1, <2>4, PutsIs
  <2>6. \A h \in req[w].halves : from[h] = Data(req[w].v)
    BY <2>1 DEF from
  <2>7. pc'[w] = "wrote"
    BY <1>0, <1>3, GotoIs
  <2>8. QED BY <1>0, <1>1, <1>3, <2>5, <2>6, <2>7
<1>4. CASE Goto(w, "failed") /\ UNCHANGED <<file, lost>>
  <2>1. pc'[w] = "failed"
    BY <1>0, <1>4, GotoIs
  <2>2. \A i \in Half : Cached(i)' = Cached(i)
    BY <1>2, <1>4 DEF Cached, Entries
  <2>3. Still
    BY <1>2, <1>4, <2>2 DEF Still, Possible
  <2>4. QED BY <1>0, <1>1, <1>4, <2>1, <2>3
<1>5. QED BY <1>3, <1>4 DEF WriteData

LEMMA CopyIs ==
  ASSUME AllInv, NEW w \in Cos, CopySectors(w), NEW c, c = m[w].c
  PROVE  /\ pc[w] = "copy" /\ Apart(c) /\ lock = None /\ Goto(w, pc'[w])
         /\ \/ Still /\ pc'[w] = "failed"
            \/ /\ pc'[w] = "copied" /\ Puts(c, Rest(w))
               /\ \A h \in Rest(w) :
                    /\ file'[Cell(c, h)] = Shown(<<req[w].g, h>>)
                    /\ Possible(Cell(c, h))' \subseteq
                         Possible(Cell(c, h)) \cup {Shown(<<req[w].g, h>>)}
<1>0. pc[w] = "copy" /\ lock = None /\ WaitInv
  BY DEF CopySectors, AllInv
<1>1. Apart(c)
  BY <1>0, DataApart
<1>2. UNCHANGED <<l1, l2, snap, writethrough, refcount, dirty, depends, stack, ret, lock,
                  req, m, old, waits, promise, latest, count>>
  BY DEF CopySectors, caches, calls, ghosts
<1>3. req[w].g \in Half /\ Cached(req[w].g) = Entries(l1.c)[req[w].g]
  <2>1. l1.flag = "copied"
    BY <1>0 DEF AllInv, RequestInv, Mapped
  <2>2. l1.c # 0
    BY <2>1, L1Private, ClustersAre
  <2>3. QED BY <2>2, RequestIs, CachedIs
<1> DEFINE e == Entries(l1.c)[req[w].g]
           ws == [u \in {Cell(m[w].c, h) : h \in Rest(w)} |->
                    IF e.c = 0 THEN Data(0) ELSE file[Cell(e.c, u[3])]]
           from == [h \in Half |-> Shown(<<req[w].g, h>>)]
<1>4. \/ Written(ws) /\ Goto(w, "copied")
      \/ Goto(w, "failed") /\ UNCHANGED <<file, lost>>
  BY DEF CopySectors, Rest
<1>5. CASE Written(ws) /\ Goto(w, "copied")
  <2>1. \A h \in Half : from[h] = (IF e.c = 0 THEN Data(0) ELSE file[Cell(e.c, h)])
    BY <1>3 DEF Shown, Sector
  <2>2. \A u \in {Cell(c, h) : h \in Rest(w)} : u[3] \in Half
    BY UnitsDiffer DEF Rest
  <2>3. ws = [u \in {Cell(c, h) : h \in Rest(w)} |-> from[u[3]]]
    BY <2>1, <2>2
  <2>4. Written([u \in {Cell(c, h) : h \in Rest(w)} |-> from[u[3]]])
    BY <1>5, <2>3
  <2>5. \A h \in Rest(w) : from[h] = Shown(<<req[w].g, h>>)
    BY DEF Rest
  <2> HIDE DEF from
  <2>6. /\ Puts(c, Rest(w))
        /\ \A h \in Rest(w) :
             /\ file'[Cell(c, h)] = from[h]
             /\ Possible(Cell(c, h))' \subseteq Possible(Cell(c, h)) \cup {from[h]}
    <3>1. Rest(w) \in SUBSET Half
      BY DEF Rest
    <3>2. QED BY <1>1, <1>2, <3>1, <2>4, PutsIs
  <2>7. pc'[w] = "copied"
    BY <1>0, <1>5, GotoIs
  <2>8. QED BY <1>0, <1>1, <1>5, <2>5, <2>6, <2>7
<1>6. CASE Goto(w, "failed") /\ UNCHANGED <<file, lost>>
  <2>1. pc'[w] = "failed"
    BY <1>0, <1>6, GotoIs
  <2>2. \A i \in Half : Cached(i)' = Cached(i)
    BY <1>2, <1>6 DEF Cached, Entries
  <2>3. Still
    BY <1>2, <1>6, <2>2 DEF Still, Possible
  <2>4. QED BY <1>0, <1>1, <1>6, <2>1, <2>3
<1>7. QED BY <1>4, <1>5, <1>6

LEMMA ProgressStill ==
  ASSUME OnlyDataFails, AllInv, NEW w \in Cos, Progress(w)
  PROVE  \/ Still \/ WriteL1Entry(w) \/ LinkL2(w) \/ Unmap(w)
         \/ WriteData(w) \/ CopySectors(w)
<1>1. /\ UNCHANGED <<snap, refcount, crashes, writethrough>>
      /\ \/ Settled /\ l1' = l1
         \/ Transfer(m[w].c) /\ pc[w] \in {"data", "copy"}
         \/ WriteL1Entry(w)
  BY ProgressImage
<1>2. ASSUME ~ LinkL2(w), ~ Unmap(w), Settled, l1' = l1 PROVE Still
  <2>1. \A i \in Half : Cached(i)' = Cached(i)
    BY <1>2, ProgressKeepsCache DEF Becomes
  <2>2. QED BY <1>1, <1>2, <2>1, SettledStill
<1>3. pc[w] \in {"data", "copy"} => WriteData(w) \/ CopySectors(w)
  BY DEF Progress, Enter, L2AllocateFailed, CallFailed, GetClusterTable, L2FlushRefcount,
         L2Copy, WriteL1Entry, SyncL1Entry, AllocClusterOffset, InsertInFlight, Relock,
         LinkL2, FreeOld, Done, Unmap, UnmapPut, FlushToOs, FlushDisk, Replace
<1>4. QED BY <1>1, <1>2, <1>3

(* The entry of a write is set, or that of a discard cleared; the file     *)
(* stays as it is.                                                         *)
Swaps(w, e) ==
  /\ UNCHANGED <<file, lost, snap, writethrough, refcount, l1, depends, lock, req, m,
                 promise, latest, count>>
  /\ pc[w] \in Locked /\ lock = w /\ stack = <<>> /\ req[w].g \in Half
  /\ \A i \in Half : /\ Stored(i)' = Stored(i)
                     /\ Cached(i)' = IF i = req[w].g THEN e ELSE Cached(i)
                     /\ Known(i)' \subseteq Known(i) \cup {e}
                     /\ Filed(i)' = Filed(i)
  /\ \A u : Possible(u)' = Possible(u)
  /\ \A a, h : Kept(a, h)

LEMMA LinkIs ==
  ASSUME OnlyDataFails, AllInv, NEW w \in Cos, LinkL2(w)
  PROVE  /\ Swaps(w, Entry(m[w].c, "copied")) /\ ~ Unmap(w)
         /\ pc[w] = "link" /\ Goto(w, "unlink") /\ pc'[w] = "unlink"
         /\ Holds(w) /\ m[w].c \in Clusters /\ m[w].alloc
         /\ old' = [old EXCEPT ![w] = Cached(req[w].g).c] /\ old'[w] = Cached(req[w].g).c
         /\ Cached(req[w].g).flag # "copied"
         /\ stack' = PutFrames("l2", l1.c) /\ depends["l2"] = "ref"
         /\ dirty' = dirty \cup {<<"l2", l1.c>>}
<1> USE DEF image, ghosts, calls, requests, caches
<1>0. /\ pc \in [Cos -> Locked \cup Unlocked] /\ old \in [Cos -> Clusters \cup {0}]
      /\ PlaceOk(w) /\ EntryOk(w) /\ req[w].g \in Half
  BY RequestInvIs, RequestIs DEF AllInv, WaitInv, PlacesType, TypeInv
<1>1. /\ pc[w] = "link" /\ lock = w /\ stack = <<>> /\ pc'[w] = "unlink" /\ Goto(w, "unlink")
      /\ UNCHANGED <<file, lost, snap, writethrough, refcount, l1, depends, lock, req, m,
                     promise, latest, count>>
      /\ stack' = PutFrames("l2", l1.c) /\ dirty' = dirty \cup {<<"l2", l1.c>>}
  BY <1>0 DEF LinkL2, Owns, Goto, SetL2Entry
<1>2. Holds(w) /\ m[w].alloc
  BY <1>0, <1>1 DEF Holds, PlaceOk
<1>3. old' = [old EXCEPT ![w] = Cached(req[w].g).c]
  <2>1. l1.c # 0
    BY <1>0, <1>1, CachedIs, EntriesAre DEF PlaceOk, Mapped
  <2>2. Entries(l1.c)[req[w].g] = Cached(req[w].g)
    BY <1>0, <2>1, CachedIs
  <2>3. QED BY <2>2 DEF LinkL2
<1>4. depends["l2"] = "ref"
  BY <1>1 DEF AllInv, OwnerInv
<1>5. ~ Unmap(w)
  BY <1>1 DEF Unmap
<1>6. ASSUME NEW i \in Half
      PROVE  /\ Stored(i)' = Stored(i)
             /\ Cached(i)' = IF i = req[w].g THEN Entry(m[w].c, "copied") ELSE Cached(i)
             /\ Known(i)' \subseteq Known(i) \cup {Entry(m[w].c, "copied")}
             /\ Filed(i)' = Filed(i)
  <2>0. Progress(w)
    BY DEF Progress
  <2>1. Cached(i)' = IF i = req[w].g THEN Entry(m[w].c, "copied") ELSE Cached(i)
    BY <1>5, <2>0, ProgressKeepsCache DEF Becomes
  <2>2. Stored(i)' = Stored(i) /\ Filed(i)' = Filed(i)
    BY <1>1 DEF Stored, Tables, Possible, Filed
  <2>3. QED BY <2>1, <2>2 DEF Known
<1>7. (\A u : Possible(u)' = Possible(u)) /\ \A a, h : Kept(a, h)
  BY <1>1 DEF Possible, Kept, Behind, Sector
<1>8. m[w].c \in Clusters /\ Cached(req[w].g).flag # "copied"
  BY <1>0, <1>2, HeldIs DEF EntryOk
<1>9. old'[w] = Cached(req[w].g).c
  BY <1>0, <1>3
<1>10. pc[w] \in Locked
  BY <1>1 DEF Locked
<1>11. QED BY <1>0, <1>1, <1>2, <1>3, <1>4, <1>5, <1>6, <1>7, <1>8, <1>9, <1>10 DEF Swaps

LEMMA UnmapSwaps ==
  ASSUME OnlyDataFails, AllInv, NEW w \in Cos, Unmap(w)
  PROVE  /\ Swaps(w, Unallocated) /\ ~ LinkL2(w)
         /\ pc[w] = "unmap" /\ Goto(w, "unmap_put") /\ pc'[w] = "unmap_put"
         /\ m' = m /\ old' = old /\ L2Entry(w) = Cached(req[w].g)
         /\ dirty' \subseteq dirty \cup {<<"l2", l1.c>>}
         /\ stack' = (IF Cached(req[w].g).c = 0 THEN <<>>
                      ELSE <<UpdateRefcount(Cached(req[w].g).c, -1)>>)
<1> USE DEF image, ghosts, calls, requests, caches
<1>0. pc \in [Cos -> Locked \cup Unlocked] /\ req[w].g \in Half
  BY RequestIs DEF AllInv, WaitInv, PlacesType
<1>1. /\ pc[w] = "unmap" /\ lock = w /\ stack = <<>> /\ pc'[w] = "unmap_put"
      /\ Goto(w, "unmap_put") /\ old' = old
      /\ UNCHANGED <<file, lost, snap, writethrough, refcount, l1, depends, lock, req, m,
                     promise, latest, count>>
      /\ dirty' \subseteq dirty \cup {<<"l2", l1.c>>}
      /\ stack' = IF L2Entry(w).c = 0 THEN <<>> ELSE <<UpdateRefcount(L2Entry(w).c, -1)>>
  BY <1>0 DEF Unmap, Owns, Goto, SetL2Entry
<1>2. ~ LinkL2(w)
  BY <1>1 DEF LinkL2
<1>3. L2Entry(w) = Cached(req[w].g)
  BY UnmapIs
<1>6. ASSUME NEW i \in Half
      PROVE  /\ Stored(i)' = Stored(i)
             /\ Cached(i)' = IF i = req[w].g THEN Unallocated ELSE Cached(i)
             /\ Known(i)' \subseteq Known(i) \cup {Unallocated}
             /\ Filed(i)' = Filed(i)
  <2>0. Progress(w)
    BY DEF Progress
  <2>1. Cached(i)' = IF i = req[w].g THEN Unallocated ELSE Cached(i)
    BY <1>2, <2>0, ProgressKeepsCache DEF Becomes
  <2>2. Stored(i)' = Stored(i) /\ Filed(i)' = Filed(i)
    BY <1>1 DEF Stored, Tables, Possible, Filed
  <2>3. QED BY <2>1, <2>2 DEF Known
<1>7. (\A u : Possible(u)' = Possible(u)) /\ \A a, h : Kept(a, h)
  BY <1>1 DEF Possible, Kept, Behind, Sector
<1>8. pc[w] \in Locked
  BY <1>1 DEF Locked
<1>9. QED BY <1>0, <1>1, <1>2, <1>3, <1>6, <1>7, <1>8 DEF Swaps

-----------------------------------------------------------------------------
(* Tables stay tables.                                                     *)

(* A table that is written is one already, or the one that a request is    *)
(* about to link, which nothing refers to.                                 *)
LEMMA DirtyKept ==
  ASSUME AllInv, NEW t, <<"l2", t>> \in dirty
  PROVE  Tabled(t) \/ TableKept(t)
<1>1. t \in DOMAIN l2 /\ t \in Clusters /\ t # snap
  BY DirtyTable
<1>2. \/ t = l1.c \/ \E w \in Cos : pc[w] = "l1_write" /\ m[w].c = t
  BY <1>1 DEF AllInv, CacheInv
<1>3. CASE t = l1.c
  <2>1. l1.c \in Tables /\ 0 \in Half
    BY <1>1, <1>3, CachedIs, ClustersAre, HalfAre
  <2>2. file[Cell(t, 0)] \in Stored(0)
    BY <1>3, <2>1, TablesClusters, PossibleIs DEF AllInv
  <2>3. file[Cell(t, 0)] \in EntrySet
    BY <2>1, <2>2 DEF AllInv, FileInv
  <2>4. IsEntry(file[Cell(t, 0)]) /\ file[Cell(t, 0)] \in Possible(Cell(t, 0))
    BY <2>3, DataIs, PossibleIs
  <2>5. QED BY <2>1, <2>4 DEF Tabled
<1>4. CASE \E w \in Cos : pc[w] = "l1_write" /\ m[w].c = t
  <2>1. PICK w \in Cos : pc[w] = "l1_write" /\ m[w].c = t
    BY <1>4
  <2>2. Holds(w) /\ Held(t)
    BY <2>1 DEF Held, Holds
  <2>3. lock = w
    BY <2>1, RequestIs DEF Locked
  <2>4. RefStable
    BY <2>1, <2>3 DEF AllInv, TableInv
  <2>5. HeldOk(t) /\ \A o \in Cos : Holds(o) /\ m[o].c = t => o = w
    BY <1>1, <2>1, <2>2 DEF AllInv, CountsInv, HeldInv
  <2>6. ~ Adding(t)
    <3>1. CASE stack = <<>>
      BY <3>1 DEF Adding, Updating
    <3>2. CASE stack # <<>>
      <4>1. OwnerCalls(pc[w], Outermost, m[w].c, old[w])
        BY <2>3, <3>2 DEF AllInv, OwnerInv
      <4>2. Outermost.f = "cache_flush"
        BY <2>1, <4>1 DEF OwnerCalls
      <4>3. QED BY <4>2 DEF Adding, Updating
    <3>3. QED BY <3>1, <3>2
  <2>7. refcount[t] = 1 /\ ~ Freeing(t)
    BY <2>5, <2>6 DEF HeldOk
  <2>8. \A r \in Possible(Ref(t)) : r >= 1
    BY <1>1, <2>4, <2>7, RefFlushed DEF RefStable
  <2>9. \A i \in Half : \A e \in Known(i) : e.c # t
    BY DirtyApart
  <2>10. QED BY <2>1, <2>5, <2>7, <2>8, <2>9 DEF TableKept
<1>5. QED BY <1>2, <1>3, <1>4

LEMMA CallKeepsTabled ==
  ASSUME OnlyDataFails, AllInv, TabledInv, CallStep
  PROVE  TabledInv'
<1>0. /\ Familiar /\ snap' = snap /\ pc' = pc /\ m' = m
      /\ \A c \in Clusters : \A r \in Possible(Ref(c))' : r \in Possible(Ref(c)) \/ r = refcount[c]
      /\ UNCHANGED <<pc, m, old>> /\ \A w \in Cos : Holds(w)' <=> Holds(w)
  BY CallFamiliar, CallHolders DEF Familiar
<1> SUFFICES ASSUME NEW c \in Clusters, Tabled(c)' PROVE TableKept(c)'
  BY DEF TabledInv
<1>1. TableKept(c)
  <2>1. CASE Tabled(c)
    BY <2>1 DEF TabledInv
  <2>2. CASE Still
    <3>1. Tabled(c)
      BY <2>2, StillMeans
    <3>2. QED BY <2>1, <3>1
  <2>3. CASE EntryFlushWrite /\ Top.k = "l2"
    <3>1. PICK t \in Clusters : <<"l2", t>> \in dirty /\ \A d \in Clusters \ {t}, h \in Half :
            Possible(Cell(d, h))' = Possible(Cell(d, h))
      BY <2>3, TableWriteIs
    <3>2. CASE c = t
      BY <2>1, <3>1, <3>2, DirtyKept
    <3>3. CASE c # t
      <4>1. Tabled(c)
        BY <3>1, <3>3 DEF Tabled
      <4>2. QED BY <2>1, <4>1
    <3>4. QED BY <3>2, <3>3
  <2>4. QED BY <2>2, <2>3, CallStill
<1>2. \A k, d : Updating(k, d)' => Updating(k, d)
  BY CallOutermost DEF AllInv
<1>3. Freeing(c)' => BySnap(c)'
  <2>1. Freeing(c)' => Freeing(c)
    BY <1>0, <1>2 DEF Freeing
  <2>2. BySnap(c)' <=> BySnap(c)
    BY <1>0 DEF BySnap
  <2>3. QED BY <1>1, <2>1, <2>2 DEF TableKept
<1>4. \A i \in Half : \A e \in Known(i)' : e.c # c
  <2>1. \A i \in Half : Known(i)' \subseteq Known(i)
    BY <1>0 DEF Familiar, Known
  <2>2. QED BY <1>1, <2>1 DEF TableKept
<1>5. \A r \in Possible(Ref(c))' : r >= 1
  BY <1>0, <1>1 DEF TableKept
<1>6. refcount'[c] >= 1
  <2>0. refcount \in [Clusters -> Nat] /\ refcount[c] >= 1
    BY <1>1 DEF AllInv, TypeInv, TableKept
  <2>1. CASE In("update_refcount", "apply")
    <3>1. /\ \A k, d : Updating(k, d) <=> k = Top.k /\ d = Top.e
          /\ Top.k \in {-1, 1} /\ Top.e \in Clusters
      <4>1. GoodFrame(Top)
        BY CallForms DEF AllInv
      <4>2. QED BY <2>1, <4>1, CallOutermost DEF AllInv, GoodFrame, In
    <3>2. refcount' = [refcount EXCEPT ![Top.e] = refcount[Top.e] + Top.k]
      BY <2>1 DEF CallStep, CacheFlushNext, CacheFlushEnd, EntryFlushStart,
             EntryFlushWrite, EntryFlushWritten, FlushDependencyStep, SetDependencyStep,
             UpdateRefcountStep, In
    <3>3. CASE c = Top.e /\ Top.k = -1
      <4>1. Freeing(c) /\ BySnap(c)
        BY <1>1, <3>1, <3>3 DEF Freeing, TableKept
      <4>2. ~ Held(c)
        BY <4>1 DEF AllInv, CountsInv, HeldInv, HeldOk
      <4>3. refcount[c] >= InMemory(c) + Bit(Freeing(c))
        BY <4>2 DEF AllInv, CountsInv, CountInv, CountOk
      <4>4. InMemory(c) >= 1 /\ Bit(Freeing(c)) = 1
        <5>1. Bit(Freeing(c)) = 1
          BY <4>1, BitIs
        <5>2. InMemory(c) # 0
          BY <4>1, NotInMemory
        <5>3. InMemory(c) \in Nat
          BY CountsAre
        <5>4. QED BY <5>1, <5>2, <5>3
      <4>5. refcount[c] >= 2
        BY <2>0, <4>3, <4>4, CountsAre
      <4>6. refcount'[c] = refcount[c] - 1
        BY <2>0, <3>2, <3>3
      <4>7. QED BY <2>0, <4>5, <4>6
    <3>4. CASE ~ (c = Top.e /\ Top.k = -1)
      <4>1. refcount'[c] \in {refcount[c], refcount[c] + 1}
        BY <2>0, <3>1, <3>2, <3>4
      <4>2. QED BY <2>0, <4>1
    <3>5. QED BY <3>3, <3>4
  <2>2. CASE ~ In("update_refcount", "apply")
    <3>1. refcount' = refcount
      BY <2>2 DEF CallStep, CacheFlushNext, CacheFlushEnd, EntryFlushStart,
             EntryFlushWrite, EntryFlushWritten, FlushDependencyStep, SetDependencyStep,
             UpdateRefcountStep, In, caches
    <3>2. QED BY <2>0, <3>1
  <2>3. QED BY <2>1, <2>2
<1>7. QED BY <1>0, <1>1, <1>3, <1>4, <1>5, <1>6 DEF TableKept

(* Only a request that enters data into a cluster makes it known.          *)
LEMMA ProgressKeepsTabled ==
  ASSUME OnlyDataFails, AllInv, TabledInv, NEW w \in Cos, Progress(w)
  PROVE  TabledInv'
<1>0. UNCHANGED <<snap, refcount>>
  BY ProgressImage
<1> SUFFICES ASSUME NEW c \in Clusters, Tabled(c)' PROVE TableKept(c)'
  BY DEF TabledInv
<1>1. TableKept(c)
  <2>1. SUFFICES Tabled(c)
    BY DEF TabledInv
  <2>2. CASE Still
    BY <2>2, StillMeans
  <2>3. CASE WriteL1Entry(w)
    <3>1. \A i \in Half : Possible(Cell(c, i))' = Possible(Cell(c, i))
      BY <2>3, WriteL1Is, UnitsAre, UnitsDiffer
    <3>2. QED BY <3>1 DEF Tabled
  <2>4. CASE LinkL2(w) \/ Unmap(w)
    <3>1. \A u : Possible(u)' = Possible(u)
      BY <2>4, LinkIs, UnmapSwaps DEF Swaps
    <3>2. QED BY <3>1 DEF Tabled
  <2>5. CASE ~ Still /\ WriteData(w)
    <3>0. PICK k : k = m[w].c
      OBVIOUS
    <3>1. /\ Puts(k, req[w].halves)
          /\ \A h \in req[w].halves :
               Possible(Cell(k, h))' \subseteq Possible(Cell(k, h)) \cup {Data(req[w].v)}
      BY <2>5, <3>0, WriteIs
    <3>2. \A h \in Half : Possible(Cell(c, h))' \subseteq Possible(Cell(c, h)) \cup {Data(req[w].v)}
      BY <3>1 DEF Puts
    <3>3. QED BY <3>2, DataIs DEF Tabled
  <2>6. CASE ~ Still /\ CopySectors(w)
    <3>0. PICK k : k = m[w].c
      OBVIOUS
    <3>1. /\ Puts(k, Rest(w))
          /\ \A h \in Rest(w) : Possible(Cell(k, h))' \subseteq
               Possible(Cell(k, h)) \cup {Shown(<<req[w].g, h>>)}
      BY <2>6, <3>0, CopyIs
    <3>2. \A h \in Half : Shown(<<req[w].g, h>>) \in DataSet
      <4>1. \A h \in Half : <<req[w].g, h>> \in Sectors
        BY RequestIs DEF Sectors
      <4>2. QED BY <4>1, ShownIs
    <3>3. \A h \in Half : \A d \in Possible(Cell(c, h))' : d \in Possible(Cell(c, h)) \/ d \in DataSet
      BY <3>1, <3>2 DEF Puts
    <3>4. QED BY <3>3, DataIs DEF Tabled
  <2>7. QED BY <2>2, <2>3, <2>4, <2>5, <2>6, ProgressStill
<1>2. c # 0 /\ Unallocated.c = 0
  BY ClustersAre, EntriesAre
<1>3. /\ \A r \in Possible(Ref(c))' : r >= 1
      /\ \A i \in Half : \A e \in Known(i)' : e.c # c
  <2>1. CASE WriteL1Entry(w)
    <3>1. Possible(Ref(c))' = Possible(Ref(c))
      BY <2>1, WriteL1Is, UnitsAre, UnitsDiffer
    <3>2. \A i \in Half : Known(i)' \subseteq Known(i)
      BY <2>1, WriteL1Is DEF Known
    <3>3. QED BY <1>1, <3>1, <3>2 DEF TableKept
  <2>2. CASE LinkL2(w)
    <3>1. Swaps(w, Entry(m[w].c, "copied")) /\ Holds(w) /\ pc[w] = "link"
      BY <2>2, LinkIs
    <3>2. m[w].c # c /\ Entry(m[w].c, "copied").c = m[w].c
      BY <1>1, <3>1, EntriesAre DEF TableKept
    <3>3. Possible(Ref(c))' = Possible(Ref(c))
      BY <3>1 DEF Swaps
    <3>4. \A i \in Half : Known(i)' \subseteq Known(i) \cup {Entry(m[w].c, "copied")}
      BY <3>1 DEF Swaps
    <3>5. QED BY <1>1, <3>2, <3>3, <3>4 DEF TableKept
  <2>3. CASE Unmap(w)
    <3>1. Swaps(w, Unallocated)
      BY <2>3, UnmapSwaps
    <3>2. Possible(Ref(c))' = Possible(Ref(c))
      BY <3>1 DEF Swaps
    <3>3. \A i \in Half : Known(i)' \subseteq Known(i) \cup {Unallocated}
      BY <3>1 DEF Swaps
    <3>4. QED BY <1>1, <1>2, <3>2, <3>3 DEF TableKept
  <2>4. CASE ~ WriteL1Entry(w) /\ ~ LinkL2(w) /\ ~ Unmap(w)
    <3>1. \A i \in Half : Cached(i)' = Cached(i)
      BY <2>4, ProgressKeepsCache DEF Becomes
    <3>2. Familiar /\ Possible(Ref(c))' \subseteq Possible(Ref(c))
      BY <2>4, <3>1, ProgressFamiliar
    <3>3. \A i \in Half : Known(i)' \subseteq Known(i)
      BY <3>2 DEF Familiar, Known
    <3>4. QED BY <1>1, <3>2, <3>3 DEF TableKept
  <2>5. QED BY <2>1, <2>2, <2>3, <2>4
<1>4. BySnap(c)' <=> BySnap(c)
  BY <1>0 DEF BySnap
<1>5. Freeing(c)' => BySnap(c)
  <2>0. \A o \in Cos : pc[o] \in {"l1_sync", "unlink"} => lock = o
    BY RequestIs DEF Locked
  <2>1. CASE WriteL1Entry(w)
    <3>1. /\ lock = w /\ stack = <<>> /\ stack' = stack /\ l1.c \in {0, snap}
          /\ old' = [old EXCEPT ![w] = l1.c] /\ snap \in {0, 1}
      BY <2>1, WriteL1Is DEF AllInv, TypeInv
    <3>2. \A o \in Cos : o # w => pc'[o] \notin {"l1_sync", "unlink"}
      <4>1. ASSUME NEW o \in Cos, o # w PROVE pc'[o] \notin {"l1_sync", "unlink"}
        <5>1. pc[o] \notin {"l1_sync", "unlink"}
          BY <2>0, <3>1, <4>1
        <5>2. QED BY <4>1, <5>1, OthersStay
      <4>2. QED BY <4>1
    <3>3. ASSUME Freeing(c)' PROVE BySnap(c)
      <4>1. \E o \in Cos : pc'[o] \in {"l1_sync", "unlink"} /\ old'[o] = c
        BY <3>1, <3>3, UpdatingIs DEF Freeing
      <4>2. old'[w] = c
        BY <3>2, <4>1
      <4>3. l1.c = c
        BY <3>1, <4>2 DEF AllInv, TypeInv
      <4>4. QED BY <1>2, <3>1, <4>3 DEF BySnap
    <3>4. QED BY <3>3
  <2>2. CASE LinkL2(w)
    <3>1. /\ Swaps(w, Entry(m[w].c, "copied")) /\ old'[w] = Cached(req[w].g).c
          /\ stack' = PutFrames("l2", l1.c)
      BY <2>2, LinkIs
    <3>2. old'[w] # c
      BY <1>1, <3>1 DEF Swaps, Known, TableKept
    <3>3. \A k, d : ~ Updating(k, d)'
      BY <3>1, UpdatingIs, FramesAre DEF PutFrames, EntryFlush
    <3>4. \A o \in Cos : o # w => pc'[o] \notin {"l1_sync", "unlink"}
      BY <2>2, SwapImage
    <3>5. QED BY <3>2, <3>3, <3>4 DEF Freeing
  <2>3. CASE Unmap(w)
    <3>1. /\ Swaps(w, Unallocated) /\ pc'[w] = "unmap_put"
          /\ stack' = (IF Cached(req[w].g).c = 0 THEN <<>>
                       ELSE <<UpdateRefcount(Cached(req[w].g).c, -1)>>)
      BY <2>3, UnmapSwaps
    <3>2. Cached(req[w].g).c # c
      BY <1>1, <3>1 DEF Swaps, Known, TableKept
    <3>3. ~ Updating(-1, c)'
      BY <3>1, <3>2, UpdatingIs
    <3>4. \A o \in Cos : o # w => pc'[o] \notin {"l1_sync", "unlink"}
      BY <2>3, SwapImage
    <3>5. QED BY <3>1, <3>3, <3>4 DEF Freeing
  <2>4. CASE ~ WriteL1Entry(w) /\ ~ LinkL2(w) /\ ~ Unmap(w)
    <3>1. Freeing(c)' <=> Freeing(c)
      BY <2>4, FreeingStays
    <3>2. QED BY <1>1, <3>1 DEF TableKept
  <2>5. QED BY <2>1, <2>2, <2>3, <2>4
<1>6. ASSUME NEW o \in Cos, Holds(o)', m'[o].c = c PROVE pc'[o] = "l1_write"
  <2>1. CASE o # w
    <3>1. Holds(o) /\ m[o].c = c
      BY <1>6, <2>1, OthersHold
    <3>2. pc[o] = "l1_write"
      BY <1>1, <3>1 DEF TableKept
    <3>3. QED BY <2>1, <3>2, OthersStay
  <2>2. CASE o = w /\ Takes(w)
    <3>1. PICK d \in Clusters : AllocCluster(d) /\ m'[w].c = d
      BY <2>2, TakesIs
    <3>2. refcount[c] = 0
      BY <1>6, <2>2, <3>1 DEF AllocCluster, Free
    <3>3. QED BY <1>1, <3>2 DEF TableKept
  <2>3. CASE o = w /\ LinkL2(w)
    <3>1. pc'[w] = "unlink"
      BY <2>3, LinkIs
    <3>2. QED BY <1>6, <2>3, <3>1 DEF Holds
  <2>4. CASE o = w /\ WriteL1Entry(w)
    <3>1. pc'[w] = "l1_sync"
      BY <2>4, WriteL1Is
    <3>2. QED BY <1>6, <2>4, <3>1 DEF Holds
  <2>5. CASE o = w /\ ~ Takes(w) /\ ~ LinkL2(w) /\ ~ WriteL1Entry(w)
    <3>1. Holds(w) /\ m'[w].c = m[w].c
      BY <1>6, <2>5, HoldsStays
    <3>2. pc[w] = "l1_write"
      BY <1>1, <1>6, <2>5, <3>1 DEF TableKept
    <3>3. ret = TRUE
      BY DEF AllInv, ShapeInv
    <3>4. FALSE
      BY <2>5, <3>2, <3>3
      DEF Progress, Enter, L2AllocateFailed, CallFailed, GetClusterTable, L2FlushRefcount,
         L2Copy, SyncL1Entry, AllocClusterOffset, InsertInFlight, Relock, WriteData, CopySectors,
         LinkL2, FreeOld, Done, Unmap, UnmapPut, FlushToOs, FlushDisk, Replace
    <3>5. QED BY <3>4
  <2>6. QED BY <2>1, <2>2, <2>3, <2>4, <2>5
<1>7. refcount'[c] >= 1
  BY <1>0, <1>1 DEF TableKept
<1>8. QED BY <1>3, <1>4, <1>5, <1>6, <1>7 DEF TableKept

(* What an image that is opened must have for TabledInv.                   *)
TablesGood ==
  \A c \in Clusters : Tabled(c) => file[Ref(c)] >= 1 /\ \A i \in Half : Cached(i).c # c

LEMMA OpenedKeepsTabled ==
  ASSUME Opened, FileInv, TablesGood
  PROVE  TabledInv
<1> SUFFICES ASSUME NEW c \in Clusters, Tabled(c) PROVE TableKept(c)
  BY DEF TabledInv
<1>1. file[Ref(c)] >= 1 /\ \A i \in Half : Cached(i).c # c
  BY DEF TablesGood
<1>2. \A i \in Half : Known(i) = {Cached(i)}
  BY OpenedEntries DEF Known
<1>3. refcount[c] >= 1 /\ \A r \in Possible(Ref(c)) : r >= 1
  BY <1>1, OpenedEntries, UnitsAre DEF Opened
<1>4. ~ Freeing(c)
  BY UpdatingIs DEF Opened, Freeing
<1>5. \A w \in Cos : ~ Holds(w)
  BY DEF Opened, Holds, NoMeta
<1>6. QED BY <1>1, <1>2, <1>3, <1>4, <1>5 DEF TableKept

LEMMA OpenedTabledNext == Opened' /\ FileInv' /\ TablesGood' => TabledInv'
<1>1. Opened /\ FileInv /\ TablesGood => TabledInv
  BY OpenedKeepsTabled
<1>2. QED BY <1>1, PTL

LEMMA CrashKeepsTabled ==
  ASSUME AllInv, TabledInv, Crash
  PROVE  TabledInv'
<1>1. Opened' /\ FileInv'
  BY CrashImage
<1>2. ASSUME NEW c \in Clusters, Tabled(c)'
      PROVE  file'[Ref(c)] >= 1 /\ \A i \in Half : Cached(i)'.c # c
  <2>1. Tabled(c)
    BY <1>2, CrashImage, UnitsAre DEF Tabled
  <2>2. TableKept(c)
    BY <2>1 DEF TabledInv
  <2>3. file'[Ref(c)] >= 1
    BY <2>2, CrashImage, UnitsAre DEF TableKept
  <2>4. ASSUME NEW i \in Half PROVE Cached(i)'.c # c
    <3>1. Cached(i)' \in Stored(i) \cup {Unallocated}
      BY CrashEntries
    <3>2. QED BY <2>2, <3>1, EntriesAre, ClustersAre DEF TableKept, Known
  <2>5. QED BY <2>3, <2>4
<1>3. TablesGood'
  BY <1>2 DEF TablesGood
<1>4. QED BY <1>1, <1>3, OpenedTabledNext

LEMMA InitTabled ==
  ASSUME Init
  PROVE  TabledInv
<1>1. Opened /\ FileInv
  BY InitOpened, InitFile
<1>2. PICK kind \in {"plain", "shared", "compressed", "empty"} : file = FreshImage(kind)
  BY InitOpened
<1>3. ASSUME NEW c \in Clusters, Tabled(c)
      PROVE  file[Ref(c)] >= 1 /\ \A i \in Half : Cached(i).c # c
  <2>1. PICK i \in Half : IsEntry(file[Cell(c, i)])
    BY <1>1, <1>3, OpenedEntries, UnitsAre DEF Tabled
  <2>2. kind # "empty" /\ c = 1
    <3>1. kind # "empty"
      BY <1>2, <2>1, FreshIs, DataIs
    <3>2. c # 2
      BY <1>2, <2>1, <3>1, FreshIs, DataIs
    <3>3. QED BY <1>2, <2>1, <3>1, <3>2, FreshIs, DataIs
  <2>3. file[Ref(c)] >= 1
    BY <1>2, <2>2, FreshIs
  <2>4. /\ file[L1] = Entry(1, IF kind = "shared" THEN "none" ELSE "copied")
        /\ \E flag \in Flags : file[Cell(1, 0)] = Entry(2, flag)
        /\ file[Cell(1, 1)] = Unallocated
    BY <1>2, <2>2, FreshIs
  <2>5. l1.c = 1
    BY <1>1, <2>4, EntriesAre DEF Opened
  <2>6. \A j \in Half : Cached(j) = file[Cell(1, j)]
    BY <1>1, <2>5, OpenedEntries
  <2>7. \A j \in Half : Cached(j).c \in {0, 2}
    BY <2>4, <2>6, EntriesAre, HalfAre
  <2>8. QED BY <2>2, <2>3, <2>7
<1>4. TablesGood
  BY <1>3 DEF TablesGood
<1>5. QED BY <1>1, <1>4, OpenedKeepsTabled

LEMMA SubmitStill ==
  ASSUME AllInv, NEW w \in Cos, SubmitAny(w)
  PROVE  /\ Still /\ UNCHANGED <<image, caches, calls, m, old, waits, crashes, errors>>
         /\ UNCHANGED <<file, lost, snap, writethrough, refcount, l2, l1, dirty, depends,
                        stack, lock>>
         /\ pc[w] = "idle" /\ Goto(w, "enter")
<1>1. UNCHANGED <<image, caches, calls, m, old, waits, crashes, errors>>
      /\ pc[w] = "idle" /\ Goto(w, "enter")
  BY SubmitStays
<1>2. UNCHANGED <<file, lost, snap, writethrough, refcount, l2, l1, dirty, depends, stack, lock>>
  BY <1>1 DEF image, caches, calls
<1>3. \A i \in Half : Cached(i)' = Cached(i)
  BY <1>2 DEF Cached, Entries
<1>4. Still
  BY <1>2, <1>3 DEF Still, Possible
<1>5. QED BY <1>1, <1>2, <1>4

LEMMA SubmitKeepsTabled ==
  ASSUME AllInv, TabledInv, NEW w \in Cos, SubmitAny(w)
  PROVE  TabledInv'
<1>0. WaitInv
  BY DEF AllInv
<1>1. /\ Still /\ UNCHANGED <<file, lost, snap, refcount, stack, m, old>>
      /\ pc[w] = "idle" /\ Goto(w, "enter")
  BY SubmitStill
<1>2. ASSUME NEW c \in Clusters, Tabled(c)' PROVE TableKept(c)'
  <2>1. TableKept(c)
    BY <1>1, <1>2, StillMeans DEF TabledInv
  <2>2. refcount'[c] >= 1 /\ \A r \in Possible(Ref(c))' : r >= 1
    BY <1>1, <2>1 DEF TableKept, Possible
  <2>3. \A i \in Half : \A e \in Known(i)' : e.c # c
    BY <1>1, <2>1, StillMeans DEF TableKept
  <2>4. pc'[w] = "enter" /\ \A o \in Cos : o # w => pc'[o] = pc[o]
    BY <1>0, <1>1, GotoIs
  <2>5. Freeing(c)' => BySnap(c)'
    <3>1. Freeing(c)' => Freeing(c)
      BY <1>1, <2>4, UpdatingIs DEF Freeing
    <3>2. QED BY <1>1, <2>1, <3>1 DEF TableKept, BySnap
  <2>6. ASSUME NEW o \in Cos, Holds(o)', m'[o].c = c PROVE pc'[o] = "l1_write"
    BY <1>1, <2>1, <2>4, <2>6 DEF Holds, TableKept
  <2>7. QED BY <2>2, <2>3, <2>5, <2>6 DEF TableKept
<1>3. QED BY <1>2 DEF TabledInv

-----------------------------------------------------------------------------
(* How a request goes on.                                                  *)

(* A request ends: done, or failed.                                        *)
Finishes(w, done) ==
  /\ Leave(w, done) /\ (Owns(w) \/ lock = None)
  /\ done => \/ pc[w] = "wrote" /\ ~ m[w].alloc /\ lock = None
             \/ pc[w] = "done" /\ Owns(w)

LEMMA RequestLeaves ==
  ASSUME OnlyDataFails, AllInv, NEW w \in Cos, Progress(w)
  PROVE  \/ \E done \in BOOLEAN : Finishes(w, done)
         \/ FlushDisk(w) /\ Settled
         \/ UNCHANGED <<promise, latest, count, req>> /\ Goto(w, pc'[w])
<1> USE DEF calls, caches, requests, image, ghosts
<1>0. /\ ret = TRUE /\ (\A o \in Cos : pc[o] # "l2_put")
      /\ pc \in [Cos -> Locked \cup Unlocked] /\ DOMAIN lost = Units
  BY DEF AllInv, ShapeInv, WaitInv, PlacesType, TypeInv
<1>1. CASE CallFailed(w)
  BY <1>0, <1>1 DEF CallFailed, Fail, Finishes
<1>2. CASE Done(w)
  BY <1>2 DEF Done, Finishes
<1>3. CASE Relock(w)
  BY <1>0, <1>3 DEF Relock, Fail, Finishes, Goto
<1>4. CASE FlushDisk(w)
  BY <1>0, <1>4, FlushSettles DEF FlushDisk, Settled
<1>5. CASE \/ Enter(w) \/ L2AllocateFailed(w)
           \/ GetClusterTable(w) \/ L2FlushRefcount(w) \/ L2Copy(w)
           \/ SyncL1Entry(w) \/ InsertInFlight(w)
           \/ LinkL2(w) \/ FreeOld(w) \/ Unmap(w) \/ UnmapPut(w) \/ FlushToOs(w)
  <2>1. \A l : Goto(w, l) => Goto(w, pc'[w])
    BY <1>0 DEF Goto
  <2>2. \E l : Goto(w, l)
    BY <1>5 DEF Enter, L2AllocateFailed, GetClusterTable, L2FlushRefcount, L2Copy,
           SyncL1Entry, InsertInFlight, LinkL2, FreeOld, Unmap, UnmapPut, FlushToOs
  <2>3. UNCHANGED <<promise, latest, count, req>>
    BY <1>5 DEF Enter, L2AllocateFailed, GetClusterTable, L2FlushRefcount, L2Copy,
           SyncL1Entry, InsertInFlight, LinkL2, FreeOld, Unmap, UnmapPut, FlushToOs
  <2>4. QED BY <2>1, <2>2, <2>3
<1>6. CASE WriteL1Entry(w)
  BY <1>0, <1>6, TablesNeverFail DEF WriteL1Entry, Goto
<1>7. CASE AllocClusterOffset(w) \/ WriteData(w) \/ CopySectors(w) \/ Replace(w)
  <2>1. \A l : Goto(w, l) => Goto(w, pc'[w])
    BY <1>0 DEF Goto
  <2>2. \E l : Goto(w, l)
    BY <1>7 DEF AllocClusterOffset, WriteData, CopySectors, Replace
  <2>3. UNCHANGED <<promise, latest, count, req>>
    BY <1>7 DEF AllocClusterOffset, WriteData, CopySectors, Replace
  <2>4. QED BY <2>1, <2>2, <2>3
<1>8. QED BY <1>1, <1>2, <1>3, <1>4, <1>5, <1>6, <1>7 DEF Progress

(* Where it comes from.                                                    *)
LEMMA CameFrom ==
  ASSUME OnlyDataFails, AllInv, NEW w \in Cos, Progress(w)
  PROVE  /\ pc'[w] \in {"get", "evict"} => pc[w] = "get" \/ Enter(w)
         /\ pc'[w] \in {"unmap", "unmap_put", "unmapped"} =>
              \/ pc[w] \in {"unmap", "unmap_put"}
              \/ GetClusterTable(w) /\ req[w].op = "discard"
         /\ pc'[w] \in {"map", "mapped", "data", "wrote", "copy", "copied", "failed", "link",
                        "unlink"} =>
              \/ pc[w] \in {"map", "mapped", "data", "wrote", "copy", "copied", "failed", "link"}
              \/ GetClusterTable(w) /\ req[w].op = "write"
         /\ pc'[w] = "unmapped" => UnmapPut(w) /\ pc[w] = "unmap_put" /\ lock = w
                                     /\ stack' = PutFrames("l2", l1.c)
         /\ pc'[w] = "wrote" => WriteData(w)
         /\ pc'[w] = "copied" => CopySectors(w)
         /\ pc'[w] = "copy" => Relock(w) /\ pc[w] = "wrote" /\ m[w].alloc
         /\ pc'[w] = "link" => \/ pc[w] = "copied"
                               \/ pc[w] = "wrote" /\ m[w].alloc /\ req[w].halves = Half
         /\ pc'[w] = "done" => FreeOld(w) \/ pc[w] \in {"unmapped", "evict"}
         /\ pc'[w] = "flush_ref" => pc[w] = "flush_l2" /\ stack' = <<CacheFlush("l2")>>
         /\ pc'[w] \in {"flush_file", "flush_disk"} =>
              \/ pc[w] = "flush_ref" /\ stack = <<>>
              \/ pc[w] = "flush_file"
<1> USE DEF calls, caches, requests, image, ghosts
<1>0. /\ ret = TRUE /\ (\A o \in Cos : pc[o] # "l2_put")
      /\ pc \in [Cos -> Locked \cup Unlocked] /\ WaitInv
  BY DEF AllInv, ShapeInv, WaitInv, PlacesType
<1>1. \A l : Goto(w, l) => pc'[w] = l
  BY <1>0 DEF Goto
<1>2. CASE (\E done : Leave(w, done)) \/ FlushDisk(w)
  <2>1. pc'[w] = "idle"
    BY <1>0, <1>2 DEF Leave, FlushDisk, Goto
  <2>2. QED BY <2>1
<1>3. CASE Enter(w)
  <2>1. pc'[w] \in {"table", "flush_l2", "get"}
    BY <1>1, <1>3 DEF Enter
  <2>2. QED BY <1>3, <2>1
<1>4. CASE \/ L2AllocateFailed(w) \/ L2FlushRefcount(w) \/ L2Copy(w)
           \/ SyncL1Entry(w) \/ WriteL1Entry(w)
  <2>1. pc'[w] \in {"l2_put", "l2_copy", "l1_write", "table", "l1_sync"}
    BY <1>0, <1>1, <1>4, TablesNeverFail
    DEF L2AllocateFailed, L2FlushRefcount, L2Copy, SyncL1Entry, WriteL1Entry
  <2>2. QED BY <2>1
<1>5. CASE GetClusterTable(w)
  BY <1>1, <1>5 DEF GetClusterTable
<1>6. CASE AllocClusterOffset(w) \/ InsertInFlight(w)
  <2>1. pc[w] \in {"map", "mapped"} /\ pc'[w] \in {"data", "waiting", "mapped"}
    BY <1>1, <1>6 DEF AllocClusterOffset, InsertInFlight
  <2>2. QED BY <2>1
<1>7. CASE WriteData(w) \/ CopySectors(w)
  <2>1. \/ WriteData(w) /\ pc[w] = "data" /\ pc'[w] \in {"wrote", "failed"}
        \/ CopySectors(w) /\ pc[w] = "copy" /\ pc'[w] \in {"copied", "failed"}
    BY <1>1, <1>7 DEF WriteData, CopySectors
  <2>2. QED BY <2>1
<1>8. CASE Relock(w) /\ ~ \E done : Leave(w, done)
  <2>1. \/ pc[w] = "wrote" /\ m[w].alloc /\ pc'[w] = "copy"
        \/ m[w].alloc /\ pc'[w] = "link" /\ pc[w] \in {"wrote", "copied"}
             /\ (pc[w] = "copied" \/ req[w].halves = Half)
    BY <1>1, <1>8 DEF Relock, Fail, NeedsCow
  <2>2. QED BY <1>8, <2>1
<1>9. CASE LinkL2(w) \/ FreeOld(w)
  <2>1. \/ pc[w] = "link" /\ pc'[w] = "unlink"
        \/ FreeOld(w) /\ pc'[w] = "done"
    BY <1>1, <1>9 DEF LinkL2, FreeOld
  <2>2. QED BY <2>1
<1>10. CASE Unmap(w) \/ UnmapPut(w)
  <2>1. \/ pc[w] = "unmap" /\ pc'[w] = "unmap_put"
        \/ /\ pc[w] = "unmap_put" /\ pc'[w] = "unmapped" /\ UnmapPut(w) /\ lock = w
           /\ stack' = PutFrames("l2", l1.c)
        \/ pc[w] = "unmapped" /\ pc'[w] = "done"
    BY <1>1, <1>10 DEF Unmap, UnmapPut, Owns
  <2>2. QED BY <2>1
<1>11. CASE FlushToOs(w)
  BY <1>1, <1>11 DEF FlushToOs, Owns
<1>12. CASE Replace(w)
  <2>1. \/ pc[w] = "get" /\ pc'[w] = "evict"
        \/ pc[w] = "evict" /\ pc'[w] = "done"
    BY <1>1, <1>12 DEF Replace
  <2>2. QED BY <2>1
<1>13. CallFailed(w) \/ Done(w) => \E done : Leave(w, done)
  BY DEF CallFailed, Fail, Done
<1>14. QED BY <1>2, <1>3, <1>4, <1>5, <1>6, <1>7, <1>8, <1>9, <1>10, <1>11, <1>12, <1>13
       DEF Progress

(* While a request owns the lock the others only transfer data.            *)
LEMMA OwnerStays ==
  ASSUME OnlyDataFails, AllInv, NEW w \in Cos, Progress(w), NEW o \in Cos, o # w, lock = o
  PROVE  /\ UNCHANGED <<lock, stack, l1, l2, dirty, depends>>
         /\ pc'[o] = pc[o] /\ m'[o] = m[o] /\ old'[o] = old[o] /\ req'[o] = req[o]
<1>0. None \notin Cos
  BY QcowAssumption
<1>1. pc[o] \in Locked /\ pc[o] # "waiting"
  BY RequestIs DEF Locked
<1>2. pc'[o] = pc[o] /\ m'[o] = m[o] /\ old'[o] = old[o] /\ req'[o] = req[o]
  BY <1>1, OthersStay
<1>3. UNCHANGED <<l1, l2, dirty>>
  BY AsideStep
<1>4. WriteData(w) \/ FlushDisk(w)
  BY <1>0 DEF Progress, Enter, L2AllocateFailed, CallFailed, GetClusterTable, L2FlushRefcount,
         L2Copy, WriteL1Entry, SyncL1Entry, AllocClusterOffset, InsertInFlight, Relock,
         CopySectors, LinkL2, FreeOld, Done, Unmap, UnmapPut, FlushToOs, Replace, Owns
<1>5. UNCHANGED <<lock, stack, depends>>
  BY <1>4 DEF WriteData, FlushDisk, calls, caches
<1>6. QED BY <1>2, <1>3, <1>5

LEMMA OwnerWas ==
  ASSUME OnlyDataFails, AllInv, NEW w \in Cos, Progress(w), NEW o \in Cos, o # w, lock' = o
  PROVE  lock = o
BY LockGoes, QcowAssumption

LEMMA DirtyGoes ==
  ASSUME OnlyDataFails, AllInv, NEW w \in Cos, Progress(w)
  PROVE  dirty' = dirty \/ LinkL2(w) \/ Unmap(w) \/ L2Copy(w)
BY DEF Progress, Enter, GetClusterTable, AllocClusterOffset, CallFailed, Fail, L2AllocateFailed,
     L2FlushRefcount, WriteL1Entry, SyncL1Entry, Done, Leave, InsertInFlight, WriteData, Relock,
     CopySectors, FreeOld, UnmapPut, FlushToOs, FlushDisk, Replace, caches

-----------------------------------------------------------------------------
(* The writethrough caches: what a call wrote is in the file, and durable, *)
(* when no call is under way.                                              *)

(* Only the table being written may be lost.                               *)
LostThrough ==
  \A u \in Units : lost[u] # {} =>
    In("entry_flush", "written") /\ u \in DOMAIN Contents(Top.k, Top.e)

(* Request w is to put the table of the dirty buffer d, or has just done.  *)
Puttable(w, d) ==
  /\ lock = w
  /\ \/ pc[w] \in {"unlink", "unmapped"} /\ stack # <<>> /\ d[2] = l1.c
     \/ pc[w] = "unmap_put" /\ d[2] = l1.c
     \/ pc[w] = "l1_write" /\ stack # <<>>
DirtyThrough == \A d \in dirty : d[1] = "l2" => \E w \in Cos : Puttable(w, d)
(* Putting a table writes it.                                              *)
PutThrough ==
  \A w \in Cos : lock = w /\ pc[w] \in {"unlink", "unmapped"} /\ stack # <<>> =>
    Outermost.f = "entry_flush" /\ Outermost.k = "l2" /\ Outermost.e = l1.c
ThroughInv == writethrough => LostThrough /\ DirtyThrough /\ PutThrough

LEMMA CallKeepsLost ==
  ASSUME OnlyDataFails, AllInv, CallStep, writethrough, LostThrough
  PROVE  LostThrough'
<1>0. StackType /\ stack # <<>> /\ ret = TRUE /\ DOMAIN lost = Units
  BY CallForms DEF AllInv, ShapeInv, TypeInv
<1>1. CASE EntryFlushWritten
  <2>1. lost' = [u \in Units |-> {}]
    BY <1>1 DEF EntryFlushWritten, Flushed
  <2>2. QED BY <2>1 DEF LostThrough
<1>2. CASE EntryFlushWrite
  <2>1. Top.f = "entry_flush" /\ Top.at = "write" /\ Calls(<<>>, "written")
    BY <1>0, <1>2, TablesNeverFail DEF EntryFlushWrite, In
  <2>2. \A u \in Units : lost[u] = {}
    BY <2>1 DEF LostThrough, In
  <2>3. PICK k, e : k = Top.k /\ e = Top.e
    OBVIOUS
  <2>4. /\ stack' # <<>> /\ Top'.f = "entry_flush" /\ Top'.at = "written"
        /\ Top'.k = k /\ Top'.e = e
    BY <1>0, <2>1, <2>3, CallMoves, StackIs DEF SameCall
  <2>5. k \in Caches /\ \A u \in Units \ Fills(k, e) : lost'[u] = {}
    BY <1>2, <2>2, <2>3, EntryWritten
  <2>6. DOMAIN Contents(k, e)' = Fills(k, e)
    BY <2>5, CachesAre DEF Contents, Fills
  <2>7. DOMAIN Contents(Top.k, Top.e)' = Fills(k, e)
    BY <2>4, <2>6 DEF Contents
  <2>8. QED BY <2>4, <2>5, <2>7 DEF LostThrough, In
<1>3. CASE ~ EntryFlushWritten /\ ~ EntryFlushWrite
  <2>1. ~ In("entry_flush", "written")
    BY <1>3 DEF CallStep, CacheFlushNext, CacheFlushEnd, EntryFlushStart, FlushDependencyStep,
           SetDependencyStep, UpdateRefcountStep, In
  <2>2. \A u \in Units : lost[u] = {}
    BY <2>1 DEF LostThrough
  <2>3. \A u \in Units : lost'[u] = {}
    BY <1>3, <2>2, CallImage DEF Settled
  <2>4. QED BY <2>3 DEF LostThrough
<1>4. QED BY <1>1, <1>2, <1>3

LEMMA ProgressKeepsLost ==
  ASSUME OnlyDataFails, AllInv, NEW w \in Cos, Progress(w), writethrough, LostThrough
  PROVE  LostThrough'
<1>0. DOMAIN lost = Units
  BY DEF AllInv, TypeInv
<1>1. \A u \in Units : lost'[u] # {} => lost[u] # {}
  <2>1. CASE Settled
    BY <2>1 DEF Settled
  <2>2. CASE \E ws : Written(ws)
    BY <2>2 DEF Written
  <2>3. QED BY <2>1, <2>2, ProgressImage DEF Transfer, WriteL1Entry
<1>2. CASE stack = <<>>
  BY <1>1, <1>2 DEF LostThrough, In
<1>3. CASE stack # <<>>
  <2>1. pc[w] \in {"data", "flush_disk"} /\ stack' = stack
    BY <1>3, OwnStack
  <2>2. UNCHANGED <<refcount, l2>>
    <3>1. lock # w
      BY <2>1, RequestIs DEF Locked
    <3>2. QED BY <3>1, AsideStep
  <2>3. \A k, e : Contents(k, e)' = Contents(k, e)
    BY <2>2 DEF Contents
  <2>4. Top' = Top
    BY <2>1 DEF Top
  <2>5. PICK k, e : k = Top.k /\ e = Top.e
    OBVIOUS
  <2>6. ASSUME NEW u \in Units, lost'[u] # {}
        PROVE  In("entry_flush", "written")' /\ u \in DOMAIN Contents(Top.k, Top.e)'
    <3>1. In("entry_flush", "written") /\ u \in DOMAIN Contents(k, e)
      BY <1>1, <2>5, <2>6 DEF LostThrough
    <3>2. Contents(Top.k, Top.e)' = Contents(k, e)'
      BY <2>4, <2>5 DEF Contents
    <3>3. In("entry_flush", "written")'
      BY <2>1, <2>4, <3>1 DEF In
    <3>4. u \in DOMAIN Contents(k, e)'
      BY <2>3, <3>1
    <3>5. QED BY <3>2, <3>3, <3>4
  <2>7. QED BY <2>6 DEF LostThrough
<1>4. QED BY <1>2, <1>3

LEMMA CallKeepsPut ==
  ASSUME OnlyDataFails, AllInv, CallStep, DirtyThrough, PutThrough
  PROVE  DirtyThrough' /\ PutThrough'
<1>0. /\ StackType /\ stack # <<>> /\ ret = TRUE /\ l1' = l1 /\ UNCHANGED <<pc, lock>>
      /\ TableInv'
  BY CallForms, CallKeepsTable DEF AllInv, ShapeInv, requests
<1>1. stack' # <<>> => SameCall(Outermost', Outermost)
  BY CallOutermost DEF AllInv
<1>2. PutThrough'
  BY <1>0, <1>1 DEF PutThrough, SameCall
<1>3. ASSUME NEW d \in dirty', d[1] = "l2" PROVE \E w \in Cos : Puttable(w, d)'
  <2>1. d \in dirty /\ (EntryFlushWritten => d # <<Top.k, Top.e>>)
    <3>0. \A x \in dirty' : x \in dirty \/ x = <<"ref", 0>>
      BY CallDirty
    <3>1. d \in dirty
      BY <1>3, <3>0
    <3>2. EntryFlushWritten => dirty' = dirty \ {<<Top.k, Top.e>>}
      BY DEF EntryFlushWritten
    <3>3. QED BY <1>3, <3>1, <3>2
  <2>2. PICK w \in Cos : Puttable(w, d)
    BY <1>3, <2>1 DEF DirtyThrough
  <2>3. CASE pc[w] = "unmap_put" /\ d[2] = l1.c
    BY <1>0, <2>2, <2>3 DEF Puttable
  <2>4. CASE pc[w] = "l1_write"
    <3>1. stack' # <<>>
      BY <1>0, <1>3, <2>2, <2>4 DEF TableInv, Puttable, IsFlushed, Clean
    <3>2. QED BY <1>0, <2>2, <2>4, <3>1 DEF Puttable
  <2>5. CASE pc[w] \in {"unlink", "unmapped"} /\ d[2] = l1.c
    <3>1. stack' # <<>>
      <4>1. SUFFICES ASSUME stack' = <<>> PROVE FALSE
        OBVIOUS
      <4>2. Top.f = "entry_flush" /\ Top.k = "l2" /\ Top.e = l1.c /\ Returns(TRUE)
        BY <1>0, <2>2, <2>5, <4>1, CallOutermost DEF AllInv, Puttable, PutThrough
      <4>3. d = <<"l2", l1.c>>
        BY <1>3, <2>1, <2>5, DirtyAre
      <4>4. EntryFlushStart \/ EntryFlushWritten \/ EntryFlushWrite
        BY <4>2 DEF CallStep, CacheFlushNext, CacheFlushEnd, FlushDependencyStep,
               SetDependencyStep, UpdateRefcountStep, In
      <4>5. EntryFlushStart
        <5>1. ~ EntryFlushWritten
          BY <2>1, <4>2, <4>3
        <5>2. EntryFlushWrite => Calls(<<>>, "written")
          BY <1>0, TablesNeverFail DEF EntryFlushWrite
        <5>3. EntryFlushWrite => stack' # <<>>
          BY <1>0, <5>2, CallMoves
        <5>4. QED BY <4>1, <4>4, <5>1, <5>3
      <4>6. \A x, at : Calls(<<x>>, at) => stack' # <<>>
        BY <1>0, StackIs DEF Calls
      <4>7. \A at : Calls(<<>>, at) => stack' # <<>>
        BY <1>0, CallMoves
      <4>8. <<Top.k, Top.e>> \notin dirty
        BY <4>1, <4>5, <4>6, <4>7, TablesNeverFail DEF EntryFlushStart
      <4>9. QED BY <2>1, <4>2, <4>3, <4>8
    <3>2. QED BY <1>0, <2>2, <2>5, <3>1 DEF Puttable
  <2>6. QED BY <2>2, <2>3, <2>4, <2>5 DEF Puttable
<1>4. QED BY <1>2, <1>3 DEF DirtyThrough

LEMMA ProgressKeepsPut ==
  ASSUME OnlyDataFails, AllInv, NEW w \in Cos, Progress(w), writethrough,
         DirtyThrough, PutThrough
  PROVE  DirtyThrough' /\ PutThrough'
<1>f. \A k, e : /\ PutFrames(k, e) = <<EntryFlush(k, e)>>
                /\ EntryFlush(k, e).f = "entry_flush" /\ EntryFlush(k, e).k = k
                /\ EntryFlush(k, e).e = e
  BY DEF PutFrames, EntryFlush, Frame
<1>1. ASSUME NEW o \in Cos, lock' = o, pc'[o] \in {"unlink", "unmapped"}, stack' # <<>>
      PROVE  Outermost'.f = "entry_flush" /\ Outermost'.k = "l2" /\ Outermost'.e = l1'.c
  <2>1. CASE o # w
    <3>1. lock = o
      BY <1>1, <2>1, OwnerWas
    <3>2. /\ UNCHANGED <<stack, l1>> /\ pc'[o] = pc[o]
      BY <2>1, <3>1, OwnerStays
    <3>3. QED BY <1>1, <3>1, <3>2 DEF PutThrough, Outermost
  <2>2. CASE o = w
    <3>1. stack' = PutFrames("l2", l1.c) /\ l1' = l1
      <4>1. CASE pc'[w] = "unlink"
        <5>1. LinkL2(w)
          BY <4>1, TableSteps
        <5>2. QED BY <5>1, LinkIs DEF Swaps
      <4>2. CASE pc'[w] = "unmapped"
        <5>1. UnmapPut(w) /\ stack' = PutFrames("l2", l1.c)
          BY <4>2, CameFrom
        <5>2. QED BY <5>1 DEF UnmapPut, caches
      <4>3. QED BY <1>1, <2>2, <4>1, <4>2
    <3>2. Outermost' = EntryFlush("l2", l1.c)
      BY <1>f, <3>1, CallStarts
    <3>3. QED BY <1>f, <3>1, <3>2
  <2>3. QED BY <2>1, <2>2
<1>2. ASSUME NEW d \in dirty', d[1] = "l2" PROVE \E o \in Cos : Puttable(o, d)'
  <2>0. None \notin Cos
    BY QcowAssumption
  <2>1. CASE d \in dirty /\ lock # w
    <3>1. PICK o \in Cos : Puttable(o, d)
      BY <1>2, <2>1 DEF DirtyThrough
    <3>2. o # w /\ lock = o
      BY <2>1, <3>1 DEF Puttable
    <3>3. UNCHANGED <<lock, stack, l1>> /\ pc'[o] = pc[o]
      BY <3>2, OwnerStays
    <3>4. QED BY <3>1, <3>3 DEF Puttable
  <2>2. CASE d \in dirty /\ lock = w
    <3>1. PICK o \in Cos : Puttable(o, d)
      BY <1>2, <2>2 DEF DirtyThrough
    <3>2. o = w /\ stack = <<>>
      <4>1. pc[w] \notin {"data", "flush_disk"}
        BY <2>2, RequestIs DEF Locked
      <4>2. QED BY <2>2, <3>1, <4>1, OwnStack DEF Puttable
    <3>3. pc[w] = "unmap_put" /\ d[2] = l1.c
      BY <3>1, <3>2 DEF Puttable
    <3>4. UnmapPut(w)
      BY <3>3 DEF Progress, Enter, L2AllocateFailed, CallFailed, GetClusterTable, L2FlushRefcount,
             L2Copy, WriteL1Entry, SyncL1Entry, AllocClusterOffset, InsertInFlight, Relock,
             WriteData, CopySectors, LinkL2, FreeOld, Done, Unmap, FlushToOs, FlushDisk, Replace
    <3>5. /\ stack' = PutFrames("l2", l1.c) /\ UNCHANGED <<l1, lock>> /\ Goto(w, "unmapped")
      BY <3>3, <3>4 DEF UnmapPut, caches
    <3>6. pc'[w] = "unmapped" /\ stack' # <<>>
      BY <1>f, <3>5, GotoIs, CallStarts DEF AllInv
    <3>7. QED BY <2>2, <3>3, <3>5, <3>6 DEF Puttable
  <2>3. CASE d \notin dirty
    <3>1. LinkL2(w) \/ Unmap(w) \/ L2Copy(w)
      BY <2>3, DirtyGoes
    <3>2. CASE LinkL2(w)
      <4>1. /\ dirty' = dirty \cup {<<"l2", l1.c>>} /\ stack' = PutFrames("l2", l1.c)
            /\ pc'[w] = "unlink" /\ lock' = w /\ l1' = l1
        BY <3>2, LinkIs DEF Swaps
      <4>2. d = <<"l2", l1.c>> /\ stack' # <<>>
        BY <1>f, <2>3, <4>1, CallStarts
      <4>3. QED BY <4>1, <4>2 DEF Puttable
    <3>3. CASE Unmap(w)
      <4>1. /\ dirty' \subseteq dirty \cup {<<"l2", l1.c>>}
            /\ pc'[w] = "unmap_put" /\ lock' = w /\ l1' = l1
        BY <3>3, UnmapSwaps DEF Swaps
      <4>2. d = <<"l2", l1.c>>
        BY <2>3, <4>1
      <4>3. QED BY <4>1, <4>2 DEF Puttable
    <3>4. CASE L2Copy(w)
      <4>1. Goto(w, "l1_write") /\ lock' = w
        BY <3>4, L2CopyIs DEF L2Copy
      <4>2. pc'[w] = "l1_write" /\ stack' # <<>>
        <5>1. stack' # <<>>
          BY <3>4, CallStarts DEF L2Copy
        <5>2. QED BY <4>1, <5>1, GotoIs DEF AllInv
      <4>3. QED BY <4>1, <4>2 DEF Puttable
    <3>5. QED BY <3>1, <3>2, <3>3, <3>4
  <2>4. QED BY <2>1, <2>2, <2>3
<1>3. QED BY <1>1, <1>2 DEF DirtyThrough, PutThrough

LEMMA StepKeepsThrough ==
  ASSUME OnlyDataFails, AllInv, ThroughInv
  PROVE  /\ CallStep => ThroughInv'
         /\ \A w \in Cos : Progress(w) \/ SubmitAny(w) => ThroughInv'
         /\ UNCHANGED vars => ThroughInv'
<1>1. ASSUME CallStep PROVE ThroughInv'
  BY <1>1, CallStill, CallKeepsLost, CallKeepsPut DEF ThroughInv
<1>2. ASSUME NEW w \in Cos, Progress(w) PROVE ThroughInv'
  BY <1>2, ProgressImage, ProgressKeepsLost, ProgressKeepsPut DEF ThroughInv
<1>3. ASSUME UNCHANGED <<file, lost, writethrough, refcount, l2, l1, dirty, stack, lock>>,
             \A o \in Cos : pc[o] # "idle" => pc'[o] = pc[o],
             \A o \in Cos : pc[o] = "idle" => pc'[o] \in {"idle", "enter"}
      PROVE  ThroughInv'
  <2>1. \A k, e : Contents(k, e)' = Contents(k, e)
    BY <1>3 DEF Contents
  <2>2. Top' = Top
    BY <1>3 DEF Top
  <2>3. LostThrough => LostThrough'
    <3>0. PICK k, e : k = Top.k /\ e = Top.e
      OBVIOUS
    <3>1. SUFFICES ASSUME LostThrough, NEW u \in Units, lost'[u] # {}
          PROVE  In("entry_flush", "written")' /\ u \in DOMAIN Contents(Top.k, Top.e)'
      BY DEF LostThrough
    <3>2. In("entry_flush", "written") /\ u \in DOMAIN Contents(k, e)
      BY <1>3, <3>0, <3>1 DEF LostThrough
    <3>3. Contents(Top.k, Top.e)' = Contents(k, e)'
      BY <2>2, <3>0 DEF Contents
    <3>4. In("entry_flush", "written")'
      BY <1>3, <2>2, <3>2 DEF In
    <3>5. u \in DOMAIN Contents(k, e)'
      BY <2>1, <3>2
    <3>6. QED BY <3>3, <3>4, <3>5
  <2>4. DirtyThrough => DirtyThrough'
    <3>1. ASSUME NEW o \in Cos, NEW d, Puttable(o, d) PROVE Puttable(o, d)'
      BY <1>3, <3>1 DEF Puttable
    <3>2. QED BY <1>3, <3>1 DEF DirtyThrough
  <2>5. PutThrough => PutThrough'
    BY <1>3 DEF PutThrough, Outermost
  <2>6. QED BY <1>3, <2>3, <2>4, <2>5 DEF ThroughInv
<1>4. ASSUME NEW w \in Cos, SubmitAny(w) PROVE ThroughInv'
  <2>1. /\ UNCHANGED <<file, lost, writethrough, refcount, l2, l1, dirty, stack, lock>>
        /\ pc[w] = "idle" /\ Goto(w, "enter")
    BY <1>4, SubmitStill
  <2>2. pc'[w] = "enter" /\ \A o \in Cos : o # w => pc'[o] = pc[o]
    BY <2>1, GotoIs DEF AllInv
  <2>3. QED BY <1>3, <2>1, <2>2
<1>5. ASSUME UNCHANGED vars PROVE ThroughInv'
  BY <1>3, <1>5 DEF vars, image, caches, calls, requests
<1>6. QED BY <1>1, <1>2, <1>4, <1>5

LEMMA OpenedThrough == Opened => ThroughInv
BY DEF Opened, ThroughInv, LostThrough, DirtyThrough, PutThrough

LEMMA OpenedThroughNext == Opened' => ThroughInv'
<1>1. Opened => ThroughInv
  BY OpenedThrough
<1>2. QED BY <1>1, PTL

-----------------------------------------------------------------------------
(* Where requests are, and the entries that are theirs.                    *)

(* The entries without COPIED: those of the snapshot, and compressed ones. *)
EntriesKnown ==
  \A e \in AllEntries : e.c # 0 =>
    /\ e.flag = "none" => BySnap(e.c)
    /\ e.flag = "compressed" => writethrough

(* A request is where its operation takes it.                              *)
Writing == {"map", "mapped", "data", "wrote", "copy", "copied", "failed", "link", "unlink"}
Unmapping == {"unmap", "unmap_put", "unmapped"}
RightPlace(w) ==
  /\ pc[w] = "flush_ref" /\ stack # <<>> =>
       Outermost.f = "cache_flush" /\ Outermost.k = "l2"
  /\ pc[w] \in Writing => req[w].op = "write"
  /\ pc[w] \in Unmapping => req[w].op = "discard"
  /\ pc[w] \in {"get", "evict"} => req[w].op = "read"

(* The entry in memory of a request that writes in place or has linked its *)
(* cluster is its own, and it frees no cluster that the file needs.        *)
OwnsEntry(w) ==
  \/ pc[w] \in {"data", "wrote"} /\ ~ m[w].alloc
  \/ pc[w] = "unlink"
  \/ pc[w] = "done" /\ req[w].op = "write"
OwnEntry(w) ==
  /\ OwnsEntry(w) => Cached(req[w].g) = Entry(m[w].c, "copied")
  /\ pc[w] = "unlink" /\ old[w] # 0 => BySnap(old[w]) \/ writethrough
KindInv == EntriesKnown /\ \A w \in Cos : RightPlace(w) /\ OwnEntry(w)

LEMMA KindInvThen ==
  ASSUME EntriesKnown', \A w \in Cos : RightPlace(w)', \A w \in Cos : OwnEntry(w)'
  PROVE  KindInv'
BY DEF KindInv

LEMMA EntriesStayKnown ==
  ASSUME EntriesKnown, snap' = snap, writethrough' = writethrough,
         \A e \in AllEntries' : e \in AllEntries \/ e.flag = "copied" \/ e.c = 0
  PROVE  EntriesKnown'
BY DEF EntriesKnown, BySnap

LEMMA CallKeepsKind ==
  ASSUME OnlyDataFails, AllInv, KindInv, CallStep
  PROVE  KindInv'
<1>0. /\ UNCHANGED <<pc, req, m, old, snap, writethrough>>
      /\ \A i \in Half : Cached(i)' = Cached(i)
  BY CallStill DEF requests
<1>1. EntriesKnown'
  <2>1. AllEntries' \subseteq AllEntries
    BY CallFamiliar, FamiliarCounts
  <2>2. QED BY <1>0, <2>1, EntriesStayKnown DEF KindInv
<1>2. ASSUME NEW w \in Cos PROVE RightPlace(w)' /\ OwnEntry(w)'
  <2>1. stack' # <<>> => stack # <<>> /\ SameCall(Outermost', Outermost)
    BY CallOutermost, CallForms DEF AllInv
  <2>2. RightPlace(w)'
    BY <1>0, <2>1 DEF KindInv, RightPlace, SameCall
  <2>3. req[w].g \in Half
    BY RequestIs
  <2>4. Cached(req[w].g)' = Cached(req[w].g)
    BY <1>0, <2>3 DEF Cached
  <2>5. OwnEntry(w)'
    BY <1>0, <2>4 DEF KindInv, OwnEntry, OwnsEntry, BySnap
  <2>6. QED BY <2>2, <2>5
<1>3. QED BY <1>1, <1>2, KindInvThen

LEMMA ProgressKeepsEntries ==
  ASSUME OnlyDataFails, AllInv, EntriesKnown, NEW w \in Cos, Progress(w)
  PROVE  EntriesKnown'
<1>0. snap' = snap /\ writethrough' = writethrough
  BY ProgressImage
<1>1. CASE WriteL1Entry(w)
  <2>1. PICK c : c = m[w].c
    OBVIOUS
  <2>2. l1'.flag = "copied"
    BY <1>1, <2>1, WriteL1Is, EntriesAre
  <2>3. AllEntries' \subseteq {l1, l1'} \cup {Cached(0), Cached(1)}
    BY <1>1, <2>1, L1Counts
  <2>4. {l1, Cached(0), Cached(1)} \subseteq AllEntries
    BY HalfAre DEF AllEntries
  <2>5. QED BY <1>0, <2>2, <2>3, <2>4, EntriesStayKnown
<1>2. CASE LinkL2(w)
  <2>0. PICK g, e : g = req[w].g /\ e = Entry(m[w].c, "copied")
    OBVIOUS
  <2>1. /\ UNCHANGED <<l1, snap>> /\ g \in Half /\ Possible(L1)' = Possible(L1)
        /\ \A i \in Half : /\ Stored(i)' = Stored(i)
                           /\ Cached(i)' = IF i = g THEN e ELSE Cached(i)
    BY <1>2, <2>0, LinkIs DEF Swaps
  <2>2. AllEntries' \subseteq AllEntries \cup {e}
    BY <2>1, SwapCounts
  <2>3. e.flag = "copied"
    BY <2>0, EntriesAre
  <2>4. QED BY <1>0, <2>2, <2>3, EntriesStayKnown
<1>3. CASE Unmap(w)
  <2>0. PICK g : g = req[w].g
    OBVIOUS
  <2>1. /\ UNCHANGED <<l1, snap>> /\ g \in Half /\ Possible(L1)' = Possible(L1)
        /\ \A i \in Half : /\ Stored(i)' = Stored(i)
                           /\ Cached(i)' = IF i = g THEN Unallocated ELSE Cached(i)
    BY <1>3, <2>0, UnmapSwaps DEF Swaps
  <2>2. AllEntries' \subseteq AllEntries \cup {Unallocated}
    BY <2>1, SwapCounts
  <2>3. Unallocated.c = 0
    BY EntriesAre
  <2>4. QED BY <1>0, <2>2, <2>3, EntriesStayKnown
<1>4. CASE ~ WriteL1Entry(w) /\ ~ LinkL2(w) /\ ~ Unmap(w)
  <2>1. \A i \in Half : Cached(i)' = Cached(i)
    BY <1>4, ProgressKeepsCache DEF Becomes
  <2>2. AllEntries' \subseteq AllEntries
    BY <1>4, <2>1, ProgressFamiliar, FamiliarCounts
  <2>3. QED BY <1>0, <2>2, EntriesStayKnown
<1>5. QED BY <1>1, <1>2, <1>3, <1>4

LEMMA ProgressKeepsPlaces ==
  ASSUME OnlyDataFails, AllInv, KindInv, NEW w \in Cos, Progress(w), NEW o \in Cos
  PROVE  RightPlace(o)'
<1>1. CASE o = w
  <2>1. CASE req'[w] = req[w]
    <3>1. pc'[w] = "flush_ref" /\ stack' # <<>> =>
            Outermost'.f = "cache_flush" /\ Outermost'.k = "l2"
      BY CameFrom, CallStarts, CacheFlushIs
    <3>2. pc'[w] \in {"get", "evict"} => req[w].op = "read"
      <4>1. Enter(w) /\ pc'[w] = "get" => req[w].op \notin {"write", "discard", "flush"} /\ pc[w] = "enter"
        BY GotoIs DEF Enter, AllInv
      <4>2. Enter(w) => pc'[w] # "evict"
        BY GotoIs DEF Enter, AllInv
      <4>3. pc[w] = "enter" => req[w].op # "none"
        BY RequestInvIs DEF AllInv, PlaceOk
      <4>4. req[w].op \in {"write", "discard", "flush", "read", "none"}
        <5>1. req[w] \in ReqSet
          BY RequestIs
        <5>2. req[w] = NoRequest \/ req[w].op \in {"write", "discard", "flush", "read"}
          BY <5>1 DEF ReqSet
        <5>3. QED BY <5>2 DEF NoRequest
      <4>5. QED BY <4>1, <4>2, <4>3, <4>4, CameFrom DEF KindInv, RightPlace
    <3>3. pc'[w] \in Writing => req[w].op = "write"
      BY CameFrom DEF KindInv, RightPlace, Writing
    <3>4. pc'[w] \in Unmapping => req[w].op = "discard"
      BY CameFrom DEF KindInv, RightPlace, Unmapping
    <3>5. QED BY <1>1, <2>1, <3>1, <3>2, <3>3, <3>4 DEF RightPlace, Outermost
  <2>2. CASE pc'[w] = "idle"
    BY <1>1, <2>2 DEF RightPlace, Writing, Unmapping
  <2>3. QED BY <2>1, <2>2, RequestGoes
<1>2. CASE o # w
  <2>1. req'[o] = req[o] /\ (pc'[o] = pc[o] \/ pc'[o] = "enter")
    BY <1>2, OthersStay
  <2>2. CASE pc'[o] = pc[o]
    <3>1. pc[o] = "flush_ref" => lock = o
      BY RequestIs DEF Locked
    <3>2. pc[o] = "flush_ref" => stack' = stack
      BY <1>2, <3>1, OwnerStays
    <3>3. QED BY <2>1, <2>2, <3>2 DEF KindInv, RightPlace, Outermost
  <2>3. CASE pc'[o] = "enter"
    BY <2>3 DEF RightPlace, Writing, Unmapping
  <2>4. QED BY <2>1, <2>2, <2>3
<1>3. QED BY <1>1, <1>2

LEMMA ProgressKeepsOwn ==
  ASSUME OnlyDataFails, AllInv, KindInv, NEW w \in Cos, Progress(w), NEW o \in Cos
  PROVE  OwnEntry(o)'
<1>0. /\ snap' = snap /\ writethrough' = writethrough /\ AllInv'
      /\ \A i \in Half : Cached(i)' = Becomes(w, i)
  BY ProgressImage, ProgressKeepsCache, ProgressKeepsAll
<1>1. CASE o = w
  <2>1. CASE pc'[w] = "unlink"
    <3>1. LinkL2(w)
      BY <2>1, TableSteps
    <3>2. PICK g, c : g = req[w].g /\ c = m[w].c
      OBVIOUS
    <3>3. /\ Cached(g)' = Entry(c, "copied") /\ g \in Half /\ req' = req /\ m' = m
          /\ old'[w] = Cached(g).c /\ Cached(g).flag # "copied"
      BY <3>1, <3>2, LinkIs DEF Swaps
    <3>4. Cached(req[w].g)' = Entry(m[w].c, "copied")'
      BY <3>2, <3>3 DEF Entry
    <3>5. Cached(g) \in AllEntries /\ Cached(g) \in EntrySet
      BY <3>3, CachedIs DEF AllEntries
    <3>6. old'[w] # 0 => BySnap(old'[w]) \/ writethrough
      BY <3>3, <3>5, EntriesAre DEF KindInv, EntriesKnown, Flags
    <3>7. QED BY <1>0, <1>1, <3>4, <3>6 DEF OwnEntry, BySnap
  <2>2. CASE pc'[w] \in {"data", "wrote"} /\ ~ m'[w].alloc
    <3>1. CASE pc'[w] = "data"
      <4>1. EntryOk(w)'
        <5>1. PICK g : g = req[w].g
          OBVIOUS
        <5>2. g \in Half
          BY <5>1, RequestIs
        <5>3. QED BY <5>1, <5>2, OwnKeepsEntry
      <4>2. QED BY <1>1, <2>2, <3>1, <4>1 DEF EntryOk, OwnEntry
    <3>2. CASE pc'[w] = "wrote"
      <4>1. WriteData(w) /\ pc[w] = "data"
        BY <3>2, CameFrom DEF WriteData
      <4>2. UNCHANGED <<req, m, l1, l2>> /\ ~ LinkL2(w) /\ ~ Unmap(w)
        BY <4>1 DEF WriteData, caches, LinkL2, Unmap
      <4>3. PICK g : g = req[w].g
        OBVIOUS
      <4>4. g \in Half /\ Cached(g)' = Cached(g)
        BY <1>0, <4>2, <4>3, RequestIs DEF Becomes
      <4>5. Cached(req[w].g)' = Cached(g)
        BY <4>2, <4>3, <4>4 DEF Cached
      <4>6. Cached(g) = Entry(m[w].c, "copied")
        BY <2>2, <4>1, <4>2, <4>3 DEF KindInv, OwnEntry, OwnsEntry
      <4>7. QED BY <1>1, <3>2, <4>2, <4>5, <4>6 DEF OwnEntry, Entry
    <3>3. QED BY <2>2, <3>1, <3>2
  <2>3. CASE pc'[w] = "done" /\ req'[w].op = "write"
    <3>1. req'[w] = req[w]
      BY <2>3, RequestGoes
    <3>2. FreeOld(w)
      BY <2>3, <3>1, CameFrom DEF KindInv, RightPlace, Unmapping
    <3>3. pc[w] = "unlink" /\ UNCHANGED <<req, m, l1, l2, file>>
      BY <3>2 DEF FreeOld, caches, image
    <3>4. Cached(req[w].g)' = Cached(req[w].g)
      BY <3>3 DEF Cached, Entries
    <3>5. QED BY <1>1, <2>3, <3>3, <3>4 DEF KindInv, OwnEntry, OwnsEntry, Entry
  <2>4. CASE ~ OwnsEntry(w)'
    BY <1>1, <2>4 DEF OwnEntry, OwnsEntry
  <2>5. QED BY <2>1, <2>2, <2>3, <2>4 DEF OwnsEntry
<1>2. CASE o # w
  <2>1. /\ m'[o] = m[o] /\ old'[o] = old[o] /\ req'[o] = req[o]
        /\ pc'[o] = pc[o] \/ pc'[o] = "enter"
    BY <1>2, OthersStay
  <2>2. CASE pc'[o] = pc[o] /\ OwnsEntry(o)
    <3>0. PICK g, h, e : g = req[o].g /\ h = req[w].g /\ e = Cached(g)
      OBVIOUS
    <3>1. g \in Half /\ e = Entry(m[o].c, "copied") /\ e.flag = "copied"
      <4>1. Cached(req[o].g) = Entry(m[o].c, "copied")
        BY <2>2 DEF KindInv, OwnEntry
      <4>2. g \in Half
        BY <3>0, RequestIs
      <4>3. QED BY <3>0, <4>1, <4>2, EntriesAre
    <3>2. Cached(g)' = Cached(g)
      <4>1. CASE LinkL2(w)
        <5>1. g # h
          <6>1. Cached(req[w].g).flag # "copied"
            BY <4>1, LinkIs
          <6>2. QED BY <3>0, <3>1, <6>1
        <5>2. QED BY <1>0, <3>0, <3>1, <5>1 DEF Becomes
      <4>2. CASE Unmap(w)
        <5>1. pc[w] = "unmap" /\ lock = w
          BY <4>2, UnmapSwaps DEF Swaps
        <5>2. pc[o] \in {"data", "wrote"}
          BY <1>2, <2>2, <5>1, RequestIs DEF OwnsEntry, Locked
        <5>3. req[w].halves = Half /\ req[o].halves # {} /\ req[o].halves \subseteq Half
          BY <5>1, <5>2, RequestInvIs, RequestIs DEF AllInv, PlaceOk, Mapped
        <5>4. Touches(w) \cap Touches(o) = {}
          BY <1>2, RequestInvIs DEF AllInv, DistinctOk
        <5>5. g # h
          <6>1. SUFFICES ASSUME g = h PROVE FALSE
            OBVIOUS
          <6>2. PICK i : i \in req[o].halves
            BY <5>3
          <6>3. <<g, i>> \in Touches(o) /\ <<h, i>> \in Touches(w)
            BY <3>0, <5>3, <6>2 DEF Touches
          <6>4. QED BY <5>4, <6>1, <6>3
        <5>6. QED BY <1>0, <3>0, <3>1, <5>5 DEF Becomes
      <4>3. CASE ~ LinkL2(w) /\ ~ Unmap(w)
        BY <1>0, <3>1, <4>3 DEF Becomes
      <4>4. QED BY <4>1, <4>2, <4>3
    <3>3. Cached(req[o].g)' = Cached(g)
      BY <2>1, <3>0, <3>2 DEF Cached
    <3>4. QED BY <1>0, <2>1, <2>2, <3>0, <3>1, <3>3 DEF KindInv, OwnEntry, Entry, BySnap
  <2>3. CASE ~ OwnsEntry(o)'
    BY <2>3 DEF OwnEntry, OwnsEntry
  <2>4. OwnsEntry(o)' => pc'[o] = pc[o] /\ OwnsEntry(o)
    BY <2>1 DEF OwnsEntry
  <2>5. QED BY <2>2, <2>3, <2>4
<1>3. QED BY <1>1, <1>2

LEMMA ProgressKeepsKind ==
  ASSUME OnlyDataFails, AllInv, KindInv, NEW w \in Cos, Progress(w)
  PROVE  KindInv'
BY ProgressKeepsEntries, ProgressKeepsPlaces, ProgressKeepsOwn, KindInvThen DEF KindInv

(* What a new request changes.                                             *)
SubmitDoes(w, gone, put) ==
  /\ count' = count + 1 /\ count < MaxRequests + 1
  /\ req'[w].op \in {"write", "discard", "flush", "read"} /\ req'[w].v = count + 1
  /\ gone = IF req'[w].op = "discard" THEN Touches(w)' ELSE {}
  /\ put = IF req'[w].op = "write" THEN Touches(w)' ELSE {}
  /\ \A o \in Cos \ {w} :
       /\ req'[o].op = req[o].op /\ req'[o].g = req[o].g /\ req'[o].v = req[o].v
       /\ req'[o].halves = req[o].halves /\ Touches(o)' = Touches(o)
       /\ Touches(o) \cap (gone \cup put) = {}
       /\ req[o].op # "none" => \A x \in Sectors :
            req'[o].floor[x] = IF x \in gone THEN -1 ELSE req[o].floor[x]
  /\ \A x \in Sectors :
       /\ latest'[x] = IF x \in gone THEN -1 ELSE latest[x]
       /\ req'[w].floor[x] = latest'[x]
       /\ promise'[x] = IF x \in gone THEN Values
                        ELSE IF x \in put THEN promise[x] \cup {count + 1} ELSE promise[x]

LEMMA SubmitIs ==
  ASSUME AllInv, NEW w \in Cos, SubmitAny(w)
  PROVE  \E gone, put : SubmitDoes(w, gone, put)
<1>1. ASSUME NEW op \in {"write", "discard", "flush", "read"}, NEW g \in Guest, NEW h \in SUBSET Half,
             Submit(w, op, g, h)
      PROVE  \E gone, put : SubmitDoes(w, gone, put)
  <2> DEFINE gone == IF op = "discard" THEN {g} \X h ELSE {}
             put == IF op = "write" THEN {g} \X h ELSE {}
             new == [op |-> op, g |-> g, halves |-> h, v |-> count + 1, floor |-> latest']
             forget(f) == [x \in Sectors |-> IF x \in gone THEN -1 ELSE f[x]]
  <2>1. /\ count' = count + 1 /\ count < MaxRequests + 1
        /\ latest' = forget(latest)
        /\ req' = [o \in Cos |-> IF o = w THEN new
                                 ELSE IF req[o].op = "none" THEN req[o]
                                 ELSE [req[o] EXCEPT !.floor = forget(@)]]
        /\ promise' = [x \in Sectors |->
             IF x \in gone THEN Values
             ELSE IF op = "write" /\ x \in {g} \X h THEN promise[x] \cup {count + 1} ELSE promise[x]]
        /\ \A o \in Cos : Touches(o) \cap ({g} \X h) = {}
    BY <1>1 DEF Submit
  <2>2. req'[w] = new
    BY <2>1
  <2>3. Touches(w)' = {g} \X h
    BY <2>2 DEF Touches
  <2>4. ASSUME NEW o \in Cos \ {w}
        PROVE  /\ req'[o].op = req[o].op /\ req'[o].g = req[o].g /\ req'[o].v = req[o].v
               /\ req'[o].halves = req[o].halves /\ Touches(o)' = Touches(o)
               /\ Touches(o) \cap (gone \cup put) = {}
               /\ req[o].op # "none" => \A x \in Sectors :
                    req'[o].floor[x] = IF x \in gone THEN -1 ELSE req[o].floor[x]
    <3>0. Touches(o) \cap (gone \cup put) = {}
      BY <2>1
    <3>1. CASE req[o].op = "none"
      <4>1. req'[o] = req[o]
        BY <2>1, <3>1
      <4>2. QED BY <3>0, <3>1, <4>1 DEF Touches
    <3>2. CASE req[o].op # "none"
      <4>1. req'[o] = [req[o] EXCEPT !.floor = forget(@)]
        BY <2>1, <3>2
      <4>2. req[o] \in ReqSet
        BY RequestIs
      <4>3. req[o] # NoRequest
        BY <3>2 DEF NoRequest
      <4>4. req[o] \in [op : {"write", "discard", "flush", "read"}, g : Guest, halves : SUBSET Half,
                        v : Values, floor : [Sectors -> Values]]
        BY <4>2, <4>3 DEF ReqSet
      <4>5. /\ req'[o].op = req[o].op /\ req'[o].g = req[o].g /\ req'[o].v = req[o].v
            /\ req'[o].halves = req[o].halves /\ req'[o].floor = forget(req[o].floor)
        BY <4>1, <4>4
      <4>6. Touches(o)' = Touches(o)
        BY <4>5 DEF Touches
      <4>7. QED BY <3>0, <4>5, <4>6
    <3>3. QED BY <3>1, <3>2
  <2>5. \A x \in Sectors :
          /\ latest'[x] = IF x \in gone THEN -1 ELSE latest[x]
          /\ req'[w].floor[x] = latest'[x]
          /\ promise'[x] = IF x \in gone THEN Values
                           ELSE IF x \in put THEN promise[x] \cup {count + 1} ELSE promise[x]
    BY <2>1, <2>2
  <2>6. SubmitDoes(w, gone, put)
    <3>1. req'[w].op = op /\ req'[w].v = count + 1
      BY <2>2
    <3>2. gone = IF req'[w].op = "discard" THEN Touches(w)' ELSE {}
      BY <3>1, <2>3
    <3>3. put = IF req'[w].op = "write" THEN Touches(w)' ELSE {}
      BY <3>1, <2>3
    <3> HIDE DEF gone, put
    <3>4. QED BY <2>1, <2>4, <2>5, <3>1, <3>2, <3>3 DEF SubmitDoes
  <2>7. QED BY <2>6
<1>2. \/ \E g \in Guest, h \in SUBSET Half : Submit(w, "write", g, h)
      \/ \E g \in Guest : Submit(w, "discard", g, Half)
      \/ Submit(w, "flush", 0, {}) \/ Submit(w, "read", 0, {})
  BY DEF SubmitAny
<1>3. 0 \in Guest /\ Half \in SUBSET Half /\ {} \in SUBSET Half
  BY DEF Guest
<1>4. QED BY <1>1, <1>2, <1>3

LEMMA SubmitKeepsKind ==
  ASSUME AllInv, KindInv, NEW w \in Cos, SubmitAny(w)
  PROVE  KindInv'
<1>0. /\ Still /\ UNCHANGED <<snap, writethrough, stack, m, old, l1, l2, file, lost>>
      /\ pc[w] = "idle" /\ pc'[w] = "enter" /\ \A o \in Cos : o # w => pc'[o] = pc[o]
  BY SubmitStill, GotoIs DEF AllInv
<1>1. EntriesKnown'
  <2>1. AllEntries' = AllEntries
    BY <1>0 DEF AllEntries, Stored, Possible, Tables, Cached, Entries
  <2>2. QED BY <1>0, <2>1, EntriesStayKnown DEF KindInv
<1>2. ASSUME NEW o \in Cos PROVE RightPlace(o)' /\ OwnEntry(o)'
  <2>1. CASE o = w
    BY <1>0, <2>1 DEF RightPlace, OwnEntry, OwnsEntry, Writing, Unmapping
  <2>2. CASE o # w
    <3>1. req'[o].op = req[o].op /\ req'[o].g = req[o].g /\ pc'[o] = pc[o]
      BY <1>0, <2>2, SubmitIs DEF SubmitDoes
    <3>2. RightPlace(o)'
      BY <1>0, <3>1 DEF KindInv, RightPlace, Outermost
    <3>3. Cached(req[o].g)' = Cached(req[o].g)
      BY <1>0, <3>1 DEF Cached, Entries
    <3>4. OwnEntry(o)'
      BY <1>0, <3>1, <3>3 DEF KindInv, OwnEntry, OwnsEntry, BySnap, Entry
    <3>5. QED BY <3>2, <3>4
  <2>3. QED BY <2>1, <2>2
<1>3. QED BY <1>1, <1>2, KindInvThen

LEMMA OpenedPlaces == Opened => \A w \in Cos : RightPlace(w) /\ OwnEntry(w)
BY DEF Opened, RightPlace, OwnEntry, OwnsEntry, Writing, Unmapping

LEMMA OpenedPlacesNext == Opened' => \A w \in Cos : RightPlace(w)' /\ OwnEntry(w)'
BY DEF Opened, RightPlace, OwnEntry, OwnsEntry, Writing, Unmapping

LEMMA CrashKeepsKind ==
  ASSUME AllInv, KindInv, Crash
  PROVE  KindInv'
<1>1. Opened' /\ snap' = snap /\ writethrough' = writethrough
  BY CrashImage DEF Crash
<1>2. AllEntries' \subseteq AllEntries \cup {Unallocated} /\ Unallocated.c = 0
  BY CrashCounts, EntriesAre
<1>3. EntriesKnown'
  BY <1>1, <1>2, EntriesStayKnown DEF KindInv
<1>4. QED BY <1>1, <1>3, OpenedPlacesNext, KindInvThen

(* A compressed cluster needs writethrough caches, for it gives up its     *)
(* reference before the entry that replaced it is in the file.             *)
NoWritebackCompressed == <<FALSE, "compressed">> \notin Setups

LEMMA InitKind ==
  ASSUME NoWritebackCompressed, Init
  PROVE  KindInv
<1>1. PICK s \in Setups : /\ writethrough = s[1] /\ file = FreshImage(s[2])
                          /\ snap = IF s[2] = "shared" THEN 1 ELSE 0
                          /\ l1 = file[L1]
  BY DEF Init
<1>2. s \in BOOLEAN \X {"plain", "shared", "compressed", "empty"}
  BY QcowAssumption
<1>3. s = <<s[1], s[2]>> /\ s[1] \in BOOLEAN /\ s[2] \in {"plain", "shared", "compressed", "empty"}
  BY <1>2
<1>4. s[2] = "compressed" => writethrough
  BY <1>1, <1>3 DEF NoWritebackCompressed
<1>5. Opened /\ FileInv
  BY InitOpened, InitFile
<1>6. EntriesKnown
  <2>1. CASE s[2] = "empty"
    <3>1. l1 = Unallocated /\ l1.c = 0 /\ Possible(L1) = {l1}
      BY <1>1, <1>5, <2>1, FreshIs, EntriesAre, OpenedEntries, UnitsAre
    <3>2. AllEntries \subseteq {Unallocated}
      BY <1>5, <3>1, OpenedEntries DEF AllEntries
    <3>3. QED BY <3>1, <3>2 DEF EntriesKnown
  <2>2. CASE s[2] # "empty"
    <3> DEFINE flag == CASE s[2] = "plain" -> "copied" [] s[2] = "shared" -> "none"
                         [] s[2] = "compressed" -> "compressed" [] OTHER -> "none"
    <3>1. /\ file[Cell(1, 0)] = Entry(2, flag) /\ file[Cell(1, 1)] = Unallocated
          /\ file[L1] = Entry(1, IF s[2] = "shared" THEN "none" ELSE "copied")
      <4>1. /\ Cell(1, 0) \in Units /\ Cell(1, 1) \in Units
            /\ Cell(1, 0)[1] = "cell" /\ Cell(1, 0)[2] = 1 /\ Cell(1, 0)[3] = 0
            /\ Cell(1, 0) # L1
        BY UnitsAre, UnitsDiffer, ClustersAre, HalfAre
      <4>2. file[Cell(1, 0)] = Entry(2, flag)
        BY <1>1, <2>2, <4>1 DEF FreshImage
      <4>3. QED BY <1>1, <1>3, <2>2, <4>2, FreshIs
    <3>2. flag \in {"copied", "none", "compressed"}
          /\ (flag = "none" => s[2] = "shared") /\ (flag = "compressed" => s[2] = "compressed")
      BY <1>3, <2>2
    <3> HIDE DEF flag
    <3>3. l1.c = 1 /\ (l1.flag = "none" => s[2] = "shared") /\ l1.flag # "compressed" /\ Possible(L1) = {l1}
      BY <1>1, <1>5, <3>1, EntriesAre, OpenedEntries, UnitsAre
    <3>4. AllEntries \subseteq {l1, Entry(2, flag), Unallocated}
      <4>1. \A i \in Half : Stored(i) \cup {Cached(i)} = {file[Cell(1, i)]}
        BY <1>5, <3>3, OpenedEntries
      <4>2. \A i \in Half : file[Cell(1, i)] \in {Entry(2, flag), Unallocated}
        BY <3>1, HalfAre
      <4>3. QED BY <3>3, <4>1, <4>2 DEF AllEntries
    <3>5. s[2] = "shared" => BySnap(1) /\ BySnap(2)
      BY <1>1 DEF BySnap
    <3>6. Entry(2, flag).c = 2 /\ Entry(2, flag).flag = flag /\ Unallocated.c = 0
      BY EntriesAre
    <3>7. QED BY <1>4, <3>2, <3>3, <3>4, <3>5, <3>6 DEF EntriesKnown
  <2>3. QED BY <2>1, <2>2
<1>7. QED BY <1>5, <1>6, OpenedPlaces DEF KindInv

-----------------------------------------------------------------------------
(* What the guest is promised, and the numbers of its writes.              *)

(* No sector holds a write that was not yet made, and what a request is to *)
(* write is later than what its sectors held, and promised.                *)
Numbered ==
  \A c \in Clusters, i \in Half : \A d \in Possible(Cell(c, i)) : ~ IsEntry(d) => d.v <= count
Pledged(w) ==
  req[w].op # "none" =>
    /\ \A x \in Sectors : req[w].floor[x] <= latest[x]
    /\ req[w].v <= count
    /\ \A x \in Touches(w) :
         /\ req[w].op = "write" => latest[x] < req[w].v /\ req[w].v \in promise[x]
         /\ req[w].op = "discard" => latest[x] = -1 /\ promise[x] = Values
PledgeInv ==
  /\ Numbered
  /\ \A x \in Sectors : latest[x] <= count
  /\ \A w \in Cos : Pledged(w)

LEMMA CountIs == AllInv => count \in Int /\ count >= 1 /\ count <= MaxRequests + 1
BY QcowAssumption DEF AllInv, TypeInv

LEMMA PledgeInvThen ==
  ASSUME Numbered', \A x \in Sectors : latest'[x] <= count', \A w \in Cos : Pledged(w)'
  PROVE  PledgeInv'
BY DEF PledgeInv

LEMMA CallKeepsNumbers ==
  ASSUME OnlyDataFails, AllInv, Numbered, CallStep
  PROVE  Numbered'
<1>0. count' = count
  BY CallStill DEF ghosts
<1>1. ASSUME NEW c \in Clusters, NEW i \in Half, NEW d \in Possible(Cell(c, i))', ~ IsEntry(d)
      PROVE  d.v <= count
  <2>1. CASE Still
    BY <1>1, <2>1 DEF Still, Numbered
  <2>2. CASE EntryFlushWrite /\ Top.k = "l2"
    <3>1. PICK t : t = Top.e
      OBVIOUS
    <3>2. /\ \A b \in Clusters \ {t}, h \in Half : Possible(Cell(b, h))' = Possible(Cell(b, h))
          /\ \A h \in Half : Possible(Cell(t, h))' \subseteq Possible(Cell(t, h)) \cup {l2[t][h]}
          /\ <<"l2", t>> \in dirty
      BY <2>2, <3>1, TableWritten
    <3>3. l2[t][i] \in EntrySet
      BY <3>2, DirtyTable DEF AllInv, CacheInv
    <3>4. d # l2[t][i]
      BY <1>1, <3>3, DataIs
    <3>5. d \in Possible(Cell(c, i))
      BY <1>1, <3>2, <3>4
    <3>6. QED BY <1>1, <3>5 DEF Numbered
  <2>3. QED BY <2>1, <2>2, CallStill
<1>2. QED BY <1>0, <1>1 DEF Numbered

LEMMA ProgressCounts ==
  ASSUME OnlyDataFails, AllInv, NEW w \in Cos, Progress(w)
  PROVE  count' = count
BY RequestLeaves DEF Finishes, Leave, FlushDisk

LEMMA ProgressKeepsNumbers ==
  ASSUME OnlyDataFails, AllInv, TabledInv, KindInv, PledgeInv, NEW w \in Cos, Progress(w)
  PROVE  Numbered'
<1>0. count' = count /\ count >= 1 /\ count \in Int
  BY ProgressCounts, CountIs
<1>1. PICK k : k = m[w].c
  OBVIOUS
<1>2. ASSUME NEW c \in Clusters, NEW i \in Half, NEW d \in Possible(Cell(c, i))', ~ IsEntry(d)
      PROVE  d.v <= count
  <2>1. CASE Still
    BY <1>2, <2>1 DEF Still, PledgeInv, Numbered
  <2>2. CASE WriteL1Entry(w) \/ LinkL2(w) \/ Unmap(w)
    <3>1. Cell(c, i) \in Units \ {L1}
      BY UnitsAre, UnitsDiffer
    <3>2. Possible(Cell(c, i))' = Possible(Cell(c, i))
      <4>1. CASE WriteL1Entry(w)
        BY <1>1, <3>1, <4>1, WriteL1Is
      <4>2. CASE LinkL2(w)
        BY <4>2, LinkIs DEF Swaps
      <4>3. CASE Unmap(w)
        BY <4>3, UnmapSwaps DEF Swaps
      <4>4. QED BY <2>2, <4>1, <4>2, <4>3
    <3>3. QED BY <1>2, <3>2 DEF PledgeInv, Numbered
  <2>3. CASE WriteData(w) /\ ~ Still
    <3>1. /\ pc[w] = "data" /\ Puts(k, req[w].halves)
          /\ \A h \in req[w].halves :
               Possible(Cell(k, h))' \subseteq Possible(Cell(k, h)) \cup {Data(req[w].v)}
      BY <1>1, <2>3, WriteIs
    <3>2. req[w].v <= count
      BY <3>1, RequestInvIs DEF AllInv, PlaceOk, PledgeInv, Pledged
    <3>3. d \in Possible(Cell(c, i)) \/ d = Data(req[w].v)
      BY <1>2, <3>1 DEF Puts
    <3>4. QED BY <1>2, <3>2, <3>3, DataIs DEF PledgeInv, Numbered
  <2>4. CASE CopySectors(w) /\ ~ Still
    <3>1. /\ Puts(k, Rest(w))
          /\ \A h \in Rest(w) : Possible(Cell(k, h))' \subseteq
               Possible(Cell(k, h)) \cup {Shown(<<req[w].g, h>>)}
      BY <1>1, <2>4, CopyIs
    <3>2. d \in Possible(Cell(c, i)) \/ d = Shown(<<req[w].g, i>>)
      BY <1>2, <3>1 DEF Puts
    <3>3. CASE d = Shown(<<req[w].g, i>>)
      <4>1. PICK e : e = Cached(req[w].g)
        OBVIOUS
      <4>2. d = Sector(e, i) /\ e \in EntrySet
        BY <3>3, <4>1, RequestIs, CachedIs DEF Shown
      <4>3. CASE e.c = 0
        BY <1>0, <4>2, <4>3, DataIs DEF Sector
      <4>4. CASE e.c # 0
        <5>1. e.c \in Clusters /\ d \in Possible(Cell(e.c, i))
          BY <4>2, <4>4, EntriesAre, PossibleIs DEF Sector
        <5>2. QED BY <1>2, <5>1 DEF PledgeInv, Numbered
      <4>5. QED BY <4>3, <4>4
    <3>4. QED BY <1>2, <3>2, <3>3 DEF PledgeInv, Numbered
  <2>5. QED BY <2>1, <2>2, <2>3, <2>4, ProgressStill
<1>3. QED BY <1>0, <1>2 DEF Numbered

(* What is promised goes down to what the floors and the writes allow.     *)
LEMMA ProgressPromises ==
  ASSUME OnlyDataFails, AllInv, PledgeInv, NEW w \in Cos, Progress(w)
  PROVE  /\ count' = count
         /\ \A o \in Cos : req'[o] = req[o] \/ (o = w /\ req'[o] = NoRequest)
         /\ \/ UNCHANGED <<promise, latest>>
            \/ /\ latest' = latest /\ pc[w] = "flush_disk" /\ Settled
               /\ pc'[w] = "idle" /\ Flushed
               /\ \A x \in Sectors : promise'[x] = {v \in promise[x] : v >= req[w].floor[x]}
            \/ /\ req[w].op = "write" /\ (\E done \in BOOLEAN : Finishes(w, done))
               /\ (pc[w] = "wrote" /\ ~ m[w].alloc) \/ pc[w] = "done"
               /\ req'[w] = NoRequest /\ pc'[w] = "idle"
               /\ \A x \in Sectors :
                    IF x \in Touches(w)
                    THEN /\ latest'[x] = req[w].v
                         /\ promise'[x] = IF writethrough
                              THEN {v \in promise[x] : v >= req[w].v} ELSE promise[x]
                    ELSE latest'[x] = latest[x] /\ promise'[x] = promise[x]
<1>0. /\ DOMAIN req = Cos /\ pc[w] \in Locked \cup Unlocked /\ DOMAIN pc = Cos
      /\ promise \in [Sectors -> SUBSET Values] /\ latest \in [Sectors -> Values]
      /\ WaitInv
  BY RequestIs DEF AllInv, TypeInv, WaitInv, PlacesType
<1>1. count' = count
  BY ProgressCounts
<1>2. \A o \in Cos : req'[o] = req[o] \/ (o = w /\ req'[o] = NoRequest)
  BY OthersStay, RequestGoes
<1>3. ASSUME NEW done \in BOOLEAN, Finishes(w, done)
      PROVE  \/ UNCHANGED <<promise, latest>>
            \/ /\ req[w].op = "write"
               /\ (pc[w] = "wrote" /\ ~ m[w].alloc) \/ pc[w] = "done"
               /\ req'[w] = NoRequest /\ pc'[w] = "idle"
               /\ \A x \in Sectors :
                    IF x \in Touches(w)
                    THEN /\ latest'[x] = req[w].v
                         /\ promise'[x] = IF writethrough
                              THEN {v \in promise[x] : v >= req[w].v} ELSE promise[x]
                    ELSE latest'[x] = latest[x] /\ promise'[x] = promise[x]
  <2>1. Leave(w, done)
    BY <1>3 DEF Finishes
  <2>2. CASE done /\ req[w].op = "write"
    <3>1. (pc[w] = "wrote" /\ ~ m[w].alloc) \/ pc[w] = "done"
      BY <1>3, <2>2 DEF Finishes
    <3>2. pc'[w] = "idle" /\ req'[w] = NoRequest
      BY <1>0, <2>1 DEF Leave
    <3>3. /\ latest' = [x \in Sectors |-> IF x \in Touches(w) THEN req[w].v ELSE latest[x]]
          /\ promise' = [x \in Sectors |-> IF writethrough /\ x \in Touches(w)
                           THEN {v \in promise[x] : v >= req[w].v} ELSE promise[x]]
      BY <2>1, <2>2 DEF Leave
    <3>4. QED BY <2>2, <3>1, <3>2, <3>3
  <2>3. CASE ~ (done /\ req[w].op = "write")
    <3>1. /\ latest' = [x \in Sectors |-> latest[x]]
          /\ promise' = [x \in Sectors |-> promise[x]]
      BY <2>1, <2>3 DEF Leave
    <3>2. QED BY <1>0, <3>1
  <2>4. QED BY <2>2, <2>3
<1>4. CASE FlushDisk(w) /\ Settled
  <2>1. latest' = latest /\ pc[w] = "flush_disk"
    BY <1>4 DEF FlushDisk
  <2>2. pc'[w] = "idle"
    BY <1>0, <1>4, GotoIs DEF FlushDisk
  <2>3. \/ promise' = promise
        \/ /\ Flushed
           /\ \A x \in Sectors : promise'[x] = {v \in promise[x] : v >= req[w].floor[x]}
    BY <1>4 DEF FlushDisk
  <2>4. QED BY <1>1, <1>2, <1>4, <2>1, <2>2, <2>3
<1>5. QED BY <1>1, <1>2, <1>3, <1>4, RequestLeaves

LEMMA ProgressKeepsPledge ==
  ASSUME OnlyDataFails, AllInv, TabledInv, KindInv, PledgeInv, NEW w \in Cos, Progress(w)
  PROVE  PledgeInv'
<1>0. /\ count' = count
      /\ \A o \in Cos : req'[o] = req[o] \/ (o = w /\ req'[o] = NoRequest)
      /\ NoRequest.op = "none"
      /\ promise \in [Sectors -> SUBSET Values] /\ latest \in [Sectors -> Values]
      /\ Values \subseteq Int /\ count \in Int
      /\ \A o \in Cos : req[o].op # "none" =>
           req[o].v \in Int /\ \A x \in Sectors : req[o].floor[x] \in Int /\ req[o].floor[x] >= -1
  <2>1. ASSUME NEW o \in Cos, req[o].op # "none"
        PROVE  req[o].v \in Int /\ \A x \in Sectors : req[o].floor[x] \in Int /\ req[o].floor[x] >= -1
    <3>1. req[o] \in ReqSet /\ req[o] # NoRequest
      <4>1. req[o] # NoRequest
        BY <2>1 DEF NoRequest
      <4>2. QED BY <4>1, RequestIs
    <3>2. req[o].v \in Values /\ req[o].floor \in [Sectors -> Values]
      BY <3>1 DEF ReqSet
    <3>3. \A v \in Values : v \in Int /\ v >= -1
      BY QcowAssumption DEF Values
    <3>4. QED BY <3>2, <3>3
  <2>2. QED BY <2>1, ProgressPromises, CountIs, ValuesOk DEF NoRequest, ValuesAre, AllInv, TypeInv
<1>1. Numbered'
  BY ProgressKeepsNumbers
<1>2. CASE UNCHANGED <<promise, latest>>
  <2>1. \A o \in Cos : Pledged(o)'
    <3>1. SUFFICES ASSUME NEW o \in Cos, req'[o] = req[o] PROVE Pledged(o)'
      BY <1>0 DEF Pledged
    <3>2. QED BY <1>0, <1>2, <3>1 DEF PledgeInv, Pledged, Touches
  <2>2. QED BY <1>0, <1>1, <1>2, <2>1, PledgeInvThen DEF PledgeInv
<1>3. CASE /\ latest' = latest /\ pc[w] = "flush_disk"
           /\ \A x \in Sectors : promise'[x] = {v \in promise[x] : v >= req[w].floor[x]}
  <2>0. req[w].op # "none"
    BY <1>3, RequestInvIs DEF AllInv, PlaceOk
  <2>1. \A o \in Cos : Pledged(o)'
    <3>1. SUFFICES ASSUME NEW o \in Cos, req'[o] = req[o], req[o].op # "none" PROVE Pledged(o)'
      BY <1>0 DEF Pledged
    <3>2. Touches(o)' = Touches(o)
      BY <3>1 DEF Touches
    <3>3. Touches(o) \subseteq Sectors
      BY RequestIs DEF Touches, Sectors
    <3>4. ASSUME NEW x \in Touches(o)
          PROVE  /\ req[o].op = "write" => latest[x] < req[o].v /\ req[o].v \in promise'[x]
                 /\ req[o].op = "discard" => latest[x] = -1 /\ promise'[x] = Values
      <4>1. x \in Sectors /\ req[w].floor[x] <= latest[x] /\ latest[x] \in Int
        BY <1>0, <2>0, <3>3 DEF PledgeInv, Pledged
      <4>2. CASE req[o].op = "write"
        <5>1. latest[x] < req[o].v /\ req[o].v \in promise[x]
          BY <3>1, <4>2 DEF PledgeInv, Pledged
        <5>2. req[o].v >= req[w].floor[x]
          BY <1>0, <2>0, <3>1, <4>1, <5>1
        <5>3. QED BY <1>3, <4>1, <4>2, <5>1, <5>2
      <4>3. CASE req[o].op = "discard"
        <5>1. latest[x] = -1 /\ promise[x] = Values
          BY <3>1, <4>3 DEF PledgeInv, Pledged
        <5>2. \A v \in Values : v >= req[w].floor[x]
          <6>1. req[w].floor[x] = -1
            BY <1>0, <2>0, <4>1, <5>1
          <6>2. QED BY <6>1, QcowAssumption DEF Values
        <5>3. promise'[x] = Values
          BY <1>3, <4>1, <5>1, <5>2
        <5>4. QED BY <4>3, <5>1, <5>3
      <4>4. QED BY <4>2, <4>3
    <3>5. QED BY <1>0, <1>3, <3>1, <3>2, <3>4 DEF PledgeInv, Pledged
  <2>2. QED BY <1>0, <1>1, <1>3, <2>1, PledgeInvThen DEF PledgeInv
<1>4. CASE /\ req[w].op = "write" /\ req'[w] = NoRequest
           /\ \A x \in Sectors :
                IF x \in Touches(w)
                THEN /\ latest'[x] = req[w].v
                     /\ promise'[x] = IF writethrough
                          THEN {v \in promise[x] : v >= req[w].v} ELSE promise[x]
                ELSE latest'[x] = latest[x] /\ promise'[x] = promise[x]
  <2>1. \A x \in Sectors : latest'[x] <= count /\ latest[x] <= latest'[x]
    <3>1. SUFFICES ASSUME NEW x \in Sectors PROVE latest'[x] <= count /\ latest[x] <= latest'[x]
      OBVIOUS
    <3>2. latest[x] <= count /\ latest[x] \in Int
      BY <1>0 DEF PledgeInv
    <3>3. x \in Touches(w) => latest[x] < req[w].v /\ req[w].v <= count
      BY <1>4 DEF PledgeInv, Pledged
    <3>4. CASE x \in Touches(w)
      <4>1. latest'[x] = req[w].v /\ req[w].v \in Int
        BY <1>0, <1>4, <3>4
      <4>2. QED BY <3>2, <3>3, <3>4, <4>1
    <3>5. CASE x \notin Touches(w)
      <4>1. latest'[x] = latest[x]
        BY <1>4, <3>5
      <4>2. QED BY <3>2, <4>1
    <3>6. QED BY <3>4, <3>5
  <2>2. \A o \in Cos : Pledged(o)'
    <3>1. SUFFICES ASSUME NEW o \in Cos, req'[o] = req[o], o # w, req[o].op # "none"
          PROVE  Pledged(o)'
      BY <1>0, <1>4 DEF Pledged
    <3>2. Touches(o)' = Touches(o)
      BY <3>1 DEF Touches
    <3>3. Touches(o) \subseteq Sectors
      BY RequestIs DEF Touches, Sectors
    <3>4. Touches(o) \cap Touches(w) = {}
      BY <3>1, RequestInvIs DEF AllInv, DistinctOk
    <3>5. \A x \in Touches(o) : latest'[x] = latest[x] /\ promise'[x] = promise[x]
      BY <1>4, <3>3, <3>4
    <3>6. \A x \in Sectors : req[o].floor[x] <= latest'[x]
      <4>1. SUFFICES ASSUME NEW x \in Sectors PROVE req[o].floor[x] <= latest'[x]
        OBVIOUS
      <4>2. req[o].floor[x] <= latest[x] /\ latest[x] \in Int /\ req[o].floor[x] \in Int
        BY <1>0, <3>1 DEF PledgeInv, Pledged
      <4>3. latest'[x] \in Int
        BY <1>0, <1>4, <4>2
      <4>4. QED BY <2>1, <4>2, <4>3
    <3>7. QED BY <1>0, <3>1, <3>2, <3>5, <3>6 DEF PledgeInv, Pledged
  <2>3. QED BY <1>0, <1>1, <2>1, <2>2, PledgeInvThen
<1>5. QED BY <1>2, <1>3, <1>4, ProgressPromises

LEMMA CallKeepsPledge ==
  ASSUME OnlyDataFails, AllInv, PledgeInv, CallStep
  PROVE  PledgeInv'
<1>1. UNCHANGED <<req, promise, latest, count>>
  BY CallStill DEF requests, ghosts
<1>2. Numbered'
  BY CallKeepsNumbers DEF PledgeInv
<1>3. QED BY <1>1, <1>2 DEF PledgeInv, Pledged, Touches

LEMMA SubmitKeepsPledge ==
  ASSUME AllInv, PledgeInv, NEW w \in Cos, SubmitAny(w)
  PROVE  PledgeInv'
<1>0. PICK gone, put : SubmitDoes(w, gone, put)
  BY SubmitIs
<1>1. /\ count' = count + 1 /\ count \in Int /\ count >= 1
      /\ promise \in [Sectors -> SUBSET Values] /\ latest \in [Sectors -> Values]
      /\ \A v \in Values : v \in Int /\ v >= -1
  BY <1>0, CountIs, QcowAssumption DEF SubmitDoes, Values, AllInv, TypeInv
<1>2. Still
  BY SubmitStill
<1>3. Numbered'
  <2>1. ASSUME NEW c \in Clusters, NEW i \in Half, NEW d \in Possible(Cell(c, i))', ~ IsEntry(d)
        PROVE  d.v <= count'
    <3>1. d \in Possible(Cell(c, i)) /\ d \in EntrySet \cup DataSet
      BY <1>2 DEF Still, AllInv, FileInv
    <3>2. d.v \in Values /\ d.v <= count
      BY <2>1, <3>1, DataIs DEF PledgeInv, Numbered
    <3>3. QED BY <1>1, <3>2
  <2>2. QED BY <2>1 DEF Numbered
<1>4. \A x \in Sectors : latest'[x] <= count' /\ latest'[x] <= latest[x]
  <2>1. SUFFICES ASSUME NEW x \in Sectors PROVE latest'[x] <= count' /\ latest'[x] <= latest[x]
    OBVIOUS
  <2>2. latest[x] \in Int /\ latest[x] >= -1 /\ latest[x] <= count
    BY <1>1 DEF PledgeInv
  <2>3. latest'[x] = IF x \in gone THEN -1 ELSE latest[x]
    BY <1>0 DEF SubmitDoes
  <2>4. QED BY <1>1, <2>2, <2>3
<1>5. Pledged(w)'
  <2>1. /\ \A x \in Sectors : req'[w].floor[x] = latest'[x]
        /\ req'[w].v = count + 1
        /\ gone = IF req'[w].op = "discard" THEN Touches(w)' ELSE {}
        /\ put = IF req'[w].op = "write" THEN Touches(w)' ELSE {}
        /\ \A x \in Sectors :
             /\ latest'[x] = IF x \in gone THEN -1 ELSE latest[x]
             /\ promise'[x] = IF x \in gone THEN Values
                              ELSE IF x \in put THEN promise[x] \cup {count + 1} ELSE promise[x]
    BY <1>0 DEF SubmitDoes
  <2>2. Touches(w)' \subseteq Sectors
    <3>1. TypeInv'
      BY SubmitKeepsType
    <3>2. req'[w] \in ReqSet
      BY <3>1 DEF TypeInv
    <3>3. req'[w].g \in Guest /\ req'[w].halves \subseteq Half
      BY <3>2 DEF ReqSet, NoRequest, Guest
    <3>4. QED BY <3>3 DEF Touches, Sectors
  <2>3. ASSUME NEW x \in Touches(w)'
        PROVE  /\ req'[w].op = "write" => latest'[x] < req'[w].v /\ req'[w].v \in promise'[x]
               /\ req'[w].op = "discard" => latest'[x] = -1 /\ promise'[x] = Values
    <3>1. x \in Sectors /\ latest[x] \in Int /\ latest[x] <= count
      BY <1>1, <2>2 DEF PledgeInv
    <3>2. req'[w].op = "discard" => latest'[x] = -1 /\ promise'[x] = Values
      BY <2>1, <2>3, <3>1
    <3>3. req'[w].op = "write" => latest'[x] = latest[x] /\ promise'[x] = promise[x] \cup {count + 1}
      BY <2>1, <2>3, <3>1
    <3>4. QED BY <1>1, <2>1, <3>1, <3>2, <3>3
  <2>4. \A x \in Sectors : latest'[x] \in Int
    <3>1. SUFFICES ASSUME NEW x \in Sectors PROVE latest'[x] \in Int
      OBVIOUS
    <3>2. latest[x] \in Int /\ latest'[x] \in {-1, latest[x]}
      BY <1>1, <2>1
    <3>3. QED BY <3>2
  <2>5. \A x \in Sectors : req'[w].floor[x] <= latest'[x]
    BY <2>1, <2>4
  <2>6. req'[w].v <= count'
    BY <1>1, <2>1
  <2>7. QED BY <2>3, <2>5, <2>6 DEF Pledged
<1>6. ASSUME NEW o \in Cos \ {w} PROVE Pledged(o)'
  <2>0. SUFFICES ASSUME req'[o].op # "none" PROVE Pledged(o)'
    BY DEF Pledged
  <2>1. /\ req'[o].op = req[o].op /\ req'[o].v = req[o].v /\ Touches(o)' = Touches(o)
        /\ Touches(o) \cap (gone \cup put) = {}
        /\ \A x \in Sectors : req'[o].floor[x] = IF x \in gone THEN -1 ELSE req[o].floor[x]
        /\ \A x \in Sectors :
             /\ latest'[x] = IF x \in gone THEN -1 ELSE latest[x]
             /\ promise'[x] = IF x \in gone THEN Values
                              ELSE IF x \in put THEN promise[x] \cup {count + 1} ELSE promise[x]
    BY <1>0, <2>0 DEF SubmitDoes
  <2>2. Touches(o) \subseteq Sectors
    BY RequestIs DEF Touches, Sectors
  <2>3. \A x \in Touches(o) : latest'[x] = latest[x] /\ promise'[x] = promise[x]
    BY <2>1, <2>2
  <2>4. \A x \in Sectors : req'[o].floor[x] <= latest'[x]
    <3>1. \A x \in Sectors : req[o].floor[x] <= latest[x]
      BY <2>0, <2>1 DEF PledgeInv, Pledged
    <3>2. SUFFICES ASSUME NEW x \in Sectors PROVE req'[o].floor[x] <= latest'[x]
      OBVIOUS
    <3>3. CASE x \in gone
      <4>1. req'[o].floor[x] = -1 /\ latest'[x] = -1
        BY <2>1, <3>3
      <4>2. QED BY <4>1
    <3>4. CASE x \notin gone
      BY <2>1, <3>1, <3>4
    <3>5. QED BY <3>3, <3>4
  <2>5. req'[o].v <= count'
    <3>1. req[o].v <= count
      BY <2>0, <2>1 DEF PledgeInv, Pledged
    <3>2. req[o].v \in Int
      <4>1. req[o] \in ReqSet /\ req[o] # NoRequest
        <5>1. req[o] # NoRequest
          BY <2>0, <2>1 DEF NoRequest
        <5>2. QED BY <5>1, RequestIs
      <4>2. req[o].v \in Values
        BY <4>1 DEF ReqSet
      <4>3. QED BY <1>1, <4>2
    <3>3. QED BY <1>1, <2>1, <3>1, <3>2
  <2>6. QED BY <2>0, <2>1, <2>3, <2>4, <2>5 DEF PledgeInv, Pledged
<1>7. QED BY <1>3, <1>4, <1>5, <1>6, PledgeInvThen

(* Reading an image a crash left goes through an entry that the file may   *)
(* hold, to a content that is possible behind it.                          *)
LEMMA ReadsBehind ==
  ASSUME AllInv, NEW img, \A u \in Units : img[u] \in Possible(u),
         NEW i \in Half, NEW h \in Half, NEW t, t = img[L1].c
  PROVE  \/ t = 0 /\ Reads(img, t, i, h) = 0
         \/ \E e \in Stored(i) : Reads(img, t, i, h) \in Behind(e, h)
<1>0. FileInv
  BY DEF AllInv
<1>1. CASE t = 0
  BY <1>1 DEF Reads
<1>2. CASE t # 0
  <2>1. t \in Tables /\ t \in Clusters
    BY <1>0, <1>2, TablesClusters, UnitsAre DEF Tables
  <2>2. PICK e : e = img[Cell(t, i)]
    OBVIOUS
  <2>3. e \in Stored(i) /\ e \in EntrySet
    BY <1>0, <2>1, <2>2, TablesClusters, UnitsAre DEF FileInv
  <2>4. Reads(img, t, i, h) = (IF e.c = 0 THEN 0
          ELSE IF IsEntry(img[Cell(e.c, h)]) THEN -1 ELSE img[Cell(e.c, h)].v)
    BY <1>2, <2>2, <2>3, DataIs DEF Reads
  <2>5. CASE e.c = 0
    BY <2>3, <2>4, <2>5 DEF Behind
  <2>6. CASE e.c # 0
    <3>1. e.c \in Clusters
      BY <2>3, <2>6, EntriesAre
    <3>2. img[Cell(e.c, h)] \in Possible(Cell(e.c, h))
      BY <3>1, UnitsAre
    <3>3. Reads(img, t, i, h) = Content(img[Cell(e.c, h)])
      BY <2>4, <2>6 DEF Content
    <3>4. QED BY <2>3, <2>6, <3>2, <3>3, BehindIs
  <2>7. QED BY <2>5, <2>6
<1>3. QED BY <1>1, <1>2

LEMMA BehindNumbered ==
  ASSUME AllInv, PledgeInv, NEW i \in Half, NEW e \in Known(i), NEW h \in Half, NEW v \in Behind(e, h)
  PROVE  v <= count
<1>0. count \in Int /\ count >= 1
  BY CountIs
<1>1. CASE e.c = 0
  <2>1. v = 0
    BY <1>1 DEF Behind
  <2>2. QED BY <1>0, <2>1
<1>2. CASE e.c # 0
  <2>1. e.c \in Clusters
    BY <1>2, FiledIs, EntriesAre
  <2>2. PICK d \in Possible(Cell(e.c, h)) : v = Content(d)
    BY <1>2, BehindIs
  <2>3. IsEntry(d) => v = -1
    BY <2>2 DEF Content
  <2>4. ~ IsEntry(d) => v = d.v /\ d.v <= count
    BY <2>1, <2>2 DEF Content, PledgeInv, Numbered
  <2>5. QED BY <1>0, <2>3, <2>4
<1>3. QED BY <1>1, <1>2

LEMMA CrashReads ==
  ASSUME AllInv, Crash, NEW x \in Sectors
  PROVE  latest'[x] = 0 \/ \E e \in Stored(x[1]) : latest'[x] \in Behind(e, x[2])
<1>1. x[1] \in Half /\ x[2] \in Half
  BY DEF Sectors, Guest, Half
<1>2. PICK img : img = file'
  OBVIOUS
<1>3. \A u \in Units : img[u] \in Possible(u)
  BY <1>2, CrashImage
<1>4. latest'[x] = Reads(img, img[L1].c, x[1], x[2])
  BY <1>2 DEF Crash
<1>5. QED BY <1>1, <1>3, <1>4, ReadsBehind

LEMMA CrashKeepsPledge ==
  ASSUME AllInv, PledgeInv, Crash
  PROVE  PledgeInv'
<1>1. count' = count /\ req' = [w \in Cos |-> NoRequest] /\ count \in Int /\ count >= 1
  BY CountIs DEF Crash
<1>2. Numbered'
  BY <1>1, CrashImage, UnitsAre DEF PledgeInv, Numbered
<1>3. ASSUME NEW x \in Sectors PROVE latest'[x] <= count'
  <2>1. x[1] \in Half /\ x[2] \in Half
    BY DEF Sectors, Guest, Half
  <2>2. \A e \in Stored(x[1]) : \A v \in Behind(e, x[2]) : v <= count
    BY <2>1, BehindNumbered DEF Known
  <2>3. QED BY <1>1, <2>2, CrashReads
<1>4. \A w \in Cos : Pledged(w)'
  BY <1>1 DEF Pledged, NoRequest
<1>5. QED BY <1>2, <1>3, <1>4, PledgeInvThen

LEMMA InitPledge ==
  ASSUME Init
  PROVE  PledgeInv
<1>1. PICK s \in Setups :
        /\ latest = [x \in Sectors |-> IF s[2] # "empty" /\ x[1] = 0 THEN 1 ELSE 0]
        /\ count = 1 /\ req = [w \in Cos |-> NoRequest] /\ lost = [u \in Units |-> {}]
  BY DEF Init
<1>2. PICK kind \in {"plain", "shared", "compressed", "empty"} : file = FreshImage(kind)
  BY InitOpened
<1>3. Numbered
  <2>1. SUFFICES ASSUME NEW c \in Clusters, NEW i \in Half, NEW d \in Possible(Cell(c, i)), ~ IsEntry(d)
                 PROVE  d.v <= 1
    BY <1>1 DEF Numbered
  <2>2. d = file[Cell(c, i)]
    <3>1. Cell(c, i) \in Units
      BY UnitsAre
    <3>2. QED BY <1>1, <3>1 DEF Possible
  <2>3. Data(0).v = 0 /\ Data(1).v = 1
    BY DataIs
  <2>4. CASE kind = "empty"
    <3>1. d = Data(0)
      BY <1>2, <2>2, <2>4, FreshIs
    <3>2. QED BY <2>3, <3>1
  <2>5. CASE kind # "empty" /\ c # 1
    <3>1. d \in {Data(0), Data(1)}
      BY <1>2, <2>2, <2>5, FreshIs
    <3>2. QED BY <2>3, <3>1
  <2>6. CASE kind # "empty" /\ c = 1
    <3>1. \E flag : d \in {Entry(2, flag), Unallocated}
      BY <1>2, <2>2, <2>6, FreshIs, HalfAre
    <3>2. IsEntry(d)
      BY <3>1 DEF Unallocated, Entry, IsEntry
    <3>3. QED BY <2>1, <3>2
  <2>7. QED BY <2>4, <2>5, <2>6
<1>4. \A x \in Sectors : latest[x] <= count
  <2>1. \A x \in Sectors : latest[x] \in {0, 1}
    BY <1>1
  <2>2. QED BY <1>1, <2>1
<1>5. \A w \in Cos : Pledged(w)
  BY <1>1 DEF Pledged, NoRequest
<1>6. QED BY <1>3, <1>4, <1>5 DEF PledgeInv

-----------------------------------------------------------------------------
(* What the guest reads in memory is what it wrote last, or later.         *)

ShownReads == \A x \in Sectors : Shown(x).v \in promise[x] /\ Shown(x).v >= latest[x]

(* The L2 tables may go to the file: then what they refer to is there.     *)
MayWrite == depends["l2"] = None \/ (In("flush_dependency", "flushed") /\ Top.k = "l2")
ShownPossible == MayWrite => \A x \in Sectors : Behind(Cached(x[1]), x[2]) \subseteq promise[x]

(* A request's data is in its cluster.                                     *)
HasData(w) == m[w].alloc /\ pc[w] \in {"wrote", "copy", "copied", "link"}
HasRest(w) == m[w].alloc /\ pc[w] \in {"copied", "link"}
IsLinked(w) ==
  req[w].op = "write" /\ (pc[w] \in {"unlink", "done"} \/ (pc[w] = "wrote" /\ ~ m[w].alloc))
NewData(w) ==
  /\ HasData(w) => \A h \in req[w].halves : file[Cell(m[w].c, h)] = Data(req[w].v)
  /\ HasRest(w) => \A h \in Rest(w) : file[Cell(m[w].c, h)] = Shown(<<req[w].g, h>>)
  /\ IsLinked(w) => \A h \in req[w].halves : Shown(<<req[w].g, h>>) = Data(req[w].v)
ShownInv == ShownReads /\ ShownPossible /\ \A w \in Cos : NewData(w)

SameRequest(o) ==
  /\ pc'[o] = pc[o] /\ m'[o] = m[o]
  /\ req'[o].op = req[o].op /\ req'[o].g = req[o].g
  /\ req'[o].halves = req[o].halves /\ req'[o].v = req[o].v

LEMMA NewDataKept ==
  ASSUME NEW o \in Cos, NewData(o), SameRequest(o), NEW g, g = req[o].g, NEW c, c = m[o].c,
         HasData(o) => \A h \in Half : file'[Cell(c, h)] = file[Cell(c, h)],
         HasRest(o) => \A h \in Rest(o) : Shown(<<g, h>>)' = Shown(<<g, h>>),
         IsLinked(o) => \A h \in req[o].halves : Shown(<<g, h>>)' = Shown(<<g, h>>),
         req[o].halves \subseteq Half
  PROVE  NewData(o)'
<1>1. /\ HasData(o)' <=> HasData(o)
      /\ HasRest(o)' <=> HasRest(o)
      /\ IsLinked(o)' <=> IsLinked(o)
      /\ HasRest(o) => HasData(o)
      /\ Rest(o)' = Rest(o) /\ Rest(o) \subseteq Half
  BY DEF SameRequest, HasData, HasRest, IsLinked, Rest
<1>2. \A h : Shown(<<req[o].g, h>>)' = Shown(<<g, h>>)'
  BY DEF SameRequest
<1>3. Cell(m[o].c, 0)' = Cell(c, 0) /\ \A h : Cell(m[o].c, h)' = Cell(c, h)
  BY DEF SameRequest, Cell
<1>4. HasData(o)' => \A h \in req'[o].halves : file'[Cell(m'[o].c, h)] = Data(req'[o].v)
  BY <1>1 DEF SameRequest, NewData
<1>5. HasRest(o)' => \A h \in Rest(o)' : file'[Cell(m'[o].c, h)] = Shown(<<req[o].g, h>>)'
  BY <1>1, <1>2 DEF SameRequest, NewData
<1>6. IsLinked(o)' => \A h \in req'[o].halves : Shown(<<req[o].g, h>>)' = Data(req'[o].v)
  BY <1>1, <1>2 DEF SameRequest, NewData
<1>7. QED BY <1>4, <1>5, <1>6 DEF NewData

LEMMA ShownInvThen ==
  ASSUME ShownReads', ShownPossible', \A w \in Cos : NewData(w)'
  PROVE  ShownInv'
BY DEF ShownInv

LEMMA HasDataHolds ==
  ASSUME AllInv, NEW o \in Cos, HasData(o)
  PROVE  Holds(o) /\ m[o].c \in Clusters /\ Apart(m[o].c) /\ m[o].alloc
BY HeldIs DEF HasData, Holds

(* Only a flush of the file ends the flush of the refcounts before the L2  *)
(* tables.                                                                 *)
LEMMA DependencyFlushed ==
  ASSUME OnlyDataFails, AllInv, CallStep, In("flush_dependency", "flushed")'
  PROVE  CacheFlushEnd
<1>0. /\ StackType /\ stack # <<>> /\ ret = TRUE /\ Top = stack[1] /\ GoodFrame(Top)
      /\ Len(stack) > 1 => Awaits(stack[2], Top)
  BY CallForms, TopIs DEF AllInv, ShapeInv
<1>1. \A x, at : Calls(<<x>>, at) => Top' = x
  <2>1. ASSUME NEW x, NEW at, Calls(<<x>>, at) PROVE Top' = x
    <3>1. PICK t : t = [Top EXCEPT !.at = at]
      OBVIOUS
    <3>2. stack' = <<x, t>> \o Tail(stack) /\ SameCall(t, Top)
      BY <1>0, <2>1, <3>1, CallCalls DEF Calls
    <3>3. QED BY <1>0, <3>2, CallPushes
  <2>2. QED BY <2>1
<1>2. \A at : Calls(<<>>, at) => Top'.f = Top.f
  BY <1>0, CallMoves, StackIs DEF SameCall
<1>3. \A r : Returns(r) => Top.f = "cache_flush"
  <2>1. SUFFICES ASSUME NEW r, Returns(r) PROVE Top.f = "cache_flush"
    OBVIOUS
  <2>2. stack' # <<>> /\ Top'.f = "flush_dependency"
    BY DEF In
  <2>3. Len(stack) > 1 /\ Top' = stack[2]
    BY <1>0, <2>1, <2>2, CallReturns
  <2>4. QED BY <1>0, <2>2, <2>3 DEF Awaits
<1>4. Top'.f = "flush_dependency" /\ Top'.at = "flushed"
  BY DEF In
<1>5. \A f, k, e, todo : Frame(f, k, e, todo).f = f /\ Frame(f, k, e, todo).at = "start"
  BY FramesAre
<1>6. ~ CacheFlushNext
  <2>1. SUFFICES ASSUME CacheFlushNext PROVE FALSE
    OBVIOUS
  <2>2. PICK e : stack' = <<EntryFlush(Top.k, e), [Top EXCEPT !.todo = @ \ {e},
                                 !.at = IF ret THEN @ ELSE "failed"]>> \o Tail(stack)
    BY <2>1 DEF CacheFlushNext
  <2>3. PICK t : t = [Top EXCEPT !.todo = @ \ {e}, !.at = IF ret THEN @ ELSE "failed"]
    OBVIOUS
  <2>4. SameCall(t, Top)
    BY <2>3 DEF SameCall
  <2>5. PICK x : x = EntryFlush(Top.k, e)
    OBVIOUS
  <2>6. Top' = x
    BY <1>0, <2>2, <2>3, <2>4, <2>5, CallPushes
  <2>7. QED BY <1>4, <1>5, <2>5, <2>6 DEF EntryFlush
<1>7. ~ (EntryFlushStart \/ EntryFlushWrite \/ EntryFlushWritten)
  <2>1. EntryFlushWrite \/ EntryFlushWritten => FALSE
    BY <1>2, <1>3, <1>4 DEF EntryFlushWrite, EntryFlushWritten, In
  <2>2. EntryFlushStart => \/ Returns(TRUE) \/ Returns(FALSE)
                           \/ Calls(<<>>, "write") \/ Calls(<<FlushDependency(Top.k)>>, "write")
    BY DEF EntryFlushStart
  <2>3. EntryFlushStart => Top.f = "entry_flush"
    BY DEF EntryFlushStart, In
  <2>4. Calls(<<FlushDependency(Top.k)>>, "write") => Top' = FlushDependency(Top.k)
    BY <1>1
  <2>5. FlushDependency(Top.k).at = "start"
    BY <1>5 DEF FlushDependency
  <2>6. QED BY <1>2, <1>3, <1>4, <2>1, <2>2, <2>3, <2>4, <2>5
<1>8. ~ FlushDependencyStep
  BY <1>1, <1>2, <1>3, <1>4, <1>5 DEF FlushDependencyStep, In, CacheFlush
<1>9. ~ SetDependencyStep
  BY <1>1, <1>2, <1>3, <1>4, <1>5 DEF SetDependencyStep, In, FlushDependency
<1>10. ~ UpdateRefcountStep
  BY <1>1, <1>2, <1>3, <1>4, <1>5 DEF UpdateRefcountStep, In, SetDependency, PutFrames, EntryFlush
<1>11. QED BY <1>6, <1>7, <1>8, <1>9, <1>10 DEF CallStep

(* With nothing lost there is one content behind an entry.                 *)
LEMMA BehindOne ==
  ASSUME NEW e \in EntrySet, NEW h \in Half, NEW s, s = Sector(e, h),
         \A c \in Clusters : Possible(Cell(c, h)) = {file[Cell(c, h)]}
  PROVE  Behind(e, h) = {Content(s)}
<1>1. e.c \in Clusters \cup {0}
  BY EntriesAre
<1>2. CASE e.c = 0
  BY <1>2, DataIs DEF Behind, Sector
<1>3. CASE e.c # 0
  BY <1>1, <1>3 DEF Behind, Sector
<1>4. QED BY <1>2, <1>3

LEMMA BehindOneNext ==
  ASSUME NEW e \in EntrySet, NEW h \in Half, NEW s, s = Sector(e, h)',
         \A c \in Clusters : Possible(Cell(c, h))' = {file'[Cell(c, h)]}
  PROVE  Behind(e, h)' = {Content(s)}
<1>1. e.c \in Clusters \cup {0}
  BY EntriesAre
<1>2. CASE e.c = 0
  BY <1>2, DataIs DEF Behind, Sector
<1>3. CASE e.c # 0
  BY <1>1, <1>3 DEF Behind, Sector
<1>4. QED BY <1>2, <1>3

(* What flushing the file leaves behind the entries in memory.             *)
LEMMA FlushedShown ==
  ASSUME AllInv, TabledInv, Still, Flushed, NEW x \in Sectors
  PROVE  Behind(Cached(x[1]), x[2])' = {Shown(x).v}
<1>0. x[1] \in Half /\ x[2] \in Half /\ Content(Shown(x)) = Shown(x).v
  BY ShownIs
<1>1. PICK e : e = Cached(x[1])
  OBVIOUS
<1>2. e \in EntrySet /\ Cached(x[1])' = e
  BY <1>0, <1>1, CachedIs DEF Still
<1>3. Sector(e, x[2])' = Shown(x)
  BY <1>0, <1>1, <1>2, StillMeans DEF Shown
<1>4. \A c \in Clusters : Possible(Cell(c, x[2]))' = {file'[Cell(c, x[2])]}
  BY <1>0, FlushedMeans, UnitsAre
<1>5. Behind(e, x[2])' = {Content(Shown(x))}
  BY <1>0, <1>2, <1>3, <1>4, BehindOneNext
<1>6. Behind(Cached(x[1]), x[2])' = Behind(e, x[2])'
  BY <1>2 DEF Behind
<1>7. QED BY <1>0, <1>5, <1>6

LEMMA BehindShrinks ==
  ASSUME AllInv, Still, NEW x \in Sectors
  PROVE  Behind(Cached(x[1]), x[2])' \subseteq Behind(Cached(x[1]), x[2])
<1>0. x[1] \in Half /\ x[2] \in Half
  BY DEF Sectors, Guest, Half
<1>1. PICK e : e = Cached(x[1])
  OBVIOUS
<1>2. e \in EntrySet /\ Cached(x[1])' = e
  BY <1>0, <1>1, CachedIs DEF Still
<1>3. Behind(e, x[2])' \subseteq Behind(e, x[2])
  BY <1>0, <1>2, StillMeans
<1>4. Behind(Cached(x[1]), x[2])' = Behind(e, x[2])'
  BY <1>2 DEF Behind
<1>5. QED BY <1>1, <1>3, <1>4

LEMMA StillKeepsNew ==
  ASSUME AllInv, Still, NEW o \in Cos, NewData(o), SameRequest(o)
  PROVE  NewData(o)'
<1>1. PICK g, c : g = req[o].g /\ c = m[o].c
  OBVIOUS
<1>2. g \in Half /\ req[o].halves \subseteq Half
  BY <1>1, RequestIs
<1>3. \A h \in Half : Shown(<<g, h>>)' = Shown(<<g, h>>)
  <2>1. \A h \in Half : <<g, h>> \in Sectors
    BY <1>2 DEF Sectors, Guest, Half
  <2>2. QED BY <2>1, StillMeans
<1>4. HasData(o) => \A h \in Half : file'[Cell(c, h)] = file[Cell(c, h)]
  BY <1>1, HasDataHolds DEF Still
<1>5. Rest(o) \subseteq Half
  BY DEF Rest
<1>6. QED BY <1>1, <1>2, <1>3, <1>4, <1>5, NewDataKept

LEMMA CallKeepsShown ==
  ASSUME OnlyDataFails, AllInv, TabledInv, ShownInv, CallStep
  PROVE  ShownInv'
<1>0. /\ UNCHANGED <<pc, req, m, promise, latest>>
      /\ \A o \in Cos : SameRequest(o)
      /\ Still \/ (EntryFlushWrite /\ Top.k = "l2")
  BY CallStill DEF requests, ghosts, SameRequest
<1>1. MayWrite' => MayWrite \/ CacheFlushEnd
  <2>1. depends'["l2"] = None => MayWrite
    <3>1. SUFFICES ASSUME depends'["l2"] = None, depends["l2"] # None PROVE MayWrite
      BY DEF MayWrite
    <3>2. FlushDependencyStep /\ In("flush_dependency", "flushed") /\ Top.k = "l2"
      <4>1. depends \in [Caches -> Caches \cup {None}] /\ "l2" \in Caches /\ ret = TRUE
        BY CachesAre DEF AllInv, DependInv, ShapeInv
      <4>2. ~ SetDependencyStep
        <5>1. SUFFICES ASSUME SetDependencyStep PROVE FALSE
          OBVIOUS
        <5>2. Top.k \in Caches /\ Other(Top.k) # None
          BY <5>1, CallForms, CachesAre DEF AllInv, SetDependencyStep, In, GoodFrame
        <5>3. depends' = [depends EXCEPT ![Top.k] = IF ret THEN Other(Top.k) ELSE @] \/ depends' = depends
          BY <5>1 DEF SetDependencyStep
        <5>4. QED BY <3>1, <4>1, <5>2, <5>3
      <4>3. depends' = depends \/ FlushDependencyStep
        BY <4>2 DEF CallStep, CacheFlushNext, CacheFlushEnd, EntryFlushStart, EntryFlushWrite,
               EntryFlushWritten, UpdateRefcountStep, caches
      <4>4. QED BY <3>1, <4>1, <4>3 DEF FlushDependencyStep
    <3>3. QED BY <3>2 DEF MayWrite
  <2>2. In("flush_dependency", "flushed")' => CacheFlushEnd
    BY DependencyFlushed
  <2>3. QED BY <2>1, <2>2 DEF MayWrite
<1>2. CASE Still
  <2>1. ShownReads'
    BY <1>0, <1>2, StillMeans DEF ShownInv, ShownReads
  <2>2. ShownPossible'
    <3>1. SUFFICES ASSUME MayWrite', NEW x \in Sectors
                   PROVE  Behind(Cached(x[1]), x[2])' \subseteq promise'[x]
      BY DEF ShownPossible
    <3>2. CASE MayWrite
      BY <1>0, <1>2, <3>2, BehindShrinks DEF ShownInv, ShownPossible
    <3>3. CASE CacheFlushEnd
      <4>1. Flushed
        BY <3>3, CacheFlushEnds
      <4>2. QED BY <1>0, <1>2, <4>1, FlushedShown DEF ShownInv, ShownReads
    <3>4. QED BY <1>1, <3>1, <3>2, <3>3
  <2>3. \A o \in Cos : NewData(o)'
    BY <1>0, <1>2, StillKeepsNew DEF ShownInv
  <2>4. QED BY <2>1, <2>2, <2>3, ShownInvThen
<1>3. CASE EntryFlushWrite /\ Top.k = "l2"
  <2>0. /\ depends["l2"] = None
        /\ \A i \in Half : Cached(i)' = Cached(i)
        /\ \A i \in Half, h \in Half : \A e \in Known(i) : Kept(e, h)
        /\ \A x \in Sectors : Shown(x)' = Shown(x)
    BY <1>3, TableWriteIs
  <2>1. ShownReads'
    BY <1>0, <2>0 DEF ShownInv, ShownReads
  <2>2. \A x \in Sectors : Behind(Cached(x[1]), x[2])' \subseteq promise'[x]
    <3>1. SUFFICES ASSUME NEW x \in Sectors
                   PROVE  Behind(Cached(x[1]), x[2])' \subseteq promise[x]
      BY <1>0
    <3>2. x[1] \in Half /\ x[2] \in Half
      BY DEF Sectors, Guest, Half
    <3>3. PICK e : e = Cached(x[1])
      OBVIOUS
    <3>4. Cached(x[1])' = e /\ Kept(e, x[2])
      BY <2>0, <3>2, <3>3 DEF Known
    <3>5. Behind(Cached(x[1]), x[2])' = Behind(e, x[2])'
      BY <3>4 DEF Behind
    <3>6. Behind(e, x[2]) \subseteq promise[x]
      BY <2>0, <3>3 DEF ShownInv, ShownPossible, MayWrite
    <3>7. QED BY <3>4, <3>5, <3>6 DEF Kept
  <2>3. ASSUME NEW o \in Cos PROVE NewData(o)'
    <3>1. PICK g, c : g = req[o].g /\ c = m[o].c
      OBVIOUS
    <3>2. g \in Half /\ req[o].halves \subseteq Half /\ Rest(o) \subseteq Half
      BY <3>1, RequestIs DEF Rest
    <3>3. \A h \in Half : Shown(<<g, h>>)' = Shown(<<g, h>>)
      <4>1. \A h \in Half : <<g, h>> \in Sectors
        BY <3>2 DEF Sectors, Guest, Half
      <4>2. QED BY <2>0, <4>1
    <3>4. HasData(o) => \A h \in Half : file'[Cell(c, h)] = file[Cell(c, h)]
      <4>1. SUFFICES ASSUME HasData(o) PROVE \A h \in Half : file'[Cell(c, h)] = file[Cell(c, h)]
        OBVIOUS
      <4>2. c \in Clusters /\ c \notin DOMAIN l2
        BY <3>1, <4>1, HasDataHolds DEF Apart
      <4>3. PICK t \in Clusters : <<"l2", t>> \in dirty /\ \A d \in Clusters \ {t}, h \in Half :
              file'[Cell(d, h)] = file[Cell(d, h)]
        BY <1>3, TableWriteIs
      <4>4. t \in DOMAIN l2
        BY <4>3, DirtyTable
      <4>5. QED BY <4>2, <4>3, <4>4
    <3>5. NewData(o) /\ SameRequest(o)
      BY <1>0 DEF ShownInv
    <3>6. QED BY <3>1, <3>2, <3>3, <3>4, <3>5, NewDataKept
  <2>4. QED BY <2>1, <2>2, <2>3, ShownInvThen DEF ShownPossible
<1>4. QED BY <1>0, <1>2, <1>3

LEMMA SubmitKeepsShown ==
  ASSUME AllInv, TabledInv, ShownInv, NEW w \in Cos, SubmitAny(w)
  PROVE  ShownInv'
<1>0. /\ Still /\ UNCHANGED <<m, depends, stack>>
      /\ pc'[w] = "enter" /\ \A o \in Cos : o # w => pc'[o] = pc[o]
  BY SubmitStill, GotoIs DEF AllInv
<1>1. PICK gone, put : SubmitDoes(w, gone, put)
  BY SubmitIs
<1>2. \A x \in Sectors : /\ latest'[x] <= latest[x]
                         /\ promise[x] \subseteq promise'[x]
                         /\ promise'[x] = Values \/ promise[x] \subseteq promise'[x]
  <2>1. SUFFICES ASSUME NEW x \in Sectors
                 PROVE  latest'[x] <= latest[x] /\ promise[x] \subseteq promise'[x]
    OBVIOUS
  <2>2. /\ latest[x] \in Values /\ promise[x] \subseteq Values
        /\ \A v \in Values : v \in Int /\ v >= -1
    BY QcowAssumption DEF AllInv, TypeInv, Values
  <2>3. /\ latest'[x] = IF x \in gone THEN -1 ELSE latest[x]
        /\ promise'[x] = IF x \in gone THEN Values
                         ELSE IF x \in put THEN promise[x] \cup {count + 1} ELSE promise[x]
    BY <1>1 DEF SubmitDoes
  <2>4. latest'[x] <= latest[x]
    BY <2>2, <2>3
  <2>5. promise[x] \subseteq promise'[x]
    BY <2>2, <2>3
  <2>6. QED BY <2>4, <2>5
<1>3. ShownReads'
  <2>1. SUFFICES ASSUME NEW x \in Sectors
                 PROVE  Shown(x)'.v \in promise'[x] /\ Shown(x)'.v >= latest'[x]
    BY DEF ShownReads
  <2>2. Shown(x)' = Shown(x) /\ Shown(x).v \in promise[x] /\ Shown(x).v >= latest[x]
    BY <1>0, StillMeans DEF ShownInv, ShownReads
  <2>3. Shown(x).v \in Int /\ latest[x] \in Int /\ latest'[x] \in Int
    <3>1. Shown(x).v \in Values /\ latest[x] \in Values
      BY ShownIs DEF AllInv, TypeInv
    <3>2. latest'[x] \in {-1, latest[x]}
      BY <1>1 DEF SubmitDoes
    <3>3. QED BY <3>1, <3>2, ValuesOk DEF ValuesAre
  <2>4. QED BY <1>2, <2>2, <2>3
<1>4. ShownPossible'
  <2>1. MayWrite' => MayWrite
    BY <1>0 DEF MayWrite, In, Top
  <2>2. ASSUME NEW x \in Sectors, MayWrite PROVE Behind(Cached(x[1]), x[2])' \subseteq promise'[x]
    <3>1. Behind(Cached(x[1]), x[2]) \subseteq promise[x]
      BY <2>2 DEF ShownInv, ShownPossible
    <3>2. QED BY <1>0, <1>2, <3>1, BehindShrinks
  <2>3. QED BY <2>1, <2>2 DEF ShownPossible
<1>5. ASSUME NEW o \in Cos PROVE NewData(o)'
  <2>1. CASE o = w
    BY <1>0, <2>1 DEF NewData, HasData, HasRest, IsLinked
  <2>2. CASE o # w
    <3>1. SameRequest(o)
      BY <1>0, <1>1, <2>2 DEF SubmitDoes, SameRequest
    <3>2. QED BY <1>0, <3>1, StillKeepsNew DEF ShownInv
  <2>3. QED BY <2>1, <2>2
<1>6. QED BY <1>3, <1>4, <1>5, ShownInvThen

LEMMA ProgressMayWrite ==
  ASSUME OnlyDataFails, AllInv, NEW w \in Cos, Progress(w)
  PROVE  MayWrite' => MayWrite
<1>1. depends' = depends
  BY LockGoes
<1>2. \/ stack' = <<>>
      \/ \E x : stack' = <<x>> /\ x.at = "start"
      \/ stack' = stack
  BY ProgressCalls
<1>3. CASE stack' = <<>>
  BY <1>1, <1>3 DEF MayWrite, In
<1>4. CASE \E x : stack' = <<x>> /\ x.at = "start"
  <2>1. Top'.at = "start"
    BY <1>4, CallStarts
  <2>2. QED BY <1>1, <2>1 DEF MayWrite, In
<1>5. CASE stack' = stack
  BY <1>1, <1>5 DEF MayWrite, In, Top
<1>6. QED BY <1>2, <1>3, <1>4, <1>5

LEMMA OthersKeepNew ==
  ASSUME OnlyDataFails, AllInv, NEW w \in Cos, Progress(w), NEW o \in Cos, o # w, NewData(o),
         NEW g, g = req[o].g, NEW c, c = m[o].c,
         HasData(o) => \A h \in Half : file'[Cell(c, h)] = file[Cell(c, h)],
         HasRest(o) => \A h \in Rest(o) : Shown(<<g, h>>)' = Shown(<<g, h>>),
         IsLinked(o) => \A h \in req[o].halves : Shown(<<g, h>>)' = Shown(<<g, h>>)
  PROVE  NewData(o)'
<1>1. /\ m'[o] = m[o] /\ req'[o] = req[o]
      /\ pc'[o] = pc[o] \/ pc'[o] = "enter"
  BY OthersStay
<1>2. CASE pc'[o] = "enter"
  BY <1>2 DEF NewData, HasData, HasRest, IsLinked
<1>3. CASE pc'[o] = pc[o]
  <2>1. SameRequest(o) /\ req[o].halves \subseteq Half
    BY <1>1, <1>3, RequestIs DEF SameRequest
  <2>2. QED BY <2>1, NewDataKept
<1>4. QED BY <1>1, <1>2, <1>3

LEMMA StillKeepsReads ==
  ASSUME OnlyDataFails, AllInv, TabledInv, ThroughInv, PledgeInv, ShownInv,
         NEW w \in Cos, Progress(w), Still
  PROVE  ShownReads' /\ ShownPossible'
<1>0. /\ \A x \in Sectors : /\ Shown(x)' = Shown(x) /\ Shown(x).v \in promise[x]
                            /\ Shown(x).v >= latest[x] /\ Shown(x).v \in Int
                            /\ Behind(Cached(x[1]), x[2])' \subseteq Behind(Cached(x[1]), x[2])
      /\ MayWrite' => MayWrite
  BY StillMeans, ShownIs, ValuesOk, BehindShrinks, ProgressMayWrite DEF ShownInv, ShownReads, ValuesAre
<1>1. CASE UNCHANGED <<promise, latest>>
  BY <1>0, <1>1 DEF ShownInv, ShownReads, ShownPossible
<1>2. CASE /\ latest' = latest /\ pc[w] = "flush_disk" /\ Flushed
           /\ \A x \in Sectors : promise'[x] = {v \in promise[x] : v >= req[w].floor[x]}
  <2>1. ASSUME NEW x \in Sectors PROVE Shown(x).v \in promise'[x]
    <3>1. req[w].op # "none"
      BY <1>2, RequestInvIs DEF AllInv, PlaceOk
    <3>2. req[w].floor[x] <= latest[x] /\ req[w].floor[x] \in Int /\ latest[x] \in Int
      <4>1. req[w] # NoRequest
        BY <3>1 DEF NoRequest
      <4>2. req[w].floor \in [Sectors -> Values]
        BY <4>1, RequestIs DEF ReqSet
      <4>3. latest[x] \in Values /\ req[w].floor[x] \in Values
        BY <4>2 DEF AllInv, TypeInv
      <4>4. QED BY <3>1, <4>3, ValuesOk DEF ValuesAre, PledgeInv, Pledged
    <3>3. Shown(x).v >= req[w].floor[x]
      BY <1>0, <3>2
    <3>4. QED BY <1>0, <1>2, <3>3
  <2>2. ShownReads'
    BY <1>0, <1>2, <2>1 DEF ShownReads
  <2>3. \A x \in Sectors : Behind(Cached(x[1]), x[2])' \subseteq promise'[x]
    BY <1>2, <2>1, FlushedShown
  <2>4. QED BY <2>2, <2>3 DEF ShownPossible
<1>3. CASE /\ req[w].op = "write" /\ (\E done \in BOOLEAN : Finishes(w, done))
           /\ (pc[w] = "wrote" /\ ~ m[w].alloc) \/ pc[w] = "done"
           /\ \A x \in Sectors :
                IF x \in Touches(w)
                THEN /\ latest'[x] = req[w].v
                     /\ promise'[x] = IF writethrough
                          THEN {v \in promise[x] : v >= req[w].v} ELSE promise[x]
                ELSE latest'[x] = latest[x] /\ promise'[x] = promise[x]
  <2>1. ASSUME NEW x \in Touches(w) PROVE Shown(x) = Data(req[w].v) /\ Shown(x).v = req[w].v
    <3>1. IsLinked(w)
      BY <1>3 DEF IsLinked
    <3>2. \E h \in req[w].halves : x = <<req[w].g, h>>
      BY DEF Touches
    <3>3. QED BY <3>1, <3>2, DataIs DEF ShownInv, NewData
  <2>2. req[w].v \in Int
    <3>1. req[w] \in ReqSet /\ req[w] # NoRequest
      <4>1. req[w] # NoRequest
        BY <1>3 DEF NoRequest
      <4>2. QED BY <4>1, RequestIs
    <3>2. QED BY <3>1, ValuesOk DEF ReqSet, ValuesAre
  <2>3. ShownReads'
    <3>1. SUFFICES ASSUME NEW x \in Sectors
                   PROVE  Shown(x).v \in promise'[x] /\ Shown(x).v >= latest'[x]
      BY <1>0 DEF ShownReads
    <3>2. CASE x \in Touches(w)
      <4>1. Shown(x).v = req[w].v /\ latest'[x] = req[w].v
        BY <1>3, <2>1, <3>2
      <4>2. promise'[x] = promise[x] \/ promise'[x] = {v \in promise[x] : v >= req[w].v}
        BY <1>3, <3>2
      <4>3. QED BY <1>0, <2>2, <4>1, <4>2
    <3>3. CASE x \notin Touches(w)
      BY <1>0, <1>3, <3>3
    <3>4. QED BY <3>2, <3>3
  <2>4. ShownPossible'
    <3>1. SUFFICES ASSUME MayWrite, NEW x \in Sectors
                   PROVE  Behind(Cached(x[1]), x[2]) \subseteq promise'[x]
      BY <1>0 DEF ShownPossible
    <3>2. Behind(Cached(x[1]), x[2]) \subseteq promise[x]
      BY <3>1 DEF ShownInv, ShownPossible
    <3>3. CASE promise'[x] = promise[x]
      BY <3>2, <3>3
    <3>4. CASE writethrough /\ x \in Touches(w)
      <4>1. stack = <<>>
        BY <1>3, StackEmpty DEF Finishes, Owns
      <4>2. \A u \in Units : lost[u] = {}
        BY <3>4, <4>1 DEF ThroughInv, LostThrough, In
      <4>3. PICK e, s : e = Cached(x[1]) /\ s = Shown(x)
        OBVIOUS
      <4>4. x[1] \in Half /\ x[2] \in Half /\ Content(s) = s.v /\ e \in EntrySet
        BY <4>3, ShownIs, CachedIs
      <4>5. s = Sector(e, x[2])
        BY <4>3 DEF Shown
      <4>6. \A c \in Clusters : Possible(Cell(c, x[2])) = {file[Cell(c, x[2])]}
        BY <4>2, <4>4, PossibleIs, UnitsAre
      <4>7. Behind(e, x[2]) = {s.v}
        BY <4>4, <4>5, <4>6, BehindOne
      <4>8. s.v = req[w].v /\ s.v \in promise[x]
        BY <1>0, <2>1, <3>4, <4>3
      <4>9. promise'[x] = {v \in promise[x] : v >= req[w].v}
        BY <1>3, <3>4
      <4>10. QED BY <2>2, <4>3, <4>7, <4>8, <4>9
    <3>5. QED BY <1>3, <3>3, <3>4
  <2>5. QED BY <2>3, <2>4
<1>4. QED BY <1>1, <1>2, <1>3, ProgressPromises

LEMMA StillKeepsData ==
  ASSUME OnlyDataFails, AllInv, KindInv, ShownInv, NEW w \in Cos, Progress(w), Still,
         pc'[w] \notin {"wrote", "copied", "unlink"}, NEW o \in Cos
  PROVE  NewData(o)'
<1>1. CASE o # w
  <2>1. PICK g, c : g = req[o].g /\ c = m[o].c
    OBVIOUS
  <2>2. g \in Half /\ req[o].halves \subseteq Half /\ Rest(o) \subseteq Half
    BY <2>1, RequestIs DEF Rest
  <2>3. \A h \in Half : Shown(<<g, h>>)' = Shown(<<g, h>>)
    <3>1. \A h \in Half : <<g, h>> \in Sectors
      BY <2>2 DEF Sectors, Guest, Half
    <3>2. QED BY <3>1, StillMeans
  <2>4. HasData(o) => \A h \in Half : file'[Cell(c, h)] = file[Cell(c, h)]
    BY <2>1, HasDataHolds DEF Still
  <2>5. NewData(o)
    BY DEF ShownInv
  <2>6. QED BY <1>1, <2>1, <2>2, <2>3, <2>4, <2>5, OthersKeepNew
<1>2. CASE o = w
  <2>0. /\ NewData(w) /\ req[w].halves \subseteq Half /\ req[w].g \in Half
        /\ \A h \in Half : <<req[w].g, h>> \in Sectors
    BY RequestIs DEF ShownInv, Sectors, Guest, Half
  <2>1. PICK g, c : g = req[w].g /\ c = m[w].c
    OBVIOUS
  <2>2. \A h \in Half : Shown(<<g, h>>)' = Shown(<<g, h>>)
    BY <2>0, <2>1, StillMeans
  <2>3. CASE HasData(w)' \/ HasRest(w)'
    <3>1. pc'[w] \in {"copy", "link"}
      BY <2>3 DEF HasData, HasRest
    <3>2. Relock(w) /\ pc[w] \in {"wrote", "copied"}
      BY <3>1, CameFrom, TableSteps
    <3>3. m' = m /\ req' = req
      <4>1. pc'[w] # "idle"
        BY <3>1
      <4>2. ~ \E done : Leave(w, done)
        BY <4>1 DEF Leave, AllInv, WaitInv, PlacesType
      <4>3. QED BY <3>2, <4>2 DEF Relock, Fail
    <3>4. m[w].alloc
      BY <2>3, <3>3 DEF HasData, HasRest
    <3>5. HasData(w) /\ c \in Clusters
      <4>1. HasData(w)
        BY <3>2, <3>4 DEF HasData
      <4>2. QED BY <2>1, <4>1, HasDataHolds
    <3>6. \A h \in Half : file'[Cell(c, h)] = file[Cell(c, h)]
      BY <3>5 DEF Still
    <3>7. \A h \in req[w].halves : file'[Cell(c, h)] = Data(req[w].v)
      BY <2>0, <2>1, <3>5, <3>6 DEF NewData
    <3>8. pc'[w] = "link" => \A h \in Rest(w) : file'[Cell(c, h)] = Shown(<<g, h>>)
      <4>1. pc'[w] = "link" => pc[w] = "copied" \/ req[w].halves = Half
        BY CameFrom
      <4>2. req[w].halves = Half => Rest(w) = {}
        BY DEF Rest
      <4>3. pc[w] = "copied" => \A h \in Rest(w) : file[Cell(c, h)] = Shown(<<g, h>>)
        BY <2>0, <2>1, <3>4 DEF NewData, HasRest
      <4>4. Rest(w) \subseteq Half
        BY DEF Rest
      <4>5. QED BY <3>6, <4>1, <4>2, <4>3, <4>4
    <3>9. /\ Rest(w)' = Rest(w) /\ Rest(w) \subseteq Half /\ req'[w] = req[w] /\ m'[w].c = c
          /\ \A h : Shown(<<req[w].g, h>>)' = Shown(<<g, h>>)'
      BY <2>1, <3>3 DEF Rest
    <3>10. ~ IsLinked(w)'
      BY <3>1 DEF IsLinked
    <3>11. HasRest(w)' => pc'[w] = "link"
      BY <3>1 DEF HasRest
    <3>12. \A h : Cell(m[w].c, h)' = Cell(c, h)
      BY <3>9 DEF Cell
    <3>13. HasRest(w)' => \A h \in Rest(w)' : file'[Cell(m[w].c, h)'] = Shown(<<req[w].g, h>>)'
      BY <2>2, <3>8, <3>9, <3>11, <3>12
    <3>14. HasData(w)' => \A h \in req'[w].halves : file'[Cell(m[w].c, h)'] = Data(req'[w].v)
      BY <3>7, <3>9, <3>12
    <3>15. QED BY <1>2, <3>10, <3>13, <3>14 DEF NewData, Cell
  <2>4. CASE IsLinked(w)'
    <3>1. pc'[w] = "done" /\ req'[w].op = "write"
      BY <2>4 DEF IsLinked
    <3>2. req'[w] = req[w]
      BY <3>1, RequestGoes
    <3>3. FreeOld(w)
      BY <3>1, <3>2, CameFrom DEF KindInv, RightPlace, Unmapping
    <3>4. pc[w] = "unlink" /\ IsLinked(w)
      BY <3>1, <3>2, <3>3 DEF FreeOld, IsLinked
    <3>5. \A h \in req[w].halves : Shown(<<g, h>>)' = Data(req[w].v)
      BY <2>0, <2>1, <2>2, <3>4 DEF NewData
    <3>6. \A h : Shown(<<req[w].g, h>>)' = Shown(<<g, h>>)'
      BY <2>1, <3>2
    <3>7. ~ HasData(w)' /\ ~ HasRest(w)'
      BY <3>1 DEF HasData, HasRest
    <3>8. QED BY <1>2, <3>2, <3>5, <3>6, <3>7 DEF NewData
  <2>5. CASE ~ HasData(w)' /\ ~ HasRest(w)' /\ ~ IsLinked(w)'
    BY <1>2, <2>5 DEF NewData
  <2>6. QED BY <2>3, <2>4, <2>5
<1>3. QED BY <1>1, <1>2

LEMMA EntryNext ==
  ASSUME NEW i, NEW h, NEW e, Cached(i)' = e
  PROVE  /\ Behind(Cached(i), h)' = Behind(e, h)'
         /\ Shown(<<i, h>>)' = Sector(e, h)'
BY DEF Behind, Shown, Sector

LEMMA EntryNow ==
  ASSUME NEW i, NEW h, NEW e, Cached(i) = e
  PROVE  /\ Behind(Cached(i), h) = Behind(e, h)
         /\ Shown(<<i, h>>) = Sector(e, h)
BY DEF Shown

(* A sector whose entry and cluster stay reads as before.                  *)
LEMMA EntryKept ==
  ASSUME NEW i, NEW h, NEW e, Cached(i) = e, Cached(i)' = e, Kept(e, h)
  PROVE  /\ Behind(Cached(i), h)' = Behind(Cached(i), h)
         /\ Shown(<<i, h>>)' = Shown(<<i, h>>)
BY EntryNext, EntryNow DEF Kept

LEMMA ReadsThen ==
  ASSUME ShownInv, UNCHANGED <<promise, latest>>, MayWrite' => MayWrite,
         \A i \in Half, h \in Half :
           \/ /\ Behind(Cached(i), h)' = Behind(Cached(i), h)
              /\ Shown(<<i, h>>)' = Shown(<<i, h>>)
           \/ /\ Shown(<<i, h>>)'.v \in promise[<<i, h>>]
              /\ Shown(<<i, h>>)'.v >= latest[<<i, h>>]
              /\ MayWrite' => Behind(Cached(i), h)' \subseteq promise[<<i, h>>]
  PROVE  ShownReads' /\ ShownPossible'
<1>1. ASSUME NEW x \in Sectors
      PROVE  /\ Shown(x)'.v \in promise'[x] /\ Shown(x)'.v >= latest'[x]
             /\ MayWrite' => Behind(Cached(x[1]), x[2])' \subseteq promise'[x]
  <2>1. PICK i \in Half, h \in Half : x = <<i, h>> /\ x[1] = i /\ x[2] = h
    BY DEF Sectors, Guest, Half
  <2>2. /\ Shown(x).v \in promise[x] /\ Shown(x).v >= latest[x]
        /\ MayWrite => Behind(Cached(x[1]), x[2]) \subseteq promise[x]
    BY DEF ShownInv, ShownReads, ShownPossible
  <2>3. /\ Shown(x)' = Shown(<<i, h>>)' /\ Shown(x) = Shown(<<i, h>>)
        /\ Behind(Cached(x[1]), x[2])' = Behind(Cached(i), h)'
        /\ Behind(Cached(x[1]), x[2]) = Behind(Cached(i), h)
    BY <2>1
  <2>4. promise'[x] = promise[<<i, h>>] /\ latest'[x] = latest[<<i, h>>]
    BY <2>1
  <2>5. CASE /\ Behind(Cached(i), h)' = Behind(Cached(i), h)
             /\ Shown(<<i, h>>)' = Shown(<<i, h>>)
    BY <2>1, <2>2, <2>3, <2>4, <2>5
  <2>6. CASE /\ Shown(<<i, h>>)'.v \in promise[<<i, h>>]
             /\ Shown(<<i, h>>)'.v >= latest[<<i, h>>]
             /\ MayWrite' => Behind(Cached(i), h)' \subseteq promise[<<i, h>>]
    BY <2>3, <2>4, <2>6
  <2>7. QED BY <2>5, <2>6
<1>2. QED BY <1>1 DEF ShownReads, ShownPossible

LEMMA WriteL1KeepsShown ==
  ASSUME OnlyDataFails, AllInv, ShownInv, NEW w \in Cos, Progress(w), WriteL1Entry(w)
  PROVE  ShownInv'
<1>0. PICK c : c = m[w].c
  OBVIOUS
<1>1. /\ pc'[w] = "l1_sync" /\ UNCHANGED <<promise, latest>>
      /\ \A i \in Half : Cached(i)' = Cached(i)
      /\ \A u \in Units \ {L1} : file'[u] = file[u] /\ Possible(u)' = Possible(u)
  BY <1>0, WriteL1Is DEF ghosts
<1>2. \A d \in Clusters, h \in Half : file'[Cell(d, h)] = file[Cell(d, h)]
                                      /\ Possible(Cell(d, h))' = Possible(Cell(d, h))
  BY <1>1, UnitsAre, UnitsDiffer
<1>3. ASSUME NEW i \in Half, NEW h \in Half
      PROVE  /\ Behind(Cached(i), h)' = Behind(Cached(i), h)
             /\ Shown(<<i, h>>)' = Shown(<<i, h>>)
  <2>1. PICK e \in EntrySet : e = Cached(i)
    BY CachedIs
  <2>2. e.c \in Clusters \cup {0} /\ Cached(i)' = e
    BY <1>1, <2>1, EntriesAre
  <2>3. Kept(e, h)
    BY <1>2, <2>2, BehindKept
  <2>4. QED BY <2>1, <2>2, <2>3, EntryKept
<1>4. MayWrite' => MayWrite
  BY ProgressMayWrite
<1>5. ShownReads' /\ ShownPossible'
  BY <1>1, <1>3, <1>4, ReadsThen
<1>6. ASSUME NEW o \in Cos PROVE NewData(o)'
  <2>1. CASE o = w
    BY <1>1, <2>1 DEF NewData, HasData, HasRest, IsLinked
  <2>2. CASE o # w
    <3>1. PICK g, d : g = req[o].g /\ d = m[o].c
      OBVIOUS
    <3>2. g \in Half /\ req[o].halves \subseteq Half /\ Rest(o) \subseteq Half
      BY <3>1, RequestIs DEF Rest
    <3>3. NewData(o)
      BY DEF ShownInv
    <3>4. HasData(o) => \A h \in Half : file'[Cell(d, h)] = file[Cell(d, h)]
      BY <1>2, <3>1, HasDataHolds
    <3>5. \A h \in Half : Shown(<<g, h>>)' = Shown(<<g, h>>)
      BY <1>3, <3>2
    <3>6. QED BY <2>2, <3>1, <3>2, <3>3, <3>4, <3>5, OthersKeepNew
  <2>3. QED BY <2>1, <2>2
<1>7. QED BY <1>5, <1>6, ShownInvThen

(* The new cluster holds what the request wrote, and the rest as it was.   *)
LEMMA LinkKeepsShown ==
  ASSUME OnlyDataFails, AllInv, KindInv, PledgeInv, ShownInv, NEW w \in Cos, Progress(w), LinkL2(w)
  PROVE  ShownInv'
<1>0. PICK g, c, v, hs, e : g = req[w].g /\ c = m[w].c /\ v = req[w].v /\ hs = req[w].halves
                            /\ e = Entry(c, "copied")
  OBVIOUS
<1>1. /\ UNCHANGED <<promise, latest, file, req, m, depends>> /\ lock = w /\ g \in Half /\ hs \subseteq Half
      /\ \A i \in Half : Cached(i)' = IF i = g THEN e ELSE Cached(i)
      /\ \A a, h : Kept(a, h)
      /\ pc[w] = "link" /\ pc'[w] = "unlink" /\ c \in Clusters /\ m[w].alloc
      /\ Cached(g).flag # "copied"
      /\ stack' = PutFrames("l2", l1.c) /\ depends["l2"] = "ref"
  BY <1>0, LinkIs, RequestIs DEF Swaps
<1>2. e.c = c /\ e.c # 0
  BY <1>0, <1>1, EntriesAre, ClustersAre
<1>3. \A h \in Half : Shown(<<g, h>>)' = file[Cell(c, h)]
  <2>1. \A h \in Half : Shown(<<g, h>>)' = Sector(e, h)'
    BY <1>1, EntryNext
  <2>2. QED BY <1>1, <1>2, <2>1 DEF Sector
<1>4. (\A h \in hs : file[Cell(c, h)] = Data(v)) /\ \A h \in Rest(w) : file[Cell(c, h)] = Shown(<<g, h>>)
  BY <1>0, <1>1 DEF ShownInv, NewData, HasData, HasRest
<1>5. ~ MayWrite'
  <2>1. depends'["l2"] # None
    BY <1>1, CachesAre
  <2>2. ~ In("flush_dependency", "flushed")'
    <3>1. CASE writethrough
      <4>1. PICK x : x = EntryFlush("l2", l1.c)
        OBVIOUS
      <4>2. stack' = <<x>> /\ x.at = "start"
        BY <1>1, <3>1, <4>1, FramesAre DEF PutFrames, EntryFlush
      <4>3. Top' = x
        BY <4>2, CallStarts
      <4>4. QED BY <4>2, <4>3 DEF In
    <3>2. CASE ~ writethrough
      BY <1>1, <3>2 DEF PutFrames, In
    <3>3. QED BY <3>1, <3>2
  <2>3. QED BY <2>1, <2>2 DEF MayWrite
<1>6. req[w].op = "write"
  BY <1>1 DEF KindInv, RightPlace, Writing
<1>7. \A h \in hs : latest[<<g, h>>] < v /\ v \in promise[<<g, h>>]
  BY <1>0, <1>6 DEF PledgeInv, Pledged, Touches
<1>8. ASSUME NEW i \in Half, NEW h \in Half, i # g
      PROVE  /\ Behind(Cached(i), h)' = Behind(Cached(i), h)
             /\ Shown(<<i, h>>)' = Shown(<<i, h>>)
  <2>1. PICK a : a = Cached(i) /\ Cached(i)' = a
    BY <1>1, <1>8
  <2>2. QED BY <1>1, <2>1, EntryKept
<1>9. \A h \in Rest(w) : Shown(<<g, h>>)' = Shown(<<g, h>>)
  BY <1>3, <1>4 DEF Rest
<1>10. \A h \in hs : Shown(<<g, h>>)' = Data(v)
  BY <1>1, <1>3, <1>4
<1>11. ShownReads' /\ ShownPossible'
  <2>1. ASSUME NEW i \in Half, NEW h \in Half
        PROVE  \/ /\ Behind(Cached(i), h)' = Behind(Cached(i), h)
                  /\ Shown(<<i, h>>)' = Shown(<<i, h>>)
               \/ /\ Shown(<<i, h>>)'.v \in promise[<<i, h>>]
                  /\ Shown(<<i, h>>)'.v >= latest[<<i, h>>]
                  /\ MayWrite' => Behind(Cached(i), h)' \subseteq promise[<<i, h>>]
    <3>1. CASE i # g
      BY <1>8, <3>1
    <3>2. CASE i = g /\ h \in hs
      <4>1. <<i, h>> \in Sectors
        BY DEF Sectors, Guest, Half
      <4>2. latest[<<i, h>>] \in Int /\ v \in Int
        <5>1. latest[<<i, h>>] \in Values
          BY <4>1 DEF AllInv, TypeInv
        <5>2. v \in Values
          <6>1. req[w] # NoRequest
            BY <1>6 DEF NoRequest
          <6>2. QED BY <1>0, <6>1, RequestIs DEF ReqSet
        <5>3. QED BY <5>1, <5>2, ValuesOk DEF ValuesAre
      <4>3. Shown(<<i, h>>)'.v = v
        BY <1>10, <3>2, DataIs
      <4>4. QED BY <1>5, <1>7, <3>2, <4>2, <4>3
    <3>3. CASE i = g /\ h \notin hs
      <4>1. <<i, h>> \in Sectors
        BY DEF Sectors, Guest, Half
      <4>2. Shown(<<i, h>>)' = Shown(<<i, h>>)
        BY <1>0, <1>9, <3>3 DEF Rest
      <4>3. QED BY <1>5, <4>1, <4>2 DEF ShownInv, ShownReads
    <3>4. QED BY <3>1, <3>2, <3>3
  <2>2. QED BY <1>1, <1>5, <2>1, ReadsThen
<1>12. ASSUME NEW o \in Cos PROVE NewData(o)'
  <2>1. CASE o = w
    <3>1. \A h : Shown(<<req[w].g, h>>)' = Shown(<<g, h>>)'
      BY <1>0, <1>1
    <3>2. ~ HasData(w)' /\ ~ HasRest(w)' /\ req'[w].halves = hs /\ req'[w].v = v
      BY <1>0, <1>1 DEF HasData, HasRest
    <3>3. \A h \in req'[w].halves : Shown(<<req[w].g, h>>)' = Data(req'[w].v)
      BY <1>10, <3>1, <3>2
    <3>4. QED BY <2>1, <3>2, <3>3 DEF NewData
  <2>2. CASE o # w
    <3>1. PICK a, d : a = req[o].g /\ d = m[o].c
      OBVIOUS
    <3>2. a \in Half /\ req[o].halves \subseteq Half /\ Rest(o) \subseteq Half
      BY <3>1, RequestIs DEF Rest
    <3>3. HasRest(o) \/ IsLinked(o) => a # g
      <4>1. HasRest(o) => a # g
        <5>1. AloneOk(w)
          BY RequestInvIs DEF AllInv
        <5>2. QED BY <1>0, <1>1, <2>2, <3>1, <5>1 DEF AloneOk, HasRest
      <4>2. IsLinked(o) => a # g
        <5>1. SUFFICES ASSUME IsLinked(o) PROVE Cached(a).flag = "copied"
          BY <1>1
        <5>2. pc[o] \notin Locked
          BY <1>1, <2>2, RequestIs
        <5>3. pc[o] = "wrote" /\ ~ m[o].alloc
          BY <5>1, <5>2 DEF IsLinked, Locked
        <5>4. QED BY <3>1, <5>3, EntriesAre DEF KindInv, OwnEntry, OwnsEntry
      <4>3. QED BY <4>1, <4>2
    <3>4. a # g => \A h \in Half : Shown(<<a, h>>)' = Shown(<<a, h>>)
      BY <1>8, <3>2
    <3>5. NewData(o) /\ file' = file
      BY <1>1 DEF ShownInv
    <3>6. QED BY <2>2, <3>1, <3>2, <3>3, <3>4, <3>5, OthersKeepNew
  <2>3. QED BY <2>1, <2>2
<1>13. QED BY <1>11, <1>12, ShownInvThen

(* Discarded sectors may read as anything.                                 *)
LEMMA UnmapKeepsShown ==
  ASSUME OnlyDataFails, AllInv, KindInv, PledgeInv, ShownInv, NEW w \in Cos, Progress(w), Unmap(w)
  PROVE  ShownInv'
<1>0. PICK g : g = req[w].g
  OBVIOUS
<1>1. /\ UNCHANGED <<promise, latest, file, req, m, depends>> /\ lock = w /\ g \in Half
      /\ \A i \in Half : Cached(i)' = IF i = g THEN Unallocated ELSE Cached(i)
      /\ \A a, h : Kept(a, h)
      /\ pc[w] = "unmap" /\ pc'[w] = "unmap_put"
  BY <1>0, UnmapSwaps DEF Swaps
<1>2. req[w].op = "discard" /\ req[w].halves = Half
  BY <1>1, RequestInvIs DEF AllInv, PlaceOk, KindInv, RightPlace, Unmapping
<1>3. Touches(w) = {g} \X Half
  BY <1>0, <1>2 DEF Touches
<1>4. \A h \in Half : latest[<<g, h>>] = -1 /\ promise[<<g, h>>] = Values
  BY <1>2, <1>3 DEF PledgeInv, Pledged
<1>5. ASSUME NEW h \in Half PROVE Shown(<<g, h>>)' = Data(0) /\ Behind(Cached(g), h)' = {0}
  <2>1. PICK e : e = Unallocated
    OBVIOUS
  <2>2. Cached(g)' = e /\ e.c = 0
    BY <1>1, <2>1, EntriesAre
  <2>3. Shown(<<g, h>>)' = Sector(e, h)' /\ Behind(Cached(g), h)' = Behind(e, h)'
    BY <2>2, EntryNext
  <2>4. QED BY <2>2, <2>3 DEF Sector, Behind
<1>6. ASSUME NEW i \in Half, NEW h \in Half, i # g
      PROVE  /\ Behind(Cached(i), h)' = Behind(Cached(i), h)
             /\ Shown(<<i, h>>)' = Shown(<<i, h>>)
  <2>1. PICK a : a = Cached(i) /\ Cached(i)' = a
    BY <1>1, <1>6
  <2>2. QED BY <1>1, <2>1, EntryKept
<1>7. ShownReads' /\ ShownPossible'
  <2>1. ASSUME NEW i \in Half, NEW h \in Half, i = g
        PROVE  /\ Shown(<<i, h>>)'.v \in promise[<<i, h>>]
               /\ Shown(<<i, h>>)'.v >= latest[<<i, h>>]
               /\ Behind(Cached(i), h)' \subseteq promise[<<i, h>>]
    <3>1. Shown(<<i, h>>)'.v = 0
      BY <1>5, <2>1, DataIs
    <3>2. Behind(Cached(i), h)' = {0}
      BY <1>5, <2>1
    <3>3. QED BY <1>4, <2>1, <3>1, <3>2, ValuesOk DEF ValuesAre
  <2>2. MayWrite' => MayWrite
    BY ProgressMayWrite
  <2>3. QED BY <1>1, <1>6, <2>1, <2>2, ReadsThen
<1>8. ASSUME NEW o \in Cos PROVE NewData(o)'
  <2>1. CASE o = w
    BY <1>1, <2>1 DEF NewData, HasData, HasRest, IsLinked
  <2>2. CASE o # w
    <3>1. PICK a, d : a = req[o].g /\ d = m[o].c
      OBVIOUS
    <3>2. a \in Half /\ req[o].halves \subseteq Half /\ Rest(o) \subseteq Half
      BY <3>1, RequestIs DEF Rest
    <3>3. HasRest(o) \/ IsLinked(o) => a # g
      <4>1. HasRest(o) \/ IsLinked(o) => req[o].op = "write"
        BY DEF KindInv, RightPlace, Writing, HasRest, IsLinked
      <4>2. req[o].op = "write" => req[o].halves # {}
        BY RequestInvIs DEF AllInv, PlaceOk
      <4>3. Touches(w) \cap Touches(o) = {}
        BY <2>2, RequestInvIs DEF AllInv, DistinctOk
      <4>4. ASSUME NEW h \in req[o].halves PROVE a # g
        <5>1. h \in Half /\ <<a, h>> \in Touches(o)
          BY <3>1, <3>2 DEF Touches
        <5>2. a = g => <<a, h>> \in Touches(w)
          BY <1>3, <5>1
        <5>3. QED BY <4>3, <5>1, <5>2
      <4>5. QED BY <4>1, <4>2, <4>4
    <3>4. a # g => \A h \in Half : Shown(<<a, h>>)' = Shown(<<a, h>>)
      BY <1>6, <3>2
    <3>5. NewData(o) /\ file' = file
      BY <1>1 DEF ShownInv
    <3>6. QED BY <2>2, <3>1, <3>2, <3>3, <3>4, <3>5, OthersKeepNew
  <2>3. QED BY <2>1, <2>2
<1>9. QED BY <1>7, <1>8, ShownInvThen

LEMMA PutsKeeps ==
  ASSUME AllInv, NEW c, NEW hs, Puts(c, hs), NEW i \in Half, NEW h \in Half,
         Cached(i).c # c \/ h \notin hs
  PROVE  /\ Behind(Cached(i), h)' = Behind(Cached(i), h)
         /\ Shown(<<i, h>>)' = Shown(<<i, h>>)
<1>1. PICK e \in EntrySet : e = Cached(i)
  BY CachedIs
<1>2. e.c \in Clusters \cup {0} /\ Cached(i)' = e
  BY <1>1, EntriesAre DEF Puts
<1>3. e.c # 0 => file'[Cell(e.c, h)] = file[Cell(e.c, h)]
                 /\ Possible(Cell(e.c, h))' = Possible(Cell(e.c, h))
  BY <1>1, <1>2 DEF Puts
<1>4. Kept(e, h)
  BY <1>3, BehindKept
<1>5. QED BY <1>1, <1>2, <1>4, EntryKept

(* A write of the guest: in place, or to the cluster the request holds.    *)
LEMMA WriteKeepsShown ==
  ASSUME OnlyDataFails, AllInv, KindInv, PledgeInv, ShownInv, NEW w \in Cos, Progress(w),
         pc[w] = "data", pc'[w] = "wrote",
         NEW g, g = req[w].g, NEW c, c = m[w].c, NEW v, v = req[w].v, NEW hs, hs = req[w].halves,
         Puts(c, hs),
         \A h \in hs : /\ file'[Cell(c, h)] = Data(v)
                       /\ Possible(Cell(c, h))' \subseteq Possible(Cell(c, h)) \cup {Data(v)}
  PROVE  ShownInv'
<1>1. /\ UNCHANGED <<promise, latest, req, m>> /\ g \in Half /\ hs \subseteq Half
      /\ \A i \in Half : Cached(i)' = Cached(i)
  BY RequestIs DEF Puts
<1>2. /\ ~ m[w].alloc => /\ Cached(g) = Entry(c, "copied") /\ Cached(g).c = c /\ c \in Clusters
                         /\ \A i \in Half : i # g => Cached(i).c # c
      /\ m[w].alloc => Holds(w) /\ \A i \in Half : Cached(i).c # c
  <2>1. ~ m[w].alloc => Cached(g) = Entry(c, "copied")
    BY RequestInvIs DEF AllInv, EntryOk
  <2>2. ~ m[w].alloc => Cached(g).c = c /\ Cached(g).flag = "copied"
    BY <2>1, EntriesAre
  <2>3. ~ m[w].alloc => c \in Clusters /\ \A i \in Half : i # g => Cached(i).c # c
    BY <1>1, <2>2, CopiedApart DEF Apart
  <2>4. m[w].alloc => Holds(w)
    BY DEF Holds
  <2>5. QED BY <2>1, <2>2, <2>3, <2>4, HeldIs
<1>3. ASSUME NEW i \in Half, NEW h \in Half, m[w].alloc \/ i # g \/ h \notin hs
      PROVE  /\ Behind(Cached(i), h)' = Behind(Cached(i), h)
             /\ Shown(<<i, h>>)' = Shown(<<i, h>>)
  BY <1>2, <1>3, PutsKeeps
<1>4. ASSUME ~ m[w].alloc, NEW h \in hs
      PROVE  /\ Shown(<<g, h>>)' = Data(v)
             /\ Behind(Cached(g), h)' \subseteq Behind(Cached(g), h) \cup {v}
  <2>1. PICK e : e = Cached(g) /\ Cached(g)' = e /\ e.c = c /\ c # 0
    BY <1>1, <1>2, <1>4, ClustersAre
  <2>2. Shown(<<g, h>>)' = Sector(e, h)' /\ Behind(Cached(g), h)' = Behind(e, h)'
    BY <2>1, EntryNext
  <2>3. Sector(e, h)' = file'[Cell(c, h)]
    BY <2>1 DEF Sector
  <2>4. Behind(e, h)' \subseteq Behind(e, h) \cup {v}
    <3>1. Behind(e, h)' = {Content(d) : d \in Possible(Cell(c, h))'}
      BY <2>1 DEF Behind
    <3>2. Behind(e, h) = {Content(d) : d \in Possible(Cell(c, h))}
      BY <2>1 DEF Behind
    <3>3. Possible(Cell(c, h))' \subseteq Possible(Cell(c, h)) \cup {Data(v)} /\ Content(Data(v)) = v
      BY DataIs
    <3>4. QED BY <3>1, <3>2, <3>3
  <2>5. QED BY <2>1, <2>2, <2>3, <2>4
<1>5. req[w].op = "write"
  BY DEF KindInv, RightPlace, Writing
<1>6. \A h \in hs : latest[<<g, h>>] < v /\ v \in promise[<<g, h>>]
  BY <1>5 DEF PledgeInv, Pledged, Touches
<1>7. MayWrite' => MayWrite
  BY ProgressMayWrite
<1>8. ShownReads' /\ ShownPossible'
  <2>1. ASSUME NEW i \in Half, NEW h \in Half, ~ m[w].alloc, i = g, h \in hs
        PROVE  /\ Shown(<<i, h>>)'.v \in promise[<<i, h>>]
               /\ Shown(<<i, h>>)'.v >= latest[<<i, h>>]
               /\ MayWrite' => Behind(Cached(i), h)' \subseteq promise[<<i, h>>]
    <3>1. <<i, h>> \in Sectors
      BY DEF Sectors, Guest, Half
    <3>2. latest[<<i, h>>] \in Int /\ v \in Int
      <4>1. latest[<<i, h>>] \in Values
        BY <3>1 DEF AllInv, TypeInv
      <4>2. v \in Values
        <5>1. req[w] # NoRequest
          BY <1>5 DEF NoRequest
        <5>2. QED BY <5>1, RequestIs DEF ReqSet
      <4>3. QED BY <4>1, <4>2, ValuesOk DEF ValuesAre
    <3>3. Shown(<<i, h>>)'.v = v
      BY <1>4, <2>1, DataIs
    <3>4. MayWrite => Behind(Cached(i), h) \subseteq promise[<<i, h>>]
      <4>1. PICK x \in Sectors : x = <<i, h>> /\ x[1] = i /\ x[2] = h
        BY <3>1
      <4>2. MayWrite => Behind(Cached(x[1]), x[2]) \subseteq promise[x]
        BY DEF ShownInv, ShownPossible
      <4>3. QED BY <4>1, <4>2
    <3>5. Behind(Cached(i), h)' \subseteq Behind(Cached(i), h) \cup {v}
      BY <1>4, <2>1
    <3>6. QED BY <1>6, <1>7, <2>1, <3>2, <3>3, <3>4, <3>5
  <2>2. QED BY <1>1, <1>3, <1>7, <2>1, ReadsThen
<1>9. ASSUME NEW o \in Cos PROVE NewData(o)'
  <2>1. CASE o = w
    <3>1. ~ HasRest(w)' /\ req'[w].halves = hs /\ req'[w].v = v
      BY <1>1 DEF HasRest
    <3>2. \A h : Shown(<<req[w].g, h>>)' = Shown(<<g, h>>)'
      BY <1>1
    <3>3. IsLinked(w)' => \A h \in req'[w].halves : Shown(<<req[w].g, h>>)' = Data(req'[w].v)
      BY <1>1, <1>4, <3>1, <3>2 DEF IsLinked
    <3>4. \A h : Cell(m[w].c, h)' = Cell(c, h)
      BY <1>1 DEF Cell
    <3>5. \A h \in req'[w].halves : file'[Cell(m[w].c, h)'] = Data(req'[w].v)
      BY <3>1, <3>4
    <3>6. QED BY <2>1, <3>1, <3>3, <3>5 DEF NewData, Cell
  <2>2. CASE o # w
    <3>1. PICK a, d : a = req[o].g /\ d = m[o].c
      OBVIOUS
    <3>2. a \in Half /\ req[o].halves \subseteq Half /\ Rest(o) \subseteq Half
      BY <3>1, RequestIs DEF Rest
    <3>3. HasData(o) => \A h \in Half : file'[Cell(d, h)] = file[Cell(d, h)]
      <4>1. SUFFICES ASSUME HasData(o) PROVE \A h \in Half : file'[Cell(d, h)] = file[Cell(d, h)]
        OBVIOUS
      <4>2. Holds(o) /\ d \in Clusters
        BY <3>1, <4>1, HasDataHolds
      <4>3. d # c
        <5>1. CASE m[w].alloc
          BY <1>2, <2>2, <3>1, <4>2, <5>1 DEF AllInv, CountsInv, HeldInv
        <5>2. CASE ~ m[w].alloc
          BY <1>1, <1>2, <3>1, <4>2, <5>2, HeldIs
        <5>3. QED BY <5>1, <5>2
      <4>4. QED BY <4>2, <4>3 DEF Puts
    <3>4. HasRest(o) => \A h \in Half : Shown(<<a, h>>)' = Shown(<<a, h>>)
      <4>1. SUFFICES ASSUME HasRest(o) PROVE m[w].alloc \/ a # g
        BY <1>3, <3>2
      <4>2. Holds(o) /\ m[o].alloc
        BY <4>1 DEF HasRest, Holds
      <4>3. Cached(a).flag # "copied"
        BY <3>1, <4>2, RequestInvIs DEF AllInv, EntryOk
      <4>4. QED BY <1>2, <4>3, EntriesAre
    <3>5. \A h \in req[o].halves : Shown(<<a, h>>)' = Shown(<<a, h>>)
      <4>1. Touches(w) \cap Touches(o) = {}
        BY <2>2, RequestInvIs DEF AllInv, DistinctOk
      <4>2. SUFFICES ASSUME NEW h \in req[o].halves PROVE a # g \/ h \notin hs
        BY <1>3, <3>2
      <4>3. <<a, h>> \in Touches(o)
        BY <3>1 DEF Touches
      <4>4. a = g /\ h \in hs => <<a, h>> \in Touches(w)
        BY DEF Touches
      <4>5. QED BY <4>1, <4>3, <4>4
    <3>6. NewData(o)
      BY DEF ShownInv
    <3>7. QED BY <2>2, <3>1, <3>2, <3>3, <3>4, <3>5, <3>6, OthersKeepNew
  <2>3. QED BY <2>1, <2>2
<1>10. QED BY <1>8, <1>9, ShownInvThen

(* Copy on write fills the rest of the new cluster.                        *)
LEMMA CopyKeepsShown ==
  ASSUME OnlyDataFails, AllInv, ShownInv, NEW w \in Cos, Progress(w),
         pc[w] = "copy", pc'[w] = "copied",
         NEW g, g = req[w].g, NEW c, c = m[w].c, Puts(c, Rest(w)),
         \A h \in Rest(w) : file'[Cell(c, h)] = Shown(<<g, h>>)
  PROVE  ShownInv'
<1>1. /\ UNCHANGED <<promise, latest, req, m>> /\ g \in Half
      /\ req[w].halves \subseteq Half /\ Rest(w) \subseteq Half
  BY RequestIs DEF Puts, Rest
<1>2. m[w].alloc /\ Holds(w) /\ c \in Clusters /\ \A i \in Half : Cached(i).c # c
  <2>1. m[w].alloc
    BY RequestInvIs DEF AllInv, PlaceOk
  <2>2. Holds(w)
    BY <2>1 DEF Holds
  <2>3. QED BY <2>1, <2>2, HeldIs
<1>3. ASSUME NEW i \in Half, NEW h \in Half
      PROVE  /\ Behind(Cached(i), h)' = Behind(Cached(i), h)
             /\ Shown(<<i, h>>)' = Shown(<<i, h>>)
  BY <1>2, PutsKeeps
<1>4. ShownReads' /\ ShownPossible'
  BY <1>1, <1>3, ProgressMayWrite, ReadsThen
<1>5. ASSUME NEW o \in Cos PROVE NewData(o)'
  <2>1. CASE o = w
    <3>1. ~ IsLinked(w)' /\ req'[w] = req[w] /\ Rest(w)' = Rest(w)
      BY <1>1 DEF IsLinked, Rest
    <3>2. \A h : Shown(<<req[w].g, h>>)' = Shown(<<g, h>>)'
      BY <1>1
    <3>3. \A h : Cell(m[w].c, h)' = Cell(c, h)
      BY <1>1 DEF Cell
    <3>4. \A h \in Rest(w)' : file'[Cell(m[w].c, h)'] = Shown(<<req[w].g, h>>)'
      BY <1>1, <1>3, <3>1, <3>2, <3>3
    <3>5. \A h \in req'[w].halves : file'[Cell(m[w].c, h)'] = Data(req'[w].v)
      <4>1. \A h \in req[w].halves : file[Cell(c, h)] = Data(req[w].v)
        BY <1>2 DEF ShownInv, NewData, HasData
      <4>2. \A h \in req[w].halves : file'[Cell(c, h)] = file[Cell(c, h)]
        BY <1>1, <1>2 DEF Puts, Rest
      <4>3. QED BY <3>1, <3>3, <4>1, <4>2
    <3>6. QED BY <2>1, <3>1, <3>4, <3>5 DEF NewData, Cell
  <2>2. CASE o # w
    <3>1. PICK a, d : a = req[o].g /\ d = m[o].c
      OBVIOUS
    <3>2. a \in Half /\ req[o].halves \subseteq Half /\ Rest(o) \subseteq Half
      BY <3>1, RequestIs DEF Rest
    <3>3. HasData(o) => \A h \in Half : file'[Cell(d, h)] = file[Cell(d, h)]
      <4>1. SUFFICES ASSUME HasData(o) PROVE \A h \in Half : file'[Cell(d, h)] = file[Cell(d, h)]
        OBVIOUS
      <4>2. Holds(o) /\ d \in Clusters
        BY <3>1, <4>1, HasDataHolds
      <4>3. d # c
        BY <1>2, <2>2, <3>1, <4>2 DEF AllInv, CountsInv, HeldInv
      <4>4. QED BY <4>2, <4>3 DEF Puts
    <3>4. \A h \in Half : Shown(<<a, h>>)' = Shown(<<a, h>>)
      BY <1>3, <3>2
    <3>5. NewData(o)
      BY DEF ShownInv
    <3>6. QED BY <2>2, <3>1, <3>2, <3>3, <3>4, <3>5, OthersKeepNew
  <2>3. QED BY <2>1, <2>2
<1>6. QED BY <1>4, <1>5, ShownInvThen

LEMMA ProgressKeepsShown ==
  ASSUME OnlyDataFails, AllInv, TabledInv, ThroughInv, KindInv, PledgeInv, ShownInv,
         NEW w \in Cos, Progress(w)
  PROVE  ShownInv'
<1>0. PICK g, c, v, hs : g = req[w].g /\ c = m[w].c /\ v = req[w].v /\ hs = req[w].halves
  OBVIOUS
<1>1. CASE Still /\ pc'[w] \notin {"wrote", "copied", "unlink"}
  BY <1>1, StillKeepsReads, StillKeepsData, ShownInvThen
<1>2. CASE WriteL1Entry(w)
  BY <1>2, WriteL1KeepsShown
<1>3. CASE LinkL2(w)
  BY <1>3, LinkKeepsShown
<1>4. CASE Unmap(w)
  BY <1>4, UnmapKeepsShown
<1>5. CASE WriteData(w)
  <2>1. pc[w] = "data" /\ ((Still /\ pc'[w] = "failed")
           \/ (/\ pc'[w] = "wrote" /\ Puts(c, req[w].halves)
               /\ \A h \in req[w].halves :
                    /\ file'[Cell(c, h)] = Data(req[w].v)
                    /\ Possible(Cell(c, h))' \subseteq Possible(Cell(c, h)) \cup {Data(req[w].v)}))
    BY <1>0, <1>5, WriteIs
  <2>2. CASE Still /\ pc'[w] = "failed"
    BY <1>1, <2>2
  <2>3. CASE /\ pc'[w] = "wrote" /\ Puts(c, req[w].halves)
             /\ \A h \in req[w].halves :
                  /\ file'[Cell(c, h)] = Data(req[w].v)
                  /\ Possible(Cell(c, h))' \subseteq Possible(Cell(c, h)) \cup {Data(req[w].v)}
    <3>1. Puts(c, hs) /\ \A h \in hs :
                  /\ file'[Cell(c, h)] = Data(v)
                  /\ Possible(Cell(c, h))' \subseteq Possible(Cell(c, h)) \cup {Data(v)}
      BY <1>0, <2>3
    <3>2. QED BY <1>0, <2>1, <2>3, <3>1, WriteKeepsShown
  <2>4. QED BY <2>1, <2>2, <2>3
<1>6. CASE CopySectors(w)
  <2>1. pc[w] = "copy" /\ ((Still /\ pc'[w] = "failed")
           \/ (/\ pc'[w] = "copied" /\ Puts(c, Rest(w))
               /\ \A h \in Rest(w) : file'[Cell(c, h)] = Shown(<<req[w].g, h>>)))
    BY <1>0, <1>6, CopyIs
  <2>2. CASE Still /\ pc'[w] = "failed"
    BY <1>1, <2>2
  <2>3. CASE /\ pc'[w] = "copied" /\ Puts(c, Rest(w))
             /\ \A h \in Rest(w) : file'[Cell(c, h)] = Shown(<<req[w].g, h>>)
    <3>1. \A h \in Rest(w) : file'[Cell(c, h)] = Shown(<<g, h>>)
      BY <1>0, <2>3
    <3>2. QED BY <1>0, <2>1, <2>3, <3>1, CopyKeepsShown
  <2>4. QED BY <2>1, <2>2, <2>3
<1>7. CASE Still /\ pc'[w] \in {"wrote", "copied", "unlink"}
  BY <1>3, <1>5, <1>6, <1>7, CameFrom, TableSteps
<1>8. QED BY <1>1, <1>2, <1>3, <1>4, <1>5, <1>6, <1>7, ProgressStill

-----------------------------------------------------------------------------
(* What a crash may leave in the tables.                                   *)

(* Everything that a crash may leave to be read is promised.               *)
EmptyPromised ==
  \A e \in Possible(L1) : e.c = 0 => \A x \in Sectors : 0 \in promise[x]
StoredPromised ==
  \A i \in Half, h \in Half : \A e \in Stored(i) : Behind(e, h) \subseteq promise[<<i, h>>]

(* An entry may refer to a cluster that has other data by now only where   *)
(* the guest has no data to lose.                                          *)
StoredSolid ==
  \A i \in Half, h \in Half : \A e \in Stored(i) : ~ Solid(e, i) =>
    /\ promise[<<i, h>>] = Values
    /\ \A w \in Cos : Past(w) => req[w].floor[<<i, h>>] = -1

(* A flush has the writes before it in the file when it comes to flush it. *)
PastReads ==
  \A w \in Cos : Past(w) => \A i \in Half, h \in Half :
    Content(Sector(Filed(i), h)) >= req[w].floor[<<i, h>>]
StoredInv == EmptyPromised /\ StoredPromised /\ StoredSolid /\ PastReads

LEMMA StoredInvThen ==
  ASSUME EmptyPromised', StoredPromised', StoredSolid', PastReads'
  PROVE  StoredInv'
BY DEF StoredInv

LEMMA SectorsAre ==
  /\ \A i \in Half, h \in Half : <<i, h>> \in Sectors /\ <<i, h>>[1] = i /\ <<i, h>>[2] = h
  /\ \A x \in Sectors : \E i \in Half, h \in Half : x = <<i, h>>
BY DEF Sectors, Guest, Half

(* An image that was just opened.                                          *)
Fresh == \A x \in Sectors : latest[x] = Shown(x).v /\ promise[x] = {latest[x]}
(* The same in terms of the image.                                         *)
ReadFresh ==
  \A x \in Sectors : /\ latest[x] = Reads(file, l1.c, x[1], x[2])
                     /\ promise[x] = {latest[x]}

LEMMA FreshShown ==
  ASSUME AllInv, TabledInv, Opened, ReadFresh
  PROVE  Fresh
<1>1. SUFFICES ASSUME NEW x \in Sectors PROVE Reads(file, l1.c, x[1], x[2]) = Shown(x).v
  BY DEF ReadFresh, Fresh
<1>2. PICK i \in Half, h \in Half : x = <<i, h>> /\ x[1] = i /\ x[2] = h
  BY SectorsAre
<1>3. PICK e \in EntrySet : e = Cached(i)
  BY CachedIs
<1>4. Shown(x) = Sector(e, h) /\ Shown(x) \in DataSet
  BY <1>2, <1>3, ShownIs DEF Shown
<1>5. CASE l1.c = 0
  <2>1. e.c = 0
    BY <1>3, <1>5, CachedIs, EntriesAre
  <2>2. QED BY <1>2, <1>4, <1>5, <2>1, DataIs DEF Sector, Reads
<1>6. CASE l1.c # 0
  <2>1. file[Cell(l1.c, i)] = e
    BY <1>3, <1>6, OpenedEntries DEF AllInv
  <2>2. IsEntry(e)
    BY DataIs
  <2>3. CASE e.c = 0
    BY <1>2, <1>4, <1>6, <2>1, <2>2, <2>3, DataIs DEF Sector, Reads
  <2>4. CASE e.c # 0
    <3>1. Shown(x) = file[Cell(e.c, h)]
      BY <1>4, <2>4 DEF Sector
    <3>2. ~ IsEntry(file[Cell(e.c, h)])
      BY <1>4, <3>1, DataIs
    <3>3. QED BY <1>2, <1>6, <2>1, <2>2, <2>4, <3>1, <3>2 DEF Reads
  <2>5. QED BY <2>3, <2>4
<1>7. QED BY <1>5, <1>6

LEMMA OpenedFlushed ==
  ASSUME AllInv, TabledInv, Opened, ReadFresh
  PROVE  ShownInv /\ StoredInv
<1>0. Fresh
  BY FreshShown
<1>1. /\ \A u \in Units : Possible(u) = {file[u]}
      /\ l1 = file[L1]
      /\ \A i \in Half : Stored(i) \subseteq {Cached(i)}
  <2>1. FileInv
    BY DEF AllInv
  <2>2. QED BY <2>1, OpenedEntries DEF Opened
<1>2. \A o \in Cos : pc[o] = "idle"
  BY DEF Opened
<1>3. ASSUME NEW x \in Sectors
      PROVE  /\ Shown(x).v \in promise[x] /\ Shown(x).v >= latest[x]
             /\ Behind(Cached(x[1]), x[2]) = {Shown(x).v} /\ promise[x] = {Shown(x).v}
  <2>1. Shown(x).v \in Int /\ Content(Shown(x)) = Shown(x).v /\ x[1] \in Half /\ x[2] \in Half
    BY ShownIs, ValuesOk DEF ValuesAre
  <2>2. PICK e, s : e = Cached(x[1]) /\ s = Shown(x)
    OBVIOUS
  <2>3. e \in EntrySet /\ s = Sector(e, x[2])
    BY <2>1, <2>2, CachedIs DEF Shown
  <2>4. \A c \in Clusters : Possible(Cell(c, x[2])) = {file[Cell(c, x[2])]}
    BY <1>1, <2>1, UnitsAre
  <2>5. Behind(e, x[2]) = {Content(s)}
    BY <2>1, <2>3, <2>4, BehindOne
  <2>6. QED BY <1>0, <2>1, <2>2, <2>5 DEF Fresh
<1>4. ShownInv
  <2>1. ShownReads
    BY <1>3 DEF ShownReads
  <2>2. ShownPossible
    BY <1>3 DEF ShownPossible
  <2>3. \A o \in Cos : NewData(o)
    BY <1>2 DEF NewData, HasData, HasRest, IsLinked
  <2>4. QED BY <2>1, <2>2, <2>3 DEF ShownInv
<1>5. EmptyPromised
  <2>1. SUFFICES ASSUME l1.c = 0, NEW x \in Sectors PROVE 0 \in promise[x]
    BY <1>1, UnitsAre DEF EmptyPromised
  <2>2. Cached(x[1]).c = 0
    BY <2>1, ShownIs, CachedIs, EntriesAre
  <2>3. Shown(x) = Data(0)
    BY <2>2 DEF Shown, Sector
  <2>4. QED BY <1>3, <2>3, DataIs
<1>6. StoredPromised
  <2>1. SUFFICES ASSUME NEW i \in Half, NEW h \in Half PROVE Behind(Cached(i), h) \subseteq promise[<<i, h>>]
    BY <1>1 DEF StoredPromised
  <2>2. PICK x \in Sectors : x = <<i, h>> /\ x[1] = i /\ x[2] = h
    BY SectorsAre
  <2>3. QED BY <1>3, <2>2
<1>7. StoredSolid
  BY <1>1 DEF StoredSolid, Solid
<1>8. PastReads
  BY <1>2 DEF PastReads, Past
<1>9. QED BY <1>4, <1>5, <1>6, <1>7, <1>8 DEF StoredInv

LEMMA OpenedFlushedNext ==
  AllInv' /\ TabledInv' /\ Opened' /\ ReadFresh' => ShownInv' /\ StoredInv'
<1>1. AllInv /\ TabledInv /\ Opened /\ ReadFresh => ShownInv /\ StoredInv
  BY OpenedFlushed
<1>2. QED BY <1>1, PTL

LEMMA CrashKeepsFlushed ==
  ASSUME AllInv, TabledInv, Crash
  PROVE  ShownInv' /\ StoredInv'
<1>1. AllInv' /\ TabledInv' /\ Opened'
  BY CrashKeepsAll, CrashKeepsTabled, CrashImage
<1>2. ReadFresh'
  BY DEF ReadFresh, Crash
<1>3. QED BY <1>1, <1>2, OpenedFlushedNext

LEMMA InitFlushed ==
  ASSUME Init
  PROVE  ShownInv /\ StoredInv
<1>1. AllInv /\ TabledInv /\ Opened
  BY InitAll, InitTabled, InitOpened
<1>2. PICK s \in Setups : /\ file = FreshImage(s[2]) /\ l1 = file[L1]
                          /\ latest = [x \in Sectors |-> IF s[2] # "empty" /\ x[1] = 0 THEN 1 ELSE 0]
                          /\ promise = [x \in Sectors |-> {latest[x]}]
  BY DEF Init
<1>3. PICK kind \in {"plain", "shared", "compressed", "empty"} : kind = s[2]
  BY QcowAssumption
<1>4. ASSUME NEW x \in Sectors
      PROVE  Reads(file, l1.c, x[1], x[2]) = IF kind # "empty" /\ x[1] = 0 THEN 1 ELSE 0
  <2>1. PICK i \in Half, h \in Half : x = <<i, h>> /\ x[1] = i /\ x[2] = h
    BY SectorsAre
  <2>2. CASE kind = "empty"
    <3>1. l1.c = 0
      BY <1>2, <1>3, <2>2, FreshIs, EntriesAre
    <3>2. QED BY <2>2, <3>1 DEF Reads
  <2>3. CASE kind # "empty"
    <3>1. PICK flag \in Flags : file[Cell(1, 0)] = Entry(2, flag)
      BY <1>2, <1>3, <2>3, FreshIs
    <3>2. /\ l1.c = 1 /\ file[Cell(1, 1)] = Unallocated
          /\ \A j \in Half : file[Cell(2, j)] = Data(1)
      BY <1>2, <1>3, <2>3, FreshIs, EntriesAre
    <3>3. CASE i = 0
      <4>1. file[Cell(l1.c, i)] = Entry(2, flag) /\ IsEntry(Entry(2, flag)) /\ Entry(2, flag).c = 2
        BY <3>1, <3>2, <3>3, EntriesAre DEF Entry, IsEntry
      <4>2. file[Cell(2, h)] = Data(1) /\ ~ IsEntry(Data(1)) /\ Data(1).v = 1
        BY <3>2, DataIs
      <4>3. QED BY <2>1, <2>3, <3>2, <3>3, <4>1, <4>2 DEF Reads
    <3>4. CASE i # 0
      <4>1. i = 1
        BY <3>4, HalfAre
      <4>2. file[Cell(l1.c, i)] = Unallocated /\ IsEntry(Unallocated) /\ Unallocated.c = 0
        BY <3>2, <4>1, EntriesAre DEF Entry, IsEntry
      <4>3. QED BY <2>1, <2>3, <3>2, <3>4, <4>2 DEF Reads
    <3>5. QED BY <3>3, <3>4
  <2>4. QED BY <2>2, <2>3
<1>5. ReadFresh
  BY <1>2, <1>3, <1>4 DEF ReadFresh
<1>6. QED BY <1>1, <1>5, OpenedFlushed

-----------------------------------------------------------------------------
(* How the steps keep that.                                                *)

(* Once the L2 tables are flushed, the file holds what is in memory.       *)
TablesFlushed == IsFlushed("l2")
TablesFiled ==
  /\ Possible(L1) = {l1}
  /\ \A i \in Half : /\ Stored(i) \subseteq {Cached(i)} /\ Filed(i) = Cached(i)
                     /\ l1.c # 0 => Cached(i) \in Stored(i)
LEMMA FlushedFiled == AllInv /\ TablesFlushed => TablesFiled
<1>1. SUFFICES ASSUME AllInv, TablesFlushed PROVE TablesFiled
  OBVIOUS
<1>2. /\ Possible(L1) = {l1} /\ \A i \in Half : Stored(i) \subseteq {Cached(i)}
      /\ l1.c # 0 => \A i \in Half : Possible(Cell(l1.c, i)) = {Cached(i)}
      /\ Tables = {l1.c} \ {0}
  BY <1>1, L2Flushed DEF TablesFlushed
<1>3. ASSUME NEW i \in Half PROVE Filed(i) = Cached(i) /\ (l1.c # 0 => Cached(i) \in Stored(i))
  <2>1. CASE l1.c = 0
    BY <1>1, <2>1, FiledIs
  <2>2. CASE l1.c # 0
    <3>1. file[Cell(l1.c, i)] \in Possible(Cell(l1.c, i))
      BY PossibleIs
    <3>2. Filed(i) = Cached(i)
      BY <1>2, <2>2, <3>1 DEF Filed
    <3>3. Cached(i) \in Stored(i)
      BY <1>2, <2>2 DEF Stored
    <3>4. QED BY <3>2, <3>3
  <2>3. QED BY <2>1, <2>2
<1>4. QED BY <1>2, <1>3 DEF TablesFiled

LEMMA FlushedFiledNext == AllInv' /\ TablesFlushed' => TablesFiled'
BY FlushedFiled, PTL

LEMMA PastFloor ==
  ASSUME AllInv, TabledInv, PledgeInv, NEW w \in Cos, Past(w), NEW i \in Half, NEW h \in Half
  PROVE  /\ req[w].op # "none" /\ req[w].floor[<<i, h>>] \in Values
         /\ latest[<<i, h>>] \in Values
         /\ req[w].floor[<<i, h>>] <= latest[<<i, h>>]
<1>1. req[w].op # "none"
  BY RequestInvIs DEF AllInv, PlaceOk, Past
<1>2. req[w] # NoRequest
  BY <1>1 DEF NoRequest
<1>3. req[w].floor \in [Sectors -> Values]
  BY <1>2, RequestIs DEF ReqSet
<1>4. <<i, h>> \in Sectors
  BY SectorsAre
<1>5. QED BY <1>1, <1>3, <1>4 DEF PledgeInv, Pledged, AllInv, TypeInv

(* What the guest reads is above the floors.                               *)
LEMMA ShownFloor ==
  ASSUME AllInv, TabledInv, PledgeInv, ShownInv, NEW i \in Half, NEW h \in Half
  PROVE  /\ Content(Sector(Cached(i), h)) = Shown(<<i, h>>).v
         /\ Shown(<<i, h>>).v \in Values
         /\ \A w \in Cos : Past(w) => Shown(<<i, h>>).v >= req[w].floor[<<i, h>>]
<1>1. PICK x \in Sectors : x = <<i, h>> /\ x[1] = i /\ x[2] = h
  BY SectorsAre
<1>2. /\ Content(Shown(x)) = Shown(x).v /\ Shown(x).v \in Values /\ Shown(x).v >= latest[x]
      /\ Shown(x) = Sector(Cached(i), h)
  BY <1>1, ShownIs DEF ShownInv, ShownReads, Shown
<1>3. ASSUME NEW w \in Cos, Past(w) PROVE Shown(x).v >= req[w].floor[x]
  <2>1. req[w].floor[x] \in Int /\ latest[x] \in Int /\ req[w].floor[x] <= latest[x] /\ Shown(x).v \in Int
    BY <1>1, <1>2, <1>3, PastFloor, ValuesOk DEF ValuesAre
  <2>2. QED BY <1>2, <2>1
<1>4. QED BY <1>1, <1>2, <1>3

LEMMA SolidSame ==
  ASSUME NEW e, NEW i, Cached(i)' = Cached(i), snap' = snap,
         \A o \in Cos : pc[o] = "unlink" => pc'[o] = "unlink" /\ old'[o] = old[o],
         Solid(e, i)
  PROVE  Solid(e, i)'
<1>1. CASE e.c \in {0, Cached(i).c}
  BY <1>1 DEF Solid
<1>2. CASE BySnap(e.c)
  BY <1>2 DEF Solid, BySnap
<1>3. CASE \E w \in Cos : pc[w] = "unlink" /\ old[w] = e.c
  BY <1>3 DEF Solid
<1>4. QED BY <1>1, <1>2, <1>3 DEF Solid

(* A flush gets past the L2 tables when flushing their cache ends.         *)
LEMMA CallPast ==
  ASSUME OnlyDataFails, AllInv, KindInv, CallStep, NEW w \in Cos, Past(w)'
  PROVE  Past(w) \/ TablesFlushed'
<1>1. UNCHANGED <<pc, req, lock>> /\ stack # <<>>
  BY CallStill, CallForms DEF AllInv, requests
<1>2. SUFFICES ASSUME pc[w] = "flush_ref", stack' = <<>> PROVE TablesFlushed'
  BY <1>1 DEF Past
<1>3. Outermost.f = "cache_flush" /\ Outermost.k = "l2"
  BY <1>1, <1>2 DEF KindInv, RightPlace
<1>4. Top = Outermost
  BY <1>2, CallOutermost DEF AllInv
<1>5. ~ CacheFlushNext
  <2>1. SUFFICES ASSUME CacheFlushNext PROVE FALSE
    OBVIOUS
  <2>2. PICK x, t : stack' = <<x, t>> \o Tail(stack)
    BY <2>1 DEF CacheFlushNext
  <2>3. StackType
    BY CallForms DEF AllInv
  <2>4. PICK V : stack \in Seq(Frames(V))
    BY <2>3, StackIs
  <2>5. <<x, t>> \o Tail(stack) # <<>>
    BY <1>1, <2>4, SeqPushed
  <2>6. QED BY <1>2, <2>2, <2>5
<1>6. CacheFlushEnd
  BY <1>3, <1>4, <1>5 DEF CallStep, EntryFlushStart, EntryFlushWrite, EntryFlushWritten,
        FlushDependencyStep, SetDependencyStep, UpdateRefcountStep, In
<1>7. QED BY <1>3, <1>4, <1>6, CacheFlushEnds DEF TablesFlushed

(* Once the tables are flushed only what is in memory can be read.         *)
LEMMA FiledKeepsSolid ==
  ASSUME TablesFiled'
  PROVE  StoredSolid'
<1>1. ASSUME NEW i \in Half, NEW e \in Stored(i)' PROVE Solid(e, i)'
  BY DEF Solid, TablesFiled
<1>2. QED BY <1>1 DEF StoredSolid

LEMMA CallKeepsStored ==
  ASSUME OnlyDataFails, AllInv, TabledInv, KindInv, PledgeInv, ShownInv, StoredInv, CallStep
  PROVE  StoredInv'
<1>0. /\ UNCHANGED <<pc, req, old, promise, latest>> /\ l1' = l1 /\ snap' = snap
      /\ \A i \in Half : Cached(i)' = Cached(i)
      /\ Still \/ (EntryFlushWrite /\ Top.k = "l2")
  BY CallStill DEF requests, ghosts
<1>1. AllInv'
  BY CallKeepsAll
<1>2. \A e, i : i \in Half /\ Solid(e, i) => Solid(e, i)'
  BY <1>0, SolidSame
<1>3. CASE Still
  <2>0. /\ \A i \in Half : Stored(i)' \subseteq Stored(i) /\ Filed(i)' = Filed(i)
        /\ \A e \in EntrySet, h \in Half : /\ Behind(e, h)' \subseteq Behind(e, h)
                                           /\ Sector(e, h)' = Sector(e, h)
        /\ \A i \in Half : Stored(i) \subseteq EntrySet /\ Filed(i) \in EntrySet /\ Cached(i) \in EntrySet
    BY <1>3, StillMeans, FiledIs DEF Known
  <2>1. EmptyPromised'
    BY <1>0, <1>3 DEF Still, StoredInv, EmptyPromised
  <2>2. StoredPromised'
    BY <1>0, <2>0 DEF StoredInv, StoredPromised
  <2>3. CASE TablesFlushed'
    <3>1. TablesFiled'
      BY <1>1, <2>3, FlushedFiledNext
    <3>2. StoredSolid'
      BY <3>1, FiledKeepsSolid
    <3>3. PastReads'
      <4>1. SUFFICES ASSUME NEW w \in Cos, Past(w)', NEW i \in Half, NEW h \in Half
                     PROVE  Content(Sector(Filed(i), h)') >= req'[w].floor[<<i, h>>]
        BY DEF PastReads, Content
      <4>2. PICK e \in EntrySet : e = Cached(i) /\ Cached(i)' = e
        BY <1>0, <2>0
      <4>3. Filed(i)' = e
        BY <3>1, <4>2 DEF TablesFiled
      <4>4. Sector(Filed(i), h)' = Sector(e, h)'
        BY <4>3 DEF Sector
      <4>5. Sector(e, h)' = Sector(e, h)
        BY <2>0
      <4>6. Content(Sector(e, h)) = Shown(<<i, h>>).v /\ Shown(<<i, h>>).v \in Values
        BY <4>2, ShownFloor
      <4>7. Shown(<<i, h>>).v >= req[w].floor[<<i, h>>]
        <5>1. CASE Past(w)
          BY <5>1, ShownFloor
        <5>2. CASE ~ Past(w)
          <6>1. pc[w] = "flush_ref"
            BY <1>0, <4>1, <5>2 DEF Past
          <6>2. req[w].op # "none"
            BY <6>1, RequestInvIs DEF AllInv, PlaceOk
          <6>3. PICK x \in Sectors : x = <<i, h>>
            BY SectorsAre
          <6>4. req[w] # NoRequest
            BY <6>2 DEF NoRequest
          <6>5. req[w].floor \in [Sectors -> Values]
            BY <6>4, RequestIs DEF ReqSet
          <6>6. latest[x] \in Int /\ req[w].floor[x] \in Int /\ Shown(x).v \in Int
            <7>1. latest[x] \in Values /\ req[w].floor[x] \in Values /\ Shown(x).v \in Values
              BY <4>6, <6>3, <6>5 DEF AllInv, TypeInv
            <7>2. QED BY <7>1, ValuesOk DEF ValuesAre
          <6>7. req[w].floor[x] <= latest[x] /\ Shown(x).v >= latest[x]
            BY <6>2, <6>3 DEF PledgeInv, Pledged, ShownInv, ShownReads
          <6>8. QED BY <6>3, <6>6, <6>7
        <5>3. QED BY <5>1, <5>2
      <4>8. QED BY <1>0, <4>4, <4>5, <4>6, <4>7
    <3>4. QED BY <2>1, <2>2, <3>2, <3>3, StoredInvThen
  <2>4. CASE ~ TablesFlushed'
    <3>1. \A w \in Cos : Past(w)' => Past(w)
      BY <2>4, CallPast
    <3>2. StoredSolid'
      <4>1. SUFFICES ASSUME NEW i \in Half, NEW h \in Half, NEW e \in Stored(i)', ~ Solid(e, i)'
                     PROVE  /\ promise'[<<i, h>>] = Values
                            /\ \A w \in Cos : Past(w)' => req'[w].floor[<<i, h>>] = -1
        BY DEF StoredSolid
      <4>2. e \in Stored(i) /\ ~ Solid(e, i)
        BY <1>2, <2>0, <4>1
      <4>3. QED BY <1>0, <3>1, <4>2 DEF StoredInv, StoredSolid
    <3>3. PastReads'
      <4>1. SUFFICES ASSUME NEW w \in Cos, Past(w)', NEW i \in Half, NEW h \in Half
                     PROVE  Content(Sector(Filed(i), h)') >= req'[w].floor[<<i, h>>]
        BY DEF PastReads, Content
      <4>2. PICK e \in EntrySet : e = Filed(i) /\ Filed(i)' = e
        BY <2>0
      <4>3. Sector(Filed(i), h)' = Sector(e, h)'
        BY <4>2 DEF Sector
      <4>4. Sector(e, h)' = Sector(e, h)
        BY <2>0
      <4>5. Content(Sector(Filed(i), h)) >= req[w].floor[<<i, h>>]
        BY <3>1, <4>1 DEF StoredInv, PastReads
      <4>6. QED BY <1>0, <4>2, <4>3, <4>4, <4>5
    <3>4. QED BY <2>1, <2>2, <3>2, <3>3, StoredInvThen
  <2>5. QED BY <2>3, <2>4
<1>4. CASE EntryFlushWrite /\ Top.k = "l2"
  <2>0. /\ Possible(L1)' = Possible(L1) /\ depends["l2"] = None
        /\ \A i \in Half : Stored(i)' \subseteq Known(i) /\ Filed(i)' \in {Filed(i), Cached(i)}
        /\ \A i \in Half, h \in Half : \A e \in Known(i) : Kept(e, h)
    BY <1>4, TableWriteIs
  <2>1. EmptyPromised'
    BY <1>0, <2>0 DEF StoredInv, EmptyPromised
  <2>2. StoredPromised'
    <3>1. SUFFICES ASSUME NEW i \in Half, NEW h \in Half, NEW e \in Known(i)
                   PROVE  Behind(e, h) \subseteq promise[<<i, h>>]
      BY <1>0, <2>0 DEF StoredPromised, Kept
    <3>2. CASE e \in Stored(i)
      BY <3>2 DEF StoredInv, StoredPromised
    <3>3. CASE e = Cached(i)
      <4>1. PICK x \in Sectors : x = <<i, h>> /\ x[1] = i /\ x[2] = h
        BY SectorsAre
      <4>2. Behind(Cached(x[1]), x[2]) \subseteq promise[x]
        BY <2>0 DEF ShownInv, ShownPossible, MayWrite
      <4>3. QED BY <3>3, <4>1, <4>2
    <3>4. QED BY <3>2, <3>3 DEF Known
  <2>3. ASSUME NEW w \in Cos, Past(w)' PROVE Past(w)
    <3>1. CASE stack' = <<>>
      <4>1. FALSE
        <5>1. PICK at : Calls(<<>>, at)
          BY <1>4, TablesNeverFail DEF EntryFlushWrite, AllInv, ShapeInv
        <5>2. StackType /\ stack # <<>>
          BY CallForms DEF AllInv
        <5>3. QED BY <3>1, <5>1, <5>2, CallMoves
      <4>2. QED BY <4>1
    <3>2. CASE stack' # <<>>
      BY <1>0, <2>3, <3>2 DEF Past
    <3>3. QED BY <3>1, <3>2
  <2>4. StoredSolid'
    <3>1. SUFFICES ASSUME NEW i \in Half, NEW h \in Half, NEW e \in Stored(i)', ~ Solid(e, i)'
                   PROVE  /\ promise'[<<i, h>>] = Values
                          /\ \A w \in Cos : Past(w)' => req'[w].floor[<<i, h>>] = -1
      BY DEF StoredSolid
    <3>2. e \in Known(i) /\ ~ Solid(e, i)
      BY <1>2, <2>0, <3>1
    <3>3. e \in Stored(i)
      BY <3>2 DEF Known, Solid
    <3>4. QED BY <1>0, <2>3, <3>2, <3>3 DEF StoredInv, StoredSolid
  <2>5. PastReads'
    <3>1. SUFFICES ASSUME NEW w \in Cos, Past(w)', NEW i \in Half, NEW h \in Half
                   PROVE  Content(Sector(Filed(i), h)') >= req'[w].floor[<<i, h>>]
      BY DEF PastReads, Content
    <3>2. PICK e \in Known(i) : e \in {Filed(i), Cached(i)} /\ Filed(i)' = e
      <4>1. Filed(i) \in Known(i)
        BY FiledIs DEF Known
      <4>2. QED BY <2>0, <4>1 DEF Known
    <3>3. Sector(Filed(i), h)' = Sector(e, h)'
      BY <3>2 DEF Sector
    <3>4. Sector(e, h)' = Sector(e, h)
      BY <2>0 DEF Kept
    <3>5. Content(Sector(e, h)) >= req[w].floor[<<i, h>>]
      <4>1. CASE e = Filed(i)
        BY <2>3, <3>1, <4>1 DEF StoredInv, PastReads
      <4>2. CASE e = Cached(i)
        BY <2>3, <3>1, <4>2, ShownFloor
      <4>3. QED BY <3>2, <4>1, <4>2
    <3>6. QED BY <1>0, <3>3, <3>4, <3>5
  <2>6. QED BY <2>1, <2>2, <2>4, <2>5, StoredInvThen
<1>5. QED BY <1>0, <1>3, <1>4

LEMMA FiledKnown ==
  ASSUME AllInv, TabledInv, NEW i \in Half, NEW h \in Half
  PROVE  /\ Filed(i) \in Known(i) /\ Content(Sector(Filed(i), h)) \in Values
         /\ Content(Sector(Filed(i), h)) >= -1
<1>1. Filed(i) \in Known(i)
  BY FiledIs DEF Known
<1>2. PICK e \in Known(i) : e = Filed(i)
  BY <1>1
<1>3. Sector(e, h) \in DataSet /\ Content(Sector(e, h)) = Sector(e, h).v
  BY SectorIs
<1>4. Content(Sector(e, h)) \in Values
  BY <1>3, DataIs
<1>5. \A v \in Values : v >= -1
  BY QcowAssumption DEF Values
<1>6. QED BY <1>1, <1>2, <1>4, <1>5

LEMMA SubmitKeepsStored ==
  ASSUME AllInv, TabledInv, PledgeInv, ShownInv, StoredInv, NEW w \in Cos, SubmitAny(w)
  PROVE  StoredInv'
<1>0. /\ Still /\ UNCHANGED <<m, old, stack, snap>> /\ pc[w] = "idle"
      /\ pc'[w] = "enter" /\ \A o \in Cos : o # w => pc'[o] = pc[o]
  BY SubmitStill, GotoIs DEF AllInv
<1>1. PICK gone, put : SubmitDoes(w, gone, put)
  BY SubmitIs
<1>2. /\ \A i \in Half : Stored(i)' \subseteq Stored(i) /\ Filed(i)' = Filed(i) /\ Cached(i)' = Cached(i)
      /\ \A e \in EntrySet, h \in Half : /\ Behind(e, h)' \subseteq Behind(e, h)
                                         /\ Sector(e, h)' = Sector(e, h)
      /\ \A i \in Half : Stored(i) \subseteq EntrySet /\ Filed(i) \in EntrySet
  BY <1>0, StillMeans, FiledIs DEF Known
<1>3. ASSUME NEW x \in Sectors
      PROVE  /\ promise[x] \subseteq promise'[x]
             /\ promise[x] = Values => promise'[x] = Values
             /\ x \in gone => promise'[x] = Values
  <2>1. promise'[x] = IF x \in gone THEN Values
                      ELSE IF x \in put THEN promise[x] \cup {count + 1} ELSE promise[x]
    BY <1>1 DEF SubmitDoes
  <2>2. promise[x] \subseteq Values
    BY DEF AllInv, TypeInv
  <2>3. count + 1 \in Values
    <3>1. count \in Int /\ count >= 1 /\ count < MaxRequests + 1
      BY <1>1, CountIs DEF SubmitDoes
    <3>2. QED BY <3>1, QcowAssumption DEF Values
  <2>4. QED BY <2>1, <2>2, <2>3
<1>4. ASSUME NEW o \in Cos, Past(o)'
      PROVE  /\ Past(o)
             /\ \A x \in Sectors : req'[o].floor[x] = IF x \in gone THEN -1 ELSE req[o].floor[x]
  <2>1. o # w
    BY <1>0, <1>4 DEF Past
  <2>2. Past(o)
    BY <1>0, <1>4, <2>1 DEF Past
  <2>3. req[o].op # "none"
    BY <2>2, RequestInvIs DEF AllInv, PlaceOk, Past
  <2>4. QED BY <1>1, <2>1, <2>2, <2>3 DEF SubmitDoes
<1>5. EmptyPromised'
  BY <1>0, <1>3 DEF StoredInv, EmptyPromised, Still
<1>6. StoredPromised'
  <2>1. SUFFICES ASSUME NEW i \in Half, NEW h \in Half, NEW e \in Stored(i)
                 PROVE  Behind(e, h)' \subseteq promise'[<<i, h>>]
    BY <1>2 DEF StoredPromised
  <2>2. Behind(e, h) \subseteq promise[<<i, h>>]
    BY DEF StoredInv, StoredPromised
  <2>3. QED BY <1>2, <1>3, <2>2, SectorsAre
<1>7. StoredSolid'
  <2>1. SUFFICES ASSUME NEW i \in Half, NEW h \in Half, NEW e \in Stored(i)', ~ Solid(e, i)'
                 PROVE  /\ promise'[<<i, h>>] = Values
                        /\ \A o \in Cos : Past(o)' => req'[o].floor[<<i, h>>] = -1
    BY DEF StoredSolid
  <2>2. \A o \in Cos : pc[o] = "unlink" => pc'[o] = "unlink" /\ old'[o] = old[o]
    BY <1>0
  <2>3. e \in Stored(i) /\ ~ Solid(e, i)
    BY <1>0, <1>2, <2>1, <2>2, SolidSame
  <2>4. /\ promise[<<i, h>>] = Values
        /\ \A o \in Cos : Past(o) => req[o].floor[<<i, h>>] = -1
    BY <2>3 DEF StoredInv, StoredSolid
  <2>5. QED BY <1>3, <1>4, <2>4, SectorsAre
<1>8. PastReads'
  <2>1. SUFFICES ASSUME NEW o \in Cos, Past(o)', NEW i \in Half, NEW h \in Half
                 PROVE  Content(Sector(Filed(i), h)') >= req'[o].floor[<<i, h>>]
    BY DEF PastReads, Content
  <2>2. PICK e \in EntrySet : e = Filed(i) /\ Filed(i)' = e
    BY <1>2
  <2>3. Sector(Filed(i), h)' = Sector(e, h)'
    BY <2>2 DEF Sector
  <2>4. Sector(e, h)' = Sector(e, h)
    BY <1>2
  <2>5. Content(Sector(Filed(i), h)) >= req[o].floor[<<i, h>>]
    BY <1>4, <2>1 DEF StoredInv, PastReads
  <2>6. Content(Sector(Filed(i), h)) >= -1
    BY FiledKnown
  <2>7. req'[o].floor[<<i, h>>] \in {-1, req[o].floor[<<i, h>>]}
    BY <1>4, <2>1, SectorsAre
  <2>8. QED BY <2>2, <2>3, <2>4, <2>5, <2>6, <2>7
<1>9. QED BY <1>5, <1>6, <1>7, <1>8, StoredInvThen

(* No other request gets past the L2 tables.                               *)
LEMMA ProgressPast ==
  ASSUME OnlyDataFails, AllInv, NEW w \in Cos, Progress(w), NEW o \in Cos, Past(o)'
  PROVE  Past(o) /\ req'[o] = req[o]
<1>1. CASE o = w
  <2>1. pc'[w] # "idle"
    BY <1>1 DEF Past
  <2>2. req'[w] = req[w]
    BY <2>1, RequestGoes
  <2>3. CASE pc'[w] = "flush_ref"
    <3>1. stack' = <<CacheFlush("l2")>> /\ stack' = <<>>
      BY <1>1, <2>3, CameFrom DEF Past
    <3>2. QED BY <3>1
  <2>4. CASE pc'[w] \in {"flush_file", "flush_disk"}
    BY <1>1, <2>2, <2>4, CameFrom DEF Past
  <2>5. QED BY <1>1, <2>3, <2>4 DEF Past
<1>2. CASE o # w
  <2>1. /\ req'[o] = req[o]
        /\ pc'[o] = pc[o] \/ (pc[o] = "waiting" /\ pc'[o] = "enter")
    BY <1>2, OthersStay
  <2>2. pc'[o] = pc[o]
    BY <2>1 DEF Past
  <2>3. CASE pc[o] = "flush_ref"
    <3>1. lock = o
      BY <2>3, RequestIs DEF Locked
    <3>2. stack' = stack
      BY <1>2, <3>1, OwnerStays
    <3>3. QED BY <2>1, <2>2, <2>3, <3>2 DEF Past
  <2>4. CASE pc[o] # "flush_ref"
    BY <2>1, <2>2, <2>4 DEF Past
  <2>5. QED BY <2>3, <2>4
<1>3. QED BY <1>1, <1>2

(* With writethrough caches the file holds the tables in memory when a     *)
(* request is done with its own.                                           *)
LEMMA ThroughFiled ==
  ASSUME AllInv, ThroughInv, writethrough, stack = <<>>,
         NEW w \in Cos, lock \in {w, None}, pc[w] \notin {"unmap_put"}
  PROVE  TablesFiled /\ \A u \in Units : lost[u] = {}
<1>1. \A u \in Units : lost[u] = {}
  BY DEF ThroughInv, LostThrough, In
<1>2. Clean("l2")
  <2>1. SUFFICES ASSUME NEW d \in dirty, d[1] = "l2" PROVE FALSE
    BY DEF Clean
  <2>2. PICK o \in Cos : Puttable(o, d)
    BY <2>1 DEF ThroughInv, DirtyThrough
  <2>3. o = w
    BY <2>2, QcowAssumption DEF Puttable
  <2>4. QED BY <2>2, <2>3 DEF Puttable
<1>3. Durable("l2")
  <2>1. DOMAIN l2 \subseteq Clusters /\ (l1.c # 0 => l1.c \in Clusters)
    BY CachedIs DEF AllInv, CacheInv
  <2>2. QED BY <1>1, <2>1, UnitsAre DEF Durable
<1>4. TablesFlushed
  BY <1>2, <1>3 DEF TablesFlushed, IsFlushed
<1>5. QED BY <1>1, <1>4, FlushedFiled

(* The cluster that an entry of the file refers to keeps its data: when it *)
(* loses its last reference in memory, none is left in the file.           *)
LEMMA SolidStays ==
  ASSUME OnlyDataFails, AllInv, ThroughInv, KindInv, NEW w \in Cos, Progress(w),
         ~ LinkL2(w), ~ Unmap(w), NEW i \in Half, NEW e \in Stored(i), Solid(e, i)
  PROVE  Solid(e, i)'
<1>1. Cached(i)' = Cached(i) /\ snap' = snap
  BY ProgressKeepsCache, RequestGoes DEF Becomes
<1>2. CASE e.c \in {0, Cached(i).c}
  BY <1>1, <1>2 DEF Solid
<1>3. CASE BySnap(e.c)
  BY <1>1, <1>3 DEF Solid, BySnap
<1>4. ASSUME NEW o \in Cos, pc[o] = "unlink", old[o] = e.c PROVE Solid(e, i)'
  <2>1. CASE o # w
    <3>1. pc'[o] = "unlink" /\ old'[o] = old[o]
      BY <1>4, <2>1, OthersStay
    <3>2. QED BY <1>4, <3>1 DEF Solid
  <2>2. CASE o = w
    <3>1. FreeOld(w)
      <4>1. ret = TRUE /\ pc[w] = "unlink"
        BY <1>4, <2>2 DEF AllInv, ShapeInv
      <4>2. QED BY <4>1 DEF Progress, Enter, L2AllocateFailed, CallFailed, GetClusterTable,
              L2FlushRefcount, L2Copy, WriteL1Entry, SyncL1Entry, AllocClusterOffset,
              InsertInFlight, WriteData, Relock, CopySectors, LinkL2, Done, Unmap, UnmapPut,
              FlushToOs, FlushDisk, Replace
    <3>2. CASE writethrough
      <4>1. stack = <<>> /\ lock = w
        BY <3>1 DEF FreeOld, Owns
      <4>2. TablesFiled
        BY <1>4, <2>2, <3>2, <4>1, ThroughFiled
      <4>3. e = Cached(i)
        BY <4>2 DEF TablesFiled
      <4>4. QED BY <1>1, <4>3 DEF Solid
    <3>3. CASE ~ writethrough
      <4>1. old[w] = 0 \/ BySnap(old[w])
        BY <1>4, <2>2, <3>3 DEF KindInv, OwnEntry
      <4>2. QED BY <1>2, <1>3, <1>4, <2>2, <4>1
    <3>4. QED BY <3>2, <3>3
  <2>3. QED BY <2>1, <2>2
<1>5. QED BY <1>2, <1>3, <1>4 DEF Solid

(* What a step leaves of StoredInv when it changes no data.                *)
LEMMA StillKeepsPast ==
  ASSUME OnlyDataFails, AllInv, TabledInv, StoredInv, NEW w \in Cos, Progress(w),
         \A i \in Half : Filed(i)' = Filed(i),
         \A i \in Half, h \in Half : \A e \in Known(i) : Sector(e, h)' = Sector(e, h)
  PROVE  PastReads'
<1>1. SUFFICES ASSUME NEW o \in Cos, Past(o)', NEW i \in Half, NEW h \in Half
               PROVE  Content(Sector(Filed(i), h)') >= req'[o].floor[<<i, h>>]
  BY DEF PastReads, Content
<1>2. Past(o) /\ req'[o] = req[o]
  BY <1>1, ProgressPast
<1>3. PICK e \in Known(i) : e = Filed(i) /\ Filed(i)' = e
  BY FiledKnown
<1>4. Sector(Filed(i), h)' = Sector(e, h)'
  BY <1>3 DEF Sector
<1>5. Sector(e, h)' = Sector(e, h)
  OBVIOUS
<1>6. Content(Sector(Filed(i), h)) >= req[o].floor[<<i, h>>]
  BY <1>2 DEF StoredInv, PastReads
<1>7. QED BY <1>2, <1>3, <1>4, <1>5, <1>6

(* A flush of the file leaves one content behind every entry of the file.  *)
LEMMA FlushKeepsStored ==
  ASSUME OnlyDataFails, AllInv, TabledInv, StoredInv, NEW w \in Cos, Progress(w), Still, Flushed,
         pc[w] = "flush_disk",
         \A x \in Sectors : promise'[x] = {v \in promise[x] : v >= req[w].floor[x]}
  PROVE  EmptyPromised' /\ StoredPromised'
<1>0. Past(w)
  BY DEF Past
<1>1. /\ \A u \in Units : Possible(u)' = {file[u]} /\ file' = file /\ l1' = l1 /\ l1 = file[L1]
      /\ l1.c \in Clusters \cup {0}
  BY FlushedMeans, CachedIs, EntriesAre DEF Still
<1>2. Possible(L1)' = {l1} /\ Tables' = {l1.c} \ {0}
  BY <1>1, UnitsAre DEF Tables
<1>3. ASSUME NEW i \in Half PROVE Stored(i)' \subseteq {Filed(i)}
  <2>1. CASE l1.c = 0
    BY <1>2, <2>1 DEF Stored
  <2>2. CASE l1.c # 0
    <3>1. PICK t \in Clusters : t = l1.c
      BY <1>1, <2>2
    <3>2. Possible(Cell(t, i))' = {file[Cell(t, i)]}
      BY <1>1, UnitsAre
    <3>3. Stored(i)' = UNION {Possible(Cell(d, i))' : d \in Tables'} /\ Tables' = {t}
      BY <1>2, <2>2, <3>1 DEF Stored
    <3>4. Stored(i)' = {file[Cell(t, i)]}
      BY <3>2, <3>3
    <3>5. QED BY <2>2, <3>1, <3>4 DEF Filed
  <2>3. QED BY <2>1, <2>2
<1>4. ASSUME NEW i \in Half, NEW h \in Half
      PROVE  Content(Sector(Filed(i), h)) >= req[w].floor[<<i, h>>]
  BY <1>0 DEF StoredInv, PastReads
<1>5. EmptyPromised'
  <2>1. SUFFICES ASSUME l1.c = 0, NEW x \in Sectors PROVE 0 \in promise'[x]
    BY <1>2 DEF EmptyPromised
  <2>2. PICK i \in Half, h \in Half : x = <<i, h>>
    BY SectorsAre
  <2>3. 0 \in promise[x]
    BY <2>1, CachedIs DEF StoredInv, EmptyPromised
  <2>4. Filed(i).c = 0
    BY <2>1, EntriesAre DEF Filed
  <2>5. Content(Sector(Filed(i), h)) = 0
    BY <2>4, DataIs DEF Sector
  <2>6. QED BY <1>4, <2>2, <2>3, <2>5
<1>6. StoredPromised'
  <2>1. SUFFICES ASSUME NEW i \in Half, NEW h \in Half, NEW e \in Stored(i)'
                 PROVE  Behind(e, h)' \subseteq promise'[<<i, h>>]
    BY DEF StoredPromised
  <2>2. e = Filed(i) /\ e \in Stored(i) /\ e \in EntrySet
    <3>1. e \in Stored(i)
      BY <2>1, StillMeans
    <3>2. e \in EntrySet
      BY <3>1, FiledIs DEF Known
    <3>3. QED BY <1>3, <2>1, <3>1, <3>2
  <2>3. PICK s : s = Sector(e, h)
    OBVIOUS
  <2>4. Sector(e, h)' = s
    BY <2>2, <2>3, StillMeans
  <2>5. \A c \in Clusters : Possible(Cell(c, h))' = {file'[Cell(c, h)]}
    BY <1>1, UnitsAre
  <2>6. Behind(e, h)' = {Content(s)}
    BY <2>2, <2>4, <2>5, BehindOneNext
  <2>7. Content(s) \in promise[<<i, h>>]
    <3>1. Content(s) \in Behind(e, h)
      BY <2>3, BehindIs
    <3>2. QED BY <2>2, <3>1 DEF StoredInv, StoredPromised
  <2>8. Content(s) >= req[w].floor[<<i, h>>]
    BY <1>4, <2>2, <2>3
  <2>9. QED BY <2>6, <2>7, <2>8, SectorsAre
<1>7. QED BY <1>5, <1>6

LEMMA StillKeepsStored ==
  ASSUME OnlyDataFails, AllInv, TabledInv, ThroughInv, KindInv, PledgeInv, ShownInv, StoredInv,
         NEW w \in Cos, Progress(w), Still, ~ LinkL2(w), ~ Unmap(w)
  PROVE  StoredInv'
<1>0. /\ \A i \in Half : Stored(i)' \subseteq Stored(i) /\ Filed(i)' = Filed(i) /\ Cached(i)' = Cached(i)
      /\ \A e \in EntrySet, h \in Half : /\ Behind(e, h)' \subseteq Behind(e, h)
                                         /\ Sector(e, h)' = Sector(e, h)
      /\ \A i \in Half : Stored(i) \subseteq EntrySet /\ Known(i) \subseteq EntrySet
      /\ Possible(L1)' \subseteq Possible(L1)
  BY StillMeans, FiledIs DEF Known, Still
<1>1. PastReads'
  BY <1>0, StillKeepsPast
<1>2. ASSUME NEW i \in Half, NEW h \in Half, NEW e \in Stored(i)', ~ Solid(e, i)'
      PROVE  /\ promise[<<i, h>>] = Values
             /\ \A o \in Cos : Past(o) => req[o].floor[<<i, h>>] = -1
  <2>1. e \in Stored(i) /\ ~ Solid(e, i)
    BY <1>0, <1>2, SolidStays
  <2>2. QED BY <2>1 DEF StoredInv, StoredSolid
<1>3. CASE \A x \in Sectors : promise'[x] = promise[x]
  <2>1. EmptyPromised'
    BY <1>0, <1>3 DEF StoredInv, EmptyPromised
  <2>2. StoredPromised'
    <3>1. SUFFICES ASSUME NEW i \in Half, NEW h \in Half, NEW e \in Stored(i)
                   PROVE  Behind(e, h)' \subseteq promise'[<<i, h>>]
      BY <1>0 DEF StoredPromised
    <3>2. Behind(e, h) \subseteq promise[<<i, h>>]
      BY DEF StoredInv, StoredPromised
    <3>3. QED BY <1>0, <1>3, <3>2, SectorsAre
  <2>3. StoredSolid'
    <3>1. SUFFICES ASSUME NEW i \in Half, NEW h \in Half, NEW e \in Stored(i)', ~ Solid(e, i)'
                   PROVE  /\ promise'[<<i, h>>] = Values
                          /\ \A o \in Cos : Past(o)' => req'[o].floor[<<i, h>>] = -1
      BY DEF StoredSolid
    <3>2. /\ promise[<<i, h>>] = Values
          /\ \A o \in Cos : Past(o) => req[o].floor[<<i, h>>] = -1
      BY <1>2, <3>1
    <3>3. promise'[<<i, h>>] = Values
      BY <1>3, <3>2, SectorsAre
    <3>4. QED BY <3>2, <3>3, ProgressPast
  <2>4. QED BY <1>1, <2>1, <2>2, <2>3, StoredInvThen
<1>4. CASE /\ pc[w] = "flush_disk" /\ Flushed
           /\ \A x \in Sectors : promise'[x] = {v \in promise[x] : v >= req[w].floor[x]}
  <2>1. EmptyPromised' /\ StoredPromised'
    BY <1>4, FlushKeepsStored
  <2>2. StoredSolid'
    <3>1. SUFFICES ASSUME NEW i \in Half, NEW h \in Half, NEW e \in Stored(i)', ~ Solid(e, i)'
                   PROVE  /\ promise'[<<i, h>>] = Values
                          /\ \A o \in Cos : Past(o)' => req'[o].floor[<<i, h>>] = -1
      BY DEF StoredSolid
    <3>2. promise[<<i, h>>] = Values /\ req[w].floor[<<i, h>>] = -1
      BY <1>2, <1>4, <3>1 DEF Past
    <3>3. \A v \in Values : v >= -1
      BY QcowAssumption DEF Values
    <3>4. promise'[<<i, h>>] = Values
      <4>1. PICK x \in Sectors : x = <<i, h>>
        BY SectorsAre
      <4>2. promise'[x] = {v \in promise[x] : v >= req[w].floor[x]}
        BY <1>4
      <4>3. promise'[x] = {v \in Values : v >= -1}
        BY <3>2, <4>1, <4>2
      <4>4. QED BY <3>3, <4>1, <4>3
    <3>5. QED BY <1>2, <3>1, <3>4, ProgressPast
  <2>3. QED BY <1>1, <2>1, <2>2, StoredInvThen
<1>5. CASE /\ writethrough /\ (\E done \in BOOLEAN : Finishes(w, done))
           /\ (pc[w] = "wrote" /\ ~ m[w].alloc) \/ pc[w] = "done"
  <2>1. TablesFiled /\ \A u \in Units : lost[u] = {}
    <3>1. stack = <<>> /\ lock \in {w, None}
      BY <1>5, StackEmpty DEF Finishes, Owns
    <3>2. QED BY <1>5, <3>1, ThroughFiled
  <2>2. ShownReads'
    BY StillKeepsReads
  <2>3. ASSUME NEW i \in Half, NEW h \in Half
        PROVE  /\ Behind(Cached(i), h)' \subseteq promise'[<<i, h>>]
               /\ Cached(i).c = 0 => 0 \in promise'[<<i, h>>]
    <3>1. PICK x \in Sectors : x = <<i, h>> /\ x[1] = i /\ x[2] = h
      BY SectorsAre
    <3>2. PICK e, s : e = Cached(i) /\ s = Shown(x)
      OBVIOUS
    <3>3. e \in EntrySet /\ s = Sector(e, h) /\ Content(s) = s.v
      BY <3>1, <3>2, ShownIs, CachedIs DEF Shown
    <3>4. \A c \in Clusters : Possible(Cell(c, h)) = {file[Cell(c, h)]}
      BY <2>1, PossibleIs, UnitsAre
    <3>5. Behind(e, h) = {s.v}
      BY <3>3, <3>4, BehindOne
    <3>6. s.v \in promise'[x]
      BY <2>2, <3>1, <3>2, StillMeans DEF ShownReads
    <3>7. Behind(Cached(i), h)' = Behind(e, h)'
      <4>1. Cached(i)' = e
        BY <1>0, <3>2
      <4>2. QED BY <4>1, EntryNext
    <3>8. Behind(e, h)' \subseteq Behind(e, h)
      BY <1>0, <3>3
    <3>9. e.c = 0 => s.v = 0
      BY <3>3, DataIs DEF Sector
    <3>10. QED BY <3>1, <3>2, <3>5, <3>6, <3>7, <3>8, <3>9
  <2>4. EmptyPromised'
    <3>1. SUFFICES ASSUME l1.c = 0, NEW x \in Sectors PROVE 0 \in promise'[x]
      BY <1>0, <2>1 DEF EmptyPromised, TablesFiled
    <3>2. PICK i \in Half, h \in Half : x = <<i, h>>
      BY SectorsAre
    <3>3. Cached(i).c = 0
      BY <3>1, CachedIs, EntriesAre
    <3>4. QED BY <2>3, <3>2, <3>3
  <2>5. StoredPromised'
    <3>1. SUFFICES ASSUME NEW i \in Half, NEW h \in Half, NEW e \in Stored(i)'
                   PROVE  Behind(e, h)' \subseteq promise'[<<i, h>>]
      BY DEF StoredPromised
    <3>2. Cached(i)' = e
      BY <1>0, <2>1, <3>1 DEF TablesFiled
    <3>3. Behind(Cached(i), h)' = Behind(e, h)'
      BY <3>2, EntryNext
    <3>4. QED BY <2>3, <3>3
  <2>6. StoredSolid'
    <3>1. ASSUME NEW i \in Half, NEW e \in Stored(i)' PROVE Solid(e, i)'
      <4>1. e = Cached(i) /\ Cached(i)' = e
        BY <1>0, <2>1, <3>1 DEF TablesFiled
      <4>2. QED BY <4>1 DEF Solid
    <3>2. QED BY <3>1 DEF StoredSolid
  <2>7. QED BY <1>1, <2>4, <2>5, <2>6, StoredInvThen
<1>6. QED
  <2>1. CASE UNCHANGED <<promise, latest>>
    BY <1>3, <2>1
  <2>2. CASE /\ latest' = latest /\ pc[w] = "flush_disk" /\ Flushed
             /\ \A x \in Sectors : promise'[x] = {v \in promise[x] : v >= req[w].floor[x]}
    BY <1>4, <2>2
  <2>3. CASE /\ (\E done \in BOOLEAN : Finishes(w, done))
             /\ (pc[w] = "wrote" /\ ~ m[w].alloc) \/ pc[w] = "done"
             /\ \A x \in Sectors :
                  IF x \in Touches(w)
                  THEN /\ latest'[x] = req[w].v
                       /\ promise'[x] = IF writethrough
                            THEN {v \in promise[x] : v >= req[w].v} ELSE promise[x]
                  ELSE latest'[x] = latest[x] /\ promise'[x] = promise[x]
    <3>1. CASE writethrough
      BY <1>5, <2>3, <3>1
    <3>2. CASE ~ writethrough
      <4>1. \A x \in Sectors : promise'[x] = promise[x]
        BY <2>3, <3>2
      <4>2. QED BY <1>3, <4>1
    <3>3. QED BY <3>1, <3>2
  <2>4. QED BY <2>1, <2>2, <2>3, ProgressPromises

(* What is left to show when an entry in memory is replaced.               *)
LEMMA SwapKeepsStored ==
  ASSUME OnlyDataFails, AllInv, TabledInv, StoredInv, NEW w \in Cos, Progress(w),
         NEW e, Swaps(w, e), StoredSolid'
  PROVE  StoredInv'
<1>0. /\ UNCHANGED <<promise, req>>
      /\ \A i \in Half : Stored(i)' = Stored(i) /\ Filed(i)' = Filed(i)
      /\ \A u : Possible(u)' = Possible(u)
      /\ \A a, h : Kept(a, h)
  BY DEF Swaps
<1>1. EmptyPromised'
  <2>1. Possible(L1)' = Possible(L1)
    BY <1>0 DEF Swaps
  <2>2. QED BY <1>0, <2>1 DEF StoredInv, EmptyPromised
<1>2. StoredPromised'
  BY <1>0 DEF StoredInv, StoredPromised, Kept
<1>3. PastReads'
  BY <1>0, StillKeepsPast DEF Kept
<1>4. QED BY <1>1, <1>2, <1>3, StoredInvThen

(* The replaced cluster keeps its data while the request is to free it.    *)
LEMMA LinkKeepsStored ==
  ASSUME OnlyDataFails, AllInv, TabledInv, StoredInv, NEW w \in Cos, Progress(w), LinkL2(w)
  PROVE  StoredInv'
<1>0. PICK g, a : g = req[w].g /\ a = Entry(m[w].c, "copied")
  OBVIOUS
<1>1. /\ Swaps(w, a) /\ pc[w] = "link" /\ pc'[w] = "unlink" /\ old'[w] = Cached(g).c
      /\ UNCHANGED <<promise, snap>>
      /\ \A i \in Half : Stored(i)' = Stored(i) /\ (i # g => Cached(i)' = Cached(i))
  BY <1>0, LinkIs DEF Swaps
<1>2. ASSUME NEW i \in Half, NEW e \in Stored(i), Solid(e, i) PROVE Solid(e, i)'
  <2>1. CASE e.c = 0 \/ BySnap(e.c)
    BY <1>1, <2>1 DEF Solid, BySnap
  <2>2. CASE e.c = Cached(i).c /\ i # g
    BY <1>1, <2>2 DEF Solid
  <2>3. CASE e.c = Cached(i).c /\ i = g
    BY <1>1, <2>3 DEF Solid
  <2>4. ASSUME NEW o \in Cos, pc[o] = "unlink", old[o] = e.c PROVE Solid(e, i)'
    <3>1. o # w
      BY <1>1, <2>4
    <3>2. pc'[o] = "unlink" /\ old'[o] = e.c
      BY <2>4, <3>1, OthersStay
    <3>3. QED BY <3>2 DEF Solid
  <2>5. QED BY <1>2, <2>1, <2>2, <2>3, <2>4 DEF Solid
<1>3. StoredSolid'
  <2>1. SUFFICES ASSUME NEW i \in Half, NEW h \in Half, NEW e \in Stored(i), ~ Solid(e, i)'
                 PROVE  /\ promise'[<<i, h>>] = Values
                        /\ \A o \in Cos : Past(o)' => req'[o].floor[<<i, h>>] = -1
    BY <1>1 DEF StoredSolid
  <2>2. ~ Solid(e, i)
    BY <1>2, <2>1
  <2>3. QED BY <1>1, <2>2, ProgressPast DEF StoredInv, StoredSolid
<1>4. QED BY <1>1, <1>3, SwapKeepsStored

(* The cluster of a discarded entry may be used for other data at once.    *)
LEMMA UnmapKeepsStored ==
  ASSUME OnlyDataFails, AllInv, TabledInv, KindInv, PledgeInv, StoredInv,
         NEW w \in Cos, Progress(w), Unmap(w)
  PROVE  StoredInv'
<1>0. PICK g : g = req[w].g
  OBVIOUS
<1>1. /\ Swaps(w, Unallocated) /\ pc[w] = "unmap" /\ g \in Half
      /\ UNCHANGED <<promise, snap>>
      /\ \A i \in Half : Stored(i)' = Stored(i) /\ (i # g => Cached(i)' = Cached(i))
  BY <1>0, UnmapSwaps DEF Swaps
<1>2. ASSUME NEW i \in Half, NEW e \in Stored(i), Solid(e, i), i # g PROVE Solid(e, i)'
  <2>1. CASE e.c = 0 \/ BySnap(e.c)
    BY <1>1, <2>1 DEF Solid, BySnap
  <2>2. CASE e.c = Cached(i).c
    BY <1>1, <1>2, <2>2 DEF Solid
  <2>3. ASSUME NEW o \in Cos, pc[o] = "unlink", old[o] = e.c PROVE Solid(e, i)'
    <3>1. o # w
      BY <1>1, <2>3
    <3>2. pc'[o] = "unlink" /\ old'[o] = e.c
      BY <2>3, <3>1, OthersStay
    <3>3. QED BY <3>2 DEF Solid
  <2>4. QED BY <1>2, <2>1, <2>2, <2>3 DEF Solid
<1>3. \A h \in Half : latest[<<g, h>>] = -1 /\ promise[<<g, h>>] = Values
  <2>1. req[w].op = "discard" /\ req[w].halves = Half
    BY <1>1, RequestInvIs DEF AllInv, PlaceOk, KindInv, RightPlace, Unmapping
  <2>2. Touches(w) = {g} \X Half
    BY <1>0, <2>1 DEF Touches
  <2>3. QED BY <2>1, <2>2 DEF PledgeInv, Pledged
<1>4. StoredSolid'
  <2>1. SUFFICES ASSUME NEW i \in Half, NEW h \in Half, NEW e \in Stored(i), ~ Solid(e, i)'
                 PROVE  /\ promise[<<i, h>>] = Values
                        /\ \A o \in Cos : Past(o) => req[o].floor[<<i, h>>] = -1
    <3>1. ASSUME NEW o \in Cos, Past(o)' PROVE Past(o) /\ req'[o] = req[o]
      BY <3>1, ProgressPast
    <3>2. promise' = promise /\ \A i \in Half : Stored(i)' = Stored(i)
      BY <1>1
    <3>3. QED BY <3>1, <3>2 DEF StoredSolid
  <2>2. CASE i # g
    <3>1. ~ Solid(e, i)
      BY <1>2, <2>1, <2>2
    <3>2. QED BY <3>1 DEF StoredInv, StoredSolid
  <2>3. CASE i = g
    <3>1. ASSUME NEW o \in Cos, Past(o) PROVE req[o].floor[<<i, h>>] = -1
      <4>1. req[o].floor[<<i, h>>] \in Values /\ req[o].floor[<<i, h>>] <= -1
        BY <1>3, <2>3, <3>1, PastFloor
      <4>2. \A v \in Values : v \in Int /\ v >= -1
        BY QcowAssumption DEF Values
      <4>3. QED BY <4>1, <4>2
    <3>2. QED BY <1>3, <2>3, <3>1
  <2>4. QED BY <2>2, <2>3
<1>5. QED BY <1>1, <1>4, SwapKeepsStored

(* The new table in the file holds the entries that the old one holds.     *)
LEMMA WriteL1KeepsStored ==
  ASSUME OnlyDataFails, AllInv, TabledInv, PledgeInv, ShownInv, StoredInv,
         NEW w \in Cos, Progress(w), WriteL1Entry(w)
  PROVE  StoredInv'
<1>0. PICK c : c = m[w].c
  OBVIOUS
<1>1. /\ IsFlushed("l2") /\ UNCHANGED <<promise, req>> /\ c \in Clusters
      /\ l1' = Entry(c, "copied") /\ Possible(L1)' \subseteq {l1, l1'} /\ l1 \in Possible(L1)
      /\ \A u \in Units \ {L1} : file'[u] = file[u] /\ Possible(u)' = Possible(u)
      /\ \A i \in Half : /\ Possible(Cell(c, i)) = {Cached(i)} /\ Cached(i)' = Cached(i)
                         /\ Stored(i)' \subseteq {Cached(i)}
  BY <1>0, WriteL1Is, PossibleIs DEF ghosts
<1>2. TablesFiled
  BY <1>1, FlushedFiled DEF TablesFlushed
<1>3. /\ l1'.c = c /\ c # 0
      /\ \A d \in Clusters, h \in Half : file'[Cell(d, h)] = file[Cell(d, h)]
                                         /\ Possible(Cell(d, h))' = Possible(Cell(d, h))
  BY <1>1, UnitsAre, UnitsDiffer, EntriesAre, ClustersAre
<1>4. ASSUME NEW e \in EntrySet, NEW h \in Half PROVE Kept(e, h)
  <2>1. e.c \in Clusters \cup {0}
    BY EntriesAre
  <2>2. QED BY <1>3, <2>1, BehindKept
<1>5. ASSUME NEW i \in Half PROVE Filed(i)' = Filed(i)
  <2>1. file[Cell(c, i)] = Cached(i)
    BY <1>1, PossibleIs
  <2>2. Filed(i)' = file'[Cell(l1'.c, i)]
    BY <1>3 DEF Filed, Cell
  <2>3. Filed(i)' = Cached(i)
    BY <1>1, <1>3, <2>1, <2>2
  <2>4. QED BY <1>2, <2>3 DEF TablesFiled
<1>6. EmptyPromised'
  BY <1>1, <1>3 DEF StoredInv, EmptyPromised
<1>7. StoredPromised'
  <2>1. SUFFICES ASSUME NEW i \in Half, NEW h \in Half, NEW e, e = Cached(i)
                 PROVE  Behind(e, h)' \subseteq promise'[<<i, h>>]
    BY <1>1 DEF StoredPromised
  <2>2. e \in EntrySet
    BY <2>1, CachedIs
  <2>3. Behind(e, h) \subseteq promise[<<i, h>>]
    <3>1. CASE l1.c # 0
      BY <1>2, <2>1, <3>1 DEF TablesFiled, StoredInv, StoredPromised
    <3>2. CASE l1.c = 0
      <4>1. e.c = 0
        BY <2>1, <3>2, CachedIs, EntriesAre
      <4>2. 0 \in promise[<<i, h>>]
        BY <1>1, <3>2, SectorsAre DEF StoredInv, EmptyPromised
      <4>3. QED BY <4>1, <4>2 DEF Behind
    <3>3. QED BY <3>1, <3>2
  <2>4. QED BY <1>1, <1>4, <2>2, <2>3 DEF Kept
<1>8. StoredSolid'
  <2>1. ASSUME NEW i \in Half, NEW e \in Stored(i)' PROVE Solid(e, i)'
    <3>1. e = Cached(i) /\ Cached(i)' = e
      BY <1>1, <2>1
    <3>2. QED BY <3>1 DEF Solid
  <2>2. QED BY <2>1 DEF StoredSolid
<1>9. PastReads'
  <2>1. \A i \in Half : Known(i) \subseteq EntrySet
    BY FiledIs
  <2>2. QED BY <1>4, <1>5, <2>1, StillKeepsPast DEF Kept
<1>10. QED BY <1>6, <1>7, <1>8, <1>9, StoredInvThen

(* A transfer changes what is behind an entry of the file only where the   *)
(* guest has nothing to lose, or by what it was promised.                  *)
LEMMA TransferKeepsStored ==
  ASSUME OnlyDataFails, AllInv, TabledInv, StoredInv, NEW w \in Cos, Progress(w),
         pc[w] \in {"data", "copy"}, pc'[w] \in {"wrote", "copied"},
         NEW c \in Clusters, NEW hs, Puts(c, hs), NEW from,
         \A h \in hs : /\ file'[Cell(c, h)] = from[h] /\ from[h] \in DataSet
                       /\ Possible(Cell(c, h))' \subseteq Possible(Cell(c, h)) \cup {from[h]},
         \A i \in Half, h \in Half : \A e \in Stored(i) : e.c = c /\ h \in hs =>
           \/ ~ Solid(e, i)
           \/ /\ from[h].v \in promise[<<i, h>>]
              /\ \A o \in Cos : Past(o) => from[h].v >= req[o].floor[<<i, h>>]
  PROVE  StoredInv'
<1>0. /\ UNCHANGED <<promise, req, snap>> /\ Possible(L1)' = Possible(L1)
      /\ \A i \in Half : /\ Stored(i)' = Stored(i) /\ Cached(i)' = Cached(i)
                         /\ Filed(i)' = Filed(i)
      /\ 0 \notin Clusters /\ c # 0
  BY ClustersAre DEF Puts
<1>1. ASSUME NEW e \in EntrySet, NEW h \in Half, e.c # c \/ h \notin hs PROVE Kept(e, h)
  <2>1. e.c \in Clusters \cup {0}
    BY EntriesAre
  <2>2. e.c # 0 => /\ file'[Cell(e.c, h)] = file[Cell(e.c, h)]
                   /\ Possible(Cell(e.c, h))' = Possible(Cell(e.c, h))
    BY <1>1, <2>1 DEF Puts
  <2>3. QED BY <2>2, BehindKept
<1>2. ASSUME NEW e, e.c = c, NEW h \in hs
      PROVE  /\ Sector(e, h)' = from[h] /\ Content(from[h]) = from[h].v /\ from[h].v \in Values
             /\ Behind(e, h)' \subseteq Behind(e, h) \cup {from[h].v}
  <2>1. from[h] \in DataSet /\ Content(from[h]) = from[h].v /\ from[h].v \in Values
    BY DataIs
  <2>2. Sector(e, h)' = file'[Cell(c, h)]
    BY <1>0, <1>2 DEF Sector
  <2>3. Behind(e, h)' = {Content(d) : d \in Possible(Cell(c, h))'}
    BY <1>0, <1>2 DEF Behind
  <2>4. Behind(e, h) = {Content(d) : d \in Possible(Cell(c, h))}
    BY <1>0, <1>2 DEF Behind
  <2>5. Possible(Cell(c, h))' \subseteq Possible(Cell(c, h)) \cup {from[h]}
    OBVIOUS
  <2>6. QED BY <2>1, <2>2, <2>3, <2>4, <2>5
<1>3. ASSUME NEW i \in Half PROVE Stored(i) \subseteq EntrySet /\ Filed(i) \in EntrySet
  BY FiledIs DEF Known
<1>4. \A i \in Half, h \in Half : \A e \in Stored(i) :
        ~ Solid(e, i) => /\ promise[<<i, h>>] = Values
                         /\ \A o \in Cos : Past(o) => req[o].floor[<<i, h>>] = -1
  BY DEF StoredInv, StoredSolid
<1>5. EmptyPromised'
  BY <1>0 DEF StoredInv, EmptyPromised
<1>6. StoredPromised'
  <2>1. SUFFICES ASSUME NEW i \in Half, NEW h \in Half, NEW e \in Stored(i)
                 PROVE  Behind(e, h)' \subseteq promise[<<i, h>>]
    BY <1>0 DEF StoredPromised
  <2>2. Behind(e, h) \subseteq promise[<<i, h>>]
    BY DEF StoredInv, StoredPromised
  <2>3. CASE e.c # c \/ h \notin hs
    BY <1>1, <1>3, <2>2, <2>3 DEF Kept
  <2>4. CASE e.c = c /\ h \in hs
    <3>1. from[h].v \in promise[<<i, h>>]
      BY <1>2, <1>4, <2>4
    <3>2. QED BY <1>2, <2>2, <2>4, <3>1
  <2>5. QED BY <2>3, <2>4
<1>7. StoredSolid'
  <2>1. SUFFICES ASSUME NEW i \in Half, NEW h \in Half, NEW e \in Stored(i), ~ Solid(e, i)'
                 PROVE  /\ promise[<<i, h>>] = Values
                        /\ \A o \in Cos : Past(o)' => req[o].floor[<<i, h>>] = -1
    BY <1>0 DEF StoredSolid
  <2>2. \A o \in Cos : pc[o] = "unlink" => pc'[o] = "unlink" /\ old'[o] = old[o]
    <3>1. SUFFICES ASSUME NEW o \in Cos, pc[o] = "unlink" PROVE pc'[o] = "unlink" /\ old'[o] = old[o]
      OBVIOUS
    <3>2. o # w
      BY <3>1
    <3>3. QED BY <3>1, <3>2, OthersStay
  <2>3. ~ Solid(e, i)
    BY <1>0, <2>1, <2>2, SolidSame
  <2>4. QED BY <1>4, <2>3, ProgressPast
<1>8. PastReads'
  <2>1. SUFFICES ASSUME NEW o \in Cos, Past(o)', NEW i \in Half, NEW h \in Half
                 PROVE  Content(Sector(Filed(i), h)') >= req[o].floor[<<i, h>>]
    BY <1>0 DEF PastReads, Content
  <2>2. Past(o) /\ Content(Sector(Filed(i), h)) >= req[o].floor[<<i, h>>]
    BY <2>1, ProgressPast DEF StoredInv, PastReads
  <2>3. PICK e \in EntrySet : e = Filed(i) /\ Filed(i)' = e
    BY <1>0, <1>3
  <2>4. Sector(Filed(i), h)' = Sector(e, h)'
    BY <2>3 DEF Sector
  <2>5. CASE e.c # c \/ h \notin hs
    <3>1. Sector(e, h)' = Sector(e, h)
      BY <1>1, <2>5 DEF Kept
    <3>2. QED BY <2>2, <2>3, <2>4, <3>1
  <2>6. CASE e.c = c /\ h \in hs
    <3>1. e \in Stored(i)
      <4>1. l1.c # 0
        BY <1>0, <2>3, <2>6, FiledIs, EntriesAre
      <4>2. QED BY <2>3, <4>1, FiledIs
    <3>2. Content(Sector(e, h)') = from[h].v /\ from[h].v \in Values
      BY <1>2, <2>6
    <3>3. from[h].v >= req[o].floor[<<i, h>>]
      <4>1. CASE Solid(e, i)
        BY <2>2, <2>6, <3>1, <4>1
      <4>2. CASE ~ Solid(e, i)
        <5>1. req[o].floor[<<i, h>>] = -1
          BY <1>4, <2>2, <3>1, <4>2
        <5>2. \A v \in Values : v >= -1
          BY QcowAssumption DEF Values
        <5>3. QED BY <3>2, <5>1, <5>2
      <4>3. QED BY <4>1, <4>2
    <3>4. QED BY <2>4, <3>2, <3>3
  <2>7. QED BY <2>5, <2>6
<1>9. QED BY <1>5, <1>6, <1>7, <1>8, StoredInvThen

(* The entries of the file that refer to a cluster that a request holds    *)
(* are stale.                                                              *)
LEMMA HeldStale ==
  ASSUME AllInv, NEW w \in Cos, Holds(w), NEW i \in Half, NEW e, e.c = m[w].c
  PROVE  ~ Solid(e, i)
<1>1. /\ m[w].c \in Clusters /\ ~ BySnap(m[w].c) /\ Cached(i).c # m[w].c /\ ~ Freeing(m[w].c)
      /\ 0 \notin Clusters
  BY HeldIs, ClustersAre
<1>2. QED BY <1>1 DEF Solid, Freeing

LEMMA HeldKeepsStored ==
  ASSUME OnlyDataFails, AllInv, TabledInv, StoredInv, NEW w \in Cos, Progress(w), Holds(w),
         pc[w] \in {"data", "copy"}, pc'[w] \in {"wrote", "copied"},
         NEW c, c = m[w].c, NEW hs, Puts(c, hs), NEW from,
         \A h \in hs : /\ file'[Cell(c, h)] = from[h] /\ from[h] \in DataSet
                       /\ Possible(Cell(c, h))' \subseteq Possible(Cell(c, h)) \cup {from[h]}
  PROVE  StoredInv'
<1>1. c \in Clusters
  BY HeldIs
<1>2. \A i \in Half : \A e \in Stored(i) : e.c = c => ~ Solid(e, i)
  BY HeldStale
<1>3. QED BY <1>1, <1>2, TransferKeepsStored

(* A cluster that is written in place belongs to one guest cluster.        *)
LEMMA PlaceKeepsStored ==
  ASSUME OnlyDataFails, AllInv, TabledInv, KindInv, PledgeInv, StoredInv,
         NEW w \in Cos, Progress(w), pc[w] = "data", pc'[w] = "wrote", ~ m[w].alloc,
         NEW g, g = req[w].g, NEW c, c = m[w].c, NEW v, v = req[w].v, NEW hs, hs = req[w].halves,
         Puts(c, hs),
         \A h \in hs : /\ file'[Cell(c, h)] = Data(v)
                       /\ Possible(Cell(c, h))' \subseteq Possible(Cell(c, h)) \cup {Data(v)}
  PROVE  StoredInv'
<1>1. /\ Cached(g) = Entry(c, "copied") /\ Cached(g).c = c /\ Cached(g).flag = "copied"
      /\ g \in Half /\ hs \subseteq Half
  <2>1. Cached(g) = Entry(c, "copied")
    BY RequestInvIs DEF AllInv, EntryOk
  <2>2. Cached(g).c = c /\ Cached(g).flag = "copied"
    BY <2>1, EntriesAre
  <2>3. g \in Half /\ hs \subseteq Half
    BY RequestIs
  <2>4. QED BY <2>1, <2>2, <2>3
<1>2. c \in Clusters
  BY <1>1, CopiedApart DEF Apart
<1>3. \A i \in Half : \A e \in Stored(i) : e.c = c => i = g
  <2>1. Cached(g) \in AllEntries
    BY <1>1 DEF AllEntries
  <2>2. Anywhere(c) <= 1
    BY <1>1, <2>1 DEF AllInv, CountsInv, PrivateInv
  <2>3. /\ g = 0 => Points(Stored(0) \cup {Cached(0)}, c)
        /\ g = 1 => Points(Stored(1) \cup {Cached(1)}, c)
    BY <1>1 DEF Points
  <2>4. ~ (Points(Stored(0) \cup {Cached(0)}, c) /\ Points(Stored(1) \cup {Cached(1)}, c))
    BY <2>2, SumZero DEF Anywhere
  <2>5. \A i \in Half : (\E e \in Stored(i) : e.c = c) => Points(Stored(i) \cup {Cached(i)}, c)
    BY DEF Points
  <2>6. QED BY <1>1, <2>3, <2>4, <2>5, HalfAre
<1>4. req[w].op = "write"
  BY DEF KindInv, RightPlace, Writing
<1>5. v \in Values
  <2>1. req[w] # NoRequest
    BY <1>4 DEF NoRequest
  <2>2. QED BY <2>1, RequestIs DEF ReqSet
<1>6. ASSUME NEW h \in hs
      PROVE  /\ v \in promise[<<g, h>>]
             /\ \A o \in Cos : Past(o) => v >= req[o].floor[<<g, h>>]
  <2>1. latest[<<g, h>>] < v /\ v \in promise[<<g, h>>]
    BY <1>4 DEF PledgeInv, Pledged, Touches
  <2>2. ASSUME NEW o \in Cos, Past(o) PROVE v >= req[o].floor[<<g, h>>]
    <3>1. h \in Half
      BY <1>1
    <3>2. /\ req[o].floor[<<g, h>>] <= latest[<<g, h>>]
          /\ req[o].floor[<<g, h>>] \in Values /\ latest[<<g, h>>] \in Values
      BY <1>1, <2>2, <3>1, PastFloor
    <3>3. \A n \in Values : n \in Int
      BY ValuesOk DEF ValuesAre
    <3>4. QED BY <1>5, <2>1, <3>2, <3>3
  <2>3. QED BY <2>1, <2>2
<1>7. PICK from : from = [h \in hs |-> Data(v)]
  OBVIOUS
<1>8. \A h \in hs : from[h] = Data(v) /\ from[h].v = v /\ from[h] \in DataSet
  BY <1>5, <1>7, DataIs
<1>9. \A h \in hs : /\ file'[Cell(c, h)] = from[h] /\ from[h] \in DataSet
                    /\ Possible(Cell(c, h))' \subseteq Possible(Cell(c, h)) \cup {from[h]}
  BY <1>8
<1>10. \A i \in Half, h \in Half : \A e \in Stored(i) : e.c = c /\ h \in hs =>
         /\ from[h].v \in promise[<<i, h>>]
         /\ \A o \in Cos : Past(o) => from[h].v >= req[o].floor[<<i, h>>]
  BY <1>3, <1>6, <1>8
<1>11. QED BY <1>2, <1>9, <1>10, TransferKeepsStored

LEMMA ProgressKeepsStored ==
  ASSUME OnlyDataFails, AllInv, TabledInv, ThroughInv, KindInv, PledgeInv, ShownInv, StoredInv,
         NEW w \in Cos, Progress(w)
  PROVE  StoredInv'
<1>0. PICK g, c, v, hs : g = req[w].g /\ c = m[w].c /\ v = req[w].v /\ hs = req[w].halves
  OBVIOUS
<1>1. CASE LinkL2(w)
  BY <1>1, LinkKeepsStored
<1>2. CASE Unmap(w)
  BY <1>2, UnmapKeepsStored
<1>3. CASE WriteL1Entry(w)
  BY <1>3, WriteL1KeepsStored
<1>4. CASE Still /\ ~ LinkL2(w) /\ ~ Unmap(w)
  BY <1>4, StillKeepsStored
<1>5. CASE WriteData(w)
  <2>1. pc[w] = "data" /\ ((Still /\ pc'[w] = "failed")
           \/ (/\ pc'[w] = "wrote" /\ Puts(c, req[w].halves)
               /\ \A h \in req[w].halves :
                    /\ file'[Cell(c, h)] = Data(req[w].v)
                    /\ Possible(Cell(c, h))' \subseteq Possible(Cell(c, h)) \cup {Data(req[w].v)}))
    BY <1>0, <1>5, WriteIs
  <2>2. CASE Still
    BY <1>1, <1>2, <1>4, <2>2
  <2>3. CASE /\ pc'[w] = "wrote" /\ Puts(c, req[w].halves)
             /\ \A h \in req[w].halves :
                  /\ file'[Cell(c, h)] = Data(req[w].v)
                  /\ Possible(Cell(c, h))' \subseteq Possible(Cell(c, h)) \cup {Data(req[w].v)}
    <3>1. Puts(c, hs) /\ \A h \in hs :
                  /\ file'[Cell(c, h)] = Data(v)
                  /\ Possible(Cell(c, h))' \subseteq Possible(Cell(c, h)) \cup {Data(v)}
      BY <1>0, <2>3
    <3>2. CASE ~ m[w].alloc
      BY <1>0, <2>1, <2>3, <3>1, <3>2, PlaceKeepsStored
    <3>3. CASE m[w].alloc
      <4>1. Holds(w)
        BY <2>1, <3>3 DEF Holds
      <4>2. req[w] \in ReqSet /\ req[w].op = "write"
        BY <2>1, RequestIs DEF KindInv, RightPlace, Writing
      <4>3. v \in Values /\ Data(v) \in DataSet
        <5>1. req[w] # NoRequest
          BY <4>2 DEF NoRequest
        <5>2. v \in Values
          BY <1>0, <4>2, <5>1 DEF ReqSet
        <5>3. QED BY <5>2, DataIs
      <4>4. PICK from : from = [h \in hs |-> Data(v)]
        OBVIOUS
      <4>5. \A h \in hs : /\ file'[Cell(c, h)] = from[h] /\ from[h] \in DataSet
                          /\ Possible(Cell(c, h))' \subseteq Possible(Cell(c, h)) \cup {from[h]}
        BY <3>1, <4>3, <4>4
      <4>6. Puts(c, hs) /\ c = m[w].c
        BY <1>0, <3>1
      <4>7. pc[w] \in {"data", "copy"} /\ pc'[w] \in {"wrote", "copied"}
        BY <2>1, <2>3
      <4>8. QED BY <4>1, <4>5, <4>6, <4>7, HeldKeepsStored
    <3>4. QED BY <3>2, <3>3
  <2>4. QED BY <2>1, <2>2, <2>3
<1>6. CASE CopySectors(w)
  <2>1. pc[w] = "copy" /\ ((Still /\ pc'[w] = "failed")
           \/ (/\ pc'[w] = "copied" /\ Puts(c, Rest(w))
               /\ \A h \in Rest(w) :
                    /\ file'[Cell(c, h)] = Shown(<<req[w].g, h>>)
                    /\ Possible(Cell(c, h))' \subseteq
                         Possible(Cell(c, h)) \cup {Shown(<<req[w].g, h>>)}))
    BY <1>0, <1>6, CopyIs
  <2>2. CASE Still
    BY <1>1, <1>2, <1>4, <2>2
  <2>3. CASE /\ pc'[w] = "copied" /\ Puts(c, Rest(w))
             /\ \A h \in Rest(w) :
                    /\ file'[Cell(c, h)] = Shown(<<req[w].g, h>>)
                    /\ Possible(Cell(c, h))' \subseteq
                         Possible(Cell(c, h)) \cup {Shown(<<req[w].g, h>>)}
    <3>1. PICK rest : rest = Rest(w)
      OBVIOUS
    <3>2. Holds(w)
      <4>1. m[w].alloc
        BY <2>1, RequestInvIs DEF AllInv, PlaceOk
      <4>2. QED BY <2>1, <4>1 DEF Holds
    <3>3. PICK from : from = [h \in rest |-> Shown(<<g, h>>)]
      OBVIOUS
    <3>4. g \in Half /\ rest \subseteq Half
      BY <1>0, <3>1, RequestIs DEF Rest
    <3>5. \A h \in rest : Shown(<<g, h>>) \in DataSet
      BY <3>4, SectorsAre, ShownIs
    <3>6. \A h \in rest : /\ file'[Cell(c, h)] = from[h] /\ from[h] \in DataSet
                          /\ Possible(Cell(c, h))' \subseteq Possible(Cell(c, h)) \cup {from[h]}
      BY <1>0, <2>3, <3>1, <3>3, <3>5
    <3>7. Puts(c, rest)
      BY <2>3, <3>1
    <3>8. QED BY <1>0, <2>1, <2>3, <3>2, <3>6, <3>7, HeldKeepsStored
  <2>4. QED BY <2>1, <2>2, <2>3
<1>7. QED BY <1>1, <1>2, <1>3, <1>4, <1>5, <1>6, ProgressStill

-----------------------------------------------------------------------------
(* The invariant, and the theorem.                                         *)

(* A step that changes nothing.                                            *)
LEMMA StutterSame ==
  ASSUME UNCHANGED vars
  PROVE  /\ UNCHANGED <<file, lost, writethrough, snap, refcount, l2, l1, dirty, depends,
                        lock, stack, ret, pc, req, m, old, promise, latest, count>>
         /\ \A u : Possible(u)' = Possible(u)
         /\ \A i : /\ Cached(i)' = Cached(i) /\ Stored(i)' = Stored(i)
                   /\ Known(i)' = Known(i) /\ Filed(i)' = Filed(i)
         /\ \A e, h : Behind(e, h)' = Behind(e, h) /\ Sector(e, h)' = Sector(e, h)
         /\ \A x : Shown(x)' = Shown(x)
<1>1. UNCHANGED <<file, lost, writethrough, snap, refcount, l2, l1, dirty, depends,
                  lock, stack, ret, pc, req, m, old, promise, latest, count>>
  BY DEF vars, image, caches, calls, requests, ghosts
<1>2. \A u : Possible(u)' = Possible(u)
  BY <1>1 DEF Possible
<1>3. \A i : Cached(i)' = Cached(i)
  BY <1>1 DEF Cached, Entries
<1>4. Tables' = Tables
  BY <1>2 DEF Tables
<1>5. \A i : Stored(i)' = Stored(i)
  BY <1>2, <1>4 DEF Stored
<1>6. \A i : Known(i)' = Known(i) /\ Filed(i)' = Filed(i)
  BY <1>1, <1>3, <1>5 DEF Known, Filed
<1>7. \A e, h : Behind(e, h)' = Behind(e, h) /\ Sector(e, h)' = Sector(e, h)
  BY <1>1, <1>2 DEF Behind, Sector
<1>8. \A x : Shown(x)' = Shown(x)
  BY <1>3, <1>7 DEF Shown
<1>9. QED BY <1>1, <1>2, <1>3, <1>5, <1>6, <1>7, <1>8

FlushedInv ==
  /\ AllInv /\ TabledInv /\ ThroughInv /\ KindInv /\ PledgeInv /\ ShownInv /\ StoredInv

LEMMA StutterKeepsFlushed ==
  ASSUME OnlyDataFails, FlushedInv, UNCHANGED vars
  PROVE  FlushedInv'
<1>0. /\ AllInv /\ TabledInv /\ ThroughInv /\ KindInv /\ PledgeInv /\ ShownInv /\ StoredInv
  BY DEF FlushedInv
<1>1. AllInv' /\ ThroughInv'
  BY <1>0, StutterKeepsAll, StepKeepsThrough
<1>2. \A c : (Freeing(c)' <=> Freeing(c)) /\ (BySnap(c)' <=> BySnap(c))
  BY StutterSame DEF Freeing, Updating, Outermost, BySnap
<1>3. TabledInv'
  <2> SUFFICES ASSUME NEW c \in Clusters, Tabled(c)' PROVE TableKept(c)'
    BY DEF TabledInv
  <2>1. Tabled(c)
    BY StutterSame DEF Tabled
  <2>2. TableKept(c)
    BY <1>0, <2>1 DEF TabledInv
  <2>3. \A w \in Cos : Holds(w)' <=> Holds(w)
    BY StutterSame DEF Holds
  <2>4. QED BY <1>2, <2>2, <2>3, StutterSame DEF TableKept
<1>4. KindInv'
  <2>1. AllEntries' = AllEntries
    BY StutterSame DEF AllEntries
  <2>2. EntriesKnown'
    BY <1>0, <1>2, <2>1, StutterSame DEF KindInv, EntriesKnown
  <2>3. ASSUME NEW w \in Cos PROVE RightPlace(w)' /\ OwnEntry(w)'
    <3>1. RightPlace(w)'
      BY <1>0, StutterSame DEF KindInv, RightPlace, Outermost
    <3>2. OwnEntry(w)
      BY <1>0 DEF KindInv
    <3>3. OwnEntry(w)'
      BY <1>2, <3>2, StutterSame DEF OwnEntry, OwnsEntry
    <3>4. QED BY <3>1, <3>3
  <2>4. QED BY <2>2, <2>3, KindInvThen
<1>5. PledgeInv'
  BY <1>0, StutterSame DEF PledgeInv, Numbered, Pledged, Touches
<1>6. ShownInv'
  <2>1. MayWrite' <=> MayWrite
    BY StutterSame DEF MayWrite, In, Top
  <2>2. ShownReads' /\ ShownPossible'
    BY <1>0, <2>1, StutterSame DEF ShownInv, ShownReads, ShownPossible
  <2>3. ASSUME NEW w \in Cos PROVE NewData(w)'
    <3>1. NewData(w)
      BY <1>0 DEF ShownInv
    <3>2. /\ HasData(w)' <=> HasData(w)
          /\ HasRest(w)' <=> HasRest(w)
          /\ IsLinked(w)' <=> IsLinked(w)
          /\ Rest(w)' = Rest(w)
      BY StutterSame DEF HasData, HasRest, IsLinked, Rest
    <3>3. QED BY <3>1, <3>2, StutterSame DEF NewData
  <2>4. QED BY <2>2, <2>3, ShownInvThen
<1>7. StoredInv'
  <2>1. \A w \in Cos : Past(w)' <=> Past(w)
    BY StutterSame DEF Past
  <2>2. \A e, i : Solid(e, i)' <=> Solid(e, i)
    BY <1>2, StutterSame DEF Solid
  <2>3. EmptyPromised' /\ StoredPromised'
    BY <1>0, StutterSame DEF StoredInv, EmptyPromised, StoredPromised
  <2>4. StoredSolid'
    BY <1>0, <2>1, <2>2, StutterSame DEF StoredInv, StoredSolid
  <2>5. PastReads'
    <3>1. ASSUME NEW i \in Half, NEW h \in Half
          PROVE  Content(Sector(Filed(i), h))' = Content(Sector(Filed(i), h))
      <4>1. Filed(i)' = Filed(i)
        BY StutterSame
      <4>2. Sector(Filed(i), h)' = Sector(Filed(i), h)
        BY <4>1, StutterSame DEF Sector
      <4>3. QED BY <4>2
    <3>2. QED BY <1>0, <2>1, <3>1, StutterSame DEF StoredInv, PastReads
  <2>6. QED BY <2>3, <2>4, <2>5, StoredInvThen
<1>8. QED BY <1>1, <1>3, <1>4, <1>5, <1>6, <1>7 DEF FlushedInv

LEMMA StepKeepsFlushed ==
  ASSUME OnlyDataFails, FlushedInv, [Next]_vars
  PROVE  FlushedInv'
<1>0. /\ AllInv /\ TabledInv /\ ThroughInv /\ KindInv /\ PledgeInv /\ ShownInv /\ StoredInv
  BY DEF FlushedInv
<1>1. CASE CallStep
  <2>1. AllInv' /\ TabledInv' /\ ThroughInv'
    BY <1>0, <1>1, CallKeepsAll, CallKeepsTabled, StepKeepsThrough
  <2>2. KindInv' /\ PledgeInv' /\ ShownInv' /\ StoredInv'
    BY <1>0, <1>1, CallKeepsKind, CallKeepsPledge, CallKeepsShown, CallKeepsStored
  <2>3. QED BY <2>1, <2>2 DEF FlushedInv
<1>2. ASSUME NEW w \in Cos, SubmitAny(w) PROVE FlushedInv'
  <2>1. AllInv' /\ TabledInv' /\ ThroughInv'
    BY <1>0, <1>2, SubmitKeepsAll, SubmitKeepsTabled, StepKeepsThrough
  <2>2. KindInv' /\ PledgeInv' /\ ShownInv' /\ StoredInv'
    BY <1>0, <1>2, SubmitKeepsKind, SubmitKeepsPledge, SubmitKeepsShown, SubmitKeepsStored
  <2>3. QED BY <2>1, <2>2 DEF FlushedInv
<1>3. ASSUME NEW w \in Cos, Progress(w) PROVE FlushedInv'
  <2>1. AllInv' /\ TabledInv' /\ ThroughInv'
    BY <1>0, <1>3, ProgressKeepsAll, ProgressKeepsTabled, StepKeepsThrough
  <2>2. KindInv' /\ PledgeInv' /\ ShownInv' /\ StoredInv'
    BY <1>0, <1>3, ProgressKeepsKind, ProgressKeepsPledge, ProgressKeepsShown, ProgressKeepsStored
  <2>3. QED BY <2>1, <2>2 DEF FlushedInv
<1>4. CASE Crash
  <2>1. AllInv' /\ TabledInv' /\ ThroughInv'
    BY <1>0, <1>4, CrashKeepsAll, CrashKeepsTabled, CrashImage, OpenedThroughNext
  <2>2. KindInv' /\ PledgeInv' /\ ShownInv' /\ StoredInv'
    BY <1>0, <1>4, CrashKeepsKind, CrashKeepsPledge, CrashKeepsFlushed
  <2>3. QED BY <2>1, <2>2 DEF FlushedInv
<1>5. CASE UNCHANGED vars
  BY <1>5, StutterKeepsFlushed
<1>6. QED BY <1>1, <1>2, <1>3, <1>4, <1>5 DEF Next

LEMMA InitFlushedInv ==
  ASSUME NoWritebackCompressed, Init
  PROVE  FlushedInv
<1>1. AllInv /\ TabledInv /\ ThroughInv
  BY InitAll, InitTabled, InitOpened, OpenedThrough
<1>2. KindInv /\ PledgeInv /\ ShownInv /\ StoredInv
  BY InitKind, InitPledge, InitFlushed
<1>3. QED BY <1>1, <1>2 DEF FlushedInv

LEMMA FlushedReads == FlushedInv => FlushedSurvives
<1> SUFFICES ASSUME FlushedInv, NEW img \in CrashImages, NEW x \in Sectors
             PROVE  Reads(img, img[L1].c, x[1], x[2]) \in promise[x]
  BY DEF FlushedSurvives
<1>0. AllInv /\ StoredInv /\ TypeInv
  BY DEF FlushedInv, AllInv
<1>1. \A u \in Units : img[u] \in Possible(u)
  BY <1>0, CrashImagesAre DEF TypeInv, ImageOk
<1>2. PICK i \in Half, h \in Half : x = <<i, h>> /\ x[1] = i /\ x[2] = h
  BY SectorsAre
<1>3. PICK t, v : t = img[L1].c /\ v = Reads(img, t, i, h)
  OBVIOUS
<1>4. \/ t = 0 /\ v = 0
      \/ \E e \in Stored(i) : v \in Behind(e, h)
  BY <1>0, <1>1, <1>3, ReadsBehind
<1>5. CASE t = 0 /\ v = 0
  <2>1. img[L1] \in Possible(L1)
    BY <1>1, UnitsAre
  <2>2. QED BY <1>0, <1>2, <1>3, <1>5, <2>1 DEF StoredInv, EmptyPromised
<1>6. CASE \E e \in Stored(i) : v \in Behind(e, h)
  BY <1>0, <1>2, <1>3, <1>6 DEF StoredInv, StoredPromised
<1>7. QED BY <1>4, <1>5, <1>6

LEMMA FlushedInvAlways ==
  ASSUME OnlyDataFails, NoWritebackCompressed
  PROVE  Spec => []FlushedInv
<1>1. Init => FlushedInv
  BY InitFlushedInv
<1>2. FlushedInv /\ [Next]_vars => FlushedInv'
  BY StepKeepsFlushed
<1>3. QED BY <1>1, <1>2, PTL DEF Spec

(* Whatever a crash leaves of the writes of block/qcow2*.c and of the      *)
(* caches that block/qcow2-cache.c orders, a sector reads as the last      *)
(* write that the guest flushed with bdrv_flush, or as one it made later.  *)
THEOREM FlushedAlwaysSurvives ==
  ASSUME OnlyDataFails, NoWritebackCompressed
  PROVE  Spec => []FlushedSurvives
BY FlushedInvAlways, FlushedReads, PTL
=============================================================================
