----------------------- MODULE IndexerCoverageProofs ------------------------
(* Proofs that the indexer loses nothing while the chain only grows: no    *)
(* crash, failed call, unsubscribe or restart of a scan makes the cursor   *)
(* pass an event of a ready vault, discovery pass a deploy, or a recorded  *)
(* event miss its effect.                                                  *)
EXTENDS IndexerProofs

(* The backfill of a vault found on the daemon reaches back at least as    *)
(* far as discovery looks behind the cursor.                               *)
BackfillReaches == ArchiveDiscovery \/ Margin <= BackfillBlocks

-----------------------------------------------------------------------------
(* The invariant                                                           *)

(* Which of the tick's loops is running, a sync being part of its caller.  *)
Stage == IF pc = "sync" THEN job.back ELSE pc

(* Each of v's events up to height n is recorded, or still in batch q.     *)
RecordedAt(e, h) == \E r \in raw : r.event = e /\ r.height = h

Owed(v, n, q) ==
  \A h \in DOMAIN archive : h <= n =>
    \A i \in DOMAIN archive[h].events :
      archive[h].events[i].vault = v =>
        \/ RecordedAt(archive[h].events[i], h)
        \/ InBatch(q, archive[h].events[i], h)

Covered(v, n) == Owed(v, n, <<>>)

(* The archive has a prefix of the daemon's chain, a vault's events come   *)
(* after its deploy, and every header is the chain's.                      *)
DeployedFirst(c) ==
  \A h \in DOMAIN c : \A i \in DOMAIN c[h].events :
    \E k \in 1..h : c[h].events[i].vault \in c[k].deploys

OneChain ==
  /\ archive = Prefix(daemon, Len(archive))
  /\ DeployedFirst(daemon)
  /\ \A h \in DOMAIN headers : h \in DOMAIN archive /\ headers[h] = Prefix(daemon, h)

(* Nothing is claimed of blocks the archive has not reported.              *)
Bounds ==
  /\ from \in Nat
  /\ indexed <= Len(archive) /\ latest <= Len(archive)
  /\ Stage \in Callers => indexed <= latest /\ from <= indexed + 1
  /\ \A v \in DOMAIN firstScans : firstScans[v].next <= Len(archive) + 1

(* A row that was deleted and created again has a larger id than any that  *)
(* a running tick or a first scan still holds.                             *)
OldId(v, id) ==
  /\ id \in Nat
  /\ v \in DOMAIN rows => id <= rows[v].id
  /\ v \notin DOMAIN rows => id < unsubscribes

Ids ==
  /\ \A v \in DOMAIN rows : rows[v].id <= unsubscribes
  /\ \A v \in DOMAIN firstScans : OldId(v, firstScans[v].id)
  /\ Stage \in {"rescan", "known"} => \A t \in todo : OldId(t[1], t[2])
  /\ pc = "sync" => OldId(job.vault, job.id)

Statuses ==
  \A v \in DOMAIN rows :
    (rows[v].ready => rows[v].synced) /\ (rows[v].synced => v \in Safe)

Waiting(v) == <<v, rows[v].id>> \in todo

(* A vault whose history was scanned has everything up to the cursor, a    *)
(* first scan everything below its next block.                             *)
ScannedCovered ==
  \A v \in DOMAIN rows :
    rows[v].synced /\ TrackedFromStart(v) => Covered(v, indexed)

ScansCovered ==
  \A v \in DOMAIN firstScans :
    /\ v \in DOMAIN rows
    /\ firstScans[v].id = rows[v].id
    /\ TrackedFromStart(v)
    => Covered(v, firstScans[v].next - 1)

(* A loop leaves no vault behind: what is no longer waiting has everything *)
(* up to the tip the tick read.                                            *)
DiscoverLoop ==
  Stage = "discover" /\ ~ArchiveDiscovery =>
    \A t \in todo : t[2] \in Nat /\ indexed <= t[2] + Margin

RescanLoop ==
  Stage = "rescan" =>
    \A v \in DOMAIN rows :
      /\ Waiting(v) /\ v \in DOMAIN firstScans => firstScans[v].id = rows[v].id
      /\ rows[v].synced /\ ~rows[v].ready /\ TrackedFromStart(v) /\ ~Waiting(v) =>
           Covered(v, latest)

KnownLoop ==
  Stage = "known" =>
    \A v \in DOMAIN rows :
      /\ Waiting(v) => rows[v].synced
      /\ rows[v].synced /\ TrackedFromStart(v) /\ ~Waiting(v) => Covered(v, latest)

(* A running sync still holds what it owes, and covers what its caller     *)
(* will take it to have covered.                                           *)
SyncOwes ==
  pc = "sync" =>
    /\ \A j \in DOMAIN job.batch :
         /\ job.batch[j].height \in DOMAIN archive
         /\ job.batch[j].hash = Prefix(daemon, job.batch[j].height)
    /\ job.to <= Len(archive)
    /\ Exists(job.vault, job.id) /\ TrackedFromStart(job.vault) =>
         Owed(job.vault, job.to, job.batch)
    /\ job.back = "discover" => job.to = indexed /\ job.finish
    /\ job.back # "discover" /\ job.finish => job.to = latest
    /\ ~job.finish => /\ job.back = "rescan"
                      /\ job.vault \in DOMAIN firstScans
                      /\ firstScans[job.vault].id = job.id
                      /\ Exists(job.vault, job.id) => ~rows[job.vault].synced

CoverInv ==
  /\ OneChain /\ Bounds /\ Ids /\ Statuses
  /\ ScannedCovered /\ ScansCovered
  /\ DiscoverLoop /\ RescanLoop /\ KnownLoop
  /\ SyncOwes

-----------------------------------------------------------------------------
(* What every step keeps                                                   *)

(* One chain extends another.                                              *)
Extends(c, d) == Len(c) <= Len(d) /\ c = Prefix(d, Len(c))

LEMMA ExtendsFacts ==
  ASSUME NEW B, NEW c \in Seq(B), NEW d \in Seq(B), Extends(c, d)
  PROVE  /\ DOMAIN c \subseteq DOMAIN d
         /\ \A h \in DOMAIN c : c[h] = d[h]
         /\ \A h \in DOMAIN c : Prefix(c, h) = Prefix(d, h)
<1>1. /\ Len(c) \in Nat /\ Len(d) \in Nat /\ Len(c) <= Len(d)
      /\ DOMAIN c = 1..Len(c) /\ DOMAIN d = 1..Len(d)
  BY DEF Extends
<1>2. ASSUME NEW h \in 1..Len(c) PROVE c[h] = d[h]
  <2>1. SubSeq(d, 1, Len(c))[h] = d[h]
    BY <1>1
  <2> QED BY <2>1 DEF Extends, Prefix
<1>3. ASSUME NEW h \in 1..Len(c) PROVE Prefix(c, h) = Prefix(d, h)
  <2>1. /\ SubSeq(c, 1, h) = [i \in 1..h |-> c[i]]
        /\ SubSeq(d, 1, h) = [i \in 1..h |-> d[i]]
    BY <1>1
  <2>2. \A i \in 1..h : c[i] = d[i]
    BY <1>1, <1>2
  <2> QED BY <2>1, <2>2 DEF Prefix
<1> QED BY <1>1, <1>2, <1>3

LEMMA ExtendsItself ==
  ASSUME NEW B, NEW c \in Seq(B)
  PROVE  Extends(c, c)
BY DEF Extends, Prefix

(* A row that a step carries over, with the vault's events, and a new row. *)
Carried(v) ==
  /\ v \in DOMAIN rows
  /\ rows'[v].id = rows[v].id
  /\ rows'[v].discoveredAt = rows[v].discoveredAt
  /\ \A r \in raw : r.event.vault = v => r \in raw'

Fresh(v) ==
  /\ v \notin DOMAIN rows
  /\ rows'[v].id = unsubscribes
  /\ ~rows'[v].synced /\ ~rows'[v].ready

(* What every step does while the chain only grows.                        *)
Grows ==
  /\ Extends(daemon, daemon') /\ Extends(archive, archive')
  /\ unsubscribes' \in Nat /\ unsubscribes <= unsubscribes'
  /\ \A v \in DOMAIN rows' : Carried(v) \/ Fresh(v)
  /\ \A v \in DOMAIN rows : v \in DOMAIN rows' \/ unsubscribes < unsubscribes'

StatusKept(v) ==
  rows'[v].synced = rows[v].synced /\ rows'[v].ready = rows[v].ready

LEMMA OwedKept ==
  ASSUME IndexerInv, IndexerInv', UNCHANGED env, Grows,
         NEW v \in DOMAIN rows', Carried(v),
         NEW n \in Int, n <= Len(archive), NEW q, Owed(v, n, q)
  PROVE  Owed(v, n, q)'
<1>1. archive \in Seq(Blocks) /\ archive' \in Seq(Blocks)
  BY EnvFixed DEF IndexerInv, Chains
<1>2. /\ DOMAIN archive \subseteq DOMAIN archive'
      /\ \A h \in DOMAIN archive : archive[h] = archive'[h]
  BY <1>1, ExtendsFacts DEF Grows
<1>3. ASSUME NEW h \in DOMAIN archive', h <= n,
             NEW i \in DOMAIN archive'[h].events, archive'[h].events[i].vault = v
      PROVE  \/ \E r \in raw' : r.event = archive'[h].events[i] /\ r.height = h
             \/ InBatch(q, archive'[h].events[i], h)
  <2>1. h \in DOMAIN archive
    BY <1>1, <1>3
  <2>2. archive[h] = archive'[h]
    BY <1>2, <2>1
  <2> DEFINE e == archive'[h].events[i]
  <2>3. RecordedAt(e, h) \/ InBatch(q, e, h)
    BY <1>3, <2>1, <2>2 DEF Owed
  <2>4. ASSUME RecordedAt(e, h) PROVE \E r \in raw' : r.event = e /\ r.height = h
    <3>1. PICK r \in raw : r.event = e /\ r.height = h
      BY <2>4 DEF RecordedAt
    <3>2. r \in raw'
      BY <1>3, <3>1 DEF Carried
    <3> QED BY <3>1, <3>2
  <2> QED BY <2>3, <2>4
<1> QED BY <1>3 DEF Owed, InBatch, RecordedAt

LEMMA TrackedKept ==
  ASSUME IndexerInv, IndexerInv', UNCHANGED env, Grows,
         NEW v \in DOMAIN rows', Carried(v), TrackedFromStart(v)'
  PROVE  TrackedFromStart(v)
<1>1. daemon \in Seq(Blocks) /\ daemon' \in Seq(Blocks)
  BY EnvFixed DEF IndexerInv, Chains
<1>2. /\ DOMAIN daemon \subseteq DOMAIN daemon'
      /\ \A h \in DOMAIN daemon : daemon[h] = daemon'[h]
  BY <1>1, ExtendsFacts DEF Grows
<1> QED BY <1>2 DEF TrackedFromStart, Carried

LEMMA OldIdKept ==
  ASSUME IndexerInv, IndexerInv', Ids, Grows, NEW v, NEW id, OldId(v, id)
  PROVE  OldId(v, id)' /\ (v \in DOMAIN rows' /\ rows'[v].id = id => Carried(v))
<1>1. /\ unsubscribes \in Nat /\ unsubscribes' \in Nat /\ id \in Nat
      /\ \A u \in DOMAIN rows : rows[u].id \in Nat /\ rows[u].id <= unsubscribes
  BY DEF IndexerInv, CheckedRows, Row, OldId, Ids
<1>2. CASE v \in DOMAIN rows'
  <2>1. CASE Carried(v)
    BY <1>1, <1>2, <2>1 DEF Carried, OldId
  <2>2. CASE Fresh(v)
    BY <1>1, <1>2, <2>2 DEF Fresh, OldId
  <2> QED BY <1>2, <2>1, <2>2 DEF Grows
<1>3. CASE v \notin DOMAIN rows'
  BY <1>1, <1>3 DEF Grows, OldId
<1> QED BY <1>2, <1>3

(* One row written, or one added, and no event forgotten.                  *)
LEMMA GrowsByWrite ==
  ASSUME IndexerInv, UNCHANGED <<daemon, archive, unsubscribes>>, raw \subseteq raw',
         NEW v \in DOMAIN rows, NEW w,
         w.id = rows[v].id, w.discoveredAt = rows[v].discoveredAt,
         rows' = [rows EXCEPT ![v] = w]
  PROVE  /\ Grows
         /\ DOMAIN rows' = DOMAIN rows
         /\ \A u \in DOMAIN rows : Carried(u) /\ (u # v => rows'[u] = rows[u])
         /\ rows'[v] = w
<1>1. DOMAIN rows' = DOMAIN rows /\ rows'[v] = w
  BY DEF IndexerInv, CheckedRows
<1>2. \A u \in DOMAIN rows : u # v => rows'[u] = rows[u]
  BY DEF IndexerInv, CheckedRows
<1>3. \A u \in DOMAIN rows : Carried(u)
  BY <1>1, <1>2 DEF Carried
<1>4. Extends(daemon, daemon') /\ Extends(archive, archive')
  BY ExtendsItself DEF IndexerInv, Chains
<1>5. Grows
  BY <1>1, <1>3, <1>4 DEF Grows, IndexerInv
<1> QED BY <1>1, <1>2, <1>3, <1>5

LEMMA GrowsByRow ==
  ASSUME IndexerInv, UNCHANGED <<daemon, archive, unsubscribes>>, raw \subseteq raw',
         NEW v, v \notin DOMAIN rows, NEW w,
         w.id = unsubscribes, ~w.synced, ~w.ready,
         rows' = WithRow(v, w)
  PROVE  /\ Grows
         /\ DOMAIN rows' = DOMAIN rows \cup {v}
         /\ \A u \in DOMAIN rows : Carried(u) /\ rows'[u] = rows[u]
         /\ rows'[v] = w
<1>1. DOMAIN rows' = DOMAIN rows \cup {v} /\ rows'[v] = w
  BY DEF WithRow
<1>2. \A u \in DOMAIN rows : rows'[u] = rows[u]
  BY DEF WithRow
<1>3. \A u \in DOMAIN rows : Carried(u)
  BY <1>1, <1>2 DEF Carried
<1>4. Fresh(v)
  BY <1>1 DEF Fresh
<1>5. Extends(daemon, daemon') /\ Extends(archive, archive')
  BY ExtendsItself DEF IndexerInv, Chains
<1>6. Grows
  BY <1>1, <1>3, <1>4, <1>5 DEF Grows, IndexerInv
<1> QED BY <1>1, <1>2, <1>3, <1>6

LEMMA GrowsStill ==
  ASSUME IndexerInv, UNCHANGED <<daemon, archive, unsubscribes, rows>>, raw \subseteq raw'
  PROVE  Grows /\ \A u \in DOMAIN rows : Carried(u)
<1>1. \A u \in DOMAIN rows : Carried(u)
  BY DEF Carried
<1>2. Extends(daemon, daemon') /\ Extends(archive, archive')
  BY ExtendsItself DEF IndexerInv, Chains
<1> QED BY <1>1, <1>2 DEF Grows, IndexerInv

(* Lengths are numbers, and what the archive has only grows.               *)
LEMMA Heights0 ==
  ASSUME IndexerInv, IndexerInv', UNCHANGED env, Grows
  PROVE  /\ Len(archive) \in Nat /\ Len(archive') \in Nat
         /\ Len(archive) <= Len(archive')
         /\ indexed \in Nat /\ indexed' \in Nat /\ latest \in Nat /\ latest' \in Nat
BY EnvFixed DEF IndexerInv, Chains, Grows, Extends

(* What is covered up to a cursor stays covered while the cursor stays.    *)
LEMMA TipOwedKept ==
  ASSUME IndexerInv, IndexerInv', UNCHANGED env, Bounds, Grows,
         NEW v \in DOMAIN rows', Carried(v)
  PROVE  /\ UNCHANGED indexed /\ Owed(v, indexed, <<>>) => Owed(v, indexed, <<>>)'
         /\ UNCHANGED latest /\ Owed(v, latest, <<>>) => Owed(v, latest, <<>>)'
<1>1. indexed \in Nat /\ latest \in Nat
  BY DEF IndexerInv
<1>2. PICK n, m : n = indexed /\ m = latest
  OBVIOUS
<1>3. Owed(v, n, <<>>) => Owed(v, n, <<>>)'
  BY <1>1, <1>2, OwedKept DEF Bounds
<1>4. Owed(v, m, <<>>) => Owed(v, m, <<>>)'
  BY <1>1, <1>2, OwedKept DEF Bounds
<1> QED BY <1>2, <1>3, <1>4

LEMMA ScanOwedKept ==
  ASSUME IndexerInv, IndexerInv', UNCHANGED env, Bounds, Grows,
         NEW v \in DOMAIN rows', Carried(v), v \in DOMAIN firstScans,
         v \in DOMAIN firstScans', firstScans'[v].next = firstScans[v].next,
         Owed(v, firstScans[v].next - 1, <<>>)
  PROVE  Owed(v, firstScans[v].next - 1, <<>>)'
<1>1. firstScans[v].next \in Nat /\ Len(archive) \in Nat
  BY DEF IndexerInv, Scans, Scan, Chains
<1>2. PICK n : n = firstScans[v].next - 1
  OBVIOUS
<1>3. n <= Len(archive) /\ n \in Int
  BY <1>1, <1>2 DEF Bounds
<1>4. Owed(v, n, <<>>)
  BY <1>2
<1>5. Owed(v, n, <<>>)'
  BY <1>3, <1>4, OwedKept
<1> QED BY <1>2, <1>5

(* A new row's id is not one that the tick holds.                          *)
LEMMA FreshNotWaiting ==
  ASSUME IndexerInv, Ids, Stage \in {"rescan", "known"}, UNCHANGED todo,
         NEW v, Fresh(v)
  PROVE  ~Waiting(v)'
<1> SUFFICES ASSUME <<v, unsubscribes>> \in todo PROVE FALSE
  BY DEF Fresh, Waiting
<1>1. OldId(v, unsubscribes)
  BY DEF Ids
<1> QED BY <1>1 DEF OldId, Fresh, IndexerInv

(* Everything but a running sync is kept by a step that leaves the tick's  *)
(* loop and the scans where they were; only discovery may drop candidates. *)
LoopKept ==
  /\ UNCHANGED <<env, indexed, latest, from, firstScans>>
  /\ Stage' = Stage
  /\ todo' = todo \/ (Stage = "discover" /\ todo' \subseteq todo)
  /\ \A v \in DOMAIN rows : v \in DOMAIN rows' => StatusKept(v)

LEMMA LoopStep ==
  ASSUME IndexerInv, IndexerInv', CoverInv, Grows, LoopKept,
         pc' = "sync" => OldId(job.vault, job.id)'
  PROVE  /\ Bounds' /\ Ids' /\ Statuses'
         /\ ScannedCovered' /\ ScansCovered'
         /\ DiscoverLoop' /\ RescanLoop' /\ KnownLoop'
<1> USE DEF LoopKept
<1>1. /\ Stage' = Stage /\ UNCHANGED env
      /\ Safe' = Safe /\ Margin' = Margin /\ ArchiveDiscovery' = ArchiveDiscovery
  BY DEF Stage, Safe, Margin, ArchiveDiscovery
<1>2. /\ Len(archive) \in Nat /\ Len(archive') \in Nat
      /\ Len(archive) <= Len(archive')
      /\ indexed \in Nat /\ latest \in Nat
  BY <1>1, Heights0
<1>3. \A v \in DOMAIN firstScans : firstScans[v].next \in Nat
  BY DEF IndexerInv, Scans, Scan
<1>4. Bounds'
  BY <1>1, <1>2, <1>3 DEF CoverInv, Bounds
<1>5. Ids /\ Bounds
  BY DEF CoverInv
<1>6. \A v \in DOMAIN rows : Carried(v) \/ v \notin DOMAIN rows'
  BY DEF Grows, Fresh
<1>7. Ids'
  <2>1. \A v \in DOMAIN rows' : rows'[v].id <= unsubscribes'
    <3>1. \A v \in DOMAIN rows : rows[v].id \in Nat /\ rows[v].id <= unsubscribes
      BY <1>5 DEF Ids, IndexerInv, CheckedRows, Row
    <3>2. unsubscribes \in Nat /\ unsubscribes' \in Nat /\ unsubscribes <= unsubscribes'
      BY DEF Grows, IndexerInv
    <3> QED BY <3>1, <3>2 DEF Grows, Carried, Fresh
  <2>2. ASSUME NEW v \in DOMAIN firstScans' PROVE OldId(v, firstScans[v].id)'
    <3>1. PICK id : id = firstScans[v].id
      OBVIOUS
    <3>2. OldId(v, id)
      BY <1>5, <3>1 DEF Ids
    <3>3. OldId(v, id)'
      BY <1>5, <3>2, OldIdKept
    <3> QED BY <3>1, <3>3
  <2>3. Stage' \in {"rescan", "known"} => \A x \in todo' : OldId(x[1], x[2])'
    BY <1>1, <1>5, OldIdKept DEF Ids
  <2> QED BY <2>1, <2>2, <2>3 DEF Ids
<1>8. Statuses'
  BY <1>1 DEF CoverInv, Statuses, Grows, Carried, Fresh, StatusKept
<1>9. ScannedCovered'
  <2> SUFFICES ASSUME NEW v \in DOMAIN rows', rows'[v].synced, TrackedFromStart(v)'
               PROVE  Covered(v, indexed)'
    BY DEF ScannedCovered
  <2>1. Carried(v) /\ v \in DOMAIN rows
    BY DEF Grows, Fresh, Carried
  <2>2. rows[v].synced /\ TrackedFromStart(v)
    BY <1>1, <2>1, TrackedKept DEF StatusKept
  <2>3. Owed(v, indexed, <<>>)
    BY <2>1, <2>2 DEF CoverInv, ScannedCovered, Covered
  <2> QED BY <1>1, <1>5, <2>1, <2>3, TipOwedKept DEF Covered
<1>10. ScansCovered'
  <2> SUFFICES ASSUME NEW v \in DOMAIN firstScans', v \in DOMAIN rows',
                      firstScans'[v].id = rows'[v].id, TrackedFromStart(v)'
               PROVE  Covered(v, firstScans[v].next - 1)'
    BY DEF ScansCovered
  <2>1. OldId(v, firstScans[v].id)
    BY <1>5 DEF Ids
  <2>2. Carried(v) /\ v \in DOMAIN rows
    BY <1>5, <2>1, OldIdKept DEF Carried
  <2>3. firstScans[v].id = rows[v].id /\ TrackedFromStart(v)
    BY <1>1, <2>2, TrackedKept DEF Carried
  <2>4. Owed(v, firstScans[v].next - 1, <<>>)
    BY <2>2, <2>3 DEF CoverInv, ScansCovered, Covered
  <2> QED BY <1>1, <1>5, <2>2, <2>4, ScanOwedKept DEF Covered
<1>11. DiscoverLoop'
  BY <1>1 DEF CoverInv, DiscoverLoop
<1>12. RescanLoop'
  <2> SUFFICES ASSUME Stage' = "rescan", NEW v \in DOMAIN rows'
               PROVE  /\ Waiting(v)' /\ v \in DOMAIN firstScans' =>
                           firstScans'[v].id = rows'[v].id
                      /\ rows'[v].synced /\ ~rows'[v].ready /\ TrackedFromStart(v)'
                           /\ ~Waiting(v)' => Covered(v, latest)'
    BY DEF RescanLoop
  <2>1. CASE Fresh(v)
    BY <1>1, <1>5, <2>1, FreshNotWaiting DEF Fresh
  <2>2. CASE Carried(v)
    <3>1. /\ v \in DOMAIN rows /\ Waiting(v)' = Waiting(v) /\ rows'[v].id = rows[v].id
          /\ StatusKept(v)
      BY <2>2 DEF Carried, Waiting
    <3>2. TrackedFromStart(v)' => TrackedFromStart(v)
      BY <1>1, <2>2, TrackedKept
    <3>3. Covered(v, latest) => Covered(v, latest)'
      BY <1>1, <1>2, <1>5, <2>2, TipOwedKept DEF Covered
    <3> QED BY <1>1, <3>1, <3>2, <3>3 DEF CoverInv, RescanLoop, StatusKept
  <2> QED BY <2>1, <2>2 DEF Grows
<1>13. KnownLoop'
  <2> SUFFICES ASSUME Stage' = "known", NEW v \in DOMAIN rows'
               PROVE  /\ Waiting(v)' => rows'[v].synced
                      /\ rows'[v].synced /\ TrackedFromStart(v)' /\ ~Waiting(v)' =>
                           Covered(v, latest)'
    BY DEF KnownLoop
  <2>1. CASE Fresh(v)
    BY <1>1, <1>5, <2>1, FreshNotWaiting DEF Fresh
  <2>2. CASE Carried(v)
    <3>1. /\ v \in DOMAIN rows /\ Waiting(v)' = Waiting(v) /\ StatusKept(v)
      BY <2>2 DEF Carried, Waiting
    <3>2. TrackedFromStart(v)' => TrackedFromStart(v)
      BY <1>1, <2>2, TrackedKept
    <3>3. Covered(v, latest) => Covered(v, latest)'
      BY <1>1, <1>2, <1>5, <2>2, TipOwedKept DEF Covered
    <3> QED BY <1>1, <3>1, <3>2, <3>3 DEF CoverInv, KnownLoop, StatusKept
  <2> QED BY <2>1, <2>2 DEF Grows
<1> QED BY <1>4, <1>7, <1>8, <1>9, <1>10, <1>11, <1>12, <1>13

TickKept ==
  /\ UNCHANGED <<env, indexed, latest, from, firstScans, todo, pc>>
  /\ job'.vault = job.vault /\ job'.id = job.id /\ job'.back = job.back
  /\ \A v \in DOMAIN rows : v \in DOMAIN rows' => StatusKept(v)

LEMMA QuietStep ==
  ASSUME IndexerInv, IndexerInv', CoverInv, Grows, TickKept
  PROVE  /\ Bounds' /\ Ids' /\ Statuses'
         /\ ScannedCovered' /\ ScansCovered'
         /\ DiscoverLoop' /\ RescanLoop' /\ KnownLoop'
<1>1. LoopKept
  BY DEF TickKept, LoopKept, Stage
<1>2. ASSUME pc' = "sync" PROVE OldId(job.vault, job.id)'
  <2>1. PICK v, id : v = job.vault /\ id = job.id
    OBVIOUS
  <2>2. Ids /\ OldId(v, id)
    BY <1>2, <2>1 DEF CoverInv, Ids, TickKept
  <2>3. OldId(v, id)'
    BY <2>2, OldIdKept
  <2> QED BY <2>1, <2>3 DEF TickKept
<1> QED BY <1>1, <1>2, LoopStep

-----------------------------------------------------------------------------
(* Steps of the chain and of the routes                                    *)

LEMMA PrefixSame ==
  ASSUME NEW B, NEW c \in Seq(B), NEW d \in Seq(B), Extends(c, d), NEW h \in DOMAIN c
  PROVE  Prefix(d, h) = Prefix(c, h)
BY ExtendsFacts

(* A sync that a step does not touch still owes what it owed.              *)
LEMMA SyncOwesKept ==
  ASSUME IndexerInv, IndexerInv', CoverInv, Grows, TickKept, UNCHANGED job
  PROVE  SyncOwes'
<1> SUFFICES ASSUME pc = "sync" PROVE SyncOwes'
  BY DEF SyncOwes, TickKept
<1>1. /\ UNCHANGED <<env, indexed, latest, firstScans>>
  BY DEF TickKept
<1>2. /\ daemon \in Seq(Blocks) /\ daemon' \in Seq(Blocks)
      /\ archive \in Seq(Blocks) /\ archive' \in Seq(Blocks)
      /\ Len(archive) <= Len(daemon)
  BY <1>1, EnvFixed DEF IndexerInv, Chains
<1>3. SyncOwes /\ Ids /\ job \in JobOn(job.vault)
  BY DEF CoverInv, IndexerInv, SyncChecked
<1>4. ASSUME NEW j \in DOMAIN job.batch
      PROVE  /\ job.batch[j].height \in DOMAIN archive'
             /\ job.batch[j].hash = Prefix(daemon', job.batch[j].height)
  <2>1. /\ job.batch[j].height \in DOMAIN archive
        /\ job.batch[j].hash = Prefix(daemon, job.batch[j].height)
    BY <1>3 DEF SyncOwes
  <2>2. DOMAIN archive \subseteq DOMAIN archive'
    BY <1>2, ExtendsFacts DEF Grows
  <2>3. DOMAIN archive \subseteq DOMAIN daemon
    BY <1>2
  <2>4. Prefix(daemon', job.batch[j].height) = Prefix(daemon, job.batch[j].height)
    BY <1>2, <2>1, <2>3, PrefixSame DEF Grows
  <2> QED BY <2>1, <2>2, <2>4
<1>5. job.to \in Nat /\ job.to <= Len(archive) /\ Len(archive) <= Len(archive')
  BY <1>2, <1>3 DEF SyncOwes, JobOn, Grows, Extends
<1>6. ASSUME Exists(job.vault, job.id)', TrackedFromStart(job.vault)'
      PROVE  Owed(job.vault, job.to, job.batch)'
  <2>1. PICK v, id, n, q : v = job.vault /\ id = job.id /\ n = job.to /\ q = job.batch
    OBVIOUS
  <2>2. v \in DOMAIN rows' /\ rows'[v].id = id
    BY <1>6, <2>1 DEF Exists
  <2>3. OldId(v, id)
    BY <1>3, <2>1 DEF Ids
  <2>4. Carried(v)
    BY <1>3, <2>2, <2>3, OldIdKept
  <2>5. Exists(v, id)
    BY <2>2, <2>4 DEF Exists, Carried
  <2>6. TrackedFromStart(v)'
    BY <1>6, <2>1
  <2>7. TrackedFromStart(v)
    BY <1>1, <2>2, <2>4, <2>6, TrackedKept
  <2>8. Owed(v, n, q)
    BY <1>3, <2>1, <2>5, <2>7 DEF SyncOwes
  <2>9. n \in Int /\ n <= Len(archive)
    BY <1>5, <2>1
  <2>10. Owed(v, n, q)'
    BY <1>1, <2>2, <2>4, <2>8, <2>9, OwedKept
  <2> QED BY <2>1, <2>10
<1>7. ASSUME ~job.finish, Exists(job.vault, job.id)' PROVE ~rows'[job.vault].synced
  <2>1. OldId(job.vault, job.id) /\ job.vault \in DOMAIN rows' /\ rows'[job.vault].id = job.id
    BY <1>3, <1>7 DEF Ids, Exists
  <2>2. Carried(job.vault)
    BY <1>3, <2>1, OldIdKept
  <2> QED BY <1>3, <1>7, <2>1, <2>2 DEF SyncOwes, TickKept, StatusKept, Carried, Exists
<1> QED BY <1>1, <1>2, <1>3, <1>4, <1>5, <1>6, <1>7 DEF SyncOwes

(* The chain after a step that writes no header.                           *)
LEMMA OneChainKept ==
  ASSUME IndexerInv, IndexerInv', UNCHANGED <<env, headers>>, OneChain,
         Extends(daemon, daemon'), Extends(archive, archive'),
         archive' = Prefix(daemon', Len(archive')), DeployedFirst(daemon')
  PROVE  OneChain'
<1>1. /\ daemon \in Seq(Blocks) /\ daemon' \in Seq(Blocks)
      /\ archive \in Seq(Blocks) /\ archive' \in Seq(Blocks)
      /\ Len(archive) <= Len(daemon)
  BY EnvFixed DEF IndexerInv, Chains
<1>2. DOMAIN archive \subseteq DOMAIN archive' /\ DOMAIN archive \subseteq DOMAIN daemon
  BY <1>1, ExtendsFacts
<1>3. ASSUME NEW h \in DOMAIN headers
      PROVE  h \in DOMAIN archive' /\ headers[h] = Prefix(daemon', h)
  <2>1. h \in DOMAIN archive /\ headers[h] = Prefix(daemon, h)
    BY DEF OneChain
  <2> QED BY <1>1, <1>2, <2>1, PrefixSame
<1> QED BY <1>3 DEF OneChain

LEMMA ExtendsAppend ==
  ASSUME NEW B, NEW c \in Seq(B), NEW b \in B
  PROVE  /\ Extends(c, Append(c, b))
         /\ \A n \in 0..Len(c) : Prefix(Append(c, b), n) = Prefix(c, n)
<1> DEFINE d == Append(c, b)
<1>1. /\ d \in Seq(B) /\ Len(d) = Len(c) + 1 /\ Len(c) \in Nat
      /\ \A i \in 1..Len(c) : d[i] = c[i]
  OBVIOUS
<1> HIDE DEF d
<1>2. ASSUME NEW n \in 0..Len(c) PROVE Prefix(d, n) = Prefix(c, n)
  <2>1. /\ SubSeq(c, 1, n) = [i \in 1..n |-> c[i]]
        /\ SubSeq(d, 1, n) = [i \in 1..n |-> d[i]]
    BY <1>1
  <2>2. \A i \in 1..n : c[i] = d[i]
    BY <1>1
  <2> QED BY <2>1, <2>2 DEF Prefix
<1>3. Prefix(c, Len(c)) = c
  BY DEF Prefix
<1>4. Extends(c, d)
  BY <1>1, <1>2, <1>3 DEF Extends
<1> QED BY <1>2, <1>4 DEF d

LEMMA PrefixExtends ==
  ASSUME NEW B, NEW d \in Seq(B), NEW n \in 0..Len(d), NEW m \in 0..n
  PROVE  /\ Prefix(d, n) \in Seq(B) /\ Len(Prefix(d, n)) = n
         /\ Extends(Prefix(d, m), Prefix(d, n))
<1> DEFINE x == Prefix(d, n)
           y == Prefix(d, m)
<1>1. n \in Nat /\ m \in Nat /\ Len(d) \in Nat /\ n <= Len(d) /\ m <= n
  OBVIOUS
<1>2. /\ x \in Seq(B) /\ Len(x) = n /\ \A i \in 1..n : x[i] = d[i]
      /\ y \in Seq(B) /\ Len(y) = m /\ y = [i \in 1..m |-> d[i]]
  BY <1>1 DEF Prefix
<1> HIDE DEF x, y
<1>3. SubSeq(x, 1, m) = [i \in 1..m |-> x[i]]
  BY <1>1, <1>2
<1>4. y = SubSeq(x, 1, m)
  BY <1>1, <1>2, <1>3
<1>5. Extends(y, x)
  BY <1>1, <1>2, <1>4 DEF Extends, Prefix
<1> QED BY <1>2, <1>5 DEF x, y

LEMMA MineCovers ==
  ASSUME IndexerInv, IndexerInv', UNCHANGED env, CoverInv,
         NEW b \in Blocks, MineBlock(b)
  PROVE  CoverInv'
<1>1. /\ daemon \in Seq(Blocks) /\ archive \in Seq(Blocks)
      /\ Len(archive) <= Len(daemon) /\ Len(archive) \in Nat /\ Len(daemon) \in Nat
  BY DEF IndexerInv, Chains
<1>2. /\ daemon' = Append(daemon, b) /\ ValidOn(daemon, b)
      /\ UNCHANGED <<archive, headers, raw, rows, indexed, latest, from, firstScans,
                     todo, pc, job, unsubscribes>>
  BY DEF MineBlock, cursors, local, budgets
<1>3. /\ Extends(daemon, daemon') /\ Extends(archive, archive')
      /\ Prefix(daemon', Len(archive)) = Prefix(daemon, Len(archive))
  <2>1. Len(archive) \in 0..Len(daemon)
    BY <1>1
  <2> QED BY <1>1, <1>2, <2>1, ExtendsAppend, ExtendsItself
<1>4. DeployedFirst(daemon')
  <2> SUFFICES ASSUME NEW h \in DOMAIN daemon', NEW i \in DOMAIN daemon'[h].events
               PROVE  \E k \in 1..h : daemon'[h].events[i].vault \in daemon'[k].deploys
    BY DEF DeployedFirst
  <2>1. /\ DOMAIN daemon' = 1..(Len(daemon) + 1) /\ DOMAIN daemon = 1..Len(daemon)
        /\ \A k \in 1..Len(daemon) : daemon'[k] = daemon[k]
        /\ daemon'[Len(daemon) + 1] = b
    BY <1>1, <1>2
  <2>2. CASE h \in DOMAIN daemon
    <3>1. daemon'[h] = daemon[h]
      BY <2>1, <2>2
    <3>2. PICK k \in 1..h : daemon[h].events[i].vault \in daemon[k].deploys
      BY <2>2, <3>1 DEF CoverInv, OneChain, DeployedFirst
    <3>3. k \in 1..Len(daemon)
      BY <1>1, <2>1, <2>2
    <3> QED BY <2>1, <3>1, <3>2, <3>3
  <2>3. CASE h = Len(daemon) + 1
    <3>1. daemon'[h] = b /\ h \in 1..h
      BY <1>1, <2>1, <2>3
    <3> DEFINE e == b.events[i]
    <3>2. e.vault \in b.deploys \/ Deployed(daemon, e.vault)
      BY <1>2, <3>1 DEF ValidOn, CanEmit
    <3>3. CASE e.vault \in b.deploys
      BY <3>1, <3>3
    <3>4. CASE Deployed(daemon, e.vault)
      <4>1. PICK k \in DOMAIN daemon : e.vault \in daemon[k].deploys
        BY <3>4 DEF Deployed
      <4>2. k \in 1..h /\ daemon'[k] = daemon[k]
        BY <1>1, <2>1, <2>3, <4>1
      <4> QED BY <3>1, <4>1, <4>2
    <3> QED BY <3>2, <3>3, <3>4
  <2> QED BY <1>1, <2>1, <2>2, <2>3
<1>5. OneChain'
  BY <1>2, <1>3, <1>4, OneChainKept DEF CoverInv, OneChain
<1>6. Grows /\ TickKept
  <2>1. \A v \in DOMAIN rows : Carried(v) /\ StatusKept(v)
    BY <1>2 DEF Carried, StatusKept
  <2> QED BY <1>2, <1>3, <2>1 DEF Grows, TickKept, IndexerInv
<1> QED BY <1>2, <1>5, <1>6, QuietStep, SyncOwesKept DEF CoverInv

LEMMA ArchiveCovers ==
  ASSUME IndexerInv, IndexerInv', UNCHANGED env, CoverInv, ArchiveIngest
  PROVE  CoverInv'
<1>1. /\ daemon \in Seq(Blocks) /\ archive \in Seq(Blocks)
      /\ Len(archive) \in Nat /\ Len(daemon) \in Nat
  BY DEF IndexerInv, Chains
<1>2. /\ archive' = Prefix(daemon, Len(archive) + 1) /\ Len(archive) < Len(daemon)
      /\ UNCHANGED <<daemon, headers, raw, rows, indexed, latest, from, firstScans,
                     todo, pc, job, unsubscribes>>
  BY DEF ArchiveIngest, cursors, local, budgets
<1>3. /\ Extends(daemon, daemon') /\ Extends(archive, archive')
      /\ archive' = Prefix(daemon', Len(archive'))
  <2>1. Len(archive) + 1 \in 0..Len(daemon) /\ Len(archive) \in 0..(Len(archive) + 1)
    BY <1>1, <1>2
  <2>2. archive = Prefix(daemon, Len(archive))
    BY DEF CoverInv, OneChain
  <2> QED BY <1>1, <1>2, <2>1, <2>2, PrefixExtends, ExtendsItself
<1>4. OneChain'
  BY <1>2, <1>3, OneChainKept DEF CoverInv, OneChain
<1>5. Grows /\ TickKept
  <2>1. \A v \in DOMAIN rows : Carried(v) /\ StatusKept(v)
    BY <1>2 DEF Carried, StatusKept
  <2> QED BY <1>2, <1>3, <2>1 DEF Grows, TickKept, IndexerInv
<1> QED BY <1>2, <1>4, <1>5, QuietStep, SyncOwesKept DEF CoverInv

LEMMA OneChainStill ==
  ASSUME OneChain, UNCHANGED <<daemon, archive, headers>>
  PROVE  OneChain'
BY DEF OneChain

(* A route adds one row, changes none but the account check of one, or     *)
(* deletes rows and takes a new id for the next.                           *)
LEMMA RouteGrows ==
  ASSUME IndexerInv, Routes
  PROVE  Grows /\ \A u \in DOMAIN rows : u \in DOMAIN rows' => StatusKept(u)
<1>1. \/ \E v \in Subscribable, b \in 0..MaxHeight : SubscribeFrom(v, b)
      \/ \E v \in Subscribable : SubscribeNew(v)
      \/ \E v \in Subscribable : Unsubscribe(v)
      \/ UnsubscribeFails
      \/ \E v \in DOMAIN rows : DeleteContract(v)
  BY DEF Routes
<1>2. UNCHANGED <<daemon, archive>>
  BY <1>1 DEF SubscribeFrom, SubscribeNew, Unsubscribe, UnsubscribeFails, DeleteContract,
     nodes
<1>3. \A h, p, b : NewRow(h, p, b).id = unsubscribes /\ ~NewRow(h, p, b).synced
                                                   /\ ~NewRow(h, p, b).ready
  BY DEF NewRow
<1>4. ASSUME NEW v, NEW w, v \notin DOMAIN rows, w.id = unsubscribes, ~w.synced, ~w.ready,
             rows' = WithRow(v, w), UNCHANGED <<raw, unsubscribes>>
      PROVE  Grows /\ \A u \in DOMAIN rows : u \in DOMAIN rows' => StatusKept(u)
  <2>1. Grows /\ \A u \in DOMAIN rows : rows'[u] = rows[u]
    BY <1>2, <1>4, GrowsByRow
  <2> QED BY <2>1 DEF StatusKept
<1>5. ASSUME NEW v \in Subscribable, NEW b \in 0..MaxHeight, SubscribeFrom(v, b)
      PROVE  Grows /\ \A u \in DOMAIN rows : u \in DOMAIN rows' => StatusKept(u)
  <2>1. SubscribeFrom(v, b)
    BY <1>5
  <2>2. UNCHANGED <<raw, unsubscribes>>
    BY <2>1 DEF SubscribeFrom, budgets
  <2>3. CASE v \in DOMAIN rows
    <3> DEFINE w == [rows[v] EXCEPT !.verified = TRUE]
    <3>1. rows[v] \in Row
      BY <2>3 DEF IndexerInv, CheckedRows
    <3>2. /\ w.id = rows[v].id /\ w.discoveredAt = rows[v].discoveredAt
          /\ w.synced = rows[v].synced /\ w.ready = rows[v].ready
      BY <3>1 DEF Row
    <3>3. rows' = [rows EXCEPT ![v] = w]
      BY <2>1, <2>3 DEF SubscribeFrom
    <3> HIDE DEF w
    <3>4. /\ Grows /\ rows'[v] = w
          /\ \A u \in DOMAIN rows : u # v => rows'[u] = rows[u]
      BY <1>2, <2>2, <2>3, <3>2, <3>3, GrowsByWrite
    <3> QED BY <3>2, <3>4 DEF StatusKept
  <2>4. CASE v \notin DOMAIN rows
    <3>1. rows' = WithRow(v, NewRow(b, Nothing, TRUE))
      BY <2>1, <2>4 DEF SubscribeFrom
    <3> QED BY <1>3, <1>4, <2>2, <2>4, <3>1
  <2> QED BY <2>3, <2>4
<1>6. ASSUME NEW v \in Subscribable, SubscribeNew(v)
      PROVE  Grows /\ \A u \in DOMAIN rows : u \in DOMAIN rows' => StatusKept(u)
  <2>1. /\ rows' = WithRow(v, NewRow(Larger(0, Len(archive) - Margin), Nothing, FALSE))
        /\ v \notin DOMAIN rows /\ UNCHANGED <<raw, unsubscribes>>
    BY <1>6 DEF SubscribeNew, budgets
  <2> QED BY <1>3, <1>4, <2>1
<1>7. ASSUME NEW v \in DOMAIN rows, DeleteContract(v)
      PROVE  Grows /\ \A u \in DOMAIN rows : u \in DOMAIN rows' => StatusKept(u)
  <2> DEFINE gone == {v}
  <2>1. /\ rows' = [u \in DOMAIN rows \ gone |-> rows[u]]
        /\ raw' = {r \in raw : r.event.vault \notin gone}
        /\ unsubscribes' = unsubscribes + 1
    BY <1>7 DEF DeleteContract, DeleteEvents
  <2>2. unsubscribes' \in Nat /\ unsubscribes < unsubscribes' /\ unsubscribes <= unsubscribes'
    BY <2>1 DEF IndexerInv
  <2> HIDE DEF gone
  <2>3. DOMAIN rows' = DOMAIN rows \ gone /\ \A u \in DOMAIN rows' : rows'[u] = rows[u]
    BY <2>1
  <2>4. ASSUME NEW u \in DOMAIN rows' PROVE Carried(u) /\ StatusKept(u)
    <3>1. u \in DOMAIN rows /\ u \notin gone /\ rows'[u] = rows[u]
      BY <2>3
    <3>2. \A r \in raw : r.event.vault = u => r \in raw'
      BY <2>1, <3>1
    <3> QED BY <3>1, <3>2 DEF Carried, StatusKept
  <2>5. Extends(daemon, daemon') /\ Extends(archive, archive')
    BY <1>2, ExtendsItself DEF IndexerInv, Chains
  <2> QED BY <2>2, <2>4, <2>5 DEF Grows
<1>8. CASE UnsubscribeFails \/ \E v \in Subscribable : Unsubscribe(v)
  <2>1. UNCHANGED <<raw, rows, unsubscribes>>
    BY <1>8 DEF UnsubscribeFails, Unsubscribe, budgets
  <2>2. \A u \in DOMAIN rows : Carried(u) /\ StatusKept(u)
    BY <2>1 DEF Carried, StatusKept
  <2>3. Extends(daemon, daemon') /\ Extends(archive, archive')
    BY <1>2, ExtendsItself DEF IndexerInv, Chains
  <2> QED BY <2>1, <2>2, <2>3 DEF Grows, IndexerInv
<1> QED BY <1>1, <1>5, <1>6, <1>7, <1>8

LEMMA RouteCovers ==
  ASSUME IndexerInv, IndexerInv', UNCHANGED env, CoverInv, Routes
  PROVE  CoverInv'
<1>1. UNCHANGED <<daemon, archive, headers, indexed, latest, from, firstScans, pc, todo,
                  job>>
  BY DEF Routes, SubscribeFrom, SubscribeNew, Unsubscribe, UnsubscribeFails,
         DeleteContract, nodes, cursors, local
<1>2. Grows /\ \A u \in DOMAIN rows : u \in DOMAIN rows' => StatusKept(u)
  BY RouteGrows
<1> QED BY <1>1, <1>2, OneChainStill, QuietStep, SyncOwesKept DEF CoverInv, TickKept

-----------------------------------------------------------------------------
(* Steps of a sync                                                         *)

(* Applying an event changes no status, and may add a child's row.         *)
LEMMA ApplyGrows ==
  ASSUME IndexerInv, UNCHANGED <<daemon, archive, unsubscribes>>, raw \subseteq raw',
         NEW v \in DOMAIN rows, NEW item \in Item(v), NEW order, ApplyEvent(item, order)
  PROVE  Grows /\ \A u \in DOMAIN rows : u \in DOMAIN rows' => StatusKept(u)
<1>1. item.event.vault = v
  BY DEF Item
<1>2. CASE ApplySetup(item, order)
  <2> DEFINE w == [rows[v] EXCEPT !.parent = Parent[v]]
  <2>1. rows[v] \in Row
    BY DEF IndexerInv, CheckedRows
  <2>2. /\ w.id = rows[v].id /\ w.discoveredAt = rows[v].discoveredAt
        /\ w.synced = rows[v].synced /\ w.ready = rows[v].ready
    BY <2>1 DEF Row
  <2>3. rows' = [rows EXCEPT ![v] = w]
    BY <1>1, <1>2 DEF ApplySetup
  <2> HIDE DEF w
  <2>4. /\ Grows /\ rows'[v] = w
        /\ \A u \in DOMAIN rows : u # v => rows'[u] = rows[u]
    BY <2>2, <2>3, GrowsByWrite
  <2> QED BY <2>2, <2>4 DEF StatusKept
<1>3. CASE UNCHANGED rows
  BY <1>3, GrowsStill DEF StatusKept
<1>4. CASE ApplyProposal(item)
  <2> DEFINE c == item.event.child
             w == NewRow(item.height, item.event.vault, FALSE)
  <2>1. rows' = rows \/ (c \notin DOMAIN rows /\ rows' = WithRow(c, w))
    BY <1>4 DEF ApplyProposal
  <2>2. w.id = unsubscribes /\ ~w.synced /\ ~w.ready
    BY DEF NewRow
  <2> HIDE DEF w, c
  <2>3. CASE c \notin DOMAIN rows /\ rows' = WithRow(c, w)
    <3>1. Grows /\ \A u \in DOMAIN rows : rows'[u] = rows[u]
      BY <2>2, <2>3, GrowsByRow
    <3> QED BY <3>1 DEF StatusKept
  <2> QED BY <1>3, <2>1, <2>3
<1> QED BY <1>2, <1>3, <1>4
        DEF ApplyEvent, ApplyConfigChange, ApplyApproval, ApplyExecution

LEMMA IngestKeepsRow ==
  ASSUME Grows, UNCHANGED unsubscribes, unsubscribes \in Nat, NEW v \in DOMAIN rows
  PROVE  v \in DOMAIN rows'
BY DEF Grows

LEMMA IngestCovers ==
  ASSUME IndexerInv, IndexerInv', UNCHANGED env, CoverInv, IngestEvent
  PROVE  CoverInv'
<1> DEFINE item == Head(job.batch)
           v == job.vault
           q == job.batch
<1>1. /\ pc = "sync" /\ q # <<>> /\ Exists(v, job.id)
      /\ UNCHANGED <<daemon, archive, indexed, latest, from, todo, pc, unsubscribes,
                     firstScans>>
  BY DEF IngestEvent, nodes, cursors, local, budgets
<1>2. job \in JobOn(v) /\ v \in DOMAIN rows
  BY <1>1 DEF IndexerInv, SyncChecked, Exists
<1>3. q \in Seq(Item(v)) /\ job.seq \in Nat /\ job.ingested \in BOOLEAN
  BY <1>2 DEF JobOn
<1>4. item \in Item(v) /\ item = q[1] /\ 1 \in DOMAIN q
  <2> HIDE DEF v, q
  <2> QED BY <1>1, <1>3 DEF q
<1>5. /\ job'.vault = v /\ job'.id = job.id /\ job'.back = job.back
      /\ job'.batch = Tail(q) /\ job'.to = job.to /\ job'.finish = job.finish
  BY <1>2 DEF IngestEvent, JobOn
<1>6. /\ raw \subseteq raw'
      /\ \E r \in raw' : r.event = item.event /\ r.height = item.height
  <2>1. CASE Recorded(item)
    BY <2>1 DEF IngestEvent, Recorded
  <2>2. CASE ~Recorded(item)
    <3>1. raw' = raw \cup {[event |-> item.event, height |-> item.height,
                            applied |-> Decodes(item.event)]}
      BY <2>2 DEF IngestEvent, RecordEvent
    <3> DEFINE r == [event |-> item.event, height |-> item.height,
                     applied |-> Decodes(item.event)]
    <3>2. r.event = item.event /\ r.height = item.height
      OBVIOUS
    <3>3. raw' = raw \cup {r}
      BY <3>1
    <3> HIDE DEF r, item
    <3> QED BY <3>2, <3>3
  <2> QED BY <2>1, <2>2
<1>7. Grows /\ \A u \in DOMAIN rows : u \in DOMAIN rows' => StatusKept(u)
  <2>1. UNCHANGED rows \/ ApplyEvent(item, job.seq)
    BY DEF IngestEvent
  <2>2. CASE UNCHANGED rows
    BY <1>1, <1>6, <2>2, GrowsStill DEF StatusKept
  <2>3. CASE ApplyEvent(item, job.seq)
    BY <1>1, <1>2, <1>4, <1>6, <2>3, ApplyGrows
  <2> QED BY <2>1, <2>2, <2>3
<1>8. TickKept
  BY <1>1, <1>5, <1>7 DEF TickKept
<1>9. SyncOwes
  BY DEF CoverInv
<1>10. item.height \in DOMAIN archive /\ item.hash = Prefix(daemon, item.height)
  BY <1>1, <1>4, <1>9 DEF SyncOwes
<1>11. OneChain'
  <2>1. \/ UNCHANGED headers
        \/ headers' = [h \in DOMAIN headers \cup {item.height} |->
                         IF h \in DOMAIN headers THEN headers[h] ELSE item.hash]
    BY DEF IngestEvent, RecordEvent
  <2> HIDE DEF item
  <2>2. \A h \in DOMAIN headers' : h \in DOMAIN archive /\ headers'[h] = Prefix(daemon, h)
    BY <1>10, <2>1 DEF CoverInv, OneChain
  <2> QED BY <1>1, <2>2 DEF CoverInv, OneChain
<1>12. SyncOwes'
  <2>1. /\ DOMAIN q = 1..Len(q) /\ Len(q) \in Nat
        /\ DOMAIN Tail(q) = 1..(Len(q) - 1)
        /\ \A j \in 1..(Len(q) - 1) : Tail(q)[j] = q[j + 1] /\ j + 1 \in DOMAIN q
        /\ \A j \in 2..Len(q) : j - 1 \in 1..(Len(q) - 1)
    <3> HIDE DEF q
    <3> QED BY <1>1, <1>3
  <2>2. \A j \in DOMAIN Tail(q) :
          /\ Tail(q)[j].height \in DOMAIN archive
          /\ Tail(q)[j].hash = Prefix(daemon, Tail(q)[j].height)
    <3> HIDE DEF q
    <3> QED BY <1>1, <1>9, <2>1 DEF SyncOwes, q
  <2>3. ASSUME Exists(v, job.id)', TrackedFromStart(v)'
        PROVE  Owed(job.vault, job.to, job.batch)'
    <3>1. PICK u, n, s : u = v /\ n = job.to /\ s = q
      OBVIOUS
    <3>2. Carried(u) /\ u \in DOMAIN rows'
      BY <1>1, <1>2, <1>7, <2>3, <3>1 DEF Grows, Fresh, Carried, Exists
    <3>3. TrackedFromStart(u)
      BY <1>5, <1>7, <2>3, <3>1, <3>2, TrackedKept
    <3>4. Owed(u, n, s)
      BY <1>1, <1>9, <3>1, <3>3 DEF SyncOwes
    <3>5. Owed(u, n, s)'
      <4>1. n \in Int /\ n <= Len(archive)
        BY <1>1, <1>2, <1>9, <3>1 DEF JobOn, SyncOwes
      <4> QED BY <1>7, <3>2, <3>4, <4>1, OwedKept
    <3>6. ASSUME NEW e, NEW h, InBatch(s, e, h)
          PROVE  InBatch(Tail(s), e, h) \/ \E r \in raw' : r.event = e /\ r.height = h
      <4>1. PICK j \in DOMAIN s : s[j].event = e /\ s[j].height = h
        BY <3>6 DEF InBatch
      <4>2. CASE j = 1
        BY <1>4, <1>6, <3>1, <4>1, <4>2
      <4>3. CASE j # 1
        <5>1. j - 1 \in DOMAIN Tail(s) /\ Tail(s)[j - 1] = s[j]
          BY <2>1, <3>1, <4>3
        <5> QED BY <4>1, <5>1 DEF InBatch
      <4> QED BY <4>2, <4>3
    <3>7. Owed(u, n, Tail(s))'
      <4> DEFINE Ev(h, i) == archive'[h].events[i]
      <4>1. ASSUME NEW h \in DOMAIN archive', h <= n, NEW i \in DOMAIN archive'[h].events,
                   Ev(h, i).vault = u
            PROVE  \/ \E r \in raw' : r.event = Ev(h, i) /\ r.height = h
                   \/ InBatch(Tail(s), Ev(h, i), h)
        <5>1. \/ \E r \in raw' : r.event = Ev(h, i) /\ r.height = h
              \/ InBatch(s, Ev(h, i), h)
          BY <3>5, <4>1 DEF Owed, RecordedAt, InBatch
        <5> HIDE DEF Ev
        <5> QED BY <3>6, <5>1
      <4> QED BY <4>1 DEF Owed, RecordedAt, InBatch
    <3>8. job'.vault = u /\ job'.to = n /\ job'.batch = Tail(s)
      BY <1>5, <3>1
    <3> QED BY <3>7, <3>8
  <2>4. ~job.finish => ~rows'[v].synced
    <3>1. v \in DOMAIN rows'
      BY <1>1, <1>2, <1>7, IngestKeepsRow DEF IndexerInv
    <3> QED BY <1>1, <1>2, <1>7, <1>9, <3>1 DEF SyncOwes, StatusKept
  <2> QED BY <1>1, <1>5, <1>9, <2>2, <2>3, <2>4 DEF SyncOwes
<1> QED BY <1>7, <1>8, <1>11, <1>12, QuietStep DEF CoverInv

LEMMA OwedLess ==
  ASSUME NEW v, NEW n \in Int, NEW m \in Int, m <= n, Covered(v, n), archive \in Seq(Blocks)
  PROVE  Covered(v, m)
BY DEF Covered, Owed

(* The end of a sync: the vault is covered up to where the sync went.      *)
LEMMA FinishCovers ==
  ASSUME IndexerInv, IndexerInv', UNCHANGED env, CoverInv, FinishSync
  PROVE  CoverInv'
<1>0. PICK v, id : v = job.vault /\ id = job.id
  OBVIOUS
<1> USE <1>0
<1>1. /\ pc = "sync" /\ job.batch = <<>> /\ pc' = job.back
      /\ UNCHANGED <<daemon, archive, headers, raw, indexed, latest, from, unsubscribes>>
      /\ job.finish => Exists(v, id) /\ MarkSynced(v)
      /\ ~job.finish => UNCHANGED rows
  BY DEF FinishSync, nodes, cursors, local, budgets
<1>2. job \in JobOn(v) /\ v \in Safe
  BY <1>1 DEF IndexerInv, SyncChecked
<1>3. /\ job.to \in Nat /\ job.back \in Callers /\ job.finish \in BOOLEAN
      /\ id \in Nat /\ job.stored \in BOOLEAN
  BY <1>2 DEF JobOn
<1>4. /\ Stage = job.back /\ Stage' = Stage /\ pc' # "sync"
      /\ Safe' = Safe /\ Margin' = Margin /\ ArchiveDiscovery' = ArchiveDiscovery
  BY <1>1, <1>3 DEF Stage, Callers, Safe, Margin, ArchiveDiscovery
<1>5. /\ SyncOwes /\ Ids /\ Bounds /\ Statuses
      /\ indexed \in Nat /\ latest \in Nat /\ indexed <= latest
      /\ archive \in Seq(Blocks) /\ Len(archive) \in Nat
  BY <1>3, <1>4 DEF CoverInv, Bounds, IndexerInv, Chains
<1>6. Exists(v, id) /\ TrackedFromStart(v) => Covered(v, job.to)
  BY <1>1, <1>5 DEF SyncOwes, Covered
<1>7. /\ Grows /\ DOMAIN rows' = DOMAIN rows
      /\ \A u \in DOMAIN rows : Carried(u) /\ (u # v => rows'[u] = rows[u])
      /\ job.finish => v \in DOMAIN rows /\ rows'[v].synced
  <2>1. CASE ~job.finish
    BY <1>1, <2>1, GrowsStill
  <2>2. CASE job.finish
    <3>1. v \in DOMAIN rows /\ rows[v] \in Row
      BY <1>1, <2>2 DEF Exists, IndexerInv, CheckedRows
    <3> DEFINE b == rows[v].ready \/ job.ingested \/ (job.stored /\ HasApplied(v))
               w == [rows[v] EXCEPT !.synced = TRUE, !.ready = b]
    <3>2. w.id = rows[v].id /\ w.discoveredAt = rows[v].discoveredAt /\ w.synced
      BY <3>1 DEF Row
    <3>3. rows' = [rows EXCEPT ![v] = w]
      BY <1>1, <2>2 DEF MarkSynced
    <3> HIDE DEF w
    <3>4. /\ Grows /\ DOMAIN rows' = DOMAIN rows /\ rows'[v] = w
          /\ \A u \in DOMAIN rows : Carried(u) /\ (u # v => rows'[u] = rows[u])
      BY <1>1, <3>1, <3>2, <3>3, GrowsByWrite
    <3> QED BY <3>1, <3>2, <3>4
  <2> QED BY <1>3, <2>1, <2>2
<1>8. \A u \in DOMAIN rows : TrackedFromStart(u)' => TrackedFromStart(u)
  BY <1>7, TrackedKept
<1>9. \A u \in DOMAIN rows : \A n \in Int :
        n <= Len(archive) /\ Covered(u, n) => Covered(u, n)'
  BY <1>7, OwedKept DEF Covered
<1>10. /\ DOMAIN firstScans' \subseteq DOMAIN firstScans
       /\ \A u \in DOMAIN firstScans' :
            /\ firstScans'[u].id = firstScans[u].id
            /\ u # v \/ job.finish => firstScans'[u] = firstScans[u]
            /\ u = v /\ ~job.finish => firstScans'[u].next = job.to + 1
  <2>1. firstScans \in [DOMAIN firstScans -> Scan]
    BY DEF IndexerInv, Scans
  <2>2. CASE ~job.finish
    <3>1. firstScans' = [firstScans EXCEPT ![v].next = job.to + 1]
      BY <2>2 DEF FinishSync
    <3>2. v \in DOMAIN firstScans /\ firstScans[v] \in Scan
      BY <1>1, <1>5, <2>1, <2>2 DEF SyncOwes
    <3>3. /\ DOMAIN firstScans' = DOMAIN firstScans
          /\ firstScans'[v] = [firstScans[v] EXCEPT !.next = job.to + 1]
          /\ \A u \in DOMAIN firstScans : u # v => firstScans'[u] = firstScans[u]
      BY <3>1, <3>2
    <3>4. firstScans'[v].id = firstScans[v].id /\ firstScans'[v].next = job.to + 1
      BY <3>2, <3>3 DEF Scan
    <3> QED BY <2>2, <3>3, <3>4
  <2>3. CASE job.finish
    <3>1. firstScans' = Forget(v) \/ firstScans' = firstScans
      BY <2>3 DEF FinishSync
    <3> QED BY <2>3, <3>1 DEF Forget
  <2> QED BY <1>3, <2>2, <2>3
<1>11. /\ todo' \subseteq todo
       /\ \A x \in todo : x # <<v, id>> => x \in todo'
       /\ job.finish => <<v, id>> \notin todo'
  BY DEF FinishSync
<1>12. Bounds'
  <2>1. ASSUME NEW u \in DOMAIN firstScans' PROVE firstScans'[u].next <= Len(archive) + 1
    <3>1. firstScans'[u].next = firstScans[u].next \/ firstScans'[u].next = job.to + 1
      BY <1>3, <1>10
    <3>2. job.to <= Len(archive) /\ firstScans[u].next <= Len(archive) + 1
      BY <1>1, <1>5, <1>10 DEF SyncOwes, Bounds
    <3> QED BY <1>3, <1>5, <3>1, <3>2
  <2> QED BY <1>1, <1>4, <1>5, <2>1 DEF Bounds
<1>13. Ids'
  <2>1. ASSUME NEW u, NEW n, OldId(u, n) PROVE OldId(u, n)'
    BY <1>5, <1>7, <2>1, OldIdKept
  <2>2. \A u \in DOMAIN rows' : rows'[u].id <= unsubscribes'
    BY <1>1, <1>5, <1>7 DEF Ids, Carried
  <2>3. ASSUME NEW u \in DOMAIN firstScans' PROVE OldId(u, firstScans[u].id)'
    <3>1. PICK n : n = firstScans[u].id
      OBVIOUS
    <3>2. OldId(u, n) /\ n = firstScans'[u].id
      BY <1>5, <1>10, <3>1 DEF Ids
    <3>3. OldId(u, n)'
      BY <2>1, <3>2
    <3> QED BY <3>2, <3>3
  <2>4. Stage' \in {"rescan", "known"} => \A x \in todo' : OldId(x[1], x[2])'
    BY <1>4, <1>5, <1>11, <2>1 DEF Ids
  <2> QED BY <1>4, <2>2, <2>3, <2>4 DEF Ids
<1>14. Statuses'
  <2>1. \A u \in DOMAIN rows : u # v => rows'[u] = rows[u]
    BY <1>7
  <2>2. v \in DOMAIN rows => rows'[v].synced \/ rows'[v] = rows[v]
    BY <1>1, <1>3, <1>7
  <2> QED BY <1>2, <1>4, <1>5, <1>7, <2>1, <2>2 DEF Statuses
<1>15. job.finish /\ TrackedFromStart(v)' =>
          Covered(v, indexed)' /\ (job.back # "discover" => Covered(v, latest)')
  <2> SUFFICES ASSUME job.finish, TrackedFromStart(v)'
               PROVE  Covered(v, indexed)' /\ (job.back # "discover" => Covered(v, latest)')
    OBVIOUS
  <2>1. PICK n, k : n = indexed /\ k = latest
    OBVIOUS
  <2>2. v \in DOMAIN rows /\ Covered(v, job.to)
    BY <1>1, <1>6, <1>7, <1>8
  <2>3. n \in Int /\ k \in Int /\ n <= Len(archive) /\ k <= Len(archive) /\ n <= k
    BY <1>5, <2>1 DEF Bounds
  <2>4. job.to = IF job.back = "discover" THEN n ELSE k
    BY <1>1, <1>5, <2>1 DEF SyncOwes
  <2>5. Covered(v, n) /\ (job.back # "discover" => Covered(v, k))
    <3>1. CASE job.back = "discover"
      BY <2>2, <2>4, <3>1
    <3>2. CASE job.back # "discover"
      <4>1. Covered(v, k)
        BY <2>2, <2>4, <3>2
      <4> QED BY <1>5, <2>3, <4>1, OwedLess
    <3> QED BY <3>1, <3>2
  <2>6. Covered(v, n)' /\ (job.back # "discover" => Covered(v, k)')
    BY <1>9, <2>2, <2>3, <2>5
  <2> QED BY <1>1, <2>1, <2>6
<1>16. \A u \in DOMAIN rows :
         /\ Covered(u, indexed) => Covered(u, indexed)'
         /\ Covered(u, latest) => Covered(u, latest)'
  <2>1. PICK n, k : n = indexed /\ k = latest
    OBVIOUS
  <2>2. n \in Int /\ k \in Int /\ n <= Len(archive) /\ k <= Len(archive)
    BY <1>5, <2>1 DEF Bounds
  <2>3. n = indexed' /\ k = latest'
    BY <1>1, <2>1
  <2> QED BY <1>9, <2>1, <2>2, <2>3
<1>17. ScannedCovered'
  <2> SUFFICES ASSUME NEW u \in DOMAIN rows', rows'[u].synced, TrackedFromStart(u)'
               PROVE  Covered(u, indexed)'
    BY DEF ScannedCovered
  <2>1. CASE u = v /\ job.finish
    BY <1>15, <2>1
  <2>2. CASE ~(u = v /\ job.finish)
    <3>1. u \in DOMAIN rows /\ rows'[u] = rows[u]
      BY <1>1, <1>3, <1>7, <2>2
    <3>2. Covered(u, indexed)
      BY <1>8, <3>1 DEF CoverInv, ScannedCovered
    <3> QED BY <1>16, <3>1, <3>2
  <2> QED BY <2>1, <2>2
<1>18. ScansCovered'
  <2> SUFFICES ASSUME NEW u \in DOMAIN firstScans', u \in DOMAIN rows',
                      firstScans'[u].id = rows'[u].id, TrackedFromStart(u)'
               PROVE  Covered(u, firstScans[u].next - 1)'
    BY DEF ScansCovered
  <2>1. /\ u \in DOMAIN firstScans /\ u \in DOMAIN rows
        /\ firstScans[u].id = rows[u].id /\ TrackedFromStart(u)
    BY <1>7, <1>8, <1>10 DEF Carried
  <2>2. PICK n : n = firstScans'[u].next - 1
    OBVIOUS
  <2>3. CASE u = v /\ ~job.finish
    <3>1. n = job.to /\ n \in Int /\ n <= Len(archive)
      BY <1>1, <1>3, <1>5, <1>10, <2>2, <2>3 DEF SyncOwes
    <3>2. Exists(v, id)
      BY <1>1, <1>5, <2>1, <2>3 DEF SyncOwes, Exists
    <3>3. Covered(u, n)
      BY <1>6, <2>1, <2>3, <3>1, <3>2
    <3>4. Covered(u, n)'
      BY <1>9, <2>1, <3>1, <3>3
    <3> QED BY <2>2, <3>4
  <2>4. CASE ~(u = v /\ ~job.finish)
    <3>1. firstScans'[u] = firstScans[u]
      BY <1>3, <1>10, <2>4
    <3>2. firstScans[u].next \in Nat
      BY <2>1 DEF IndexerInv, Scans, Scan
    <3>3. n \in Int /\ n <= Len(archive)
      BY <1>5, <2>1, <2>2, <3>1, <3>2 DEF Bounds
    <3>4. Covered(u, n)
      BY <2>1, <2>2, <3>1 DEF CoverInv, ScansCovered
    <3>5. Covered(u, n)'
      BY <1>9, <2>1, <3>3, <3>4
    <3> QED BY <2>2, <3>5
  <2> QED BY <2>3, <2>4
<1>19. DiscoverLoop'
  BY <1>1, <1>4, <1>11 DEF CoverInv, DiscoverLoop
<1>20. \A u \in DOMAIN rows : Waiting(u)' => Waiting(u)
  BY <1>7, <1>11 DEF Waiting, Carried
<1>21. \A u \in DOMAIN rows : u # v /\ Waiting(u) => Waiting(u)'
  BY <1>7, <1>11 DEF Waiting, Carried
<1>22. RescanLoop'
  <2> SUFFICES ASSUME Stage' = "rescan", NEW u \in DOMAIN rows'
               PROVE  /\ Waiting(u)' /\ u \in DOMAIN firstScans' =>
                           firstScans'[u].id = rows'[u].id
                      /\ rows'[u].synced /\ ~rows'[u].ready /\ TrackedFromStart(u)'
                           /\ ~Waiting(u)' => Covered(u, latest)'
    BY DEF RescanLoop
  <2>1. u \in DOMAIN rows /\ rows'[u].id = rows[u].id
    BY <1>7 DEF Carried
  <2>2. Waiting(u)' /\ u \in DOMAIN firstScans' => firstScans'[u].id = rows'[u].id
    BY <1>4, <1>10, <1>20, <2>1 DEF CoverInv, RescanLoop
  <2>3. ASSUME rows'[u].synced, ~rows'[u].ready, TrackedFromStart(u)', ~Waiting(u)'
        PROVE  Covered(u, latest)'
    <3>1. CASE u = v /\ job.finish
      BY <1>4, <1>15, <2>3, <3>1
    <3>2. CASE ~(u = v /\ job.finish)
      <4>1. rows'[u] = rows[u]
        BY <1>1, <1>3, <1>7, <2>1, <3>2
      <4>2. ~Waiting(u)
        <5>1. CASE u # v
          BY <1>21, <2>1, <2>3, <5>1
        <5>2. CASE u = v
          <6>1. ~job.finish /\ rows[u].synced
            BY <1>3, <2>3, <3>2, <4>1, <5>2
          <6>2. rows[u].id # id
            BY <1>1, <1>5, <2>1, <5>2, <6>1 DEF SyncOwes, Exists
          <6> QED BY <1>11, <2>1, <2>3, <6>2 DEF Waiting
        <5> QED BY <5>1, <5>2
      <4>3. Covered(u, latest)
        BY <1>4, <1>8, <2>1, <2>3, <4>1, <4>2 DEF CoverInv, RescanLoop
      <4> QED BY <1>16, <2>1, <4>3
    <3> QED BY <3>1, <3>2
  <2> QED BY <2>2, <2>3
<1>23. KnownLoop'
  <2> SUFFICES ASSUME Stage' = "known", NEW u \in DOMAIN rows'
               PROVE  /\ Waiting(u)' => rows'[u].synced
                      /\ rows'[u].synced /\ TrackedFromStart(u)' /\ ~Waiting(u)' =>
                           Covered(u, latest)'
    BY DEF KnownLoop
  <2>1. job.finish
    BY <1>1, <1>3, <1>4, <1>5 DEF SyncOwes
  <2>2. CASE u = v
    BY <1>4, <1>7, <1>15, <2>1, <2>2
  <2>3. CASE u # v
    <3>1. u \in DOMAIN rows /\ rows'[u] = rows[u] /\ Waiting(u)' = Waiting(u)
      BY <1>7, <1>20, <1>21, <2>3 DEF Waiting
    <3> QED BY <1>4, <1>8, <1>16, <3>1 DEF CoverInv, KnownLoop
  <2> QED BY <2>2, <2>3
<1>24. OneChain' /\ SyncOwes'
  BY <1>1, <1>4, OneChainStill DEF CoverInv, SyncOwes
<1> QED BY <1>12, <1>13, <1>14, <1>17, <1>18, <1>19, <1>22, <1>23, <1>24 DEF CoverInv

-----------------------------------------------------------------------------
(* Steps that move the tick and write nothing                              *)

Still ==
  /\ UNCHANGED <<env, daemon, archive, headers, raw, rows, unsubscribes>>
  /\ DOMAIN firstScans' \subseteq DOMAIN firstScans
  /\ \A u \in DOMAIN firstScans' : firstScans'[u] = firstScans[u]

LEMMA StillFacts ==
  ASSUME Still
  PROVE  /\ \A u : TrackedFromStart(u)' = TrackedFromStart(u)
         /\ \A u, n : Covered(u, n)' = Covered(u, n)
         /\ \A u, n : OldId(u, n)' = OldId(u, n)
         /\ Safe' = Safe /\ Margin' = Margin /\ ArchiveDiscovery' = ArchiveDiscovery
<1>1. \A u : TrackedFromStart(u)' = TrackedFromStart(u)
  BY DEF Still, TrackedFromStart
<1>2. \A u, n : Covered(u, n)' = Covered(u, n)
  BY DEF Still, Covered, Owed, RecordedAt, InBatch
<1>3. \A u, n : OldId(u, n)' = OldId(u, n)
  BY DEF Still, OldId
<1> QED BY <1>1, <1>2, <1>3 DEF Still, Safe, Margin, ArchiveDiscovery

(* What does not depend on where the tick is.                              *)
ScanBounds ==
  \A v \in DOMAIN firstScans : firstScans[v].next <= Len(archive) + 1

RowIds ==
  /\ \A v \in DOMAIN rows : rows[v].id <= unsubscribes
  /\ \A v \in DOMAIN firstScans : OldId(v, firstScans[v].id)

LEMMA StillStep ==
  ASSUME CoverInv, Still
  PROVE  OneChain' /\ Statuses' /\ ScansCovered' /\ ScanBounds' /\ RowIds'
<1>1. OneChain' /\ Statuses'
  BY StillFacts, OneChainStill DEF CoverInv, Statuses, Still
<1>2. ScansCovered'
  <2> SUFFICES ASSUME NEW u \in DOMAIN firstScans', u \in DOMAIN rows',
                      firstScans'[u].id = rows'[u].id, TrackedFromStart(u)'
               PROVE  Covered(u, firstScans[u].next - 1)'
    BY DEF ScansCovered
  <2>1. PICK n : n = firstScans[u].next - 1
    OBVIOUS
  <2>2. /\ u \in DOMAIN firstScans /\ u \in DOMAIN rows
        /\ firstScans[u].id = rows[u].id /\ TrackedFromStart(u)
        /\ n = firstScans'[u].next - 1
    BY <2>1, StillFacts DEF Still
  <2>3. Covered(u, n)
    BY <2>1, <2>2 DEF CoverInv, ScansCovered
  <2>4. Covered(u, n)'
    BY <2>3, StillFacts
  <2> QED BY <2>2, <2>4
<1>3. ScanBounds'
  BY DEF CoverInv, Bounds, ScanBounds, Still
<1>4. RowIds'
  <2>1. ASSUME NEW u \in DOMAIN firstScans' PROVE OldId(u, firstScans[u].id)'
    <3>1. PICK n : n = firstScans[u].id
      OBVIOUS
    <3>2. OldId(u, n) /\ n = firstScans'[u].id
      BY <3>1 DEF CoverInv, Ids, Still
    <3>3. OldId(u, n)'
      BY <3>2, StillFacts
    <3> QED BY <3>2, <3>3
  <2> QED BY <2>1 DEF CoverInv, Ids, RowIds, Still
<1> QED BY <1>1, <1>2, <1>3, <1>4

(* A tick that ends without its cursor moving.                             *)
LEMMA AbortCovers ==
  ASSUME IndexerInv, CoverInv, Still, pc' = "idle",
         UNCHANGED <<indexed, latest, from>>
  PROVE  CoverInv'
<1>1. Stage' = "idle" /\ pc' # "sync"
  BY DEF Stage
<1>2. ScannedCovered'
  <2> SUFFICES ASSUME NEW u \in DOMAIN rows', rows'[u].synced, TrackedFromStart(u)'
               PROVE  Covered(u, indexed)'
    BY DEF ScannedCovered
  <2>1. PICK n : n = indexed
    OBVIOUS
  <2>2. Covered(u, n)
    BY <2>1, StillFacts DEF CoverInv, ScannedCovered, Still
  <2>3. Covered(u, n)'
    BY <2>2, StillFacts
  <2> QED BY <2>1, <2>3
<1>3. Bounds' /\ Ids'
  BY <1>1, StillStep DEF CoverInv, Bounds, Ids, ScanBounds, RowIds, Callers, Still
<1>4. DiscoverLoop' /\ RescanLoop' /\ KnownLoop' /\ SyncOwes'
  BY <1>1 DEF DiscoverLoop, RescanLoop, KnownLoop, SyncOwes
<1> QED BY <1>2, <1>3, <1>4, StillStep DEF CoverInv

LEMMA EndTickCovers ==
  ASSUME IndexerInv, CoverInv, UNCHANGED env, EndTick
  PROVE  CoverInv'
<1>1. /\ pc = "known" /\ todo = {} /\ indexed' = latest /\ pc' = "idle"
      /\ Still /\ UNCHANGED <<latest, from>>
  BY DEF EndTick, Still, nodes, local, budgets
<1>2. Stage' = "idle" /\ pc' # "sync" /\ Stage = "known"
  BY <1>1 DEF Stage
<1>3. ScannedCovered'
  <2> SUFFICES ASSUME NEW u \in DOMAIN rows', rows'[u].synced, TrackedFromStart(u)'
               PROVE  Covered(u, indexed)'
    BY DEF ScannedCovered
  <2>1. PICK n : n = latest
    OBVIOUS
  <2>2. u \in DOMAIN rows /\ rows[u].synced /\ TrackedFromStart(u) /\ ~Waiting(u)
    BY <1>1, StillFacts DEF Still, Waiting
  <2>3. Covered(u, n)
    BY <1>2, <2>1, <2>2 DEF CoverInv, KnownLoop
  <2>4. Covered(u, n)'
    BY <1>1, <2>3, StillFacts
  <2> QED BY <1>1, <2>1, <2>4
<1>4. Bounds' /\ Ids'
  BY <1>1, <1>2, StillStep DEF CoverInv, Bounds, Ids, ScanBounds, RowIds, Callers, Still
<1>5. DiscoverLoop' /\ RescanLoop' /\ KnownLoop' /\ SyncOwes'
  BY <1>2 DEF DiscoverLoop, RescanLoop, KnownLoop, SyncOwes
<1> QED BY <1>1, <1>3, <1>4, <1>5, StillStep DEF CoverInv

(* A tick in whose loop something is dropped that no row waits for, or     *)
(* that only discovery waits for.                                          *)
LEMMA DropCovers ==
  ASSUME IndexerInv, CoverInv, Still, UNCHANGED <<indexed, latest, from>>,
         pc' # "sync", Stage' = Stage, todo' \subseteq todo,
         \/ Stage = "discover"
         \/ \A u \in DOMAIN rows : Waiting(u) => <<u, rows[u].id>> \in todo'
  PROVE  CoverInv'
<1>1. ScannedCovered'
  <2> SUFFICES ASSUME NEW u \in DOMAIN rows', rows'[u].synced, TrackedFromStart(u)'
               PROVE  Covered(u, indexed)'
    BY DEF ScannedCovered
  <2>1. PICK n : n = indexed
    OBVIOUS
  <2>2. Covered(u, n)
    BY <2>1, StillFacts DEF CoverInv, ScannedCovered, Still
  <2>3. Covered(u, n)'
    BY <2>2, StillFacts
  <2> QED BY <2>1, <2>3
<1>2. Bounds'
  BY StillStep DEF CoverInv, Bounds, ScanBounds, Still
<1>3. Ids'
  <2>1. Stage' \in {"rescan", "known"} => \A x \in todo' : OldId(x[1], x[2])'
    BY StillFacts DEF CoverInv, Ids
  <2> QED BY <2>1, StillStep DEF Ids, RowIds
<1>4. DiscoverLoop'
  BY StillFacts DEF CoverInv, DiscoverLoop
<1>5. Stage # "discover" => \A u \in DOMAIN rows : Waiting(u)' = Waiting(u)
  BY DEF Waiting, Still
<1>6. PICK n : n = latest
  OBVIOUS
<1>7. RescanLoop'
  <2> SUFFICES ASSUME Stage' = "rescan", NEW v \in DOMAIN rows'
               PROVE  /\ Waiting(v)' /\ v \in DOMAIN firstScans' =>
                           firstScans'[v].id = rows'[v].id
                      /\ rows'[v].synced /\ ~rows'[v].ready /\ TrackedFromStart(v)'
                           /\ ~Waiting(v)' => Covered(v, latest)'
    BY DEF RescanLoop
  <2>1. rows[v].synced /\ ~rows[v].ready /\ TrackedFromStart(v) /\ ~Waiting(v) => Covered(v, n)
    BY <1>6 DEF CoverInv, RescanLoop, Still
  <2>2. Covered(v, n) => Covered(v, latest)'
    BY <1>6, StillFacts
  <2> QED BY <1>5, <2>1, <2>2, StillFacts DEF CoverInv, RescanLoop, Still
<1>8. KnownLoop'
  <2> SUFFICES ASSUME Stage' = "known", NEW v \in DOMAIN rows'
               PROVE  /\ Waiting(v)' => rows'[v].synced
                      /\ rows'[v].synced /\ TrackedFromStart(v)' /\ ~Waiting(v)' =>
                           Covered(v, latest)'
    BY DEF KnownLoop
  <2>1. rows[v].synced /\ TrackedFromStart(v) /\ ~Waiting(v) => Covered(v, n)
    BY <1>6 DEF CoverInv, KnownLoop, Still
  <2>2. Covered(v, n) => Covered(v, latest)'
    BY <1>6, StillFacts
  <2> QED BY <1>5, <2>1, <2>2, StillFacts DEF CoverInv, KnownLoop, Still
<1> QED BY <1>1, <1>2, <1>3, <1>4, <1>7, <1>8, StillStep DEF CoverInv, SyncOwes

(* A failed call, a crash, or a row deleted under the tick.                *)
LEMMA StopCovers ==
  ASSUME IndexerInv, UNCHANGED env, CoverInv,
         \/ SyncOrphaned \/ CallFails \/ Crash
         \/ \E v \in Vaults, id \in 0..unsubscribes : RescanOrphaned(v, id)
  PROVE  CoverInv'
<1>1. UNCHANGED <<env, daemon, archive, headers, raw, rows, unsubscribes, indexed, latest,
                  from>>
  BY DEF SyncOrphaned, CallFails, Crash, RescanOrphaned, nodes, cursors, local, budgets
<1>2. firstScans' = firstScans \/ firstScans' = <<>>
  BY DEF SyncOrphaned, CallFails, Crash, RescanOrphaned
<1>3. Still
  BY <1>1, <1>2 DEF Still
<1>4. CASE pc' = "idle"
  BY <1>1, <1>3, <1>4, AbortCovers
<1>5. CASE CallFails /\ pc' # "idle"
  <2>1. pc = "discover" \/ (pc = "sync" /\ job.back = "discover")
    BY <1>5 DEF CallFails, AbortTick
  <2>2. pc' = "discover" /\ todo' \subseteq todo
    BY <1>5 DEF CallFails, AbortTick
  <2>3. Stage = "discover" /\ Stage' = Stage
    BY <2>1, <2>2 DEF Stage
  <2> QED BY <1>1, <1>3, <2>2, <2>3, DropCovers
<1>6. ASSUME NEW v, NEW id, RescanOrphaned(v, id), pc' # "idle" PROVE CoverInv'
  <2>1. /\ todo' = todo \ {<<v, id>>} /\ pc' = pc /\ pc # "sync" /\ ~Exists(v, id)
    BY <1>6 DEF RescanOrphaned, AbortTick
  <2>2. Stage' = Stage
    BY <2>1 DEF Stage
  <2>3. \A u \in DOMAIN rows : Waiting(u) => <<u, rows[u].id>> \in todo'
    BY <2>1 DEF Waiting, Exists
  <2> QED BY <1>1, <1>3, <2>1, <2>2, <2>3, DropCovers
<1> QED BY <1>4, <1>5, <1>6 DEF SyncOrphaned, Crash, AbortTick

(* What is covered up to the cursor does not depend on where the tick is.  *)
LEMMA CursorStays ==
  ASSUME IndexerInv, CoverInv, Still, UNCHANGED indexed
  PROVE  ScannedCovered'
<1> SUFFICES ASSUME NEW u \in DOMAIN rows', rows'[u].synced, TrackedFromStart(u)'
             PROVE  Covered(u, indexed)'
  BY DEF ScannedCovered
<1>1. PICK n : n = indexed
  OBVIOUS
<1>2. Covered(u, n)
  BY <1>1, StillFacts DEF CoverInv, ScannedCovered, Still
<1>3. Covered(u, n)'
  BY <1>2, StillFacts
<1> QED BY <1>1, <1>3

LEMMA QueriedIds ==
  ASSUME IndexerInv, Still, NEW S, S \subseteq DOMAIN rows, NEW x \in Queried(S)
  PROVE  OldId(x[1], x[2])'
<1>1. PICK v \in S : x = <<v, rows[v].id>>
  BY DEF Queried
<1>2. rows[v].id \in Nat /\ v \in DOMAIN rows
  BY DEF IndexerInv, CheckedRows, Row
<1>3. OldId(v, rows[v].id)
  BY <1>2 DEF OldId
<1> QED BY <1>1, <1>3, StillFacts

(* The rescan waits for every unready vault.                               *)
LEMMA RescanBegins ==
  ASSUME IndexerInv, CoverInv, Still, EnterRescan, UNCHANGED indexed,
         latest' <= Len(archive), indexed <= latest',
         from' \in Nat, from' <= indexed + 1
  PROVE  CoverInv'
<1>1. pc' = "rescan" /\ todo' = Queried(Unready)
  BY DEF EnterRescan
<1>2. Stage' = "rescan" /\ pc' # "sync"
  BY <1>1 DEF Stage
<1>3. ScannedCovered'
  BY CursorStays
<1>4. Bounds'
  BY <1>2, StillStep DEF CoverInv, Bounds, ScanBounds, Still
<1>5. Ids'
  <2>1. \A x \in todo' : OldId(x[1], x[2])'
    BY <1>1, QueriedIds DEF Unready
  <2> QED BY <1>2, <2>1, StillStep DEF Ids, RowIds
<1>6. RescanLoop'
  <2>1. \A v \in DOMAIN firstScans' : firstScans'[v].id = rows[v].id
    BY DEF EnterRescan
  <2>2. \A v \in DOMAIN rows : ~rows[v].ready => Waiting(v)'
    BY <1>1 DEF Waiting, Queried, Unready, Still
  <2> QED BY <2>1, <2>2 DEF RescanLoop, Still
<1>7. DiscoverLoop' /\ KnownLoop' /\ SyncOwes'
  BY <1>2 DEF DiscoverLoop, KnownLoop, SyncOwes
<1> QED BY <1>3, <1>4, <1>5, <1>6, <1>7, StillStep DEF CoverInv

LEMMA BeginCovers ==
  ASSUME IndexerInv, UNCHANGED env, CoverInv, TickBegins
  PROVE  CoverInv'
<1>1. /\ latest' = Len(archive) /\ from' = ReplayFrom /\ indexed <= Len(archive)
      /\ UNCHANGED <<env, daemon, archive, headers, raw, rows, unsubscribes, indexed>>
      /\ pc = "idle"
  BY DEF TickBegins, LatestBlockHeight, nodes, cursors, budgets, IndexerInv, Chains
<1>2. /\ indexed \in Nat /\ Window \in Nat /\ Margin \in Nat
      /\ Len(daemon) \in Nat /\ Len(archive) \in Nat /\ Len(archive) <= Len(daemon)
  BY DeploymentFacts DEF IndexerInv, Chains
<1>3. from' \in Nat /\ from' <= indexed + 1
  BY <1>1, <1>2 DEF ReplayFrom, Larger
<1>4. CASE Lite
  <2>1. EnterRescan
    BY <1>4 DEF TickBegins
  <2>2. Still
    BY <1>1, <2>1 DEF Still, EnterRescan
  <2> QED BY <1>1, <1>2, <1>3, <2>1, <2>2, RescanBegins
<1>5. CASE ~Lite
  <2>1. /\ pc' = "discover" /\ UNCHANGED firstScans
        /\ todo' = {<<v, DeployBlock(v)>> : v \in Candidates}
    BY <1>5 DEF TickBegins
  <2>2. Still
    BY <1>1, <2>1 DEF Still
  <2>3. Stage' = "discover" /\ pc' # "sync"
    BY <2>1 DEF Stage
  <2>4. Bounds' /\ Ids'
    BY <1>1, <1>2, <1>3, <2>2, <2>3, StillStep
    DEF CoverInv, Bounds, Ids, ScanBounds, RowIds
  <2>5. DiscoverLoop'
    <3>1. ScanFloor \in Nat /\ indexed <= ScanFloor + Margin
      <4>1. /\ DiscoveryWindow \in Int
            /\ DiscoveryWindow <= 1 \/ DiscoveryWindow <= Len(daemon) - indexed + Margin
        BY <1>1, <1>2 DEF DiscoveryWindow, Larger, Smaller
      <4> QED BY <1>1, <1>2, <4>1 DEF ScanFloor, Larger
    <3>2. ~ArchiveDiscovery => \A t \in todo' : t[2] = ScanFloor
      BY <2>1 DEF DeployBlock
    <3> QED BY <1>1, <2>2, <3>1, <3>2, StillFacts DEF DiscoverLoop
  <2>6. RescanLoop' /\ KnownLoop' /\ SyncOwes'
    BY <2>3 DEF RescanLoop, KnownLoop, SyncOwes
  <2> QED BY <1>1, <2>2, <2>4, <2>5, <2>6, StillStep, CursorStays DEF CoverInv
<1> QED BY <1>4, <1>5

LEMMA EndDiscoveryCovers ==
  ASSUME IndexerInv, UNCHANGED env, CoverInv, EndDiscovery
  PROVE  CoverInv'
<1>1. /\ pc = "discover" /\ EnterRescan
      /\ UNCHANGED <<env, daemon, archive, headers, raw, rows, unsubscribes, indexed,
                     latest, from>>
  BY DEF EndDiscovery, nodes, budgets
<1>2. Still
  BY <1>1 DEF Still, EnterRescan
<1>3. Stage \in Callers
  BY <1>1 DEF Stage, Callers
<1> QED BY <1>1, <1>2, <1>3, RescanBegins DEF CoverInv, Bounds

(* The next loop waits for the ready vaults; the others were replayed.     *)
LEMMA EndRescanCovers ==
  ASSUME IndexerInv, UNCHANGED env, CoverInv, EndRescan
  PROVE  CoverInv'
<1>1. /\ pc = "rescan" /\ todo = {} /\ pc' = "known"
      /\ todo' = Queried(DOMAIN rows \ Unready)
      /\ UNCHANGED <<indexed, latest, from>> /\ Still
  BY DEF EndRescan, Still, nodes, cursors, local, budgets
<1>2. Stage = "rescan" /\ Stage' = "known" /\ pc' # "sync"
  BY <1>1 DEF Stage
<1>3. Bounds'
  BY <1>1, <1>2, StillStep DEF CoverInv, Bounds, ScanBounds, Still, Callers
<1>4. Ids'
  <2>1. \A x \in todo' : OldId(x[1], x[2])'
    BY <1>1, QueriedIds
  <2> QED BY <1>1, <1>2, <2>1, StillStep DEF Ids, RowIds
<1>5. KnownLoop'
  <2> SUFFICES ASSUME NEW v \in DOMAIN rows'
               PROVE  /\ Waiting(v)' => rows'[v].synced
                      /\ rows'[v].synced /\ TrackedFromStart(v)' /\ ~Waiting(v)' =>
                           Covered(v, latest)'
    BY DEF KnownLoop
  <2>1. v \in DOMAIN rows /\ rows' = rows /\ TrackedFromStart(v)' = TrackedFromStart(v)
    BY <1>1, StillFacts DEF Still
  <2>2. Waiting(v)' <=> rows[v].ready
    BY <1>1, <2>1 DEF Waiting, Queried, Unready
  <2>3. rows[v].ready => rows[v].synced
    BY <2>1 DEF CoverInv, Statuses
  <2>4. ASSUME rows[v].synced, TrackedFromStart(v), ~rows[v].ready
        PROVE  Covered(v, latest)'
    <3>1. PICK n : n = latest
      OBVIOUS
    <3>2. Covered(v, n)
      BY <1>1, <1>2, <2>1, <2>4, <3>1 DEF CoverInv, RescanLoop, Waiting
    <3>3. Covered(v, n)'
      BY <1>1, <3>2, StillFacts
    <3> QED BY <1>1, <3>1, <3>3
  <2> QED BY <2>1, <2>2, <2>3, <2>4
<1>6. DiscoverLoop' /\ RescanLoop' /\ SyncOwes'
  BY <1>2 DEF DiscoverLoop, RescanLoop, SyncOwes
<1> QED BY <1>1, <1>3, <1>4, <1>5, <1>6, StillStep, CursorStays DEF CoverInv

-----------------------------------------------------------------------------
(* Steps that start a sync or pass a vault over                            *)

LEMMA EventTyped ==
  ASSUME IndexerInv, NEW h \in DOMAIN archive, NEW i \in DOMAIN archive[h].events
  PROVE  archive[h].events[i].type \in EventTypes
<1>1. archive[h] \in Blocks
  BY DEF IndexerInv, Chains
<1>2. PICK b : b = archive[h]
  OBVIOUS
<1>3. IsBlock(b)
  BY <1>1, <1>2, IndexerAssumption DEF IndexerInv, Blocks
<1>4. PICK W : W = {b.events[k].by : k \in DOMAIN b.events}
  OBVIOUS
<1>5. b.events \in Seq(EventsBy(W))
  BY <1>3, <1>4 DEF IsBlock
<1>6. b.events[i] \in EventsBy(W)
  BY <1>2, <1>5
<1> QED BY <1>2, <1>6 DEF EventsBy

(* A vault has no event below the block it was deployed in.                *)
LEMMA TrackedBlocks ==
  ASSUME IndexerInv, OneChain, NEW v, NEW h \in DOMAIN archive,
         NEW i \in DOMAIN archive[h].events, archive[h].events[i].vault = v
  PROVE  \E k \in DOMAIN daemon : k <= h /\ v \in daemon[k].deploys
<1>1. /\ archive \in Seq(Blocks) /\ daemon \in Seq(Blocks) /\ Len(archive) <= Len(daemon)
      /\ Extends(archive, daemon)
  BY DEF IndexerInv, Chains, OneChain, Extends
<1>2. h \in DOMAIN daemon /\ archive[h] = daemon[h]
  BY <1>1, ExtendsFacts
<1>3. PICK k \in 1..h : v \in daemon[k].deploys
  BY <1>2 DEF OneChain, DeployedFirst
<1> QED BY <1>1, <1>2, <1>3

LEMMA CoveredBelow ==
  ASSUME IndexerInv, OneChain, NEW v, NEW b \in Nat, NEW n \in Int, n < b,
         \A h \in DOMAIN daemon : v \in daemon[h].deploys => b <= h
  PROVE  Covered(v, n)
<1> SUFFICES ASSUME NEW h \in DOMAIN archive, h <= n, NEW i \in DOMAIN archive[h].events,
                    archive[h].events[i].vault = v
             PROVE  FALSE
  BY DEF Covered, Owed
<1>1. PICK k \in DOMAIN daemon : k <= h /\ v \in daemon[k].deploys
  BY TrackedBlocks
<1>2. b <= k /\ k \in Nat /\ h \in Nat
  BY <1>1 DEF IndexerInv, Chains
<1> QED BY <1>1, <1>2

LEMMA CoveredUndeployed ==
  ASSUME IndexerInv, OneChain, NEW v, ~Deployed(daemon, v), NEW n
  PROVE  Covered(v, n)
BY TrackedBlocks DEF Covered, Owed, Deployed

(* What is fetched is what is owed, when all before it is covered.         *)
LEMMA OwedStart ==
  ASSUME IndexerInv, NEW v, NEW lo \in Nat, NEW hi \in Nat, Covered(v, lo - 1)
  PROVE  Owed(v, hi, FetchEvents(archive, v, lo, hi))
<1> SUFFICES ASSUME NEW h \in DOMAIN archive, h <= hi,
                    NEW i \in DOMAIN archive[h].events, archive[h].events[i].vault = v
             PROVE  \/ RecordedAt(archive[h].events[i], h)
                    \/ InBatch(FetchEvents(archive, v, lo, hi), archive[h].events[i], h)
  BY DEF Owed
<1>1. archive \in Seq(Blocks) /\ h \in Nat /\ \A b \in Blocks : b.events \in Seq(Event)
  BY DeploymentFacts DEF IndexerInv, Chains
<1>2. CASE h <= lo - 1
  <2>1. RecordedAt(archive[h].events[i], h) \/ InBatch(<<>>, archive[h].events[i], h)
    BY <1>2 DEF Covered, Owed
  <2> QED BY <2>1 DEF InBatch
<1>3. CASE lo <= h
  <2>1. archive[h].events[i].type \in EventTypes
    BY EventTyped
  <2> QED BY <1>1, <1>3, <2>1, InRangeHas DEF FetchEvents
<1> QED BY <1>1, <1>2, <1>3

(* The blocks of a batch are the chain's.                                  *)
LEMMA BatchOnChain ==
  ASSUME IndexerInv, OneChain, NEW v, NEW lo, NEW hi \in Nat,
         NEW j \in DOMAIN FetchEvents(archive, v, lo, hi)
  PROVE  LET x == FetchEvents(archive, v, lo, hi)[j]
         IN  x.height \in DOMAIN archive /\ x.hash = Prefix(daemon, x.height)
<1>1. /\ archive \in Seq(Blocks) /\ daemon \in Seq(Blocks) /\ Len(archive) <= Len(daemon)
      /\ Extends(archive, daemon) /\ \A b \in Blocks : b.events \in Seq(Event)
  BY DeploymentFacts DEF IndexerInv, Chains, OneChain, Extends
<1>2. PICK q : q = FetchEvents(archive, v, lo, hi)
  OBVIOUS
<1>3. q \in Seq(ItemOf(archive, v))
  BY <1>1, <1>2, InRangeOf DEF FetchEvents
<1>4. q[j] \in ItemOf(archive, v)
  BY <1>2, <1>3
<1>5. q[j].height \in DOMAIN archive /\ q[j].hash = Prefix(archive, q[j].height)
  BY <1>4 DEF ItemOf, BlockHash
<1>6. Prefix(archive, q[j].height) = Prefix(daemon, q[j].height)
  BY <1>1, <1>5, ExtendsFacts
<1> QED BY <1>2, <1>5, <1>6

(* The account check writes permissionsVerified, and the progress of a     *)
(* first scan may be created; nothing else changes for the vaults.         *)
SameRows ==
  /\ DOMAIN rows' = DOMAIN rows
  /\ \A u \in DOMAIN rows :
       /\ rows'[u].id = rows[u].id /\ rows'[u].discoveredAt = rows[u].discoveredAt
       /\ rows'[u].ready = rows[u].ready /\ rows'[u].synced = rows[u].synced

ScansGrow(v) ==
  \/ UNCHANGED firstScans
  \/ /\ rows[v].discoveredAt <= latest
     /\ firstScans' = [u \in DOMAIN firstScans \cup {v} |-> ScanOf(u)]

LEMMA ScansGrowFacts ==
  ASSUME NEW v, ScansGrow(v)
  PROVE  \A u \in DOMAIN firstScans' :
           \/ u \in DOMAIN firstScans /\ firstScans'[u] = firstScans[u]
           \/ /\ u = v /\ rows[v].discoveredAt <= latest
              /\ firstScans'[u].id = rows[v].id
              /\ firstScans'[u].next = rows[v].discoveredAt
BY DEF ScansGrow, ScanOf

(* One turn of a loop: the vault's sync starts, or the vault is passed     *)
(* over, which needs it to be covered when its history was scanned.        *)
TurnOf(v) ==
  /\ UNCHANGED <<env, daemon, archive, headers, raw, unsubscribes, indexed, latest, from>>
  /\ SameRows
  /\ Stage' = Stage /\ Stage \in {"rescan", "known"}
  /\ ScansGrow(v)
  /\ \/ todo' = todo
     \/ /\ todo' = todo \ Queried({v})
        /\ rows[v].synced /\ TrackedFromStart(v) => Covered(v, latest)
  /\ pc' = "sync" => job'.vault = v /\ job'.id = rows[v].id

LEMMA TurnCovers ==
  ASSUME IndexerInv, CoverInv, NEW v \in DOMAIN rows, TurnOf(v), SyncOwes'
  PROVE  CoverInv'
<1>1. /\ UNCHANGED <<env, daemon, archive, headers, raw, unsubscribes, indexed, latest, from>>
      /\ SameRows /\ Stage' = Stage /\ Stage \in {"rescan", "known"} /\ ScansGrow(v)
  BY DEF TurnOf
<1>2. /\ OneChain /\ Bounds /\ Ids /\ Statuses
      /\ latest \in Nat /\ indexed \in Nat /\ Len(archive) \in Nat
      /\ \A u \in DOMAIN rows : rows[u].id \in Nat /\ rows[u].discoveredAt \in Nat
  BY DEF CoverInv, IndexerInv, Chains, CheckedRows, Row
<1>3. \A u : TrackedFromStart(u)' = TrackedFromStart(u)
  BY <1>1 DEF TrackedFromStart, SameRows
<1>4. \A u, n : Covered(u, n)' = Covered(u, n)
  BY <1>1 DEF Covered, Owed, RecordedAt, InBatch
<1>5. \A u, n : OldId(u, n) => OldId(u, n)'
  BY <1>1 DEF OldId, SameRows
<1>6. Safe' = Safe /\ todo' \subseteq todo
  BY <1>1 DEF Safe, TurnOf
<1>7. OldId(v, rows[v].id)
  BY <1>2 DEF OldId
<1>8. OneChain' /\ Statuses'
  BY <1>1, <1>2, <1>6, OneChainStill DEF Statuses, SameRows
<1>9. Bounds'
  <2>1. \A u \in DOMAIN firstScans' : firstScans'[u].next <= Len(archive) + 1
    BY <1>1, <1>2, ScansGrowFacts DEF Bounds
  <2> QED BY <1>1, <1>2, <2>1 DEF Bounds
<1>10. Ids'
  <2>1. ASSUME NEW u \in DOMAIN firstScans' PROVE OldId(u, firstScans[u].id)'
    <3>1. PICK n : n = firstScans'[u].id
      OBVIOUS
    <3>2. OldId(u, n)
      BY <1>1, <1>2, <1>7, <3>1, ScansGrowFacts DEF Ids
    <3> QED BY <1>5, <3>1, <3>2
  <2>2. \A x \in todo' : OldId(x[1], x[2])'
    BY <1>1, <1>2, <1>5, <1>6 DEF Ids
  <2>3. pc' = "sync" => OldId(job.vault, job.id)'
    BY <1>5, <1>7 DEF TurnOf
  <2> QED BY <1>1, <1>2, <2>1, <2>2, <2>3 DEF Ids, SameRows
<1>11. PICK n, k : n = indexed /\ k = latest
  OBVIOUS
<1>12. ScannedCovered'
  <2>1. \A u \in DOMAIN rows : rows[u].synced /\ TrackedFromStart(u) => Covered(u, n)
    BY <1>11 DEF CoverInv, ScannedCovered
  <2> QED BY <1>1, <1>3, <1>4, <1>11, <2>1 DEF ScannedCovered, SameRows
<1>13. ScansCovered'
  <2> SUFFICES ASSUME NEW u \in DOMAIN firstScans', u \in DOMAIN rows',
                      firstScans'[u].id = rows'[u].id, TrackedFromStart(u)'
               PROVE  Covered(u, firstScans[u].next - 1)'
    BY DEF ScansCovered
  <2>1. PICK m : m = firstScans'[u].next - 1
    OBVIOUS
  <2>2. u \in DOMAIN rows /\ firstScans'[u].id = rows[u].id /\ TrackedFromStart(u)
    BY <1>1, <1>3 DEF SameRows
  <2>3. CASE u \in DOMAIN firstScans /\ firstScans'[u] = firstScans[u]
    <3>1. Covered(u, m)
      BY <2>1, <2>2, <2>3 DEF CoverInv, ScansCovered
    <3> QED BY <1>4, <2>1, <3>1
  <2>4. CASE u = v /\ firstScans'[u].next = rows[v].discoveredAt
    <3>1. m \in Int /\ m < rows[v].discoveredAt
      BY <1>2, <2>1, <2>4
    <3>2. Covered(u, m)
      BY <1>2, <2>2, <2>4, <3>1, CoveredBelow DEF TrackedFromStart
    <3> QED BY <1>4, <2>1, <3>2
  <2> QED BY <1>1, <2>3, <2>4, ScansGrowFacts
<1>14. \A u \in DOMAIN rows : Waiting(u)' => Waiting(u)
  BY <1>1, <1>6 DEF Waiting, SameRows
<1>15. ASSUME NEW u \in DOMAIN rows, Waiting(u), ~Waiting(u)'
       PROVE  rows[u].synced /\ TrackedFromStart(u) => Covered(u, k)
  <2>1. todo' = todo \ Queried({v}) /\ <<u, rows[u].id>> \in Queried({v})
    <3>1. <<u, rows[u].id>> \in todo /\ <<u, rows[u].id>> \notin todo'
      BY <1>1, <1>15 DEF Waiting, SameRows
    <3>2. todo' = todo \/ todo' = todo \ Queried({v})
      BY DEF TurnOf
    <3> QED BY <3>1, <3>2
  <2>2. u = v
    BY <2>1 DEF Queried
  <2>3. todo' # todo
    BY <1>15, <2>1 DEF Waiting
  <2> QED BY <1>11, <2>2, <2>3 DEF TurnOf
<1>16. RescanLoop'
  <2> SUFFICES ASSUME Stage' = "rescan", NEW u \in DOMAIN rows'
               PROVE  /\ Waiting(u)' /\ u \in DOMAIN firstScans' =>
                           firstScans'[u].id = rows'[u].id
                      /\ rows'[u].synced /\ ~rows'[u].ready /\ TrackedFromStart(u)'
                           /\ ~Waiting(u)' => Covered(u, latest)'
    BY DEF RescanLoop
  <2>1. u \in DOMAIN rows /\ rows'[u].id = rows[u].id
    BY <1>1 DEF SameRows
  <2>2. Waiting(u)' /\ u \in DOMAIN firstScans' => firstScans'[u].id = rows'[u].id
    BY <1>1, <1>14, <2>1, ScansGrowFacts DEF CoverInv, RescanLoop
  <2>3. ASSUME rows'[u].synced, ~rows'[u].ready, TrackedFromStart(u)', ~Waiting(u)'
        PROVE  Covered(u, k)
    <3>1. rows[u].synced /\ ~rows[u].ready /\ TrackedFromStart(u)
      BY <1>1, <1>3, <2>1, <2>3 DEF SameRows
    <3>2. CASE Waiting(u)
      BY <1>15, <2>1, <2>3, <3>1, <3>2
    <3>3. CASE ~Waiting(u)
      BY <1>1, <1>11, <2>1, <3>1, <3>3 DEF CoverInv, RescanLoop
    <3> QED BY <3>2, <3>3
  <2> QED BY <1>1, <1>4, <1>11, <2>2, <2>3
<1>17. KnownLoop'
  <2> SUFFICES ASSUME Stage' = "known", NEW u \in DOMAIN rows'
               PROVE  /\ Waiting(u)' => rows'[u].synced
                      /\ rows'[u].synced /\ TrackedFromStart(u)' /\ ~Waiting(u)' =>
                           Covered(u, latest)'
    BY DEF KnownLoop
  <2>1. u \in DOMAIN rows /\ rows'[u].synced = rows[u].synced
    BY <1>1 DEF SameRows
  <2>2. Waiting(u)' => rows'[u].synced
    BY <1>1, <1>14, <2>1 DEF CoverInv, KnownLoop
  <2>3. ASSUME rows'[u].synced, TrackedFromStart(u)', ~Waiting(u)'
        PROVE  Covered(u, k)
    <3>1. CASE Waiting(u)
      BY <1>3, <1>15, <2>1, <2>3, <3>1
    <3>2. CASE ~Waiting(u)
      BY <1>1, <1>3, <1>11, <2>1, <2>3, <3>2 DEF CoverInv, KnownLoop
    <3> QED BY <3>1, <3>2
  <2> QED BY <1>1, <1>4, <1>11, <2>2, <2>3
<1>18. DiscoverLoop'
  BY <1>1 DEF DiscoverLoop
<1> QED BY <1>8, <1>9, <1>10, <1>12, <1>13, <1>16, <1>17, <1>18 DEF CoverInv

LEMMA SyncBegins ==
  ASSUME IndexerInv, CoverInv,
         UNCHANGED <<env, daemon, archive, headers, raw, unsubscribes, indexed, latest, from>>,
         NEW v \in DOMAIN rows, NEW lo \in Nat, NEW hi \in Nat, NEW finish \in BOOLEAN,
         NEW stored \in BOOLEAN, pc \in {"rescan", "known"},
         StartSync(v, lo, hi, finish, stored), hi <= latest, finish => hi = latest,
         ~finish => /\ pc = "rescan" /\ ~rows[v].synced
                    /\ v \in DOMAIN firstScans' /\ firstScans'[v].id = rows[v].id,
         TrackedFromStart(v) => Covered(v, lo - 1)
  PROVE  /\ SameRows /\ Stage' = Stage /\ Stage \in {"rescan", "known"} /\ SyncOwes'
         /\ job'.vault = v /\ job'.id = rows[v].id
<1>1. PICK q, w, p : /\ q = FetchEvents(archive, v, lo, hi) /\ p = pc
                     /\ w = [rows[v] EXCEPT !.verified = TRUE]
  OBVIOUS
<1>2. rows[v] \in Row /\ OneChain /\ Bounds
  BY DEF IndexerInv, CheckedRows, CoverInv
<1>3. /\ w.id = rows[v].id /\ w.discoveredAt = rows[v].discoveredAt
      /\ w.ready = rows[v].ready /\ w.synced = rows[v].synced
  BY <1>1, <1>2 DEF Row
<1>4. rows' = [rows EXCEPT ![v] = w] /\ pc' = "sync"
  BY <1>1 DEF StartSync
<1>5. DOMAIN rows' = DOMAIN rows /\ rows'[v] = w /\ \A u \in DOMAIN rows : u # v => rows'[u] = rows[u]
  BY <1>4 DEF IndexerInv, CheckedRows
<1>6. SameRows
  BY <1>3, <1>5 DEF SameRows
<1>7. job' = [vault |-> v, id |-> w.id, batch |-> q, seq |-> 0, to |-> hi,
              finish |-> finish, stored |-> stored, ingested |-> FALSE, back |-> p]
  BY <1>1, <1>5 DEF StartSync, Job
<1>8. /\ job'.vault = v /\ job'.id = rows[v].id /\ job'.batch = q /\ job'.to = hi
      /\ job'.finish = finish /\ job'.back = p
  BY <1>3, <1>7
<1>9. Stage' = Stage /\ Stage \in {"rescan", "known"}
  BY <1>1, <1>4, <1>8 DEF Stage
<1>10. hi <= Len(archive)
  BY <1>2 DEF Bounds, IndexerInv, Chains
<1>11. \A j \in DOMAIN q : q[j].height \in DOMAIN archive /\ q[j].hash = Prefix(daemon, q[j].height)
  BY <1>1, <1>2, BatchOnChain
<1>12. TrackedFromStart(v)' => Owed(v, hi, q)'
  <2> SUFFICES ASSUME TrackedFromStart(v)' PROVE Owed(v, hi, q)'
    OBVIOUS
  <2>1. TrackedFromStart(v)
    BY <1>6 DEF TrackedFromStart, SameRows
  <2>2. Owed(v, hi, q)
    BY <1>1, <2>1, OwedStart
  <2> QED BY <2>2 DEF Owed, RecordedAt, InBatch
<1>13. SyncOwes'
  <2>1. \A j \in DOMAIN job'.batch : /\ job'.batch[j].height \in DOMAIN archive'
                                     /\ job'.batch[j].hash = Prefix(daemon', job'.batch[j].height)
    BY <1>8, <1>11
  <2>2. TrackedFromStart(job.vault)' => Owed(job.vault, job.to, job.batch)'
    BY <1>8, <1>12
  <2>3. p # "discover" /\ (~finish => p = "rescan" /\ ~rows'[v].synced)
    BY <1>1, <1>6 DEF SameRows
  <2> QED BY <1>8, <1>10, <2>1, <2>2, <2>3 DEF SyncOwes
<1> QED BY <1>6, <1>8, <1>9, <1>13

(* A refused account was not synced before, or is no longer there.         *)
LEMMA RefusedTurn ==
  ASSUME IndexerInv, CoverInv, NEW v \in DOMAIN rows, RefuseSync(v), pc # "sync"
  PROVE  /\ SameRows /\ Stage' = Stage /\ pc' = pc
         /\ rows[v].synced => Covered(v, latest)
<1>1. rows[v] \in Row /\ OneChain /\ Statuses
  BY DEF IndexerInv, CheckedRows, CoverInv
<1>2. pc' = pc /\ Stage' = Stage /\ Refused(v)
  BY DEF RefuseSync, Stage
<1>3. CASE Deployed(daemon, v)
  <2>1. ~rows[v].synced /\ ~rows[v].ready
    BY <1>1, <1>2, <1>3 DEF Refused, Statuses
  <2>2. PICK w : w = [rows[v] EXCEPT !.ready = FALSE, !.verified = FALSE]
    OBVIOUS
  <2>3. /\ w.id = rows[v].id /\ w.discoveredAt = rows[v].discoveredAt
        /\ w.ready = FALSE /\ w.synced = rows[v].synced
    BY <1>1, <2>2 DEF Row
  <2>4. rows[v].ready = FALSE
    BY <1>1, <2>1 DEF Row
  <2>5. rows' = [rows EXCEPT ![v] = w]
    BY <1>3, <2>2 DEF RefuseSync
  <2>6. /\ DOMAIN rows' = DOMAIN rows /\ rows'[v] = w
        /\ \A u \in DOMAIN rows : u # v => rows'[u] = rows[u]
    BY <2>5 DEF IndexerInv, CheckedRows
  <2>7. SameRows
    BY <2>3, <2>4, <2>6 DEF SameRows
  <2> QED BY <1>2, <2>1, <2>7
<1>4. CASE ~Deployed(daemon, v)
  <2>1. SameRows
    BY <1>4 DEF RefuseSync, SameRows
  <2> QED BY <1>1, <1>2, <1>4, <2>1, CoveredUndeployed
<1> QED BY <1>3, <1>4

(* Where the replay of a scanned vault starts, all before it is covered.   *)
LEMMA ReplayCovers ==
  ASSUME IndexerInv, CoverInv, Stage \in Callers, NEW v \in DOMAIN rows, rows[v].synced,
         TrackedFromStart(v)
  PROVE  Covered(v, from - 1) /\ Covered(v, Larger(rows[v].discoveredAt, from) - 1)
<1>1. /\ OneChain /\ Bounds /\ Covered(v, indexed)
      /\ archive \in Seq(Blocks) /\ indexed \in Nat /\ rows[v].discoveredAt \in Nat
  BY DEF CoverInv, ScannedCovered, IndexerInv, Chains, CheckedRows, Row
<1>2. from \in Nat /\ from - 1 <= indexed
  BY <1>1 DEF Bounds
<1>3. Covered(v, from - 1)
  BY <1>1, <1>2, OwedLess
<1>4. Covered(v, rows[v].discoveredAt - 1)
  BY <1>1, CoveredBelow DEF TrackedFromStart
<1> QED BY <1>3, <1>4 DEF Larger

LEMMA RescanCovers ==
  ASSUME IndexerInv, UNCHANGED env, CoverInv, NEW v, RescanUnready(v)
  PROVE  CoverInv'
<1>1. /\ pc = "rescan" /\ v \in DOMAIN rows /\ Waiting(v)
      /\ UNCHANGED <<env, daemon, archive, headers, raw, unsubscribes, indexed, latest, from>>
  BY DEF RescanUnready, Waiting, nodes, cursors, budgets
<1>2. Stage = "rescan" /\ Stage \in Callers
  BY <1>1 DEF Stage, Callers
<1>3. /\ rows[v].discoveredAt \in Nat /\ latest \in Nat /\ from \in Nat
      /\ archive \in Seq(Blocks) /\ EVENT_QUERY_BLOCK_SPAN \in Nat \ {0} /\ OneChain /\ Bounds
  BY <1>1, DeploymentFacts DEF IndexerInv, Chains, CheckedRows, Row, CoverInv, Bounds
<1>4. ASSUME NEW lo \in Nat, NEW hi \in Nat, NEW finish \in BOOLEAN, NEW stored \in BOOLEAN,
             StartSync(v, lo, hi, finish, stored), hi <= latest, finish => hi = latest,
             ~finish => /\ ~rows[v].synced
                        /\ v \in DOMAIN firstScans' /\ firstScans'[v].id = rows[v].id,
             TrackedFromStart(v) => Covered(v, lo - 1),
             UNCHANGED todo, ScansGrow(v)
      PROVE  CoverInv'
  <2>1. /\ SameRows /\ Stage' = Stage /\ SyncOwes'
        /\ job'.vault = v /\ job'.id = rows[v].id
    BY <1>1, <1>4, SyncBegins
  <2>2. TurnOf(v)
    BY <1>1, <1>2, <1>4, <2>1 DEF TurnOf
  <2> QED BY <1>1, <2>1, <2>2, TurnCovers
<1>5. ASSUME todo' = todo \ Queried({v}), ScansGrow(v), SameRows, pc' = pc,
             rows[v].synced /\ TrackedFromStart(v) => Covered(v, latest)
      PROVE  CoverInv'
  <2>1. Stage' = Stage /\ pc' # "sync" /\ SyncOwes'
    BY <1>1, <1>5 DEF Stage, SyncOwes
  <2>2. TurnOf(v)
    BY <1>1, <1>2, <1>5, <2>1 DEF TurnOf
  <2> QED BY <1>1, <2>1, <2>2, TurnCovers
<1>6. CASE ReplayUnready(v)
  <2>1. PICK lo : lo = Larger(rows[v].discoveredAt, from)
    OBVIOUS
  <2>2. rows[v].synced /\ UNCHANGED firstScans /\ lo \in Nat
    BY <1>3, <1>6, <2>1 DEF ReplayUnready, Larger
  <2>3. ScansGrow(v)
    BY <2>2 DEF ScansGrow
  <2>4. TrackedFromStart(v) => Covered(v, lo - 1)
    BY <1>1, <1>2, <2>1, <2>2, ReplayCovers
  <2>5. CASE lo > latest
    <3>1. UNCHANGED <<rows, job, pc>> /\ todo' = todo \ Queried({v})
      BY <1>6, <2>1, <2>5 DEF ReplayUnready
    <3>2. lo - 1 \in Int /\ latest <= lo - 1
      BY <1>3, <2>2, <2>5
    <3>3. TrackedFromStart(v) => Covered(v, latest)
      BY <1>3, <2>4, <3>2, OwedLess
    <3> QED BY <1>5, <2>3, <3>1, <3>3 DEF SameRows
  <2>6. CASE StartSync(v, lo, latest, TRUE, FALSE) /\ UNCHANGED todo
    <3>1. PICK finish \in BOOLEAN, stored \in BOOLEAN : finish = TRUE /\ stored = FALSE
      OBVIOUS
    <3>2. PICK hi \in Nat : hi = latest /\ hi <= latest
      BY <1>3
    <3>3. StartSync(v, lo, hi, finish, stored)
      BY <2>6, <3>1, <3>2
    <3> QED BY <1>4, <2>2, <2>3, <2>4, <2>6, <3>1, <3>2, <3>3
  <2>7. CASE RefuseSync(v) /\ todo' = todo \ Queried({v})
    BY <1>1, <1>5, <2>3, <2>7, RefusedTurn
  <2> QED BY <1>6, <2>1, <2>5, <2>6, <2>7 DEF ReplayUnready
<1>7. CASE FirstScanStep(v)
  <2>1. ~rows[v].synced
    BY <1>7 DEF FirstScanStep
  <2>2. CASE /\ todo' = todo \ Queried({v})
             /\ UNCHANGED <<rows, job, pc, firstScans, steps, scanning>>
    BY <1>5, <2>1, <2>2 DEF ScansGrow, SameRows
  <2>3. CASE /\ rows[v].discoveredAt <= latest
             /\ firstScans' = [u \in DOMAIN firstScans \cup {v} |-> ScanOf(u)]
    <3>1. ScansGrow(v)
      BY <2>3 DEF ScansGrow
    <3>2. CASE UNCHANGED <<rows, job, pc>> /\ todo' = todo \ Queried({v})
      BY <1>5, <2>1, <3>1, <3>2 DEF SameRows
    <3>3. CASE RefuseSync(v) /\ todo' = todo \ Queried({v})
      BY <1>1, <1>5, <2>1, <3>1, <3>3, RefusedTurn
    <3>4. CASE /\ StartSync(v, ScanOf(v).next, StepEnd(v), Finishes(v), TRUE)
               /\ UNCHANGED todo
      <4>1. PICK lo, hi, finish : /\ lo = ScanOf(v).next /\ hi = StepEnd(v)
                                  /\ finish = Finishes(v)
        OBVIOUS
      <4>2. lo \in Nat
        BY <1>1, <4>1, ScanIsTyped DEF Scan
      <4>3. hi \in Nat /\ hi <= latest
        BY <1>3, <4>1, <4>2 DEF StepEnd, Smaller
      <4>4. finish \in BOOLEAN /\ (finish <=> hi = latest)
        BY <4>1, Zenon DEF Finishes
      <4>5. v \in DOMAIN firstScans' /\ firstScans'[v].id = rows[v].id
        <5>1. v \in DOMAIN firstScans => firstScans[v].id = rows[v].id
          BY <1>1, <1>2 DEF CoverInv, RescanLoop
        <5> QED BY <2>3, <5>1 DEF ScanOf
      <4>6. TrackedFromStart(v) => Covered(v, lo - 1)
        <5>1. CASE v \in DOMAIN firstScans
          <6>1. lo = firstScans[v].next /\ firstScans[v].id = rows[v].id
            BY <1>1, <1>2, <4>1, <5>1 DEF CoverInv, RescanLoop, ScanOf
          <6> QED BY <1>1, <5>1, <6>1 DEF CoverInv, ScansCovered
        <5>2. CASE v \notin DOMAIN firstScans
          <6>1. lo = rows[v].discoveredAt
            BY <4>1, <5>2 DEF ScanOf
          <6> QED BY <1>3, <6>1, CoveredBelow DEF TrackedFromStart
        <5> QED BY <5>1, <5>2
      <4>7. StartSync(v, lo, hi, finish, TRUE)
        BY <3>4, <4>1
      <4> QED BY <1>4, <2>1, <3>1, <3>4, <4>2, <4>3, <4>4, <4>5, <4>6, <4>7
    <3> QED BY <1>7, <2>3, <3>2, <3>3, <3>4 DEF FirstScanStep
  <2> QED BY <1>7, <2>2, <2>3 DEF FirstScanStep
<1> QED BY <1>6, <1>7 DEF RescanUnready

LEMMA KnownCovers ==
  ASSUME IndexerInv, UNCHANGED env, CoverInv, NEW v, SyncKnown(v)
  PROVE  CoverInv'
<1>1. /\ pc = "known" /\ v \in DOMAIN rows /\ Waiting(v) /\ UNCHANGED firstScans
      /\ UNCHANGED <<env, daemon, archive, headers, raw, unsubscribes, indexed, latest, from>>
  BY DEF SyncKnown, Waiting, nodes, cursors, local, budgets
<1>2. Stage = "known" /\ Stage \in Callers
  BY <1>1 DEF Stage, Callers
<1>3. latest \in Nat /\ from \in Nat /\ ScansGrow(v)
  BY <1>1 DEF IndexerInv, CoverInv, Bounds, ScansGrow
<1>4. CASE StartSync(v, from, latest, TRUE, FALSE) /\ UNCHANGED todo
  <2>1. rows[v].synced
    BY <1>1, <1>2 DEF CoverInv, KnownLoop
  <2>2. TrackedFromStart(v) => Covered(v, from - 1)
    BY <1>1, <1>2, <2>1, ReplayCovers
  <2>3. /\ SameRows /\ Stage' = Stage /\ SyncOwes'
        /\ job'.vault = v /\ job'.id = rows[v].id
    <3>1. PICK finish \in BOOLEAN, stored \in BOOLEAN : finish = TRUE /\ stored = FALSE
      OBVIOUS
    <3>2. PICK hi \in Nat : hi = latest /\ hi <= latest
      BY <1>3
    <3>3. StartSync(v, from, hi, finish, stored)
      BY <1>4, <3>1, <3>2
    <3>4. pc \in {"rescan", "known"}
      BY <1>1
    <3> QED BY <1>1, <1>3, <2>2, <3>1, <3>2, <3>3, <3>4, SyncBegins
  <2>4. TurnOf(v)
    BY <1>1, <1>2, <1>3, <1>4, <2>3 DEF TurnOf
  <2> QED BY <1>1, <2>3, <2>4, TurnCovers
<1>5. CASE RefuseSync(v) /\ todo' = todo \ Queried({v})
  <2>1. SameRows /\ Stage' = Stage /\ pc' = pc /\ (rows[v].synced => Covered(v, latest))
    BY <1>1, <1>5, RefusedTurn
  <2>2. SyncOwes'
    BY <1>1, <2>1 DEF SyncOwes
  <2>3. TurnOf(v)
    BY <1>1, <1>2, <1>3, <1>5, <2>1 DEF TurnOf
  <2> QED BY <1>1, <2>2, <2>3, TurnCovers
<1> QED BY <1>4, <1>5 DEF SyncKnown

(* A vault that discovery finds: its backfill reaches the block it was     *)
(* found in, and goes up to the cursor.                                    *)
LEMMA BackfillReachesDeploy ==
  ASSUME IndexerInv, CoverInv, BackfillReaches, Stage = "discover", NEW t \in todo,
         t[2] \in Nat
  PROVE  BackfillFrom \in Nat /\ BackfillFrom <= t[2]
<1>1. indexed \in Nat /\ Margin \in Nat /\ BackfillBlocks \in Nat
  BY DeploymentFacts DEF IndexerInv
<1>2. CASE ArchiveDiscovery
  BY <1>1, <1>2 DEF BackfillFrom
<1>3. CASE ~ArchiveDiscovery
  <2>1. indexed <= t[2] + Margin /\ Margin <= BackfillBlocks
    BY <1>3 DEF CoverInv, DiscoverLoop, BackfillReaches
  <2> QED BY <1>1, <1>3, <2>1 DEF BackfillFrom, Larger
<1> QED BY <1>2, <1>3

LEMMA CandidateCovers ==
  ASSUME IndexerInv, IndexerInv', UNCHANGED env, CoverInv, BackfillReaches,
         NEW v, NEW b \in 0..MaxHeight, ProcessCandidate(v, b)
  PROVE  CoverInv'
<1>1. /\ pc = "discover" /\ <<v, b>> \in todo /\ todo' = todo \ {<<v, b>>}
      /\ UNCHANGED <<env, daemon, archive, headers, raw, unsubscribes, indexed, latest, from,
                     firstScans>>
  BY DEF ProcessCandidate, nodes, cursors, local, budgets
<1>2. /\ Stage = "discover" /\ Stage \in Callers /\ b \in Nat /\ todo' \subseteq todo
      /\ OneChain /\ Bounds /\ unsubscribes \in Nat /\ indexed \in Nat
  BY <1>1, DeploymentFacts DEF Stage, Callers, CoverInv, IndexerInv
<1>3. CASE UNCHANGED <<rows, job, pc>>
  <2>1. Still /\ pc' # "sync" /\ Stage' = Stage
    BY <1>1, <1>3 DEF Still, Stage
  <2> QED BY <1>1, <1>2, <2>1, DropCovers
<1>4. CASE /\ v \notin DOMAIN rows
           /\ rows' = WithRow(v, NewRow(b, Nothing, TRUE))
           /\ IF indexed > BackfillFrom
              THEN /\ job' = Job(v, BackfillFrom, indexed, TRUE, FALSE, "discover")
                   /\ pc' = "sync"
              ELSE UNCHANGED <<job, pc>>
  <2>1. PICK w, lo : w = NewRow(b, Nothing, TRUE) /\ lo = BackfillFrom
    OBVIOUS
  <2>2. w.id = unsubscribes /\ ~w.synced /\ ~w.ready /\ w.discoveredAt = b
    BY <2>1 DEF NewRow
  <2>3. /\ Grows /\ DOMAIN rows' = DOMAIN rows \cup {v}
        /\ \A u \in DOMAIN rows : Carried(u) /\ rows'[u] = rows[u]
        /\ rows'[v] = w
    BY <1>1, <1>4, <2>1, <2>2, GrowsByRow
  <2>4. pc' = "sync" => /\ job'.vault = v /\ job'.id = unsubscribes
                        /\ job'.batch = FetchEvents(archive, v, lo, indexed)
                        /\ job'.to = indexed /\ job'.finish /\ job'.back = "discover"
    <3> SUFFICES ASSUME pc' = "sync"
                 PROVE  /\ job'.vault = v /\ job'.id = unsubscribes
                        /\ job'.batch = FetchEvents(archive, v, lo, indexed)
                        /\ job'.to = indexed /\ job'.finish /\ job'.back = "discover"
      OBVIOUS
    <3>1. PICK q : q = FetchEvents(archive, v, lo, indexed)
      OBVIOUS
    <3>2. job' = [vault |-> v, id |-> w.id, batch |-> q, seq |-> 0, to |-> indexed,
                  finish |-> TRUE, stored |-> FALSE, ingested |-> FALSE,
                  back |-> "discover"]
      BY <1>1, <1>4, <2>1, <2>3, <3>1 DEF Job
    <3> QED BY <2>2, <3>1, <3>2
  <2>5. Stage' = "discover"
    BY <1>1, <1>4, <2>4 DEF Stage
  <2>6. LoopKept
    BY <1>1, <1>2, <2>3, <2>5 DEF LoopKept, StatusKept
  <2>7. pc' = "sync" => OldId(job.vault, job.id)'
    BY <1>1, <1>2, <2>2, <2>3, <2>4 DEF OldId
  <2>8. SyncOwes'
    <3> SUFFICES ASSUME pc' = "sync" PROVE SyncOwes'
      BY DEF SyncOwes
    <3>1. PICK n, q : n = indexed /\ q = FetchEvents(archive, v, lo, indexed)
      OBVIOUS
    <3>2. lo \in Nat /\ lo <= b
      BY <1>1, <1>2, <2>1, BackfillReachesDeploy
    <3>3. \A j \in DOMAIN q : /\ q[j].height \in DOMAIN archive
                              /\ q[j].hash = Prefix(daemon, q[j].height)
      BY <1>2, <3>1, <3>2, BatchOnChain
    <3>4. ASSUME TrackedFromStart(v)' PROVE Owed(v, n, q)'
      <4>1. \A h \in DOMAIN daemon : v \in daemon[h].deploys => b <= h
        BY <1>1, <2>2, <2>3, <3>4 DEF TrackedFromStart
      <4>2. lo - 1 \in Int /\ lo - 1 < b
        BY <1>2, <3>2
      <4>3. Covered(v, lo - 1)
        BY <1>2, <4>1, <4>2, CoveredBelow
      <4>4. Owed(v, n, q)
        BY <1>2, <3>1, <3>2, <4>3, OwedStart
      <4> QED BY <1>1, <4>4 DEF Owed, RecordedAt, InBatch
    <3>5. /\ job'.vault = v /\ job'.batch = q /\ job'.to = n /\ job'.to = indexed'
          /\ job'.finish /\ job'.back = "discover"
      BY <1>1, <2>4, <3>1
    <3>6. TrackedFromStart(job.vault)' => Owed(job.vault, job.to, job.batch)'
      BY <3>4, <3>5
    <3>7. \A j \in DOMAIN job'.batch : /\ job'.batch[j].height \in DOMAIN archive'
                                       /\ job'.batch[j].hash = Prefix(daemon', job'.batch[j].height)
      BY <1>1, <3>3, <3>5
    <3>8. n <= Len(archive')
      BY <1>1, <1>2, <3>1 DEF Bounds
    <3> QED BY <3>5, <3>6, <3>7, <3>8 DEF SyncOwes
  <2>9. OneChain'
    BY <1>1, <1>2, OneChainStill
  <2> QED BY <2>3, <2>6, <2>7, <2>8, <2>9, LoopStep DEF CoverInv
<1> QED BY <1>3, <1>4 DEF ProcessCandidate

-----------------------------------------------------------------------------
(* Every step while the chain only grows                                   *)

(* Every stored header is the chain's: there is nothing to roll back.      *)
LEMMA NoMismatch ==
  ASSUME IndexerInv, OneChain
  PROVE  Mismatched = {}
<1>1. \A h \in Overlap : headers[h] = BlockHash(daemon, h)
  BY DEF Overlap, OneChain, BlockHash
<1> QED BY <1>1 DEF Mismatched, Agreed

LEMMA NextCovers ==
  ASSUME IndexerInv, IndexerInv', CoverInv, BackfillReaches, [Next]_<<env, vars>>,
         reorgs \in Nat, reorgs' = 0
  PROVE  CoverInv'
<1>1. CASE Next
  <2> USE <1>1 DEF Next
  <2>1. CASE Chain
    <3>1. ASSUME NEW d, Reorg(d) PROVE FALSE
      BY <3>1 DEF Reorg
    <3> QED BY <2>1, <3>1, MineCovers, ArchiveCovers DEF Chain
  <2>2. CASE Tick
    <3>1. ~TickRollsBack
      BY NoMismatch DEF CoverInv, TickRollsBack
    <3> QED BY <2>2, <3>1, BeginCovers, RescanCovers, KnownCovers, CandidateCovers,
               StopCovers, EndDiscoveryCovers, EndRescanCovers, EndTickCovers,
               IngestCovers, FinishCovers DEF Tick
  <2>3. CASE Failure
    BY <2>3, StopCovers DEF Failure
  <2>4. CASE Routes
    BY <2>4, RouteCovers
  <2> QED BY <2>1, <2>2, <2>3, <2>4
<1>2. CASE UNCHANGED <<env, vars>>
  <2>1. UNCHANGED <<env, daemon, archive, headers, raw, rows, unsubscribes, indexed, latest,
                    from, firstScans, todo, pc, job>>
    BY <1>2 DEF vars, nodes, cursors, local, budgets
  <2>2. Grows /\ TickKept
    BY <2>1, GrowsStill DEF TickKept, StatusKept
  <2> QED BY <2>1, <2>2, QuietStep, SyncOwesKept, OneChainStill DEF CoverInv
<1> QED BY <1>1, <1>2

LEMMA ReorgsCount ==
  ASSUME reorgs \in Nat, [Next]_<<env, vars>>
  PROVE  reorgs' \in Nat /\ reorgs <= reorgs' /\ UNCHANGED env
<1>1. \A d : Reorg(d) => reorgs' = reorgs + 1
  BY DEF Reorg
<1>2. ~(\E d \in 1..MaxReorgDepth : Reorg(d)) => UNCHANGED reorgs
  BY DEF Next, Chain, Tick, Failure, Routes, MineBlock, ArchiveIngest, TickRollsBack,
         TickBegins, RescanUnready, SyncKnown, ProcessCandidate, RescanOrphaned,
         EndDiscovery, EndRescan, EndTick, IngestEvent, FinishSync, SyncOrphaned,
         CallFails, Crash, SubscribeFrom, SubscribeNew, Unsubscribe, UnsubscribeFails,
         DeleteContract, budgets, vars
<1>3. UNCHANGED env
  BY DEF Next
<1> QED BY <1>1, <1>2, <1>3

LEMMA InitCovers ==
  ASSUME Init
  PROVE  CoverInv
<1>1. OneChain
  BY DEF Init, OneChain, DeployedFirst, Prefix
<1>2. /\ Stage = "idle" /\ pc # "sync" /\ rows = <<>> /\ firstScans = <<>> /\ archive = <<>>
      /\ indexed = 0 /\ latest = 0 /\ from = 0
  BY DEF Init, Stage
<1>3. Bounds /\ Ids /\ Statuses
  BY <1>2 DEF Bounds, Ids, Statuses, Callers
<1>4. ScannedCovered /\ ScansCovered
  BY <1>2 DEF ScannedCovered, ScansCovered
<1>5. DiscoverLoop /\ RescanLoop /\ KnownLoop /\ SyncOwes
  BY <1>2 DEF DiscoverLoop, RescanLoop, KnownLoop, SyncOwes
<1> QED BY <1>1, <1>3, <1>4, <1>5 DEF CoverInv

(* What the cursor claims, from what the tick's loops keep.                *)
LEMMA CoveredMeansRecorded ==
  ASSUME IndexerInv, CoverInv
  PROVE  NothingSkipped
<1> SUFFICES ASSUME NEW v \in DOMAIN rows, rows[v].ready, TrackedFromStart(v),
                    NEW x \in Canonical(History(archive, v)), x.height <= indexed - Window
             PROVE  x \in RecordedOf(v)
  BY DEF NothingSkipped
<1>1. PICK log : log = History(archive, v)
  OBVIOUS
<1>2. /\ archive \in Seq(Blocks) /\ Len(archive) \in Nat /\ indexed \in Nat /\ Window \in Nat
      /\ \A b \in Blocks : b.events \in Seq(Event)
  BY DeploymentFacts DEF IndexerInv, Chains
<1>3. log \in Seq(ItemOf(archive, v))
  <2>1. PICK ranked \in BOOLEAN : ranked = FALSE
    OBVIOUS
  <2>2. log = InRange(archive, v, 0, Len(archive), ranked)
    BY <1>1, <2>1 DEF History
  <2> QED BY <1>2, <2>2, InRangeOf
<1>4. PICK i \in DOMAIN log : x = [event |-> log[i].event, height |-> log[i].height]
  BY <1>1 DEF Canonical
<1>5. log[i] \in ItemOf(archive, v)
  BY <1>3, <1>4
<1>6. PICK h, e : h = log[i].height /\ e = log[i].event
  OBVIOUS
<1>7. h \in DOMAIN archive /\ In(e, archive[h].events) /\ e.vault = v
  BY <1>5, <1>6 DEF ItemOf, Item
<1>8. PICK j \in DOMAIN archive[h].events : archive[h].events[j] = e
  BY <1>7 DEF In
<1>9. h \in Nat /\ h <= indexed
  BY <1>2, <1>4, <1>6, <1>7
<1>10. Covered(v, indexed)
  BY DEF CoverInv, Statuses, ScannedCovered
<1>11. RecordedAt(e, h) \/ InBatch(<<>>, e, h)
  BY <1>7, <1>8, <1>9, <1>10 DEF Covered, Owed
<1>12. PICK r \in raw : r.event = e /\ r.height = h
  BY <1>11 DEF InBatch, RecordedAt
<1> QED BY <1>4, <1>6, <1>7, <1>12 DEF RecordedOf

CoverageInv ==
  /\ IndexerInv
  /\ reorgs \in Nat
  /\ reorgs = 0 /\ BackfillReaches => CoverInv

LEMMA NextCoverage ==
  ASSUME CoverageInv, [Next]_<<env, vars>>
  PROVE  CoverageInv'
<1>1. IndexerInv' /\ reorgs' \in Nat /\ reorgs \in Nat /\ reorgs <= reorgs' /\ UNCHANGED env
  BY NextIndexerInv, ReorgsCount DEF CoverageInv
<1>2. ASSUME reorgs' = 0, BackfillReaches' PROVE CoverInv'
  <2>1. reorgs = 0
    BY <1>1, <1>2
  <2>2. BackfillReaches
    BY <1>1, <1>2 DEF BackfillReaches, ArchiveDiscovery, Margin, BackfillBlocks
  <2> QED BY <1>1, <1>2, <2>1, <2>2, NextCovers DEF CoverageInv
<1> QED BY <1>1, <1>2 DEF CoverageInv

-----------------------------------------------------------------------------
(* Discovery                                                               *)

(* A safe vault the archive reports as deployed at h.                      *)
SafeDeploy(v, h) == v \in Safe /\ h \in DOMAIN archive /\ v \in archive[h].deploys

Wanted(v) == v \in DOMAIN rows \/ \E t \in todo : t[1] = v

(* Below what the next query covers nothing is missing, and a pass that    *)
(* has not failed so far still waits for whatever it did not track.        *)
DiscoveryInv ==
  /\ discovered # Nothing => discovered \in Nat /\ discovered <= Len(archive)
  /\ \A v, h : SafeDeploy(v, h) /\ h < DiscoveryFrom => v \in DOMAIN rows
  /\ Stage = "discover" /\ ~failed =>
       \A v, h : SafeDeploy(v, h) /\ h <= latest => Wanted(v)

(* The scan of an archive starts at its discovery cursor, a window back.   *)
LEMMA DiscoveryFromIs ==
  ASSUME IndexerInv, discovered # Nothing => discovered \in Nat /\ discovered <= Len(archive)
  PROVE  DiscoveryFrom \in Nat /\ DiscoveryFrom <= Len(archive) + 1
<1>1. Window \in Nat /\ Len(archive) \in Nat
  BY DeploymentFacts DEF IndexerInv, Chains
<1> QED BY <1>1 DEF DiscoveryFrom, Larger

(* Steps that leave the discovery cursor alone, delete no row and drop no  *)
(* candidate that is safe and not tracked.                                 *)
LEMMA DiscoveryKept ==
  ASSUME IndexerInv, IndexerInv', DiscoveryInv, Bounds, UNCHANGED <<env, discovered>>,
         Extends(archive, archive'), DOMAIN rows \subseteq DOMAIN rows',
         Stage' = "discover" /\ ~failed' =>
           /\ Stage = "discover" /\ ~failed /\ latest' = latest
           /\ \A t \in todo : \/ t \in todo' \/ t[1] \in DOMAIN rows'
                              \/ ~(t[1] \in Safe /\ Deployed(archive, t[1]))
  PROVE  DiscoveryInv'
<1>1. /\ archive \in Seq(Blocks) /\ archive' \in Seq(Blocks) /\ Len(archive) <= Len(archive')
      /\ latest \in Nat
  BY EnvFixed DEF IndexerInv, Chains, Extends
<1>2. /\ DOMAIN archive \subseteq DOMAIN archive'
      /\ \A h \in DOMAIN archive : archive'[h] = archive[h]
  BY <1>1, ExtendsFacts
<1>3. /\ DiscoveryFrom' = DiscoveryFrom /\ Safe' = Safe
      /\ DiscoveryFrom \in Nat /\ DiscoveryFrom <= Len(archive) + 1
  BY DiscoveryFromIs DEF DiscoveryInv, DiscoveryFrom, Window, Safe
<1>4. \A v, h : SafeDeploy(v, h)' /\ h <= Len(archive) => SafeDeploy(v, h)
  BY <1>1, <1>2, <1>3 DEF SafeDeploy
<1>5. \A v, h : SafeDeploy(v, h)' => h \in Nat
  BY <1>1 DEF SafeDeploy
<1>6. \A v, h : SafeDeploy(v, h)' /\ h < DiscoveryFrom' => v \in DOMAIN rows'
  <2> SUFFICES ASSUME NEW v, NEW h, SafeDeploy(v, h)', h < DiscoveryFrom'
               PROVE  v \in DOMAIN rows'
    OBVIOUS
  <2>1. h <= Len(archive)
    BY <1>1, <1>3, <1>5
  <2> QED BY <1>3, <1>4, <2>1 DEF DiscoveryInv
<1>7. ASSUME Stage' = "discover", ~failed', NEW v, NEW h, SafeDeploy(v, h)', h <= latest'
      PROVE  Wanted(v)'
  <2>1. h <= Len(archive)
    BY <1>1, <1>5, <1>7 DEF Bounds
  <2>2. SafeDeploy(v, h) /\ h <= latest
    BY <1>4, <1>7, <2>1
  <2>3. Wanted(v)
    BY <1>7, <2>2 DEF DiscoveryInv
  <2>4. v \in Safe /\ Deployed(archive, v)
    BY <2>2 DEF SafeDeploy, Deployed
  <2> QED BY <1>7, <2>3, <2>4 DEF Wanted
<1> QED BY <1>1, <1>6, <1>7 DEF DiscoveryInv

LEMMA ArchiveOnDaemon ==
  ASSUME IndexerInv, OneChain, NEW v, Deployed(archive, v)
  PROVE  Deployed(daemon, v)
<1>1. /\ archive \in Seq(Blocks) /\ daemon \in Seq(Blocks) /\ Extends(archive, daemon)
  BY DEF IndexerInv, Chains, OneChain, Extends
<1> QED BY <1>1, ExtendsFacts DEF Deployed

LEMMA BeginDiscovers ==
  ASSUME IndexerInv, IndexerInv', UNCHANGED env, CoverInv, ArchiveDiscovery, ~Lite,
         DiscoveryInv, TickBegins
  PROVE  DiscoveryInv'
<1>1. /\ pc' = "discover" /\ UNCHANGED <<archive, rows, discovered>>
      /\ todo' = {<<v, DeployBlock(v)>> : v \in Candidates}
  BY DEF TickBegins, nodes, cursors
<1>2. DiscoveryFrom' = DiscoveryFrom /\ Safe' = Safe /\ Safe \subseteq Vaults
  BY <1>1, DeploymentFacts DEF DiscoveryFrom, Window, Safe, IndexerInv
<1>3. \A v, h : SafeDeploy(v, h)' = SafeDeploy(v, h)
  BY <1>1, <1>2 DEF SafeDeploy
<1>4. ASSUME NEW v, NEW h, SafeDeploy(v, h) PROVE Wanted(v)'
  <2>1. h \in Nat /\ DiscoveryFrom \in Nat
    BY <1>4, DiscoveryFromIs DEF SafeDeploy, IndexerInv, Chains, DiscoveryInv
  <2>2. CASE h < DiscoveryFrom
    BY <1>1, <1>4, <2>2 DEF DiscoveryInv, Wanted
  <2>3. CASE h >= DiscoveryFrom
    <3>1. v \in Candidates
      BY <1>2, <1>4, <2>3 DEF SafeDeploy, Candidates
    <3>2. <<v, DeployBlock(v)>> \in todo'
      BY <1>1, <3>1
    <3> QED BY <3>2 DEF Wanted
  <2> QED BY <2>1, <2>2, <2>3
<1> QED BY <1>1, <1>2, <1>3, <1>4 DEF DiscoveryInv

(* The cursor moves to the tip the tick read, all of whose safe deploys    *)
(* are tracked now.                                                        *)
LEMMA EndDiscoveryDiscovers ==
  ASSUME IndexerInv, IndexerInv', UNCHANGED env, CoverInv, ArchiveDiscovery, DiscoveryInv,
         EndDiscovery
  PROVE  DiscoveryInv'
<1>1. /\ pc = "discover" /\ todo = {} /\ pc' = "rescan" /\ AdvanceDiscovery
      /\ UNCHANGED <<archive, rows, latest>>
  BY DEF EndDiscovery, EnterRescan, nodes
<1>2. Stage = "discover" /\ Stage' = "rescan" /\ Bounds
  BY <1>1 DEF Stage, CoverInv
<1>3. CASE failed
  <2>1. UNCHANGED discovered
    BY <1>1, <1>3 DEF AdvanceDiscovery
  <2>2. Extends(archive, archive')
    BY <1>1, ExtendsItself DEF IndexerInv, Chains
  <2> QED BY <1>1, <1>2, <2>1, <2>2, DiscoveryKept
<1>4. CASE ~failed
  <2>1. discovered' = latest /\ latest \in Nat /\ latest <= Len(archive) /\ Window \in Nat
        /\ Len(archive) \in Nat
    BY <1>1, <1>2, <1>4, DeploymentFacts DEF AdvanceDiscovery, IndexerInv, Bounds, Chains
  <2>2. Safe' = Safe /\ Window' = Window
    BY DEF Safe, Window
  <2>3. DiscoveryFrom' <= latest + 1 /\ DiscoveryFrom' \in Nat
    BY <2>1, <2>2 DEF DiscoveryFrom, Larger
  <2>4. ASSUME NEW v, NEW h, SafeDeploy(v, h)', h < DiscoveryFrom'
        PROVE  v \in DOMAIN rows'
    <3>1. SafeDeploy(v, h) /\ h \in Nat
      BY <1>1, <2>2, <2>4 DEF SafeDeploy, IndexerInv, Chains
    <3>2. h <= latest
      BY <2>1, <2>3, <2>4, <3>1
    <3>3. Wanted(v)
      BY <1>2, <1>4, <3>1, <3>2 DEF DiscoveryInv
    <3> QED BY <1>1, <3>3 DEF Wanted
  <2> QED BY <1>1, <1>2, <2>1, <2>4 DEF DiscoveryInv
<1> QED BY <1>3, <1>4

(* Only a rollback and deleteContract delete rows.                         *)
LEMMA RowsOnlyGrow ==
  ASSUME IndexerInv, [Next]_<<env, vars>>, ~TickRollsBack,
         ~(\E v \in DOMAIN rows : DeleteContract(v))
  PROVE  DOMAIN rows \subseteq DOMAIN rows'
<1>1. ASSUME NEW item, NEW order, ApplyEvent(item, order)
      PROVE  DOMAIN rows \subseteq DOMAIN rows'
  BY <1>1 DEF ApplyEvent, ApplySetup, ApplyConfigChange, ApplyProposal, ApplyApproval,
              ApplyExecution, WithRow, IndexerInv, CheckedRows
<1>2. ASSUME NEW v, NEW lo, NEW hi, NEW finish, NEW stored,
             StartSync(v, lo, hi, finish, stored)
      PROVE  DOMAIN rows \subseteq DOMAIN rows'
  BY <1>2 DEF StartSync, IndexerInv, CheckedRows
<1>3. ASSUME NEW v, RefuseSync(v) PROVE DOMAIN rows \subseteq DOMAIN rows'
  BY <1>3 DEF RefuseSync, IndexerInv, CheckedRows
<1>4. CASE Chain \/ Failure \/ UNCHANGED <<env, vars>>
  BY <1>4 DEF Chain, MineBlock, ArchiveIngest, Reorg, Failure, CallFails, Crash, vars
<1>5. CASE Routes
  BY <1>5 DEF Routes, SubscribeFrom, SubscribeNew, Unsubscribe, UnsubscribeFails, WithRow,
              IndexerInv, CheckedRows
<1>6. ASSUME NEW v, RescanUnready(v) \/ SyncKnown(v) PROVE DOMAIN rows \subseteq DOMAIN rows'
  <2>1. \/ UNCHANGED rows \/ RefuseSync(v)
        \/ \E lo, hi, finish, stored : StartSync(v, lo, hi, finish, stored)
    BY <1>6 DEF RescanUnready, SyncKnown, ReplayUnready, FirstScanStep
  <2> QED BY <1>2, <1>3, <2>1
<1>7. CASE IngestEvent
  <2>1. UNCHANGED rows \/ \E item, order : ApplyEvent(item, order)
    BY <1>7 DEF IngestEvent
  <2> QED BY <1>1, <2>1
<1>8. CASE FinishSync
  BY <1>8 DEF FinishSync, MarkSynced, IndexerInv, CheckedRows
<1>9. ASSUME NEW v, NEW b, ProcessCandidate(v, b) PROVE DOMAIN rows \subseteq DOMAIN rows'
  BY <1>9 DEF ProcessCandidate, WithRow
<1>10. CASE \/ TickBegins \/ EndDiscovery \/ EndRescan \/ EndTick \/ SyncOrphaned
            \/ \E v, id : RescanOrphaned(v, id)
  BY <1>10 DEF TickBegins, EndDiscovery, EndRescan, EndTick, SyncOrphaned, RescanOrphaned
<1> QED BY <1>4, <1>5, <1>6, <1>7, <1>8, <1>9, <1>10 DEF Next, Tick

(* Who called a sync that a turn of a later loop starts.                   *)
LEMMA TurnStage ==
  ASSUME NEW v, RescanUnready(v) \/ SyncKnown(v)
  PROVE  Stage' # "discover" /\ UNCHANGED <<archive, discovered>>
<1>1. pc \in {"rescan", "known"} /\ UNCHANGED <<archive, discovered>>
  BY DEF RescanUnready, SyncKnown, nodes, cursors
<1>2. \/ UNCHANGED pc
      \/ \E lo, hi, finish, stored : StartSync(v, lo, hi, finish, stored)
  BY DEF RescanUnready, SyncKnown, ReplayUnready, FirstScanStep, RefuseSync
<1>3. ASSUME NEW lo, NEW hi, NEW finish, NEW stored, StartSync(v, lo, hi, finish, stored)
      PROVE  pc' = "sync" /\ job'.back = pc
  BY <1>3 DEF StartSync, Job
<1> QED BY <1>1, <1>2, <1>3 DEF Stage

LEMMA NextDiscovers ==
  ASSUME IndexerInv, IndexerInv', CoverInv, ArchiveDiscovery, ~Lite,
         DiscoveryInv, [Next]_<<env, vars>>, reorgs \in Nat, reorgs' = 0
  PROVE  DiscoveryInv'
<1>1. /\ Bounds /\ OneChain /\ UNCHANGED env /\ archive \in Seq(Blocks)
      /\ daemon \in Seq(Blocks) /\ Len(archive) <= Len(daemon)
  BY ReorgsCount DEF CoverInv, IndexerInv, Chains
<1>2. Extends(archive, archive)
  BY <1>1, ExtendsItself
<1>3. ~TickRollsBack /\ ~(\E d \in 1..MaxReorgDepth : Reorg(d))
  BY <1>1, NoMismatch DEF TickRollsBack, Reorg
<1>4. DOMAIN rows \subseteq DOMAIN rows'
  BY <1>3, RowsOnlyGrow DEF DeleteContract
<1>5. ASSUME UNCHANGED <<archive, discovered>>, Stage' # "discover" \/ failed'
      PROVE  DiscoveryInv'
  BY <1>1, <1>2, <1>4, <1>5, DiscoveryKept
<1>6. ASSUME UNCHANGED <<discovered, latest, todo, failed>>, Stage' = Stage,
             Extends(archive, archive')
      PROVE  DiscoveryInv'
  BY <1>1, <1>4, <1>6, DiscoveryKept
<1>7. CASE Chain
  <2>1. /\ UNCHANGED <<discovered, latest, todo, failed, pc, job>>
        /\ UNCHANGED archive \/ ArchiveIngest
    BY <1>3, <1>7 DEF Chain, MineBlock, ArchiveIngest, cursors, local
  <2>2. Extends(archive, archive')
    <3>1. CASE ArchiveIngest
      <4>1. /\ Len(archive) \in 0..(Len(archive) + 1) /\ Len(archive) + 1 \in 0..Len(daemon)
            /\ archive' = Prefix(daemon, Len(archive) + 1)
            /\ archive = Prefix(daemon, Len(archive))
        BY <1>1, <3>1 DEF ArchiveIngest, OneChain
      <4>2. Extends(Prefix(daemon, Len(archive)), Prefix(daemon, Len(archive) + 1))
        BY <1>1, <4>1, PrefixExtends
      <4> QED BY <4>1, <4>2
    <3> QED BY <1>2, <2>1, <3>1
  <2>3. Stage' = Stage
    BY <2>1 DEF Stage
  <2> QED BY <1>6, <2>1, <2>2, <2>3
<1>8. CASE Routes \/ UNCHANGED <<env, vars>>
  <2>1. UNCHANGED <<archive, discovered, latest, todo, failed, pc, job>>
    BY <1>8 DEF Routes, SubscribeFrom, SubscribeNew, Unsubscribe, UnsubscribeFails,
                DeleteContract, vars, nodes, cursors, local
  <2>2. Stage' = Stage
    BY <2>1 DEF Stage
  <2> QED BY <1>2, <1>6, <2>1, <2>2
<1>9. CASE IngestEvent
  <2>1. UNCHANGED <<archive, discovered, latest, todo, failed, pc>> /\ pc = "sync"
    BY <1>9 DEF IngestEvent, nodes, cursors, local
  <2>2. job \in JobOn(job.vault)
    BY <2>1 DEF IndexerInv, SyncChecked
  <2>3. job'.back = job.back
    BY <1>9, <2>2 DEF IngestEvent, JobOn
  <2>4. Stage' = Stage
    BY <2>1, <2>3 DEF Stage
  <2> QED BY <1>2, <1>6, <2>1, <2>4
<1>10. CASE FinishSync
  <2>1. /\ UNCHANGED <<archive, discovered, latest, failed>> /\ pc = "sync" /\ pc' = job.back
        /\ \A t \in todo : t \in todo' \/ t = <<job.vault, job.id>>
        /\ job.finish => job.vault \in DOMAIN rows
    BY <1>10 DEF FinishSync, Exists, nodes, cursors, local
  <2>2. job \in JobOn(job.vault) /\ (job.back = "discover" => job.finish)
    BY <2>1 DEF IndexerInv, SyncChecked, CoverInv, SyncOwes
  <2>3. Stage' = Stage /\ Stage = job.back
    BY <2>1, <2>2 DEF Stage, JobOn, Callers
  <2> QED BY <1>1, <1>2, <1>4, <2>1, <2>2, <2>3, DiscoveryKept
<1>11. ASSUME NEW v, NEW b, ProcessCandidate(v, b) PROVE DiscoveryInv'
  <2>1. /\ UNCHANGED <<archive, discovered, latest, failed>> /\ pc = "discover"
        /\ todo' = todo \ {<<v, b>>}
    BY <1>11 DEF ProcessCandidate, nodes, cursors, local
  <2>2. v \in DOMAIN rows' \/ ~(v \in Safe /\ Deployed(archive, v))
    <3>1. \/ v \in DOMAIN rows \/ ~(Deployed(daemon, v) /\ v \in Safe)
          \/ rows' = WithRow(v, NewRow(b, Nothing, TRUE))
      BY <1>11 DEF ProcessCandidate
    <3> QED BY <1>1, <1>4, <3>1, ArchiveOnDaemon DEF WithRow
  <2>3. Stage = "discover"
    BY <2>1 DEF Stage
  <2> QED BY <1>1, <1>2, <1>4, <2>1, <2>2, <2>3, DiscoveryKept
<1>12. ASSUME NEW v, RescanUnready(v) \/ SyncKnown(v) PROVE DiscoveryInv'
  BY <1>5, <1>12, TurnStage
<1>13. CASE \/ EndRescan \/ EndTick \/ SyncOrphaned \/ Crash \/ CallFails
            \/ \E v, id : RescanOrphaned(v, id)
  <2>1. UNCHANGED <<archive, discovered>>
    BY <1>13 DEF EndRescan, EndTick, SyncOrphaned, Crash, CallFails, RescanOrphaned, nodes,
                 cursors
  <2>2. pc' \in {"known", "idle", "rescan"} \/ failed'
    BY <1>13 DEF EndRescan, EndTick, SyncOrphaned, Crash, CallFails, RescanOrphaned, AbortTick
  <2> QED BY <1>5, <2>1, <2>2 DEF Stage
<1> QED BY <1>1, <1>3, <1>7, <1>8, <1>9, <1>10, <1>11, <1>12, <1>13, BeginDiscovers,
           EndDiscoveryDiscovers DEF Next, Tick, Failure

(* Below the discovery cursor's window every safe deploy is tracked; what  *)
(* is above it, the next query returns.                                    *)
LEMMA DiscoveredOrQueried ==
  ASSUME IndexerInv, DiscoveryInv, ArchiveDiscovery
  PROVE  DeploysRetried
<1> SUFFICES ASSUME NEW v \in Safe, Deployed(archive, v)
             PROVE  v \in DOMAIN rows \cup Candidates
  BY DEF DeploysRetried
<1>1. PICK h \in DOMAIN archive : v \in archive[h].deploys
  BY DEF Deployed
<1>2. SafeDeploy(v, h) /\ h \in Nat /\ DiscoveryFrom \in Nat /\ v \in Vaults
  BY <1>1, DiscoveryFromIs, DeploymentFacts DEF SafeDeploy, DiscoveryInv, IndexerInv, Chains
<1>3. CASE h < DiscoveryFrom
  BY <1>2, <1>3 DEF DiscoveryInv
<1>4. CASE h >= DiscoveryFrom
  BY <1>1, <1>2, <1>4 DEF Candidates
<1> QED BY <1>2, <1>3, <1>4

-----------------------------------------------------------------------------
(* The order of a batch                                                    *)

(* Each pair of a sequence, the earlier first, is in relation R.           *)
Ordered(q, R) == \A i, j \in DOMAIN q : i < j => <<q[i], q[j]>> \in R

LEMMA EmptyOrdered ==
  ASSUME NEW X, NEW R
  PROVE  <<>> \in Seq(X) /\ DOMAIN <<>> = {} /\ Ordered(<<>>, R)
<1>1. <<>> \in Seq(X) /\ Len(<<>>) = 0
  OBVIOUS
<1>2. DOMAIN <<>> = {}
  OBVIOUS
<1> QED BY <1>1, <1>2 DEF Ordered

LEMMA OrderedConcat ==
  ASSUME NEW X, NEW p \in Seq(X), NEW q \in Seq(X), NEW R, Ordered(p, R), Ordered(q, R),
         \A i \in DOMAIN p : \A j \in DOMAIN q : <<p[i], q[j]>> \in R
  PROVE  Ordered(p \o q, R)
<1>1. /\ Len(p) \in Nat /\ Len(q) \in Nat /\ DOMAIN p = 1..Len(p) /\ DOMAIN q = 1..Len(q)
      /\ DOMAIN (p \o q) = 1..(Len(p) + Len(q))
      /\ \A i \in 1..(Len(p) + Len(q)) :
           (p \o q)[i] = IF i <= Len(p) THEN p[i] ELSE q[i - Len(p)]
  OBVIOUS
<1>2. ASSUME NEW i \in 1..(Len(p) + Len(q)), NEW j \in 1..(Len(p) + Len(q)), i < j
      PROVE  <<(p \o q)[i], (p \o q)[j]>> \in R
  <2>1. CASE j <= Len(p)
    BY <1>1, <1>2, <2>1 DEF Ordered
  <2>2. CASE i <= Len(p) /\ ~(j <= Len(p))
    <3>1. i \in DOMAIN p /\ j - Len(p) \in DOMAIN q
      BY <1>1, <1>2, <2>2
    <3> QED BY <1>1, <1>2, <2>2, <3>1
  <2>3. CASE ~(i <= Len(p))
    <3>1. /\ i - Len(p) \in DOMAIN q /\ j - Len(p) \in DOMAIN q /\ ~(j <= Len(p))
          /\ i - Len(p) < j - Len(p)
      BY <1>1, <1>2, <2>3
    <3>2. (p \o q)[i] = q[i - Len(p)] /\ (p \o q)[j] = q[j - Len(p)]
      BY <1>1, <1>2, <2>3, <3>1
    <3> QED BY <3>1, <3>2 DEF Ordered
  <2> QED BY <1>1, <1>2, <2>1, <2>2, <2>3
<1> QED BY <1>1, <1>2 DEF Ordered

(* The lifecycle order of event types.                                     *)
TypedAt(e, r) == EVENT_TYPE_ORDER[r] = e.type

RankOrder(E) ==
  {p \in E \X E :
     \E r, s \in 1..Len(EVENT_TYPE_ORDER) : r <= s /\ TypedAt(p[1], r) /\ TypedAt(p[2], s)}

LEMMA ByRankOrdered ==
  ASSUME NEW E, NEW s \in Seq(E), NEW v
  PROVE  Ordered(ByRank(s, v), RankOrder(E))
<1>1. PICK f : ByRankRun(f, s, v)
  BY ByRankRuns
<1>2. PICK n, R : n = Len(EVENT_TYPE_ORDER) /\ R = RankOrder(E)
  OBVIOUS
<1> DEFINE S == {k \in 0..n : /\ f[k] \in Seq(E) /\ Ordered(f[k], R)
                              /\ \A i \in DOMAIN f[k] : \E r \in 1..k : TypedAt(f[k][i], r)}
<1>3. n = 9
  BY <1>2 DEF EVENT_TYPE_ORDER
<1>4. 0 \in S
  <2>1. f[0] = <<>>
    BY <1>1 DEF ByRankRun
  <2>2. f[0] \in Seq(E) /\ DOMAIN f[0] = {} /\ Ordered(f[0], R)
    BY <2>1, EmptyOrdered
  <2> QED BY <1>3, <2>2
<1>5. ASSUME NEW k \in 1..n, k - 1 \in S PROVE k \in S
  <2> DEFINE part == Matching(s, v, {EVENT_TYPE_ORDER[k]})
  <2>1. part \in Seq(KeptOf(E, v, {EVENT_TYPE_ORDER[k]}))
    BY MatchingOf
  <2>2. f[k] = f[k - 1] \o part
    BY <1>1, <1>2 DEF ByRankRun
  <2> HIDE DEF part
  <2>3. /\ f[k - 1] \in Seq(E) /\ Ordered(f[k - 1], R) /\ k \in 0..n
        /\ \A i \in DOMAIN f[k - 1] : \E r \in 1..(k - 1) : TypedAt(f[k - 1][i], r)
    BY <1>3, <1>5
  <2>4. part \in Seq(E) /\ \A j \in DOMAIN part : part[j] \in E /\ TypedAt(part[j], k)
    <3>1. \A j \in DOMAIN part : part[j] \in KeptOf(E, v, {EVENT_TYPE_ORDER[k]})
      BY <2>1
    <3>2. \A j \in DOMAIN part : part[j] \in E /\ TypedAt(part[j], k)
      BY <3>1 DEF KeptOf, Kept, TypedAt
    <3>3. KeptOf(E, v, {EVENT_TYPE_ORDER[k]}) \subseteq E
      BY DEF KeptOf
    <3> QED BY <2>1, <3>2, <3>3, SeqWidens
  <2>5. Ordered(part, R)
    BY <1>2, <2>4 DEF Ordered, RankOrder
  <2>6. ASSUME NEW i \in DOMAIN f[k - 1], NEW j \in DOMAIN part
        PROVE  <<f[k - 1][i], part[j]>> \in R
    <3>1. PICK r \in 1..(k - 1) : TypedAt(f[k - 1][i], r)
      BY <2>3
    <3>2. r \in 1..n /\ k \in 1..n /\ r <= k
      BY <1>3
    <3>3. f[k - 1][i] \in E
      BY <2>3
    <3> QED BY <1>2, <2>4, <3>1, <3>2, <3>3 DEF RankOrder
  <2>7. Ordered(f[k - 1] \o part, R) /\ f[k - 1] \o part \in Seq(E)
    BY <2>3, <2>4, <2>5, <2>6, OrderedConcat
  <2>8. ASSUME NEW i \in DOMAIN (f[k - 1] \o part)
        PROVE  \E r \in 1..k : TypedAt((f[k - 1] \o part)[i], r)
    <3>1. \/ i \in DOMAIN f[k - 1] /\ (f[k - 1] \o part)[i] = f[k - 1][i]
          \/ \E j \in DOMAIN part : (f[k - 1] \o part)[i] = part[j]
      <4>1. CASE i <= Len(f[k - 1])
        BY <2>3, <2>4, <4>1
      <4>2. CASE ~(i <= Len(f[k - 1]))
        <5>1. i - Len(f[k - 1]) \in DOMAIN part
          BY <2>3, <2>4, <4>2
        <5> QED BY <2>3, <2>4, <4>2, <5>1
      <4> QED BY <4>1, <4>2
    <3>2. 1..(k - 1) \subseteq 1..k /\ k \in 1..k
      BY <1>3
    <3> QED BY <2>3, <2>4, <3>1, <3>2
  <2> QED BY <2>2, <2>3, <2>7, <2>8
<1>6. n \in S
  <2>1. \A k \in 1..n : k - 1 \in S => k \in S
    BY <1>5
  <2>2. n \in Nat
    BY <1>3
  <2> HIDE DEF S
  <2>3. 0..n \subseteq S
    BY <1>4, <2>1, <2>2, StepByStep, Zenon
  <2> QED BY <1>3, <2>3
<1> QED BY <1>1, <1>2, <1>6 DEF ByRankRun

(* By block, and within a block by the lifecycle: what orderEventsForApply *)
(* promises.                                                               *)
ApplyOrder(E) ==
  {p \in [event : E, height : Nat, hash : Seq(Blocks)] \X
         [event : E, height : Nat, hash : Seq(Blocks)] :
     \/ p[1].height < p[2].height
     \/ p[1].height = p[2].height /\ <<p[1].event, p[2].event>> \in RankOrder(E)}

LEMMA ItemsAtOrdered ==
  ASSUME NEW c \in Seq(Blocks), NEW v, NEW h \in DOMAIN c,
         \A b \in Blocks : b.events \in Seq(Event)
  PROVE  /\ Ordered(ItemsAt(c, h, v, TRUE), ApplyOrder(Event))
         /\ \A i \in DOMAIN ItemsAt(c, h, v, TRUE) : ItemsAt(c, h, v, TRUE)[i].height = h
<1>1. PICK q, s, items : /\ s = EventsAt(c, h, v) /\ q = ByRank(s, v)
                         /\ items = ItemsAt(c, h, v, TRUE)
  OBVIOUS
<1>2. c[h].events \in Seq(Event) /\ h \in Nat
  OBVIOUS
<1>3. s \in Seq(Mine(Event, v))
  BY <1>1, <1>2, EventsAtOf
<1>4. s \in Seq(Event)
  <2>1. Mine(Event, v) \subseteq Event
    BY DEF Mine
  <2> QED BY <1>3, <2>1, SeqWidens
<1>5. Ordered(q, RankOrder(Event))
  BY <1>1, <1>4, ByRankOrdered
<1>6. DOMAIN items = DOMAIN q /\ \A i \in DOMAIN q :
         items[i] = [event |-> q[i], height |-> h, hash |-> BlockHash(c, h)]
  BY <1>1 DEF ItemsAt, RankedAt
<1>7. BlockHash(c, h) \in Seq(Blocks)
  BY DEF BlockHash, Prefix
<1>8. ASSUME NEW i \in DOMAIN q, NEW j \in DOMAIN q, i < j
      PROVE  <<items[i], items[j]>> \in ApplyOrder(Event)
  <2>1. <<q[i], q[j]>> \in RankOrder(Event)
    BY <1>5, <1>8 DEF Ordered
  <2>2. q[i] \in Event /\ q[j] \in Event
    BY <2>1 DEF RankOrder
  <2>3. PICK x, y : x = items[i] /\ y = items[j]
    OBVIOUS
  <2>4. /\ x = [event |-> q[i], height |-> h, hash |-> BlockHash(c, h)]
        /\ y = [event |-> q[j], height |-> h, hash |-> BlockHash(c, h)]
    BY <1>6, <2>3
  <2>5. /\ x \in [event : Event, height : Nat, hash : Seq(Blocks)]
        /\ y \in [event : Event, height : Nat, hash : Seq(Blocks)]
        /\ x.height = y.height /\ x.event = q[i] /\ y.event = q[j]
    BY <1>2, <1>7, <2>2, <2>4
  <2> QED BY <2>1, <2>3, <2>5 DEF ApplyOrder
<1>9. Ordered(items, ApplyOrder(Event))
  BY <1>6, <1>8 DEF Ordered
<1>10. \A i \in DOMAIN items : items[i].height = h
  BY <1>6
<1> QED BY <1>1, <1>9, <1>10

LEMMA FetchOrdered ==
  ASSUME NEW c \in Seq(Blocks), NEW v, NEW lo, NEW hi \in Nat,
         \A b \in Blocks : b.events \in Seq(Event)
  PROVE  /\ Ordered(FetchEvents(c, v, lo, hi), ApplyOrder(Event))
         /\ \A i \in DOMAIN FetchEvents(c, v, lo, hi) : FetchEvents(c, v, lo, hi)[i].height <= hi
<1>1. PICK ranked \in BOOLEAN : ranked = TRUE
  OBVIOUS
<1>2. PICK f : InRangeRun(f, c, v, lo, hi, ranked)
  BY InRangeRuns
<1>3. PICK n, R, Y : n = Smaller(hi, Len(c)) /\ R = ApplyOrder(Event) /\ Y = ItemOf(c, v)
  OBVIOUS
<1>4. n \in Nat /\ n <= Len(c) /\ n <= hi
  BY <1>3 DEF Smaller
<1> DEFINE S == {k \in 0..n : /\ f[k] \in Seq(Y) /\ Ordered(f[k], R)
                              /\ \A i \in DOMAIN f[k] : f[k][i].height <= k}
<1>5. 0 \in S
  <2>1. f[0] = <<>>
    BY <1>2 DEF InRangeRun
  <2>2. f[0] \in Seq(Y) /\ DOMAIN f[0] = {} /\ Ordered(f[0], R)
    BY <2>1, EmptyOrdered
  <2> QED BY <1>4, <2>2
<1>6. ASSUME NEW k \in 1..n, k - 1 \in S PROVE k \in S
  <2>1. PICK part : part = ItemsAt(c, k, v, ranked)
    OBVIOUS
  <2>2. k \in DOMAIN c /\ k \in 0..n /\ k \in Nat
    BY <1>4
  <2>3. /\ part \in Seq(Y) /\ Ordered(part, R)
        /\ \A i \in DOMAIN part : part[i].height = k
    BY <1>1, <1>3, <2>1, <2>2, ItemsAtIs, ItemsAtOrdered
  <2>4. f[k] = <<>> \/ f[k] = f[k - 1] \o part
    BY <1>2, <1>3, <2>1 DEF InRangeRun
  <2>5. /\ f[k - 1] \in Seq(Y) /\ Ordered(f[k - 1], R)
        /\ \A i \in DOMAIN f[k - 1] : f[k - 1][i].height <= k - 1
    BY <1>6
  <2>6. CASE f[k] = <<>>
    <3>1. f[k] \in Seq(Y) /\ DOMAIN f[k] = {} /\ Ordered(f[k], R)
      BY <2>6, EmptyOrdered
    <3> QED BY <2>2, <3>1
  <2>7. CASE f[k] = f[k - 1] \o part
    <3>1. \A y \in Y : y \in [event : Event, height : Nat, hash : Seq(Blocks)]
      BY <1>3 DEF ItemOf, Item
    <3>2. ASSUME NEW i \in DOMAIN f[k - 1], NEW j \in DOMAIN part
          PROVE  <<f[k - 1][i], part[j]>> \in R
      <4>1. f[k - 1][i] \in Y /\ part[j] \in Y
        BY <2>3, <2>5
      <4>2. PICK x, y : x = f[k - 1][i] /\ y = part[j]
        OBVIOUS
      <4>3. /\ x \in [event : Event, height : Nat, hash : Seq(Blocks)]
            /\ y \in [event : Event, height : Nat, hash : Seq(Blocks)]
        BY <3>1, <4>1, <4>2
      <4>4. x.height <= k - 1 /\ y.height = k
        BY <2>3, <2>5, <4>2
      <4>5. x.height < y.height
        BY <2>2, <4>3, <4>4
      <4> QED BY <1>3, <4>2, <4>3, <4>5 DEF ApplyOrder
    <3>3. Ordered(f[k], R) /\ f[k] \in Seq(Y)
      BY <2>3, <2>5, <2>7, <3>2, OrderedConcat
    <3>4. ASSUME NEW i \in DOMAIN f[k] PROVE f[k][i].height <= k
      <4>1. CASE i <= Len(f[k - 1])
        <5>1. i \in DOMAIN f[k - 1] /\ f[k][i] = f[k - 1][i]
          BY <2>3, <2>5, <2>7, <4>1
        <5>2. f[k][i] \in Y
          BY <2>5, <5>1
        <5>3. f[k][i].height \in Nat /\ f[k][i].height <= k - 1
          BY <2>5, <3>1, <5>1, <5>2
        <5> QED BY <2>2, <5>3
      <4>2. CASE ~(i <= Len(f[k - 1]))
        <5>1. i - Len(f[k - 1]) \in DOMAIN part /\ f[k][i] = part[i - Len(f[k - 1])]
          BY <2>3, <2>5, <2>7, <4>2
        <5> QED BY <2>2, <2>3, <5>1
      <4> QED BY <4>1, <4>2
    <3> QED BY <2>2, <3>3, <3>4
  <2> QED BY <2>4, <2>6, <2>7
<1>7. n \in S
  <2>1. \A k \in 1..n : k - 1 \in S => k \in S
    BY <1>6
  <2> HIDE DEF S
  <2>2. 0..n \subseteq S
    BY <1>4, <1>5, <2>1, StepByStep, Zenon
  <2> QED BY <1>4, <2>2
<1>8. FetchEvents(c, v, lo, hi) = f[n]
  BY <1>1, <1>2, <1>3 DEF FetchEvents, InRangeRun
<1>9. \A i \in DOMAIN f[n] : f[n][i].height <= hi
  <2> SUFFICES ASSUME NEW i \in DOMAIN f[n] PROVE f[n][i].height <= hi
    OBVIOUS
  <2>1. f[n][i] \in Y /\ f[n][i].height <= n
    BY <1>7
  <2>2. f[n][i].height \in Nat
    BY <1>3, <2>1 DEF ItemOf, Item
  <2> QED BY <1>4, <2>1, <2>2
<1> QED BY <1>3, <1>7, <1>8, <1>9

-----------------------------------------------------------------------------
(* What is recorded is applied                                             *)

ProposalOf(p, e) == p.type = "proposal" /\ p.vault = e.vault /\ p.proposal = e.proposal

LocalVote(e) == e.type \in {"approval", "execution"} /\ ~e.remote

(* A vote follows the proposal it is about, in its block or below it.      *)
ProposedFirst(c) ==
  \A h \in DOMAIN c : \A i \in DOMAIN c[h].events :
    LocalVote(c[h].events[i]) =>
      \E k \in 1..h : \E j \in DOMAIN c[k].events : ProposalOf(c[k].events[j], c[h].events[i])

SameMark(m, e) ==
  m.vault = e.vault /\ m.type = e.type /\ m.proposal = e.proposal /\ m.by = e.by

Marked(e) == \E m \in marks : SameMark(m, e)

Snapshotted(e, h) == \E c \in configs : c.vault = e.vault /\ c.source = e /\ c.height = h

(* An EventRaw row belongs to a tracked vault and has its effect.          *)
AppliedRow(r) ==
  /\ r.event.vault \in DOMAIN rows
  /\ r.event.type = "proposal" => HasProposal(r.event.vault, r.event.proposal)
  /\ r.event.type \in {"setup"} \cup ConfigChanges => Snapshotted(r.event, r.height)
  /\ LocalVote(r.event) /\ TrackedFromStart(r.event.vault) => Marked(r.event)

AppliedInv == \A r \in raw : AppliedRow(r)

(* A vote in a batch finds its proposal in the table, or the batch applies *)
(* the proposal before the vote.                                           *)
VotesFollow(q, v) ==
  \A j \in DOMAIN q :
    LocalVote(q[j].event) =>
      \/ HasProposal(v, q[j].event.proposal)
      \/ \E i \in 1..(j - 1) : ProposalOf(q[i].event, q[j].event)

VotesInOrder ==
  pc = "sync" /\ Exists(job.vault, job.id) /\ TrackedFromStart(job.vault) =>
    VotesFollow(job.batch, job.vault)

(* A row's first block is written once.                                    *)
LEMMA FirstBlocksKept ==
  ASSUME IndexerInv, [Next]_<<env, vars>>, ~TickRollsBack,
         NEW v \in DOMAIN rows, v \in DOMAIN rows'
  PROVE  rows'[v].discoveredAt = rows[v].discoveredAt
<1>1. rows \in [DOMAIN rows -> Row]
  BY DEF IndexerInv, CheckedRows
<1>2. ASSUME NEW u, NEW w, w.discoveredAt = rows[u].discoveredAt, rows' = [rows EXCEPT ![u] = w]
      PROVE  rows'[v].discoveredAt = rows[v].discoveredAt
  BY <1>1, <1>2
<1>3. ASSUME NEW u, u \in DOMAIN rows
      PROVE  /\ [rows[u] EXCEPT !.verified = TRUE].discoveredAt = rows[u].discoveredAt
             /\ [rows[u] EXCEPT !.ready = FALSE, !.verified = FALSE].discoveredAt =
                  rows[u].discoveredAt
             /\ \A p : [rows[u] EXCEPT !.parent = p].discoveredAt = rows[u].discoveredAt
             /\ \A b : [rows[u] EXCEPT !.synced = TRUE, !.ready = b].discoveredAt =
                         rows[u].discoveredAt
  <2>1. rows[u] \in Row
    BY <1>1, <1>3
  <2> QED BY <2>1 DEF Row
<1>4. ASSUME NEW u, NEW w, u \notin DOMAIN rows, rows' = WithRow(u, w)
      PROVE  rows'[v].discoveredAt = rows[v].discoveredAt
  BY <1>4 DEF WithRow
<1>5. ASSUME NEW item, NEW order, item.event.vault \in DOMAIN rows, ApplyEvent(item, order)
      PROVE  rows'[v].discoveredAt = rows[v].discoveredAt
  <2>1. CASE ApplySetup(item, order)
    <3>1. rows' = [rows EXCEPT ![item.event.vault] =
                     [rows[item.event.vault] EXCEPT !.parent = Parent[item.event.vault]]]
      BY <2>1 DEF ApplySetup
    <3> QED BY <1>2, <1>3, <1>5, <3>1
  <2>2. CASE ApplyProposal(item)
    <3>1. UNCHANGED rows \/ \E u, w : u \notin DOMAIN rows /\ rows' = WithRow(u, w)
      BY <2>2 DEF ApplyProposal
    <3> QED BY <1>4, <3>1
  <2> QED BY <1>5, <2>1, <2>2
          DEF ApplyEvent, ApplyConfigChange, ApplyApproval, ApplyExecution
<1>6. ASSUME NEW u \in DOMAIN rows, NEW lo, NEW hi, NEW finish, NEW stored,
             StartSync(u, lo, hi, finish, stored)
      PROVE  rows'[v].discoveredAt = rows[v].discoveredAt
  <2>1. rows' = [rows EXCEPT ![u] = [rows[u] EXCEPT !.verified = TRUE]]
    BY <1>6 DEF StartSync
  <2> QED BY <1>2, <1>3, <2>1
<1>7. ASSUME NEW u \in DOMAIN rows, RefuseSync(u)
      PROVE  rows'[v].discoveredAt = rows[v].discoveredAt
  <2>1. \/ UNCHANGED rows
        \/ rows' = [rows EXCEPT ![u] = [rows[u] EXCEPT !.ready = FALSE, !.verified = FALSE]]
    BY <1>7 DEF RefuseSync
  <2> QED BY <1>2, <1>3, <2>1
<1>8. CASE Chain \/ Failure \/ UNCHANGED <<env, vars>>
  BY <1>8 DEF Chain, MineBlock, ArchiveIngest, Reorg, Failure, CallFails, Crash, vars
<1>9. ASSUME NEW u, NEW b, \/ SubscribeFrom(u, b) \/ SubscribeNew(u) \/ Unsubscribe(u)
                             \/ DeleteContract(u) \/ UnsubscribeFails
      PROVE  rows'[v].discoveredAt = rows[v].discoveredAt
  <2>1. CASE SubscribeFrom(u, b)
    <3>1. \/ u \in DOMAIN rows /\ rows' = [rows EXCEPT ![u] = [rows[u] EXCEPT !.verified = TRUE]]
          \/ u \notin DOMAIN rows /\ rows' = WithRow(u, NewRow(b, Nothing, TRUE))
      BY <2>1 DEF SubscribeFrom
    <3> QED BY <1>2, <1>3, <1>4, <3>1
  <2>2. CASE SubscribeNew(u)
    BY <1>4, <2>2 DEF SubscribeNew
  <2>3. CASE Unsubscribe(u) \/ DeleteContract(u) \/ UnsubscribeFails
    BY <2>3 DEF Unsubscribe, DeleteContract, UnsubscribeFails
  <2> QED BY <1>9, <2>1, <2>2, <2>3
<1>10. ASSUME NEW u, RescanUnready(u) \/ SyncKnown(u)
       PROVE  rows'[v].discoveredAt = rows[v].discoveredAt
  <2>1. /\ u \in DOMAIN rows
        /\ \/ UNCHANGED rows \/ RefuseSync(u)
           \/ \E lo, hi, finish, stored : StartSync(u, lo, hi, finish, stored)
    BY <1>10 DEF RescanUnready, SyncKnown, ReplayUnready, FirstScanStep
  <2> QED BY <1>6, <1>7, <2>1
<1>11. CASE IngestEvent
  <2>1. pc = "sync" /\ job.batch # <<>> /\ Exists(job.vault, job.id)
    BY <1>11 DEF IngestEvent
  <2>2. job.batch \in Seq(Item(job.vault)) /\ job.vault \in DOMAIN rows
    BY <2>1 DEF IndexerInv, SyncChecked, JobOn, Exists
  <2>3. Head(job.batch) \in Item(job.vault)
    BY <2>1, <2>2
  <2>4. Head(job.batch).event.vault \in DOMAIN rows
    BY <2>2, <2>3 DEF Item
  <2>5. UNCHANGED rows \/ ApplyEvent(Head(job.batch), job.seq)
    BY <1>11 DEF IngestEvent
  <2> QED BY <1>5, <2>4, <2>5
<1>12. CASE FinishSync
  <2>1. \/ UNCHANGED rows
        \/ /\ job.vault \in DOMAIN rows
           /\ \E b : rows' = [rows EXCEPT ![job.vault] =
                                [rows[job.vault] EXCEPT !.synced = TRUE, !.ready = b]]
    BY <1>12 DEF FinishSync, MarkSynced, Exists
  <2>2. CASE /\ job.vault \in DOMAIN rows
             /\ \E b : rows' = [rows EXCEPT ![job.vault] =
                                  [rows[job.vault] EXCEPT !.synced = TRUE, !.ready = b]]
    <3>1. PICK b, w : /\ w = [rows[job.vault] EXCEPT !.synced = TRUE, !.ready = b]
                      /\ rows' = [rows EXCEPT ![job.vault] = w]
      BY <2>2
    <3>2. w.discoveredAt = rows[job.vault].discoveredAt
      BY <1>3, <2>2, <3>1
    <3> QED BY <1>2, <3>1, <3>2
  <2> QED BY <2>1, <2>2
<1>13. ASSUME NEW u, NEW b, ProcessCandidate(u, b)
       PROVE  rows'[v].discoveredAt = rows[v].discoveredAt
  <2>1. UNCHANGED rows \/ (u \notin DOMAIN rows /\ rows' = WithRow(u, NewRow(b, Nothing, TRUE)))
    BY <1>13 DEF ProcessCandidate
  <2> QED BY <1>4, <2>1
<1>14. CASE \/ TickBegins \/ EndDiscovery \/ EndRescan \/ EndTick \/ SyncOrphaned
            \/ \E u, id : RescanOrphaned(u, id)
  BY <1>14 DEF TickBegins, EndDiscovery, EndRescan, EndTick, SyncOrphaned, RescanOrphaned
<1> QED BY <1>8, <1>9, <1>10, <1>11, <1>12, <1>13, <1>14 DEF Next, Tick, Routes

(* The chain grows at its end, and a vote keeps its proposal below it.     *)
LEMMA DaemonGrows ==
  ASSUME IndexerInv, [Next]_<<env, vars>>, ~(\E d \in 1..MaxReorgDepth : Reorg(d))
  PROVE  Extends(daemon, daemon') /\ (ProposedFirst(daemon) => ProposedFirst(daemon'))
<1>1. daemon \in Seq(Blocks) /\ Len(daemon) \in Nat
  BY DEF IndexerInv, Chains
<1>2. UNCHANGED daemon \/ \E b \in Blocks : MineBlock(b)
  BY DEF Next, Chain, Tick, Failure, Routes, ArchiveIngest, TickRollsBack,
         TickBegins, RescanUnready, SyncKnown, ProcessCandidate, RescanOrphaned,
         EndDiscovery, EndRescan, EndTick, IngestEvent, FinishSync, SyncOrphaned,
         CallFails, Crash, SubscribeFrom, SubscribeNew, Unsubscribe, UnsubscribeFails,
         DeleteContract, nodes, vars
<1>3. CASE UNCHANGED daemon
  BY <1>1, <1>3, ExtendsItself
<1>4. ASSUME NEW b \in Blocks, MineBlock(b)
      PROVE  Extends(daemon, daemon') /\ (ProposedFirst(daemon) => ProposedFirst(daemon'))
  <2>1. daemon' = Append(daemon, b) /\ ValidOn(daemon, b)
    BY <1>4 DEF MineBlock
  <2>2. Extends(daemon, daemon')
    BY <1>1, <2>1, ExtendsAppend
  <2>3. /\ DOMAIN daemon' = 1..(Len(daemon) + 1) /\ DOMAIN daemon = 1..Len(daemon)
        /\ \A k \in 1..Len(daemon) : daemon'[k] = daemon[k]
        /\ daemon'[Len(daemon) + 1] = b
    BY <1>1, <2>1
  <2>4. ASSUME ProposedFirst(daemon), NEW h \in DOMAIN daemon',
               NEW i \in DOMAIN daemon'[h].events, LocalVote(daemon'[h].events[i])
        PROVE  \E k \in 1..h : \E j \in DOMAIN daemon'[k].events :
                 ProposalOf(daemon'[k].events[j], daemon'[h].events[i])
    <3>1. CASE h \in DOMAIN daemon
      <4>1. daemon'[h] = daemon[h]
        BY <2>3, <3>1
      <4>2. PICK k \in 1..h : \E j \in DOMAIN daemon[k].events :
                    ProposalOf(daemon[k].events[j], daemon[h].events[i])
        BY <2>4, <3>1, <4>1 DEF ProposedFirst
      <4>3. k \in 1..Len(daemon)
        BY <1>1, <2>3, <3>1
      <4>4. daemon'[k] = daemon[k]
        BY <2>3, <4>3
      <4> QED BY <4>1, <4>2, <4>4
    <3>2. CASE h = Len(daemon) + 1
      <4>1. daemon'[h] = b /\ h \in 1..h
        BY <1>1, <2>3, <3>2
      <4>2. PICK e : e = b.events[i]
        OBVIOUS
      <4>3. PICK before : before = {b.events[j] : j \in 1..(i - 1)}
        OBVIOUS
      <4>4. CanEmit(e, before, daemon, b)
        BY <2>1, <2>4, <4>1, <4>2, <4>3 DEF ValidOn
      <4>5. PICK p \in EventsOf(daemon) \cup before : ProposalOf(p, e)
        BY <2>4, <4>1, <4>2, <4>4 DEF CanEmit, ProposalVault, LocalVote, ProposalOf
      <4>6. CASE p \in before
        <5>1. b.events \in Seq(Event) /\ i \in DOMAIN b.events
          BY <2>4, <4>1, DeploymentFacts DEF IndexerInv
        <5>2. PICK j \in 1..(i - 1) : p = b.events[j]
          BY <4>3, <4>6
        <5>3. j \in DOMAIN b.events
          BY <5>1, <5>2
        <5> QED BY <4>1, <4>2, <4>5, <5>2, <5>3
      <4>7. CASE p \in EventsOf(daemon)
        <5>1. PICK k \in DOMAIN daemon : \E j \in DOMAIN daemon[k].events : p = daemon[k].events[j]
          BY <4>7 DEF EventsOf
        <5>2. k \in 1..h /\ daemon'[k] = daemon[k]
          BY <1>1, <2>3, <3>2, <5>1
        <5> QED BY <4>1, <4>2, <4>5, <5>1, <5>2
      <4> QED BY <4>5, <4>6, <4>7
    <3> QED BY <1>1, <2>3, <3>1, <3>2
  <2> QED BY <2>2, <2>4 DEF ProposedFirst
<1> QED BY <1>2, <1>3, <1>4

LEMMA StillTracked ==
  ASSUME IndexerInv, IndexerInv', UNCHANGED env, Extends(daemon, daemon'),
         NEW v \in DOMAIN rows, v \in DOMAIN rows',
         rows'[v].discoveredAt = rows[v].discoveredAt, TrackedFromStart(v)'
  PROVE  TrackedFromStart(v)
<1>1. daemon \in Seq(Blocks) /\ daemon' \in Seq(Blocks)
  BY EnvFixed DEF IndexerInv, Chains
<1>2. /\ DOMAIN daemon \subseteq DOMAIN daemon'
      /\ \A h \in DOMAIN daemon : daemon[h] = daemon'[h]
  BY <1>1, ExtendsFacts
<1> QED BY <1>2 DEF TrackedFromStart

(* What a step keeps of a vault's tables; a mark may be written again.     *)
TablesKept(v) ==
  /\ \A x \in proposals : x.vault = v => x \in proposals'
  /\ \A x \in configs : x.vault = v => x \in configs'
  /\ \A e : e.vault = v /\ Marked(e) => Marked(e)'

LEMMA AppliedKept ==
  ASSUME NEW r, AppliedRow(r), r.event.vault \in DOMAIN rows', TablesKept(r.event.vault),
         TrackedFromStart(r.event.vault)' => TrackedFromStart(r.event.vault)
  PROVE  AppliedRow(r)'
<1>1. r.event.type = "proposal" => HasProposal(r.event.vault, r.event.proposal)'
  BY DEF AppliedRow, HasProposal, TablesKept
<1>2. r.event.type \in {"setup"} \cup ConfigChanges => Snapshotted(r.event, r.height)'
  BY DEF AppliedRow, Snapshotted, TablesKept
<1>3. LocalVote(r.event) /\ TrackedFromStart(r.event.vault)' => Marked(r.event)'
  BY DEF AppliedRow, TablesKept
<1> QED BY <1>1, <1>2, <1>3 DEF AppliedRow, LocalVote

(* Applying an event takes nothing from the tables, and has its effect: a  *)
(* vote's mark when its proposal is there.                                 *)
LEMMA SnapshotKeeps ==
  ASSUME NEW item, NEW order, NEW sets, AppendContractConfigSnapshot(item, order, sets)
  PROVE  configs \subseteq configs' /\ Snapshotted(item.event, item.height)'
<1>1. PICK c : /\ c.vault = item.event.vault /\ c.source = item.event /\ c.height = item.height
               /\ configs' = configs \cup {c}
  <2>1. PICK base \in LatestConfigs(item.event.vault) :
          configs' = configs \cup
            {[vault |-> item.event.vault, height |-> item.height, order |-> order,
              source |-> item.event,
              vals |-> [f \in Fields |-> IF f \in sets THEN item.event ELSE base[f]]]}
    BY DEF AppendContractConfigSnapshot
  <2> QED BY <2>1
<1> QED BY <1>1 DEF Snapshotted

LEMMA MarkKeeps ==
  ASSUME NEW v, NEW item, UpsertMark(v, item)
  PROVE  /\ \A e : Marked(e) => Marked(e)'
         /\ item.event.vault = v => Marked(item.event)'
<1>1. PICK n, same : /\ marks' = (marks \ same) \cup {n}
                     /\ n = [vault |-> v, proposal |-> item.event.proposal,
                             type |-> item.event.type, by |-> item.event.by,
                             height |-> item.height]
                     /\ same = {m \in marks :
                                  /\ m.vault = v /\ m.proposal = item.event.proposal
                                  /\ m.type = item.event.type /\ m.by = item.event.by}
  BY DEF UpsertMark
<1>2. /\ n.vault = v /\ n.proposal = item.event.proposal /\ n.type = item.event.type
      /\ n.by = item.event.by
  BY <1>1
<1>3. ASSUME NEW e, Marked(e) PROVE Marked(e)'
  <2>1. PICK m \in marks : SameMark(m, e)
    BY <1>3 DEF Marked
  <2>2. CASE m \in same
    <3>1. SameMark(n, e)
      BY <1>1, <1>2, <2>1, <2>2 DEF SameMark
    <3> QED BY <1>1, <3>1 DEF Marked, SameMark
  <2>3. CASE m \notin same
    BY <1>1, <2>1, <2>3 DEF Marked, SameMark
  <2> QED BY <2>2, <2>3
<1>4. ASSUME item.event.vault = v PROVE Marked(item.event)'
  <2>1. SameMark(n, item.event) /\ n \in marks'
    BY <1>1, <1>2, <1>4 DEF SameMark
  <2> QED BY <2>1 DEF Marked, SameMark
<1> QED BY <1>3, <1>4

LEMMA ApplyKeeps ==
  ASSUME NEW item, NEW order, ApplyEvent(item, order)
  PROVE  /\ \A v : TablesKept(v)
         /\ item.event.type = "proposal" => HasProposal(item.event.vault, item.event.proposal)'
         /\ item.event.type \in {"setup"} \cup ConfigChanges => Snapshotted(item.event, item.height)'
         /\ LocalVote(item.event) /\ HasProposal(item.event.vault, item.event.proposal) =>
              Marked(item.event)'
<1>1. ASSUME UNCHANGED marks PROVE \A e : Marked(e) => Marked(e)'
  BY <1>1 DEF Marked
<1>2. CASE item.event.type = "setup" /\ ApplySetup(item, order)
  <2>1. UNCHANGED <<proposals, marks>> /\ AppendContractConfigSnapshot(item, order, item.event.sets)
    BY <1>2 DEF ApplySetup
  <2> QED BY <1>1, <1>2, <2>1, SnapshotKeeps DEF TablesKept, LocalVote
<1>3. CASE item.event.type \in ConfigChanges /\ ApplyConfigChange(item, order)
  <2>1. UNCHANGED <<proposals, marks>> /\ AppendContractConfigSnapshot(item, order, item.event.sets)
    BY <1>3 DEF ApplyConfigChange
  <2> QED BY <1>1, <1>3, <2>1, SnapshotKeeps DEF TablesKept, LocalVote, ConfigChanges
<1>4. CASE item.event.type = "proposal" /\ ApplyProposal(item)
  <2>1. UNCHANGED <<configs, marks>> /\ proposals \subseteq proposals'
    BY <1>4 DEF ApplyProposal
  <2>2. HasProposal(item.event.vault, item.event.proposal)'
    <3>1. CASE HasProposal(item.event.vault, item.event.proposal)
      BY <2>1, <3>1 DEF HasProposal
    <3>2. CASE ~HasProposal(item.event.vault, item.event.proposal)
      <4>1. PICK n : /\ n.vault = item.event.vault /\ n.proposal = item.event.proposal
                     /\ n \in proposals'
        <5>1. proposals' = proposals \cup
                {[vault |-> item.event.vault, proposal |-> item.event.proposal,
                  height |-> item.height]}
          BY <1>4, <3>2 DEF ApplyProposal
        <5> QED BY <5>1
      <4> QED BY <4>1 DEF HasProposal
    <3> QED BY <3>1, <3>2
  <2> QED BY <1>1, <1>4, <2>1, <2>2 DEF TablesKept, LocalVote, ConfigChanges
<1>5. CASE item.event.type = "approval" /\ ApplyApproval(item)
  <2>1. /\ UNCHANGED <<configs, proposals>>
        /\ \/ UNCHANGED marks /\ ~HasProposal(item.event.vault, item.event.proposal)
           \/ UpsertMark(item.event.vault, item)
    BY <1>5 DEF ApplyApproval
  <2> QED BY <1>1, <1>5, <2>1, MarkKeeps DEF TablesKept, ConfigChanges
<1>6. CASE item.event.type = "execution" /\ ApplyExecution(item, order)
  <2>1. UNCHANGED proposals
    BY <1>6 DEF ApplyExecution
  <2>2. UNCHANGED configs \/ \E sets : AppendContractConfigSnapshot(item, order, sets)
    BY <1>6 DEF ApplyExecution
  <2>3. UNCHANGED marks \/ \E v : UpsertMark(v, item)
    BY <1>6 DEF ApplyExecution
  <2>4. HasProposal(item.event.vault, item.event.proposal) =>
          UpsertMark(item.event.vault, item)
    BY <1>6 DEF ApplyExecution
  <2>5. configs \subseteq configs'
    BY <2>2, SnapshotKeeps
  <2>6. \A e : Marked(e) => Marked(e)'
    BY <1>1, <2>3, MarkKeeps
  <2>7. \A v : TablesKept(v)
    BY <2>1, <2>5, <2>6 DEF TablesKept
  <2> QED BY <1>6, <2>4, <2>7, MarkKeeps DEF ConfigChanges
<1> QED BY <1>2, <1>3, <1>4, <1>5, <1>6 DEF ApplyEvent

(* orderEventsForApply puts a proposal before its votes, in one block too. *)
LEMMA ProposalSorted ==
  ASSUME NEW x, NEW y, <<x, y>> \in ApplyOrder(Event), x.event.type \in {"approval", "execution"},
         y.event.type = "proposal"
  PROVE  x.height < y.height
<1> SUFFICES ASSUME <<x.event, y.event>> \in RankOrder(Event) PROVE FALSE
  BY DEF ApplyOrder
<1>1. PICK r, s \in 1..Len(EVENT_TYPE_ORDER) :
        r <= s /\ TypedAt(x.event, r) /\ TypedAt(y.event, s)
  BY DEF RankOrder
<1>2. r \in 1..9 /\ s \in 1..9
  BY DEF EVENT_TYPE_ORDER
<1>3. s = 2
  BY <1>1, <1>2 DEF TypedAt, EVENT_TYPE_ORDER
<1>4. r \in {3, 4}
  BY <1>1, <1>2 DEF TypedAt, EVENT_TYPE_ORDER
<1> QED BY <1>1, <1>3, <1>4

LEMMA FetchedFollow ==
  ASSUME IndexerInv, OneChain, ProposedFirst(daemon), AppliedInv,
         NEW v, NEW lo, NEW hi \in Nat, NEW q, q = FetchEvents(archive, v, lo, hi), Owed(v, hi, q)
  PROVE  VotesFollow(q, v)
<1> SUFFICES ASSUME NEW j \in DOMAIN q, LocalVote(q[j].event),
                    ~HasProposal(v, q[j].event.proposal)
             PROVE  \E i \in 1..(j - 1) : ProposalOf(q[i].event, q[j].event)
  BY DEF VotesFollow
<1>1. /\ archive \in Seq(Blocks) /\ daemon \in Seq(Blocks) /\ Len(archive) <= Len(daemon)
      /\ Extends(archive, daemon) /\ \A b \in Blocks : b.events \in Seq(Event)
  BY DeploymentFacts DEF IndexerInv, Chains, OneChain, Extends
<1>2. q \in Seq(ItemOf(archive, v))
  BY <1>1, InRangeOf DEF FetchEvents
<1>3. Ordered(q, ApplyOrder(Event)) /\ \A i \in DOMAIN q : q[i].height <= hi
  BY <1>1, FetchOrdered
<1>4. PICK e, H : e = q[j].event /\ H = q[j].height
  OBVIOUS
<1>5. H \in DOMAIN archive /\ In(e, archive[H].events) /\ e.vault = v /\ H <= hi
  <2>1. q[j] \in ItemOf(archive, v)
    BY <1>2
  <2> QED BY <1>3, <1>4, <2>1 DEF ItemOf, Item
<1>6. H \in DOMAIN daemon /\ archive[H] = daemon[H]
  BY <1>1, <1>5, ExtendsFacts
<1>7. PICK k \in 1..H : \E i \in DOMAIN daemon[k].events : ProposalOf(daemon[k].events[i], e)
  <2>1. PICK i \in DOMAIN daemon[H].events : daemon[H].events[i] = e
    BY <1>5, <1>6 DEF In
  <2> QED BY <1>4, <1>6, <2>1 DEF ProposedFirst
<1>8. k \in DOMAIN archive /\ k <= H /\ k <= hi /\ H \in Nat
  BY <1>1, <1>5
<1>9. archive[k] = daemon[k]
  BY <1>1, <1>8, ExtendsFacts
<1>10. PICK i \in DOMAIN archive[k].events : ProposalOf(archive[k].events[i], e)
  BY <1>7, <1>9
<1>11. PICK p : p = archive[k].events[i]
  OBVIOUS
<1>12. p.vault = v /\ p.type = "proposal" /\ p.proposal = e.proposal /\ ProposalOf(p, e)
  BY <1>5, <1>10, <1>11 DEF ProposalOf
<1>13. RecordedAt(p, k) \/ InBatch(q, p, k)
  BY <1>8, <1>11, <1>12 DEF Owed
<1>14. ~RecordedAt(p, k)
  BY <1>4, <1>12 DEF RecordedAt, AppliedInv, AppliedRow
<1>15. PICK m \in DOMAIN q : q[m].event = p /\ q[m].height = k
  BY <1>13, <1>14 DEF InBatch
<1>16. j \in Nat /\ m \in Nat /\ 1 <= m
  BY <1>2
<1>17. e.type \in {"approval", "execution"}
  BY <1>4 DEF LocalVote
<1>18. m # j
  BY <1>4, <1>12, <1>15, <1>17
<1>19. ~(j < m)
  <2> SUFFICES ASSUME j < m PROVE FALSE
    OBVIOUS
  <2>1. <<q[j], q[m]>> \in ApplyOrder(Event)
    BY <1>3 DEF Ordered
  <2>2. H < k
    BY <1>4, <1>12, <1>15, <1>17, <2>1, ProposalSorted
  <2> QED BY <1>8, <2>2
<1>20. m \in 1..(j - 1)
  BY <1>16, <1>18, <1>19
<1> QED BY <1>4, <1>12, <1>15, <1>20

(* A sync starts with a batch that has every vote's proposal before it.    *)
LEMMA StartFollows ==
  ASSUME IndexerInv, IndexerInv', OneChain, ProposedFirst(daemon), AppliedInv,
         UNCHANGED <<archive, raw, proposals>>, SyncOwes', pc' = "sync",
         \E lo : job'.batch = FetchEvents(archive, job'.vault, lo, job'.to)
  PROVE  VotesInOrder'
<1> SUFFICES ASSUME Exists(job.vault, job.id)', TrackedFromStart(job.vault)'
             PROVE  VotesFollow(job.batch, job.vault)'
  BY DEF VotesInOrder
<1>1. PICK v, hi, q, lo : /\ v = job'.vault /\ hi = job'.to /\ q = job'.batch
                          /\ q = FetchEvents(archive, v, lo, hi)
  OBVIOUS
<1>2. hi \in Nat
  BY <1>1 DEF IndexerInv, SyncChecked, JobOn
<1>3. Owed(job.vault, job.to, job.batch)'
  BY DEF SyncOwes
<1>4. Owed(v, hi, q)
  BY <1>1, <1>3 DEF Owed, RecordedAt, InBatch
<1>5. VotesFollow(q, v)
  BY <1>1, <1>2, <1>4, FetchedFollow
<1> QED BY <1>1, <1>5 DEF VotesFollow, HasProposal, LocalVote, ProposalOf

(* A running sync that a step does not touch.                              *)
LEMMA FollowsKept ==
  ASSUME IndexerInv, IndexerInv', UNCHANGED <<env, job, pc>>, Ids, Grows, VotesInOrder,
         \A v \in DOMAIN rows' : TablesKept(v)
  PROVE  VotesInOrder'
<1> SUFFICES ASSUME pc = "sync", Exists(job.vault, job.id)', TrackedFromStart(job.vault)'
             PROVE  VotesFollow(job.batch, job.vault)'
  BY DEF VotesInOrder
<1>1. PICK v, id, q : v = job.vault /\ id = job.id /\ q = job.batch
  OBVIOUS
<1>2. v \in DOMAIN rows' /\ rows'[v].id = id /\ OldId(v, id)
  BY <1>1 DEF Exists, Ids
<1>3. Carried(v)
  BY <1>2, OldIdKept
<1>4. Exists(v, id)
  BY <1>2, <1>3 DEF Exists, Carried
<1>5. TrackedFromStart(v)'
  BY <1>1
<1>6. TrackedFromStart(v)
  BY <1>2, <1>3, <1>5, TrackedKept
<1>7. VotesFollow(q, v)
  BY <1>1, <1>4, <1>6 DEF VotesInOrder
<1>8. \A p : HasProposal(v, p) => HasProposal(v, p)'
  BY <1>2 DEF HasProposal, TablesKept
<1>9. VotesFollow(q, v)'
  BY <1>7, <1>8 DEF VotesFollow, LocalVote, ProposalOf
<1> QED BY <1>1, <1>9

(* The next event of a batch is applied with its proposal in the table.    *)
LEMMA IngestApplies ==
  ASSUME IndexerInv, IndexerInv', UNCHANGED env, AppliedInv, VotesInOrder, IngestEvent,
         \A v \in DOMAIN rows :
           v \in DOMAIN rows' /\ (TrackedFromStart(v)' => TrackedFromStart(v))
  PROVE  AppliedInv' /\ VotesInOrder'
<1>1. PICK v, q, item, ok : /\ v = job.vault /\ q = job.batch /\ item = Head(q)
                            /\ ok = Decodes(item.event)
  OBVIOUS
<1>2. pc = "sync" /\ q # <<>> /\ Exists(v, job.id) /\ UNCHANGED pc
  BY <1>1 DEF IngestEvent
<1>3. job \in JobOn(v) /\ q \in Seq(Item(v)) /\ v \in DOMAIN rows
  BY <1>1, <1>2 DEF IndexerInv, SyncChecked, Exists, JobOn
<1>4. /\ item \in Item(v) /\ item = q[1] /\ 1 \in DOMAIN q /\ item.event.vault = v
      /\ DOMAIN q = 1..Len(q) /\ Len(q) \in Nat /\ DOMAIN Tail(q) = 1..(Len(q) - 1)
      /\ \A j \in 1..(Len(q) - 1) : Tail(q)[j] = q[j + 1] /\ j + 1 \in DOMAIN q
  <2>1. item \in Item(v) /\ item = q[1] /\ 1 \in DOMAIN q
    BY <1>1, <1>2, <1>3
  <2>2. /\ DOMAIN q = 1..Len(q) /\ Len(q) \in Nat /\ DOMAIN Tail(q) = 1..(Len(q) - 1)
        /\ \A j \in 1..(Len(q) - 1) : Tail(q)[j] = q[j + 1] /\ j + 1 \in DOMAIN q
    BY <1>2, <1>3
  <2> QED BY <2>1, <2>2 DEF Item
<1>5. job'.vault = v /\ job'.id = job.id /\ job'.batch = Tail(q)
  BY <1>1, <1>3 DEF IngestEvent, JobOn
<1>6. TrackedFromStart(v) => VotesFollow(q, v)
  BY <1>1, <1>2 DEF VotesInOrder
<1>7. \A u : TablesKept(u)
  <2>1. UNCHANGED <<configs, proposals, marks>> \/ ApplyEvent(item, job.seq)
    BY <1>1 DEF IngestEvent, tables
  <2>2. CASE UNCHANGED <<configs, proposals, marks>>
    BY <2>2 DEF TablesKept, Marked
  <2> QED BY <2>1, <2>2, ApplyKeeps
<1>8. ASSUME NEW r \in raw PROVE AppliedRow(r)'
  BY <1>7, <1>8, AppliedKept DEF AppliedInv, AppliedRow
<1>9. ASSUME NEW r \in raw', r \notin raw PROVE AppliedRow(r)'
  <2>1. /\ r = [event |-> item.event, height |-> item.height, applied |-> ok]
        /\ ok => ApplyEvent(item, job.seq)
    BY <1>1, <1>9 DEF IngestEvent, RecordEvent
  <2>2. r.event = item.event /\ r.height = item.height
    BY <2>1
  <2>3. v \in DOMAIN rows'
    BY <1>3
  <2>4. CASE ~ok
    BY <1>1, <1>4, <2>2, <2>3, <2>4 DEF AppliedRow, Decodes, LocalVote, ConfigChanges
  <2>5. CASE ok
    <3>1. ApplyEvent(item, job.seq)
      BY <2>1, <2>5
    <3>2. ASSUME LocalVote(item.event), TrackedFromStart(v)' PROVE Marked(item.event)'
      <4>1. VotesFollow(q, v)
        BY <1>3, <1>6, <3>2
      <4>2. \A i \in 1..(1 - 1) : FALSE
        OBVIOUS
      <4>3. HasProposal(v, item.event.proposal)
        BY <1>4, <3>2, <4>1, <4>2 DEF VotesFollow
      <4> QED BY <1>4, <3>1, <3>2, <4>3, ApplyKeeps
    <3>3. /\ item.event.type = "proposal" => HasProposal(v, item.event.proposal)'
          /\ item.event.type \in {"setup"} \cup ConfigChanges => Snapshotted(item.event, item.height)'
      BY <1>4, <3>1, ApplyKeeps
    <3> QED BY <1>4, <2>2, <2>3, <3>2, <3>3 DEF AppliedRow, LocalVote
  <2> QED BY <2>4, <2>5
<1>10. AppliedInv'
  BY <1>8, <1>9 DEF AppliedInv
<1>11. item.event.type = "proposal" => HasProposal(v, item.event.proposal)'
  <2>1. \E r \in raw' : r.event = item.event
    <3>1. CASE Recorded(item)
      BY <1>1, <3>1 DEF IngestEvent, Recorded
    <3>2. CASE ~Recorded(item)
      <4>1. PICK n : n.event = item.event /\ n \in raw'
        <5>1. raw' = raw \cup {[event |-> item.event, height |-> item.height, applied |-> ok]}
          BY <1>1, <3>2 DEF IngestEvent, RecordEvent
        <5> QED BY <5>1
      <4> QED BY <4>1
    <3> QED BY <3>1, <3>2
  <2> QED BY <1>4, <1>10, <2>1 DEF AppliedInv, AppliedRow
<1>12. ASSUME TrackedFromStart(v)' PROVE VotesFollow(Tail(q), v)'
  <2>1. VotesFollow(q, v)
    BY <1>3, <1>6, <1>12
  <2>2. \A p : HasProposal(v, p) => HasProposal(v, p)'
    BY <1>7 DEF HasProposal, TablesKept
  <2>3. ASSUME NEW j \in DOMAIN Tail(q), LocalVote(Tail(q)[j].event)
        PROVE  \/ HasProposal(v, Tail(q)[j].event.proposal)'
               \/ \E i \in 1..(j - 1) : ProposalOf(Tail(q)[i].event, Tail(q)[j].event)
    <3>1. j \in Nat /\ j + 1 \in DOMAIN q /\ Tail(q)[j] = q[j + 1]
      BY <1>4
    <3>2. PICK x : x = q[j + 1].event
      OBVIOUS
    <3>3. HasProposal(v, x.proposal) \/ \E i \in 1..((j + 1) - 1) : ProposalOf(q[i].event, x)
      BY <2>1, <2>3, <3>1, <3>2 DEF VotesFollow
    <3>4. ASSUME NEW i \in 1..((j + 1) - 1), ProposalOf(q[i].event, x)
          PROVE  \/ HasProposal(v, x.proposal)'
                 \/ \E m \in 1..(j - 1) : ProposalOf(Tail(q)[m].event, x)
      <4>1. CASE i = 1
        BY <1>4, <1>11, <3>4, <4>1 DEF ProposalOf
      <4>2. CASE i # 1
        <5>1. i - 1 \in 1..(j - 1) /\ i - 1 \in 1..(Len(q) - 1) /\ (i - 1) + 1 = i
          BY <1>4, <3>1, <4>2
        <5>2. Tail(q)[i - 1] = q[i]
          BY <1>4, <5>1
        <5> QED BY <3>4, <5>1, <5>2
      <4> QED BY <4>1, <4>2
    <3> QED BY <2>2, <3>1, <3>2, <3>3, <3>4
  <2> QED BY <2>3 DEF VotesFollow, LocalVote, ProposalOf
<1>13. VotesInOrder'
  <2>1. PICK s : s = Tail(q)
    OBVIOUS
  <2>2. TrackedFromStart(v)' => VotesFollow(s, v)'
    BY <1>12, <2>1
  <2> QED BY <1>5, <2>1, <2>2 DEF VotesInOrder
<1> QED BY <1>10, <1>13

LEMMA JobFetches ==
  ASSUME NEW v, \E lo, hi, finish, stored, back : job' = Job(v, lo, hi, finish, stored, back)
  PROVE  \E lo : job'.batch = FetchEvents(archive, job'.vault, lo, job'.to)
<1>1. PICK lo, hi, finish, stored, back : job' = Job(v, lo, hi, finish, stored, back)
  OBVIOUS
<1>2. job'.vault = v /\ job'.to = hi /\ job'.batch = FetchEvents(archive, v, lo, hi)
  BY <1>1 DEF Job
<1> QED BY <1>2

LEMMA NoneDeleted ==
  ASSUME IndexerInv, UNCHANGED unsubscribes
  PROVE  ~(\E v \in DOMAIN rows : DeleteContract(v))
<1> SUFFICES ASSUME NEW v, DeleteContract(v) PROVE FALSE
  OBVIOUS
<1>1. unsubscribes' = unsubscribes + 1
  BY DEF DeleteContract
<1>2. unsubscribes \in Nat
  BY DEF IndexerInv
<1> QED BY <1>1, <1>2

LEMMA NextApplies ==
  ASSUME IndexerInv, IndexerInv', CoverInv, CoverInv', [Next]_<<env, vars>>,
         reorgs \in Nat, reorgs' = 0, ProposedFirst(daemon), AppliedInv, VotesInOrder
  PROVE  ProposedFirst(daemon)' /\ AppliedInv' /\ VotesInOrder'
<1>1. UNCHANGED env /\ Ids /\ OneChain /\ SyncOwes'
  BY ReorgsCount DEF CoverInv
<1>2. ~TickRollsBack /\ ~(\E d \in 1..MaxReorgDepth : Reorg(d))
  BY <1>1, NoMismatch DEF TickRollsBack, Reorg
<1>3. Extends(daemon, daemon') /\ ProposedFirst(daemon)'
  <2>1. Extends(daemon, daemon') /\ ProposedFirst(daemon')
    BY <1>2, DaemonGrows
  <2> QED BY <2>1 DEF ProposedFirst, LocalVote, ProposalOf
<1>4. ASSUME NEW v \in DOMAIN rows, v \in DOMAIN rows', TrackedFromStart(v)'
      PROVE  TrackedFromStart(v)
  <2>1. rows'[v].discoveredAt = rows[v].discoveredAt
    BY <1>2, <1>4, FirstBlocksKept
  <2> QED BY <1>1, <1>3, <1>4, <2>1, StillTracked
<1>5. CASE IngestEvent
  <2>1. ~(\E v \in DOMAIN rows : DeleteContract(v))
    BY <1>5, NoneDeleted DEF IngestEvent, budgets
  <2>2. DOMAIN rows \subseteq DOMAIN rows'
    BY <1>2, <2>1, RowsOnlyGrow
  <2> QED BY <1>1, <1>3, <1>4, <1>5, <2>2, IngestApplies
<1>6. ASSUME NEW v \in DOMAIN rows, DeleteContract(v)
      PROVE  AppliedInv' /\ VotesInOrder'
  <2>1. PICK gone : /\ raw' = {r \in raw : r.event.vault \notin gone}
                    /\ DOMAIN rows' = DOMAIN rows \ gone
                    /\ configs' = {r \in configs : r.vault \notin gone}
                    /\ proposals' = {r \in proposals : r.vault \notin gone}
                    /\ marks' = {r \in marks : r.vault \notin gone}
    <3>1. \A S : {r \in S : r.vault # v} = {r \in S : r.vault \notin {v}}
      OBVIOUS
    <3> QED BY <1>6, <3>1 DEF DeleteContract, DeleteEvents
  <2>2. ASSUME NEW u \in DOMAIN rows' PROVE TablesKept(u)
    <3>1. u \notin gone
      BY <2>1
    <3>2. ASSUME NEW e, e.vault = u, Marked(e) PROVE Marked(e)'
      <4>1. PICK m \in marks : SameMark(m, e)
        BY <3>2 DEF Marked
      <4>2. m \in marks'
        BY <2>1, <3>1, <3>2, <4>1 DEF SameMark
      <4> QED BY <4>1, <4>2 DEF Marked, SameMark
    <3>3. /\ \A x \in proposals : x.vault = u => x \in proposals'
          /\ \A x \in configs : x.vault = u => x \in configs'
      BY <2>1, <3>1
    <3> QED BY <3>2, <3>3 DEF TablesKept
  <2>3. ASSUME NEW r \in raw' PROVE AppliedRow(r)'
    <3>1. r \in raw /\ r.event.vault \notin gone
      BY <2>1
    <3>2. AppliedRow(r) /\ r.event.vault \in DOMAIN rows /\ r.event.vault \in DOMAIN rows'
      BY <2>1, <3>1 DEF AppliedInv, AppliedRow
    <3> QED BY <1>4, <2>2, <3>2, AppliedKept
  <2>4. Grows /\ UNCHANGED <<job, pc>>
    BY <1>6, RouteGrows DEF Routes, DeleteContract
  <2>5. VotesInOrder'
    BY <1>1, <2>2, <2>4, FollowsKept
  <2> QED BY <2>3, <2>5 DEF AppliedInv
<1>7. ASSUME UNCHANGED <<raw, configs, proposals, marks>>,
             ~(\E v \in DOMAIN rows : DeleteContract(v))
      PROVE  AppliedInv' /\ \A v : TablesKept(v)
  <2>1. \A v : TablesKept(v)
    BY <1>7 DEF TablesKept, Marked
  <2>2. DOMAIN rows \subseteq DOMAIN rows'
    BY <1>2, <1>7, RowsOnlyGrow
  <2>3. ASSUME NEW r \in raw' PROVE AppliedRow(r)'
    <3>1. AppliedRow(r) /\ r.event.vault \in DOMAIN rows /\ r.event.vault \in DOMAIN rows'
      BY <1>7, <2>2 DEF AppliedInv, AppliedRow
    <3> QED BY <1>4, <2>1, <3>1, AppliedKept
  <2> QED BY <2>1, <2>3 DEF AppliedInv
<1>8. ASSUME UNCHANGED <<rows, proposals, job, pc>> PROVE VotesInOrder'
  <2> SUFFICES ASSUME pc = "sync", Exists(job.vault, job.id)', TrackedFromStart(job.vault)'
               PROVE  VotesFollow(job.batch, job.vault)'
    BY <1>8 DEF VotesInOrder
  <2>1. PICK v, q : v = job.vault /\ q = job.batch
    OBVIOUS
  <2>2. v \in DOMAIN rows /\ v \in DOMAIN rows' /\ Exists(v, job.id) /\ TrackedFromStart(v)'
    BY <1>8, <2>1 DEF Exists
  <2>3. VotesFollow(q, v)
    BY <1>4, <2>1, <2>2 DEF VotesInOrder
  <2> QED BY <1>8, <2>1, <2>3 DEF VotesFollow, HasProposal, LocalVote, ProposalOf
<1>9. ASSUME pc' # "sync" PROVE VotesInOrder'
  BY <1>9 DEF VotesInOrder
<1>10. ASSUME \/ UnsubscribeFails
              \/ \E v \in Subscribable : SubscribeNew(v) \/ Unsubscribe(v)
              \/ \E v \in Subscribable : \E b \in 0..MaxHeight : SubscribeFrom(v, b)
       PROVE  AppliedInv' /\ VotesInOrder'
  <2>1. /\ UNCHANGED <<raw, configs, proposals, marks, job, pc, unsubscribes>>
    BY <1>10 DEF SubscribeNew, SubscribeFrom, Unsubscribe, UnsubscribeFails, tables, budgets
  <2>2. ~(\E u \in DOMAIN rows : DeleteContract(u))
    BY <2>1, NoneDeleted
  <2>3. AppliedInv' /\ \A u : TablesKept(u)
    BY <1>7, <2>1, <2>2
  <2>4. Grows
    BY <1>10, RouteGrows DEF Routes
  <2> QED BY <1>1, <2>1, <2>3, <2>4, FollowsKept
<1>11. ASSUME NEW v, \/ RescanUnready(v) \/ SyncKnown(v) \/ \E b : ProcessCandidate(v, b)
       PROVE  AppliedInv' /\ VotesInOrder'
  <2>1. UNCHANGED <<archive, raw, configs, proposals, marks, unsubscribes>> /\ pc # "sync"
    BY <1>11 DEF RescanUnready, SyncKnown, ProcessCandidate, nodes, tables, budgets
  <2>2. ~(\E u \in DOMAIN rows : DeleteContract(u))
    BY <2>1, NoneDeleted
  <2>3. AppliedInv'
    BY <1>7, <2>1, <2>2
  <2>4. \/ pc' = pc
        \/ v \in DOMAIN rows /\ \E lo, hi, finish, stored : StartSync(v, lo, hi, finish, stored)
        \/ /\ \E lo, hi, finish, stored, back : job' = Job(v, lo, hi, finish, stored, back)
           /\ pc' = "sync"
    BY <1>11 DEF RescanUnready, SyncKnown, ReplayUnready, FirstScanStep, RefuseSync,
                 ProcessCandidate
  <2>5. ASSUME pc' = "sync" PROVE VotesInOrder'
    <3>1. \E lo, hi, finish, stored, back : job' = Job(v, lo, hi, finish, stored, back)
      BY <2>1, <2>4, <2>5 DEF StartSync
    <3>2. \E lo : job'.batch = FetchEvents(archive, job'.vault, lo, job'.to)
      BY <3>1, JobFetches
    <3> QED BY <1>1, <2>1, <2>5, <3>2, StartFollows
  <2> QED BY <1>9, <2>3, <2>5
<1>12. CASE \/ Chain \/ UNCHANGED <<env, vars>>
  <2>1. UNCHANGED <<raw, configs, proposals, marks, rows, job, pc, unsubscribes>>
    BY <1>2, <1>12 DEF Chain, MineBlock, ArchiveIngest, vars, tables, budgets
  <2>2. ~(\E u \in DOMAIN rows : DeleteContract(u))
    BY <2>1, NoneDeleted
  <2> QED BY <1>3, <1>7, <1>8, <2>1, <2>2
<1>13. CASE \/ TickBegins \/ EndDiscovery \/ EndRescan \/ EndTick \/ FinishSync \/ SyncOrphaned
            \/ Failure \/ \E v, id : RescanOrphaned(v, id)
  <2>1. UNCHANGED <<raw, configs, proposals, marks, unsubscribes>>
    BY <1>13 DEF TickBegins, EndDiscovery, EndRescan, EndTick, FinishSync, SyncOrphaned,
                 Failure, CallFails, Crash, RescanOrphaned, tables, budgets
  <2>2. ~(\E u \in DOMAIN rows : DeleteContract(u))
    BY <2>1, NoneDeleted
  <2>3. pc' # "sync"
    <3>1. CASE FinishSync
      BY <3>1 DEF FinishSync, IndexerInv, SyncChecked, JobOn, Callers
    <3>2. CASE \E v, id : RescanOrphaned(v, id)
      BY <3>2 DEF RescanOrphaned, AbortTick
    <3> QED BY <1>13, <3>1, <3>2 DEF TickBegins, EndDiscovery, EndRescan, EndTick, SyncOrphaned,
              Failure, CallFails, Crash, AbortTick, EnterRescan
  <2> QED BY <1>3, <1>7, <1>9, <2>1, <2>2, <2>3
<1> QED BY <1>2, <1>3, <1>5, <1>6, <1>10, <1>11, <1>12, <1>13 DEF Next, Tick, Routes

-----------------------------------------------------------------------------
(* Where tracking starts                                                   *)

OneDeploy(c) ==
  \A g, h \in DOMAIN c : \A v \in c[g].deploys : v \in c[h].deploys => g = h

(* Block b is at or below every deploy of v, now and later.                *)
StartsEarly(v, b) ==
  /\ b \in Nat /\ b <= Len(daemon)
  /\ \A h \in DOMAIN daemon : v \in daemon[h].deploys => b <= h

StartsInv ==
  /\ OneDeploy(daemon)
  /\ \A v \in DOMAIN rows : StartsEarly(v, rows[v].discoveredAt)
  /\ Stage = "discover" => \A t \in todo : StartsEarly(t[1], t[2])

LEMMA MineStarts ==
  ASSUME IndexerInv, [Next]_<<env, vars>>, ~(\E d \in 1..MaxReorgDepth : Reorg(d))
  PROVE  /\ OneDeploy(daemon) => OneDeploy(daemon')
         /\ \A v, b : StartsEarly(v, b) => StartsEarly(v, b)'
<1>1. daemon \in Seq(Blocks) /\ Len(daemon) \in Nat
  BY DEF IndexerInv, Chains
<1>2. UNCHANGED daemon \/ \E b \in Blocks : MineBlock(b)
  BY DEF Next, Chain, Tick, Failure, Routes, ArchiveIngest, TickRollsBack,
         TickBegins, RescanUnready, SyncKnown, ProcessCandidate, RescanOrphaned,
         EndDiscovery, EndRescan, EndTick, IngestEvent, FinishSync, SyncOrphaned,
         CallFails, Crash, SubscribeFrom, SubscribeNew, Unsubscribe, UnsubscribeFails,
         DeleteContract, nodes, vars
<1>3. CASE UNCHANGED daemon
  BY <1>3 DEF StartsEarly
<1>4. ASSUME NEW b \in Blocks, MineBlock(b)
      PROVE  /\ OneDeploy(daemon) => OneDeploy(daemon')
             /\ \A v, n : StartsEarly(v, n) => StartsEarly(v, n)'
  <2>1. daemon' = Append(daemon, b) /\ ValidOn(daemon, b)
    BY <1>4 DEF MineBlock
  <2>2. /\ DOMAIN daemon' = 1..(Len(daemon) + 1) /\ DOMAIN daemon = 1..Len(daemon)
        /\ \A k \in 1..Len(daemon) : daemon'[k] = daemon[k]
        /\ daemon'[Len(daemon) + 1] = b /\ Len(daemon') = Len(daemon) + 1
    BY <1>1, <2>1
  <2>3. \A v \in b.deploys : \A h \in DOMAIN daemon : v \notin daemon[h].deploys
    BY <2>1 DEF ValidOn, Deployed
  <2>4. OneDeploy(daemon) => OneDeploy(daemon')
    BY <1>1, <2>2, <2>3 DEF OneDeploy
  <2>5. ASSUME NEW v, NEW n, StartsEarly(v, n) PROVE StartsEarly(v, n)'
    BY <1>1, <2>2, <2>5 DEF StartsEarly
  <2> QED BY <2>4, <2>5
<1> QED BY <1>2, <1>3, <1>4

(* A candidate's deployBlock: the only block that deploys it, or the start *)
(* of the window it was found in.                                          *)
LEMMA CandidateStarts ==
  ASSUME IndexerInv, OneChain, OneDeploy(daemon), NEW v \in Candidates
  PROVE  StartsEarly(v, DeployBlock(v))
<1>1. /\ archive \in Seq(Blocks) /\ daemon \in Seq(Blocks) /\ Len(archive) <= Len(daemon)
      /\ Len(daemon) \in Nat /\ Extends(archive, daemon) /\ Window \in Nat /\ indexed \in Nat
      /\ Margin \in Nat
  BY DeploymentFacts DEF IndexerInv, Chains, OneChain, Extends
<1>2. CASE ArchiveDiscovery
  <2>1. PICK S : S = {h \in DOMAIN archive : h >= DiscoveryFrom /\ v \in archive[h].deploys}
    OBVIOUS
  <2>2. S \in SUBSET (0..Len(daemon)) /\ S # {}
    <3>1. \A h \in S : h \in 0..Len(daemon)
      BY <1>1, <2>1
    <3>2. S # {}
      BY <1>2, <2>1 DEF Candidates
    <3> QED BY <3>1, <3>2
  <2>3. PICK b : b = Lowest(S)
    OBVIOUS
  <2>4. b \in S
    BY <1>1, <2>2, <2>3, LowestIsMember
  <2>5. b \in DOMAIN daemon /\ v \in daemon[b].deploys
    BY <1>1, <2>1, <2>4, ExtendsFacts
  <2>6. DeployBlock(v) = b
    BY <1>2, <2>1, <2>3 DEF DeployBlock
  <2>7. \A h \in DOMAIN daemon : v \in daemon[h].deploys => b = h
    BY <2>5 DEF OneDeploy
  <2> QED BY <1>1, <2>5, <2>6, <2>7 DEF StartsEarly
<1>3. CASE ~ArchiveDiscovery
  <2>1. PICK n : n = DiscoveryWindow
    OBVIOUS
  <2>2. n \in Nat /\ 1 <= n
    BY <1>1, <2>1 DEF DiscoveryWindow, Larger, Smaller
  <2>3. PICK g \in DOMAIN daemon : g > Len(daemon) - n /\ v \in daemon[g].deploys
    BY <1>3, <2>1 DEF Candidates, BestChain
  <2>4. \A h \in DOMAIN daemon : v \in daemon[h].deploys => h = g
    BY <2>3 DEF OneDeploy
  <2>5. PICK b : b = Larger(0, Len(daemon) - n + 1)
    OBVIOUS
  <2>6. b \in Nat /\ b <= Len(daemon) /\ b <= g
    BY <1>1, <2>2, <2>3, <2>5 DEF Larger
  <2>7. DeployBlock(v) = b
    BY <1>3, <2>1, <2>5 DEF DeployBlock, ScanFloor
  <2> QED BY <2>4, <2>6, <2>7 DEF StartsEarly
<1> QED BY <1>2, <1>3

(* Outside lite mode rows are only added for candidates.                   *)
LEMMA RowsFromCandidates ==
  ASSUME IndexerInv, ~Lite, [Next]_<<env, vars>>, ~TickRollsBack, NEW v \in DOMAIN rows'
  PROVE  \/ v \in DOMAIN rows
         \/ \E b : /\ pc = "discover" /\ <<v, b>> \in todo
                   /\ rows'[v].discoveredAt = b
<1>1. rows \in [DOMAIN rows -> Row]
  BY DEF IndexerInv, CheckedRows
<1>2. ASSUME NEW item, NEW order, ApplyEvent(item, order)
      PROVE  DOMAIN rows' \subseteq DOMAIN rows
  BY <1>1, <1>2 DEF ApplyEvent, ApplySetup, ApplyConfigChange, ApplyProposal, ApplyApproval,
              ApplyExecution
<1>3. ASSUME NEW u, NEW lo, NEW hi, NEW finish, NEW stored,
             StartSync(u, lo, hi, finish, stored)
      PROVE  DOMAIN rows' \subseteq DOMAIN rows
  BY <1>1, <1>3 DEF StartSync
<1>4. ASSUME NEW u, RefuseSync(u) PROVE DOMAIN rows' \subseteq DOMAIN rows
  BY <1>1, <1>4 DEF RefuseSync
<1>5. CASE Chain \/ Failure \/ UNCHANGED <<env, vars>>
  BY <1>5 DEF Chain, MineBlock, ArchiveIngest, Reorg, Failure, CallFails, Crash, vars
<1>6. ~Routes
  BY DEF Routes, SubscribeFrom, SubscribeNew, Unsubscribe, UnsubscribeFails, DeleteContract
<1>7. ASSUME NEW u, RescanUnready(u) \/ SyncKnown(u) PROVE DOMAIN rows' \subseteq DOMAIN rows
  <2>1. \/ UNCHANGED rows \/ RefuseSync(u)
        \/ \E lo, hi, finish, stored : StartSync(u, lo, hi, finish, stored)
    BY <1>7 DEF RescanUnready, SyncKnown, ReplayUnready, FirstScanStep
  <2> QED BY <1>3, <1>4, <2>1
<1>8. CASE IngestEvent
  <2>1. UNCHANGED rows \/ \E item, order : ApplyEvent(item, order)
    BY <1>8 DEF IngestEvent
  <2> QED BY <1>2, <2>1
<1>9. CASE FinishSync
  BY <1>1, <1>9 DEF FinishSync, MarkSynced
<1>10. ASSUME NEW u, NEW b, ProcessCandidate(u, b)
       PROVE  v \in DOMAIN rows \/ (v = u /\ pc = "discover" /\ <<v, b>> \in todo
                                    /\ rows'[v].discoveredAt = b)
  <2>1. /\ pc = "discover" /\ <<u, b>> \in todo
        /\ UNCHANGED rows \/ rows' = WithRow(u, NewRow(b, Nothing, TRUE))
    BY <1>10 DEF ProcessCandidate
  <2> QED BY <2>1 DEF WithRow, NewRow
<1>11. CASE \/ TickBegins \/ EndDiscovery \/ EndRescan \/ EndTick \/ SyncOrphaned
            \/ \E u, id : RescanOrphaned(u, id)
  BY <1>11 DEF TickBegins, EndDiscovery, EndRescan, EndTick, SyncOrphaned, RescanOrphaned
<1> QED BY <1>5, <1>6, <1>7, <1>8, <1>9, <1>10, <1>11 DEF Next, Tick

(* During discovery candidates only leave the list.                        *)
LEMMA CandidatesLeave ==
  ASSUME IndexerInv, ~Lite, [Next]_<<env, vars>>, ~TickRollsBack, Stage' = "discover"
  PROVE  TickBegins \/ (Stage = "discover" /\ todo' \subseteq todo)
<1>1. CASE Chain \/ Routes \/ UNCHANGED <<env, vars>>
  BY <1>1 DEF Chain, MineBlock, ArchiveIngest, Reorg, Routes, SubscribeFrom, SubscribeNew,
              Unsubscribe, UnsubscribeFails, DeleteContract, Stage, vars
<1>2. CASE IngestEvent
  <2>1. UNCHANGED <<todo, pc>> /\ pc = "sync"
    BY <1>2 DEF IngestEvent
  <2>2. job \in JobOn(job.vault)
    BY <2>1 DEF IndexerInv, SyncChecked
  <2>3. job'.back = job.back
    BY <1>2, <2>2 DEF IngestEvent, JobOn
  <2> QED BY <2>1, <2>3 DEF Stage
<1>3. CASE FinishSync
  <2>1. pc = "sync" /\ pc' = job.back /\ todo' \subseteq todo
    BY <1>3 DEF FinishSync
  <2>2. job.back \in Callers
    BY <2>1 DEF IndexerInv, SyncChecked, JobOn
  <2> QED BY <2>1, <2>2 DEF Stage, Callers
<1>4. ASSUME NEW v, NEW b, ProcessCandidate(v, b) PROVE Stage = "discover" /\ todo' \subseteq todo
  BY <1>4 DEF ProcessCandidate, Stage
<1>5. ~(\E v : RescanUnready(v) \/ SyncKnown(v))
  BY TurnStage
<1>6. CASE Failure
  <2>1. pc' # "sync"
    BY <1>6 DEF Failure, CallFails, Crash, AbortTick
  <2>2. pc' = "discover"
    BY <2>1 DEF Stage
  <2> QED BY <1>6, <2>2 DEF Failure, CallFails, Crash, AbortTick, Stage
<1>7. CASE \/ EndDiscovery \/ EndRescan \/ EndTick \/ SyncOrphaned
           \/ \E u, id : RescanOrphaned(u, id)
  <2>1. pc' \in {"rescan", "known", "idle"}
    BY <1>7 DEF EndDiscovery, EnterRescan, EndRescan, EndTick, SyncOrphaned, RescanOrphaned,
                AbortTick
  <2> QED BY <2>1 DEF Stage
<1> QED BY <1>1, <1>2, <1>3, <1>4, <1>5, <1>6, <1>7 DEF Next, Tick

LEMMA NextStarts ==
  ASSUME IndexerInv, IndexerInv', CoverInv, ~Lite, StartsInv, [Next]_<<env, vars>>,
         reorgs \in Nat, reorgs' = 0
  PROVE  StartsInv'
<1>1. OneChain /\ ~TickRollsBack /\ ~(\E d \in 1..MaxReorgDepth : Reorg(d))
  BY NoMismatch DEF CoverInv, TickRollsBack, Reorg
<1>2. /\ OneDeploy(daemon') /\ \A v, b : StartsEarly(v, b) => StartsEarly(v, b)'
  BY <1>1, MineStarts DEF StartsInv
<1>3. ASSUME NEW v \in DOMAIN rows' PROVE StartsEarly(v, rows[v].discoveredAt)'
  <2>1. PICK b : b = rows'[v].discoveredAt
    OBVIOUS
  <2>2. StartsEarly(v, b)
    <3>1. CASE v \in DOMAIN rows
      BY <1>1, <1>3, <2>1, <3>1, FirstBlocksKept DEF StartsInv
    <3>2. CASE v \notin DOMAIN rows
      BY <1>1, <2>1, <3>2, RowsFromCandidates DEF StartsInv, Stage
    <3> QED BY <3>1, <3>2
  <2>3. StartsEarly(v, b)'
    BY <1>2, <2>2
  <2> QED BY <2>1, <2>3
<1>4. ASSUME Stage' = "discover", NEW t \in todo' PROVE StartsEarly(t[1], t[2])'
  <2>1. CASE TickBegins
    <3>1. todo' = {<<v, DeployBlock(v)>> : v \in Candidates}
      BY <2>1 DEF TickBegins
    <3>2. PICK v \in Candidates : t = <<v, DeployBlock(v)>>
      BY <1>4, <3>1
    <3>3. StartsEarly(v, DeployBlock(v))
      BY <1>1, CandidateStarts DEF StartsInv
    <3>4. PICK b : b = DeployBlock(v)
      OBVIOUS
    <3>5. StartsEarly(v, b)'
      BY <1>2, <3>3, <3>4
    <3> QED BY <3>2, <3>4, <3>5
  <2>2. CASE Stage = "discover" /\ todo' \subseteq todo
    BY <1>2, <1>4, <2>2 DEF StartsInv
  <2> QED BY <1>1, <1>4, <2>1, <2>2, CandidatesLeave
<1> QED BY <1>2, <1>3, <1>4 DEF StartsInv, OneDeploy

-----------------------------------------------------------------------------
(* The theorems                                                            *)

(* While the chain only grows, a vault whose history was scanned has every *)
(* event up to the cursor, a first scan everything below its next block,   *)
(* and a tick's loop leaves no vault behind, through failed calls, aborted *)
(* ticks, crashes and restarts, vaults unsubscribed and subscribed again   *)
(* in mid-sync, and an archive that falls behind the daemon.               *)
THEOREM TicksLeaveNothingBehind == Spec => [](reorgs = 0 /\ BackfillReaches => CoverInv)
<1>1. Init => CoverageInv
  <2> SUFFICES ASSUME Init PROVE CoverageInv
    OBVIOUS
  <2>1. IndexerInv
    BY InitIndexerInv
  <2> QED BY <2>1, InitCovers DEF CoverageInv, Init
<1>2. CoverageInv /\ [Next]_<<env, vars>> => CoverageInv'
  BY NextCoverage
<1>3. CoverageInv => (reorgs = 0 /\ BackfillReaches => CoverInv)
  BY DEF CoverageInv
<1> QED BY <1>1, <1>2, <1>3, PTL DEF Spec

(* The indexed_height cursor never leaves an event behind: a ready vault   *)
(* tracked from its first block has all its events, however the ticks      *)
(* that moved the cursor were interrupted.                                 *)
THEOREM NothingSkippedWithoutReorgs ==
  Spec => [](reorgs = 0 /\ BackfillReaches => NothingSkipped)
<1>1. IndexerInv /\ (reorgs = 0 /\ BackfillReaches => CoverInv) =>
        (reorgs = 0 /\ BackfillReaches => NothingSkipped)
  BY CoveredMeansRecorded
<1> QED BY <1>1, ChecksPrecedeSyncs, TicksLeaveNothingBehind, PTL

RetryInv ==
  /\ CoverageInv
  /\ reorgs = 0 /\ ArchiveDiscovery /\ ~Lite => DiscoveryInv

(* "transient failures get retried on the next tick" (backend/src/         *)
(* indexer.ts): with archive discovery and a chain that only grows, a safe *)
(* vault that failed calls, crashes or aborted ticks kept from being       *)
(* tracked is still among the next scan's candidates.                      *)
THEOREM DeploysRetriedWithoutReorgs ==
  Spec => [](reorgs = 0 /\ ArchiveDiscovery => DeploysRetried)
<1>1. Init => RetryInv
  <2> SUFFICES ASSUME Init PROVE RetryInv
    OBVIOUS
  <2>1. CoverageInv
    BY InitIndexerInv, InitCovers DEF CoverageInv, Init
  <2>2. DiscoveryInv
    BY DEF Init, DiscoveryInv, SafeDeploy, Stage
  <2> QED BY <2>1, <2>2 DEF RetryInv
<1>2. RetryInv /\ [Next]_<<env, vars>> => RetryInv'
  <2> SUFFICES ASSUME RetryInv, [Next]_<<env, vars>> PROVE RetryInv'
    OBVIOUS
  <2>1. CoverageInv /\ CoverageInv'
    BY NextCoverage DEF RetryInv
  <2>2. IndexerInv /\ IndexerInv' /\ reorgs \in Nat /\ reorgs' \in Nat /\ reorgs <= reorgs'
        /\ UNCHANGED env
    BY <2>1, ReorgsCount DEF CoverageInv
  <2>3. ASSUME reorgs' = 0, ArchiveDiscovery', ~Lite' PROVE DiscoveryInv'
    <3>1. reorgs = 0 /\ ArchiveDiscovery /\ ~Lite
      BY <2>2, <2>3 DEF ArchiveDiscovery, Lite
    <3>2. CoverInv
      BY <2>1, <3>1 DEF CoverageInv, BackfillReaches
    <3> QED BY <2>2, <2>3, <3>1, <3>2, NextDiscovers DEF RetryInv
  <2> QED BY <2>1, <2>3 DEF RetryInv
<1>3. RetryInv => (reorgs = 0 /\ ArchiveDiscovery => DeploysRetried)
  <2> SUFFICES ASSUME RetryInv, reorgs = 0, ArchiveDiscovery PROVE DeploysRetried
    OBVIOUS
  <2>1. CASE Lite
    BY <2>1 DEF DeploysRetried
  <2>2. CASE ~Lite
    BY <2>2, DiscoveredOrQueried DEF RetryInv, CoverageInv
  <2> QED BY <2>1, <2>2
<1> QED BY <1>1, <1>2, <1>3, PTL DEF Spec

RecordsInv ==
  /\ CoverageInv
  /\ reorgs = 0 /\ BackfillReaches => ProposedFirst(daemon) /\ AppliedInv /\ VotesInOrder

(* Recording an event and applying it are one transaction: while the chain *)
(* only grows, whatever fails, crashes, is unsubscribed or restarts, a     *)
(* recorded event belongs to a tracked vault and has its effect: its       *)
(* proposal, its snapshot, and, for a vault scanned from its deploy on,    *)
(* its approval or execution, whose proposal orderEventsForApply and the   *)
(* coverage of the earlier blocks put into the table before it.            *)
THEOREM EffectsAreRecordedTogether ==
  Spec => [](reorgs = 0 /\ BackfillReaches => AppliedInv)
<1>1. Init => RecordsInv
  <2> SUFFICES ASSUME Init PROVE RecordsInv
    OBVIOUS
  <2>1. CoverageInv
    BY InitIndexerInv, InitCovers DEF CoverageInv, Init
  <2>2. ProposedFirst(daemon) /\ AppliedInv /\ VotesInOrder
    BY DEF Init, ProposedFirst, AppliedInv, VotesInOrder
  <2> QED BY <2>1, <2>2 DEF RecordsInv
<1>2. RecordsInv /\ [Next]_<<env, vars>> => RecordsInv'
  <2> SUFFICES ASSUME RecordsInv, [Next]_<<env, vars>> PROVE RecordsInv'
    OBVIOUS
  <2>1. CoverageInv /\ CoverageInv'
    BY NextCoverage DEF RecordsInv
  <2>2. /\ IndexerInv /\ IndexerInv' /\ reorgs \in Nat /\ reorgs' \in Nat /\ reorgs <= reorgs'
        /\ UNCHANGED env
    BY <2>1, ReorgsCount DEF CoverageInv
  <2>3. ASSUME reorgs' = 0, BackfillReaches'
        PROVE  ProposedFirst(daemon)' /\ AppliedInv' /\ VotesInOrder'
    <3>1. reorgs = 0 /\ BackfillReaches
      BY <2>2, <2>3 DEF BackfillReaches, ArchiveDiscovery, Margin, BackfillBlocks
    <3>2. CoverInv /\ CoverInv'
      BY <2>1, <2>3, <3>1 DEF CoverageInv
    <3> QED BY <2>2, <2>3, <3>1, <3>2, NextApplies DEF RecordsInv
  <2> QED BY <2>1, <2>3 DEF RecordsInv
<1>3. RecordsInv => (reorgs = 0 /\ BackfillReaches => AppliedInv)
  BY DEF RecordsInv
<1> QED BY <1>1, <1>2, <1>3, PTL DEF Spec

(* No recorded event executes a parent's proposal. What the indexer does   *)
(* with those is not covered by this result: see Indexer_remote.cfg.       *)
LocalOnly == \A r \in raw : ~r.event.remote

(* Every tracked vault is scanned from its deploy on, as discovery and a   *)
(* subscription that names an early enough block arrange.                  *)
AllFromStart == \A v \in DOMAIN rows : TrackedFromStart(v)

StartInv ==
  /\ CoverageInv
  /\ reorgs = 0 /\ BackfillReaches /\ ~Lite => StartsInv

(* Outside lite mode, discovery gives every vault a first block at or      *)
(* below its deploy, whichever node it was found on and however often the  *)
(* tick that found it failed: its history is scanned from the start.       *)
THEOREM FullModeTracksFromDeploy ==
  Spec => [](reorgs = 0 /\ BackfillReaches /\ ~Lite => AllFromStart)
<1>1. Init => StartInv
  <2> SUFFICES ASSUME Init PROVE StartInv
    OBVIOUS
  <2>1. CoverageInv
    BY InitIndexerInv, InitCovers DEF CoverageInv, Init
  <2>2. StartsInv
    BY DEF Init, StartsInv, OneDeploy, Stage
  <2> QED BY <2>1, <2>2 DEF StartInv
<1>2. StartInv /\ [Next]_<<env, vars>> => StartInv'
  <2> SUFFICES ASSUME StartInv, [Next]_<<env, vars>> PROVE StartInv'
    OBVIOUS
  <2>1. CoverageInv /\ CoverageInv'
    BY NextCoverage DEF StartInv
  <2>2. /\ IndexerInv /\ IndexerInv' /\ reorgs \in Nat /\ reorgs' \in Nat /\ reorgs <= reorgs'
        /\ UNCHANGED env
    BY <2>1, ReorgsCount DEF CoverageInv
  <2>3. ASSUME reorgs' = 0, BackfillReaches', ~Lite' PROVE StartsInv'
    <3>1. reorgs = 0 /\ BackfillReaches /\ ~Lite
      BY <2>2, <2>3 DEF BackfillReaches, ArchiveDiscovery, Margin, BackfillBlocks, Lite
    <3>2. CoverInv
      BY <2>1, <3>1 DEF CoverageInv
    <3> QED BY <2>2, <2>3, <3>1, <3>2, NextStarts DEF StartInv
  <2> QED BY <2>1, <2>3 DEF StartInv
<1>3. StartInv => (reorgs = 0 /\ BackfillReaches /\ ~Lite => AllFromStart)
  BY DEF StartInv, StartsInv, StartsEarly, AllFromStart, TrackedFromStart
<1> QED BY <1>1, <1>2, <1>3, PTL DEF Spec

(* Once an event's fingerprint is in EventRaw every later sync skips it:   *)
(* what it should have changed in the tables is there already. In lite     *)
(* mode a subscription may name a block above the deploy; there the result *)
(* is about the states in which none did.                                  *)
THEOREM RecordedMeansAppliedWithoutReorgs ==
  Spec => [](reorgs = 0 /\ BackfillReaches /\ LocalOnly /\ (Lite => AllFromStart) =>
               RecordedMeansApplied)
<1>1. AppliedInv /\ LocalOnly /\ AllFromStart => RecordedMeansApplied
  <2> SUFFICES ASSUME AppliedInv, LocalOnly, AllFromStart, NEW r \in raw
               PROVE  LET e == r.event
                      IN  /\ e.type = "proposal" => HasProposal(e.vault, e.proposal)
                          /\ e.type \in {"approval", "execution"} /\ ProposalVault(e) \in DOMAIN rows
                             /\ ~(e.remote /\ Outlived(e.vault)) =>
                               \E m \in marks : /\ m.vault = ProposalVault(e) /\ m.type = e.type
                                                /\ m.proposal = e.proposal /\ m.by = e.by
                          /\ e.type \in {"setup"} \cup ConfigChanges =>
                               \E c \in configs : c.source = e /\ c.height = r.height
    BY DEF RecordedMeansApplied
  <2>1. AppliedRow(r) /\ ~r.event.remote /\ ProposalVault(r.event) = r.event.vault
    BY DEF AppliedInv, LocalOnly, ProposalVault
  <2>2. r.event.type \in {"approval", "execution"} => Marked(r.event)
    BY <2>1 DEF AppliedRow, AllFromStart, LocalVote
  <2> QED BY <2>1, <2>2 DEF AppliedRow, Marked, SameMark, Snapshotted
<1> QED BY <1>1, EffectsAreRecordedTogether, FullModeTracksFromDeploy, PTL

=============================================================================
