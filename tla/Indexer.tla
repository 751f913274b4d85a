------------------------------- MODULE Indexer ------------------------------
(* The polling indexer of the backend (backend/src/indexer.ts) with the     *)
(* daemon and the archive node it reads and the database it writes.         *)
(*                                                                          *)
(* A chain is a sequence of blocks; the hash of the block at height h is    *)
(* the chain's prefix of length h, since a block commits to its ancestors.  *)
(* The archive follows the daemon with a delay. A configuration value is    *)
(* modelled by its provenance, the event that set it, so a snapshot tells   *)
(* which events it was computed from.                                       *)
(*                                                                          *)
(* A definition introduced by "Faulty" is a plausible mistake in the one    *)
(* that follows it, kept to show which property notices it.                 *)
EXTENDS Integers, Sequences, FiniteSets

CONSTANTS
  Vaults,                     \* addresses that may become vaults
  Fields,                     \* columns of a ContractConfig row
  Nothing,                    \* null
  Deployments                 \* backends to run: settings, chains, bounds

(* An event names its vault, the columns it sets, the proposal it is about *)
(* and who voted, whether it executes a parent's proposal, and the child   *)
(* it proposes.                                                            *)
ConfigChanges == {"ownerChange", "thresholdChange", "delegate", "enableChildMultiSig"}

EventTypes ==
  {"setup", "proposal", "approval", "execution", "malformed"} \cup ConfigChanges

EventsBy(voters) ==
  [vault : Vaults, proposal : Nat, sets : SUBSET Fields, remote : BOOLEAN,
   type : EventTypes, child : Vaults \cup {Nothing}, by : voters]

IsBlock(b) ==
  /\ b.deploys \subseteq Vaults
  /\ b.events \in Seq(EventsBy({b.events[i].by : i \in DOMAIN b.events}))

ASSUME IndexerAssumption ==
  /\ Nothing \notin Vaults
  /\ {"nonce", "parentNonce"} \subseteq Fields
  /\ \A d \in Deployments :
       /\ d.safe \subseteq Vaults /\ d.subscribable \subseteq Vaults
       /\ d.parent \in [Vaults -> Vaults \cup {Nothing}]
       /\ {d.lite, d.archiveDiscovery} \subseteq BOOLEAN
       /\ {d.window, d.span, d.scanSteps} \subseteq Nat \ {0}
       /\ {d.margin, d.backfill, d.height, d.reorgs, d.depth, d.faults,
           d.crashes, d.unsubscribes} \subseteq Nat
       /\ d.hazards \subseteq {"detectionFails", "reorgInTick"}
       /\ \A b \in d.blocks : IsBlock(b)

VARIABLES
  env,                        \* the deployment that runs
  daemon, archive,            \* the chain as each node reports it
  headers, raw,               \* BlockHeader and EventRaw rows
  configs,                    \* ContractConfig rows
  proposals, marks,           \* Proposal rows; Approval and ProposalExecution
  rows,                       \* Contract rows, by address
  indexed, discovered,        \* IndexerCursor rows
  firstScans,                 \* firstScans: next height of each first scan
  pc, latest, from,           \* the running tick
  todo,                       \* its candidates with their deployBlock, or the
                              \* vaults it queried with their row ids
  failed, steps, scanning, job,
  leaving,                    \* the unsubscribe request being served
  reorgs, faults, crashes,
  unsubscribes                \* Contract rows deleted by unsubscribes

nodes == <<daemon, archive>>
tables == <<configs, proposals, marks>>
cursors == <<indexed, discovered>>
local == <<latest, from, failed, steps>>
budgets == <<reorgs, faults, crashes, unsubscribes>>
vars == <<nodes, headers, raw, tables, rows, cursors, firstScans, pc, local,
          todo, scanning, job, leaving, budgets>>

(* The settings of backend/src/config.ts ...                                *)
Lite == env.lite                          \* indexerMode = 'lite'
ArchiveDiscovery == env.archiveDiscovery  \* discoveryBackend = 'archive'
Window == env.window    \* REORG_DETECTION_WINDOW, EVENT_REPLAY_BLOCKS
EVENT_QUERY_BLOCK_SPAN == env.span
FIRST_SCAN_STEPS_PER_TICK == env.scanSteps
Margin == env.margin    \* DAEMON_DISCOVERY_MARGIN, SUBSCRIBE_MARGIN
BackfillBlocks == env.backfill            \* reach of daemon-mode backfill

(* ... the accounts and blocks it meets, and the bounds.                    *)
Safe == env.safe        \* vaults with MinaGuard's key and permissions
Subscribable == env.subscribable          \* vaults a user of lite mode adds
Parent == env.parent    \* the parent named by each vault's setup event
Blocks == env.blocks
Hazards == env.hazards
MaxHeight == env.height
MaxReorgs == env.reorgs
MaxReorgDepth == env.depth
MaxFaults == env.faults
MaxCrashes == env.crashes
MaxUnsubscribes == env.unsubscribes

Larger(a, b) == IF a > b THEN a ELSE b
Smaller(a, b) == IF a < b THEN a ELSE b
Highest(S) == CHOOSE h \in S : \A k \in S : k <= h
Lowest(S) == CHOOSE h \in S : \A k \in S : k >= h

-----------------------------------------------------------------------------
(* The chain                                                               *)

Prefix(c, h) == SubSeq(c, 1, h)

BlockHash(c, h) == Prefix(c, h)

Deployed(c, v) == \E h \in DOMAIN c : v \in c[h].deploys

(* The events of vault v that have one of the types, in order.             *)
Matching(events, v, types) ==
  LET upTo[i \in 0..Len(events)] ==
        IF i = 0 THEN <<>>
        ELSE IF events[i].vault = v /\ events[i].type \in types
             THEN Append(upTo[i - 1], events[i])
             ELSE upTo[i - 1]
  IN  upTo[Len(events)]

EventsAt(c, h, v) == Matching(c[h].events, v, EventTypes)

(* Within a block, the lifecycle rank comes before the order of emission.  *)
EVENT_TYPE_ORDER ==
  <<"setup", "proposal", "approval", "execution", "ownerChange", "thresholdChange",
    "delegate", "enableChildMultiSig", "malformed">>

ByRank(events, v) ==
  LET upTo[r \in 0..Len(EVENT_TYPE_ORDER)] ==
        IF r = 0 THEN <<>>
        ELSE upTo[r - 1] \o Matching(events, v, {EVENT_TYPE_ORDER[r]})
  IN  upTo[Len(EVENT_TYPE_ORDER)]

InRange(c, v, lo, hi, ranked) ==
  LET top == Smaller(hi, Len(c))
      ItemsAt(h) ==
        LET emitted == EventsAt(c, h, v)
            events == IF ranked THEN ByRank(emitted, v) ELSE emitted
        IN  [i \in DOMAIN events |->
              [event |-> events[i], height |-> h, hash |-> BlockHash(c, h)]]
      upTo[h \in 0..top] ==
        IF h = 0 \/ h < lo THEN <<>> ELSE upTo[h - 1] \o ItemsAt(h)
  IN  upTo[top]

(* Faulty: a global sort by type.                                          *)
TypeFirst(c, v, lo, hi) ==
  LET items == InRange(c, v, lo, hi, FALSE)
      upTo[r \in 0..Len(EVENT_TYPE_ORDER)] ==
        IF r = 0 THEN <<>>
        ELSE upTo[r - 1] \o
               SelectSeq(items, LAMBDA x : x.event.type = EVENT_TYPE_ORDER[r])
  IN  upTo[Len(EVENT_TYPE_ORDER)]

(* What fetchDecodedContractEvents returns for an inclusive range, sorted  *)
(* by orderEventsForApply.                                                 *)
FetchEvents(c, v, lo, hi) == InRange(c, v, lo, hi, TRUE)

EventsOf(c) == UNION {{c[h].events[i] : i \in DOMAIN c[h].events} : h \in DOMAIN c}

(* A block is valid on a chain when it deploys nothing twice and each of   *)
(* its events could be emitted there: once, by a vault that was set up, on *)
(* a proposal that exists.                                                 *)
ProposalVault(e) == IF e.remote THEN Parent[e.vault] ELSE e.vault

CanEmit(e, before, c, b) ==
  /\ e \notin EventsOf(c) \cup before
  /\ e.vault \in b.deploys \/ Deployed(c, e.vault)
  /\ e.type # "setup" =>
       \E s \in EventsOf(c) \cup before : s.type = "setup" /\ s.vault = e.vault
  /\ e.type \in {"approval", "execution"} =>
       \E p \in EventsOf(c) \cup before :
         /\ p.type = "proposal"
         /\ p.vault = ProposalVault(e)
         /\ p.proposal = e.proposal

ValidOn(c, b) ==
  /\ \A v \in b.deploys : ~Deployed(c, v)
  /\ \A i \in DOMAIN b.events :
       CanEmit(b.events[i], {b.events[j] : j \in 1..(i - 1)}, c, b)

ValidChain(c) == \A h \in DOMAIN c : ValidOn(Prefix(c, h - 1), c[h])

MineBlock(b) ==
  /\ Len(daemon) < MaxHeight
  /\ ValidOn(daemon, b)
  /\ daemon' = Append(daemon, b)
  /\ UNCHANGED <<archive, headers, raw, tables, rows, cursors, firstScans, pc,
                 local, todo, scanning, job, leaving, budgets>>

ArchiveIngest ==
  /\ Len(archive) < Len(daemon)
  /\ archive' = Prefix(daemon, Len(archive) + 1)
  /\ UNCHANGED <<daemon, headers, raw, tables, rows, cursors, firstScans, pc,
                 local, todo, scanning, job, leaving, budgets>>

(* The network adopts another branch of the same length.                   *)
Reorg(d) ==
  /\ reorgs < MaxReorgs
  /\ pc = "idle" \/ "reorgInTick" \in Hazards
  /\ d <= Len(daemon)
  /\ \E branch \in [1..d -> Blocks] :
       LET c == Prefix(daemon, Len(daemon) - d) \o branch
       IN  /\ branch[1] # daemon[Len(daemon) - d + 1]
           /\ ValidChain(c)
           /\ daemon' = c
           /\ archive' = Prefix(c, Len(archive))
  /\ reorgs' = reorgs + 1
  /\ UNCHANGED <<headers, raw, tables, rows, cursors, firstScans, pc, local,
                 todo, scanning, job, leaving, faults, crashes, unsubscribes>>

-----------------------------------------------------------------------------
(* Reorg detection and rollback                                            *)

(* The heights of the daemon's bestChain answer.                           *)
BestChain(maxLength) == {h \in DOMAIN daemon : h > Len(daemon) - maxLength}

(* Heights with a stored header inside the daemon's bestChain answer.      *)
Overlap == DOMAIN headers \cap BestChain(Window)

(* Faulty: hashes are not compared.                                        *)
HeightsOnly == Overlap

Agreed == {h \in Overlap : headers[h] = BlockHash(daemon, h)}

(* The descending walk stops at the first agreed header.                   *)
Mismatched == {h \in Overlap \ Agreed : \A a \in Agreed : a < h}

ForkHeight ==
  IF Agreed # {} THEN Highest(Agreed) ELSE Lowest(Mismatched) - 1

(* Faulty: gte for gt.                                                     *)
UpToNext(S, f) == {r \in S : r.height <= f + 1}

Below(S, f) == {r \in S : r.height <= f}

(* Faulty: one block too far.                                              *)
RewoundBelow(f) == indexed' = f - 1

(* The transaction's write of the indexed_height cursor.                   *)
RewindCursor(f) == indexed' = f

RollbackAboveFork(f) ==
  LET kept == {v \in DOMAIN rows : Lite \/ rows[v].discoveredAt <= f}
      ofKept(S) == {r \in Below(S, f) : r.vault \in kept}
  IN  /\ headers' = [h \in {k \in DOMAIN headers : k <= f} |-> headers[h]]
      /\ raw' = Below(raw, f)
      /\ configs' = ofKept(configs)
      /\ proposals' = ofKept(proposals)
      /\ marks' = {m \in ofKept(marks) :
                    \E p \in proposals' : p.vault = m.vault /\ p.proposal = m.proposal}
      /\ rows' = [v \in kept |->
                   IF \E r \in raw' : r.event.vault = v THEN rows[v]
                   ELSE [rows[v] EXCEPT !.ready = FALSE, !.verified = FALSE]]
      /\ RewindCursor(f)
      /\ UNCHANGED discovered

-----------------------------------------------------------------------------
(* Applying one event                                                      *)

NoConfig == [f \in Fields |-> Nothing]

(* Faulty: ascending order.                                                *)
EarliestConfigs(v) ==
  LET mine == {r \in configs : r.vault = v}
  IN  IF mine = {} THEN {NoConfig}
      ELSE {r.vals : r \in {x \in mine : \A y \in mine : y.height >= x.height}}

(* The latest snapshot of a vault; equal keys leave the order to the       *)
(* database.                                                               *)
LatestConfigs(v) ==
  LET mine == {r \in configs : r.vault = v}
      later(a, b) == a.height > b.height \/ (a.height = b.height /\ a.order > b.order)
  IN  IF mine = {} THEN {NoConfig}
      ELSE {r.vals : r \in {x \in mine : \A y \in mine : ~later(y, x)}}

AppendContractConfigSnapshot(item, order, sets) ==
  \E base \in LatestConfigs(item.event.vault) :
    configs' = configs \cup
      {[vault |-> item.event.vault, height |-> item.height, order |-> order,
        source |-> item.event,
        vals |-> [f \in Fields |-> IF f \in sets THEN item.event ELSE base[f]]]}

HasProposal(v, p) == \E r \in proposals : r.vault = v /\ r.proposal = p

(* upsert of an Approval or ProposalExecution row under vault v            *)
UpsertMark(v, item) ==
  LET e == item.event
      same == {m \in marks : /\ m.vault = v /\ m.proposal = e.proposal
                             /\ m.type = e.type /\ m.by = e.by}
  IN  marks' = (marks \ same) \cup
        {[vault |-> v, proposal |-> e.proposal, type |-> e.type, by |-> e.by,
          height |-> item.height]}

ApplySetup(item, order) ==
  /\ rows' = [rows EXCEPT ![item.event.vault].parent = Parent[item.event.vault]]
  /\ AppendContractConfigSnapshot(item, order, item.event.sets)
  /\ UNCHANGED <<proposals, marks>>

(* ownerChange, thresholdChange, delegate and enableChildMultiSig events   *)
ApplyConfigChange(item, order) ==
  /\ AppendContractConfigSnapshot(item, order, item.event.sets)
  /\ UNCHANGED <<proposals, marks, rows>>

(* A CREATE_CHILD proposal makes a lite indexer track the child at once.   *)
(* A row deleted and created again has another id.                         *)
NewRow(height, parent, verified) ==
  [id |-> unsubscribes, discoveredAt |-> height, ready |-> FALSE,
   verified |-> verified, synced |-> FALSE, parent |-> parent]

WithRow(v, row) == [u \in DOMAIN rows \cup {v} |-> IF u = v THEN row ELSE rows[u]]

ApplyProposal(item) ==
  LET e == item.event
  IN  /\ proposals' =
           IF HasProposal(e.vault, e.proposal) THEN proposals
           ELSE proposals \cup {[vault |-> e.vault, proposal |-> e.proposal,
                                 height |-> item.height]}
      /\ rows' = IF Lite /\ e.child # Nothing /\ e.child \notin DOMAIN rows
                 THEN WithRow(e.child, NewRow(item.height, e.vault, FALSE))
                 ELSE rows
      /\ UNCHANGED <<configs, marks>>

ApplyApproval(item) ==
  /\ IF HasProposal(item.event.vault, item.event.proposal)
     THEN UpsertMark(item.event.vault, item)
     ELSE UNCHANGED marks
  /\ UNCHANGED <<configs, proposals, rows>>

(* The LOCAL path finds the proposal under the emitting vault, the REMOTE  *)
(* path under its parent; an execution that finds neither changes nothing. *)
ApplyExecution(item, order) ==
  LET v == item.event.vault
      p == item.event.proposal
      up == rows[v].parent
  IN  /\ \/ /\ HasProposal(v, p)
            /\ UpsertMark(v, item)
            /\ AppendContractConfigSnapshot(item, order, {"nonce"})
         \/ /\ ~HasProposal(v, p)
            /\ up \in DOMAIN rows /\ HasProposal(up, p)
            /\ UpsertMark(up, item)
            /\ AppendContractConfigSnapshot(item, order, {"parentNonce"})
         \/ /\ ~HasProposal(v, p)
            /\ ~(up \in DOMAIN rows /\ HasProposal(up, p))
            /\ UNCHANGED <<marks, configs>>
      /\ UNCHANGED <<proposals, rows>>

ApplyEvent(item, order) ==
  \/ item.event.type = "setup" /\ ApplySetup(item, order)
  \/ item.event.type \in ConfigChanges /\ ApplyConfigChange(item, order)
  \/ item.event.type = "proposal" /\ ApplyProposal(item)
  \/ item.event.type = "approval" /\ ApplyApproval(item)
  \/ item.event.type = "execution" /\ ApplyExecution(item, order)

(* EventRaw.fingerprint: address, type, height, transaction and payload.   *)
Recorded(item) ==
  \E r \in raw : r.event = item.event /\ r.height = item.height

(* The first event of a height writes its header.                          *)
RecordEvent(item, applied) ==
  /\ headers' = [h \in DOMAIN headers \cup {item.height} |->
                  IF h \in DOMAIN headers THEN headers[h] ELSE item.hash]
  /\ raw' = raw \cup {[event |-> item.event, height |-> item.height,
                       applied |-> applied]}

-----------------------------------------------------------------------------
(* One contract's sync                                                     *)

NoJob == [vault |-> Nothing, id |-> 0, batch |-> <<>>, seq |-> 0, to |-> 0,
          finish |-> FALSE, stored |-> FALSE, ingested |-> FALSE,
          back |-> "idle"]

Job(v, lo, hi, finish, stored, back) ==
  [vault |-> v, id |-> rows'[v].id, batch |-> FetchEvents(archive, v, lo, hi),
   seq |-> 0, to |-> hi, finish |-> finish, stored |-> stored,
   ingested |-> FALSE, back |-> back]

(* The row a query returned is still there.                                *)
Exists(v, id) == v \in DOMAIN rows /\ rows[v].id = id

(* Faulty: any account will do.                                            *)
OnlyMissing(v) == ~rows[v].verified /\ ~Deployed(daemon, v)

(* The account check of a row that is not verified yet.                    *)
Refused(v) == ~rows[v].verified /\ ~(Deployed(daemon, v) /\ v \in Safe)

StartSync(v, lo, hi, finish, stored) ==
  /\ ~Refused(v)
  /\ rows' = [rows EXCEPT ![v].verified = TRUE]
  /\ job' = Job(v, lo, hi, finish, stored, pc)
  /\ pc' = "sync"

RefuseSync(v) ==
  /\ Refused(v)
  /\ rows' = IF Deployed(daemon, v)
             THEN [rows EXCEPT ![v] = [@ EXCEPT !.ready = FALSE, !.verified = FALSE]]
             ELSE rows
  /\ UNCHANGED <<job, pc>>

(* A thrown error ends the tick before the cursor moves; first scans keep  *)
(* their place.                                                            *)
AbortTick ==
  /\ pc' = "idle"
  /\ todo' = {}
  /\ scanning' = Nothing
  /\ job' = NoJob

(* A declared event type, its number of fields, and values of their types. *)
Decodes(event) == event.type # "malformed"

(* The next event of the batch: skipped when recorded, otherwise recorded  *)
(* and applied in one transaction, or quarantined when it cannot decode.   *)
IngestEvent ==
  LET item == Head(job.batch)
      ok == Decodes(item.event)
  IN  /\ pc = "sync"
      /\ job.batch # <<>>
      /\ Exists(job.vault, job.id)
      /\ IF Recorded(item)
         THEN UNCHANGED <<headers, raw, tables, rows>>
         ELSE /\ RecordEvent(item, ok)
              /\ IF ok THEN ApplyEvent(item, job.seq) ELSE UNCHANGED <<tables, rows>>
      /\ job' = [job EXCEPT !.batch = Tail(@), !.seq = @ + 1,
                            !.ingested = @ \/ (ok /\ ~Recorded(item))]
      /\ UNCHANGED <<nodes, cursors, firstScans, pc, local, todo, scanning,
                     leaving, budgets>>

HasApplied(v) == \E r \in raw : r.event.vault = v /\ r.applied

MarkSynced(v) ==
  rows' = [rows EXCEPT ![v] =
            [@ EXCEPT !.synced = TRUE,
                      !.ready = \/ rows[v].ready
                                \/ job.ingested
                                \/ job.stored /\ HasApplied(v)]]

Forget(v) == [u \in DOMAIN firstScans \ {v} |-> firstScans[u]]

(* The end of a batch, and what the caller does with the result.           *)
FinishSync ==
  LET v == job.vault
      again == ~job.finish /\ steps > 0
  IN  /\ pc = "sync"
      /\ job.batch = <<>>
      /\ IF job.finish THEN Exists(v, job.id) /\ MarkSynced(v) ELSE UNCHANGED rows
      /\ firstScans' = IF ~job.finish
                       THEN [firstScans EXCEPT ![v].next = job.to + 1]
                       ELSE IF job.stored THEN Forget(v) ELSE firstScans
      /\ todo' = IF again THEN todo ELSE todo \ {<<v, job.id>>}
      /\ scanning' = IF again THEN v ELSE Nothing
      /\ pc' = job.back
      /\ job' = NoJob
      /\ UNCHANGED <<nodes, headers, raw, tables, cursors, local, leaving, budgets>>

(* The row was deleted by an unsubscribe while its sync was running: the   *)
(* write violates a foreign key and the tick fails.                        *)
SyncOrphaned ==
  /\ pc = "sync"
  /\ ~Exists(job.vault, job.id)
  /\ job.batch # <<>> \/ job.finish
  /\ AbortTick
  /\ UNCHANGED <<nodes, headers, raw, tables, rows, cursors, firstScans, local,
                 leaving, budgets>>

-----------------------------------------------------------------------------
(* The tick                                                                *)

Unready == {v \in DOMAIN rows : ~rows[v].ready}

Queried(S) == {<<v, rows[v].id>> : v \in S}

(* First scans of vaults that became ready or were scanned are dropped.    *)
EnterRescan ==
  /\ pc' = "rescan"
  /\ todo' = Queried(Unready)
  /\ steps' = FIRST_SCAN_STEPS_PER_TICK
  /\ firstScans' = [v \in {u \in DOMAIN firstScans :
                             /\ u \in Unready /\ ~rows[u].synced
                             /\ firstScans[u].id = rows[u].id} |-> firstScans[v]]

(* Faulty: no replay.                                                      *)
FromCursor == indexed

ReplayFrom == Larger(0, indexed - Window + 1)

(* Faulty: no margin, no rescan of the pending horizon.                    *)
NoMargin == Larger(1, Smaller(Window, Len(daemon) - indexed))

NoRescan == IF discovered = Nothing THEN 0 ELSE discovered + 1

(* discoverCandidateAddresses on the daemon, or the archive's query.       *)
DiscoveryWindow ==
  Larger(1, Smaller(Window, Len(daemon) - indexed + Margin))

ScanFloor == Larger(0, Len(daemon) - DiscoveryWindow + 1)

DiscoveryFrom ==
  IF discovered = Nothing THEN 0 ELSE Larger(0, discovered - Window + 1)

Candidates ==
  IF ArchiveDiscovery
  THEN {v \in Vaults : \E h \in DOMAIN archive :
          h >= DiscoveryFrom /\ v \in archive[h].deploys}
  ELSE {v \in Vaults : \E h \in DOMAIN daemon :
          h \in BestChain(DiscoveryWindow) /\ v \in daemon[h].deploys}

DeployBlock(v) ==
  IF ArchiveDiscovery
  THEN Lowest({h \in DOMAIN archive : h >= DiscoveryFrom /\ v \in archive[h].deploys})
  ELSE ScanFloor

(* A tick that finds a fork only rolls back.                               *)
TickRollsBack ==
  /\ pc = "idle"
  /\ Mismatched # {}
  /\ RollbackAboveFork(ForkHeight)
  /\ firstScans' = [v \in DOMAIN firstScans |->
       [firstScans[v] EXCEPT
          !.next = Larger(firstScans[v].start, Smaller(@, ForkHeight + 1))]]
  /\ UNCHANGED <<nodes, pc, local, todo, scanning, job, leaving, budgets>>

(* The archive's pending tip, by its API or its database.                  *)
LatestBlockHeight == Len(archive)

(* Otherwise it reads the archive's tip and starts with discovery; an      *)
(* archive below the cursor pauses indexing. A failed bestChain request    *)
(* skips the detection.                                                    *)
TickBegins ==
  /\ pc = "idle"
  /\ Mismatched = {} \/ "detectionFails" \in Hazards
  /\ LatestBlockHeight >= indexed
  /\ LatestBlockHeight >= ReplayFrom
  /\ latest' = LatestBlockHeight
  /\ from' = ReplayFrom
  /\ failed' = FALSE
  /\ IF Lite
     THEN EnterRescan
     ELSE /\ pc' = "discover"
          /\ todo' = {<<v, DeployBlock(v)>> : v \in Candidates}
          /\ UNCHANGED <<steps, firstScans>>
  /\ UNCHANGED <<nodes, headers, raw, tables, rows, cursors, scanning, job, leaving,
                 budgets>>

(* processCandidateAddresses, one candidate: a new vault that passes the   *)
(* account check gets a row and a backfill up to the cursor.               *)
BackfillFrom ==
  IF ArchiveDiscovery THEN 0 ELSE Larger(0, indexed - BackfillBlocks)

ProcessCandidate(v, deployBlock) ==
  /\ pc = "discover"
  /\ <<v, deployBlock>> \in todo
  /\ todo' = todo \ {<<v, deployBlock>>}
  /\ \/ /\ v \in DOMAIN rows \/ ~(Deployed(daemon, v) /\ v \in Safe)
        /\ UNCHANGED <<rows, job, pc>>
     \/ /\ v \notin DOMAIN rows /\ Deployed(daemon, v) /\ v \in Safe
        /\ rows' = WithRow(v, NewRow(deployBlock, Nothing, TRUE))
        /\ IF indexed > BackfillFrom
           THEN /\ job' = Job(v, BackfillFrom, indexed, TRUE, FALSE, "discover")
                /\ pc' = "sync"
           ELSE UNCHANGED <<job, pc>>
  /\ UNCHANGED <<nodes, headers, raw, tables, cursors, firstScans, local,
                 scanning, leaving, budgets>>

(* Faulty: failures do not hold the cursor back.                           *)
AlwaysAdvance ==
  discovered' = IF ArchiveDiscovery THEN latest ELSE discovered

(* The discovery cursor moves only when no candidate failed.               *)
AdvanceDiscovery ==
  discovered' = IF ArchiveDiscovery /\ ~failed THEN latest ELSE discovered

EndDiscovery ==
  /\ pc = "discover"
  /\ todo = {}
  /\ AdvanceDiscovery
  /\ EnterRescan
  /\ UNCHANGED <<nodes, headers, raw, tables, rows, indexed, latest, from,
                 failed, scanning, job, leaving, budgets>>

(* rescanUnreadyContracts, one vault: a recent replay when its history was *)
(* scanned before, otherwise the next step of its first scan.              *)
ReplayUnready(v) ==
  LET lo == Larger(rows[v].discoveredAt, from)
  IN  /\ rows[v].synced
      /\ IF lo > latest
         THEN UNCHANGED <<rows, job, pc>> /\ todo' = todo \ Queried({v})
         ELSE \/ StartSync(v, lo, latest, TRUE, FALSE) /\ UNCHANGED todo
              \/ RefuseSync(v) /\ todo' = todo \ Queried({v})
      /\ UNCHANGED <<firstScans, steps, scanning>>

(* Faulty: progress forgotten, or the first step taken for the whole scan. *)
ScanRestarts(v) ==
  IF v \in DOMAIN rows
  THEN [id |-> rows[v].id, start |-> rows[v].discoveredAt, next |-> rows[v].discoveredAt]
  ELSE firstScans[v]

FinishesEarly(v) == TRUE

ScanOf(v) ==
  IF v \in DOMAIN firstScans THEN firstScans[v]
  ELSE [id |-> rows[v].id, start |-> rows[v].discoveredAt,
        next |-> rows[v].discoveredAt]

StepEnd(v) == Smaller(ScanOf(v).next + EVENT_QUERY_BLOCK_SPAN - 1, latest)

Finishes(v) == StepEnd(v) = latest

FirstScanStep(v) ==
  /\ ~rows[v].synced
  /\ \/ /\ rows[v].discoveredAt > latest
        /\ todo' = todo \ Queried({v})
        /\ UNCHANGED <<rows, job, pc, firstScans, steps, scanning>>
     \/ /\ rows[v].discoveredAt <= latest
        /\ firstScans' = [u \in DOMAIN firstScans \cup {v} |-> ScanOf(u)]
        /\ \/ /\ steps = 0
              /\ todo' = todo \ Queried({v})
              /\ UNCHANGED <<rows, job, pc, steps, scanning>>
           \/ /\ steps > 0
              /\ steps' = steps - 1
              /\ \/ /\ StartSync(v, ScanOf(v).next, StepEnd(v),
                                 Finishes(v), TRUE)
                    /\ UNCHANGED <<todo, scanning>>
                 \/ /\ RefuseSync(v)
                    /\ todo' = todo \ Queried({v})
                    /\ scanning' = Nothing

RescanUnready(v) ==
  /\ pc = "rescan"
  /\ v \in DOMAIN rows
  /\ <<v, rows[v].id>> \in todo
  /\ scanning \in {Nothing, v}
  /\ ReplayUnready(v) \/ FirstScanStep(v)
  /\ UNCHANGED <<nodes, headers, raw, tables, cursors, latest, from, failed,
                 leaving, budgets>>

(* A row deleted since the query: the account check finds no row to update *)
(* and throws, unless the account itself is missing.                       *)
RescanOrphaned(v, id) ==
  /\ pc \in {"rescan", "known"}
  /\ <<v, id>> \in todo
  /\ scanning \in {Nothing, v}
  /\ ~Exists(v, id)
  /\ IF Deployed(daemon, v)
     THEN AbortTick
     ELSE /\ todo' = todo \ {<<v, id>>}
          /\ scanning' = Nothing
          /\ UNCHANGED <<pc, job>>
  /\ UNCHANGED <<nodes, headers, raw, tables, rows, cursors, firstScans, local,
                 leaving, budgets>>

EndRescan ==
  /\ pc = "rescan"
  /\ todo = {}
  /\ todo' = Queried(DOMAIN rows \ Unready)
  /\ pc' = "known"
  /\ UNCHANGED <<nodes, headers, raw, tables, rows, cursors, firstScans, local,
                 scanning, job, leaving, budgets>>

(* syncKnownContracts, one ready vault.                                    *)
SyncKnown(v) ==
  /\ pc = "known"
  /\ v \in DOMAIN rows
  /\ <<v, rows[v].id>> \in todo
  /\ \/ StartSync(v, from, latest, TRUE, FALSE) /\ UNCHANGED todo
     \/ RefuseSync(v) /\ todo' = todo \ Queried({v})
  /\ UNCHANGED <<nodes, headers, raw, tables, cursors, firstScans, local,
                 scanning, leaving, budgets>>

(* Faulty: the tip is read again at the end.                               *)
EndTickAtTip ==
  /\ pc = "known"
  /\ todo = {}
  /\ indexed' = Len(archive)
  /\ pc' = "idle"
  /\ UNCHANGED <<nodes, headers, raw, tables, rows, discovered, firstScans,
                 local, todo, scanning, job, leaving, budgets>>

EndTick ==
  /\ pc = "known"
  /\ todo = {}
  /\ indexed' = latest
  /\ pc' = "idle"
  /\ UNCHANGED <<nodes, headers, raw, tables, rows, discovered, firstScans,
                 local, todo, scanning, job, leaving, budgets>>

-----------------------------------------------------------------------------
(* Failures                                                                *)

(* Both the endpoint and its fallback are down, time out or answer errors. *)
CallMayFail == faults < MaxFaults

(* Faulty: a vault whose sync fails is passed over.                        *)
FailurePassedOver ==
  /\ CallMayFail
  /\ pc = "sync"
  /\ todo' = todo \ {<<job.vault, job.id>>}
  /\ pc' = job.back
  /\ job' = NoJob
  /\ faults' = faults + 1
  /\ UNCHANGED <<nodes, headers, raw, tables, rows, cursors, firstScans, local,
                 scanning, leaving, reorgs, crashes, unsubscribes>>

(* A node, archive or database call fails. Discovery isolates its          *)
(* candidates; anywhere else the tick ends before the cursor moves.        *)
CallFails ==
  /\ CallMayFail
  /\ pc \in {"discover", "rescan", "known", "sync"}
  /\ \/ /\ pc = "discover" \/ (pc = "sync" /\ job.back = "discover")
        /\ IF pc = "sync" THEN UNCHANGED todo ELSE \E t \in todo : todo' = todo \ {t}
        /\ failed' = TRUE
        /\ pc' = "discover"
        /\ job' = NoJob
        /\ UNCHANGED scanning
     \/ /\ \/ pc \in {"rescan", "known"}
           \/ pc = "discover" /\ todo = {}
           \/ pc = "sync" /\ job.back # "discover"
        /\ AbortTick
        /\ UNCHANGED failed
  /\ faults' = faults + 1
  /\ UNCHANGED <<nodes, headers, raw, tables, rows, cursors, firstScans, latest,
                 from, steps, leaving, reorgs, crashes, unsubscribes>>

(* The process dies and starts again: only the database survives.          *)
Crash ==
  /\ crashes < MaxCrashes
  /\ pc # "idle" \/ firstScans # <<>> \/ leaving # Nothing
  /\ AbortTick
  /\ firstScans' = <<>>
  /\ leaving' = Nothing
  /\ crashes' = crashes + 1
  /\ UNCHANGED <<nodes, headers, raw, tables, rows, cursors, local, reorgs,
                 faults, unsubscribes>>

-----------------------------------------------------------------------------
(* The subscription routes (lite mode)                                     *)

(* Adding an existing vault names its first block and checks the account.  *)
SubscribeFrom(v, b) ==
  /\ Lite
  /\ Deployed(daemon, v) /\ v \in Safe
  /\ b <= Len(archive)
  /\ rows' = IF v \in DOMAIN rows THEN [rows EXCEPT ![v].verified = TRUE]
             ELSE WithRow(v, NewRow(b, Nothing, TRUE))
  /\ rows' # rows
  /\ UNCHANGED <<nodes, headers, raw, tables, cursors, firstScans, pc, local,
                 todo, scanning, job, leaving, budgets>>

(* Subscribing right after a deploy races its block: no check, and a first *)
(* block Margin below the tip.                                             *)
SubscribeNew(v) ==
  /\ Lite
  /\ v \notin DOMAIN rows
  /\ rows' = WithRow(v, NewRow(Larger(0, Len(archive) - Margin), Nothing, FALSE))
  /\ UNCHANGED <<nodes, headers, raw, tables, cursors, firstScans, pc, local,
                 todo, scanning, job, leaving, budgets>>

(* deleteContract deletes EventRaw rows itself: their foreign key is only  *)
(* set to null. Faulty: it does not.                                       *)
EventsDetached(gone) == raw' = raw

DeleteEvents(gone) == raw' = {r \in raw : r.event.vault \notin gone}

(* An unsubscribe reads the vault's row and those of its children ...      *)
Unsubscribe(v) ==
  /\ Lite
  /\ leaving = Nothing
  /\ unsubscribes < MaxUnsubscribes
  /\ v \in DOMAIN rows
  /\ leaving' = [vault |-> v, children |-> {u \in DOMAIN rows : rows[u].parent = v}]
  /\ UNCHANGED <<nodes, headers, raw, tables, rows, cursors, firstScans, pc,
                 local, todo, scanning, job, budgets>>

(* ... and deletes them one transaction after the other, the vault last,   *)
(* each with its history. What was created since the read is not deleted.  *)
DeleteContract(v) ==
  LET keep(S) == {r \in S : r.vault # v}
  IN  /\ Lite /\ leaving # Nothing
      /\ \/ /\ v \in leaving.children
            /\ leaving' = [leaving EXCEPT !.children = @ \ {v}]
         \/ /\ v = leaving.vault /\ leaving.children = {}
            /\ leaving' = Nothing
      /\ rows' = [u \in DOMAIN rows \ {v} |-> rows[u]]
      /\ DeleteEvents({v})
      /\ configs' = keep(configs)
      /\ proposals' = keep(proposals)
      /\ marks' = keep(marks)
      /\ unsubscribes' = unsubscribes + 1
      /\ UNCHANGED <<nodes, headers, cursors, firstScans, pc, local, todo,
                     scanning, job, reorgs, faults, crashes>>

(* A failing deletion ends the request where it is.                        *)
UnsubscribeFails ==
  /\ CallMayFail
  /\ Lite /\ leaving # Nothing
  /\ leaving' = Nothing
  /\ faults' = faults + 1
  /\ UNCHANGED <<nodes, headers, raw, tables, rows, cursors, firstScans, pc,
                 local, todo, scanning, job, reorgs, crashes, unsubscribes>>

-----------------------------------------------------------------------------
(* The specification                                                       *)

Init ==
  /\ env \in Deployments
  /\ daemon = <<>> /\ archive = <<>>
  /\ headers = <<>> /\ raw = {}
  /\ configs = {} /\ proposals = {} /\ marks = {}
  /\ rows = <<>>
  /\ indexed = 0 /\ discovered = Nothing
  /\ firstScans = <<>>
  /\ pc = "idle" /\ latest = 0 /\ from = 0
  /\ todo = {} /\ failed = FALSE /\ steps = 0 /\ scanning = Nothing
  /\ job = NoJob /\ leaving = Nothing
  /\ reorgs = 0 /\ faults = 0 /\ crashes = 0 /\ unsubscribes = 0

Chain ==
  \/ \E b \in Blocks : MineBlock(b)
  \/ ArchiveIngest
  \/ \E d \in 1..MaxReorgDepth : Reorg(d)

Tick ==
  \/ TickRollsBack
  \/ TickBegins
  \/ \E v \in Vaults : RescanUnready(v) \/ SyncKnown(v)
  \/ \E v \in Vaults, b \in 0..MaxHeight : ProcessCandidate(v, b)
  \/ \E v \in Vaults, id \in 0..unsubscribes : RescanOrphaned(v, id)
  \/ EndDiscovery
  \/ EndRescan
  \/ EndTick
  \/ IngestEvent
  \/ FinishSync
  \/ SyncOrphaned

Failure == CallFails \/ Crash

Routes ==
  \/ \E v \in Subscribable :
       \/ \E b \in 0..MaxHeight : SubscribeFrom(v, b)
       \/ SubscribeNew(v)
       \/ Unsubscribe(v)
  \/ \E v \in DOMAIN rows : DeleteContract(v)
  \/ UnsubscribeFails

Next == (Chain \/ Tick \/ Failure \/ Routes) /\ UNCHANGED env

Spec == Init /\ [][Next]_<<env, vars>>

(* When a tick has a next step: always once it has begun.                  *)
TickReady ==
  \/ pc # "idle"
  \/ Mismatched # {}
  \/ LatestBlockHeight >= indexed /\ LatestBlockHeight >= ReplayFrom

(* The poll timer always fires again, and the archive follows the daemon.  *)
(* Weak fairness of Tick is written out with its enabling condition, which *)
(* spares TLC the archive's queries for each ENABLED.                      *)
FairSpec ==
  Spec /\ ([]<>~TickReady \/ []<><<Tick>>_vars) /\ WF_vars(ArchiveIngest)

-----------------------------------------------------------------------------
(* What the tables should hold                                             *)

(* Columns the contract's event changes on chain.                          *)
SetsOf(e) ==
  CASE e.type \in {"setup"} \cup ConfigChanges -> e.sets
    [] e.type = "execution" -> IF e.remote THEN {"parentNonce"} ELSE {"nonce"}
    [] OTHER -> {}

History(c, v) == InRange(c, v, 0, Len(c), FALSE)

(* A vault's configuration after the first n events of its history.        *)
ConfigAfter(log, n) ==
  LET setters(f) == {i \in 1..n : f \in SetsOf(log[i].event)}
  IN  [f \in Fields |->
        IF setters(f) = {} THEN Nothing ELSE log[Highest(setters(f))].event]

(* Two events of one block that set the same column (configNonce, by every *)
(* owner, threshold or switch change) and were emitted against their rank: *)
(* the rank decides which is applied last. The column's value is then the  *)
(* wrong event's until the next one sets it.                               *)
Rank(e) == CHOOSE r \in DOMAIN EVENT_TYPE_ORDER : EVENT_TYPE_ORDER[r] = e.type

Contended(log, f) ==
  LET setters == {i \in DOMAIN log : f \in SetsOf(log[i].event)}
      last == {i \in setters : \A j \in setters : log[j].height <= log[i].height}
  IN  \E i, j \in last : i < j /\ Rank(log[i].event) > Rank(log[j].event)

Canonical(log) ==
  {[event |-> log[i].event, height |-> log[i].height] : i \in DOMAIN log}

RecordedOf(v) ==
  {[event |-> r.event, height |-> r.height] : r \in {x \in raw : x.event.vault = v}}

(* The vault's first block is within what the indexer was told to scan.    *)
TrackedFromStart(v) ==
  /\ v \in DOMAIN rows
  /\ \A h \in DOMAIN daemon : v \in daemon[h].deploys => rows[v].discoveredAt <= h

(* A SubVault's row that was there before its parent's, or is without one: *)
(* it was created while its parent was being unsubscribed.                 *)
Outlived(v) ==
  /\ v \in DOMAIN rows /\ rows[v].parent # Nothing
  /\ \/ rows[v].parent \notin DOMAIN rows
     \/ rows[rows[v].parent].id > rows[v].id

(* A snapshot of v has what the chain has after the events of the log, but *)
(* for a contended column and an outlived SubVault's parentNonce.          *)
Agrees(v, vals, log) ==
  \A f \in Fields :
    \/ Contended(log, f)
    \/ f = "parentNonce" /\ Outlived(v)
    \/ vals[f] = ConfigAfter(log, Len(log))[f]

-----------------------------------------------------------------------------
(* Properties                                                              *)

Event == UNION {{b.events[i] : i \in DOMAIN b.events} : b \in Blocks}

Heights == 0..MaxHeight

(* Every table holds well-formed rows, and the tick's locals are in range. *)
TypeOK ==
  /\ daemon \in Seq(Blocks) /\ archive \in Seq(Blocks)
  /\ Len(daemon) <= MaxHeight
  /\ DOMAIN headers \subseteq 1..MaxHeight
  /\ raw \subseteq [event : Event, height : Heights, applied : BOOLEAN]
  /\ proposals \subseteq [vault : Vaults, proposal : {e.proposal : e \in Event},
                         height : Heights]
  /\ \A r \in configs : r.vault \in Vaults /\ r.height \in Heights
  /\ DOMAIN rows \subseteq Vaults
  /\ \A v \in DOMAIN rows : rows[v].discoveredAt \in Heights
  /\ indexed \in Heights /\ discovered \in Heights \cup {Nothing}
  /\ pc \in {"idle", "discover", "rescan", "known", "sync"}
  /\ pc = "sync" <=> job # NoJob
  /\ pc = "idle" => todo = {} /\ scanning = Nothing

(* "Every event-derived row has a header at its height", which rollback    *)
(* without an agreed predecessor relies on.                                *)
RowsHaveHeaders ==
  \A r \in raw \cup configs \cup proposals \cup marks : r.height \in DOMAIN headers

(* Whatever order a block's events are applied in, the last snapshot of a  *)
(* block whose events are all recorded is the vault's configuration on the *)
(* chain of that block: no field comes from an orphaned block or from a    *)
(* later event. Only a column contended within its block, or the           *)
(* parentNonce of a SubVault that outlived its parent, may be wrong.       *)
ConfigFaithful ==
  \A r \in configs :
    LET log == History(headers[r.height], r.vault)
        block == {x \in Canonical(log) : x.height = r.height}
    IN  /\ TrackedFromStart(r.vault)
        /\ block \subseteq RecordedOf(r.vault)
        /\ \A q \in configs :
             q.vault = r.vault /\ q.height = r.height => q.order <= r.order
        => Agrees(r.vault, r.vals, log)

(* "If block hashes disagree at a height, the reorg detector catches it on *)
(* the next tick": a stored header that differs from the chain inside the  *)
(* window is never hidden below one that agrees.                           *)
DisagreementCaught ==
  pc = "idle" /\ ~(Overlap \subseteq Agreed) => Mismatched # {}

(* An event recorded as applied has its effect in the tables, whatever     *)
(* crashed, failed or was rolled back since; otherwise nothing would ever  *)
(* apply it, since its fingerprint makes every later sync skip it. Only    *)
(* the REMOTE executions of a SubVault that outlived its parent's row have *)
(* none: they found no parent, or not the one there is now.                *)
RecordedMeansApplied ==
  \A r \in {x \in raw : x.applied} :
    LET e == r.event
    IN  /\ e.type = "proposal" => HasProposal(e.vault, e.proposal)
        /\ e.type \in {"approval", "execution"} /\ ProposalVault(e) \in DOMAIN rows
           /\ ~(e.remote /\ Outlived(e.vault)) =>
             \E m \in marks : /\ m.vault = ProposalVault(e) /\ m.type = e.type
                              /\ m.proposal = e.proposal /\ m.by = e.by
        /\ e.type \in {"setup"} \cup ConfigChanges =>
             \E c \in configs : c.source = e /\ c.height = r.height

(* The cursor never leaves an event behind: below the blocks every tick    *)
(* replays, a ready vault has all its events.                              *)
NothingSkipped ==
  \A v \in DOMAIN rows :
    rows[v].ready /\ TrackedFromStart(v) =>
      \A x \in Canonical(History(archive, v)) :
        x.height <= indexed - Window => x \in RecordedOf(v)

(* "transient failures get retried on the next tick": whatever a tick did  *)
(* not manage to track, the next scan still covers.                        *)
DeploysRetried ==
  pc = "idle" /\ ~Lite =>
    \A v \in Safe :
      Deployed(IF ArchiveDiscovery THEN archive ELSE daemon, v) =>
        v \in DOMAIN rows \cup Candidates

(* Nothing is recorded of an account with another verification key or      *)
(* other permissions, whichever way it came to be tracked.                 *)
OnlySafeIndexed == \A r \in raw : r.event.vault \in Safe

(* The tables agree with the chain.                                        *)
UpToDate ==
  \A v \in Vaults :
    /\ ~Lite /\ v \in Safe /\ Deployed(daemon, v) => v \in DOMAIN rows
    /\ TrackedFromStart(v) /\ v \in Safe /\ Deployed(daemon, v) =>
         LET log == History(daemon, v)
         IN  /\ RecordedOf(v) = Canonical(log)
             /\ \A vals \in LatestConfigs(v) : Agrees(v, vals, log)
    /\ ~Deployed(daemon, v) => RecordedOf(v) = {}

(* Once the chain settles and calls stop failing, the tables settle on     *)
(* what the chain says: every vault found, every event applied, nothing    *)
(* left of an orphaned branch. A contended column, or the parentNonce of a *)
(* SubVault that outlived its parent, is right only once a later event     *)
(* sets it.                                                                *)
CatchesUp == <>[]UpToDate

=============================================================================
