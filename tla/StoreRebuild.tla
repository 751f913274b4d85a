---------------------------- MODULE StoreRebuild ----------------------------
(***************************************************************************)
(* A vault's off-chain stores rebuilt from its indexed events               *)
(* (event-rebuild.ts, storage.ts), and the incremental cache of verified    *)
(* stores in memory and in IndexedDB (store-checkpoint.ts).  The chain may  *)
(* reorganise, the backend lags behind it, stores a block's events one by   *)
(* one in any order and serves them in pages; anyone may append events to   *)
(* a vault; the persisted checkpoint is not trusted.                        *)
(*                                                                         *)
(* Owners are numbers in the order of their base58 strings.  A commitment   *)
(* or a Merkle root is what it commits to.                                  *)
(***************************************************************************)
EXTENDS Integers, FiniteSets, Sequences, SequencesExt

CONSTANTS
    Owners,         \* public keys, ordered as their encodings are
    FirstOwners,    \* the owner list of the setup, in its slots' order
    Worlds,         \* the chains to run on: their transactions and bounds
    PageSize,       \* events per page of GET .../events
    None            \* undefined

Kinds == {"vote", "execute", "remote", "change", "forge"}

ASSUME StoreRebuildConstants ==
    /\ Owners \subseteq Nat /\ IsFiniteSet(Owners)
    /\ PageSize \in Nat \ {0}
    /\ \A w \in Worlds : /\ w.kinds \subseteq Kinds /\ w.height \in Nat \ {0}
                         /\ {w.txs, w.faults} \subseteq Nat

VARIABLES
    world,      \* the one of Worlds that runs
    blocks,     \* the chain: each block's events and the vault after it
    mined,      \* transactions so far
    faults,     \* blocks orphaned, requests failed and checkpoints altered so far
    table,      \* eventRaw, by height and then by arrival
    cache,      \* IncrementalStoreCache
    disk,       \* the checkpoint in IndexedDB
    load        \* the load in progress

vars == <<world, blocks, mined, faults, table, cache, disk, load>>
chain == <<world, blocks, mined>>
backend == <<chain, faults, table>>

MaxHeight == world.height   \* blocks
MaxTxs == world.txs         \* transactions mined, orphaned ones included
MaxFaults == world.faults   \* blocks orphaned, requests failed, checkpoints altered

PROPOSED_MARKER == 1
EXECUTED_MARKER == 100

-----------------------------------------------------------------------------
(* The vault on chain, with one proposal, and the events of its methods.    *)

Vault0 == [owners |-> FirstOwners, approval |-> 0, nullifiers |-> {}, configNonce |-> 0]

Stores(v) == [owners |-> v.owners, approval |-> v.approval, nullifiers |-> v.nullifiers]

Event(type, owner, n, to) == [type |-> type, owner |-> owner, n |-> n, to |-> to]

Placed(owners, o, i) == SubSeq(owners, 1, i) \o <<o>> \o SubSeq(owners, i + 1, Len(owners))

Dropped(owners, o) == SelectSeq(owners, LAMBDA q : q # o)

Open(v) == v.approval \notin {0, EXECUTED_MARKER}

Vote(v, o) ==
    [vault |-> [v EXCEPT !.approval = IF @ = 0 THEN PROPOSED_MARKER + 1 ELSE @ + 1,
                         !.nullifiers = @ \cup {o}],
     events |-> <<IF v.approval = 0 THEN Event("proposal", o, 0, <<>>)
                  ELSE Event("approval", o, v.approval + 1, <<>>)>>]

Execute(v) ==
    [vault |-> [v EXCEPT !.approval = EXECUTED_MARKER],
     events |-> <<Event("execution", 0, 0, <<>>)>>]

(* The vault, a SubVault, executes a remote proposal of its parent.         *)
ExecuteRemote(v) == [vault |-> v, events |-> <<Event("remote", 0, 0, <<>>)>>]

(* The proposals behind owner changes are left out: their approval entries  *)
(* behave as the one kept.                                                  *)
ChangeOwners(v, o, owners, added) ==
    [vault |-> [v EXCEPT !.owners = owners, !.configNonce = @ + 1],
     events |-> <<Event(IF added THEN "added" ELSE "removed", o, v.configNonce + 1, owners)>>]

(* Somebody appends an event to the vault's account.                        *)
Forge(v) == {[vault |-> v, events |-> <<e>>] : e \in
    {Event("approval", CHOOSE o \in Owners : TRUE, EXECUTED_MARKER - 1, <<>>),
     Event("removed", v.owners[1], v.configNonce + 1, <<>>)}}

TransactionsOf(kind, v) ==
    CASE kind = "vote" ->
           {Vote(v, o) : o \in {q \in ToSet(v.owners) \ v.nullifiers : v.approval # EXECUTED_MARKER}}
      [] kind = "execute" -> {Execute(w) : w \in {u \in {v} : Open(u)}}
      [] kind = "remote" -> {ExecuteRemote(v)}
      [] kind = "change" ->
           {ChangeOwners(v, o, Placed(v.owners, o, i), TRUE) :
              o \in Owners \ ToSet(v.owners), i \in 0 .. Len(v.owners)}
           \cup {ChangeOwners(v, o, Dropped(v.owners, o), FALSE) :
                   o \in {q \in ToSet(v.owners) : Len(v.owners) > 1}}
      [] kind = "forge" -> Forge(v)

Transactions(v) == UNION {TransactionsOf(kind, v) : kind \in world.kinds}

Height == Len(blocks)
Tip == blocks[Height].vault

SetupEvents == [i \in 1 .. Len(FirstOwners) |-> Event("setupOwner", FirstOwners[i], i - 1, <<>>)]

NoLoad == [pc |-> "idle", base |-> None, offset |-> 0,
           events |-> <<>>, outcome |-> "none"]

Init ==
    /\ world \in Worlds
    /\ blocks = <<[vault |-> Vault0, events |-> SetupEvents]>>
    /\ mined = 0 /\ faults = 0
    /\ table = [i \in 1 .. Len(SetupEvents) |-> [height |-> 1, event |-> SetupEvents[i]]]
    /\ cache = None /\ disk = None
    /\ load = NoLoad

(* A block with one or two of the vault's transactions.                     *)
Blocks(v) ==
    Transactions(v)
    \cup UNION {{[vault |-> t.vault, events |-> s.events \o t.events] : t \in Transactions(s.vault)} :
                s \in Transactions(v)}

(* The block is within the bound, and is put at height h.                   *)
Seal(h, b) ==
    /\ mined + Len(b.events) <= MaxTxs
    /\ mined' = mined + Len(b.events)
    /\ blocks' = Append(SubSeq(blocks, 1, h - 1), b)

Mine ==
    /\ Height < MaxHeight
    /\ \E b \in Blocks(Tip) : Seal(Height + 1, b)
    /\ UNCHANGED <<world, faults, table, cache, disk, load>>

(* Another block takes the last one's place.                                *)
Reorg ==
    /\ faults < MaxFaults /\ Height > 1
    /\ \E b \in Blocks(blocks[Height - 1].vault) : Seal(Height, b)
    /\ faults' = faults + 1
    /\ UNCHANGED <<world, table, cache, disk, load>>

-----------------------------------------------------------------------------
(* The backend stores events of the lowest incomplete block, in any order,  *)
(* and removes those of an orphaned block.                                  *)

EventsAt(h) == ToSet(blocks[h].events)
StoredAt(h) == {table[i].event : i \in {j \in DOMAIN table : table[j].height = h}}
Current(r) == r.height \in DOMAIN blocks /\ r.event \in EventsAt(r.height)
Incomplete == {h \in DOMAIN blocks : StoredAt(h) # EventsAt(h)}

Ingest ==
    /\ Incomplete # {} /\ \A i \in DOMAIN table : Current(table[i])
    /\ LET h == Min(Incomplete) IN
         \E e \in EventsAt(h) \ StoredAt(h) : table' = Append(table, [height |-> h, event |-> e])
    /\ UNCHANGED <<chain, faults, cache, disk, load>>

Rollback ==
    /\ \E i \in DOMAIN table : ~Current(table[i])
    /\ table' = SelectSeq(table, Current)
    /\ UNCHANGED <<chain, faults, cache, disk, load>>

-----------------------------------------------------------------------------
(* rebuildStores on the events as served, oldest first.                     *)

AddSorted(owners, o) ==
    Placed(owners, o, Cardinality({i \in DOMAIN owners : owners[i] < o}))

(* insertPositionFor, with the fall back to the canonical order.            *)
Inserted(owners, o, to) ==
    IF \E i \in 0 .. Len(owners) : Placed(owners, o, i) = to THEN to ELSE AddSorted(owners, o)

ReplayChange(owners, e) ==
    IF e.type = "removed" THEN Dropped(owners, e.owner) ELSE Inserted(owners, e.owner, e.to)

(* The Maps of setup owners, by slot, and of owner changes, by nonce, owner *)
(* and kind, keep what they got first for each key.                         *)
SameKey(e, f) == e.type = f.type /\ e.n = f.n /\ (e.type # "setupOwner" => e.owner = f.owner)

KeepFirst(s) ==
    FoldLeft(LAMBDA kept, e : IF \E i \in DOMAIN kept : SameKey(kept[i], e) THEN kept
                              ELSE Append(kept, e),
             <<>>, s)

(* The setup's owners by slot, the first event of each slot.                *)
SlotOwners(events) ==
    LET setup == SelectSeq(events, LAMBDA e : e.type = "setupOwner")
        slots == SortSeq(KeepFirst(setup), LAMBDA e, f : e.n < f.n)
    IN  [i \in DOMAIN slots |-> slots[i].owner]

(* Owner changes, each (nonce, owner, added) once, by configuration nonce.  *)
ServedOrder(changes) == changes
NonceOrder(changes) ==
    LET nonces == SetToSortSeq({e.n : e \in ToSet(changes)}, <)
    IN  FlattenSeq([i \in DOMAIN nonces |-> SelectSeq(changes, LAMBDA e : e.n = nonces[i])])

OwnerChanges(events) ==
    NonceOrder(KeepFirst(SelectSeq(events, LAMBDA e : e.type \in {"added", "removed"})))

RebuildOwners(events, initial) ==
    FoldLeft(ReplayChange, IF initial = None THEN SlotOwners(events) ELSE initial.owners,
             OwnerChanges(events))

(* Approval leaves only grow; remote executions mark the child's map.       *)
RaiseTo(old, new) == IF new > old THEN new ELSE old

ApplyMapEvent(s, e) ==
    CASE e.type \in {"proposal", "approval"} ->
           [s EXCEPT !.approval = RaiseTo(@, IF e.type = "proposal" THEN PROPOSED_MARKER + 1 ELSE e.n),
                     !.nullifiers = @ \cup {e.owner}]
      [] e.type = "execution" -> [s EXCEPT !.approval = RaiseTo(@, EXECUTED_MARKER)]
      [] OTHER -> s

Rebuild(events, initial) ==
    LET maps == FoldLeft(ApplyMapEvent,
                  IF initial = None THEN [approval |-> 0, nullifiers |-> {}]
                  ELSE [approval |-> initial.approval, nullifiers |-> initial.nullifiers], events)
    IN  [owners |-> RebuildOwners(events, initial), approval |-> maps.approval,
         nullifiers |-> maps.nullifiers]

-----------------------------------------------------------------------------
(* IncrementalStoreCache.load.                                              *)

(* The cached stores, or the persisted ones when they decode.               *)
Cached == IF cache # None THEN cache ELSE disk

Attempt(base) == [NoLoad EXCEPT !.pc = "events", !.base = base]

StartLoad ==
    /\ load.pc = "idle"
    /\ load' = Attempt(Cached)
    /\ UNCHANGED <<backend, cache, disk>>

(* fetchAllEvents: pages by offset, newest first, while the table moves;    *)
(* fromBlock is inclusive.                                                  *)
ExclusiveFrom(base) == {r \in ToSet(table) : base = None \/ r.height > base.through + 1}
After(base) == {r \in ToSet(table) : base = None \/ r.height > base.through}

Oldest(base) ==
    LET after == After(base)
    IN  SelectSeq(SortSeq(table, LAMBDA r, s : r.height < s.height), LAMBDA r : r \in after)
Rows == Reverse(Oldest(load.base))
Page ==
    LET rows == Rows IN SubSeq(rows, load.offset + 1, Min({Len(rows), load.offset + PageSize}))

FetchPage ==
    /\ load.pc = "events"
    /\ LET page == Page IN
         load' = [load EXCEPT !.events = Reverse(page) \o @, !.offset = @ + PageSize,
                              !.pc = IF Len(page) < PageSize THEN "chain" ELSE "events"]
    /\ UNCHANGED <<backend, cache, disk>>

Payloads(rows) == [i \in DOMAIN rows |-> rows[i].event]

Replayed == Rebuild(Payloads(load.events), IF load.base = None THEN None ELSE load.base.stores)

ThroughBlock == Max({load.events[i].height : i \in DOMAIN load.events}
                    \cup (IF load.base = None THEN {0} ELSE {load.base.through}))

NoFallback == [NoLoad EXCEPT !.outcome = "failed"]
Fallback == IF load.base = None THEN [NoLoad EXCEPT !.outcome = "failed"] ELSE Attempt(None)

(* The node's state is read and compared; a match is cached and, unless the *)
(* write fails, persisted; a mismatch drops the cache and starts once more  *)
(* from genesis.                                                            *)
ReadChain ==
    /\ load.pc = "chain"
    /\ IF Replayed = Stores(Tip)
       THEN /\ cache' = [stores |-> Stores(Tip), through |-> ThroughBlock]
            /\ disk' \in {cache', disk}
            /\ load' = [NoLoad EXCEPT !.outcome = "loaded"]
       ELSE /\ cache' = None
            /\ UNCHANGED disk
            /\ load' = Fallback
    /\ UNCHANGED backend

(* A request of the load fails: as a mismatch.                              *)
RequestFails ==
    /\ faults < MaxFaults /\ load.pc # "idle"
    /\ cache' = None /\ load' = Fallback
    /\ faults' = faults + 1
    /\ UNCHANGED <<chain, table, disk>>

(* The tab is closed and opened again.                                      *)
Restart ==
    /\ cache # None
    /\ cache' = None /\ load' = NoLoad
    /\ UNCHANGED <<backend, disk>>

(* Something else writes a well-formed checkpoint to IndexedDB.             *)
Alter ==
    /\ faults < MaxFaults /\ disk # None
    /\ disk' \in {[disk EXCEPT !.through = MaxHeight], [disk EXCEPT !.stores.approval = EXECUTED_MARKER]}
    /\ faults' = faults + 1
    /\ UNCHANGED <<chain, table, cache, load>>

Next ==
    \/ Mine \/ Reorg \/ Ingest \/ Rollback
    \/ StartLoad \/ FetchPage
    \/ ReadChain
    \/ RequestFails \/ Restart \/ Alter

(* The backend's poll and the tab's retries go on.  Weak fairness of the    *)
(* two steps that are enabled exactly at their pc is written out, which     *)
(* spares TLC a replay for each ENABLED.                                    *)
Fairness ==
    /\ WF_vars(Ingest) /\ WF_vars(Rollback) /\ WF_vars(StartLoad)
    /\ []<>(load.pc # "events") \/ []<><<FetchPage>>_vars
    /\ []<>(load.pc # "chain") \/ []<><<ReadChain>>_vars

Spec == Init /\ [][Next]_vars
FairSpec == Spec /\ Fairness

-----------------------------------------------------------------------------
AllCurrent == Incomplete = {} /\ \A i \in DOMAIN table : Current(table[i])

(* Somebody's event is on the chain.                                        *)
Forged(b) == \E i \in DOMAIN b.events :
    \/ b.events[i].type = "approval" /\ b.events[i].n = EXECUTED_MARKER - 1
    \/ b.events[i].type = "removed" /\ b.events[i].to = <<>>
Polluted == \E h \in DOMAIN blocks : Forged(blocks[h])

(* The complete events of a vault reproduce its on-chain state, in whatever *)
(* order the events of a block arrived, wherever in the list an owner was   *)
(* inserted, with two changes in one block and with remote executions.      *)
RebuildFaithful ==
    (AllCurrent /\ ~Polluted) =>
        Rebuild(Payloads(Oldest(None)), None) = Stores(Tip)

(* The cached owners are those after the block the cache names.  They need  *)
(* not be: events of half a block may replay to the state of a later block, *)
(* and the later events then replay on owners that already hold the change. *)
(* That base mismatches and the load starts again from genesis.             *)
OwnersAtBlock == cache.stores.owners = blocks[cache.through].vault.owners

(* What a load cached stays a base to go on from: as long as no block was   *)
(* orphaned, no checkpoint altered and its owners are those of its block,   *)
(* the events after that block, however they were split into loads, give    *)
(* the chain's state, and no event is applied twice or lost between loads.  *)
IncrementalAgrees ==
    (cache # None /\ faults = 0 /\ AllCurrent /\ ~Polluted) =>
        (OwnersAtBlock => Rebuild(Payloads(Oldest(cache)), cache.stores) = Stores(Tip))

(* However the chain reorganised and whatever was on disk, once the backend *)
(* has the chain's events loads stop failing: a stale or tampered cache     *)
(* costs one rebuild from genesis and never blocks the owner.               *)
LoadsRecover == <>[](Polluted \/ load.outcome # "failed")
=============================================================================
