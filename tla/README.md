# A TLA+ verification of MinaGuard

MinaGuard is a hierarchical multisig vault for the Mina blockchain: a zkApp that
holds the funds, a backend that indexes its events, a web UI and a desktop shell
that build and prove transactions, and a command line tool for air-gapped
signers. This directory models the parts in which the difficult decisions are
made, checks the models on small instances with TLC and proves most of their
safety properties for every instance with TLAPS.

Paths below are relative to the repository (`src/` in `PROJECT.json`).

## 1. Inventory

| Component | State it keeps | Operations | Where it is hard |
|---|---|---|---|
| **Contract** `contracts/src/MinaGuard.ts` | twelve on-chain fields per vault, account permissions, balance, delegate | `deploy`, `setup`, `reserveForParent`, `executeSetupChild`, `propose`, `approveProposal`, five `execute*` methods for LOCAL proposals, three for REMOTE ones | votes counted under one owner set and used under another; nonces shared by competing proposals; parent and child changing independently |
| **Owner list, Merkle stores** `list-commitment.ts`, `storage.ts` | a fixed array of owner slots; three Merkle maps | add, remove, fold, witness | fold over slots must equal the list it stands for |
| **Event rebuild, checkpoints** `event-rebuild.ts`, `store-checkpoint.ts` | verified stores and the block they reach, in memory and in IndexedDB | rebuild, incremental update, fallback | paged reads of a moving index; a cache against a reorg below its last block |
| **Signing, offline formats** `proposal-signing.ts`, `offline-format.ts`, `memo.ts` | none | encode, decode | encodings only |
| **Permission policy** `guard-permission-policy.ts` | none | compare thirteen permissions | a table |
| **Indexer** `backend/src/indexer.ts`, `mina-client.ts` | database tables, two cursors, in-memory progress of first scans | one `tick` per poll interval | two nodes that disagree, reorgs, failures in mid-tick, restarts, routes that delete rows under a running tick |
| **Submission tracking** `routes.ts`, `submission-check.ts`, `pollPendingSubmissions` | transaction hashes and failures recorded on proposal rows; counters of the check limiter | report, check, poll, clear | a check of seconds between two reads of one row; a poll result that arrives after a retry |
| **Transaction status cache** `tx-status-cache.ts` | shared promises with expiry | lookup, evict | late settlement |
| **Read routes** `routes.ts` | none | queries | derived status |
| **Lightnet funding** `lightnet.ts` | none | acquire, pay, release | development only |
| **UI transaction flow** `useContractTxLock`, `useTransactions`, `storage.ts` | pending transactions in local storage, the last answer fetched | lock, submit, report, refresh, reconcile, expire | two signers, three sources of truth with different delays |
| **Preflight dialogue** `preflight-flow.ts` | one panel, one resolver, one gate, a generation counter | check, ask, retry, rebuild, cancel, leave | two flows share one panel over many awaits |
| **UI proving worker** `multisigClient.worker.ts`, `multisigClient.ts` | compiled key, store cache | load, compare, sign, build, prove, send | minutes between what is read and what is sent |
| **UI pages, wallets** | presentation state | | not modelled |
| **Offline CLI** `offline-cli/` | none | check a request, show it, confirm, build, sign | what is shown and what is signed take different paths through the file |
| **Offline signing in the UI** `offline-signing.ts`, `OfflineSigningFlow.tsx` | exported requests of a page and their fees | export, start over, upload, broadcast | a request is several reads of a moving chain; files come back in any order |
| **Desktop shell** `desktop/src` | config file, index file and its stamp, two service handles, two windows | boot, save, change endpoints, stop, quit | kills between writes, failed starts retried in one process, windows closed in mid-save |
| **Auro bridge** `desktop/src/ipc.ts`, `auro/` | one-shot wallet requests | open, copy, sign, answer, time out | a request answered late or from a second browser |
| **Deployment scripts** `deploy/` | none | release checks in CI | files and refs only |

How they interact. Owners sign proposals; the UI (or the CLI) turns them into
transactions that call the contract. The contract emits events; the archive node
stores them; the indexer reads the archive for events and the daemon for the best
chain and for accounts, and writes the database. The UI reads the database,
rebuilds the Merkle maps from events, reports the hashes of its transactions to
the backend, and locks a vault while one is pending. A child vault obeys its own
owners for LOCAL proposals and its parent's owners for REMOTE ones, and reads its
parent's state in the same transaction.

What makes each part correct:

* contract: whatever is executed is backed by a quorum of the owners there are at
  that moment; no sequence of changes locks a vault; each nonce is used once; a
  child starts as its parent approved it and what it had pending dies when it is
  frozen;
* indexer: the tables settle on what the chain says, whatever was orphaned, failed
  or restarted on the way; nothing of an account that is not a safe vault is
  recorded; no event is passed over;
* submissions, locks: only real transactions are recorded, every recorded one is
  settled, and no owner's screen stays locked for good, but for a creation that nobody
  can tell the end of;
* preparation: what is sent is what was prepared and checked, once, and leaving a
  page frees the tab;
* caches: what is rebuilt incrementally is what a full rebuild gives, and a bad
  cache costs a rebuild and nothing else;
* offline signing: what is signed is what was shown, and lands unless the chain
  moved, time ran out or the funds are missing;
* desktop: no half-made index is served, configuration, window and backend agree,
  no failed step leaves a process without a window.

`PROJECT.json` lists the hazards line by line, the ones that matter most.

## 2. Modules

| Module | Models |
|---|---|
| `MinaGuard` | the contract with the ledger rules it relies on |
| `MultisigPolicy` | what a family of vaults promises, without counters, maps or witnesses |
| `MinaGuardProofs` | theorems about the contract's states, about its steps and the policy |
| `Indexer` | the polling indexer, its two nodes, its database and the subscription routes |
| `VaultTx` | transactions of one vault as the network treats them and the index shows them; extended by the next two |
| `Submissions` | reports of transactions, their checks and limiter, the poll, the events that clear them |
| `TxLock` | the watched owners' tabs, beside owners elsewhere: pending records, fetched rows, the lock and the buttons it gates |
| `Preflight` | one tab: proving worker, online action, offline flow and the check they share |
| `StoreRebuild` | the client's stores from paged events, and their cache |
| `Offline` | export, transport, CLI and upload of an offline signature |
| `AuroBridge` | wallet requests of the desktop app through a browser |
| `Desktop` | the desktop process, its files, services and windows; composes `AuroBridge` |
| `SubmissionsProofs`, `PreflightProofs`, `DesktopProofs`, `IndexerProofs`, `OfflineProofs` | theorems about the module each is named after; `DesktopProofs` covers `AuroBridge` |
| `IndexerCoverageProofs` | on top of `IndexerProofs`, theorems about what the indexer must not miss |
| `Induction` | induction along `0..n` and along recursive functions, in a form the provers can use |
| `MC...` | instances for TLC |

### MinaGuard

Each variable is a field of the contract's state, as a function of the guard:
`owners` is the list that `ownersCommitment` commits to, `approvals`,
`nullifiers` and `childExecuted` are the contents of `approvalRoot`,
`voteNullifierRoot` and `childExecutionRoot`; `initialized` is
"`ownersCommitment` is not 0". `permissions`, `balance`, `delegate` and `slot`
are the ledger's. Each method is one action with its name capitalised; its guards
are the method's assertions (`Assert...` operators keep the source's names) and
its primed variables the method's `set` calls, account updates included. The
owners' off-chain choices (which proposal, which configuration) are drawn from
`Proposals` and `SetupConfigs`.

One method is one atomic step because a zkApp transaction carries every value it
read as a precondition, on its own account and on the parent or child it attached,
and the ledger applies it entirely or not at all. Anything may happen between two
methods: other votes, other executions, deposits, the passing of slots, steps of
the other guards.

Abstractions: a Poseidon commitment is what it commits to (three hash domains,
so three kinds of `Field` value); the nine receiver slots are two, slot 1 with
rules of its own and one for the rest; a signature is the signer's key
(`OnCurve`), and `xOf` gives a key and its negation the same x-coordinate, which
is what the contract compares. `EXECUTED_MARKER` (field element -1) is a number
above every possible count.

### MultisigPolicy

A vault has members, a quorum, an epoch and funds. Members endorse; a proposal is
carried only while a quorum of the present members of its home stands behind it;
changing members or quorum, or freezing, starts a new epoch and so voids every
endorsement; funds leave only when something is carried, and from a child only to
its parent. `MinaGuard!ImplementsPolicy` maps votes to nullifiers, epochs to
configuration nonces and `done` to executed marks.

### Indexer

| Variables | Code |
|---|---|
| `env` | how this backend is deployed (lite or full, discovery source, windows), the traffic it may see and its budgets of failures; fixed for a behaviour |
| `daemon`, `archive` | the chain each node reports; the archive trails |
| `headers`, `raw`, `configs`, `proposals`, `marks`, `rows` | `BlockHeader`, `EventRaw`, `ContractConfig`, `Proposal`, `Approval` with `ProposalExecution`, `Contract` |
| `indexed`, `discovered` | the `IndexerCursor` rows |
| `firstScans` | the map of the same name, lost in a restart |
| `leaving` | the `DELETE /api/subscribe` request in hand: its vault and the children it found |
| `pc`, `latest`, `from`, `todo`, `failed`, `steps`, `scanning`, `job` | locals of the running tick and of `syncSingleContract` |

`tick` is split at its awaits, wherever another actor can come in between:
`TickRollsBack` (detection and rollback) or `TickBegins`; `ProcessCandidate`,
`EndDiscovery`; `RescanUnready`, `EndRescan`; `SyncKnown`; and for each vault
`IngestEvent` per event, then `FinishSync`; `EndTick` moves the cursor. `CallFails`
is a call that throws after its fallback endpoint failed too, `Crash` a restart,
`SyncOrphaned` and `RescanOrphaned` a tick that meets a row deleted meanwhile.
`SubscribeFrom`, `SubscribeNew` and `Unsubscribe` are the routes of lite mode, which
run at any moment. An unsubscription reads the children (`Unsubscribe`), then deletes one
row per transaction, the vault's last (`DeleteContract`), unless it is cut short
(`UnsubscribeFails`, `Crash`); steps of a tick fall in between. `MineBlock`, `ArchiveIngest` and `Reorg` are the network.

Abstractions: a block's hash is the chain up to it; a configuration value is the
event that set it, so a snapshot tells what it was computed from; block heights
start at 1 and `indexStartHeight` is 0; discovery in the archive assumes
`minaguardVkHash` is configured; detecting forks and reading the tip is one step;
one unsubscription is served at a time. A block holds the events of any number of
transactions of a vault, in the order of emission; `EVENT_TYPE_ORDER` has the nine types
that matter here, in the source's order. Reorgs fall between ticks unless `hazards` contains
`reorgInTick`, and detection always gets its answer unless it contains
`detectionFails`: with either, the hole of finding **blind** opens. Owner memberships,
receivers and the `setupOwner` fallback are left out.

`ConfigFaithful` and `CatchesUp` compare snapshots with the chain (`Agrees`) but for two
columns in which the code is wrong, each a finding of section 4: one that two events of a
block set against their rank (`Contended`), and the `parentNonce` of a SubVault whose row is
older than its parent's or has none (`Outlived`). `RecordedMeansApplied` excepts the REMOTE
executions of the latter. Without these exceptions the run fails.

### VaultTx, Submissions, TxLock

A transaction is built against a number of applied transactions (its `base`) and
its preconditions hold while exactly that many have been applied; the network
applies it, fails it, or lets it fall out of the pool. `eventRaw` is what the index
holds of it. `Bury` is the making of `TX_STATUS_SCAN_BLOCKS` further blocks, at any time:
from then on `TxStatus` answers "pending" for what was applied or failed, as
`fetchZkappTxStatus` does (`mina-client.ts:456`).

`Submissions` splits `POST .../submissions` at its awaits: `StartReport` (the row is
read, a slot of the limiter taken or shared), `LookupPool` and `LookupState` with
`NextTry` for the retries, `WriteHash`, `VerifyApplied` and `ClearApplied`. The poll is
`PollRead`, `PollMempool`, and `PollStatus` and `PollWrite` for each action; the
indexer's transaction is `OpenEvent` and `CommitEvent`. `SingleWriter` says that an
open transaction excludes other writers, which SQLite does.

In `TxLock` the operators keep the names of the hooks (`Locked`, `Reconcile`,
`BackendNoLongerTracks`, `ReportUnanswered`); `Refresh` and `Arrive` are a fetch and its
answer, `Reload` a tab that starts again from local storage. `Tabs` are the owners whose
tab is watched; the others send, report and fail from elsewhere (`SendOutside`).
`ShortLived` records are the untracked ones and those of a SubVault's creation. Ages are
counted in steps of `Tick`, and `MaxAge` lies below `LongTTL`: what the run shows does not
rely on the expiry after a day. The one record that does is that of a root creation
which was dropped, or failed and left the scanned blocks before the tab asked (`Lost`):
`LockLifts` and `CreateSettles` except it (finding **lost creation**).

### Preflight

`Handler` gives, per kind of action, the steps its worker call takes; each step is an
await (`Compile`, `ReadTarget`, `ReadState`, `LoadEvents`, `LoadChain`, `Match`, `Sign`, `Build`,
`Prove`), followed by the check (`EnterGate`, `Check`, `Assess`, the panel's `Choose`, `Decided`,
`Reassess`, `Recovered`), then `Send` or, for an export, `Deliver`. `Mount` and `Unmount` are
pages with a panel. The vault may move between any two of them. The checks that the
endpoints were not reconfigured in between ("Network changed") are left out: the
configuration is fixed.

### StoreRebuild

The chain holds blocks of events and the vault after each; `Ingest` stores a block's
events one by one in any order and `Rollback` drops an orphaned block's; `StartLoad`,
`FetchPage` and `ReadChain` are one load of `IncrementalStoreCache`, with `Fallback` its retry
from genesis. `Rebuild` is the replay of `event-rebuild.ts`, owner order and duplicate
changes included. A load may see half a block whose events happen to replay to a later
block's state; that base names the wrong block, later events do not fit it, and the load
falls back. `IncrementalAgrees` therefore asks that the cached owners are those of the
cached block (`OwnersAtBlock`); `LoadsRecover` covers the rest. `Alter` makes the persisted
checkpoint name a block that was not reached, or hold a proposal as executed; `Forge` emits
events of methods nobody called. `Worlds` gives each chain its kinds of transactions and
its bounds.

### Offline

One request goes through `StartExport`, `TakeCheckpoint`, `FetchAccounts` and
`WriteRequest`, each a read of the moving chain; `Alter` replaces one field of a request and
`Rewrap` one field of a signed file's wrapper; `RunCli`, `ConfirmOrExit` and `Handle` are the
process with the checks of `main` and of the three handlers; `Upload` and `Broadcast` are
the page that gets the signed file. As in `processFile`, the page compares the wrapper's
vault, proposal hash and action with its own and does not look into the transaction.
`ContractAccepts` is what the contract's methods check, in short; `MinaGuard` has it
in full. `Lands` adds what the network checks: the fee payer's nonce (`Pooled`), the expiry
(`Timely`) and the funds of payer and vault (`Funded`), none of which the tool can see. A
number in a file has the value `Field(...)` reads and the text that the summary compares
(`summary.ts:327` shows "enable" for `'1'` only): `Num(n)` is the usual spelling, `'01'` and
`'0x1'` have the value 1 and another text. Hashes are injective records of what they hash. `OnChain` is what `propose`
guarantees of a proposal that a page can show (its slots are filled, only payments use
more than the first), `Served` such a proposal with its hash as the backend returns it,
`Entered` a form for a new one; every page of `Worlds` is one of the two (`OfflineWorlds`).
`SortedOwners` fills a list by one `AddSorted` after the other, as the tool does.

### Desktop, AuroBridge

`job` is the one asynchronous job of the process: a boot, a save of the setup window
or a change from the settings, whose `step` advances at each await and wherever a
kill leaves the files different (`SaveStops`, `SaveDrops`, `SavePersists`,
`ChangePersists`, `ChangeRelaunches`, `Prepare`, `Schema` per statement, `Stamp`,
`Connect`, `Index`, `NextReady` or `NextExits`, `Started` or `ListenFails`, `Undo`). Ticks of the
indexer end in their own time, after `stop()` too. `Crash` may come at any step,
`Upgrade` between two launches. A window closed while it loads reports neither
`did-finish-load` nor `did-fail-load`, so `CloseMain` leaves the setup window that waits for
them (`main.ts:472`) hidden and the process running. `AuroBridge` has one page per request and browser; the user may copy the URL
from a browser without Auro to another.

In all modules a definition introduced by "Faulty" or "As ..., but" is a plausible
mistake in the one after it, kept to show which property notices it.

## 3. Runs

| Run | Instance | Shows |
|---|---|---|
| governance | one root, keys alice, bob, carol, a negation and a non-point; two transfers, an addition and two removals over two configurations; three slots | the inductive invariant, authorisation and the refinement while owners change under pending payments |
| family | a root and a child; eight proposals from creation to re-enabling | nonces, freezing, the child's start, funds going to the parent only, the refinement |
| roles | three accounts set up or reserved in any order; additions of a second owner, of a negation, of a non-point; thresholds, delegates | two levels and no cycle; governance stays sound |
| backends | seven deployments: `Daemon`, `Archive` (one vault, blocks of several transactions emitted against their rank, reorgs of depth up to two, a crash or a failing call), `Catchup` (two vaults, four blocks, a replay window of two), `LiteFamily`, `CutShort` (the parent of a child that the indexer follows is unsubscribed in mid-sync, with a reorg or a failure), `Import` (scans of one block per request past a malformed event, with a restart beside an unsafe account or with a failure) | tables follow the chain, nothing skipped, nothing of an unsafe account, no gap between the steps of a scan |
| remote | parent and child in full mode | *violation*, see findings |
| submissions | two owners, two transactions of any kind, forged ones too, two reports at once, one slot per proposal and two in all, one failed lookup | slots, records and their settlement |
| txlock | one watched tab and another owner, three transactions: the creation of a vault, SubVault or proposal, sent from the tab or long applied, and two approvals or executions, from either | locks lift when an approval fails, is dropped or its report is replaced by another's; creations settle |
| preflight | three owners, one move of the vault, one failed read, one panel, one departure; every kind of online action against an export or an upload | the shared panel, and what is sent |
| rebuild | two owners, set up out of canonical order, pages of two; `Growing`: four votes and owner changes in up to four blocks, no fault; `Faulty`: three transactions of every kind in two blocks, one reorg, failed request or altered checkpoint | the rebuild, the increment from checkpoints that already hold changes and from half-read blocks, recovery |
| offline | 49 worlds: each type of proposal at each stage under an alteration or a move of others (both for a SubVault's creation), and pairs of pages whose files may be swapped, with two exports and an altered signed file | what is signed, what lands, where |
| desktop | two pairs of endpoints, two releases, a schema of two statements, one wallet request, two browsers | files, services, windows, wallet answers |
| index | the same without failing removals | *violation*, see findings |

`CHECK_DEADLOCK FALSE` where a bounded supply of proposals, transactions, blocks or
files is used up, after which nothing is left to do; the indexer's timer, the
preflight tab and the desktop app never stop, so deadlock is checked there.

Why the bounds are enough to be interesting. Two or three owners give every
quorum from one to all; two configurations are what a stale vote needs; a nonce
has at least two competing proposals; a third account is what a third level needs.
For the indexer, `window` (the detection window and the replay length, both 290 in
the code) is compared with a chain longer than it in `Catchup` and `Import` and never
shorter than the chain in the deployments with reorgs, because past that horizon the
code promises nothing; a reorg of depth two can remove the block that stored a header
and the one before; one failure, one crash and one unsubscription at every possible
moment cover each order in which they can meet a tick. Two transactions and two
reports are what a race for one row needs; one slot per proposal makes equal reports
share and different ones collide. Two flows are all a tab can have; one departure and
one move at every step meet each of their awaits. Three transactions in two blocks give two
changes of one kind in one block and a page boundary inside a block; four in four blocks
a checkpoint with a changed owner list, a later load that replays another change on it, and
a checkpoint taken in the middle of a block. Three transactions on one proposal are what it
takes for a report to be replaced while its sender's tab still waits. Two releases
and two endpoints give every mismatch of stamp and of index. `MaxBalance`, `MaxSlot`,
`MaxHeight`, `MaxAge` and the other `Max...` budgets are the only bounds that are not
parameters of the code.

Fairness, always weak unless said:

* indexer: the tick's steps, since the poll timer always fires again and a running
  tick goes on, and `ArchiveIngest`, since an archive that is up follows its daemon;
* submissions: the server's steps (every lookup has a timeout), the poll, the grace
  period, and a decision of the network on each transaction;
* txlock: refreshes of an open tab (an interval timer), time, the backend and the
  network's decision on what is in its pool; not the answer to a report, and not the
  moment at which a block leaves the scanned ones; strong for `Arrive`, because an answer that a reload overtakes again and
  again would need an owner who reloads for ever at the wrong moment;
* preflight: steps of a flow, which awaits calls with timeouts and wallets that
  answer; not the panel's buttons, and not the indexer;
* rebuild: the backend's poll and the tab's retries. Weak fairness of `FetchPage`,
  `ReadChain` and the indexer's `Tick` is written out with the condition that enables them
  (`TickReady` and `ENABLED` were compared on every state of the backends run), because
  TLC is slow to evaluate `ENABLED` of a step that replays events;
* desktop: the job's steps (probes time out after 10 s) but for the wait for the UI
  server, which nothing times out (`startNextStandalone`, `main.ts:56`), the end of a first
  load, and Electron continuing to quit. Nobody has to launch, save or approve. What is
  left of `NeverHeadless` then has two exceptions, `UiBoots` and `Stranded`, see section 4.

Failures are finitely many, since each has a budget; nothing else is assumed of
users, of the network or of calls.

Every property of a passing run has a mutant in `PROJECT.json`: the model with one
definition replaced by its faulty variant, in which TLC finds the property
violated.

## 4. Findings

With a run of their own:

* **remote** (`indexer.ts:1318`). The rank sort keeps a dependent event behind the
  one it depends on within one vault's batch only. A child synced before its parent
  applies its REMOTE execution to a proposal that has no row, and the event is
  recorded as done.
* **index** (`desktop/src/main.ts:363`). A change of endpoints writes the config
  before it deletes the index. A process that ends in between comes up on the new
  endpoints with the old index, whose stamp matches. Two more ways lead there: a tick
  in flight that outlives `stop()`, and a removal that fails and is only logged. A save
  of the same endpoints after the node changed network keeps the index as well
  (`main.ts:277`), and nothing prevents a second instance of the app on the same
  files; neither is in the model.

Met while modelling, reproduced by the definition named, without a run:

* **reservation** (`MinaGuard.ts:277`, `MinaGuard!ApprovedDataIsReserved` on the family
  instance). A comment says that `propose()` binds the approved data to
  `reservedConfigHash`. It does not; `executeSetupChild` does. A CREATE_CHILD proposal
  that can never execute can be approved. `ChildStartsAsPublished` holds.
* **cursor** (`indexer.ts:1879`, `NothingSkipped` with `HeldBackend`). A rollback writes the
  fork height into a cursor that a failing vault had held back further, so it moves
  forward past events that were never synced.
* **starved** (`indexer.ts:565`, `CatchesUp` with `StarvedBackend`). Vaults that cannot be
  read use up the scan steps of every tick, and a readable one behind them is not
  scanned.
* **blind** (`indexer.ts:1798`, `DisagreementCaught` with `BlindBackend`). When `bestChain`
  fails the tick goes on; a new event stored above an orphaned header hides that
  header from every later detection.
* **split block** (`indexer.ts:688`, `ConfigFaithful` with `SplitBackend`). `eventOrder` is the
  position in one sync's batch. A full-mode backfill that ends inside a block is followed
  by a first scan in steps, in which the rest of the block gets smaller positions than
  its beginning had; `getLatestConfig` then takes the older snapshot, and the next change is
  built on it.
* **contended column** (`indexer.ts:1679`, `ConfigFaithful` without `Contended`). Every change
  sets `configNonce`, and a block's events are applied by rank: an owner change (7) before
  a threshold change (8). Where a block's transactions made them the other way round, the last
  snapshot has the older `configNonce`, until a later change.
* **outlived SubVault** (`routes.ts:853`, `RecordedMeansApplied` without `Outlived`).
  `DELETE /api/subscribe` reads the children and then deletes row after row. A SubVault that
  the parent's sync creates meanwhile (`indexer.ts:1104`) survives its parent: its REMOTE
  executions are recorded and not applied (`indexer.ts:1312`), and its `parentNonce` stays
  behind, also once the parent is subscribed again. A request cut short leaves a parent
  without its children.
* **late failure** (`indexer.ts:1526`, `Submissions!ErrorMeansFailed` with three
  transactions). The poll writes a failure by proposal id, so a hash recorded by a
  retry meanwhile gets the failure of the old one, until its own event clears it.
* **two writers** (`routes.ts:502`, `NoOrphanHash` with `SingleWriter = FALSE`). Under
  Postgres' READ COMMITTED the route's re-check and the indexer's open transaction can
  miss each other; with SQLite they cannot.
* **lost creation** (`ui/lib/storage.ts:105`, `CreateSettles` without `Lost`). The node is asked
  about the last `TX_STATUS_SCAN_BLOCKS` blocks (`mina-client.ts:456`) and answers "pending" for
  whatever it does not find. A creation that the pool dropped, or that failed and left these
  blocks before the tab asked, keeps its record until the record's day is over.
* **recreate** (`ui/app/transactions/[id]/page.tsx:1153`, `Preflight!DownloadOnItsPage`). A request
  made again from an upload is downloaded although its page was left.
* **long rows** (`offline-cli/src/summary.ts:308`, `SignedAsShown` with `LongRows`). The
  summary looks for the target of an owner change in all rows of a file, the builder in
  the first `MAX_RECEIVERS`; a file with more rows than slots shows a target that is not
  signed. The proposal hash does not cover the extra rows; no request the UI writes has
  any. Without such rows nothing of the kind happens: `OperatorSeesWhatIsSigned`.
* **number spelling** (`offline-cli/src/summary.ts:327`, `SignedAsShown` without `PlainNumbers`).
  `index.ts:132` is to "Show the operator exactly what they are about to sign". The summary shows a
  switch as on for the string `'1'` only, the builder signs `Field(data)` (`build-tx.ts:1308`):
  a file that says `'01'` or `'0x1'` keeps its hash, is shown as disabling and signed as
  enabling. The UI writes what `Field.toString` gives, for which the two agree.
* **network preconditions** (`build-tx.ts:681`, `SignedLandsIfUnmoved` without `Timely` or
  `Funded`). The CLI does not look at the expiry, the vault's funds nor the payer's: it signs an
  expired or unfunded execution, which the chain refuses although no account moved.
* **altered wrapper** (`ui/components/OfflineSigningFlow.tsx:484`, `LandedOnItsPage` without
  `WrapperOf`). The comment says that a "tampered signed file for a different
  proposal/contract cannot be broadcast here". The page compares the address and hash written beside the
  transaction, never the transaction; with these two rewritten (`Rewrap`) a file for another
  vault or proposal goes through. It was signed by an owner, and the chain still checks it.
* **stranded** (`desktop/src/main.ts:472`, `NeverHeadless` without `Stranded`). The hidden setup
  window is closed on `did-finish-load` or `did-fail-load`. A main window closed during its first
  load emits neither, and the hidden window keeps the process alive without anything to see.
* **hanging start** (`desktop/src/main.ts:56`, `NeverHeadless` without `UiBoots`).
  `startNextStandalone` has no timeout: a UI server that neither reports nor exits leaves the app
  without a window.

Further limits: with daemon discovery a candidate that failed leaves the scanned
window (so `Daemon` has no failing calls), and in the archive a reorg may move a deploy below
the discovery cursor's window; a reorg that goes unseen for `window` blocks
is never repaired; the ready flag, which `UpToDate` leaves out, can stay false after a
restart between the last event and its write; two receiver slots with the same address
and amount have one row (`indexer.ts:1612`); two changes of one kind in one block tie in
the indexer's rank (`indexer.ts:1712`) and keep the order in which the archive lists their
transactions, which the model takes to be the order of execution; the client resolves
them by nonce (`RebuildFaithful`).

## 5. Proofs

A theorem below holds for every value of the constants that the named assumptions
of its module admit. The assumptions say what sort of thing a constant is (finite sets
of keys, positive limits, records with the fields the code reads, `None` not
being one of them) and TLC evaluates them on every run; the few that say more are
explained where they are used.

| Theorem | Statement |
|---|---|
| **MinaGuardProofs** | |
| `TypeCorrect` | `Spec => []TypeOK`; in particular balances stay natural numbers |
| `Safety` | `Spec => []SafetyInv`, the inductive invariant |
| `GovernanceAlwaysSound` | `Spec => []GovernanceSound` |
| `VotesAreOwners` | `Spec => [](ApprovalsCountVotes /\ LiveVotesByOwners)` |
| `NoncesConsumedOnce` | `Spec => []NonceConsumedOnce` |
| `FreezeClearsProposals` | `Spec => []FrozenChildHasNoLiveProposal` |
| `HierarchyStaysTwoLevel` | `Spec => []TwoLevelHierarchy` |
| `ExecutionsAreAuthorised` | `Spec => ExecutionAuthorised`, an action property |
| `ExecutionIsFinal` | `Spec => ExecutedForever`, an action property that no run checks |
| `OnlyExecutionActs` | `Spec => EffectsOnlyByExecution`, an action property |
| `ChildrenStartAsPublished` | `Spec => ChildStartsAsPublished`, an action property |
| `ContractImplementsPolicy` | `Spec => ImplementsPolicy`, the refinement of `MultisigPolicy` |
| **SubmissionsProofs** | |
| `Tracking` | `Spec => []IndInv` |
| `NoSlotLeaks` | `Spec => []SlotsMatchChecks` |
| `OnlyRealHashes` | `Spec => []OnlyRealRecorded` |
| `NoOrphanOnSQLite` | `Spec => [](SingleWriter => NoOrphanHash)` |
| **PreflightProofs** | |
| `Bookkeeping` | `Spec => []IndInv` |
| `PanelStaysAnswerable` | `Spec => []PanelAnswerable` |
| `SentAtMostOnce` | `Spec => []SentOnceAndKept` |
| `OnlyPreparedSent` | `Spec => []SentAsPrepared` |
| **DesktopProofs** | |
| `ShellBookkeeping` | `Spec => []ShellInv` |
| `FullSchemaServed` | `Spec => []ServesFullSchema` |
| `AppStaysCoherent` | `Spec => []AppCoherent` |
| `NothingStaysRunning` | `Spec => []NothingLeftRunning` |
| `ApprovalsReachApp` | `Spec => []ApprovalReachesApp` |
| **IndexerProofs** | |
| `EveryRowHasItsHeader` | `Spec => []RowsHaveHeaders` |
| `ChecksPrecedeSyncs` | `Spec => []IndexerInv` |
| `OnlyCheckedAccountsRecorded` | `Spec => []OnlySafeIndexed` |
| **IndexerCoverageProofs** | with `Calm == reorgs = 0 /\ BackfillReaches` for short |
| `TicksLeaveNothingBehind` | `Spec => [](Calm => CoverInv)` |
| `NothingSkippedWithoutReorgs` | `Spec => [](Calm => NothingSkipped)` |
| `DeploysRetriedWithoutReorgs` | `Spec => [](reorgs = 0 /\ ArchiveDiscovery => DeploysRetried)` |
| `EffectsAreRecordedTogether` | `Spec => [](Calm => AppliedInv)` |
| `FullModeTracksFromDeploy` | `Spec => [](Calm /\ ~Lite => AllFromStart)` |
| `RecordedMeansAppliedWithoutReorgs` | `Spec => [](Calm /\ LocalOnly /\ (Lite => AllFromStart) => RecordedMeansApplied)` |
| **OfflineProofs** | |
| `FilesStayChecked` | `Spec => []OfflineInv` |
| `SnapshotsLand` | `Spec => []SignedLandsIfUnmoved`, which is conditional on the expiry and the funds |
| `OperatorSeesWhatIsSigned` | `Spec => []SignedAsShown`, assuming `FilesFit`; on numbers, for files in the usual spelling |
| `PagesSendTheirOwn` | `Spec => []LandedOnItsPage`: vault and proposal for files as the CLI wrote them, fee and memo for any |

### The contract

Assumed: `KeysAssumption` (finitely many keys, guards are keys that sign, `Empty` is
none), `InputsAssumption` (proposals and configurations are records of the right shape)
and `LimitsAssumption` (`EXECUTED_MARKER` is above `MAX_OWNERS + 1`). None of the safety
properties is inductive alone; `SafetyInv` is their conjunction with four helpers. The
dependencies:

* a vote must not turn the count into `EXECUTED_MARKER`. The count is the number of
  votes plus one (`ApprovalsCountVotes`), the votes are owners' (`LiveVotesByOwners`)
  and owners are at most `MAX_OWNERS` (`GovernanceSound`): lemma `VotesAreFew`;
* an owner change must not leave a live vote of a removed owner. It bumps
  `configNonce`, and nothing recorded belongs to a later configuration
  (`NoFutureProposals`), so nothing is live after it: `NoRecordedProposalIsNewer`;
* an execution consumes a fresh nonce because executed ones lie behind the counter
  (`NoncesBehind`);
* an account that is set up starts with empty maps (`BlankBeforeSetup`);
* `execute*` does not look at receivers again; what is recorded passed `propose`'s
  rules (`RecordedReceiversVetted`), which the type of `delegate` and the new owner
  sets need;
* freezing concerns children only (`RootsEnabled`).

There is one lemma for each shape of step (`InitializePreserves`,
`ReservePreserves`, `VotePreserves`, `ExecuteLocalPreserves`,
`ExecuteRemotePreserves`), which the methods share, and `NextSafetyInv` has a case
per method. Authorisation follows in two lemmas: `ApprovedIsBacked` (in a state of
the invariant, a pending proposal of the current configuration whose count meets
the threshold has that many present owners behind it) and `StepAuthorised` (only
steps that checked this mark anything executed).

The second half of `MinaGuardProofs` sorts the steps into five kinds (`StepKinds`: quiet, an
initialization, a vote, a LOCAL or a REMOTE execution) and says once per kind what it
changes (`InitEffects`, `VoteEffects`, `LocalEffects`, `RemoteEffects`); the action
properties and the refinement are read off these. The refinement maps each kind to one
step of the policy (`QuietReceives`, `InitFounds`, `VoteEndorses`, `LocalCarries`,
`RemoteCarries`). It needs one more invariant, `ChildMarksRemote`: a mark in
`childExecutionRoot` is never of a proposal that the guard's own owners could still
execute, so `done` of the policy, which merges both marks, loses nothing.

### Submissions

`IndInv` adds to the types and the counters what a check has established so far:
between its two lookups the kind of the transaction, after them its base
(`VerifiedReal`), and that whatever is past its first step names a transaction that
was sent (`ReportsNamed`), since a hash that is not yet used could still become
anything. `SlotsMatchChecks` is an equality of cardinalities; `StartSlots` and
`SettleSlots` follow the set of running checks through shared and refused ones. For
`NoOrphanHash` the row must still be what the indexer's open transaction read
(`ApplyFresh`), which is where a single writer is needed, and an applied hash on the
row has a report that is about to look again (`OrphansOwned`). Without a single writer
the theorem is false (finding **two writers**), so it states the condition.

### Preflight

`IndInv` says per step of a flow what is already known there: the flow is of the
generation it was checked in, has sent nothing before `sent` (`Accounted`), and from the
proof on its stores reproduce the state it is built on (`Prepared`); a flow between the
check and its outcome holds the gate (`GateHeld`). The last is what makes
`PanelAnswerable` inductive: a second flow cannot take the panel's one resolver since it
cannot pass the gate, and the last page that leaves answers the waiting flow in the same
step, which gives the gate back itself. There is about one lemma per await.

### Desktop

`ShellInv` relates the one job to everything it is about to change: which step may see
which stage of the index (`SchemaStages`), which kind of job runs in which phase, with
which windows (`BootJob`, `SaveJob`, `ChangeJob`, `Windows`), and at which steps a backend
is up and on which endpoints (`BackendStages`). `ServesFullSchema` needs all of it: the
stamp is written last, so a stamped index is complete, and a start that reuses one has
compared the stamp. It holds after any kill because a kill clears the process and
leaves `SchemaStages` to the files. `BridgeInv` is about wallet requests alone: the shell
touches them only when the process ends, which forgets them all.

### Indexer

`RowsHaveHeaders` is inductive as it stands: a row and its header are written by one
step, and a rollback removes both from the same height. `OnlySafeIndexed` needs
`IndexerInv`: a row of `Contract` marked as verified is of an account that passed the
check (`CheckedRows`), and the sync in hand is of such an account with a batch of nothing
but its own events (`SyncChecked`), which the chains of both nodes being well formed
(`Chains`) gives. What a batch holds is what the archive query and the rank sort compute
(`MatchingOf`, `ByRankOf`, `BatchOf`), proved by induction.
`IndexerAssumption` says that a deployment is a record of the fields the code reads.

### Indexer: nothing is missed

`IndexerCoverageProofs` is about every deployment that `IndexerAssumption` admits, with
any number of vaults, failures, restarts and unsubscriptions. The theorems carry the
conditions without which they are false:

* `reorgs = 0`, no block was orphaned so far: findings **cursor** and **blind**, a reorg beyond
  `window`, and a reorg that moves a deploy below the discovery cursor each break one of
  them. The runs check the same properties with reorgs inside the window;
* `BackfillReaches`, the backfill of a vault found on the daemon reaches as far back as
  discovery looks behind the cursor: 300 blocks (`indexer.ts:500`) against a margin of 5
  (`indexer.ts:314`) in the code. With archive discovery the backfill starts at genesis;
* `ArchiveDiscovery`, for `DeploysRetried`: on the daemon a candidate that failed long enough
  leaves the scanned window (section 4);
* `LocalOnly`, no REMOTE execution was recorded: the findings **remote** and **outlived SubVault**;
* `Lite => AllFromStart`, for lite mode: a user may subscribe from a block after the deploy,
  and a vote whose proposal lies before that block finds no row. In full mode this is
  the theorem `FullModeTracksFromDeploy` and no condition.

`NothingSkipped` speaks of the cursor and of rows that are ready, so its strengthening
`CoverInv` follows every range a tick asks for. A vault whose history was scanned has all
events up to the cursor (`ScannedCovered`), an unfinished first scan all those below its next
step (`ScansCovered`), the three loops of a tick have covered what they took off their
list (`DiscoverLoop`, `RescanLoop`, `KnownLoop`), and of the sync in hand every event is
recorded or still in the batch (`SyncOwes`). It rests on both nodes showing one chain
(`OneChain`), and on a row deleted and created again having another id (`Ids`), which is
what keeps a first scan of the old row from counting for the new one. The lemmas about
`FetchEvents` say that a batch holds exactly the events of its range; adjoining ranges meet
because `FirstScanStep` and `Job` use the same inclusive bounds.

`DeploysRetried` has `DiscoveryInv`: what lies below the next query is tracked, and a pass
that has not failed yet still waits for whatever it did not track, so a failure only has
to keep the cursor where it is.

`RecordedMeansApplied` needs the order of a batch: heights ascend, and within a block the
lifecycle rank (`FetchOrdered`, from `RankOrder`). A vote in the batch then has its proposal
in the table or ahead of it in the batch (`VotesInOrder`), because whatever lies below the
batch's range is recorded (`CoverInv`) and applied (`AppliedInv`); the two halves of the
argument are `FetchedFollow` and `IngestApplies`. `StartsInv` shows that `discoveredAt` is never
above the deploy: the archive reports the deploy's own block, and the daemon's scan floor
is below whatever the scan finds.

### Offline

`OfflineInv` follows a file: a request keeps its shape and the hash of a proposal on
chain whatever else is altered (`FileOK`, `AlteredKeepsShape`; `Alter` replaces values and
cannot invent a preimage), the CLI has shown the file it checked, a signed file was
accepted by the contract's method on the snapshot it carries, and a reviewed upload
belongs, if its wrapper is the one the CLI wrote, to the page that shows it; a rewrapped one
(`RewrapKeeps`) keeps its transaction, so its fee and memo are still checked. `SnapshotsLand`
then needs that the accounts have not moved, that the transaction is in time (`Timely`) and that payer
and paying account have the funds (`Funded`): the CLI ascertains everything else, and finding
**network preconditions** is what is left. `OperatorSeesWhatIsSigned` compares the summary and the builder effect by
effect (`HandlerShows`); what makes them agree is that the proposal hash binds the content
(`HashBindsContent`), that sorting keeps the owners (`SortedOwnersOf`), and that the real
rows of a proposal on chain begin at the first slot (`TargetInFirstSlot`). Its
hypothesis `FilesFit`, no file lists more rows than the contract has slots, holds in the
offline run and for every file the UI writes; without it the property is false (finding
**long rows**). Both sides read a number through their own conversion (`SameNumber`): on the
value they agree when the file writes it the way `Field.toString` does, on everything else
(`Unnumbered`) for any spelling (finding **number spelling**). `OfflineWorlds` assumes of pages what `OnChain` says; the rules of `propose`
(`MinaGuard!Propose`) give that.

### Induction

The library's induction theorems take a predicate as a parameter, which the installed
provers cannot instantiate. `Induction` states the same with a set in its place:
`StepByStep` (a subset that contains 0 and each successor covers `0..n`), from the
well-founded order of the naturals through `LeastMember`; `RecursionDefines` (a function
defined by recursion on `0..n` satisfies its equations) and `RecursionStaysIn` (and takes
its values in a set that the step keeps). With these, the archive query, the rank sort
and `SortedOwners` are within reach, being written as recursive functions.

### Only model-checked

* Liveness under fairness, which the provers do not handle: `CatchesUp`, `RecordedSettles`,
  `LockLifts`, `CreateSettles`, `LeavingEnds`, `LoadsRecover`, `NeverHeadless`.
* `RebuildFaithful` and `IncrementalAgrees`: what the folds, sorts and selections of
  `StoreRebuild` compute for every list of events. The argument is an induction over the
  replay, and each fold would have to become a recursive function first.
* `ConfigFaithful` of `Indexer`. It is false for some deployments that `IndexerAssumption` admits,
  even without reorgs: finding **split block**. The run checks it in blocks whose
  transactions emit against the rank, but for the columns of finding **contended column**.
* The theorems of `IndexerCoverageProofs` in the presence of reorgs, `DeploysRetried` with
  discovery on the daemon.

## 6. Plan

1. Done: the contract, its policy and its proofs; the indexer; submissions, locks,
   preflight, store rebuild, offline signing, desktop; the theorems of section 5.
2. Proofs left: the theorems of `IndexerCoverageProofs` for reorgs inside `window`, where
   `CoverInv` would speak of the chain the stored headers name; `ConfigFaithful` for
   uninterrupted backfills; the replay of `StoreRebuild`, with
   its folds as recursive functions.
3. Owner memberships and receivers in `Indexer`; two instances of the desktop app.

## 7. Not modelled

* The transaction status cache: a cache of reads that changes no stored state; `TxLock`
  lets the node's answer be late or repeated instead.
* Read routes, request validation, wallets and pages, the faucet: conversion and
  presentation of rows that other modules own.
* The permission table: its verdict is an input of `Indexer`.
* Encodings of messages and files, Merkle trees and the fold over owner slots:
  modelled by what they commit to.
* The verification key migration of the CLI, the tab storage of exports across
  reloads, the desktop's content security and device chooser.
* Deployment scripts: one-shot checks over files and git refs.
* Proof generation and the soundness of the circuits are assumed: an action's guard
  is what the method asserts.
