----------------------------- MODULE MCIndexer ------------------------------
(* Small chains for the indexer: one vault under reorgs and failures, two  *)
(* independent vaults, and a parent with its child.                        *)
EXTENDS Indexer

CONSTANTS va, vb, nil

Both == {va, vb}

Orphans == [v \in Vaults |-> nil]

Family == [v \in Vaults |-> IF v = vb THEN va ELSE nil]

SomeFields == {"threshold", "owners", "delegate", "configNonce", "nonce", "parentNonce"}

Ev(v, type, sets, p, by, remote, child) ==
  [vault |-> v, type |-> type, sets |-> sets, proposal |-> p, by |-> by,
   remote |-> remote, child |-> child]

Setup(v) == Ev(v, "setup", SomeFields, 0, nil, FALSE, nil)

(* The changes that executing proposal p makes.                            *)
Threshold(v, p) == Ev(v, "thresholdChange", {"threshold", "configNonce"}, p, nil, FALSE, nil)

Owners(v, p) == Ev(v, "ownerChange", {"owners", "configNonce"}, p, nil, FALSE, nil)

Delegate(v, p) == Ev(v, "delegate", {"delegate"}, p, nil, FALSE, nil)

Proposed(v, p, child) == Ev(v, "proposal", {}, p, nil, FALSE, child)

Approved(v, p) == Ev(v, "approval", {}, p, "owner", FALSE, nil)

Executed(v, p, remote) == Ev(v, "execution", {}, p, nil, remote, nil)

Malformed(v) == Ev(v, "malformed", {}, 0, nil, FALSE, nil)

Block(deploys, events) == [deploys |-> deploys, events |-> events]

(* One vault: setup, and proposals with their votes, executions and        *)
(* changes. Several transactions in a block emit against the events' ranks:*)
(* a delegate change before another execution; and a threshold change      *)
(* before an owner change, both of which set the configNonce.              *)
SoloBlocks ==
  {Block({}, <<>>),
   Block({va}, <<Setup(va)>>),
   Block({}, <<Proposed(va, 1, nil), Approved(va, 1)>>),
   Block({}, <<Executed(va, 1, FALSE), Delegate(va, 1),
               Proposed(va, 2, nil), Executed(va, 2, FALSE)>>),
   Block({}, <<Proposed(va, 3, nil), Executed(va, 3, FALSE), Threshold(va, 3),
               Proposed(va, 4, nil), Executed(va, 4, FALSE), Owners(va, 4)>>),
   Block({}, <<Proposed(va, 5, nil), Executed(va, 5, FALSE), Owners(va, 5)>>)}

(* A vault deployed before it is set up, one of whose events does not      *)
(* decode, and an account that copies it with other permissions.           *)
ImportBlocks ==
  {Block({}, <<>>),
   Block({va, vb}, <<>>),
   Block({}, <<Setup(va), Malformed(va), Setup(vb)>>),
   Block({}, <<Threshold(va, 1)>>)}

(* Two vaults that have nothing to do with each other.                     *)
PairBlocks ==
  {Block({}, <<>>),
   Block({va, vb}, <<Setup(va), Setup(vb)>>),
   Block({}, <<Threshold(va, 1)>>),
   Block({}, <<Threshold(vb, 1)>>)}

(* va proposes child vb, whose setup carries the execution.                *)
FamilyBlocks ==
  {Block({}, <<>>),
   Block({va}, <<Setup(va)>>),
   Block({}, <<Proposed(va, 1, vb), Approved(va, 1)>>),
   Block({vb}, <<Setup(vb), Executed(vb, 1, TRUE)>>)}

-----------------------------------------------------------------------------
(* Full mode, one vault, a reorg of up to two blocks between ticks and an   *)
(* archive that lags; discovery on the daemon with a crash at any step ...  *)
Daemon ==
  [lite |-> FALSE, archiveDiscovery |-> FALSE, window |-> 3, span |-> 4,
   scanSteps |-> 1, margin |-> 2, backfill |-> 4, safe |-> {va},
   subscribable |-> {}, parent |-> Orphans, blocks |-> SoloBlocks,
   height |-> 3, reorgs |-> 1, depth |-> 2, faults |-> 0, crashes |-> 1,
   unsubscribes |-> 0, hazards |-> {}]

(* ... or in the archive, where a reorg may move the deploy itself and one  *)
(* call may fail anywhere in a tick.                                        *)
Archive == [Daemon EXCEPT !.archiveDiscovery = TRUE, !.faults = 1, !.crashes = 0]

(* Two vaults on a chain longer than the replay window: a vault whose sync  *)
(* fails holds the cursor back for both.                                    *)
Catchup ==
  [Archive EXCEPT !.window = 2, !.span = 5, !.margin = 1, !.safe = Both,
                  !.blocks = PairBlocks, !.height = 4, !.reorgs = 0]

(* Lite mode: a parent is subscribed, its proposal makes the indexer track  *)
(* the child before it is deployed, and the parent may be unsubscribed in   *)
(* the middle of a sync.                                                    *)
LiteFamily ==
  [Daemon EXCEPT !.lite = TRUE, !.scanSteps = 2, !.margin = 1, !.safe = Both,
                 !.subscribable = {va}, !.parent = Family, !.blocks = FamilyBlocks,
                 !.depth = 1, !.crashes = 0, !.unsubscribes = 1]

(* ... or where a failure may cut the unsubscribe short.                    *)
CutShort == [LiteFamily EXCEPT !.reorgs = 0, !.faults = 1,
                               !.blocks = FamilyBlocks \ {Block({}, <<>>)}]

(* A vault imported from a given block is scanned one request at a time     *)
(* over several ticks, through a restart beside an account with other       *)
(* permissions, or through a failure; one of its events does not decode.    *)
Import ==
  [Daemon EXCEPT !.lite = TRUE, !.window = 1, !.span = 1, !.scanSteps = 2,
                 !.margin = 1, !.subscribable = Both, !.blocks = ImportBlocks,
                 !.reorgs = 0]

Backends == {Daemon, Archive, Catchup, LiteFamily, CutShort, Import,
             [Import EXCEPT !.subscribable = {va}, !.faults = 1, !.crashes = 0]}

(* As many subscribed vaults that cannot be read as a tick has scan steps.  *)
StarvedBackend == {[Import EXCEPT !.scanSteps = 1, !.crashes = 0]}

(* A parent and its child, both tracked in full mode.                       *)
RemoteBackend == {[Archive EXCEPT !.scanSteps = 2, !.margin = 1, !.safe = Both,
                     !.parent = Family, !.blocks = FamilyBlocks, !.reorgs = 0, !.faults = 0]}

(* Two vaults, a failing sync and a reorg.                                  *)
HeldBackend == {[Catchup EXCEPT !.height = 5, !.reorgs = 1, !.depth = 1]}

(* A tick whose bestChain request fails.                                    *)
BlindBackend == {[Archive EXCEPT !.faults = 0, !.hazards = {"detectionFails"}]}

(* A block with an execution and the change it makes, reached by a backfill *)
(* that a restart interrupts and by a first scan of one block per request.  *)
SplitBackend ==
  {[Archive EXCEPT !.span = 1, !.scanSteps = 4, !.height = 4, !.reorgs = 0, !.crashes = 1,
      !.blocks = {Block({va}, <<Setup(va), Proposed(va, 1, nil), Approved(va, 1)>>),
                  Block({}, <<Executed(va, 1, FALSE), Owners(va, 1)>>),
                  Block({}, <<Threshold(va, 2)>>)}]}

=============================================================================
