------------------------------ MODULE Preflight ------------------------------
(***************************************************************************)
(* One browser tab preparing and sending transactions on a vault: the       *)
(* proving worker (multisigClient.worker.ts), the action that drives it     *)
(* (multisigClient.ts) and the check before broadcast with its one panel    *)
(* (preflight-flow.ts), which uploads of transactions signed offline and    *)
(* exports for offline signing share.  The vault moves on at every step.    *)
(***************************************************************************)
EXTENDS Integers, FiniteSets, Sequences

CONSTANTS
    Owners,         \* the vault's owners at first
    Actor,          \* the owner whose tab this is
    Proposer,       \* the owner who made the proposal, if it exists
    Uploads,        \* kinds of the transactions signed offline
    Threshold,      \* approvals an execution needs
    MaxMoves,       \* changes of the vault by others
    MaxFaults,      \* failed reads of the node or the backend
    MaxHosts,       \* pages with a panel mounted at once
    MaxLeaves,      \* times a page with a panel is left
    None            \* nobody, nothing

ASSUME PreflightConstants ==
    /\ IsFiniteSet(Owners) /\ {Actor, Proposer} \subseteq Owners
    /\ None \notin Owners \cup {"online", "offline"}
    /\ \A who \in {"online", "offline"}, canRebuild \in BOOLEAN,
          kind \in {"checking", "stores", "existing", "unknown", "executed",
                   "invalid", "review", "eligible"} :
         None # [who |-> who, kind |-> kind, canRebuild |-> canRebuild]
    /\ Uploads \subseteq {"propose", "approve", "execute"}
    /\ Threshold \in Nat \ {0}
    /\ {MaxMoves, MaxFaults, MaxLeaves} \subseteq Nat /\ MaxHosts \in Nat \ {0}

VARIABLES
    chain,      \* the vault, and the address of a vault being deployed
    indexed,    \* the vault as the backend's events reproduce it
    moves,      \* changes of the vault so far
    faults,     \* failed reads so far
    flow,       \* the online action and the offline export or upload
    gate,       \* gateBusy: the flow that holds the check
    choice,     \* the flow whose promise choosePreflight resolves
    view,       \* the panel
    hosts,      \* mounted panels
    generation, \* unmounts so far
    key,        \* what the worker compiled
    cache       \* the compile cache in IndexedDB: whose artifacts it holds

vars == <<chain, indexed, moves, faults, flow, gate, choice, view, hosts, generation, key, cache>>
world == <<chain, indexed, moves>>
panel == <<gate, choice, view>>
tab == <<hosts, generation>>
compiler == <<key, cache>>

Flows == {"online", "offline"}

(* The worker's handlers: the order of their steps, and whether they build  *)
(* on accounts read again or on the state that was loaded with the stores.  *)
deployAndSetupContract ==
    [steps |-> <<"target", "compile", "build">>, rereads |-> FALSE]

createOnchainProposal ==
    [steps |-> <<"compile", "events", "chain", "match", "sign", "build">>, rereads |-> TRUE]

approveProposalOnchain ==
    [steps |-> <<"compile", "state", "events", "chain", "match", "sign", "build">>, rereads |-> TRUE]

executeProposalOnchain ==
    [steps |-> <<"compile", "state", "events", "chain", "match", "build">>, rereads |-> FALSE]

executeSetupChildOnchain ==
    [steps |-> <<"compile", "events", "chain", "match", "build">>, rereads |-> TRUE]

executeChildLifecycleOnchain ==
    [steps |-> <<"compile", "events", "chain", "match", "build">>, rereads |-> TRUE]

Kinds == {"deploy", "propose", "approve", "execute", "setup", "lifecycle"}

Handler == [kind \in Kinds |->
    CASE kind = "deploy"    -> deployAndSetupContract
      [] kind = "propose"   -> createOnchainProposal
      [] kind = "approve"   -> approveProposalOnchain
      [] kind = "execute"   -> executeProposalOnchain
      [] kind = "setup"     -> executeSetupChildOnchain
      [] kind = "lifecycle" -> executeChildLifecycleOnchain]

Remote == {"setup", "lifecycle"}    \* carried out on a child

Takes(kind, pc) == \E i \in DOMAIN Handler[kind].steps : Handler[kind].steps[i] = pc

Following(kind, pc) ==
    LET steps == Handler[kind].steps IN
    steps[1 + CHOOSE i \in DOMAIN steps : steps[i] = pc]

(* The parts of a vault that the checks tell apart, for one proposal made   *)
(* under configuration 0 with nonce 1.                                      *)
Vault == [prop : {"none", "open", "executed"}, voters : SUBSET Owners,
          owners : SUBSET Owners, configNonce : 0 .. 1, nonce : 0 .. 1,
          late : BOOLEAN, account : {"none", "bare"}]

Idle == [pc |-> "idle", kind |-> "propose", via |-> "wallet", row |-> "true",
         gen |-> 0, check |-> 0, state |-> None, stores |-> None, base |-> None,
         status |-> "none", sent |-> 0, result |-> "none"]

Fresh == [prop |-> "none", voters |-> {}, owners |-> Owners, configNonce |-> 0,
          nonce |-> 0, late |-> FALSE, account |-> "none"]

Init ==
    /\ chain \in {Fresh, [Fresh EXCEPT !.prop = "open", !.voters = {Proposer}]}
    /\ indexed = chain
    /\ moves = 0 /\ faults = 0
    /\ flow = [f \in Flows |-> Idle]
    /\ gate = None /\ choice = None /\ view = None
    /\ hosts = 1 /\ generation = 0
    /\ key = "none" /\ cache \in {"own", "swapped"}

-----------------------------------------------------------------------------
(* The vault moves under the tab, and the indexer follows.                  *)

Moves(v) ==
    {[v EXCEPT !.prop = "open", !.voters = {o}] : o \in {p \in {Proposer} : v.prop = "none"}}
    \cup {[v EXCEPT !.voters = @ \cup {o}] : o \in {p \in v.owners \ v.voters : v.prop = "open"}}
    \cup (IF v.prop = "open" /\ Cardinality(v.voters) >= Threshold /\ v.nonce = 0
          THEN {[v EXCEPT !.prop = "executed", !.nonce = 1]} ELSE {})
    \cup {[v EXCEPT !.configNonce = 1, !.owners = @ \ {Actor}]}
    \cup {[v EXCEPT !.nonce = 1], [v EXCEPT !.late = TRUE], [v EXCEPT !.account = "bare"]}

VaultMoves ==
    /\ moves < MaxMoves
    /\ \E v \in Moves(chain) \ {chain} : chain' = v
    /\ moves' = moves + 1
    /\ UNCHANGED <<indexed, faults, flow, panel, tab, compiler>>

Index ==
    /\ indexed # chain
    /\ indexed' = chain
    /\ UNCHANGED <<chain, moves, faults, flow, panel, tab, compiler>>

-----------------------------------------------------------------------------
(* What the worker compares.  Stores hold the owner list, the approval map  *)
(* and the vote nullifiers.  An action on a child needs the parent's        *)
(* approvals, and all but its setup the child's map of executed proposals.  *)

Stores(v) == [owners |-> v.owners, prop |-> v.prop, voters |-> v.voters]

MatchesChain(s, kind, v) ==
    CASE kind = "setup"     -> s.voters = v.voters
      [] kind = "lifecycle" -> s.voters = v.voters /\ s.prop = v.prop
      [] OTHER              -> s = Stores(v)

(* The account state a transaction of a kind has preconditions on; the      *)
(* expiry slot is none of it.                                               *)
Preconditions(kind, v) ==
    IF kind = "deploy" THEN [Fresh EXCEPT !.account = v.account]
                       ELSE [v EXCEPT !.account = "none", !.late = FALSE]

(* What the contract's circuits assert of the state a proof is built on; a  *)
(* child's setup consumes no nonce.                                         *)
Accepts(v, kind) ==
    CASE kind = "deploy"  -> TRUE
      [] kind = "propose" -> /\ v.prop = "none" /\ Actor \in v.owners
                             /\ v.configNonce = 0 /\ v.nonce = 0 /\ ~v.late
      [] kind = "approve" -> /\ v.prop = "open" /\ Actor \in v.owners \ v.voters
                             /\ v.configNonce = 0 /\ v.nonce = 0 /\ ~v.late
      [] OTHER            -> /\ v.prop = "open" /\ Cardinality(v.voters) >= Threshold
                             /\ v.configNonce = 0 /\ ~v.late
                             /\ kind = "setup" \/ v.nonce = 0

(* assessRetry: the guidance for a transaction that no longer fits, on      *)
(* stores that reproduce the vault; thrown errors count as unknown.         *)
AssessRetry(kind) ==
    LET v == chain IN
    IF kind = "deploy" THEN "invalid"
    ELSE IF Stores(indexed) # Stores(v) THEN "unknown"
    ELSE IF kind # "propose" /\ v.prop = "executed" THEN "executed"
    ELSE IF \/ kind # "propose" /\ v.prop = "none"
            \/ v.configNonce # 0
            \/ kind = "approve" /\ Actor \in v.voters
            \/ kind \in {"execute"} \cup Remote /\ Cardinality(v.voters) < Threshold
            \/ kind \in {"propose", "approve"} /\ Actor \notin v.owners
         THEN "invalid"
    ELSE IF kind = "propose" /\ v.prop # "none" THEN "existing"
    ELSE IF (kind # "setup" /\ v.nonce >= 1) \/ v.late THEN "invalid"
    ELSE "eligible"

-----------------------------------------------------------------------------
(* Steps of a flow.                                                         *)

Uploaded(f) == flow[f].via = "upload"
Exported(f) == flow[f].via \in {"export", "recreate"}
Recreated(f) == flow[f].via = "recreate"
Checking(f) == [who |-> f, kind |-> "checking", canRebuild |-> FALSE]
Put(f, w) == flow' = [flow EXCEPT ![f] = w]
Goto(f, pc) == Put(f, [flow[f] EXCEPT !.pc = pc])

(* A flow is over: runPreflightAction forgets its context, the page learns  *)
(* whether a transaction was sent, a file downloaded, or neither.           *)
Finish(f, result) == Put(f, [Idle EXCEPT !.sent = flow[f].sent, !.result = result])

Fault == faults < MaxFaults /\ faults' = faults + 1

(* runPreflightAction: one online action per tab.                           *)
Start(kind) ==
    /\ flow["online"].pc = "idle"
    /\ hosts > 0
    /\ Put("online", [Idle EXCEPT
         !.pc = Head(Handler[kind].steps),
         !.kind = kind, !.gen = generation, !.check = generation])
    /\ UNCHANGED <<world, faults, panel, tab, compiler>>

(* An offline request is exported ...                                       *)
StartExport ==
    /\ flow["offline"].pc = "idle"
    /\ hosts > 0
    /\ Put("offline", [Idle EXCEPT !.pc = "events", !.via = "export",
         !.gen = generation, !.check = generation])
    /\ UNCHANGED <<world, faults, panel, tab, compiler>>

(* ... or a transaction signed offline, built on a state the vault has or   *)
(* had, is reviewed and handed to the check at once (broadcastReviewed).    *)
StartUpload(kind, base) ==
    /\ flow["offline"].pc = "idle"
    /\ hosts > 0 /\ gate = None
    /\ Accepts(base, kind)
    /\ Put("offline", [Idle EXCEPT !.pc = "check", !.kind = kind, !.via = "upload",
         !.gen = generation, !.check = generation, !.base = Preconditions(kind, base)])
    /\ gate' = "offline"
    /\ view' = Checking("offline")
    /\ UNCHANGED <<world, faults, choice, tab, compiler>>

(* compileContract: a key that is not the expected one discards the cache.  *)
Compile(f) ==
    /\ flow[f].pc = "compile"
    /\ IF key = "none" /\ cache = "swapped"
       THEN cache' = "own" /\ UNCHANGED key /\ Finish(f, "none")
       ELSE /\ key' = "expected"
            /\ UNCHANGED cache
            /\ Goto(f, Following(flow[f].kind, "compile"))
    /\ UNCHANGED <<world, faults, panel, tab>>

(* deployAndSetupContract first asks the node whether the address is new.   *)
ReadTarget(f) ==
    /\ flow[f].pc = "target"
    /\ Put(f, [flow[f] EXCEPT !.pc = "compile", !.base = Preconditions("deploy", chain)])
    /\ UNCHANGED <<world, faults, panel, tab, compiler>>

(* fetchContractState before the stores are rebuilt; null ends the action.  *)
ReadState(f) ==
    /\ flow[f].pc = "state"
    /\ \/ Fault /\ Finish(f, "none")
       \/ UNCHANGED faults /\ Put(f, [flow[f] EXCEPT !.pc = "events", !.state = chain])
    /\ UNCHANGED <<world, panel, tab, compiler>>

(* rebuildStoresFromBackend: the events, then the chain they must match.    *)
LoadEvents(f) ==
    /\ flow[f].pc = "events"
    /\ \/ Fault /\ Finish(f, "none")
       \/ UNCHANGED faults
          /\ Put(f, [flow[f] EXCEPT !.pc = "chain", !.stores = Stores(indexed)])
    /\ UNCHANGED <<world, panel, tab, compiler>>

(* withStoreRecovery catches a mismatch or a proposal that already exists:  *)
(* it asks, unless the page is gone or another flow is asking.  A request   *)
(* made again from an upload is built without it.                           *)
Recover(f, kind) ==
    IF hosts = 0 \/ generation # flow[f].check \/ gate # None \/ Recreated(f)
    THEN Finish(f, "none") /\ UNCHANGED panel
    ELSE /\ Put(f, [flow[f] EXCEPT !.pc = "recover", !.status = kind])
         /\ gate' = f /\ choice' = f
         /\ view' = [who |-> f, kind |-> kind, canRebuild |-> FALSE]

LoadChain(f) ==
    /\ flow[f].pc = "chain"
    /\ IF Stores(chain) # flow[f].stores
       THEN Recover(f, "stores")
       ELSE /\ Put(f, [flow[f] EXCEPT !.pc = "match", !.base = chain])
            /\ UNCHANGED panel
    /\ UNCHANGED <<world, faults, tab, compiler>>

(* The stores are compared with the state read first (approve, execute) or  *)
(* now (propose, child); then the row the backend served, which may hold    *)
(* another proposal's fields or memo, must hash to the selected proposal,   *)
(* and a new proposal must not exist yet.                                   *)
CompareWith(f) == IF Takes(flow[f].kind, "state") THEN flow[f].state ELSE chain

AssertSelected(kind, row) == kind # "propose" => row = "true"

Match(f, row) ==
    /\ flow[f].pc = "match"
    /\ IF Exported(f) THEN Goto(f, "deliver") /\ UNCHANGED panel
       ELSE IF ~MatchesChain(flow[f].stores, flow[f].kind, CompareWith(f))
       THEN Recover(f, "stores")
       ELSE IF flow[f].kind = "propose" /\ flow[f].stores.prop # "none"
       THEN Recover(f, "existing")
       ELSE IF ~AssertSelected(flow[f].kind, row)
       THEN Finish(f, "none") /\ UNCHANGED panel
       ELSE /\ Put(f, [flow[f] EXCEPT !.row = row, !.state = None,
                        !.pc = Following(flow[f].kind, "match")])
            /\ UNCHANGED panel
    /\ UNCHANGED <<world, faults, tab, compiler>>

(* signProposalAuthorization waits for the wallet.                          *)
Sign(f, agrees) ==
    /\ flow[f].pc = "sign"
    /\ IF agrees THEN Goto(f, "build") ELSE Finish(f, "none")
    /\ UNCHANGED <<world, faults, panel, tab, compiler>>

(* Building and proving evaluate every assertion of the circuit on the      *)
(* fetched state, with witnesses from the stores.                           *)
Provable(kind, stores, base) ==
    kind = "deploy" \/ (MatchesChain(stores, kind, base) /\ Accepts(base, kind))

Prove(f, base) ==
    IF Provable(flow[f].kind, flow[f].stores, base)
    THEN Put(f, [flow[f] EXCEPT !.pc = "gate", !.base =
            IF flow[f].kind = "deploy" THEN flow[f].base ELSE Preconditions(flow[f].kind, base)])
    ELSE Finish(f, "none")

(* The accounts are fetched again.  Proposals and approvals compare their   *)
(* stores once more; an execution keeps the state it loaded; a child action *)
(* builds on whatever it fetches.                                           *)
Build(f) ==
    /\ flow[f].pc = "build"
    /\ IF Takes(flow[f].kind, "sign") /\ Stores(chain) # flow[f].stores
       THEN Recover(f, "stores")
       ELSE Prove(f, IF Handler[flow[f].kind].rereads THEN chain ELSE flow[f].base)
            /\ UNCHANGED panel
    /\ UNCHANGED <<world, faults, tab, compiler>>

-----------------------------------------------------------------------------
(* The check before broadcast.  A Ledger device signs first.                *)

SignFeePayerRefused(f) ==
    /\ flow[f].pc = "gate"
    /\ Finish(f, "none")
    /\ UNCHANGED <<world, faults, panel, tab, compiler>>

(* The worker asks the page, which compares the generation the action       *)
(* started in, and preflightBeforeSend takes the gate.                      *)

GateIgnored(f) == generation = flow[f].gen
GenerationIgnored(f) == gate = None
MayCheck(f) == gate = None /\ generation = flow[f].gen

EnterGate(f) ==
    /\ flow[f].pc = "gate"
    /\ IF ~MayCheck(f)
       THEN Finish(f, "none") /\ UNCHANGED panel
       ELSE /\ Put(f, [flow[f] EXCEPT !.pc = "check", !.check = generation])
            /\ gate' = f
            /\ view' = Checking(f)
            /\ UNCHANGED choice
    /\ UNCHANGED <<world, faults, tab, compiler>>

(* The gate is released and the panel closed.                               *)
Release == gate' = None /\ choice' = None /\ view' = None

(* The panel is shown, unless its page is gone.                             *)
Ask(f, status) ==
    IF hosts = 0 \/ generation # flow[f].check
    THEN Finish(f, "none") /\ Release
    ELSE /\ Goto(f, "panel")
         /\ choice' = f
         /\ view' = [who |-> f, kind |-> status, canRebuild |-> status = "eligible"]
         /\ UNCHANGED gate

(* An upload first checks the vault's verification again (beforeBroadcast). *)
BeforeCheckFails(f) ==
    /\ flow[f].pc = "check" /\ Uploaded(f)
    /\ Fault /\ Finish(f, "none") /\ Release
    /\ UNCHANGED <<world, tab, compiler>>

(* checkTransactionState against a fresh read of the node.                  *)
Check(f, answered) ==
    /\ flow[f].pc = "check"
    /\ IF answered THEN UNCHANGED faults ELSE Fault
    /\ IF generation # flow[f].check
       THEN Finish(f, "none") /\ Release
       ELSE IF answered /\ Preconditions(flow[f].kind, chain) = flow[f].base
       THEN Goto(f, "send") /\ Release
       ELSE IF answered THEN Goto(f, "assess") /\ UNCHANGED panel
       ELSE Ask(f, "unknown")
    /\ UNCHANGED <<world, tab, compiler>>

(* The retry guidance; a proposal signed offline cannot be made again here. *)
Assess(f) ==
    /\ flow[f].pc = "assess"
    /\ \/ Fault /\ Ask(f, "unknown")
       \/ /\ UNCHANGED faults
          /\ Ask(f, IF Uploaded(f) /\ flow[f].kind = "propose" THEN "review"
                    ELSE AssessRetry(flow[f].kind))
    /\ UNCHANGED <<world, tab, compiler>>

(* choosePreflight: a button of the panel, or the last page that showed it  *)
(* is left.  The waiting flow goes on later, with the first answer given.   *)
Waiting == {f \in Flows : flow[f].pc \in {"panel", "recover"}}

Resolve(decision) ==
    IF choice \in Waiting
    THEN [flow EXCEPT ![choice] = [flow[choice] EXCEPT !.status = decision,
            !.pc = IF flow[choice].pc = "panel" THEN "decided" ELSE "recovered"]]
    ELSE flow

Offered == CASE view.kind = "stores"   -> {"retry", "cancel"}
             [] view.kind = "unknown"  -> {"retry", "cancel"}
             [] view.canRebuild        -> {"rebuild", "cancel"}
             [] OTHER                  -> {"cancel"}

Choose(decision) ==
    /\ hosts > 0 /\ view # None /\ view.kind # "checking"
    /\ decision \in Offered
    /\ choice \in Waiting
    /\ flow' = Resolve(decision)
    /\ UNCHANGED <<world, faults, panel, tab, compiler>>

(* The answer of the panel takes effect: another check, a rebuild, an end.  *)
Decided(f) ==
    /\ flow[f].pc = "decided"
    /\ IF flow[f].status = "retry" /\ generation = flow[f].check
       THEN /\ Goto(f, "check")
            /\ choice' = None /\ view' = Checking(f) /\ UNCHANGED gate
       ELSE /\ IF flow[f].status = "rebuild" THEN Goto(f, "reassess") ELSE Finish(f, "none")
            /\ Release
    /\ UNCHANGED <<world, faults, tab, compiler>>

(* A rebuild is assessed again.  The online action then runs its builder    *)
(* from the start; an upload builds and downloads a fresh request.          *)
Reassess(f) ==
    /\ flow[f].pc = "reassess"
    /\ \/ Fault /\ Finish(f, "none")
       \/ /\ UNCHANGED faults
          /\ IF \/ AssessRetry(flow[f].kind) # "eligible"
                \/ ~Uploaded(f) /\ generation # flow[f].gen
             THEN Finish(f, "none")
             ELSE IF Uploaded(f)
             THEN Put(f, [flow[f] EXCEPT !.pc = "events", !.via = "recreate"])
             ELSE Goto(f, "compile")
    /\ UNCHANGED <<world, panel, tab, compiler>>

(* The recovery panel: only a retry of a mismatch prepares again.           *)
Recovered(f) ==
    /\ flow[f].pc = "recovered"
    /\ IF flow[f].status = "retry" /\ generation = flow[f].check
       THEN Goto(f, IF Exported(f) THEN "events" ELSE "compile")
       ELSE Finish(f, "none")
    /\ Release
    /\ UNCHANGED <<world, faults, tab, compiler>>

-----------------------------------------------------------------------------
(* The end of a flow.                                                       *)

(* withStoreRecovery drops a request whose page was left; one made again    *)
(* from an upload is downloaded without that check.                         *)
Deliver(f) ==
    /\ flow[f].pc = "deliver"
    /\ Finish(f, IF Recreated(f) \/ generation = flow[f].check THEN "downloaded" ELSE "none")
    /\ UNCHANGED <<world, faults, panel, tab, compiler>>

(* Auro's window shows the transaction for confirmation; on another network *)
(* or account, or when the user declines, nothing is sent.  Ledger and      *)
(* uploads post it to the node, which may refuse it.                        *)
Send(f, accepted) ==
    /\ flow[f].pc = "send"
    /\ IF accepted THEN Put(f, [flow[f] EXCEPT !.pc = "sent", !.sent = flow[f].sent + 1])
                   ELSE Finish(f, "none")
    /\ UNCHANGED <<world, faults, panel, tab, compiler>>

(* The hash travels back through the worker and withStoreRecovery, which    *)
(* keeps an online result even when the page was left.                      *)
ResultIfStillOpen(f) == IF generation = flow[f].check THEN "sent" ELSE "none"
Result(f) == "sent"

Return(f) ==
    /\ flow[f].pc = "sent"
    /\ Finish(f, Result(f))
    /\ UNCHANGED <<world, faults, panel, tab, compiler>>

-----------------------------------------------------------------------------
(* Pages with a panel come and go (mountPreflight).                         *)

Mount ==
    /\ hosts < MaxHosts
    /\ hosts' = hosts + 1
    /\ UNCHANGED <<world, faults, flow, panel, generation, compiler>>

PanelAbandoned == flow
CancelPanel == Resolve("cancel")

Unmount ==
    /\ hosts > 0 /\ generation < MaxLeaves
    /\ hosts' = hosts - 1
    /\ generation' = generation + 1
    /\ IF hosts = 1
       THEN flow' = CancelPanel /\ view' = None
       ELSE UNCHANGED <<flow, view>>
    /\ UNCHANGED <<world, faults, gate, choice, compiler>>

-----------------------------------------------------------------------------
Step(f) ==
    \/ Compile(f) \/ ReadTarget(f) \/ ReadState(f) \/ LoadEvents(f) \/ LoadChain(f)
    \/ \E row \in {"true", "other"} : Match(f, row)
    \/ \E agrees \in BOOLEAN : Sign(f, agrees) \/ Send(f, agrees)
    \/ Build(f) \/ SignFeePayerRefused(f) \/ EnterGate(f) \/ BeforeCheckFails(f)
    \/ \E answered \in BOOLEAN : Check(f, answered)
    \/ Assess(f) \/ Decided(f) \/ Reassess(f) \/ Recovered(f)
    \/ Deliver(f) \/ Return(f)

Next ==
    \/ VaultMoves \/ Index \/ Mount \/ Unmount
    \/ \E kind \in Kinds : Start(kind)
    \/ StartExport
    \/ \E kind \in Uploads, base \in {chain, indexed} : StartUpload(kind, base)
    \/ \E f \in Flows : Step(f)
    \/ \E decision \in {"retry", "rebuild", "cancel"} : Choose(decision)

(* The tab keeps working and wallets answer.  A panel may stay unanswered   *)
(* for as long as its page is open, and the indexer may lag for good.       *)
Fairness == \A f \in Flows : WF_vars(Step(f))

Spec == Init /\ [][Next]_vars
FairSpec == Spec /\ Fairness

-----------------------------------------------------------------------------
(* The state has its shape.                                                 *)
TypeOK ==
    /\ chain \in Vault /\ indexed \in Vault
    /\ gate \in Flows \cup {None} /\ choice \in Flows \cup {None}
    /\ hosts \in 0 .. MaxHosts /\ generation \in 0 .. MaxLeaves
    /\ key \in {"none", "expected"} /\ cache \in {"own", "swapped"}
    /\ \A f \in Flows :
         /\ flow[f].kind \in Kinds /\ flow[f].sent \in 0 .. 1
         /\ flow[f].gen \in 0 .. generation /\ flow[f].check \in 0 .. generation
         /\ flow[f].result \in {"none", "sent", "downloaded"}

(* The one panel and its one resolver are never lost: a flow that waits for *)
(* an answer holds the gate, is the one the buttons answer, is the one the  *)
(* panel shows, and has a page to show it on.  Otherwise the tab would wait *)
(* for good, or a button would answer for the other flow's transaction.     *)
PanelAnswerable ==
    \A f \in Waiting :
        /\ gate = f /\ choice = f /\ hosts > 0
        /\ view # None /\ view.who = f /\ view.kind # "checking"

(* A transaction is broadcast at most once however often it was checked     *)
(* again or rebuilt, and the page that left in the meantime still gets the  *)
(* result: a broadcast that is reported as failed would be repeated.        *)
SentOnceAndKept ==
    \A f \in Flows :
        /\ flow[f].sent = 1 => flow[f].pc \in {"sent", "idle"}
        /\ flow[f].pc = "idle" => ((flow[f].result = "sent") <=> (flow[f].sent = 1))

(* What goes to the node was proved with the expected key, for the proposal *)
(* the user selected, on stores that reproduce the state it has             *)
(* preconditions on and on which the contract accepts it, and it passed its *)
(* check on the page that started it.                                       *)
SentAsPrepared ==
    \A f \in Flows : flow[f].pc \in {"send", "sent"} =>
        /\ flow[f].check = flow[f].gen
        /\ f = "online" =>
             /\ key = "expected"
             /\ flow[f].row = "true" \/ flow[f].kind \in {"propose", "deploy"}
             /\ flow[f].kind # "deploy" => Provable(flow[f].kind, flow[f].stores, flow[f].base)

(* A request is downloaded only while the page that asked for it is open.   *)
DownloadOnItsPage ==
    [][\A f \in Flows : (flow[f].pc = "deliver" /\ flow'[f].result = "downloaded")
            => generation = flow[f].gen]_vars

(* Leaving the last page with a panel ends whatever the tab was preparing,  *)
(* at whichever step it was, and frees the tab for another action.          *)
LeavingEnds ==
    \A f \in Flows : (flow[f].pc # "idle" /\ hosts = 0) ~> (flow[f].pc = "idle")
=============================================================================
