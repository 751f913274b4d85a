------------------------------ MODULE MinaGuard ------------------------------
(***************************************************************************)
(* The MinaGuard zkApp: a set of multisig vaults ("guards") on the Mina    *)
(* ledger, each a root or the child of a root.                             *)
(*                                                                         *)
(* Every contract method is one action.  A method proves facts about the   *)
(* state it read and the ledger re-checks those reads as preconditions     *)
(* when it includes the transaction, on this account and on every foreign  *)
(* account the method attached, so a method that takes effect does so      *)
(* atomically on the state it is included in.                              *)
(*                                                                         *)
(* Data.  Poseidon commitments are modelled by what they commit to: the    *)
(* owner chain is the set of owners (their order is kept in StoreRebuild   *)
(* and Offline), a proposal hash is the proposal, the Merkle maps          *)
(* approvalRoot and voteNullifierRoot are functions, childExecutionRoot is *)
(* the set of keys holding EXECUTED_MARKER.  Mina's nine receiver slots    *)
(* are two: slot 1, which has rules of its own, and one for the others.    *)
(***************************************************************************)
EXTENDS Integers, FiniteSets

CONSTANTS
  Guards,           \* addresses that can host a guard
  Keys,             \* public keys that can be named as owners or receivers
  OnCurve,          \* the keys that are curve points, so can sign
  xOf,              \* x-coordinate: a key and its negation share one
  Empty,            \* PublicKey.empty()
  Proposals,        \* the proposals the owners may sign
  SetupConfigs,     \* the governance configurations deployers may choose
  MAX_OWNERS,
  EXECUTED_MARKER,  \* Field(0).sub(1): far above any approval count
  MaxSlot,          \* bound: the last slot of a run
  MaxBalance        \* bound: deposits stop at this balance

PROPOSED_MARKER == 1

NATIVE_TOKEN_ID == 1

LocalTypes == {"TRANSFER", "ADD_OWNER", "REMOVE_OWNER", "CHANGE_THRESHOLD",
               "SET_DELEGATE", "ALLOCATE_CHILD"}

RemoteTypes == {"CREATE_CHILD", "RECLAIM_CHILD", "DESTROY_CHILD",
                "ENABLE_CHILD_MULTI_SIG"}

TransferLike == {"TRANSFER", "ALLOCATE_CHILD"}

(* A field element: a plain number, an owner commitment or a child         *)
(* configuration hash.  The three hash domains are tagged, so they never   *)
(* collide with one another.                                               *)
Field == [num : Nat, owners : SUBSET Keys, threshold : Nat, numOwners : Nat]

Num(n) == [num |-> n, owners |-> {}, threshold |-> 0, numOwners |-> 0]

OwnersCommitment(S) ==
  [num |-> 0, owners |-> S, threshold |-> 0, numOwners |-> 0]

ChildConfigHash(S, t, n) ==
  [num |-> 0, owners |-> S, threshold |-> t, numOwners |-> n]

IsNum(d) == d = Num(d.num)

Addresses == Keys \cup {Empty}

Receiver == [address : Addresses, amount : Nat]

TransactionProposal ==
  [receivers    : [1..2 -> Receiver],
   tokenId      : Nat,
   txType       : LocalTypes \cup RemoteTypes \cup {"UNKNOWN"},
   data         : Field,
   nonce        : Nat,
   configNonce  : Nat,
   expirySlot   : Nat,
   guardAddress : Guards,
   destination  : {"LOCAL", "REMOTE", "INVALID"},
   childAccount : Guards \cup {Empty}]

SetupInput == [owners : SUBSET Keys, threshold : Nat, numOwners : Nat]

ASSUME KeysAssumption ==
  /\ IsFiniteSet(Keys)
  /\ OnCurve \subseteq Keys
  /\ Guards \subseteq OnCurve     \* an account is created by its key's signature
  /\ xOf \in [Keys -> Keys]
  /\ Empty \notin Keys

ASSUME InputsAssumption ==
  /\ Proposals \subseteq TransactionProposal
  /\ SetupConfigs \subseteq SetupInput

ASSUME LimitsAssumption ==
  /\ MAX_OWNERS \in Nat
  /\ EXECUTED_MARKER \in Nat /\ EXECUTED_MARKER > MAX_OWNERS + PROPOSED_MARKER
  /\ MaxSlot \in Nat
  /\ MaxBalance \in Nat

VARIABLES
  permissions,       \* "absent", "deploy" (setPermissions by proof), "locked"
  initialized,       \* the guards whose ownersCommitment is not Field(0)
  owners,            \* the list ownersCommitment commits to, as a set
  threshold,
  numOwners,
  nonce,
  configNonce,
  approvals,         \* approvalRoot: proposal -> 0, 1 + votes, or executed
  nullifiers,        \* voteNullifierRoot: proposal -> the keys that voted
  parent,
  parentNonce,
  childExecuted,     \* childExecutionRoot: the proposals marked executed
  childMultiSigEnabled,  \* the guards whose flag is 1
  reservedConfigHash,
  balance,
  delegate,
  slot               \* globalSlotSinceGenesis

accountVars == <<permissions, balance, delegate>>
governanceVars == <<initialized, owners, threshold, numOwners, configNonce>>
voteVars == <<approvals, nullifiers>>
familyVars == <<parent, parentNonce, childExecuted, childMultiSigEnabled,
                reservedConfigHash>>

vars == <<permissions, initialized, owners, threshold, numOwners, nonce,
          configNonce, approvals, nullifiers, parent, parentNonce,
          childExecuted, childMultiSigEnabled, reservedConfigHash, balance,
          delegate, slot>>

(* Before deployment an account has the zero state of a new zkApp.         *)
Init ==
  /\ permissions = [g \in Guards |-> "absent"]
  /\ initialized = {}
  /\ owners = [g \in Guards |-> {}]
  /\ threshold = [g \in Guards |-> 0]
  /\ numOwners = [g \in Guards |-> 0]
  /\ nonce = [g \in Guards |-> 0]
  /\ configNonce = [g \in Guards |-> 0]
  /\ approvals = [g \in Guards |-> [p \in Proposals |-> 0]]
  /\ nullifiers = [g \in Guards |-> [p \in Proposals |-> {}]]
  /\ parent = [g \in Guards |-> Empty]
  /\ parentNonce = [g \in Guards |-> 0]
  /\ childExecuted = [g \in Guards |-> {}]
  /\ childMultiSigEnabled = {}
  /\ reservedConfigHash = [g \in Guards |-> Num(0)]
  /\ balance = [g \in Guards |-> 0]
  /\ delegate = [g \in Guards |-> g]
  /\ slot = 0

-----------------------------------------------------------------------------
(* Faulty variants: each is one definition below with one plausible        *)
(* mistake in it, kept to show which property notices the mistake.         *)

ApprovedTwice(g, p, k) == TRUE

ConfigNonceKept(g) == configNonce[g]

MarkerCountedAsVote(count, t) == count >= t

ConfigNonceIgnored(g, p) == p.guardAddress = g

ConfigNonceAhead(g, p) == p.guardAddress = g /\ p.configNonce >= configNonce[g]

AnyInitializedGuard(h) == h \in initialized

ReservationIgnored(g, hash) == TRUE

ThresholdIgnored(h, p) ==
  /\ h \in initialized
  /\ p.configNonce = configNonce[h] /\ p.guardAddress = h
  /\ approvals[h][p] \in 1..(EXECUTED_MARKER - 1)

EmptyDelegated(g, target) == target

NotMarked(g, p) == UNCHANGED approvals

NegationAllowed(S, k) == k \notin S

BelowThreshold(n, t) == n <= MAX_OWNERS

ParentNonceKept(g, p) == p.nonce = parentNonce[g] + 1 /\ UNCHANGED parentNonce

MarkedInEmptyMap(g, p) == childExecuted' = [childExecuted EXCEPT ![g] = {p}]

ParentNotCredited(g, amount) ==
  balance[g] >= amount /\ balance' = [balance EXCEPT ![g] = @ - amount]

-----------------------------------------------------------------------------
(* Shared validation                                                       *)

XDistinct(S) == \A j, k \in S : xOf[j] = xOf[k] => j = k

(* assertCoherentSetupOwners: exactly numOwners active slots, all of them  *)
(* points, no two of one keyholder.                                        *)
AssertCoherentSetupOwners(S, n) ==
  /\ Cardinality(S) = n
  /\ S \subseteq OnCurve
  /\ XDistinct(S)

AssertValidInitialGovernance(t, n) == t > 0 /\ n >= t /\ n <= MAX_OWNERS

AssertChildMultiSigEnabledIfChild(g) ==
  parent[g] = Empty \/ g \in childMultiSigEnabled

AssertProposalConfigNetworkAndGuard(g, p) ==
  p.configNonce = configNonce[g] /\ p.guardAddress = g

AssertProposalDestinationAndChildAccount(g, p) ==
  /\ p.destination \in {"LOCAL", "REMOTE"}
  /\ p.destination = "LOCAL" => p.childAccount = Empty
  /\ p.destination = "REMOTE" => p.childAccount # Empty /\ parent[g] = Empty

AssertProposalNotExpired(p) == p.expirySlot = 0 \/ slot <= p.expirySlot

(* The nonce domain is this guard's for LOCAL, the child's parentNonce for *)
(* REMOTE; CREATE_CHILD has no counter and uses 0.                         *)
AssertFreshProposalNonce(g, p) ==
  \/ p.destination = "LOCAL" /\ p.nonce > nonce[g]
  \/ /\ p.destination = "REMOTE" /\ p.txType # "CREATE_CHILD"
     /\ p.childAccount \in initialized
     /\ parent[p.childAccount] = g
     /\ p.nonce > parentNonce[p.childAccount]
  \/ p.destination = "REMOTE" /\ p.txType = "CREATE_CHILD" /\ p.nonce = 0

(* The caller's approval count is pinned to the leaf by the witness.       *)
AssertPending(count) == count # EXECUTED_MARKER /\ count >= PROPOSED_MARKER

AssertThresholdSatisfied(count, t) == count >= t + PROPOSED_MARKER

AssertNotVoted(g, p, k) == k \notin nullifiers[g][p]

BumpConfigNonce(g) == configNonce[g] + 1

(* propose()'s rules 1-7 on the proposal's shape.                          *)
AssertWellFormed(g, p) ==
  LET slot1 == p.receivers[1] IN
  /\ \/ p.txType \in LocalTypes /\ p.destination = "LOCAL"
     \/ p.txType \in RemoteTypes /\ p.destination = "REMOTE"
  /\ p.txType \in {"ADD_OWNER", "REMOVE_OWNER"} => slot1.address # Empty
  /\ p.txType \in {"CHANGE_THRESHOLD"} \cup RemoteTypes => slot1.address = Empty
  /\ p.txType \notin TransferLike =>
       /\ p.receivers[2].address = Empty
       /\ \A i \in 1..2 : p.receivers[i].amount = 0
  /\ p.txType \notin {"CHANGE_THRESHOLD", "CREATE_CHILD", "RECLAIM_CHILD",
                      "ENABLE_CHILD_MULTI_SIG", "ADD_OWNER"} => p.data = Num(0)
  /\ p.txType = "ADD_OWNER" => p.data # Num(0)
  /\ p.txType = "CHANGE_THRESHOLD" =>
       IsNum(p.data) /\ p.data.num > 0 /\ p.data.num <= numOwners[g]
  /\ p.txType = "ENABLE_CHILD_MULTI_SIG" => p.data \in {Num(0), Num(1)}
  /\ p.tokenId = NATIVE_TOKEN_ID

(* Rules 6 and 7: a filled slot holds a point, an empty one no amount.     *)
AssertReceiverSlots(p) ==
  \A i \in 1..2 :
    IF p.receivers[i].address = Empty THEN p.receivers[i].amount = 0
    ELSE p.receivers[i].address \in OnCurve

-----------------------------------------------------------------------------
(* Deployment and initialization                                           *)

Deploy(g) ==
  /\ permissions[g] = "absent"
  /\ permissions' = [permissions EXCEPT ![g] = "deploy"]
  /\ UNCHANGED <<balance, delegate, governanceVars, nonce, voteVars,
                 familyVars, slot>>

(* lockPermissions: setPermissions is proof-authorized only until the      *)
(* first method installs the final vector, which makes it impossible.      *)
LockPermissions(g) ==
  /\ permissions[g] = "deploy"
  /\ permissions' = [permissions EXCEPT ![g] = "locked"]

AssertUninitialized(g) == g \notin initialized

InitializeState(g, cfg, h) ==
  /\ AssertUninitialized(g)
  /\ AssertValidInitialGovernance(cfg.threshold, cfg.numOwners)
  /\ AssertCoherentSetupOwners(cfg.owners, cfg.numOwners)
  /\ initialized' = initialized \cup {g}
  /\ owners' = [owners EXCEPT ![g] = cfg.owners]
  /\ threshold' = [threshold EXCEPT ![g] = cfg.threshold]
  /\ numOwners' = [numOwners EXCEPT ![g] = cfg.numOwners]
  /\ nonce' = [nonce EXCEPT ![g] = 0]
  /\ approvals' = [approvals EXCEPT ![g] = [p \in Proposals |-> 0]]
  /\ nullifiers' = [nullifiers EXCEPT ![g] = [p \in Proposals |-> {}]]
  /\ parent' = [parent EXCEPT ![g] = h]
  /\ parentNonce' = [parentNonce EXCEPT ![g] = 0]
  /\ childExecuted' = [childExecuted EXCEPT ![g] = {}]
  /\ childMultiSigEnabled' = childMultiSigEnabled \cup {g}
  /\ UNCHANGED <<configNonce, balance, delegate, slot>>

Setup(g, cfg) ==
  /\ LockPermissions(g)
  /\ parent[g] = Empty
  /\ InitializeState(g, cfg, Empty)
  /\ UNCHANGED reservedConfigHash

IsRootGuard(h) == h \in initialized /\ parent[h] = Empty

ReserveForParent(g, h, cfg) ==
  /\ LockPermissions(g)
  /\ AssertUninitialized(g)
  /\ parent[g] = Empty
  /\ h # g
  /\ IsRootGuard(h)
  /\ AssertValidInitialGovernance(cfg.threshold, cfg.numOwners)
  /\ AssertCoherentSetupOwners(cfg.owners, cfg.numOwners)
  /\ parent' = [parent EXCEPT ![g] = h]
  /\ reservedConfigHash' =
       [reservedConfigHash EXCEPT
          ![g] = ChildConfigHash(cfg.owners, cfg.threshold, cfg.numOwners)]
  /\ UNCHANGED <<balance, delegate, governanceVars, nonce, voteVars,
                 parentNonce, childExecuted, childMultiSigEnabled, slot>>

(* The parent's current owners approved p and p is still live there.       *)
AssertParentApprovalState(h, p) ==
  /\ h \in initialized
  /\ AssertProposalConfigNetworkAndGuard(h, p)
  /\ AssertProposalNotExpired(p)
  /\ AssertPending(approvals[h][p])
  /\ AssertThresholdSatisfied(approvals[h][p], threshold[h])

AssertReservedConfig(g, hash) == reservedConfigHash[g] = hash

ExecuteSetupChild(g, p, cfg) ==
  LET hash == ChildConfigHash(cfg.owners, cfg.threshold, cfg.numOwners) IN
  /\ parent[g] = p.guardAddress
  /\ p.txType = "CREATE_CHILD" /\ p.destination = "REMOTE"
  /\ p.childAccount = g
  /\ p.nonce = 0
  /\ p.data = hash
  /\ AssertReservedConfig(g, hash)
  /\ AssertParentApprovalState(p.guardAddress, p)
  /\ InitializeState(g, cfg, p.guardAddress)
  /\ reservedConfigHash' = [reservedConfigHash EXCEPT ![g] = Num(0)]
  /\ UNCHANGED permissions

-----------------------------------------------------------------------------
(* Voting                                                                  *)

(* What propose and approveProposal both require of the voter and of p.    *)
AssertVotable(g, p, k) ==
  /\ AssertChildMultiSigEnabledIfChild(g)
  /\ g \in initialized
  /\ k \in owners[g]
  /\ AssertProposalConfigNetworkAndGuard(g, p)
  /\ AssertProposalDestinationAndChildAccount(g, p)
  /\ AssertProposalNotExpired(p)
  /\ AssertFreshProposalNonce(g, p)
  /\ k \in OnCurve                 \* only a point has a signature
  /\ AssertNotVoted(g, p, k)

CastVote(g, p, k, count) ==
  /\ nullifiers' = [nullifiers EXCEPT ![g][p] = @ \cup {k}]
  /\ approvals' = [approvals EXCEPT ![g][p] = count]
  /\ UNCHANGED <<accountVars, governanceVars, nonce, familyVars, slot>>

Propose(g, p, k) ==
  /\ AssertVotable(g, p, k)
  /\ AssertWellFormed(g, p)
  /\ AssertReceiverSlots(p)
  /\ approvals[g][p] = 0
  /\ CastVote(g, p, k, PROPOSED_MARKER + 1)

ApproveProposal(g, p, k) ==
  /\ AssertVotable(g, p, k)
  /\ AssertPending(approvals[g][p])
  /\ CastVote(g, p, k, approvals[g][p] + 1)

-----------------------------------------------------------------------------
(* Execution of LOCAL proposals: anyone may call it                        *)

AssertExecutable(g, p) ==
  /\ AssertChildMultiSigEnabledIfChild(g)
  /\ g \in initialized
  /\ p.destination = "LOCAL"
  /\ AssertProposalConfigNetworkAndGuard(g, p)
  /\ AssertProposalNotExpired(p)
  /\ AssertPending(approvals[g][p])
  /\ AssertThresholdSatisfied(approvals[g][p], threshold[g])

AssertAndIncrementLocalNonce(g, p) ==
  /\ p.nonce = nonce[g] + 1
  /\ nonce' = [nonce EXCEPT ![g] = @ + 1]

MarkExecuted(g, p) ==
  approvals' = [approvals EXCEPT ![g][p] = EXECUTED_MARKER]

(* The steps every execute method on the vault itself has in common.       *)
ExecuteLocal(g, p) ==
  /\ AssertExecutable(g, p)
  /\ AssertAndIncrementLocalNonce(g, p)
  /\ MarkExecuted(g, p)
  /\ UNCHANGED <<permissions, initialized, nullifiers, familyVars, slot>>

(* The ledger refuses an account update that overdraws its account.        *)
HasFunds(g, n) == balance[g] >= n

SlotAmount(r) == IF r.address = Empty THEN 0 ELSE r.amount

PaidOut(p) == SlotAmount(p.receivers[1]) + SlotAmount(p.receivers[2])

CreditTo(h, p) ==
  (IF p.receivers[1].address = h THEN p.receivers[1].amount ELSE 0)
  + (IF p.receivers[2].address = h THEN p.receivers[2].amount ELSE 0)

ExecuteTransfers(g, p) ==
  /\ HasFunds(g, PaidOut(p))
  /\ balance' = [h \in Guards |->
                   balance[h] + CreditTo(h, p)
                     - (IF h = g THEN PaidOut(p) ELSE 0)]

ExecuteTransfer(g, p) ==
  /\ p.txType = "TRANSFER"
  /\ ExecuteLocal(g, p)
  /\ ExecuteTransfers(g, p)
  /\ UNCHANGED <<delegate, owners, threshold, numOwners, configNonce>>

IsInitializedChild(c, g) == c \in initialized /\ parent[c] = g

ExecuteAllocateToChildren(g, p) ==
  /\ p.txType = "ALLOCATE_CHILD"
  /\ ExecuteLocal(g, p)
  /\ \A i \in 1..2 : \/ p.receivers[i].address = Empty
                     \/ IsInitializedChild(p.receivers[i].address, g)
  /\ ExecuteTransfers(g, p)
  /\ UNCHANGED <<delegate, owners, threshold, numOwners, configNonce>>

(* Identity is the x-coordinate: the negation of an owner is present.      *)
AssertNotOwner(S, k) == \A j \in S : xOf[j] # xOf[k]

AddOwner(g, p, k) ==
  /\ p.txType = "ADD_OWNER"
  /\ AssertNotOwner(owners[g], k)
  /\ p.data = OwnersCommitment(owners[g] \cup {k})
  /\ numOwners' = [numOwners EXCEPT ![g] = @ + 1]
  /\ owners' = [owners EXCEPT ![g] = @ \cup {k}]

RemoveOwner(g, p, k) ==
  /\ p.txType = "REMOVE_OWNER"
  /\ k \in owners[g]
  /\ owners[g] \ {k} # {}
  /\ numOwners' = [numOwners EXCEPT ![g] = @ - 1]
  /\ owners' = [owners EXCEPT ![g] = @ \ {k}]

AssertOwnerCount(n, t) == t <= n /\ n <= MAX_OWNERS

ExecuteOwnerChange(g, p) ==
  LET k == p.receivers[1].address IN
  /\ ExecuteLocal(g, p)
  /\ k \in Keys
  /\ AddOwner(g, p, k) \/ RemoveOwner(g, p, k)
  /\ AssertOwnerCount(numOwners'[g], threshold[g])
  /\ configNonce' = [configNonce EXCEPT ![g] = BumpConfigNonce(g)]
  /\ UNCHANGED <<balance, delegate, threshold>>

ExecuteThresholdChange(g, p) ==
  /\ p.txType = "CHANGE_THRESHOLD"
  /\ ExecuteLocal(g, p)
  /\ IsNum(p.data) /\ p.data.num > 0 /\ numOwners[g] >= p.data.num
  /\ threshold' = [threshold EXCEPT ![g] = p.data.num]
  /\ configNonce' = [configNonce EXCEPT ![g] = BumpConfigNonce(g)]
  /\ UNCHANGED <<balance, delegate, owners, numOwners>>

TargetDelegate(g, target) == IF target = Empty THEN g ELSE target

ExecuteDelegate(g, p) ==
  /\ p.txType = "SET_DELEGATE"
  /\ ExecuteLocal(g, p)
  /\ delegate' =
       [delegate EXCEPT ![g] = TargetDelegate(g, p.receivers[1].address)]
  /\ UNCHANGED <<balance, owners, threshold, numOwners, configNonce>>

-----------------------------------------------------------------------------
(* Execution of REMOTE proposals, on the child.  None of these requires    *)
(* childMultiSigEnabled: a frozen child stays under its parent's control.  *)

AssertAndIncrementParentNonce(g, p) ==
  /\ p.nonce = parentNonce[g] + 1
  /\ parentNonce' = [parentNonce EXCEPT ![g] = @ + 1]

MarkChildExecuted(g, p) ==
  childExecuted' = [childExecuted EXCEPT ![g] = @ \cup {p}]

ExecuteRemote(g, p) ==
  /\ g \in initialized
  /\ p.destination = "REMOTE" /\ p.childAccount = g
  /\ parent[g] # Empty
  /\ AssertParentApprovalState(parent[g], p)
  /\ p \notin childExecuted[g]
  /\ AssertAndIncrementParentNonce(g, p)
  /\ MarkChildExecuted(g, p)
  /\ UNCHANGED <<permissions, delegate, initialized, owners, threshold,
                 numOwners, nonce, voteVars, parent, reservedConfigHash, slot>>

SendToParent(g, amount) ==
  /\ HasFunds(g, amount)
  /\ balance' = [h \in Guards |->
                   balance[h] + (IF h = parent[g] THEN amount ELSE 0)
                     - (IF h = g THEN amount ELSE 0)]

ExecuteReclaimToParent(g, p) ==
  /\ p.txType = "RECLAIM_CHILD"
  /\ ExecuteRemote(g, p)
  /\ IsNum(p.data)
  /\ SendToParent(g, p.data.num)
  /\ UNCHANGED <<configNonce, childMultiSigEnabled>>

(* amount is prover-supplied; the ledger checks only balance >= amount.    *)
ExecuteDestroy(g, p, amount) ==
  /\ p.txType = "DESTROY_CHILD"
  /\ ExecuteRemote(g, p)
  /\ SendToParent(g, amount)
  /\ childMultiSigEnabled' = childMultiSigEnabled \ {g}
  /\ configNonce' = [configNonce EXCEPT ![g] = BumpConfigNonce(g)]

ExecuteEnableChildMultiSig(g, p) ==
  /\ p.txType = "ENABLE_CHILD_MULTI_SIG"
  /\ ExecuteRemote(g, p)
  /\ \/ /\ p.data = Num(1)
        /\ childMultiSigEnabled' = childMultiSigEnabled \cup {g}
        /\ UNCHANGED configNonce
     \/ /\ p.data = Num(0)
        /\ childMultiSigEnabled' = childMultiSigEnabled \ {g}
        /\ configNonce' = [configNonce EXCEPT ![g] = BumpConfigNonce(g)]
  /\ UNCHANGED balance

-----------------------------------------------------------------------------
(* The ledger around the contract                                          *)

(* receive is "none": anyone may pay a guard, whatever its state.          *)
Deposit(g) ==
  /\ balance[g] < MaxBalance
  /\ balance' = [balance EXCEPT ![g] = @ + 1]
  /\ UNCHANGED <<permissions, delegate, governanceVars, nonce, voteVars,
                 familyVars, slot>>

AdvanceSlot ==
  /\ slot < MaxSlot
  /\ slot' = slot + 1
  /\ UNCHANGED <<accountVars, governanceVars, nonce, voteVars, familyVars>>

Next ==
  \/ AdvanceSlot
  \/ \E g \in Guards :
       \/ Deploy(g)
       \/ Deposit(g)
       \/ \E cfg \in SetupConfigs : Setup(g, cfg)
       \/ \E h \in Guards, cfg \in SetupConfigs : ReserveForParent(g, h, cfg)
       \/ \E p \in Proposals :
            \/ \E cfg \in SetupConfigs : ExecuteSetupChild(g, p, cfg)
            \/ \E k \in Keys : Propose(g, p, k)
            \/ \E k \in Keys : ApproveProposal(g, p, k)
            \/ ExecuteTransfer(g, p)
            \/ ExecuteAllocateToChildren(g, p)
            \/ ExecuteOwnerChange(g, p)
            \/ ExecuteThresholdChange(g, p)
            \/ ExecuteDelegate(g, p)
            \/ ExecuteReclaimToParent(g, p)
            \/ \E amount \in 0..balance[g] : ExecuteDestroy(g, p, amount)
            \/ ExecuteEnableChildMultiSig(g, p)

Spec == Init /\ [][Next]_vars

-----------------------------------------------------------------------------
(* Properties                                                              *)

TypeOK ==
  /\ permissions \in [Guards -> {"absent", "deploy", "locked"}]
  /\ initialized \in SUBSET Guards
  /\ owners \in [Guards -> SUBSET Keys]
  /\ threshold \in [Guards -> Nat]
  /\ numOwners \in [Guards -> Nat]
  /\ nonce \in [Guards -> Nat]
  /\ configNonce \in [Guards -> Nat]
  /\ approvals \in [Guards -> [Proposals -> Nat]]
  /\ nullifiers \in [Guards -> [Proposals -> SUBSET Keys]]
  /\ parent \in [Guards -> Guards \cup {Empty}]
  /\ parentNonce \in [Guards -> Nat]
  /\ childExecuted \in [Guards -> SUBSET Proposals]
  /\ childMultiSigEnabled \in SUBSET Guards
  /\ reservedConfigHash \in [Guards -> Field]
  /\ balance \in [Guards -> Nat]
  /\ delegate \in [Guards -> Keys]
  /\ slot \in 0..MaxSlot

Executed(g, p) == approvals[g][p] = EXECUTED_MARKER

SoundAt(g) ==
  /\ threshold[g] \in 1..numOwners[g]
  /\ numOwners[g] = Cardinality(owners[g])
  /\ numOwners[g] <= MAX_OWNERS
  /\ owners[g] \subseteq OnCurve
  /\ XDistinct(owners[g])

(* Whatever owner and threshold changes are executed, in whatever order,   *)
(* an initialized guard's threshold can be met by that many distinct       *)
(* keyholders that can sign, and numOwners agrees with the committed list: *)
(* no sequence of executions locks the funds away.                         *)
GovernanceSound == \A g \in initialized : SoundAt(g)

(* The two Merkle maps agree: the approval leaf of a pending proposal is   *)
(* the marker plus the number of nullifiers set for it, and an absent      *)
(* proposal has no nullifier, however votes and executions interleave.     *)
ApprovalsCountVotes ==
  \A g \in Guards, p \in Proposals :
    IF approvals[g][p] = 0 THEN nullifiers[g][p] = {}
    ELSE \/ Executed(g, p)
         \/ approvals[g][p] = PROPOSED_MARKER + Cardinality(nullifiers[g][p])

(* The stored count is never re-examined when the owners change.  It is    *)
(* sound because every vote on a proposal that can still be executed is    *)
(* the vote of a present owner: configNonce retires all others.            *)
LiveVotesByOwners ==
  \A g \in initialized, p \in Proposals :
    p.configNonce = configNonce[g] /\ ~Executed(g, p)
      => nullifiers[g][p] \subseteq owners[g]

(* A proposal is only ever recorded under a configuration that already     *)
(* existed at its own guard, so no vote can wait for a configuration to    *)
(* come about.                                                             *)
NoFutureProposals ==
  \A g \in Guards, p \in Proposals :
    approvals[g][p] # 0 =>
      p.guardAddress = g /\ p.configNonce <= configNonce[g]

(* Each execution slot is consumed by one proposal: two LOCAL proposals    *)
(* that were both executed have different nonces, and so do two REMOTE     *)
(* proposals executed on one child; both are in the past of the counter.   *)
NonceConsumedOnce ==
  \A g \in Guards :
    /\ \A p, q \in Proposals :
         Executed(g, p) /\ Executed(g, q) /\ p # q => p.nonce # q.nonce
    /\ \A p, q \in childExecuted[g] : p # q => p.nonce # q.nonce

(* Freezing a child kills what its owners had pending: while it is frozen  *)
(* no LOCAL proposal of the current configuration has any vote, so nothing *)
(* signed before the freeze becomes executable when it is lifted.          *)
FrozenChildHasNoLiveProposal ==
  \A g \in initialized \ childMultiSigEnabled, p \in Proposals :
    p.configNonce = configNonce[g] => approvals[g][p] = 0 \/ Executed(g, p)

(* The hierarchy has two levels: a reserved or initialized child always    *)
(* hangs under another, initialized guard that is itself a root.           *)
TwoLevelHierarchy ==
  \A g \in Guards :
    parent[g] # Empty =>
      /\ parent[g] \in initialized \ {g}
      /\ parent[parent[g]] = Empty

(* The executed proposals of a guard all lie behind its counters.          *)
NoncesBehind ==
  \A g \in Guards :
    /\ \A p \in Proposals : Executed(g, p) => p.nonce <= nonce[g]
    /\ \A p \in childExecuted[g] : p.nonce <= parentNonce[g]

(* An account that is not initialized has neither owners nor votes.        *)
BlankBeforeSetup ==
  \A g \in Guards \ initialized :
    /\ owners[g] = {}
    /\ nonce[g] = 0 /\ configNonce[g] = 0 /\ parentNonce[g] = 0
    /\ childExecuted[g] = {}
    /\ approvals[g] = [p \in Proposals |-> 0]
    /\ nullifiers[g] = [p \in Proposals |-> {}]

(* Execution does not look at the receivers again: whatever is recorded    *)
(* passed propose()'s rules on them.                                       *)
RecordedReceiversVetted ==
  \A g \in Guards, p \in Proposals :
    approvals[g][p] # 0 => AssertReceiverSlots(p)

(* Only a child is ever frozen.                                            *)
RootsEnabled ==
  \A g \in initialized : parent[g] = Empty => g \in childMultiSigEnabled

(* The inductive invariant: the safety properties above are preserved      *)
(* together, not one by one.  A vote keeps the count below EXECUTED_MARKER *)
(* only because voters are owners and owners are few; an owner change      *)
(* keeps live votes with owners only because no recorded proposal belongs  *)
(* to a later configuration.                                               *)
SafetyInv ==
  /\ TypeOK
  /\ GovernanceSound
  /\ ApprovalsCountVotes
  /\ LiveVotesByOwners
  /\ NoFutureProposals
  /\ NoncesBehind
  /\ NonceConsumedOnce
  /\ FrozenChildHasNoLiveProposal
  /\ TwoLevelHierarchy
  /\ RecordedReceiversVetted
  /\ RootsEnabled
  /\ BlankBeforeSetup

(* MinaGuard.ts says of reservedConfigHash that propose() binds the        *)
(* parent-approved proposal.data to it: once a child is reserved, a        *)
(* CREATE_CHILD proposal its parent's owners approved names that config.   *)
ApprovedDataIsReserved ==
  \A p \in Proposals :
    LET h == p.guardAddress IN
      /\ p.txType = "CREATE_CHILD"
      /\ p.childAccount \notin initialized
      /\ parent[p.childAccount] = h
      /\ approvals[h][p] >= threshold[h] + PROPOSED_MARKER
      => p.data = reservedConfigHash[p.childAccount]

NewlyExecuted(g) == {p \in Proposals : ~Executed(g, p) /\ Executed(g, p)'}

NewlyChildExecuted(g) == childExecuted'[g] \ childExecuted[g]

(* h's present owners back p: at least threshold of them, each a different *)
(* keyholder, have voted for it, it is bound to h and it has not expired.  *)
Backed(h, p) ==
  /\ h \in initialized
  /\ p.guardAddress = h
  /\ nullifiers[h][p] \subseteq owners[h]
  /\ XDistinct(nullifiers[h][p])
  /\ Cardinality(nullifiers[h][p]) >= threshold[h]
  /\ p.expirySlot = 0 \/ slot <= p.expirySlot

(* Whatever is executed is backed, at the moment of execution, by distinct *)
(* present owners of the guard that holds authority over it: the guard     *)
(* itself for LOCAL proposals, its parent for REMOTE ones.                 *)
ExecutionAuthorised ==
  [][\A g \in Guards :
       /\ \A p \in NewlyExecuted(g) : Backed(g, p)
       /\ \A p \in NewlyChildExecuted(g) : Backed(parent[g], p)]_vars

(* A child starts with exactly the configuration that was published when   *)
(* it was reserved, and the parent's present owners voted for that one.    *)
ChildStartsAsPublished ==
  [][\A g \in initialized' \ initialized :
       parent'[g] # Empty =>
         LET hash == ChildConfigHash(owners'[g], threshold'[g], numOwners'[g])
         IN  /\ reservedConfigHash[g] = hash
             /\ \E p \in Proposals :
                  p.childAccount = g /\ p.data = hash /\ Backed(parent[g], p)]_vars

(* Execution is final and initialization happens once: no later call, not  *)
(* even another setup or a re-deployment, clears an executed mark, hands a *)
(* guard to another parent or moves a nonce back.                          *)
ExecutedForever ==
  [][\A g \in initialized :
       /\ g \in initialized'
       /\ \A p \in Proposals : Executed(g, p) => Executed(g, p)'
       /\ childExecuted[g] \subseteq childExecuted'[g]
       /\ parent'[g] = parent[g]
       /\ nonce'[g] >= nonce[g] /\ parentNonce'[g] >= parentNonce[g]
       /\ configNonce'[g] >= configNonce[g]]_vars

(* A guard loses funds, or changes its delegate, owners or threshold, only *)
(* in the step that marks a proposal executed on it; a REMOTE execution    *)
(* moves the child's funds to its parent and nowhere else.                 *)
EffectsOnlyByExecution ==
  [][\A g \in initialized :
       /\ (\/ balance'[g] < balance[g]
           \/ delegate'[g] # delegate[g]
           \/ owners'[g] # owners[g]
           \/ threshold'[g] # threshold[g])
          => NewlyExecuted(g) # {} \/ NewlyChildExecuted(g) # {}
       /\ NewlyChildExecuted(g) # {} =>
            /\ <<delegate', owners', threshold'>> = <<delegate, owners, threshold>>
            /\ balance'[g] + balance'[parent[g]] = balance[g] + balance[parent[g]]]_vars

-----------------------------------------------------------------------------
(* The policy the contract implements: a vote is a nullifier, an approval  *)
(* count stands for the set of them, a configuration nonce is an epoch and *)
(* a proposal is done on the guard where it is marked executed.            *)

HomeOf(p) == p.guardAddress

EpochOf(p) == p.configNonce

DoneOn(g) == {p \in Proposals : Executed(g, p)} \cup childExecuted[g]

Policy == INSTANCE MultisigPolicy WITH
  Vaults <- Guards, members <- owners, quorum <- threshold,
  epoch <- configNonce, endorsed <- nullifiers,
  done <- [g \in Guards |-> DoneOn(g)], funds <- balance

(* Counting approvals in one map, nullifying voters in another and         *)
(* comparing nonces amounts to the policy: every behaviour of the contract *)
(* is a behaviour of MultisigPolicy.                                       *)
ImplementsPolicy == Policy!Spec

=============================================================================
