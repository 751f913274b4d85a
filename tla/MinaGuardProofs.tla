-------------------------- MODULE MinaGuardProofs --------------------------
(* Proofs about MinaGuard for every set of guards, keys and proposals.     *)
EXTENDS MinaGuard, FiniteSetTheorems, TLAPS

-----------------------------------------------------------------------------
(* Facts about the inputs                                                  *)

(* Every proposal the owners may sign has the fields of its record type.   *)
LEMMA ProposalFields ==
  ASSUME NEW p \in Proposals
  PROVE  /\ p.nonce \in Nat /\ p.configNonce \in Nat /\ p.expirySlot \in Nat
         /\ p.guardAddress \in Guards
         /\ p.childAccount \in Guards \cup {Empty}
         /\ p.data \in Field
         /\ p.data.num \in Nat /\ p.data.owners \subseteq Keys
         /\ p.receivers[1].address \in Addresses
         /\ p.receivers[2].address \in Addresses
         /\ p.receivers[1].amount \in Nat
         /\ p.receivers[2].amount \in Nat
<1>1. p \in TransactionProposal
  BY InputsAssumption
<1>2. p.receivers \in [1..2 -> Receiver] /\ 1 \in 1..2 /\ 2 \in 1..2
  BY <1>1 DEF TransactionProposal
<1>3. p.receivers[1] \in Receiver /\ p.receivers[2] \in Receiver
  BY <1>2
<1>4. p.data \in Field
  BY <1>1 DEF TransactionProposal
<1>5. p.data.num \in Nat /\ p.data.owners \subseteq Keys
  BY <1>4 DEF Field
<1> QED
  BY <1>1, <1>3, <1>4, <1>5 DEF TransactionProposal, Receiver

(* A configuration a deployer may choose has the fields of SetupInput, and *)
(* its hash is a field element.                                            *)
LEMMA ConfigFields ==
  ASSUME NEW cfg \in SetupConfigs
  PROVE  /\ cfg.owners \subseteq Keys
         /\ cfg.threshold \in Nat /\ cfg.numOwners \in Nat
         /\ ChildConfigHash(cfg.owners, cfg.threshold, cfg.numOwners) \in Field
<1>1. cfg \in SetupInput
  BY InputsAssumption
<1> QED
  BY <1>1 DEF SetupInput, ChildConfigHash, Field

(* The cleared reservation is a field element.                             *)
LEMMA NumIsField == Num(0) \in Field
  BY DEF Num, Field

-----------------------------------------------------------------------------
(* Type correctness                                                        *)

(* Every account starts with the zero state of a new zkApp, which is well  *)
(* typed.                                                                  *)
LEMMA InitTypeOK == Init => TypeOK
  BY KeysAssumption, LimitsAssumption, NumIsField DEF Init, TypeOK

(* The common part of setup and executeSetupChild writes well-typed state. *)
LEMMA InitializeStateTypes ==
  ASSUME TypeOK, NEW g \in Guards, NEW cfg \in SetupConfigs,
         NEW h \in Guards \cup {Empty}, InitializeState(g, cfg, h)
  PROVE  /\ initialized' \in SUBSET Guards
         /\ owners' \in [Guards -> SUBSET Keys]
         /\ threshold' \in [Guards -> Nat]
         /\ numOwners' \in [Guards -> Nat]
         /\ nonce' \in [Guards -> Nat]
         /\ configNonce' \in [Guards -> Nat]
         /\ approvals' \in [Guards -> [Proposals -> Nat]]
         /\ nullifiers' \in [Guards -> [Proposals -> SUBSET Keys]]
         /\ parent' \in [Guards -> Guards \cup {Empty}]
         /\ parentNonce' \in [Guards -> Nat]
         /\ childExecuted' \in [Guards -> SUBSET Proposals]
         /\ childMultiSigEnabled' \in SUBSET Guards
         /\ balance' \in [Guards -> Nat]
         /\ delegate' \in [Guards -> Keys]
         /\ slot' \in 0..MaxSlot
  BY ConfigFields DEF TypeOK, InitializeState

(* Casting a vote keeps the two vote maps well typed.                      *)
LEMMA CastVoteTypes ==
  ASSUME TypeOK, NEW g \in Guards, NEW p \in Proposals, NEW k \in Keys,
         NEW n \in Nat, CastVote(g, p, k, n)
  PROVE  TypeOK'
<1>1. approvals' \in [Guards -> [Proposals -> Nat]]
  BY DEF TypeOK, CastVote
<1>2. nullifiers' \in [Guards -> [Proposals -> SUBSET Keys]]
  BY DEF TypeOK, CastVote
<1> QED
  BY <1>1, <1>2 DEF TypeOK, CastVote, accountVars, governanceVars, familyVars

(* What every LOCAL execution writes is well typed.                        *)
LEMMA ExecuteLocalTypes ==
  ASSUME TypeOK, NEW g \in Guards, NEW p \in Proposals, ExecuteLocal(g, p)
  PROVE  /\ permissions' = permissions /\ initialized' = initialized
         /\ nullifiers' = nullifiers /\ slot' = slot
         /\ UNCHANGED familyVars
         /\ nonce' \in [Guards -> Nat]
         /\ approvals' \in [Guards -> [Proposals -> Nat]]
<1>1. nonce' \in [Guards -> Nat]
  BY DEF TypeOK, ExecuteLocal, AssertAndIncrementLocalNonce
<1>2. approvals' \in [Guards -> [Proposals -> Nat]]
  BY LimitsAssumption DEF TypeOK, ExecuteLocal, MarkExecuted
<1> QED
  BY <1>1, <1>2 DEF ExecuteLocal

(* A transfer never drives a balance below zero.                           *)
LEMMA ExecuteTransfersTypes ==
  ASSUME TypeOK, NEW g \in Guards, NEW p \in Proposals, ExecuteTransfers(g, p)
  PROVE  balance' \in [Guards -> Nat]
<1>1. PaidOut(p) \in Nat
  BY ProposalFields DEF PaidOut, SlotAmount
<1>2. \A h \in Guards : CreditTo(h, p) \in Nat
  BY ProposalFields DEF CreditTo
<1>3. \A h \in Guards :
        balance[h] + CreditTo(h, p) - (IF h = g THEN PaidOut(p) ELSE 0) \in Nat
  BY <1>1, <1>2 DEF TypeOK, ExecuteTransfers, HasFunds
<1> QED
  BY <1>3 DEF ExecuteTransfers

(* What every REMOTE execution writes on the child is well typed.          *)
LEMMA ExecuteRemoteTypes ==
  ASSUME TypeOK, NEW g \in Guards, NEW p \in Proposals, ExecuteRemote(g, p)
  PROVE  /\ parent[g] \in Guards
         /\ UNCHANGED <<permissions, delegate, initialized, owners, threshold,
                        numOwners, nonce, voteVars, parent,
                        reservedConfigHash, slot>>
         /\ parentNonce' \in [Guards -> Nat]
         /\ childExecuted' \in [Guards -> SUBSET Proposals]
<1>1. parentNonce' \in [Guards -> Nat]
  BY DEF TypeOK, ExecuteRemote, AssertAndIncrementParentNonce
<1>2. childExecuted' \in [Guards -> SUBSET Proposals]
  BY DEF TypeOK, ExecuteRemote, MarkChildExecuted
<1>3. parent[g] \in Guards
  BY DEF TypeOK, ExecuteRemote
<1> QED
  BY <1>1, <1>2, <1>3 DEF ExecuteRemote

(* Funds sent to the parent leave both balances natural numbers.           *)
LEMMA SendToParentTypes ==
  ASSUME TypeOK, NEW g \in Guards, NEW n \in Nat, parent[g] \in Guards,
         SendToParent(g, n)
  PROVE  balance' \in [Guards -> Nat]
  BY DEF TypeOK, SendToParent, HasFunds

(* Every step keeps the state well typed.                                  *)
LEMMA NextTypeOK == TypeOK /\ [Next]_vars => TypeOK'
<1> SUFFICES ASSUME TypeOK, [Next]_vars PROVE TypeOK'
  OBVIOUS
<1> USE DEF accountVars, governanceVars, voteVars, familyVars
<1>1. CASE UNCHANGED vars
  BY <1>1 DEF vars, TypeOK
<1>2. CASE AdvanceSlot
  BY <1>2, LimitsAssumption DEF AdvanceSlot, TypeOK
<1>3. ASSUME NEW g \in Guards, Deploy(g) PROVE TypeOK'
  BY <1>3 DEF Deploy, TypeOK
<1>4. ASSUME NEW g \in Guards, Deposit(g) PROVE TypeOK'
  BY <1>4 DEF Deposit, TypeOK
<1>5. ASSUME NEW g \in Guards, NEW cfg \in SetupConfigs, Setup(g, cfg)
      PROVE  TypeOK'
  <2>1. permissions' \in [Guards -> {"absent", "deploy", "locked"}]
    BY <1>5 DEF Setup, LockPermissions, TypeOK
  <2>2. InitializeState(g, cfg, Empty) /\ UNCHANGED reservedConfigHash
    BY <1>5 DEF Setup
  <2> QED
    BY <2>1, <2>2, InitializeStateTypes DEF TypeOK
<1>6. ASSUME NEW g \in Guards, NEW h \in Guards, NEW cfg \in SetupConfigs,
             ReserveForParent(g, h, cfg)
      PROVE  TypeOK'
  BY <1>6, ConfigFields DEF ReserveForParent, LockPermissions, TypeOK
<1>7. ASSUME NEW g \in Guards, NEW p \in Proposals, NEW cfg \in SetupConfigs,
             ExecuteSetupChild(g, p, cfg)
      PROVE  TypeOK'
  <2>1. InitializeState(g, cfg, p.guardAddress) /\ UNCHANGED permissions
    BY <1>7 DEF ExecuteSetupChild
  <2>2. reservedConfigHash' \in [Guards -> Field]
    BY <1>7, NumIsField DEF ExecuteSetupChild, TypeOK
  <2> QED
    BY <2>1, <2>2, InitializeStateTypes, ProposalFields DEF TypeOK
<1>8. ASSUME NEW g \in Guards, NEW p \in Proposals, NEW k \in Keys,
             Propose(g, p, k)
      PROVE  TypeOK'
  BY <1>8, CastVoteTypes DEF Propose, PROPOSED_MARKER
<1>9. ASSUME NEW g \in Guards, NEW p \in Proposals, NEW k \in Keys,
             ApproveProposal(g, p, k)
      PROVE  TypeOK'
  <2>1. approvals[g][p] + 1 \in Nat
    BY DEF TypeOK
  <2> QED
    BY <1>9, <2>1, CastVoteTypes DEF ApproveProposal
<1>10. ASSUME NEW g \in Guards, NEW p \in Proposals,
              ExecuteTransfer(g, p) \/ ExecuteAllocateToChildren(g, p)
       PROVE  TypeOK'
  <2>1. ExecuteLocal(g, p) /\ ExecuteTransfers(g, p)
        /\ UNCHANGED <<delegate, owners, threshold, numOwners, configNonce>>
    BY <1>10 DEF ExecuteTransfer, ExecuteAllocateToChildren
  <2> QED
    BY <2>1, ExecuteLocalTypes, ExecuteTransfersTypes DEF TypeOK
<1>11. ASSUME NEW g \in Guards, NEW p \in Proposals, ExecuteOwnerChange(g, p)
       PROVE  TypeOK'
  <2> DEFINE k == p.receivers[1].address
  <2>1. /\ ExecuteLocal(g, p) /\ k \in Keys
        /\ AddOwner(g, p, k) \/ RemoveOwner(g, p, k)
        /\ AssertOwnerCount(numOwners'[g], threshold[g])
        /\ configNonce' = [configNonce EXCEPT ![g] = BumpConfigNonce(g)]
        /\ UNCHANGED <<balance, delegate, threshold>>
    BY <1>11 DEF ExecuteOwnerChange
  <2> HIDE DEF k
  <2>2. owners' \in [Guards -> SUBSET Keys]
    <3>1. CASE AddOwner(g, p, k)
      BY <2>1, <3>1 DEF AddOwner, TypeOK
    <3>2. CASE RemoveOwner(g, p, k)
      BY <3>2 DEF RemoveOwner, TypeOK
    <3> QED
      BY <2>1, <3>1, <3>2
  <2>3. numOwners' \in [Guards -> Nat]
    <3>1. CASE AddOwner(g, p, k)
      BY <3>1 DEF AddOwner, TypeOK
    <3>2. CASE RemoveOwner(g, p, k)
      <4>1. numOwners[g] - 1 >= threshold[g] /\ threshold[g] \in Nat
        BY <2>1, <3>2 DEF RemoveOwner, AssertOwnerCount, TypeOK
      <4> QED
        BY <3>2, <4>1 DEF RemoveOwner, TypeOK
    <3> QED
      BY <2>1, <3>1, <3>2
  <2>4. configNonce' \in [Guards -> Nat]
    BY <2>1 DEF BumpConfigNonce, TypeOK
  <2> QED
    BY <2>1, <2>2, <2>3, <2>4, ExecuteLocalTypes DEF TypeOK
<1>12. ASSUME NEW g \in Guards, NEW p \in Proposals,
              ExecuteThresholdChange(g, p)
       PROVE  TypeOK'
  <2>1. ExecuteLocal(g, p)
        /\ UNCHANGED <<balance, delegate, owners, numOwners>>
    BY <1>12 DEF ExecuteThresholdChange
  <2>2. configNonce' \in [Guards -> Nat] /\ threshold' \in [Guards -> Nat]
    BY <1>12, ProposalFields DEF ExecuteThresholdChange, BumpConfigNonce, TypeOK
  <2> QED
    BY <2>1, <2>2, ExecuteLocalTypes DEF TypeOK
<1>13. ASSUME NEW g \in Guards, NEW p \in Proposals, ExecuteDelegate(g, p)
       PROVE  TypeOK'
  <2>1. ExecuteLocal(g, p)
        /\ UNCHANGED <<balance, owners, threshold, numOwners, configNonce>>
    BY <1>13 DEF ExecuteDelegate
  <2>2. delegate' \in [Guards -> Keys]
    BY <1>13, ProposalFields, KeysAssumption
    DEF ExecuteDelegate, TargetDelegate, Addresses, TypeOK
  <2> QED
    BY <2>1, <2>2, ExecuteLocalTypes DEF TypeOK
<1>14. ASSUME NEW g \in Guards, NEW p \in Proposals,
              ExecuteReclaimToParent(g, p)
       PROVE  TypeOK'
  <2>1. ExecuteRemote(g, p) /\ SendToParent(g, p.data.num)
        /\ UNCHANGED <<configNonce, childMultiSigEnabled>>
    BY <1>14 DEF ExecuteReclaimToParent
  <2> QED
    BY <2>1, ExecuteRemoteTypes, SendToParentTypes, ProposalFields DEF TypeOK
<1>15. ASSUME NEW g \in Guards, NEW p \in Proposals,
              NEW amount \in 0..balance[g], ExecuteDestroy(g, p, amount)
       PROVE  TypeOK'
  <2>1. ExecuteRemote(g, p) /\ SendToParent(g, amount) /\ amount \in Nat
    BY <1>15 DEF ExecuteDestroy, TypeOK
  <2>2. configNonce' \in [Guards -> Nat]
        /\ childMultiSigEnabled' \in SUBSET Guards
    BY <1>15 DEF ExecuteDestroy, BumpConfigNonce, TypeOK
  <2> QED
    BY <2>1, <2>2, ExecuteRemoteTypes, SendToParentTypes DEF TypeOK
<1>16. ASSUME NEW g \in Guards, NEW p \in Proposals,
              ExecuteEnableChildMultiSig(g, p)
       PROVE  TypeOK'
  <2>1. ExecuteRemote(g, p) /\ UNCHANGED balance
    BY <1>16 DEF ExecuteEnableChildMultiSig
  <2>2. childMultiSigEnabled' \in SUBSET Guards
    BY <1>16 DEF ExecuteEnableChildMultiSig, TypeOK
  <2>3. \/ UNCHANGED configNonce
        \/ configNonce' = [configNonce EXCEPT ![g] = BumpConfigNonce(g)]
    BY <1>16 DEF ExecuteEnableChildMultiSig
  <2>4. configNonce' \in [Guards -> Nat]
    <3>1. CASE UNCHANGED configNonce
      BY <3>1 DEF TypeOK
    <3>2. CASE configNonce' = [configNonce EXCEPT ![g] = BumpConfigNonce(g)]
      BY <3>2 DEF BumpConfigNonce, TypeOK
    <3> QED
      BY <2>3, <3>1, <3>2
  <2> QED
    BY <2>1, <2>2, <2>4, ExecuteRemoteTypes DEF TypeOK
<1> QED
  BY <1>1, <1>2, <1>3, <1>4, <1>5, <1>6, <1>7, <1>8, <1>9, <1>10, <1>11,
     <1>12, <1>13, <1>14, <1>15, <1>16 DEF Next

(* The contract's state is always well typed: in particular no execution   *)
(* overdraws a balance and no owner change takes numOwners below zero.     *)
THEOREM TypeCorrect == Spec => []TypeOK
<1>1. Init => TypeOK
  BY InitTypeOK
<1>2. TypeOK /\ [Next]_vars => TypeOK'
  BY NextTypeOK
<1> QED
  BY <1>1, <1>2, PTL DEF Spec

-----------------------------------------------------------------------------
(* The inductive invariant, one lemma per kind of step                     *)

(* The state SafetyInv is about, apart from its types: steps that leave it *)
(* alone (deployment, deposits, the clock) preserve the invariant.         *)
LEMMA FramePreserves ==
  ASSUME SafetyInv, TypeOK',
         UNCHANGED <<governanceVars, nonce, voteVars, parent, parentNonce,
                     childExecuted, childMultiSigEnabled>>
  PROVE  SafetyInv'
<1> USE DEF SafetyInv, governanceVars, voteVars
<1>1. GovernanceSound' /\ BlankBeforeSetup'
  BY DEF GovernanceSound, SoundAt, BlankBeforeSetup
<1>2. TwoLevelHierarchy' /\ RootsEnabled' /\ RecordedReceiversVetted'
  BY DEF TwoLevelHierarchy, RootsEnabled, RecordedReceiversVetted
<1>3. /\ ApprovalsCountVotes' /\ LiveVotesByOwners' /\ NoFutureProposals'
      /\ NoncesBehind' /\ NonceConsumedOnce' /\ FrozenChildHasNoLiveProposal'
  BY DEF ApprovalsCountVotes, LiveVotesByOwners, NoFutureProposals,
         NoncesBehind, NonceConsumedOnce, FrozenChildHasNoLiveProposal,
         Executed
<1> QED
  BY <1>1, <1>2, <1>3

(* Initialization finds blank maps and counters, so resetting them changes *)
(* nothing, and it leaves the parent as reserved.                          *)
LEMMA InitializePreserves ==
  ASSUME SafetyInv, TypeOK', NEW g \in Guards, NEW cfg \in SetupConfigs,
         NEW h \in Guards \cup {Empty}, parent[g] = h,
         InitializeState(g, cfg, h)
  PROVE  SafetyInv'
<1> USE DEF SafetyInv
<1>1. g \notin initialized /\ initialized' = initialized \cup {g}
  BY DEF InitializeState, AssertUninitialized
<1>2. UNCHANGED <<nonce, approvals, nullifiers, parent, parentNonce,
                  childExecuted, configNonce>>
  <2>1. /\ nonce[g] = 0 /\ parentNonce[g] = 0 /\ childExecuted[g] = {}
        /\ approvals[g] = [p \in Proposals |-> 0]
        /\ nullifiers[g] = [p \in Proposals |-> {}]
    BY <1>1 DEF BlankBeforeSetup
  <2>2. UNCHANGED <<nonce, parentNonce, childExecuted, parent, configNonce>>
    BY <2>1 DEF InitializeState, TypeOK
  <2>3. UNCHANGED approvals
    BY <2>1 DEF InitializeState, TypeOK
  <2>4. UNCHANGED nullifiers
    BY <2>1 DEF InitializeState, TypeOK
  <2> QED
    BY <2>2, <2>3, <2>4
<1>3. \A x \in Guards \ {g} :
        /\ owners'[x] = owners[x] /\ threshold'[x] = threshold[x]
        /\ numOwners'[x] = numOwners[x]
  BY DEF InitializeState, TypeOK
<1>4. GovernanceSound'
  <2>1. SoundAt(g)'
    BY ConfigFields, LimitsAssumption
    DEF InitializeState, AssertValidInitialGovernance,
        AssertCoherentSetupOwners, SoundAt, TypeOK
  <2>2. \A x \in initialized : SoundAt(x)'
    BY <1>1, <1>3 DEF GovernanceSound, SoundAt, TypeOK
  <2> QED
    BY <1>1, <2>1, <2>2 DEF GovernanceSound
<1>5. ApprovalsCountVotes' /\ NoFutureProposals' /\ NoncesBehind'
      /\ NonceConsumedOnce' /\ RecordedReceiversVetted'
  BY <1>2 DEF ApprovalsCountVotes, NoFutureProposals, NoncesBehind,
              NonceConsumedOnce, RecordedReceiversVetted, Executed
<1>6. LiveVotesByOwners'
  <2>1. \A p \in Proposals : nullifiers[g][p] = {}
    BY <1>1 DEF BlankBeforeSetup
  <2> QED
    BY <1>1, <1>2, <1>3, <2>1 DEF LiveVotesByOwners, Executed, TypeOK
<1>7. FrozenChildHasNoLiveProposal' /\ RootsEnabled'
  <2>1. childMultiSigEnabled' = childMultiSigEnabled \cup {g}
    BY DEF InitializeState
  <2> QED
    BY <1>1, <1>2, <2>1 DEF FrozenChildHasNoLiveProposal, RootsEnabled, Executed
<1>8. TwoLevelHierarchy'
  BY <1>1, <1>2 DEF TwoLevelHierarchy
<1>9. BlankBeforeSetup'
  BY <1>1, <1>2, <1>3 DEF BlankBeforeSetup
<1> QED
  BY <1>4, <1>5, <1>6, <1>7, <1>8, <1>9

(* Reserving attaches an account that is nobody's parent, because it is    *)
(* not initialized, to an initialized root.                                *)
LEMMA ReservePreserves ==
  ASSUME SafetyInv, TypeOK', NEW g \in Guards, NEW h \in Guards,
         NEW cfg \in SetupConfigs, ReserveForParent(g, h, cfg)
  PROVE  SafetyInv'
<1> USE DEF SafetyInv
<1>1. /\ g \notin initialized /\ h \in initialized /\ h # g
      /\ parent[h] = Empty
      /\ parent' = [parent EXCEPT ![g] = h]
      /\ UNCHANGED <<governanceVars, nonce, voteVars, parentNonce,
                     childExecuted, childMultiSigEnabled>>
  BY DEF ReserveForParent, AssertUninitialized, IsRootGuard
<1>2. \A x \in Guards \ {g} : parent'[x] = parent[x]
  BY <1>1 DEF TypeOK
<1>3. TwoLevelHierarchy'
  <2> SUFFICES ASSUME NEW x \in Guards, parent'[x] # Empty
               PROVE  /\ parent'[x] \in initialized \ {x}
                      /\ parent'[parent'[x]] = Empty
    BY <1>1 DEF TwoLevelHierarchy, governanceVars
  <2>1. CASE x = g
    BY <1>1, <1>2, <2>1 DEF TypeOK
  <2>2. CASE x # g
    <3>1. parent[x] \in initialized \ {x} /\ parent[parent[x]] = Empty
      BY <1>2, <2>2 DEF TwoLevelHierarchy
    <3>2. parent[x] \in Guards \ {g}
      BY <1>1, <3>1 DEF TypeOK
    <3> QED
      BY <1>2, <2>2, <3>1, <3>2
  <2> QED
    BY <2>1, <2>2
<1>4. RootsEnabled'
  BY <1>1, <1>2 DEF RootsEnabled, governanceVars, TypeOK
<1>5. GovernanceSound' /\ BlankBeforeSetup'
  BY <1>1 DEF GovernanceSound, SoundAt, BlankBeforeSetup, governanceVars,
              voteVars
<1>6. /\ ApprovalsCountVotes' /\ LiveVotesByOwners' /\ NoFutureProposals'
      /\ NoncesBehind' /\ NonceConsumedOnce' /\ FrozenChildHasNoLiveProposal'
      /\ RecordedReceiversVetted'
  BY <1>1 DEF ApprovalsCountVotes, LiveVotesByOwners, NoFutureProposals,
              RecordedReceiversVetted, NoncesBehind, NonceConsumedOnce, FrozenChildHasNoLiveProposal,
              Executed, governanceVars, voteVars
<1> QED
  BY <1>3, <1>4, <1>5, <1>6

(* Owners are few: the sets of keys the model counts are finite, and votes *)
(* that are all by owners number at most MAX_OWNERS.                       *)
LEMMA VotesAreFew ==
  ASSUME SafetyInv, NEW g \in initialized, NEW S \in SUBSET owners[g]
  PROVE  /\ IsFiniteSet(S)
         /\ Cardinality(S) \in Nat
         /\ Cardinality(S) <= MAX_OWNERS
<1>1. g \in Guards /\ owners[g] \in SUBSET Keys
  BY DEF SafetyInv, TypeOK
<1>2. IsFiniteSet(owners[g]) /\ IsFiniteSet(S)
  BY <1>1, KeysAssumption, FS_Subset
<1>3. Cardinality(S) <= Cardinality(owners[g])
  BY <1>2, FS_Subset
<1>4. Cardinality(owners[g]) = numOwners[g] /\ numOwners[g] <= MAX_OWNERS
  BY DEF SafetyInv, GovernanceSound, SoundAt
<1>5. Cardinality(S) \in Nat /\ numOwners[g] \in Nat
  BY <1>1, <1>2, FS_CardinalityType DEF SafetyInv, TypeOK
<1> QED
  BY <1>2, <1>3, <1>4, <1>5, LimitsAssumption

(* A vote, the proposer's own or a later one, raises the count by the one  *)
(* nullifier it sets, and the count stays below EXECUTED_MARKER.           *)
LEMMA VoteCounts ==
  ASSUME SafetyInv, TypeOK', NEW g \in Guards, NEW p \in Proposals,
         NEW k \in Keys, NEW n \in Nat, AssertVotable(g, p, k),
         \/ /\ approvals[g][p] = 0 /\ n = PROPOSED_MARKER + 1
            /\ AssertReceiverSlots(p)
         \/ AssertPending(approvals[g][p]) /\ n = approvals[g][p] + 1,
         CastVote(g, p, k, n)
  PROVE  /\ g \in initialized /\ g \in childMultiSigEnabled
         /\ p.configNonce = configNonce[g] /\ p.guardAddress = g
         /\ UNCHANGED <<governanceVars, nonce, parent, parentNonce,
                        childExecuted, childMultiSigEnabled>>
         /\ \A x \in Guards, q \in Proposals : x # g \/ q # p =>
              /\ approvals'[x][q] = approvals[x][q]
              /\ nullifiers'[x][q] = nullifiers[x][q]
         /\ \A x \in Guards \ {g} :
              approvals'[x] = approvals[x] /\ nullifiers'[x] = nullifiers[x]
         /\ nullifiers'[g][p] = nullifiers[g][p] \cup {k}
         /\ k \in owners[g]
         /\ nullifiers'[g][p] \in SUBSET owners[g]
         /\ approvals'[g][p] =
              PROPOSED_MARKER + Cardinality(nullifiers'[g][p])
         /\ approvals'[g][p] # 0
         /\ \A x \in Guards, q \in Proposals : Executed(x, q)' <=> Executed(x, q)
         /\ ~Executed(g, p)'
<1> USE DEF SafetyInv
<1>1. /\ g \in initialized /\ k \in owners[g] /\ k \notin nullifiers[g][p]
      /\ p.configNonce = configNonce[g] /\ p.guardAddress = g
      /\ g \in childMultiSigEnabled
  BY DEF AssertVotable, AssertNotVoted, AssertProposalConfigNetworkAndGuard,
         AssertChildMultiSigEnabledIfChild, RootsEnabled
<1>2. ~Executed(g, p)
  BY LimitsAssumption
  DEF Executed, AssertPending, PROPOSED_MARKER
<1>3. UNCHANGED <<governanceVars, nonce, parent, parentNonce, childExecuted,
                  childMultiSigEnabled>>
  BY DEF CastVote, familyVars
<1>4. /\ \A x \in Guards, q \in Proposals : x # g \/ q # p =>
           approvals'[x][q] = approvals[x][q] /\ nullifiers'[x][q] = nullifiers[x][q]
      /\ approvals'[g][p] = n
      /\ nullifiers'[g][p] = nullifiers[g][p] \cup {k}
      /\ \A x \in Guards \ {g} :
           approvals'[x] = approvals[x] /\ nullifiers'[x] = nullifiers[x]
  BY DEF CastVote, TypeOK
<1>5. nullifiers'[g][p] \in SUBSET owners[g]
  BY <1>1, <1>2, <1>4 DEF LiveVotesByOwners
<1>6. n = PROPOSED_MARKER + Cardinality(nullifiers'[g][p])
  <2>1. nullifiers[g][p] \in SUBSET owners[g]
    BY <1>4, <1>5
  <2>2. IsFiniteSet(nullifiers[g][p])
    BY <1>1, <2>1, VotesAreFew
  <2>3. Cardinality(nullifiers'[g][p]) = Cardinality(nullifiers[g][p]) + 1
    <3>1. Cardinality(nullifiers[g][p] \cup {k}) =
            Cardinality(nullifiers[g][p]) + 1
      BY <1>1, <2>2, FS_AddElement
    <3> QED
      BY <1>4, <3>1
  <2>4. Cardinality(nullifiers[g][p]) \in Nat
    BY <2>2, FS_CardinalityType
  <2>5. CASE approvals[g][p] = 0 /\ n = PROPOSED_MARKER + 1
    <3>1. nullifiers[g][p] = {}
      BY <2>5 DEF ApprovalsCountVotes
    <3> QED
      BY <2>3, <2>5, <3>1, FS_EmptySet DEF PROPOSED_MARKER
  <2>6. CASE AssertPending(approvals[g][p]) /\ n = approvals[g][p] + 1
    <3>1. approvals[g][p] = PROPOSED_MARKER + Cardinality(nullifiers[g][p])
      BY <1>2, <2>6 DEF ApprovalsCountVotes, AssertPending, PROPOSED_MARKER
    <3> QED
      BY <2>3, <2>4, <2>6, <3>1 DEF PROPOSED_MARKER
  <2> QED
    BY <2>5, <2>6
<1>7. n # EXECUTED_MARKER /\ n # 0
  BY <1>1, <1>5, <1>6, VotesAreFew, LimitsAssumption DEF PROPOSED_MARKER
<1>8. ~Executed(g, p)' /\ \A x \in Guards, q \in Proposals :
                             Executed(x, q)' <=> Executed(x, q)
  BY <1>2, <1>4, <1>7 DEF Executed
<1> QED
  BY <1>1, <1>3, <1>4, <1>5, <1>6, <1>7, <1>8

(* A vote preserves the invariant.                                         *)
LEMMA VotePreserves ==
  ASSUME SafetyInv, TypeOK', NEW g \in Guards, NEW p \in Proposals,
         NEW k \in Keys, NEW n \in Nat, AssertVotable(g, p, k),
         \/ /\ approvals[g][p] = 0 /\ n = PROPOSED_MARKER + 1
            /\ AssertReceiverSlots(p)
         \/ AssertPending(approvals[g][p]) /\ n = approvals[g][p] + 1,
         CastVote(g, p, k, n)
  PROVE  SafetyInv'
<1>1. /\ g \in initialized /\ g \in childMultiSigEnabled
      /\ p.configNonce = configNonce[g] /\ p.guardAddress = g
  BY VoteCounts
<1>3. UNCHANGED <<governanceVars, nonce, parent, parentNonce, childExecuted,
                  childMultiSigEnabled>>
  BY VoteCounts
<1>4. /\ \A x \in Guards, q \in Proposals : x # g \/ q # p =>
           approvals'[x][q] = approvals[x][q] /\ nullifiers'[x][q] = nullifiers[x][q]
      /\ \A x \in Guards \ {g} :
           approvals'[x] = approvals[x] /\ nullifiers'[x] = nullifiers[x]
  <2>1. \A x \in Guards, q \in Proposals : x # g \/ q # p =>
          /\ approvals'[x][q] = approvals[x][q]
          /\ nullifiers'[x][q] = nullifiers[x][q]
    BY DEF CastVote, SafetyInv, TypeOK
  <2>2. \A x \in Guards \ {g} :
          approvals'[x] = approvals[x] /\ nullifiers'[x] = nullifiers[x]
    BY VoteCounts
  <2> QED
    BY <2>1, <2>2
<1>5. nullifiers'[g][p] \in SUBSET owners[g]
  BY VoteCounts
<1>6. approvals'[g][p] = PROPOSED_MARKER + Cardinality(nullifiers'[g][p])
      /\ approvals'[g][p] # 0
  BY VoteCounts
<1>8. ~Executed(g, p)' /\ \A x \in Guards, q \in Proposals :
                             Executed(x, q)' <=> Executed(x, q)
  BY VoteCounts
<1> USE DEF SafetyInv
<1>9. GovernanceSound' /\ TwoLevelHierarchy' /\ RootsEnabled'
  BY <1>3 DEF GovernanceSound, SoundAt, TwoLevelHierarchy, RootsEnabled,
              governanceVars
<1>10. ApprovalsCountVotes'
  <2> SUFFICES ASSUME NEW x \in Guards, NEW q \in Proposals
               PROVE  IF approvals'[x][q] = 0 THEN nullifiers'[x][q] = {}
                      ELSE \/ Executed(x, q)'
                           \/ approvals'[x][q] =
                                PROPOSED_MARKER + Cardinality(nullifiers'[x][q])
    BY DEF ApprovalsCountVotes
  <2>1. CASE x = g /\ q = p
    BY <1>6, <2>1
  <2>2. CASE x # g \/ q # p
    BY <1>4, <1>8, <2>2 DEF ApprovalsCountVotes
  <2> QED
    BY <2>1, <2>2
<1>11. LiveVotesByOwners'
  <2> SUFFICES ASSUME NEW x \in initialized, NEW q \in Proposals,
                      q.configNonce = configNonce[x], ~Executed(x, q)
               PROVE  nullifiers'[x][q] \subseteq owners[x]
    BY <1>3, <1>8 DEF LiveVotesByOwners, governanceVars, TypeOK
  <2>1. CASE x = g /\ q = p
    BY <1>5, <2>1
  <2>2. CASE x # g \/ q # p
    BY <1>4, <2>2 DEF LiveVotesByOwners, TypeOK
  <2> QED
    BY <2>1, <2>2
<1>12. NoFutureProposals'
  <2> SUFFICES ASSUME NEW x \in Guards, NEW q \in Proposals,
                      approvals'[x][q] # 0
               PROVE  q.guardAddress = x /\ q.configNonce <= configNonce[x]
    BY <1>3 DEF NoFutureProposals, governanceVars
  <2>1. CASE x = g /\ q = p
    BY <1>1, <2>1, ProposalFields DEF TypeOK
  <2>2. CASE x # g \/ q # p
    BY <1>4, <2>2 DEF NoFutureProposals
  <2> QED
    BY <2>1, <2>2
<1>13. NoncesBehind' /\ NonceConsumedOnce'
  BY <1>3, <1>8 DEF NoncesBehind, NonceConsumedOnce
<1>14. FrozenChildHasNoLiveProposal'
  <2>1. \A x \in initialized \ childMultiSigEnabled : x \in Guards \ {g}
    BY <1>1 DEF TypeOK
  <2> QED
    BY <1>3, <1>4, <1>8, <2>1 DEF FrozenChildHasNoLiveProposal, governanceVars
<1>15. BlankBeforeSetup'
  BY <1>1, <1>3, <1>4 DEF BlankBeforeSetup, governanceVars
<1>16. RecordedReceiversVetted'
  <2>1. AssertReceiverSlots(p)
    BY DEF RecordedReceiversVetted, AssertPending, PROPOSED_MARKER
  <2> QED
    BY <1>4, <2>1 DEF RecordedReceiversVetted
<1> QED
  BY <1>9, <1>10, <1>11, <1>12, <1>13, <1>14, <1>15, <1>16

(* A step after which every guard's configuration is at least as recent    *)
(* and g's, if it moved, is one that no recorded proposal belongs to.      *)
LEMMA NoRecordedProposalIsNewer ==
  ASSUME SafetyInv, NEW g \in Guards, NEW q \in Proposals,
         q.configNonce = configNonce[g] + 1
  PROVE  approvals[g][q] = 0 /\ nullifiers[g][q] = {}
<1>1. approvals[g][q] = 0
  BY DEF SafetyInv, NoFutureProposals, TypeOK
<1> QED
  BY <1>1 DEF SafetyInv, ApprovalsCountVotes

(* Executing on the guard itself: the proposal's leaf is marked, its nonce *)
(* consumed, and the governance either stays or starts a new               *)
(* configuration that is sound.                                            *)
LEMMA ExecuteLocalPreserves ==
  ASSUME SafetyInv, TypeOK', NEW g \in Guards, NEW p \in Proposals,
         ExecuteLocal(g, p),
         \A x \in Guards \ {g} :
           /\ owners'[x] = owners[x] /\ threshold'[x] = threshold[x]
           /\ numOwners'[x] = numOwners[x] /\ configNonce'[x] = configNonce[x],
         \/ /\ owners'[g] = owners[g] /\ threshold'[g] = threshold[g]
            /\ numOwners'[g] = numOwners[g] /\ configNonce'[g] = configNonce[g]
         \/ configNonce'[g] = configNonce[g] + 1 /\ SoundAt(g)'
  PROVE  SafetyInv'
<1> USE DEF SafetyInv
<1>1. /\ g \in initialized /\ p.configNonce = configNonce[g]
      /\ p.guardAddress = g /\ p.nonce = nonce[g] + 1
      /\ ~Executed(g, p)
  BY DEF ExecuteLocal, AssertExecutable, AssertProposalConfigNetworkAndGuard,
         AssertAndIncrementLocalNonce, AssertPending, Executed
<1>2. /\ \A x \in Guards, q \in Proposals : x # g \/ q # p =>
           approvals'[x][q] = approvals[x][q]
      /\ approvals'[g][p] = EXECUTED_MARKER
      /\ \A x \in Guards \ {g} : approvals'[x] = approvals[x]
  BY DEF ExecuteLocal, MarkExecuted, TypeOK
<1>3. /\ nonce'[g] = p.nonce
      /\ \A x \in Guards \ {g} : nonce'[x] = nonce[x]
  BY <1>1 DEF ExecuteLocal, AssertAndIncrementLocalNonce, TypeOK
<1>4. UNCHANGED <<initialized, nullifiers, parent, parentNonce, childExecuted,
                  childMultiSigEnabled>>
  BY DEF ExecuteLocal, familyVars
<1>5. /\ Executed(g, p)'
      /\ \A x \in Guards, q \in Proposals : x # g \/ q # p =>
           (Executed(x, q)' <=> Executed(x, q))
  BY <1>2 DEF Executed
<1>6. GovernanceSound'
  <2> SUFFICES ASSUME NEW x \in initialized PROVE SoundAt(x)'
    BY <1>4 DEF GovernanceSound
  <2>1. x \in Guards /\ SoundAt(x)
    BY DEF GovernanceSound, TypeOK
  <2> QED
    BY <2>1 DEF SoundAt
<1>7. ApprovalsCountVotes'
  <2> SUFFICES ASSUME NEW x \in Guards, NEW q \in Proposals
               PROVE  IF approvals'[x][q] = 0 THEN nullifiers'[x][q] = {}
                      ELSE \/ Executed(x, q)'
                           \/ approvals'[x][q] =
                                PROPOSED_MARKER + Cardinality(nullifiers'[x][q])
    BY DEF ApprovalsCountVotes
  <2>1. CASE x = g /\ q = p
    BY <1>2, <1>5, <2>1, LimitsAssumption DEF PROPOSED_MARKER
  <2>2. CASE x # g \/ q # p
    BY <1>2, <1>4, <1>5, <2>2 DEF ApprovalsCountVotes
  <2> QED
    BY <2>1, <2>2
<1>8. LiveVotesByOwners'
  <2> SUFFICES ASSUME NEW x \in initialized, NEW q \in Proposals,
                      q.configNonce = configNonce'[x], ~Executed(x, q)'
               PROVE  nullifiers[x][q] \subseteq owners'[x]
    BY <1>4 DEF LiveVotesByOwners
  <2>1. x \in Guards /\ ~Executed(x, q)
    BY <1>5 DEF TypeOK
  <2>2. CASE q.configNonce = configNonce[x] /\ owners'[x] = owners[x]
    BY <2>1, <2>2 DEF LiveVotesByOwners
  <2>3. CASE x = g /\ q.configNonce = configNonce[g] + 1
    BY <2>3, NoRecordedProposalIsNewer
  <2> QED
    BY <2>1, <2>2, <2>3
<1>9. NoFutureProposals'
  <2> SUFFICES ASSUME NEW x \in Guards, NEW q \in Proposals,
                      approvals'[x][q] # 0
               PROVE  q.guardAddress = x /\ q.configNonce <= configNonce'[x]
    BY DEF NoFutureProposals
  <2>1. configNonce[x] \in Nat /\ q.configNonce \in Nat
        /\ configNonce[x] <= configNonce'[x] /\ configNonce'[x] \in Nat
    <3>1. configNonce[x] \in Nat /\ q.configNonce \in Nat
          /\ configNonce'[x] \in Nat
      BY ProposalFields DEF TypeOK
    <3>2. configNonce'[x] = configNonce[x] \/ configNonce'[x] = configNonce[x] + 1
      OBVIOUS
    <3> QED
      BY <3>1, <3>2
  <2>2. CASE x = g /\ q = p
    BY <1>1, <2>1, <2>2
  <2>3. CASE x # g \/ q # p
    BY <1>2, <2>1, <2>3 DEF NoFutureProposals
  <2> QED
    BY <2>2, <2>3
<1>10. \A x \in Guards : nonce[x] <= nonce'[x]
  <2> SUFFICES ASSUME NEW x \in Guards PROVE nonce[x] <= nonce'[x]
    OBVIOUS
  <2>1. nonce[x] \in Nat
    BY DEF TypeOK
  <2>2. nonce'[x] = nonce[x] \/ nonce'[x] = nonce[x] + 1
    BY <1>1, <1>3
  <2> QED
    BY <2>1, <2>2
<1>11. NoncesBehind'
  <2>1. ASSUME NEW x \in Guards, NEW q \in Proposals, Executed(x, q)'
        PROVE  q.nonce <= nonce'[x]
    <3>1. CASE x = g /\ q = p
      BY <1>3, <3>1, ProposalFields
    <3>2. CASE x # g \/ q # p
      BY <1>5, <1>10, <2>1, <3>2, ProposalFields DEF NoncesBehind, TypeOK
    <3> QED
      BY <3>1, <3>2
  <2> QED
    BY <1>4, <2>1 DEF NoncesBehind
<1>12. NonceConsumedOnce'
  <2>1. ASSUME NEW q \in Proposals, Executed(g, q) PROVE q.nonce # p.nonce
    BY <1>1, <2>1, ProposalFields DEF NoncesBehind, TypeOK
  <2>2. ASSUME NEW x \in Guards, NEW q \in Proposals, NEW r \in Proposals,
               Executed(x, q)', Executed(x, r)', q # r
        PROVE  q.nonce # r.nonce
    BY <1>5, <2>1, <2>2 DEF NonceConsumedOnce
  <2> QED
    BY <1>4, <2>2 DEF NonceConsumedOnce
<1>13. FrozenChildHasNoLiveProposal'
  <2> SUFFICES ASSUME NEW x \in initialized \ childMultiSigEnabled,
                      NEW q \in Proposals, q.configNonce = configNonce'[x],
                      ~Executed(x, q)'
               PROVE  approvals'[x][q] = 0
    BY <1>4 DEF FrozenChildHasNoLiveProposal
  <2>1. x \in Guards /\ ~Executed(x, q) /\ approvals'[x][q] = approvals[x][q]
    BY <1>2, <1>5 DEF TypeOK
  <2>2. CASE q.configNonce = configNonce[x]
    BY <2>1, <2>2 DEF FrozenChildHasNoLiveProposal
  <2>3. CASE x = g /\ q.configNonce = configNonce[g] + 1
    BY <2>1, <2>3, NoRecordedProposalIsNewer
  <2> QED
    BY <2>1, <2>2, <2>3
<1>14. TwoLevelHierarchy' /\ RootsEnabled'
  BY <1>4 DEF TwoLevelHierarchy, RootsEnabled
<1>15. BlankBeforeSetup'
  <2>1. \A x \in Guards \ initialized : x \in Guards \ {g}
    BY <1>1
  <2> QED
    BY <1>2, <1>3, <1>4, <2>1 DEF BlankBeforeSetup
<1>16. RecordedReceiversVetted'
  <2>1. approvals[g][p] # 0
    BY DEF ExecuteLocal, AssertExecutable, AssertPending, PROPOSED_MARKER
  <2> QED
    BY <1>2, <2>1 DEF RecordedReceiversVetted
<1> QED
  BY <1>6, <1>7, <1>8, <1>9, <1>11, <1>12, <1>13, <1>14, <1>15, <1>16

(* Executing a parent's decision on the child: the child's parent nonce is *)
(* consumed, and freezing it starts a new configuration.                   *)
LEMMA ExecuteRemotePreserves ==
  ASSUME SafetyInv, TypeOK', NEW g \in Guards, NEW p \in Proposals,
         ExecuteRemote(g, p),
         \/ /\ UNCHANGED configNonce
            /\ \/ UNCHANGED childMultiSigEnabled
               \/ childMultiSigEnabled' = childMultiSigEnabled \cup {g}
         \/ /\ configNonce' = [configNonce EXCEPT ![g] = BumpConfigNonce(g)]
            /\ childMultiSigEnabled' = childMultiSigEnabled \ {g}
  PROVE  SafetyInv'
<1> USE DEF SafetyInv
<1>1. /\ g \in initialized /\ parent[g] # Empty
      /\ p.nonce = parentNonce[g] + 1
  BY DEF ExecuteRemote, AssertAndIncrementParentNonce
<1>2. /\ parentNonce'[g] = p.nonce /\ childExecuted'[g] = childExecuted[g] \cup {p}
      /\ \A x \in Guards \ {g} : /\ parentNonce'[x] = parentNonce[x]
                                 /\ childExecuted'[x] = childExecuted[x]
  BY <1>1 DEF ExecuteRemote, AssertAndIncrementParentNonce, MarkChildExecuted,
              TypeOK
<1>3. UNCHANGED <<initialized, owners, threshold, numOwners, nonce, approvals,
                  nullifiers, parent>>
  BY DEF ExecuteRemote, voteVars
<1>4. /\ \A x \in Guards \ {g} : configNonce'[x] = configNonce[x]
      /\ \A x \in Guards \ {g} :
           x \in childMultiSigEnabled' <=> x \in childMultiSigEnabled
  <2>1. CASE UNCHANGED configNonce
    BY <2>1
  <2>2. CASE configNonce' = [configNonce EXCEPT ![g] = BumpConfigNonce(g)]
    BY <2>2 DEF TypeOK
  <2> QED
    BY <2>1, <2>2
<1>5. \/ /\ configNonce'[g] = configNonce[g]
         /\ g \in childMultiSigEnabled => g \in childMultiSigEnabled'
      \/ configNonce'[g] = configNonce[g] + 1
  <2>1. CASE /\ UNCHANGED configNonce
             /\ \/ UNCHANGED childMultiSigEnabled
                \/ childMultiSigEnabled' = childMultiSigEnabled \cup {g}
    BY <2>1
  <2>2. CASE configNonce' = [configNonce EXCEPT ![g] = BumpConfigNonce(g)]
    BY <2>2 DEF TypeOK, BumpConfigNonce
  <2> QED
    BY <2>1, <2>2
<1>6. GovernanceSound' /\ ApprovalsCountVotes' /\ TwoLevelHierarchy'
      /\ RecordedReceiversVetted'
  BY <1>3 DEF GovernanceSound, SoundAt, ApprovalsCountVotes,
              TwoLevelHierarchy, RecordedReceiversVetted, Executed
<1>7. \A x \in Guards, q \in Proposals : Executed(x, q)' <=> Executed(x, q)
  BY <1>3 DEF Executed
<1>8. LiveVotesByOwners'
  <2> SUFFICES ASSUME NEW x \in initialized, NEW q \in Proposals,
                      q.configNonce = configNonce'[x], ~Executed(x, q)
               PROVE  nullifiers[x][q] \subseteq owners[x]
    BY <1>3, <1>7 DEF LiveVotesByOwners, TypeOK
  <2>1. CASE q.configNonce = configNonce[x]
    BY <2>1 DEF LiveVotesByOwners
  <2>2. CASE x = g /\ q.configNonce = configNonce[g] + 1
    BY <2>2, NoRecordedProposalIsNewer
  <2> QED
    BY <1>4, <1>5, <2>1, <2>2 DEF TypeOK
<1>9. NoFutureProposals'
  <2> SUFFICES ASSUME NEW x \in Guards, NEW q \in Proposals,
                      approvals[x][q] # 0
               PROVE  q.guardAddress = x /\ q.configNonce <= configNonce'[x]
    BY <1>3 DEF NoFutureProposals
  <2>1. q.guardAddress = x /\ q.configNonce <= configNonce[x]
    BY DEF NoFutureProposals
  <2>2. /\ q.configNonce \in Nat /\ configNonce[x] \in Nat
        /\ configNonce'[x] \in {configNonce[x], configNonce[x] + 1}
    BY <1>4, <1>5, ProposalFields DEF TypeOK
  <2> QED
    BY <2>1, <2>2
<1>10. \A q \in childExecuted[g] : q \in Proposals /\ q.nonce < p.nonce
  BY <1>1, ProposalFields DEF NoncesBehind, TypeOK
<1>11. NoncesBehind'
  <2>1. ASSUME NEW x \in Guards, NEW q \in childExecuted'[x]
        PROVE  q.nonce <= parentNonce'[x]
    <3>1. CASE x = g
      BY <1>2, <1>10, <3>1, ProposalFields
    <3>2. CASE x # g
      BY <1>2, <3>2 DEF NoncesBehind
    <3> QED
      BY <3>1, <3>2
  <2> QED
    BY <1>3, <1>7, <2>1 DEF NoncesBehind
<1>12. NonceConsumedOnce'
  <2>1. ASSUME NEW x \in Guards, NEW q \in childExecuted'[x],
               NEW r \in childExecuted'[x], q # r
        PROVE  q.nonce # r.nonce
    <3>1. CASE x = g
      BY <1>2, <1>10, <2>1, <3>1, ProposalFields DEF NonceConsumedOnce
    <3>2. CASE x # g
      BY <1>2, <2>1, <3>2 DEF NonceConsumedOnce
    <3> QED
      BY <3>1, <3>2
  <2> QED
    BY <1>7, <2>1 DEF NonceConsumedOnce
<1>13. FrozenChildHasNoLiveProposal'
  <2> SUFFICES ASSUME NEW x \in initialized, x \notin childMultiSigEnabled',
                      NEW q \in Proposals, q.configNonce = configNonce'[x],
                      ~Executed(x, q)
               PROVE  approvals[x][q] = 0
    BY <1>3, <1>7 DEF FrozenChildHasNoLiveProposal, TypeOK
  <2>1. x \in Guards
    BY DEF TypeOK
  <2>2. CASE q.configNonce = configNonce[x] /\ x \notin childMultiSigEnabled
    BY <2>2 DEF FrozenChildHasNoLiveProposal
  <2>3. CASE x = g /\ q.configNonce = configNonce[g] + 1
    BY <2>3, NoRecordedProposalIsNewer
  <2> QED
    BY <1>4, <1>5, <2>1, <2>2, <2>3
<1>14. RootsEnabled'
  BY <1>1, <1>3, <1>4 DEF RootsEnabled, TypeOK
<1>15. BlankBeforeSetup'
  BY <1>1, <1>2, <1>3, <1>4 DEF BlankBeforeSetup
<1> QED
  BY <1>6, <1>8, <1>9, <1>11, <1>12, <1>13, <1>14, <1>15

(* An owner change leaves a guard that is still sound: the added key is a  *)
(* point and a new keyholder, and a removal never goes below the threshold.*)
LEMMA OwnerChangeSound ==
  ASSUME SafetyInv, TypeOK', NEW g \in Guards, NEW p \in Proposals,
         ExecuteOwnerChange(g, p)
  PROVE  SoundAt(g)'
<1> DEFINE k == p.receivers[1].address
<1> USE DEF SafetyInv
<1>1. /\ g \in initialized /\ approvals[g][p] # 0
      /\ k \in Keys
      /\ AddOwner(g, p, k) \/ RemoveOwner(g, p, k)
      /\ threshold[g] <= numOwners'[g] /\ numOwners'[g] <= MAX_OWNERS
      /\ threshold' = threshold
  BY DEF ExecuteOwnerChange, ExecuteLocal, AssertExecutable, AssertPending,
         PROPOSED_MARKER, AssertOwnerCount
<1>2. k \in OnCurve
  <2>1. AssertReceiverSlots(p) /\ 1 \in 1..2
    BY <1>1 DEF RecordedReceiversVetted
  <2>2. k # Empty
    BY <1>1, KeysAssumption
  <2> QED
    BY <2>1, <2>2 DEF AssertReceiverSlots
<1> HIDE DEF k
<1>3. SoundAt(g) /\ owners[g] \in SUBSET Keys
  BY <1>1 DEF GovernanceSound, TypeOK
<1>4. IsFiniteSet(owners[g])
  BY <1>3, KeysAssumption, FS_Subset
<1>5. threshold'[g] \in 1..numOwners'[g]
  BY <1>1, <1>3 DEF SoundAt, TypeOK
<1>6. CASE AddOwner(g, p, k)
  <2>1. /\ owners'[g] = owners[g] \cup {k} /\ numOwners'[g] = numOwners[g] + 1
        /\ \A j \in owners[g] : xOf[j] # xOf[k]
    BY <1>6 DEF AddOwner, AssertNotOwner, TypeOK
  <2>2. k \notin owners[g]
    BY <2>1
  <2>3. Cardinality(owners[g] \cup {k}) = Cardinality(owners[g]) + 1
    BY <1>4, <2>2, FS_AddElement
  <2>4. XDistinct(owners[g] \cup {k})
    BY <1>3, <2>1 DEF XDistinct, SoundAt
  <2> QED
    BY <1>1, <1>2, <1>3, <1>5, <2>1, <2>3, <2>4 DEF SoundAt
<1>7. CASE RemoveOwner(g, p, k)
  <2>1. /\ owners'[g] = owners[g] \ {k} /\ numOwners'[g] = numOwners[g] - 1
        /\ k \in owners[g]
    BY <1>7 DEF RemoveOwner, TypeOK
  <2>2. Cardinality(owners[g] \ {k}) = Cardinality(owners[g]) - 1
    BY <1>4, <2>1, FS_RemoveElement
  <2>3. XDistinct(owners[g] \ {k})
    BY <1>3 DEF XDistinct, SoundAt
  <2> QED
    BY <1>1, <1>3, <1>5, <2>1, <2>2, <2>3 DEF SoundAt
<1> QED
  BY <1>1, <1>6, <1>7

(* Every step preserves the inductive invariant.                           *)
LEMMA NextSafetyInv == SafetyInv /\ [Next]_vars => SafetyInv'
<1> SUFFICES ASSUME SafetyInv, [Next]_vars PROVE SafetyInv'
  OBVIOUS
<1>0. TypeOK /\ TypeOK'
  BY NextTypeOK DEF SafetyInv
<1>1. CASE UNCHANGED vars
  BY <1>0, <1>1, FramePreserves DEF vars, governanceVars, voteVars
<1>2. CASE AdvanceSlot
  BY <1>0, <1>2, FramePreserves DEF AdvanceSlot, familyVars
<1>3. ASSUME NEW g \in Guards, Deploy(g) PROVE SafetyInv'
  BY <1>0, <1>3, FramePreserves DEF Deploy, familyVars
<1>4. ASSUME NEW g \in Guards, Deposit(g) PROVE SafetyInv'
  BY <1>0, <1>4, FramePreserves DEF Deposit, familyVars
<1>5. ASSUME NEW g \in Guards, NEW cfg \in SetupConfigs, Setup(g, cfg)
      PROVE  SafetyInv'
  BY <1>0, <1>5, InitializePreserves DEF Setup
<1>6. ASSUME NEW g \in Guards, NEW h \in Guards, NEW cfg \in SetupConfigs,
             ReserveForParent(g, h, cfg)
      PROVE  SafetyInv'
  BY <1>0, <1>6, ReservePreserves
<1>7. ASSUME NEW g \in Guards, NEW p \in Proposals, NEW cfg \in SetupConfigs,
             ExecuteSetupChild(g, p, cfg)
      PROVE  SafetyInv'
  BY <1>0, <1>7, InitializePreserves, ProposalFields DEF ExecuteSetupChild
<1>8. ASSUME NEW g \in Guards, NEW p \in Proposals, NEW k \in Keys,
             Propose(g, p, k)
      PROVE  SafetyInv'
  <2>1. PROPOSED_MARKER + 1 \in Nat
    BY DEF PROPOSED_MARKER
  <2> QED
    BY <1>0, <1>8, <2>1, VotePreserves DEF Propose
<1>9. ASSUME NEW g \in Guards, NEW p \in Proposals, NEW k \in Keys,
             ApproveProposal(g, p, k)
      PROVE  SafetyInv'
  <2>1. approvals[g][p] + 1 \in Nat
    BY <1>0 DEF TypeOK
  <2> QED
    BY <1>0, <1>9, <2>1, VotePreserves DEF ApproveProposal
<1>10. ASSUME NEW g \in Guards, NEW p \in Proposals,
              \/ ExecuteTransfer(g, p) \/ ExecuteAllocateToChildren(g, p)
              \/ ExecuteDelegate(g, p)
       PROVE  SafetyInv'
  <2>1. ExecuteLocal(g, p)
        /\ UNCHANGED <<owners, threshold, numOwners, configNonce>>
    BY <1>10 DEF ExecuteTransfer, ExecuteAllocateToChildren, ExecuteDelegate
  <2> QED
    BY <1>0, <2>1, ExecuteLocalPreserves
<1>11. ASSUME NEW g \in Guards, NEW p \in Proposals, ExecuteOwnerChange(g, p)
       PROVE  SafetyInv'
  <2> DEFINE k == p.receivers[1].address
  <2>1. /\ ExecuteLocal(g, p)
        /\ AddOwner(g, p, k) \/ RemoveOwner(g, p, k)
        /\ configNonce' = [configNonce EXCEPT ![g] = BumpConfigNonce(g)]
        /\ UNCHANGED threshold
    BY <1>11 DEF ExecuteOwnerChange
  <2> HIDE DEF k
  <2>2. configNonce'[g] = configNonce[g] + 1
        /\ \A x \in Guards \ {g} : configNonce'[x] = configNonce[x]
    BY <1>0, <2>1 DEF BumpConfigNonce, TypeOK
  <2>3. \A x \in Guards \ {g} :
          owners'[x] = owners[x] /\ numOwners'[x] = numOwners[x]
    <3>1. CASE AddOwner(g, p, k)
      BY <1>0, <3>1 DEF AddOwner, TypeOK
    <3>2. CASE RemoveOwner(g, p, k)
      BY <1>0, <3>2 DEF RemoveOwner, TypeOK
    <3> QED
      BY <2>1, <3>1, <3>2
  <2>4. SoundAt(g)'
    BY <1>0, <1>11, OwnerChangeSound
  <2>5. \A x \in Guards \ {g} :
          /\ owners'[x] = owners[x] /\ threshold'[x] = threshold[x]
          /\ numOwners'[x] = numOwners[x] /\ configNonce'[x] = configNonce[x]
    BY <2>1, <2>2, <2>3
  <2>6. ExecuteLocal(g, p) /\ configNonce'[g] = configNonce[g] + 1
    BY <2>1, <2>2
  <2> QED
    BY <1>0, <2>4, <2>5, <2>6, ExecuteLocalPreserves
<1>12. ASSUME NEW g \in Guards, NEW p \in Proposals,
              ExecuteThresholdChange(g, p)
       PROVE  SafetyInv'
  <2>1. /\ ExecuteLocal(g, p) /\ UNCHANGED <<owners, numOwners>>
        /\ g \in initialized
    BY <1>12 DEF ExecuteThresholdChange, ExecuteLocal, AssertExecutable
  <2>2. /\ configNonce'[g] = configNonce[g] + 1
        /\ threshold'[g] \in 1..numOwners[g]
        /\ \A x \in Guards \ {g} : /\ configNonce'[x] = configNonce[x]
                                   /\ threshold'[x] = threshold[x]
    BY <1>0, <1>12, ProposalFields
    DEF ExecuteThresholdChange, BumpConfigNonce, TypeOK
  <2>3. SoundAt(g)'
    BY <2>1, <2>2 DEF SafetyInv, GovernanceSound, SoundAt
  <2> QED
    BY <1>0, <2>1, <2>2, <2>3, ExecuteLocalPreserves
<1>13. ASSUME NEW g \in Guards, NEW p \in Proposals,
              ExecuteReclaimToParent(g, p)
       PROVE  SafetyInv'
  BY <1>0, <1>13, ExecuteRemotePreserves DEF ExecuteReclaimToParent
<1>14. ASSUME NEW g \in Guards, NEW p \in Proposals, NEW n \in 0..balance[g],
              ExecuteDestroy(g, p, n)
       PROVE  SafetyInv'
  BY <1>0, <1>14, ExecuteRemotePreserves DEF ExecuteDestroy
<1>15. ASSUME NEW g \in Guards, NEW p \in Proposals,
              ExecuteEnableChildMultiSig(g, p)
       PROVE  SafetyInv'
  BY <1>0, <1>15, ExecuteRemotePreserves DEF ExecuteEnableChildMultiSig
<1> QED
  BY <1>1, <1>2, <1>3, <1>4, <1>5, <1>6, <1>7, <1>8, <1>9, <1>10, <1>11,
     <1>12, <1>13, <1>14, <1>15 DEF Next

(* A new ledger satisfies the invariant: nothing is initialized yet.       *)
LEMMA InitSafetyInv == Init => SafetyInv
<1> SUFFICES ASSUME Init PROVE SafetyInv
  OBVIOUS
<1>1. TypeOK
  BY InitTypeOK
<1>2. \A g \in Guards, p \in Proposals : ~Executed(g, p)
  BY LimitsAssumption DEF Init, Executed, PROPOSED_MARKER
<1>3. /\ GovernanceSound /\ LiveVotesByOwners
      /\ FrozenChildHasNoLiveProposal /\ RootsEnabled
  BY DEF Init, GovernanceSound, LiveVotesByOwners,
         FrozenChildHasNoLiveProposal, RootsEnabled
<1>4. /\ ApprovalsCountVotes /\ NoFutureProposals /\ RecordedReceiversVetted
      /\ TwoLevelHierarchy /\ BlankBeforeSetup
  BY DEF Init, ApprovalsCountVotes, NoFutureProposals, TwoLevelHierarchy,
         RecordedReceiversVetted, BlankBeforeSetup
<1>5. NoncesBehind /\ NonceConsumedOnce
  BY <1>2 DEF Init, NoncesBehind, NonceConsumedOnce
<1> QED
  BY <1>1, <1>3, <1>4, <1>5 DEF SafetyInv

(* The inductive invariant holds in every reachable state of every ledger  *)
(* of guards.                                                              *)
THEOREM Safety == Spec => []SafetyInv
<1>1. Init => SafetyInv
  BY InitSafetyInv
<1>2. SafetyInv /\ [Next]_vars => SafetyInv'
  BY NextSafetyInv
<1> QED
  BY <1>1, <1>2, PTL DEF Spec

(* No sequence of governance changes locks a vault's funds away.           *)
THEOREM GovernanceAlwaysSound == Spec => []GovernanceSound
<1>1. SafetyInv => GovernanceSound
  BY DEF SafetyInv
<1> QED
  BY <1>1, Safety, PTL

(* Counts stand for distinct votes, and live votes are present owners'.    *)
THEOREM VotesAreOwners == Spec => [](ApprovalsCountVotes /\ LiveVotesByOwners)
<1>1. SafetyInv => ApprovalsCountVotes /\ LiveVotesByOwners
  BY DEF SafetyInv
<1> QED
  BY <1>1, Safety, PTL

(* Two executed proposals never share a nonce, on a guard's own counter or *)
(* on the counter its parent drives.                                       *)
THEOREM NoncesConsumedOnce == Spec => []NonceConsumedOnce
<1>1. SafetyInv => NonceConsumedOnce
  BY DEF SafetyInv
<1> QED
  BY <1>1, Safety, PTL

(* While a child is frozen nothing its owners signed for the current       *)
(* configuration is pending, so lifting the freeze revives no vote.        *)
THEOREM FreezeClearsProposals == Spec => []FrozenChildHasNoLiveProposal
<1>1. SafetyInv => FrozenChildHasNoLiveProposal
  BY DEF SafetyInv
<1> QED
  BY <1>1, Safety, PTL

(* No sequence of reservations and set-ups makes a chain of three guards,  *)
(* a cycle, or a child of a guard that was never initialized.              *)
THEOREM HierarchyStaysTwoLevel == Spec => []TwoLevelHierarchy
<1>1. SafetyInv => TwoLevelHierarchy
  BY DEF SafetyInv
<1> QED
  BY <1>1, Safety, PTL

-----------------------------------------------------------------------------
(* Executions are authorised                                               *)

(* A pending proposal whose count meets the threshold is backed by that    *)
(* many distinct present owners.                                           *)
LEMMA ApprovedIsBacked ==
  ASSUME SafetyInv, NEW h \in Guards, NEW p \in Proposals, h \in initialized,
         AssertProposalConfigNetworkAndGuard(h, p),
         AssertProposalNotExpired(p), AssertPending(approvals[h][p]),
         AssertThresholdSatisfied(approvals[h][p], threshold[h])
  PROVE  Backed(h, p)
<1>1. p.configNonce = configNonce[h] /\ p.guardAddress = h /\ ~Executed(h, p)
  BY DEF AssertProposalConfigNetworkAndGuard, AssertPending, Executed
<1>2. nullifiers[h][p] \in SUBSET owners[h]
  BY <1>1 DEF SafetyInv, LiveVotesByOwners
<1>3. approvals[h][p] = PROPOSED_MARKER + Cardinality(nullifiers[h][p])
  BY <1>1 DEF SafetyInv, ApprovalsCountVotes, AssertPending, PROPOSED_MARKER
<1>4. Cardinality(nullifiers[h][p]) >= threshold[h]
  <2>1. Cardinality(nullifiers[h][p]) \in Nat
    BY <1>2, VotesAreFew
  <2>2. threshold[h] \in Nat
    BY DEF SafetyInv, TypeOK
  <2>3. approvals[h][p] >= threshold[h] + PROPOSED_MARKER
    BY DEF AssertThresholdSatisfied
  <2> QED
    BY <1>3, <2>1, <2>2, <2>3 DEF PROPOSED_MARKER
<1>5. XDistinct(nullifiers[h][p])
  BY <1>2 DEF SafetyInv, GovernanceSound, SoundAt, XDistinct
<1> QED
  BY <1>1, <1>2, <1>4, <1>5 DEF Backed, AssertProposalNotExpired

(* What a single step may do to the executed marks.                        *)
LEMMA StepAuthorised ==
  ASSUME SafetyInv, Next, NEW x \in Guards
  PROVE  /\ \A q \in NewlyExecuted(x) : Backed(x, q)
         /\ \A q \in NewlyChildExecuted(x) : Backed(parent[x], q)
<1>0. TypeOK /\ TypeOK'
  BY NextTypeOK DEF SafetyInv
<1>1. CASE UNCHANGED <<approvals, childExecuted>>
  BY <1>1 DEF NewlyExecuted, NewlyChildExecuted, Executed
<1>2. ASSUME NEW g \in Guards, NEW p \in Proposals, ExecuteLocal(g, p)
      PROVE  /\ \A q \in NewlyExecuted(x) : Backed(x, q)
             /\ NewlyChildExecuted(x) = {}
  <2>1. Backed(g, p)
    BY <1>2, ApprovedIsBacked DEF ExecuteLocal, AssertExecutable
  <2>2. \A q \in Proposals : x # g \/ q # p => approvals'[x][q] = approvals[x][q]
    BY <1>0, <1>2 DEF ExecuteLocal, MarkExecuted, TypeOK
  <2>3. UNCHANGED childExecuted
    BY <1>2 DEF ExecuteLocal, familyVars
  <2> QED
    BY <2>1, <2>2, <2>3 DEF NewlyExecuted, NewlyChildExecuted, Executed
<1>3. ASSUME NEW g \in Guards, NEW p \in Proposals, ExecuteRemote(g, p)
      PROVE  /\ NewlyExecuted(x) = {}
             /\ \A q \in NewlyChildExecuted(x) : Backed(parent[x], q)
  <2>1. parent[g] \in Guards
    BY <1>0, <1>3 DEF ExecuteRemote, TypeOK
  <2>2. Backed(parent[g], p)
    BY <1>3, <2>1, ApprovedIsBacked DEF ExecuteRemote, AssertParentApprovalState
  <2>3. childExecuted'[x] \subseteq childExecuted[x] \cup (IF x = g THEN {p} ELSE {})
    BY <1>0, <1>3 DEF ExecuteRemote, MarkChildExecuted, TypeOK
  <2>4. UNCHANGED approvals
    BY <1>3 DEF ExecuteRemote, voteVars
  <2> QED
    BY <2>2, <2>3, <2>4 DEF NewlyExecuted, NewlyChildExecuted, Executed
<1>4. ASSUME NEW g \in Guards, NEW cfg \in SetupConfigs,
             NEW h \in Guards \cup {Empty}, InitializeState(g, cfg, h)
      PROVE  NewlyExecuted(x) = {} /\ NewlyChildExecuted(x) = {}
  <2>1. /\ childExecuted[g] = {} /\ approvals[g] = [p \in Proposals |-> 0]
    BY <1>4 DEF InitializeState, AssertUninitialized, SafetyInv, BlankBeforeSetup
  <2>2. UNCHANGED childExecuted
    BY <1>0, <1>4, <2>1 DEF InitializeState, TypeOK
  <2>3. UNCHANGED approvals
    BY <1>0, <1>4, <2>1 DEF InitializeState, TypeOK
  <2> QED
    BY <2>2, <2>3 DEF NewlyExecuted, NewlyChildExecuted, Executed
<1>5. ASSUME NEW g \in Guards, NEW p \in Proposals, NEW k \in Keys,
             Propose(g, p, k) \/ ApproveProposal(g, p, k)
      PROVE  NewlyExecuted(x) = {} /\ NewlyChildExecuted(x) = {}
  <2>1. PROPOSED_MARKER + 1 \in Nat /\ approvals[g][p] + 1 \in Nat
    BY <1>0 DEF TypeOK, PROPOSED_MARKER
  <2>2. /\ \A q \in Proposals : Executed(x, q)' <=> Executed(x, q)
        /\ UNCHANGED childExecuted
    <3>1. CASE Propose(g, p, k)
      BY <1>0, <2>1, <3>1, VoteCounts DEF Propose
    <3>2. CASE ApproveProposal(g, p, k)
      BY <1>0, <2>1, <3>2, VoteCounts DEF ApproveProposal
    <3> QED
      BY <1>5, <3>1, <3>2
  <2> QED
    BY <2>2 DEF NewlyExecuted, NewlyChildExecuted
<1>6. CASE AdvanceSlot
  BY <1>1, <1>6 DEF AdvanceSlot, voteVars, familyVars
<1>7. ASSUME NEW g \in Guards,
             \/ Deploy(g) \/ Deposit(g)
             \/ \E h \in Guards, cfg \in SetupConfigs : ReserveForParent(g, h, cfg)
      PROVE  UNCHANGED <<approvals, childExecuted>>
  BY <1>7 DEF Deploy, Deposit, ReserveForParent, voteVars, familyVars
<1>8. ASSUME NEW g \in Guards, NEW cfg \in SetupConfigs, Setup(g, cfg)
      PROVE  NewlyExecuted(x) = {} /\ NewlyChildExecuted(x) = {}
  BY <1>4, <1>8 DEF Setup
<1>9. ASSUME NEW g \in Guards, NEW p \in Proposals, NEW cfg \in SetupConfigs,
             ExecuteSetupChild(g, p, cfg)
      PROVE  NewlyExecuted(x) = {} /\ NewlyChildExecuted(x) = {}
  BY <1>4, <1>9, ProposalFields DEF ExecuteSetupChild
<1>10. ASSUME NEW g \in Guards, NEW p \in Proposals,
              \/ ExecuteTransfer(g, p) \/ ExecuteAllocateToChildren(g, p)
              \/ ExecuteOwnerChange(g, p) \/ ExecuteThresholdChange(g, p)
              \/ ExecuteDelegate(g, p)
       PROVE  ExecuteLocal(g, p)
  BY <1>10 DEF ExecuteTransfer, ExecuteAllocateToChildren, ExecuteOwnerChange,
               ExecuteThresholdChange, ExecuteDelegate
<1>11. ASSUME NEW g \in Guards, NEW p \in Proposals,
              \/ ExecuteReclaimToParent(g, p)
              \/ \E n \in 0..balance[g] : ExecuteDestroy(g, p, n)
              \/ ExecuteEnableChildMultiSig(g, p)
       PROVE  ExecuteRemote(g, p)
  BY <1>11 DEF ExecuteReclaimToParent, ExecuteDestroy,
               ExecuteEnableChildMultiSig
<1> QED
  BY <1>1, <1>2, <1>3, <1>5, <1>6, <1>7, <1>8, <1>9, <1>10, <1>11 DEF Next

(* Whatever is executed, on any ledger of guards, is backed at that moment *)
(* by enough distinct present owners of the guard with authority over it.  *)
THEOREM ExecutionsAreAuthorised == Spec => ExecutionAuthorised
<1>1. SafetyInv /\ [Next]_vars =>
        [\A g \in Guards :
           /\ \A p \in NewlyExecuted(g) : Backed(g, p)
           /\ \A p \in NewlyChildExecuted(g) : Backed(parent[g], p)]_vars
  BY StepAuthorised
<1> QED
  BY <1>1, Safety, PTL DEF Spec, ExecutionAuthorised

-----------------------------------------------------------------------------
(* The kinds of step                                                       *)

(* An execute method on the vault itself, and one on a child.              *)
LocalMethod(g, p) ==
  \/ ExecuteTransfer(g, p) \/ ExecuteAllocateToChildren(g, p)
  \/ ExecuteOwnerChange(g, p) \/ ExecuteThresholdChange(g, p)
  \/ ExecuteDelegate(g, p)

RemoteMethod(g, p) ==
  \/ ExecuteReclaimToParent(g, p)
  \/ \E amount \in 0..balance[g] : ExecuteDestroy(g, p, amount)
  \/ ExecuteEnableChildMultiSig(g, p)

(* setup of a root, or of a child its parent's owners approved.            *)
InitMethod(g, cfg) ==
  Setup(g, cfg) \/ \E p \in Proposals : ExecuteSetupChild(g, p, cfg)

VoteMethod(g, p, k) == Propose(g, p, k) \/ ApproveProposal(g, p, k)

(* What the remaining steps leave alone: the clock, a deployment, a        *)
(* deposit or a reservation touches no vote, mark or governance.           *)
Quiet ==
  /\ UNCHANGED <<initialized, owners, threshold, numOwners, configNonce,
                 nonce, approvals, nullifiers, childExecuted, parentNonce,
                 delegate>>
  /\ \A x \in Guards : balance'[x] >= balance[x]
  /\ \A x \in initialized : parent'[x] = parent[x]

(* A guard's childExecutionRoot holds REMOTE proposals only, so no mark in *)
(* it stands for a proposal the guard's own owners may still execute.      *)
ChildMarksRemote ==
  \A g \in Guards : \A p \in childExecuted[g] : p.destination = "REMOTE"

(* Every step is of one of these kinds.                                    *)
LEMMA StepKinds ==
  ASSUME TypeOK, Next
  PROVE  \/ Quiet
         \/ \E g \in Guards, cfg \in SetupConfigs : InitMethod(g, cfg)
         \/ \E g \in Guards, p \in Proposals, k \in Keys : VoteMethod(g, p, k)
         \/ \E g \in Guards, p \in Proposals :
              LocalMethod(g, p) \/ RemoteMethod(g, p)
<1> USE DEF accountVars, governanceVars, voteVars, familyVars
<1>0. \A x \in Guards : balance[x] \in Nat
  BY DEF TypeOK
<1>1. CASE AdvanceSlot
  BY <1>0, <1>1 DEF AdvanceSlot, Quiet
<1>2. ASSUME NEW g \in Guards, Deploy(g) PROVE Quiet
  BY <1>0, <1>2 DEF Deploy, Quiet
<1>3. ASSUME NEW g \in Guards, Deposit(g) PROVE Quiet
  BY <1>3 DEF Deposit, Quiet, TypeOK
<1>4. ASSUME NEW g \in Guards, NEW h \in Guards, NEW cfg \in SetupConfigs,
             ReserveForParent(g, h, cfg)
      PROVE  Quiet
  BY <1>0, <1>4 DEF ReserveForParent, AssertUninitialized, Quiet, TypeOK
<1> QED
  BY <1>1, <1>2, <1>3, <1>4
  DEF Next, InitMethod, VoteMethod, LocalMethod, RemoteMethod

-----------------------------------------------------------------------------
(* What each kind of step does                                             *)

(* An initialization writes one blank account and nothing else.            *)
LEMMA InitEffects ==
  ASSUME SafetyInv, TypeOK', NEW g \in Guards, NEW cfg \in SetupConfigs,
         InitMethod(g, cfg)
  PROVE  /\ g \notin initialized /\ owners[g] = {}
         /\ initialized' = initialized \cup {g}
         /\ threshold'[g] \in 1..Cardinality(owners'[g])
         /\ \A x \in Guards \ {g} :
              owners'[x] = owners[x] /\ threshold'[x] = threshold[x]
         /\ UNCHANGED <<nonce, approvals, nullifiers, parent, parentNonce,
                        childExecuted, configNonce, balance, delegate>>
<1>1. PICK h \in Guards \cup {Empty} :
        parent[g] = h /\ InitializeState(g, cfg, h)
  BY ProposalFields DEF InitMethod, Setup, ExecuteSetupChild
<1>2. /\ g \notin initialized /\ owners[g] = {}
      /\ nonce[g] = 0 /\ parentNonce[g] = 0 /\ childExecuted[g] = {}
      /\ approvals[g] = [p \in Proposals |-> 0]
      /\ nullifiers[g] = [p \in Proposals |-> {}]
  BY <1>1 DEF SafetyInv, BlankBeforeSetup, InitializeState, AssertUninitialized
<1>3. UNCHANGED <<nonce, parentNonce, childExecuted, configNonce, balance,
                  delegate>>
  BY <1>1, <1>2 DEF SafetyInv, TypeOK, InitializeState
<1>4. UNCHANGED <<approvals, nullifiers, parent>>
  BY <1>1, <1>2 DEF SafetyInv, TypeOK, InitializeState
<1>5. /\ owners'[g] = cfg.owners /\ threshold'[g] = cfg.threshold
      /\ \A x \in Guards \ {g} :
           owners'[x] = owners[x] /\ threshold'[x] = threshold[x]
      /\ initialized' = initialized \cup {g}
  BY <1>1 DEF SafetyInv, TypeOK, InitializeState
<1>6. cfg.threshold \in 1..Cardinality(cfg.owners)
  BY <1>1, ConfigFields DEF InitializeState, AssertValidInitialGovernance,
                            AssertCoherentSetupOwners
<1> QED
  BY <1>2, <1>3, <1>4, <1>5, <1>6

(* A vote adds one key to one nullifier set and executes nothing.          *)
LEMMA VoteEffects ==
  ASSUME SafetyInv, TypeOK', NEW g \in Guards, NEW p \in Proposals,
         NEW k \in Keys, VoteMethod(g, p, k)
  PROVE  /\ g \in initialized /\ k \in owners[g]
         /\ p.guardAddress = g /\ p.configNonce = configNonce[g]
         /\ nullifiers' = [nullifiers EXCEPT ![g][p] = @ \cup {k}]
         /\ \A x \in Guards, q \in Proposals : Executed(x, q)' <=> Executed(x, q)
         /\ UNCHANGED <<initialized, owners, threshold, numOwners, configNonce,
                        nonce, childExecuted, parent, parentNonce, balance,
                        delegate>>
<1>1. PROPOSED_MARKER + 1 \in Nat /\ approvals[g][p] + 1 \in Nat
  BY DEF SafetyInv, TypeOK, PROPOSED_MARKER
<1>2. PICK n \in Nat :
        /\ AssertVotable(g, p, k)
        /\ \/ /\ approvals[g][p] = 0 /\ n = PROPOSED_MARKER + 1
              /\ AssertReceiverSlots(p)
           \/ AssertPending(approvals[g][p]) /\ n = approvals[g][p] + 1
        /\ CastVote(g, p, k, n)
  BY <1>1 DEF VoteMethod, Propose, ApproveProposal
<1>3. /\ g \in initialized /\ k \in owners[g]
      /\ p.guardAddress = g /\ p.configNonce = configNonce[g]
      /\ \A x \in Guards, q \in Proposals : Executed(x, q)' <=> Executed(x, q)
  BY <1>2, VoteCounts
<1>4. /\ nullifiers' = [nullifiers EXCEPT ![g][p] = @ \cup {k}]
      /\ UNCHANGED <<initialized, owners, threshold, numOwners, configNonce,
                     nonce, childExecuted, parent, parentNonce, balance,
                     delegate>>
  BY <1>2 DEF CastVote, accountVars, governanceVars, familyVars
<1> QED
  BY <1>3, <1>4

(* What ExecuteLocal alone does: one more mark on g, backed by its owners. *)
LEMMA LocalMarks ==
  ASSUME SafetyInv, NEW g \in Guards, NEW p \in Proposals,
         ExecuteLocal(g, p)
  PROVE  /\ g \in initialized /\ p.destination = "LOCAL"
         /\ p.guardAddress = g /\ p.configNonce = configNonce[g]
         /\ Backed(g, p)
         /\ ~Executed(g, p) /\ Executed(g, p)'
         /\ \A x \in Guards, q \in Proposals :
              x # g \/ q # p => (Executed(x, q)' <=> Executed(x, q))
         /\ nonce'[g] = nonce[g] + 1
         /\ \A x \in Guards \ {g} : nonce'[x] = nonce[x]
         /\ UNCHANGED <<initialized, nullifiers, childExecuted, parent,
                        parentNonce, slot>>
<1>1. /\ g \in initialized /\ p.destination = "LOCAL"
      /\ p.guardAddress = g /\ p.configNonce = configNonce[g]
      /\ ~Executed(g, p)
  BY DEF ExecuteLocal, AssertExecutable, AssertProposalConfigNetworkAndGuard,
         AssertPending, Executed
<1>2. Backed(g, p)
  BY ApprovedIsBacked DEF ExecuteLocal, AssertExecutable
<1>3. /\ approvals'[g][p] = EXECUTED_MARKER
      /\ \A x \in Guards, q \in Proposals :
           x # g \/ q # p => approvals'[x][q] = approvals[x][q]
  BY DEF ExecuteLocal, MarkExecuted, SafetyInv, TypeOK
<1>4. nonce'[g] = nonce[g] + 1 /\ \A x \in Guards \ {g} : nonce'[x] = nonce[x]
  BY DEF ExecuteLocal, AssertAndIncrementLocalNonce, SafetyInv, TypeOK
<1>5. UNCHANGED <<initialized, nullifiers, childExecuted, parent, parentNonce,
                  slot>>
  BY DEF ExecuteLocal, familyVars
<1> QED
  BY <1>1, <1>2, <1>3, <1>4, <1>5 DEF Executed

(* A transfer lowers no balance but the vault's own, and does not raise    *)
(* that one, even when the vault is among the receivers.                   *)
LEMMA TransferEffects ==
  ASSUME TypeOK, NEW g \in Guards, NEW p \in Proposals,
         ExecuteTransfers(g, p)
  PROVE  /\ balance'[g] <= balance[g]
         /\ \A x \in Guards \ {g} : balance'[x] >= balance[x]
<1>1. /\ p.receivers[1].amount \in Nat /\ p.receivers[2].amount \in Nat
      /\ \A x \in Guards : balance[x] \in Nat /\ x # Empty
  BY ProposalFields, KeysAssumption DEF TypeOK
<1>2. CreditTo(g, p) \in Nat /\ PaidOut(p) \in Nat /\ CreditTo(g, p) <= PaidOut(p)
  BY <1>1 DEF CreditTo, PaidOut, SlotAmount
<1>3. \A x \in Guards : CreditTo(x, p) \in Nat
  BY <1>1 DEF CreditTo
<1>4. \A x \in Guards :
        balance'[x] = balance[x] + CreditTo(x, p)
                        - (IF x = g THEN PaidOut(p) ELSE 0)
  BY DEF ExecuteTransfers
<1> QED
  BY <1>1, <1>2, <1>3, <1>4

(* A LOCAL method acts on its own guard only; when it changes the owners   *)
(* or the threshold it leaves them sound and opens a new configuration.    *)
LEMMA LocalEffects ==
  ASSUME SafetyInv, TypeOK', NEW g \in Guards, NEW p \in Proposals,
         LocalMethod(g, p)
  PROVE  /\ ExecuteLocal(g, p)
         /\ \A x \in Guards \ {g} :
              /\ owners'[x] = owners[x] /\ threshold'[x] = threshold[x]
              /\ configNonce'[x] = configNonce[x] /\ delegate'[x] = delegate[x]
              /\ balance'[x] >= balance[x]
         /\ balance'[g] <= balance[g]
         /\ \/ UNCHANGED <<owners, threshold, configNonce>>
            \/ configNonce' = [configNonce EXCEPT ![g] = @ + 1] /\ SoundAt(g)'
<1>0. TypeOK /\ \A x \in Guards : balance[x] \in Nat
  BY DEF SafetyInv, TypeOK
<1>1. ExecuteLocal(g, p)
  BY DEF LocalMethod, ExecuteTransfer, ExecuteAllocateToChildren,
         ExecuteOwnerChange, ExecuteThresholdChange, ExecuteDelegate
<1>2. CASE ExecuteTransfer(g, p) \/ ExecuteAllocateToChildren(g, p)
  BY <1>0, <1>1, <1>2, TransferEffects
  DEF ExecuteTransfer, ExecuteAllocateToChildren
<1>3. CASE ExecuteOwnerChange(g, p)
  <2>1. SoundAt(g)'
    BY <1>0, <1>3, OwnerChangeSound
  <2>2. /\ configNonce' = [configNonce EXCEPT ![g] = @ + 1]
        /\ UNCHANGED <<balance, delegate, threshold>>
    BY <1>3 DEF ExecuteOwnerChange, BumpConfigNonce
  <2>3. \A x \in Guards \ {g} : owners'[x] = owners[x]
    <3> DEFINE k == p.receivers[1].address
    <3>1. AddOwner(g, p, k) \/ RemoveOwner(g, p, k)
      BY <1>3 DEF ExecuteOwnerChange
    <3> HIDE DEF k
    <3>2. CASE AddOwner(g, p, k)
      BY <1>0, <3>2 DEF AddOwner, TypeOK
    <3>3. CASE RemoveOwner(g, p, k)
      BY <1>0, <3>3 DEF RemoveOwner, TypeOK
    <3> QED
      BY <3>1, <3>2, <3>3
  <2>4. \A x \in Guards \ {g} : configNonce'[x] = configNonce[x]
    BY <1>0, <2>2 DEF TypeOK
  <2> QED
    BY <1>0, <1>1, <2>1, <2>2, <2>3, <2>4
<1>4. CASE ExecuteThresholdChange(g, p)
  <2>1. /\ configNonce' = [configNonce EXCEPT ![g] = @ + 1]
        /\ threshold' = [threshold EXCEPT ![g] = p.data.num]
        /\ p.data.num \in 1..numOwners[g]
        /\ UNCHANGED <<balance, delegate, owners, numOwners>>
    BY <1>0, <1>4, ProposalFields
    DEF ExecuteThresholdChange, BumpConfigNonce, TypeOK
  <2>2. /\ threshold'[g] \in 1..numOwners[g]
        /\ \A x \in Guards \ {g} :
             threshold'[x] = threshold[x] /\ configNonce'[x] = configNonce[x]
    BY <1>0, <2>1 DEF TypeOK
  <2>3. SoundAt(g)
    BY <1>1 DEF ExecuteLocal, AssertExecutable, SafetyInv, GovernanceSound
  <2>4. SoundAt(g)'
    BY <2>1, <2>2, <2>3 DEF SoundAt
  <2> QED
    BY <1>0, <1>1, <2>1, <2>2, <2>4
<1>5. CASE ExecuteDelegate(g, p)
  BY <1>0, <1>1, <1>5 DEF ExecuteDelegate, TypeOK
<1> QED
  BY <1>2, <1>3, <1>4, <1>5 DEF LocalMethod

(* A REMOTE method on child g, approved by its parent's owners, changes no *)
(* governance but the child's configuration nonce, and moves the child's   *)
(* funds to the parent and nowhere else.                                   *)
LEMMA RemoteEffects ==
  ASSUME SafetyInv, TypeOK', NEW g \in Guards, NEW p \in Proposals,
         RemoteMethod(g, p)
  PROVE  /\ g \in initialized /\ p.destination = "REMOTE"
         /\ parent[g] \in initialized \ {g}
         /\ p.guardAddress = parent[g]
         /\ p.configNonce = configNonce[parent[g]]
         /\ Backed(parent[g], p)
         /\ p \notin childExecuted[g]
         /\ childExecuted' = [childExecuted EXCEPT ![g] = @ \cup {p}]
         /\ parentNonce'[g] = parentNonce[g] + 1
         /\ \A x \in Guards \ {g} : parentNonce'[x] = parentNonce[x]
         /\ UNCHANGED <<initialized, approvals, nullifiers, owners, threshold,
                        nonce, parent, delegate>>
         /\ \/ UNCHANGED configNonce
            \/ configNonce' = [configNonce EXCEPT ![g] = @ + 1]
         /\ balance'[g] <= balance[g]
         /\ \A x \in Guards \ {g} : balance'[x] >= balance[x]
         /\ balance'[g] + balance'[parent[g]] = balance[g] + balance[parent[g]]
<1>0. TypeOK /\ \A x \in Guards : balance[x] \in Nat
  BY DEF SafetyInv, TypeOK
<1>1. ExecuteRemote(g, p)
  BY DEF RemoteMethod, ExecuteReclaimToParent, ExecuteDestroy,
         ExecuteEnableChildMultiSig
<1>2. /\ g \in initialized /\ p.destination = "REMOTE" /\ parent[g] # Empty
      /\ AssertParentApprovalState(parent[g], p)
      /\ p \notin childExecuted[g]
      /\ childExecuted' = [childExecuted EXCEPT ![g] = @ \cup {p}]
      /\ UNCHANGED <<initialized, approvals, nullifiers, owners, threshold,
                     nonce, parent, delegate>>
  BY <1>1 DEF ExecuteRemote, MarkChildExecuted, voteVars
<1>3. parent[g] \in initialized \ {g} /\ parent[g] \in Guards
  BY <1>0, <1>2 DEF SafetyInv, TwoLevelHierarchy, TypeOK
<1>4. /\ p.guardAddress = parent[g] /\ p.configNonce = configNonce[parent[g]]
      /\ Backed(parent[g], p)
  BY <1>2, <1>3, ApprovedIsBacked
  DEF AssertParentApprovalState, AssertProposalConfigNetworkAndGuard
<1>5. /\ parentNonce'[g] = parentNonce[g] + 1
      /\ \A x \in Guards \ {g} : parentNonce'[x] = parentNonce[x]
  BY <1>0, <1>1 DEF ExecuteRemote, AssertAndIncrementParentNonce, TypeOK
<1>6. \/ UNCHANGED configNonce
      \/ configNonce' = [configNonce EXCEPT ![g] = @ + 1]
  BY DEF RemoteMethod, ExecuteReclaimToParent, ExecuteDestroy,
         ExecuteEnableChildMultiSig, BumpConfigNonce
<1>7. /\ balance'[g] <= balance[g]
      /\ \A x \in Guards \ {g} : balance'[x] >= balance[x]
      /\ balance'[g] + balance'[parent[g]] = balance[g] + balance[parent[g]]
  <2>1. CASE UNCHANGED balance
    BY <1>0, <2>1
  <2>2. ASSUME NEW n \in Nat, SendToParent(g, n)
        PROVE  /\ balance'[g] = balance[g] - n
               /\ balance'[parent[g]] = balance[parent[g]] + n
               /\ \A x \in Guards \ {g} : balance'[x] >= balance[x]
    BY <1>0, <1>3, <2>2 DEF SendToParent
  <2>3. ASSUME NEW n \in Nat, SendToParent(g, n)
        PROVE  /\ balance'[g] <= balance[g]
               /\ \A x \in Guards \ {g} : balance'[x] >= balance[x]
               /\ balance'[g] + balance'[parent[g]] = balance[g] + balance[parent[g]]
    BY <1>0, <1>3, <2>2, <2>3
  <2>4. UNCHANGED balance \/ \E n \in Nat : SendToParent(g, n)
    BY <1>0, ProposalFields
    DEF RemoteMethod, ExecuteReclaimToParent, ExecuteDestroy,
        ExecuteEnableChildMultiSig
  <2> QED
    BY <2>1, <2>3, <2>4
<1> QED
  BY <1>2, <1>3, <1>4, <1>5, <1>6, <1>7

-----------------------------------------------------------------------------
(* Action properties                                                       *)

(* A kept or incremented configuration nonce does not go back anywhere.    *)
LEMMA NoncesGrow ==
  ASSUME TypeOK, NEW g \in Guards, NEW x \in Guards,
         UNCHANGED configNonce \/ configNonce' = [configNonce EXCEPT ![g] = @ + 1]
  PROVE  configNonce'[x] >= configNonce[x]
<1>0. configNonce[x] \in Nat
  BY DEF TypeOK
<1>1. CASE UNCHANGED configNonce
  BY <1>0, <1>1
<1>2. CASE configNonce' = [configNonce EXCEPT ![g] = @ + 1]
  BY <1>0, <1>2 DEF TypeOK
<1> QED
  BY <1>1, <1>2

(* Execution is final on every ledger: no call clears a mark, re-parents a *)
(* guard, initializes one again or moves a counter back.                   *)
THEOREM ExecutionIsFinal == Spec => ExecutedForever
<1>1. SafetyInv /\ SafetyInv' /\ [Next]_vars =>
        [\A g \in initialized :
           /\ g \in initialized'
           /\ \A p \in Proposals : Executed(g, p) => Executed(g, p)'
           /\ childExecuted[g] \subseteq childExecuted'[g]
           /\ parent'[g] = parent[g]
           /\ nonce'[g] >= nonce[g] /\ parentNonce'[g] >= parentNonce[g]
           /\ configNonce'[g] >= configNonce[g]]_vars
  <2> SUFFICES ASSUME SafetyInv, TypeOK', Next, NEW x \in initialized
               PROVE  /\ x \in initialized'
                      /\ \A q \in Proposals : Executed(x, q) => Executed(x, q)'
                      /\ childExecuted[x] \subseteq childExecuted'[x]
                      /\ parent'[x] = parent[x]
                      /\ nonce'[x] >= nonce[x] /\ parentNonce'[x] >= parentNonce[x]
                      /\ configNonce'[x] >= configNonce[x]
    BY DEF SafetyInv
  <2>0. /\ x \in Guards /\ nonce[x] \in Nat /\ parentNonce[x] \in Nat
        /\ configNonce[x] \in Nat /\ TypeOK
    BY DEF SafetyInv, TypeOK
  <2>1. CASE Quiet
    BY <2>0, <2>1 DEF Quiet, Executed
  <2>2. ASSUME NEW g \in Guards, NEW cfg \in SetupConfigs, InitMethod(g, cfg)
        PROVE  /\ x \in initialized'
               /\ UNCHANGED <<nonce, approvals, parent, parentNonce,
                              childExecuted, configNonce>>
    BY <2>2, InitEffects
  <2>3. ASSUME NEW g \in Guards, NEW p \in Proposals, NEW k \in Keys,
               VoteMethod(g, p, k)
        PROVE  /\ x \in initialized'
               /\ \A q \in Proposals : Executed(x, q) => Executed(x, q)'
               /\ UNCHANGED <<nonce, parent, parentNonce, childExecuted,
                              configNonce>>
    BY <2>0, <2>3, VoteEffects
  <2>4. ASSUME NEW g \in Guards, NEW p \in Proposals, LocalMethod(g, p)
        PROVE  /\ x \in initialized'
               /\ \A q \in Proposals : Executed(x, q) => Executed(x, q)'
               /\ nonce'[x] >= nonce[x] /\ configNonce'[x] >= configNonce[x]
               /\ UNCHANGED <<parent, parentNonce, childExecuted>>
    <3>1. ExecuteLocal(g, p)
      BY <2>4, LocalEffects
    <3>2. /\ UNCHANGED <<initialized, parent, parentNonce, childExecuted>>
          /\ \A q \in Proposals : Executed(x, q) => Executed(x, q)'
          /\ nonce'[x] >= nonce[x]
      BY <2>0, <3>1, LocalMarks
    <3>3. UNCHANGED configNonce \/ configNonce' = [configNonce EXCEPT ![g] = @ + 1]
      BY <2>4, LocalEffects
    <3>4. configNonce'[x] >= configNonce[x]
      BY <2>0, <3>3, NoncesGrow
    <3> QED
      BY <3>2, <3>4
  <2>5. ASSUME NEW g \in Guards, NEW p \in Proposals, RemoteMethod(g, p)
        PROVE  /\ x \in initialized' /\ UNCHANGED <<approvals, nonce, parent>>
               /\ childExecuted[x] \subseteq childExecuted'[x]
               /\ parentNonce'[x] >= parentNonce[x]
               /\ configNonce'[x] >= configNonce[x]
    <3>1. /\ UNCHANGED <<initialized, approvals, nonce, parent>>
          /\ childExecuted' = [childExecuted EXCEPT ![g] = @ \cup {p}]
          /\ parentNonce'[x] >= parentNonce[x]
      BY <2>0, <2>5, RemoteEffects
    <3>2. UNCHANGED configNonce \/ configNonce' = [configNonce EXCEPT ![g] = @ + 1]
      BY <2>5, RemoteEffects
    <3>3. configNonce'[x] >= configNonce[x]
      BY <2>0, <3>2, NoncesGrow
    <3> QED
      BY <2>0, <3>1, <3>3 DEF TypeOK
  <2> QED
    BY <2>0, <2>1, <2>2, <2>3, <2>4, <2>5, StepKinds DEF Executed
<1> QED
  BY <1>1, Safety, PTL DEF Spec, ExecutedForever

(* No step takes funds from an initialized guard, or changes its delegate, *)
(* owners or threshold, unless it marks a proposal executed there; and a   *)
(* REMOTE execution only moves the child's funds to its parent.            *)
THEOREM OnlyExecutionActs == Spec => EffectsOnlyByExecution
<1>1. SafetyInv /\ SafetyInv' /\ [Next]_vars =>
        [\A g \in initialized :
           /\ (\/ balance'[g] < balance[g]
               \/ delegate'[g] # delegate[g]
               \/ owners'[g] # owners[g]
               \/ threshold'[g] # threshold[g])
              => NewlyExecuted(g) # {} \/ NewlyChildExecuted(g) # {}
           /\ NewlyChildExecuted(g) # {} =>
                /\ <<delegate', owners', threshold'>> = <<delegate, owners, threshold>>
                /\ balance'[g] + balance'[parent[g]] = balance[g] + balance[parent[g]]]_vars
  <2> SUFFICES ASSUME SafetyInv, TypeOK', Next, NEW x \in initialized
               PROVE  /\ (\/ balance'[x] < balance[x]
                          \/ delegate'[x] # delegate[x]
                          \/ owners'[x] # owners[x]
                          \/ threshold'[x] # threshold[x])
                         => NewlyExecuted(x) # {} \/ NewlyChildExecuted(x) # {}
                      /\ NewlyChildExecuted(x) # {} =>
                           /\ UNCHANGED <<delegate, owners, threshold>>
                           /\ balance'[x] + balance'[parent[x]]
                                = balance[x] + balance[parent[x]]
    BY DEF SafetyInv
  <2>0. TypeOK /\ x \in Guards /\ balance[x] \in Nat /\ balance'[x] \in Nat
    BY DEF SafetyInv, TypeOK
  <2>1. CASE Quiet
    BY <2>0, <2>1 DEF Quiet, NewlyChildExecuted
  <2>2. ASSUME NEW g \in Guards, NEW cfg \in SetupConfigs, InitMethod(g, cfg)
        PROVE  /\ UNCHANGED <<balance, delegate, childExecuted>>
               /\ owners'[x] = owners[x] /\ threshold'[x] = threshold[x]
    BY <2>0, <2>2, InitEffects
  <2>3. ASSUME NEW g \in Guards, NEW p \in Proposals, NEW k \in Keys,
               VoteMethod(g, p, k)
        PROVE  UNCHANGED <<balance, delegate, childExecuted, owners, threshold>>
    BY <2>3, VoteEffects
  <2>4. ASSUME NEW g \in Guards, NEW p \in Proposals, LocalMethod(g, p)
        PROVE  /\ NewlyChildExecuted(x) = {}
               /\ \/ NewlyExecuted(x) # {}
                  \/ /\ owners'[x] = owners[x] /\ threshold'[x] = threshold[x]
                     /\ delegate'[x] = delegate[x] /\ balance'[x] >= balance[x]
    <3>1. ExecuteLocal(g, p)
      BY <2>4, LocalEffects
    <3>2. UNCHANGED childExecuted /\ p \in NewlyExecuted(g)
      BY <3>1, LocalMarks DEF NewlyExecuted
    <3>3. x # g => /\ owners'[x] = owners[x] /\ threshold'[x] = threshold[x]
                   /\ delegate'[x] = delegate[x] /\ balance'[x] >= balance[x]
      BY <2>0, <2>4, LocalEffects
    <3> QED
      BY <3>2, <3>3 DEF NewlyChildExecuted
  <2>5. ASSUME NEW g \in Guards, NEW p \in Proposals, RemoteMethod(g, p)
        PROVE  /\ UNCHANGED <<delegate, owners, threshold>>
               /\ IF x = g
                  THEN /\ p \in NewlyChildExecuted(x)
                       /\ balance'[x] + balance'[parent[x]]
                            = balance[x] + balance[parent[x]]
                  ELSE balance'[x] >= balance[x] /\ NewlyChildExecuted(x) = {}
    <3>1. /\ UNCHANGED <<delegate, owners, threshold>>
          /\ p \notin childExecuted[g]
          /\ childExecuted' = [childExecuted EXCEPT ![g] = @ \cup {p}]
      BY <2>5, RemoteEffects
    <3>2. IF x = g
          THEN balance'[x] + balance'[parent[x]] = balance[x] + balance[parent[x]]
          ELSE balance'[x] >= balance[x]
      BY <2>0, <2>5, RemoteEffects
    <3>3. IF x = g THEN p \in NewlyChildExecuted(x) ELSE NewlyChildExecuted(x) = {}
      BY <2>0, <3>1 DEF NewlyChildExecuted, TypeOK
    <3> QED
      BY <3>1, <3>2, <3>3
  <2>6. CASE \E g \in Guards, cfg \in SetupConfigs : InitMethod(g, cfg)
    BY <2>0, <2>2, <2>6 DEF NewlyChildExecuted
  <2>7. CASE \E g \in Guards, p \in Proposals, k \in Keys : VoteMethod(g, p, k)
    BY <2>0, <2>3, <2>7 DEF NewlyChildExecuted
  <2>8. CASE \E g \in Guards, p \in Proposals : LocalMethod(g, p)
    BY <2>0, <2>4, <2>8
  <2>9. CASE \E g \in Guards, p \in Proposals : RemoteMethod(g, p)
    BY <2>0, <2>5, <2>9
  <2> QED
    BY <2>0, <2>1, <2>6, <2>7, <2>8, <2>9, StepKinds
<1> QED
  BY <1>1, Safety, PTL DEF Spec, EffectsOnlyByExecution

(* A guard that becomes a child starts with the configuration hash it      *)
(* published when it was reserved, and with one its parent's owners have   *)
(* voted for.                                                              *)
THEOREM ChildrenStartAsPublished == Spec => ChildStartsAsPublished
<1>1. SafetyInv /\ SafetyInv' /\ [Next]_vars =>
        [\A g \in initialized' \ initialized :
           parent'[g] # Empty =>
             LET hash == ChildConfigHash(owners'[g], threshold'[g], numOwners'[g])
             IN  /\ reservedConfigHash[g] = hash
                 /\ \E p \in Proposals :
                      p.childAccount = g /\ p.data = hash /\ Backed(parent[g], p)]_vars
  <2> SUFFICES ASSUME SafetyInv, TypeOK', Next,
                      NEW x \in initialized' \ initialized, parent'[x] # Empty
               PROVE  LET hash == ChildConfigHash(owners'[x], threshold'[x],
                                                  numOwners'[x])
                      IN  /\ reservedConfigHash[x] = hash
                          /\ \E p \in Proposals :
                               /\ p.childAccount = x /\ p.data = hash
                               /\ Backed(parent[x], p)
    BY DEF SafetyInv
  <2>0. TypeOK
    BY DEF SafetyInv
  <2>1. ~Quiet
    BY DEF Quiet
  <2>2. ASSUME NEW g \in Guards, NEW p \in Proposals, NEW k \in Keys
        PROVE  ~VoteMethod(g, p, k)
    BY VoteEffects
  <2>3. ASSUME NEW g \in Guards, NEW p \in Proposals
        PROVE  ~LocalMethod(g, p)
    BY LocalEffects, LocalMarks
  <2>4. ASSUME NEW g \in Guards, NEW p \in Proposals
        PROVE  ~RemoteMethod(g, p)
    BY RemoteEffects
  <2>5. PICK g \in Guards, cfg \in SetupConfigs : InitMethod(g, cfg)
    BY <2>0, <2>1, <2>2, <2>3, <2>4, StepKinds
  <2>6. x = g /\ parent[g] # Empty
    BY <2>5, InitEffects
  <2>7. PICK p \in Proposals : ExecuteSetupChild(g, p, cfg)
    BY <2>5, <2>6 DEF InitMethod, Setup
  <2>8. /\ p.childAccount = g /\ parent[g] = p.guardAddress
        /\ p.guardAddress \in Guards
        /\ p.data = ChildConfigHash(cfg.owners, cfg.threshold, cfg.numOwners)
        /\ reservedConfigHash[g]
             = ChildConfigHash(cfg.owners, cfg.threshold, cfg.numOwners)
        /\ AssertParentApprovalState(p.guardAddress, p)
        /\ InitializeState(g, cfg, p.guardAddress)
    BY <2>7, ProposalFields DEF ExecuteSetupChild, AssertReservedConfig
  <2>9. Backed(parent[g], p)
    BY <2>8, ApprovedIsBacked DEF AssertParentApprovalState
  <2>10. /\ owners'[g] = cfg.owners /\ threshold'[g] = cfg.threshold
         /\ numOwners'[g] = cfg.numOwners
    BY <2>0, <2>8 DEF InitializeState, TypeOK
  <2> QED
    BY <2>6, <2>8, <2>9, <2>10
<1> QED
  BY <1>1, Safety, PTL DEF Spec, ChildStartsAsPublished

-----------------------------------------------------------------------------
(* The contract implements the policy                                      *)

(* Only REMOTE executions write a childExecutionRoot.                      *)
LEMMA NextChildMarksRemote ==
  ASSUME SafetyInv, SafetyInv', ChildMarksRemote, [Next]_vars
  PROVE  ChildMarksRemote'
<1>0. TypeOK /\ TypeOK'
  BY DEF SafetyInv
<1>1. CASE UNCHANGED childExecuted
  BY <1>1 DEF ChildMarksRemote
<1>2. CASE Next
  <2>1. ASSUME NEW g \in Guards, NEW p \in Proposals, RemoteMethod(g, p)
        PROVE  ChildMarksRemote'
    <3>1. /\ p.destination = "REMOTE"
          /\ childExecuted' = [childExecuted EXCEPT ![g] = @ \cup {p}]
      BY <1>0, <2>1, RemoteEffects
    <3>2. \A x \in Guards :
            childExecuted'[x] \subseteq childExecuted[x] \cup {p}
      BY <1>0, <3>1 DEF TypeOK
    <3> QED
      BY <3>1, <3>2 DEF ChildMarksRemote
  <2>2. ASSUME NEW g \in Guards, NEW p \in Proposals, LocalMethod(g, p)
        PROVE  UNCHANGED childExecuted
    BY <1>0, <2>2, LocalEffects, LocalMarks
  <2>3. ASSUME NEW g \in Guards, NEW p \in Proposals, NEW k \in Keys,
               VoteMethod(g, p, k)
        PROVE  UNCHANGED childExecuted
    BY <1>0, <2>3, VoteEffects
  <2>4. ASSUME NEW g \in Guards, NEW cfg \in SetupConfigs, InitMethod(g, cfg)
        PROVE  UNCHANGED childExecuted
    BY <1>0, <2>4, InitEffects
  <2> QED
    BY <1>0, <1>1, <1>2, <2>1, <2>2, <2>3, <2>4, StepKinds DEF Quiet
<1> QED
  BY <1>1, <1>2 DEF vars

(* The policy counts sets the way the contract's model does.               *)
LEMMA SameCardinality == \A S : Policy!Cardinality(S) = Cardinality(S)
  BY DEF Cardinality, Policy!Cardinality

(* The zero state of a ledger without guards is the policy's initial one.  *)
LEMMA PolicyInit == Init => Policy!Init
<1> SUFFICES ASSUME Init PROVE Policy!Init
  OBVIOUS
<1>1. \A g \in Guards : DoneOn(g) = {}
  BY LimitsAssumption DEF Init, DoneOn, Executed, PROPOSED_MARKER
<1> QED
  BY <1>1 DEF Init, Policy!Init

(* The clock, a deployment, a deposit or a reservation is at most a        *)
(* receipt of funds.                                                       *)
LEMMA QuietReceives ==
  ASSUME SafetyInv, TypeOK', Quiet
  PROVE  Policy!Receive
<1>1. balance' \in [Guards -> Nat]
  BY DEF TypeOK
<1>2. \A g \in Guards : DoneOn(g)' = DoneOn(g)
  BY DEF Quiet, DoneOn, Executed
<1> QED
  BY <1>1, <1>2 DEF Quiet, Policy!Receive

(* Initialization founds a vault that had no members.                      *)
LEMMA InitFounds ==
  ASSUME SafetyInv, TypeOK', NEW g \in Guards, NEW cfg \in SetupConfigs,
         InitMethod(g, cfg)
  PROVE  Policy!Found(g)
<1>0. TypeOK
  BY DEF SafetyInv
<1>1. /\ owners[g] = {} /\ threshold'[g] \in 1..Cardinality(owners'[g])
      /\ \A x \in Guards \ {g} :
           owners'[x] = owners[x] /\ threshold'[x] = threshold[x]
      /\ UNCHANGED <<approvals, nullifiers, childExecuted, configNonce, balance>>
  BY InitEffects
<1>2. Policy!Viable(owners'[g], threshold'[g])
  BY <1>1, SameCardinality DEF Policy!Viable, TypeOK
<1>3. owners' = [owners EXCEPT ![g] = owners'[g]]
  BY <1>0, <1>1 DEF TypeOK
<1>4. threshold' = [threshold EXCEPT ![g] = threshold'[g]]
  BY <1>0, <1>1 DEF TypeOK
<1>5. \A x \in Guards : DoneOn(x)' = DoneOn(x)
  BY <1>1 DEF DoneOn, Executed
<1> QED
  BY <1>1, <1>2, <1>3, <1>4, <1>5 DEF Policy!Found

(* A vote endorses one proposal of the current epoch.                      *)
LEMMA VoteEndorses ==
  ASSUME SafetyInv, TypeOK', NEW g \in Guards, NEW p \in Proposals,
         NEW k \in Keys, VoteMethod(g, p, k)
  PROVE  Policy!Endorse(g, p, k)
<1>1. /\ k \in owners[g] /\ HomeOf(p) = g /\ EpochOf(p) = configNonce[g]
      /\ nullifiers' = [nullifiers EXCEPT ![g][p] = @ \cup {k}]
      /\ \A x \in Guards, q \in Proposals : Executed(x, q)' <=> Executed(x, q)
      /\ UNCHANGED <<owners, threshold, configNonce, childExecuted, balance>>
  BY VoteEffects DEF HomeOf, EpochOf
<1>2. \A x \in Guards : DoneOn(x)' = DoneOn(x)
  BY <1>1 DEF DoneOn
<1> QED
  BY <1>1, <1>2 DEF Policy!Endorse

(* A proposal backed by its guard's present owners is mandated.            *)
LEMMA BackedIsMandated ==
  ASSUME SafetyInv, NEW h \in Guards, NEW p \in Proposals,
         p.configNonce = configNonce[h], Backed(h, p)
  PROVE  Policy!Mandated(h, p)
<1>1. threshold[h] >= 1
  BY DEF Backed, SafetyInv, GovernanceSound, SoundAt
<1> QED
  BY <1>1, SameCardinality DEF Policy!Mandated, Backed, EpochOf

(* A LOCAL execution carries its proposal on the guard itself.             *)
LEMMA LocalCarries ==
  ASSUME SafetyInv, TypeOK', ChildMarksRemote, NEW g \in Guards,
         NEW p \in Proposals, LocalMethod(g, p)
  PROVE  Policy!Carry(g, p)
<1>0. TypeOK
  BY DEF SafetyInv
<1>1. /\ ExecuteLocal(g, p)
      /\ balance'[g] <= balance[g]
      /\ \A x \in Guards \ {g} : balance'[x] >= balance[x]
      /\ \A x \in Guards \ {g} :
           owners'[x] = owners[x] /\ threshold'[x] = threshold[x]
      /\ \/ UNCHANGED <<owners, threshold, configNonce>>
         \/ configNonce' = [configNonce EXCEPT ![g] = @ + 1] /\ SoundAt(g)'
  BY LocalEffects
<1>2. /\ p.destination = "LOCAL" /\ HomeOf(p) = g
      /\ p.configNonce = configNonce[g] /\ Backed(g, p)
      /\ ~Executed(g, p) /\ Executed(g, p)'
      /\ \A x \in Guards, q \in Proposals :
           x # g \/ q # p => (Executed(x, q)' <=> Executed(x, q))
      /\ UNCHANGED <<nullifiers, childExecuted>>
  BY <1>1, LocalMarks DEF HomeOf
<1>3. p \notin DoneOn(g)
  BY <1>2 DEF DoneOn, ChildMarksRemote
<1>4. DoneOn(g)' = DoneOn(g) \cup {p} /\ \A x \in Guards \ {g} : DoneOn(x)' = DoneOn(x)
  BY <1>2 DEF DoneOn
<1>5. [x \in Guards |-> DoneOn(x)']
        = [[x \in Guards |-> DoneOn(x)] EXCEPT ![g] = @ \cup {p}]
  BY <1>4
<1>6. Policy!Mandated(HomeOf(p), p)
  BY <1>2, BackedIsMandated
<1>7. balance' \in [Guards -> Nat]
  BY DEF TypeOK
<1>8. Policy!Reconfigure(g, p) \/ UNCHANGED <<owners, threshold, configNonce>>
  <2> SUFFICES ASSUME configNonce' = [configNonce EXCEPT ![g] = @ + 1], SoundAt(g)'
               PROVE  Policy!Reconfigure(g, p)
    BY <1>1
  <2>1. Policy!Viable(owners'[g], threshold'[g])
    BY SameCardinality DEF Policy!Viable, SoundAt, TypeOK
  <2>2. owners' = [owners EXCEPT ![g] = owners'[g]]
    BY <1>0, <1>1 DEF TypeOK
  <2>3. threshold' = [threshold EXCEPT ![g] = threshold'[g]]
    BY <1>0, <1>1 DEF TypeOK
  <2> QED
    BY <1>2, <2>1, <2>2, <2>3 DEF Policy!Reconfigure
<1> QED
  BY <1>1, <1>2, <1>3, <1>5, <1>6, <1>7, <1>8 DEF Policy!Carry

(* A REMOTE execution carries its proposal, decided by the parent's        *)
(* owners, on the child.                                                   *)
LEMMA RemoteCarries ==
  ASSUME SafetyInv, TypeOK', NEW g \in Guards, NEW p \in Proposals,
         RemoteMethod(g, p)
  PROVE  Policy!Carry(g, p)
<1>0. TypeOK
  BY DEF SafetyInv
<1>1. /\ g \in initialized /\ parent[g] \in initialized \ {g}
      /\ HomeOf(p) = parent[g] /\ p.guardAddress = parent[g]
      /\ p.configNonce = configNonce[parent[g]] /\ Backed(parent[g], p)
      /\ p \notin childExecuted[g]
      /\ childExecuted' = [childExecuted EXCEPT ![g] = @ \cup {p}]
      /\ UNCHANGED <<approvals, nullifiers, owners, threshold>>
      /\ \/ UNCHANGED configNonce
         \/ configNonce' = [configNonce EXCEPT ![g] = @ + 1]
  BY RemoteEffects DEF HomeOf
<1>2. /\ balance'[g] <= balance[g]
      /\ \A x \in Guards \ {g} : balance'[x] >= balance[x]
      /\ balance'[g] + balance'[HomeOf(p)] = balance[g] + balance[HomeOf(p)]
      /\ balance' \in [Guards -> Nat]
  BY <1>1, RemoteEffects DEF TypeOK
<1>3. ~Executed(g, p)
  <2>1. EXECUTED_MARKER # 0
    BY LimitsAssumption DEF PROPOSED_MARKER
  <2> QED
    BY <1>1, <2>1 DEF SafetyInv, NoFutureProposals, Executed
<1>4. p \notin DoneOn(g)
  BY <1>1, <1>3 DEF DoneOn
<1>5. /\ childExecuted'[g] = childExecuted[g] \cup {p}
      /\ \A x \in Guards \ {g} : childExecuted'[x] = childExecuted[x]
  BY <1>0, <1>1 DEF TypeOK
<1>6. DoneOn(g)' = DoneOn(g) \cup {p} /\ \A x \in Guards \ {g} : DoneOn(x)' = DoneOn(x)
  BY <1>1, <1>5 DEF DoneOn, Executed
<1>7. [x \in Guards |-> DoneOn(x)']
        = [[x \in Guards |-> DoneOn(x)] EXCEPT ![g] = @ \cup {p}]
  BY <1>6
<1>8. Policy!Mandated(HomeOf(p), p)
  BY <1>0, <1>1, BackedIsMandated DEF TypeOK
<1>9. Policy!Reconfigure(g, p) \/ UNCHANGED <<owners, threshold, configNonce>>
  <2> SUFFICES ASSUME configNonce' = [configNonce EXCEPT ![g] = @ + 1]
               PROVE  Policy!Reconfigure(g, p)
    BY <1>1
  <2>1. Policy!Viable(owners'[g], threshold'[g])
    BY <1>0, <1>1, SameCardinality
    DEF Policy!Viable, SafetyInv, GovernanceSound, SoundAt, TypeOK
  <2>2. owners' = [owners EXCEPT ![g] = owners'[g]]
        /\ threshold' = [threshold EXCEPT ![g] = threshold'[g]]
    BY <1>0, <1>1 DEF TypeOK
  <2> QED
    BY <1>1, <2>1, <2>2 DEF Policy!Reconfigure
<1> QED
  BY <1>1, <1>2, <1>4, <1>7, <1>8, <1>9 DEF Policy!Carry

(* Every behaviour of the contract, on any ledger of guards, is one of the *)
(* multisig policy: counting approvals, nullifying voters and comparing    *)
(* nonces never carries a proposal without a quorum of present members.    *)
THEOREM ContractImplementsPolicy == Spec => ImplementsPolicy
<1>1. Init => Policy!Init /\ ChildMarksRemote
  BY PolicyInit DEF Init, ChildMarksRemote
<1>2. SafetyInv /\ SafetyInv' /\ ChildMarksRemote /\ [Next]_vars => ChildMarksRemote'
  BY NextChildMarksRemote
<1>3. SafetyInv /\ SafetyInv' /\ ChildMarksRemote /\ [Next]_vars
        => [Policy!Next]_(Policy!vars)
  <2> SUFFICES ASSUME SafetyInv, SafetyInv', ChildMarksRemote, [Next]_vars
               PROVE  [Policy!Next]_(Policy!vars)
    OBVIOUS
  <2>0. TypeOK /\ TypeOK'
    BY DEF SafetyInv
  <2>1. CASE UNCHANGED vars
    <3>1. \A g \in Guards : DoneOn(g)' = DoneOn(g)
      BY <2>1 DEF vars, DoneOn, Executed
    <3> QED
      BY <2>1, <3>1 DEF vars, Policy!vars
  <2>2. CASE Next
    BY <2>0, <2>2, StepKinds, QuietReceives, InitFounds, VoteEndorses,
       LocalCarries, RemoteCarries DEF Policy!Next
  <2> QED
    BY <2>1, <2>2
<1> QED
  BY <1>1, <1>2, <1>3, Safety, PTL DEF Spec, ImplementsPolicy, Policy!Spec

=============================================================================
