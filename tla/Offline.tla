------------------------------ MODULE Offline -------------------------------
(***************************************************************************)
(* Signing on an air-gapped machine.  A page exports a request in several   *)
(* reads while the chain moves (ui/lib/offline-signing.ts); the file may be *)
(* kept, run again or altered on its way; the CLI checks it, shows a        *)
(* summary, asks, then builds and signs (offline-cli/src); any page may be  *)
(* given any signed file, altered or not, and broadcasts the ones it        *)
(* accepts (OfflineSigningFlow.tsx).                                        *)
(*                                                                         *)
(* Addresses are numbers, 0 the empty key, ordered as their base58 strings. *)
(* A hash is an injective record of what it hashes.  A number in a file is  *)
(* a string: the field element it denotes, and how it is written.           *)
(***************************************************************************)
EXTENDS Integers, FiniteSets, Sequences, SequencesExt

CONSTANTS
    Worlds,           \* where a behaviour may start: a chain, its pages, bounds
    MAX_RECEIVERS, MAX_OWNERS, Threshold,
    Domains,          \* MINA_NETWORK_DOMAIN of the CLI
    NetworkId,        \* networkId of the page's configuration
    Fees, OFFLINE_MIN_FEE, OFFLINE_MAX_FEE,
    Foreign,          \* what an altered field may hold, by field
    None

ASSUME OfflineLimits == MAX_RECEIVERS \in Nat \ {0}

VARIABLES
    chain,      \* stores: by vault; child: the SubVault's account; exists: accounts;
                \* accounts: funds and nonces of vaults and payers; slot: the time
    pages,      \* the pages open
    fees,       \* the fee each page expects of each action it exported
    exp,        \* the export in progress
    requests,   \* request files
    cli,        \* the CLI process
    responses,  \* signed files: the transaction, and the fields beside it
    upload,     \* the reviewed upload of a page
    landed,     \* transactions on chain, and the page that sent each
    left        \* moves of others, exports and alterations of files still to come

vars == <<chain, pages, fees, exp, requests, cli, responses, upload, landed, left>>

MemoHash(m) == [memo |-> m]
ProposalHash(c) == [proposal |-> c]
ConfigHash(owners, threshold) == [owners |-> owners, threshold |-> threshold]
OwnersCommitment(owners) == [commitment |-> owners]

(* The number n as Field.toString writes it; the string '1', say, is the    *)
(* text 1.  Other texts ('01', '0x1', a number beyond the field's modulus)  *)
(* may denote the same element.                                             *)
Num(n) == [num |-> n, text |-> n]

IsNum(d) == "num" \in DOMAIN d
Plain(d) == IsNum(d) => d.text = d.num
Text(d) == IF IsNum(d) THEN d.text ELSE 0

(* Field(d): the spelling is forgotten.                                     *)
FieldOf(d) == IF IsNum(d) THEN Num(d.num) ELSE d

Row(to, amount) == [to |-> to, amount |-> amount]

Lifecycle == {"reclaimChild", "destroyChild", "enableChildMultiSig"}
OwnerChange == {"addOwner", "removeOwner"}
Payment == {"transfer", "allocateChild"}
TxTypes == Payment \cup OwnerChange \cup Lifecycle
           \cup {"changeThreshold", "setDelegate", "createChild"}

Remote(t) == t \in Lifecycle \cup {"createChild"}

(* A proposal on chain went through propose: it fills the contract's slots, *)
(* only a payment uses more than the first, the types that carry a number   *)
(* or a child have one, and numbers are served as the chain writes them.    *)
ContentFields ==
    {"vault", "txType", "rows", "data", "child", "configNonce", "memoHash", "expirySlot"}

OnChain(c) ==
    /\ ContentFields \subseteq DOMAIN c
    /\ Len(c.rows) = MAX_RECEIVERS
    /\ c.txType \notin Payment => \A i \in 2 .. MAX_RECEIVERS : c.rows[i].to = 0
    /\ c.txType \in {"changeThreshold", "reclaimChild", "enableChildMultiSig"} => IsNum(c.data)
    /\ c.data = FieldOf(c.data) /\ c.expirySlot = FieldOf(c.expirySlot) /\ IsNum(c.expirySlot)
    /\ Remote(c.txType) => c.child # 0

(* A proposal's page has it as the backend serves it, with its hash; a page *)
(* of a new proposal has what was entered.                                  *)
Served(p) ==
    /\ {"content", "memo", "hash"} \subseteq DOMAIN p
    /\ OnChain(p.content) /\ p.hash = ProposalHash(p.content)

Entered(input) ==
    /\ {"owners", "number", "expirySlot"} \subseteq DOMAIN input
    /\ input.owners \in Seq(Nat) /\ IsNum(input.number) /\ IsNum(input.expirySlot)

PageOK(pg) == IF pg.proposal = None THEN Entered(pg.input) ELSE Served(pg.proposal)

ASSUME OfflineWorlds ==
    /\ \A w \in Worlds : \A pg \in w.pages : PageOK(pg)
    /\ \A owners \in Foreign.owners : owners \in Seq(Nat)
    /\ \A n \in Foreign.number : IsNum(n)

-----------------------------------------------------------------------------
(* Receivers and owner lists (build-tx.ts, storage.ts).                     *)

(* buildTransferReceivers pads or cuts the rows to the contract's slots.    *)
Slots(rows) == [i \in 1 .. MAX_RECEIVERS |-> IF i <= Len(rows) THEN rows[i] ELSE Row(0, 0)]

RowsValid(rows) == \A i \in 1 .. Len(rows) : rows[i].to = 0 => rows[i].amount = 0

RealReceivers(rows) == SelectSeq(rows, LAMBDA r : r.to # 0)

InsertAfterFirst(owners, o, i) == SubSeq(owners, 1, i) \o <<o>> \o SubSeq(owners, i + 1, Len(owners))

(* addSorted: before the first owner with a greater address.                *)
AddSorted(owners, o) ==
    LET greater == {i \in 1 .. Len(owners) : owners[i] > o}
        at == IF greater = {} THEN Len(owners)
              ELSE (CHOOSE i \in greater : \A j \in greater : i <= j) - 1
    IN InsertAfterFirst(owners, o, at)

(* An OwnerStore filled with addSorted, one owner after the other.          *)
SortedOwners(owners) ==
    LET store[i \in 0 .. Len(owners)] ==
          IF i = 0 THEN <<>> ELSE AddSorted(store[i - 1], owners[i])
    IN  store[Len(owners)]

(* insertPositionFor: some position gives the approved commitment.          *)
ExecutableAddOwner(owners, target, data) ==
    /\ target \notin ToSet(owners)
    /\ \E i \in 0 .. Len(owners) : OwnersCommitment(InsertAfterFirst(owners, target, i)) = data

(* checkedChildConfigHash.                                                  *)
ConfigWellFormed(owners, threshold) ==
    /\ Len(owners) \in 1 .. MAX_OWNERS
    /\ threshold \in 1 .. Len(owners)
    /\ IsInjective(owners) /\ 0 \notin ToSet(owners)

-----------------------------------------------------------------------------
(* The chain, and what the contract's methods check against the account a   *)
(* transaction is built on (external: the MinaGuard module models them).    *)

(* minaNetwork: the network of the page, and of the chain it talks to.      *)
minaNetwork == IF NetworkId = "mainnet" THEN "mainnet" ELSE "testnet"

Votes(s, c) == {v \in s.votes : v.proposal = c}
OpenIn(s, c) == Votes(s, c) # {} /\ c \notin s.done /\ c.configNonce = s.configNonce
ApprovedIn(s, c) == OpenIn(s, c) /\ Cardinality(Votes(s, c)) >= Threshold

NewAccounts(c, exists) ==
    {i \in 1 .. MAX_RECEIVERS : c.rows[i].to \notin exists \cup {0}}

(* The method of t accepts the vault's stores s and the child's account.    *)
ContractAccepts(t, s, child) ==
    LET c == t.content IN
    /\ c.vault = s.vault /\ c.configNonce = s.configNonce
    /\ t.action \in {"propose", "approve"} =>
         /\ t.payer \in ToSet(s.owners) /\ t.key = t.payer
         /\ [by |-> t.payer, proposal |-> c] \notin s.votes
    /\ t.action = "propose" => Votes(s, c) = {}
    /\ t.action = "approve" => OpenIn(s, c)
    /\ t.action = "execute" =>
         /\ ApprovedIn(s, c)
         /\ Remote(c.txType) => t.target = c.child /\ c \notin child.done
         /\ c.txType = "createChild" =>
              /\ child.status = "reserved" /\ child.config = c.data
              /\ t.setup = c.data
         /\ c.txType \in Lifecycle \cup {"allocateChild"} => child.status = "live"
         /\ c.txType = "addOwner" => ExecutableAddOwner(s.owners, c.rows[1].to, c.data)
         /\ c.txType = "removeOwner" => c.rows[1].to \in ToSet(s.owners)

(* What no snapshot can tell and the CLI does not look at: the slot in      *)
(* which the transaction is included, and whether the payer and the paying  *)
(* account can pay.                                                         *)
Timely(t) == t.content.expirySlot.num = 0 \/ chain.slot <= t.content.expirySlot.num

Amount(rows) == MapThenSumSet(LAMBDA i : rows[i].amount, 1 .. MAX_RECEIVERS)

Executes(t, types) == t.action = "execute" /\ t.content.txType \in types

Funded(t) ==
    /\ t.fee <= chain.accounts[t.payer].funds
    /\ t.charge <= chain.accounts[t.payer].funds - t.fee
    /\ Executes(t, Payment) => Amount(t.content.rows) <= chain.accounts[t.vault].funds
    /\ Executes(t, {"reclaimChild"}) => t.content.data.num <= chain.child.funds
    /\ Executes(t, {"destroyChild"}) => t.balance <= chain.child.funds

(* The pool takes a transaction whose payer can pay for it, in its turn.    *)
Pooled(t) ==
    /\ t.signed /\ t.network = minaNetwork
    /\ t.nonce = chain.accounts[t.payer].nonce
    /\ t.fee <= chain.accounts[t.payer].funds

(* The transaction applies: preconditions, account creation and balances.   *)
Lands(t) ==
    LET s == chain.stores[t.vault] IN
    /\ Pooled(t) /\ Timely(t) /\ Funded(t)
    /\ t.pre = s /\ ContractAccepts(t, s, chain.child)
    /\ Executes(t, Lifecycle) => t.childPre = chain.child.done
    /\ Executes(t, {"transfer"}) =>
         t.charge = Cardinality(NewAccounts(t.content, chain.exists))
    /\ t.action = "propose" /\ t.content.txType = "createChild" =>
         /\ chain.child.status \in {"none", "bare"}
         /\ t.charge = (IF chain.child.status = "none" THEN 1 ELSE 0)

Voted(s, p, c) == [s EXCEPT !.votes = @ \cup {[by |-> p, proposal |-> c]}]

Reconfigured(s, owners) == [s EXCEPT !.owners = owners, !.configNonce = @ + 1]

StoresAfter(t, s) ==
    LET c == t.content IN
    CASE t.action # "execute" -> Voted(s, t.payer, c)
      [] t.action = "execute" /\ Remote(c.txType) -> s
      [] OTHER ->
           LET done == [s EXCEPT !.done = @ \cup {c}] IN
           CASE c.txType = "addOwner" -> Reconfigured(done, c.data.commitment)
             [] c.txType = "removeOwner" ->
                  Reconfigured(done, SelectSeq(s.owners, LAMBDA o : o # c.rows[1].to))
             [] c.txType = "changeThreshold" -> Reconfigured(done, s.owners)
             [] OTHER -> done

(* What the SubVault pays its parent, and what it is paid.                  *)
Repaid(t) == CASE Executes(t, {"reclaimChild"}) -> t.content.data.num
               [] Executes(t, {"destroyChild"}) -> t.balance
               [] OTHER -> 0

Spent(t) == IF Executes(t, Payment) THEN Amount(t.content.rows) ELSE 0

ChildAfter(t, child) ==
    LET c == t.content IN
    CASE t.action = "propose" /\ c.txType = "createChild" ->
           [child EXCEPT !.status = "reserved", !.config = t.setup]
      [] t.action = "execute" /\ Remote(c.txType) ->
           [child EXCEPT !.status = "live", !.done = @ \cup {c}, !.funds = @ - Repaid(t)]
      [] Executes(t, {"allocateChild"}) -> [child EXCEPT !.funds = @ + Spent(t)]
      [] OTHER -> child

(* The payer's turn is used and the fee paid, also by one that fails.       *)
Charged(t, paid) ==
    [chain.accounts EXCEPT ![t.payer] = [funds |-> @.funds - paid, nonce |-> @.nonce + 1]]

AccountsAfter(t) ==
    [Charged(t, t.fee + t.charge) EXCEPT ![t.vault].funds = @ + Repaid(t) - Spent(t)]

ExistsAfter(t, exists) ==
    IF t.action = "execute" /\ t.content.txType = "transfer"
    THEN exists \cup ({t.content.rows[i].to : i \in 1 .. MAX_RECEIVERS} \ {0}) ELSE exists

(* Others act between any two steps of ours: an owner votes, the owner list *)
(* changes, a receiver's account or the child's bare account is created, an *)
(* account is emptied, the payer sends something else, time passes.         *)
OthersMove ==
    /\ left.moves > 0
    /\ left' = [left EXCEPT !.moves = @ - 1]
    /\ \/ \E v \in DOMAIN chain.stores :
            LET s == chain.stores[v] IN
            \E new \in {Voted(s, p, w.proposal) : p \in ToSet(s.owners), w \in s.votes}
                        \cup {Reconfigured(s, Tail(s.owners))} :
              /\ new # s
              /\ chain' = [chain EXCEPT !.stores[v] = new]
       \/ \E pg \in pages : \E r \in ToSet(pg.receivers) \ (chain.exists \cup {0}) :
            chain' = [chain EXCEPT !.exists = @ \cup {r}]
       \/ /\ chain.child.status = "none"
          /\ chain' = [chain EXCEPT !.child.status = "bare"]
       \/ \E a \in DOMAIN chain.accounts :
            /\ chain.accounts[a].funds > 0
            /\ chain' = [chain EXCEPT !.accounts[a].funds = 0]
       \/ \E pg \in pages : chain' = [chain EXCEPT !.accounts[pg.payer].nonce = @ + 1]
       \/ chain' = [chain EXCEPT !.slot = @ + 1]
    /\ UNCHANGED <<pages, fees, exp, requests, cli, responses, upload, landed>>

-----------------------------------------------------------------------------
(* The online page builds a request (offline-signing.ts).                   *)

NetworkSupported == NetworkId \in {"mainnet", "testnet", "devnet"}

Idle == [pc |-> "idle"]

(* A page of a new proposal proposes; a proposal's page approves it and,    *)
(* once the votes suffice, executes it.                                     *)
Offered(pg) ==
    IF pg.proposal = None THEN {"propose"}
    ELSE {"approve"} \cup
         (IF Cardinality(Votes(chain.stores[pg.vault], pg.proposal.content)) >= Threshold
          THEN {"execute"} ELSE {})

Actions == {"propose", "approve", "execute"}

Forgotten == [a \in Actions |-> None]

(* The fresh configNonce is read first; the fee the page expected of an     *)
(* earlier export of the action is forgotten.                               *)
StartExport(pg, a) ==
    /\ exp.pc = "idle" /\ left.exports > 0
    /\ a \in Offered(pg) /\ NetworkSupported
    /\ a = "propose" => pg.payer \in ToSet(chain.stores[pg.vault].owners)
    /\ fees' = [fees EXCEPT ![pg][a] = None]
    /\ exp' = [pc |-> "checkpoint", page |-> pg, action |-> a,
               configNonce |-> chain.stores[pg.vault].configNonce]
    /\ left' = [left EXCEPT !.exports = @ - 1]
    /\ UNCHANGED <<chain, pages, requests, cli, responses, upload, landed>>

(* exportStoreCheckpoint: stores verified against the chain at this moment. *)
TakeCheckpoint ==
    /\ exp.pc = "checkpoint"
    /\ exp' = [pc |-> "accounts", page |-> exp.page, action |-> exp.action,
               configNonce |-> exp.configNonce, checkpoint |-> chain.stores[exp.page.vault]]
    /\ UNCHANGED <<chain, pages, fees, requests, cli, responses, upload, landed, left>>

(* fetchGraphQLAccount of the vault, the payer and the child.               *)
FetchAccounts ==
    /\ exp.pc = "accounts"
    /\ exp' = [pc |-> "rest", page |-> exp.page, action |-> exp.action,
               configNonce |-> exp.configNonce, checkpoint |-> exp.checkpoint,
               snapshot |-> chain.stores[exp.page.vault], child |-> chain.child,
               nonce |-> chain.accounts[exp.page.payer].nonce]
    /\ UNCHANGED <<chain, pages, fees, requests, cli, responses, upload, landed, left>>

ProposalOf(e) == e.page.proposal.content

(* fetchVerifiedChildConfig: the reservation hashes to the proposal's data. *)
ChildConfigVerified(e) ==
    e.action # "propose" /\ ProposalOf(e).txType = "createChild" =>
        chain.child.status # "none" /\ chain.child.config = ProposalOf(e).data

(* The builder of each action, after the accounts were read.                *)
ProposeBundle(e, fee) ==
    [action |-> e.action, vault |-> e.page.vault, payer |-> e.page.payer,
     network |-> minaNetwork, fee |-> fee, checkpoint |-> e.checkpoint,
     snapshot |-> e.snapshot, child |-> e.child, nonce |-> e.nonce,
     configNonce |-> e.configNonce,
     input |-> e.page.input, proposal |-> e.page.proposal, exists |-> {},
     childAddress |-> 0, childEvents |-> {}, childOwners |-> <<>>, childThreshold |-> 0]

(* A SubVault's configuration is read with the child's address.             *)
ApproveBundle(e, fee) ==
    LET p == ProposalOf(e)
        create == p.txType = "createChild"
    IN [ProposeBundle(e, fee) EXCEPT
          !.childAddress = IF Remote(p.txType) THEN p.child ELSE 0,
          !.childOwners = IF create THEN chain.child.config.owners ELSE <<>>,
          !.childThreshold = IF create THEN chain.child.config.threshold ELSE 0]

(* So are the existing receivers, the account of an allocation's recipient  *)
(* and the child's events.                                                  *)
ExecuteBundle(e, fee) ==
    LET t == ProposalOf(e).txType
    IN [ApproveBundle(e, fee) EXCEPT
          !.exists = ToSet(e.page.receivers) \cap chain.exists,
          !.child = IF t = "allocateChild" THEN chain.child ELSE @,
          !.childEvents = IF t \in Lifecycle THEN chain.child.done ELSE {}]

RequestOf(e, fee) ==
    CASE e.action = "propose" -> ProposeBundle(e, fee)
      [] e.action = "approve" -> ApproveBundle(e, fee)
      [] OTHER -> ExecuteBundle(e, fee)

(* The file is saved, and the page expects its fee (handleExport,           *)
(* recordExport).                                                           *)
WriteRequest(fee) ==
    /\ exp.pc = "rest" /\ ChildConfigVerified(exp)
    /\ fee \in OFFLINE_MIN_FEE .. OFFLINE_MAX_FEE
    /\ requests' = requests \cup {RequestOf(exp, fee)}
    /\ fees' = [fees EXCEPT ![exp.page][exp.action] = fee]
    /\ exp' = Idle
    /\ UNCHANGED <<chain, pages, cli, responses, upload, landed, left>>

(* A read fails, or the fee or the child's configuration is refused.        *)
ExportFails ==
    /\ exp.pc # "idle" /\ exp' = Idle
    /\ UNCHANGED <<chain, pages, fees, requests, cli, responses, upload, landed, left>>

(* startOver: the page stops expecting the files it exported.               *)
StartOver(pg) ==
    /\ fees[pg] # Forgotten
    /\ fees' = [fees EXCEPT ![pg] = Forgotten]
    /\ UNCHANGED <<chain, pages, exp, requests, cli, responses, upload, landed, left>>

-----------------------------------------------------------------------------
(* A request with one field replaced: an altered payer comes with its       *)
(* account, an altered number may denote the same element.                  *)

Altered(r) ==
    {[r EXCEPT !.fee = x] : x \in Foreign.fee}
    \cup {[r EXCEPT !.network = x] : x \in Foreign.network}
    \cup {[r EXCEPT !.payer = x] : x \in Foreign.payer}
    \cup {[r EXCEPT !.exists = x] : x \in Foreign.exists}
    \cup {[r EXCEPT !.checkpoint.owners = SortedOwners(@)]}
    \cup (IF r.childOwners = <<>> THEN {}
          ELSE {[r EXCEPT !.childOwners = x] : x \in Foreign.owners}
               \cup {[r EXCEPT !.childThreshold = 1], [r EXCEPT !.childAddress = Foreign.address]})
    \cup (IF r.action = "propose"
          THEN {[r EXCEPT !.input.owners = x] : x \in Foreign.owners}
               \cup {[r EXCEPT !.input.memo = x] : x \in Foreign.memo}
               \cup {[r EXCEPT !.input.rows = x] : x \in Foreign.rows}
               \cup {[r EXCEPT !.input.txType = x] : x \in Foreign.txType}
               \cup {[r EXCEPT !.input.child = Foreign.address]}
               \cup {[r EXCEPT !.input.number = x] : x \in Foreign.number}
               \cup {[r EXCEPT !.input.expirySlot = x] : x \in Foreign.number}
          ELSE {[r EXCEPT !.proposal.memo = x] : x \in Foreign.memo}
               \cup {[r EXCEPT !.proposal.content.rows = x] : x \in Foreign.rows}
               \cup {[r EXCEPT !.proposal.content.txType = x] : x \in Foreign.txType}
               \cup {[r EXCEPT !.proposal.content.memoHash = MemoHash(x)] : x \in Foreign.memo}
               \cup {[r EXCEPT !.childAddress = Foreign.address]}
               \cup {[r EXCEPT !.proposal.content.data = x] : x \in Foreign.number}
               \cup {[r EXCEPT !.proposal.content.expirySlot = x] : x \in Foreign.number})

Alter ==
    /\ left.altered > 0
    /\ \E r \in requests : \E a \in Altered(r) :
         requests' = (requests \ {r}) \cup {a}
    /\ left' = [left EXCEPT !.altered = @ - 1]
    /\ UNCHANGED <<chain, pages, fees, exp, cli, responses, upload, landed>>

-----------------------------------------------------------------------------
(* What the builders make of a request (build-tx.ts).                       *)

(* governanceTargetAddress.                                                 *)
TargetOf(input) ==
    IF input.txType \in OwnerChange \/ (input.txType = "setDelegate" /\ ~input.undelegate)
    THEN input.address ELSE 0

(* buildReceiversForProposal.                                               *)
ProposeRows(input) ==
    IF input.txType \in Payment THEN Slots(input.rows)
    ELSE Slots(IF TargetOf(input) = 0 THEN <<>> ELSE <<Row(TargetOf(input), 0)>>)

(* buildProposalDataField.  The switch of a SubVault is a Boolean.          *)
Switch(n) == IF n # 0 THEN 1 ELSE 0

ProposeData(input, owners) ==
    CASE input.txType \in {"changeThreshold", "reclaimChild"} -> FieldOf(input.number)
      [] input.txType = "enableChildMultiSig" -> Num(Switch(input.number.num))
      [] input.txType = "createChild" -> input.configHash
      [] input.txType = "addOwner" -> OwnersCommitment(AddSorted(owners, input.address))
      [] OTHER -> Num(0)

ProposeContent(r) ==
    [vault |-> r.vault, txType |-> r.input.txType, rows |-> ProposeRows(r.input),
     data |-> ProposeData(r.input, r.checkpoint.owners), child |-> r.input.child,
     configNonce |-> r.configNonce, memoHash |-> MemoHash(r.input.memo),
     expirySlot |-> FieldOf(r.input.expirySlot)]

(* buildProposalStruct; an execution of a remote type falls back on the     *)
(* bundle's child address.                                                  *)
BuiltContent(r) ==
    LET c == r.proposal.content IN
    [c EXCEPT !.rows = Slots(@), !.data = FieldOf(@), !.expirySlot = FieldOf(@),
              !.child = IF @ = 0 /\ r.action = "execute" /\ Remote(c.txType)
                        THEN r.childAddress ELSE @]

ContentOf(r) == IF r.action = "propose" THEN ProposeContent(r) ELSE BuiltContent(r)

TypeOf(r) == IF r.action = "propose" THEN r.input.txType ELSE r.proposal.content.txType

(* countExecuteNewAccounts: hash-bound slots whose flag is not true.        *)
countExecuteNewAccounts(r) ==
    IF TypeOf(r) # "transfer" THEN 0
    ELSE LET rows == Slots(r.proposal.content.rows) IN
         Cardinality({i \in 1 .. Len(rows) : rows[i].to \notin r.exists \cup {0}})

AlwaysNew(child) == "new"

(* deployTargetFromSnapshot, for a snapshot it does not refuse.             *)
deployTargetFromSnapshot(child) == IF child.status = "none" THEN "new" ELSE "existing"

Deployable(child) == child.status \in {"none", "bare"}

(* The accounts a transaction pays to create.                               *)
Charge(r) ==
    CASE r.action = "execute" -> countExecuteNewAccounts(r)
      [] r.action = "propose" /\ r.input.txType = "createChild" ->
           IF deployTargetFromSnapshot(r.child) = "new" THEN 1 ELSE 0
      [] OTHER -> 0

(* assertCreateChildProposeConfig: the order handlePropose reserves in.     *)
assertCreateChildProposeConfig(r) ==
    r.input.txType = "createChild" =>
        /\ Plain(r.input.number)
        /\ ConfigWellFormed(r.input.owners, r.input.number.num)
        /\ ConfigHash(SortedOwners(r.input.owners), r.input.number.num) = r.input.configHash

ConfigUnchecked(r) == TRUE

(* assertCreateChildBundleConfig: the order the child reserved.             *)
assertCreateChildBundleConfig(r) ==
    TypeOf(r) = "createChild" =>
        /\ r.childAddress \in {0, r.proposal.content.child}
        /\ ConfigWellFormed(r.childOwners, r.childThreshold)
        /\ ConfigHash(r.childOwners, r.childThreshold) = r.proposal.content.data

assertBundleMemo(r) == MemoHash(r.proposal.memo) = r.proposal.content.memoHash

resolveBundleFee(r) == r.fee \in OFFLINE_MIN_FEE .. OFFLINE_MAX_FEE

(* main, before the summary.                                                *)
BundleValid(r) ==
    /\ TypeOf(r) \in TxTypes
    /\ IF r.action = "propose" THEN assertCreateChildProposeConfig(r)
       ELSE assertCreateChildBundleConfig(r) /\ assertBundleMemo(r)
    /\ resolveBundleFee(r)

-----------------------------------------------------------------------------
(* The summary (summary.ts).                                                *)

NoBody == [rows |-> <<>>, target |-> 0, number |-> 0, child |-> 0, owners |-> {}]

(* renderBody: what the lines of a type say.                                *)
renderBody(t, src) ==
    CASE t \in Payment -> [NoBody EXCEPT !.rows = RealReceivers(Slots(src.rows))]
      [] t \in OwnerChange \cup {"setDelegate"} -> [NoBody EXCEPT !.target = src.target]
      [] t = "changeThreshold" -> [NoBody EXCEPT !.number = src.number]
      [] t = "createChild" ->
           [NoBody EXCEPT !.child = src.child, !.owners = ToSet(src.owners), !.number = src.number]
      [] t = "destroyChild" -> [NoBody EXCEPT !.child = src.child]
      [] OTHER -> [NoBody EXCEPT !.child = src.child, !.number = src.number]

(* The first receiver named anywhere in the rows.                           *)
Target0(rows) ==
    LET real == {i \in 1 .. Len(rows) : rows[i].to # 0}
    IN  IF real = {} THEN 0 ELSE rows[CHOOSE i \in real : \A j \in real : i <= j].to

(* Thresholds and amounts are shown as they are written, and a SubVault is  *)
(* enabled, the summary says, when the string is '1'.                       *)
SourceOf(r) ==
    IF r.action = "propose"
    THEN [rows |-> r.input.rows, target |-> TargetOf(r.input),
          number |-> IF r.input.txType = "enableChildMultiSig"
                     THEN Switch(r.input.number.num) ELSE Text(r.input.number),
          child |-> r.input.child, owners |-> r.input.owners]
    ELSE LET c == r.proposal.content IN
         [rows |-> c.rows, target |-> Target0(c.rows),
          number |-> CASE c.txType = "createChild" -> r.childThreshold
                       [] c.txType = "enableChildMultiSig" -> IF Text(c.data) = 1 THEN 1 ELSE 0
                       [] OTHER -> Text(c.data),
          child |-> IF c.child = 0 THEN r.childAddress ELSE c.child,
          owners |-> r.childOwners]

ExpiryOf(r) == IF r.action = "propose" THEN r.input.expirySlot ELSE r.proposal.content.expirySlot

renderBundleSummary(r) ==
    [action |-> r.action, txType |-> TypeOf(r), vault |-> r.vault, payer |-> r.payer,
     network |-> r.network, fee |-> r.fee,
     memo |-> IF r.action = "propose" THEN r.input.memo ELSE r.proposal.memo,
     expirySlot |-> Text(ExpiryOf(r)),
     body |-> renderBody(TypeOf(r), SourceOf(r)), charge |-> Charge(r)]

-----------------------------------------------------------------------------
(* The CLI process.                                                         *)

(* An invalid request ends the process before anything is shown.            *)
RunCli(r, key, domain) ==
    /\ cli.pc = "idle" /\ BundleValid(r)
    /\ cli' = [pc |-> "asked", req |-> r, key |-> key, domain |-> domain,
               shown |-> renderBundleSummary(r)]
    /\ UNCHANGED <<chain, pages, fees, exp, requests, responses, upload, landed, left>>

(* confirmOrExit: y, or --yes; anything else exits.                         *)
ConfirmOrExit(yes) ==
    /\ cli.pc = "asked"
    /\ cli' = IF yes THEN [cli EXCEPT !.pc = "confirmed"] ELSE Idle
    /\ UNCHANGED <<chain, pages, fees, exp, requests, responses, upload, landed, left>>

(* assertBundleNetwork.                                                     *)
assertBundleNetwork(network, domain) ==
    /\ network \in {"mainnet", "testnet"}
    /\ network = domain \/ (network = "testnet" /\ domain = "devnet")

(* rebuildVerifiedStores: the checkpoint is the vault's and has the roots   *)
(* of the account snapshot.                                                 *)
rebuildVerifiedStores(r) == r.snapshot.vault = r.vault /\ r.checkpoint = r.snapshot

assertRecomputedProposalHash(r) == ProposalHash(BuiltContent(r)) = r.proposal.hash

NoMemo == "none"

(* The network the CLI builds for, and the accounts it builds on: what the  *)
(* request says, for there is no node to ask.                               *)
configureNetwork(r) == r.network

injectAccounts(r) == [vault |-> r.snapshot, child |-> r.child]

(* The transaction of a handler, signed.  The fee payer's signature counts  *)
(* only when the key is the payer's.                                        *)
TransactionOf(c) ==
    LET r == c.req
        create == TypeOf(r) = "createChild"
    IN [action |-> r.action, vault |-> r.vault, payer |-> r.payer, network |-> configureNetwork(r),
        fee |-> r.fee, content |-> ContentOf(r), pre |-> injectAccounts(r).vault,
        childPre |-> injectAccounts(r).child.done, balance |-> injectAccounts(r).child.funds,
        nonce |-> r.nonce,
        key |-> c.key, signed |-> (c.key = r.payer), charge |-> Charge(r),
        memo |-> CASE r.action = "propose" -> r.input.memo
                   [] r.action = "approve" -> NoMemo
                   [] create -> NoMemo
                   [] OTHER -> r.proposal.memo,
        target |-> IF r.action = "execute" /\ Remote(TypeOf(r))
                   THEN (IF r.childAddress # 0 THEN r.childAddress ELSE r.proposal.content.child)
                   ELSE r.vault,
        setup |-> CASE r.action = "propose" /\ create ->
                         ConfigHash(SortedOwners(r.input.owners), r.input.number.num)
                    [] r.action = "execute" /\ create ->
                         ConfigHash(r.childOwners, r.childThreshold)
                    [] OTHER -> None]

HandlePropose(r) ==
    /\ RowsValid(r.input.rows)
    /\ assertCreateChildProposeConfig(r)
    /\ r.input.txType = "createChild" => r.input.key = r.input.child /\ Deployable(r.child)
    /\ r.input.txType = "addOwner" => r.input.address \notin ToSet(r.checkpoint.owners)

HandleApprove(r) ==
    LET c == BuiltContent(r) IN
    /\ RowsValid(r.proposal.content.rows)
    /\ c.txType = "addOwner" => ExecutableAddOwner(r.checkpoint.owners, c.rows[1].to, c.data)
    /\ assertCreateChildBundleConfig(r)
    /\ assertRecomputedProposalHash(r)
    /\ assertBundleMemo(r)

(* A child that is initialised already is refused ...                       *)
HandleCreateChild(r) ==
    assertCreateChildBundleConfig(r) /\ r.child.status \notin {"none", "live"}

(* ... the child's execution map must have the root of its snapshot ...     *)
HandleLifecycle(r) == r.childEvents = r.child.done

(* ... and an allocation needs a snapshot of its recipient.                 *)
HandleLocal(r) == TypeOf(r) = "allocateChild" => r.child.status \in {"reserved", "live"}

HandleExecute(r) ==
    /\ RowsValid(r.proposal.content.rows)
    /\ assertRecomputedProposalHash(r)
    /\ assertBundleMemo(r)
    /\ CASE TypeOf(r) = "createChild" -> HandleCreateChild(r)
         [] TypeOf(r) \in Lifecycle -> HandleLifecycle(r)
         [] OTHER -> HandleLocal(r)

(* What the signed file says of its transaction.                            *)
WrapperOf(t) == [action |-> t.action, vault |-> t.vault, hash |-> ProposalHash(t.content)]

(* The handler refuses, or the contract's method does while the transaction *)
(* is built on the snapshot; otherwise it is proved and signed.             *)
Handle ==
    /\ cli.pc = "confirmed"
    /\ LET r == cli.req
           t == TransactionOf(cli)
           ledger == injectAccounts(r)
           accepted == /\ assertBundleNetwork(r.network, cli.domain)
                       /\ rebuildVerifiedStores(r)
                       /\ CASE r.action = "propose" -> HandlePropose(r)
                            [] r.action = "approve" -> HandleApprove(r)
                            [] OTHER -> HandleExecute(r)
                       /\ ContractAccepts(t, ledger.vault, ledger.child)
       IN responses' = IF accepted
                       THEN responses \cup
                              {[wrap |-> WrapperOf(t), tx |-> t, shown |-> cli.shown, req |-> r]}
                       ELSE responses
    /\ cli' = Idle
    /\ UNCHANGED <<chain, pages, fees, exp, requests, upload, landed, left>>

-----------------------------------------------------------------------------
(* A signed file comes back (OfflineSigningFlow.tsx, offline-format.ts).    *)

(* What the file says beside its transaction is replaced; the transaction   *)
(* itself is signed and proved.                                             *)
Rewrap ==
    /\ left.rewrapped > 0
    /\ \E r \in responses, pg \in pages, a \in {"approve", "execute"} :
         /\ pg.proposal # None
         /\ responses' = (responses \ {r}) \cup
              {[r EXCEPT !.wrap = [action |-> a, vault |-> pg.vault, hash |-> pg.proposal.hash]]}
    /\ left' = [left EXCEPT !.rewrapped = @ - 1]
    /\ UNCHANGED <<chain, pages, fees, exp, requests, cli, upload, landed>>

VaultOnly(pg, w) == w.vault = pg.vault

(* processFile: the file says it is for the vault and the proposal of this  *)
(* page.  The transaction is not looked at.                                 *)
BoundToPage(pg, w) ==
    /\ w.vault = pg.vault
    /\ pg.proposal # None => w.hash = pg.proposal.hash

(* signedOwnerFeeNanomina: the transaction's own fee, against the one the   *)
(* page expects of the action the file names.                               *)
FeeExpected(pg, action, t) ==
    /\ t.fee \in OFFLINE_MIN_FEE .. OFFLINE_MAX_FEE
    /\ fees[pg][action] \in {None, t.fee}

Upload(pg, r) ==
    /\ r.wrap.action \in Offered(pg)
    /\ BoundToPage(pg, r.wrap) /\ FeeExpected(pg, r.wrap.action, r.tx)
    /\ upload' = [pc |-> "review", page |-> pg, wrap |-> r.wrap, tx |-> r.tx]
    /\ UNCHANGED <<chain, pages, fees, exp, requests, cli, responses, landed, left>>

Applied(t) ==
    [stores |-> [chain.stores EXCEPT ![t.vault] = StoresAfter(t, @)],
     child |-> ChildAfter(t, chain.child), exists |-> ExistsAfter(t, chain.exists),
     accounts |-> AccountsAfter(t), slot |-> chain.slot]

(* broadcastReviewed checks the fee once more and sends.  The pool refuses  *)
(* the transaction, or a block includes it, applied or failed.  A broadcast *)
(* ends the page's exports.                                                 *)
Broadcast ==
    /\ upload.pc = "review"
    /\ upload' = Idle
    /\ LET t == upload.tx
           pg == upload.page
           action == upload.wrap.action IN
       IF FeeExpected(pg, action, t) /\ Pooled(t)
       THEN /\ fees' = [fees EXCEPT ![pg] = Forgotten]
            /\ IF Lands(t)
               THEN /\ chain' = Applied(t)
                    /\ landed' = landed \cup
                         {[page |-> pg, expected |-> fees[pg][action], wrap |-> upload.wrap, tx |-> t]}
               ELSE /\ chain' = [chain EXCEPT !.accounts = Charged(t, t.fee)]
                    /\ UNCHANGED landed
       ELSE UNCHANGED <<landed, fees, chain>>
    /\ UNCHANGED <<pages, exp, requests, cli, responses, left>>

(* Cancelled, or refused before it is sent.                                 *)
LeaveUpload ==
    /\ upload.pc = "review" /\ upload' = Idle
    /\ UNCHANGED <<chain, pages, fees, exp, requests, cli, responses, landed, left>>

-----------------------------------------------------------------------------
Init ==
    /\ \E w \in Worlds : chain = w.chain /\ pages = w.pages /\ left = w.left
    /\ fees = [pg \in pages |-> Forgotten]
    /\ exp = Idle /\ cli = Idle /\ upload = Idle
    /\ requests = {} /\ responses = {} /\ landed = {}

Keys == {pg.payer : pg \in pages}

Next ==
    \/ \E pg \in pages : \E a \in Actions : StartExport(pg, a)
    \/ TakeCheckpoint
    \/ FetchAccounts
    \/ \E fee \in Fees : WriteRequest(fee)
    \/ ExportFails
    \/ \E pg \in pages : StartOver(pg)
    \/ Alter
    \/ \E r \in requests, k \in Keys, d \in Domains : RunCli(r, k, d)
    \/ \E yes \in BOOLEAN : ConfirmOrExit(yes)
    \/ Handle
    \/ Rewrap
    \/ \E pg \in pages, r \in responses : Upload(pg, r)
    \/ Broadcast
    \/ LeaveUpload
    \/ OthersMove

Spec == Init /\ [][Next]_vars

-----------------------------------------------------------------------------
(* What a signed transaction does, read off the transaction alone.          *)
MeaningOf(t) ==
    LET c == t.content IN
    CASE c.txType \in Payment -> [NoBody EXCEPT !.rows = RealReceivers(c.rows)]
      [] c.txType \in OwnerChange \cup {"setDelegate"} -> [NoBody EXCEPT !.target = c.rows[1].to]
      [] c.txType = "changeThreshold" -> [NoBody EXCEPT !.number = c.data.num]
      [] c.txType = "createChild" ->
           [NoBody EXCEPT !.child = c.child, !.owners = ToSet(c.data.owners),
                          !.number = c.data.threshold]
      [] c.txType = "destroyChild" -> [NoBody EXCEPT !.child = c.child]
      [] c.txType = "enableChildMultiSig" ->
           [NoBody EXCEPT !.child = c.child, !.number = IF c.data.num = 1 THEN 1 ELSE 0]
      [] OTHER -> [NoBody EXCEPT !.child = c.child, !.number = c.data.num]

(* The numbers of a request are written as the chain and the page do.       *)
PlainNumbers(r) ==
    /\ Plain(IF r.action = "propose" THEN r.input.number ELSE r.proposal.content.data)
    /\ Plain(ExpiryOf(r))

Unnumbered(body) == [body EXCEPT !.number = 0]

(* The summary of a signed file and its transaction agree on the effect,    *)
(* the SubVault's configuration, the memo, the fee, the network and the     *)
(* accounts paid for and, when numbers are plainly written, on the number   *)
(* of the type (threshold, amount, switch) and the expiry.                  *)
AsShown(r) ==
    LET t == r.tx IN
    /\ r.shown.action = t.action /\ r.shown.txType = t.content.txType
    /\ r.shown.vault = t.vault /\ t.content.vault = t.vault
    /\ r.shown.payer = t.payer
    /\ r.shown.network = t.network /\ r.shown.fee = t.fee
    /\ MemoHash(r.shown.memo) = t.content.memoHash
    /\ t.memo \in {NoMemo, r.shown.memo}
    /\ Unnumbered(r.shown.body) = Unnumbered(MeaningOf(t)) /\ r.shown.charge = t.charge
    /\ t.setup # None => t.setup = t.content.data
    /\ t.action = "execute" /\ Remote(t.content.txType) => t.target = r.shown.body.child
    /\ PlainNumbers(r.req) => /\ r.shown.body.number = MeaningOf(t).number
                             /\ r.shown.expirySlot = t.content.expirySlot.num

(* "Show the operator exactly what they are about to sign" (index.ts):      *)
(* whatever became of the file, what is signed is what the summary said     *)
(* before the confirmation, but for the value of a number in an unusual     *)
(* spelling.                                                                *)
SignedAsShown == \A r \in responses : AsShown(r)

(* The accounts the request describes are still as they were read.          *)
AsRead(r) ==
    LET t == r.tx
        creates == t.action = "propose" /\ t.content.txType = "createChild"
        named == {t.content.rows[i].to : i \in 1 .. MAX_RECEIVERS} \ {0}
    IN /\ t.pre = chain.stores[t.vault]
       /\ t.nonce = chain.accounts[t.payer].nonce
       /\ (Remote(t.content.txType) /\ (creates \/ t.action = "execute"))
            \/ (t.action = "execute" /\ t.content.txType = "allocateChild") => r.req.child = chain.child
       /\ t.action = "execute" => r.req.exists \cap named = chain.exists \cap named

(* The CLI has no chain: it signs on a snapshot.  What it signs with the    *)
(* payer's key for the page's network is applied by the chain as long as    *)
(* the accounts it read have not changed, provided it is included before    *)
(* the expiry and the payer and the paying account have the funds, which    *)
(* the CLI checks nowhere; any other doomed request is refused.             *)
SignedLandsIfUnmoved ==
    \A r \in responses :
        /\ r.tx.signed /\ r.tx.network = minaNetwork /\ AsRead(r)
        /\ Timely(r.tx) /\ Funded(r.tx)
        => Lands(r.tx)

(* A page sends only what it is open for, from files as the CLI wrote them: *)
(* its vault, its proposal, an action on it.  Altered or not, a file is     *)
(* sent only at the fee of the page's own last export, and an execution     *)
(* carries no memo but the one the owners approved.                         *)
LandedOnItsPage ==
    \A l \in landed :
        /\ l.wrap = WrapperOf(l.tx) =>
             /\ l.tx.vault = l.page.vault
             /\ l.page.proposal # None =>
                  l.tx.content = l.page.proposal.content /\ l.tx.action # "propose"
        /\ l.expected \in {None, l.tx.fee}
        /\ l.tx.memo # NoMemo => MemoHash(l.tx.memo) = l.tx.content.memoHash

=============================================================================
