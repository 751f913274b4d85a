------------------------------- MODULE VaultTx -------------------------------
(***************************************************************************)
(* Transactions on one vault and one of its proposals, as the Mina network  *)
(* treats them, and how far the backend has indexed them.                   *)
(*                                                                         *)
(* A transaction is built against a number of applied transactions, its     *)
(* base: its app-state preconditions hold exactly while that many have been *)
(* applied.  A base of -1 is a transaction proved against made-up state.    *)
(***************************************************************************)
EXTENDS Integers, FiniteSets

CONSTANTS
    Signers,        \* the owners
    Tx,             \* transaction hashes
    Threshold,      \* approvals an execution needs
    First,          \* the hash of the transaction that creates the proposal
    Proposer,       \* and its sender
    None            \* no hash, no signer

ASSUME VaultTxConstants ==
    /\ IsFiniteSet(Signers) /\ IsFiniteSet(Tx)
    /\ Threshold \in Nat \ {0}
    /\ First \in Tx /\ Proposer \in Signers
    /\ None \notin Tx \cup Signers

VARIABLES
    txs,        \* the transaction behind each hash, and what became of it
    eventRaw    \* transactions whose events the indexer stored and applied

Kinds == {"create", "approve", "execute", "other"}
Actions == {"approve", "execute"}

TxRecord == [st : {"unused", "pool", "applied", "failed", "dropped"},
             kind : Kinds, by : Signers \cup {None}, base : Int, deep : BOOLEAN]

Applied == {t \in Tx : txs[t].st = "applied"}
Pool == {t \in Tx : txs[t].st = "pool"}
root == Cardinality(Applied)

(* What a set of applied transactions, or of stored events, adds up to.     *)
Proposed(ts) == \E t \in ts : txs[t].kind = "create"
Approvers(ts) == {txs[t].by : t \in {u \in ts : txs[u].kind \in {"create", "approve"}}}
Executed(ts) == \E t \in ts : txs[t].kind = "execute"

Unused == [st |-> "unused", kind |-> "create", by |-> None, base |-> 0, deep |-> FALSE]

(* A transaction sent just now, and one applied long ago.                   *)
Sent(kind, s, base) == [st |-> "pool", kind |-> kind, by |-> s, base |-> base, deep |-> FALSE]
Landed(kind, s, base) == [st |-> "applied", kind |-> kind, by |-> s, base |-> base, deep |-> TRUE]

(* First, sent by Proposer, has created the proposal long ago; its event    *)
(* may not be indexed yet.                                                  *)
InitCreated ==
    /\ txs = [t \in Tx |-> IF t = First
                THEN Landed("create", Proposer, 0) ELSE Unused]
    /\ eventRaw \in {{}, {First}}

(* The contract's own conditions on a transaction built on current state.   *)
Accepts(s, kind) ==
    CASE kind = "create"  -> ~Proposed(Applied)
      [] kind = "approve" -> Proposed(Applied) /\ s \notin Approvers(Applied) /\ ~Executed(Applied)
      [] kind = "execute" -> /\ Cardinality(Approvers(Applied)) >= Threshold
                             /\ ~Executed(Applied)

(* The worker proves only on stores equal to the chain's roots, so the      *)
(* indexer has caught up, and only what the contract accepts.               *)
Send(s, t, kind) ==
    /\ txs[t].st = "unused"
    /\ eventRaw = Applied
    /\ Accepts(s, kind)
    /\ txs' = [txs EXCEPT ![t] = Sent(kind, s, root)]

(* Someone proves a method of the contract against made-up state.           *)
SendForged(t, kind) ==
    /\ txs[t].st = "unused"
    /\ txs' = [txs EXCEPT ![t] = Sent(kind, None, -1)]

(* Another proposal's transaction changes the vault; nobody here asks for   *)
(* its status, so it does not matter when it leaves the scanned blocks.     *)
ApplyOther(t) ==
    /\ txs[t].st = "unused"
    /\ txs' = [txs EXCEPT ![t] = Landed("other", None, root)]

(* A block takes a transaction: it applies when its preconditions hold, and *)
(* is included as failed otherwise.                                         *)
Include(t) ==
    /\ txs[t].st = "pool"
    /\ txs' = [txs EXCEPT ![t].st = IF txs[t].base = root THEN "applied" ELSE "failed"]

(* The node's pool evicts a transaction.                                    *)
Drop(t) ==
    /\ txs[t].st = "pool"
    /\ txs' = [txs EXCEPT ![t].st = "dropped"]

(* TX_STATUS_SCAN_BLOCKS more blocks are made: the transaction's own block  *)
(* is no longer among those a status lookup scans.                          *)
Bury(t) ==
    /\ txs[t].st \in {"applied", "failed"} /\ ~txs[t].deep
    /\ txs' = [txs EXCEPT ![t].deep = TRUE]

Network(t) == (Include(t) \/ Drop(t) \/ Bury(t)) /\ UNCHANGED eventRaw

(* Events are stored in block order.                                        *)
NextEvent == {t \in Applied \ eventRaw : txs[t].base = Cardinality(eventRaw)}

(* fetchZkappTxStatus, when the node answers: a transaction in none of the  *)
(* scanned blocks is pending, whatever became of it.                        *)
Scanned(t) == ~txs[t].deep
TxStatus(t) == CASE Scanned(t) /\ txs[t].st = "failed"  -> "failed"
                 [] Scanned(t) /\ txs[t].st = "applied" -> "included"
                 [] OTHER                               -> "pending"
=============================================================================
