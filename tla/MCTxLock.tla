------------------------------ MODULE MCTxLock -------------------------------
(* One owner's tab, another owner, a proposal and two more transactions.    *)
EXTENDS TxLock

CONSTANTS a, b, t1, t2, t3
=============================================================================
