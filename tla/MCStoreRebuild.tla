--------------------------- MODULE MCStoreRebuild ---------------------------
(* Two owners, set up out of the canonical order.                           *)
EXTENDS StoreRebuild

MCFirstOwners == <<2, 1>>

(* A chain that grows by several blocks between loads, each with one or two *)
(* votes or owner changes: a load goes on from a checkpoint that has some.  *)
Growing == [kinds |-> {"vote", "change"}, height |-> 4, txs |-> 4, faults |-> 0]

(* Every kind of transaction, and one fault.                                *)
Faulty == [kinds |-> Kinds, height |-> 2, txs |-> 3, faults |-> 1]

MCWorlds == {Growing, Faulty}
=============================================================================
