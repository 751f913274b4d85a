---------------------------- MODULE MCSubmissions ----------------------------
(* Instances of Submissions for TLC: the proposal of t1 and one or two more *)
(* transactions, reported by one or two tabs at once.                       *)
EXTENDS Submissions

CONSTANTS a, b, t1, t2, t3
=============================================================================
