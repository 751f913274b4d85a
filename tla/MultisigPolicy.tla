--------------------------- MODULE MultisigPolicy ---------------------------
(***************************************************************************)
(* What a family of multisig vaults promises, without counters, Merkle     *)
(* maps or witnesses: a vault has members and a quorum; members endorse    *)
(* proposals one by one; a proposal is carried only while a quorum of the  *)
(* members the authority has at that moment stands behind it; carrying it  *)
(* is the only way out for funds and the only way to change the members;   *)
(* and a change of the members voids every endorsement collected so far.   *)
(***************************************************************************)
EXTENDS Integers, FiniteSets

CONSTANTS Vaults, Keys, Proposals,
          HomeOf(_),      \* the vault whose members decide on a proposal
          EpochOf(_)      \* the period of that vault it belongs to

VARIABLES members, quorum, epoch, endorsed, done, funds

vars == <<members, quorum, epoch, endorsed, done, funds>>

Viable(S, q) == S \subseteq Keys /\ q \in 1..Cardinality(S)

Init ==
  /\ members = [v \in Vaults |-> {}]
  /\ quorum = [v \in Vaults |-> 0]
  /\ epoch = [v \in Vaults |-> 0]
  /\ endorsed = [v \in Vaults |-> [p \in Proposals |-> {}]]
  /\ done = [v \in Vaults |-> {}]
  /\ funds = [v \in Vaults |-> 0]

Receive ==
  /\ funds' \in [Vaults -> Nat]
  /\ \A v \in Vaults : funds'[v] >= funds[v]
  /\ UNCHANGED <<members, quorum, epoch, endorsed, done>>

Found(v) ==
  /\ members[v] = {}
  /\ Viable(members'[v], quorum'[v])
  /\ members' = [members EXCEPT ![v] = members'[v]]
  /\ quorum' = [quorum EXCEPT ![v] = quorum'[v]]
  /\ UNCHANGED <<epoch, endorsed, done, funds>>

Endorse(v, p, k) ==
  /\ k \in members[v]
  /\ HomeOf(p) = v
  /\ EpochOf(p) = epoch[v]
  /\ endorsed' = [endorsed EXCEPT ![v][p] = @ \cup {k}]
  /\ UNCHANGED <<members, quorum, epoch, done, funds>>

(* A quorum of v's present members stands behind p.                        *)
Mandated(v, p) ==
  /\ EpochOf(p) = epoch[v]
  /\ endorsed[v][p] \subseteq members[v]
  /\ Cardinality(endorsed[v][p]) >= quorum[v]
  /\ quorum[v] >= 1

(* Changing members or quorum, or suspending a vault, starts a new epoch.  *)
Reconfigure(v, p) ==
  /\ epoch' = [epoch EXCEPT ![v] = @ + 1]
  /\ Viable(members'[v], quorum'[v])
  /\ members' = [members EXCEPT ![v] = members'[v]]
  /\ quorum' = [quorum EXCEPT ![v] = quorum'[v]]
  /\ HomeOf(p) # v => UNCHANGED <<members, quorum>>

Carry(v, p) ==
  /\ p \notin done[v]
  /\ Mandated(HomeOf(p), p)
  /\ done' = [done EXCEPT ![v] = @ \cup {p}]
  /\ Reconfigure(v, p) \/ UNCHANGED <<members, quorum, epoch>>
  /\ funds' \in [Vaults -> Nat]
  /\ funds'[v] <= funds[v]
  /\ \A w \in Vaults \ {v} : funds'[w] >= funds[w]
  /\ HomeOf(p) # v => funds'[v] + funds'[HomeOf(p)] = funds[v] + funds[HomeOf(p)]
  /\ UNCHANGED endorsed

Next ==
  \/ Receive
  \/ \E v \in Vaults :
       \/ Found(v)
       \/ \E p \in Proposals :
            \/ \E k \in Keys : Endorse(v, p, k)
            \/ Carry(v, p)

Spec == Init /\ [][Next]_vars

=============================================================================
