---------------------------- MODULE MCMinaGuard ----------------------------
(* Small instances of MinaGuard: a root guard under governance change, a   *)
(* root with a child through its whole lifecycle, and three accounts that  *)
(* compete for their roles.                                                *)
EXTENDS MinaGuard, TLC

CONSTANTS root, child, rogue,           \* guard addresses
          alice, negAlice, bob, carol, junk, empty

(* junk is no curve point; negAlice is the negation of alice.              *)
MCKeys == {root, child, rogue, alice, negAlice, bob, carol, junk}

MCOnCurve == MCKeys \ {junk}

MCxOf == [k \in MCKeys |-> IF k = negAlice THEN alice ELSE k]

Pay(a, n) == [address |-> a, amount |-> n]

NoPay == Pay(empty, 0)

Prop(type, first, second, data, n, cn, expiry, g, c) ==
  [receivers |-> <<first, second>>, tokenId |-> NATIVE_TOKEN_ID,
   txType |-> type, data |-> data, nonce |-> n, configNonce |-> cn,
   expirySlot |-> expiry, guardAddress |-> g,
   destination |-> IF c = empty THEN "LOCAL" ELSE "REMOTE",
   childAccount |-> c]

Config(S, t, n) == [owners |-> S, threshold |-> t, numOwners |-> n]

-----------------------------------------------------------------------------
(* Governance: one root whose owners change while payments are pending.    *)

GovGuards == {root}

GovConfigs == {Config({alice, bob}, 2, 2), Config({alice, bob}, 1, 2),
               Config({alice, negAlice}, 2, 2), Config({alice, junk}, 1, 2),
               Config({alice}, 1, 2), Config({alice, bob}, 0, 2),
               Config({alice, bob}, 3, 2),
               Config({alice, bob, carol, root}, 1, 4)}

GovProposals ==
  {Prop("TRANSFER", Pay(carol, 1), NoPay, Num(0), 1, 0, 1, root, empty),
   Prop("TRANSFER", Pay(carol, 1), Pay(root, 1), Num(0), 2, 1, 0, root, empty),
   Prop("ADD_OWNER", Pay(carol, 0), NoPay,
        OwnersCommitment({alice, bob, carol}), 1, 0, 0, root, empty),
   Prop("REMOVE_OWNER", Pay(bob, 0), NoPay, Num(0), 1, 0, 0, root, empty),
   Prop("REMOVE_OWNER", Pay(bob, 0), NoPay, Num(0), 2, 1, 0, root, empty)}

-----------------------------------------------------------------------------
(* Family: root creates child, funds it, takes funds back, freezes it and  *)
(* lets it run again; rogue is another root that would like to own child.  *)

FamGuards == {root, child}

FamConfigs == {Config({alice, bob}, 2, 2), Config({bob}, 1, 1)}

Create(S, t, n) ==
  Prop("CREATE_CHILD", NoPay, NoPay, ChildConfigHash(S, t, n), 0, 0, 0,
       root, child)

FamProposals ==
  {Create({bob}, 1, 1),
   Prop("ALLOCATE_CHILD", Pay(child, 1), NoPay, Num(0), 1, 0, 0, root, empty),
   Prop("RECLAIM_CHILD", NoPay, NoPay, Num(1), 1, 0, 0, root, child),
   Prop("DESTROY_CHILD", NoPay, NoPay, Num(0), 2, 0, 0, root, child),
   Prop("ENABLE_CHILD_MULTI_SIG", NoPay, NoPay, Num(0), 1, 0, 0, root, child),
   Prop("ENABLE_CHILD_MULTI_SIG", NoPay, NoPay, Num(1), 3, 0, 0, root, child),
   Prop("TRANSFER", Pay(carol, 1), NoPay, Num(0), 1, 0, 0, child, empty),
   Prop("TRANSFER", Pay(root, 1), NoPay, Num(0), 1, 1, 0, child, empty)}

-----------------------------------------------------------------------------
(* Roles: three accounts that may become roots, children, or children of a *)
(* child, while the root's only owner takes on others (a second owner, the *)
(* negation of the first, a key that is no curve point), moves the         *)
(* threshold and the delegate.                                             *)
RolesGuards == {root, child, rogue}

RolesConfigs == {Config({alice}, 1, 1)}

Adoption(g, c) ==
  Prop("CREATE_CHILD", NoPay, NoPay, ChildConfigHash({alice}, 1, 1), 0, 0, 0, g, c)

Hire(k) ==
  Prop("ADD_OWNER", Pay(k, 0), NoPay, OwnersCommitment({alice, k}), 1, 0, 0,
       root, empty)

MoveThreshold(t, n, cn) ==
  Prop("CHANGE_THRESHOLD", NoPay, NoPay, Num(t), n, cn, 0, root, empty)

RolesProposals ==
  {Adoption(root, child), Adoption(child, rogue),
   Hire(bob), Hire(negAlice), Hire(junk),
   Prop("REMOVE_OWNER", Pay(alice, 0), NoPay, Num(0), 2, 1, 0, root, empty),
   MoveThreshold(2, 1, 0), MoveThreshold(2, 2, 1),
   Prop("SET_DELEGATE", Pay(carol, 0), NoPay, Num(0), 1, 0, 0, root, empty),
   Prop("SET_DELEGATE", NoPay, NoPay, Num(0), 2, 1, 0, root, empty),
   Prop("UNKNOWN", NoPay, NoPay, Num(0), 1, 0, 0, root, empty)}

=============================================================================
