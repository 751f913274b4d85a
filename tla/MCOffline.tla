----------------------------- MODULE MCOffline ------------------------------
(* Vaults 10 and 11, SubVault 20, owners 1..3, receivers 4 and 5.           *)
EXTENDS Offline

NewChild == [status |-> "none", config |-> None, done |-> {}, funds |-> 0]

Pair == <<2, 1>>

Reserved == [status |-> "reserved", config |-> ConfigHash(Pair, 2), done |-> {}, funds |-> 2]

Live == [status |-> "live", config |-> ConfigHash(Pair, 2), done |-> {}, funds |-> 2]

Content(v, t, rows, data, child, memo) ==
    [vault |-> v, txType |-> t, rows |-> Slots(rows), data |-> data, child |-> child,
     configNonce |-> 0, memoHash |-> MemoHash(memo), expirySlot |-> Num(1)]

(* A proposal and the votes it has.                                         *)
Stores(v, votes) == [vault |-> v, owners |-> <<3, 1>>, configNonce |-> 0, done |-> {},
                     votes |-> votes]

VotesFor(c, by) == {[by |-> o, proposal |-> c] : o \in by}

NewProposal(t, rows, address, number, child, owners) ==
    [txType |-> t, rows |-> rows, address |-> address, undelegate |-> FALSE,
     number |-> Num(number), expirySlot |-> Num(0),
     child |-> child, owners |-> owners, key |-> child,
     configHash |-> IF t = "createChild" THEN ConfigHash(SortedOwners(owners), number) ELSE None,
     memo |-> "rent"]

NewPage(v, input) ==
    [vault |-> v, payer |-> 1, input |-> input, proposal |-> None, receivers |-> <<>>]

PageOf(c, memo) ==
    [vault |-> c.vault, payer |-> 1, input |-> None,
     proposal |-> [content |-> c, memo |-> memo, hash |-> ProposalHash(c)],
     receivers |-> [i \in 1 .. MAX_RECEIVERS |-> c.rows[i].to]]

Chain(s10, s11, child) ==
    [stores |-> [v \in {10, 11} |-> IF v = 10 THEN s10 ELSE s11], child |-> child, exists |-> {4},
     accounts |-> [a \in {1, 3, 10, 11} |-> [funds |-> IF a < 10 THEN 6 ELSE 3, nonce |-> 0]],
     slot |-> 1]

(* A request is altered on its way, the chain moves, or both; or there is a *)
(* second export and a signed file is altered.                              *)
Altering == [moves |-> 0, exports |-> 1, altered |-> 1, rewrapped |-> 0]
Moving == [Altering EXCEPT !.moves = 1, !.altered = 0]
Both == [Altering EXCEPT !.moves = 1]
Repeating == [moves |-> 0, exports |-> 2, altered |-> 0, rewrapped |-> 1]

Budgets(txType) == IF txType = "createChild" THEN {Both} ELSE {Altering, Moving}

(* One proposal of vault 10 with the votes of `by`, and vault 11 idle.      *)
Proposed(c, by, child) ==
    {[chain |-> Chain(Stores(10, VotesFor(c, by)), Stores(11, {}), child),
      pages |-> {PageOf(c, "rent")}, left |-> budget] : budget \in Budgets(c.txType)}

Proposing(input, child) ==
    {[chain |-> Chain(Stores(10, {}), Stores(11, {}), child), pages |-> {NewPage(10, input)},
      left |-> budget] : budget \in Budgets(input.txType)}

Payments == Content(10, "transfer", <<Row(4, 1), Row(5, 1)>>, Num(0), 0, "rent")
Other == Content(10, "transfer", <<Row(4, 2)>>, Num(0), 0, "rent")
Twin == [Other EXCEPT !.vault = 11]

(* Two proposals of one vault, or of two vaults: files may be swapped.      *)
Swaps(c, d) ==
    [chain |-> [Chain(Stores(10, {}), Stores(11, {}), NewChild) EXCEPT
                  !.stores = [v \in {10, 11} |->
                     Stores(v, UNION {VotesFor(p, {3}) : p \in {q \in {c, d} : q.vault = v}})]],
     pages |-> {PageOf(c, "rent"), PageOf(d, "rent")}, left |-> Repeating]

AllWorlds ==
    UNION {Proposed(Content(10, t.type, t.rows, t.data, t.child, "rent"), by, t.account) :
        by \in {{3}, {2, 3}},
        t \in {[type |-> "transfer", rows |-> <<Row(4, 1), Row(5, 1)>>, data |-> Num(0), child |-> 0, account |-> NewChild],
               [type |-> "allocateChild", rows |-> <<Row(20, 1)>>, data |-> Num(0), child |-> 0, account |-> Live],
               [type |-> "addOwner", rows |-> <<Row(2, 0)>>, data |-> OwnersCommitment(<<3, 2, 1>>), child |-> 0, account |-> NewChild],
               [type |-> "removeOwner", rows |-> <<Row(3, 0)>>, data |-> Num(0), child |-> 0, account |-> NewChild],
               [type |-> "changeThreshold", rows |-> <<>>, data |-> Num(1), child |-> 0, account |-> NewChild],
               [type |-> "setDelegate", rows |-> <<>>, data |-> Num(0), child |-> 0, account |-> NewChild],
               [type |-> "createChild", rows |-> <<>>, data |-> ConfigHash(Pair, 2), child |-> 20, account |-> Reserved],
               [type |-> "reclaimChild", rows |-> <<>>, data |-> Num(2), child |-> 20, account |-> Live],
               [type |-> "destroyChild", rows |-> <<>>, data |-> Num(0), child |-> 20, account |-> Live],
               [type |-> "enableChildMultiSig", rows |-> <<>>, data |-> Num(1), child |-> 20, account |-> Live]}}
    \cup UNION
         {Proposing(NewProposal("transfer", <<Row(5, 1)>>, 0, 0, 0, <<>>), NewChild),
          Proposing(NewProposal("addOwner", <<>>, 2, 0, 0, <<>>), NewChild),
          Proposing(NewProposal("setDelegate", <<>>, 5, 0, 0, <<>>), NewChild),
          Proposing(NewProposal("createChild", <<>>, 0, 2, 20, Pair), NewChild),
          Proposing(NewProposal("enableChildMultiSig", <<>>, 0, 1, 20, <<>>), Live)}
    \cup {Swaps(Payments, Other), Swaps(Payments, Twin)}

AnyField ==
    [fee |-> {0, 2}, network |-> {"mainnet"}, payer |-> {3}, exists |-> {{}, {4, 5}},
     owners |-> {<<1, 2>>, <<1, 3>>}, address |-> 21, memo |-> {"tax"},
     rows |-> {<<Row(5, 2)>>, <<Row(0, 1)>>}, txType |-> {"setDelegate", "unknown"},
     number |-> {[num |-> 1, text |-> 9], Num(0)}]

(* As above, and rows beyond the contract's slots.                          *)
LongRows == [AnyField EXCEPT !.rows = {<<Row(0, 0), Row(0, 0), Row(5, 0)>>}]

=============================================================================
