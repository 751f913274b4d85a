--------------------------- MODULE OfflineProofs ----------------------------
(* Proofs about offline signing, for every chain, every set of pages and    *)
(* every alteration of a request file: what the CLI signs on a snapshot     *)
(* lands, in time and funded, as long as the accounts it describes have not *)
(* moved, and from files as the CLI wrote them a page sends only the        *)
(* proposal it is open for.                                                 *)
EXTENDS Offline, Induction, SequenceTheorems, TLAPS

(* No file lists more rows than the contract has slots: the summary reads   *)
(* them all, the builder signs only the first ones.  No request the web UI  *)
(* writes has more.                                                         *)
FilesFit == \A rows \in Foreign.rows : Len(rows) \in 0 .. MAX_RECEIVERS

(* The hash of a proposal on chain.                                         *)
OfOnChain(hash) == hash = ProposalHash(hash.proposal) /\ OnChain(hash.proposal)

(* A request file keeps its shape: a new proposal as it was entered, or a   *)
(* proposal with the hash of one on chain.  The other values may be         *)
(* anybody's.                                                               *)
FileOK(r) ==
    /\ {"action", "proposal", "input"} \subseteq DOMAIN r
    /\ r.action \in Actions
    /\ r.action = "propose" => Entered(r.input)
    /\ r.action # "propose" =>
         /\ {"content", "memo", "hash"} \subseteq DOMAIN r.proposal
         /\ ContentFields \subseteq DOMAIN r.proposal.content
         /\ FilesFit => Len(r.proposal.content.rows) \in 0 .. MAX_RECEIVERS
         /\ OfOnChain(r.proposal.hash)

(* An alteration replaces values and keeps the shape.                       *)
LEMMA AlteredKeepsShape ==
    ASSUME NEW r, FileOK(r), NEW a \in Altered(r)
    PROVE  FileOK(a)
<1> DEFINE Top == {"fee", "network", "payer", "exists", "checkpoint", "childOwners",
                   "childThreshold", "childAddress"}
<1>1. ASSUME NEW f \in Top, NEW x, a = [r EXCEPT ![f] = x]
      PROVE  FileOK(a)
  <2>1. /\ DOMAIN a = DOMAIN r /\ a.action = r.action
        /\ a.proposal = r.proposal /\ a.input = r.input
    BY <1>1 DEF FileOK
  <2> QED BY <2>1 DEF FileOK
<1>2. ASSUME NEW x, a = [r EXCEPT !.fee = x] \/ a = [r EXCEPT !.network = x]
                    \/ a = [r EXCEPT !.payer = x] \/ a = [r EXCEPT !.exists = x]
                    \/ a = [r EXCEPT !.childOwners = x] \/ a = [r EXCEPT !.childThreshold = x]
                    \/ a = [r EXCEPT !.childAddress = x]
      PROVE  FileOK(a)
  BY <1>1, <1>2
<1>3. CASE a = [r EXCEPT !.checkpoint.owners = SortedOwners(@)]
  BY <1>1, <1>3
<1>4. ASSUME r.action = "propose", NEW i, a = [r EXCEPT !.input = i], Entered(i)
      PROVE  FileOK(a)
  <2>1. DOMAIN a = DOMAIN r /\ a.action = r.action /\ a.input = i
    BY <1>4 DEF FileOK
  <2> QED BY <1>4, <2>1 DEF FileOK
<1>5. ASSUME r.action = "propose", NEW f, NEW x, f = "owners" => x \in Seq(Nat),
             f \in {"number", "expirySlot"} => IsNum(x),
             a = [r EXCEPT !.input = [r.input EXCEPT ![f] = x]]
      PROVE  FileOK(a)
  <2> DEFINE i == [r.input EXCEPT ![f] = x]
  <2>1. DOMAIN i = DOMAIN r.input /\ Entered(r.input)
    BY <1>5 DEF FileOK
  <2>2. \A g \in DOMAIN i : i[g] = IF g = f THEN x ELSE r.input[g]
    OBVIOUS
  <2>3. Entered(i)
    <3> HIDE DEF i
    <3> QED BY <1>5, <2>1, <2>2 DEF Entered
  <2> HIDE DEF i
  <2>4. a = [r EXCEPT !.input = i]
    BY <1>5 DEF i
  <2> QED BY <1>4, <1>5, <2>3, <2>4
<1>6. ASSUME r.action = "propose", NEW x,
             \/ a = [r EXCEPT !.input.owners = x] /\ x \in Seq(Nat)
             \/ a = [r EXCEPT !.input.memo = x] \/ a = [r EXCEPT !.input.rows = x]
             \/ a = [r EXCEPT !.input.txType = x] \/ a = [r EXCEPT !.input.child = x]
             \/ a = [r EXCEPT !.input.number = x] /\ IsNum(x)
             \/ a = [r EXCEPT !.input.expirySlot = x] /\ IsNum(x)
      PROVE  FileOK(a)
  <2>1. PICK f : /\ f = "owners" => x \in Seq(Nat)
                 /\ f \in {"number", "expirySlot"} => IsNum(x)
                 /\ a = [r EXCEPT !.input = [r.input EXCEPT ![f] = x]]
    <3>1. CASE a = [r EXCEPT !.input.owners = x] /\ x \in Seq(Nat)
      BY <3>1
    <3>2. CASE a = [r EXCEPT !.input.memo = x]
      BY <3>2
    <3>3. CASE a = [r EXCEPT !.input.rows = x]
      BY <3>3
    <3>4. CASE a = [r EXCEPT !.input.txType = x]
      BY <3>4
    <3>5. CASE a = [r EXCEPT !.input.child = x]
      BY <3>5
    <3>6. CASE a = [r EXCEPT !.input.number = x] /\ IsNum(x)
      BY <3>6
    <3>7. CASE a = [r EXCEPT !.input.expirySlot = x] /\ IsNum(x)
      BY <3>7
    <3> QED BY <1>6, <3>1, <3>2, <3>3, <3>4, <3>5, <3>6, <3>7
  <2> QED BY <1>5, <1>6, <2>1
<1>7. ASSUME r.action # "propose", NEW p, a = [r EXCEPT !.proposal = p],
             DOMAIN p = DOMAIN r.proposal, DOMAIN p.content = DOMAIN r.proposal.content,
             p.hash = r.proposal.hash,
             FilesFit => Len(p.content.rows) \in 0 .. MAX_RECEIVERS
      PROVE  FileOK(a)
  <2>1. DOMAIN a = DOMAIN r /\ a.action = r.action /\ a.proposal = p
    BY <1>7 DEF FileOK
  <2> QED BY <1>7, <2>1 DEF FileOK
<1>8. ASSUME r.action # "propose", NEW x, a = [r EXCEPT !.proposal.memo = x]
      PROVE  FileOK(a)
  <2> DEFINE p == [r.proposal EXCEPT !.memo = x]
  <2>1. DOMAIN p = DOMAIN r.proposal /\ p.content = r.proposal.content
        /\ p.hash = r.proposal.hash
    BY <1>8 DEF FileOK
  <2>2. a = [r EXCEPT !.proposal = p]
    BY <1>8
  <2>3. FilesFit => Len(r.proposal.content.rows) \in 0 .. MAX_RECEIVERS
    BY <1>8 DEF FileOK
  <2> HIDE DEF p
  <2> QED BY <1>7, <1>8, <2>1, <2>2, <2>3
<1>9. ASSUME r.action # "propose", NEW f, NEW x,
             f = "rows" => x \in Foreign.rows,
             a = [r EXCEPT !.proposal = [@ EXCEPT !.content = [r.proposal.content EXCEPT ![f] = x]]]
      PROVE  FileOK(a)
  <2> DEFINE c == [r.proposal.content EXCEPT ![f] = x]
             p == [r.proposal EXCEPT !.content = c]
  <2>1. DOMAIN c = DOMAIN r.proposal.content
    OBVIOUS
  <2>2. FilesFit => Len(c.rows) \in 0 .. MAX_RECEIVERS
    <3>1. CASE f = "rows"
      <4>1. c.rows = x
        BY <1>9, <3>1 DEF FileOK, ContentFields
      <4> HIDE DEF c
      <4> QED BY <1>9, <3>1, <4>1 DEF FilesFit
    <3>2. CASE f # "rows"
      <4>1. c.rows = r.proposal.content.rows
        BY <1>9, <3>2 DEF FileOK, ContentFields
      <4> HIDE DEF c
      <4> QED BY <1>9, <4>1 DEF FileOK
    <3> QED BY <3>1, <3>2
  <2> HIDE DEF c
  <2>3. DOMAIN p = DOMAIN r.proposal /\ p.content = c /\ p.hash = r.proposal.hash
    BY <1>9 DEF FileOK
  <2>4. a = [r EXCEPT !.proposal = p]
    BY <1>9 DEF c
  <2> HIDE DEF p
  <2> QED BY <1>7, <1>9, <2>1, <2>2, <2>3, <2>4
<1>10. ASSUME r.action # "propose", NEW x,
              \/ a = [r EXCEPT !.proposal.content.rows = x] /\ x \in Foreign.rows
              \/ a = [r EXCEPT !.proposal.content.txType = x]
              \/ a = [r EXCEPT !.proposal.content.memoHash = MemoHash(x)]
              \/ a = [r EXCEPT !.proposal.content.data = x]
              \/ a = [r EXCEPT !.proposal.content.expirySlot = x]
      PROVE  FileOK(a)
  BY <1>9, <1>10
<1> QED BY <1>2, <1>3, <1>6, <1>8, <1>10, OfflineWorlds DEF Altered

-----------------------------------------------------------------------------
(* What a signed file is known to say                                       *)

MemoApproved(t) == t.memo # NoMemo => MemoHash(t.memo) = t.content.memoHash

(* The contract's method accepted the transaction on the request's          *)
(* snapshot, and what it pays for is counted on the same snapshot.          *)
SignedOnSnapshot(r) ==
    LET t == r.tx
        q == r.req
    IN /\ MemoApproved(t)
       /\ ContractAccepts(t, t.pre, q.child)
       /\ t.childPre = q.child.done
       /\ t.action = "execute" /\ t.content.txType = "transfer" =>
            t.charge = Cardinality(NewAccounts(t.content, q.exists))
       /\ t.action = "propose" /\ t.content.txType = "createChild" =>
            /\ q.child.status \in {"none", "bare"}
            /\ t.charge = (IF q.child.status = "none" THEN 1 ELSE 0)

(* The handler of the request's action.                                     *)
Handled(r) ==
    CASE r.action = "propose" -> HandlePropose(r)
      [] r.action = "approve" -> HandleApprove(r)
      [] OTHER -> HandleExecute(r)

(* The rows of a proposal fill the contract's slots.                        *)
LEMMA SlotsLength ==
    ASSUME NEW rows
    PROVE  Len(Slots(rows)) = MAX_RECEIVERS
<1> DEFINE s == Slots(rows)
<1>1. MAX_RECEIVERS \in Nat
  BY OfflineLimits
<1>2. s \in Seq({s[i] : i \in 1 .. MAX_RECEIVERS}) /\ DOMAIN s = 1 .. MAX_RECEIVERS
  BY <1>1 DEF Slots
<1> HIDE DEF s
<1>3. Len(s) = MAX_RECEIVERS
  BY <1>1, <1>2
<1> QED BY <1>3 DEF s

LEMMA BuiltFields ==
    ASSUME NEW r, FileOK(r), r.action # "propose"
    PROVE  LET c == r.proposal.content
               b == BuiltContent(r)
           IN  /\ b.memoHash = c.memoHash /\ b.txType = c.txType /\ b.data = FieldOf(c.data)
               /\ b.expirySlot = FieldOf(c.expirySlot)
               /\ b.rows = Slots(c.rows)
               /\ b.child = IF c.child = 0 /\ r.action = "execute" /\ Remote(c.txType)
                            THEN r.childAddress ELSE c.child
<1> DEFINE c == r.proposal.content
<1>1. {"memoHash", "txType", "data", "rows", "child", "expirySlot"} \subseteq DOMAIN c
  BY DEF FileOK, ContentFields
<1> DEFINE kid == IF c.child = 0 /\ r.action = "execute" /\ Remote(c.txType)
                  THEN r.childAddress ELSE c.child
           full == Slots(c.rows)
           data == FieldOf(c.data)
           slot == FieldOf(c.expirySlot)
<1>2. BuiltContent(r) = [c EXCEPT !.rows = full, !.data = data, !.expirySlot = slot, !.child = kid]
  BY DEF BuiltContent
<1> HIDE DEF c, kid, full, data, slot
<1>3. /\ BuiltContent(r).memoHash = c.memoHash /\ BuiltContent(r).txType = c.txType
      /\ BuiltContent(r).data = data /\ BuiltContent(r).expirySlot = slot
      /\ BuiltContent(r).rows = full /\ BuiltContent(r).child = kid
  BY <1>1, <1>2
<1> QED BY <1>3 DEF c, full, kid, data, slot

(* The counts of the CLI and of the ledger are over the same slots.         *)
LEMMA CountsAgree ==
    ASSUME NEW r, FileOK(r), r.action = "execute", TypeOf(r) = "transfer"
    PROVE  countExecuteNewAccounts(r) = Cardinality(NewAccounts(BuiltContent(r), r.exists))
<1> DEFINE rows == Slots(r.proposal.content.rows)
<1>1. BuiltContent(r).rows = rows
  BY BuiltFields
<1>2. Len(rows) = MAX_RECEIVERS
  BY SlotsLength
<1>3. countExecuteNewAccounts(r)
        = Cardinality({i \in 1 .. Len(rows) : rows[i].to \notin r.exists \cup {0}})
  BY DEF countExecuteNewAccounts
<1> HIDE DEF rows
<1> QED BY <1>1, <1>2, <1>3 DEF NewAccounts

LEMMA HandlerSigns ==
    ASSUME NEW c, FileOK(c.req), Handled(c.req),
           ContractAccepts(TransactionOf(c), c.req.snapshot, c.req.child), NEW shown, NEW w
    PROVE  SignedOnSnapshot([wrap |-> w, tx |-> TransactionOf(c), shown |-> shown, req |-> c.req])
<1> DEFINE r == c.req
           t == TransactionOf(c)
           create == TypeOf(r) = "createChild"
<1>1. /\ t.action = r.action /\ t.content = ContentOf(r) /\ t.pre = r.snapshot
      /\ t.childPre = r.child.done /\ t.charge = Charge(r)
      /\ t.memo = CASE r.action = "propose" -> r.input.memo
                    [] r.action = "approve" -> NoMemo
                    [] create -> NoMemo
                    [] OTHER -> r.proposal.memo
  BY DEF TransactionOf, injectAccounts
<1>2. ContractAccepts(t, t.pre, r.child)
  BY <1>1
<1> HIDE DEF t
<1>3. MemoApproved(t)
  <2>1. CASE r.action = "propose"
    BY <1>1, <2>1 DEF MemoApproved, ContentOf, ProposeContent
  <2>2. CASE r.action = "approve"
    BY <1>1, <2>2 DEF MemoApproved
  <2>3. CASE r.action = "execute"
    <3>1. assertBundleMemo(r) /\ t.content = BuiltContent(r)
      BY <1>1, <2>3 DEF Handled, HandleExecute, ContentOf
    <3>2. t.memo \in {NoMemo, r.proposal.memo}
      BY <1>1, <2>3
    <3> QED BY <2>3, <3>1, <3>2, BuiltFields DEF MemoApproved, assertBundleMemo
  <2> QED BY <2>1, <2>2, <2>3 DEF Actions, FileOK
<1>4. t.action = "execute" /\ t.content.txType = "transfer" =>
        t.charge = Cardinality(NewAccounts(t.content, r.exists))
  <2> SUFFICES ASSUME t.action = "execute", t.content.txType = "transfer"
               PROVE  t.charge = Cardinality(NewAccounts(t.content, r.exists))
    OBVIOUS
  <2>1. r.action = "execute" /\ t.content = BuiltContent(r)
    BY <1>1 DEF ContentOf
  <2>2. TypeOf(r) = "transfer"
    BY <2>1, BuiltFields DEF TypeOf
  <2>3. t.charge = countExecuteNewAccounts(r)
    BY <1>1, <2>1 DEF Charge
  <2> QED BY <2>1, <2>2, <2>3, CountsAgree
<1>5. t.action = "propose" /\ t.content.txType = "createChild" =>
        /\ r.child.status \in {"none", "bare"}
        /\ t.charge = (IF r.child.status = "none" THEN 1 ELSE 0)
  <2> SUFFICES ASSUME t.action = "propose", t.content.txType = "createChild"
               PROVE  /\ r.child.status \in {"none", "bare"}
                      /\ t.charge = (IF r.child.status = "none" THEN 1 ELSE 0)
    OBVIOUS
  <2>1. r.action = "propose" /\ r.input.txType = "createChild"
    BY <1>1 DEF ContentOf, ProposeContent
  <2>2. r.child.status \in {"none", "bare"}
    BY <2>1 DEF Handled, HandlePropose, Deployable
  <2>3. t.charge = (IF r.child.status = "none" THEN 1 ELSE 0)
    BY <1>1, <2>1 DEF Charge, deployTargetFromSnapshot
  <2> QED BY <2>2, <2>3
<1> DEFINE file == [wrap |-> w, tx |-> t, shown |-> shown, req |-> r]
<1>6. file.tx = t /\ file.req = r
  OBVIOUS
<1> HIDE DEF file, r
<1>7. SignedOnSnapshot(file)
  BY <1>1, <1>2, <1>3, <1>4, <1>5, <1>6 DEF SignedOnSnapshot, r
<1> QED BY <1>7 DEF file, r, t

(* As long as the accounts are as they were read, such a file lands in time *)
(* and funded.                                                              *)
LEMMA SignedLands ==
    ASSUME NEW r, SignedOnSnapshot(r), r.tx.signed, r.tx.network = minaNetwork, AsRead(r),
           Timely(r.tx), Funded(r.tx)
    PROVE  Lands(r.tx)
<1> DEFINE t == r.tx
           q == r.req
           s == chain.stores[t.vault]
           named == {t.content.rows[i].to : i \in 1 .. MAX_RECEIVERS} \ {0}
<1>1. t.pre = s
  BY DEF AsRead
<1>2. ContractAccepts(t, s, q.child)
  BY <1>1 DEF SignedOnSnapshot
<1>3. ContractAccepts(t, s, chain.child)
  <2>1. CASE t.action # "execute"
    BY <1>2, <2>1 DEF ContractAccepts
  <2>2. CASE t.action = "execute" /\ ~Remote(t.content.txType) /\ t.content.txType # "allocateChild"
    BY <1>2, <2>2 DEF ContractAccepts, Remote
  <2>3. CASE t.action = "execute" /\ (Remote(t.content.txType) \/ t.content.txType = "allocateChild")
    <3>1. q.child = chain.child
      BY <2>3 DEF AsRead
    <3> QED BY <1>2, <3>1
  <2> QED BY <2>1, <2>2, <2>3
<1>4. t.action = "execute" /\ t.content.txType \in Lifecycle => t.childPre = chain.child.done
  BY DEF SignedOnSnapshot, AsRead, Remote
<1>5. t.action = "execute" /\ t.content.txType = "transfer" =>
        t.charge = Cardinality(NewAccounts(t.content, chain.exists))
  <2> SUFFICES ASSUME t.action = "execute", t.content.txType = "transfer"
               PROVE  t.charge = Cardinality(NewAccounts(t.content, chain.exists))
    OBVIOUS
  <2>1. q.exists \cap named = chain.exists \cap named
    BY DEF AsRead
  <2>2. NewAccounts(t.content, q.exists) = NewAccounts(t.content, chain.exists)
    BY <2>1 DEF NewAccounts
  <2> QED BY <2>2 DEF SignedOnSnapshot
<1>6. t.action = "propose" /\ t.content.txType = "createChild" =>
        /\ chain.child.status \in {"none", "bare"}
        /\ t.charge = (IF chain.child.status = "none" THEN 1 ELSE 0)
  BY DEF SignedOnSnapshot, AsRead, Remote
<1>7. Pooled(t)
  BY DEF AsRead, Funded, Pooled
<1> QED BY <1>1, <1>3, <1>4, <1>5, <1>6, <1>7 DEF Lands, Executes

-----------------------------------------------------------------------------
(* What the operator was shown                                              *)

LEMMA InsertedOwners ==
    ASSUME NEW s \in Seq(Nat), NEW o \in Nat, NEW i \in 0 .. Len(s)
    PROVE  /\ InsertAfterFirst(s, o, i) \in Seq(Nat)
           /\ ToSet(InsertAfterFirst(s, o, i)) = ToSet(s) \cup {o}
<1> DEFINE n == Len(s)
           t == InsertAfterFirst(s, o, i)
           a == SubSeq(s, 1, i)
           b == SubSeq(s, i + 1, n)
           d == a \o <<o>>
<1>1. n \in Nat /\ i \in Int /\ 0 <= i /\ i <= n
  OBVIOUS
<1>2. \A k \in 1 .. n : s[k] \in Nat
  OBVIOUS
<1> HIDE DEF n
<1>3. a \in Seq(Nat) /\ Len(a) = i /\ \A k \in 1 .. i : a[k] = s[k]
  <2>1. \A k \in 1 .. i : s[k] \in Nat
    BY <1>1, <1>2
  <2> QED BY <1>1, <2>1, SubSeqProperties
<1>4. b \in Seq(Nat) /\ Len(b) = n - i /\ \A k \in 1 .. n - i : b[k] = s[i + k]
  <2>1. \A k \in i + 1 .. n : s[k] \in Nat
    BY <1>1, <1>2
  <2>2. /\ b \in Seq(Nat)
        /\ Len(b) = IF i + 1 <= n THEN n - (i + 1) + 1 ELSE 0
        /\ \A k \in 1 .. n - (i + 1) + 1 : b[k] = s[(i + 1) + k - 1]
    BY <1>1, <2>1, SubSeqProperties
  <2> HIDE DEF b
  <2> QED BY <1>1, <2>2
<1> HIDE DEF a, b
<1>5. <<o>> \in Seq(Nat) /\ Len(<<o>>) = 1 /\ <<o>>[1] = o
  OBVIOUS
<1>6. /\ d \in Seq(Nat) /\ Len(d) = i + 1
      /\ \A k \in 1 .. i + 1 : d[k] = IF k <= i THEN s[k] ELSE o
  <2>1. /\ d \in Seq(Nat) /\ Len(d) = i + 1
        /\ \A k \in 1 .. i + 1 : d[k] = IF k <= i THEN a[k] ELSE <<o>>[k - i]
    BY <1>3, <1>5, ConcatProperties
  <2> HIDE DEF d
  <2>2. ASSUME NEW k \in 1 .. i + 1 PROVE d[k] = IF k <= i THEN s[k] ELSE o
    BY <1>1, <1>3, <1>5, <2>1
  <2> QED BY <2>1, <2>2
<1>7. t = d \o b
  BY DEF InsertAfterFirst, a, b, n
<1> HIDE DEF d, t
<1>8. /\ t \in Seq(Nat) /\ Len(t) = n + 1
      /\ \A k \in 1 .. n + 1 : t[k] = IF k <= i + 1 THEN d[k] ELSE b[k - (i + 1)]
  <2>1. d \in Seq(Nat) /\ b \in Seq(Nat)
    BY <1>4, <1>6
  <2>2. /\ t \in Seq(Nat) /\ Len(t) = Len(d) + Len(b)
        /\ \A k \in 1 .. Len(d) + Len(b) :
             t[k] = IF k <= Len(d) THEN d[k] ELSE b[k - Len(d)]
    BY <1>7, <2>1, ConcatProperties, Zenon
  <2>3. Len(d) = i + 1 /\ Len(d) + Len(b) = n + 1
    BY <1>1, <1>4, <1>6
  <2> QED BY <2>2, <2>3
<1>9. ASSUME NEW k \in 1 .. n + 1
       PROVE  t[k] = IF k <= i THEN s[k] ELSE IF k = i + 1 THEN o ELSE s[k - 1]
  <2>1. CASE k <= i + 1
    <3>1. t[k] = d[k] /\ k \in 1 .. i + 1
      BY <1>1, <1>8, <2>1
    <3>2. d[k] = IF k <= i THEN s[k] ELSE o
      BY <1>6, <3>1
    <3> QED BY <1>1, <2>1, <3>1, <3>2
  <2>2. CASE ~(k <= i + 1)
    <3>1. t[k] = b[k - (i + 1)]
      BY <1>8, <2>2
    <3>2. k - (i + 1) \in 1 .. n - i /\ i + (k - (i + 1)) = k - 1
      BY <1>1, <2>2
    <3>3. ~(k <= i) /\ k # i + 1
      BY <1>1, <2>2
    <3> QED BY <1>4, <3>1, <3>2, <3>3
  <2> QED BY <2>1, <2>2
<1>10. ToSet(t) = {t[k] : k \in 1 .. n + 1} /\ ToSet(s) = {s[k] : k \in 1 .. n}
  <2>1. DOMAIN t = 1 .. n + 1
    BY <1>8
  <2>2. DOMAIN s = 1 .. n
    BY DEF n
  <2> QED BY <2>1, <2>2 DEF ToSet
<1>11. ASSUME NEW k \in 1 .. n + 1 PROVE t[k] \in ToSet(s) \cup {o}
  <2>1. CASE k <= i
    <3>1. k \in 1 .. n /\ t[k] = s[k]
      BY <1>1, <1>9, <2>1
    <3> QED BY <1>10, <3>1
  <2>2. CASE k = i + 1
    <3>1. t[k] = o
      BY <1>1, <1>9, <2>2
    <3> QED BY <3>1
  <2>3. CASE ~(k <= i) /\ k # i + 1
    <3>1. k - 1 \in 1 .. n /\ t[k] = s[k - 1]
      BY <1>1, <1>9, <2>3
    <3> QED BY <1>10, <3>1
  <2> QED BY <2>1, <2>2, <2>3
<1>12. o \in ToSet(t)
  <2>1. i + 1 \in 1 .. n + 1 /\ t[i + 1] = o
    BY <1>1, <1>9
  <2> QED BY <1>10, <2>1
<1>13. ASSUME NEW k \in 1 .. n PROVE s[k] \in ToSet(t)
  <2>1. CASE k <= i
    <3>1. k \in 1 .. n + 1 /\ t[k] = s[k]
      BY <1>1, <1>9, <2>1
    <3> QED BY <1>10, <3>1
  <2>2. CASE ~(k <= i)
    <3>1. k + 1 \in 1 .. n + 1 /\ t[k + 1] = s[k]
      BY <1>1, <1>9, <2>2
    <3> QED BY <1>10, <3>1
  <2> QED BY <2>1, <2>2
<1>14. ToSet(t) = ToSet(s) \cup {o}
  BY <1>10, <1>11, <1>12, <1>13
<1> QED BY <1>8, <1>14 DEF t

LEMMA AddSortedOwners ==
    ASSUME NEW s \in Seq(Nat), NEW o \in Nat
    PROVE  /\ AddSorted(s, o) \in Seq(Nat)
           /\ ToSet(AddSorted(s, o)) = ToSet(s) \cup {o}
<1> DEFINE greater == {i \in 1 .. Len(s) : s[i] > o}
           at == IF greater = {} THEN Len(s)
                 ELSE (CHOOSE i \in greater : \A j \in greater : i <= j) - 1
<1>1. AddSorted(s, o) = InsertAfterFirst(s, o, at)
  BY DEF AddSorted
<1>2. at \in 0 .. Len(s)
  <2>1. CASE greater = {}
    BY <2>1
  <2>2. CASE greater # {}
    <3>1. greater \in SUBSET Nat
      OBVIOUS
    <3>2. \E m \in greater : \A j \in greater : m <= j
      <4> HIDE DEF greater
      <4> QED BY <2>2, <3>1, LeastMember
    <3>3. (CHOOSE i \in greater : \A j \in greater : i <= j) \in greater
      <4> HIDE DEF greater
      <4> QED BY <3>2
    <3>4. (CHOOSE i \in greater : \A j \in greater : i <= j) \in 1 .. Len(s)
      BY <3>3
    <3> DEFINE m == CHOOSE i \in greater : \A j \in greater : i <= j
    <3>5. at = m - 1
      BY <2>2
    <3>6. m \in 1 .. Len(s)
      BY <3>4
    <3> HIDE DEF m, at
    <3> QED BY <3>5, <3>6
  <2> QED BY <2>1, <2>2
<1> HIDE DEF at
<1> QED BY <1>1, <1>2, InsertedOwners

(* Sorting the owners of a SubVault neither drops nor adds one.             *)
LEMMA SortedOwnersOf ==
    ASSUME NEW s \in Seq(Nat)
    PROVE  ToSet(SortedOwners(s)) = ToSet(s)
<1> DEFINE X == Seq(Nat)
           n == Len(s)
           Body(f) == [i \in 0 .. Len(s) |-> IF i = 0 THEN <<>> ELSE AddSorted(f[i - 1], s[i])]
           store == CHOOSE f : f = Body(f)
           G == [i \in 1 .. n |-> [q \in X |-> AddSorted(q, s[i])]]
<1>1. n \in Nat /\ <<>> \in X /\ \A i \in 1 .. n : s[i] \in Nat
  OBVIOUS
<1>2. G \in [1 .. n -> [X -> X]]
  BY <1>1, AddSortedOwners
<1>3. PICK f \in [0 .. n -> X] : f[0] = <<>> /\ \A i \in 1 .. n : f[i] = G[i][f[i - 1]]
  <2> HIDE DEF G, X, n
  <2>1. HasSolution(n, X, <<>>, G)
    BY <1>1, <1>2, RecursionDefines, Zenon
  <2> QED BY <2>1 DEF HasSolution
<1>4. f = Body(f)
  <2>1. ASSUME NEW i \in 0 .. Len(s) PROVE f[i] = Body(f)[i]
    <3>1. CASE i = 0
      BY <1>3, <3>1
    <3>2. CASE i # 0
      <4>1. i \in 1 .. n /\ f[i - 1] \in X
        BY <3>2
      <4>2. G[i][f[i - 1]] = AddSorted(f[i - 1], s[i])
        <5> HIDE DEF X, n
        <5> QED BY <4>1
      <4>3. f[i] = AddSorted(f[i - 1], s[i])
        <5> HIDE DEF G, n, X
        <5> QED BY <1>3, <4>1, <4>2
      <4> QED BY <3>2, <4>3
    <3> QED BY <3>1, <3>2
  <2> HIDE DEF G, X
  <2> QED BY <2>1
<1>5. store = Body(store)
  <2> HIDE DEF Body
  <2> QED BY <1>4
<1> HIDE DEF store
<1> DEFINE Has(i) == store[i] \in Seq(Nat) /\ ToSet(store[i]) = {s[j] : j \in 1 .. i}
           Good == {i \in 0 .. n : Has(i)}
<1>6. 0 \in Good
  <2>1. store[0] = <<>>
    BY <1>1, <1>5
  <2>2. Has(0)
    BY <2>1 DEF ToSet
  <2> QED BY <1>1, <2>2
<1>7. ASSUME NEW i \in 1 .. n, i - 1 \in Good PROVE i \in Good
  <2>1. store[i] = AddSorted(store[i - 1], s[i])
    <3>1. i \in 0 .. Len(s) /\ i # 0
      OBVIOUS
    <3>2. store[i] = Body(store)[i]
      BY <1>5
    <3> QED BY <3>1, <3>2
  <2>2. Has(i - 1)
    BY <1>7
  <2>3. store[i] \in Seq(Nat) /\ ToSet(store[i]) = {s[j] : j \in 1 .. i - 1} \cup {s[i]}
    BY <1>1, <2>1, <2>2, AddSortedOwners
  <2>4. {s[j] : j \in 1 .. i - 1} \cup {s[i]} = {s[j] : j \in 1 .. i}
    OBVIOUS
  <2>5. Has(i)
    BY <2>3, <2>4
  <2> QED BY <2>5
<1>8. Has(n)
  <2>1. \A i \in 1 .. n : i - 1 \in Good => i \in Good
    BY <1>7
  <2>2. 0 .. n \subseteq Good
    <3> HIDE DEF Good, n
    <3> QED BY <1>1, <1>6, <2>1, StepByStep, Zenon
  <2>3. n \in Good
    <3> HIDE DEF Good, n
    <3> QED BY <1>1, <2>2
  <2> QED BY <2>3
<1>9. ToSet(s) = {s[j] : j \in 1 .. n}
  BY DEF ToSet
<1>10. SortedOwners(s) = store[n]
  BY DEF SortedOwners, store
<1> QED BY <1>8, <1>9, <1>10

(* What a file that passed the hash check holds.                            *)
LEMMA HashBindsContent ==
    ASSUME NEW r, FileOK(r), r.action # "propose", assertRecomputedProposalHash(r)
    PROVE  OnChain(BuiltContent(r))
<1> DEFINE c == r.proposal.hash.proposal
<1>1. OnChain(c) /\ r.proposal.hash = ProposalHash(c)
  BY DEF FileOK, OfOnChain
<1> HIDE DEF c
<1>2. ProposalHash(BuiltContent(r)).proposal = ProposalHash(c).proposal
  BY <1>1 DEF assertRecomputedProposalHash
<1>3. BuiltContent(r) = c
  BY <1>2 DEF ProposalHash
<1> QED BY <1>1, <1>3

(* The receiver the summary names is the one in the first slot.             *)
LEMMA TargetInFirstSlot ==
    ASSUME NEW rows, Len(rows) \in 0 .. MAX_RECEIVERS,
           \A i \in 2 .. MAX_RECEIVERS : Slots(rows)[i].to = 0
    PROVE  Target0(rows) = Slots(rows)[1].to
<1> DEFINE real == {i \in 1 .. Len(rows) : rows[i].to # 0}
<1>1. MAX_RECEIVERS \in Nat /\ MAX_RECEIVERS # 0
  BY OfflineLimits
<1>2. \A i \in 1 .. MAX_RECEIVERS : Slots(rows)[i] = IF i <= Len(rows) THEN rows[i] ELSE Row(0, 0)
  BY DEF Slots
<1>3. \A i \in 2 .. Len(rows) : rows[i].to = 0
  BY <1>1, <1>2
<1>4. real \subseteq {1}
  BY <1>3
<1>5. CASE real = {}
  <2>1. Target0(rows) = 0
    BY <1>5 DEF Target0
  <2>2. CASE Len(rows) >= 1
    BY <1>1, <1>2, <1>5, <2>1, <2>2
  <2>3. CASE ~(Len(rows) >= 1)
    <3>1. Slots(rows)[1] = Row(0, 0)
      BY <1>1, <1>2, <2>3
    <3> QED BY <2>1, <3>1 DEF Row
  <2> QED BY <2>2, <2>3
<1>6. CASE real # {}
  <2>1. real = {1}
    BY <1>4, <1>6
  <2>2. (CHOOSE i \in real : \A j \in real : i <= j) = 1
    BY <2>1
  <2>3. Target0(rows) = rows[1].to
    BY <1>6, <2>2 DEF Target0
  <2>4. 1 <= Len(rows)
    BY <2>1
  <2> HIDE DEF real
  <2> QED BY <1>1, <1>2, <2>3, <2>4
<1> QED BY <1>5, <1>6

(* The summary and the transaction agree when, for a proposal's type, the   *)
(* summary's source agrees with the content on what the type is about, and  *)
(* on its number.                                                           *)
Targeted == OwnerChange \cup {"setDelegate"}

SameEffect(src, c) ==
    /\ c.txType \in Payment => Slots(src.rows) = c.rows
    /\ c.txType \in Targeted => src.target = c.rows[1].to
    /\ Remote(c.txType) => src.child = c.child
    /\ c.txType = "createChild" => ToSet(src.owners) = ToSet(c.data.owners)

SameNumber(src, c) ==
    /\ c.txType \in {"changeThreshold", "reclaimChild"} => src.number = c.data.num
    /\ c.txType = "enableChildMultiSig" => src.number = IF c.data.num = 1 THEN 1 ELSE 0
    /\ c.txType = "createChild" => src.number = c.data.threshold

LEMMA LinesMatch ==
    ASSUME NEW src, NEW t, NEW c, t.content = c, c.txType \in TxTypes, SameEffect(src, c)
    PROVE  /\ Unnumbered(renderBody(c.txType, src)) = Unnumbered(MeaningOf(t))
           /\ SameNumber(src, c) => renderBody(c.txType, src).number = MeaningOf(t).number
<1> DEFINE type == c.txType
           Body(rows, target, number, child, owners) ==
             [rows |-> rows, target |-> target, number |-> number, child |-> child,
              owners |-> owners]
<1>0. ASSUME NEW rows, NEW target, NEW n, NEW k, NEW child, NEW owners
      PROVE  /\ Unnumbered(Body(rows, target, n, child, owners))
                  = Unnumbered(Body(rows, target, k, child, owners))
             /\ Body(rows, target, n, child, owners).number = n
  BY DEF Unnumbered
<1>1. CASE type \in Payment
  <2>1. renderBody(type, src) = [NoBody EXCEPT !.rows = RealReceivers(Slots(src.rows))]
    BY <1>1 DEF renderBody, Payment, OwnerChange
  <2>2. MeaningOf(t) = [NoBody EXCEPT !.rows = RealReceivers(c.rows)]
    BY <1>1 DEF MeaningOf, Payment, OwnerChange
  <2> QED BY <1>1, <2>1, <2>2 DEF SameEffect
<1>2. CASE type \in Targeted
  <2>1. renderBody(type, src) = [NoBody EXCEPT !.target = src.target]
    BY <1>2 DEF renderBody, Payment, OwnerChange, Targeted
  <2>2. MeaningOf(t) = [NoBody EXCEPT !.target = c.rows[1].to]
    BY <1>2 DEF MeaningOf, Payment, OwnerChange, Targeted
  <2> QED BY <1>2, <2>1, <2>2 DEF SameEffect
<1>3. CASE type = "changeThreshold"
  <2>1. renderBody(type, src) = Body(<<>>, 0, src.number, 0, {})
    BY <1>3 DEF renderBody, Payment, OwnerChange, NoBody
  <2>2. MeaningOf(t) = Body(<<>>, 0, c.data.num, 0, {})
    BY <1>3 DEF MeaningOf, Payment, OwnerChange, NoBody
  <2> HIDE DEF Body
  <2> QED BY <1>0, <1>3, <2>1, <2>2 DEF SameNumber
<1>4. CASE type = "createChild"
  <2>1. renderBody(type, src) = Body(<<>>, 0, src.number, src.child, ToSet(src.owners))
    BY <1>4 DEF renderBody, Payment, OwnerChange, NoBody
  <2>2. MeaningOf(t) = Body(<<>>, 0, c.data.threshold, c.child, ToSet(c.data.owners))
    BY <1>4 DEF MeaningOf, Payment, OwnerChange, NoBody
  <2>3. src.child = c.child /\ ToSet(src.owners) = ToSet(c.data.owners)
    BY <1>4 DEF SameEffect, Remote
  <2> HIDE DEF Body
  <2> QED BY <1>0, <1>4, <2>1, <2>2, <2>3 DEF SameNumber
<1>5. CASE type = "destroyChild"
  <2>1. renderBody(type, src) = [NoBody EXCEPT !.child = src.child]
    BY <1>5 DEF renderBody, Payment, OwnerChange
  <2>2. MeaningOf(t) = [NoBody EXCEPT !.child = c.child]
    BY <1>5 DEF MeaningOf, Payment, OwnerChange
  <2> QED BY <1>5, <2>1, <2>2 DEF SameEffect, Remote, Lifecycle
<1>6. CASE type \in {"reclaimChild", "enableChildMultiSig"}
  <2> DEFINE n == IF type = "reclaimChild" THEN c.data.num ELSE IF c.data.num = 1 THEN 1 ELSE 0
  <2>1. renderBody(type, src) = Body(<<>>, 0, src.number, src.child, {})
    BY <1>6 DEF renderBody, Payment, OwnerChange, NoBody
  <2>2. MeaningOf(t) = Body(<<>>, 0, n, c.child, {})
    BY <1>6 DEF MeaningOf, Payment, OwnerChange, NoBody
  <2>3. src.child = c.child /\ (SameNumber(src, c) => src.number = n)
    BY <1>6 DEF SameEffect, SameNumber, Remote, Lifecycle
  <2> HIDE DEF Body, n
  <2> QED BY <1>0, <2>1, <2>2, <2>3
<1> QED BY <1>1, <1>2, <1>3, <1>4, <1>5, <1>6 DEF TxTypes, Lifecycle, Targeted

LEMMA ProposalAsShown ==
    ASSUME NEW r, FileOK(r), r.action = "propose", BundleValid(r)
    PROVE  /\ SameEffect(SourceOf(r), ProposeContent(r))
           /\ PlainNumbers(r) =>
                /\ SameNumber(SourceOf(r), ProposeContent(r))
                /\ Text(ExpiryOf(r)) = ProposeContent(r).expirySlot.num
<1> DEFINE input == r.input
           src == SourceOf(r)
           c == ProposeContent(r)
<1>1. /\ src.rows = input.rows /\ src.target = TargetOf(input)
      /\ src.number = (IF input.txType = "enableChildMultiSig"
                       THEN Switch(input.number.num) ELSE Text(input.number))
      /\ src.child = input.child /\ src.owners = input.owners
  BY DEF SourceOf
<1>2. /\ c.txType = input.txType /\ c.rows = ProposeRows(input) /\ c.child = input.child
      /\ c.data = ProposeData(input, r.checkpoint.owners)
      /\ c.expirySlot = FieldOf(input.expirySlot)
  BY DEF ProposeContent
<1> HIDE DEF src, c
<1>3. input.txType \in Payment => c.rows = Slots(input.rows)
  BY <1>2 DEF ProposeRows
<1>4. ASSUME input.txType \in Targeted
      PROVE  c.rows[1].to = TargetOf(input)
  <2> DEFINE target == TargetOf(input)
  <2>1. input.txType \notin Payment /\ 1 \in 1 .. MAX_RECEIVERS
    BY <1>4, OfflineLimits DEF Payment, OwnerChange, Targeted
  <2>2. CASE target = 0
    <3>1. c.rows = Slots(<<>>)
      BY <1>2, <2>1, <2>2 DEF ProposeRows
    <3>2. c.rows[1] = Row(0, 0)
      BY <2>1, <3>1 DEF Slots
    <3> QED BY <2>2, <3>2 DEF Row
  <2>3. CASE target # 0
    <3>1. c.rows = Slots(<<Row(target, 0)>>)
      BY <1>2, <2>1, <2>3 DEF ProposeRows
    <3>2. c.rows[1] = Row(target, 0)
      BY <2>1, <3>1 DEF Slots
    <3> QED BY <3>2 DEF Row
  <2> QED BY <2>2, <2>3
<1>5. ASSUME input.txType = "createChild"
      PROVE  /\ ToSet(c.data.owners) = ToSet(input.owners)
             /\ c.data.threshold = input.number.num
  <2> DEFINE n == input.number.num
  <2>1. c.data = ConfigHash(SortedOwners(input.owners), n)
    BY <1>2, <1>5 DEF ProposeData, BundleValid, assertCreateChildProposeConfig
  <2>2. c.data.owners = SortedOwners(input.owners) /\ c.data.threshold = n
    BY <2>1 DEF ConfigHash
  <2> QED BY <2>2, SortedOwnersOf DEF FileOK, Entered
<1>6. SameEffect(src, c)
  BY <1>1, <1>2, <1>3, <1>4, <1>5 DEF SameEffect
<1>7. ASSUME PlainNumbers(r)
      PROVE  SameNumber(src, c) /\ Text(ExpiryOf(r)) = c.expirySlot.num
  <2>1. IsNum(input.number) /\ IsNum(input.expirySlot) /\ ExpiryOf(r) = input.expirySlot
    BY DEF FileOK, Entered, ExpiryOf
  <2>2. input.number.text = input.number.num /\ input.expirySlot.text = input.expirySlot.num
    BY <1>7, <2>1 DEF PlainNumbers, Plain
  <2>3. Text(input.number) = input.number.num /\ Text(ExpiryOf(r)) = input.expirySlot.num
    BY <2>1, <2>2 DEF Text
  <2>4. c.expirySlot.num = input.expirySlot.num
    BY <1>2, <2>1 DEF FieldOf, Num
  <2>5. input.txType \in {"changeThreshold", "reclaimChild"} => c.data.num = input.number.num
    BY <1>2, <2>1 DEF ProposeData, FieldOf, Num
  <2>6. input.txType = "enableChildMultiSig" =>
          c.data.num = Switch(input.number.num) /\ Switch(input.number.num) \in {0, 1}
    BY <1>2 DEF ProposeData, Num, Switch
  <2>7. SameNumber(src, c)
    BY <1>1, <1>2, <1>5, <2>3, <2>5, <2>6 DEF SameNumber
  <2> QED BY <2>3, <2>4, <2>7
<1> QED BY <1>6, <1>7 DEF src, c

LEMMA VoteAsShown ==
    ASSUME NEW r, FileOK(r), FilesFit, r.action # "propose", BundleValid(r),
           assertRecomputedProposalHash(r)
    PROVE  /\ SameEffect(SourceOf(r), BuiltContent(r))
           /\ PlainNumbers(r) =>
                /\ SameNumber(SourceOf(r), BuiltContent(r))
                /\ Text(ExpiryOf(r)) = BuiltContent(r).expirySlot.num
<1> DEFINE p == r.proposal.content
           src == SourceOf(r)
           b == BuiltContent(r)
<1>1. /\ src.rows = p.rows /\ src.target = Target0(p.rows)
      /\ src.number = CASE p.txType = "createChild" -> r.childThreshold
                        [] p.txType = "enableChildMultiSig" -> IF Text(p.data) = 1 THEN 1 ELSE 0
                        [] OTHER -> Text(p.data)
      /\ src.child = IF p.child = 0 THEN r.childAddress ELSE p.child
      /\ src.owners = r.childOwners
  BY DEF SourceOf
<1>2. /\ b.txType = p.txType /\ b.rows = Slots(p.rows) /\ b.data = FieldOf(p.data)
      /\ b.expirySlot = FieldOf(p.expirySlot)
      /\ b.child = IF p.child = 0 /\ r.action = "execute" /\ Remote(p.txType)
                   THEN r.childAddress ELSE p.child
  BY BuiltFields
<1>3. OnChain(b)
  BY HashBindsContent
<1>4. Len(p.rows) \in 0 .. MAX_RECEIVERS
  BY DEF FileOK
<1> HIDE DEF src, b
<1>5. Remote(b.txType) => src.child = b.child
  BY <1>1, <1>2, <1>3 DEF OnChain
<1>6. ASSUME b.txType \in Targeted
      PROVE  src.target = b.rows[1].to
  <2>1. \A i \in 2 .. MAX_RECEIVERS : Slots(p.rows)[i].to = 0
    BY <1>2, <1>3, <1>6 DEF OnChain, Targeted, Payment, OwnerChange
  <2> QED BY <1>1, <1>2, <1>4, <2>1, TargetInFirstSlot
<1>7. ASSUME b.txType = "createChild"
      PROVE  ToSet(src.owners) = ToSet(b.data.owners) /\ src.number = b.data.threshold
  <2> DEFINE config == ConfigHash(r.childOwners, r.childThreshold)
  <2>1. p.data = config
    BY <1>2, <1>7 DEF BundleValid, assertCreateChildBundleConfig, TypeOf
  <2>2. "num" \notin DOMAIN config /\ config.owners = r.childOwners
        /\ config.threshold = r.childThreshold
    BY DEF ConfigHash
  <2>3. b.data = config
    BY <1>2, <2>1, <2>2 DEF FieldOf, IsNum
  <2> HIDE DEF config
  <2> QED BY <1>1, <1>2, <1>7, <2>2, <2>3
<1>8. SameEffect(src, b)
  BY <1>1, <1>2, <1>5, <1>6, <1>7 DEF SameEffect
<1>9. ASSUME PlainNumbers(r)
      PROVE  SameNumber(src, b) /\ Text(ExpiryOf(r)) = b.expirySlot.num
  <2>1. Plain(p.data) /\ Plain(p.expirySlot) /\ ExpiryOf(r) = p.expirySlot
    BY <1>9 DEF PlainNumbers, ExpiryOf
  <2>2. ASSUME NEW n, Plain(n), IsNum(FieldOf(n))
        PROVE  Text(n) = FieldOf(n).num
    <3>1. IsNum(n)
      BY <2>2 DEF FieldOf
    <3>2. FieldOf(n).num = n.num
      BY <3>1 DEF FieldOf, Num
    <3> QED BY <2>2, <3>1, <3>2 DEF Plain, Text
  <2>3. IsNum(b.expirySlot)
    BY <1>3 DEF OnChain
  <2>4. Text(ExpiryOf(r)) = b.expirySlot.num
    BY <1>2, <2>1, <2>2, <2>3
  <2>5. b.txType \in {"changeThreshold", "reclaimChild", "enableChildMultiSig"} =>
          Text(p.data) = b.data.num
    BY <1>2, <1>3, <2>1, <2>2 DEF OnChain
  <2>6. SameNumber(src, b)
    BY <1>1, <1>2, <1>7, <2>5 DEF SameNumber
  <2> QED BY <2>4, <2>6
<1> QED BY <1>8, <1>9 DEF src, b

(* What the operator confirmed is what the handler signs.                   *)
LEMMA HandlerShows ==
    ASSUME NEW c, FilesFit, FileOK(c.req), BundleValid(c.req), Handled(c.req),
           rebuildVerifiedStores(c.req),
           ContractAccepts(TransactionOf(c), c.req.snapshot, c.req.child), NEW w
    PROVE  AsShown([wrap |-> w, tx |-> TransactionOf(c), shown |-> renderBundleSummary(c.req),
                    req |-> c.req])
<1> DEFINE r == c.req
           t == TransactionOf(c)
           d == ContentOf(r)
           shown == renderBundleSummary(r)
           create == TypeOf(r) = "createChild"
<1>1. /\ t.action = r.action /\ t.vault = r.vault /\ t.payer = r.payer /\ t.network = r.network
      /\ t.fee = r.fee /\ t.content = d /\ t.charge = Charge(r)
      /\ t.memo = CASE r.action = "propose" -> r.input.memo
                    [] r.action = "approve" -> NoMemo
                    [] create -> NoMemo
                    [] OTHER -> r.proposal.memo
      /\ t.target = IF r.action = "execute" /\ Remote(TypeOf(r))
                    THEN (IF r.childAddress # 0 THEN r.childAddress ELSE r.proposal.content.child)
                    ELSE r.vault
      /\ t.setup = CASE r.action = "propose" /\ create ->
                          ConfigHash(SortedOwners(r.input.owners), r.input.number.num)
                     [] r.action = "execute" /\ create -> ConfigHash(r.childOwners, r.childThreshold)
                     [] OTHER -> None
  BY DEF TransactionOf, configureNetwork
<1>2. /\ shown.action = r.action /\ shown.txType = TypeOf(r) /\ shown.vault = r.vault
      /\ shown.payer = r.payer /\ shown.network = r.network /\ shown.fee = r.fee
      /\ shown.memo = (IF r.action = "propose" THEN r.input.memo ELSE r.proposal.memo)
      /\ shown.expirySlot = Text(ExpiryOf(r))
      /\ shown.body = renderBody(TypeOf(r), SourceOf(r)) /\ shown.charge = Charge(r)
  BY DEF renderBundleSummary
<1>3. r.action \in Actions /\ TypeOf(r) \in TxTypes
  BY DEF FileOK, BundleValid
<1>4. r.action # "propose" => assertRecomputedProposalHash(r) /\ assertBundleMemo(r)
  BY <1>3 DEF Handled, HandleApprove, HandleExecute, Actions
<1>5. d.txType = TypeOf(r)
  <2>1. CASE r.action = "propose"
    BY <2>1 DEF ContentOf, ProposeContent, TypeOf
  <2>2. CASE r.action # "propose"
    BY <2>2, BuiltFields DEF ContentOf, TypeOf
  <2> QED BY <2>1, <2>2
<1>6. /\ SameEffect(SourceOf(r), d)
      /\ PlainNumbers(r) =>
           SameNumber(SourceOf(r), d) /\ Text(ExpiryOf(r)) = d.expirySlot.num
  <2>1. CASE r.action = "propose"
    BY <2>1, ProposalAsShown DEF ContentOf
  <2>2. CASE r.action # "propose"
    BY <1>4, <2>2, VoteAsShown DEF ContentOf
  <2> QED BY <2>1, <2>2
<1>7. d.vault = r.vault
  <2>1. t.content.vault = r.snapshot.vault
    BY DEF ContractAccepts
  <2> QED BY <1>1, <2>1 DEF rebuildVerifiedStores
<1>8. d.txType = "createChild" /\ r.action \in {"propose", "execute"} => t.setup = d.data
  <2>1. CASE r.action = "propose"
    BY <1>1, <1>5, <2>1 DEF BundleValid, assertCreateChildProposeConfig, ContentOf,
       ProposeContent, ProposeData, TypeOf
  <2>2. CASE r.action = "execute"
    <3> DEFINE config == ConfigHash(r.childOwners, r.childThreshold)
    <3>1. CASE ~create
      BY <1>5, <3>1
    <3>2. CASE create
      <4>1. r.proposal.content.data = config /\ t.setup = config
        BY <1>1, <2>2, <3>2 DEF BundleValid, assertCreateChildBundleConfig
      <4>2. "num" \notin DOMAIN config
        BY DEF ConfigHash
      <4>3. d.data = FieldOf(r.proposal.content.data)
        BY <2>2, BuiltFields DEF ContentOf
      <4> HIDE DEF config
      <4> QED BY <4>1, <4>2, <4>3 DEF FieldOf, IsNum
    <3> QED BY <3>1, <3>2
  <2> QED BY <2>1, <2>2
<1>9. ASSUME t.action = "execute", Remote(d.txType)
      PROVE  t.target = d.child
  BY <1>1, <1>9 DEF ContractAccepts
<1> HIDE DEF t, shown, d
<1>10. /\ Unnumbered(shown.body) = Unnumbered(MeaningOf(t))
       /\ PlainNumbers(r) => shown.body.number = MeaningOf(t).number
  BY <1>1, <1>2, <1>3, <1>5, <1>6, LinesMatch
<1>11. MemoHash(shown.memo) = d.memoHash
  <2>1. CASE r.action = "propose"
    BY <1>2, <2>1 DEF ContentOf, ProposeContent, d
  <2>2. CASE r.action # "propose"
    BY <1>2, <1>4, <2>2, BuiltFields DEF ContentOf, d, assertBundleMemo
  <2> QED BY <2>1, <2>2
<1>12. t.memo \in {NoMemo, shown.memo}
  <2>1. CASE r.action = "propose"
    BY <1>1, <1>2, <2>1
  <2>2. CASE r.action # "propose"
    BY <1>1, <1>2, <2>2
  <2> QED BY <2>1, <2>2
<1>13. t.setup # None => t.setup = d.data
  BY <1>1, <1>5, <1>8
<1>14. t.action = "execute" /\ Remote(d.txType) => t.target = shown.body.child
  <2> SUFFICES ASSUME t.action = "execute", Remote(d.txType)
               PROVE  t.target = shown.body.child
    OBVIOUS
  <2>1. shown.body.child = SourceOf(r).child
    BY <1>2, <1>5 DEF renderBody, NoBody, Remote, Lifecycle, Payment, OwnerChange
  <2> QED BY <1>6, <1>9, <2>1 DEF SameEffect
<1> DEFINE file == [wrap |-> w, tx |-> t, shown |-> shown, req |-> r]
<1>15. file.tx = t /\ file.shown = shown /\ file.req = r
  OBVIOUS
<1> HIDE DEF file
<1>16. AsShown(file)
  BY <1>1, <1>2, <1>5, <1>6, <1>7, <1>10, <1>11, <1>12, <1>13, <1>14, <1>15 DEF AsShown
<1> QED BY <1>16 DEF file, t, shown

-----------------------------------------------------------------------------
(* The inductive invariant, each part of the variables it speaks of.        *)

PagesOK(pgs) == \A pg \in pgs : PageOK(pg)

(* An export remembers a page and an action the page offers.                *)
ExportOK(e) ==
    e.pc # "idle" =>
        /\ PageOK(e.page) /\ e.action \in Actions
        /\ (e.action = "propose") = (e.page.proposal = None)

FilesOK(files) == \A r \in files : FileOK(r)

(* The process has shown the file it checked.                               *)
CliOK(c) ==
    c.pc # "idle" =>
        /\ {"pc", "req", "shown"} \subseteq DOMAIN c
        /\ FileOK(c.req) /\ BundleValid(c.req) /\ c.shown = renderBundleSummary(c.req)

ResponsesOK(files) ==
    \A r \in files :
        /\ {"wrap", "tx", "shown", "req"} \subseteq DOMAIN r
        /\ SignedOnSnapshot(r) /\ (FilesFit => AsShown(r))

(* A transaction is for its page, when the file is as the CLI wrote it.     *)
ForPage(pg, t, w) ==
    /\ w = WrapperOf(t) =>
         /\ t.vault = pg.vault
         /\ pg.proposal # None => t.content = pg.proposal.content /\ t.action # "propose"
    /\ MemoApproved(t)

UploadOK(u) == u.pc # "idle" => ForPage(u.page, u.tx, u.wrap)

LandedOK(ls) == \A l \in ls : ForPage(l.page, l.tx, l.wrap) /\ l.expected \in {None, l.tx.fee}

OfflineInv ==
    /\ PagesOK(pages) /\ ExportOK(exp) /\ FilesOK(requests) /\ CliOK(cli)
    /\ ResponsesOK(responses) /\ UploadOK(upload) /\ LandedOK(landed)

LEMMA ExportKeeps ==
    ASSUME OfflineInv, NEW pg \in pages, NEW a \in Actions, StartExport(pg, a)
    PROVE  OfflineInv'
<1>1. (a = "propose") = (pg.proposal = None)
  <2>1. CASE pg.proposal = None
    BY <2>1 DEF StartExport, Offered
  <2>2. CASE pg.proposal # None
    BY <2>2 DEF StartExport, Offered
  <2> QED BY <2>1, <2>2
<1>2. ExportOK(exp')
  BY <1>1 DEF StartExport, ExportOK, OfflineInv, PagesOK
<1> QED BY <1>2 DEF StartExport, OfflineInv

LEMMA ReadsKeep ==
    ASSUME OfflineInv, TakeCheckpoint \/ FetchAccounts \/ ExportFails
    PROVE  OfflineInv'
<1>1. ExportOK(exp')
  <2>1. CASE TakeCheckpoint
    BY <2>1 DEF TakeCheckpoint, ExportOK, OfflineInv
  <2>2. CASE FetchAccounts
    BY <2>2 DEF FetchAccounts, ExportOK, OfflineInv
  <2>3. CASE ExportFails
    BY <2>3 DEF ExportFails, ExportOK, Idle
  <2> QED BY <2>1, <2>2, <2>3
<1> QED BY <1>1 DEF TakeCheckpoint, FetchAccounts, ExportFails, OfflineInv

(* A request has its page's proposal, whatever the builder adds.            *)
LEMMA RequestShape ==
    ASSUME NEW e, NEW fee, ExportOK(e), e.pc # "idle"
    PROVE  FileOK(RequestOf(e, fee))
<1> DEFINE b == ProposeBundle(e, fee)
           a == ApproveBundle(e, fee)
           x == ExecuteBundle(e, fee)
<1>1. b.action = e.action /\ b.proposal = e.page.proposal /\ b.input = e.page.input
      /\ {"action", "proposal", "input"} \subseteq DOMAIN b
  BY DEF ProposeBundle
<1> HIDE DEF b
<1>2. a.action = e.action /\ a.proposal = e.page.proposal /\ a.input = e.page.input
      /\ {"action", "proposal", "input"} \subseteq DOMAIN a
  BY <1>1 DEF ApproveBundle, b
<1> HIDE DEF a
<1>3. x.action = e.action /\ x.proposal = e.page.proposal /\ x.input = e.page.input
      /\ {"action", "proposal", "input"} \subseteq DOMAIN x
  BY <1>2 DEF ExecuteBundle, a
<1> HIDE DEF x
<1>4. RequestOf(e, fee) \in {b, a, x}
  BY DEF RequestOf, a, b, x
<1>5. ASSUME NEW r \in {b, a, x}
      PROVE  FileOK(r)
  <2>1. r.action = e.action /\ r.proposal = e.page.proposal /\ r.input = e.page.input
        /\ {"action", "proposal", "input"} \subseteq DOMAIN r
    BY <1>1, <1>2, <1>3, <1>5
  <2>2. CASE e.action = "propose"
    BY <2>1, <2>2 DEF FileOK, ExportOK, PageOK
  <2>3. CASE e.action # "propose"
    <3>1. Served(e.page.proposal) /\ e.action \in Actions
      BY <2>3 DEF ExportOK, PageOK
    <3>2. MAX_RECEIVERS \in 0 .. MAX_RECEIVERS
      BY OfflineLimits
    <3>3. OfOnChain(e.page.proposal.hash)
      BY <3>1 DEF Served, OfOnChain, ProposalHash
    <3> QED BY <2>1, <2>3, <3>1, <3>2, <3>3 DEF FileOK, Served, OnChain
  <2> QED BY <2>2, <2>3
<1> QED BY <1>4, <1>5

LEMMA WriteKeeps ==
    ASSUME OfflineInv, NEW fee, WriteRequest(fee)
    PROVE  OfflineInv'
<1>1. FileOK(RequestOf(exp, fee))
  BY RequestShape DEF WriteRequest, OfflineInv
<1>2. FilesOK(requests')
  BY <1>1 DEF WriteRequest, FilesOK, OfflineInv
<1>3. ExportOK(exp')
  BY DEF WriteRequest, ExportOK, Idle
<1> QED BY <1>2, <1>3 DEF WriteRequest, OfflineInv

LEMMA AlterKeeps ==
    ASSUME OfflineInv, Alter
    PROVE  OfflineInv'
<1>0. PICK r \in requests : \E a \in Altered(r) : requests' = (requests \ {r}) \cup {a}
  BY DEF Alter
<1>1. PICK a \in Altered(r) : requests' = (requests \ {r}) \cup {a}
  BY <1>0
<1>2. FileOK(a)
  BY AlteredKeepsShape DEF OfflineInv, FilesOK
<1>3. FilesOK(requests')
  BY <1>1, <1>2 DEF OfflineInv, FilesOK
<1> QED BY <1>3 DEF Alter, OfflineInv

LEMMA CliKeeps ==
    ASSUME OfflineInv,
           \/ \E r \in requests, k \in Keys, d \in Domains : RunCli(r, k, d)
           \/ \E yes \in BOOLEAN : ConfirmOrExit(yes)
    PROVE  OfflineInv'
<1>1. ASSUME NEW r \in requests, NEW k, NEW d, RunCli(r, k, d)
      PROVE  OfflineInv'
  <2>1. FileOK(r) /\ BundleValid(r)
    BY <1>1 DEF OfflineInv, FilesOK, RunCli
  <2>2. CliOK(cli')
    BY <1>1, <2>1 DEF RunCli, CliOK
  <2> QED BY <1>1, <2>2 DEF RunCli, OfflineInv
<1>2. ASSUME NEW yes \in BOOLEAN, ConfirmOrExit(yes)
      PROVE  OfflineInv'
  <2>1. cli.pc = "asked" /\ CliOK(cli)
    BY <1>2 DEF ConfirmOrExit, OfflineInv
  <2>2. CASE yes
    <3>1. cli' = [cli EXCEPT !.pc = "confirmed"]
      BY <1>2, <2>2 DEF ConfirmOrExit
    <3>2. CliOK(cli')
      BY <2>1, <3>1 DEF CliOK
    <3> QED BY <1>2, <3>2 DEF ConfirmOrExit, OfflineInv
  <2>3. CASE ~yes
    <3>1. CliOK(cli')
      BY <1>2, <2>3 DEF ConfirmOrExit, CliOK, Idle
    <3> QED BY <1>2, <3>1 DEF ConfirmOrExit, OfflineInv
  <2> QED BY <2>2, <2>3
<1> QED BY <1>1, <1>2

LEMMA HandleKeeps ==
    ASSUME OfflineInv, Handle
    PROVE  OfflineInv'
<1> DEFINE r == cli.req
           t == TransactionOf(cli)
           file == [wrap |-> WrapperOf(t), tx |-> t, shown |-> cli.shown, req |-> r]
<1>1. FileOK(r) /\ BundleValid(r) /\ cli.shown = renderBundleSummary(r)
  BY DEF Handle, OfflineInv, CliOK
<1>2. CASE responses' = responses
  BY <1>2 DEF Handle, OfflineInv, CliOK, Idle
<1>3. CASE responses' # responses
  <2>1. /\ responses' = responses \cup {file}
        /\ Handled(r) /\ rebuildVerifiedStores(r)
        /\ ContractAccepts(t, injectAccounts(r).vault, injectAccounts(r).child)
    BY <1>3 DEF Handle, Handled
  <2>2. injectAccounts(r).vault = r.snapshot /\ injectAccounts(r).child = r.child
    BY DEF injectAccounts
  <2>3. SignedOnSnapshot(file)
    BY <1>1, <2>1, <2>2, HandlerSigns
  <2>4. FilesFit => AsShown(file)
    BY <1>1, <2>1, <2>2, HandlerShows
  <2>7. {"wrap", "tx", "shown", "req"} \subseteq DOMAIN file
    OBVIOUS
  <2> HIDE DEF file
  <2>5. ResponsesOK(responses')
    BY <2>1, <2>3, <2>4, <2>7 DEF OfflineInv, ResponsesOK
  <2>6. CliOK(cli')
    BY DEF Handle, CliOK, Idle
  <2> QED BY <2>5, <2>6 DEF Handle, OfflineInv
<1> QED BY <1>2, <1>3

(* What is beside the transaction of a signed file is nobody's promise.     *)
LEMMA RewrapKeeps ==
    ASSUME OfflineInv, Rewrap
    PROVE  OfflineInv'
<1>0. PICK r \in responses : \E w : responses' = (responses \ {r}) \cup {[r EXCEPT !.wrap = w]}
  BY DEF Rewrap
<1>1. PICK w : responses' = (responses \ {r}) \cup {[r EXCEPT !.wrap = w]}
  BY <1>0
<1> DEFINE f == [r EXCEPT !.wrap = w]
<1>2. /\ {"wrap", "tx", "shown", "req"} \subseteq DOMAIN r
      /\ SignedOnSnapshot(r) /\ (FilesFit => AsShown(r))
  BY DEF OfflineInv, ResponsesOK
<1>3. DOMAIN f = DOMAIN r /\ f.tx = r.tx /\ f.shown = r.shown /\ f.req = r.req
  BY <1>2
<1> HIDE DEF f
<1>4. SignedOnSnapshot(f) /\ (FilesFit => AsShown(f))
  BY <1>2, <1>3 DEF SignedOnSnapshot, AsShown
<1>5. ResponsesOK(responses')
  BY <1>1, <1>2, <1>3, <1>4 DEF OfflineInv, ResponsesOK, f
<1> QED BY <1>5 DEF Rewrap, OfflineInv

LEMMA UploadKeeps ==
    ASSUME OfflineInv, NEW pg \in pages, NEW r \in responses, Upload(pg, r)
    PROVE  OfflineInv'
<1> DEFINE t == r.tx
           w == r.wrap
<1>1. MemoApproved(t)
  BY DEF OfflineInv, ResponsesOK, SignedOnSnapshot
<1>2. ASSUME w = WrapperOf(t)
      PROVE  /\ t.vault = pg.vault
             /\ pg.proposal # None => t.content = pg.proposal.content /\ t.action # "propose"
  <2>1. w.vault = t.vault /\ w.action = t.action /\ w.hash = ProposalHash(t.content)
    BY <1>2 DEF WrapperOf
  <2>2. w.vault = pg.vault /\ w.action \in Offered(pg)
        /\ (pg.proposal # None => w.hash = pg.proposal.hash)
    BY DEF Upload, BoundToPage
  <2>3. ASSUME pg.proposal # None
        PROVE  t.content = pg.proposal.content /\ t.action # "propose"
    <3>1. t.action # "propose"
      BY <2>1, <2>2, <2>3 DEF Offered
    <3>2. pg.proposal.hash = ProposalHash(pg.proposal.content)
      BY <2>3 DEF OfflineInv, PagesOK, PageOK, Served
    <3>3. ProposalHash(t.content).proposal = ProposalHash(pg.proposal.content).proposal
      BY <2>1, <2>2, <2>3, <3>2
    <3> QED BY <3>1, <3>3 DEF ProposalHash
  <2> QED BY <2>1, <2>2, <2>3
<1>3. ForPage(pg, t, w)
  BY <1>1, <1>2 DEF ForPage
<1>4. UploadOK(upload')
  BY <1>3 DEF Upload, UploadOK
<1> QED BY <1>4 DEF Upload, OfflineInv

LEMMA BroadcastKeeps ==
    ASSUME OfflineInv, Broadcast
    PROVE  OfflineInv'
<1> DEFINE t == upload.tx
           pg == upload.page
           w == upload.wrap
           l == [page |-> pg, expected |-> fees[pg][w.action], wrap |-> w, tx |-> t]
<1>1. ForPage(pg, t, w)
  BY DEF Broadcast, OfflineInv, UploadOK
<1>2. LandedOK(landed')
  <2>1. CASE landed' = landed
    BY <2>1 DEF OfflineInv
  <2>2. CASE landed' # landed
    <3>1. landed' = landed \cup {l} /\ fees[pg][w.action] \in {None, t.fee}
      BY <2>2 DEF Broadcast, FeeExpected
    <3>2. l.page = pg /\ l.tx = t /\ l.wrap = w /\ l.expected \in {None, t.fee}
      BY <3>1
    <3> HIDE DEF l
    <3> QED BY <1>1, <3>1, <3>2 DEF OfflineInv, LandedOK
  <2> QED BY <2>1, <2>2
<1>3. UploadOK(upload')
  BY DEF Broadcast, UploadOK, Idle
<1> QED BY <1>2, <1>3 DEF Broadcast, OfflineInv

LEMMA OthersKeep ==
    ASSUME OfflineInv, OthersMove \/ LeaveUpload \/ (\E pg \in pages : StartOver(pg))
    PROVE  OfflineInv'
<1>1. CASE OthersMove
  BY <1>1 DEF OthersMove, OfflineInv
<1>2. CASE LeaveUpload
  BY <1>2 DEF LeaveUpload, OfflineInv, UploadOK, Idle
<1>3. CASE \E pg \in pages : StartOver(pg)
  BY <1>3 DEF StartOver, OfflineInv
<1> QED BY <1>1, <1>2, <1>3

(* Every file, every signed transaction and every upload is what it was     *)
(* checked to be when the next program reads it: a request has the shape    *)
(* its page gave it, a signed file was accepted on the snapshot it carries, *)
(* and a reviewed upload, from a file as the CLI wrote it, is for the page  *)
(* that shows it.                                                           *)
THEOREM FilesStayChecked == Spec => []OfflineInv
<1>1. Init => OfflineInv
  <2> SUFFICES ASSUME Init
               PROVE  OfflineInv
    OBVIOUS
  <2>1. PagesOK(pages)
    BY OfflineWorlds DEF Init, PagesOK, PageOK
  <2> QED BY <2>1 DEF Init, OfflineInv, ExportOK, FilesOK, CliOK, ResponsesOK, UploadOK,
                      LandedOK, Idle
<1>2. OfflineInv /\ [Next]_vars => OfflineInv'
  <2> SUFFICES ASSUME OfflineInv, [Next]_vars
               PROVE  OfflineInv'
    OBVIOUS
  <2>1. CASE UNCHANGED vars
    BY <2>1 DEF vars, OfflineInv
  <2>2. CASE Next
    BY <2>2, ExportKeeps, ReadsKeep, WriteKeeps, AlterKeeps, CliKeeps, HandleKeeps, RewrapKeeps,
       UploadKeeps, BroadcastKeeps, OthersKeep DEF Next
  <2> QED BY <2>1, <2>2
<1> QED BY <1>1, <1>2, PTL DEF Spec

(* The CLI has no chain and signs on the snapshot in the request; what it   *)
(* signs with the payer's key for the page's network is applied by the      *)
(* chain as long as the accounts the request describes have not changed,    *)
(* whatever was altered in the file on its way, if it is included before    *)
(* its expiry and payer and paying account have the funds: the network      *)
(* preconditions the CLI leaves to the broadcast (configureNetwork).        *)
THEOREM SnapshotsLand == Spec => []SignedLandsIfUnmoved
<1>1. OfflineInv => SignedLandsIfUnmoved
  BY SignedLands DEF OfflineInv, ResponsesOK, SignedLandsIfUnmoved
<1> QED BY <1>1, FilesStayChecked, PTL

(* "Show the operator exactly what they are about to sign" (index.ts):      *)
(* whatever else was altered in the file, the confirmed summary and the     *)
(* signed transaction agree on every effect, as long as no file lists more  *)
(* rows than the contract has slots; on its number and the expiry, when the *)
(* file writes them as Field.toString does.                                 *)
THEOREM OperatorSeesWhatIsSigned ==
    ASSUME FilesFit
    PROVE  Spec => []SignedAsShown
<1>1. OfflineInv => SignedAsShown
  BY DEF OfflineInv, ResponsesOK, SignedAsShown
<1> QED BY <1>1, FilesStayChecked, PTL

(* processFile and broadcastReviewed: from the files the CLI wrote, in any  *)
(* order and for any page, a page sends only its own vault's and its own    *)
(* proposal's transactions.  Whichever signed file it is given, altered or  *)
(* not, it sends at the fee of its last export, with no memo but the one    *)
(* the owners approved.                                                     *)
THEOREM PagesSendTheirOwn == Spec => []LandedOnItsPage
<1>1. OfflineInv => LandedOnItsPage
  BY DEF OfflineInv, LandedOK, ForPage, MemoApproved, LandedOnItsPage
<1> QED BY <1>1, FilesStayChecked, PTL

=============================================================================
