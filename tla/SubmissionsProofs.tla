-------------------------- MODULE SubmissionsProofs --------------------------
(* Proofs about Submissions for every number of reports, transactions and   *)
(* retries and every limit.                                                 *)
EXTENDS Submissions, FiniteSetTheorems, TLAPS

(* A transaction that is a real action a on the proposal: it was sent, and  *)
(* proved on a state the vault really had.                                  *)
Real(t, a) == /\ t \in Tx /\ txs[t].st # "unused"
              /\ txs[t].kind = a /\ txs[t].base >= 0

(* A request past its first step names a transaction that was sent.         *)
ReportsNamed ==
    \A r \in Reports : reports[r].pc # "idle" =>
        reports[r].tx \in Tx /\ txs[reports[r].tx].st # "unused"

(* What the checks have established so far: between the two lookups the     *)
(* kind, after them the state as well, until the hash is on the row.        *)
VerifiedReal ==
    /\ \A k \in Actions \X Tx : checks[k].pc = "state" =>
         txs[k[2]].st # "unused" /\ txs[k[2]].kind = k[1]
    /\ \A r \in Reports : reports[r].pc = "write" =>
         Real(reports[r].tx, reports[r].act)
    /\ \A a \in Actions : row.hash[a] # None => Real(row.hash[a], a)

(* Under a single writer the row is still what the indexer's open           *)
(* transaction read ...                                                     *)
ApplyFresh ==
    apply.tx # None => /\ apply.hash = row.hash["approve"]
                       /\ apply.error = row.error["approve"]

(* ... and a recorded approval that has been applied belongs to a report    *)
(* that is about to notice.                                                 *)
OrphansOwned ==
    row.hash["approve"] \in eventRaw =>
        \E r \in Reports : /\ reports[r].pc \in {"verify", "clear"}
                           /\ reports[r].tx = row.hash["approve"]

IndInv ==
    /\ TypeOK
    /\ SlotsMatchChecks
    /\ ReportsNamed
    /\ VerifiedReal
    /\ SingleWriter => ApplyFresh /\ OrphansOwned

-----------------------------------------------------------------------------
(* Type correctness                                                         *)

CheckRecord == [pc : {"none", "pool", "state"}, tries : 0 .. Tries]
ReportRecord == [pc : {"idle", "start", "wait", "write", "verify", "clear"},
                 tx : Tx \cup {None}, act : Actions]
RowRecord == [hash : [Actions -> Tx \cup {None}], error : [Actions -> BOOLEAN],
              old : BOOLEAN]

(* The first state, with the proposal created, is well typed.               *)
LEMMA InitTypeOK == Init => TypeOK
<1> SUFFICES ASSUME Init PROVE TypeOK
  OBVIOUS
<1> USE VaultTxConstants, SubmissionsConstants DEF Init, Actions
<1>1. txs \in [Tx -> TxRecord] /\ eventRaw \subseteq Tx
  BY DEF InitCreated, TxRecord, Unused, Landed, Kinds
<1>2. reports \in [Reports -> ReportRecord]
  BY DEF Idle, ReportRecord
<1>3. checks \in [Actions \X Tx -> CheckRecord]
  BY DEF CheckRecord
<1>4. row \in RowRecord
  <2>1. /\ [a \in Actions |-> None] \in [Actions -> Tx \cup {None}]
        /\ [a \in Actions |-> FALSE] \in [Actions -> BOOLEAN]
    OBVIOUS
  <2> QED
    BY <2>1 DEF RowRecord
<1>5. apply \in [tx : Tx \cup {None}, hash : Tx \cup {None}, error : BOOLEAN]
  OBVIOUS
<1>6. poll \in [pc : {"idle", "pool", "execute", "approve"},
                hash : [Actions -> Tx \cup {None}], old : BOOLEAN,
                pool : (SUBSET Tx) \cup {None}, verdict : {"none", "fail", "keep"}]
  <2>1. [a \in Actions |-> None] \in [Actions -> Tx \cup {None}]
    OBVIOUS
  <2>2. None \in (SUBSET Tx) \cup {None}
    OBVIOUS
  <2> QED
    BY <2>1, <2>2
<1>7. slots \in [total : Int, forProposal : Int] /\ faults \in 0 .. MaxFaults
  OBVIOUS
<1> QED
  BY <1>1, <1>2, <1>3, <1>4, <1>5, <1>6, <1>7
  DEF TypeOK, ReportRecord, CheckRecord, RowRecord

(* The rows the writers build are well typed.                               *)
LEMMA WriteType ==
    ASSUME TypeOK, NEW a \in Actions, NEW h \in Tx \cup {None}, NEW e \in BOOLEAN
    PROVE  /\ Write(a, h, e) \in RowRecord
           /\ Write(a, h, e).hash[a] = h /\ Write(a, h, e).error[a] = e
           /\ \A b \in Actions \ {a} : /\ Write(a, h, e).hash[b] = row.hash[b]
                                       /\ Write(a, h, e).error[b] = row.error[b]
<1>1. /\ row.hash \in [Actions -> Tx \cup {None}]
      /\ row.error \in [Actions -> BOOLEAN]
  BY DEF TypeOK
<1>2. [row.hash EXCEPT ![a] = h] \in [Actions -> Tx \cup {None}]
  BY <1>1
<1>3. [row.error EXCEPT ![a] = e] \in [Actions -> BOOLEAN]
  BY <1>1
<1>4. Write(a, h, e) \in RowRecord
  BY <1>2, <1>3 DEF Write, RowRecord
<1>5. /\ Write(a, h, e).hash = [row.hash EXCEPT ![a] = h]
      /\ Write(a, h, e).error = [row.error EXCEPT ![a] = e]
  BY DEF Write
<1> QED
  BY <1>1, <1>4, <1>5

(* A write changes the hash of its own action only.                         *)
LEMMA WriteHashes ==
    ASSUME TypeOK, NEW a \in Actions, NEW h,
           row' = Write(a, h, FALSE) \/ row' = Write(a, h, TRUE)
    PROVE  /\ row'.hash[a] = h
           /\ \A b \in Actions \ {a} : row'.hash[b] = row.hash[b]
<1>1. row.hash \in [Actions -> Tx \cup {None}]
  BY DEF TypeOK
<1>2. row'.hash = [row.hash EXCEPT ![a] = h]
  BY DEF Write
<1> QED
  BY <1>1, <1>2

(* What ends, or retries, a check is well typed.                            *)
LEMMA SettleType ==
    ASSUME TypeOK, NEW k \in Actions \X Tx, NEW v \in BOOLEAN, Settle(k, v)
    PROVE  /\ checks' \in [Actions \X Tx -> CheckRecord]
           /\ slots' \in [total : Int, forProposal : Int]
           /\ reports' \in [Reports -> ReportRecord]
<1>1. checks' \in [Actions \X Tx -> CheckRecord]
  BY SubmissionsConstants DEF TypeOK, Settle, CheckRecord
<1>2. slots' \in [total : Int, forProposal : Int]
  BY DEF TypeOK, Settle, Release
<1>3. reports' \in [Reports -> ReportRecord]
  <2>1. ASSUME NEW r \in Reports
        PROVE  /\ reports[r] \in ReportRecord /\ Idle \in ReportRecord
               /\ [reports[r] EXCEPT !.pc = "write"] \in ReportRecord
    <3>1. reports[r] \in ReportRecord
      BY DEF TypeOK, ReportRecord
    <3>2. Idle \in ReportRecord
      BY DEF ReportRecord, Idle, Actions
    <3>3. [reports[r] EXCEPT !.pc = "write"] \in ReportRecord
      BY <3>1 DEF ReportRecord
    <3> QED
      BY <3>1, <3>2, <3>3
  <2> QED
    BY <2>1 DEF Settle, Answer
<1> QED
  BY <1>1, <1>2, <1>3

(* A failed lookup ends the check or tries again, within the retry limit.   *)
LEMMA NextTryType ==
    ASSUME TypeOK, NEW k \in Actions \X Tx, NextTry(k)
    PROVE  /\ checks' \in [Actions \X Tx -> CheckRecord]
           /\ slots' \in [total : Int, forProposal : Int]
           /\ reports' \in [Reports -> ReportRecord]
<1>1. CASE checks[k].tries = Tries
  BY <1>1, SettleType DEF NextTry
<1>2. CASE checks[k].tries # Tries
  <2>1. checks[k].tries + 1 \in 0 .. Tries
    <3>1. Tries \in Nat /\ checks[k].tries \in 0 .. Tries
      BY SubmissionsConstants DEF TypeOK
    <3> QED
      BY <1>2, <3>1
  <2>2. [pc |-> "pool", tries |-> checks[k].tries + 1] \in CheckRecord
    BY <2>1 DEF CheckRecord
  <2> QED
    BY <1>2, <2>2 DEF NextTry, TypeOK, CheckRecord, ReportRecord
<1> QED
  BY <1>1, <1>2

(* Network steps only move transactions along: what is known of one that    *)
(* was sent stays true.                                                     *)
LEMMA NetworkEffects ==
    ASSUME TypeOK, NEW t \in Tx,
           \/ \E s \in Signers, kind \in Actions : Broadcast(s, t, kind)
           \/ \E kind \in Actions : Forge(t, kind)
           \/ NetworkStep(t) \/ Elsewhere(t)
    PROVE  /\ txs' \in [Tx -> TxRecord]
           /\ UNCHANGED <<eventRaw, apply, server>>
           /\ \A u \in Tx : txs[u].st # "unused" =>
                /\ txs'[u].st # "unused"
                /\ txs'[u].kind = txs[u].kind /\ txs'[u].base = txs[u].base
<1> USE DEF Broadcast, Forge, NetworkStep, Elsewhere, Send, SendForged,
            ApplyOther, Network, Include, Drop, Bury
<1>0. /\ txs \in [Tx -> TxRecord] /\ txs[t] \in TxRecord
      /\ root \in Int /\ root \in Nat
  <2>1. IsFiniteSet(Applied)
    BY VaultTxConstants, FS_Subset DEF Applied
  <2> QED
    BY <2>1, FS_CardinalityType DEF TypeOK, root
<1>1. PICK x \in TxRecord :
        /\ txs' = [txs EXCEPT ![t] = x]
        /\ x.st # "unused"
        /\ txs[t].st # "unused" => x.kind = txs[t].kind /\ x.base = txs[t].base
  <2>1. ASSUME NEW kind \in Actions, NEW s \in Signers \cup {None}, NEW b \in Int
        PROVE  /\ Sent(kind, s, b) \in TxRecord
               /\ Sent(kind, s, b).st = "pool"
    BY DEF Sent, TxRecord, Kinds, Actions
  <2>2. CASE \E s \in Signers, kind \in Actions : Broadcast(s, t, kind)
    <3>1. PICK s \in Signers, kind \in Actions : Broadcast(s, t, kind)
      BY <2>2
    <3> DEFINE x == Sent(kind, s, root)
    <3>2. x \in TxRecord /\ x.st = "pool"
      BY <1>0, <2>1
    <3> QED
      BY <3>1, <3>2
  <2>3. CASE \E kind \in Actions : Forge(t, kind)
    <3>1. PICK kind \in Actions : Forge(t, kind)
      BY <2>3
    <3> DEFINE x == Sent(kind, None, -1)
    <3>2. x \in TxRecord /\ x.st = "pool"
      BY <2>1
    <3> QED
      BY <3>1, <3>2
  <2>4. CASE Elsewhere(t)
    <3> DEFINE x == Landed("other", None, root)
    <3>1. x \in TxRecord /\ x.st = "applied"
      BY <1>0 DEF TxRecord, Landed, Kinds
    <3> QED
      BY <2>4, <3>1
  <2>5. CASE NetworkStep(t)
    <3>1. PICK st \in {"applied", "failed", "dropped"}, deep \in BOOLEAN :
            txs' = [txs EXCEPT ![t] = [txs[t] EXCEPT !.st = st, !.deep = deep]]
      <4>1. /\ txs[t].deep \in BOOLEAN
            /\ \A st : [txs[t] EXCEPT !.st = st] = [txs[t] EXCEPT !.st = st, !.deep = txs[t].deep]
            /\ [txs[t] EXCEPT !.deep = TRUE] = [txs[t] EXCEPT !.st = txs[t].st, !.deep = TRUE]
        BY <1>0 DEF TxRecord
      <4> QED
        BY <1>0, <2>5, <4>1
    <3> DEFINE x == [txs[t] EXCEPT !.st = st, !.deep = deep]
    <3>2. /\ x \in TxRecord /\ x.st = st
          /\ x.kind = txs[t].kind /\ x.base = txs[t].base
      BY <1>0 DEF TxRecord
    <3>3. txs' = [txs EXCEPT ![t] = x]
      BY <1>0, <3>1
    <3> QED
      BY <3>2, <3>3
  <2> QED
    BY <2>2, <2>3, <2>4, <2>5
<1>2. UNCHANGED <<eventRaw, apply, server>>
  OBVIOUS
<1> QED
  BY <1>0, <1>1, <1>2

(* Every step of the report's route is well typed.                          *)
LEMMA ReportTypes ==
    ASSUME TypeOK, NEW r \in Reports,
           (\E t \in Tx, a \in Actions : Report(r, t, a)) \/ ReportStep(r)
    PROVE  TypeOK'
<1> USE DEF chain
<1>0. /\ reports \in [Reports -> ReportRecord] /\ reports[r] \in ReportRecord
      /\ checks \in [Actions \X Tx -> CheckRecord]
      /\ reports[r].act \in Actions /\ reports[r].tx \in Tx \cup {None}
      /\ Idle \in ReportRecord
      /\ row \in RowRecord
  BY DEF TypeOK, ReportRecord, CheckRecord, RowRecord, Idle, Actions
<1>1. ASSUME NEW x \in ReportRecord
      PROVE  [reports EXCEPT ![r] = x] \in [Reports -> ReportRecord]
  BY <1>0
<1>2. ASSUME NEW pc \in {"wait", "verify", "clear"}
      PROVE  [reports EXCEPT ![r].pc = pc] \in [Reports -> ReportRecord]
  BY <1>0 DEF ReportRecord
<1>3. CASE \E t \in Tx, a \in Actions : Report(r, t, a)
  <2>1. PICK t \in Tx, a \in Actions : Report(r, t, a)
    BY <1>3
  <2>2. [pc |-> "start", tx |-> t, act |-> a] \in ReportRecord
    BY DEF ReportRecord
  <2>3. reports' \in [Reports -> ReportRecord]
    BY <1>1, <2>1, <2>2 DEF Report
  <2> QED
    BY <2>1, <2>3 DEF Report, TypeOK, ReportRecord
<1>4. CASE StartReport(r)
  <2>1. reports' \in [Reports -> ReportRecord]
    BY <1>0, <1>1, <1>2, <1>4 DEF StartReport, Respond
  <2>2. slots' \in [total : Int, forProposal : Int]
    BY <1>4 DEF StartReport, TypeOK
  <2>3. checks' \in [Actions \X Tx -> CheckRecord]
    <3>1. [pc |-> "pool", tries |-> 1] \in CheckRecord
      BY SubmissionsConstants DEF CheckRecord
    <3>2. \/ checks' = checks
          \/ checks' = [checks EXCEPT ![key(r)] = [pc |-> "pool", tries |-> 1]]
      BY <1>4 DEF StartReport
    <3> QED
      BY <1>0, <3>1, <3>2
  <2> QED
    BY <1>4, <2>1, <2>2, <2>3 DEF StartReport, TypeOK, ReportRecord, CheckRecord
<1>5. CASE WriteHash(r)
  <2>1. reports' \in [Reports -> ReportRecord]
    BY <1>0, <1>1, <1>2, <1>5 DEF WriteHash, Respond
  <2>2. row' \in RowRecord
    BY <1>0, <1>5, WriteType DEF WriteHash
  <2> QED
    BY <1>5, <2>1, <2>2 DEF WriteHash, TypeOK, ReportRecord, RowRecord
<1>6. CASE VerifyApplied(r)
  <2>1. reports' \in [Reports -> ReportRecord]
    BY <1>0, <1>1, <1>2, <1>6 DEF VerifyApplied, Respond
  <2> QED
    BY <1>6, <2>1 DEF VerifyApplied, TypeOK, ReportRecord
<1>7. CASE ClearApplied(r)
  <2>1. reports' \in [Reports -> ReportRecord]
    BY <1>0, <1>1, <1>7 DEF ClearApplied, Respond
  <2>2. row' \in RowRecord
    <3>1. "approve" \in Actions
      BY DEF Actions
    <3>2. Write("approve", None, FALSE) \in RowRecord
      BY <3>1, WriteType
    <3> QED
      BY <1>0, <1>7, <3>2 DEF ClearApplied
  <2> QED
    BY <1>7, <2>1, <2>2 DEF ClearApplied, TypeOK, ReportRecord, RowRecord
<1> QED
  BY <1>3, <1>4, <1>5, <1>6, <1>7 DEF ReportStep

(* So is every step of a running check.                                     *)
LEMMA CheckTypes ==
    ASSUME TypeOK, NEW k \in Actions \X Tx, CheckStep(k)
    PROVE  TypeOK'
<1>1. UNCHANGED <<chain, row, poll>>
  BY DEF CheckStep, LookupPool, LookupState
<1>2. faults' \in 0 .. MaxFaults
  <2>1. MaxFaults \in Nat /\ faults \in 0 .. MaxFaults
    BY SubmissionsConstants DEF TypeOK
  <2>2. UNCHANGED faults \/ LookupFails
    BY DEF CheckStep, LookupPool, LookupState
  <2> QED
    BY <2>1, <2>2 DEF LookupFails
<1>3. /\ checks' \in [Actions \X Tx -> CheckRecord]
      /\ slots' \in [total : Int, forProposal : Int]
      /\ reports' \in [Reports -> ReportRecord]
  <2>1. CASE NextTry(k)
    BY <2>1, NextTryType
  <2>2. CASE Settle(k, FALSE) \/ Settle(k, TRUE)
    BY <2>2, SettleType
  <2>3. CASE checks' = [checks EXCEPT ![k].pc = "state"] /\ UNCHANGED <<slots, reports>>
    BY <2>3 DEF TypeOK, CheckRecord, ReportRecord
  <2> QED
    BY <2>1, <2>2, <2>3 DEF CheckStep, LookupPool, LookupState, matchesCurrentState
<1> QED
  BY <1>1, <1>2, <1>3 DEF TypeOK, chain, CheckRecord, ReportRecord

(* So is every step of the indexer.                                         *)
LEMMA IndexTypes ==
    ASSUME TypeOK, Index
    PROVE  TypeOK'
<1> DEFINE ApplyRecord == [tx : Tx \cup {None}, hash : Tx \cup {None}, error : BOOLEAN]
<1>0. /\ "approve" \in Actions /\ "execute" \in Actions
      /\ row.hash \in [Actions -> Tx \cup {None}]
      /\ row.error \in [Actions -> BOOLEAN] /\ row \in RowRecord
  BY DEF TypeOK, RowRecord, Actions
<1>1. CASE CommitEvent
  <2>1. /\ apply.tx \in Tx
        /\ UNCHANGED <<txs, reports, checks, slots, poll, faults>>
        /\ eventRaw' = eventRaw \cup {apply.tx}
        /\ row' = RowAfter(apply.tx, apply.hash, apply.error)
        /\ apply' = [tx |-> None, hash |-> None, error |-> FALSE]
    BY <1>1 DEF CommitEvent, TypeOK
  <2>2. apply' \in ApplyRecord
    BY <2>1
  <2>3. /\ Write("approve", None, FALSE) \in RowRecord
        /\ Write("execute", None, FALSE) \in RowRecord
        /\ [row EXCEPT !.old = FALSE] \in RowRecord
    <3>1. [row EXCEPT !.old = FALSE] \in RowRecord
      BY <1>0 DEF RowRecord
    <3> QED
      BY <1>0, <3>1, WriteType
  <2>4. row' \in RowRecord
    BY <1>0, <2>1, <2>3 DEF RowAfter
  <2> QED
    BY <2>1, <2>2, <2>4 DEF TypeOK, RowRecord
<1>2. ASSUME NEW t \in Tx, OpenEvent(t) PROVE TypeOK'
  <2>1. apply' \in ApplyRecord
    <3>1. row.hash["approve"] \in Tx \cup {None} /\ row.error["approve"] \in BOOLEAN
      BY <1>0
    <3> QED
      BY <1>2, <3>1 DEF OpenEvent
  <2> QED
    BY <1>2, <2>1 DEF OpenEvent, TypeOK, server
<1> QED
  BY <1>1, <1>2 DEF Index

(* So is every step of the poll; it never writes a hash.                    *)
LEMMA PollTypes ==
    ASSUME TypeOK, PollTick
    PROVE  TypeOK'
<1> DEFINE PollRecord == [pc : {"idle", "pool", "execute", "approve"},
                          hash : [Actions -> Tx \cup {None}], old : BOOLEAN,
                          pool : (SUBSET Tx) \cup {None},
                          verdict : {"none", "fail", "keep"}]
<1>0. poll \in PollRecord /\ row \in RowRecord
  BY DEF TypeOK, RowRecord
<1>1. UNCHANGED <<chain, reports, checks, slots>>
  BY DEF PollTick, PollRead, PollMempool, PollStatus, PollWrite
<1>2. faults' \in 0 .. MaxFaults
  <2>1. MaxFaults \in Nat /\ faults \in 0 .. MaxFaults
    BY SubmissionsConstants DEF TypeOK
  <2>2. UNCHANGED faults \/ LookupFails
    BY DEF PollTick, PollRead, PollMempool, PollStatus, PollWrite
  <2> QED
    BY <2>1, <2>2 DEF LookupFails
<1>3. row' \in RowRecord
  <2>1. CASE UNCHANGED row
    BY <1>0, <2>1
  <2>2. ASSUME NEW a \in Actions, row' = Write(a, row.hash[a], TRUE)
        PROVE  row' \in RowRecord
    <3>1. row.hash[a] \in Tx \cup {None}
      BY DEF TypeOK
    <3> QED
      BY <2>2, <3>1, WriteType
  <2>3. UNCHANGED row \/ \E a \in Actions : row' = Write(a, row.hash[a], TRUE)
    BY DEF PollTick, PollRead, PollMempool, PollStatus, PollWrite
  <2> QED
    BY <2>1, <2>2, <2>3
<1>4. poll' \in PollRecord
  <2>1. CASE PollRead
    <3>1. [a \in Actions |-> IF Tracked(a) THEN row.hash[a] ELSE None]
            \in [Actions -> Tx \cup {None}]
      BY DEF TypeOK
    <3>2. row.old \in BOOLEAN
      BY <1>0 DEF RowRecord
    <3>3. None \in (SUBSET Tx) \cup {None}
      OBVIOUS
    <3> DEFINE h == [a \in Actions |-> IF Tracked(a) THEN row.hash[a] ELSE None]
    <3>4. PICK pc \in {"pool", "execute"} :
            poll' = [pc |-> pc, hash |-> h, old |-> row.old, pool |-> None,
                     verdict |-> "none"]
      BY <2>1 DEF PollRead
    <3> HIDE DEF h
    <3> QED
      BY <3>1, <3>2, <3>3, <3>4 DEF h
  <2>2. ASSUME NEW b \in BOOLEAN, PollMempool(b) PROVE poll' \in PollRecord
    <3>1. PICK q \in (SUBSET Tx) \cup {None} :
            poll' = [poll EXCEPT !.pc = "execute", !.pool = q]
      BY <2>2 DEF PollMempool, Pool
    <3> QED
      BY <1>0, <3>1
  <2>3. ASSUME NEW pc \in {"approve", "idle"}
        PROVE  /\ [poll EXCEPT !.pc = pc] \in PollRecord
               /\ [poll EXCEPT !.pc = pc, !.verdict = "none"] \in PollRecord
    BY <1>0
  <2>4. ASSUME NEW a \in Actions, NEW b \in BOOLEAN, PollStatus(a, b)
        PROVE  poll' \in PollRecord
    <3>1. AfterPoll(a) \in {"approve", "idle"}
      BY DEF AfterPoll
    <3>2. \/ poll' = [poll EXCEPT !.pc = AfterPoll(a)]
          \/ \E v \in {"fail", "keep"} : poll' = [poll EXCEPT !.verdict = v]
      BY <2>4 DEF PollStatus, Verdict
    <3>3. ASSUME NEW v \in {"fail", "keep"}
          PROVE  [poll EXCEPT !.verdict = v] \in PollRecord
      BY <1>0
    <3> QED
      BY <2>3, <3>1, <3>2, <3>3
  <2>5. ASSUME NEW a \in Actions, PollWrite(a) PROVE poll' \in PollRecord
    <3>1. AfterPoll(a) \in {"approve", "idle"}
      BY DEF AfterPoll
    <3> QED
      BY <2>3, <2>5, <3>1 DEF PollWrite
  <2> QED
    BY <2>1, <2>2, <2>4, <2>5 DEF PollTick
<1> QED
  BY <1>1, <1>2, <1>3, <1>4 DEF TypeOK, chain, RowRecord

(* Every step keeps the state well typed.                                   *)
LEMMA NextTypeOK == TypeOK /\ [Next]_vars => TypeOK'
<1> SUFFICES ASSUME TypeOK, [Next]_vars PROVE TypeOK'
  OBVIOUS
<1>1. CASE UNCHANGED vars
  BY <1>1 DEF vars, TypeOK
<1>2. ASSUME NEW t \in Tx,
             \/ \E s \in Signers, kind \in Actions : Broadcast(s, t, kind)
             \/ \E kind \in Actions : Forge(t, kind)
             \/ NetworkStep(t) \/ Elsewhere(t)
      PROVE  TypeOK'
  <2>1. txs' \in [Tx -> TxRecord] /\ UNCHANGED <<eventRaw, apply, server>>
    BY <1>2, NetworkEffects
  <2> QED
    BY <2>1 DEF server, TypeOK
<1>3. CASE GracePasses
  <2>1. row' \in RowRecord
    BY <1>3 DEF GracePasses, TypeOK, RowRecord
  <2> QED
    BY <1>3, <2>1 DEF GracePasses, chain, TypeOK, RowRecord
<1> QED
  BY <1>1, <1>2, <1>3, ReportTypes, CheckTypes, IndexTypes, PollTypes DEF Next

-----------------------------------------------------------------------------
(* The limiter's counters                                                   *)

(* A step that leaves checks, counters and waiting reports alone keeps the  *)
(* counters right.                                                          *)
LEMMA SlotsFrame ==
    ASSUME SlotsMatchChecks, UNCHANGED <<checks, slots>>,
           \A q \in Reports : \/ reports'[q] = reports[q]
                              \/ reports'[q].pc # "wait" /\ reports[q].pc # "wait"
    PROVE  SlotsMatchChecks'
<1>1. Running' = Running
  BY DEF Running
<1>2. {q \in Reports : reports[q].pc = "wait"}'
        = {q \in Reports : reports[q].pc = "wait"}
  OBVIOUS
<1>3. \A q \in Reports : reports[q].pc = "wait" => key(q)' = key(q)
  BY DEF key
<1>4. {key(q) : q \in {r \in Reports : reports[r].pc = "wait"}}'
        = {key(q) : q \in {r \in Reports : reports[r].pc = "wait"}}
  BY <1>2, <1>3
<1> QED
  BY <1>1, <1>4 DEF SlotsMatchChecks

(* The running checks are finitely many.                                    *)
LEMMA RunningFinite == IsFiniteSet(Running) /\ Cardinality(Running) \in Nat
<1>1. IsFiniteSet(Actions)
  <2>1. IsFiniteSet({"approve"}) /\ IsFiniteSet({"execute"})
    BY FS_Singleton
  <2>2. IsFiniteSet({"approve"} \cup {"execute"})
    BY <2>1, FS_Union
  <2>3. Actions = {"approve"} \cup {"execute"}
    BY DEF Actions
  <2> QED
    BY <2>2, <2>3
<1>2. IsFiniteSet(Actions \X Tx)
  BY <1>1, VaultTxConstants, FS_Product
<1>3. IsFiniteSet(Running)
  BY <1>2, FS_Subset DEF Running
<1> QED
  BY <1>3, FS_CardinalityType

(* A report that starts a check takes one slot of each counter, one that    *)
(* joins a running check takes none.                                        *)
LEMMA StartSlots ==
    ASSUME TypeOK, ReportsNamed, SlotsMatchChecks, NEW r \in Reports, StartReport(r)
    PROVE  SlotsMatchChecks'
<1>0. /\ reports[r].pc = "start" /\ key(r) \in Actions \X Tx
      /\ Total \in Nat /\ PerProposal \in Nat
      /\ slots.total \in Int /\ slots.forProposal \in Int
  BY SubmissionsConstants DEF StartReport, ReportsNamed, TypeOK, key
<1>1. CASE Respond(r) /\ UNCHANGED <<checks, slots>>
  <2>1. \A q \in Reports : \/ reports'[q] = reports[q]
                           \/ reports'[q].pc # "wait" /\ reports[q].pc # "wait"
    BY <1>0, <1>1 DEF Respond, Idle, TypeOK
  <2> QED
    BY <1>1, <2>1, SlotsFrame
<1>2. ASSUME reports' = [reports EXCEPT ![r].pc = "wait"]
      PROVE  {key(q) : q \in {s \in Reports : reports[s].pc = "wait"}}'
               = {key(q) : q \in {s \in Reports : reports[s].pc = "wait"}} \cup {key(r)}
  <2>1. /\ \A q \in Reports \ {r} : reports'[q] = reports[q]
        /\ reports'[r].pc = "wait"
        /\ reports'[r].act = reports[r].act /\ reports'[r].tx = reports[r].tx
    BY <1>2 DEF TypeOK
  <2>2. \A q \in Reports : key(q)' = key(q)
    BY <2>1 DEF key
  <2>3. {s \in Reports : reports[s].pc = "wait"}'
          = {s \in Reports : reports[s].pc = "wait"} \cup {r}
    BY <2>1
  <2> QED
    BY <2>2, <2>3
<1>3. CASE /\ key(r) \in Running /\ UNCHANGED <<checks, slots>>
           /\ reports' = [reports EXCEPT ![r].pc = "wait"]
  <2>1. Running' = Running
    BY <1>3 DEF Running
  <2> QED
    BY <1>2, <1>3, <2>1 DEF SlotsMatchChecks
<1>4. CASE /\ key(r) \notin Running /\ SlotFree
           /\ slots' = [total |-> slots.total + 1, forProposal |-> slots.forProposal + 1]
           /\ checks' = [checks EXCEPT ![key(r)] = [pc |-> "pool", tries |-> 1]]
           /\ reports' = [reports EXCEPT ![r].pc = "wait"]
  <2>1. \A k \in Actions \X Tx :
          checks'[k].pc = IF k = key(r) THEN "pool" ELSE checks[k].pc
    BY <1>4 DEF TypeOK
  <2>2. Running' = Running \cup {key(r)}
    BY <1>0, <2>1 DEF Running
  <2>3. Cardinality(Running \cup {key(r)}) = Cardinality(Running) + 1
    BY <1>4, RunningFinite, FS_AddElement
  <2>4. slots'.total = slots.total + 1 /\ slots'.forProposal = slots.forProposal + 1
    BY <1>4
  <2>5. slots'.total <= Total /\ slots'.forProposal <= PerProposal
    BY <1>0, <1>4, <2>4 DEF SlotFree
  <2> QED
    BY <1>2, <1>4, <2>2, <2>3, <2>4, <2>5 DEF SlotsMatchChecks
<1> QED
  BY <1>1, <1>3, <1>4 DEF StartReport

(* A check that settles gives its slots back and wakes all its reports, so  *)
(* none is left waiting for a check that is gone.                           *)
LEMMA SettleSlots ==
    ASSUME TypeOK, SlotsMatchChecks, NEW k \in Actions \X Tx, NEW v \in BOOLEAN,
           checks[k].pc # "none", Settle(k, v)
    PROVE  SlotsMatchChecks'
<1>0. /\ Total \in Nat /\ PerProposal \in Nat
      /\ slots.total \in Int /\ slots.forProposal \in Int
  BY SubmissionsConstants DEF TypeOK
<1>1. \A j \in Actions \X Tx :
        checks'[j].pc = IF j = k THEN "none" ELSE checks[j].pc
  BY DEF Settle, TypeOK
<1>2. Running' = Running \ {k} /\ k \in Running
  BY <1>1 DEF Running
<1>3. Cardinality(Running \ {k}) = Cardinality(Running) - 1
  BY <1>2, RunningFinite, FS_RemoveElement
<1>4. slots'.total = slots.total - 1 /\ slots'.forProposal = slots.forProposal - 1
  BY DEF Settle, Release
<1>5. \A q \in Reports :
        IF reports[q].pc = "wait" /\ key(q) = k
        THEN reports'[q].pc # "wait" ELSE reports'[q] = reports[q]
  BY DEF Settle, Answer, Idle, TypeOK
<1>6. {s \in Reports : reports[s].pc = "wait"}'
        = {s \in Reports : reports[s].pc = "wait" /\ key(s) # k}
  BY <1>5
<1>7. \A q \in {s \in Reports : reports[s].pc = "wait" /\ key(s) # k} :
        key(q)' = key(q)
  BY <1>5 DEF key
<1>8. {key(q) : q \in {s \in Reports : reports[s].pc = "wait"}}'
        = {key(q) : q \in {s \in Reports : reports[s].pc = "wait"}} \ {k}
  BY <1>6, <1>7
<1>9. /\ slots'.total <= Total /\ slots'.forProposal <= PerProposal
      /\ slots'.total = Cardinality(Running') /\ slots'.forProposal = Cardinality(Running')
  <2>1. /\ slots.total = Cardinality(Running) /\ slots.forProposal = Cardinality(Running)
        /\ slots.total <= Total /\ slots.forProposal <= PerProposal
    BY DEF SlotsMatchChecks
  <2> QED
    BY <1>0, <1>2, <1>3, <1>4, <2>1
<1>10. Running = {key(q) : q \in {s \in Reports : reports[s].pc = "wait"}}
  BY DEF SlotsMatchChecks
<1>11. Running' = {key(q) : q \in {s \in Reports : reports[s].pc = "wait"}}'
  BY <1>2, <1>8, <1>10
<1> QED
  BY <1>9, <1>11 DEF SlotsMatchChecks

-----------------------------------------------------------------------------
(* The inductive invariant is preserved                                     *)

(* A request goes on with the transaction it named, or it is over.          *)
Continues(q) ==
    \/ reports'[q] = reports[q]
    \/ reports'[q].pc = "idle"
    \/ /\ reports[q].pc # "idle"
       /\ reports'[q].tx = reports[q].tx /\ reports'[q].act = reports[q].act

(* Transactions move on in the network: nothing established is undone.      *)
LEMMA NetworkPreserves ==
    ASSUME IndInv, TypeOK', NEW t \in Tx,
           \/ \E s \in Signers, kind \in Actions : Broadcast(s, t, kind)
           \/ \E kind \in Actions : Forge(t, kind)
           \/ NetworkStep(t) \/ Elsewhere(t)
    PROVE  IndInv'
<1>1. /\ UNCHANGED <<eventRaw, apply, row, reports, checks, slots>>
      /\ \A u \in Tx : txs[u].st # "unused" =>
           /\ txs'[u].st # "unused"
           /\ txs'[u].kind = txs[u].kind /\ txs'[u].base = txs[u].base
  BY NetworkEffects DEF IndInv, server
<1>2. \A u, a : Real(u, a) => Real(u, a)'
  BY <1>1 DEF Real
<1>3. SlotsMatchChecks'
  BY <1>1, SlotsFrame DEF IndInv
<1>4. ReportsNamed'
  BY <1>1 DEF IndInv, ReportsNamed
<1>5. VerifiedReal'
  <2>1. \A k \in Actions \X Tx : k[2] \in Tx
    OBVIOUS
  <2> QED
    BY <1>1, <1>2, <2>1 DEF IndInv, VerifiedReal
<1>6. SingleWriter => (ApplyFresh /\ OrphansOwned)'
  BY <1>1 DEF IndInv, ApplyFresh, OrphansOwned
<1> QED
  BY <1>3, <1>4, <1>5, <1>6 DEF IndInv

(* A new report names a transaction that was sent, and nothing more.        *)
LEMMA ReportPreserves ==
    ASSUME IndInv, TypeOK', NEW r \in Reports, NEW t \in Tx, NEW a \in Actions,
           Report(r, t, a)
    PROVE  IndInv'
<1>1. /\ reports[r].pc = "idle" /\ txs[t].st # "unused"
      /\ UNCHANGED <<txs, eventRaw, apply, row, checks, slots>>
      /\ \A q \in Reports :
           reports'[q] = IF q = r THEN [pc |-> "start", tx |-> t, act |-> a]
                         ELSE reports[q]
  BY DEF Report, chain, IndInv, TypeOK
<1>2. SlotsMatchChecks'
  BY <1>1, SlotsFrame DEF IndInv
<1>3. ReportsNamed'
  BY <1>1 DEF IndInv, ReportsNamed
<1>4. VerifiedReal'
  BY <1>1 DEF IndInv, VerifiedReal, Real
<1>5. SingleWriter => (ApplyFresh /\ OrphansOwned)'
  BY <1>1 DEF IndInv, ApplyFresh, OrphansOwned
<1> QED
  BY <1>2, <1>3, <1>4, <1>5 DEF IndInv

(* A step of the limiter, which may end a request, start a check, or wake   *)
(* requests with a verified answer.                                         *)
LEMMA LimiterPreserves ==
    ASSUME IndInv, TypeOK', SlotsMatchChecks',
           UNCHANGED <<txs, eventRaw, apply, row>>,
           \A q \in Reports :
             /\ Continues(q)
             /\ reports[q].pc \in {"verify", "clear"} => reports'[q] = reports[q]
             /\ reports'[q].pc = "write" => Real(reports'[q].tx, reports'[q].act),
           \A k \in Actions \X Tx : checks'[k].pc = "state" =>
             txs[k[2]].st # "unused" /\ txs[k[2]].kind = k[1]
    PROVE  IndInv'
<1>1. \A u, a : Real(u, a) => Real(u, a)'
  BY DEF Real
<1>2. ReportsNamed'
  BY DEF IndInv, ReportsNamed, Continues
<1>3. VerifiedReal'
  BY <1>1 DEF IndInv, VerifiedReal
<1>4. SingleWriter => (ApplyFresh /\ OrphansOwned)'
  <2>1. OrphansOwned => OrphansOwned'
    BY DEF OrphansOwned
  <2> QED
    BY <2>1 DEF IndInv, ApplyFresh
<1> QED
  BY <1>2, <1>3, <1>4 DEF IndInv

(* The route up to the check.                                               *)
LEMMA StartPreserves ==
    ASSUME IndInv, TypeOK', NEW r \in Reports, StartReport(r)
    PROVE  IndInv'
<1>1. SlotsMatchChecks'
  BY StartSlots DEF IndInv
<1>2. UNCHANGED <<txs, eventRaw, apply, row>> /\ reports[r].pc = "start"
  BY DEF StartReport, chain
<1>3. \/ reports' = [reports EXCEPT ![r] = Idle]
      \/ reports' = [reports EXCEPT ![r].pc = "wait"]
  BY DEF StartReport, Respond
<1>4. \A q \in Reports :
        /\ Continues(q)
        /\ reports[q].pc \in {"verify", "clear"} => reports'[q] = reports[q]
        /\ reports'[q].pc = "write" => reports'[q] = reports[q]
  <2>1. CASE reports' = [reports EXCEPT ![r] = Idle]
    BY <1>2, <2>1 DEF Continues, Idle, IndInv, TypeOK
  <2>2. CASE reports' = [reports EXCEPT ![r].pc = "wait"]
    BY <1>2, <2>2 DEF Continues, IndInv, TypeOK
  <2> QED
    BY <1>3, <2>1, <2>2
<1>5. \A q \in Reports : reports'[q].pc = "write" =>
        Real(reports'[q].tx, reports'[q].act)
  BY <1>4 DEF IndInv, VerifiedReal
<1>6. \A k \in Actions \X Tx : checks'[k].pc = "state" => checks[k].pc = "state"
  <2>1. \/ checks' = checks
        \/ checks' = [checks EXCEPT ![key(r)] = [pc |-> "pool", tries |-> 1]]
    BY DEF StartReport
  <2>2. CASE checks' = [checks EXCEPT ![key(r)] = [pc |-> "pool", tries |-> 1]]
    BY <2>2 DEF IndInv, TypeOK
  <2> QED
    BY <2>1, <2>2
<1>7. \A k \in Actions \X Tx : checks'[k].pc = "state" =>
        txs[k[2]].st # "unused" /\ txs[k[2]].kind = k[1]
  BY <1>6 DEF IndInv, VerifiedReal
<1> QED
  BY <1>1, <1>2, <1>4, <1>5, <1>7, LimiterPreserves

(* A check that settles: whoever it wakes to write was truly verified.      *)
LEMMA SettlePreserves ==
    ASSUME IndInv, TypeOK', NEW k \in Actions \X Tx, NEW v \in BOOLEAN,
           checks[k].pc # "none", v => Real(k[2], k[1]), Settle(k, v),
           UNCHANGED <<txs, eventRaw, apply, row>>
    PROVE  IndInv'
<1>1. SlotsMatchChecks'
  BY SettleSlots DEF IndInv
<1>2. \A q \in Reports :
        /\ Continues(q)
        /\ reports[q].pc \in {"verify", "clear"} => reports'[q] = reports[q]
        /\ reports'[q].pc = "write" => Real(reports'[q].tx, reports'[q].act)
  <2> SUFFICES ASSUME NEW q \in Reports
               PROVE  /\ Continues(q)
                      /\ reports[q].pc \in {"verify", "clear"} =>
                           reports'[q] = reports[q]
                      /\ reports'[q].pc = "write" =>
                           Real(reports'[q].tx, reports'[q].act)
    OBVIOUS
  <2>1. CASE ~(reports[q].pc = "wait" /\ key(q) = k)
    <3>1. reports'[q] = reports[q]
      BY <2>1 DEF Settle, Answer
    <3> QED
      BY <3>1 DEF Continues, IndInv, VerifiedReal
  <2>2. CASE reports[q].pc = "wait" /\ key(q) = k /\ ~v
    <3>1. reports'[q] = Idle
      BY <2>2 DEF Settle, Answer
    <3> QED
      BY <2>2, <3>1 DEF Continues, Idle
  <2>3. CASE reports[q].pc = "wait" /\ key(q) = k /\ v
    <3>1. reports'[q] = [reports[q] EXCEPT !.pc = "write"]
      BY <2>3 DEF Settle, Answer
    <3>2. /\ reports'[q].tx = reports[q].tx /\ reports'[q].act = reports[q].act
          /\ reports[q].tx = k[2] /\ reports[q].act = k[1]
      BY <2>3, <3>1 DEF IndInv, TypeOK, key
    <3> QED
      BY <2>3, <3>2 DEF Continues
  <2> QED
    BY <2>1, <2>2, <2>3
<1>3. \A j \in Actions \X Tx : checks'[j].pc = "state" => checks[j].pc = "state"
  BY DEF Settle, IndInv, TypeOK
<1>4. \A j \in Actions \X Tx : checks'[j].pc = "state" =>
        txs[j[2]].st # "unused" /\ txs[j[2]].kind = j[1]
  BY <1>3 DEF IndInv, VerifiedReal
<1> QED
  BY <1>1, <1>2, <1>4, LimiterPreserves

(* A check that goes on from one lookup to another keeps its slot.          *)
LEMMA CheckMovesPreserves ==
    ASSUME IndInv, TypeOK', NEW k \in Actions \X Tx, NEW x,
           checks[k].pc # "none", x.pc # "none",
           x.pc = "state" => txs[k[2]].st # "unused" /\ txs[k[2]].kind = k[1],
           checks' = [checks EXCEPT ![k] = x],
           UNCHANGED <<txs, eventRaw, apply, row, slots, reports>>
    PROVE  IndInv'
<1>1. \A j \in Actions \X Tx : checks'[j] = IF j = k THEN x ELSE checks[j]
  BY DEF IndInv, TypeOK
<1>2. Running' = Running
  BY <1>1 DEF Running
<1>3. {key(q) : q \in {s \in Reports : reports[s].pc = "wait"}}'
        = {key(q) : q \in {s \in Reports : reports[s].pc = "wait"}}
  BY DEF key
<1>4. SlotsMatchChecks'
  BY <1>2, <1>3 DEF IndInv, SlotsMatchChecks
<1>5. \A q \in Reports :
        /\ Continues(q)
        /\ reports'[q].pc = "write" => Real(reports'[q].tx, reports'[q].act)
  BY DEF Continues, IndInv, VerifiedReal
<1>6. \A j \in Actions \X Tx : checks'[j].pc = "state" =>
        txs[j[2]].st # "unused" /\ txs[j[2]].kind = j[1]
  BY <1>1 DEF IndInv, VerifiedReal
<1> QED
  BY <1>4, <1>5, <1>6, LimiterPreserves

(* The lookups of a running check, answered or failed.                      *)
LEMMA CheckPreserves ==
    ASSUME IndInv, TypeOK', NEW k \in Actions \X Tx, CheckStep(k)
    PROVE  IndInv'
<1>0. /\ checks[k].pc # "none" /\ UNCHANGED <<txs, eventRaw, apply, row>>
      /\ k[1] \in Actions /\ k[2] \in Tx
  BY DEF CheckStep, LookupPool, LookupState, chain
<1>1. CASE Settle(k, FALSE)
  BY <1>0, <1>1, SettlePreserves
<1>2. CASE NextTry(k)
  <2>1. CASE checks[k].tries # Tries
    <3> DEFINE x == [pc |-> "pool", tries |-> checks[k].tries + 1]
    <3>1. /\ checks' = [checks EXCEPT ![k] = x]
          /\ UNCHANGED <<slots, reports>>
      BY <1>2, <2>1 DEF NextTry
    <3>2. x.pc = "pool"
      OBVIOUS
    <3> HIDE DEF x
    <3> QED
      BY <1>0, <3>1, <3>2, CheckMovesPreserves
  <2> QED
    BY <1>1, <1>2, <2>1 DEF NextTry
<1>3. CASE /\ k[2] \in Pool /\ txs[k[2]].kind = k[1]
           /\ checks' = [checks EXCEPT ![k].pc = "state"]
           /\ UNCHANGED <<slots, reports>>
  <2> DEFINE x == [checks[k] EXCEPT !.pc = "state"]
  <2>1. checks' = [checks EXCEPT ![k] = x] /\ x.pc = "state"
    BY <1>3 DEF IndInv, TypeOK
  <2>2. txs[k[2]].st # "unused"
    BY <1>3 DEF Pool
  <2> HIDE DEF x
  <2> QED
    BY <1>0, <1>3, <2>1, <2>2, CheckMovesPreserves
<1>4. CASE checks[k].pc = "state" /\ Settle(k, matchesCurrentState(k[2]))
  <2>1. IsFiniteSet(Applied)
    BY VaultTxConstants, FS_Subset DEF Applied
  <2>2. root \in Nat
    BY <2>1, FS_CardinalityType DEF root
  <2>3. matchesCurrentState(k[2]) => Real(k[2], k[1])
    BY <1>0, <1>4, <2>2 DEF matchesCurrentState, IndInv, VerifiedReal, Real
  <2>4. matchesCurrentState(k[2]) \in BOOLEAN
    BY DEF matchesCurrentState
  <2> QED
    BY <1>0, <1>4, <2>3, <2>4, SettlePreserves
<1> QED
  BY <1>1, <1>2, <1>3, <1>4 DEF CheckStep, LookupPool, LookupState

(* The verified hash goes on the row; when it is an approval that has been  *)
(* applied meanwhile, this same report is about to find out.                *)
LEMMA WritePreserves ==
    ASSUME IndInv, TypeOK', NEW r \in Reports, WriteHash(r)
    PROVE  IndInv'
<1>0. /\ reports[r].pc = "write" /\ CanWrite
      /\ reports[r].tx \in Tx /\ reports[r].act \in Actions
      /\ Real(reports[r].tx, reports[r].act)
      /\ UNCHANGED <<txs, eventRaw, apply, checks, slots>>
      /\ row' = Write(reports[r].act, reports[r].tx, FALSE)
  BY DEF WriteHash, chain, IndInv, TypeOK, ReportsNamed, VerifiedReal
<1>1. /\ row'.hash[reports[r].act] = reports[r].tx
      /\ \A b \in Actions \ {reports[r].act} : row'.hash[b] = row.hash[b]
  BY <1>0, WriteHashes DEF IndInv
<1>2. /\ \A q \in Reports \ {r} : reports'[q] = reports[q]
      /\ \/ reports'[r].pc = "idle"
         \/ /\ reports'[r].pc = "verify"
            /\ reports'[r].tx = reports[r].tx /\ reports'[r].act = reports[r].act
      /\ reports[r].act = "approve" => reports'[r].pc = "verify"
  <2>1. CASE reports[r].act = "approve"
    BY <2>1 DEF WriteHash, IndInv, TypeOK
  <2>2. CASE reports[r].act # "approve"
    BY <2>2 DEF WriteHash, Respond, Idle, IndInv, TypeOK
  <2> QED
    BY <2>1, <2>2
<1>3. \A u, a : Real(u, a) => Real(u, a)'
  BY <1>0 DEF Real
<1>4. SlotsMatchChecks'
  <2>1. \A q \in Reports : \/ reports'[q] = reports[q]
                           \/ reports'[q].pc # "wait" /\ reports[q].pc # "wait"
    BY <1>0, <1>2
  <2> QED
    BY <1>0, <2>1, SlotsFrame DEF IndInv
<1>5. ReportsNamed'
  BY <1>0, <1>2 DEF IndInv, ReportsNamed
<1>6. VerifiedReal'
  BY <1>0, <1>1, <1>2, <1>3 DEF IndInv, VerifiedReal
<1>7. ASSUME SingleWriter PROVE ApplyFresh' /\ OrphansOwned'
  <2>1. ApplyFresh'
    BY <1>0, <1>7 DEF CanWrite, ApplyFresh
  <2>2. CASE reports[r].act = "approve"
    <3>1. OrphansOwned'
      BY <1>1, <1>2, <2>2 DEF OrphansOwned
    <3> QED
      BY <2>1, <3>1
  <2>3. CASE reports[r].act # "approve"
    <3>1. row'.hash["approve"] = row.hash["approve"]
      BY <1>1, <2>3 DEF Actions
    <3>2. OrphansOwned'
      BY <1>0, <1>2, <1>7, <3>1 DEF IndInv, OrphansOwned
    <3> QED
      BY <2>1, <3>2
  <2> QED
    BY <2>2, <2>3
<1> QED
  BY <1>4, <1>5, <1>6, <1>7 DEF IndInv

(* The look at the stored events: an approval that is there is cleared next,*)
(* unless another hash has replaced it.                                     *)
LEMMA VerifyPreserves ==
    ASSUME IndInv, TypeOK', NEW r \in Reports, VerifyApplied(r) \/ ClearApplied(r)
    PROVE  IndInv'
<1>0. /\ reports[r].pc \in {"verify", "clear"} /\ reports[r].tx \in Tx
      /\ UNCHANGED <<txs, eventRaw, apply, checks, slots>>
      /\ "approve" \in Actions
  BY DEF VerifyApplied, ClearApplied, chain, IndInv, TypeOK, ReportsNamed, Actions
<1>1. /\ \A q \in Reports \ {r} : reports'[q] = reports[q]
      /\ \/ reports'[r].pc = "idle"
         \/ reports'[r].pc = "clear" /\ reports'[r].tx = reports[r].tx
  <2>1. CASE reports' = [reports EXCEPT ![r] = Idle]
    BY <2>1 DEF Idle, IndInv, TypeOK
  <2>2. CASE reports' = [reports EXCEPT ![r].pc = "clear"]
    BY <2>2 DEF IndInv, TypeOK
  <2> QED
    BY <2>1, <2>2 DEF VerifyApplied, ClearApplied, Respond
<1>2. \/ row' = row
      \/ /\ ClearApplied(r) /\ row.hash["approve"] = reports[r].tx
         /\ row'.hash["approve"] = None
         /\ \A b \in Actions \ {"approve"} : row'.hash[b] = row.hash[b]
  <2>1. CASE VerifyApplied(r)
    BY <2>1 DEF VerifyApplied
  <2>2. CASE ClearApplied(r) /\ row.hash["approve"] = reports[r].tx
    <3>1. row' = Write("approve", None, FALSE)
      BY <2>2 DEF ClearApplied
    <3> QED
      BY <1>0, <2>2, <3>1, WriteHashes DEF IndInv
  <2>3. CASE ClearApplied(r) /\ row.hash["approve"] # reports[r].tx
    BY <2>3 DEF ClearApplied
  <2> QED
    BY <2>1, <2>2, <2>3
<1>3. \A u, a : Real(u, a) => Real(u, a)'
  BY <1>0 DEF Real
<1>4. SlotsMatchChecks'
  <2>1. \A q \in Reports : \/ reports'[q] = reports[q]
                           \/ reports'[q].pc # "wait" /\ reports[q].pc # "wait"
    BY <1>0, <1>1
  <2> QED
    BY <1>0, <2>1, SlotsFrame DEF IndInv
<1>5. ReportsNamed'
  BY <1>0, <1>1 DEF IndInv, ReportsNamed
<1>6. VerifiedReal'
  BY <1>0, <1>1, <1>2, <1>3 DEF IndInv, VerifiedReal
<1>7. ASSUME SingleWriter PROVE ApplyFresh' /\ OrphansOwned'
  <2>1. ApplyFresh'
    <3>1. row' = row \/ apply.tx = None
      BY <1>2, <1>7 DEF ClearApplied, CanWrite
    <3> QED
      BY <1>0, <1>7, <3>1 DEF ApplyFresh, IndInv
  <2>2. OrphansOwned'
    <3> SUFFICES ASSUME row'.hash["approve"] \in eventRaw
                 PROVE  \E q \in Reports : /\ reports'[q].pc \in {"verify", "clear"}
                                           /\ reports'[q].tx = row'.hash["approve"]
      BY <1>0 DEF OrphansOwned
    <3>1. None \notin eventRaw
      BY VaultTxConstants DEF IndInv, TypeOK
    <3>2. row' = row
      BY <1>2, <3>1
    <3>3. PICK q \in Reports : /\ reports[q].pc \in {"verify", "clear"}
                               /\ reports[q].tx = row.hash["approve"]
      BY <1>7, <3>2 DEF IndInv, OrphansOwned
    <3>4. CASE q # r
      BY <1>1, <3>2, <3>3, <3>4
    <3>5. CASE q = r
      <4>1. ~ClearApplied(r)
        <5>1. ClearApplied(r) => row' = Write("approve", None, FALSE)
          BY <3>3, <3>5 DEF ClearApplied
        <5>2. ClearApplied(r) => row'.hash["approve"] = None
          BY <1>0, <5>1, WriteHashes DEF IndInv
        <5> QED
          BY <3>1, <5>2
      <4>2. VerifyApplied(r) /\ reports[r].tx \in eventRaw
        BY <3>2, <3>3, <3>5, <4>1
      <4>3. reports' = [reports EXCEPT ![r].pc = "clear"]
        BY <4>2 DEF VerifyApplied
      <4>4. reports'[r].pc = "clear" /\ reports'[r].tx = reports[r].tx
        BY <4>3 DEF IndInv, TypeOK
      <4> QED
        BY <3>2, <3>3, <3>5, <4>4
    <3> QED
      BY <3>4, <3>5
  <2> QED
    BY <2>1, <2>2
<1> QED
  BY <1>4, <1>5, <1>6, <1>7 DEF IndInv

(* A step that keeps both hashes, and writes an error only when it may,     *)
(* keeps the invariant: the poll and the passing of the grace period.       *)
LEMMA HashesKeptPreserves ==
    ASSUME IndInv, TypeOK', row'.hash = row.hash,
           row'.error = row.error \/ CanWrite,
           UNCHANGED <<txs, eventRaw, apply, reports, checks, slots>>
    PROVE  IndInv'
<1>1. SlotsMatchChecks'
  BY SlotsFrame DEF IndInv
<1>2. ReportsNamed' /\ VerifiedReal'
  BY DEF IndInv, ReportsNamed, VerifiedReal, Real
<1>3. SingleWriter => (ApplyFresh /\ OrphansOwned)'
  BY DEF IndInv, ApplyFresh, OrphansOwned, CanWrite
<1> QED
  BY <1>1, <1>2, <1>3 DEF IndInv

(* The poll marks errors and never writes a hash.                           *)
LEMMA PollPreserves ==
    ASSUME IndInv, TypeOK', PollTick
    PROVE  IndInv'
<1>1. UNCHANGED <<txs, eventRaw, apply, reports, checks, slots>>
  BY DEF PollTick, PollRead, PollMempool, PollStatus, PollWrite, chain
<1>2. CASE UNCHANGED row
  BY <1>1, <1>2, HashesKeptPreserves
<1>3. ASSUME NEW a \in Actions, row' = Write(a, row.hash[a], TRUE), CanWrite
      PROVE  IndInv'
  <2>1. row'.hash = [row.hash EXCEPT ![a] = row.hash[a]]
    BY <1>3 DEF Write
  <2>2. row'.hash = row.hash
    BY <2>1 DEF IndInv, TypeOK
  <2> QED
    BY <1>1, <1>3, <2>2, HashesKeptPreserves
<1>4. \/ UNCHANGED row
      \/ \E a \in Actions : row' = Write(a, row.hash[a], TRUE) /\ CanWrite
  BY DEF PollTick, PollRead, PollMempool, PollStatus, PollWrite
<1> QED
  BY <1>2, <1>3, <1>4

(* The indexer reads the row when it opens an event's transaction, and      *)
(* clears the approval it commits.                                          *)
LEMMA IndexPreserves ==
    ASSUME IndInv, TypeOK', Index
    PROVE  IndInv'
<1>0. UNCHANGED <<txs, reports, checks, slots>>
  BY DEF Index, CommitEvent, OpenEvent, server
<1>1. SlotsMatchChecks'
  BY <1>0, SlotsFrame DEF IndInv
<1>2. ReportsNamed'
  BY <1>0 DEF IndInv, ReportsNamed
<1>3. ASSUME NEW t \in Tx, OpenEvent(t) PROVE IndInv'
  <2>1. /\ UNCHANGED <<row, eventRaw>>
        /\ apply'.hash = row.hash["approve"] /\ apply'.error = row.error["approve"]
    BY <1>3 DEF OpenEvent, server
  <2>2. VerifiedReal'
    BY <1>0, <2>1 DEF IndInv, VerifiedReal, Real
  <2>3. SingleWriter => (ApplyFresh /\ OrphansOwned)'
    BY <1>0, <2>1 DEF IndInv, ApplyFresh, OrphansOwned
  <2> QED
    BY <1>1, <1>2, <2>2, <2>3 DEF IndInv
<1>4. CASE CommitEvent
  <2> DEFINE t == apply.tx
  <2>0. /\ t \in Tx /\ "approve" \in Actions /\ "execute" \in Actions
        /\ eventRaw' = eventRaw \cup {t}
        /\ row' = RowAfter(t, apply.hash, apply.error)
        /\ apply'.tx = None
    BY <1>4 DEF CommitEvent, IndInv, TypeOK, Actions
  <2>1. \A a \in Actions : row'.hash[a] = row.hash[a] \/ row'.hash[a] = None
    <3>1. CASE row' = Write("approve", None, FALSE)
      BY <2>0, <3>1, WriteHashes DEF IndInv
    <3>2. CASE row' = Write("execute", None, FALSE)
      BY <2>0, <3>2, WriteHashes DEF IndInv
    <3>3. CASE row' = [row EXCEPT !.old = FALSE]
      BY <3>3 DEF IndInv, TypeOK
    <3> QED
      BY <2>0, <3>1, <3>2, <3>3 DEF RowAfter
  <2>2. VerifiedReal'
    BY <1>0, <2>1 DEF IndInv, VerifiedReal, Real
  <2>3. ASSUME SingleWriter PROVE row'.hash["approve"] # t
    <3>1. apply.hash = row.hash["approve"]
      BY <1>4, <2>3 DEF CommitEvent, IndInv, ApplyFresh
    <3>2. t # None
      BY <1>4 DEF CommitEvent
    <3>3. CASE ClearsApproval(t, apply.hash, apply.error)
      <4>1. row' = Write("approve", None, FALSE)
        BY <2>0, <3>3 DEF RowAfter
      <4> QED
        BY <2>0, <3>2, <4>1, WriteHashes DEF IndInv
    <3>4. CASE ~ClearsApproval(t, apply.hash, apply.error)
      <4>1. row.hash["approve"] # t
        <5>1. row.hash["approve"] # None => txs[row.hash["approve"]].kind = "approve"
          BY <2>0 DEF IndInv, VerifiedReal, Real
        <5> QED
          BY <3>1, <3>2, <3>4, <5>1 DEF ClearsApproval
      <4> QED
        BY <2>0, <2>1, <3>2, <4>1
    <3> QED
      BY <3>3, <3>4
  <2>4. SingleWriter => ApplyFresh' /\ OrphansOwned'
    <3>1. ApplyFresh'
      BY <2>0 DEF ApplyFresh
    <3>2. None \notin eventRaw /\ t # None
      BY <1>4, VaultTxConstants DEF CommitEvent, IndInv, TypeOK
    <3>3. ASSUME SingleWriter, row'.hash["approve"] \in eventRaw'
          PROVE  row.hash["approve"] \in eventRaw /\ row'.hash["approve"] = row.hash["approve"]
      BY <2>0, <2>1, <2>3, <3>2, <3>3
    <3>4. SingleWriter => OrphansOwned'
      BY <1>0, <3>3 DEF IndInv, OrphansOwned
    <3> QED
      BY <3>1, <3>4
  <2> QED
    BY <1>1, <1>2, <2>2, <2>4 DEF IndInv
<1> QED
  BY <1>3, <1>4 DEF Index

(* Every step preserves the invariant.                                      *)
LEMMA NextIndInv == IndInv /\ [Next]_vars => IndInv'
<1> SUFFICES ASSUME IndInv, [Next]_vars PROVE IndInv'
  OBVIOUS
<1>0. TypeOK'
  BY NextTypeOK DEF IndInv
<1>1. CASE UNCHANGED vars
  BY <1>0, <1>1, HashesKeptPreserves DEF vars
<1>2. CASE GracePasses
  <2>1. row'.hash = row.hash /\ row'.error = row.error
    BY <1>2 DEF GracePasses, IndInv, TypeOK
  <2> QED
    BY <1>0, <1>2, <2>1, HashesKeptPreserves DEF GracePasses, chain
<1>3. ASSUME NEW r \in Reports, ReportStep(r) PROVE IndInv'
  BY <1>0, <1>3, StartPreserves, WritePreserves, VerifyPreserves DEF ReportStep
<1> QED
  BY <1>0, <1>1, <1>2, <1>3, NetworkPreserves, ReportPreserves, CheckPreserves,
     IndexPreserves, PollPreserves DEF Next

(* Nothing is reported, checked or recorded at first.                       *)
LEMMA InitIndInv == Init => IndInv
<1> SUFFICES ASSUME Init PROVE IndInv
  OBVIOUS
<1>1. TypeOK
  BY InitTypeOK
<1>2. SlotsMatchChecks
  <2>1. Running = {}
    BY DEF Init, Running
  <2>2. Cardinality(Running) = 0
    BY <2>1, FS_EmptySet
  <2>3. slots.total = 0 /\ slots.forProposal = 0 /\ Total \in Nat /\ PerProposal \in Nat
    BY SubmissionsConstants DEF Init
  <2>4. {q \in Reports : reports[q].pc = "wait"} = {}
    BY DEF Init, Idle
  <2> QED
    BY <2>1, <2>2, <2>3, <2>4 DEF SlotsMatchChecks
<1>3. ReportsNamed
  BY DEF Init, Idle, ReportsNamed
<1>4. VerifiedReal
  BY DEF Init, Idle, VerifiedReal
<1>5. None \notin eventRaw
  BY VaultTxConstants DEF Init, InitCreated
<1>6. ApplyFresh /\ OrphansOwned
  BY <1>5 DEF Init, ApplyFresh, OrphansOwned, Actions
<1> QED
  BY <1>1, <1>2, <1>3, <1>4, <1>6 DEF IndInv

-----------------------------------------------------------------------------
(* Theorems                                                                 *)

(* The invariant holds whatever the backend, the node, the tabs and the     *)
(* indexer interleave, on either database.                                  *)
THEOREM Tracking == Spec => []IndInv
<1>1. Init => IndInv
  BY InitIndInv
<1>2. IndInv /\ [Next]_vars => IndInv'
  BY NextIndInv
<1> QED
  BY <1>1, <1>2, PTL DEF Spec

(* However checks start, are joined, retried, fail and settle, each holds   *)
(* exactly one slot, no limit is passed and no report waits in vain.        *)
THEOREM NoSlotLeaks == Spec => []SlotsMatchChecks
<1>1. IndInv => SlotsMatchChecks
  BY DEF IndInv
<1> QED
  BY <1>1, Tracking, PTL

(* Nobody can make the backend record a hash that is not a real action on   *)
(* the proposal, whatever is reported and whatever the node fails to answer.*)
THEOREM OnlyRealHashes == Spec => []OnlyRealRecorded
<1>1. IndInv => OnlyRealRecorded
  BY DEF IndInv, VerifiedReal, Real, OnlyRealRecorded
<1> QED
  BY <1>1, Tracking, PTL

(* Under a single writer (SQLite) no applied approval stays on the row with *)
(* nobody left to clear it.  The row may be overtaken on Postgres, where    *)
(* the claim is not made.                                                   *)
THEOREM NoOrphanOnSQLite == Spec => [](SingleWriter => NoOrphanHash)
<1>1. IndInv => (SingleWriter => NoOrphanHash)
  BY DEF IndInv, OrphansOwned, NoOrphanHash
<1> QED
  BY <1>1, Tracking, PTL

=============================================================================
