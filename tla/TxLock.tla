------------------------------- MODULE TxLock --------------------------------
(***************************************************************************)
(* The web UI's transaction lock: the tabs of some owners, each with its    *)
(* pending records in localStorage (storage.ts), the proposal row it last   *)
(* fetched (useTransactions.ts), the lock it derives from both              *)
(* (useContractTxLock) and the buttons of the proposal page that the lock   *)
(* gates.  The other owners send what the contract accepts, whatever their  *)
(* screens show, and report it or not.  The backend's tracking of reports   *)
(* is reduced to what it stores; Submissions has its details.               *)
(***************************************************************************)
EXTENDS VaultTx

CONSTANTS
    Tabs,           \* the owners whose tab is watched
    ReportGrace,    \* REPORT_ANSWER_GRACE_MS
    ShortTTL,       \* UNTRACKED_PENDING_TX_TTL_MS
    LongTTL,        \* PENDING_TX_TTL_MS
    ProbeAge,       \* CREATE_TX_STATUS_PROBE_MIN_AGE_MS
    MaxAge          \* the longest time any tab is watched for

ASSUME TxLockConstants ==
    /\ Tabs \subseteq Signers
    /\ {ReportGrace, ShortTTL, LongTTL, ProbeAge, MaxAge} \subseteq Nat
    /\ ReportGrace < ShortTTL /\ ShortTTL < LongTTL

VARIABLES
    row,        \* lastApproveTxHash, lastExecuteTxHash and their errors
    report,     \* the report of each transaction: asked, answered, or over
    pend,       \* the pending record of each transaction, in its sender's tab
    fetched,    \* the proposal list on its way to each tab
    seen        \* the row each tab shows, and its previous approval count

vars == <<txs, eventRaw, row, report, pend, fetched, seen>>
tabs == <<pend, fetched, seen>>

NoRecord == [age |-> -1, flag |-> "none", child |-> FALSE]
Record(child) == [age |-> 0, flag |-> "none", child |-> child]
NoRow == [exists |-> FALSE, executed |-> FALSE, count |-> 0,
          hash |-> [a \in Actions |-> None], error |-> [a \in Actions |-> FALSE]]
Unseen == [row |-> NoRow, prev |-> -1]

Init ==
    /\ InitCreated \/ (txs = [t \in Tx |-> Unused] /\ eventRaw = {})
    /\ row = [hash |-> NoRow.hash, error |-> NoRow.error]
    /\ report = [t \in Tx |-> "none"]
    /\ pend = [t \in Tx |-> NoRecord]
    /\ fetched = [s \in Tabs |-> None]
    /\ seen = [s \in Tabs |-> Unseen]

-----------------------------------------------------------------------------
(* The lock of a tab, and the page's mask: an approval of the viewed        *)
(* proposal that is already counted does not lock its page.                 *)

Held(t) == pend[t].age >= 0
Mine(s) == {t \in Tx : Held(t) /\ txs[t].by = s}

OwnLock(s) == \E t \in Mine(s) : ~seen[s].row.executed

InFlight(r, a) == r.exists /\ ~r.executed /\ r.hash[a] # None /\ ~r.error[a]

OtherLock(s) == \E a \in Actions : InFlight(seen[s].row, a)

Locked(s) == OwnLock(s) \/ OtherLock(s)

Masked(s) == seen[s].row.count >= Threshold

PageLocked(s) == OwnLock(s) \/ InFlight(seen[s].row, "execute")
                            \/ (InFlight(seen[s].row, "approve") /\ ~Masked(s))

(* What the buttons ask of this state.                                      *)
CanCreate(s) == ~Locked(s)

CanApprove(s) == /\ seen[s].row.exists /\ ~seen[s].row.executed
                 /\ s \notin Approvers(eventRaw)
                 /\ ~\E t \in Mine(s) : txs[t].kind = "approve"
                 /\ ~PageLocked(s)

CanExecute(s) == /\ seen[s].row.exists /\ ~seen[s].row.executed
                 /\ seen[s].row.count >= Threshold
                 /\ ~InFlight(seen[s].row, "execute")
                 /\ ~PageLocked(s)

-----------------------------------------------------------------------------
(* A button is pressed: the worker sends, the page saves the pending record *)
(* in place of one with the same key and, for an approval or execution,     *)
(* reports it without waiting.  The record of a creation says whether it is *)
(* the proposal of a SubVault.                                              *)

(* A hash nobody has used: which one a transaction gets makes no difference. *)
Fresh == LET unused == {t \in Tx \ {First} : txs[t].st = "unused"} IN
         IF unused = {} THEN {} ELSE {CHOOSE t \in unused : TRUE}

SameKey(u, s, kind) == Held(u) /\ txs[u].by = s /\ txs[u].kind = kind

SavePendingTx(s, t, kind, child) ==
    pend' = [u \in Tx |-> IF u = t THEN Record(child)
                          ELSE IF SameKey(u, s, kind) THEN NoRecord ELSE pend[u]]

Submit(s, t, kind, child) ==
    /\ Send(s, t, kind)
    /\ SavePendingTx(s, t, kind, child)
    /\ report' = [report EXCEPT ![t] = IF kind = "create" THEN "none" ELSE "asked"]
    /\ UNCHANGED <<eventRaw, row, fetched, seen>>

Create(s, child) == CanCreate(s) /\ Submit(s, First, "create", child)
Approve(s, t) == CanApprove(s) /\ Submit(s, t, "approve", FALSE)
Execute(s, t) == CanExecute(s) /\ Submit(s, t, "execute", FALSE)

(* An owner without a watched tab.                                          *)
SendOutside(s, t, kind) ==
    /\ Send(s, t, kind)
    /\ \E asked \in {"none", "asked"} : report' = [report EXCEPT ![t] = asked]
    /\ UNCHANGED <<eventRaw, row, tabs>>

(* The backend answers a report: it stores a verified hash or refuses.  The *)
(* answer is on its way to the tab that holds the record, if there is one.  *)
Reply(t, answer) == [report EXCEPT ![t] = IF Held(t) THEN answer ELSE "none"]

Verified(t) == t \in Pool /\ txs[t].base = root /\ Proposed(eventRaw)

Stored(t) == LET action == txs[t].kind IN
    [hash |-> [row.hash EXCEPT ![action] = t], error |-> [row.error EXCEPT ![action] = FALSE]]

Track(t) ==
    /\ report[t] = "asked" /\ Verified(t)
    /\ row' = Stored(t)
    /\ report' = Reply(t, "yes")
    /\ UNCHANGED <<txs, eventRaw, tabs>>

Refuse(t) ==
    /\ report[t] = "asked"
    /\ report' = Reply(t, "no")
    /\ UNCHANGED <<txs, eventRaw, row, tabs>>

(* reportSubmission: the answer sets a flag on the record, if it is there.  *)
Flag(t, flag) == IF Held(t) /\ pend[t].flag # "untracked"
                 THEN [pend EXCEPT ![t].flag = flag] ELSE pend

Answer(t) ==
    /\ report[t] \in {"yes", "no"}
    /\ pend' = Flag(t, IF report[t] = "yes" THEN "recorded" ELSE "untracked")
    /\ report' = [report EXCEPT ![t] = "none"]
    /\ UNCHANGED <<txs, eventRaw, row, fetched, seen>>

-----------------------------------------------------------------------------
(* useTransactions: the proposal list is fetched; when it arrives, the row  *)
(* is shown, expired records are pruned and the others reconciled.          *)

Serve == [exists |-> Proposed(eventRaw), executed |-> Executed(eventRaw),
          count |-> Cardinality(Approvers(eventRaw)),
          hash |-> row.hash, error |-> row.error]

Refresh(s) ==
    /\ fetched[s] = None
    /\ fetched' = [fetched EXCEPT ![s] = Serve]
    /\ UNCHANGED <<txs, eventRaw, row, report, pend, seen>>

ShortLived(t) == pend[t].flag = "untracked" \/ pend[t].child

Expired(t) == pend[t].age >= (IF ShortLived(t) THEN ShortTTL ELSE LongTTL)

ReportUnanswered(t) == pend[t].flag = "none" /\ pend[t].age > ReportGrace

NeverReplaced(t, r) == FALSE
BackendNoLongerTracks(t, r) == pend[t].flag = "recorded" /\ r.hash[txs[t].kind] # t

Tracking(t, r) ==
    IF BackendNoLongerTracks(t, r) \/ ReportUnanswered(t)
    THEN [pend[t] EXCEPT !.flag = "untracked"] ELSE pend[t]

CreateUnprobed(t, r) == IF r.exists THEN NoRecord ELSE pend[t]
ReconcileCreate(t, r) ==
    IF r.exists \/ (pend[t].age >= ProbeAge /\ TxStatus(t) = "failed")
    THEN NoRecord ELSE pend[t]

ReconcileExecute(t, r) ==
    IF ~r.exists THEN pend[t]
    ELSE IF r.executed \/ (r.error["execute"] /\ r.hash["execute"] = t)
    THEN NoRecord ELSE Tracking(t, r)

(* The approvals are fetched only when the count rose since the last time.  *)
ReconcileApprove(t, r, prev) ==
    IF ~r.exists THEN pend[t]
    ELSE IF \/ r.executed
            \/ r.error["approve"] /\ r.hash["approve"] = t
            \/ prev >= 0 /\ r.count > prev /\ txs[t].by \in Approvers(eventRaw)
    THEN NoRecord ELSE Tracking(t, r)

Reconcile(s, r, prev) ==
    [t \in Tx |->
       IF t \notin Mine(s) THEN pend[t]
       ELSE IF Expired(t) THEN NoRecord
       ELSE CASE txs[t].kind = "create"  -> ReconcileCreate(t, r)
              [] txs[t].kind = "execute" -> ReconcileExecute(t, r)
              [] txs[t].kind = "approve" -> ReconcileApprove(t, r, prev)]

Arrive(s) ==
    /\ fetched[s] # None
    /\ pend' = Reconcile(s, fetched[s], seen[s].prev)
    /\ seen' = [seen EXCEPT ![s] =
         [row |-> fetched[s], prev |-> IF fetched[s].exists THEN fetched[s].count ELSE -1]]
    /\ fetched' = [fetched EXCEPT ![s] = None]
    /\ UNCHANGED <<txs, eventRaw, row, report>>

(* A reload forgets what the tab showed and every answer under way; the     *)
(* records stay.                                                            *)
Reload(s) ==
    /\ seen' = [seen EXCEPT ![s] = Unseen]
    /\ fetched' = [fetched EXCEPT ![s] = None]
    /\ report' = [t \in Tx |-> IF txs[t].by = s /\ report[t] \in {"yes", "no"}
                               THEN "none" ELSE report[t]]
    /\ UNCHANGED <<txs, eventRaw, row, pend>>

-----------------------------------------------------------------------------
(* The backend and the network.                                             *)

ClearedBy(t) == /\ txs[t].kind \in Actions
                /\ \/ row.hash[txs[t].kind] = t
                   \/ txs[t].kind = "approve" /\ row.error["approve"]

Index(t) ==
    /\ t \in NextEvent
    /\ eventRaw' = eventRaw \cup {t}
    /\ row' = IF ClearedBy(t)
              THEN [hash |-> [row.hash EXCEPT ![txs[t].kind] = None],
                    error |-> [row.error EXCEPT ![txs[t].kind] = FALSE]]
              ELSE row
    /\ UNCHANGED <<txs, report, tabs>>

(* pollPendingSubmissions finds a recorded transaction failed or, after the *)
(* grace period, neither in the scanned blocks nor in the pool.             *)
FoundFailed(a) ==
    /\ row.hash[a] # None /\ ~row.error[a]
    /\ a = "execute" => ~Executed(eventRaw)
    /\ row.hash[a] \notin Pool /\ TxStatus(row.hash[a]) # "included"

PollFails(a) ==
    /\ FoundFailed(a)
    /\ row' = [row EXCEPT !.error[a] = TRUE]
    /\ UNCHANGED <<txs, eventRaw, report, tabs>>

(* Once the event of an approval or execution is indexed, or it failed, it  *)
(* makes no difference whether its block is still scanned.                  *)
StatusMatters(t) == t \in Pool \/ txs[t].kind = "create" \/ t \in Applied \ eventRaw

NetworkStep(t) == StatusMatters(t) /\ Network(t) /\ UNCHANGED <<row, report, tabs>>
Elsewhere(t) == ApplyOther(t) /\ UNCHANGED <<eventRaw, row, report, tabs>>

Older(rec) == IF rec.age \in 0 .. MaxAge - 1 THEN [rec EXCEPT !.age = @ + 1] ELSE rec

Tick ==
    /\ pend' = [t \in Tx |-> Older(pend[t])]
    /\ UNCHANGED <<txs, eventRaw, row, report, fetched, seen>>

-----------------------------------------------------------------------------
Next ==
    \/ \E s \in Tabs, child \in BOOLEAN : Create(s, child)
    \/ \E s \in Tabs, t \in Fresh : Approve(s, t) \/ Execute(s, t)
    \/ \E s \in Signers \ Tabs, t \in Fresh, kind \in Actions : SendOutside(s, t, kind)
    \/ \E t \in Tx : Track(t) \/ Refuse(t) \/ Answer(t) \/ Index(t) \/ NetworkStep(t)
    \/ \E a \in Actions : PollFails(a)
    \/ \E t \in Fresh : Elsewhere(t)
    \/ \E s \in Tabs : Refresh(s) \/ Arrive(s) \/ Reload(s)
    \/ Tick

(* A tab polls while it is open, and an owner reloads it now and then only; *)
(* time passes, the indexer and its poll work, and the network decides what *)
(* is in its pool.  Nothing says that a report is ever answered, or when a  *)
(* block leaves the scanned ones.  Fairness is written out with what        *)
(* enables each action; it is strong for Arrive, which a reload undoes.     *)
Young == \E t \in Tx : pend[t].age \in 0 .. MaxAge - 1
Decide(t) == t \in Pool /\ NetworkStep(t)

Fairness ==
    /\ \A s \in Tabs : /\ []<>(fetched[s] # None) \/ []<><<Refresh(s)>>_vars
                       /\ <>[](fetched[s] = None) \/ []<><<Arrive(s)>>_vars
    /\ []<>~Young \/ []<><<Tick>>_vars
    /\ \A t \in Tx : /\ []<>(t \notin Pool) \/ []<><<Decide(t)>>_vars
                     /\ []<>(t \notin NextEvent) \/ []<><<Index(t)>>_vars
    /\ \A a \in Actions : []<>~FoundFailed(a) \/ []<><<PollFails(a)>>_vars

Spec == Init /\ [][Next]_vars
FairSpec == Spec /\ Fairness

-----------------------------------------------------------------------------
(* The state has its shape.                                                 *)
TypeOK ==
    /\ txs \in [Tx -> TxRecord] /\ eventRaw \subseteq Tx
    /\ row \in [hash : [Actions -> Tx \cup {None}], error : [Actions -> BOOLEAN]]
    /\ report \in [Tx -> {"none", "asked", "yes", "no"}]
    /\ pend \in [Tx -> [age : -1 .. MaxAge, flag : {"none", "recorded", "untracked"},
                        child : BOOLEAN]]

(* A creation no poll can settle: the pool dropped it, or it failed and its *)
(* block left the scanned ones before the tab asked.                        *)
Lost(t) == /\ txs[t].kind = "create" /\ ~pend[t].child
           /\ txs[t].st = "dropped" \/ (txs[t].st = "failed" /\ ~Scanned(t))

(* No owner is shut out of the vault for good: every watched tab is         *)
(* unlocked again and again, well before the day after which records expire *)
(* anyway, even when transactions fail or vanish from the pool, when        *)
(* reports are lost, refused, or replaced by another transaction's, and     *)
(* when the tab reloads at the wrong moment.  The exception is the record   *)
(* of a lost creation, which does lock its tab for the day.                 *)
LockLifts == \A s \in Tabs :
    []<>(~OtherLock(s) /\ \A t \in Mine(s) : Lost(t) \/ seen[s].row.executed)

(* The record of every creation is removed before it expires, unless the    *)
(* creation is lost; that of a SubVault's creation is removed in any case.  *)
CreateSettles == (Held(First) /\ txs[First].kind = "create") ~> (~Held(First) \/ Lost(First))
=============================================================================
