----------------------------- MODULE Submissions -----------------------------
(***************************************************************************)
(* The backend's tracking of in-flight approvals and executions: the report *)
(* a tab sends (routes.ts), its check against the Mina node and the limiter *)
(* of those checks (submission-check.ts), the poll that looks for failures  *)
(* and the indexer that applies a transaction's event (indexer.ts), all of  *)
(* them writing the same columns of the Proposal row.                       *)
(***************************************************************************)
EXTENDS VaultTx

CONSTANTS
    Reports,        \* report requests the server handles at once
    Tries,          \* LOOKUP_DELAYS_MS.length
    PerProposal,    \* MAX_SUBMISSION_CHECKS_PER_PROPOSAL
    Total,          \* MAX_CONCURRENT_SUBMISSION_CHECKS
    SingleWriter,   \* SQLite: an open transaction blocks every other writer
    MaxFaults       \* node lookups that fail

ASSUME SubmissionsConstants ==
    /\ IsFiniteSet(Reports)
    /\ {Tries, PerProposal, Total} \subseteq Nat \ {0}
    /\ SingleWriter \in BOOLEAN /\ MaxFaults \in Nat

VARIABLES
    apply,      \* the indexer's open transaction: the event and the row it read
    row,        \* the tracking columns; old: updatedAt is past the grace period
    reports,    \* requests in POST .../submissions
    checks,     \* the limiter's running checks, by action and hash
    slots,      \* the limiter's counters
    poll,       \* pollPendingSubmissions
    faults      \* node lookups that failed so far

vars == <<txs, eventRaw, apply, row, reports, checks, slots, poll, faults>>
chain == <<txs, eventRaw, apply>>
server == <<row, reports, checks, slots, poll, faults>>

Idle == [pc |-> "idle", tx |-> None, act |-> "approve"]

Init ==
    /\ InitCreated
    /\ apply = [tx |-> None, hash |-> None, error |-> FALSE]
    /\ row = [hash |-> [a \in Actions |-> None],
              error |-> [a \in Actions |-> FALSE], old |-> FALSE]
    /\ reports = [r \in Reports |-> Idle]
    /\ checks = [k \in Actions \X Tx |-> [pc |-> "none", tries |-> 0]]
    /\ slots = [total |-> 0, forProposal |-> 0]
    /\ faults = 0
    /\ poll = [pc |-> "idle", hash |-> [a \in Actions |-> None], old |-> FALSE,
               pool |-> None, verdict |-> "none"]

-----------------------------------------------------------------------------
(* The network, as the backend sees it.                                     *)

Broadcast(s, t, kind) == Send(s, t, kind) /\ UNCHANGED <<eventRaw, apply, server>>
Forge(t, kind) == SendForged(t, kind) /\ UNCHANGED <<eventRaw, apply, server>>
Elsewhere(t) == ApplyOther(t) /\ UNCHANGED <<eventRaw, apply, server>>
NetworkStep(t) == Network(t) /\ UNCHANGED <<apply, server>>

-----------------------------------------------------------------------------
(* POST .../submissions and the check limiter.                              *)

key(r) == <<reports[r].act, reports[r].tx>>
Running == {k \in Actions \X Tx : checks[k].pc # "none"}

(* Anyone may report any hash under either action.                          *)
Report(r, t, a) ==
    /\ reports[r].pc = "idle"
    /\ txs[t].st # "unused"
    /\ reports' = [reports EXCEPT ![r] =
         [pc |-> "start", tx |-> t, act |-> a]]
    /\ UNCHANGED <<chain, row, checks, slots, poll, faults>>

(* The response leaves and the request is over.                             *)
Respond(r) == reports' = [reports EXCEPT ![r] = Idle]

(* The route up to the check: a missing proposal is refused, the hash       *)
(* already recorded without an error is answered at once.                   *)
Refused404(r) == ~Proposed(eventRaw)
AlreadyRecorded(r) == /\ row.hash[reports[r].act] = reports[r].tx
                      /\ ~row.error[reports[r].act]

(* SubmissionCheckLimiter.run: an equal report waits for the running check, *)
(* a limit refuses, otherwise a slot is taken and the check starts.         *)
SlotFree == slots.total < Total /\ slots.forProposal < PerProposal

StartReport(r) ==
    /\ reports[r].pc = "start"
    /\ \/ /\ Refused404(r) \/ AlreadyRecorded(r)
          /\ Respond(r)
          /\ UNCHANGED <<checks, slots>>
       \/ /\ ~Refused404(r) /\ ~AlreadyRecorded(r)
          /\ key(r) \in Running
          /\ reports' = [reports EXCEPT ![r].pc = "wait"]
          /\ UNCHANGED <<checks, slots>>
       \/ /\ ~Refused404(r) /\ ~AlreadyRecorded(r)
          /\ key(r) \notin Running /\ ~SlotFree
          /\ Respond(r)
          /\ UNCHANGED <<checks, slots>>
       \/ /\ ~Refused404(r) /\ ~AlreadyRecorded(r)
          /\ key(r) \notin Running /\ SlotFree
          /\ slots' = [total |-> slots.total + 1, forProposal |-> slots.forProposal + 1]
          /\ checks' = [checks EXCEPT ![key(r)] = [pc |-> "pool", tries |-> 1]]
          /\ reports' = [reports EXCEPT ![r].pc = "wait"]
    /\ UNCHANGED <<chain, row, poll, faults>>

(* The check settles: the slot is released and every report that waits for  *)
(* it goes on with the answer.                                              *)
Answer(k, verified) ==
    reports' = [r \in Reports |->
         IF reports[r].pc = "wait" /\ key(r) = k
         THEN (IF verified THEN [reports[r] EXCEPT !.pc = "write"] ELSE Idle)
         ELSE reports[r]]

ReleaseTotal == [slots EXCEPT !.total = @ - 1]
Release == [total |-> slots.total - 1, forProposal |-> slots.forProposal - 1]

Settle(k, verified) ==
    /\ checks' = [checks EXCEPT ![k] = [pc |-> "none", tries |-> 0]]
    /\ slots' = Release
    /\ Answer(k, verified)

LookupFails == faults < MaxFaults /\ faults' = faults + 1

NextTry(k) ==
    IF checks[k].tries = Tries
    THEN Settle(k, FALSE)
    ELSE /\ checks' = [checks EXCEPT ![k] = [pc |-> "pool", tries |-> @.tries + 1]]
         /\ UNCHANGED <<slots, reports>>

(* verifySubmittedTransaction asks the node's pool for the command; a       *)
(* command that emits no event of this action ends the check.               *)
LookupPool(k) ==
    /\ checks[k].pc = "pool"
    /\ \/ LookupFails /\ NextTry(k)
       \/ k[2] \notin Pool /\ NextTry(k) /\ UNCHANGED faults
       \/ k[2] \in Pool /\ txs[k[2]].kind # k[1] /\ Settle(k, FALSE) /\ UNCHANGED faults
       \/ /\ k[2] \in Pool /\ txs[k[2]].kind = k[1]
          /\ checks' = [checks EXCEPT ![k].pc = "state"]
          /\ UNCHANGED <<slots, reports, faults>>
    /\ UNCHANGED <<chain, row, poll>>

(* ... then the current state of its accounts.                              *)
AnyState(t) == TRUE
matchesCurrentState(t) == txs[t].base = root

LookupState(k) ==
    /\ checks[k].pc = "state"
    /\ \/ LookupFails /\ NextTry(k)
       \/ Settle(k, matchesCurrentState(k[2])) /\ UNCHANGED faults
    /\ UNCHANGED <<chain, row, poll>>

(* Postgres at READ COMMITTED lets the writes below overtake an indexer     *)
(* transaction that has read the row and not yet committed.                 *)
CanWrite == SingleWriter => apply.tx = None

Write(a, h, err) == [hash |-> [row.hash EXCEPT ![a] = h],
                     error |-> [row.error EXCEPT ![a] = err], old |-> FALSE]

(* The verified hash is stored and the action's error cleared.              *)
WriteHash(r) ==
    /\ reports[r].pc = "write" /\ CanWrite
    /\ row' = Write(reports[r].act, reports[r].tx, FALSE)
    /\ IF reports[r].act = "approve"
       THEN reports' = [reports EXCEPT ![r].pc = "verify"]
       ELSE Respond(r)
    /\ UNCHANGED <<chain, checks, slots, poll, faults>>

(* An approval whose event is already stored is looked up ...               *)
AnsweredAtOnce(r) ==
    /\ reports[r].pc = "verify" /\ Respond(r)
    /\ UNCHANGED <<chain, row, checks, slots, poll, faults>>
VerifyApplied(r) ==
    /\ reports[r].pc = "verify"
    /\ IF reports[r].tx \in eventRaw
       THEN reports' = [reports EXCEPT ![r].pc = "clear"]
       ELSE Respond(r)
    /\ UNCHANGED <<chain, row, checks, slots, poll, faults>>

(* ... and cleared, unless another hash has replaced it.                    *)
ClearApplied(r) ==
    /\ reports[r].pc = "clear" /\ CanWrite
    /\ row' = IF row.hash["approve"] = reports[r].tx
              THEN Write("approve", None, FALSE) ELSE row
    /\ Respond(r)
    /\ UNCHANGED <<chain, checks, slots, poll, faults>>

-----------------------------------------------------------------------------
(* The indexer applies events in block order, each in one transaction that  *)
(* stores the event, reads the Proposal row and writes it back.             *)

OpenEvent(t) ==
    /\ apply.tx = None /\ t \in NextEvent
    /\ apply' = [tx |-> t, hash |-> row.hash["approve"], error |-> row.error["approve"]]
    /\ UNCHANGED <<txs, eventRaw, server>>

(* applyApprovalEvent / applyExecutionEvent on what the transaction read.   *)
ClearsApproval(t, hash, error) == txs[t].kind = "approve" /\ (hash = t \/ error)

RowAfter(t, hash, error) ==
    IF ClearsApproval(t, hash, error) THEN Write("approve", None, FALSE)
    ELSE IF txs[t].kind = "execute" /\ row.hash["execute"] = t
         THEN Write("execute", None, FALSE)
    ELSE IF txs[t].kind = "execute" THEN [row EXCEPT !.old = FALSE]
    ELSE row

CommitEvent ==
    /\ apply.tx # None
    /\ eventRaw' = eventRaw \cup {apply.tx}
    /\ row' = RowAfter(apply.tx, apply.hash, apply.error)
    /\ apply' = [tx |-> None, hash |-> None, error |-> FALSE]
    /\ UNCHANGED <<txs, reports, checks, slots, poll, faults>>

Index == CommitEvent \/ \E t \in Tx : OpenEvent(t)

-----------------------------------------------------------------------------
(* pollPendingSubmissions: one snapshot, at most one read of the mempool,   *)
(* then a status lookup and a write for the execution and for the approval. *)

InFlight(a) == row.hash[a] # None /\ ~row.error[a]
Tracked(a) == InFlight(a) /\ (a = "execute" => ~Executed(eventRaw))

PollRead ==
    /\ poll.pc = "idle"
    /\ \E a \in Actions : Tracked(a)
    /\ poll' = [pc |-> IF row.old THEN "pool" ELSE "execute",
                hash |-> [a \in Actions |-> IF Tracked(a) THEN row.hash[a] ELSE None],
                old |-> row.old, pool |-> None, verdict |-> "none"]
    /\ UNCHANGED <<chain, row, reports, checks, slots, faults>>

(* fetchMempoolHashes: null when the lookup fails.                          *)
PollMempool(answered) ==
    /\ poll.pc = "pool"
    /\ IF answered THEN UNCHANGED faults ELSE LookupFails
    /\ poll' = [poll EXCEPT !.pc = "execute", !.pool = IF answered THEN Pool ELSE None]
    /\ UNCHANGED <<chain, row, reports, checks, slots>>

FailedOnly(h, status) == IF status = "failed" THEN "fail" ELSE "keep"
Verdict(h, status) ==
    IF \/ status = "failed"
       \/ status = "pending" /\ poll.old /\ poll.pool # None /\ h \notin poll.pool
    THEN "fail" ELSE "keep"

AfterPoll(a) == IF a = "execute" THEN "approve" ELSE "idle"

PollStatus(a, answered) ==
    /\ poll.pc = a /\ poll.verdict = "none"
    /\ IF answered THEN UNCHANGED faults ELSE LookupFails
    /\ poll' = IF poll.hash[a] = None
               THEN [poll EXCEPT !.pc = AfterPoll(a)]
               ELSE [poll EXCEPT !.verdict =
                       Verdict(poll.hash[a], IF answered THEN TxStatus(poll.hash[a]) ELSE "unknown")]
    /\ UNCHANGED <<chain, row, reports, checks, slots>>

(* The failure is written by the proposal's id.                             *)
PollWrite(a) ==
    /\ poll.pc = a /\ poll.verdict # "none"
    /\ poll.verdict = "fail" => CanWrite
    /\ row' = IF poll.verdict = "fail" THEN Write(a, row.hash[a], TRUE) ELSE row
    /\ poll' = [poll EXCEPT !.pc = AfterPoll(a), !.verdict = "none"]
    /\ UNCHANGED <<chain, reports, checks, slots, faults>>

PollTick ==
    \/ PollRead
    \/ \E answered \in BOOLEAN : PollMempool(answered)
    \/ \E a \in Actions, answered \in BOOLEAN : PollStatus(a, answered)
    \/ \E a \in Actions : PollWrite(a)

(* The grace period of the last write passes.                               *)
GracePasses ==
    /\ ~row.old
    /\ row' = [row EXCEPT !.old = TRUE]
    /\ UNCHANGED <<chain, reports, checks, slots, poll, faults>>

-----------------------------------------------------------------------------
ReportStep(r) == StartReport(r) \/ WriteHash(r) \/ VerifyApplied(r) \/ ClearApplied(r)
CheckStep(k) == LookupPool(k) \/ LookupState(k)

Next ==
    \/ \E s \in Signers, t \in Tx, kind \in Actions : Broadcast(s, t, kind)
    \/ \E t \in Tx, kind \in Actions : Forge(t, kind)
    \/ \E t \in Tx : NetworkStep(t) \/ Elsewhere(t)
    \/ \E r \in Reports, t \in Tx, a \in Actions : Report(r, t, a)
    \/ \E r \in Reports : ReportStep(r)
    \/ \E k \in Actions \X Tx : CheckStep(k)
    \/ Index
    \/ PollTick
    \/ GracePasses

(* The server keeps working, time passes, a transaction leaves the pool;    *)
(* after its outages the node answers.                                      *)
Fairness ==
    /\ WF_vars(Index) /\ WF_vars(PollTick) /\ WF_vars(GracePasses)
    /\ \A t \in Tx : WF_vars(NetworkStep(t))
    /\ \A r \in Reports : WF_vars(ReportStep(r))

Spec == Init /\ [][Next]_vars
FairSpec == Spec /\ Fairness

-----------------------------------------------------------------------------
(* The state has its shape.                                                 *)
TypeOK ==
    /\ txs \in [Tx -> TxRecord] /\ eventRaw \subseteq Tx
    /\ apply \in [tx : Tx \cup {None}, hash : Tx \cup {None}, error : BOOLEAN]
    /\ row \in [hash : [Actions -> Tx \cup {None}], error : [Actions -> BOOLEAN], old : BOOLEAN]
    /\ reports \in [Reports -> [pc : {"idle", "start", "wait", "write", "verify", "clear"},
                                tx : Tx \cup {None}, act : Actions]]
    /\ checks \in [Actions \X Tx -> [pc : {"none", "pool", "state"}, tries : 0 .. Tries]]
    /\ slots \in [total : Int, forProposal : Int] /\ faults \in 0 .. MaxFaults
    /\ poll \in [pc : {"idle", "pool", "execute", "approve"},
                 hash : [Actions -> Tx \cup {None}], old : BOOLEAN,
                 pool : (SUBSET Tx) \cup {None}, verdict : {"none", "fail", "keep"}]

(* Each running check holds exactly one slot of both counters, no limit is  *)
(* exceeded, and every check has a report waiting for it and the converse:  *)
(* a slot that leaked would refuse the proposal's reports for good.         *)
SlotsMatchChecks ==
    /\ slots.total = Cardinality(Running)
    /\ slots.forProposal = Cardinality(Running)
    /\ slots.total <= Total /\ slots.forProposal <= PerProposal
    /\ Running = {key(r) : r \in {q \in Reports : reports[q].pc = "wait"}}

(* Only a real approval or execution of the proposal is ever recorded: a    *)
(* forged transaction, or one reported under the other action, would lock   *)
(* every owner's screen.                                                    *)
OnlyRealRecorded ==
    \A a \in Actions : row.hash[a] # None =>
        txs[row.hash[a]].kind = a /\ txs[row.hash[a]].base >= 0

(* Once no report is between its write and its check and no event is being  *)
(* applied, the recorded approval is not one that has been applied: nothing *)
(* would clear it and the vault would stay locked.                          *)
NoOrphanHash ==
    (apply.tx = None /\ \A r \in Reports : reports[r].pc \notin {"verify", "clear"})
        => row.hash["approve"] \notin eventRaw

(* A failure recorded beside a hash is that transaction's: it failed or the *)
(* pool dropped it.                                                         *)
ErrorMeansFailed ==
    \A a \in Actions : (row.hash[a] # None /\ row.error[a])
        => txs[row.hash[a]].st \in {"failed", "dropped"}

(* Whatever is recorded as in flight is settled in the end: its event is    *)
(* applied, or it is marked as failed or dropped, or a later report takes   *)
(* its place.  Every owner's screen stays locked until then.                *)
RecordedSettles ==
    \A a \in Actions, t \in Tx :
        (row.hash[a] = t /\ ~row.error[a])
            ~> (row.hash[a] # t \/ row.error[a] \/ Executed(eventRaw))
=============================================================================
