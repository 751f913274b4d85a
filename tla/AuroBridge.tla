----------------------------- MODULE AuroBridge -----------------------------
(***************************************************************************)
(* The desktop window has no Auro of its own.  The main process keeps a     *)
(* one-shot entry per request (ipc.ts), serves a page for it on the local    *)
(* server (router.ts), and the page asks the Auro extension of whichever     *)
(* browser it was opened in (page.html), then posts the answer back.         *)
(***************************************************************************)
EXTENDS FiniteSets

CONSTANTS
    Requests,   \* requests at once; each use of one stands for a new id
    Browsers,   \* browsers on the user's machine
    Default,    \* the one shell.openExternal opens
    HasAuro,    \* those with the Auro extension
    Accounts,   \* accounts in Auro
    None        \* nothing

ASSUME BridgeConstants ==
    /\ Default \in Browsers /\ HasAuro \subseteq Browsers
    /\ IsFiniteSet(Requests) /\ None \notin Accounts \cup Requests

VARIABLES
    request,            \* per id: method, expected signer and state
    page,               \* per id and browser: the page, as far as it got
    connectedAccounts   \* ipc.ts: what Auro answered at the last connect

bridge == <<request, page, connectedAccounts>>

(* signFields and signMessage differ only in what Auro is asked to sign.     *)
Methods == {"requestAccounts", "sign", "sendTransaction"}

Unused == [method |-> None, signer |-> None, state |-> "unused"]

BridgeTypeOK ==
    /\ request \in [Requests ->
         [method : Methods \cup {None}, signer : Accounts \cup {None},
          state : {"unused", "pending", "resolved", "rejected", "timedout"}]]
    /\ page \in [Requests -> [Browsers ->
         {"none", "open", "ready", "stale", "silent", "signing",
          "error", "done", "dropped"}]]
    /\ connectedAccounts \subseteq Accounts

(* A new process: no entry, no account.  Tabs left open from an earlier one *)
(* hold ids the new process does not know.                                   *)
Forgotten ==
    /\ request' = [r \in Requests |-> Unused]
    /\ page' = [r \in Requests |-> [b \in Browsers |-> "none"]]
    /\ connectedAccounts' = {}

BridgeInit ==
    /\ request = [r \in Requests |-> Unused]
    /\ page = [r \in Requests |-> [b \in Browsers |-> "none"]]
    /\ connectedAccounts = {}

(* The page of request r in browser b gets to state s.                       *)
Turn(r, b, s) == page' = [page EXCEPT ![r][b] = s]

(* The fee payer a transaction was built for: one of the accounts the UI     *)
(* read from the bridge.  Other methods name no signer.                      *)
transactionFeePayer(method) ==
    IF method = "sendTransaction" THEN connectedAccounts ELSE {None}

(* An entry under a new id, its timer, and the page in the default browser.  *)
(* Tabs of the id before it are forgotten: nothing is pending for them.      *)
handleAuroRequest(r, method) ==
    /\ request[r].state # "pending"
    /\ \E signer \in transactionFeePayer(method) :
         request' = [request EXCEPT ![r] =
             [method |-> method, signer |-> signer, state |-> "pending"]]
    /\ page' = [page EXCEPT ![r] =
         [b \in Browsers |-> IF b = Default THEN "open" ELSE "none"]]
    /\ UNCHANGED connectedAccounts

(* The user copies the page's address into another browser.                  *)
CopyUrl(r, b) ==
    /\ page[r][Default] # "none" /\ page[r][b] = "none"
    /\ Turn(r, b, "open")
    /\ UNCHANGED <<request, connectedAccounts>>

(* GET /auro/payload: 404 once the entry is gone, which the page does not    *)
(* look at.                                                                  *)
getPayload(r, b) ==
    /\ page[r][b] = "open"
    /\ Turn(r, b, IF request[r].state = "pending" THEN "ready" ELSE "stale")
    /\ UNCHANGED <<request, connectedAccounts>>

(* As AuroNotFound, but the page reports it: the entry is used up.           *)
PostsNotFound == "error"

(* No window.mina within five seconds: the page says so and posts nothing.   *)
AuroNotFound == "silent"

(* The page waits for Auro, asks for the active account again, which the     *)
(* user may have switched, and refuses a transaction prepared for another    *)
(* one, or of which it has no payload.                                       *)
waitForAuro(r, b) ==
    /\ page[r][b] \in {"ready", "stale"}
    /\ \E active \in Accounts :
         Turn(r, b,
           IF b \notin HasAuro THEN AuroNotFound
           ELSE IF /\ request[r].method = "sendTransaction"
                   /\ page[r][b] = "stale" \/ request[r].signer # active THEN "error"
           ELSE "signing")
    /\ UNCHANGED <<request, connectedAccounts>>

(* POST /auro/callback: the first answer takes the entry, any later one      *)
(* finds none.                                                               *)
callback(r, b, answer) ==
    /\ IF request[r].state = "pending"
       THEN /\ request' = [request EXCEPT ![r].state = answer]
            /\ IF request[r].method = "requestAccounts" /\ answer = "resolved"
               THEN \E active \in Accounts : connectedAccounts' = {active}
               ELSE UNCHANGED connectedAccounts
            /\ Turn(r, b, "done")
       ELSE Turn(r, b, "dropped") /\ UNCHANGED <<request, connectedAccounts>>

(* The user approves or refuses in Auro, whenever it suits, and the page     *)
(* posts the answer; a page that failed before that posts its error.         *)
Answer(r, b) ==
    \/ page[r][b] = "signing" /\ \E answer \in {"resolved", "rejected"} : callback(r, b, answer)
    \/ page[r][b] = "error" /\ callback(r, b, "rejected")

(* REQUEST_TIMEOUT_MS after the request.                                     *)
requestTimeout(r) ==
    /\ request[r].state = "pending"
    /\ request' = [request EXCEPT ![r].state = "timedout"]
    /\ UNCHANGED <<page, connectedAccounts>>

BridgeStep ==
    \/ \E r \in Requests, b \in Browsers :
         CopyUrl(r, b) \/ getPayload(r, b) \/ waitForAuro(r, b) \/ Answer(r, b)
    \/ \E r \in Requests : requestTimeout(r)

(* ApprovalReachesApp (invariant): what the user approved in a browser with  *)
(* Auro is lost to the app only if the request had timed out or another      *)
(* browser with Auro had answered it; a browser without Auro that was tried  *)
(* first never uses the request up (page.html, ipc.ts resolveRequest).       *)
ApprovalReachesApp ==
    \A r \in Requests, b \in Browsers :
      page[r][b] = "dropped" =>
        \/ request[r].state = "timedout"
        \/ \E other \in HasAuro \ {b} : page[r][other] = "done"
=============================================================================
