--------------------------- MODULE PreflightProofs ---------------------------
(* Proofs about Preflight for every set of owners and uploads and any       *)
(* number of pages, vault changes and failed reads.                         *)
EXTENDS Preflight, TLAPS

(* The steps a flow can be at, and those at which it loads its stores, has  *)
(* a proved transaction, or holds the one check of the tab.                 *)
Pcs == {"idle", "target", "compile", "state", "events", "chain", "match",
        "sign", "build", "gate", "check", "assess", "panel", "decided",
        "reassess", "recover", "recovered", "deliver", "send", "sent"}
Loading == {"state", "events", "chain", "match"}
Proved == {"gate", "check", "assess", "panel", "decided", "send", "sent"}
Holding == {"check", "assess", "panel", "decided", "recover", "recovered"}

StoreRecord == [owners : SUBSET Owners, prop : {"none", "open", "executed"},
                voters : SUBSET Owners]

Statuses == {"none", "stores", "existing", "retry", "rebuild", "cancel"}

FlowRecord ==
    [pc : Pcs, kind : Kinds, via : {"wallet", "export", "upload", "recreate"},
     row : {"true", "other"}, gen : Nat, check : Nat,
     state : Vault \cup {None}, stores : StoreRecord \cup {None},
     base : Vault \cup {None},
     status : Statuses,
     sent : 0 .. 1, result : {"none", "sent", "downloaded"}]

(* The state has its shape: everything but the flows, then the flows.       *)
Shapes ==
    /\ chain \in Vault /\ indexed \in Vault
    /\ gate \in Flows \cup {None} /\ choice \in Flows \cup {None}
    /\ hosts \in 0 .. MaxHosts /\ generation \in 0 .. MaxLeaves
    /\ key \in {"none", "expected"} /\ cache \in {"own", "swapped"}

(* A flow of record w in generation g is as far as its step says: what it   *)
(* sent, and which page it belongs to ...                                   *)
Accounted(w, g) ==
    /\ w.check = w.gen /\ w.gen <= g
    /\ w.pc = "sent" => w.sent = 1
    /\ w.pc \notin {"sent", "idle"} => w.sent = 0
    /\ w.pc = "idle" => ((w.result = "sent") <=> (w.sent = 1))
    /\ w.pc \in Loading => w.kind # "deploy"
    /\ w.pc \in {"match", "sign", "build"} /\ w.kind # "deploy" => w.base \in Vault

(* ... and, for the action that runs in this tab with compiled key k, what  *)
(* was compiled, compared and proved on the way.                            *)
Prepared(w, k) ==
    /\ w.via = "wallet"
    /\ w.row = "true" \/ w.kind = "propose"
    /\ w.pc \notin {"idle", "target", "compile"} => k = "expected"
    /\ w.pc \in Proved => Provable(w.kind, w.stores, w.base)

(* A flow at the panel, or on its way to or from it, holds the gate.        *)
GateHeld == \A f \in Flows : flow[f].pc \in Holding => gate = f

IndInv ==
    /\ Shapes
    /\ flow \in [Flows -> FlowRecord]
    /\ \A f \in Flows : Accounted(flow[f], generation)
    /\ Prepared(flow["online"], key) /\ flow["offline"].kind # "deploy"
    /\ GateHeld
    /\ PanelAnswerable

-----------------------------------------------------------------------------
(* What one flow does leaves the invariant true when its new record is in   *)
(* order and the panel is.                                                  *)
LEMMA FlowMoves ==
    ASSUME IndInv, NEW f \in Flows, NEW r \in FlowRecord,
           flow' = [flow EXCEPT ![f] = r],
           UNCHANGED <<world, tab>>,
           key' \in {"none", "expected"}, cache' \in {"own", "swapped"},
           key = "expected" => key' = "expected",
           gate' \in Flows \cup {None}, choice' \in Flows \cup {None},
           Accounted(r, generation),
           f = "online" => Prepared(r, key'),
           f = "offline" => r.kind # "deploy",
           GateHeld', PanelAnswerable'
    PROVE  IndInv'
<1>1. flow' \in [Flows -> FlowRecord]
  BY DEF IndInv
<1>2. flow'[f] = r /\ \A g \in Flows \ {f} : flow'[g] = flow[g]
  BY DEF IndInv
<1>3. Shapes'
  BY DEF IndInv, Shapes, world, tab
<1>4. \A g \in Flows : Accounted(flow'[g], generation')
  <2>1. generation' = generation
    BY DEF tab
  <2>2. TAKE g \in Flows
  <2>3. CASE g = f
    BY <1>2, <2>1, <2>3
  <2>4. CASE g # f
    BY <1>2, <2>1, <2>4 DEF IndInv
  <2> QED BY <2>3, <2>4
<1>5. Prepared(flow'["online"], key')
  <2>1. CASE f = "online"
    BY <1>2, <2>1
  <2>2. CASE f # "online"
    <3>1. flow'["online"] = flow["online"]
      BY <1>2, <2>2 DEF Flows
    <3>2. Prepared(flow["online"], key) 
      BY DEF IndInv
    <3> QED BY <3>1, <3>2 DEF Prepared
  <2> QED BY <2>1, <2>2
<1>6. flow'["offline"].kind # "deploy"
  <2>1. CASE f = "offline"
    BY <1>2, <2>1
  <2>2. CASE f # "offline"
    BY <1>2, <2>2 DEF Flows, IndInv
  <2> QED BY <2>1, <2>2
<1> QED BY <1>1, <1>3, <1>4, <1>5, <1>6 DEF IndInv

(* The panel stays right when nobody touches it and the flow neither starts *)
(* to wait nor takes the gate.                                              *)
LEMMA PanelKept ==
    ASSUME IndInv, NEW f \in Flows, NEW r \in FlowRecord,
           flow' = [flow EXCEPT ![f] = r],
           UNCHANGED <<panel, hosts>>,
           r.pc \notin {"panel", "recover"},
           r.pc \in Holding => flow[f].pc \in Holding
    PROVE  GateHeld' /\ PanelAnswerable'
<1>1. flow'[f] = r /\ \A g \in Flows \ {f} : flow'[g] = flow[g]
  BY DEF IndInv
<1>2. gate' = gate /\ choice' = choice /\ view' = view /\ hosts' = hosts
  BY DEF panel
<1>3. GateHeld'
  BY <1>1, <1>2 DEF IndInv, GateHeld
<1>4. Waiting' \subseteq Waiting
  BY <1>1 DEF Waiting
<1>5. PanelAnswerable'
  BY <1>2, <1>4 DEF IndInv, PanelAnswerable
<1> QED BY <1>3, <1>5

(* The flow that holds the gate releases it and goes on.                    *)
LEMMA PanelReleased ==
    ASSUME IndInv, NEW f \in Flows, NEW r \in FlowRecord,
           flow' = [flow EXCEPT ![f] = r],
           flow[f].pc \in Holding, r.pc \notin Holding, Release
    PROVE  /\ GateHeld' /\ PanelAnswerable'
           /\ gate' \in Flows \cup {None} /\ choice' \in Flows \cup {None}
<1>1. flow'[f] = r /\ \A g \in Flows \ {f} : flow'[g] = flow[g]
  BY DEF IndInv
<1>2. \A g \in Flows : flow'[g].pc \notin Holding
  BY <1>1 DEF IndInv, GateHeld
<1>3. Waiting' = {}
  BY <1>2 DEF Waiting, Holding
<1> QED BY <1>2, <1>3 DEF GateHeld, PanelAnswerable, Release

(* A flow that has the gate, or takes it while it is free, opens the panel. *)
LEMMA PanelTaken ==
    ASSUME IndInv, NEW f \in Flows, NEW r \in FlowRecord,
           flow' = [flow EXCEPT ![f] = r],
           gate = None \/ flow[f].pc \in Holding, gate' = f,
           r.pc \in {"panel", "recover"} =>
              /\ choice' = f /\ hosts' > 0
              /\ view' # None /\ view'.who = f /\ view'.kind # "checking"
    PROVE  GateHeld' /\ PanelAnswerable'
<1>1. flow'[f] = r /\ \A g \in Flows \ {f} : flow'[g] = flow[g]
  BY DEF IndInv
<1>2. \A g \in Flows \ {f} : flow'[g].pc \notin Holding
  BY <1>1, PreflightConstants DEF IndInv, GateHeld, Flows
<1>3. Waiting' \subseteq {f}
  BY <1>2 DEF Waiting, Holding
<1>4. f \in Waiting' => r.pc \in {"panel", "recover"}
  BY <1>1 DEF Waiting
<1> QED BY <1>2, <1>3, <1>4 DEF GateHeld, PanelAnswerable

-----------------------------------------------------------------------------
(* The record of a flow that is over is in order, with what it had sent.    *)
LEMMA EndRecord ==
    ASSUME NEW u \in FlowRecord, NEW g \in Nat, Accounted(u, g), NEW k, NEW r,
           \/ u.pc \notin {"idle", "sent"} /\ r.result \in {"none", "downloaded"}
           \/ u.pc = "sent" /\ r.result = "sent",
           r.pc = "idle", r.kind = "propose", r.via = "wallet", r.row = "true",
           r.gen = 0, r.check = 0, r.sent = u.sent
    PROVE  Accounted(r, g) /\ Prepared(r, k)
<1>1. Accounted(r, g)
  BY DEF Accounted, Loading, FlowRecord
<1>2. Prepared(r, k)
  BY DEF Prepared, Proved
<1> QED BY <1>1, <1>2

(* The record of an idle flow has its shape.                                *)
LEMMA IdleRecord ==
    ASSUME NEW n \in 0 .. 1, NEW result \in {"none", "sent", "downloaded"}
    PROVE  /\ [Idle EXCEPT !.sent = n, !.result = result] \in FlowRecord
           /\ Idle \in FlowRecord
<1>1. Idle \in FlowRecord
  <2>1. None \in Vault \cup {None} /\ None \in StoreRecord \cup {None}
    OBVIOUS
  <2> QED BY <2>1 DEF Idle, FlowRecord, Pcs, Kinds, Statuses
<1> QED BY <1>1 DEF FlowRecord

(* A flow that ends leaves the invariant true, whether it held the gate or  *)
(* not.                                                                     *)
LEMMA Ended ==
    ASSUME IndInv, NEW f \in Flows, NEW result,
           \/ flow[f].pc \notin {"idle", "sent"} /\ result \in {"none", "downloaded"}
           \/ flow[f].pc = "sent" /\ result = "sent",
           Finish(f, result),
           UNCHANGED <<world, tab>>,
           key' \in {"none", "expected"}, cache' \in {"own", "swapped"},
           key = "expected" => key' = "expected",
           UNCHANGED panel \/ (Release /\ flow[f].pc \in Holding)
    PROVE  IndInv'
<1> DEFINE r == [Idle EXCEPT !.sent = flow[f].sent, !.result = result]
<1>1. flow[f] \in FlowRecord /\ generation \in Nat /\ Accounted(flow[f], generation)
  BY PreflightConstants DEF IndInv, Shapes
<1>r. /\ r.pc = "idle" /\ r.kind = "propose" /\ r.via = "wallet" /\ r.row = "true"
      /\ r.gen = 0 /\ r.check = 0 /\ r.sent = flow[f].sent /\ r.result = result
  BY DEF Idle
<1>s. r \in FlowRecord
  <2>1. flow[f].sent \in 0 .. 1 /\ result \in {"none", "sent", "downloaded"}
    BY <1>1 DEF FlowRecord
  <2> QED BY <2>1, IdleRecord
<1>3. flow' = [flow EXCEPT ![f] = r]
  BY DEF Finish, Put
<1> HIDE DEF r
<1>2. Accounted(r, generation) /\ Prepared(r, key')
  BY <1>1, <1>r, EndRecord
<1>4. r.pc \notin Holding /\ r.pc \notin {"panel", "recover"} /\ r.kind # "deploy"
  BY <1>r DEF Holding
<1>5. GateHeld' /\ PanelAnswerable' /\ gate' \in Flows \cup {None} /\ choice' \in Flows \cup {None}
  <2>1. CASE UNCHANGED panel
    <3>1. GateHeld' /\ PanelAnswerable'
      BY <2>1, <1>2, <1>s, <1>3, <1>4, PanelKept DEF tab
    <3> QED BY <3>1, <2>1 DEF panel, IndInv, Shapes
  <2>2. CASE Release /\ flow[f].pc \in Holding
    BY <2>2, <1>2, <1>s, <1>3, <1>4, PanelReleased
  <2> QED BY <2>1, <2>2
<1> QED BY <1>2, <1>s, <1>3, <1>4, <1>5, FlowMoves

(* A flow that goes on keeps its kind and its page and has not sent yet.    *)
SameFlow(u, r) ==
    /\ r.kind = u.kind /\ r.gen = u.gen /\ r.check = u.check /\ r.sent = u.sent
    /\ u.pc \notin {"idle", "sent"} /\ r.pc \notin {"idle", "sent"}
    /\ r.pc \in Loading => r.kind # "deploy"
    /\ r.pc \in {"match", "sign", "build"} /\ r.kind # "deploy" => r.base \in Vault

(* A flow that goes on stays accounted for.                                 *)
LEMMA SameFlowAccounted ==
    ASSUME NEW u, NEW r, NEW g, Accounted(u, g), SameFlow(u, r)
    PROVE  Accounted(r, g)
BY DEF Accounted, SameFlow

(* A flow that goes on without asking leaves the invariant true.            *)
LEMMA Advanced ==
    ASSUME IndInv, NEW f \in Flows, NEW r \in FlowRecord,
           flow' = [flow EXCEPT ![f] = r], SameFlow(flow[f], r),
           r.pc \notin {"panel", "recover"},
           f = "online" => Prepared(r, key'),
           UNCHANGED <<world, tab>>,
           key' \in {"none", "expected"}, cache' \in {"own", "swapped"},
           key = "expected" => key' = "expected",
           \/ UNCHANGED panel /\ (r.pc \in Holding => flow[f].pc \in Holding)
           \/ Release /\ flow[f].pc \in Holding /\ r.pc \notin Holding
    PROVE  IndInv'
<1>1. Accounted(r, generation)
  BY SameFlowAccounted DEF IndInv
<1>2. f = "offline" => r.kind # "deploy"
  BY DEF IndInv, SameFlow
<1>3. GateHeld' /\ PanelAnswerable' /\ gate' \in Flows \cup {None} /\ choice' \in Flows \cup {None}
  <2>1. CASE UNCHANGED panel /\ (r.pc \in Holding => flow[f].pc \in Holding)
    <3>1. GateHeld' /\ PanelAnswerable'
      BY <2>1, PanelKept DEF tab
    <3> QED BY <3>1, <2>1 DEF panel, IndInv, Shapes
  <2>2. CASE Release /\ flow[f].pc \in Holding /\ r.pc \notin Holding
    BY <2>2, PanelReleased
  <2> QED BY <2>1, <2>2
<1> QED BY <1>1, <1>2, <1>3, FlowMoves

(* A flow that has the gate, or takes it while it is free, shows its check  *)
(* or asks, on an open page.                                                *)
LEMMA Asked ==
    ASSUME IndInv, NEW f \in Flows, NEW r \in FlowRecord,
           flow' = [flow EXCEPT ![f] = r], SameFlow(flow[f], r),
           gate = None \/ flow[f].pc \in Holding, gate' = f,
           choice' \in Flows \cup {None},
           f = "online" => Prepared(r, key'),
           r.pc \in {"panel", "recover"} =>
              /\ choice' = f /\ hosts > 0
              /\ view' # None /\ view'.who = f /\ view'.kind # "checking",
           UNCHANGED <<world, tab, compiler>>
    PROVE  IndInv'
<1>1. Accounted(r, generation)
  BY SameFlowAccounted DEF IndInv
<1>2. f = "offline" => r.kind # "deploy"
  BY DEF IndInv, SameFlow
<1>3. GateHeld' /\ PanelAnswerable'
  BY PanelTaken DEF tab
<1>4. /\ key' \in {"none", "expected"} /\ cache' \in {"own", "swapped"} /\ key' = key
      /\ gate' \in Flows \cup {None}
  BY DEF compiler, IndInv, Shapes
<1> QED BY <1>1, <1>2, <1>3, <1>4, FlowMoves

-----------------------------------------------------------------------------
(* The step a list of steps has after the i-th, when no other is named like *)
(* the i-th.                                                                *)
LEMMA NextStep ==
    ASSUME NEW kind, NEW s, s = Handler[kind].steps, NEW pc, NEW i \in DOMAIN s,
           \A j \in DOMAIN s : s[j] = pc <=> j = i
    PROVE  Following(kind, pc) = s[1 + i]
<1>1. (CHOOSE j \in DOMAIN s : s[j] = pc) = i
  OBVIOUS
<1> QED BY <1>1 DEF Following

(* Where the handlers start, and where they go once they have compiled and  *)
(* once their stores have matched.                                          *)
LEMMA Routes ==
    /\ \A kind \in Kinds : Head(Handler[kind].steps) \in {"compile", "target"}
    /\ \A kind \in Kinds \ {"deploy"} :
         Following(kind, "compile") \in {"state", "events"}
           /\ Following(kind, "match") \in {"sign", "build"}
    /\ Following("deploy", "compile") = "build"
<1>1. Handler["deploy"].steps = <<"target", "compile", "build">>
  BY DEF Handler, Kinds, deployAndSetupContract
<1>2. Handler["propose"].steps = <<"compile", "events", "chain", "match", "sign", "build">>
  BY DEF Handler, Kinds, createOnchainProposal
<1>3. Handler["approve"].steps = <<"compile", "state", "events", "chain", "match", "sign", "build">>
  BY DEF Handler, Kinds, approveProposalOnchain
<1>4. Handler["execute"].steps = <<"compile", "state", "events", "chain", "match", "build">>
  BY DEF Handler, Kinds, executeProposalOnchain
<1>5. Handler["setup"].steps = <<"compile", "events", "chain", "match", "build">>
  BY DEF Handler, Kinds, executeSetupChildOnchain
<1>6. Handler["lifecycle"].steps = <<"compile", "events", "chain", "match", "build">>
  BY DEF Handler, Kinds, executeChildLifecycleOnchain
<1>7. \A kind \in Kinds : Head(Handler[kind].steps) \in {"compile", "target"}
  BY <1>1, <1>2, <1>3, <1>4, <1>5, <1>6 DEF Kinds
<1>8. Following("deploy", "compile") = "build"
  BY <1>1, NextStep
<1>9. Following("propose", "compile") = "events"
  BY <1>2, NextStep
<1>10. Following("propose", "match") = "sign"
  BY <1>2, NextStep
<1>11. Following("approve", "compile") = "state"
  BY <1>3, NextStep
<1>12. Following("approve", "match") = "sign"
  BY <1>3, NextStep
<1>13. Following("execute", "compile") = "state"
  BY <1>4, NextStep
<1>14. Following("execute", "match") = "build"
  BY <1>4, NextStep
<1>15. Following("setup", "compile") = "events"
  BY <1>5, NextStep
<1>16. Following("setup", "match") = "build"
  BY <1>5, NextStep
<1>17. Following("lifecycle", "compile") = "events"
  BY <1>6, NextStep
<1>18. Following("lifecycle", "match") = "build"
  BY <1>6, NextStep
<1> QED BY <1>7, <1>8, <1>9, <1>10, <1>11, <1>12, <1>13, <1>14, <1>15, <1>16, <1>17, <1>18 DEF Kinds

-----------------------------------------------------------------------------
(* What a proof was built on is among the preconditions it carries: neither *)
(* the account at the address nor the slot decides what the circuits read.  *)
LEMMA PreconditionsSuffice ==
    ASSUME NEW kind \in Kinds \ {"deploy"}, NEW s, NEW v \in Vault, Provable(kind, s, v)
    PROVE  Preconditions(kind, v) \in Vault /\ Provable(kind, s, Preconditions(kind, v))
<1> DEFINE p == [v EXCEPT !.account = "none", !.late = FALSE]
<1>1. Preconditions(kind, v) = p
  BY DEF Preconditions
<1>2. /\ p.prop = v.prop /\ p.voters = v.voters /\ p.owners = v.owners
      /\ p.configNonce = v.configNonce /\ p.nonce = v.nonce /\ ~p.late
  BY DEF Vault
<1>3. p \in Vault
  BY DEF Vault
<1> HIDE DEF p
<1>4. MatchesChain(s, kind, v) /\ Accepts(v, kind)
  BY DEF Provable
<1>5. Stores(p) = Stores(v)
  BY <1>2 DEF Stores
<1>6. MatchesChain(s, kind, p)
  BY <1>2, <1>4, <1>5 DEF MatchesChain
<1>7. Accepts(p, kind)
  BY <1>2, <1>4 DEF Accepts
<1> QED BY <1>1, <1>3, <1>6, <1>7 DEF Provable

(* A flow that only changes its step goes on in order when the new step is  *)
(* one its preparation allows.                                              *)
LEMMA Jumped ==
    ASSUME IndInv, NEW f \in Flows, NEW pc \in Pcs \ {"idle", "sent", "panel", "recover"},
           Goto(f, pc), flow[f].pc \notin {"idle", "sent"},
           pc \in Loading => flow[f].kind # "deploy",
           pc \in {"match", "sign", "build"} =>
              flow[f].kind = "deploy" \/ flow[f].base \in Vault,
           f = "online" =>
              /\ pc \notin {"target", "compile"} => key' = "expected"
              /\ pc \in Proved => flow[f].pc \in Proved,
           UNCHANGED <<world, tab>>,
           key' \in {"none", "expected"}, cache' \in {"own", "swapped"},
           key = "expected" => key' = "expected",
           \/ UNCHANGED panel /\ (pc \in Holding => flow[f].pc \in Holding)
           \/ Release /\ flow[f].pc \in Holding /\ pc \notin Holding
    PROVE  IndInv'
<1> DEFINE r == [flow[f] EXCEPT !.pc = pc]
<1>1. flow[f] \in FlowRecord
  BY DEF IndInv
<1>2. r \in FlowRecord
  BY <1>1 DEF FlowRecord
<1>3. /\ r.pc = pc /\ r.kind = flow[f].kind /\ r.gen = flow[f].gen
      /\ r.check = flow[f].check /\ r.sent = flow[f].sent /\ r.via = flow[f].via
      /\ r.row = flow[f].row /\ r.base = flow[f].base /\ r.stores = flow[f].stores
  BY <1>1 DEF FlowRecord
<1>4. flow' = [flow EXCEPT ![f] = r]
  BY DEF Goto, Put
<1> HIDE DEF r
<1>5. SameFlow(flow[f], r)
  BY <1>3 DEF SameFlow
<1>6. f = "online" => Prepared(r, key')
  BY <1>3 DEF Prepared, IndInv
<1> QED BY <1>2, <1>3, <1>4, <1>5, <1>6, Advanced

(* A mismatch of the stores, or a proposal that exists, ends the flow or    *)
(* takes the gate and asks on an open page.                                 *)
LEMMA Recovery ==
    ASSUME IndInv, NEW f \in Flows, flow[f].pc \in {"chain", "match", "build"},
           NEW kind \in {"stores", "existing"}, Recover(f, kind),
           UNCHANGED <<world, tab, compiler>>
    PROVE  IndInv'
<1>1. flow[f] \in FlowRecord /\ flow[f].pc \notin {"idle", "sent"}
  BY DEF IndInv
<1>2. /\ key' \in {"none", "expected"} /\ cache' \in {"own", "swapped"} /\ key' = key
  BY DEF compiler, IndInv, Shapes
<1>3. CASE Finish(f, "none") /\ UNCHANGED panel
  BY <1>1, <1>2, <1>3, Ended
<1>4. CASE ~(Finish(f, "none") /\ UNCHANGED panel)
  <2> DEFINE r == [flow[f] EXCEPT !.pc = "recover", !.status = kind]
  <2> DEFINE w == [who |-> f, kind |-> kind, canRebuild |-> FALSE]
  <2>1. /\ hosts # 0 /\ gate = None /\ Put(f, r)
        /\ gate' = f /\ choice' = f /\ view' = w
    BY <1>4 DEF Recover
  <2>2. r \in FlowRecord
    <3>1. "recover" \in Pcs /\ kind \in Statuses
      BY DEF Pcs, Statuses
    <3> QED BY <1>1, <3>1 DEF FlowRecord
  <2>3. /\ r.pc = "recover" /\ r.kind = flow[f].kind /\ r.gen = flow[f].gen
        /\ r.check = flow[f].check /\ r.sent = flow[f].sent /\ r.via = flow[f].via
        /\ r.row = flow[f].row
    BY <1>1 DEF FlowRecord
  <2>4. flow' = [flow EXCEPT ![f] = r]
    BY <2>1 DEF Put
  <2>5. hosts > 0
    BY <2>1, PreflightConstants DEF IndInv, Shapes
  <2>6. view' # None /\ view'.who = f /\ view'.kind # "checking"
    <3>1. w # None
      BY PreflightConstants, Zenon DEF Flows
    <3>2. w.who = f /\ w.kind # "checking"
      OBVIOUS
    <3> HIDE DEF w
    <3> QED BY <2>1, <3>1, <3>2
  <2> HIDE DEF r, w
  <2>7. SameFlow(flow[f], r)
    BY <1>1, <2>3 DEF SameFlow, Loading
  <2>8. f = "online" => Prepared(r, key')
    BY <2>3, <1>2 DEF Prepared, IndInv, Proved
  <2> QED BY <2>1, <2>2, <2>4, <2>5, <2>6, <2>7, <2>8, Asked
<1> QED BY <1>3, <1>4

(* The check that cannot send asks on its page, or ends when that is gone.  *)
LEMMA Asking ==
    ASSUME IndInv, NEW f \in Flows, flow[f].pc \in {"check", "assess"},
           NEW status \in {"stores", "existing", "unknown", "executed", "invalid",
                           "review", "eligible"},
           Ask(f, status), UNCHANGED <<world, tab, compiler>>
    PROVE  IndInv'
<1>1. flow[f] \in FlowRecord /\ flow[f].pc \notin {"idle", "sent"} /\ flow[f].pc \in Holding
  BY DEF IndInv, Holding
<1>2. /\ key' \in {"none", "expected"} /\ cache' \in {"own", "swapped"} /\ key' = key
  BY DEF compiler, IndInv, Shapes
<1>3. CASE Finish(f, "none") /\ Release
  BY <1>1, <1>2, <1>3, Ended
<1>4. CASE ~(Finish(f, "none") /\ Release)
  <2> DEFINE r == [flow[f] EXCEPT !.pc = "panel"]
  <2> DEFINE w == [who |-> f, kind |-> status, canRebuild |-> status = "eligible"]
  <2>1. /\ hosts # 0 /\ Goto(f, "panel") /\ choice' = f /\ view' = w /\ gate' = gate
    BY <1>4 DEF Ask
  <2>2. r \in FlowRecord
    BY <1>1 DEF FlowRecord, Pcs
  <2>3. /\ r.pc = "panel" /\ r.kind = flow[f].kind /\ r.gen = flow[f].gen
        /\ r.check = flow[f].check /\ r.sent = flow[f].sent /\ r.via = flow[f].via
        /\ r.row = flow[f].row /\ r.base = flow[f].base /\ r.stores = flow[f].stores
    BY <1>1 DEF FlowRecord
  <2>4. flow' = [flow EXCEPT ![f] = r]
    BY <2>1 DEF Goto, Put
  <2>5. hosts > 0 /\ gate = f
    BY <1>1, <2>1, PreflightConstants DEF IndInv, Shapes, GateHeld
  <2>6. view' # None /\ view'.who = f /\ view'.kind # "checking"
    <3>1. w # None
      BY PreflightConstants, Zenon DEF Flows
    <3>2. w.who = f /\ w.kind # "checking"
      OBVIOUS
    <3> HIDE DEF w
    <3> QED BY <2>1, <3>1, <3>2
  <2> HIDE DEF r, w
  <2>7. SameFlow(flow[f], r)
    BY <1>1, <2>3 DEF SameFlow, Loading
  <2>8. f = "online" => Prepared(r, key')
    BY <2>3, <1>2 DEF Prepared, IndInv, Proved
  <2> QED BY <1>1, <2>1, <2>2, <2>4, <2>5, <2>6, <2>7, <2>8, Asked
<1> QED BY <1>3, <1>4

-----------------------------------------------------------------------------
(* The facts every step of a flow starts from.                              *)
LEMMA AtStep ==
    ASSUME IndInv, NEW f \in Flows
    PROVE  /\ flow[f] \in FlowRecord /\ flow[f].kind \in Kinds
           /\ Accounted(flow[f], generation)
           /\ f = "online" => Prepared(flow[f], key)
           /\ chain \in Vault /\ indexed \in Vault
           /\ key \in {"none", "expected"} /\ cache \in {"own", "swapped"}
<1>1. flow[f] \in FlowRecord
  BY DEF IndInv
<1>2. flow[f].kind \in Kinds
  BY <1>1 DEF FlowRecord
<1> QED BY <1>1, <1>2 DEF IndInv, Shapes

(* Compiling, or discarding the artifacts of another build.                 *)
LEMMA CompileStep ==
    ASSUME IndInv, NEW f \in Flows, Compile(f)
    PROVE  IndInv'
<1>1. /\ flow[f].pc = "compile" /\ UNCHANGED <<world, tab>> /\ UNCHANGED panel
  BY DEF Compile, tab, world
<1>2. CASE cache' = "own" /\ UNCHANGED key /\ Finish(f, "none")
  BY <1>1, <1>2, AtStep, Ended
<1>3. CASE key' = "expected" /\ UNCHANGED cache /\ Goto(f, Following(flow[f].kind, "compile"))
  <2> DEFINE pc == Following(flow[f].kind, "compile")
  <2>1. \/ flow[f].kind = "deploy" /\ pc = "build"
        \/ flow[f].kind # "deploy" /\ pc \in {"state", "events"}
    BY Routes, AtStep
  <2>2. Goto(f, pc)
    BY <1>3
  <2> HIDE DEF pc
  <2>3. /\ pc \in Pcs \ {"idle", "sent", "panel", "recover"}
        /\ pc \notin Holding /\ pc \notin Proved
        /\ pc \in Loading => flow[f].kind # "deploy"
        /\ pc \in {"match", "sign", "build"} => flow[f].kind = "deploy"
    BY <2>1 DEF Pcs, Holding, Proved, Loading
  <2> QED BY <1>1, <1>3, <2>2, <2>3, AtStep, Jumped
<1> QED BY <1>2, <1>3 DEF Compile

(* A step that stores what it read and goes on to load.                     *)
LEMMA LoadStep ==
    ASSUME IndInv, NEW f \in Flows, flow[f].pc \in {"target", "state", "events", "chain"},
           NEW pc \in {"compile", "events", "chain", "match"},
           NEW r \in FlowRecord, Put(f, r), r.pc = pc, r.kind = flow[f].kind,
           r.gen = flow[f].gen, r.check = flow[f].check, r.sent = flow[f].sent,
           r.via = flow[f].via, r.row = flow[f].row,
           pc = "compile" \/ flow[f].pc # "target",
           pc = "match" => r.base \in Vault,
           UNCHANGED <<world, panel, tab, compiler>>
    PROVE  IndInv'
<1>1. flow' = [flow EXCEPT ![f] = r]
  BY DEF Put
<1>2. SameFlow(flow[f], r)
  BY AtStep DEF SameFlow, Accounted, Loading
<1>3. key' = key /\ cache' = cache
  BY DEF compiler
<1>4. f = "online" => Prepared(r, key')
  BY <1>3, AtStep DEF Prepared, Proved
<1>5. r.pc \notin Holding /\ r.pc \notin {"panel", "recover"}
  BY DEF Holding
<1> QED BY <1>1, <1>2, <1>3, <1>4, <1>5, AtStep, Advanced

(* A vault before anything happened has the shape of one.                   *)
LEMMA FreshVault == Fresh \in Vault
<1>1. 0 \in 0 .. 1
  OBVIOUS
<1>2. /\ "none" \in {"none", "open", "executed"} /\ {} \in SUBSET Owners
      /\ Owners \in SUBSET Owners /\ FALSE \in BOOLEAN /\ "none" \in {"none", "bare"}
  BY Zenon
<1> QED BY <1>1, <1>2, Zenon DEF Fresh, Vault

(* The target of a deployment, the state, the events and the chain.         *)
LEMMA ReadSteps ==
    ASSUME IndInv, NEW f \in Flows,
           ReadTarget(f) \/ ReadState(f) \/ LoadEvents(f) \/ LoadChain(f)
    PROVE  IndInv'
<1>1. flow[f] \in FlowRecord /\ chain \in Vault /\ indexed \in Vault
  BY AtStep
<1>2. CASE ReadTarget(f)
  <2> DEFINE p == Preconditions("deploy", chain)
             r == [flow[f] EXCEPT !.pc = "compile", !.base = p]
  <2>1. p \in Vault
    <3>1. p = [Fresh EXCEPT !.account = chain.account]
      BY DEF Preconditions
    <3>2. chain.account \in {"none", "bare"}
      BY <1>1 DEF Vault
    <3> QED BY <3>1, <3>2, FreshVault DEF Vault
  <2>2. Put(f, r) /\ flow[f].pc = "target" /\ UNCHANGED <<world, panel, tab, compiler>>
    BY <1>2 DEF ReadTarget, world, panel, tab, compiler
  <2> HIDE DEF p
  <2>3. r \in FlowRecord
    <3>1. "compile" \in Pcs
      BY DEF Pcs
    <3> QED BY <1>1, <2>1, <3>1 DEF FlowRecord
  <2>4. /\ r.pc = "compile" /\ r.kind = flow[f].kind /\ r.gen = flow[f].gen
        /\ r.check = flow[f].check /\ r.sent = flow[f].sent /\ r.via = flow[f].via
        /\ r.row = flow[f].row
    BY <1>1 DEF FlowRecord
  <2> HIDE DEF r
  <2> QED BY <2>2, <2>3, <2>4, LoadStep
<1>3. CASE ReadState(f)
  <2> DEFINE r == [flow[f] EXCEPT !.pc = "events", !.state = chain]
  <2>1. CASE Finish(f, "none")
    BY <1>3, <2>1, Ended, AtStep DEF ReadState, world, panel, tab, compiler
  <2>2. CASE Put(f, r)
    <3>1. r \in FlowRecord
      <4>1. "events" \in Pcs
        BY DEF Pcs
      <4> QED BY <1>1, <4>1 DEF FlowRecord
    <3>2. /\ r.pc = "events" /\ r.kind = flow[f].kind /\ r.gen = flow[f].gen
          /\ r.check = flow[f].check /\ r.sent = flow[f].sent /\ r.via = flow[f].via
          /\ r.row = flow[f].row
      BY <1>1 DEF FlowRecord
    <3>3. flow[f].pc = "state" /\ UNCHANGED <<world, panel, tab, compiler>>
      BY <1>3 DEF ReadState, world, panel, tab, compiler
    <3> HIDE DEF r
    <3> QED BY <2>2, <3>1, <3>2, <3>3, LoadStep
  <2> QED BY <1>3, <2>1, <2>2 DEF ReadState
<1>4. CASE LoadEvents(f)
  <2> DEFINE s == Stores(indexed)
             r == [flow[f] EXCEPT !.pc = "chain", !.stores = s]
  <2>1. CASE Finish(f, "none")
    BY <1>4, <2>1, Ended, AtStep DEF LoadEvents, world, panel, tab, compiler
  <2>2. CASE Put(f, r)
    <3>s. s \in StoreRecord
      BY <1>1 DEF Stores, StoreRecord, Vault
    <3> HIDE DEF s
    <3>1. r \in FlowRecord
      <4>1. "chain" \in Pcs
        BY DEF Pcs
      <4> QED BY <1>1, <3>s, <4>1 DEF FlowRecord
    <3>2. /\ r.pc = "chain" /\ r.kind = flow[f].kind /\ r.gen = flow[f].gen
          /\ r.check = flow[f].check /\ r.sent = flow[f].sent /\ r.via = flow[f].via
          /\ r.row = flow[f].row
      BY <1>1 DEF FlowRecord
    <3>3. flow[f].pc = "events" /\ UNCHANGED <<world, panel, tab, compiler>>
      BY <1>4 DEF LoadEvents, world, panel, tab, compiler
    <3> HIDE DEF r
    <3> QED BY <2>2, <3>1, <3>2, <3>3, LoadStep
  <2> QED BY <1>4, <2>1, <2>2 DEF LoadEvents
<1>5. CASE LoadChain(f)
  <2> DEFINE r == [flow[f] EXCEPT !.pc = "match", !.base = chain]
  <2>3. flow[f].pc = "chain" /\ UNCHANGED <<world, tab, compiler>>
    BY <1>5 DEF LoadChain, world, tab, compiler
  <2>1. CASE Recover(f, "stores")
    BY <2>1, <2>3, Recovery
  <2>2. CASE Put(f, r) /\ UNCHANGED panel
    <3>1. r \in FlowRecord
      <4>1. "match" \in Pcs
        BY DEF Pcs
      <4> QED BY <1>1, <4>1 DEF FlowRecord
    <3>2. /\ r.pc = "match" /\ r.kind = flow[f].kind /\ r.gen = flow[f].gen
          /\ r.check = flow[f].check /\ r.sent = flow[f].sent /\ r.via = flow[f].via
          /\ r.row = flow[f].row /\ r.base = chain
      BY <1>1 DEF FlowRecord
    <3> HIDE DEF r
    <3> QED BY <1>1, <2>2, <2>3, <3>1, <3>2, LoadStep
  <2> QED BY <1>5, <2>1, <2>2 DEF LoadChain
<1> QED BY <1>2, <1>3, <1>4, <1>5

(* Comparing the stores with the chain and the row with the proposal.       *)
LEMMA MatchStep ==
    ASSUME IndInv, NEW f \in Flows, NEW row \in {"true", "other"}, Match(f, row)
    PROVE  IndInv'
<1>1. flow[f] \in FlowRecord /\ flow[f].kind \in Kinds
  BY AtStep
<1>2. flow[f].pc = "match" /\ UNCHANGED <<world, tab, compiler>>
  BY DEF Match, world, tab, compiler
<1>3. CASE Exported(f) /\ Goto(f, "deliver") /\ UNCHANGED panel
  <2>1. f = "offline"
    BY <1>3, AtStep DEF Exported, Prepared, Flows
  <2>2. /\ "deliver" \in Pcs \ {"idle", "sent", "panel", "recover"}
        /\ "deliver" \notin Holding /\ "deliver" \notin Loading
    BY DEF Pcs, Holding, Loading
  <2> QED BY <1>2, <1>3, <2>1, <2>2, AtStep, Jumped DEF compiler
<1>4. CASE Recover(f, "stores") \/ Recover(f, "existing")
  BY <1>2, <1>4, Recovery
<1>5. CASE Finish(f, "none") /\ UNCHANGED panel
  BY <1>2, <1>5, AtStep, Ended DEF compiler
<1> DEFINE pc == Following(flow[f].kind, "match")
           r == [flow[f] EXCEPT !.row = row, !.state = None, !.pc = pc]
<1>6. CASE AssertSelected(flow[f].kind, row) /\ Put(f, r) /\ UNCHANGED panel
  <2>1. flow[f].kind # "deploy"
    BY <1>2, AtStep DEF Accounted, Loading
  <2>2. pc \in {"sign", "build"}
    BY <1>1, <2>1, Routes
  <2> HIDE DEF pc
  <2>3. pc \in Pcs /\ pc \notin Holding /\ pc \notin Loading /\ pc \notin Proved
    BY <2>2 DEF Pcs, Holding, Loading, Proved
  <2>4. r \in FlowRecord
    BY <1>1, <2>3 DEF FlowRecord
  <2>5. /\ r.pc = pc /\ r.kind = flow[f].kind /\ r.gen = flow[f].gen
        /\ r.check = flow[f].check /\ r.sent = flow[f].sent /\ r.via = flow[f].via
        /\ r.row = row /\ r.base = flow[f].base
    BY <1>1 DEF FlowRecord
  <2>6. flow' = [flow EXCEPT ![f] = r]
    BY <1>6 DEF Put
  <2> HIDE DEF r
  <2>7. SameFlow(flow[f], r)
    BY <1>2, <2>2, <2>3, <2>5, AtStep DEF SameFlow, Accounted
  <2>8. f = "online" => Prepared(r, key')
    BY <1>2, <1>6, <2>1, <2>3, <2>5, AtStep DEF Prepared, AssertSelected, compiler
  <2> QED BY <1>2, <1>6, <2>2, <2>3, <2>4, <2>5, <2>6, <2>7, <2>8, AtStep, Advanced DEF compiler
<1> QED BY <1>3, <1>4, <1>5, <1>6 DEF Match

(* The wallet signs the proposal's hash or refuses.                         *)
LEMMA SignStep ==
    ASSUME IndInv, NEW f \in Flows, NEW agrees \in BOOLEAN, Sign(f, agrees)
    PROVE  IndInv'
<1>1. flow[f].pc = "sign" /\ UNCHANGED <<world, panel, tab, compiler>>
  BY DEF Sign, world, panel, tab, compiler
<1>2. CASE Goto(f, "build")
  <2>1. /\ "build" \in Pcs \ {"idle", "sent", "panel", "recover"}
        /\ "build" \notin Holding /\ "build" \notin Loading /\ "build" \notin Proved
    BY DEF Pcs, Holding, Loading, Proved
  <2>2. /\ f = "online" => key' = "expected"
        /\ flow[f].kind = "deploy" \/ flow[f].base \in Vault
    BY <1>1, AtStep DEF Prepared, Accounted, compiler
  <2> QED BY <1>1, <1>2, <2>1, <2>2, AtStep, Jumped DEF compiler
<1>3. CASE Finish(f, "none")
  BY <1>1, <1>3, AtStep, Ended DEF compiler
<1> QED BY <1>2, <1>3 DEF Sign

(* Building and proving, on the accounts fetched again or loaded before.    *)
LEMMA BuildStep ==
    ASSUME IndInv, NEW f \in Flows, Build(f)
    PROVE  IndInv'
<1>1. flow[f] \in FlowRecord /\ flow[f].kind \in Kinds /\ chain \in Vault
  BY AtStep
<1>2. flow[f].pc = "build" /\ UNCHANGED <<world, tab, compiler>>
  BY DEF Build, world, tab, compiler
<1>3. CASE Recover(f, "stores")
  BY <1>2, <1>3, Recovery
<1> DEFINE b == IF Handler[flow[f].kind].rereads THEN chain ELSE flow[f].base
<1>4. CASE Prove(f, b) /\ UNCHANGED panel
  <2>0. b = chain \/ b = flow[f].base
    OBVIOUS
  <2> HIDE DEF b
  <2>1. CASE Finish(f, "none")
    BY <1>2, <1>4, <2>1, AtStep, Ended DEF compiler
  <2> DEFINE p == IF flow[f].kind = "deploy" THEN flow[f].base
                  ELSE Preconditions(flow[f].kind, b)
             r == [flow[f] EXCEPT !.pc = "gate", !.base = p]
  <2>2. CASE Provable(flow[f].kind, flow[f].stores, b) /\ Put(f, r)
    <3>1. flow[f].base \in Vault \cup {None} /\ flow[f].stores \in StoreRecord \cup {None}
      BY <1>1 DEF FlowRecord
    <3>2. flow[f].kind # "deploy" => b \in Vault
      BY <1>1, <1>2, <2>0, AtStep DEF Accounted
    <3>3. p \in Vault \cup {None} /\ Provable(flow[f].kind, flow[f].stores, p)
      <4>1. CASE flow[f].kind = "deploy"
        BY <3>1, <4>1 DEF Provable
      <4>2. CASE flow[f].kind # "deploy"
        BY <1>1, <2>2, <3>2, <4>2, PreconditionsSuffice
      <4> QED BY <4>1, <4>2
    <3> HIDE DEF p
    <3>4. "gate" \in Pcs /\ "gate" \notin Holding /\ "gate" \notin Loading
      BY DEF Pcs, Holding, Loading
    <3>5. r \in FlowRecord
      BY <1>1, <3>3, <3>4 DEF FlowRecord
    <3>6. /\ r.pc = "gate" /\ r.kind = flow[f].kind /\ r.gen = flow[f].gen
          /\ r.check = flow[f].check /\ r.sent = flow[f].sent /\ r.via = flow[f].via
          /\ r.row = flow[f].row /\ r.base = p /\ r.stores = flow[f].stores
      BY <1>1 DEF FlowRecord
    <3>7. flow' = [flow EXCEPT ![f] = r]
      BY <2>2 DEF Put
    <3> HIDE DEF r
    <3>8. SameFlow(flow[f], r)
      BY <1>2, <3>4, <3>6 DEF SameFlow
    <3>9. f = "online" => Prepared(r, key')
      BY <1>2, <3>3, <3>6, AtStep DEF Prepared, compiler
    <3> QED BY <1>2, <1>4, <3>4, <3>5, <3>6, <3>7, <3>8, <3>9, AtStep, Advanced DEF compiler
  <2> QED BY <1>4, <2>1, <2>2 DEF Prove
<1> QED BY <1>3, <1>4 DEF Build

(* A refused fee payer, a delivered file and a returned hash end the flow.  *)
LEMMA EndSteps ==
    ASSUME IndInv, NEW f \in Flows,
           SignFeePayerRefused(f) \/ Deliver(f) \/ Return(f) \/ BeforeCheckFails(f)
    PROVE  IndInv'
<1>1. CASE SignFeePayerRefused(f)
  BY <1>1, AtStep, Ended DEF SignFeePayerRefused, world, panel, tab, compiler
<1>2. CASE Deliver(f)
  <2>1. Finish(f, "downloaded") \/ Finish(f, "none")
    BY <1>2 DEF Deliver
  <2>2. flow[f].pc = "deliver" /\ UNCHANGED <<world, panel, tab, compiler>>
    BY <1>2 DEF Deliver, world, panel, tab, compiler
  <2> QED BY <2>1, <2>2, AtStep, Ended DEF compiler
<1>3. CASE Return(f)
  BY <1>3, AtStep, Ended DEF Return, Result, world, panel, tab, compiler
<1>4. CASE BeforeCheckFails(f)
  <2>1. /\ flow[f].pc = "check" /\ flow[f].pc \in Holding /\ Finish(f, "none") /\ Release
        /\ UNCHANGED <<world, tab, compiler>>
    BY <1>4 DEF BeforeCheckFails, Holding, world, tab, compiler
  <2> QED BY <2>1, AtStep, Ended DEF compiler
<1> QED BY <1>1, <1>2, <1>3, <1>4

(* The check starts on the page the action was started on, or the action    *)
(* ends.                                                                    *)
LEMMA EnterGateStep ==
    ASSUME IndInv, NEW f \in Flows, EnterGate(f)
    PROVE  IndInv'
<1>1. flow[f] \in FlowRecord /\ Accounted(flow[f], generation)
  BY AtStep
<1>2. flow[f].pc = "gate" /\ UNCHANGED <<world, tab, compiler>>
  BY DEF EnterGate, world, tab, compiler
<1>3. CASE Finish(f, "none") /\ UNCHANGED panel
  BY <1>2, <1>3, AtStep, Ended DEF compiler
<1> DEFINE r == [flow[f] EXCEPT !.pc = "check", !.check = generation]
<1>4. CASE MayCheck(f) /\ Put(f, r) /\ gate' = f /\ UNCHANGED choice
  <2>1. generation = flow[f].check /\ gate = None /\ generation \in Nat
    BY <1>1, <1>4, PreflightConstants DEF MayCheck, Accounted, IndInv, Shapes
  <2>2. "check" \in Pcs /\ "check" \notin Loading /\ "check" \in Proved /\ "gate" \in Proved
    BY DEF Pcs, Loading, Proved
  <2>3. r \in FlowRecord
    BY <1>1, <2>1, <2>2 DEF FlowRecord
  <2>4. /\ r.pc = "check" /\ r.kind = flow[f].kind /\ r.gen = flow[f].gen
        /\ r.check = flow[f].check /\ r.sent = flow[f].sent /\ r.via = flow[f].via
        /\ r.row = flow[f].row /\ r.base = flow[f].base /\ r.stores = flow[f].stores
    BY <1>1, <2>1 DEF FlowRecord
  <2>5. flow' = [flow EXCEPT ![f] = r]
    BY <1>4 DEF Put
  <2> HIDE DEF r
  <2>6. SameFlow(flow[f], r)
    BY <1>2, <2>2, <2>4 DEF SameFlow
  <2>7. f = "online" => Prepared(r, key')
    BY <1>2, <2>2, <2>4, AtStep DEF Prepared, compiler
  <2>8. choice' \in Flows \cup {None}
    BY <1>4 DEF IndInv, Shapes
  <2> QED BY <1>2, <1>4, <2>1, <2>3, <2>4, <2>5, <2>6, <2>7, <2>8, Asked
<1> QED BY <1>3, <1>4 DEF EnterGate

(* The guidance is one of the panel's.                                      *)
LEMMA Guidance ==
    ASSUME NEW kind
    PROVE  AssessRetry(kind) \in {"unknown", "executed", "invalid", "existing", "eligible"}
BY DEF AssessRetry

(* The check sends, assesses, asks or ends.                                 *)
LEMMA CheckStep ==
    ASSUME IndInv, NEW f \in Flows, NEW answered \in BOOLEAN, Check(f, answered)
    PROVE  IndInv'
<1>1. flow[f].pc = "check" /\ UNCHANGED <<world, tab, compiler>>
  BY DEF Check, world, tab, compiler
<1>2. flow[f].pc \in Holding /\ flow[f].pc \in Proved
  BY <1>1 DEF Holding, Proved
<1>3. CASE Finish(f, "none") /\ Release
  BY <1>1, <1>2, <1>3, AtStep, Ended DEF compiler
<1>k. f = "online" => key' = "expected"
  BY <1>1, AtStep DEF Prepared, compiler
<1>4. CASE Goto(f, "send") /\ Release
  <2>1. /\ "send" \in Pcs \ {"idle", "sent", "panel", "recover"}
        /\ "send" \notin Holding /\ "send" \notin Loading
    BY DEF Pcs, Holding, Loading
  <2> QED BY <1>1, <1>2, <1>k, <1>4, <2>1, AtStep, Jumped DEF compiler
<1>5. CASE Goto(f, "assess") /\ UNCHANGED panel
  <2>1. /\ "assess" \in Pcs \ {"idle", "sent", "panel", "recover"} /\ "assess" \notin Loading
    BY DEF Pcs, Loading
  <2> QED BY <1>1, <1>2, <1>k, <1>5, <2>1, AtStep, Jumped DEF compiler
<1>6. CASE Ask(f, "unknown")
  BY <1>1, <1>6, Asking
<1> QED BY <1>3, <1>4, <1>5, <1>6 DEF Check

(* The assessment asks.                                                     *)
LEMMA AssessStep ==
    ASSUME IndInv, NEW f \in Flows, Assess(f)
    PROVE  IndInv'
<1>1. flow[f].pc = "assess" /\ UNCHANGED <<world, tab, compiler>>
  BY DEF Assess, world, tab, compiler
<1>2. \/ Ask(f, "unknown") \/ Ask(f, "review")
      \/ Ask(f, AssessRetry(flow[f].kind))
  BY DEF Assess
<1> DEFINE a == AssessRetry(flow[f].kind)
<1>3. a \in {"unknown", "executed", "invalid", "existing", "eligible"}
  BY Guidance
<1>4. Ask(f, "unknown") \/ Ask(f, "review") \/ Ask(f, a)
  BY <1>2
<1> HIDE DEF a
<1> QED BY <1>1, <1>3, <1>4, Asking

(* The panel's answer: another check, a rebuild, or the end.                *)
LEMMA DecidedStep ==
    ASSUME IndInv, NEW f \in Flows, Decided(f)
    PROVE  IndInv'
<1>0. flow[f] \in FlowRecord
  BY AtStep
<1>1. flow[f].pc = "decided" /\ UNCHANGED <<world, tab, compiler>>
  BY DEF Decided, world, tab, compiler
<1>2. flow[f].pc \in Holding /\ flow[f].pc \in Proved
  BY <1>1 DEF Holding, Proved
<1>k. f = "online" => key' = "expected"
  BY <1>1, AtStep DEF Prepared, compiler
<1>3. CASE Goto(f, "check") /\ choice' = None /\ UNCHANGED gate
  <2> DEFINE r == [flow[f] EXCEPT !.pc = "check"]
  <2>1. gate' = f
    BY <1>2, <1>3 DEF IndInv, GateHeld
  <2>2. "check" \in Pcs /\ "check" \notin Loading /\ "check" \in Proved
    BY DEF Pcs, Loading, Proved
  <2>3. r \in FlowRecord
    BY <1>0, <2>2 DEF FlowRecord
  <2>4. /\ r.pc = "check" /\ r.kind = flow[f].kind /\ r.gen = flow[f].gen
        /\ r.check = flow[f].check /\ r.sent = flow[f].sent /\ r.via = flow[f].via
        /\ r.row = flow[f].row /\ r.base = flow[f].base /\ r.stores = flow[f].stores
    BY <1>0 DEF FlowRecord
  <2>5. flow' = [flow EXCEPT ![f] = r]
    BY <1>3 DEF Goto, Put
  <2> HIDE DEF r
  <2>6. SameFlow(flow[f], r)
    BY <1>1, <2>2, <2>4 DEF SameFlow
  <2>7. f = "online" => Prepared(r, key')
    BY <1>2, <1>k, <2>2, <2>4, AtStep DEF Prepared
  <2> QED BY <1>1, <1>2, <1>3, <2>1, <2>3, <2>4, <2>5, <2>6, <2>7, Asked
<1>4. CASE Goto(f, "reassess") /\ Release
  <2>1. /\ "reassess" \in Pcs \ {"idle", "sent", "panel", "recover"} /\ "reassess" \notin Loading
        /\ "reassess" \notin Holding /\ "reassess" \notin Proved
    BY DEF Pcs, Loading, Holding, Proved
  <2> QED BY <1>1, <1>2, <1>k, <1>4, <2>1, AtStep, Jumped DEF compiler
<1>5. CASE Finish(f, "none") /\ Release
  BY <1>1, <1>2, <1>5, AtStep, Ended DEF compiler
<1> QED BY <1>3, <1>4, <1>5 DEF Decided

(* A rebuild starts the builder again, or makes an offline request again.   *)
LEMMA ReassessStep ==
    ASSUME IndInv, NEW f \in Flows, Reassess(f)
    PROVE  IndInv'
<1>0. flow[f] \in FlowRecord
  BY AtStep
<1>1. flow[f].pc = "reassess" /\ UNCHANGED <<world, panel, tab, compiler>>
  BY DEF Reassess, world, panel, tab, compiler
<1>2. CASE Finish(f, "none")
  BY <1>1, <1>2, AtStep, Ended DEF compiler
<1>3. CASE Goto(f, "compile")
  <2>1. /\ "compile" \in Pcs \ {"idle", "sent", "panel", "recover"} /\ "compile" \notin Loading
        /\ "compile" \notin Holding /\ "compile" \notin Proved
    BY DEF Pcs, Loading, Holding, Proved
  <2> QED BY <1>1, <1>3, <2>1, AtStep, Jumped DEF compiler
<1> DEFINE r == [flow[f] EXCEPT !.pc = "events", !.via = "recreate"]
<1>4. CASE Uploaded(f) /\ Put(f, r)
  <2>1. f = "offline" /\ flow[f].kind # "deploy"
    BY <1>4, AtStep DEF Uploaded, Prepared, Flows, IndInv
  <2>2. "events" \in Pcs /\ "events" \notin Holding
    BY DEF Pcs, Holding
  <2>3. r \in FlowRecord
    BY <1>0, <2>2 DEF FlowRecord
  <2>4. /\ r.pc = "events" /\ r.kind = flow[f].kind /\ r.gen = flow[f].gen
        /\ r.check = flow[f].check /\ r.sent = flow[f].sent
    BY <1>0 DEF FlowRecord
  <2>5. flow' = [flow EXCEPT ![f] = r]
    BY <1>4 DEF Put
  <2> HIDE DEF r
  <2>6. SameFlow(flow[f], r)
    BY <1>1, <2>1, <2>4 DEF SameFlow
  <2> QED BY <1>1, <2>1, <2>2, <2>3, <2>4, <2>5, <2>6, AtStep, Advanced DEF compiler
<1> QED BY <1>2, <1>3, <1>4 DEF Reassess

(* The answer to a mismatch prepares again or ends.                         *)
LEMMA RecoveredStep ==
    ASSUME IndInv, NEW f \in Flows, Recovered(f)
    PROVE  IndInv'
<1>1. flow[f].pc = "recovered" /\ Release /\ UNCHANGED <<world, tab, compiler>>
  BY DEF Recovered, world, tab, compiler
<1>2. flow[f].pc \in Holding
  BY <1>1 DEF Holding
<1>3. CASE Finish(f, "none")
  BY <1>1, <1>2, <1>3, AtStep, Ended DEF compiler
<1>4. CASE Exported(f) /\ Goto(f, "events")
  <2>1. f = "offline" /\ flow[f].kind # "deploy"
    BY <1>4, AtStep DEF Exported, Prepared, Flows, IndInv
  <2>2. "events" \in Pcs \ {"idle", "sent", "panel", "recover"} /\ "events" \notin Holding
    BY DEF Pcs, Holding
  <2> QED BY <1>1, <1>2, <1>4, <2>1, <2>2, AtStep, Jumped DEF compiler
<1>5. CASE Goto(f, "compile")
  <2>1. /\ "compile" \in Pcs \ {"idle", "sent", "panel", "recover"} /\ "compile" \notin Loading
        /\ "compile" \notin Holding /\ "compile" \notin Proved
    BY DEF Pcs, Loading, Holding, Proved
  <2> QED BY <1>1, <1>2, <1>5, <2>1, AtStep, Jumped DEF compiler
<1> QED BY <1>3, <1>4, <1>5 DEF Recovered

(* The transaction is sent, once, or refused.                               *)
LEMMA SendStep ==
    ASSUME IndInv, NEW f \in Flows, NEW accepted \in BOOLEAN, Send(f, accepted)
    PROVE  IndInv'
<1>0. flow[f] \in FlowRecord /\ Accounted(flow[f], generation)
  BY AtStep
<1>1. flow[f].pc = "send" /\ UNCHANGED <<world, panel, tab, compiler>>
  BY DEF Send, world, panel, tab, compiler
<1>2. CASE Finish(f, "none")
  BY <1>1, <1>2, AtStep, Ended DEF compiler
<1> DEFINE n == flow[f].sent + 1
           r == [flow[f] EXCEPT !.pc = "sent", !.sent = n]
<1>3. CASE Put(f, r)
  <2>1. n = 1 /\ n \in 0 .. 1
    BY <1>0, <1>1 DEF Accounted
  <2> HIDE DEF n
  <2>2. "sent" \in Pcs /\ "sent" \notin Holding /\ "sent" \notin Loading /\ "send" \in Proved
    BY DEF Pcs, Holding, Loading, Proved
  <2>3. r \in FlowRecord
    BY <1>0, <2>1, <2>2 DEF FlowRecord
  <2>4. /\ r.pc = "sent" /\ r.kind = flow[f].kind /\ r.gen = flow[f].gen
        /\ r.check = flow[f].check /\ r.sent = 1 /\ r.via = flow[f].via
        /\ r.row = flow[f].row /\ r.base = flow[f].base /\ r.stores = flow[f].stores
    BY <1>0, <2>1 DEF FlowRecord
  <2>5. flow' = [flow EXCEPT ![f] = r]
    BY <1>3 DEF Put
  <2> HIDE DEF r
  <2>6. Accounted(r, generation)
    BY <1>0, <2>2, <2>4 DEF Accounted
  <2>7. f = "online" => Prepared(r, key')
    BY <1>1, <2>2, <2>4, AtStep DEF Prepared, compiler
  <2>8. GateHeld' /\ PanelAnswerable'
    BY <1>1, <2>2, <2>3, <2>4, <2>5, PanelKept DEF tab
  <2>9. /\ gate' \in Flows \cup {None} /\ choice' \in Flows \cup {None}
        /\ f = "offline" => r.kind # "deploy"
    BY <1>1, <2>4 DEF panel, IndInv, Shapes
  <2> QED BY <1>1, <2>3, <2>5, <2>6, <2>7, <2>8, <2>9, AtStep, FlowMoves DEF compiler
<1> QED BY <1>2, <1>3 DEF Send

-----------------------------------------------------------------------------
(* Whatever happens to a vault leaves it one.                               *)
LEMMA MovesVault ==
    ASSUME NEW v \in Vault, NEW m \in Moves(v)
    PROVE  m \in Vault
<1>1. /\ v.voters \in SUBSET Owners /\ v.owners \in SUBSET Owners
  BY DEF Vault
<1>2. CASE m \in {[v EXCEPT !.prop = "open", !.voters = {o}] : o \in {p \in {Proposer} : v.prop = "none"}}
  <2>1. m = [v EXCEPT !.prop = "open", !.voters = {Proposer}]
    BY <1>2
  <2>2. {Proposer} \in SUBSET Owners
    BY PreflightConstants
  <2> QED BY <2>1, <2>2 DEF Vault
<1>3. CASE m \in {[v EXCEPT !.voters = v.voters \cup {o}] : o \in {p \in v.owners \ v.voters : v.prop = "open"}}
  <2>1. PICK o \in v.owners : m = [v EXCEPT !.voters = v.voters \cup {o}]
    BY <1>3
  <2>2. v.voters \cup {o} \in SUBSET Owners
    BY <1>1
  <2> QED BY <2>1, <2>2 DEF Vault
<1>4. CASE m = [v EXCEPT !.prop = "executed", !.nonce = 1]
  <2>1. "executed" \in {"none", "open", "executed"} /\ 1 \in 0 .. 1
    OBVIOUS
  <2> QED BY <1>4, <2>1 DEF Vault
<1>5. CASE m = [v EXCEPT !.configNonce = 1, !.owners = v.owners \ {Actor}]
  <2> DEFINE o == v.owners \ {Actor}
  <2>1. o \in SUBSET Owners /\ 1 \in 0 .. 1
    BY <1>1
  <2>2. m = [v EXCEPT !.configNonce = 1, !.owners = o]
    BY <1>5
  <2> HIDE DEF o
  <2> QED BY <2>1, <2>2 DEF Vault
<1>6. CASE m = [v EXCEPT !.nonce = 1] \/ m = [v EXCEPT !.account = "bare"]
  BY <1>6 DEF Vault
<1>7. CASE m = [v EXCEPT !.late = TRUE]
  BY <1>7, Zenon DEF Vault
<1> QED BY <1>2, <1>3, <1>4, <1>5, <1>6, <1>7 DEF Moves

(* Nothing of the tab changes but the pages and the world around it.        *)
LEMMA WorldStep ==
    ASSUME IndInv, VaultMoves \/ Index \/ Mount
    PROVE  IndInv'
<1>1. flow' = flow /\ gate' = gate /\ choice' = choice /\ view' = view /\ generation' = generation
      /\ key' = key /\ cache' = cache
  BY DEF VaultMoves, Index, Mount, panel, tab, compiler
<1>2. hosts' \in 0 .. MaxHosts /\ hosts' >= hosts
  BY PreflightConstants DEF VaultMoves, Index, Mount, tab, IndInv, Shapes
<1>3. chain' \in Vault /\ indexed' \in Vault
  <2>1. CASE VaultMoves
    <3>1. PICK v \in Moves(chain) : chain' = v
      BY <2>1 DEF VaultMoves
    <3>2. v \in Vault
      BY <3>1, MovesVault DEF IndInv, Shapes
    <3> QED BY <2>1, <3>1, <3>2 DEF VaultMoves, IndInv, Shapes
  <2>2. CASE Index \/ Mount
    BY <2>2 DEF Index, Mount, world, IndInv, Shapes
  <2> QED BY <2>1, <2>2
<1>4. Shapes'
  BY <1>1, <1>2, <1>3 DEF IndInv, Shapes
<1>5. GateHeld' /\ PanelAnswerable'
  <2>1. Waiting' = Waiting
    BY <1>1 DEF Waiting
  <2>2. hosts \in Nat /\ hosts' \in Nat
    BY <1>2, PreflightConstants DEF IndInv, Shapes
  <2> QED BY <1>1, <1>2, <2>1, <2>2 DEF IndInv, GateHeld, PanelAnswerable
<1> QED BY <1>1, <1>4, <1>5 DEF IndInv

(* The panel is answered, by a button or because the last page is left.     *)
LEMMA ResolveStep ==
    ASSUME IndInv, NEW decision \in {"retry", "rebuild", "cancel"},
           flow' = Resolve(decision),
           UNCHANGED <<world, gate, choice, compiler>>,
           hosts' \in 0 .. MaxHosts, generation' \in 0 .. MaxLeaves, generation' >= generation
    PROVE  IndInv' /\ Waiting' = {}
<1>0. Waiting \subseteq {choice}
  BY DEF IndInv, PanelAnswerable
<1>s. Shapes'
  BY DEF IndInv, Shapes, world, compiler
<1>1. CASE choice \notin Waiting
  <2>1. flow' = flow /\ Waiting = {}
    BY <1>0, <1>1 DEF Resolve
  <2>2. Waiting' = {}
    BY <2>1 DEF Waiting
  <2>3. \A f \in Flows : Accounted(flow'[f], generation')
    <3> TAKE f \in Flows
    <3>1. Accounted(flow[f], generation) /\ flow[f].gen \in Nat
      BY DEF IndInv, FlowRecord
    <3>2. generation \in Nat /\ generation' \in Nat
      BY PreflightConstants DEF IndInv, Shapes
    <3> QED BY <2>1, <3>1, <3>2 DEF Accounted
  <2>4. GateHeld' /\ PanelAnswerable'
    BY <2>1, <2>2 DEF IndInv, GateHeld, PanelAnswerable
  <2> QED BY <1>s, <2>1, <2>2, <2>3, <2>4 DEF IndInv, compiler
<1>2. CASE choice \in Waiting
  <2> DEFINE f == choice
             pc == IF flow[f].pc = "panel" THEN "decided" ELSE "recovered"
             r == [flow[f] EXCEPT !.status = decision, !.pc = pc]
  <2>0. f \in Flows /\ flow[f] \in FlowRecord /\ flow[f].pc \in {"panel", "recover"}
    BY <1>2 DEF Waiting, IndInv
  <2>1. flow' = [flow EXCEPT ![f] = r]
    BY <1>2 DEF Resolve
  <2>p. /\ pc \in Pcs /\ pc \in Holding /\ flow[f].pc \in Holding /\ pc \notin Loading
        /\ pc \notin {"idle", "sent", "panel", "recover", "match", "sign", "build",
                      "target", "compile"}
        /\ pc \in Proved => flow[f].pc \in Proved
        /\ decision \in Statuses
    BY <2>0 DEF Pcs, Holding, Loading, Proved, Statuses
  <2> HIDE DEF pc
  <2>2. r \in FlowRecord
    BY <2>0, <2>p DEF FlowRecord
  <2>3. /\ r.pc = pc /\ r.kind = flow[f].kind /\ r.gen = flow[f].gen
        /\ r.check = flow[f].check /\ r.sent = flow[f].sent /\ r.via = flow[f].via
        /\ r.row = flow[f].row /\ r.base = flow[f].base /\ r.stores = flow[f].stores
    BY <2>0 DEF FlowRecord
  <2> HIDE DEF r
  <2>4. flow'[f] = r /\ \A g \in Flows \ {f} : flow'[g] = flow[g]
    BY <2>0, <2>1 DEF IndInv
  <2>5. flow' \in [Flows -> FlowRecord]
    BY <2>1, <2>2 DEF IndInv
  <2>6. Waiting' = {}
    BY <1>0, <2>p, <2>3, <2>4 DEF Waiting
  <2>7. \A g \in Flows : Accounted(flow'[g], generation')
    <3> TAKE g \in Flows
    <3>1. Accounted(flow[g], generation) /\ flow[g].gen \in Nat
      BY DEF IndInv, FlowRecord
    <3>2. generation \in Nat /\ generation' \in Nat
      BY PreflightConstants DEF IndInv, Shapes
    <3>3. Accounted(flow[g], generation')
      BY <3>1, <3>2 DEF Accounted
    <3>4. CASE g = f
      <4>1. SameFlow(flow[f], r)
        BY <2>0, <2>p, <2>3 DEF SameFlow
      <4> QED BY <2>4, <3>3, <3>4, <4>1, SameFlowAccounted
    <3>5. CASE g # f
      BY <2>4, <3>3, <3>5
    <3> QED BY <3>4, <3>5
  <2>8. Prepared(flow'["online"], key')
    <3>1. Prepared(flow["online"], key) /\ key' = key
      BY DEF IndInv, compiler
    <3>2. CASE f = "online"
      BY <2>0, <2>p, <2>3, <2>4, <3>1, <3>2 DEF Prepared
    <3>3. CASE f # "online"
      BY <2>4, <3>1, <3>3 DEF Flows
    <3> QED BY <3>2, <3>3
  <2>9. flow'["offline"].kind # "deploy"
    BY <2>0, <2>3, <2>4 DEF IndInv, Flows
  <2>10. GateHeld' /\ PanelAnswerable'
    BY <2>p, <2>3, <2>4, <2>6 DEF IndInv, GateHeld, PanelAnswerable
  <2> QED BY <1>s, <2>5, <2>6, <2>7, <2>8, <2>9, <2>10 DEF IndInv
<1> QED BY <1>1, <1>2

(* A page with a panel is left, the last one or not.                        *)
LEMMA UnmountStep ==
    ASSUME IndInv, Unmount
    PROVE  IndInv'
<1>1. /\ hosts > 0 /\ hosts' = hosts - 1 /\ generation < MaxLeaves /\ generation' = generation + 1
      /\ UNCHANGED <<world, gate, choice, compiler>>
  BY DEF Unmount, world, compiler
<1>2. /\ hosts \in Nat /\ hosts' \in 0 .. MaxHosts /\ generation \in Nat
      /\ generation' \in 0 .. MaxLeaves /\ generation' >= generation
  BY <1>1, PreflightConstants DEF IndInv, Shapes
<1>3. CASE hosts = 1
  BY <1>1, <1>2, <1>3, ResolveStep DEF Unmount, CancelPanel
<1>4. CASE hosts # 1
  <2>1. flow' = flow /\ view' = view
    BY <1>4 DEF Unmount
  <2>2. hosts' > 0
    BY <1>1, <1>2, <1>4
  <2>3. Shapes'
    BY <1>1, <1>2 DEF IndInv, Shapes, world, compiler
  <2>4. \A f \in Flows : Accounted(flow'[f], generation')
    <3> TAKE f \in Flows
    <3>1. Accounted(flow[f], generation) /\ flow[f].gen \in Nat
      BY DEF IndInv, FlowRecord
    <3> QED BY <1>1, <1>2, <2>1, <3>1 DEF Accounted
  <2>5. GateHeld' /\ PanelAnswerable'
    <3>1. Waiting' = Waiting
      BY <2>1 DEF Waiting
    <3> QED BY <1>1, <2>1, <2>2, <3>1 DEF IndInv, GateHeld, PanelAnswerable
  <2> QED BY <1>1, <2>1, <2>3, <2>4, <2>5 DEF IndInv, compiler
<1> QED BY <1>3, <1>4

(* An action is started, a request is exported, or a transaction that was   *)
(* signed offline is handed to the check.                                   *)
LEMMA StartSteps ==
    ASSUME IndInv,
           \/ \E kind \in Kinds : Start(kind)
           \/ StartExport
           \/ \E kind \in Uploads, base \in {chain, indexed} : StartUpload(kind, base)
    PROVE  IndInv'
<1>0. /\ generation \in Nat /\ key \in {"none", "expected"} /\ cache \in {"own", "swapped"}
      /\ gate \in Flows \cup {None} /\ choice \in Flows \cup {None}
      /\ "online" \in Flows /\ "offline" \in Flows
      /\ chain \in Vault /\ indexed \in Vault
  BY PreflightConstants DEF IndInv, Shapes, Flows
<1>i. Idle \in FlowRecord
  <2>1. 0 \in 0 .. 1 /\ "none" \in {"none", "sent", "downloaded"}
    OBVIOUS
  <2> QED BY <2>1, IdleRecord
<1>1. ASSUME NEW kind \in Kinds, Start(kind)
      PROVE  IndInv'
  <2> DEFINE pc == Head(Handler[kind].steps)
             r == [Idle EXCEPT !.pc = pc, !.kind = kind, !.gen = generation, !.check = generation]
  <2>1. /\ flow' = [flow EXCEPT !["online"] = r]
        /\ UNCHANGED <<world, panel, tab, compiler>>
    BY <1>1 DEF Start, Put, world, panel, tab, compiler
  <2>2. pc \in {"compile", "target"}
    BY Routes
  <2> HIDE DEF pc
  <2>3. /\ pc \in Pcs /\ pc \notin Holding /\ pc \notin Loading /\ pc \notin Proved
        /\ pc \notin {"idle", "sent", "panel", "recover", "match", "sign", "build"}
    BY <2>2 DEF Pcs, Holding, Loading, Proved
  <2>4. r \in FlowRecord
    BY <1>0, <1>i, <2>3 DEF FlowRecord
  <2>5. /\ r.pc = pc /\ r.kind = kind /\ r.gen = generation /\ r.check = generation
        /\ r.sent = 0 /\ r.via = "wallet" /\ r.row = "true"
    BY DEF Idle
  <2> HIDE DEF r
  <2>6. Accounted(r, generation)
    BY <1>0, <2>3, <2>5 DEF Accounted
  <2>7. Prepared(r, key')
    BY <2>2, <2>3, <2>5 DEF Prepared
  <2>8. GateHeld' /\ PanelAnswerable'
    BY <1>0, <2>1, <2>3, <2>4, <2>5, PanelKept DEF tab
  <2> QED BY <1>0, <2>1, <2>4, <2>6, <2>7, <2>8, FlowMoves DEF compiler, panel
<1>2. ASSUME StartExport
      PROVE  IndInv'
  <2> DEFINE r == [Idle EXCEPT !.pc = "events", !.via = "export",
                               !.gen = generation, !.check = generation]
  <2>1. /\ flow' = [flow EXCEPT !["offline"] = r]
        /\ UNCHANGED <<world, panel, tab, compiler>>
    BY <1>2 DEF StartExport, Put, world, panel, tab, compiler
  <2>3. "events" \in Pcs /\ "events" \notin Holding
    BY DEF Pcs, Holding
  <2>4. r \in FlowRecord
    BY <1>0, <1>i, <2>3 DEF FlowRecord
  <2>5. /\ r.pc = "events" /\ r.kind = "propose" /\ r.gen = generation /\ r.check = generation
        /\ r.sent = 0
    BY DEF Idle
  <2> HIDE DEF r
  <2>6. Accounted(r, generation)
    BY <1>0, <2>5 DEF Accounted
  <2>8. GateHeld' /\ PanelAnswerable'
    BY <1>0, <2>1, <2>3, <2>4, <2>5, PanelKept DEF tab
  <2>9. r.kind # "deploy"
    BY <2>5
  <2> QED BY <1>0, <2>1, <2>4, <2>6, <2>8, <2>9, FlowMoves DEF compiler, panel
<1>3. ASSUME NEW kind \in Uploads, NEW base \in {chain, indexed}, StartUpload(kind, base)
      PROVE  IndInv'
  <2> DEFINE p == Preconditions(kind, base)
             r == [Idle EXCEPT !.pc = "check", !.kind = kind, !.via = "upload",
                               !.gen = generation, !.check = generation, !.base = p]
  <2>1. /\ flow' = [flow EXCEPT !["offline"] = r]
        /\ gate = None /\ gate' = "offline" /\ choice' = choice
        /\ UNCHANGED <<world, tab, compiler>>
    BY <1>3 DEF StartUpload, Put, world, tab, compiler
  <2>2. kind \in Kinds /\ kind # "deploy"
    BY PreflightConstants DEF Kinds
  <2>p. p \in Vault
    <3>1. base \in Vault
      BY <1>0
    <3>2. p = [base EXCEPT !.account = "none", !.late = FALSE]
      BY <2>2 DEF Preconditions
    <3> QED BY <3>1, <3>2, Zenon DEF Vault
  <2> HIDE DEF p
  <2>3. "check" \in Pcs /\ "check" \notin Loading
    BY DEF Pcs, Loading
  <2>4. r \in FlowRecord
    BY <1>0, <1>i, <2>2, <2>p, <2>3 DEF FlowRecord
  <2>5. /\ r.pc = "check" /\ r.kind = kind /\ r.gen = generation /\ r.check = generation
        /\ r.sent = 0
    BY DEF Idle
  <2> HIDE DEF r
  <2>6. Accounted(r, generation)
    BY <1>0, <2>3, <2>5 DEF Accounted
  <2>8. GateHeld' /\ PanelAnswerable'
    BY <1>0, <2>1, <2>4, <2>5, PanelTaken
  <2>9. r.kind # "deploy"
    BY <2>2, <2>5
  <2> QED BY <1>0, <2>1, <2>4, <2>6, <2>8, <2>9, FlowMoves DEF compiler
<1> QED BY <1>1, <1>2, <1>3

(* A button of the panel is pressed.                                        *)
LEMMA ChooseStep ==
    ASSUME IndInv, NEW decision \in {"retry", "rebuild", "cancel"}, Choose(decision)
    PROVE  IndInv'
<1>1. /\ flow' = Resolve(decision) /\ UNCHANGED <<world, gate, choice, compiler>>
      /\ hosts' = hosts /\ generation' = generation
  BY DEF Choose, world, panel, tab, compiler
<1>2. /\ hosts' \in 0 .. MaxHosts /\ generation' \in 0 .. MaxLeaves /\ generation' >= generation
  BY <1>1, PreflightConstants DEF IndInv, Shapes
<1> QED BY <1>1, <1>2, ResolveStep

(* The invariant holds at first ...                                         *)
LEMMA InitIndInv == Init => IndInv
<1> SUFFICES ASSUME Init PROVE IndInv
  OBVIOUS
<1>1. chain \in Vault /\ indexed \in Vault
  <2>1. {Proposer} \in SUBSET Owners /\ "open" \in {"none", "open", "executed"}
    BY PreflightConstants
  <2>2. [Fresh EXCEPT !.prop = "open", !.voters = {Proposer}] \in Vault
    BY <2>1, FreshVault DEF Vault
  <2> QED BY <2>2, FreshVault DEF Init
<1>2. Shapes
  <2>1. hosts \in 0 .. MaxHosts /\ generation \in 0 .. MaxLeaves
    BY PreflightConstants DEF Init
  <2> QED BY <1>1, <2>1 DEF Init, Shapes
<1>3. Idle \in FlowRecord
  <2>1. 0 \in 0 .. 1 /\ "none" \in {"none", "sent", "downloaded"}
    OBVIOUS
  <2> QED BY <2>1, IdleRecord
<1>4. flow \in [Flows -> FlowRecord] /\ \A f \in Flows : flow[f] = Idle
  BY <1>3 DEF Init
<1>5. Accounted(Idle, generation) /\ Prepared(Idle, key)
  BY DEF Init, Idle, Accounted, Prepared, Loading, Proved
<1>6. Idle.kind # "deploy" /\ Idle.pc \notin Holding /\ Idle.pc \notin {"panel", "recover"}
  BY DEF Idle, Holding
<1>7. Waiting = {} /\ GateHeld
  BY <1>4, <1>6 DEF Waiting, GateHeld
<1>8. PanelAnswerable
  BY <1>7 DEF PanelAnswerable
<1> QED BY <1>2, <1>4, <1>5, <1>6, <1>7, <1>8 DEF IndInv, Flows

(* ... and every step keeps it.                                             *)
LEMMA NextIndInv == IndInv /\ [Next]_vars => IndInv'
<1> SUFFICES ASSUME IndInv, [Next]_vars PROVE IndInv'
  OBVIOUS
<1>1. CASE VaultMoves \/ Index \/ Mount
  BY <1>1, WorldStep
<1>2. CASE Unmount
  BY <1>2, UnmountStep
<1>3. CASE \/ \E kind \in Kinds : Start(kind)
           \/ StartExport
           \/ \E kind \in Uploads, base \in {chain, indexed} : StartUpload(kind, base)
  BY <1>3, StartSteps
<1>4. ASSUME NEW f \in Flows, Step(f)
      PROVE  IndInv'
  <2>1. CASE Compile(f)
    BY <2>1, CompileStep
  <2>2. CASE ReadTarget(f) \/ ReadState(f) \/ LoadEvents(f) \/ LoadChain(f)
    BY <2>2, ReadSteps
  <2>3. CASE \E row \in {"true", "other"} : Match(f, row)
    BY <2>3, MatchStep
  <2>4. ASSUME NEW agrees \in BOOLEAN, Sign(f, agrees) PROVE IndInv'
    BY <2>4, SignStep
  <2>5. ASSUME NEW agrees \in BOOLEAN, Send(f, agrees) PROVE IndInv'
    BY <2>5, SendStep
  <2>6. CASE Build(f)
    BY <2>6, BuildStep
  <2>7. CASE SignFeePayerRefused(f) \/ Deliver(f) \/ Return(f) \/ BeforeCheckFails(f)
    BY <2>7, EndSteps
  <2>8. CASE EnterGate(f)
    BY <2>8, EnterGateStep
  <2>9. ASSUME NEW answered \in BOOLEAN, Check(f, answered) PROVE IndInv'
    BY <2>9, CheckStep
  <2>10. CASE Assess(f)
    BY <2>10, AssessStep
  <2>11. CASE Decided(f)
    BY <2>11, DecidedStep
  <2>12. CASE Reassess(f)
    BY <2>12, ReassessStep
  <2>13. CASE Recovered(f)
    BY <2>13, RecoveredStep
  <2> QED BY <1>4, <2>1, <2>2, <2>3, <2>4, <2>5, <2>6, <2>7, <2>8, <2>9, <2>10, <2>11,
             <2>12, <2>13 DEF Step
<1>5. CASE \E decision \in {"retry", "rebuild", "cancel"} : Choose(decision)
  BY <1>5, ChooseStep
<1>6. CASE UNCHANGED vars
  <2>1. /\ flow' = flow /\ gate' = gate /\ choice' = choice /\ view' = view /\ hosts' = hosts
        /\ generation' = generation /\ key' = key /\ cache' = cache
        /\ chain' = chain /\ indexed' = indexed
    BY <1>6 DEF vars
  <2> QED BY <2>1 DEF IndInv, Shapes, GateHeld, PanelAnswerable, Waiting
<1> QED BY <1>1, <1>2, <1>3, <1>4, <1>5, <1>6 DEF Next

-----------------------------------------------------------------------------
(* In every state of a tab the invariant holds: what each flow has loaded,  *)
(* compared, proved and sent matches the step it is at.                     *)
THEOREM Bookkeeping == Spec => []IndInv
BY InitIndInv, NextIndInv, PTL DEF Spec

(* However exports, uploads and actions of one tab interleave, and however  *)
(* often its pages are left, a flow that waits on the one panel of          *)
(* preflight-flow.ts is the one its buttons answer, on an open page.        *)
THEOREM PanelStaysAnswerable == Spec => []PanelAnswerable
<1>1. IndInv => PanelAnswerable
  BY DEF IndInv
<1> QED BY <1>1, Bookkeeping, PTL

(* No retry, rebuild or leaving of a page makes the tab broadcast twice or  *)
(* report a broadcast as failed.                                            *)
THEOREM SentAtMostOnce == Spec => []SentOnceAndKept
<1>1. IndInv => SentOnceAndKept
  <2> SUFFICES ASSUME IndInv, NEW f \in Flows
               PROVE  /\ flow[f].sent = 1 => flow[f].pc \in {"sent", "idle"}
                      /\ flow[f].pc = "idle" => ((flow[f].result = "sent") <=> (flow[f].sent = 1))
    BY DEF SentOnceAndKept
  <2> QED BY AtStep DEF Accounted
<1> QED BY <1>1, Bookkeeping, PTL

(* Every transaction this tab proves and sends was proved with the expected *)
(* key for the selected proposal, on stores and state the contract accepts, *)
(* and was checked on the page that started it, however the vault moved in  *)
(* between.                                                                 *)
THEOREM OnlyPreparedSent == Spec => []SentAsPrepared
<1>1. IndInv => SentAsPrepared
  <2> SUFFICES ASSUME IndInv, NEW f \in Flows, flow[f].pc \in {"send", "sent"}
               PROVE  /\ flow[f].check = flow[f].gen
                      /\ f = "online" =>
                           /\ key = "expected"
                           /\ flow[f].row = "true" \/ flow[f].kind \in {"propose", "deploy"}
                           /\ flow[f].kind # "deploy" =>
                                Provable(flow[f].kind, flow[f].stores, flow[f].base)
    BY DEF SentAsPrepared
  <2>1. flow[f].pc \in Proved
    BY DEF Proved
  <2> QED BY <2>1, AtStep DEF Accounted, Prepared
<1> QED BY <1>1, Bookkeeping, PTL
=============================================================================
