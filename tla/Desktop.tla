------------------------------ MODULE Desktop -------------------------------
(***************************************************************************)
(* The desktop shell (desktop/src/main.ts): it keeps config.json and the     *)
(* SQLite index across launches, starts the lite backend and the UI server   *)
(* in its own process, falls back to the setup window when that fails, and   *)
(* replaces the endpoints from that window or from the settings.  It may be  *)
(* closed or killed at every await, and updated between launches.  The       *)
(* wallet requests of its main window are module AuroBridge.                 *)
(***************************************************************************)
EXTENDS AuroBridge, Integers

CONSTANTS
    Endpoints,      \* pairs of a node and an archive
    Networks,       \* networks a node may report
    BuildNetwork,   \* BUILD_NETWORK_DOMAIN
    Heights,        \* block heights a node or an archive may report
    MaxLag,         \* ARCHIVE_MAX_LAG_BLOCKS
    Statements,     \* statements of schema.sql
    Builds,         \* releases, each with its own schema.sql
    RemovalFails    \* whether the file system may refuse to remove the index

ASSUME DesktopConstants ==
    /\ BuildNetwork \in Networks /\ "mainnet" \in Networks
    /\ Heights \subseteq Nat /\ MaxLag \in Nat
    /\ RemovalFails \in BOOLEAN
    /\ Statements \in Nat \ {0} /\ Builds \in Nat \ {0}
    /\ None \notin Endpoints /\ None \notin Networks /\ None \notin Heights

VARIABLES
    config,         \* config.json
    db,             \* minaguard.db
    build,          \* the release installed
    flow,           \* how far the process is
    job,            \* the start, save or change under way
    currentConfig,  \* main.ts: what the window and its CSP are told
    setupWindow,
    mainWindow,
    backend,        \* main.ts: the handle to stop the indexer by
    child,          \* main.ts: nextChild
    indexer,        \* the indexer whose timer runs: its endpoints
    ticks           \* ticks in flight: the endpoints each reads from

disk == <<config, db, build>>
windows == <<setupWindow, mainWindow>>
services == <<backend, child, indexer>>
vars == <<disk, flow, job, currentConfig, windows, services, ticks, bridge>>

Configs == [ep : Endpoints, network : Networks]

Databases ==
    [schema : 1..Builds,            \* the release whose tables it has
     tables : 1..Statements,        \* how many of them
     stamp : 0..Builds,             \* PRAGMA user_version, 0 if never set
     rows : SUBSET Endpoints]       \* endpoints its rows were read from

Jobs ==
    [kind : {"boot", "save", "change"},
     step : {"verify", "stop", "drop", "persist", "prepare", "schema", "stamp",
             "connect", "index", "ui", "listen", "undo"},
     ep : Endpoints, network : Networks, fresh : BOOLEAN]

ASSUME NothingIsNone == None \notin Configs /\ None \notin Databases /\ None \notin Jobs

TypeOK ==
    /\ config \in Configs \cup {None}
    /\ db \in Databases \cup {None}
    /\ build \in 1..Builds
    /\ flow \in {"off", "boot", "setup", "main", "quit"}
    /\ job \in Jobs \cup {None}
    /\ currentConfig \in Configs \cup {None}
    /\ setupWindow \in {"none", "shown", "hidden"}
    /\ mainWindow \in {"none", "loading", "open"}
    /\ backend \in Configs \cup {None}
    /\ child \in {"none", "booting", "ready", "dead"}
    /\ indexer \in Endpoints \cup {None}
    /\ ticks \subseteq Endpoints
    /\ BridgeTypeOK

(* An installation as an earlier launch of some release left it, or none.    *)
Init ==
    /\ config \in Configs \cup {None}
    /\ build = 1
    /\ db \in {None} \cup
         (IF config = None THEN {}
          ELSE {[schema |-> 1, tables |-> Statements, stamp |-> 1, rows |-> {config.ep}]})
    /\ flow = "off" /\ job = None /\ currentConfig = None
    /\ setupWindow = "none" /\ mainWindow = "none"
    /\ backend = None /\ child = "none" /\ indexer = None /\ ticks = {}
    /\ BridgeInit

-----------------------------------------------------------------------------
(* config-store.ts *)

Config(ep, network) == [ep |-> ep, network |-> network]

matchesBuildProofDomain(nodeNetwork, buildNetwork) ==
    nodeNetwork = buildNetwork \/ "mainnet" \notin {nodeNetwork, buildNetwork}

(* What the two probes may bring back; None is anything unusable.            *)
Probes ==
    [network : Networks \cup {None}, node : Heights \cup {None},
     archive : Heights \cup {None}, events : BOOLEAN]

verifyEndpoints(probe) ==
    /\ probe.archive # None /\ probe.events
    /\ probe.network # None /\ matchesBuildProofDomain(probe.network, BuildNetwork)
    /\ probe.node # None /\ probe.node - probe.archive <= MaxLag

(* An rmSync that fails is logged, or masks the error, and the file stays.   *)
deleteDatabase == db' \in {None} \cup (IF RemovalFails THEN {db} ELSE {})

-----------------------------------------------------------------------------
(* Processes *)

(* The flow of a process that starts: readConfig() and, without one, setup.  *)
Boot(saved) ==
    /\ currentConfig' = saved
    /\ flow' = IF saved = None THEN "setup" ELSE "boot"
    /\ setupWindow' = IF saved = None THEN "shown" ELSE "none"
    /\ mainWindow' = "none"
    /\ job' = IF saved = None THEN None
              ELSE [kind |-> "boot", step |-> "verify", ep |-> saved.ep,
                    network |-> saved.network, fresh |-> FALSE]

NoServices == backend' = None /\ child' = "none" /\ indexer' = None

(* The process is gone, whatever it was doing.                               *)
Gone ==
    /\ flow' = "off" /\ job' = None /\ currentConfig' = None
    /\ setupWindow' = "none" /\ mainWindow' = "none"
    /\ NoServices /\ ticks' = {}
    /\ Forgotten /\ UNCHANGED disk

Launch ==
    /\ flow = "off"
    /\ Boot(config)
    /\ UNCHANGED <<disk, services, ticks, bridge>>

Upgrade ==
    /\ flow = "off" /\ build < Builds
    /\ build' = build + 1
    /\ UNCHANGED <<config, db, flow, job, currentConfig, windows, services, ticks, bridge>>

Crash == flow # "off" /\ Gone

(* stopRunningServices: both handles are taken before anything is awaited,   *)
(* the indexer's timer is cleared and the child killed.  A tick in flight is *)
(* not waited for.                                                           *)
stopRunningServices ==
    /\ backend' = None /\ child' = "none"
    /\ indexer' = IF backend = None THEN indexer ELSE None

(* will-quit: quits once neither handle is there.                            *)
WillQuit ==
    /\ flow = "quit"
    /\ IF backend = None /\ child = "none" THEN Gone
       ELSE /\ stopRunningServices
            /\ UNCHANGED <<disk, flow, job, currentConfig, windows, ticks, bridge>>

-----------------------------------------------------------------------------
(* The job under way: a boot, a save of the setup window, or a change from   *)
(* the settings.  Each step ends at an await, or where a kill leaves the     *)
(* files different.                                                          *)

At(step) == job # None /\ job.step = step
Go(step) == job' = [job EXCEPT !.step = step]
Process == <<flow, currentConfig, windows>>

(* onSetupSave, and setEndpoints of the settings, which needs a change.      *)
Save(ep) ==
    /\ flow = "setup" /\ setupWindow = "shown" /\ job = None
    /\ job' = [kind |-> "save", step |-> "verify", ep |-> ep,
               network |-> BuildNetwork, fresh |-> FALSE]
    /\ UNCHANGED <<disk, Process, services, ticks, bridge>>

ChangeEndpoints(ep) ==
    /\ mainWindow = "open" /\ job = None /\ ep # currentConfig.ep
    /\ job' = [kind |-> "change", step |-> "verify", ep |-> ep,
               network |-> BuildNetwork, fresh |-> FALSE]
    /\ UNCHANGED <<disk, Process, services, ticks, bridge>>

(* The step after a verification that passed.                                *)
AfterVerify ==
    [boot |-> "prepare", save |-> "stop", change |-> "persist"]

(* A boot also wants the network it saved.  A failed boot recovers in the    *)
(* setup window, a failed save or change is shown inline.                    *)
Verify ==
    /\ At("verify")
    /\ \E probe \in Probes :
         IF verifyEndpoints(probe) /\ (job.kind = "boot" => probe.network = job.network)
         THEN job' = [job EXCEPT !.step = AfterVerify[job.kind], !.network = probe.network]
         ELSE IF job.kind = "boot" THEN Go("undo") ELSE job' = None
    /\ UNCHANGED <<disk, Process, services, ticks, bridge>>

(* save: tear down what an earlier attempt left, then drop the index if the  *)
(* endpoints are new.                                                        *)
SaveStops ==
    /\ At("stop")
    /\ stopRunningServices
    /\ Go("drop")
    /\ UNCHANGED <<disk, Process, ticks, bridge>>

SaveDrops ==
    /\ At("drop") /\ job.kind = "save"
    /\ IF config # None /\ config.ep # job.ep THEN deleteDatabase ELSE UNCHANGED db
    /\ Go("persist")
    /\ UNCHANGED <<config, build, Process, services, ticks, bridge>>

(* writeConfig renames a complete file into place.                           *)
SavePersists ==
    /\ At("persist") /\ job.kind = "save"
    /\ config' = Config(job.ep, job.network)
    /\ Go("prepare")
    /\ UNCHANGED <<db, build, Process, services, ticks, bridge>>

(* changeEndpointsAndRelaunch: the config first, then the stop, which is     *)
(* awaited, then the index.                                                  *)
ChangePersists ==
    /\ At("persist") /\ job.kind = "change"
    /\ config' = Config(job.ep, job.network)
    /\ stopRunningServices
    /\ Go("drop")
    /\ UNCHANGED <<db, build, Process, ticks, bridge>>

ChangeRelaunches ==
    /\ At("drop") /\ job.kind = "change"
    /\ deleteDatabase
    /\ Boot(config)
    /\ NoServices /\ ticks' = {}
    /\ Forgotten
    /\ UNCHANGED <<config, build>>

(* startEmbeddedBackend: an index of another schema, or one never stamped,   *)
(* is removed; a removal that throws fails the start.                        *)
Usable == db # None /\ db.stamp = build

Prepare ==
    /\ At("prepare")
    /\ \/ Usable /\ Go("connect") /\ UNCHANGED db
       \/ /\ ~Usable
          /\ db' = None
          /\ job' = [job EXCEPT !.step = "schema", !.fresh = TRUE]
       \/ RemovalFails /\ ~Usable /\ db # None /\ Go("undo") /\ UNCHANGED db
    /\ UNCHANGED <<config, build, Process, services, ticks, bridge>>

(* As CreateSchema, but the stamp is set before the tables are there.        *)
StampFirst ==
    /\ At("schema")
    /\ db' = IF db = None
             THEN [schema |-> build, tables |-> 1, stamp |-> build, rows |-> {}]
             ELSE [db EXCEPT !.tables = @ + 1]
    /\ Go(IF db'.tables = Statements THEN "stamp" ELSE "schema")

(* One statement of schema.sql after the other.                              *)
CreateSchema ==
    /\ At("schema")
    /\ db' = IF db = None
             THEN [schema |-> build, tables |-> 1, stamp |-> 0, rows |-> {}]
             ELSE [db EXCEPT !.tables = @ + 1]
    /\ Go(IF db'.tables = Statements THEN "stamp" ELSE "schema")

Schema == CreateSchema /\ UNCHANGED <<config, build, Process, services, ticks, bridge>>

Stamp ==
    /\ At("stamp")
    /\ db' = [db EXCEPT !.stamp = build]
    /\ Go("connect")
    /\ UNCHANGED <<config, build, Process, services, ticks, bridge>>

(* The indexer is made; start() reads the genesis constants.                 *)
Connect ==
    /\ At("connect")
    /\ Go("index")
    /\ UNCHANGED <<disk, Process, services, ticks, bridge>>

(* start() runs a first tick, which throws nothing, and sets the timer; the  *)
(* handle is kept and the UI server forked.                                  *)
Index ==
    /\ At("index")
    /\ \E written \in {{}, {job.ep}} : db' = [db EXCEPT !.rows = @ \cup written]
    /\ indexer' = job.ep
    /\ backend' = Config(job.ep, job.network)
    /\ child' = "booting"
    /\ Go("ui")
    /\ UNCHANGED <<config, build, Process, ticks, bridge>>

(* Its catch: an index that was made in this attempt is removed again.       *)
StartFails ==
    /\ job # None /\ job.step \in {"schema", "stamp", "connect", "index"}
    /\ IF job.fresh THEN deleteDatabase ELSE UNCHANGED db
    /\ Go("undo")
    /\ UNCHANGED <<config, build, Process, services, ticks, bridge>>

(* startNextStandalone: "Ready", or an exit before it; a child killed by     *)
(* stopRunningServices exits.                                                *)
NextReady ==
    /\ At("ui") /\ child = "booting"
    /\ child' = "ready"
    /\ Go("listen")
    /\ UNCHANGED <<disk, Process, backend, indexer, ticks, bridge>>

NextExits ==
    /\ At("ui")
    /\ child' = IF child = "booting" THEN "dead" ELSE child
    /\ Go("undo")
    /\ UNCHANGED <<disk, Process, backend, indexer, ticks, bridge>>

ListenFails ==
    /\ At("listen")
    /\ Go("undo")
    /\ UNCHANGED <<disk, Process, services, ticks, bridge>>

(* As Running, but a save forgets to replace what the boot read.             *)
StillSaved == IF job.kind = "save" THEN currentConfig ELSE Config(job.ep, job.network)

Running == Config(job.ep, job.network)

(* The services are up: the main window opens, over the hidden setup window  *)
(* after a save.  A save whose window was closed has nobody to tell.         *)
Started ==
    /\ At("listen")
    /\ job' = None
    /\ currentConfig' = Running
    /\ IF job.kind = "save" /\ setupWindow = "none"
       THEN UNCHANGED <<flow, windows>>
       ELSE /\ flow' = "main" /\ mainWindow' = "loading"
            /\ setupWindow' = IF setupWindow = "shown" THEN "hidden" ELSE "none"
    /\ UNCHANGED <<disk, services, ticks, bridge>>

(* The setup window takes over from a boot that failed.                      *)
runSetupFlow == flow' = "setup" /\ setupWindow' = "shown"

(* As Undo, but the services of the failed attempt stay.                     *)
UndoLeaves ==
    /\ At("undo")
    /\ job' = None
    /\ IF job.kind = "boot" THEN runSetupFlow
       ELSE UNCHANGED <<flow, setupWindow>>
    /\ UNCHANGED <<services>>

(* As Undo, but a failed boot is left to the unhandled rejection.            *)
UndoHeadless ==
    /\ At("undo")
    /\ job' = None
    /\ stopRunningServices
    /\ UNCHANGED <<flow, setupWindow>>

(* A failed attempt: stop what it started; a boot goes on in the setup       *)
(* window, a save rejects there.                                             *)
UndoStart ==
    /\ At("undo")
    /\ job' = None
    /\ stopRunningServices
    /\ IF job.kind = "boot" THEN runSetupFlow
       ELSE UNCHANGED <<flow, setupWindow>>

Undo == UndoStart /\ UNCHANGED <<disk, currentConfig, mainWindow, ticks, bridge>>

JobStep ==
    \/ Verify \/ SaveStops \/ SaveDrops \/ SavePersists
    \/ ChangePersists \/ ChangeRelaunches
    \/ Prepare \/ Schema \/ Stamp \/ Connect \/ Index \/ StartFails
    \/ NextReady \/ NextExits \/ ListenFails \/ Started \/ Undo

-----------------------------------------------------------------------------
(* Windows *)

(* The main window's first load ended, well or badly: the setup window goes. *)
Loaded ==
    /\ mainWindow = "loading"
    /\ mainWindow' = "open" /\ setupWindow' = "none"
    /\ UNCHANGED <<disk, flow, job, currentConfig, services, ticks, bridge>>

(* Cancel, or the window's close button, also while a save runs.             *)
CloseSetup ==
    /\ setupWindow = "shown"
    /\ setupWindow' = "none" /\ flow' = "quit"
    /\ UNCHANGED <<disk, job, currentConfig, mainWindow, services, ticks, bridge>>

(* window-all-closed quits.  A load cut short reports neither its end nor a  *)
(* failure: the setup window stays hidden, and is a window still open.       *)
CloseMain ==
    /\ mainWindow # "none"
    /\ mainWindow' = "none"
    /\ flow' = IF setupWindow = "hidden" THEN flow ELSE "quit"
    /\ UNCHANGED <<disk, job, currentConfig, setupWindow, services, ticks, bridge>>

(* The indexer's timer, and ticks, which end in their own time and write to  *)
(* whatever index the one Prisma client finds.                               *)
StartTick ==
    /\ indexer # None
    /\ ticks' = ticks \cup {indexer}
    /\ UNCHANGED <<disk, flow, job, currentConfig, windows, services, bridge>>

EndTick(ep) ==
    /\ ep \in ticks
    /\ ticks' = ticks \ {ep}
    /\ db' = IF db # None /\ db.tables = Statements
             THEN [db EXCEPT !.rows = @ \cup {ep}] ELSE db
    /\ UNCHANGED <<config, build, flow, job, currentConfig, windows, services, bridge>>

Bridge ==
    /\ mainWindow = "open"
    /\ \/ \E r \in Requests, method \in Methods : handleAuroRequest(r, method)
       \/ BridgeStep
    /\ UNCHANGED <<disk, flow, job, currentConfig, windows, services, ticks>>

Next ==
    \/ Launch \/ Upgrade \/ Crash \/ WillQuit
    \/ JobStep
    \/ \E ep \in Endpoints : Save(ep) \/ ChangeEndpoints(ep) \/ EndTick(ep)
    \/ Loaded \/ CloseSetup \/ CloseMain
    \/ StartTick
    \/ Bridge

Spec == Init /\ [][Next]_vars

(* Probes time out, a first load ends, and Electron goes on quitting; nobody *)
(* has to launch, save, close or approve.  A UI server that was forked may   *)
(* never report nor exit: nothing times it out.                              *)
UiBoots == At("ui") /\ child = "booting"

FairSpec ==
    /\ Spec
    /\ WF_vars(JobStep /\ ~UiBoots) /\ WF_vars(Loaded) /\ WF_vars(WillQuit)

-----------------------------------------------------------------------------
(* ServesFullSchema (invariant): a backend whose handle is held runs on an   *)
(* index with every table of this release's schema, stamped so, whatever     *)
(* attempt was killed or failed in the middle of making one, and across      *)
(* updates (backend-embed.ts startEmbeddedBackend).                          *)
ServesFullSchema ==
    backend # None =>
      /\ db # None
      /\ db.schema = build /\ db.tables = Statements /\ db.stamp = build

(* AppCoherent (invariant): while the main window is up and no change runs,  *)
(* config.json, what the window was told and the backend that serves it are  *)
(* the same endpoints and network, after any number of failed starts, saves  *)
(* and rejected changes (main.ts save, startServices, openMainWindow).       *)
AppCoherent ==
    mainWindow # "none" /\ job = None =>
      config # None /\ config = currentConfig /\ config = backend

(* NothingLeftRunning (invariant): an indexer's timer runs only while its    *)
(* handle is held, and a setup window that waits for the user has no backend *)
(* or UI server behind it (main.ts stopRunningServices and its callers).     *)
NothingLeftRunning ==
    /\ indexer # None => backend # None /\ backend.ep = indexer
    /\ setupWindow = "shown" /\ job = None => backend = None /\ child = "none"

(* NeverHeadless (temporal): the app always shows a window again or exits;   *)
(* whatever fails in a start, a save or a change of endpoints, no process is *)
(* left without either (main.ts whenReady, will-quit), but for two cases:    *)
(* the UI server is still booting, or the main window was closed while its   *)
(* first load ran over a hidden setup window.                                *)
Stranded == mainWindow = "none" /\ setupWindow = "hidden"

NeverHeadless ==
    []<>(setupWindow = "shown" \/ mainWindow # "none" \/ flow = "off" \/ UiBoots \/ Stranded)

(* IndexMatchesConfig (invariant): the index a backend serves holds only     *)
(* what was read from the configured endpoints (main.ts save: "the local     *)
(* index is only meaningful for the endpoints it was built against").        *)
IndexMatchesConfig ==
    backend # None => db.rows \subseteq {config.ep}
=============================================================================
