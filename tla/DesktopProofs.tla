---------------------------- MODULE DesktopProofs ----------------------------
(* Proofs about Desktop, with the wallet requests of AuroBridge, for every  *)
(* set of endpoints, networks, browsers and requests and any number of      *)
(* releases and schema statements.                                          *)
EXTENDS Desktop, TLAPS

(* The state has its shape, without the process and the bridge.             *)
Shapes ==
    /\ config \in Configs \cup {None}
    /\ db \in Databases \cup {None}
    /\ build \in 1 .. Builds
    /\ job \in Jobs \cup {None}
    /\ backend \in Configs \cup {None}

(* A stamped index is complete, and the start that makes or opens one knows *)
(* how far it is.                                                           *)
SchemaStages ==
    /\ db # None /\ db.stamp # 0 => db.schema = db.stamp /\ db.tables = Statements
    /\ At("schema") /\ db # None => /\ db.stamp = 0 /\ db.schema = build
                                    /\ db.tables < Statements
    /\ At("stamp") => db # None /\ db.schema = build /\ db.tables = Statements
    /\ At("connect") \/ At("index") => Usable

(* Each kind of job belongs to a phase of the process, and to its windows.  *)
BootJob ==
    job # None /\ job.kind = "boot" =>
      /\ flow = "boot" /\ setupWindow = "none" /\ mainWindow = "none"
      /\ job.step \notin {"stop", "drop", "persist"}
      /\ config = Running

SaveJob ==
    job # None /\ job.kind = "save" =>
      /\ mainWindow = "none"
      /\ flow = "quit" \/ (flow = "setup" /\ setupWindow = "shown")
      /\ job.step \in {"prepare", "schema", "stamp", "connect", "index", "ui", "listen"}
           => config = Running

ChangeJob ==
    job # None /\ job.kind = "change" =>
      /\ job.step \in {"verify", "persist", "drop"}
      /\ flow \in {"main", "quit"} /\ setupWindow # "shown"

(* Which windows a phase has.                                               *)
Windows ==
    /\ setupWindow \in {"none", "shown", "hidden"}
    /\ flow \in {"off", "quit"} => setupWindow = "none" /\ mainWindow = "none"
    /\ flow = "off" => job = None /\ backend = None /\ child = "none"
    /\ mainWindow # "none" => setupWindow # "shown" /\ flow = "main"
    /\ setupWindow = "shown" => flow = "setup"

(* When a backend runs: not while the index is being replaced or made, and  *)
(* with the job's own endpoints once it was started.                        *)
BackendStages ==
    /\ job # None =>
         /\ job.step \in {"prepare", "schema", "stamp", "connect", "index", "drop"}
              => backend = None
         /\ job.step = "persist" /\ job.kind = "save" => backend = None
         /\ job.step = "verify" /\ job.kind = "boot" => backend = None
         /\ job.step \in {"ui", "listen"} /\ flow # "quit" => backend = Running
    /\ setupWindow = "shown" /\ (job = None \/ At("verify")) => backend = None /\ child = "none"

(* The main window stays coherent until a change persists.                  *)
Coherent ==
    mainWindow # "none" /\ (job = None \/ At("verify") \/ At("persist")) =>
      config # None /\ config = currentConfig /\ config = backend

IndexerHeld == indexer # None => backend # None /\ backend.ep = indexer

ShellInv ==
    /\ Shapes /\ SchemaStages /\ BootJob /\ SaveJob /\ ChangeJob /\ Windows
    /\ BackendStages /\ Coherent /\ IndexerHeld /\ ServesFullSchema

(* What became of a request and of its pages agree.                         *)
BridgeInv ==
    /\ BridgeTypeOK
    /\ \A r \in Requests :
         /\ request[r].state = "unused" => \A b \in Browsers : page[r][b] = "none"
         /\ request[r].state \in {"resolved", "rejected"} =>
              \E b \in HasAuro : page[r][b] = "done"
         /\ \A b \in Browsers :
              /\ page[r][b] \in {"signing", "error", "done"} => b \in HasAuro
              /\ page[r][b] = "dropped" => request[r].state # "pending"

-----------------------------------------------------------------------------
(* The steps of a job, and what a job is.                                   *)
Steps == {"verify", "stop", "drop", "persist", "prepare", "schema", "stamp",
          "connect", "index", "ui", "listen", "undo"}

(* A job under way is a job.                                                *)
LEMMA JobFields ==
    ASSUME Shapes, job # None
    PROVE  /\ job \in Jobs /\ job.kind \in {"boot", "save", "change"}
           /\ job.step \in Steps /\ job.ep \in Endpoints /\ job.network \in Networks
           /\ Running \in Configs /\ Running # None
<1>1. job \in Jobs
  BY DEF Shapes
<1>2. /\ job.kind \in {"boot", "save", "change"} /\ job.step \in Steps
      /\ job.ep \in Endpoints /\ job.network \in Networks
  BY <1>1 DEF Jobs, Steps
<1>3. Running \in Configs
  BY <1>2 DEF Running, Config, Configs
<1> QED BY <1>1, <1>2, <1>3, NothingIsNone

(* A job that goes on changes its step only.                                *)
LEMMA GoEffect ==
    ASSUME Shapes, job # None, NEW s \in Steps, Go(s)
    PROVE  /\ job' \in Jobs /\ job' # None /\ job'.step = s
           /\ job'.kind = job.kind /\ job'.ep = job.ep /\ job'.network = job.network
           /\ Running' = Running
<1>1. job \in Jobs /\ job' = [job EXCEPT !.step = s]
  BY DEF Shapes, Go
<1>2. job' \in Jobs
  BY <1>1 DEF Jobs, Steps
<1>3. /\ job'.step = s /\ job'.kind = job.kind /\ job'.ep = job.ep
      /\ job'.network = job.network
  BY <1>1 DEF Jobs
<1>4. Running' = Running
  BY <1>3 DEF Running, Config
<1> QED BY <1>2, <1>3, <1>4, NothingIsNone

(* A job that was just started verifies.                                    *)
LEMMA NewJob ==
    ASSUME NEW kind \in {"boot", "save", "change"}, NEW ep \in Endpoints,
           NEW network \in Networks,
           job' = [kind |-> kind, step |-> "verify", ep |-> ep, network |-> network,
                   fresh |-> FALSE]
    PROVE  /\ job' \in Jobs /\ job' # None /\ job'.kind = kind /\ job'.step = "verify"
           /\ Running' = Config(ep, network)
<1>1. "verify" \in Steps /\ FALSE \in BOOLEAN
  BY Zenon DEF Steps
<1>2. job' \in Jobs
  BY <1>1, Zenon DEF Jobs, Steps
<1>3. job'.kind = kind /\ job'.step = "verify" /\ job'.ep = ep /\ job'.network = network
  BY Zenon
<1> QED BY <1>2, <1>3, NothingIsNone DEF Running, Config

(* A process that starts boots what was saved, or asks.                     *)
LEMMA BootEffect ==
    ASSUME NEW saved \in Configs \cup {None}, Boot(saved)
    PROVE  \/ /\ saved = None /\ job' = None /\ flow' = "setup"
              /\ setupWindow' = "shown" /\ mainWindow' = "none"
           \/ /\ saved # None /\ flow' = "boot"
              /\ setupWindow' = "none" /\ mainWindow' = "none"
              /\ job' \in Jobs /\ job' # None /\ job'.kind = "boot" /\ job'.step = "verify"
              /\ Running' = saved
<1>1. CASE saved = None
  BY <1>1 DEF Boot
<1>2. CASE saved # None
  <2>1. saved.ep \in Endpoints /\ saved.network \in Networks /\ saved = Config(saved.ep, saved.network)
    BY <1>2 DEF Configs, Config
  <2>2. /\ flow' = "boot" /\ setupWindow' = "none" /\ mainWindow' = "none"
        /\ job' = [kind |-> "boot", step |-> "verify", ep |-> saved.ep,
                   network |-> saved.network, fresh |-> FALSE]
    BY <1>2, Zenon DEF Boot
  <2>3. /\ job' \in Jobs /\ job' # None /\ job'.kind = "boot" /\ job'.step = "verify"
        /\ Running' = Config(saved.ep, saved.network)
    <3>1. "boot" \in {"boot", "save", "change"}
      OBVIOUS
    <3> QED BY <2>1, <2>2, <3>1, NewJob
  <2> QED BY <1>2, <2>1, <2>2, <2>3
<1> QED BY <1>1, <1>2

(* What stopRunningServices leaves.                                         *)
LEMMA Stopped ==
    ASSUME IndexerHeld, stopRunningServices
    PROVE  backend' = None /\ child' = "none" /\ indexer' = None
BY DEF IndexerHeld, stopRunningServices

-----------------------------------------------------------------------------
(* The shell's invariant holds at first.                                    *)
LEMMA InitShell == Init => ShellInv
<1> SUFFICES ASSUME Init PROVE ShellInv
  OBVIOUS
<1>1. Shapes
  <2>1. 1 \in 1 .. Builds /\ Statements \in 1 .. Statements /\ 1 \in 0 .. Builds
    BY DesktopConstants
  <2>2. config # None => config.ep \in Endpoints
    BY DEF Init, Configs
  <2>3. db \in Databases \cup {None}
    BY <2>1, <2>2 DEF Init, Databases
  <2> QED BY <2>1, <2>3 DEF Init, Shapes
<1>2. SchemaStages
  BY DEF Init, SchemaStages, At
<1> QED BY <1>1, <1>2 DEF Init, ShellInv, BootJob, SaveJob, ChangeJob, Windows, BackendStages,
           Coherent, IndexerHeld, ServesFullSchema, At

(* Whatever leaves the shell alone keeps its invariant.                     *)
LEMMA ShellUntouched ==
    ASSUME ShellInv, UNCHANGED <<disk, flow, job, currentConfig, windows, services>>
    PROVE  ShellInv'
<1>1. /\ config' = config /\ db' = db /\ build' = build /\ flow' = flow /\ job' = job
      /\ currentConfig' = currentConfig /\ setupWindow' = setupWindow
      /\ mainWindow' = mainWindow /\ backend' = backend /\ child' = child /\ indexer' = indexer
  BY DEF disk, windows, services
<1>2. Running' = Running
  BY <1>1 DEF Running
<1> QED BY <1>1, <1>2 DEF ShellInv, Shapes, SchemaStages, BootJob, SaveJob, ChangeJob, Windows,
           BackendStages, Coherent, IndexerHeld, ServesFullSchema, At, Usable

(* Launching, updating, dying and quitting.                                 *)
LEMMA ProcessSteps ==
    ASSUME ShellInv, Launch \/ Upgrade \/ Crash \/ WillQuit
    PROVE  ShellInv'
<1> USE DEF ShellInv, Shapes, SchemaStages, BootJob, SaveJob, ChangeJob, Windows, BackendStages,
        Coherent, IndexerHeld, ServesFullSchema, At, Usable, disk, windows, services
<1>g. CASE Gone
  BY <1>g DEF Gone, NoServices
<1>1. CASE Launch
  <2>1. /\ config' = config /\ db' = db /\ build' = build /\ backend' = backend
        /\ child' = child /\ indexer' = indexer /\ flow = "off" /\ Boot(config)
    BY <1>1 DEF Launch
  <2> QED BY <2>1, BootEffect
<1>2. CASE Upgrade
  <2>1. build' \in 1 .. Builds
    BY <1>2, DesktopConstants DEF Upgrade
  <2> QED BY <1>2, <2>1 DEF Upgrade
<1>3. CASE WillQuit
  <2>1. CASE ~Gone
    <3>1. /\ backend' = None /\ child' = "none" /\ indexer' = None
          /\ flow = "quit" /\ flow' = flow /\ job' = job
          /\ UNCHANGED <<disk, currentConfig, windows>>
      BY <1>3, <2>1, Stopped DEF WillQuit
    <3>2. Running' = Running
      BY <3>1 DEF Running
    <3> QED BY <3>1, <3>2
  <2> QED BY <2>1, <1>g
<1> QED BY <1>1, <1>2, <1>3, <1>g DEF Crash

(* The user saves, changes or closes, and the main window loads.            *)
LEMMA WindowSteps ==
    ASSUME ShellInv, \/ Loaded \/ CloseSetup \/ CloseMain
                     \/ \E ep \in Endpoints : Save(ep) \/ ChangeEndpoints(ep)
    PROVE  ShellInv'
<1> USE DEF ShellInv, Shapes, SchemaStages, BootJob, SaveJob, ChangeJob, Windows, BackendStages,
        Coherent, IndexerHeld, ServesFullSchema, At, Usable, disk, windows, services
<1>1. CASE Loaded \/ CloseSetup \/ CloseMain
  <2>1. /\ job' = job /\ Running' = Running
    BY <1>1 DEF Loaded, CloseSetup, CloseMain, Running
  <2>2. job # None => job.kind \in {"boot", "save", "change"}
    BY JobFields
  <2>3. CASE Loaded \/ CloseSetup
    BY <2>1, <2>2, <2>3 DEF Loaded, CloseSetup
  <2>4. CASE CloseMain /\ setupWindow = "hidden"
    BY <2>1, <2>2, <2>4 DEF CloseMain
  <2>5. CASE CloseMain /\ setupWindow # "hidden"
    <3>1. /\ setupWindow = "none" /\ flow = "main"
          /\ job = None \/ job.kind = "change"
      BY <2>2, <2>5 DEF CloseMain
    <3>2. /\ setupWindow' = "none" /\ mainWindow' = "none" /\ flow' = "quit"
          /\ UNCHANGED <<config, db, build, currentConfig, backend, indexer, child>>
      BY <2>5, <3>1 DEF CloseMain
    <3> QED BY <2>1, <3>1, <3>2
  <2> QED BY <1>1, <2>3, <2>4, <2>5
<1>2. ASSUME NEW ep \in Endpoints, Save(ep)
      PROVE  ShellInv'
  <2>1. /\ job' \in Jobs /\ job' # None /\ job'.kind = "save" /\ job'.step = "verify"
    <3>1. "save" \in {"boot", "save", "change"}
      OBVIOUS
    <3>2. job' = [kind |-> "save", step |-> "verify", ep |-> ep,
                  network |-> BuildNetwork, fresh |-> FALSE]
      BY <1>2, Zenon DEF Save
    <3> QED BY <3>1, <3>2, NewJob, DesktopConstants
  <2>2. /\ job = None /\ flow = "setup" /\ setupWindow = "shown"
        /\ UNCHANGED <<disk, Process, services>>
    BY <1>2 DEF Save, disk, Process, services
  <2> QED BY <2>1, <2>2 DEF Process
<1>3. ASSUME NEW ep \in Endpoints, ChangeEndpoints(ep)
      PROVE  ShellInv'
  <2>1. /\ job' \in Jobs /\ job' # None /\ job'.kind = "change" /\ job'.step = "verify"
    <3>1. "change" \in {"boot", "save", "change"}
      OBVIOUS
    <3>2. job' = [kind |-> "change", step |-> "verify", ep |-> ep,
                  network |-> BuildNetwork, fresh |-> FALSE]
      BY <1>3, Zenon DEF ChangeEndpoints
    <3> QED BY <3>1, <3>2, NewJob, DesktopConstants
  <2>2. /\ job = None /\ mainWindow = "open"
        /\ UNCHANGED <<disk, Process, services>>
    BY <1>3 DEF ChangeEndpoints, disk, Process, services
  <2> QED BY <2>1, <2>2 DEF Process
<1> QED BY <1>1, <1>2, <1>3

(* The verification, which keeps a boot's network, and what it leads to.    *)
LEMMA VerifyStep ==
    ASSUME ShellInv, Verify
    PROVE  ShellInv'
<1> USE DEF ShellInv, Shapes, SchemaStages, BootJob, SaveJob, ChangeJob, Windows, BackendStages,
        Coherent, IndexerHeld, ServesFullSchema, At, Usable, disk, windows, services
<1>0. /\ job # None /\ job.step = "verify" /\ UNCHANGED <<disk, Process, services>>
  BY DEF Verify, Process
<1>1. PICK probe \in Probes :
        IF verifyEndpoints(probe) /\ (job.kind = "boot" => probe.network = job.network)
        THEN job' = [job EXCEPT !.step = AfterVerify[job.kind], !.network = probe.network]
        ELSE IF job.kind = "boot" THEN Go("undo") ELSE job' = None
  BY DEF Verify
<1>2. job \in Jobs /\ job.kind \in {"boot", "save", "change"}
  BY <1>0, JobFields
<1>3. CASE verifyEndpoints(probe) /\ (job.kind = "boot" => probe.network = job.network)
  <2> DEFINE s == AfterVerify[job.kind]
             n == probe.network
  <2>1. n \in Networks
    BY <1>3 DEF verifyEndpoints, Probes
  <2>2. /\ job.kind = "boot" => s = "prepare"
        /\ job.kind = "save" => s = "stop"
        /\ job.kind = "change" => s = "persist"
    BY DEF AfterVerify
  <2>3. job' = [job EXCEPT !.step = s, !.network = n]
    BY <1>1, <1>3
  <2>4. job.kind = "boot" => n = job.network
    BY <1>3
  <2> HIDE DEF s, n
  <2>5. s \in Steps
    BY <1>2, <2>2 DEF Steps
  <2>6. job' \in Jobs
    BY <1>2, <2>1, <2>3, <2>5 DEF Jobs, Steps
  <2>7. job'.step = s /\ job'.kind = job.kind /\ job'.ep = job.ep /\ job'.network = n
    BY <1>2, <2>3 DEF Jobs
  <2>8. job.kind = "boot" => Running' = Running
    BY <2>4, <2>7 DEF Running, Config
  <2>9. job' # None
    BY <2>6, NothingIsNone
  <2> QED BY <1>0, <1>2, <2>2, <2>6, <2>7, <2>8, <2>9 DEF Process
<1>4. CASE Go("undo") /\ job.kind = "boot"
  <2>1. /\ job' \in Jobs /\ job' # None /\ job'.step = "undo" /\ job'.kind = "boot"
        /\ Running' = Running
    BY <1>0, <1>4, GoEffect DEF Steps
  <2> QED BY <1>0, <1>4, <2>1 DEF Process
<1>5. CASE job' = None /\ job.kind # "boot"
  BY <1>0, <1>2, <1>5 DEF Process
<1> QED BY <1>1, <1>3, <1>4, <1>5

(* Saving new endpoints, or changing them and starting over.                *)
LEMMA ReplaceSteps ==
    ASSUME ShellInv,
           SaveStops \/ SaveDrops \/ SavePersists \/ ChangePersists \/ ChangeRelaunches
    PROVE  ShellInv'
<1> USE DEF ShellInv, Shapes, SchemaStages, BootJob, SaveJob, ChangeJob, Windows, BackendStages,
        Coherent, IndexerHeld, ServesFullSchema, At, Usable, disk, windows, services
<1>0. job # None /\ job.kind \in {"boot", "save", "change"} /\ Running \in Configs /\ Running # None
  BY JobFields DEF SaveStops, SaveDrops, SavePersists, ChangePersists, ChangeRelaunches
<1>1. CASE SaveStops
  <2>1. /\ job' \in Jobs /\ job' # None /\ job'.step = "drop" /\ job'.kind = job.kind
        /\ Running' = Running
    BY <1>0, <1>1, GoEffect DEF SaveStops, Steps
  <2> QED BY <1>0, <1>1, <2>1, Stopped DEF SaveStops, Process
<1>2. CASE SaveDrops
  <2>1. /\ job' \in Jobs /\ job' # None /\ job'.step = "persist" /\ job'.kind = job.kind
        /\ Running' = Running
    BY <1>0, <1>2, GoEffect DEF SaveDrops, Steps
  <2>2. db' = None \/ db' = db
    BY <1>2 DEF SaveDrops, deleteDatabase
  <2>3. /\ job.step = "drop" /\ job.kind = "save"
        /\ UNCHANGED <<config, build, Process, services>>
    BY <1>2 DEF SaveDrops, Process
  <2>4. CASE db' = None
    <3>1. SchemaStages'
      BY <2>1, <2>4
    <3>2. backend' = None /\ mainWindow' = "none" /\ indexer' = None
      BY <1>0, <2>3 DEF Process
    <3> QED BY <1>0, <2>1, <2>3, <2>4, <3>1, <3>2 DEF Process
  <2>5. CASE db' = db
    BY <1>0, <2>1, <2>3, <2>5 DEF Process
  <2> QED BY <2>2, <2>4, <2>5
<1>3. CASE SavePersists
  <2>1. /\ job' \in Jobs /\ job' # None /\ job'.step = "prepare" /\ job'.kind = job.kind
        /\ Running' = Running
    BY <1>0, <1>3, GoEffect DEF SavePersists, Steps
  <2>2. config' = Running
    BY <1>3 DEF SavePersists, Running
  <2> QED BY <1>0, <1>3, <2>1, <2>2 DEF SavePersists, Process
<1>4. CASE ChangePersists
  <2>1. /\ job' \in Jobs /\ job' # None /\ job'.step = "drop" /\ job'.kind = job.kind
        /\ Running' = Running
    BY <1>0, <1>4, GoEffect DEF ChangePersists, Steps
  <2>2. config' = Running
    BY <1>4 DEF ChangePersists, Running
  <2> QED BY <1>0, <1>4, <2>1, <2>2, Stopped DEF ChangePersists, Process
<1>5. CASE ChangeRelaunches
  <2>1. db' = None \/ db' = db
    BY <1>5 DEF ChangeRelaunches, deleteDatabase
  <2>2. /\ Boot(config) /\ config' = config /\ build' = build
        /\ backend' = None /\ child' = "none" /\ indexer' = None
    BY <1>5 DEF ChangeRelaunches, NoServices
  <2> QED BY <2>1, <2>2, BootEffect
<1> QED BY <1>1, <1>2, <1>3, <1>4, <1>5

(* Opening the index or making a new one, until it is stamped.              *)
LEMMA IndexSteps ==
    ASSUME ShellInv, Prepare \/ Schema \/ Stamp \/ Connect
    PROVE  ShellInv'
<1> USE DEF ShellInv, Shapes, SchemaStages, BootJob, SaveJob, ChangeJob, Windows, BackendStages,
        Coherent, IndexerHeld, ServesFullSchema, At, Usable, disk, windows, services
<1>0. /\ job # None /\ job \in Jobs /\ job.kind \in {"boot", "save", "change"}
      /\ Running \in Configs /\ Running # None
  BY JobFields DEF Prepare, Schema, CreateSchema, Stamp, Connect
<1>1. CASE Prepare
  <2>1. CASE Usable /\ Go("connect") /\ UNCHANGED db
    <3>1. /\ job' \in Jobs /\ job' # None /\ job'.step = "connect" /\ job'.kind = job.kind
          /\ Running' = Running
      BY <1>0, <2>1, GoEffect DEF Steps
    <3> QED BY <1>0, <1>1, <2>1, <3>1 DEF Prepare, Process
  <2>2. CASE db' = None /\ job' = [job EXCEPT !.step = "schema", !.fresh = TRUE]
    <3>1. job' \in Jobs
      <4>1. "schema" \in Steps /\ TRUE \in BOOLEAN
        BY Zenon DEF Steps
      <4> QED BY <1>0, <2>2, <4>1, Zenon DEF Jobs, Steps
    <3>2. /\ job'.step = "schema" /\ job'.kind = job.kind /\ job'.ep = job.ep
          /\ job'.network = job.network
      BY <1>0, <2>2 DEF Jobs
    <3>3. Running' = Running /\ job' # None
      BY <3>1, <3>2, NothingIsNone DEF Running, Config
    <3> QED BY <1>0, <1>1, <2>2, <3>1, <3>2, <3>3 DEF Prepare, Process
  <2>3. CASE Go("undo") /\ UNCHANGED db
    <3>1. /\ job' \in Jobs /\ job' # None /\ job'.step = "undo" /\ job'.kind = job.kind
          /\ Running' = Running
      BY <1>0, <2>3, GoEffect DEF Steps
    <3> QED BY <1>0, <1>1, <2>3, <3>1 DEF Prepare, Process
  <2> QED BY <1>1, <2>1, <2>2, <2>3 DEF Prepare
<1>2. CASE Schema
  <2>0. job.step = "schema" /\ UNCHANGED <<config, build, Process, services>>
    BY <1>2 DEF Schema, CreateSchema, Process
  <2>1. /\ db' \in Databases /\ db'.schema = build /\ db'.stamp = 0
    <3>1. 1 \in 1 .. Statements /\ 0 \in 0 .. Builds /\ {} \in SUBSET Endpoints
      BY DesktopConstants
    <3>2. CASE db = None
      <4>1. db' = [schema |-> build, tables |-> 1, stamp |-> 0, rows |-> {}]
        BY <1>2, <3>2 DEF Schema, CreateSchema
      <4> QED BY <3>1, <4>1 DEF Databases
    <3>3. CASE db # None
      <4> DEFINE n == db.tables + 1
      <4>1. db' = [db EXCEPT !.tables = n] /\ db \in Databases
        BY <1>2, <3>3 DEF Schema, CreateSchema
      <4>2. n \in 1 .. Statements
        BY <2>0, <1>0, <3>3, <4>1, DesktopConstants DEF Databases
      <4> HIDE DEF n
      <4> QED BY <1>0, <2>0, <3>3, <4>1, <4>2 DEF Databases
    <3> QED BY <3>2, <3>3
  <2>2. db' # None /\ db'.tables \in 1 .. Statements
    BY <2>1, NothingIsNone DEF Databases
  <2>3. \/ Go("stamp") /\ db'.tables = Statements
        \/ Go("schema") /\ db'.tables # Statements
    BY <1>2 DEF Schema, CreateSchema
  <2>4. /\ job' \in Jobs /\ job' # None /\ job'.kind = job.kind /\ Running' = Running
        /\ \/ job'.step = "stamp" /\ db'.tables = Statements
           \/ job'.step = "schema" /\ db'.tables < Statements
    <3>1. db'.tables # Statements => db'.tables < Statements
      BY <2>2, DesktopConstants
    <3> QED BY <1>0, <2>3, <3>1, GoEffect DEF Steps
  <2> QED BY <1>0, <2>0, <2>1, <2>2, <2>4 DEF Process
<1>3. CASE Stamp
  <2>1. /\ job' \in Jobs /\ job' # None /\ job'.step = "connect" /\ job'.kind = job.kind
        /\ Running' = Running
    BY <1>0, <1>3, GoEffect DEF Stamp, Steps
  <2>2. db \in Databases /\ db' = [db EXCEPT !.stamp = build] /\ build \in 0 .. Builds
    BY <1>3, DesktopConstants DEF Stamp
  <2>3. /\ db' \in Databases /\ db'.schema = db.schema /\ db'.tables = db.tables
        /\ db'.stamp = build
    BY <2>2 DEF Databases
  <2>4. db' # None
    BY <2>3, NothingIsNone
  <2> QED BY <1>0, <1>3, <2>1, <2>3, <2>4 DEF Stamp, Process
<1>4. CASE Connect
  <2>1. /\ job' \in Jobs /\ job' # None /\ job'.step = "index" /\ job'.kind = job.kind
        /\ Running' = Running
    BY <1>0, <1>4, GoEffect DEF Connect, Steps
  <2> QED BY <1>0, <1>4, <2>1 DEF Connect, Process
<1> QED BY <1>1, <1>2, <1>3, <1>4

(* More rows in an index leave its schema alone.                            *)
LEMMA RowsAdded ==
    ASSUME NEW d \in Databases, NEW e \in SUBSET Endpoints,
           NEW n, n = [d EXCEPT !.rows = d.rows \cup e]
    PROVE  /\ n \in Databases /\ n # None /\ n.schema = d.schema
           /\ n.tables = d.tables /\ n.stamp = d.stamp
<1> DEFINE rows == d.rows \cup e
<1>1. rows \in SUBSET Endpoints
  BY DEF Databases
<1>2. n = [d EXCEPT !.rows = rows]
  OBVIOUS
<1> HIDE DEF rows
<1>3. n \in Databases /\ n.schema = d.schema /\ n.tables = d.tables /\ n.stamp = d.stamp
  BY <1>1, <1>2 DEF Databases
<1> QED BY <1>3, NothingIsNone

(* The services start one after the other, or fail to.                      *)
LEMMA ServiceSteps ==
    ASSUME ShellInv, Index \/ StartFails \/ NextReady \/ NextExits \/ ListenFails
    PROVE  ShellInv'
<1> USE DEF ShellInv, Shapes, SchemaStages, BootJob, SaveJob, ChangeJob, Windows, BackendStages,
        Coherent, IndexerHeld, ServesFullSchema, At, Usable, disk, windows, services
<1>0. /\ job # None /\ job \in Jobs /\ job.kind \in {"boot", "save", "change"}
      /\ job.ep \in Endpoints /\ Running \in Configs /\ Running # None
  BY JobFields DEF Index, StartFails, NextReady, NextExits, ListenFails
<1>1. CASE Index
  <2>1. /\ job' \in Jobs /\ job' # None /\ job'.step = "ui" /\ job'.kind = job.kind
        /\ Running' = Running
    BY <1>0, <1>1, GoEffect DEF Index, Steps
  <2>2. /\ job.step = "index" /\ backend' = Running /\ indexer' = job.ep
        /\ UNCHANGED <<config, build, Process>>
    BY <1>1 DEF Index, Running, Process
  <2>3. db \in Databases /\ db # None /\ db.stamp = build /\ build # 0
    BY <1>1, DesktopConstants DEF Index
  <2>4. PICK e \in {{}, {job.ep}} : db' = [db EXCEPT !.rows = db.rows \cup e]
    BY <1>1 DEF Index
  <2>5. e \in SUBSET Endpoints
    BY <1>0
  <2>6. /\ db' \in Databases /\ db' # None /\ db'.schema = db.schema
        /\ db'.tables = db.tables /\ db'.stamp = db.stamp
    BY <2>3, <2>4, <2>5, RowsAdded
  <2>7. backend'.ep = indexer'
    BY <2>2 DEF Running, Config
  <2> QED BY <1>0, <2>1, <2>2, <2>3, <2>6, <2>7 DEF Process
<1>2. CASE StartFails
  <2>1. /\ job' \in Jobs /\ job' # None /\ job'.step = "undo" /\ job'.kind = job.kind
        /\ Running' = Running
    BY <1>0, <1>2, GoEffect DEF StartFails, Steps
  <2>2. db' = None \/ db' = db
    BY <1>2 DEF StartFails, deleteDatabase
  <2>3. /\ job.step \in {"schema", "stamp", "connect", "index"}
        /\ UNCHANGED <<config, build, Process, services>>
    BY <1>2 DEF StartFails, Process
  <2>4. backend = None
    BY <1>0, <2>3
  <2>5. CASE db' = None
    BY <1>0, <2>1, <2>3, <2>4, <2>5 DEF Process
  <2>6. CASE db' = db
    BY <1>0, <2>1, <2>3, <2>4, <2>6 DEF Process
  <2> QED BY <2>2, <2>5, <2>6
<1>3. CASE NextReady
  <2>1. /\ job' \in Jobs /\ job' # None /\ job'.step = "listen" /\ job'.kind = job.kind
        /\ Running' = Running
    BY <1>0, <1>3, GoEffect DEF NextReady, Steps
  <2> QED BY <1>0, <1>3, <2>1 DEF NextReady, Process
<1>4. CASE NextExits \/ ListenFails
  <2>1. /\ job' \in Jobs /\ job' # None /\ job'.step = "undo" /\ job'.kind = job.kind
        /\ Running' = Running
    BY <1>0, <1>4, GoEffect DEF NextExits, ListenFails, Steps
  <2>2. /\ job.step \in {"ui", "listen"} /\ UNCHANGED <<disk, Process, backend, indexer>>
    BY <1>4 DEF NextExits, ListenFails, Process
  <2> QED BY <1>0, <2>1, <2>2 DEF Process
<1> QED BY <1>1, <1>2, <1>3, <1>4

(* An attempt ends with the main window, or is undone.                      *)
LEMMA OutcomeSteps ==
    ASSUME ShellInv, Started \/ Undo
    PROVE  ShellInv'
<1> USE DEF ShellInv, Shapes, SchemaStages, BootJob, SaveJob, ChangeJob, Windows, BackendStages,
        Coherent, IndexerHeld, ServesFullSchema, At, Usable, disk, windows, services
<1>0. /\ job # None /\ job.kind \in {"boot", "save", "change"} /\ Running \in Configs
      /\ Running # None
  BY JobFields DEF Started, Undo, UndoStart
<1>1. CASE Started
  <2>1. /\ job.step = "listen" /\ job' = None /\ currentConfig' = Running
        /\ UNCHANGED <<disk, services>>
    BY <1>1 DEF Started
  <2>2. CASE job.kind = "save" /\ setupWindow = "none"
    <3>1. UNCHANGED <<flow, windows>>
      BY <1>1, <2>2 DEF Started
    <3> QED BY <1>0, <2>1, <2>2, <3>1
  <2>3. CASE ~(job.kind = "save" /\ setupWindow = "none")
    <3>1. /\ flow' = "main" /\ mainWindow' = "loading"
          /\ setupWindow' = IF setupWindow = "shown" THEN "hidden" ELSE "none"
      BY <1>1, <2>3 DEF Started
    <3>2. flow # "quit" /\ config = Running /\ backend = Running
      BY <1>0, <2>1, <2>3
    <3> QED BY <1>0, <2>1, <3>1, <3>2
  <2> QED BY <2>2, <2>3
<1>2. CASE Undo
  <2>1. /\ job' = None /\ backend' = None /\ child' = "none" /\ indexer' = None
        /\ job.step = "undo" /\ UNCHANGED <<disk, currentConfig, mainWindow>>
    BY <1>2, Stopped DEF Undo, UndoStart
  <2>2. CASE job.kind = "boot"
    <3>1. flow' = "setup" /\ setupWindow' = "shown" /\ mainWindow = "none"
      BY <1>0, <1>2, <2>2 DEF Undo, UndoStart, runSetupFlow
    <3> QED BY <2>1, <3>1
  <2>3. CASE job.kind # "boot"
    <3>1. UNCHANGED <<flow, setupWindow>>
      BY <1>2, <2>3 DEF Undo, UndoStart
    <3>2. mainWindow = "none"
      BY <1>0, <2>1, <2>3
    <3> QED BY <2>1, <3>1, <3>2
  <2> QED BY <2>2, <2>3
<1> QED BY <1>1, <1>2

(* A tick adds rows, to whichever index is there when it ends.              *)
LEMMA TickStep ==
    ASSUME ShellInv, NEW ep \in Endpoints, EndTick(ep)
    PROVE  ShellInv'
<1> USE DEF ShellInv, Shapes, SchemaStages, BootJob, SaveJob, ChangeJob, Windows, BackendStages,
        Coherent, IndexerHeld, ServesFullSchema, At, Usable, disk, windows, services
<1>1. CASE db' = db
  BY <1>1, ShellUntouched DEF EndTick
<1>2. CASE db' # db
  <2>1. db # None /\ db \in Databases /\ db' = [db EXCEPT !.rows = db.rows \cup {ep}]
    BY <1>2 DEF EndTick
  <2>2. {ep} \in SUBSET Endpoints
    OBVIOUS
  <2>3. /\ db' \in Databases /\ db' # None /\ db'.schema = db.schema
        /\ db'.tables = db.tables /\ db'.stamp = db.stamp
    BY <2>1, <2>2, RowsAdded
  <2>4. /\ job' = job /\ flow' = flow /\ config' = config /\ build' = build
        /\ currentConfig' = currentConfig /\ setupWindow' = setupWindow
        /\ mainWindow' = mainWindow /\ backend' = backend /\ child' = child
        /\ indexer' = indexer
    BY DEF EndTick
  <2>5. Running' = Running
    BY <2>4 DEF Running
  <2> QED BY <2>1, <2>3, <2>4, <2>5
<1> QED BY <1>1, <1>2

(* Every step keeps the shell's invariant.                                  *)
LEMMA NextShell == ShellInv /\ [Next]_vars => ShellInv'
<1> SUFFICES ASSUME ShellInv, [Next]_vars PROVE ShellInv'
  OBVIOUS
<1>1. CASE Launch \/ Upgrade \/ Crash \/ WillQuit
  BY <1>1, ProcessSteps
<1>2. CASE JobStep
  BY <1>2, VerifyStep, ReplaceSteps, IndexSteps, ServiceSteps, OutcomeSteps DEF JobStep
<1>3. CASE \/ Loaded \/ CloseSetup \/ CloseMain
           \/ \E ep \in Endpoints : Save(ep) \/ ChangeEndpoints(ep)
  BY <1>3, WindowSteps
<1>4. CASE \E ep \in Endpoints : EndTick(ep)
  BY <1>4, TickStep
<1>5. CASE StartTick \/ Bridge \/ UNCHANGED vars
  BY <1>5, ShellUntouched DEF StartTick, Bridge, vars, disk, windows, services
<1> QED BY <1>1, <1>2, <1>3, <1>4, <1>5 DEF Next

-----------------------------------------------------------------------------
(* A new process knows no request and no page.                              *)
LEMMA ForgottenBridge ==
    ASSUME request' = [r \in Requests |-> Unused],
           page' = [r \in Requests |-> [b \in Browsers |-> "none"]],
           connectedAccounts' = {}
    PROVE  BridgeInv'
BY DEF BridgeInv, BridgeTypeOK, Unused

(* The states of a page.                                                    *)
PageStates == {"none", "open", "ready", "stale", "silent", "signing",
               "error", "done", "dropped"}

(* A page that moves on while the requests stay keeps the bridge in order   *)
(* when Auro is where it claims to be, nobody had answered on it, and it is *)
(* dropped only after the request was taken.                                *)
LEMMA PageMoves ==
    ASSUME BridgeInv, NEW r \in Requests, NEW b \in Browsers, NEW s \in PageStates,
           Turn(r, b, s), UNCHANGED <<request, connectedAccounts>>,
           page[r][b] # "done", request[r].state # "unused",
           s \in {"signing", "error", "done"} => b \in HasAuro,
           s = "dropped" => request[r].state # "pending"
    PROVE  BridgeInv'
<1>1. /\ page'[r][b] = s
      /\ \A q \in Requests, c \in Browsers : q # r \/ c # b => page'[q][c] = page[q][c]
  BY DEF Turn, BridgeInv, BridgeTypeOK
<1>2. page' \in [Requests -> [Browsers -> PageStates]]
  BY DEF Turn, BridgeInv, BridgeTypeOK, PageStates
<1>3. BridgeTypeOK'
  BY <1>2 DEF BridgeInv, BridgeTypeOK, PageStates
<1>4. ASSUME NEW q \in Requests
      PROVE  /\ request'[q].state = "unused" => \A c \in Browsers : page'[q][c] = "none"
             /\ request'[q].state \in {"resolved", "rejected"} =>
                  \E c \in HasAuro : page'[q][c] = "done"
             /\ \A c \in Browsers :
                  /\ page'[q][c] \in {"signing", "error", "done"} => c \in HasAuro
                  /\ page'[q][c] = "dropped" => request'[q].state # "pending"
  <2>1. request' = request
    OBVIOUS
  <2>2. request[q].state = "unused" => \A c \in Browsers : page'[q][c] = "none"
    BY <1>1 DEF BridgeInv
  <2>3. ASSUME request[q].state \in {"resolved", "rejected"}
        PROVE  \E c \in HasAuro : page'[q][c] = "done"
    <3>1. PICK c \in HasAuro : page[q][c] = "done"
      BY <2>3 DEF BridgeInv
    <3>2. page'[q][c] = "done"
      BY <1>1, <3>1, BridgeConstants
    <3> QED BY <3>2
  <2>4. ASSUME NEW c \in Browsers
        PROVE  /\ page'[q][c] \in {"signing", "error", "done"} => c \in HasAuro
               /\ page'[q][c] = "dropped" => request[q].state # "pending"
    BY <1>1 DEF BridgeInv
  <2> QED BY <2>1, <2>2, <2>3, <2>4
<1> QED BY <1>3, <1>4 DEF BridgeInv

(* A page exists only for a request that was made.                          *)
LEMMA PageHasRequest ==
    ASSUME BridgeInv, NEW r \in Requests, NEW b \in Browsers, page[r][b] # "none"
    PROVE  request[r].state # "unused"
BY DEF BridgeInv

(* A request's new record has its shape.                                    *)
LEMMA RequestTaken ==
    ASSUME BridgeInv, NEW r \in Requests, NEW state \in {"resolved", "rejected", "timedout"},
           request' = [request EXCEPT ![r].state = state]
    PROVE  /\ request' \in [Requests ->
                [method : Methods \cup {None}, signer : Accounts \cup {None},
                 state : {"unused", "pending", "resolved", "rejected", "timedout"}]]
           /\ request'[r].state = state
           /\ \A q \in Requests \ {r} : request'[q] = request[q]
BY DEF BridgeInv, BridgeTypeOK

(* The callback takes a pending request, or is dropped.                     *)
LEMMA CallbackStep ==
    ASSUME BridgeInv, NEW r \in Requests, NEW b \in Browsers,
           NEW answer \in {"resolved", "rejected"},
           page[r][b] \in {"signing", "error"}, callback(r, b, answer)
    PROVE  BridgeInv'
<1>1. b \in HasAuro /\ request[r].state # "unused" /\ page[r][b] # "done"
  BY PageHasRequest DEF BridgeInv
<1>2. CASE request[r].state # "pending"
  <2>1. Turn(r, b, "dropped") /\ UNCHANGED <<request, connectedAccounts>>
    BY <1>2 DEF callback
  <2>2. "dropped" \in PageStates
    BY DEF PageStates
  <2> QED BY <1>1, <1>2, <2>1, <2>2, PageMoves
<1>3. CASE request[r].state = "pending"
  <2>1. request' = [request EXCEPT ![r].state = answer] /\ Turn(r, b, "done")
    BY <1>3 DEF callback
  <2>2. connectedAccounts' \subseteq Accounts
    BY <1>3 DEF callback, BridgeInv, BridgeTypeOK
  <2>3. /\ page'[r][b] = "done"
        /\ \A q \in Requests, c \in Browsers : q # r \/ c # b => page'[q][c] = page[q][c]
    BY <2>1 DEF Turn, BridgeInv, BridgeTypeOK
  <2>4. page' \in [Requests -> [Browsers -> PageStates]]
    BY <2>1 DEF Turn, BridgeInv, BridgeTypeOK, PageStates
  <2>5. BridgeTypeOK'
    BY <2>1, <2>2, <2>4, RequestTaken DEF BridgeTypeOK, PageStates
  <2>6. /\ request'[r].state = answer
        /\ \A q \in Requests \ {r} : request'[q] = request[q]
    BY <2>1, RequestTaken
  <2>7. ASSUME NEW q \in Requests
        PROVE  /\ request'[q].state = "unused" => \A c \in Browsers : page'[q][c] = "none"
               /\ request'[q].state \in {"resolved", "rejected"} =>
                    \E c \in HasAuro : page'[q][c] = "done"
               /\ \A c \in Browsers :
                    /\ page'[q][c] \in {"signing", "error", "done"} => c \in HasAuro
                    /\ page'[q][c] = "dropped" => request'[q].state # "pending"
    <3>1. CASE q = r
      BY <1>1, <2>3, <2>6, <3>1 DEF BridgeInv
    <3>2. CASE q # r
      <4>1. request'[q] = request[q] /\ \A c \in Browsers : page'[q][c] = page[q][c]
        BY <2>3, <2>6, <3>2
      <4>2. HasAuro \subseteq Browsers
        BY BridgeConstants
      <4> QED BY <4>1, <4>2 DEF BridgeInv
    <3> QED BY <3>1, <3>2
  <2> QED BY <2>5, <2>7 DEF BridgeInv
<1> QED BY <1>2, <1>3

(* Every step of a page, and the timeout.                                   *)
LEMMA BridgeSteps ==
    ASSUME BridgeInv, BridgeStep
    PROVE  BridgeInv'
<1>1. ASSUME NEW r \in Requests, NEW b \in Browsers, CopyUrl(r, b)
      PROVE  BridgeInv'
  <2>1. Turn(r, b, "open") /\ UNCHANGED <<request, connectedAccounts>> /\ page[r][b] # "done"
    BY <1>1 DEF CopyUrl
  <2>2. request[r].state # "unused"
    BY <1>1, PageHasRequest, BridgeConstants DEF CopyUrl
  <2>3. "open" \in PageStates
    BY DEF PageStates
  <2> QED BY <2>1, <2>2, <2>3, PageMoves
<1>2. ASSUME NEW r \in Requests, NEW b \in Browsers, getPayload(r, b)
      PROVE  BridgeInv'
  <2>1. PICK s \in {"ready", "stale"} : Turn(r, b, s)
    BY <1>2 DEF getPayload
  <2>2. page[r][b] = "open" /\ UNCHANGED <<request, connectedAccounts>>
    BY <1>2 DEF getPayload
  <2>3. s \in PageStates /\ request[r].state # "unused"
    BY <2>1, <2>2, PageHasRequest DEF PageStates
  <2> QED BY <2>1, <2>2, <2>3, PageMoves
<1>3. ASSUME NEW r \in Requests, NEW b \in Browsers, waitForAuro(r, b)
      PROVE  BridgeInv'
  <2>1. PICK s \in {"silent", "error", "signing"} :
          Turn(r, b, s) /\ (s # "silent" => b \in HasAuro)
    BY <1>3 DEF waitForAuro, AuroNotFound
  <2>2. page[r][b] \in {"ready", "stale"} /\ UNCHANGED <<request, connectedAccounts>>
    BY <1>3 DEF waitForAuro
  <2>3. s \in PageStates /\ request[r].state # "unused"
    BY <2>1, <2>2, PageHasRequest DEF PageStates
  <2> QED BY <2>1, <2>2, <2>3, PageMoves
<1>4. ASSUME NEW r \in Requests, NEW b \in Browsers, Answer(r, b)
      PROVE  BridgeInv'
  BY <1>4, CallbackStep DEF Answer
<1>5. ASSUME NEW r \in Requests, requestTimeout(r)
      PROVE  BridgeInv'
  <2>1. /\ request[r].state = "pending" /\ page' = page
        /\ connectedAccounts' = connectedAccounts
        /\ request' = [request EXCEPT ![r].state = "timedout"]
    BY <1>5 DEF requestTimeout
  <2>2. BridgeTypeOK'
    BY <2>1, RequestTaken DEF BridgeInv, BridgeTypeOK
  <2>3. /\ request'[r].state = "timedout"
        /\ \A q \in Requests \ {r} : request'[q] = request[q]
    BY <2>1, RequestTaken
  <2> QED BY <2>1, <2>2, <2>3 DEF BridgeInv
<1> QED BY <1>1, <1>2, <1>3, <1>4, <1>5 DEF BridgeStep

(* A new request replaces one that is not pending.                          *)
LEMMA RequestStep ==
    ASSUME BridgeInv, NEW r \in Requests, NEW method \in Methods,
           handleAuroRequest(r, method)
    PROVE  BridgeInv'
<1>1. PICK signer \in transactionFeePayer(method) :
        request' = [request EXCEPT ![r] =
                      [method |-> method, signer |-> signer, state |-> "pending"]]
  BY DEF handleAuroRequest
<1>2. signer \in Accounts \cup {None}
  BY <1>1 DEF transactionFeePayer, BridgeInv, BridgeTypeOK
<1>3. /\ page' = [page EXCEPT ![r] = [b \in Browsers |-> IF b = Default THEN "open" ELSE "none"]]
      /\ connectedAccounts' = connectedAccounts
  BY DEF handleAuroRequest
<1>4. BridgeTypeOK'
  BY <1>1, <1>2, <1>3 DEF BridgeInv, BridgeTypeOK
<1>5. /\ request'[r].state = "pending"
      /\ \A b \in Browsers : page'[r][b] \in {"open", "none"}
      /\ \A q \in Requests \ {r} : request'[q] = request[q] /\ page'[q] = page[q]
  BY <1>1, <1>3 DEF BridgeInv, BridgeTypeOK
<1> QED BY <1>4, <1>5 DEF BridgeInv

(* Every step of the application keeps the bridge in order.                 *)
LEMMA NextBridge == BridgeInv /\ [Next]_vars => BridgeInv'
<1> SUFFICES ASSUME BridgeInv, [Next]_vars PROVE BridgeInv'
  OBVIOUS
<1>1. CASE UNCHANGED bridge
  BY <1>1 DEF bridge, BridgeInv, BridgeTypeOK
<1>2. CASE Forgotten
  BY <1>2, ForgottenBridge DEF Forgotten
<1>3. CASE Bridge
  BY <1>3, RequestStep, BridgeSteps DEF Bridge
<1>4. Launch \/ Upgrade => UNCHANGED bridge
  BY DEF Launch, Upgrade
<1>5. Crash \/ WillQuit => Forgotten \/ UNCHANGED bridge
  BY DEF Crash, WillQuit, Gone
<1>6. JobStep => Forgotten \/ UNCHANGED bridge
  BY DEF JobStep, Verify, SaveStops, SaveDrops, SavePersists, ChangePersists, ChangeRelaunches,
         Prepare, Schema, Stamp, Connect, Index, StartFails, NextReady, NextExits, ListenFails,
         Started, Undo
<1>7. (\E ep \in Endpoints : Save(ep) \/ ChangeEndpoints(ep) \/ EndTick(ep)) => UNCHANGED bridge
  BY DEF Save, ChangeEndpoints, EndTick
<1>8. Loaded \/ CloseSetup \/ CloseMain \/ StartTick => UNCHANGED bridge
  BY DEF Loaded, CloseSetup, CloseMain, StartTick
<1>9. UNCHANGED vars => UNCHANGED bridge
  BY DEF vars
<1> QED BY <1>1, <1>2, <1>3, <1>4, <1>5, <1>6, <1>7, <1>8, <1>9 DEF Next

-----------------------------------------------------------------------------
(* The shell's bookkeeping holds in every state, across launches.           *)
THEOREM ShellBookkeeping == Spec => []ShellInv
BY InitShell, NextShell, PTL DEF Spec

(* No kill, failed start or update leaves a backend on an index that lacks  *)
(* a table or was stamped by another release, whatever the number of        *)
(* statements and releases (backend-embed.ts startEmbeddedBackend).         *)
THEOREM FullSchemaServed == Spec => []ServesFullSchema
<1>1. ShellInv => ServesFullSchema
  BY DEF ShellInv
<1> QED BY <1>1, ShellBookkeeping, PTL

(* The main window, config.json and the backend agree whenever no change is *)
(* under way, after any sequence of saves, failures, changes and relaunches *)
(* (main.ts save, startServices, changeEndpointsAndRelaunch).               *)
THEOREM AppStaysCoherent == Spec => []AppCoherent
<1>1. ShellInv => AppCoherent
  BY DEF ShellInv, Coherent, AppCoherent
<1> QED BY <1>1, ShellBookkeeping, PTL

(* No indexer runs without the handle that stops it, and nothing runs       *)
(* behind a setup window that waits (main.ts stopRunningServices).          *)
THEOREM NothingStaysRunning == Spec => []NothingLeftRunning
<1>1. ShellInv => NothingLeftRunning
  BY DEF ShellInv, IndexerHeld, BackendStages, NothingLeftRunning
<1> QED BY <1>1, ShellBookkeeping, PTL

(* An approval in Auro is dropped only if the request had timed out or      *)
(* another browser had answered, for any number of requests, tabs and       *)
(* browsers (auro-bridge ipc.ts, page.html).                                *)
THEOREM ApprovalsReachApp == Spec => []ApprovalReachesApp
<1>1. Init => BridgeInv
  BY DEF Init, BridgeInit, BridgeInv, BridgeTypeOK, Unused
<1>2. BridgeInv => ApprovalReachesApp
  <2> SUFFICES ASSUME BridgeInv, NEW r \in Requests, NEW b \in Browsers, page[r][b] = "dropped"
               PROVE  \/ request[r].state = "timedout"
                      \/ \E other \in HasAuro \ {b} : page[r][other] = "done"
    BY DEF ApprovalReachesApp
  <2>1. request[r].state \in {"resolved", "rejected", "timedout"}
    BY DEF BridgeInv, BridgeTypeOK
  <2> QED BY <2>1 DEF BridgeInv
<1> QED BY <1>1, <1>2, NextBridge, PTL DEF Spec
=============================================================================
