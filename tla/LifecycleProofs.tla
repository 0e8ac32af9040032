--------------------------- MODULE LifecycleProofs ---------------------------
(***************************************************************************)
(* Proofs about Lifecycle for any number of modules: whatever fails during *)
(* the boot, the actor starts from a state of ControlPlane, and modules    *)
(* without a failure of their own are as the configuration has them.       *)
(***************************************************************************)
EXTENDS Lifecycle, TLAPS

Booted == {"dir", "bind", "actor"}
Early == {"off", "check", "config"}

Types ==
  /\ step \in Early \cup Booted \cup {"load", "init"}
  /\ todo \subseteq Modules
  /\ active_skeletons \subseteq Modules
  /\ state_map \in [Modules -> BOOLEAN]
  /\ is_active \in [Modules -> BOOLEAN]
  /\ filled \subseteq Modules /\ enabled \subseteq Modules
  /\ unsynced \subseteq Modules /\ hit \subseteq Modules
  /\ toggled \subseteq Modules

(* Before the flags are written they are all down.                         *)
Down ==
  /\ state_map = AllFalse /\ is_active = AllFalse
  /\ unsynced = {} /\ toggled = {}

(* The two flags of a module that nobody toggled.                          *)
Synced ==
  /\ unsynced \subseteq active_skeletons
  /\ \A m \in Modules \ toggled :
       /\ state_map[m] <=> (is_active[m] /\ m \notin unsynced)
       /\ m \notin active_skeletons => ~is_active[m]

(* Where a module without a failure is on its way.                         *)
AsConfigured(m) ==
  m \in filled /\ (state_map[m] <=> m \in enabled)
               /\ (is_active[m] <=> m \in enabled)

Underway ==
  /\ step = "load" =>
       \A m \in Modules \ hit : m \in todo \cup active_skeletons
  /\ step = "init" =>
       /\ todo \subseteq active_skeletons /\ todo \cap unsynced = {}
       /\ \A m \in Modules \ hit : m \in todo \/ AsConfigured(m)
  /\ step \in Booted => \A m \in Modules \ (hit \cup toggled) : AsConfigured(m)

IInv ==
  /\ Types
  /\ step \in Early \cup {"load"} => Down
  /\ step # "actor" => toggled = {}
  /\ Synced /\ Underway

(* A process that begins or is gone has nothing set.                       *)
LEMMA BlankSafe ==
  ASSUME NEW s \in {"off", "check"}, Blank(s)
  PROVE  IInv'
<1>1. state_map' \in [Modules -> BOOLEAN] /\ is_active' \in [Modules -> BOOLEAN]
      /\ \A m \in Modules : ~state_map'[m] /\ ~is_active'[m]
  BY DEF Blank, AllFalse
<1>2. Types' /\ Down'
  BY <1>1 DEF Blank, Types, Down, Early
<1>3. Synced' /\ Underway'
  BY <1>1 DEF Blank, Synced, Underway, Booted
<1> QED
  BY <1>2, <1>3 DEF IInv, Blank

(* The configuration is read.                                              *)
LEMMA ConfiguredSafe ==
  ASSUME IInv, NEW mods, mods \subseteq Modules, step = "config",
         Configured(mods)
  PROVE  IInv'
BY DEF IInv, Configured, kernelVars, Types, Down, Synced, Underway, Early,
       Booted, AsConfigured

LEMMA LoadConfigSafe ==
  ASSUME IInv, config \in ConfigFiles, LoadConfig
  PROVE  IInv'
<1>1. CASE Exit("failure")
  BY <1>1, BlankSafe DEF Exit
<1>2. CASE Configured(config.wanted) /\ config.kind = "good"
  <2>1. config.wanted \subseteq Modules
    BY DEF ConfigFiles
  <2> QED
    BY <1>2, <2>1, ConfiguredSafe DEF LoadConfig
<1>3. CASE Configured({})
  BY <1>3, ConfiguredSafe DEF LoadConfig
<1> QED
  BY <1>1, <1>2, <1>3 DEF LoadConfig

LEMMA LoadModuleSafe ==
  ASSUME IInv, NEW m \in Modules, LoadModule(m)
  PROVE  IInv'
<1>1. active_skeletons \subseteq active_skeletons'
      /\ active_skeletons' \subseteq Modules /\ hit \subseteq hit'
      /\ hit' \subseteq Modules /\ m \in active_skeletons' \cup hit'
  BY DEF LoadModule, IInv, Types
<1>2. step = "load" /\ step' = "load" /\ Down /\ todo' = todo \ {m}
      /\ UNCHANGED <<state_map, is_active, unsynced, toggled, filled, enabled>>
  BY DEF LoadModule, IInv
<1>3. \A x \in Modules : ~state_map[x] /\ ~is_active[x]
  BY <1>2 DEF Down, AllFalse
<1>4. Types' /\ Down'
  BY <1>1, <1>2 DEF IInv, Types, Down
<1>5. Synced'
  BY <1>1, <1>2, <1>3 DEF Down, Synced
<1>6. Underway'
  BY <1>1, <1>2 DEF IInv, Underway, Booted
<1> QED
  BY <1>2, <1>4, <1>5, <1>6 DEF IInv, Down, Early

LEMMA LoadedAllSafe ==
  ASSUME IInv, LoadedAll
  PROVE  IInv'
BY DEF IInv, LoadedAll, kernelVars, Types, Down, Synced, Underway, Early,
       Booted, AsConfigured

LEMMA InitModuleSafe ==
  ASSUME IInv, NEW m \in Modules, InitModule(m)
  PROVE  IInv'
<1>1. PICK wrote \in BOOLEAN, inited \in BOOLEAN :
        /\ WriteFlag(m, wrote) /\ FillMaps(m, inited)
        /\ wrote /\ inited => UNCHANGED hit
        /\ ~(wrote /\ inited) => hit' = hit \cup {m}
  BY DEF InitModule
<1>2. step = "init" /\ step' = "init" /\ m \in todo /\ todo' = todo \ {m}
      /\ UNCHANGED <<active_skeletons, toggled, enabled>>
      /\ is_active' = [is_active EXCEPT ![m] = m \in enabled]
  BY DEF InitModule
<1>3. todo \subseteq active_skeletons /\ todo \cap unsynced = {} /\ toggled = {}
  BY <1>2 DEF IInv, Underway
<1>4. /\ state_map' = [state_map EXCEPT ![m] = wrote /\ m \in enabled]
      /\ unsynced' = (IF wrote THEN unsynced ELSE unsynced \cup {m})
      /\ filled' = (IF inited THEN filled \cup {m} ELSE filled)
  BY <1>1 DEF WriteFlag, FillMaps
<1>5. Types'
  BY <1>1, <1>2, <1>4 DEF IInv, Types
<1>6. /\ state_map'[m] <=> (wrote /\ m \in enabled)
      /\ is_active'[m] <=> m \in enabled
      /\ \A x \in Modules \ {m} :
           state_map'[x] = state_map[x] /\ is_active'[x] = is_active[x]
  BY <1>2, <1>4 DEF IInv, Types
<1>7. Synced'
  <2>1. unsynced' \subseteq active_skeletons'
    BY <1>2, <1>3, <1>4 DEF IInv, Synced
  <2>2. ASSUME NEW x \in Modules
        PROVE  /\ state_map'[x] <=> (is_active'[x] /\ x \notin unsynced')
               /\ x \notin active_skeletons' => ~is_active'[x]
    <3>1. CASE x = m
      BY <3>1, <1>2, <1>3, <1>4, <1>6
    <3>2. CASE x # m
      BY <3>2, <1>2, <1>3, <1>4, <1>6 DEF IInv, Synced
    <3> QED
      BY <3>1, <3>2
  <2> QED
    BY <2>1, <2>2 DEF Synced
<1>8. ASSUME NEW x \in Modules \ hit'
      PROVE  x \in todo' \/ AsConfigured(x)'
  <2>1. CASE x = m
    <3>1. wrote /\ inited
      BY <1>1, <2>1
    <3> QED
      BY <3>1, <2>1, <1>2, <1>4, <1>6 DEF AsConfigured
  <2>2. CASE x # m
    <3>1. x \notin hit
      BY <1>1
    <3>2. x \in todo \/ AsConfigured(x)
      BY <3>1, <1>2 DEF IInv, Underway
    <3> QED
      BY <3>2, <2>2, <1>2, <1>4, <1>6 DEF AsConfigured
  <2> QED
    BY <2>1, <2>2
<1>9. todo' \cap unsynced' = {} /\ todo' \subseteq active_skeletons'
  BY <1>2, <1>3, <1>4
<1> QED
  BY <1>2, <1>3, <1>5, <1>7, <1>8, <1>9 DEF IInv, Underway, Early, Booted

LEMMA BootStepSafe ==
  ASSUME IInv, BuildPipeline \/ SetupSecureDir \/ BindSocket
  PROVE  IInv'
<1>1. CASE Exit("failure")
  BY <1>1, BlankSafe DEF Exit
<1>2. CASE ~Exit("failure")
  <2>1. UNCHANGED <<todo, kernelVars, enabled>> /\ step' \in Booted
        /\ (step \in Booted \/ (step = "init" /\ todo = {})) /\ toggled = {}
    BY <1>2 DEF BuildPipeline, SetupSecureDir, BindSocket, IpcStarted, Booted,
                IInv
  <2>2. Types'
    BY <2>1 DEF IInv, Types, kernelVars
  <2>3. Synced'
    BY <2>1 DEF IInv, Synced, kernelVars
  <2>4. \A m \in Modules \ hit : AsConfigured(m)
    BY <2>1 DEF IInv, Underway
  <2>5. Underway'
    BY <2>1, <2>4 DEF Underway, AsConfigured, kernelVars, Booted
  <2> QED
    BY <2>1, <2>2, <2>3, <2>5 DEF IInv, Booted, Early, kernelVars
<1> QED
  BY <1>1, <1>2

LEMMA ToggleSafe ==
  ASSUME IInv, NEW m \in Modules, Toggle(m)
  PROVE  IInv'
<1>1. PICK on \in BOOLEAN :
        /\ state_map' = [state_map EXCEPT ![m] = on]
        /\ is_active' = [is_active EXCEPT ![m] = on]
  BY DEF Toggle
<1>2. step = "actor" /\ step' = "actor" /\ toggled' = toggled \cup {m}
      /\ UNCHANGED <<todo, active_skeletons, filled, unsynced, hit, enabled>>
  BY DEF Toggle
<1>3. Types'
  BY <1>1, <1>2 DEF IInv, Types
<1>4. \A x \in Modules \ {m} :
        state_map'[x] = state_map[x] /\ is_active'[x] = is_active[x]
  BY <1>1 DEF IInv, Types
<1>5. Synced'
  BY <1>2, <1>4 DEF IInv, Synced
<1>6. Underway'
  BY <1>2, <1>4 DEF IInv, Underway, AsConfigured, Booted
<1> QED
  BY <1>2, <1>3, <1>5, <1>6 DEF IInv, Early

(* Steps that leave the modules alone.                                     *)
LEMMA FrameSafe ==
  ASSUME IInv, UNCHANGED <<step, todo, kernelVars, enabled>>
  PROVE  IInv'
BY DEF IInv, kernelVars, Types, Down, Synced, Underway, AsConfigured

LEMMA StepSafe ==
  ASSUME IInv, config \in ConfigFiles, [Next]_vars
  PROVE  IInv'
<1>1. CASE Start
  BY <1>1, BlankSafe DEF Start
<1>2. CASE CheckHost
  <2>1. CASE Exit("failure")
    BY <2>1, BlankSafe DEF Exit
  <2>2. CASE step' = "config" /\ UNCHANGED <<todo, kernelVars, enabled>>
    BY <1>2, <2>2 DEF CheckHost, IInv, kernelVars, Types, Down, Synced,
                      Underway, Early, Booted
  <2> QED
    BY <1>2, <2>1, <2>2 DEF CheckHost
<1>3. CASE LoadConfig
  BY <1>3, LoadConfigSafe
<1>4. CASE \E m \in Modules : LoadModule(m)
  BY <1>4, LoadModuleSafe
<1>5. CASE \E m \in Modules : InitModule(m)
  BY <1>5, InitModuleSafe
<1>6. CASE LoadedAll
  BY <1>6, LoadedAllSafe
<1>7. CASE BuildPipeline \/ SetupSecureDir \/ BindSocket
  BY <1>7, BootStepSafe
<1>8. CASE Disconnected \/ Crash
  BY <1>8, BlankSafe DEF Disconnected, Crash, Exit
<1>9. CASE \E m \in Modules : Toggle(m)
  BY <1>9, ToggleSafe
<1>10. CASE IpcPanic \/ OpenSink \/ EditConfig \/ Stage \/ UNCHANGED vars
  <2>1. UNCHANGED <<step, todo, kernelVars, enabled>>
    BY <1>10 DEF IpcPanic, OpenSink, EditConfig, Stage, vars, processVars
  <2> QED
    BY <2>1, FrameSafe
<1> QED
  BY <1>1, <1>2, <1>3, <1>4, <1>5, <1>6, <1>7, <1>8, <1>9, <1>10 DEF Next, Daemon

LEMMA ConfigFileStays ==
  ASSUME config \in ConfigFiles, [Next]_vars
  PROVE  config' \in ConfigFiles
BY DEF Next, Daemon, vars, fileVars, Start, CheckHost, LoadConfig, LoadModule,
       InitModule, LoadedAll, BuildPipeline, SetupSecureDir, BindSocket,
       IpcStarted, Disconnected, Crash, Toggle, IpcPanic, OpenSink, EditConfig,
       Stage

LEMMA InitSafe ==
  ASSUME Init
  PROVE  IInv /\ config \in ConfigFiles
<1>1. \A m \in Modules : ~state_map[m] /\ ~is_active[m]
  BY DEF Init, AllFalse
<1>2. Types /\ Down
  BY DEF Init, AllFalse, Types, Down, Early
<1>3. Synced /\ Underway
  BY <1>1 DEF Init, Synced, Underway, Booted
<1> QED
  BY <1>2, <1>3 DEF IInv, Init

(* The inductive invariant of the boot.                                    *)
LEMMA Invariance == Spec => [](IInv /\ config \in ConfigFiles)
<1>1. Init => IInv /\ config \in ConfigFiles
  BY InitSafe
<1>2. IInv /\ config \in ConfigFiles /\ [Next]_vars
        => IInv' /\ (config \in ConfigFiles)'
  BY StepSafe, ConfigFileStays
<1> QED
  BY <1>1, <1>2, PTL DEF Spec

(* After any boot, failures and restarts included, the actor starts in a   *)
(* state from which ControlPlane's properties are proved.                  *)
THEOREM BootHandsOver == Spec => []HandsOver
<1>1. IInv => HandsOver
  <2> SUFFICES ASSUME IInv, step = "actor", toggled = {}
               PROVE  Plane!Init
    BY DEF HandsOver
  <2>1. state_map = [m \in Modules |-> is_active[m] /\ m \notin unsynced]
    BY DEF IInv, Types, Synced
  <2>2. \A m \in Modules \ active_skeletons : ~is_active[m]
    BY DEF IInv, Synced
  <2>3. active_skeletons \in SUBSET Modules /\ unsynced \in SUBSET active_skeletons
        /\ is_active \in [Modules -> BOOLEAN]
    BY DEF IInv, Types, Synced
  <2> QED
    BY <2>1, <2>2, <2>3 DEF Plane!Init, Plane!NoRequest
<1> QED
  BY <1>1, Invariance, PTL

(* The configuration governs every module that had no failure of its own.  *)
THEOREM ConfigurationGoverns == Spec => []ConfigGoverns
<1>1. IInv => ConfigGoverns
  BY DEF IInv, Underway, AsConfigured, ConfigGoverns, Booted
<1> QED
  BY <1>1, Invariance, PTL
-----------------------------------------------------------------------------
(* Before the control plane is started nobody holds the socket's sender,   *)
(* the umask is untouched and no sink is open.                             *)
Unserved ==
  step # "actor" => sender = "main" /\ umask = "default" /\ sink = "unset"

(* Directories are prepared by others only while the daemon is down, so    *)
(* what was secured stays so until it is gone.                             *)
PathInv ==
  /\ Unserved
  /\ step = "bind" => socket_dir = "secure"
  /\ OnlyPrivatePaths

LEMMA BlankPrivate ==
  ASSUME NEW s \in {"off", "check"}, Blank(s)
  PROVE  PathInv'
BY DEF Blank, PathInv, Unserved, OnlyPrivatePaths

(* The steps of the boot up to the control plane.                          *)
LEMMA BootPrivate ==
  ASSUME PathInv,
         \/ CheckHost \/ LoadConfig \/ LoadedAll \/ BuildPipeline
         \/ \E m \in Modules : LoadModule(m) \/ InitModule(m)
  PROVE  PathInv'
<1>1. CASE Exit("failure")
  BY <1>1, BlankPrivate DEF Exit
<1>2. CASE ~Exit("failure")
  <2>1. /\ step # "actor" /\ step' \notin {"actor", "bind"}
        /\ UNCHANGED <<sender, umask, sink>>
    BY <1>2 DEF CheckHost, LoadConfig, Configured, LoadedAll, BuildPipeline,
                LoadModule, InitModule
  <2> QED BY <2>1 DEF PathInv, Unserved, OnlyPrivatePaths
<1> QED BY <1>1, <1>2

LEMMA SocketPrivate ==
  ASSUME PathInv, SetupSecureDir \/ BindSocket
  PROVE  PathInv'
<1>1. step # "actor" /\ sink = "unset" /\ sink' = "unset" /\ umask = "default"
      /\ sender = "main"
  BY DEF PathInv, Unserved, SetupSecureDir, BindSocket, IpcStarted
<1>2. CASE SetupSecureDir
  <2>1. \/ /\ socket_dir' = "secure" /\ step' = "bind"
           /\ UNCHANGED <<sender, umask>>
        \/ step' = "actor" /\ sender' = "none"
    BY <1>2 DEF SetupSecureDir, IpcStarted
  <2> QED BY <1>1, <2>1 DEF PathInv, Unserved, OnlyPrivatePaths
<1>3. CASE BindSocket
  <2>1. /\ step = "bind" /\ step' = "actor" /\ socket_dir' = socket_dir
        /\ (sender' = "thread" /\ umask' = umask) \/ sender' = "none"
    BY <1>3 DEF BindSocket, IpcStarted
  <2> QED BY <1>1, <2>1 DEF PathInv, Unserved, OnlyPrivatePaths
<1> QED BY <1>2, <1>3

LEMMA SinkPrivate ==
  ASSUME PathInv, OpenSink
  PROVE  PathInv'
<1>1. /\ step = "actor" /\ UNCHANGED <<step, sender, umask, socket_dir>>
      /\ sink' = "log" => log_dir' \in {"secure", "link"}
  BY DEF OpenSink, Secured, Fallback
<1> QED BY <1>1 DEF PathInv, Unserved, OnlyPrivatePaths

(* For every number of faults and edits: what was prepared in the places   *)
(* of the socket or the log is never what the daemon serves or writes, and *)
(* the tight umask of a failed bind is not left to a serving daemon.       *)
THEOREM PathsArePrivate == Spec => []OnlyPrivatePaths
<1>1. Init => PathInv
  BY DEF Init, PathInv, Unserved, OnlyPrivatePaths
<1>2. PathInv /\ [Next]_vars => PathInv'
  <2> SUFFICES ASSUME PathInv, [Next]_vars PROVE PathInv'
    OBVIOUS
  <2>1. CASE Start \/ Disconnected \/ Crash
    BY <2>1, BlankPrivate DEF Start, Disconnected, Crash, Exit
  <2>2. CASE \/ CheckHost \/ LoadConfig \/ LoadedAll \/ BuildPipeline
             \/ \E m \in Modules : LoadModule(m) \/ InitModule(m)
    BY <2>2, BootPrivate
  <2>3. CASE SetupSecureDir \/ BindSocket
    BY <2>3, SocketPrivate
  <2>4. CASE OpenSink
    BY <2>4, SinkPrivate
  <2>5. CASE (\E m \in Modules : Toggle(m)) \/ EditConfig \/ UNCHANGED vars
    <3>1. UNCHANGED <<step, sender, umask, sink, socket_dir, log_dir>>
      BY <2>5 DEF Toggle, EditConfig, vars, processVars, fileVars
    <3> QED BY <3>1 DEF PathInv, Unserved, OnlyPrivatePaths
  <2>6. CASE IpcPanic
    BY <2>6 DEF IpcPanic, fileVars, PathInv, Unserved, OnlyPrivatePaths
  <2>7. CASE Stage
    BY <2>7 DEF Stage, processVars, PathInv, Unserved, OnlyPrivatePaths
  <2> QED BY <2>1, <2>2, <2>3, <2>4, <2>5, <2>6, <2>7 DEF Next, Daemon
<1>3. PathInv => OnlyPrivatePaths
  BY DEF PathInv
<1> QED BY <1>1, <1>2, <1>3, PTL DEF Spec
=============================================================================
