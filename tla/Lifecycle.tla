------------------------------ MODULE Lifecycle ------------------------------
(***************************************************************************)
(* The life of the daemon's process: main() from the configuration to the  *)
(* actor's loop, with the failures that end it and those that are only     *)
(* logged; the set-up of the control socket; the SIEM sink, which is       *)
(* chosen once; the exit, and the service manager that starts it again.    *)
(*                                                                         *)
(* The control plane appears as a toggle of both flags, ControlPlane has   *)
(* its steps.  Files are known by what the code tests of them.             *)
(***************************************************************************)
EXTENDS Naturals

CONSTANTS
  Modules,    \* available_modules(), which is also the registry
  MaxFaults,  \* bound: operations that fail
  MaxEdits    \* bound: changes of files and runtime toggles

ASSUME LifecycleAssumption ==
  MaxFaults \in Nat /\ MaxEdits \in Nat

VARIABLES
  unit,             \* the service: "starting", "up", "failed", "dead"
  step,             \* where main() is
  todo,             \* modules the current loop of the boot has yet to visit
  active_skeletons, state_map, is_active,
  filled,           \* modules whose maps init has filled
  enabled,          \* DaemonConfig.modules, those that are true
  sender,           \* who holds the channel's tx: "main", "thread", "none"
  umask,
  sink,             \* SIEM_LOG_SINK
  (* files *)
  config,           \* the configuration file
  socket_dir, log_dir,
  (* history *)
  unsynced,         \* modules whose flag could not be written at boot
  hit,              \* modules with any operation that failed at boot
  toggled,          \* modules that were toggled since the boot
  faults, edits

kernelVars == <<active_skeletons, state_map, is_active, filled, unsynced, hit,
                toggled>>
processVars == <<step, todo, kernelVars, enabled, sender, umask, sink>>
fileVars == <<config, socket_dir, log_dir>>
vars == <<unit, processVars, fileVars, faults, edits>>

(* What a path can be: "insecure" has a foreign owner or mode, "link" is a *)
(* symbolic link to a directory.  What the file can be: "sized" also gives *)
(* io_restrict_map_size its number, in the table of the modules' flags.    *)
Paths == {"absent", "secure", "insecure", "link", "file"}
ConfigFiles ==
  [kind : {"absent", "foreign", "malformed"}, wanted : {{}}]
    \cup [kind : {"good", "sized"}, wanted : SUBSET Modules]

AllFalse == [m \in Modules |-> FALSE]

(* A fresh process, and what is left when it is gone: the kernel detaches  *)
(* the hooks of the skeletons that are dropped.                            *)
Blank(s) ==
  /\ step' = s
  /\ todo' = {}
  /\ active_skeletons' = {} /\ state_map' = AllFalse /\ is_active' = AllFalse
  /\ filled' = {} /\ unsynced' = {} /\ hit' = {} /\ toggled' = {}
  /\ enabled' = {} /\ sender' = "main" /\ umask' = "default"
  /\ sink' = "unset"

Init ==
  /\ unit = "starting" /\ step = "off" /\ todo = {}
  /\ active_skeletons = {} /\ state_map = AllFalse /\ is_active = AllFalse
  /\ filled = {} /\ unsynced = {} /\ hit = {} /\ toggled = {}
  /\ enabled = {} /\ sender = "main" /\ umask = "default" /\ sink = "unset"
  /\ config \in ConfigFiles
  /\ socket_dir \in Paths /\ log_dir \in Paths
  /\ faults = 0 /\ edits = 0

Fault == faults < MaxFaults /\ faults' = faults + 1
NoFault == UNCHANGED faults

(* The process ends; Restart=on-failure tells the two cases apart.         *)
Exit(result) ==
  /\ Blank("off")
  /\ unit' = IF result = "success" THEN "dead" ELSE "failed"
-----------------------------------------------------------------------------
(* systemd starts the service, at first and RestartSec after a failure.    *)
Start ==
  /\ unit \in {"starting", "failed"}
  /\ unit' = "up"
  /\ Blank("check")
  /\ UNCHANGED <<fileVars, faults, edits>>

(* Root and an active BPF LSM, or exit(1).                                 *)
CheckHost ==
  /\ step = "check"
  /\ \/ NoFault /\ step' = "config"
        /\ UNCHANGED <<unit, todo, kernelVars, enabled, sender, umask, sink>>
     \/ Fault /\ Exit("failure")
  /\ UNCHANGED <<fileVars, edits>>

Configured(mods) ==
  /\ enabled' = mods
  /\ step' = "load" /\ todo' = Modules
  /\ UNCHANGED <<unit, kernelVars, sender, umask, sink>>

LoadConfigUnwraps ==  \* mutant: a malformed file is a panic
  /\ step = "config"
  /\ \/ config.kind = "good" /\ NoFault /\ Configured(config.wanted)
     \/ config.kind = "absent" /\ NoFault /\ Configured({})
     \/ config.kind \in {"foreign", "malformed", "sized"}
        /\ NoFault /\ Exit("failure")
     \/ config.kind # "absent" /\ Fault /\ Configured({})
  /\ UNCHANGED <<fileVars, edits>>

(* DaemonConfig::load: only a file that root does not own is a panic.  A   *)
(* file that is absent, malformed or cannot be read enables nothing; nor   *)
(* does one with a number among the flags, which are a HashMap of bools.   *)
LoadConfig ==
  /\ step = "config"
  /\ \/ config.kind = "good" /\ NoFault /\ Configured(config.wanted)
     \/ config.kind \in {"absent", "malformed", "sized"}
        /\ NoFault /\ Configured({})
     \/ config.kind = "foreign" /\ NoFault /\ Exit("failure")
     \/ config.kind # "absent" /\ Fault /\ Configured({})
  /\ UNCHANGED <<fileVars, edits>>

(* load_modules: a module that cannot be loaded is left out.               *)
LoadModule(m) ==
  /\ step = "load" /\ m \in todo
  /\ \/ NoFault /\ active_skeletons' = active_skeletons \cup {m}
        /\ UNCHANGED hit
     \/ Fault /\ hit' = hit \cup {m} /\ UNCHANGED active_skeletons
  /\ todo' = todo \ {m}
  /\ UNCHANGED <<unit, step, state_map, is_active, filled, unsynced, toggled,
                 enabled, sender, umask, sink, fileVars, edits>>

LoadedAll ==
  /\ step = "load" /\ todo = {}
  /\ step' = "init" /\ todo' = active_skeletons
  /\ UNCHANGED <<unit, kernelVars, enabled, sender, umask, sink, fileVars,
                 faults, edits>>

InitModuleGivesUp(m) ==  \* mutant: `?` instead of a log line
  /\ step = "init" /\ m \in todo
  /\ \/ NoFault /\ state_map' = [state_map EXCEPT ![m] = m \in enabled]
        /\ is_active' = [is_active EXCEPT ![m] = m \in enabled]
        /\ filled' = filled \cup {m} /\ todo' = todo \ {m}
        /\ UNCHANGED <<unsynced, hit>>
     \/ Fault /\ unsynced' = unsynced \cup {m} /\ hit' = hit \cup {m}
        /\ todo' = {} /\ UNCHANGED <<state_map, is_active, filled>>
  /\ UNCHANGED <<unit, step, active_skeletons, toggled, enabled, sender, umask,
                 sink, fileVars, edits>>

InitModuleUnsynced(m) ==  \* mutant: a failed init leaves the userland flag
  /\ step = "init" /\ m \in todo
  /\ state_map' = [state_map EXCEPT ![m] = m \in enabled]
  /\ \/ NoFault /\ filled' = filled \cup {m}
        /\ is_active' = [is_active EXCEPT ![m] = m \in enabled]
        /\ UNCHANGED hit
     \/ Fault /\ hit' = hit \cup {m} /\ UNCHANGED <<filled, is_active>>
  /\ todo' = todo \ {m}
  /\ UNCHANGED <<unit, step, active_skeletons, unsynced, toggled, enabled,
                 sender, umask, sink, fileVars, edits>>

(* A flag that cannot be written leaves the zero of a new map.             *)
WriteFlag(m, ok) ==
  /\ state_map' = [state_map EXCEPT ![m] = ok /\ m \in enabled]
  /\ unsynced' = IF ok THEN unsynced ELSE unsynced \cup {m}

(* SecurityModule::init, which stops at the first map it cannot fill.      *)
FillMaps(m, ok) == filled' = IF ok THEN filled \cup {m} ELSE filled

(* initialize_active_modules: the kernel flag, init and the userland flag; *)
(* failures are only logged.                                               *)
InitModule(m) ==
  /\ step = "init" /\ m \in todo
  /\ \E wrote, inited \in BOOLEAN :
       /\ WriteFlag(m, wrote) /\ FillMaps(m, inited)
       /\ IF wrote /\ inited THEN NoFault /\ UNCHANGED hit
                             ELSE Fault /\ hit' = hit \cup {m}
  /\ is_active' = [is_active EXCEPT ![m] = m \in enabled]
  /\ todo' = todo \ {m}
  /\ UNCHANGED <<unit, step, active_skeletons, toggled, enabled, sender, umask,
                 sink, fileVars, edits>>

(* TelemetryPipeline::build(...)?, where an error is main's.               *)
BuildPipeline ==
  /\ step = "init" /\ todo = {}
  /\ \/ NoFault /\ step' = "dir"
        /\ UNCHANGED <<unit, todo, kernelVars, enabled, sender, umask, sink>>
     \/ Fault /\ Exit("failure")
  /\ UNCHANGED <<fileVars, edits>>
-----------------------------------------------------------------------------
(* start_ipc_server returns: the sender goes to the thread or is dropped.  *)
IpcStarted(who, mask) ==
  /\ step' = "actor" /\ sender' = who /\ umask' = mask
  /\ UNCHANGED <<unit, todo, kernelVars, enabled, sink, log_dir, config, edits>>

SetupSecureDirTrusts ==  \* mutant: a link is followed to a good directory
  /\ step = "dir"
  /\ \/ /\ socket_dir # "file" /\ NoFault
        /\ socket_dir' = IF socket_dir = "link" THEN "link" ELSE "secure"
        /\ step' = "bind"
        /\ UNCHANGED <<unit, todo, kernelVars, enabled, sender, umask, sink,
                       config, log_dir, edits>>
     \/ /\ IF socket_dir = "file" THEN NoFault ELSE Fault
        /\ socket_dir' \in {socket_dir, "absent"}
        /\ IpcStarted("none", umask)

(* setup_secure_dir: create, check, and if need be remove and create again.*)
(* A plain file cannot be created over; any of the calls may fail.         *)
SetupSecureDir ==
  /\ step = "dir"
  /\ \/ /\ socket_dir # "file" /\ NoFault
        /\ socket_dir' = "secure"
        /\ step' = "bind"
        /\ UNCHANGED <<unit, todo, kernelVars, enabled, sender, umask, sink,
                       config, log_dir, edits>>
     \/ /\ IF socket_dir = "file" THEN NoFault ELSE Fault
        /\ socket_dir' \in IF socket_dir \in {"insecure", "link"}
                             THEN {socket_dir, "absent"} ELSE {socket_dir}
        /\ IpcStarted("none", umask)

(* bind_socket: the umask is tight while the socket is bound, and stays so *)
(* if that fails; a socket that root does not own is removed.              *)
BindSocket ==
  /\ step = "bind"
  /\ \/ NoFault /\ IpcStarted("thread", umask)
     \/ Fault /\ \E mask \in {"tight", umask} : IpcStarted("none", mask)
  /\ UNCHANGED socket_dir
-----------------------------------------------------------------------------
(* The actor's loop while someone can send: a toggle sets both flags.      *)
Toggle(m) ==
  /\ step = "actor" /\ sender = "thread" /\ m \in active_skeletons
  /\ edits < MaxEdits /\ edits' = edits + 1
  /\ toggled' = toggled \cup {m}
  /\ \E on \in BOOLEAN :
       /\ state_map' = [state_map EXCEPT ![m] = on]
       /\ is_active' = [is_active EXCEPT ![m] = on]
  /\ UNCHANGED <<unit, step, todo, active_skeletons, filled, unsynced, hit,
                 enabled, sender, umask, sink, fileVars, faults>>

(* The handler's thread panics and drops its sender.                       *)
IpcPanic ==
  /\ step = "actor" /\ sender = "thread"
  /\ Fault
  /\ sender' = "none"
  /\ UNCHANGED <<unit, step, todo, kernelVars, enabled, umask, sink, fileVars,
                 edits>>

DisconnectedGoesOn ==  \* mutant: the loop treats it like a timeout
  /\ step = "actor" /\ sender = "none"
  /\ UNCHANGED vars

(* RecvTimeoutError::Disconnected: the loop ends and main returns Ok(()).  *)
Disconnected ==
  /\ step = "actor" /\ sender = "none"
  /\ Exit("success")
  /\ UNCHANGED <<fileVars, faults, edits>>

(* A panic of the main thread, or a signal.                                *)
Crash ==
  /\ unit = "up"
  /\ Fault
  /\ Exit("failure")
  /\ UNCHANGED <<fileVars, edits>>
-----------------------------------------------------------------------------
(* ensure_secure_directory: the directory is created, or replaced if it is *)
(* not as it should be; a link is followed.  A failure leaves it as it was *)
(* or removed.                                                             *)
Secured(dir) == IF dir = "link" THEN {"link", "secure"} ELSE {"secure"}
Unsecured(dir) == IF dir = "secure" THEN {"secure"} ELSE {dir, "absent"}

(* get_fallback_sink: a file that exists already, or nothing.              *)
Fallback == {"fallback", "none"}

(* emit_siem_event, on the first alert: the sink is opened, or else the    *)
(* fallback, for the life of the process.                                  *)
OpenSink ==
  /\ step = "actor" /\ sink = "unset" /\ \E m \in Modules : is_active[m]
  /\ \/ NoFault /\ log_dir' \in Secured(log_dir) /\ sink' = "log"
     \/ Fault /\ log_dir' \in Secured(log_dir) \cup Unsecured(log_dir)
        /\ sink' \in Fallback
  /\ UNCHANGED <<unit, step, todo, kernelVars, enabled, sender, umask, config,
                 socket_dir, edits>>

(* The administrator writes the file; paths are prepared by others while   *)
(* the daemon is down.                                                     *)
EditConfig ==
  /\ edits < MaxEdits /\ edits' = edits + 1
  /\ config' \in ConfigFiles
  /\ UNCHANGED <<unit, processVars, socket_dir, log_dir, faults>>

Stage ==
  /\ step = "off" /\ edits < MaxEdits /\ edits' = edits + 1
  /\ socket_dir' \in Paths /\ log_dir' \in Paths
  /\ UNCHANGED <<unit, processVars, config, faults>>

Daemon ==
  \/ CheckHost \/ LoadConfig
  \/ \E m \in Modules : LoadModule(m) \/ InitModule(m)
  \/ LoadedAll \/ BuildPipeline \/ SetupSecureDir \/ BindSocket
  \/ Disconnected

Next ==
  \/ Start \/ Daemon
  \/ \E m \in Modules : Toggle(m)
  \/ IpcPanic \/ Crash \/ OpenSink \/ EditConfig \/ Stage

Spec == Init /\ [][Next]_vars

(* systemd starts what failed, and the main thread runs.                   *)
FairSpec == Spec /\ WF_vars(Start) /\ WF_vars(Daemon)
-----------------------------------------------------------------------------
TypeOK ==
  /\ unit \in {"starting", "up", "failed", "dead"}
  /\ step \in {"off", "check", "config", "load", "init", "dir", "bind", "actor"}
  /\ step = "off" <=> unit # "up"
  /\ todo \subseteq Modules /\ enabled \subseteq Modules
  /\ active_skeletons \subseteq Modules /\ filled \subseteq active_skeletons
  /\ state_map \in [Modules -> BOOLEAN] /\ is_active \in [Modules -> BOOLEAN]
  /\ sender \in {"main", "thread", "none"} /\ umask \in {"default", "tight"}
  /\ sink \in {"unset", "log", "fallback", "none"}
  /\ config \in ConfigFiles /\ socket_dir \in Paths /\ log_dir \in Paths
  /\ unsynced \subseteq hit /\ hit \subseteq Modules /\ toggled \subseteq Modules
  /\ faults \in 0 .. MaxFaults /\ edits \in 0 .. MaxEdits

Plane == INSTANCE ControlPlane WITH
  Clients <- {}, Registry <- Modules, Names <- Modules, NoName <- "no name",
  NoClient <- "nobody", ChannelCap <- 128, DrainMax <- 10,
  request <- <<>>, peer <- <<>>, incoming <- <<>>, conn <- <<>>, told <- <<>>,
  ipc <- IF sender = "thread" THEN "accept" ELSE "down", serving <- "nobody",
  channel <- <<>>, reply <- <<>>, actor <- "recv", current <- "nobody",
  budget <- 0, fate <- <<>>, ticket <- <<>>, sent <- 0

(* Whatever failed on the way, main() hands the actor a state ControlPlane *)
(* starts from: modules that were not loaded are off, and the two flags of *)
(* a module differ only if the kernel's could not be written.              *)
HandsOver == step = "actor" /\ toggled = {} => Plane!Init

(* The file dictates the boot state, again after every crash and whatever  *)
(* was toggled before it; and one module's failure is not another's: those *)
(* that had none are loaded, filled, and on exactly if they were enabled.  *)
ConfigGoverns ==
  step = "actor" =>
    \A m \in Modules \ (hit \cup toggled) :
      /\ m \in filled
      /\ state_map[m] <=> m \in enabled
      /\ is_active[m] <=> m \in enabled

(* Nobody but root reaches the control socket or the log, whatever was     *)
(* prepared in their places, and the tight umask is gone when it serves.   *)
OnlyPrivatePaths ==
  /\ sender = "thread" => socket_dir = "secure" /\ umask = "default"
  /\ sink = "log" => log_dir \in {"secure", "link"}

(* A daemon that failed serves again, malformed configuration or not: only *)
(* a file of another owner, or the loss of the control plane, after which  *)
(* the process ends with success and is not restarted, can prevent it.     *)
Recovers ==
  unit = "failed" ~> \/ step = "actor" /\ sender = "thread"
                     \/ config.kind = "foreign" \/ unit = "dead"

(* Without a control plane the daemon does not go on uncontrolled.         *)
LossOfControlEnds == sender = "none" ~> step # "actor"

(* "io_restrict_map_size = 32768 # Dynamic map sizing for pipe_taint_map"  *)
(* (config.toml line 84, in [modules]): with this line the flags that the  *)
(* file sets are in force as without it.                                   *)
SizingKeepsModules ==
  [][step = "config" /\ config.kind = "sized" /\ step' = "load" =>
       enabled' = config.wanted]_vars
=============================================================================
