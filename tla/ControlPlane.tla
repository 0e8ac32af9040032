----------------------------- MODULE ControlPlane -----------------------------
(***************************************************************************)
(* The administrative control plane of the daemon: the IPC thread that     *)
(* serves the socket one connection at a time (core/src/ipc), the bounded  *)
(* mpsc channel to the engine, and the actor loop that owns the kernel     *)
(* state maps and the userland module flags (core/src/actor.rs).           *)
(*                                                                         *)
(* A client is one run of the CLI: it connects, sends one request, closes  *)
(* its write side and reads one answer.  The bytes of a request and the    *)
(* wording of an answer are abstracted to their kind.                      *)
(*                                                                         *)
(* The kernel poll of the actor's loop is one step here that leaves the    *)
(* control state alone; Telemetry.tla refines it.                          *)
(***************************************************************************)
EXTENDS Naturals, Sequences

CONSTANTS
  Clients,     \* the CLI runs that may connect
  Registry,    \* slugs of the userland registry
  Names,       \* every module name a client may write
  NoName,      \* the target of a request without one
  NoClient,    \* nobody
  ChannelCap,  \* mpsc::sync_channel(128)
  DrainMax     \* try_iter().take(10)

ASSUME ConstantsAssumption ==
  /\ Registry \subseteq Names
  /\ NoName \notin Names
  /\ NoClient \notin Clients
  /\ ChannelCap \in Nat \ {0}
  /\ DrainMax \in Nat

VARIABLES
  (* the kernel and the userland registry *)
  active_skeletons, \* modules that were loaded and attached
  state_map,        \* kernel flag read by is_module_active
  is_active,        \* AtomicBool of the userland module
  (* the clients and the socket *)
  request,          \* what each client sends
  peer,             \* what SO_PEERCRED yields: uid 0, or anything else
  incoming,         \* accept queue of the listener
  conn,             \* life of each connection
  told,             \* the answer written to each client
  (* the IPC thread *)
  ipc,              \* program counter
  serving,          \* connection being handled
  (* the channels *)
  channel,          \* messages of the sync_channel, oldest first
  reply,            \* one-shot reply channel of each message
  (* the actor *)
  actor,            \* program counter
  current,          \* message being handled
  budget,           \* messages try_iter may still take in this tick
  (* history *)
  fate,             \* what became of each message
  ticket,           \* order in which try_send accepted the messages
  sent,             \* how many it accepted
  unsynced          \* modules whose boot-time state_map write failed

kernelVars == <<active_skeletons, state_map, is_active, unsynced>>
clientVars == <<request, peer>>
socketVars == <<incoming, conn, told, ipc, serving>>
actorVars  == <<actor, current, budget>>
historyVars == <<fate, ticket, sent>>
vars == <<kernelVars, clientVars, socketVars, channel, reply, actorVars,
          historyVars>>

(***************************************************************************)
(* DaemonCmd, plus the two classes of input that never become one: bytes   *)
(* parse_command rejects (or cannot read), and a blank or empty stream.    *)
(***************************************************************************)
Toggles  == [op : {"enable", "disable"}, target : Names]
Queries  == [op : {"status", "list"}, target : {NoName}]
Commands == Toggles \cup Queries
Requests == Commands \cup [op : {"unknown", "blank"}, target : {NoName}]
NoRequest == [op |-> "blank", target |-> NoName]

(* Answers computed by the actor, and all the answers a client may read.   *)
Responses == {"status", "listing", "success", "map_error", "not_loaded",
              "not_active"}
Answers == Responses \cup {"denied", "invalid", "busy", "crashed", "timeout",
                           "silence", "nothing"}

Wanted(c) == request[c].op = "enable"
IsToggle(c) == request[c].op \in {"enable", "disable"}
-----------------------------------------------------------------------------
(***************************************************************************)
(* The state main() hands to the threads: load_modules may have left a     *)
(* module out, and a failed state_map write at boot leaves the zeroed map  *)
(* while the userland flag still takes the configured value.  When the     *)
(* socket cannot be set up there is no IPC thread and the sender is gone.  *)
(***************************************************************************)
Init ==
  /\ active_skeletons \in SUBSET Registry
  /\ unsynced \in SUBSET active_skeletons
  /\ is_active \in [Registry -> BOOLEAN]
  /\ \A m \in Registry \ active_skeletons : ~is_active[m]
  /\ state_map = [m \in Registry |-> is_active[m] /\ m \notin unsynced]
  /\ request = [c \in Clients |-> NoRequest]
  /\ peer = [c \in Clients |-> "root"]
  /\ incoming = <<>>
  /\ conn = [c \in Clients |-> "idle"]
  /\ told = [c \in Clients |-> "nothing"]
  /\ ipc \in {"accept", "down"}
  /\ serving = NoClient
  /\ channel = <<>>
  /\ reply = [c \in Clients |-> "nothing"]
  /\ actor = "recv"
  /\ current = NoClient
  /\ budget = 0
  /\ fate = [c \in Clients |-> "unsent"]
  /\ ticket = [c \in Clients |-> 0]
  /\ sent = 0

(* A process connects to the control socket and writes its request.        *)
Connect(c, r, p) ==
  /\ conn[c] = "idle"
  /\ ipc # "down" /\ actor # "exited"
  /\ request' = [request EXCEPT ![c] = r]
  /\ peer' = [peer EXCEPT ![c] = p]
  /\ conn' = [conn EXCEPT ![c] = "backlog"]
  /\ incoming' = Append(incoming, c)
  /\ UNCHANGED <<kernelVars, told, ipc, serving, channel, reply, actorVars,
                 historyVars>>
-----------------------------------------------------------------------------
(* listener.incoming() hands the next connection to handle_connection.     *)
Accept ==
  /\ ipc = "accept" /\ actor # "exited"
  /\ incoming # <<>>
  /\ serving' = Head(incoming)
  /\ incoming' = Tail(incoming)
  /\ conn' = [conn EXCEPT ![Head(incoming)] = "serving"]
  /\ ipc' = "handle"
  /\ UNCHANGED <<kernelVars, clientVars, told, channel, reply, actorVars,
                 historyVars>>

(* The handler returns: the stream is dropped after `answer` was written.  *)
Close(answer) ==
  /\ told' = [told EXCEPT ![serving] = answer]
  /\ conn' = [conn EXCEPT ![serving] = "closed"]
  /\ ipc' = "accept"
  /\ serving' = NoClient
  /\ UNCHANGED <<kernelVars, clientVars, incoming, actorVars>>

(* verify_peercred refuses a peer that is not uid 0, or that the kernel    *)
(* does not identify.                                                      *)
RejectPeer ==
  /\ ipc = "handle" /\ actor # "exited"
  /\ peer[serving] # "root"
  /\ Close("denied")
  /\ UNCHANGED <<channel, reply, historyVars>>

(* A timeout that cannot be set, or a blank request: no answer at all.     *)
DropConnection ==
  /\ ipc = "handle" /\ actor # "exited"
  /\ peer[serving] = "root"
  /\ Close("silence")
  /\ UNCHANGED <<channel, reply, historyVars>>

(* parse_command fails: unknown word, missing argument, or a read that     *)
(* hits the one-second timeout before the client closes its side.          *)
RejectCommand ==
  /\ ipc = "handle" /\ actor # "exited"
  /\ peer[serving] = "root"
  /\ Close("invalid")
  /\ UNCHANGED <<channel, reply, historyVars>>

DispatchableByAnyone ==  \* mutant: the credential check is forgotten
  /\ ipc = "handle" /\ actor # "exited"
  /\ request[serving] \in Commands

(* A root client whose bytes parsed: dispatch_command's try_send, in its   *)
(* three outcomes.                                                         *)
Dispatchable ==
  /\ ipc = "handle" /\ actor # "exited"
  /\ peer[serving] = "root"
  /\ request[serving] \in Commands

DispatchUnbounded ==  \* mutant: channel() instead of sync_channel(128)
  /\ Dispatchable
  /\ actor # "unwinding"
  /\ channel' = Append(channel, serving)
  /\ ipc' = "await"
  /\ fate' = [fate EXCEPT ![serving] = "queued"]
  /\ ticket' = [ticket EXCEPT ![serving] = sent + 1]
  /\ sent' = sent + 1
  /\ UNCHANGED <<kernelVars, clientVars, incoming, conn, told, serving, reply,
                 actorVars>>

Dispatch ==
  /\ Dispatchable
  /\ actor # "unwinding"
  /\ Len(channel) < ChannelCap
  /\ channel' = Append(channel, serving)
  /\ ipc' = "await"
  /\ fate' = [fate EXCEPT ![serving] = "queued"]
  /\ ticket' = [ticket EXCEPT ![serving] = sent + 1]
  /\ sent' = sent + 1
  /\ UNCHANGED <<kernelVars, clientVars, incoming, conn, told, serving, reply,
                 actorVars>>

DispatchFull ==
  /\ Dispatchable
  /\ actor # "unwinding"
  /\ Len(channel) >= ChannelCap
  /\ Close("busy")
  /\ UNCHANGED <<channel, reply, historyVars>>

(* The receiver is gone while the IPC thread lives: only during an unwind. *)
DispatchDisconnected ==
  /\ Dispatchable
  /\ actor = "unwinding"
  /\ Close("crashed")
  /\ UNCHANGED <<channel, reply, historyVars>>

(* reply_rx.recv_timeout(5s) yields the actor's answer.                    *)
AwaitAnswered ==
  /\ ipc = "await" /\ actor # "exited"
  /\ reply[serving] # "nothing"
  /\ Close(reply[serving])
  /\ UNCHANGED <<channel, reply, historyVars>>

AwaitForever ==  \* mutant: recv() instead of recv_timeout(5s)
  /\ ipc = "await" /\ actor = "unwinding"
  /\ reply[serving] = "nothing"
  /\ Close("timeout")
  /\ UNCHANGED <<channel, reply, historyVars>>

AwaitMisreported ==  \* mutant: the timeout is reported as a full channel
  /\ ipc = "await" /\ actor # "exited"
  /\ reply[serving] = "nothing"
  /\ Close("busy")
  /\ UNCHANGED <<channel, reply, historyVars>>

(* Five seconds pass, or the sender is dropped by an unwind: the client is *)
(* told so.  The message itself stays in the channel.                      *)
AwaitTimeout ==
  /\ ipc = "await" /\ actor # "exited"
  /\ reply[serving] = "nothing"
  /\ Close("timeout")
  /\ UNCHANGED <<channel, reply, historyVars>>

(* eprintln! panics when stderr is gone: on a failed accept, on a refused  *)
(* peer, on a timeout that cannot be set.  The thread unwinds, drops the   *)
(* listener and the sender, and every open connection ends unanswered.     *)
IpcPanic ==
  /\ ipc \in {"accept", "handle"} /\ actor # "exited"
  /\ ipc' = "down"
  /\ serving' = NoClient
  /\ incoming' = <<>>
  /\ conn' = [c \in Clients |-> IF conn[c] \in {"backlog", "serving"}
                                  THEN "closed" ELSE conn[c]]
  /\ UNCHANGED <<kernelVars, clientVars, told, channel, reply, actorVars,
                 historyVars>>

IpcThread ==
  \/ Accept \/ IpcPanic \/ RejectPeer \/ DropConnection \/ RejectCommand
  \/ Dispatch \/ DispatchFull \/ DispatchDisconnected
  \/ AwaitAnswered \/ AwaitTimeout
-----------------------------------------------------------------------------
TakeNewest ==  \* mutant: the backlog is a stack
  /\ channel # <<>>
  /\ current' = channel[Len(channel)]
  /\ channel' = SubSeq(channel, 1, Len(channel) - 1)
  /\ actor' = "command"
  /\ UNCHANGED <<kernelVars, clientVars, socketVars, reply, historyVars>>

(* The next message of the channel is handed to handle_command.            *)
Take ==
  /\ channel # <<>>
  /\ current' = Head(channel)
  /\ channel' = Tail(channel)
  /\ actor' = "command"
  /\ UNCHANGED <<kernelVars, clientVars, socketVars, reply, historyVars>>

RecvDiscards ==  \* mutant: the message that wakes the actor is dropped
  /\ actor = "recv" /\ channel # <<>>
  /\ channel' = Tail(channel)
  /\ actor' = "drain"
  /\ budget' = DrainMax
  /\ UNCHANGED <<kernelVars, clientVars, socketVars, reply, current,
                 historyVars>>

(* rx.recv_timeout(50ms) returns a message and opens a batch.              *)
Recv ==
  /\ actor = "recv"
  /\ Take
  /\ budget' = DrainMax

(* rx.try_iter().take(10): one more backlogged message of the same tick.   *)
Drain ==
  /\ actor = "drain" /\ budget > 0
  /\ Take
  /\ budget' = budget - 1

(* The batch ends, or 50 ms passed without a message: on to the poll.      *)
EndBatch ==
  /\ \/ actor = "drain" /\ (budget = 0 \/ channel = <<>>)
     \/ actor = "recv" /\ channel = <<>> /\ ipc # "down"
  /\ actor' = "poll"
  /\ UNCHANGED <<kernelVars, clientVars, socketVars, channel, reply, current,
                 budget, historyVars>>

(* rb.poll(0), which changes nothing of the control state.                 *)
Poll ==
  /\ actor = "poll"
  /\ actor' = "recv"
  /\ UNCHANGED <<kernelVars, clientVars, socketVars, channel, reply, current,
                 budget, historyVars>>

(* RecvTimeoutError::Disconnected: run returns, main returns Ok, the       *)
(* process is gone.                                                        *)
RecvDisconnected ==
  /\ actor = "recv" /\ channel = <<>> /\ ipc = "down"
  /\ actor' = "exited"
  /\ UNCHANGED <<kernelVars, clientVars, socketVars, channel, reply, current,
                 budget, historyVars>>

SendShared(response) ==  \* mutant: one reply channel for all the messages
  /\ reply' = IF ipc = "await"
                THEN [reply EXCEPT ![serving] = response]
                ELSE reply
  /\ actor' = "drain"
  /\ current' = NoClient
  /\ UNCHANGED <<clientVars, socketVars, channel, budget, active_skeletons,
                 ticket, sent>>

(* msg.reply.send(response): lost, and the loss ignored, when the handler  *)
(* has given up.  The batch goes on.                                       *)
Send(response) ==
  /\ reply' = IF ipc = "await" /\ serving = current
                THEN [reply EXCEPT ![current] = response]
                ELSE reply
  /\ actor' = "drain"
  /\ current' = NoClient
  /\ UNCHANGED <<clientVars, socketVars, channel, budget, active_skeletons,
                 ticket, sent>>

(* handle_command on Status and List.                                      *)
HandleQuery ==
  /\ actor = "command"
  /\ request[current] \in Queries
  /\ fate' = [fate EXCEPT ![current] = "void"]
  /\ Send(IF request[current].op = "status" THEN "status" ELSE "listing")
  /\ UNCHANGED <<state_map, is_active, unsynced>>

(* toggle_module on a name without a skeleton.                             *)
RejectTarget ==
  /\ actor = "command" /\ IsToggle(current)
  /\ request[current].target \notin active_skeletons
  /\ fate' = [fate EXCEPT ![current] = "void"]
  /\ Send(IF Wanted(current) THEN "not_loaded" ELSE "not_active")
  /\ UNCHANGED <<state_map, is_active, unsynced>>

(* toggle_module: set_module_state writes the kernel flag ...              *)
SetModuleState ==
  /\ actor = "command" /\ IsToggle(current)
  /\ request[current].target \in active_skeletons
  /\ state_map' = [state_map EXCEPT ![request[current].target] =
                                                        Wanted(current)]
  /\ fate' = [fate EXCEPT ![current] = "applied"]
  /\ actor' = "sync"
  /\ UNCHANGED <<active_skeletons, is_active, unsynced, clientVars,
                 socketVars, channel, reply, current, budget, ticket, sent>>

SetModuleStateIgnored ==  \* mutant: the Err of the map write is ignored
  /\ actor = "command" /\ IsToggle(current)
  /\ request[current].target \in active_skeletons
  /\ is_active' = [is_active EXCEPT ![request[current].target] =
                                                        Wanted(current)]
  /\ fate' = [fate EXCEPT ![current] = "void"]
  /\ Send("success")
  /\ UNCHANGED <<state_map, unsynced>>

(* ... or bpf() refuses the write and the userland flag is left alone.     *)
SetModuleStateFails ==
  /\ actor = "command" /\ IsToggle(current)
  /\ request[current].target \in active_skeletons
  /\ fate' = [fate EXCEPT ![current] = "void"]
  /\ Send("map_error")
  /\ UNCHANGED <<state_map, is_active, unsynced>>

ToggleUserForgotten ==  \* mutant: the userland flag is not stored
  /\ actor = "sync"
  /\ unsynced' = unsynced \ {request[current].target}
  /\ Send("success")
  /\ UNCHANGED <<is_active, state_map, fate>>

(* user_mod.toggle(enable), then the SUCCESS line.                         *)
ToggleUser ==
  /\ actor = "sync"
  /\ is_active' = [is_active EXCEPT ![request[current].target] =
                                                        Wanted(current)]
  /\ unsynced' = unsynced \ {request[current].target}
  /\ Send("success")
  /\ UNCHANGED <<state_map, fate>>

(* toggle() stores the flag and then prints: println! panics when stdout   *)
(* is gone.  Unwinding run() drops the receiver and every queued message.  *)
Panic ==
  /\ actor = "sync"
  /\ is_active' = [is_active EXCEPT ![request[current].target] =
                                                        Wanted(current)]
  /\ unsynced' = unsynced \ {request[current].target}
  /\ actor' = "unwinding"
  /\ current' = NoClient
  /\ channel' = <<>>
  /\ fate' = [c \in Clients |-> IF fate[c] = "queued" THEN "void" ELSE fate[c]]
  /\ UNCHANGED <<active_skeletons, state_map, clientVars, socketVars, reply,
                 budget, ticket, sent>>

(* The main thread is done unwinding and takes the process with it.        *)
Exit ==
  /\ actor = "unwinding"
  /\ actor' = "exited"
  /\ UNCHANGED <<kernelVars, clientVars, socketVars, channel, reply, current,
                 budget, historyVars>>

ActorCommands ==
  \/ Recv \/ Drain \/ EndBatch \/ RecvDisconnected
  \/ HandleQuery \/ RejectTarget \/ SetModuleState \/ SetModuleStateFails
  \/ ToggleUser \/ Panic \/ Exit

ActorThread == ActorCommands \/ Poll

ClientStep ==
  \E c \in Clients, r \in Requests, p \in {"root", "other"} : Connect(c, r, p)

Next == ClientStep \/ IpcThread \/ ActorThread

Spec == Init /\ [][Next]_vars

(* The IPC thread alone is fair: the engine may stall for ever, and        *)
(* nothing forces a client to connect.                                     *)
FairSpec == Spec /\ WF_vars(IpcThread)
-----------------------------------------------------------------------------
Fates == {"unsent", "queued", "applied", "void"}

(* Every variable keeps its type; the channel never exceeds its bound.     *)
TypeOK ==
  /\ active_skeletons \subseteq Registry
  /\ unsynced \subseteq active_skeletons
  /\ state_map \in [Registry -> BOOLEAN]
  /\ is_active \in [Registry -> BOOLEAN]
  /\ request \in [Clients -> Requests]
  /\ peer \in [Clients -> {"root", "other"}]
  /\ incoming \in Seq(Clients)
  /\ conn \in [Clients -> {"idle", "backlog", "serving", "closed"}]
  /\ told \in [Clients -> Answers]
  /\ ipc \in {"accept", "handle", "await", "down"}
  /\ serving \in Clients \cup {NoClient}
  /\ serving # NoClient <=> ipc \in {"handle", "await"}
  /\ channel \in Seq(Clients) /\ Len(channel) <= ChannelCap
  /\ reply \in [Clients -> Responses \cup {"nothing"}]
  /\ actor \in {"recv", "command", "sync", "drain", "poll", "unwinding",
                "exited"}
  /\ current \in Clients \cup {NoClient}
  /\ current # NoClient <=> actor \in {"command", "sync"}
  /\ budget \in 0 .. DrainMax
  /\ fate \in [Clients -> Fates]
  /\ ticket \in [Clients -> Nat]
  /\ sent \in Nat

(* toggle_module keeps the kernel's flag and the userland flag of a module *)
(* together: they differ only between its two writes, or when the boot-    *)
(* time write failed and no toggle has succeeded since.                    *)
StateSync ==
  \A m \in active_skeletons \ unsynced :
    \/ state_map[m] = is_active[m]
    \/ actor = "sync" /\ request[current].target = m

(* A SUCCESS binds: once a client was told its toggle succeeded, the       *)
(* kernel flag keeps that value until a request that try_send accepted     *)
(* later changes it.  A request that timed out earlier cannot undo it.     *)
LastAckGoverns ==
  \A c \in Clients :
    told[c] = "success" =>
      \/ state_map[request[c].target] = Wanted(c)
      \/ \E d \in Clients :
           /\ ticket[d] > ticket[c] /\ fate[d] = "applied"
           /\ request[d].target = request[c].target

(* Connections are served one at a time, so a message of the channel is    *)
(* either the one being awaited or one whose client was told "timeout":    *)
(* "busy" is only ever answered after that many timeouts.                  *)
BacklogIsAbandoned ==
  \A c \in Clients :
    fate[c] = "queued" =>
      \/ ipc = "await" /\ serving = c
      \/ told[c] = "timeout"

(* A kernel flag changes only by the first execution of a toggle that a    *)
(* root client asked for, to the value it asked for.                       *)
ToggleIsRequested ==
  [][\A m \in Registry :
       state_map'[m] # state_map[m] =>
         \E c \in Clients :
           /\ peer[c] = "root" /\ request[c].target = m
           /\ state_map'[m] = Wanted(c)
           /\ fate[c] = "queued" /\ fate'[c] = "applied"]_vars

(* The threads and the channel implement the atomic board of switches.     *)
Board == INSTANCE Switchboard WITH
  enforced <- state_map, asked <- request, phase <- fate, stamp <- ticket,
  count <- sent, answer <- told

ImplementsSwitchboard == Board!Spec

(* Whatever the engine does, even if it stalls for ever, every connection  *)
(* is eventually closed: the reply timeout frees the IPC thread.           *)
EveryClientServed ==
  \A c \in Clients :
    conn[c] = "backlog" ~> (conn[c] = "closed" \/ actor = "exited")

(* While the engine runs every accepted message is eventually executed or  *)
(* voided, even when its client has long been told "timeout".              *)
EveryCommandSettled ==
  WF_vars(ActorThread) =>
    \A c \in Clients : fate[c] = "queued" ~> fate[c] \in {"applied", "void"}
=============================================================================
