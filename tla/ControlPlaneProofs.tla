-------------------------- MODULE ControlPlaneProofs --------------------------
(***************************************************************************)
(* Proofs about the control plane, for any number of clients and modules,  *)
(* any channel capacity and any batch size.                                *)
(*                                                                         *)
(* The safety properties are not inductive by themselves: they rest on the *)
(* bookkeeping that ties the connection being served, the messages in the  *)
(* channel, the message in the actor's hand and the order of acceptance    *)
(* together.  IInv collects it; NextPreserves shows every step keeps it.   *)
(*                                                                         *)
(* Telemetry runs on top: each of its steps is one of the control plane or *)
(* leaves it alone, so that IInv holds there too, and with it the argument *)
(* that no alert is dropped in the window between the two flags.           *)
(***************************************************************************)
EXTENDS Telemetry, TLAPS

(* The connection being served, and the ones that wait, are at the stage   *)
(* the IPC thread thinks they are.                                         *)
SocketInv ==
  /\ \A i \in 1 .. Len(incoming) : conn[incoming[i]] = "backlog"
  /\ \A i, j \in 1 .. Len(incoming) : incoming[i] = incoming[j] => i = j
  /\ \A c \in Clients : conn[c] = "serving" <=> c = serving
  /\ \A c \in Clients : conn[c] \in {"idle", "backlog"} => fate[c] = "unsent"
  /\ \A c \in Clients : told[c] # "nothing" => conn[c] = "closed"
  /\ ipc = "handle" => fate[serving] = "unsent"
  /\ ipc = "await" => fate[serving] # "unsent"

(* A message was accepted from a root client with a parsed command.        *)
MessageInv ==
  \A c \in Clients :
    fate[c] # "unsent" => peer[c] = "root" /\ request[c] \in Commands

(* What the actor answers, and what clients are told, matches the fate.    *)
AnswerInv ==
  \A c \in Clients :
    /\ reply[c] = "success" => fate[c] = "applied"
    /\ reply[c] \in Responses \ {"success"} => fate[c] = "void"
    /\ told[c] = "success" => fate[c] = "applied"

(* Tickets are handed out in order, and only to accepted messages.         *)
TicketInv ==
  \A c \in Clients :
    /\ ticket[c] <= sent
    /\ fate[c] # "unsent" => ticket[c] > 0

(* The unexecuted messages are the one in hand and those of the channel,   *)
(* in the order of their tickets ...                                       *)
ChannelInv ==
  /\ \A i \in 1 .. Len(channel) : fate[channel[i]] = "queued"
  /\ \A i, j \in 1 .. Len(channel) :
       i < j => ticket[channel[i]] < ticket[channel[j]]
  /\ actor = "command" =>
       /\ fate[current] = "queued"
       /\ \A i \in 1 .. Len(channel) : ticket[current] < ticket[channel[i]]
  /\ \A c \in Clients :
       fate[c] = "queued" =>
         \/ \E i \in 1 .. Len(channel) : channel[i] = c
         \/ actor = "command" /\ current = c

(* ... and all of them are younger than anything already applied.          *)
OrderInv ==
  \A c, d \in Clients :
    fate[c] = "applied" /\ fate[d] = "queued" => ticket[c] < ticket[d]

(* A toggle in progress has written the kernel flag of a loaded module.    *)
SyncInv ==
  actor = "sync" =>
    /\ fate[current] = "applied"
    /\ request[current].target \in active_skeletons
    /\ state_map[request[current].target] = Wanted(current)

(* An applied toggle holds until a later one is applied.                   *)
AppliedInv ==
  \A c \in Clients :
    fate[c] = "applied" =>
      /\ request[c] \in Toggles /\ request[c].target \in Registry
      /\ \/ state_map[request[c].target] = Wanted(c)
         \/ \E d \in Clients :
              /\ ticket[d] > ticket[c] /\ fate[d] = "applied"
              /\ request[d].target = request[c].target

IInv ==
  /\ TypeOK /\ SocketInv /\ MessageInv /\ AnswerInv /\ TicketInv
  /\ ChannelInv /\ OrderInv /\ SyncInv /\ AppliedInv
  /\ StateSync /\ BacklogIsAbandoned
-----------------------------------------------------------------------------
(* A new connection has sent nothing: only its own request changes. *)
LEMMA ConnectPreserves ==
  ASSUME IInv,
         NEW c \in Clients,
         NEW r \in Requests,
         NEW p \in {"root", "other"},
         Connect(c, r, p)
  PROVE  IInv'
<1> USE ConstantsAssumption
      DEF Connect, kernelVars, clientVars, socketVars, actorVars,
          historyVars, IInv
<1>1. TypeOK'
  BY DEF TypeOK, Fates
<1>2. SocketInv'
  BY DEF SocketInv, TypeOK
<1>3. MessageInv'
  BY DEF MessageInv, TypeOK, SocketInv
<1>4. AnswerInv'
  BY DEF AnswerInv, TypeOK, SocketInv
<1>5. TicketInv'
  BY DEF TicketInv, TypeOK, SocketInv
<1>6. ChannelInv'
  BY DEF ChannelInv, TypeOK
<1>7. OrderInv'
  BY DEF OrderInv, TypeOK
<1>8. SyncInv'
  BY DEF SyncInv, SocketInv, TypeOK, Wanted
<1>9. AppliedInv'
  <2>1. \A d \in Clients : fate[d] = "applied" => request'[d] = request[d]
    BY DEF SocketInv, TypeOK
  <2>2. /\ UNCHANGED <<fate, ticket, state_map>>
        /\ \A d \in Clients :
             fate[d] = "applied" => Wanted(d)' = Wanted(d)
    BY <2>1 DEF Wanted
  <2> HIDE DEF Connect
  <2> QED
    BY <2>1, <2>2, Zenon DEF AppliedInv
<1>10. StateSync'
  BY DEF StateSync, SyncInv, SocketInv, TypeOK
<1>11. BacklogIsAbandoned'
  BY DEF BacklogIsAbandoned, TypeOK
<1> QED
  BY <1>1, <1>2, <1>3, <1>4, <1>5, <1>6, <1>7, <1>8, <1>9, <1>10, <1>11

(* The oldest waiting connection becomes the served one. *)
LEMMA AcceptPreserves ==
  ASSUME IInv,
         Accept
  PROVE  IInv'
<1> USE ConstantsAssumption
      DEF Accept, kernelVars, clientVars, socketVars, actorVars,
          historyVars, IInv
<1>1. TypeOK'
  BY DEF TypeOK, Fates
<1>2. SocketInv'
  BY DEF SocketInv, TypeOK
<1>3. MessageInv'
  BY DEF MessageInv, TypeOK, SocketInv
<1>4. AnswerInv'
  BY DEF AnswerInv, TypeOK, SocketInv
<1>5. TicketInv'
  BY DEF TicketInv, TypeOK, SocketInv
<1>6. ChannelInv'
  BY DEF ChannelInv, TypeOK
<1>7. OrderInv'
  BY DEF OrderInv, TypeOK
<1>8. SyncInv'
  BY DEF SyncInv, TypeOK, Wanted
<1>9. AppliedInv'
  BY DEF AppliedInv, TypeOK, Wanted
<1>10. StateSync'
  BY DEF StateSync, SyncInv, TypeOK
<1>11. BacklogIsAbandoned'
  BY DEF BacklogIsAbandoned, TypeOK
<1> QED
  BY <1>1, <1>2, <1>3, <1>4, <1>5, <1>6, <1>7, <1>8, <1>9, <1>10, <1>11

(* A panic of the IPC thread leaves every message, and its fate, alone.    *)
LEMMA IpcPanicPreserves ==
  ASSUME IInv,
         IpcPanic
  PROVE  IInv'
<1> USE ConstantsAssumption
      DEF IpcPanic, kernelVars, clientVars, socketVars, actorVars,
          historyVars, IInv
<1>1. TypeOK'
  BY DEF TypeOK, Fates
<1>2. SocketInv'
  BY DEF SocketInv, TypeOK
<1>3. MessageInv'
  BY DEF MessageInv, TypeOK, SocketInv
<1>4. AnswerInv'
  BY DEF AnswerInv, TypeOK, SocketInv
<1>5. TicketInv'
  BY DEF TicketInv, TypeOK, SocketInv
<1>6. ChannelInv'
  BY DEF ChannelInv, TypeOK
<1>7. OrderInv'
  BY DEF OrderInv, TypeOK
<1>8. SyncInv'
  BY DEF SyncInv, TypeOK, Wanted
<1>9. AppliedInv'
  BY DEF AppliedInv, TypeOK, Wanted
<1>10. StateSync'
  BY DEF StateSync, SyncInv, TypeOK
<1>11. BacklogIsAbandoned'
  BY DEF BacklogIsAbandoned, TypeOK
<1> QED
  BY <1>1, <1>2, <1>3, <1>4, <1>5, <1>6, <1>7, <1>8, <1>9, <1>10, <1>11

(* The handler closes its connection with an answer that fits the fate of  *)
(* its message.                                                            *)
LEMMA ClosePreserves ==
  ASSUME IInv,
         ipc \in {"handle", "await"},
         NEW a \in Answers \ {"nothing"},
         Close(a),
         UNCHANGED <<channel, reply, historyVars>>,
         a = "success" => fate[serving] = "applied",
         fate[serving] = "queued" => a = "timeout"
  PROVE  IInv'
<1> USE ConstantsAssumption
      DEF Close, kernelVars, clientVars, socketVars, actorVars, historyVars,
          IInv
<1>1. TypeOK'
  BY DEF TypeOK, Fates
<1>2. SocketInv'
  BY DEF SocketInv, TypeOK, Answers
<1>3. MessageInv'
  BY DEF MessageInv, TypeOK, SocketInv
<1>4. AnswerInv'
  BY DEF AnswerInv, TypeOK, SocketInv
<1>5. TicketInv'
  BY DEF TicketInv, TypeOK, SocketInv
<1>6. ChannelInv'
  BY DEF ChannelInv, TypeOK
<1>7. OrderInv'
  BY DEF OrderInv, TypeOK
<1>8. SyncInv'
  BY DEF SyncInv, TypeOK, Wanted
<1>9. AppliedInv'
  BY DEF AppliedInv, TypeOK, Wanted
<1>10. StateSync'
  BY DEF StateSync, SyncInv, TypeOK
<1>11. BacklogIsAbandoned'
  BY DEF BacklogIsAbandoned, TypeOK, SocketInv
<1> QED
  BY <1>1, <1>2, <1>3, <1>4, <1>5, <1>6, <1>7, <1>8, <1>9, <1>10, <1>11

(* try_send appends a message younger than all the others. *)
LEMMA DispatchPreserves ==
  ASSUME IInv,
         Dispatch
  PROVE  IInv'
<1> USE ConstantsAssumption
      DEF Dispatch, Dispatchable, kernelVars, clientVars, socketVars,
          actorVars, historyVars, IInv
<1>1. TypeOK'
  BY DEF TypeOK, Fates
<1>2. SocketInv'
  BY DEF SocketInv, TypeOK
<1>3. MessageInv'
  BY DEF MessageInv, TypeOK, SocketInv
<1>4. AnswerInv'
  BY DEF AnswerInv, TypeOK, SocketInv
<1>5. TicketInv'
  BY DEF TicketInv, TypeOK, SocketInv
<1>6. ChannelInv'
  <2>1. \A i \in 1 .. Len(channel) : channel[i] # serving
    BY DEF ChannelInv, SocketInv, TypeOK
  <2>2. /\ serving \in Clients
        /\ Len(channel') = Len(channel) + 1
        /\ \A i \in 1 .. Len(channel) : channel'[i] = channel[i]
        /\ channel'[Len(channel')] = serving
    BY DEF TypeOK
  <2>3. /\ \A i \in 1 .. Len(channel') : fate'[channel'[i]] = "queued"
        /\ \A i, j \in 1 .. Len(channel') :
             i < j => ticket'[channel'[i]] < ticket'[channel'[j]]
    <3>1. \A i \in 1 .. Len(channel) :
            /\ channel[i] \in Clients
            /\ ticket'[channel[i]] = ticket[channel[i]]
            /\ ticket[channel[i]] < ticket'[serving]
            /\ fate'[channel[i]] = "queued"
      BY <2>1, <2>2 DEF ChannelInv, TicketInv, TypeOK
    <3>2. fate'[serving] = "queued" /\ Len(channel) \in Nat
      BY <2>2 DEF TypeOK
    <3> QED
      BY <2>2, <3>1, <3>2 DEF ChannelInv
  <2>4. actor' = "command" =>
          /\ fate'[current'] = "queued"
          /\ \A i \in 1 .. Len(channel') :
               ticket'[current'] < ticket'[channel'[i]]
    BY <2>1, <2>2 DEF ChannelInv, TicketInv, SocketInv, TypeOK
  <2>5. ASSUME NEW c \in Clients, fate'[c] = "queued"
        PROVE  \/ \E i \in 1 .. Len(channel') : channel'[i] = c
               \/ actor' = "command" /\ current' = c
    <3>1. CASE c = serving
      BY <2>2, <3>1 DEF TypeOK
    <3>2. CASE c # serving
      BY <2>2, <2>5, <3>2 DEF ChannelInv, TypeOK
    <3> QED
      BY <3>1, <3>2
  <2> QED
    BY <2>3, <2>4, <2>5 DEF ChannelInv
<1>7. OrderInv'
  BY DEF OrderInv, TypeOK, TicketInv, SocketInv
<1>8. SyncInv'
  BY DEF SyncInv, TypeOK, Wanted, SocketInv
<1>9. AppliedInv'
  <2> SUFFICES ASSUME NEW d \in Clients, fate[d] = "applied"
               PROVE  d # serving /\ ticket'[d] = ticket[d]
    BY DEF AppliedInv, TypeOK, Wanted
  <2> QED
    BY DEF SocketInv, TypeOK
<1>10. StateSync'
  BY DEF StateSync, SyncInv, TypeOK
<1>11. BacklogIsAbandoned'
  BY DEF BacklogIsAbandoned, TypeOK
<1> QED
  BY <1>1, <1>2, <1>3, <1>4, <1>5, <1>6, <1>7, <1>8, <1>9, <1>10, <1>11

(* The actor takes the oldest message into its hand. *)
LEMMA TakePreserves ==
  ASSUME IInv,
         actor \in {"recv", "drain"},
         Take,
         budget' \in 0 .. DrainMax
  PROVE  IInv'
<1> USE ConstantsAssumption
      DEF Take, kernelVars, clientVars, socketVars, actorVars, historyVars,
          IInv
<1>1. TypeOK'
  BY DEF TypeOK, Fates
<1>2. SocketInv'
  BY DEF SocketInv, TypeOK
<1>3. MessageInv'
  BY DEF MessageInv, TypeOK, SocketInv
<1>4. AnswerInv'
  BY DEF AnswerInv, TypeOK, SocketInv
<1>5. TicketInv'
  BY DEF TicketInv, TypeOK, SocketInv
<1>6. ChannelInv'
  <2>1. /\ current' = channel[1] /\ current' \in Clients
        /\ Len(channel') = Len(channel) - 1
        /\ \A i \in 1 .. Len(channel') : channel'[i] = channel[i + 1]
    BY DEF TypeOK
  <2>2. /\ \A i \in 1 .. Len(channel') : fate'[channel'[i]] = "queued"
        /\ \A i, j \in 1 .. Len(channel') :
             i < j => ticket'[channel'[i]] < ticket'[channel'[j]]
    BY <2>1 DEF ChannelInv, TypeOK
  <2>3. /\ fate'[current'] = "queued"
        /\ \A i \in 1 .. Len(channel') :
             ticket'[current'] < ticket'[channel'[i]]
    BY <2>1 DEF ChannelInv, TypeOK
  <2>4. ASSUME NEW c \in Clients, fate'[c] = "queued"
        PROVE  \/ \E i \in 1 .. Len(channel') : channel'[i] = c
               \/ current' = c
    <3>1. PICK i \in 1 .. Len(channel) : channel[i] = c
      BY <2>4 DEF ChannelInv, TypeOK
    <3>2. CASE i = 1
      BY <2>1, <3>1, <3>2
    <3>3. CASE i # 1
      <4>1. i - 1 \in 1 .. Len(channel') /\ channel'[i - 1] = c
        BY <2>1, <3>1, <3>3 DEF TypeOK
      <4> QED
        BY <4>1
    <3> QED
      BY <3>2, <3>3
  <2> QED
    BY <2>2, <2>3, <2>4 DEF ChannelInv
<1>7. OrderInv'
  BY DEF OrderInv, TypeOK
<1>8. SyncInv'
  BY DEF SyncInv, TypeOK, Wanted
<1>9. AppliedInv'
  BY DEF AppliedInv, TypeOK, Wanted
<1>10. StateSync'
  BY DEF StateSync, SyncInv, TypeOK
<1>11. BacklogIsAbandoned'
  BY DEF BacklogIsAbandoned, TypeOK
<1> QED
  BY <1>1, <1>2, <1>3, <1>4, <1>5, <1>6, <1>7, <1>8, <1>9, <1>10, <1>11

(* The actor moves between two commands, or stops. *)
LEMMA LoopPreserves ==
  ASSUME IInv,
         actor \in {"recv", "drain", "poll", "unwinding"},
         actor' \in {"poll", "recv", "exited"},
         UNCHANGED <<kernelVars, clientVars, socketVars, channel, reply,
                     current,
                     budget, historyVars>>
  PROVE  IInv'
<1> USE ConstantsAssumption
      DEF kernelVars, clientVars, socketVars, actorVars, historyVars, IInv
<1>1. TypeOK'
  BY DEF TypeOK, Fates
<1>2. SocketInv'
  BY DEF SocketInv, TypeOK
<1>3. MessageInv'
  BY DEF MessageInv, TypeOK, SocketInv
<1>4. AnswerInv'
  BY DEF AnswerInv, TypeOK, SocketInv
<1>5. TicketInv'
  BY DEF TicketInv, TypeOK, SocketInv
<1>6. ChannelInv'
  BY DEF ChannelInv, TypeOK
<1>7. OrderInv'
  BY DEF OrderInv, TypeOK
<1>8. SyncInv'
  BY DEF SyncInv, TypeOK, Wanted
<1>9. AppliedInv'
  BY DEF AppliedInv, TypeOK, Wanted
<1>10. StateSync'
  BY DEF StateSync, SyncInv, TypeOK
<1>11. BacklogIsAbandoned'
  BY DEF BacklogIsAbandoned, TypeOK
<1> QED
  BY <1>1, <1>2, <1>3, <1>4, <1>5, <1>6, <1>7, <1>8, <1>9, <1>10, <1>11

(* The message in hand is answered without effect. *)
LEMMA SettlePreserves ==
  ASSUME IInv,
         actor = "command",
         NEW response \in Responses \ {"success"},
         fate' = [fate EXCEPT ![current] = "void"],
         Send(response),
         UNCHANGED <<state_map, is_active, unsynced>>
  PROVE  IInv'
<1> USE ConstantsAssumption
      DEF Send, kernelVars, clientVars, socketVars, actorVars, historyVars,
          IInv
<1>1. TypeOK'
  BY DEF TypeOK, Fates
<1>2. SocketInv'
  BY DEF SocketInv, TypeOK, ChannelInv
<1>3. MessageInv'
  BY DEF MessageInv, TypeOK, SocketInv, ChannelInv
<1>4. AnswerInv'
  BY DEF AnswerInv, TypeOK, SocketInv, ChannelInv, Responses
<1>5. TicketInv'
  BY DEF TicketInv, TypeOK, SocketInv, ChannelInv
<1>6. ChannelInv'
  BY DEF ChannelInv, TypeOK
<1>7. OrderInv'
  BY DEF OrderInv, TypeOK
<1>8. SyncInv'
  BY DEF SyncInv, TypeOK, Wanted
<1>9. AppliedInv'
  <2> SUFFICES ASSUME NEW d \in Clients, fate'[d] = "applied"
               PROVE  /\ fate[d] = "applied"
                      /\ \A e \in Clients : fate[e] = "applied" =>
                              fate'[e] = fate[e]
    BY DEF AppliedInv, TypeOK, Wanted
  <2> QED
    BY DEF ChannelInv, TypeOK
<1>10. StateSync'
  BY DEF StateSync, SyncInv, TypeOK
<1>11. BacklogIsAbandoned'
  BY DEF BacklogIsAbandoned, TypeOK
<1> QED
  BY <1>1, <1>2, <1>3, <1>4, <1>5, <1>6, <1>7, <1>8, <1>9, <1>10, <1>11

(* The kernel flag is written; the message in hand supersedes every toggle *)
(* applied before it.                                                      *)
LEMMA SetModuleStatePreserves ==
  ASSUME IInv,
         SetModuleState
  PROVE  IInv'
<1> USE ConstantsAssumption
      DEF SetModuleState, kernelVars, clientVars, socketVars, actorVars,
          historyVars, IInv
<1>1. TypeOK'
  BY DEF TypeOK, Fates, Wanted
<1>2. SocketInv'
  BY DEF SocketInv, TypeOK, ChannelInv
<1>3. MessageInv'
  BY DEF MessageInv, TypeOK, SocketInv, ChannelInv
<1>4. AnswerInv'
  BY DEF AnswerInv, TypeOK, SocketInv, ChannelInv, Responses
<1>5. TicketInv'
  BY DEF TicketInv, TypeOK, SocketInv, ChannelInv
<1>6. ChannelInv'
  BY DEF ChannelInv, TypeOK
<1>7. OrderInv'
  BY DEF OrderInv, TypeOK, ChannelInv
<1>8. SyncInv'
  BY DEF SyncInv, ChannelInv, MessageInv, TypeOK, Wanted
<1>9. AppliedInv'
  <2>1. /\ current \in Clients /\ fate[current] = "queued"
        /\ request[current] \in Toggles
        /\ request[current].target \in Registry
    BY DEF ChannelInv, MessageInv, Commands, Queries, IsToggle, TypeOK
  <2>2. state_map'[request[current].target] = Wanted(current)
    BY <2>1 DEF TypeOK
  <2>3. \A d \in Clients : fate[d] = "applied" => ticket[d] < ticket[current]
    BY <2>1 DEF OrderInv, TypeOK
  <2>4. SUFFICES ASSUME NEW c \in Clients, fate'[c] = "applied", c # current
        PROVE  /\ request[c] \in Toggles /\ request[c].target \in Registry
               /\ \/ state_map'[request[c].target] = Wanted(c)
                  \/ \E d \in Clients :
                       /\ ticket[d] > ticket[c] /\ fate'[d] = "applied"
                       /\ request[d].target = request[c].target
    <3>1. SUFFICES ASSUME NEW c \in Clients, fate'[c] = "applied"
          PROVE  /\ request[c] \in Toggles /\ request[c].target \in Registry
                 /\ \/ state_map'[request[c].target] = Wanted(c)
                    \/ \E d \in Clients :
                         /\ ticket[d] > ticket[c] /\ fate'[d] = "applied"
                         /\ request[d].target = request[c].target
      BY DEF AppliedInv, Wanted
    <3> QED
      BY <2>1, <2>2, <2>4, <3>1
  <2>5. fate[c] = "applied"
    BY <2>4 DEF TypeOK
  <2>6. CASE request[c].target = request[current].target
    BY <2>1, <2>3, <2>5, <2>6 DEF AppliedInv, TypeOK
  <2>7. CASE request[c].target # request[current].target
    <3>1. state_map'[request[c].target] = state_map[request[c].target]
      BY <2>5, <2>7 DEF AppliedInv, TypeOK
    <3>2. \A d \in Clients : fate[d] = "applied" => fate'[d] = "applied"
      BY DEF TypeOK
    <3> QED
      BY <2>5, <3>1, <3>2 DEF AppliedInv
  <2> QED
    BY <2>6, <2>7
<1>10. StateSync'
  BY DEF StateSync, SyncInv, TypeOK
<1>11. BacklogIsAbandoned'
  BY DEF BacklogIsAbandoned, TypeOK
<1> QED
  BY <1>1, <1>2, <1>3, <1>4, <1>5, <1>6, <1>7, <1>8, <1>9, <1>10, <1>11

(* The userland flag catches up and SUCCESS is sent. *)
LEMMA ToggleUserPreserves ==
  ASSUME IInv,
         ToggleUser
  PROVE  IInv'
<1> USE ConstantsAssumption
      DEF ToggleUser, Send, kernelVars, clientVars, socketVars, actorVars,
          historyVars, IInv
<1>1. TypeOK'
  BY DEF TypeOK, Fates, Wanted, SyncInv, Responses
<1>2. SocketInv'
  BY DEF SocketInv, TypeOK, SyncInv
<1>3. MessageInv'
  BY DEF MessageInv, TypeOK, SocketInv
<1>4. AnswerInv'
  BY DEF AnswerInv, TypeOK, SocketInv, SyncInv, Responses
<1>5. TicketInv'
  BY DEF TicketInv, TypeOK, SocketInv
<1>6. ChannelInv'
  BY DEF ChannelInv, TypeOK, SyncInv
<1>7. OrderInv'
  BY DEF OrderInv, TypeOK
<1>8. SyncInv'
  BY DEF SyncInv, TypeOK, Wanted
<1>9. AppliedInv'
  BY DEF AppliedInv, TypeOK, Wanted
<1>10. StateSync'
  BY DEF StateSync, SyncInv, TypeOK, Wanted
<1>11. BacklogIsAbandoned'
  BY DEF BacklogIsAbandoned, TypeOK
<1> QED
  BY <1>1, <1>2, <1>3, <1>4, <1>5, <1>6, <1>7, <1>8, <1>9, <1>10, <1>11

(* A panic in toggle() voids every queued message. *)
LEMMA PanicPreserves ==
  ASSUME IInv,
         Panic
  PROVE  IInv'
<1> USE ConstantsAssumption
      DEF Panic, kernelVars, clientVars, socketVars, actorVars, historyVars,
          IInv
<1>1. TypeOK'
  <2>1. fate' \in [Clients -> Fates] /\ channel' \in Seq(Clients)
       /\ Len(channel') = 0
    BY DEF TypeOK, Fates
  <2> QED
    BY <2>1 DEF TypeOK, Wanted, SyncInv
<1>2. SocketInv'
  BY DEF SocketInv, TypeOK
<1>3. MessageInv'
  BY DEF MessageInv, TypeOK, SocketInv
<1>4. AnswerInv'
  BY DEF AnswerInv, TypeOK, SocketInv, Responses
<1>5. TicketInv'
  BY DEF TicketInv, TypeOK, SocketInv
<1>6. ChannelInv'
  BY DEF ChannelInv, TypeOK
<1>7. OrderInv'
  BY DEF OrderInv, TypeOK
<1>8. SyncInv'
  BY DEF SyncInv, TypeOK, Wanted
<1>9. AppliedInv'
  <2> SUFFICES ASSUME NEW d \in Clients
               PROVE  fate'[d] = "applied" <=> fate[d] = "applied"
    BY DEF AppliedInv, TypeOK, Wanted
  <2> QED
    BY DEF TypeOK
<1>10. StateSync'
  BY DEF StateSync, SyncInv, TypeOK, Wanted
<1>11. BacklogIsAbandoned'
  BY DEF BacklogIsAbandoned, TypeOK
<1> QED
  BY <1>1, <1>2, <1>3, <1>4, <1>5, <1>6, <1>7, <1>8, <1>9, <1>10, <1>11

-----------------------------------------------------------------------------
(* The state main() hands over satisfies the bookkeeping. *)
LEMMA InitEstablishes == Init => IInv
<1> SUFFICES ASSUME Init PROVE IInv
  OBVIOUS
<1> USE ConstantsAssumption DEF Init
<1>1. NoRequest \in Requests
  BY DEF Requests, NoRequest
<1>2. TypeOK
  <2>1. state_map \in [Registry -> BOOLEAN]
    BY Zenon
  <2>2. /\ incoming \in Seq(Clients) /\ channel \in Seq(Clients)
        /\ Len(channel) <= ChannelCap /\ budget \in 0 .. DrainMax
    OBVIOUS
  <2> QED
    BY <1>1, <2>1, <2>2 DEF TypeOK, Fates, Answers
<1>3. /\ SocketInv /\ MessageInv /\ TicketInv /\ OrderInv /\ SyncInv
      /\ AppliedInv /\ BacklogIsAbandoned
  BY DEF SocketInv, MessageInv, TicketInv, OrderInv, SyncInv, AppliedInv,
         BacklogIsAbandoned
<1>4. AnswerInv /\ ChannelInv
  BY DEF AnswerInv, Responses, ChannelInv
<1>5. StateSync
  BY DEF StateSync
<1> QED
  BY <1>2, <1>3, <1>4, <1>5 DEF IInv

(* Every step of the clients, of the IPC thread and of the actor keeps the *)
(* bookkeeping.                                                            *)
LEMMA NextPreserves == IInv /\ [Next]_vars => IInv'
<1> SUFFICES ASSUME IInv, [Next]_vars PROVE IInv'
  OBVIOUS
<1>1. CASE ClientStep
  BY <1>1, ConnectPreserves DEF ClientStep
<1>2. CASE IpcThread
  <2>1. CASE Accept
    BY <2>1, AcceptPreserves
  <2>7. CASE IpcPanic
    BY <2>7, IpcPanicPreserves
  <2>2. CASE Dispatch
    BY <2>2, DispatchPreserves
  <2>3. CASE RejectPeer \/ DropConnection \/ RejectCommand
    <3>1. ipc = "handle" /\ fate[serving] = "unsent"
      BY <2>3 DEF RejectPeer, DropConnection, RejectCommand, IInv, SocketInv
    <3> QED
      BY <2>3, <3>1, ClosePreserves
      DEF RejectPeer, DropConnection, RejectCommand, Answers
  <2>4. CASE DispatchFull \/ DispatchDisconnected
    <3>1. ipc = "handle" /\ fate[serving] = "unsent"
      BY <2>4 DEF DispatchFull, DispatchDisconnected, Dispatchable, IInv,
                  SocketInv
    <3> QED
      BY <2>4, <3>1, ClosePreserves DEF DispatchFull, DispatchDisconnected,
                                        Answers
  <2>5. CASE AwaitAnswered
    <3>1. serving \in Clients /\ reply[serving] \in Responses
      BY <2>5, ConstantsAssumption DEF AwaitAnswered, IInv, TypeOK
    <3>2. /\ reply[serving] = "success" => fate[serving] = "applied"
          /\ fate[serving] # "queued"
      BY <3>1 DEF IInv, AnswerInv
    <3>3. reply[serving] \in Answers \ {"nothing"}
      BY <3>1 DEF Answers, Responses
    <3> QED
      BY <2>5, <3>2, <3>3, ClosePreserves DEF AwaitAnswered
  <2>6. CASE AwaitTimeout
    BY <2>6, ClosePreserves DEF AwaitTimeout, Answers
  <2> QED
    BY <1>2, <2>1, <2>2, <2>3, <2>4, <2>5, <2>6, <2>7 DEF IpcThread
<1>3. CASE ActorThread
  <2>1. CASE Recv \/ Drain
    <3>1. budget \in 0 .. DrainMax /\ DrainMax \in Nat
      BY ConstantsAssumption DEF IInv, TypeOK
    <3>2. budget' \in 0 .. DrainMax
      BY <2>1, <3>1 DEF Recv, Drain
    <3> QED
      BY <2>1, <3>2, TakePreserves DEF Recv, Drain
  <2>2. CASE EndBatch \/ Poll \/ RecvDisconnected \/ Exit
    BY <2>2, LoopPreserves DEF EndBatch, Poll, RecvDisconnected, Exit
  <2>3. CASE HandleQuery \/ RejectTarget \/ SetModuleStateFails
    <3> DEFINE R == Responses \ {"success"}
    <3>1. {"status", "listing", "not_loaded", "not_active", "map_error"}
            \subseteq R
      BY DEF Responses
    <3>2. /\ actor = "command"
          /\ fate' = [fate EXCEPT ![current] = "void"]
          /\ \E response \in R : Send(response)
          /\ UNCHANGED <<state_map, is_active, unsynced>>
      BY <2>3, <3>1 DEF HandleQuery, RejectTarget, SetModuleStateFails
    <3> QED
      BY <3>2, SettlePreserves
  <2>4. CASE SetModuleState
    BY <2>4, SetModuleStatePreserves
  <2>5. CASE ToggleUser
    BY <2>5, ToggleUserPreserves
  <2>6. CASE Panic
    BY <2>6, PanicPreserves
  <2> QED
    BY <1>3, <2>1, <2>2, <2>3, <2>4, <2>5, <2>6 DEF ActorThread, ActorCommands
<1>4. CASE UNCHANGED vars
  BY <1>4, ConstantsAssumption
  DEF vars, kernelVars, clientVars, socketVars, actorVars, historyVars, IInv,
      TypeOK, SocketInv, MessageInv, AnswerInv, TicketInv, ChannelInv,
      OrderInv, SyncInv, AppliedInv, StateSync, BacklogIsAbandoned, Wanted
<1> QED
  BY <1>1, <1>2, <1>3, <1>4 DEF Next

(* The bookkeeping is an invariant of the control plane. *)
THEOREM Invariance == Spec => []IInv
<1> QED
  BY InitEstablishes, NextPreserves, PTL DEF Spec

(* Every variable keeps its type, whatever the clients send and however    *)
(* the IPC thread and the actor interleave; the channel stays bounded.     *)
THEOREM TypeCorrect == Spec => []TypeOK
<1>1. IInv => TypeOK
  BY DEF IInv
<1> QED
  BY <1>1, Invariance, PTL

(* toggle_module keeps the kernel flag and the userland flag together.     *)
THEOREM FlagsStaySynchronised == Spec => []StateSync
<1>1. IInv => StateSync
  BY DEF IInv
<1> QED
  BY <1>1, Invariance, PTL

(* The channel holds at most one message somebody still waits for.         *)
THEOREM BacklogAbandoned == Spec => []BacklogIsAbandoned
<1>1. IInv => BacklogIsAbandoned
  BY DEF IInv
<1> QED
  BY <1>1, Invariance, PTL

(* A toggle acknowledged with SUCCESS stays in force until a toggle that   *)
(* was accepted later takes effect.                                        *)
THEOREM AcknowledgedTogglesGovern == Spec => []LastAckGoverns
<1>1. IInv => LastAckGoverns
  BY DEF IInv, AnswerInv, AppliedInv, LastAckGoverns
<1> QED
  BY <1>1, Invariance, PTL

(* A kernel flag changes only by the first execution of a root client's    *)
(* toggle, to the value it asked for.                                      *)
THEOREM TogglesAreRequested == Spec => ToggleIsRequested
<1> DEFINE Change ==
      \A m \in Registry :
        state_map'[m] # state_map[m] =>
          \E c \in Clients :
            /\ peer[c] = "root" /\ request[c].target = m
            /\ state_map'[m] = Wanted(c)
            /\ fate[c] = "queued" /\ fate'[c] = "applied"
<1>1. IInv /\ [Next]_vars => [Change]_vars
  <2> SUFFICES ASSUME IInv, [Next]_vars PROVE Change
    OBVIOUS
  <2>1. CASE SetModuleState
    <3>1. /\ current \in Clients /\ fate[current] = "queued"
          /\ peer[current] = "root"
      BY <2>1, ConstantsAssumption
      DEF SetModuleState, IInv, TypeOK, ChannelInv, MessageInv
    <3>2. fate'[current] = "applied"
      BY <2>1, <3>1 DEF SetModuleState, IInv, TypeOK
    <3>3. \A m \in Registry :
            state_map'[m] # state_map[m] =>
              request[current].target = m /\ state_map'[m] = Wanted(current)
      BY <2>1 DEF SetModuleState, IInv, TypeOK
    <3> QED
      BY <3>1, <3>2, <3>3
  <2>2. CASE state_map' = state_map
    BY <2>2
  <2>3. ~SetModuleState => state_map' = state_map
    BY DEF Next, vars, ClientStep, Connect, IpcThread, Accept, IpcPanic,
           RejectPeer, DropConnection, RejectCommand, Dispatch, DispatchFull,
           DispatchDisconnected, AwaitAnswered, AwaitTimeout, Close,
           ActorThread, ActorCommands, Recv, Drain, Take, EndBatch, Poll,
           RecvDisconnected, HandleQuery, RejectTarget, SetModuleStateFails,
           ToggleUser, Panic, Exit, Send, kernelVars
  <2> QED
    BY <2>1, <2>2, <2>3
<1> QED
  BY <1>1, Invariance, PTL DEF Spec, ToggleIsRequested

(* The two threads and the channel between them implement the atomic board *)
(* of switches: at most one effect per request, in the order of            *)
(* submission, and truthful answers.                                       *)
THEOREM Refinement == Spec => ImplementsSwitchboard
<1>1. Init => Board!Init
  <2> SUFFICES ASSUME Init PROVE Board!Init
    OBVIOUS
  <2>1. IInv
    BY InitEstablishes
  <2>2. state_map \in [Registry -> BOOLEAN]
    BY <2>1 DEF IInv, TypeOK
  <2>3. request = [c \in Clients |-> Board!NoRequest]
    BY DEF Init, NoRequest, Board!NoRequest
  <2> QED
    BY <2>2, <2>3 DEF Init, Board!Init
<1>2. IInv /\ IInv' /\ [Next]_vars => [Board!Next]_Board!vars
  <2> SUFFICES ASSUME IInv, [Next]_vars
               PROVE  Board!Next \/ UNCHANGED Board!vars
    BY DEF Board!vars
  <2> USE ConstantsAssumption DEF kernelVars, clientVars, socketVars,
          actorVars, historyVars
  <2> DEFINE Told == {"success", "timeout"} \cup Board!NoEffect
                       \cup Board!Refusals
  <2>1. ASSUME NEW c \in Clients, NEW r \in Requests, NEW p, Connect(c, r, p)
        PROVE  Board!Next
    <3>1. r \in Board!Requests
      BY DEF Requests, Commands, Toggles, Queries, Board!Requests,
             Board!Toggles
    <3>2. fate[c] = "unsent" /\ told[c] = "nothing"
      BY <2>1 DEF Connect, IInv, SocketInv, TypeOK
    <3> QED
      BY <2>1, <3>1, <3>2 DEF Connect, Board!Next, Board!Ask
  <2>2. ASSUME NEW a \in Told, Close(a), UNCHANGED historyVars,
               ipc \in {"handle", "await"},
               \/ a = "success" /\ fate[serving] = "applied"
               \/ a \in Board!NoEffect /\ fate[serving] = "void"
               \/ a \in Board!Refusals /\ fate[serving] = "unsent"
               \/ a = "timeout" /\ fate[serving] # "unsent"
        PROVE  Board!Next
    <3>1. serving \in Clients /\ told[serving] = "nothing"
      BY <2>2 DEF IInv, TypeOK, SocketInv
    <3>2. Board!Answer(serving, a)
      BY <2>2, <3>1 DEF Close, Board!Answer
    <3> QED
      BY <3>1, <3>2 DEF Board!Next
  <2>3. CASE Dispatch
    <3>1. serving \in Clients /\ fate[serving] = "unsent"
          /\ told[serving] = "nothing"
      BY <2>3 DEF Dispatch, Dispatchable, IInv, TypeOK, SocketInv
    <3>2. Board!Submit(serving)
      BY <2>3, <3>1 DEF Dispatch, Board!Submit
    <3> QED
      BY <3>1, <3>2 DEF Board!Next
  <2>4. ASSUME actor = "command"
        PROVE  current \in Clients /\ Board!IsFirst(current)
    <3>1. current \in Clients /\ fate[current] = "queued"
      BY <2>4 DEF IInv, TypeOK, ChannelInv
    <3>2. \A d \in Clients : fate[d] = "queued" => ticket[current] <= ticket[d]
      <4> SUFFICES ASSUME NEW d \in Clients, fate[d] = "queued", d # current
                   PROVE  ticket[current] <= ticket[d]
        BY <3>1 DEF IInv, TypeOK
      <4>1. PICK i \in 1 .. Len(channel) : channel[i] = d
        BY <2>4 DEF IInv, ChannelInv
      <4>2. ticket[current] < ticket[d]
        BY <2>4, <4>1 DEF IInv, ChannelInv
      <4> QED
        BY <3>1, <4>2 DEF IInv, TypeOK
    <3> QED
      BY <3>1, <3>2 DEF IInv, OrderInv, Board!IsFirst
  <2>5. CASE HandleQuery \/ RejectTarget \/ SetModuleStateFails
    <3>1. actor = "command" /\ Board!Skip(current)
      BY <2>4, <2>5 DEF HandleQuery, RejectTarget, SetModuleStateFails, Send,
                        Board!Skip
    <3> QED
      BY <2>4, <3>1 DEF Board!Next
  <2>6. CASE SetModuleState
    <3>1. current \in Clients /\ request[current] \in Board!Toggles
          /\ request[current].target \in Registry
      BY <2>4, <2>6 DEF SetModuleState, IsToggle, IInv, TypeOK, ChannelInv,
                   MessageInv, Commands, Toggles, Queries, Board!Toggles
    <3>2. Board!Apply(current)
      BY <2>4, <2>6, <3>1 DEF SetModuleState, Wanted, Board!Apply
    <3> QED
      BY <3>1, <3>2 DEF Board!Next
  <2>7. CASE Panic
    BY <2>7 DEF Panic, Board!Stop, Board!Next
  <2>8. CASE Accept \/ IpcPanic \/ Recv \/ Drain \/ EndBatch \/ Poll
             \/ RecvDisconnected \/ ToggleUser \/ Exit \/ UNCHANGED vars
    BY <2>8 DEF Accept, IpcPanic, Recv, Drain, Take, EndBatch, Poll,
                RecvDisconnected, ToggleUser, Send, Exit, vars, Board!vars
  <2>9. CASE RejectPeer \/ DropConnection \/ RejectCommand
    <3>1. fate[serving] = "unsent"
      BY <2>9 DEF RejectPeer, DropConnection, RejectCommand, IInv, SocketInv
    <3> QED
      BY <2>2, <2>9, <3>1 DEF RejectPeer, DropConnection, RejectCommand,
                              Board!Refusals
  <2>10. CASE DispatchFull \/ DispatchDisconnected
    <3>1. fate[serving] = "unsent"
      BY <2>10 DEF DispatchFull, DispatchDisconnected, Dispatchable, IInv,
                   SocketInv
    <3> QED
      BY <2>2, <2>10, <3>1 DEF DispatchFull, DispatchDisconnected,
                               Dispatchable, Board!Refusals
  <2>11. CASE AwaitAnswered
    <3>1. serving \in Clients /\ reply[serving] \in Responses
      BY <2>11 DEF AwaitAnswered, IInv, TypeOK
    <3>2. \/ reply[serving] = "success" /\ fate[serving] = "applied"
          \/ reply[serving] \in Board!NoEffect /\ fate[serving] = "void"
      BY <3>1 DEF IInv, AnswerInv, Responses, Board!NoEffect
    <3> QED
      BY <2>2, <2>11, <3>2 DEF AwaitAnswered
  <2>12. CASE AwaitTimeout
    <3>1. fate[serving] # "unsent"
      BY <2>12 DEF AwaitTimeout, IInv, SocketInv
    <3> QED
      BY <2>2, <2>12, <3>1 DEF AwaitTimeout
  <2>13. CASE ClientStep
    BY <2>1, <2>13 DEF ClientStep
  <2> QED
    BY <2>3, <2>5, <2>6, <2>7, <2>8, <2>9, <2>10, <2>11, <2>12, <2>13
    DEF Next, IpcThread, ActorThread, ActorCommands
<1> QED
  BY <1>1, <1>2, Invariance, PTL DEF Spec, ImplementsSwitchboard, Board!Spec
-----------------------------------------------------------------------------
(* Telemetry.  What its hooks and polls add to a step leaves the control   *)
(* plane alone or is a step of it, so that all of the above holds there.   *)
LEMMA TelemetryStep ==
  ASSUME [TNext]_tvars
  PROVE  [Next]_vars
<1>1. CASE ControlStep
  <2>1. Toggles \subseteq Requests
    BY DEF Requests, Commands
  <2> QED BY <1>1, <2>1 DEF ControlStep, Next, ClientStep, ActorThread
<1>2. CASE PollStep
  BY <1>2 DEF PollStep, PollStart, PollRing, ProcessEvent, PollReturns, Next,
              ActorThread
<1>3. CASE \E t \in Tasks : HookStep(t)
  BY <1>3 DEF HookStep, HookMatches, HookReports
<1>4. CASE UNCHANGED tvars
  BY <1>4 DEF tvars
<1> QED BY <1>1, <1>2, <1>3, <1>4 DEF TNext

(* The telemetry path, with all its hooks and rings, is a control plane.   *)
THEOREM TelemetryIsControlled == TSpec => Spec
<1>1. TInit => Init
  BY DEF TInit
<1>2. [TNext]_tvars => [Next]_vars
  BY TelemetryStep
<1> QED BY <1>1, <1>2, PTL DEF TSpec, Spec

(* A flag the boot failed to write is down until a toggle raises it.       *)
UnsyncedDown ==
  \A m \in unsynced :
    ~state_map[m] \/ (actor = "sync" /\ request[current].target = m)

(* What a step of the control plane does to the flags: the first write of  *)
(* a toggle, the second, or nothing; and a toggle between its two writes   *)
(* stays as it is.                                                         *)
FirstWrite ==
  /\ actor # "sync" /\ actor' = "sync"
  /\ UNCHANGED <<is_active, unsynced, current, request>>
  /\ request[current].target \in active_skeletons
  /\ state_map' = [state_map EXCEPT ![request[current].target] = Wanted(current)]

SecondWrite ==
  /\ actor = "sync" /\ actor' # "sync"
  /\ is_active' = [is_active EXCEPT ![request[current].target] = Wanted(current)]
  /\ unsynced' = unsynced \ {request[current].target}
  /\ UNCHANGED state_map

NoWrite ==
  /\ UNCHANGED <<is_active, state_map, unsynced>>
  /\ actor = "sync" <=> actor' = "sync"
  /\ actor = "sync" => current' = current /\ request'[current] = request[current]

LEMMA ControlCases ==
  ASSUME IInv, [Next]_vars
  PROVE  FirstWrite \/ SecondWrite \/ NoWrite
<1>1. CASE SetModuleState
  BY <1>1 DEF SetModuleState, FirstWrite, clientVars
<1>2. CASE ToggleUser \/ Panic
  BY <1>2 DEF ToggleUser, Panic, Send, SecondWrite
<1>3. CASE ClientStep
  <2>1. PICK c \in Clients, x \in Requests, p \in {"root", "other"} :
          Connect(c, x, p)
    BY <1>3 DEF ClientStep
  <2>2. actor = "sync" => current \in Clients /\ current # c
    BY <2>1 DEF Connect, IInv, TypeOK, SocketInv, SyncInv
  <2> QED BY <2>1, <2>2 DEF Connect, NoWrite, kernelVars, actorVars, IInv, TypeOK
<1>4. CASE IpcThread
  BY <1>4 DEF IpcThread, Accept, IpcPanic, RejectPeer, DropConnection,
              RejectCommand, Dispatch, DispatchFull, DispatchDisconnected,
              AwaitAnswered, AwaitTimeout, Close, NoWrite, kernelVars,
              clientVars, actorVars
<1>5. CASE \/ Recv \/ Drain \/ EndBatch \/ RecvDisconnected \/ HandleQuery
           \/ RejectTarget \/ SetModuleStateFails \/ Exit \/ Poll
  BY <1>5 DEF Recv, Drain, Take, EndBatch, RecvDisconnected, HandleQuery,
              RejectTarget, SetModuleStateFails, Send, Exit, Poll, NoWrite,
              kernelVars
<1>6. CASE UNCHANGED vars
  BY <1>6 DEF vars, kernelVars, clientVars, actorVars, NoWrite
<1> QED
  BY <1>1, <1>2, <1>3, <1>4, <1>5, <1>6
  DEF Next, ActorThread, ActorCommands

LEMMA UnsyncedStep ==
  ASSUME IInv, UnsyncedDown, [Next]_vars
  PROVE  UnsyncedDown'
<1>1. unsynced \subseteq Registry /\ state_map \in [Registry -> BOOLEAN]
  BY DEF IInv, TypeOK
<1>2. CASE FirstWrite
  BY <1>1, <1>2 DEF FirstWrite, UnsyncedDown
<1>3. CASE SecondWrite
  BY <1>3 DEF SecondWrite, UnsyncedDown
<1>4. CASE NoWrite
  BY <1>4 DEF NoWrite, UnsyncedDown
<1> QED BY <1>2, <1>3, <1>4, ControlCases

(* The module will be on, or is, when its records are polled.              *)
Awaited(m) ==
  \/ is_active[m]
  \/ actor = "sync" /\ request[current].target = m /\ Wanted(current)

(* A ring holds each alert of its module once, and nothing else.           *)
RingHolds ==
  \A m \in Registry : \A i \in 1 .. Len(ring[m]) :
    hook[ring[m][i]] = "queued" /\ module[ring[m][i]] = m

RingOnce ==
  \A m \in Registry : \A i, j \in 1 .. Len(ring[m]) :
    ring[m][i] = ring[m][j] => i = j

RingInv ==
  /\ hook \in [Tasks -> HookStates]
  /\ module \in [Tasks -> Registry]
  /\ ring \in [Registry -> Seq(Tasks)]
  /\ polling \in Registry \cup {NoName} /\ ready \subseteq Registry
  /\ RingHolds /\ RingOnce

AlertInv ==
  \A t \in Tasks :
    hook[t] \in {"matched", "queued"} => Awaited(module[t]) \/ t \in excused

TelemetryInv == RingInv /\ AlertInv /\ DropsAreExcused

(* A match saw the kernel flag up: the userland flag is up too, or the     *)
(* toggle that raised the one is about to raise the other.                 *)
LEMMA MatchAwaited ==
  ASSUME IInv, UnsyncedDown, TelemetryInv, NEW t \in Tasks, HookMatches(t)
  PROVE  TelemetryInv'
<1>1. /\ hook[t] = "idle" /\ hook' = [hook EXCEPT ![t] = "matched"]
      /\ module[t] \in active_skeletons /\ state_map[module[t]]
      /\ UNCHANGED <<vars, module, ring, ready, polling, excused>>
  BY DEF HookMatches
<1>2. UNCHANGED <<is_active, actor, request, current>>
  BY <1>1 DEF vars, kernelVars, clientVars, actorVars
<1>3. Awaited(module[t])
  <2>1. \/ is_active[module[t]]
        \/ actor = "sync" /\ request[current].target = module[t]
    BY <1>1 DEF IInv, StateSync, UnsyncedDown
  <2>2. actor = "sync" /\ request[current].target = module[t] => Wanted(current)
    BY <1>1 DEF IInv, SyncInv
  <2> QED BY <2>1, <2>2 DEF Awaited
<1>4. RingInv'
  <2>1. hook' \in [Tasks -> HookStates]
        /\ \A x \in Tasks : hook[x] = "queued" => hook'[x] = "queued"
    BY <1>1 DEF TelemetryInv, RingInv, HookStates
  <2>2. RingHolds'
    <3> SUFFICES ASSUME NEW m \in Registry, NEW i \in 1 .. Len(ring[m])
                 PROVE  hook'[ring[m][i]] = "queued" /\ module[ring[m][i]] = m
      BY <1>1 DEF RingHolds
    <3>1. ring[m] \in Seq(Tasks)
      BY DEF TelemetryInv, RingInv
    <3>2. ring[m][i] \in Tasks
      BY <3>1
    <3> QED BY <2>1, <3>2 DEF TelemetryInv, RingInv, RingHolds
  <2>3. RingOnce'
    BY <1>1 DEF TelemetryInv, RingInv, RingOnce
  <2> QED BY <1>1, <2>1, <2>2, <2>3 DEF TelemetryInv, RingInv
<1>5. AlertInv'
  BY <1>1, <1>2, <1>3 DEF TelemetryInv, RingInv, AlertInv, Awaited, Wanted
<1>6. DropsAreExcused'
  BY <1>1 DEF TelemetryInv, RingInv, DropsAreExcused
<1> QED BY <1>4, <1>5, <1>6 DEF TelemetryInv

LEMMA ReportQueued ==
  ASSUME TelemetryInv, NEW t \in Tasks, HookReports(t)
  PROVE  TelemetryInv'
<1>1. /\ hook[t] = "matched" /\ module[t] \in Registry
      /\ UNCHANGED <<module, ready, polling, excused, is_active, actor, request,
                     current>>
  BY DEF HookReports, vars, kernelVars, clientVars, actorVars, TelemetryInv,
         RingInv
<1>2. CASE /\ ring' = [ring EXCEPT ![module[t]] = Append(@, t)]
           /\ hook' = [hook EXCEPT ![t] = "queued"]
  <2> DEFINE m == module[t]
  <2>1. ring[m] \in Seq(Tasks)
    BY <1>1 DEF TelemetryInv, RingInv
  <2>2. /\ ring' \in [Registry -> Seq(Tasks)]
        /\ ring'[m] = Append(ring[m], t)
        /\ \A n \in Registry \ {m} : ring'[n] = ring[n]
    BY <1>1, <1>2, <2>1 DEF TelemetryInv, RingInv
  <2>3. /\ Len(ring'[m]) = Len(ring[m]) + 1 /\ ring'[m][Len(ring[m]) + 1] = t
        /\ \A i \in 1 .. Len(ring[m]) : ring'[m][i] = ring[m][i]
    BY <2>1, <2>2
  <2>4. \A n \in Registry : \A i \in 1 .. Len(ring[n]) : ring[n][i] # t
    BY <1>1 DEF TelemetryInv, RingInv, RingHolds
  <2>5. hook' \in [Tasks -> HookStates] /\ hook'[t] = "queued"
        /\ \A x \in Tasks \ {t} : hook'[x] = hook[x]
    BY <1>2 DEF TelemetryInv, RingInv, HookStates
  <2>6. ASSUME NEW n \in Registry, NEW i \in 1 .. Len(ring'[n])
        PROVE  hook'[ring'[n][i]] = "queued" /\ module[ring'[n][i]] = n
    <3>0. ring[n] \in Seq(Tasks)
      BY DEF TelemetryInv, RingInv
    <3>1. CASE n # m
      BY <2>2, <2>4, <2>5, <3>0, <3>1 DEF TelemetryInv, RingInv, RingHolds
    <3>2. CASE n = m /\ i = Len(ring[m]) + 1
      BY <2>3, <2>5, <3>2
    <3>3. CASE n = m /\ i \in 1 .. Len(ring[m])
      <4>1. ring[m][i] \in Tasks \ {t} /\ ring'[m][i] = ring[m][i]
        BY <1>1, <2>1, <2>3, <2>4, <3>3
      <4>2. hook[ring[m][i]] = "queued" /\ module[ring[m][i]] = m
        BY <1>1, <3>3 DEF TelemetryInv, RingInv, RingHolds
      <4> QED BY <2>5, <3>3, <4>1, <4>2
    <3> QED BY <2>1, <2>3, <3>1, <3>2, <3>3
  <2>7. ASSUME NEW n \in Registry, NEW i \in 1 .. Len(ring'[n]),
               NEW j \in 1 .. Len(ring'[n]), ring'[n][i] = ring'[n][j]
        PROVE  i = j
    <3>1. CASE n # m
      BY <2>2, <2>7, <3>1 DEF TelemetryInv, RingInv, RingOnce
    <3>2. CASE n = m
      <4>1. \A k \in 1 .. Len(ring[m]) : ring'[m][k] # t
        BY <1>1, <2>3, <2>4
      <4>2. \A k, l \in 1 .. Len(ring[m]) : ring'[m][k] = ring'[m][l] => k = l
        <5> SUFFICES ASSUME NEW k \in 1 .. Len(ring[m]),
                            NEW l \in 1 .. Len(ring[m]), ring'[m][k] = ring'[m][l]
                     PROVE  k = l
          OBVIOUS
        <5>1. ring[m][k] = ring[m][l]
          BY <2>3
        <5> QED BY <1>1, <5>1 DEF TelemetryInv, RingInv, RingOnce
      <4>3. \A k \in 1 .. Len(ring'[m]) :
              k = Len(ring[m]) + 1 \/ k \in 1 .. Len(ring[m])
        BY <2>1, <2>3
      <4> QED BY <2>3, <2>7, <3>2, <4>1, <4>2, <4>3
    <3> QED BY <3>1, <3>2
  <2>8. RingInv'
    <3>1. RingHolds'
      BY <1>1, <2>6 DEF RingHolds
    <3>2. RingOnce'
      BY <2>7 DEF RingOnce
    <3> QED BY <1>1, <2>2, <2>5, <3>1, <3>2 DEF TelemetryInv, RingInv
  <2>9. AlertInv' /\ DropsAreExcused'
    BY <1>1, <2>5 DEF TelemetryInv, AlertInv, Awaited, Wanted, DropsAreExcused
  <2> QED BY <2>8, <2>9 DEF TelemetryInv
<1>3. CASE ring' = ring /\ hook' = [hook EXCEPT ![t] = "overflow"]
  <2>1. hook' \in [Tasks -> HookStates] /\ hook'[t] = "overflow"
        /\ \A x \in Tasks \ {t} : hook'[x] = hook[x]
    BY <1>3 DEF TelemetryInv, RingInv, HookStates
  <2>2. \A n \in Registry : \A i \in 1 .. Len(ring[n]) :
          ring[n][i] \in Tasks \ {t}
    BY <1>1 DEF TelemetryInv, RingInv, RingHolds
  <2>3. RingInv'
    <3>1. RingHolds'
      BY <1>1, <1>3, <2>1, <2>2 DEF TelemetryInv, RingInv, RingHolds
    <3>2. RingOnce'
      BY <1>3 DEF TelemetryInv, RingInv, RingOnce
    <3> QED BY <1>1, <1>3, <2>1, <3>1, <3>2 DEF TelemetryInv, RingInv
  <2>4. AlertInv' /\ DropsAreExcused'
    BY <1>1, <2>1 DEF TelemetryInv, AlertInv, Awaited, Wanted, DropsAreExcused
  <2> QED BY <2>3, <2>4 DEF TelemetryInv
<1> QED BY <1>2, <1>3 DEF HookReports

(* A record is dropped only while the actor polls, and then no toggle is   *)
(* half done.                                                              *)
LEMMA EventExcused ==
  ASSUME TelemetryInv, ProcessEvent
  PROVE  TelemetryInv'
<1> DEFINE m == polling
           t == Head(ring[m])
<1>1. /\ actor = "poll" /\ m \in Registry /\ ring[m] # <<>>
      /\ ring' = [ring EXCEPT ![m] = Tail(@)]
      /\ UNCHANGED <<module, ready, polling, excused, is_active, actor, request,
                     current>>
  BY DEF ProcessEvent, vars, kernelVars, clientVars, actorVars, TelemetryInv,
         RingInv
<1>2. PICK outcome \in {"logged", "failed", "discarded"} :
        /\ hook' = [hook EXCEPT ![t] = outcome]
        /\ outcome = "discarded" => ~is_active[m]
  BY DEF ProcessEvent
<1>3. ring[m] \in Seq(Tasks)
  BY <1>1 DEF TelemetryInv, RingInv
<1>4. t \in Tasks /\ t = ring[m][1] /\ 1 \in 1 .. Len(ring[m])
  BY <1>1, <1>3
<1>5. hook[t] = "queued" /\ module[t] = m
  BY <1>1, <1>4 DEF TelemetryInv, RingInv, RingHolds
<1>6. outcome = "discarded" => t \in excused
  BY <1>1, <1>2, <1>4, <1>5 DEF TelemetryInv, AlertInv, Awaited
<1>7. hook' \in [Tasks -> HookStates] /\ hook'[t] = outcome
      /\ \A x \in Tasks \ {t} : hook'[x] = hook[x]
  BY <1>2, <1>4 DEF TelemetryInv, RingInv, HookStates
<1>8. /\ ring' \in [Registry -> Seq(Tasks)]
      /\ \A n \in Registry \ {m} : ring'[n] = ring[n]
      /\ Len(ring'[m]) = Len(ring[m]) - 1
      /\ \A i \in 1 .. Len(ring'[m]) : ring'[m][i] = ring[m][i + 1]
  <2>1. Tail(ring[m]) \in Seq(Tasks) /\ Len(Tail(ring[m])) = Len(ring[m]) - 1
        /\ \A i \in 1 .. Len(ring[m]) - 1 : Tail(ring[m])[i] = ring[m][i + 1]
    BY <1>1, <1>3
  <2> QED BY <1>1, <2>1 DEF TelemetryInv, RingInv
<1>9. ASSUME NEW n \in Registry, NEW i \in 1 .. Len(ring'[n])
      PROVE  \E k \in 1 .. Len(ring[n]) :
               /\ ring'[n][i] = ring[n][k] /\ ring[n][k] # t
               /\ k = IF n = m THEN i + 1 ELSE i
  <2>0. Len(ring[n]) \in Nat
    BY DEF TelemetryInv, RingInv
  <2>1. CASE n = m
    <3>1. i + 1 \in 1 .. Len(ring[m]) /\ i + 1 # 1
      BY <1>8, <2>0, <2>1
    <3>2. ring[m][i + 1] # t
      BY <1>1, <1>4, <3>1 DEF TelemetryInv, RingInv, RingOnce
    <3> QED BY <1>8, <2>1, <3>1, <3>2
  <2>2. CASE n # m
    <3>1. ring'[n] = ring[n] /\ i \in 1 .. Len(ring[n])
      BY <1>8, <2>2
    <3>2. module[ring[n][i]] = n
      BY <3>1 DEF TelemetryInv, RingInv, RingHolds
    <3> QED BY <1>5, <2>2, <3>1, <3>2
  <2> QED BY <2>1, <2>2
<1>10. ASSUME NEW n \in Registry, NEW i \in 1 .. Len(ring'[n])
       PROVE  hook'[ring'[n][i]] = "queued" /\ module[ring'[n][i]] = n
  <2>1. PICK k \in 1 .. Len(ring[n]) : ring'[n][i] = ring[n][k] /\ ring[n][k] # t
    BY <1>9
  <2>2. ring[n] \in Seq(Tasks)
    BY DEF TelemetryInv, RingInv
  <2>3. ring[n][k] \in Tasks \ {t}
    BY <2>1, <2>2
  <2> QED BY <1>7, <2>1, <2>3 DEF TelemetryInv, RingInv, RingHolds
<1>11. ASSUME NEW n \in Registry, NEW i \in 1 .. Len(ring'[n]),
              NEW j \in 1 .. Len(ring'[n]), ring'[n][i] = ring'[n][j]
       PROVE  i = j
  <2>1. PICK k \in 1 .. Len(ring[n]) :
          ring'[n][i] = ring[n][k] /\ k = IF n = m THEN i + 1 ELSE i
    BY <1>9
  <2>2. PICK l \in 1 .. Len(ring[n]) :
          ring'[n][j] = ring[n][l] /\ l = IF n = m THEN j + 1 ELSE j
    BY <1>9
  <2>3. k = l
    BY <1>11, <2>1, <2>2 DEF TelemetryInv, RingInv, RingOnce
  <2> QED BY <2>1, <2>2, <2>3
<1>12. RingInv'
  <2>1. RingHolds'
    BY <1>1, <1>10 DEF RingHolds
  <2>2. RingOnce'
    BY <1>11 DEF RingOnce
  <2> QED BY <1>1, <1>7, <1>8, <2>1, <2>2 DEF TelemetryInv, RingInv
<1>13. AlertInv' /\ DropsAreExcused'
  BY <1>1, <1>6, <1>7
  DEF TelemetryInv, AlertInv, Awaited, Wanted, DropsAreExcused
<1> QED BY <1>12, <1>13 DEF TelemetryInv

(* A step of the control plane: alerts whose module is switched off are    *)
(* excused, and a toggle half done finishes as expected.                   *)
LEMMA ControlExcuses ==
  ASSUME IInv, TelemetryInv, ControlStep, [Next]_vars
  PROVE  TelemetryInv'
<1>1. /\ UNCHANGED <<hook, module, ring, ready, polling>>
      /\ excused' = excused \cup
           UNION {InFlight(m) : m \in {n \in Registry :
                                         is_active[n] /\ ~is_active'[n]}}
  BY DEF ControlStep, telemetryVars
<1>2. is_active \in [Registry -> BOOLEAN] /\ module \in [Tasks -> Registry]
      /\ active_skeletons \subseteq Registry
  BY DEF IInv, TypeOK, TelemetryInv, RingInv
<1>3. ASSUME NEW t \in Tasks, hook[t] \in {"matched", "queued"}
      PROVE  Awaited(module[t])' \/ t \in excused'
  <2> DEFINE m == module[t]
  <2>1. Awaited(m) \/ t \in excused
    BY <1>3 DEF TelemetryInv, AlertInv
  <2>2. CASE t \in excused
    BY <1>1, <2>2
  <2>3. CASE is_active[m] /\ ~is_active'[m]
    <3>1. t \in InFlight(m) /\ m \in Registry
      BY <1>2, <1>3 DEF InFlight
    <3> QED BY <1>1, <2>3, <3>1
  <2>4. CASE is_active[m] /\ is_active'[m]
    BY <1>1, <2>4 DEF Awaited
  <2>5. CASE actor = "sync" /\ request[current].target = m /\ Wanted(current)
    <3>1. CASE SecondWrite
      BY <1>1, <1>2, <2>5, <3>1 DEF SecondWrite, Awaited
    <3>2. CASE NoWrite
      BY <1>1, <2>5, <3>2 DEF NoWrite, Awaited, Wanted
    <3> QED BY <2>5, <3>1, <3>2, ControlCases DEF FirstWrite
  <2> QED BY <2>1, <2>2, <2>3, <2>4, <2>5 DEF Awaited
<1>4. AlertInv'
  BY <1>1, <1>3 DEF AlertInv
<1>5. RingInv' /\ DropsAreExcused'
  BY <1>1 DEF TelemetryInv, RingInv, RingHolds, RingOnce, DropsAreExcused
<1> QED BY <1>4, <1>5 DEF TelemetryInv

LEMMA PollKeeps ==
  ASSUME TelemetryInv, PollStart \/ PollRing \/ PollReturns
  PROVE  TelemetryInv'
<1>1. /\ UNCHANGED <<hook, module, ring, excused>>
      /\ polling' \in Registry \cup {NoName} /\ ready' \subseteq Registry
  BY DEF PollStart, PollRing, PollReturns, TelemetryInv, RingInv
<1>2. actor = "poll" /\ actor' # "sync" /\ is_active' = is_active
  BY DEF PollStart, PollRing, PollReturns, Poll, vars, kernelVars, actorVars
<1> QED BY <1>1, <1>2 DEF TelemetryInv, RingInv, RingHolds, RingOnce,
                          AlertInv, Awaited, DropsAreExcused

(* For any number of modules, clients, hooks and any size of the rings: a  *)
(* record is dropped only if its module was switched off while the alert   *)
(* was on its way.                                                         *)
THEOREM NoAlertIsLost == TSpec => []DropsAreExcused
<1>1. TInit => IInv /\ UnsyncedDown /\ TelemetryInv
  <2> SUFFICES ASSUME TInit PROVE IInv /\ UnsyncedDown /\ TelemetryInv
    OBVIOUS
  <2>1. IInv
    BY InitEstablishes DEF TInit
  <2>2. UnsyncedDown
    BY DEF TInit, Init, UnsyncedDown
  <2>3. RingInv
    BY DEF TInit, RingInv, RingHolds, RingOnce, HookStates
  <2>4. AlertInv /\ DropsAreExcused
    BY DEF TInit, AlertInv, DropsAreExcused
  <2> QED BY <2>1, <2>2, <2>3, <2>4 DEF TelemetryInv
<1>2. IInv /\ UnsyncedDown /\ TelemetryInv /\ [TNext]_tvars
        => (IInv /\ UnsyncedDown /\ TelemetryInv)'
  <2> SUFFICES ASSUME IInv, UnsyncedDown, TelemetryInv, [TNext]_tvars
               PROVE  (IInv /\ UnsyncedDown /\ TelemetryInv)'
    OBVIOUS
  <2>1. [Next]_vars
    BY TelemetryStep
  <2>2. IInv' /\ UnsyncedDown'
    BY <2>1, NextPreserves, UnsyncedStep
  <2>3. TelemetryInv'
    <3>1. CASE ControlStep
      BY <2>1, <3>1, ControlExcuses
    <3>2. CASE PollStep
      BY <3>2, PollKeeps, EventExcused DEF PollStep
    <3>3. CASE \E t \in Tasks : HookStep(t)
      BY <3>3, MatchAwaited, ReportQueued DEF HookStep
    <3>4. CASE UNCHANGED tvars
      BY <3>4 DEF tvars, telemetryVars, vars, kernelVars, clientVars, actorVars,
         TelemetryInv, RingInv, RingHolds, RingOnce, AlertInv, Awaited, Wanted,
         DropsAreExcused
    <3> QED BY <3>1, <3>2, <3>3, <3>4 DEF TNext
  <2> QED BY <2>2, <2>3
<1>3. TelemetryInv => DropsAreExcused
  BY DEF TelemetryInv
<1> QED BY <1>1, <1>2, <1>3, PTL DEF TSpec
=============================================================================
