------------------------------ MODULE Telemetry ------------------------------
(***************************************************************************)
(* The telemetry path, composed with the control plane: LSM hooks running  *)
(* in offending tasks test the kernel flag, reserve a record in their      *)
(* module's ring buffer and deny the call; the actor polls the rings       *)
(* between two batches of commands and process_event forwards each record, *)
(* or drops it, according to the userland flag at that moment.             *)
(*                                                                         *)
(* An offending task runs one hook of one module; its alert is named after *)
(* it.  What the record holds is left out.                                 *)
(***************************************************************************)
EXTENDS ControlPlane

CONSTANTS
  Tasks,    \* the calls that match a rule
  RingCap   \* records that fit in the 256 KB ring

ASSUME RingAssumption == RingCap \in Nat \ {0}

VARIABLES
  hook,     \* progress of the hook in each task, then of its alert
  module,   \* the module whose hook the task runs
  ring,     \* the `alerts` map of each module, oldest first
  ready,    \* rings epoll_wait reported and poll has still to visit
  polling,  \* the ring being consumed, or NoName
  excused   \* history: alerts in flight when their module was disabled

telemetryVars == <<hook, module, ring, ready, polling>>
tvars == <<vars, telemetryVars, excused>>

TInit ==
  /\ Init
  /\ hook = [t \in Tasks |-> "idle"]
  /\ module \in [Tasks -> Registry]
  /\ ring = [m \in Registry |-> <<>>]
  /\ ready = {}
  /\ polling = NoName
  /\ excused = {}
-----------------------------------------------------------------------------
(* is_module_active() says the module is on and the rule matches.  With    *)
(* the flag off the hook returns 0 and nothing happens.                    *)
HookMatches(t) ==
  /\ hook[t] = "idle"
  /\ module[t] \in active_skeletons /\ actor # "exited"
  /\ state_map[module[t]]
  /\ hook' = [hook EXCEPT ![t] = "matched"]
  /\ UNCHANGED <<vars, module, ring, ready, polling, excused>>

(* bpf_ringbuf_reserve and submit; the call is denied with or without it.  *)
HookReports(t) ==
  /\ hook[t] = "matched"
  /\ IF Len(ring[module[t]]) < RingCap
       THEN /\ ring' = [ring EXCEPT ![module[t]] = Append(@, t)]
            /\ hook' = [hook EXCEPT ![t] = "queued"]
       ELSE /\ ring' = ring
            /\ hook' = [hook EXCEPT ![t] = "overflow"]
  /\ UNCHANGED <<vars, module, ready, polling, excused>>

(* rb.poll(0): epoll_wait takes note of the rings that hold records ...    *)
PollStart ==
  /\ actor = "poll" /\ polling = NoName /\ ready = {}
  /\ \E m \in Registry : ring[m] # <<>>
  /\ ready' = {m \in Registry : ring[m] # <<>>}
  /\ UNCHANGED <<vars, hook, module, ring, polling, excused>>

(* ... each is visited in turn ...                                         *)
PollRing ==
  /\ actor = "poll"
  /\ polling = NoName
  /\ \E m \in ready :
       /\ polling' = m
       /\ ready' = ready \ {m}
  /\ UNCHANGED <<vars, hook, module, ring, excused>>

ProcessEventIfActive ==  \* mutant: an inactive module leaves its records
  /\ actor = "poll" /\ polling # NoName
  /\ ring[polling] # <<>> /\ is_active[polling]
  /\ hook' = [hook EXCEPT ![Head(ring[polling])] = "logged"]
  /\ ring' = [ring EXCEPT ![polling] = Tail(@)]
  /\ UNCHANGED <<vars, module, ready, polling, excused>>

(* ... and its callback runs process_event on every record, those that     *)
(* arrive meanwhile included: the record is forwarded, or fails to parse   *)
(* or makes the module panic (caught), or is dropped with the flag off.    *)
ProcessEvent ==
  /\ actor = "poll" /\ polling # NoName
  /\ ring[polling] # <<>>
  /\ \E outcome \in IF is_active[polling] THEN {"logged", "failed"}
                                           ELSE {"discarded"} :
       hook' = [hook EXCEPT ![Head(ring[polling])] = outcome]
  /\ ring' = [ring EXCEPT ![polling] = Tail(@)]
  /\ UNCHANGED <<vars, module, ready, polling, excused>>

(* The ring is empty, and with the last one poll returns; it may also find *)
(* nothing to do, or be interrupted before it does anything.               *)
PollReturns ==
  /\ polling # NoName => ring[polling] = <<>>
  /\ polling' = NoName
  /\ IF ready = {}
       THEN Poll
       ELSE actor = "poll" /\ polling # NoName /\ UNCHANGED vars
  /\ UNCHANGED <<hook, module, ring, ready, excused>>

InFlight(m) ==
  {t \in Tasks : module[t] = m /\ hook[t] \in {"matched", "queued"}}

(* A step of the control plane, with its bookkeeping.  Only toggles of     *)
(* root clients matter to telemetry: the other requests change no flag.    *)
ControlStep ==
  /\ \/ \E c \in Clients, r \in Toggles : Connect(c, r, "root")
     \/ IpcThread \/ ActorCommands
  /\ excused' = excused \cup
       UNION {InFlight(m) : m \in {n \in Registry :
                                     is_active[n] /\ ~is_active'[n]}}
  /\ UNCHANGED telemetryVars

PollStep == PollStart \/ PollRing \/ ProcessEvent \/ PollReturns
HookStep(t) == HookMatches(t) \/ HookReports(t)

TNext == ControlStep \/ PollStep \/ \E t \in Tasks : HookStep(t)

TSpec == TInit /\ [][TNext]_tvars

(* The actor keeps running, poll is not interrupted for ever, and a hook   *)
(* that has matched runs to its end.                                       *)
TFairSpec ==
  /\ TSpec
  /\ WF_tvars(ControlStep /\ ActorCommands) /\ WF_tvars(PollStep)
  /\ SF_tvars(PollStart)
  /\ \A t \in Tasks : WF_tvars(HookReports(t))
-----------------------------------------------------------------------------
HookStates == {"idle", "matched", "queued", "logged", "failed", "discarded",
               "overflow"}

(* process_event drops a record only if its module was switched off while  *)
(* the alert was on its way: enabling writes the kernel flag before the    *)
(* userland one, yet no alert of that window is lost, since the thread     *)
(* that polls is the one that toggles.                                     *)
DropsAreExcused ==
  \A t \in Tasks : hook[t] = "discarded" => t \in excused

(* Every record of a ring is eventually consumed while the engine lives.   *)
RecordsConsumed ==
  \A t \in Tasks :
    hook[t] = "queued" ~> (hook[t] \in {"logged", "failed", "discarded"}
                            \/ actor \in {"unwinding", "exited"})
=============================================================================
