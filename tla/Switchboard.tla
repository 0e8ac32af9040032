----------------------------- MODULE Switchboard -----------------------------
(***************************************************************************)
(* What the control plane promises its clients, with no threads, no        *)
(* channel and no timers: a board of kernel switches on which every        *)
(* submitted request takes effect at most once, atomically, in the order   *)
(* of submission, and an answer that is truthful about that effect.  A     *)
(* client told "timeout" knows nothing: its request may have taken effect, *)
(* may be void, or may still take effect later.                            *)
(***************************************************************************)
EXTENDS Naturals

CONSTANTS Clients, Registry, Names, NoName

VARIABLES
  enforced,  \* the switch of each module
  asked,     \* the request of each client
  phase,     \* "unsent", "queued", "applied" or "void"
  stamp,     \* position in the order of submission, 0 before
  count,     \* number of submissions
  answer     \* what the client was told, "nothing" before

vars == <<enforced, asked, phase, stamp, count, answer>>

NoRequest == [op |-> "blank", target |-> NoName]
Toggles   == [op : {"enable", "disable"}, target : Names]
Requests  == Toggles \cup [op : {"status", "list", "unknown", "blank"},
                           target : {NoName}]

(* Answers that say the request had no effect and never will.              *)
Refusals == {"denied", "invalid", "busy", "crashed", "silence"}
(* Answers that say the request was looked at and changed nothing.         *)
NoEffect == {"status", "listing", "map_error", "not_loaded", "not_active"}

Init ==
  /\ enforced \in [Registry -> BOOLEAN]
  /\ asked = [c \in Clients |-> NoRequest]
  /\ phase = [c \in Clients |-> "unsent"]
  /\ stamp = [c \in Clients |-> 0]
  /\ count = 0
  /\ answer = [c \in Clients |-> "nothing"]

Ask(c, r) ==
  /\ phase[c] = "unsent" /\ answer[c] = "nothing"
  /\ asked' = [asked EXCEPT ![c] = r]
  /\ UNCHANGED <<enforced, phase, stamp, count, answer>>

Submit(c) ==
  /\ phase[c] = "unsent" /\ answer[c] = "nothing"
  /\ phase' = [phase EXCEPT ![c] = "queued"]
  /\ stamp' = [stamp EXCEPT ![c] = count + 1]
  /\ count' = count + 1
  /\ UNCHANGED <<enforced, asked, answer>>

IsFirst(c) ==
  /\ phase[c] = "queued"
  /\ \A d \in Clients : phase[d] = "queued" => stamp[c] <= stamp[d]
  /\ \A d \in Clients : phase[d] = "applied" => stamp[d] < stamp[c]

Apply(c) ==
  /\ IsFirst(c)
  /\ asked[c] \in Toggles /\ asked[c].target \in Registry
  /\ enforced' = [enforced EXCEPT ![asked[c].target] =
                                                  (asked[c].op = "enable")]
  /\ phase' = [phase EXCEPT ![c] = "applied"]
  /\ UNCHANGED <<asked, stamp, count, answer>>

Skip(c) ==
  /\ IsFirst(c)
  /\ phase' = [phase EXCEPT ![c] = "void"]
  /\ UNCHANGED <<enforced, asked, stamp, count, answer>>

(* The board stops: whatever is queued will never take effect.             *)
Stop ==
  /\ phase' = [c \in Clients |->
                 IF phase[c] = "queued" THEN "void" ELSE phase[c]]
  /\ UNCHANGED <<enforced, asked, stamp, count, answer>>

Answer(c, a) ==
  /\ answer[c] = "nothing"
  /\ \/ a = "success" /\ phase[c] = "applied"
     \/ a \in NoEffect /\ phase[c] = "void"
     \/ a \in Refusals /\ phase[c] = "unsent"
     \/ a = "timeout" /\ phase[c] # "unsent"
  /\ answer' = [answer EXCEPT ![c] = a]
  /\ UNCHANGED <<enforced, asked, phase, stamp, count>>

Next ==
  \/ \E c \in Clients :
       \/ \E r \in Requests : Ask(c, r)
       \/ Submit(c) \/ Apply(c) \/ Skip(c)
       \/ \E a \in {"success", "timeout"} \cup NoEffect \cup Refusals :
            Answer(c, a)
  \/ Stop

Spec == Init /\ [][Next]_vars
=============================================================================
