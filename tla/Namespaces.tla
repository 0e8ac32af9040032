------------------------------ MODULE Namespaces ------------------------------
(***************************************************************************)
(* userns_restrict: who may create a user namespace, and what is possible  *)
(* inside one.  The first is judged by the uid of the task, by that of its *)
(* parent and by the loginuid that audit gives to a session, so that what  *)
(* processes do before the call matters; of the second a mount is          *)
(* modelled, which passes two hooks one after the other.  Alerts are left  *)
(* out.  Orphans go to init, which is root and not among the Tasks.        *)
(***************************************************************************)
EXTENDS ModuleSwitch

VARIABLES
  audit,     \* the kernel sets loginuid
  proc,      \* the live tasks
  mounting,  \* a mount(2) between sb_mount and may_mount
  (* history *)
  escapes    \* mounts made inside a namespace with the module on at a hook

spaceVars == <<audit, proc, mounting, escapes>>

(* level is that of the user namespace; own: it also has its own mount     *)
(* namespace.  History: human, a descendant of a user's session; excused,  *)
(* it or the ancestor that made the namespace could not be told apart.     *)
None == [uid |-> "none", login |-> "unset", parent |-> Nobody, level |-> 0,
         own |-> FALSE, human |-> FALSE, excused |-> FALSE]
Idle == [by |-> Nobody, device |-> FALSE, on |-> FALSE]

Present == {t \in Tasks : proc[t] # None}

InitSpaces ==
  /\ audit \in BOOLEAN
  /\ proc = [t \in Tasks |-> None]
  /\ mounting = Idle
  /\ escapes = {}
-----------------------------------------------------------------------------
(* init starts a service, root logs in, or a user does.                    *)
Session(t, login) ==
  /\ t \in Tasks \ Present
  /\ proc' = [proc EXCEPT ![t] =
       [None EXCEPT !.uid = IF login = "user" THEN "user" ELSE "root",
                    !.login = IF audit THEN login ELSE "unset",
                    !.human = (login = "user")]]
  /\ UNCHANGED <<switchVars, audit, mounting, escapes>>

Clone(p, c) ==
  /\ p \in Present /\ c \in Tasks \ Present
  /\ proc' = [proc EXCEPT ![c] = [proc[p] EXCEPT !.parent = p]]
  /\ UNCHANGED <<switchVars, audit, mounting, escapes>>

Leave(t) ==
  /\ t \in Present /\ mounting.by # t
  /\ proc' = [x \in Tasks |->
       IF x = t THEN None
       ELSE IF proc[x].parent = t THEN [proc[x] EXCEPT !.parent = Nobody]
       ELSE proc[x]]
  /\ UNCHANGED <<switchVars, audit, mounting, escapes>>

(* su or sudo, and the way back.                                           *)
ChangeUid(t) ==
  /\ t \in Present /\ proc[t].level = 0
  /\ proc' = [proc EXCEPT ![t].uid = IF @ = "root" THEN "user" ELSE "root"]
  /\ UNCHANGED <<switchVars, audit, mounting, escapes>>

(* Root writes /proc/self/loginuid, unless audit has made it immutable.    *)
SetLoginUid(t) ==
  /\ t \in Present /\ audit
  /\ proc[t].uid = "root" /\ proc[t].level = 0 /\ proc[t].login = "user"
  /\ proc' = [proc EXCEPT ![t].login = "unset", ![t].excused = TRUE]
  /\ UNCHANGED <<switchVars, audit, mounting, escapes>>
-----------------------------------------------------------------------------
UidOf(p) == IF p = Nobody THEN "root" ELSE proc[p].uid

CreateByUid(t) ==  \* mutant: the ancestry is not looked at
  state => proc[t].uid = "root"

(* userns_restrict_create.                                                 *)
Create(t) ==
  state => /\ proc[t].uid = "root"
           /\ proc[t].login \in {"root", "unset"}
           /\ UidOf(proc[t].parent) = "root"

(* unshare(CLONE_NEWUSER).  History: a session's descendant is excused     *)
(* when the module is off, or when there is no loginuid and the parent is  *)
(* not the user's.                                                         *)
UnshareUser(t) ==
  /\ t \in Present /\ proc[t].level = 0
  /\ Create(t)
  /\ proc' = [proc EXCEPT ![t].level = 1,
       ![t].excused = @ \/ ~state \/ (~audit /\ proc[t].parent \notin
                                        {p \in Present : proc[p].uid = "user"})]
  /\ UNCHANGED <<switchVars, audit, mounting, escapes>>

CapableAtTop(level) == state => level = 1  \* mutant: the level is inverted

(* userns_restrict_capable, for CAP_SYS_ADMIN.                             *)
Capable(level) == state => level = 0

(* unshare(CLONE_NEWNS) inside a user namespace.                           *)
UnshareMounts(t) ==
  /\ t \in Present /\ proc[t].level > 0 /\ ~proc[t].own
  /\ Capable(proc[t].level)
  /\ proc' = [proc EXCEPT ![t].own = TRUE]
  /\ UNCHANGED <<switchVars, audit, mounting, escapes>>

(* mount(2): userns_restrict_sb_mount refuses a source below /dev and a    *)
(* devtmpfs (device) to a task in a namespace ...                          *)
SbMount(t, device) ==
  /\ t \in Present /\ proc[t].own /\ mounting = Idle
  /\ ~(state /\ proc[t].level > 0 /\ device)
  /\ mounting' = [by |-> t, device |-> device, on |-> state]
  /\ UNCHANGED <<switchVars, audit, proc, escapes>>

(* ... and then the kernel asks for the capability.                        *)
MayMount ==
  /\ mounting # Idle
  /\ mounting' = Idle
  /\ escapes' = IF Capable(proc[mounting.by].level) /\ (state \/ mounting.on)
                  THEN escapes \cup {[device |-> mounting.device, on |-> state]}
                  ELSE escapes
  /\ UNCHANGED <<switchVars, audit, proc>>

SpaceNext ==
  \/ \E t \in Tasks :
       \/ \E login \in {"unset", "root", "user"} : Session(t, login)
       \/ \E c \in Tasks : Clone(t, c)
       \/ Leave(t) \/ ChangeUid(t) \/ SetLoginUid(t)
       \/ UnshareUser(t) \/ UnshareMounts(t)
       \/ \E device \in BOOLEAN : SbMount(t, device)
  \/ MayMount
  \/ (\E enabled \in BOOLEAN : WriteFlag(enabled)) /\ UNCHANGED spaceVars
  \/ (InitModule \/ SetModuleState \/ Crash) /\ UNCHANGED spaceVars

SpaceSpec ==
  InitSwitch("userns_restrict") /\ InitSpaces /\ [][SpaceNext]_<<switchVars, spaceVars>>
-----------------------------------------------------------------------------
(* "irrevocably inherited by all children": however a user's session forks *)
(* and changes its uid, nothing it starts gets into a user namespace,      *)
(* unless one was made with the module off, without audit by a task whose  *)
(* parent is not a user's any more, or with a rewritten loginuid.          *)
AncestryHolds ==
  \A t \in Present : proc[t].human /\ proc[t].level > 0 => proc[t].excused

(* A mount inside a namespace gets past at most the first of its two hooks *)
(* with the module on, and a mount of devices past none.                   *)
ContainedMounts == \A e \in escapes : ~e.on /\ ~e.device
=============================================================================
