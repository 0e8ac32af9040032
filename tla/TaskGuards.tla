------------------------------ MODULE TaskGuards ------------------------------
(***************************************************************************)
(* The hooks that judge a task by its uid and by the inode it executes:    *)
(* ptrace_block, shield, strict_wx, and io_restrict's io_uring_setup and   *)
(* vmsplice.  A hook runs when something is acquired, and what was         *)
(* acquired (a tracer's link, a handle, a ring, a mapping) stays when the  *)
(* tasks fork, exec, change their uid, or when the module is toggled.      *)
(*                                                                         *)
(* Nothing acquired influences what else is granted, so that it is enough  *)
(* to follow one of them at a time, any one: when a fork copies it, either *)
(* copy.  Alerts are left out.                                             *)
(***************************************************************************)
EXTENDS InodeIndex

CONSTANTS
  Programs,   \* paths that can be executed
  Setuid      \* programs that run as root for everyone

ASSUME TaskAssumption == Setuid \subseteq Programs /\ Programs \subseteq Names

VARIABLES
  task,   \* uid, executable and parent of each live task
  held    \* what is being followed

guardVars == <<task, held>>
taskVars == <<switchVars, indexVars, guardVars>>

Dead == [uid |-> "none", exe |-> Absent, parent |-> Nobody]
Live == {t \in Tasks : task[t] # Dead}
TaskModules == ByPath \cup ByAttribute

(* uids and parents are followed for the modules whose hooks read them.    *)
Uids == IF module = "strict_wx" THEN {"user"} ELSE {"root", "user"}
Parent(p) == IF module = "ptrace_block" THEN p ELSE Nobody

(* by: the uid that acquired it; judged: the module was on with its map    *)
(* filled by the present boot, and the victim has not called exec since.   *)
Nothing ==
  [kind |-> "nothing", owner |-> Nobody, victim |-> Nobody, file |-> Absent,
   prot |-> {}, by |-> "none", judged |-> FALSE]

(* is_module_active, in a hook of module m.                                *)
On(m) == module = m /\ state

(* Inode numbers that are in use whatever happens to their paths.          *)
Open == {task[t].exe : t \in Live} \cup {held.file}

InitTasks ==
  /\ InitIndex
  /\ task \in [Tasks -> {Dead} \cup
                 {[uid |-> u, exe |-> leads[n], parent |-> Nobody] :
                    u \in Uids, n \in Programs}]
  /\ \A t \in Live : task[t].exe # Absent
  /\ held = Nothing
-----------------------------------------------------------------------------
(* The kernel around the hooks.  A tracer's link is the tracer's own;      *)
(* whatever else is held is a descriptor or a mapping, which a child gets. *)
Links == {"attach", "traceme"}
Rings == {"ring", "leaked"}

(* A traced parent's child may be traced as well (PTRACE_O_TRACEFORK).     *)
Fork(p, c) ==
  /\ p \in Live /\ c \in Tasks \ Live
  /\ task' = [task EXCEPT ![c] = [task[p] EXCEPT !.parent = Parent(p)]]
  /\ \/ UNCHANGED held
     \/ /\ held.owner = p /\ held.kind \notin Links
        /\ held' = [held EXCEPT !.owner = c]
     \/ /\ held.victim = p /\ held.kind \in Links
        /\ held' = [held EXCEPT !.victim = c]
  /\ UNCHANGED <<switchVars, indexVars>>

(* A new memory: mappings and rings go, and so do handles on the old one;  *)
(* descriptors and tracers stay.  A task that a user traces gains no       *)
(* privilege.                                                              *)
Exec(t, n) ==
  /\ t \in Live /\ n \in Programs /\ leads[n] # Absent
  /\ task' = [task EXCEPT ![t].exe = leads[n],
                ![t].uid = IF n \in Setuid /\ "root" \in Uids
                                /\ ~(held.victim = t /\ held.by = "user")
                             THEN "root" ELSE @]
  /\ held' = IF held.owner = t /\ held.kind \in Rings \cup {"region"}
               THEN Nothing
             ELSE IF held.victim = t
               THEN IF held.kind \in {"mem", "own"}
                      THEN Nothing
                      ELSE [held EXCEPT !.judged = FALSE]
             ELSE held
  /\ UNCHANGED <<switchVars, indexVars>>

DropPrivileges(t) ==
  /\ t \in Live /\ task[t].uid = "root"
  /\ task' = [task EXCEPT ![t].uid = "user"]
  /\ UNCHANGED <<switchVars, indexVars, held>>

(* exit, or a SIGKILL: children are adopted by others.                     *)
Without(t) ==
  [x \in Tasks |-> IF x = t THEN Dead
                  ELSE IF task[x].parent = t
                    THEN [task[x] EXCEPT !.parent = Nobody]
                  ELSE task[x]]

Gone(t) ==
  /\ task' = Without(t)
  /\ held' = IF t \in {held.owner, held.victim} THEN Nothing ELSE held
  /\ UNCHANGED <<switchVars, indexVars>>

Exit(t) == t \in Live /\ Gone(t)

GiveUp ==
  /\ held # Nothing /\ held' = Nothing
  /\ UNCHANGED <<switchVars, indexVars, task>>

(* The hook of module m lets a call through that yields something.         *)
Acquire(what, m) ==
  /\ module = m /\ held = Nothing
  /\ held' = [what EXCEPT !.judged = Judges]
  /\ UNCHANGED <<switchVars, indexVars, task>>

Thing(kind, t) ==
  [Nothing EXCEPT !.kind = kind, !.owner = t, !.by = task[t].uid]
-----------------------------------------------------------------------------
AccessCheckOwn(t, v, mode) ==  \* mutant: the tracer's executable is looked up
  \/ ~On("ptrace_block")
  \/ /\ task[t].exe \notin index
     /\ mode = "attach" => task[t].uid = "root"

(* ptrace_access_check, for another thread group: a protected executable   *)
(* is denied to all, attaching to users.                                   *)
AccessCheck(t, v, mode) ==
  \/ ~On("ptrace_block")
  \/ /\ task[v].exe \notin index
     /\ mode = "attach" => task[t].uid = "root"

(* The kernel's own rule: the same user, or root.                          *)
Permits(t, v) == task[t].uid = "root" \/ task[v].uid = "user"

(* PTRACE_ATTACH, or a read of the other's memory.                         *)
PtraceAccess(t, v, mode) ==
  /\ t \in Live /\ v \in Live \ {t} /\ Permits(t, v)
  /\ AccessCheck(t, v, mode)
  /\ Acquire([Thing(mode, t) EXCEPT !.victim = v], "ptrace_block")

(* PTRACE_TRACEME: only the parent's uid counts.                           *)
TraceMe(c) ==
  LET p == task[c].parent IN
  /\ c \in Live /\ p \in Live
  /\ On("ptrace_block") => task[p].uid = "root"
  /\ Acquire([Thing("traceme", p) EXCEPT !.victim = c], "ptrace_block")

(* open of /proc/<pid>/mem: denied to users; then the access check, unless *)
(* the memory is the task's own.                                           *)
OpenMem(t, v) ==
  /\ t \in Live /\ v \in Live
  /\ On("ptrace_block") => task[t].uid = "root"
  /\ t = v \/ (Permits(t, v) /\ AccessCheck(t, v, "attach"))
  /\ Acquire([Thing(IF t = v THEN "own" ELSE "mem", t) EXCEPT !.victim = v],
             "ptrace_block")
-----------------------------------------------------------------------------
FileOpenUnlisted(t, n) ==  \* mutant: the map is not consulted
  /\ t \in Live /\ leads[n] # Absent
  /\ Acquire([Thing("write", t) EXCEPT !.file = leads[n]], "shield")

(* shield: opening for writing or truncation, with every permission.       *)
FileOpen(t, n) ==
  /\ t \in Live /\ leads[n] # Absent
  /\ \/ ~On("shield") \/ task[t].uid = "root"
     \/ leads[n] \notin index
  /\ Acquire([Thing("write", t) EXCEPT !.file = leads[n]], "shield")

(* shield: bpf() and syslog(), for root alone.                             *)
EnforcePrivilege(t) ==
  /\ t \in Live
  /\ ~On("shield") \/ task[t].uid = "root"
  /\ Acquire(Thing("bpf", t), "shield")

TrustedNonRoot(t) ==  \* mutant: the attribute is taken for a ban
  ~On("io_restrict") \/ task[t].uid = "root" \/ task[t].exe \notin index

(* io_uring_setup and vmsplice are entered through kprobes, which cannot   *)
(* refuse: the hook kills, and the call runs to its end first.             *)
Trusted(t) ==
  \/ ~On("io_restrict") \/ task[t].uid = "root"
  \/ task[t].exe \in index

(* Task t dies of its call, whose ring stays with a task u that has the    *)
(* same descriptor table (CLONE_FILES, which exec ends).                   *)
LeaveRing(t, u) ==
  /\ u \in Live \ {t} /\ task[u].exe = task[t].exe
  /\ held = Nothing
  /\ held' = [Thing("leaked", t) EXCEPT !.owner = u, !.judged = Judges]
  /\ task' = Without(t)
  /\ UNCHANGED <<switchVars, indexVars>>

UringSetup(t) ==
  /\ t \in Live
  /\ \/ Trusted(t) /\ Acquire(Thing("ring", t), "io_restrict")
     \/ ~Trusted(t) /\ Gone(t)
     \/ ~Trusted(t) /\ \E u \in Tasks : LeaveRing(t, u)

(* The pages it gives to a pipe are the caller's own.                      *)
Vmsplice(t) ==
  /\ t \in Live
  /\ On("io_restrict") /\ task[t].uid # "root"
  /\ Gone(t)
-----------------------------------------------------------------------------
(* enforce_strict_wx, on what is asked for and what the mapping has now.   *)
Protections == SUBSET {"w", "x"}

Violates(prot, now) ==
  \/ prot = {"w", "x"}
  \/ "x" \in prot /\ "w" \in now
  \/ "w" \in prot /\ "x" \in now

EnforcedByProgram(t, file) ==  \* mutant: libraries are not looked up
  On("strict_wx") /\ task[t].exe \in index

Enforced(t, file) ==
  On("strict_wx") /\ {task[t].exe, file} \cap index # {}

MmapFile(t, file, prot) ==
  /\ t \in Live /\ file \in {Absent} \cup {leads[n] : n \in Programs}
  /\ ~(Violates(prot, {}) /\ Enforced(t, file))
  /\ Acquire([Nothing EXCEPT !.kind = "region", !.owner = t, !.file = file,
                             !.prot = prot], "strict_wx")

FileMprotect(prot) ==
  /\ held.kind = "region" /\ prot # held.prot
  /\ ~(Violates(prot, held.prot) /\ Enforced(held.owner, held.file))
  /\ held' = [held EXCEPT !.prot = prot, !.judged = Judges]
  /\ UNCHANGED <<switchVars, indexVars, task>>
-----------------------------------------------------------------------------
(* What was acquired earlier was not judged by this boot's map.            *)
Boot ==
  /\ \/ \E enabled \in BOOLEAN : WriteFlag(enabled) /\ UNCHANGED indexVars
     \/ FillMap \/ LoseMap
  /\ held' = [held EXCEPT !.judged = FALSE]
  /\ UNCHANGED task

Surroundings ==
  /\ \/ \E n \in Names, i \in Inodes \cup {Absent}, flagged \in BOOLEAN :
          Replace(n, i, flagged, Open)
     \/ \E n \in Names : SetAttribute(n)
     \/ SetModuleState /\ UNCHANGED indexVars
  /\ UNCHANGED guardVars

TaskNext ==
  \/ Boot \/ Surroundings \/ GiveUp
  \/ \E t, v \in Tasks :
       \/ Fork(t, v) \/ OpenMem(t, v)
       \/ \E mode \in {"attach", "read"} : PtraceAccess(t, v, mode)
  \/ \E t \in Tasks :
       \/ \E n \in Names : Exec(t, n) \/ FileOpen(t, n)
       \/ DropPrivileges(t) \/ Exit(t) \/ TraceMe(t) \/ EnforcePrivilege(t)
       \/ UringSetup(t) \/ Vmsplice(t)
       \/ \E file \in Inodes \cup {Absent}, prot \in Protections :
            MmapFile(t, file, prot)
  \/ \E prot \in Protections : FileMprotect(prot)

TaskSpec ==
  /\ \E m \in TaskModules : InitSwitch(m)
  /\ InitTasks
  /\ [][TaskNext]_taskVars
-----------------------------------------------------------------------------
(* Files the module is meant to know, and nothing happened to since boot.  *)
Known == Wanted \ unseen

(* A tracer's link and a handle on a task's memory were given to root, and *)
(* what the link, the handle or a look into the memory leads to is no      *)
(* program on the list, unless it was started after the hook looked:       *)
(* whoever inherits the handle and whatever fork and exec do in between.   *)
(* TraceMe is judged by the parent alone, and what a program opened of     *)
(* itself is not judged, also when its children have it.                   *)
SecretsStaySecret ==
  held.judged =>
    /\ held.kind \in Links \cup {"mem", "own"} => held.by = "root"
    /\ held.kind \in {"attach", "read", "mem"} =>
         task[held.victim].exe \notin Known

(* A user who holds a writable descriptor or a bpf handle that the shield  *)
(* let pass does not hold one of a core file, though files and their inode *)
(* numbers change hands, modules are toggled and the daemon restarts.      *)
CoreIsShielded ==
  held.judged /\ held.by = "user" =>
    held.kind # "bpf" /\ ~(held.kind = "write" /\ held.file \in Known)

(* A ring that was set up by a user and outlives forks still belongs to a  *)
(* program that bears the attribute, or whose file changed since the boot. *)
(* The exception is a ring whose creator was killed for it and which a     *)
(* process with the same descriptors kept: and that befalls no program     *)
(* that bears the attribute.                                               *)
RingsAreAuthorised ==
  held.judged /\ held.by = "user" =>
    /\ held.kind = "ring" => task[held.owner].exe \in Wanted \cup unseen
    /\ held.kind = "leaked" => task[held.owner].exe \notin Known

(* However a mapping got its protection, by mmap or by several mprotects,  *)
(* it is not writable and executable at once in a program that bears the   *)
(* attribute, nor if its file bears it.                                    *)
NoWritableCode ==
  held.judged /\ held.prot = {"w", "x"} =>
    {task[held.owner].exe, held.file} \cap Known = {}
=============================================================================
