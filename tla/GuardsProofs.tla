----------------------------- MODULE GuardsProofs -----------------------------
(***************************************************************************)
(* Proofs about the modules that judge single calls, for any number of     *)
(* tasks, files and inodes.                                                *)
(***************************************************************************)
EXTENDS Guards, FiniteSetTheorems, TLAPS

-----------------------------------------------------------------------------
(* mount_secure.  The property is inductive once the mount and the         *)
(* detached mount have their types.                                        *)
MountTypeOK ==
  /\ mnt # Unmounted =>
       mnt \in [dev : Devices, place : Places, flags : Flags, judged : BOOLEAN,
                gap : SUBSET {"hidden", "ignored", "renamed"}]
  /\ fd # Unmounted => fd \in [dev : Devices, flags : Flags]

MountInv == MountTypeOK /\ MediaIsSecured

(* A new mount that evaluate_secure_mount lets pass is secured, or it lies *)
(* where the walk does not see its name.                                   *)
LEMMA NewMountSecured ==
  ASSUME NEW dev \in Devices, NEW place \in Places, NEW flags \in Flags,
         NEW resolved \in BOOLEAN, MountTypeOK,
         Allows(flags, dev, place, resolved),
         mnt' = Mount(dev, place, flags, Judges, Hidden(place, resolved)),
         fd' \in {fd, Unmounted}, state \in BOOLEAN
  PROVE  MountInv'
<1>1. MountTypeOK'
  BY DEF MountTypeOK, Mount, Judges, Hidden, Devices, Places, Flags
<1>2. MediaIsSecured'
  BY DEF MediaIsSecured, Mount, Judges, Hidden, Allows, evaluate_secure_mount,
         is_removable_device, is_sensitive_path, fallback_dentry_check,
         PatternLength, PrefixSize, Places, Sensitive, Devices
<1> QED BY <1>1, <1>2 DEF MountInv

LEMMA MountInit == InitMounts => MountInv
<1> SUFFICES ASSUME InitMounts PROVE MountInv
  OBVIOUS
<1>1. CASE mnt = Unmounted
  BY <1>1 DEF InitMounts, MountInv, MountTypeOK, MediaIsSecured
<1>2. CASE mnt # Unmounted
  <2>1. PICK d \in Devices, p \in Places, f \in Flags :
          mnt = [dev |-> d, place |-> p, flags |-> f, judged |-> FALSE, gap |-> {}]
    BY <1>2 DEF InitMounts, Mount
  <2> QED
    BY <2>1 DEF InitMounts, MountInv, MountTypeOK, MediaIsSecured
<1> QED BY <1>1, <1>2

LEMMA MountStep ==
  ASSUME SwitchTypeOK, MountInv, [MountNext]_<<switchVars, mountVars>>
  PROVE  MountInv'
<1> USE DEF MountInv
<1>0. state \in BOOLEAN BY DEF SwitchTypeOK
<1>1. ASSUME NEW dev \in Devices, NEW place \in Places, NEW flags \in Flags,
             NEW resolved \in BOOLEAN, SbMountNew(dev, place, flags, resolved)
      PROVE  MountInv'
  BY <1>0, <1>1, NewMountSecured DEF SbMountNew
<1>2. ASSUME NEW place \in Places, NEW flags \in Flags,
             NEW resolved \in BOOLEAN, Bind(place, flags, resolved)
      PROVE  MountInv'
  <2>1. MountTypeOK'
    BY <1>0, <1>2 DEF Bind, MountTypeOK, Judges, Hidden, Places, Flags
  <2>2. MediaIsSecured'
    BY <1>0, <1>2 DEF Bind, MountTypeOK, MediaIsSecured, Judges, Hidden,
         Allows, evaluate_secure_mount, is_removable_device, is_sensitive_path,
         fallback_dentry_check, PatternLength, Places, Sensitive, Secure
  <2> QED BY <2>1, <2>2
<1>3. ASSUME NEW dev \in Devices, NEW flags \in Flags,
             NEW resolved \in BOOLEAN, Remount(dev, flags, resolved)
      PROVE  MountInv'
  <2>1. MountTypeOK'
    BY <1>0, <1>3 DEF Remount, MountTypeOK, Judges, Devices, Flags
  <2>2. MediaIsSecured'
    BY <1>0, <1>3 DEF Remount, MountTypeOK, MediaIsSecured, Judges, Allows,
         evaluate_secure_mount, is_removable_device, is_sensitive_path,
         PatternLength, PrefixSize, Sensitive, Devices, Secure
  <2> QED BY <2>1, <2>2
<1>4. ASSUME NEW flags \in Flags, SetAttr(flags) PROVE MountInv'
  BY <1>4 DEF SetAttr, MountTypeOK, MediaIsSecured, Flags
<1>5. ASSUME NEW dev \in Devices, NEW flags \in Flags, Fsmount(dev, flags)
      PROVE  MountInv'
  BY <1>5 DEF Fsmount, MountTypeOK, MediaIsSecured
<1>6. CASE OpenTree
  BY <1>6 DEF OpenTree, MountTypeOK, MediaIsSecured
<1>7. ASSUME NEW place \in Places, MoveMount(place) PROVE MountInv'
  BY <1>0, <1>7, NewMountSecured DEF MoveMount, MountTypeOK
<1>8. CASE Umount
  BY <1>8 DEF Umount, MountTypeOK, MediaIsSecured
<1>9. CASE MountBoot
  BY <1>9 DEF MountBoot, MountTypeOK, MediaIsSecured
<1>10. CASE UNCHANGED mountVars
  BY <1>10 DEF mountVars, MountTypeOK, MediaIsSecured
<1> QED
  BY <1>1, <1>2, <1>3, <1>4, <1>5, <1>6, <1>7, <1>8, <1>9, <1>10
  DEF MountNext, mountVars

LEMMA SwitchInit ==
  ASSUME NEW m, InitSwitch(m)
  PROVE  SwitchTypeOK
<1>1. edits \in 0 .. MaxEdits BY SwitchAssumption, SMT DEF InitSwitch
<1> QED BY <1>1, Zenon DEF InitSwitch, SwitchTypeOK

(* A step of the switch, or one that leaves it alone.                      *)
LEMMA SwitchStep ==
  ASSUME SwitchTypeOK,
         \/ \E enabled \in BOOLEAN : WriteFlag(enabled)
         \/ InitModule \/ SetModuleState \/ Crash
         \/ UNCHANGED switchVars
  PROVE  SwitchTypeOK'
<1>1. edits' \in 0 .. MaxEdits
  BY SwitchAssumption, SMT
  DEF SwitchTypeOK, WriteFlag, InitModule, SetModuleState, Crash, Edit, switchVars
<1>2. state' \in BOOLEAN /\ boot' \in {"down", "flagged", "filled"}
  BY DEF SwitchTypeOK, WriteFlag, InitModule, SetModuleState, Crash, switchVars
<1>3. boot' = "down" => ~state'
  BY DEF SwitchTypeOK, WriteFlag, InitModule, SetModuleState, Crash, switchVars
<1> QED BY <1>1, <1>2, <1>3 DEF SwitchTypeOK

LEMMA MountSwitch ==
  ASSUME SwitchTypeOK, [MountNext]_<<switchVars, mountVars>>
  PROVE  SwitchTypeOK' /\ module' = module
<1>1. SwitchTypeOK'
  BY SwitchStep DEF MountNext, MountBoot, SbMountNew, Bind, Remount, SetAttr,
     Fsmount, OpenTree, MoveMount, Umount
<1>2. module' = module
  BY DEF MountNext, MountBoot, SbMountNew, Bind, Remount, SetAttr, Fsmount,
     OpenTree, MoveMount, Umount, WriteFlag, InitModule, SetModuleState, Crash,
     switchVars
<1> QED BY <1>1, <1>2

(* What sb_mount and move_mount let pass without nosuid, nodev and noexec  *)
(* is no /dev/sd and at no sensitive place, but for the named gaps.        *)
THEOREM MediaSecured == MountSpec => []MediaIsSecured
<1>1. InitSwitch("mount_secure") /\ InitMounts => SwitchTypeOK /\ MountInv
  BY SwitchInit, MountInit
<1>2. SwitchTypeOK /\ MountInv /\ [MountNext]_<<switchVars, mountVars>>
        => (SwitchTypeOK /\ MountInv)'
  <2> SUFFICES ASSUME SwitchTypeOK, MountInv,
                      [MountNext]_<<switchVars, mountVars>>
               PROVE  (SwitchTypeOK /\ MountInv)'
    OBVIOUS
  <2>1. SwitchTypeOK' BY MountSwitch
  <2>2. MountInv' BY MountStep
  <2> QED BY <2>1, <2>2
<1>3. MountInv => MediaIsSecured BY DEF MountInv
<1> QED BY <1>1, <1>2, <1>3, PTL DEF MountSpec
-----------------------------------------------------------------------------
(* userns_restrict.  Two facts carry over forks and changes of the uid: a  *)
(* task of a user's session still has the loginuid of the user, or is      *)
(* excused, and only tasks in a user namespace have mounts of their own.   *)
Proc == [uid : {"none", "root", "user"}, login : {"unset", "root", "user"},
         parent : Tasks \cup {Nobody}, level : {0, 1},
         own : BOOLEAN, human : BOOLEAN, excused : BOOLEAN]

Fit(p) ==
  /\ p \in Proc
  /\ p.own => p.level = 1
  /\ p.human /\ audit /\ p.login # "user" => p.excused
  /\ p.human /\ p.level = 1 => p.excused

ProcInv ==
  /\ audit \in BOOLEAN
  /\ proc \in [Tasks -> Proc]
  /\ \A t \in Tasks : Fit(proc[t])

(* A mount between its two hooks is one of a task in a namespace, and if   *)
(* the first hook was on it is no mount of devices.                        *)
MountingInv ==
  /\ mounting \in [by : Tasks \cup {Nobody}, device : BOOLEAN, on : BOOLEAN]
  /\ mounting # Idle =>
       /\ mounting.by \in Present /\ proc[mounting.by].own
       /\ mounting.device => ~mounting.on

LEMMA SpaceInit == InitSpaces => ProcInv /\ MountingInv /\ ContainedMounts
BY SwitchAssumption
DEF InitSpaces, ProcInv, MountingInv, ContainedMounts, Fit, Proc, None, Idle

(* One task changes and fits: all do.                                      *)
LEMMA OneChanges ==
  ASSUME ProcInv, audit' = audit, NEW t \in Tasks, NEW p, Fit(p),
         proc' = [proc EXCEPT ![t] = p]
  PROVE  ProcInv'
BY DEF ProcInv, Fit

(* unshare(CLONE_NEWUSER), which userns_restrict_create lets pass: a task  *)
(* of a user's session with a loginuid is excused already; without one its *)
(* parent is not the user's.                                               *)
LEMMA UnshareFits ==
  ASSUME ProcInv, NEW t \in Tasks, UnshareUser(t), state \in BOOLEAN
  PROVE  ProcInv'
<1> DEFINE lost == ~audit /\ proc[t].parent \notin
                                {p \in Present : proc[p].uid = "user"}
           q == [proc[t] EXCEPT !.level = 1,
                                !.excused = proc[t].excused \/ ~state \/ lost]
<1>1. proc' = [proc EXCEPT ![t] = q] /\ audit' = audit
  BY DEF UnshareUser, ProcInv, Proc
<1>2. q \in Proc BY DEF ProcInv, Proc
<1>3. ASSUME proc[t].human PROVE q.excused
  <2> SUFFICES ASSUME state, audit, ~proc[t].excused PROVE FALSE
    <3>1. ASSUME ~audit, state, ~lost PROVE FALSE
      BY <3>1, SwitchAssumption DEF UnshareUser, Create, UidOf, Present
    <3> QED BY <3>1 DEF ProcInv, Proc
  <2>1. proc[t].login # "user" BY DEF UnshareUser, Create
  <2> QED BY <1>3, <2>1 DEF ProcInv, Fit
<1>4. q.human = proc[t].human /\ q.level = 1 BY DEF ProcInv, Proc
<1>5. Fit(q) BY <1>2, <1>3, <1>4 DEF Fit
<1> QED BY <1>1, <1>5, OneChanges

(* What one task does to itself or for a new one leaves the mounting task  *)
(* alone.                                                                  *)
LEMMA MountingKept ==
  ASSUME ProcInv, MountingInv, NEW t \in Tasks, NEW p \in Proc,
         t \notin Present \/ p.own = proc[t].own \/ p.own,
         t \notin Present \/ p.uid # "none" \/ p.own,
         proc' = [proc EXCEPT ![t] = p], mounting' = mounting
  PROVE  MountingInv'
BY DEF ProcInv, MountingInv, Present, Proc, None

SpaceInv == ProcInv /\ MountingInv /\ ContainedMounts

LEMMA SpaceStep ==
  ASSUME SwitchTypeOK, SpaceInv, [SpaceNext]_<<switchVars, spaceVars>>
  PROVE  SpaceInv'
<1> USE DEF SpaceInv
<1>0. state \in BOOLEAN BY DEF SwitchTypeOK
<1>a. ASSUME NEW t \in Tasks, NEW p, Fit(p), proc' = [proc EXCEPT ![t] = p],
             t \notin Present \/ p.own,
             UNCHANGED <<audit, mounting, escapes>>
      PROVE  SpaceInv'
  <2>1. ProcInv' BY <1>a, OneChanges
  <2>2. MountingInv' BY <1>a, MountingKept DEF Fit
  <2> QED BY <1>a, <2>1, <2>2 DEF ContainedMounts
<1>b. ASSUME NEW t \in Tasks, NEW p, Fit(p), proc' = [proc EXCEPT ![t] = p],
             p.own = proc[t].own, UNCHANGED <<audit, mounting, escapes>>
      PROVE  SpaceInv'
  <2>1. ProcInv' BY <1>b, OneChanges
  <2>2. MountingInv'
    BY <1>b DEF ProcInv, MountingInv, Present, Proc, None, Fit
  <2> QED BY <1>b, <2>1, <2>2 DEF ContainedMounts
<1>1. ASSUME NEW t \in Tasks, NEW login \in {"unset", "root", "user"},
             Session(t, login)
      PROVE  SpaceInv'
  <2> DEFINE p == [None EXCEPT !.uid = IF login = "user" THEN "user" ELSE "root",
                               !.login = IF audit THEN login ELSE "unset",
                               !.human = (login = "user")]
  <2>1. p \in Proc
    <3>1. (login = "user") \in BOOLEAN OBVIOUS
    <3> QED BY <3>1 DEF Proc, None
  <2>2. p.own = FALSE /\ p.level = 0 /\ p.human = (login = "user")
          /\ p.login = (IF audit THEN login ELSE "unset")
    BY DEF None
  <2> HIDE DEF p
  <2>a. p.human => login = "user" BY <2>2
  <2>b. audit => p.login = login BY <2>2
  <2>c. ~p.own /\ p.level # 1 BY <2>2
  <2>3. Fit(p) BY <2>1, <2>a, <2>b, <2>c DEF Fit
  <2> QED BY <1>1, <1>a, <2>3 DEF Session, p
<1>2. ASSUME NEW t \in Tasks, NEW c \in Tasks, Clone(t, c) PROVE SpaceInv'
  <2>1. Fit([proc[t] EXCEPT !.parent = t]) BY DEF ProcInv, Fit, Proc
  <2> QED BY <1>2, <1>a, <2>1 DEF Clone
<1>3. ASSUME NEW t \in Tasks, Leave(t) PROVE SpaceInv'
  <2>1. ASSUME NEW x \in Tasks PROVE Fit(proc'[x])
    BY <1>3, <2>1 DEF Leave, ProcInv, Fit, Proc, None
  <2>2. ProcInv' BY <1>3, <2>1 DEF Leave, ProcInv, Fit
  <2>3. MountingInv'
    BY <1>3 DEF Leave, ProcInv, MountingInv, Present, Proc, None
  <2> QED BY <1>3, <2>2, <2>3 DEF Leave, ContainedMounts
<1>4. ASSUME NEW t \in Tasks, ChangeUid(t) PROVE SpaceInv'
  <2> DEFINE p == [proc[t] EXCEPT !.uid = IF proc[t].uid = "root"
                                            THEN "user" ELSE "root"]
  <2>1. Fit(p) /\ p.own = proc[t].own BY DEF ProcInv, Fit, Proc
  <2>2. proc' = [proc EXCEPT ![t] = p] BY <1>4 DEF ChangeUid, ProcInv, Proc
  <2> QED BY <1>4, <1>b, <2>1, <2>2 DEF ChangeUid
<1>5. ASSUME NEW t \in Tasks, SetLoginUid(t) PROVE SpaceInv'
  <2> DEFINE p == [proc[t] EXCEPT !.login = "unset", !.excused = TRUE]
  <2>1. Fit(p) /\ p.own = proc[t].own BY DEF ProcInv, Fit, Proc
  <2>2. proc' = [proc EXCEPT ![t] = p] BY <1>5 DEF SetLoginUid, ProcInv, Proc
  <2> QED BY <1>5, <1>b, <2>1, <2>2 DEF SetLoginUid
<1>6. ASSUME NEW t \in Tasks, UnshareUser(t) PROVE SpaceInv'
  <2>1. ProcInv' BY <1>0, <1>6, UnshareFits
  <2>2. MountingInv'
    BY <1>6 DEF UnshareUser, ProcInv, MountingInv, Present, Proc, None
  <2> QED BY <1>6, <2>1, <2>2 DEF UnshareUser, ContainedMounts
<1>7. ASSUME NEW t \in Tasks, UnshareMounts(t) PROVE SpaceInv'
  <2> DEFINE p == [proc[t] EXCEPT !.own = TRUE]
  <2>1. proc[t].level = 1 BY <1>7 DEF UnshareMounts, ProcInv, Proc, Present
  <2>2. p.own /\ p \in Proc /\ p.level = 1 /\ p.human = proc[t].human
          /\ p.login = proc[t].login /\ p.excused = proc[t].excused
    BY <2>1 DEF ProcInv, Proc
  <2>3. Fit(p) BY <2>1, <2>2 DEF ProcInv, Fit
  <2>4. proc' = [proc EXCEPT ![t] = p] BY <1>7 DEF UnshareMounts, ProcInv, Proc
  <2> QED BY <1>7, <1>a, <2>2, <2>3, <2>4 DEF UnshareMounts
<1>8. ASSUME NEW t \in Tasks, NEW device \in BOOLEAN, SbMount(t, device)
      PROVE  SpaceInv'
  <2>1. proc[t].level > 0 BY <1>8 DEF SbMount, ProcInv, Fit, Present
  <2>2. ~(state /\ device) BY <1>8, <2>1 DEF SbMount
  <2>3. MountingInv' BY <1>0, <1>8, <2>2 DEF SbMount, MountingInv, Present
  <2>4. ProcInv' BY <1>8 DEF SbMount, ProcInv, Fit
  <2> QED BY <1>8, <2>3, <2>4 DEF SbMount, ContainedMounts
<1>9. CASE MayMount
  <2>1. proc[mounting.by].level > 0
    BY <1>9 DEF MayMount, ProcInv, MountingInv, Fit, Present
  <2>2. ContainedMounts'
    BY <1>0, <1>9, <2>1 DEF MayMount, ContainedMounts, Capable, MountingInv
  <2>3. MountingInv' BY <1>9, SwitchAssumption DEF MayMount, MountingInv, Idle
  <2>4. ProcInv' BY <1>9 DEF MayMount, ProcInv, Fit
  <2> QED BY <2>2, <2>3, <2>4
<1>10. CASE UNCHANGED spaceVars
  BY <1>10 DEF spaceVars, ProcInv, Fit, MountingInv, ContainedMounts, Present
<1> QED
  BY <1>1, <1>2, <1>3, <1>4, <1>5, <1>6, <1>7, <1>8, <1>9, <1>10
  DEF SpaceNext

LEMMA SpaceSwitch ==
  ASSUME SwitchTypeOK, [SpaceNext]_<<switchVars, spaceVars>>
  PROVE  SwitchTypeOK' /\ module' = module
<1>1. SwitchTypeOK'
  BY SwitchStep DEF SpaceNext, Session, Clone, Leave, ChangeUid, SetLoginUid,
     UnshareUser, UnshareMounts, SbMount, MayMount
<1>2. module' = module
  BY DEF SpaceNext, Session, Clone, Leave, ChangeUid, SetLoginUid, UnshareUser,
     UnshareMounts, SbMount, MayMount, WriteFlag, InitModule, SetModuleState,
     Crash, switchVars
<1> QED BY <1>1, <1>2

LEMMA SpaceInvariant == SpaceSpec => []SpaceInv
<1>1. InitSwitch("userns_restrict") /\ InitSpaces => SwitchTypeOK /\ SpaceInv
  BY SwitchInit, SpaceInit DEF SpaceInv
<1>2. SwitchTypeOK /\ SpaceInv /\ [SpaceNext]_<<switchVars, spaceVars>>
        => (SwitchTypeOK /\ SpaceInv)'
  <2> SUFFICES ASSUME SwitchTypeOK, SpaceInv,
                      [SpaceNext]_<<switchVars, spaceVars>>
               PROVE  (SwitchTypeOK /\ SpaceInv)'
    OBVIOUS
  <2>1. SwitchTypeOK' BY SpaceSwitch
  <2>2. SpaceInv' BY SpaceStep
  <2> QED BY <2>1, <2>2
<1> QED BY <1>1, <1>2, PTL DEF SpaceSpec

(* However a user's session forks, exits and changes its uid before it     *)
(* asks, userns_restrict_create keeps it out of user namespaces, but for   *)
(* the named excuses.                                                      *)
THEOREM AncestryKept == SpaceSpec => []AncestryHolds
<1>1. SpaceInv => AncestryHolds
  BY DEF SpaceInv, ProcInv, Fit, Proc, AncestryHolds, Present
<1> QED BY <1>1, SpaceInvariant, PTL

(* Whenever the module is toggled, a mount inside a namespace gets past    *)
(* userns_restrict_sb_mount and userns_restrict_capable only if it names   *)
(* no device and the second of them found the module off.                  *)
THEOREM MountsContained == SpaceSpec => []ContainedMounts
<1>1. SpaceInv => ContainedMounts BY DEF SpaceInv
<1> QED BY <1>1, SpaceInvariant, PTL
-----------------------------------------------------------------------------
(* The index.  Paths have no inode in common, so that replacing one takes  *)
(* nothing from another.                                                   *)
Apart ==
  \A m, n \in Names : m # n =>
    {entry[m], leads[m]} \cap {entry[n], leads[n]} \subseteq {Absent}

IndexInv ==
  /\ entry \in [Names -> Inodes \cup {Absent}]
  /\ leads \in [Names -> Inodes \cup {Absent}]
  /\ bears \subseteq Inodes
  /\ Apart
  /\ IndexIsCurrent

LEMMA IndexInit ==
  ASSUME InitIndex, boot = "down"
  PROVE  IndexInv
<1>1. entry = Home BY DEF InitIndex
<1>2. PICK n \in Names \cup {Absent}, i \in Spare \cup {Absent} :
        leads = Home \/ (n \in Names /\ i \in Spare /\ leads = [Home EXCEPT ![n] = i])
  BY DEF InitIndex
<1>3. leads \in [Names -> Inodes \cup {Absent}] /\ Apart
  BY <1>1, <1>2, IndexAssumption DEF Apart, Spare
<1>4. bears \subseteq {leads[x] : x \in Marked} BY DEF InitIndex
<1>5. bears \subseteq Inodes
  BY <1>2, <1>4, IndexAssumption DEF Spare
<1>6. IndexIsCurrent BY DEF IndexIsCurrent
<1> QED BY <1>1, <1>3, <1>5, <1>6, IndexAssumption DEF IndexInv

(* init: the files on which map and administrator disagree are links.      *)
LEMMA FillMapCurrent ==
  ASSUME IndexInv, FillMap
  PROVE  IndexInv'
<1> DEFINE links == {n \in Marked : entry[n] # leads[n]}
<1>1. /\ index' = Indexed /\ UNCHANGED <<entry, leads, bears, module>>
      /\ unseen' = {entry[n] : n \in links} \cup {leads[n] : n \in links}
  BY DEF FillMap, InitModule
<1>2. Absent \notin bears BY IndexAssumption DEF IndexInv
<1>3. Wanted' = Wanted BY <1>1 DEF Wanted
<1>4. Wanted \ Indexed \subseteq unseen' BY <1>1 DEF Wanted, Indexed
<1>5. Indexed \ Wanted \subseteq unseen' BY <1>1, <1>2 DEF Wanted, Indexed
<1>6. IndexIsCurrent' BY <1>1, <1>3, <1>4, <1>5 DEF IndexIsCurrent
<1> QED BY <1>1, <1>6 DEF IndexInv, Apart

(* A step around the map: what becomes wanted, or ceases to be, is unseen. *)
Drift ==
  /\ UNCHANGED <<index, boot, module>>
  /\ unseen \subseteq unseen'
  /\ Wanted \ Wanted' \subseteq unseen'
  /\ Wanted' \ Wanted \subseteq unseen'

LEMMA ReplaceDrifts ==
  ASSUME IndexInv, NEW n \in Names, NEW i \in Inodes \cup {Absent},
         NEW flagged \in BOOLEAN, NEW open, Replace(n, i, flagged, open)
  PROVE  Drift /\ IndexInv'
<1> DEFINE old == {entry[n], leads[n]} \ {Absent}
           new == {i} \ {Absent}
<1>1. /\ entry' = [entry EXCEPT ![n] = i] /\ leads' = [leads EXCEPT ![n] = i]
      /\ bears' = (bears \ (old \cup new)) \cup (IF flagged THEN new ELSE {})
      /\ unseen' = unseen \cup new \cup (IF n \in Marked THEN old ELSE {})
      /\ UNCHANGED <<index, boot, module>>
      /\ new \cap Placed = {}
  BY DEF Replace
<1>2. Wanted \ Wanted' \subseteq unseen'
  <2> SUFFICES ASSUME NEW x \in Wanted, x \notin Wanted', x \notin unseen'
               PROVE  FALSE
    OBVIOUS
  <2>1. PICK m \in Marked : x = leads[m] /\ x # Absent
    BY DEF Wanted
  <2>2. m # n /\ leads'[m] = x
    BY <1>1, <2>1, IndexAssumption DEF IndexInv
  <2>3. module \in ByAttribute /\ x \in bears /\ x \notin bears'
    BY <1>1, <2>1, <2>2 DEF Wanted
  <2>4. x \in old BY <1>1, <2>3
  <2> QED BY <2>1, <2>2, <2>4, IndexAssumption DEF IndexInv, Apart
<1>3. Wanted' \ Wanted \subseteq unseen'
  <2> SUFFICES ASSUME NEW x \in Wanted', x \notin Wanted, x \notin unseen'
               PROVE  FALSE
    OBVIOUS
  <2>1. PICK m \in Marked : x = leads'[m] /\ x # Absent
    BY DEF Wanted
  <2>2. x # i BY <1>1, <2>1
  <2>3. x = leads[m] BY <1>1, <2>1, <2>2, IndexAssumption DEF IndexInv
  <2> QED BY <1>1, <2>1, <2>2, <2>3 DEF Wanted
<1>4. Drift BY <1>1, <1>2, <1>3 DEF Drift
<1>5. Apart' BY <1>1 DEF Apart, IndexInv, Placed
<1>6. IndexIsCurrent' BY <1>4 DEF Drift, IndexInv, IndexIsCurrent
<1> QED BY <1>1, <1>4, <1>5, <1>6 DEF IndexInv

LEMMA SetAttributeDrifts ==
  ASSUME IndexInv, NEW n \in Names, SetAttribute(n)
  PROVE  Drift /\ IndexInv'
<1>1. /\ bears' \cup {leads[n]} = bears \cup {leads[n]}
      /\ bears' \subseteq Inodes
      /\ unseen' = unseen \cup {leads[n]}
      /\ UNCHANGED <<entry, leads, index, boot, module>>
  BY IndexAssumption DEF SetAttribute, IndexInv
<1>2. Drift BY <1>1 DEF Drift, Wanted
<1>3. IndexIsCurrent' BY <1>2 DEF Drift, IndexInv, IndexIsCurrent
<1> QED BY <1>1, <1>2, <1>3 DEF IndexInv, Apart

LEMMA IndexStep ==
  ASSUME IndexInv, [TaskNext]_taskVars
  PROVE  IndexInv'
<1>1. CASE \/ \E enabled \in BOOLEAN : WriteFlag(enabled) /\ UNCHANGED indexVars
           \/ LoseMap
  BY <1>1 DEF WriteFlag, LoseMap, Crash, indexVars, IndexInv, Apart, IndexIsCurrent
<1>2. CASE UNCHANGED indexVars /\ UNCHANGED <<boot, module>>
  BY <1>2 DEF indexVars, IndexInv, Apart, IndexIsCurrent, Wanted
<1>3. CASE Boot
  BY <1>1, <1>3, FillMapCurrent DEF Boot
<1>4. CASE Surroundings
  BY <1>2, <1>4, ReplaceDrifts, SetAttributeDrifts
  DEF Surroundings, SetModuleState
<1>5. CASE ~Boot /\ ~Surroundings
  BY <1>2, <1>5 DEF TaskNext, taskVars, switchVars, GiveUp, Fork, OpenMem,
     PtraceAccess, Exec, FileOpen, DropPrivileges, Exit, TraceMe,
     EnforcePrivilege, UringSetup, LeaveRing, Vmsplice, MmapFile, FileMprotect,
     Acquire, Gone
<1> QED BY <1>3, <1>4, <1>5

(* However files are replaced and flagged, the maps of ptrace_block,       *)
(* shield, strict_wx and io_restrict are wrong only about files that are   *)
(* links or that changed since the boot.                                   *)
THEOREM IndexStaysCurrent == TaskSpec => []IndexIsCurrent
<1>1. (\E m \in TaskModules : InitSwitch(m)) /\ InitTasks => IndexInv
  BY IndexInit DEF InitSwitch, InitTasks
<1>2. IndexInv /\ [TaskNext]_taskVars => IndexInv' BY IndexStep
<1>3. IndexInv => IndexIsCurrent BY DEF IndexInv
<1> QED BY <1>1, <1>2, <1>3, PTL DEF TaskSpec
-----------------------------------------------------------------------------
(* What is held.  Of a link to another's memory both ends are alive, of    *)
(* all else the owner is; only mappings have a protection; and what was    *)
(* judged was judged since the present boot filled the map.                *)
OnAnother == {"attach", "read", "mem", "own", "traceme"}
OnItself  == {"write", "bpf", "ring", "leaked", "region"}

Task == [uid : {"none", "root", "user"}, exe : Inodes \cup {Absent},
         parent : Tasks \cup {Nobody}]
Held == [kind : {"nothing"} \cup OnAnother \cup OnItself,
         owner : Tasks \cup {Nobody}, victim : Tasks \cup {Nobody},
         file : Inodes \cup {Absent}, prot : Protections,
         by : {"none", "root", "user"}, judged : BOOLEAN]

HeldTypeOK ==
  /\ task \in [Tasks -> Task]
  /\ \A t \in Live : task[t].uid # "none"
  /\ held \in Held
  /\ held.kind \in OnAnother => held.owner \in Live /\ held.victim \in Live
  /\ held.kind \in OnItself => held.owner \in Live /\ held.victim = Nobody
  /\ held.kind = "nothing" => held.owner = Nobody /\ held.victim = Nobody
  /\ held.kind # "region" => held.prot = {}
  /\ held.kind = "region" => module = "strict_wx"
  /\ held.judged => boot = "filled"

Granted ==
  SecretsStaySecret /\ CoreIsShielded /\ RingsAreAuthorised /\ NoWritableCode

HeldInv == HeldTypeOK /\ Granted

LEMMA NothingFits == Nothing \in Held
BY DEF Nothing, Held, Protections

LEMMA StillGranted ==
  ASSUME HeldInv, HeldTypeOK', held' = held,
         \A t \in {held.owner, held.victim} \cap Live : task'[t].exe = task[t].exe,
         Known' \subseteq Known,
         Wanted \cup unseen \subseteq Wanted' \cup unseen'
  PROVE  Granted'
<1>1. SecretsStaySecret'
  BY DEF HeldInv, HeldTypeOK, Granted, SecretsStaySecret, OnAnother, Links
<1>2. CoreIsShielded'
  BY DEF HeldInv, Granted, CoreIsShielded
<1>3. RingsAreAuthorised'
  BY DEF HeldInv, HeldTypeOK, Granted, RingsAreAuthorised, OnItself
<1>4. NoWritableCode'
  BY DEF HeldInv, HeldTypeOK, Granted, NoWritableCode, OnItself
<1> QED BY <1>1, <1>2, <1>3, <1>4 DEF Granted

LEMMA UnjudgedGranted == ASSUME ~held'.judged PROVE Granted'
BY DEF Granted, SecretsStaySecret, CoreIsShielded, RingsAreAuthorised,
       NoWritableCode

(* A step that leaves module and map alone.                                *)
Apace == UNCHANGED <<switchVars, indexVars>>

LEMMA ApaceKeeps ==
  ASSUME Apace
  PROVE  /\ boot' = boot /\ module' = module /\ state' = state
         /\ leads' = leads /\ index' = index
         /\ Known' = Known /\ Wanted' = Wanted /\ unseen' = unseen
BY DEF Apace, switchVars, indexVars, Known, Wanted

LEMMA NothingGranted ==
  ASSUME task' \in [Tasks -> Task], \A t \in Live' : task'[t].uid # "none",
         held' = Nothing
  PROVE  HeldInv'
<1>1. ~held'.judged BY DEF Nothing
<1>2. HeldTypeOK'
  BY NothingFits DEF HeldTypeOK, Nothing, OnAnother, OnItself
<1> QED BY <1>1, <1>2, UnjudgedGranted DEF HeldInv

LEMMA ForkKeeps ==
  ASSUME HeldInv, NEW p \in Tasks, NEW c \in Tasks, Fork(p, c)
  PROVE  HeldInv'
<1>0. Apace BY DEF Fork, Apace
<1>1. /\ p \in Live /\ c \notin Live
      /\ task' \in [Tasks -> Task]
      /\ \A t \in Tasks \ {c} : task'[t] = task[t]
      /\ task'[c].exe = task[p].exe /\ task'[c].uid = task[p].uid
  BY SwitchAssumption DEF Fork, HeldInv, HeldTypeOK, Task, Parent, Live
<1>2. /\ Live' = Live \cup {c}
      /\ \A t \in Live' : task'[t].uid # "none"
  BY <1>1 DEF Live, Dead, HeldInv, HeldTypeOK
<1>3. CASE held' = held
  <2>1. HeldTypeOK'
    BY <1>0, <1>1, <1>2, <1>3, ApaceKeeps DEF HeldInv, HeldTypeOK
  <2> QED
    BY <1>0, <1>1, <1>3, <2>1, StillGranted, ApaceKeeps DEF HeldInv, Live
<1>4. CASE /\ held.owner = p /\ held.kind \notin Links
           /\ held' = [held EXCEPT !.owner = c]
  <2>0. held.kind \in OnAnother \cup OnItself
    BY <1>1, <1>4, SwitchAssumption DEF HeldInv, HeldTypeOK, Held, Live
  <2>1. HeldTypeOK'
    BY <1>0, <1>1, <1>2, <1>4, <2>0, ApaceKeeps
    DEF HeldInv, HeldTypeOK, Held, OnItself, OnAnother
  <2>2. /\ held'.kind = held.kind /\ held'.victim = held.victim
        /\ held'.owner = c /\ held'.by = held.by /\ held'.file = held.file
        /\ held'.prot = held.prot /\ held'.judged = held.judged
    BY <1>4 DEF HeldInv, HeldTypeOK, Held
  <2>3. held.kind \in OnAnother => task'[held.victim] = task[held.victim]
    BY <1>1 DEF HeldInv, HeldTypeOK, Live
  <2>4. SecretsStaySecret'
    BY <1>0, <2>2, <2>3, ApaceKeeps
    DEF HeldInv, Granted, SecretsStaySecret, OnAnother
  <2>5. CoreIsShielded' /\ RingsAreAuthorised' /\ NoWritableCode'
    BY <1>0, <1>1, <1>4, <2>2, ApaceKeeps
    DEF HeldInv, Granted, CoreIsShielded, RingsAreAuthorised, NoWritableCode
  <2> QED BY <2>1, <2>4, <2>5 DEF HeldInv, Granted
<1>5. CASE /\ held.victim = p /\ held.kind \in Links
           /\ held' = [held EXCEPT !.victim = c]
  <2>1. HeldTypeOK'
    BY <1>0, <1>1, <1>2, <1>5, ApaceKeeps
    DEF HeldInv, HeldTypeOK, Held, OnItself, OnAnother, Links
  <2>2. /\ held'.kind = held.kind /\ held'.victim = c
        /\ held'.owner = held.owner /\ held'.by = held.by
        /\ held'.file = held.file
        /\ held'.prot = {} /\ held'.judged = held.judged
    BY <1>5 DEF HeldInv, HeldTypeOK, Held, Links
  <2>3. SecretsStaySecret'
    BY <1>0, <1>1, <1>5, <2>2, ApaceKeeps
    DEF HeldInv, Granted, SecretsStaySecret
  <2>4. CoreIsShielded' /\ RingsAreAuthorised' /\ NoWritableCode'
    BY <1>5, <2>2 DEF CoreIsShielded, RingsAreAuthorised, NoWritableCode, Links
  <2> QED BY <2>1, <2>3, <2>4 DEF HeldInv, Granted
<1> QED BY <1>3, <1>4, <1>5 DEF Fork

LEMMA ExecKeeps ==
  ASSUME IndexInv, HeldInv, NEW t \in Tasks, NEW n \in Names, Exec(t, n)
  PROVE  HeldInv'
<1>0. Apace BY DEF Exec, Apace
<1>1. /\ t \in Live
      /\ task' \in [Tasks -> Task]
      /\ \A x \in Tasks \ {t} : task'[x] = task[x]
      /\ task'[t].uid # "none"
  <2> DEFINE u == IF n \in Setuid /\ "root" \in Uids
                       /\ ~(held.victim = t /\ held.by = "user")
                    THEN "root" ELSE task[t].uid
             q == [task[t] EXCEPT !.exe = leads[n], !.uid = u]
  <2>1. task' = [task EXCEPT ![t] = q] /\ t \in Live
    BY DEF Exec, HeldInv, HeldTypeOK, Task
  <2>2. u \in {"root", "user"}
    BY <2>1 DEF HeldInv, HeldTypeOK, Task, Live
  <2>3. leads[n] \in Inodes \cup {Absent} BY DEF IndexInv
  <2>4. q \in Task /\ q.uid = u
    BY <2>2, <2>3 DEF HeldInv, HeldTypeOK, Task
  <2> QED BY <2>1, <2>2, <2>4 DEF HeldInv, HeldTypeOK
<1>2. Live' = Live /\ \A x \in Live' : task'[x].uid # "none"
  BY <1>1 DEF Live, Dead, HeldInv, HeldTypeOK
<1>3. CASE held' = Nothing BY <1>1, <1>2, <1>3, NothingGranted
<1>4. CASE held' = [held EXCEPT !.judged = FALSE]
  <2>1. HeldTypeOK'
    BY <1>0, <1>1, <1>2, <1>4, ApaceKeeps DEF HeldInv, HeldTypeOK, Held
  <2>2. ~held'.judged BY <1>4 DEF HeldInv, HeldTypeOK, Held
  <2> QED BY <2>1, <2>2, UnjudgedGranted DEF HeldInv
<1>5. CASE /\ held' = held /\ held.victim # t
           /\ ~(held.owner = t /\ held.kind \in Rings \cup {"region"})
  <2>1. HeldTypeOK'
    BY <1>0, <1>1, <1>2, <1>5, ApaceKeeps DEF HeldInv, HeldTypeOK
  <2>2. SecretsStaySecret'
    BY <1>0, <1>1, <1>5, ApaceKeeps
    DEF HeldInv, HeldTypeOK, Granted, SecretsStaySecret, OnAnother, Links, Live
  <2>3. CoreIsShielded'
    BY <1>0, <1>5, ApaceKeeps DEF HeldInv, Granted, CoreIsShielded
  <2>4. RingsAreAuthorised'
    BY <1>0, <1>1, <1>5, ApaceKeeps
    DEF HeldInv, HeldTypeOK, Granted, RingsAreAuthorised, OnItself, Rings, Live
  <2>5. NoWritableCode'
    BY <1>0, <1>1, <1>5, ApaceKeeps
    DEF HeldInv, HeldTypeOK, Granted, NoWritableCode, OnItself, Live
  <2> QED BY <2>1, <2>2, <2>3, <2>4, <2>5 DEF HeldInv, Granted
<1> QED BY <1>3, <1>4, <1>5 DEF Exec

LEMMA DropKeeps ==
  ASSUME HeldInv, NEW t \in Tasks, DropPrivileges(t)
  PROVE  HeldInv'
<1>0. Apace /\ held' = held BY DEF DropPrivileges, Apace
<1>1. /\ task' \in [Tasks -> Task]
      /\ \A x \in Tasks \ {t} : task'[x] = task[x]
      /\ task'[t].exe = task[t].exe /\ task'[t].uid = "user" /\ t \in Live
  BY DEF DropPrivileges, HeldInv, HeldTypeOK, Task
<1>2. Live' = Live /\ \A x \in Live' : task'[x].uid # "none"
  BY <1>1 DEF Live, Dead, HeldInv, HeldTypeOK
<1>3. HeldTypeOK'
  BY <1>0, <1>1, <1>2, ApaceKeeps DEF HeldInv, HeldTypeOK
<1> QED BY <1>0, <1>1, <1>3, StillGranted, ApaceKeeps DEF HeldInv, Live

LEMMA WithoutFits ==
  ASSUME HeldInv, NEW t \in Tasks, task' = Without(t)
  PROVE  /\ task' \in [Tasks -> Task]
         /\ \A x \in Tasks \ {t} :
              task'[x].exe = task[x].exe /\ task'[x].uid = task[x].uid
         /\ Live' = Live \ {t} /\ \A x \in Live' : task'[x].uid # "none"
<1>1. /\ task' \in [Tasks -> Task]
      /\ task'[t] = Dead
      /\ \A x \in Tasks \ {t} : task'[x].exe = task[x].exe /\ task'[x].uid = task[x].uid
  BY DEF Without, HeldInv, HeldTypeOK, Task, Dead
<1>2. \A x \in Tasks \ {t} : task'[x] = Dead <=> task[x] = Dead
  BY DEF Without, HeldInv, HeldTypeOK, Task, Dead, Live
<1>3. Live' = Live \ {t} /\ \A x \in Live' : task'[x].uid # "none"
  BY <1>1, <1>2 DEF Live, HeldInv, HeldTypeOK
<1> QED BY <1>1, <1>3

LEMMA GoneKeeps ==
  ASSUME HeldInv, NEW t \in Tasks, Gone(t)
  PROVE  HeldInv'
<1>0. Apace BY DEF Gone, Apace
<1>1. /\ task' \in [Tasks -> Task]
      /\ \A x \in Tasks \ {t} : task'[x].exe = task[x].exe
      /\ Live' = Live \ {t} /\ \A x \in Live' : task'[x].uid # "none"
  BY WithoutFits DEF Gone
<1>2. CASE held' = Nothing BY <1>1, <1>2, NothingGranted
<1>3. CASE held' = held /\ t \notin {held.owner, held.victim}
  <2>1. HeldTypeOK'
    BY <1>0, <1>1, <1>3, ApaceKeeps DEF HeldInv, HeldTypeOK
  <2> QED BY <1>0, <1>1, <1>3, <2>1, StillGranted, ApaceKeeps DEF HeldInv, Live
<1> QED BY <1>2, <1>3 DEF Gone

(* What the hooks check when something is acquired is what is stated of it *)
(* afterwards.                                                             *)
LEMMA AcquireKeeps ==
  ASSUME IndexInv, HeldInv, NEW what \in Held, NEW m \in TaskModules,
         Acquire(what, m), state \in BOOLEAN,
         what.kind \in OnAnother => what.owner \in Live /\ what.victim \in Live,
         what.kind \in OnItself => what.owner \in Live /\ what.victim = Nobody,
         what.kind # "nothing", what.kind # "region" => what.prot = {},
         what.kind = "region" => m = "strict_wx",
         what.kind # "leaked",
         state => /\ what.kind \in OnAnother \ {"read"} => what.by = "root"
                  /\ what.kind \in {"attach", "read", "mem"} =>
                       task[what.victim].exe \notin index
                  /\ what.by = "user" /\ what.kind = "write" => what.file \notin index
                  /\ what.by = "user" => what.kind # "bpf"
                  /\ what.by = "user" /\ what.kind = "ring" =>
                       task[what.owner].exe \in index
                  /\ what.prot = {"w", "x"} =>
                       {task[what.owner].exe, what.file} \cap index = {}
  PROVE  HeldInv'
<1>0. Apace /\ task' = task /\ module = m
  BY DEF Acquire, Apace
<1>1. held' = [what EXCEPT !.judged = Judges] BY DEF Acquire
<1>2. Judges \in BOOLEAN BY DEF Judges
<1>3. /\ held' \in Held /\ held'.judged = Judges
      /\ held'.kind = what.kind /\ held'.owner = what.owner
      /\ held'.victim = what.victim /\ held'.file = what.file
      /\ held'.prot = what.prot /\ held'.by = what.by
  BY <1>1, <1>2 DEF Held
<1>4. HeldTypeOK'
  BY <1>0, <1>3, ApaceKeeps DEF HeldInv, HeldTypeOK, Judges, Live, Dead
<1>5. CASE ~Judges
  BY <1>3, <1>4, <1>5, UnjudgedGranted DEF HeldInv
<1>6. CASE Judges
  <2>1. Wanted \ index \subseteq unseen /\ index \ Wanted \subseteq unseen
    BY <1>0, <1>6 DEF Judges, IndexInv, IndexIsCurrent, TaskModules
  <2>2. Known \subseteq index /\ index \subseteq Wanted \cup unseen
    BY <2>1 DEF Known
  <2>3. Known' = Known /\ Wanted' \cup unseen' = Wanted \cup unseen /\ state
    BY <1>0, <1>6, ApaceKeeps DEF Judges
  <2>4. SecretsStaySecret'
    BY <1>0, <1>3, <2>2, <2>3 DEF SecretsStaySecret, OnAnother, Links
  <2>5. CoreIsShielded' BY <1>3, <2>2, <2>3 DEF CoreIsShielded
  <2>6. RingsAreAuthorised'
    BY <1>0, <1>3, <2>2, <2>3 DEF RingsAreAuthorised
  <2>7. NoWritableCode' BY <1>0, <1>3, <2>2, <2>3 DEF NoWritableCode
  <2> QED BY <1>4, <2>4, <2>5, <2>6, <2>7 DEF HeldInv, Granted
<1> QED BY <1>5, <1>6

LEMMA ThingFits ==
  ASSUME HeldTypeOK, NEW t \in Live,
         NEW kind \in {"nothing"} \cup OnAnother \cup OnItself
  PROVE  /\ Thing(kind, t) \in Held
         /\ Thing(kind, t).kind = kind /\ Thing(kind, t).owner = t
         /\ Thing(kind, t).victim = Nobody /\ Thing(kind, t).prot = {}
         /\ Thing(kind, t).prot # {"w", "x"}
         /\ Thing(kind, t).by = task[t].uid
         /\ task[t].uid \in {"root", "user"}
<1>1. task[t].uid \in {"root", "user"} /\ t \in Tasks
  BY DEF HeldTypeOK, Task, Live
<1> QED
  BY <1>1, NothingFits DEF Thing, Nothing, Held

(* A ring is left only by a program that is not on the list.               *)
LEMMA LeaveRingKeeps ==
  ASSUME IndexInv, HeldInv, NEW t \in Live, NEW u \in Tasks, ~Trusted(t),
         LeaveRing(t, u)
  PROVE  HeldInv'
<1>0. Apace /\ t \in Tasks BY DEF LeaveRing, Apace, Live
<1>1. /\ task' \in [Tasks -> Task]
      /\ \A x \in Tasks \ {t} : task'[x].exe = task[x].exe
      /\ Live' = Live \ {t} /\ \A x \in Live' : task'[x].uid # "none"
  BY <1>0, WithoutFits DEF LeaveRing
<1>2. /\ u \in Live \ {t} /\ task'[u].exe = task[t].exe
  BY <1>1 DEF LeaveRing
<1>3. Judges \in BOOLEAN BY DEF Judges
<1>4. /\ held' \in Held /\ held'.kind = "leaked" /\ held'.owner = u
      /\ held'.victim = Nobody /\ held'.prot = {} /\ held'.judged = Judges
  <2> DEFINE what == Thing("leaked", t)
  <2>1. /\ what \in Held /\ what.kind = "leaked" /\ what.victim = Nobody
        /\ what.prot = {}
    BY ThingFits DEF HeldInv, OnItself
  <2>2. held' = [what EXCEPT !.owner = u, !.judged = Judges]
    BY DEF LeaveRing
  <2> HIDE DEF what
  <2> QED BY <1>3, <2>1, <2>2 DEF Held
<1>5. HeldTypeOK'
  BY <1>0, <1>1, <1>2, <1>4, ApaceKeeps
  DEF HeldTypeOK, Judges, OnAnother, OnItself
<1>6. task[t].exe \notin index /\ module = "io_restrict"
  BY DEF Trusted, On
<1>7. Judges => task[t].exe \notin Known
  BY <1>6 DEF Judges, Known, IndexInv, IndexIsCurrent, ByAttribute
<1>8. SecretsStaySecret' /\ CoreIsShielded' /\ NoWritableCode'
  BY <1>4 DEF SecretsStaySecret, CoreIsShielded, NoWritableCode, Links
<1>9. RingsAreAuthorised'
  BY <1>0, <1>2, <1>4, <1>7, ApaceKeeps DEF RingsAreAuthorised
<1> QED BY <1>5, <1>8, <1>9 DEF HeldInv, Granted

LEMMA HookKeeps ==
  ASSUME IndexInv, HeldInv, state \in BOOLEAN, NEW t \in Tasks
  PROVE  /\ \A v \in Tasks, mode \in {"attach", "read"} :
              PtraceAccess(t, v, mode) => HeldInv'
         /\ TraceMe(t) => HeldInv'
         /\ \A v \in Tasks : OpenMem(t, v) => HeldInv'
         /\ \A n \in Names : FileOpen(t, n) => HeldInv'
         /\ EnforcePrivilege(t) => HeldInv'
         /\ UringSetup(t) => HeldInv'
         /\ \A file \in Inodes \cup {Absent}, prot \in Protections :
              MmapFile(t, file, prot) => HeldInv'
<1> USE DEF OnAnother, OnItself
<1>0. HeldTypeOK /\ Live \subseteq Tasks BY DEF HeldInv, Live
<1>1. ASSUME NEW v \in Tasks, NEW mode \in {"attach", "read"},
             PtraceAccess(t, v, mode)
      PROVE  HeldInv'
  <2> DEFINE what == [Thing(mode, t) EXCEPT !.victim = v]
  <2>1. /\ what \in Held /\ what.kind = mode /\ what.owner = t
        /\ what.victim = v /\ what.prot = {} /\ what.prot # {"w", "x"}
        /\ what.by = task[t].uid
    BY <1>0, <1>1, ThingFits DEF PtraceAccess, Held
  <2>2. module = "ptrace_block" BY <1>1 DEF PtraceAccess, Acquire
  <2>3. /\ Acquire(what, "ptrace_block") /\ t \in Live /\ v \in Live
        /\ state => /\ task[v].exe \notin index
                    /\ mode = "attach" => task[t].uid = "root"
    BY <1>1, <2>2 DEF PtraceAccess, AccessCheck, On
  <2> HIDE DEF what
  <2>4. state => /\ what.kind # "read" => what.by = "root"
                 /\ task[what.victim].exe \notin index
    BY <2>1, <2>3
  <2>5. what.kind \in {"attach", "read"} BY <2>1
  <2>6. /\ what.owner \in Live /\ what.victim \in Live
        /\ "ptrace_block" \in TaskModules
    BY <2>1, <2>3 DEF TaskModules, ByPath
  <2> QED BY <2>1, <2>3, <2>4, <2>5, <2>6, AcquireKeeps
<1>2. ASSUME TraceMe(t) PROVE HeldInv'
  <2> DEFINE p == task[t].parent
             what == [Thing("traceme", p) EXCEPT !.victim = t]
  <2>1. /\ what \in Held /\ what.kind = "traceme" /\ what.owner = p
        /\ what.victim = t /\ what.prot = {} /\ what.prot # {"w", "x"}
        /\ what.by = task[p].uid
    BY <1>0, <1>2, ThingFits DEF TraceMe, Held
  <2>2. module = "ptrace_block" BY <1>2 DEF TraceMe, Acquire
  <2>3. /\ Acquire(what, "ptrace_block") /\ t \in Live /\ p \in Live
        /\ state => task[p].uid = "root"
    BY <1>2, <2>2 DEF TraceMe, On
  <2> HIDE DEF what, p
  <2> QED BY <1>0, <2>1, <2>3, AcquireKeeps DEF TaskModules, ByPath
<1>3. ASSUME NEW v \in Tasks, OpenMem(t, v) PROVE HeldInv'
  <2> DEFINE kind == IF t = v THEN "own" ELSE "mem"
             what == [Thing(kind, t) EXCEPT !.victim = v]
  <2>1. /\ what \in Held /\ what.kind = kind /\ what.owner = t
        /\ what.victim = v /\ what.prot = {} /\ what.prot # {"w", "x"}
        /\ what.by = task[t].uid
    BY <1>0, <1>3, ThingFits DEF OpenMem, Held
  <2>2. module = "ptrace_block" BY <1>3 DEF OpenMem, Acquire
  <2>3. /\ Acquire(what, "ptrace_block") /\ t \in Live /\ v \in Live
        /\ state => /\ t # v => task[v].exe \notin index
                    /\ task[t].uid = "root"
    BY <1>3, <2>2 DEF OpenMem, AccessCheck, On
  <2> HIDE DEF what
  <2>4. state => /\ what.kind # "read" => what.by = "root"
                 /\ what.kind = "mem" => task[what.victim].exe \notin index
    BY <2>1, <2>3
  <2>5. what.kind \in {"mem", "own"} BY <2>1
  <2>6. /\ what.owner \in Live /\ what.victim \in Live
        /\ "ptrace_block" \in TaskModules
    BY <2>1, <2>3 DEF TaskModules, ByPath
  <2> QED BY <2>1, <2>3, <2>4, <2>5, <2>6, AcquireKeeps
<1>4. ASSUME NEW n \in Names, FileOpen(t, n) PROVE HeldInv'
  <2> DEFINE what == [Thing("write", t) EXCEPT !.file = leads[n]]
  <2>0. leads[n] \in Inodes \cup {Absent} BY DEF IndexInv
  <2>1. /\ what \in Held /\ what.kind = "write" /\ what.owner = t
        /\ what.victim = Nobody /\ what.prot = {} /\ what.prot # {"w", "x"}
        /\ what.by = task[t].uid
        /\ what.file = leads[n]
    BY <1>0, <1>4, <2>0, ThingFits DEF FileOpen, Held
  <2>2. module = "shield" BY <1>4 DEF FileOpen, Acquire
  <2>3. /\ Acquire(what, "shield") /\ t \in Live
        /\ state /\ task[t].uid = "user" => leads[n] \notin index
    BY <1>4, <2>2 DEF FileOpen, On
  <2> HIDE DEF what
  <2> QED BY <1>0, <2>1, <2>3, AcquireKeeps DEF TaskModules, ByPath
<1>5. ASSUME EnforcePrivilege(t) PROVE HeldInv'
  <2>1. t \in Live /\ Acquire(Thing("bpf", t), "shield")
    BY <1>5 DEF EnforcePrivilege
  <2>2. state => task[t].uid = "root"
    BY <1>5, <2>1 DEF EnforcePrivilege, On, Acquire
  <2> QED BY <1>0, <2>1, <2>2, ThingFits, AcquireKeeps DEF TaskModules, ByPath
<1>6. ASSUME UringSetup(t) PROVE HeldInv'
  <2>1. CASE ~Trusted(t)
    BY <1>6, <2>1, GoneKeeps, LeaveRingKeeps DEF UringSetup
  <2>2. CASE Trusted(t)
    <3>1. t \in Live /\ Acquire(Thing("ring", t), "io_restrict")
      BY <1>6, <2>2 DEF UringSetup
    <3>2. state /\ task[t].uid = "user" => task[t].exe \in index
      BY <2>2, <3>1 DEF Trusted, On, Acquire
    <3> QED
      BY <1>0, <3>1, <3>2, ThingFits, AcquireKeeps DEF TaskModules, ByAttribute
  <2> QED BY <2>1, <2>2
<1>7. ASSUME NEW file \in Inodes \cup {Absent}, NEW prot \in Protections,
             MmapFile(t, file, prot)
      PROVE  HeldInv'
  <2> DEFINE what == [Nothing EXCEPT !.kind = "region", !.owner = t,
                                     !.file = file, !.prot = prot]
  <2>1. /\ what \in Held /\ what.kind = "region" /\ what.owner = t
        /\ what.victim = Nobody /\ what.prot = prot /\ what.by = "none"
        /\ what.file = file
    BY DEF Nothing, Held, Protections
  <2>2. module = "strict_wx" BY <1>7 DEF MmapFile, Acquire
  <2>3. /\ Acquire(what, "strict_wx") /\ t \in Live
        /\ state /\ prot = {"w", "x"} => {task[t].exe, file} \cap index = {}
    BY <1>7, <2>2 DEF MmapFile, Enforced, Violates, On
  <2> HIDE DEF what
  <2> QED BY <1>0, <2>1, <2>3, AcquireKeeps DEF TaskModules, ByAttribute
<1> QED BY <1>1, <1>2, <1>3, <1>4, <1>5, <1>6, <1>7

LEMMA MprotectKeeps ==
  ASSUME IndexInv, HeldInv, module \in TaskModules, state \in BOOLEAN,
         NEW prot \in Protections, FileMprotect(prot)
  PROVE  HeldInv'
<1>0. Apace /\ task' = task BY DEF FileMprotect, Apace
<1>1. Judges \in BOOLEAN BY DEF Judges
<1>2. /\ held' \in Held /\ held'.judged = Judges /\ held'.kind = "region"
      /\ held.kind = "region" /\ held'.owner = held.owner
      /\ held'.victim = held.victim /\ held'.file = held.file
      /\ held'.prot = prot
  BY <1>1 DEF FileMprotect, HeldInv, HeldTypeOK, Held
<1>3. HeldTypeOK'
  BY <1>0, <1>2, ApaceKeeps
  DEF HeldInv, HeldTypeOK, Judges, Live, Dead, OnAnother, OnItself
<1>4. ASSUME Judges, prot = {"w", "x"}
      PROVE  {task[held.owner].exe, held.file} \cap Known = {}
  <2>1. {task[held.owner].exe, held.file} \cap index = {}
    BY <1>2, <1>4
    DEF FileMprotect, Violates, Enforced, On, Judges, HeldInv, HeldTypeOK
  <2>2. Known \subseteq index
    BY <1>4 DEF Known, Judges, IndexInv, IndexIsCurrent, TaskModules
  <2> QED BY <2>1, <2>2
<1>5. Granted'
  BY <1>0, <1>2, <1>4, ApaceKeeps
  DEF Granted, SecretsStaySecret, CoreIsShielded, RingsAreAuthorised,
      NoWritableCode, Links
<1> QED BY <1>3, <1>5 DEF HeldInv

(* Known files become fewer, authorised or unseen ones more.               *)
LEMMA DriftKeeps ==
  ASSUME HeldInv, Drift, UNCHANGED guardVars
  PROVE  HeldInv'
<1>1. /\ Known' \subseteq Known
      /\ Wanted \cup unseen \subseteq Wanted' \cup unseen'
  BY DEF Drift, Known
<1>2. HeldTypeOK' BY DEF Drift, guardVars, HeldInv, HeldTypeOK, Live
<1> QED BY <1>1, <1>2, StillGranted DEF HeldInv, guardVars

LEMMA BootKeeps ==
  ASSUME HeldInv, Boot
  PROVE  HeldInv'
<1>1. /\ held' = [held EXCEPT !.judged = FALSE] /\ task' = task
      /\ module' = module
  BY DEF Boot, WriteFlag, FillMap, InitModule, LoseMap, Crash
<1>2. ~held'.judged BY <1>1 DEF HeldInv, HeldTypeOK, Held
<1>3. HeldTypeOK' BY <1>1 DEF HeldInv, HeldTypeOK, Held, Live
<1> QED BY <1>2, <1>3, UnjudgedGranted DEF HeldInv

TaskInv ==
  /\ module \in TaskModules /\ SwitchTypeOK
  /\ IndexInv /\ HeldInv

LEMMA TaskInit ==
  ASSUME NEW m, InitSwitch(m), InitTasks
  PROVE  SwitchTypeOK /\ IndexInv /\ HeldInv
<1>1. SwitchTypeOK /\ boot = "down" /\ ~state
  BY SwitchInit DEF InitSwitch
<1>2. IndexInv BY <1>1, IndexInit DEF InitTasks
<1>3. \A n \in Programs : leads[n] \in Inodes \cup {Absent}
  BY <1>2, TaskAssumption DEF IndexInv
<1>4. Dead \in Task BY DEF Dead, Task
<1>5. \A u \in Uids, n \in Programs :
        [uid |-> u, exe |-> leads[n], parent |-> Nobody] \in Task
  BY <1>3 DEF Uids, Task
<1>6. task \in [Tasks -> Task] BY <1>4, <1>5 DEF InitTasks
<1>7. ASSUME NEW t \in Live PROVE task[t].uid # "none"
  <2>1. PICK u \in Uids, n \in Programs :
          task[t] = [uid |-> u, exe |-> leads[n], parent |-> Nobody]
    BY DEF Live, InitTasks
  <2> QED BY <2>1 DEF Uids
<1>8. HeldTypeOK
  BY <1>6, <1>7, NothingFits
  DEF InitTasks, HeldTypeOK, Nothing, OnAnother, OnItself
<1>9. Granted
  BY DEF InitTasks, Nothing, Granted, SecretsStaySecret, CoreIsShielded,
         RingsAreAuthorised, NoWritableCode
<1> QED BY <1>1, <1>2, <1>8, <1>9 DEF HeldInv

LEMMA TaskStep ==
  ASSUME TaskInv, [TaskNext]_taskVars
  PROVE  TaskInv'
<1> USE DEF TaskInv
<1>0. state \in BOOLEAN BY DEF SwitchTypeOK
<1>1. IndexInv' BY IndexStep
<1>2. CASE UNCHANGED taskVars
  <2>1. Apace /\ UNCHANGED guardVars BY <1>2 DEF taskVars, Apace
  <2>2. Drift BY <2>1, ApaceKeeps DEF Drift
  <2>3. HeldInv' BY <2>1, <2>2, DriftKeeps
  <2>4. SwitchTypeOK' BY <2>1, SwitchStep DEF Apace
  <2> QED BY <1>1, <2>1, <2>3, <2>4, ApaceKeeps
<1>3. CASE Boot
  <2>1. SwitchTypeOK'
    BY <1>3, SwitchStep DEF Boot, FillMap, LoseMap
  <2>2. module' = module
    BY <1>3 DEF Boot, WriteFlag, FillMap, InitModule, LoseMap, Crash
  <2> QED BY <1>1, <1>3, <2>1, <2>2, BootKeeps
<1>4. CASE Surroundings
  <2>1. Drift
    <3>1. CASE SetModuleState /\ UNCHANGED indexVars
      BY <3>1 DEF SetModuleState, indexVars, Drift, Wanted
    <3> QED BY <1>4, <3>1, ReplaceDrifts, SetAttributeDrifts DEF Surroundings
  <2>2. HeldInv' BY <1>4, <2>1, DriftKeeps DEF Surroundings
  <2>3. SwitchTypeOK'
    <3>1. CASE SetModuleState BY <3>1, SwitchStep
    <3>2. CASE Edit /\ UNCHANGED <<module, boot, state>>
      BY <3>2, SwitchAssumption DEF SwitchTypeOK, Edit
    <3> QED BY <1>4, <3>1, <3>2 DEF Surroundings, Replace, SetAttribute
  <2> QED BY <1>1, <2>1, <2>2, <2>3 DEF Drift
<1>5. CASE TaskNext /\ ~Boot /\ ~Surroundings
  <2>1. Apace
    BY <1>5 DEF TaskNext, Apace, GiveUp, Fork, OpenMem, PtraceAccess, Exec,
       FileOpen, DropPrivileges, Exit, TraceMe, EnforcePrivilege, UringSetup,
       LeaveRing, Vmsplice, MmapFile, FileMprotect, Acquire, Gone
  <2>2. SwitchTypeOK' BY <2>1, SwitchStep DEF Apace
  <2>3. ASSUME GiveUp PROVE HeldInv'
    BY <2>3, NothingGranted DEF GiveUp, HeldInv, HeldTypeOK, Live
  <2>4. ASSUME NEW t \in Tasks,
               \/ \E v \in Tasks : Fork(t, v)
               \/ \E n \in Names : Exec(t, n)
               \/ DropPrivileges(t) \/ Exit(t) \/ Vmsplice(t)
        PROVE  HeldInv'
    BY <2>4, ForkKeeps, ExecKeeps, DropKeeps, GoneKeeps DEF Exit, Vmsplice
  <2>5. ASSUME NEW prot \in Protections, FileMprotect(prot) PROVE HeldInv'
    BY <1>0, <2>5, MprotectKeeps
  <2>6. HeldInv'
    BY <1>0, <1>5, <2>3, <2>4, <2>5, HookKeeps DEF TaskNext
  <2> QED BY <1>1, <2>1, <2>2, <2>6, ApaceKeeps
<1> QED BY <1>2, <1>3, <1>4, <1>5

LEMMA TaskInvariant == TaskSpec => []TaskInv
<1>1. (\E m \in TaskModules : InitSwitch(m)) /\ InitTasks => TaskInv
  BY TaskInit DEF TaskInv, InitSwitch
<1>2. TaskInv /\ [TaskNext]_taskVars => TaskInv' BY TaskStep
<1> QED BY <1>1, <1>2, PTL DEF TaskSpec

(* ptrace_block: a link to another's memory that the hooks of this boot    *)
(* granted is root's and leads into no listed program.                     *)
THEOREM SecretsKept == TaskSpec => []SecretsStaySecret
<1>1. TaskInv => SecretsStaySecret BY DEF TaskInv, HeldInv, Granted
<1> QED BY <1>1, TaskInvariant, PTL

(* shield: a user's descriptor or bpf handle is not one of a core file.    *)
THEOREM CoreShielded == TaskSpec => []CoreIsShielded
<1>1. TaskInv => CoreIsShielded BY DEF TaskInv, HeldInv, Granted
<1> QED BY <1>1, TaskInvariant, PTL

(* io_restrict: a user's ring belongs to a program that bears the          *)
(* attribute, or did so or changed since the boot.                         *)
THEOREM RingsAuthorised == TaskSpec => []RingsAreAuthorised
<1>1. TaskInv => RingsAreAuthorised BY DEF TaskInv, HeldInv, Granted
<1> QED BY <1>1, TaskInvariant, PTL

(* strict_wx: no sequence of mmap and mprotect makes a mapping writable    *)
(* and executable in a program, or of a file, that bears the attribute.    *)
THEOREM CodeIsNotWritable == TaskSpec => []NoWritableCode
<1>1. TaskInv => NoWritableCode BY DEF TaskInv, HeldInv, Granted
<1> QED BY <1>1, TaskInvariant, PTL
-----------------------------------------------------------------------------
(* The guards side by side.  For the types it takes that only before the   *)
(* first boot a path can be a link, so that both its inodes exist.         *)
KindsInv ==
  /\ IndexTypeOK
  /\ \A n \in Names : entry[n] # leads[n] =>
       entry[n] \in Inodes /\ leads[n] \in Inodes
  /\ \A t \in Live : task[t].uid \in Uids /\ task[t].exe \in Inodes

LEMMA KindsInit ==
  ASSUME NEW m, InitSwitch(m), InitTasks
  PROVE  KindsInv
<1>1. IndexInv /\ entry = Home /\ index = {} /\ unseen = {}
  BY TaskInit DEF InitTasks, InitIndex
<1>2. IndexTypeOK
  BY <1>1 DEF IndexInv, IndexTypeOK
<1>3. \A n \in Names : entry[n] \in Inodes /\ leads[n] \in Inodes
  BY <1>1, IndexAssumption DEF InitTasks, InitIndex, Spare
<1>4. ASSUME NEW t \in Live
      PROVE  task[t].uid \in Uids /\ task[t].exe \in Inodes
  <2>1. PICK u \in Uids, n \in Programs :
          task[t] = [uid |-> u, exe |-> leads[n], parent |-> Nobody]
    BY DEF Live, InitTasks
  <2> QED BY <1>3, <2>1, TaskAssumption
<1> QED BY <1>2, <1>3, <1>4 DEF KindsInv

(* What a task is changes with fork, exec and setuid; what is not changed  *)
(* keeps its kind.                                                         *)
LEMMA TaskKinds ==
  ASSUME KindsInv, HeldInv, TaskNext, ~Boot, ~Surroundings
  PROVE  /\ Apace
         /\ \A t \in Live' : task'[t].uid \in Uids /\ task'[t].exe \in Inodes
<1>0. /\ task \in [Tasks -> Task] /\ Dead.uid = "none"
      /\ \A t \in Live : task[t].uid \in Uids /\ task[t].exe \in Inodes
  BY DEF KindsInv, HeldInv, HeldTypeOK, Dead
<1>1. Apace
  BY DEF TaskNext, Apace, GiveUp, Fork, OpenMem, PtraceAccess, Exec,
     FileOpen, DropPrivileges, Exit, TraceMe, EnforcePrivilege, UringSetup,
     LeaveRing, Vmsplice, MmapFile, FileMprotect, Acquire, Gone
<1>2. ASSUME task' = task, NEW t \in Live'
      PROVE  task'[t].uid \in Uids /\ task'[t].exe \in Inodes
  BY <1>0, <1>2 DEF Live
<1>3. ASSUME NEW p \in Tasks, NEW c \in Tasks, Fork(p, c), NEW t \in Live'
      PROVE  task'[t].uid \in Uids /\ task'[t].exe \in Inodes
  <2>1. p \in Live /\ task' = [task EXCEPT ![c] = [task[p] EXCEPT !.parent = Parent(p)]]
    BY <1>3 DEF Fork
  <2>2. CASE t = c
    BY <1>0, <2>1, <2>2 DEF Task, Live
  <2>3. CASE t # c
    BY <1>0, <2>1, <2>3 DEF Live
  <2> QED BY <2>2, <2>3
<1>4. ASSUME NEW x \in Tasks, NEW n \in Names, Exec(x, n), NEW t \in Live'
      PROVE  task'[t].uid \in Uids /\ task'[t].exe \in Inodes
  <2>1. /\ x \in Live /\ leads[n] \in Inodes
        /\ task' = [task EXCEPT ![x].exe = leads[n],
                      ![x].uid = IF n \in Setuid /\ "root" \in Uids
                                      /\ ~(held.victim = x /\ held.by = "user")
                                   THEN "root" ELSE @]
    BY <1>4 DEF Exec, KindsInv, IndexTypeOK
  <2>2. CASE t = x
    BY <1>0, <2>1, <2>2 DEF Task, Live
  <2>3. CASE t # x
    BY <1>0, <2>1, <2>3 DEF Live
  <2> QED BY <2>2, <2>3
<1>5. ASSUME NEW x \in Tasks, DropPrivileges(x), NEW t \in Live'
      PROVE  task'[t].uid \in Uids /\ task'[t].exe \in Inodes
  <2>1. x \in Live /\ task' = [task EXCEPT ![x].uid = "user"] /\ "user" \in Uids
    BY <1>5 DEF DropPrivileges, Uids
  <2>2. CASE t = x
    BY <1>0, <2>1, <2>2 DEF Task, Live
  <2>3. CASE t # x
    BY <1>0, <2>1, <2>3 DEF Live
  <2> QED BY <2>2, <2>3
<1>6. ASSUME NEW x \in Tasks, task' = Without(x), NEW t \in Live'
      PROVE  task'[t].uid \in Uids /\ task'[t].exe \in Inodes
  <2>1. t \in Tasks /\ task'[t] # Dead
    BY DEF Live
  <2>2. t # x /\ task'[t] \in {task[t], [task[t] EXCEPT !.parent = Nobody]}
    BY <1>6, <2>1 DEF Without
  <2>3. task'[t].uid = task[t].uid /\ task'[t].exe = task[t].exe
    BY <1>0, <2>1, <2>2 DEF Task
  <2>4. t \in Live
    BY <2>1, <1>6, <2>2 DEF Without, Live, Dead
  <2> QED BY <1>0, <2>3, <2>4
<1>7. \/ task' = task
      \/ \E x, y \in Tasks : Fork(x, y)
      \/ \E x \in Tasks : \E n \in Names : Exec(x, n)
      \/ \E x \in Tasks : DropPrivileges(x) \/ task' = Without(x)
  <2>1. CASE GiveUp \/ \E prot \in Protections : FileMprotect(prot)
    BY <2>1 DEF GiveUp, FileMprotect
  <2>2. CASE \E x, y \in Tasks : OpenMem(x, y)
               \/ \E mode \in {"attach", "read"} : PtraceAccess(x, y, mode)
    BY <2>2 DEF OpenMem, PtraceAccess, Acquire
  <2>3. CASE \E x \in Tasks :
               \/ \E n \in Names : FileOpen(x, n)
               \/ Exit(x) \/ TraceMe(x) \/ EnforcePrivilege(x)
               \/ UringSetup(x) \/ Vmsplice(x)
               \/ \E file \in Inodes \cup {Absent}, prot \in Protections :
                    MmapFile(x, file, prot)
    BY <2>3 DEF FileOpen, Exit, TraceMe, EnforcePrivilege, UringSetup, LeaveRing,
       Vmsplice, MmapFile, Acquire, Gone
  <2> QED BY <2>1, <2>2, <2>3 DEF TaskNext
<1>8. ASSUME NEW t \in Live'
      PROVE  task'[t].uid \in Uids /\ task'[t].exe \in Inodes
  BY <1>2, <1>3, <1>4, <1>5, <1>6, <1>7
<1> QED BY <1>1, <1>8

LEMMA KindsStep ==
  ASSUME TaskInv, KindsInv, [TaskNext]_taskVars
  PROVE  KindsInv'
<1>1. CASE TaskNext /\ ~Boot /\ ~Surroundings
  <2>1. /\ Apace
        /\ \A t \in Live' : task'[t].uid \in Uids /\ task'[t].exe \in Inodes
    BY <1>1, TaskKinds DEF TaskInv
  <2> QED BY <2>1 DEF Apace, switchVars, indexVars, KindsInv, IndexTypeOK, Uids
<1>2. CASE UNCHANGED taskVars
  BY <1>2 DEF taskVars, switchVars, indexVars, guardVars, KindsInv, IndexTypeOK,
     Uids, Live
<1>3. CASE Boot \/ Surroundings
  <2>1. module' = module /\ task' = task
    BY <1>3 DEF Boot, Surroundings, WriteFlag, FillMap, InitModule, LoseMap, Crash,
       Replace, SetAttribute, SetModuleState, guardVars
  <2>2. \A t \in Live' : task'[t].uid \in Uids' /\ task'[t].exe \in Inodes
    BY <2>1 DEF KindsInv, Live, Uids
  <2>3. CASE \E enabled \in BOOLEAN : WriteFlag(enabled) /\ UNCHANGED indexVars
    BY <2>2, <2>3 DEF WriteFlag, indexVars, KindsInv, IndexTypeOK
  <2>4. CASE FillMap
    <3>1. /\ boot' = "filled" /\ index' = Indexed /\ UNCHANGED <<entry, leads, bears>>
          /\ unseen' = {entry[n] : n \in {x \in Marked : entry[x] # leads[x]}}
                         \cup {leads[n] : n \in {x \in Marked : entry[x] # leads[x]}}
      BY <2>4 DEF FillMap, InitModule
    <3>2. unseen' \subseteq Inodes
      BY <3>1, IndexAssumption DEF KindsInv
    <3>3. Indexed \subseteq Inodes
      BY IndexAssumption DEF KindsInv, IndexTypeOK, Indexed
    <3> QED BY <2>2, <3>1, <3>2, <3>3 DEF KindsInv, IndexTypeOK
  <2>5. CASE LoseMap
    BY <2>2, <2>5 DEF LoseMap, KindsInv, IndexTypeOK
  <2>6. ASSUME NEW n \in Names, NEW i \in Inodes \cup {Absent},
               NEW flagged \in BOOLEAN, Replace(n, i, flagged, Open)
        PROVE  KindsInv'
    <3>1. /\ entry' = [entry EXCEPT ![n] = i] /\ leads' = [leads EXCEPT ![n] = i]
          /\ UNCHANGED <<boot, index>>
          /\ bears' = (bears \ (({entry[n], leads[n]} \ {Absent}) \cup ({i} \ {Absent})))
                        \cup (IF flagged THEN {i} \ {Absent} ELSE {})
          /\ unseen' = unseen \cup ({i} \ {Absent})
                        \cup (IF n \in Marked THEN {entry[n], leads[n]} \ {Absent}
                              ELSE {})
      BY <2>6 DEF Replace
    <3>2. IndexTypeOK'
      BY <3>1 DEF KindsInv, IndexTypeOK
    <3>3. \A x \in Names : entry'[x] # leads'[x] =>
            entry'[x] \in Inodes /\ leads'[x] \in Inodes
      BY <3>1 DEF KindsInv, IndexTypeOK
    <3> QED BY <2>2, <3>2, <3>3 DEF KindsInv
  <2>7. ASSUME NEW n \in Names, SetAttribute(n)
        PROVE  KindsInv'
    <3>1. /\ leads[n] \in Inodes /\ UNCHANGED <<boot, index, entry, leads>>
          /\ bears' \subseteq bears \cup {leads[n]}
          /\ unseen' = unseen \cup {leads[n]}
      BY <2>7 DEF SetAttribute, KindsInv, IndexTypeOK
    <3> QED BY <2>2, <3>1 DEF KindsInv, IndexTypeOK
  <2>8. CASE SetModuleState /\ UNCHANGED indexVars
    BY <2>2, <2>8 DEF SetModuleState, indexVars, KindsInv, IndexTypeOK
  <2> QED BY <1>3, <2>3, <2>4, <2>5, <2>6, <2>7, <2>8 DEF Boot, Surroundings
<1> QED BY <1>1, <1>2, <1>3

(* The modules that are not followed are at rest.                          *)
GuardsInv ==
  /\ SwitchTypeOK /\ IndexInv /\ HeldInv /\ KindsInv
  /\ module \notin TaskModules => ~held.judged /\ index = {}
  /\ SpaceInv /\ MountInv

LEMMA OthersRest ==
  ASSUME GuardsInv
  PROVE  /\ UNCHANGED spaceVars => SpaceInv'
         /\ UNCHANGED mountVars => MountInv'
         /\ module \notin TaskModules /\ module' = module
              /\ UNCHANGED <<indexVars, guardVars>>
              => /\ IndexInv' /\ HeldInv' /\ KindsInv'
                 /\ ~held'.judged /\ index' = {}
<1>1. ASSUME UNCHANGED spaceVars PROVE SpaceInv'
  BY <1>1 DEF GuardsInv, SpaceInv, ProcInv, Fit, MountingInv, ContainedMounts,
     Present, spaceVars
<1>2. ASSUME UNCHANGED mountVars PROVE MountInv'
  BY <1>2 DEF GuardsInv, MountInv, MountTypeOK, MediaIsSecured, mountVars
<1>3. ASSUME module \notin TaskModules, module' = module,
             UNCHANGED <<indexVars, guardVars>>
      PROVE  /\ IndexInv' /\ HeldInv' /\ KindsInv'
             /\ ~held'.judged /\ index' = {}
  <2>1. ~held'.judged /\ index' = {}
    BY <1>3 DEF GuardsInv, indexVars, guardVars
  <2>2. IndexInv'
    BY <1>3 DEF GuardsInv, IndexInv, Apart, IndexIsCurrent, TaskModules, indexVars
  <2>3. HeldTypeOK'
    BY <1>3, <2>1 DEF GuardsInv, HeldInv, HeldTypeOK, Live, guardVars
  <2>4. HeldInv'
    BY <2>1, <2>3, UnjudgedGranted DEF HeldInv
  <2>5. KindsInv'
    BY <1>3, <2>1 DEF GuardsInv, KindsInv, IndexTypeOK, Uids, Live, indexVars,
       guardVars
  <2> QED BY <2>1, <2>2, <2>4, <2>5
<1> QED BY <1>1, <1>2, <1>3

LEMMA RenameSwitch ==
  ASSUME SwitchTypeOK, RenameNext
  PROVE  SwitchTypeOK' /\ module' = module
<1>1. SwitchTypeOK'
  BY SwitchStep DEF RenameNext, PathRename, Return
<1>2. module' = module
  BY DEF RenameNext, PathRename, Return, WriteFlag, InitModule, SetModuleState,
     Crash, switchVars
<1> QED BY <1>1, <1>2

LEMMA GuardsStep ==
  ASSUME GuardsInv, [Next]_guardsVars
  PROVE  GuardsInv'
<1>1. CASE module \in TaskModules /\ [TaskNext]_taskVars
           /\ UNCHANGED <<spaceVars, mountVars>>
  <2>1. TaskInv
    BY <1>1 DEF GuardsInv, TaskInv
  <2>2. TaskInv' /\ KindsInv'
    BY <1>1, <2>1, TaskStep, KindsStep DEF GuardsInv
  <2> QED BY <1>1, <2>2, OthersRest DEF GuardsInv, TaskInv
<1>2. CASE module = "userns_restrict" /\ SpaceNext
           /\ UNCHANGED <<indexVars, guardVars, mountVars>>
  <2>1. module \notin TaskModules
    BY <1>2 DEF TaskModules, ByPath, ByAttribute
  <2>2. SwitchTypeOK' /\ module' = module /\ SpaceInv'
    BY <1>2, SpaceSwitch, SpaceStep DEF GuardsInv
  <2> QED BY <1>2, <2>1, <2>2, OthersRest DEF GuardsInv
<1>3. CASE module = "mount_secure" /\ MountNext
           /\ UNCHANGED <<indexVars, guardVars, spaceVars>>
  <2>1. module \notin TaskModules
    BY <1>3 DEF TaskModules, ByPath, ByAttribute
  <2>2. SwitchTypeOK' /\ module' = module /\ MountInv'
    BY <1>3, MountSwitch, MountStep DEF GuardsInv
  <2> QED BY <1>3, <2>1, <2>2, OthersRest DEF GuardsInv
<1>4. CASE module = "rename_entropy" /\ RenameNext
           /\ UNCHANGED <<indexVars, guardVars, spaceVars, mountVars>>
  <2>1. module \notin TaskModules
    BY <1>4 DEF TaskModules, ByPath, ByAttribute
  <2>2. SwitchTypeOK' /\ module' = module
    BY <1>4, RenameSwitch DEF GuardsInv
  <2> QED BY <1>4, <2>1, <2>2, OthersRest DEF GuardsInv
<1>5. CASE UNCHANGED guardsVars
  <2>1. UNCHANGED <<switchVars, indexVars, guardVars, spaceVars, mountVars>>
    BY <1>5 DEF guardsVars, taskVars
  <2>2. CASE module \in TaskModules
    BY <1>1, <2>1, <2>2 DEF taskVars
  <2>3. CASE module \notin TaskModules
    <3>1. SwitchTypeOK' /\ module' = module
      BY <2>1, SwitchStep DEF GuardsInv, switchVars
    <3> QED BY <2>1, <2>3, <3>1, OthersRest DEF GuardsInv
  <2> QED BY <2>2, <2>3
<1> QED BY <1>1, <1>2, <1>3, <1>4, <1>5 DEF Next

LEMMA GuardsInvariant == Spec => []GuardsInv
<1>1. Init => GuardsInv
  <2> SUFFICES ASSUME Init PROVE GuardsInv
    OBVIOUS
  <2>1. PICK m : InitSwitch(m)
    BY DEF Init
  <2>2. SwitchTypeOK /\ IndexInv /\ HeldInv /\ KindsInv
    BY <2>1, TaskInit, KindsInit DEF Init
  <2>3. ~held.judged /\ index = {}
    BY DEF Init, InitTasks, InitIndex, Nothing
  <2>4. SpaceInv /\ MountInv
    BY SpaceInit, MountInit DEF Init, SpaceInv
  <2> QED BY <2>2, <2>3, <2>4 DEF GuardsInv
<1>2. GuardsInv /\ [Next]_guardsVars => GuardsInv'
  BY GuardsStep
<1> QED BY <1>1, <1>2, PTL DEF Spec

(* Whatever module is followed, tasks, handles, mounts and maps keep their *)
(* types: a held handle has a live owner, an index belongs to a boot that  *)
(* filled it, and unseen holds inodes only.                                *)
THEOREM GuardsTyped == Spec => []TypeOK
<1>1. GuardsInv => TypeOK
  <2> SUFFICES ASSUME GuardsInv PROVE TypeOK
    OBVIOUS
  <2>1. /\ held.owner \in Live \cup {Nobody} /\ held.victim \in Live \cup {Nobody}
    BY DEF GuardsInv, HeldInv, HeldTypeOK, Held
  <2>2. mounting = Idle \/ mounting.by \in Present
    BY DEF GuardsInv, SpaceInv, MountingInv
  <2> QED BY <2>1, <2>2 DEF GuardsInv, KindsInv, TypeOK
<1> QED BY <1>1, GuardsInvariant, PTL

(* The promises of the single modules hold side by side.                   *)
THEOREM GuardsKeepPromises ==
  Spec => [](/\ IndexIsCurrent /\ SecretsStaySecret /\ CoreIsShielded
             /\ RingsAreAuthorised /\ NoWritableCode /\ AncestryHolds
             /\ ContainedMounts /\ MediaIsSecured)
<1>1. GuardsInv =>
        (/\ IndexIsCurrent /\ SecretsStaySecret /\ CoreIsShielded
         /\ RingsAreAuthorised /\ NoWritableCode /\ AncestryHolds
         /\ ContainedMounts /\ MediaIsSecured)
  BY DEF GuardsInv, IndexInv, HeldInv, Granted, SpaceInv, ProcInv, Fit, Proc,
     AncestryHolds, Present, MountInv
<1> QED BY <1>1, GuardsInvariant, PTL
-----------------------------------------------------------------------------
(* rename_entropy.  compute_entropy and the length of a name are sums over *)
(* its characters; of a name in which all occur c times, k of them, each   *)
(* sum is k times its one term.  That is shown for the recursive functions *)
(* the folds stand for: the product solves their equation, and a smallest  *)
(* set on which another solution differs from it does not exist.           *)
AnyOf(s) == CHOOSE x \in s : TRUE

LEMMA ProductSolves ==
  ASSUME NEW S, IsFiniteSet(S), NEW v \in Nat, NEW s \in SUBSET S, s # {}
  PROVE  /\ AnyOf(s) \in s /\ s \ {AnyOf(s)} \in SUBSET S
         /\ Cardinality(s) * v = v + Cardinality(s \ {AnyOf(s)}) * v
<1>1. AnyOf(s) \in s
  BY DEF AnyOf
<1>2. IsFiniteSet(s)
  BY FS_Subset
<1>3. Cardinality(s) \in Nat /\ Cardinality(s \ {AnyOf(s)}) = Cardinality(s) - 1
  BY <1>1, <1>2, FS_RemoveElement, FS_CardinalityType
<1>4. \A n \in Nat : n * v = v + (n - 1) * v
  OBVIOUS
<1> QED BY <1>1, <1>3, <1>4

LEMMA OneSolution ==
  ASSUME NEW S, IsFiniteSet(S), NEW v \in Nat, NEW sum,
         \A s \in SUBSET S :
           sum[s] = IF s = {} THEN 0 ELSE v + sum[s \ {AnyOf(s)}]
  PROVE  sum[S] = Cardinality(S) * v
<1> DEFINE odd == {s \in SUBSET S : sum[s] # Cardinality(s) * v}
<1>1. IsWellFoundedOn(StrictSubsetOrdering(S), SUBSET S)
  BY FS_StrictSubsetOrderingWellFounded, FS_FiniteSubsetsOfFinite
<1>2. ASSUME odd # {}
      PROVE  FALSE
  <2>1. PICK s \in odd : \A r \in odd : <<r, s>> \notin StrictSubsetOrdering(S)
    BY <1>1, <1>2, WFMin
  <2>2. s # {}
    <3>1. sum[{}] = 0
      OBVIOUS
    <3>2. Cardinality({}) * v = 0
      BY FS_EmptySet
    <3> QED BY <2>1, <3>1, <3>2
  <2> DEFINE r == s \ {AnyOf(s)}
  <2>3. /\ AnyOf(s) \in s /\ r \in SUBSET S
        /\ Cardinality(s) * v = v + Cardinality(r) * v
    BY <2>1, <2>2, ProductSolves
  <2>4. <<r, s>> \in StrictSubsetOrdering(S)
    BY <2>1, <2>3 DEF StrictSubsetOrdering
  <2>5. sum[r] = Cardinality(r) * v
    BY <2>1, <2>3, <2>4
  <2>6. sum[s] = v + sum[r]
    BY <2>1, <2>2
  <2> QED BY <2>1, <2>3, <2>5, <2>6
<1>3. S \notin odd
  BY <1>2
<1> QED BY <1>3

LEMMA Letters ==
  ASSUME NEW k \in Nat
  PROVE  IsFiniteSet(1 .. k) /\ Cardinality(1 .. k) = k
BY FS_Interval

LEMMA LengthOf ==
  ASSUME NEW k \in Nat \ {0}, NEW c \in Nat
  PROVE  Length(Uniform(k, c)) = k * c
<1> DEFINE S == 1 .. k
           f == Uniform(k, c)
           G(g) == [s \in SUBSET S |->
                      IF s = {} THEN 0 ELSE f[AnyOf(s)] + g[s \ {AnyOf(s)}]]
           sum == CHOOSE g : g = G(g)
           product == [s \in SUBSET S |-> Cardinality(s) * c]
<1>1. Length(f) = sum[S]
  <2>1. DOMAIN f = S
    BY DEF Uniform
  <2>2. Length(f) = SumFunctionOnSet(f, S)
    BY <2>1 DEF Length
  <2>3. SumFunctionOnSet(f, S) = sum[S]
    BY DEF SumFunctionOnSet, FoldFunctionOnSet, MapThenFoldSet, AnyOf
  <2> QED BY <2>2, <2>3
<1>2. IsFiniteSet(S) /\ Cardinality(S) = k
  BY Letters
<1>3. \A x \in S : f[x] = c
  BY DEF Uniform
<1>4. product = G(product)
  <2>1. ASSUME NEW s \in SUBSET S
        PROVE  product[s] = IF s = {} THEN 0
                            ELSE f[AnyOf(s)] + product[s \ {AnyOf(s)}]
    <3>1. CASE s = {}
      BY <3>1, FS_EmptySet
    <3>2. CASE s # {}
      BY <1>2, <1>3, <3>2, ProductSolves
    <3> QED BY <3>1, <3>2
  <2> QED BY <2>1
<1>5. sum = G(sum)
  <2>1. \E g : g = G(g)
    BY <1>4
  <2> HIDE DEF G
  <2> QED BY <2>1
<1> HIDE DEF sum
<1>6. \A s \in SUBSET S : sum[s] = IF s = {} THEN 0
                                    ELSE f[AnyOf(s)] + sum[s \ {AnyOf(s)}]
  BY <1>5
<1>7. ASSUME NEW s \in SUBSET S
      PROVE  sum[s] = IF s = {} THEN 0 ELSE c + sum[s \ {AnyOf(s)}]
  <2>1. CASE s = {}
    BY <1>6, <2>1
  <2>2. CASE s # {}
    <3>1. AnyOf(s) \in S
      BY <2>2 DEF AnyOf
    <3> HIDE DEF f
    <3> QED BY <1>3, <1>6, <2>2, <3>1
  <2> QED BY <2>1, <2>2
<1>8. sum[S] = Cardinality(S) * c
  BY <1>2, <1>7, OneSolution
<1> QED BY <1>1, <1>2, <1>8

LEMMA EntropySum ==
  ASSUME NEW k \in Nat \ {0}, NEW c \in Nat, Log(c) \in Nat
  PROVE  compute_entropy(Uniform(k, c)) = k * (c * Log(c))
<1> DEFINE S == 1 .. k
           f == Uniform(k, c)
           v == c * Log(c)
           G(g) == [s \in SUBSET S |->
                      IF s = {} THEN 0
                      ELSE f[AnyOf(s)] * Log(f[AnyOf(s)]) + g[s \ {AnyOf(s)}]]
           sum == CHOOSE g : g = G(g)
           product == [s \in SUBSET S |-> Cardinality(s) * v]
<1>1. compute_entropy(f) = sum[S]
  <2>1. DOMAIN f = S
    BY DEF Uniform
  <2>2. compute_entropy(f) = MapThenSumSet(LAMBDA ch : f[ch] * Log(f[ch]), S)
    BY <2>1 DEF compute_entropy
  <2>3. MapThenSumSet(LAMBDA ch : f[ch] * Log(f[ch]), S) = sum[S]
    BY DEF MapThenSumSet, MapThenFoldSet, AnyOf
  <2> QED BY <2>2, <2>3
<1>2. IsFiniteSet(S) /\ Cardinality(S) = k
  BY Letters
<1>3. \A x \in S : f[x] * Log(f[x]) = v
  BY DEF Uniform
<1>4. v \in Nat
  OBVIOUS
<1>5. \A s \in SUBSET S : s # {} => AnyOf(s) \in S
  BY DEF AnyOf
<1> HIDE DEF v, f
<1>6. product = G(product)
  <2>1. ASSUME NEW s \in SUBSET S
        PROVE  product[s] = IF s = {} THEN 0
                            ELSE f[AnyOf(s)] * Log(f[AnyOf(s)])
                                   + product[s \ {AnyOf(s)}]
    <3>1. CASE s = {}
      BY <1>4, <3>1, FS_EmptySet
    <3>2. CASE s # {}
      <4>1. f[AnyOf(s)] * Log(f[AnyOf(s)]) = v
        BY <1>3, <1>5, <3>2
      <4>2. /\ s \ {AnyOf(s)} \in SUBSET S
            /\ Cardinality(s) * v = v + Cardinality(s \ {AnyOf(s)}) * v
        BY <1>2, <1>4, <3>2, ProductSolves
      <4> QED BY <3>2, <4>1, <4>2
    <3> QED BY <3>1, <3>2
  <2> QED BY <2>1
<1>7. sum = G(sum)
  <2>1. \E g : g = G(g)
    BY <1>6
  <2> HIDE DEF G
  <2> QED BY <2>1
<1> HIDE DEF sum
<1>8. ASSUME NEW s \in SUBSET S
      PROVE  sum[s] = IF s = {} THEN 0 ELSE v + sum[s \ {AnyOf(s)}]
  <2>1. CASE s = {}
    BY <1>7, <2>1
  <2>2. CASE s # {}
    <3>1. f[AnyOf(s)] * Log(f[AnyOf(s)]) = v
      BY <1>3, <1>5, <2>2
    <3>2. sum[s] = f[AnyOf(s)] * Log(f[AnyOf(s)]) + sum[s \ {AnyOf(s)}]
      BY <1>7, <2>2
    <3> QED BY <2>2, <3>1, <3>2
  <2> QED BY <2>1, <2>2
<1>9. sum[S] = Cardinality(S) * v
  BY <1>2, <1>4, <1>8, OneSolution
<1> QED BY <1>1, <1>2, <1>9 DEF f, v

(* The table of logarithms: it never falls, and the two bounds the verdict *)
(* needs hold in it whatever the number c of occurrences is.               *)
LEMMA LogTable ==
  /\ \A x \in 0 .. 255 : Log(x) \in Nat
  /\ \A x \in 0 .. 254 : Log(x) <= Log(x + 1)
  /\ \A c \in 1 .. 13 : Log(19 * c) - Log(c) > 4300
  /\ \A c \in 1 .. 3 : Log(18 * c) - Log(c) <= 4300
  /\ Log(63) - Log(4) <= 4300
<1>1. \A x \in 0 .. 255 : Log(x) \in Nat
  BY DEF Log, scaled_log2
<1>2. \A x \in 0 .. 254 : Log(x) <= Log(x + 1)
  BY DEF Log, scaled_log2
<1>3. \A c \in 1 .. 13 : Log(19 * c) - Log(c) > 4300
  BY DEF Log, scaled_log2
<1>4. \A c \in 1 .. 3 : Log(18 * c) - Log(c) <= 4300
  BY DEF Log, scaled_log2
<1>5. Log(63) - Log(4) <= 4300
  BY DEF Log, scaled_log2
<1> QED BY <1>1, <1>2, <1>3, <1>4, <1>5

LEMMA LogMonotone ==
  ASSUME NEW x \in 0 .. 255, NEW y \in x .. 255
  PROVE  Log(x) <= Log(y)
<1> DEFINE wrong == {z \in x .. 255 : ~(Log(x) <= Log(z))}
<1>1. ASSUME wrong # {}
      PROVE  FALSE
  <2>1. PICK z \in wrong : \A w \in wrong : z <= w
    <3>1. wrong \subseteq Nat
      OBVIOUS
    <3>2. IsWellFoundedOn(OpToRel(<, Nat), Nat)
      BY NatLessThanWellFounded
    <3> HIDE DEF wrong
    <3>3. PICK z \in wrong : \A w \in wrong : <<w, z>> \notin OpToRel(<, Nat)
      BY <1>1, <3>1, <3>2, WFMin
    <3>4. \A w \in wrong : ~(w < z)
      BY <3>1, <3>3 DEF OpToRel
    <3> QED BY <3>1, <3>4
  <2>2. z # x /\ z - 1 \in x .. 255 /\ z - 1 \in 0 .. 254
    BY LogTable
  <2>3. z - 1 \notin wrong
    BY <2>1
  <2>4. Log(z - 1) <= Log(z)
    BY <2>2, LogTable
  <2>5. Log(x) \in Nat /\ Log(z - 1) \in Nat /\ Log(z) \in Nat
    BY <2>2, LogTable
  <2> QED BY <2>2, <2>3, <2>4, <2>5
<1> QED BY <1>1

LEMMA EntropyOf ==
  ASSUME NEW k \in Nat \ {0}, NEW c \in Nat \ {0}, k * c \in 1 .. 255
  PROVE  Entropy(Uniform(k, c)) =
           IF Log(k * c) > Log(c) THEN Log(k * c) - Log(c) ELSE 0
<1>1. c \in 1 .. 255
  OBVIOUS
<1>2. Log(c) \in Nat
  BY <1>1, LogTable
<1>3. Length(Uniform(k, c)) = k * c
  BY LengthOf
<1>4. compute_entropy(Uniform(k, c)) = (k * c) * Log(c)
  <2>1. \A l \in Nat : k * (c * l) = (k * c) * l
    OBVIOUS
  <2> QED BY <1>2, <2>1, EntropySum
<1>5. \A n \in Nat \ {0}, l \in Nat : (n * l) \div n = l
  OBVIOUS
<1>6. ((k * c) * Log(c)) \div (k * c) = Log(c)
  <2>1. k * c \in Nat \ {0}
    OBVIOUS
  <2> DEFINE n == k * c
  <2> HIDE DEF n
  <2>2. (n * Log(c)) \div n = Log(c)
    BY <1>2, <1>5, <2>1 DEF n
  <2> QED BY <2>2 DEF n
<1> QED BY <1>3, <1>4, <1>6 DEF Entropy

(* From 19 characters on, each as often, the entropy is over the           *)
(* threshold; below, it is not, as long as the name is shorter than 64.    *)
LEMMA HighEntropy ==
  ASSUME NEW k \in Nat, NEW c \in Nat \ {0}, k >= 19, k * c \in 1 .. 255
  PROVE  Entropy(Uniform(k, c)) > ENTROPY_THRESHOLD_SCALED
<1>1. 19 * c <= k * c
  OBVIOUS
<1>2. c \in 1 .. 13 /\ c \in 0 .. 255 /\ 19 * c \in 0 .. 255 /\ k * c \in (19 * c) .. 255
  BY <1>1
<1>3. Log(19 * c) - Log(c) > 4300 /\ Log(19 * c) <= Log(k * c)
  BY <1>2, LogTable, LogMonotone
<1>4. Log(c) \in Nat /\ Log(19 * c) \in Nat /\ Log(k * c) \in Nat
  BY <1>2, LogTable
<1>5. Log(k * c) - Log(c) > 4300 /\ Log(k * c) > Log(c)
  BY <1>3, <1>4
<1> QED BY <1>5, EntropyOf DEF ENTROPY_THRESHOLD_SCALED

LEMMA LowEntropy ==
  ASSUME NEW k \in 1 .. 18, NEW c \in Nat \ {0}, k * c \in 1 .. 63
  PROVE  ~(Entropy(Uniform(k, c)) > ENTROPY_THRESHOLD_SCALED)
<1>1. c \in 0 .. 255 /\ k * c \in 0 .. 255 /\ Log(c) \in Nat /\ Log(k * c) \in Nat
  <2>1. c <= k * c
    OBVIOUS
  <2>2. c \in 0 .. 255 /\ k * c \in 0 .. 255
    BY <2>1
  <2> QED BY <2>2, LogTable
<1>2. Log(k * c) - Log(c) <= 4300
  <2>1. CASE c \in 1 .. 3
    <3>1. 18 * c \in (k * c) .. 255 /\ 18 * c \in 0 .. 255
      BY <2>1
    <3>2. Log(k * c) <= Log(18 * c) /\ Log(18 * c) - Log(c) <= 4300
      BY <1>1, <2>1, <3>1, LogTable, LogMonotone
    <3>3. Log(18 * c) \in Nat
      BY <3>1, LogTable
    <3> QED BY <1>1, <3>2, <3>3
  <2>2. CASE c >= 4
    <3>1. /\ 63 \in (k * c) .. 255 /\ c \in 4 .. 255
          /\ 4 \in 0 .. 255 /\ 63 \in 0 .. 255
      BY <1>1, <2>2
    <3>2. Log(k * c) <= Log(63) /\ Log(4) <= Log(c) /\ Log(63) - Log(4) <= 4300
      BY <1>1, <3>1, LogTable, LogMonotone
    <3>3. Log(63) \in Nat /\ Log(4) \in Nat
      BY <3>1, LogTable
    <3> QED BY <1>1, <3>2, <3>3
  <2> QED BY <2>1, <2>2
<1>3. Entropy(Uniform(k, c)) =
        IF Log(k * c) > Log(c) THEN Log(k * c) - Log(c) ELSE 0
  BY EntropyOf
<1> QED BY <1>1, <1>2, <1>3 DEF ENTROPY_THRESHOLD_SCALED

LEMMA VerdictStep ==
  ASSUME SwitchTypeOK, VerdictIsRight, [RenameNext]_renameVars
  PROVE  VerdictIsRight'
<1>1. ASSUME NEW watched \in BOOLEAN, NEW extension \in {"listed", "other"},
             NEW k \in 1 .. MaxLength, NEW c \in 1 .. (MaxLength \div k),
             PathRename(watched, extension, k, c)
      PROVE  VerdictIsRight'
  <2>1. k * c \in 1 .. 255 /\ k \in Nat \ {0} /\ c \in Nat \ {0}
    <3>1. MaxLength \in Nat /\ MaxLength <= 255 /\ k \in Nat \ {0}
      BY NameAssumption
    <3>2. \A n \in Nat, d \in Nat \ {0} : d * (n \div d) <= n /\ n \div d \in Nat
      OBVIOUS
    <3>3. MaxLength \div k \in Nat /\ k * (MaxLength \div k) <= 255
      BY <3>1, <3>2
    <3>4. \A a \in Nat, b \in Nat, e \in Nat : a <= b => e * a <= e * b
      OBVIOUS
    <3>5. k * c <= k * (MaxLength \div k) /\ c \in Nat \ {0}
      BY <3>1, <3>3, <3>4
    <3> QED BY <3>1, <3>3, <3>5
  <2>2. /\ call' = [on |-> state, watched |-> watched, extension |-> extension,
                    k |-> k, c |-> c]
        /\ verdict' = IF state /\ Denied(watched, extension, Uniform(k, c))
                        THEN "denied" ELSE "allowed"
    BY <1>1 DEF PathRename
  <2>3. Length(Uniform(k, c)) = k * c
    BY <2>1, LengthOf
  <2>4. k >= 19 => Entropy(Uniform(k, c)) > ENTROPY_THRESHOLD_SCALED
    BY <2>1, HighEntropy
  <2>5. k < 19 /\ k * c < 64
          => ~(Entropy(Uniform(k, c)) > ENTROPY_THRESHOLD_SCALED)
    BY <2>1, LowEntropy
  <2>6. Denied(watched, extension, Uniform(k, c)) <=>
          (/\ watched /\ k * c >= 8 /\ extension = "other"
           /\ Entropy(Uniform(k, c)) > ENTROPY_THRESHOLD_SCALED)
    BY <2>3 DEF Denied
  <2> HIDE DEF Denied, Entropy, Uniform
  <2> QED BY <2>1, <2>2, <2>4, <2>5, <2>6 DEF VerdictIsRight, SwitchTypeOK
<1>2. CASE Return
  BY <1>2 DEF Return, VerdictIsRight
<1>3. CASE UNCHANGED renameVars
  BY <1>3 DEF renameVars, VerdictIsRight
<1> QED BY <1>1, <1>2, <1>3 DEF RenameNext

(* The integer entropy of rename_entropy against its threshold, for every  *)
(* bound on the length of a name up to NAME_MAX: of the names that are     *)
(* judged all with 19 letters and more are denied, and others only from    *)
(* 64 characters on.                                                       *)
THEOREM VerdictsAreRight == Spec => []VerdictIsRight
<1>1. Init => VerdictIsRight
  BY DEF Init, InitRename, VerdictIsRight
<1>2. GuardsInv /\ VerdictIsRight /\ [Next]_guardsVars => VerdictIsRight'
  <2> SUFFICES ASSUME GuardsInv, VerdictIsRight, [Next]_guardsVars
               PROVE  VerdictIsRight'
    OBVIOUS
  <2>1. [RenameNext]_renameVars
    BY DEF Next, guardsVars
  <2> QED BY <2>1, VerdictStep DEF GuardsInv
<1> QED BY <1>1, <1>2, GuardsInvariant, PTL DEF Spec
=============================================================================
