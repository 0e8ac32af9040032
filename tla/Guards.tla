-------------------------------- MODULE Guards --------------------------------
(***************************************************************************)
(* The modules that judge single calls in the kernel, side by side.  Each  *)
(* has its own hooks, flag and maps and none reads another's, so that a    *)
(* behaviour follows one of them and the state of the others is at rest.   *)
(***************************************************************************)
EXTENDS TaskGuards, Namespaces, Mounts, EntropyVerdict

guardsVars == <<taskVars, spaceVars, mountVars, renameVars>>

Init ==
  /\ \E m \in TaskModules \cup {"userns_restrict", "mount_secure",
                               "rename_entropy"} : InitSwitch(m)
  /\ InitTasks /\ InitSpaces /\ InitMounts /\ InitRename
  /\ module \in TaskModules \/ (Live = {} /\ leads = Home)
  /\ module = "userns_restrict" \/ ~audit
  /\ module = "mount_secure" \/ mnt = Unmounted

Next ==
  \/ /\ module \in TaskModules /\ TaskNext
     /\ UNCHANGED <<spaceVars, mountVars, renameVars>>
  \/ /\ module = "userns_restrict" /\ SpaceNext
     /\ UNCHANGED <<indexVars, guardVars, mountVars, renameVars>>
  \/ /\ module = "mount_secure" /\ MountNext
     /\ UNCHANGED <<indexVars, guardVars, spaceVars, renameVars>>
  \/ /\ module = "rename_entropy" /\ RenameNext
     /\ UNCHANGED <<indexVars, guardVars, spaceVars, mountVars>>

Spec == Init /\ [][Next]_guardsVars
-----------------------------------------------------------------------------
TypeOK ==
  /\ SwitchTypeOK /\ IndexTypeOK
  /\ \A t \in Live : task[t].uid \in Uids /\ task[t].exe \in Inodes
  /\ held.owner \in Live \cup {Nobody} /\ held.victim \in Live \cup {Nobody}
  /\ mounting = Idle \/ mounting.by \in Present
=============================================================================
