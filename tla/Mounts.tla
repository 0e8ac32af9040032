-------------------------------- MODULE Mounts --------------------------------
(***************************************************************************)
(* mount_secure: a removable medium must be mounted nosuid, nodev and      *)
(* noexec.  A mount is judged by the name of its device and by its place   *)
(* when it is made, attached, bound elsewhere or remounted.  One mount of  *)
(* a removable medium is followed, from before the daemon boots on: of a   *)
(* mount and the copy of it that a bind makes, either.  Alerts are left    *)
(* out.                                                                    *)
(***************************************************************************)
EXTENDS ModuleSwitch

CONSTANT Unmounted

VARIABLES
  mnt,  \* the mount
  fd    \* a detached mount that fsmount or open_tree made

mountVars == <<mnt, fd>>

(* Places by who finds them sensitive: "media" are found both by their     *)
(* path and by the names of the directories, "below" lies behind another   *)
(* mount or more than 32 levels deep, where the walk does not see the      *)
(* name, "alike" has a directory named media inside a path that begins     *)
(* differently.                                                            *)
Places    == {"media", "below", "alike", "plain"}
Sensitive == {"media", "below"}

(* /dev/sd*, /dev/mmc*, a label or a path.                                 *)
Devices == {"sd", "mmc", "other"}

(* How many of nosuid, nodev and noexec are set.                           *)
Flags  == {"none", "some", "all"}
Secure == {"all"}

(* judged: the hook of this boot was in force when the mount got its flags *)
(* and its place; gap: what it could not know then.                        *)
Mount(dev, place, flags, judged, gap) ==
  [dev |-> dev, place |-> place, flags |-> flags, judged |-> judged, gap |-> gap]

InitMounts ==
  /\ mnt \in {Unmounted} \cup
       {Mount(d, p, f, FALSE, {}) : d \in Devices, p \in Places, f \in Flags}
  /\ fd = Unmounted
-----------------------------------------------------------------------------
(* is_removable_device: of the name 7 characters and a NUL are read, as    *)
(* many as /dev/sd has; /dev/mmc has one more.                             *)
PrefixSize == 8
PatternLength == [sd |-> 7, mmc |-> 8]
is_removable_device(dev) ==
  dev \in DOMAIN PatternLength /\ PatternLength[dev] < PrefixSize

is_sensitive_path(place)     == place \in {"media", "below"}
fallback_dentry_check(place) == place \in {"media", "alike"}

(* evaluate_secure_mount: the walk is tried when there is no path.         *)
evaluate_secure_mount(dev, place, resolved) ==
  \/ is_removable_device(dev)
  \/ IF resolved THEN is_sensitive_path(place) ELSE fallback_dentry_check(place)

AllowsAnyFlag(flags, dev, place, resolved) ==  \* mutant: one flag is enough
  state /\ flags = "none" => ~evaluate_secure_mount(dev, place, resolved)

(* The hooks, with their fast path.                                        *)
Allows(flags, dev, place, resolved) ==
  state /\ flags \notin Secure => ~evaluate_secure_mount(dev, place, resolved)

Hidden(place, resolved) ==
  IF place = "below" /\ ~resolved THEN {"hidden"} ELSE {}
-----------------------------------------------------------------------------
(* mount(2) of a device: sb_mount, in which bpf_d_path may fail.           *)
SbMountNew(dev, place, flags, resolved) ==
  /\ mnt = Unmounted
  /\ Allows(flags, dev, place, resolved)
  /\ mnt' = Mount(dev, place, flags, Judges,
                  Hidden(place, resolved))
  /\ UNCHANGED <<switchVars, fd>>

(* mount(2) with MS_BIND: the source is named by its path, and the flags   *)
(* of the call are not those of the copy.                                  *)
Bind(place, flags, resolved) ==
  /\ mnt # Unmounted /\ place # mnt.place
  /\ Allows(flags, "other", place, resolved)
  /\ mnt' = [mnt EXCEPT !.place = place, !.judged = @ /\ Judges,
               !.gap = (@ \ {"hidden", "ignored"}) \cup Hidden(place, resolved)
                         \cup (IF flags \in Secure THEN {"ignored"} ELSE {})]
  /\ UNCHANGED <<switchVars, fd>>

(* mount(2) with MS_REMOUNT: the path is the root of the mount, whose only *)
(* name the walk finds is a slash, and the device is what the caller says. *)
Remount(dev, flags, resolved) ==
  /\ mnt # Unmounted /\ flags # mnt.flags
  /\ Allows(flags, dev, IF resolved THEN mnt.place ELSE "plain", resolved)
  /\ mnt' = [mnt EXCEPT !.flags = flags, !.judged = Judges,
               !.gap = (IF resolved THEN {} ELSE {"hidden"})
                         \cup (IF dev = mnt.dev THEN {} ELSE {"renamed"})]
  /\ UNCHANGED <<switchVars, fd>>

(* mount_setattr: no hook.                                                 *)
SetAttr(flags) ==
  /\ mnt # Unmounted /\ flags # mnt.flags
  /\ mnt' = [mnt EXCEPT !.flags = flags, !.judged = FALSE]
  /\ UNCHANGED <<switchVars, fd>>

(* fsopen and fsmount, or open_tree of a mount: nothing is attached yet.   *)
Fsmount(dev, flags) ==
  /\ fd = Unmounted
  /\ fd' = [dev |-> dev, flags |-> flags]
  /\ UNCHANGED <<switchVars, mnt>>

OpenTree ==
  /\ fd = Unmounted /\ mnt # Unmounted
  /\ fd' = [dev |-> mnt.dev, flags |-> mnt.flags]
  /\ UNCHANGED <<switchVars, mnt>>

(* move_mount attaches it, and is judged by the mount's own flags.  No     *)
(* path is available.                                                      *)
MoveMount(place) ==
  /\ fd # Unmounted
  /\ Allows(fd.flags, fd.dev, place, FALSE)
  /\ mnt' = Mount(fd.dev, place, fd.flags, Judges,
                  Hidden(place, FALSE))
  /\ fd' = Unmounted
  /\ UNCHANGED switchVars

Umount ==
  /\ mnt # Unmounted /\ mnt' = Unmounted
  /\ UNCHANGED <<switchVars, fd>>

(* What is mounted when the daemon boots or leaves is not looked at.       *)
MountBoot ==
  /\ (\E enabled \in BOOLEAN : WriteFlag(enabled)) \/ InitModule \/ Crash
  /\ mnt' = IF mnt = Unmounted THEN mnt ELSE [mnt EXCEPT !.judged = FALSE]
  /\ UNCHANGED fd

MountNext ==
  \/ \E flags \in Flags :
       \/ SetAttr(flags)
       \/ \E place \in Places, resolved \in BOOLEAN :
            \/ Bind(place, flags, resolved)
            \/ \E dev \in Devices : SbMountNew(dev, place, flags, resolved)
       \/ \E dev \in Devices :
            \/ Fsmount(dev, flags)
            \/ \E resolved \in BOOLEAN : Remount(dev, flags, resolved)
  \/ \E place \in Places : MoveMount(place)
  \/ OpenTree \/ Umount \/ MountBoot
  \/ SetModuleState /\ UNCHANGED mountVars

MountSpec ==
  InitSwitch("mount_secure") /\ InitMounts /\ [][MountNext]_<<switchVars, mountVars>>
-----------------------------------------------------------------------------
(* A medium that the hooks of this boot let pass without all three flags   *)
(* is no /dev/sd*, unless a remount named another device, and lies at no   *)
(* sensitive place, unless the place was hidden from the walk or a bind    *)
(* asked for flags that it does not set.                                   *)
MediaIsSecured ==
  mnt # Unmounted /\ mnt.judged /\ mnt.flags \notin Secure =>
    /\ mnt.dev = "sd" => "renamed" \in mnt.gap
    /\ mnt.place \in Sensitive => mnt.gap \cap {"hidden", "ignored"} # {}
=============================================================================
