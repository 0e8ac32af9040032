# Bouclier Bleu: TLA+ models, checks and proofs

Bouclier Bleu is an endpoint guard for Linux. Ten eBPF modules (C, `bpf/`)
judge system calls in the kernel and report what they blocked through ring
buffers; a Rust daemon (`core/`, `modules/`) loads them, fills their maps,
consumes the reports and takes commands from a small CLI (`cli/`) over a Unix
socket. This directory holds TLA+ models of the parts where several threads,
tasks or hooks work on shared state, TLC configurations that check them on
small instances, and TLAPS proofs of their main invariants.

## Inventory

| Part | State | Operations | What is hard |
|---|---|---|---|
| IPC thread (`core/src/ipc`) | the connection being served, the backlog | accept, check credentials, parse, `try_send`, wait for the reply | one thread for all clients; a full channel; a reply timeout that races the actor |
| Daemon actor (`core/src/actor.rs`) | command channel, current message, drain budget, the two flags of each module | `recv_timeout`, bounded drain, `handle_command`, `toggle_module`, `rb.poll` | two flags written in two steps; abandoned messages; panics |
| Telemetry (`core/src/telemetry.rs`, `macros.rs`, `module_core.h`) | a ring per module | reserve and submit in a hook, poll, `process_event` | a record outlives the flag it was written under; a full ring |
| Tainted pipes (`bpf/io_restrict.bpf.c`) | `pipe_taint_map` | splice, write, pipe_release | addresses and inode numbers are reused; hooks of several tasks; a full map; toggles |
| Crash lockbox (`bpf/dump_restrict.bpf.c`) | a queue of tokens, the indexed helper | observer, helper start, dump to a file | producer and consumer are different tasks, matched only by order |
| Directory watchlist (`vfs_helpers.h`, `fs_utils.rs`) | `protected_dirs`, an LRU map | sizing, boot walk, mkdir and rename exit hooks | the walk races the hooks; subtrees move; entries are evicted |
| Rename entropy (`rename_entropy.*`) | strike tracker, scratch buffers | entropy verdict, strikes, eradication of a process tree | time windows, recycled PIDs, fixed-point arithmetic |
| madvise rate limit | a counter and a window per user | count, reset, kill | plain and atomic writes of several CPUs |
| Execution (`bpf/exec_block.bpf.c`) | the directory watchlist | `bprm_check` by the parent directory, by seals for nameless files | the map changes while programs start |
| Guards by program and user (`ptrace_block`, `shield`, `strict_wx`, `io_uring` and `vmsplice` of `io_restrict`) | maps of inode numbers, filled at boot from paths or extended attributes | one verdict when something is acquired | files are replaced and inode numbers reused; what was granted outlives fork, exec, toggles and the daemon |
| Namespaces (`bpf/userns_restrict.bpf.c`) | none of its own; loginuid and parents of tasks | create, capability, mount | ancestry changes before the call; a mount passes two hooks |
| Removable media (`bpf/mount_secure.bpf.c`) | none of its own; the mounts | `sb_mount`, `move_mount` | a mount is shown to the hooks in parts, by several calls and two APIs |
| Boot (`main.rs`, `config.rs`, `bpf_manager.rs`, `ipc/setup.rs`, systemd unit) | loaded modules, umask, socket | load, initialise, bind, exit, restart | partial failures that are only logged |
| SIEM sink (`modules/src/common/telemetry.rs`) | the file that is opened once | check the directory, open, fall back, write | the choice is made once per process |

The parts meet in three places: the channel between the IPC thread and the
actor, the `state_map` flag that the actor writes and every hook reads, and the
rings that the hooks fill and the actor empties.

## Modules

* `ControlPlane` is the IPC thread, the actor, the channel between them and the
  clients. Its variables keep the names of the code: `channel` is the
  `sync_channel`, `reply` the one-shot reply channels, `state_map` and
  `is_active` the kernel and the userland flag, `active_skeletons` the modules
  that were loaded. One action per step at which another thread can interleave:
  `Dispatch`, `DispatchFull` and `DispatchDisconnected` are the three results
  of `try_send`, `AwaitAnswered` and `AwaitTimeout` those of the wait;
  `toggle_module` is `SetModuleState` (or `SetModuleStateFails`) and then
  `ToggleUser`. A panic of a handler (`IpcPanic`) ends the IPC thread, one of
  the actor (`Panic`) unwinds it while the IPC thread lives on until `Exit`.
* `Switchboard` is what the control plane promises: clients ask, a request is
  submitted at most once, applied at most once, in the order of submission, and
  answered truthfully. `ControlPlane` implements it by mapping its flags,
  requests and history onto the board (`Board`).
* `Telemetry` composes hooks and rings with `ControlPlane`: it extends it and
  replaces its abstract `Poll` by the ring-by-ring consumption.
* `PipeTaint` is the taint tracker. It extends `OpaqueId`, the code's identifier
  function, for words of any size: the modulus, the shift, the two factors and
  XOR itself are parameters, and `WordAssumption` names what is used of them.
  Pipes whose pointer and inode number have the same XOR are `Twins`. The hook of
  a splice is a probe at the call's entry, which can signal and not refuse: the
  call runs on (`SpliceEnds`), and by then its descriptor may lead to another
  pipe than the one the hook looked up (`SpliceLookup`) and marked (`SpliceMark`).
* `CrashLockbox` is `dump_restrict`: the hooks on dump files, on `prctl`, the
  observer, the queue, the helper's start, and the `core_pattern` that is
  resolved only once.
* `Watchlist` is the LRU map with the boot walk, the exit hooks and the tree
  they watch. The walk goes by names: `walkdir` opens a directory (`WalkOpen`),
  its key is taken by its path (`WalkVisit`), and what was opened is listed
  (`WalkList`). `ListedAt` and `KeyAt` say where a path may lead once one of its
  components was replaced, by another directory or by a symbolic link.
* `MadviseLimiter` is the rate limit: the hook on several CPUs, one step for each
  access to the user's tracker, with time stamps subtracted as unsigned numbers.
* `StrikeTracker` is the userland half of `rename_entropy`: alerts, the strike
  window of each parent (`STRIKE_TRACKER`), the poisoned lock, and
  `neutralize_threat_tree` as `Snapshot`, `KillChild`, `KillParent`, between
  which processes fork, exit, are adopted and get a used id.
* `EntropyVerdict` is its kernel half: the fixed-point entropy with the table of
  the code, on names whose characters are equally frequent, where the true
  entropy is known exactly.
* `ExecBlock` extends `Watchlist` by the execution verdict, so that programs
  start while the walk and the exit hooks are at work.
* `ModuleSwitch` is what every guard has: its flag, its boot (`WriteFlag`, then
  `InitModule`), toggles and the end of the daemon. `InodeIndex` adds the map of
  inode numbers with the two ways of filling it, and the files that are replaced
  or flagged behind it. `TaskGuards` adds tasks and the hooks of `ptrace_block`,
  `shield`, `strict_wx`, `io_uring_setup` and `vmsplice`; `held` is one thing
  that a hook granted, followed until it is given up, through forks that copy
  descriptors and mappings; a ring whose creator was killed for it may stay with
  a task that has the same descriptor table (`LeaveRing`). `Namespaces` is
  `userns_restrict`, `Mounts` is `mount_secure`. `Guards` puts these and
  `EntropyVerdict` side by side: they share nothing, so a behaviour follows one.
* `Lifecycle` is the process as a whole: `main()` step by step, with the failures
  that end it (`Exit`) and those that are only logged (`Fault` without an exit),
  the configuration file, the socket's directory, the SIEM sink, and the service
  manager. It instantiates `ControlPlane`: `HandsOver` says that a boot ends in
  an initial state of that module.
* `AlertLayout` is the contract between the C structs of the ten alerts and the
  parsers that read them: the offsets C gives the fields, and a `BpfReader` that
  advances by what the parser believes.
* `MC*` give the constants their values for TLC; `*Proofs` hold the theorems.

Definitions whose header says `mutant` are faulty variants of the definition
that follows. They are not part of the model: replacing a definition by its
variant makes TLC report the property that guards against that fault.

## Runs

| Run | Shows |
|---|---|
| `control_safety` | `StateSync`, `LastAckGoverns`, `BacklogIsAbandoned`, `ToggleIsRequested` and the refinement `ImplementsSwitchboard`, for three clients, a channel of two slots and a drain of one. |
| `control_live` | `EveryClientServed` although the actor may stall for ever, and `EveryCommandSettled` while it runs. |
| `telemetry_flow` | A record is dropped only if its module was switched off while it was on its way (`DropsAreExcused`); every record is consumed while the engine lives (`RecordsConsumed`). |
| `pipe_safety` | `NoWrongKill` and `TaintIsComplete` with twins among the pipes, and `OnlyTwinsCollide`: where the XOR of pointer and inode number keeps pipes apart, the mix keeps them apart. |
| `madvise_safety` | `SpamIsNoticed`, `CountIsExact` and `NoUndeservedKill` for hooks on three CPUs. |
| `crash_safety` | `LeaksAreAccounted`, `TokensConsumedOnce`, `DumpsExplained` for four crashes and a queue of two. |
| `watchlist_safety` | `CoverageExplained`, `OverreachExplained` for inodes that are created, moved, removed and reused, and the action property `RunsExplained` about the programs that start meanwhile. |
| `rename_safety` | `EradicationJustified`, `SpreeIsEradicated`, `NoWorkerEscapes` and `NoBystander` while processes fork, exit, are adopted and take over pids. |
| `guards_safety` | `IndexIsCurrent`, `SecretsStaySecret`, `CoreIsShielded`, `RingsAreAuthorised`, `NoWritableCode`, `AncestryHolds`, `ContainedMounts`, `MediaIsSecured`, `VerdictIsRight`, each with boots, crashes and toggles around the hooks. |
| `lifecycle_safety` | `HandsOver`, `ConfigGoverns`, `OnlyPrivatePaths`, and the liveness properties `Recovers` and `LossOfControlEnds`, with any two failures and any two edits. |
| `lifecycle_sized` | Violation: `io_restrict_map_size` in the configuration leaves every module off. |
| `alert_layout` | Violation: the parser of `io_restrict` reads its fields four bytes too early; the other nine mirror their structs. |

Each violation run checks what a comment of the code says against what the code
does; the `findings` of `PROJECT.json` quote the lines.

### Bounds

Clients send one request each, so three clients give every order of three
requests, with the first abandoned, the second queued behind it and the third
refused by the full channel: `ChannelCap = 2` instead of 128 makes that happen.
`DrainMax = 1` instead of 10 makes a batch end with messages left. The safety
run knows one module that may or may not be loaded; the liveness run adds a name
that is in no registry. In `Telemetry` two tasks compete for a ring with room
for one record, so it overflows, and two root clients toggle the module under
them; requests that change no flag are left to `ControlPlane`. In `PipeTaint`
two tasks, two addresses and three inode numbers are enough for a reuse under the
eyes of a splice and for pipes that are twins, and others that are not; a word
has four bits and is shifted by three, more than half as in the code, with the
last bits of the code's factors; `TaintCap = 1` fills the map; two files per pipe let an end
be closed and opened again. Four crashes with a queue of two fill it and still leave two helpers to
take the wrong tokens. In `Watchlist` two free inodes make a subtree that can
be moved in or out, a directory created below one whose own hook has not run
(`MaxHooks = 2`), and, with `MaxDepth = 2`, paths with a component before the
last that is replaced under the walk; `MinCapacity = 2` makes an eviction happen.
A directory that is too deep would need a third inode and is left to the
theorem. In `MadviseLimiter` a threshold of two, a window of one tick and a clock
of three let windows expire twice and hooks meet at every step; `MaxCount` keeps
new calls away only while the counter is already two past the threshold. In
`StrikeTracker` a window of one tick, a prune age of three and a clock of four
let windows expire and entries be pruned; three forks over two pids reuse an
id; the ring of one alert overflows. `EntropyVerdict` takes every `k` and `c`
with `k * c <= 80`, past the 64 from which the table is wrong and long enough for
names on both sides of the threshold (the theorem covers the lengths up to 255). In `Guards` two tasks are a tracer and its
victim, a parent and its child; two paths, one indexed, and three inodes let a
file be replaced by one with a used number; `MaxEdits = 2` allows a toggle or a
crash and a change of a file, or a replacement and its undoing. In `Lifecycle` two modules let one fail beside the other; two
faults let a boot fail after a crash, or a flag and the socket in one boot; two
edits prepare a path and change the file between two boots. `AlertLayout` has
the code's own sizes. Symmetry is used in safety runs only, over clients, tasks,
crashes, inodes of the watchlist, CPUs and pids, which are interchangeable in every definition.
Deadlock is not checked: all these systems may stop, after the last request or
call of the instance, or when all tasks have ended.

### Fairness

`FairSpec` assumes weak fairness of the IPC thread: it is an operating-system
thread whose waits all have timeouts. Nothing is assumed of clients, and nothing
of the actor: `EveryCommandSettled` states the fairness of the actor's thread as
its own premise, because a stalled engine is the case `EveryClientServed` is
about. `TFairSpec` assumes that the actor runs, that a poll which is due again
and again is at some time not interrupted before it starts (strong fairness of
`PollStart`; `rb.poll` may return early on a signal), and that a hook that has
matched finishes: it runs with preemption or migration disabled. `FairSpec` of
`Lifecycle` assumes that the main thread runs and that systemd starts a service
that failed (`Restart=on-failure`, `RestartSec=5`); its failures are finitely
many, so `Recovers` speaks of failures that pass.

## Proofs

TLAPS proves, for every value of the constants that satisfies the named
assumptions:

* `ControlPlaneProofs`: `TypeCorrect`, `FlagsStaySynchronised`,
  `BacklogAbandoned`, `AcknowledgedTogglesGovern`, `TogglesAreRequested` and
  `Refinement` (`ControlPlane` implements `Switchboard`). The properties are not
  inductive alone. The inductive invariant adds that the channel holds each
  client once and in the order of tickets, that exactly the clients of the
  channel and the current one are `queued` (so nothing is executed twice), that tickets are
  distinct and at most `sent`, that a reply exists only for an executed
  request, and that an answer of the actor is the one its execution produced.
  Each action has its own lemma. The module also covers `Telemetry`:
  `TelemetryIsControlled` says that the system with hooks and rings implements
  `ControlPlane`, so all of the above holds of it; `NoAlertIsLost` is
  `DropsAreExcused`. Its invariant (`TelemetryInv`) says that a ring
  holds each alert of its module once and nothing else, and that an alert which a
  hook has matched or queued is excused or awaited: the userland flag is up, or
  the toggle that raised the kernel's flag is about to raise it. It needs one
  fact more of the control plane: a flag that the boot failed to write is down
  (`UnsyncedDown`).
* `PipeTaintProofs`: `IdentifiersAreFaithful`, `KillsAreJustified` and
  `TrackingIsComplete`. First the finaliser is shown injective for words of any
  size: a shift by more than half of the word, XORed in, is undone by doing it
  again, and a factor with an inverse is cancelled by it; `CodeFactors` exhibits
  the inverses of the code's two 64-bit factors. So identifiers agree exactly
  for twins, and the other two theorems need no hypothesis about them. Their
  invariant relates every entry of the map to live twins one of which a splice of
  read-only data was called on (`targeted`), or to an identifier known to be
  stale; every pipe with such data that is not on record as `untracked` to an
  entry of the map; and what a call stored and nobody evicted yet (`cover`) to
  that entry until the data arrives.
* `CrashLockboxProofs`: `LeaksAccounted`, that is
  `Cardinality(leaked) <= Cardinality(Swapped)` for any number of crashes,
  `TokensOnce` and `DumpsAreExplained`. The invariant counts: pushed tokens are
  in the queue or were popped, each popped token by one blocked helper; and an
  unprivileged crash on its way to its helper was pushed or is excused.
* `GuardsProofs`, for any number of tasks, files and inodes. `MediaSecured` is
  inductive with the types. `AncestryKept` and `MountsContained` need that a
  user's task still has the user's loginuid or is excused, and that a mount
  between its two hooks belongs to a task in a namespace. `IndexStaysCurrent`
  needs that paths have no inode in common (`IndexAssumption` excludes hard
  links). `SecretsKept`, `CoreShielded`, `RingsAuthorised` and
  `CodeIsNotWritable` rest on one argument: the hook compares with the map, the
  map agrees with what it is meant to hold but for `unseen` files, and whatever
  happens to files afterwards only adds to `unseen` (`Drift`), while exec, exit
  and boots end what was judged. A fork gives the child a descriptor with the
  same file, victim and acquirer, or the tracer a victim with the same
  executable, so that nothing the four promises speak of changes. A ring that
  outlives its creator is treated the other way round: the creator was killed,
  so its program was not in the map. Each specification (`TaskSpec`, `SpaceSpec`,
  `MountSpec`) is the part of `Guards` that its modules are; `GuardsTyped` and
  `GuardsKeepPromises` put the invariants together for `Spec`, the specification
  that the run checks. `VerdictsAreRight` is `VerdictIsRight` for every length up
  to NAME_MAX, where the run stops at 80. Length and entropy are folds over the
  letters of a name; of `k` letters that occur `c` times each they come to
  `k * c` and `k * (c * Log(c))`. So the entropy is `Log(k * c) - Log(c)`, and
  what is left are facts about the table: it never falls, it is more than 4300
  apart between `c` and `19 * c`, and not between `c` and `18 * c` below 64.
* `MadviseLimiterProofs`: `TypeCorrect` and `NoSpinnerEscapes`, for any number of
  CPUs, any window and threshold. The two properties are inductive together:
  whoever adds reads afterwards, and only a hook that found the tracker adds.
  `CounterIsExact` and `KillsAreDeserved` need `CountInv`: unless an overlap is on
  record, whoever reopens the window is alone, all of `log` belongs to the
  window, and so do the hooks that are about to add to it; then the counter is
  the length of the log.
* `WatchlistProofs`: `WalkAndHooksLeaveNoGap`, `NothingElseIndexed` and, for
  `ExecBlock`, `ExecutionsExplained`, for any number of inodes, any depth and any
  capacity. The tree is treated first: in a forest the ancestors of a directory
  are the one solution of the equation by which `Lineage` is defined, and the
  lemmas say what creating, moving and removing a directory do to them. The
  inductive invariant (`WatchInv`) says of every watched directory that is neither indexed,
  excused nor in the hands of its hook that the walk is still to come to it: a
  path the walk has found or opened leads, by ancestors of the directory and
  with no replaced step, to it or above it, and what was opened is where the path
  leads. Whatever replaces a step has moved or removed a directory, which excuses
  all below it. For `NothingElseIndexed`, a path with no replaced component
  before its last one ends in the watched tree whatever its last name is
  (`KeyIsUnder`).

* `StrikeTrackerProofs`: `OnlyJustifiedEradications` and `SpreesAreEradicated`,
  for every threshold `n` of at least two and every window. A history register
  keeps the times of the last `2n - 2` strikes of a parent. The inductive
  invariant says how the tracker's entry agrees with it: the last `count`
  strikes are those at or after `first`, and the ones before them are out of the
  window of whatever strike comes next. Hence a window that was reset holds
  fewer than `n` strikes, and `2n - 2` within one window length must fill one.
  `WorkersEradicated` is about what follows a strike. Its invariant
  (`FamilyInv`) says that identities are not used again, that until the snapshot
  a worker that lives is a child of the target still or the target has become
  another process, and that after it a living worker is on the list of kills.
  `BystandersAreSpared` is the opposite bound: since numbers of processes only
  grow, whoever takes over a pid of the tree is younger than the last strike
  (`TreeInv`, of the target's children until the snapshot, of the pids on the
  list after it, and of the target all along).

* `LifecycleProofs`: `BootHandsOver` and `ConfigurationGoverns`, for any set of
  modules. The invariant follows each module through the two loops of the boot:
  before the flags are written all are down; a module without a failure is
  waiting or loaded, then waiting or as configured; the two flags of a module
  differ only if the kernel's could not be written. With the proofs of
  `ControlPlane`, which start from the state handed over, the chain reaches from
  the start of the process to its commands. `PathsArePrivate` needs that before
  the actor runs nothing is served, written or masked, and that a directory is
  secured when the socket is bound in it.

The proofs assume of the constants what the modules name: `SwitchAssumption`,
`IndexAssumption` and `TaskAssumption` (tasks, inodes and paths are told apart),
`WordAssumption` (XOR is a group of its own inverses that commutes with the
shift, and the factors are invertible),
`LimiterAssumption` (the clock does not wrap within a behaviour),
`NameAssumption` (NAME_MAX), `ExecAssumption` (a nameless file is no inode of the
tree) and the like; TLC evaluates each in the runs.

Where a fact is about data of any size (the ancestors of a directory, the sum
over the letters of a name, the order of the table) it is not proved by
induction, for which the library's theorems would need an operator as a
parameter, but by a least counterexample: the set of counterexamples is a subset
of a well-founded one, so it has a minimal member, and that member is
impossible. For this `Lineage` and the folds are recursive functions, and no
module with a theorem reaches a `RECURSIVE` operator.

Only model-checked: the liveness properties (`EveryClientServed`,
`EveryCommandSettled`, `RecordsConsumed`, `Recovers`, `LossOfControlEnds`), which
rest on fairness and `ENABLED`, and the two violation runs, which are
counterexamples. Every invariant and action property of a passing run is a
theorem. That the machine's XOR satisfies `WordAssumption` is evaluated by TLC
for words of four bits, since TLAPS cannot reason with the bitwise operators.

## Abstractions

What a message, an alert or a path contains is left out where no property
depends on it. `ControlPlane` starts after boot, with any set of loaded modules
and with flags that may have been left apart by a boot-time write that failed
(`unsynced`). In `PipeTaint` only unprivileged tasks act, since every hook
returns at once for root. A splice is three steps, lookup, mark and the call itself, and
all other hooks are one, because only the splice uses what it looked up after
another hook can have changed it. How a pipe's data leaves it again, and that two
tasks share a pipe, need no state: any task may act on any live pipe.
`Watchlist` has one watched and one other tree; hidden names, several target
paths, `RENAME_EXCHANGE`, renames within a directory and files (but for their being
indexed by the rename hook) are left out; a directory keeps its name when it is
moved, so a path is valid again once all of it is back; the entries of a directory
are read at once, after its key was inserted; an exit hook runs after its directory became visible and
before the kernel lets it be moved or removed again. `MadviseLimiter` follows one
user whose entry is never evicted; a hook that holds a tracker which another
hook's insertion replaced ends there, since it can touch no entry of the map;
creating the tracker is one step.
A tick of `StrikeTracker` is a second, the unit of `start_time`, and the
snapshot of the process table is taken at once. `EntropyVerdict` knows a name by
the frequencies of its characters and the kind of its extension; its hook has
the per-CPU scratch to itself. In `ExecBlock`
a file has one link, and kernels on which seals cannot be read are left out. In
`InodeIndex` all files are on one device, and an update that fails is a fault of
`Lifecycle`. `TaskGuards` follows one granted thing at a time, since none
influences what else is granted; uids and parents are followed for the modules
whose hooks read them; `SecretsStaySecret` speaks of programs that were running
when the hook looked, since a traced task may start any program later. `by` is the uid that acquired
a thing, whoever holds it now; descriptors sent over a socket are left out. In
`Mounts` a place is known by which of the two ways of judging it finds it, and a
move is an `open_tree` and a `move_mount`. `Lifecycle`
knows a path by what the code tests of it; paths are prepared by others only
while the daemon is down, and a toggle there is one step. A boot's `CheckHost`
failure stands for a missing privilege or an inactive LSM.

## What comments say and the models do not show

Beside the violation runs the models contain these cases. Each call of
`pipe_release` deletes the taint, and there is one per open file: closing one end
of a tainted pipe clears it while the pipe lives, although
`io_restrict.bpf.c:519` says the pipe object is being freed (`untracked` in
`TaintIsComplete`). The entry probes of `io_restrict` signal and the call
completes, although the messages of lines 262, 291 and 343 speak of calls that
were intercepted or blocked: a signalled splice still fills its pipe, with no
mark if it was signalled for its flags, and a ring that is set up stays with a
process of the same descriptor table (the causes of `untracked`, and the
exception in `RingsAreAuthorised`). A splice that passes is marked for the pipe
its descriptor led to at the probe, and the kernel reads the descriptor again:
"if data flows from a read-only file into a pipe" (line 352) is decided by the
first reading (`targeted`, `cover`). `get_secure_hardware_key` is said to
neutralise symlink races (`fs_utils.rs:76`), and `O_NOFOLLOW` does so for the
last component of a path; with an earlier one replaced during the walk a
directory outside of the tree is indexed (a cause of its own in
`OverreachExplained`), and `read_dir` follows the last one as well (`ListedAt`).
A program may open its own `/proc/<pid>/mem`, on the list or not, and its children
inherit the handle (`own`, which `SecretsStaySecret` excepts). The watchlist is an LRU map, so an insertion into a full one
succeeds by evicting some other directory and the error branch of
`vfs_helpers.h:124` is not reached (`missed` in `CoverageExplained`). After a
panic under its lock the strike tracker clears its map at every alert, since the
mutex stays poisoned, although `rename_entropy.rs:189` says it recovers: sprees
are not eradicated any more (`poisoned` in `SpreeIsEradicated`).

A malformed configuration enables nothing, although `config.rs:78` says the
default avoids a fail-open state. When the IPC thread is lost or its socket
cannot be set up, the actor logs a fatal error, but `main` returns `Ok`: the
exit status is success, and `Restart=on-failure` does not restart the daemon
(`dead` in `Recovers`). `setup_secure_dir` cannot replace a plain file, since
the first `create` already fails on it. The SIEM fallback is
`/tmp/bouclier_fallback.log`, if it exists, where messages speak of `/dev/null`;
the choice holds until the process ends.

A splice that looked
its pipe up before the release can store the taint after it, and a release is
not seen while the module is off: the next pipe with that identifier is born
tainted, although `io_restrict.bpf.c:546` speaks of a clean slate (`stale` in
`PipeTaint`). A helper may find the queue empty although its crash was an
unprivileged one, because the token went to another helper or was lost by a
full queue, although `dump_restrict.bpf.c:328` takes it for root's (`leaked` in
`CrashLockbox`). The identifier of a pipe is a bijective mix of
`pipe_ptr ^ i_ino`, so two pipes whose XORs agree share it, although
`io_restrict.bpf.c:79` calls it unique (`Twins`, which the run contains and
`NoWrongKill` and `TaintIsComplete` allow for).

A record that reached its ring is dropped if its module is switched off before
it is consumed, although `actor.rs:57` speaks of zero telemetry loss
(`DropsAreExcused` says exactly when). A helper may pop the token of another
crash, although `dump_restrict.bpf.c:60` speaks of a one-to-one matching
(`LeaksAreAccounted` is what remains true). Of a subtree that is moved in only
the root is indexed, although `exec_block.bpf.c:254` speaks of inheritance
(a cause of its own in `CoverageExplained`).

The table of `rename_entropy.bpf.c:85`, "floor(log2(x) * 1024)", is too large
from 64 on (6184 for 6144 there, 8684 for 8186 at 255), so that some names of 64
characters and more are denied below the threshold of 4.2, as 18 characters that
occur four times each (`VerdictIsRight` excepts those lengths). `is_removable_device`
reads seven characters and a NUL, so the test for `/dev/mmc`, eight characters,
never succeeds, although `mount_secure.bpf.c:67` and `docs/MODULES.md:104` count
SD cards in; they are judged by their place alone. On the walk of
`fallback_dentry_check` a place behind another mount has no name, a remount is
judged by the device its caller names, and a bind by flags that it does not set
(`gap` in `MediaIsSecured`). The loginuid is called "irrevocably inherited" in
`userns_restrict.bpf.c:103`; where audit does not make it immutable root can
rewrite it, and without audit a double fork hides the session (`excused` in
`AncestryHolds`). `get_secure_hardware_key` opens a link itself, so the program
behind a listed link is not protected, and a program that is updated loses its
protection, or hands it to the next owner of its inode number, until the daemon
restarts (`unseen` in `IndexIsCurrent`), although `shield.rs:125` speaks of an
immutable tracking. `fs_utils.rs:274` prefers "to crash the daemon" when a map is
full, but `initialize_active_modules` only logs the error (a fault of
`Lifecycle`).

The strike window begins with its first strike and does not slide: three
strikes within two seconds that lie on both sides of its end are not counted
together; four are (`SpreeIsEradicated`). A process that took the pid of the
orchestrator after the snapshot is killed for it, since the `start_time`
compared is the snapshot's, although `rename_entropy.rs:134` says this is
prevented (the third case of `Implicated` in `NoBystander`), and an orchestrator
that started in this very second is spared. Orphans make pid 1 the target of
their strikes; pid 1 ignores the signal, but its other children, the daemon
among them, are killed (`Restart`).

## Not modelled

Left out for good: `xtask/`, `scripts/` and `tests/` (they drive compilers,
shells and virtual machines and keep no state of the program), the code
generation of `build.rs` (only the functions it generates are modelled), the
choice of hook variants by kernel version, log formatting and the sanitising of
strings, and the eviction of users from the map of `madvise_ratelimit`, whose
trackers are independent of each other.

Every item of the plan this project was built along is done: each component of
the inventory but the tooling has its module, and every safety property of a
passing run its proof.
