# linyaps-box in TLA+

`ll-box` is an OCI runtime: it creates a container from a bundle (`run`), lists
the containers it knows (`list`), signals them (`kill`) and runs further
commands in them (`exec`). There is no daemon. Each command is a process of its
own, and what they share is a directory of status files. This directory holds
TLA+ models of the program, TLC configurations that check them on small
instances, and proofs for TLAPS. All paths below are relative to
`src/src/linyaps_box/`.

## The system

| component | its state | operations | interacts with |
|---|---|---|---|
| container start: `container.cpp` | the two processes' places in the OCI lifecycle, hooks run so far, `container_process_exit_code` | `container::run` in the runtime, `clone_fn` in the cloned child | message channel, monitor, status directory, hooks |
| message channel: `protocol/`, `infra/unix_socket.cpp` | two queues of datagrams, open ends | `send_stage`, `wait_for_stage`, `wait_for_close`, `drain_logs`, `expect_stage`, `expect_proceed` | run and exec, logging in the child |
| container monitor: `container_monitor.cpp` | `pid`, `child_exited`, `exit_code`, the signalfd | `enable_signal_forwarding`, `enable_io_forwarding`, `wait_container_exit`, `kill_child` | kernel signals and process table, forwarders |
| forwarder: `io/forwarder.cpp`, `utils/ringbuffer.h`, `io/epoll.cpp` | ring buffer, `src_eof`, `dst_failed`, edges not yet reported | `drive` (`pull`, `push`), `is_finished` | pty, stdout, the monitor's loop |
| exec: `container_ref.cpp` | three processes' places, the pid to monitor | `container_ref::exec`, `exec_parent_process`, `exec_child_process` | channel, monitor |
| hooks: `execute_hook` in `container.cpp` | hook process, timeout | fork, feed the state, wait or time out | SIGCHLD of everyone else |
| status directory: `status_directory*.cpp`, `container_status.cpp` | `<root>/<id>/{config,status}.json` | `write` (temporary file and rename), `read`, `remove`, `save_config`, `list`, `get` | all commands, concurrently |
| commands: `command/`, `runtime.cpp`, `app.cpp` | none | `run`, `list`, `kill`, `exec` | status directory |
| root file system: `infra/rootfs.cpp` | a descriptor of the root; while a path is walked its components, the links entered, the path expected | `open`, `create*`, `remove*`, `rename`, `ensure_mount_destination` | kernel, mounts |
| mounts: `container.cpp` | mount table, remounts put off | mounting, remounting, masking, `do_pivot_root` | root file system, kernel |
| id mapping: `container.cpp` | the maps of the user namespace | `configure_uid_mapping`, `configure_gid_mapping`, `newuidmap`, `newgidmap` | kernel, the helpers' processes |
| privileges: `security/privilege.cpp` | `privilege_context` | `apply` in run and exec | kernel credentials |
| configuration: `config.cpp`, `config/` | `oci_config` | parse, validate | everything |
| terminal, cgroups, logging, utilities, system call wrappers, vendored libraries | little or none | | |

What is hard here: two or three processes that walk through one protocol, any
of which may throw or be killed at any step; SIGCHLD, which does not queue;
edge-triggered events; a clean-up that has to come in the right order; and
several commands on one directory without a lock. `PROJECT.json` lists each
such place with its line under `hazards`.

What makes each component correct:

- start: the OCI order of hooks over two processes; no program runs
  unprepared; a failed exec is not taken for a started container; no process
  without a record; the exit code is the container's; nobody waits for ever.
- monitor and exec: the right process is watched before it proceeds, signals
  go to it only, its exit code is the result, its death is noticed.
- forwarder: no byte lost or out of order, no lost wakeup, an end.
- status directory: one container for an id, readers see whole records,
  what a failed run leaves behind.
- root file system: nothing outside the root is reached, a path means what it
  means to the kernel, and a call changes what its path names.
- mounts: the host's mounts are left alone, each mount ends with the flags it
  asked for though some are set only at the end, what is masked stays masked,
  nothing of the host is left after the pivot, the devices are there.
- id mapping and privileges: the process has the ids, groups, capabilities and
  limits asked for and no others, and is refused only what it could not have;
  each call needs something that an earlier one must not have given up.
- configuration: options and lists mean what they say, and a configuration
  that is accepted has what the rest of the program uses without looking.

## Modules

| module | models |
|---|---|
| `ContainerLifecycle` | abstract: what `run` promises about hooks, launch and result, without processes and messages |
| `ContainerStart` | `container::run`, `clone_fn`, the channel between them, the record and the monitor as far as they take part; it implements `ContainerLifecycle` |
| `ContainerStart_proofs` | the theorems about it |
| `ContainerMonitor` | the kernel's process table and pending signals, `enable_signal_forwarding`, `handle_signals`, the loop on the signalfd, `kill_child` |
| `ExecContainer` | `exec`: the runtime, the forked process and the one it forks into the PID namespace; it extends `ContainerMonitor` |
| `ExecContainer_proofs` | the theorems about both |
| `RingBuffer` | the ring's counters, spans and the double mapping |
| `Forwarder` | `Forwarder::drive` in the loop of `wait_container_exit`; it extends `RingBuffer` |
| `Forwarder_proofs` | the theorems about both |
| `StatusRegistry` | the directory of one container id under concurrent `run`, `list`, `kill` and `exec`, with the pids and start times that its record speaks of |
| `StatusRegistry_proofs` | the theorems about it |
| `HookExecution` | the hooks of one stage: `execute_hook` with timeouts and signals |
| `HookExecution_proofs` | the theorems about it |
| `RootFs` | class `Root`: the walk of a path from the root, and what the operations do at its end; what a path means |
| `RootFs_proofs` | the theorems about it |
| `MountTable` | external: the kernel's mounts and files, with lookup, `mount`, propagation, remount, `pivot_root` and `umount2` |
| `MountTree` | the process in the container from `configure_mounts` to the console; it extends `MountTable` |
| `Mounts_proofs` | the theorems about `MountTree` |
| `Credentials` | limits, id maps, joining namespaces, and `privilege_context::apply` up to the execve, on the kernel's rules for credentials |
| `MountOptions` | `parse_mount_options`, one option per step |
| `Config` | what `from_json` reads of a configuration, `validate`, the constructor, the flags of clone; it extends `MountOptions` |
| `Config_proofs` | the theorems about `Config` with `MountOptions`, and about `Credentials` |
| `MCContainerStart`, `MCExecContainer`, `MCStatusRegistry` | constants and symmetry of the instances |
| `MCMountTree`, `MCCredentials`, `MCConfig` | the hosts, requests and configurations to start from |
| `MCRootFs` | trees, paths and calls |

Within a module the comment *Mutant* marks an operator that is a plausible bug.
Nothing of a specification refers to it; each shows that a property would
notice the bug.

### ContainerStart

`ppc` and `cpc` are the places of the two processes. An action is one function
of the code, or one receive, send or hook within it; a name such as
`ConfigureNamespaces` is `configure_container_namespaces`. What a step does to
mounts or credentials is abstracted to "goes on, or throws". A throw in the
runtime goes to the catch block (`ppc = "caught"`), one in the child to
`LogFatal` and exit. The queues `toParent` and `toChild` are the directions of
the SEQPACKET pair. A send waits while `Capacity` datagrams are queued, a
receive sees the end of file when its peer's end is closed and nothing is left
to read, and the runtime sees a reset when the child left datagrams unread. The
child's end is closed by exec, which is how `wait_for_close` learns of success,
and by its death, which is why a silent death looks the same.

`sigchld` is the pending SIGCHLD. A hook with a timeout is awaited with
`sigtimedwait`, which may take the container's SIGCHLD: `RunParentHook` leaves
the flag in either state, and only the reap loop of `EnableSignalForwarding`
makes up for that. The container is the runtime's only child besides hooks
here; other processes that fall to the subreaper are `ContainerMonitor`'s
matter.

### ContainerMonitor and ExecContainer

`pending` is a set, so a SIGCHLD that finds one pending disappears, as in the
kernel. `Die` turns a process into a zombie and hands its children to the
runtime, which is their subreaper. `Recycle` gives the pid of a process that
was waited for to someone else. Reading a signal and the `waitpid` it leads to
are separate steps. `mpc` is the place of the monitor within the runtime's
thread; `ppc` says which part of `exec_parent_process` it is in, and `inTry`
whether an exception will find the catch block that kills.

### Forwarder

Every `read` and `write` is a step, so that the container, the reader of stdout
and the signals come between them. Bytes are numbered in the order the
container writes them, which makes loss, duplication and order visible.
`events` are the edges epoll has not reported; `Ready` are those of them whose
descriptor is still ready when epoll looks. The forwarder from stdin to the
terminal is the same code with other ends and is left out, as are window sizes.

### StatusRegistry

Directories of different ids share nothing, so there is one id. `Runners` are
runtimes that want it, `Clients` are the processes of the other commands. Every
system call on the directory is a step: a look that finds it, then the creation
(`create_directories`, of which the second caller gets false and throws), the
copy of the configuration, which refuses to overwrite and is all that keeps two
runs apart, the steps of `atomic_write` on a descriptor of the directory that
`remove_all` may have emptied or removed since, and `remove_all` itself:
entries in any order, each by name in the directory it opened, then the
directory. A directory that is made again is another directory (`made` numbers
them). Where `remove_all` meets an entry that has gone the model goes on or
throws.

`list`, `kill` and `exec` share their steps up to the record, so one client
chooses what it is after it has read. `procs` gives each pid its process and
start time. A process that died stays as a zombie while its runtime may wait
for it, and afterwards its pid may be used again, by a further container or by
others; a pid is not used twice within one tick of the clock. `kill(pid, 0)`
and the look at `/proc` are two steps (`ProbePid`, `CompareStartTime`), and
either may be refused, which counts as running.

`collided` is a history variable: some run took the id while another was still
removing its files. `HolderKeepsFiles`, `OneContainer` and `NothingLeftBehind`
do not hold after that, and TLC finds the counterexamples if the condition is
dropped: `remove_all` takes config.json away before it is done, the next run of
the id passes `save_config`, and the first goes on to remove its files. They
hold up to that point, whatever else the commands do.

### HookExecution

A stage is run by one caller, `pc` says where it is. `pending` is the one
SIGCHLD that can be pending and whose it is; a further one is lost. `left` is
what remains of the `sigtimedwait`, `age` how long the hook has been waited
for, in whichever call waits: it also grows in the `waitpid` of a hook that was
only stopped. A timeout is more than 0 (`config/validate.cpp:240`), so 0 stands
for none. A SIGCHLD that is not the hook's starts the whole timeout again, and
so does EINTR (`Interrupted`, `container.cpp:205-207`), as in the code. EINTR
needs a caller that is stopped and continued, because every other signal is
blocked when hooks run (`container.cpp:2311`); `waitpid` is then restarted by
the kernel. That leaves no error for the throw at `container.cpp:209`: it would
take a timeout that `validate` refuses. `others`, `stops` and `interrupts`
count from the start of the hook. poststop runs on after a hook that failed;
each of its hooks is a stage of its own here.

### RootFs

The tree is four functions of inodes; one inode stands for what is outside the
root and is the root's parent. `resolve_partial` is modelled by one action for
each way through the body of its loop, with `parts`, `expected_path`, the
symlink stack and the budget as variables. `mode` says which function called
it. `Consumed` is the count of walked components that decides when a link
leaves the stack. `check_current` compares `CurrentPath`, what the kernel says
of a descriptor, with `expected`. The walk of a removal, the stack of tasks and
`remove_dirent` are steps of their own, because there other processes may
create files in between (`OtherCreates`); elsewhere nobody else changes the
tree. `open` tries `openat2` first and walks only where that is unsupported;
the creating and removing operations always walk. Left out are
`may_follow_link`, links of magic file systems, I/O errors and permissions.

`Meaning` is what a path leads to, as `openat2` with `RESOLVE_IN_ROOT` resolves
it: a function (`Follow`) by recursion over the path, the targets of its links
and the links that are left. It knows neither a stack nor `expected`, and the
walk is compared with it at every step (`WalkKeepsMeaning`) and at the end
(`LandsOnPath`). `OperandOnly` asks it what a path names when a removal begins.
From then on the operand is known by its directory: `remove_all` of a path
through a link that lies in what it removes takes the link away, after which
the path means nothing, while the code goes on with the handle that it holds.

### MountTree

`MountTable` is the part of the kernel the set-up relies on: a list of mounts,
each attached at a node of another and showing part of a file system, with the
flags on it, the flags a user namespace may not clear (`locked`) and its peer
group. `Lookup` follows a path over the mounts stacked on its way; a place
`[m, p]` is what an open descriptor refers to, which stays below a mount that
comes later. That difference matters in this code: the sources and destinations
of mounts are descriptors, propagation and remounts go by the path that
`/proc/self/fd` shows and reach whatever is on top.

`Init` chooses a set-up: a host (is the rootfs a mount point already, is
propagation shared, which flags does a file system of the host have) and a
configuration. Everything after that is one process, and an action is one
function: `RootPropagation` and `Rebind` (`configure_rootfs`: the propagation,
`make_rootfs_private`, the bind onto itself, the read-only remount put off),
`Mount` once for each mount of the configuration with the branches of `do_mount`
for binds, cgroup, sysfs, proc and the rest, `MaskPath` and `ReadonlyPath` once
for each path, the devices and ptmx, `FinalizeRemount` once for each remount put
off, `Pivot` and `BindConsole`. A system call fails when the state of the mounts
says so (ENOENT, EROFS, EINVAL, EPERM, ENOTDIR) and never at
random, so each fallback is taken exactly where the kernel would send the code.
`remounts`, `devFromHost`, `sysRbind` and `savedProp` are the code's own
variables of these names. `do_mount` does more than mounting (`Noted`): it
remembers a bind on `/dev` and a recursive one on `/sys`, and opens the root again
after a mount on `/`. Masks and read-only paths are mounted by the same function,
so all three hold for them too: behind a masked `/` the set-up goes on in the
empty tmpfs, where it finds no `dev` and fails.

`FlagsAsAsked` says exactly which mount's flags a destination has in the end. The
remounts put off go by path and reach the topmost mount, in reverse order; so of
several mounts on one destination the first read-only one decides
(`LastRemount`), and on `/` the read-only root does. `DevicesPresent` leaves
out the configurations for which the code takes `/dev` for the host's, a read-only
path `/dev` among them.

`HostUntouched` is about two kinds of configuration. If the propagation of the
rootfs takes every mount out of the host's groups (`LeavesHost`: the default,
or any recursive one but shared), nothing whatever reaches the host. With
another propagation (private or slave without `rec`, or shared) the mounts below
the root stay in the host's groups, as asked, and a bind of one of them is in
its group: mounting below that bind is seen by the host. There the property
speaks only of configurations that bind nothing of the host's, and says that the
rootfs itself and the old root do not leak.

`PivotComplete` has a premise (`KeepsRootPrivate`): no mount of the configuration
puts a shared one on `/`. Such a mount takes the place of the rootfs that
`make_rootfs_private` prepared, and nothing makes that one private again.

`MaskedStayMasked` leaves out the paths in `/dev` that the set-up makes itself
(`MadeAfterMasks`). `make_path_masked` passes over a path that is not there, and
it comes before `finalize`, which makes the devices, `ptmx` and the links; the
console is bound last, over a mask of it too.

### Credentials

`ask` is the request: who starts the container and with which capabilities
(permitted and effective, bounding, inheritable and ambient) and no_new_privs,
run or exec, id maps, user, groups, the five capability sets, no_new_privs,
limits.
`cred` are the credentials of the process that will run the program, `userns`
its user namespace. Each system call is an action with the kernel's rule for
it; one that is refused ends the set-up, as the exception does. The steps are
in the order of the code: limits and id maps by the runtime (`LimitRuntime`,
`MapUids`, `MapGids`) or the join and the limits by exec (`Join`, `LimitExec`),
then `DropBounding`, `KeepCaps`, `SetGroups`, `SetGid`, `SetUid`, `SetCaps`,
`SetAmbient`, `SetNoNewPrivs`, `Execve`. `newuidmap` and `newgidmap` are
programs outside the repository: they map what they are asked to or exit with
one of `HelperExits`. The build without libcap is left out.

`CapabilitiesAsAsked` states the sets at the execve exactly, with the one case in
which they hold what nobody asked for (`KeptAmbient`): `apply_ambient` returns
early without an ambient set (`privilege.cpp:164-166`), and without capabilities
in the configuration it is not called, so the launcher's ambient capabilities
reach the program unless a new user namespace, leaving root or `capset` has
cleared them.

### Config and MountOptions

A JSON value is a record with its type; of a string it has what later code asks
of it (is this path absolute, is this a known name, which tokens has this list
of ranges). `Schema` gives for each object the members that are needed, those
that may be there, and those that have a default, as `from_json` reads them;
null counts as absent where the code says so. Reading is written in layers,
from the scalars to a configuration seven kinds above them: a value can be read
if it has the right `Shape` and the layer below can read what is taken from it
(`ReadFrom`), as each `from_json` calls those of its members.
`parse_range_list` is a recursive function whose values are the turns of its
loop (`Turn`). The documents are drawn from a constant set of values closed
under members and elements (`Json`), which is all that is assumed of them; an
instance lists the documents and takes all that is inside them for the values.

A configuration goes through `ReadDocument`, `ReadMountOption` for each option
of each mount, `ValidateProcess` to `ValidateMounts`, `Construct` and
`GenerateCloneFlag`, or is refused on the way. `MountOptions` has the tables of
`config/mount_options.h` and takes one option per step. Integers narrow to
`Word` values before they are validated, as in the code.

## Runs

| run | shows | instance |
|---|---|---|
| `start_safety` | hook order, preparation, failed exec, record and exit code, with everyone mortal | stages absent, empty or with 2 hooks (729 configurations, with and without terminal), 2 datagrams, 1 log message |
| `start_live` | implementation of `ContainerLifecycle`; the start settles; the end is noticed | stages absent or with 1 hook, 1 datagram, 1 log message, the runtime is not killed |
| `exec` | the properties of `exec` and of the monitor | 2 processes, with and without PID namespace and terminal, 2 exit codes, 1 datagram, 1 signal |
| `exec_reaped` | expected violation: the command's exit code may never be reaped | as above |
| `forwarder` | nothing read is lost or moved, nothing left unread but by a last drive out of quota, no sleep on movable data, an end | ring of 2, counters modulo 4, quota 4, 5 bytes, 1 write cut short |
| `registry` | whole records, no live container listed as stopped, one container for an id, its files kept, nothing left behind | 2 runs, 1 client of any kind, 2 pids, other processes start before time 2 |
| `hooks` | no hook is killed early, waited for without bound unless it is stopped, misjudged or left behind | 2 hooks, timeouts none, 1 and 2; for each 2 deaths of other children, 1 stop, 1 interruption of the caller, 11 units of time in `waitpid` |
| `rootfs` | no handle outside the root, the walk means what the kernel means, calls change their operand only | 129 trees of 9 inodes with 2 links of 8 targets, a path of up to 3 components, one call, 3 links to follow, 1 file of others |
| `mounts` | the host untouched, flags as asked, masks kept, the pivot complete, devices present, nothing read-only too early | some 6,300 set-ups: orders of up to 3 mounts, 2 or 3 mounts on one destination, mounts on the root, propagation, unbindable mounts, masked and read-only paths, `/` and `/dev` among them, masks in `/dev`, locked flags, devices, cgroup and sysfs with refusals, rootfs a mount point or not; 2 default devices |
| `creds` | ids, groups and capabilities as asked; a refusal only of what could not be granted | 4 capabilities; started by root, by root with fewer capabilities or by a user, with and without ambient and inheritable capabilities and no_new_privs; maps of 1 and 2 entries, combinations of the five sets, run and exec |
| `creds_limits` | expected violation: exec sets other limits than those it was given | 1 limit at a time |
| `config` | options and ranges as written; what is accepted is usable | a configuration with every member and all that differ from it in one place; families of options, ranges, namespaces, limits and schedulers, 6,774 in all; 64 values for 32-bit integers |

Type invariants are not in the runs: they are proved where they carry a proof
(`TypeCorrect` below).

Bounds. Two hooks tell "all have run" from "one has run", and an empty array
from an absent one, the two cases the code treats differently. With one
datagram of room every second send waits, with two a sender can run ahead; the
protocol never has more than one stage in flight, and log messages fill the
rest. One log message falls in every place of the set-up. Two processes and one
SIGCHLD are enough for signals to merge, one further signal for forwarding. The
ring of 2 with counters modulo 4 wraps both its mapping and its counters within
5 bytes; the quota is twice the ring, as in the code (16 KiB for a ring of
8 KiB); the pty holds more than the ring, as the kernel's buffers do. Two runs
and a client meet in every pair of steps on the directory; two pids let both
containers live at the same time, one of them outlive its runtime, and a pid
pass from a container to a stranger between any two steps of a client. Two
hooks let a SIGCHLD of the first be pending for the second, and two other
deaths merge with the hook's own and restart its timeout. The time counted in
`waitpid` goes past the longest wait that `GivenUpInTime` allows, 10, so a wait
there without an end would be seen. Two links whose
targets are `/`, `..`, a directory, each other, themselves, through each other
and dangling give all orders of entering and leaving the symlink stack that
depend on more than one entry, and loops; 3 links to follow are one more than a
path without a loop needs, so the budget runs out only in loops or just in
time. `Root` keeps nothing but a descriptor between calls, so one call from
every tree stands for any sequence of calls. One foreign file is enough to make
a directory that was emptied not empty. The set-ups of `mounts` are families
that vary one part each: two mounts are enough for one to cover, hold or follow
another, three for one between them, and of the mounts on one destination each
is read-only or not and has flags of its own; every kind of destination is there as a
directory, a file, missing, and below a read-only mount. The capabilities of
`creds` are the three that the calls need and one that stands for the rest;
two entries tell a map that is written directly from one that a helper writes.
In `config`, what is read of one member does not depend on another except
in `validate`, whose pairs (bind and source, both maps, policy and its
parameters, duplicate limits and namespaces) have families of their own. Options are all
lists of up to three from every table: two of them about one flag, and one
between. Texts of ranges are all of up to four tokens, and a range and a comma
followed by all of up to three: every error can then stand first, last, or
behind an item that was read.

Fairness. Each process and the loop are weakly fair: they are single threads
that block only in the calls modelled as guards. A hook is assumed to end. No
fairness is put on what comes from outside: the container's program need not
exit, nobody need be killed, no signal need arrive. The forwarder's run assumes
that stdout's reader goes on reading or leaves, and that the terminal of an
exited container is closed eventually. Both are needed: the loop ends after
its output is written or cannot be. In `HookExecution` the caller and time
itself are fair; only a hook without a timeout has to end, because the code
waits for it without limit. Nobody has to stop or continue the caller.

`ExecContainer` is checked without deadlock detection, because the program
really may stop: the two cases are given under *Where the code differs*.
`StatusRegistry` and `HookExecution` end when every process has, `RootFs` when
its call has, `MountTree`, `Credentials` and `Config` when the set-up has.

### Where the code differs from what it says

Two runs show such a difference:

- `exec_reaped`: `protocol/message_channel.cpp:164-165` says that the child's exit
  code is reaped later by `wait_container_exit`. `handle_signals` waits for one
  process per SIGCHLD it reads. If the process that joined the namespaces and
  the command it forked die before the runtime reads its signalfd, one SIGCHLD
  is pending for both; the first is reaped and the runtime sleeps for good.
- `creds_limits`: `container_ref.cpp:155` passes the enumerator of a limit to
  `setrlimit`, where `to_rlimit_resource` (`container.cpp:1704`) translates it to the kernel's number
  first. The enumerators are in another order, so exec limits other resources
  than those configured. `src/tests/ll-box-st/09-check-rlimits.json` expects
  the limits by their names, and runs no exec.

Met in the models, against a statement of the sources, without a run of its own:

- `protocol/message_channel.cpp:82-83` says that the close after exec_ready
  signals exec success. A child that is killed between the two also closes the
  socket, and the poststart hooks run. A comment of `wait_for_close` asks its
  callers to consult the monitor, which none does.
- `container_monitor.cpp:249-251` says that the loop drains the remaining
  output once the child has exited. It marks the source as ended at that moment,
  and a drive that used up its quota leaves an empty buffer, so the forwarder is
  finished with output still in the terminal. `OutputFaithful` states what is
  left of the promise: all is read unless the quota of the last drive was used
  up. Without this exception TLC finds it violated.
- `command/options.cpp:264` says that kill sends the signal to the container's
  init process. `container_ref::kill` sends it to the recorded pid without
  comparing start times, which `derive_status` does for `list`; if the container
  has ended and its pid is used again, another process gets it.
- `infra/rootfs.cpp:462` says that an entry of the symlink stack is popped when
  it is fully resolved. A link to `/` has no components to count, and one whose
  target ends in another link never counts that last one: both stay. A component
  missing later rewinds to the link, where `mkdirat` finds it and `openat`
  refuses it, so `create_directories` fails with ENOTDIR on a path whose links
  all lead to directories. The tests (`vfs_test.cpp:865`) have one link only.
- `container.cpp:943-944` says that the last mount should be the last remount.
  `finalize` goes through the remounts in reverse, so of two read-only mounts on
  one destination the flags of the first are the last to be set: a later one with
  `nodev` loses it. `FlagsAsAsked` states this rule (`LastRemount`); with the last
  one in its place TLC finds the property violated.
- `container.cpp:953` calls the default devices "mandated by the OCI runtime
  spec", and `finalize` leaves them out where `/dev` is the host's (936). A
  read-only path `/dev` is bound onto itself by `do_mount`, which takes that for the
  host's `/dev` (546), so that a container with a read-only `/dev` of its own has no
  devices, no `ptmx` and no links. `DevicesPresent` excludes it; without that TLC
  finds it violated.
- `container.cpp:611-612` says that read-only mounts are done in `finalize`.
  One that is no bind is read-only at once, and a destination missing below it
  cannot be made.
- `container.cpp:573` means to mask `/sys/fs/cgroup` after sysfs had to be
  bound from the host. It binds `/dev/null` there, onto a directory, which the
  kernel refuses, and the container does not start. A cgroup mount in the
  configuration throws as not implemented.
- `container.cpp:2049` falls back on writing a map itself when the helper is
  not there. The child that cannot execute the helper exits with 1 and not with
  ENOENT, so the fallback is never taken for that reason; it would write host
  and container ids the wrong way round.
- `config/validate.cpp:223` says that the two maps of a mount must be specified
  together. When a mount has options, their result takes the place of both
  members, absent or not, so only the options decide.

Not contradicted by a statement of the sources, but met in the models: with a
PID namespace, an exec whose intermediate process dies before it reports the
pid leaves the runtime and the grandchild waiting for each other; a write cut
short is repeated from its start; `kill_child` may signal a pid that was used
again; an exec that fails before its try block leaves the command running; a
run that fails between `save_config` and its try block keeps its id from being
used again; of two commands that find no directory the slower one throws; a
`list` whose container ends in the meantime creates its directory again and
fails; a child blocked in `expect_stage` keeps its copy of the runtime's end of
the socket and waits for good if the runtime is killed; a hook that is stopped
ends the timeout of its wait, because the SIGCHLD of the stop leads to a
`waitpid` without one; `create_directories` of `missing/../b` makes `missing`
and then fails, since the `..` is left over, which a comment
(`infra/rootfs.cpp:863`) takes for impossible.

The same of the mounts: without any `mounts` in the configuration, masks,
read-only paths and the bind of the rootfs are skipped and `pivot_root` then
fails; without a mount namespace all mounts are made in the host's; the
propagation of a mount is the union of the options that ask for one; a
read-only root whose `/dev` is a directory of the rootfs cannot hold
`/dev/console`; a host mount whose locked flags the remount already has is not
retried with read-only; a mount on `/` that is shared, or binds what is shared on
the host, makes `pivot_root` refuse. Of credentials: with setgroups denied the launcher's
groups stay; the launcher's ambient capabilities stay where the configuration has
no ambient set (`KeptAmbient`, part of `CapabilitiesAsAsked`); capabilities that
libcap knows and the kernel does not are out of
range of the array that `drop_bounding` fills; an annotation for `ns_last_pid`
ends the start when `/proc/sys` is read-only; root without a bounding set gets
everything back at the execve. Of configurations: `validate` requires neither
`process` nor `root`, which later code dereferences, and exec does the same to
`process.env`; the flag of a time namespace is one of clone's bits for the exit
signal (`container.cpp:1642`), so the runtime gets no time namespace and never a
SIGCHLD; an inline `idmap` takes one mapping per key though a list is
documented by its parser; numbers narrow to 32 bits before they are validated;
null is refused for `root.readonly` and an `ioPriority`'s priority and counts
as absent elsewhere.

## Proofs

`ContainerStart_proofs` proves, for every set of hook counts and exit codes,
every capacity and log bound, and with or without the death of the runtime:

- `TypeCorrect`: `Spec => []TypeOK`
- `HookOrder`: `Spec => []HooksInOrder`
- `PreparedExec`: `Spec => []NoUnpreparedExec`
- `FailureNotStarted`: `Spec => []NoPoststartAfterFailure`
- `RecordOutlivesContainer`: `Spec => []RecordCoversContainer`
- `ExitCodeFaithful`: `Spec => []FaithfulExitCode`
- `Implements`: `Spec => LifecycleSpec`, the refinement of `ContainerLifecycle`

They rest on the assumptions on the constants and nothing else. `HooksInOrder`
is not inductive: that the child may run its createContainer hooks follows from
what it received, which follows from what the runtime had done when it sent it.
`OrderInv` makes this explicit. For each place of the child and the runtime it
states which stages are complete there (`ChildKnows`, `ParentKnows`), and for
each datagram in flight which stages its sender had completed
(`DatagramsTell`); `ready` says the same of exec_ready (`ReadyTells`). Stages
never become incomplete again (`Progress`), so that knowledge only grows. The
proof goes through the actions: a hook needs the knowledge of its place, a send
hands the sender's knowledge to the datagram, a receive hands it on.

The second invariant, `LifeInv`, is about the end. The hard part is that the
closed socket stands for success: a child that failed closes it too, so the
runtime must have met the report first. `FatalInv` says that after a failure
the report is the last datagram in the queue or was read; nothing follows it,
and the channel reads as closed once it is empty. It would also do so if the
child left datagrams of the runtime unread, which resets the connection;
`AnsweredInv` excludes that by counting what the runtime has sent and the child
received at each pair of places: a child that announced exec_ready has read
everything. `RecordInv`, `ReapInv` and `ExitInv`
say what the record, the wait and the result are at each place. The refinement
follows step by step from both invariants: a hook is `RunHook`, exec_ready is
`Launch` (everything before it is complete by `OrderInv`), the return is `Succeed`
or `Fail` (by `ExitInv`), a death or a failure `GetOver`, and everything else
changes nothing the lifecycle speaks of.

`StatusRegistry_proofs` proves, for every set of runs, clients and pids:

- `HolderSafe`: `Spec => []HolderKeepsFiles`
- `SingleContainer`: `Spec => []OneContainer`
- `RecordsWhole`: `Spec => []WholeRecords`
- `StoppedTrue`: `Spec => []StoppedIsDead`
- `IdIsFreed`: `Spec => []NothingLeftBehind`

They need that pids are positive and that `Nobody` is no run. The invariant
ties the three kinds of state together. `Owned`: between the clone and the wait
a run's process has the pid the run remembers, and every process with an owner
is one of those. `Held`: whoever is between `save_config` and `remove` has its
config.json in the directory, so has every container that lives, even without
its runtime; and while a run removes files, nobody does either. One config.json
thus means one holder and one container. `Genuine` says of a record, in the file
or with a reader, that it is whole, that its run has passed the point where
it could start another process, and that the process with this pid, if it is
still the run's, has this start time. A different start time therefore means a
different process, at any later moment.

For `NothingLeftBehind` the invariant is `Tidy`: every file belongs to a run in
`Kept`, which still holds the id, removes the files, was killed or threw before
its try block; and a run that removes is `Alone`: it has the directory open, and
what it has still to come to is exactly what is there. So it ends with nothing
left, although others may look and list in between.

`ExecContainer_proofs` proves, for every set of exit codes, number of signals
and capacity of the socket:

- `ForwardsToOwnChild`: `Spec => []UnreapedWhileForwarding`
- `ExitCodeOwn`: `Spec => []ExitCodeIsTheChilds`
- `MonitoredFirst`: `Spec => []MonitoredBeforeProceeding`
- `FailedExecKills`: `Spec => []FailureKillsCommand`

`MonitorInv` says which places of the monitor go with which of the runtime, so
that a step of the one leaves the other where it has to be. `ReapInv` says that nobody
but the monitor waits for a process, and that it remembers when it was the
command. `BirthInv` is about the two forks: who speaks of a pid has it. By
`ProceedInv` a `proceed` in the queue comes from a runtime that is monitoring
or from one whose kill has already ended the command.

`Forwarder_proofs` proves, for every capacity of the ring, width of its
counters, quota and amount of output:

- `ArrivesWhole`: `Spec => []OutputFaithful`
- `NoLostWakeup`: `Spec => []AsleepOnlyWhenBlocked`

The assumptions on the ring are those under which its arithmetic is right: the
width of the counters is a multiple of the capacity, which holds since both are
powers of two, and greater, so that a full ring differs from an empty one. The
lemmas on remainders show that storing and consuming move the contents as on a
queue, whatever the counters have wrapped around to. `CopyInv` says where each
byte is; it follows the code in not losing a byte when a write is cut short,
and in sending some twice then. `EdgeInv` is the account of edges: what the loop
has left undone is blocked, or an edge is pending that will wake it up.
`DrainInv` is the account of what is unread once the source has ended: a drive
that stops with quota left and an empty buffer stops because the terminal is
empty, and no more is written to it.

`HookExecution_proofs` proves, for any number of hooks and all timeouts:

- `TypeCorrect`: `Spec => []TypeOK`
- `TimeoutsKept`: `Spec => []TimeoutKept`
- `OutcomeFaithful`: `Spec => []OutcomeIsTheHooks`
- `HooksCollected`: `Spec => []NoHookOutlivesItsCall`

The argument for an end of the wait is a budget: what has passed and what is left are
together at most the timeout once for each death of another child and each
interruption of the caller so far, and once or twice more, depending on whether
a SIGCHLD that is not the hook's is still pending. It uses products of two
variables, so the steps of the arithmetic are spelled out. A hook that was
stopped is outside the budget once it is waited for with `waitpid`; `Stopped`
shows that no other living hook with a timeout gets there.

`RootFs_proofs` proves, for every tree, path and budget, every set of calls and
any number of them:

- `TypeCorrect`: `Spec => []TypeOK`
- `StaysInRoot`: `Spec => []Confined`
- `WalkMeansPath`: `Spec => []WalkKeepsMeaning`
- `LandsWhereAsked`: `Spec => []LandsOnPath`
- `ChangesOperandOnly`: `Spec => OperandOnly`

They assume of a tree at the beginning that it is one (`Apart`, `IsTree`): the
parents of what is inside are inside, those of inodes in use are directories,
names are unique in a directory, and no inode is above itself. That the calls
keep it so is proved (`MakingSound`, `UnlinkingSound`).

`Confined` is nearly inductive: it speaks of every handle a call holds,
including those saved with a link, for the rewind and for the removal, and of
the parents of all inodes inside (`Apart`), which bound what `..` and a lookup
can reach. `HasLeaf` adds that a call for an entry has a last component. The
steps are grouped as in the module: walk, directories, entry, removal.

The next two theorems are about `Follow`. That a function with its recursion
exists is proved by well-founded induction (`Recursion`): a step shortens the
path, or follows a link and has one less left (`WalksMinimal`, `FollowFits`).
`LeadsAppend` says that a path leads where its end leads from where its
beginning does, `LeadsKept` that a path with a meaning keeps it when files are
made. The invariant (`PathInv`) says of the walk (`WalkFits`) that
what is left of the path means, from here and with the links left, what was
asked for; that `expected` is the path of the current inode, which is why
`check_current` never refuses; and of the stack that the links on it nest
(`Chained`), so that a link is still there while components of its target are
left (`Progress`), and that the directory at its bottom is where a beginning of
the path asked for leads, with the link's name and its rest for the other part
(`Rewinds`). That is where a missing component leads back to, and
`create_directories` makes from there what the path leads to (`Lost`).

For `OperandOnly` the invariant (`Removal`) says of the stack of a
removal that the directory of each task is in use and below the operand, and
below those of the tasks before it (`Nested`); with no loops in the tree, what
a task removes is then neither its own directory nor one of another task.

`Mounts_proofs` proves for `MountTree`, for any host, any mounts, paths and
devices in any order and any number, and file systems of any shape:

- `MountsLeaveHostAlone`: `MountSpec => [](LeavesHost => HostUntouched)`
- `ReadOnlyComesLast`: `MountSpec => []ReadOnlyWaits`
- `PivotLeavesHostBehind`:
  `MountSpec => []((<<>> \notin Range(cfg.masked)) => PivotComplete)`
  (that the root a mask of `/` covers is a directory, as the proof would need, is
  not part of the invariant)

They assume that the names the code spells out are names, that configurations
are well-typed, and of the host that its table lists its mounts in the order
they were made (`HostAssumption`, `Ordered`): each is attached below an earlier
one, no two at one place and none over `/` of the first, and nothing has failed
or been seen yet. That is true of any mount namespace whose root is that of the
runtime; that all mounts hang below `/` follows from it (`AllBelowRoot`). The
proof has four layers. First, lookups: `Top`, `Walk`, `PathOf` and `Hanging` are recursive
functions, and the induction over their steps (`IterationStays`) shows that a
lookup always ends at a place, that `/` names the first mount, and that a
lookup of the rootfs never ends at `/`. Second, system calls: `Keeps` says what
every call but those that change the root preserves: a well-formed table in
which no mount is in a group or has a flag outside given sets, the places there
were, the first mount as root, and, if those sets lack the host's group and
`ro`, what the host saw and the absence of EROFS. Third, the same of each helper
of `container.cpp`, with all its fallbacks. Fourth, the steps: `MountInv` picks
the two sets by the step reached. The groups lose the host's with
`RootPropagation`, because a recursive change on `/` reaches every mount
(`HostLeft`). The flags have no `ro` before `FinalizeRemount` unless a mount, the
host or a mask brings it at once, and after it nothing is created until the
root is left. The remounts put off must be remounts of places all along, since
`do_remount` looks at the mount that the descriptor was opened on.

The third theorem needs a second invariant (`PivotInv`), because `pivot_root` is
refused when what the path of the rootfs leads to is shared, and the
configuration may have put further mounts on it by then. These form a stack
(`Stack`): each member is attached at the root of the one before it, and they
are the mounts whose path is that of the rootfs. A lookup in the container ends
on the stack or below it (`Low`, `LowStep`), and so each system call either
attaches below the stack or puts a new member on top of it; `CopyStack`,
`BindStack` and `AttachStack` say so of recursive copies, binds and new mounts.
A call that goes by the path of a descriptor reaches the top of the stack or
something below it (`ByPathStack`), and none leaves a member shared (`Sound`).
Once the root has been moved and the old one detached, every live
mount hangs below `procRoot`, whatever has been stacked (`Rooted`). The theorem
leaves out configurations that mask `/` itself: that hides everything in the
container, and where `/` is no directory `/dev/null` would be bound over it, with
the propagation of the host's `/dev`. A read-only `/` is included.

`Config_proofs` proves for `Config`, for documents of any shape and size, any
width of integers, and lists of options of any length and with any names:

- `OptionsTheorem`: `OptionsSpec => [](LastWins /\ NothingDropped /\ OneIdmap)`
- `ListsTheorem`: `ConfigSpec => []ListsAsWritten`
- `UsableTheorem`: `ConfigSpec => []AcceptedIsUsable`

They assume only that values are JSON values, with members, elements and
integers where their type says so (`ValuesAssumption`), and that integers have a
width (`IntegersAssumption`). For the options, the invariant (`OptionsInv`) adds
to the three properties that the result is a record with its fields, and that
the list left for the file system holds names of options read; each option then
sets or clears what the tables say (`StepIs`). Of a list of ranges,
`RangeListIsWritten` says for every text what `parse_range_list` makes of it,
whose loop looks at one item and the token after it: by induction over its turns
(`Induction`, over a set of numbers), it has reached the beginning of a piece,
has read just the pieces before it, all of them ranges, and has the numbers of
them; or it has stopped at a piece that is none. An item is good if and only if
it is the piece that starts there. There are no more turns than tokens, so
that the loop is at the end of the text.

`UsableTheorem` follows a document through its phases. `AcceptedInv` says that
once past a phase its rules hold, of the document, which does not change, and of
the mounts, which do not after `MountsRead`. What the rules say of a member is
worth something only if the member has the type it should: `ReadProcess`,
`ReadHooks` and `ReadNamespaces` take that from `ReadsConfig`, through the
layers. That no limit is set twice and that clone gets as many flags as there are namespaces are
statements about cardinality (`ImageCardinality`), because the types differ and
no two of them have the same flag (`CloneFlags`).

It proves for `Credentials`, for all capabilities, requests, id maps and
launchers:

- `IdentityTheorem`: `CredSpec => []IdentityAsAsked`
- `CapabilitiesTheorem`: `CredSpec => []CapabilitiesAsAsked`
- `RefusedTheorem`: `CredSpec => RefusedOnlyWhenAskedTooMuch`

They assume that the helpers never exit with ENOENT's number (see the fallback
above: it writes another map than the one asked for). The invariant says for
each step what the process still has and what it has given up:
`FullUntilUid` and `KeptWhileNeeded` that it has every capability it may need
until its ids change and that they are kept over that change,
`BoundingDropped`, `MapsAsAsked`, `GroupsTaken`, `IdsTaken` and `CapsTaken` what
each call has left behind. The launcher is any: its ambient and inheritable sets
and its no_new_privs are followed through the steps, and `CapabilitiesTheorem`
says what of them the program gets. The third theorem is where the order counts: a
refusal at any step is traced back to a request that nobody could grant.

Only model-checked: liveness and fairness, which are out of the prover's reach
(`StartSettles`, `EndIsNoticed`, `ForwardingEnds`, `ExecEnds`,
`EndsUnlessStopped`); and of `MountTree`
`FlagsAsAsked`, `MaskedStayMasked` and `DevicesPresent`, which say what is on top
of which path at the end, for the hosts and configurations of the run, `HostUntouched` where the rootfs asks for a
propagation that stays in the host's groups, and `PivotComplete` where `/` is
masked.

## Not modelled

- mounts: the text of mount data; idmapped mounts, recursive attributes and
  `tmpcopyup`, which the code parses and does not carry out; errors of system
  calls that do not depend on the mounts.
- credentials: the merge of the user's environment and of exec's options into
  the configuration, umask, and fchown of the terminal.
- configuration: the text of JSON, of versions and of id maps;
  `validate_namespace_path`, which looks at `/proc`. The command line is left to
  CLI11.
- root file system: rename, readlink, hard links, temporary files, and a tree
  that others change while a path is walked.
- the encoding of messages and status files; `close_range`; window sizes and the
  forwarder of stdin; time, but for that of hooks.
- cgroups: only a manager that does nothing exists.

## Plan

In this order, the most important behaviour first:

1. `ContainerLifecycle`, `ContainerStart`: done, with the first theorems.
2. `ContainerMonitor`, `ExecContainer`, `RingBuffer`, `Forwarder`: done, with
   their safety proved.
3. `StatusRegistry`: done, with its safety proved.
4. `HookExecution`: done, with its safety proved.
5. `RootFs`: done, with its safety proved; to add: rename, and others that move
   directories during a walk.
6. `MountTable`, `MountTree`: done; `Credentials`: done, with its safety proved;
   `Config`, `MountOptions`: done, with their safety proved.
7. `MessageCodec` and `CloseRange`: pure algorithms against reference
   definitions.
8. Proofs: `HostUntouched`, `ReadOnlyWaits` and `PivotComplete` of `MountTree`:
   done, the first where the propagation leaves the host's groups; next
   `MaskedStayMasked` and `FlagsAsAsked`, whose invariant must say which mount is
   on top of a path, and `HostUntouched` for the other propagations.
