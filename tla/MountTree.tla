------------------------------ MODULE MountTree ------------------------------
(***************************************************************************)
(* How the process in the container arranges its mounts, from              *)
(* configure_mounts to the console (container.cpp): the rootfs is made     *)
(* private and bound onto itself, the mounts of the configuration are done *)
(* in order with the read-only ones put off, masked and read-only paths    *)
(* and the default devices follow, the remounts put off are done, and      *)
(* pivot_root leaves the host's tree behind.  The kernel's part is in      *)
(* MountTable.  The configuration is chosen in Init; everything after is   *)
(* sequential, and a system call is refused when the state of the mounts   *)
(* says so, not at random.                                                 *)
(***************************************************************************)
EXTENDS MountTable

CONSTANTS
    Setups,     \* the configurations and hosts to start from
    HostKernel(_), \* the mounts and files a set-up starts with
    Devices     \* names of the default devices, in order

HostRoot == [m |-> 1, p |-> <<>>]

(* A mount of a configuration.  Sources are host paths, destinations paths *)
(* in the container; prop is the propagation asked, if any; data says that *)
(* options are left for the file system; symlink is copy-symlink.          *)
Propagations ==
    [kind: {"none", "private", "slave", "shared", "unbindable"}, rec: BOOLEAN]
ConfigMounts ==
    [dest: Paths, source: Paths, type: STRING, flags: SUBSET (Attributes \cup {"bind", "rec"}),
     prop: Propagations, data: BOOLEAN, symlink: BOOLEAN]

ASSUME NamesAssumption ==
    {"r", "sys", "fs", "cgroup", "dev", "null", "ptmx", "fd", "console", "pts", "0"}
        \subseteq Names
ASSUME DevicesAssumption == Devices \in Seq(Names)
ASSUME SetupsAssumption ==
    \A s \in Setups :
        /\ s.config.mounts \in Seq(ConfigMounts)
        /\ s.config.masked \in Seq(Paths) /\ s.config.readonly \in Seq(Paths)
        /\ s.config.rootProp \in Propagations

(* The mounts of the new namespace are those of the host, all below "/".   *)
ASSUME HostAssumption ==
    \A s \in Setups :
        LET host == HostKernel(s)
        IN  /\ KernelOK(host, {"host", "private"}, Attributes)
            /\ host.ms # <<>> /\ Ordered(host.ms)
            /\ ~host.hostSaw /\ host.err = "none"

VARIABLES
    setup,      \* the configuration and the host, fixed
    kern,       \* the mounts of the namespace and the files under them
    rootfd,     \* what mounter's Root refers to
    procRoot,   \* the root directory of the process
    remounts,   \* mounter::remounts, put off until finalize
    devFromHost,\* container::mount_dev_from_host_
    sysRbind,   \* the static is_sys_rbind of do_mount
    savedProp,  \* container::rootfs_propagation_
    pc,         \* the part of the set-up reached
    i           \* position in the list that part works through

mountVars == <<setup, kern, rootfd, procRoot, remounts, devFromHost, sysRbind,
               savedProp, pc, i>>

RootfsPath == <<"r">>
NoProp == [kind |-> "none", rec |-> FALSE]
Private(rec) == [kind |-> "private", rec |-> rec]
cfg == setup.config

-----------------------------------------------------------------------------
(* The helpers of the mounts.                                              *)

Ensure(K, root, path, isDir) ==
    LET found == Lookup(K, root, path)
    IN  IF found.err = "ENOENT"
        THEN Create(K, root, path, IF isDir THEN "dir" ELSE "file")
        ELSE Failed(K, found.err)

EnsureDestination(K, mount, isDir) == Ensure(K, rootfd, mount.dest, isDir)

(* The destination as opened through the root.                             *)
Opened(K, path) == Lookup(K, rootfd, path).at

(* Propagation and remount go by the path the descriptor shows, so they    *)
(* reach whatever is on top there.                                         *)
ByPath(K, at) == Lookup(K, procRoot, PathOf(K.ms, at)).at

DoPropagation(K, at, prop) ==
    IF prop = NoProp THEN K ELSE SetPropagation(K, ByPath(K, at), prop)

RemountAt(K, at, r) ==
    LET had == K.ms[r.fd.m].flags
        kept == had \cap {"nosuid", "nodev", "noexec"}
        plain == Remount(K, at, r.flags)
        keeping == Remount(K, at, r.flags \cup kept)
    IN  IF Fine(plain) THEN plain
        ELSE IF kept \subseteq r.flags THEN Failed(K, "remount")
        ELSE IF Fine(keeping) THEN keeping
        ELSE IF "ro" \in had THEN Remount(K, at, r.flags \cup kept \cup {"ro"})
        ELSE Failed(K, "remount")

DoRemount(K, r) == RemountAt(K, ByPath(K, r.fd), r)

(* do_bind_mount: src is the place of the source.  The flags other than    *)
(* MS_REC are ignored by the first mount(2) of a bind.                     *)
BindOnto(K, src, dst, rec) ==
    IF IsDir(K, src) # IsDir(K, dst) THEN Failed(K, "mismatch") ELSE Bind(K, src, dst, rec)

BindMade(made, mount, src) ==
    IF Fine(made)
    THEN BindOnto(made, src, Opened(made, mount.dest), "rec" \in mount.flags)
    ELSE made

BindAt(K, mount, src) == BindMade(EnsureDestination(K, mount, IsDir(K, src)), mount, src)

DoBindMount(K, mount) ==
    LET src == Lookup(K, procRoot, mount.source)
    IN  IF src.err # "none" THEN Failed(K, src.err) ELSE BindAt(K, mount, src.at)

(* What a new file system of a type shows.                                 *)
NewNodes(type) ==
    [p \in {<<>>} \cup (CASE type = "sysfs" -> {<<"fs">>, <<"fs", "cgroup">>}
                          [] type = "proc" -> {<<"kcore">>, <<"sys">>}
                          [] type = "devpts" -> {<<"ptmx">>, <<"0">>}
                          [] OTHER -> {}) |->
        IF p \in {<<"kcore">>, <<"ptmx">>, <<"0">>} THEN "chr" ELSE "dir"]

Cgroup == <<"sys", "fs", "cgroup">>
HasCgroupMount == \E k \in DOMAIN cfg.mounts : cfg.mounts[k].dest = Cgroup

(* The fallback of a refused sysfs mount: the host's /sys, with            *)
(* /sys/fs/cgroup masked unless the configuration mounts something there.  *)
MaskCgroup(K) ==
    LET cgroup == Lookup(K, rootfd, Cgroup)
    IN  IF HasCgroupMount \/ cgroup.err # "none" THEN K
        ELSE Bind(K, Lookup(K, procRoot, <<"dev", "null">>).at, cgroup.at, FALSE)

BoundSys(K) == IF Fine(K) THEN MaskCgroup(K) ELSE K

BindSys(K, mount) ==
    BoundSys(Bind(K, Lookup(K, procRoot, <<"sys">>).at, Opened(K, mount.dest), TRUE))

MountMade(made, mount) ==
    IF ~Fine(made) THEN made
    ELSE IF mount.type # "sysfs" \/ ~setup.sysfsDenied
    THEN MountNew(made, mount.type, NewNodes(mount.type), Opened(made, mount.dest),
                  mount.flags)
    ELSE IF cfg.userNs THEN BindSys(made, mount) ELSE Failed(made, "EPERM")

MountType(K, mount) == MountMade(EnsureDestination(K, mount, TRUE), mount)

(* do_mount, up to the remount: mount and propagation.  The descriptor of  *)
(* a bind is opened again after the mount, the other is the one from       *)
(* before, under the new mount; sysfs's fallback opens it again as well.   *)
OpenAfter(mount) == "bind" \in mount.flags \/ (mount.type = "sysfs" /\ setup.sysfsDenied)

Propagated(done, mount, fd) ==
    [kern |-> IF Fine(done) THEN DoPropagation(done, fd, mount.prop) ELSE done, fd |-> fd]

Mounted(K, mount, done) ==
    Propagated(done, mount, Opened(IF OpenAfter(mount) THEN done ELSE K, mount.dest))

(* Mutant: only a read-only mount is remounted.                            *)
NeedsRemountReadOnly(mount) == "ro" \in mount.flags

NeedsRemount(mount) ==
    mount.flags \cap {"ro", "bind"} # {} \/ (mount.data /\ mount.type = "proc")

(* Mutant: a read-only mount is remounted at once.                         *)
RemountNow(m, mount) ==
    [kern |-> IF Fine(m.kern) /\ NeedsRemount(mount)
              THEN DoRemount(m.kern, [fd |-> m.fd, flags |-> mount.flags]) ELSE m.kern,
     later |-> <<>>]

(* do_mount's result: the kernel after it, and the remount it puts off.    *)
(* MS_BIND is added to a remount unless the type is proc; it decides what  *)
(* of the mount is changed, and the attributes are the same either way.    *)
RemountOrWait(m, mount) ==
    LET remount == [fd |-> m.fd, flags |-> mount.flags]
    IN  IF ~Fine(m.kern) \/ ~NeedsRemount(mount)
        THEN [kern |-> m.kern, later |-> <<>>]
        ELSE IF "ro" \in mount.flags
        THEN [kern |-> m.kern, later |-> <<remount>>]
        ELSE [kern |-> DoRemount(m.kern, remount), later |-> <<>>]

Finish(K, mount, done) == RemountOrWait(Mounted(K, mount, done), mount)

IsCgroup(mount) == mount.type = "cgroup"
IsBind(mount) == "bind" \in mount.flags

DoMount(K, mount) ==
    IF IsCgroup(mount)
    THEN [kern |-> IF mount.dest = Cgroup /\ sysRbind THEN K
                   ELSE Failed(K, "cgroup mount not implemented"),
          later |-> <<>>]
    ELSE Finish(IF IsBind(mount) THEN K ELSE EnsureDestination(K, mount, TRUE), mount,
                IF IsBind(mount) THEN DoBindMount(K, mount) ELSE MountType(K, mount))

-----------------------------------------------------------------------------
(* The steps.  A step that throws ends the set-up: clone_fn logs and exits.*)

After(K, next) == IF Fine(K) THEN next ELSE "failed"

Only(K) == [kern |-> K, later |-> <<>>]

(* One item of a list: do it, go on to the next, or to the next part.      *)
Advance(list, next) ==
    IF i < Len(list) THEN pc' = pc /\ i' = i + 1 ELSE pc' = next /\ i' = 1

Took(done, list, next) ==
    /\ kern' = done.kern
    /\ remounts' = remounts \o done.later
    /\ IF Fine(done.kern) THEN Advance(list, next) ELSE pc' = "failed" /\ i' = i

ReadyFor(part, list) == pc = part /\ i <= Len(list)

Skip(part, list, next) ==
    /\ pc = part
    /\ i > Len(list)
    /\ pc' = next
    /\ i' = 1
    /\ UNCHANGED <<setup, kern, rootfd, procRoot, remounts, devFromHost, sysRbind,
                   savedProp>>

(* configure_mounts: nothing at all is done for an empty list of mounts.   *)
OpenRoot ==
    /\ pc = "start"
    /\ i' = 1
    /\ IF cfg.mounts = <<>>
       THEN pc' = "pivot" /\ rootfd' = rootfd
       ELSE /\ pc' = IF cfg.mountNs THEN "propagation" ELSE "mounts"
            /\ rootfd' = Lookup(kern, procRoot, RootfsPath).at
    /\ UNCHANGED <<setup, kern, procRoot, remounts, devFromHost, sysRbind, savedProp>>

(* Mutant: the mount above the rootfs keeps its propagation.               *)
KeepRootfsShared(K) == K

(* make_rootfs_private: the nearest directory up from the rootfs that is a *)
(* mount point.                                                            *)
MakeRootfsPrivate(K) ==
    LET at == Walk(K.ms, procRoot, RootfsPath)
        point == CHOOSE n \in 0 .. Len(RootfsPath) :
                    /\ MountRoot(K, at[n])
                    /\ \A k \in n + 1 .. Len(RootfsPath) : ~MountRoot(K, at[k])
    IN  SetPropagation(K, at[point], Private(FALSE))

(* configure_rootfs, first half.                                           *)
RootPropagation ==
    /\ pc = "propagation"
    /\ LET prop == IF cfg.rootProp = NoProp THEN Private(TRUE) ELSE cfg.rootProp
       IN  /\ kern' = MakeRootfsPrivate(DoPropagation(kern, procRoot, prop))
           /\ savedProp' = prop
    /\ pc' = After(kern', "rebind")
    /\ UNCHANGED <<setup, rootfd, procRoot, remounts, devFromHost, sysRbind, i>>

(* configure_rootfs, second half: the rootfs is bound onto itself, and the *)
(* root is opened again to be in the new mount.                            *)
RebindMount ==
    [dest |-> <<>>, source |-> RootfsPath, type |-> "none", flags |-> {"bind", "rec"},
     prop |-> Private(TRUE), data |-> FALSE, symlink |-> FALSE]

Rebind ==
    /\ pc = "rebind"
    /\ kern' = DoMount(kern, RebindMount).kern
    /\ rootfd' = Lookup(kern', procRoot, RootfsPath).at
    /\ remounts' = IF cfg.rootReadonly
                   THEN <<[fd |-> rootfd', flags |-> {"ro", "bind"}]>>
                   ELSE <<>>
    /\ pc' = After(kern', "mounts")
    /\ UNCHANGED <<setup, procRoot, devFromHost, sysRbind, savedProp, i>>

(* mounter::mount of a copy-symlink mount: the link is made in the         *)
(* container; one that is there already must have the same target, which   *)
(* is abstracted to its kind.                                              *)
CopySymlink(K, mount) ==
    LET found == Lookup(K, rootfd, mount.dest)
    IN  CASE found.err = "ENOENT" -> Create(K, rootfd, mount.dest, "link")
          [] found.err = "none" /\ Kind(K, found.at) = "link" -> K
          [] OTHER -> Failed(K, "EEXIST")

(* What do_mount does besides mounting, whoever calls it: it remembers a   *)
(* bind on /dev, and a recursive one on /sys, and opens the root again     *)
(* after a mount on "/".                                                   *)
Reopened(K) == Lookup(K, procRoot, PathOf(K.ms, rootfd)).at

Noted(mount) ==
    /\ sysRbind' = (sysRbind \/ ({"bind", "rec"} \subseteq mount.flags /\ mount.dest = <<"sys">>))
    /\ devFromHost' = (devFromHost \/ (IsBind(mount) /\ mount.dest = <<"dev">>))
    /\ rootfd' = IF mount.dest = <<>> THEN Reopened(kern') ELSE rootfd

NotedIf(mounts, mount) ==
    IF mounts THEN Noted(mount) ELSE UNCHANGED <<sysRbind, devFromHost, rootfd>>

(* mounter::mount for the i-th mount of the configuration.                 *)
Real(mount) == ~mount.symlink /\ ~IsCgroup(mount)

Mount ==
    /\ ReadyFor("mounts", cfg.mounts)
    /\ LET mount == cfg.mounts[i]
       IN  /\ Took(IF mount.symlink THEN Only(CopySymlink(kern, mount))
                   ELSE DoMount(kern, mount), cfg.mounts, "masked")
           /\ NotedIf(Real(mount), mount)
    /\ UNCHANGED <<setup, procRoot, savedProp>>

(* make_path_masked: an empty read-only tmpfs over a directory, /dev/null  *)
(* over anything else; a path that is not there is left out.               *)
MaskMount(path, isDir) ==
    [dest |-> path, source |-> <<"dev", "null">>, type |-> IF isDir THEN "tmpfs" ELSE "none",
     flags |-> IF isDir THEN {"ro"} ELSE {"ro", "bind"}, prop |-> NoProp,
     data |-> isDir, symlink |-> FALSE]

Mask(K, path, found) ==
    CASE found.err = "none" -> DoMount(K, MaskMount(path, IsDir(K, found.at)))
      [] found.err = "ENOENT" -> Only(K)
      [] OTHER -> Only(Failed(K, found.err))

MaskPath ==
    /\ ReadyFor("masked", cfg.masked)
    /\ LET path == cfg.masked[i]
           found == Lookup(kern, rootfd, path)
       IN  /\ Took(Mask(kern, path, found), cfg.masked, "readonly")
           /\ NotedIf(found.err = "none", MaskMount(path, IsDir(kern, found.at)))
    /\ UNCHANGED <<setup, procRoot, savedProp>>

(* Mutant: what is mounted below a read-only path is not bound along.      *)
ReadonlyMountAlone(path, has) ==
    [dest |-> path, source |-> path, type |-> "none", flags |-> {"bind", "ro"} \cup has,
     prop |-> Private(TRUE), data |-> FALSE, symlink |-> FALSE]

(* make_path_readonly: the path is bound onto itself, with what is mounted *)
(* below it and with the flags it has, to be remounted read-only later.    *)
(* For /dev this counts as a bind of the host's.                           *)
ReadonlyMount(path, has) ==
    [dest |-> path, source |-> path, type |-> "none",
     flags |-> {"bind", "ro", "rec"} \cup has, prop |-> Private(TRUE), data |-> FALSE,
     symlink |-> FALSE]

MakeReadonly(K, path, found) ==
    LET mount == ReadonlyMount(path, K.ms[found.at.m].flags)
    IN  CASE found.err = "none" -> Finish(K, mount, BindAt(K, mount, found.at))
          [] found.err = "ENOENT" -> Only(K)
          [] OTHER -> Only(Failed(K, found.err))

ReadonlyPath ==
    /\ ReadyFor("readonly", cfg.readonly)
    /\ LET path == cfg.readonly[i]
           found == Lookup(kern, rootfd, path)
       IN  /\ Took(MakeReadonly(kern, path, found), cfg.readonly, "devices")
           /\ NotedIf(found.err = "none", ReadonlyMount(path, kern.ms[found.at.m].flags))
    /\ UNCHANGED <<setup, procRoot, savedProp>>

(* create_default_devices, one device.  An existing file is kept; where    *)
(* mknod is not permitted the host's device is bound; any other refusal is *)
(* passed over.                                                            *)
DeviceMount(path) ==
    [dest |-> path, source |-> path, type |-> "bind", flags |-> {"bind", "noexec", "nosuid"},
     prop |-> Private(FALSE), data |-> FALSE, symlink |-> FALSE]

(* Mutant: a device that may not be made is passed over, as other refusals *)
(* are, instead of being bound from the host.                              *)
MakeDeviceNoBind(K, path, made) == IF Fine(made) /\ ~cfg.userNs THEN made ELSE K

MakeDevice(K, path, made) ==
    IF made.err = "EPERM" \/ (cfg.userNs /\ Fine(made))
    THEN DoMount(K, DeviceMount(path)).kern
    ELSE IF Fine(made) THEN made ELSE K

CreateDevice(K, name) ==
    LET path == <<"dev", name>>
        dev == Lookup(K, rootfd, <<"dev">>)
        found == Lookup(K, rootfd, path)
    IN  IF dev.err # "none" THEN Failed(K, dev.err)
        ELSE IF found.err = "none" THEN K
        ELSE IF found.err = "ENOENT"
        THEN MakeDevice(K, path, Create(K, rootfd, path, "chr"))
        ELSE Failed(K, found.err)

CreateDevices ==
    /\ ReadyFor("devices", Devices)
    /\ kern' = IF devFromHost THEN kern ELSE CreateDevice(kern, Devices[i])
    /\ IF Fine(kern') THEN Advance(Devices, "ptmx") ELSE pc' = "failed" /\ i' = i
    /\ UNCHANGED <<setup, rootfd, procRoot, remounts, devFromHost, sysRbind, savedProp>>

(* ensure_dev_ptmx.  A "link" is one that leads to pts/ptmx, an "other     *)
(* link" is replaced by way of dev/.ptmx.tmp.                              *)
PtmxPath == <<"dev", "ptmx">>

PtmxMount ==
    [DeviceMount(PtmxPath) EXCEPT !.source = RootfsPath \o <<"dev", "pts", "ptmx">>]

ReplaceLink(K) ==
    LET at == Lookup(K, rootfd, PtmxPath).at
    IN  IF "ro" \in K.ms[at.m].flags THEN Failed(K, "EROFS")
        ELSE [K EXCEPT !.fs[K.ms[at.m].fs].nodes[at.p] = "link"]

Ptmx(K, found) ==
    LET kind == Kind(K, found.at)
    IN  IF found.err = "ENOENT" THEN Create(K, rootfd, PtmxPath, "link")
        ELSE IF found.err # "none" THEN Failed(K, found.err)
        ELSE CASE kind = "file" -> DoMount(K, PtmxMount).kern
               [] kind = "link" -> K
               [] kind = "other link" -> ReplaceLink(K)
               [] OTHER -> Failed(K, "invalid /dev/ptmx type")

EnsurePtmx ==
    /\ pc = "ptmx"
    /\ kern' = IF devFromHost THEN kern ELSE Ptmx(kern, Lookup(kern, rootfd, PtmxPath))
    /\ pc' = After(kern', "symlinks")
    /\ UNCHANGED <<setup, rootfd, procRoot, remounts, devFromHost, sysRbind, savedProp, i>>

(* configure_dev_symlinks, the four links as one.                          *)
DevSymlinks ==
    /\ pc = "symlinks"
    /\ LET made == Create(kern, rootfd, <<"dev", "fd">>, "link")
       IN  kern' = IF devFromHost THEN kern ELSE made
    /\ pc' = After(kern', "finalize")
    /\ i' = 1
    /\ UNCHANGED <<setup, rootfd, procRoot, remounts, devFromHost, sysRbind, savedProp>>

(* finalize: the remounts put off, from the last to the first.             *)
FinalizeRemount ==
    /\ ReadyFor("finalize", remounts)
    /\ kern' = DoRemount(kern, remounts[Len(remounts) + 1 - i])
    /\ IF Fine(kern') THEN Advance(remounts, "pivot") ELSE pc' = "failed" /\ i' = i
    /\ UNCHANGED <<setup, rootfd, procRoot, remounts, devFromHost, sysRbind, savedProp>>

(* Mutant: the old root is detached while it may still be shared.          *)
DetachShared(K, old) == Detach(K, old.m)

(* do_pivot_root.  Without a mount namespace it is a chroot.  The old root *)
(* is made private before it is detached, and the new one gets the         *)
(* propagation back that was chosen for the rootfs; where pivot_root is    *)
(* refused the rootfs is moved over "/" instead, and nothing is detached.  *)
LeaveOldRoot(K, old) ==
    Detach(SetPropagation(K, [m |-> old.m, p |-> K.ms[old.m].base], Private(TRUE)), old.m)

Pivot ==
    /\ pc = "pivot"
    /\ LET new == Lookup(kern, procRoot, RootfsPath).at
           left == LeaveOldRoot(PivotRoot(kern, procRoot, new), procRoot)
           moved == MoveMount(kern, new, procRoot)
       IN  \/ /\ ~cfg.mountNs
              /\ kern' = kern
              /\ procRoot' = new
           \/ /\ cfg.mountNs
              /\ MayPivot(kern, setup.initramfs, new)
              /\ kern' = IF savedProp = NoProp THEN left
                         ELSE SetPropagation(left, new, savedProp)
              /\ procRoot' = new
           \/ /\ cfg.mountNs
              /\ ~MayPivot(kern, setup.initramfs, new)
              /\ kern' = IF MayMove(kern, new) THEN moved ELSE Failed(kern, "pivot_root")
              /\ procRoot' = IF MayMove(kern, new) THEN new ELSE procRoot
    /\ pc' = After(kern', IF cfg.terminal THEN "console" ELSE "mounted")
    /\ UNCHANGED <<setup, rootfd, remounts, devFromHost, sysRbind, savedProp, i>>

(* configure_terminal: the pty's slave is bound over /dev/console, under a *)
(* Root opened at the new "/"; a symbolic link there is removed first.     *)
RemoveLink(K, at) ==
    IF "ro" \in K.ms[at.m].flags THEN Failed(K, "EROFS")
    ELSE [K EXCEPT !.fs[K.ms[at.m].fs].nodes =
            [p \in DOMAIN @ \ {at.p} |-> @[p]]]

ConsolePath == <<"dev", "console">>

ClearConsole(K, console) ==
    IF console.err = "none" /\ Kind(K, console.at) \in {"link", "other link"}
    THEN RemoveLink(K, console.at)
    ELSE IF console.err \in {"none", "ENOENT"} THEN K ELSE Failed(K, console.err)

BindConsoleMade(made, slave) ==
    IF Fine(made)
    THEN BindOnto(made, slave.at, Lookup(made, procRoot, ConsolePath).at, FALSE)
    ELSE made

BindSlave(K, slave) ==
    IF ~Fine(K) THEN K
    ELSE IF slave.err # "none" THEN Failed(K, "no pty")
    ELSE BindConsoleMade(Ensure(K, procRoot, ConsolePath, FALSE), slave)

BindConsole ==
    /\ pc = "console"
    /\ rootfd' = procRoot
    /\ kern' = BindSlave(ClearConsole(kern, Lookup(kern, procRoot, ConsolePath)),
                         Lookup(kern, procRoot, <<"dev", "pts", "0">>))
    /\ pc' = After(kern', "mounted")
    /\ UNCHANGED <<setup, procRoot, remounts, devFromHost, sysRbind, savedProp, i>>

-----------------------------------------------------------------------------
MountInit ==
    /\ setup \in Setups
    /\ kern = HostKernel(setup)
    /\ rootfd = HostRoot
    /\ procRoot = HostRoot
    /\ remounts = <<>>
    /\ devFromHost = FALSE
    /\ sysRbind = FALSE
    /\ savedProp = NoProp
    /\ pc = "start"
    /\ i = 1

MountNext ==
    \/ OpenRoot
    \/ RootPropagation
    \/ Rebind
    \/ Mount
    \/ MaskPath
    \/ Skip("masked", cfg.masked, "readonly")
    \/ ReadonlyPath
    \/ Skip("readonly", cfg.readonly, "devices")
    \/ CreateDevices
    \/ EnsurePtmx
    \/ DevSymlinks
    \/ FinalizeRemount
    \/ Skip("finalize", remounts, "pivot")
    \/ Pivot
    \/ BindConsole

MountSpec == MountInit /\ [][MountNext]_mountVars

-----------------------------------------------------------------------------
(* Where a path of the container leads once the set-up is over.            *)
View(path) == Lookup(kern, procRoot, path)
FlagsAt(path) == kern.ms[View(path).at.m].flags
SetUp == pc = "mounted" /\ cfg.mounts # <<>>

(* Whatever the container mounts, moves or detaches, the host's mounts     *)
(* stay as they are, if the propagation chosen for the rootfs takes all    *)
(* mounts out of the host's groups: what is bound, what is mounted under   *)
(* it, and the old root that is detached all left them first               *)
(* (configure_rootfs and do_pivot_root, container.cpp:696 and 1236).  With *)
(* another propagation at least the rootfs itself and the old root do not  *)
(* leak, as long as nothing of the host's is bound.                        *)
LeavesHost == cfg.rootProp = NoProp \/ (cfg.rootProp.rec /\ cfg.rootProp.kind # "shared")
BindsHost ==
    \/ \E k \in DOMAIN cfg.mounts : IsBind(cfg.mounts[k])
    \/ setup.sysfsDenied /\ \E k \in DOMAIN cfg.mounts : cfg.mounts[k].type = "sysfs"
HostUntouched ==
    cfg.mountNs /\ cfg.mounts # <<>> /\ (LeavesHost \/ ~(BindsHost \/ setup.initramfs))
      => ~kern.hostSaw

(* The mounts of the configuration end with the flags they asked for,      *)
(* though the read-only ones are remounted after all the others and by     *)
(* path: a mount no later one covers, no mask and no read-only path        *)
(* changes, is read-only if and only if it asked, and has every other      *)
(* attribute it asked for; a read-only root is read-only                   *)
(* (mounter::finalize, container.cpp:934).                                 *)
(* Mounts on one destination are an exception.  The remounts are done in   *)
(* reverse and all reach the topmost mount, so that it has the flags of    *)
(* the first read-only one of them, and is read-only even if only another  *)
(* asked; the comment at container.cpp:943 wants the last mount to be the  *)
(* last remount.  On "/" the remount of a read-only root comes after all   *)
(* the others.                                                             *)
Covered(k) ==
    \/ \E j \in DOMAIN cfg.mounts : j > k /\ Under(cfg.mounts[j].dest, cfg.mounts[k].dest)
    \/ \E path \in Range(cfg.masked) \cup Range(cfg.readonly) : Under(path, cfg.mounts[k].dest)
RootRemounted == cfg.rootReadonly /\ cfg.mountNs
PutOff(dest) ==
    {j \in DOMAIN cfg.mounts :
        cfg.mounts[j].dest = dest /\ Real(cfg.mounts[j]) /\ "ro" \in cfg.mounts[j].flags}
LastRemount(k) ==
    LET off == PutOff(cfg.mounts[k].dest)
    IN  IF off = {} THEN k ELSE CHOOSE j \in off : \A l \in off : j <= l
FlagsAsAsked ==
    SetUp =>
      /\ \A k \in DOMAIN cfg.mounts :
           LET dest == cfg.mounts[k].dest
               flags == cfg.mounts[LastRemount(k)].flags
           IN  /\ Real(cfg.mounts[k]) /\ ~Covered(k)
               /\ ~(dest = <<>> /\ RootRemounted)
               => /\ flags \cap Attributes \subseteq FlagsAt(dest)
                  /\ "ro" \in FlagsAt(dest) =>
                       "ro" \in flags \cup kern.ms[View(dest).at.m].locked
      /\ RootRemounted => "ro" \in FlagsAt(<<>>)
      /\ \A path \in Range(cfg.readonly) :
           View(path).err = "none" => "ro" \in FlagsAt(path)

(* A masked path shows nothing when the process starts: /dev/null, or an   *)
(* empty read-only directory.  The read-only paths are bound onto          *)
(* themselves after the masks, and take the masks below them along         *)
(* (make_path_masked and make_path_readonly, container.cpp:869 and 813).   *)
(* Not so the paths in /dev that the set-up itself makes after the masks:  *)
(* a mask leaves out what is not there yet, and the console covers one.    *)
MadeAfterMasks ==
    {<<"dev", d>> : d \in Range(Devices)} \cup {PtmxPath, <<"dev", "fd">>, ConsolePath}
MaskedStayMasked ==
    SetUp =>
      \A path \in Range(cfg.masked) \ MadeAfterMasks :
        View(path).err = "none" =>
          /\ "ro" \in FlagsAt(path)
          /\ LET at == View(path).at
             IN  \/ Kind(kern, at) = "chr" /\ at.p = <<"null">>
                 \/ DOMAIN FileSystem(kern, at).nodes = {<<>>}

(* A mount of the configuration on "/" takes the place of the rootfs that  *)
(* was made private, so it has to be private too: by its own propagation,  *)
(* as a new file system, or as the rootfs bound once more; pivot_root      *)
(* refuses a root that is shared.                                          *)
KeepsRootPrivate(mount) ==
    \/ mount.dest # <<>>
    \/ mount.prop.kind \in {"private", "slave", "unbindable"}
    \/ /\ mount.prop = NoProp
       /\ IF IsBind(mount) THEN mount.source = RootfsPath ELSE mount.type # "sysfs"

(* With a mount namespace and at least one mount, none of which puts a     *)
(* shared mount on "/", the root can be pivoted: whatever propagation is   *)
(* configured for the rootfs and whether or not it was a mount point, it   *)
(* has become a private one under a private parent (make_rootfs_private,   *)
(* container.cpp:664).  And when the process starts, none of the mounts    *)
(* the namespace was made with is left in it: every mount it has was made  *)
(* for the container and is below its root (do_pivot_root,                 *)
(* container.cpp:1236).                                                    *)
PivotComplete ==
    /\ cfg.mountNs /\ cfg.mounts # <<>>
    /\ \A k \in DOMAIN cfg.mounts : KeepsRootPrivate(cfg.mounts[k])
    => /\ kern.err # "pivot_root"
       /\ SetUp /\ ~setup.initramfs =>
            \A k \in DOMAIN kern.ms :
              kern.ms[k].live =>
                /\ k \notin DOMAIN HostKernel(setup).ms
                /\ k = procRoot.m \/ k \in Below(kern.ms, procRoot)

(* Every default device is there when the process starts, made or bound    *)
(* from the host, and so is a /dev/ptmx that belongs to the container      *)
(* (container.cpp:954 and 1018), unless the configuration binds something  *)
(* on /dev, mounts something read-only there, or masks it or the root.     *)
(* Nor are they made when /dev is one of the read-only paths: it is bound  *)
(* onto itself, do_mount takes that for the host's /dev                    *)
(* (container.cpp:546), and finalize leaves all of it out (936).           *)
DevicesPresent ==
    SetUp
      /\ (\A k \in DOMAIN cfg.mounts : cfg.mounts[k].dest = <<"dev">> =>
             cfg.mounts[k].flags \cap {"ro", "bind"} = {})
      /\ <<"dev">> \notin Range(cfg.readonly)
      /\ (\A path \in Range(cfg.masked) : ~Under(path, <<"dev">>))
    => /\ \A d \in Range(Devices) : Kind(kern, View(<<"dev", d>>).at) = "chr"
       /\ Kind(kern, View(PtmxPath).at) \in {"link", "chr"}

(* A missing destination is refused as read-only only where there is a     *)
(* file system that was asked for read-only and is not a bind, a mask, or  *)
(* a mount the host has read-only already: read-only binds, paths and the  *)
(* root wait until every destination exists (container.cpp:611).           *)
ReadOnlyWaits ==
    kern.err = "EROFS" /\ procRoot = HostRoot =>
      \/ \E k \in DOMAIN cfg.mounts : ~IsBind(cfg.mounts[k]) /\ "ro" \in cfg.mounts[k].flags
      \/ LET host == HostKernel(setup).ms IN \E k \in DOMAIN host : "ro" \in host[k].flags
      \/ cfg.masked # <<>>
=============================================================================
