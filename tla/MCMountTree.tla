----------------------------- MODULE MCMountTree -----------------------------
(***************************************************************************)
(* Instances of MountTree for TLC: hosts, root file systems and            *)
(* configurations, in families that vary one part each.                    *)
(***************************************************************************)
EXTENDS MountTree

MCNames == STRING
MCDevices == <<"null", "tty">>

-----------------------------------------------------------------------------
(* The host: /, with the rootfs in /r and something to bind in /src; /sys, *)
(* /sys/fs/cgroup, /dev, and a file system mounted at /src/sub.            *)
Nodes(dirs, others) ==
    [p \in dirs \cup DOMAIN others |-> IF p \in dirs THEN "dir" ELSE others[p]]

NoOthers == [p \in {} |-> "file"]

(* A rootfs of directories, with /dev/ptmx and /dev/console as given.      *)
RootNodes(ptmx, console) ==
    LET extra == {q \in {<<"ptmx", ptmx>>, <<"console", console>>} : q[2] # "none"}
    IN  Nodes({<<"r">>} \cup {<<"r", d>> : d \in {"dev", "proc", "sys", "a"}}
                \cup {<<"r", "a", "b">>}
                \cup (IF ptmx = "file" THEN {<<"r", "dev", "pts">>} ELSE {}),
              [p \in {<<"r", "dev", q[1]>> : q \in extra}
                     \cup (IF ptmx = "file" THEN {<<"r", "dev", "pts", "ptmx">>} ELSE {}) |->
                  IF p = <<"r", "dev", "ptmx">> THEN ptmx
                  ELSE IF p = <<"r", "dev", "console">> THEN console ELSE "chr"])

DiskNodes(root) ==
    [p \in DOMAIN root \cup {<<>>, <<"src">>, <<"src", "sub">>, <<"src", "x">>, <<"file">>,
                             <<"sys">>, <<"dev">>, <<"proc">>} |->
        IF p \in DOMAIN root THEN root[p]
        ELSE IF p \in {<<"file">>, <<"src", "x">>} THEN "file" ELSE "dir"]

HostMount(par, at, fs, flags, shared, userNs) ==
    [par |-> par, at |-> at, fs |-> fs, base |-> <<>>, flags |-> flags,
     locked |-> IF userNs THEN flags ELSE {},
     group |-> IF shared THEN "host" ELSE "private", live |-> TRUE]

(* srcFlags are the flags of the host's file system on /src/sub; with      *)
(* rootMounted the rootfs is a mount point of the host already.            *)
MCHostKernel(s) ==
    LET root == RootNodes(s.ptmx, s.console)
        shared == s.shared
        userNs == s.config.userNs
    IN
    [ms |-> <<HostMount(0, <<>>, 1, {}, shared, userNs),
              HostMount(1, <<"sys">>, 2, {"nosuid"}, shared, userNs),
              HostMount(2, <<"fs", "cgroup">>, 3, {"nosuid"}, shared, userNs),
              HostMount(1, <<"dev">>, 4, {"nosuid"}, shared, userNs),
              HostMount(1, <<"src", "sub">>, 5, s.srcFlags, shared, userNs)>>
            \o (IF s.rootMounted
                THEN <<[HostMount(1, <<"r">>, 1, {}, shared, userNs) EXCEPT !.base = <<"r">>]>>
                ELSE <<>>),
     fs |-> <<[type |-> "disk", nodes |-> DiskNodes(root)],
              [type |-> "sysfs", nodes |-> Nodes({<<>>, <<"fs">>, <<"fs", "cgroup">>}, NoOthers)],
              [type |-> "cgroup", nodes |-> Nodes({<<>>}, NoOthers)],
              [type |-> "tmpfs", nodes |-> Nodes({<<>>, <<"pts">>},
                    [p \in {<<"null">>, <<"tty">>, <<"ptmx">>, <<"pts", "0">>} |-> "chr"])],
              [type |-> "disk", nodes |-> Nodes({<<>>, <<"in">>}, NoOthers)]>>,
     hostSaw |-> FALSE,
     err |-> "none"]

-----------------------------------------------------------------------------
(* Mounts of configurations.                                               *)
M(dest, source, type, flags) ==
    [dest |-> dest, source |-> source, type |-> type, flags |-> flags, prop |-> NoProp,
     data |-> FALSE, symlink |-> FALSE]

Proc == M(<<"proc">>, <<>>, "proc", {"nosuid"})
ProcWithData == [Proc EXCEPT !.data = TRUE]
Sysfs == M(<<"sys">>, <<>>, "sysfs", {"nosuid", "ro"})
SysBind == M(<<"sys">>, <<"sys">>, "none", {"bind", "rec", "ro"})
CgroupMount == M(Cgroup, <<>>, "cgroup", {"ro"})
Dev == M(<<"dev">>, <<>>, "tmpfs", {"nosuid"})
DevPts == M(<<"dev", "pts">>, <<>>, "devpts", {"noexec"})
DevBind == M(<<"dev">>, <<"dev">>, "none", {"bind", "rec"})
DevOther == M(<<"dev">>, <<"src">>, "none", {"bind", "rec"})
SrcRo == M(<<"a">>, <<"src">>, "none", {"bind", "rec", "ro"})
SrcSub == M(<<"a", "b">>, <<"src", "sub">>, "none", {"bind", "nodev"})
FileBelow == M(<<"a", "b", "new">>, <<"file">>, "none", {"bind", "ro"})
TmpRo == M(<<"t">>, <<>>, "tmpfs", {"ro"})
BelowTmp == M(<<"t", "x">>, <<"src">>, "none", {"bind", "rec"})
OnRoot == M(<<>>, <<"r">>, "none", {"bind", "rec"})
LinkMount == [M(<<"l", "k">>, <<"file">>, "none", {"bind"}) EXCEPT !.symlink = TRUE]
SharedBind == [SrcRo EXCEPT !.prop = [kind |-> "shared", rec |-> TRUE]]
Unbindable == [SrcSub EXCEPT !.prop = [kind |-> "unbindable", rec |-> FALSE]]
SlaveBind == [SrcSub EXCEPT !.prop = [kind |-> "slave", rec |-> FALSE]]

Config(mounts, masked, readonly) ==
    [mountNs |-> TRUE, userNs |-> FALSE, rootProp |-> NoProp, rootReadonly |-> FALSE,
     mounts |-> mounts, masked |-> masked, readonly |-> readonly, terminal |-> FALSE]

Setup(config) ==
    [config |-> config, sysfsDenied |-> FALSE, initramfs |-> FALSE, ptmx |-> "none",
     console |-> "none", shared |-> TRUE, srcFlags |-> {}, rootMounted |-> FALSE]

Props == {NoProp, [kind |-> "shared", rec |-> TRUE], [kind |-> "slave", rec |-> TRUE],
          [kind |-> "private", rec |-> FALSE], [kind |-> "unbindable", rec |-> FALSE]}

(* Orders of mounts that stack, nest and create destinations.              *)
Orders ==
    LET from == {Dev, SrcRo, SrcSub, FileBelow, TmpRo, BelowTmp, OnRoot, LinkMount}
    IN  {q \in UNION {[1 .. n -> from] : n \in 1 .. 3} :
            \A j, k \in DOMAIN q : j # k => q[j] # q[k]}

OrderSetups ==
    {Setup([Config(q, <<>>, <<>>) EXCEPT !.rootReadonly = (SrcRo \in Range(q))]) : q \in Orders}

(* Propagation, user namespaces with locked flags, rootfs on a mount point.*)
HostSetups ==
    {[Setup([Config(q, <<>>, <<>>) EXCEPT !.rootProp = prop, !.userNs = user,
                                           !.rootReadonly = TRUE])
        EXCEPT !.shared = shared, !.srcFlags = flags, !.rootMounted = mounted] :
        q \in {<<SrcSub>>, <<SrcRo, FileBelow>>, <<SlaveBind, FileBelow>>,
               <<SharedBind, FileBelow>>, <<Dev, TmpRo>>, <<Unbindable, FileBelow, OnRoot>>},
        prop \in Props, user \in BOOLEAN, shared \in BOOLEAN,
        flags \in {{}, {"nosuid"}, {"nosuid", "ro"}, {"ro"}}, mounted \in BOOLEAN}

(* Masked and read-only paths, over each other and over mounts.            *)
MaskPaths == {<<"proc", "kcore">>, <<"proc">>, <<"proc", "sys">>, <<"a">>, <<"a", "b">>, <<"no">>}
OnePath == {<<>>} \cup {<<p>> : p \in MaskPaths}
TwoPaths == OnePath \cup {q \in MaskPaths \X MaskPaths : q[1] # q[2]}
MaskSetups ==
    {Setup(Config(<<Proc, SrcSub>>, q[1], q[2])) :
        q \in (OnePath \X TwoPaths) \cup (TwoPaths \X OnePath)}

(* Masks in /dev, where the set-up makes what is not there.                *)
DevMaskSetups ==
    {[Setup([Config(q, <<path>>, <<>>) EXCEPT !.terminal = tty]) EXCEPT !.console = console] :
        q \in {<<Proc>>, <<Dev, DevPts>>, <<DevBind>>},
        path \in {<<"dev">>, <<"dev", "pts">>, <<"dev", "ptmx">>, <<"dev", "fd">>,
                   <<"dev", "tty">>, <<"dev", "console">>},
        tty \in BOOLEAN, console \in {"none", "file"}}

(* /dev: what is there, who made it, and the console.                      *)
DevSetups ==
    {[Setup([Config(q, <<>>, <<>>) EXCEPT !.terminal = tty, !.userNs = user,
                                           !.rootReadonly = ro])
        EXCEPT !.ptmx = ptmx, !.console = console] :
        q \in {<<Proc>>, <<Dev>>, <<Dev, DevPts>>, <<DevPts>>, <<DevBind>>,
               <<SysBind, CgroupMount>>, <<ProcWithData>>},
        tty \in BOOLEAN, user \in BOOLEAN, ro \in BOOLEAN,
        ptmx \in {"none", "link", "other link", "file", "chr"},
        console \in {"none", "file", "link"}}

(* No mounts, no mount namespace, the initramfs as root, sysfs refused.    *)
OddSetups ==
    {[Setup([Config(q, <<>>, <<>>) EXCEPT !.mountNs = ns]) EXCEPT !.rootMounted = mounted] :
        q \in {<<>>, <<Proc, SrcRo>>}, ns \in BOOLEAN, mounted \in BOOLEAN}
      \cup
    {[Setup(Config(<<Proc, SrcRo>>, <<>>, <<>>)) EXCEPT !.initramfs = TRUE, !.shared = s] :
        s \in BOOLEAN}
      \cup
    {[Setup([Config(q, <<>>, <<>>) EXCEPT !.userNs = user]) EXCEPT !.sysfsDenied = TRUE] :
        q \in {<<Sysfs>>, <<Sysfs, [CgroupMount EXCEPT !.type = "tmpfs"]>>}, user \in BOOLEAN}

(* The root covered: by mounts on "/" from different sources with          *)
(* different propagations, and by masked and read-only paths.              *)
RootMounts ==
    {[OnRoot EXCEPT !.source = source, !.prop = prop] :
        source \in {<<>>, <<"src">>, <<"r">>}, prop \in Props}
      \cup {[M(<<>>, <<>>, type, {"nosuid"}) EXCEPT !.prop = prop] :
        type \in {"tmpfs", "sysfs"}, prop \in Props}

RootSetups ==
    {[Setup([Config(q, masked, readonly) EXCEPT !.rootProp = prop, !.userNs = denied])
        EXCEPT !.rootMounted = mounted, !.sysfsDenied = denied] :
        q \in {<<mount, SrcSub>> : mount \in RootMounts} \cup {<<SharedBind, OnRoot>>},
        masked \in {<<>>, << <<>> >>}, readonly \in {<<>>, << <<>> >>},
        prop \in Props \cup {[kind |-> "slave", rec |-> FALSE]},
        mounted \in BOOLEAN, denied \in BOOLEAN}

(* Two or three mounts on one destination, binds and others, read-only or  *)
(* not, each with flags of its own.                                        *)
SameDest(dest, source) ==
    {M(dest, source, "none", {"bind"} \cup flags) :
        flags \in {{"nosuid"}, {"ro", "rec"}, {"ro", "nodev"}, {"ro", "nosuid"}}}
      \cup {M(dest, <<>>, "tmpfs", flags) : flags \in {{"noexec"}, {"ro", "noexec"}}}

SameSetups ==
    {[Setup([Config(q, <<>>, <<>>) EXCEPT !.rootReadonly = ro]) EXCEPT !.srcFlags = {"noexec"}] :
        q \in UNION {[1 .. n -> SameDest(<<"a">>, <<"src", "sub">>)] : n \in 2 .. 3}
              \cup [1 .. 2 -> SameDest(<<>>, <<"r">>)],
        ro \in BOOLEAN}

(* Read-only and masked /dev and "/", and the devices then.                *)
ReadonlyDevSetups ==
    {[Setup([Config(q, masked, readonly) EXCEPT !.terminal = tty, !.userNs = user])
        EXCEPT !.ptmx = ptmx] :
        q \in {<<Proc>>, <<Dev, DevPts>>, <<DevBind>>, <<DevOther>>, <<SysBind>>},
        masked \in {<<>>, << <<>> >>, << <<"dev">> >>},
        readonly \in {<< <<"dev">> >>, << <<>> >>, << <<>>, <<"dev">> >>, << <<"sys">>, <<>> >>},
        tty \in BOOLEAN, user \in BOOLEAN, ptmx \in {"none", "file"}}

MCSetups == OrderSetups \cup HostSetups \cup MaskSetups \cup DevMaskSetups \cup DevSetups \cup OddSetups
              \cup RootSetups \cup SameSetups \cup ReadonlyDevSetups
=============================================================================
