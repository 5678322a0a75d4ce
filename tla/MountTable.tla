----------------------------- MODULE MountTable -----------------------------
(***************************************************************************)
(* The kernel's side of setting up a container: the mounts of one mount    *)
(* namespace and the files they show, as far as container.cpp relies on    *)
(* them.  Everything here is external to the repository; it is the         *)
(* behaviour of mount(2), pivot_root(2), umount2(2) and of path lookup     *)
(* that the calls in src/ depend on.                                       *)
(*                                                                         *)
(* A path is a sequence of names.  A file system is a record of its type   *)
(* and of the kinds of its nodes, by path.  A mount shows the part of file *)
(* system fs under base, at node at of the mount par it is attached to.  A *)
(* place [m, p] is node p of the file system of mount m: what an open file *)
(* descriptor refers to, whatever is mounted over it later.  A kernel is   *)
(* the record of the mounts, the file systems, whether the host has seen   *)
(* a mount or an unmount of ours, and the error of the last call.          *)
(***************************************************************************)
EXTENDS Naturals, Sequences, FiniteSets, SequencesExt

CONSTANT Names  \* the names files and directories may have

(* The mount flags that stay on a mount.                                   *)
Attributes == {"ro", "nosuid", "nodev", "noexec"}

(* The peer groups that matter: the host's, one of the container's own, or *)
(* none, and whether a mount without one may be bound.                     *)
Groups == {"host", "own", "private", "unbindable"}

Shared(mount) == mount.group \in {"host", "own"}

(* The host root: the first mount of a namespace has no parent.            *)
NoMount == 0

Paths == Seq(Names)

(* What a mount is, and a kernel whose mounts have these groups and flags. *)
MountRecords(groups, flags) ==
    [par: Nat, at: Paths, fs: Nat, base: Paths, flags: SUBSET flags,
     locked: SUBSET Attributes, group: groups, live: BOOLEAN]

KernelOK(K, groups, flags) ==
    /\ K = [ms |-> K.ms, fs |-> K.fs, hostSaw |-> K.hostSaw, err |-> K.err]
    /\ K.ms \in Seq(MountRecords(groups, flags))
    /\ \A k \in DOMAIN K.ms : K.ms[k].par \in DOMAIN K.ms \cup {NoMount}
    /\ K.fs \in Seq(Range(K.fs)) /\ K.hostSaw \in BOOLEAN

Fine(K) == K.err = "none"
Failed(K, e) == [K EXCEPT !.err = e]

Under(p, q) == IsPrefix(p, q)
Rest(p, q) == SubSeq(q, Len(p) + 1, Len(q))

(* The mounts of a namespace in the order they were made: each but the     *)
(* first is attached below the root of an earlier one, no two at one       *)
(* place, and none over the root of the first.                             *)
Ordered(ms) ==
    /\ ms[1].par = NoMount /\ ms[1].base = <<>>
    /\ \A k \in DOMAIN ms :
         /\ ms[k].live
         /\ k # 1 => /\ ms[k].par \in 1 .. (k - 1)
                     /\ Under(ms[ms[k].par].base, ms[k].at)
                     /\ ms[k].par # 1 \/ ms[k].at # <<>>
    /\ \A j, k \in DOMAIN ms : ms[j].par = ms[k].par /\ ms[j].at = ms[k].at => j = k

-----------------------------------------------------------------------------
(* Lookup.                                                                 *)

(* The mount attached at a place, if any: stacking attaches the next mount *)
(* to the root of the one before, so there is at most one.                 *)
MountedAt(ms, at) ==
    {k \in DOMAIN ms : ms[k].live /\ ms[k].par = at.m /\ ms[k].at = at.p}

(* What a lookup that arrives at a place ends up at: the top of the stack. *)
Top(ms, at) ==
    LET up[n \in 0 .. Len(ms)] ==
            IF n = 0 THEN at
            ELSE LET below == up[n - 1]
                     over == MountedAt(ms, below)
                 IN  IF over = {} THEN below
                     ELSE LET k == CHOOSE k \in over : TRUE
                          IN  [m |-> k, p |-> ms[k].base]
    IN  up[Len(ms)]

(* The places on the way from start along a path; start itself is not      *)
(* followed to the top, as no lookup of "." or "/" on a descriptor is.     *)
Walk(ms, start, path) ==
    LET at[n \in 0 .. Len(path)] ==
            IF n = 0 THEN start
            ELSE LET dir == at[n - 1]
                 IN  Top(ms, [m |-> dir.m, p |-> Append(dir.p, path[n])])
    IN  at

FileSystem(K, at) == K.fs[K.ms[at.m].fs]

Kind(K, at) ==
    LET nodes == FileSystem(K, at).nodes
    IN  IF at.p \in DOMAIN nodes THEN nodes[at.p] ELSE "none"

(* How many components of the path exist, each in a directory.             *)
Reached(K, at, n) ==
    CHOOSE i \in 0 .. n :
        /\ \A j \in 1 .. i : Kind(K, at[j - 1]) = "dir" /\ Kind(K, at[j]) # "none"
        /\ i < n => Kind(K, at[i]) # "dir" \/ Kind(K, at[i + 1]) = "none"

LookupAlong(K, at, n) ==
    LET i == Reached(K, at, n)
    IN  [at |-> at[n],
         err |-> CASE i = n -> "none"
                   [] i < n /\ Kind(K, at[i]) = "dir" -> "ENOENT"
                   [] OTHER -> "ENOTDIR"]

Lookup(K, start, path) == LookupAlong(K, Walk(K.ms, start, path), Len(path))

(* The path /proc/self/fd shows for a place (file_descriptor::current_path)*)
(* It climbs from mount to mount, until one that has no parent.            *)
PathOf(ms, at) ==
    LET climb[n \in 0 .. Len(ms)] ==
            IF n = 0 THEN [m |-> at.m, p |-> Rest(ms[at.m].base, at.p)]
            ELSE LET below == climb[n - 1]
                     mount == ms[below.m]
                 IN  IF mount.par = NoMount THEN below
                     ELSE [m |-> mount.par,
                           p |-> Rest(ms[mount.par].base, mount.at) \o below.p]
    IN  climb[Len(ms)].p

(* Creating the missing end of a path: directories, and a last node of the *)
(* given kind.                                                             *)
CreateBelow(K, dir, missing, kind) ==
    LET old == FileSystem(K, dir).nodes
        new == {dir.p \o SubSeq(missing, 1, n) : n \in 1 .. Len(missing)}
    IN  IF Kind(K, dir) # "dir" THEN Failed(K, "ENOTDIR")
        ELSE IF "ro" \in K.ms[dir.m].flags THEN Failed(K, "EROFS")
        ELSE IF FileSystem(K, dir).type \notin {"disk", "tmpfs"} THEN Failed(K, "EPERM")
        ELSE [K EXCEPT !.fs[K.ms[dir.m].fs].nodes =
                [p \in DOMAIN old \cup new |->
                    IF p \in DOMAIN old THEN old[p]
                    ELSE IF p = dir.p \o missing THEN kind ELSE "dir"]]

CreateAlong(K, at, path, kind) ==
    LET i == Reached(K, at, Len(path))
    IN  IF i = Len(path) THEN K
        ELSE CreateBelow(K, at[i], SubSeq(path, i + 1, Len(path)), kind)

Create(K, start, path, kind) == CreateAlong(K, Walk(K.ms, start, path), path, kind)

-----------------------------------------------------------------------------
(* mount(2).                                                               *)

(* Those of a set of mounts that are attached under a place, or under one  *)
(* another.                                                                *)
Hanging(ms, at, among) ==
    LET under[n \in 0 .. Len(ms)] ==
            IF n = 0 THEN {}
            ELSE LET upper == under[n - 1]
                 IN  {k \in among : \/ ms[k].par = at.m /\ Under(at.p, ms[k].at)
                                    \/ ms[k].par \in upper \ {at.m}}
    IN  under[Len(ms)]

Live(ms) == {k \in DOMAIN ms : ms[k].live}

(* The mounts attached, at any depth, under a place.                       *)
Below(ms, at) == Hanging(ms, at, Live(ms))

(* Attaching a tree of mounts at the top of the stack on a place.  Under a *)
(* shared mount the tree becomes shared too, and the other members of the  *)
(* group get a copy: if the host is one of them, it sees the mount.        *)
AttachOn(K, tree, top) ==
    LET parent == K.ms[top.m]
        group(g) == IF Shared(parent) /\ g \notin {"host", "own"}
                    THEN parent.group ELSE g
        placed == [i \in DOMAIN tree |->
                     [tree[i] EXCEPT !.group = group(@),
                                     !.par = IF i = 1 THEN top.m ELSE @,
                                     !.at = IF i = 1 THEN top.p ELSE @]]
    IN  [K EXCEPT !.ms = @ \o placed,
                  !.hostSaw = @ \/ parent.group = "host"]

Attach(K, tree, at) == AttachOn(K, tree, Top(K.ms, at))

IsDir(K, at) == Kind(K, at) = "dir"

(* MS_BIND, with or without MS_REC: a copy of the source's mount that      *)
(* starts at the source's node, with the copies of the mounts below it but *)
(* the unbindable ones and what hangs under those.                         *)
Rank(below, k) == Cardinality({j \in below : j <= k})

Original(below, n) == CHOOSE k \in below : Rank(below, k) = n
CopyOf(ms, src, below, k) == Len(ms) + 1 + (IF k = src.m THEN 0 ELSE Rank(below, k))

TreeOf(ms, src, below) ==
    <<[ms[src.m] EXCEPT !.base = src.p]>>
      \o [n \in 1 .. Cardinality(below) |->
            [ms[Original(below, n)] EXCEPT !.par = CopyOf(ms, src, below, @)]]

Bind(K, src, dst, rec) ==
    LET bindable == {k \in Live(K.ms) : K.ms[k].group # "unbindable"}
        tree == TreeOf(K.ms, src, IF rec THEN Hanging(K.ms, src, bindable) ELSE {})
    IN  IF K.ms[src.m].group = "unbindable" THEN Failed(K, "EINVAL")
        ELSE IF IsDir(K, src) # IsDir(K, dst) THEN Failed(K, "ENOTDIR")
        ELSE Attach(K, tree, dst)

(* A new file system of a type, with the nodes it has when it is new.      *)
MountNew(K, type, nodes, dst, flags) ==
    IF ~IsDir(K, dst) THEN Failed(K, "ENOTDIR")
    ELSE Attach([K EXCEPT !.fs = Append(@, [type |-> type, nodes |-> nodes])],
                <<[par |-> NoMount, at |-> <<>>, fs |-> Len(K.fs) + 1, base |-> <<>>,
                   flags |-> flags \cap Attributes, locked |-> {}, group |-> "private",
                   live |-> TRUE]>>,
                dst)

MountRoot(K, at) == at.p = K.ms[at.m].base

(* MS_SHARED, MS_SLAVE, MS_PRIVATE or MS_UNBINDABLE on a mount, with       *)
(* MS_REC on those below it as well.  A slave hears of the host's mounts   *)
(* and tells it nothing, which is all that matters here of private too.    *)
GroupAfter(prop, g) ==
    CASE prop.kind = "shared" -> IF g = "host" THEN g ELSE "own"
      [] prop.kind = "unbindable" -> "unbindable"
      [] OTHER -> "private"

SetPropagation(K, at, prop) ==
    LET of == {at.m} \cup (IF prop.rec THEN Below(K.ms, at) ELSE {})
    IN  IF ~MountRoot(K, at) THEN Failed(K, "EINVAL")
        ELSE [K EXCEPT !.ms = [k \in DOMAIN K.ms |->
                    IF k \in of THEN [K.ms[k] EXCEPT !.group = GroupAfter(prop, @)]
                    ELSE K.ms[k]]]

(* MS_REMOUNT: the flags of a mount become those given.  A mount taken     *)
(* over from a more privileged namespace keeps its own, or refuses.        *)
Remount(K, at, flags) ==
    IF ~MountRoot(K, at) THEN Failed(K, "EINVAL")
    ELSE IF ~(K.ms[at.m].locked \subseteq flags) THEN Failed(K, "EPERM")
    ELSE [K EXCEPT !.ms[at.m].flags = flags \cap Attributes]

-----------------------------------------------------------------------------
(* Changing the root.                                                      *)

(* pivot_root(".", ".") from the new root: the mount of the old root is    *)
(* put on top of the new one.  It wants a mount point as the new root and  *)
(* nothing shared around it, and a root that is not the initramfs's.       *)
MayPivot(K, initramfs, new) ==
    /\ ~initramfs
    /\ MountRoot(K, new)
    /\ K.ms[new.m].par # NoMount
    /\ ~Shared(K.ms[new.m])
    /\ ~Shared(K.ms[K.ms[new.m].par])

PivotRoot(K, old, new) ==
    [K EXCEPT !.ms[new.m].par = NoMount,
              !.ms[new.m].at = <<>>,
              !.ms[old.m].par = new.m,
              !.ms[old.m].at = new.p]

(* mount(rootfs, "/", MS_MOVE).                                            *)
MayMove(K, new) ==
    /\ MountRoot(K, new)
    /\ K.ms[new.m].par # NoMount
    /\ ~Shared(K.ms[K.ms[new.m].par])

MoveOnto(K, new, top) ==
    [K EXCEPT !.ms[new.m].par = top.m,
              !.ms[new.m].at = top.p,
              !.hostSaw = @ \/ K.ms[top.m].group = "host"]

MoveMount(K, new, dst) == MoveOnto(K, new, Top(K.ms, dst))

(* umount2(MNT_DETACH): the mount and all below it leave the namespace; the*)
(* host loses its copy of each that hangs under a mount it shares.         *)
Detach(K, m) ==
    LET gone == {m} \cup Below(K.ms, [m |-> m, p |-> K.ms[m].base])
    IN  [K EXCEPT
          !.ms = [k \in DOMAIN K.ms |->
                    IF k \in gone THEN [K.ms[k] EXCEPT !.live = FALSE] ELSE K.ms[k]],
          !.hostSaw = @ \/ \E k \in gone : /\ K.ms[k].par # NoMount
                                           /\ K.ms[K.ms[k].par].group = "host"]
=============================================================================
