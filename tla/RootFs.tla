-------------------------------- MODULE RootFs --------------------------------
(***************************************************************************)
(* The container's root file system as class Root sees it: every path is   *)
(* resolved component by component from the root directory, symbolic links *)
(* included, and the operations act on what the resolution arrived at.     *)
(*                                                                         *)
(* resolve_partial is a loop over a list of components; following a link   *)
(* puts its target before the components that are left and the state       *)
(* before the link on a stack, to which a missing component returns.       *)
(*                                                                         *)
(* Nobody else changes the tree but in the midst of a remove_all.          *)
(*                                                                         *)
(* Files: infra/rootfs.cpp, container.cpp (ensure_mount_destination).      *)
(***************************************************************************)
EXTENDS Integers, FiniteSets, Sequences, SequencesExt

CONSTANTS
  Nodes,        \* inodes, in use or free
  Root,         \* the root directory
  Host,         \* inodes outside the root
  Nothing,      \* no inode
  Names,        \* names of directory entries
  Trees,        \* the trees to begin with: [kind, parent, name, target]
  Ops,          \* the operations to call: [do, path, flags]
  NewTarget,    \* the target of a link that is created
  MaxSymlinks,  \* max_symlinks
  MaxOps,       \* bound: calls
  MaxOthers     \* bound: files that others create during a remove_all

VARIABLES
  kind, parent, name, target,   \* the tree: what is known of each inode
  op,        \* the call under way, or the last one
  mode,      \* what its resolution is for
  pc,        \* where the call is, idle between calls
  at,        \* the inode the resolution is at
  parts,     \* the components left to resolve
  expected,  \* the path from the root at which current ought to be
  links,     \* symlink_stack
  budget,    \* links that may still be followed
  found,     \* a partial lookup: where to create, and what is missing
  tasks,     \* stack of the removals to do
  result,    \* of the last call
  calls, others

tree == <<kind, parent, name, target>>
walk == <<at, parts, expected, links, budget>>
bounds == <<calls, others>>
vars == <<tree, op, mode, pc, walk, found, tasks, result, bounds>>

Inside == Nodes \ Host
Kinds == {"free", "dir", "file", "link"}
Parts == Names \cup {".", ".."}
Targets == [abs : BOOLEAN, parts : Seq(Parts)]
Flags == {"no_follow", "directory", "path"}
Calls == [do : {"open", "create_directories", "ensure_mount_destination",
                "create_directory", "create_file", "create", "remove_file",
                "remove_dir", "remove_all"},
          path : Seq(Parts), flags : SUBSET Flags]
Errors == {"none", "ok", "EINVAL", "EACCES", "ELOOP", "ENOTDIR", "ENOENT",
           "ENOSPC", "EEXIST", "EISDIR", "ENOTEMPTY"}
Modes == {"open", "probe", "dirs", "parent"}
PCs == {"idle", "walk", "missing", "resolved", "leaf", "remove"}

(* The inodes of the root have their parents in it, the free ones those    *)
(* that they had last, and those of the host theirs outside.               *)
Apart(k, p) ==
  /\ k[Root] = "dir"
  /\ \A n \in Inside \ {Root} : p[n] \in Inside
  /\ \A n \in Host : k[n] # "free" /\ p[n] \in Host

(* Every inode in use but the root and the host's has a directory for a    *)
(* parent, in which no other has its name, and none is above itself.       *)
IsTree(k, p, nm) ==
  LET used == {n \in Inside \ {Root} : k[n] # "free"}
  IN /\ \A n \in used : k[p[n]] = "dir"
     /\ \A m, n \in used : p[m] = p[n] /\ nm[m] = nm[n] => m = n
     /\ \A S \in (SUBSET (Inside \ {Root})) \ {{}} : \E n \in S : p[n] \notin S

ASSUME NodesAssumption ==
  /\ IsFiniteSet(Nodes)
  /\ Root \in Nodes /\ Root \notin Host /\ Host \subseteq Nodes
  /\ Nothing \notin Nodes
ASSUME NamesAssumption == "." \notin Names /\ ".." \notin Names
ASSUME TreesAssumption == \A t \in Trees :
  /\ t.kind \in [Nodes -> Kinds] /\ t.parent \in [Nodes -> Nodes]
  /\ t.name \in [Nodes -> Names] /\ t.target \in [Nodes -> Targets]
  /\ Apart(t.kind, t.parent) /\ IsTree(t.kind, t.parent, t.name)
(* A call for an entry is given a path with one; a mount destination that  *)
(* is no directory ends in the name of the file.                           *)
ASSUME OpsAssumption ==
  /\ Ops \subseteq Calls
  /\ \A o \in Ops :
       /\ o.do \notin {"open", "create_directories"} => o.path # <<>>
       /\ o.do = "ensure_mount_destination" /\ "directory" \notin o.flags
            => Last(o.path) \in Names
ASSUME NewTargetAssumption == NewTarget \in Targets
ASSUME BoundsAssumption ==
  MaxSymlinks \in Nat /\ MaxOps \in Nat /\ MaxOthers \in Nat

Init ==
  /\ \E t \in Trees : /\ kind = t.kind /\ parent = t.parent
                      /\ name = t.name /\ target = t.target
  /\ op = [do |-> "open", path |-> <<>>, flags |-> {}]
  /\ mode = "open" /\ pc = "idle"
  /\ at = Root /\ parts = <<>> /\ expected = <<>> /\ links = <<>>
  /\ budget = 0
  /\ found = [dir |-> Root, rest |-> <<>>]
  /\ tasks = <<>>
  /\ result = [err |-> "none", node |-> Nothing]
  /\ calls = 0 /\ others = 0

-----------------------------------------------------------------------------
(* The tree, and the system calls on it.                                   *)

Children(d) == {n \in Nodes \ {Root} : kind[n] # "free" /\ parent[n] = d}
Entry(d, c) == IF c = "." THEN {d} ELSE {n \in Children(d) : name[n] = c}
Full == \A n \in Nodes : kind[n] # "free"
NewNode == CHOOSE n \in Nodes : kind[n] = "free"

(* What /proc/self/fd says of a handle, below what it says of the root's.  *)
CurrentPath(n) ==
  LET path[m \in Nodes] ==
        IF m = Root THEN <<>>
        ELSE IF m \in Host THEN <<"..">>
        ELSE Append(path[parent[m]], name[m])
  IN path[n]

Make(d, c, what) ==
  /\ kind' = [kind EXCEPT ![NewNode] = what]
  /\ parent' = [parent EXCEPT ![NewNode] = d]
  /\ name' = [name EXCEPT ![NewNode] = c]
  /\ target' = [target EXCEPT ![NewNode] = NewTarget]

Unlink(n) ==
  /\ kind' = [kind EXCEPT ![n] = "free"]
  /\ UNCHANGED <<parent, name, target>>

Return(err, n) ==
  /\ pc' = "idle"
  /\ result' = [err |-> err, node |-> n]
Fail(err) == Return(err, Nothing)

-----------------------------------------------------------------------------
(* The calls.                                                              *)

UsesParent(o) == o.do \in {"create_directory", "create_file", "create",
                           "remove_file", "remove_dir", "remove_all"}
NoFollow == op.do = "open" /\ "no_follow" \in op.flags
MakesFile == op.do = "ensure_mount_destination" /\ "directory" \notin op.flags

(* resolve_partial, before its loop.                                       *)
Resolve(path, why) ==
  /\ mode' = why
  /\ pc' = "walk"
  /\ at' = Root /\ parts' = path /\ expected' = <<>> /\ links' = <<>>
  /\ budget' = MaxSymlinks

(* A call for an entry needs the directory of the entry, and refuses a     *)
(* path that does not end in a name.                                       *)
Call(o) ==
  /\ pc = "idle" /\ calls < MaxOps
  /\ calls' = calls + 1
  /\ op' = o
  /\ \/ /\ UsesParent(o) /\ Last(o.path) \notin Names
        /\ Fail("EINVAL")
        /\ UNCHANGED <<mode, walk>>
     \/ /\ UsesParent(o) /\ Last(o.path) \in Names
        /\ Resolve(Front(o.path), "parent")
        /\ UNCHANGED result
     \/ /\ ~UsesParent(o)
        /\ Resolve(o.path, CASE o.do = "open" -> "open"
                             [] o.do = "create_directories" -> "dirs"
                             [] o.do = "ensure_mount_destination" -> "probe")
        /\ UNCHANGED result
  /\ UNCHANGED <<tree, found, tasks, others>>

-----------------------------------------------------------------------------
(* resolve_partial: one action per way through the body of its loop.       *)

(* One more component of the target of the innermost link was resolved;    *)
(* with the last of them the link is. Links within a target are not        *)
(* counted, and a target without components is never resolved.             *)
Consumed(stack) ==
  IF stack = <<>> \/ Last(stack).left = 0 THEN stack
  ELSE IF Last(stack).left = 1 THEN Front(stack)
  ELSE [stack EXCEPT ![Len(stack)].left = @ - 1]

(* check_current.                                                          *)
AsExpected(n, path) == CurrentPath(n) = path

InWalk == pc = "walk" /\ parts # <<>>
Here == Entry(at, Head(parts))
StaysLink(n) == kind[n] = "link" /\ ~(NoFollow /\ Tail(parts) = <<>>)

(* Mutant: ".." is not clamped at the root.                                *)
DotDotUnclamped ==
  LET path == IF expected = <<>> THEN expected ELSE Front(expected)
  IN /\ InWalk /\ Head(parts) = ".."
     /\ at' = parent[at] /\ expected' = path
     /\ parts' = Tail(parts)
     /\ links' = Consumed(links)
     /\ UNCHANGED <<budget, pc, result>>
     /\ UNCHANGED <<tree, op, mode, found, tasks, bounds>>

DotDot ==
  LET up == IF at = Root THEN Root ELSE parent[at]
      path == IF at = Root \/ expected = <<>> THEN expected
                                              ELSE Front(expected)
  IN /\ InWalk /\ Head(parts) = ".."
     /\ IF AsExpected(up, path)
        THEN /\ at' = up /\ expected' = path
             /\ parts' = Tail(parts)
             /\ links' = Consumed(links)
             /\ UNCHANGED <<budget, pc, result>>
        ELSE Fail("EACCES") /\ UNCHANGED walk
     /\ UNCHANGED <<tree, op, mode, found, tasks, bounds>>

(* Mutant: the rewind forgets the link itself.                             *)
MissingWithoutLink ==
  /\ InWalk /\ Head(parts) # ".." /\ Here = {}
  /\ found' = IF links = <<>>
              THEN [dir |-> at, rest |-> parts]
              ELSE [dir |-> Head(links).dir, rest |-> Head(links).rest]
  /\ pc' = "missing"
  /\ UNCHANGED <<tree, op, mode, walk, tasks, result, bounds>>

(* Back to the state before the outermost link that is not resolved.       *)
Missing ==
  /\ InWalk /\ Head(parts) # ".." /\ Here = {}
  /\ found' = IF links = <<>>
              THEN [dir |-> at, rest |-> parts]
              ELSE [dir |-> Head(links).dir,
                    rest |-> <<Head(links).name>> \o Head(links).rest]
  /\ pc' = "missing"
  /\ UNCHANGED <<tree, op, mode, walk, tasks, result, bounds>>

(* Mutant: an absolute target leaves expected_path as it was.              *)
FollowLinkExpectedKept ==
  /\ InWalk /\ Head(parts) # ".."
  /\ \E n \in Here :
       /\ StaysLink(n)
       /\ budget > 0
       /\ budget' = budget - 1
       /\ links' = Append(links, [dir |-> at, name |-> Head(parts),
                                  rest |-> Tail(parts),
                                  left |-> Len(target[n].parts)])
       /\ at' = IF target[n].abs THEN Root ELSE at
       /\ parts' = target[n].parts \o Tail(parts)
  /\ UNCHANGED <<tree, op, mode, pc, expected, found, tasks, result, bounds>>

FollowLink ==
  /\ InWalk /\ Head(parts) # ".."
  /\ \E n \in Here :
       /\ StaysLink(n)
       /\ budget > 0
       /\ budget' = budget - 1
       /\ links' = Append(links, [dir |-> at, name |-> Head(parts),
                                  rest |-> Tail(parts),
                                  left |-> Len(target[n].parts)])
       /\ at' = IF target[n].abs THEN Root ELSE at
       /\ expected' = IF target[n].abs THEN <<>> ELSE expected
       /\ parts' = target[n].parts \o Tail(parts)
  /\ UNCHANGED <<tree, op, mode, pc, found, tasks, result, bounds>>

TooManyLinks ==
  /\ InWalk /\ Head(parts) # ".."
  /\ \E n \in Here : StaysLink(n)
  /\ budget = 0
  /\ Fail("ELOOP")
  /\ UNCHANGED <<tree, op, mode, walk, found, tasks, bounds>>

(* The last component is a link that is wanted itself.                     *)
KeepLink ==
  /\ InWalk /\ Head(parts) # ".."
  /\ \E n \in Here : kind[n] = "link" /\ ~StaysLink(n) /\ at' = n
  /\ pc' = "resolved"
  /\ UNCHANGED <<tree, op, mode, parts, expected, links, budget, found,
                 tasks, result, bounds>>

NotADirectory ==
  /\ InWalk /\ Head(parts) # ".." /\ Tail(parts) # <<>>
  /\ \E n \in Here : kind[n] = "file"
  /\ Fail("ENOTDIR")
  /\ UNCHANGED <<tree, op, mode, walk, found, tasks, bounds>>

Down ==
  /\ InWalk /\ Head(parts) # ".."
  /\ \E n \in Here :
       /\ kind[n] = "dir" \/ (kind[n] = "file" /\ Tail(parts) = <<>>)
       /\ at' = n
  /\ parts' = Tail(parts)
  /\ expected' = IF Head(parts) = "." THEN expected
                                      ELSE Append(expected, Head(parts))
  /\ links' = Consumed(links)
  /\ UNCHANGED <<tree, op, mode, pc, budget, found, tasks, result, bounds>>

Arrive ==
  /\ pc = "walk" /\ parts = <<>>
  /\ IF AsExpected(at, expected) THEN pc' = "resolved" /\ UNCHANGED result
                                 ELSE Fail("EACCES")
  /\ UNCHANGED <<tree, op, mode, walk, found, tasks, bounds>>

-----------------------------------------------------------------------------
(* What the calls do with what was resolved.                               *)

(* resolve_scoped.                                                         *)
NotThere ==
  /\ pc = "missing" /\ mode \in {"open", "parent"}
  /\ Fail("ENOENT")
  /\ UNCHANGED <<tree, op, mode, walk, found, tasks, bounds>>

Opened ==
  /\ pc = "resolved" /\ mode \in {"open", "probe"}
  /\ IF mode = "open" /\ "directory" \in op.flags /\ kind[at] # "dir"
     THEN Fail("ENOTDIR")
     ELSE IF kind[at] = "link" /\ "path" \notin op.flags THEN Fail("ELOOP")
     ELSE Return("ok", at)
  /\ UNCHANGED <<tree, op, mode, walk, found, tasks, bounds>>

(* ensure_mount_destination creates what it could not open.                *)
DestinationMissing ==
  /\ pc = "missing" /\ mode = "probe"
  /\ Resolve(IF MakesFile THEN Front(op.path) ELSE op.path, "dirs")
  /\ UNCHANGED <<tree, op, found, tasks, result, bounds>>

ParentResolved ==
  /\ pc = "resolved" /\ mode = "parent"
  /\ pc' = "leaf"
  /\ UNCHANGED <<tree, op, mode, walk, found, tasks, result, bounds>>

(* create_directories has its directory.                                   *)
HaveDirs(d) ==
  IF MakesFile THEN pc' = "leaf" /\ at' = d /\ UNCHANGED result
               ELSE Return("ok", d) /\ UNCHANGED at

DirsThere ==
  /\ pc = "resolved" /\ mode = "dirs"
  /\ IF kind[at] = "dir" THEN HaveDirs(at)
                         ELSE Fail("ENOTDIR") /\ UNCHANGED at
  /\ UNCHANGED <<tree, op, mode, parts, expected, links, budget, found, tasks,
                 bounds>>

DirsMade ==
  /\ pc = "missing" /\ mode = "dirs" /\ found.rest = <<>>
  /\ HaveDirs(found.dir)
  /\ UNCHANGED <<tree, op, mode, parts, expected, links, budget, found, tasks,
                 bounds>>

(* One turn of the loop of create_directories: mkdirat, which may find the *)
(* entry there, and openat for a directory.                                *)
MakeDir ==
  LET c == Head(found.rest)
      there == Entry(found.dir, c)
      Enter(n) == /\ found' = [dir |-> n, rest |-> Tail(found.rest)]
                  /\ UNCHANGED <<pc, result>>
      Stop(err) == Fail(err) /\ UNCHANGED found
  IN /\ pc = "missing" /\ mode = "dirs" /\ found.rest # <<>>
     /\ \/ c = ".." /\ Stop("ENOENT") /\ UNCHANGED tree
        \/ /\ c # ".." /\ there = {} /\ ~Full
           /\ Make(found.dir, c, "dir") /\ Enter(NewNode)
        \/ c # ".." /\ there = {} /\ Full /\ Stop("ENOSPC") /\ UNCHANGED tree
        \/ /\ c # ".."
           /\ \E n \in there : IF kind[n] = "dir" THEN Enter(n)
                                                  ELSE Stop("ENOTDIR")
           /\ UNCHANGED tree
     /\ UNCHANGED <<op, mode, walk, tasks, bounds>>

(* mkdirat, symlinkat or openat with O_CREAT and O_NOFOLLOW, the latter    *)
(* with O_EXCL for a mount destination.                                    *)
CreateLeaf ==
  LET c == Last(op.path)
      there == Entry(at, c)
      what == CASE op.do = "create_directory" -> "dir"
                [] op.do = "create" -> "link"
                [] OTHER -> "file"
  IN /\ pc = "leaf"
     /\ op.do \in {"create_directory", "create_file", "create",
                   "ensure_mount_destination"}
     /\ \/ kind[at] # "dir" /\ Fail("ENOTDIR") /\ UNCHANGED tree
        \/ /\ kind[at] = "dir" /\ there = {} /\ ~Full
           /\ Make(at, c, what) /\ Return("ok", NewNode)
        \/ /\ kind[at] = "dir" /\ there = {} /\ Full
           /\ Fail("ENOSPC") /\ UNCHANGED tree
        \/ /\ kind[at] = "dir"
           /\ \E n \in there :
                IF op.do # "create_file" THEN Fail("EEXIST")
                ELSE CASE kind[n] = "file" -> Return("ok", n)
                       [] kind[n] = "link" -> Fail("ELOOP")
                       [] OTHER -> Fail("EISDIR")
           /\ UNCHANGED tree
     /\ UNCHANGED <<op, mode, walk, found, tasks, bounds>>

(* remove_inode: unlinkat, with AT_REMOVEDIR for a directory.              *)
RemoveLeaf ==
  LET there == Entry(at, Last(op.path))
  IN /\ pc = "leaf" /\ op.do \in {"remove_file", "remove_dir"}
     /\ \/ there = {} /\ kind[at] = "dir" /\ Fail("ENOENT") /\ UNCHANGED tree
        \/ kind[at] # "dir" /\ Fail("ENOTDIR") /\ UNCHANGED tree
        \/ \E n \in there :
             CASE (kind[n] = "dir") # (op.do = "remove_dir") ->
                    /\ Fail(IF kind[n] = "dir" THEN "EISDIR" ELSE "ENOTDIR")
                    /\ UNCHANGED tree
               [] kind[n] = "dir" /\ op.do = "remove_dir"
                    /\ Children(n) # {} ->
                    Fail("ENOTEMPTY") /\ UNCHANGED tree
               [] OTHER -> Unlink(n) /\ Return("ok", Nothing)
     /\ UNCHANGED <<op, mode, walk, found, tasks, bounds>>

-----------------------------------------------------------------------------
(* remove_all_in_dir: a stack of entries to remove.                        *)

RemoveAll ==
  /\ pc = "leaf" /\ op.do = "remove_all"
  /\ tasks' = <<[dir |-> at, name |-> Last(op.path), scanned |-> FALSE]>>
  /\ pc' = "remove"
  /\ UNCHANGED <<tree, op, mode, walk, found, result, bounds>>

Top == Last(tasks)

(* remove_dirent removes it, or it is not there.                           *)
RemoveEntry ==
  LET there == Entry(Top.dir, Top.name)
  IN /\ pc = "remove" /\ tasks # <<>> /\ kind[Top.dir] = "dir"
     /\ \/ there = {} /\ UNCHANGED tree
        \/ \E n \in there : /\ kind[n] # "dir" \/ Children(n) = {}
                            /\ Unlink(n)
     /\ tasks' = Front(tasks)
     /\ UNCHANGED <<op, mode, pc, walk, found, result, bounds>>

(* Mutant: a directory is not kept on the stack while its entries are      *)
(* removed.                                                                *)
ScanDirectoryOnly ==
  /\ pc = "remove" /\ tasks # <<>> /\ ~Top.scanned
  /\ \E d \in Entry(Top.dir, Top.name) :
       /\ kind[d] = "dir" /\ Children(d) # {}
       /\ \E order \in SetToSeqs(Children(d)) :
            tasks' = Front(tasks)
                     \o [i \in DOMAIN order |->
                           [dir |-> d, name |-> name[order[i]],
                            scanned |-> FALSE]]
  /\ UNCHANGED <<tree, op, mode, pc, walk, found, result, bounds>>

(* A directory that is not empty is listed, in any order, and its entries  *)
(* are to be removed first.                                                *)
ScanDirectory ==
  /\ pc = "remove" /\ tasks # <<>> /\ ~Top.scanned
  /\ \E d \in Entry(Top.dir, Top.name) :
       /\ kind[d] = "dir" /\ Children(d) # {}
       /\ \E order \in SetToSeqs(Children(d)) :
            tasks' = Append(Front(tasks), [Top EXCEPT !.scanned = TRUE])
                     \o [i \in DOMAIN order |->
                           [dir |-> d, name |-> name[order[i]],
                            scanned |-> FALSE]]
  /\ UNCHANGED <<tree, op, mode, pc, walk, found, result, bounds>>

(* Not empty again though all it had was removed, or no directory at all.  *)
GiveUp ==
  /\ pc = "remove" /\ tasks # <<>>
  /\ \/ /\ Top.scanned
        /\ \E d \in Entry(Top.dir, Top.name) : Children(d) # {}
        /\ Fail("ENOTEMPTY")
     \/ kind[Top.dir] # "dir" /\ Fail("ENOTDIR")
  /\ UNCHANGED <<tree, op, mode, walk, found, tasks, bounds>>

AllRemoved ==
  /\ pc = "remove" /\ tasks = <<>>
  /\ Return("ok", Nothing)
  /\ UNCHANGED <<tree, op, mode, walk, found, tasks, bounds>>

(* Another process creates a file meanwhile.                               *)
OtherCreates ==
  /\ pc = "remove" /\ others < MaxOthers /\ ~Full
  /\ others' = others + 1
  /\ \E d \in Inside, c \in Names :
       /\ kind[d] = "dir" /\ Entry(d, c) = {}
       /\ Make(d, c, "file")
  /\ UNCHANGED <<op, mode, pc, walk, found, tasks, result, calls>>

-----------------------------------------------------------------------------
Next ==
  \/ \E o \in Ops : Call(o)
  \/ DotDot \/ Missing \/ FollowLink \/ TooManyLinks \/ KeepLink
  \/ NotADirectory \/ Down \/ Arrive
  \/ NotThere \/ Opened \/ DestinationMissing \/ ParentResolved
  \/ DirsThere \/ DirsMade \/ MakeDir \/ CreateLeaf \/ RemoveLeaf
  \/ RemoveAll \/ RemoveEntry \/ ScanDirectory \/ GiveUp \/ AllRemoved
  \/ OtherCreates

Spec == Init /\ [][Next]_vars

-----------------------------------------------------------------------------
Lookups == [dir : Nodes, rest : Seq(Parts)]
Entered == [dir : Nodes, name : Parts, rest : Seq(Parts), left : Nat]
Tasks == [dir : Nodes, name : Names, scanned : BOOLEAN]

TreeType ==
  /\ kind \in [Nodes -> Kinds] /\ parent \in [Nodes -> Nodes]
  /\ name \in [Nodes -> Names] /\ target \in [Nodes -> Targets]

WalkType ==
  /\ at \in Nodes /\ parts \in Seq(Parts) /\ expected \in Seq(Parts)
  /\ links \in Seq(Entered) /\ budget \in Nat

CallType ==
  /\ op \in Calls /\ mode \in Modes /\ pc \in PCs
  /\ result \in [err : Errors, node : Nodes \cup {Nothing}]
  /\ calls \in 0 .. MaxOps /\ others \in 0 .. MaxOthers

WorkType == found \in Lookups /\ tasks \in Seq(Tasks)

(* Variables have their types.                                             *)
TypeOK == TreeType /\ WalkType /\ CallType /\ WorkType

(* Whatever the path and the links in the tree, a call holds no handle     *)
(* outside the root, neither while it resolves a path nor to rewind to,    *)
(* to create or to remove in or to return, and what it creates is in the   *)
(* root: ".." is clamped there and absolute links begin there.             *)
Confined ==
  /\ at \in Inside
  /\ \A i \in DOMAIN links : links[i].dir \in Inside
  /\ found.dir \in Inside
  /\ \A i \in DOMAIN tasks : tasks[i].dir \in Inside
  /\ result.node \in Inside \cup {Nothing}
  /\ Apart(kind, parent)

-----------------------------------------------------------------------------
(* What a path means, as the kernel resolves it with RESOLVE_IN_ROOT: by   *)
(* recursion over the path and over the targets of the links in it, from   *)
(* an inode, with so many links left to follow, a trailing link being kept *)
(* if keep is TRUE.                                                        *)
Walks == [node : Inside, path : Seq(Parts), left : 0 .. MaxSymlinks,
          keep : BOOLEAN]

Resolved(follow, w) ==
  LET c == Head(w.path)
      rest == Tail(w.path)
      there == Entry(w.node, c)
      m == CHOOSE n \in there : TRUE
      Stop(err) == [err |-> err, node |-> Nothing, left |-> w.left]
      From(n, left) ==
        follow[[node |-> n, path |-> rest, left |-> left, keep |-> w.keep]]
      end == follow[[node |-> IF target[m].abs THEN Root ELSE w.node,
                     path |-> target[m].parts, left |-> w.left - 1,
                     keep |-> FALSE]]
  IN IF w.path = <<>> THEN [err |-> "ok", node |-> w.node, left |-> w.left]
     ELSE IF kind[w.node] # "dir" THEN Stop("ENOTDIR")
     ELSE IF c = ".."
       THEN From(IF w.node = Root THEN Root ELSE parent[w.node], w.left)
     ELSE IF there = {} THEN Stop("ENOENT")
     ELSE IF kind[m] # "link" \/ (w.keep /\ rest = <<>>) THEN From(m, w.left)
     ELSE IF w.left = 0 THEN Stop("ELOOP")
     ELSE IF end.err # "ok" THEN end
     ELSE From(end.node, end.left)

Follow == LET follow[w \in Walks] == Resolved(follow, w) IN follow

Leads(n, path, left, keep) ==
  Follow[[node |-> n, path |-> path, left |-> left, keep |-> keep]]
Meaning(path, keep) == Leads(Root, path, MaxSymlinks, keep)

(* The path that the resolution under way is for.                          *)
Asked == IF mode = "parent" \/ (mode = "dirs" /\ MakesFile)
         THEN Front(op.path) ELSE op.path

(* At every step of resolve_partial what is left to resolve, from where it *)
(* is, means what the path meant at the root; it arrives where the kernel  *)
(* would have; and what it reports as missing, and create_directories then *)
(* makes piece by piece, is missing and leads to what the path means. So   *)
(* the walk with its stack and openat2 with RESOLVE_IN_ROOT agree, and     *)
(* check_current refuses no tree that stays as it is.                      *)
WalkKeepsMeaning ==
  LET meant == Meaning(Asked, NoFollow)
  IN /\ result.err # "EACCES"
     /\ pc = "walk" => Leads(at, parts, budget, NoFollow) = meant
     /\ pc = "resolved" => meant.err = "ok" /\ meant.node = at
     /\ pc = "missing" =>
          /\ mode # "dirs" => meant.err = "ENOENT"
          /\ \E left \in 0 .. MaxSymlinks :
               Leads(found.dir, found.rest, left, NoFollow) = meant

(* What open, create_directories and ensure_mount_destination return is    *)
(* what the path leads to now, and what the other calls create is at the   *)
(* path: nothing is created elsewhere, through links or not.               *)
LandsOnPath ==
  pc = "idle" /\ result.node # Nothing =>
    Meaning(op.path, NoFollow \/ UsesParent(op)).node = result.node

(* What is at m and below it: the way up passes m.                         *)
Beneath(m) == {n \in Inside : \A S \in SUBSET Inside :
               n \in S /\ (\A x \in S \ {Root} : parent[x] \in S) => m \in S}

(* What the call for an entry is for, from its leaf to its end.            *)
Operand == Entry(at, Last(op.path))
Removes == op.do \in {"remove_file", "remove_dir", "remove_all"}

RemovalThrough ==
  \/ tasks # <<>> /\ tasks' = <<>>
  \/ pc = "leaf" /\ Removes /\ pc' = "idle" /\ result'.err = "ok"

(* An inode in use stays as it is, unless a removal frees it.              *)
OthersStay ==
  \A n \in Nodes : kind[n] # "free" =>
    \/ kind'[n] = kind[n] /\ parent'[n] = parent[n]
       /\ name'[n] = name[n] /\ target'[n] = target[n]
    \/ Removes /\ kind'[n] = "free" /\ \E m \in Operand : n \in Beneath(m)

(* A call changes its operand and nothing else: a removal frees that and   *)
(* what is below it. It is what the path names, a link not followed, when  *)
(* the removal begins; then it is known by its directory, as the path may  *)
(* lead through what is to be removed. When a removal is through nothing   *)
(* has its name.                                                           *)
OperandOnly ==
  [][/\ OthersStay
     /\ pc = "leaf" /\ Removes =>
          \A n \in Operand : Meaning(op.path, TRUE).node = n
     /\ RemovalThrough => Operand' = {}]_vars
=============================================================================
