---------------------------- MODULE RootFs_proofs ----------------------------
(***************************************************************************)
(* Theorems about RootFs, for all trees, paths and operations, any number  *)
(* of symbolic links and any number of calls.                              *)
(***************************************************************************)
EXTENDS RootFs, FiniteSetTheorems, SequenceTheorems, WellFoundedInduction,
        TLAPS

(* A call that goes on to an entry has a path that ends in a name.         *)
HasLeaf ==
  /\ pc = "leaf" => UsesParent(op) \/ MakesFile
  /\ pc # "idle" /\ mode = "parent" => UsesParent(op)
  /\ pc # "idle" /\ (UsesParent(op) \/ MakesFile) => Last(op.path) \in Names

Inv == TypeOK /\ HasLeaf /\ Confined

-----------------------------------------------------------------------------
(* Sequences.                                                              *)

(* Without their first or last element they have the same elements.        *)
LEMMA TailIn ==
  ASSUME NEW S, NEW s \in Seq(S), s # <<>>
  PROVE  Tail(s) \in Seq(S) /\ Head(s) \in S
         /\ \A P : (\A i \in DOMAIN s : s[i] \in P)
                     => \A i \in DOMAIN Tail(s) : Tail(s)[i] \in P
  OBVIOUS

LEMMA FrontIn ==
  ASSUME NEW S, NEW s \in Seq(S)
  PROVE  /\ Front(s) \in Seq(S)
         /\ \A i \in DOMAIN Front(s) : i \in DOMAIN s /\ Front(s)[i] = s[i]
  BY DEF Front

LEMMA LastIn ==
  ASSUME NEW S, NEW s \in Seq(S), s # <<>>
  PROVE  Last(s) \in S /\ Len(s) \in DOMAIN s /\ Last(s) = s[Len(s)]
  BY DEF Last

LEMMA FunctionIsSeq ==
  ASSUME NEW S, NEW n \in Nat, NEW s \in [1 .. n -> S]
  PROVE  s \in Seq(S)
<1>1. [1 .. n -> S] \in {[1 .. m -> S] : m \in Nat}
  OBVIOUS
<1> QED BY <1>1, SeqDef, Zenon

LEMMA ConcatIn ==
  ASSUME NEW S, NEW s \in Seq(S), NEW t \in Seq(S)
  PROVE  /\ s \o t \in Seq(S)
         /\ \A i \in DOMAIN (s \o t) :
              \/ i \in DOMAIN s /\ (s \o t)[i] = s[i]
              \/ i - Len(s) \in DOMAIN t /\ (s \o t)[i] = t[i - Len(s)]
  BY ConcatProperties

LEMMA AppendIn ==
  ASSUME NEW S, NEW s \in Seq(S), NEW e \in S
  PROVE  /\ Append(s, e) \in Seq(S)
         /\ \A i \in DOMAIN Append(s, e) :
              Append(s, e)[i] = e \/ (i \in DOMAIN s /\ Append(s, e)[i] = s[i])
  BY AppendProperties

-----------------------------------------------------------------------------
(* The tree.                                                               *)

(* The entries of a directory in the root are in the root, and a name      *)
(* other than "." does not lead to the root itself.                        *)
LEMMA Entries ==
  ASSUME NEW n \in Nodes, NEW c
  PROVE  /\ Entry(n, c) \subseteq Nodes
         /\ Apart(kind, parent) /\ n \in Inside => Entry(n, c) \subseteq Inside
         /\ c \in Names => Root \notin Entry(n, c)
  BY NodesAssumption, NamesAssumption DEF Entry, Children, Apart, Inside

LEMMA Making ==
  ASSUME TreeType, ~Full, NEW n \in Nodes, NEW c \in Names,
         NEW what \in Kinds \ {"free"}, Make(n, c, what)
  PROVE  /\ TreeType'
         /\ NewNode \in Nodes
         /\ Apart(kind, parent) =>
              /\ NewNode \in Inside
              /\ n \in Inside => Apart(kind, parent)'
<1>1. NewNode \in Nodes /\ kind[NewNode] = "free"
  BY DEF NewNode, Full
<1>2. TreeType'
  BY <1>1, NewTargetAssumption DEF TreeType, Make
<1>3. ASSUME Apart(kind, parent)
      PROVE  NewNode \in Inside /\ (n \in Inside => Apart(kind, parent)')
  BY <1>1, <1>3, NodesAssumption DEF Apart, Inside, TreeType, Make, Kinds
<1> QED BY <1>1, <1>2, <1>3

LEMMA Unlinking ==
  ASSUME TreeType, NEW n \in Nodes, Unlink(n)
  PROVE  /\ TreeType'
         /\ Apart(kind, parent) /\ n \in Inside \ {Root}
              => Apart(kind, parent)'
  BY NodesAssumption DEF TreeType, Unlink, Apart, Inside, Kinds

LEMMA OneLess ==
  ASSUME NEW r \in Entered, r.left # 0
  PROVE  [r EXCEPT !.left = @ - 1] \in Entered
         /\ [r EXCEPT !.left = @ - 1].dir = r.dir
  BY DEF Entered

(* What is popped off symlink_stack or counted on it was on it before.     *)
LEMMA Consuming ==
  ASSUME NEW s \in Seq(Entered)
  PROVE  /\ Consumed(s) \in Seq(Entered)
         /\ \A i \in DOMAIN Consumed(s) :
              i \in DOMAIN s /\ Consumed(s)[i].dir = s[i].dir
<1>1. CASE s = <<>> \/ Last(s).left = 0
  BY <1>1 DEF Consumed
<1>2. CASE s # <<>> /\ Last(s).left = 1
  BY <1>2, FrontIn DEF Consumed
<1>3. CASE s # <<>> /\ Last(s).left \notin {0, 1}
  <2>1. Len(s) \in DOMAIN s /\ s[Len(s)] \in Entered /\ Last(s) = s[Len(s)]
    BY <1>3, LastIn
  <2> DEFINE e == [s[Len(s)] EXCEPT !.left = @ - 1]
  <2>3. Consumed(s) = [s EXCEPT ![Len(s)] = e]
    BY <1>3 DEF Consumed
  <2>5. e \in Entered /\ e.dir = s[Len(s)].dir
    BY <1>3, <2>1, OneLess
  <2> HIDE DEF e
  <2>6. /\ Consumed(s) \in Seq(Entered) /\ DOMAIN Consumed(s) = DOMAIN s
        /\ \A i \in DOMAIN s : Consumed(s)[i] = IF i = Len(s) THEN e ELSE s[i]
    BY <2>1, <2>3, <2>5, ExceptSeq
  <2> QED BY <2>5, <2>6
<1> QED BY <1>1, <1>2, <1>3

(* The tasks after a directory was listed: those before it, itself, and    *)
(* one for each of its entries.                                            *)
LEMMA Scanning ==
  ASSUME TreeType, tasks \in Seq(Tasks), tasks # <<>>, NEW d \in Nodes,
         NEW order \in SetToSeqs(Children(d)),
         tasks' = Append(Front(tasks), [Top EXCEPT !.scanned = TRUE])
                  \o [i \in DOMAIN order |->
                        [dir |-> d, name |-> name[order[i]],
                         scanned |-> FALSE]]
  PROVE  /\ tasks' \in Seq(Tasks)
         /\ \A i \in DOMAIN tasks' :
              tasks'[i].dir = d \/ \E j \in DOMAIN tasks :
                                       tasks'[i].dir = tasks[j].dir
<1> DEFINE new == [i \in DOMAIN order |->
                     [dir |-> d, name |-> name[order[i]], scanned |-> FALSE]]
           old == Append(Front(tasks), [Top EXCEPT !.scanned = TRUE])
<1>1. IsFiniteSet(Children(d)) /\ Children(d) \subseteq Nodes
  BY NodesAssumption, FS_Subset DEF Children
<1>2. /\ Cardinality(Children(d)) \in Nat
      /\ order \in [1 .. Cardinality(Children(d)) -> Nodes]
  BY <1>1, FS_CardinalityType DEF SetToSeqs
<1>3. new \in Seq(Tasks) /\ \A i \in DOMAIN new : new[i].dir = d
  <2>1. \A i \in DOMAIN order :
          [dir |-> d, name |-> name[order[i]], scanned |-> FALSE] \in Tasks
    BY <1>2 DEF TreeType, Tasks
  <2>2. new \in [1 .. Cardinality(Children(d)) -> Tasks]
    BY <1>2, <2>1
  <2> HIDE DEF new
  <2>3. new \in Seq(Tasks)
    BY <1>2, <2>2, FunctionIsSeq
  <2> QED BY <2>3 DEF new
<1>4. Top \in Tasks /\ Top = tasks[Len(tasks)] /\ Len(tasks) \in DOMAIN tasks
  BY LastIn DEF Top
<1>5. [Top EXCEPT !.scanned = TRUE] \in Tasks
      /\ [Top EXCEPT !.scanned = TRUE].dir = Top.dir
  BY <1>4 DEF Tasks
<1>6. /\ old \in Seq(Tasks)
      /\ \A i \in DOMAIN old :
           \E j \in DOMAIN tasks : old[i].dir = tasks[j].dir
  <2> DEFINE f == Front(tasks)
             e == [Top EXCEPT !.scanned = TRUE]
  <2>1. f \in Seq(Tasks) /\ \A i \in DOMAIN f : i \in DOMAIN tasks /\ f[i] = tasks[i]
    BY FrontIn
  <2>2. e \in Tasks /\ e.dir = tasks[Len(tasks)].dir /\ Len(tasks) \in DOMAIN tasks
    BY <1>4, <1>5
  <2> HIDE DEF f, e
  <2>3. /\ Append(f, e) \in Seq(Tasks)
        /\ \A i \in DOMAIN Append(f, e) :
             Append(f, e)[i] = e \/ (i \in DOMAIN f /\ Append(f, e)[i] = f[i])
    BY <2>1, <2>2, AppendIn
  <2> QED BY <2>1, <2>2, <2>3 DEF f, e
<1> HIDE DEF new, old
<1>7. tasks' = old \o new
  BY DEF new, old
<1>8. /\ old \o new \in Seq(Tasks)
      /\ \A i \in DOMAIN (old \o new) :
           \/ i \in DOMAIN old /\ (old \o new)[i] = old[i]
           \/ i - Len(old) \in DOMAIN new /\ (old \o new)[i] = new[i - Len(old)]
  BY <1>3, <1>6, ConcatIn
<1>9. ASSUME NEW i \in DOMAIN (old \o new)
      PROVE  (old \o new)[i].dir = d
             \/ \E j \in DOMAIN tasks : (old \o new)[i].dir = tasks[j].dir
  <2>1. CASE i \in DOMAIN old /\ (old \o new)[i] = old[i]
    BY <1>6, <2>1
  <2>2. CASE i - Len(old) \in DOMAIN new /\ (old \o new)[i] = new[i - Len(old)]
    BY <1>3, <2>2
  <2> QED BY <1>8, <2>1, <2>2
<1> QED BY <1>7, <1>8, <1>9

-----------------------------------------------------------------------------
(* Types.                                                                  *)

LEMMA Resolving ==
  ASSUME NEW path \in Seq(Parts), NEW why \in Modes, Resolve(path, why)
  PROVE  WalkType' /\ mode' \in Modes /\ pc' \in PCs
  BY NodesAssumption, BoundsAssumption DEF Resolve, WalkType, PCs

LEMMA CallStep ==
  ASSUME TypeOK, HasLeaf, NEW o \in Ops, Call(o)
  PROVE  TypeOK' /\ HasLeaf'
<1> USE DEF TypeOK
<1>1. o \in Calls /\ o.path \in Seq(Parts) /\ Front(o.path) \in Seq(Parts)
  BY OpsAssumption, FrontIn DEF Calls
<1>2. TreeType' /\ WorkType' /\ op' \in Calls
  BY <1>1 DEF Call, tree, TreeType, WorkType
<1>3. calls' \in 0 .. MaxOps /\ others' \in 0 .. MaxOthers
  BY BoundsAssumption DEF Call, CallType
<1>4. CASE UsesParent(o) /\ Last(o.path) \notin Names /\ Fail("EINVAL")
           /\ UNCHANGED <<mode, walk>>
  <2>1. CallType'
    BY <1>2, <1>3, <1>4 DEF CallType, Fail, Return, PCs, Errors
  <2> QED BY <1>2, <1>4, <2>1 DEF WalkType, walk, HasLeaf, Fail, Return
<1>5. CASE UsesParent(o) /\ Last(o.path) \in Names
           /\ Resolve(Front(o.path), "parent") /\ UNCHANGED result
  <2>1. CallType' /\ WalkType'
    BY <1>1, <1>2, <1>3, <1>5, Resolving DEF CallType, Modes
  <2>2. HasLeaf'
    BY <1>5, OpsAssumption DEF Call, HasLeaf, Resolve, UsesParent, MakesFile
  <2> QED BY <1>2, <2>1, <2>2
<1>6. CASE ~UsesParent(o) /\ UNCHANGED result
           /\ Resolve(o.path, CASE o.do = "open" -> "open"
                             [] o.do = "create_directories" -> "dirs"
                             [] o.do = "ensure_mount_destination" -> "probe")
  <2> DEFINE why == CASE o.do = "open" -> "open"
                      [] o.do = "create_directories" -> "dirs"
                      [] o.do = "ensure_mount_destination" -> "probe"
  <2>1. why \in Modes /\ why # "parent"
    BY <1>1, <1>6 DEF Calls, UsesParent, Modes
  <2>2. CallType' /\ WalkType'
    BY <1>1, <1>2, <1>3, <1>6, <2>1, Resolving DEF CallType
  <2>3. HasLeaf'
    BY <1>6, <2>1, OpsAssumption
       DEF Call, HasLeaf, Resolve, UsesParent, MakesFile
  <2> QED BY <1>2, <2>2, <2>3
<1> QED BY <1>4, <1>5, <1>6 DEF Call

(* The steps of resolve_partial.                                           *)
LEMMA WalkStep ==
  ASSUME TypeOK, HasLeaf,
         \/ DotDot \/ Missing \/ FollowLink \/ TooManyLinks \/ KeepLink
         \/ NotADirectory \/ Down \/ Arrive
  PROVE  TypeOK' /\ HasLeaf'
<1> USE DEF TypeOK
<1>1. CASE UNCHANGED <<tree, op, mode, bounds>> /\ pc' \in PCs \ {"leaf"}
           /\ WalkType' /\ WorkType' /\ (pc = "idle" => pc' = "idle")
           /\ result' \in [err : Errors, node : Nodes \cup {Nothing}]
  <2>1. TreeType' /\ CallType'
    BY <1>1 DEF tree, bounds, TreeType, CallType
  <2>2. HasLeaf'
    BY <1>1 DEF HasLeaf, UsesParent, MakesFile
  <2> QED BY <1>1, <2>1, <2>2
<1> USE DEF PCs, Errors
<1>2. ASSUME InWalk
      PROVE  /\ Tail(parts) \in Seq(Parts) /\ Head(parts) \in Parts
             /\ Here \subseteq Nodes
             /\ Consumed(links) \in Seq(Entered)
             /\ pc # "idle"
  BY <1>2, TailIn, Entries, Consuming DEF InWalk, Here, WalkType
<1>3. CASE DotDot
  <2>1. Front(expected) \in Seq(Parts)
    BY FrontIn DEF WalkType
  <2>2. WalkType'
    BY <1>2, <1>3, <2>1, NodesAssumption DEF DotDot, walk, WalkType, TreeType
  <2>3. pc' \in PCs \ {"leaf"}
        /\ result' \in [err : Errors, node : Nodes \cup {Nothing}]
    BY <1>2, <1>3 DEF DotDot, Fail, Return, InWalk, CallType
  <2> QED BY <1>1, <1>2, <1>3, <2>2, <2>3 DEF DotDot, WorkType
<1>4. CASE Missing
  <2>1. found' \in Lookups
    <3>1. CASE links = <<>>
      BY <1>4, <3>1 DEF Missing, WalkType, Lookups
    <3>2. CASE links # <<>>
      <4>1. Head(links) \in Entered
        BY <3>2, TailIn DEF WalkType
      <4>2. <<Head(links).name>> \o Head(links).rest \in Seq(Parts)
        BY <4>1, ConcatIn DEF Entered
      <4> QED BY <1>4, <3>2, <4>1, <4>2 DEF Missing, Lookups, Entered
    <3> QED BY <3>1, <3>2
  <2>2. WalkType' /\ WorkType'
    BY <1>4, <2>1 DEF Missing, walk, WalkType, WorkType
  <2> QED BY <1>1, <1>2, <1>4, <2>2 DEF Missing, CallType
<1>5. CASE FollowLink
  <2>1. PICK n \in Here :
          /\ budget > 0
          /\ budget' = budget - 1
          /\ links' = Append(links, [dir |-> at, name |-> Head(parts),
                                     rest |-> Tail(parts),
                                     left |-> Len(target[n].parts)])
          /\ at' = IF target[n].abs THEN Root ELSE at
          /\ expected' = IF target[n].abs THEN <<>> ELSE expected
          /\ parts' = target[n].parts \o Tail(parts)
    BY <1>5 DEF FollowLink
  <2>2. InWalk /\ n \in Nodes /\ target[n].parts \in Seq(Parts)
    BY <1>2, <1>5 DEF FollowLink, TreeType, Targets
  <2>3. links' \in Seq(Entered)
    BY <1>2, <2>1, <2>2, AppendIn DEF WalkType, Entered
  <2>4. parts' \in Seq(Parts)
    BY <1>2, <2>1, <2>2, ConcatIn
  <2>5. WalkType'
    BY <2>1, <2>3, <2>4, NodesAssumption DEF WalkType
  <2> QED BY <1>1, <1>2, <1>5, <2>2, <2>5
          DEF FollowLink, InWalk, CallType, WorkType
<1>6. CASE TooManyLinks \/ NotADirectory
  BY <1>1, <1>2, <1>6 DEF TooManyLinks, NotADirectory, Fail, Return, walk,
                          WalkType, WorkType
<1>7. CASE KeepLink
  BY <1>1, <1>2, <1>7 DEF KeepLink, CallType, WalkType, WorkType
<1>8. CASE Down
  <2>1. expected' \in Seq(Parts)
    BY <1>2, <1>8, AppendIn DEF Down, WalkType
  <2>2. WalkType'
    BY <1>2, <1>8, <2>1 DEF Down, WalkType
  <2> QED BY <1>1, <1>2, <1>8, <2>2 DEF Down, InWalk, CallType, WorkType
<1>9. CASE Arrive
  BY <1>1, <1>9 DEF Arrive, Fail, Return, walk, WalkType, WorkType, CallType
<1> QED BY <1>3, <1>4, <1>5, <1>6, <1>7, <1>8, <1>9

(* The steps of the calls after the resolution.                            *)
LEMMA DirsStep ==
  ASSUME TypeOK, HasLeaf,
         \/ NotThere \/ Opened \/ DestinationMissing \/ ParentResolved
         \/ DirsThere \/ DirsMade \/ MakeDir
  PROVE  TypeOK' /\ HasLeaf'
<1> USE DEF TypeOK, PCs, Errors
<1>1. CASE NotThere \/ Opened \/ ParentResolved
  BY <1>1 DEF NotThere, Opened, ParentResolved, Fail, Return, tree, walk, bounds,
              TreeType, WalkType, CallType, WorkType, HasLeaf, UsesParent,
              MakesFile
<1>2. CASE DestinationMissing
  <2> DEFINE path == IF MakesFile THEN Front(op.path) ELSE op.path
  <2>1. path \in Seq(Parts)
    BY FrontIn DEF CallType, Calls
  <2>2. Resolve(path, "dirs") /\ "dirs" \in Modes
    BY <1>2 DEF DestinationMissing, Modes
  <2>3. WalkType' /\ mode' \in Modes /\ pc' \in PCs
    BY <2>1, <2>2, Resolving
  <2> QED BY <1>2, <2>2, <2>3
          DEF DestinationMissing, Resolve, tree, bounds, TreeType, CallType,
              WorkType, HasLeaf, UsesParent, MakesFile
<1>3. CASE DirsThere
  BY <1>3 DEF DirsThere, HaveDirs, Fail, Return, tree, bounds, TreeType,
              WalkType, CallType, WorkType, HasLeaf, UsesParent, MakesFile
<1>4. CASE DirsMade
  BY <1>4 DEF DirsMade, HaveDirs, Fail, Return, tree, bounds, TreeType,
              WalkType, CallType, WorkType, HasLeaf, UsesParent, MakesFile,
              Lookups
<1>5. CASE MakeDir
  <2> DEFINE c == Head(found.rest)
  <2>1. found.dir \in Nodes /\ c \in Parts /\ Tail(found.rest) \in Seq(Parts)
    BY <1>5, TailIn DEF MakeDir, WorkType, Lookups
  <2>2. CASE /\ c # ".." /\ Entry(found.dir, c) = {} /\ ~Full
             /\ Make(found.dir, c, "dir")
             /\ found' = [dir |-> NewNode, rest |-> Tail(found.rest)]
             /\ UNCHANGED <<pc, result>>
    <3>1. c \in Names
      BY <2>1, <2>2 DEF Entry, Parts
    <3>2. TreeType' /\ NewNode \in Nodes
      BY <2>1, <2>2, <3>1, Making DEF Kinds
    <3> QED BY <1>5, <2>1, <2>2, <3>2
            DEF MakeDir, walk, bounds, WalkType, CallType, WorkType, Lookups,
                HasLeaf, UsesParent, MakesFile
  <2>3. CASE UNCHANGED <<tree, found>> /\ \E err \in Errors : Fail(err)
    BY <1>5, <2>3 DEF MakeDir, Fail, Return, tree, walk, bounds, TreeType,
              WalkType, CallType, WorkType, HasLeaf
  <2>4. CASE /\ UNCHANGED <<tree, pc, result>>
             /\ \E n \in Entry(found.dir, c) :
                  found' = [dir |-> n, rest |-> Tail(found.rest)]
    <3>1. found' \in Lookups
      BY <2>1, <2>4, Entries DEF Lookups
    <3> QED BY <1>5, <2>4, <3>1 DEF MakeDir, tree, walk, bounds, TreeType,
              WalkType, CallType, WorkType, HasLeaf, UsesParent, MakesFile
  <2> QED BY <1>5, <2>2, <2>3, <2>4 DEF MakeDir
<1> QED BY <1>1, <1>2, <1>3, <1>4, <1>5

LEMMA LeafStep ==
  ASSUME TypeOK, HasLeaf, CreateLeaf \/ RemoveLeaf \/ RemoveAll
  PROVE  TypeOK' /\ HasLeaf'
<1> USE DEF TypeOK, PCs, Errors
<1> DEFINE c == Last(op.path)
<1>1. at \in Nodes /\ c \in Names /\ Entry(at, c) \subseteq Nodes
  BY Entries DEF HasLeaf, WalkType, CreateLeaf, RemoveLeaf, RemoveAll
<1>2. ASSUME TreeType', UNCHANGED <<op, mode, walk, found, tasks, bounds>>,
             NEW err \in Errors, NEW n \in Nodes \cup {Nothing}, Return(err, n)
      PROVE  TypeOK' /\ HasLeaf'
  BY <1>2 DEF Return, walk, bounds, WalkType, CallType, WorkType, HasLeaf
<1>3. CASE CreateLeaf
  <2>1. CASE UNCHANGED tree /\ \E err \in Errors : Fail(err)
    BY <1>2, <1>3, <2>1 DEF CreateLeaf, tree, TreeType, Fail
  <2>2. CASE UNCHANGED tree /\ \E n \in Entry(at, c) : Return("ok", n)
    BY <1>1, <1>2, <1>3, <2>2 DEF CreateLeaf, tree, TreeType
  <2>3. CASE ~Full /\ Return("ok", NewNode)
             /\ \E what \in Kinds \ {"free"} : Make(at, c, what)
    <3>1. TreeType' /\ NewNode \in Nodes
      BY <1>1, <2>3, Making
    <3> QED BY <1>2, <1>3, <2>3, <3>1 DEF CreateLeaf
  <2> QED BY <1>1, <1>3, <2>1, <2>2, <2>3 DEF CreateLeaf, Kinds
<1>4. CASE RemoveLeaf
  <2>1. CASE UNCHANGED tree /\ \E err \in Errors : Fail(err)
    BY <1>2, <1>4, <2>1 DEF RemoveLeaf, tree, TreeType, Fail
  <2>2. CASE Return("ok", Nothing) /\ \E n \in Entry(at, c) : Unlink(n)
    BY <1>1, <1>2, <1>4, <2>2, Unlinking DEF RemoveLeaf
  <2> QED BY <1>4, <2>1, <2>2 DEF RemoveLeaf
<1>5. CASE RemoveAll
  BY <1>1, <1>5 DEF RemoveAll, tree, walk, bounds, TreeType, WalkType, CallType,
                    WorkType, Tasks, HasLeaf
<1> QED BY <1>3, <1>4, <1>5

LEMMA RemoveStep ==
  ASSUME TypeOK, HasLeaf,
         RemoveEntry \/ ScanDirectory \/ GiveUp \/ AllRemoved \/ OtherCreates
  PROVE  TypeOK' /\ HasLeaf'
<1> USE DEF TypeOK, PCs, Errors
<1>1. ASSUME tasks # <<>>
      PROVE  Top \in Tasks /\ Front(tasks) \in Seq(Tasks)
             /\ Entry(Top.dir, Top.name) \subseteq Nodes
  <2>1. Front(tasks) \in Seq(Tasks) /\ Top \in Tasks
    BY <1>1, FrontIn, LastIn DEF Top, WorkType
  <2>2. Top.dir \in Nodes
    BY <2>1 DEF Tasks
  <2> QED BY <2>1, <2>2, Entries
<1>2. CASE RemoveEntry
  <2>1. TreeType'
    BY <1>1, <1>2, Unlinking DEF RemoveEntry, tree, TreeType
  <2> QED BY <1>1, <1>2, <2>1
          DEF RemoveEntry, walk, bounds, WalkType, CallType, WorkType, HasLeaf,
              UsesParent, MakesFile
<1>3. CASE ScanDirectory
  <2>1. PICK d \in Entry(Top.dir, Top.name) :
          \E order \in SetToSeqs(Children(d)) :
            tasks' = Append(Front(tasks), [Top EXCEPT !.scanned = TRUE])
                     \o [i \in DOMAIN order |->
                           [dir |-> d, name |-> name[order[i]],
                            scanned |-> FALSE]]
    BY <1>3 DEF ScanDirectory
  <2>2. tasks' \in Seq(Tasks)
    <3>1. d \in Nodes /\ tasks # <<>> /\ tasks \in Seq(Tasks) /\ TreeType
      BY <1>1, <1>3, <2>1 DEF ScanDirectory, WorkType
    <3> QED BY <2>1, <3>1, Scanning
  <2> QED BY <1>3, <2>2
          DEF ScanDirectory, tree, walk, bounds, TreeType, WalkType, CallType,
              WorkType, HasLeaf, UsesParent, MakesFile
<1>4. CASE GiveUp \/ AllRemoved
  BY <1>4 DEF GiveUp, AllRemoved, Fail, Return, tree, walk, bounds, TreeType,
              WalkType, CallType, WorkType, HasLeaf
<1>5. CASE OtherCreates
  <2>1. TreeType'
    BY <1>5, Making DEF OtherCreates, Inside, Kinds
  <2> QED BY <1>5, <2>1, BoundsAssumption
          DEF OtherCreates, walk, WalkType, CallType, WorkType, HasLeaf,
              UsesParent, MakesFile
<1> QED BY <1>2, <1>3, <1>4, <1>5

-----------------------------------------------------------------------------
(* Handles.                                                                *)

LEMMA WalkConfined ==
  ASSUME TypeOK, Confined,
         \/ DotDot \/ Missing \/ FollowLink \/ TooManyLinks \/ KeepLink
         \/ NotADirectory \/ Down \/ Arrive
  PROVE  Confined'
<1> USE DEF TypeOK, Confined
<1>1. Apart(kind, parent)' /\ tasks' = tasks
      /\ (result'.node = result.node \/ result'.node = Nothing)
  <2>1. UNCHANGED <<tree, tasks>>
    BY DEF DotDot, Missing, FollowLink, TooManyLinks, KeepLink, NotADirectory,
           Down, Arrive
  <2>2. UNCHANGED result \/ \E err \in Errors : Fail(err)
    BY DEF DotDot, Missing, FollowLink, TooManyLinks, KeepLink, NotADirectory,
           Down, Arrive, Errors
  <2> QED BY <2>1, <2>2 DEF tree, Apart, Fail, Return
<1>2. Root \in Inside /\ at \in Nodes /\ links \in Seq(Entered)
  BY NodesAssumption DEF Inside, WalkType
<1>3. InWalk => Here \subseteq Inside
  BY <1>2, Entries DEF Here
<1>4. \A i \in DOMAIN Consumed(links) : Consumed(links)[i].dir \in Inside
  BY <1>2, Consuming
<1>5. CASE DotDot
  <2>1. at # Root => parent[at] \in Inside
    BY <1>2 DEF Apart
  <2> QED BY <1>1, <1>2, <1>4, <1>5, <2>1 DEF DotDot, walk
<1>6. CASE Missing
  <2>1. links # <<>> => Head(links).dir \in Inside
    BY <1>2
  <2> QED BY <1>1, <1>6, <2>1 DEF Missing, walk
<1>7. CASE FollowLink
  <2>1. PICK n \in Here :
          /\ at' = IF target[n].abs THEN Root ELSE at
          /\ links' = Append(links, [dir |-> at, name |-> Head(parts),
                                     rest |-> Tail(parts),
                                     left |-> Len(target[n].parts)])
    BY <1>7 DEF FollowLink
  <2>2. \A i \in DOMAIN links' : links'[i].dir \in Inside
    BY <1>2, <2>1
  <2> QED BY <1>1, <1>2, <1>7, <2>1, <2>2 DEF FollowLink
<1>8. CASE TooManyLinks \/ NotADirectory \/ Arrive
  BY <1>1, <1>8 DEF TooManyLinks, NotADirectory, Arrive, walk
<1>9. CASE KeepLink
  BY <1>1, <1>3, <1>9 DEF KeepLink
<1>10. CASE Down
  BY <1>1, <1>3, <1>4, <1>10 DEF Down
<1> QED BY <1>5, <1>6, <1>7, <1>8, <1>9, <1>10

LEMMA DirsConfined ==
  ASSUME TypeOK, HasLeaf, Confined,
         \/ NotThere \/ Opened \/ DestinationMissing \/ ParentResolved
         \/ DirsThere \/ DirsMade \/ MakeDir
  PROVE  Confined'
<1> USE DEF TypeOK, Confined
<1>1. CASE NotThere \/ Opened \/ ParentResolved
  BY <1>1 DEF NotThere, Opened, ParentResolved, Fail, Return, tree, walk, Apart
<1>2. CASE DestinationMissing
  BY <1>2, NodesAssumption
     DEF DestinationMissing, Resolve, tree, Apart, Inside
<1>3. CASE DirsThere \/ DirsMade
  BY <1>3 DEF DirsThere, DirsMade, HaveDirs, Fail, Return, tree, Apart
<1>4. CASE MakeDir
  <2> DEFINE c == Head(found.rest)
  <2>1. found.dir \in Nodes /\ c \in Parts
    BY <1>4, TailIn DEF MakeDir, WorkType, Lookups
  <2>2. CASE /\ c # ".." /\ Entry(found.dir, c) = {} /\ ~Full
             /\ Make(found.dir, c, "dir")
             /\ found' = [dir |-> NewNode, rest |-> Tail(found.rest)]
             /\ UNCHANGED <<pc, result>>
    <3>1. c \in Names
      BY <2>1, <2>2 DEF Entry, Parts
    <3>2. NewNode \in Inside /\ Apart(kind, parent)'
      BY <2>1, <2>2, <3>1, Making DEF Kinds
    <3> QED BY <1>4, <2>2, <3>2 DEF MakeDir, walk
  <2>3. CASE UNCHANGED <<tree, found>> /\ \E err \in Errors : Fail(err)
    BY <1>4, <2>3 DEF MakeDir, Fail, Return, tree, walk, Apart
  <2>4. CASE /\ UNCHANGED <<tree, pc, result>>
             /\ \E n \in Entry(found.dir, c) :
                  found' = [dir |-> n, rest |-> Tail(found.rest)]
    BY <1>4, <2>1, <2>4, Entries DEF MakeDir, tree, walk, Apart
  <2> QED BY <1>4, <2>2, <2>3, <2>4 DEF MakeDir, Errors
<1> QED BY <1>1, <1>2, <1>3, <1>4

LEMMA LeafConfined ==
  ASSUME TypeOK, HasLeaf, Confined, CreateLeaf \/ RemoveLeaf \/ RemoveAll
  PROVE  Confined'
<1> USE DEF TypeOK, Confined
<1> DEFINE c == Last(op.path)
<1>1. at \in Nodes /\ c \in Names /\ Entry(at, c) \subseteq Inside \ {Root}
  BY Entries DEF HasLeaf, WalkType, CreateLeaf, RemoveLeaf, RemoveAll
<1>2. ASSUME Apart(kind, parent)', UNCHANGED <<op, mode, walk, found, tasks>>,
             NEW err, NEW n \in Inside \cup {Nothing}, Return(err, n)
      PROVE  Confined'
  BY <1>2 DEF Return, walk
<1>3. CASE CreateLeaf
  <2>1. CASE UNCHANGED tree /\ \E err \in Errors : Fail(err)
    BY <1>2, <1>3, <2>1 DEF CreateLeaf, tree, Apart, Fail
  <2>2. CASE UNCHANGED tree /\ \E n \in Entry(at, c) : Return("ok", n)
    BY <1>1, <1>2, <1>3, <2>2 DEF CreateLeaf, tree, Apart
  <2>3. CASE ~Full /\ Return("ok", NewNode)
             /\ \E what \in Kinds \ {"free"} : Make(at, c, what)
    <3>1. Apart(kind, parent)' /\ NewNode \in Inside
      BY <1>1, <2>3, Making
    <3> QED BY <1>2, <1>3, <2>3, <3>1 DEF CreateLeaf
  <2> QED BY <1>1, <1>3, <2>1, <2>2, <2>3 DEF CreateLeaf, Kinds, Errors
<1>4. CASE RemoveLeaf
  <2>1. CASE UNCHANGED tree /\ \E err \in Errors : Fail(err)
    BY <1>2, <1>4, <2>1 DEF RemoveLeaf, tree, Apart, Fail
  <2>2. CASE Return("ok", Nothing) /\ \E n \in Entry(at, c) : Unlink(n)
    <3>1. Apart(kind, parent)'
      BY <1>1, <2>2, Unlinking DEF Inside
    <3> QED BY <1>2, <1>4, <2>2, <3>1 DEF RemoveLeaf
  <2> QED BY <1>4, <2>1, <2>2 DEF RemoveLeaf, Errors
<1>5. CASE RemoveAll
  BY <1>5 DEF RemoveAll, tree, walk, Apart
<1> QED BY <1>3, <1>4, <1>5

LEMMA RemoveConfined ==
  ASSUME TypeOK, Confined,
         RemoveEntry \/ ScanDirectory \/ GiveUp \/ AllRemoved \/ OtherCreates
  PROVE  Confined'
<1> USE DEF TypeOK, Confined
<1>1. ASSUME tasks # <<>>
      PROVE  /\ Top \in Tasks /\ Top.dir \in Inside
             /\ Entry(Top.dir, Top.name) \subseteq Inside \ {Root}
             /\ \A i \in DOMAIN Front(tasks) : Front(tasks)[i].dir \in Inside
  <2>1. Top \in Tasks /\ Top.dir \in Inside
        /\ \A i \in DOMAIN Front(tasks) : Front(tasks)[i].dir \in Inside
    BY <1>1, FrontIn, LastIn DEF Top, WorkType
  <2> QED BY <2>1, Entries DEF Tasks
<1>2. CASE RemoveEntry
  <2>1. Apart(kind, parent)'
    BY <1>1, <1>2, Unlinking DEF RemoveEntry, tree, Apart, Inside
  <2> QED BY <1>1, <1>2, <2>1 DEF RemoveEntry, walk
<1>3. CASE ScanDirectory
  <2>1. PICK d \in Entry(Top.dir, Top.name) :
          \E order \in SetToSeqs(Children(d)) :
            tasks' = Append(Front(tasks), [Top EXCEPT !.scanned = TRUE])
                     \o [i \in DOMAIN order |->
                           [dir |-> d, name |-> name[order[i]],
                            scanned |-> FALSE]]
    BY <1>3 DEF ScanDirectory
  <2>2. d \in Nodes /\ d \in Inside /\ tasks # <<>> /\ tasks \in Seq(Tasks)
    BY <1>1, <1>3, <2>1 DEF ScanDirectory, WorkType, Inside
  <2>3. \A i \in DOMAIN tasks' :
          tasks'[i].dir = d \/ \E j \in DOMAIN tasks :
                                   tasks'[i].dir = tasks[j].dir
    BY <2>1, <2>2, Scanning
  <2> QED BY <1>3, <2>2, <2>3 DEF ScanDirectory, tree, walk, Apart
<1>4. CASE GiveUp \/ AllRemoved
  BY <1>4 DEF GiveUp, AllRemoved, Fail, Return, tree, walk, Apart
<1>5. CASE OtherCreates
  <2>1. Apart(kind, parent)'
    BY <1>5, Making DEF OtherCreates, Inside, Kinds
  <2> QED BY <1>5, <2>1 DEF OtherCreates, walk
<1> QED BY <1>2, <1>3, <1>4, <1>5

-----------------------------------------------------------------------------
LEMMA InitInv == Init => Inv
<1> SUFFICES ASSUME Init PROVE Inv
  OBVIOUS
<1>1. TypeOK
  BY NodesAssumption, TreesAssumption, BoundsAssumption
     DEF Init, TypeOK, TreeType, WalkType, CallType, WorkType, Calls, Flags,
         Modes, PCs, Errors, Lookups
<1>2. HasLeaf /\ Confined
  BY NodesAssumption, TreesAssumption DEF Init, HasLeaf, Confined, Inside
<1> QED BY <1>1, <1>2 DEF Inv

LEMMA StepInv == Inv /\ [Next]_vars => Inv'
<1> SUFFICES ASSUME Inv, [Next]_vars PROVE Inv'
  OBVIOUS
<1> USE DEF Inv
<1>1. ASSUME NEW o \in Ops, Call(o) PROVE Inv'
  <2>1. Confined'
    BY <1>1, NodesAssumption
       DEF Call, Resolve, Fail, Return, tree, walk, Confined, Apart, Inside
  <2> QED BY <1>1, <2>1, CallStep
<1>2. CASE DotDot \/ Missing \/ FollowLink \/ TooManyLinks \/ KeepLink
           \/ NotADirectory \/ Down \/ Arrive
  BY <1>2, WalkStep, WalkConfined
<1>3. CASE NotThere \/ Opened \/ DestinationMissing \/ ParentResolved
           \/ DirsThere \/ DirsMade \/ MakeDir
  BY <1>3, DirsStep, DirsConfined
<1>4. CASE CreateLeaf \/ RemoveLeaf \/ RemoveAll
  BY <1>4, LeafStep, LeafConfined
<1>5. CASE RemoveEntry \/ ScanDirectory \/ GiveUp \/ AllRemoved \/ OtherCreates
  BY <1>5, RemoveStep, RemoveConfined
<1>6. CASE UNCHANGED vars
  BY <1>6 DEF vars, tree, walk, bounds, TypeOK, TreeType, WalkType, CallType,
              WorkType, HasLeaf, UsesParent, MakesFile, Confined, Apart
<1> QED BY <1>1, <1>2, <1>3, <1>4, <1>5, <1>6 DEF Next

LEMMA Invariance == Spec => []Inv
  BY InitInv, StepInv, PTL DEF Spec

-----------------------------------------------------------------------------
(* Recursion: what is below the members of a set, by a relation, can be    *)
(* left out of it from the bottom.                                         *)
Minimal(S, R) ==
  \A T \in SUBSET S : T # {} => \E x \in T : \A y \in T : <<y, x>> \notin R

(* G gives the value of f at w from the values of f below w.               *)
Local(S, R, X, G) ==
  /\ G \in [S \X [S -> X] -> X]
  /\ \A w \in S : \A f, g \in [S -> X] :
       (\A v \in S : <<v, w>> \in R => f[v] = g[v]) => G[<<w, f>>] = G[<<w, g>>]

Solves(S, X, G, f) == f \in [S -> X] /\ \A w \in S : f[w] = G[<<w, f>>]

LEMMA Recursion ==
  ASSUME NEW S, NEW R, NEW X, NEW G, Minimal(S, R), X # {}, Local(S, R, X, G)
  PROVE  \E f : Solves(S, X, G, f)
<1>. USE DEF Local
<1> DEFINE Good(f, C) ==
             /\ \A w \in C : \A v \in S : <<v, w>> \in R => v \in C
             /\ \A w \in C : f[w] = G[<<w, f>>]
           Has(f, w) == \E C \in SUBSET S : Good(f, C) /\ w \in C
           U == {w \in S : \E f \in [S -> X] : Has(f, w)}
           P(w) == CHOOSE f \in [S -> X] : Has(f, w)
           h == [w \in S |-> IF w \in U THEN P(w)[w] ELSE CHOOSE x \in X : TRUE]
<1>1. ASSUME NEW f \in [S -> X], NEW g \in [S -> X],
             NEW C \in SUBSET S, NEW D \in SUBSET S, Good(f, C), Good(g, D),
             NEW u \in C \cap D
      PROVE  f[u] = g[u]
  <2> DEFINE T == {w \in C \cap D : f[w] # g[w]}
  <2>. SUFFICES ASSUME T # {} PROVE FALSE
    OBVIOUS
  <2>1. T \in SUBSET S
    OBVIOUS
  <2>2. PICK w \in T : \A y \in T : <<y, w>> \notin R
    <3>. HIDE DEF T
    <3>. QED BY <2>1 DEF Minimal
  <2>3. \A v \in S : <<v, w>> \in R => f[v] = g[v]
    BY <1>1, <2>2
  <2>4. G[<<w, f>>] = G[<<w, g>>]
    BY <2>1, <2>3
  <2>. QED BY <1>1, <2>4
<1>2. \A w \in U : P(w) \in [S -> X] /\ Has(P(w), w)
  <2>. TAKE w \in U
  <2>1. \E f \in [S -> X] : Has(f, w)
    OBVIOUS
  <2>. HIDE DEF Has
  <2>. QED BY <2>1
<1>3. h \in [S -> X]
  <2>1. (CHOOSE x \in X : TRUE) \in X
    OBVIOUS
  <2>2. \A w \in S : w \in U => P(w)[w] \in X
    <3>. HIDE DEF Has, U, P
    <3>. QED BY <1>2
  <2>. HIDE DEF Has, U, P
  <2>. QED BY <2>1, <2>2
<1>4. ASSUME NEW f \in [S -> X], NEW C \in SUBSET S, Good(f, C), NEW u \in C
      PROVE  u \in U /\ h[u] = f[u]
  <2>1. Has(f, u)
    BY <1>4
  <2>2. u \in U
    BY <2>1
  <2>3. PICK D \in SUBSET S : Good(P(u), D) /\ u \in D
    BY <1>2, <2>2
  <2>4. P(u)[u] = f[u]
    <3>1. P(u) \in [S -> X]
      BY <1>2, <2>2
    <3>. HIDE DEF P, Good
    <3>. QED BY <1>1, <1>4, <2>3, <3>1
  <2>5. h[u] = P(u)[u]
    <3>. HIDE DEF P, U
    <3>. QED BY <2>2
  <2>. QED BY <2>2, <2>4, <2>5
<1>5. ASSUME NEW u \in U
      PROVE  /\ h[u] = G[<<u, h>>]
             /\ \A v \in S : <<v, u>> \in R => v \in U
  <2>1. PICK C \in SUBSET S : Good(P(u), C) /\ u \in C
    BY <1>2
  <2> DEFINE f == P(u)
  <2>2. f \in [S -> X]
    BY <1>2
  <2>. HIDE DEF f, P, h, U
  <2>3. \A v \in C : v \in U /\ h[v] = f[v]
    <3>. HIDE DEF Good
    <3>. QED BY <1>4, <2>1, <2>2 DEF f
  <2>4. \A v \in S : <<v, u>> \in R => v \in C
    BY <2>1
  <2>5. f[u] = G[<<u, f>>]
    BY <2>1 DEF f
  <2>6. u \in S /\ h[u] = f[u]
    BY <2>1, <2>3
  <2>7. G[<<u, h>>] = G[<<u, f>>]
    BY <1>3, <2>2, <2>3, <2>4, <2>6
  <2>. QED BY <2>3, <2>4, <2>5, <2>6, <2>7
<1>6. U \subseteq S
  OBVIOUS
<1>7. S \subseteq U
  <2>. SUFFICES ASSUME S \ U # {} PROVE FALSE
    OBVIOUS
  <2>1. PICK w \in S \ U : \A y \in S \ U : <<y, w>> \notin R
    <3>. HIDE DEF U
    <3>. QED BY DEF Minimal
  <2> DEFINE g == [h EXCEPT ![w] = G[<<w, h>>]]
             C == U \cup {w}
  <2>. HIDE DEF h, U
  <2>2. w \in S /\ w \notin U /\ <<w, w>> \notin R
    BY <2>1
  <2>3. G[<<w, h>>] \in X
    BY <1>3, <2>2
  <2>4. g \in [S -> X] /\ g[w] = G[<<w, h>>] /\ \A v \in S : v # w => g[v] = h[v]
    BY <1>3, <2>2, <2>3
  <2>. HIDE DEF g
  <2>5. \A v \in S : <<v, w>> \in R => v \in U
    BY <2>1
  <2>6. g[w] = G[<<w, g>>]
    <3>1. \A v \in S : <<v, w>> \in R => h[v] = g[v]
      BY <2>2, <2>4
    <3>2. G[<<w, h>>] = G[<<w, g>>]
      BY <1>3, <2>2, <2>4, <3>1
    <3>. QED BY <2>4, <3>2
  <2>7. ASSUME NEW u \in U PROVE g[u] = G[<<u, g>>]
    <3>1. u \in S /\ u # w
      BY <1>6, <2>2
    <3>2. \A v \in S : <<v, u>> \in R => h[v] = g[v]
      BY <1>5, <2>2, <2>4
    <3>3. G[<<u, h>>] = G[<<u, g>>]
      BY <1>3, <2>4, <3>1, <3>2
    <3>. QED BY <1>5, <2>4, <3>1, <3>3
  <2>8. Good(g, C)
    BY <1>5, <2>5, <2>6, <2>7
  <2>9. C \in SUBSET S /\ w \in C
    BY <1>6, <2>2
  <2>10. w \in U
    <3>. HIDE DEF Good, C
    <3>. QED BY <1>4, <2>4, <2>8, <2>9
  <2>. QED BY <2>2, <2>10
<1>. HIDE DEF h, U
<1>8. Solves(S, X, G, h)
  BY <1>3, <1>5, <1>7 DEF Solves
<1>. QED BY <1>8

LessThan == {r \in Nat \X Nat : r[1] < r[2]}

LEMMA Smallest ==
  ASSUME NEW S \in SUBSET Nat, S # {}
  PROVE  \E x \in S : \A y \in S : x <= y
<1>1. LessThan = OpToRel(<, Nat)
  BY DEF LessThan, OpToRel
<1>2. IsWellFoundedOn(LessThan, Nat)
  BY <1>1, NatLessThanWellFounded
<1>3. PICK x \in S : \A y \in S : <<y, x>> \notin LessThan
  BY <1>2, WFMin
<1>4. \A y \in S : x <= y
  <2> TAKE y \in S
  <2>1. x \in Nat /\ y \in Nat /\ <<y, x>> \notin LessThan
    BY <1>3
  <2> QED BY <2>1 DEF LessThan
<1> QED BY <1>4

-----------------------------------------------------------------------------
(* What is required of every tree.                                         *)
TreeSound == TreeType /\ Apart(kind, parent) /\ IsTree(kind, parent, name)

(* Within the root a directory has one entry of a name at most.            *)
LEMMA OneEntry ==
  ASSUME TreeSound, NEW d \in Inside, NEW c,
         NEW m \in Entry(d, c), NEW n \in Entry(d, c)
  PROVE  m = n
<1>1. CASE c = "."
  BY <1>1 DEF Entry
<1>2. CASE c # "."
  <2>1. m \in Inside /\ n \in Inside
    BY Entries DEF TreeSound, Inside
  <2> QED BY <1>2, <2>1 DEF TreeSound, IsTree, Entry, Children
<1> QED BY <1>1, <1>2

(* The path of an inode is that of its parent and its name.                *)
LEMMA PathSteps ==
  ASSUME TreeSound
  PROVE  /\ CurrentPath(Root) = <<>>
         /\ \A n \in Inside \ {Root} :
              CurrentPath(n) = Append(CurrentPath(parent[n]), name[n])
<1> DEFINE X == Seq(Names \cup {".."})
           Body(f, m) == IF m = Root THEN <<>>
                         ELSE IF m \in Host THEN <<"..">>
                         ELSE Append(f[parent[m]], name[m])
           Path == CHOOSE f : f = [m \in Nodes |-> Body(f, m)]
           R == {<<parent[n], n>> : n \in Inside \ {Root}}
           G == [x \in Nodes \X [Nodes -> X] |-> Body(x[2], x[1])]
<1>1. /\ parent \in [Nodes -> Nodes] /\ name \in [Nodes -> Names]
      /\ Root \in Nodes /\ Root \notin Host
      /\ \A n \in Inside : n \in Nodes /\ n \notin Host
  BY NodesAssumption DEF TreeSound, TreeType, Inside
<1>2. Minimal(Nodes, R)
  <2> SUFFICES ASSUME NEW T \in SUBSET Nodes, T # {}
               PROVE  \E x \in T : \A y \in T : <<y, x>> \notin R
    BY DEF Minimal
  <2>1. CASE T \subseteq Inside \ {Root}
    <3>1. PICK n \in T : parent[n] \notin T
      BY <2>1 DEF TreeSound, IsTree
    <3> QED BY <3>1
  <2>2. CASE \E x \in T : x \notin Inside \ {Root}
    BY <2>2
  <2> QED BY <2>1, <2>2
<1>3. ASSUME NEW f \in [Nodes -> X], NEW m \in Nodes PROVE Body(f, m) \in X
  <2>1. <<>> \in X /\ <<"..">> \in X
    OBVIOUS
  <2>2. Append(f[parent[m]], name[m]) \in X
    <3>1. f[parent[m]] \in X /\ name[m] \in Names \cup {".."}
      BY <1>1
    <3> QED BY <3>1
  <2> QED BY <2>1, <2>2
<1>4. G \in [Nodes \X [Nodes -> X] -> X]
  <2> HIDE DEF Body, X
  <2> QED BY <1>3
<1>5. ASSUME NEW w \in Nodes, NEW f \in [Nodes -> X], NEW g \in [Nodes -> X],
             \A v \in Nodes : <<v, w>> \in R => f[v] = g[v]
      PROVE  G[<<w, f>>] = G[<<w, g>>]
  <2>1. w \in Inside \ {Root} => f[parent[w]] = g[parent[w]]
    BY <1>1, <1>5
  <2>2. Body(f, w) = Body(g, w)
    BY <2>1 DEF Inside
  <2> HIDE DEF Body, X
  <2> QED BY <2>2
<1>6. X # {}
  <2>1. <<>> \in X
    OBVIOUS
  <2> QED BY <2>1
<1>7. PICK f : Solves(Nodes, X, G, f)
  <2> HIDE DEF G, X, R
  <2>1. Local(Nodes, R, X, G)
    BY <1>4, <1>5 DEF Local
  <2> QED BY <1>2, <1>6, <2>1, Recursion
<1>8. f = [m \in Nodes |-> Body(f, m)]
  <2> HIDE DEF Body, X
  <2> QED BY <1>7 DEF Solves
<1>9. Path = [m \in Nodes |-> Body(Path, m)]
  <2> HIDE DEF Body
  <2> QED BY <1>8
<1>10. \A n \in Nodes : CurrentPath(n) = Path[n]
  BY DEF CurrentPath
<1> HIDE DEF Path
<1>11. \A n \in Nodes : Path[n] = Body(Path, n)
  <2> HIDE DEF Body
  <2> QED BY <1>9
<1> QED BY <1>1, <1>10, <1>11

-----------------------------------------------------------------------------
(* What the steps do to the tree.                                          *)

LEMMA MakingSound ==
  ASSUME TreeSound, ~Full, NEW d \in Inside, NEW c \in Names, kind[d] = "dir",
         Entry(d, c) = {}, NEW what \in Kinds \ {"free"}, Make(d, c, what)
  PROVE  TreeSound' /\ NewNode \in Inside \ {Root} /\ kind[NewNode] = "free"
<1> DEFINE new == NewNode
<1>1. TreeType' /\ new \in Inside /\ Apart(kind, parent)'
  BY Making DEF TreeSound, Inside
<1>2. kind[new] = "free" /\ new # Root /\ new \in Nodes /\ d \in Nodes /\ new # d
  BY DEF NewNode, Full, TreeSound, Apart, Inside
<1> HIDE DEF new
<1>3. /\ kind' = [kind EXCEPT ![new] = what]
      /\ parent' = [parent EXCEPT ![new] = d]
      /\ name' = [name EXCEPT ![new] = c]
      /\ kind \in [Nodes -> Kinds] /\ parent \in [Nodes -> Nodes]
      /\ name \in [Nodes -> Names]
  BY DEF Make, new, TreeSound, TreeType
<1>4. ASSUME NEW n \in Nodes, n # new
      PROVE  kind'[n] = kind[n] /\ parent'[n] = parent[n] /\ name'[n] = name[n]
  BY <1>3, <1>4
<1>5. kind'[new] = what /\ parent'[new] = d /\ name'[new] = c /\ what # "free"
  BY <1>2, <1>3
<1>6. \A n \in Inside \ {Root} : parent[n] \in Inside /\ n \in Nodes
  BY DEF TreeSound, Apart, Inside
<1>7. /\ \A n \in Inside \ {Root} : kind[n] # "free" => kind[parent[n]] = "dir"
      /\ \A m, n \in Inside \ {Root} :
           kind[m] # "free" /\ kind[n] # "free" /\ parent[m] = parent[n]
             /\ name[m] = name[n] => m = n
      /\ \A S \in (SUBSET (Inside \ {Root})) \ {{}} : \E n \in S : parent[n] \notin S
  BY DEF TreeSound, IsTree
<1>8. ASSUME NEW n \in Inside \ {Root}, kind'[n] # "free"
      PROVE  kind'[parent'[n]] = "dir"
  <2>1. CASE n = new
    BY <1>2, <1>4, <1>5, <2>1
  <2>2. CASE n # new
    <3>1. parent'[n] = parent[n] /\ kind[n] # "free" /\ kind[parent[n]] = "dir"
      BY <1>4, <1>6, <1>7, <1>8, <2>2
    <3>2. parent[n] # new /\ parent[n] \in Nodes
      BY <1>2, <1>6, <3>1 DEF Inside
    <3> QED BY <1>4, <3>1, <3>2
  <2> QED BY <2>1, <2>2
<1>9. ASSUME NEW m \in Inside \ {Root}, NEW n \in Inside \ {Root},
             kind'[m] # "free", kind'[n] # "free", parent'[m] = parent'[n],
             name'[m] = name'[n]
      PROVE  m = n
  <2>1. \A x \in Inside \ {Root} :
          ~(kind[x] # "free" /\ parent[x] = d /\ name[x] = c)
    BY <1>6, NamesAssumption DEF Entry, Children
  <2> QED BY <1>4, <1>5, <1>6, <1>7, <1>9, <2>1
<1>10. ASSUME NEW S \in SUBSET (Inside \ {Root}), S # {}
       PROVE  \E n \in S : parent'[n] \notin S
  <2> SUFFICES ASSUME \A n \in S : parent'[n] \in S PROVE FALSE
    OBVIOUS
  <2>1. CASE new \notin S
    <3>1. \A n \in S : parent[n] \in S
      BY <1>4, <1>6, <2>1
    <3> QED BY <1>7, <1>10, <3>1
  <2>2. CASE new \in S
    <3> DEFINE T == {n \in S : kind[n] # "free"}
    <3>1. d \in T
      BY <1>5, <2>2
    <3>2. \A n \in T : parent[n] \in T
      BY <1>2, <1>4, <1>6, <1>7
    <3>3. T \in (SUBSET (Inside \ {Root})) \ {{}}
      BY <3>1
    <3> HIDE DEF T
    <3> QED BY <1>7, <3>2, <3>3
  <2> QED BY <2>1, <2>2
<1>11. IsTree(kind, parent, name)'
  BY <1>8, <1>9, <1>10 DEF IsTree
<1> QED BY <1>1, <1>2, <1>11 DEF TreeSound, new

LEMMA UnlinkingSound ==
  ASSUME TreeSound, NEW n \in Inside \ {Root},
         kind[n] # "dir" \/ Children(n) = {}, Unlink(n)
  PROVE  TreeSound'
<1>1. TreeType' /\ Apart(kind, parent)'
  BY Unlinking DEF TreeSound, Inside
<1>2. /\ kind \in [Nodes -> Kinds] /\ kind' = [kind EXCEPT ![n] = "free"]
      /\ parent' = parent /\ name' = name /\ n \in Nodes
  BY DEF Unlink, TreeSound, TreeType, Inside
<1>3. \A m \in Inside \ {Root} : kind[m] # "free" => parent[m] # n
  BY DEF TreeSound, IsTree, Children, Inside
<1>4. IsTree(kind, parent, name)'
  <2>1. \A m \in Inside \ {Root} : m \in Nodes /\ parent[m] \in Nodes
    BY DEF TreeSound, Apart, Inside
  <2>2. \A m \in Nodes : kind'[m] = IF m = n THEN "free" ELSE kind[m]
    BY <1>2
  <2> QED BY <1>2, <1>3, <2>1, <2>2 DEF TreeSound, IsTree
<1> QED BY <1>1, <1>4 DEF TreeSound

-----------------------------------------------------------------------------
(* What a path means: the recursion has a solution, since each turn has    *)
(* fewer links left or as many and a shorter path.                         *)
Walk(n, path, left, keep) ==
  [node |-> n, path |-> path, left |-> left, keep |-> keep]
Below ==
  {r \in Walks \X Walks :
     \/ r[1].left < r[2].left
     \/ r[1].left = r[2].left /\ Len(r[1].path) < Len(r[2].path)}

Outcomes == [err : {"ok", "ENOTDIR", "ENOENT", "ELOOP"},
             node : Inside \cup {Nothing}, left : 0 .. MaxSymlinks]
Fits(r, w) ==
  /\ r \in Outcomes
  /\ r.left <= w.left
  /\ r.err = "ok" => r.node \in Inside

LEMMA WalksMinimal == Minimal(Walks, Below)
<1> SUFFICES ASSUME NEW T \in SUBSET Walks, T # {}
             PROVE  \E w \in T : \A v \in T : <<v, w>> \notin Below
  BY DEF Minimal
<1>1. \A w \in T : w.left \in Nat /\ Len(w.path) \in Nat
  BY BoundsAssumption DEF Walks
<1> DEFINE Lefts == {w.left : w \in T}
<1>2. Lefts \in SUBSET Nat /\ Lefts # {}
  BY <1>1
<1>3. PICK l \in Lefts : \A y \in Lefts : l <= y
  <2> HIDE DEF Lefts
  <2> QED BY <1>2, Smallest
<1> DEFINE Low == {w \in T : w.left = l}
           Lengths == {Len(w.path) : w \in Low}
<1>4. Lengths \in SUBSET Nat /\ Lengths # {}
  BY <1>1
<1>5. PICK k \in Lengths : \A y \in Lengths : k <= y
  <2> HIDE DEF Lengths
  <2> QED BY <1>4, Smallest
<1>6. PICK w \in Low : Len(w.path) = k
  OBVIOUS
<1>7. ASSUME NEW v \in T, <<v, w>> \in Below PROVE FALSE
  <2>1. v.left \in Nat /\ w.left = l /\ l \in Nat /\ l <= v.left
    BY <1>1, <1>3
  <2>2. v.left < w.left \/ (v.left = w.left /\ Len(v.path) < Len(w.path))
    BY <1>7 DEF Below
  <2>3. v.left = l /\ Len(v.path) < k
    BY <1>6, <2>1, <2>2
  <2>4. Len(v.path) \in Lengths /\ Len(v.path) \in Nat /\ k \in Nat
    BY <1>1, <1>4, <2>3
  <2>5. k <= Len(v.path)
    <3> HIDE DEF Lengths
    <3> QED BY <1>5, <2>4
  <2> QED BY <2>3, <2>4, <2>5
<1> QED BY <1>7

LEMMA WalkBelow ==
  ASSUME TreeSound, NEW w \in Walks
  PROVE  /\ w.path # <<>> =>
              \A n \in Inside : \A l \in 0 .. w.left :
                /\ Walk(n, Tail(w.path), l, w.keep) \in Walks
                /\ <<Walk(n, Tail(w.path), l, w.keep), w>> \in Below
         /\ w.left # 0 =>
              \A n \in Inside, m \in Nodes :
                /\ Walk(n, target[m].parts, w.left - 1, FALSE) \in Walks
                /\ <<Walk(n, target[m].parts, w.left - 1, FALSE), w>> \in Below
<1>1. /\ w.node \in Inside /\ w.path \in Seq(Parts) /\ w.left \in 0 .. MaxSymlinks
      /\ w.keep \in BOOLEAN /\ MaxSymlinks \in Nat
  BY BoundsAssumption DEF Walks
<1>2. ASSUME w.path # <<>>, NEW n \in Inside, NEW l \in 0 .. w.left
      PROVE  /\ Walk(n, Tail(w.path), l, w.keep) \in Walks
             /\ <<Walk(n, Tail(w.path), l, w.keep), w>> \in Below
  <2>1. Tail(w.path) \in Seq(Parts) /\ Len(Tail(w.path)) < Len(w.path)
    BY <1>1, <1>2
  <2>2. l \in 0 .. MaxSymlinks /\ (l < w.left \/ l = w.left)
    BY <1>1
  <2>3. Walk(n, Tail(w.path), l, w.keep) \in Walks
    BY <1>1, <2>1, <2>2 DEF Walk, Walks
  <2> QED BY <2>1, <2>2, <2>3 DEF Walk, Below
<1>3. ASSUME w.left # 0, NEW n \in Inside, NEW m \in Nodes
      PROVE  /\ Walk(n, target[m].parts, w.left - 1, FALSE) \in Walks
             /\ <<Walk(n, target[m].parts, w.left - 1, FALSE), w>> \in Below
  <2>1. w.left - 1 \in 0 .. MaxSymlinks /\ w.left - 1 < w.left
    BY <1>1, <1>3
  <2>2. target[m].parts \in Seq(Parts)
    BY DEF TreeSound, TreeType, Targets
  <2>3. Walk(n, target[m].parts, w.left - 1, FALSE) \in Walks
    BY <2>1, <2>2 DEF Walk, Walks
  <2> QED BY <2>1, <2>3 DEF Walk, Below
<1> QED BY <1>2, <1>3

(* The ways through the definition, the same for every function.           *)
Then(f, w, b, m) ==
  LET end == f[Walk(b, target[m].parts, w.left - 1, FALSE)]
  IN IF end.err # "ok" THEN end ELSE f[Walk(end.node, Tail(w.path), end.left, w.keep)]

LEMMA Ways ==
  ASSUME TreeSound, NEW w \in Walks
  PROVE  \/ \E r : Fits(r, w) /\ \A f : Resolved(f, w) = r
         \/ /\ w.path # <<>>
            /\ \E n \in Inside :
                 \A f : Resolved(f, w) = f[Walk(n, Tail(w.path), w.left, w.keep)]
         \/ /\ w.path # <<>> /\ w.left # 0
            /\ \E b \in Inside, m \in Nodes : \A f : Resolved(f, w) = Then(f, w, b, m)
<1> DEFINE c == Head(w.path)
           there == Entry(w.node, c)
           m == CHOOSE n \in there : TRUE
           Stop(err) == [err |-> err, node |-> Nothing, left |-> w.left]
<1>1. /\ w.node \in Inside /\ w.path \in Seq(Parts) /\ w.left \in 0 .. MaxSymlinks
      /\ w.keep \in BOOLEAN /\ MaxSymlinks \in Nat
      /\ w.node \in Nodes /\ Root \in Inside
      /\ w.node # Root => parent[w.node] \in Inside
  BY BoundsAssumption, NodesAssumption DEF Walks, Inside, TreeSound, Apart
<1>2. \A err \in {"ENOTDIR", "ENOENT", "ELOOP"} : Fits(Stop(err), w)
  BY <1>1 DEF Fits, Outcomes
<1>3. there # {} => m \in there /\ m \in Inside /\ m \in Nodes
  BY <1>1, Entries DEF TreeSound, Inside
<1>4. CASE w.path = <<>>
  <2>1. Fits([err |-> "ok", node |-> w.node, left |-> w.left], w)
    BY <1>1 DEF Fits, Outcomes
  <2>2. \A f : Resolved(f, w) = [err |-> "ok", node |-> w.node, left |-> w.left]
    BY <1>4 DEF Resolved
  <2> QED BY <2>1, <2>2
<1>5. CASE w.path # <<>> /\ kind[w.node] # "dir"
  <2>1. \A f : Resolved(f, w) = Stop("ENOTDIR")
    BY <1>5 DEF Resolved
  <2> QED BY <1>2, <2>1
<1>6. CASE w.path # <<>> /\ kind[w.node] = "dir" /\ c = ".."
  <2> DEFINE up == IF w.node = Root THEN Root ELSE parent[w.node]
  <2>1. \A f : Resolved(f, w) = f[Walk(up, Tail(w.path), w.left, w.keep)]
    BY <1>6 DEF Resolved, Walk
  <2>2. up \in Inside
    BY <1>1
  <2> HIDE DEF up
  <2> QED BY <1>6, <2>1, <2>2
<1>7. CASE w.path # <<>> /\ kind[w.node] = "dir" /\ c # ".." /\ there = {}
  <2>1. \A f : Resolved(f, w) = Stop("ENOENT")
    BY <1>7 DEF Resolved
  <2> QED BY <1>2, <2>1
<1>8. CASE /\ w.path # <<>> /\ kind[w.node] = "dir" /\ c # ".." /\ there # {}
           /\ kind[m] # "link" \/ (w.keep /\ Tail(w.path) = <<>>)
  <2>1. \A f : Resolved(f, w) = f[Walk(m, Tail(w.path), w.left, w.keep)]
    BY <1>8 DEF Resolved, Walk
  <2> HIDE DEF m
  <2> QED BY <1>3, <1>8, <2>1
<1>9. CASE /\ w.path # <<>> /\ kind[w.node] = "dir" /\ c # ".." /\ there # {}
           /\ ~(kind[m] # "link" \/ (w.keep /\ Tail(w.path) = <<>>))
  <2>1. CASE w.left = 0
    <3>1. \A f : Resolved(f, w) = Stop("ELOOP")
      BY <1>9, <2>1 DEF Resolved
    <3> QED BY <1>2, <3>1
  <2>2. CASE w.left # 0
    <3> DEFINE b == IF target[m].abs THEN Root ELSE w.node
    <3>1. \A f : Resolved(f, w) = Then(f, w, b, m)
      BY <1>9, <2>2 DEF Resolved, Then, Walk
    <3>2. b \in Inside
      BY <1>1
    <3> HIDE DEF b, m
    <3> QED BY <1>3, <1>9, <2>2, <3>1, <3>2
  <2> QED BY <2>1, <2>2
<1> QED BY <1>4, <1>5, <1>6, <1>7, <1>8, <1>9

(* What fits below fits here.                                              *)
LEMMA ResolvedFits ==
  ASSUME TreeSound, NEW w \in Walks, NEW f,
         \A v \in Walks : <<v, w>> \in Below => Fits(f[v], v)
  PROVE  /\ Fits(Resolved(f, w), w)
         /\ \A g : (\A v \in Walks : <<v, w>> \in Below => f[v] = g[v])
                      => Resolved(f, w) = Resolved(g, w)
<1>1. w.left \in Nat
  BY BoundsAssumption DEF Walks
<1>2. CASE \E r : Fits(r, w) /\ \A h : Resolved(h, w) = r
  BY <1>2, Zenon
<1>3. ASSUME w.path # <<>>, NEW n \in Inside,
             \A h : Resolved(h, w) = h[Walk(n, Tail(w.path), w.left, w.keep)]
      PROVE  /\ Fits(Resolved(f, w), w)
             /\ \A g : (\A v \in Walks : <<v, w>> \in Below => f[v] = g[v])
                          => Resolved(f, w) = Resolved(g, w)
  <2> DEFINE v == Walk(n, Tail(w.path), w.left, w.keep)
  <2>1. v \in Walks /\ <<v, w>> \in Below /\ v.left = w.left
    <3>1. w.left \in 0 .. w.left
      BY <1>1
    <3> QED BY <1>3, <3>1, WalkBelow DEF Walk
  <2> HIDE DEF v
  <2>2. Fits(f[v], v)
    BY <2>1
  <2>3. \A h : Resolved(h, w) = h[v]
    BY <1>3 DEF v
  <2>4. Fits(f[v], w)
    BY <2>1, <2>2 DEF Fits
  <2> QED BY <2>1, <2>3, <2>4
<1>4. ASSUME w.path # <<>>, w.left # 0, NEW b \in Inside, NEW m \in Nodes,
             \A h : Resolved(h, w) = Then(h, w, b, m)
      PROVE  /\ Fits(Resolved(f, w), w)
             /\ \A g : (\A v \in Walks : <<v, w>> \in Below => f[v] = g[v])
                          => Resolved(f, w) = Resolved(g, w)
  <2> DEFINE v == Walk(b, target[m].parts, w.left - 1, FALSE)
             u == Walk(f[v].node, Tail(w.path), f[v].left, w.keep)
  <2>1. v \in Walks /\ <<v, w>> \in Below /\ v.left = w.left - 1
    BY <1>4, WalkBelow DEF Walk
  <2>2. Fits(f[v], v)
    <3> HIDE DEF v
    <3> QED BY <2>1
  <2>3. Fits(f[v], w) /\ f[v].left \in 0 .. w.left
    <3> HIDE DEF v
    <3> QED BY <1>1, <2>1, <2>2, BoundsAssumption DEF Fits, Outcomes
  <2>4. f[v].err = "ok" =>
          u \in Walks /\ <<u, w>> \in Below /\ u.left = f[v].left
    <3>1. f[v].err = "ok" => f[v].node \in Inside
      BY <2>3 DEF Fits
    <3> HIDE DEF v
    <3> QED BY <1>4, <2>3, <3>1, WalkBelow DEF Walk
  <2>5. \A h : h[v] = f[v] =>
                 Resolved(h, w) = IF f[v].err # "ok" THEN f[v] ELSE h[u]
    <3>1. \A h : Then(h, w, b, m) =
                   IF h[v].err # "ok" THEN h[v]
                   ELSE h[Walk(h[v].node, Tail(w.path), h[v].left, w.keep)]
      BY DEF Then
    <3> HIDE DEF v
    <3> QED BY <1>4, <3>1
  <2> HIDE DEF u, v
  <2>6. f[v].err = "ok" => Fits(f[u], w)
    <3> SUFFICES ASSUME f[v].err = "ok" PROVE Fits(f[u], w)
      OBVIOUS
    <3>1. Fits(f[u], u)
      BY <2>4
    <3> QED BY <1>1, <2>3, <2>4, <3>1, BoundsAssumption DEF Fits, Outcomes
  <2>7. Fits(Resolved(f, w), w)
    BY <2>3, <2>5, <2>6
  <2>8. ASSUME NEW g, \A x \in Walks : <<x, w>> \in Below => f[x] = g[x]
        PROVE  Resolved(f, w) = Resolved(g, w)
    BY <2>1, <2>4, <2>5, <2>8
  <2> QED BY <2>7, <2>8
<1> QED BY <1>2, <1>3, <1>4, Ways

LEMMA FollowFits ==
  TreeSound => \A w \in Walks : Follow[w] = Resolved(Follow, w) /\ Fits(Follow[w], w)
<1> SUFFICES ASSUME TreeSound
             PROVE  \A w \in Walks : Follow[w] = Resolved(Follow, w) /\ Fits(Follow[w], w)
  OBVIOUS
<1> DEFINE Ready(f, w) == \A v \in Walks : <<v, w>> \in Below => Fits(f[v], v)
           Here0(w) == [err |-> "ok", node |-> w.node, left |-> w.left]
           Body(f, w) == IF Ready(f, w) THEN Resolved(f, w) ELSE Here0(w)
           G == [x \in Walks \X [Walks -> Outcomes] |-> Body(x[2], x[1])]
<1>1. \A w \in Walks : Fits(Here0(w), w)
  BY BoundsAssumption DEF Walks, Fits, Outcomes
<1>2. ASSUME NEW f, NEW w \in Walks PROVE Fits(Body(f, w), w)
  <2>1. CASE Ready(f, w)
    BY <2>1, ResolvedFits
  <2>2. CASE ~Ready(f, w)
    <3> HIDE DEF Ready, Here0
    <3> QED BY <1>1, <2>2
  <2> QED BY <2>1, <2>2
<1> HIDE DEF Here0
<1>3. Local(Walks, Below, Outcomes, G)
  <2>1. \A f \in [Walks -> Outcomes], w \in Walks : Body(f, w) \in Outcomes
    <3> HIDE DEF Body
    <3> QED BY <1>2 DEF Fits
  <2>2. G \in [Walks \X [Walks -> Outcomes] -> Outcomes]
    <3> HIDE DEF Body
    <3> QED BY <2>1
  <2>3. ASSUME NEW w \in Walks, NEW f \in [Walks -> Outcomes],
               NEW g \in [Walks -> Outcomes],
               \A v \in Walks : <<v, w>> \in Below => f[v] = g[v]
        PROVE  G[<<w, f>>] = G[<<w, g>>]
    <3>1. Ready(f, w) <=> Ready(g, w)
      BY <2>3
    <3>2. Ready(f, w) => Resolved(f, w) = Resolved(g, w)
      BY <2>3, ResolvedFits
    <3>3. Body(f, w) = Body(g, w)
      <4> HIDE DEF Ready
      <4> QED BY <3>1, <3>2
    <3> HIDE DEF Body
    <3> QED BY <3>3
  <2> HIDE DEF G
  <2> QED BY <2>2, <2>3 DEF Local
<1>4. Outcomes # {}
  <2>1. [err |-> "ok", node |-> Nothing, left |-> 0] \in Outcomes
    BY BoundsAssumption DEF Outcomes
  <2> QED BY <2>1
<1>5. PICK f : Solves(Walks, Outcomes, G, f)
  <2> HIDE DEF G
  <2> QED BY <1>3, <1>4, WalksMinimal, Recursion
<1>6. f \in [Walks -> Outcomes] /\ \A w \in Walks : f[w] = Body(f, w)
  <2> HIDE DEF Body
  <2> QED BY <1>5 DEF Solves
<1>7. \A w \in Walks : f[w] = Resolved(f, w)
  <2>1. \A w \in Walks : Fits(f[w], w)
    <3> HIDE DEF Body
    <3> QED BY <1>2, <1>6
  <2>2. \A w \in Walks : Ready(f, w)
    BY <2>1
  <2> HIDE DEF Ready
  <2> QED BY <1>6, <2>2
<1>8. f = [w \in Walks |-> Resolved(f, w)]
  BY <1>6, <1>7
<1> DEFINE F == CHOOSE follow : follow = [w \in Walks |-> Resolved(follow, w)]
<1>9. F = [w \in Walks |-> Resolved(F, w)]
  BY <1>8
<1>10. Follow = F
  BY DEF Follow
<1> HIDE DEF F
<1>11. \A w \in Walks : F[w] = Resolved(F, w)
  BY <1>9
<1>12. \A w \in Walks : Fits(F[w], w)
  <2> DEFINE T == {w \in Walks : ~Fits(F[w], w)}
  <2> SUFFICES ASSUME T # {} PROVE FALSE
    OBVIOUS
  <2>1. T \in SUBSET Walks
    OBVIOUS
  <2>2. PICK w \in T : \A v \in T : <<v, w>> \notin Below
    <3> HIDE DEF T
    <3> QED BY <2>1, WalksMinimal DEF Minimal
  <2>3. \A v \in Walks : <<v, w>> \in Below => Fits(F[v], v)
    BY <2>2
  <2>4. Fits(Resolved(F, w), w)
    BY <2>1, <2>3, ResolvedFits
  <2> QED BY <1>11, <2>1, <2>4
<1> QED BY <1>10, <1>11, <1>12

(* The turns of the definition, one by one.                                *)
Stops(err, left) == [err |-> err, node |-> Nothing, left |-> left]
Up(n) == IF n = Root THEN Root ELSE parent[n]
Base(n, m) == IF target[m].abs THEN Root ELSE n
Onward(r, path, keep) ==
  IF r.err # "ok" THEN r ELSE Leads(r.node, path, r.left, keep)

Turns(n, path, left, keep) ==
  LET r == Leads(n, path, left, keep)
      c == Head(path)
      rest == Tail(path)
  IN /\ r \in Outcomes /\ r.left \in 0 .. left
     /\ r.err = "ok" => r.node \in Inside
     /\ path = <<>> => r = [err |-> "ok", node |-> n, left |-> left]
     /\ path # <<>> /\ kind[n] # "dir" => r = Stops("ENOTDIR", left)
     /\ path # <<>> /\ kind[n] = "dir" /\ c = ".." =>
          r = Leads(Up(n), rest, left, keep)
     /\ path # <<>> /\ kind[n] = "dir" /\ c # ".." =>
          /\ Entry(n, c) = {} => r = Stops("ENOENT", left)
          /\ \A m \in Entry(n, c) :
               /\ kind[m] # "link" \/ (keep /\ rest = <<>>) =>
                    r = Leads(m, rest, left, keep)
               /\ kind[m] = "link" /\ ~(keep /\ rest = <<>>) =>
                    /\ left = 0 => r = Stops("ELOOP", left)
                    /\ left # 0 =>
                         r = Onward(Leads(Base(n, m), target[m].parts, left - 1, FALSE),
                                    rest, keep)

LEMMA LeadsTurns ==
  TreeSound => \A n \in Inside, path \in Seq(Parts), left \in 0 .. MaxSymlinks,
                  keep \in BOOLEAN : Turns(n, path, left, keep)
<1> SUFFICES ASSUME TreeSound, NEW n \in Inside, NEW path \in Seq(Parts),
                    NEW left \in 0 .. MaxSymlinks, NEW keep \in BOOLEAN
             PROVE  Turns(n, path, left, keep)
  OBVIOUS
<1> DEFINE w == Walk(n, path, left, keep)
           r == Leads(n, path, left, keep)
           c == Head(path)
           rest == Tail(path)
           there == Entry(n, c)
           m0 == CHOOSE m \in there : TRUE
<1>1. w \in Walks /\ r = Follow[w]
  BY DEF Walk, Walks, Leads
<1>2. w.node = n /\ w.path = path /\ w.left = left /\ w.keep = keep
  BY DEF Walk
<1>3. Follow[w] = Resolved(Follow, w) /\ Fits(Follow[w], w)
  <2> HIDE DEF w
  <2> QED BY <1>1, FollowFits
<1>4. r \in Outcomes /\ r.left \in 0 .. left /\ (r.err = "ok" => r.node \in Inside)
  <2> HIDE DEF w, r
  <2>1. r \in Outcomes /\ r.left <= left /\ (r.err = "ok" => r.node \in Inside)
    BY <1>1, <1>2, <1>3 DEF Fits
  <2>2. r.left \in Int /\ r.left >= 0
    BY <2>1, BoundsAssumption DEF Outcomes
  <2> QED BY <2>1, <2>2
<1>5. r = Resolved(Follow, w)
  BY <1>1, <1>3
<1> HIDE DEF r
<1>6. path = <<>> => r = [err |-> "ok", node |-> n, left |-> left]
  BY <1>2, <1>5 DEF Resolved
<1>7. path # <<>> /\ kind[n] # "dir" => r = Stops("ENOTDIR", left)
  BY <1>2, <1>5 DEF Resolved, Stops
<1>8. path # <<>> /\ kind[n] = "dir" /\ c = ".." => r = Leads(Up(n), rest, left, keep)
  BY <1>2, <1>5 DEF Resolved, Leads, Up
<1>9. path # <<>> /\ kind[n] = "dir" /\ c # ".." /\ there = {}
        => r = Stops("ENOENT", left)
  BY <1>2, <1>5 DEF Resolved, Stops
<1>10. ASSUME path # <<>>, kind[n] = "dir", c # "..", NEW m \in there
       PROVE  /\ kind[m] # "link" \/ (keep /\ rest = <<>>) =>
                   r = Leads(m, rest, left, keep)
              /\ kind[m] = "link" /\ ~(keep /\ rest = <<>>) =>
                    /\ left = 0 => r = Stops("ELOOP", left)
                    /\ left # 0 =>
                         r = Onward(Leads(Base(n, m), target[m].parts, left - 1, FALSE),
                                    rest, keep)
  <2>1. m0 = m
    <3>1. m0 \in there
      OBVIOUS
    <3> HIDE DEF m0
    <3> QED BY <3>1, OneEntry
  <2>2. Entry(n, c) # {}
    OBVIOUS
  <2>3. /\ kind[m0] # "link" \/ (keep /\ rest = <<>>) =>
             r = Leads(m0, rest, left, keep)
        /\ kind[m0] = "link" /\ ~(keep /\ rest = <<>>) =>
              /\ left = 0 => r = Stops("ELOOP", left)
              /\ left # 0 =>
                   r = Onward(Leads(Base(n, m0), target[m0].parts, left - 1, FALSE),
                              rest, keep)
    BY <1>2, <1>5, <1>10, <2>2 DEF Resolved, Leads, Stops, Onward, Base
  <2> HIDE DEF m0
  <2> QED BY <2>1, <2>3
<1> HIDE DEF w
<1> QED BY <1>4, <1>6, <1>7, <1>8, <1>9, <1>10 DEF Turns, r

(* In the next state as well.                                              *)
LEMMA LeadsTurnsNext ==
  TreeSound' => \A n \in Inside, path \in Seq(Parts), left \in 0 .. MaxSymlinks,
                   keep \in BOOLEAN : Turns(n, path, left, keep)'
<1>1. (TreeSound => \A n \in Inside, path \in Seq(Parts), left \in 0 .. MaxSymlinks,
                       keep \in BOOLEAN : Turns(n, path, left, keep))'
  BY LeadsTurns, PTL
<1> QED BY <1>1

LEMMA Split ==
  ASSUME NEW S, NEW p \in Seq(S), p # <<>>, NEW q \in Seq(S)
  PROVE  /\ Head(p) \in S /\ Tail(p) \in Seq(S)
         /\ p \o q # <<>> /\ Head(p \o q) = Head(p)
         /\ Tail(p \o q) = Tail(p) \o q /\ p \o q \in Seq(S)
         /\ Len(Tail(p)) = Len(p) - 1
         /\ (Tail(p) \o q = <<>> => q = <<>>)
  OBVIOUS

LEMMA BaseIn ==
  ASSUME TreeSound, NEW n \in Inside
  PROVE  /\ Up(n) \in Inside
         /\ \A m : Base(n, m) \in Inside
         /\ \A m \in Nodes : target[m].parts \in Seq(Parts)
         /\ \A c : Entry(n, c) \subseteq Inside
<1>1. Root \in Inside /\ n \in Nodes /\ Inside \subseteq Nodes
  BY NodesAssumption DEF Inside
<1>2. Up(n) \in Inside /\ \A m : Base(n, m) \in Inside
  BY <1>1 DEF Up, Base, TreeSound, Apart
<1>3. \A m \in Nodes : target[m].parts \in Seq(Parts)
  BY DEF TreeSound, TreeType, Targets
<1>4. \A c : Entry(n, c) \subseteq Inside
  BY <1>1, Entries DEF TreeSound
<1> QED BY <1>2, <1>3, <1>4

(* The end of a path means what it means from where its beginning leads.   *)
LEMMA LeadsAppend ==
  ASSUME TreeSound, NEW n \in Inside, NEW p \in Seq(Parts), NEW q \in Seq(Parts),
         NEW left \in 0 .. MaxSymlinks, NEW keep \in BOOLEAN, q # <<>> \/ ~keep
  PROVE  Leads(n, p \o q, left, keep) = Onward(Leads(n, p, left, FALSE), q, keep)
<1> DEFINE Holds(w) == Leads(w.node, w.path \o q, w.left, keep)
                         = Onward(Leads(w.node, w.path, w.left, FALSE), q, keep)
           T == {w \in Walks : ~Holds(w)}
<1>1. T = {}
  <2> SUFFICES ASSUME T # {} PROVE FALSE
    OBVIOUS
  <2>1. T \in SUBSET Walks
    OBVIOUS
  <2>2. PICK w \in T : \A v \in T : <<v, w>> \notin Below
    <3> HIDE DEF T
    <3> QED BY <2>1, WalksMinimal DEF Minimal
  <2>3. w \in Walks /\ ~Holds(w) /\ \A v \in Walks : <<v, w>> \in Below => Holds(v)
    BY <2>2
  <2> HIDE DEF Holds, T
  <2> DEFINE u == w.node
             path == w.path
             l == w.left
             c == Head(path)
             rest == Tail(path)
             r == Leads(u, path, l, FALSE)
             s == Leads(u, path \o q, l, keep)
  <2>4. /\ u \in Inside /\ path \in Seq(Parts) /\ l \in 0 .. MaxSymlinks
        /\ u \in Nodes
    BY <2>3 DEF Walks, Inside
  <2>5. s # Onward(r, q, keep)
    BY <2>3 DEF Holds
  <2>6. FALSE \in BOOLEAN
    OBVIOUS
  <2>7. path \o q \in Seq(Parts)
    <3> HIDE DEF path
    <3> QED BY <2>4
  <2>8. Turns(u, path, l, FALSE) /\ Turns(u, path \o q, l, keep)
    <3> HIDE DEF u, path, l
    <3> QED BY <2>4, <2>6, <2>7, LeadsTurns
  <2>9. CASE path = <<>>
    <3>1. r = [err |-> "ok", node |-> u, left |-> l]
      BY <2>8, <2>9 DEF Turns
    <3>2. path \o q = q
      BY <2>9
    <3>3. s = Leads(u, q, l, keep)
      BY <3>2
    <3> HIDE DEF r, s
    <3> QED BY <2>5, <3>1, <3>3 DEF Onward
  <2>10. CASE path # <<>>
    <3>1. /\ c \in Parts /\ rest \in Seq(Parts) /\ path \o q # <<>>
          /\ Head(path \o q) = c /\ Tail(path \o q) = rest \o q
          /\ (rest \o q = <<>> => q = <<>>)
      <4> HIDE DEF path
      <4> QED BY <2>4, <2>10, Split
    <3>2. ASSUME NEW m \in Inside, NEW k \in 0 .. l
          PROVE  Leads(m, rest \o q, k, keep)
                   = Onward(Leads(m, rest, k, FALSE), q, keep)
      <4> DEFINE v == Walk(m, rest, k, w.keep)
      <4>1. v \in Walks /\ <<v, w>> \in Below
        BY <2>3, <2>10, WalkBelow
      <4>2. v.node = m /\ v.path = rest /\ v.left = k
        BY DEF Walk
      <4>3. Holds(v)
        <5> HIDE DEF v
        <5> QED BY <2>3, <4>1
      <4> HIDE DEF v, rest
      <4> QED BY <4>2, <4>3 DEF Holds
    <3>11. c = Head(path) /\ rest = Tail(path)
      OBVIOUS
    <3>3. l \in 0 .. l
      BY <2>4, BoundsAssumption
    <3>4. ~(keep /\ rest \o q = <<>>)
      BY <3>1
    <3> DEFINE e(m) == Leads(Base(u, m), target[m].parts, l - 1, FALSE)
    <3>5. /\ kind[u] # "dir" => r = Stops("ENOTDIR", l) /\ s = Stops("ENOTDIR", l)
          /\ kind[u] = "dir" /\ c = ".." =>
               r = Leads(Up(u), rest, l, FALSE) /\ s = Leads(Up(u), rest \o q, l, keep)
          /\ kind[u] = "dir" /\ c # ".." /\ Entry(u, c) = {} =>
               r = Stops("ENOENT", l) /\ s = Stops("ENOENT", l)
      <4> HIDE DEF u, l, path, rest, c
      <4> QED BY <2>8, <2>10, <3>1, <3>11 DEF Turns, r, s
    <3>6. ASSUME kind[u] = "dir", c # "..", NEW m \in Entry(u, c)
          PROVE  /\ kind[m] # "link" =>
                      /\ r = Leads(m, rest, l, FALSE)
                      /\ s = Leads(m, rest \o q, l, keep)
                 /\ kind[m] = "link" /\ l = 0 =>
                      r = Stops("ELOOP", l) /\ s = Stops("ELOOP", l)
                 /\ kind[m] = "link" /\ l # 0 =>
                      /\ r = Onward(e(m), rest, FALSE)
                      /\ s = Onward(e(m), rest \o q, keep)
      <4> HIDE DEF u, l, path, rest, c
      <4> QED BY <2>8, <2>10, <3>1, <3>4, <3>6, <3>11 DEF Turns, r, s
    <3> HIDE DEF r, s, e
    <3>7. \A err, x \in {"ENOTDIR", "ENOENT", "ELOOP"} :
            Onward(Stops(err, l), q, keep) = Stops(err, l)
      BY DEF Onward, Stops
    <3>8. CASE kind[u] # "dir" \/ (c # ".." /\ Entry(u, c) = {})
      <4>1. \E err \in {"ENOTDIR", "ENOENT"} : r = Stops(err, l) /\ s = Stops(err, l)
        BY <3>5, <3>8
      <4> QED BY <2>5, <3>7, <4>1
    <3>9. CASE kind[u] = "dir" /\ c = ".."
      <4>1. Up(u) \in Inside
        BY <2>4, BaseIn
      <4> QED BY <2>5, <3>2, <3>3, <3>5, <3>9, <4>1
    <3>10. CASE kind[u] = "dir" /\ c # ".." /\ Entry(u, c) # {}
      <4>1. PICK m \in Entry(u, c) : TRUE
        BY <3>10
      <4>2. m \in Inside /\ Base(u, m) \in Inside /\ target[m].parts \in Seq(Parts)
        <5>1. m \in Inside /\ m \in Nodes
          BY <2>4, <4>1, BaseIn DEF Inside
        <5> QED BY <2>4, <5>1, BaseIn
      <4>3. CASE kind[m] # "link"
        <5>1. r = Leads(m, rest, l, FALSE) /\ s = Leads(m, rest \o q, l, keep)
          BY <3>6, <3>10, <4>1, <4>3
        <5> QED BY <2>5, <3>2, <3>3, <4>2, <5>1
      <4>4. CASE kind[m] = "link" /\ l = 0
        <5>1. r = Stops("ELOOP", l) /\ s = Stops("ELOOP", l)
          BY <3>6, <3>10, <4>1, <4>4
        <5> QED BY <2>5, <3>7, <5>1
      <4>5. CASE kind[m] = "link" /\ l # 0
        <5>1. r = Onward(e(m), rest, FALSE) /\ s = Onward(e(m), rest \o q, keep)
          BY <3>6, <3>10, <4>1, <4>5
        <5>2. l - 1 \in 0 .. MaxSymlinks
          BY <2>4, <4>5, BoundsAssumption
        <5>3. e(m).left \in 0 .. (l - 1) /\ (e(m).err = "ok" => e(m).node \in Inside)
          BY <2>6, <4>2, <5>2, LeadsTurns DEF Turns, e
        <5>4. e(m).left \in 0 .. l
          BY <2>4, <5>3, BoundsAssumption
        <5>5. CASE e(m).err # "ok"
          <6>1. r = e(m) /\ s = e(m)
            BY <5>1, <5>5 DEF Onward
          <6> QED BY <2>5, <5>5, <6>1 DEF Onward
        <5>6. CASE e(m).err = "ok"
          <6>1. /\ r = Leads(e(m).node, rest, e(m).left, FALSE)
                /\ s = Leads(e(m).node, rest \o q, e(m).left, keep)
            BY <5>1, <5>6 DEF Onward
          <6> QED BY <2>5, <3>2, <5>3, <5>4, <5>6, <6>1
        <5> QED BY <5>5, <5>6
      <4> QED BY <4>3, <4>4, <4>5
    <3> QED BY <3>8, <3>9, <3>10
  <2> QED BY <2>9, <2>10
<1> DEFINE w0 == Walk(n, p, left, FALSE)
<1>2. w0 \in Walks /\ w0.node = n /\ w0.path = p /\ w0.left = left
  BY DEF Walk, Walks
<1>3. Holds(w0)
  <2> HIDE DEF Holds, w0
  <2> QED BY <1>1, <1>2
<1> HIDE DEF w0
<1> QED BY <1>2, <1>3

(* A tree that grows: what is in use stays as it is.                       *)
Keeps ==
  \A n \in Inside :
    kind[n] # "free" =>
      /\ kind'[n] = kind[n] /\ parent'[n] = parent[n]
      /\ name'[n] = name[n] /\ target'[n] = target[n]

LEMMA EntryKept ==
  ASSUME TreeSound, Keeps, NEW n \in Inside, kind[n] # "free", NEW c,
         NEW m \in Entry(n, c)
  PROVE  m \in Entry(n, c)' /\ m \in Inside /\ kind[m] # "free"
<1>1. m \in Inside /\ kind[m] # "free"
  BY BaseIn DEF Entry, Children
<1> QED BY <1>1 DEF Entry, Children, Keeps

(* A path that leads somewhere leads there still.                          *)
LEMMA LeadsKept ==
  ASSUME TreeSound, TreeSound', Keeps,
         NEW n \in Inside, kind[n] # "free", NEW p \in Seq(Parts),
         NEW left \in 0 .. MaxSymlinks, NEW keep \in BOOLEAN,
         Leads(n, p, left, keep).err = "ok"
  PROVE  /\ Leads(n, p, left, keep)' = Leads(n, p, left, keep)
         /\ kind[Leads(n, p, left, keep).node] # "free"
<1> DEFINE Holds(w) ==
             LET r == Leads(w.node, w.path, w.left, w.keep)
             IN kind[w.node] # "free" /\ r.err = "ok" =>
                  Leads(w.node, w.path, w.left, w.keep)' = r /\ kind[r.node] # "free"
           T == {w \in Walks : ~Holds(w)}
<1>1. T = {}
  <2> SUFFICES ASSUME T # {} PROVE FALSE
    OBVIOUS
  <2>1. T \in SUBSET Walks
    OBVIOUS
  <2>2. PICK w \in T : \A v \in T : <<v, w>> \notin Below
    <3> HIDE DEF T
    <3> QED BY <2>1, WalksMinimal DEF Minimal
  <2>3. w \in Walks /\ ~Holds(w) /\ \A v \in Walks : <<v, w>> \in Below => Holds(v)
    BY <2>2
  <2> HIDE DEF Holds, T
  <2> DEFINE u == w.node
             path == w.path
             l == w.left
             k == w.keep
             c == Head(path)
             rest == Tail(path)
             r == Leads(u, path, l, k)
             s == Leads(u, path, l, k)'
  <2>4. /\ u \in Inside /\ path \in Seq(Parts) /\ l \in 0 .. MaxSymlinks
        /\ u \in Nodes /\ k \in BOOLEAN
    BY <2>3 DEF Walks, Inside
  <2>5. kind[u] # "free" /\ r.err = "ok" /\ (s = r => kind[r.node] = "free")
    BY <2>3, Zenon DEF Holds
  <2>6. Turns(u, path, l, k) /\ Turns(u, path, l, k)'
    <3>1. \A x \in Inside, q \in Seq(Parts), i \in 0 .. MaxSymlinks, b \in BOOLEAN :
            Turns(x, q, i, b) /\ Turns(x, q, i, b)'
      BY LeadsTurns, LeadsTurnsNext
    <3> HIDE DEF u, path, l, k
    <3> QED BY <2>4, <3>1
  <2>7. CASE path = <<>>
    <3>1. r = [err |-> "ok", node |-> u, left |-> l] /\ s = r
      <4> HIDE DEF u, path, l, k
      <4> QED BY <2>6, <2>7 DEF Turns, r, s
    <3>2. r.node = u
      <4> HIDE DEF r
      <4> QED BY <3>1
    <3> HIDE DEF r, s, u
    <3> QED BY <2>5, <3>1, <3>2
  <2>8. CASE path # <<>>
    <3>1. c \in Parts /\ rest \in Seq(Parts) /\ c = Head(path) /\ rest = Tail(path)
      <4>1. <<>> \in Seq(Parts)
        OBVIOUS
      <4> HIDE DEF path
      <4> QED BY <2>4, <2>8, <4>1, Split
    <3>2. ASSUME NEW m \in Inside, NEW i \in 0 .. l, kind[m] # "free",
                 Leads(m, rest, i, k).err = "ok"
          PROVE  /\ Leads(m, rest, i, k)' = Leads(m, rest, i, k)
                 /\ kind[Leads(m, rest, i, k).node] # "free"
      <4> DEFINE v == Walk(m, rest, i, k)
      <4>1. v \in Walks /\ <<v, w>> \in Below
        BY <2>3, <2>8, WalkBelow
      <4>2. v.node = m /\ v.path = rest /\ v.left = i /\ v.keep = k
        BY DEF Walk
      <4>3. Holds(v)
        <5> HIDE DEF v
        <5> QED BY <2>3, <4>1
      <4> HIDE DEF v, rest, k
      <4> QED BY <3>2, <4>2, <4>3, Zenon DEF Holds
    <3>3. l \in 0 .. l
      BY <2>4, BoundsAssumption
    <3>4. kind[u] = "dir" /\ kind'[u] = "dir"
      <4>1. kind[u] = "dir"
        <5>1. r = Stops("ENOTDIR", l) => r.err # "ok"
          BY DEF Stops
        <5> HIDE DEF u, path, l, k
        <5> QED BY <2>5, <2>6, <2>8, <5>1 DEF Turns, r
      <4> HIDE DEF u
      <4> QED BY <2>4, <4>1 DEF Keeps
    <3>5. CASE c = ".."
      <4>1. PICK x \in Inside : x = Up(u) /\ x = Up(u)' /\ kind[x] # "free"
        <5> HIDE DEF u
        <5>1. Up(u) \in Inside
          BY <2>4, BaseIn
        <5>2. kind[Up(u)] # "free"
          BY <2>4, <2>5 DEF Up, TreeSound, Apart, IsTree
        <5>3. Up(u)' = Up(u)
          BY <2>4, <2>5 DEF Keeps, Up
        <5> QED BY <5>1, <5>2, <5>3, Zenon
      <4>2. r = Leads(x, rest, l, k)
        <5> HIDE DEF u, path, l, k, rest, c
        <5> QED BY <2>6, <2>8, <3>1, <3>4, <3>5, <4>1 DEF Turns, r
      <4>3. s = Leads(x, rest, l, k)'
        <5> HIDE DEF u, path, l, k, rest, c
        <5> QED BY <2>6, <2>8, <3>1, <3>4, <3>5, <4>1 DEF Turns, s
      <4> HIDE DEF r, s, u, l, k, rest
      <4> QED BY <2>5, <3>2, <3>3, <4>1, <4>2, <4>3, Zenon
    <3>6. CASE c # ".."
      <4>1. Entry(u, c) # {}
        <5>1. r = Stops("ENOENT", l) => r.err # "ok"
          BY DEF Stops
        <5> HIDE DEF u, path, l, k, rest, c
        <5> QED BY <2>5, <2>6, <2>8, <3>1, <3>4, <3>6, <5>1 DEF Turns, r
      <4>2. PICK m \in Entry(u, c) : TRUE
        BY <4>1
      <4>3. m \in Entry(u, c)' /\ m \in Inside /\ kind[m] # "free" /\ m \in Nodes
        <5> HIDE DEF u, c
        <5> QED BY <2>4, <2>5, EntryKept DEF Inside
      <4>4. kind'[m] = kind[m] /\ target'[m] = target[m] /\ Base(u, m)' = Base(u, m)
        BY <4>3 DEF Keeps, Base
      <4>5. CASE kind[m] # "link" \/ (k /\ rest = <<>>)
        <5>1. r = Leads(m, rest, l, k)
          <6> HIDE DEF u, path, l, k, rest, c
          <6> QED BY <2>6, <2>8, <3>1, <3>4, <3>6, <4>5 DEF Turns, r
        <5>2. s = Leads(m, rest, l, k)'
          <6> HIDE DEF u, path, l, k, rest, c
          <6> QED BY <2>6, <2>8, <3>1, <3>4, <3>6, <4>3, <4>4, <4>5 DEF Turns, s
        <5> HIDE DEF r, s, u, l, k, rest
        <5> QED BY <2>5, <3>2, <3>3, <4>3, <5>1, <5>2
      <4>6. CASE kind[m] = "link" /\ ~(k /\ rest = <<>>)
        <5>1. l # 0
          <6>1. r = Stops("ELOOP", l) => r.err # "ok"
            BY DEF Stops
          <6> HIDE DEF u, path, l, k, rest, c
          <6> QED BY <2>5, <2>6, <2>8, <3>1, <3>4, <3>6, <4>6, <6>1 DEF Turns, r
        <5>2. PICK b \in Inside, tp \in Seq(Parts) :
                /\ b = Base(u, m) /\ tp = target[m].parts
                /\ b = Base(u, m)' /\ tp = target'[m].parts /\ kind[b] # "free"
          <6>1. Base(u, m) \in Inside /\ target[m].parts \in Seq(Parts)
            <7> HIDE DEF u
            <7> QED BY <2>4, <4>3, BaseIn
          <6>2. kind[Base(u, m)] # "free"
            <7> HIDE DEF u
            <7> QED BY <2>5 DEF Base, TreeSound, Apart
          <6> HIDE DEF u
          <6> QED BY <4>4, <6>1, <6>2, Zenon
        <5> DEFINE v == Walk(b, tp, l - 1, FALSE)
                   e0 == Leads(b, tp, l - 1, FALSE)
        <5>3. r = Onward(e0, rest, k)
          <6> HIDE DEF u, path, l, k, rest, c
          <6> QED BY <2>6, <2>8, <3>1, <3>4, <3>6, <4>6, <5>1, <5>2 DEF Turns, r
        <5>4. s = Onward(e0, rest, k)'
          <6> HIDE DEF u, path, l, k, rest, c
          <6> QED BY <2>6, <2>8, <3>1, <3>4, <3>6, <4>3, <4>4, <4>6, <5>1, <5>2
                  DEF Turns, s, Onward
        <5>5. v \in Walks /\ <<v, w>> \in Below
          BY <2>3, <4>3, <5>1, <5>2, WalkBelow
        <5>6. Holds(v) /\ v.node = b /\ v.path = tp /\ v.left = l - 1 /\ v.keep = FALSE
          <6>1. Holds(v)
            <7> HIDE DEF v
            <7> QED BY <2>3, <5>5
          <6> QED BY <6>1 DEF Walk
        <5>7. PICK e : e = e0
          OBVIOUS
        <5>8. e.err = "ok"
          <6> HIDE DEF e0, r
          <6> QED BY <2>5, <5>3, <5>7 DEF Onward
        <5>9. e0' = e /\ kind[e.node] # "free"
          <6> HIDE DEF v, l
          <6> QED BY <5>2, <5>6, <5>7, <5>8, Zenon DEF Holds
        <5>10. e.node \in Inside /\ e.left \in 0 .. l
          <6>1. l - 1 \in 0 .. MaxSymlinks /\ FALSE \in BOOLEAN
            BY <2>4, <5>1, BoundsAssumption
          <6>2. e.left \in 0 .. (l - 1) /\ (e.err = "ok" => e.node \in Inside)
            <7> HIDE DEF l
            <7> QED BY <5>7, <6>1, LeadsTurns DEF Turns
          <6> QED BY <2>4, <5>8, <6>2, BoundsAssumption
        <5>11. r = Leads(e.node, rest, e.left, k)
          <6> HIDE DEF e0, r, rest, k
          <6> QED BY <5>3, <5>7, <5>8 DEF Onward
        <5>12. s = Leads(e.node, rest, e.left, k)'
          <6>1. s = IF e0'.err # "ok" THEN e0' ELSE Leads(e0.node, rest, e0.left, k)'
            <7> HIDE DEF s, e0, rest, k
            <7> QED BY <5>4 DEF Onward
          <6>2. Leads(e0.node, rest, e0.left, k)' = Leads(e.node, rest, e.left, k)'
            <7> HIDE DEF e0, rest, k
            <7> QED BY <5>9, Zenon DEF Leads
          <6> HIDE DEF s, e0, rest, k
          <6> QED BY <5>8, <5>9, <6>1, <6>2, Zenon
        <5> HIDE DEF e0, r, s, rest, k
        <5> QED BY <2>5, <3>2, <5>9, <5>10, <5>11, <5>12, Zenon
      <4> QED BY <4>5, <4>6
    <3> QED BY <3>5, <3>6
  <2> QED BY <2>7, <2>8
<1> DEFINE w0 == Walk(n, p, left, keep)
<1>2. w0 \in Walks /\ w0.node = n /\ w0.path = p /\ w0.left = left /\ w0.keep = keep
  BY DEF Walk, Walks
<1>3. Holds(w0)
  <2> HIDE DEF Holds, w0
  <2> QED BY <1>1, <1>2
<1> HIDE DEF w0
<1> QED BY <1>2, <1>3, Zenon

LEMMA LeadsSame ==
  ASSUME TreeSound, UNCHANGED tree
  PROVE  /\ TreeSound'
         /\ \A n, p, left, keep : Leads(n, p, left, keep)' = Leads(n, p, left, keep)
         /\ \A n : CurrentPath(n)' = CurrentPath(n)
         /\ \A n, c : Entry(n, c)' = Entry(n, c)
<1>1. kind' = kind /\ parent' = parent /\ name' = name /\ target' = target
  BY DEF tree
<1>2. TreeSound'
  BY <1>1 DEF TreeSound, TreeType, Apart, IsTree
<1>3. Follow' = Follow
  BY <1>1 DEF Follow, Resolved, Entry, Children
<1>4. \A n, p, left, keep : Leads(n, p, left, keep)' = Leads(n, p, left, keep)
  BY <1>3 DEF Leads
<1>5. \A n : CurrentPath(n)' = CurrentPath(n)
  BY <1>1 DEF CurrentPath
<1>6. \A n, c : Entry(n, c)' = Entry(n, c)
  BY <1>1 DEF Entry, Children
<1> QED BY <1>2, <1>4, <1>5, <1>6

-----------------------------------------------------------------------------
(* The stack of links: each has as many components to its end as there are *)
(* left of its target, or more.                                            *)
Chained(s, k) ==
  /\ \A i \in DOMAIN s :
       i # Len(s) => Len(s[i + 1].rest) <= Len(s[i].rest) + s[i].left
  /\ s # <<>> => k <= Len(s[Len(s)].rest) + s[Len(s)].left

Alike(e, f) == e.rest = f.rest /\ e.dir = f.dir /\ e.name = f.name

LEMMA EnteredFields ==
  ASSUME NEW s \in Seq(Entered)
  PROVE  /\ Len(s) \in Nat /\ DOMAIN s = 1 .. Len(s)
         /\ \A i \in DOMAIN s :
              s[i] \in Entered /\ s[i].left \in Nat /\ Len(s[i].rest) \in Nat
<1>1. Len(s) \in Nat /\ DOMAIN s = 1 .. Len(s) /\ \A i \in DOMAIN s : s[i] \in Entered
  OBVIOUS
<1>2. \A e \in Entered : e.left \in Nat /\ Len(e.rest) \in Nat
  BY DEF Entered
<1> QED BY <1>1, <1>2

LEMMA OneLessFields ==
  ASSUME NEW r \in Entered, r.left # 0
  PROVE  LET e == [r EXCEPT !.left = @ - 1]
         IN e \in Entered /\ Alike(e, r) /\ e.left = r.left - 1
  BY DEF Entered, Alike

(* Consuming a component leaves the links that are not through.            *)
LEMMA ConsumedChain ==
  ASSUME NEW s \in Seq(Entered), NEW k \in Nat, k # 0, Chained(s, k)
  PROVE  /\ Consumed(s) \in Seq(Entered)
         /\ Chained(Consumed(s), k - 1)
         /\ \A i \in DOMAIN Consumed(s) : i \in DOMAIN s /\ Alike(Consumed(s)[i], s[i])
         /\ \A i \in DOMAIN s :
              i \in DOMAIN Consumed(s) \/ k - 1 <= Len(s[i].rest)
<1>1. /\ Len(s) \in Nat /\ DOMAIN s = 1 .. Len(s)
      /\ \A i \in DOMAIN s : s[i] \in Entered /\ s[i].left \in Nat /\ Len(s[i].rest) \in Nat
  BY EnteredFields
<1>2. CASE s = <<>> \/ Last(s).left = 0
  <2>1. Consumed(s) = s
    BY <1>2 DEF Consumed
  <2>2. s # <<>> => k - 1 <= Len(s[Len(s)].rest) + s[Len(s)].left
    <3> SUFFICES ASSUME s # <<>> PROVE k - 1 <= Len(s[Len(s)].rest) + s[Len(s)].left
      OBVIOUS
    <3> DEFINE a == Len(s[Len(s)].rest)
               b == s[Len(s)].left
    <3>1. a \in Nat /\ b \in Nat /\ k <= a + b
      BY <1>1 DEF Chained
    <3> HIDE DEF a, b
    <3>2. k - 1 <= a + b
      BY <3>1
    <3> QED BY <3>2 DEF a, b
  <2>3. Chained(s, k - 1)
    BY <2>2 DEF Chained
  <2> QED BY <2>1, <2>3 DEF Alike
<1>3. CASE s # <<>> /\ Last(s).left = 1
  <2> DEFINE t == Front(s)
  <2>1. Consumed(s) = t
    BY <1>3 DEF Consumed
  <2>2. /\ Len(s) \in DOMAIN s /\ Last(s) = s[Len(s)]
        /\ t \in Seq(Entered)
        /\ Len(t) = Len(s) - 1 /\ DOMAIN t = 1 .. (Len(s) - 1)
        /\ \A i \in DOMAIN t : i \in DOMAIN s /\ t[i] = s[i]
    BY <1>1, <1>3 DEF Front, Last
  <2> HIDE DEF t
  <2> DEFINE a == Len(s[Len(s)].rest)
  <2>3. a \in Nat /\ k - 1 <= a
    <3>1. a \in Nat /\ s[Len(s)].left = 1 /\ k <= a + 1
      BY <1>1, <1>3, <2>2 DEF Chained
    <3> HIDE DEF a
    <3> QED BY <3>1
  <2>4. ASSUME t # <<>>
        PROVE  k - 1 <= Len(t[Len(t)].rest) + t[Len(t)].left
    <3> DEFINE j == Len(t)
               x == Len(s[j].rest)
               y == s[j].left
    <3>1. j \in DOMAIN t /\ j \in DOMAIN s /\ t[j] = s[j] /\ j # Len(s) /\ j + 1 = Len(s)
      <4>1. Len(t) # 0
        BY <2>2, <2>4
      <4>2. j = Len(s) - 1 /\ j # 0 /\ Len(s) \in Nat
        BY <1>1, <2>2, <4>1
      <4> HIDE DEF j
      <4>3. j \in 1 .. (Len(s) - 1) /\ j + 1 = Len(s) /\ j # Len(s)
        BY <2>2, <4>2, <1>1
      <4> QED BY <2>2, <4>3
    <3> HIDE DEF j
    <3>2. a <= x + y /\ x \in Nat /\ y \in Nat
      BY <1>1, <3>1 DEF Chained
    <3> HIDE DEF a, x, y
    <3>3. k - 1 <= x + y
      BY <2>3, <3>2
    <3> QED BY <3>1, <3>3 DEF x, y, j
  <2> HIDE DEF a
  <2>5. ASSUME NEW i \in DOMAIN t, i # Len(t)
        PROVE  Len(t[i + 1].rest) <= Len(t[i].rest) + t[i].left
    <3>1. i \in DOMAIN s /\ t[i] = s[i] /\ i # Len(s) /\ t[i + 1] = s[i + 1]
      BY <1>1, <2>2, <2>5
    <3> QED BY <3>1 DEF Chained
  <2>6. \A i \in DOMAIN s : i \in DOMAIN t \/ i = Len(s)
    BY <1>1, <2>2
  <2> QED BY <2>1, <2>2, <2>3, <2>4, <2>5, <2>6 DEF Chained, Alike, a
<1>4. CASE s # <<>> /\ Last(s).left \notin {0, 1}
  <2> DEFINE top == s[Len(s)]
             e == [top EXCEPT !.left = @ - 1]
  <2>1. Len(s) \in DOMAIN s /\ top \in Entered /\ Last(s) = top
    BY <1>4, LastIn
  <2>2. Consumed(s) = [s EXCEPT ![Len(s)] = e]
    BY <1>4 DEF Consumed
  <2>3. e \in Entered /\ Alike(e, top) /\ e.left = top.left - 1
    <3> HIDE DEF top
    <3> QED BY <1>4, <2>1, OneLessFields
  <2>4. top.left \in Nat /\ Len(top.rest) \in Nat /\ k <= Len(top.rest) + top.left
    BY <1>1, <1>4, <2>1 DEF Chained
  <2> HIDE DEF top, e
  <2> DEFINE t == Consumed(s)
  <2>5. /\ t \in Seq(Entered) /\ DOMAIN t = DOMAIN s /\ Len(t) = Len(s)
        /\ \A i \in DOMAIN s : t[i] = IF i = Len(s) THEN e ELSE s[i]
    <3>1. t \in Seq(Entered) /\ DOMAIN t = DOMAIN s
          /\ \A i \in DOMAIN s : t[i] = IF i = Len(s) THEN e ELSE s[i]
      BY <2>1, <2>2, <2>3, ExceptSeq
    <3> HIDE DEF t
    <3>2. Len(t) \in Nat /\ DOMAIN t = 1 .. Len(t)
      BY <3>1
    <3> QED BY <1>1, <3>1, <3>2
  <2> HIDE DEF t
  <2>6. \A i \in DOMAIN t : i \in DOMAIN s /\ Alike(t[i], s[i])
    <3>1. \A i \in DOMAIN t : i # Len(s) => Alike(t[i], s[i])
      BY <2>5 DEF Alike
    <3> QED BY <2>3, <2>5, <3>1 DEF top
  <2>7. k - 1 <= Len(t[Len(t)].rest) + t[Len(t)].left
    <3> DEFINE a == Len(top.rest)
               b == top.left
    <3>1. t[Len(t)] = e /\ e.rest = top.rest
      BY <2>1, <2>3, <2>5 DEF Alike
    <3>2. a \in Nat /\ b \in Nat /\ k <= a + b
      BY <2>4
    <3> HIDE DEF a, b
    <3>3. k - 1 <= a + (b - 1)
      BY <3>2
    <3>4. Len(t[Len(t)].rest) = a /\ t[Len(t)].left = b - 1
      BY <2>3, <3>1 DEF a, b
    <3> QED BY <3>3, <3>4
  <2>8. ASSUME NEW i \in DOMAIN t, i # Len(t)
        PROVE  Len(t[i + 1].rest) <= Len(t[i].rest) + t[i].left
    <3>1. i \in DOMAIN s /\ i + 1 \in DOMAIN t /\ i # Len(s) /\ t[i] = s[i]
      BY <1>1, <2>5, <2>8
    <3>2. t[i + 1].rest = s[i + 1].rest
      BY <2>6, <3>1 DEF Alike
    <3>3. Len(s[i + 1].rest) <= Len(s[i].rest) + s[i].left
      BY <3>1 DEF Chained
    <3> QED BY <3>1, <3>2, <3>3
  <2>9. Chained(t, k - 1)
    BY <2>7, <2>8 DEF Chained
  <2> QED BY <2>5, <2>6, <2>9 DEF t
<1> QED BY <1>2, <1>3, <1>4

-----------------------------------------------------------------------------
(* The invariant of the resolution.                                        *)
OkAt(n, left) == [err |-> "ok", node |-> n, left |-> left]

(* A beginning of the path that was asked for leads to n.                  *)
Reaches(n, rest) ==
  \E q \in Seq(Parts), left \in 0 .. MaxSymlinks :
    Asked = q \o rest /\ Leads(Root, q, MaxSymlinks, FALSE) = OkAt(n, left)

(* What is left is the rest of a target, and of those that it is within,   *)
(* before a rest of the path that was asked for.                           *)
Progress(n, ps, s, left) ==
  \E q, pre, rest \in Seq(Parts) :
    /\ Asked = q \o rest /\ ps = pre \o rest
    /\ Leads(Root, q, MaxSymlinks, FALSE) = Leads(n, pre, left, FALSE)
    /\ pre = <<>> \/ \E i \in DOMAIN s : Len(s[i].rest) = Len(rest)

Rewinds(s) ==
  s # <<>> => /\ kind[s[1].dir] = "dir"
              /\ Reaches(s[1].dir, <<s[1].name>> \o s[1].rest)

WalkFits(n, ps, path, s, left) ==
  /\ left \in 0 .. MaxSymlinks
  /\ kind[n] # "free" /\ (ps # <<>> => kind[n] = "dir")
  /\ CurrentPath(n) = path
  /\ Leads(n, ps, left, NoFollow) = Meaning(Asked, NoFollow)
  /\ Progress(n, ps, s, left)
  /\ Chained(s, Len(ps))
  /\ Rewinds(s)

Walking == WalkFits(at, parts, expected, links, budget)

LEMMA AskedIn ==
  TypeOK => Asked \in Seq(Parts) /\ NoFollow \in BOOLEAN
<1> SUFFICES ASSUME TypeOK PROVE Asked \in Seq(Parts) /\ NoFollow \in BOOLEAN
  OBVIOUS
<1>1. op.path \in Seq(Parts)
  BY DEF TypeOK, CallType, Calls
<1>2. Front(op.path) \in Seq(Parts)
  BY <1>1, FrontIn
<1> QED BY <1>1, <1>2 DEF Asked, NoFollow

LEMMA RootIn ==
  TreeSound => Root \in Inside /\ Root \in Nodes /\ kind[Root] = "dir"
               /\ MaxSymlinks \in 0 .. MaxSymlinks /\ MaxSymlinks \in Nat
BY NodesAssumption, BoundsAssumption DEF TreeSound, Apart, Inside

(* Nothing is resolved yet.                                                *)
LEMMA Beginning ==
  TreeSound /\ TypeOK /\ at = Root /\ parts = Asked /\ expected = <<>>
            /\ links = <<>> /\ budget = MaxSymlinks
    => Walking
<1> SUFFICES ASSUME TreeSound, TypeOK
             PROVE  WalkFits(Root, Asked, <<>>, <<>>, MaxSymlinks)
  BY Zenon DEF Walking
<1>1. /\ MaxSymlinks \in 0 .. MaxSymlinks /\ kind[Root] = "dir"
      /\ CurrentPath(Root) = <<>> /\ Asked \in Seq(Parts)
  BY PathSteps, AskedIn, RootIn
<1>2. Leads(Root, Asked, MaxSymlinks, NoFollow) = Meaning(Asked, NoFollow)
  BY DEF Meaning
<1>3. Progress(Root, Asked, <<>>, MaxSymlinks)
  <2>1. <<>> \in Seq(Parts) /\ Asked = <<>> \o Asked
    BY <1>1
  <2> QED BY <1>1, <2>1, Zenon DEF Progress
<1>4. Chained(<<>>, Len(Asked)) /\ Rewinds(<<>>)
  BY DEF Chained, Rewinds
<1> QED BY <1>1, <1>2, <1>3, <1>4 DEF WalkFits

(* Without a link on the stack, the walk is on the path itself.            *)
LEMMA OnPath ==
  ASSUME TreeSound, NEW n \in Inside, NEW ps \in Seq(Parts), NEW left \in 0 .. MaxSymlinks,
         Progress(n, ps, <<>>, left)
  PROVE  Reaches(n, ps)
<1>1. PICK q, pre, rest \in Seq(Parts) :
        /\ Asked = q \o rest /\ ps = pre \o rest
        /\ Leads(Root, q, MaxSymlinks, FALSE) = Leads(n, pre, left, FALSE)
        /\ pre = <<>> \/ \E i \in DOMAIN <<>> : Len(<<>>[i].rest) = Len(rest)
  BY Zenon DEF Progress
<1>2. pre = <<>> /\ rest = ps
  <2>1. pre = <<>>
    BY <1>1
  <2> QED BY <1>1, <2>1
<1>3. Leads(n, <<>>, left, FALSE) = OkAt(n, left)
  <2>1. <<>> \in Seq(Parts) /\ FALSE \in BOOLEAN
    OBVIOUS
  <2> QED BY <2>1, LeadsTurns DEF Turns, OkAt
<1> QED BY <1>1, <1>2, <1>3, Zenon DEF Reaches

(* One component further: n's entry c is m, and is no link.                *)
Passes(n, c, m, left) ==
  \A p \in Seq(Parts), keep \in BOOLEAN :
    p # <<>> /\ Head(p) = c => Leads(n, p, left, keep) = Leads(m, Tail(p), left, keep)

LEMMA HeadsTails ==
  ASSUME NEW c \in Parts, NEW q \in Seq(Parts), NEW r \in Seq(Parts)
  PROVE  /\ <<c>> \in Seq(Parts) /\ <<c>> # <<>> /\ Head(<<c>>) = c /\ Tail(<<c>>) = <<>>
         /\ q \o <<c>> \in Seq(Parts)
         /\ q \o (<<c>> \o r) = (q \o <<c>>) \o r
         /\ <<>> \in Seq(Parts) /\ <<>> \o q = q /\ q \o <<>> = q
  OBVIOUS

LEMMA HeadThenTail ==
  ASSUME NEW p \in Seq(Parts), p # <<>>
  PROVE  /\ Head(p) \in Parts /\ Tail(p) \in Seq(Parts) /\ p = <<Head(p)>> \o Tail(p)
         /\ Len(p) \in Nat /\ Len(p) # 0 /\ Len(Tail(p)) = Len(p) - 1
  OBVIOUS

LEMMA OnwardOk ==
  ASSUME NEW n, NEW left, NEW p, NEW keep
  PROVE  Onward(OkAt(n, left), p, keep) = Leads(n, p, left, keep)
  BY DEF Onward, OkAt

LEMMA NoRoom ==
  ASSUME NEW p \in Seq(Parts), NEW r \in Seq(Parts), Len(p \o r) <= Len(r)
  PROVE  p = <<>>
<1> DEFINE a == Len(p)
           b == Len(r)
<1>1. a \in Nat /\ b \in Nat /\ a + b <= b
  OBVIOUS
<1>2. a = 0 => p = <<>>
  OBVIOUS
<1> HIDE DEF a, b
<1>3. a = 0
  BY <1>1
<1> QED BY <1>2, <1>3

LEMMA Consume ==
  ASSUME TreeSound, NEW n \in Inside, NEW ps \in Seq(Parts), NEW path,
         NEW s \in Seq(Entered), NEW left, WalkFits(n, ps, path, s, left), TypeOK,
         ps # <<>>, NEW m \in Inside, Passes(n, Head(ps), m, left),
         kind[m] # "free", Tail(ps) # <<>> => kind[m] = "dir"
  PROVE  WalkFits(m, Tail(ps), CurrentPath(m), Consumed(s), left)
<1> DEFINE c == Head(ps)
           k == Len(ps)
<1>1. /\ c \in Parts /\ Tail(ps) \in Seq(Parts) /\ k \in Nat /\ k # 0
      /\ Len(Tail(ps)) = k - 1 /\ left \in 0 .. MaxSymlinks
      /\ NoFollow \in BOOLEAN /\ FALSE \in BOOLEAN
  BY HeadThenTail, AskedIn DEF WalkFits
<1>2. /\ Consumed(s) \in Seq(Entered) /\ Chained(Consumed(s), k - 1)
      /\ \A i \in DOMAIN Consumed(s) : i \in DOMAIN s /\ Alike(Consumed(s)[i], s[i])
      /\ \A i \in DOMAIN s : i \in DOMAIN Consumed(s) \/ k - 1 <= Len(s[i].rest)
  <2>1. Chained(s, k)
    BY DEF WalkFits
  <2> HIDE DEF k
  <2> QED BY <1>1, <2>1, ConsumedChain
<1>3. Leads(m, Tail(ps), left, NoFollow) = Meaning(Asked, NoFollow)
  <2>1. Leads(n, ps, left, NoFollow) = Leads(m, Tail(ps), left, NoFollow)
    BY <1>1 DEF Passes
  <2> QED BY <2>1 DEF WalkFits
<1>4. Progress(m, Tail(ps), Consumed(s), left)
  <2>1. PICK q, pre, rest \in Seq(Parts) :
          /\ Asked = q \o rest /\ ps = pre \o rest
          /\ Leads(Root, q, MaxSymlinks, FALSE) = Leads(n, pre, left, FALSE)
          /\ pre = <<>> \/ \E i \in DOMAIN s : Len(s[i].rest) = Len(rest)
    BY Zenon DEF WalkFits, Progress
  <2>2. CASE pre = <<>>
    <3> DEFINE q2 == q \o <<c>>
    <3>1. rest = ps
      BY <2>1, <2>2
    <3>2. /\ q2 \in Seq(Parts) /\ <<>> \in Seq(Parts) /\ <<c>> \in Seq(Parts)
          /\ Asked = q2 \o Tail(ps) /\ Tail(ps) = <<>> \o Tail(ps)
      <4>1. ps = <<c>> \o Tail(ps)
        BY HeadThenTail
      <4> HIDE DEF c
      <4>2. Asked = q \o (<<c>> \o Tail(ps))
        BY <2>1, <3>1, <4>1
      <4> QED BY <1>1, <4>2, HeadsTails
    <3>3. Leads(Root, q2, MaxSymlinks, FALSE) = Leads(m, <<>>, left, FALSE)
      <4>1. Leads(Root, q2, MaxSymlinks, FALSE)
              = Onward(Leads(Root, q, MaxSymlinks, FALSE), <<c>>, FALSE)
        <5> HIDE DEF c
        <5> QED BY <1>1, <3>2, RootIn, LeadsAppend
      <4>2. Leads(n, <<>>, left, FALSE) = OkAt(n, left)
        BY <1>1, <3>2, LeadsTurns DEF Turns, OkAt
      <4>3. Leads(Root, q, MaxSymlinks, FALSE) = OkAt(n, left)
        BY <2>1, <2>2, <4>2
      <4>4. Leads(Root, q2, MaxSymlinks, FALSE) = Leads(n, <<c>>, left, FALSE)
        <5> HIDE DEF q2, c
        <5> QED BY <4>1, <4>3, OnwardOk
      <4>5. Leads(n, <<c>>, left, FALSE) = Leads(m, <<>>, left, FALSE)
        <5>1. <<c>> # <<>> /\ Head(<<c>>) = c /\ Tail(<<c>>) = <<>>
          OBVIOUS
        <5> QED BY <1>1, <3>2, <5>1 DEF Passes
      <4> HIDE DEF q2, c
      <4> QED BY <4>4, <4>5
    <3> HIDE DEF q2
    <3> QED BY <1>1, <3>2, <3>3, Zenon DEF Progress
  <2>3. CASE pre # <<>>
    <3>1. /\ Head(pre) = c /\ Tail(pre) \in Seq(Parts) /\ Tail(ps) = Tail(pre) \o rest
      BY <2>1, <2>3, Split
    <3>2. Leads(Root, q, MaxSymlinks, FALSE) = Leads(m, Tail(pre), left, FALSE)
      <4>1. Leads(n, pre, left, FALSE) = Leads(m, Tail(pre), left, FALSE)
        BY <1>1, <2>3, <3>1 DEF Passes
      <4> QED BY <2>1, <4>1
    <3>3. PICK i \in DOMAIN s : Len(s[i].rest) = Len(rest)
      BY <2>1, <2>3
    <3>4. CASE i \in DOMAIN Consumed(s)
      <4>1. Len(Consumed(s)[i].rest) = Len(rest)
        BY <1>2, <3>3, <3>4 DEF Alike
      <4> QED BY <2>1, <3>1, <3>2, <3>4, <4>1, Zenon DEF Progress
    <3>5. CASE k - 1 <= Len(s[i].rest)
      <4>1. Tail(pre) = <<>>
        <5>1. Len(Tail(pre) \o rest) <= Len(rest)
          BY <1>1, <3>1, <3>3, <3>5
        <5> QED BY <3>1, <5>1, NoRoom
      <4> QED BY <2>1, <3>1, <3>2, <4>1, Zenon DEF Progress
    <3> QED BY <1>2, <3>4, <3>5
  <2> QED BY <2>2, <2>3
<1>5. Rewinds(Consumed(s))
  <2> SUFFICES ASSUME Consumed(s) # <<>>
               PROVE  /\ kind[Consumed(s)[1].dir] = "dir"
                      /\ Reaches(Consumed(s)[1].dir,
                                 <<Consumed(s)[1].name>> \o Consumed(s)[1].rest)
    BY DEF Rewinds
  <2>1. 1 \in DOMAIN Consumed(s)
    BY <1>2
  <2>2. s # <<>> /\ Alike(Consumed(s)[1], s[1])
    BY <1>2, <2>1
  <2> QED BY <2>2 DEF WalkFits, Rewinds, Alike
<1>6. Chained(Consumed(s), Len(Tail(ps)))
  BY <1>1, <1>2
<1> HIDE DEF c, k
<1> QED BY <1>1, <1>3, <1>4, <1>5, <1>6 DEF WalkFits

(* A link more on the stack.                                               *)
LEMMA AppendChain ==
  ASSUME NEW s \in Seq(Entered), NEW e \in Entered, NEW k \in Nat, NEW j \in Nat,
         Chained(s, k), Len(e.rest) <= k, j <= Len(e.rest) + e.left
  PROVE  /\ Chained(Append(s, e), j)
         /\ Append(s, e) # <<>>
         /\ DOMAIN s \subseteq DOMAIN Append(s, e)
         /\ \A i \in DOMAIN s : Append(s, e)[i] = s[i]
         /\ Append(s, e)[Len(s) + 1] = e /\ Len(s) + 1 \in DOMAIN Append(s, e)
<1> DEFINE t == Append(s, e)
<1>1. /\ Len(s) \in Nat /\ DOMAIN s = 1 .. Len(s)
      /\ \A i \in DOMAIN s : s[i] \in Entered /\ s[i].left \in Nat /\ Len(s[i].rest) \in Nat
  BY EnteredFields
<1>2. /\ Len(t) = Len(s) + 1 /\ t # <<>> /\ DOMAIN t = 1 .. (Len(s) + 1)
      /\ \A i \in DOMAIN s : t[i] = s[i]
      /\ t[Len(s) + 1] = e
  BY <1>1, AppendProperties
<1> HIDE DEF t
<1>3. ASSUME NEW i \in DOMAIN t, i # Len(t)
      PROVE  Len(t[i + 1].rest) <= Len(t[i].rest) + t[i].left
  <2>1. i \in DOMAIN s /\ t[i] = s[i]
    BY <1>1, <1>2, <1>3
  <2>2. CASE i # Len(s)
    <3>1. i + 1 \in DOMAIN s
      BY <1>1, <2>1, <2>2
    <3> QED BY <1>2, <2>1, <2>2, <3>1 DEF Chained
  <2>3. CASE i = Len(s)
    <3> DEFINE a == Len(s[i].rest)
               b == s[i].left
               x == Len(e.rest)
    <3>1. t[i + 1] = e /\ k <= a + b /\ a \in Nat /\ b \in Nat
      BY <1>1, <1>2, <2>1, <2>3 DEF Chained
    <3>2. x \in Nat /\ x <= k
      BY DEF Entered
    <3> HIDE DEF a, b, x
    <3>3. x <= a + b
      BY <3>1, <3>2
    <3> QED BY <2>1, <3>1, <3>3 DEF a, b, x
  <2> QED BY <2>2, <2>3
<1>4. j <= Len(t[Len(t)].rest) + t[Len(t)].left
  BY <1>2
<1>5. Len(s) + 1 \in DOMAIN t /\ DOMAIN s \subseteq DOMAIN t
  BY <1>1, <1>2
<1> QED BY <1>2, <1>3, <1>4, <1>5 DEF Chained, t

LEMMA Associates ==
  ASSUME NEW p \in Seq(Parts), NEW q \in Seq(Parts), NEW r \in Seq(Parts)
  PROVE  p \o q \in Seq(Parts) /\ p \o (q \o r) = (p \o q) \o r
  OBVIOUS

LEMMA Regroup ==
  ASSUME NEW tp \in Seq(Parts), NEW pre \in Seq(Parts), NEW rest \in Seq(Parts),
         NEW ps, ps = pre \o rest, pre # <<>>
  PROVE  /\ Head(pre) = Head(ps) /\ Tail(pre) \in Seq(Parts)
         /\ tp \o Tail(pre) \in Seq(Parts)
         /\ tp \o Tail(ps) = (tp \o Tail(pre)) \o rest
<1> DEFINE tl == Tail(pre)
<1>1. tl \in Seq(Parts) /\ Tail(ps) = tl \o rest /\ Head(pre) = Head(ps)
  <2>1. /\ Tail(pre) \in Seq(Parts) /\ Head(pre \o rest) = Head(pre)
        /\ Tail(pre \o rest) = Tail(pre) \o rest
    BY Split
  <2> QED BY <2>1
<1> HIDE DEF tl
<1>2. tp \o tl \in Seq(Parts) /\ tp \o (tl \o rest) = (tp \o tl) \o rest
  BY <1>1, Associates
<1> QED BY <1>1, <1>2 DEF tl

LEMMA Followed ==
  ASSUME TreeSound, TypeOK, NEW n \in Inside, NEW ps \in Seq(Parts), NEW path,
         NEW s \in Seq(Entered), NEW left, WalkFits(n, ps, path, s, left),
         ps # <<>>, Head(ps) # "..", NEW m \in Entry(n, Head(ps)), kind[m] = "link",
         ~(NoFollow /\ Tail(ps) = <<>>), left # 0
  PROVE  WalkFits(Base(n, m), target[m].parts \o Tail(ps),
                  IF target[m].abs THEN <<>> ELSE path,
                  Append(s, [dir |-> n, name |-> Head(ps), rest |-> Tail(ps),
                             left |-> Len(target[m].parts)]),
                  left - 1)
<1> DEFINE c == Head(ps)
           rest0 == Tail(ps)
           k == Len(ps)
           b == Base(n, m)
           tp == target[m].parts
           e == [dir |-> n, name |-> c, rest |-> rest0, left |-> Len(tp)]
           t == Append(s, e)
           new == tp \o rest0
<1>1. /\ c \in Parts /\ rest0 \in Seq(Parts) /\ k \in Nat /\ k # 0
      /\ Len(rest0) = k - 1 /\ left \in 0 .. MaxSymlinks /\ left \in Nat
      /\ NoFollow \in BOOLEAN /\ FALSE \in BOOLEAN
      /\ left - 1 \in 0 .. MaxSymlinks /\ c = Head(ps) /\ rest0 = Tail(ps)
      /\ ps = <<c>> \o rest0 /\ <<>> \in Seq(Parts)
  BY HeadThenTail, AskedIn, BoundsAssumption DEF WalkFits
<1>2. m \in Inside /\ m \in Nodes /\ b \in Inside /\ tp \in Seq(Parts) /\ n \in Nodes
  BY BaseIn DEF Inside
<1>3. kind[n] = "dir" /\ kind[b] = "dir"
  BY DEF WalkFits, Base, TreeSound, Apart
<1>4. new \in Seq(Parts) /\ Len(new) = Len(tp) + Len(rest0) /\ Len(tp) \in Nat
  <2> HIDE DEF tp, rest0
  <2> QED BY <1>1, <1>2
<1> HIDE DEF c, rest0, k, b, tp
<1>5. /\ Chained(t, Len(new)) /\ t # <<>> /\ DOMAIN s \subseteq DOMAIN t
      /\ \A i \in DOMAIN s : t[i] = s[i]
      /\ t[Len(s) + 1] = e /\ Len(s) + 1 \in DOMAIN t
  <2>1. e \in Entered /\ e.rest = rest0 /\ e.left = Len(tp)
    BY <1>1, <1>2, <1>4 DEF Entered
  <2>2. Chained(s, k)
    BY DEF WalkFits, k
  <2>3. Len(rest0) \in Nat /\ Len(rest0) <= k /\ Len(new) \in Nat /\ Len(new) <= Len(rest0) + Len(tp)
    BY <1>1, <1>4
  <2> HIDE DEF e, new
  <2> QED BY <1>1, <2>1, <2>2, <2>3, AppendChain
<1>6. ASSUME NEW p \in Seq(Parts), NEW keep \in BOOLEAN, p # <<>>, Head(p) = c,
             Tail(p) # <<>> \/ ~keep
      PROVE  Leads(n, p, left, keep) = Leads(b, tp \o Tail(p), left - 1, keep)
  <2>1. Tail(p) \in Seq(Parts)
    BY <1>6, HeadThenTail
  <2>2. Leads(n, p, left, keep) = Onward(Leads(b, tp, left - 1, FALSE), Tail(p), keep)
    <3>1. Turns(n, p, left, keep)
      BY <1>1, LeadsTurns
    <3> QED BY <1>1, <1>3, <1>6, <3>1 DEF Turns, b, tp, c
  <2>3. Leads(b, tp \o Tail(p), left - 1, keep)
          = Onward(Leads(b, tp, left - 1, FALSE), Tail(p), keep)
    <3> DEFINE x == Tail(p)
               l == left - 1
    <3>1. x \in Seq(Parts) /\ (x # <<>> \/ ~keep) /\ l \in 0 .. MaxSymlinks
      BY <1>1, <1>6, <2>1
    <3> HIDE DEF x, l
    <3>2. Leads(b, tp \o x, l, keep) = Onward(Leads(b, tp, l, FALSE), x, keep)
      BY <1>2, <3>1, LeadsAppend
    <3> QED BY <3>2 DEF x, l
  <2> QED BY <2>2, <2>3
<1>7. Leads(b, new, left - 1, NoFollow) = Meaning(Asked, NoFollow)
  <2>1. Leads(n, ps, left, NoFollow) = Leads(b, new, left - 1, NoFollow)
    BY <1>1, <1>6 DEF c, rest0
  <2> QED BY <2>1 DEF WalkFits
<1>8. PICK q, pre, rest \in Seq(Parts) :
        /\ Asked = q \o rest /\ ps = pre \o rest
        /\ Leads(Root, q, MaxSymlinks, FALSE) = Leads(n, pre, left, FALSE)
        /\ pre = <<>> \/ \E i \in DOMAIN s : Len(s[i].rest) = Len(rest)
  BY Zenon DEF WalkFits, Progress
<1>9. Progress(b, new, t, left - 1)
  <2>2. CASE pre = <<>>
    <3> DEFINE q2 == q \o <<c>>
    <3>1. rest = ps
      BY <1>8, <2>2
    <3>2. /\ q2 \in Seq(Parts) /\ <<c>> \in Seq(Parts) /\ Asked = q2 \o rest0
      <4>1. Asked = q \o (<<c>> \o rest0) /\ c \in Parts /\ rest0 \in Seq(Parts)
        BY <1>1, <1>8, <3>1
      <4>2. q \o (<<c>> \o rest0) = (q \o <<c>>) \o rest0
            /\ q \o <<c>> \in Seq(Parts) /\ <<c>> \in Seq(Parts)
        BY <4>1
      <4> QED BY <4>1, <4>2
    <3>3. Leads(Root, q2, MaxSymlinks, FALSE) = Leads(b, tp, left - 1, FALSE)
      <4>1. Leads(Root, q2, MaxSymlinks, FALSE)
              = Onward(Leads(Root, q, MaxSymlinks, FALSE), <<c>>, FALSE)
        <5> DEFINE x == <<c>>
        <5>1. x \in Seq(Parts) /\ FALSE \in BOOLEAN
              /\ Root \in Inside /\ MaxSymlinks \in 0 .. MaxSymlinks
          BY <3>2, RootIn
        <5> HIDE DEF x
        <5>2. Leads(Root, q \o x, MaxSymlinks, FALSE)
                = Onward(Leads(Root, q, MaxSymlinks, FALSE), x, FALSE)
          BY <5>1, LeadsAppend
        <5> QED BY <5>2 DEF x
      <4>2. Leads(n, <<>>, left, FALSE) = OkAt(n, left)
        BY <1>1, <3>2, LeadsTurns DEF Turns, OkAt
      <4>3. Leads(Root, q, MaxSymlinks, FALSE) = OkAt(n, left)
        BY <1>8, <2>2, <4>2
      <4>4. Leads(Root, q2, MaxSymlinks, FALSE) = Leads(n, <<c>>, left, FALSE)
        <5> HIDE DEF q2
        <5> QED BY <4>1, <4>3, OnwardOk
      <4>5. Leads(n, <<c>>, left, FALSE) = Leads(b, tp \o <<>>, left - 1, FALSE)
        <5>1. <<c>> # <<>> /\ Head(<<c>>) = c /\ Tail(<<c>>) = <<>>
          OBVIOUS
        <5> QED BY <1>1, <1>6, <3>2, <5>1
      <4>6. tp \o <<>> = tp
        BY <1>2
      <4> HIDE DEF q2
      <4> QED BY <4>4, <4>5, <4>6
    <3>4. Len(t[Len(s) + 1].rest) = Len(rest0)
      BY <1>5
    <3> HIDE DEF q2, t
    <3> QED BY <1>1, <1>2, <1>5, <3>2, <3>3, <3>4, Zenon DEF Progress, new
  <2>3. CASE pre # <<>>
    <3>1. /\ Head(pre) = c /\ Tail(pre) \in Seq(Parts)
          /\ tp \o Tail(pre) \in Seq(Parts) /\ tp \o rest0 = (tp \o Tail(pre)) \o rest
      <4>1. tp \in Seq(Parts) /\ ps = pre \o rest
        BY <1>2, <1>8
      <4>2. /\ Head(pre) = Head(ps) /\ Tail(pre) \in Seq(Parts)
            /\ tp \o Tail(pre) \in Seq(Parts)
            /\ tp \o Tail(ps) = (tp \o Tail(pre)) \o rest
        BY <2>3, <4>1, Regroup, SMTT(60)
      <4> QED BY <4>2 DEF c, rest0
    <3>2. /\ tp \o Tail(pre) \in Seq(Parts)
          /\ new = (tp \o Tail(pre)) \o rest
      BY <3>1
    <3>3. Leads(n, pre, left, FALSE) = Leads(b, tp \o Tail(pre), left - 1, FALSE)
      BY <1>1, <1>6, <2>3, <3>1
    <3>4. PICK i \in DOMAIN s : Len(s[i].rest) = Len(rest)
      BY <1>8, <2>3
    <3>5. i \in DOMAIN t /\ Len(t[i].rest) = Len(rest)
      BY <1>5, <3>4
    <3>6. Leads(Root, q, MaxSymlinks, FALSE) = Leads(b, tp \o Tail(pre), left - 1, FALSE)
      BY <1>8, <3>3
    <3> HIDE DEF t, new
    <3> QED BY <1>8, <3>2, <3>5, <3>6, Zenon DEF Progress
  <2> QED BY <2>2, <2>3
<1>10. Rewinds(t)
  <2>1. CASE s = <<>>
    <3>1. t[1] = e
      BY <2>1
    <3>2. Reaches(n, ps)
      <4>1. Progress(n, ps, <<>>, left)
        BY <2>1 DEF WalkFits
      <4> QED BY <1>1, <4>1, OnPath
    <3>3. <<e.name>> \o e.rest = ps /\ e.dir = n
      BY <1>1
    <3> HIDE DEF e, t
    <3> QED BY <1>3, <3>1, <3>2, <3>3 DEF Rewinds
  <2>2. CASE s # <<>>
    <3>1. 1 \in DOMAIN s
      BY <2>2
    <3>2. t[1] = s[1]
      BY <1>5, <3>1
    <3> HIDE DEF t
    <3> QED BY <2>2, <3>2 DEF WalkFits, Rewinds
  <2> QED BY <2>1, <2>2
<1>11. CurrentPath(b) = IF target[m].abs THEN <<>> ELSE path
  BY PathSteps DEF b, Base, WalkFits
<1>12. WalkFits(b, new, IF target[m].abs THEN <<>> ELSE path, t, left - 1)
  <2> HIDE DEF t, new
  <2> QED BY <1>1, <1>3, <1>5, <1>7, <1>9, <1>10, <1>11 DEF WalkFits
<1> QED BY <1>12 DEF b, new, t, e, tp, c, rest0

-----------------------------------------------------------------------------
(* Steps that leave the tree and the call as they are.                     *)
LEMMA Frame ==
  ASSUME TreeSound, UNCHANGED <<tree, op, mode>>
  PROVE  /\ TreeSound'
         /\ Asked' = Asked /\ NoFollow' = NoFollow
         /\ UsesParent(op)' = UsesParent(op) /\ MakesFile' = MakesFile
         /\ Meaning(Asked, NoFollow)' = Meaning(Asked, NoFollow)
         /\ \A n, rest : Reaches(n, rest) => Reaches(n, rest)'
<1>1. TreeSound' /\ Follow' = Follow
  <2>1. kind' = kind /\ parent' = parent /\ name' = name /\ target' = target
    BY DEF tree
  <2>2. Follow' = Follow
    BY <2>1 DEF Follow, Resolved, Entry, Children
  <2> QED BY <2>2, LeadsSame
<1>2. /\ Asked' = Asked /\ NoFollow' = NoFollow
      /\ UsesParent(op)' = UsesParent(op) /\ MakesFile' = MakesFile
  BY DEF Asked, NoFollow, UsesParent, MakesFile
<1>3. Meaning(Asked, NoFollow)' = Meaning(Asked, NoFollow)
  BY <1>1, <1>2 DEF Meaning, Leads
<1>4. ASSUME NEW n, NEW rest, Reaches(n, rest)
      PROVE  Reaches(n, rest)'
  <2>1. PICK q \in Seq(Parts), left \in 0 .. MaxSymlinks :
          Asked = q \o rest /\ Leads(Root, q, MaxSymlinks, FALSE) = OkAt(n, left)
    BY <1>4, Zenon DEF Reaches
  <2>2. Asked' = q \o rest /\ Leads(Root, q, MaxSymlinks, FALSE)' = OkAt(n, left)
    BY <1>1, <1>2, <2>1 DEF Leads
  <2> QED BY <2>2, Zenon DEF Reaches
<1> QED BY <1>1, <1>2, <1>3, <1>4

(* The state of the walk.                                                  *)
LEMMA Transfer ==
  ASSUME TreeSound, UNCHANGED <<tree, op, mode>>,
         NEW n, NEW ps, NEW path, NEW s, NEW left, WalkFits(n, ps, path, s, left),
         at' = n, parts' = ps, expected' = path, links' = s, budget' = left
  PROVE  Walking'
<1>1. /\ kind' = kind /\ Asked' = Asked /\ NoFollow' = NoFollow /\ Follow' = Follow
      /\ parent' = parent /\ name' = name
      /\ Meaning(Asked, NoFollow)' = Meaning(Asked, NoFollow)
  <2>1. kind' = kind /\ parent' = parent /\ name' = name /\ target' = target
    BY DEF tree
  <2>2. Follow' = Follow
    BY <2>1 DEF Follow, Resolved, Entry, Children
  <2> QED BY <2>1, <2>2, Frame
<1>2. /\ budget' \in 0 .. MaxSymlinks
      /\ kind'[at'] # "free" /\ (parts' # <<>> => kind'[at'] = "dir")
      /\ Chained(links', Len(parts'))
  BY <1>1 DEF WalkFits
<1>3. CurrentPath(at)' = expected'
  BY <1>1 DEF WalkFits, CurrentPath
<1>4. Leads(at, parts, budget, NoFollow)' = Meaning(Asked, NoFollow)'
  BY <1>1 DEF WalkFits, Leads
<1>5. Progress(at, parts, links, budget)'
  <2>1. PICK q, pre, rest \in Seq(Parts) :
          /\ Asked = q \o rest /\ ps = pre \o rest
          /\ Leads(Root, q, MaxSymlinks, FALSE) = Leads(n, pre, left, FALSE)
          /\ pre = <<>> \/ \E i \in DOMAIN s : Len(s[i].rest) = Len(rest)
    BY Zenon DEF WalkFits, Progress
  <2>2. /\ Asked' = q \o rest /\ parts' = pre \o rest
        /\ Leads(Root, q, MaxSymlinks, FALSE)' = Leads(at, pre, budget, FALSE)'
        /\ pre = <<>> \/ \E i \in DOMAIN links' : Len(links'[i].rest) = Len(rest)
    BY <1>1, <2>1 DEF Leads
  <2> QED BY <2>2, Zenon DEF Progress
<1>6. Rewinds(links)'
  <2> SUFFICES ASSUME links' # <<>>
               PROVE  /\ kind'[links'[1].dir] = "dir"
                      /\ Reaches(links[1].dir, <<links[1].name>> \o links[1].rest)'
    BY Zenon DEF Rewinds
  <2>1. kind[s[1].dir] = "dir" /\ Reaches(s[1].dir, <<s[1].name>> \o s[1].rest)
    BY DEF WalkFits, Rewinds
  <2>2. PICK q \in Seq(Parts), l \in 0 .. MaxSymlinks :
          /\ Asked = q \o (<<s[1].name>> \o s[1].rest)
          /\ Leads(Root, q, MaxSymlinks, FALSE) = OkAt(s[1].dir, l)
    BY <2>1, Zenon DEF Reaches
  <2>3. /\ Asked' = q \o (<<links'[1].name>> \o links'[1].rest)
        /\ Leads(Root, q, MaxSymlinks, FALSE)' = OkAt(links'[1].dir, l)
    BY <1>1, <2>2 DEF Leads
  <2> QED BY <1>1, <2>1, <2>3, Zenon DEF Reaches, OkAt
<1>7. Chained(links, Len(parts))'
  BY <1>2 DEF Chained
<1> QED BY <1>2, <1>3, <1>4, <1>5, <1>6, <1>7, Zenon DEF Walking, WalkFits

-----------------------------------------------------------------------------
(* The invariant.                                                          *)
ModeFits ==
  pc # "idle" =>
    /\ op \in Ops
    /\ mode = "open" <=> op.do = "open"
    /\ mode = "parent" <=> UsesParent(op)
    /\ mode = "probe" => op.do = "ensure_mount_destination"

Arrived == Meaning(Asked, NoFollow).err = "ok" /\ Meaning(Asked, NoFollow).node = at

(* What is missing is the rest of the path after what is there.            *)
Lost ==
  /\ kind[found.dir] = "dir" /\ Reaches(found.dir, found.rest)
  /\ mode # "dirs" => found.rest # <<>> /\ Meaning(Asked, NoFollow).err = "ENOENT"

PathInv ==
  /\ TreeSound /\ ModeFits /\ result.err # "EACCES"
  /\ pc = "walk" => Walking
  /\ pc \in {"resolved", "leaf"} => Arrived
  /\ pc = "leaf" => mode \in {"parent", "dirs"}
  /\ pc = "missing" => Lost
  /\ LandsOnPath

(* Steps of a call that leave the tree as it is.                           *)
LEMMA Framed ==
  ASSUME TreeSound, ModeFits, pc # "idle", UNCHANGED <<tree, op, mode>>,
         result'.err # "EACCES",
         pc' = "walk" => Walking',
         pc' \in {"resolved", "leaf"} => Arrived',
         pc' = "leaf" => mode \in {"parent", "dirs"},
         pc' = "missing" => Lost',
         pc' = "idle" => LandsOnPath'
  PROVE  PathInv'
<1>1. TreeSound' /\ UsesParent(op)' = UsesParent(op)
  BY Frame
<1>2. ModeFits'
  BY <1>1 DEF ModeFits
<1>3. LandsOnPath'
  BY DEF LandsOnPath
<1> QED BY <1>1, <1>2, <1>3 DEF PathInv

LEMMA Failing ==
  ASSUME TreeSound, ModeFits, pc # "idle", UNCHANGED <<tree, op, mode>>,
         NEW e, e # "EACCES", Fail(e)
  PROVE  PathInv'
<1>1. pc' = "idle" /\ result'.err = e /\ result'.node = Nothing
  BY DEF Fail, Return
<1>2. LandsOnPath'
  BY <1>1 DEF LandsOnPath
<1> QED BY <1>1, <1>2, Framed

LEMMA Descends ==
  ASSUME TreeSound, NEW n \in Inside, NEW left \in 0 .. MaxSymlinks, kind[n] = "dir"
  PROVE  /\ Passes(n, "..", Up(n), left)
         /\ \A c \in Parts : c # ".." =>
              \A m \in Entry(n, c) : kind[m] # "link" => Passes(n, c, m, left)
<1>1. ASSUME NEW p \in Seq(Parts), NEW keep \in BOOLEAN, p # <<>>
      PROVE  /\ Head(p) = ".." => Leads(n, p, left, keep) = Leads(Up(n), Tail(p), left, keep)
             /\ Head(p) # ".." =>
                  \A m \in Entry(n, Head(p)) : kind[m] # "link" =>
                    Leads(n, p, left, keep) = Leads(m, Tail(p), left, keep)
  <2>1. Turns(n, p, left, keep)
    BY LeadsTurns
  <2> QED BY <1>1, <2>1 DEF Turns
<1> QED BY <1>1 DEF Passes

(* The path of an inode is a sequence.                                     *)
LEMMA PathTypes ==
  ASSUME TreeSound, NEW n \in Inside
  PROVE  CurrentPath(n) \in Seq(Parts)
<1> DEFINE T == {m \in Inside : CurrentPath(m) \notin Seq(Parts)}
<1>1. Root \notin T
  BY PathSteps
<1>2. ASSUME T # {} PROVE FALSE
  <2>1. T \in (SUBSET (Inside \ {Root})) \ {{}}
    BY <1>1, <1>2
  <2>2. PICK m \in T : parent[m] \notin T
    <3> HIDE DEF T
    <3> QED BY <2>1 DEF TreeSound, IsTree
  <2>3. /\ m \in Inside \ {Root} /\ parent[m] \in Inside
        /\ name[m] \in Parts /\ CurrentPath(m) \notin Seq(Parts)
    BY <2>1, <2>2 DEF TreeSound, Apart, TreeType, Parts, Inside
  <2>4. CurrentPath(parent[m]) \in Seq(Parts)
    BY <2>2, <2>3
  <2>5. CurrentPath(m) = Append(CurrentPath(parent[m]), name[m])
    BY <2>3, PathSteps
  <2> QED BY <2>3, <2>4, <2>5, AppendIn
<1> QED BY <1>2

LEMMA UpPath ==
  ASSUME TreeSound, NEW n \in Inside
  PROVE  CurrentPath(Up(n)) = IF n = Root \/ CurrentPath(n) = <<>>
                              THEN CurrentPath(n) ELSE Front(CurrentPath(n))
<1>1. CASE n = Root
  BY <1>1 DEF Up
<1>2. CASE n # Root
  <2> DEFINE u == parent[n]
             s == CurrentPath(u)
  <2>1. /\ u \in Inside /\ Up(n) = u /\ name[n] \in Parts
        /\ CurrentPath(n) = Append(s, name[n])
    BY <1>2, PathSteps DEF Up, TreeSound, Apart, TreeType, Parts, Inside
  <2>2. s \in Seq(Parts)
    BY <2>1, PathTypes
  <2> HIDE DEF s
  <2>3. Append(s, name[n]) # <<>> /\ Front(Append(s, name[n])) = s
    BY <2>1, <2>2 DEF Front
  <2> QED BY <1>2, <2>1, <2>3 DEF s
<1> QED BY <1>1, <1>2

LEMMA DownPath ==
  ASSUME TreeSound, NEW n \in Inside, NEW c \in Parts, c # "..", NEW m \in Entry(n, c)
  PROVE  /\ CurrentPath(m) = IF c = "." THEN CurrentPath(n) ELSE Append(CurrentPath(n), c)
         /\ m \in Inside /\ (kind[n] # "free" => kind[m] # "free")
<1>1. m \in Inside
  BY BaseIn
<1>2. CASE c = "."
  BY <1>1, <1>2 DEF Entry
<1>3. CASE c # "."
  BY <1>1, <1>3, PathSteps DEF Entry, Children
<1> QED BY <1>2, <1>3, <1>1

-----------------------------------------------------------------------------
(* The steps of resolve_partial.                                           *)
LEMMA InTheWalk ==
  ASSUME Inv, PathInv, InWalk
  PROVE  /\ TypeOK /\ TreeSound /\ ModeFits /\ result.err # "EACCES" /\ pc = "walk"
         /\ at \in Inside /\ parts \in Seq(Parts) /\ parts # <<>>
         /\ links \in Seq(Entered) /\ budget \in 0 .. MaxSymlinks
         /\ WalkFits(at, parts, expected, links, budget)
         /\ kind[at] = "dir" /\ kind[at] # "free" /\ CurrentPath(at) = expected
         /\ Head(parts) \in Parts /\ NoFollow \in BOOLEAN
         /\ Tail(parts) \in Seq(Parts)
         /\ Leads(at, parts, budget, NoFollow) = Meaning(Asked, NoFollow)
         /\ Turns(at, parts, budget, NoFollow)
<1>1. /\ TypeOK /\ TreeSound /\ ModeFits /\ result.err # "EACCES" /\ pc = "walk"
      /\ at \in Inside /\ parts \in Seq(Parts) /\ parts # <<>> /\ links \in Seq(Entered)
      /\ Walking
  BY DEF Inv, PathInv, InWalk, TypeOK, WalkType, Confined
<1>2. /\ WalkFits(at, parts, expected, links, budget) /\ budget \in 0 .. MaxSymlinks
      /\ kind[at] = "dir" /\ CurrentPath(at) = expected
      /\ Leads(at, parts, budget, NoFollow) = Meaning(Asked, NoFollow)
  BY <1>1 DEF Walking, WalkFits
<1>3. Head(parts) \in Parts /\ Tail(parts) \in Seq(Parts) /\ NoFollow \in BOOLEAN
  BY <1>1, HeadThenTail, AskedIn
<1>4. Turns(at, parts, budget, NoFollow)
  BY <1>1, <1>2, <1>3, LeadsTurns
<1> QED BY <1>1, <1>2, <1>3, <1>4

(* A step of the walk that goes on.                                        *)
LEMMA Moving ==
  ASSUME Inv, PathInv, InWalk, NEW n, NEW ps, NEW path, NEW s, NEW left,
         WalkFits(n, ps, path, s, left), UNCHANGED <<tree, op, mode, pc, result>>,
         at' = n, parts' = ps, expected' = path, links' = s, budget' = left
  PROVE  PathInv'
<1>1. TreeSound /\ ModeFits /\ result.err # "EACCES" /\ pc = "walk"
  BY InTheWalk
<1>2. Walking'
  BY <1>1, Transfer
<1> QED BY <1>1, <1>2, Framed

LEMMA DotDotMeans ==
  ASSUME Inv, PathInv, DotDot
  PROVE  PathInv'
<1> DEFINE up == IF at = Root THEN Root ELSE parent[at]
           path == IF at = Root \/ expected = <<>> THEN expected
                                                   ELSE Front(expected)
<1>1. InWalk /\ Head(parts) = ".." /\ UNCHANGED <<tree, op, mode>>
  BY DEF DotDot
<1>2. /\ TreeSound /\ TypeOK /\ at \in Inside /\ kind[at] = "dir" /\ parts # <<>>
      /\ parts \in Seq(Parts) /\ links \in Seq(Entered) /\ budget \in 0 .. MaxSymlinks
      /\ WalkFits(at, parts, expected, links, budget) /\ CurrentPath(at) = expected
  BY <1>1, InTheWalk
<1>3. up = Up(at) /\ CurrentPath(up) = path
  BY <1>2, UpPath DEF Up
<1>4. up \in Inside /\ kind[up] = "dir"
  BY <1>2, <1>3, BaseIn DEF Up, TreeSound, IsTree, Apart
<1>5. WalkFits(up, Tail(parts), path, Consumed(links), budget)
  <2>1. Passes(at, Head(parts), up, budget)
    BY <1>1, <1>2, <1>3, Descends
  <2> HIDE DEF up, path
  <2> QED BY <1>2, <1>3, <1>4, <2>1, Consume
<1>6. /\ at' = up /\ expected' = path /\ parts' = Tail(parts)
      /\ links' = Consumed(links) /\ UNCHANGED <<budget, pc, result>>
  BY <1>3 DEF DotDot, AsExpected
<1> HIDE DEF up, path
<1> QED BY <1>1, <1>5, <1>6, Moving

LEMMA DownMeans ==
  ASSUME Inv, PathInv, Down
  PROVE  PathInv'
<1>1. InWalk /\ Head(parts) # ".." /\ UNCHANGED <<tree, op, mode, pc, budget, result>>
  BY DEF Down
<1>2. /\ TreeSound /\ TypeOK /\ at \in Inside /\ kind[at] = "dir" /\ parts # <<>>
      /\ parts \in Seq(Parts) /\ links \in Seq(Entered) /\ budget \in 0 .. MaxSymlinks
      /\ WalkFits(at, parts, expected, links, budget) /\ CurrentPath(at) = expected
      /\ Head(parts) \in Parts
  BY <1>1, InTheWalk
<1>3. PICK m \in Entry(at, Head(parts)) :
        (kind[m] = "dir" \/ (kind[m] = "file" /\ Tail(parts) = <<>>)) /\ at' = m
  BY DEF Down, Here
<1>4. /\ m \in Inside
      /\ CurrentPath(m) = IF Head(parts) = "." THEN expected
                          ELSE Append(expected, Head(parts))
  BY <1>1, <1>2, DownPath
<1>5. WalkFits(m, Tail(parts), CurrentPath(m), Consumed(links), budget)
  <2>1. Passes(at, Head(parts), m, budget)
    BY <1>1, <1>2, <1>3, Descends
  <2>2. kind[m] # "free" /\ (Tail(parts) # <<>> => kind[m] = "dir")
    BY <1>3
  <2> QED BY <1>2, <1>4, <2>1, <2>2, Consume
<1>6. /\ at' = m /\ expected' = CurrentPath(m) /\ parts' = Tail(parts)
      /\ links' = Consumed(links)
  BY <1>3, <1>4 DEF Down
<1> QED BY <1>1, <1>5, <1>6, Moving

LEMMA FollowLinkMeans ==
  ASSUME Inv, PathInv, FollowLink
  PROVE  PathInv'
<1>1. InWalk /\ Head(parts) # ".." /\ UNCHANGED <<tree, op, mode, pc, result>>
  BY DEF FollowLink
<1>2. /\ TreeSound /\ TypeOK /\ at \in Inside /\ parts # <<>>
      /\ parts \in Seq(Parts) /\ links \in Seq(Entered) /\ budget \in 0 .. MaxSymlinks
      /\ WalkFits(at, parts, expected, links, budget)
  BY <1>1, InTheWalk
<1>3. PICK m \in Entry(at, Head(parts)) :
        /\ StaysLink(m) /\ budget > 0 /\ budget' = budget - 1
        /\ links' = Append(links, [dir |-> at, name |-> Head(parts),
                                   rest |-> Tail(parts),
                                   left |-> Len(target[m].parts)])
        /\ at' = IF target[m].abs THEN Root ELSE at
        /\ expected' = IF target[m].abs THEN <<>> ELSE expected
        /\ parts' = target[m].parts \o Tail(parts)
  BY DEF FollowLink, Here
<1> DEFINE s == Append(links, [dir |-> at, name |-> Head(parts), rest |-> Tail(parts),
                               left |-> Len(target[m].parts)])
           path == IF target[m].abs THEN <<>> ELSE expected
           ps == target[m].parts \o Tail(parts)
<1>4. WalkFits(Base(at, m), ps, path, s, budget - 1)
  <2>1. kind[m] = "link" /\ ~(NoFollow /\ Tail(parts) = <<>>) /\ budget # 0
    BY <1>2, <1>3, BoundsAssumption DEF StaysLink
  <2> QED BY <1>1, <1>2, <2>1, Followed
<1>5. at' = Base(at, m)
  BY <1>3 DEF Base
<1>6. links' = s /\ parts' = ps /\ expected' = path /\ budget' = budget - 1
  BY <1>3
<1> HIDE DEF s, path, ps
<1> QED BY <1>1, <1>4, <1>5, <1>6, Moving

LEMMA MissingMeans ==
  ASSUME Inv, PathInv, Missing
  PROVE  PathInv'
<1>1. /\ InWalk /\ Head(parts) # ".." /\ Entry(at, Head(parts)) = {}
      /\ UNCHANGED <<tree, op, mode, result>> /\ pc' = "missing"
  BY DEF Missing, Here, walk
<1>2. /\ TreeSound /\ ModeFits /\ result.err # "EACCES" /\ pc = "walk"
      /\ at \in Inside /\ kind[at] = "dir" /\ parts # <<>>
      /\ parts \in Seq(Parts) /\ links \in Seq(Entered) /\ budget \in 0 .. MaxSymlinks
      /\ WalkFits(at, parts, expected, links, budget)
      /\ Leads(at, parts, budget, NoFollow) = Meaning(Asked, NoFollow)
      /\ Turns(at, parts, budget, NoFollow)
  BY <1>1, InTheWalk
<1>3. Meaning(Asked, NoFollow).err = "ENOENT"
  <2>1. Leads(at, parts, budget, NoFollow) = Stops("ENOENT", budget)
    BY <1>1, <1>2 DEF Turns
  <2> QED BY <1>2, <2>1 DEF Stops
<1>4. PICK d, r : /\ d = found'.dir /\ r = found'.rest
                  /\ kind[d] = "dir" /\ Reaches(d, r) /\ r # <<>>
  <2>1. CASE links = <<>>
    <3>1. found'.dir = at /\ found'.rest = parts
      BY <2>1 DEF Missing
    <3>2. Reaches(at, parts)
      <4>1. Progress(at, parts, <<>>, budget)
        BY <1>2, <2>1 DEF WalkFits
      <4> QED BY <1>2, <4>1, OnPath
    <3> QED BY <1>2, <3>1, <3>2
  <2>2. CASE links # <<>>
    <3> DEFINE e == links[1]
               r0 == <<e.name>> \o e.rest
    <3>1. Head(links) = e /\ e \in Entered
      BY <1>2, <2>2
    <3>2. found'.dir = e.dir /\ found'.rest = r0
      BY <2>2, <3>1 DEF Missing
    <3>3. kind[e.dir] = "dir" /\ Reaches(e.dir, r0)
      BY <1>2, <2>2 DEF WalkFits, Rewinds
    <3>4. r0 # <<>>
      <4>1. e.name \in Parts /\ e.rest \in Seq(Parts)
        BY <3>1 DEF Entered
      <4> HIDE DEF e
      <4> QED BY <4>1
    <3> HIDE DEF e, r0
    <3> QED BY <3>2, <3>3, <3>4
  <2> QED BY <2>1, <2>2
<1>5. Lost'
  <2>1. kind' = kind /\ mode' = mode
    BY <1>1 DEF tree
  <2>2. Reaches(d, r)' /\ Meaning(Asked, NoFollow)' = Meaning(Asked, NoFollow)
    BY <1>1, <1>2, <1>4, Frame
  <2>3. Reaches(found.dir, found.rest)'
    BY <1>4, <2>2 DEF Reaches
  <2> QED BY <1>3, <1>4, <2>1, <2>2, <2>3 DEF Lost
<1> QED BY <1>1, <1>2, <1>5, Framed

(* The walk is at its end.                                                 *)
LEMMA Ending ==
  ASSUME Inv, PathInv, pc = "walk", pc' = "resolved",
         UNCHANGED <<tree, op, mode, result>>, NEW n, at' = n,
         Meaning(Asked, NoFollow).err = "ok", Meaning(Asked, NoFollow).node = n
  PROVE  PathInv'
<1>1. TreeSound /\ ModeFits /\ result.err # "EACCES" /\ pc # "idle"
  BY DEF PathInv
<1>2. Arrived'
  <2>1. Meaning(Asked, NoFollow)' = Meaning(Asked, NoFollow)
    BY <1>1, Frame
  <2> QED BY <2>1 DEF Arrived
<1> QED BY <1>1, <1>2, Framed

LEMMA ArriveMeans ==
  ASSUME Inv, PathInv, KeepLink \/ Arrive
  PROVE  PathInv'
<1>1. CASE KeepLink
  <2>1. InWalk /\ Head(parts) # ".." /\ UNCHANGED <<tree, op, mode, result>> /\ pc' = "resolved"
    BY <1>1 DEF KeepLink
  <2>2. /\ TreeSound /\ pc = "walk" /\ at \in Inside /\ kind[at] = "dir" /\ parts # <<>>
        /\ budget \in 0 .. MaxSymlinks
        /\ Leads(at, parts, budget, NoFollow) = Meaning(Asked, NoFollow)
        /\ Turns(at, parts, budget, NoFollow)
    BY <2>1, InTheWalk
  <2>3. PICK n \in Entry(at, Head(parts)) : kind[n] = "link" /\ ~StaysLink(n) /\ at' = n
    BY <1>1 DEF KeepLink, Here
  <2>4. NoFollow = TRUE /\ Tail(parts) = <<>>
    BY <2>3 DEF StaysLink, NoFollow
  <2>5. n \in Inside
    BY <2>2, BaseIn
  <2>6. Leads(at, parts, budget, NoFollow) = Leads(n, <<>>, budget, NoFollow)
    BY <2>1, <2>2, <2>3, <2>4 DEF Turns
  <2>7. Leads(n, <<>>, budget, NoFollow) = OkAt(n, budget)
    <3>1. <<>> \in Seq(Parts) /\ NoFollow \in BOOLEAN
      BY <2>4
    <3> QED BY <2>2, <2>5, <3>1, LeadsTurns DEF Turns, OkAt
  <2>8. Meaning(Asked, NoFollow) = OkAt(n, budget)
    BY <2>2, <2>6, <2>7
  <2>9. Meaning(Asked, NoFollow).err = "ok" /\ Meaning(Asked, NoFollow).node = n
    BY <2>8 DEF OkAt
  <2> QED BY <2>1, <2>2, <2>3, <2>9, Ending
<1>2. CASE Arrive
  <2>1. /\ TreeSound /\ ModeFits /\ result.err # "EACCES" /\ pc = "walk" /\ parts = <<>>
        /\ at \in Inside /\ NoFollow \in BOOLEAN
        /\ WalkFits(at, parts, expected, links, budget)
    BY <1>2, AskedIn DEF Arrive, Inv, PathInv, Confined, Walking
  <2>2. Meaning(Asked, NoFollow) = OkAt(at, budget)
    <3>1. <<>> \in Seq(Parts)
      OBVIOUS
    <3>2. Leads(at, <<>>, budget, NoFollow) = OkAt(at, budget)
      <4>1. budget \in 0 .. MaxSymlinks
        BY <2>1 DEF WalkFits
      <4> QED BY <2>1, <3>1, <4>1, LeadsTurns DEF Turns, OkAt
    <3> QED BY <2>1, <3>2 DEF WalkFits
  <2>3. AsExpected(at, expected)
    BY <2>1 DEF WalkFits, AsExpected
  <2>4. pc' = "resolved" /\ UNCHANGED <<tree, op, mode, result>> /\ at' = at
    BY <1>2, <2>3 DEF Arrive, walk
  <2>5. Meaning(Asked, NoFollow).err = "ok" /\ Meaning(Asked, NoFollow).node = at
    BY <2>2 DEF OkAt
  <2> QED BY <2>1, <2>4, <2>5, Ending
<1> QED BY <1>1, <1>2

LEMMA WalkMeans ==
  ASSUME Inv, PathInv,
         \/ DotDot \/ Missing \/ FollowLink \/ TooManyLinks \/ KeepLink
         \/ NotADirectory \/ Down \/ Arrive
  PROVE  PathInv'
<1>1. CASE TooManyLinks \/ NotADirectory
  <2>1. InWalk /\ UNCHANGED <<tree, op, mode>> /\ (Fail("ELOOP") \/ Fail("ENOTDIR"))
    BY <1>1 DEF TooManyLinks, NotADirectory
  <2>2. TreeSound /\ ModeFits /\ pc # "idle"
    BY <2>1 DEF PathInv, InWalk
  <2> QED BY <2>1, <2>2, Failing
<1> QED BY <1>1, DotDotMeans, MissingMeans, FollowLinkMeans, ArriveMeans, DownMeans

-----------------------------------------------------------------------------
(* The steps of the calls.                                                 *)

(* A path that reaches a directory reaches, one component longer, the      *)
(* directory's entry.                                                      *)
LEMMA Deeper ==
  TreeSound =>
    \A q \in Seq(Parts), d, n \in Inside, c \in Parts, left \in 0 .. MaxSymlinks,
       keep \in BOOLEAN :
      /\ Leads(Root, q, MaxSymlinks, FALSE) = OkAt(d, left)
      /\ kind[d] = "dir" /\ c # ".." /\ n \in Entry(d, c)
      /\ kind[n] # "link" \/ keep = TRUE
      => Leads(Root, q \o <<c>>, MaxSymlinks, keep) = OkAt(n, left)
<1> HAVE TreeSound
<1> TAKE q \in Seq(Parts), d, n \in Inside, c \in Parts, left \in 0 .. MaxSymlinks,
         keep \in BOOLEAN
<1> HAVE /\ Leads(Root, q, MaxSymlinks, FALSE) = OkAt(d, left)
         /\ kind[d] = "dir" /\ c # ".." /\ n \in Entry(d, c)
         /\ kind[n] # "link" \/ keep = TRUE
<1> DEFINE p == <<c>>
<1>1. p \in Seq(Parts) /\ p # <<>> /\ Head(p) = c /\ Tail(p) = <<>> /\ <<>> \in Seq(Parts)
  OBVIOUS
<1> HIDE DEF p
<1>2. Root \in Inside /\ MaxSymlinks \in 0 .. MaxSymlinks
  BY RootIn
<1>3. Leads(Root, q \o p, MaxSymlinks, keep)
        = Onward(Leads(Root, q, MaxSymlinks, FALSE), p, keep)
  BY <1>1, <1>2, LeadsAppend
<1>4. Leads(Root, q \o p, MaxSymlinks, keep) = Leads(d, p, left, keep)
  <2>1. Onward(OkAt(d, left), p, keep) = Leads(d, p, left, keep)
    BY OnwardOk
  <2>2. Leads(Root, q, MaxSymlinks, FALSE) = OkAt(d, left)
    OBVIOUS
  <2>3. Leads(Root, q \o p, MaxSymlinks, keep) = Onward(OkAt(d, left), p, keep)
    BY <1>3, <2>2
  <2> QED BY <2>1, <2>3
<1>5. Leads(d, p, left, keep) = Leads(n, <<>>, left, keep)
  <2>1. Turns(d, p, left, keep)
    BY <1>1, LeadsTurns
  <2> QED BY <1>1, <2>1 DEF Turns
<1>6. Leads(n, <<>>, left, keep) = OkAt(n, left)
  <2>1. Turns(n, <<>>, left, keep)
    BY <1>1, LeadsTurns
  <2> QED BY <2>1 DEF Turns, OkAt
<1> QED BY <1>4, <1>5, <1>6 DEF p

LEMMA DeeperNext ==
  TreeSound' =>
    \A q \in Seq(Parts), d, n \in Inside, c \in Parts, left \in 0 .. MaxSymlinks,
       keep \in BOOLEAN :
      /\ Leads(Root, q, MaxSymlinks, FALSE)' = OkAt(d, left)
      /\ kind'[d] = "dir" /\ c # ".." /\ n \in Entry(d, c)'
      /\ kind'[n] # "link" \/ keep = TRUE
      => Leads(Root, q \o <<c>>, MaxSymlinks, keep)' = OkAt(n, left)
<1>1. (TreeSound =>
         \A q \in Seq(Parts), d, n \in Inside, c \in Parts, left \in 0 .. MaxSymlinks,
            keep \in BOOLEAN :
           /\ Leads(Root, q, MaxSymlinks, FALSE) = OkAt(d, left)
           /\ kind[d] = "dir" /\ c # ".." /\ n \in Entry(d, c)
           /\ kind[n] # "link" \/ keep = TRUE
           => Leads(Root, q \o <<c>>, MaxSymlinks, keep) = OkAt(n, left))'
  BY Deeper, PTL
<1> QED BY <1>1 DEF OkAt

(* A new call, and the second resolution of ensure_mount_destination.      *)
LEMMA BeginningNext ==
  TreeSound' /\ TypeOK' /\ at' = Root /\ parts' = Asked' /\ expected' = <<>>
             /\ links' = <<>> /\ budget' = MaxSymlinks
    => Walking'
<1>1. (TreeSound /\ TypeOK /\ at = Root /\ parts = Asked /\ expected = <<>>
                 /\ links = <<>> /\ budget = MaxSymlinks => Walking)'
  BY Beginning, PTL
<1> QED BY <1>1

LEMMA TreeSame ==
  TreeSound /\ UNCHANGED tree => TreeSound'
BY LeadsSame

LEMMA CallMeans ==
  ASSUME Inv, PathInv, NEW o \in Ops, Call(o), TypeOK'
  PROVE  PathInv'
<1>1. TreeSound' /\ op' = o /\ o \in Calls
  <2>1. TreeSound /\ UNCHANGED tree
    BY DEF Call, PathInv
  <2> QED BY <2>1, TreeSame, OpsAssumption DEF Call
<1>2. CASE Fail("EINVAL")
  <2>1. pc' = "idle" /\ result'.err = "EINVAL" /\ result'.node = Nothing
    BY <1>2 DEF Fail, Return
  <2> QED BY <1>1, <2>1 DEF PathInv, ModeFits, LandsOnPath
<1>3. ASSUME NEW path, NEW why, Resolve(path, why), UNCHANGED result,
             why = "parent" => path = Front(o.path),
             why # "parent" => path = o.path,
             why = "dirs" => o.do = "create_directories",
             why = "open" <=> o.do = "open",
             why = "parent" <=> UsesParent(o),
             why = "probe" => o.do = "ensure_mount_destination"
      PROVE  PathInv'
  <2>1. /\ mode' = why /\ pc' = "walk" /\ at' = Root /\ parts' = path
        /\ expected' = <<>> /\ links' = <<>> /\ budget' = MaxSymlinks
    BY <1>3 DEF Resolve
  <2>2. Asked' = path
    BY <1>1, <1>3, <2>1 DEF Asked, MakesFile
  <2>3. Walking'
    BY <1>1, <2>1, <2>2, BeginningNext
  <2>4. ModeFits'
    BY <1>1, <1>3, <2>1 DEF ModeFits, UsesParent
  <2>5. result'.err # "EACCES"
    BY <1>3 DEF PathInv
  <2> QED BY <1>1, <2>1, <2>3, <2>4, <2>5 DEF PathInv, LandsOnPath
<1>4. CASE UsesParent(o) /\ Resolve(Front(o.path), "parent") /\ UNCHANGED result
  BY <1>3, <1>4 DEF UsesParent
<1>5. CASE ~UsesParent(o) /\ UNCHANGED result
           /\ Resolve(o.path, CASE o.do = "open" -> "open"
                             [] o.do = "create_directories" -> "dirs"
                             [] o.do = "ensure_mount_destination" -> "probe")
  <2> DEFINE why == CASE o.do = "open" -> "open"
                      [] o.do = "create_directories" -> "dirs"
                      [] o.do = "ensure_mount_destination" -> "probe"
  <2>1. /\ why # "parent"
        /\ why = "dirs" => o.do = "create_directories"
        /\ why = "open" <=> o.do = "open"
        /\ why = "probe" => o.do = "ensure_mount_destination"
    BY <1>1, <1>5 DEF Calls, UsesParent
  <2>2. Resolve(o.path, why)
    BY <1>5
  <2> HIDE DEF why
  <2> QED BY <1>3, <1>5, <2>1, <2>2
<1> QED BY <1>2, <1>4, <1>5 DEF Call

LEMMA OpenMeans ==
  ASSUME Inv, PathInv, NotThere \/ Opened \/ ParentResolved
  PROVE  PathInv'
<1>1. TreeSound /\ ModeFits /\ UNCHANGED <<tree, op, mode, walk>> /\ pc # "idle"
      /\ result.err # "EACCES"
  BY DEF PathInv, NotThere, Opened, ParentResolved
<1>2. CASE (\E e \in {"ENOENT", "ENOTDIR", "ELOOP"} : Fail(e))
  BY <1>1, <1>2, Failing
<1>3. CASE ParentResolved
  <2>1. pc' = "leaf" /\ UNCHANGED result /\ Arrived /\ mode = "parent"
    BY <1>3 DEF PathInv, ParentResolved
  <2>2. Arrived'
    BY <1>1, <2>1, Frame DEF Arrived, walk
  <2> QED BY <1>1, <2>1, <2>2, Framed
<1>4. CASE Opened /\ Return("ok", at)
  <2>1. pc = "resolved" /\ Arrived /\ mode \in {"open", "probe"}
    BY <1>4 DEF PathInv, Opened
  <2>2. Asked = op.path /\ ~UsesParent(op)
    BY <1>1, <2>1 DEF Asked, ModeFits
  <2>3. Meaning(op.path, NoFollow \/ UsesParent(op)).node = at
    <3>1. (NoFollow \/ UsesParent(op)) = NoFollow
      BY <2>2 DEF NoFollow
    <3> QED BY <2>1, <2>2, <3>1 DEF Arrived
  <2>4. /\ pc' = "idle" /\ result'.err = "ok" /\ result'.node = at
        /\ op' = op
    BY <1>1, <1>4 DEF Return
  <2>5. Meaning(op.path, NoFollow \/ UsesParent(op))'
          = Meaning(op.path, NoFollow \/ UsesParent(op))
    <3>1. Follow' = Follow
      BY <1>1 DEF tree, Follow, Resolved, Entry, Children
    <3> QED BY <1>1, <2>4, <3>1 DEF Meaning, Leads, NoFollow, UsesParent
  <2>6. LandsOnPath'
    BY <2>3, <2>4, <2>5 DEF LandsOnPath
  <2> QED BY <1>1, <2>4, <2>6, Framed
<1> QED BY <1>2, <1>3, <1>4 DEF NotThere, Opened

LEMMA DestinationMeans ==
  ASSUME Inv, PathInv, DestinationMissing, TypeOK'
  PROVE  PathInv'
<1>1. /\ TreeSound' /\ op' = op /\ mode = "probe" /\ pc # "idle" /\ UNCHANGED result
      /\ result.err # "EACCES"
  <2>1. TreeSound /\ UNCHANGED tree
    BY DEF DestinationMissing, PathInv
  <2> QED BY <2>1, TreeSame DEF DestinationMissing, PathInv
<1>2. op.do = "ensure_mount_destination" /\ op \in Ops
  BY <1>1 DEF PathInv, ModeFits
<1>3. /\ mode' = "dirs" /\ pc' = "walk" /\ at' = Root
      /\ parts' = IF MakesFile THEN Front(op.path) ELSE op.path
      /\ expected' = <<>> /\ links' = <<>> /\ budget' = MaxSymlinks
  BY DEF DestinationMissing, Resolve
<1>4. Asked' = parts'
  BY <1>1, <1>3 DEF Asked, MakesFile
<1>5. Walking'
  BY <1>1, <1>3, <1>4, BeginningNext
<1>6. ModeFits'
  BY <1>1, <1>2, <1>3 DEF ModeFits, UsesParent
<1> QED BY <1>1, <1>3, <1>5, <1>6 DEF PathInv, LandsOnPath

(* create_directories has its directory, where the path leads.             *)
LEMMA HavingDirs ==
  ASSUME Inv, PathInv, pc # "idle", mode = "dirs", UNCHANGED <<tree, op, mode>>,
         NEW d, HaveDirs(d), NEW left, Meaning(Asked, FALSE) = OkAt(d, left)
  PROVE  PathInv'
<1>1. TreeSound /\ ModeFits /\ result.err # "EACCES"
  BY DEF PathInv
<1>2. NoFollow = FALSE /\ ~UsesParent(op)
  BY <1>1 DEF ModeFits, NoFollow
<1>3. CASE MakesFile
  <2>1. pc' = "leaf" /\ at' = d /\ UNCHANGED result
    BY <1>3 DEF HaveDirs
  <2>2. Arrived'
    <3>1. Meaning(Asked, NoFollow)' = OkAt(d, left)
      BY <1>1, <1>2, Frame
    <3> QED BY <2>1, <3>1 DEF Arrived, OkAt
  <2> QED BY <1>1, <2>1, <2>2, Framed
<1>4. CASE ~MakesFile
  <2>1. pc' = "idle" /\ result'.err = "ok" /\ result'.node = d
    BY <1>4 DEF HaveDirs, Return
  <2>2. Asked = op.path
    BY <1>4 DEF Asked
  <2>3. Meaning(op.path, NoFollow \/ UsesParent(op))' = OkAt(d, left)
    <3>1. Follow' = Follow
      BY DEF tree, Follow, Resolved, Entry, Children
    <3>2. (NoFollow \/ UsesParent(op))' = FALSE
      BY <1>2 DEF NoFollow, UsesParent
    <3> QED BY <2>2, <3>1, <3>2 DEF Meaning, Leads
  <2>4. LandsOnPath'
    BY <2>1, <2>3 DEF LandsOnPath, OkAt
  <2> QED BY <1>1, <2>1, <2>4, Framed
<1> QED BY <1>3, <1>4

LEMMA DirsMean ==
  ASSUME Inv, PathInv, DirsThere \/ DirsMade
  PROVE  PathInv'
<1>1. /\ TreeSound /\ ModeFits /\ UNCHANGED <<tree, op, mode>> /\ pc # "idle"
      /\ mode = "dirs" /\ TypeOK
  BY DEF PathInv, DirsThere, DirsMade, Inv
<1>2. NoFollow = FALSE /\ Asked \in Seq(Parts)
  BY <1>1, AskedIn DEF ModeFits, NoFollow
<1>3. CASE DirsThere
  <2>1. Arrived
    BY <1>3 DEF DirsThere, PathInv
  <2>2. Meaning(Asked, FALSE) = OkAt(at, Meaning(Asked, FALSE).left)
    <3>1. Meaning(Asked, FALSE) \in Outcomes
      <4>1. Root \in Inside /\ MaxSymlinks \in 0 .. MaxSymlinks /\ FALSE \in BOOLEAN
        BY <1>1, RootIn
      <4> QED BY <1>1, <1>2, <4>1, LeadsTurns DEF Turns, Meaning
    <3> QED BY <1>2, <2>1, <3>1 DEF Arrived, OkAt, Outcomes
  <2>3. Fail("ENOTDIR") \/ HaveDirs(at)
    BY <1>3 DEF DirsThere
  <2> QED BY <1>1, <2>2, <2>3, Failing, HavingDirs
<1>4. CASE DirsMade
  <2>1. Reaches(found.dir, <<>>) /\ HaveDirs(found.dir)
    BY <1>4 DEF DirsMade, PathInv, Lost
  <2>2. PICK q \in Seq(Parts), left \in 0 .. MaxSymlinks :
          Asked = q \o <<>> /\ Leads(Root, q, MaxSymlinks, FALSE) = OkAt(found.dir, left)
    BY <2>1, Zenon DEF Reaches
  <2>3. Meaning(Asked, FALSE) = OkAt(found.dir, left)
    <3>1. Asked = q
      BY <2>2
    <3> QED BY <2>2, <3>1 DEF Meaning
  <2> QED BY <1>1, <2>1, <2>3, HavingDirs
<1> QED BY <1>3, <1>4

-----------------------------------------------------------------------------
(* The steps that make and remove.                                         *)
LEMMA MakeKeeps ==
  ASSUME TreeSound, ~Full, NEW d \in Inside, NEW c \in Names, kind[d] = "dir",
         Entry(d, c) = {}, NEW what \in Kinds \ {"free"}, Make(d, c, what)
  PROVE  \E new \in Inside \ {Root} :
           /\ new = NewNode /\ TreeSound' /\ Keeps
           /\ new \in Entry(d, c)' /\ kind'[new] = what
<1>1. TreeSound' /\ NewNode \in Inside \ {Root} /\ kind[NewNode] = "free"
  BY MakingSound
<1>2. PICK new \in Inside \ {Root} : new = NewNode
  BY <1>1
<1>3. /\ kind' = [kind EXCEPT ![new] = what] /\ parent' = [parent EXCEPT ![new] = d]
      /\ name' = [name EXCEPT ![new] = c] /\ target' = [target EXCEPT ![new] = NewTarget]
  BY <1>2 DEF Make
<1>4. /\ kind \in [Nodes -> Kinds] /\ parent \in [Nodes -> Nodes]
      /\ name \in [Nodes -> Names] /\ target \in [Nodes -> Targets]
      /\ new \in Nodes /\ new # Root /\ kind[new] = "free"
  BY <1>1, <1>2 DEF TreeSound, TreeType, Inside
<1>5. Keeps
  BY <1>3, <1>4 DEF Keeps, Inside
<1>6. kind'[new] = what /\ parent'[new] = d /\ name'[new] = c /\ what # "free"
  BY <1>3, <1>4
<1>7. new \in Entry(d, c)'
  BY <1>4, <1>6, NamesAssumption DEF Entry, Children
<1> QED BY <1>1, <1>2, <1>5, <1>6, <1>7

LEMMA NothingNew ==
  TreeSound /\ UNCHANGED tree => TreeSound' /\ Keeps
BY TreeSame DEF Keeps, tree

LEMMA RemoveSound ==
  ASSUME TreeSound, NEW d \in Inside, NEW c \in Names, NEW n \in Entry(d, c),
         kind[n] # "dir" \/ Children(n) = {}, Unlink(n)
  PROVE  TreeSound'
<1>1. n \in Inside \ {Root}
  BY Entries, BaseIn DEF Inside
<1> QED BY <1>1, UnlinkingSound

(* The path to a directory that was there is the path to it still, and     *)
(* with the new entry's name the path to that.                             *)
LEMMA DeeperKept ==
  ASSUME TreeSound, TreeSound', Keeps, NEW q \in Seq(Parts), NEW d \in Inside,
         NEW n \in Inside, NEW c \in Parts, NEW left \in 0 .. MaxSymlinks,
         Leads(Root, q, MaxSymlinks, FALSE) = OkAt(d, left),
         kind[d] = "dir", c # "..", n \in Entry(d, c)',
         kind'[n] # "link"
  PROVE  Leads(Root, q \o <<c>>, MaxSymlinks, FALSE)' = OkAt(n, left)
<1>1. Leads(Root, q, MaxSymlinks, FALSE)' = OkAt(d, left)
  <2>1. /\ Root \in Inside /\ kind[Root] # "free" /\ MaxSymlinks \in 0 .. MaxSymlinks
        /\ FALSE \in BOOLEAN
    BY RootIn
  <2>2. Leads(Root, q, MaxSymlinks, FALSE).err = "ok"
    <3>1. OkAt(d, left).err = "ok"
      BY DEF OkAt
    <3>2. Leads(Root, q, MaxSymlinks, FALSE) = OkAt(d, left)
      OBVIOUS
    <3> QED BY <3>1, <3>2
  <2> QED BY <2>1, <2>2, LeadsKept
<1>2. kind'[d] = "dir"
  BY DEF Keeps
<1>3. kind'[n] # "link" \/ FALSE = TRUE
  OBVIOUS
<1>4. FALSE \in BOOLEAN
  OBVIOUS
<1> QED BY <1>1, <1>2, <1>3, <1>4, DeeperNext

(* The same when the last name is not followed.                            *)
LEMMA DeeperNamed ==
  ASSUME TreeSound, TreeSound', Keeps, NEW q \in Seq(Parts), NEW d \in Inside,
         NEW n \in Inside, NEW c \in Parts, NEW left \in 0 .. MaxSymlinks,
         Leads(Root, q, MaxSymlinks, FALSE) = OkAt(d, left),
         kind[d] = "dir", c # "..", n \in Entry(d, c)'
  PROVE  Leads(Root, q \o <<c>>, MaxSymlinks, TRUE)' = OkAt(n, left)
<1>1. Leads(Root, q, MaxSymlinks, FALSE)' = OkAt(d, left)
  <2>1. /\ Root \in Inside /\ kind[Root] # "free" /\ MaxSymlinks \in 0 .. MaxSymlinks
        /\ FALSE \in BOOLEAN
    BY RootIn
  <2>2. Leads(Root, q, MaxSymlinks, FALSE).err = "ok"
    <3>1. OkAt(d, left).err = "ok"
      BY DEF OkAt
    <3>2. Leads(Root, q, MaxSymlinks, FALSE) = OkAt(d, left)
      OBVIOUS
    <3> QED BY <3>1, <3>2
  <2> QED BY <2>1, <2>2, LeadsKept
<1>2. kind'[d] = "dir"
  BY DEF Keeps
<1>3. kind'[n] # "link" \/ TRUE = TRUE
  OBVIOUS
<1>4. TRUE \in BOOLEAN
  OBVIOUS
<1> QED BY <1>1, <1>2, <1>3, <1>4, DeeperNext

LEMMA Entering ==
  ASSUME TreeSound, TreeSound', Keeps, ModeFits, result.err # "EACCES",
         UNCHANGED <<op, mode, pc, result>>, pc = "missing", mode = "dirs",
         NEW d \in Inside, NEW c \in Parts, NEW rest \in Seq(Parts),
         Reaches(d, <<c>> \o rest), kind[d] = "dir", c # "..",
         NEW n \in Inside, n \in Entry(d, c)', kind'[n] = "dir",
         found' = [dir |-> n, rest |-> rest]
  PROVE  PathInv'
<1>1. PICK q \in Seq(Parts), left \in 0 .. MaxSymlinks :
        Asked = q \o (<<c>> \o rest) /\ Leads(Root, q, MaxSymlinks, FALSE) = OkAt(d, left)
  BY Zenon DEF Reaches
<1>2. Leads(Root, q \o <<c>>, MaxSymlinks, FALSE)' = OkAt(n, left)
  BY <1>1, DeeperKept
<1>3. q \o <<c>> \in Seq(Parts) /\ Asked' = (q \o <<c>>) \o rest
  <2>1. Asked' = Asked
    BY DEF Asked, MakesFile
  <2>2. q \o <<c>> \in Seq(Parts) /\ q \o (<<c>> \o rest) = (q \o <<c>>) \o rest
    BY HeadsTails
  <2> QED BY <1>1, <2>1, <2>2
<1>4. Lost'
  <2> DEFINE p == q \o <<c>>
  <2>1. \E p0 \in Seq(Parts), l \in 0 .. MaxSymlinks :
          Asked' = p0 \o rest /\ Leads(Root, p0, MaxSymlinks, FALSE)' = OkAt(n, l)
    <3> HIDE DEF p
    <3> QED BY <1>2, <1>3 DEF p
  <2>2. found'.dir = n /\ found'.rest = rest
    OBVIOUS
  <2>3. Reaches(found.dir, found.rest)'
    BY <2>1, <2>2 DEF Reaches, OkAt
  <2> QED BY <2>2, <2>3 DEF Lost
<1>5. ModeFits'
  BY DEF ModeFits, UsesParent
<1> QED BY <1>4, <1>5 DEF PathInv, LandsOnPath

LEMMA MakeDirMeans ==
  ASSUME Inv, PathInv, MakeDir
  PROVE  PathInv'
<1>1. PICK c, rest, d : c = Head(found.rest) /\ rest = Tail(found.rest) /\ d = found.dir
  OBVIOUS
<1>2. /\ TreeSound /\ ModeFits /\ result.err # "EACCES" /\ pc = "missing" /\ mode = "dirs"
      /\ kind[d] = "dir" /\ Reaches(d, found.rest) /\ UNCHANGED <<op, mode>>
      /\ found.rest # <<>> /\ found.rest \in Seq(Parts) /\ d \in Inside
  BY <1>1 DEF MakeDir, PathInv, Lost, Inv, Confined, TypeOK, WorkType, Lookups
<1>3. c \in Parts /\ rest \in Seq(Parts) /\ Reaches(d, <<c>> \o rest)
  <2>1. c \in Parts /\ rest \in Seq(Parts) /\ found.rest = <<c>> \o rest
    BY <1>1, <1>2, HeadThenTail
  <2> QED BY <1>2, <2>1
<1>4. CASE /\ c # ".." /\ Entry(d, c) = {} /\ ~Full /\ Make(d, c, "dir")
           /\ found' = [dir |-> NewNode, rest |-> rest] /\ UNCHANGED <<pc, result>>
  <2>1. c \in Names /\ "dir" \in Kinds \ {"free"}
    BY <1>3, <1>4 DEF Entry, Parts, Kinds
  <2>2. PICK new \in Inside \ {Root} :
          /\ new = NewNode /\ TreeSound' /\ Keeps
          /\ new \in Entry(d, c)' /\ kind'[new] = "dir"
    BY <1>2, <1>4, <2>1, MakeKeeps
  <2> QED BY <1>2, <1>3, <1>4, <2>2, Entering
<1>5. CASE UNCHANGED tree /\ \E e \in {"ENOENT", "ENOSPC", "ENOTDIR"} : Fail(e)
  BY <1>2, <1>5, Failing
<1>6. CASE /\ c # ".." /\ UNCHANGED <<tree, pc, result>>
           /\ \E n \in Entry(d, c) :
                kind[n] = "dir" /\ found' = [dir |-> n, rest |-> rest]
  <2>1. PICK n \in Entry(d, c) : kind[n] = "dir" /\ found' = [dir |-> n, rest |-> rest]
    BY <1>6
  <2>2. TreeSound' /\ Keeps /\ n \in Inside
    BY <1>2, <1>6, NothingNew, BaseIn
  <2>3. n \in Entry(d, c)' /\ kind'[n] = "dir"
    BY <1>2, <1>6, <2>1, LeadsSame DEF tree
  <2> QED BY <1>2, <1>3, <1>6, <2>1, <2>2, <2>3, Entering
<1> QED BY <1>1, <1>4, <1>5, <1>6 DEF MakeDir

LEMMA AtLeaf ==
  ASSUME Inv, PathInv, pc = "leaf"
  PROVE  /\ TreeSound /\ ModeFits /\ result.err # "EACCES" /\ TypeOK /\ at \in Inside
         /\ Last(op.path) \in Names /\ op.path \in Seq(Parts) /\ op.path # <<>>
         /\ NoFollow = FALSE /\ Asked = Front(op.path)
         /\ Front(op.path) \in Seq(Parts)
         /\ op.path = Front(op.path) \o <<Last(op.path)>>
         /\ \E left \in 0 .. MaxSymlinks :
              Leads(Root, Front(op.path), MaxSymlinks, FALSE) = OkAt(at, left)
<1>1. /\ TreeSound /\ ModeFits /\ result.err # "EACCES" /\ TypeOK /\ at \in Inside
      /\ Arrived /\ mode \in {"parent", "dirs"} /\ HasLeaf
  BY DEF Inv, PathInv, Confined
<1>2. /\ op.path \in Seq(Parts) /\ op.do # "open" /\ (UsesParent(op) \/ MakesFile)
      /\ Last(op.path) \in Names
  BY <1>1 DEF TypeOK, CallType, Calls, ModeFits, HasLeaf
<1>3. NoFollow = FALSE /\ Asked = Front(op.path)
  BY <1>1, <1>2 DEF NoFollow, Asked, ModeFits
<1>4. op.path # <<>>
  BY <1>1, <1>2, OpsAssumption DEF ModeFits, UsesParent, MakesFile
<1>5. Front(op.path) \in Seq(Parts) /\ op.path = Front(op.path) \o <<Last(op.path)>>
  <2> DEFINE p == op.path
  <2>1. p \in Seq(Parts) /\ p # <<>>
    BY <1>2, <1>4
  <2> HIDE DEF p
  <2>2. Front(p) \in Seq(Parts) /\ p = Front(p) \o <<Last(p)>>
    BY <2>1 DEF Front, Last
  <2> QED BY <2>2 DEF p
<1>6. Leads(Root, Front(op.path), MaxSymlinks, FALSE) \in Outcomes
  <2>1. FALSE \in BOOLEAN
    OBVIOUS
  <2> QED BY <1>1, <1>5, <2>1, RootIn, LeadsTurns DEF Turns
<1>7. Leads(Root, Front(op.path), MaxSymlinks, FALSE)
        = OkAt(at, Leads(Root, Front(op.path), MaxSymlinks, FALSE).left)
  BY <1>1, <1>3, <1>6 DEF Arrived, Meaning, OkAt, Outcomes
<1>8. Leads(Root, Front(op.path), MaxSymlinks, FALSE).left \in 0 .. MaxSymlinks
  BY <1>6 DEF Outcomes
<1> QED BY <1>1, <1>2, <1>3, <1>4, <1>5, <1>7, <1>8

(* The call returns the entry of the directory that it arrived at.         *)
LEMMA Landing ==
  ASSUME Inv, PathInv, pc = "leaf", TreeSound', Keeps, UNCHANGED <<op, mode>>,
         kind[at] = "dir", NEW n \in Inside, NEW c, c = Last(op.path),
         NEW a, a = at, n \in Entry(a, c)',
         kind'[n] = "link" => UsesParent(op), Return("ok", n)
  PROVE  PathInv'
<1>1. PICK left \in 0 .. MaxSymlinks :
        /\ Leads(Root, Front(op.path), MaxSymlinks, FALSE) = OkAt(a, left)
        /\ op.path = Front(op.path) \o <<c>> /\ Front(op.path) \in Seq(Parts)
        /\ c \in Parts /\ c # ".." /\ NoFollow = FALSE /\ a \in Inside
  BY AtLeaf, NamesAssumption DEF Parts
<1>2. PICK q \in Seq(Parts) : q = Front(op.path)
  BY <1>1
<1>3. /\ TreeSound /\ Leads(Root, q, MaxSymlinks, FALSE) = OkAt(a, left)
      /\ kind[a] = "dir" /\ op'.path = q \o <<c>>
      /\ FALSE \in BOOLEAN /\ TRUE \in BOOLEAN
  BY <1>1, <1>2 DEF PathInv
<1>4. Meaning(op.path, NoFollow \/ UsesParent(op))' = OkAt(n, left)
  <2>1. CASE UsesParent(op)
    <3>1. Leads(Root, q \o <<c>>, MaxSymlinks, TRUE)' = OkAt(n, left)
      <4>1. c \in Parts /\ c # ".." /\ a \in Inside /\ n \in Entry(a, c)' /\ kind[a] = "dir"
        BY <1>1, <1>3
      <4>2. TreeSound /\ Leads(Root, q, MaxSymlinks, FALSE) = OkAt(a, left)
        BY <1>3
      <4> QED BY <4>1, <4>2, DeeperNamed
    <3>2. (NoFollow \/ UsesParent(op))' = TRUE
      BY <2>1 DEF UsesParent
    <3> QED BY <1>3, <3>1, <3>2 DEF Meaning, Leads
  <2>2. CASE ~UsesParent(op)
    <3>1. Leads(Root, q \o <<c>>, MaxSymlinks, FALSE)' = OkAt(n, left)
      <4>1. kind'[n] # "link"
        BY <2>2
      <4> QED BY <1>1, <1>3, <4>1, DeeperKept
    <3>2. (NoFollow \/ UsesParent(op))' = FALSE
      BY <1>1, <2>2 DEF UsesParent, NoFollow
    <3> QED BY <1>3, <3>1, <3>2 DEF Meaning, Leads
  <2> QED BY <2>1, <2>2
<1>5. LandsOnPath'
  <2>1. result'.node = n
    BY DEF Return
  <2> QED BY <1>4, <2>1 DEF LandsOnPath, OkAt
<1>6. pc' = "idle" /\ result'.err = "ok"
  BY DEF Return
<1> QED BY <1>5, <1>6 DEF PathInv, ModeFits

LEMMA CreateLeafMeans ==
  ASSUME Inv, PathInv, CreateLeaf
  PROVE  PathInv'
<1>1. PICK c, a : c = Last(op.path) /\ a = at
  OBVIOUS
<1>2. pc = "leaf" /\ pc # "idle" /\ UNCHANGED <<op, mode>>
  BY DEF CreateLeaf
<1>3. TreeSound /\ ModeFits /\ c \in Names /\ a \in Inside
  BY <1>1, <1>2, AtLeaf
<1>4. CASE UNCHANGED tree /\ \E e \in {"ENOTDIR", "ENOSPC", "EEXIST", "ELOOP", "EISDIR"} : Fail(e)
  BY <1>2, <1>3, <1>4, Failing
<1>5. CASE /\ UNCHANGED tree /\ kind[a] = "dir"
           /\ \E n \in Entry(a, c) : kind[n] = "file" /\ Return("ok", n)
  <2>1. PICK n \in Entry(a, c) : kind[n] = "file" /\ Return("ok", n)
    BY <1>5
  <2>2. TreeSound' /\ Keeps /\ n \in Inside
    BY <1>3, <1>5, NothingNew, BaseIn
  <2>3. n \in Entry(a, c)' /\ kind'[n] # "link"
    BY <1>3, <1>5, <2>1, LeadsSame DEF tree
  <2> QED BY <1>1, <1>2, <1>5, <2>1, <2>2, <2>3, Landing
<1>6. CASE /\ kind[a] = "dir" /\ Entry(a, c) = {} /\ ~Full /\ Return("ok", NewNode)
           /\ Make(a, c, CASE op.do = "create_directory" -> "dir"
                           [] op.do = "create" -> "link"
                           [] OTHER -> "file")
  <2>1. PICK what : what = CASE op.do = "create_directory" -> "dir"
                             [] op.do = "create" -> "link"
                             [] OTHER -> "file"
    OBVIOUS
  <2>2. what \in Kinds \ {"free"} /\ (what = "link" => UsesParent(op))
    BY <2>1 DEF Kinds, UsesParent
  <2>3. Make(a, c, what)
    BY <1>6, <2>1
  <2>4. PICK new \in Inside \ {Root} :
          /\ new = NewNode /\ TreeSound' /\ Keeps
          /\ new \in Entry(a, c)' /\ kind'[new] = what
    BY <1>3, <1>6, <2>2, <2>3, MakeKeeps
  <2> QED BY <1>1, <1>2, <1>6, <2>2, <2>4, Landing
<1> QED BY <1>1, <1>4, <1>5, <1>6 DEF CreateLeaf

(* Nothing is returned but an error, or that all is removed.               *)
LEMMA Removing ==
  ASSUME TreeSound', UNCHANGED <<op, mode>>, ModeFits, result.err # "EACCES",
         pc # "idle", pc' \in {"idle", "remove"},
         \/ UNCHANGED result /\ pc' = "remove"
         \/ \E e \in Errors \ {"EACCES"} : Return(e, Nothing)
  PROVE  PathInv'
<1>1. result'.err # "EACCES" /\ (pc' = "idle" => result'.node = Nothing)
  BY DEF Return
<1> QED BY <1>1 DEF PathInv, ModeFits, UsesParent, LandsOnPath

LEMMA RemoveMeans ==
  ASSUME Inv, PathInv,
         \/ RemoveLeaf \/ RemoveAll \/ RemoveEntry \/ ScanDirectory \/ GiveUp
         \/ AllRemoved \/ OtherCreates
  PROVE  PathInv'
<1>1. TreeSound /\ ModeFits /\ result.err # "EACCES"
  BY DEF PathInv
<1>2. CASE RemoveLeaf
  <2>1. PICK c, a : c = Last(op.path) /\ a = at
    OBVIOUS
  <2>2. pc = "leaf" /\ UNCHANGED <<op, mode>> /\ c \in Names /\ a \in Inside
    BY <1>2, <2>1, AtLeaf DEF RemoveLeaf
  <2>3. CASE UNCHANGED tree /\ \E e \in {"ENOENT", "ENOTDIR", "EISDIR", "ENOTEMPTY"} : Fail(e)
    BY <1>1, <2>2, <2>3, Failing
  <2>4. CASE /\ Return("ok", Nothing)
             /\ \E n \in Entry(a, c) :
                  Unlink(n) /\ (kind[n] # "dir" \/ Children(n) = {})
    <3>1. TreeSound'
      BY <1>1, <2>2, <2>4, RemoveSound
    <3>2. pc' = "idle"
      BY <2>4 DEF Return
    <3> QED BY <1>1, <2>2, <2>4, <3>1, <3>2, Removing DEF Errors
  <2> QED BY <1>2, <2>1, <2>3, <2>4 DEF RemoveLeaf
<1>3. CASE RemoveAll \/ ScanDirectory
  <2>1. UNCHANGED <<tree, op, mode, result>> /\ pc \in {"leaf", "remove"} /\ pc' = "remove"
    BY <1>3 DEF RemoveAll, ScanDirectory
  <2>2. TreeSound'
    BY <1>1, <2>1, TreeSame
  <2> QED BY <1>1, <2>1, <2>2, Removing
<1>4. CASE RemoveEntry
  <2>1. UNCHANGED <<op, mode, pc, result>> /\ pc = "remove"
    BY <1>4 DEF RemoveEntry
  <2>2. PICK c, a : c = Top.name /\ a = Top.dir
    OBVIOUS
  <2>3. c \in Names /\ a \in Inside
    <3>1. tasks \in Seq(Tasks) /\ tasks # <<>>
          /\ \A i \in DOMAIN tasks : tasks[i].dir \in Inside
      BY <1>4 DEF RemoveEntry, Inv, TypeOK, WorkType, Confined
    <3>2. Top \in Tasks /\ Top.dir \in Inside
      BY <3>1, LastIn DEF Top
    <3> QED BY <2>2, <3>2 DEF Tasks
  <2>4. TreeSound'
    <3>1. UNCHANGED tree \/ \E n \in Entry(a, c) :
                              (kind[n] # "dir" \/ Children(n) = {}) /\ Unlink(n)
      BY <1>4, <2>2 DEF RemoveEntry
    <3> QED BY <1>1, <2>3, <3>1, RemoveSound, TreeSame
  <2> QED BY <1>1, <2>1, <2>4, Removing
<1>5. CASE GiveUp \/ AllRemoved
  <2>1. /\ UNCHANGED <<tree, op, mode>> /\ pc = "remove"
        /\ \E e \in {"ENOTEMPTY", "ENOTDIR", "ok"} : Fail(e)
    BY <1>5 DEF GiveUp, AllRemoved, Fail
  <2> QED BY <1>1, <2>1, Failing
<1>6. CASE OtherCreates
  <2>1. UNCHANGED <<op, mode, pc, result>> /\ pc = "remove"
    BY <1>6 DEF OtherCreates
  <2>2. TreeSound'
    <3>1. "file" \in Kinds \ {"free"}
      BY DEF Kinds
    <3> QED BY <1>1, <1>6, <3>1, MakingSound DEF OtherCreates
  <2> QED BY <1>1, <2>1, <2>2, Removing
<1> QED BY <1>2, <1>3, <1>4, <1>5, <1>6

-----------------------------------------------------------------------------
(* The invariant holds.                                                    *)
LEMMA InitPath == Init => PathInv
<1> SUFFICES ASSUME Init PROVE PathInv
  OBVIOUS
<1>1. TreeSound
  <2>1. PICK t \in Trees : /\ kind = t.kind /\ parent = t.parent
                           /\ name = t.name /\ target = t.target
    BY DEF Init
  <2>2. TreeType
    BY <2>1, TreesAssumption DEF TreeType
  <2>3. Apart(kind, parent) /\ IsTree(kind, parent, name)
    BY <2>1, TreesAssumption
  <2> QED BY <2>2, <2>3 DEF TreeSound
<1>2. pc = "idle" /\ result.err = "none" /\ result.node = Nothing
  BY DEF Init
<1> QED BY <1>1, <1>2 DEF PathInv, ModeFits, LandsOnPath

LEMMA Idling ==
  ASSUME Inv, PathInv, UNCHANGED vars
  PROVE  PathInv'
<1>1. /\ UNCHANGED <<tree, op, mode>> /\ UNCHANGED <<pc, result, found>>
      /\ UNCHANGED <<at, parts, expected, links, budget>> /\ TreeSound
  BY DEF vars, walk, PathInv
<1>2. /\ TreeSound' /\ NoFollow' = NoFollow /\ Asked' = Asked
      /\ UsesParent(op)' = UsesParent(op)
      /\ Meaning(Asked, NoFollow)' = Meaning(Asked, NoFollow)
      /\ \A n, rest : Reaches(n, rest) => Reaches(n, rest)'
  BY <1>1, Frame
<1>3. kind' = kind /\ Follow' = Follow
  <2>1. kind' = kind /\ parent' = parent /\ name' = name /\ target' = target
    BY <1>1 DEF tree
  <2> QED BY <2>1 DEF Follow, Resolved, Entry, Children
<1>4. ModeFits' /\ result'.err # "EACCES"
  BY <1>1, <1>2 DEF PathInv, ModeFits
<1>5. ASSUME pc' = "walk" PROVE Walking'
  <2>1. WalkFits(at, parts, expected, links, budget)
    BY <1>1, <1>5 DEF PathInv, Walking
  <2> QED BY <1>1, <2>1, Transfer
<1>6. ASSUME pc' \in {"resolved", "leaf"} PROVE Arrived'
  BY <1>1, <1>2, <1>6 DEF PathInv, Arrived
<1>7. ASSUME pc' = "missing" PROVE Lost'
  <2>1. Lost
    BY <1>1, <1>7 DEF PathInv
  <2>2. PICK d, rest : d = found.dir /\ rest = found.rest
    OBVIOUS
  <2>3. Reaches(d, rest)'
    BY <1>2, <2>1, <2>2 DEF Lost
  <2>4. Reaches(found.dir, found.rest)'
    BY <1>1, <2>2, <2>3 DEF Reaches
  <2> QED BY <1>1, <1>2, <1>3, <2>1, <2>4 DEF Lost
<1>8. LandsOnPath'
  <2>1. Meaning(op.path, NoFollow \/ UsesParent(op))'
          = Meaning(op.path, NoFollow \/ UsesParent(op))
    BY <1>1, <1>2, <1>3 DEF Meaning, Leads
  <2> QED BY <1>1, <2>1 DEF PathInv, LandsOnPath
<1> QED BY <1>1, <1>2, <1>4, <1>5, <1>6, <1>7, <1>8 DEF PathInv

LEMMA StepPath == Inv /\ Inv' /\ PathInv /\ [Next]_vars => PathInv'
<1> SUFFICES ASSUME Inv, Inv', PathInv, [Next]_vars PROVE PathInv'
  OBVIOUS
<1>1. TypeOK'
  BY DEF Inv
<1>2. ASSUME NEW o \in Ops, Call(o) PROVE PathInv'
  BY <1>1, <1>2, CallMeans
<1>3. CASE DotDot \/ Missing \/ FollowLink \/ TooManyLinks \/ KeepLink
           \/ NotADirectory \/ Down \/ Arrive
  BY <1>3, WalkMeans
<1>4. CASE NotThere \/ Opened \/ ParentResolved
  BY <1>4, OpenMeans
<1>5. CASE DestinationMissing
  BY <1>1, <1>5, DestinationMeans
<1>6. CASE DirsThere \/ DirsMade
  BY <1>6, DirsMean
<1>7. CASE MakeDir
  BY <1>7, MakeDirMeans
<1>8. CASE CreateLeaf
  BY <1>8, CreateLeafMeans
<1>9. CASE RemoveLeaf \/ RemoveAll \/ RemoveEntry \/ ScanDirectory \/ GiveUp
           \/ AllRemoved \/ OtherCreates
  BY <1>9, RemoveMeans
<1>10. CASE UNCHANGED vars
  BY <1>10, Idling
<1> QED BY <1>2, <1>3, <1>4, <1>5, <1>6, <1>7, <1>8, <1>9, <1>10 DEF Next

LEMMA PathInvariance == Spec => [](Inv /\ PathInv)
<1>1. Init => Inv /\ PathInv
  BY InitInv, InitPath
<1>2. (Inv /\ PathInv) /\ [Next]_vars => (Inv /\ PathInv)'
  BY StepInv, StepPath
<1> QED BY <1>1, <1>2, PTL DEF Spec

(* What is missing is missing on the path itself.                          *)
LEMMA WhatIsMissing ==
  ASSUME Inv, PathInv, pc = "missing"
  PROVE  /\ mode # "dirs" => Meaning(Asked, NoFollow).err = "ENOENT"
         /\ \E left \in 0 .. MaxSymlinks :
              Leads(found.dir, found.rest, left, NoFollow) = Meaning(Asked, NoFollow)
<1>1. Lost /\ ModeFits /\ TreeSound /\ TypeOK
  BY DEF PathInv, Inv
<1>2. PICK d, rest, keep : d = found.dir /\ rest = found.rest /\ keep = NoFollow
  OBVIOUS
<1>3. /\ keep \in BOOLEAN /\ rest \in Seq(Parts) /\ Root \in Inside
      /\ MaxSymlinks \in 0 .. MaxSymlinks
  BY <1>1, <1>2, AskedIn, RootIn DEF TypeOK, WorkType, Lookups
<1>4. rest # <<>> \/ ~keep
  <2>1. CASE mode = "dirs"
    BY <1>1, <1>2, <2>1 DEF ModeFits, NoFollow
  <2>2. CASE mode # "dirs"
    BY <1>1, <1>2, <2>2 DEF Lost
  <2> QED BY <2>1, <2>2
<1>5. PICK q \in Seq(Parts), left \in 0 .. MaxSymlinks :
        Asked = q \o rest /\ Leads(Root, q, MaxSymlinks, FALSE) = OkAt(d, left)
  BY <1>1, <1>2 DEF Lost, Reaches
<1>6. Leads(Root, q \o rest, MaxSymlinks, keep)
        = Onward(Leads(Root, q, MaxSymlinks, FALSE), rest, keep)
  BY <1>1, <1>3, <1>4, LeadsAppend
<1>7. Onward(OkAt(d, left), rest, keep) = Leads(d, rest, left, keep)
  BY OnwardOk
<1>8. Leads(d, rest, left, keep) = Leads(Root, q \o rest, MaxSymlinks, keep)
  BY <1>5, <1>6, <1>7
<1>9. Meaning(Asked, NoFollow) = Leads(Root, q \o rest, MaxSymlinks, keep)
  BY <1>2, <1>5 DEF Meaning
<1> QED BY <1>1, <1>2, <1>8, <1>9 DEF Lost

-----------------------------------------------------------------------------
(* What is below an inode.                                                 *)
LEMMA BelowSteps ==
  ASSUME NEW m \in Inside
  PROVE  /\ m \in Beneath(m) /\ Beneath(m) \subseteq Inside
         /\ \A n \in Inside \ {Root} : parent[n] \in Beneath(m) => n \in Beneath(m)
  BY DEF Beneath

LEMMA PathLength ==
  ASSUME TreeSound
  PROVE  /\ \A n \in Inside : Len(CurrentPath(n)) \in Nat
         /\ \A n \in Inside \ {Root} :
              parent[n] \in Inside /\ Len(CurrentPath(n)) = Len(CurrentPath(parent[n])) + 1
<1>1. ASSUME NEW n \in Inside PROVE CurrentPath(n) \in Seq(Parts)
  BY <1>1, PathTypes
<1>2. ASSUME NEW n \in Inside \ {Root}
      PROVE  parent[n] \in Inside /\ Len(CurrentPath(n)) = Len(CurrentPath(parent[n])) + 1
  <2>1. PICK p : p = parent[n]
    OBVIOUS
  <2>2. p \in Inside
    BY <2>1 DEF TreeSound, Apart
  <2>3. CurrentPath(p) \in Seq(Parts)
    BY <1>1, <2>2
  <2>4. CurrentPath(n) = Append(CurrentPath(p), name[n])
    BY <2>1, PathSteps
  <2> QED BY <2>1, <2>2, <2>3, <2>4
<1> QED BY <1>1, <1>2

(* Nothing is below what it contains.                                      *)
LEMMA NoLoop ==
  ASSUME TreeSound, NEW n \in Inside \ {Root}, parent[n] \in Beneath(n)
  PROVE  FALSE
<1> DEFINE L(x) == Len(CurrentPath(x))
           d == parent[n]
           S == {x \in Inside : L(x) <= L(d)}
<1>1. d \in Inside /\ L(d) \in Nat /\ L(n) = L(d) + 1
  BY PathLength
<1>2. /\ \A x \in Inside : L(x) \in Nat
      /\ \A x \in Inside \ {Root} : parent[x] \in Inside /\ L(x) = L(parent[x]) + 1
  BY PathLength
<1>3. S \in SUBSET Inside /\ d \in S /\ n \notin S
  <2> HIDE DEF L, d
  <2> QED BY <1>1
<1>4. \A x \in S \ {Root} : parent[x] \in S
  <2> HIDE DEF L, d
  <2> QED BY <1>1, <1>2
<1> HIDE DEF S, L
<1> QED BY <1>3, <1>4 DEF Beneath

(* What was below an inode stays there when a file is made, and when       *)
(* another is removed.                                                     *)
LEMMA BelowKept ==
  ASSUME TreeSound, Keeps, NEW m \in Inside, NEW n \in Beneath(m), kind[n] # "free"
  PROVE  n \in Beneath(m)'
<1> SUFFICES ASSUME NEW S \in SUBSET Inside, n \in S,
                    \A x \in S \ {Root} : parent'[x] \in S
             PROVE  m \in S
  <2>1. n \in Inside
    BY BelowSteps
  <2> QED BY <2>1 DEF Beneath
<1> DEFINE U == {x \in S : kind[x] # "free"}
<1>1. U \in SUBSET Inside /\ n \in U
  OBVIOUS
<1>2. ASSUME NEW x \in U \ {Root} PROVE parent[x] \in U
  <2>1. parent'[x] = parent[x] /\ parent'[x] \in S
    BY DEF Keeps
  <2>2. kind[parent[x]] = "dir"
    BY DEF TreeSound, IsTree
  <2> QED BY <2>1, <2>2
<1>3. m \in U
  <2> HIDE DEF U
  <2> QED BY <1>1, <1>2 DEF Beneath
<1> QED BY <1>3

LEMMA BelowSame ==
  ASSUME parent' = parent
  PROVE  \A m : Beneath(m)' = Beneath(m)
  BY DEF Beneath

(* The entries of a directory are below it, and in use.                    *)
LEMMA EntryBelow ==
  ASSUME TreeSound, NEW m \in Inside, NEW d \in Beneath(m), NEW c \in Names,
         NEW n \in Entry(d, c)
  PROVE  /\ n \in Beneath(m) /\ n \in Inside \ {Root} /\ parent[n] = d
         /\ kind[n] # "free" /\ n # m
<1>1. d \in Inside /\ c # "."
  BY BelowSteps, NamesAssumption
<1>2. n \in Inside /\ n # Root /\ parent[n] = d /\ kind[n] # "free"
  BY <1>1, BaseIn DEF Entry, Children
<1>3. n \in Beneath(m)
  BY <1>2, BelowSteps
<1>4. n # m
  BY <1>2, NoLoop
<1> QED BY <1>2, <1>3, <1>4

-----------------------------------------------------------------------------
(* A removal: the first of the entries to remove is the operand, and those *)
(* after it are in directories in use, each below the operand and below    *)
(* those of the entries before it.                                         *)
Nested(d, c, s) ==
  /\ s[1].dir = d /\ s[1].name = c
  /\ \A i \in DOMAIN s : i # 1 =>
       /\ kind[s[i].dir] # "free"
       /\ \E m \in Entry(d, c) : s[i].dir \in Beneath(m)
       /\ \A j \in DOMAIN s : i <= j => s[j].dir \in Beneath(s[i].dir)

Removal ==
  pc = "remove" =>
    /\ op.do = "remove_all" /\ Last(op.path) \in Names
    /\ tasks # <<>> => Nested(at, Last(op.path), tasks)

(* The entry to remove next is below the operand, and is none of the       *)
(* directories of the entries before it.                                   *)
Deepest(d, c, s, n) ==
  /\ n \in Inside \ {Root} /\ kind[n] # "free"
  /\ Len(s) = 1 => n \in Entry(d, c)
  /\ \A m \in Entry(d, c) : n \in Beneath(m) /\ (Len(s) # 1 => n # m)
  /\ \A i \in DOMAIN s : i # 1 => n \in Beneath(s[i].dir) /\ n # s[i].dir

LEMMA NextEntry ==
  ASSUME TreeSound, NEW d \in Inside, NEW c \in Names, NEW s \in Seq(Tasks), s # <<>>,
         Nested(d, c, s), NEW e, e = s[Len(s)], NEW n \in Entry(e.dir, e.name),
         \A i \in DOMAIN s : s[i].dir \in Inside
  PROVE  Deepest(d, c, s, n)
<1>1. Len(s) \in DOMAIN s /\ e \in Tasks /\ e.dir \in Inside /\ e.name \in Names
      /\ \A i \in DOMAIN s : i <= Len(s)
  <2>1. Len(s) \in DOMAIN s /\ \A i \in DOMAIN s : i <= Len(s) /\ s[i] \in Tasks
    OBVIOUS
  <2> QED BY <2>1 DEF Tasks
<1>2. e.dir \in Beneath(e.dir)
  BY <1>1, BelowSteps
<1>3. n \in Inside \ {Root} /\ kind[n] # "free" /\ parent[n] = e.dir /\ n \in Beneath(e.dir)
  BY <1>1, <1>2, EntryBelow
<1>4. ASSUME NEW i \in DOMAIN s, i # 1
      PROVE  n \in Beneath(s[i].dir) /\ n # s[i].dir
  <2>1. e.dir \in Beneath(s[i].dir) /\ s[i].dir \in Inside
    BY <1>1, <1>4 DEF Nested
  <2> QED BY <1>1, <2>1, EntryBelow
<1>5. CASE Len(s) = 1
  <2>1. e.dir = d /\ e.name = c
    BY <1>5 DEF Nested
  <2>2. \A m \in Entry(d, c) : m = n
    BY <2>1, OneEntry
  <2>3. n \in Beneath(n)
    BY <1>3, BelowSteps
  <2> QED BY <1>3, <1>4, <1>5, <2>1, <2>2, <2>3 DEF Deepest
<1>6. CASE Len(s) # 1
  <2>1. ASSUME NEW m \in Entry(d, c)
        PROVE  n \in Beneath(m) /\ n # m
    <3>1. e.dir \in Beneath(m)
      <4>1. PICK k \in Entry(d, c) : e.dir \in Beneath(k)
        BY <1>1, <1>6 DEF Nested
      <4>2. k = m
        BY OneEntry
      <4> QED BY <4>1, <4>2
    <3>2. m \in Inside
      BY BaseIn
    <3> QED BY <1>1, <3>1, <3>2, EntryBelow
  <2> QED BY <1>3, <1>4, <1>6, <2>1 DEF Deepest
<1> QED BY <1>5, <1>6

(* It stays so when the tree does, when a file is made, and when the next  *)
(* entry is removed or its entries are put after it.                       *)
LEMMA NestedSame ==
  ASSUME NEW d, NEW c, NEW s, UNCHANGED tree
  PROVE  Nested(d, c, s)' = Nested(d, c, s)
<1>1. kind' = kind /\ parent' = parent /\ name' = name
  BY DEF tree
<1>2. Entry(d, c)' = Entry(d, c)
  BY <1>1 DEF Entry, Children
<1> QED BY <1>1, <1>2, BelowSame DEF Nested

LEMMA EntryStays ==
  ASSUME Keeps, NEW d \in Inside, NEW c \in Names, NEW m \in Entry(d, c), TreeSound
  PROVE  m \in Entry(d, c)' /\ m \in Inside
<1>1. c # "." /\ m \in Inside
  BY NamesAssumption, BaseIn
<1>2. m \in Nodes \ {Root} /\ kind[m] # "free" /\ parent[m] = d /\ name[m] = c
  BY <1>1 DEF Entry, Children
<1>3. kind'[m] = kind[m] /\ parent'[m] = d /\ name'[m] = c
  BY <1>1, <1>2 DEF Keeps
<1> QED BY <1>1, <1>2, <1>3 DEF Entry, Children

LEMMA NestedKept ==
  ASSUME TreeSound, Keeps, NEW d \in Inside, NEW c \in Names, NEW s \in Seq(Tasks),
         \A i \in DOMAIN s : s[i].dir \in Inside, Nested(d, c, s)
  PROVE  Nested(d, c, s)'
<1>1. s[1].dir = d /\ s[1].name = c
  BY DEF Nested
<1>2. ASSUME NEW i \in DOMAIN s, i # 1
      PROVE  /\ kind'[s[i].dir] # "free"
             /\ \E m \in Entry(d, c)' : s[i].dir \in Beneath(m)'
             /\ \A j \in DOMAIN s : i <= j => s[j].dir \in Beneath(s[i].dir)'
  <2>1. PICK m \in Entry(d, c) : s[i].dir \in Beneath(m)
    BY <1>2 DEF Nested
  <2>2. kind[s[i].dir] # "free" /\ s[i].dir \in Inside
    BY <1>2 DEF Nested
  <2>3. m \in Entry(d, c)' /\ s[i].dir \in Beneath(m)'
    BY <2>1, <2>2, EntryStays, BelowKept
  <2>4. ASSUME NEW j \in DOMAIN s, i <= j PROVE s[j].dir \in Beneath(s[i].dir)'
    <3>1. s[j].dir \in Beneath(s[i].dir)
      BY <1>2, <2>4 DEF Nested
    <3>2. kind[s[j].dir] # "free"
      <4>1. i \in 1 .. Len(s) /\ j \in 1 .. Len(s) /\ Len(s) \in Nat
        OBVIOUS
      <4>2. j # 1
        BY <1>2, <2>4, <4>1
      <4> QED BY <4>2 DEF Nested
    <3> QED BY <2>2, <3>1, <3>2, BelowKept
  <2> QED BY <2>2, <2>3, <2>4 DEF Keeps
<1> QED BY <1>1, <1>2 DEF Nested

LEMMA NestedPopped ==
  ASSUME TreeSound, NEW d \in Inside, NEW c \in Names, NEW s \in Seq(Tasks), s # <<>>,
         Nested(d, c, s), NEW e, e = s[Len(s)], NEW n \in Entry(e.dir, e.name),
         \A i \in DOMAIN s : s[i].dir \in Inside, Unlink(n), Len(s) # 1
  PROVE  Nested(d, c, Front(s))'
<1>1. /\ n \in Inside /\ \A m \in Entry(d, c) : n # m
      /\ \A i \in DOMAIN s : i # 1 => n # s[i].dir
  BY NextEntry DEF Deepest
<1>2. /\ parent' = parent /\ name' = name /\ \A m : m # n => kind'[m] = kind[m]
  BY DEF Unlink, TreeSound, TreeType
<1>3. ASSUME NEW m \in Entry(d, c) PROVE m \in Entry(d, c)'
  BY <1>1, <1>2, NamesAssumption DEF Entry, Children
<1>4. /\ \A i \in DOMAIN Front(s) : i \in DOMAIN s /\ Front(s)[i] = s[i]
      /\ Front(s)[1] = s[1]
  <2>1. Len(s) \in Nat /\ Len(s) # 0 /\ Len(s) # 1
    BY EmptySeq
  <2>2. DOMAIN Front(s) = 1 .. Len(s) - 1
    BY <2>1 DEF Front
  <2>3. PICK k \in Nat : k = Len(s)
    BY <2>1
  <2>4. 1 \in 1 .. k - 1
    <3>1. k # 0 /\ k # 1
      BY <2>1, <2>3
    <3> QED BY <3>1
  <2> QED BY <2>2, <2>3, <2>4, FrontIn
<1>5. \A m : Beneath(m)' = Beneath(m)
  BY <1>2, BelowSame
<1>6. s[1].dir = d /\ s[1].name = c
  BY DEF Nested
<1>7. ASSUME NEW i \in DOMAIN Front(s), i # 1
      PROVE  /\ kind'[Front(s)[i].dir] # "free"
             /\ \E m \in Entry(d, c)' : Front(s)[i].dir \in Beneath(m)'
             /\ \A j \in DOMAIN Front(s) :
                  i <= j => Front(s)[j].dir \in Beneath(Front(s)[i].dir)'
  <2>1. i \in DOMAIN s /\ Front(s)[i] = s[i]
    BY <1>4
  <2>2. kind'[s[i].dir] # "free"
    BY <1>1, <1>2, <1>7, <2>1 DEF Nested
  <2>3. PICK m \in Entry(d, c) : s[i].dir \in Beneath(m)
    BY <1>7, <2>1 DEF Nested
  <2>4. m \in Entry(d, c)' /\ s[i].dir \in Beneath(m)'
    BY <1>3, <1>5, <2>3
  <2>5. ASSUME NEW j \in DOMAIN Front(s), i <= j
        PROVE  Front(s)[j].dir \in Beneath(Front(s)[i].dir)'
    <3>1. s[j].dir \in Beneath(s[i].dir)
      BY <1>4, <1>7, <2>1, <2>5 DEF Nested
    <3> QED BY <1>4, <1>5, <2>1, <3>1
  <2> QED BY <2>1, <2>2, <2>4, <2>5
<1> QED BY <1>4, <1>6, <1>7 DEF Nested

(* t is s with entries of n after it.                                      *)
Grown(s, t, n) ==
  /\ t[1].dir = s[1].dir /\ t[1].name = s[1].name /\ t # <<>>
  /\ \A i \in DOMAIN t : IF i \in DOMAIN s THEN t[i].dir = s[i].dir
                         ELSE t[i].dir = n /\ i # 1 /\ \A j \in DOMAIN s : ~(i <= j)

LEMMA NestedPushed ==
  ASSUME TreeSound, NEW d \in Inside, NEW c \in Names, NEW s \in Seq(Tasks), s # <<>>,
         Nested(d, c, s), NEW n, Deepest(d, c, s, n), NEW t, Grown(s, t, n)
  PROVE  Nested(d, c, t)
<1>1. /\ n \in Inside \ {Root} /\ kind[n] # "free"
      /\ Len(s) = 1 => n \in Entry(d, c)
      /\ \A m \in Entry(d, c) : n \in Beneath(m)
      /\ \A i \in DOMAIN s : i # 1 => n \in Beneath(s[i].dir)
  BY DEF Deepest
<1>2. /\ t[1].dir = d /\ t[1].name = c
      /\ \A i \in DOMAIN t :
           IF i \in DOMAIN s THEN t[i].dir = s[i].dir
           ELSE t[i].dir = n /\ i # 1 /\ \A j \in DOMAIN s : ~(i <= j)
  BY DEF Grown, Nested
<1>3. n \in Beneath(n)
  BY <1>1, BelowSteps
<1>4. Entry(d, c) # {}
  <2>1. CASE Len(s) = 1
    BY <1>1, <2>1
  <2>2. CASE Len(s) # 1
    <3>1. Len(s) \in DOMAIN s
      BY LastIn
    <3> QED BY <2>2, <3>1 DEF Nested
  <2> QED BY <2>1, <2>2
<1>5. ASSUME NEW i \in DOMAIN t, i # 1
      PROVE  /\ kind[t[i].dir] # "free"
             /\ \E m \in Entry(d, c) : t[i].dir \in Beneath(m)
             /\ \A j \in DOMAIN t : i <= j => t[j].dir \in Beneath(t[i].dir)
  <2>1. CASE i \in DOMAIN s
    <3>1. t[i].dir = s[i].dir
      BY <1>2, <2>1
    <3>2. ASSUME NEW j \in DOMAIN t, i <= j PROVE t[j].dir \in Beneath(s[i].dir)
      BY <1>1, <1>5, <1>2, <2>1, <3>2 DEF Nested
    <3> QED BY <1>5, <2>1, <3>1, <3>2 DEF Nested
  <2>2. CASE i \notin DOMAIN s
    <3>1. t[i].dir = n
      BY <1>2, <2>2
    <3>2. ASSUME NEW j \in DOMAIN t, i <= j PROVE t[j].dir = n
      BY <1>2, <2>2, <3>2
    <3> QED BY <1>1, <1>3, <1>4, <3>1, <3>2
  <2> QED BY <2>1, <2>2
<1> QED BY <1>5, <1>2 DEF Nested

(* The entries of a directory are put after it, one for each.              *)
Scanned(s, new) == Append(Front(s), [Last(s) EXCEPT !.scanned = TRUE]) \o new

LEMMA Pushing ==
  ASSUME NEW s \in Seq(Tasks), s # <<>>, NEW new \in Seq(Tasks), NEW n,
         \A i \in DOMAIN new : new[i].dir = n, NEW t, t = Scanned(s, new)
  PROVE  Grown(s, t, n)
<1> DEFINE e == [Last(s) EXCEPT !.scanned = TRUE]
           f == Front(s)
           old == Append(f, e)
<1>1. PICK k \in Nat : k = Len(s) /\ k # 0
  BY EmptySeq
<1>2. Last(s) \in Tasks /\ Last(s) = s[k] /\ k \in DOMAIN s
  BY <1>1, LastIn
<1>3. e \in Tasks /\ e.dir = s[k].dir /\ e.name = s[k].name
  BY <1>2 DEF Tasks
<1>4. f \in Seq(Tasks) /\ Len(f) = k - 1 /\ \A i \in DOMAIN f : f[i] = s[i]
  BY <1>1 DEF Front
<1>5. /\ old \in Seq(Tasks) /\ Len(old) = k
      /\ \A i \in 1 .. k : old[i].dir = s[i].dir /\ old[i].name = s[i].name
  <2> HIDE DEF f, e
  <2>1. old \in Seq(Tasks) /\ Len(old) = k
    BY <1>1, <1>3, <1>4
  <2>2. ASSUME NEW i \in 1 .. k PROVE old[i].dir = s[i].dir /\ old[i].name = s[i].name
    <3>1. CASE i = k
      <4>1. old[i] = e
        BY <1>1, <1>4, <3>1
      <4> QED BY <1>3, <3>1, <4>1
    <3>2. CASE i # k
      <4>1. i \in 1 .. k - 1 /\ i \in DOMAIN f
        BY <1>1, <1>4, <3>2
      <4>2. old[i] = f[i]
        BY <1>3, <1>4, <4>1
      <4> QED BY <1>4, <4>1, <4>2
    <3> QED BY <3>1, <3>2
  <2> QED BY <2>1, <2>2
<1> HIDE DEF old, e, f
<1>6. t = old \o new
  BY DEF old, e, f, Scanned
<1>7. /\ t \in Seq(Tasks) /\ Len(t) = k + Len(new) /\ Len(new) \in Nat
      /\ \A i \in 1 .. k : t[i] = old[i]
      /\ \A i \in DOMAIN t : i \notin 1 .. k => i - k \in DOMAIN new /\ t[i] = new[i - k]
  <2>1. /\ old \o new \in Seq(Tasks)
        /\ \A i \in DOMAIN (old \o new) :
             \/ i \in DOMAIN old /\ (old \o new)[i] = old[i]
             \/ i - Len(old) \in DOMAIN new /\ (old \o new)[i] = new[i - Len(old)]
    BY <1>5, ConcatIn
  <2>2. /\ t \in Seq(Tasks)
        /\ \A i \in DOMAIN t : \/ i \in DOMAIN old /\ t[i] = old[i]
                               \/ i - k \in DOMAIN new /\ t[i] = new[i - k]
    BY <1>5, <1>6, <2>1
  <2>3. Len(old \o new) = Len(old) + Len(new)
    BY <1>5, ConcatProperties
  <2>4. /\ Len(t) = k + Len(new) /\ Len(new) \in Nat /\ DOMAIN t = 1 .. Len(t)
        /\ DOMAIN old = 1 .. k /\ DOMAIN new = 1 .. Len(new)
    <3>1. Len(t) = k + Len(new)
      BY <1>5, <1>6, <2>3
    <3>2. DOMAIN t = 1 .. Len(t)
      BY <2>2
    <3>3. DOMAIN old = 1 .. k /\ DOMAIN new = 1 .. Len(new) /\ Len(new) \in Nat
      BY <1>5
    <3> QED BY <3>1, <3>2, <3>3
  <2>5. ASSUME NEW i \in 1 .. k PROVE t[i] = old[i]
    <3>1. i \in DOMAIN t /\ i - k \notin DOMAIN new
      BY <1>1, <2>4
    <3> QED BY <2>2, <3>1
  <2>6. ASSUME NEW i \in DOMAIN t, i \notin 1 .. k
        PROVE  i - k \in DOMAIN new /\ t[i] = new[i - k]
    BY <2>2, <2>4, <2>6
  <2> QED BY <2>2, <2>4, <2>5, <2>6
<1>8. DOMAIN s = 1 .. k /\ 1 \in 1 .. k /\ DOMAIN t \subseteq Nat \ {0}
  BY <1>1, <1>7
<1>9. t # <<>>
  BY <1>1, <1>7
<1>10. ASSUME NEW i \in DOMAIN t
       PROVE  IF i \in DOMAIN s THEN t[i].dir = s[i].dir
              ELSE t[i].dir = n /\ i # 1 /\ \A j \in DOMAIN s : ~(i <= j)
  <2>1. CASE i \in 1 .. k
    BY <1>5, <1>7, <1>8, <2>1
  <2>2. CASE i \notin 1 .. k
    <3>1. t[i].dir = n
      BY <1>7, <2>2
    <3>2. i # 1 /\ \A j \in 1 .. k : ~(i <= j)
      BY <1>1, <1>8, <2>2
    <3> QED BY <1>8, <2>2, <3>1, <3>2
  <2> QED BY <2>1, <2>2
<1> QED BY <1>5, <1>7, <1>8, <1>9, <1>10 DEF Grown

LEMMA NestedFront ==
  ASSUME NEW d, NEW c, NEW s \in Seq(Tasks), s # <<>>, Len(s) # 1, Nested(d, c, s)
  PROVE  Nested(d, c, Front(s))
<1>1. /\ \A i \in DOMAIN Front(s) : i \in DOMAIN s /\ Front(s)[i] = s[i]
      /\ Front(s)[1] = s[1]
  <2>1. PICK k \in Nat : k = Len(s) /\ k # 0 /\ k # 1
    BY EmptySeq
  <2>2. DOMAIN Front(s) = 1 .. k - 1 /\ 1 \in 1 .. k - 1
    BY <2>1 DEF Front
  <2> QED BY <2>2, FrontIn
<1> QED BY <1>1 DEF Nested

LEMMA OtherKeeps ==
  ASSUME TreeSound, OtherCreates
  PROVE  Keeps /\ TreeSound'
<1>1. PICK d \in Inside, c \in Names :
        kind[d] = "dir" /\ Entry(d, c) = {} /\ ~Full /\ Make(d, c, "file")
  BY DEF OtherCreates
<1>2. "file" \in Kinds \ {"free"}
  BY DEF Kinds
<1> QED BY <1>1, <1>2, MakeKeeps

LEMMA Scans ==
  ASSUME TypeOK, ScanDirectory
  PROVE  \E n \in Entry(Top.dir, Top.name) : tasks # <<>> /\ Grown(tasks, tasks', n)
<1>1. PICK n \in Entry(Top.dir, Top.name) :
        \E order \in SetToSeqs(Children(n)) :
          tasks' = Append(Front(tasks), [Top EXCEPT !.scanned = TRUE])
                   \o [i \in DOMAIN order |->
                         [dir |-> n, name |-> name[order[i]], scanned |-> FALSE]]
  BY DEF ScanDirectory
<1>2. PICK order \in SetToSeqs(Children(n)) :
        tasks' = Append(Front(tasks), [Top EXCEPT !.scanned = TRUE])
                 \o [i \in DOMAIN order |->
                       [dir |-> n, name |-> name[order[i]], scanned |-> FALSE]]
  BY <1>1
<1>3. tasks \in Seq(Tasks) /\ tasks # <<>> /\ Top \in Tasks
  BY LastIn DEF TypeOK, WorkType, ScanDirectory, Top
<1>4. n \in Nodes
  BY <1>3, Entries DEF Tasks
<1>5. PICK new : new = [i \in DOMAIN order |->
                          [dir |-> n, name |-> name[order[i]], scanned |-> FALSE]]
  OBVIOUS
<1>6. new \in Seq(Tasks) /\ \A i \in DOMAIN new : new[i].dir = n
  <2>1. IsFiniteSet(Children(n)) /\ Children(n) \subseteq Nodes
    BY NodesAssumption, FS_Subset DEF Children
  <2>2. /\ Cardinality(Children(n)) \in Nat
        /\ order \in [1 .. Cardinality(Children(n)) -> Nodes]
    BY <2>1, FS_CardinalityType DEF SetToSeqs
  <2>3. \A i \in DOMAIN order :
          [dir |-> n, name |-> name[order[i]], scanned |-> FALSE] \in Tasks
    BY <1>4, <2>2 DEF TypeOK, TreeType, Tasks
  <2>4. new \in [1 .. Cardinality(Children(n)) -> Tasks]
    BY <1>5, <2>2, <2>3
  <2> QED BY <1>5, <2>2, <2>4, FunctionIsSeq
<1>7. PICK s, t : s = tasks /\ t = tasks' /\ s \in Seq(Tasks)
  BY <1>3
<1>8. t = Scanned(s, new)
  BY <1>2, <1>5, <1>7 DEF Top, Scanned
<1>9. s # <<>> /\ \A i \in DOMAIN new : new[i].dir = n
  BY <1>3, <1>6, <1>7
<1>10. Grown(s, t, n)
  BY Zenon, <1>6, <1>7, <1>8, <1>9, Pushing
<1> QED BY <1>3, <1>7, <1>10

LEMMA ScanNested ==
  ASSUME TypeOK, TreeSound, ScanDirectory, NEW d \in Inside, NEW c \in Names,
         Nested(d, c, tasks), \A i \in DOMAIN tasks : tasks[i].dir \in Inside
  PROVE  Nested(d, c, tasks')
<1>1. PICK n \in Entry(Top.dir, Top.name) : tasks # <<>> /\ Grown(tasks, tasks', n)
  BY Scans
<1>2. PICK s \in Seq(Tasks), e \in Tasks :
        s = tasks /\ s # <<>> /\ e = s[Len(s)] /\ e = Top
  BY <1>1, LastIn DEF TypeOK, WorkType, Top
<1>3. Deepest(d, c, s, n)
  <2>1. /\ n \in Entry(e.dir, e.name) /\ s # <<>> /\ e = s[Len(s)] /\ Nested(d, c, s)
        /\ \A i \in DOMAIN s : s[i].dir \in Inside
    BY <1>1, <1>2
  <2> QED BY Zenon, <2>1, NextEntry
<1>4. PICK t : t = tasks'
  OBVIOUS
<1>5. Grown(s, t, n) /\ Nested(d, c, s)
  BY <1>1, <1>2, <1>4
<1>6. Nested(d, c, t)
  BY <1>2, <1>3, <1>5, NestedPushed
<1> QED BY <1>4, <1>6

LEMMA ScanLeaves ==
  ASSUME TypeOK, ScanDirectory
  PROVE  tasks' # <<>>
BY Scans DEF Grown

LEMMA FrontLength ==
  ASSUME NEW s \in Seq(Tasks), s # <<>>
  PROVE  \E k \in Nat : k = Len(s) /\ Len(Front(s)) = k - 1
<1>1. PICK k \in Nat : k = Len(s) /\ k # 0
  BY EmptySeq
<1>2. Len(Front(s)) = k - 1
  BY <1>1 DEF Front
<1> QED BY <1>1, <1>2

LEMMA FrontEnds ==
  ASSUME NEW s \in Seq(Tasks), s # <<>>, Front(s) = <<>>
  PROVE  Len(s) = 1
<1>1. PICK j : j = Len(Front(s)) /\ j = 0
  OBVIOUS
<1>2. PICK k \in Nat : k = Len(s) /\ Len(Front(s)) = k - 1
  BY FrontLength
<1>3. j = k - 1 /\ j = 0
  BY <1>1, <1>2
<1>4. k = 1
  BY ONLY <1>3, k \in Nat
<1> QED BY <1>2, <1>4

LEMMA RemovalStep ==
  ASSUME Inv, TreeSound, Removal,
         RemoveEntry \/ ScanDirectory \/ GiveUp \/ AllRemoved \/ OtherCreates
  PROVE  Removal'
<1>1. PICK s, d, c : s = tasks /\ d = at /\ c = Last(op.path)
  OBVIOUS
<1>2. /\ pc = "remove" /\ op.do = "remove_all" /\ c \in Names /\ d \in Inside
      /\ s \in Seq(Tasks) /\ (s # <<>> => Nested(d, c, s)) /\ TypeOK
      /\ \A i \in DOMAIN s : s[i].dir \in Inside
  BY <1>1 DEF RemoveEntry, ScanDirectory, GiveUp, AllRemoved, OtherCreates, Removal,
              Inv, TypeOK, WorkType, Confined
<1>3. op' = op /\ at' = d /\ Last(op.path)' = c
  BY <1>1 DEF RemoveEntry, ScanDirectory, GiveUp, AllRemoved, OtherCreates, walk
<1>4. ASSUME NEW t, t = tasks', t # <<>> => Nested(d, c, t)' PROVE Removal'
  <2>1. t # <<>> => Nested(at, Last(op.path), tasks)'
    BY <1>3, <1>4 DEF Nested
  <2> QED BY <1>2, <1>3, <1>4, <2>1 DEF Removal
<1>5. CASE RemoveEntry
  <2>1. s # <<>> /\ tasks' = Front(s) /\ Top = s[Len(s)]
    BY <1>1, <1>2, <1>5, LastIn DEF RemoveEntry, Top
  <2>2. CASE Len(s) = 1
    <3>1. Front(s) = <<>>
      BY <1>2, <2>2 DEF Front
    <3> QED BY <1>4, <2>1, <3>1
  <2>3. CASE Len(s) # 1
    <3>1. CASE UNCHANGED tree
      <4>1. Nested(d, c, Front(s))
        BY <1>2, <2>1, <2>3, NestedFront
      <4>2. Nested(d, c, Front(s))'
        BY <3>1, <4>1, NestedSame
      <4> QED BY <1>4, <2>1, <4>2
    <3>2. CASE \E n \in Entry(Top.dir, Top.name) : Unlink(n)
      <4>1. PICK n \in Entry(Top.dir, Top.name) : Unlink(n)
        BY <3>2
      <4>2. PICK e : e = s[Len(s)] /\ e = Top
        BY <2>1
      <4>3. Nested(d, c, Front(s))'
        BY <1>2, <2>1, <2>3, <4>1, <4>2, NestedPopped
      <4> QED BY <1>4, <2>1, <4>3
    <3> QED BY <1>5, <3>1, <3>2 DEF RemoveEntry
  <2> QED BY <2>2, <2>3
<1>6. CASE ScanDirectory
  <2>1. s # <<>> /\ UNCHANGED tree
    BY <1>1, <1>6 DEF ScanDirectory
  <2>2. PICK t : t = tasks'
    OBVIOUS
  <2>3. Nested(d, c, t)
    BY <1>1, <1>2, <1>6, <2>1, <2>2, ScanNested
  <2>4. Nested(d, c, t)'
    BY <2>1, <2>3, NestedSame
  <2> QED BY <1>4, <2>2, <2>4
<1>7. CASE GiveUp \/ AllRemoved
  BY <1>7 DEF GiveUp, AllRemoved, Fail, Return, Removal
<1>8. CASE OtherCreates
  <2>1. Keeps /\ tasks' = s
    BY <1>1, <1>8, OtherKeeps DEF OtherCreates
  <2>2. s # <<>> => Nested(d, c, s)'
    BY <1>2, <2>1, NestedKept
  <2> QED BY <1>4, <2>1, <2>2
<1> QED BY <1>5, <1>6, <1>7, <1>8

LEMMA StepRemoval == Inv /\ PathInv /\ Removal /\ [Next]_vars => Removal'
<1> SUFFICES ASSUME Inv, PathInv, Removal, [Next]_vars PROVE Removal'
  OBVIOUS
<1>1. TreeSound
  BY DEF PathInv
<1>2. ASSUME pc' # "remove" PROVE Removal'
  BY <1>2 DEF Removal
<1>3. ASSUME NEW o \in Ops, Call(o) PROVE pc' # "remove"
  BY <1>3 DEF Call, Fail, Return, Resolve
<1>4. CASE DotDot \/ Missing \/ FollowLink \/ TooManyLinks \/ KeepLink
           \/ NotADirectory \/ Down \/ Arrive
  <2>1. pc' # "remove"
    BY <1>4 DEF DotDot, Missing, FollowLink, TooManyLinks, KeepLink, NotADirectory,
                Down, Arrive, InWalk, Fail, Return
  <2> QED BY <1>2, <2>1
<1>5. CASE NotThere \/ Opened \/ DestinationMissing \/ ParentResolved
           \/ DirsThere \/ DirsMade \/ MakeDir
  <2>1. pc' # "remove"
    BY <1>5 DEF NotThere, Opened, DestinationMissing, ParentResolved, DirsThere,
                DirsMade, MakeDir, HaveDirs, Resolve, Fail, Return
  <2> QED BY <1>2, <2>1
<1>6. CASE CreateLeaf \/ RemoveLeaf
  <2>1. pc' # "remove"
    BY <1>6 DEF CreateLeaf, RemoveLeaf, Fail, Return
  <2> QED BY <1>2, <2>1
<1>7. CASE RemoveAll
  <2>1. /\ op.do = "remove_all" /\ Last(op.path) \in Names /\ op' = op /\ at' = at
        /\ tasks' = <<[dir |-> at, name |-> Last(op.path), scanned |-> FALSE]>>
    BY <1>7, AtLeaf DEF RemoveAll, walk
  <2>2. tasks'[1].dir = at /\ tasks'[1].name = Last(op.path) /\ DOMAIN tasks' = {1}
    BY <2>1
  <2> QED BY <2>1, <2>2 DEF Removal, Nested
<1>8. CASE RemoveEntry \/ ScanDirectory \/ GiveUp \/ AllRemoved \/ OtherCreates
  BY <1>1, <1>8, RemovalStep
<1>9. CASE UNCHANGED vars
  <2>1. PICK s, d, c : s = tasks /\ d = at /\ c = Last(op.path)
    OBVIOUS
  <2>2. op' = op /\ pc' = pc /\ at' = at /\ tasks' = tasks /\ UNCHANGED tree
    BY <1>9 DEF vars, walk
  <2>3. Nested(d, c, s)' = Nested(d, c, s)
    BY <2>2, NestedSame
  <2>4. Nested(at, Last(op.path), tasks)' = Nested(d, c, s)'
    BY <2>1, <2>2 DEF Nested
  <2> QED BY <2>1, <2>2, <2>3, <2>4 DEF Removal
<1> QED BY <1>2, <1>3, <1>4, <1>5, <1>6, <1>7, <1>8, <1>9 DEF Next

LEMMA RemovalInvariance == Spec => [](Inv /\ PathInv /\ Removal)
<1>1. Init => Removal
  BY DEF Init, Removal
<1>2. (Inv /\ PathInv /\ Removal) /\ [Next]_vars => Removal'
  BY StepRemoval
<1> QED BY <1>1, <1>2, PathInvariance, PTL DEF Spec

(* What is free is made, and what is removed is the operand's.             *)
LEMMA MakeOnly ==
  ASSUME TreeSound, ~Full, NEW d, NEW c, NEW what, Make(d, c, what)
  PROVE  OthersStay
<1>1. PICK new \in Nodes : new = NewNode /\ kind[new] = "free"
  BY DEF NewNode, Full
<1>2. /\ kind' = [kind EXCEPT ![new] = what] /\ parent' = [parent EXCEPT ![new] = d]
      /\ name' = [name EXCEPT ![new] = c] /\ target' = [target EXCEPT ![new] = NewTarget]
  BY <1>1 DEF Make
<1>3. ASSUME NEW n \in Nodes, kind[n] # "free"
      PROVE  kind'[n] = kind[n] /\ parent'[n] = parent[n]
             /\ name'[n] = name[n] /\ target'[n] = target[n]
  BY <1>1, <1>2, <1>3 DEF TreeSound, TreeType
<1> QED BY <1>3 DEF OthersStay

LEMMA UnlinkOnly ==
  ASSUME TreeSound, NEW n, Unlink(n), Removes, \E m \in Operand : n \in Beneath(m)
  PROVE  OthersStay
<1>1. kind' = [kind EXCEPT ![n] = "free"] /\ UNCHANGED <<parent, name, target>>
  BY DEF Unlink
<1>2. \A k \in Nodes : kind'[k] = IF k = n THEN "free" ELSE kind[k]
  BY <1>1 DEF TreeSound, TreeType
<1> QED BY <1>1, <1>2 DEF OthersStay

LEMMA SameOnly ==
  UNCHANGED tree => OthersStay
BY DEF tree, OthersStay

(* Nothing is left of an entry that is unlinked.                           *)
LEMMA UnlinkEmpties ==
  ASSUME TreeSound, NEW d \in Inside, NEW c \in Names, NEW n \in Entry(d, c), Unlink(n)
  PROVE  Entry(d, c)' = {}
<1>1. n \in Inside /\ c # "."
  BY BaseIn, NamesAssumption
<1>2. kind' = [kind EXCEPT ![n] = "free"] /\ parent' = parent /\ name' = name
  BY DEF Unlink
<1>3. \A k \in Nodes : kind'[k] = IF k = n THEN "free" ELSE kind[k]
  BY <1>2 DEF TreeSound, TreeType
<1>4. \A m \in Entry(d, c) : m = n
  BY OneEntry
<1>5. \A m \in Entry(d, c)' : m \in Entry(d, c) /\ m # n
  BY <1>1, <1>2, <1>3 DEF Entry, Children
<1> QED BY <1>4, <1>5

(* At the leaf the operand is what the path names.                         *)
LEMMA OperandNamed ==
  ASSUME Inv, PathInv, pc = "leaf", NEW n \in Operand
  PROVE  Meaning(op.path, TRUE).node = n
<1>1. PICK q, c, a : q = Front(op.path) /\ c = Last(op.path) /\ a = at
  OBVIOUS
<1>2. PICK left \in 0 .. MaxSymlinks : Leads(Root, q, MaxSymlinks, FALSE) = OkAt(a, left)
  BY <1>1, AtLeaf
<1>3. /\ TreeSound /\ q \in Seq(Parts) /\ c \in Names /\ c \in Parts /\ c # ".."
      /\ a \in Inside /\ op.path = q \o <<c>>
  BY <1>1, AtLeaf, NamesAssumption DEF Parts
<1>4. n \in Entry(a, c) /\ n \in Inside
  BY <1>1, <1>3, BaseIn DEF Operand
<1>5. kind[a] = "dir"
  BY <1>3, <1>4, NamesAssumption DEF Entry, Children, TreeSound, IsTree
<1>6. Leads(Root, q \o <<c>>, MaxSymlinks, TRUE) = OkAt(n, left)
  <2>1. TRUE \in BOOLEAN /\ (kind[n] # "link" \/ TRUE = TRUE)
    OBVIOUS
  <2> QED BY <1>2, <1>3, <1>4, <1>5, <2>1, Deeper
<1> QED BY <1>3, <1>6 DEF Meaning, Leads, OkAt

LEMMA RemoveOnly ==
  ASSUME Inv, PathInv, Removal, RemoveLeaf \/ RemoveEntry
  PROVE  OthersStay /\ (RemovalThrough => Operand' = {})
<1>1. TreeSound /\ op' = op /\ at' = at /\ at \in Inside /\ Last(op.path) \in Names
  <2>1. TreeSound /\ op' = op /\ at' = at /\ at \in Inside
    BY DEF PathInv, Inv, Confined, RemoveLeaf, RemoveEntry, walk
  <2>2. Last(op.path) \in Names
    BY AtLeaf DEF RemoveLeaf, RemoveEntry, Removal
  <2> QED BY <2>1, <2>2
<1>2. PICK d, c : d = at /\ c = Last(op.path) /\ Operand = Entry(d, c)
  BY DEF Operand
<1>3. Operand' = Entry(d, c)'
  BY <1>1, <1>2 DEF Operand, Entry, Children
<1>4. CASE RemoveLeaf
  <2>1. pc = "leaf" /\ Removes /\ tasks' = tasks
    BY <1>4 DEF RemoveLeaf, Removes
  <2>2. CASE UNCHANGED tree /\ \E e \in {"ENOENT", "ENOTDIR", "EISDIR", "ENOTEMPTY"} : Fail(e)
    <3>1. result'.err # "ok"
      BY <2>2 DEF Fail, Return
    <3> QED BY <2>1, <2>2, <3>1, SameOnly DEF RemovalThrough
  <2>3. CASE \E n \in Operand : Unlink(n)
    <3>1. PICK n \in Entry(d, c) : Unlink(n)
      BY <1>2, <2>3
    <3>2. n \in Inside /\ n \in Beneath(n)
      BY <1>1, <1>2, BaseIn, BelowSteps
    <3>3. OthersStay
      BY <1>1, <1>2, <2>1, <3>1, <3>2, UnlinkOnly
    <3>4. Entry(d, c)' = {}
      BY <1>1, <1>2, <3>1, UnlinkEmpties
    <3> QED BY <1>3, <3>3, <3>4
  <2> QED BY <1>4, <2>2, <2>3 DEF RemoveLeaf, Operand
<1>5. CASE RemoveEntry
  <2>1. PICK s \in Seq(Tasks), e \in Tasks :
          s = tasks /\ s # <<>> /\ e = s[Len(s)] /\ e = Top
    BY <1>5, LastIn DEF Inv, TypeOK, WorkType, RemoveEntry, Top
  <2>2. /\ Nested(d, c, s) /\ Removes /\ pc = "remove" /\ tasks' = Front(s)
        /\ \A i \in DOMAIN s : s[i].dir \in Inside
    BY <1>2, <1>5, <2>1 DEF RemoveEntry, Removal, Removes, Inv, Confined
  <2>3. CASE UNCHANGED tree /\ Entry(e.dir, e.name) = {}
    <3>1. OthersStay
      BY <2>3, SameOnly
    <3>2. ASSUME RemovalThrough PROVE Entry(d, c)' = {}
      <4>1. Front(s) = <<>>
        BY <2>2, <3>2 DEF RemovalThrough
      <4>2. Len(s) = 1
        BY <2>1, <4>1, FrontEnds
      <4>3. e.dir = d /\ e.name = c
        BY <2>1, <2>2, <4>2 DEF Nested
      <4>4. Entry(d, c)' = Entry(d, c)
        BY <2>3 DEF tree, Entry, Children
      <4> QED BY <2>3, <4>3, <4>4
    <3> QED BY <1>3, <3>1, <3>2
  <2>4. CASE \E n \in Entry(e.dir, e.name) : Unlink(n)
    <3>1. PICK n \in Entry(e.dir, e.name) : Unlink(n)
      BY <2>4
    <3>2. Deepest(d, c, s, n)
      BY <1>1, <1>2, <2>1, <2>2, NextEntry
    <3>3. \E m \in Entry(d, c) : n \in Beneath(m)
      <4>1. CASE Len(s) = 1
        BY <3>2, <4>1 DEF Deepest
      <4>2. CASE Len(s) # 1
        <5>1. Entry(d, c) # {}
          BY <2>1, <2>2, <4>2, LastIn DEF Nested
        <5> QED BY <3>2, <5>1 DEF Deepest
      <4> QED BY <4>1, <4>2
    <3>4. OthersStay
      BY <1>1, <1>2, <2>2, <3>1, <3>3, UnlinkOnly
    <3>5. ASSUME RemovalThrough PROVE Entry(d, c)' = {}
      <4>1. Front(s) = <<>>
        BY <2>2, <3>5 DEF RemovalThrough
      <4>2. Len(s) = 1
        BY <2>1, <4>1, FrontEnds
      <4>3. n \in Entry(d, c)
        BY <3>2, <4>2 DEF Deepest
      <4> QED BY <1>1, <1>2, <3>1, <4>3, UnlinkEmpties
    <3> QED BY <1>3, <3>4, <3>5
  <2> QED BY <1>5, <2>1, <2>3, <2>4 DEF RemoveEntry
<1> QED BY <1>4, <1>5

LEMMA StepOnly ==
  ASSUME Inv, PathInv, Removal, Next
  PROVE  OthersStay /\ (RemovalThrough => Operand' = {})
<1>1. TreeSound
  BY DEF PathInv
<1>2. CASE RemoveLeaf \/ RemoveEntry
  BY <1>2, RemoveOnly
<1>3. ASSUME ~(RemoveLeaf \/ RemoveEntry) PROVE ~RemovalThrough
  <2>1. CASE \E o \in Ops : Call(o)
    BY <2>1 DEF Call, RemovalThrough
  <2>2. CASE DotDot \/ Missing \/ FollowLink \/ TooManyLinks \/ KeepLink
             \/ NotADirectory \/ Down \/ Arrive
    BY <2>2 DEF DotDot, Missing, FollowLink, TooManyLinks, KeepLink, NotADirectory,
                Down, Arrive, InWalk, RemovalThrough
  <2>3. CASE NotThere \/ Opened \/ DestinationMissing \/ ParentResolved
             \/ DirsThere \/ DirsMade \/ MakeDir
    BY <2>3 DEF NotThere, Opened, DestinationMissing, ParentResolved, DirsThere,
                DirsMade, MakeDir, HaveDirs, RemovalThrough
  <2>4. CASE CreateLeaf
    BY <2>4 DEF CreateLeaf, RemovalThrough, Removes, MakesFile
  <2>5. CASE RemoveAll
    BY <2>5 DEF RemoveAll, RemovalThrough
  <2>6. CASE ScanDirectory
    <3>1. tasks' # <<>>
      BY <2>6, ScanLeaves DEF Inv
    <3> QED BY <2>6, <3>1 DEF ScanDirectory, RemovalThrough
  <2>7. CASE GiveUp \/ AllRemoved \/ OtherCreates
    BY <2>7 DEF GiveUp, AllRemoved, OtherCreates, RemovalThrough
  <2> QED BY <1>3, <2>1, <2>2, <2>3, <2>4, <2>5, <2>6, <2>7 DEF Next
<1>4. ASSUME MakeDir PROVE OthersStay
  BY <1>1, <1>4, SameOnly, MakeOnly DEF MakeDir
<1>5. ASSUME CreateLeaf PROVE OthersStay
  BY <1>1, <1>5, SameOnly, MakeOnly DEF CreateLeaf
<1>6. ASSUME OtherCreates PROVE OthersStay
  BY <1>1, <1>6, MakeOnly DEF OtherCreates
<1>7. ASSUME ~(RemoveLeaf \/ RemoveEntry \/ MakeDir \/ CreateLeaf \/ OtherCreates)
      PROVE  UNCHANGED tree
  BY <1>7 DEF Next, Call, DotDot, Missing, FollowLink, TooManyLinks, KeepLink,
              NotADirectory, Down, Arrive, NotThere, Opened, DestinationMissing,
              ParentResolved, DirsThere, DirsMade, RemoveAll, ScanDirectory, GiveUp,
              AllRemoved
<1> QED BY <1>2, <1>3, <1>4, <1>5, <1>6, <1>7, SameOnly

-----------------------------------------------------------------------------
(* The results.                                                            *)

(* Variables have their types: resolution never counts below zero, loses a *)
(* component's form or leaves the inodes of the tree.                      *)
THEOREM TypeCorrect == Spec => []TypeOK
<1>1. Inv => TypeOK
  BY DEF Inv
<1> QED BY <1>1, Invariance, PTL

(* No call ever holds, returns or creates anything outside the root        *)
(* directory, whatever the tree, the path and the symbolic links in it.    *)
THEOREM StaysInRoot == Spec => []Confined
<1>1. Inv => Confined
  BY DEF Inv
<1> QED BY <1>1, Invariance, PTL

(* The walk of resolve_partial, with its stack of link targets, and the    *)
(* kernel's openat2 with RESOLVE_IN_ROOT agree on every path over every    *)
(* tree: at every step what is left to resolve means what the path means,  *)
(* what is reported missing is missing, and check_current refuses no tree  *)
(* that stays as it is.                                                    *)
THEOREM WalkMeansPath == Spec => []WalkKeepsMeaning
<1>1. ASSUME Inv, PathInv PROVE WalkKeepsMeaning
  <2>1. pc = "walk" => Leads(at, parts, budget, NoFollow) = Meaning(Asked, NoFollow)
    BY <1>1 DEF PathInv, Walking, WalkFits
  <2>2. pc = "resolved" => /\ Meaning(Asked, NoFollow).err = "ok"
                           /\ Meaning(Asked, NoFollow).node = at
    BY <1>1 DEF PathInv, Arrived
  <2>3. result.err # "EACCES"
    BY <1>1 DEF PathInv
  <2> QED BY <1>1, <2>1, <2>2, <2>3, WhatIsMissing DEF WalkKeepsMeaning
<1> QED BY <1>1, PathInvariance, PTL

(* A call returns, and creates, what its path leads to in the root and     *)
(* nothing else, whatever links the path and the tree have.                *)
THEOREM LandsWhereAsked == Spec => []LandsOnPath
<1>1. Inv /\ PathInv => LandsOnPath
  BY DEF PathInv
<1> QED BY <1>1, PathInvariance, PTL

(* A call creates at most, or removes its operand and what is below it,    *)
(* which is what its path names when the removal begins; and when it is    *)
(* through nothing has that name, whatever others create meanwhile.        *)
THEOREM ChangesOperandOnly == Spec => OperandOnly
<1>1. ASSUME Inv, PathInv, Removal, Next
      PROVE  /\ OthersStay
             /\ pc = "leaf" /\ Removes =>
                  \A n \in Operand : Meaning(op.path, TRUE).node = n
             /\ RemovalThrough => Operand' = {}
  BY <1>1, StepOnly, OperandNamed
<1>2. (Inv /\ PathInv /\ Removal) /\ [Next]_vars =>
        [/\ OthersStay
         /\ pc = "leaf" /\ Removes =>
              \A n \in Operand : Meaning(op.path, TRUE).node = n
         /\ RemovalThrough => Operand' = {}]_vars
  BY <1>1
<1> QED BY <1>2, RemovalInvariance, PTL DEF Spec, OperandOnly
=============================================================================
