---------------------------- MODULE Mounts_proofs ----------------------------
(***************************************************************************)
(* Proofs about the mounts of a container.                                 *)
(*                                                                         *)
(* They are about MountTree, for any mounts in any order, any host, any    *)
(* devices and file systems of any shape: the host's mounts stay as they   *)
(* are, and nothing becomes read-only too early.  The first half goes from *)
(* places and lookups, over what each system call and each helper of       *)
(* container.cpp keeps, to an invariant of the steps (MountInv).           *)
(*                                                                         *)
(* The second half is about what pivot_root finds and leaves: the mounts   *)
(* on the rootfs form a stack whose members are told by their path, a      *)
(* lookup in the container ends on the stack or below it, and so no call   *)
(* makes a member of the stack shared.  From that follows a second         *)
(* invariant (PivotInv), and none of the host's mounts is left in it once  *)
(* the container's root is its root.                                       *)
(***************************************************************************)
EXTENDS MountTree, SequenceTheorems, FiniteSetTheorems,
        WellFoundedInduction, TLAPS

(* Induction, over a set instead of a predicate.                           *)
LessThan == {r \in Nat \X Nat : r[1] < r[2]}

LEMMA LessThanWellFounded == IsWellFoundedOn(LessThan, Nat)
<1>1. LessThan = OpToRel(<, Nat)
  BY DEF LessThan, OpToRel
<1>. QED BY <1>1, NatLessThanWellFounded

(* A set that has 0 and with a number the next has all numbers.            *)
LEMMA Induction ==
  ASSUME NEW N \in Nat, NEW S, 0 \in S, \A n \in 0..N : n < N /\ n \in S => n + 1 \in S
  PROVE  0..N \subseteq S
<1>. SUFFICES ASSUME (0..N) \ S # {} PROVE FALSE
  OBVIOUS
<1> DEFINE T == (0..N) \ S
<1>1. PICK x \in T : \A y \in T : <<y, x>> \notin LessThan
  <2>1. T \subseteq Nat /\ T # {}
    OBVIOUS
  <2>. HIDE DEF T
  <2>. QED BY <2>1, LessThanWellFounded, WFMin
<1>2. x # 0 /\ x - 1 \in 0..N /\ x - 1 < N /\ x = (x - 1) + 1
  OBVIOUS
<1>3. <<x - 1, x>> \in LessThan
  BY <1>2 DEF LessThan
<1>. QED BY <1>1, <1>2, <1>3

(* A function that is defined from its last value stays in the set that    *)
(* its steps stay in.                                                      *)
LEMMA IterationStays ==
  ASSUME NEW N \in Nat, NEW X, NEW f,
         f[0] \in X, \A n \in 1..N : f[n - 1] \in X => f[n] \in X
  PROVE  \A n \in 0..N : f[n] \in X
<1> DEFINE S == {n \in 0..N : f[n] \in X}
<1>1. \A n \in 0..N : n < N /\ n \in S => n + 1 \in S
  <2>. TAKE n \in 0..N
  <2>. HAVE n < N /\ n \in S
  <2>1. n + 1 \in 1..N /\ (n + 1) - 1 = n /\ n + 1 \in 0..N
    OBVIOUS
  <2>. QED BY <2>1
<1>2. 0 \in S
  OBVIOUS
<1>. HIDE DEF S
<1>3. 0..N \subseteq S
  BY <1>1, <1>2, Induction
<1>. QED BY <1>3 DEF S

(* There is such a function.                                               *)
Follows(f, N, a, g) == f[0] = a /\ \A n \in 1..N : f[n] = g[<<n, f[n - 1]>>]

LEMMA IterationExists ==
  ASSUME NEW N \in Nat, NEW X, NEW a \in X, NEW g \in [(1..N) \X X -> X]
  PROVE  \E f \in [0..N -> X] : Follows(f, N, a, g)
<1> DEFINE S == {m \in 0..N : \E f \in [0..m -> X] : Follows(f, m, a, g)}
<1>1. 0 \in S
  <2>1. [n \in 0..0 |-> a] \in [0..0 -> X] /\ Follows([n \in 0..0 |-> a], 0, a, g)
    BY DEF Follows
  <2>2. 0 \in 0..N
    OBVIOUS
  <2>. QED BY <2>1, <2>2
<1>2. ASSUME NEW m \in 0..N, m < N, m \in S PROVE m + 1 \in S
  <2>1. PICK f \in [0..m -> X] : Follows(f, m, a, g)
    BY <1>2
  <2> DEFINE h == [n \in 0..(m + 1) |-> IF n = m + 1 THEN g[<<m + 1, f[m]>>] ELSE f[n]]
  <2>2. m + 1 \in 1..N /\ m \in 0..m /\ g[<<m + 1, f[m]>>] \in X
    BY <1>2
  <2>3. h \in [0..(m + 1) -> X]
    BY <2>2
  <2>4. h[0] = a
    BY <2>1 DEF Follows
  <2>5. ASSUME NEW n \in 1..(m + 1) PROVE h[n] = g[<<n, h[n - 1]>>]
    <3>1. n - 1 \in 0..m /\ n - 1 # m + 1 /\ h[n - 1] = f[n - 1]
      OBVIOUS
    <3>2. CASE n = m + 1
      <4>1. h[n] = g[<<m + 1, f[m]>>] /\ n - 1 = m
        BY <3>2
      <4>. QED BY <3>1, <3>2, <4>1
    <3>3. CASE n # m + 1
      BY <2>1, <3>1, <3>3 DEF Follows
    <3>. QED BY <3>2, <3>3
  <2>6. Follows(h, m + 1, a, g)
    BY <2>4, <2>5 DEF Follows
  <2>. HIDE DEF h
  <2>. QED BY <2>2, <2>3, <2>6
<1>3. 0..N \subseteq S
  <2>. HIDE DEF S
  <2>. QED BY <1>1, <1>2, Induction
<1>. QED BY <1>3

-----------------------------------------------------------------------------
(* Places, and what lookups end up at.                                     *)
Places(ms) == [m: DOMAIN ms, p: Paths]

Table(ms, G, F) ==
  /\ ms \in Seq(MountRecords(G, F))
  /\ \A k \in DOMAIN ms : ms[k].par \in DOMAIN ms \cup {NoMount}

(* What a table of mounts is made of.                                      *)
LEMMA TableShape ==
  ASSUME NEW ms, NEW G, NEW F, Table(ms, G, F)
  PROVE  /\ Len(ms) \in Nat /\ DOMAIN ms = 1..Len(ms)
         /\ ms = [k \in DOMAIN ms |-> ms[k]]
         /\ \A k \in DOMAIN ms : ms[k] \in MountRecords(G, F)
         /\ \A k \in DOMAIN ms : /\ ms[k].par \in Nat /\ ms[k].at \in Paths
                                 /\ ms[k].base \in Paths
                                 /\ ms[k].group \in G /\ ms[k].flags \subseteq F
<1>1. Len(ms) \in Nat /\ ms \in [1..Len(ms) -> MountRecords(G, F)] /\ DOMAIN ms = 1..Len(ms)
  BY LenProperties DEF Table
<1>2. \A k \in DOMAIN ms : ms[k] \in MountRecords(G, F)
  BY <1>1
<1>. QED BY <1>1, <1>2 DEF MountRecords

(* The top of a stack is where one came to, or in a mount that is attached *)
(* to another.                                                             *)
LEMMA TopPlace ==
  ASSUME NEW G, NEW F, NEW ms, Table(ms, G, F), NEW at \in Places(ms)
  PROVE  /\ Top(ms, at) \in Places(ms)
         /\ Top(ms, at) = at \/ ms[Top(ms, at).m].par # NoMount
<1> DEFINE N == Len(ms)
           X == Places(ms)
           A == {x \in X : x = at \/ ms[x.m].par # NoMount}
           Up(x) == LET over == MountedAt(ms, x)
                    IN  IF over = {} THEN x
                        ELSE LET k == CHOOSE k \in over : TRUE
                             IN  [m |-> k, p |-> ms[k].base]
           Rule(f) == f = [n \in 0 .. N |-> IF n = 0 THEN at ELSE Up(f[n - 1])]
           up == CHOOSE f : Rule(f)
           g == [y \in (1..N) \X X |-> Up(y[2])]
<1>1. N \in Nat /\ at \in X
  BY TableShape
<1>2. ASSUME NEW x \in X PROVE Up(x) \in X /\ (x \in A => Up(x) \in A)
  <2>1. MountedAt(ms, x) \subseteq DOMAIN ms
    BY DEF MountedAt
  <2>2. CASE MountedAt(ms, x) = {}
    BY <2>2
  <2>3. CASE MountedAt(ms, x) # {}
    <3> DEFINE k == CHOOSE k \in MountedAt(ms, x) : TRUE
    <3>1. k \in MountedAt(ms, x)
      BY <2>3
    <3>. HIDE DEF k
    <3>2. k \in DOMAIN ms /\ ms[k].par = x.m /\ ms[k].base \in Paths
      BY <3>1, TableShape DEF MountedAt
    <3>3. ms[k].par # NoMount
      BY <3>2, TableShape DEF Places, NoMount
    <3>4. Up(x) = [m |-> k, p |-> ms[k].base]
      BY <2>3 DEF k
    <3>. HIDE DEF Up
    <3>. QED BY <3>2, <3>3, <3>4 DEF Places
  <2>. QED BY <2>2, <2>3
<1>3. g \in [(1..N) \X X -> X]
  <2>. HIDE DEF Up, X, N
  <2>. QED BY <1>2
<1>4. PICK f \in [0..N -> X] : Follows(f, N, at, g)
  <2>. HIDE DEF g, N, X
  <2>. QED BY <1>1, <1>3, IterationExists
<1>5. Rule(f)
  <2>1. \A n \in 1..N : f[n] = Up(f[n - 1])
    <3>. TAKE n \in 1..N
    <3>1. n - 1 \in 0..N
      BY <1>1
    <3>2. <<n, f[n - 1]>> \in (1..N) \X X
      BY <3>1
    <3>. HIDE DEF Up
    <3>. QED BY <1>4, <3>2 DEF Follows
  <2>. HIDE DEF Up, X
  <2>. QED BY <1>1, <1>4, <2>1 DEF Follows
<1>6. Rule(up)
  <2>. HIDE DEF Rule
  <2>. QED BY <1>5
<1>7. up[0] \in A /\ \A n \in 1..N : up[n - 1] \in A => up[n] \in A
  <2>1. up[0] = at /\ \A n \in 1..N : up[n] = Up(up[n - 1])
    <3>. HIDE DEF up, Up
    <3>. QED BY <1>1, <1>6
  <2>2. A \subseteq X
    OBVIOUS
  <2>3. at \in A
    BY <1>1
  <2>. HIDE DEF up, Up, A, X
  <2>. QED BY <1>2, <2>1, <2>2, <2>3
<1>8. up[N] \in A
  <2>. HIDE DEF up, A, N
  <2>1. \A n \in 0..N : up[n] \in A
    BY <1>1, <1>7, IterationStays
  <2>. QED BY <1>1, <2>1
<1>9. Top(ms, at) = up[N]
  BY DEF Top
<1>. HIDE DEF up
<1>. QED BY <1>8, <1>9

(* Where a lookup has come to after each component.                        *)
LEMMA WalkPlaces ==
  ASSUME NEW G, NEW F, NEW ms, Table(ms, G, F), NEW start \in Places(ms), NEW path \in Paths
  PROVE  /\ Walk(ms, start, path)[0] = start
         /\ \A n \in 1..Len(path) :
              LET dir == Walk(ms, start, path)[n - 1]
              IN  Walk(ms, start, path)[n] =
                    Top(ms, [m |-> dir.m, p |-> Append(dir.p, path[n])])
         /\ \A n \in 0..Len(path) : Walk(ms, start, path)[n] \in Places(ms)
<1> DEFINE N == Len(path)
           X == Places(ms)
           Down(n, dir) == Top(ms, [m |-> dir.m, p |-> Append(dir.p, path[n])])
           Rule(f) == f = [n \in 0 .. N |-> IF n = 0 THEN start ELSE Down(n, f[n - 1])]
           walk == CHOOSE f : Rule(f)
           g == [y \in (1..N) \X X |-> Down(y[1], y[2])]
<1>1. N \in Nat /\ start \in X /\ path \in [1..N -> Names]
  BY LenProperties DEF Paths
<1>2. ASSUME NEW n \in 1..N, NEW x \in X PROVE Down(n, x) \in X
  <2>1. x.p \in Seq(Names) /\ path[n] \in Names /\ x.m \in DOMAIN ms
    BY <1>1 DEF Places, Paths
  <2>2. Append(x.p, path[n]) \in Paths
    BY <2>1, AppendProperties DEF Paths
  <2>3. [m |-> x.m, p |-> Append(x.p, path[n])] \in Places(ms)
    BY <2>1, <2>2 DEF Places
  <2>. QED BY <2>3, TopPlace
<1>3. g \in [(1..N) \X X -> X]
  <2>. HIDE DEF Down, N, X
  <2>. QED BY <1>2
<1>4. PICK f \in [0..N -> X] : Follows(f, N, start, g)
  <2>. HIDE DEF g, N, X
  <2>. QED BY <1>1, <1>3, IterationExists
<1>5. Rule(f)
  <2>1. \A n \in 1..N : f[n] = Down(n, f[n - 1])
    <3>. TAKE n \in 1..N
    <3>1. n - 1 \in 0..N
      BY <1>1
    <3>2. <<n, f[n - 1]>> \in (1..N) \X X
      BY <3>1
    <3>. HIDE DEF Down
    <3>. QED BY <1>4, <3>2 DEF Follows
  <2>. HIDE DEF Down, X
  <2>. QED BY <1>1, <1>4, <2>1 DEF Follows
<1>6. Rule(walk)
  <2>. HIDE DEF Rule
  <2>. QED BY <1>5
<1>7. walk[0] = start /\ \A n \in 1..N : walk[n] = Down(n, walk[n - 1])
  <2>. HIDE DEF walk, Down
  <2>. QED BY <1>1, <1>6
<1>8. \A n \in 0..N : walk[n] \in X
  <2>1. walk[0] \in X /\ \A n \in 1..N : walk[n - 1] \in X => walk[n] \in X
    <3>. HIDE DEF walk, Down, X
    <3>. QED BY <1>1, <1>2, <1>7
  <2>. HIDE DEF walk, X, N
  <2>. QED BY <1>1, <2>1, IterationStays
<1>9. Walk(ms, start, path) = walk
  BY DEF Walk
<1>. HIDE DEF walk
<1>. QED BY <1>7, <1>8, <1>9

(* A lookup ends at a place, whether or not it succeeds.                   *)
LEMMA LookupPlace ==
  ASSUME NEW G, NEW F, NEW K, Table(K.ms, G, F), NEW start \in Places(K.ms), NEW path \in Paths
  PROVE  Lookup(K, start, path).at \in Places(K.ms)
<1>1. Len(path) \in 0..Len(path)
  BY LenProperties DEF Paths
<1>. QED BY <1>1, WalkPlaces DEF Lookup, LookupAlong

LEMMA RestPath ==
  ASSUME NEW p \in Paths, NEW q \in Paths
  PROVE  Rest(p, q) \in Paths
<1>1. Len(p) + 1 \in Int /\ Len(q) \in Int /\ q \in [1..Len(q) -> Names] /\ Len(p) \in Nat
  BY LenProperties DEF Paths
<1>2. \A k \in (Len(p) + 1)..Len(q) : q[k] \in Names
  BY <1>1
<1>. QED BY <1>1, <1>2, SubSeqProperties DEF Rest, Paths

(* The paths are closed under the operations on them.                      *)
LEMMA JoinedPath ==
  ASSUME NEW p \in Paths, NEW q \in Paths
  PROVE  p \o q \in Paths
BY ConcatProperties DEF Paths

(* What /proc shows for a place is a path; for one in a mount that has no  *)
(* parent it is the path in that mount.                                    *)
LEMMA ShownPath ==
  ASSUME NEW G, NEW F, NEW ms, Table(ms, G, F), NEW at \in Places(ms)
  PROVE  /\ PathOf(ms, at) \in Paths
         /\ ms[at.m].par = NoMount => PathOf(ms, at) = Rest(ms[at.m].base, at.p)
<1> DEFINE N == Len(ms)
           X == Places(ms)
           first == [m |-> at.m, p |-> Rest(ms[at.m].base, at.p)]
           Up(below) == LET mount == ms[below.m]
                        IN  IF mount.par = NoMount THEN below
                            ELSE [m |-> mount.par,
                                  p |-> Rest(ms[mount.par].base, mount.at) \o below.p]
           Rule(f) == f = [n \in 0 .. N |-> IF n = 0 THEN first ELSE Up(f[n - 1])]
           climb == CHOOSE f : Rule(f)
           g == [y \in (1..N) \X X |-> Up(y[2])]
<1>1. N \in Nat /\ first \in X
  <2>1. Rest(ms[at.m].base, at.p) \in Paths
    BY TableShape, RestPath DEF Places
  <2>. QED BY <2>1, TableShape DEF Places
<1>2. ASSUME NEW x \in X PROVE Up(x) \in X
  <2>1. x.m \in DOMAIN ms /\ x.p \in Paths
    BY DEF Places
  <2>2. CASE ms[x.m].par # NoMount
    <3>1. ms[x.m].par \in DOMAIN ms
      BY <2>1, <2>2 DEF Table
    <3>2. Rest(ms[ms[x.m].par].base, ms[x.m].at) \o x.p \in Paths
      BY <2>1, <3>1, TableShape, RestPath, JoinedPath
    <3>. QED BY <2>2, <3>1, <3>2 DEF Places
  <2>. QED BY <2>2
<1>3. g \in [(1..N) \X X -> X]
  <2>. HIDE DEF Up, N, X
  <2>. QED BY <1>2
<1>4. PICK f \in [0..N -> X] : Follows(f, N, first, g)
  <2>. HIDE DEF g, N, X, first
  <2>. QED BY <1>1, <1>3, IterationExists
<1>5. Rule(f)
  <2>1. \A n \in 1..N : f[n] = Up(f[n - 1])
    <3>. TAKE n \in 1..N
    <3>1. n - 1 \in 0..N
      BY <1>1
    <3>2. <<n, f[n - 1]>> \in (1..N) \X X
      BY <3>1
    <3>. HIDE DEF Up
    <3>. QED BY <1>4, <3>2 DEF Follows
  <2>. HIDE DEF Up, X, first
  <2>. QED BY <1>1, <1>4, <2>1 DEF Follows
<1>6. Rule(climb)
  <2>. HIDE DEF Rule
  <2>. QED BY <1>5
<1>7. climb[0] = first /\ \A n \in 1..N : climb[n] = Up(climb[n - 1])
  <2>. HIDE DEF climb, Up, first
  <2>. QED BY <1>1, <1>6
<1>8. climb[N] \in X
  <2>1. climb[0] \in X /\ \A n \in 1..N : climb[n - 1] \in X => climb[n] \in X
    <3>. HIDE DEF climb, Up, first, X
    <3>. QED BY <1>1, <1>2, <1>7
  <2>. HIDE DEF climb, X, N, first, Up
  <2>2. \A n \in 0..N : climb[n] \in X
    BY <1>1, <2>1, IterationStays
  <2>. QED BY <1>1, <2>2
<1>9. ASSUME ms[at.m].par = NoMount PROVE climb[N] = first
  <2>1. Up(first) = first
    <3>1. first.m = at.m
      OBVIOUS
    <3>. HIDE DEF first
    <3>. QED BY <1>9, <3>1
  <2> DEFINE same == {first}
  <2>2. climb[0] \in same /\ \A n \in 1..N : climb[n - 1] \in same => climb[n] \in same
    <3>. HIDE DEF climb, Up, first
    <3>. QED BY <1>7, <2>1
  <2>3. \A n \in 0..N : climb[n] \in same
    <3>. HIDE DEF climb, N, same
    <3>. QED BY <1>1, <2>2, IterationStays
  <2>. HIDE DEF climb, first
  <2>. QED BY <1>1, <2>3
<1>10. PathOf(ms, at) = climb[N].p
  BY DEF PathOf
<1>. HIDE DEF climb
<1>. QED BY <1>8, <1>9, <1>10 DEF Places

(* A mount that hangs somewhere hangs there or from another that does.     *)
LEMMA HangingClosed ==
  ASSUME NEW ms, Len(ms) \in Nat, NEW at, NEW among
  PROVE  /\ Hanging(ms, at, among) \subseteq among
         /\ \A k \in Hanging(ms, at, among) :
              ms[k].par = at.m \/ ms[k].par \in Hanging(ms, at, among)
<1> DEFINE N == Len(ms)
           X == SUBSET among
           Next1(upper) == {k \in among : \/ ms[k].par = at.m /\ Under(at.p, ms[k].at)
                                          \/ ms[k].par \in upper \ {at.m}}
           Rule(f) == f = [n \in 0 .. N |-> IF n = 0 THEN {} ELSE Next1(f[n - 1])]
           under == CHOOSE f : Rule(f)
           g == [y \in (1..N) \X X |-> Next1(y[2])]
<1>1. N \in Nat /\ {} \in X
  OBVIOUS
<1>2. ASSUME NEW x PROVE Next1(x) \in X
  OBVIOUS
<1>3. g \in [(1..N) \X X -> X]
  <2>. HIDE DEF Next1, N, X
  <2>. QED BY <1>2
<1>4. PICK f \in [0..N -> X] : Follows(f, N, {}, g)
  <2>. HIDE DEF g, N, X
  <2>. QED BY <1>1, <1>3, IterationExists
<1>5. Rule(f)
  <2>1. \A n \in 1..N : f[n] = Next1(f[n - 1])
    <3>. TAKE n \in 1..N
    <3>1. n - 1 \in 0..N
      BY <1>1
    <3>2. <<n, f[n - 1]>> \in (1..N) \X X
      BY <3>1
    <3>. HIDE DEF Next1
    <3>. QED BY <1>4, <3>2 DEF Follows
  <2>. HIDE DEF Next1, X
  <2>. QED BY <1>1, <1>4, <2>1 DEF Follows
<1>6. Rule(under)
  <2>. HIDE DEF Rule
  <2>. QED BY <1>5
<1>7. under[0] = {} /\ \A n \in 1..N : under[n] = Next1(under[n - 1])
  <2> DEFINE none == {}
  <2>1. under = [n \in 0 .. N |-> IF n = 0 THEN none ELSE Next1(under[n - 1])]
    <3>. HIDE DEF under, Next1
    <3>. QED BY <1>6
  <2>2. under[0] = none
    <3>. HIDE DEF under, Next1, none, N
    <3>. QED BY <1>1, <2>1
  <2>3. ASSUME NEW n \in 1..N PROVE under[n] = Next1(under[n - 1])
    <3>1. n \in 0..N /\ n # 0
      BY <1>1
    <3>. HIDE DEF under, Next1, none, N
    <3>. QED BY <2>1, <3>1
  <2>. QED BY <2>2, <2>3
<1> DEFINE S == {n \in 0..N : n = 0 \/ under[n - 1] \subseteq under[n]}
<1>. HIDE DEF under
<1>8. 0..N \subseteq S
  <2>1. 0 \in S
    BY <1>1
  <2>2. ASSUME NEW n \in 0..N, n < N, n \in S PROVE n + 1 \in S
    <3>1. n + 1 \in 1..N /\ (n + 1) - 1 = n /\ n + 1 \in 0..N
      BY <1>1, <2>2
    <3>2. under[n + 1] = Next1(under[n])
      BY <1>7, <3>1
    <3>3. CASE n = 0
      BY <1>7, <3>1, <3>3
    <3>4. CASE n # 0
      <4>1. n \in 1..N /\ under[n] = Next1(under[n - 1]) /\ under[n - 1] \subseteq under[n]
        BY <1>7, <2>2, <3>4
      <4>2. under[n] \subseteq under[n + 1]
        BY <3>2, <4>1
      <4>. QED BY <3>1, <4>2
    <3>. QED BY <3>3, <3>4
  <2>. HIDE DEF S, N
  <2>. QED BY <1>1, <2>1, <2>2, Induction
<1>9. under[N] \subseteq among /\ \A k \in under[N] : ms[k].par = at.m \/ ms[k].par \in under[N]
  <2>1. CASE N = 0
    BY <1>7, <2>1
  <2>2. CASE N # 0
    <3>1. N \in 1..N /\ N \in S
      BY <1>1, <1>8, <2>2
    <3>2. under[N] = Next1(under[N - 1]) /\ under[N - 1] \subseteq under[N]
      BY <1>7, <2>2, <3>1
    <3>. HIDE DEF N, S
    <3>. QED BY <3>2
  <2>. QED BY <2>1, <2>2
<1>10. Hanging(ms, at, among) = under[N]
  BY DEF Hanging, under
<1>. QED BY <1>9, <1>10

(* The copies a bind makes are numbered in the order of the originals.     *)
LEMMA RankOrder ==
  ASSUME NEW S, S \subseteq Nat, IsFiniteSet(S)
  PROVE  /\ Cardinality(S) \in Nat
         /\ \A k \in S : Rank(S, k) \in 1..Cardinality(S)
         /\ \A j, k \in S : j < k => Rank(S, j) < Rank(S, k)
         /\ \A n \in 1..Cardinality(S) : Original(S, n) \in S /\ Rank(S, Original(S, n)) = n
<1> DEFINE N == Cardinality(S)
           T(k) == {j \in S : j <= k}
           r == [k \in S |-> Rank(S, k)]
<1>1. N \in Nat
  BY FS_CardinalityType
<1>2. \A k \in S : Rank(S, k) = Cardinality(T(k))
  BY DEF Rank
<1>3. ASSUME NEW k \in S
      PROVE  IsFiniteSet(T(k)) /\ Cardinality(T(k)) \in Nat /\ Cardinality(T(k)) \in 1..N
  <2>1. T(k) \subseteq S /\ T(k) # {}
    OBVIOUS
  <2>. HIDE DEF T
  <2>2. IsFiniteSet(T(k)) /\ Cardinality(T(k)) <= N
    BY <2>1, FS_Subset
  <2>3. Cardinality(T(k)) \in Nat /\ Cardinality(T(k)) # 0
    BY <2>1, <2>2, FS_CardinalityType, FS_EmptySet
  <2>. HIDE DEF N
  <2>. QED BY <1>1, <2>2, <2>3
<1>4. ASSUME NEW j \in S, NEW k \in S, j < k
      PROVE  Cardinality(T(j)) < Cardinality(T(k))
  <2>1. T(j) \subseteq T(k) /\ k \in T(k) /\ k \notin T(j)
    <3>1. j \in Nat /\ k \in Nat /\ j < k /\ \A m \in S : m \in Nat
      BY <1>4
    <3>2. \A m \in S : m <= j => m <= k
      BY <3>1
    <3>3. T(j) \subseteq T(k)
      BY <3>2
    <3>4. k <= k /\ ~(k <= j)
      BY <3>1
    <3>. QED BY <3>3, <3>4
  <2>2. IsFiniteSet(T(j)) /\ Cardinality(T(j)) \in Nat /\ IsFiniteSet(T(k)) /\ Cardinality(T(k)) \in Nat
    BY <1>3
  <2> DEFINE a == T(j)
             b == T(k)
  <2>3. a \in SUBSET b /\ a # b /\ IsFiniteSet(b)
    BY <2>1, <2>2
  <2>4. Cardinality(a) \in Nat /\ Cardinality(b) \in Nat
    BY <2>2
  <2>. HIDE DEF a, b
  <2>5. Cardinality(a) <= Cardinality(b) /\ (Cardinality(a) = Cardinality(b) => a = b)
    BY <2>3, FS_Subset
  <2>6. Cardinality(a) < Cardinality(b)
    BY <2>3, <2>4, <2>5
  <2>. QED BY <2>6 DEF a, b
<1>5. \A k \in S : Rank(S, k) \in 1..N
  <2>. HIDE DEF T, N
  <2>. QED BY <1>2, <1>3
<1>6. \A j, k \in S : j < k => Rank(S, j) < Rank(S, k)
  <2>. HIDE DEF T
  <2>. QED BY <1>2, <1>4
<1>7. r \in Injection(S, 1..N)
  <2>1. r \in [S -> 1..N]
    BY <1>5
  <2>2. \A j, k \in S : r[j] = r[k] => j = k
    <3>. TAKE j, k \in S
    <3>1. j = k \/ j < k \/ k < j
      OBVIOUS
    <3>2. Rank(S, j) \in Nat /\ Rank(S, k) \in Nat
      <4>. HIDE DEF N
      <4>. QED BY <1>1, <1>5
    <3>. QED BY <1>6, <3>1, <3>2
  <2>. HIDE DEF r, N
  <2>. QED BY <2>1, <2>2 DEF Injection, IsInjective
<1>8. IsFiniteSet(1..N) /\ Cardinality(1..N) = N
  <2>1. 1 \in Int /\ N \in Int /\ N \in Nat
    BY <1>1
  <2>. HIDE DEF N
  <2>. QED BY <2>1, FS_Interval
<1>9. r \in Surjection(S, 1..N)
  <2> DEFINE J == 1..N
  <2>1. r \in Injection(S, J) /\ IsFiniteSet(J) /\ Cardinality(S) = Cardinality(J)
    BY <1>7, <1>8
  <2>. HIDE DEF r, J
  <2>2. r \in Surjection(S, J)
    BY <2>1, FS_Injection
  <2>. QED BY <2>2 DEF J
<1>10. ASSUME NEW n \in 1..N PROVE \E k \in S : Rank(S, k) = n
  <2>1. \E k \in S : r[k] = n
    <3>. HIDE DEF r, N
    <3>. QED BY <1>9 DEF Surjection
  <2>. QED BY <2>1
<1>11. ASSUME NEW n \in 1..N PROVE Original(S, n) \in S /\ Rank(S, Original(S, n)) = n
  <2>. HIDE DEF N
  <2>. QED BY <1>10 DEF Original
<1>. QED BY <1>1, <1>5, <1>6, <1>11

-----------------------------------------------------------------------------
(* What a lookup goes on to from a place: what is mounted there.           *)
Onto(ms, x) ==
  LET over == MountedAt(ms, x)
  IN  IF over = {} THEN x
      ELSE LET k == CHOOSE k \in over : TRUE
           IN  [m |-> k, p |-> ms[k].base]

LEMMA OntoPlace ==
  ASSUME NEW G, NEW F, NEW ms, Table(ms, G, F), NEW x \in Places(ms)
  PROVE  /\ Onto(ms, x) \in Places(ms)
         /\ \/ MountedAt(ms, x) = {} /\ Onto(ms, x) = x
            \/ \E k \in MountedAt(ms, x) :
                 /\ Onto(ms, x) = [m |-> k, p |-> ms[k].base]
                 /\ k \in DOMAIN ms /\ ms[k].par = x.m /\ ms[k].at = x.p /\ x.m # NoMount
<1>1. \A k \in MountedAt(ms, x) : k \in DOMAIN ms /\ ms[k].par = x.m /\ ms[k].at = x.p
  BY DEF MountedAt
<1>2. CASE MountedAt(ms, x) = {}
  BY <1>2 DEF Onto
<1>3. CASE MountedAt(ms, x) # {}
  <2> DEFINE k == CHOOSE k \in MountedAt(ms, x) : TRUE
  <2>1. k \in MountedAt(ms, x)
    BY <1>3
  <2>2. Onto(ms, x) = [m |-> k, p |-> ms[k].base]
    BY <1>3 DEF Onto
  <2>. HIDE DEF k
  <2>3. k \in DOMAIN ms /\ ms[k].base \in Paths /\ x.m # NoMount
    BY <1>1, <2>1, TableShape DEF Places, NoMount
  <2>. QED BY <1>1, <2>1, <2>2, <2>3 DEF Places
<1>. QED BY <1>2, <1>3

(* The way to the top of a stack.                                          *)
Climbs(f, ms, at) ==
  /\ f[0] = at /\ Top(ms, at) = f[Len(ms)]
  /\ \A n \in 1..Len(ms) : f[n] = Onto(ms, f[n - 1])
  /\ \A n \in 0..Len(ms) : f[n] \in Places(ms)

LEMMA TopSteps ==
  ASSUME NEW G, NEW F, NEW ms, Table(ms, G, F), NEW at \in Places(ms)
  PROVE  \E f : Climbs(f, ms, at)
<1> DEFINE N == Len(ms)
           X == Places(ms)
           Rule(f) == f = [n \in 0 .. N |-> IF n = 0 THEN at ELSE Onto(ms, f[n - 1])]
           up == CHOOSE f : Rule(f)
           g == [y \in (1..N) \X X |-> Onto(ms, y[2])]
<1>1. N \in Nat /\ at \in X
  BY TableShape
<1>2. ASSUME NEW x \in X PROVE Onto(ms, x) \in X
  BY OntoPlace
<1>3. g \in [(1..N) \X X -> X]
  <2>. HIDE DEF X, N
  <2>. QED BY <1>2
<1>4. PICK f \in [0..N -> X] : Follows(f, N, at, g)
  <2>. HIDE DEF g, N, X
  <2>. QED BY <1>1, <1>3, IterationExists
<1>5. Rule(f)
  <2>1. \A n \in 1..N : f[n] = Onto(ms, f[n - 1])
    <3>. TAKE n \in 1..N
    <3>1. n - 1 \in 0..N
      BY <1>1
    <3>2. <<n, f[n - 1]>> \in (1..N) \X X
      BY <3>1
    <3>. QED BY <1>4, <3>2 DEF Follows
  <2>. HIDE DEF X
  <2>. QED BY <1>1, <1>4, <2>1 DEF Follows
<1>6. Rule(up)
  <2>. HIDE DEF Rule
  <2>. QED BY <1>5
<1>7. up[0] = at /\ \A n \in 1..N : up[n] = Onto(ms, up[n - 1])
  <2>. HIDE DEF up
  <2>. QED BY <1>1, <1>6
<1>8. \A n \in 0..N : up[n] \in X
  <2>1. up[0] \in X /\ \A n \in 1..N : up[n - 1] \in X => up[n] \in X
    <3>. HIDE DEF up, X
    <3>. QED BY <1>1, <1>2, <1>7
  <2>. HIDE DEF up, X, N
  <2>. QED BY <1>1, <2>1, IterationStays
<1>9. Top(ms, at) = up[N]
  BY DEF Top, Onto
<1>10. Climbs(up, ms, at)
  <2>. HIDE DEF up
  <2>. QED BY <1>7, <1>8, <1>9 DEF Climbs
<1>. QED BY <1>10

(* The top is in every set of places that going up does not leave.         *)
LEMMA TopStays ==
  ASSUME NEW G, NEW F, NEW ms, Table(ms, G, F), NEW at \in Places(ms), NEW Z, at \in Z,
         \A x \in Z \cap Places(ms) : Onto(ms, x) \in Z
  PROVE  Top(ms, at) \in Z
<1>1. PICK f : Climbs(f, ms, at)
  BY TopSteps
<1>2. Len(ms) \in Nat /\ f[0] = at
  BY <1>1, TableShape DEF Climbs
<1>3. ASSUME NEW n \in 1..Len(ms), f[n - 1] \in Z PROVE f[n] \in Z
  <2>1. n - 1 \in 0..Len(ms)
    BY <1>2
  <2>. QED BY <1>1, <1>3, <2>1 DEF Climbs
<1>4. \A n \in 0..Len(ms) : f[n] \in Z
  BY <1>2, <1>3, IterationStays
<1>. QED BY <1>1, <1>2, <1>4 DEF Climbs

(* In the order of mounting a stack goes up, so nothing is mounted on its  *)
(* top.                                                                    *)
LEMMA TopFree ==
  ASSUME NEW G, NEW F, NEW ms, Table(ms, G, F), Ordered(ms), NEW at \in Places(ms)
  PROVE  /\ Top(ms, at) \in Places(ms) /\ MountedAt(ms, Top(ms, at)) = {}
         /\ MountedAt(ms, at) = {} => Top(ms, at) = at
<1> DEFINE N == Len(ms)
<1>1. N \in Nat /\ DOMAIN ms = 1..N
  BY TableShape
<1>2. PICK f : Climbs(f, ms, at)
  BY TopSteps
<1> DEFINE S == {n \in 0..N : MountedAt(ms, f[n]) = {} \/ f[n].m > n}
<1>3. 0 \in S
  <2>1. f[0].m \in 1..N
    BY <1>1, <1>2 DEF Climbs, Places
  <2>. QED BY <1>1, <2>1
<1>4. ASSUME NEW n \in 0..N, n < N, n \in S PROVE n + 1 \in S
  <2>1. n + 1 \in 1..N /\ (n + 1) - 1 = n /\ n + 1 \in 0..N
    BY <1>1, <1>4
  <2>2. f[n + 1] = Onto(ms, f[n]) /\ f[n] \in Places(ms)
    BY <1>2, <2>1 DEF Climbs
  <2>3. CASE MountedAt(ms, f[n]) = {}
    BY <2>1, <2>2, <2>3 DEF Onto
  <2>4. CASE MountedAt(ms, f[n]) # {}
    <3>1. f[n].m > n
      BY <1>4, <2>4
    <3>2. PICK k \in MountedAt(ms, f[n]) : f[n + 1].m = k /\ k \in DOMAIN ms /\ ms[k].par = f[n].m
                                           /\ f[n].m # NoMount
      BY <2>2, <2>4, OntoPlace
    <3>3. k # 1 /\ ms[k].par \in 1..(k - 1)
      BY <3>2 DEF Ordered
    <3>4. f[n + 1].m > n + 1
      BY <1>1, <3>1, <3>2, <3>3
    <3>. QED BY <2>1, <3>4
  <2>. QED BY <2>3, <2>4
<1>5. 0..N \subseteq S
  <2>. HIDE DEF S, N
  <2>. QED BY <1>1, <1>3, <1>4, Induction
<1>6. MountedAt(ms, f[N]) = {}
  <2>1. N \in 0..N
    BY <1>1
  <2>2. f[N].m \in 1..N
    BY <1>1, <1>2, <2>1 DEF Climbs, Places
  <2>3. N \in S
    BY <1>5, <2>1
  <2>. QED BY <1>1, <2>2, <2>3
<1>7. ASSUME MountedAt(ms, at) = {} PROVE Top(ms, at) = at
  <2>1. Top(ms, at) \in {at}
    <3>1. \A x \in {at} \cap Places(ms) : Onto(ms, x) \in {at}
      BY <1>7 DEF Onto
    <3>. QED BY <3>1, TopStays
  <2>. QED BY <2>1
<1>. QED BY <1>1, <1>2, <1>6, <1>7, TopPlace DEF Climbs

(* The way up goes over each mount that is on it.                          *)
LEMMA TopOver ==
  ASSUME NEW G, NEW F, NEW ms, Table(ms, G, F), Ordered(ms), NEW at \in Places(ms),
         NEW k \in MountedAt(ms, at)
  PROVE  Top(ms, [m |-> k, p |-> ms[k].base]) = Top(ms, at)
<1> DEFINE N == Len(ms)
           over == [m |-> k, p |-> ms[k].base]
<1>1. N \in Nat /\ DOMAIN ms = 1..N
  BY TableShape
<1>2. k \in DOMAIN ms /\ ms[k].par = at.m /\ ms[k].at = at.p /\ over \in Places(ms)
  BY TableShape DEF MountedAt, Places
<1>3. Onto(ms, at) = over
  <2>1. \A j \in MountedAt(ms, at) : j = k
    BY <1>2 DEF MountedAt, Ordered
  <2>2. (CHOOSE j \in MountedAt(ms, at) : TRUE) = k
    BY <2>1
  <2>. QED BY <2>2 DEF Onto
<1>. HIDE DEF over
<1>4. PICK f : Climbs(f, ms, at)
  BY TopSteps
<1>5. PICK g : Climbs(g, ms, over)
  BY <1>2, TopSteps
<1> DEFINE S == {n \in 0..N : n < N => g[n] = f[n + 1]}
<1>6. 0 \in S
  <2>1. 0 < N => 1 \in 1..N /\ 1 - 1 = 0
    BY <1>1
  <2>2. g[0] = over /\ (0 < N => f[1] = Onto(ms, f[0])) /\ f[0] = at
    BY <1>4, <1>5, <2>1 DEF Climbs
  <2>. QED BY <1>1, <1>3, <2>2
<1>7. ASSUME NEW n \in 0..N, n < N, n \in S PROVE n + 1 \in S
  <2>1. n + 1 \in 1..N /\ (n + 1) - 1 = n /\ n + 1 \in 0..N
    BY <1>1, <1>7
  <2>2. n + 1 < N => (n + 1) + 1 \in 1..N /\ ((n + 1) + 1) - 1 = n + 1
    BY <1>1
  <2>3. g[n + 1] = Onto(ms, g[n])
    BY <1>5, <2>1 DEF Climbs
  <2>4. n + 1 < N => f[(n + 1) + 1] = Onto(ms, f[n + 1])
    BY <1>4, <2>2 DEF Climbs
  <2>. QED BY <1>7, <2>1, <2>3, <2>4
<1>8. 0..N \subseteq S
  <2>. HIDE DEF S, N
  <2>. QED BY <1>1, <1>6, <1>7, Induction
<1>9. N \in 1..N /\ N - 1 \in 0..N /\ N - 1 < N /\ (N - 1) + 1 = N
  BY <1>1, <1>2
<1>10. g[N - 1] = f[N] /\ g[N] = Onto(ms, g[N - 1])
  BY <1>5, <1>8, <1>9 DEF Climbs
<1>11. MountedAt(ms, f[N]) = {}
  BY <1>4, TopFree DEF Climbs
<1>12. g[N] = f[N]
  BY <1>10, <1>11 DEF Onto
<1>. QED BY <1>4, <1>5, <1>12 DEF Climbs, over

(* One round of collecting the mounts that hang under a place.             *)
Hung(ms, at, among, upper) ==
  {k \in among : \/ ms[k].par = at.m /\ Under(at.p, ms[k].at)
                 \/ ms[k].par \in upper \ {at.m}}

Collects(under, ms, at, among) ==
  /\ under[0] = {} /\ Hanging(ms, at, among) = under[Len(ms)]
  /\ \A n \in 1..Len(ms) : under[n] = Hung(ms, at, among, under[n - 1])

LEMMA HangingSteps ==
  ASSUME NEW ms, Len(ms) \in Nat, NEW at, NEW among
  PROVE  \E under : Collects(under, ms, at, among)
<1> DEFINE N == Len(ms)
           X == SUBSET among
           Next1(upper) == Hung(ms, at, among, upper)
           Rule(f) == f = [n \in 0 .. N |-> IF n = 0 THEN {} ELSE Next1(f[n - 1])]
           under == CHOOSE f : Rule(f)
           g == [y \in (1..N) \X X |-> Next1(y[2])]
<1>1. N \in Nat /\ {} \in X
  OBVIOUS
<1>2. ASSUME NEW x PROVE Next1(x) \in X
  BY DEF Hung
<1>3. g \in [(1..N) \X X -> X]
  <2>. HIDE DEF Next1, N, X
  <2>. QED BY <1>2
<1>4. PICK f \in [0..N -> X] : Follows(f, N, {}, g)
  <2>. HIDE DEF g, N, X
  <2>. QED BY <1>1, <1>3, IterationExists
<1>5. Rule(f)
  <2>1. \A n \in 1..N : f[n] = Next1(f[n - 1])
    <3>. TAKE n \in 1..N
    <3>1. n - 1 \in 0..N
      BY <1>1
    <3>2. <<n, f[n - 1]>> \in (1..N) \X X
      BY <3>1
    <3>. HIDE DEF Next1
    <3>. QED BY <1>4, <3>2 DEF Follows
  <2>. HIDE DEF Next1, X
  <2>. QED BY <1>1, <1>4, <2>1 DEF Follows
<1>6. Rule(under)
  <2>. HIDE DEF Rule
  <2>. QED BY <1>5
<1>7. under[0] = {} /\ \A n \in 1..N : under[n] = Next1(under[n - 1])
  <2> DEFINE none == {}
  <2>1. under = [n \in 0 .. N |-> IF n = 0 THEN none ELSE Next1(under[n - 1])]
    <3>. HIDE DEF under, Next1
    <3>. QED BY <1>6
  <2>2. under[0] = none
    <3>. HIDE DEF under, Next1, none, N
    <3>. QED BY <1>1, <2>1
  <2>3. ASSUME NEW n \in 1..N PROVE under[n] = Next1(under[n - 1])
    <3>1. n \in 0..N /\ n # 0
      BY <1>1
    <3>. HIDE DEF under, Next1, none, N
    <3>. QED BY <2>1, <3>1
  <2>. QED BY <2>2, <2>3
<1>8. Hanging(ms, at, among) = under[N]
  BY DEF Hanging, Hung
<1>9. Collects(under, ms, at, among)
  <2>. HIDE DEF under
  <2>. QED BY <1>7, <1>8 DEF Collects
<1>. QED BY <1>9

(* No more hang than those of a set that is closed.                        *)
LEMMA HangingIn ==
  ASSUME NEW ms, Len(ms) \in Nat, NEW at, NEW among, NEW S, Hung(ms, at, among, S) \subseteq S
  PROVE  Hanging(ms, at, among) \subseteq S
<1>1. PICK under : Collects(under, ms, at, among)
  BY HangingSteps
<1> DEFINE X == SUBSET S
<1>2. under[0] \in X
  BY <1>1 DEF Collects
<1>3. \A n \in 1..Len(ms) : under[n - 1] \in X => under[n] \in X
  BY <1>1 DEF Hung, Collects
<1>4. \A n \in 0..Len(ms) : under[n] \in X
  <2>. HIDE DEF X
  <2>. QED BY <1>2, <1>3, IterationStays
<1>5. Len(ms) \in 0..Len(ms)
  OBVIOUS
<1>. QED BY <1>1, <1>4, <1>5 DEF Collects

(* As many rounds as there are mounts find all of them.                    *)
LEMMA HangingWhole ==
  ASSUME NEW ms, Len(ms) \in Nat, DOMAIN ms = 1..Len(ms), NEW at, NEW among,
         among \subseteq DOMAIN ms
  PROVE  Hung(ms, at, among, Hanging(ms, at, among)) = Hanging(ms, at, among)
<1> DEFINE N == Len(ms)
           Next1(upper) == Hung(ms, at, among, upper)
<1>0. PICK under : Collects(under, ms, at, among)
  BY HangingSteps
<1>1. /\ under[0] = {} /\ Hanging(ms, at, among) = under[N]
      /\ \A n \in 1..N : under[n] = Next1(under[n - 1])
  BY <1>0 DEF Collects
<1>2. ASSUME NEW x PROVE Next1(x) \subseteq DOMAIN ms
  BY DEF Hung
<1>3. ASSUME NEW x, NEW y, x \subseteq y PROVE Next1(x) \subseteq Next1(y)
  BY <1>3 DEF Hung
<1>. HIDE DEF Next1
<1>4. \A n \in 0..N : under[n] \subseteq DOMAIN ms
  <2>1. \A n \in 0..N : n = 0 \/ (n \in 1..N)
    OBVIOUS
  <2>. QED BY <1>1, <1>2, <2>1
<1>5. IsFiniteSet(DOMAIN ms) /\ Cardinality(DOMAIN ms) = N
  BY FS_Interval
<1>6. CASE N = 0
  <2>1. under[N] = {} /\ DOMAIN ms = {}
    BY <1>1, <1>6
  <2>. QED BY <1>1, <1>2, <2>1 DEF Next1
<1>7. CASE N # 0
  <2> DEFINE S == {n \in 0..(N - 1) : \/ under[n] = under[n + 1]
                                      \/ under[n] \subseteq under[n + 1]
                                         /\ Cardinality(under[n + 1]) >= n + 1}
  <2>1. 0 \in S
    <3>1. 1 \in 1..N /\ 0 \in 0..(N - 1) /\ 1 - 1 = 0 /\ 0 + 1 = 1 /\ 1 \in 0..N
      BY <1>7
    <3>2. under[1] # {} => Cardinality(under[1]) >= 1
      <4>1. IsFiniteSet(under[1])
        BY <1>4, <1>5, <3>1, FS_Subset
      <4>2. Cardinality(under[1]) \in Nat /\ (Cardinality(under[1]) = 0 <=> under[1] = {})
        BY <4>1, FS_CardinalityType, FS_EmptySet
      <4>. QED BY <4>2
    <3>. QED BY <1>1, <3>1, <3>2
  <2>2. ASSUME NEW n \in 0..(N - 1), n < N - 1, n \in S PROVE n + 1 \in S
    <3>1. /\ n + 1 \in 1..N /\ n + 1 \in 0..(N - 1) /\ (n + 1) - 1 = n /\ n + 1 \in 0..N
          /\ (n + 1) + 1 \in 1..N /\ ((n + 1) + 1) - 1 = n + 1 /\ (n + 1) + 1 \in 0..N
      BY <1>7, <2>2
    <3>2. under[n + 1] = Next1(under[n]) /\ under[(n + 1) + 1] = Next1(under[n + 1])
      BY <1>1, <3>1
    <3>3. CASE under[n] = under[n + 1]
      BY <3>1, <3>2, <3>3
    <3>4. CASE under[n] \subseteq under[n + 1] /\ Cardinality(under[n + 1]) >= n + 1
      <4>1. under[n + 1] \subseteq under[(n + 1) + 1]
        BY <1>3, <3>2, <3>4
      <4>2. IsFiniteSet(under[(n + 1) + 1])
        BY <1>4, <1>5, <3>1, FS_Subset
      <4>3. under[n + 1] # under[(n + 1) + 1] =>
              Cardinality(under[n + 1]) < Cardinality(under[(n + 1) + 1])
        <5> DEFINE small == under[n + 1]
                   large == under[(n + 1) + 1]
        <5>1. small \in SUBSET large /\ IsFiniteSet(large)
          BY <4>1, <4>2
        <5>. HIDE DEF small, large
        <5>2. /\ IsFiniteSet(small) /\ Cardinality(small) <= Cardinality(large)
              /\ Cardinality(large) = Cardinality(small) => large = small
          BY <5>1, FS_Subset
        <5>3. Cardinality(small) \in Nat /\ Cardinality(large) \in Nat
          BY <5>1, <5>2, FS_CardinalityType
        <5>4. small # large => Cardinality(small) < Cardinality(large)
          BY <5>2, <5>3
        <5>. QED BY <5>4 DEF small, large
      <4>4. Cardinality(under[n + 1]) \in Nat /\ Cardinality(under[(n + 1) + 1]) \in Nat
        BY <4>1, <4>2, FS_Subset, FS_CardinalityType
      <4>5. under[n + 1] # under[(n + 1) + 1] => Cardinality(under[(n + 1) + 1]) >= (n + 1) + 1
        BY <3>1, <3>4, <4>3, <4>4
      <4>. QED BY <3>1, <4>1, <4>5
    <3>. QED BY <2>2, <3>3, <3>4
  <2>3. N - 1 \in S
    <3>1. N - 1 \in Nat
      BY <1>7
    <3>2. 0..(N - 1) \subseteq S
      <4>. HIDE DEF S, N
      <4>. QED BY <2>1, <2>2, <3>1, Induction
    <3>. QED BY <3>1, <3>2
  <2>4. (N - 1) + 1 = N /\ N \in 1..N /\ N \in 0..N
    BY <1>7
  <2>5. under[N] = Next1(under[N - 1])
    BY <1>1, <2>4
  <2>6. CASE under[N - 1] = under[N]
    BY <1>1, <2>5, <2>6 DEF Next1
  <2>7. CASE under[N - 1] \subseteq under[N] /\ Cardinality(under[N]) >= N
    <3>1. under[N] \subseteq DOMAIN ms
      BY <1>4, <2>4
    <3>2. Cardinality(under[N]) \in Nat
      BY <1>5, <3>1, FS_Subset, FS_CardinalityType
    <3>3. under[N] = DOMAIN ms
      BY <1>5, <2>7, <3>1, <3>2, FS_Subset
    <3>4. Next1(under[N - 1]) \subseteq Next1(under[N])
      BY <1>3, <2>7
    <3>. QED BY <1>1, <1>2, <2>5, <3>3, <3>4 DEF Next1
  <2>. QED BY <2>3, <2>4, <2>6, <2>7
<1>. QED BY <1>6, <1>7

(* Paths under paths, and what is left of them.                            *)
LEMMA UnderFacts ==
  ASSUME NEW p \in Paths, NEW q \in Paths
  PROVE  /\ Under(<<>>, q) /\ Under(p, p) /\ Rest(p, p) = <<>> /\ Rest(<<>>, q) = q
         /\ Under(p, q) /\ p # q => Rest(p, q) # <<>>
         /\ \A a \in Names : /\ Append(q, a) \in Paths
                             /\ Under(p, q) => Under(p, Append(q, a)) /\ Append(q, a) # p
<1>1. /\ Len(p) \in Nat /\ Len(q) \in Nat /\ p \in [1..Len(p) -> Names] /\ q \in [1..Len(q) -> Names]
      /\ <<>> \in Paths /\ Len(<<>>) = 0 /\ p \in Seq(Names) /\ q \in Seq(Names)
  BY LenProperties DEF Paths
<1> DEFINE lp == Len(p)
           lq == Len(q)
<1>0. lp \in Nat /\ lq \in Nat
  BY <1>1
<1>2. SubSeq(p, 1, Len(p)) = p /\ SubSeq(q, 1, Len(q)) = q
  BY <1>1, SubSeqFull
<1>3. Under(p, p)
  BY <1>1 DEF Under, IsPrefix
<1>4. Under(<<>>, q)
  <2>1. SubSeq(<<>>, 1, 0) = <<>> /\ SubSeq(q, 1, 0) = <<>>
    BY <1>1
  <2>. QED BY <1>1, <2>1 DEF Under, IsPrefix
<1>5. Rest(p, p) = <<>>
  <2>1. Len(p) + 1 \in Int /\ Len(p) \in Int /\ Len(p) < Len(p) + 1
    BY <1>1
  <2>. QED BY <2>1, SubSeqEmpty DEF Rest
<1>6. Rest(<<>>, q) = q
  <2>1. Len(<<>>) + 1 = 1
    BY <1>1
  <2>. QED BY <1>2, <2>1 DEF Rest
<1>7. ASSUME Under(p, q), p # q PROVE Rest(p, q) # <<>>
  <2>1. Len(p) <= Len(q) /\ SubSeq(p, 1, Len(p)) = SubSeq(q, 1, Len(p))
    BY <1>7 DEF Under, IsPrefix
  <2>2. lp # lq /\ lp <= lq
    BY <1>2, <1>7, <2>1
  <2>3. lp + 1 \in Int /\ lq \in Int /\ lp + 1 <= lq /\ lq - (lp + 1) + 1 # 0
        /\ \A n \in (lp + 1)..lq : n \in 1..lq
    <3>. HIDE DEF lp, lq
    <3>. QED BY <1>0, <2>2
  <2>4. \A n \in (lp + 1)..lq : q[n] \in Names
    BY <1>1, <2>3
  <2>5. Len(SubSeq(q, lp + 1, lq)) = IF lp + 1 <= lq THEN lq - (lp + 1) + 1 ELSE 0
    <3>. HIDE DEF lp, lq
    <3>. QED BY <2>3, <2>4, SubSeqProperties
  <2>6. Len(Rest(p, q)) # 0
    <3>1. Rest(p, q) = SubSeq(q, lp + 1, lq)
      BY DEF Rest
    <3>. HIDE DEF lp, lq
    <3>. QED BY <2>3, <2>5, <3>1
  <2>7. Len(<<>>) = 0
    OBVIOUS
  <2>8. ASSUME Rest(p, q) = <<>> PROVE FALSE
    BY <2>6, <2>7, <2>8
  <2>. QED BY <2>8
<1>8. ASSUME NEW a \in Names
      PROVE  /\ Append(q, a) \in Paths
             /\ Under(p, q) => Under(p, Append(q, a)) /\ Append(q, a) # p
  <2>1. /\ Append(q, a) \in Seq(Names) /\ Len(Append(q, a)) = Len(q) + 1
        /\ \A n \in 1..Len(q) : Append(q, a)[n] = q[n]
    BY <1>1, <1>8, AppendProperties
  <2>2. ASSUME Under(p, q) PROVE Under(p, Append(q, a)) /\ Append(q, a) # p
    <3>1. Len(p) <= Len(q) /\ SubSeq(p, 1, Len(p)) = SubSeq(q, 1, Len(p))
      BY <2>2 DEF Under, IsPrefix
    <3>2. /\ \A n \in 1..Len(p) : q[n] \in Names /\ Append(q, a)[n] \in Names
          /\ \A n \in 1..Len(p) : Append(q, a)[n] = q[n]
          /\ 1 \in Int /\ Len(p) \in Int
      BY <1>1, <2>1, <3>1
    <3>3. /\ SubSeq(q, 1, Len(p)) \in Seq(Names)
          /\ Len(SubSeq(q, 1, Len(p))) = IF 1 <= Len(p) THEN Len(p) - 1 + 1 ELSE 0
          /\ \A n \in 1..(Len(p) - 1 + 1) : SubSeq(q, 1, Len(p))[n] = q[1 + n - 1]
      BY <3>2, SubSeqProperties
    <3>4. /\ SubSeq(Append(q, a), 1, Len(p)) \in Seq(Names)
          /\ Len(SubSeq(Append(q, a), 1, Len(p))) = IF 1 <= Len(p) THEN Len(p) - 1 + 1 ELSE 0
          /\ \A n \in 1..(Len(p) - 1 + 1) : SubSeq(Append(q, a), 1, Len(p))[n] = Append(q, a)[1 + n - 1]
      <4> DEFINE t == Append(q, a)
      <4>1. \A n \in 1..Len(p) : t[n] \in Names
        BY <3>2
      <4>. HIDE DEF t
      <4>2. /\ SubSeq(t, 1, Len(p)) \in Seq(Names)
            /\ Len(SubSeq(t, 1, Len(p))) = IF 1 <= Len(p) THEN Len(p) - 1 + 1 ELSE 0
            /\ \A n \in 1..(Len(p) - 1 + 1) : SubSeq(t, 1, Len(p))[n] = t[1 + n - 1]
        BY <3>2, <4>1, SubSeqProperties
      <4>. QED BY <4>2 DEF t
    <3> DEFINE x == SubSeq(q, 1, Len(p))
               y == SubSeq(Append(q, a), 1, Len(p))
    <3>5. Len(x) = Len(y) /\ \A n \in 1..Len(x) : x[n] = y[n]
      <4>1. Len(x) = Len(p) /\ Len(y) = Len(p)
        <5>1. (IF 1 <= Len(p) THEN Len(p) - 1 + 1 ELSE 0) = Len(p)
          BY <1>1
        <5>. QED BY <3>3, <3>4, <5>1
      <4>2. ASSUME NEW n \in 1..Len(p) PROVE x[n] = y[n]
        <5>1. n \in 1..(Len(p) - 1 + 1) /\ 1 + n - 1 = n
          BY <1>1
        <5>. QED BY <3>2, <3>3, <3>4, <5>1
      <4>. HIDE DEF x, y
      <4>. QED BY <4>1, <4>2
    <3>6. x \in Seq(Names) /\ y \in Seq(Names)
      BY <3>3, <3>4
    <3>7. x = y
      <4>. HIDE DEF x, y
      <4>. QED BY <3>5, <3>6, SeqEqual
    <3>8. Len(p) <= Len(Append(q, a)) /\ Len(p) # Len(Append(q, a))
      <4>1. lp <= lq + 1 /\ lp # lq + 1
        <5>1. lp <= lq
          BY <3>1
        <5>. HIDE DEF lp, lq
        <5>. QED BY <1>0, <5>1
      <4>. QED BY <2>1, <4>1
    <3>. QED BY <3>1, <3>7, <3>8 DEF Under, IsPrefix
  <2>. QED BY <2>1, <2>2 DEF Paths
<1>. QED BY <1>3, <1>4, <1>5, <1>6, <1>7, <1>8

(* The way out of the mounts, to the one that has no parent.               *)
Outward(ms, x) ==
  LET mount == ms[x.m]
  IN  IF mount.par = NoMount THEN x
      ELSE [m |-> mount.par, p |-> Rest(ms[mount.par].base, mount.at) \o x.p]

Leaves(f, ms, at) ==
  /\ f[0] = [m |-> at.m, p |-> Rest(ms[at.m].base, at.p)] /\ PathOf(ms, at) = f[Len(ms)].p
  /\ \A n \in 1..Len(ms) : f[n] = Outward(ms, f[n - 1])
  /\ \A n \in 0..Len(ms) : f[n] \in Places(ms)

LEMMA OutwardPlace ==
  ASSUME NEW G, NEW F, NEW ms, Table(ms, G, F), NEW x \in Places(ms)
  PROVE  Outward(ms, x) \in Places(ms)
<1>1. x.m \in DOMAIN ms /\ x.p \in Paths
  BY DEF Places
<1>2. CASE ms[x.m].par # NoMount
  <2>1. ms[x.m].par \in DOMAIN ms
    BY <1>1, <1>2 DEF Table
  <2>2. Rest(ms[ms[x.m].par].base, ms[x.m].at) \o x.p \in Paths
    BY <1>1, <2>1, TableShape, RestPath, JoinedPath
  <2>. QED BY <1>2, <2>1, <2>2 DEF Places, Outward
<1>. QED BY <1>2 DEF Outward

LEMMA PathSteps ==
  ASSUME NEW G, NEW F, NEW ms, Table(ms, G, F), NEW at \in Places(ms)
  PROVE  \E f : Leaves(f, ms, at)
<1> DEFINE N == Len(ms)
           X == Places(ms)
           first == [m |-> at.m, p |-> Rest(ms[at.m].base, at.p)]
           Rule(f) == f = [n \in 0 .. N |-> IF n = 0 THEN first ELSE Outward(ms, f[n - 1])]
           climb == CHOOSE f : Rule(f)
           g == [y \in (1..N) \X X |-> Outward(ms, y[2])]
<1>1. N \in Nat /\ first \in X
  <2>1. Rest(ms[at.m].base, at.p) \in Paths
    BY TableShape, RestPath DEF Places
  <2>. QED BY <2>1, TableShape DEF Places
<1>2. ASSUME NEW x \in X PROVE Outward(ms, x) \in X
  BY OutwardPlace
<1>3. g \in [(1..N) \X X -> X]
  <2>. HIDE DEF N, X
  <2>. QED BY <1>2
<1>4. PICK f \in [0..N -> X] : Follows(f, N, first, g)
  <2>. HIDE DEF g, N, X, first
  <2>. QED BY <1>1, <1>3, IterationExists
<1>5. Rule(f)
  <2>1. \A n \in 1..N : f[n] = Outward(ms, f[n - 1])
    <3>. TAKE n \in 1..N
    <3>1. n - 1 \in 0..N
      BY <1>1
    <3>2. <<n, f[n - 1]>> \in (1..N) \X X
      BY <3>1
    <3>. QED BY <1>4, <3>2 DEF Follows
  <2>. HIDE DEF X, first
  <2>. QED BY <1>1, <1>4, <2>1 DEF Follows
<1>6. Rule(climb)
  <2>. HIDE DEF Rule
  <2>. QED BY <1>5
<1>7. climb[0] = first /\ \A n \in 1..N : climb[n] = Outward(ms, climb[n - 1])
  <2>. HIDE DEF climb, first
  <2>. QED BY <1>1, <1>6
<1>8. \A n \in 0..N : climb[n] \in X
  <2>1. climb[0] \in X /\ \A n \in 1..N : climb[n - 1] \in X => climb[n] \in X
    <3>. HIDE DEF climb, first, X
    <3>. QED BY <1>1, <1>2, <1>7
  <2>. HIDE DEF climb, X, N, first
  <2>. QED BY <1>1, <2>1, IterationStays
<1>9. PathOf(ms, at) = climb[N].p
  BY DEF PathOf, Outward
<1>10. Leaves(climb, ms, at)
  <2>. HIDE DEF climb
  <2>. QED BY <1>7, <1>8, <1>9 DEF Leaves
<1>. QED BY <1>10

(* Mounted in order, one climbs down to the first mount.                   *)
LEMMA LeavesAtFirst ==
  ASSUME NEW G, NEW F, NEW ms, Table(ms, G, F), Ordered(ms), NEW at \in Places(ms),
         NEW f, Leaves(f, ms, at)
  PROVE  f[Len(ms)].m = 1
<1> DEFINE N == Len(ms)
           S == {n \in 0..N : f[n].m = 1 \/ f[n].m + n <= N}
<1>1. N \in Nat /\ DOMAIN ms = 1..N /\ \A n \in 0..N : f[n].m \in 1..N
  BY TableShape DEF Leaves, Places
<1>2. 0 \in S
  <2>1. f[0].m \in 1..N /\ 0 \in 0..N
    BY <1>1
  <2>. QED BY <1>1, <2>1
<1>3. ASSUME NEW n \in 0..N, n < N, n \in S PROVE n + 1 \in S
  <2>1. n + 1 \in 1..N /\ (n + 1) - 1 = n /\ n + 1 \in 0..N
    BY <1>1, <1>3
  <2>2. f[n + 1] = Outward(ms, f[n]) /\ f[n].m \in 1..N
    BY <1>1, <2>1 DEF Leaves
  <2>3. CASE f[n].m = 1
    BY <2>1, <2>2, <2>3 DEF Ordered, Outward
  <2>4. CASE f[n].m # 1
    <3>1. f[n].m + n <= N /\ ms[f[n].m].par \in 1..(f[n].m - 1)
      BY <1>1, <1>3, <2>2, <2>4 DEF Ordered
    <3>2. f[n + 1].m = ms[f[n].m].par
      <4>1. ms[f[n].m].par # NoMount
        BY <1>1, <2>2, <3>1 DEF NoMount
      <4>2. f[n + 1] = [m |-> ms[f[n].m].par,
                        p |-> Rest(ms[ms[f[n].m].par].base, ms[f[n].m].at) \o f[n].p]
        BY <2>2, <4>1 DEF Outward
      <4> DEFINE y == f[n + 1]
                 par == ms[f[n].m].par
                 path == Rest(ms[ms[f[n].m].par].base, ms[f[n].m].at) \o f[n].p
      <4>3. y = [m |-> par, p |-> path]
        BY <4>2
      <4>4. y.m = par
        <5>. HIDE DEF y, par, path
        <5>. QED BY <4>3
      <4>. QED BY <4>4
    <3>3. f[n + 1].m + (n + 1) <= N
      BY <1>1, <2>2, <3>1, <3>2
    <3>. QED BY <2>1, <3>3
  <2>. QED BY <2>3, <2>4
<1>4. 0..N \subseteq S
  <2>. HIDE DEF S, N
  <2>. QED BY <1>1, <1>2, <1>3, Induction
<1>5. N \in 0..N
  BY <1>1
<1>6. N \in S /\ f[N].m \in 1..N
  BY <1>1, <1>4, <1>5
<1>. QED BY <1>1, <1>6

(* The path of a place is that of the mount point and what is under it.    *)
LEMMA PathUp ==
  ASSUME NEW G, NEW F, NEW ms, Table(ms, G, F), Ordered(ms), NEW at \in Places(ms), at.m # 1
  PROVE  LET below == [m |-> ms[at.m].par, p |-> ms[at.m].at]
         IN  /\ below \in Places(ms)
             /\ PathOf(ms, at) = PathOf(ms, below) \o Rest(ms[at.m].base, at.p)
<1> DEFINE N == Len(ms)
           below == [m |-> ms[at.m].par, p |-> ms[at.m].at]
           rest == Rest(ms[at.m].base, at.p)
<1>1. N \in Nat /\ DOMAIN ms = 1..N /\ at.m \in 1..N /\ at.p \in Paths
  BY TableShape DEF Places
<1>2. ms[at.m].par \in 1..(at.m - 1) /\ ms[at.m].at \in Paths /\ rest \in Paths
  BY <1>1, TableShape, RestPath DEF Ordered
<1>3. below \in Places(ms)
  BY <1>1, <1>2 DEF Places
<1>4. PICK f : Leaves(f, ms, at)
  BY PathSteps
<1>5. PICK g : Leaves(g, ms, below)
  <2>. HIDE DEF below
  <2>. QED BY <1>3, PathSteps
<1>6. f[N].m = 1 /\ g[N].m = 1
  <2>. HIDE DEF below
  <2>. QED BY <1>3, <1>4, <1>5, LeavesAtFirst
<1> DEFINE S == {n \in 0..N : n < N => f[n + 1] = [m |-> g[n].m, p |-> g[n].p \o rest]}
<1>7. 0 \in S
  <2>1. 1 \in 1..N /\ 1 - 1 = 0 /\ 0 + 1 = 1 /\ 0 \in 0..N
    BY <1>1
  <2>2. f[0] = [m |-> at.m, p |-> rest] /\ f[1] = Outward(ms, f[0])
    BY <1>4, <2>1 DEF Leaves
  <2>3. g[0] = [m |-> ms[at.m].par, p |-> Rest(ms[ms[at.m].par].base, ms[at.m].at)]
    BY <1>5 DEF Leaves
  <2>4. ms[at.m].par # NoMount
    BY <1>1, <1>2 DEF NoMount
  <2>5. f[1] = [m |-> ms[at.m].par, p |-> Rest(ms[ms[at.m].par].base, ms[at.m].at) \o rest]
    <3>. HIDE DEF rest
    <3>. QED BY <2>2, <2>4 DEF Outward
  <2>6. g[0].m = ms[at.m].par /\ g[0].p = Rest(ms[ms[at.m].par].base, ms[at.m].at)
    BY <2>3
  <2>7. f[0 + 1] = [m |-> g[0].m, p |-> g[0].p \o rest]
    <3>. HIDE DEF rest
    <3>. QED BY <2>1, <2>5, <2>6
  <2>. HIDE DEF rest
  <2>. QED BY <2>1, <2>7
<1>8. ASSUME NEW n \in 0..N, n < N, n \in S PROVE n + 1 \in S
  <2>1. n + 1 \in 1..N /\ (n + 1) - 1 = n /\ n + 1 \in 0..N
    BY <1>1, <1>8
  <2>2. SUFFICES ASSUME n + 1 < N
                 PROVE  f[(n + 1) + 1] = [m |-> g[n + 1].m, p |-> g[n + 1].p \o rest]
    BY <2>1
  <2>3. (n + 1) + 1 \in 1..N /\ ((n + 1) + 1) - 1 = n + 1
    BY <1>1, <2>2
  <2>4. f[(n + 1) + 1] = Outward(ms, f[n + 1]) /\ g[n + 1] = Outward(ms, g[n])
    BY <1>4, <1>5, <2>1, <2>3 DEF Leaves
  <2>5. f[n + 1] = [m |-> g[n].m, p |-> g[n].p \o rest]
    BY <1>8
  <2>6. g[n] \in Places(ms)
    BY <1>5 DEF Leaves
  <2>9. f[n + 1].m = g[n].m /\ f[n + 1].p = g[n].p \o rest
    <3>. HIDE DEF rest
    <3>. QED BY <2>5
  <2>7. CASE ms[g[n].m].par = NoMount
    <3>1. g[n + 1] = g[n] /\ f[(n + 1) + 1] = f[n + 1]
      BY <2>4, <2>7, <2>9 DEF Outward
    <3>. HIDE DEF rest
    <3>. QED BY <2>5, <3>1
  <2>8. CASE ms[g[n].m].par # NoMount
    <3> DEFINE step == Rest(ms[ms[g[n].m].par].base, ms[g[n].m].at)
    <3>1. g[n + 1] = [m |-> ms[g[n].m].par, p |-> step \o g[n].p]
      BY <2>4, <2>8 DEF Outward
    <3>2. f[(n + 1) + 1] = [m |-> ms[g[n].m].par, p |-> step \o (g[n].p \o rest)]
      <4>1. f[(n + 1) + 1] = [m |-> ms[f[n + 1].m].par,
                              p |-> Rest(ms[ms[f[n + 1].m].par].base, ms[f[n + 1].m].at) \o f[n + 1].p]
        BY <2>4, <2>8, <2>9 DEF Outward
      <4>. HIDE DEF rest
      <4>. QED BY <2>9, <4>1
    <3>3. step \in Paths /\ g[n].p \in Paths
      <4>1. g[n].m \in DOMAIN ms /\ ms[g[n].m].par \in DOMAIN ms
        BY <2>6, <2>8 DEF Places, Table
      <4>. QED BY <2>6, <4>1, TableShape, RestPath DEF Places
    <3>4. (step \o g[n].p) \o rest = step \o (g[n].p \o rest)
      <4> DEFINE q == g[n].p
      <4>1. step \in Seq(Names) /\ q \in Seq(Names) /\ rest \in Seq(Names)
        BY <1>2, <3>3 DEF Paths
      <4>2. (step \o q) \o rest = step \o (q \o rest)
        <5>. HIDE DEF step, rest, q
        <5>. QED BY <4>1, ConcatAssociative
      <4>. QED BY <4>2
    <3>5. g[n + 1].m = ms[g[n].m].par /\ g[n + 1].p = step \o g[n].p
      <4> DEFINE y == g[n + 1]
                 par == ms[g[n].m].par
                 path == step \o g[n].p
      <4>1. y = [m |-> par, p |-> path]
        BY <3>1
      <4>2. y.m = par /\ y.p = path
        <5>. HIDE DEF y, par, path
        <5>. QED BY <4>1
      <4>. QED BY <4>2
    <3>. HIDE DEF step, rest
    <3>. QED BY <3>2, <3>4, <3>5
  <2>. QED BY <2>7, <2>8
<1>9. 0..N \subseteq S
  <2>. HIDE DEF S, N
  <2>. QED BY <1>1, <1>7, <1>8, Induction
<1>10. N \in 1..N /\ N - 1 \in 0..N /\ N - 1 < N /\ (N - 1) + 1 = N
  BY <1>1
<1>11. N - 1 \in S
  BY <1>9, <1>10
<1>12. f[N] = [m |-> g[N - 1].m, p |-> g[N - 1].p \o rest]
  <2>. HIDE DEF rest
  <2>. QED BY <1>10, <1>11
<1>13. g[N - 1].m = 1
  BY <1>6, <1>12
<1>14. g[N] = Outward(ms, g[N - 1])
  BY <1>5, <1>10 DEF Leaves
<1>15. g[N] = g[N - 1]
  BY <1>13, <1>14 DEF Outward, Ordered
<1>16. PathOf(ms, at) = f[N].p /\ PathOf(ms, below) = g[N].p
  BY <1>4, <1>5 DEF Leaves
<1>. HIDE DEF below, rest
<1>17. PathOf(ms, at) = PathOf(ms, below) \o rest
  BY <1>12, <1>15, <1>16
<1>. QED BY <1>3, <1>17 DEF below, rest

(* The path of a place in the first mount.                                 *)
LEMMA PathInFirst ==
  ASSUME NEW G, NEW F, NEW ms, Table(ms, G, F), Ordered(ms), NEW at \in Places(ms), at.m = 1
  PROVE  PathOf(ms, at) = at.p
<1>1. ms[1].par = NoMount /\ ms[1].base = <<>> /\ at.p \in Paths
  BY DEF Ordered, Places
<1>. QED BY <1>1, ShownPath, UnderFacts

(* Places that exist in the part of the file system their mount shows.     *)
Proper(ms, x) == x \in Places(ms) /\ Under(ms[x.m].base, x.p)

LEMMA TopProper ==
  ASSUME NEW G, NEW F, NEW ms, Table(ms, G, F), NEW x, Proper(ms, x)
  PROVE  Proper(ms, Top(ms, x))
<1> DEFINE Z == {y \in Places(ms) : Proper(ms, y)}
<1>1. \A y \in Z \cap Places(ms) : Onto(ms, y) \in Z
  <2>. TAKE y \in Z \cap Places(ms)
  <2>1. \A k \in DOMAIN ms : ms[k].base \in Paths /\ Under(ms[k].base, ms[k].base)
    BY TableShape, UnderFacts
  <2>. QED BY <2>1, OntoPlace DEF Proper
<1>2. x \in Z /\ x \in Places(ms)
  BY DEF Proper
<1>3. Top(ms, x) \in Z
  <2>. HIDE DEF Z
  <2>. QED BY <1>1, <1>2, TopStays
<1>. QED BY <1>3

LEMMA DownProper ==
  ASSUME NEW G, NEW F, NEW ms, Table(ms, G, F), NEW x, Proper(ms, x), NEW a \in Names
  PROVE  /\ Proper(ms, [m |-> x.m, p |-> Append(x.p, a)])
         /\ Append(x.p, a) # ms[x.m].base
<1>1. x.m \in DOMAIN ms /\ x.p \in Paths /\ ms[x.m].base \in Paths /\ Under(ms[x.m].base, x.p)
  BY TableShape DEF Proper, Places
<1>2. /\ Append(x.p, a) \in Paths /\ Under(ms[x.m].base, Append(x.p, a))
      /\ Append(x.p, a) # ms[x.m].base
  BY <1>1, UnderFacts
<1>. QED BY <1>1, <1>2 DEF Proper, Places

(* Lookups go from such places to such places, and end on top of stacks.   *)
LEMMA LookupProper ==
  ASSUME NEW G, NEW F, NEW K, Table(K.ms, G, F), Ordered(K.ms), NEW start, Proper(K.ms, start),
         NEW path \in Paths
  PROVE  /\ Proper(K.ms, Lookup(K, start, path).at)
         /\ path = <<>> => Lookup(K, start, path).at = start
         /\ path # <<>> => MountedAt(K.ms, Lookup(K, start, path).at) = {}
<1> DEFINE ms == K.ms
           N == Len(path)
           walk == Walk(ms, start, path)
           Z == {y \in Places(ms) : Proper(ms, y)}
<1>1. N \in Nat /\ path \in [1..N -> Names] /\ start \in Places(ms) /\ path \in Seq(Names)
  BY LenProperties DEF Paths, Proper
<1>2. walk[0] = start /\ \A n \in 1..N :
         walk[n] = Top(ms, [m |-> walk[n - 1].m, p |-> Append(walk[n - 1].p, path[n])])
  BY <1>1, WalkPlaces
<1>3. Lookup(K, start, path).at = walk[N]
  BY DEF Lookup, LookupAlong
<1>. HIDE DEF walk
<1>4. ASSUME NEW n \in 1..N, walk[n - 1] \in Z
      PROVE  walk[n] \in Z /\ MountedAt(ms, walk[n]) = {}
  <2> DEFINE x == walk[n - 1]
             y == [m |-> x.m, p |-> Append(x.p, path[n])]
  <2>1. path[n] \in Names /\ Proper(ms, x)
    BY <1>1, <1>4
  <2>2. Proper(ms, y) /\ walk[n] = Top(ms, y)
    <3>1. walk[n] = Top(ms, y)
      BY <1>2
    <3>2. Proper(ms, y)
      <4>. HIDE DEF x
      <4>. QED BY <2>1, DownProper
    <3>. QED BY <3>1, <3>2
  <2>. HIDE DEF x, y
  <2>3. y \in Places(ms)
    BY <2>2 DEF Proper
  <2>4. Proper(ms, Top(ms, y)) /\ MountedAt(ms, Top(ms, y)) = {}
    BY <2>2, <2>3, TopProper, TopFree
  <2>. QED BY <2>2, <2>4 DEF Proper
<1>5. walk[0] \in Z
  BY <1>1, <1>2
<1>6. \A n \in 0..N : walk[n] \in Z
  <2>. HIDE DEF Z, N
  <2>. QED BY <1>1, <1>4, <1>5, IterationStays
<1>7. N \in 0..N
  BY <1>1
<1>8. path = <<>> => N = 0
  OBVIOUS
<1>9. path # <<>> => N \in 1..N /\ N - 1 \in 0..N
  <2>1. path # <<>> => N # 0
    BY <1>1, EmptySeq
  <2>. HIDE DEF N
  <2>. QED BY <1>1, <2>1
<1>10. path # <<>> => MountedAt(ms, walk[N]) = {}
  BY <1>4, <1>6, <1>9
<1>. QED BY <1>2, <1>3, <1>6, <1>7, <1>8, <1>10

-----------------------------------------------------------------------------
(* The stack on the rootfs.  h are the mounts the namespace was made with, *)
(* the next one is the rootfs bound onto itself, and U are the mounts that *)
(* are stacked on it, itself included.  A place is on the stack if it is   *)
(* the root of one of them, and low if it is further down.                 *)
OnStack(ms, U, x) == x.m \in U /\ x.p = ms[x.m].base

Low(ms, h, U, x) == Proper(ms, x) /\ x.m > Len(h) /\ ~OnStack(ms, U, x)

AtRootfs == [m |-> 1, p |-> RootfsPath]

Extends(ms, h) ==
  /\ Len(h) \in Nat /\ Len(h) # 0 /\ Len(h) <= Len(ms) /\ DOMAIN h = 1..Len(h)
  /\ \A k \in DOMAIN h : ms[k].par = h[k].par /\ ms[k].at = h[k].at /\ ms[k].base = h[k].base

Stack(ms, h, U) ==
  /\ Len(h) + 1 \in U /\ U \subseteq (Len(h) + 1)..Len(ms)
  /\ [m |-> ms[Len(h) + 1].par, p |-> ms[Len(h) + 1].at] = Top(h, AtRootfs)
  /\ \A k \in DOMAIN ms :
       k > Len(h) + 1 => /\ ms[k].par > Len(h)
                         /\ k \in U <=> OnStack(ms, U, [m |-> ms[k].par, p |-> ms[k].at])

(* Going up from the stack one stays on it, going up below one stays below.*)
LEMMA StackTop ==
  ASSUME NEW G, NEW F, NEW ms, Table(ms, G, F), Ordered(ms), NEW h, NEW U, Extends(ms, h),
         Stack(ms, h, U), NEW x \in Places(ms)
  PROVE  /\ OnStack(ms, U, x) => OnStack(ms, U, Top(ms, x))
         /\ Low(ms, h, U, x) => Low(ms, h, U, Top(ms, x))
<1>1. /\ Len(h) \in Nat /\ Len(ms) \in Nat /\ DOMAIN ms = 1..Len(ms)
      /\ \A k \in DOMAIN ms : ms[k].base \in Paths /\ Under(ms[k].base, ms[k].base)
      /\ U \subseteq DOMAIN ms /\ \A k \in U : k > Len(h)
  BY TableShape, UnderFacts DEF Extends, Stack
<1>2. ASSUME NEW y \in Places(ms), y.m > Len(h), NEW k \in MountedAt(ms, y)
      PROVE  /\ k \in DOMAIN ms /\ k > Len(h) + 1
             /\ k \in U <=> OnStack(ms, U, y)
  <2>1. k \in DOMAIN ms /\ ms[k].par = y.m /\ ms[k].at = y.p /\ y.m \in DOMAIN ms
    BY <1>2 DEF MountedAt, Places
  <2>2. k # 1 => ms[k].par \in 1..(k - 1)
    BY <2>1 DEF Ordered
  <2>3. k # 1
    BY <1>1, <1>2, <2>1 DEF Ordered, NoMount
  <2>4. k > Len(h) + 1
    BY <1>1, <1>2, <2>1, <2>2, <2>3
  <2>5. k \in U <=> OnStack(ms, U, [m |-> ms[k].par, p |-> ms[k].at])
    BY <2>1, <2>4 DEF Stack
  <2>6. [m |-> ms[k].par, p |-> ms[k].at] = y
    BY <2>1 DEF Places
  <2>. QED BY <2>1, <2>4, <2>5, <2>6
<1>3. ASSUME OnStack(ms, U, x) PROVE OnStack(ms, U, Top(ms, x))
  <2> DEFINE Z == {y \in Places(ms) : OnStack(ms, U, y)}
  <2>1. ASSUME NEW y \in Z PROVE Onto(ms, y) \in Z
    <3>1. y \in Places(ms) /\ OnStack(ms, U, y) /\ y.m > Len(h) /\ Onto(ms, y) \in Places(ms)
      BY <1>1, OntoPlace DEF OnStack
    <3>2. CASE MountedAt(ms, y) = {}
      BY <3>2 DEF Onto
    <3>3. CASE MountedAt(ms, y) # {}
      <4>1. PICK k \in MountedAt(ms, y) : Onto(ms, y) = [m |-> k, p |-> ms[k].base]
        BY <3>1, <3>3, OntoPlace
      <4>2. k \in U
        BY <1>2, <3>1
      <4>. QED BY <3>1, <4>1, <4>2 DEF OnStack
    <3>. QED BY <3>2, <3>3
  <2>2. Top(ms, x) \in Z
    <3>1. x \in Z
      BY <1>3
    <3>. HIDE DEF Z
    <3>. QED BY <2>1, <3>1, TopStays
  <2>. QED BY <2>2
<1>4. ASSUME Low(ms, h, U, x) PROVE Low(ms, h, U, Top(ms, x))
  <2> DEFINE Z == {y \in Places(ms) : Low(ms, h, U, y)}
  <2>1. ASSUME NEW y \in Z PROVE Onto(ms, y) \in Z
    <3>1. y \in Places(ms) /\ Low(ms, h, U, y) /\ y.m > Len(h) /\ Onto(ms, y) \in Places(ms)
      BY OntoPlace DEF Low
    <3>2. CASE MountedAt(ms, y) = {}
      BY <3>2 DEF Onto
    <3>3. CASE MountedAt(ms, y) # {}
      <4>1. PICK k \in MountedAt(ms, y) : Onto(ms, y) = [m |-> k, p |-> ms[k].base]
        BY <3>1, <3>3, OntoPlace
      <4>2. k \notin U /\ k > Len(h) + 1 /\ k \in DOMAIN ms
        BY <1>2, <3>1 DEF Low
      <4>3. Onto(ms, y).m = k /\ Onto(ms, y).p = ms[k].base /\ k > Len(h)
        BY <1>1, <4>1, <4>2
      <4>. QED BY <1>1, <3>1, <4>2, <4>3 DEF Low, OnStack, Proper
    <3>. QED BY <3>2, <3>3
  <2>2. Top(ms, x) \in Z
    <3>1. x \in Z
      BY <1>4
    <3>. HIDE DEF Z
    <3>. QED BY <2>1, <3>1, TopStays
  <2>. QED BY <2>2
<1>. QED BY <1>3, <1>4

(* One component further down one is low.                                  *)
LEMMA LowStep ==
  ASSUME NEW G, NEW F, NEW ms, Table(ms, G, F), Ordered(ms), NEW h, NEW U, Extends(ms, h),
         Stack(ms, h, U), NEW x \in Places(ms), OnStack(ms, U, x) \/ Low(ms, h, U, x),
         NEW a \in Names
  PROVE  Low(ms, h, U, Top(ms, [m |-> x.m, p |-> Append(x.p, a)]))
<1> DEFINE y == [m |-> x.m, p |-> Append(x.p, a)]
<1>1. x.m \in DOMAIN ms /\ ms[x.m].base \in Paths /\ Under(ms[x.m].base, ms[x.m].base)
  BY TableShape, UnderFacts DEF Places
<1>2. Proper(ms, x) /\ x.m > Len(h)
  <2>1. CASE OnStack(ms, U, x)
    <3>1. x.m \in (Len(h) + 1)..Len(ms) /\ Len(h) \in Nat
      BY <2>1 DEF OnStack, Stack, Extends
    <3>. QED BY <1>1, <2>1, <3>1 DEF OnStack, Proper
  <2>2. CASE Low(ms, h, U, x)
    BY <2>2 DEF Low
  <2>. QED BY <2>1, <2>2
<1>3. Proper(ms, y) /\ Append(x.p, a) # ms[x.m].base
  BY <1>2, DownProper
<1>4. Low(ms, h, U, y) /\ y \in Places(ms)
  BY <1>2, <1>3 DEF Low, OnStack, Proper
<1>. HIDE DEF y
<1>5. Low(ms, h, U, Top(ms, y))
  BY <1>4, StackTop
<1>. QED BY <1>5 DEF y

(* Every mount the namespace is made with is below its root.               *)
LEMMA AllBelowRoot ==
  ASSUME NEW G, NEW F, NEW ms, Table(ms, G, F), Ordered(ms)
  PROVE  \A k \in DOMAIN ms : k = 1 \/ k \in Below(ms, HostRoot)
<1> DEFINE N == Len(ms)
           B == Below(ms, HostRoot)
           S == {n \in 0..N : \A k \in 2..n : k \in B}
<1>1. N \in Nat /\ DOMAIN ms = 1..N
  BY TableShape
<1>2. Live(ms) = DOMAIN ms
  BY DEF Live, Ordered
<1>3. Hung(ms, HostRoot, DOMAIN ms, B) = B
  BY <1>1, <1>2, HangingWhole DEF Below
<1>4. ASSUME NEW n \in 0..N, n < N, n \in S PROVE n + 1 \in S
  <2>1. n + 1 \in 0..N /\ \A k \in 2..(n + 1) : k \in 2..n \/ k = n + 1
    BY <1>1, <1>4
  <2>2. ASSUME n + 1 \in 2..(n + 1) PROVE n + 1 \in B
    <3>1. n + 1 \in DOMAIN ms /\ n + 1 # 1 /\ (n + 1) - 1 = n
      BY <1>1, <1>4, <2>2
    <3>2. ms[n + 1].par \in 1..n /\ ms[n + 1].at \in Paths
      BY <3>1, TableShape DEF Ordered
    <3>3. ms[n + 1].par = 1 \/ ms[n + 1].par \in B
      <4>1. ms[n + 1].par = 1 \/ ms[n + 1].par \in 2..n
        BY <1>1, <3>2
      <4>. QED BY <1>4, <4>1
    <3>4. Under(<<>>, ms[n + 1].at)
      BY <3>2, UnderFacts, EmptySeq DEF Paths
    <3>5. n + 1 \in Hung(ms, HostRoot, DOMAIN ms, B)
      <4>. HIDE DEF B
      <4>. QED BY <3>1, <3>3, <3>4 DEF Hung, HostRoot
    <3>. QED BY <1>3, <3>5
  <2>. HIDE DEF B, N
  <2>. QED BY <1>4, <2>1, <2>2
<1>5. 0 \in S
  <2>1. 0 \in 0..N /\ 2..0 = {}
    BY <1>1
  <2>. QED BY <2>1
<1>6. 0..N \subseteq S
  <2>. HIDE DEF S, N
  <2>. QED BY <1>1, <1>4, <1>5, Induction
<1>7. N \in S
  BY <1>1, <1>6
<1>8. \A k \in 1..N : k = 1 \/ k \in 2..N
  BY <1>1
<1>. QED BY <1>1, <1>7, <1>8

-----------------------------------------------------------------------------
(* What the calls of the kernel keep: the kernel remains one whose mounts  *)
(* have groups in G and flags in F, and places remain places.  Without the *)
(* host's group the host sees nothing, without read-only mounts nothing is *)
(* refused as read-only.                                                   *)
Allowed(G, F) ==
  /\ G \subseteq Groups /\ Groups \ {"host"} \subseteq G
  /\ F \subseteq Attributes /\ Attributes \ {"ro"} \subseteq F

Holds(K, L, G, F) ==
  /\ KernelOK(L, G, F)
  /\ Places(K.ms) \subseteq Places(L.ms)
  /\ "host" \notin G => L.hostSaw = K.hostSaw

Keeps(K, L, G, F) ==
  /\ Holds(K, L, G, F)
  /\ "ro" \notin F /\ L.err = "EROFS" => K.err = "EROFS"
  /\ K.ms # <<>> => L.ms # <<>> /\ L.ms[1].par = K.ms[1].par

LEMMA KernelTable ==
  ASSUME NEW G, NEW F, NEW K, KernelOK(K, G, F)
  PROVE  Table(K.ms, G, F)
BY DEF KernelOK, Table

LEMMA KeepsNothing ==
  ASSUME NEW G, NEW F, NEW K, KernelOK(K, G, F)
  PROVE  Keeps(K, K, G, F)
BY DEF Keeps, Holds

LEMMA KeepsOn ==
  ASSUME NEW G, NEW F, NEW K, NEW L, NEW M, Keeps(K, L, G, F), Keeps(L, M, G, F)
  PROVE  Keeps(K, M, G, F)
BY DEF Keeps, Holds

(* A refused call leaves everything but the error as it is.                *)
LEMMA FailedKeeps ==
  ASSUME NEW G, NEW F, NEW K, KernelOK(K, G, F), NEW e, e # "EROFS"
  PROVE  Keeps(K, Failed(K, e), G, F)
<1>1. /\ Failed(K, e).ms = K.ms /\ Failed(K, e).fs = K.fs /\ Failed(K, e).err = e
      /\ Failed(K, e).hostSaw = K.hostSaw
      /\ Failed(K, e) = [ms |-> K.ms, fs |-> K.fs, hostSaw |-> K.hostSaw, err |-> e]
  BY DEF KernelOK, Failed
<1>. HIDE DEF Failed
<1>. QED BY <1>1 DEF KernelOK, Keeps, Holds

(* Refusing for lack of write permission takes a read-only mount.          *)
LEMMA ReadOnlyKeeps ==
  ASSUME NEW G, NEW F, NEW K, KernelOK(K, G, F), NEW at \in Places(K.ms),
         "ro" \in K.ms[at.m].flags
  PROVE  Keeps(K, Failed(K, "EROFS"), G, F)
<1>1. "ro" \in F
  BY KernelTable, TableShape DEF Places
<1>2. /\ Failed(K, "EROFS").ms = K.ms /\ Failed(K, "EROFS").fs = K.fs
      /\ Failed(K, "EROFS").hostSaw = K.hostSaw
      /\ Failed(K, "EROFS") = [ms |-> K.ms, fs |-> K.fs, hostSaw |-> K.hostSaw, err |-> "EROFS"]
  BY DEF KernelOK, Failed
<1>. HIDE DEF Failed
<1>. QED BY <1>1, <1>2 DEF KernelOK, Keeps, Holds

(* Changing a file system leaves the mounts alone.                         *)
LEMMA FilesKeep ==
  ASSUME NEW G, NEW F, NEW K, KernelOK(K, G, F), NEW n, NEW v
  PROVE  Keeps(K, [K EXCEPT !.fs = [@ EXCEPT ![n] = v]], G, F)
<1> DEFINE new == [K.fs EXCEPT ![n] = v]
           L == [K EXCEPT !.fs = new]
           S == Range(K.fs) \cup {v}
<1>1. K.fs \in Seq(Range(K.fs)) /\ Range(K.fs) \subseteq S
  BY DEF KernelOK
<1>2. K.fs \in Seq(S) /\ DOMAIN K.fs = 1..Len(K.fs) /\ Len(K.fs) \in Nat
  <2>. HIDE DEF S
  <2>. QED BY <1>1, SeqMonotonic, LenProperties
<1>3. new \in Seq(S) /\ DOMAIN new = 1..Len(K.fs)
  <2>1. CASE n \in 1..Len(K.fs)
    <3>1. v \in S /\ DOMAIN new = DOMAIN K.fs
      OBVIOUS
    <3>. HIDE DEF S
    <3>. QED BY <1>2, <2>1, <3>1, ExceptSeq
  <2>2. CASE n \notin 1..Len(K.fs)
    <3>1. K.fs = [k \in 1..Len(K.fs) |-> K.fs[k]]
      <4>1. K.fs \in [1..Len(K.fs) -> S]
        <5>. HIDE DEF S
        <5>. QED BY <1>2, LenProperties
      <4>. QED BY <4>1
    <3>2. new = K.fs
      BY <2>2, <3>1
    <3>. QED BY <1>2, <3>2
  <2>. QED BY <2>1, <2>2
<1>4. new \in Seq(Range(new))
  <2>1. Len(new) \in Nat /\ DOMAIN new = 1..Len(new) /\ new \in [1..Len(new) -> S]
    <3>. HIDE DEF new, S
    <3>. QED BY <1>3, LenProperties
  <2>2. new \in [1..Len(new) -> Range(new)]
    <3>. HIDE DEF new, S
    <3>. QED BY <2>1 DEF Range
  <2>. HIDE DEF new
  <2>. QED BY <2>1, <2>2, SeqDef
<1>5. /\ L.ms = K.ms /\ L.fs = new /\ L.hostSaw = K.hostSaw /\ L.err = K.err
      /\ L = [ms |-> K.ms, fs |-> new, hostSaw |-> K.hostSaw, err |-> K.err]
  <2>. HIDE DEF new
  <2>. QED BY DEF KernelOK
<1>6. Keeps(K, L, G, F)
  <2>. HIDE DEF new, L
  <2>. QED BY <1>4, <1>5 DEF KernelOK, Keeps, Holds
<1>. QED BY <1>6

LEMMA CreateBelowKeeps ==
  ASSUME NEW G, NEW F, NEW K, KernelOK(K, G, F), NEW dir \in Places(K.ms), NEW missing, NEW kind
  PROVE  Keeps(K, CreateBelow(K, dir, missing, kind), G, F)
<1> DEFINE old == FileSystem(K, dir).nodes
           new == {dir.p \o SubSeq(missing, 1, n) : n \in 1 .. Len(missing)}
           nodes == [p \in DOMAIN old \cup new |->
                        IF p \in DOMAIN old THEN old[p]
                        ELSE IF p = dir.p \o missing THEN kind ELSE "dir"]
           n == K.ms[dir.m].fs
           L == [K EXCEPT !.fs[n].nodes = nodes]
<1>1. Keeps(K, L, G, F)
  <2>1. L = [K EXCEPT !.fs = [@ EXCEPT ![n] = [K.fs[n] EXCEPT !.nodes = nodes]]]
    <3>. HIDE DEF nodes, n
    <3>. QED BY DEF KernelOK
  <2>. HIDE DEF L, nodes, n
  <2>. QED BY <2>1, FilesKeep
<1>2. CreateBelow(K, dir, missing, kind) = 
        IF Kind(K, dir) # "dir" THEN Failed(K, "ENOTDIR")
        ELSE IF "ro" \in K.ms[dir.m].flags THEN Failed(K, "EROFS")
        ELSE IF FileSystem(K, dir).type \notin {"disk", "tmpfs"} THEN Failed(K, "EPERM")
        ELSE L
  BY DEF CreateBelow
<1>3. \/ CreateBelow(K, dir, missing, kind) = Failed(K, "ENOTDIR")
      \/ CreateBelow(K, dir, missing, kind) = Failed(K, "EPERM")
      \/ CreateBelow(K, dir, missing, kind) = L
      \/ "ro" \in K.ms[dir.m].flags /\ CreateBelow(K, dir, missing, kind) = Failed(K, "EROFS")
  <2>. HIDE DEF L
  <2>. QED BY <1>2
<1>4. Keeps(K, Failed(K, "ENOTDIR"), G, F) /\ Keeps(K, Failed(K, "EPERM"), G, F)
  BY FailedKeeps
<1>. HIDE DEF L
<1>. QED BY <1>1, <1>3, <1>4, ReadOnlyKeeps

(* How far a path exists is a position on it.                              *)
LEMMA ReachedPosition ==
  ASSUME NEW K, NEW at, NEW N \in Nat
  PROVE  Reached(K, at, N) \in 0..N
<1> DEFINE Good(j) == Kind(K, at[j - 1]) = "dir" /\ Kind(K, at[j]) # "none"
           Stops(k, n) == /\ \A j \in 1..k : Good(j)
                          /\ k < n => Kind(K, at[k]) # "dir" \/ Kind(K, at[k + 1]) = "none"
           S == {n \in 0..N : \E k \in 0..n : Stops(k, n)}
<1>1. 0 \in S
  BY Z3
<1>2. ASSUME NEW n \in 0..N, n < N, n \in S PROVE n + 1 \in S
  <2>1. PICK k \in 0..n : Stops(k, n)
    BY <1>2
  <2>2. n + 1 \in 0..N /\ k \in 0..(n + 1)
    BY <1>2
  <2>3. CASE k < n
    <3>1. Stops(k, n + 1)
      BY <2>1, <2>3
    <3>. HIDE DEF Stops
    <3>. QED BY <2>2, <3>1
  <2>4. CASE k = n /\ Good(n + 1)
    <3>1. \A j \in 1..(n + 1) : Good(j)
      <4>1. \A j \in 1..n : Good(j)
        BY <2>1, <2>4
      <4>2. \A j \in 1..(n + 1) : j \in 1..n \/ j = n + 1
        OBVIOUS
      <4>. HIDE DEF Good
      <4>. QED BY <2>4, <4>1, <4>2
    <3>2. Stops(n + 1, n + 1) /\ n + 1 \in 0..(n + 1)
      BY <3>1
    <3>. HIDE DEF Stops
    <3>. QED BY <2>2, <3>2
  <2>5. CASE k = n /\ ~Good(n + 1)
    <3>1. (n + 1) - 1 = n
      OBVIOUS
    <3>2. Stops(k, n + 1)
      BY <2>1, <2>5, <3>1
    <3>. HIDE DEF Stops
    <3>. QED BY <2>2, <3>2
  <2>. QED BY <2>1, <2>3, <2>4, <2>5
<1>3. N \in S
  <2>1. 0..N \subseteq S
    <3>. HIDE DEF S
    <3>. QED BY <1>1, <1>2, Induction
  <2>. HIDE DEF S
  <2>. QED BY <2>1
<1>4. \E k \in 0..N : Stops(k, N)
  BY <1>3
<1>. QED BY <1>4 DEF Reached

(* Creating what is missing of a path keeps the mounts.                    *)
LEMMA CreateKeeps ==
  ASSUME NEW G, NEW F, NEW K, KernelOK(K, G, F), NEW start \in Places(K.ms), NEW path \in Paths,
         NEW kind
  PROVE  Keeps(K, Create(K, start, path, kind), G, F)
<1> DEFINE at == Walk(K.ms, start, path)
           n == Reached(K, at, Len(path))
<1>1. Len(path) \in Nat
  BY LenProperties DEF Paths
<1>2. n \in 0..Len(path)
  <2>. HIDE DEF at
  <2>. QED BY <1>1, ReachedPosition
<1>3. at[n] \in Places(K.ms)
  <2>. HIDE DEF n
  <2>. QED BY <1>2, KernelTable, WalkPlaces
<1>4. Create(K, start, path, kind) =
        IF n = Len(path) THEN K ELSE CreateBelow(K, at[n], SubSeq(path, n + 1, Len(path)), kind)
  BY DEF Create, CreateAlong
<1>. HIDE DEF at, n
<1>. QED BY <1>3, <1>4, CreateBelowKeeps, KeepsNothing

(* A lookup alone never fails for lack of write permission.                *)
LEMMA LookupError ==
  ASSUME NEW K, NEW start, NEW path \in Paths
  PROVE  Lookup(K, start, path).err \in {"none", "ENOENT", "ENOTDIR"}
<1> DEFINE at == Walk(K.ms, start, path)
           n == Reached(K, at, Len(path))
<1>1. Len(path) \in Nat
  BY LenProperties DEF Paths
<1>2. Lookup(K, start, path).err =
        CASE n = Len(path) -> "none"
          [] n < Len(path) /\ Kind(K, at[n]) = "dir" -> "ENOENT"
          [] OTHER -> "ENOTDIR"
  BY DEF Lookup, LookupAlong
<1>3. n \in 0..Len(path)
  <2>. HIDE DEF at
  <2>. QED BY <1>1, ReachedPosition
<1>. HIDE DEF at, n
<1>4. CASE n = Len(path)
  BY <1>1, <1>2, <1>3, <1>4
<1>5. CASE n # Len(path) /\ n < Len(path) /\ Kind(K, at[n]) = "dir"
  BY <1>2, <1>5
<1>6. CASE n # Len(path) /\ ~(n < Len(path) /\ Kind(K, at[n]) = "dir")
  BY <1>2, <1>6
<1>. QED BY <1>4, <1>5, <1>6

-----------------------------------------------------------------------------
(* A tree of mounts that may be attached: the first is put where it goes,  *)
(* the others hang from mounts that are there or come with it.             *)
Tree(tree, n, G, F) ==
  /\ tree \in Seq(MountRecords(G, F))
  /\ tree # <<>>
  /\ \A k \in DOMAIN tree : k = 1 \/ tree[k].par \in 1..(n + Len(tree)) \cup {NoMount}

(* Attaching a tree of mounts: the host sees it only through a mount in    *)
(* its group.                                                              *)
LEMMA AttachOnKeeps ==
  ASSUME NEW G, NEW F, Allowed(G, F), NEW K, KernelOK(K, G, F), NEW top \in Places(K.ms),
         NEW tree, Tree(tree, Len(K.ms), G, F)
  PROVE  Keeps(K, AttachOn(K, tree, top), G, F)
<1> DEFINE parent == K.ms[top.m]
           group(g) == IF Shared(parent) /\ g \notin {"host", "own"} THEN parent.group ELSE g
           Placed(k) == [tree[k] EXCEPT !.group = group(@),
                                       !.par = IF k = 1 THEN top.m ELSE @,
                                       !.at = IF k = 1 THEN top.p ELSE @]
           placed == [k \in DOMAIN tree |-> Placed(k)]
           new == K.ms \o placed
           saw == K.hostSaw \/ parent.group = "host"
           L == [K EXCEPT !.ms = new, !.hostSaw = saw]
           n == Len(K.ms)
<1>1. Table(K.ms, G, F) /\ top.m \in DOMAIN K.ms /\ top.p \in Paths /\ n \in Nat
      /\ DOMAIN K.ms = 1..n /\ parent.group \in G
  BY KernelTable, TableShape DEF Places
<1>2. /\ Len(tree) \in Nat /\ DOMAIN tree = 1..Len(tree)
      /\ \A k \in DOMAIN tree : tree[k] \in MountRecords(G, F)
  BY LenProperties DEF Tree
<1>3. ASSUME NEW k \in DOMAIN tree
      PROVE  Placed(k) \in MountRecords(G, F) /\ Placed(k).par \in 1..(n + Len(tree)) \cup {NoMount}
  <2>1. tree[k] \in MountRecords(G, F)
    BY <1>2
  <2>2. group(tree[k].group) \in G
    BY <1>1, <2>1 DEF MountRecords
  <2>3. (IF k = 1 THEN top.m ELSE tree[k].par) \in 1..(n + Len(tree)) \cup {NoMount}
    BY <1>1, <1>2 DEF Tree
  <2>4. (IF k = 1 THEN top.m ELSE tree[k].par) \in Nat
    BY <1>1, <1>2, <2>3 DEF NoMount
  <2>5. Placed(k) = [tree[k] EXCEPT !.group = group(tree[k].group),
                                    !.par = IF k = 1 THEN top.m ELSE tree[k].par,
                                    !.at = IF k = 1 THEN top.p ELSE tree[k].at]
    BY <2>1 DEF MountRecords
  <2>. HIDE DEF group, Placed
  <2>. QED BY <1>1, <2>1, <2>2, <2>3, <2>4, <2>5 DEF MountRecords
<1>4. placed \in Seq(MountRecords(G, F)) /\ Len(placed) = Len(tree) /\ DOMAIN placed = DOMAIN tree
  <2>1. placed \in [1..Len(tree) -> MountRecords(G, F)]
    <3>. HIDE DEF Placed
    <3>. QED BY <1>2, <1>3
  <2>. HIDE DEF placed
  <2>. QED BY <1>2, <2>1, SeqDef, LenProperties
<1>5. /\ new \in Seq(MountRecords(G, F)) /\ Len(new) = n + Len(tree)
      /\ \A k \in 1..n : new[k] = K.ms[k]
      /\ \A k \in 1..(n + Len(tree)) : k > n => new[k] = placed[k - n]
  <2>1. K.ms \in Seq(MountRecords(G, F))
    BY DEF KernelOK
  <2>. HIDE DEF placed
  <2>2. /\ new \in Seq(MountRecords(G, F)) /\ Len(new) = n + Len(placed)
        /\ \A k \in 1..n + Len(placed) : new[k] = IF k <= n THEN K.ms[k] ELSE placed[k - n]
    BY <1>4, <2>1, ConcatProperties
  <2>3. \A k \in 1..n : k \in 1..n + Len(placed) /\ k <= n
    BY <1>1, <1>2, <1>4
  <2>4. \A k \in 1..(n + Len(tree)) : k > n => ~(k <= n)
    BY <1>1, <1>2
  <2>. HIDE DEF new, parent, n, saw
  <2>5. new \in Seq(MountRecords(G, F)) /\ Len(new) = n + Len(tree)
    BY <1>4, <2>2
  <2>6. \A k \in 1..n : new[k] = K.ms[k]
    BY <2>2, <2>3
  <2>7. \A k \in 1..(n + Len(tree)) : k > n => new[k] = placed[k - n]
    BY <1>4, <2>2, <2>4
  <2>. QED BY <2>5, <2>6, <2>7
<1>6. DOMAIN new = 1..(n + Len(tree))
  <2>. HIDE DEF new, n
  <2>. QED BY <1>5, LenProperties
<1>7. ASSUME NEW k \in DOMAIN new PROVE new[k].par \in DOMAIN new \cup {NoMount}
  <2>1. CASE k \in 1..n
    <3>1. new[k] = K.ms[k] /\ K.ms[k].par \in 1..n \cup {NoMount}
      BY <1>1, <1>5, <2>1 DEF Table
    <3>. HIDE DEF new
    <3>. QED BY <1>1, <1>2, <1>6, <3>1
  <2>2. CASE k \notin 1..n
    <3>1. k > n /\ k - n \in DOMAIN tree /\ new[k] = placed[k - n]
      <4>. HIDE DEF new, placed, n
      <4>. QED BY <1>1, <1>2, <1>5, <1>6, <2>2
    <3>2. new[k].par \in 1..(n + Len(tree)) \cup {NoMount}
      <4>. HIDE DEF new, Placed, n
      <4>. QED BY <1>3, <3>1
    <3>. HIDE DEF new
    <3>. QED BY <1>6, <3>2
  <2>. QED BY <2>1, <2>2
<1>8. /\ L.ms = new /\ L.fs = K.fs /\ L.hostSaw = saw /\ L.err = K.err
      /\ L = [ms |-> new, fs |-> K.fs, hostSaw |-> saw, err |-> K.err]
  <2>. HIDE DEF new, saw
  <2>1. L = [ms |-> new, fs |-> K.fs, hostSaw |-> saw, err |-> K.err]
    <3> DEFINE M == [ms |-> new, fs |-> K.fs, hostSaw |-> K.hostSaw, err |-> K.err]
    <3>1. [K EXCEPT !.ms = new] = M
      BY DEF KernelOK
    <3>2. [M EXCEPT !.hostSaw = saw] = [ms |-> new, fs |-> K.fs, hostSaw |-> saw, err |-> K.err]
      OBVIOUS
    <3>3. L = [[K EXCEPT !.ms = new] EXCEPT !.hostSaw = saw]
      OBVIOUS
    <3>. HIDE DEF L, M
    <3>. QED BY <3>1, <3>2, <3>3
  <2>. HIDE DEF L
  <2>. QED BY <2>1
<1>9. AttachOn(K, tree, top) = L
  BY DEF AttachOn
<1>10. KernelOK(L, G, F)
  <2>1. saw \in BOOLEAN
    BY DEF KernelOK
  <2>. HIDE DEF L, new, saw
  <2>. QED BY <1>5, <1>7, <1>8, <2>1 DEF KernelOK
<1>11. Places(K.ms) \subseteq Places(L.ms)
  <2>1. DOMAIN K.ms \subseteq DOMAIN new
    <3>. HIDE DEF new, n
    <3>. QED BY <1>1, <1>2, <1>6
  <2>. HIDE DEF L, new
  <2>. QED BY <1>8, <2>1 DEF Places
<1>12. "host" \notin G => L.hostSaw = K.hostSaw
  <2>1. "host" \notin G => parent.group # "host"
    BY <1>1
  <2>2. "host" \notin G => saw = K.hostSaw
    BY <2>1 DEF KernelOK
  <2>. HIDE DEF L
  <2>. QED BY <1>8, <2>2
<1>13. K.ms # <<>> => L.ms # <<>> /\ L.ms[1].par = K.ms[1].par
  <2>1. K.ms # <<>> => 1 \in 1..n /\ new # <<>>
    <3>1. K.ms # <<>> => n # 0
      BY EmptySeq DEF KernelOK
    <3>2. Len(new) # 0 => new # <<>>
      <4>. HIDE DEF new
      <4>. QED BY EmptySeq
    <3>3. Len(new) = n + Len(tree)
      BY <1>5
    <3>. HIDE DEF new, n, parent, placed
    <3>. QED BY <1>1, <1>2, <3>1, <3>2, <3>3
  <2>. HIDE DEF L, new
  <2>. QED BY <1>5, <1>8, <2>1
<1>. HIDE DEF L
<1>. QED BY <1>8, <1>9, <1>10, <1>11, <1>12, <1>13 DEF Keeps, Holds

LEMMA AttachKeeps ==
  ASSUME NEW G, NEW F, Allowed(G, F), NEW K, KernelOK(K, G, F), NEW at \in Places(K.ms),
         NEW tree, Tree(tree, Len(K.ms), G, F)
  PROVE  Keeps(K, Attach(K, tree, at), G, F)
<1>1. Top(K.ms, at) \in Places(K.ms)
  BY KernelTable, TopPlace
<1>. QED BY <1>1, AttachOnKeeps DEF Attach

(* What the copies a bind attaches are, and that they hang from each other *)
(* as their originals do.                                                  *)
Copied(ms, src, below, n) ==
  [ms[Original(below, n)] EXCEPT !.par = CopyOf(ms, src, below, @)]

Cloned(ms, src, S, tree) ==
  /\ Cardinality(S) \in Nat /\ Len(tree) = 1 + Cardinality(S)
  /\ tree[1] = [ms[src.m] EXCEPT !.base = src.p]
  /\ \A n \in 1..Cardinality(S) :
       /\ Original(S, n) \in S /\ Rank(S, Original(S, n)) = n
       /\ tree[1 + n] = Copied(ms, src, S, n)

LEMMA TreeOfTree ==
  ASSUME NEW G, NEW F, NEW ms, Table(ms, G, F), NEW src \in Places(ms), NEW S,
         S \subseteq DOMAIN ms, \A k \in S : ms[k].par = src.m \/ ms[k].par \in S
  PROVE  Tree(TreeOf(ms, src, S), Len(ms), G, F) /\ Cloned(ms, src, S, TreeOf(ms, src, S))
<1> DEFINE n == Len(ms)
           c == Cardinality(S)
           first == [ms[src.m] EXCEPT !.base = src.p]
           copies == [j \in 1..c |-> Copied(ms, src, S, j)]
           R == MountRecords(G, F)
           tree == <<first>> \o copies
<1>1. n \in Nat /\ DOMAIN ms = 1..n /\ src.m \in DOMAIN ms /\ src.p \in Paths
      /\ \A k \in DOMAIN ms : ms[k] \in R
  BY TableShape DEF Places
<1>0. S \subseteq Nat /\ IsFiniteSet(S)
  <2>1. IsFiniteSet(DOMAIN ms)
    BY <1>1, FS_Interval
  <2>. QED BY <1>1, <2>1, FS_Subset
<1>2. /\ c \in Nat /\ \A k \in S : Rank(S, k) \in 1..c
      /\ \A j \in 1..c : Original(S, j) \in S /\ Rank(S, Original(S, j)) = j
  BY <1>0, RankOrder
<1>. HIDE DEF c
<1>3. ASSUME NEW j \in 1..c
      PROVE  CopyOf(ms, src, S, ms[Original(S, j)].par) \in 1..(n + 1 + c)
  <2> DEFINE par == ms[Original(S, j)].par
  <2>1. par = src.m \/ par \in S
    BY <1>2
  <2>2. CopyOf(ms, src, S, par) = n + 1 + (IF par = src.m THEN 0 ELSE Rank(S, par))
    BY DEF CopyOf
  <2>. HIDE DEF par, n
  <2>3. CopyOf(ms, src, S, par) \in 1..(n + 1 + c)
    BY <1>1, <1>2, <2>1, <2>2
  <2>. QED BY <2>3 DEF par
<1>4. first \in R
  BY <1>1 DEF MountRecords
<1>5. ASSUME NEW j \in 1..c
      PROVE  Copied(ms, src, S, j) \in R /\ Copied(ms, src, S, j).par \in 1..(n + 1 + c)
  <2> DEFINE o == ms[Original(S, j)]
             par == CopyOf(ms, src, S, o.par)
  <2>1. o \in R
    BY <1>1, <1>2
  <2>2. par \in 1..(n + 1 + c) /\ par \in Nat
    BY <1>1, <1>3
  <2>3. Copied(ms, src, S, j) = [o EXCEPT !.par = par]
    BY <2>1 DEF MountRecords, Copied
  <2>. HIDE DEF o, par
  <2>. QED BY <2>1, <2>2, <2>3 DEF MountRecords
<1>6. copies \in Seq(R) /\ Len(copies) = c /\ \A j \in 1..c : copies[j] = Copied(ms, src, S, j)
  <2>1. copies \in [1..c -> R]
    <3>. HIDE DEF R
    <3>. QED BY <1>2, <1>5
  <2>2. \A j \in 1..c : copies[j] = Copied(ms, src, S, j)
    OBVIOUS
  <2>. HIDE DEF copies, R
  <2>. QED BY <1>2, <2>1, <2>2, SeqDef, LenProperties
<1>7. <<first>> \in Seq(R) /\ Len(<<first>>) = 1 /\ <<first>>[1] = first
  <2>. HIDE DEF first, R
  <2>. QED BY <1>4
<1>8. /\ tree \in Seq(R) /\ Len(tree) = 1 + c
      /\ \A k \in 1..1 + c : tree[k] = IF k <= 1 THEN <<first>>[k] ELSE copies[k - 1]
  <2> DEFINE one == <<first>>
  <2>1. one \in Seq(R) /\ Len(one) = 1 /\ copies \in Seq(R) /\ Len(copies) = c
    BY <1>6, <1>7
  <2>. HIDE DEF one, copies, R
  <2>2. /\ one \o copies \in Seq(R) /\ Len(one \o copies) = Len(one) + Len(copies)
        /\ \A k \in 1..Len(one) + Len(copies) :
             (one \o copies)[k] = IF k <= Len(one) THEN one[k] ELSE copies[k - Len(one)]
    BY <2>1, ConcatProperties
  <2>3. tree = one \o copies
    BY DEF one
  <2>. HIDE DEF tree
  <2>4. /\ tree \in Seq(R) /\ Len(tree) = 1 + c
        /\ \A k \in 1..1 + c : tree[k] = IF k <= 1 THEN one[k] ELSE copies[k - 1]
    BY <2>1, <2>2, <2>3
  <2>. HIDE DEF first
  <2>. QED BY <2>4 DEF one
<1>9. tree # <<>> /\ DOMAIN tree = 1..(1 + c)
  <2>. HIDE DEF tree, R
  <2>. QED BY <1>2, <1>8, EmptySeq, LenProperties
<1>10. ASSUME NEW k \in DOMAIN tree, k # 1
       PROVE  tree[k].par \in 1..(n + Len(tree)) \cup {NoMount}
  <2>1. k - 1 \in 1..c /\ ~(k <= 1)
    BY <1>2, <1>9, <1>10
  <2>2. tree[k] = copies[k - 1]
    <3>. HIDE DEF tree, copies, first
    <3>. QED BY <1>8, <1>9, <2>1
  <2>3. tree[k].par \in 1..(n + 1 + c)
    <3>. HIDE DEF tree, copies
    <3>. QED BY <1>5, <1>6, <2>1, <2>2
  <2>. HIDE DEF tree
  <2>. QED BY <1>1, <1>2, <1>8, <2>3
<1>11. TreeOf(ms, src, S) = tree
  BY DEF TreeOf, Copied, c
<1>12. tree[1] = first /\ \A j \in 1..c : tree[1 + j] = Copied(ms, src, S, j)
  <2>1. 1 \in 1..1 + c /\ 1 <= 1
    BY <1>2
  <2>2. \A j \in 1..c : 1 + j \in 1..1 + c /\ ~(1 + j <= 1) /\ (1 + j) - 1 = j
    BY <1>2
  <2>. HIDE DEF tree, copies, first
  <2>. QED BY <1>6, <1>7, <1>8, <2>1, <2>2
<1>. HIDE DEF tree
<1>13. Tree(TreeOf(ms, src, S), n, G, F)
  BY <1>8, <1>9, <1>10, <1>11 DEF Tree
<1>14. /\ Len(TreeOf(ms, src, S)) = 1 + c
       /\ TreeOf(ms, src, S)[1] = first
       /\ \A j \in 1..c : TreeOf(ms, src, S)[1 + j] = Copied(ms, src, S, j)
  BY <1>8, <1>11, <1>12
<1>. QED BY <1>2, <1>13, <1>14 DEF c, Cloned

(* A bind copies mounts, groups and flags included.                        *)
Bindable(K) == {k \in Live(K.ms) : K.ms[k].group # "unbindable"}
ToCopy(K, src, rec) == IF rec THEN Hanging(K.ms, src, Bindable(K)) ELSE {}

LEMMA CopyClosed ==
  ASSUME NEW G, NEW F, NEW K, KernelOK(K, G, F), NEW src, NEW rec
  PROVE  /\ ToCopy(K, src, rec) \subseteq DOMAIN K.ms
         /\ \A k \in ToCopy(K, src, rec) :
               K.ms[k].par = src.m \/ K.ms[k].par \in ToCopy(K, src, rec)
<1>1. Len(K.ms) \in Nat /\ DOMAIN K.ms = 1..Len(K.ms)
  BY KernelTable, TableShape
<1>2. Bindable(K) \subseteq DOMAIN K.ms
  BY DEF Live, Bindable
<1>3. CASE rec
  BY <1>1, <1>2, <1>3, HangingClosed DEF ToCopy
<1>4. CASE ~rec
  BY <1>4 DEF ToCopy
<1>. QED BY <1>3, <1>4

LEMMA BindIs ==
  ASSUME NEW K, NEW src, NEW dst, NEW rec
  PROVE  Bind(K, src, dst, rec) =
           IF K.ms[src.m].group = "unbindable" THEN Failed(K, "EINVAL")
           ELSE IF IsDir(K, src) # IsDir(K, dst) THEN Failed(K, "ENOTDIR")
           ELSE Attach(K, TreeOf(K.ms, src, ToCopy(K, src, rec)), dst)
BY DEF Bind, ToCopy, Bindable

LEMMA BindKeeps ==
  ASSUME NEW G, NEW F, Allowed(G, F), NEW K, KernelOK(K, G, F), NEW src \in Places(K.ms),
         NEW dst \in Places(K.ms), NEW rec
  PROVE  Keeps(K, Bind(K, src, dst, rec), G, F)
<1> DEFINE tree == TreeOf(K.ms, src, ToCopy(K, src, rec))
<1>1. Tree(tree, Len(K.ms), G, F)
  BY KernelTable, CopyClosed, TreeOfTree
<1>2. Keeps(K, Attach(K, tree, dst), G, F)
  <2>. HIDE DEF tree
  <2>. QED BY <1>1, AttachKeeps
<1>3. Keeps(K, Failed(K, "EINVAL"), G, F) /\ Keeps(K, Failed(K, "ENOTDIR"), G, F)
  BY FailedKeeps
<1>. HIDE DEF tree
<1>. QED BY <1>2, <1>3, BindIs DEF tree

(* A new file system has the flags asked for.                              *)
LEMMA MountNewKeeps ==
  ASSUME NEW G, NEW F, Allowed(G, F), NEW K, KernelOK(K, G, F), NEW dst \in Places(K.ms),
         NEW type, NEW nodes, NEW flags, flags \cap Attributes \subseteq F
  PROVE  Keeps(K, MountNew(K, type, nodes, dst, flags), G, F)
<1> DEFINE system == [type |-> type, nodes |-> nodes]
           fs == Append(K.fs, system)
           L == [K EXCEPT !.fs = fs]
           mount == [par |-> NoMount, at |-> <<>>, fs |-> Len(K.fs) + 1, base |-> <<>>,
                     flags |-> flags \cap Attributes, locked |-> {}, group |-> "private",
                     live |-> TRUE]
           S == Range(K.fs) \cup {system}
<1>1. K.fs \in Seq(S) /\ Len(K.fs) \in Nat
  <2>1. K.fs \in Seq(Range(K.fs)) /\ Range(K.fs) \subseteq S
    BY DEF KernelOK
  <2>. HIDE DEF S
  <2>. QED BY <2>1, SeqMonotonic, LenProperties
<1>2. fs \in Seq(Range(fs))
  <2>1. fs \in Seq(S)
    <3>1. system \in S
      OBVIOUS
    <3>. HIDE DEF S, system
    <3>. QED BY <1>1, <3>1, AppendProperties
  <2>2. Len(fs) \in Nat /\ fs \in [1..Len(fs) -> S] /\ DOMAIN fs = 1..Len(fs)
    <3>. HIDE DEF fs, S
    <3>. QED BY <2>1, LenProperties
  <2>3. fs \in [1..Len(fs) -> Range(fs)]
    <3>. HIDE DEF fs, S
    <3>. QED BY <2>2 DEF Range
  <2>. HIDE DEF fs
  <2>. QED BY <2>2, <2>3, SeqDef
<1>3. L = [ms |-> K.ms, fs |-> fs, hostSaw |-> K.hostSaw, err |-> K.err]
  <2>. HIDE DEF fs
  <2>. QED BY DEF KernelOK
<1>4. KernelOK(L, G, F) /\ Keeps(K, L, G, F) /\ L.ms = K.ms
  <2>. HIDE DEF L, fs
  <2>. QED BY <1>2, <1>3 DEF KernelOK, Keeps, Holds
<1>5. mount \in MountRecords(G, F)
  <2>1. "private" \in G
    BY DEF Allowed, Groups
  <2>2. <<>> \in Paths
    BY DEF Paths
  <2>3. Len(K.fs) + 1 \in Nat /\ NoMount \in Nat
    BY <1>1 DEF NoMount
  <2>. QED BY <2>1, <2>2, <2>3 DEF MountRecords
<1>6. Tree(<<mount>>, Len(L.ms), G, F)
  <2>1. <<mount>> \in Seq(MountRecords(G, F)) /\ <<mount>> # <<>> /\ DOMAIN <<mount>> = {1}
    <3>. HIDE DEF mount
    <3>. QED BY <1>5
  <2>. HIDE DEF mount
  <2>. QED BY <2>1 DEF Tree
<1>7. Keeps(L, Attach(L, <<mount>>, dst), G, F)
  <2>. HIDE DEF L, mount
  <2>. QED BY <1>4, <1>6, AttachKeeps
<1>8. Keeps(K, Attach(L, <<mount>>, dst), G, F)
  <2>. HIDE DEF L, mount
  <2>. QED BY <1>4, <1>7, KeepsOn
<1>9. MountNew(K, type, nodes, dst, flags) =
        IF ~IsDir(K, dst) THEN Failed(K, "ENOTDIR") ELSE Attach(L, <<mount>>, dst)
  BY DEF MountNew
<1>. HIDE DEF L, mount
<1>. QED BY <1>8, <1>9, FailedKeeps

(* A table of mounts that differ from those of another in what may change. *)
LEMMA TableKeeps ==
  ASSUME NEW G, NEW F, NEW K, KernelOK(K, G, F), NEW ms, DOMAIN ms = DOMAIN K.ms,
         ms = [k \in DOMAIN ms |-> ms[k]],
         \A k \in DOMAIN ms : ms[k] \in MountRecords(G, F) /\ ms[k].par = K.ms[k].par
  PROVE  Keeps(K, [K EXCEPT !.ms = ms], G, F)
<1> DEFINE L == [K EXCEPT !.ms = ms]
<1>1. Len(K.ms) \in Nat /\ DOMAIN K.ms = 1..Len(K.ms) /\ K.ms \in Seq(MountRecords(G, F))
  BY KernelTable, TableShape DEF KernelOK
<1>2. ms \in Seq(MountRecords(G, F))
  <2>1. ms \in [1..Len(K.ms) -> MountRecords(G, F)]
    BY <1>1
  <2>. QED BY <1>1, <2>1, SeqDef
<1>3. L = [ms |-> ms, fs |-> K.fs, hostSaw |-> K.hostSaw, err |-> K.err]
  BY DEF KernelOK
<1>4. Places(ms) = Places(K.ms)
  BY DEF Places
<1>5. K.ms # <<>> => ms # <<>> /\ 1 \in DOMAIN ms
  <2>1. K.ms # <<>> => Len(K.ms) # 0
    BY <1>1, EmptySeq
  <2>2. DOMAIN <<>> = {}
    OBVIOUS
  <2>. QED BY <1>1, <2>1, <2>2
<1>6. \A k \in DOMAIN ms : ms[k].par \in DOMAIN ms \cup {NoMount}
  BY DEF KernelOK
<1>. HIDE DEF L
<1>. QED BY <1>2, <1>3, <1>4, <1>5, <1>6 DEF KernelOK, Keeps, Holds

(* A propagation moves mounts to groups of the container.                  *)
LEMMA SetPropagationKeeps ==
  ASSUME NEW G, NEW F, Allowed(G, F), NEW K, KernelOK(K, G, F), NEW at, NEW prop
  PROVE  Keeps(K, SetPropagation(K, at, prop), G, F)
<1> DEFINE of == {at.m} \cup (IF prop.rec THEN Below(K.ms, at) ELSE {})
           group(g) == GroupAfter(prop, g)
           New(k) == IF k \in of THEN [K.ms[k] EXCEPT !.group = group(@)] ELSE K.ms[k]
           ms == [k \in DOMAIN K.ms |-> New(k)]
<1>1. ASSUME NEW k \in DOMAIN K.ms
      PROVE  New(k) \in MountRecords(G, F) /\ New(k).par = K.ms[k].par
  <2>1. K.ms[k] \in MountRecords(G, F)
    BY KernelTable, TableShape
  <2>2. group(K.ms[k].group) \in G
    <3>1. K.ms[k].group \in G /\ {"own", "unbindable", "private"} \subseteq G
      BY <2>1 DEF Allowed, Groups, MountRecords
    <3>2. group(K.ms[k].group) \in {"own", "unbindable", "private", K.ms[k].group}
      <4>1. CASE prop.kind = "shared"
        BY <4>1 DEF GroupAfter
      <4>2. CASE prop.kind # "shared" /\ prop.kind = "unbindable"
        BY <4>2 DEF GroupAfter
      <4>3. CASE prop.kind # "shared" /\ prop.kind # "unbindable"
        BY <4>3 DEF GroupAfter
      <4>. QED BY <4>1, <4>2, <4>3
    <3>. HIDE DEF group
    <3>. QED BY <3>1, <3>2
  <2>3. New(k) = IF k \in of THEN [K.ms[k] EXCEPT !.group = group(K.ms[k].group)] ELSE K.ms[k]
    <3>. HIDE DEF group, of
    <3>. QED BY <2>1 DEF MountRecords
  <2>. HIDE DEF group, of, New
  <2>. QED BY <2>1, <2>2, <2>3 DEF MountRecords
<1>2. DOMAIN ms = DOMAIN K.ms /\ ms = [k \in DOMAIN ms |-> ms[k]] /\ \A k \in DOMAIN ms : ms[k] = New(k)
  <2>. HIDE DEF New
  <2>. QED OBVIOUS
<1>3. Keeps(K, [K EXCEPT !.ms = ms], G, F)
  <2>. HIDE DEF New, ms
  <2>. QED BY <1>1, <1>2, TableKeeps
<1>4. SetPropagation(K, at, prop) =
        IF ~MountRoot(K, at) THEN Failed(K, "EINVAL") ELSE [K EXCEPT !.ms = ms]
  BY DEF SetPropagation
<1>. HIDE DEF ms
<1>. QED BY <1>3, <1>4, FailedKeeps

(* A remount changes flags to those asked for, and is not refused for      *)
(* lack of write permission.                                               *)
LEMMA RemountKeeps ==
  ASSUME NEW G, NEW F, NEW K, KernelOK(K, G, F), NEW at \in Places(K.ms), NEW flags,
         flags \cap Attributes \subseteq F
  PROVE  /\ Keeps(K, Remount(K, at, flags), G, F)
         /\ Remount(K, at, flags).err = "EROFS" => K.err = "EROFS"
<1> DEFINE Mount1 == [K.ms[at.m] EXCEPT !.flags = flags \cap Attributes]
           ms == [K.ms EXCEPT ![at.m] = Mount1]
           L == [K EXCEPT !.ms = ms]
<1>1. at.m \in DOMAIN K.ms /\ K.ms = [k \in DOMAIN K.ms |-> K.ms[k]]
      /\ \A k \in DOMAIN K.ms : K.ms[k] \in MountRecords(G, F)
  BY KernelTable, TableShape DEF Places
<1>2. Mount1 \in MountRecords(G, F) /\ Mount1.par = K.ms[at.m].par
  BY <1>1 DEF MountRecords
<1>3. DOMAIN ms = DOMAIN K.ms /\ ms = [k \in DOMAIN ms |-> ms[k]]
      /\ \A k \in DOMAIN ms : ms[k] = IF k = at.m THEN Mount1 ELSE K.ms[k]
  <2>. HIDE DEF Mount1
  <2>. QED BY <1>1
<1>4. Keeps(K, L, G, F)
  <2>1. \A k \in DOMAIN ms : ms[k] \in MountRecords(G, F) /\ ms[k].par = K.ms[k].par
    <3>. HIDE DEF Mount1, ms
    <3>. QED BY <1>1, <1>2, <1>3
  <2>. HIDE DEF ms
  <2>. QED BY <1>3, <2>1, TableKeeps
<1>5. L = [ms |-> ms, fs |-> K.fs, hostSaw |-> K.hostSaw, err |-> K.err]
  <2>. HIDE DEF ms
  <2>. QED BY DEF KernelOK
<1>6. /\ Failed(K, "EINVAL").err = "EINVAL" /\ Keeps(K, Failed(K, "EINVAL"), G, F)
      /\ Failed(K, "EPERM").err = "EPERM" /\ Keeps(K, Failed(K, "EPERM"), G, F)
  <2>1. Failed(K, "EINVAL").err = "EINVAL" /\ Failed(K, "EPERM").err = "EPERM"
    BY DEF KernelOK, Failed
  <2>. QED BY <2>1, FailedKeeps
<1>7. Remount(K, at, flags) =
        IF ~MountRoot(K, at) THEN Failed(K, "EINVAL")
        ELSE IF ~(K.ms[at.m].locked \subseteq flags) THEN Failed(K, "EPERM")
        ELSE L
  <2>1. L = [K EXCEPT !.ms[at.m].flags = flags \cap Attributes]
    BY <1>1 DEF KernelOK
  <2>. HIDE DEF L
  <2>. QED BY <2>1 DEF Remount
<1>. HIDE DEF L
<1>. QED BY <1>4, <1>5, <1>6, <1>7

(* Where the tree of mounts changes shape.                                 *)
LEMMA TableHolds ==
  ASSUME NEW G, NEW F, NEW K, KernelOK(K, G, F), NEW ms, DOMAIN ms = DOMAIN K.ms,
         ms = [k \in DOMAIN ms |-> ms[k]],
         \A k \in DOMAIN ms : /\ ms[k] \in MountRecords(G, F)
                              /\ ms[k].par \in DOMAIN ms \cup {NoMount},
         NEW saw \in BOOLEAN, "host" \notin G => saw = K.hostSaw,
         NEW L, L = [ms |-> ms, fs |-> K.fs, hostSaw |-> saw, err |-> K.err]
  PROVE  Holds(K, L, G, F)
<1>1. Len(K.ms) \in Nat /\ DOMAIN K.ms = 1..Len(K.ms) /\ K.ms \in Seq(MountRecords(G, F))
  BY KernelTable, TableShape DEF KernelOK
<1>2. ms \in Seq(MountRecords(G, F))
  <2>1. ms \in [1..Len(K.ms) -> MountRecords(G, F)]
    BY <1>1
  <2>. QED BY <1>1, <2>1, SeqDef
<1>3. Places(ms) = Places(K.ms)
  BY DEF Places
<1>. QED BY <1>2, <1>3 DEF KernelOK, Holds

(* The calls that change the root: the mounts may move, and the parent of  *)
(* the first changes.                                                      *)
LEMMA PivotRootHolds ==
  ASSUME NEW G, NEW F, NEW K, KernelOK(K, G, F), NEW old \in Places(K.ms), NEW new \in Places(K.ms)
  PROVE  Holds(K, PivotRoot(K, old, new), G, F)
<1> DEFINE ms1 == [K.ms EXCEPT ![new.m].par = NoMount]
           ms2 == [ms1 EXCEPT ![new.m].at = <<>>]
           ms3 == [ms2 EXCEPT ![old.m].par = new.m]
           ms4 == [ms3 EXCEPT ![old.m].at = new.p]
           R == MountRecords(G, F)
           Good(ms) == /\ DOMAIN ms = DOMAIN K.ms /\ ms = [k \in DOMAIN ms |-> ms[k]]
                       /\ \A k \in DOMAIN ms : /\ ms[k] \in MountRecords(G, F)
                                               /\ ms[k].par \in DOMAIN ms \cup {NoMount}
<1>1. /\ new.m \in DOMAIN K.ms /\ new.p \in Paths /\ old.m \in DOMAIN K.ms
      /\ new.m \in Nat /\ <<>> \in Paths /\ NoMount \in Nat
  BY KernelTable, TableShape DEF Places, Paths, NoMount
<1>2. Good(K.ms)
  BY KernelTable, TableShape DEF KernelOK
<1>3. ASSUME NEW ms, Good(ms), NEW m \in DOMAIN K.ms,
             NEW v \in Nat, v \in DOMAIN K.ms \cup {NoMount}
      PROVE  Good([ms EXCEPT ![m].par = v])
  BY <1>3 DEF MountRecords
<1>4. ASSUME NEW ms, Good(ms), NEW m \in DOMAIN K.ms, NEW v \in Paths
      PROVE  Good([ms EXCEPT ![m].at = v])
  BY <1>4 DEF MountRecords
<1>. HIDE DEF Good
<1>5. Good(ms1)
  BY <1>1, <1>2, <1>3
<1>6. Good(ms2)
  <2>. HIDE DEF ms1
  <2>. QED BY <1>1, <1>4, <1>5
<1>7. Good(ms3)
  <2>. HIDE DEF ms2
  <2>. QED BY <1>1, <1>3, <1>6
<1>8. Good(ms4)
  <2>. HIDE DEF ms3
  <2>. QED BY <1>1, <1>4, <1>7
<1>9. PivotRoot(K, old, new) = [ms |-> ms4, fs |-> K.fs, hostSaw |-> K.hostSaw, err |-> K.err]
  <2>1. PivotRoot(K, old, new) = [K EXCEPT !.ms = ms4]
    <3>1. PivotRoot(K, old, new) =
            [[[[K EXCEPT !.ms[new.m].par = NoMount] EXCEPT !.ms[new.m].at = <<>>]
                EXCEPT !.ms[old.m].par = new.m] EXCEPT !.ms[old.m].at = new.p]
      BY DEF PivotRoot
    <3>2. ASSUME NEW ms
          PROVE  LET J == [ms |-> ms, fs |-> K.fs, hostSaw |-> K.hostSaw, err |-> K.err]
                 IN  /\ \A v, m : [J EXCEPT !.ms[m].par = v] =
                           [ms |-> [ms EXCEPT ![m].par = v], fs |-> K.fs,
                            hostSaw |-> K.hostSaw, err |-> K.err]
                     /\ \A v, m : [J EXCEPT !.ms[m].at = v] =
                           [ms |-> [ms EXCEPT ![m].at = v], fs |-> K.fs,
                            hostSaw |-> K.hostSaw, err |-> K.err]
      OBVIOUS
    <3>. QED BY <3>1, <3>2 DEF KernelOK
  <2>. HIDE DEF ms4
  <2>. QED BY <2>1 DEF KernelOK
<1>. HIDE DEF ms4
<1>. QED BY <1>8, <1>9, TableHolds DEF Good, KernelOK

LEMMA MoveMountHolds ==
  ASSUME NEW G, NEW F, NEW K, KernelOK(K, G, F), NEW new \in Places(K.ms), NEW dst \in Places(K.ms)
  PROVE  Holds(K, MoveMount(K, new, dst), G, F)
<1> DEFINE top == Top(K.ms, dst)
           ms1 == [K.ms EXCEPT ![new.m].par = top.m]
           ms2 == [ms1 EXCEPT ![new.m].at = top.p]
           saw == K.hostSaw \/ K.ms[top.m].group = "host"
           L == [ms |-> ms2, fs |-> K.fs, hostSaw |-> saw, err |-> K.err]
           Good(ms) == /\ DOMAIN ms = DOMAIN K.ms /\ ms = [k \in DOMAIN ms |-> ms[k]]
                       /\ \A k \in DOMAIN ms : /\ ms[k] \in MountRecords(G, F)
                                               /\ ms[k].par \in DOMAIN ms \cup {NoMount}
<1>1. top \in Places(K.ms)
  BY KernelTable, TopPlace
<1>. HIDE DEF top
<1>2. new.m \in DOMAIN K.ms /\ top.m \in DOMAIN K.ms /\ top.p \in Paths /\ top.m \in Nat
  BY <1>1, KernelTable, TableShape DEF Places
<1>3. Good(K.ms)
  BY KernelTable, TableShape DEF KernelOK
<1>4. Good(ms1)
  BY <1>2, <1>3 DEF MountRecords
<1>5. Good(ms2)
  <2>. HIDE DEF ms1
  <2>. QED BY <1>2, <1>4 DEF MountRecords
<1>6. saw \in BOOLEAN /\ ("host" \notin G => saw = K.hostSaw)
  <2>1. K.ms[top.m].group \in G /\ K.hostSaw \in BOOLEAN
    BY <1>2, KernelTable, TableShape DEF KernelOK
  <2>. QED BY <2>1
<1>7. MoveMount(K, new, dst) = L
  <2> DEFINE a == new.m
             v == top.m
             w == top.p
             first == [K EXCEPT !.ms[a].par = v]
             second == [first EXCEPT !.ms[a].at = w]
             third == [second EXCEPT !.hostSaw = saw]
  <2>1. MoveMount(K, new, dst) = third
    BY DEF MoveMount, MoveOnto, top
  <2>2. ms1 = [K.ms EXCEPT ![a].par = v] /\ ms2 = [ms1 EXCEPT ![a].at = w]
    OBVIOUS
  <2>. HIDE DEF a, v, w, ms1, ms2, saw
  <2>3. first = [ms |-> ms1, fs |-> K.fs, hostSaw |-> K.hostSaw, err |-> K.err]
    <3>1. K = [ms |-> K.ms, fs |-> K.fs, hostSaw |-> K.hostSaw, err |-> K.err]
      BY DEF KernelOK
    <3>2. first = [ms |-> [K.ms EXCEPT ![a].par = v], fs |-> K.fs, hostSaw |-> K.hostSaw, err |-> K.err]
      BY <3>1
    <3>. QED BY <2>2, <3>2
  <2>. HIDE DEF first
  <2>4. second = [ms |-> ms2, fs |-> K.fs, hostSaw |-> K.hostSaw, err |-> K.err]
    BY <2>2, <2>3
  <2>. HIDE DEF second
  <2>5. third = L
    BY <2>4
  <2>. QED BY <2>1, <2>5
<1>. HIDE DEF ms2, saw, L
<1>8. L = [ms |-> ms2, fs |-> K.fs, hostSaw |-> saw, err |-> K.err]
  BY DEF L
<1>. QED BY <1>5, <1>6, <1>7, <1>8, TableHolds

LEMMA DetachHolds ==
  ASSUME NEW G, NEW F, NEW K, KernelOK(K, G, F), NEW m \in DOMAIN K.ms
  PROVE  Holds(K, Detach(K, m), G, F)
<1> DEFINE gone == {m} \cup Below(K.ms, [m |-> m, p |-> K.ms[m].base])
           New(k) == IF k \in gone THEN [K.ms[k] EXCEPT !.live = FALSE] ELSE K.ms[k]
           ms == [k \in DOMAIN K.ms |-> New(k)]
           seen == \E k \in gone : K.ms[k].par # NoMount /\ K.ms[K.ms[k].par].group = "host"
           saw == K.hostSaw \/ seen
           L == [ms |-> ms, fs |-> K.fs, hostSaw |-> saw, err |-> K.err]
<1>1. Table(K.ms, G, F) /\ Len(K.ms) \in Nat
  BY KernelTable, TableShape
<1>2. gone \subseteq DOMAIN K.ms
  <2>1. Live(K.ms) \subseteq DOMAIN K.ms
    BY DEF Live
  <2>. QED BY <1>1, <2>1, HangingClosed DEF Below
<1>3. \A k \in DOMAIN K.ms : K.ms[k] \in MountRecords(G, F)
  BY <1>1, TableShape
<1>4. \A k \in DOMAIN K.ms : New(k) \in MountRecords(G, F) /\ New(k).par = K.ms[k].par
  <2>. HIDE DEF gone
  <2>. QED BY <1>3 DEF MountRecords
<1>5. /\ DOMAIN ms = DOMAIN K.ms /\ ms = [k \in DOMAIN ms |-> ms[k]]
      /\ \A k \in DOMAIN ms : /\ ms[k] \in MountRecords(G, F)
                              /\ ms[k].par \in DOMAIN ms \cup {NoMount}
  <2>1. DOMAIN ms = DOMAIN K.ms /\ \A k \in DOMAIN ms : ms[k] = New(k)
    <3>. HIDE DEF New
    <3>. QED OBVIOUS
  <2>2. ms = [k \in DOMAIN ms |-> ms[k]]
    <3>. HIDE DEF New
    <3>. QED OBVIOUS
  <2>. HIDE DEF New, ms
  <2>. QED BY <1>1, <1>4, <2>1, <2>2 DEF Table
<1>6. saw \in BOOLEAN /\ ("host" \notin G => saw = K.hostSaw)
  <2>1. K.hostSaw \in BOOLEAN
    BY DEF KernelOK
  <2>2. "host" \notin G => ~seen
    <3>1. ASSUME NEW k \in gone, K.ms[k].par # NoMount
          PROVE  K.ms[K.ms[k].par].group \in G
      BY <1>1, <1>2, <3>1, TableShape DEF Table
    <3>. QED BY <3>1
  <2>. HIDE DEF seen
  <2>. QED BY <2>1, <2>2
<1>7. Detach(K, m) = L
  <2>1. Detach(K, m) = [[K EXCEPT !.ms = ms] EXCEPT !.hostSaw = saw]
    BY DEF Detach
  <2>2. [K EXCEPT !.ms = ms] = [ms |-> ms, fs |-> K.fs, hostSaw |-> K.hostSaw, err |-> K.err]
    <3>. HIDE DEF ms
    <3>. QED BY DEF KernelOK
  <2>. HIDE DEF ms, saw
  <2>. QED BY <2>1, <2>2
<1>. HIDE DEF ms, saw, L
<1>8. L = [ms |-> ms, fs |-> K.fs, hostSaw |-> saw, err |-> K.err]
  BY DEF L
<1>. QED BY <1>5, <1>6, <1>7, <1>8, TableHolds

-----------------------------------------------------------------------------
(* What the helpers of container.cpp keep.                                 *)
Ready(K, G, F) ==
  Allowed(G, F) /\ KernelOK(K, G, F) /\ rootfd \in Places(K.ms) /\ procRoot \in Places(K.ms)

(* A kernel on which the helpers may go on.                                *)
LEMMA StillReady ==
  ASSUME NEW G, NEW F, NEW K, Ready(K, G, F), NEW L, Keeps(K, L, G, F)
  PROVE  Ready(L, G, F)
BY DEF Ready, Keeps, Holds

LEMMA EnsureKeeps ==
  ASSUME NEW G, NEW F, NEW K, KernelOK(K, G, F), NEW root \in Places(K.ms), NEW path \in Paths,
         NEW isDir
  PROVE  Keeps(K, Ensure(K, root, path, isDir), G, F)
<1> DEFINE e == Lookup(K, root, path).err
           kind == IF isDir THEN "dir" ELSE "file"
<1>1. e # "EROFS"
  BY LookupError
<1>2. Ensure(K, root, path, isDir) =
        IF e = "ENOENT" THEN Create(K, root, path, kind) ELSE Failed(K, e)
  BY DEF Ensure
<1>. HIDE DEF e, kind
<1>. QED BY <1>1, <1>2, CreateKeeps, FailedKeeps

LEMMA ShortSeq ==
  ASSUME NEW S, NEW a \in S, NEW b \in S, NEW c \in S
  PROVE  <<>> \in Seq(S) /\ <<a>> \in Seq(S) /\ <<a, b>> \in Seq(S) /\ <<a, b, c>> \in Seq(S)
<1>1. <<a>> \in [1..1 -> S] /\ <<a, b>> \in [1..2 -> S] /\ <<a, b, c>> \in [1..3 -> S]
  OBVIOUS
<1>2. [1..1 -> S] \subseteq Seq(S) /\ [1..2 -> S] \subseteq Seq(S) /\ [1..3 -> S] \subseteq Seq(S)
  BY SeqDef
<1>. QED BY <1>1, <1>2, EmptySeq

(* The paths that container.cpp spells out.                                *)
LEMMA NamedPaths ==
  /\ <<>> \in Paths /\ RootfsPath \in Paths /\ Cgroup \in Paths /\ PtmxPath \in Paths
  /\ ConsolePath \in Paths /\ <<"sys">> \in Paths /\ <<"dev">> \in Paths
  /\ <<"dev", "null">> \in Paths /\ <<"dev", "fd">> \in Paths
  /\ <<"dev", "pts", "0">> \in Paths /\ <<"dev", "pts", "ptmx">> \in Paths
<1>1. /\ "r" \in Names /\ "sys" \in Names /\ "fs" \in Names /\ "cgroup" \in Names
      /\ "dev" \in Names /\ "null" \in Names /\ "ptmx" \in Names /\ "fd" \in Names
      /\ "console" \in Names /\ "pts" \in Names /\ "0" \in Names
  BY NamesAssumption
<1>2. /\ \A a \in Names : <<>> \in Seq(Names) /\ <<a>> \in Seq(Names)
      /\ \A a, b \in Names : <<a, b>> \in Seq(Names)
      /\ \A a, b, c \in Names : <<a, b, c>> \in Seq(Names)
  BY ShortSeq
<1>. QED BY <1>1, <1>2 DEF Paths, RootfsPath, Cgroup, PtmxPath, ConsolePath

(* Descriptors and paths lead to places.                                   *)
LEMMA OpenedPlace ==
  ASSUME NEW G, NEW F, NEW K, Ready(K, G, F), NEW path \in Paths
  PROVE  Opened(K, path) \in Places(K.ms) /\ Lookup(K, procRoot, path).at \in Places(K.ms)
BY KernelTable, LookupPlace DEF Ready, Opened

LEMMA ByPathPlace ==
  ASSUME NEW G, NEW F, NEW K, Ready(K, G, F), NEW at \in Places(K.ms)
  PROVE  ByPath(K, at) \in Places(K.ms)
<1>1. Table(K.ms, G, F)
  BY KernelTable DEF Ready
<1>2. PathOf(K.ms, at) \in Paths
  BY <1>1, ShownPath
<1>. QED BY <1>1, <1>2, LookupPlace DEF Ready, ByPath

LEMMA DoPropagationKeeps ==
  ASSUME NEW G, NEW F, NEW K, KernelOK(K, G, F), Allowed(G, F), NEW at, NEW prop
  PROVE  Keeps(K, DoPropagation(K, at, prop), G, F)
<1>1. Keeps(K, SetPropagation(K, ByPath(K, at), prop), G, F)
  BY SetPropagationKeeps
<1>. QED BY <1>1, KeepsNothing DEF DoPropagation

(* Remounting a mount never reports a missing write permission, and makes  *)
(* a mount read-only only if asked or if it was.                           *)
LEMMA DoRemountKeeps ==
  ASSUME NEW G, NEW F, NEW K, Ready(K, G, F), Fine(K), NEW r, r.fd \in Places(K.ms),
         r.flags \cap Attributes \subseteq F
  PROVE  Keeps(K, DoRemount(K, r), G, F) /\ DoRemount(K, r).err # "EROFS"
<1> DEFINE at == ByPath(K, r.fd)
           had == K.ms[r.fd.m].flags
           kept == had \cap {"nosuid", "nodev", "noexec"}
           plain == Remount(K, at, r.flags)
           keeping == Remount(K, at, r.flags \cup kept)
           readonly == Remount(K, at, r.flags \cup kept \cup {"ro"})
           failed == Failed(K, "remount")
           Good(L) == Keeps(K, L, G, F) /\ L.err # "EROFS"
<1>1. at \in Places(K.ms) /\ had \subseteq F /\ KernelOK(K, G, F) /\ K.err # "EROFS"
  BY ByPathPlace, KernelTable, TableShape DEF Places, Ready, Fine
<1>. HIDE DEF at, had
<1>2. ASSUME NEW flags, flags \cap Attributes \subseteq F
      PROVE  Good(Remount(K, at, flags))
  BY <1>1, <1>2, RemountKeeps
<1>3. Good(failed)
  <2>1. failed.err = "remount"
    BY <1>1 DEF Failed, KernelOK
  <2>. HIDE DEF failed
  <2>. QED BY <1>1, <2>1, FailedKeeps DEF failed
<1>. HIDE DEF Good
<1>4. Good(plain) /\ Good(keeping)
  BY <1>1, <1>2
<1>5. "ro" \in had => Good(readonly)
  BY <1>1, <1>2
<1>6. DoRemount(K, r) = IF Fine(plain) THEN plain
        ELSE IF kept \subseteq r.flags THEN failed
        ELSE IF Fine(keeping) THEN keeping
        ELSE IF "ro" \in had THEN readonly
        ELSE failed
  BY DEF DoRemount, RemountAt, at, had
<1>. HIDE DEF plain, keeping, readonly, failed
<1>7. Good(DoRemount(K, r))
  BY <1>3, <1>4, <1>5, <1>6
<1>. QED BY <1>7 DEF Good

LEMMA BindOntoKeeps ==
  ASSUME NEW G, NEW F, NEW K, KernelOK(K, G, F), Allowed(G, F), NEW src \in Places(K.ms),
         NEW dst \in Places(K.ms), NEW rec
  PROVE  Keeps(K, BindOnto(K, src, dst, rec), G, F)
BY BindKeeps, FailedKeeps DEF BindOnto

(* do_bind_mount, create_destination and the fallback for sysfs.           *)
LEMMA BindAtKeeps ==
  ASSUME NEW G, NEW F, NEW K, Ready(K, G, F), NEW mount, mount.dest \in Paths,
         NEW src \in Places(K.ms)
  PROVE  Keeps(K, BindAt(K, mount, src), G, F)
<1> DEFINE made == EnsureDestination(K, mount, IsDir(K, src))
           done == BindOnto(made, src, Opened(made, mount.dest), "rec" \in mount.flags)
<1>1. Keeps(K, made, G, F)
  BY EnsureKeeps DEF EnsureDestination, Ready
<1>. HIDE DEF made
<1>2. Ready(made, G, F) /\ src \in Places(made.ms)
  BY <1>1, StillReady DEF Keeps, Holds
<1>3. Keeps(made, done, G, F)
  BY <1>2, OpenedPlace, BindOntoKeeps DEF Ready
<1>4. BindAt(K, mount, src) = IF Fine(made) THEN done ELSE made
  BY DEF BindAt, BindMade, made
<1>. HIDE DEF done
<1>. QED BY <1>1, <1>3, <1>4, KeepsOn

LEMMA DoBindMountKeeps ==
  ASSUME NEW G, NEW F, NEW K, Ready(K, G, F), NEW mount, mount.dest \in Paths,
         mount.source \in Paths
  PROVE  Keeps(K, DoBindMount(K, mount), G, F)
<1> DEFINE src == Lookup(K, procRoot, mount.source)
<1>1. src.at \in Places(K.ms) /\ src.err # "EROFS"
  BY OpenedPlace, LookupError
<1>2. DoBindMount(K, mount) =
        IF src.err # "none" THEN Failed(K, src.err) ELSE BindAt(K, mount, src.at)
  BY DEF DoBindMount
<1>. HIDE DEF src
<1>. QED BY <1>1, <1>2, FailedKeeps, BindAtKeeps DEF Ready

LEMMA BindSysKeeps ==
  ASSUME NEW G, NEW F, NEW K, Ready(K, G, F), NEW mount, mount.dest \in Paths
  PROVE  Keeps(K, BindSys(K, mount), G, F)
<1> DEFINE bound == Bind(K, Lookup(K, procRoot, <<"sys">>).at, Opened(K, mount.dest), TRUE)
           cgroup == Lookup(bound, rootfd, Cgroup)
           masked == Bind(bound, Lookup(bound, procRoot, <<"dev", "null">>).at, cgroup.at, FALSE)
<1>1. <<"sys">> \in Paths /\ <<"dev", "null">> \in Paths /\ Cgroup \in Paths
  BY NamedPaths
<1>2. Keeps(K, bound, G, F)
  BY <1>1, OpenedPlace, BindKeeps DEF Ready
<1>. HIDE DEF bound
<1>3. Ready(bound, G, F)
  BY <1>2, StillReady
<1>4. Keeps(bound, masked, G, F)
  BY <1>1, <1>3, OpenedPlace, BindKeeps DEF Ready, Opened
<1>5. BindSys(K, mount) = bound \/ BindSys(K, mount) = masked
  BY DEF BindSys, BoundSys, MaskCgroup, bound
<1>. HIDE DEF masked
<1>. QED BY <1>2, <1>4, <1>5, KeepsOn

LEMMA MountTypeKeeps ==
  ASSUME NEW G, NEW F, NEW K, Ready(K, G, F), NEW mount, mount.dest \in Paths,
         mount.flags \cap Attributes \subseteq F
  PROVE  LET made == EnsureDestination(K, mount, TRUE)
         IN  Keeps(K, made, G, F) /\ Keeps(made, MountType(K, mount), G, F)
<1> DEFINE made == EnsureDestination(K, mount, TRUE)
           new == MountNew(made, mount.type, NewNodes(mount.type), Opened(made, mount.dest),
                           mount.flags)
<1>1. Keeps(K, made, G, F)
  BY EnsureKeeps DEF EnsureDestination, Ready
<1>. HIDE DEF made
<1>2. Ready(made, G, F)
  BY <1>1, StillReady
<1>3. Keeps(made, new, G, F)
  BY <1>2, OpenedPlace, MountNewKeeps DEF Ready
<1>4. Keeps(made, BindSys(made, mount), G, F)
  BY <1>2, BindSysKeeps
<1>5. Keeps(made, Failed(made, "EPERM"), G, F) /\ Keeps(made, made, G, F)
  BY <1>2, FailedKeeps, KeepsNothing DEF Ready
<1>6. \/ MountType(K, mount) = new \/ MountType(K, mount) = BindSys(made, mount)
      \/ MountType(K, mount) = Failed(made, "EPERM") \/ MountType(K, mount) = made
  BY DEF MountType, MountMade, made
<1>. HIDE DEF new
<1>7. Keeps(made, MountType(K, mount), G, F)
  BY <1>3, <1>4, <1>5, <1>6
<1>. QED BY <1>1, <1>7 DEF made

(* A mount that may be made while the flags are in F, and what doing it    *)
(* leaves: the kernel and a remount that refers to a place there.          *)
MountFits(mount, F) ==
  /\ mount.dest \in Paths /\ mount.source \in Paths
  /\ mount.flags \subseteq Attributes \cup {"bind", "rec"}
  /\ ~IsBind(mount) => mount.flags \cap Attributes \subseteq F

Remounts(ms) == [fd: Places(ms), flags: SUBSET (Attributes \cup {"bind", "rec"})]

Did(K, r, G, F) == Keeps(K, r.kern, G, F) /\ r.later \in Seq(Remounts(r.kern.ms))

(* do_mount: what it keeps, and that it puts off only remounts of places.  *)
LEMMA OnlyDid ==
  ASSUME NEW G, NEW F, NEW K, NEW L, Keeps(K, L, G, F)
  PROVE  Did(K, Only(L), G, F)
<1>1. Only(L).kern = L /\ Only(L).later = <<>>
  BY DEF Only
<1>2. <<>> \in Seq(Remounts(L.ms))
  BY EmptySeq
<1>. HIDE DEF Only
<1>. QED BY <1>1, <1>2 DEF Did

LEMMA FinishDid ==
  ASSUME NEW G, NEW F, NEW K, Ready(K, G, F), NEW done, Keeps(K, done, G, F),
         NEW mount, MountFits(mount, F)
  PROVE  Did(K, Finish(K, mount, done), G, F)
<1> DEFINE fd == Opened(IF OpenAfter(mount) THEN done ELSE K, mount.dest)
           k == IF Fine(done) THEN DoPropagation(done, fd, mount.prop) ELSE done
           m == [kern |-> k, fd |-> fd]
           remount == [fd |-> fd, flags |-> mount.flags]
           now == DoRemount(k, remount)
           result == Finish(K, mount, done)
<1>1. Ready(done, G, F) /\ Places(K.ms) \subseteq Places(done.ms)
  BY StillReady DEF Keeps, Holds
<1>2. fd \in Places(done.ms)
  <2>1. Opened(done, mount.dest) \in Places(done.ms) /\ Opened(K, mount.dest) \in Places(K.ms)
    BY <1>1, OpenedPlace DEF MountFits
  <2>. QED BY <1>1, <2>1
<1>. HIDE DEF fd
<1>3. Keeps(done, k, G, F)
  BY <1>1, DoPropagationKeeps, KeepsNothing DEF Ready
<1>. HIDE DEF k
<1>4. Ready(k, G, F) /\ fd \in Places(k.ms) /\ Keeps(K, k, G, F)
  BY <1>1, <1>2, <1>3, StillReady, KeepsOn DEF Keeps, Holds
<1>5. result = IF ~Fine(k) \/ ~NeedsRemount(mount) THEN [kern |-> k, later |-> <<>>]
               ELSE IF "ro" \in mount.flags THEN [kern |-> k, later |-> <<remount>>]
               ELSE [kern |-> now, later |-> <<>>]
  BY DEF Finish, RemountOrWait, Mounted, Propagated, fd, k
<1>. HIDE DEF result
<1>6. remount \in Remounts(k.ms)
  BY <1>4 DEF MountFits, Remounts
<1>7. <<remount>> \in Seq(Remounts(k.ms)) /\ <<>> \in Seq(Remounts(k.ms))
      /\ <<>> \in Seq(Remounts(now.ms))
  <2>. HIDE DEF remount, now
  <2>. QED BY <1>6, ShortSeq, EmptySeq
<1>8. Fine(k) /\ "ro" \notin mount.flags => Keeps(K, now, G, F)
  <2>. SUFFICES ASSUME Fine(k), "ro" \notin mount.flags PROVE Keeps(K, now, G, F)
    OBVIOUS
  <2>1. remount.fd \in Places(k.ms) /\ remount.flags \cap Attributes \subseteq F
    BY <1>4 DEF Ready, Allowed
  <2>. HIDE DEF remount
  <2>2. Keeps(k, now, G, F)
    BY <1>4, <2>1, DoRemountKeeps
  <2>. QED BY <1>4, <2>2, KeepsOn
<1>. HIDE DEF remount, now
<1>9. CASE ~Fine(k) \/ ~NeedsRemount(mount)
  <2>1. result.kern = k /\ result.later = <<>>
    BY <1>5, <1>9
  <2>. QED BY <1>4, <1>7, <2>1 DEF Did, result
<1>10. CASE Fine(k) /\ NeedsRemount(mount) /\ "ro" \in mount.flags
  <2>1. result.kern = k /\ result.later = <<remount>>
    BY <1>5, <1>10
  <2>. QED BY <1>4, <1>7, <2>1 DEF Did, result
<1>11. CASE Fine(k) /\ NeedsRemount(mount) /\ "ro" \notin mount.flags
  <2>1. result.kern = now /\ result.later = <<>>
    BY <1>5, <1>11
  <2>. QED BY <1>7, <1>8, <1>11, <2>1 DEF Did, result
<1>. QED BY <1>9, <1>10, <1>11

LEMMA DidOn ==
  ASSUME NEW G, NEW F, NEW K, NEW L, Keeps(K, L, G, F), NEW r, Did(L, r, G, F)
  PROVE  Did(K, r, G, F)
BY KeepsOn DEF Did

(* do_mount.                                                               *)
LEMMA DoMountDid ==
  ASSUME NEW G, NEW F, NEW K, Ready(K, G, F), NEW mount, MountFits(mount, F)
  PROVE  Did(K, DoMount(K, mount), G, F)
<1>1. CASE IsCgroup(mount)
  <2> DEFINE k == IF mount.dest = Cgroup /\ sysRbind THEN K
                  ELSE Failed(K, "cgroup mount not implemented")
  <2>1. Keeps(K, k, G, F)
    BY KeepsNothing, FailedKeeps DEF Ready
  <2>2. DoMount(K, mount) = Only(k)
    BY <1>1 DEF DoMount, Only
  <2>. HIDE DEF k
  <2>. QED BY <2>1, <2>2, OnlyDid
<1>2. CASE ~IsCgroup(mount) /\ IsBind(mount)
  <2>1. Keeps(K, DoBindMount(K, mount), G, F)
    BY DoBindMountKeeps DEF MountFits
  <2>2. DoMount(K, mount) = Finish(K, mount, DoBindMount(K, mount))
    BY <1>2 DEF DoMount
  <2>. QED BY <2>1, <2>2, FinishDid
<1>3. CASE ~IsCgroup(mount) /\ ~IsBind(mount)
  <2> DEFINE made == EnsureDestination(K, mount, TRUE)
  <2>1. Keeps(K, made, G, F) /\ Keeps(made, MountType(K, mount), G, F)
    BY <1>3, MountTypeKeeps DEF MountFits
  <2>2. DoMount(K, mount) = Finish(made, mount, MountType(K, mount))
    BY <1>3 DEF DoMount
  <2>. HIDE DEF made
  <2>3. Did(made, DoMount(K, mount), G, F)
    BY <2>1, <2>2, StillReady, FinishDid
  <2>. QED BY <2>1, <2>3, DidOn
<1>. QED BY <1>1, <1>2, <1>3

LEMMA CopySymlinkKeeps ==
  ASSUME NEW G, NEW F, NEW K, Ready(K, G, F), NEW mount, mount.dest \in Paths
  PROVE  Keeps(K, CopySymlink(K, mount), G, F)
<1>1. /\ Keeps(K, Create(K, rootfd, mount.dest, "link"), G, F) /\ Keeps(K, K, G, F)
      /\ Keeps(K, Failed(K, "EEXIST"), G, F)
  BY CreateKeeps, KeepsNothing, FailedKeeps DEF Ready
<1> DEFINE found == Lookup(K, rootfd, mount.dest)
<1>2. CopySymlink(K, mount) =
        CASE found.err = "ENOENT" -> Create(K, rootfd, mount.dest, "link")
          [] found.err = "none" /\ Kind(K, found.at) = "link" -> K
          [] OTHER -> Failed(K, "EEXIST")
  BY DEF CopySymlink
<1>. HIDE DEF found
<1>3. CASE found.err = "ENOENT"
  BY <1>1, <1>2, <1>3
<1>4. CASE found.err # "ENOENT" /\ found.err = "none" /\ Kind(K, found.at) = "link"
  BY <1>1, <1>2, <1>4
<1>5. CASE found.err # "ENOENT" /\ ~(found.err = "none" /\ Kind(K, found.at) = "link")
  BY <1>1, <1>2, <1>5
<1>. QED BY <1>3, <1>4, <1>5

(* make_path_masked.                                                       *)
LEMMA MaskDid ==
  ASSUME NEW G, NEW K, Ready(K, G, Attributes), NEW path \in Paths
  PROVE  Did(K, Mask(K, path, Lookup(K, rootfd, path)), G, Attributes)
<1> DEFINE found == Lookup(K, rootfd, path)
           mount == MaskMount(path, IsDir(K, found.at))
           F == Attributes
<1>1. MountFits(mount, F)
  BY NamedPaths DEF MountFits, MaskMount, Attributes
<1>2. Did(K, DoMount(K, mount), G, F)
  <2>. HIDE DEF mount
  <2>. QED BY <1>1, DoMountDid
<1>3. Did(K, Only(K), G, F)
  BY KeepsNothing, OnlyDid DEF Ready
<1>4. found.err # "EROFS" => Did(K, Only(Failed(K, found.err)), G, F)
  BY FailedKeeps, OnlyDid DEF Ready
<1>5. found.err # "EROFS"
  BY LookupError
<1>6. Mask(K, path, found) = CASE found.err = "none" -> DoMount(K, mount)
                              [] found.err = "ENOENT" -> Only(K)
                              [] OTHER -> Only(Failed(K, found.err))
  BY DEF Mask
<1>. HIDE DEF found, mount
<1>7. CASE found.err = "none"
  BY <1>2, <1>6, <1>7 DEF found
<1>8. CASE found.err = "ENOENT"
  BY <1>3, <1>6, <1>8 DEF found
<1>9. CASE found.err \notin {"none", "ENOENT"}
  <2>1. Mask(K, path, found) = Only(Failed(K, found.err))
    BY <1>6, <1>9
  <2>. QED BY <1>4, <1>5, <2>1 DEF found
<1>. QED BY <1>7, <1>8, <1>9

(* make_path_readonly.                                                     *)
LEMMA MakeReadonlyDid ==
  ASSUME NEW G, NEW F, NEW K, Ready(K, G, F), NEW path \in Paths
  PROVE  Did(K, MakeReadonly(K, path, Lookup(K, rootfd, path)), G, F)
<1> DEFINE found == Lookup(K, rootfd, path)
           mount == ReadonlyMount(path, K.ms[found.at.m].flags)
<1>1. found.at \in Places(K.ms) /\ found.err # "EROFS"
  BY KernelTable, LookupPlace, LookupError DEF Ready
<1>2. mount.dest \in Paths /\ MountFits(mount, F)
  <2>1. K.ms[found.at.m].flags \subseteq Attributes
    BY <1>1, KernelTable, TableShape DEF Ready, Places, Allowed
  <2>. HIDE DEF found
  <2>. QED BY <2>1 DEF MountFits, ReadonlyMount, IsBind, Attributes
<1>3. Did(K, Finish(K, mount, BindAt(K, mount, found.at)), G, F)
  <2>. HIDE DEF mount, found
  <2>. QED BY <1>1, <1>2, BindAtKeeps, FinishDid
<1>4. Did(K, Only(K), G, F)
  BY KeepsNothing, OnlyDid DEF Ready
<1>5. Did(K, Only(Failed(K, found.err)), G, F)
  <2>. HIDE DEF found
  <2>. QED BY <1>1, FailedKeeps, OnlyDid DEF Ready
<1>6. MakeReadonly(K, path, found) =
        CASE found.err = "none" -> Finish(K, mount, BindAt(K, mount, found.at))
          [] found.err = "ENOENT" -> Only(K)
          [] OTHER -> Only(Failed(K, found.err))
  BY DEF MakeReadonly
<1>. HIDE DEF found, mount
<1>7. CASE found.err = "none"
  BY <1>3, <1>6, <1>7 DEF found
<1>8. CASE found.err = "ENOENT"
  BY <1>4, <1>6, <1>8 DEF found
<1>9. CASE found.err \notin {"none", "ENOENT"}
  <2>1. MakeReadonly(K, path, found) = Only(Failed(K, found.err))
    BY <1>6, <1>9
  <2>. QED BY <1>5, <2>1 DEF found
<1>. QED BY <1>7, <1>8, <1>9

(* create_default_devices and the rest of /dev.                            *)
LEMMA CreateDeviceKeeps ==
  ASSUME NEW G, NEW F, NEW K, Ready(K, G, F), NEW name \in Names
  PROVE  Keeps(K, CreateDevice(K, name), G, F)
<1> DEFINE path == <<"dev", name>>
           dev == Lookup(K, rootfd, <<"dev">>)
           found == Lookup(K, rootfd, path)
           made == Create(K, rootfd, path, "chr")
           bound == DoMount(K, DeviceMount(path)).kern
           result == CreateDevice(K, name)
<1>1. path \in Paths /\ <<"dev">> \in Paths
  <2>1. "dev" \in Names
    BY NamesAssumption
  <2>. QED BY <2>1, ShortSeq, NamedPaths DEF Paths
<1>. HIDE DEF path
<1>2. Keeps(K, made, G, F) /\ Keeps(K, K, G, F)
  BY <1>1, CreateKeeps, KeepsNothing DEF Ready
<1>3. Keeps(K, bound, G, F)
  <2>1. MountFits(DeviceMount(path), F)
    BY <1>1 DEF MountFits, DeviceMount, IsBind, Attributes
  <2>. QED BY <2>1, DoMountDid DEF Did
<1>4. Keeps(K, Failed(K, dev.err), G, F) /\ Keeps(K, Failed(K, found.err), G, F)
  <2>1. dev.err # "EROFS" /\ found.err # "EROFS"
    BY <1>1, LookupError
  <2>. HIDE DEF dev, found
  <2>. QED BY <2>1, FailedKeeps DEF Ready
<1>. HIDE DEF made, bound
<1>5. MakeDevice(K, path, made) = bound \/ MakeDevice(K, path, made) = made
      \/ MakeDevice(K, path, made) = K
  BY DEF MakeDevice, bound
<1>6. \/ result = Failed(K, dev.err) \/ result = Failed(K, found.err)
      \/ result = K \/ result = MakeDevice(K, path, made)
  BY DEF CreateDevice, path, made
<1>. HIDE DEF dev, found, result
<1>. QED BY <1>2, <1>3, <1>4, <1>5, <1>6 DEF result

LEMMA PtmxKeeps ==
  ASSUME NEW G, NEW F, NEW K, Ready(K, G, F)
  PROVE  Keeps(K, Ptmx(K, Lookup(K, rootfd, PtmxPath)), G, F)
<1> DEFINE found == Lookup(K, rootfd, PtmxPath)
           kind == Kind(K, found.at)
           made == Create(K, rootfd, PtmxPath, "link")
           bound == DoMount(K, PtmxMount).kern
           odd == Failed(K, "invalid /dev/ptmx type")
           failed == Failed(K, found.err)
           result == Ptmx(K, found)
<1>1. Keeps(K, made, G, F) /\ Keeps(K, K, G, F) /\ Keeps(K, odd, G, F)
  BY NamedPaths, CreateKeeps, KeepsNothing, FailedKeeps DEF Ready
<1>2. Keeps(K, bound, G, F)
  <2>1. MountFits(PtmxMount, F)
    <3>1. RootfsPath \o <<"dev", "pts", "ptmx">> \in Paths
      BY NamedPaths, JoinedPath
    <3>. QED BY <3>1, NamedPaths DEF MountFits, PtmxMount, DeviceMount, IsBind, Attributes
  <2>. QED BY <2>1, DoMountDid DEF Did
<1>3. Keeps(K, failed, G, F) /\ found.at \in Places(K.ms)
  <2>1. found.err # "EROFS" /\ found.at \in Places(K.ms)
    BY NamedPaths, KernelTable, LookupError, LookupPlace DEF Ready
  <2>. HIDE DEF found
  <2>. QED BY <2>1, FailedKeeps DEF Ready
<1>4. Keeps(K, ReplaceLink(K), G, F)
  <2> DEFINE at == found.at
             n == K.ms[at.m].fs
             v == [K.fs[n] EXCEPT !.nodes[at.p] = "link"]
             L == [K EXCEPT !.fs[n].nodes[at.p] = "link"]
  <2>1. Keeps(K, L, G, F)
    <3>1. L = [K EXCEPT !.fs = [@ EXCEPT ![n] = v]]
      <4>. HIDE DEF n, at
      <4>. QED BY DEF Ready, KernelOK
    <3>. HIDE DEF L, v, n
    <3>. QED BY <3>1, FilesKeep DEF Ready
  <2>2. "ro" \in K.ms[at.m].flags => Keeps(K, Failed(K, "EROFS"), G, F)
    <3>. HIDE DEF found
    <3>. QED BY <1>3, ReadOnlyKeeps DEF Ready
  <2>3. ReplaceLink(K) = IF "ro" \in K.ms[at.m].flags THEN Failed(K, "EROFS") ELSE L
    BY DEF ReplaceLink
  <2>. HIDE DEF L, at
  <2>. QED BY <2>1, <2>2, <2>3
<1>5. \/ result = made \/ result = failed \/ result = bound
      \/ result = K \/ result = ReplaceLink(K) \/ result = odd
  <2> DEFINE there == CASE kind = "file" -> bound
                        [] kind = "link" -> K
                        [] kind = "other link" -> ReplaceLink(K)
                        [] OTHER -> odd
  <2>1. result = IF found.err = "ENOENT" THEN made
                 ELSE IF found.err # "none" THEN failed ELSE there
    BY DEF Ptmx
  <2>2. there = bound \/ there = K \/ there = ReplaceLink(K) \/ there = odd
    <3>. HIDE DEF made, bound, odd, failed, result, kind, found
    <3>1. CASE kind = "file"
      BY <3>1
    <3>2. CASE kind = "link"
      BY <3>2
    <3>3. CASE kind = "other link"
      BY <3>3
    <3>4. CASE kind \notin {"file", "link", "other link"}
      BY <3>4
    <3>. QED BY <3>1, <3>2, <3>3, <3>4
  <2>. HIDE DEF made, bound, odd, failed, result, found, there
  <2>. QED BY <2>1, <2>2
<1>. HIDE DEF made, bound, odd, failed, result
<1>. QED BY <1>1, <1>2, <1>3, <1>4, <1>5 DEF result

(* configure_terminal.                                                     *)
LEMMA ClearConsoleKeeps ==
  ASSUME NEW G, NEW F, NEW K, Ready(K, G, F)
  PROVE  Keeps(K, ClearConsole(K, Lookup(K, procRoot, ConsolePath)), G, F)
<1> DEFINE console == Lookup(K, procRoot, ConsolePath)
           at == console.at
           failed == Failed(K, console.err)
<1>1. console.err # "EROFS" /\ at \in Places(K.ms)
  BY NamedPaths, KernelTable, LookupError, LookupPlace DEF Ready
<1>. HIDE DEF console
<1>2. Keeps(K, failed, G, F) /\ Keeps(K, K, G, F)
  BY <1>1, FailedKeeps, KeepsNothing DEF Ready
<1>3. Keeps(K, RemoveLink(K, at), G, F)
  <2> DEFINE n == K.ms[at.m].fs
             nodes == [p \in DOMAIN K.fs[n].nodes \ {at.p} |-> K.fs[n].nodes[p]]
             v == [K.fs[n] EXCEPT !.nodes = nodes]
             L == [K EXCEPT !.fs[n].nodes = nodes]
  <2>1. Keeps(K, L, G, F)
    <3>1. L = [K EXCEPT !.fs = [@ EXCEPT ![n] = v]]
      <4>. HIDE DEF n, nodes
      <4>. QED BY DEF Ready, KernelOK
    <3>. HIDE DEF L, v, n
    <3>. QED BY <3>1, FilesKeep DEF Ready
  <2>2. "ro" \in K.ms[at.m].flags => Keeps(K, Failed(K, "EROFS"), G, F)
    <3>. HIDE DEF at
    <3>. QED BY <1>1, ReadOnlyKeeps DEF Ready
  <2>3. RemoveLink(K, at) = IF "ro" \in K.ms[at.m].flags THEN Failed(K, "EROFS") ELSE L
    BY DEF RemoveLink
  <2>. HIDE DEF L, at
  <2>. QED BY <2>1, <2>2, <2>3
<1>4. \/ ClearConsole(K, console) = RemoveLink(K, at)
      \/ ClearConsole(K, console) = K \/ ClearConsole(K, console) = failed
  BY DEF ClearConsole
<1>. HIDE DEF failed, at
<1>. QED BY <1>2, <1>3, <1>4 DEF console

LEMMA BindSlaveKeeps ==
  ASSUME NEW G, NEW F, NEW K, Ready(K, G, F), NEW slave, slave.at \in Places(K.ms)
  PROVE  Keeps(K, BindSlave(K, slave), G, F)
<1> DEFINE made == Ensure(K, procRoot, ConsolePath, FALSE)
           done == BindOnto(made, slave.at, Lookup(made, procRoot, ConsolePath).at, FALSE)
           failed == Failed(K, "no pty")
<1>1. Keeps(K, made, G, F)
  BY NamedPaths, EnsureKeeps DEF Ready
<1>2. Keeps(K, failed, G, F) /\ Keeps(K, K, G, F)
  BY FailedKeeps, KeepsNothing DEF Ready
<1>. HIDE DEF made
<1>3. Ready(made, G, F) /\ slave.at \in Places(made.ms)
  BY <1>1, StillReady DEF Keeps, Holds
<1>4. Keeps(made, done, G, F)
  BY <1>3, NamedPaths, OpenedPlace, BindOntoKeeps DEF Ready
<1>5. Keeps(K, done, G, F)
  <2>. HIDE DEF done
  <2>. QED BY <1>1, <1>4, KeepsOn
<1>6. \/ BindSlave(K, slave) = K \/ BindSlave(K, slave) = failed
      \/ BindSlave(K, slave) = made \/ BindSlave(K, slave) = done
  BY DEF BindSlave, BindConsoleMade, made
<1>. HIDE DEF done, failed
<1>. QED BY <1>1, <1>2, <1>5, <1>6

-----------------------------------------------------------------------------
(* A lookup by name never ends at the root of the namespace.               *)
LEMMA NotHostRoot ==
  ASSUME NEW G, NEW F, NEW K, Table(K.ms, G, F), K.ms # <<>>, K.ms[1].par = NoMount
  PROVE  Lookup(K, HostRoot, RootfsPath).at # HostRoot
<1> DEFINE at == Walk(K.ms, HostRoot, RootfsPath)
           below == [m |-> 1, p |-> <<"r">>]
<1>1. Len(RootfsPath) = 1 /\ RootfsPath[1] = "r" /\ RootfsPath \in Paths /\ <<"r">> \in Paths
  BY NamedPaths DEF RootfsPath
<1>2. 1 \in DOMAIN K.ms
  <2>1. K.ms \in Seq(MountRecords(G, F)) /\ DOMAIN K.ms = 1..Len(K.ms) /\ Len(K.ms) \in Nat
    BY TableShape DEF Table
  <2>. QED BY <2>1, EmptySeq
<1>3. HostRoot \in Places(K.ms) /\ HostRoot.m = 1 /\ HostRoot.p = <<>>
  BY <1>2, NamedPaths DEF HostRoot, Places
<1>4. at[0] = HostRoot /\ at[1] = Top(K.ms, [m |-> at[0].m, p |-> Append(at[0].p, RootfsPath[1])])
  <2>1. 1 \in 1..Len(RootfsPath) /\ 1 - 1 = 0
    BY <1>1
  <2>. HIDE DEF at
  <2>. QED BY <1>1, <1>3, <2>1, WalkPlaces DEF at
<1>5. at[1] = Top(K.ms, below)
  <2>1. Append(<<>>, "r") = <<"r">>
    OBVIOUS
  <2>. HIDE DEF at
  <2>. QED BY <1>1, <1>3, <1>4, <2>1
<1>6. below \in Places(K.ms)
  BY <1>1, <1>2 DEF Places
<1>7. at[1] = below \/ K.ms[at[1].m].par # NoMount
  <2>. HIDE DEF at, below
  <2>. QED BY <1>5, <1>6, TopPlace
<1>8. Lookup(K, HostRoot, RootfsPath).at = at[1]
  BY <1>1 DEF Lookup, LookupAlong
<1>9. below # HostRoot
  <2>1. <<"r">> # <<>>
    OBVIOUS
  <2>. QED BY <2>1 DEF HostRoot
<1>. HIDE DEF at, below
<1>. QED BY <1>3, <1>7, <1>8, <1>9

-----------------------------------------------------------------------------
(* The host's mounts, and how they leave its groups.                       *)
LEMMA Widen ==
  ASSUME NEW G, NEW F, NEW K, KernelOK(K, G, F), NEW G2, G \subseteq G2, NEW F2,
         \A k \in DOMAIN K.ms : K.ms[k].flags \subseteq F2
  PROVE  KernelOK(K, G2, F2)
<1>1. /\ Len(K.ms) \in Nat /\ DOMAIN K.ms = 1..Len(K.ms) /\ K.ms = [k \in DOMAIN K.ms |-> K.ms[k]]
      /\ \A k \in DOMAIN K.ms : K.ms[k] \in MountRecords(G, F)
  BY KernelTable, TableShape
<1>2. \A k \in DOMAIN K.ms : K.ms[k] \in MountRecords(G2, F2)
  BY <1>1 DEF MountRecords
<1>3. K.ms \in Seq(MountRecords(G2, F2))
  <2>1. K.ms \in [1..Len(K.ms) -> MountRecords(G2, F2)]
    BY <1>1, <1>2
  <2>. QED BY <1>1, <2>1, SeqDef
<1>. QED BY <1>3 DEF KernelOK

(* The root of the process names the first mount.                          *)
LEMMA AtRoot ==
  ASSUME NEW G, NEW F, NEW K, Table(K.ms, G, F), K.ms # <<>>, K.ms[1].par = NoMount,
         K.ms[1].base = <<>>, procRoot = HostRoot
  PROVE  HostRoot \in Places(K.ms) /\ ByPath(K, HostRoot) = HostRoot
<1>1. 1 \in DOMAIN K.ms
  <2>1. K.ms \in Seq(MountRecords(G, F)) /\ DOMAIN K.ms = 1..Len(K.ms) /\ Len(K.ms) \in Nat
    BY TableShape DEF Table
  <2>. QED BY <2>1, EmptySeq
<1>2. HostRoot \in Places(K.ms) /\ HostRoot.m = 1 /\ HostRoot.p = <<>>
  BY <1>1, NamedPaths DEF HostRoot, Places
<1>3. PathOf(K.ms, HostRoot) = <<>>
  <2>1. Rest(<<>>, <<>>) = <<>>
    BY DEF Rest
  <2>. QED BY <1>2, <2>1, ShownPath
<1>4. Walk(K.ms, HostRoot, <<>>)[0] = HostRoot
  BY <1>2, NamedPaths, WalkPlaces
<1>5. Len(<<>>) = 0
  OBVIOUS
<1>. QED BY <1>2, <1>3, <1>4, <1>5 DEF ByPath, Lookup, LookupAlong

(* A recursive propagation on the root reaches every mount the namespace   *)
(* was made with.                                                          *)
LEMMA HostLeft ==
  ASSUME NEW F, NEW K, KernelOK(K, Groups, F), K.ms # <<>>, K.ms[1].par = NoMount,
         K.ms[1].base = <<>>, procRoot = HostRoot,
         \A k \in DOMAIN K.ms : k = 1 \/ k \in Below(K.ms, HostRoot),
         NEW prop, prop.rec, prop.kind # "shared"
  PROVE  /\ KernelOK(DoPropagation(K, HostRoot, prop), Groups \ {"host"}, F)
         /\ DoPropagation(K, HostRoot, prop).hostSaw = K.hostSaw
<1> DEFINE of == {HostRoot.m} \cup (IF prop.rec THEN Below(K.ms, HostRoot) ELSE {})
           New(k) == IF k \in of THEN [K.ms[k] EXCEPT !.group = GroupAfter(prop, @)] ELSE K.ms[k]
           ms == [k \in DOMAIN K.ms |-> New(k)]
           G == Groups \ {"host"}
           L == [K EXCEPT !.ms = ms]
<1>1. Table(K.ms, Groups, F)
  BY KernelTable
<1>2. ASSUME NEW k \in DOMAIN K.ms
      PROVE  New(k) \in MountRecords(G, F) /\ New(k).par = K.ms[k].par
  <2>1. K.ms[k] \in MountRecords(Groups, F)
    BY <1>1, TableShape
  <2>2. k \in of
    BY DEF HostRoot
  <2>3. GroupAfter(prop, K.ms[k].group) \in G
    <3>1. CASE prop.kind = "unbindable"
      BY <3>1 DEF GroupAfter, Groups
    <3>2. CASE prop.kind # "unbindable"
      BY <3>2 DEF GroupAfter, Groups
    <3>. QED BY <3>1, <3>2
  <2>4. New(k) = [K.ms[k] EXCEPT !.group = GroupAfter(prop, K.ms[k].group)]
    <3>. HIDE DEF of
    <3>. QED BY <2>1, <2>2 DEF MountRecords
  <2>. HIDE DEF New, G
  <2>. QED BY <2>1, <2>3, <2>4 DEF MountRecords
<1>3. /\ DOMAIN ms = DOMAIN K.ms /\ \A k \in DOMAIN ms : ms[k] = New(k)
      /\ ms \in Seq(MountRecords(G, F))
  <2>1. ms \in [1..Len(K.ms) -> MountRecords(G, F)] /\ Len(K.ms) \in Nat
    <3>1. DOMAIN K.ms = 1..Len(K.ms) /\ Len(K.ms) \in Nat
      BY <1>1, TableShape
    <3>. HIDE DEF New, G
    <3>. QED BY <1>2, <3>1
  <2>2. ms \in Seq(MountRecords(G, F))
    <3>. HIDE DEF ms, G
    <3>. QED BY <2>1, SeqDef
  <2>. HIDE DEF New
  <2>. QED BY <2>2
<1>4. L = [ms |-> ms, fs |-> K.fs, hostSaw |-> K.hostSaw, err |-> K.err]
  <2>. HIDE DEF ms
  <2>. QED BY DEF KernelOK
<1>5. KernelOK(L, G, F) /\ L.hostSaw = K.hostSaw
  <2>1. \A k \in DOMAIN ms : ms[k].par \in DOMAIN ms \cup {NoMount}
    <3>. HIDE DEF New, ms
    <3>. QED BY <1>1, <1>2, <1>3 DEF Table
  <2>. HIDE DEF L, ms, G
  <2>. QED BY <1>3, <1>4, <2>1 DEF KernelOK
<1>6. MountRoot(K, HostRoot)
  BY DEF MountRoot, HostRoot
<1>7. SetPropagation(K, HostRoot, prop) = L
  <2>1. SetPropagation(K, HostRoot, prop) =
          IF ~MountRoot(K, HostRoot) THEN Failed(K, "EINVAL") ELSE L
    BY DEF SetPropagation
  <2>. HIDE DEF L
  <2>. QED BY <1>6, <2>1
<1>8. prop # NoProp
  BY DEF NoProp
<1>9. DoPropagation(K, HostRoot, prop) = L
  <2>. HIDE DEF L
  <2>. QED BY <1>1, <1>7, <1>8, AtRoot DEF DoPropagation
<1>. HIDE DEF L
<1>. QED BY <1>5, <1>9

-----------------------------------------------------------------------------
(* The inductive invariant.  The mounts leave the host's groups with the   *)
(* propagation of the root, and none becomes read-only before finalize if  *)
(* none is read-only at once; the root stays the host's until the pivot.   *)
Early == {"rebind", "mounts", "masked", "readonly", "devices", "ptmx", "symlinks"}
Over == {"failed", "mounted"}

Quiet == cfg.mountNs /\ cfg.mounts # <<>> /\ LeavesHost
NoneReadOnly ==
  /\ \A k \in DOMAIN cfg.mounts : IsBind(cfg.mounts[k]) \/ "ro" \notin cfg.mounts[k].flags
  /\ \A k \in DOMAIN HostKernel(setup).ms : "ro" \notin HostKernel(setup).ms[k].flags
  /\ cfg.masked = <<>>

GroupsNow ==
  IF Quiet /\ pc \notin {"start", "propagation"} THEN Groups \ {"host"} ELSE Groups
FlagsNow ==
  IF NoneReadOnly /\ pc \in Early \cup {"start", "propagation"} THEN Attributes \ {"ro"}
  ELSE Attributes

MountInv ==
  /\ setup \in Setups
  /\ i \in Nat \ {0}
  /\ pc \in Early \cup Over \cup {"start", "propagation", "finalize", "pivot", "console"}
  /\ Quiet => ~kern.hostSaw
  /\ NoneReadOnly /\ kern.err = "EROFS" => procRoot # HostRoot
  /\ pc = "console" => procRoot # HostRoot
  /\ pc \in {"start", "propagation"} => kern = HostKernel(setup)
  /\ pc \notin Over =>
       /\ Ready(kern, GroupsNow, FlagsNow) /\ Fine(kern)
       /\ remounts \in Seq(Remounts(kern.ms))
  /\ pc \notin Over \cup {"console"} =>
       procRoot = HostRoot /\ kern.ms # <<>> /\ kern.ms[1].par = NoMount

(* The groups and flags there may be are sets the helpers allow.           *)
LEMMA NowAllowed == Allowed(GroupsNow, FlagsNow)
BY DEF Allowed, GroupsNow, FlagsNow, Groups, Attributes

(* The configuration is one of those assumed.                              *)
LEMMA SetupFits ==
  ASSUME MountInv
  PROVE  /\ cfg.mounts \in Seq(ConfigMounts) /\ cfg.masked \in Seq(Paths)
         /\ cfg.readonly \in Seq(Paths) /\ cfg.rootProp \in Propagations
BY SetupsAssumption DEF MountInv, cfg

LEMMA MountInvInit == MountInit => MountInv
<1>. SUFFICES ASSUME MountInit PROVE MountInv
  OBVIOUS
<1> DEFINE host == HostKernel(setup)
<1>1. /\ KernelOK(host, {"host", "private"}, Attributes)
      /\ host.ms # <<>> /\ host.ms[1].par = NoMount /\ host.ms[1].base = <<>>
      /\ ~host.hostSaw /\ host.err = "none"
  BY HostAssumption DEF MountInit, Ordered
<1>2. kern = host /\ rootfd = HostRoot /\ procRoot = HostRoot /\ remounts = <<>> /\ pc = "start"
      /\ i = 1 /\ setup \in Setups
  BY DEF MountInit
<1>. HIDE DEF host
<1>3. GroupsNow = Groups
  BY <1>2 DEF GroupsNow
<1>4. KernelOK(host, Groups, FlagsNow)
  <2>1. \A k \in DOMAIN host.ms : host.ms[k].flags \subseteq FlagsNow
    <3>1. \A k \in DOMAIN host.ms : host.ms[k].flags \subseteq Attributes
      BY <1>1, KernelTable, TableShape
    <3>2. NoneReadOnly => \A k \in DOMAIN host.ms : "ro" \notin host.ms[k].flags
      BY DEF NoneReadOnly, host
    <3>. QED BY <3>1, <3>2 DEF FlagsNow
  <2>2. {"host", "private"} \subseteq Groups
    BY DEF Groups
  <2>. QED BY <1>1, <2>1, <2>2, Widen
<1>5. HostRoot \in Places(host.ms)
  <2>1. Table(host.ms, Groups, FlagsNow)
    BY <1>4, KernelTable
  <2>. QED BY <1>1, <1>2, <2>1, AtRoot
<1>6. Ready(kern, GroupsNow, FlagsNow)
  BY <1>2, <1>3, <1>4, <1>5, NowAllowed DEF Ready
<1>7. remounts \in Seq(Remounts(kern.ms))
  BY <1>2, EmptySeq
<1>. QED BY <1>1, <1>2, <1>6, <1>7 DEF MountInv, Over, Fine, host

(* What does not depend on the step: the configuration is fixed.           *)
LEMMA SetupFixed ==
  ASSUME setup' = setup
  PROVE  Quiet' = Quiet /\ NoneReadOnly' = NoneReadOnly
BY DEF Quiet, NoneReadOnly, LeavesHost, cfg

(* A remount put off stays one while mounts are added.                     *)
LEMMA RemountsGrow ==
  ASSUME NEW K, NEW L, Places(K.ms) \subseteq Places(L.ms)
  PROVE  Seq(Remounts(K.ms)) \subseteq Seq(Remounts(L.ms))
<1>1. Remounts(K.ms) \subseteq Remounts(L.ms)
  BY DEF Remounts
<1>. QED BY <1>1, SeqMonotonic

(* A step of the middle of the set-up that keeps what it should.           *)
Middle == Early \cup {"finalize"}

LEMMA MiddleStep ==
  ASSUME MountInv, pc \in Middle, setup' = setup, procRoot' = procRoot,
         Keeps(kern, kern', GroupsNow, FlagsNow),
         i' \in Nat \ {0}, pc' \in Middle \cup {"pivot", "failed"},
         pc = "finalize" => pc' \notin Early /\ kern'.err # "EROFS",
         pc' # "failed" => /\ Fine(kern') /\ rootfd' \in Places(kern'.ms)
                           /\ remounts' \in Seq(Remounts(kern'.ms))
  PROVE  MountInv'
<1>1. /\ Ready(kern, GroupsNow, FlagsNow) /\ Fine(kern) /\ procRoot = HostRoot
      /\ kern.ms # <<>> /\ kern.ms[1].par = NoMount /\ (Quiet => ~kern.hostSaw)
      /\ setup \in Setups
  BY DEF MountInv, Middle, Early, Over
<1>2. KernelOK(kern', GroupsNow, FlagsNow) /\ Places(kern.ms) \subseteq Places(kern'.ms)
      /\ kern'.ms # <<>> /\ kern'.ms[1].par = NoMount
  BY <1>1 DEF Keeps, Holds
<1>3. Quiet' = Quiet /\ NoneReadOnly' = NoneReadOnly
  BY SetupFixed
<1>4. Quiet' => ~kern'.hostSaw
  <2>1. Quiet => "host" \notin GroupsNow
    BY DEF GroupsNow, Middle, Early
  <2>. QED BY <1>1, <1>3, <2>1 DEF Keeps, Holds
<1>5. NoneReadOnly' => kern'.err # "EROFS"
  <2>1. NoneReadOnly /\ pc # "finalize" => "ro" \notin FlagsNow
    BY DEF FlagsNow, Middle
  <2>. QED BY <1>1, <1>3, <2>1 DEF Keeps, Fine
<1>6. pc' # "failed" => KernelOK(kern', GroupsNow', FlagsNow')
  <2>. SUFFICES ASSUME pc' # "failed" PROVE KernelOK(kern', GroupsNow', FlagsNow')
    OBVIOUS
  <2>1. GroupsNow' = GroupsNow
    BY <1>3 DEF GroupsNow, Middle, Early
  <2>2. FlagsNow \subseteq FlagsNow'
    <3>1. pc' \in Early \cup {"start", "propagation"} => pc \in Early
      BY DEF Middle, Early
    <3>. QED BY <1>3, <3>1 DEF FlagsNow
  <2>3. \A k \in DOMAIN kern'.ms : kern'.ms[k].flags \subseteq FlagsNow'
    BY <1>2, <2>2, KernelTable, TableShape
  <2>. QED BY <1>2, <2>1, <2>3, Widen
<1>7. Allowed(GroupsNow', FlagsNow')
  BY DEF Allowed, GroupsNow, FlagsNow, Groups, Attributes
<1>8. procRoot' \in Places(kern'.ms)
  BY <1>1, <1>2 DEF Ready
<1>9. pc' \notin Over => /\ Ready(kern, GroupsNow, FlagsNow)' /\ Fine(kern)'
                         /\ remounts' \in Seq(Remounts(kern.ms))'
  <2>1. pc' \notin Over => KernelOK(kern, GroupsNow, FlagsNow)' /\ rootfd' \in Places(kern.ms)'
    BY <1>6 DEF Over
  <2>. QED BY <1>7, <1>8, <2>1 DEF Ready, Over
<1>. QED BY <1>1, <1>2, <1>4, <1>5, <1>9 DEF MountInv, Middle, Early, Over

(* What the steps of the middle of the set-up may rely on.                 *)
LEMMA NowReady ==
  ASSUME MountInv, pc \in Middle
  PROVE  /\ Ready(kern, GroupsNow, FlagsNow) /\ Fine(kern) /\ procRoot = HostRoot
         /\ remounts \in Seq(Remounts(kern.ms)) /\ i \in Nat \ {0}
BY DEF MountInv, Middle, Early, Over

LEMMA TookStep ==
  ASSUME MountInv, pc \in Early, NEW done, Did(kern, done, GroupsNow, FlagsNow), NEW list,
         NEW next \in Early, Took(done, list, next), setup' = setup, procRoot' = procRoot,
         Fine(kern') => rootfd' \in Places(kern'.ms)
  PROVE  MountInv'
<1>1. kern' = done.kern /\ Keeps(kern, kern', GroupsNow, FlagsNow)
      /\ done.later \in Seq(Remounts(kern'.ms))
  BY DEF Took, Did
<1>2. remounts' \in Seq(Remounts(kern'.ms))
  <2>1. remounts \in Seq(Remounts(kern'.ms))
    BY <1>1, NowReady, RemountsGrow DEF Middle, Keeps, Holds
  <2>2. remounts' = remounts \o done.later
    BY DEF Took
  <2>. QED BY <1>1, <2>1, <2>2, ConcatProperties
<1>3. i' \in Nat \ {0} /\ pc' \in Early \cup {"failed"} /\ (pc' # "failed" => Fine(kern'))
  <2>1. i \in Nat \ {0}
    BY NowReady DEF Middle
  <2>2. CASE Fine(kern')
    BY <1>1, <2>1, <2>2 DEF Took, Advance
  <2>3. CASE ~Fine(kern')
    BY <1>1, <2>1, <2>3 DEF Took
  <2>. QED BY <2>2, <2>3
<1>. QED BY <1>1, <1>2, <1>3, MiddleStep DEF Middle, Early

LEMMA RootfdStays ==
  ASSUME MountInv, pc \in Middle, NEW L, Keeps(kern, L, GroupsNow, FlagsNow)
  PROVE  rootfd \in Places(L.ms) /\ remounts \in Seq(Remounts(L.ms))
BY NowReady, RemountsGrow DEF Ready, Keeps, Holds

(* One lemma for each step.                                                *)
LEMMA RebindStep == MountInv /\ Rebind => MountInv'
<1>. SUFFICES ASSUME MountInv, Rebind PROVE MountInv'
  OBVIOUS
<1>1. pc \in Middle /\ Ready(kern, GroupsNow, FlagsNow) /\ i \in Nat \ {0}
  BY NowReady DEF Rebind, Middle, Early
<1>2. Keeps(kern, kern', GroupsNow, FlagsNow)
  <2>1. MountFits(RebindMount, FlagsNow)
    BY NamedPaths DEF MountFits, RebindMount, IsBind
  <2>. QED BY <1>1, <2>1, DoMountDid DEF Did, Rebind
<1>3. Ready(kern', GroupsNow, FlagsNow)
  BY <1>1, <1>2, StillReady
<1>4. rootfd' \in Places(kern'.ms)
  BY <1>3, NamedPaths, OpenedPlace DEF Rebind
<1>5. remounts' \in Seq(Remounts(kern'.ms))
  <2> DEFINE remount == [fd |-> rootfd', flags |-> {"ro", "bind"}]
  <2>1. remount \in Remounts(kern'.ms)
    BY <1>4 DEF Remounts, Attributes
  <2>2. remounts' = <<remount>> \/ remounts' = <<>>
    BY DEF Rebind
  <2>. HIDE DEF remount
  <2>. QED BY <2>1, <2>2, ShortSeq
<1>6. pc' = "failed" \/ (pc' = "mounts" /\ Fine(kern'))
  BY DEF Rebind, After
<1>. QED BY <1>1, <1>2, <1>4, <1>5, <1>6, MiddleStep DEF Rebind, Middle, Early

(* The root do_mount leaves behind: the one it had, or the one it opened   *)
(* again after a mount on "/".                                             *)
LEMMA NotedRoot ==
  ASSUME NEW mounts, NEW mount, NotedIf(mounts, mount)
  PROVE  rootfd' = rootfd \/ (mount.dest = <<>> /\ rootfd' = ByPath(kern', rootfd))
<1>1. CASE mounts
  BY <1>1 DEF NotedIf, Noted, Reopened, ByPath
<1>2. CASE ~mounts
  BY <1>2 DEF NotedIf
<1>. QED BY <1>1, <1>2

LEMMA RootfdNoted ==
  ASSUME MountInv, pc \in Middle, Ready(kern, GroupsNow, FlagsNow),
         Keeps(kern, kern', GroupsNow, FlagsNow),
         rootfd' = rootfd \/ rootfd' = ByPath(kern', rootfd)
  PROVE  rootfd' \in Places(kern'.ms)
<1>1. Ready(kern', GroupsNow, FlagsNow) /\ rootfd \in Places(kern'.ms)
  BY StillReady, RootfdStays
<1>. QED BY <1>1, ByPathPlace

LEMMA MountStep == MountInv /\ Mount => MountInv'
<1>. SUFFICES ASSUME MountInv, Mount PROVE MountInv'
  OBVIOUS
<1> DEFINE mount == cfg.mounts[i]
           done == IF mount.symlink THEN Only(CopySymlink(kern, mount)) ELSE DoMount(kern, mount)
<1>1. pc \in Early /\ pc \in Middle /\ Ready(kern, GroupsNow, FlagsNow) /\ i \in Nat \ {0}
  BY NowReady DEF Mount, ReadyFor, Middle, Early
<1>2. mount \in ConfigMounts /\ i \in DOMAIN cfg.mounts
  <2>1. cfg.mounts \in Seq(ConfigMounts) /\ i \in 1..Len(cfg.mounts)
    BY <1>1, SetupFits, LenProperties DEF Mount, ReadyFor
  <2>. QED BY <2>1, LenProperties
<1>3. MountFits(mount, FlagsNow)
  <2>1. NoneReadOnly => IsBind(mount) \/ "ro" \notin mount.flags
    BY <1>2 DEF NoneReadOnly
  <2>. HIDE DEF mount
  <2>. QED BY <1>2, <2>1 DEF MountFits, ConfigMounts, FlagsNow
<1>4. Did(kern, done, GroupsNow, FlagsNow)
  <2>. HIDE DEF mount
  <2>. QED BY <1>1, <1>3, CopySymlinkKeeps, OnlyDid, DoMountDid DEF MountFits
<1>5. Took(done, cfg.mounts, "masked") /\ setup' = setup /\ procRoot' = procRoot
  BY DEF Mount
<1>6. rootfd' \in Places(kern'.ms)
  <2>1. Keeps(kern, kern', GroupsNow, FlagsNow)
    BY <1>4, <1>5 DEF Did, Took
  <2>2. NotedIf(Real(mount), mount)
    BY DEF Mount
  <2>. HIDE DEF mount
  <2>. QED BY <1>1, <2>1, <2>2, NotedRoot, RootfdNoted
<1>. HIDE DEF done
<1>. QED BY <1>1, <1>4, <1>5, <1>6, TookStep DEF Early

LEMMA MaskPathStep == MountInv /\ MaskPath => MountInv'
<1>. SUFFICES ASSUME MountInv, MaskPath PROVE MountInv'
  OBVIOUS
<1> DEFINE path == cfg.masked[i]
           done == Mask(kern, path, Lookup(kern, rootfd, path))
<1>1. pc \in Early /\ pc \in Middle /\ Ready(kern, GroupsNow, FlagsNow) /\ i \in Nat \ {0}
  BY NowReady DEF MaskPath, ReadyFor, Middle, Early
<1>2. path \in Paths /\ cfg.masked # <<>>
  <2>1. cfg.masked \in Seq(Paths) /\ i \in 1..Len(cfg.masked)
    BY <1>1, SetupFits, LenProperties DEF MaskPath, ReadyFor
  <2>. QED BY <2>1, LenProperties, EmptySeq
<1>3. FlagsNow = Attributes
  BY <1>2 DEF FlagsNow, NoneReadOnly
<1>4. Did(kern, done, GroupsNow, FlagsNow)
  <2>. HIDE DEF path
  <2>. QED BY <1>1, <1>2, <1>3, MaskDid
<1>5. Took(done, cfg.masked, "readonly") /\ setup' = setup /\ procRoot' = procRoot
      /\ (rootfd' = rootfd \/ rootfd' = ByPath(kern', rootfd))
  BY NotedRoot DEF MaskPath
<1>. HIDE DEF done
<1>6. rootfd' \in Places(kern'.ms)
  BY <1>1, <1>4, <1>5, RootfdNoted DEF Did, Took
<1>. QED BY <1>1, <1>4, <1>5, <1>6, TookStep DEF Early

LEMMA ReadonlyPathStep == MountInv /\ ReadonlyPath => MountInv'
<1>. SUFFICES ASSUME MountInv, ReadonlyPath PROVE MountInv'
  OBVIOUS
<1> DEFINE path == cfg.readonly[i]
           done == MakeReadonly(kern, path, Lookup(kern, rootfd, path))
<1>1. pc \in Early /\ pc \in Middle /\ Ready(kern, GroupsNow, FlagsNow) /\ i \in Nat \ {0}
  BY NowReady DEF ReadonlyPath, ReadyFor, Middle, Early
<1>2. path \in Paths
  <2>1. cfg.readonly \in Seq(Paths) /\ i \in 1..Len(cfg.readonly)
    BY <1>1, SetupFits, LenProperties DEF ReadonlyPath, ReadyFor
  <2>. QED BY <2>1, LenProperties
<1>3. Did(kern, done, GroupsNow, FlagsNow)
  <2>. HIDE DEF path
  <2>. QED BY <1>1, <1>2, MakeReadonlyDid
<1>4. Took(done, cfg.readonly, "devices") /\ setup' = setup /\ procRoot' = procRoot
      /\ (rootfd' = rootfd \/ rootfd' = ByPath(kern', rootfd))
  BY NotedRoot DEF ReadonlyPath
<1>. HIDE DEF done
<1>5. rootfd' \in Places(kern'.ms)
  BY <1>1, <1>3, <1>4, RootfdNoted DEF Did, Took
<1>. QED BY <1>1, <1>3, <1>4, <1>5, TookStep DEF Early

(* Steps that leave the descriptors as they are.                           *)
LEMMA PlainStep ==
  ASSUME MountInv, pc \in Middle, setup' = setup, procRoot' = procRoot, rootfd' = rootfd,
         remounts' = remounts, Keeps(kern, kern', GroupsNow, FlagsNow),
         i' \in Nat \ {0}, pc' \in Middle \cup {"pivot", "failed"},
         pc = "finalize" => pc' \notin Early /\ kern'.err # "EROFS",
         pc' # "failed" => Fine(kern')
  PROVE  MountInv'
BY RootfdStays, MiddleStep

LEMMA SkipStep ==
  ASSUME MountInv, NEW part \in Middle, NEW list, NEW next \in Middle \cup {"pivot"},
         Skip(part, list, next), part = "finalize" => next = "pivot"
  PROVE  MountInv'
<1>1. pc \in Middle /\ Ready(kern, GroupsNow, FlagsNow) /\ Fine(kern) /\ kern' = kern
  BY NowReady DEF Skip
<1>2. Keeps(kern, kern', GroupsNow, FlagsNow) /\ Fine(kern') /\ kern'.err # "EROFS"
  BY <1>1, KeepsNothing DEF Ready, Fine
<1>3. pc' = next /\ i' = 1 /\ pc = part /\ UNCHANGED <<setup, rootfd, procRoot, remounts>>
  BY DEF Skip
<1>. QED BY <1>1, <1>2, <1>3, PlainStep DEF Early

LEMMA CreateDevicesStep == MountInv /\ CreateDevices => MountInv'
<1>. SUFFICES ASSUME MountInv, CreateDevices PROVE MountInv'
  OBVIOUS
<1>1. pc \in Middle /\ pc = "devices" /\ Ready(kern, GroupsNow, FlagsNow) /\ i \in Nat \ {0}
  BY NowReady DEF CreateDevices, ReadyFor, Middle, Early
<1>2. Devices[i] \in Names
  <2>1. i \in 1..Len(Devices)
    BY <1>1, DevicesAssumption, LenProperties DEF CreateDevices, ReadyFor
  <2>. QED BY <2>1, DevicesAssumption, LenProperties
<1>3. Keeps(kern, CreateDevice(kern, Devices[i]), GroupsNow, FlagsNow)
  BY <1>1, <1>2, CreateDeviceKeeps
<1>4. Keeps(kern, kern', GroupsNow, FlagsNow)
  BY <1>1, <1>3, KeepsNothing DEF CreateDevices, Ready
<1>5. i' \in Nat \ {0} /\ pc' \in {"devices", "ptmx", "failed"} /\ (pc' # "failed" => Fine(kern'))
  <2>1. CASE Fine(kern')
    BY <1>1, <2>1 DEF CreateDevices, Advance
  <2>2. CASE ~Fine(kern')
    BY <1>1, <2>2 DEF CreateDevices
  <2>. QED BY <2>1, <2>2
<1>6. UNCHANGED <<setup, rootfd, procRoot, remounts>>
  BY DEF CreateDevices
<1>. QED BY <1>1, <1>4, <1>5, <1>6, PlainStep DEF Middle, Early

LEMMA EnsurePtmxStep == MountInv /\ EnsurePtmx => MountInv'
<1>. SUFFICES ASSUME MountInv, EnsurePtmx PROVE MountInv'
  OBVIOUS
<1>1. pc \in Middle /\ pc = "ptmx" /\ Ready(kern, GroupsNow, FlagsNow) /\ i \in Nat \ {0}
  BY NowReady DEF EnsurePtmx, Middle, Early
<1>2. Keeps(kern, kern', GroupsNow, FlagsNow)
  BY <1>1, PtmxKeeps, KeepsNothing DEF EnsurePtmx, Ready
<1>3. i' = i /\ UNCHANGED <<setup, rootfd, procRoot, remounts>>
      /\ (pc' = "failed" \/ (pc' = "symlinks" /\ Fine(kern')))
  BY DEF EnsurePtmx, After
<1>. QED BY <1>1, <1>2, <1>3, PlainStep DEF Middle, Early

LEMMA DevSymlinksStep == MountInv /\ DevSymlinks => MountInv'
<1>. SUFFICES ASSUME MountInv, DevSymlinks PROVE MountInv'
  OBVIOUS
<1>1. pc \in Middle /\ pc = "symlinks" /\ Ready(kern, GroupsNow, FlagsNow)
  BY NowReady DEF DevSymlinks, Middle, Early
<1>2. Keeps(kern, kern', GroupsNow, FlagsNow)
  BY <1>1, NamedPaths, CreateKeeps, KeepsNothing DEF DevSymlinks, Ready
<1>3. i' = 1 /\ UNCHANGED <<setup, rootfd, procRoot, remounts>>
      /\ (pc' = "failed" \/ (pc' = "finalize" /\ Fine(kern')))
  BY DEF DevSymlinks, After
<1>. QED BY <1>1, <1>2, <1>3, PlainStep DEF Middle, Early

LEMMA FinalizeRemountStep == MountInv /\ FinalizeRemount => MountInv'
<1>. SUFFICES ASSUME MountInv, FinalizeRemount PROVE MountInv'
  OBVIOUS
<1> DEFINE k == Len(remounts) + 1 - i
           r == remounts[k]
<1>1. /\ pc \in Middle /\ pc = "finalize" /\ Ready(kern, GroupsNow, FlagsNow) /\ i \in Nat \ {0}
      /\ remounts \in Seq(Remounts(kern.ms)) /\ Fine(kern)
  BY NowReady DEF FinalizeRemount, ReadyFor, Middle, Early
<1>2. FlagsNow = Attributes
  BY <1>1 DEF FlagsNow, Early
<1>3. r \in Remounts(kern.ms)
  <2>1. k \in 1..Len(remounts)
    BY <1>1, LenProperties DEF FinalizeRemount, ReadyFor
  <2>. HIDE DEF k
  <2>. QED BY <1>1, <2>1, LenProperties
<1>4. kern' = DoRemount(kern, r)
  BY DEF FinalizeRemount
<1>. HIDE DEF r
<1>5. Keeps(kern, kern', GroupsNow, FlagsNow) /\ kern'.err # "EROFS"
  <2>1. r.fd \in Places(kern.ms) /\ r.flags \cap Attributes \subseteq FlagsNow
    BY <1>2, <1>3 DEF Remounts
  <2>. QED BY <1>1, <1>4, <2>1, DoRemountKeeps
<1>6. i' \in Nat \ {0} /\ pc' \in {"finalize", "pivot", "failed"} /\ (pc' # "failed" => Fine(kern'))
  <2>1. CASE Fine(kern')
    BY <1>1, <2>1 DEF FinalizeRemount, Advance
  <2>2. CASE ~Fine(kern')
    BY <1>1, <2>2 DEF FinalizeRemount
  <2>. QED BY <2>1, <2>2
<1>7. UNCHANGED <<setup, rootfd, procRoot, remounts>>
  BY DEF FinalizeRemount
<1>. QED BY <1>1, <1>5, <1>6, <1>7, PlainStep DEF Middle, Early

LEMMA OpenRootStep == MountInv /\ OpenRoot => MountInv'
<1>. SUFFICES ASSUME MountInv, OpenRoot PROVE MountInv'
  OBVIOUS
<1>1. /\ pc = "start" /\ setup \in Setups /\ Ready(kern, GroupsNow, FlagsNow) /\ Fine(kern)
      /\ remounts \in Seq(Remounts(kern.ms)) /\ procRoot = HostRoot /\ kern.ms # <<>>
      /\ kern.ms[1].par = NoMount /\ (Quiet => ~kern.hostSaw) /\ kern = HostKernel(setup)
  BY DEF MountInv, OpenRoot, Over
<1>2. /\ UNCHANGED <<setup, kern, procRoot, remounts>> /\ i' = 1
      /\ pc' \in {"pivot", "propagation", "mounts"}
      /\ pc' = "pivot" => cfg.mounts = <<>>
      /\ pc' = "mounts" => ~cfg.mountNs
      /\ rootfd' = rootfd \/ rootfd' = Lookup(kern, procRoot, RootfsPath).at
  BY DEF OpenRoot
<1>3. Quiet' = Quiet /\ NoneReadOnly' = NoneReadOnly
  BY <1>2, SetupFixed
<1>4. rootfd' \in Places(kern.ms)
  BY <1>1, <1>2, NamedPaths, OpenedPlace DEF Ready
<1>5. GroupsNow' = GroupsNow
  BY <1>1, <1>2, <1>3 DEF GroupsNow, Quiet
<1>6. KernelOK(kern, GroupsNow, FlagsNow)'
  <2>1. FlagsNow \subseteq FlagsNow'
    BY <1>1, <1>3 DEF FlagsNow
  <2>2. \A k \in DOMAIN kern.ms : kern.ms[k].flags \subseteq FlagsNow'
    BY <1>1, <2>1, KernelTable, TableShape DEF Ready
  <2>3. KernelOK(kern, GroupsNow', FlagsNow')
    BY <1>1, <1>5, <2>2, Widen DEF Ready
  <2>. QED BY <1>2, <2>3
<1>7. Ready(kern, GroupsNow, FlagsNow)'
  <2>1. Allowed(GroupsNow, FlagsNow)'
    BY DEF Allowed, GroupsNow, FlagsNow, Groups, Attributes
  <2>. QED BY <1>1, <1>2, <1>4, <1>6, <2>1 DEF Ready
<1>8. Fine(kern)' /\ (remounts \in Seq(Remounts(kern.ms)))'
  BY <1>1, <1>2
<1>. QED BY <1>1, <1>2, <1>3, <1>7, <1>8 DEF MountInv, Over, Early, Fine

LEMMA BindConsoleStep == MountInv /\ BindConsole => MountInv'
<1>. SUFFICES ASSUME MountInv, BindConsole PROVE MountInv'
  OBVIOUS
<1> DEFINE clear == ClearConsole(kern, Lookup(kern, procRoot, ConsolePath))
           slave == Lookup(kern, procRoot, <<"dev", "pts", "0">>)
<1>1. /\ pc = "console" /\ setup \in Setups /\ Ready(kern, GroupsNow, FlagsNow)
      /\ procRoot # HostRoot /\ (Quiet => ~kern.hostSaw) /\ i \in Nat \ {0}
  BY DEF MountInv, BindConsole, Over
<1>2. Keeps(kern, clear, GroupsNow, FlagsNow)
  BY <1>1, ClearConsoleKeeps
<1>3. slave.at \in Places(clear.ms)
  <2>1. slave.at \in Places(kern.ms)
    BY <1>1, NamedPaths, OpenedPlace
  <2>. HIDE DEF clear, slave
  <2>. QED BY <1>2, <2>1 DEF Keeps, Holds
<1>4. UNCHANGED <<setup, procRoot, i>> /\ kern' = BindSlave(clear, slave) /\ pc' \in Over
  BY DEF BindConsole, After, Over
<1>. HIDE DEF clear, slave
<1>5. Keeps(kern, kern', GroupsNow, FlagsNow)
  <2>1. Ready(clear, GroupsNow, FlagsNow)
    BY <1>1, <1>2, StillReady
  <2>2. Keeps(clear, kern', GroupsNow, FlagsNow)
    BY <1>3, <1>4, <2>1, BindSlaveKeeps
  <2>. QED BY <1>2, <2>2, KeepsOn
<1>6. Quiet' = Quiet /\ NoneReadOnly' = NoneReadOnly
  BY <1>4, SetupFixed
<1>7. Quiet' => ~kern'.hostSaw
  <2>1. Quiet => "host" \notin GroupsNow
    BY <1>1 DEF GroupsNow
  <2>. QED BY <1>1, <1>5, <1>6, <2>1 DEF Keeps, Holds
<1>. QED BY <1>1, <1>4, <1>6, <1>7 DEF MountInv, Over

(* The root is left by a lookup of the rootfs, which does not end there.   *)
LEMMA PivotStep == MountInv /\ Pivot => MountInv'
<1>. SUFFICES ASSUME MountInv, Pivot PROVE MountInv'
  OBVIOUS
<1> DEFINE new == Lookup(kern, procRoot, RootfsPath).at
           pivoted == PivotRoot(kern, procRoot, new)
           private == SetPropagation(pivoted, [m |-> procRoot.m, p |-> pivoted.ms[procRoot.m].base], Private(TRUE))
           left == LeaveOldRoot(pivoted, procRoot)
           restored == SetPropagation(left, new, savedProp)
           moved == MoveMount(kern, new, procRoot)
           failed == Failed(kern, "pivot_root")
           G == GroupsNow
           F == FlagsNow
<1>1. /\ pc = "pivot" /\ setup \in Setups /\ Ready(kern, G, F) /\ Fine(kern)
      /\ remounts \in Seq(Remounts(kern.ms)) /\ procRoot = HostRoot /\ kern.ms # <<>>
      /\ kern.ms[1].par = NoMount /\ (Quiet => ~kern.hostSaw) /\ i \in Nat \ {0}
  BY DEF MountInv, Pivot, Over
<1>2. new \in Places(kern.ms) /\ new # HostRoot
  BY <1>1, NamedPaths, OpenedPlace, KernelTable, NotHostRoot DEF Ready
<1>3. /\ UNCHANGED <<setup, rootfd, remounts, i>>
      /\ pc' = After(kern', IF cfg.terminal THEN "console" ELSE "mounted")
      /\ \/ kern' \in {kern, left, restored, moved} /\ procRoot' = new
         \/ kern' = failed /\ procRoot' = procRoot
  BY DEF Pivot
<1>. HIDE DEF new, G, F
<1>4. Holds(kern, left, G, F)
  <2>1. Holds(kern, pivoted, G, F)
    BY <1>1, <1>2, PivotRootHolds DEF Ready
  <2>. HIDE DEF pivoted
  <2>2. Holds(pivoted, private, G, F)
    <3>1. Allowed(G, F) /\ KernelOK(pivoted, G, F)
      BY <1>1, <2>1 DEF Ready, Holds
    <3>2. Keeps(pivoted, private, G, F)
      BY <3>1, SetPropagationKeeps
    <3>. HIDE DEF private
    <3>. QED BY <3>2 DEF Keeps
  <2>3. left = Detach(private, procRoot.m)
    BY DEF LeaveOldRoot
  <2>. HIDE DEF private, left
  <2>4. procRoot.m \in DOMAIN private.ms
    BY <1>1, <2>1, <2>2 DEF Ready, Holds, Places
  <2>5. Holds(private, left, G, F)
    BY <2>2, <2>3, <2>4, DetachHolds DEF Holds
  <2>. QED BY <2>1, <2>2, <2>5 DEF Holds
<1>. HIDE DEF left
<1>5. Holds(kern, restored, G, F)
  <2>1. Holds(left, restored, G, F)
    <3>1. Allowed(G, F) /\ KernelOK(left, G, F)
      BY <1>1, <1>4 DEF Ready, Holds
    <3>2. Keeps(left, restored, G, F)
      BY <3>1, SetPropagationKeeps
    <3>. HIDE DEF restored
    <3>. QED BY <3>2 DEF Keeps
  <2>. HIDE DEF restored
  <2>. QED BY <1>4, <2>1 DEF Holds
<1>6. Holds(kern, moved, G, F)
  BY <1>1, <1>2, MoveMountHolds DEF Ready
<1>7. Holds(kern, failed, G, F) /\ failed.err = "pivot_root"
  <2>1. Holds(kern, failed, G, F)
    BY <1>1, FailedKeeps DEF Ready, Keeps
  <2>2. failed.err = "pivot_root"
    BY <1>1 DEF Ready, KernelOK, Failed
  <2>. QED BY <2>1, <2>2
<1>8. Holds(kern, kern, G, F)
  BY <1>1, KeepsNothing DEF Ready, Keeps
<1>. HIDE DEF restored, moved, failed
<1>9. Holds(kern, kern', G, F) /\ procRoot' \in Places(kern'.ms)
  <2>1. Holds(kern, kern', G, F)
    BY <1>3, <1>4, <1>5, <1>6, <1>7, <1>8
  <2>. QED BY <1>1, <1>2, <1>3, <2>1 DEF Ready, Holds
<1>10. Quiet' = Quiet /\ NoneReadOnly' = NoneReadOnly
  BY <1>3, SetupFixed
<1>11. Quiet' => ~kern'.hostSaw
  <2>1. Quiet => "host" \notin G
    BY <1>1 DEF G, GroupsNow
  <2>. QED BY <1>1, <1>9, <1>10, <2>1 DEF Holds
<1>12. procRoot' # HostRoot \/ (kern'.err = "pivot_root" /\ pc' = "failed")
  BY <1>2, <1>3, <1>7 DEF After, Fine
<1>13. pc' \in Over \cup {"console"} /\ (pc' = "console" => Fine(kern'))
  BY <1>3 DEF After, Over
<1>14. pc' = "console" => Ready(kern, GroupsNow, FlagsNow)'
  <2>1. pc' = "console" => GroupsNow' = G /\ FlagsNow' = F
    BY <1>1, <1>10 DEF G, F, GroupsNow, FlagsNow, Early
  <2>2. Allowed(G, F) /\ KernelOK(kern', G, F) /\ rootfd' \in Places(kern'.ms)
    BY <1>1, <1>3, <1>9 DEF Ready, Holds
  <2>. QED BY <1>9, <2>1, <2>2 DEF Ready
<1>15. remounts' \in Seq(Remounts(kern'.ms))
  BY <1>1, <1>3, <1>9, RemountsGrow DEF Holds
<1>. QED BY <1>1, <1>3, <1>10, <1>11, <1>12, <1>13, <1>14, <1>15
     DEF MountInv, Over, Early, Fine

(* With a propagation that leaves the host's groups, no mount is in one of *)
(* them once the root's propagation is set.                                *)
LEMMA RootPropagationStep == MountInv /\ RootPropagation => MountInv'
<1>. SUFFICES ASSUME MountInv, RootPropagation PROVE MountInv'
  OBVIOUS
<1> DEFINE prop == IF cfg.rootProp = NoProp THEN Private(TRUE) ELSE cfg.rootProp
           made == DoPropagation(kern, procRoot, prop)
           G == IF Quiet THEN Groups \ {"host"} ELSE Groups
           F == FlagsNow
<1>1. /\ pc = "propagation" /\ setup \in Setups /\ Ready(kern, GroupsNow, F) /\ Fine(kern)
      /\ remounts \in Seq(Remounts(kern.ms)) /\ procRoot = HostRoot /\ kern.ms # <<>>
      /\ kern.ms[1].par = NoMount /\ (Quiet => ~kern.hostSaw) /\ kern = HostKernel(setup)
      /\ i \in Nat \ {0}
  BY DEF MountInv, RootPropagation, Over
<1>2. UNCHANGED <<setup, rootfd, procRoot, remounts, i>> /\ pc' = After(kern', "rebind")
  BY DEF RootPropagation
<1>3. PICK at : kern' = SetPropagation(made, at, Private(FALSE))
  <2>1. kern' = MakeRootfsPrivate(made)
    BY DEF RootPropagation
  <2>. HIDE DEF made
  <2>. QED BY <2>1 DEF MakeRootfsPrivate
<1>4. GroupsNow = Groups /\ Allowed(Groups, F) /\ Allowed(G, F)
  <2>1. GroupsNow = Groups
    BY <1>1 DEF GroupsNow
  <2>2. Allowed(Groups, F)
    BY <2>1, NowAllowed
  <2>. QED BY <2>1, <2>2 DEF Allowed
<1>. HIDE DEF F
<1>5. Keeps(kern, made, Groups, F)
  <2>. HIDE DEF prop
  <2>. QED BY <1>1, <1>4, DoPropagationKeeps DEF Ready
<1>6. KernelOK(made, G, F) /\ (Quiet => made.hostSaw = kern.hostSaw)
  <2>1. CASE Quiet
    <3>1. prop.rec /\ prop.kind # "shared"
      BY <2>1 DEF Quiet, LeavesHost, Private
    <3>. HIDE DEF prop
    <3>2. KernelOK(kern, Groups, F)
      BY <1>1, <1>4 DEF Ready
    <3>3. /\ kern.ms[1].base = <<>>
          /\ \A k \in DOMAIN kern.ms : k = 1 \/ k \in Below(kern.ms, HostRoot)
      <4>1. Ordered(kern.ms) /\ kern.ms # <<>> /\ Table(kern.ms, Groups, F)
        BY <1>1, <3>2, HostAssumption, KernelTable
      <4>. QED BY <4>1, AllBelowRoot DEF Ordered
    <3>4. /\ KernelOK(DoPropagation(kern, HostRoot, prop), Groups \ {"host"}, F)
          /\ DoPropagation(kern, HostRoot, prop).hostSaw = kern.hostSaw
      BY <1>1, <3>1, <3>2, <3>3, HostLeft
    <3>. QED BY <1>1, <2>1, <3>4
  <2>2. CASE ~Quiet
    <3>. HIDE DEF made
    <3>. QED BY <1>5, <2>2 DEF Keeps, Holds
  <2>. QED BY <2>1, <2>2
<1>. HIDE DEF made, G
<1>7. Keeps(made, kern', G, F)
  BY <1>3, <1>4, <1>6, SetPropagationKeeps
<1>8. Quiet' = Quiet /\ NoneReadOnly' = NoneReadOnly
  BY <1>2, SetupFixed
<1>9. Quiet' => ~kern'.hostSaw
  <2>1. Quiet => "host" \notin G
    BY DEF G
  <2>. QED BY <1>1, <1>6, <1>7, <1>8, <2>1 DEF Keeps, Holds
<1>10. NoneReadOnly' => kern'.err # "EROFS"
  <2>1. NoneReadOnly => "ro" \notin F
    BY <1>1 DEF F, FlagsNow
  <2>. QED BY <1>1, <1>5, <1>7, <1>8, <2>1 DEF Keeps, Fine
<1>11. /\ kern'.ms # <<>> /\ kern'.ms[1].par = NoMount /\ KernelOK(kern', G, F)
       /\ Places(kern.ms) \subseteq Places(kern'.ms)
  BY <1>1, <1>5, <1>7 DEF Keeps, Holds
<1>12. pc' = "failed" \/ (pc' = "rebind" /\ Fine(kern'))
  BY <1>2 DEF After
<1>13. pc' = "rebind" => GroupsNow' = G /\ FlagsNow' = F
  <2>1. pc' = "rebind" => GroupsNow' = G
    BY <1>8 DEF G, GroupsNow
  <2>2. pc' = "rebind" => FlagsNow' = F
    BY <1>1, <1>8 DEF F, FlagsNow, Early
  <2>. QED BY <2>1, <2>2
<1>14. pc' = "rebind" => Ready(kern, GroupsNow, FlagsNow)'
  BY <1>1, <1>2, <1>4, <1>11, <1>13 DEF Ready
<1>15. remounts' \in Seq(Remounts(kern'.ms))
  BY <1>1, <1>2, <1>11, RemountsGrow
<1>. QED BY <1>1, <1>2, <1>8, <1>9, <1>10, <1>11, <1>12, <1>14, <1>15
     DEF MountInv, Over, Early, Fine

(* Every step keeps the invariant.                                         *)
LEMMA MountInvNext == MountInv /\ [MountNext]_mountVars => MountInv'
<1>. SUFFICES ASSUME MountInv, [MountNext]_mountVars PROVE MountInv'
  OBVIOUS
<1>1. CASE OpenRoot
  BY <1>1, OpenRootStep
<1>2. CASE RootPropagation
  BY <1>2, RootPropagationStep
<1>3. CASE Rebind
  BY <1>3, RebindStep
<1>4. CASE Mount
  BY <1>4, MountStep
<1>5. CASE MaskPath
  BY <1>5, MaskPathStep
<1>6. CASE Skip("masked", cfg.masked, "readonly")
  BY <1>6, SkipStep DEF Early, Middle
<1>7. CASE ReadonlyPath
  BY <1>7, ReadonlyPathStep
<1>8. CASE Skip("readonly", cfg.readonly, "devices")
  BY <1>8, SkipStep DEF Early, Middle
<1>9. CASE CreateDevices
  BY <1>9, CreateDevicesStep
<1>10. CASE EnsurePtmx
  BY <1>10, EnsurePtmxStep
<1>11. CASE DevSymlinks
  BY <1>11, DevSymlinksStep
<1>12. CASE FinalizeRemount
  BY <1>12, FinalizeRemountStep
<1>13. CASE Skip("finalize", remounts, "pivot")
  BY <1>13, SkipStep DEF Early, Middle
<1>14. CASE Pivot
  BY <1>14, PivotStep
<1>15. CASE BindConsole
  BY <1>15, BindConsoleStep
<1>16. CASE UNCHANGED mountVars
  <2>1. UNCHANGED <<setup, kern, rootfd, procRoot, remounts, pc, i>>
    BY <1>16 DEF mountVars
  <2>2. Quiet' = Quiet /\ NoneReadOnly' = NoneReadOnly
    BY <2>1, SetupFixed
  <2>3. GroupsNow' = GroupsNow /\ FlagsNow' = FlagsNow
    BY <2>1, <2>2 DEF GroupsNow, FlagsNow
  <2>4. Ready(kern, GroupsNow, FlagsNow) => Ready(kern, GroupsNow, FlagsNow)'
    BY <2>1, <2>3 DEF Ready
  <2>. QED BY <2>1, <2>2, <2>4 DEF MountInv
<1>. QED BY <1>1, <1>2, <1>3, <1>4, <1>5, <1>6, <1>7, <1>8, <1>9, <1>10, <1>11, <1>12, <1>13,
            <1>14, <1>15, <1>16 DEF MountNext

LEMMA MountInvAlways == MountSpec => []MountInv
BY MountInvInit, MountInvNext, PTL DEF MountSpec

(* Whatever the container mounts, moves or detaches, and whatever it is    *)
(* refused, the host's mounts stay as they are, for every configuration    *)
(* whose root propagation takes the namespace out of the host's groups:    *)
(* by the time anything is bound, moved or detached no mount is in one     *)
(* (configure_rootfs and do_pivot_root, container.cpp:696 and 1236).       *)
THEOREM MountsLeaveHostAlone == MountSpec => [](LeavesHost => HostUntouched)
<1>1. MountInv => (LeavesHost => HostUntouched)
  BY DEF MountInv, Quiet, HostUntouched
<1>. QED BY <1>1, MountInvAlways, PTL

(* No step of the set-up before the root is left finds a file system it    *)
(* must write to read-only, unless one of the host's mounts was, a mount   *)
(* that is not a bind asked for it, or there are masked paths: what is to  *)
(* become read-only waits for finalize (container.cpp:611 and 934).        *)
THEOREM ReadOnlyComesLast == MountSpec => []ReadOnlyWaits
<1>1. MountInv => ReadOnlyWaits
  BY DEF MountInv, NoneReadOnly, ReadOnlyWaits
<1>. QED BY <1>1, MountInvAlways, PTL

-----------------------------------------------------------------------------
(* The path of a mount's root is that of the place it is mounted at, and   *)
(* the path of a place in it goes on from there.                           *)
RootOf(ms, k) == [m |-> k, p |-> ms[k].base]
Point(ms, k) == [m |-> ms[k].par, p |-> ms[k].at]

OverPath(ms, x) ==
  /\ Point(ms, x.m) \in Places(ms) /\ RootOf(ms, x.m) \in Places(ms)
  /\ PathOf(ms, RootOf(ms, x.m)) = PathOf(ms, Point(ms, x.m))
  /\ PathOf(ms, x) = PathOf(ms, RootOf(ms, x.m)) \o Rest(ms[x.m].base, x.p)
  /\ PathOf(ms, x) \in Paths /\ PathOf(ms, RootOf(ms, x.m)) \in Paths

LEMMA PathOver ==
  ASSUME NEW G, NEW F, NEW ms, Table(ms, G, F), Ordered(ms), NEW x \in Places(ms), x.m # 1
  PROVE  OverPath(ms, x)
<1> DEFINE k == x.m
           root == RootOf(ms, k)
           point == Point(ms, k)
<1>1. k \in DOMAIN ms /\ ms[k].base \in Paths /\ root.m = k /\ root.p = ms[k].base
  BY TableShape DEF Places, RootOf
<1>2. root \in Places(ms)
  BY <1>1 DEF Places, RootOf
<1>3. PathOf(ms, x) = PathOf(ms, point) \o Rest(ms[k].base, x.p) /\ point \in Places(ms)
  BY PathUp DEF Point
<1>4. PathOf(ms, root) = PathOf(ms, point) \o Rest(ms[k].base, root.p)
  <2>1. root.m # 1
    BY <1>1
  <2>. HIDE DEF root
  <2>. QED BY <1>1, <1>2, <2>1, PathUp DEF Point
<1>5. PathOf(ms, point) \in Paths /\ PathOf(ms, root) \in Paths /\ PathOf(ms, x) \in Paths
  <2>. HIDE DEF root, point
  <2>. QED BY <1>2, <1>3, ShownPath
<1>6. Rest(ms[k].base, root.p) = <<>>
  BY <1>1, UnderFacts
<1>7. PathOf(ms, root) = PathOf(ms, point)
  <2> DEFINE q == PathOf(ms, point)
  <2>1. q \in Seq(Names)
    BY <1>5 DEF Paths
  <2>2. q \o <<>> = q
    <3>. HIDE DEF q
    <3>. QED BY <2>1, ConcatEmptySeq
  <2>. HIDE DEF root
  <2>. QED BY <1>4, <1>6, <2>2
<1>. HIDE DEF root, point
<1>. QED BY <1>2, <1>3, <1>5, <1>7 DEF root, point, OverPath

(* The mounts a container's namespace may have while it is set up: those   *)
(* it was made with, the rootfs bound onto itself, and more below that.    *)
Grown(ms, h) ==
  /\ Ordered(ms) /\ Extends(ms, h) /\ Len(h) < Len(ms)
  /\ Point(ms, Len(h) + 1) = Top(h, AtRootfs)
  /\ \A k \in DOMAIN ms : k > Len(h) + 1 => ms[k].par > Len(h)

Made(h) == Table(h, Groups, Attributes) /\ Ordered(h) /\ h # <<>>

RootStack(ms, h) ==
  {k \in (Len(h) + 1)..Len(ms) : PathOf(ms, RootOf(ms, k)) = RootfsPath}

LEMMA AtRootfsPlace ==
  ASSUME NEW h, Made(h)
  PROVE  /\ AtRootfs \in Places(h) /\ Top(h, AtRootfs) \in Places(h)
         /\ 1 \in DOMAIN h /\ Len(h) \in Nat /\ Len(h) # 0 /\ DOMAIN h = 1..Len(h)
<1>1. Len(h) \in Nat /\ DOMAIN h = 1..Len(h) /\ Len(h) # 0
  <2>1. h \in Seq(MountRecords(Groups, Attributes))
    BY DEF Made, Table
  <2>. QED BY <2>1, EmptySeq, TableShape DEF Made
<1>2. AtRootfs \in Places(h)
  BY <1>1, NamedPaths DEF AtRootfs, Places
<1>. QED BY <1>1, <1>2, TopPlace DEF Made

(* The place the rootfs was bound onto has its path, and what is mounted   *)
(* there in the table of the host is what is mounted there later.          *)
LEMMA HostTop ==
  ASSUME NEW G, NEW F, NEW ms, Table(ms, G, F), Ordered(ms), NEW h, Made(h), Extends(ms, h)
  PROVE  /\ Top(h, AtRootfs) \in Places(ms) /\ AtRootfs \in Places(ms)
         /\ PathOf(ms, Top(h, AtRootfs)) = RootfsPath
         /\ Top(ms, Top(h, AtRootfs)) = Top(ms, AtRootfs)
<1> DEFINE W == Top(h, AtRootfs)
           Z == {x \in Places(h) : PathOf(ms, x) = RootfsPath /\ Top(ms, x) = Top(ms, AtRootfs)}
<1>1. /\ Len(h) \in Nat /\ Len(h) # 0 /\ DOMAIN h = 1..Len(h) /\ Len(ms) \in Nat
      /\ DOMAIN ms = 1..Len(ms) /\ Len(h) <= Len(ms) /\ AtRootfs \in Places(h)
  BY AtRootfsPlace, TableShape DEF Extends
<1>2. DOMAIN h \subseteq DOMAIN ms /\ Places(h) \subseteq Places(ms)
  BY <1>1 DEF Places
<1>3. AtRootfs \in Z
  <2>1. AtRootfs.m = 1 /\ AtRootfs.p = RootfsPath
    BY DEF AtRootfs
  <2>. QED BY <1>1, <1>2, <2>1, PathInFirst
<1>4. ASSUME NEW x \in Z PROVE Onto(h, x) \in Z
  <2>1. x \in Places(h) /\ x \in Places(ms) /\ Onto(h, x) \in Places(h)
    BY <1>2, OntoPlace DEF Made
  <2>2. CASE Onto(h, x) = x
    BY <2>2
  <2>3. ASSUME NEW k \in MountedAt(h, x), Onto(h, x) = [m |-> k, p |-> h[k].base],
               k \in DOMAIN h, h[k].par = x.m, h[k].at = x.p, x.m # NoMount
        PROVE  Onto(h, x) \in Z
    <3>1. /\ k \in DOMAIN ms /\ ms[k].par = x.m /\ ms[k].at = x.p /\ h[k].base = ms[k].base
          /\ ms[k].live /\ ms[k].base \in Paths
      BY <1>2, <2>3, TableShape DEF Extends, Ordered
    <3>2. k # 1
      BY <2>3, <3>1 DEF Ordered
    <3> DEFINE root == RootOf(ms, k)
    <3>3. root = Onto(h, x) /\ root \in Places(ms) /\ root.m = k
      BY <2>3, <3>1 DEF RootOf, Places
    <3>4. Point(ms, k) = x
      BY <2>1, <3>1 DEF Point, Places
    <3>5. PathOf(ms, root) = PathOf(ms, x)
      <4>1. PathOf(ms, RootOf(ms, root.m)) = PathOf(ms, Point(ms, root.m))
        <5>. HIDE DEF root
        <5>. QED BY <3>2, <3>3, PathOver DEF OverPath
      <4>. QED BY <3>3, <3>4, <4>1
    <3>6. k \in MountedAt(ms, x)
      BY <3>1 DEF MountedAt
    <3>7. Top(ms, root) = Top(ms, x)
      BY <2>1, <3>6, TopOver DEF RootOf
    <3>. HIDE DEF root
    <3>. QED BY <2>1, <3>3, <3>5, <3>7
  <2>. HIDE DEF Z
  <2>. QED BY <2>1, <2>2, <2>3, OntoPlace DEF Made
<1>5. W \in Z
  <2>. HIDE DEF Z
  <2>. QED BY <1>1, <1>3, <1>4, TopStays DEF Made
<1>. QED BY <1>1, <1>2, <1>5

(* Facts about joined paths.                                               *)
Joins(a, b, c) ==
  /\ (a \o b) \o c = a \o (b \o c) /\ a \o b \in Paths /\ b \o c \in Paths
  /\ a \o <<>> = a /\ (a \o b = a <=> b = <<>>)
  /\ (b \o c = <<>> <=> b = <<>> /\ c = <<>>)
  /\ (a \o (b \o c) = a <=> b = <<>> /\ c = <<>>)

LEMMA JoinFacts ==
  ASSUME NEW a \in Paths, NEW b \in Paths, NEW c \in Paths
  PROVE  Joins(a, b, c)
<1>1. a \in Seq(Names) /\ b \in Seq(Names) /\ c \in Seq(Names)
  BY DEF Paths
<1>2. a \o b \in Seq(Names) /\ b \o c \in Seq(Names) /\ (a \o b) \o c = a \o (b \o c)
  BY <1>1, ConcatProperties, ConcatAssociative
<1>3. a \o <<>> = a
  BY <1>1, ConcatEmptySeq
<1>4. (a \o b = a <=> b = <<>>) /\ (b \o c = <<>> <=> b = <<>> /\ c = <<>>)
  <2>1. Len(a \o b) = Len(a) + Len(b) /\ Len(b \o c) = Len(b) + Len(c)
    BY <1>1, ConcatProperties
  <2>2. /\ Len(a) \in Nat /\ Len(b) \in Nat /\ Len(c) \in Nat
        /\ Len(b) = 0 <=> b = <<>>
        /\ Len(c) = 0 <=> c = <<>>
    BY <1>1, LenProperties, EmptySeq
  <2>3. Len(b \o c) = 0 <=> b \o c = <<>>
    BY <1>2, EmptySeq, LenProperties
  <2> DEFINE ab == a \o b
             bc == b \o c
  <2>4. ab = a => b = <<>>
    <3>. HIDE DEF ab
    <3>. QED BY <2>1, <2>2 DEF ab
  <2>5. b = <<>> => ab = a
    BY <1>3
  <2>. QED BY <2>1, <2>2, <2>3, <2>4, <2>5
<1>5. a \o (b \o c) = a <=> b \o c = <<>>
  BY <1>1, <1>2, ConcatEqualIffEmpty
<1>. QED BY <1>2, <1>3, <1>4, <1>5 DEF Paths, Joins

(* Every mount of the container's is at or below the rootfs, by its path.  *)
InRootfs(ms, k) ==
  /\ RootOf(ms, k) \in Places(ms) /\ Point(ms, k) \in Places(ms)
  /\ PathOf(ms, RootOf(ms, k)) = PathOf(ms, Point(ms, k))
  /\ \E q \in Paths : PathOf(ms, RootOf(ms, k)) = RootfsPath \o q

LEMMA GrownPaths ==
  ASSUME NEW G, NEW F, NEW ms, Table(ms, G, F), NEW h, Made(h), Grown(ms, h)
  PROVE  \A k \in (Len(h) + 1)..Len(ms) : InRootfs(ms, k)
<1> DEFINE H == Len(h)
           N == Len(ms)
           P(k) == \E q \in Paths : PathOf(ms, RootOf(ms, k)) = RootfsPath \o q
           S == {n \in 0..N : \A k \in (H + 1)..n : P(k)}
<1>1. /\ H \in Nat /\ H # 0 /\ N \in Nat /\ H < N /\ DOMAIN ms = 1..N /\ Ordered(ms)
      /\ Extends(ms, h) /\ RootfsPath \in Paths /\ <<>> \in Paths
  BY AtRootfsPlace, TableShape, NamedPaths DEF Grown
<1>2. ASSUME NEW k \in (H + 1)..N
      PROVE  /\ RootOf(ms, k) \in Places(ms) /\ Point(ms, k) \in Places(ms)
             /\ PathOf(ms, RootOf(ms, k)) = PathOf(ms, Point(ms, k))
             /\ k \in DOMAIN ms /\ k # 1 /\ ms[k].par \in 1..(k - 1)
  <2>1. k \in DOMAIN ms /\ k # 1 /\ ms[k].base \in Paths
    BY <1>1, TableShape
  <2> DEFINE x == RootOf(ms, k)
  <2>2. x \in Places(ms) /\ x.m = k
    BY <2>1 DEF Places, RootOf
  <2>3. /\ Point(ms, x.m) \in Places(ms)
        /\ PathOf(ms, RootOf(ms, x.m)) = PathOf(ms, Point(ms, x.m))
    <3>. HIDE DEF x
    <3>. QED BY <1>1, <2>1, <2>2, PathOver DEF OverPath
  <2>. QED BY <1>1, <2>1, <2>2, <2>3 DEF Ordered
<1>3. ASSUME NEW n \in 0..N, n < N, n \in S PROVE n + 1 \in S
  <2>1. n + 1 \in 0..N /\ \A k \in (H + 1)..(n + 1) : k \in (H + 1)..n \/ k = n + 1
    BY <1>1, <1>3
  <2>2. ASSUME n + 1 \in (H + 1)..(n + 1) PROVE P(n + 1)
    <3> DEFINE k == n + 1
    <3>1. k \in (H + 1)..N /\ k - 1 = n
      BY <1>1, <1>3, <2>2
    <3>. HIDE DEF k
    <3>2. PathOf(ms, RootOf(ms, k)) = PathOf(ms, Point(ms, k)) /\ k \in DOMAIN ms
          /\ ms[k].par \in 1..n /\ Point(ms, k) \in Places(ms)
      BY <1>2, <3>1
    <3>3. CASE k = H + 1
      <4>1. PathOf(ms, Point(ms, k)) = RootfsPath
        BY <1>1, <3>3, HostTop DEF Grown
      <4>2. RootfsPath \o <<>> = RootfsPath
        BY <1>1, JoinFacts DEF Joins
      <4>. QED BY <1>1, <3>2, <4>1, <4>2 DEF k
    <3>4. CASE k # H + 1
      <4>1. ms[k].par \in (H + 1)..n
        <5>1. ms[k].par > H
          BY <1>1, <3>1, <3>2, <3>4 DEF Grown
        <5>. QED BY <1>1, <3>2, <5>1
      <4>2. P(ms[k].par)
        BY <1>3, <4>1
      <4>3. PICK q \in Paths : PathOf(ms, RootOf(ms, ms[k].par)) = RootfsPath \o q
        BY <4>2
      <4> DEFINE y == Point(ms, k)
                 r == Rest(ms[y.m].base, y.p)
      <4>4. y \in Places(ms) /\ y.m = ms[k].par /\ y.m # 1 /\ y.m \in DOMAIN ms
        BY <1>1, <3>2, <4>1 DEF Point, Places
      <4>. HIDE DEF y
      <4>5. PathOf(ms, y) = PathOf(ms, RootOf(ms, y.m)) \o r
        <5>1. OverPath(ms, y)
          BY <1>1, <4>4, PathOver
        <5>. QED BY <5>1 DEF OverPath
      <4>6. r \in Paths
        BY <4>4, TableShape, RestPath DEF Places
      <4>. HIDE DEF r
      <4>7. PathOf(ms, y) = RootfsPath \o (q \o r) /\ q \o r \in Paths
        <5>1. Joins(RootfsPath, q, r)
          BY <1>1, <4>3, <4>6, JoinFacts
        <5>. QED BY <4>3, <4>4, <4>5, <5>1 DEF Joins
      <4>. QED BY <3>2, <4>7 DEF k, y
    <3>. QED BY <3>3, <3>4
  <2>. HIDE DEF P
  <2>. QED BY <1>3, <2>1, <2>2
<1>4. 0 \in S
  <2>1. 0 \in 0..N /\ (H + 1)..0 = {}
    BY <1>1
  <2>. HIDE DEF H, N, P
  <2>. QED BY <2>1
<1>5. 0..N \subseteq S
  <2>. HIDE DEF S, N
  <2>. QED BY <1>1, <1>3, <1>4, Induction
<1>6. N \in S
  <2>1. N \in 0..N
    BY <1>1
  <2>. HIDE DEF S
  <2>. QED BY <1>5, <2>1
<1>. QED BY <1>2, <1>6 DEF InRootfs

(* The stack on the rootfs, found by its path.                             *)
LEMMA GrownStack ==
  ASSUME NEW G, NEW F, NEW ms, Table(ms, G, F), NEW h, Made(h), Grown(ms, h)
  PROVE  Stack(ms, h, RootStack(ms, h))
<1> DEFINE H == Len(h)
           N == Len(ms)
           U == RootStack(ms, h)
<1>1. /\ H \in Nat /\ H # 0 /\ N \in Nat /\ H < N /\ DOMAIN ms = 1..N /\ Ordered(ms)
      /\ Extends(ms, h) /\ RootfsPath \in Paths /\ <<>> \in Paths
  BY AtRootfsPlace, TableShape, NamedPaths DEF Grown
<1>2. H + 1 \in U
  <2>1. H + 1 \in (H + 1)..N
    BY <1>1
  <2>2. PathOf(ms, RootOf(ms, H + 1)) = PathOf(ms, Point(ms, H + 1))
    BY <2>1, GrownPaths DEF InRootfs
  <2>. QED BY <1>1, <2>1, <2>2, HostTop DEF Grown, RootStack
<1>3. U \subseteq (H + 1)..N
  BY DEF RootStack
<1>4. ASSUME NEW k \in DOMAIN ms, k > H + 1
      PROVE  ms[k].par > H /\ (k \in U <=> OnStack(ms, U, Point(ms, k)))
  <2> DEFINE y == Point(ms, k)
             r == Rest(ms[y.m].base, y.p)
  <2>1. k \in (H + 1)..N /\ ms[k].par > H /\ k # 1 /\ ms[k].par \in 1..(k - 1)
    BY <1>1, <1>4 DEF Grown, Ordered
  <2>2. PathOf(ms, RootOf(ms, k)) = PathOf(ms, y) /\ y \in Places(ms) /\ y.m = ms[k].par
        /\ y.p = ms[k].at /\ Under(ms[y.m].base, y.p)
    <3>1. Under(ms[ms[k].par].base, ms[k].at)
      BY <1>1, <1>4, <2>1 DEF Ordered
    <3>2. InRootfs(ms, k)
      BY <2>1, GrownPaths
    <3>. QED BY <3>1, <3>2 DEF Point, InRootfs
  <2>. HIDE DEF y
  <2>3. y.m \in (H + 1)..N /\ y.m # 1 /\ y.m \in DOMAIN ms /\ y.p \in Paths
        /\ ms[y.m].base \in Paths
    <3>1. y.m \in DOMAIN ms /\ y.p \in Paths /\ ms[y.m].base \in Paths
      BY <2>2, TableShape DEF Places
    <3>. QED BY <1>1, <2>1, <2>2, <3>1
  <2>4. PICK q \in Paths : PathOf(ms, RootOf(ms, y.m)) = RootfsPath \o q
    <3>1. InRootfs(ms, y.m)
      BY <2>3, GrownPaths
    <3>. QED BY <3>1 DEF InRootfs
  <2>5. PathOf(ms, y) = PathOf(ms, RootOf(ms, y.m)) \o r
    <3>1. OverPath(ms, y)
      BY <1>1, <2>2, <2>3, PathOver
    <3>. QED BY <3>1 DEF OverPath
  <2>6. r \in Paths /\ (r = <<>> <=> y.p = ms[y.m].base)
    BY <2>2, <2>3, RestPath, UnderFacts
  <2>. HIDE DEF r
  <2>7. Joins(RootfsPath, q, r)
    BY <1>1, <2>4, <2>6, JoinFacts
  <2>8. PathOf(ms, y) = RootfsPath <=> q = <<>> /\ r = <<>>
    BY <2>4, <2>5, <2>7 DEF Joins
  <2>9. PathOf(ms, RootOf(ms, y.m)) = RootfsPath <=> q = <<>>
    BY <2>4, <2>7 DEF Joins
  <2>10. k \in U <=> PathOf(ms, y) = RootfsPath
    BY <2>1, <2>2 DEF RootStack
  <2>11. y.m \in U <=> q = <<>>
    BY <2>3, <2>9 DEF RootStack
  <2>12. k \in U <=> OnStack(ms, U, y)
    BY <2>6, <2>8, <2>10, <2>11 DEF OnStack
  <2>. QED BY <2>1, <2>12 DEF y
<1>5. [m |-> ms[H + 1].par, p |-> ms[H + 1].at] = Top(h, AtRootfs)
  BY DEF Grown, Point
<1>. HIDE DEF U
<1>6. Stack(ms, h, U)
  BY <1>2, <1>3, <1>4, <1>5 DEF Stack, Point
<1>. QED BY <1>6 DEF U

(* The paths of places on the stack, and of those further down.            *)
LEMMA StackPaths ==
  ASSUME NEW G, NEW F, NEW ms, Table(ms, G, F), NEW h, Made(h), Grown(ms, h), NEW x
  PROVE  /\ OnStack(ms, RootStack(ms, h), x) /\ x \in Places(ms) => PathOf(ms, x) = RootfsPath
         /\ Low(ms, h, RootStack(ms, h), x) =>
              \E q \in Paths : q # <<>> /\ PathOf(ms, x) = RootfsPath \o q
<1> DEFINE H == Len(h)
           N == Len(ms)
           U == RootStack(ms, h)
           r == Rest(ms[x.m].base, x.p)
<1>1. /\ H \in Nat /\ H # 0 /\ N \in Nat /\ H < N /\ DOMAIN ms = 1..N /\ Ordered(ms)
      /\ RootfsPath \in Paths /\ <<>> \in Paths
  BY AtRootfsPlace, TableShape, NamedPaths DEF Grown
<1>2. U \subseteq (H + 1)..N
  BY DEF RootStack
<1>3. ASSUME x \in Places(ms), x.m > H
      PROVE  /\ x.m \in (H + 1)..N /\ x.m # 1 /\ x.p \in Paths /\ ms[x.m].base \in Paths /\ r \in Paths
             /\ PathOf(ms, x) = PathOf(ms, RootOf(ms, x.m)) \o r
  <2>1. x.m \in DOMAIN ms /\ x.p \in Paths /\ ms[x.m].base \in Paths
    BY <1>3, TableShape DEF Places
  <2>2. x.m \in (H + 1)..N /\ x.m # 1
    BY <1>1, <1>3, <2>1
  <2>3. OverPath(ms, x)
    BY <1>1, <1>3, <2>2, PathOver
  <2>. QED BY <2>1, <2>2, <2>3, RestPath DEF OverPath
<1>4. ASSUME OnStack(ms, U, x), x \in Places(ms) PROVE PathOf(ms, x) = RootfsPath
  <2>1. x.m \in U /\ x.p = ms[x.m].base /\ x.m > H
    BY <1>1, <1>2, <1>4 DEF OnStack
  <2>2. r = <<>> /\ PathOf(ms, x) = PathOf(ms, RootOf(ms, x.m)) \o r
    BY <1>3, <1>4, <2>1, UnderFacts
  <2>3. PathOf(ms, RootOf(ms, x.m)) = RootfsPath
    BY <2>1 DEF RootStack
  <2>. HIDE DEF r
  <2>. QED BY <1>1, <2>2, <2>3, JoinFacts DEF Joins
<1>5. ASSUME Low(ms, h, U, x)
      PROVE  \E q \in Paths : q # <<>> /\ PathOf(ms, x) = RootfsPath \o q
  <2>1. x \in Places(ms) /\ x.m > H /\ Under(ms[x.m].base, x.p) /\ ~OnStack(ms, U, x)
    BY <1>5 DEF Low, Proper
  <2>2. PICK p \in Paths : PathOf(ms, RootOf(ms, x.m)) = RootfsPath \o p
    <3>1. InRootfs(ms, x.m)
      BY <1>3, <2>1, GrownPaths
    <3>. QED BY <3>1 DEF InRootfs
  <2>3. r = <<>> => x.p = ms[x.m].base
    BY <1>3, <2>1, UnderFacts
  <2>4. PathOf(ms, x) = PathOf(ms, RootOf(ms, x.m)) \o r /\ r \in Paths
    BY <1>3, <2>1
  <2>. HIDE DEF r
  <2>5. Joins(RootfsPath, p, r)
    BY <1>1, <2>2, <2>4, JoinFacts
  <2>6. p = <<>> => x.m \in U
    <3>1. p = <<>> => PathOf(ms, RootOf(ms, x.m)) = RootfsPath
      BY <2>2, <2>5 DEF Joins
    <3>. QED BY <1>3, <2>1, <3>1 DEF RootStack
  <2>7. p \o r # <<>>
    <3>1. ~(p = <<>> /\ r = <<>>)
      BY <2>1, <2>3, <2>6 DEF OnStack
    <3>. QED BY <2>5, <3>1 DEF Joins
  <2>8. PathOf(ms, x) = RootfsPath \o (p \o r) /\ p \o r \in Paths
    BY <2>2, <2>4, <2>5 DEF Joins
  <2>. QED BY <2>7, <2>8
<1>. QED BY <1>4, <1>5

(* The stack has one top, the one a lookup of the rootfs ends at.          *)
LEMMA StackSame ==
  ASSUME NEW G, NEW F, NEW ms, Table(ms, G, F), NEW h, Made(h), Grown(ms, h)
  PROVE  /\ \A x \in Places(ms) :
              OnStack(ms, RootStack(ms, h), x) => Top(ms, x) = Top(ms, AtRootfs)
         /\ Top(ms, AtRootfs) \in Places(ms) /\ MountedAt(ms, Top(ms, AtRootfs)) = {}
         /\ OnStack(ms, RootStack(ms, h), Top(ms, AtRootfs))
<1> DEFINE H == Len(h)
           N == Len(ms)
           U == RootStack(ms, h)
           T == Top(ms, AtRootfs)
           S == {n \in 0..N : \A k \in U : k <= n => Top(ms, RootOf(ms, k)) = T}
<1>1. /\ H \in Nat /\ H # 0 /\ N \in Nat /\ H < N /\ DOMAIN ms = 1..N /\ Ordered(ms)
      /\ Extends(ms, h) /\ AtRootfs \in Places(ms)
  BY AtRootfsPlace, TableShape, HostTop DEF Grown
<1>2. Stack(ms, h, U) /\ H + 1 \in U /\ U \subseteq (H + 1)..N
  BY GrownStack DEF Stack
<1>. HIDE DEF U, T
<1>3. ASSUME NEW k \in U
      PROVE  Point(ms, k) \in Places(ms) /\ Top(ms, RootOf(ms, k)) = Top(ms, Point(ms, k))
             /\ k \in DOMAIN ms /\ k # 1 /\ ms[k].par \in 1..(k - 1)
  <2>1. k \in (H + 1)..N /\ k \in DOMAIN ms /\ k # 1
    BY <1>1, <1>2
  <2>2. Point(ms, k) \in Places(ms) /\ ms[k].live
    <3>1. k \in (Len(h) + 1)..Len(ms)
      BY <2>1
    <3>2. InRootfs(ms, k)
      BY <3>1, GrownPaths
    <3>3. ms[k].live
      BY <1>1, <2>1 DEF Ordered
    <3>. QED BY <3>2, <3>3 DEF InRootfs
  <2>3. k \in MountedAt(ms, Point(ms, k))
    BY <2>1, <2>2 DEF MountedAt, Point
  <2> DEFINE y == Point(ms, k)
  <2>4. y \in Places(ms) /\ k \in MountedAt(ms, y)
    BY <2>2, <2>3
  <2>. HIDE DEF y
  <2>5. Top(ms, [m |-> k, p |-> ms[k].base]) = Top(ms, y)
    BY <1>1, <2>4, TopOver
  <2>. QED BY <1>1, <2>1, <2>2, <2>5 DEF RootOf, Ordered, y
<1>4. ASSUME NEW n \in 0..N, n < N, n \in S PROVE n + 1 \in S
  <2>1. n + 1 \in 0..N /\ \A k \in U : k <= n + 1 => k <= n \/ k = n + 1
    BY <1>1, <1>2, <1>4
  <2>2. ASSUME n + 1 \in U PROVE Top(ms, RootOf(ms, n + 1)) = T
    <3> DEFINE k == n + 1
    <3>1. k \in U /\ k - 1 = n
      BY <1>4, <2>2
    <3>. HIDE DEF k
    <3>2. /\ Top(ms, RootOf(ms, k)) = Top(ms, Point(ms, k)) /\ k \in DOMAIN ms
          /\ ms[k].par \in 1..n
      BY <1>3, <3>1
    <3>3. CASE k = H + 1
      BY <1>1, <3>2, <3>3, HostTop DEF Grown, T, k
    <3>4. CASE k # H + 1
      <4>1. k > H + 1
        BY <1>1, <1>2, <3>1, <3>4
      <4>2. OnStack(ms, U, Point(ms, k))
        BY <1>2, <3>1, <3>2, <4>1 DEF Stack, Point
      <4>3. ms[k].par \in U /\ Point(ms, k) = RootOf(ms, ms[k].par) /\ ms[k].par <= n
        BY <3>2, <4>2 DEF OnStack, Point, RootOf
      <4>4. Top(ms, RootOf(ms, ms[k].par)) = T
        BY <1>4, <4>3
      <4>. QED BY <3>2, <4>3, <4>4 DEF k
    <3>. QED BY <3>3, <3>4
  <2>. HIDE DEF N
  <2>. QED BY <1>4, <2>1, <2>2
<1>5. 0 \in S
  <2>1. \A k \in U : ~(k <= 0)
    BY <1>1, <1>2
  <2>. QED BY <1>1, <2>1
<1>6. 0..N \subseteq S
  <2>. HIDE DEF S, N
  <2>. QED BY <1>1, <1>4, <1>5, Induction
<1>7. \A k \in U : Top(ms, RootOf(ms, k)) = T
  <2>1. N \in S /\ \A k \in U : k <= N
    BY <1>1, <1>2, <1>6
  <2>. QED BY <2>1
<1>8. ASSUME NEW x \in Places(ms), OnStack(ms, U, x) PROVE Top(ms, x) = T
  <2>1. x = RootOf(ms, x.m) /\ x.m \in U
    BY <1>8 DEF OnStack, RootOf, Places
  <2>. QED BY <1>7, <2>1
<1>9. OnStack(ms, U, T) /\ T \in Places(ms) /\ MountedAt(ms, T) = {}
  <2> DEFINE x == RootOf(ms, H + 1)
  <2>1. x \in Places(ms) /\ OnStack(ms, U, x)
    <3>1. H + 1 \in DOMAIN ms
      BY <1>1
    <3>2. ms[H + 1].base \in Paths
      BY <3>1, TableShape
    <3>. QED BY <1>2, <3>1, <3>2 DEF RootOf, OnStack, Places
  <2>. HIDE DEF x
  <2>2. OnStack(ms, U, Top(ms, x))
    BY <1>1, <1>2, <2>1, StackTop
  <2>3. Top(ms, x) = T
    BY <1>8, <2>1
  <2>. QED BY <1>1, <2>2, <2>3, TopFree DEF T
<1>. QED BY <1>8, <1>9 DEF U, T

(* Lookups from the stack or below it go down.                             *)
LeadsDown(K, h, start, path, at) ==
  /\ path = <<>> => at = start
  /\ path # <<>> => Low(K.ms, h, RootStack(K.ms, h), at)

LEMMA StackLookup ==
  ASSUME NEW G, NEW F, NEW K, Table(K.ms, G, F), NEW h, Made(h), Grown(K.ms, h),
         NEW start \in Places(K.ms), NEW path \in Paths,
         \/ OnStack(K.ms, RootStack(K.ms, h), start)
         \/ Low(K.ms, h, RootStack(K.ms, h), start)
  PROVE  LeadsDown(K, h, start, path, Lookup(K, start, path).at)
<1> DEFINE ms == K.ms
           U == RootStack(ms, h)
           N == Len(path)
           walk == Walk(ms, start, path)
           Z == {y \in Places(ms) : OnStack(ms, U, y) \/ Low(ms, h, U, y)}
<1>1. N \in Nat /\ path \in [1..N -> Names] /\ path \in Seq(Names)
  BY LenProperties DEF Paths
<1>2. walk[0] = start /\ \A n \in 1..N :
         walk[n] = Top(ms, [m |-> walk[n - 1].m, p |-> Append(walk[n - 1].p, path[n])])
  BY <1>1, WalkPlaces
<1>3. Lookup(K, start, path).at = walk[N] /\ \A n \in 0..N : walk[n] \in Places(ms)
  BY <1>1, WalkPlaces DEF Lookup, LookupAlong
<1>4. Ordered(ms) /\ Extends(ms, h) /\ Stack(ms, h, U)
  BY GrownStack DEF Grown
<1>. HIDE DEF walk, U
<1>5. ASSUME NEW n \in 1..N, walk[n - 1] \in Z
      PROVE  Low(ms, h, U, walk[n])
  <2> DEFINE x == walk[n - 1]
  <2>1. path[n] \in Names /\ x \in Places(ms) /\ (OnStack(ms, U, x) \/ Low(ms, h, U, x))
    BY <1>1, <1>5
  <2>2. walk[n] = Top(ms, [m |-> x.m, p |-> Append(x.p, path[n])])
    BY <1>2
  <2>. HIDE DEF x
  <2>. QED BY <1>4, <2>1, <2>2, LowStep
<1>6. \A n \in 0..N : walk[n] \in Z
  <2>1. walk[0] \in Z
    BY <1>2 DEF U
  <2>2. \A n \in 1..N : walk[n - 1] \in Z => walk[n] \in Z
    <3>1. \A n \in 1..N : n \in 0..N
      BY <1>1
    <3>. QED BY <1>3, <1>5, <3>1
  <2>. HIDE DEF Z, N
  <2>. QED BY <1>1, <2>1, <2>2, IterationStays
<1>7. path = <<>> => N = 0
  OBVIOUS
<1>8. path # <<>> => N \in 1..N /\ N - 1 \in 0..N
  <2>1. path # <<>> => N # 0
    BY <1>1, EmptySeq
  <2>. HIDE DEF N
  <2>. QED BY <1>1, <2>1
<1>9. path # <<>> => Low(ms, h, U, walk[N])
  BY <1>5, <1>6, <1>8
<1>. QED BY <1>2, <1>3, <1>7, <1>9 DEF U, LeadsDown

(* A lookup from the host's root by the path of the rootfs ends on top of  *)
(* the stack, one of a path below it ends further down.                    *)
LEMMA RootLookup ==
  ASSUME NEW G, NEW F, NEW K, Table(K.ms, G, F), K.ms # <<>>
  PROVE  Lookup(K, HostRoot, RootfsPath).at = Top(K.ms, AtRootfs)
<1> DEFINE at == Walk(K.ms, HostRoot, RootfsPath)
<1>1. Len(RootfsPath) = 1 /\ RootfsPath[1] = "r" /\ RootfsPath \in Paths /\ <<>> \in Paths
  BY NamedPaths DEF RootfsPath
<1>2. HostRoot \in Places(K.ms) /\ HostRoot.m = 1 /\ HostRoot.p = <<>>
  <2>1. K.ms \in Seq(MountRecords(G, F)) /\ DOMAIN K.ms = 1..Len(K.ms) /\ Len(K.ms) \in Nat
    BY TableShape DEF Table
  <2>2. 1 \in DOMAIN K.ms
    BY <2>1, EmptySeq
  <2>. QED BY <1>1, <2>2 DEF HostRoot, Places
<1>3. at[0] = HostRoot /\ at[1] = Top(K.ms, [m |-> at[0].m, p |-> Append(at[0].p, RootfsPath[1])])
  <2>1. 1 \in 1..Len(RootfsPath) /\ 1 - 1 = 0
    BY <1>1
  <2>. HIDE DEF at
  <2>. QED BY <1>1, <1>2, <2>1, WalkPlaces DEF at
<1>4. at[1] = Top(K.ms, AtRootfs)
  <2>1. Append(<<>>, "r") = <<"r">>
    OBVIOUS
  <2>. HIDE DEF at
  <2>. QED BY <1>1, <1>2, <1>3, <2>1 DEF AtRootfs, RootfsPath
<1>5. Lookup(K, HostRoot, RootfsPath).at = at[1]
  BY <1>1 DEF Lookup, LookupAlong
<1>. QED BY <1>4, <1>5

LEMMA BelowLookup ==
  ASSUME NEW G, NEW F, NEW K, Table(K.ms, G, F), NEW h, Made(h), Grown(K.ms, h),
         NEW q \in Paths, q # <<>>
  PROVE  Low(K.ms, h, RootStack(K.ms, h), Lookup(K, HostRoot, RootfsPath \o q).at)
<1> DEFINE ms == K.ms
           U == RootStack(ms, h)
           path == RootfsPath \o q
           N == Len(path)
           walk == Walk(ms, HostRoot, path)
           T == Top(ms, AtRootfs)
           S == {n \in 0..N : \/ n = 0
                              \/ n = 1 /\ walk[n] = T
                              \/ n > 1 /\ Low(ms, h, U, walk[n])}
<1>1. /\ path \in Paths /\ N = 1 + Len(q) /\ Len(q) \in Nat /\ Len(q) # 0 /\ path[1] = "r"
      /\ path \in [1..N -> Names] /\ N \in Nat
  <2>1. RootfsPath \in Seq(Names) /\ q \in Seq(Names) /\ Len(RootfsPath) = 1 /\ RootfsPath[1] = "r"
    BY NamedPaths DEF RootfsPath, Paths
  <2>2. path \in Seq(Names) /\ N = 1 + Len(q) /\ Len(q) \in Nat /\ Len(q) # 0
    BY <2>1, ConcatProperties, LenProperties, EmptySeq
  <2>3. 1 \in 1..(Len(RootfsPath) + Len(q)) /\ 1 <= Len(RootfsPath)
    BY <2>1, <2>2
  <2>4. path[1] = "r"
    BY <2>1, <2>3, ConcatProperties
  <2>5. path \in [1..N -> Names]
    <3>. HIDE DEF path
    <3>. QED BY <2>2, LenProperties
  <2>. QED BY <2>2, <2>4, <2>5 DEF Paths
<1>2. HostRoot \in Places(ms) /\ HostRoot.m = 1 /\ HostRoot.p = <<>>
  <2>1. 1 \in DOMAIN ms
    BY TableShape, AtRootfsPlace DEF Grown
  <2>. QED BY <2>1, NamedPaths DEF HostRoot, Places
<1>. HIDE DEF path
<1> DEFINE Steps == walk[0] = HostRoot /\ \A n \in 1..N :
                      walk[n] = Top(ms, [m |-> walk[n - 1].m, p |-> Append(walk[n - 1].p, path[n])])
           Stays == \A n \in 0..N : walk[n] \in Places(ms)
<1>3. Steps /\ Stays
  <2>. HIDE DEF U, T
  <2>1. HostRoot \in Places(K.ms) /\ path \in Paths
    BY <1>1, <1>2
  <2>. QED BY <2>1, WalkPlaces
<1>4. Lookup(K, HostRoot, path).at = walk[N] /\ Stays
  BY <1>1, <1>3 DEF Lookup, LookupAlong
<1>5. Ordered(ms) /\ Extends(ms, h) /\ Stack(ms, h, U) /\ OnStack(ms, U, T) /\ T \in Places(ms)
  BY GrownStack, StackSame DEF Grown
<1>. HIDE DEF walk, U, T
<1>6. 1 \in 1..N /\ walk[1] = Top(ms, AtRootfs)
  <2>1. 1 \in 1..N /\ 1 - 1 = 0
    BY <1>1
  <2>2. walk[1] = Top(ms, [m |-> walk[0].m, p |-> Append(walk[0].p, path[1])])
    BY <1>3, <2>1
  <2>3. Append(<<>>, "r") = <<"r">>
    OBVIOUS
  <2>. QED BY <1>1, <1>2, <1>3, <2>1, <2>2, <2>3 DEF AtRootfs, RootfsPath
<1>7. ASSUME NEW n \in 0..N, n < N, n \in S PROVE n + 1 \in S
  <2>1. n + 1 \in 1..N /\ (n + 1) - 1 = n /\ n + 1 \in 0..N
    BY <1>1, <1>7
  <2>2. CASE n = 0
    BY <1>6, <2>1, <2>2 DEF T
  <2>3. CASE n # 0
    <3> DEFINE x == walk[n]
    <3>1. x \in Places(ms) /\ (OnStack(ms, U, x) \/ Low(ms, h, U, x)) /\ path[n + 1] \in Names
      BY <1>1, <1>4, <1>5, <1>7, <2>1, <2>3
    <3>2. walk[n + 1] = Top(ms, [m |-> x.m, p |-> Append(x.p, path[n + 1])])
      BY <1>3, <2>1
    <3>. HIDE DEF x
    <3>3. Low(ms, h, U, walk[n + 1])
      BY <1>5, <3>1, <3>2, LowStep
    <3>4. n + 1 > 1
      BY <2>3
    <3>. QED BY <2>1, <3>3, <3>4
  <2>. QED BY <2>2, <2>3
<1>8. 0..N \subseteq S
  <2>1. 0 \in S
    BY <1>1
  <2>2. N \in Nat
    BY <1>1
  <2>. HIDE DEF S, N
  <2>. QED BY <1>7, <2>1, <2>2, Induction
<1>9. N \in 0..N /\ N > 1
  BY <1>1
<1>10. Low(ms, h, U, walk[N])
  BY <1>8, <1>9
<1>. QED BY <1>4, <1>10 DEF U, path

(* A descriptor on the stack is found again, by its path, on top of it,    *)
(* and one further down is found further down.                             *)
LEMMA ByPathStack ==
  ASSUME NEW G, NEW F, NEW K, Table(K.ms, G, F), NEW h, Made(h), Grown(K.ms, h),
         procRoot = HostRoot, NEW x \in Places(K.ms)
  PROVE  /\ OnStack(K.ms, RootStack(K.ms, h), x) => ByPath(K, x) = Top(K.ms, AtRootfs)
         /\ Low(K.ms, h, RootStack(K.ms, h), x) => Low(K.ms, h, RootStack(K.ms, h), ByPath(K, x))
<1>1. K.ms # <<>>
  <2>1. Len(K.ms) # 0
    BY TableShape, AtRootfsPlace DEF Grown
  <2>. QED BY <2>1
<1>2. ASSUME OnStack(K.ms, RootStack(K.ms, h), x)
      PROVE  ByPath(K, x) = Top(K.ms, AtRootfs)
  BY <1>1, <1>2, StackPaths, RootLookup DEF ByPath
<1>3. ASSUME Low(K.ms, h, RootStack(K.ms, h), x)
      PROVE  Low(K.ms, h, RootStack(K.ms, h), ByPath(K, x))
  <2>1. PICK q \in Paths : q # <<>> /\ PathOf(K.ms, x) = RootfsPath \o q
    BY <1>3, StackPaths
  <2>2. Low(K.ms, h, RootStack(K.ms, h), Lookup(K, HostRoot, RootfsPath \o q).at)
    BY <2>1, BelowLookup
  <2>. QED BY <2>1, <2>2 DEF ByPath
<1>. QED BY <1>2, <1>3

-----------------------------------------------------------------------------
(* What the calls of the kernel do to the stack.                           *)
Kept(ms, new) ==
  /\ DOMAIN ms \subseteq DOMAIN new
  /\ \A k \in DOMAIN ms : /\ new[k].par = ms[k].par /\ new[k].at = ms[k].at
                          /\ new[k].base = ms[k].base /\ new[k].live = ms[k].live

(* The stack of a longer table is the old one, and what is new on it.      *)
LEMMA KeptStack ==
  ASSUME NEW G, NEW F, NEW ms, Table(ms, G, F), NEW G2, NEW F2, NEW new, Table(new, G2, F2),
         NEW h, Made(h), Grown(ms, h), Grown(new, h), Kept(ms, new)
  PROVE  /\ \A k \in DOMAIN ms : k \in RootStack(ms, h) <=> k \in RootStack(new, h)
         /\ \A x \in Places(ms) :
              /\ x \in Places(new)
              /\ OnStack(ms, RootStack(ms, h), x) <=> OnStack(new, RootStack(new, h), x)
              /\ Low(ms, h, RootStack(ms, h), x) => Low(new, h, RootStack(new, h), x)
         /\ RootStack(new, h) \subseteq DOMAIN ms => Top(new, AtRootfs) = Top(ms, AtRootfs)
<1> DEFINE H == Len(h)
           N == Len(ms)
           U == RootStack(ms, h)
           V == RootStack(new, h)
           S == {n \in 0..N : \A k \in (H + 1)..n : k \in U <=> k \in V}
<1>1. /\ H \in Nat /\ H # 0 /\ N \in Nat /\ H < N /\ DOMAIN ms = 1..N /\ Ordered(ms)
      /\ Len(new) \in Nat /\ DOMAIN new = 1..Len(new) /\ Ordered(new)
  BY AtRootfsPlace, TableShape DEF Grown
<1>2. Stack(ms, h, U) /\ Stack(new, h, V)
  BY GrownStack
<1>3. H + 1 \in U /\ H + 1 \in V /\ U \subseteq (H + 1)..N /\ V \subseteq (H + 1)..Len(new)
  BY <1>2 DEF Stack
<1>. HIDE DEF U, V
<1>4. ASSUME NEW n \in 0..N, n < N, n \in S PROVE n + 1 \in S
  <2>1. n + 1 \in 0..N /\ \A k \in (H + 1)..(n + 1) : k \in (H + 1)..n \/ k = n + 1
    BY <1>1, <1>4
  <2>2. ASSUME n + 1 \in (H + 1)..(n + 1) PROVE n + 1 \in U <=> n + 1 \in V
    <3> DEFINE k == n + 1
    <3>1. k \in DOMAIN ms /\ k \in DOMAIN new /\ k - 1 = n /\ k \in (H + 1)..N /\ k # 1
      BY <1>1, <1>4, <2>2 DEF Kept
    <3>. HIDE DEF k
    <3>2. CASE k = H + 1
      BY <1>3, <3>2 DEF k
    <3>3. CASE k # H + 1
      <4>1. k > H + 1
        BY <1>1, <3>1, <3>3
      <4>2. ms[k].par > H /\ ms[k].par \in 1..n
        BY <1>1, <1>2, <3>1, <4>1 DEF Stack, Ordered
      <4>3. ms[k].par \in (H + 1)..n /\ ms[k].par \in DOMAIN ms
        BY <1>1, <3>1, <4>2
      <4>4. ms[k].par \in U <=> ms[k].par \in V
        BY <1>4, <4>3
      <4>5. new[k].par = ms[k].par /\ new[k].at = ms[k].at
            /\ new[ms[k].par].base = ms[ms[k].par].base
        BY <3>1, <4>3 DEF Kept
      <4>6. k \in U <=> OnStack(ms, U, [m |-> ms[k].par, p |-> ms[k].at])
        BY <1>2, <3>1, <4>1 DEF Stack
      <4>7. k \in V <=> OnStack(new, V, [m |-> new[k].par, p |-> new[k].at])
        BY <1>2, <3>1, <4>1 DEF Stack
      <4>. QED BY <4>4, <4>5, <4>6, <4>7 DEF OnStack, k
    <3>. QED BY <3>2, <3>3
  <2>. HIDE DEF N, H
  <2>. QED BY <1>4, <2>1, <2>2
<1>5. 0 \in S
  <2>1. 0 \in 0..N /\ (H + 1)..0 = {}
    BY <1>1
  <2>. HIDE DEF H, N
  <2>. QED BY <2>1
<1>6. 0..N \subseteq S
  <2>. HIDE DEF S, N
  <2>. QED BY <1>1, <1>4, <1>5, Induction
<1>7. \A k \in DOMAIN ms : k \in U <=> k \in V
  <2>1. N \in S
    BY <1>1, <1>6
  <2>2. \A k \in DOMAIN ms : k \in (H + 1)..N \/ (k \notin U /\ k \notin V)
    BY <1>1, <1>3
  <2>. QED BY <2>1, <2>2
<1>8. ASSUME NEW x \in Places(ms)
      PROVE  /\ x \in Places(new)
             /\ OnStack(ms, U, x) <=> OnStack(new, V, x)
             /\ Low(ms, h, U, x) => Low(new, h, V, x)
  <2>1. x.m \in DOMAIN ms /\ x.m \in DOMAIN new /\ new[x.m].base = ms[x.m].base /\ x \in Places(new)
    BY DEF Kept, Places
  <2>. QED BY <1>7, <2>1 DEF OnStack, Low, Proper
<1>9. ASSUME V \subseteq DOMAIN ms PROVE Top(new, AtRootfs) = Top(ms, AtRootfs)
  <2> DEFINE y == Top(ms, AtRootfs)
  <2>1. y \in Places(ms) /\ MountedAt(ms, y) = {} /\ OnStack(ms, U, y)
    BY StackSame DEF U
  <2>. HIDE DEF y
  <2>2. y \in Places(new) /\ OnStack(new, V, y) /\ y.m \in DOMAIN ms /\ y.m > H
    BY <1>1, <1>3, <1>8, <2>1 DEF OnStack, Places
  <2>3. ASSUME NEW k \in MountedAt(new, y) PROVE FALSE
    <3>1. k \in DOMAIN new /\ new[k].live /\ new[k].par = y.m /\ new[k].at = y.p
      BY DEF MountedAt
    <3>2. CASE k \in DOMAIN ms
      BY <2>1, <3>1, <3>2 DEF MountedAt, Kept
    <3>3. CASE k \notin DOMAIN ms
      <4>1. k > H + 1
        BY <1>1, <3>1, <3>3
      <4>2. [m |-> new[k].par, p |-> new[k].at] = y
        BY <2>2, <3>1 DEF Places
      <4>3. k \in V
        BY <1>2, <2>2, <3>1, <4>1, <4>2 DEF Stack
      <4>. QED BY <1>9, <3>3, <4>3
    <3>. QED BY <3>2, <3>3
  <2>4. Top(new, y) = y
    BY <1>1, <2>2, <2>3, TopFree
  <2>5. Top(new, y) = Top(new, AtRootfs)
    BY <2>2, StackSame DEF V
  <2>. QED BY <2>4, <2>5 DEF y
<1>. QED BY <1>7, <1>8, <1>9 DEF U, V

(* The stack is private but for some of its mounts, and so is what it is   *)
(* mounted on, and the root the mounter has is on it.                      *)
SoundBut(K, h, root, but) ==
  /\ Grown(K.ms, h)
  /\ \A k \in RootStack(K.ms, h) \ but : ~Shared(K.ms[k])
  /\ ~Shared(K.ms[K.ms[Len(h) + 1].par])
  /\ root \in Places(K.ms) /\ OnStack(K.ms, RootStack(K.ms, h), root)
  /\ K.err # "pivot_root"

Sound(K, h, root) == SoundBut(K, h, root, {})

(* A call that makes no mount and shares none of these.                    *)
LEMMA SoundKept ==
  ASSUME NEW G, NEW F, NEW K, Table(K.ms, G, F), NEW L, Table(L.ms, G, F), NEW h, Made(h),
         NEW root, NEW but, SoundBut(K, h, root, but),
         Kept(K.ms, L.ms), DOMAIN L.ms = DOMAIN K.ms, NEW but2,
         \A k \in RootStack(K.ms, h) \ but2 : ~Shared(L.ms[k]),
         ~Shared(L.ms[K.ms[Len(h) + 1].par]),
         L.err # "pivot_root"
  PROVE  /\ SoundBut(L, h, root, but2) /\ Top(L.ms, AtRootfs) = Top(K.ms, AtRootfs)
         /\ RootStack(L.ms, h) = RootStack(K.ms, h)
         /\ \A x \in Places(K.ms) : Low(K.ms, h, RootStack(K.ms, h), x)
                                      => Low(L.ms, h, RootStack(L.ms, h), x)
<1>1. /\ Len(h) \in Nat /\ Len(h) # 0 /\ Len(K.ms) \in Nat /\ DOMAIN K.ms = 1..Len(K.ms)
      /\ Len(L.ms) \in Nat /\ DOMAIN L.ms = 1..Len(L.ms) /\ DOMAIN h = 1..Len(h)
      /\ Len(h) < Len(K.ms) /\ Grown(K.ms, h)
  BY AtRootfsPlace, TableShape DEF Grown, SoundBut
<1>2. Len(L.ms) = Len(K.ms) /\ 1 \in DOMAIN K.ms /\ Len(h) + 1 \in DOMAIN K.ms
      /\ DOMAIN h \subseteq DOMAIN K.ms
  BY <1>1
<1>3. Ordered(L.ms)
  <2>1. \A k \in DOMAIN K.ms : k # 1 => K.ms[k].par \in DOMAIN K.ms
    BY <1>1 DEF Grown, Ordered
  <2>2. Ordered(K.ms) /\ Kept(K.ms, L.ms) /\ DOMAIN L.ms = DOMAIN K.ms
    BY <1>1 DEF Grown
  <2>3. ASSUME NEW k \in DOMAIN K.ms
        PROVE  /\ L.ms[k].par = K.ms[k].par /\ L.ms[k].at = K.ms[k].at
               /\ L.ms[k].base = K.ms[k].base /\ L.ms[k].live = K.ms[k].live
    BY <2>2 DEF Kept
  <2>4. ASSUME NEW k \in DOMAIN L.ms
        PROVE  /\ L.ms[k].live
               /\ k # 1 => /\ L.ms[k].par \in 1 .. (k - 1)
                           /\ Under(L.ms[L.ms[k].par].base, L.ms[k].at)
                           /\ L.ms[k].par # 1 \/ L.ms[k].at # <<>>
    <3>1. k \in DOMAIN K.ms
      BY <2>2
    <3>2. CASE k = 1
      BY <2>2, <2>3, <3>1, <3>2 DEF Ordered
    <3>3. CASE k # 1
      <4>1. K.ms[k].par \in DOMAIN K.ms
        BY <2>1, <3>1, <3>3
      <4>2. L.ms[K.ms[k].par].base = K.ms[K.ms[k].par].base
        BY <2>3, <4>1
      <4>. QED BY <2>2, <2>3, <3>1, <3>3, <4>2 DEF Ordered
    <3>. QED BY <3>2, <3>3
  <2>5. L.ms[1].par = NoMount /\ L.ms[1].base = <<>>
    BY <1>2, <2>2, <2>3 DEF Ordered
  <2>6. ASSUME NEW j \in DOMAIN L.ms, NEW k \in DOMAIN L.ms,
               L.ms[j].par = L.ms[k].par, L.ms[j].at = L.ms[k].at
        PROVE  j = k
    BY <2>2, <2>3, <2>6 DEF Ordered
  <2>. QED BY <2>4, <2>5, <2>6 DEF Ordered
<1>4. Grown(L.ms, h)
  BY <1>1, <1>2, <1>3 DEF Grown, Extends, Kept, Point
<1>5. RootStack(L.ms, h) \subseteq DOMAIN L.ms /\ RootStack(K.ms, h) \subseteq DOMAIN K.ms
  BY <1>1 DEF RootStack
<1>6. /\ \A k \in DOMAIN K.ms : k \in RootStack(K.ms, h) <=> k \in RootStack(L.ms, h)
      /\ \A x \in Places(K.ms) :
           /\ x \in Places(L.ms)
           /\ OnStack(K.ms, RootStack(K.ms, h), x) <=> OnStack(L.ms, RootStack(L.ms, h), x)
           /\ Low(K.ms, h, RootStack(K.ms, h), x) => Low(L.ms, h, RootStack(L.ms, h), x)
      /\ Top(L.ms, AtRootfs) = Top(K.ms, AtRootfs)
  BY <1>1, <1>4, <1>5, KeptStack
<1>7. RootStack(L.ms, h) = RootStack(K.ms, h)
  BY <1>5, <1>6
<1>8. L.ms[Len(h) + 1].par = K.ms[Len(h) + 1].par
  BY <1>2 DEF Kept
<1>. QED BY <1>4, <1>6, <1>7, <1>8 DEF SoundBut

(* Above all one that changes no mount.                                    *)
LEMMA SoundFiles ==
  ASSUME NEW G, NEW F, NEW K, Table(K.ms, G, F), NEW L, NEW h, Made(h), NEW root,
         NEW but, SoundBut(K, h, root, but), L.ms = K.ms, L.err # "pivot_root"
  PROVE  SoundBut(L, h, root, but) /\ Top(L.ms, AtRootfs) = Top(K.ms, AtRootfs)
BY DEF SoundBut

-----------------------------------------------------------------------------
(* Attaching a tree: the rows of the table it makes.                       *)
Attached(K, L, tree, top) ==
  LET n == Len(K.ms)
  IN  /\ n \in Nat /\ Len(tree) \in Nat /\ Len(tree) # 0 /\ DOMAIN tree = 1..Len(tree)
      /\ Len(L.ms) = n + Len(tree) /\ DOMAIN L.ms = 1..(n + Len(tree))
      /\ L.fs = K.fs /\ L.err = K.err
      /\ \A k \in 1..n : L.ms[k] = K.ms[k]
      /\ \A j \in DOMAIN tree :
           /\ L.ms[n + j].par = IF j = 1 THEN top.m ELSE tree[j].par
           /\ L.ms[n + j].at = IF j = 1 THEN top.p ELSE tree[j].at
           /\ L.ms[n + j].base = tree[j].base /\ L.ms[n + j].live = tree[j].live
           /\ L.ms[n + j].fs = tree[j].fs
           /\ ~Shared(K.ms[top.m]) => L.ms[n + j].group = tree[j].group

LEMMA AttachRows ==
  ASSUME NEW G, NEW F, NEW K, KernelOK(K, G, F), NEW top \in Places(K.ms),
         NEW tree, Tree(tree, Len(K.ms), G, F)
  PROVE  Attached(K, AttachOn(K, tree, top), tree, top)
<1> DEFINE parent == K.ms[top.m]
           group(g) == IF Shared(parent) /\ g \notin {"host", "own"} THEN parent.group ELSE g
           Placed(k) == [tree[k] EXCEPT !.group = group(@),
                                       !.par = IF k = 1 THEN top.m ELSE @,
                                       !.at = IF k = 1 THEN top.p ELSE @]
           placed == [k \in DOMAIN tree |-> Placed(k)]
           new == K.ms \o placed
           saw == K.hostSaw \/ parent.group = "host"
           L == [K EXCEPT !.ms = new, !.hostSaw = saw]
           n == Len(K.ms)
           t == Len(tree)
           R == MountRecords(G, F)
<1>1. n \in Nat /\ DOMAIN K.ms = 1..n /\ K.ms \in [1..n -> R]
  <2>1. Table(K.ms, G, F)
    BY KernelTable
  <2>2. K.ms \in Seq(R)
    BY <2>1 DEF Table
  <2>. HIDE DEF R
  <2>. QED BY <2>2, LenProperties
<1>2. /\ t \in Nat /\ DOMAIN tree = 1..t /\ t # 0 /\ 1 \in DOMAIN tree
      /\ \A k \in DOMAIN tree : tree[k] \in R
  <2>1. tree \in Seq(R) /\ tree # <<>>
    BY DEF Tree
  <2>. HIDE DEF R
  <2>. QED BY <2>1, LenProperties, EmptySeq
<1>3. ASSUME NEW k \in DOMAIN tree
      PROVE  /\ Placed(k).par = IF k = 1 THEN top.m ELSE tree[k].par
             /\ Placed(k).at = IF k = 1 THEN top.p ELSE tree[k].at
             /\ Placed(k).base = tree[k].base /\ Placed(k).live = tree[k].live
             /\ Placed(k).fs = tree[k].fs /\ Placed(k).group = group(tree[k].group)
  <2>1. tree[k] \in R
    BY <1>2
  <2>2. Placed(k) = [tree[k] EXCEPT !.group = group(tree[k].group),
                                    !.par = IF k = 1 THEN top.m ELSE tree[k].par,
                                    !.at = IF k = 1 THEN top.p ELSE tree[k].at]
    BY <2>1 DEF MountRecords
  <2>. HIDE DEF group, Placed
  <2>. QED BY <2>1, <2>2 DEF MountRecords
<1>4. DOMAIN placed = 1..t /\ placed \in Seq(Range(placed)) /\ Len(placed) = t
      /\ \A k \in 1..t : placed[k] = Placed(k)
  <2>1. DOMAIN placed = 1..t /\ \A k \in 1..t : placed[k] = Placed(k)
    <3>. HIDE DEF Placed
    <3>. QED BY <1>2
  <2>2. placed \in [1..t -> Range(placed)]
    <3>1. placed = [k \in DOMAIN placed |-> placed[k]]
      <4>. HIDE DEF Placed
      <4>. QED OBVIOUS
    <3>. HIDE DEF placed, t
    <3>2. \A k \in DOMAIN placed : placed[k] \in Range(placed)
      BY DEF Range
    <3>. QED BY <2>1, <3>1, <3>2
  <2>3. placed \in Seq(Range(placed)) /\ Len(placed) = t
    <3>. HIDE DEF placed, t
    <3>. QED BY <1>2, <2>2, SeqDef, LenProperties
  <2>. QED BY <2>1, <2>3
<1>5. /\ Len(new) = n + t /\ DOMAIN new = 1..(n + t)
      /\ \A k \in 1..n : new[k] = K.ms[k]
      /\ \A k \in 1..t : new[n + k] = placed[k]
  <2> DEFINE X == R \cup Range(placed)
  <2>1. K.ms \in Seq(X) /\ placed \in Seq(X)
    <3>1. K.ms \in Seq(R) /\ placed \in Seq(Range(placed))
      BY <1>4, KernelTable DEF Table
    <3>. HIDE DEF R, placed
    <3>. QED BY <3>1, SeqMonotonic
  <2>. HIDE DEF X, placed
  <2>2. /\ new \in Seq(X) /\ Len(new) = n + Len(placed)
        /\ \A k \in 1..n + Len(placed) : new[k] = IF k <= n THEN K.ms[k] ELSE placed[k - n]
    BY <2>1, ConcatProperties
  <2>3. DOMAIN new = 1..Len(new)
    <3>. HIDE DEF new
    <3>. QED BY <2>2, LenProperties
  <2>4. \A k \in 1..n : k \in 1..n + t /\ k <= n
    BY <1>1, <1>2
  <2>5. \A k \in 1..t : n + k \in 1..n + t /\ ~(n + k <= n) /\ (n + k) - n = k
    BY <1>1, <1>2
  <2>. HIDE DEF new, n, t
  <2>. QED BY <1>4, <2>2, <2>3, <2>4, <2>5
<1>6. L.ms = new /\ L.fs = K.fs /\ L.err = K.err
  <2>. HIDE DEF new, saw
  <2>1. L = [ms |-> new, fs |-> K.fs, hostSaw |-> saw, err |-> K.err]
    <3> DEFINE M == [ms |-> new, fs |-> K.fs, hostSaw |-> K.hostSaw, err |-> K.err]
    <3>1. [K EXCEPT !.ms = new] = M
      BY DEF KernelOK
    <3>2. [M EXCEPT !.hostSaw = saw] = [ms |-> new, fs |-> K.fs, hostSaw |-> saw, err |-> K.err]
      OBVIOUS
    <3>3. L = [[K EXCEPT !.ms = new] EXCEPT !.hostSaw = saw]
      OBVIOUS
    <3>. HIDE DEF L, M
    <3>. QED BY <3>1, <3>2, <3>3
  <2>. HIDE DEF L
  <2>. QED BY <2>1
<1>7. AttachOn(K, tree, top) = L
  BY DEF AttachOn
<1>8. ASSUME NEW j \in DOMAIN tree
      PROVE  /\ L.ms[n + j].par = IF j = 1 THEN top.m ELSE tree[j].par
             /\ L.ms[n + j].at = IF j = 1 THEN top.p ELSE tree[j].at
             /\ L.ms[n + j].base = tree[j].base /\ L.ms[n + j].live = tree[j].live
             /\ L.ms[n + j].fs = tree[j].fs
             /\ ~Shared(K.ms[top.m]) => L.ms[n + j].group = tree[j].group
  <2>1. L.ms[n + j] = Placed(j)
    <3>. HIDE DEF L, new, placed, Placed
    <3>. QED BY <1>2, <1>4, <1>5, <1>6
  <2>2. ~Shared(K.ms[top.m]) => group(tree[j].group) = tree[j].group
    OBVIOUS
  <2>. HIDE DEF L, Placed, group
  <2>. QED BY <1>3, <2>1, <2>2
<1>. HIDE DEF L, new
<1>9. Attached(K, L, tree, top)
  BY <1>1, <1>2, <1>5, <1>6, <1>8 DEF Attached
<1>. QED BY <1>7, <1>9

(* A tree that may be attached and keep the order.                         *)
TreeOrder(tree, n) ==
  /\ \A j \in DOMAIN tree :
       /\ tree[j].live
       /\ j # 1 => /\ tree[j].par \in (n + 1)..(n + j - 1)
                   /\ Under(tree[tree[j].par - n].base, tree[j].at)
  /\ \A j, k \in DOMAIN tree \ {1} :
       tree[j].par = tree[k].par /\ tree[j].at = tree[k].at => j = k

LEMMA AttachOrdered ==
  ASSUME NEW G, NEW F, NEW K, KernelOK(K, G, F), Ordered(K.ms), K.ms # <<>>, NEW top,
         Proper(K.ms, top), MountedAt(K.ms, top) = {}, top.m # 1 \/ top.p # <<>>,
         NEW tree, Tree(tree, Len(K.ms), G, F), TreeOrder(tree, Len(K.ms))
  PROVE  /\ Ordered(AttachOn(K, tree, top).ms) /\ Kept(K.ms, AttachOn(K, tree, top).ms)
         /\ \A j \in DOMAIN tree : j # 1 =>
              AttachOn(K, tree, top).ms[Len(K.ms) + j].par > Len(K.ms)
<1> DEFINE L == AttachOn(K, tree, top)
           ms == L.ms
           n == Len(K.ms)
           t == Len(tree)
           Row(k) == /\ ms[k].live
                     /\ k # 1 => /\ ms[k].par \in 1 .. (k - 1)
                                 /\ Under(ms[ms[k].par].base, ms[k].at)
                                 /\ ms[k].par # 1 \/ ms[k].at # <<>>
<1>1. /\ n \in Nat /\ t \in Nat /\ t # 0 /\ DOMAIN tree = 1..t /\ DOMAIN ms = 1..(n + t)
      /\ \A k \in 1..n : ms[k] = K.ms[k]
      /\ \A j \in DOMAIN tree :
           /\ ms[n + j].par = IF j = 1 THEN top.m ELSE tree[j].par
           /\ ms[n + j].at = IF j = 1 THEN top.p ELSE tree[j].at
           /\ ms[n + j].base = tree[j].base /\ ms[n + j].live = tree[j].live
  <2>1. Attached(K, L, tree, top)
    BY AttachRows DEF Proper
  <2>. HIDE DEF L
  <2>. QED BY <2>1 DEF Attached
<1>2. /\ DOMAIN K.ms = 1..n /\ n # 0 /\ top.m \in 1..n /\ top.p \in Paths
      /\ Under(K.ms[top.m].base, top.p)
  <2>1. DOMAIN K.ms = 1..n /\ n # 0
    <3>1. Table(K.ms, G, F) /\ K.ms \in Seq(MountRecords(G, F))
      BY KernelTable DEF Table
    <3>. QED BY <3>1, TableShape, EmptySeq
  <2>. QED BY <2>1 DEF Proper, Places
<1>. HIDE DEF ms, n, t
<1>3. ASSUME NEW k \in 1..n PROVE Row(k)
  <2>1. K.ms[k].live /\ (k # 1 => /\ K.ms[k].par \in 1 .. (k - 1)
                                  /\ Under(K.ms[K.ms[k].par].base, K.ms[k].at)
                                  /\ K.ms[k].par # 1 \/ K.ms[k].at # <<>>)
    BY <1>2 DEF Ordered
  <2>2. k # 1 => K.ms[k].par \in 1..n
    BY <1>1, <2>1
  <2>. QED BY <1>1, <2>1, <2>2
<1>4. ASSUME NEW j \in DOMAIN tree PROVE Row(n + j)
  <2>1. n + j \in Nat /\ n + j # 1 /\ ms[n + j].live
    BY <1>1, <1>2 DEF TreeOrder
  <2>2. CASE j = 1
    <3>1. ms[n + j].par = top.m /\ ms[n + j].at = top.p /\ ms[top.m] = K.ms[top.m]
      BY <1>1, <1>2, <2>2
    <3>2. top.m \in 1..(n + j - 1)
      BY <1>1, <1>2, <2>2
    <3> DEFINE k == n + j
    <3>0. ms[k].live
      BY <2>1
    <3>3. ms[k].par = top.m /\ ms[k].at = top.p /\ top.m \in 1..(k - 1)
      <4>1. n + (j - 1) = (n + j) - 1
        BY <1>1
      <4>. QED BY <3>1, <3>2, <4>1
    <3>4. Under(ms[top.m].base, top.p) /\ (top.m # 1 \/ top.p # <<>>)
      BY <1>2, <3>1
    <3>5. Row(k)
      <4>. HIDE DEF k
      <4>. QED BY <3>0, <3>3, <3>4
    <3>. QED BY <3>5
  <2>3. CASE j # 1
    <3>1. ms[n + j].par = tree[j].par /\ ms[n + j].at = tree[j].at
      BY <1>1, <2>3
    <3>2. tree[j].par \in (n + 1)..(n + j - 1) /\ Under(tree[tree[j].par - n].base, tree[j].at)
      BY <2>3 DEF TreeOrder, n
    <3> DEFINE par == tree[j].par
               o == par - n
    <3>3. o \in DOMAIN tree /\ par = n + o /\ par \in 1..(n + j - 1) /\ par # 1
      <4>1. par \in (n + 1)..(n + j - 1)
        BY <3>2
      <4>. HIDE DEF par
      <4>. QED BY <1>1, <1>2, <4>1
    <3>4. ms[par].base = tree[o].base
      <4>. HIDE DEF par, o
      <4>. QED BY <1>1, <3>3
    <3>5. Under(ms[par].base, tree[j].at)
      BY <3>2, <3>4
    <3> DEFINE k == n + j
    <3>0. ms[k].live
      BY <2>1
    <3>6. ms[k].par = par /\ ms[k].at = tree[j].at
      BY <3>1
    <3>7. par \in 1..(k - 1) /\ par # 1
      <4>1. n + (j - 1) = (n + j) - 1
        BY <1>1
      <4>. HIDE DEF par, o
      <4>. QED BY <3>3, <4>1
    <3>8. Row(k)
      <4>. HIDE DEF k, par, o
      <4>. QED BY <3>0, <3>5, <3>6, <3>7
    <3>. QED BY <3>8
  <2>. QED BY <2>2, <2>3
<1>5. ASSUME NEW k \in DOMAIN ms PROVE k \in 1..n \/ \E j \in DOMAIN tree : k = n + j
  <2>1. k \in 1..(n + t)
    BY <1>1
  <2>2. k \in 1..n \/ (k - n \in 1..t /\ k = n + (k - n))
    BY <1>1, <2>1
  <2>. QED BY <1>1, <2>2
<1>6. ASSUME NEW k \in DOMAIN ms PROVE Row(k)
  <2>. HIDE DEF Row
  <2>. QED BY <1>3, <1>4, <1>5
<1>7. ASSUME NEW j \in DOMAIN tree, j # 1 PROVE ms[n + j].par > n
  <2>1. ms[n + j].par = tree[j].par /\ tree[j].par \in (n + 1)..(n + j - 1)
    BY <1>1, <1>7 DEF TreeOrder, n
  <2>. QED BY <1>1, <2>1
<1>8. ASSUME NEW a \in DOMAIN ms, NEW b \in DOMAIN ms, ms[a].par = ms[b].par, ms[a].at = ms[b].at,
             a # b
      PROVE  FALSE
  <2>1. ASSUME NEW x \in 1..n
        PROVE  ms[x].par <= n /\ ms[x] = K.ms[x] /\ ms[x].par \in Nat
    <3>1. K.ms[x].par \in DOMAIN K.ms \cup {NoMount}
      BY <1>2, KernelTable DEF Table
    <3>. QED BY <1>1, <1>2, <3>1 DEF NoMount
  <2>2. ASSUME NEW x \in 1..n, NEW j \in DOMAIN tree, ms[x].par = ms[n + j].par, ms[x].at = ms[n + j].at
        PROVE  FALSE
    <3>1. CASE j = 1
      <4>1. K.ms[x].par = top.m /\ K.ms[x].at = top.p /\ K.ms[x].live
        BY <1>1, <1>2, <2>2, <3>1 DEF Ordered
      <4>. QED BY <1>2, <4>1 DEF MountedAt
    <3>2. CASE j # 1
      <4>1. ms[n + j].par > n
        BY <1>7, <3>2
      <4>. QED BY <1>1, <2>1, <2>2, <4>1
    <3>. QED BY <3>1, <3>2
  <2>3. ASSUME a \in 1..n, b \in 1..n PROVE FALSE
    BY <1>2, <1>8, <2>1, <2>3 DEF Ordered
  <2>4. ASSUME NEW j \in DOMAIN tree, NEW k \in DOMAIN tree, a = n + j, b = n + k PROVE FALSE
    <3>1. CASE j = 1 /\ k # 1
      <4>1. ms[n + k].par > n /\ ms[n + j].par = top.m
        BY <1>1, <1>7, <3>1
      <4>. QED BY <1>1, <1>2, <1>8, <2>4, <4>1
    <3>2. CASE j # 1 /\ k = 1
      <4>1. ms[n + j].par > n /\ ms[n + k].par = top.m
        BY <1>1, <1>7, <3>2
      <4>. QED BY <1>1, <1>2, <1>8, <2>4, <4>1
    <3>3. CASE j # 1 /\ k # 1
      <4>1. tree[j].par = tree[k].par /\ tree[j].at = tree[k].at
        BY <1>1, <1>8, <2>4, <3>3
      <4>2. j = k
        BY <3>3, <4>1 DEF TreeOrder
      <4>. QED BY <1>8, <2>4, <4>2
    <3>4. CASE j = 1 /\ k = 1
      BY <1>8, <2>4, <3>4
    <3>. QED BY <3>1, <3>2, <3>3, <3>4
  <2>. QED BY <1>5, <1>8, <2>2, <2>3, <2>4
<1>9. ms[1].par = NoMount /\ ms[1].base = <<>>
  <2>1. 1 \in 1..n
    BY <1>1, <1>2
  <2>. QED BY <1>1, <2>1 DEF Ordered
<1>10. Ordered(ms)
  BY <1>6, <1>8, <1>9 DEF Ordered
<1>11. Kept(K.ms, ms)
  BY <1>1, <1>2 DEF Kept
<1>. QED BY <1>7, <1>10, <1>11 DEF ms, n

(* Attached in the container, the mounts of a tree are the container's.    *)
LEMMA AttachGrown ==
  ASSUME NEW G, NEW F, Allowed(G, F), NEW K, KernelOK(K, G, F), NEW h, Made(h),
         Grown(K.ms, h), NEW top, Proper(K.ms, top), top.m > Len(h),
         MountedAt(K.ms, top) = {}, NEW tree, Tree(tree, Len(K.ms), G, F),
         TreeOrder(tree, Len(K.ms))
  PROVE  /\ Grown(AttachOn(K, tree, top).ms, h) /\ Table(AttachOn(K, tree, top).ms, G, F)
         /\ Kept(K.ms, AttachOn(K, tree, top).ms)
<1> DEFINE L == AttachOn(K, tree, top)
           ms == L.ms
           n == Len(K.ms)
           t == Len(tree)
           H == Len(h)
<1>1. /\ n \in Nat /\ t \in Nat /\ t # 0 /\ DOMAIN tree = 1..t /\ DOMAIN ms = 1..(n + t)
      /\ Len(ms) = n + t
      /\ \A j \in DOMAIN tree : j = 1 => ms[n + j].par = top.m
  <2>1. Attached(K, L, tree, top)
    BY AttachRows DEF Proper
  <2>. HIDE DEF L
  <2>. QED BY <2>1 DEF Attached
<1>2. /\ H \in Nat /\ H # 0 /\ DOMAIN h = 1..H /\ DOMAIN K.ms = 1..n /\ H < n
      /\ K.ms # <<>> /\ top.m # 1 /\ Ordered(K.ms)
  <2>1. H \in Nat /\ H # 0 /\ DOMAIN h = 1..H /\ DOMAIN K.ms = 1..n /\ H < n
    BY AtRootfsPlace, KernelTable, TableShape DEF Grown
  <2>2. top.m # 1
    <3>1. top.m \in DOMAIN K.ms
      BY DEF Proper, Places
    <3>. HIDE DEF H, n
    <3>. QED BY <2>1, <3>1 DEF H
  <2>3. K.ms # <<>>
    <3>1. 1 \in DOMAIN K.ms
      <4>1. n \in Nat
        BY <1>1
      <4>. HIDE DEF n, H
      <4>. QED BY <2>1, <4>1
    <3>. QED BY <3>1
  <2>. QED BY <2>1, <2>2, <2>3 DEF Grown
<1>3. /\ Ordered(ms) /\ Kept(K.ms, ms)
      /\ \A j \in DOMAIN tree : j # 1 => ms[n + j].par > n
  BY <1>2, AttachOrdered
<1>4. Table(ms, G, F)
  <2>1. Keeps(K, L, G, F)
    BY AttachOnKeeps DEF Proper
  <2>. HIDE DEF L
  <2>. QED BY <2>1, KernelTable DEF Keeps, Holds
<1>. HIDE DEF ms, L
<1>5. Extends(ms, h)
  <2>1. \A k \in DOMAIN h : k \in DOMAIN K.ms
    BY <1>2
  <2>2. H <= n + t
    <3>. HIDE DEF n, t, H
    <3>. QED BY <1>1, <1>2
  <2>. QED BY <1>1, <1>2, <1>3, <2>1, <2>2 DEF Extends, Kept, Grown
<1>6. H + 1 \in DOMAIN K.ms /\ H < n + t
  <2>. HIDE DEF n, t, H
  <2>. QED BY <1>1, <1>2
<1>7. Point(ms, H + 1) = Top(h, AtRootfs)
  BY <1>3, <1>6 DEF Point, Kept, Grown
<1>8. ASSUME NEW k \in DOMAIN ms, k > H + 1 PROVE ms[k].par > H
  <2>1. CASE k \in 1..n
    BY <1>2, <1>3, <1>8, <2>1 DEF Kept, Grown
  <2>2. CASE k \notin 1..n
    <3> DEFINE j == k - n
    <3>1. j \in DOMAIN tree /\ k = n + j
      <4>1. k \in 1..(n + t)
        BY <1>1
      <4>. HIDE DEF n, t
      <4>. QED BY <1>1, <2>2, <4>1
    <3>. HIDE DEF j
    <3>2. j = 1 => ms[k].par = top.m
      BY <1>1, <3>1
    <3>3. j # 1 => ms[k].par > n
      BY <1>3, <3>1
    <3>4. ms[k].par \in Nat
      BY <1>4, TableShape
    <3>5. j # 1 => ms[k].par > H
      <4>. HIDE DEF n, H
      <4>. QED BY <1>1, <1>2, <3>3, <3>4
    <3>. QED BY <3>2, <3>5
  <2>. QED BY <2>1, <2>2
<1>9. Grown(ms, h)
  BY <1>1, <1>3, <1>5, <1>6, <1>7, <1>8 DEF Grown
<1>. QED BY <1>3, <1>4, <1>9 DEF ms, L

(* Attached below the stack, a tree leaves it as it is.                    *)
LEMMA AttachLow ==
  ASSUME NEW G, NEW F, Allowed(G, F), NEW K, KernelOK(K, G, F), NEW h, Made(h), NEW root,
         NEW but, SoundBut(K, h, root, but), NEW top,
         Low(K.ms, h, RootStack(K.ms, h), top), MountedAt(K.ms, top) = {},
         NEW tree, Tree(tree, Len(K.ms), G, F), TreeOrder(tree, Len(K.ms))
  PROVE  /\ SoundBut(AttachOn(K, tree, top), h, root, but)
         /\ Top(AttachOn(K, tree, top).ms, AtRootfs) = Top(K.ms, AtRootfs)
<1> DEFINE L == AttachOn(K, tree, top)
           ms == L.ms
           n == Len(K.ms)
           t == Len(tree)
           H == Len(h)
           U == RootStack(K.ms, h)
           V == RootStack(ms, h)
           S == {m \in 0..(n + t) : \A k \in (n + 1)..m : k \notin V}
<1>1. /\ n \in Nat /\ t \in Nat /\ t # 0 /\ DOMAIN tree = 1..t /\ DOMAIN ms = 1..(n + t)
      /\ Len(ms) = n + t /\ L.err = K.err
      /\ \A k \in 1..n : ms[k] = K.ms[k]
      /\ \A j \in DOMAIN tree :
           /\ ms[n + j].par = IF j = 1 THEN top.m ELSE tree[j].par
           /\ ms[n + j].at = IF j = 1 THEN top.p ELSE tree[j].at
  <2>1. Attached(K, L, tree, top)
    BY AttachRows DEF Low, Proper
  <2>. HIDE DEF L
  <2>. QED BY <2>1 DEF Attached
<1>2. /\ Grown(K.ms, h) /\ Grown(ms, h) /\ Table(ms, G, F) /\ Kept(K.ms, ms)
      /\ Table(K.ms, G, F) /\ Proper(K.ms, top) /\ top \in Places(K.ms)
  BY AttachGrown, KernelTable DEF SoundBut, Low, Proper
<1>3. /\ H \in Nat /\ H # 0 /\ DOMAIN K.ms = 1..n /\ H < n /\ Stack(ms, h, V)
      /\ V \subseteq (H + 1)..(n + t) /\ U \subseteq (H + 1)..n
  <2>1. H \in Nat /\ H # 0 /\ DOMAIN K.ms = 1..n /\ H < n
    BY <1>2, AtRootfsPlace, TableShape DEF Grown
  <2>2. Stack(ms, h, V)
    BY <1>2, GrownStack
  <2>3. V \subseteq (H + 1)..Len(ms) /\ U \subseteq (H + 1)..n
    BY DEF RootStack
  <2>. HIDE DEF V, U, H, n, t, ms
  <2>. QED BY <1>1, <2>1, <2>2, <2>3
<1>4. Low(ms, h, V, top)
  BY <1>2, KeptStack
<1>. HIDE DEF ms, V, n, t, H, U
<1>5. ASSUME NEW m \in 0..(n + t), m < n + t, m \in S PROVE m + 1 \in S
  <2>1. m + 1 \in 0..(n + t) /\ \A k \in (n + 1)..(m + 1) : k \in (n + 1)..m \/ k = m + 1
    BY <1>1, <1>5
  <2>2. ASSUME m + 1 \in (n + 1)..(m + 1) PROVE m + 1 \notin V
    <3> DEFINE j == (m + 1) - n
    <3>1. j \in DOMAIN tree /\ m + 1 = n + j /\ m + 1 > H + 1 /\ m + 1 \in DOMAIN ms
      BY <1>1, <1>3, <1>5, <2>2
    <3>. HIDE DEF j
    <3>2. m + 1 \in V <=> OnStack(ms, V, Point(ms, m + 1))
      BY <1>3, <3>1 DEF Stack, Point, H
    <3>3. CASE j = 1
      <4>1. Point(ms, m + 1) = top
        BY <1>1, <1>2, <3>1, <3>3 DEF Point, Places
      <4>. QED BY <1>4, <3>2, <4>1 DEF Low
    <3>4. CASE j # 1
      <4>1. ms[m + 1].par = tree[j].par
        BY <1>1, <3>1, <3>4
      <4>2. tree[j].par \in (n + 1)..(n + j - 1)
        BY <3>1, <3>4 DEF TreeOrder, n
      <4>3. ms[m + 1].par \in (n + 1)..m
        BY <1>1, <1>5, <3>1, <4>1, <4>2
      <4>4. ms[m + 1].par \notin V
        BY <1>5, <4>3
      <4>. QED BY <3>2, <4>4 DEF OnStack, Point
    <3>. QED BY <3>3, <3>4
  <2>. QED BY <1>5, <2>1, <2>2
<1>6. V \subseteq DOMAIN K.ms
  <2>1. 0 \in S
    <3>1. (n + 1)..0 = {} /\ 0 \in 0..(n + t)
      BY <1>1
    <3>. QED BY <3>1
  <2> DEFINE N == n + t
  <2>2. N \in Nat /\ 0..N \subseteq S
    <3>1. N \in Nat
      BY <1>1
    <3>2. \A m \in 0..N : m < N /\ m \in S => m + 1 \in S
      BY <1>5
    <3>. HIDE DEF S, N
    <3>. QED BY <2>1, <3>1, <3>2, Induction
  <2>3. n + t \in S
    BY <2>2
  <2>4. \A k \in 1..(n + t) : k \in 1..n \/ k \in (n + 1)..(n + t)
    BY <1>1
  <2>5. V \subseteq 1..(n + t)
    BY <1>1, <1>3
  <2>. QED BY <1>3, <2>3, <2>4, <2>5
<1>7. /\ \A k \in DOMAIN K.ms : k \in U <=> k \in V
      /\ \A x \in Places(K.ms) : x \in Places(ms) /\ (OnStack(K.ms, U, x) <=> OnStack(ms, V, x))
      /\ Top(ms, AtRootfs) = Top(K.ms, AtRootfs)
  BY <1>2, <1>6, KeptStack DEF U, V
<1>8. \A k \in V \ but : ~Shared(ms[k])
  <2>1. \A k \in V : k \in U /\ k \in 1..n
    BY <1>3, <1>6, <1>7
  <2>. QED BY <1>1, <2>1 DEF SoundBut, U
<1>9. ~Shared(ms[ms[H + 1].par])
  <2>1. H + 1 \in 1..n /\ ms[H + 1].par = K.ms[H + 1].par
    BY <1>1, <1>3
  <2>2. K.ms[H + 1].par \in DOMAIN K.ms
    <3>1. H + 1 \in DOMAIN K.ms /\ H + 1 # 1
      BY <1>3, <2>1
    <3>2. K.ms[H + 1].par \in 1..((H + 1) - 1)
      BY <1>2, <3>1 DEF Grown, Ordered
    <3> DEFINE par == K.ms[H + 1].par
    <3>3. n \in Nat /\ par \in 1..((H + 1) - 1)
      BY <1>1, <3>2
    <3>4. par \in 1..n
      <4>. HIDE DEF par
      <4>. QED BY <1>3, <3>3
    <3>. QED BY <1>3, <3>4
  <2>. QED BY <1>1, <1>3, <2>1, <2>2 DEF SoundBut, H
<1>10. SoundBut(L, h, root, but)
  BY <1>1, <1>2, <1>7, <1>8, <1>9 DEF SoundBut, U, V, H, ms
<1>. QED BY <1>7, <1>10 DEF ms

(* Attached on the stack, it puts its first mount on top.                  *)
Stacked(K, L, h, root, tree) ==
  LET n == Len(K.ms)
      V == RootStack(L.ms, h)
  IN  /\ \A but : (\A j \in DOMAIN tree : n + j \in V => n + j \in but \/ ~Shared(tree[j]))
                  => SoundBut(L, h, root, but)
      /\ (\A j \in DOMAIN tree : n + j \in V => j = 1) => Top(L.ms, AtRootfs).m = n + 1
      /\ \A j \in DOMAIN tree : j # 1 /\ n + j \in V =>
           /\ tree[j].par \in V
           /\ tree[j].par - n \in DOMAIN tree /\ tree[j].at = tree[tree[j].par - n].base

LEMMA AttachStack ==
  ASSUME NEW G, NEW F, Allowed(G, F), NEW K, KernelOK(K, G, F), NEW h, Made(h), NEW root,
         Sound(K, h, root), NEW tree, Tree(tree, Len(K.ms), G, F), TreeOrder(tree, Len(K.ms))
  PROVE  Stacked(K, AttachOn(K, tree, Top(K.ms, AtRootfs)), h, root, tree)
<1> DEFINE top == Top(K.ms, AtRootfs)
           L == AttachOn(K, tree, top)
           ms == L.ms
           n == Len(K.ms)
           t == Len(tree)
           H == Len(h)
           U == RootStack(K.ms, h)
           V == RootStack(ms, h)
<1>2. /\ Grown(K.ms, h) /\ Table(K.ms, G, F) /\ top \in Places(K.ms) /\ OnStack(K.ms, U, top)
      /\ MountedAt(K.ms, top) = {}
  BY KernelTable, StackSame DEF Sound, SoundBut
<1>3. /\ H \in Nat /\ H # 0 /\ DOMAIN K.ms = 1..n /\ n \in Nat /\ H < n /\ U \subseteq (H + 1)..n
  BY <1>2, AtRootfsPlace, TableShape DEF Grown, RootStack
<1>. HIDE DEF top
<1>1. /\ t \in Nat /\ t # 0 /\ DOMAIN tree = 1..t /\ DOMAIN ms = 1..(n + t)
      /\ Len(ms) = n + t /\ L.err = K.err
      /\ \A k \in 1..n : ms[k] = K.ms[k]
      /\ \A j \in DOMAIN tree :
           /\ ms[n + j].par = IF j = 1 THEN top.m ELSE tree[j].par
           /\ ms[n + j].at = IF j = 1 THEN top.p ELSE tree[j].at
           /\ ms[n + j].base = tree[j].base /\ ms[n + j].live = tree[j].live
           /\ ~Shared(K.ms[top.m]) => ms[n + j].group = tree[j].group
  <2>1. Attached(K, L, tree, top)
    BY <1>2, AttachRows
  <2>. HIDE DEF L
  <2>. QED BY <2>1 DEF Attached
<1>4. top.m \in U /\ top.m > H /\ Proper(K.ms, top) /\ ~Shared(K.ms[top.m])
  <2>1. top.m \in U /\ top.p = K.ms[top.m].base /\ top.m > H /\ top.p \in Paths
    BY <1>2, <1>3 DEF OnStack, Places
  <2>. QED BY <1>2, <2>1, UnderFacts DEF Proper, Sound, SoundBut
<1>5. Grown(ms, h) /\ Table(ms, G, F) /\ Kept(K.ms, ms) /\ Stack(ms, h, V) /\ Ordered(ms)
  <2>1. Grown(ms, h) /\ Table(ms, G, F) /\ Kept(K.ms, ms)
    <3>. HIDE DEF H
    <3>. QED BY <1>2, <1>4, AttachGrown DEF H
  <2>. QED BY <2>1, GrownStack DEF Grown
<1>6. /\ \A k \in DOMAIN K.ms : k \in U <=> k \in V
      /\ \A x \in Places(K.ms) : x \in Places(ms) /\ (OnStack(K.ms, U, x) <=> OnStack(ms, V, x))
  BY <1>2, <1>5, KeptStack
<1>. HIDE DEF ms, V, n, t, H, U
<1>7. \A k \in DOMAIN ms : k \in 1..n \/ \E j \in DOMAIN tree : k = n + j
  <2>1. ASSUME NEW k \in DOMAIN ms PROVE k \in 1..n \/ (k - n \in 1..t /\ k = n + (k - n))
    <3>1. k \in 1..(n + t)
      BY <1>1
    <3>. QED BY <1>1, <1>3, <3>1
  <2>. QED BY <1>1, <2>1
<1>8. ASSUME NEW but, \A j \in DOMAIN tree : n + j \in V => n + j \in but \/ ~Shared(tree[j])
      PROVE  SoundBut(L, h, root, but)
  <2>1. \A k \in V \ but : ~Shared(ms[k])
    <3>1. V \subseteq DOMAIN ms
      BY <1>1, <1>3 DEF V, RootStack, H
    <3>2. ASSUME NEW k \in V \ but PROVE ~Shared(ms[k])
      <4>1. CASE k \in 1..n
        BY <1>1, <1>3, <1>6, <3>2, <4>1 DEF Sound, SoundBut, U
      <4>2. ASSUME NEW j \in DOMAIN tree, k = n + j PROVE ~Shared(ms[k])
        BY <1>1, <1>4, <1>8, <3>2, <4>2 DEF Shared
      <4>. QED BY <1>7, <3>1, <3>2, <4>1, <4>2
    <3>. QED BY <3>2
  <2>2. ~Shared(ms[ms[H + 1].par])
    <3>1. H + 1 \in 1..n /\ ms[H + 1].par = K.ms[H + 1].par
      BY <1>1, <1>3
    <3>2. K.ms[H + 1].par \in DOMAIN K.ms
      <4>1. H + 1 \in DOMAIN K.ms /\ H + 1 # 1
        BY <1>3, <3>1
      <4>2. K.ms[H + 1].par \in 1..((H + 1) - 1)
        BY <1>2, <4>1 DEF Grown, Ordered
      <4>. QED BY <1>3, <4>2
    <3>. QED BY <1>1, <1>3, <3>1, <3>2 DEF Sound, SoundBut, H
  <2>. QED BY <1>1, <1>5, <1>6, <2>1, <2>2 DEF Sound, SoundBut, U, V, H, ms
<1>9. n + 1 \in DOMAIN ms /\ n + 1 \in V
  <2>1. 1 \in DOMAIN tree /\ n + 1 \in DOMAIN ms /\ n + 1 > H + 1
    BY <1>1, <1>3
  <2>2. Point(ms, n + 1) = top
    BY <1>1, <1>2, <2>1 DEF Point, Places
  <2>3. OnStack(ms, V, top)
    BY <1>2, <1>6
  <2>. QED BY <1>5, <2>1, <2>2, <2>3 DEF Stack, Point, H
<1>10. ASSUME \A j \in DOMAIN tree : n + j \in V => j = 1
       PROVE  Top(ms, AtRootfs).m = n + 1
  <2> DEFINE y == RootOf(ms, n + 1)
  <2>1. y \in Places(ms) /\ OnStack(ms, V, y) /\ y.m = n + 1
    <3>1. ms[n + 1].base \in Paths
      BY <1>5, <1>9, TableShape
    <3>. QED BY <1>9, <3>1 DEF RootOf, Places, OnStack
  <2>. HIDE DEF y
  <2>2. ASSUME NEW k \in MountedAt(ms, y) PROVE FALSE
    <3>1. k \in DOMAIN ms /\ ms[k].par = n + 1 /\ Point(ms, k) = y
      BY <2>1 DEF MountedAt, Point, Places
    <3>2. k # 1
      BY <1>3, <1>5, <3>1 DEF Ordered, NoMount
    <3>3. n + 1 \in 1..(k - 1) /\ k \in Nat
      BY <1>1, <1>5, <3>1, <3>2 DEF Ordered
    <3>4. k > n + 1 /\ k > H + 1
      BY <1>3, <3>3
    <3>5. k \in V
      BY <1>5, <2>1, <3>1, <3>4 DEF Stack, Point, H
    <3>6. PICK j \in DOMAIN tree : k = n + j
      BY <1>3, <1>7, <3>1, <3>4
    <3>7. j = 1
      BY <1>10, <3>5, <3>6
    <3>. QED BY <1>3, <3>4, <3>6, <3>7
  <2>3. Top(ms, y) = y
    BY <1>5, <2>1, <2>2, TopFree
  <2>4. Top(ms, y) = Top(ms, AtRootfs)
    BY <1>5, <2>1, StackSame DEF V
  <2>. QED BY <2>1, <2>3, <2>4
<1>11. ASSUME NEW j \in DOMAIN tree, j # 1, n + j \in V
       PROVE  /\ tree[j].par \in V
              /\ tree[j].par - n \in DOMAIN tree /\ tree[j].at = tree[tree[j].par - n].base
  <2> DEFINE par == tree[j].par
             o == par - n
  <2>1. par \in (n + 1)..(n + j - 1)
    BY <1>11 DEF TreeOrder, n
  <2>2. n + j \in DOMAIN ms /\ n + j > H + 1
    BY <1>1, <1>3
  <2>3. OnStack(ms, V, Point(ms, n + j))
    BY <1>5, <1>11, <2>2 DEF Stack, Point, H
  <2>4. ms[n + j].par = par /\ ms[n + j].at = tree[j].at
    BY <1>1, <1>11
  <2>. HIDE DEF par
  <2>5. o \in DOMAIN tree /\ par = n + o
    BY <1>1, <1>3, <2>1
  <2>6. ms[par].base = tree[o].base
    <3>. HIDE DEF o
    <3>. QED BY <1>1, <2>5
  <2>7. par \in V /\ tree[j].at = tree[o].base
    BY <2>3, <2>4, <2>6 DEF OnStack, Point
  <2>. QED BY <2>5, <2>7 DEF par
<1>12. Stacked(K, L, h, root, tree)
  BY <1>8, <1>10, <1>11 DEF Stacked, V, ms, n
<1>. QED BY <1>12 DEF top

-----------------------------------------------------------------------------
(* Bind mounts: the rows of the copies.                                    *)
Copies(ms, src, S, tree) ==
  LET n == Len(ms)
  IN  /\ Cardinality(S) \in Nat /\ S \subseteq DOMAIN ms
      /\ DOMAIN tree = 1..(1 + Cardinality(S))
      /\ tree[1].base = src.p /\ tree[1].live /\ tree[1].group = ms[src.m].group
      /\ \A c \in 1..Cardinality(S) :
           LET o == Original(S, c)
               copy == tree[1 + c]
           IN  /\ o \in S /\ Rank(S, o) = c
               /\ copy.at = ms[o].at /\ copy.base = ms[o].base
               /\ copy.group = ms[o].group /\ copy.live
               /\ \/ /\ ms[o].par = src.m /\ copy.par = n + 1
                     /\ Under(src.p, ms[o].at)
                  \/ /\ ms[o].par \in S
                     /\ copy.par = n + 1 + Rank(S, ms[o].par)
                     /\ Rank(S, ms[o].par) \in 1..(c - 1)
                     /\ Original(S, Rank(S, ms[o].par)) = ms[o].par

LEMMA CopyRows ==
  ASSUME NEW G, NEW F, NEW K, KernelOK(K, G, F), Ordered(K.ms), NEW src \in Places(K.ms), NEW rec
  PROVE  LET tree == TreeOf(K.ms, src, ToCopy(K, src, rec))
         IN  Tree(tree, Len(K.ms), G, F) /\ Copies(K.ms, src, ToCopy(K, src, rec), tree)
<1> DEFINE ms == K.ms
           S == ToCopy(K, src, rec)
           tree == TreeOf(ms, src, S)
           n == Len(ms)
           C == Cardinality(S)
           R == MountRecords(G, F)
<1>1. /\ n \in Nat /\ DOMAIN ms = 1..n /\ src.m \in DOMAIN ms /\ src.p \in Paths /\ Table(ms, G, F)
      /\ \A k \in DOMAIN ms : ms[k] \in R
  BY KernelTable, TableShape DEF Places
<1>2. S \subseteq DOMAIN ms /\ \A k \in S : ms[k].par = src.m \/ ms[k].par \in S
  BY CopyClosed
<1>3. S \subseteq Nat /\ IsFiniteSet(S)
  <2>1. IsFiniteSet(1..n)
    <3>. HIDE DEF n
    <3>. QED BY <1>1, FS_Interval
  <2>. HIDE DEF S
  <2>. QED BY <1>1, <1>2, <2>1, FS_Subset
<1>4. ASSUME NEW k \in S
      PROVE  (ms[k].par = src.m /\ Under(src.p, ms[k].at)) \/ (ms[k].par \in S /\ ms[k].par # src.m)
  <2>1. rec /\ S = Hanging(ms, src, Bindable(K))
    BY DEF ToCopy
  <2>2. Bindable(K) \subseteq DOMAIN ms
    BY DEF Bindable, Live
  <2>3. Hung(ms, src, Bindable(K), S) = S
    BY <1>1, <2>1, <2>2, HangingWhole
  <2>. HIDE DEF S
  <2>. QED BY <2>3 DEF Hung
<1>. HIDE DEF S, C
<1>5. /\ Tree(tree, n, G, F) /\ C \in Nat /\ Len(tree) = 1 + C
      /\ tree[1] = [ms[src.m] EXCEPT !.base = src.p]
      /\ \A c \in 1..C :
           /\ Original(S, c) \in S /\ Rank(S, Original(S, c)) = c
           /\ tree[1 + c] = Copied(ms, src, S, c)
  <2>1. Tree(tree, n, G, F) /\ Cloned(ms, src, S, tree)
    BY <1>1, <1>2, TreeOfTree
  <2>. QED BY <2>1 DEF C, Cloned
<1>6. /\ \A k \in S : Rank(S, k) \in 1..C
      /\ \A j, k \in S : j < k => Rank(S, j) < Rank(S, k)
      /\ \A c \in 1..C : Original(S, c) \in S /\ Rank(S, Original(S, c)) = c
  BY <1>3, RankOrder DEF C
<1>. HIDE DEF tree, n
<1>7. DOMAIN tree = 1..(1 + C)
  <2>1. tree \in Seq(R)
    BY <1>5 DEF Tree
  <2>. HIDE DEF R
  <2>. QED BY <1>5, <2>1, LenProperties
<1>8. tree[1].base = src.p /\ tree[1].live /\ tree[1].group = ms[src.m].group
  <2>1. ms[src.m] \in R /\ ms[src.m].live
    BY <1>1 DEF Ordered
  <2>. QED BY <1>5, <2>1 DEF MountRecords
<1>9. ASSUME NEW c \in 1..C
      PROVE  LET o == Original(S, c)
                 copy == tree[1 + c]
             IN  /\ o \in S /\ Rank(S, o) = c
                 /\ copy.at = ms[o].at /\ copy.base = ms[o].base
                 /\ copy.group = ms[o].group /\ copy.live
                 /\ \/ /\ ms[o].par = src.m /\ copy.par = n + 1
                       /\ Under(src.p, ms[o].at)
                    \/ /\ ms[o].par \in S
                       /\ copy.par = n + 1 + Rank(S, ms[o].par)
                       /\ Rank(S, ms[o].par) \in 1..(c - 1)
                       /\ Original(S, Rank(S, ms[o].par)) = ms[o].par
  <2> DEFINE o == Original(S, c)
             row == ms[o]
             copy == tree[1 + c]
             par == CopyOf(ms, src, S, row.par)
  <2>1. o \in S /\ Rank(S, o) = c /\ copy = Copied(ms, src, S, c)
    BY <1>5
  <2>. HIDE DEF o
  <2>2. row \in R /\ row.live /\ o \in DOMAIN ms
    BY <1>1, <1>2, <2>1 DEF Ordered
  <2>3. copy = [row EXCEPT !.par = par]
    <3>1. copy = [row EXCEPT !.par = CopyOf(ms, src, S, @)]
      BY <2>1 DEF Copied, o
    <3>. HIDE DEF copy, row
    <3>. QED BY <2>2, <3>1 DEF MountRecords
  <2>4. copy.at = row.at /\ copy.base = row.base /\ copy.group = row.group /\ copy.live
        /\ copy.par = par
    <3>. HIDE DEF copy, row, par
    <3>. QED BY <2>2, <2>3 DEF MountRecords
  <2>5. par = n + 1 + (IF row.par = src.m THEN 0 ELSE Rank(S, row.par))
    BY DEF CopyOf, n
  <2>. HIDE DEF copy, par
  <2>6. CASE row.par = src.m /\ Under(src.p, row.at)
    <3>1. n + 1 + 0 = n + 1
      BY <1>1 DEF n
    <3>. QED BY <2>1, <2>4, <2>5, <2>6, <3>1 DEF copy, o
  <2>7. CASE row.par \in S /\ row.par # src.m
    <3> DEFINE q == row.par
    <3>1. q \in S /\ q \in DOMAIN ms /\ copy.par = n + 1 + Rank(S, q)
      BY <1>2, <2>4, <2>5, <2>7
    <3>2. q < o
      <4>1. o # 1
        BY <1>1, <2>7, <3>1 DEF Ordered, NoMount
      <4>2. q \in 1..(o - 1) /\ o \in Nat
        BY <1>1, <2>2, <4>1 DEF Ordered
      <4>. HIDE DEF q
      <4>. QED BY <4>2
    <3>. HIDE DEF q
    <3>3. Rank(S, q) \in 1..C /\ Rank(S, q) < c
      BY <1>6, <2>1, <3>1, <3>2
    <3>4. Rank(S, q) \in 1..(c - 1)
      BY <1>5, <3>3
    <3>5. Original(S, Rank(S, q)) = q
      <4> DEFINE p == Original(S, Rank(S, q))
      <4>1. p \in S /\ Rank(S, p) = Rank(S, q)
        BY <1>6, <3>3
      <4>. HIDE DEF p
      <4>2. p < q \/ q < p \/ p = q
        <5>1. p \in Nat /\ q \in Nat
          BY <1>3, <3>1, <4>1
        <5>. QED BY <5>1
      <4>3. Rank(S, q) \in Nat
        BY <3>3
      <4>. QED BY <1>6, <3>1, <4>1, <4>2, <4>3 DEF p
    <3>. QED BY <2>1, <2>4, <3>1, <3>4, <3>5 DEF copy, o, q
  <2>. QED BY <1>4, <2>1, <2>6, <2>7
<1>10. Copies(ms, src, S, tree)
  BY <1>2, <1>5, <1>7, <1>8, <1>9 DEF Copies, n, C
<1>. QED BY <1>5, <1>10 DEF S, tree, n

LEMMA CopyOrder ==
  ASSUME NEW G, NEW F, NEW K, KernelOK(K, G, F), Ordered(K.ms), NEW src \in Places(K.ms), NEW rec
  PROVE  /\ Tree(TreeOf(K.ms, src, ToCopy(K, src, rec)), Len(K.ms), G, F)
         /\ TreeOrder(TreeOf(K.ms, src, ToCopy(K, src, rec)), Len(K.ms))
<1> DEFINE ms == K.ms
           S == ToCopy(K, src, rec)
           tree == TreeOf(ms, src, S)
           n == Len(ms)
           C == Cardinality(S)
<1>0. n \in Nat /\ DOMAIN ms = 1..n /\ Table(ms, G, F)
  BY KernelTable, TableShape
<1>1. /\ Tree(tree, n, G, F) /\ C \in Nat /\ S \subseteq DOMAIN ms /\ DOMAIN tree = 1..(1 + C)
      /\ tree[1].base = src.p /\ tree[1].live
      /\ \A c \in 1..C :
           LET o == Original(S, c)
               copy == tree[1 + c]
           IN  /\ o \in S /\ Rank(S, o) = c
               /\ copy.at = ms[o].at /\ copy.base = ms[o].base /\ copy.live
               /\ \/ /\ ms[o].par = src.m /\ copy.par = n + 1
                     /\ Under(src.p, ms[o].at)
                  \/ /\ ms[o].par \in S
                     /\ copy.par = n + 1 + Rank(S, ms[o].par)
                     /\ Rank(S, ms[o].par) \in 1..(c - 1)
                     /\ Original(S, Rank(S, ms[o].par)) = ms[o].par
  <2>1. Tree(tree, n, G, F) /\ Copies(ms, src, S, tree)
    BY CopyRows
  <2>. HIDE DEF S, tree
  <2>. QED BY <2>1 DEF Copies
<1>. HIDE DEF S, tree, n, C
<1>2. \A j \in DOMAIN tree : j = 1 \/ (j - 1 \in 1..C /\ j = 1 + (j - 1))
  BY <1>1
<1>8. n \in Nat /\ C \in Nat
  BY <1>0, <1>1 DEF n
<1>9. NoMount \notin S
  BY <1>0, <1>1 DEF NoMount, n
<1>3. ASSUME NEW c \in 1..C
      PROVE  /\ tree[1 + c].live
             /\ tree[1 + c].par \in (n + 1)..(n + (1 + c) - 1)
             /\ Under(tree[tree[1 + c].par - n].base, tree[1 + c].at)
  <2> DEFINE o == Original(S, c)
             copy == tree[1 + c]
             q == ms[o].par
             r == Rank(S, q)
  <2>1. CASE /\ copy.live /\ q = src.m /\ copy.par = n + 1 /\ Under(src.p, copy.at)
    <3>1. (n + 1) - n = 1 /\ n + 1 \in (n + 1)..(n + (1 + c) - 1)
      BY <1>8
    <3>. QED BY <1>1, <2>1, <3>1
  <2>2. CASE /\ copy.live /\ copy.at = ms[o].at /\ o \in S /\ q \in S /\ copy.par = n + 1 + r
             /\ r \in 1..(c - 1) /\ Original(S, r) = q
    <3>1. o \in DOMAIN ms /\ o # 1
      <4>1. S \subseteq DOMAIN ms
        BY <1>1
      <4>2. ms[1].par = NoMount
        BY DEF Ordered
      <4>. HIDE DEF o
      <4>. QED BY <1>9, <2>2, <4>1, <4>2
    <3>2. Under(ms[q].base, ms[o].at)
      BY <3>1 DEF Ordered
    <3>3. r \in 1..C
      BY <1>1, <2>2
    <3>. HIDE DEF r
    <3>4. tree[1 + r].base = ms[q].base
      BY <1>1, <2>2, <3>3
    <3>5. (n + 1 + r) - n = 1 + r /\ n + 1 + r \in (n + 1)..(n + (1 + c) - 1)
      BY <1>8, <2>2, <3>3
    <3>. HIDE DEF q, o
    <3>. QED BY <2>2, <3>2, <3>4, <3>5
  <2>. QED BY <1>1, <2>1, <2>2
<1>4. ASSUME NEW b \in 1..C, NEW c \in 1..C, tree[1 + b].par = tree[1 + c].par,
             tree[1 + b].at = tree[1 + c].at
      PROVE  b = c
  <2> DEFINE o == Original(S, b)
             p == Original(S, c)
  <2>1. o \in S /\ p \in S /\ Rank(S, o) = b /\ Rank(S, p) = c /\ ms[o].at = ms[p].at
    BY <1>1, <1>4
  <2>2. o \in DOMAIN ms /\ p \in DOMAIN ms
    BY <1>1, <2>1
  <2>3. ms[o].par = ms[p].par
    <3> DEFINE a == tree[1 + b].par
               d == tree[1 + c].par
               ro == Rank(S, ms[o].par)
               rp == Rank(S, ms[p].par)
    <3>1. \/ ms[o].par = src.m /\ a = n + 1
          \/ a = n + 1 + ro /\ ro \in 1..(b - 1) /\ Original(S, ro) = ms[o].par
      BY <1>1
    <3>2. \/ ms[p].par = src.m /\ d = n + 1
          \/ d = n + 1 + rp /\ rp \in 1..(c - 1) /\ Original(S, rp) = ms[p].par
      BY <1>1
    <3>3. a = d
      BY <1>4
    <3>. HIDE DEF a, d, ro, rp
    <3>4. (a = n + 1 /\ d = n + 1) \/ (ro = rp /\ a # n + 1 /\ d # n + 1)
      BY <1>0, <3>1, <3>2, <3>3 DEF n
    <3>5. CASE a = n + 1
      <4>1. ms[o].par = src.m
        BY <1>0, <3>1, <3>5 DEF n
      <4>2. ms[p].par = src.m
        BY <1>0, <3>2, <3>3, <3>5 DEF n
      <4>. QED BY <4>1, <4>2
    <3>6. CASE a # n + 1
      BY <3>1, <3>2, <3>3, <3>4, <3>6
    <3>. QED BY <3>5, <3>6
  <2>4. o = p
    <3>. HIDE DEF o, p
    <3>. QED BY <2>1, <2>2, <2>3 DEF Ordered
  <2>. QED BY <2>1, <2>4
<1>5. \A j \in DOMAIN tree :
        /\ tree[j].live
        /\ j # 1 => /\ tree[j].par \in (n + 1)..(n + j - 1)
                    /\ Under(tree[tree[j].par - n].base, tree[j].at)
  BY <1>1, <1>2, <1>3
<1>6. \A j, k \in DOMAIN tree \ {1} :
        tree[j].par = tree[k].par /\ tree[j].at = tree[k].at => j = k
  BY <1>2, <1>4
<1>7. TreeOrder(tree, n)
  BY <1>5, <1>6 DEF TreeOrder
<1>. QED BY <1>1, <1>7 DEF tree, S, n

(* The copies that end up on the stack are those of what is mounted on the *)
(* source, and of the stack if the source is on it.                        *)
LEMMA CopyStack ==
  ASSUME NEW G, NEW F, Allowed(G, F), NEW K, KernelOK(K, G, F), NEW h, Made(h), NEW root,
         Sound(K, h, root), NEW src \in Places(K.ms), NEW rec
  PROVE  LET S == ToCopy(K, src, rec)
             L == AttachOn(K, TreeOf(K.ms, src, S), Top(K.ms, AtRootfs))
         IN  \A c \in 1..Cardinality(S) :
               Len(K.ms) + (1 + c) \in RootStack(L.ms, h) =>
                 /\ MountedAt(K.ms, src) # {}
                 /\ OnStack(K.ms, RootStack(K.ms, h), src) => Original(S, c) \in RootStack(K.ms, h)
<1> DEFINE ms == K.ms
           S == ToCopy(K, src, rec)
           tree == TreeOf(ms, src, S)
           n == Len(ms)
           C == Cardinality(S)
           L == AttachOn(K, tree, Top(ms, AtRootfs))
           V == RootStack(L.ms, h)
           U == RootStack(ms, h)
           H == Len(h)
           P(c) == n + (1 + c) \in V =>
                     /\ MountedAt(ms, src) # {}
                     /\ OnStack(ms, U, src) => Original(S, c) \in U
           T == {m \in 0..C : \A c \in 1..m : P(c)}
<1>1. /\ Tree(tree, n, G, F) /\ C \in Nat /\ S \subseteq DOMAIN ms /\ DOMAIN tree = 1..(1 + C)
      /\ tree[1].base = src.p
      /\ \A c \in 1..C :
           LET o == Original(S, c)
               copy == tree[1 + c]
           IN  /\ o \in S
               /\ copy.at = ms[o].at /\ copy.base = ms[o].base
               /\ \/ /\ ms[o].par = src.m /\ copy.par = n + 1
                     /\ Under(src.p, ms[o].at)
                  \/ /\ ms[o].par \in S
                     /\ copy.par = n + 1 + Rank(S, ms[o].par)
                     /\ Rank(S, ms[o].par) \in 1..(c - 1)
                     /\ Original(S, Rank(S, ms[o].par)) = ms[o].par
  <2>1. Tree(tree, n, G, F) /\ Copies(ms, src, S, tree)
    BY CopyRows DEF Sound, SoundBut, Grown
  <2>. HIDE DEF S, tree
  <2>. QED BY <2>1 DEF Copies
<1>2. TreeOrder(tree, n)
  BY CopyOrder DEF Sound, SoundBut, Grown
<1>3. /\ Table(ms, G, F) /\ Grown(ms, h) /\ Ordered(ms) /\ Stack(ms, h, U) /\ n \in Nat
      /\ DOMAIN ms = 1..n /\ H \in Nat
  BY KernelTable, GrownStack, TableShape, AtRootfsPlace DEF Sound, SoundBut, Grown
<1>4. ms[H + 1].par <= H
  <2>1. Top(h, AtRootfs).m \in DOMAIN h /\ DOMAIN h = 1..H
    BY AtRootfsPlace DEF Places
  <2>. QED BY <1>3, <2>1 DEF Grown, Point
<1>. HIDE DEF S, C, tree, n
<1>5. ASSUME NEW c \in 1..C, n + (1 + c) \in V
      PROVE  LET par == tree[1 + c].par
             IN  par \in V /\ par - n \in DOMAIN tree /\ tree[1 + c].at = tree[par - n].base
  <2>1. 1 + c \in DOMAIN tree /\ 1 + c # 1
    BY <1>1
  <2> DEFINE j == 1 + c
  <2>. HIDE DEF j
  <2>2. j \in DOMAIN tree /\ j # 1 /\ n + j \in V
    BY <1>5, <2>1 DEF j
  <2>3. /\ tree[j].par \in V /\ tree[j].par - n \in DOMAIN tree
        /\ tree[j].at = tree[tree[j].par - n].base
    <3>1. Stacked(K, L, h, root, tree)
      BY <1>1, <1>2, AttachStack DEF n
    <3>. HIDE DEF L
    <3>. QED BY <2>2, <3>1 DEF Stacked, n
  <2>. QED BY <2>3 DEF j
<1>6. ASSUME NEW o \in S, OnStack(ms, U, Point(ms, o)) PROVE o \in U
  <2>1. o \in DOMAIN ms /\ ms[o].par \in U
    BY <1>1, <1>6 DEF OnStack, Point
  <2>2. U \subseteq (H + 1)..Len(ms)
    BY <1>3 DEF Stack
  <2>3. ms[o].par > H /\ o # 1 /\ ms[o].par < o
    <3>1. ms[o].par > H
      BY <1>3, <2>1, <2>2
    <3>2. o # 1
      BY <1>3, <3>1 DEF Ordered, NoMount
    <3>. QED BY <1>3, <2>1, <3>1, <3>2 DEF Ordered
  <2>4. o # H + 1
    <3>1. ms[o].par > H /\ ms[H + 1].par <= H /\ H \in Nat /\ ms[o].par \in Nat
      BY <1>3, <1>4, <2>1, <2>3, TableShape
    <3>2. CASE o = H + 1
      <4> DEFINE p == ms[o].par
      <4>1. p > H /\ p <= H /\ H \in Nat /\ p \in Nat
        BY <3>1, <3>2
      <4>. HIDE DEF p, H
      <4>. QED BY <4>1
    <3>. QED BY <3>2
  <2>5. o > H + 1
    BY <1>3, <2>1, <2>2, <2>3, <2>4
  <2>. QED BY <1>3, <1>6, <2>1, <2>5 DEF Stack, Point
<1>. HIDE DEF V, L, U
<1>7. ASSUME NEW c \in 1..C, \A d \in 1..(c - 1) : P(d) PROVE P(c)
  <2>. SUFFICES ASSUME n + (1 + c) \in V
                PROVE  MountedAt(ms, src) # {} /\ (OnStack(ms, U, src) => Original(S, c) \in U)
    OBVIOUS
  <2> DEFINE o == Original(S, c)
             par == tree[1 + c].par
             r == Rank(S, ms[o].par)
  <2>1. par \in V /\ tree[1 + c].at = tree[par - n].base /\ o \in S /\ tree[1 + c].at = ms[o].at
    BY <1>1, <1>5
  <2>2. CASE ms[o].par = src.m /\ par = n + 1
    <3>1. par - n = 1
      BY <1>3, <2>2 DEF n
    <3>2. ms[o].at = src.p
      BY <1>1, <2>1, <3>1
    <3>3. o \in MountedAt(ms, src)
      BY <1>1, <1>3, <2>1, <2>2, <3>2 DEF MountedAt, Ordered
    <3>4. Point(ms, o) = src
      BY <2>2, <3>2 DEF Point, Places
    <3>. QED BY <1>6, <2>1, <3>3, <3>4
  <2>3. CASE ms[o].par \in S /\ par = n + 1 + r /\ r \in 1..(c - 1) /\ Original(S, r) = ms[o].par
    <3>. HIDE DEF r, par
    <3>1. r \in 1..C /\ par = n + (1 + r) /\ par - n = 1 + r
      <4>1. n \in Nat /\ C \in Nat
        BY <1>1, <1>3 DEF n
      <4>. QED BY <2>3, <4>1
    <3>2. P(r)
      BY <1>7, <2>3
    <3>3. MountedAt(ms, src) # {} /\ (OnStack(ms, U, src) => ms[o].par \in U)
      BY <2>1, <2>3, <3>1, <3>2
    <3>4. tree[1 + r].base = ms[ms[o].par].base
      BY <1>1, <2>3, <3>1
    <3>5. ms[o].at = ms[ms[o].par].base
      BY <2>1, <3>1, <3>4
    <3>6. ms[o].par \in U => OnStack(ms, U, Point(ms, o))
      BY <3>5 DEF OnStack, Point
    <3>. QED BY <1>6, <2>1, <3>3, <3>6
  <2>. QED BY <1>1, <2>2, <2>3
<1>. HIDE DEF P
<1>8. ASSUME NEW m \in 0..C, m < C, m \in T PROVE m + 1 \in T
  <2>1. m + 1 \in 0..C /\ m + 1 \in 1..C /\ (m + 1) - 1 = m
        /\ \A c \in 1..(m + 1) : c \in 1..m \/ c = m + 1
    BY <1>1, <1>8
  <2>2. P(m + 1)
    BY <1>7, <1>8, <2>1
  <2>. QED BY <1>8, <2>1, <2>2
<1>9. 0 \in T
  <2>1. 0 \in 0..C /\ 1..0 = {}
    BY <1>1
  <2>. QED BY <2>1
<1>10. C \in T
  <2>1. 0..C \subseteq T
    <3>. HIDE DEF T
    <3>. QED BY <1>1, <1>8, <1>9, Induction
  <2>. QED BY <1>1, <2>1
<1>11. \A c \in 1..C : P(c)
  BY <1>10
<1>. QED BY <1>11 DEF P, S, C, tree, L, V, U, n

(* Attached at a place below the stack, or on it.                          *)
LEMMA LowTop ==
  ASSUME NEW G, NEW F, NEW ms, Table(ms, G, F), NEW h, Made(h), Grown(ms, h), NEW dst,
         Low(ms, h, RootStack(ms, h), dst)
  PROVE  Low(ms, h, RootStack(ms, h), Top(ms, dst)) /\ MountedAt(ms, Top(ms, dst)) = {}
<1>1. dst \in Places(ms) /\ Ordered(ms) /\ Extends(ms, h) /\ Stack(ms, h, RootStack(ms, h))
  BY GrownStack DEF Low, Proper, Grown
<1>. QED BY <1>1, StackTop, TopFree

BoundLow(K, L, h, root, but) ==
  SoundBut(L, h, root, but) /\ Top(L.ms, AtRootfs) = Top(K.ms, AtRootfs)

LEMMA BindLow ==
  ASSUME NEW G, NEW F, Allowed(G, F), NEW K, KernelOK(K, G, F), NEW h, Made(h), NEW root,
         NEW but, SoundBut(K, h, root, but), NEW src \in Places(K.ms), NEW dst,
         Low(K.ms, h, RootStack(K.ms, h), dst), NEW rec
  PROVE  BoundLow(K, Bind(K, src, dst, rec), h, root, but)
<1> DEFINE tree == TreeOf(K.ms, src, ToCopy(K, src, rec))
           top == Top(K.ms, dst)
<1>1. Table(K.ms, G, F) /\ Grown(K.ms, h) /\ Ordered(K.ms)
  BY KernelTable DEF SoundBut, Grown
<1>2. Low(K.ms, h, RootStack(K.ms, h), top) /\ MountedAt(K.ms, top) = {}
  BY <1>1, LowTop
<1>3. Tree(tree, Len(K.ms), G, F) /\ TreeOrder(tree, Len(K.ms))
  BY <1>1, CopyOrder
<1>. HIDE DEF tree, top
<1>4. /\ SoundBut(AttachOn(K, tree, top), h, root, but)
      /\ Top(AttachOn(K, tree, top).ms, AtRootfs) = Top(K.ms, AtRootfs)
  BY <1>2, <1>3, AttachLow
<1>5. /\ SoundBut(Failed(K, "EINVAL"), h, root, but) /\ SoundBut(Failed(K, "ENOTDIR"), h, root, but)
      /\ Failed(K, "EINVAL").ms = K.ms /\ Failed(K, "ENOTDIR").ms = K.ms
  <2>1. /\ Failed(K, "EINVAL").ms = K.ms /\ Failed(K, "EINVAL").err = "EINVAL"
        /\ Failed(K, "ENOTDIR").ms = K.ms /\ Failed(K, "ENOTDIR").err = "ENOTDIR"
    BY DEF Failed, KernelOK
  <2>. QED BY <1>1, <2>1, SoundFiles
<1>6. \/ Bind(K, src, dst, rec) = Failed(K, "EINVAL") \/ Bind(K, src, dst, rec) = Failed(K, "ENOTDIR")
      \/ Bind(K, src, dst, rec) = AttachOn(K, tree, top)
  BY BindIs DEF Attach, tree, top
<1>. QED BY <1>4, <1>5, <1>6 DEF BoundLow

LEMMA BindStack ==
  ASSUME NEW G, NEW F, Allowed(G, F), NEW K, KernelOK(K, G, F), NEW h, Made(h), NEW root,
         Sound(K, h, root), NEW src \in Places(K.ms), NEW dst \in Places(K.ms),
         OnStack(K.ms, RootStack(K.ms, h), dst), NEW rec
  PROVE  /\ OnStack(K.ms, RootStack(K.ms, h), src) => Sound(Bind(K, src, dst, rec), h, root)
         /\ MountedAt(K.ms, src) = {} =>
              SoundBut(Bind(K, src, dst, rec), h, root,
                       {Top(Bind(K, src, dst, rec).ms, AtRootfs).m})
<1> DEFINE S == ToCopy(K, src, rec)
           tree == TreeOf(K.ms, src, S)
           top == Top(K.ms, AtRootfs)
           n == Len(K.ms)
           C == Cardinality(S)
           L == AttachOn(K, tree, top)
           V == RootStack(L.ms, h)
           U == RootStack(K.ms, h)
           B == Bind(K, src, dst, rec)
<1>1. Table(K.ms, G, F) /\ Grown(K.ms, h) /\ Ordered(K.ms)
  BY KernelTable DEF Sound, SoundBut, Grown
<1>2. Top(K.ms, dst) = top
  BY <1>1, StackSame
<1>3. Tree(tree, n, G, F) /\ TreeOrder(tree, n)
  BY <1>1, CopyOrder
<1>4. /\ C \in Nat /\ S \subseteq DOMAIN K.ms /\ DOMAIN tree = 1..(1 + C)
      /\ tree[1].group = K.ms[src.m].group
      /\ \A c \in 1..C : Original(S, c) \in S /\ tree[1 + c].group = K.ms[Original(S, c)].group
  <2>1. Copies(K.ms, src, S, tree)
    BY <1>1, CopyRows
  <2>. HIDE DEF S, tree
  <2>. QED BY <2>1 DEF Copies
<1>5. \A c \in 1..C :
        n + (1 + c) \in V => /\ MountedAt(K.ms, src) # {}
                             /\ OnStack(K.ms, U, src) => Original(S, c) \in U
  BY CopyStack
<1>6. /\ \A but : (\A j \in DOMAIN tree : n + j \in V => n + j \in but \/ ~Shared(tree[j]))
                    => SoundBut(L, h, root, but)
      /\ (\A j \in DOMAIN tree : n + j \in V => j = 1) => Top(L.ms, AtRootfs).m = n + 1
  <2>1. Stacked(K, L, h, root, tree)
    <3>. HIDE DEF tree
    <3>. QED BY <1>3, AttachStack
  <2>. HIDE DEF L, tree
  <2>. QED BY <2>1 DEF Stacked
<1>7. \A j \in DOMAIN tree : j = 1 \/ (j - 1 \in 1..C /\ j = 1 + (j - 1))
  BY <1>4
<1>8. \A k \in U : ~Shared(K.ms[k])
  BY DEF Sound, SoundBut
<1>9. /\ SoundBut(Failed(K, "EINVAL"), h, root, {}) /\ SoundBut(Failed(K, "ENOTDIR"), h, root, {})
  <2>1. /\ Failed(K, "EINVAL").ms = K.ms /\ Failed(K, "EINVAL").err = "EINVAL"
        /\ Failed(K, "ENOTDIR").ms = K.ms /\ Failed(K, "ENOTDIR").err = "ENOTDIR"
    BY DEF Failed, KernelOK
  <2>. QED BY <1>1, <2>1, SoundFiles DEF Sound
<1>10. B = Failed(K, "EINVAL") \/ B = Failed(K, "ENOTDIR") \/ B = L
  BY <1>2, BindIs DEF Attach
<1>. HIDE DEF S, tree, L, V, U, C, n, B
<1>11. ASSUME OnStack(K.ms, U, src) PROVE SoundBut(L, h, root, {})
  <2>1. ASSUME NEW j \in DOMAIN tree, n + j \in V PROVE ~Shared(tree[j])
    <3>1. CASE j = 1
      BY <1>4, <1>8, <1>11, <3>1 DEF Shared, OnStack
    <3>2. CASE j # 1
      <4>1. j - 1 \in 1..C /\ j = 1 + (j - 1)
        BY <1>7, <3>2
      <4>2. Original(S, j - 1) \in U /\ tree[j].group = K.ms[Original(S, j - 1)].group
        BY <1>4, <1>5, <1>11, <2>1, <4>1
      <4>. QED BY <1>8, <4>2 DEF Shared
    <3>. QED BY <3>1, <3>2
  <2>. QED BY <1>6, <2>1
<1>12. ASSUME MountedAt(K.ms, src) = {} PROVE SoundBut(L, h, root, {Top(L.ms, AtRootfs).m})
  <2>1. \A j \in DOMAIN tree : n + j \in V => j = 1
    BY <1>5, <1>7, <1>12
  <2>. QED BY <1>6, <2>1
<1>13. \A but : SoundBut(K, h, root, {}) /\ SoundBut(B, h, root, {}) => SoundBut(B, h, root, but)
  BY DEF SoundBut
<1>14. OnStack(K.ms, U, src) => SoundBut(B, h, root, {})
  BY <1>9, <1>10, <1>11
<1>15. MountedAt(K.ms, src) = {} => SoundBut(B, h, root, {Top(B.ms, AtRootfs).m})
  BY <1>9, <1>10, <1>12, <1>13 DEF Sound
<1>. QED BY <1>14, <1>15 DEF Sound, B, U

(* A new file system is a mount of its own group.                          *)
LEMMA NewTree ==
  ASSUME NEW G, NEW F, Allowed(G, F), NEW K, KernelOK(K, G, F), NEW type, NEW nodes,
         NEW flags, flags \cap Attributes \subseteq F, NEW dst
  PROVE  \E L, tree :
           /\ KernelOK(L, G, F) /\ L.ms = K.ms /\ L.err = K.err
           /\ Tree(tree, Len(K.ms), G, F) /\ TreeOrder(tree, Len(K.ms))
           /\ DOMAIN tree = 1..1 /\ ~Shared(tree[1])
           /\ MountNew(K, type, nodes, dst, flags) =
                IF ~IsDir(K, dst) THEN Failed(K, "ENOTDIR") ELSE AttachOn(L, tree, Top(K.ms, dst))
<1> DEFINE system == [type |-> type, nodes |-> nodes]
           fs == Append(K.fs, system)
           L == [K EXCEPT !.fs = fs]
           mount == [par |-> NoMount, at |-> <<>>, fs |-> Len(K.fs) + 1, base |-> <<>>,
                     flags |-> flags \cap Attributes, locked |-> {}, group |-> "private",
                     live |-> TRUE]
           S == Range(K.fs) \cup {system}
<1>1. K.fs \in Seq(Range(K.fs)) /\ K.ms \in Seq(MountRecords(G, F)) /\ Table(K.ms, G, F)
  BY KernelTable DEF KernelOK
<1>2. K.fs \in Seq(S)
  <2>. HIDE DEF system
  <2>. QED BY <1>1, SeqMonotonic
<1>3. fs \in Seq(S) /\ Len(K.fs) \in Nat
  <2>. HIDE DEF system
  <2>. QED BY <1>1, <1>2, AppendProperties, LenProperties
<1>4. fs \in Seq(Range(fs))
  <2>. HIDE DEF fs, S
  <2>1. fs = [k \in 1..Len(fs) |-> fs[k]] /\ DOMAIN fs = 1..Len(fs) /\ Len(fs) \in Nat
    BY <1>3, LenProperties
  <2>2. fs \in [1..Len(fs) -> Range(fs)]
    BY <2>1 DEF Range
  <2>. QED BY <2>1, <2>2, SeqDef
<1>5. L = [ms |-> K.ms, fs |-> fs, hostSaw |-> K.hostSaw, err |-> K.err]
  <2>. HIDE DEF fs
  <2>. QED BY DEF KernelOK
<1>6. KernelOK(L, G, F) /\ L.ms = K.ms /\ L.err = K.err
  <2>. HIDE DEF fs
  <2>. QED BY <1>1, <1>4, <1>5 DEF KernelOK
<1>7. mount \in MountRecords(G, F) /\ ~Shared(mount) /\ mount.live
  <2>1. Len(K.fs) + 1 \in Nat /\ <<>> \in Paths
    BY <1>3, NamedPaths
  <2>. QED BY <2>1 DEF MountRecords, Allowed, Groups, NoMount, Shared
<1> DEFINE tree == <<mount>>
<1>8. MountNew(K, type, nodes, dst, flags) =
        IF ~IsDir(K, dst) THEN Failed(K, "ENOTDIR") ELSE AttachOn(L, tree, Top(K.ms, dst))
  BY <1>6 DEF MountNew, Attach
<1>. HIDE DEF mount, L
<1>9. tree \in Seq(MountRecords(G, F)) /\ tree # <<>> /\ DOMAIN tree = 1..1 /\ tree[1] = mount
  BY <1>7, ShortSeq
<1>. HIDE DEF tree
<1>10. Tree(tree, Len(K.ms), G, F) /\ TreeOrder(tree, Len(K.ms))
  BY <1>7, <1>9 DEF Tree, TreeOrder
<1>. QED BY <1>6, <1>7, <1>8, <1>9, <1>10

LEMMA MountNewSound ==
  ASSUME NEW G, NEW F, Allowed(G, F), NEW K, KernelOK(K, G, F), NEW h, Made(h), NEW root,
         Sound(K, h, root), NEW dst \in Places(K.ms),
         \/ OnStack(K.ms, RootStack(K.ms, h), dst) \/ Low(K.ms, h, RootStack(K.ms, h), dst),
         NEW type, NEW nodes, NEW flags, flags \cap Attributes \subseteq F
  PROVE  Sound(MountNew(K, type, nodes, dst, flags), h, root)
<1>1. PICK L, tree :
           /\ KernelOK(L, G, F) /\ L.ms = K.ms /\ L.err = K.err
           /\ Tree(tree, Len(K.ms), G, F) /\ TreeOrder(tree, Len(K.ms))
           /\ DOMAIN tree = 1..1 /\ ~Shared(tree[1])
           /\ MountNew(K, type, nodes, dst, flags) =
                IF ~IsDir(K, dst) THEN Failed(K, "ENOTDIR") ELSE AttachOn(L, tree, Top(K.ms, dst))
  BY NewTree
<1>2. Sound(L, h, root) /\ Table(K.ms, G, F) /\ Grown(K.ms, h)
  BY <1>1, KernelTable DEF Sound, SoundBut
<1>3. Sound(Failed(K, "ENOTDIR"), h, root)
  <2>1. Failed(K, "ENOTDIR").ms = K.ms /\ Failed(K, "ENOTDIR").err = "ENOTDIR"
    BY DEF Failed, KernelOK
  <2>. QED BY <1>2, <2>1, SoundFiles DEF Sound
<1>4. CASE Low(K.ms, h, RootStack(K.ms, h), dst)
  <2> DEFINE top == Top(K.ms, dst)
  <2>1. Low(K.ms, h, RootStack(K.ms, h), top) /\ MountedAt(K.ms, top) = {}
    BY <1>2, <1>4, LowTop
  <2>. HIDE DEF top
  <2>2. Sound(AttachOn(L, tree, top), h, root)
    BY <1>1, <1>2, <2>1, AttachLow DEF Sound
  <2>. QED BY <1>1, <1>3, <2>2 DEF top
<1>5. CASE OnStack(K.ms, RootStack(K.ms, h), dst)
  <2>1. Top(K.ms, dst) = Top(L.ms, AtRootfs)
    BY <1>1, <1>2, <1>5, StackSame
  <2>2. \A j \in DOMAIN tree : ~Shared(tree[j])
    BY <1>1
  <2> DEFINE M == AttachOn(L, tree, Top(L.ms, AtRootfs))
  <2>3. Stacked(L, M, h, root, tree)
    BY <1>1, <1>2, AttachStack
  <2>. HIDE DEF M
  <2>4. Sound(M, h, root)
    BY <2>2, <2>3 DEF Sound, Stacked
  <2>. QED BY <1>1, <1>3, <2>1, <2>4 DEF M
<1>. QED BY <1>4, <1>5

-----------------------------------------------------------------------------
(* Calls that only change files, and refused ones.                         *)
SameMounts(K, L) == L.ms = K.ms /\ (K.err # "pivot_root" => L.err # "pivot_root")

LEMMA FailedSame ==
  ASSUME NEW G, NEW F, NEW K, KernelOK(K, G, F), NEW e, e # "pivot_root"
  PROVE  SameMounts(K, Failed(K, e)) /\ Failed(K, e).err = e
BY DEF Failed, KernelOK, SameMounts

LEMMA FilesSame ==
  ASSUME NEW G, NEW F, NEW K, KernelOK(K, G, F), NEW fs
  PROVE  SameMounts(K, [K EXCEPT !.fs = fs])
BY DEF KernelOK, SameMounts

LEMMA CreateSame ==
  ASSUME NEW G, NEW F, NEW K, KernelOK(K, G, F), NEW start, NEW path, NEW kind
  PROVE  SameMounts(K, Create(K, start, path, kind))
<1> DEFINE at == Walk(K.ms, start, path)
           n == Reached(K, at, Len(path))
           dir == at[n]
           missing == SubSeq(path, n + 1, Len(path))
           old == FileSystem(K, dir).nodes
           new == {dir.p \o SubSeq(missing, 1, c) : c \in 1 .. Len(missing)}
           nodes == [p \in DOMAIN old \cup new |->
                        IF p \in DOMAIN old THEN old[p]
                        ELSE IF p = dir.p \o missing THEN kind ELSE "dir"]
           f == K.ms[dir.m].fs
           L == [K EXCEPT !.fs[f].nodes = nodes]
<1>1. Create(K, start, path, kind) =
        IF n = Len(path) THEN K
        ELSE IF Kind(K, dir) # "dir" THEN Failed(K, "ENOTDIR")
        ELSE IF "ro" \in K.ms[dir.m].flags THEN Failed(K, "EROFS")
        ELSE IF FileSystem(K, dir).type \notin {"disk", "tmpfs"} THEN Failed(K, "EPERM")
        ELSE L
  BY DEF Create, CreateAlong, CreateBelow
<1>2. SameMounts(K, L)
  <2>1. L = [K EXCEPT !.fs = [K.fs EXCEPT ![f].nodes = nodes]]
    <3>. HIDE DEF nodes, f
    <3>. QED BY DEF KernelOK
  <2>. HIDE DEF L, nodes, f
  <2>. QED BY <2>1, FilesSame
<1>3. /\ SameMounts(K, Failed(K, "ENOTDIR")) /\ SameMounts(K, Failed(K, "EROFS"))
      /\ SameMounts(K, Failed(K, "EPERM")) /\ SameMounts(K, K)
  BY FailedSame DEF SameMounts
<1>. HIDE DEF L, dir, n
<1>. QED BY <1>1, <1>2, <1>3

LEMMA EnsureSame ==
  ASSUME NEW G, NEW F, NEW K, KernelOK(K, G, F), NEW root, NEW path \in Paths, NEW isDir
  PROVE  SameMounts(K, Ensure(K, root, path, isDir))
<1> DEFINE e == Lookup(K, root, path).err
           kind == IF isDir THEN "dir" ELSE "file"
<1>1. e # "pivot_root"
  BY LookupError
<1>2. Ensure(K, root, path, isDir) =
        IF e = "ENOENT" THEN Create(K, root, path, kind) ELSE Failed(K, e)
  BY DEF Ensure
<1>. HIDE DEF e, kind
<1>. QED BY <1>1, <1>2, CreateSame, FailedSame

(* The rows of the table after the propagation of mounts is set, and after *)
(* a remount.                                                              *)
LEMMA PropagationRows ==
  ASSUME NEW G, NEW F, NEW K, KernelOK(K, G, F), NEW at, NEW prop, MountRoot(K, at)
  PROVE  LET L == SetPropagation(K, at, prop)
             of == {at.m} \cup (IF prop.rec THEN Below(K.ms, at) ELSE {})
         IN  /\ DOMAIN L.ms = DOMAIN K.ms /\ Kept(K.ms, L.ms) /\ L.err = K.err
             /\ \A k \in DOMAIN K.ms :
                  L.ms[k].group = IF k \in of THEN GroupAfter(prop, K.ms[k].group) ELSE K.ms[k].group
<1> DEFINE of == {at.m} \cup (IF prop.rec THEN Below(K.ms, at) ELSE {})
           New(k) == IF k \in of THEN [K.ms[k] EXCEPT !.group = GroupAfter(prop, @)] ELSE K.ms[k]
           ms == [k \in DOMAIN K.ms |-> New(k)]
           L == [K EXCEPT !.ms = ms]
<1>1. SetPropagation(K, at, prop) = L
  BY DEF SetPropagation
<1>2. L.ms = ms /\ L.err = K.err
  <2>. HIDE DEF ms
  <2>. QED BY DEF KernelOK
<1>3. DOMAIN ms = DOMAIN K.ms /\ \A k \in DOMAIN K.ms : ms[k] = New(k)
  <2>. HIDE DEF New
  <2>. QED OBVIOUS
<1>4. ASSUME NEW k \in DOMAIN K.ms
      PROVE  /\ New(k).par = K.ms[k].par /\ New(k).at = K.ms[k].at
             /\ New(k).base = K.ms[k].base /\ New(k).live = K.ms[k].live
             /\ New(k).group = IF k \in of THEN GroupAfter(prop, K.ms[k].group) ELSE K.ms[k].group
  <2> DEFINE row == K.ms[k]
             g == GroupAfter(prop, row.group)
  <2>1. row \in MountRecords(G, F)
    BY KernelTable, TableShape
  <2>2. New(k) = IF k \in of THEN [row EXCEPT !.group = g] ELSE row
    <3>. HIDE DEF of
    <3>. QED BY <2>1 DEF MountRecords
  <2>. HIDE DEF row, g, of, New
  <2>3. New(k).group = (IF k \in of THEN g ELSE row.group)
        /\ New(k).par = row.par /\ New(k).at = row.at /\ New(k).base = row.base
        /\ New(k).live = row.live
    BY <2>1, <2>2 DEF MountRecords
  <2>. QED BY <2>3 DEF row, g
<1>. HIDE DEF ms, New, L
<1>5. Kept(K.ms, L.ms)
  BY <1>2, <1>3, <1>4 DEF Kept
<1>. QED BY <1>1, <1>2, <1>3, <1>4, <1>5

LEMMA RemountRows ==
  ASSUME NEW G, NEW F, NEW K, KernelOK(K, G, F), NEW at \in Places(K.ms), NEW flags
  PROVE  LET L == Remount(K, at, flags)
         IN  /\ DOMAIN L.ms = DOMAIN K.ms /\ Kept(K.ms, L.ms) /\ L.err \in {K.err, "EINVAL", "EPERM"}
             /\ \A k \in DOMAIN K.ms : L.ms[k].group = K.ms[k].group
<1> DEFINE row == K.ms[at.m]
           new == [row EXCEPT !.flags = flags \cap Attributes]
           ms == [K.ms EXCEPT ![at.m] = new]
           L == [K EXCEPT !.ms = ms]
<1>1. at.m \in DOMAIN K.ms /\ K.ms = [k \in DOMAIN K.ms |-> K.ms[k]]
      /\ row \in MountRecords(G, F)
  BY KernelTable, TableShape DEF Places
<1>2. L.ms = ms /\ L.err = K.err
  <2>. HIDE DEF ms
  <2>. QED BY DEF KernelOK
<1>3. Remount(K, at, flags) =
        IF ~MountRoot(K, at) THEN Failed(K, "EINVAL")
        ELSE IF ~(K.ms[at.m].locked \subseteq flags) THEN Failed(K, "EPERM")
        ELSE L
  <2>1. L = [K EXCEPT !.ms[at.m].flags = flags \cap Attributes]
    BY <1>1 DEF KernelOK
  <2>. HIDE DEF L
  <2>. QED BY <2>1 DEF Remount
<1>4. /\ new.par = row.par /\ new.at = row.at /\ new.base = row.base /\ new.live = row.live
      /\ new.group = row.group
  <2>. HIDE DEF row
  <2>. QED BY <1>1 DEF MountRecords
<1>5. DOMAIN ms = DOMAIN K.ms /\ \A k \in DOMAIN K.ms : ms[k] = IF k = at.m THEN new ELSE K.ms[k]
  <2>. HIDE DEF new
  <2>. QED BY <1>1
<1>. HIDE DEF new, ms
<1>6. Kept(K.ms, ms) /\ \A k \in DOMAIN K.ms : ms[k].group = K.ms[k].group
  BY <1>4, <1>5 DEF Kept
<1>7. Kept(K.ms, K.ms)
  BY DEF Kept
<1>8. /\ Failed(K, "EINVAL").ms = K.ms /\ Failed(K, "EINVAL").err = "EINVAL"
      /\ Failed(K, "EPERM").ms = K.ms /\ Failed(K, "EPERM").err = "EPERM"
  BY DEF Failed, KernelOK
<1>. HIDE DEF L
<1>. QED BY <1>2, <1>3, <1>5, <1>6, <1>7, <1>8

(* What sets the propagation of one mount of the container, and of those   *)
(* below it.                                                               *)
LEMMA PropagationSound ==
  ASSUME NEW G, NEW F, Allowed(G, F), NEW K, KernelOK(K, G, F), NEW h, Made(h), NEW root,
         NEW but, SoundBut(K, h, root, but), NEW at \in Places(K.ms), NEW prop,
         \/ prop.kind # "shared" \/ Low(K.ms, h, RootStack(K.ms, h), at)
  PROVE  LET L == SetPropagation(K, at, prop)
         IN  /\ L.err # "pivot_root" /\ SoundBut(L, h, root, but)
             /\ prop.kind # "shared" /\ Fine(L) => SoundBut(L, h, root, but \ {at.m})
<1> DEFINE ms == K.ms
           L == SetPropagation(K, at, prop)
           U == RootStack(ms, h)
           H == Len(h)
           of == {at.m} \cup (IF prop.rec THEN Below(ms, at) ELSE {})
           par == ms[H + 1].par
<1>1. /\ Table(ms, G, F) /\ Grown(ms, h) /\ Ordered(ms) /\ Stack(ms, h, U) /\ H \in Nat
      /\ DOMAIN ms = 1..Len(ms) /\ Len(ms) \in Nat /\ H < Len(ms) /\ U \subseteq (H + 1)..Len(ms)
  BY KernelTable, GrownStack, AtRootfsPlace, TableShape DEF SoundBut, Grown, RootStack
<1>2. par <= H /\ par \in DOMAIN ms /\ par \notin U
  <2>1. Top(h, AtRootfs).m \in DOMAIN h /\ DOMAIN h = 1..H
    BY AtRootfsPlace DEF Places
  <2>2. par \in 1..H
    BY <1>1, <2>1 DEF Grown, Point
  <2>. QED BY <1>1, <2>2
<1>3. CASE ~MountRoot(K, at)
  <2>1. L = Failed(K, "EINVAL")
    BY <1>3 DEF SetPropagation
  <2>2. L.ms = K.ms /\ L.err = "EINVAL"
    BY <2>1 DEF Failed, KernelOK
  <2>3. ~Fine(L)
    BY <2>2 DEF Fine
  <2>. HIDE DEF L
  <2>. QED BY <1>1, <2>2, <2>3, SoundFiles DEF L
<1>4. CASE MountRoot(K, at)
  <2>1. /\ DOMAIN L.ms = DOMAIN ms /\ Kept(ms, L.ms) /\ L.err = K.err
        /\ \A k \in DOMAIN ms :
             L.ms[k].group = IF k \in of THEN GroupAfter(prop, ms[k].group) ELSE ms[k].group
    BY <1>4, PropagationRows
  <2>2. Table(L.ms, G, F) /\ L.err # "pivot_root"
    <3>1. Keeps(K, L, G, F)
      BY SetPropagationKeeps
    <3>. HIDE DEF L
    <3>. QED BY <2>1, <3>1, KernelTable DEF Keeps, Holds, SoundBut
  <2>. HIDE DEF L, of
  <2>3. ASSUME prop.kind # "shared"
        PROVE  /\ \A k \in DOMAIN ms : ~Shared(ms[k]) => ~Shared(L.ms[k])
               /\ at.m \in DOMAIN ms /\ ~Shared(L.ms[at.m])
    <3>1. \A g : GroupAfter(prop, g) \in {"unbindable", "private"}
      BY <2>3 DEF GroupAfter
    <3>2. at.m \in DOMAIN ms /\ at.m \in of
      BY DEF Places, of
    <3>. QED BY <2>1, <3>1, <3>2 DEF Shared
  <2>4. ASSUME Low(ms, h, U, at) PROVE \A k \in U \cup {par} : k \notin of
    <3>1. at.m > H /\ at.m \notin U
      BY <1>4, <2>4 DEF Low, OnStack, MountRoot
    <3> DEFINE S == {k \in DOMAIN ms : k > H + 1 /\ k \notin U}
    <3>2. ASSUME NEW k \in DOMAIN ms, ms[k].par > H, ms[k].par \notin U PROVE k \in S
      <4>1. k # 1 /\ ms[k].par < k
        <5>1. k # 1
          BY <1>1, <3>2 DEF Ordered, NoMount
        <5>. QED BY <1>1, <3>2, <5>1 DEF Ordered
      <4>2. k # H + 1
        <5> DEFINE q == ms[k].par
        <5>1. q > H /\ H \in Nat
          BY <1>1, <3>2
        <5>2. k = H + 1 => q = par
          OBVIOUS
        <5>3. par \in Nat /\ par <= H
          BY <1>1, <1>2
        <5>. HIDE DEF q, par, H
        <5>. QED BY <5>1, <5>2, <5>3
      <4>3. k > H + 1
        <5> DEFINE q == ms[k].par
        <5>1. q \in Nat /\ k \in Nat /\ H \in Nat
          BY <1>1, <4>1 DEF Ordered
        <5>2. q > H /\ q < k
          BY <3>2, <4>1
        <5>. HIDE DEF q, H
        <5>. QED BY <5>1, <5>2
      <4>. QED BY <1>1, <3>2, <4>3 DEF Stack, OnStack
    <3>3. Hung(ms, at, Live(ms), S) \subseteq S
      <4>. SUFFICES ASSUME NEW k \in Live(ms), ms[k].par = at.m \/ ms[k].par \in S
                    PROVE  k \in S
        BY DEF Hung
      <4>1. k \in DOMAIN ms
        BY DEF Live
      <4>2. ms[k].par > H /\ ms[k].par \notin U
        <5>1. CASE ms[k].par = at.m
          BY <3>1, <5>1
        <5>2. CASE ms[k].par \in S
          BY <1>1, <5>2
        <5>. QED BY <5>1, <5>2
      <4>. QED BY <3>2, <4>1, <4>2
    <3>4. Below(ms, at) \subseteq S
      <4>. HIDE DEF S
      <4>. QED BY <1>1, <3>3, HangingIn DEF Below
    <3>5. \A k \in of : k > H /\ k \notin U
      BY <1>1, <3>1, <3>4 DEF of
    <3>. QED BY <1>1, <1>2, <3>5
  <2>5. /\ \A k \in U \ but : ~Shared(ms[k])
        /\ ~Shared(ms[par])
    BY DEF SoundBut
  <2>6. ASSUME NEW but2, \A k \in U \ but2 : ~Shared(L.ms[k]), ~Shared(L.ms[par])
        PROVE  SoundBut(L, h, root, but2)
    BY <1>1, <2>1, <2>2, <2>6, SoundKept
  <2>7. U \subseteq DOMAIN ms
    BY <1>1
  <2>8. SoundBut(L, h, root, but)
    <3>1. CASE prop.kind # "shared"
      BY <1>2, <2>3, <2>5, <2>6, <2>7, <3>1
    <3>2. CASE Low(ms, h, U, at)
      BY <1>2, <2>1, <2>4, <2>5, <2>6, <2>7, <3>2 DEF Shared
    <3>. QED BY <3>1, <3>2
  <2>9. prop.kind # "shared" => SoundBut(L, h, root, but \ {at.m})
    <3>. SUFFICES ASSUME prop.kind # "shared" PROVE SoundBut(L, h, root, but \ {at.m})
      OBVIOUS
    <3>1. \A k \in U \ (but \ {at.m}) : ~Shared(L.ms[k])
      BY <2>3, <2>5, <2>7
    <3>2. ~Shared(L.ms[par])
      BY <1>2, <2>3, <2>5
    <3>. QED BY <2>6, <3>1, <3>2
  <2>. QED BY <2>2, <2>8, <2>9 DEF L
<1>. QED BY <1>3, <1>4

LEMMA RemountSound ==
  ASSUME NEW G, NEW F, NEW K, KernelOK(K, G, F), NEW h, Made(h), NEW root,
         NEW but, SoundBut(K, h, root, but), NEW at \in Places(K.ms), NEW flags,
         flags \cap Attributes \subseteq F
  PROVE  SoundBut(Remount(K, at, flags), h, root, but)
<1> DEFINE L == Remount(K, at, flags)
<1>1. /\ DOMAIN L.ms = DOMAIN K.ms /\ Kept(K.ms, L.ms) /\ L.err \in {K.err, "EINVAL", "EPERM"}
      /\ \A k \in DOMAIN K.ms : L.ms[k].group = K.ms[k].group
  BY RemountRows
<1>2. Keeps(K, L, G, F)
  BY RemountKeeps
<1>. HIDE DEF L
<1>3. Table(L.ms, G, F) /\ Table(K.ms, G, F) /\ Grown(K.ms, h)
  BY <1>2, KernelTable DEF Keeps, Holds, SoundBut
<1>4. L.err # "pivot_root"
  BY <1>1 DEF SoundBut
<1>5. RootStack(K.ms, h) \subseteq DOMAIN K.ms /\ K.ms[Len(h) + 1].par \in DOMAIN K.ms
  <2>1. DOMAIN K.ms = 1..Len(K.ms) /\ Len(K.ms) \in Nat /\ Len(h) \in Nat /\ Len(h) # 0 /\ Len(h) < Len(K.ms)
    BY <1>3, TableShape, AtRootfsPlace DEF Grown
  <2>2. Len(h) + 1 \in DOMAIN K.ms /\ Len(h) + 1 # 1
    BY <2>1
  <2>3. K.ms[Len(h) + 1].par \in 1..(Len(h) + 1 - 1)
    BY <1>3, <2>2 DEF Grown, Ordered
  <2>. QED BY <2>1, <2>3 DEF RootStack
<1>6. /\ \A k \in RootStack(K.ms, h) \ but : ~Shared(L.ms[k])
      /\ ~Shared(L.ms[K.ms[Len(h) + 1].par])
  BY <1>1, <1>5 DEF SoundBut, Shared
<1>. QED BY <1>1, <1>3, <1>4, <1>6, SoundKept DEF L

-----------------------------------------------------------------------------
(* What the helpers of container.cpp make of the stack, while the mounter's*)
(* root is on it and the process has not left the host's root.             *)
Going(K, h, G, F) ==
  Ready(K, G, F) /\ procRoot = HostRoot /\ Made(h) /\ Sound(K, h, rootfd)

(* After a mount on "/" the top of the stack may still be shared.          *)
Near(K, h, dest) ==
  IF dest = <<>> THEN SoundBut(K, h, rootfd, {Top(K.ms, AtRootfs).m}) ELSE Sound(K, h, rootfd)

(* What is left of a mount that is done, or was refused.                   *)
Safe(K, h) == K.err # "pivot_root" /\ (Fine(K) => Sound(K, h, rootfd))

LEMMA GoingFacts ==
  ASSUME NEW G, NEW F, NEW K, NEW h, Going(K, h, G, F)
  PROVE  /\ Allowed(G, F) /\ KernelOK(K, G, F) /\ Table(K.ms, G, F) /\ Made(h) /\ Grown(K.ms, h)
         /\ Ordered(K.ms) /\ rootfd \in Places(K.ms) /\ OnStack(K.ms, RootStack(K.ms, h), rootfd)
         /\ procRoot = HostRoot /\ K.err # "pivot_root"
BY KernelTable DEF Going, Ready, Sound, SoundBut, Grown

LEMMA SameGoing ==
  ASSUME NEW G, NEW F, NEW K, NEW h, Going(K, h, G, F), NEW L, SameMounts(K, L), KernelOK(L, G, F)
  PROVE  Going(L, h, G, F) /\ Safe(L, h)
<1>1. Sound(L, h, rootfd)
  BY GoingFacts, SoundFiles DEF Going, Sound, SameMounts
<1>. QED BY <1>1 DEF Going, Ready, Safe, Sound, SoundBut, SameMounts

LEMMA SameSafe ==
  ASSUME NEW G, NEW F, NEW K, NEW h, Going(K, h, G, F), NEW L, SameMounts(K, L)
  PROVE  Sound(L, h, rootfd) /\ Safe(L, h) /\ Near(L, h, <<>>) /\ \A dest : Near(L, h, dest)
<1>1. Sound(L, h, rootfd)
  BY GoingFacts, SoundFiles DEF Going, Sound, SameMounts
<1>. QED BY <1>1 DEF Safe, Sound, SoundBut, Near

LEMMA NearSafe ==
  ASSUME NEW K, NEW h
  PROVE  /\ Sound(K, h, rootfd) => Safe(K, h) /\ \A dest : Near(K, h, dest)
         /\ \A dest : Near(K, h, dest) => K.err # "pivot_root"
BY DEF Safe, Sound, SoundBut, Near

LEMMA SpotOpened ==
  ASSUME NEW G, NEW F, NEW K, KernelOK(K, G, F), NEW h, Made(h), NEW but,
         SoundBut(K, h, rootfd, but), NEW path \in Paths
  PROVE  /\ Opened(K, path) \in Places(K.ms)
         /\ path = <<>> => Opened(K, path) = rootfd
         /\ path = <<>> => OnStack(K.ms, RootStack(K.ms, h), Opened(K, path))
         /\ path # <<>> => Low(K.ms, h, RootStack(K.ms, h), Opened(K, path))
<1>1. Table(K.ms, G, F) /\ Grown(K.ms, h) /\ rootfd \in Places(K.ms)
      /\ OnStack(K.ms, RootStack(K.ms, h), rootfd)
  BY KernelTable DEF SoundBut
<1>2. Opened(K, path) = Lookup(K, rootfd, path).at
  BY DEF Opened
<1>. HIDE DEF Opened
<1> DEFINE U == RootStack(K.ms, h)
           spot == Opened(K, path)
           R == OnStack(K.ms, U, rootfd)
           Down == Low(K.ms, h, U, spot)
<1>3. spot \in Places(K.ms)
  <2>. HIDE DEF spot
  <2>. QED BY <1>1, <1>2, LookupPlace DEF spot
<1>4. R
  BY <1>1
<1>5. (path = <<>> => spot = rootfd) /\ (path # <<>> => Down)
  <2>1. LeadsDown(K, h, rootfd, path, Lookup(K, rootfd, path).at)
    BY <1>1, StackLookup
  <2>. QED BY <1>2, <2>1 DEF LeadsDown
<1>. HIDE DEF spot, Down
<1>6. path = <<>> => OnStack(K.ms, U, spot)
  BY <1>4, <1>5
<1>. QED BY <1>3, <1>5, <1>6 DEF spot, Down

LEMMA EnsureGoing ==
  ASSUME NEW G, NEW F, NEW K, NEW h, Going(K, h, G, F), NEW path \in Paths, NEW isDir
  PROVE  /\ Going(Ensure(K, rootfd, path, isDir), h, G, F)
         /\ Ensure(K, rootfd, path, isDir).ms = K.ms
<1> DEFINE L == Ensure(K, rootfd, path, isDir)
<1>1. SameMounts(K, L) /\ Keeps(K, L, G, F)
  BY GoingFacts, EnsureSame, EnsureKeeps
<1>. HIDE DEF L
<1>. QED BY <1>1, SameGoing DEF Keeps, Holds, SameMounts, L

(* Binding at a destination of the container.                              *)
LEMMA BindOntoNear ==
  ASSUME NEW G, NEW F, NEW K, NEW h, Going(K, h, G, F), NEW dest \in Paths,
         NEW src \in Places(K.ms), NEW rec,
         dest = <<>> => MountedAt(K.ms, src) = {} \/ OnStack(K.ms, RootStack(K.ms, h), src)
  PROVE  LET L == BindOnto(K, src, Opened(K, dest), rec)
         IN  /\ Near(L, h, dest)
             /\ OnStack(K.ms, RootStack(K.ms, h), src) => Sound(L, h, rootfd)
<1> DEFINE dst == Opened(K, dest)
           B == Bind(K, src, dst, rec)
           L == BindOnto(K, src, dst, rec)
           U == RootStack(K.ms, h)
<1>1. /\ Allowed(G, F) /\ KernelOK(K, G, F) /\ Made(h) /\ SoundBut(K, h, rootfd, {})
      /\ Sound(K, h, rootfd)
  BY GoingFacts DEF Going, Sound
<1>2. /\ dst \in Places(K.ms) /\ (dest = <<>> => OnStack(K.ms, U, dst))
      /\ (dest # <<>> => Low(K.ms, h, U, dst))
  BY <1>1, SpotOpened
<1>. HIDE DEF dst
<1>3. Sound(Failed(K, "mismatch"), h, rootfd) /\ Near(Failed(K, "mismatch"), h, dest)
  BY <1>1, FailedSame, SameSafe
<1>4. L = Failed(K, "mismatch") \/ L = B
  BY DEF BindOnto
<1>. HIDE DEF L, B
<1>5. CASE dest # <<>>
  <2>1. Sound(B, h, rootfd)
    <3>1. BoundLow(K, B, h, rootfd, {})
      BY <1>1, <1>2, <1>5, BindLow DEF B, Sound
    <3>. QED BY <3>1 DEF BoundLow, Sound
  <2>. QED BY <1>3, <1>4, <1>5, <2>1 DEF Near, L, dst
<1>6. CASE dest = <<>>
  <2>1. /\ OnStack(K.ms, U, src) => Sound(B, h, rootfd)
        /\ MountedAt(K.ms, src) = {} => SoundBut(B, h, rootfd, {Top(B.ms, AtRootfs).m})
    BY <1>1, <1>2, <1>6, BindStack DEF B
  <2>2. Sound(B, h, rootfd) => Near(B, h, dest)
    BY NearSafe
  <2>3. Near(B, h, dest)
    BY <1>6, <2>1, <2>2 DEF Near
  <2>. QED BY <1>3, <1>4, <2>1, <2>3 DEF L, dst, U
<1>. QED BY <1>5, <1>6

LEMMA BindAtNear ==
  ASSUME NEW G, NEW F, NEW K, NEW h, Going(K, h, G, F), NEW mount, mount.dest \in Paths,
         NEW src \in Places(K.ms),
         mount.dest = <<>> => MountedAt(K.ms, src) = {} \/ OnStack(K.ms, RootStack(K.ms, h), src)
  PROVE  /\ Near(BindAt(K, mount, src), h, mount.dest)
         /\ OnStack(K.ms, RootStack(K.ms, h), src) => Sound(BindAt(K, mount, src), h, rootfd)
<1> DEFINE made == EnsureDestination(K, mount, IsDir(K, src))
           dest == mount.dest
           done == BindOnto(made, src, Opened(made, dest), "rec" \in mount.flags)
<1>1. Going(made, h, G, F) /\ made.ms = K.ms
  BY EnsureGoing DEF EnsureDestination
<1>2. BindAt(K, mount, src) = IF Fine(made) THEN done ELSE made
  BY DEF BindAt, BindMade
<1>. HIDE DEF made
<1>3. /\ Near(done, h, dest)
      /\ OnStack(K.ms, RootStack(K.ms, h), src) => Sound(done, h, rootfd)
  <2> DEFINE rec == "rec" \in mount.flags
  <2>. HIDE DEF dest, rec
  <2>1. dest \in Paths /\ (dest = <<>> => MountedAt(K.ms, src) = {} \/ OnStack(K.ms, RootStack(K.ms, h), src))
    BY DEF dest
  <2>. QED BY <1>1, <2>1, BindOntoNear DEF rec
<1>4. Sound(made, h, rootfd) /\ Near(made, h, dest)
  BY <1>1, NearSafe DEF Going
<1>. HIDE DEF done
<1>. QED BY <1>2, <1>3, <1>4

(* Sources are found from the host's root: nothing is mounted over where   *)
(* their path leads.                                                       *)
LEMMA SourcePlace ==
  ASSUME NEW G, NEW F, NEW K, NEW h, Going(K, h, G, F), NEW path \in Paths
  PROVE  /\ Lookup(K, procRoot, path).at \in Places(K.ms)
         /\ MountedAt(K.ms, Lookup(K, procRoot, path).at) = {}
         /\ path = RootfsPath =>
              OnStack(K.ms, RootStack(K.ms, h), Lookup(K, procRoot, path).at)
<1>1. /\ Table(K.ms, G, F) /\ Ordered(K.ms) /\ Made(h) /\ Grown(K.ms, h) /\ procRoot = HostRoot
      /\ HostRoot.m = 1 /\ HostRoot.p = <<>>
  BY GoingFacts DEF HostRoot
<1>2. K.ms # <<>> /\ 1 \in DOMAIN K.ms
  BY <1>1, TableShape, AtRootfsPlace DEF Grown
<1>3. HostRoot \in Places(K.ms) /\ Proper(K.ms, HostRoot)
  <2>1. HostRoot \in Places(K.ms)
    BY <1>2, NamedPaths DEF HostRoot, Places
  <2>2. Under(<<>>, <<>>)
    BY NamedPaths, UnderFacts
  <2>. QED BY <1>1, <2>1, <2>2 DEF Proper, Ordered
<1>4. MountedAt(K.ms, HostRoot) = {}
  <2>1. ASSUME NEW k \in MountedAt(K.ms, HostRoot) PROVE FALSE
    <3>1. k \in DOMAIN K.ms /\ K.ms[k].par = 1 /\ K.ms[k].at = <<>>
      BY <1>1 DEF MountedAt
    <3>. QED BY <1>1, <3>1 DEF Ordered, NoMount
  <2>. QED BY <2>1
<1>5. path = RootfsPath => OnStack(K.ms, RootStack(K.ms, h), Lookup(K, procRoot, path).at)
  <2>1. Lookup(K, HostRoot, RootfsPath).at = Top(K.ms, AtRootfs)
    BY <1>1, <1>2, RootLookup
  <2>2. OnStack(K.ms, RootStack(K.ms, h), Top(K.ms, AtRootfs))
    BY <1>1, StackSame
  <2>. QED BY <1>1, <2>1, <2>2
<1>. QED BY <1>1, <1>3, <1>4, <1>5, LookupProper DEF Proper

LEMMA DoBindMountNear ==
  ASSUME NEW G, NEW F, NEW K, NEW h, Going(K, h, G, F), NEW mount, mount.dest \in Paths,
         mount.source \in Paths
  PROVE  /\ Near(DoBindMount(K, mount), h, mount.dest)
         /\ mount.source = RootfsPath => Sound(DoBindMount(K, mount), h, rootfd)
<1> DEFINE src == Lookup(K, procRoot, mount.source)
<1>1. src.at \in Places(K.ms) /\ MountedAt(K.ms, src.at) = {} /\ src.err # "pivot_root"
      /\ (mount.source = RootfsPath => OnStack(K.ms, RootStack(K.ms, h), src.at))
  BY SourcePlace, LookupError
<1>2. DoBindMount(K, mount) =
        IF src.err # "none" THEN Failed(K, src.err) ELSE BindAt(K, mount, src.at)
  BY DEF DoBindMount
<1>. HIDE DEF src
<1>3. SameMounts(K, Failed(K, src.err))
  BY <1>1, GoingFacts, FailedSame
<1>4. Sound(Failed(K, src.err), h, rootfd) /\ Near(Failed(K, src.err), h, mount.dest)
  BY <1>3, SameSafe
<1>. QED BY <1>1, <1>2, <1>4, BindAtNear

LEMMA BindSysNear ==
  ASSUME NEW G, NEW F, NEW K, NEW h, Going(K, h, G, F), NEW mount, mount.dest \in Paths
  PROVE  Near(BindSys(K, mount), h, mount.dest)
<1> DEFINE src == Lookup(K, procRoot, <<"sys">>).at
           dst == Opened(K, mount.dest)
           bound == Bind(K, src, dst, TRUE)
           cgroup == Lookup(bound, rootfd, Cgroup).at
           null == Lookup(bound, procRoot, <<"dev", "null">>).at
           masked == Bind(bound, null, cgroup, FALSE)
           U == RootStack(K.ms, h)
<1>1. /\ Allowed(G, F) /\ KernelOK(K, G, F) /\ Made(h) /\ SoundBut(K, h, rootfd, {})
      /\ Sound(K, h, rootfd) /\ Ready(K, G, F)
  BY GoingFacts DEF Going, Sound
<1>2. /\ dst \in Places(K.ms) /\ (mount.dest = <<>> => OnStack(K.ms, U, dst))
      /\ (mount.dest # <<>> => Low(K.ms, h, U, dst))
  BY <1>1, SpotOpened
<1>3. src \in Places(K.ms) /\ MountedAt(K.ms, src) = {}
  BY NamedPaths, SourcePlace
<1>4. BindSys(K, mount) = bound \/ BindSys(K, mount) = masked
  BY DEF BindSys, BoundSys, MaskCgroup
<1>. HIDE DEF dst, src
<1>5. Near(bound, h, mount.dest)
  <2>1. CASE mount.dest # <<>>
    <3>1. BoundLow(K, bound, h, rootfd, {})
      BY <1>1, <1>2, <1>3, <2>1, BindLow
    <3>. HIDE DEF bound
    <3>. QED BY <2>1, <3>1 DEF Near, Sound, BoundLow
  <2>2. CASE mount.dest = <<>>
    BY <1>1, <1>2, <1>3, <2>2, BindStack DEF Near
  <2>. QED BY <2>1, <2>2
<1>6. Ready(bound, G, F)
  <2>1. Keeps(K, bound, G, F)
    BY <1>1, <1>2, <1>3, BindKeeps
  <2>. HIDE DEF bound
  <2>. QED BY <1>1, <2>1, StillReady
<1>. HIDE DEF bound
<1> DEFINE but == IF mount.dest = <<>> THEN {Top(bound.ms, AtRootfs).m} ELSE {}
<1>7. SoundBut(bound, h, rootfd, but)
  BY <1>5 DEF Near, Sound
<1>8. null \in Places(bound.ms) /\ KernelOK(bound, G, F)
  BY <1>6, NamedPaths, OpenedPlace DEF Ready
<1>9. Low(bound.ms, h, RootStack(bound.ms, h), cgroup)
  <2>1. Cgroup \in Paths /\ Cgroup # <<>>
    BY NamedPaths DEF Cgroup
  <2>. HIDE DEF but
  <2>. QED BY <1>1, <1>7, <1>8, <2>1, SpotOpened DEF Opened
<1>. HIDE DEF null, cgroup, but
<1> DEFINE Sealed == SoundBut(masked, h, rootfd, but)
           SameTop == Top(masked.ms, AtRootfs) = Top(bound.ms, AtRootfs)
<1>10. Sealed /\ SameTop
  <2>. HIDE DEF U
  <2>1. Allowed(G, F) /\ KernelOK(bound, G, F) /\ Made(h)
    BY <1>1, <1>8
  <2>2. BoundLow(bound, masked, h, rootfd, but)
    BY <2>1, <1>7, <1>8, <1>9, BindLow
  <2>. HIDE DEF masked
  <2>. QED BY <2>2 DEF BoundLow
<1>. HIDE DEF masked
<1>11. Near(masked, h, mount.dest)
  BY <1>10 DEF Near, Sound, but
<1>. QED BY <1>4, <1>5, <1>11

(* A new mount leaves the others where they are.                           *)
LEMMA MountNewKept ==
  ASSUME NEW G, NEW F, Allowed(G, F), NEW K, KernelOK(K, G, F), NEW type, NEW nodes,
         NEW flags, flags \cap Attributes \subseteq F, NEW dst \in Places(K.ms)
  PROVE  Kept(K.ms, MountNew(K, type, nodes, dst, flags).ms)
<1>1. PICK L, tree :
           /\ KernelOK(L, G, F) /\ L.ms = K.ms /\ L.err = K.err
           /\ Tree(tree, Len(K.ms), G, F) /\ TreeOrder(tree, Len(K.ms))
           /\ DOMAIN tree = 1..1 /\ ~Shared(tree[1])
           /\ MountNew(K, type, nodes, dst, flags) =
                IF ~IsDir(K, dst) THEN Failed(K, "ENOTDIR") ELSE AttachOn(L, tree, Top(K.ms, dst))
  BY NewTree
<1> DEFINE top == Top(K.ms, dst)
           N == AttachOn(L, tree, top)
<1>2. top \in Places(L.ms) /\ DOMAIN K.ms = 1..Len(K.ms)
  BY <1>1, KernelTable, TableShape, TopPlace
<1>. HIDE DEF top
<1>3. /\ Len(K.ms) \in Nat /\ Len(tree) \in Nat
      /\ DOMAIN N.ms = 1..(Len(K.ms) + Len(tree)) /\ \A k \in 1..Len(K.ms) : N.ms[k] = K.ms[k]
  <2>1. Attached(L, N, tree, top)
    BY <1>1, <1>2, AttachRows
  <2>. HIDE DEF N
  <2>. QED BY <1>1, <2>1 DEF Attached
<1>. HIDE DEF N, Attached
<1>4. Kept(K.ms, N.ms)
  <2>1. DOMAIN K.ms \subseteq DOMAIN N.ms
    <3> DEFINE n == Len(K.ms)
               t == Len(tree)
    <3>1. n \in Nat /\ t \in Nat /\ DOMAIN K.ms = 1..n /\ DOMAIN N.ms = 1..(n + t)
      BY <1>2, <1>3
    <3>. HIDE DEF n, t
    <3>. QED BY <3>1
  <2>. QED BY <1>2, <1>3, <2>1 DEF Kept
<1>5. Kept(K.ms, Failed(K, "ENOTDIR").ms)
  BY DEF Kept, Failed, KernelOK
<1>. QED BY <1>1, <1>4, <1>5 DEF N, top

LEMMA MountTypeNear ==
  ASSUME NEW G, NEW F, NEW K, NEW h, Going(K, h, G, F), NEW mount, mount.dest \in Paths,
         mount.flags \cap Attributes \subseteq F
  PROVE  LET made == EnsureDestination(K, mount, TRUE)
             denied == mount.type = "sysfs" /\ setup.sysfsDenied
         IN  /\ Going(made, h, G, F)
             /\ Near(MountType(K, mount), h, mount.dest)
             /\ ~denied => /\ Sound(MountType(K, mount), h, rootfd)
                           /\ Kept(made.ms, MountType(K, mount).ms)
<1> DEFINE made == EnsureDestination(K, mount, TRUE)
           dst == Opened(made, mount.dest)
           new == MountNew(made, mount.type, NewNodes(mount.type), dst, mount.flags)
           sys == BindSys(made, mount)
           L == MountType(K, mount)
           failed == Failed(made, "EPERM")
           denied == mount.type = "sysfs" /\ setup.sysfsDenied
<1>1. Going(made, h, G, F)
  BY EnsureGoing DEF EnsureDestination
<1>2. L = IF ~Fine(made) THEN made
          ELSE IF ~denied THEN new ELSE IF cfg.userNs THEN sys ELSE failed
  BY DEF MountType, MountMade
<1>. HIDE DEF made
<1>3. /\ Allowed(G, F) /\ KernelOK(made, G, F) /\ Made(h) /\ SoundBut(made, h, rootfd, {})
      /\ Sound(made, h, rootfd)
  BY <1>1, GoingFacts DEF Going, Sound
<1>4. /\ dst \in Places(made.ms)
      /\ \/ OnStack(made.ms, RootStack(made.ms, h), dst)
         \/ Low(made.ms, h, RootStack(made.ms, h), dst)
  BY <1>3, SpotOpened
<1>. HIDE DEF dst
<1>5. Sound(new, h, rootfd) /\ Kept(made.ms, new.ms)
  BY <1>3, <1>4, MountNewSound, MountNewKept
<1>6. Near(sys, h, mount.dest)
  BY <1>1, BindSysNear
<1>7. SameMounts(made, failed)
  BY <1>3, FailedSame
<1>8. Sound(failed, h, rootfd)
  <2>. HIDE DEF failed
  <2>. QED BY <1>1, <1>7, SameSafe
<1>9. Kept(made.ms, made.ms)
  BY DEF Kept
<1>. HIDE DEF new, sys, failed, L, denied
<1>10. Near(L, h, mount.dest)
  BY <1>2, <1>3, <1>5, <1>6, <1>8, NearSafe
<1>11. ~denied => Sound(L, h, rootfd) /\ Kept(made.ms, L.ms)
  BY <1>2, <1>3, <1>5, <1>9
<1>. QED BY <1>1, <1>10, <1>11 DEF L, denied, made

(* Setting the propagation of a mount just made.                           *)
LEMMA PropagationNear ==
  ASSUME NEW G, NEW F, NEW K, Ready(K, G, F), procRoot = HostRoot, NEW h, Made(h), NEW dest,
         Near(K, h, dest), NEW fd \in Places(K.ms),
         IF dest = <<>> THEN OnStack(K.ms, RootStack(K.ms, h), fd)
         ELSE Low(K.ms, h, RootStack(K.ms, h), fd),
         NEW prop, \/ dest # <<>> \/ prop.kind \in {"private", "slave", "unbindable"}
                   \/ prop = NoProp /\ Sound(K, h, rootfd)
  PROVE  Safe(DoPropagation(K, fd, prop), h)
<1> DEFINE at == ByPath(K, fd)
           but == IF dest = <<>> THEN {Top(K.ms, AtRootfs).m} ELSE {}
           L == SetPropagation(K, at, prop)
<1>1. /\ Allowed(G, F) /\ KernelOK(K, G, F) /\ Table(K.ms, G, F) /\ SoundBut(K, h, rootfd, but)
      /\ Grown(K.ms, h)
  BY KernelTable DEF Ready, Near, Sound, SoundBut
<1>2. at \in Places(K.ms)
  BY ByPathPlace
<1>3. /\ dest = <<>> => at = Top(K.ms, AtRootfs)
      /\ dest # <<>> => Low(K.ms, h, RootStack(K.ms, h), at)
  BY <1>1, ByPathStack
<1>. HIDE DEF at
<1>4. CASE prop = NoProp
  <2>1. DoPropagation(K, fd, prop) = K
    BY <1>4 DEF DoPropagation
  <2>2. Sound(K, h, rootfd)
    BY <1>4 DEF Near, NoProp
  <2>. QED BY <2>1, <2>2, NearSafe
<1>5. CASE prop # NoProp
  <2>1. DoPropagation(K, fd, prop) = L
    BY <1>5 DEF DoPropagation, at
  <2>2. prop.kind # "shared" \/ Low(K.ms, h, RootStack(K.ms, h), at)
    BY <1>3, <1>5
  <2>. HIDE DEF but
  <2>3. /\ L.err # "pivot_root" /\ SoundBut(L, h, rootfd, but)
        /\ prop.kind # "shared" /\ Fine(L) => SoundBut(L, h, rootfd, but \ {at.m})
    BY <1>1, <1>2, <2>2, PropagationSound
  <2>4. dest # <<>> => but = {}
    BY DEF but
  <2>5. dest = <<>> => but \ {at.m} = {} /\ prop.kind # "shared"
    BY <1>3, <1>5 DEF but
  <2>. HIDE DEF L
  <2>6. Safe(L, h)
    BY <2>3, <2>4, <2>5 DEF Safe, Sound
  <2>. QED BY <2>1, <2>6
<1>. QED BY <1>4, <1>5

LEMMA DoRemountSound ==
  ASSUME NEW G, NEW F, NEW K, Ready(K, G, F), NEW h, Made(h), NEW root, Sound(K, h, root),
         NEW r, r.fd \in Places(K.ms), r.flags \cap Attributes \subseteq F
  PROVE  Sound(DoRemount(K, r), h, root)
<1> DEFINE at == ByPath(K, r.fd)
           had == K.ms[r.fd.m].flags
           kept == had \cap {"nosuid", "nodev", "noexec"}
           plain == Remount(K, at, r.flags)
           keeping == Remount(K, at, r.flags \cup kept)
           readonly == Remount(K, at, r.flags \cup kept \cup {"ro"})
           failed == Failed(K, "remount")
<1>1. at \in Places(K.ms) /\ had \subseteq F /\ KernelOK(K, G, F)
      /\ Table(K.ms, G, F) /\ SoundBut(K, h, root, {})
  BY ByPathPlace, KernelTable, TableShape DEF Places, Ready, Sound
<1>. HIDE DEF at, had
<1>2. ASSUME NEW flags, flags \cap Attributes \subseteq F
      PROVE  Sound(Remount(K, at, flags), h, root)
  BY <1>1, <1>2, RemountSound DEF Sound
<1>3. Sound(failed, h, root)
  <2>1. SameMounts(K, failed) /\ K.err # "pivot_root"
    BY <1>1, FailedSame DEF SoundBut
  <2>. HIDE DEF failed
  <2>. QED BY <1>1, <2>1, SoundFiles DEF SameMounts, Sound
<1>4. Sound(plain, h, root) /\ Sound(keeping, h, root)
  BY <1>1, <1>2
<1>5. "ro" \in had => Sound(readonly, h, root)
  BY <1>1, <1>2
<1>6. DoRemount(K, r) = IF Fine(plain) THEN plain
        ELSE IF kept \subseteq r.flags THEN failed
        ELSE IF Fine(keeping) THEN keeping
        ELSE IF "ro" \in had THEN readonly
        ELSE failed
  BY DEF DoRemount, RemountAt, at, had
<1>. HIDE DEF plain, keeping, readonly, failed
<1>. QED BY <1>3, <1>4, <1>5, <1>6

(* The propagation and the remount that a mount ends with.                 *)
LEMMA FinishSafe ==
  ASSUME NEW G, NEW F, NEW K, NEW h, Going(K, h, G, F), NEW done, Keeps(K, done, G, F),
         NEW mount, MountFits(mount, F), Near(done, h, mount.dest),
         OpenAfter(mount) \/ Kept(K.ms, done.ms),
         \/ KeepsRootPrivate(mount) /\ (mount.prop = NoProp => Sound(done, h, rootfd))
         \/ mount.dest # <<>>
  PROVE  Safe(Finish(K, mount, done).kern, h)
<1> DEFINE dest == mount.dest
           fd == Opened(IF OpenAfter(mount) THEN done ELSE K, dest)
           k == IF Fine(done) THEN DoPropagation(done, fd, mount.prop) ELSE done
           remount == [fd |-> fd, flags |-> mount.flags]
           now == DoRemount(k, remount)
           result == Finish(K, mount, done).kern
           but == IF dest = <<>> THEN {Top(done.ms, AtRootfs).m} ELSE {}
<1>1. Ready(done, G, F) /\ procRoot = HostRoot /\ Made(h) /\ KernelOK(done, G, F) /\ dest \in Paths
      /\ done.err # "pivot_root" /\ SoundBut(done, h, rootfd, but)
  BY StillReady, NearSafe DEF Going, Ready, MountFits, Near, Sound
<1>2. /\ fd \in Places(done.ms)
      /\ IF dest = <<>> THEN OnStack(done.ms, RootStack(done.ms, h), fd)
         ELSE Low(done.ms, h, RootStack(done.ms, h), fd)
  <2>1. CASE OpenAfter(mount)
    <3>1. fd = Opened(done, dest)
      BY <2>1
    <3>. HIDE DEF but, fd, dest
    <3>. QED BY <1>1, <3>1, SpotOpened
  <2>2. CASE ~OpenAfter(mount)
    <3>1. fd = Opened(K, dest) /\ Kept(K.ms, done.ms)
      BY <2>2
    <3>. HIDE DEF but, fd, dest
    <3>2. /\ fd \in Places(K.ms) /\ (dest = <<>> => fd = rootfd)
          /\ dest # <<>> => Low(K.ms, h, RootStack(K.ms, h), fd)
      BY <1>1, <3>1, GoingFacts, SpotOpened DEF Going, Sound
    <3>3. Table(K.ms, G, F) /\ Table(done.ms, G, F) /\ Grown(K.ms, h) /\ Grown(done.ms, h)
      BY <1>1, GoingFacts, KernelTable DEF SoundBut
    <3>4. fd \in Places(done.ms)
      BY <3>2, <3>3, <1>1, <3>1, KeptStack
    <3>5. dest # <<>> => Low(done.ms, h, RootStack(done.ms, h), fd)
      BY <3>2, <3>3, <1>1, <3>1, KeptStack
    <3>. QED BY <1>1, <3>2, <3>4, <3>5 DEF SoundBut
  <2>. QED BY <2>1, <2>2
<1>. HIDE DEF fd
<1>3. result = IF ~Fine(k) \/ ~NeedsRemount(mount) THEN k
               ELSE IF "ro" \in mount.flags THEN k ELSE now
  BY DEF Finish, RemountOrWait, Mounted, Propagated, fd
<1>4. Safe(k, h)
  <2>1. \/ dest # <<>> \/ mount.prop.kind \in {"private", "slave", "unbindable"}
        \/ mount.prop = NoProp /\ Sound(done, h, rootfd)
    BY DEF KeepsRootPrivate
  <2>2. Safe(DoPropagation(done, fd, mount.prop), h)
    <3> DEFINE prop == mount.prop
    <3>. HIDE DEF prop, but, dest
    <3>. QED BY <1>1, <1>2, <2>1, PropagationNear DEF dest, prop
  <2>3. ~Fine(done) => Safe(done, h)
    BY <1>1 DEF Safe
  <2>. QED BY <2>2, <2>3
<1>5. Keeps(done, k, G, F)
  BY <1>1, DoPropagationKeeps, KeepsNothing DEF Ready
<1>. HIDE DEF k, result
<1>6. Fine(k) => Going(k, h, G, F)
  <2>1. Ready(k, G, F)
    BY <1>1, <1>5, StillReady
  <2>. QED BY <1>1, <1>4, <2>1 DEF Going, Safe
<1>7. ASSUME Fine(k), "ro" \notin mount.flags PROVE Safe(now, h)
  <2>1. remount.fd \in Places(k.ms) /\ remount.flags \cap Attributes \subseteq F
    <3>1. fd \in Places(k.ms)
      BY <1>2, <1>5 DEF Keeps, Holds
    <3>2. Attributes \ {"ro"} \subseteq F
      BY <1>1 DEF Ready, Allowed
    <3>. QED BY <1>7, <3>1, <3>2
  <2>. HIDE DEF remount
  <2>2. Sound(now, h, rootfd)
    BY <1>6, <1>7, <2>1, DoRemountSound DEF Going
  <2>. QED BY <2>2, NearSafe
<1>. HIDE DEF now
<1>. QED BY <1>3, <1>4, <1>7 DEF result

(* do_mount.                                                               *)
LEMMA DoMountSafe ==
  ASSUME NEW G, NEW F, NEW K, NEW h, Going(K, h, G, F), NEW mount, MountFits(mount, F),
         KeepsRootPrivate(mount)
  PROVE  Safe(DoMount(K, mount).kern, h)
<1>1. mount.dest \in Paths /\ mount.source \in Paths
  BY DEF MountFits
<1>2. CASE IsCgroup(mount)
  <2> DEFINE k == IF mount.dest = Cgroup /\ sysRbind THEN K
                  ELSE Failed(K, "cgroup mount not implemented")
  <2>1. SameMounts(K, k)
    <3>1. SameMounts(K, K)
      BY DEF SameMounts
    <3>2. SameMounts(K, Failed(K, "cgroup mount not implemented"))
      BY GoingFacts, FailedSame
    <3>. QED BY <3>1, <3>2
  <2>2. DoMount(K, mount).kern = k
    BY <1>2 DEF DoMount
  <2>. HIDE DEF k
  <2>. QED BY <2>1, <2>2, SameSafe
<1>3. CASE ~IsCgroup(mount) /\ IsBind(mount)
  <2> DEFINE done == DoBindMount(K, mount)
  <2>1. Near(done, h, mount.dest) /\ (mount.source = RootfsPath => Sound(done, h, rootfd))
    BY <1>1, DoBindMountNear
  <2>2. Keeps(K, done, G, F)
    BY <1>1, DoBindMountKeeps DEF Going
  <2>3. DoMount(K, mount) = Finish(K, mount, done)
    BY <1>3 DEF DoMount
  <2>4. OpenAfter(mount)
    BY <1>3 DEF OpenAfter, IsBind
  <2>5. \/ mount.prop = NoProp => Sound(done, h, rootfd)
        \/ mount.dest # <<>>
    BY <1>3, <2>1 DEF KeepsRootPrivate, NoProp
  <2>. HIDE DEF done
  <2>. QED BY <2>1, <2>2, <2>3, <2>4, <2>5, FinishSafe
<1>4. CASE ~IsCgroup(mount) /\ ~IsBind(mount)
  <2> DEFINE made == EnsureDestination(K, mount, TRUE)
             done == MountType(K, mount)
             denied == mount.type = "sysfs" /\ setup.sysfsDenied
  <2>1. mount.flags \cap Attributes \subseteq F
    BY <1>4 DEF MountFits
  <2>2. /\ Going(made, h, G, F) /\ Near(done, h, mount.dest)
        /\ ~denied => Sound(done, h, rootfd) /\ Kept(made.ms, done.ms)
    BY <1>1, <2>1, MountTypeNear
  <2>3. Keeps(made, done, G, F)
    BY <1>1, <2>1, MountTypeKeeps DEF Going
  <2>4. DoMount(K, mount) = Finish(made, mount, done)
    BY <1>4 DEF DoMount
  <2>5. denied => OpenAfter(mount)
    BY DEF OpenAfter
  <2>6. \/ mount.prop = NoProp => Sound(done, h, rootfd)
        \/ mount.dest # <<>>
    <3> DEFINE sound == Sound(done, h, rootfd)
    <3>1. mount.dest # <<>> \/ mount.prop # NoProp \/ mount.type # "sysfs"
      BY <1>4 DEF KeepsRootPrivate, NoProp
    <3>2. mount.type # "sysfs" => sound
      BY <2>2
    <3>. HIDE DEF sound
    <3>3. mount.dest # <<>> \/ (mount.prop = NoProp => sound)
      BY <3>1, <3>2
    <3>. QED BY <3>3 DEF sound
  <2>. HIDE DEF done, made, denied
  <2>. QED BY <2>2, <2>3, <2>4, <2>5, <2>6, FinishSafe
<1>. QED BY <1>2, <1>3, <1>4

(* The other entries of the configuration: links that are copied, masked   *)
(* and read-only paths, and the devices.                                   *)
LEMMA CopySymlinkSafe ==
  ASSUME NEW G, NEW F, NEW K, NEW h, Going(K, h, G, F), NEW mount, mount.dest \in Paths
  PROVE  Safe(CopySymlink(K, mount), h)
<1> DEFINE found == Lookup(K, rootfd, mount.dest)
           made == Create(K, rootfd, mount.dest, "link")
           failed == Failed(K, "EEXIST")
           result == CopySymlink(K, mount)
<1>1. SameMounts(K, made) /\ SameMounts(K, failed) /\ SameMounts(K, K)
  BY GoingFacts, CreateSame, FailedSame DEF SameMounts
<1>2. result = CASE found.err = "ENOENT" -> made
          [] found.err = "none" /\ Kind(K, found.at) = "link" -> K
          [] OTHER -> failed
  BY DEF CopySymlink
<1>. HIDE DEF found, made, failed, result
<1>3. CASE found.err = "ENOENT"
  BY <1>1, <1>2, <1>3, SameSafe DEF result
<1>4. CASE found.err # "ENOENT" /\ found.err = "none" /\ Kind(K, found.at) = "link"
  BY <1>1, <1>2, <1>4, SameSafe DEF result
<1>5. CASE found.err # "ENOENT" /\ ~(found.err = "none" /\ Kind(K, found.at) = "link")
  BY <1>1, <1>2, <1>5, SameSafe DEF result
<1>. QED BY <1>3, <1>4, <1>5

LEMMA MaskSafe ==
  ASSUME NEW G, NEW K, NEW h, Going(K, h, G, Attributes), NEW path \in Paths, path # <<>>
  PROVE  Safe(Mask(K, path, Lookup(K, rootfd, path)).kern, h)
<1> DEFINE found == Lookup(K, rootfd, path)
           mount == MaskMount(path, IsDir(K, found.at))
           failed == Failed(K, found.err)
           result == Mask(K, path, found)
<1>1. MountFits(mount, Attributes) /\ KeepsRootPrivate(mount)
  BY NamedPaths DEF MountFits, MaskMount, Attributes, KeepsRootPrivate
<1>2. result = CASE found.err = "none" -> DoMount(K, mount)
                 [] found.err = "ENOENT" -> Only(K)
                 [] OTHER -> Only(failed)
  BY DEF Mask
<1>3. found.err # "pivot_root"
  BY LookupError
<1>. HIDE DEF found, mount
<1>4. SameMounts(K, failed) /\ SameMounts(K, K)
  BY <1>3, GoingFacts, FailedSame DEF SameMounts
<1>. HIDE DEF failed, result
<1>5. Safe(K, h) /\ Safe(failed, h)
  BY <1>4, SameSafe
<1>6. CASE found.err = "none"
  <2>1. Safe(DoMount(K, mount).kern, h)
    BY <1>1, DoMountSafe
  <2>. QED BY <1>2, <1>6, <2>1 DEF result, found
<1>7. CASE found.err = "ENOENT"
  BY <1>2, <1>5, <1>7 DEF result, found, Only
<1>8. CASE found.err \notin {"none", "ENOENT"}
  <2>1. result = Only(failed)
    BY <1>2, <1>8
  <2>. QED BY <1>5, <2>1 DEF result, found, Only
<1>. QED BY <1>6, <1>7, <1>8

(* A read-only path is bound onto itself: if it is the rootfs, what is put *)
(* on the stack is a copy of what is on it.                                *)
LEMMA MakeReadonlySafe ==
  ASSUME NEW G, NEW F, NEW K, NEW h, Going(K, h, G, F), NEW path \in Paths
  PROVE  Safe(MakeReadonly(K, path, Lookup(K, rootfd, path)).kern, h)
<1> DEFINE found == Lookup(K, rootfd, path)
           mount == ReadonlyMount(path, K.ms[found.at.m].flags)
           done == BindAt(K, mount, found.at)
           failed == Failed(K, found.err)
           result == MakeReadonly(K, path, found)
<1>1. /\ found.at \in Places(K.ms) /\ found.err # "pivot_root"
      /\ path = <<>> => OnStack(K.ms, RootStack(K.ms, h), found.at)
  <2>1. KernelOK(K, G, F) /\ Made(h) /\ SoundBut(K, h, rootfd, {})
    BY GoingFacts DEF Going, Sound
  <2>2. /\ Opened(K, path) \in Places(K.ms)
        /\ path = <<>> => OnStack(K.ms, RootStack(K.ms, h), Opened(K, path))
    BY <2>1, SpotOpened
  <2>. QED BY <2>2, LookupError DEF Opened
<1>2. MountFits(mount, F) /\ KeepsRootPrivate(mount) /\ OpenAfter(mount)
      /\ mount.dest = path /\ mount.prop # NoProp
  <2>1. K.ms[found.at.m].flags \subseteq Attributes
    BY <1>1, KernelTable, TableShape DEF Going, Ready, Places, Allowed
  <2>. HIDE DEF found
  <2>. QED BY <2>1 DEF MountFits, ReadonlyMount, IsBind, Attributes, KeepsRootPrivate, OpenAfter,
                     Private, NoProp
<1>3. result = CASE found.err = "none" -> Finish(K, mount, done)
                 [] found.err = "ENOENT" -> Only(K)
                 [] OTHER -> Only(failed)
  BY DEF MakeReadonly
<1>. HIDE DEF found, mount
<1>4. SameMounts(K, failed) /\ SameMounts(K, K)
  BY <1>1, GoingFacts, FailedSame DEF SameMounts
<1>. HIDE DEF failed, result
<1>5. Safe(K, h) /\ Safe(failed, h)
  BY <1>4, SameSafe
<1>6. Safe(Finish(K, mount, done).kern, h)
  <2>1. Near(done, h, mount.dest)
    BY <1>1, <1>2, BindAtNear
  <2>2. Keeps(K, done, G, F)
    BY <1>1, <1>2, BindAtKeeps DEF Going, MountFits
  <2>. HIDE DEF done
  <2>. QED BY <1>2, <2>1, <2>2, FinishSafe
<1>7. CASE found.err = "none"
  BY <1>3, <1>6, <1>7 DEF result, found
<1>8. CASE found.err = "ENOENT"
  BY <1>3, <1>5, <1>8 DEF result, found, Only
<1>9. CASE found.err \notin {"none", "ENOENT"}
  <2>1. result = Only(failed)
    BY <1>3, <1>9
  <2>. QED BY <1>5, <2>1 DEF result, found, Only
<1>. QED BY <1>7, <1>8, <1>9

LEMMA CreateDeviceSafe ==
  ASSUME NEW G, NEW F, NEW K, NEW h, Going(K, h, G, F), NEW name \in Names
  PROVE  Safe(CreateDevice(K, name), h)
<1> DEFINE path == <<"dev", name>>
           dev == Lookup(K, rootfd, <<"dev">>)
           found == Lookup(K, rootfd, path)
           made == Create(K, rootfd, path, "chr")
           bound == DoMount(K, DeviceMount(path)).kern
           noDev == Failed(K, dev.err)
           noFile == Failed(K, found.err)
           result == CreateDevice(K, name)
<1>1. path \in Paths /\ <<"dev">> \in Paths /\ path # <<>>
  <2>1. "dev" \in Names
    BY NamesAssumption
  <2>. QED BY <2>1, ShortSeq, NamedPaths DEF Paths
<1>2. \/ result = noDev \/ result = noFile \/ result = K
      \/ result = bound \/ result = made
  BY DEF CreateDevice, MakeDevice
<1>. HIDE DEF path
<1>3. dev.err # "pivot_root" /\ found.err # "pivot_root"
  BY <1>1, LookupError
<1>. HIDE DEF dev, found
<1>4. SameMounts(K, made) /\ SameMounts(K, K) /\ SameMounts(K, noDev) /\ SameMounts(K, noFile)
  BY <1>3, GoingFacts, CreateSame, FailedSame DEF SameMounts
<1>5. Safe(bound, h)
  <2>1. MountFits(DeviceMount(path), F) /\ KeepsRootPrivate(DeviceMount(path))
    BY <1>1 DEF MountFits, DeviceMount, IsBind, Attributes, KeepsRootPrivate
  <2>. QED BY <2>1, DoMountSafe
<1>. HIDE DEF made, bound, noDev, noFile, result
<1>. QED BY <1>2, <1>4, <1>5, SameSafe DEF result

LEMMA PtmxSafe ==
  ASSUME NEW G, NEW F, NEW K, NEW h, Going(K, h, G, F)
  PROVE  Safe(Ptmx(K, Lookup(K, rootfd, PtmxPath)), h)
<1> DEFINE found == Lookup(K, rootfd, PtmxPath)
           kind == Kind(K, found.at)
           made == Create(K, rootfd, PtmxPath, "link")
           bound == DoMount(K, PtmxMount).kern
           odd == Failed(K, "invalid /dev/ptmx type")
           failed == Failed(K, found.err)
           link == ReplaceLink(K)
           result == Ptmx(K, found)
<1>1. \/ result = made \/ result = failed \/ result = bound
      \/ result = K \/ result = link \/ result = odd
  <2> DEFINE there == CASE kind = "file" -> bound
                        [] kind = "link" -> K
                        [] kind = "other link" -> link
                        [] OTHER -> odd
  <2>1. result = IF found.err = "ENOENT" THEN made
                 ELSE IF found.err # "none" THEN failed ELSE there
    BY DEF Ptmx
  <2>2. there = bound \/ there = K \/ there = link \/ there = odd
    <3>. HIDE DEF made, bound, odd, failed, result, kind, found, link
    <3>1. CASE kind = "file"
      BY <3>1
    <3>2. CASE kind = "link"
      BY <3>2
    <3>3. CASE kind = "other link"
      BY <3>3
    <3>4. CASE kind \notin {"file", "link", "other link"}
      BY <3>4
    <3>. QED BY <3>1, <3>2, <3>3, <3>4
  <2>. HIDE DEF made, bound, odd, failed, result, found, there, link
  <2>. QED BY <2>1, <2>2
<1>2. found.err # "pivot_root"
  BY NamedPaths, LookupError
<1>3. SameMounts(K, link)
  <2> DEFINE at == found.at
             n == K.ms[at.m].fs
             v == [K.fs[n] EXCEPT !.nodes[at.p] = "link"]
             w == [K.fs EXCEPT ![n] = v]
             L == [K EXCEPT !.fs[n].nodes[at.p] = "link"]
  <2>1. SameMounts(K, L)
    <3>1. L = [K EXCEPT !.fs = w]
      <4>. HIDE DEF n, at
      <4>. QED BY GoingFacts DEF KernelOK
    <3>. HIDE DEF L, w
    <3>. QED BY <3>1, GoingFacts, FilesSame
  <2>2. SameMounts(K, Failed(K, "EROFS"))
    BY GoingFacts, FailedSame
  <2>3. link = IF "ro" \in K.ms[at.m].flags THEN Failed(K, "EROFS") ELSE L
    BY DEF ReplaceLink
  <2>. HIDE DEF L, at, link
  <2>. QED BY <2>1, <2>2, <2>3
<1>. HIDE DEF found, link
<1>4. SameMounts(K, made) /\ SameMounts(K, K) /\ SameMounts(K, odd) /\ SameMounts(K, failed)
  <2>1. KernelOK(K, G, F)
    BY GoingFacts
  <2>2. SameMounts(K, made)
    BY <2>1, CreateSame
  <2>3. SameMounts(K, odd) /\ SameMounts(K, failed)
    BY <1>2, <2>1, FailedSame
  <2>4. SameMounts(K, K)
    BY DEF SameMounts
  <2>. QED BY <2>2, <2>3, <2>4
<1>5. Safe(bound, h)
  <2>1. MountFits(PtmxMount, F) /\ KeepsRootPrivate(PtmxMount)
    <3>1. RootfsPath \o <<"dev", "pts", "ptmx">> \in Paths
      BY NamedPaths, JoinedPath
    <3>2. PtmxPath # <<>>
      BY DEF PtmxPath
    <3>. QED BY <3>1, <3>2, NamedPaths
         DEF MountFits, PtmxMount, DeviceMount, IsBind, Attributes, KeepsRootPrivate
  <2>. QED BY <2>1, DoMountSafe
<1>. HIDE DEF made, bound, odd, failed, result
<1>. QED BY <1>1, <1>3, <1>4, <1>5, SameSafe DEF result, found

-----------------------------------------------------------------------------
(* Making the rootfs private.  As long as nothing is mounted, what a lookup*)
(* of the rootfs ends at stays the same.                                   *)
LEMMA NothingMounted ==
  ASSUME NEW h, Made(h), NEW G, NEW F, NEW ms, Table(ms, G, F), Kept(h, ms),
         DOMAIN ms = DOMAIN h
  PROVE  /\ Ordered(ms) /\ Extends(ms, h) /\ Len(ms) = Len(h) /\ ms # <<>>
         /\ Top(ms, AtRootfs) = Top(h, AtRootfs) /\ Top(h, AtRootfs) \in Places(ms)
         /\ MountedAt(ms, Top(h, AtRootfs)) = {}
<1> DEFINE W == Top(h, AtRootfs)
<1>1. /\ Table(h, Groups, Attributes) /\ Ordered(h) /\ 1 \in DOMAIN h /\ Len(h) \in Nat
      /\ Len(h) # 0 /\ DOMAIN h = 1..Len(h) /\ AtRootfs \in Places(h)
  BY AtRootfsPlace DEF Made
<1>2. Len(ms) \in Nat /\ DOMAIN ms = 1..Len(ms)
  BY TableShape
<1>3. Len(ms) = Len(h) /\ ms # <<>>
  <2> DEFINE m == Len(ms)
             n == Len(h)
  <2>1. m \in Nat /\ n \in Nat /\ 1..m = 1..n /\ n # 0
    BY <1>1, <1>2
  <2>. HIDE DEF m, n
  <2>2. m = n
    BY <2>1
  <2>. QED BY <1>1, <2>2 DEF m, n
<1>4. Ordered(ms)
  <2>1. \A k \in DOMAIN ms : k # 1 => ms[k].par \in DOMAIN h
    <3>1. ASSUME NEW k \in DOMAIN h, k # 1 PROVE h[k].par \in DOMAIN h
      <4>1. h[k].par \in 1..(k - 1)
        BY <1>1, <3>1 DEF Ordered
      <4>. QED BY <1>1, <4>1
    <3>. QED BY <3>1 DEF Kept
  <2>. QED BY <1>1, <2>1 DEF Ordered, Kept
<1>5. Extends(ms, h)
  BY <1>1, <1>3 DEF Extends, Kept
<1>6. W \in Places(ms) /\ Top(ms, W) = Top(ms, AtRootfs)
  BY <1>4, <1>5, HostTop
<1>7. MountedAt(h, W) = {}
  BY <1>1, TopFree
<1>8. MountedAt(ms, W) = MountedAt(h, W)
  <2>. HIDE DEF W
  <2>. QED BY DEF MountedAt, Kept
<1>. HIDE DEF W
<1>9. Top(ms, W) = W
  BY <1>4, <1>6, <1>7, <1>8, TopFree
<1>. QED BY <1>3, <1>4, <1>5, <1>6, <1>7, <1>8, <1>9 DEF W

(* make_rootfs_private: the mount the rootfs will be bound onto is private *)
(* afterwards, whether or not the rootfs is a mount point.                 *)
LEMMA MadePrivate ==
  ASSUME NEW h, Made(h), NEW G, NEW F, NEW K, KernelOK(K, G, F), Kept(h, K.ms),
         DOMAIN K.ms = DOMAIN h, procRoot = HostRoot
  PROVE  LET L == MakeRootfsPrivate(K)
         IN  /\ Kept(h, L.ms) /\ DOMAIN L.ms = DOMAIN h /\ L.err = K.err
             /\ ~Shared(L.ms[Top(h, AtRootfs).m])
<1> DEFINE ms == K.ms
           at == Walk(ms, procRoot, RootfsPath)
           Is(n) == /\ MountRoot(K, at[n])
                    /\ \A k \in n + 1 .. Len(RootfsPath) : ~MountRoot(K, at[k])
           point == CHOOSE n \in 0 .. Len(RootfsPath) : Is(n)
           x == at[point]
           W == Top(h, AtRootfs)
           L == SetPropagation(K, x, Private(FALSE))
<1>1. /\ Table(ms, G, F) /\ Ordered(ms) /\ ms # <<>> /\ W = Top(ms, AtRootfs) /\ W \in Places(ms)
      /\ Len(RootfsPath) = 1 /\ RootfsPath[1] = "r" /\ RootfsPath \in Paths /\ <<>> \in Paths
  BY KernelTable, NothingMounted, NamedPaths DEF RootfsPath
<1>2. HostRoot \in Places(ms) /\ HostRoot.m = 1 /\ HostRoot.p = <<>>
  <2>1. ms \in Seq(MountRecords(G, F)) /\ DOMAIN ms = 1..Len(ms) /\ Len(ms) \in Nat
    BY <1>1, TableShape DEF Table
  <2>2. 1 \in DOMAIN ms
    BY <1>1, <2>1, EmptySeq
  <2>. QED BY <1>1, <2>2 DEF HostRoot, Places
<1>3. at[0] = HostRoot /\ at[1] = Top(ms, [m |-> at[0].m, p |-> Append(at[0].p, RootfsPath[1])])
  <2>1. 1 \in 1..Len(RootfsPath) /\ 1 - 1 = 0
    BY <1>1
  <2>. HIDE DEF at
  <2>. QED BY <1>1, <1>2, <2>1, WalkPlaces DEF at
<1>4. at[1] = W
  <2>1. Append(<<>>, "r") = <<"r">>
    OBVIOUS
  <2>. HIDE DEF at
  <2>. QED BY <1>1, <1>2, <1>3, <2>1 DEF AtRootfs, RootfsPath
<1>5. MakeRootfsPrivate(K) = L
  BY DEF MakeRootfsPrivate
<1>6. MountRoot(K, HostRoot)
  BY <1>1, <1>2 DEF MountRoot, Ordered
<1>7. MountRoot(K, W) \/ W = AtRootfs
  <2> DEFINE Z == {y \in Places(ms) : MountRoot(K, y) \/ y = AtRootfs}
  <2>1. AtRootfs \in Z
    BY <1>1, <1>2, NamedPaths DEF AtRootfs, Places
  <2>2. ASSUME NEW y \in Z PROVE Onto(ms, y) \in Z
    BY <1>1, OntoPlace DEF MountRoot
  <2>3. Top(ms, AtRootfs) \in Z
    <3>1. AtRootfs \in Places(ms)
      BY <2>1
    <3>. HIDE DEF Z
    <3>. QED BY <1>1, <2>1, <2>2, <3>1, TopStays
  <2>. QED BY <1>1, <2>3
<1>. HIDE DEF at, W
<1>8. MountRoot(K, x) /\ x.m = W.m
  <2>1. \A n \in 0..1 : Is(n) <=> MountRoot(K, at[n]) /\ (n = 0 => ~MountRoot(K, at[1]))
    <3>1. 0 + 1 .. 1 = {1} /\ 1 + 1 .. 1 = {} /\ 0..1 = {0, 1}
      OBVIOUS
    <3>. QED BY <1>1, <3>1
  <2>. HIDE DEF Is
  <2>2. CASE MountRoot(K, W)
    <3>1. Is(1) /\ ~Is(0)
      BY <1>4, <2>1, <2>2
    <3>2. point \in 0..1 /\ Is(point)
      BY <1>1, <3>1
    <3>. HIDE DEF point
    <3>3. point = 1
      BY <3>1, <3>2
    <3>. QED BY <1>4, <2>2, <3>3
  <2>3. CASE ~MountRoot(K, W)
    <3>1. Is(0) /\ ~Is(1)
      BY <1>3, <1>4, <1>6, <2>1, <2>3
    <3>2. point \in 0..1 /\ Is(point)
      BY <1>1, <3>1
    <3>. HIDE DEF point
    <3>3. point = 0
      BY <3>1, <3>2
    <3>. QED BY <1>2, <1>3, <1>6, <1>7, <2>3, <3>3 DEF AtRootfs
  <2>. QED BY <2>2, <2>3
<1>. HIDE DEF x
<1>9. /\ DOMAIN L.ms = DOMAIN ms /\ Kept(ms, L.ms) /\ L.err = K.err
      /\ \A k \in DOMAIN ms : k = x.m => L.ms[k].group = GroupAfter(Private(FALSE), ms[k].group)
  <2> DEFINE prop == Private(FALSE)
             of == {x.m} \cup (IF prop.rec THEN Below(ms, x) ELSE {})
  <2>1. L = SetPropagation(K, x, prop)
    OBVIOUS
  <2>. HIDE DEF prop, L
  <2>2. /\ DOMAIN L.ms = DOMAIN ms /\ Kept(ms, L.ms) /\ L.err = K.err
        /\ \A k \in DOMAIN ms :
             L.ms[k].group = IF k \in of THEN GroupAfter(prop, ms[k].group) ELSE ms[k].group
    BY <1>8, <2>1, PropagationRows
  <2>3. x.m \in of
    OBVIOUS
  <2>. HIDE DEF of
  <2>. QED BY <2>2, <2>3 DEF prop
<1>10. ~Shared(L.ms[W.m])
  <2>1. W.m \in DOMAIN ms
    BY <1>1 DEF Places
  <2>. QED BY <1>8, <1>9, <2>1 DEF Shared, GroupAfter, Private
<1>. HIDE DEF L
<1>11. Kept(h, L.ms)
  BY <1>9 DEF Kept
<1>. QED BY <1>5, <1>9, <1>10, <1>11 DEF W

(* The rootfs bound onto itself: the first mount of the stack is the only  *)
(* one on it.                                                              *)
LEMMA FirstBind ==
  ASSUME NEW h, Made(h), NEW G, NEW F, Allowed(G, F), NEW K, KernelOK(K, G, F), Kept(h, K.ms),
         DOMAIN K.ms = DOMAIN h, ~Shared(K.ms[Top(h, AtRootfs).m]), K.err # "pivot_root"
  PROVE  LET L == Bind(K, Top(h, AtRootfs), Top(h, AtRootfs), TRUE)
         IN  /\ L.err # "pivot_root"
             /\ Fine(L) => /\ SoundBut(L, h, Top(L.ms, AtRootfs), {Len(h) + 1})
                           /\ Top(L.ms, AtRootfs).m = Len(h) + 1
<1> DEFINE W == Top(h, AtRootfs)
           S == ToCopy(K, W, TRUE)
           tree == TreeOf(K.ms, W, S)
           n == Len(h)
           C == Cardinality(S)
           L == AttachOn(K, tree, W)
           ms == L.ms
           V == RootStack(ms, h)
           B == Bind(K, W, W, TRUE)
<1>1. /\ Table(K.ms, G, F) /\ Ordered(K.ms) /\ Len(K.ms) = n /\ K.ms # <<>>
      /\ Top(K.ms, AtRootfs) = W /\ W \in Places(K.ms) /\ MountedAt(K.ms, W) = {}
  BY KernelTable, NothingMounted
<1>2. n \in Nat /\ n # 0 /\ DOMAIN h = 1..n /\ DOMAIN K.ms = 1..n /\ Extends(K.ms, h)
  BY <1>1, AtRootfsPlace, TableShape, NothingMounted
<1>. HIDE DEF W
<1>3. Top(K.ms, W) = W
  BY <1>1, TopFree
<1>4. Proper(K.ms, W) /\ (W.m # 1 \/ W.p # <<>>)
  <2>1. Lookup(K, HostRoot, RootfsPath).at = W
    BY <1>1, RootLookup
  <2>2. Proper(K.ms, HostRoot)
    <3>1. 1 \in DOMAIN K.ms
      BY <1>2
    <3>2. HostRoot \in Places(K.ms) /\ Under(<<>>, <<>>) /\ HostRoot.m = 1 /\ HostRoot.p = <<>>
      BY <3>1, NamedPaths, UnderFacts DEF HostRoot, Places
    <3>. QED BY <1>1, <3>2 DEF Proper, Ordered
  <2>3. Proper(K.ms, W)
    <3>1. Proper(K.ms, Lookup(K, HostRoot, RootfsPath).at)
      <4>. HIDE DEF S, C, tree, L, ms, V, B
      <4>1. RootfsPath \in Paths
        BY NamedPaths
      <4>. QED BY <1>1, <2>2, <4>1, LookupProper
    <3>. QED BY <2>1, <3>1
  <2>4. W # HostRoot
    BY <1>1, <2>1, NotHostRoot DEF Ordered
  <2>5. W = [m |-> W.m, p |-> W.p]
    BY <1>1 DEF Places
  <2>. QED BY <2>3, <2>4, <2>5 DEF HostRoot
<1>5. /\ Tree(tree, n, G, F) /\ C \in Nat /\ DOMAIN tree = 1..(1 + C) /\ S \subseteq DOMAIN K.ms
      /\ tree[1].base = W.p
      /\ \A c \in 1..C :
           LET o == Original(S, c)
               copy == tree[1 + c]
           IN  /\ o \in S /\ copy.at = K.ms[o].at
               /\ \/ K.ms[o].par = W.m /\ copy.par = n + 1
                  \/ /\ copy.par = n + 1 + Rank(S, K.ms[o].par)
                     /\ Rank(S, K.ms[o].par) \in 1..(c - 1)
  <2>1. Tree(tree, n, G, F) /\ Copies(K.ms, W, S, tree)
    BY <1>1, CopyRows
  <2>. HIDE DEF S, tree
  <2>. QED BY <1>1, <2>1 DEF Copies
<1>6. TreeOrder(tree, n)
  BY <1>1, CopyOrder
<1>7. B = Failed(K, "EINVAL") \/ B = Failed(K, "ENOTDIR") \/ B = L
  BY <1>1, <1>3, BindIs DEF Attach
<1>8. /\ Failed(K, "EINVAL").err = "EINVAL" /\ Failed(K, "ENOTDIR").err = "ENOTDIR"
  BY DEF Failed, KernelOK
<1>. HIDE DEF S, C, tree
<1>9. /\ Ordered(ms) /\ Kept(K.ms, ms) /\ \A j \in DOMAIN tree : j # 1 => ms[n + j].par > n
  <2>. HIDE DEF n
  <2>. QED BY <1>1, <1>4, <1>5, <1>6, AttachOrdered
<1>10. /\ Len(tree) \in Nat /\ Len(tree) # 0 /\ DOMAIN tree = 1..Len(tree)
       /\ Len(ms) = n + Len(tree) /\ DOMAIN ms = 1..(n + Len(tree))
       /\ L.err = K.err
       /\ \A k \in 1..n : ms[k] = K.ms[k]
       /\ \A j \in DOMAIN tree :
            /\ ms[n + j].par = IF j = 1 THEN W.m ELSE tree[j].par
            /\ ms[n + j].at = IF j = 1 THEN W.p ELSE tree[j].at
            /\ ms[n + j].base = tree[j].base
  <2>1. Attached(K, L, tree, W)
    BY <1>1, <1>5, AttachRows
  <2>. HIDE DEF L
  <2>. QED BY <1>1, <2>1 DEF Attached
<1>11. Table(ms, G, F)
  <2>1. Keeps(K, L, G, F)
    <3>. HIDE DEF n
    <3>. QED BY <1>1, <1>5, AttachOnKeeps
  <2>. HIDE DEF L
  <2>. QED BY <2>1, KernelTable DEF Keeps, Holds
<1>. HIDE DEF ms, V, L, B
<1>12. 1 \in DOMAIN tree /\ n + 1 \in DOMAIN ms /\ Len(ms) > n
  <2> DEFINE t == Len(tree)
  <2>1. t \in Nat /\ t # 0 /\ DOMAIN tree = 1..t /\ Len(ms) = n + t /\ DOMAIN ms = 1..(n + t)
    BY <1>10
  <2>. HIDE DEF t, n
  <2>. QED BY <1>2, <2>1
<1>13. Grown(ms, h)
  <2>1. Extends(ms, h)
    <3>1. n <= Len(ms)
      BY <1>2, <1>10
    <3>. QED BY <1>2, <1>9, <3>1 DEF Extends, Kept
  <2>2. Point(ms, n + 1) = W
    BY <1>1, <1>10, <1>12 DEF Point, Places
  <2>3. ASSUME NEW k \in DOMAIN ms, k > n + 1 PROVE ms[k].par > n
    <3>1. k - n \in DOMAIN tree /\ k - n # 1 /\ k = n + (k - n)
      BY <1>2, <1>10, <2>3
    <3>. QED BY <1>9, <3>1
  <2>. QED BY <1>9, <1>12, <2>1, <2>2, <2>3 DEF Grown, W
<1>14. Stack(ms, h, V)
  BY <1>11, <1>13, GrownStack DEF V
<1> DEFINE P(c) == n + (1 + c) \notin V
           T == {m \in 0..C : \A c \in 1..m : P(c)}
<1>15. ASSUME NEW c \in 1..C, \A d \in 1..(c - 1) : P(d) PROVE P(c)
  <2> DEFINE k == n + (1 + c)
             o == Original(S, c)
             r == Rank(S, K.ms[o].par)
             j == 1 + c
  <2>1. k \in DOMAIN ms /\ k > n + 1 /\ j \in DOMAIN tree /\ j # 1 /\ k = n + j
    BY <1>2, <1>5, <1>10
  <2>2. /\ o \in S /\ ms[k].at = K.ms[o].at
        /\ \/ K.ms[o].par = W.m /\ ms[k].par = n + 1
           \/ ms[k].par = n + 1 + r /\ r \in 1..(c - 1)
    <3>1. ms[k].par = tree[j].par /\ ms[k].at = tree[j].at
      <4>. HIDE DEF j, k
      <4>. QED BY <1>10, <2>1
    <3>. QED BY <1>5, <3>1
  <2>. HIDE DEF k, r, o
  <2>3. CASE K.ms[o].par = W.m /\ ms[k].par = n + 1
    <3>1. K.ms[o].at # W.p
      <4>1. o \in DOMAIN K.ms /\ K.ms[o].live
        BY <1>1, <1>5, <2>2 DEF Ordered
      <4>. QED BY <1>1, <2>3, <4>1 DEF MountedAt
    <3>2. ms[n + 1].base = W.p
      BY <1>5, <1>10, <1>12
    <3>3. ~OnStack(ms, V, Point(ms, k))
      BY <2>2, <2>3, <3>1, <3>2 DEF OnStack, Point
    <3>. QED BY <1>14, <2>1, <3>3 DEF Stack, Point, k
  <2>4. CASE ms[k].par = n + 1 + r /\ r \in 1..(c - 1)
    <3>1. n + (1 + r) = n + 1 + r
      BY <1>2, <2>4
    <3>2. ms[k].par \notin V
      BY <1>15, <2>4, <3>1
    <3>3. ~OnStack(ms, V, Point(ms, k))
      BY <3>2 DEF OnStack, Point
    <3>. QED BY <1>14, <2>1, <3>3 DEF Stack, Point, k
  <2>. QED BY <2>2, <2>3, <2>4
<1>. HIDE DEF P
<1>16. ASSUME NEW m \in 0..C, m < C, m \in T PROVE m + 1 \in T
  <2>1. m + 1 \in 0..C /\ m + 1 \in 1..C /\ (m + 1) - 1 = m
        /\ \A c \in 1..(m + 1) : c \in 1..m \/ c = m + 1
    BY <1>5, <1>16
  <2>2. P(m + 1)
    BY <1>15, <1>16, <2>1
  <2>. QED BY <1>16, <2>1, <2>2
<1>17. 0 \in T
  <2>1. 0 \in 0..C /\ 1..0 = {}
    BY <1>5
  <2>. QED BY <2>1
<1>18. C \in T
  <2>1. 0..C \subseteq T
    <3>. HIDE DEF T
    <3>. QED BY <1>5, <1>16, <1>17, Induction
  <2>2. C \in 0..C
    BY <1>5
  <2>. QED BY <2>1, <2>2
<1>19. V = {n + 1}
  <2>1. ASSUME NEW k \in V PROVE k = n + 1
    <3>1. k \in (n + 1)..Len(ms)
      BY <1>14, <2>1 DEF Stack
    <3>2. k # n + 1 => k - (n + 1) \in 1..C /\ k = n + (1 + (k - (n + 1)))
      <4>1. Len(ms) = n + Len(tree) /\ 1..(1 + C) = 1..Len(tree)
        BY <1>5, <1>10
      <4>2. Len(tree) = 1 + C
        <5> DEFINE t == Len(tree)
        <5>1. t \in Nat /\ 1..(1 + C) = 1..t /\ C \in Nat
          BY <1>5, <1>10
        <5>. HIDE DEF t
        <5>2. t = 1 + C
          BY <5>1
        <5>. QED BY <5>2 DEF t
      <4>. QED BY <1>2, <1>5, <3>1, <4>1, <4>2
    <3>. QED BY <1>18, <2>1, <3>2 DEF P
  <2>2. n + 1 \in V
    BY <1>14 DEF Stack
  <2>. QED BY <2>1, <2>2
<1>20. /\ Top(ms, AtRootfs) \in Places(ms) /\ OnStack(ms, V, Top(ms, AtRootfs))
       /\ Top(ms, AtRootfs).m = n + 1
  <2>1. Top(ms, AtRootfs) \in Places(ms) /\ OnStack(ms, V, Top(ms, AtRootfs))
    BY <1>11, <1>13, StackSame DEF V
  <2>. QED BY <1>19, <2>1 DEF OnStack
<1>21. ~Shared(ms[ms[n + 1].par])
  <2>1. ms[n + 1].par = W.m /\ W.m \in 1..n
    BY <1>1, <1>2, <1>10, <1>12 DEF Places
  <2>. QED BY <1>10, <2>1 DEF W
<1>22. SoundBut(L, h, Top(ms, AtRootfs), {n + 1})
  BY <1>10, <1>13, <1>19, <1>20, <1>21 DEF SoundBut, V, ms
<1>. QED BY <1>7, <1>8, <1>10, <1>20, <1>22 DEF B, W, Fine, ms

(* A root that is opened again is on the stack again.                      *)
LEMMA ReopenedSound ==
  ASSUME NEW G, NEW F, NEW K, KernelOK(K, G, F), NEW h, Made(h), NEW root, Sound(K, h, root)
  PROVE  /\ Lookup(K, HostRoot, RootfsPath).at = Top(K.ms, AtRootfs)
         /\ Sound(K, h, Top(K.ms, AtRootfs))
<1>1. Table(K.ms, G, F) /\ Grown(K.ms, h)
  BY KernelTable DEF Sound, SoundBut
<1>2. K.ms # <<>>
  <2>1. Len(h) \in Nat /\ Len(h) < Len(K.ms)
    BY <1>1, AtRootfsPlace DEF Grown
  <2>2. Len(<<>>) = 0
    OBVIOUS
  <2>. QED BY <2>1, <2>2
<1>. QED BY <1>1, <1>2, RootLookup, StackSame DEF Sound, SoundBut

LEMMA OpenedRoot ==
  ASSUME NEW G, NEW F, NEW K, KernelOK(K, G, F), rootfd \in Places(K.ms)
  PROVE  Opened(K, <<>>) = rootfd
<1>1. Walk(K.ms, rootfd, <<>>)[0] = rootfd
  BY NamedPaths, KernelTable, WalkPlaces
<1>2. Len(<<>>) = 0
  OBVIOUS
<1>. QED BY <1>1, <1>2 DEF Opened, Lookup, LookupAlong

(* The second half of configure_rootfs: the stack begins with the rootfs   *)
(* bound onto itself, and private.                                         *)
LEMMA RebindSafe ==
  ASSUME NEW h, Made(h), NEW G, NEW F, NEW K, Ready(K, G, F), procRoot = HostRoot,
         Kept(h, K.ms), DOMAIN K.ms = DOMAIN h, rootfd = Top(h, AtRootfs),
         ~Shared(K.ms[rootfd.m]), K.err # "pivot_root"
  PROVE  LET L == DoMount(K, RebindMount).kern
         IN  /\ L.err # "pivot_root"
             /\ Fine(L) => Sound(L, h, Lookup(L, HostRoot, RootfsPath).at)
<1> DEFINE mount == RebindMount
           src == Lookup(K, procRoot, RootfsPath)
           made == EnsureDestination(K, mount, IsDir(K, rootfd))
           bound == Bind(made, rootfd, rootfd, TRUE)
           done == DoBindMount(K, mount)
           n == Len(h)
           T == Top(done.ms, AtRootfs)
           private == SetPropagation(done, T, Private(TRUE))
           k == IF Fine(done) THEN private ELSE done
           now == DoRemount(k, [fd |-> rootfd, flags |-> mount.flags])
           result == DoMount(K, mount).kern
<1>1. /\ mount.dest = <<>> /\ mount.source = RootfsPath /\ mount.flags = {"bind", "rec"}
      /\ mount.prop = Private(TRUE) /\ mount.type = "none" /\ Private(TRUE) # NoProp
      /\ Private(TRUE).kind = "private"
  BY DEF RebindMount, Private, NoProp
<1>2. Table(K.ms, G, F) /\ KernelOK(K, G, F) /\ Allowed(G, F) /\ rootfd \in Places(K.ms)
  BY KernelTable DEF Ready
<1>3. src.at = rootfd
  <2>1. K.ms # <<>> /\ Top(K.ms, AtRootfs) = rootfd
    BY <1>2, NothingMounted
  <2>. QED BY <1>2, <2>1, RootLookup
<1>4. SameMounts(K, made) /\ KernelOK(made, G, F)
  <2>1. Keeps(K, made, G, F)
    BY <1>1, <1>2, NamedPaths, EnsureKeeps DEF EnsureDestination
  <2>2. SameMounts(K, made)
    BY <1>1, <1>2, NamedPaths, EnsureSame DEF EnsureDestination
  <2>. HIDE DEF made
  <2>. QED BY <2>1, <2>2 DEF Keeps, Holds
<1>5. Opened(made, <<>>) = rootfd
  <2>. HIDE DEF made
  <2>. QED BY <1>2, <1>4, OpenedRoot DEF SameMounts
<1>6. \/ done = Failed(K, src.err) /\ src.err # "none"
      \/ done = made /\ ~Fine(made)
      \/ done = Failed(made, "mismatch")
      \/ done = bound
  <2>1. done = IF src.err # "none" THEN Failed(K, src.err) ELSE BindAt(K, mount, rootfd)
    BY <1>1, <1>3 DEF DoBindMount
  <2>2. BindAt(K, mount, rootfd) =
          IF Fine(made) THEN BindOnto(made, rootfd, rootfd, "rec" \in mount.flags) ELSE made
    BY <1>1, <1>5 DEF BindAt, BindMade
  <2>3. "rec" \in mount.flags <=> TRUE
    BY <1>1
  <2>4. BindOnto(made, rootfd, rootfd, "rec" \in mount.flags) = bound
        \/ BindOnto(made, rootfd, rootfd, "rec" \in mount.flags) = Failed(made, "mismatch")
    <3>1. ("rec" \in mount.flags) = TRUE
      BY <2>3
    <3>. HIDE DEF made
    <3>. QED BY <3>1 DEF BindOnto
  <2>. HIDE DEF src, done, made, bound
  <2>. QED BY <2>1, <2>2, <2>4
<1>7. Keeps(K, done, G, F)
  BY <1>1, NamedPaths, DoBindMountKeeps
<1>8. src.err # "pivot_root"
  BY NamedPaths, LookupError
<1>9. /\ bound.err # "pivot_root"
      /\ Fine(bound) => /\ SoundBut(bound, h, Top(bound.ms, AtRootfs), {n + 1})
                        /\ Top(bound.ms, AtRootfs).m = n + 1
  <2>. HIDE DEF made
  <2>. QED BY <1>2, <1>4, FirstBind DEF SameMounts
<1>10. /\ done.err # "pivot_root"
       /\ Fine(done) => SoundBut(done, h, T, {n + 1}) /\ T.m = n + 1
  <2>1. CASE done = Failed(K, src.err) /\ src.err # "none"
    <3>1. done.err = src.err
      <4>. HIDE DEF src, done
      <4>. QED BY <1>2, <1>8, <2>1, FailedSame
    <3>. HIDE DEF src, done
    <3>. QED BY <1>8, <2>1, <3>1 DEF Fine
  <2>2. CASE done = made /\ ~Fine(made)
    <3>. HIDE DEF done, made
    <3>. QED BY <1>4, <2>2 DEF SameMounts
  <2>3. CASE done = Failed(made, "mismatch")
    <3>1. done.err = "mismatch"
      <4>. HIDE DEF done, made
      <4>. QED BY <1>4, <2>3, FailedSame
    <3>. QED BY <3>1 DEF Fine
  <2>4. CASE done = bound
    BY <1>9, <2>4
  <2>. QED BY <1>6, <2>1, <2>2, <2>3, <2>4
<1>. HIDE DEF done, made, bound, src
<1>11. Ready(done, G, F)
  BY <1>7, StillReady
<1>12. Fine(done) => DoPropagation(done, rootfd, Private(TRUE)) = private
  <2>. SUFFICES ASSUME Fine(done) PROVE DoPropagation(done, rootfd, Private(TRUE)) = private
    OBVIOUS
  <2>1. Grown(done.ms, h) /\ Table(done.ms, G, F) /\ done.ms # <<>>
    <3>1. Grown(done.ms, h) /\ Table(done.ms, G, F)
      BY <1>10, <1>11, KernelTable DEF SoundBut, Ready
    <3>2. Len(h) \in Nat /\ Len(h) < Len(done.ms) /\ Len(<<>>) = 0
      BY <3>1, AtRootfsPlace DEF Grown
    <3>. QED BY <3>1, <3>2
  <2>2. PathOf(done.ms, rootfd) = RootfsPath
    BY <2>1, HostTop DEF Grown
  <2>3. ByPath(done, rootfd) = T
    BY <2>1, <2>2, RootLookup DEF ByPath
  <2>. HIDE DEF T
  <2>. QED BY <1>1, <2>3 DEF DoPropagation
<1>13. Ready(k, G, F)
  <2>1. Keeps(done, private, G, F)
    BY <1>11, SetPropagationKeeps DEF Ready
  <2>. HIDE DEF private
  <2>. QED BY <1>11, <2>1, StillReady
<1>14. /\ k.err # "pivot_root"
       /\ Fine(k) => Sound(k, h, T)
  <2>1. CASE ~Fine(done)
    BY <1>10, <2>1
  <2>2. CASE Fine(done)
    <3>1. k = private
      BY <2>2
    <3>2. KernelOK(done, G, F) /\ SoundBut(done, h, T, {n + 1}) /\ T.m = n + 1
      BY <1>10, <1>11, <2>2 DEF Ready
    <3>3. T \in Places(done.ms)
      BY <3>2 DEF SoundBut
    <3>. HIDE DEF T, n
    <3>4. /\ private.err # "pivot_root"
          /\ Fine(private) => SoundBut(private, h, T, {n + 1} \ {T.m})
      BY <1>1, <1>2, <3>2, <3>3, PropagationSound
    <3>5. {n + 1} \ {T.m} = {}
      BY <3>2
    <3>. HIDE DEF private, k
    <3>. QED BY <3>1, <3>4, <3>5 DEF Sound
  <2>. QED BY <2>1, <2>2
<1>15. result = IF ~Fine(k) \/ ~NeedsRemount(mount) THEN k
                ELSE IF "ro" \in mount.flags THEN k ELSE now
  <2>1. IsBind(mount) /\ ~IsCgroup(mount) /\ OpenAfter(mount)
    BY <1>1 DEF IsBind, IsCgroup, OpenAfter
  <2>2. DoMount(K, mount) = Finish(K, mount, done)
    <3>. HIDE DEF mount
    <3>. QED BY <2>1 DEF DoMount, done
  <2>3. Opened(done, <<>>) = rootfd
    BY <1>11, OpenedRoot DEF Ready
  <2>4. Mounted(K, mount, done) = [kern |-> k, fd |-> rootfd]
    <3>. HIDE DEF private, mount
    <3>. QED BY <1>1, <1>12, <2>1, <2>3 DEF Mounted, Propagated
  <2>. HIDE DEF k, mount
  <2>. QED BY <2>2, <2>4 DEF Finish, RemountOrWait
<1>. HIDE DEF k, T
<1>16. Fine(k) => Sound(now, h, T)
  <2> DEFINE r == [fd |-> rootfd, flags |-> mount.flags]
  <2>1. r.fd \in Places(k.ms) /\ r.flags \cap Attributes \subseteq F
    BY <1>1, <1>13 DEF Ready, Attributes
  <2>. HIDE DEF r
  <2>2. Fine(k) => Sound(DoRemount(k, r), h, T)
    BY <1>13, <1>14, <2>1, DoRemountSound
  <2>. QED BY <2>2 DEF r
<1>. HIDE DEF now, mount
<1>17. result.err # "pivot_root" /\ (Fine(result) => Sound(result, h, T))
  <2>1. Fine(k) => now.err # "pivot_root"
    BY <1>16 DEF Sound, SoundBut
  <2>. HIDE DEF result
  <2>. QED BY <1>14, <1>15, <1>16, <2>1
<1>18. KernelOK(result, G, F)
  <2>1. MountFits(RebindMount, F)
    BY NamedPaths DEF MountFits, RebindMount, IsBind
  <2>. QED BY <2>1, DoMountDid DEF Did, Keeps, Holds, mount
<1>. HIDE DEF result
<1>19. Fine(result) => Sound(result, h, Lookup(result, HostRoot, RootfsPath).at)
  BY <1>17, <1>18, ReopenedSound
<1>. QED BY <1>17, <1>19 DEF result, mount

(* The mounts a container is left with: its root, made for it, and what    *)
(* hangs below that.                                                       *)
Hangs(ms, k) ==
  ms[k].par \in 1..(k - 1) /\ ms[ms[k].par].live /\ Under(ms[ms[k].par].base, ms[k].at)

Rooted(K, h, root) ==
  /\ root \in Places(K.ms) /\ root.p = K.ms[root.m].base /\ K.ms[root.m].live
  /\ \A k \in DOMAIN K.ms :
       K.ms[k].live => k > Len(h) /\ (k = root.m \/ Hangs(K.ms, k))

LEMMA RootedBelow ==
  ASSUME NEW G, NEW F, NEW K, Table(K.ms, G, F), NEW h, NEW root, Rooted(K, h, root)
  PROVE  \A k \in DOMAIN K.ms :
           K.ms[k].live => k > Len(h) /\ (k = root.m \/ k \in Below(K.ms, root))
<1> DEFINE ms == K.ms
           N == Len(ms)
           B == Below(ms, root)
           S == {n \in 0..N : \A k \in 1..n : ms[k].live => k = root.m \/ k \in B}
<1>1. N \in Nat /\ DOMAIN ms = 1..N
  BY TableShape
<1>2. Live(ms) \subseteq DOMAIN ms
  BY DEF Live
<1>3. Hung(ms, root, Live(ms), B) = B
  BY <1>1, <1>2, HangingWhole DEF Below
<1>. HIDE DEF B
<1>4. ASSUME NEW n \in 0..N, n < N, n \in S PROVE n + 1 \in S
  <2>1. n + 1 \in 0..N /\ n + 1 \in DOMAIN ms /\ (n + 1) - 1 = n
        /\ \A k \in 1..(n + 1) : k \in 1..n \/ k = n + 1
    BY <1>1, <1>4
  <2>2. ASSUME ms[n + 1].live, n + 1 # root.m PROVE n + 1 \in B
    <3> DEFINE p == ms[n + 1].par
    <3>1. Hangs(ms, n + 1)
      BY <2>1, <2>2 DEF Rooted
    <3>2. p \in 1..n /\ ms[p].live /\ Under(ms[p].base, ms[n + 1].at)
      BY <2>1, <3>1 DEF Hangs
    <3>3. p = root.m \/ p \in B
      <4>. HIDE DEF p
      <4>. QED BY <1>4, <3>2
    <3>4. p = root.m => Under(root.p, ms[n + 1].at)
      BY <3>2 DEF Rooted
    <3>5. n + 1 \in Live(ms)
      BY <2>1, <2>2 DEF Live
    <3>6. n + 1 \in Hung(ms, root, Live(ms), B)
      BY <3>3, <3>4, <3>5 DEF Hung
    <3>. QED BY <1>3, <3>6
  <2>. HIDE DEF N
  <2>. QED BY <1>4, <2>1, <2>2
<1>5. 0 \in S
  BY <1>1
<1>6. 0..N \subseteq S
  <2>. HIDE DEF S, N
  <2>. QED BY <1>1, <1>4, <1>5, Induction
<1>7. N \in S
  BY <1>1, <1>6
<1>. QED BY <1>1, <1>7 DEF Rooted, B

LEMMA RootedKept ==
  ASSUME NEW G, NEW F, NEW K, Table(K.ms, G, F), NEW h, NEW root, Rooted(K, h, root),
         NEW L, Kept(K.ms, L.ms), DOMAIN L.ms = DOMAIN K.ms
  PROVE  Rooted(L, h, root)
<1>1. /\ DOMAIN K.ms = 1..Len(K.ms) /\ Len(K.ms) \in Nat
  BY TableShape
<1>2. ASSUME NEW k \in DOMAIN K.ms, Hangs(K.ms, k) PROVE Hangs(L.ms, k)
  <2>1. K.ms[k].par \in DOMAIN K.ms
    BY <1>1, <1>2 DEF Hangs
  <2>. QED BY <1>2, <2>1 DEF Hangs, Kept
<1>3. root.m \in DOMAIN K.ms /\ root \in Places(L.ms)
  BY DEF Rooted, Places
<1>. QED BY <1>2, <1>3 DEF Rooted, Kept

(* Whatever propagation is asked for, the table keeps its shape.           *)
LEMMA SetRows ==
  ASSUME NEW G, NEW F, NEW K, KernelOK(K, G, F), NEW at, NEW prop
  PROVE  LET L == SetPropagation(K, at, prop)
         IN  /\ DOMAIN L.ms = DOMAIN K.ms /\ Kept(K.ms, L.ms)
             /\ L.err = K.err \/ L.err = "EINVAL"
<1>1. CASE MountRoot(K, at)
  BY <1>1, PropagationRows
<1>2. CASE ~MountRoot(K, at)
  <2>1. SetPropagation(K, at, prop) = Failed(K, "EINVAL")
    BY <1>2 DEF SetPropagation
  <2>2. Failed(K, "EINVAL").ms = K.ms /\ Failed(K, "EINVAL").err = "EINVAL"
    BY DEF Failed, KernelOK
  <2>. QED BY <2>1, <2>2 DEF Kept
<1>. QED BY <1>1, <1>2

(* What pivot_root makes of the table, one field after the other.          *)
LEMMA PivotIs ==
  ASSUME NEW G, NEW F, NEW K, KernelOK(K, G, F), NEW old, NEW new
  PROVE  LET ms1 == [K.ms EXCEPT ![new.m].par = NoMount]
             ms2 == [ms1 EXCEPT ![new.m].at = <<>>]
             ms3 == [ms2 EXCEPT ![old.m].par = new.m]
             ms4 == [ms3 EXCEPT ![old.m].at = new.p]
         IN  PivotRoot(K, old, new) = [ms |-> ms4, fs |-> K.fs, hostSaw |-> K.hostSaw, err |-> K.err]
<1> DEFINE ms1 == [K.ms EXCEPT ![new.m].par = NoMount]
           ms2 == [ms1 EXCEPT ![new.m].at = <<>>]
           ms3 == [ms2 EXCEPT ![old.m].par = new.m]
           ms4 == [ms3 EXCEPT ![old.m].at = new.p]
<1>1. PivotRoot(K, old, new) = [K EXCEPT !.ms = ms4]
  <2>1. PivotRoot(K, old, new) =
          [[[[K EXCEPT !.ms[new.m].par = NoMount] EXCEPT !.ms[new.m].at = <<>>]
              EXCEPT !.ms[old.m].par = new.m] EXCEPT !.ms[old.m].at = new.p]
    BY DEF PivotRoot
  <2>2. ASSUME NEW ms
        PROVE  LET J == [ms |-> ms, fs |-> K.fs, hostSaw |-> K.hostSaw, err |-> K.err]
               IN  /\ \A v, m : [J EXCEPT !.ms[m].par = v] =
                         [ms |-> [ms EXCEPT ![m].par = v], fs |-> K.fs,
                          hostSaw |-> K.hostSaw, err |-> K.err]
                   /\ \A v, m : [J EXCEPT !.ms[m].at = v] =
                         [ms |-> [ms EXCEPT ![m].at = v], fs |-> K.fs,
                          hostSaw |-> K.hostSaw, err |-> K.err]
    OBVIOUS
  <2>. QED BY <2>1, <2>2 DEF KernelOK
<1>. HIDE DEF ms4
<1>2. PivotRoot(K, old, new) = [ms |-> ms4, fs |-> K.fs, hostSaw |-> K.hostSaw, err |-> K.err]
  BY <1>1 DEF KernelOK
<1>. QED BY <1>2 DEF ms4

(* The rows of the table after pivot_root, and after a detach.             *)
LEMMA PivotRows ==
  ASSUME NEW G, NEW F, NEW K, KernelOK(K, G, F), HostRoot \in Places(K.ms),
         NEW new \in Places(K.ms), new.m # 1
  PROVE  LET L == PivotRoot(K, HostRoot, new)
         IN  /\ DOMAIN L.ms = DOMAIN K.ms /\ L.err = K.err
             /\ L.ms[1].par = new.m /\ L.ms[1].at = new.p
             /\ L.ms[new.m].par = NoMount /\ L.ms[new.m].at = <<>>
             /\ \A k \in DOMAIN K.ms :
                  /\ L.ms[k].base = K.ms[k].base /\ L.ms[k].live = K.ms[k].live
                  /\ k \notin {1, new.m} => L.ms[k].par = K.ms[k].par /\ L.ms[k].at = K.ms[k].at
<1> DEFINE a == new.m
           b == HostRoot.m
           v == new.p
           ms == K.ms
           ms1 == [ms EXCEPT ![a].par = NoMount]
           ms2 == [ms1 EXCEPT ![a].at = <<>>]
           ms3 == [ms2 EXCEPT ![b].par = a]
           ms4 == [ms3 EXCEPT ![b].at = v]
           L == PivotRoot(K, HostRoot, new)
<1>1. a \in DOMAIN ms /\ 1 \in DOMAIN ms /\ a # 1 /\ b = 1
  BY DEF Places, HostRoot
<1>2. ms = [k \in DOMAIN ms |-> ms[k]] /\ \A k \in DOMAIN ms : ms[k] \in MountRecords(G, F)
  BY KernelTable, TableShape
<1>3. L = [ms |-> ms4, fs |-> K.fs, hostSaw |-> K.hostSaw, err |-> K.err]
  BY PivotIs
<1>4. L.ms = ms4 /\ L.err = K.err
  <2>. HIDE DEF L, ms4
  <2>. QED BY <1>3
<1>. HIDE DEF L, a, b, v, ms
<1>5. /\ DOMAIN ms1 = DOMAIN ms /\ DOMAIN ms2 = DOMAIN ms /\ DOMAIN ms3 = DOMAIN ms
      /\ DOMAIN ms4 = DOMAIN ms
  OBVIOUS
<1>6. /\ \A k \in DOMAIN ms : k # a => ms1[k] = ms[k]
      /\ ms1[a] = [ms[a] EXCEPT !.par = NoMount]
  BY <1>1
<1>7. /\ \A k \in DOMAIN ms : k # a => ms2[k] = ms1[k]
      /\ ms2[a] = [ms1[a] EXCEPT !.at = <<>>]
  <2>. HIDE DEF ms1
  <2>. QED BY <1>1, <1>5
<1>8. /\ \A k \in DOMAIN ms : k # 1 => ms3[k] = ms2[k]
      /\ ms3[1] = [ms2[1] EXCEPT !.par = a]
  <2>. HIDE DEF ms2
  <2>. QED BY <1>1, <1>5
<1>9. /\ \A k \in DOMAIN ms : k # 1 => ms4[k] = ms3[k]
      /\ ms4[1] = [ms3[1] EXCEPT !.at = v]
  <2>. HIDE DEF ms3
  <2>. QED BY <1>1, <1>5
<1>. HIDE DEF ms1, ms2, ms3, ms4
<1>10. /\ ms4[a] = [[ms[a] EXCEPT !.par = NoMount] EXCEPT !.at = <<>>]
       /\ ms4[1] = [[ms[1] EXCEPT !.par = a] EXCEPT !.at = v]
       /\ \A k \in DOMAIN ms : k \notin {1, a} => ms4[k] = ms[k]
  <2>1. ms2[a] = [[ms[a] EXCEPT !.par = NoMount] EXCEPT !.at = <<>>]
    BY <1>6, <1>7
  <2>2. ms2[1] = ms[1]
    BY <1>1, <1>6, <1>7
  <2>3. ms4[a] = ms2[a]
    BY <1>1, <1>8, <1>9
  <2>4. ms4[1] = [[ms[1] EXCEPT !.par = a] EXCEPT !.at = v]
    BY <1>8, <1>9, <2>2
  <2>5. \A k \in DOMAIN ms : k \notin {1, a} => ms4[k] = ms[k]
    BY <1>6, <1>7, <1>8, <1>9
  <2>. QED BY <2>1, <2>3, <2>4, <2>5
<1>11. ASSUME NEW r \in MountRecords(G, F), NEW p, NEW q
       PROVE  LET s == [[r EXCEPT !.par = p] EXCEPT !.at = q]
              IN  s.par = p /\ s.at = q /\ s.base = r.base /\ s.live = r.live
  BY DEF MountRecords
<1>12. /\ ms4[a].par = NoMount /\ ms4[a].at = <<>> /\ ms4[a].base = ms[a].base
       /\ ms4[a].live = ms[a].live
       /\ ms4[1].par = a /\ ms4[1].at = v /\ ms4[1].base = ms[1].base /\ ms4[1].live = ms[1].live
  <2>1. ms[a] \in MountRecords(G, F) /\ ms[1] \in MountRecords(G, F)
    BY <1>1, <1>2
  <2>. QED BY <1>10, <1>11, <2>1
<1>. QED BY <1>4, <1>5, <1>10, <1>12 DEF a, v, ms, L

LEMMA DetachRows ==
  ASSUME NEW G, NEW F, NEW K, KernelOK(K, G, F), NEW m \in DOMAIN K.ms
  PROVE  LET L == Detach(K, m)
             gone == {m} \cup Below(K.ms, [m |-> m, p |-> K.ms[m].base])
         IN  /\ DOMAIN L.ms = DOMAIN K.ms /\ L.err = K.err
             /\ \A k \in DOMAIN K.ms :
                  /\ L.ms[k].par = K.ms[k].par /\ L.ms[k].at = K.ms[k].at
                  /\ L.ms[k].base = K.ms[k].base
                  /\ L.ms[k].live <=> K.ms[k].live /\ k \notin gone
<1> DEFINE gone == {m} \cup Below(K.ms, [m |-> m, p |-> K.ms[m].base])
           New(k) == IF k \in gone THEN [K.ms[k] EXCEPT !.live = FALSE] ELSE K.ms[k]
           ms == [k \in DOMAIN K.ms |-> New(k)]
           saw == K.hostSaw \/ \E k \in gone : /\ K.ms[k].par # NoMount
                                               /\ K.ms[K.ms[k].par].group = "host"
           L == Detach(K, m)
<1>1. L.ms = ms /\ L.err = K.err
  <2>1. L = [[K EXCEPT !.ms = ms] EXCEPT !.hostSaw = saw]
    BY DEF Detach
  <2>2. [K EXCEPT !.ms = ms] = [ms |-> ms, fs |-> K.fs, hostSaw |-> K.hostSaw, err |-> K.err]
    <3>. HIDE DEF ms
    <3>. QED BY DEF KernelOK
  <2>. HIDE DEF ms, saw, L
  <2>. QED BY <2>1, <2>2
<1>2. DOMAIN ms = DOMAIN K.ms /\ \A k \in DOMAIN K.ms : ms[k] = New(k)
  <2>. HIDE DEF New
  <2>. QED OBVIOUS
<1>3. ASSUME NEW k \in DOMAIN K.ms
      PROVE  /\ New(k).par = K.ms[k].par /\ New(k).at = K.ms[k].at
             /\ New(k).base = K.ms[k].base
             /\ New(k).live <=> K.ms[k].live /\ k \notin gone
  <2> DEFINE row == K.ms[k]
             off == [row EXCEPT !.live = FALSE]
  <2>1. row \in MountRecords(G, F)
    BY KernelTable, TableShape
  <2>2. off.par = row.par /\ off.at = row.at /\ off.base = row.base /\ off.live = FALSE
    <3>. HIDE DEF row
    <3>. QED BY <2>1 DEF MountRecords
  <2>3. New(k) = IF k \in gone THEN off ELSE row
    OBVIOUS
  <2>4. row.live \in BOOLEAN
    BY <2>1 DEF MountRecords
  <2>. HIDE DEF gone, New, off
  <2>5. CASE k \in gone
    BY <2>2, <2>3, <2>5
  <2>6. CASE k \notin gone
    BY <2>3, <2>4, <2>6
  <2>. QED BY <2>5, <2>6
<1>. HIDE DEF ms, L, New, gone
<1>. QED BY <1>1, <1>2, <1>3 DEF L, gone

(* On top of the stack the pivot finds what it asks for.                   *)
LEMMA PivotAllowed ==
  ASSUME NEW G, NEW F, NEW K, KernelOK(K, G, F), NEW h, Made(h), NEW root, Sound(K, h, root),
         NEW new, new = Top(K.ms, AtRootfs)
  PROVE  /\ new \in Places(K.ms) /\ new.m > Len(h) /\ new.m # 1 /\ MountRoot(K, new)
         /\ K.ms[new.m].par # NoMount /\ ~Shared(K.ms[new.m])
         /\ ~Shared(K.ms[K.ms[new.m].par])
<1> DEFINE ms == K.ms
           U == RootStack(ms, h)
           H == Len(h)
           n == new.m
<1>1. /\ Table(ms, G, F) /\ Grown(ms, h) /\ Ordered(ms) /\ H \in Nat /\ H # 0
      /\ DOMAIN ms = 1..Len(ms) /\ Len(ms) \in Nat /\ H < Len(ms)
      /\ \A k \in U : ~Shared(ms[k])
      /\ ~Shared(ms[ms[H + 1].par])
  BY KernelTable, AtRootfsPlace, TableShape DEF Sound, SoundBut, Grown
<1>2. Stack(ms, h, U)
  BY <1>1, GrownStack
<1>3. new \in Places(ms) /\ OnStack(ms, U, new)
  BY <1>1, StackSame
<1>. HIDE DEF U
<1>4. n \in U /\ new.p = ms[n].base
  BY <1>3 DEF OnStack
<1>5. n \in (H + 1)..Len(ms)
  BY <1>2, <1>4 DEF Stack
<1>6. n > H /\ n # 1 /\ n \in DOMAIN ms
  BY <1>1, <1>5
<1>7. ms[n].par \in 1..(n - 1)
  BY <1>1, <1>6 DEF Ordered
<1>8. ms[n].par # NoMount
  BY <1>7 DEF NoMount
<1>9. ~Shared(ms[ms[n].par])
  <2>1. CASE n = H + 1
    BY <1>1, <2>1
  <2>2. CASE n # H + 1
    <3>1. n > H + 1
      BY <1>1, <1>5, <2>2
    <3>2. OnStack(ms, U, [m |-> ms[n].par, p |-> ms[n].at])
      BY <1>2, <1>4, <1>6, <3>1 DEF Stack
    <3>. QED BY <1>1, <3>2 DEF OnStack, U
  <2>. QED BY <2>1, <2>2
<1>10. ~Shared(ms[n])
  BY <1>1, <1>4 DEF U
<1>. QED BY <1>3, <1>4, <1>6, <1>8, <1>9, <1>10 DEF MountRoot

(* What the detach of the old root takes along: all the namespace was made *)
(* with, and nothing that hangs from the new root only.                    *)
LEMMA OldRootGone ==
  ASSUME NEW G, NEW F, NEW ms, Table(ms, G, F), Ordered(ms), NEW H \in Nat, H # 0,
         H <= Len(ms), NEW n \in DOMAIN ms, n > H,
         NEW G2, NEW F2, NEW new, Table(new, G2, F2), DOMAIN new = DOMAIN ms,
         new[n].par = NoMount, new[1].base = <<>>,
         \A k \in DOMAIN ms : /\ new[k].base = ms[k].base /\ new[k].live
                              /\ k \notin {1, n} => new[k].par = ms[k].par /\ new[k].at = ms[k].at
  PROVE  LET gone == {1} \cup Below(new, [m |-> 1, p |-> <<>>])
         IN  /\ 1..H \subseteq gone /\ n \notin gone
             /\ \A k \in DOMAIN ms : k \notin gone /\ k # n =>
                  /\ new[k].par \in 1..(k - 1) /\ new[k].par \notin gone
                  /\ Under(new[new[k].par].base, new[k].at)
<1> DEFINE N == Len(ms)
           at == [m |-> 1, p |-> <<>>]
           B == Below(new, at)
           S == {x \in 0..N : \A k \in 2..x : k <= H => k \in B}
<1>1. /\ N \in Nat /\ DOMAIN ms = 1..N /\ Len(new) \in Nat /\ DOMAIN new = 1..Len(new)
      /\ H \in 1..N
  BY TableShape
<1>2. Live(new) = DOMAIN ms
  BY DEF Live
<1>3. Hung(new, at, DOMAIN ms, B) = B
  BY <1>1, <1>2, HangingWhole DEF Below
<1>. HIDE DEF B
<1>4. ASSUME NEW k \in DOMAIN ms
      PROVE  k \in B <=> \/ new[k].par = 1 /\ Under(<<>>, new[k].at)
                         \/ new[k].par \in B \ {1}
  <2>1. at.m = 1 /\ at.p = <<>>
    OBVIOUS
  <2>. HIDE DEF at
  <2>. QED BY <1>3, <2>1 DEF Hung
<1>5. ASSUME NEW k \in DOMAIN ms PROVE Under(<<>>, new[k].at)
  BY <1>1, TableShape, UnderFacts, EmptySeq DEF Paths
<1>6. ASSUME NEW k \in DOMAIN ms, k # 1, k # n
      PROVE  /\ new[k].par = ms[k].par /\ new[k].at = ms[k].at
             /\ ms[k].par \in 1..(k - 1) /\ ms[k].par \in DOMAIN ms
             /\ k \in B <=> ms[k].par = 1 \/ ms[k].par \in B
  <2>1. new[k].par = ms[k].par /\ new[k].at = ms[k].at
    BY <1>6
  <2>2. ms[k].par \in 1..(k - 1)
    BY <1>6 DEF Ordered
  <2>3. ms[k].par \in DOMAIN ms
    BY <1>1, <2>2
  <2>. QED BY <1>4, <1>5, <2>1, <2>2, <2>3
<1>7. ASSUME NEW x \in 0..N, x < N, x \in S PROVE x + 1 \in S
  <2>1. x + 1 \in 0..N /\ \A k \in 2..(x + 1) : k \in 2..x \/ k = x + 1
    BY <1>1, <1>7
  <2>2. ASSUME x + 1 \in 2..(x + 1), x + 1 <= H PROVE x + 1 \in B
    <3>1. x + 1 \in DOMAIN ms /\ x + 1 # 1 /\ x + 1 # n /\ (x + 1) - 1 = x
      BY <1>1, <1>7, <2>2
    <3>2. ms[x + 1].par \in 1..x
      BY <1>6, <3>1
    <3>3. ms[x + 1].par = 1 \/ (ms[x + 1].par \in 2..x /\ ms[x + 1].par <= H)
      BY <1>1, <2>2, <3>2
    <3>4. ms[x + 1].par = 1 \/ ms[x + 1].par \in B
      BY <1>7, <3>3
    <3>. QED BY <1>6, <3>1, <3>4
  <2>. HIDE DEF N
  <2>. QED BY <1>7, <2>1, <2>2
<1>8. 0 \in S
  BY <1>1
<1>9. 0..N \subseteq S
  <2>. HIDE DEF S, N
  <2>. QED BY <1>1, <1>7, <1>8, Induction
<1>10. 1..H \subseteq {1} \cup B
  <2>1. N \in S
    BY <1>1, <1>9
  <2>2. \A k \in 1..H : k = 1 \/ (k \in 2..N /\ k <= H)
    BY <1>1
  <2>. QED BY <2>1, <2>2
<1>11. n \notin {1} \cup B
  <2>1. n # 1
    BY <1>1
  <2>2. NoMount # 1 /\ NoMount \notin DOMAIN ms
    BY <1>1 DEF NoMount
  <2>3. B \subseteq DOMAIN ms
    BY <1>3 DEF Hung
  <2>. QED BY <1>4, <2>1, <2>2, <2>3
<1>12. ASSUME NEW k \in DOMAIN ms, k \notin {1} \cup B, k # n
       PROVE  /\ new[k].par \in 1..(k - 1) /\ new[k].par \notin {1} \cup B
              /\ Under(new[new[k].par].base, new[k].at)
  <2>1. k # 1
    BY <1>12
  <2>2. Under(ms[ms[k].par].base, ms[k].at)
    BY <2>1 DEF Ordered
  <2>. QED BY <1>6, <1>12, <2>1, <2>2
<1>. QED BY <1>10, <1>11, <1>12 DEF B

(* do_pivot_root leaves the container with a tree of its own.              *)
LEMMA LeftRooted ==
  ASSUME NEW G, NEW F, Allowed(G, F), NEW K, KernelOK(K, G, F), NEW h, Made(h), NEW root,
         Sound(K, h, root), NEW new, new = Top(K.ms, AtRootfs)
  PROVE  LET left == LeaveOldRoot(PivotRoot(K, HostRoot, new), HostRoot)
         IN  /\ KernelOK(left, G, F) /\ Rooted(left, h, new)
             /\ left.err = K.err \/ left.err = "EINVAL"
<1> DEFINE pivoted == PivotRoot(K, HostRoot, new)
           old == [m |-> HostRoot.m, p |-> pivoted.ms[HostRoot.m].base]
           private == SetPropagation(pivoted, old, Private(TRUE))
           left == LeaveOldRoot(pivoted, HostRoot)
           ms == K.ms
           n == new.m
           H == Len(h)
           gone == {1} \cup Below(private.ms, [m |-> 1, p |-> <<>>])
<1>1. new \in Places(ms) /\ n > H /\ n # 1 /\ MountRoot(K, new)
  BY PivotAllowed
<1>2. /\ Table(ms, G, F) /\ Ordered(ms) /\ H \in Nat /\ H # 0 /\ H <= Len(ms) /\ Len(ms) \in Nat
      /\ DOMAIN ms = 1..Len(ms)
  BY KernelTable, AtRootfsPlace, TableShape DEF Sound, SoundBut, Grown
<1>3. 1 \in DOMAIN ms /\ HostRoot \in Places(ms) /\ HostRoot.m = 1 /\ n \in DOMAIN ms
      /\ ms[1].base = <<>> /\ \A k \in DOMAIN ms : ms[k].live
  BY <1>1, <1>2, NamedPaths DEF HostRoot, Places, Ordered
<1>4. /\ DOMAIN pivoted.ms = DOMAIN ms /\ pivoted.err = K.err
      /\ pivoted.ms[n].par = NoMount
      /\ \A k \in DOMAIN ms :
           /\ pivoted.ms[k].base = ms[k].base /\ pivoted.ms[k].live = ms[k].live
           /\ k \notin {1, n} => pivoted.ms[k].par = ms[k].par /\ pivoted.ms[k].at = ms[k].at
  BY <1>1, <1>3, PivotRows
<1>5. KernelOK(pivoted, G, F)
  BY <1>1, <1>3, PivotRootHolds DEF Holds
<1>6. left = Detach(private, 1)
  BY <1>3 DEF LeaveOldRoot
<1>. HIDE DEF pivoted, left, ms
<1>7. /\ DOMAIN private.ms = DOMAIN pivoted.ms /\ Kept(pivoted.ms, private.ms)
      /\ private.err = pivoted.err \/ private.err = "EINVAL"
      /\ KernelOK(private, G, F)
  <2>1. /\ DOMAIN private.ms = DOMAIN pivoted.ms /\ Kept(pivoted.ms, private.ms)
        /\ private.err = pivoted.err \/ private.err = "EINVAL"
    BY <1>5, SetRows
  <2>2. Keeps(pivoted, private, G, F)
    BY <1>5, SetPropagationKeeps
  <2>. HIDE DEF private
  <2>. QED BY <1>5, <2>1, <2>2 DEF Keeps, Holds
<1>. HIDE DEF private
<1>8. /\ DOMAIN private.ms = DOMAIN ms /\ private.ms[n].par = NoMount
      /\ private.ms[1].base = <<>>
      /\ \A k \in DOMAIN ms :
           /\ private.ms[k].base = ms[k].base /\ private.ms[k].live
           /\ k \notin {1, n} => private.ms[k].par = ms[k].par /\ private.ms[k].at = ms[k].at
  BY <1>3, <1>4, <1>7 DEF Kept
<1>9. /\ 1..H \subseteq gone /\ n \notin gone
      /\ \A k \in DOMAIN ms : k \notin gone /\ k # n =>
           /\ private.ms[k].par \in 1..(k - 1) /\ private.ms[k].par \notin gone
           /\ Under(private.ms[private.ms[k].par].base, private.ms[k].at)
  <2>1. Table(private.ms, G, F)
    BY <1>7, KernelTable
  <2> DEFINE new1 == private.ms
             below == Below(private.ms, [m |-> 1, p |-> <<>>])
  <2>2. gone = {1} \cup Below(new1, [m |-> 1, p |-> <<>>])
    OBVIOUS
  <2>3. H \in Nat /\ H # 0 /\ H <= Len(ms) /\ n > H /\ n \in DOMAIN ms /\ Table(ms, G, F) /\ Ordered(ms)
    BY <1>1, <1>2, <1>3
  <2>4. /\ Table(new1, G, F) /\ DOMAIN new1 = DOMAIN ms /\ new1[n].par = NoMount
        /\ new1[1].base = <<>>
        /\ \A k \in DOMAIN ms : /\ new1[k].base = ms[k].base /\ new1[k].live
                                /\ k \notin {1, n} => new1[k].par = ms[k].par /\ new1[k].at = ms[k].at
    BY <1>8, <2>1
  <2>5. /\ 1..H \subseteq gone /\ n \notin gone
        /\ \A k \in DOMAIN ms : k \notin gone /\ k # n =>
             /\ new1[k].par \in 1..(k - 1) /\ new1[k].par \notin gone
             /\ Under(new1[new1[k].par].base, new1[k].at)
    <3>. HIDE DEF H, n, new1, gone
    <3>. QED BY <2>2, <2>3, <2>4, OldRootGone
  <2>. HIDE DEF gone, H, n
  <2>. QED BY <2>5
<1>10. /\ DOMAIN left.ms = DOMAIN ms /\ left.err = private.err
       /\ \A k \in DOMAIN ms :
            /\ left.ms[k].par = private.ms[k].par /\ left.ms[k].at = private.ms[k].at
            /\ left.ms[k].base = private.ms[k].base
            /\ left.ms[k].live <=> private.ms[k].live /\ k \notin gone
  BY <1>3, <1>6, <1>7, <1>8, DetachRows
<1>11. KernelOK(left, G, F)
  BY <1>3, <1>6, <1>7, <1>8, DetachHolds DEF Holds
<1>. HIDE DEF gone
<1>12. ASSUME NEW k \in DOMAIN left.ms, left.ms[k].live
       PROVE  k > H /\ (k = n \/ Hangs(left.ms, k))
  <2>1. k \in DOMAIN ms /\ k \notin gone
    BY <1>10, <1>12
  <2>2. k > H
    BY <1>2, <1>9, <2>1
  <2>3. CASE k # n
    <3> DEFINE p == private.ms[k].par
    <3>1. p \in 1..(k - 1) /\ p \notin gone /\ Under(private.ms[p].base, private.ms[k].at)
      BY <1>9, <2>1, <2>3
    <3>2. p \in DOMAIN ms
      BY <1>2, <2>1, <3>1
    <3>3. left.ms[p].live /\ left.ms[p].base = private.ms[p].base
      BY <1>8, <1>10, <3>1, <3>2
    <3>4. left.ms[k].par = p /\ left.ms[k].at = private.ms[k].at
      BY <1>10, <2>1
    <3>. HIDE DEF p
    <3>. QED BY <2>2, <3>1, <3>3, <3>4 DEF Hangs
  <2>. QED BY <2>2, <2>3
<1>13. new \in Places(left.ms) /\ new.p = left.ms[n].base /\ left.ms[n].live
  BY <1>1, <1>3, <1>8, <1>9, <1>10 DEF Places, MountRoot, ms
<1>14. Rooted(left, h, new)
  BY <1>12, <1>13 DEF Rooted
<1>. QED BY <1>4, <1>7, <1>10, <1>11, <1>14 DEF left, pivoted

(* Places in mounts that are still there: lookups stay in those.           *)
Alive(ms, x) == Proper(ms, x) /\ ms[x.m].live

LEMMA TopAlive ==
  ASSUME NEW G, NEW F, NEW ms, Table(ms, G, F), NEW x, Alive(ms, x)
  PROVE  Alive(ms, Top(ms, x))
<1> DEFINE Z == {y \in Places(ms) : Alive(ms, y)}
<1>1. \A y \in Z \cap Places(ms) : Onto(ms, y) \in Z
  <2>. TAKE y \in Z \cap Places(ms)
  <2>1. \A k \in DOMAIN ms : ms[k].base \in Paths /\ Under(ms[k].base, ms[k].base)
    BY TableShape, UnderFacts
  <2>2. Onto(ms, y) \in Places(ms)
    BY OntoPlace
  <2>3. CASE MountedAt(ms, y) = {}
    BY <2>3 DEF Onto
  <2>4. CASE MountedAt(ms, y) # {}
    <3>1. PICK k \in MountedAt(ms, y) : Onto(ms, y) = [m |-> k, p |-> ms[k].base]
      BY <2>4, OntoPlace
    <3>2. k \in DOMAIN ms /\ ms[k].live
      BY DEF MountedAt
    <3>. QED BY <2>1, <2>2, <3>1, <3>2 DEF Alive, Proper
  <2>. QED BY <2>3, <2>4
<1>2. x \in Z /\ x \in Places(ms)
  BY DEF Alive, Proper
<1>3. Top(ms, x) \in Z
  <2>. HIDE DEF Z
  <2>. QED BY <1>1, <1>2, TopStays
<1>. QED BY <1>3

LEMMA LookupAlive ==
  ASSUME NEW G, NEW F, NEW K, Table(K.ms, G, F), NEW start, Alive(K.ms, start),
         NEW path \in Paths
  PROVE  Alive(K.ms, Lookup(K, start, path).at)
<1> DEFINE ms == K.ms
           N == Len(path)
           walk == Walk(ms, start, path)
           Z == {y \in Places(ms) : Alive(ms, y)}
<1>1. N \in Nat /\ path \in [1..N -> Names] /\ start \in Places(ms) /\ path \in Seq(Names)
  BY LenProperties DEF Paths, Proper, Alive
<1>2. walk[0] = start /\ \A n \in 1..N :
         walk[n] = Top(ms, [m |-> walk[n - 1].m, p |-> Append(walk[n - 1].p, path[n])])
  BY <1>1, WalkPlaces
<1>3. Lookup(K, start, path).at = walk[N]
  BY DEF Lookup, LookupAlong
<1>. HIDE DEF walk
<1>4. ASSUME NEW n \in 1..N, walk[n - 1] \in Z
      PROVE  walk[n] \in Z
  <2> DEFINE x == walk[n - 1]
             y == [m |-> x.m, p |-> Append(x.p, path[n])]
  <2>1. path[n] \in Names /\ Proper(ms, x) /\ ms[x.m].live
    BY <1>1, <1>4 DEF Alive
  <2>2. Proper(ms, y) /\ ms[y.m].live
    <3>. HIDE DEF x
    <3>. QED BY <2>1, DownProper
  <2>3. walk[n] = Top(ms, y)
    BY <1>2
  <2>. HIDE DEF x, y
  <2>4. Alive(ms, Top(ms, y)) /\ Top(ms, y) \in Places(ms)
    BY <2>2, TopAlive DEF Alive, Proper
  <2>. QED BY <2>3, <2>4
<1>5. walk[0] \in Z
  BY <1>1, <1>2
<1>6. \A n \in 0..N : walk[n] \in Z
  <2>. HIDE DEF Z, N
  <2>. QED BY <1>1, <1>4, <1>5, IterationStays
<1>7. N \in 0..N
  BY <1>1
<1>. QED BY <1>3, <1>6, <1>7

(* A mount more, in one that is there.                                     *)
LEMMA GraftRooted ==
  ASSUME NEW G, NEW F, NEW K, KernelOK(K, G, F), NEW h, Made(h), NEW root, Rooted(K, h, root),
         NEW top, Alive(K.ms, top), NEW tree, Tree(tree, Len(K.ms), G, F), Len(tree) = 1
  PROVE  Rooted(AttachOn(K, tree, top), h, root) /\ AttachOn(K, tree, top).err = K.err
<1> DEFINE L == AttachOn(K, tree, top)
           N == Len(K.ms)
<1>1. top \in Places(K.ms) /\ K.ms[top.m].live /\ Under(K.ms[top.m].base, top.p)
  BY DEF Alive, Proper
<1>2. /\ N \in Nat /\ Len(h) \in Nat /\ DOMAIN K.ms = 1..N /\ DOMAIN L.ms = 1..(N + 1)
      /\ L.err = K.err /\ \A k \in 1..N : L.ms[k] = K.ms[k]
      /\ L.ms[N + 1].par = top.m /\ L.ms[N + 1].at = top.p
  <2>1. N \in Nat /\ DOMAIN K.ms = 1..N /\ Len(h) \in Nat
    BY KernelTable, TableShape, AtRootfsPlace
  <2>2. /\ DOMAIN tree = 1..1 /\ DOMAIN L.ms = 1..(N + 1)
        /\ L.err = K.err /\ \A k \in 1..N : L.ms[k] = K.ms[k]
        /\ \A j \in DOMAIN tree :
             /\ L.ms[N + j].par = IF j = 1 THEN top.m ELSE tree[j].par
             /\ L.ms[N + j].at = IF j = 1 THEN top.p ELSE tree[j].at
    <3>1. /\ DOMAIN tree = 1..Len(tree) /\ DOMAIN L.ms = 1..(N + Len(tree))
          /\ L.err = K.err /\ \A k \in 1..N : L.ms[k] = K.ms[k]
          /\ \A j \in DOMAIN tree :
               /\ L.ms[N + j].par = IF j = 1 THEN top.m ELSE tree[j].par
               /\ L.ms[N + j].at = IF j = 1 THEN top.p ELSE tree[j].at
      <4>1. Attached(K, L, tree, top)
        BY <1>1, AttachRows
      <4>. HIDE DEF L
      <4>. QED BY <4>1 DEF Attached
    <3>. HIDE DEF L, N
    <3>. QED BY <3>1
  <2>3. 1 \in DOMAIN tree
    BY <2>2
  <2>. QED BY <2>1, <2>2, <2>3
<1>. HIDE DEF L, N
<1>3. /\ root \in Places(K.ms) /\ root.m \in 1..N /\ root.p = K.ms[root.m].base
      /\ K.ms[root.m].live /\ root.m > Len(h) /\ top.m \in 1..N
  BY <1>1, <1>2 DEF Rooted, Places
<1>4. root \in Places(L.ms) /\ root.p = L.ms[root.m].base /\ L.ms[root.m].live
  <2>1. 1..N \subseteq 1..(N + 1)
    BY <1>2
  <2>. QED BY <1>2, <1>3, <2>1 DEF Places
<1>5. ASSUME NEW k \in DOMAIN L.ms, L.ms[k].live
      PROVE  k > Len(h) /\ (k = root.m \/ Hangs(L.ms, k))
  <2>1. CASE k \in 1..N
    <3>1. k > Len(h) /\ (k = root.m \/ Hangs(K.ms, k))
      BY <1>2, <1>5, <2>1 DEF Rooted
    <3>2. ASSUME Hangs(K.ms, k) PROVE Hangs(L.ms, k)
      <4>1. K.ms[k].par \in 1..N
        BY <1>2, <2>1, <3>2 DEF Hangs
      <4>. QED BY <1>2, <2>1, <3>2, <4>1 DEF Hangs
    <3>. QED BY <3>1, <3>2
  <2>2. CASE k \notin 1..N
    <3>1. k = N + 1
      BY <1>2, <2>2
    <3>2. k > Len(h) /\ top.m \in 1..(k - 1)
      BY <1>2, <1>3, <3>1
    <3>3. L.ms[top.m] = K.ms[top.m]
      BY <1>2, <1>3
    <3>. QED BY <1>1, <1>2, <3>1, <3>2, <3>3 DEF Hangs
  <2>. QED BY <2>1, <2>2
<1>. QED BY <1>2, <1>4, <1>5 DEF Rooted, L

(* The tty of the console is bound below the root.                         *)
LEMMA ConsoleBound ==
  ASSUME NEW G, NEW F, Allowed(G, F), NEW K, KernelOK(K, G, F), NEW h, Made(h), NEW root,
         Rooted(K, h, root), NEW src \in Places(K.ms), NEW path \in Paths, K.err # "pivot_root"
  PROVE  LET L == BindOnto(K, src, Lookup(K, root, path).at, FALSE)
         IN  Rooted(L, h, root) /\ L.err # "pivot_root"
<1> DEFINE dst == Lookup(K, root, path).at
           top == Top(K.ms, dst)
           tree == TreeOf(K.ms, src, ToCopy(K, src, FALSE))
           L == BindOnto(K, src, dst, FALSE)
           graft == AttachOn(K, tree, top)
<1>1. Table(K.ms, G, F)
  BY KernelTable
<1>2. Alive(K.ms, root)
  <2>1. root.m \in DOMAIN K.ms
    BY DEF Rooted, Places
  <2>2. K.ms[root.m].base \in Paths
    BY <1>1, <2>1, TableShape
  <2>. QED BY <2>2, UnderFacts DEF Rooted, Alive, Proper
<1>3. Alive(K.ms, dst)
  BY <1>1, <1>2, LookupAlive
<1>. HIDE DEF dst
<1>4. Alive(K.ms, top)
  BY <1>1, <1>3, TopAlive
<1>5. Tree(tree, Len(K.ms), G, F) /\ Len(tree) = 1
  <2> DEFINE S == ToCopy(K, src, FALSE)
             c == Cardinality(S)
  <2>1. S = {} /\ c = 0
    BY FS_EmptySet DEF ToCopy
  <2>2. S \subseteq DOMAIN K.ms /\ \A k \in S : K.ms[k].par = src.m \/ K.ms[k].par \in S
    BY <2>1
  <2>. HIDE DEF S
  <2>3. Tree(TreeOf(K.ms, src, S), Len(K.ms), G, F) /\ Len(TreeOf(K.ms, src, S)) = 1 + c
    <3>1. Tree(TreeOf(K.ms, src, S), Len(K.ms), G, F) /\ Cloned(K.ms, src, S, TreeOf(K.ms, src, S))
      BY <1>1, <2>2, TreeOfTree
    <3>. QED BY <3>1 DEF Cloned
  <2>4. Tree(tree, Len(K.ms), G, F) /\ Len(tree) = 1 + c
    BY <2>3 DEF S
  <2>. HIDE DEF tree, c
  <2>. QED BY <2>1, <2>4
<1>. HIDE DEF top, tree
<1>6. Rooted(graft, h, root) /\ graft.err # "pivot_root"
  BY <1>4, <1>5, GraftRooted
<1>7. ASSUME NEW e PROVE Failed(K, e).ms = K.ms /\ Failed(K, e).err = e
  BY DEF Failed, KernelOK
<1>8. ASSUME NEW e, e # "pivot_root" PROVE Rooted(Failed(K, e), h, root) /\ Failed(K, e).err # "pivot_root"
  BY <1>7, <1>8 DEF Rooted
<1>9. \/ L = Failed(K, "mismatch") \/ L = Failed(K, "EINVAL") \/ L = Failed(K, "ENOTDIR")
      \/ L = graft
  <2>1. L = Failed(K, "mismatch") \/ L = Bind(K, src, dst, FALSE)
    BY DEF BindOnto
  <2>2. \/ Bind(K, src, dst, FALSE) = Failed(K, "EINVAL")
        \/ Bind(K, src, dst, FALSE) = Failed(K, "ENOTDIR")
        \/ Bind(K, src, dst, FALSE) = graft
    BY BindIs DEF Attach, tree, top
  <2>. QED BY <2>1, <2>2
<1>. HIDE DEF L, graft
<1>. QED BY <1>6, <1>8, <1>9 DEF L, dst

LEMMA ConsoleErr ==
  ASSUME NEW G, NEW F, NEW K, KernelOK(K, G, F), NEW src, NEW dst, NEW rec, K.err # "pivot_root"
  PROVE  BindOnto(K, src, dst, rec).err # "pivot_root"
<1>1. ASSUME NEW e, e # "pivot_root" PROVE Failed(K, e).err # "pivot_root"
  BY <1>1 DEF Failed, KernelOK
<1>2. ASSUME NEW tree PROVE Attach(K, tree, dst).err = K.err
  BY DEF Attach, AttachOn, KernelOK
<1>. QED BY <1>1, <1>2, BindIs DEF BindOnto

LEMMA ConsoleRooted ==
  ASSUME NEW G, NEW F, NEW K, Ready(K, G, F), NEW h, Made(h),
         K.err # "pivot_root", NEW slave, slave.at \in Places(K.ms)
  PROVE  LET L == BindSlave(ClearConsole(K, Lookup(K, procRoot, ConsolePath)), slave)
         IN  (Rooted(K, h, procRoot) => Rooted(L, h, procRoot)) /\ L.err # "pivot_root"
<1> DEFINE console == Lookup(K, procRoot, ConsolePath)
           clear == ClearConsole(K, console)
           made == Ensure(clear, procRoot, ConsolePath, FALSE)
           done == BindOnto(made, slave.at, Lookup(made, procRoot, ConsolePath).at, FALSE)
           failed == Failed(clear, "no pty")
           L == BindSlave(clear, slave)
           Good(J) == (Rooted(K, h, procRoot) => Rooted(J, h, procRoot)) /\ J.err # "pivot_root"
<1>1. ASSUME NEW J, Good(J), NEW M, SameMounts(J, M) PROVE Good(M)
  BY <1>1 DEF SameMounts, Rooted
<1>2. KernelOK(K, G, F) /\ Allowed(G, F) /\ ConsolePath \in Paths
  BY NamedPaths DEF Ready
<1>3. SameMounts(K, clear)
  <2> DEFINE at == console.at
             n == K.ms[at.m].fs
             nodes == [p \in DOMAIN K.fs[n].nodes \ {at.p} |-> K.fs[n].nodes[p]]
             removed == [K EXCEPT !.fs[n].nodes = nodes]
             refused == Failed(K, "EROFS")
             other == Failed(K, console.err)
  <2>1. SameMounts(K, removed)
    <3> DEFINE fs == [K.fs EXCEPT ![n].nodes = nodes]
    <3>1. removed = [K EXCEPT !.fs = fs]
      <4>. HIDE DEF n, nodes
      <4>. QED BY <1>2 DEF KernelOK
    <3>. HIDE DEF removed, fs
    <3>. QED BY <1>2, <3>1, FilesSame
  <2>2. SameMounts(K, K) /\ SameMounts(K, refused)
    BY <1>2, FailedSame DEF SameMounts
  <2>3. SameMounts(K, other)
    <3>1. console.err # "pivot_root"
      BY <1>2, LookupError
    <3>. HIDE DEF console
    <3>. QED BY <1>2, <3>1, FailedSame
  <2>4. RemoveLink(K, at) = IF "ro" \in K.ms[at.m].flags THEN refused ELSE removed
    BY DEF RemoveLink
  <2>5. clear = RemoveLink(K, at) \/ clear = K \/ clear = other
    BY DEF ClearConsole
  <2>. HIDE DEF clear, removed, refused, other, at
  <2>. QED BY <2>1, <2>2, <2>3, <2>4, <2>5
<1>4. Keeps(K, clear, G, F)
  BY ClearConsoleKeeps
<1>. HIDE DEF clear
<1>5. Ready(clear, G, F) /\ KernelOK(clear, G, F) /\ slave.at \in Places(clear.ms)
  BY <1>4, StillReady DEF Keeps, Holds, Ready
<1>6. Keeps(clear, made, G, F) /\ SameMounts(clear, made)
  BY <1>2, <1>5, EnsureKeeps, EnsureSame DEF Ready
<1>7. SameMounts(clear, failed)
  BY <1>5, FailedSame
<1>. HIDE DEF made, failed
<1>8. KernelOK(made, G, F) /\ slave.at \in Places(made.ms)
  BY <1>5, <1>6 DEF Keeps, Holds
<1>9. Good(clear)
  BY <1>1, <1>3
<1>10. Good(made)
  BY <1>1, <1>6, <1>9
<1>11. Good(done)
  <2>1. done.err # "pivot_root"
    BY <1>8, <1>10, ConsoleErr
  <2>2. ASSUME Rooted(K, h, procRoot) PROVE Rooted(done, h, procRoot)
    <3>1. Rooted(made, h, procRoot) /\ made.err # "pivot_root"
      BY <1>10, <2>2
    <3>. QED BY <1>2, <1>8, <3>1, ConsoleBound
  <2>. HIDE DEF done
  <2>. QED BY <2>1, <2>2
<1>12. Good(failed)
  BY <1>1, <1>7, <1>9
<1>13. L = clear \/ L = failed \/ L = made \/ L = done
  BY DEF BindSlave, BindConsoleMade, made, failed
<1>. HIDE DEF L, done
<1>. QED BY <1>9, <1>10, <1>11, <1>12, <1>13 DEF L, clear

(* The configurations pivot_root is promised for, and the mounts their     *)
(* namespace was made with.                                                *)
Asked ==
  /\ cfg.mountNs /\ cfg.mounts # <<>>
  /\ \A k \in DOMAIN cfg.mounts : KeepsRootPrivate(cfg.mounts[k])
  /\ <<>> \notin Range(cfg.masked)

Host == HostKernel(setup).ms

LEMMA HostMade ==
  ASSUME MountInv
  PROVE  Made(Host) /\ HostKernel(setup).err = "none"
<1> DEFINE host == HostKernel(setup)
<1>1. /\ KernelOK(host, {"host", "private"}, Attributes)
      /\ host.ms # <<>> /\ Ordered(host.ms) /\ host.err = "none"
  BY HostAssumption DEF MountInv
<1>. HIDE DEF host
<1>2. \A k \in DOMAIN host.ms : host.ms[k].flags \subseteq Attributes
  BY <1>1, KernelTable, TableShape
<1>3. {"host", "private"} \subseteq Groups
  BY DEF Groups
<1>4. KernelOK(host, Groups, Attributes)
  BY <1>1, <1>2, <1>3, Widen
<1>. QED BY <1>1, <1>4, KernelTable DEF Made, Host, host

(* Until the pivot the rootfs is bound and the stack on it private; then   *)
(* only what hangs below the new root is left.                             *)
Working ==
  {"mounts", "masked", "readonly", "devices", "ptmx", "symlinks", "finalize", "pivot"}

PivotInv ==
  Asked =>
    /\ kern.err # "pivot_root"
    /\ pc \in {"propagation", "rebind"} => rootfd = Top(Host, AtRootfs)
    /\ pc = "rebind" =>
         Kept(Host, kern.ms) /\ DOMAIN kern.ms = DOMAIN Host /\ ~Shared(kern.ms[rootfd.m])
    /\ pc \in Working => Sound(kern, Host, rootfd)
    /\ pc \in {"console", "mounted"} /\ ~setup.initramfs =>
         Table(kern.ms, Groups, Attributes) /\ Rooted(kern, Host, procRoot)

LEMMA AskedFixed ==
  ASSUME setup' = setup
  PROVE  Asked' = Asked /\ Host' = Host /\ (setup.initramfs)' = setup.initramfs
BY DEF Asked, Host, cfg

LEMMA SafeStep ==
  ASSUME setup' = setup, rootfd' = rootfd, Asked => Safe(kern', Host),
         pc' \in Working \cup {"failed"}, pc' # "failed" => Fine(kern')
  PROVE  PivotInv'
<1>1. Asked' = Asked /\ Host' = Host
  BY AskedFixed
<1>. QED BY <1>1 DEF PivotInv, Safe, Working

LEMMA NowGoing ==
  ASSUME MountInv, PivotInv, Asked, pc \in Working \ {"pivot"}
  PROVE  Going(kern, Host, GroupsNow, FlagsNow) /\ Ready(kern, GroupsNow, FlagsNow)
BY HostMade, NowReady DEF Going, PivotInv, Working, Middle, Early

LEMMA TookSafe ==
  ASSUME setup' = setup, rootfd' = rootfd, pc \in Working, NEW done, Asked => Safe(done.kern, Host),
         NEW list, NEW next \in Working, Took(done, list, next)
  PROVE  PivotInv'
<1>1. kern' = done.kern
  BY DEF Took
<1>2. pc' \in Working \cup {"failed"} /\ (pc' # "failed" => Fine(kern'))
  <2>1. CASE Fine(kern')
    BY <1>1, <2>1 DEF Took, Advance
  <2>2. CASE ~Fine(kern')
    BY <1>1, <2>2 DEF Took
  <2>. QED BY <2>1, <2>2
<1>. QED BY <1>1, <1>2, SafeStep

(* The same where the root may have been opened again.                     *)
LEMMA TookReopened ==
  ASSUME Asked, setup' = setup, pc \in Working, NEW G, NEW F, Going(kern, Host, G, F), NEW done,
         Safe(done.kern, Host), KernelOK(done.kern, G, F),
         NEW list, NEW next \in Working, Took(done, list, next),
         rootfd' = rootfd \/ rootfd' = ByPath(kern', rootfd)
  PROVE  PivotInv'
<1>1. kern' = done.kern
  BY DEF Took
<1>2. CASE rootfd' = rootfd
  BY <1>1, <1>2, TookSafe
<1>3. CASE rootfd' = ByPath(kern', rootfd)
  <2>1. Fine(kern') => Sound(kern', Host, rootfd')
    <3>. SUFFICES ASSUME Fine(kern') PROVE Sound(kern', Host, rootfd')
      OBVIOUS
    <3>1. Sound(kern', Host, rootfd) /\ KernelOK(kern', G, F) /\ procRoot = HostRoot /\ Made(Host)
      BY <1>1 DEF Safe, Going
    <3>2. /\ Table(kern'.ms, G, F) /\ Grown(kern'.ms, Host) /\ rootfd \in Places(kern'.ms)
          /\ OnStack(kern'.ms, RootStack(kern'.ms, Host), rootfd)
      BY <3>1, KernelTable DEF Sound, SoundBut
    <3>3. ByPath(kern', rootfd) = Top(kern'.ms, AtRootfs)
      BY <3>1, <3>2, ByPathStack
    <3>. QED BY <1>3, <3>1, <3>3, ReopenedSound
  <2>2. kern'.err # "pivot_root"
    BY <1>1 DEF Safe
  <2>3. pc' \in Working \cup {"failed"} /\ (pc' # "failed" => Fine(kern'))
    <3>1. CASE Fine(kern')
      BY <1>1, <3>1 DEF Took, Advance, Working
    <3>2. CASE ~Fine(kern')
      BY <1>1, <3>2 DEF Took
    <3>. QED BY <3>1, <3>2
  <2>. QED BY <2>1, <2>2, <2>3, AskedFixed DEF PivotInv, Working
<1>. QED BY <1>2, <1>3

LEMMA PivotInvInit == MountInit => PivotInv
<1>. SUFFICES ASSUME MountInit PROVE PivotInv
  OBVIOUS
<1>1. pc = "start" /\ MountInv /\ kern = HostKernel(setup)
  BY MountInvInit DEF MountInit
<1>. QED BY <1>1, HostMade DEF PivotInv, Working

LEMMA OpenRootPivot == MountInv /\ PivotInv /\ OpenRoot => PivotInv'
<1>. SUFFICES ASSUME MountInv, PivotInv, OpenRoot PROVE PivotInv'
  OBVIOUS
<1>. SUFFICES ASSUME Asked PROVE PivotInv'
  <2>1. Asked' = Asked
    BY AskedFixed DEF OpenRoot
  <2>. QED BY <2>1 DEF PivotInv
<1>1. /\ UNCHANGED <<setup, kern>> /\ pc = "start" /\ pc' = "propagation"
      /\ rootfd' = Lookup(kern, procRoot, RootfsPath).at
  BY DEF OpenRoot, Asked
<1>2. kern = HostKernel(setup) /\ procRoot = HostRoot /\ Made(Host)
  BY <1>1, HostMade DEF MountInv, Over
<1>3. rootfd' = Top(Host, AtRootfs)
  BY <1>1, <1>2, RootLookup DEF Made, Host
<1>. QED BY <1>1, <1>3, AskedFixed DEF PivotInv, Working

LEMMA RootPropagationPivot == MountInv /\ PivotInv /\ RootPropagation => PivotInv'
<1>. SUFFICES ASSUME MountInv, PivotInv, RootPropagation PROVE PivotInv'
  OBVIOUS
<1>. SUFFICES ASSUME Asked PROVE PivotInv'
  <2>1. Asked' = Asked
    BY AskedFixed DEF RootPropagation
  <2>. QED BY <2>1 DEF PivotInv
<1> DEFINE prop == IF cfg.rootProp = NoProp THEN Private(TRUE) ELSE cfg.rootProp
           made == DoPropagation(kern, procRoot, prop)
           G == GroupsNow
           F == FlagsNow
<1>1. /\ pc = "propagation" /\ Ready(kern, G, F) /\ Fine(kern) /\ procRoot = HostRoot
      /\ kern = HostKernel(setup) /\ Made(Host) /\ rootfd = Top(Host, AtRootfs)
  BY HostMade DEF MountInv, PivotInv, RootPropagation, Over
<1>2. /\ setup' = setup /\ rootfd' = rootfd /\ kern' = MakeRootfsPrivate(made)
      /\ pc' \in {"rebind", "failed"}
  BY DEF RootPropagation, After
<1>. HIDE DEF prop, G, F
<1>3. KernelOK(made, G, F)
  BY <1>1, DoPropagationKeeps DEF Ready, Keeps, Holds
<1>4. Kept(Host, made.ms) /\ DOMAIN made.ms = DOMAIN Host /\ made.err \in {"none", "EINVAL"}
  <2> DEFINE L == SetPropagation(kern, ByPath(kern, procRoot), prop)
  <2>1. /\ DOMAIN L.ms = DOMAIN kern.ms /\ Kept(kern.ms, L.ms)
        /\ L.err = kern.err \/ L.err = "EINVAL"
    BY <1>1, SetRows DEF Ready
  <2>2. Kept(kern.ms, kern.ms)
    BY DEF Kept
  <2>3. made = kern \/ made = L
    BY DEF DoPropagation
  <2>4. kern.ms = Host /\ kern.err = "none"
    BY <1>1, HostMade DEF Host
  <2>. HIDE DEF L, made
  <2>. QED BY <2>1, <2>2, <2>3, <2>4
<1>. HIDE DEF made
<1>5. /\ Kept(Host, kern'.ms) /\ DOMAIN kern'.ms = DOMAIN Host /\ kern'.err = made.err
      /\ ~Shared(kern'.ms[Top(Host, AtRootfs).m])
  BY <1>1, <1>2, <1>3, <1>4, MadePrivate
<1>. QED BY <1>1, <1>2, <1>4, <1>5, AskedFixed DEF PivotInv, Working

LEMMA RebindPivot == MountInv /\ PivotInv /\ Rebind => PivotInv'
<1>. SUFFICES ASSUME MountInv, PivotInv, Rebind PROVE PivotInv'
  OBVIOUS
<1>. SUFFICES ASSUME Asked PROVE PivotInv'
  <2>1. Asked' = Asked
    BY AskedFixed DEF Rebind
  <2>. QED BY <2>1 DEF PivotInv
<1>1. /\ pc = "rebind" /\ Ready(kern, GroupsNow, FlagsNow) /\ procRoot = HostRoot /\ Made(Host)
  BY HostMade, NowReady DEF Rebind, Middle, Early
<1>2. /\ Kept(Host, kern.ms) /\ DOMAIN kern.ms = DOMAIN Host /\ rootfd = Top(Host, AtRootfs)
      /\ ~Shared(kern.ms[rootfd.m]) /\ kern.err # "pivot_root"
  BY <1>1 DEF PivotInv
<1>3. /\ kern' = DoMount(kern, RebindMount).kern
      /\ rootfd' = Lookup(kern', HostRoot, RootfsPath).at
      /\ pc' = After(kern', "mounts") /\ setup' = setup
  BY <1>1 DEF Rebind
<1>4. /\ kern'.err # "pivot_root"
      /\ Fine(kern') => Sound(kern', Host, rootfd')
  BY <1>1, <1>2, <1>3, RebindSafe
<1>5. pc' = "failed" \/ (pc' = "mounts" /\ Fine(kern'))
  BY <1>3 DEF After
<1>. QED BY <1>3, <1>4, <1>5, AskedFixed DEF PivotInv, Working

LEMMA MountPivot == MountInv /\ PivotInv /\ Mount => PivotInv'
<1>. SUFFICES ASSUME MountInv, PivotInv, Mount PROVE PivotInv'
  OBVIOUS
<1>. SUFFICES ASSUME Asked PROVE PivotInv'
  <2>1. Asked' = Asked
    BY AskedFixed DEF Mount
  <2>. QED BY <2>1 DEF PivotInv
<1> DEFINE mount == cfg.mounts[i]
           done == IF mount.symlink THEN Only(CopySymlink(kern, mount)) ELSE DoMount(kern, mount)
           G == GroupsNow
           F == FlagsNow
<1>1. pc = "mounts" /\ Going(kern, Host, G, F) /\ Ready(kern, G, F) /\ i \in Nat \ {0}
  BY NowGoing, NowReady DEF Mount, ReadyFor, Working, Middle, Early
<1>2. mount \in ConfigMounts /\ i \in DOMAIN cfg.mounts
  <2>1. cfg.mounts \in Seq(ConfigMounts) /\ i \in 1..Len(cfg.mounts)
    BY <1>1, SetupFits, LenProperties DEF Mount, ReadyFor
  <2>. QED BY <2>1, LenProperties
<1>3. MountFits(mount, F) /\ KeepsRootPrivate(mount)
  <2>1. NoneReadOnly => IsBind(mount) \/ "ro" \notin mount.flags
    BY <1>2 DEF NoneReadOnly
  <2>2. KeepsRootPrivate(mount)
    BY <1>2 DEF Asked
  <2>. HIDE DEF mount
  <2>. QED BY <1>2, <2>1, <2>2 DEF MountFits, ConfigMounts, FlagsNow
<1>. HIDE DEF G, F
<1>4. Safe(done.kern, Host) /\ KernelOK(done.kern, G, F)
  <2>. HIDE DEF mount
  <2>1. Safe(CopySymlink(kern, mount), Host) /\ Safe(DoMount(kern, mount).kern, Host)
    BY <1>1, <1>3, CopySymlinkSafe, DoMountSafe DEF MountFits
  <2>2. Keeps(kern, CopySymlink(kern, mount), G, F) /\ Keeps(kern, DoMount(kern, mount).kern, G, F)
    BY <1>1, <1>3, CopySymlinkKeeps, DoMountDid DEF MountFits, Did
  <2>. QED BY <2>1, <2>2 DEF Only, Keeps, Holds
<1>5. Took(done, cfg.mounts, "masked") /\ setup' = setup /\ NotedIf(Real(mount), mount)
  BY DEF Mount
<1>6. rootfd' = rootfd \/ rootfd' = ByPath(kern', rootfd)
  <2>. HIDE DEF mount, done
  <2>. QED BY <1>5, NotedRoot
<1>. HIDE DEF done
<1>. QED BY <1>1, <1>4, <1>5, <1>6, TookReopened DEF Working

LEMMA MaskPathPivot == MountInv /\ PivotInv /\ MaskPath => PivotInv'
<1>. SUFFICES ASSUME MountInv, PivotInv, MaskPath PROVE PivotInv'
  OBVIOUS
<1> DEFINE path == cfg.masked[i]
           done == Mask(kern, path, Lookup(kern, rootfd, path))
<1>1. pc = "masked" /\ i \in Nat \ {0}
  BY NowReady DEF MaskPath, ReadyFor, Middle, Early
<1>2. path \in Paths /\ cfg.masked # <<>> /\ path \in Range(cfg.masked)
  <2>1. cfg.masked \in Seq(Paths) /\ i \in 1..Len(cfg.masked)
    BY <1>1, SetupFits, LenProperties DEF MaskPath, ReadyFor
  <2>. QED BY <2>1, LenProperties, EmptySeq DEF Range
<1>3. FlagsNow = Attributes
  BY <1>2 DEF FlagsNow, NoneReadOnly
<1>. SUFFICES ASSUME Asked PROVE PivotInv'
  <2>1. Asked' = Asked
    BY AskedFixed DEF MaskPath
  <2>. QED BY <2>1 DEF PivotInv
<1>4. Asked => Safe(done.kern, Host)
  <2>. SUFFICES ASSUME Asked PROVE Safe(done.kern, Host)
    OBVIOUS
  <2>1. Going(kern, Host, GroupsNow, Attributes)
    BY <1>1, <1>3, NowGoing DEF Working
  <2>2. path # <<>>
    BY <1>2 DEF Asked
  <2>. HIDE DEF path
  <2>. QED BY <1>2, <2>1, <2>2, MaskSafe
<1>5. Took(done, cfg.masked, "readonly") /\ setup' = setup /\ rootfd' = rootfd
  <2>1. path # <<>>
    BY <1>2 DEF Asked
  <2>2. MaskMount(path, IsDir(kern, Lookup(kern, rootfd, path).at)).dest = path
    BY DEF MaskMount
  <2>. QED BY <2>1, <2>2, NotedRoot DEF MaskPath
<1>. HIDE DEF done
<1>. QED BY <1>1, <1>4, <1>5, TookSafe DEF Working

LEMMA ReadonlyPathPivot == MountInv /\ PivotInv /\ ReadonlyPath => PivotInv'
<1>. SUFFICES ASSUME MountInv, PivotInv, ReadonlyPath PROVE PivotInv'
  OBVIOUS
<1> DEFINE path == cfg.readonly[i]
           done == MakeReadonly(kern, path, Lookup(kern, rootfd, path))
<1>1. pc = "readonly" /\ i \in Nat \ {0}
  BY NowReady DEF ReadonlyPath, ReadyFor, Middle, Early
<1>2. path \in Paths
  <2>1. cfg.readonly \in Seq(Paths) /\ i \in 1..Len(cfg.readonly)
    BY <1>1, SetupFits, LenProperties DEF ReadonlyPath, ReadyFor
  <2>. QED BY <2>1, LenProperties
<1>. SUFFICES ASSUME Asked PROVE PivotInv'
  <2>1. Asked' = Asked
    BY AskedFixed DEF ReadonlyPath
  <2>. QED BY <2>1 DEF PivotInv
<1>3. /\ Going(kern, Host, GroupsNow, FlagsNow) /\ Safe(done.kern, Host)
      /\ KernelOK(done.kern, GroupsNow, FlagsNow)
  <2>. HIDE DEF path
  <2>1. Going(kern, Host, GroupsNow, FlagsNow) /\ Ready(kern, GroupsNow, FlagsNow)
    BY <1>1, NowGoing DEF Working
  <2>2. Did(kern, done, GroupsNow, FlagsNow)
    BY <1>2, <2>1, MakeReadonlyDid
  <2>. QED BY <1>2, <2>1, <2>2, MakeReadonlySafe DEF Did, Keeps, Holds
<1>4. /\ Took(done, cfg.readonly, "devices") /\ setup' = setup
      /\ rootfd' = rootfd \/ rootfd' = ByPath(kern', rootfd)
  BY NotedRoot DEF ReadonlyPath
<1>. HIDE DEF done
<1>. QED BY <1>1, <1>3, <1>4, TookReopened DEF Working

LEMMA SkipPivot ==
  ASSUME MountInv, PivotInv, NEW part \in Working, NEW list, NEW next \in Working,
         Skip(part, list, next)
  PROVE  PivotInv'
<1>1. kern' = kern /\ pc = part /\ pc' = next /\ setup' = setup /\ rootfd' = rootfd
  BY DEF Skip
<1>. QED BY <1>1, AskedFixed DEF PivotInv, Working

LEMMA CreateDevicesPivot == MountInv /\ PivotInv /\ CreateDevices => PivotInv'
<1>. SUFFICES ASSUME MountInv, PivotInv, CreateDevices PROVE PivotInv'
  OBVIOUS
<1>1. pc = "devices" /\ i \in Nat \ {0}
  BY NowReady DEF CreateDevices, ReadyFor, Middle, Early
<1>2. Devices[i] \in Names
  <2>1. i \in 1..Len(Devices)
    BY <1>1, DevicesAssumption, LenProperties DEF CreateDevices, ReadyFor
  <2>. QED BY <2>1, DevicesAssumption, LenProperties
<1>3. Asked => Safe(kern', Host)
  <2>. SUFFICES ASSUME Asked PROVE Safe(kern', Host)
    OBVIOUS
  <2>1. Going(kern, Host, GroupsNow, FlagsNow)
    BY <1>1, NowGoing DEF Working
  <2>2. Safe(CreateDevice(kern, Devices[i]), Host)
    BY <1>2, <2>1, CreateDeviceSafe
  <2>3. Safe(kern, Host)
    BY <2>1, NearSafe DEF Going
  <2>. QED BY <2>2, <2>3 DEF CreateDevices
<1>4. pc' \in {"devices", "ptmx", "failed"} /\ (pc' # "failed" => Fine(kern'))
  <2>1. CASE Fine(kern')
    BY <1>1, <2>1 DEF CreateDevices, Advance
  <2>2. CASE ~Fine(kern')
    BY <2>2 DEF CreateDevices
  <2>. QED BY <2>1, <2>2
<1>5. setup' = setup /\ rootfd' = rootfd
  BY DEF CreateDevices
<1>. QED BY <1>3, <1>4, <1>5, SafeStep DEF Working

LEMMA EnsurePtmxPivot == MountInv /\ PivotInv /\ EnsurePtmx => PivotInv'
<1>. SUFFICES ASSUME MountInv, PivotInv, EnsurePtmx PROVE PivotInv'
  OBVIOUS
<1>1. Asked => Safe(kern', Host)
  <2>. SUFFICES ASSUME Asked PROVE Safe(kern', Host)
    OBVIOUS
  <2>1. Going(kern, Host, GroupsNow, FlagsNow)
    BY NowGoing DEF Working, EnsurePtmx
  <2>2. Safe(Ptmx(kern, Lookup(kern, rootfd, PtmxPath)), Host)
    BY <2>1, PtmxSafe
  <2>3. Safe(kern, Host)
    BY <2>1, NearSafe DEF Going
  <2>. QED BY <2>2, <2>3 DEF EnsurePtmx
<1>2. /\ setup' = setup /\ rootfd' = rootfd
      /\ pc' = "failed" \/ (pc' = "symlinks" /\ Fine(kern'))
  BY DEF EnsurePtmx, After
<1>. QED BY <1>1, <1>2, SafeStep DEF Working

LEMMA DevSymlinksPivot == MountInv /\ PivotInv /\ DevSymlinks => PivotInv'
<1>. SUFFICES ASSUME MountInv, PivotInv, DevSymlinks PROVE PivotInv'
  OBVIOUS
<1>1. Asked => Safe(kern', Host)
  <2>. SUFFICES ASSUME Asked PROVE Safe(kern', Host)
    OBVIOUS
  <2> DEFINE made == Create(kern, rootfd, <<"dev", "fd">>, "link")
  <2>1. Going(kern, Host, GroupsNow, FlagsNow) /\ KernelOK(kern, GroupsNow, FlagsNow)
    BY NowGoing DEF Working, DevSymlinks, Ready
  <2>2. SameMounts(kern, made)
    BY <2>1, CreateSame
  <2>3. Safe(kern, Host)
    BY <2>1, NearSafe DEF Going
  <2>4. kern' = kern \/ kern' = made
    BY DEF DevSymlinks
  <2>. HIDE DEF made
  <2>. QED BY <2>1, <2>2, <2>3, <2>4, SameSafe
<1>2. /\ setup' = setup /\ rootfd' = rootfd
      /\ pc' = "failed" \/ (pc' = "finalize" /\ Fine(kern'))
  BY DEF DevSymlinks, After
<1>. QED BY <1>1, <1>2, SafeStep DEF Working

LEMMA FinalizeRemountPivot == MountInv /\ PivotInv /\ FinalizeRemount => PivotInv'
<1>. SUFFICES ASSUME MountInv, PivotInv, FinalizeRemount PROVE PivotInv'
  OBVIOUS
<1> DEFINE k == Len(remounts) + 1 - i
           r == remounts[k]
<1>1. /\ pc = "finalize" /\ Ready(kern, GroupsNow, FlagsNow) /\ i \in Nat \ {0}
      /\ remounts \in Seq(Remounts(kern.ms))
  BY NowReady DEF FinalizeRemount, ReadyFor, Middle, Early
<1>2. FlagsNow = Attributes
  BY <1>1 DEF FlagsNow, Early
<1>3. r \in Remounts(kern.ms)
  <2>1. k \in 1..Len(remounts)
    BY <1>1, LenProperties DEF FinalizeRemount, ReadyFor
  <2>. HIDE DEF k
  <2>. QED BY <1>1, <2>1, LenProperties
<1>4. kern' = DoRemount(kern, r)
  BY DEF FinalizeRemount
<1>. HIDE DEF r
<1>5. Asked => Safe(kern', Host)
  <2>. SUFFICES ASSUME Asked PROVE Safe(kern', Host)
    OBVIOUS
  <2>1. r.fd \in Places(kern.ms) /\ r.flags \cap Attributes \subseteq FlagsNow
    BY <1>2, <1>3 DEF Remounts
  <2>2. Made(Host) /\ Sound(kern, Host, rootfd)
    BY <1>1, HostMade DEF PivotInv, Working
  <2>3. Sound(kern', Host, rootfd)
    BY <1>1, <1>4, <2>1, <2>2, DoRemountSound
  <2>. QED BY <2>3, NearSafe
<1>6. pc' \in {"finalize", "pivot", "failed"} /\ (pc' # "failed" => Fine(kern'))
  <2>1. CASE Fine(kern')
    BY <1>1, <2>1 DEF FinalizeRemount, Advance
  <2>2. CASE ~Fine(kern')
    BY <2>2 DEF FinalizeRemount
  <2>. QED BY <2>1, <2>2
<1>7. setup' = setup /\ rootfd' = rootfd
  BY DEF FinalizeRemount
<1>. QED BY <1>5, <1>6, <1>7, SafeStep DEF Working

(* The groups and flags a kernel has are among those there are.            *)
LEMMA WholeTable ==
  ASSUME NEW G, NEW F, Allowed(G, F), NEW K, KernelOK(K, G, F)
  PROVE  Table(K.ms, Groups, Attributes)
<1>1. \A k \in DOMAIN K.ms : K.ms[k].flags \subseteq Attributes
  BY KernelTable, TableShape DEF Allowed
<1>2. KernelOK(K, Groups, Attributes)
  BY <1>1, Widen DEF Allowed
<1>. QED BY <1>2, KernelTable

LEMMA PivotPivot == MountInv /\ PivotInv /\ Pivot => PivotInv'
<1>. SUFFICES ASSUME MountInv, PivotInv, Pivot PROVE PivotInv'
  OBVIOUS
<1>. SUFFICES ASSUME Asked PROVE PivotInv'
  <2>1. Asked' = Asked
    BY AskedFixed DEF Pivot
  <2>. QED BY <2>1 DEF PivotInv
<1> DEFINE new == Lookup(kern, procRoot, RootfsPath).at
           left == LeaveOldRoot(PivotRoot(kern, procRoot, new), procRoot)
           restored == SetPropagation(left, new, savedProp)
           moved == MoveMount(kern, new, procRoot)
           G == GroupsNow
           F == FlagsNow
<1>1. /\ pc = "pivot" /\ Ready(kern, G, F) /\ Fine(kern) /\ procRoot = HostRoot
      /\ Sound(kern, Host, rootfd) /\ Made(Host)
  BY HostMade DEF MountInv, PivotInv, Pivot, Over, Working
<1>2. KernelOK(kern, G, F) /\ Allowed(G, F)
  BY <1>1 DEF Ready
<1>. HIDE DEF G, F
<1>3. new = Top(kern.ms, AtRootfs)
  BY <1>1, <1>2, ReopenedSound
<1>4. /\ setup' = setup
      /\ pc' = After(kern', IF cfg.terminal THEN "console" ELSE "mounted")
      /\ \/ MayPivot(kern, setup.initramfs, new) /\ kern' \in {left, restored} /\ procRoot' = new
         \/ /\ ~MayPivot(kern, setup.initramfs, new)
            /\ MayMove(kern, new) => kern' = moved
  BY DEF Pivot, Asked
<1>. HIDE DEF new
<1>5. /\ MountRoot(kern, new) /\ kern.ms[new.m].par # NoMount /\ ~Shared(kern.ms[new.m])
      /\ ~Shared(kern.ms[kern.ms[new.m].par])
  BY <1>1, <1>2, <1>3, PivotAllowed
<1>6. /\ KernelOK(left, G, F) /\ Rooted(left, Host, new)
      /\ left.err = kern.err \/ left.err = "EINVAL"
  BY <1>1, <1>2, <1>3, LeftRooted
<1>. HIDE DEF left
<1>7. /\ KernelOK(restored, G, F) /\ Rooted(restored, Host, new)
      /\ restored.err = left.err \/ restored.err = "EINVAL"
  <2>1. /\ DOMAIN restored.ms = DOMAIN left.ms /\ Kept(left.ms, restored.ms)
        /\ restored.err = left.err \/ restored.err = "EINVAL"
    BY <1>6, SetRows
  <2>2. KernelOK(restored, G, F)
    BY <1>2, <1>6, SetPropagationKeeps DEF Keeps, Holds
  <2>3. Table(left.ms, G, F)
    BY <1>6, KernelTable
  <2>. HIDE DEF restored
  <2>. QED BY <1>6, <2>1, <2>2, <2>3, RootedKept
<1>8. moved.err = kern.err
  BY <1>2 DEF MoveMount, MoveOnto, KernelOK
<1>. HIDE DEF restored, moved
<1>9. pc' \notin Working \cup {"propagation", "rebind"}
  BY <1>4 DEF After, Working
<1>10. CASE MayPivot(kern, setup.initramfs, new)
  <2>1. /\ KernelOK(kern', G, F) /\ Rooted(kern', Host, procRoot') /\ kern'.err # "pivot_root"
    BY <1>1, <1>4, <1>6, <1>7, <1>10 DEF Fine
  <2>2. Table(kern'.ms, Groups, Attributes)
    BY <1>2, <2>1, WholeTable
  <2>. QED BY <1>4, <1>9, <2>1, <2>2, AskedFixed DEF PivotInv
<1>11. CASE ~MayPivot(kern, setup.initramfs, new)
  <2>1. setup.initramfs
    BY <1>5, <1>11 DEF MayPivot
  <2>2. kern' = moved
    BY <1>4, <1>5, <1>11 DEF MayMove
  <2>. QED BY <1>1, <1>4, <1>8, <1>9, <2>1, <2>2, AskedFixed DEF PivotInv, Fine
<1>. QED BY <1>10, <1>11

LEMMA BindConsolePivot == MountInv /\ PivotInv /\ BindConsole => PivotInv'
<1>. SUFFICES ASSUME MountInv, PivotInv, BindConsole PROVE PivotInv'
  OBVIOUS
<1>. SUFFICES ASSUME Asked PROVE PivotInv'
  <2>1. Asked' = Asked
    BY AskedFixed DEF BindConsole
  <2>. QED BY <2>1 DEF PivotInv
<1> DEFINE console == Lookup(kern, procRoot, ConsolePath)
           clear == ClearConsole(kern, console)
           slave == Lookup(kern, procRoot, <<"dev", "pts", "0">>)
           G == GroupsNow
           F == FlagsNow
<1>1. pc = "console" /\ Ready(kern, G, F) /\ Fine(kern) /\ Made(Host)
  BY HostMade DEF MountInv, BindConsole, Over
<1>2. /\ setup' = setup /\ procRoot' = procRoot /\ kern' = BindSlave(clear, slave)
      /\ pc' \in {"mounted", "failed"}
  BY DEF BindConsole, After
<1>. HIDE DEF G, F
<1>3. slave.at \in Places(kern.ms)
  BY <1>1, NamedPaths, OpenedPlace
<1>4. KernelOK(kern', G, F) /\ Allowed(G, F)
  <2>1. Keeps(kern, clear, G, F)
    BY <1>1, ClearConsoleKeeps
  <2>. HIDE DEF clear, slave
  <2>2. Ready(clear, G, F) /\ slave.at \in Places(clear.ms)
    BY <1>1, <1>3, <2>1, StillReady DEF Keeps, Holds
  <2>3. Keeps(clear, kern', G, F)
    BY <1>2, <2>2, BindSlaveKeeps
  <2>. QED BY <1>1, <2>3 DEF Keeps, Holds, Ready
<1>. HIDE DEF slave
<1>6. kern'.err # "pivot_root" /\ (~setup.initramfs => Rooted(kern', Host, procRoot))
  BY <1>1, <1>2, <1>3, ConsoleRooted DEF PivotInv
<1>7. Table(kern'.ms, Groups, Attributes)
  BY <1>4, WholeTable
<1>. QED BY <1>2, <1>6, <1>7, AskedFixed DEF PivotInv, Working

LEMMA PivotInvNext == MountInv /\ PivotInv /\ [MountNext]_mountVars => PivotInv'
<1>. SUFFICES ASSUME MountInv, PivotInv, [MountNext]_mountVars PROVE PivotInv'
  OBVIOUS
<1>1. CASE OpenRoot
  BY <1>1, OpenRootPivot
<1>2. CASE RootPropagation
  BY <1>2, RootPropagationPivot
<1>3. CASE Rebind
  BY <1>3, RebindPivot
<1>4. CASE Mount
  BY <1>4, MountPivot
<1>5. CASE MaskPath
  BY <1>5, MaskPathPivot
<1>6. CASE Skip("masked", cfg.masked, "readonly")
  BY <1>6, SkipPivot DEF Working
<1>7. CASE ReadonlyPath
  BY <1>7, ReadonlyPathPivot
<1>8. CASE Skip("readonly", cfg.readonly, "devices")
  BY <1>8, SkipPivot DEF Working
<1>9. CASE CreateDevices
  BY <1>9, CreateDevicesPivot
<1>10. CASE EnsurePtmx
  BY <1>10, EnsurePtmxPivot
<1>11. CASE DevSymlinks
  BY <1>11, DevSymlinksPivot
<1>12. CASE FinalizeRemount
  BY <1>12, FinalizeRemountPivot
<1>13. CASE Skip("finalize", remounts, "pivot")
  BY <1>13, SkipPivot DEF Working
<1>14. CASE Pivot
  BY <1>14, PivotPivot
<1>15. CASE BindConsole
  BY <1>15, BindConsolePivot
<1>16. CASE UNCHANGED mountVars
  BY <1>16, AskedFixed DEF PivotInv, mountVars
<1>. QED BY <1>1, <1>2, <1>3, <1>4, <1>5, <1>6, <1>7, <1>8, <1>9, <1>10, <1>11, <1>12, <1>13,
            <1>14, <1>15, <1>16 DEF MountNext

LEMMA PivotInvAlways == MountSpec => []PivotInv
BY MountInvAlways, PivotInvInit, PivotInvNext, PTL DEF MountSpec

(* Whatever propagation is configured for the rootfs and whether or not it *)
(* was a mount point, pivot_root is not refused, and none of the mounts the*)
(* namespace was made with is left when the process starts: all there are  *)
(* were made for the container, and hang below its root, if no mount of    *)
(* the configuration puts a shared one on "/" and "/" is not masked        *)
(* (make_rootfs_private and do_pivot_root, container.cpp:664 and 1236).    *)
THEOREM PivotLeavesHostBehind == MountSpec => []((<<>> \notin Range(cfg.masked)) => PivotComplete)
<1>1. MountInv /\ PivotInv => ((<<>> \notin Range(cfg.masked)) => PivotComplete)
  <2>. SUFFICES ASSUME MountInv, PivotInv, Asked PROVE PivotComplete
    BY DEF Asked, PivotComplete
  <2>1. kern.err # "pivot_root"
    BY DEF PivotInv
  <2>2. ASSUME SetUp, ~setup.initramfs, NEW k \in DOMAIN kern.ms, kern.ms[k].live
        PROVE  /\ k \notin DOMAIN HostKernel(setup).ms
               /\ k = procRoot.m \/ k \in Below(kern.ms, procRoot)
    <3>1. Table(kern.ms, Groups, Attributes) /\ Rooted(kern, Host, procRoot)
      BY <2>2 DEF PivotInv, SetUp
    <3>2. k > Len(Host) /\ (k = procRoot.m \/ k \in Below(kern.ms, procRoot))
      BY <2>2, <3>1, RootedBelow
    <3>3. DOMAIN Host = 1..Len(Host) /\ Len(Host) \in Nat
      BY HostMade, AtRootfsPlace
    <3>. QED BY <3>2, <3>3 DEF Host
  <2>. QED BY <2>1, <2>2 DEF PivotComplete
<1>. QED BY <1>1, MountInvAlways, PivotInvAlways, PTL

=============================================================================
