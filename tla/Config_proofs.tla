---------------------------- MODULE Config_proofs ----------------------------
(***************************************************************************)
(* Proofs about what is asked of a container: the configuration as it is   *)
(* read (Config), and the credentials its process takes on (Credentials).  *)
(*                                                                         *)
(* The first part is about Config and the options of its mounts, for       *)
(* documents of any shape: the lists that it parses by hand are read as    *)
(* they are written, and what is accepted can be used as it is.            *)
(*                                                                         *)
(* The second is about Credentials, for any capabilities, requests and     *)
(* exit codes of the id map helpers: an identity that can be had is never  *)
(* refused, and the process runs with the ids and the capabilities it was  *)
(* asked to.                                                               *)
(***************************************************************************)
EXTENDS Config, Credentials, SequenceTheorems, FiniteSetTheorems,
        WellFoundedInduction, TLAPS

(* Induction, over a set instead of a predicate.                           *)
LessThan == {r \in Nat \X Nat : r[1] < r[2]}

LEMMA LessThanWellFounded == IsWellFoundedOn(LessThan, Nat)
<1>1. LessThan = OpToRel(<, Nat)
  BY DEF LessThan, OpToRel
<1>. QED BY <1>1, NatLessThanWellFounded

(* A set that has 0 and with a number the next has all numbers.            *)
LEMMA Induction ==
  ASSUME NEW N \in Nat, NEW S, 0 \in S, \A n \in 0..N : n < N /\ n \in S => n + 1 \in S
  PROVE  0..N \subseteq S
<1>. SUFFICES ASSUME (0..N) \ S # {} PROVE FALSE
  OBVIOUS
<1> DEFINE T == (0..N) \ S
<1>1. PICK x \in T : \A y \in T : <<y, x>> \notin LessThan
  <2>1. T \subseteq Nat /\ T # {}
    OBVIOUS
  <2>. HIDE DEF T
  <2>. QED BY <2>1, LessThanWellFounded, WFMin
<1>2. x # 0 /\ x - 1 \in 0..N /\ x - 1 < N /\ x = (x - 1) + 1
  OBVIOUS
<1>3. <<x - 1, x>> \in LessThan
  BY <1>2 DEF LessThan
<1>. QED BY <1>1, <1>2, <1>3

(* There is a function that is defined from its last value.                *)
Follows(f, N, a, g) == f[0] = a /\ \A n \in 1..N : f[n] = g[<<n, f[n - 1]>>]

LEMMA IterationExists ==
  ASSUME NEW N \in Nat, NEW X, NEW a \in X, NEW g \in [(1..N) \X X -> X]
  PROVE  \E f \in [0..N -> X] : Follows(f, N, a, g)
<1> DEFINE S == {m \in 0..N : \E f \in [0..m -> X] : Follows(f, m, a, g)}
<1>1. 0 \in S
  <2>1. [n \in 0..0 |-> a] \in [0..0 -> X] /\ Follows([n \in 0..0 |-> a], 0, a, g)
    BY DEF Follows
  <2>2. 0 \in 0..N
    OBVIOUS
  <2>. QED BY <2>1, <2>2
<1>2. ASSUME NEW m \in 0..N, m < N, m \in S PROVE m + 1 \in S
  <2>1. PICK f \in [0..m -> X] : Follows(f, m, a, g)
    BY <1>2
  <2> DEFINE h == [n \in 0..(m + 1) |-> IF n = m + 1 THEN g[<<m + 1, f[m]>>] ELSE f[n]]
  <2>2. m + 1 \in 1..N /\ m \in 0..m /\ g[<<m + 1, f[m]>>] \in X
    BY <1>2
  <2>3. h \in [0..(m + 1) -> X]
    BY <2>2
  <2>4. h[0] = a
    BY <2>1 DEF Follows
  <2>5. ASSUME NEW n \in 1..(m + 1) PROVE h[n] = g[<<n, h[n - 1]>>]
    <3>1. n - 1 \in 0..m /\ n - 1 # m + 1 /\ h[n - 1] = f[n - 1]
      OBVIOUS
    <3>2. CASE n = m + 1
      <4>1. h[n] = g[<<m + 1, f[m]>>] /\ n - 1 = m
        BY <3>2
      <4>. QED BY <3>1, <3>2, <4>1
    <3>3. CASE n # m + 1
      BY <2>1, <3>1, <3>3 DEF Follows
    <3>. QED BY <3>2, <3>3
  <2>6. Follows(h, m + 1, a, g)
    BY <2>4, <2>5 DEF Follows
  <2>. HIDE DEF h
  <2>. QED BY <2>2, <2>3, <2>6
<1>3. 0..N \subseteq S
  <2>. HIDE DEF S
  <2>. QED BY <1>1, <1>2, Induction
<1>. QED BY <1>3

-----------------------------------------------------------------------------
(* The list of ranges.  A piece begins at a start and ends before the next *)
(* comma, or with the text.                                                *)
EndsAt(text, q, e) ==
  /\ e \in q..(Len(text) + 1)
  /\ \A r \in q..(e - 1) : text[r] # Comma
  /\ e = Len(text) + 1 \/ text[e] = Comma

LEMMA StartsIn ==
  ASSUME NEW text \in Seq(Int)
  PROVE  Starts(text) \subseteq 1..(Len(text) + 1)
BY DEF Starts

LEMMA PieceEnds ==
  ASSUME NEW text \in Seq(Int), NEW q \in 1..Len(text)
  PROVE  \E e : EndsAt(text, q, e) /\ Piece(text, q) = SubSeq(text, q, e - 1)
<1> DEFINE ends == {r \in q..Len(text) : text[r] = Comma} \cup {Len(text) + 1}
           first == CHOOSE r \in ends : \A s \in ends : r <= s
<1>1. ends \subseteq Nat /\ ends # {} /\ Len(text) \in Nat
  OBVIOUS
<1>2. PICK e \in ends : \A s \in ends : <<s, e>> \notin LessThan
  <2>. HIDE DEF ends
  <2>. QED BY <1>1, LessThanWellFounded, WFMin
<1>3. \A s \in ends : e <= s
  <2>. TAKE s \in ends
  <2>1. e \in Nat /\ s \in Nat /\ ~(s < e)
    <3>. HIDE DEF ends
    <3>. QED BY <1>1, <1>2 DEF LessThan
  <2>. QED BY <2>1
<1>4. first \in ends /\ \A s \in ends : first <= s
  <2>. HIDE DEF ends
  <2>. QED BY <1>3
<1>5. Piece(text, q) = SubSeq(text, q, first - 1)
  BY DEF Piece
<1>. HIDE DEF first
<1>6. EndsAt(text, q, first)
  <2>1. first \in q..(Len(text) + 1)
    BY <1>4
  <2>2. first = Len(text) + 1 \/ text[first] = Comma
    BY <1>4
  <2>3. ASSUME NEW r \in q..(first - 1) PROVE text[r] # Comma
    <3>1. r \in q..Len(text) /\ ~(first <= r)
      BY <2>1, <2>3
    <3>. QED BY <1>4, <3>1
  <2>. QED BY <2>1, <2>2, <2>3 DEF EndsAt
<1>. QED BY <1>5, <1>6

(* There is only one such end, and the piece has what is in between.       *)
LEMMA PieceIs ==
  ASSUME NEW text \in Seq(Int), NEW q \in 1..Len(text), NEW e, EndsAt(text, q, e)
  PROVE  /\ Len(Piece(text, q)) = e - q
         /\ \A k \in 1..(e - q) : Piece(text, q)[k] = text[q + k - 1]
<1>1. PICK d : EndsAt(text, q, d) /\ Piece(text, q) = SubSeq(text, q, d - 1)
  BY PieceEnds
<1>2. d \in q..(Len(text) + 1) /\ e \in q..(Len(text) + 1) /\ Len(text) \in Nat
  BY <1>1 DEF EndsAt
<1>3. d = e
  <2>1. ~(d < e)
    <3>. SUFFICES ASSUME d < e PROVE FALSE
      OBVIOUS
    <3>1. d \in q..(e - 1) /\ d # Len(text) + 1
      BY <1>2
    <3>. QED BY <1>1, <3>1 DEF EndsAt
  <2>2. ~(e < d)
    <3>. SUFFICES ASSUME e < d PROVE FALSE
      OBVIOUS
    <3>1. e \in q..(d - 1) /\ e # Len(text) + 1
      BY <1>2
    <3>. QED BY <1>1, <3>1 DEF EndsAt
  <2>. QED BY <1>2, <2>1, <2>2
<1>4. \A k \in q..(e - 1) : text[k] \in Int
  BY <1>2
<1>5. SubSeq(text, q, e - 1) = [k \in 1..((1 + (e - 1)) - q) |-> text[k + q - 1]]
  BY <1>2 DEF SubSeq
<1>. QED BY <1>1, <1>2, <1>3, <1>5

(* An item is a piece: what it takes is a range that ends where the piece  *)
(* does, and what it does not take is none.                                *)
Taken(text, item) == item.ok /\ (item.next \notin DOMAIN text \/ text[item.next] = Comma)

LEMMA ItemTaken ==
  ASSUME NEW text \in Seq(Int), NEW q \in 1..Len(text), Taken(text, Item(text, q))
  PROVE  LET item == Item(text, q)
         IN  /\ EndsAt(text, q, item.next)
             /\ IsRange(Piece(text, q))
             /\ item.from = Piece(text, q)[1]
             /\ item.to \in DOMAIN text
             /\ text[item.to] = Piece(text, q)[Len(Piece(text, q))]
             /\ item.from \in Nat /\ text[item.to] \in Nat /\ item.from <= text[item.to]
<1> DEFINE item == Item(text, q)
           L == Len(text)
<1>1. L \in Nat /\ DOMAIN text = 1..L /\ \A r \in 1..L : text[r] \in Int
  OBVIOUS
<1>2. MaxUint \in Nat
  BY IntegersAssumption
<1>3. CASE q + 1 \in DOMAIN text /\ text[q + 1] = Dash
  <2>1. /\ item.ok <=> /\ IsNumber(text, q) /\ IsNumber(text, q + 2)
                       /\ text[q] <= text[q + 2]
                       /\ ~(text[q] = 0 /\ text[q + 2] = MaxUint)
        /\ item.from = text[q] /\ item.to = q + 2 /\ item.next = q + 3
    BY <1>3 DEF Item
  <2>2. /\ q + 2 \in 1..L /\ text[q] \in 0..MaxUint /\ text[q + 2] \in 0..MaxUint
        /\ text[q] <= text[q + 2] /\ ~(text[q] = 0 /\ text[q + 2] = MaxUint)
    BY <1>1, <2>1 DEF Taken, IsNumber
  <2>. HIDE DEF item
  <2>3. EndsAt(text, q, q + 3)
    <3>1. q + 3 \in q..(L + 1)
      BY <1>1, <2>2
    <3>2. \A r \in q..((q + 3) - 1) : r \in {q, q + 1, q + 2}
      BY <1>1
    <3>3. text[q] # Comma /\ text[q + 1] # Comma /\ text[q + 2] # Comma
      BY <1>2, <1>3, <2>2 DEF Comma, Dash
    <3>4. q + 3 = L + 1 \/ text[q + 3] = Comma
      BY <1>1, <2>1, <3>1 DEF Taken, item
    <3>. QED BY <3>1, <3>2, <3>3, <3>4 DEF EndsAt
  <2>4. /\ Len(Piece(text, q)) = 3 /\ Piece(text, q)[1] = text[q]
        /\ Piece(text, q)[2] = text[q + 1] /\ Piece(text, q)[3] = text[q + 2]
    <3> DEFINE piece == Piece(text, q)
    <3>1. Len(piece) = (q + 3) - q /\ \A k \in 1..((q + 3) - q) : piece[k] = text[q + k - 1]
      BY <2>3, PieceIs
    <3>. HIDE DEF piece
    <3>2. (q + 3) - q = 3 /\ q + 1 - 1 = q /\ q + 2 - 1 = q + 1 /\ q + 3 - 1 = q + 2
      OBVIOUS
    <3>3. 1 \in 1..3 /\ 2 \in 1..3 /\ 3 \in 1..3
      OBVIOUS
    <3>. QED BY <3>1, <3>2, <3>3 DEF piece
  <2>5. IsRange(Piece(text, q))
    <3>1. text[q + 2] \in text[q]..MaxUint
      BY <1>2, <2>2
    <3>2. text[q] # 0 \/ text[q + 2] # MaxUint
      BY <2>2
    <3>. QED BY <1>3, <2>2, <2>4, <3>1, <3>2 DEF IsRange
  <2>6. text[q] \in Nat /\ text[q + 2] \in Nat
    BY <2>2
  <2>. QED BY <1>1, <2>1, <2>2, <2>3, <2>4, <2>5, <2>6 DEF item
<1>4. CASE ~(q + 1 \in DOMAIN text /\ text[q + 1] = Dash)
  <2>1. /\ item.ok <=> IsNumber(text, q)
        /\ item.from = text[q] /\ item.to = q /\ item.next = q + 1
    BY <1>4 DEF Item
  <2>2. text[q] \in 0..MaxUint
    BY <1>1, <2>1 DEF Taken, IsNumber
  <2>. HIDE DEF item
  <2>3. EndsAt(text, q, q + 1)
    <3>1. q + 1 \in q..(L + 1)
      BY <1>1
    <3>2. \A r \in q..((q + 1) - 1) : r = q
      BY <1>1
    <3>3. text[q] # Comma
      BY <1>2, <2>2 DEF Comma
    <3>4. q + 1 = L + 1 \/ text[q + 1] = Comma
      BY <1>1, <2>1, <3>1 DEF Taken, item
    <3>. QED BY <3>1, <3>2, <3>3, <3>4 DEF EndsAt
  <2>4. Len(Piece(text, q)) = 1 /\ Piece(text, q)[1] = text[q]
    <3> DEFINE piece == Piece(text, q)
    <3>1. Len(piece) = (q + 1) - q /\ \A k \in 1..((q + 1) - q) : piece[k] = text[q + k - 1]
      BY <2>3, PieceIs
    <3>. HIDE DEF piece
    <3>2. (q + 1) - q = 1 /\ q + 1 - 1 = q /\ 1 \in 1..1
      OBVIOUS
    <3>. QED BY <3>1, <3>2 DEF piece
  <2>5. IsRange(Piece(text, q))
    BY <2>2, <2>4 DEF IsRange
  <2>6. text[q] \in Nat /\ text[q] <= text[q] /\ q \in DOMAIN text
    BY <2>2
  <2>. QED BY <2>1, <2>3, <2>4, <2>5, <2>6 DEF item
<1>. QED BY <1>3, <1>4

LEMMA ItemNotTaken ==
  ASSUME NEW text \in Seq(Int), NEW q \in 1..Len(text), ~Taken(text, Item(text, q))
  PROVE  ~IsRange(Piece(text, q))
<1> DEFINE item == Item(text, q)
           L == Len(text)
           piece == Piece(text, q)
<1>. SUFFICES ASSUME IsRange(piece) PROVE Taken(text, item)
  OBVIOUS
<1>1. L \in Nat /\ DOMAIN text = 1..L /\ \A r \in 1..L : text[r] \in Int
  OBVIOUS
<1>2. PICK e : EndsAt(text, q, e)
  BY PieceEnds
<1>3. /\ Len(piece) = e - q /\ \A k \in 1..(e - q) : piece[k] = text[q + k - 1]
      /\ e \in q..(L + 1)
      /\ e = L + 1 \/ text[e] = Comma
  BY <1>2, PieceIs DEF EndsAt
<1>. HIDE DEF piece
<1>4. CASE Len(piece) = 1 /\ piece[1] \in 0..MaxUint
  <2>1. e = q + 1
    <3>1. e - q = 1
      BY <1>3, <1>4
    <3>2. e \in Int /\ q \in Int
      BY <1>1, <1>3
    <3>. QED BY <3>1, <3>2
  <2>2. text[q] = piece[1]
    <3>1. 1 \in 1..(e - q) /\ q + 1 - 1 = q
      BY <2>1
    <3>. QED BY <1>3, <3>1
  <2>3. ~(q + 1 \in DOMAIN text /\ text[q + 1] = Dash)
    BY <1>1, <1>3, <2>1 DEF Dash, Comma
  <2>4. item.ok <=> IsNumber(text, q)
    BY <2>3 DEF Item
  <2>5. item.next = q + 1
    BY <2>3 DEF Item
  <2>6. IsNumber(text, q)
    BY <1>1, <1>4, <2>2 DEF IsNumber
  <2>7. e \notin DOMAIN text \/ text[e] = Comma
    BY <1>1, <1>3
  <2>. HIDE DEF item
  <2>. QED BY <2>1, <2>4, <2>5, <2>6, <2>7 DEF Taken
<1>5. CASE /\ Len(piece) = 3
           /\ piece[1] \in 0..MaxUint /\ piece[2] = Dash /\ piece[3] \in piece[1]..MaxUint
           /\ piece[1] # 0 \/ piece[3] # MaxUint
  <2>1. e = q + 3
    <3>1. e - q = 3
      BY <1>3, <1>5
    <3>2. e \in Int /\ q \in Int
      BY <1>1, <1>3
    <3>. QED BY <3>1, <3>2
  <2>2. text[q] = piece[1] /\ text[q + 1] = piece[2] /\ text[q + 2] = piece[3]
    <3>1. /\ 1 \in 1..(e - q) /\ 2 \in 1..(e - q) /\ 3 \in 1..(e - q)
          /\ q + 1 - 1 = q /\ q + 2 - 1 = q + 1 /\ q + 3 - 1 = q + 2
      BY <2>1
    <3>. QED BY <1>3, <3>1
  <2>3. q + 1 \in DOMAIN text /\ q + 2 \in DOMAIN text /\ text[q + 1] = Dash
    BY <1>1, <1>3, <1>5, <2>1, <2>2
  <2>4. /\ item.ok <=> /\ IsNumber(text, q) /\ IsNumber(text, q + 2)
                       /\ text[q] <= text[q + 2]
                       /\ ~(text[q] = 0 /\ text[q + 2] = MaxUint)
        /\ item.next = q + 3
    BY <2>3 DEF Item
  <2>5. text[q] \in 0..MaxUint /\ text[q + 2] \in 0..MaxUint /\ text[q] <= text[q + 2]
    BY <1>5, <2>2, IntegersAssumption
  <2>6. IsNumber(text, q) /\ IsNumber(text, q + 2)
    BY <1>1, <2>3, <2>5 DEF IsNumber
  <2>7. e \notin DOMAIN text \/ text[e] = Comma
    BY <1>1, <1>3
  <2>8. ~(text[q] = 0 /\ text[q + 2] = MaxUint)
    BY <1>5, <2>2
  <2>. HIDE DEF item
  <2>. QED BY <2>1, <2>4, <2>5, <2>6, <2>7, <2>8 DEF Taken
<1>. QED BY <1>4, <1>5 DEF IsRange

(* What the turns of the loop have read: pieces that are ranges, whose     *)
(* numbers are in the list; or one that is none.                           *)
Listed(list) == {list[k] : k \in DOMAIN list}
Spread(piece) == piece[1]..piece[Len(piece)]
Begun(text, p) == {q \in Starts(text) : q # Len(text) + 1 /\ q < p}

Good(text, turn) ==
  /\ turn \in [ok: BOOLEAN, p: Nat \ {0}, list: Seq(Nat)]
  /\ turn.ok => /\ turn.p \in Starts(text) \/ turn.p > Len(text)
                /\ \A q \in Begun(text, turn.p) : IsRange(Piece(text, q))
                /\ Listed(turn.list) = UNION {Spread(Piece(text, q)) : q \in Begun(text, turn.p)}
  /\ ~turn.ok => \E q \in Starts(text) \ {Len(text) + 1} : ~IsRange(Piece(text, q))

LEMMA ListedMore ==
  ASSUME NEW list \in Seq(Nat), NEW from \in Nat, NEW to \in Nat, from <= to
  PROVE  LET more == [j \in 1 .. to - from + 1 |-> from + j - 1]
         IN  list \o more \in Seq(Nat) /\ Listed(list \o more) = Listed(list) \cup from..to
<1> DEFINE n == to - from + 1
           more == [j \in 1..n |-> from + j - 1]
           L == Len(list)
<1>1. n \in Nat /\ L \in Nat /\ DOMAIN list = 1..L
  OBVIOUS
<1>2. more \in Seq(Nat) /\ Len(more) = n /\ \A j \in 1..n : more[j] = from + j - 1
  <2>1. \A j \in 1..n : from + j - 1 \in Nat
    BY <1>1
  <2>2. more \in [1..n -> Nat]
    BY <2>1
  <2>. HIDE DEF more
  <2>3. more \in Seq(Nat) /\ Len(more) = n
    BY <1>1, <2>2
  <2>. QED BY <2>3 DEF more
<1>. HIDE DEF more, n
<1>3. /\ list \o more \in Seq(Nat) /\ Len(list \o more) = L + n
      /\ \A k \in 1..(L + n) : (list \o more)[k] = IF k <= L THEN list[k] ELSE more[k - L]
  BY <1>1, <1>2, ConcatProperties
<1>4. DOMAIN (list \o more) = 1..(L + n)
  BY <1>3
<1>5. ASSUME NEW x \in Listed(list \o more) PROVE x \in Listed(list) \cup from..to
  <2>1. PICK k \in 1..(L + n) : x = (list \o more)[k]
    BY <1>4 DEF Listed
  <2>2. CASE k <= L
    <3>1. k \in DOMAIN list /\ x = list[k]
      BY <1>1, <1>3, <2>1, <2>2
    <3>. QED BY <3>1 DEF Listed
  <2>3. CASE ~(k <= L)
    <3>1. k - L \in 1..n /\ x = more[k - L]
      BY <1>1, <1>3, <2>1, <2>3
    <3>2. x = from + (k - L) - 1
      BY <1>2, <3>1
    <3>. QED BY <1>1, <3>1, <3>2 DEF n
  <2>. QED BY <2>2, <2>3
<1>6. ASSUME NEW x \in Listed(list) PROVE x \in Listed(list \o more)
  <2>1. PICK k \in 1..L : x = list[k]
    BY <1>1 DEF Listed
  <2>2. k \in 1..(L + n) /\ (list \o more)[k] = x
    BY <1>1, <1>3, <2>1
  <2>. QED BY <1>4, <2>2 DEF Listed
<1>7. ASSUME NEW x \in from..to PROVE x \in Listed(list \o more)
  <2> DEFINE j == x - from + 1
  <2>1. j \in 1..n /\ from + j - 1 = x
    BY DEF n
  <2>2. L + j \in 1..(L + n) /\ ~(L + j <= L) /\ (L + j) - L = j
    BY <1>1, <2>1
  <2>. HIDE DEF j
  <2>3. (list \o more)[L + j] = x
    BY <1>2, <1>3, <2>1, <2>2
  <2>. QED BY <1>4, <2>2, <2>3 DEF Listed
<1>. QED BY <1>3, <1>5, <1>6, <1>7 DEF more, n

LEMMA TurnGood ==
  ASSUME NEW text \in Seq(Int), NEW turn, Good(text, turn)
  PROVE  /\ Good(text, Turn(text, turn))
         /\ Turn(text, turn).ok =>
              Turn(text, turn).p > Len(text) \/ Turn(text, turn).p > turn.p
<1> DEFINE L == Len(text)
           p == turn.p
           item == Item(text, p)
           piece == Piece(text, p)
           more == [j \in 1 .. text[item.to] - item.from + 1 |-> item.from + j - 1]
           next == Turn(text, turn)
<1>1. L \in Nat /\ DOMAIN text = 1..L
  OBVIOUS
<1>2. /\ turn = [ok |-> turn.ok, p |-> p, list |-> turn.list]
      /\ turn.ok \in BOOLEAN /\ p \in Nat \ {0} /\ turn.list \in Seq(Nat)
  BY DEF Good
<1>3. CASE ~turn.ok \/ p \notin DOMAIN text
  <2>1. next = turn
    BY <1>3 DEF Turn
  <2>2. turn.ok => p > L
    BY <1>1, <1>2, <1>3
  <2>. HIDE DEF next
  <2>. QED BY <2>1, <2>2 DEF next
<1>4. CASE turn.ok /\ p \in DOMAIN text /\ Taken(text, item)
  <2>1. next = [ok |-> TRUE, p |-> item.next + 1, list |-> turn.list \o more]
    BY <1>4 DEF Turn, Taken
  <2>2. /\ EndsAt(text, p, item.next) /\ IsRange(piece)
        /\ item.from = piece[1] /\ text[item.to] = piece[Len(piece)]
        /\ item.from \in Nat /\ text[item.to] \in Nat /\ item.from <= text[item.to]
    BY <1>1, <1>4, ItemTaken
  <2> DEFINE e == item.next
             from == item.from
             to == text[item.to]
  <2>3. /\ turn.list \o more \in Seq(Nat)
        /\ Listed(turn.list \o more) = Listed(turn.list) \cup from..to
    <3>1. from \in Nat /\ to \in Nat /\ from <= to
      BY <2>2
    <3>2. more = [j \in 1 .. to - from + 1 |-> from + j - 1]
      OBVIOUS
    <3>. HIDE DEF from, to, more
    <3>. QED BY <1>2, <3>1, <3>2, ListedMore
  <2>4. from..to = Spread(piece)
    BY <2>2 DEF Spread
  <2>5. e \in p..(L + 1) /\ (e = L + 1 \/ text[e] = Comma) /\ \A r \in p..(e - 1) : text[r] # Comma
    BY <2>2 DEF EndsAt
  <2>. HIDE DEF next, item, piece, more, from, to, e
  <2>6. next.ok /\ next.p = e + 1 /\ next.list = turn.list \o more
    BY <2>1 DEF e
  <2>7. e + 1 \in Nat \ {0} /\ next \in [ok: BOOLEAN, p: Nat \ {0}, list: Seq(Nat)]
    <3>1. e + 1 \in Nat \ {0}
      BY <1>1, <1>2, <2>5
    <3>. QED BY <2>1, <2>3, <3>1 DEF e
  <2>8. next.p \in Starts(text) \/ next.p > L
    <3>1. CASE e = L + 1
      BY <1>1, <2>6, <3>1
    <3>2. CASE text[e] = Comma /\ e # L + 1
      <4>1. e \in DOMAIN text
        BY <1>1, <1>2, <2>5, <3>2
      <4>. QED BY <2>6, <3>2, <4>1 DEF Starts
    <3>. QED BY <2>5, <3>1, <3>2
  <2>9. Begun(text, next.p) = Begun(text, p) \cup {p}
    <3>1. p \in Starts(text) /\ p # L + 1 /\ p < e + 1
      <4>1. p \in 1..L
        BY <1>1, <1>4
      <4>2. p \in Starts(text)
        BY <1>1, <1>4, <4>1 DEF Good
      <4>. QED BY <1>1, <2>5, <4>1, <4>2
    <3>2. ASSUME NEW q \in Starts(text), q < e + 1, ~(q < p), q # p PROVE FALSE
      <4>1. q \in 1..(L + 1)
        BY StartsIn
      <4>2. q - 1 \in p..(e - 1) /\ q # 1
        BY <1>1, <1>2, <2>5, <3>2, <4>1
      <4>3. text[q - 1] = Comma
        <5>1. PICK r \in DOMAIN text : text[r] = Comma /\ q = r + 1
          BY <4>2 DEF Starts
        <5>2. q - 1 = r
          BY <1>1, <5>1
        <5>. QED BY <5>1, <5>2
      <4>. QED BY <2>5, <4>2, <4>3
    <3>3. \A q \in Starts(text) : q < p => q < e + 1
      <4>. TAKE q \in Starts(text)
      <4>1. q \in 1..(L + 1)
        BY StartsIn
      <4>. QED BY <1>1, <1>2, <2>5, <4>1
    <3>. QED BY <2>6, <3>1, <3>2, <3>3 DEF Begun
  <2>10. \A q \in Begun(text, next.p) : IsRange(Piece(text, q))
    BY <1>4, <2>2, <2>9 DEF Good, piece
  <2>11. Listed(next.list) = UNION {Spread(Piece(text, q)) : q \in Begun(text, next.p)}
    <3>1. Listed(turn.list) = UNION {Spread(Piece(text, q)) : q \in Begun(text, p)}
      BY <1>4 DEF Good
    <3>2. Listed(next.list) = Listed(turn.list) \cup Spread(Piece(text, p))
      BY <2>3, <2>4, <2>6 DEF piece
    <3>. QED BY <2>9, <3>1, <3>2
  <2>12. next.p > p
    BY <1>1, <1>2, <2>5, <2>6
  <2>13. Good(text, next)
    BY <2>6, <2>7, <2>8, <2>10, <2>11 DEF Good
  <2>. QED BY <2>12, <2>13 DEF next
<1>5. CASE turn.ok /\ p \in DOMAIN text /\ ~Taken(text, item)
  <2>1. next = [turn EXCEPT !.ok = FALSE]
    BY <1>5 DEF Turn, Taken
  <2>2. ~IsRange(piece)
    BY <1>1, <1>5, ItemNotTaken
  <2>3. p \in Starts(text) /\ p # L + 1
    <3>1. p \in 1..L
      BY <1>1, <1>5
    <3>. QED BY <1>1, <1>5, <3>1 DEF Good
  <2>. HIDE DEF next
  <2>4. next = [ok |-> FALSE, p |-> p, list |-> turn.list]
    BY <1>2, <2>1
  <2>5. ~next.ok /\ next \in [ok: BOOLEAN, p: Nat \ {0}, list: Seq(Nat)]
    BY <1>2, <2>4
  <2>6. \E q \in Starts(text) \ {L + 1} : ~IsRange(Piece(text, q))
    BY <2>2, <2>3
  <2>7. Good(text, next)
    BY <2>5, <2>6 DEF Good
  <2>. QED BY <2>5, <2>7 DEF next
<1>. QED BY <1>3, <1>4, <1>5

(* parse_range_list accepts a text if and only if each of its pieces is a  *)
(* number or a range, and then its list has the numbers of all of them.    *)
LEMMA RangeListIsWritten ==
  ASSUME NEW text \in Seq(Int)
  PROVE  LET pieces == {Piece(text, s) : s \in Starts(text) \ {Len(text) + 1}}
             result == RangeList(text)
         IN  /\ result.ok <=> \A piece \in pieces : IsRange(piece)
             /\ result.ok =>
                  Listed(result.list) = UNION {piece[1] .. piece[Len(piece)] : piece \in pieces}
<1> DEFINE N == Len(text)
           first == [ok |-> TRUE, p |-> 1, list |-> <<>>]
           X == {t \in [ok: BOOLEAN, p: Nat \ {0}, list: Seq(Nat)] : Good(text, t)}
           Rule(f) == f = [n \in 0 .. N |-> IF n = 0 THEN first ELSE Turn(text, f[n - 1])]
           turns == CHOOSE f : Rule(f)
           g == [y \in (1..N) \X X |-> Turn(text, y[2])]
           S == {n \in 0..N : /\ Good(text, turns[n])
                              /\ turns[n].ok => turns[n].p > N \/ turns[n].p > n}
<1>1. N \in Nat
  OBVIOUS
<1>2. first \in X
  <2>1. first \in [ok: BOOLEAN, p: Nat \ {0}, list: Seq(Nat)]
    OBVIOUS
  <2>2. first.ok /\ first.p = 1 /\ first.list = <<>>
    OBVIOUS
  <2>. HIDE DEF first
  <2>3. 1 \in Starts(text)
    BY DEF Starts
  <2>4. Begun(text, 1) = {}
    <3>1. \A q \in Starts(text) : ~(q < 1)
      <4>. TAKE q \in Starts(text)
      <4>1. q \in 1..(N + 1)
        BY StartsIn
      <4>. QED BY <1>1, <4>1
    <3>. QED BY <3>1 DEF Begun
  <2>5. Listed(<<>>) = {}
    BY DEF Listed
  <2>. QED BY <2>1, <2>2, <2>3, <2>4, <2>5 DEF Good
<1>3. \A t \in X : Turn(text, t) \in X
  <2>. TAKE t \in X
  <2>1. Good(text, Turn(text, t))
    BY TurnGood
  <2>. QED BY <2>1 DEF Good
<1>4. g \in [(1..N) \X X -> X]
  <2>. HIDE DEF X, N
  <2>. QED BY <1>3
<1>5. PICK f \in [0..N -> X] : Follows(f, N, first, g)
  <2>. HIDE DEF g, N, X, first
  <2>. QED BY <1>1, <1>2, <1>4, IterationExists
<1>6. Rule(f)
  <2>1. \A n \in 1..N : f[n] = Turn(text, f[n - 1])
    <3>. TAKE n \in 1..N
    <3>1. n - 1 \in 0..N
      BY <1>1
    <3>2. <<n, f[n - 1]>> \in (1..N) \X X
      <4>. HIDE DEF X
      <4>. QED BY <3>1
    <3>. HIDE DEF X
    <3>. QED BY <1>5, <3>2 DEF Follows
  <2>. HIDE DEF X, first
  <2>. QED BY <1>1, <1>5, <2>1 DEF Follows
<1>7. Rule(turns)
  <2>. HIDE DEF Rule
  <2>. QED BY <1>6
<1>8. turns[0] = first /\ \A n \in 1..N : turns[n] = Turn(text, turns[n - 1])
  <2>1. \A n \in 0..N : turns[n] = IF n = 0 THEN first ELSE Turn(text, turns[n - 1])
    <3>. HIDE DEF turns, first, N
    <3>. QED BY <1>7
  <2>2. \A n \in 1..N : n \in 0..N /\ n # 0
    BY <1>1
  <2>3. 0 \in 0..N
    BY <1>1
  <2>. HIDE DEF turns, first, N
  <2>. QED BY <2>1, <2>2, <2>3
<1>9. RangeList(text) = turns[N]
  BY DEF RangeList
<1>. HIDE DEF turns
<1>10. 0 \in S
  <2>1. Good(text, turns[0]) /\ turns[0].p = 1
    BY <1>2, <1>8
  <2>. QED BY <1>1, <2>1
<1>11. ASSUME NEW n \in 0..N, n < N, n \in S PROVE n + 1 \in S
  <2>1. n + 1 \in 1..N /\ (n + 1) - 1 = n /\ n + 1 \in 0..N
    BY <1>1, <1>11
  <2>2. turns[n + 1] = Turn(text, turns[n])
    BY <1>8, <2>1
  <2>3. Good(text, turns[n])
    BY <1>11
  <2>4. /\ Good(text, turns[n + 1])
        /\ turns[n + 1].ok => turns[n + 1].p > N \/ turns[n + 1].p > turns[n].p
    BY <2>2, <2>3, TurnGood
  <2>5. ASSUME turns[n + 1].ok, ~(turns[n + 1].p > N) PROVE turns[n + 1].p > n + 1
    <3>1. turns[n + 1].p > turns[n].p
      BY <2>4, <2>5
    <3>2. turns[n].ok /\ turns[n].p <= N
      <4>1. turns[n] = turns[n + 1] \/ turns[n].ok
        <5>1. ~turns[n].ok => turns[n + 1] = turns[n]
          BY <2>2 DEF Turn
        <5>. QED BY <5>1 DEF Good
      <4>2. turns[n].p \in Nat /\ turns[n + 1].p \in Nat
        BY <2>3, <2>4 DEF Good
      <4>. QED BY <1>1, <2>5, <3>1, <4>1, <4>2
    <3>3. turns[n].p > n /\ turns[n].p \in Nat /\ turns[n + 1].p \in Nat
      <4>1. turns[n].p \in Nat /\ turns[n + 1].p \in Nat
        BY <2>3, <2>4 DEF Good
      <4>. QED BY <1>1, <1>11, <3>2, <4>1
    <3>. QED BY <3>1, <3>3
  <2>. QED BY <2>1, <2>4, <2>5
<1>12. N \in S
  <2>. HIDE DEF S, N
  <2>1. 0..N \subseteq S
    BY <1>1, <1>10, <1>11, Induction
  <2>. QED BY <1>1, <2>1
<1> DEFINE result == turns[N]
           pieces == {Piece(text, s) : s \in Starts(text) \ {Len(text) + 1}}
<1>13. Good(text, result) /\ (result.ok => result.p > N)
  BY <1>1, <1>12
<1>. HIDE DEF result, X, S, g
<1>14. CASE result.ok
  <2>1. Begun(text, result.p) = Starts(text) \ {N + 1}
    <3>1. result.p \in Nat
      BY <1>13 DEF Good
    <3>2. \A q \in Starts(text) : q # N + 1 => q < result.p
      <4>. TAKE q \in Starts(text)
      <4>1. q \in 1..(N + 1)
        BY StartsIn
      <4>. QED BY <1>1, <1>13, <1>14, <3>1, <4>1
    <3>. QED BY <3>2 DEF Begun
  <2>2. \A piece \in pieces : IsRange(piece)
    BY <1>13, <1>14, <2>1 DEF Good
  <2>3. Listed(result.list) = UNION {Spread(Piece(text, q)) : q \in Starts(text) \ {N + 1}}
    BY <1>13, <1>14, <2>1 DEF Good
  <2>4. Listed(result.list) = UNION {piece[1] .. piece[Len(piece)] : piece \in pieces}
    BY <2>3 DEF Spread
  <2>. QED BY <1>9, <1>14, <2>2, <2>4 DEF result
<1>15. CASE ~result.ok
  <2>1. ~\A piece \in pieces : IsRange(piece)
    BY <1>13, <1>15 DEF Good
  <2>. QED BY <1>9, <1>15, <2>1 DEF result
<1>. QED BY <1>14, <1>15

-----------------------------------------------------------------------------
(* The options of a mount: what holds of the record once a number of them  *)
(* is read.                                                                *)
ResultFields == {"ok", "vfs", "prop", "set", "clr", "ext", "idmap", "uids", "gids", "data"}
IsResult(r) == r = [f \in ResultFields |-> r[f]]

NamesLeft == {opts[k].name : k \in {j \in 1 .. read : ~Known(opts[j])}}

(* LastWins and NothingDropped hold by themselves once the result is the   *)
(* record it is, with a sequence of names to append to.                    *)
OptionsInv ==
    /\ read \in Nat
    /\ IsResult(mo)
    /\ mo.data \in Seq(NamesLeft)
    /\ LastWins
    /\ NothingDropped
    /\ OneIdmap

-----------------------------------------------------------------------------
(* No name is in two of the tables, so that the order in which they are    *)
(* tried is of no consequence.                                             *)
LEMMA TablesDisjoint ==
    ASSUME NEW name
    PROVE  /\ name \in DOMAIN Vfs => name \notin DOMAIN Unset \cup DOMAIN Propagation
                 \cup DOMAIN RecursiveSet \cup DOMAIN RecursiveClear \cup Extensions
           /\ name \in DOMAIN Unset => name \notin DOMAIN Propagation
                 \cup DOMAIN RecursiveSet \cup DOMAIN RecursiveClear \cup Extensions
           /\ name \in IdmapTypes => name \notin DOMAIN Vfs \cup DOMAIN Unset
BY DEF Vfs, Unset, Propagation, RecursiveSet, RecursiveClear, Extensions, IdmapTypes

(* What one option does to the flags, to the type of the map and to the    *)
(* list that is handed to the file system.                                 *)
LEMMA StepIdmap ==
    ASSUME NEW o, NEW m, IsResult(m), m.ok, IsIdmap(o)
    PROVE  LET n == Step(o, m)
           IN  /\ IsResult(n) /\ n.vfs = m.vfs /\ n.data = m.data
               /\ n.ok => n.idmap = {o.name} /\ m.idmap \in {{}, {o.name}}
<1>1. Step(o, m) = IdmapOption(o, m)
  BY DEF Step, Known
<1>2. CASE OtherType(o, m)
  BY <1>1, <1>2 DEF IdmapOption, IsResult, ResultFields
<1>3. CASE ~OtherType(o, m) /\ Plain(o)
  BY <1>1, <1>3 DEF IdmapOption, TakeIdmap, IsResult, ResultFields, OtherType
<1>4. CASE ~OtherType(o, m) /\ ~Plain(o)
  BY <1>1, <1>4 DEF IdmapOption, TakeIdmap, IsResult, ResultFields, OtherType
<1> QED
  BY <1>2, <1>3, <1>4

LEMMA StepPlain ==
    ASSUME NEW o, NEW m, IsResult(m), ~IsIdmap(o), Known(o)
    PROVE  LET n == Step(o, m)
           IN  /\ IsResult(n) /\ n.vfs = (m.vfs \ Clears(o)) \cup Sets(o)
               /\ n.data = m.data /\ n.ok = m.ok /\ n.idmap = m.idmap
<1> Plain(o)
  BY DEF Known
<1>1. Step(o, m) = ReadPlain(o, m)
  BY DEF Step
<1>2. CASE o.name \in DOMAIN Vfs
  <2>1. Sets(o) = Vfs[o.name] /\ Clears(o) = {}
    BY <1>2, TablesDisjoint DEF Sets, Clears, Named
  <2>2. Step(o, m) = SetFlags(o, m)
    BY <1>1, <1>2, TablesDisjoint DEF ReadPlain
  <2> QED
    BY <2>1, <2>2 DEF SetFlags, IsResult, ResultFields
<1>3. CASE o.name \notin DOMAIN Vfs /\ o.name \in DOMAIN Unset
  <2>1. Sets(o) = {} /\ Clears(o) = Unset[o.name]
    BY <1>3 DEF Sets, Clears, Named
  <2>2. Step(o, m) = ClearFlags(o, m)
    BY <1>1, <1>3, TablesDisjoint DEF ReadPlain
  <2> QED
    BY <2>1, <2>2 DEF ClearFlags, IsResult, ResultFields
<1>4. CASE o.name \notin DOMAIN Vfs /\ o.name \notin DOMAIN Unset
  <2>1. Sets(o) = {} /\ Clears(o) = {}
    BY <1>4 DEF Sets, Clears, Named
  <2>2. Step(o, m) \in {Propagate(o, m), SetRecursive(o, m), ClearRecursive(o, m),
                         Extend(o, m)}
    BY <1>1, <1>4 DEF ReadPlain, Known
  <2> QED
    BY <2>1, <2>2 DEF Propagate, SetRecursive, ClearRecursive, Extend, IsResult, ResultFields
<1> QED
  BY <1>2, <1>3, <1>4

LEMMA StepUnknown ==
    ASSUME NEW o, NEW m, IsResult(m), ~Known(o)
    PROVE  LET n == Step(o, m)
           IN  /\ IsResult(n) /\ n.vfs = m.vfs /\ n.data = Append(m.data, o.name)
               /\ n.ok = m.ok /\ n.idmap = m.idmap
<1>1. Step(o, m) = Leave(o, m)
  BY DEF Step, Known
<1> QED
  BY <1>1 DEF Leave, IsResult, ResultFields

LEMMA NoFlags ==
    ASSUME NEW o, IsIdmap(o) \/ ~Known(o)
    PROVE  Sets(o) = {} /\ Clears(o) = {}
BY TablesDisjoint DEF Sets, Clears, Named, Known, IsIdmap

(* All three together, in terms of the flags an option sets and clears.    *)
LEMMA StepIs ==
    ASSUME NEW o, NEW m, IsResult(m), m.ok
    PROVE  LET n == Step(o, m)
           IN  /\ IsResult(n)
               /\ n.vfs = (m.vfs \ Clears(o)) \cup Sets(o)
               /\ n.data = IF Known(o) THEN m.data ELSE Append(m.data, o.name)
               /\ IsIdmap(o) /\ n.ok => n.idmap = {o.name} /\ m.idmap \in {{}, {o.name}}
               /\ ~IsIdmap(o) => n.idmap = m.idmap
<1>1. CASE IsIdmap(o)
  <2>1. Known(o)
    BY <1>1 DEF Known
  <2> QED
    BY <1>1, <2>1, StepIdmap, NoFlags
<1>2. CASE ~IsIdmap(o) /\ Known(o)
  BY <1>2, StepPlain
<1>3. CASE ~Known(o)
  <2>1. ~IsIdmap(o)
    BY <1>3 DEF Known
  <2> QED
    BY <1>3, <2>1, StepUnknown, NoFlags
<1> QED
  BY <1>1, <1>2, <1>3

-----------------------------------------------------------------------------
(* Before the first option is read, in this state and in the next.         *)
LEMMA OptionsStart ==
    ASSUME read = 0, mo = NoOptions
    PROVE  OptionsInv
<1>1. 1 .. read = {}
  OBVIOUS
<1>2. IsResult(mo) /\ mo.vfs = {} /\ mo.data = <<>> /\ mo.idmap = {}
  BY DEF NoOptions, IsResult, ResultFields
<1>3. LastWins
  BY <1>1, <1>2 DEF LastWins
<1>4. NothingDropped /\ (mo.data \in Seq(NamesLeft))
  BY <1>1, <1>2 DEF NothingDropped, NamesLeft
<1>5. OneIdmap
  BY <1>1, <1>2 DEF OneIdmap
<1> QED
  BY <1>2, <1>3, <1>4, <1>5 DEF OptionsInv, IsResult

LEMMA OptionsAgain ==
    ASSUME read' = 0, mo' = NoOptions
    PROVE  OptionsInv'
<1>1. 1 .. read' = {}
  OBVIOUS
<1>2. IsResult(mo') /\ mo'.vfs = {} /\ mo'.data = <<>> /\ mo'.idmap = {}
  BY DEF NoOptions, IsResult, ResultFields
<1>3. LastWins'
  BY <1>1, <1>2 DEF LastWins
<1>4. NothingDropped' /\ (mo.data \in Seq(NamesLeft))'
  BY <1>1, <1>2 DEF NothingDropped, NamesLeft
<1>5. OneIdmap'
  BY <1>1, <1>2 DEF OneIdmap
<1> QED
  BY <1>2, <1>3, <1>4, <1>5 DEF OptionsInv, IsResult

LEMMA OptionsNext ==
    ASSUME OptionsInv, ReadOption
    PROVE  OptionsInv'
<1> DEFINE o == opts[read + 1]
<1>1. read \in Nat /\ read' = read + 1 /\ opts' = opts /\ mo.ok /\ mo' = Step(o, mo)
  BY DEF OptionsInv, ReadOption
<1>2. /\ IsResult(mo')
      /\ mo'.vfs = (mo.vfs \ Clears(o)) \cup Sets(o)
      /\ mo'.data = IF Known(o) THEN mo.data ELSE Append(mo.data, o.name)
      /\ IsIdmap(o) /\ mo'.ok => mo'.idmap = {o.name} /\ mo.idmap \in {{}, {o.name}}
      /\ ~IsIdmap(o) => mo'.idmap = mo.idmap
  <2>1. IsResult(mo)
    BY DEF OptionsInv
  <2> QED
    BY <1>1, <2>1, StepIs
<1> HIDE DEF o
<1>3. 1 .. read' = (1 .. read) \cup {read + 1} /\ read + 1 \notin 1 .. read
  BY <1>1
<1>4. o = opts[read + 1]
  BY DEF o
<1>5. LastWins'
  <2> DEFINE AllFlags == UNION {Vfs[name] : name \in DOMAIN Vfs}
             On(flag, n) == \E k \in 1 .. n : /\ flag \in Sets(opts[k])
                                              /\ \A j \in k + 1 .. n : flag \notin Clears(opts[j])
  <2>1. ASSUME NEW flag \in AllFlags
        PROVE  flag \in mo.vfs <=> On(flag, read)
    BY <2>1 DEF OptionsInv, LastWins
  <2>2. ASSUME NEW flag
        PROVE  On(flag, read + 1) <=>
                 flag \in Sets(o) \/ (On(flag, read) /\ flag \notin Clears(o))
    <3>1. \A k \in 1 .. read : k + 1 .. read + 1 = (k + 1 .. read) \cup {read + 1}
      BY <1>1
    <3>2. (read + 1) + 1 .. read + 1 = {}
      BY <1>1
    <3>3. 1 .. read + 1 = (1 .. read) \cup {read + 1}
      BY <1>1
    <3> QED
      BY <1>4, <3>1, <3>2, <3>3
  <2>3. ASSUME NEW flag \in AllFlags
        PROVE  flag \in mo'.vfs <=> On(flag, read + 1)
    BY <1>2, <2>1, <2>2, <2>3
  <2> QED
    BY <1>1, <2>3 DEF LastWins, Sets, Clears, Named, Plain
<1>6. NothingDropped' /\ (mo.data \in Seq(NamesLeft))'
  <2>1. mo.data \in Seq(NamesLeft) /\ NamesLeft = {mo.data[k] : k \in DOMAIN mo.data}
    BY DEF OptionsInv, NothingDropped, NamesLeft
  <2>2. NamesLeft' = NamesLeft \cup (IF Known(o) THEN {} ELSE {o.name})
    BY <1>1, <1>3, <1>4 DEF NamesLeft, Known, IsIdmap, Plain
  <2>3. CASE Known(o)
    <3>1. mo'.data = mo.data /\ NamesLeft' = NamesLeft
      BY <1>2, <2>2, <2>3
    <3>2. mo'.data \in Seq(NamesLeft') /\ NamesLeft' = {mo'.data[k] : k \in DOMAIN mo'.data}
      BY <2>1, <3>1
    <3> QED
      BY <3>2 DEF NothingDropped, NamesLeft
  <2>4. CASE ~Known(o)
    <3>1. mo'.data = Append(mo.data, o.name) /\ NamesLeft' = NamesLeft \cup {o.name}
      BY <1>2, <2>2, <2>4
    <3>2. mo.data \in Seq(NamesLeft')
      BY <2>1, <3>1, SeqMonotonic
    <3>3. /\ mo'.data \in Seq(NamesLeft')
          /\ DOMAIN mo'.data = DOMAIN mo.data \cup {Len(mo.data) + 1}
          /\ \A k \in DOMAIN mo.data : mo'.data[k] = mo.data[k]
          /\ mo'.data[Len(mo.data) + 1] = o.name
      <4>1. o.name \in NamesLeft'
        BY <3>1
      <4> HIDE DEF NamesLeft
      <4> QED
        BY <3>1, <3>2, <4>1
    <3>4. {mo'.data[k] : k \in DOMAIN mo'.data} = NamesLeft'
      BY <2>1, <3>1, <3>3
    <3> QED
      BY <3>3, <3>4 DEF NothingDropped, NamesLeft
  <2> QED
    BY <2>3, <2>4
<1>7. OneIdmap'
  <2> SUFFICES ASSUME mo'.ok
               PROVE  /\ \A k \in 1 .. read' : IsIdmap(opts[k]) => mo'.idmap = {opts[k].name}
                      /\ mo'.idmap # {} => \E k \in 1 .. read' : IsIdmap(opts[k])
    BY <1>1 DEF OneIdmap, IsIdmap
  <2>1. /\ \A k \in 1 .. read : IsIdmap(opts[k]) => mo.idmap = {opts[k].name}
        /\ mo.idmap # {} => \E k \in 1 .. read : IsIdmap(opts[k])
    BY <1>1 DEF OptionsInv, OneIdmap
  <2>2. CASE IsIdmap(o)
    BY <1>2, <1>3, <1>4, <2>1, <2>2
  <2>3. CASE ~IsIdmap(o)
    BY <1>2, <1>3, <1>4, <2>1, <2>3
  <2> QED
    BY <2>2, <2>3
<1> QED
  BY <1>1, <1>2, <1>5, <1>6, <1>7 DEF OptionsInv

(* Nothing is said of anything but the list, how far it is read, and the   *)
(* result.                                                                 *)
LEMMA OptionsStutter ==
    ASSUME OptionsInv, UNCHANGED optVars
    PROVE  OptionsInv'
<1>1. opts' = opts /\ read' = read /\ mo' = mo
  BY DEF optVars
<1>2. IsResult(mo)' /\ (mo.data \in Seq(NamesLeft))'
  BY <1>1 DEF OptionsInv, IsResult, NamesLeft, Known, IsIdmap, Plain
<1>3. LastWins'
  BY <1>1 DEF OptionsInv, LastWins, Sets, Clears, Named, Plain
<1>4. NothingDropped'
  <2>1. NamesLeft' = NamesLeft
    BY <1>1 DEF NamesLeft, Known, IsIdmap, Plain
  <2>2. NamesLeft = {mo.data[k] : k \in DOMAIN mo.data}
    BY DEF OptionsInv, NothingDropped, NamesLeft
  <2> QED
    BY <1>1, <2>1, <2>2 DEF NothingDropped, NamesLeft
<1>5. OneIdmap'
  BY <1>1 DEF OptionsInv, OneIdmap, IsIdmap
<1> QED
  BY <1>1, <1>2, <1>3, <1>4, <1>5 DEF OptionsInv

-----------------------------------------------------------------------------
(* For any list of options, however long and whatever its names: a flag is *)
(* on if and only if the last option about it says so, every option that   *)
(* no table has goes to the file system and no other does, and a list with *)
(* both idmap and ridmap is refused (parse_mount_options, config.cpp:276). *)
THEOREM OptionsTheorem == OptionsSpec => [](LastWins /\ NothingDropped /\ OneIdmap)
<1>0. OptionsInit => OptionsInv
  BY OptionsStart DEF OptionsInit
<1>1. OptionsInv /\ [ReadOption]_optVars => OptionsInv'
  BY OptionsNext, OptionsStutter
<1>2. OptionsInv => LastWins /\ NothingDropped /\ OneIdmap
  BY DEF OptionsInv
<1> QED
  BY <1>0, <1>1, <1>2, PTL DEF OptionsSpec
-----------------------------------------------------------------------------
(* The lists of a configuration.                                           *)
ListsInv == doc \in Documents /\ OptionsInv

LEMMA MemberValue ==
    ASSUME NEW v \in Values, NEW m, Has(v, m)
    PROVE  Get(v, m) \in Values
BY ValuesAssumption DEF Json, Has, Get

LEMMA RangesRead ==
    ASSUME doc \in Documents
    PROVE  RangesAsWritten
<1> SUFFICES ASSUME NEW text \in RangeTexts
             PROVE  LET pieces == {Piece(text, s) : s \in Starts(text) \ {Len(text) + 1}}
                        result == RangeList(text)
                    IN  /\ result.ok <=> \A piece \in pieces : IsRange(piece)
                        /\ result.ok =>
                             {result.list[k] : k \in DOMAIN result.list} =
                                UNION {piece[1] .. piece[Len(piece)] : piece \in pieces}
  BY DEF RangesAsWritten
<1> DEFINE linux == Get(doc, "linux")
           policy == Get(linux, "memoryPolicy")
<1>1. /\ Has(doc, "linux") /\ Has(linux, "memoryPolicy")
      /\ \E m \in {"nodes"} : /\ Has(policy, m) /\ "tokens" \in DOMAIN Get(policy, m)
                              /\ text = Get(policy, m).tokens
  BY DEF RangeTexts
<1>2. PICK m : /\ Has(policy, m) /\ "tokens" \in DOMAIN Get(policy, m)
               /\ text = Get(policy, m).tokens
  BY <1>1
<1>3. doc \in Values
  BY ValuesAssumption
<1>4. Get(policy, m) \in Values
  <2>1. linux \in Values
    BY <1>1, <1>3, MemberValue
  <2> HIDE DEF linux
  <2>2. policy \in Values
    BY <1>1, <2>1, MemberValue
  <2> HIDE DEF policy
  <2> QED
    BY <1>2, <2>2, MemberValue
<1>5. text \in Seq(Int)
  BY <1>2, <1>4, ValuesAssumption DEF Json
<1> QED
  BY <1>5, RangeListIsWritten DEF Listed

LEMMA ListsInvInit == ConfigInit => ListsInv
<1> SUFFICES ASSUME ConfigInit PROVE ListsInv
  OBVIOUS
<1>1. read = 0 /\ mo = NoOptions /\ doc \in Documents
  BY DEF ConfigInit
<1> QED
  BY <1>1, OptionsStart DEF ListsInv

(* The options of a mount begin with nothing read, and one is read at a    *)
(* time; everything else leaves them alone.                                *)
LEMMA ListsInvNext == ListsInv /\ [ConfigNext]_configVars => ListsInv'
<1> SUFFICES ASSUME ListsInv, [ConfigNext]_configVars PROVE ListsInv'
  OBVIOUS
<1>1. doc' = doc
  BY DEF ConfigNext, configVars, ReadDocument, ReadMount, ReadMountOption, LeaveMount, MountsRead,
         ValidateProcess, ValidateLinux, ValidateHooks, ValidateMounts, Construct, GenerateCloneFlag
<1>2. CASE UNCHANGED optVars
  BY <1>1, <1>2, OptionsStutter DEF ListsInv
<1>3. CASE ReadMount
  <2>1. UNCHANGED optVars \/ (read' = 0 /\ mo' = NoOptions)
    BY <1>3 DEF ReadMount, optVars
  <2>2. CASE read' = 0 /\ mo' = NoOptions
    BY <1>1, <2>2, OptionsAgain DEF ListsInv
  <2> QED
    BY <1>2, <2>1, <2>2
<1>4. CASE ReadMountOption
  <2>1. ReadOption
    BY <1>4 DEF ReadMountOption
  <2>2. OptionsInv'
    BY <2>1, OptionsNext DEF ListsInv
  <2> QED
    BY <1>1, <2>2 DEF ListsInv
<1>5. UNCHANGED optVars \/ ReadMount \/ ReadMountOption
  BY DEF ConfigNext, configVars, optVars, ReadDocument, LeaveMount, MountsRead,
         ValidateProcess, ValidateLinux, ValidateHooks, ValidateMounts, Construct, GenerateCloneFlag
<1> QED
  BY <1>2, <1>3, <1>4, <1>5

(* In any configuration: of the options of a mount about one flag the last *)
(* counts, none that no table knows is lost, idmap and ridmap exclude each *)
(* other, and a list of ranges is refused if and only if one of its pieces *)
(* is no range, and else has the numbers of all of them                    *)
(* (parse_mount_options and parse_range_list, config.cpp:276 and 71).      *)
THEOREM ListsTheorem == ConfigSpec => []ListsAsWritten
<1>1. ListsInv => ListsAsWritten
  BY RangesRead DEF ListsInv, OptionsInv, ListsAsWritten
<1> QED
  BY ListsInvInit, ListsInvNext, <1>1, PTL DEF ConfigSpec

-----------------------------------------------------------------------------
(* What has been read.                                                     *)
LEMMA SchemaOf ==
    /\ {"config", "process", "linux", "hooks", "hook", "namespace"} \subseteq DOMAIN Schema
    /\ Schema["config"] = OciConfig /\ Schema["process"] = Process
    /\ Schema["linux"] = Linux /\ Schema["hooks"] = Hooks /\ Schema["hook"] = Hook
    /\ Schema["namespace"] = Namespace
BY DEF Schema

LEMMA ConfigMembers ==
    /\ {"process", "linux", "hooks", "mounts"} \subseteq DOMAIN OciConfig.may
    /\ OciConfig.may["process"] = "process" /\ OciConfig.may["linux"] = "linux"
    /\ OciConfig.may["hooks"] = "hooks"
BY DEF OciConfig, Object

LEMMA ProcessMembers ==
    /\ {"cwd", "args"} \subseteq DOMAIN Process.needs
    /\ Process.needs["cwd"] = "path" /\ Process.needs["args"] = "strings"
    /\ "rlimits" \in DOMAIN Process.may /\ Process.may["rlimits"] = "rlimits"
BY DEF Process, Object

LEMMA LinuxMembers ==
    "namespaces" \in DOMAIN Linux.may /\ Linux.may["namespaces"] = "namespaces"
BY DEF Linux, Object

LEMMA HooksMembers == \A stage \in DOMAIN Hooks.may : Hooks.may[stage] = "hookList"
BY DEF Hooks, Object

LEMMA HookMembers ==
    "timeout" \in DOMAIN Hook.may /\ Hook.may["timeout"] = "number"
BY DEF Hook, Object

LEMMA NamespaceMembers ==
    "type" \in DOMAIN Namespace.needs /\ Namespace.needs["type"] = "namespaceType"
BY DEF Namespace, Object

LEMMA ListKinds ==
    /\ {"strings", "rlimits", "namespaces", "hookList"} \subseteq DOMAIN ListOf \ DOMAIN Schema
    /\ ListOf["strings"] = "string" /\ ListOf["rlimits"] = "rlimit"
    /\ ListOf["namespaces"] = "namespace" /\ ListOf["hookList"] = "hook"
BY DEF ListOf, Schema

LEMMA ScalarKinds ==
    /\ {"number", "namespaceType"} \cap Structured = {}
    /\ "namespaceType" \in DOMAIN Names /\ "number" \notin DOMAIN Names
    /\ Names["namespaceType"] =
         {"ipc", "uts", "mount", "pid", "network", "user", "cgroup", "time"}
BY DEF Structured, Schema, ListOf, MapOf, LooseListOf, Names

(* What is read of an object is its members, of a list its elements.       *)
LEMMA NeededRead ==
    ASSUME NEW kind \in DOMAIN Schema, NEW v, Shape(kind, v),
           NEW m \in DOMAIN Schema[kind].needs
    PROVE  /\ v.t = "obj" /\ m \in DOMAIN v.m
           /\ <<Schema[kind].needs[m], v.m[m]>> \in ReadFrom(kind, v)
<1>1. ~Lacks(v, m)
  BY DEF Shape
<1>2. <<Schema[kind].needs[m], v.m[m]>> \in MembersRead(Schema[kind], v)
  BY DEF MembersRead, Get
<1>3. MembersRead(Schema[kind], v) \subseteq ReadFrom(kind, v)
  BY SchemaOf DEF ReadFrom
<1> QED
  BY <1>1, <1>2, <1>3 DEF Lacks

LEMMA OptionalRead ==
    ASSUME NEW kind \in DOMAIN Schema, NEW v, NEW m \in DOMAIN Schema[kind].may, Has(v, m)
    PROVE  <<Schema[kind].may[m], v.m[m]>> \in ReadFrom(kind, v)
<1>1. <<Schema[kind].may[m], v.m[m]>> \in MembersRead(Schema[kind], v)
  BY DEF MembersRead, Get
<1>2. MembersRead(Schema[kind], v) \subseteq ReadFrom(kind, v)
  BY SchemaOf DEF ReadFrom
<1> QED
  BY <1>1, <1>2

LEMMA ElementRead ==
    ASSUME NEW kind \in DOMAIN ListOf \ DOMAIN Schema, NEW v, Shape(kind, v)
    PROVE  v.t = "arr" /\ \A k \in DOMAIN v.e : <<ListOf[kind], v.e[k]>> \in ReadFrom(kind, v)
<1>1. v.t = "arr"
  BY DEF Shape
<1>2. Children(v) = {v.e[k] : k \in DOMAIN v.e}
  BY <1>1 DEF Children
<1>3. kind # "process"
  BY SchemaOf
<1>4. ReadFrom(kind, v) = {<<ListOf[kind], w>> : w \in Children(v)}
  BY <1>3 DEF ReadFrom
<1> QED
  BY <1>1, <1>2, <1>4

(* Of each kind, what the rest of the program relies on.                   *)
LEMMA ReadParts ==
    ASSUME ReadsConfig(doc)
    PROVE  /\ Has(doc, "process") => Reads6("process", Get(doc, "process"))
           /\ Has(doc, "linux") => Reads6("linux", Get(doc, "linux"))
           /\ Has(doc, "hooks") => Reads6("hooks", Get(doc, "hooks"))
<1>1. \A kind, w : <<kind, w>> \in ReadFrom("config", doc) => Reads6(kind, w)
  BY DEF ReadsConfig
<1> QED
  BY <1>1, OptionalRead, SchemaOf, ConfigMembers DEF Get

LEMMA ReadList ==
    ASSUME NEW v, NEW kind \in {"strings", "rlimits", "namespaces", "hookList"}, Reads5(kind, v)
    PROVE  v.t = "arr" /\ \A k \in DOMAIN v.e : Reads4(ListOf[kind], v.e[k])
<1>1. kind \in DOMAIN ListOf \ DOMAIN Schema /\ kind \in Structured
  BY ListKinds DEF Structured
<1>2. Shape(kind, v) /\ \A k, w : <<k, w>> \in ReadFrom(kind, v) => Reads4(k, w)
  BY <1>1 DEF Reads5
<1> QED
  BY <1>1, <1>2, ElementRead

LEMMA ReadObject ==
    ASSUME NEW v, NEW kind \in DOMAIN Schema
    PROVE  /\ Reads6(kind, v) =>
                Shape(kind, v) /\ \A k, w : <<k, w>> \in ReadFrom(kind, v) => Reads5(k, w)
           /\ Reads4(kind, v) =>
                Shape(kind, v) /\ \A k, w : <<k, w>> \in ReadFrom(kind, v) => Reads3(k, w)
<1>1. kind \in Structured
  BY DEF Structured
<1> QED
  BY <1>1 DEF Reads6, Reads4

LEMMA ReadProcess ==
    ASSUME NEW v, Reads6("process", v)
    PROVE  /\ v.t = "obj" /\ "args" \in DOMAIN v.m /\ v.m["args"].t = "arr"
           /\ Has(v, "rlimits") => v.m["rlimits"].t = "arr"
<1>1. Shape("process", v) /\ \A k, w : <<k, w>> \in ReadFrom("process", v) => Reads5(k, w)
  BY ReadObject, SchemaOf
<1>2. v.t = "obj" /\ "args" \in DOMAIN v.m /\ <<"strings", v.m["args"]>> \in ReadFrom("process", v)
  BY <1>1, NeededRead, SchemaOf, ProcessMembers
<1>3. ASSUME Has(v, "rlimits") PROVE <<"rlimits", v.m["rlimits"]>> \in ReadFrom("process", v)
  BY <1>3, OptionalRead, SchemaOf, ProcessMembers
<1> QED
  BY <1>1, <1>2, <1>3, ReadList

LEMMA ReadHookList ==
    ASSUME NEW v, Reads6("hooks", v), NEW stage \in DOMAIN Hooks.may, Has(v, stage)
    PROVE  /\ v.m[stage].t = "arr"
           /\ \A k \in DOMAIN v.m[stage].e : Reads4("hook", v.m[stage].e[k])
<1>1. \A k, w : <<k, w>> \in ReadFrom("hooks", v) => Reads5(k, w)
  BY ReadObject, SchemaOf
<1>2. <<"hookList", v.m[stage]>> \in ReadFrom("hooks", v)
  BY OptionalRead, SchemaOf, HooksMembers
<1> QED
  BY <1>1, <1>2, ReadList, ListKinds

LEMMA ReadHooks ==
    ASSUME NEW v, Reads6("hooks", v), NEW stage \in DOMAIN Hooks.may, Has(v, stage),
           NEW k \in DOMAIN v.m[stage].e, Has(v.m[stage].e[k], "timeout")
    PROVE  v.m[stage].e[k].m["timeout"].t \in {"num", "bool"}
<1> DEFINE hook == v.m[stage].e[k]
<1>1. Reads4("hook", hook) /\ Has(hook, "timeout")
  BY ReadHookList
<1> HIDE DEF hook
<1>2. \A n, w : <<n, w>> \in ReadFrom("hook", hook) => Reads3(n, w)
  BY <1>1, ReadObject, SchemaOf
<1>3. <<"number", hook.m["timeout"]>> \in ReadFrom("hook", hook)
  BY <1>1, OptionalRead, SchemaOf, HookMembers
<1>4. ReadsScalar("number", hook.m["timeout"])
  BY <1>2, <1>3, ScalarKinds DEF Reads3
<1>5. hook.m["timeout"].t \in {"num", "bool"}
  BY <1>4, ScalarKinds DEF ReadsScalar
<1> QED
  BY <1>5 DEF hook

LEMMA ReadNamespaces ==
    ASSUME NEW v, Reads6("linux", v), Has(v, "namespaces")
    PROVE  /\ v.m["namespaces"].t = "arr"
           /\ \A k \in DOMAIN v.m["namespaces"].e :
                v.m["namespaces"].e[k].m["type"].v \in Names["namespaceType"]
<1>1. \A k, w : <<k, w>> \in ReadFrom("linux", v) => Reads5(k, w)
  BY ReadObject, SchemaOf
<1>2. <<"namespaces", v.m["namespaces"]>> \in ReadFrom("linux", v)
  BY OptionalRead, SchemaOf, LinuxMembers
<1>3. /\ v.m["namespaces"].t = "arr"
      /\ \A k \in DOMAIN v.m["namespaces"].e : Reads4("namespace", v.m["namespaces"].e[k])
  BY <1>1, <1>2, ReadList, ListKinds
<1>4. ASSUME NEW ns, Reads4("namespace", ns) PROVE ns.m["type"].v \in Names["namespaceType"]
  <2>1. Shape("namespace", ns)
        /\ \A k, w : <<k, w>> \in ReadFrom("namespace", ns) => Reads3(k, w)
    BY <1>4, ReadObject, SchemaOf
  <2>2. <<"namespaceType", ns.m["type"]>> \in ReadFrom("namespace", ns)
    BY <2>1, NeededRead, SchemaOf, NamespaceMembers
  <2>3. ReadsScalar("namespaceType", ns.m["type"])
    BY <2>1, <2>2, ScalarKinds DEF Reads3
  <2> QED
    BY <2>3, ScalarKinds DEF ReadsScalar
<1> QED
  BY <1>3, <1>4
-----------------------------------------------------------------------------
(* What holds of a configuration once it has passed a rule: of the document*)
(* for good, since it never changes, and of the mounts since no more are   *)
(* added after the first rule.                                             *)
ProcessAccepted == Has(doc, "process") => ProcessRules(Get(doc, "process"))
LinuxAccepted == Has(doc, "linux") => LinuxRules(Get(doc, "linux"))
HooksAccepted == Has(doc, "hooks") => HooksRules(Get(doc, "hooks"))
MountsAccepted == \A k \in DOMAIN mounts : MountRules(mounts[k])
BindsHaveSources ==
    \A k \in DOMAIN mounts : "BIND" \in mounts[k].vfs => Has(DocMounts[k], "source")
FlagsAreGenerated == flags = SIGCHLD \cup {ToCloneFlag[type] : type \in NamespaceTypes}

AcceptedInv ==
    /\ doc \in Documents
    /\ phase \notin {"read", "refused"} => ReadsConfig(doc)
    /\ phase \in {"validate linux", "validate hooks", "validate mounts", "construct",
                  "clone", "cloned"} => ProcessAccepted
    /\ phase \in {"validate hooks", "validate mounts", "construct", "clone", "cloned"}
         => LinuxAccepted
    /\ phase \in {"validate mounts", "construct", "clone", "cloned"} => HooksAccepted
    /\ phase \in {"construct", "clone", "cloned"} => MountsAccepted
    /\ phase \in {"clone", "cloned"} => BindsHaveSources
    /\ phase = "cloned" => FlagsAreGenerated

LEMMA AcceptedInvInit == ConfigInit => AcceptedInv
BY DEF ConfigInit, AcceptedInv

LEMMA RulesStay ==
    ASSUME doc' = doc
    PROVE  /\ ReadsConfig(doc)' = ReadsConfig(doc)
           /\ ProcessAccepted' = ProcessAccepted
           /\ LinuxAccepted' = LinuxAccepted
           /\ HooksAccepted' = HooksAccepted
           /\ NamespaceTypes' = NamespaceTypes
           /\ mounts' = mounts =>
                MountsAccepted' = MountsAccepted /\ BindsHaveSources' = BindsHaveSources
BY DEF ProcessAccepted, LinuxAccepted, HooksAccepted, NamespaceTypes, MountsAccepted,
       BindsHaveSources, DocMounts

LEMMA AcceptedInvNext == AcceptedInv /\ [ConfigNext]_configVars => AcceptedInv'
<1> SUFFICES ASSUME AcceptedInv, [ConfigNext]_configVars PROVE AcceptedInv'
  OBVIOUS
<1>1. doc' = doc
  BY DEF ConfigNext, configVars, ReadDocument, ReadMount, ReadMountOption, LeaveMount, MountsRead,
         ValidateProcess, ValidateLinux, ValidateHooks, ValidateMounts, Construct, GenerateCloneFlag
<1>2. CASE UNCHANGED configVars
  <2>1. FlagsAreGenerated' = FlagsAreGenerated
    BY <1>1, <1>2, RulesStay DEF FlagsAreGenerated, configVars
  <2> QED
    BY <1>1, <1>2, <2>1, RulesStay DEF AcceptedInv, configVars
<1>3. CASE ReadDocument
  BY <1>1, <1>3, RulesStay DEF AcceptedInv, ReadDocument, Check, Reject
<1>4. CASE ReadMount
  BY <1>1, <1>4, RulesStay DEF AcceptedInv, ReadMount
<1>5. CASE ReadMountOption
  BY <1>1, <1>5, RulesStay DEF AcceptedInv, ReadMountOption, Check, Reject
<1>6. CASE LeaveMount
  BY <1>1, <1>6, RulesStay DEF AcceptedInv, LeaveMount
<1>7. CASE MountsRead
  BY <1>1, <1>7, RulesStay DEF AcceptedInv, MountsRead
<1>8. CASE ValidateProcess
  <2>1. Check(ProcessAccepted, "validate linux") /\ phase = "validate process"
    BY <1>8 DEF ValidateProcess, ProcessAccepted
  <2> QED
    BY <1>1, <2>1, RulesStay DEF AcceptedInv, Check, Reject
<1>9. CASE ValidateLinux
  <2>1. Check(LinuxAccepted, "validate hooks") /\ phase = "validate linux"
    BY <1>9 DEF ValidateLinux, LinuxAccepted
  <2> QED
    BY <1>1, <2>1, RulesStay DEF AcceptedInv, Check, Reject
<1>10. CASE ValidateHooks
  <2>1. Check(HooksAccepted, "validate mounts") /\ phase = "validate hooks"
    BY <1>10 DEF ValidateHooks, HooksAccepted
  <2> QED
    BY <1>1, <2>1, RulesStay DEF AcceptedInv, Check, Reject
<1>11. CASE ValidateMounts
  <2>1. /\ phase = "validate mounts" /\ mounts' = mounts
        /\ phase' = "refused" \/ (phase' = "construct" /\ MountsAccepted)
    BY <1>11 DEF ValidateMounts, MountsAccepted, Check, Reject
  <2> QED
    BY <1>1, <2>1, RulesStay DEF AcceptedInv
<1>12. CASE Construct
  <2>1. /\ phase = "construct" /\ mounts' = mounts
        /\ phase' = "refused" \/ (phase' = "clone" /\ BindsHaveSources)
    BY <1>12 DEF Construct, BindsHaveSources, Check, Reject
  <2> QED
    BY <1>1, <2>1, RulesStay DEF AcceptedInv
<1>13. CASE GenerateCloneFlag
  <2>1. phase = "clone" /\ phase' = "cloned" /\ mounts' = mounts
    BY <1>13 DEF GenerateCloneFlag
  <2>2. flags' = SIGCHLD \cup {ToCloneFlag[type] : type \in NamespaceTypes}
    BY <1>13 DEF GenerateCloneFlag
  <2>3. FlagsAreGenerated'
    BY <1>1, <2>2, RulesStay DEF FlagsAreGenerated
  <2> QED
    BY <1>1, <2>1, <2>3, RulesStay DEF AcceptedInv
<1> QED
  BY <1>2, <1>3, <1>4, <1>5, <1>6, <1>7, <1>8, <1>9, <1>10, <1>11, <1>12, <1>13 DEF ConfigNext
-----------------------------------------------------------------------------
(* What is accepted can be used.                                           *)
LEMMA ImageCardinality ==
    ASSUME NEW K, IsFiniteSet(K), NEW f, \A j, k \in K : f[j] = f[k] => j = k
    PROVE  Cardinality({f[k] : k \in K}) = Cardinality(K)
<1> DEFINE image == {f[k] : k \in K}
           g == [k \in K |-> f[k]]
<1>1. g \in Bijection(K, image)
  BY DEF Bijection, Injection, Surjection, IsInjective
<1>2. ExistsBijection(K, image)
  BY <1>1 DEF ExistsBijection
<1> QED
  BY <1>2, FS_Bijection

(* The elements of a member that is a list.                                *)
LEMMA ElementValues ==
    ASSUME NEW v \in Values, NEW m, Has(v, m), v.m[m].t = "arr"
    PROVE  /\ v.m[m].e \in Seq(Values)
           /\ Elements(v, m) = v.m[m].e
           /\ DOMAIN v.m[m].e = 1 .. Len(v.m[m].e) /\ IsFiniteSet(DOMAIN v.m[m].e)
           /\ Cardinality(DOMAIN v.m[m].e) = Len(v.m[m].e)
           /\ \A k \in DOMAIN v.m[m].e : v.m[m].e[k] \in Values
<1>1. v.m[m] \in Values
  BY MemberValue DEF Get
<1>2. v.m[m].e \in Seq(Values)
  BY <1>1, ValuesAssumption DEF Json
<1> DEFINE e == v.m[m].e
<1>3. Elements(v, m) = e
  BY DEF Elements, Get
<1> HIDE DEF e
<1>4. DOMAIN e = 1 .. Len(e) /\ Len(e) \in Nat /\ \A k \in DOMAIN e : e[k] \in Values
  BY <1>2 DEF e
<1>5. IsFiniteSet(1 .. Len(e)) /\ Cardinality(1 .. Len(e)) = Len(e)
  BY <1>4, FS_Interval
<1> QED
  BY <1>2, <1>3, <1>4, <1>5 DEF e

LEMMA Int32Integer == ASSUME NEW n \in Int PROVE Int32(n) \in Int
<1> DEFINE half == Word \div 2
<1>1. half \in Int /\ Word \in Nat \ {0}
  BY IntegersAssumption
<1> HIDE DEF half
<1>2. (n + half) \in Int
  BY <1>1
<1>3. (n + half) % Word \in Int
  BY <1>1, <1>2
<1> QED
  BY <1>1, <1>3 DEF Int32, half

LEMMA UsableProcess ==
    ASSUME NEW v \in Values, Reads6("process", v), ProcessRules(v)
    PROVE  /\ Len(v.m["args"].e) > 0 /\ v.m["cwd"].abs
           /\ Has(v, "rlimits") =>
                LET l == Get(v, "rlimits")
                IN  Cardinality({l.e[k].m["type"].v : k \in DOMAIN l.e}) = Len(l.e)
<1>1. Elements(v, "args") # <<>> /\ Get(v, "cwd").abs /\ Distinct(v, "rlimits", "type")
  BY DEF ProcessRules
<1>2. Has(v, "args")
  BY <1>1 DEF Elements
<1>3. v.m["args"].e \in Seq(Values) /\ v.m["args"].e # <<>>
  BY <1>1, <1>2, ReadProcess, ElementValues
<1>4. Len(v.m["args"].e) > 0
  BY <1>3
<1>5. ASSUME Has(v, "rlimits")
      PROVE  LET l == Get(v, "rlimits")
             IN  Cardinality({l.e[k].m["type"].v : k \in DOMAIN l.e}) = Len(l.e)
  <2> DEFINE e == v.m["rlimits"].e
             f == [k \in DOMAIN e |-> e[k].m["type"].v]
  <2>1. v.m["rlimits"].t = "arr"
    BY <1>5, ReadProcess
  <2>2. Elements(v, "rlimits") = e /\ IsFiniteSet(DOMAIN e) /\ Cardinality(DOMAIN e) = Len(e)
    BY <1>5, <2>1, ElementValues
  <2>3. \A j, k \in DOMAIN e : f[j] = f[k] => j = k
    BY <1>1, <2>2 DEF Distinct, Get
  <2>4. {e[k].m["type"].v : k \in DOMAIN e} = {f[k] : k \in DOMAIN e}
    OBVIOUS
  <2> HIDE DEF f
  <2>5. Cardinality({f[k] : k \in DOMAIN e}) = Cardinality(DOMAIN e)
    BY <2>2, <2>3, ImageCardinality
  <2> QED
    BY <2>2, <2>4, <2>5 DEF Get
<1> QED
  BY <1>1, <1>4, <1>5 DEF Get

LEMMA UsableHooks ==
    ASSUME NEW v \in Values, Reads6("hooks", v), HooksRules(v),
           NEW stage \in DOMAIN Hooks.may, Has(v, stage), NEW k \in DOMAIN v.m[stage].e
    PROVE  LET w == v.m[stage].e[k]
           IN  w.m["path"].abs /\ (Has(w, "timeout") => Int32(w.m["timeout"].n) >= 0)
<1> DEFINE w == v.m[stage].e[k]
<1>1. v.m[stage].t = "arr"
  BY ReadHookList
<1>2. Elements(v, stage) = v.m[stage].e /\ w \in Values
  BY <1>1, ElementValues
<1>3. HookRules(w)
  BY <1>2 DEF HooksRules, AllElements
<1>4. w.m["path"].abs
  BY <1>3 DEF HookRules, Get
<1>5. ASSUME Has(w, "timeout") PROVE Int32(w.m["timeout"].n) >= 0
  <2>1. w.m["timeout"].t \in {"num", "bool"}
    BY <1>5, ReadHooks
  <2> HIDE DEF w
  <2>2. w.m["timeout"] \in Values
    BY <1>2, <1>5, MemberValue DEF Get
  <2>3. w.m["timeout"].n \in Int
    BY <2>1, <2>2, ValuesAssumption DEF Json
  <2>4. Int32(w.m["timeout"].n) > 0
    BY <1>3, <1>5 DEF HookRules, Get
  <2>5. Int32(w.m["timeout"].n) \in Int
    BY <2>3, Int32Integer
  <2> QED
    BY <2>4, <2>5
<1> QED
  BY <1>4, <1>5

LEMMA UsablePaths ==
    ASSUME NEW v, LinuxRules(v), NEW member \in {"maskedPaths", "readonlyPaths"}
    PROVE  \A k \in DOMAIN Elements(v, member) : Elements(v, member)[k].abs
BY DEF LinuxRules, AllElements

(* The flags of the namespaces are above the signal, but for the one of a  *)
(* time namespace, and no two are the same.                                *)
LEMMA CloneFlags ==
    /\ \A type \in Names["namespaceType"] :
          IF type = "time" THEN ToCloneFlag[type] \in SignalBits
          ELSE ToCloneFlag[type] \notin SignalBits
    /\ \A a, b \in Names["namespaceType"] : ToCloneFlag[a] = ToCloneFlag[b] => a = b
    /\ SIGCHLD \subseteq SignalBits
<1>1. \A type \in Names["namespaceType"] :
          \/ type = "time" /\ ToCloneFlag[type] = 7
          \/ type = "ipc" /\ ToCloneFlag[type] = 27
          \/ type = "uts" /\ ToCloneFlag[type] = 26
          \/ type = "mount" /\ ToCloneFlag[type] = 17
          \/ type = "pid" /\ ToCloneFlag[type] = 29
          \/ type = "network" /\ ToCloneFlag[type] = 30
          \/ type = "user" /\ ToCloneFlag[type] = 28
          \/ type = "cgroup" /\ ToCloneFlag[type] = 25
  BY ScalarKinds DEF ToCloneFlag
<1>2. \A type \in Names["namespaceType"] :
          IF type = "time" THEN ToCloneFlag[type] \in SignalBits
          ELSE ToCloneFlag[type] \notin SignalBits
  BY <1>1 DEF SignalBits
<1>3. \A a, b \in Names["namespaceType"] : ToCloneFlag[a] = ToCloneFlag[b] => a = b
  BY <1>1
<1> QED
  BY <1>2, <1>3 DEF SIGCHLD, SignalBits

LEMMA UsableFlags ==
    ASSUME doc \in Documents, FlagsAreGenerated,
           Has(doc, "linux") => Reads6("linux", Get(doc, "linux")),
           Has(doc, "linux") => LinuxRules(Get(doc, "linux"))
    PROVE  /\ Cardinality(flags \ SignalBits) =
                Cardinality({k \in DOMAIN ListOfLinux("namespaces") :
                                ListOfLinux("namespaces")[k].m["type"].v # "time"})
           /\ "time" \notin NamespaceTypes => flags \cap SignalBits = SIGCHLD
<1> DEFINE e == ListOfLinux("namespaces")
           type == [k \in DOMAIN e |-> e[k].m["type"].v]
           K == {k \in DOMAIN e : type[k] # "time"}
           flag == [k \in DOMAIN e |-> ToCloneFlag[type[k]]]
<1>1. /\ NamespaceTypes = {type[k] : k \in DOMAIN e}
      /\ IsFiniteSet(DOMAIN e)
      /\ \A k \in DOMAIN e : type[k] \in Names["namespaceType"]
      /\ \A j, k \in DOMAIN e : type[j] = type[k] => j = k
  <2>1. CASE Has(doc, "linux") /\ Has(Get(doc, "linux"), "namespaces")
    <3> DEFINE linux == Get(doc, "linux")
    <3>1. linux \in Values
      BY <2>1, MemberValue, ValuesAssumption
    <3>2. Reads6("linux", linux) /\ Distinct(linux, "namespaces", "type")
      BY <2>1 DEF LinuxRules, NamespacesRules
    <3>3. Has(linux, "namespaces") /\ e = Elements(linux, "namespaces")
      BY <2>1 DEF ListOfLinux
    <3>4. NamespaceTypes =
            {Get(v, "type").v : v \in {Elements(linux, "namespaces")[k] :
                                         k \in DOMAIN Elements(linux, "namespaces")}}
      BY <2>1 DEF NamespaceTypes
    <3> HIDE DEF linux
    <3>5. /\ linux.m["namespaces"].t = "arr"
          /\ \A k \in DOMAIN linux.m["namespaces"].e :
                linux.m["namespaces"].e[k].m["type"].v \in Names["namespaceType"]
      BY <3>2, <3>3, ReadNamespaces
    <3>6. e = linux.m["namespaces"].e /\ IsFiniteSet(DOMAIN e)
      BY <3>1, <3>3, <3>5, ElementValues
    <3>7. \A j, k \in DOMAIN e : type[j] = type[k] => j = k
      BY <3>2, <3>3 DEF Distinct, Get
    <3>8. NamespaceTypes = {type[k] : k \in DOMAIN e}
      BY <3>3, <3>4 DEF Get
    <3> QED
      BY <3>5, <3>6, <3>7, <3>8
  <2>2. CASE ~(Has(doc, "linux") /\ Has(Get(doc, "linux"), "namespaces"))
    <3>1. e = <<>>
      BY <2>2 DEF ListOfLinux, Elements
    <3>2. DOMAIN e = {}
      BY <3>1
    <3>3. NamespaceTypes = {}
      BY <2>2 DEF NamespaceTypes, Elements
    <3> QED
      BY <3>2, <3>3, FS_EmptySet
  <2> QED
    BY <2>1, <2>2
<1>2. {k \in DOMAIN e : e[k].m["type"].v # "time"} = K
  OBVIOUS
<1>3. flags = SIGCHLD \cup {flag[k] : k \in DOMAIN e}
  BY <1>1 DEF FlagsAreGenerated
<1>4. /\ \A k \in DOMAIN e : flag[k] \in SignalBits <=> type[k] = "time"
      /\ \A j, k \in DOMAIN e : flag[j] = flag[k] => j = k
  <2>1. \A k \in DOMAIN e : flag[k] = ToCloneFlag[type[k]]
    OBVIOUS
  <2> HIDE DEF e, type, flag
  <2> QED
    BY <1>1, <2>1, CloneFlags
<1>5. K \subseteq DOMAIN e /\ \A k \in DOMAIN e : k \in K <=> type[k] # "time"
  OBVIOUS
<1>6. (\E k \in DOMAIN e : type[k] = "time") \/ K = DOMAIN e
  OBVIOUS
<1> HIDE DEF e, type, flag, K
<1>7. flags \ SignalBits = {flag[k] : k \in K}
  BY <1>3, <1>4, <1>5, CloneFlags
<1>8. IsFiniteSet(K)
  BY <1>1, <1>5, FS_Subset
<1>9. Cardinality({flag[k] : k \in K}) = Cardinality(K)
  BY <1>4, <1>5, <1>8, ImageCardinality
<1>10. ASSUME "time" \notin NamespaceTypes PROVE flags \cap SignalBits = SIGCHLD
  BY <1>1, <1>3, <1>4, <1>10, CloneFlags
<1> QED
  BY <1>2, <1>7, <1>9, <1>10 DEF e

(* Of any configuration: one that is accepted has a program to run, an     *)
(* absolute working directory, one limit of a kind, hooks whose paths are  *)
(* absolute and whose timeouts are not negative, a source for every bind   *)
(* mount, the maps of a mount both or neither, absolute masked paths, and  *)
(* clone is asked for as many namespaces as it has, with SIGCHLD, but for a*)
(* time namespace (validate.cpp, container.cpp:2233 and 1642).             *)
THEOREM UsableTheorem == ConfigSpec => []AcceptedIsUsable
<1>1. ASSUME AcceptedInv, phase = "cloned" PROVE AcceptedIsUsable
  <2>1. /\ doc \in Documents /\ ReadsConfig(doc) /\ ProcessAccepted /\ LinuxAccepted
        /\ HooksAccepted /\ MountsAccepted /\ BindsHaveSources /\ FlagsAreGenerated
    BY <1>1 DEF AcceptedInv
  <2>2. doc \in Values
    BY <2>1, ValuesAssumption
  <2>3. ASSUME Has(doc, "process")
        PROVE  LET process == Get(doc, "process")
               IN  /\ process \in Values
                   /\ Len(process.m["args"].e) > 0 /\ process.m["cwd"].abs
                   /\ Has(process, "rlimits") =>
                        LET l == Get(process, "rlimits")
                        IN  Cardinality({l.e[k].m["type"].v : k \in DOMAIN l.e}) = Len(l.e)
    <3>1. Get(doc, "process") \in Values
      BY <2>2, <2>3, MemberValue
    <3>2. Reads6("process", Get(doc, "process")) /\ ProcessRules(Get(doc, "process"))
      BY <2>1, <2>3, ReadParts DEF ProcessAccepted
    <3> QED
      BY <3>1, <3>2, UsableProcess
  <2>4. Used("process", "rlimits", LAMBDA v :
            Cardinality({v.e[k].m["type"].v : k \in DOMAIN v.e}) = Len(v.e))
    BY <2>3 DEF Used
  <2>5. \A stage \in DOMAIN Hooks.may : Used("hooks", stage, LAMBDA v :
            \A k \in DOMAIN v.e : /\ v.e[k].m["path"].abs
                                  /\ Has(v.e[k], "timeout") =>
                                        Int32(v.e[k].m["timeout"].n) >= 0)
    <3> SUFFICES ASSUME NEW stage \in DOMAIN Hooks.may,
                        Has(doc, "hooks"), Has(Get(doc, "hooks"), stage),
                        NEW k \in DOMAIN Get(Get(doc, "hooks"), stage).e
                 PROVE  LET w == Get(Get(doc, "hooks"), stage).e[k]
                        IN  /\ w.m["path"].abs
                            /\ Has(w, "timeout") => Int32(w.m["timeout"].n) >= 0
      BY DEF Used
    <3>1. Get(doc, "hooks") \in Values
      BY <2>2, MemberValue
    <3>2. Reads6("hooks", Get(doc, "hooks")) /\ HooksRules(Get(doc, "hooks"))
      BY <2>1, ReadParts DEF HooksAccepted
    <3>3. Get(Get(doc, "hooks"), stage) = Get(doc, "hooks").m[stage]
      BY DEF Get
    <3> QED
      BY <3>1, <3>2, <3>3, UsableHooks
  <2>6. \A k \in DOMAIN mounts :
            /\ "BIND" \in mounts[k].vfs => Has(DocMounts[k], "source")
            /\ (mounts[k].uids # NoMap) <=> (mounts[k].gids # NoMap)
    BY <2>1 DEF MountsAccepted, BindsHaveSources, MountRules
  <2>7. \A member \in {"maskedPaths", "readonlyPaths"} :
            \A k \in DOMAIN ListOfLinux(member) : ListOfLinux(member)[k].abs
    <3> SUFFICES ASSUME NEW member \in {"maskedPaths", "readonlyPaths"}
                 PROVE  \A k \in DOMAIN ListOfLinux(member) : ListOfLinux(member)[k].abs
      OBVIOUS
    <3>1. CASE Has(doc, "linux")
      <4>1. ListOfLinux(member) = Elements(Get(doc, "linux"), member)
        BY <3>1 DEF ListOfLinux
      <4>2. LinuxRules(Get(doc, "linux"))
        BY <2>1, <3>1 DEF LinuxAccepted
      <4> QED
        BY <4>1, <4>2, UsablePaths
    <3>2. CASE ~Has(doc, "linux")
      BY <3>2 DEF ListOfLinux
    <3> QED
      BY <3>1, <3>2
  <2>8. /\ Cardinality(flags \ SignalBits) =
             Cardinality({k \in DOMAIN ListOfLinux("namespaces") :
                             ListOfLinux("namespaces")[k].m["type"].v # "time"})
        /\ "time" \notin NamespaceTypes => flags \cap SignalBits = SIGCHLD
    BY <2>1, ReadParts, UsableFlags DEF LinuxAccepted
  <2> QED
    BY <2>3, <2>4, <2>5, <2>6, <2>7, <2>8 DEF AcceptedIsUsable
<1>2. AcceptedInv => AcceptedIsUsable
  BY <1>1 DEF AcceptedIsUsable
<1> QED
  BY AcceptedInvInit, AcceptedInvNext, <1>2, PTL DEF ConfigSpec
-----------------------------------------------------------------------------
(* The invariant.  What the process has at a step is said as a function of *)
(* the request, set by set, for the steps up to the call that changes it   *)
(* and from there on.                                                      *)

CredFields == {"uid", "gid", "groups", "E", "P", "I", "A", "B", "keep", "nnp"}
MapFields == {"uids", "gids", "deny"}
IsRecord(r, fields) == r = [f \in fields |-> r[f]]

CredRecord == IsRecord(cred, CredFields) /\ IsRecord(userns, MapFields)

Bound == IF ask.userNs THEN Caps ELSE ask.launcher.bound
BoundAsked == IF HasCaps /\ BoundingGiven THEN Bound \cap CapSet("bounding") ELSE Bound

(* The steps, as the code runs through them.                               *)
ToUid == {"bounding", "keepcaps", "groups", "gid", "uid"}
Waiting == {"uidmap", "gidmap", "child", "limit"}
Dropped == {"keepcaps", "groups", "gid", "uid", "caps", "ambient", "nnp", "execve"}
Mapped == {"child", "limit", "running"} \cup IdentitySteps \cup {"execve"}
AfterCaps == {"ambient", "nnp", "execve"}

FullUntilUid ==
    /\ step \in {"start", "clone"} => cred.E = ask.launcher.caps /\ cred.P = ask.launcher.caps
                                       /\ cred.B = ask.launcher.bound
    /\ step \in Waiting \cup ToUid => cred.E = Available
    /\ step \in Waiting \cup ToUid \/ (step = "caps" /\ HasCaps) => cred.P = Available
    /\ step \in Waiting \cup ToUid \cup {"caps"} => cred.I = KeptInheritable
    /\ step \in {"start", "clone"} => cred.A = ask.launcher.amb /\ cred.I = ask.launcher.inh
    /\ step \in Waiting \cup ToUid => cred.A = IF ask.userNs THEN {} ELSE ask.launcher.amb
    /\ step = "caps" => cred.A = KeptAmbient
    /\ step = "caps" /\ IsRoot(cred.uid) => cred.P = Available

BoundingDropped ==
    /\ step \in Waiting \cup {"bounding"} => cred.B = Bound
    /\ step \in Dropped => cred.B = BoundAsked

KeptWhileNeeded == step \in {"groups", "gid", "uid"} => cred.keep = HasCaps

MapsAsAsked ==
    /\ step \in Mapped => userns.uids = AskedUids /\ userns.gids = AskedGids
    /\ step = "uidmap" => userns.uids = {} /\ userns.gids = {}
    /\ step = "gidmap" => userns.uids = AskedUids /\ userns.gids = {}
    /\ step \in {"uidmap", "gidmap"} => ask.userNs
    /\ step \in {"start", "clone"} => userns.uids = Identity /\ userns.gids = Identity

GroupsTaken ==
    /\ step \in {"start", "clone"} \cup Waiting \cup {"bounding", "keepcaps", "groups"} =>
         cred.groups = ask.launcher.groups
    /\ step \in {"gid", "uid", "caps", "running"} \cup AfterCaps =>
         \/ cred.groups = {HostId(AskedGids, g) : g \in ask.user.groups}
         \/ userns.deny /\ ask.user.groups = {} /\ cred.groups = ask.launcher.groups

IdsTaken ==
    /\ step \in {"uid", "caps", "running"} \cup AfterCaps =>
         cred.gid = HostId(AskedGids, ask.user.gid)
    /\ step \in {"caps", "running"} \cup AfterCaps =>
         cred.uid = HostId(AskedUids, ask.user.uid)
    /\ step \in {"start", "clone"} \cup Waiting \cup ToUid => cred.uid = ask.launcher.uid

CapsTaken ==
    /\ step \in AfterCaps /\ HasCaps =>
         cred.P = CapSet("permitted") /\ cred.I = CapSet("inheritable")
    /\ step \in AfterCaps /\ ~HasCaps =>
         /\ cred.I = KeptInheritable
         /\ IsRoot(cred.uid) => cred.P = Available
    /\ step \in {"nnp", "execve"} => cred.A = AmbientAtExec
    /\ step = "ambient" =>
         HasCaps /\ cred.A = CapSet("permitted") \cap CapSet("inheritable") \cap KeptAmbient
    /\ step = "execve" => (cred.nnp <=> ask.nnp \/ ask.launcher.nnp)
    /\ step \in {"start", "clone"} \cup Waiting \cup ToUid \cup {"caps", "ambient", "nnp"} =>
         cred.nnp = ask.launcher.nnp

Inv ==
    /\ CredRecord
    /\ FullUntilUid
    /\ BoundingDropped
    /\ KeptWhileNeeded
    /\ MapsAsAsked
    /\ GroupsTaken
    /\ IdsTaken
    /\ CapsTaken
    /\ CapabilitiesAsAsked

-----------------------------------------------------------------------------
(* The request never changes, nor what is asked in it.                     *)
LEMMA Fixed ==
    ASSUME ask' = ask
    PROVE  /\ HasCaps' = HasCaps
           /\ BoundingGiven' = BoundingGiven
           /\ CapSet("bounding")' = CapSet("bounding")
           /\ CapSet("effective")' = CapSet("effective")
           /\ CapSet("permitted")' = CapSet("permitted")
           /\ CapSet("inheritable")' = CapSet("inheritable")
           /\ CapSet("ambient")' = CapSet("ambient")
           /\ Available' = Available
           /\ AskedUids' = AskedUids
           /\ AskedGids' = AskedGids
           /\ Bound' = Bound
           /\ BoundAsked' = BoundAsked
           /\ LeavesRoot' = LeavesRoot
           /\ KeptAmbient' = KeptAmbient
           /\ KeptInheritable' = KeptInheritable
           /\ AmbientAtExec' = AmbientAtExec
           /\ GainedByRoot' = GainedByRoot
<1>1. CapSets' = CapSets
  BY DEF CapSets
<1>2. HasCaps' = HasCaps /\ BoundingGiven' = BoundingGiven
  BY <1>1 DEF HasCaps, BoundingGiven
<1>3. /\ CapSet("bounding")' = CapSet("bounding")
      /\ CapSet("effective")' = CapSet("effective")
      /\ CapSet("permitted")' = CapSet("permitted")
      /\ CapSet("inheritable")' = CapSet("inheritable")
      /\ CapSet("ambient")' = CapSet("ambient")
  BY <1>1 DEF CapSet
<1>4. Available' = Available /\ AskedUids' = AskedUids /\ AskedGids' = AskedGids
  BY DEF Available, AskedUids, AskedGids
<1>5. Bound' = Bound
  BY DEF Bound
<1>6. BoundAsked' = BoundAsked
  BY <1>2, <1>3, <1>5 DEF BoundAsked
<1>7. /\ LeavesRoot' = LeavesRoot
      /\ KeptAmbient' = KeptAmbient
      /\ KeptInheritable' = KeptInheritable
  <2>1. LeavesRoot' = LeavesRoot
    BY <1>4 DEF LeavesRoot
  <2> QED
    BY <2>1 DEF KeptAmbient, KeptInheritable
<1>8. AmbientGiven' = AmbientGiven
  BY <1>1 DEF AmbientGiven
<1>9. AmbientAtExec' = AmbientAtExec
  BY <1>2, <1>3, <1>7, <1>8 DEF AmbientAtExec
<1>10. GainedByRoot' = GainedByRoot
  BY <1>2, <1>3, <1>4, <1>7 DEF GainedByRoot
<1> QED
  BY <1>2, <1>3, <1>4, <1>5, <1>6, <1>7, <1>9, <1>10

(* Without a user namespace root is the host's.                            *)
LEMMA HostsRoot == HostId(Identity, Root) = Root
<1> DEFINE e == [c |-> 0, h |-> 0, size |-> NoId]
<1>1. Root \in Inside(e)
  BY DEF Root, Inside, NoId
<1>2. \A f \in Identity : f = e
  BY DEF Identity
<1>3. PICK f \in Identity : f = CHOOSE g \in Identity : Root \in Inside(g)
  BY <1>1 DEF Identity
<1>4. HostId(Identity, Root) = f.h + (Root - f.c)
  BY <1>1, <1>3 DEF HostId, Identity
<1> QED
  BY <1>2, <1>4 DEF Root

(* What leaving root keeps.                                                 *)
LEMMA WithUidIs ==
    ASSUME NEW c, IsRecord(c, CredFields), NEW uid
    PROVE  LET d == WithUid(c, uid)
           IN  /\ IsRecord(d, CredFields)
               /\ d.uid = uid
               /\ \A f \in {"gid", "groups", "I", "B", "keep", "nnp"} : d[f] = c[f]
               /\ c.keep => d.P = c.P
               /\ IsRoot(uid) => d.P = c.P
               /\ d.A = IF IsRoot(c.uid) /\ ~IsRoot(uid) THEN {} ELSE c.A
BY DEF WithUid, IsRecord, CredFields

-----------------------------------------------------------------------------
(* Each step keeps the invariant.                                        *)

LEMMA LimitRuntimeStep ==
    ASSUME Inv, LimitRuntime
    PROVE  Inv'
<1> USE DEF IsRecord, CredFields, MapFields, Waiting, ToUid, Dropped, Mapped, AfterCaps, IdentitySteps
<1>0. ask' = ask
  BY DEF LimitRuntime
<1>1. CredRecord'
  BY <1>0, Fixed DEF Inv, CredRecord, LimitRuntime, Go, Refuse
<1>2. FullUntilUid'
  BY <1>0, Fixed DEF Inv, CredRecord, LimitRuntime, Go, Refuse, FullUntilUid, MapsAsAsked, KeptWhileNeeded
<1>3. BoundingDropped'
  BY <1>0, Fixed DEF Inv, CredRecord, LimitRuntime, Go, Refuse, BoundingDropped, BoundAsked, FullUntilUid
<1>4. KeptWhileNeeded'
  BY <1>0, Fixed DEF Inv, CredRecord, LimitRuntime, Go, Refuse, KeptWhileNeeded
<1>5. MapsAsAsked'
  BY <1>0, Fixed DEF Inv, CredRecord, LimitRuntime, Go, Refuse, MapsAsAsked, AskedUids, AskedGids, Given, The
<1>6. GroupsTaken'
  BY <1>0, Fixed DEF Inv, CredRecord, LimitRuntime, Go, Refuse, GroupsTaken, MapsAsAsked
<1>7. IdsTaken'
  BY <1>0, Fixed DEF Inv, CredRecord, LimitRuntime, Go, Refuse, IdsTaken, MapsAsAsked
<1>8. CapsTaken'
  BY <1>0, Fixed DEF Inv, CredRecord, LimitRuntime, Go, Refuse, CapsTaken, FullUntilUid
<1>9. CapabilitiesAsAsked'
  BY <1>0, Fixed DEF Inv, CredRecord, LimitRuntime, Go, Refuse, CapabilitiesAsAsked
<1> QED
  BY <1>1, <1>2, <1>3, <1>4, <1>5, <1>6, <1>7, <1>8, <1>9 DEF Inv

LEMMA CloneStep ==
    ASSUME Inv, Clone
    PROVE  Inv'
<1> USE DEF IsRecord, CredFields, MapFields, Waiting, ToUid, Dropped, Mapped, AfterCaps, IdentitySteps
<1>0. ask' = ask
  BY DEF Clone
<1>1. CredRecord'
  BY <1>0, Fixed DEF Inv, CredRecord, Clone, Go, FullCaps
<1>2. FullUntilUid'
  BY <1>0, Fixed DEF Inv, CredRecord, Clone, Go, FullCaps, FullUntilUid, MapsAsAsked, KeptWhileNeeded, Bound, Available, KeptInheritable
<1>3. BoundingDropped'
  BY <1>0, Fixed DEF Inv, CredRecord, Clone, Go, FullCaps, BoundingDropped, FullUntilUid, Bound, Available, BoundAsked
<1>4. KeptWhileNeeded'
  BY <1>0, Fixed DEF Inv, CredRecord, Clone, Go, FullCaps, KeptWhileNeeded
<1>5. MapsAsAsked'
  BY <1>0, Fixed DEF Inv, CredRecord, Clone, Go, FullCaps, MapsAsAsked, AskedUids, AskedGids, Given, The
<1>6. GroupsTaken'
  BY <1>0, Fixed DEF Inv, CredRecord, Clone, Go, FullCaps, GroupsTaken, MapsAsAsked
<1>7. IdsTaken'
  BY <1>0, Fixed DEF Inv, CredRecord, Clone, Go, FullCaps, IdsTaken, MapsAsAsked
<1>8. CapsTaken'
  BY <1>0, Fixed DEF Inv, CredRecord, Clone, Go, FullCaps, CapsTaken, FullUntilUid
<1>9. CapabilitiesAsAsked'
  BY <1>0, Fixed DEF Inv, CredRecord, Clone, Go, FullCaps, CapabilitiesAsAsked
<1> QED
  BY <1>1, <1>2, <1>3, <1>4, <1>5, <1>6, <1>7, <1>8, <1>9 DEF Inv

LEMMA MapUidsStep ==
    ASSUME Inv, MapUids, ENOENT \notin HelperExits
    PROVE  Inv'
<1> USE DEF IsRecord, CredFields, MapFields, Waiting, ToUid, Dropped, Mapped, AfterCaps, IdentitySteps
<1>0. ask' = ask
  BY DEF MapUids
<1>1. CredRecord'
  BY <1>0, Fixed DEF Inv, CredRecord, MapUids, Go, Refuse
<1>2. FullUntilUid'
  BY <1>0, Fixed DEF Inv, CredRecord, MapUids, Go, Refuse, FullUntilUid, MapsAsAsked, KeptWhileNeeded
<1>3. BoundingDropped'
  BY <1>0, Fixed DEF Inv, CredRecord, MapUids, Go, Refuse, BoundingDropped, BoundAsked, FullUntilUid
<1>4. KeptWhileNeeded'
  BY <1>0, Fixed DEF Inv, CredRecord, MapUids, Go, Refuse, KeptWhileNeeded
<1>5. MapsAsAsked'
  BY <1>0, Fixed DEF Inv, CredRecord, MapUids, Go, Refuse, MapsAsAsked, AskedUids, AskedGids, Given, Mappings, The
<1>6. GroupsTaken'
  BY <1>0, Fixed DEF Inv, CredRecord, MapUids, Go, Refuse, GroupsTaken, MapsAsAsked
<1>7. IdsTaken'
  BY <1>0, Fixed DEF Inv, CredRecord, MapUids, Go, Refuse, IdsTaken, MapsAsAsked
<1>8. CapsTaken'
  BY <1>0, Fixed DEF Inv, CredRecord, MapUids, Go, Refuse, CapsTaken, FullUntilUid
<1>9. CapabilitiesAsAsked'
  BY <1>0, Fixed DEF Inv, CredRecord, MapUids, Go, Refuse, CapabilitiesAsAsked
<1> QED
  BY <1>1, <1>2, <1>3, <1>4, <1>5, <1>6, <1>7, <1>8, <1>9 DEF Inv

LEMMA MapGidsStep ==
    ASSUME Inv, MapGids, ENOENT \notin HelperExits
    PROVE  Inv'
<1> USE DEF IsRecord, CredFields, MapFields, Waiting, ToUid, Dropped, Mapped, AfterCaps, IdentitySteps
<1>0. ask' = ask
  BY DEF MapGids
<1>1. CredRecord'
  BY <1>0, Fixed DEF Inv, CredRecord, MapGids, Go, Refuse
<1>2. FullUntilUid'
  BY <1>0, Fixed DEF Inv, CredRecord, MapGids, Go, Refuse, FullUntilUid, MapsAsAsked, KeptWhileNeeded
<1>3. BoundingDropped'
  BY <1>0, Fixed DEF Inv, CredRecord, MapGids, Go, Refuse, BoundingDropped, BoundAsked, FullUntilUid
<1>4. KeptWhileNeeded'
  BY <1>0, Fixed DEF Inv, CredRecord, MapGids, Go, Refuse, KeptWhileNeeded
<1>5. MapsAsAsked'
  BY <1>0, Fixed DEF Inv, CredRecord, MapGids, Go, Refuse, MapsAsAsked, AskedUids, AskedGids, Given, Mappings, The
<1>6. GroupsTaken'
  BY <1>0, Fixed DEF Inv, CredRecord, MapGids, Go, Refuse, GroupsTaken, MapsAsAsked
<1>7. IdsTaken'
  BY <1>0, Fixed DEF Inv, CredRecord, MapGids, Go, Refuse, IdsTaken, MapsAsAsked
<1>8. CapsTaken'
  BY <1>0, Fixed DEF Inv, CredRecord, MapGids, Go, Refuse, CapsTaken, FullUntilUid
<1>9. CapabilitiesAsAsked'
  BY <1>0, Fixed DEF Inv, CredRecord, MapGids, Go, Refuse, CapabilitiesAsAsked
<1> QED
  BY <1>1, <1>2, <1>3, <1>4, <1>5, <1>6, <1>7, <1>8, <1>9 DEF Inv

LEMMA InContainerStep ==
    ASSUME Inv, NEW hasProc, NEW writable, InContainer(hasProc, writable)
    PROVE  Inv'
<1> USE DEF IsRecord, CredFields, MapFields, Waiting, ToUid, Dropped, Mapped, AfterCaps, IdentitySteps
<1>0. ask' = ask
  BY DEF InContainer
<1>1. CredRecord'
  BY <1>0, Fixed DEF Inv, CredRecord, InContainer, Go, Refuse
<1>2. FullUntilUid'
  BY <1>0, Fixed DEF Inv, CredRecord, InContainer, Go, Refuse, FullUntilUid, MapsAsAsked, KeptWhileNeeded
<1>3. BoundingDropped'
  BY <1>0, Fixed DEF Inv, CredRecord, InContainer, Go, Refuse, BoundingDropped, BoundAsked, FullUntilUid
<1>4. KeptWhileNeeded'
  BY <1>0, Fixed DEF Inv, CredRecord, InContainer, Go, Refuse, KeptWhileNeeded
<1>5. MapsAsAsked'
  BY <1>0, Fixed DEF Inv, CredRecord, InContainer, Go, Refuse, MapsAsAsked, AskedUids, AskedGids, Given, The
<1>6. GroupsTaken'
  BY <1>0, Fixed DEF Inv, CredRecord, InContainer, Go, Refuse, GroupsTaken, MapsAsAsked
<1>7. IdsTaken'
  BY <1>0, Fixed DEF Inv, CredRecord, InContainer, Go, Refuse, IdsTaken, MapsAsAsked
<1>8. CapsTaken'
  BY <1>0, Fixed DEF Inv, CredRecord, InContainer, Go, Refuse, CapsTaken, FullUntilUid
<1>9. CapabilitiesAsAsked'
  BY <1>0, Fixed DEF Inv, CredRecord, InContainer, Go, Refuse, CapabilitiesAsAsked
<1> QED
  BY <1>1, <1>2, <1>3, <1>4, <1>5, <1>6, <1>7, <1>8, <1>9 DEF Inv

LEMMA JoinStep ==
    ASSUME Inv, NEW hasProc \in BOOLEAN, Join(hasProc)
    PROVE  Inv'
<1> USE DEF IsRecord, CredFields, MapFields, Waiting, ToUid, Dropped, Mapped, AfterCaps, IdentitySteps
<1>0. ask' = ask
  BY DEF Join
<1>1. CredRecord'
  BY <1>0, Fixed DEF Inv, CredRecord, Join, Go, FullCaps
<1>2. FullUntilUid'
  BY <1>0, Fixed DEF Inv, CredRecord, Join, Go, FullCaps, FullUntilUid, MapsAsAsked, KeptWhileNeeded, Bound, Available, KeptInheritable
<1>3. BoundingDropped'
  BY <1>0, Fixed DEF Inv, CredRecord, Join, Go, FullCaps, BoundingDropped, FullUntilUid, Bound, Available, BoundAsked
<1>4. KeptWhileNeeded'
  BY <1>0, Fixed DEF Inv, CredRecord, Join, Go, FullCaps, KeptWhileNeeded
<1>5. MapsAsAsked'
  <2>1. CASE ask.userNs
    <3>1. /\ userns'.uids = The(ask.uidMap)
          /\ userns'.gids = The(ask.gidMap)
      BY <2>1 DEF Join, Given, The
    <3> QED
      BY <1>0, <2>1, <3>1 DEF MapsAsAsked, AskedUids, AskedGids, Join, Go
  <2>2. CASE ~ask.userNs
    BY <1>0, <2>2 DEF Inv, MapsAsAsked, AskedUids, AskedGids, Join, Go
  <2> QED
    BY <2>1, <2>2
<1>6. GroupsTaken'
  BY <1>0, Fixed DEF Inv, CredRecord, Join, Go, FullCaps, GroupsTaken, MapsAsAsked
<1>7. IdsTaken'
  BY <1>0, Fixed DEF Inv, CredRecord, Join, Go, FullCaps, IdsTaken, MapsAsAsked
<1>8. CapsTaken'
  BY <1>0, Fixed DEF Inv, CredRecord, Join, Go, FullCaps, CapsTaken, FullUntilUid
<1>9. CapabilitiesAsAsked'
  BY <1>0, Fixed DEF Inv, CredRecord, Join, Go, FullCaps, CapabilitiesAsAsked
<1> QED
  BY <1>1, <1>2, <1>3, <1>4, <1>5, <1>6, <1>7, <1>8, <1>9 DEF Inv

LEMMA LimitExecStep ==
    ASSUME Inv, LimitExec
    PROVE  Inv'
<1> USE DEF IsRecord, CredFields, MapFields, Waiting, ToUid, Dropped, Mapped, AfterCaps, IdentitySteps
<1>0. ask' = ask
  BY DEF LimitExec
<1>1. CredRecord'
  BY <1>0, Fixed DEF Inv, CredRecord, LimitExec, Go, Refuse
<1>2. FullUntilUid'
  BY <1>0, Fixed DEF Inv, CredRecord, LimitExec, Go, Refuse, FullUntilUid, MapsAsAsked, KeptWhileNeeded
<1>3. BoundingDropped'
  BY <1>0, Fixed DEF Inv, CredRecord, LimitExec, Go, Refuse, BoundingDropped, BoundAsked, FullUntilUid
<1>4. KeptWhileNeeded'
  BY <1>0, Fixed DEF Inv, CredRecord, LimitExec, Go, Refuse, KeptWhileNeeded
<1>5. MapsAsAsked'
  BY <1>0, Fixed DEF Inv, CredRecord, LimitExec, Go, Refuse, MapsAsAsked, AskedUids, AskedGids, Given, The
<1>6. GroupsTaken'
  BY <1>0, Fixed DEF Inv, CredRecord, LimitExec, Go, Refuse, GroupsTaken, MapsAsAsked
<1>7. IdsTaken'
  BY <1>0, Fixed DEF Inv, CredRecord, LimitExec, Go, Refuse, IdsTaken, MapsAsAsked
<1>8. CapsTaken'
  BY <1>0, Fixed DEF Inv, CredRecord, LimitExec, Go, Refuse, CapsTaken, FullUntilUid
<1>9. CapabilitiesAsAsked'
  BY <1>0, Fixed DEF Inv, CredRecord, LimitExec, Go, Refuse, CapabilitiesAsAsked
<1> QED
  BY <1>1, <1>2, <1>3, <1>4, <1>5, <1>6, <1>7, <1>8, <1>9 DEF Inv

LEMMA DropBoundingStep ==
    ASSUME Inv, DropBounding
    PROVE  Inv'
<1> USE DEF IsRecord, CredFields, MapFields, Waiting, ToUid, Dropped, Mapped, AfterCaps, IdentitySteps
<1>0. ask' = ask
  BY DEF DropBounding
<1>1. CredRecord'
  BY <1>0, Fixed DEF Inv, CredRecord, DropBounding, Apply, Go, Refuse
<1>2. FullUntilUid'
  BY <1>0, Fixed DEF Inv, CredRecord, DropBounding, Apply, Go, Refuse, FullUntilUid, MapsAsAsked, KeptWhileNeeded
<1>3. BoundingDropped'
  BY <1>0, Fixed DEF Inv, CredRecord, DropBounding, Apply, Go, Refuse, BoundingDropped, BoundAsked, FullUntilUid
<1>4. KeptWhileNeeded'
  BY <1>0, Fixed DEF Inv, CredRecord, DropBounding, Apply, Go, Refuse, KeptWhileNeeded
<1>5. MapsAsAsked'
  BY <1>0, Fixed DEF Inv, CredRecord, DropBounding, Apply, Go, Refuse, MapsAsAsked, AskedUids, AskedGids, Given, The
<1>6. GroupsTaken'
  BY <1>0, Fixed DEF Inv, CredRecord, DropBounding, Apply, Go, Refuse, GroupsTaken, MapsAsAsked
<1>7. IdsTaken'
  BY <1>0, Fixed DEF Inv, CredRecord, DropBounding, Apply, Go, Refuse, IdsTaken, MapsAsAsked
<1>8. CapsTaken'
  BY <1>0, Fixed DEF Inv, CredRecord, DropBounding, Apply, Go, Refuse, CapsTaken, FullUntilUid
<1>9. CapabilitiesAsAsked'
  BY <1>0, Fixed DEF Inv, CredRecord, DropBounding, Apply, Go, Refuse, CapabilitiesAsAsked
<1> QED
  BY <1>1, <1>2, <1>3, <1>4, <1>5, <1>6, <1>7, <1>8, <1>9 DEF Inv

LEMMA KeepCapsStep ==
    ASSUME Inv, KeepCaps
    PROVE  Inv'
<1> USE DEF IsRecord, CredFields, MapFields, Waiting, ToUid, Dropped, Mapped, AfterCaps, IdentitySteps
<1>0. ask' = ask
  BY DEF KeepCaps
<1>1. CredRecord'
  BY <1>0, Fixed DEF Inv, CredRecord, KeepCaps, Go
<1>2. FullUntilUid'
  BY <1>0, Fixed DEF Inv, CredRecord, KeepCaps, Go, FullUntilUid, MapsAsAsked, KeptWhileNeeded
<1>3. BoundingDropped'
  BY <1>0, Fixed DEF Inv, CredRecord, KeepCaps, Go, BoundingDropped, BoundAsked, FullUntilUid
<1>4. KeptWhileNeeded'
  BY <1>0, Fixed DEF Inv, CredRecord, KeepCaps, Go, KeptWhileNeeded
<1>5. MapsAsAsked'
  BY <1>0, Fixed DEF Inv, CredRecord, KeepCaps, Go, MapsAsAsked, AskedUids, AskedGids, Given, The
<1>6. GroupsTaken'
  BY <1>0, Fixed DEF Inv, CredRecord, KeepCaps, Go, GroupsTaken, MapsAsAsked
<1>7. IdsTaken'
  BY <1>0, Fixed DEF Inv, CredRecord, KeepCaps, Go, IdsTaken, MapsAsAsked
<1>8. CapsTaken'
  BY <1>0, Fixed DEF Inv, CredRecord, KeepCaps, Go, CapsTaken, FullUntilUid
<1>9. CapabilitiesAsAsked'
  BY <1>0, Fixed DEF Inv, CredRecord, KeepCaps, Go, CapabilitiesAsAsked
<1> QED
  BY <1>1, <1>2, <1>3, <1>4, <1>5, <1>6, <1>7, <1>8, <1>9 DEF Inv

LEMMA SetGroupsStep ==
    ASSUME Inv, SetGroups
    PROVE  Inv'
<1> USE DEF IsRecord, CredFields, MapFields, Waiting, ToUid, Dropped, Mapped, AfterCaps, IdentitySteps
<1>0. ask' = ask
  BY DEF SetGroups
<1>1. CredRecord'
  BY <1>0, Fixed DEF Inv, CredRecord, SetGroups, Apply, Go, Refuse, HostGroups
<1>2. FullUntilUid'
  BY <1>0, Fixed DEF Inv, CredRecord, SetGroups, Apply, Go, Refuse, HostGroups, FullUntilUid, MapsAsAsked, KeptWhileNeeded
<1>3. BoundingDropped'
  BY <1>0, Fixed DEF Inv, CredRecord, SetGroups, Apply, Go, Refuse, HostGroups, BoundingDropped, BoundAsked, FullUntilUid
<1>4. KeptWhileNeeded'
  BY <1>0, Fixed DEF Inv, CredRecord, SetGroups, Apply, Go, Refuse, HostGroups, KeptWhileNeeded
<1>5. MapsAsAsked'
  BY <1>0, Fixed DEF Inv, CredRecord, SetGroups, Apply, Go, Refuse, HostGroups, MapsAsAsked, AskedUids, AskedGids, Given, The
<1>6. GroupsTaken'
  <2>1. CASE cred' = [cred EXCEPT !.groups = HostGroups(ask.user.groups)]
    <3>1. cred'.groups = HostGroups(ask.user.groups)
      BY <2>1 DEF Inv, CredRecord
    <3>2. HostGroups(ask.user.groups) = {HostId(AskedGids, g) : g \in ask.user.groups}
      BY DEF HostGroups, Inv, MapsAsAsked, SetGroups
    <3>3. step' = "gid" \/ (step' = "refused" /\ cred' = cred)
      BY DEF SetGroups, Apply, Go, Refuse
    <3>4. {HostId(AskedGids', g) : g \in ask'.user.groups}
            = {HostId(AskedGids, g) : g \in ask.user.groups}
      BY <1>0, Fixed
    <3> QED
      BY <3>1, <3>2, <3>3, <3>4 DEF GroupsTaken
  <2>2. CASE UNCHANGED cred /\ step' = "refused"
    BY <2>2 DEF GroupsTaken
  <2>3. CASE UNCHANGED cred /\ ~CanSetgroups /\ ask.user.groups = {}
    BY <1>0, <2>3, Fixed DEF Inv, SetGroups, CanSetgroups, GroupsTaken
  <2> QED
    BY <2>1, <2>2, <2>3 DEF SetGroups, Apply, Refuse
<1>7. IdsTaken'
  BY <1>0, Fixed DEF Inv, CredRecord, SetGroups, Apply, Go, Refuse, HostGroups, IdsTaken, MapsAsAsked
<1>8. CapsTaken'
  BY <1>0, Fixed DEF Inv, CredRecord, SetGroups, Apply, Go, Refuse, HostGroups, CapsTaken, FullUntilUid
<1>9. CapabilitiesAsAsked'
  BY <1>0, Fixed DEF Inv, CredRecord, SetGroups, Apply, Go, Refuse, HostGroups, CapabilitiesAsAsked
<1> QED
  BY <1>1, <1>2, <1>3, <1>4, <1>5, <1>6, <1>7, <1>8, <1>9 DEF Inv

LEMMA SetGidStep ==
    ASSUME Inv, SetGid
    PROVE  Inv'
<1> USE DEF IsRecord, CredFields, MapFields, Waiting, ToUid, Dropped, Mapped, AfterCaps, IdentitySteps
<1>0. ask' = ask
  BY DEF SetGid
<1>1. CredRecord'
  BY <1>0, Fixed DEF Inv, CredRecord, SetGid, Apply, Go, Refuse
<1>2. FullUntilUid'
  BY <1>0, Fixed DEF Inv, CredRecord, SetGid, Apply, Go, Refuse, FullUntilUid, MapsAsAsked, KeptWhileNeeded
<1>3. BoundingDropped'
  BY <1>0, Fixed DEF Inv, CredRecord, SetGid, Apply, Go, Refuse, BoundingDropped, BoundAsked, FullUntilUid
<1>4. KeptWhileNeeded'
  BY <1>0, Fixed DEF Inv, CredRecord, SetGid, Apply, Go, Refuse, KeptWhileNeeded
<1>5. MapsAsAsked'
  BY <1>0, Fixed DEF Inv, CredRecord, SetGid, Apply, Go, Refuse, MapsAsAsked, AskedUids, AskedGids, Given, The
<1>6. GroupsTaken'
  BY <1>0, Fixed DEF Inv, CredRecord, SetGid, Apply, Go, Refuse, GroupsTaken, MapsAsAsked
<1>7. IdsTaken'
  BY <1>0, Fixed DEF Inv, CredRecord, SetGid, Apply, Go, Refuse, IdsTaken, MapsAsAsked
<1>8. CapsTaken'
  BY <1>0, Fixed DEF Inv, CredRecord, SetGid, Apply, Go, Refuse, CapsTaken, FullUntilUid
<1>9. CapabilitiesAsAsked'
  BY <1>0, Fixed DEF Inv, CredRecord, SetGid, Apply, Go, Refuse, CapabilitiesAsAsked
<1> QED
  BY <1>1, <1>2, <1>3, <1>4, <1>5, <1>6, <1>7, <1>8, <1>9 DEF Inv

LEMMA SetUidStep ==
    ASSUME Inv, SetUid
    PROVE  Inv'
<1> USE DEF IsRecord, CredFields, MapFields, Waiting, ToUid, Dropped, Mapped, AfterCaps, IdentitySteps
<1>0. ask' = ask
  BY DEF SetUid
<1> DEFINE uid == HostId(userns.uids, ask.user.uid)
<1>i. IsRecord(cred, CredFields)
  BY DEF Inv, CredRecord
<1>a. /\ IsRecord(WithUid(cred, uid), CredFields)
      /\ WithUid(cred, uid).uid = uid
      /\ WithUid(cred, uid).gid = cred.gid /\ WithUid(cred, uid).groups = cred.groups
      /\ WithUid(cred, uid).I = cred.I /\ WithUid(cred, uid).B = cred.B
      /\ WithUid(cred, uid).keep = cred.keep /\ WithUid(cred, uid).nnp = cred.nnp
      /\ cred.keep => WithUid(cred, uid).P = cred.P
      /\ IsRoot(uid) => WithUid(cred, uid).P = cred.P
      /\ WithUid(cred, uid).A = IF IsRoot(cred.uid) /\ ~IsRoot(uid) THEN {} ELSE cred.A
  <2> HIDE DEF uid, IsRecord, CredFields
  <2> QED
    BY <1>i, WithUidIs
<1>b. \/ cred' = WithUid(cred, uid) /\ step' = "caps"
      \/ cred' = cred /\ step' = "refused"
  BY DEF SetUid, Apply, Go, Refuse
<1>c. uid = HostId(AskedUids, ask.user.uid)
  BY DEF Inv, MapsAsAsked, SetUid
<1>d. step = "uid" /\ userns' = userns
  BY DEF SetUid
<1>e. step' = "caps" => uid # NoId
  BY DEF SetUid, Apply, Go, Refuse, MaySetId
<1>f. /\ cred.uid = ask.launcher.uid
      /\ cred.A = IF ask.userNs THEN {} ELSE ask.launcher.amb
      /\ userns.uids = AskedUids
  BY <1>d DEF Inv, IdsTaken, FullUntilUid, MapsAsAsked
<1>g. ASSUME step' = "caps"
      PROVE  WithUid(cred, uid).A = KeptAmbient
  <2>1. CASE ask.userNs
    BY <1>a, <1>f, <2>1 DEF KeptAmbient
  <2>2. CASE ~ask.userNs
    <3>1. \A x : IsRoot(x) <=> x # NoId /\ x = Root
      BY <1>f, <2>2, HostsRoot DEF IsRoot, AskedUids
    <3>2. Root # NoId
      BY DEF Root, NoId
    <3>3. LeavesRoot <=> IsRoot(cred.uid) /\ ~IsRoot(uid)
      BY <1>c, <1>e, <1>f, <1>g, <3>1, <3>2 DEF LeavesRoot
    <3> QED
      BY <1>a, <1>f, <2>2, <3>3 DEF KeptAmbient
  <2> QED
    BY <2>1, <2>2
<1> HIDE DEF uid
<1>1. CredRecord'
  BY <1>0, <1>a, <1>b, <1>c, <1>d, Fixed DEF Inv, CredRecord
<1>2. FullUntilUid'
  <2>1. CASE step' = "caps"
    <3>1. cred' = WithUid(cred, uid)
      BY <1>b, <2>1
    <3>2. cred'.I = KeptInheritable /\ cred'.A = KeptAmbient
      BY <1>a, <1>d, <1>g, <2>1, <3>1 DEF Inv, FullUntilUid
    <3>3. HasCaps => cred'.P = Available
      BY <1>a, <1>d, <3>1 DEF Inv, FullUntilUid, KeptWhileNeeded
    <3>4. IsRoot(cred.uid)' => cred'.P = Available
      <4>1. IsRoot(cred.uid)' => IsRoot(uid)
        BY <1>a, <1>d, <3>1 DEF IsRoot
      <4> QED
        BY <1>a, <1>d, <3>1, <4>1 DEF Inv, FullUntilUid
    <3> QED
      BY <1>0, <2>1, <3>2, <3>3, <3>4, Fixed DEF FullUntilUid
  <2>2. CASE step' = "refused"
    BY <2>2 DEF FullUntilUid
  <2> QED
    BY <1>b, <2>1, <2>2
<1>3. BoundingDropped'
  BY <1>0, <1>a, <1>b, <1>c, <1>d, Fixed DEF Inv, CredRecord, BoundingDropped, BoundAsked
<1>4. KeptWhileNeeded'
  BY <1>0, <1>a, <1>b, <1>c, <1>d, Fixed DEF Inv, CredRecord, KeptWhileNeeded
<1>5. MapsAsAsked'
  BY <1>0, <1>a, <1>b, <1>c, <1>d, Fixed DEF Inv, CredRecord, MapsAsAsked
<1>6. GroupsTaken'
  BY <1>0, <1>a, <1>b, <1>c, <1>d, Fixed DEF Inv, CredRecord, GroupsTaken
<1>7. IdsTaken'
  BY <1>0, <1>a, <1>b, <1>c, <1>d, Fixed DEF Inv, CredRecord, IdsTaken
<1>8. CapsTaken'
  BY <1>0, <1>a, <1>b, <1>c, <1>d, Fixed DEF Inv, CredRecord, CapsTaken, FullUntilUid
<1>9. CapabilitiesAsAsked'
  BY <1>0, <1>a, <1>b, <1>c, <1>d, Fixed DEF Inv, CredRecord, CapabilitiesAsAsked
<1> QED
  BY <1>1, <1>2, <1>3, <1>4, <1>5, <1>6, <1>7, <1>8, <1>9 DEF Inv

LEMMA SetCapsStep ==
    ASSUME Inv, SetCaps
    PROVE  Inv'
<1> USE DEF IsRecord, CredFields, MapFields, Waiting, ToUid, Dropped, Mapped, AfterCaps, IdentitySteps
<1>0. ask' = ask
  BY DEF SetCaps
<1>1. CredRecord'
  BY <1>0, Fixed DEF Inv, CredRecord, SetCaps, Apply, Go, Refuse, WithCaps
<1>2. FullUntilUid'
  BY <1>0, Fixed DEF Inv, CredRecord, SetCaps, Apply, Go, Refuse, WithCaps, FullUntilUid, MapsAsAsked, KeptWhileNeeded
<1>3. BoundingDropped'
  BY <1>0, Fixed DEF Inv, CredRecord, SetCaps, Apply, Go, Refuse, WithCaps, BoundingDropped, BoundAsked, FullUntilUid
<1>4. KeptWhileNeeded'
  BY <1>0, Fixed DEF Inv, CredRecord, SetCaps, Apply, Go, Refuse, WithCaps, KeptWhileNeeded
<1>5. MapsAsAsked'
  BY <1>0, Fixed DEF Inv, CredRecord, SetCaps, Apply, Go, Refuse, WithCaps, MapsAsAsked, AskedUids, AskedGids, Given, The
<1>6. GroupsTaken'
  <2>1. cred'.groups = cred.groups /\ userns' = userns
    BY DEF Inv, CredRecord, SetCaps, Apply, Refuse, WithCaps
  <2>2. step = "caps" /\ step' \in {"ambient", "nnp", "refused"}
    BY DEF SetCaps, Apply, Go, Refuse
  <2> QED
    BY <1>0, <2>1, <2>2, Fixed DEF Inv, GroupsTaken
<1>7. IdsTaken'
  BY <1>0, Fixed DEF Inv, CredRecord, SetCaps, Apply, Go, Refuse, WithCaps, IdsTaken, MapsAsAsked
<1>8. CapsTaken'
  <2>1. CASE HasCaps /\ step' = "ambient"
    <3> DEFINE E == CapSet("effective")
               P == CapSet("permitted")
               I == CapSet("inheritable")
    <3>1. cred' = WithCaps(cred, E, P, I)
      BY <2>1 DEF SetCaps, Apply, Go, Refuse
    <3>2. cred.A = KeptAmbient /\ cred.nnp = ask.launcher.nnp
      BY DEF Inv, SetCaps, FullUntilUid, CapsTaken
    <3>3. cred'.P = P /\ cred'.I = I /\ cred'.A = P \cap I \cap KeptAmbient
            /\ cred'.nnp = ask.launcher.nnp
      BY <3>1, <3>2 DEF Inv, CredRecord, WithCaps
    <3> QED
      BY <1>0, <2>1, <3>3, Fixed DEF CapsTaken
  <2>2. CASE ~HasCaps /\ step' = "nnp"
    <3>1. step = "caps" /\ cred' = cred /\ userns' = userns
      BY <2>2 DEF SetCaps
    <3>2. cred.I = KeptInheritable /\ cred.A = AmbientAtExec /\ cred.nnp = ask.launcher.nnp
      BY <2>2, <3>1 DEF Inv, FullUntilUid, CapsTaken, AmbientAtExec
    <3>3. IsRoot(cred.uid)' => cred'.P = Available
      BY <3>1 DEF Inv, FullUntilUid, IsRoot
    <3> QED
      BY <1>0, <2>2, <3>1, <3>2, <3>3, Fixed DEF CapsTaken
  <2>3. CASE step' = "refused"
    BY <2>3 DEF CapsTaken
  <2> QED
    BY <2>1, <2>2, <2>3 DEF SetCaps, Apply, Go, Refuse
<1>9. CapabilitiesAsAsked'
  BY <1>0, Fixed DEF Inv, CredRecord, SetCaps, Apply, Go, Refuse, WithCaps, CapabilitiesAsAsked
<1> QED
  BY <1>1, <1>2, <1>3, <1>4, <1>5, <1>6, <1>7, <1>8, <1>9 DEF Inv

LEMMA SetAmbientStep ==
    ASSUME Inv, SetAmbient
    PROVE  Inv'
<1> USE DEF IsRecord, CredFields, MapFields, Waiting, ToUid, Dropped, Mapped, AfterCaps, IdentitySteps
<1>0. ask' = ask
  BY DEF SetAmbient
<1>1. CredRecord'
  BY <1>0, Fixed DEF Inv, CredRecord, SetAmbient, Go
<1>2. FullUntilUid'
  BY <1>0, Fixed DEF Inv, CredRecord, SetAmbient, Go, FullUntilUid, MapsAsAsked, KeptWhileNeeded
<1>3. BoundingDropped'
  BY <1>0, Fixed DEF Inv, CredRecord, SetAmbient, Go, BoundingDropped, BoundAsked, FullUntilUid
<1>4. KeptWhileNeeded'
  BY <1>0, Fixed DEF Inv, CredRecord, SetAmbient, Go, KeptWhileNeeded
<1>5. MapsAsAsked'
  BY <1>0, Fixed DEF Inv, CredRecord, SetAmbient, Go, MapsAsAsked, AskedUids, AskedGids, Given, The
<1>6. GroupsTaken'
  BY <1>0, Fixed DEF Inv, CredRecord, SetAmbient, Go, GroupsTaken, MapsAsAsked
<1>7. IdsTaken'
  BY <1>0, Fixed DEF Inv, CredRecord, SetAmbient, Go, IdsTaken, MapsAsAsked
<1>8. CapsTaken'
  <2>1. /\ cred.P = CapSet("permitted") /\ cred.I = CapSet("inheritable")
        /\ cred.A = CapSet("permitted") \cap CapSet("inheritable") \cap KeptAmbient
        /\ HasCaps /\ cred.nnp = ask.launcher.nnp
    BY DEF Inv, SetAmbient, CapsTaken
  <2>2. cred'.A = AmbientAtExec
    <3>1. cred'.A = IF AmbientGiven THEN CapSet("ambient") \cap cred.P \cap cred.I ELSE cred.A
      BY DEF Inv, CredRecord, SetAmbient
    <3> QED
      BY <2>1, <3>1 DEF AmbientAtExec
  <2>3. cred'.P = cred.P /\ cred'.I = cred.I /\ cred'.nnp = cred.nnp
    BY DEF Inv, CredRecord, SetAmbient
  <2> QED
    BY <1>0, <2>1, <2>2, <2>3, Fixed DEF Inv, SetAmbient, Go, CapsTaken
<1>9. CapabilitiesAsAsked'
  BY <1>0, Fixed DEF Inv, CredRecord, SetAmbient, Go, CapabilitiesAsAsked
<1> QED
  BY <1>1, <1>2, <1>3, <1>4, <1>5, <1>6, <1>7, <1>8, <1>9 DEF Inv

LEMMA SetNoNewPrivsStep ==
    ASSUME Inv, SetNoNewPrivs
    PROVE  Inv'
<1> USE DEF IsRecord, CredFields, MapFields, Waiting, ToUid, Dropped, Mapped, AfterCaps, IdentitySteps
<1>0. ask' = ask
  BY DEF SetNoNewPrivs
<1>1. CredRecord'
  BY <1>0, Fixed DEF Inv, CredRecord, SetNoNewPrivs, Go
<1>2. FullUntilUid'
  BY <1>0, Fixed DEF Inv, CredRecord, SetNoNewPrivs, Go, FullUntilUid, MapsAsAsked, KeptWhileNeeded
<1>3. BoundingDropped'
  BY <1>0, Fixed DEF Inv, CredRecord, SetNoNewPrivs, Go, BoundingDropped, BoundAsked, FullUntilUid
<1>4. KeptWhileNeeded'
  BY <1>0, Fixed DEF Inv, CredRecord, SetNoNewPrivs, Go, KeptWhileNeeded
<1>5. MapsAsAsked'
  BY <1>0, Fixed DEF Inv, CredRecord, SetNoNewPrivs, Go, MapsAsAsked, AskedUids, AskedGids, Given, The
<1>6. GroupsTaken'
  BY <1>0, Fixed DEF Inv, CredRecord, SetNoNewPrivs, Go, GroupsTaken, MapsAsAsked
<1>7. IdsTaken'
  BY <1>0, Fixed DEF Inv, CredRecord, SetNoNewPrivs, Go, IdsTaken, MapsAsAsked
<1>8. CapsTaken'
  <2>1. cred'.P = cred.P /\ cred'.I = cred.I /\ cred'.A = cred.A
    BY DEF Inv, CredRecord, SetNoNewPrivs
  <2>2. cred'.nnp <=> ask.nnp \/ ask.launcher.nnp
    <3>1. cred.nnp = ask.launcher.nnp
      BY DEF Inv, SetNoNewPrivs, CapsTaken
    <3>2. cred'.nnp = (cred.nnp \/ ask.nnp)
      BY DEF Inv, CredRecord, SetNoNewPrivs
    <3> QED
      BY <3>1, <3>2
  <2>3. IsRoot(cred.uid)' <=> IsRoot(cred.uid)
    BY DEF Inv, CredRecord, SetNoNewPrivs, IsRoot
  <2> QED
    BY <1>0, <2>1, <2>2, <2>3, Fixed DEF Inv, SetNoNewPrivs, Go, CapsTaken
<1>9. CapabilitiesAsAsked'
  BY <1>0, Fixed DEF Inv, CredRecord, SetNoNewPrivs, Go, CapabilitiesAsAsked
<1> QED
  BY <1>1, <1>2, <1>3, <1>4, <1>5, <1>6, <1>7, <1>8, <1>9 DEF Inv

LEMMA ExecveStep ==
    ASSUME Inv, Execve
    PROVE  Inv'
<1> USE DEF IsRecord, CredFields, MapFields, Waiting, ToUid, Dropped, Mapped, AfterCaps, IdentitySteps
<1>0. ask' = ask
  BY DEF Execve
<1>1. CredRecord'
  BY <1>0, Fixed DEF Inv, CredRecord, Execve, Go, Execed
<1>2. FullUntilUid'
  BY <1>0, Fixed DEF Inv, CredRecord, Execve, Go, Execed, FullUntilUid, MapsAsAsked, KeptWhileNeeded
<1>3. BoundingDropped'
  BY <1>0, Fixed DEF Inv, CredRecord, Execve, Go, Execed, BoundingDropped, BoundAsked, FullUntilUid
<1>4. KeptWhileNeeded'
  BY <1>0, Fixed DEF Inv, CredRecord, Execve, Go, Execed, KeptWhileNeeded
<1>5. MapsAsAsked'
  BY <1>0, Fixed DEF Inv, CredRecord, Execve, Go, Execed, MapsAsAsked, AskedUids, AskedGids, Given, The
<1>6. GroupsTaken'
  BY <1>0, Fixed DEF Inv, CredRecord, Execve, Go, Execed, GroupsTaken, MapsAsAsked
<1>7. IdsTaken'
  BY <1>0, Fixed DEF Inv, CredRecord, Execve, Go, Execed, IdsTaken, MapsAsAsked
<1>8. CapsTaken'
  BY <1>0, Fixed DEF Inv, CredRecord, Execve, Go, Execed, CapsTaken, FullUntilUid
<1>9. CapabilitiesAsAsked'
  <2> DEFINE asRoot == IF IsRoot(cred.uid) THEN cred.B \cup cred.I ELSE {}
             gained == IF cred.nnp THEN asRoot \cap cred.P ELSE asRoot
  <2>1. step = "execve" /\ userns' = userns
    BY DEF Execve
  <2>2. cred'.P = gained \cup cred.A /\ cred'.E = gained \cup cred.A /\ cred'.uid = cred.uid
    BY DEF Inv, CredRecord, Execve, Execed
  <2>3. /\ cred.A = AmbientAtExec /\ cred.B = BoundAsked
        /\ cred.nnp <=> ask.nnp \/ ask.launcher.nnp
    BY <2>1 DEF Inv, CapsTaken, BoundingDropped
  <2>4. gained = IF IsRoot(cred.uid) THEN GainedByRoot ELSE {}
    <3>1. CASE ~IsRoot(cred.uid)
      BY <3>1
    <3>2. CASE IsRoot(cred.uid) /\ HasCaps
      <4>1. cred.P = CapSet("permitted") /\ cred.I = CapSet("inheritable")
        BY <2>1, <3>2 DEF Inv, CapsTaken
      <4> QED
        BY <2>3, <3>2, <4>1 DEF GainedByRoot, BoundAsked, Bound
    <3>3. CASE IsRoot(cred.uid) /\ ~HasCaps
      <4>1. cred.P = Available /\ cred.I = KeptInheritable
        BY <2>1, <3>3 DEF Inv, CapsTaken
      <4> QED
        BY <2>3, <3>3, <4>1 DEF GainedByRoot, BoundAsked, Bound
    <3> QED
      BY <3>1, <3>2, <3>3
  <2>5. IsRoot(cred.uid)' <=> IsRoot(cred.uid)
    BY <2>1, <2>2 DEF IsRoot
  <2> HIDE DEF gained
  <2> QED
    BY <1>0, <2>2, <2>3, <2>4, <2>5, Fixed DEF CapabilitiesAsAsked
<1> QED
  BY <1>1, <1>2, <1>3, <1>4, <1>5, <1>6, <1>7, <1>8, <1>9 DEF Inv

-----------------------------------------------------------------------------
(* The invariant holds of the specification, as long as no helper exits with      *)
(* ENOENT's number: the map that is written then has its sides swapped.    *)
LEMMA InvInit == CredInit => Inv
BY DEF CredInit, Inv, CredRecord, IsRecord, CredFields, MapFields, FullUntilUid,
       BoundingDropped, KeptWhileNeeded, MapsAsAsked, GroupsTaken, IdsTaken, CapsTaken,
       CapabilitiesAsAsked, Waiting, ToUid, Dropped, Mapped, AfterCaps, IdentitySteps

LEMMA InvStutter == Inv /\ UNCHANGED credVars => Inv'
<1> SUFFICES ASSUME Inv, UNCHANGED credVars PROVE Inv'
  OBVIOUS
<1>1. /\ ask' = ask /\ cred' = cred /\ userns' = userns /\ limits' = limits
      /\ proc' = proc /\ step' = step
  BY DEF credVars
<1>2. IsRoot(cred.uid)' = IsRoot(cred.uid)
  BY <1>1 DEF IsRoot
<1>3. CredRecord'
  BY <1>1, <1>2, Fixed DEF Inv, CredRecord, IsRecord
<1>4. FullUntilUid'
  BY <1>1, <1>2, Fixed DEF Inv, FullUntilUid
<1>5. BoundingDropped'
  BY <1>1, <1>2, Fixed DEF Inv, BoundingDropped
<1>6. KeptWhileNeeded'
  BY <1>1, <1>2, Fixed DEF Inv, KeptWhileNeeded
<1>7. MapsAsAsked'
  BY <1>1, <1>2, Fixed DEF Inv, MapsAsAsked
<1>8. GroupsTaken'
  BY <1>1, <1>2, Fixed DEF Inv, GroupsTaken
<1>9. IdsTaken'
  BY <1>1, <1>2, Fixed DEF Inv, IdsTaken
<1>10. CapsTaken'
  BY <1>1, <1>2, Fixed DEF Inv, CapsTaken
<1>11. CapabilitiesAsAsked'
  BY <1>1, <1>2, Fixed DEF Inv, CapabilitiesAsAsked
<1> QED
  BY <1>3, <1>4, <1>5, <1>6, <1>7, <1>8, <1>9, <1>10, <1>11 DEF Inv

LEMMA InvNext ==
    ASSUME Inv, [CredNext]_credVars, ENOENT \notin HelperExits
    PROVE  Inv'
<1>1. CASE UNCHANGED credVars
  BY <1>1, InvStutter
<1>2. CASE BeforeMounts
  BY <1>2, LimitRuntimeStep, CloneStep, MapUidsStep, MapGidsStep DEF BeforeMounts
<1>3. ASSUME NEW hasProc \in BOOLEAN, NEW writable \in BOOLEAN, InContainer(hasProc, writable)
      PROVE  Inv'
  BY <1>3, InContainerStep
<1>4. ASSUME NEW hasProc \in BOOLEAN, Join(hasProc)
      PROVE  Inv'
  BY <1>4, JoinStep
<1>5. CASE TakeIdentity
  BY <1>5, LimitExecStep, DropBoundingStep, KeepCapsStep, SetGroupsStep, SetGidStep,
     SetUidStep, SetCapsStep, SetAmbientStep, SetNoNewPrivsStep, ExecveStep DEF TakeIdentity
<1> QED
  BY <1>1, <1>2, <1>3, <1>4, <1>5 DEF CredNext

LEMMA InvAlways ==
    ASSUME ENOENT \notin HelperExits
    PROVE  CredSpec => []Inv
<1>1. Inv /\ [CredNext]_credVars => Inv'
  BY InvNext
<1> QED
  BY <1>1, InvInit, PTL DEF CredSpec

(* Every process that runs has the ids and groups that were asked for, in  *)
(* terms of the id maps that were asked for, whatever else is asked: the   *)
(* mapping (container.cpp:1975) and privilege_context::apply.              *)
THEOREM IdentityTheorem ==
    ASSUME ENOENT \notin HelperExits
    PROVE  CredSpec => []IdentityAsAsked
<1>1. Inv => IdentityAsAsked
  BY DEF Inv, IdsTaken, GroupsTaken, IdentityAsAsked, AfterCaps
<1> QED
  BY <1>1, InvAlways, PTL

(* Every process that runs has the capabilities asked for, for any sets,   *)
(* any maps and any launcher, and no others but the launcher's ambient     *)
(* ones where the configuration has no ambient set (apply_caps and         *)
(* apply_ambient, privilege.cpp:128 and 162).                              *)
THEOREM CapabilitiesTheorem ==
    ASSUME ENOENT \notin HelperExits
    PROVE  CredSpec => []CapabilitiesAsAsked
<1>1. Inv => CapabilitiesAsAsked
  BY DEF Inv
<1> QED
  BY <1>1, InvAlways, PTL

-----------------------------------------------------------------------------
(* A refusal, call by call: what the call needs is there.                  *)
LEMMA NothingMapped == \A id : HostId({}, id) = NoId
BY DEF HostId

LEMMA GroupsRefused ==
    ASSUME Inv, SetGroups, step' = "refused"
    PROVE  ~Grantable
<1> SUFFICES ASSUME Grantable PROVE FALSE
  OBVIOUS
<1>1. userns.gids = AskedGids /\ cred.E = Available
  BY DEF Inv, MapsAsAsked, FullUntilUid, SetGroups, Mapped, IdentitySteps, ToUid
<1>2. CASE ~CanSetgroups
  <2>1. ask.user.groups # {} /\ userns.deny
    BY <1>2 DEF SetGroups, Apply, Go, CanSetgroups
  <2> QED
    BY <2>1 DEF Grantable
<1>3. CASE CanSetgroups
  <2>1. ~MaySetgroups(cred, ask.user.groups)
    BY <1>3 DEF SetGroups, Apply, Go
  <2>2. "setgid" \in cred.E
    BY <1>1 DEF Grantable
  <2>3. userns.gids # {}
    BY <1>1, NothingMapped DEF Grantable, IdsMapped
  <2>4. ~userns.deny
    BY <1>3 DEF CanSetgroups, Grantable
  <2>5. NoId \notin HostGroups(ask.user.groups)
    BY <1>1 DEF Grantable, IdsMapped, HostGroups
  <2> QED
    BY <2>1, <2>2, <2>3, <2>4, <2>5 DEF MaySetgroups
<1> QED
  BY <1>2, <1>3

LEMMA CapsRefused ==
    ASSUME Inv, SetCaps, step' = "refused"
    PROVE  ~Grantable
<1> SUFFICES ASSUME Grantable PROVE FALSE
  OBVIOUS
<1> DEFINE E == CapSet("effective")
           P == CapSet("permitted")
           I == CapSet("inheritable")
<1>1. HasCaps /\ ~MaySetCaps(cred, E, P, I)
  BY DEF SetCaps, Apply, Go
<1>2. cred.P = Available /\ cred.B = BoundAsked
  BY <1>1 DEF Inv, SetCaps, FullUntilUid, BoundingDropped, Dropped
<1>3. /\ E \subseteq P /\ P \subseteq Available /\ I \subseteq Available
      /\ I \subseteq Bound
      /\ BoundingGiven => I \subseteq CapSet("bounding")
  BY <1>1 DEF Grantable, CapsConsistent, Bound
<1>4. I \subseteq BoundAsked
  BY <1>3 DEF BoundAsked
<1> QED
  BY <1>1, <1>2, <1>3, <1>4 DEF MaySetCaps

LEMMA RefusedStep ==
    ASSUME Inv, CredNext, step \in IdentitySteps, step' = "refused"
    PROVE  ~Grantable
<1> SUFFICES ASSUME Grantable PROVE FALSE
  OBVIOUS
<1>0. /\ step \in ToUid => cred.E = Available
      /\ userns.uids = AskedUids /\ userns.gids = AskedGids
      /\ {"setpcap", "setuid", "setgid"} \subseteq Available
  BY DEF Inv, FullUntilUid, MapsAsAsked, Mapped, Grantable
<1>1. CASE DropBounding
  BY <1>0, <1>1 DEF DropBounding, Apply, Go, Grantable, ToUid
<1>2. CASE SetGroups
  BY <1>2, GroupsRefused
<1>3. CASE SetGid
  BY <1>0, <1>3 DEF SetGid, Apply, Go, MaySetId, Grantable, IdsMapped, ToUid
<1>4. CASE SetUid
  BY <1>0, <1>4 DEF SetUid, Apply, Go, MaySetId, Grantable, IdsMapped, ToUid
<1>5. CASE SetCaps
  BY <1>5, CapsRefused
<1>6. ~BeforeMounts /\ ~LimitExec /\ ~Execve
  BY DEF BeforeMounts, LimitRuntime, Clone, MapUids, MapGids, LimitExec, Execve, IdentitySteps
<1>7. ~(\E hasProc, writable \in BOOLEAN : InContainer(hasProc, writable))
      /\ ~(\E hasProc \in BOOLEAN : Join(hasProc))
  BY DEF InContainer, Join, IdentitySteps
<1>8. ~KeepCaps /\ ~SetAmbient /\ ~SetNoNewPrivs
  BY DEF KeepCaps, SetAmbient, SetNoNewPrivs, Go
<1> QED
  BY <1>1, <1>2, <1>3, <1>4, <1>5, <1>6, <1>7, <1>8 DEF CredNext, TakeIdentity

(* An identity that can be had is never refused on the way to it: in the   *)
(* order of privilege_context::apply (privilege.cpp:233) every call finds  *)
(* the capabilities it needs.                                              *)
THEOREM RefusedTheorem ==
    ASSUME ENOENT \notin HelperExits
    PROVE  CredSpec => RefusedOnlyWhenAskedTooMuch
<1>1. Inv /\ [CredNext]_credVars
        => [step' = "refused" /\ step \in IdentitySteps => ~Grantable]_credVars
  BY RefusedStep
<1> QED
  BY <1>1, InvAlways, PTL DEF CredSpec, RefusedOnlyWhenAskedTooMuch
=============================================================================
