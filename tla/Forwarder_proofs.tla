-------------------------- MODULE Forwarder_proofs --------------------------
(***************************************************************************)
(* Proofs about the ring buffer and the forwarder that copies a terminal's *)
(* output through it, for every capacity, width of the counters, quota and *)
(* amount of output.                                                       *)
(***************************************************************************)
EXTENDS Forwarder, SequenceTheorems, TLAPS

(* Remainders.                                                             *)
LEMMA Division ==
  ASSUME NEW a \in Int, NEW n \in Nat \ {0}
  PROVE  /\ a % n \in 0..(n - 1)
         /\ (a \div n) \in Int
         /\ a = n * (a \div n) + (a % n)
OBVIOUS

LEMMA Quotient ==
  ASSUME NEW a \in Int, NEW n \in Nat \ {0}
  PROVE  \E q \in Int : a = n * q + (a % n)
BY Division

LEMMA SmallMultiple ==
  ASSUME NEW n \in Nat \ {0}, NEW d \in Int, n * d < n, -n < n * d
  PROVE  d = 0
OBVIOUS

LEMMA Distribute ==
  ASSUME NEW n \in Int, NEW x \in Int, NEW y \in Int
  PROVE  /\ n * (x - y) = n * x - n * y
         /\ n * x \in Int /\ n * y \in Int
OBVIOUS

(* A remainder is the only number in its range that differs by a multiple. *)
LEMMA Remainder ==
  ASSUME NEW n \in Nat \ {0}, NEW k \in Int, NEW r \in 0..(n - 1)
  PROVE  (n * k + r) % n = r
<1> DEFINE a == n * k + r
           d == (a \div n) - k
<1>1. a \in Int /\ a % n \in 0..(n - 1) /\ (a \div n) \in Int /\ a = n * (a \div n) + (a % n)
  BY Division
<1>2. n * d = r - (a % n)
  BY <1>1
<1>3. d = 0
  <2>1. n * d < n /\ -n < n * d /\ d \in Int
    BY <1>1, <1>2
  <2>. HIDE DEF d
  <2>. QED BY <2>1, SmallMultiple
<1>. QED BY <1>1, <1>2, <1>3

-----------------------------------------------------------------------------
(* The ring buffer.                                                        *)

Rings == [head : 0..(CounterMod - 1), tail : 0..(CounterMod - 1), slots : [Slots -> Nat]]

(* What advancing the counters keeps: they are never further apart than    *)
(* the capacity.                                                           *)
RingOK(b) == b \in Rings /\ Size(b) \in 0..RingCapacity

LEMMA Moduli ==
  /\ RingCapacity \in Nat \ {0} /\ CounterMod \in Nat \ {0} /\ RingCapacity < CounterMod
  /\ \E m \in Int : CounterMod = RingCapacity * m
<1>1. /\ RingCapacity \in Nat \ {0} /\ CounterMod \in Int
      /\ CounterMod > RingCapacity /\ CounterMod % RingCapacity = 0
  BY RingCapacityAssumption, CounterModAssumption
<1>2. PICK m \in Int : CounterMod = RingCapacity * m + (CounterMod % RingCapacity)
  BY <1>1, Quotient
<1>3. CounterMod = RingCapacity * m
  BY <1>1, <1>2
<1>. QED BY <1>1, <1>3

(* The head is Size ahead of the tail, but for whole turns of the counter. *)
LEMMA HeadAheadOfTail ==
  ASSUME NEW b, RingOK(b)
  PROVE  \E k \in Int : b.head = b.tail + Size(b) + CounterMod * k
<1> DEFINE d == b.head - b.tail
<1>1. b.head \in Int /\ b.tail \in Int /\ d \in Int /\ CounterMod \in Nat \ {0}
  BY Moduli DEF RingOK, Rings
<1>2. PICK q \in Int : d = CounterMod * q + (d % CounterMod)
  <2>. HIDE DEF d
  <2>. QED BY <1>1, Quotient
<1>3. Size(b) = d % CounterMod /\ Size(b) \in Int
  BY DEF Size, RingOK
<1>4. d = CounterMod * q + Size(b)
  BY <1>2, <1>3
<1>5. b.head = b.tail + Size(b) + CounterMod * q
  <2>1. b.head = d + b.tail
    BY <1>1
  <2>. HIDE DEF d
  <2>. QED BY <1>1, <1>3, <1>4, <2>1
<1>. QED BY <1>5

(* Empty says what it is meant to say.                                     *)
LEMMA NoneLeft ==
  ASSUME NEW b, b \in Rings, Empty(b)
  PROVE  Size(b) = 0
<1>1. b.head \in Int /\ b.head - b.tail = CounterMod * 0 + 0 /\ CounterMod \in Nat \ {0}
  BY Moduli DEF Rings, Empty
<1>2. (CounterMod * 0 + 0) % CounterMod = 0
  BY <1>1, Remainder
<1>. QED BY <1>1, <1>2 DEF Size

LEMMA EmptySize ==
  ASSUME NEW b, RingOK(b)
  PROVE  Empty(b) <=> Size(b) = 0
<1>1. b.head \in 0..(CounterMod - 1) /\ b.tail \in 0..(CounterMod - 1)
      /\ CounterMod \in Nat \ {0}
  BY Moduli DEF RingOK, Rings
<1>2. Empty(b) => Size(b) = 0
  BY NoneLeft DEF RingOK
<1>3. ASSUME Size(b) = 0 PROVE Empty(b)
  <2>1. PICK k \in Int : b.head = b.tail + Size(b) + CounterMod * k
    BY HeadAheadOfTail
  <2>2. CounterMod * k < CounterMod /\ -CounterMod < CounterMod * k
    BY <1>1, <1>3, <2>1
  <2>3. k = 0
    BY <1>1, <2>2, SmallMultiple
  <2>. QED BY <1>1, <1>3, <2>1, <2>3 DEF Empty
<1>. QED BY <1>2, <1>3

(* Storing bytes that fit.                                                 *)
LEMMA PutGrows ==
  ASSUME NEW b, RingOK(b), NEW bytes \in Seq(Nat), Len(bytes) <= FreeSpace(b)
  PROVE  /\ Size(Put(b, bytes)) = Size(b) + Len(bytes)
         /\ RingOK(Put(b, bytes))
<1> DEFINE n == Len(bytes)
           h == (b.head + n) % CounterMod
<1>0. n \in Nat
  BY LenProperties
<1>1. /\ b.head \in Int /\ b.tail \in Int
      /\ b.head \in 0..(CounterMod - 1) /\ b.tail \in 0..(CounterMod - 1)
      /\ Size(b) \in 0..RingCapacity
      /\ RingCapacity \in Nat \ {0} /\ CounterMod \in Nat \ {0}
      /\ RingCapacity < CounterMod
  BY Moduli DEF RingOK, Rings
<1>2. Size(b) + n \in 0..RingCapacity /\ Size(b) + n \in 0..(CounterMod - 1)
  <2>1. n <= RingCapacity - Size(b)
    BY DEF FreeSpace
  <2>. HIDE DEF n
  <2>. QED BY <1>0, <1>1, <2>1
<1>3. Put(b, bytes).head = h /\ Put(b, bytes).tail = b.tail
  BY DEF Put, RingOK, Rings
<1>h. h \in 0..(CounterMod - 1)
  <2>1. b.head + n \in Int
    BY <1>0, <1>1
  <2>. QED BY <1>1, <2>1, Division
<1>4. (h - b.tail) % CounterMod = Size(b) + n
  <2>1. PICK k \in Int : b.head = b.tail + Size(b) + CounterMod * k
    BY HeadAheadOfTail
  <2>2. PICK q \in Int : b.head + n = CounterMod * q + h
    <3>1. b.head + n \in Int
      BY <1>0, <1>1
    <3>. QED BY <1>1, <3>1, Quotient
  <2>3. ASSUME NEW hd \in Int, NEW t \in Int, NEW x \in Int, NEW m \in Nat, NEW r \in Int,
               hd = t + x + CounterMod * k, hd + m = CounterMod * q + r,
               x + m \in 0..(CounterMod - 1)
        PROVE  (r - t) % CounterMod = x + m
    <3>1. r - t = CounterMod * (k - q) + (x + m)
      BY <1>1, <2>3
    <3>2. ASSUME NEW j \in Int, NEW y \in 0..(CounterMod - 1)
          PROVE  (CounterMod * j + y) % CounterMod = y
      BY <1>1, Remainder
    <3>. QED BY <2>3, <3>1, <3>2
  <2>4. b.head \in Int /\ b.tail \in Int /\ Size(b) \in Int /\ h \in Int
    BY <1>1, <1>h
  <2>. HIDE DEF n, h
  <2>. QED BY <1>0, <1>2, <2>1, <2>2, <2>3, <2>4
<1>5. Size(Put(b, bytes)) = Size(b) + n
  BY <1>3, <1>4 DEF Size
<1>6. Put(b, bytes) \in Rings
  <2>1. [s \in Slots |-> LET j == ((s - b.head) % RingCapacity) + 1
                         IN  IF j <= Len(bytes) THEN bytes[j] ELSE b.slots[s]]
          \in [Slots -> Nat]
    <3>1. ASSUME NEW s \in Slots
          PROVE  (s - b.head) % RingCapacity \in 0..(RingCapacity - 1)
      <4>1. s - b.head \in Int
        BY <1>1 DEF Slots
      <4>. QED BY <4>1, Division, Moduli
    <3>2. \A j \in 1..Len(bytes) : bytes[j] \in Nat
      BY LenProperties
    <3>3. \A s \in Slots : b.slots[s] \in Nat
      BY DEF RingOK, Rings
    <3>. QED BY <1>0, <3>1, <3>2, <3>3, Moduli
  <2>. QED BY <1>h, <2>1 DEF Put, RingOK, Rings
<1>. QED BY <1>2, <1>5, <1>6 DEF RingOK

(* How far behind the head the slot of the j-th byte is.                   *)
LEMMA SlotDistance ==
  ASSUME NEW b, RingOK(b), NEW j \in 1..RingCapacity
  PROVE  /\ (b.tail + j - 1) % RingCapacity \in Slots
         /\ (((b.tail + j - 1) % RingCapacity) - b.head) % RingCapacity
              = IF j > Size(b) THEN j - 1 - Size(b) ELSE j - 1 - Size(b) + RingCapacity
<1> DEFINE s == (b.tail + j - 1) % RingCapacity
           r == IF j > Size(b) THEN j - 1 - Size(b) ELSE j - 1 - Size(b) + RingCapacity
<1>1. /\ b.head \in Int /\ b.tail \in Int /\ Size(b) \in 0..RingCapacity
      /\ RingCapacity \in Nat \ {0} /\ j \in Int
  BY Moduli DEF RingOK, Rings
<1> DEFINE a == b.tail + j - 1
<1>2. s \in 0..(RingCapacity - 1) /\ \E q \in Int : a = RingCapacity * q + s
  <2>1. s = a % RingCapacity /\ a \in Int
    BY <1>1
  <2>. HIDE DEF a, s
  <2>. QED BY <1>1, <2>1, Division, Quotient
<1>3. PICK q \in Int : b.tail + j - 1 = RingCapacity * q + s
  BY <1>2
<1>4. PICK k \in Int : b.head = b.tail + Size(b) + CounterMod * k
  BY HeadAheadOfTail
<1>5. PICK m \in Int : CounterMod = RingCapacity * m
  BY Moduli
<1>6. r \in 0..(RingCapacity - 1)
  BY <1>1
<1>7. \E t \in Int : s - b.head = RingCapacity * t + r
  <2>1. CounterMod * k = RingCapacity * (m * k) /\ m * k \in Int
    BY <1>1, <1>5
  <2> DEFINE u == m * k
  <2>2. s - b.head = RingCapacity * (-q - u) + (j - 1 - Size(b))
    <3>. HIDE DEF s, u
    <3>. QED BY <1>1, <1>2, <1>3, <1>4, <2>1 DEF u
  <2>3. CASE j > Size(b)
    BY <2>1, <2>2, <2>3
  <2>4. CASE ~(j > Size(b))
    <3>1. s - b.head = RingCapacity * (-q - u - 1) + (j - 1 - Size(b) + RingCapacity)
      <4>. HIDE DEF s, u
      <4>. QED BY <1>1, <1>2, <2>1, <2>2 DEF u
    <3>. QED BY <2>1, <2>4, <3>1
  <2>. QED BY <2>3, <2>4
<1>8. (s - b.head) % RingCapacity = r
  <2>1. PICK t \in Int : s - b.head = RingCapacity * t + r
    BY <1>7
  <2>. QED BY <1>1, <1>6, <2>1, Remainder
<1>. QED BY <1>2, <1>8 DEF Slots

(* They follow the bytes that were there, which do not move.               *)
LEMMA PutAppends ==
  ASSUME NEW b, RingOK(b), NEW bytes \in Seq(Nat), Len(bytes) <= FreeSpace(b),
         NEW j \in 1..(Size(b) + Len(bytes))
  PROVE  Contents(Put(b, bytes))[j] =
           IF j <= Size(b) THEN Contents(b)[j] ELSE bytes[j - Size(b)]
<1> DEFINE n == Len(bytes)
           s == (b.tail + j - 1) % RingCapacity
           d == (s - b.head) % RingCapacity
<1>1. /\ n \in Nat /\ n <= RingCapacity - Size(b) /\ Size(b) \in 0..RingCapacity
      /\ RingCapacity \in Nat
  BY LenProperties, Moduli DEF FreeSpace, RingOK
<1>2. j \in 1..RingCapacity /\ j \in 1..(Size(b) + n)
  BY <1>1
<1>3. s \in Slots /\ d = IF j > Size(b) THEN j - 1 - Size(b) ELSE j - 1 - Size(b) + RingCapacity
  BY <1>2, SlotDistance
<1>4. /\ Size(Put(b, bytes)) = Size(b) + n /\ Put(b, bytes).tail = b.tail
      /\ Put(b, bytes).slots[s] = IF d + 1 <= n THEN bytes[d + 1] ELSE b.slots[s]
  BY <1>3, PutGrows DEF Put, RingOK, Rings
<1>5. Contents(Put(b, bytes))[j] = Put(b, bytes).slots[s]
  BY <1>2, <1>4 DEF Contents, ReadSpan
<1>6. CASE j <= Size(b)
  <2>1. Contents(b)[j] = b.slots[s]
    BY <1>1, <1>2, <1>6 DEF Contents, ReadSpan
  <2>2. ~(d + 1 <= n)
    <3>. HIDE DEF n, s, d
    <3>. QED BY <1>1, <1>2, <1>3, <1>6
  <2>. QED BY <1>4, <1>5, <1>6, <2>1, <2>2
<1>7. CASE ~(j <= Size(b))
  <2>1. d + 1 <= n /\ d + 1 = j - Size(b)
    <3>. HIDE DEF n, s, d
    <3>. QED BY <1>1, <1>2, <1>3, <1>7
  <2>. QED BY <1>4, <1>5, <1>7, <2>1
<1>. QED BY <1>6, <1>7

(* The bytes in use are as many naturals as Size says.                     *)
LEMMA ContentsType ==
  ASSUME NEW b, RingOK(b)
  PROVE  /\ Contents(b) \in [1..Size(b) -> Nat] /\ Contents(b) \in Seq(Nat)
         /\ Len(Contents(b)) = Size(b)
<1>1. ASSUME NEW j \in 1..Size(b) PROVE b.slots[(b.tail + j - 1) % RingCapacity] \in Nat
  <2>1. j \in 1..RingCapacity
    BY Moduli DEF RingOK
  <2>. QED BY <2>1, SlotDistance DEF RingOK, Rings
<1>2. Contents(b) \in [1..Size(b) -> Nat]
  BY <1>1 DEF Contents, ReadSpan
<1>3. Size(b) \in Nat
  BY Moduli DEF RingOK
<1>. QED BY <1>2, <1>3

(* Writing all of it, or dropping it, empties the buffer.                  *)
LEMMA TailCatchesUp ==
  ASSUME NEW b, RingOK(b)
  PROVE  RingOK(AdvanceTail(b, Size(b))) /\ Size(AdvanceTail(b, Size(b))) = 0
<1> DEFINE t == (b.tail + Size(b)) % CounterMod
<1>1. /\ b.head \in 0..(CounterMod - 1) /\ b.tail \in Int /\ Size(b) \in Int
      /\ CounterMod \in Nat \ {0} /\ RingCapacity \in Nat
  BY Moduli DEF RingOK, Rings
<1>2. t = b.head
  <2>1. PICK k \in Int : b.head = b.tail + Size(b) + CounterMod * k
    BY HeadAheadOfTail
  <2>2. b.tail + Size(b) = CounterMod * (-k) + b.head /\ -k \in Int
    BY <1>1, <2>1
  <2>. QED BY <1>1, <2>2, Remainder
<1>3. AdvanceTail(b, Size(b)) = [b EXCEPT !.tail = b.head]
  BY <1>2 DEF AdvanceTail, RingOK, Rings
<1>4. AdvanceTail(b, Size(b)) \in Rings /\ Empty(AdvanceTail(b, Size(b)))
  BY <1>3 DEF RingOK, Rings, Empty
<1>5. Size(AdvanceTail(b, Size(b))) = 0
  BY <1>3, <1>4, NoneLeft
<1>. QED BY <1>1, <1>4, <1>5 DEF RingOK

LEMMA ClearEmpties ==
  ASSUME NEW b, RingOK(b)
  PROVE  RingOK(Cleared(b)) /\ Size(Cleared(b)) = 0
<1>0. 0 \in 0..(CounterMod - 1)
  BY Moduli
<1>1. Cleared(b) \in Rings /\ Empty(Cleared(b))
  BY <1>0 DEF Cleared, RingOK, Rings, Empty
<1>2. Size(Cleared(b)) = 0
  BY <1>1, NoneLeft
<1>. QED BY <1>1, <1>2, Moduli DEF RingOK

-----------------------------------------------------------------------------
(* Every variable of the forwarder and its loop keeps its type.            *)

LoopPCs == {"epoll", "pull", "push", "write", "release", "returned", "thrown"}

TypeOK ==
  /\ written \in Nat /\ taken \in Nat /\ drained \in Nat
  /\ out \in Seq(Nat)
  /\ exited \in BOOLEAN /\ hungUp \in BOOLEAN /\ outClosed \in BOOLEAN
  /\ readBlocked \in BOOLEAN /\ srcEof \in BOOLEAN /\ dstFailed \in BOOLEAN
  /\ forwarding \in BOOLEAN /\ childExited \in BOOLEAN /\ primed \in BOOLEAN
  /\ spin \in BOOLEAN
  /\ events \subseteq {"signal", "src", "dst"}
  /\ pc \in LoopPCs
  /\ RingOK(rb)
  /\ quota \in 0..Quota /\ before \in 0..Quota
  /\ sent \in Nat /\ cuts \in Nat

(* What is still to be read, and the room at the other end, are never      *)
(* negative.                                                               *)
FlowInv ==
  /\ taken <= written
  /\ drained <= Len(out)
  /\ Len(out) - drained <= OutRoom

(* Where the bytes are: the last ones in the buffer, those before them, if *)
(* nothing failed, in stdout, with those of them a write has sent so far.  *)
CopyInv ==
  /\ BufferHoldsLastRead
  /\ dstFailed => outClosed
  /\ pc = "write" =>
       /\ sent < Size(rb) /\ sent <= Len(out)
       /\ \A j \in 1..sent : out[Len(out) - sent + j] = taken - Size(rb) + j
  /\ ~dstFailed /\ pc # "thrown" =>
       \A b \in 1..(taken - Size(rb)) : \E i \in 1..Len(out) : out[i] = b
  /\ ExactUnlessCut
  /\ cuts = 0 /\ ~dstFailed /\ pc # "thrown" =>
       Len(out) = taken - Size(rb) + (IF pc = "write" THEN sent ELSE 0)

(* What the loop has left undone, it will be woken for.                    *)
EdgeInv ==
  /\ pc \in {"pull", "push", "write", "release"} => forwarding
  /\ exited /\ ~childExited => "signal" \in events
  /\ forwarding /\ outClosed => "dst" \in events \/ dstFailed
  /\ forwarding /\ pc = "epoll" => ~dstFailed
  /\ forwarding /\ readBlocked /\ pc \in {"push", "write", "release", "epoll"} =>
       Available = 0 \/ "src" \in events
  /\ forwarding /\ ~spin /\ pc \in {"release", "epoll"} =>
       /\ readBlocked \/ Full(rb)
       /\ Empty(rb) \/ Room = 0 \/ "dst" \in events

ForwarderInv == TypeOK /\ FlowInv /\ CopyInv /\ EdgeInv

(* The two outcomes of a round.                                            *)
LEMMA RoundEnds ==
  ASSUME NEW b, NEW q \in 0..Quota, NEW w \in BOOLEAN, TypeOK, NextRound(b, q, w)
  PROVE  /\ before' \in 0..Quota /\ spin' \in BOOLEAN
         /\ \/ pc' = "pull" /\ UNCHANGED spin
            \/ /\ pc' = "release"
               /\ ~spin' => (readBlocked \/ Full(b)) /\ (w \/ Empty(b))
BY DEF NextRound, TypeOK

(* Bytes read from the terminal go behind those in the buffer.             *)
LEMMA PullFills ==
  ASSUME TypeOK, NEW n \in Nat, n >= 1, n <= FreeSpace(rb)
  PROVE  LET new == Put(rb, [j \in 1..n |-> taken + j])
         IN  /\ RingOK(new) /\ Size(new) = Size(rb) + n
             /\ BufferHoldsLastRead =>
                  Contents(new) = [j \in 1..Size(new) |-> (taken + n) - Size(new) + j]
<1> DEFINE bytes == [j \in 1..n |-> taken + j]
           new == Put(rb, bytes)
<1>1. bytes \in Seq(Nat) /\ Len(bytes) = n /\ \A j \in 1..n : bytes[j] = taken + j
  BY DEF TypeOK
<1>2. RingOK(rb) /\ taken \in Nat /\ Size(rb) \in Nat
  BY Moduli DEF TypeOK, RingOK
<1> HIDE DEF bytes
<1>3. RingOK(new) /\ Size(new) = Size(rb) + n
  BY <1>1, <1>2, PutGrows
<1>4. ASSUME BufferHoldsLastRead
      PROVE  Contents(new) = [j \in 1..Size(new) |-> (taken + n) - Size(new) + j]
  <2>1. ASSUME NEW j \in 1..Size(new)
        PROVE  Contents(new)[j] = (taken + n) - Size(new) + j
    <3>1. j \in 1..(Size(rb) + n)
      BY <1>3
    <3>2. Contents(new)[j] = IF j <= Size(rb) THEN Contents(rb)[j] ELSE bytes[j - Size(rb)]
      BY <1>1, <1>2, <3>1, PutAppends
    <3>3. j <= Size(rb) => Contents(rb)[j] = taken - Size(rb) + j
      BY <1>2, <1>4, <3>1 DEF BufferHoldsLastRead
    <3>4. ~(j <= Size(rb)) => bytes[j - Size(rb)] = taken + (j - Size(rb))
      BY <1>1, <1>2, <3>1
    <3>. HIDE DEF new
    <3>. QED BY <1>2, <1>3, <3>1, <3>2, <3>3, <3>4
  <2>2. Contents(new) \in [1..Size(new) -> Nat]
    BY <1>3, ContentsType
  <2>. HIDE DEF new
  <2>. QED BY <2>1, <2>2
<1>. QED BY <1>3, <1>4 DEF bytes

(* A write appends to stdout what it takes of the buffer.                  *)
LEMMA WriteAppends ==
  ASSUME TypeOK, NEW n \in Nat, n >= 1, n <= Size(rb) - sent,
         out' = out \o SubSeq(Contents(rb), sent + 1, sent + n)
  PROVE  /\ out' \in Seq(Nat) /\ Len(out') = Len(out) + n
         /\ \A i \in 1..Len(out) : out'[i] = out[i]
         /\ BufferHoldsLastRead =>
              \A j \in 1..n : out'[Len(out) + j] = taken - Size(rb) + (sent + j)
<1> DEFINE c == Contents(rb)
           part == SubSeq(c, sent + 1, sent + n)
<1>1. /\ sent \in Nat /\ Size(rb) \in Nat /\ taken \in Nat /\ out \in Seq(Nat)
      /\ RingOK(rb) /\ Len(out) \in Nat
  BY Moduli, LenProperties DEF TypeOK, RingOK
<1>2. c \in [1..Size(rb) -> Nat]
  BY <1>1, ContentsType
<1>3. ASSUME NEW i \in (sent + 1)..(sent + n) PROVE c[i] \in Nat
  <2>1. i \in 1..Size(rb)
    BY <1>1
  <2>. HIDE DEF c
  <2>. QED BY <1>2, <2>1
<1>4. /\ part \in Seq(Nat) /\ Len(part) = n
      /\ \A j \in 1..n : part[j] = c[sent + j]
  <2>1. /\ part \in Seq(Nat)
        /\ Len(part) = IF sent + 1 <= sent + n THEN (sent + n) - (sent + 1) + 1 ELSE 0
        /\ \A i \in 1..((sent + n) - (sent + 1) + 1) : part[i] = c[(sent + 1) + i - 1]
    <3>1. sent + 1 \in Int /\ sent + n \in Int
      BY <1>1
    <3>. HIDE DEF c
    <3>. QED BY <1>3, <3>1, SubSeqProperties
  <2>2. (sent + n) - (sent + 1) + 1 = n /\ \A i \in 1..n : (sent + 1) + i - 1 = sent + i
    BY <1>1
  <2>. HIDE DEF part, c
  <2>. QED BY <1>1, <2>1, <2>2
<1>5. /\ out' \in Seq(Nat) /\ Len(out') = Len(out) + n
      /\ \A i \in 1..(Len(out) + n) :
           out'[i] = IF i <= Len(out) THEN out[i] ELSE part[i - Len(out)]
  <2>1. out' = out \o part
    OBVIOUS
  <2>2. ASSUME NEW s \in Seq(Nat), Len(s) = n
        PROVE  /\ out \o s \in Seq(Nat) /\ Len(out \o s) = Len(out) + n
               /\ \A i \in 1..(Len(out) + n) :
                    (out \o s)[i] = IF i <= Len(out) THEN out[i] ELSE s[i - Len(out)]
    BY <1>1, <2>2, ConcatProperties
  <2>3. /\ out \o part \in Seq(Nat) /\ Len(out \o part) = Len(out) + n
        /\ \A i \in 1..(Len(out) + n) :
             (out \o part)[i] = IF i <= Len(out) THEN out[i] ELSE part[i - Len(out)]
    <3>1. part \in Seq(Nat) /\ Len(part) = n
      BY <1>4
    <3>. HIDE DEF part
    <3>. QED BY <2>2, <3>1
  <2>. HIDE DEF part
  <2>. QED BY <2>1, <2>3, Zenon
<1>6. ASSUME BufferHoldsLastRead, NEW j \in 1..n
      PROVE  out'[Len(out) + j] = taken - Size(rb) + (sent + j)
  <2>1. out'[Len(out) + j] = c[sent + j]
    <3>1. /\ Len(out) + j \in 1..(Len(out) + n)
          /\ ~(Len(out) + j <= Len(out)) /\ (Len(out) + j) - Len(out) = j
      BY <1>1
    <3>2. out'[Len(out) + j] = part[(Len(out) + j) - Len(out)]
      <4>. HIDE DEF part, c
      <4>. QED BY <1>5, <3>1
    <3>. HIDE DEF part, c
    <3>. QED BY <1>4, <3>1, <3>2
  <2>2. sent + j \in 1..Size(rb)
    BY <1>1
  <2>. QED BY <1>6, <2>1, <2>2 DEF BufferHoldsLastRead
<1>7. \A i \in 1..Len(out) : out'[i] = out[i]
  BY <1>1, <1>5
<1>. QED BY <1>5, <1>6, <1>7

(* An empty buffer holds the last bytes read, whatever they are.           *)
LEMMA NothingHeld ==
  ASSUME NEW b, RingOK(b), Size(b) = 0, NEW x
  PROVE  Contents(b) = [j \in 1..Size(b) |-> x - Size(b) + j]
BY ContentsType

(* What a step does to the bytes when it moves none of them.               *)
LEMMA CopyStays ==
  ASSUME TypeOK, CopyInv, UNCHANGED <<taken, out, rb>>,
         cuts' = 0 => cuts = 0, dstFailed => dstFailed', dstFailed' => outClosed',
         pc = "thrown" => pc' = "thrown",
         \/ UNCHANGED <<pc, sent>>
         \/ /\ pc' # "write"
            /\ pc = "write" /\ cuts' = 0 /\ ~dstFailed' /\ pc' # "thrown" => sent = 0
         \/ pc # "write" /\ pc' = "write" /\ sent' = 0 /\ Size(rb) > 0
  PROVE  CopyInv'
<1>1. UNCHANGED <<Size(rb), Contents(rb)>> /\ Size(rb) \in Nat /\ Len(out) \in Nat
      /\ taken \in Nat /\ sent \in Nat
  BY Moduli, LenProperties DEF TypeOK, RingOK
<1>2. BufferHoldsLastRead' /\ ExactUnlessCut'
  BY <1>1 DEF CopyInv, BufferHoldsLastRead, ExactUnlessCut
<1>3. pc' = "write" =>
        /\ sent' < Size(rb) /\ sent' <= Len(out)
        /\ \A j \in 1..sent' : out[Len(out) - sent' + j] = taken - Size(rb) + j
  <2>1. CASE UNCHANGED <<pc, sent>>
    BY <2>1 DEF CopyInv
  <2>2. CASE pc' = "write" /\ sent' = 0 /\ Size(rb) > 0
    BY <1>1, <2>2
  <2>. QED BY <2>1, <2>2
<1>4. ~dstFailed' /\ pc' # "thrown" => ~dstFailed /\ pc # "thrown"
  OBVIOUS
<1>5. cuts' = 0 /\ ~dstFailed' /\ pc' # "thrown" =>
        Len(out) = taken - Size(rb) + (IF pc' = "write" THEN sent' ELSE 0)
  BY <1>1, <1>4 DEF CopyInv
<1>. QED BY <1>1, <1>2, <1>3, <1>4, <1>5 DEF CopyInv

-----------------------------------------------------------------------------
(* Each action preserves the invariant.                                    *)

LEMMA EnvironmentKeeps ==
  ASSUME ForwarderInv,
         ContainerWrites \/ ContainerExits \/ HangUp \/ ReaderReads \/ ReaderCloses
  PROVE  ForwarderInv'
<1>. USE DEF container, reader, loopVars, runtime, Available, Room
<1>1. UNCHANGED runtime /\ TypeOK /\ Len(out) \in Nat
  BY LenProperties
  DEF ContainerWrites, ContainerExits, HangUp, ReaderReads, ReaderCloses, ForwarderInv, TypeOK
<1>2. CopyInv'
  BY <1>1, CopyStays
  DEF ContainerWrites, ContainerExits, HangUp, ReaderReads, ReaderCloses, ForwarderInv, CopyInv
<1>3. CASE ContainerWrites
  BY <1>1, <1>2, <1>3
  DEF ContainerWrites, ForwarderInv, TypeOK, FlowInv, EdgeInv, RingOK, Full, Empty
<1>4. CASE ContainerExits
  BY <1>1, <1>2, <1>4
  DEF ContainerExits, ForwarderInv, TypeOK, FlowInv, EdgeInv, RingOK, Full, Empty
<1>5. CASE HangUp
  BY <1>1, <1>2, <1>5
  DEF HangUp, ForwarderInv, TypeOK, FlowInv, EdgeInv, RingOK, Full, Empty
<1>6. CASE ReaderReads
  <2>1. TypeOK' /\ FlowInv'
    BY <1>1, <1>6, OutRoomAssumption DEF ReaderReads, ForwarderInv, TypeOK, FlowInv, RingOK
  <2>2. EdgeInv'
    BY <1>1, <1>6, OutRoomAssumption DEF ReaderReads, ForwarderInv, TypeOK, EdgeInv, Full, Empty
  <2>. QED BY <1>2, <2>1, <2>2 DEF ForwarderInv
<1>7. CASE ReaderCloses
  BY <1>1, <1>2, <1>7
  DEF ReaderCloses, ForwarderInv, TypeOK, FlowInv, EdgeInv, RingOK, Full, Empty
<1>. QED BY <1>3, <1>4, <1>5, <1>6, <1>7

LEMMA PullKeeps == ASSUME ForwarderInv, Pull PROVE ForwarderInv'
<1>. USE DEF container, reader, loopVars
<1>1. PICK n \in 1..Least(Available, FreeSpace(rb)) :
        /\ rb' = Put(rb, [j \in 1..n |-> taken + j])
        /\ taken' = taken + n
        /\ quota' = quota - Least(quota, n)
  BY DEF Pull
<1>2. /\ TypeOK /\ BufferHoldsLastRead /\ RingOK(rb)
      /\ Size(rb) \in 0..RingCapacity /\ RingCapacity \in Nat
      /\ taken \in Nat /\ written \in Nat /\ Len(out) \in Nat /\ taken <= written
  BY Moduli, LenProperties DEF ForwarderInv, TypeOK, FlowInv, CopyInv, RingOK
<1>3. n \in Nat /\ n >= 1 /\ n <= FreeSpace(rb) /\ n <= written - taken
  BY <1>1, <1>2 DEF Least, Available, FreeSpace
<1>4. RingOK(rb') /\ Size(rb') = Size(rb) + n /\ BufferHoldsLastRead'
  BY <1>1, <1>2, <1>3, PullFills DEF BufferHoldsLastRead
<1>5. TypeOK'
  <2>1. quota' \in 0..Quota
    BY <1>1, <1>2, <1>3, QuotaAssumption DEF TypeOK, Least
  <2>. QED BY <1>1, <1>2, <1>3, <1>4, <2>1 DEF Pull, TypeOK
<1>6. FlowInv'
  BY <1>1, <1>2, <1>3 DEF Pull, ForwarderInv, FlowInv
<1>7. CopyInv'
  <2>1. taken' - Size(rb') = taken - Size(rb)
    BY <1>1, <1>2, <1>3, <1>4
  <2>2. pc = "pull" /\ UNCHANGED <<pc, out, cuts, dstFailed, outClosed, sent>>
    BY DEF Pull
  <2>. QED BY <1>4, <2>1, <2>2 DEF ForwarderInv, CopyInv, ExactUnlessCut
<1>8. EdgeInv'
  BY DEF Pull, ForwarderInv, EdgeInv
<1>. QED BY <1>5, <1>6, <1>7, <1>8 DEF ForwarderInv

LEMMA PullEndsKeeps == ASSUME ForwarderInv, PullEnds PROVE ForwarderInv'
<1>. USE DEF container, reader, loopVars
<1>1. TypeOK'
  BY DEF PullEnds, ForwarderInv, TypeOK, LoopPCs
<1>2. FlowInv'
  BY DEF PullEnds, ForwarderInv, FlowInv
<1>3. CopyInv'
  BY CopyStays DEF PullEnds, ForwarderInv, CopyInv
<1>4. EdgeInv'
  BY DEF PullEnds, ForwarderInv, EdgeInv, Available
<1>. QED BY <1>1, <1>2, <1>3, <1>4 DEF ForwarderInv

LEMMA PushKeeps == ASSUME ForwarderInv, Push PROVE ForwarderInv'
<1>. USE DEF container, reader, loopVars
<1>1. \/ /\ before' \in 0..Quota /\ spin' \in BOOLEAN /\ UNCHANGED sent
         /\ \/ pc' = "pull" /\ UNCHANGED spin
            \/ /\ pc' = "release"
               /\ ~spin' => (readBlocked \/ Full(rb)) /\ Empty(rb)
      \/ pc' = "write" /\ sent' = 0 /\ UNCHANGED <<before, spin>> /\ Size(rb) > 0
  <2>1. TypeOK /\ quota \in 0..Quota /\ RingOK(rb)
    BY DEF ForwarderInv, TypeOK
  <2>2. CASE quota = 0 \/ Empty(rb)
    BY <2>1, <2>2, RoundEnds DEF Push
  <2>3. CASE ~(quota = 0 \/ Empty(rb))
    BY <2>1, <2>3, EmptySize DEF Push, RingOK
  <2>. QED BY <2>2, <2>3
<1>2. /\ pc = "push"
      /\ UNCHANGED <<container, reader, loopVars, taken, out, events, rb, quota,
                     readBlocked, cuts, srcEof, dstFailed>>
  BY DEF Push
<1>3. TypeOK'
  BY <1>1, <1>2 DEF ForwarderInv, TypeOK, LoopPCs
<1>4. FlowInv'
  BY <1>2 DEF ForwarderInv, FlowInv
<1>5. CopyInv'
  BY <1>1, <1>2, CopyStays DEF ForwarderInv, CopyInv
<1>6. EdgeInv'
  BY <1>1, <1>2 DEF ForwarderInv, EdgeInv, Available, Full, Empty
<1>. QED BY <1>3, <1>4, <1>5, <1>6 DEF ForwarderInv

LEMMA WriteKeeps == ASSUME ForwarderInv, Write PROVE ForwarderInv'
<1>. USE DEF container, reader, loopVars
<1>1. PICK n \in 1..Least(Room, Size(rb) - sent) :
        /\ out' = out \o SubSeq(Contents(rb), sent + 1, sent + n)
        /\ sent' = sent + n
        /\ IF sent' < Size(rb)
           THEN UNCHANGED <<rb, quota, pc, before, spin>>
           ELSE /\ rb' = AdvanceTail(rb, Size(rb))
                /\ quota' = quota - Least(quota, Size(rb))
                /\ NextRound(rb', quota', FALSE)
  BY DEF Write
<1>2. /\ TypeOK /\ BufferHoldsLastRead /\ RingOK(rb) /\ CopyInv /\ EdgeInv /\ FlowInv
      /\ Size(rb) \in Nat /\ RingCapacity \in Nat /\ quota \in 0..Quota /\ Quota \in Nat
      /\ taken \in Nat /\ drained \in Nat /\ sent \in Nat /\ Len(out) \in Nat
  BY Moduli, LenProperties, QuotaAssumption DEF ForwarderInv, TypeOK, CopyInv, RingOK
<1>3. /\ pc = "write" /\ ~outClosed
      /\ UNCHANGED <<container, reader, loopVars, taken, events, readBlocked, cuts,
                     srcEof, dstFailed>>
  BY DEF Write
<1>4. n \in Nat /\ n >= 1 /\ n <= Size(rb) - sent /\ n <= OutRoom - (Len(out) - drained)
  BY <1>1, <1>2, OutRoomAssumption DEF Least, Room
<1>5. /\ out' \in Seq(Nat) /\ Len(out') = Len(out) + n
      /\ \A i \in 1..Len(out) : out'[i] = out[i]
      /\ \A j \in 1..n : out'[Len(out) + j] = taken - Size(rb) + (sent + j)
  BY <1>1, <1>2, <1>4, WriteAppends
<1>6. FlowInv'
  BY <1>2, <1>3, <1>4, <1>5, OutRoomAssumption DEF FlowInv
<1>7. ~dstFailed /\ sent <= Len(out)
      /\ \A j \in 1..sent : out[Len(out) - sent + j] = taken - Size(rb) + j
  BY <1>2, <1>3 DEF CopyInv
<1> DEFINE z == Size(rb)
           len == Len(out)
<1>z. /\ z \in Nat /\ len \in Nat /\ taken \in Nat /\ sent \in Nat /\ n \in Nat /\ n >= 1
      /\ n <= z - sent /\ sent <= len
  BY <1>2, <1>4, <1>7
<1>8. \A j \in 1..(sent + n) : out'[Len(out') - (sent + n) + j] = taken - Size(rb) + j
  <2>1. ASSUME NEW j \in 1..(sent + n)
        PROVE  out'[Len(out) + n - (sent + n) + j] = taken - Size(rb) + j
    <3>1. CASE j <= sent
      <4>1. Len(out) + n - (sent + n) + j = Len(out) - sent + j /\ j \in 1..sent
            /\ Len(out) - sent + j \in 1..Len(out)
        BY <1>2, <1>4, <1>7, <3>1
      <4>. QED BY <1>5, <1>7, <4>1
    <3>2. CASE ~(j <= sent)
      <4>1. Len(out) + n - (sent + n) + j = Len(out) + (j - sent) /\ j - sent \in 1..n
            /\ sent + (j - sent) = j
        BY <1>2, <1>4, <1>7, <3>2
      <4>. QED BY <1>5, <4>1
    <3>. QED BY <3>1, <3>2
  <2>. QED BY <1>2, <1>5, <2>1
<1>9. ExactUnlessCut'
  <2>1. ASSUME cuts = 0, NEW i \in 1..(Len(out) + n) PROVE out'[i] = i
    <3>1. len = taken - z + sent /\ \A k \in 1..Len(out) : out[k] = k
      BY <1>2, <1>3, <1>7, <2>1 DEF CopyInv, ExactUnlessCut
    <3>2. CASE i <= Len(out)
      BY <1>2, <1>5, <3>1, <3>2
    <3>3. CASE ~(i <= Len(out))
      <4>1. i - len \in 1..n /\ len + (i - len) = i /\ taken - z + (sent + (i - len)) = i
        <5>1. i \in 1..(len + n) /\ ~(i <= len)
          BY <3>3
        <5>. HIDE DEF z, len
        <5>. QED BY <1>z, <3>1, <5>1
      <4>. QED BY <1>5, <4>1
    <3>. QED BY <3>2, <3>3
  <2>. QED BY <1>3, <1>5, <2>1 DEF ExactUnlessCut
<1>10. CASE sent' < Size(rb)
  <2>1. UNCHANGED <<rb, quota, pc, before, spin, Size(rb), Contents(rb)>>
    BY <1>1, <1>10
  <2>2. TypeOK'
    BY <1>1, <1>2, <1>3, <1>4, <1>5, <2>1 DEF TypeOK, RingOK
  <2>3. EdgeInv'
    BY <1>2, <1>3, <2>1 DEF EdgeInv, Available, Full, Empty
  <2>4. CopyInv'
    <3>1. BufferHoldsLastRead'
      BY <1>2, <1>3, <2>1 DEF BufferHoldsLastRead
    <3>2. ASSUME NEW b \in 1..(taken - Size(rb)) PROVE \E i \in 1..Len(out') : out'[i] = b
      <4>1. PICK i \in 1..Len(out) : out[i] = b
        BY <1>2, <1>3, <1>7 DEF CopyInv
      <4>. QED BY <1>5, <1>z, <4>1
    <3>3. ASSUME cuts = 0 PROVE Len(out') = taken - Size(rb) + sent'
      <4>1. len = taken - z + sent
        BY <1>2, <1>3, <1>7, <3>3 DEF CopyInv
      <4>2. Len(out') = len + n /\ sent' = sent + n
        BY <1>1, <1>5
      <4>3. len + n = taken - z + (sent + n)
        <5>. HIDE DEF z, len
        <5>. QED BY <1>z, <4>1
      <4>. QED BY <4>2, <4>3
    <3>4. sent' <= Len(out')
      BY <1>1, <1>2, <1>4, <1>5, <1>7
    <3>. QED BY <1>1, <1>3, <1>7, <1>8, <1>9, <1>10, <2>1, <3>1, <3>2, <3>3, <3>4 DEF CopyInv
  <2>. QED BY <1>6, <2>2, <2>3, <2>4 DEF ForwarderInv
<1>11. CASE ~(sent' < Size(rb))
  <2>1. /\ rb' = AdvanceTail(rb, Size(rb)) /\ quota' = quota - Least(quota, Size(rb))
        /\ NextRound(rb', quota', FALSE)
    BY <1>1, <1>11
  <2>n. sent + n = z
    <3>1. sent' = sent + n /\ ~(sent' < z)
      BY <1>1, <1>11
    <3>. HIDE DEF z, len
    <3>. QED BY <1>z, <3>1
  <2>2. RingOK(rb') /\ Size(rb') = 0
    BY <1>2, <2>1, TailCatchesUp
  <2>3. quota' \in 0..Quota
    BY <1>2, <2>1 DEF Least
  <2>4. /\ before' \in 0..Quota /\ spin' \in BOOLEAN
        /\ \/ pc' = "pull"
           \/ /\ pc' = "release"
              /\ ~spin' => (readBlocked \/ Full(rb')) /\ Empty(rb')
    BY <1>2, <2>1, <2>3, RoundEnds
  <2>5. TypeOK'
    BY <1>1, <1>2, <1>3, <1>4, <1>5, <2>2, <2>3, <2>4 DEF TypeOK, LoopPCs
  <2>6. EdgeInv'
    BY <1>2, <1>3, <2>4 DEF EdgeInv, Available
  <2>7. CopyInv'
    <3>1. BufferHoldsLastRead'
      BY <1>3, <2>2, NothingHeld DEF BufferHoldsLastRead
    <3>2. \A b \in 1..taken : \E i \in 1..Len(out') : out'[i] = b
      <4>1. ASSUME NEW b \in 1..taken PROVE \E i \in 1..Len(out') : out'[i] = b
        <5>1. CASE b <= taken - Size(rb)
          <6>1. PICK i \in 1..Len(out) : out[i] = b
            BY <1>2, <1>3, <1>7, <5>1 DEF CopyInv
          <6>. QED BY <1>5, <1>z, <6>1
        <5>2. CASE ~(b <= taken - Size(rb))
          <6> DEFINE j == b - (taken - z)
          <6>1. j \in 1..(sent + n) /\ taken - z + j = b /\ len + n - (sent + n) + j \in 1..(len + n)
            <7>1. ~(b <= taken - z)
              BY <5>2
            <7>. HIDE DEF z, len
            <7>. QED BY <1>z, <2>n, <7>1
          <6>2. out'[Len(out') - (sent + n) + j] = b
            <7>. HIDE DEF j
            <7>. QED BY <1>8, <6>1
          <6>3. Len(out') - (sent + n) + j \in 1..Len(out')
            <7>1. Len(out') = len + n
              BY <1>5
            <7>. HIDE DEF j, len
            <7>. QED BY <1>z, <6>1, <7>1
          <6>. QED BY <6>2, <6>3
        <5>. QED BY <5>1, <5>2
      <4>. QED BY <4>1
    <3>3. ASSUME cuts = 0 PROVE Len(out') = taken
      <4>1. len = taken - z + sent
        BY <1>2, <1>3, <1>7, <3>3 DEF CopyInv
      <4>2. len + n = taken
        <5>. HIDE DEF z, len
        <5>. QED BY <1>z, <2>n, <4>1
      <4>. QED BY <1>5, <4>2
    <3>4. pc' # "write" /\ taken' = taken /\ taken' - Size(rb') = taken
      BY <1>2, <1>3, <2>2, <2>4
    <3>5. taken' - Size(rb') + 0 = taken
      BY <1>z, <3>4
    <3>. QED BY <1>3, <1>7, <1>9, <3>1, <3>2, <3>3, <3>4, <3>5 DEF CopyInv
  <2>. QED BY <1>6, <2>5, <2>6, <2>7 DEF ForwarderInv
<1>. QED BY <1>10, <1>11

LEMMA WriteWouldBlockKeeps == ASSUME ForwarderInv, WriteWouldBlock PROVE ForwarderInv'
<1>. USE DEF container, reader, loopVars
<1>1. /\ pc = "write" /\ Room = 0 /\ cuts' = (IF sent > 0 THEN cuts + 1 ELSE cuts)
      /\ UNCHANGED <<container, reader, loopVars, taken, out, events, rb, quota,
                     readBlocked, sent, srcEof, dstFailed>>
  BY DEF WriteWouldBlock
<1>2. /\ before' \in 0..Quota /\ spin' \in BOOLEAN
      /\ \/ pc' = "pull" /\ UNCHANGED spin
         \/ pc' = "release" /\ (~spin' => (readBlocked \/ Full(rb)))
  BY RoundEnds DEF WriteWouldBlock, ForwarderInv, TypeOK
<1>3. sent \in Nat /\ cuts \in Nat
  BY DEF ForwarderInv, TypeOK
<1>4. TypeOK'
  BY <1>1, <1>2, <1>3 DEF ForwarderInv, TypeOK, LoopPCs
<1>5. FlowInv'
  BY <1>1 DEF ForwarderInv, FlowInv
<1>6. CopyInv'
  BY <1>1, <1>2, <1>3, CopyStays DEF ForwarderInv, CopyInv
<1>7. EdgeInv'
  BY <1>1, <1>2 DEF ForwarderInv, EdgeInv, Available, Room, Full, Empty
<1>. QED BY <1>4, <1>5, <1>6, <1>7 DEF ForwarderInv

LEMMA WriteFailsKeeps == ASSUME ForwarderInv, WriteFails PROVE ForwarderInv'
<1>. USE DEF container, reader, loopVars
<1>1. /\ pc = "write" /\ TypeOK /\ RingOK(rb)
      /\ UNCHANGED <<container, reader, loopVars, taken, out, events, quota,
                     readBlocked, sent, cuts, srcEof>>
  BY DEF WriteFails, ForwarderInv, TypeOK
<1>2. FlowInv'
  BY <1>1 DEF ForwarderInv, FlowInv
<1>3. CASE outClosed /\ dstFailed' = TRUE /\ rb' = Cleared(rb) /\ NextRound(rb', quota, TRUE)
  <2>1. RingOK(rb') /\ Size(rb') = 0 /\ Empty(rb')
    BY <1>1, <1>3, ClearEmpties, EmptySize
  <2>2. /\ before' \in 0..Quota /\ spin' \in BOOLEAN
        /\ \/ pc' = "pull" /\ UNCHANGED spin
           \/ pc' = "release" /\ (~spin' => (readBlocked \/ Full(rb')))
    BY <1>1, <1>3, RoundEnds DEF TypeOK
  <2>3. TypeOK'
    BY <1>1, <1>3, <2>1, <2>2 DEF TypeOK, LoopPCs
  <2>4. EdgeInv'
    BY <1>1, <1>3, <2>1, <2>2 DEF ForwarderInv, EdgeInv, Available
  <2>5. CopyInv'
    <3>1. BufferHoldsLastRead'
      BY <2>1, NothingHeld DEF BufferHoldsLastRead
    <3>. QED BY <1>1, <1>3, <2>2, <3>1 DEF ForwarderInv, CopyInv, ExactUnlessCut
  <2>. QED BY <1>2, <2>3, <2>4, <2>5 DEF ForwarderInv
<1>4. CASE pc' = "thrown" /\ UNCHANGED <<dstFailed, rb, before, spin>>
  <2>1. TypeOK'
    BY <1>1, <1>4 DEF TypeOK, LoopPCs, RingOK
  <2>2. EdgeInv'
    BY <1>1, <1>4 DEF ForwarderInv, EdgeInv
  <2>3. CopyInv'
    BY <1>1, <1>4, CopyStays DEF ForwarderInv, CopyInv
  <2>. QED BY <1>2, <2>1, <2>2, <2>3 DEF ForwarderInv
<1>. QED BY <1>3, <1>4 DEF WriteFails

LEMMA PollKeeps == ASSUME ForwarderInv, Poll PROVE ForwarderInv'
<1>. USE DEF container, reader, loopVars
<1>1. /\ pc = "epoll" /\ events' = {}
      /\ UNCHANGED <<container, reader, taken, out, rb, readBlocked, sent, cuts,
                     forwarding, primed>>
      /\ \/ /\ forwarding /\ pc' = "pull" /\ quota' = Quota /\ before' = Quota
            /\ UNCHANGED spin
         \/ /\ ~forwarding /\ pc' \in {"returned", "epoll"} /\ spin' = FALSE
            /\ UNCHANGED <<quota, before>>
  BY DEF Poll
<1>2. /\ childExited' = IF "signal" \in events THEN exited ELSE childExited
      /\ srcEof' \in BOOLEAN
      /\ dstFailed' = (dstFailed \/ (forwarding /\ "dst" \in events /\ outClosed))
  <2>1. srcEof' = \/ srcEof
                  \/ forwarding /\ "signal" \in events /\ exited
                  \/ forwarding /\ "src" \in events /\ hungUp
    BY DEF Poll
  <2>. QED BY <2>1 DEF Poll, ForwarderInv, TypeOK
<1>3. TypeOK'
  <2>1. childExited' \in BOOLEAN /\ dstFailed' \in BOOLEAN
    BY <1>1, <1>2 DEF ForwarderInv, TypeOK
  <2>2. quota' \in 0..Quota /\ before' \in 0..Quota
    BY <1>1, QuotaAssumption DEF ForwarderInv, TypeOK
  <2>3. pc' \in LoopPCs
    BY <1>1 DEF LoopPCs
  <2>4. spin' \in BOOLEAN
    BY <1>1 DEF ForwarderInv, TypeOK
  <2>. QED BY <1>1, <1>2, <2>1, <2>2, <2>3, <2>4 DEF ForwarderInv, TypeOK, RingOK
<1>4. FlowInv'
  BY <1>1 DEF ForwarderInv, FlowInv
<1>5. CopyInv'
  <2>1. (dstFailed => dstFailed') /\ (dstFailed' => outClosed')
    BY <1>1, <1>2 DEF ForwarderInv, CopyInv
  <2>. QED BY <1>1, <2>1, CopyStays DEF ForwarderInv
<1>6. EdgeInv'
  BY <1>1, <1>2 DEF ForwarderInv, EdgeInv
<1>. QED BY <1>3, <1>4, <1>5, <1>6 DEF ForwarderInv

LEMMA ReleaseKeeps == ASSUME ForwarderInv, Release PROVE ForwarderInv'
<1>. USE DEF container, reader, loopVars
<1>1. /\ pc = "release" /\ pc' \in {"returned", "epoll"} /\ primed' = TRUE
      /\ UNCHANGED <<container, reader, childExited, taken, out, rb, quota, before,
                     readBlocked, sent, cuts, srcEof, dstFailed>>
  BY DEF Release
<1>2. /\ forwarding' \in BOOLEAN /\ (forwarding' => ~dstFailed /\ UNCHANGED events)
      /\ spin' \in BOOLEAN /\ (spin => spin')
      /\ events' \subseteq events /\ ("signal" \in events => "signal" \in events')
  BY DEF Release, Finished, ForwarderInv, TypeOK
<1>3. TypeOK'
  BY <1>1, <1>2 DEF ForwarderInv, TypeOK, LoopPCs, RingOK
<1>4. FlowInv'
  BY <1>1 DEF ForwarderInv, FlowInv
<1>5. CopyInv'
  BY <1>1, CopyStays DEF ForwarderInv, CopyInv
<1>6. EdgeInv'
  BY <1>1, <1>2 DEF ForwarderInv, EdgeInv, Available, Room, Full, Empty
<1>. QED BY <1>3, <1>4, <1>5, <1>6 DEF ForwarderInv

(* Where the loop is when the source has ended, what is left to be read:   *)
(* nothing, once a drive with quota left it for a reason other than a full *)
(* buffer. The source ends only when nobody writes to the terminal any     *)
(* more.                                                                   *)
DrainInv ==
  /\ srcEof => exited \/ hungUp
  /\ pc \in {"pull", "push", "write"} => quota <= before
  /\ pc \in {"push", "write"} /\ Full(rb) => ~readBlocked
  /\ pc \in {"push", "write"} /\ srcEof /\ quota > 0 /\ ~Full(rb) => Available = 0
  /\ pc = "release" /\ ~dstFailed /\ srcEof /\ quota > 0 /\ Empty(rb) => Available = 0
  /\ ~forwarding /\ ~dstFailed =>
       srcEof /\ Empty(rb) /\ (quota > 0 => Available = 0)
  /\ pc = "returned" => ~forwarding

LEMMA DrainStep == ASSUME ForwarderInv, DrainInv, [Next]_vars PROVE DrainInv'
<1>. USE DEF container, reader, loopVars, runtime, Available
<1>1. CASE ContainerWrites \/ ContainerExits \/ HangUp \/ ReaderReads \/ ReaderCloses
  BY <1>1 DEF ContainerWrites, ContainerExits, HangUp, ReaderReads, ReaderCloses,
              DrainInv, Full, Empty
<1>2. CASE Pull
  <2>1. /\ pc = "pull" /\ pc' = "pull" /\ forwarding
        /\ UNCHANGED <<srcEof, exited, hungUp, before, forwarding>>
    BY <1>2 DEF Pull, ForwarderInv, EdgeInv
  <2>2. quota' <= quota /\ quota \in Nat /\ before \in Nat /\ quota' \in Nat
    <3>1. PICK n \in 1..Least(Available, FreeSpace(rb)) : quota' = quota - Least(quota, n)
      BY <1>2 DEF Pull
    <3>2. quota \in Nat /\ before \in Nat /\ n \in Nat
      BY QuotaAssumption DEF ForwarderInv, TypeOK
    <3>. QED BY <3>1, <3>2 DEF Least
  <2>. QED BY <2>1, <2>2 DEF DrainInv
<1>3. CASE PullEnds
  <2>1. /\ pc = "pull" /\ pc' = "push" /\ forwarding
        /\ UNCHANGED <<written, exited, hungUp, forwarding, taken, rb, quota,
                       before, dstFailed, Full(rb), Empty(rb)>>
    BY <1>3 DEF PullEnds, ForwarderInv, EdgeInv, Full, Empty
  <2>2. \/ (quota = 0 \/ Full(rb)) /\ ~readBlocked' /\ srcEof' = srcEof
        \/ ~Full(rb) /\ Available = 0 /\ srcEof' = (srcEof \/ hungUp)
    BY <1>3 DEF PullEnds
  <2>3. srcEof' => exited' \/ hungUp'
    BY <2>1, <2>2 DEF DrainInv
  <2>4. Full(rb)' => ~readBlocked'
    BY <2>1, <2>2
  <2>5. srcEof' /\ quota' > 0 /\ ~Full(rb)' => Available' = 0
    <3>1. Available' = Available /\ (quota' > 0 => quota # 0) /\ (Full(rb)' <=> Full(rb))
      BY <2>1
    <3>2. quota = 0 \/ Full(rb) \/ Available = 0
      BY <2>2
    <3>. QED BY <3>1, <3>2
  <2>6. quota' <= before'
    BY <2>1 DEF DrainInv
  <2>. QED BY <2>1, <2>3, <2>4, <2>5, <2>6 DEF DrainInv
<1>4. CASE Push
  <2>1. /\ pc = "push" /\ forwarding
        /\ UNCHANGED <<written, exited, hungUp, forwarding, taken, rb, quota,
                       readBlocked, srcEof, dstFailed, Full(rb), Empty(rb)>>
    BY <1>4 DEF Push, ForwarderInv, EdgeInv, Full, Empty
  <2>2. Empty(rb) => ~Full(rb)
    BY EmptySize, Moduli DEF ForwarderInv, TypeOK, Full, FreeSpace
  <2>3. \/ pc' = "write" /\ before' = before
        \/ pc' = "pull" /\ before' = quota
        \/ pc' = "release"
    BY <1>4 DEF Push, NextRound
  <2>4. quota \in Nat
    BY QuotaAssumption DEF ForwarderInv, TypeOK
  <2>. QED BY <2>1, <2>2, <2>3, <2>4 DEF DrainInv
<1>5. CASE Write
  <2>1. /\ pc = "write" /\ forwarding
        /\ UNCHANGED <<written, exited, hungUp, forwarding, taken, readBlocked,
                       srcEof, dstFailed>>
    BY <1>5 DEF Write, ForwarderInv, EdgeInv
  <2>2. CASE sent' < Size(rb)
    <3>1. UNCHANGED <<rb, quota, pc, before, Full(rb), Empty(rb)>>
      BY <1>5, <2>2 DEF Write, Full, Empty
    <3>. QED BY <2>1, <3>1 DEF DrainInv
  <2>3. CASE ~(sent' < Size(rb))
    <3>1. /\ rb' = AdvanceTail(rb, Size(rb)) /\ quota' = quota - Least(quota, Size(rb))
          /\ NextRound(rb', quota', FALSE)
      BY <1>5, <2>3 DEF Write
    <3>2. RingOK(rb') /\ Size(rb') = 0
      BY <3>1, TailCatchesUp DEF ForwarderInv, TypeOK
    <3>3. Size(rb) \in Nat /\ Size(rb) > 0 /\ quota \in Nat /\ before \in Nat
      BY <2>1, Moduli, QuotaAssumption DEF ForwarderInv, TypeOK, RingOK, CopyInv
    <3>4. quota' \in Nat /\ quota' <= quota /\ (quota' > 0 => quota > 0 /\ quota' < quota)
      BY <3>1, <3>3 DEF Least
    <3>5. Empty(rb') /\ ~Full(rb')
      BY <3>2, EmptySize, Moduli DEF Full, FreeSpace
    <3>6. pc' \in {"pull", "release"} /\ (pc' = "pull" => before' = quota')
      BY <3>1 DEF NextRound
    <3>7. pc' = "release" /\ quota' > 0 => readBlocked
      <4>1. quota' > 0 => quota' # before
        BY <2>1, <3>3, <3>4 DEF DrainInv
      <4>. QED BY <3>1, <3>5, <4>1 DEF NextRound
    <3>8. pc' = "release" /\ srcEof' /\ quota' > 0 => Available' = 0
      BY <2>1, <3>4, <3>7 DEF DrainInv
    <3>. QED BY <2>1, <3>3, <3>4, <3>6, <3>8 DEF DrainInv
  <2>. QED BY <2>2, <2>3
<1>6. CASE WriteWouldBlock
  <2>1. /\ pc = "write" /\ forwarding
        /\ UNCHANGED <<written, exited, hungUp, forwarding, taken, rb, quota,
                       readBlocked, srcEof, dstFailed, Full(rb), Empty(rb)>>
    BY <1>6 DEF WriteWouldBlock, ForwarderInv, EdgeInv, Full, Empty
  <2>2. ~Empty(rb)
    BY <2>1, EmptySize, Moduli DEF ForwarderInv, TypeOK, CopyInv, RingOK
  <2>3. \/ pc' = "pull" /\ before' = quota
        \/ pc' = "release"
    BY <1>6 DEF WriteWouldBlock, NextRound
  <2>4. quota \in Nat
    BY QuotaAssumption DEF ForwarderInv, TypeOK
  <2>. QED BY <2>1, <2>2, <2>3, <2>4 DEF DrainInv
<1>7. CASE WriteFails
  <2>1. /\ pc = "write" /\ forwarding
        /\ UNCHANGED <<written, exited, hungUp, forwarding, taken, quota, srcEof>>
    BY <1>7 DEF WriteFails, ForwarderInv, EdgeInv
  <2>2. \/ /\ dstFailed'
           /\ \/ pc' = "pull" /\ before' = quota
              \/ pc' = "release"
        \/ pc' = "thrown"
    BY <1>7 DEF WriteFails, NextRound
  <2>3. quota \in Nat
    BY QuotaAssumption DEF ForwarderInv, TypeOK
  <2>. QED BY <2>1, <2>2, <2>3 DEF DrainInv
<1>8. CASE Poll
  <2>1. pc = "epoll" /\ UNCHANGED <<written, exited, hungUp, taken, rb, forwarding,
                                    Full(rb), Empty(rb)>>
    BY <1>8 DEF Poll, Full, Empty
  <2>s. srcEof' = \/ srcEof
                  \/ forwarding /\ "signal" \in events /\ exited
                  \/ forwarding /\ "src" \in events /\ hungUp
    BY <1>8 DEF Poll
  <2>d. dstFailed' = \/ dstFailed
                     \/ forwarding /\ "dst" \in events /\ outClosed
    BY <1>8 DEF Poll
  <2>2. \/ forwarding /\ pc' = "pull" /\ quota' = Quota /\ before' = Quota
        \/ ~forwarding /\ pc' \in {"returned", "epoll"} /\ UNCHANGED quota
    BY <1>8 DEF Poll
  <2>3. srcEof' => exited' \/ hungUp'
    BY <2>1, <2>s DEF DrainInv
  <2>4. ~forwarding' /\ ~dstFailed' =>
          srcEof' /\ Empty(rb)' /\ (quota' > 0 => Available' = 0)
    <3>. SUFFICES ASSUME ~forwarding', ~dstFailed'
                  PROVE  srcEof' /\ Empty(rb)' /\ (quota' > 0 => Available' = 0)
      OBVIOUS
    <3>1. ~forwarding /\ ~dstFailed /\ quota' = quota
      BY <2>1, <2>2, <2>d
    <3>2. srcEof /\ Empty(rb) /\ (quota > 0 => Available = 0)
      BY <3>1 DEF DrainInv
    <3>. QED BY <2>1, <2>s, <3>1, <3>2
  <2>. QED BY <2>1, <2>2, <2>3, <2>4, QuotaAssumption DEF DrainInv
<1>9. CASE Release
  <2>1. /\ pc = "release" /\ UNCHANGED <<written, exited, hungUp, taken, rb, quota,
                         readBlocked, srcEof, dstFailed, Full(rb), Empty(rb)>>
        /\ pc' \in {"returned", "epoll"} /\ forwarding' = ~Finished
        /\ pc' = "returned" => Finished
    BY <1>9 DEF Release, Full, Empty
  <2>. QED BY <2>1 DEF DrainInv, Finished
<1>10. CASE UNCHANGED vars
  BY <1>10 DEF vars, DrainInv, Full, Empty
<1>. QED BY <1>1, <1>2, <1>3, <1>4, <1>5, <1>6, <1>7, <1>8, <1>9, <1>10
     DEF Next, Loop, Drive, Terminated

LEMMA ForwarderInvariant == Spec => []ForwarderInv
<1>1. ASSUME Init PROVE ForwarderInv
  <2>1. RingOK(rb) /\ Size(rb) = 0
    <3>1. rb \in Rings /\ Empty(rb)
      <4>1. 0 \in 0..(CounterMod - 1) /\ [s \in Slots |-> 0] \in [Slots -> Nat]
        BY Moduli
      <4>. QED BY <1>1, <4>1 DEF Init, Rings, Empty
    <3>2. Size(rb) = 0
      BY <3>1, NoneLeft
    <3>. QED BY <3>1, <3>2, Moduli DEF RingOK
  <2>2. BufferHoldsLastRead
    BY <2>1, NothingHeld DEF BufferHoldsLastRead
  <2>3. written \in Nat /\ out = <<>> /\ Len(out) = 0 /\ out \in Seq(Nat)
    BY <1>1, TotalAssumption, PtyRoomAssumption, EmptySeq DEF Init, Least
  <2>4. TypeOK
    <3>1. quota \in 0..Quota /\ before \in 0..Quota
      BY <1>1, QuotaAssumption DEF Init
    <3>2. exited \in BOOLEAN /\ childExited \in BOOLEAN
      BY <1>1 DEF Init
    <3>. QED BY <1>1, <2>1, <2>3, <3>1, <3>2 DEF Init, TypeOK, LoopPCs
  <2>5. FlowInv /\ EdgeInv
    BY <1>1, <2>3, OutRoomAssumption DEF Init, FlowInv, EdgeInv
  <2>6. CopyInv
    BY <1>1, <2>1, <2>2, <2>3 DEF Init, CopyInv, ExactUnlessCut
  <2>. QED BY <2>4, <2>5, <2>6 DEF ForwarderInv
<1>2. ASSUME ForwarderInv, [Next]_vars PROVE ForwarderInv'
  <2>1. CASE UNCHANGED vars
    BY <1>2, <2>1
    DEF vars, container, reader, loopVars, ForwarderInv, TypeOK, RingOK, FlowInv, CopyInv,
        EdgeInv, BufferHoldsLastRead, ExactUnlessCut, Available, Room, Full, Empty
  <2>2. CASE Loop
    BY <1>2, <2>2, PullKeeps, PullEndsKeeps, PushKeeps, WriteKeeps, WriteWouldBlockKeeps,
       WriteFailsKeeps, PollKeeps, ReleaseKeeps
    DEF Loop, Drive
  <2>. QED BY <1>2, <2>1, <2>2, EnvironmentKeeps DEF Next, Terminated
<1>. QED BY <1>1, <1>2, PTL DEF Spec

-----------------------------------------------------------------------------
LEMMA DrainInvariant == Spec => []DrainInv
<1>1. Init => DrainInv
  BY QuotaAssumption DEF Init, DrainInv
<1>2. ForwarderInv /\ DrainInv /\ [Next]_vars => DrainInv'
  BY DrainStep
<1>. QED BY <1>1, <1>2, ForwarderInvariant, PTL DEF Spec

(* What the container writes to its terminal arrives: the ring holds the   *)
(* last bytes read whatever its counters have wrapped around to, no byte   *)
(* read is lost unless stdout failed, and unless a full stdout cut a write *)
(* short stdout gets them once and in order. When the loop returns, all    *)
(* that was written has been read and is in stdout, unless stdout failed   *)
(* or the last drive had used up its quota.                                *)
THEOREM ArrivesWhole == Spec => []OutputFaithful
<1>1. ASSUME ForwarderInv, DrainInv PROVE OutputFaithful
  <2>1. BufferHoldsLastRead /\ ExactUnlessCut
    BY <1>1 DEF ForwarderInv, CopyInv
  <2>2. ASSUME ~dstFailed, pc # "thrown", NEW b \in 1..taken
        PROVE  \/ \E i \in 1..Len(out) : out[i] = b
               \/ \E j \in 1..Size(rb) : Contents(rb)[j] = b
    <3>1. taken \in Nat /\ Size(rb) \in Nat
      BY <1>1, Moduli DEF ForwarderInv, TypeOK, RingOK
    <3>2. CASE b <= taken - Size(rb)
      BY <1>1, <2>2, <3>1, <3>2 DEF ForwarderInv, CopyInv
    <3>3. CASE ~(b <= taken - Size(rb))
      <4>1. b - (taken - Size(rb)) \in 1..Size(rb)
            /\ taken - Size(rb) + (b - (taken - Size(rb))) = b
        BY <3>1, <3>3
      <4>. QED BY <2>1, <4>1 DEF BufferHoldsLastRead
    <3>. QED BY <3>2, <3>3
  <2>3. ASSUME pc = "returned", ~dstFailed
        PROVE  /\ \A b \in 1..taken : \E i \in 1..Len(out) : out[i] = b
               /\ quota > 0 => taken = written
    <3>1. Empty(rb) /\ (quota > 0 => Available = 0)
      BY <1>1, <2>3 DEF DrainInv
    <3>2. Size(rb) = 0 /\ taken \in Nat /\ written \in Nat
      BY <1>1, <3>1, EmptySize DEF ForwarderInv, TypeOK
    <3>3. taken - Size(rb) = taken
      BY <3>2
    <3>4. \A b \in 1..(taken - Size(rb)) : \E i \in 1..Len(out) : out[i] = b
      BY <1>1, <2>3 DEF ForwarderInv, CopyInv
    <3>5. quota > 0 => taken = written
      BY <3>1, <3>2 DEF Available
    <3>. QED BY <3>3, <3>4, <3>5
  <2>. QED BY <2>1, <2>2, <2>3 DEF OutputFaithful, NoByteLost, DrainedUnlessOutOfQuota
<1>. QED BY <1>1, ForwarderInvariant, DrainInvariant, PTL

(* With edge-triggered events, the loop goes to sleep only when there is   *)
(* nothing it could move: no wakeup is lost.                               *)
THEOREM NoLostWakeup == Spec => []AsleepOnlyWhenBlocked
<1>1. ASSUME ForwarderInv PROVE AsleepOnlyWhenBlocked
  <2>1. ASSUME pc = "epoll", ~spin, Ready = {}, forwarding
        PROVE  /\ Available = 0 \/ Full(rb)
               /\ Empty(rb) \/ Room = 0
               /\ ~outClosed
               /\ exited => childExited
    <3>1. "signal" \notin events
      BY <2>1 DEF Ready
    <3>2. "src" \in events => ~(Available > 0)
      BY <2>1 DEF Ready
    <3>3. "dst" \in events => ~(Room > 0) /\ ~outClosed
      BY <2>1 DEF Ready
    <3>4. Available \in Nat /\ Room \in Nat
      BY <1>1, LenProperties, OutRoomAssumption
      DEF ForwarderInv, TypeOK, FlowInv, Available, Room
    <3>. QED BY <1>1, <2>1, <3>1, <3>2, <3>3, <3>4 DEF ForwarderInv, EdgeInv
  <2>. QED BY <2>1 DEF AsleepOnlyWhenBlocked
<1>. QED BY <1>1, ForwarderInvariant, PTL
=============================================================================
