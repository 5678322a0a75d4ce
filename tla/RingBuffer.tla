----------------------------- MODULE RingBuffer -----------------------------
(***************************************************************************)
(* utils/ringbuffer.h: a byte ring over two size_t counters that are only  *)
(* ever advanced, and wrap around.  The buffer is mapped twice in a row,   *)
(* so that the bytes in use, or free, are one span.                        *)
(***************************************************************************)
EXTENDS Integers, Sequences

CONSTANTS
  RingCapacity,   \* mask_ + 1, a power of two
  CounterMod      \* 2^w, for counters of w bits

ASSUME RingCapacityAssumption == RingCapacity \in Nat \ {0}
ASSUME CounterModAssumption ==
  CounterMod \in Nat /\ CounterMod > RingCapacity /\ CounterMod % RingCapacity = 0

Slots == 0..(RingCapacity - 1)
Size(rb) == (rb.head - rb.tail) % CounterMod
FreeSpace(rb) == RingCapacity - Size(rb)
Empty(rb) == rb.head = rb.tail
Full(rb) == Size(rb) = RingCapacity

(* Mutant: the buffer is mapped once, and the bytes behind it are not its. *)
ReadSpanUnmirrored(rb, n) ==
  [j \in 1..n |-> LET s == (rb.tail % RingCapacity) + j - 1
                  IN  IF s < RingCapacity THEN rb.slots[s] ELSE 0]

(* The n bytes at get_read_ptr().                                          *)
ReadSpan(rb, n) == [j \in 1..n |-> rb.slots[(rb.tail + j - 1) % RingCapacity]]
Contents(rb) == ReadSpan(rb, Size(rb))

(* Bytes stored at get_write_ptr(), then advance_head.                     *)
Put(rb, bytes) ==
  [rb EXCEPT
     !.slots = [s \in Slots |->
                  LET j == ((s - rb.head) % RingCapacity) + 1
                  IN  IF j <= Len(bytes) THEN bytes[j] ELSE @[s]],
     !.head = (@ + Len(bytes)) % CounterMod]

AdvanceTail(rb, n) == [rb EXCEPT !.tail = (@ + n) % CounterMod]

Cleared(rb) == [rb EXCEPT !.head = 0, !.tail = 0]
=============================================================================
