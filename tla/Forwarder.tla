------------------------------ MODULE Forwarder ------------------------------
(***************************************************************************)
(* The output of a container with a terminal: io::Forwarder copies from    *)
(* the master of its pty to the runtime's stdout, both non-blocking, in    *)
(* the epoll loop of container_monitor::wait_container_exit.  The events   *)
(* of both descriptors are edge-triggered, so the loop sleeps through      *)
(* whatever it leaves undone.                                              *)
(*                                                                         *)
(* Files: io/forwarder.cpp, io/forwarder.h, container_monitor.cpp,         *)
(* utils/file_describer.cpp (read_span, write_span).                       *)
(***************************************************************************)
EXTENDS RingBuffer

CONSTANTS
  Quota,     \* default_bytes_quota: bytes one drive moves
  Total,     \* bound: bytes the container writes
  PtyRoom,   \* bytes the pty holds for its master
  OutRoom,   \* bytes stdout holds for its reader
  MaxCuts    \* bound: writes that a full stdout cuts short

ASSUME QuotaAssumption == Quota \in Nat \ {0}
ASSUME TotalAssumption == Total \in Nat
ASSUME PtyRoomAssumption == PtyRoom \in Nat \ {0}
ASSUME OutRoomAssumption == OutRoom \in Nat /\ OutRoom >= RingCapacity
ASSUME MaxCutsAssumption == MaxCuts \in Nat

VARIABLES
  written,     \* bytes 1..written have been written to the pty
  taken,       \* bytes 1..taken have been read from its master
  exited,      \* the container has exited, SIGCHLD raised
  hungUp,      \* no process holds the slave of the pty
  out,         \* the bytes stdout has accepted
  drained,     \* how many of them its reader has taken
  outClosed,   \* the reader has gone
  events,      \* edges epoll has not reported: "signal", "src", "dst"
  pc,          \* where the loop is
  rb,          \* the ring buffer
  quota,       \* io_quota
  before,      \* quota_before
  readBlocked, \* what pull returned
  sent,        \* bytes_written of write_span
  cuts,        \* writes cut short so far
  srcEof, dstFailed,
  forwarding,  \* out_fwd has a value
  childExited, \* child_exited
  primed,      \* the drive before the loop is over
  spin         \* need_immediate_spin

container == <<written, exited, hungUp>>
reader    == <<drained, outClosed>>
loopVars  == <<forwarding, childExited, primed>>
vars == <<container, reader, loopVars, taken, out, events, pc, rb, quota,
          before, readBlocked, sent, cuts, srcEof, dstFailed, spin>>

Available == written - taken
Room == OutRoom - (Len(out) - drained)
Least(a, b) == IF a <= b THEN a ELSE b

(* epoll reports an edge if the descriptor still is ready.                 *)
Ready ==
  {e \in events : \/ e = "signal"
                  \/ e = "src" /\ (Available > 0 \/ hungUp)
                  \/ e = "dst" /\ (Room > 0 \/ outClosed)}

(* enable_io_forwarding has set the forwarder up, whatever happened before *)
(* (the container may have exited and been reaped; adding a descriptor     *)
(* reports the readiness it has) and primes it with one drive.             *)
Init ==
  /\ written \in 0..Least(Total, PtyRoom)
  /\ taken = 0
  /\ exited \in BOOLEAN
  /\ hungUp = FALSE
  /\ out = <<>>
  /\ drained = 0
  /\ outClosed = FALSE
  /\ events = {"src", "dst"}
  /\ pc = "pull"
  /\ rb = [head |-> 0, tail |-> 0, slots |-> [s \in Slots |-> 0]]
  /\ quota = Quota
  /\ before = Quota
  /\ primed = FALSE
  /\ readBlocked = FALSE
  /\ sent = 0
  /\ cuts = 0
  /\ srcEof = FALSE
  /\ dstFailed = FALSE
  /\ forwarding = TRUE
  /\ childExited = exited
  /\ spin = TRUE

-----------------------------------------------------------------------------
(* The container, its terminal, and whoever reads stdout.                  *)

runtime == <<taken, out, pc, rb, quota, before, readBlocked, sent, cuts,
             srcEof, dstFailed, forwarding, childExited, primed, spin>>

ContainerWrites ==
  /\ ~exited /\ ~hungUp
  /\ written < Total
  /\ Available < PtyRoom
  /\ written' = written + 1
  /\ events' = events \cup {"src"}
  /\ UNCHANGED <<exited, hungUp, reader, runtime>>

ContainerExits ==
  /\ ~exited
  /\ exited' = TRUE
  /\ events' = events \cup {"signal"}
  /\ UNCHANGED <<written, hungUp, reader, runtime>>

HangUp ==
  /\ ~hungUp
  /\ hungUp' = TRUE
  /\ events' = events \cup {"src"}
  /\ UNCHANGED <<written, exited, reader, runtime>>

(* A full stdout becomes writable.                                         *)
ReaderReads ==
  /\ drained < Len(out)
  /\ drained' = drained + 1
  /\ events' = IF Room = 0 THEN events \cup {"dst"} ELSE events
  /\ UNCHANGED <<outClosed, container, runtime>>

ReaderCloses ==
  /\ ~outClosed
  /\ outClosed' = TRUE
  /\ events' = events \cup {"dst"}
  /\ UNCHANGED <<drained, container, runtime>>

-----------------------------------------------------------------------------
(* Forwarder::drive, one system call at a time.                            *)

(* Mutant: a drive that used up its quota counts as blocked.               *)
BlockedAtQuota(buffer, q, writeBlocked) ==
  IF q > 0 /\ q # before
  THEN pc' = "pull" /\ before' = q /\ UNCHANGED spin
  ELSE pc' = "release" /\ spin' = FALSE /\ UNCHANGED before

(* The end of one round: blocked on both sides, out of quota or without    *)
(* progress it ends the drive, else there is another round.                *)
NextRound(buffer, q, writeBlocked) ==
  LET cannotRead  == readBlocked \/ Full(buffer)
      cannotWrite == writeBlocked \/ Empty(buffer)
  IN  IF ~(cannotRead /\ cannotWrite) /\ q > 0 /\ q # before
      THEN pc' = "pull" /\ before' = q /\ UNCHANGED spin
      ELSE /\ pc' = "release"
           /\ spin' = ~(cannotRead /\ cannotWrite)
           /\ UNCHANGED before

(* pull: a read that gives something.                                      *)
Pull ==
  /\ pc = "pull"
  /\ quota > 0 /\ ~Full(rb)
  /\ \E n \in 1..Least(Available, FreeSpace(rb)) :
       /\ rb' = Put(rb, [j \in 1..n |-> taken + j])
       /\ taken' = taken + n
       /\ quota' = quota - Least(quota, n)
  /\ UNCHANGED <<container, reader, loopVars, out, events, pc, before,
                 readBlocked, sent, cuts, srcEof, dstFailed, spin>>

(* pull returns: out of quota, a full buffer, EAGAIN, or EIO once the      *)
(* other side has hung up.                                                 *)
PullEnds ==
  /\ pc = "pull"
  /\ \/ /\ quota = 0 \/ Full(rb)
        /\ readBlocked' = FALSE
        /\ UNCHANGED srcEof
     \/ /\ quota > 0 /\ ~Full(rb)
        /\ Available = 0
        /\ readBlocked' = ~hungUp
        /\ srcEof' = (srcEof \/ hungUp)
  /\ pc' = "push"
  /\ UNCHANGED <<container, reader, loopVars, taken, out, events, rb, quota,
                 before, sent, cuts, dstFailed, spin>>

(* push, up to its write_span, if there is anything to write.              *)
Push ==
  /\ pc = "push"
  /\ IF quota = 0 \/ Empty(rb)
     THEN NextRound(rb, quota, FALSE) /\ UNCHANGED sent
     ELSE pc' = "write" /\ sent' = 0 /\ UNCHANGED <<before, spin>>
  /\ UNCHANGED <<container, reader, loopVars, taken, out, events, rb, quota,
                 readBlocked, cuts, srcEof, dstFailed>>

(* write_span's write takes some of the bytes; when it has taken all of    *)
(* them, push advances the tail.                                           *)
Write ==
  /\ pc = "write"
  /\ ~outClosed
  /\ \E n \in 1..Least(Room, Size(rb) - sent) :
       /\ n + sent < Size(rb) => cuts < MaxCuts
       /\ out' = out \o SubSeq(Contents(rb), sent + 1, sent + n)
       /\ sent' = sent + n
       /\ IF sent' < Size(rb)
          THEN UNCHANGED <<rb, quota, pc, before, spin>>
          ELSE /\ rb' = AdvanceTail(rb, Size(rb))
               /\ quota' = quota - Least(quota, Size(rb))
               /\ NextRound(rb', quota', FALSE)
  /\ UNCHANGED <<container, reader, loopVars, taken, events, readBlocked, cuts,
                 srcEof, dstFailed>>

(* EAGAIN: push returns and forgets how much write_span had written.       *)
WriteWouldBlock ==
  /\ pc = "write"
  /\ ~outClosed
  /\ Room = 0
  /\ cuts' = IF sent > 0 THEN cuts + 1 ELSE cuts
  /\ NextRound(rb, quota, TRUE)
  /\ UNCHANGED <<container, reader, loopVars, taken, out, events, rb, quota,
                 readBlocked, sent, srcEof, dstFailed>>

(* EPIPE: the destination has failed, the buffer is dropped.  Any other    *)
(* error throws out of the loop.                                           *)
WriteFails ==
  /\ pc = "write"
  /\ \/ /\ outClosed
        /\ dstFailed' = TRUE
        /\ rb' = Cleared(rb)
        /\ NextRound(rb', quota, TRUE)
     \/ pc' = "thrown" /\ UNCHANGED <<dstFailed, rb, before, spin>>
  /\ UNCHANGED <<container, reader, loopVars, taken, out, events, quota,
                 readBlocked, sent, cuts, srcEof>>

-----------------------------------------------------------------------------
(* wait_container_exit around it.                                          *)

(* Mutant: the end of the source does not finish the forwarder.            *)
FinishedByDstOnly == dstFailed

Finished == (srcEof /\ Empty(rb)) \/ dstFailed

(* epoll.wait: handle_signals reaps the container and marks the source;    *)
(* handle_fd_error marks what hung up.  Then drive, if there is a          *)
(* forwarder.                                                              *)
Poll ==
  /\ pc = "epoll"
  /\ spin \/ Ready # {}
  /\ events' = {}
  /\ childExited' = IF "signal" \in events THEN exited ELSE childExited
  /\ srcEof' = \/ srcEof
               \/ forwarding /\ "signal" \in events /\ exited
               \/ forwarding /\ "src" \in events /\ hungUp
  /\ dstFailed' = \/ dstFailed
                  \/ forwarding /\ "dst" \in events /\ outClosed
  /\ IF forwarding
     THEN pc' = "pull" /\ quota' = Quota /\ before' = Quota /\ UNCHANGED spin
     ELSE /\ pc' = IF childExited' THEN "returned" ELSE "epoll"
          /\ spin' = FALSE
          /\ UNCHANGED <<quota, before>>
  /\ UNCHANGED <<container, reader, taken, out, rb, readBlocked, sent, cuts,
                 forwarding, primed>>

(* A finished forwarder is reset, and the loop ends without forwarder and  *)
(* container.  Removing it from epoll drops its events.  The loop's first  *)
(* wait does not block.                                                    *)
Release ==
  /\ pc = "release"
  /\ forwarding' = ~Finished
  /\ events' = IF Finished THEN events \cap {"signal"} ELSE events
  /\ pc' = IF childExited /\ Finished THEN "returned" ELSE "epoll"
  /\ primed' = TRUE
  /\ spin' = (spin \/ ~primed)
  /\ UNCHANGED <<container, reader, childExited, taken, out, rb, quota, before,
                 readBlocked, sent, cuts, srcEof, dstFailed>>

Drive == Pull \/ PullEnds \/ Push \/ Write \/ WriteWouldBlock \/ WriteFails
Loop == Poll \/ Drive \/ Release

Terminated == pc \in {"returned", "thrown"} /\ UNCHANGED vars

Next == ContainerWrites \/ ContainerExits \/ HangUp \/ ReaderReads
        \/ ReaderCloses \/ Loop \/ Terminated

(* The runtime runs, what stdout holds is read, and the terminal of a      *)
(* container that exited is closed: nobody else keeps it.                  *)
Spec == Init /\ [][Next]_vars
FairSpec == Spec /\ WF_vars(Loop) /\ WF_vars(ReaderReads)
                 /\ WF_vars(exited /\ HangUp)

-----------------------------------------------------------------------------
(* The ring buffer holds the last bytes read, in their order, whatever the *)
(* two counters have wrapped around to.                                    *)
BufferHoldsLastRead ==
  Contents(rb) = [j \in 1..Size(rb) |-> taken - Size(rb) + j]

(* As long as nothing failed, every byte taken from the terminal is in     *)
(* stdout or still in the buffer.                                          *)
NoByteLost ==
  ~dstFailed /\ pc # "thrown" =>
    \A b \in 1..taken :
      \/ \E i \in 1..Len(out) : out[i] = b
      \/ \E j \in 1..Size(rb) : Contents(rb)[j] = b

(* Unless a full stdout cut a write short, stdout gets exactly what the    *)
(* container wrote, once and in order.                                     *)
ExactUnlessCut ==
  cuts = 0 => \A i \in 1..Len(out) : out[i] = i

(* When the loop returns without having failed, what was read is in        *)
(* stdout, and all that the container wrote was read: the loop is meant to *)
(* drain it (container_monitor.cpp:249-251). The exception is a last drive *)
(* that has used up its quota. The source counts as ended from the exit    *)
(* on, so an empty buffer then finishes the forwarder, and what is still   *)
(* in the terminal is dropped with it.                                     *)
DrainedUnlessOutOfQuota ==
  pc = "returned" /\ ~dstFailed =>
    /\ \A b \in 1..taken : \E i \in 1..Len(out) : out[i] = b
    /\ quota > 0 => taken = written

(* All four: unless stdout fails, all the output is read, or all but what  *)
(* a last drive without quota leaves behind; what is read arrives, and     *)
(* once and in order if no write was cut short.                            *)
OutputFaithful ==
  BufferHoldsLastRead /\ NoByteLost /\ ExactUnlessCut /\ DrainedUnlessOutOfQuota

(* With edge-triggered events, the loop goes to sleep only when there is   *)
(* nothing it could move: no wakeup is lost.                               *)
AsleepOnlyWhenBlocked ==
  (pc = "epoll" /\ ~spin /\ Ready = {} /\ forwarding) =>
    /\ Available = 0 \/ Full(rb)
    /\ Empty(rb) \/ Room = 0
    /\ ~outClosed
    /\ exited => childExited

(* The loop ends after the container has.                                  *)
ForwardingEnds == exited ~> (pc \in {"returned", "thrown"})

=============================================================================
