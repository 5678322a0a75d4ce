------------------------ MODULE ExecContainer_proofs ------------------------
(***************************************************************************)
(* Proofs about ExecContainer and the container_monitor it runs, for every *)
(* set of exit codes, socket capacity and number of signals.               *)
(***************************************************************************)
EXTENDS ExecContainer, SequenceTheorems, TLAPS

ParentPCs == {"fork", "pid_report", "monitor", "proceed", "flags", "console",
              "exec_ready", "close", "wait", "caught"} \cup ParentFinal

(* Past expect_proceed.                                                    *)
Proceeded == {"terminal", "setup", "exec_ready", "exec", "running"}
PCs == {"none", "join", "report", "leave", "proceed", "failing", "exit"} \cup Proceeded

MonitorPCs == {"off", "reap", "ready", "thrown", "loop", "signals", "chld", "returned"}
Fates      == {"unborn", "alive", "zombie", "reaped", "recycled"}

(* Every variable keeps its type.                                          *)
TypeOK ==
  /\ pidNs \in BOOLEAN /\ terminal \in BOOLEAN
  /\ ppc \in ParentPCs
  /\ pc \in [Procs -> PCs]
  /\ toParent \in Seq(ChildMsgs)
  /\ toChild \in Seq({"proceed"})
  /\ sawFatal \in BOOLEAN /\ inTry \in BOOLEAN
  /\ proc \in [Procs -> Fates]
  /\ parent \in [Procs -> Procs \cup {Runtime}]
  /\ code \in [Procs -> Nat]
  /\ pending \subseteq {"CHLD", "TERM"}
  /\ received \in 0..MaxSignals
  /\ mpc \in MonitorPCs
  /\ pid \in Procs \cup {Runtime}
  /\ childExited \in BOOLEAN
  /\ exitCode \in Nat

LEMMA Processes ==
  /\ Procs = {Child, Grandchild} /\ Child # Grandchild
  /\ Runtime \notin Procs
  /\ Command \in Procs
BY ProcsAssumption, RuntimeAssumption DEF Command

(* A datagram received or sent keeps a queue's type.                       *)
LEMMA QueueTypes ==
  ASSUME NEW S, NEW q \in Seq(S)
  PROVE  /\ q # <<>> => Tail(q) \in Seq(S)
         /\ \A m \in S : Append(q, m) \in Seq(S)
BY HeadTailProperties, AppendProperties

LEMMA QueuesType ==
  ASSUME TypeOK
  PROVE  /\ toParent # <<>> => Tail(toParent) \in Seq(ChildMsgs)
         /\ \A m \in ChildMsgs : Append(toParent, m) \in Seq(ChildMsgs)
         /\ toChild # <<>> => Tail(toChild) \in Seq({"proceed"})
         /\ Append(toChild, "proceed") \in Seq({"proceed"})
BY QueueTypes DEF TypeOK

(* What forking, dying, reaping and killing do to the process table.       *)
LEMMA ForkType ==
  ASSUME TypeOK, NEW p \in Procs \cup {Runtime}, NEW q \in Procs, Fork(p, q)
  PROVE  proc' \in [Procs -> Fates] /\ parent' \in [Procs -> Procs \cup {Runtime}]
BY DEF Fork, TypeOK, Fates

LEMMA DieType ==
  ASSUME TypeOK, NEW p \in Procs, NEW c \in Nat, Die(p, c)
  PROVE  /\ proc' \in [Procs -> Fates] /\ parent' \in [Procs -> Procs \cup {Runtime}]
         /\ code' \in [Procs -> Nat] /\ pending' \subseteq {"CHLD", "TERM"}
<1>1. proc' \in [Procs -> Fates] /\ code' \in [Procs -> Nat]
  BY DEF Die, TypeOK, Fates
<1>2. parent' \in [Procs -> Procs \cup {Runtime}]
  BY DEF Die, TypeOK
<1>3. pending' = pending \/ pending' = pending \cup {"CHLD"}
  BY DEF Die
<1>. QED BY <1>1, <1>2, <1>3 DEF TypeOK

LEMMA ReapType ==
  ASSUME TypeOK, NEW p \in Procs, Reap(p)
  PROVE  /\ proc' \in [Procs -> Fates]
         /\ childExited' \in BOOLEAN /\ exitCode' \in Nat
BY DEF Reap, TypeOK, Fates

LEMMA KillType ==
  ASSUME TypeOK, KillChild
  PROVE  /\ proc' \in [Procs -> Fates] /\ code' \in [Procs -> Nat]
BY DEF KillChild, TypeOK, Fates, KilledCode

(* Receiving in the runtime, whatever it waits for.                        *)
LEMMA AwaitMsgType ==
  ASSUME TypeOK, NEW at \in ParentPCs, NEW expected, NEW next \in ParentPCs,
         AwaitMsg(at, expected, next)
  PROVE  TypeOK'
<1>1. ppc' \in ParentPCs
  BY DEF AwaitMsg, Throw, ParentPCs, ParentFinal, TypeOK
<1>2. toParent' \in Seq(ChildMsgs)
  BY QueuesType DEF AwaitMsg, TypeOK
<1>. QED
  BY <1>1, <1>2 DEF AwaitMsg, TypeOK, options, monitorVars, kernel, monitor

LEMMA MonitorType == ASSUME TypeOK, RunMonitor PROVE TypeOK'
<1>. USE DEF RunMonitor, options, channel
<1>1. CASE ReapEarly
  <2>1. ASSUME NEW p \in Zombies, Reap(p), UNCHANGED mpc PROVE TypeOK'
    BY <1>1, <2>1, ReapType DEF ReapEarly, Zombies, TypeOK
  <2>2. CASE mpc' \in {"ready", "thrown"} /\ UNCHANGED <<proc, childExited, exitCode>>
    BY <1>1, <2>2 DEF ReapEarly, TypeOK, MonitorPCs
  <2>. QED BY <1>1, <2>1, <2>2 DEF ReapEarly
<1>2. CASE EpollWait
  BY <1>2 DEF EpollWait, TypeOK, MonitorPCs, kernel
<1>3. CASE ReadSignal
  BY <1>3 DEF ReadSignal, TypeOK, MonitorPCs, kernel
<1>4. CASE WaitOne
  <2>1. ASSUME NEW p \in Zombies, Reap(p) PROVE TypeOK'
    BY <1>4, <2>1, ReapType DEF WaitOne, Zombies, TypeOK, MonitorPCs
  <2>2. CASE UNCHANGED <<proc, childExited, exitCode>>
    BY <1>4, <2>2 DEF WaitOne, TypeOK, MonitorPCs
  <2>. QED BY <1>4, <2>1, <2>2 DEF WaitOne
<1>. QED BY <1>1, <1>2, <1>3, <1>4

LEMMA ParentType == ASSUME TypeOK, Parent PROVE TypeOK'
<1>. USE DEF options, channel, monitorVars, kernel, monitor
<1>0. {"fork", "pid_report", "monitor", "proceed", "flags", "console", "exec_ready",
       "close", "wait", "caught", "returned", "thrown"} \subseteq ParentPCs
  BY DEF ParentPCs, ParentFinal
<1>1. CASE ForkChild
  <2>1. ASSUME Fork(Runtime, Child), pc' = [pc EXCEPT ![Child] = "join"],
               ppc' = "pid_report"
        PROVE  TypeOK'
    BY <1>0, <1>1, <2>1, ForkType, Processes DEF ForkChild, TypeOK, PCs
  <2>2. CASE Throw /\ UNCHANGED <<proc, parent, pc>>
    BY <1>0, <1>1, <2>2 DEF ForkChild, Throw, TypeOK
  <2>. QED BY <1>1, <2>1, <2>2 DEF ForkChild
<1>2. CASE TakePidReport \/ TakeExecReady
  BY <1>0, <1>2, AwaitMsgType DEF TakePidReport, TakeExecReady
<1>3. CASE StartMonitor
  BY <1>0, <1>3, Processes DEF StartMonitor, EnableSignalForwarding, Throw, TypeOK, MonitorPCs
<1>4. CASE SendProceed
  <2>1. toChild' \in Seq({"proceed"})
    BY <1>4, QueuesType DEF SendProceed, TypeOK
  <2>2. ppc' \in ParentPCs
    BY <1>0, <1>4 DEF SendProceed, Throw
  <2>. QED BY <1>4, <2>1, <2>2 DEF SendProceed, TypeOK
<1>5. CASE EnterTry
  BY <1>0, <1>5 DEF EnterTry, Throw, TypeOK
<1>6. CASE TakeConsole
  <2>1. CASE AwaitMsg("console", "console_fd", "exec_ready")
    BY <1>0, <2>1, AwaitMsgType
  <2>2. CASE toParent # <<>> /\ toParent' = Tail(toParent) /\ Throw
             /\ UNCHANGED <<options, pc, toChild, sawFatal, inTry, monitorVars>>
    BY <1>0, <2>2, QueuesType DEF Throw, TypeOK
  <2>. QED BY <1>6, <2>1, <2>2 DEF TakeConsole
<1>7. CASE WaitForClose
  <2>1. toParent' \in Seq(ChildMsgs)
    BY <1>7, QueuesType DEF WaitForClose, TypeOK
  <2>2. ppc' \in ParentPCs /\ mpc' \in MonitorPCs /\ sawFatal' \in BOOLEAN
    BY <1>0, <1>7 DEF WaitForClose, Throw, TypeOK, MonitorPCs
  <2>. QED BY <1>7, <2>1, <2>2 DEF WaitForClose, TypeOK
<1>8. CASE WaitExit
  BY <1>0, <1>8 DEF WaitExit, Throw, TypeOK
<1>9. CASE CatchAndKill
  BY <1>0, <1>9, KillType DEF CatchAndKill, KillChild, TypeOK, MonitorPCs
<1>10. CASE RunMonitor
  BY <1>10, MonitorType
<1>. QED
  BY <1>1, <1>2, <1>3, <1>4, <1>5, <1>6, <1>7, <1>8, <1>9, <1>10 DEF Parent

LEMMA SendType ==
  ASSUME TypeOK, NEW p \in Procs, NEW msg \in ChildMsgs, NEW next \in PCs,
         Send(p, msg, next)
  PROVE  toParent' \in Seq(ChildMsgs) /\ pc' \in [Procs -> PCs]
<1>1. toParent' \in Seq(ChildMsgs)
  BY QueuesType DEF Send, TypeOK
<1>2. pc' \in [Procs -> PCs]
  BY DEF Send, GoTo, Fail, TypeOK, PCs
<1>. QED BY <1>1, <1>2

LEMMA ChildType == ASSUME TypeOK, NEW p \in Procs, ChildStep(p) PROVE TypeOK'
<1>. USE DEF parentSide, options, channel, monitor
<1>0. /\ {"pid_report", "console_fd", "exec_ready", "fatal"} = ChildMsgs
      /\ {"join", "report", "leave", "proceed", "failing", "exit", "terminal", "setup",
          "exec_ready", "exec", "running"} \subseteq PCs
  BY DEF ChildMsgs, Logs, PCs, Proceeded
<1>1. CASE JoinNamespaces(p)
  <2>1. CASE UNCHANGED <<proc, parent>> /\ \E next \in {"failing", "report"} : GoTo(p, next)
    BY <1>0, <1>1, <2>1 DEF JoinNamespaces, GoTo, TypeOK
  <2>2. CASE Fork(p, Grandchild) /\ pc' = [pc EXCEPT ![p] = "report", ![Grandchild] = "proceed"]
    <3>1. proc' \in [Procs -> Fates] /\ parent' \in [Procs -> Procs \cup {Runtime}]
      BY <2>2, ForkType, Processes
    <3>. QED BY <1>0, <1>1, <2>2, <3>1 DEF JoinNamespaces, TypeOK
  <2>. QED BY <1>1, <2>1, <2>2 DEF JoinNamespaces, Fail
<1>2. CASE ReportPid(p)
  <2>1. toParent' \in Seq(ChildMsgs) /\ pc' \in [Procs -> PCs]
    BY <1>0, <1>2, SendType DEF ReportPid
  <2>. QED BY <1>2, <2>1 DEF ReportPid, TypeOK
<1>3. CASE Leave(p) \/ ExitFailure(p)
  BY <1>3, DieType DEF Leave, ExitFailure, TypeOK
<1>4. CASE ExpectProceed(p)
  <2>1. toChild' \in Seq({"proceed"})
    BY <1>4, QueuesType DEF ExpectProceed, TypeOK
  <2>2. pc' \in [Procs -> PCs]
    BY <1>0, <1>4 DEF ExpectProceed, GoTo, Fail, TypeOK
  <2>. QED BY <1>4, <2>1, <2>2 DEF ExpectProceed, TypeOK
<1>5. CASE SetupTerminal(p)
  <2>1. toParent' \in Seq(ChildMsgs) /\ pc' \in [Procs -> PCs]
    BY <1>0, <1>5, SendType DEF SetupTerminal
  <2>. QED BY <1>5, <2>1 DEF SetupTerminal, TypeOK
<1>6. CASE SetUp(p) \/ Execvpe(p)
  BY <1>0, <1>6 DEF SetUp, Execvpe, GoTo, Fail, TypeOK
<1>7. CASE SendExecReady(p)
  <2>1. toParent' \in Seq(ChildMsgs) /\ pc' \in [Procs -> PCs]
    BY <1>0, <1>7, SendType DEF SendExecReady
  <2>. QED BY <1>7, <2>1 DEF SendExecReady, TypeOK
<1>8. CASE LogFatal(p)
  <2>1. toParent' \in Seq(ChildMsgs)
    BY <1>0, <1>8, QueuesType DEF LogFatal, TypeOK
  <2>. QED BY <1>0, <1>8, <2>1 DEF LogFatal, GoTo, TypeOK
<1>. QED BY <1>1, <1>2, <1>3, <1>4, <1>5, <1>6, <1>7, <1>8 DEF ChildStep

LEMMA OutsideType == ASSUME TypeOK, Outside PROVE TypeOK'
<1>. USE DEF parentSide, options, channel, monitor
<1>1. ASSUME NEW p \in Procs, CommandExits(p) PROVE TypeOK'
  BY <1>1, DieType, ExitCodesAssumption DEF CommandExits, TypeOK
<1>2. ASSUME NEW p \in Procs, Killed(p) PROVE TypeOK'
  BY <1>2, DieType DEF Killed, TypeOK, KilledCode
<1>3. ASSUME SignalRuntime, UNCHANGED <<options, ppc, pc, channel, sawFatal, inTry>>
      PROVE  TypeOK'
  BY <1>3, MaxSignalsAssumption DEF SignalRuntime, TypeOK
<1>4. ASSUME NEW p \in Procs, Recycle(p),
             UNCHANGED <<options, ppc, pc, channel, sawFatal, inTry>>
      PROVE  TypeOK'
  BY <1>4 DEF Recycle, TypeOK, Fates
<1>. QED BY <1>1, <1>2, <1>3, <1>4 DEF Outside

(* Every variable of the three processes keeps its type.                   *)
LEMMA TypeCorrect == Spec => []TypeOK
<1>1. ASSUME Init PROVE TypeOK
  <2>1. <<>> \in Seq(ChildMsgs) /\ <<>> \in Seq({"proceed"}) /\ 0 \in 0..MaxSignals
    BY MaxSignalsAssumption, EmptySeq
  <2>. QED
    BY <1>1, <2>1 DEF Init, MonitorInit, TypeOK, ParentPCs, PCs, Fates, MonitorPCs
<1>2. ASSUME TypeOK, [Next]_vars PROVE TypeOK'
  <2>1. CASE UNCHANGED vars
    BY <1>2, <2>1 DEF vars, options, channel, monitorVars, kernel, monitor, TypeOK
  <2>. QED BY <1>2, <2>1, ParentType, ChildType, OutsideType DEF Next
<1>. QED BY <1>1, <1>2, PTL DEF Spec

-----------------------------------------------------------------------------
(* The inductive invariant.  The runtime's place says where its monitor    *)
(* is; the places of the processes say which of them were born; only the   *)
(* monitor reaps; and "proceed" is sent by a monitored runtime only.       *)

Holds(q, m) == \E i \in 1..Len(q) : q[i] = m

MonitorInv ==
  /\ pid = IF mpc = "off" THEN Runtime ELSE Command
  /\ ppc \in {"fork", "pid_report"} => mpc = "off"
  /\ ppc = "monitor" => mpc \in {"off", "reap", "ready", "thrown"}
  /\ ppc \in {"proceed", "flags", "console", "exec_ready", "close"} => mpc = "ready"
  /\ ppc = "wait" => mpc \in {"loop", "signals", "chld", "returned"}
  /\ ppc = "caught" => mpc \notin {"off", "reap", "thrown"}
  /\ inTry => mpc # "off" /\ ppc \notin {"fork", "pid_report", "monitor", "proceed", "flags"}

BirthInv ==
  /\ pc[Child] \in {"proceed"} \cup Proceeded => ~pidNs
  /\ pc[Grandchild] \in {"none", "proceed", "failing", "exit"} \cup Proceeded
  /\ proc[Grandchild] = "alive" => pidNs
  /\ pc[Child] = "report" /\ pidNs => proc[Grandchild] # "unborn"
  /\ Holds(toParent, "pid_report") => proc[Command] # "unborn"
  /\ ppc = "monitor" \/ mpc # "off" => proc[Command] # "unborn"

ReapInv ==
  /\ mpc # "thrown" =>
       \A p \in Procs : proc[p] \in {"reaped", "recycled"} =>
                          mpc # "off" /\ (p = pid => childExited)
  /\ childExited => mpc # "off"
  /\ ExitCodeIsTheChilds

ProceedInv ==
  /\ toChild # <<>> => mpc \notin {"off", "reap"} /\ (mpc = "thrown" => proc[Command] # "alive")
  /\ MonitoredBeforeProceeding
  /\ FailureKillsCommand

ExecInv == MonitorInv /\ BirthInv /\ ReapInv /\ ProceedInv

LEMMA ReceiveHolds ==
  ASSUME TypeOK, toParent # <<>>
  PROVE  /\ \A x : Holds(Tail(toParent), x) => Holds(toParent, x)
         /\ Holds(toParent, Head(toParent))
<1>1. Head(toParent) = toParent[1] /\ 1 \in 1..Len(toParent) /\ Len(toParent) \in Nat
  BY LenProperties, EmptySeq DEF TypeOK
<1>2. ASSUME NEW x, Holds(Tail(toParent), x) PROVE Holds(toParent, x)
  <2>1. PICK i \in 1..Len(Tail(toParent)) : Tail(toParent)[i] = x
    BY <1>2 DEF Holds
  <2>2. Len(Tail(toParent)) = Len(toParent) - 1 /\ Tail(toParent)[i] = toParent[i + 1]
    BY HeadTailProperties, <2>1 DEF TypeOK
  <2>3. i + 1 \in 1..Len(toParent)
    BY <1>1, <2>1, <2>2
  <2>. QED BY <2>1, <2>2, <2>3 DEF Holds
<1>. QED BY <1>1, <1>2 DEF Holds

LEMMA SendHolds ==
  ASSUME TypeOK, NEW m \in ChildMsgs, NEW x, Holds(Append(toParent, m), x)
  PROVE  x = m \/ Holds(toParent, x)
BY AppendProperties, LenProperties DEF Holds, TypeOK

(* The runtime's conversation: the process table is left alone, a datagram *)
(* is read or not, and the monitor is not reaping.                         *)
Converses ==
  /\ UNCHANGED <<pidNs, proc, parent, code, pc, childExited, exitCode>>
  /\ \/ UNCHANGED toParent
     \/ toParent # <<>> /\ toParent' = Tail(toParent)
  /\ \/ UNCHANGED toChild
     \/ mpc = "ready" /\ mpc' = "ready"
  /\ ppc' = "monitor" => ppc = "monitor" \/ Holds(toParent, "pid_report")
  /\ \/ mpc' = mpc
     \/ ppc = "monitor" /\ mpc = "off" /\ mpc' = "reap"
     \/ ppc = "monitor" /\ mpc = "reap" /\ mpc' \in {"ready", "thrown"}
     \/ mpc \notin {"off", "reap", "thrown"} /\ mpc' \notin {"off", "reap", "thrown"}
  /\ ppc' = "thrown" => ~inTry'
  /\ MonitorInv'

ReapsOne ==
  /\ UNCHANGED <<options, ppc, pc, channel, sawFatal, inTry, parent, code, received,
                 pending, pid>>
  /\ mpc \in {"reap", "chld"}
  /\ mpc' = IF mpc = "reap" THEN "reap" ELSE "signals"
  /\ \E p \in Zombies : Reap(p)

LEMMA AwaitConverses ==
  ASSUME TypeOK, MonitorInv, NEW at, NEW expected, NEW next,
         AwaitMsg(at, expected, next),
         \/ at = "pid_report" /\ expected = "pid_report" /\ next = "monitor"
         \/ at \in {"console", "exec_ready"} /\ next \in {"exec_ready", "close"}
  PROVE  Converses
<1>1. /\ UNCHANGED <<pidNs, proc, parent, code, pc, childExited, exitCode, toChild, mpc,
                     pid, inTry>>
      /\ ppc = at /\ ppc' \in {at, next, IF inTry THEN "caught" ELSE "thrown"}
      /\ UNCHANGED toParent \/ (toParent # <<>> /\ toParent' = Tail(toParent))
      /\ ppc' = next => at = next \/ (Head(toParent) = expected /\ toParent # <<>>)
  BY DEF AwaitMsg, Throw, options, monitorVars, kernel, monitor
<1>2. MonitorInv'
  BY <1>1 DEF MonitorInv, Command
<1>3. ppc' = "monitor" => Holds(toParent, "pid_report")
  BY <1>1, ReceiveHolds
<1>. QED BY <1>1, <1>2, <1>3 DEF Converses

LEMMA ParentShape ==
  ASSUME TypeOK, MonitorInv, Parent
  PROVE  \/ ForkChild /\ Fork(Runtime, Child)
         \/ Converses
         \/ ReapsOne
         \/ CatchAndKill
<1>. USE DEF options, channel, monitorVars, kernel, monitor
<1>1. CASE ForkChild
  <2>1. CASE Throw /\ UNCHANGED <<proc, parent, pc>>
    BY <1>1, <2>1 DEF ForkChild, Throw, Converses, MonitorInv, Command
  <2>. QED BY <1>1, <2>1 DEF ForkChild
<1>2. CASE TakePidReport \/ TakeExecReady
  BY <1>2, AwaitConverses DEF TakePidReport, TakeExecReady
<1>3. CASE StartMonitor
  <2>1. UNCHANGED <<pidNs, proc, parent, code, pc, childExited, exitCode, toParent, toChild,
                    inTry>> /\ ppc = "monitor"
    BY <1>3 DEF StartMonitor, EnableSignalForwarding
  <2>2. CASE EnableSignalForwarding(Command) /\ UNCHANGED ppc
    BY <2>1, <2>2 DEF EnableSignalForwarding, Converses, MonitorInv, Command
  <2>3. CASE UNCHANGED monitorVars
    BY <1>3, <2>1, <2>3 DEF StartMonitor, Throw, Converses, MonitorInv, Command
  <2>. QED BY <1>3, <2>2, <2>3 DEF StartMonitor
<1>4. CASE SendProceed
  BY <1>4 DEF SendProceed, Throw, Converses, MonitorInv, Command
<1>5. CASE EnterTry
  BY <1>5 DEF EnterTry, Throw, Converses, MonitorInv, Command
<1>6. CASE TakeConsole
  <2>1. CASE AwaitMsg("console", "console_fd", "exec_ready")
    BY <2>1, AwaitConverses
  <2>2. CASE ppc = "console" /\ toParent # <<>> /\ toParent' = Tail(toParent) /\ Throw
             /\ UNCHANGED <<options, pc, toChild, sawFatal, inTry, monitorVars>>
    BY <2>2 DEF Throw, Converses, MonitorInv, Command
  <2>. QED BY <1>6, <2>1, <2>2 DEF TakeConsole
<1>7. CASE WaitForClose
  <2>1. /\ UNCHANGED <<pidNs, proc, parent, code, pc, childExited, exitCode, toChild, inTry, pid>>
        /\ ppc = "close" /\ mpc = "ready"
        /\ UNCHANGED toParent \/ (toParent # <<>> /\ toParent' = Tail(toParent))
    BY <1>7 DEF WaitForClose, MonitorInv
  <2>2. \/ ppc' = "wait" /\ mpc' = "loop"
        \/ ppc' \in {"close", IF inTry THEN "caught" ELSE "thrown"} /\ mpc' = mpc
    BY <1>7, <2>1 DEF WaitForClose, Throw
  <2>. QED BY <2>1, <2>2 DEF Converses, MonitorInv, Command
<1>8. CASE WaitExit
  BY <1>8 DEF WaitExit, Throw, Converses, MonitorInv, Command
<1>9. CASE RunMonitor
  <2>1. CASE ppc = "monitor" /\ ReapEarly
    BY <1>9, <2>1 DEF RunMonitor, ReapEarly, Converses, ReapsOne, MonitorInv, Command
  <2>2. CASE ppc = "wait" /\ (EpollWait \/ ReadSignal)
    BY <1>9, <2>2 DEF RunMonitor, EpollWait, ReadSignal, Converses, MonitorInv, Command
  <2>3. CASE ppc = "wait" /\ WaitOne
    BY <1>9, <2>3 DEF RunMonitor, WaitOne, Converses, ReapsOne, MonitorInv, Command
  <2>. QED BY <1>9, <2>1, <2>2, <2>3 DEF RunMonitor
<1>. QED
  BY <1>1, <1>2, <1>3, <1>4, <1>5, <1>6, <1>7, <1>8, <1>9 DEF Parent

-----------------------------------------------------------------------------
(* Each shape of a step of the runtime preserves the invariant.            *)

LEMMA ForkKeeps ==
  ASSUME TypeOK, ExecInv, ForkChild, Fork(Runtime, Child)
  PROVE  ExecInv'
<1>. USE DEF options, channel, monitor
<1>1. /\ mpc = "off" /\ mpc' = "off" /\ UNCHANGED <<pidNs, toParent, toChild, pid,
                                                   childExited, exitCode, inTry, code>>
      /\ ppc = "fork" /\ ppc' = "pid_report"
      /\ proc' = [proc EXCEPT ![Child] = "alive"] /\ proc[Child] = "unborn"
      /\ pc' = [pc EXCEPT ![Child] = "join"]
  BY Processes DEF ForkChild, Fork, Throw, ExecInv, MonitorInv, TypeOK
<1>. USE Processes DEF TypeOK
<1>2. MonitorInv'
  BY <1>1 DEF ExecInv, MonitorInv, Command
<1>3. BirthInv'
  BY <1>1 DEF ExecInv, BirthInv, Command, Holds, Proceeded
<1>4. ReapInv'
  BY <1>1 DEF ExecInv, ReapInv, ExitCodeIsTheChilds
<1>5. ProceedInv'
  BY <1>1 DEF ExecInv, ProceedInv, MonitoredBeforeProceeding, FailureKillsCommand, Proceeded
<1>. QED BY <1>2, <1>3, <1>4, <1>5 DEF ExecInv

LEMMA ConverseKeeps ==
  ASSUME TypeOK, ExecInv, Converses
  PROVE  ExecInv'
<1>1. \A x : Holds(toParent', x) => Holds(toParent, x)
  BY ReceiveHolds DEF Converses
<1>2. UNCHANGED <<pidNs, proc, code, pc, childExited, exitCode, Command>> /\ MonitorInv'
  BY DEF Converses, Command
<1>3. mpc # "off" => mpc' # "off" /\ pid' = pid
  BY <1>2 DEF Converses, ExecInv, MonitorInv
<1>4. BirthInv'
  BY <1>1, <1>2 DEF Converses, ExecInv, BirthInv
<1>5. ReapInv'
  BY <1>2, <1>3 DEF Converses, ExecInv, ReapInv, ExitCodeIsTheChilds
<1>6. MonitoredBeforeProceeding'
  BY <1>2, <1>3 DEF Converses, ExecInv, ProceedInv, MonitoredBeforeProceeding
<1>7. ProceedInv'
  <2>1. FailureKillsCommand'
    BY DEF Converses, FailureKillsCommand
  <2>2. toChild' # <<>> => /\ mpc' \notin {"off", "reap"}
                           /\ mpc' = "thrown" => proc[Command] # "alive"
    BY DEF Converses, ExecInv, ProceedInv
  <2>. QED BY <1>2, <1>6, <2>1, <2>2 DEF ProceedInv
<1>. QED BY <1>2, <1>4, <1>5, <1>7 DEF ExecInv

LEMMA ReapKeeps ==
  ASSUME TypeOK, ExecInv, ReapsOne
  PROVE  ExecInv'
<1>1. PICK p \in Zombies : Reap(p)
  BY DEF ReapsOne
<1>2. p \in Procs /\ proc[p] = "zombie" /\ proc' = [proc EXCEPT ![p] = "reaped"]
  BY <1>1 DEF Zombies, Reap
<1>3. UNCHANGED <<pidNs, ppc, pc, toParent, toChild, inTry, code, pid, Command>>
  BY DEF ReapsOne, options, channel, Command
<1>4. mpc \in {"reap", "chld"} /\ mpc' \in {mpc, "signals"} /\ (mpc' = "signals" <=> mpc = "chld")
  BY DEF ReapsOne
<1>5. MonitorInv'
  BY <1>3, <1>4 DEF ExecInv, MonitorInv
<1>6. BirthInv'
  BY <1>2, <1>3, <1>4, Processes DEF TypeOK, ExecInv, BirthInv, Holds
<1>7. ReapInv'
  <2>1. pid \in Procs
    BY <1>4, Processes DEF ExecInv, MonitorInv
  <2>2. CASE p = pid
    BY <1>1, <1>2, <1>3, <1>4, <2>1, <2>2
    DEF Reap, TypeOK, ExecInv, ReapInv, ExitCodeIsTheChilds
  <2>3. CASE p # pid
    BY <1>1, <1>2, <1>3, <1>4, <2>1, <2>3
    DEF Reap, TypeOK, ExecInv, ReapInv, ExitCodeIsTheChilds
  <2>. QED BY <2>2, <2>3
<1>8. ProceedInv'
  BY <1>2, <1>3, <1>4, Processes
  DEF TypeOK, ExecInv, ProceedInv, MonitoredBeforeProceeding, FailureKillsCommand
<1>. QED BY <1>5, <1>6, <1>7, <1>8 DEF ExecInv

LEMMA KillKeeps ==
  ASSUME TypeOK, ExecInv, CatchAndKill
  PROVE  ExecInv'
<1>1. /\ UNCHANGED <<pidNs, pc, toParent, toChild, inTry, pid, childExited, exitCode, Command>>
      /\ ppc = "caught" /\ ppc' = "thrown" /\ mpc' = "thrown"
  BY DEF CatchAndKill, KillChild, options, channel, Command
<1>2. mpc \notin {"off", "reap", "thrown"} /\ pid = Command /\ Command \in Procs
  BY <1>1, Processes DEF ExecInv, MonitorInv
<1>3. /\ proc'[Command] \notin {"alive", "unborn"}
      /\ \A q \in Procs : q # Command => proc'[q] = proc[q]
      /\ proc[Command] \in {"reaped", "recycled"} => UNCHANGED <<proc, code>>
  BY <1>2 DEF CatchAndKill, KillChild, TypeOK, Fates, ExecInv, BirthInv
<1>4. MonitorInv'
  BY <1>1, <1>2 DEF ExecInv, MonitorInv
<1>5. BirthInv'
  BY <1>1, <1>2, <1>3, Processes DEF ExecInv, BirthInv, Holds, Command
<1>6. ReapInv'
  BY <1>1, <1>2, <1>3 DEF ExecInv, ReapInv, ExitCodeIsTheChilds
<1>7. ProceedInv'
  BY <1>1, <1>2, <1>3 DEF ExecInv, ProceedInv, MonitoredBeforeProceeding, FailureKillsCommand
<1>. QED BY <1>4, <1>5, <1>6, <1>7 DEF ExecInv

-----------------------------------------------------------------------------
(* Each shape of a step of a child preserves the invariant.                *)

(* p, alive, goes to next, having received or sent a datagram or not.      *)
Goes(p, next) ==
  /\ proc[p] = "alive"
  /\ pc' = [pc EXCEPT ![p] = next]
  /\ UNCHANGED <<pidNs, ppc, inTry, proc, code, mpc, pid, childExited, exitCode>>
  /\ toChild' # <<>> => toChild # <<>>
  /\ Holds(toParent', "pid_report") => Holds(toParent, "pid_report") \/ pc[p] = "report"
  /\ \/ next \in {"failing", "exit"}
     \/ next = "report" /\ pc[p] = "join" /\ ~pidNs
     \/ next = "leave" /\ pc[p] = "report"
     \/ next = "proceed" /\ pc[p] = "report" /\ ~pidNs
     \/ next \in Proceeded /\ pc[p] \in Proceeded
     \/ next \in Proceeded /\ pc[p] = "proceed" /\ toChild # <<>>

Dies(p) ==
  /\ \E c \in Nat : Die(p, c)
  /\ UNCHANGED <<pidNs, ppc, inTry, pc, toParent, toChild, mpc, pid, childExited, exitCode>>

LEMMA SendGoes ==
  ASSUME TypeOK, NEW p \in Procs, NEW msg \in ChildMsgs, NEW next, Send(p, msg, next)
  PROVE  /\ pc' = [pc EXCEPT ![p] = next] \/ pc' = [pc EXCEPT ![p] = "failing"]
         /\ Holds(toParent', "pid_report") =>
              Holds(toParent, "pid_report") \/ msg = "pid_report"
BY SendHolds DEF Send, GoTo, Fail

LEMMA ChildShape ==
  ASSUME TypeOK, NEW p \in Procs, ChildStep(p)
  PROVE  \/ \E next \in PCs : Goes(p, next)
         \/ Dies(p)
         \/ JoinNamespaces(p) /\ pidNs /\ Fork(p, Grandchild)
<1>. USE DEF parentSide, options, channel, monitor
<1>0. /\ {"pid_report", "console_fd", "exec_ready", "fatal"} = ChildMsgs
      /\ {"join", "report", "leave", "proceed", "failing", "exit", "terminal", "setup",
          "exec_ready", "exec", "running"} \subseteq PCs
      /\ {"terminal", "setup", "exec_ready", "exec", "running"} = Proceeded
  BY DEF ChildMsgs, Logs, PCs, Proceeded
<1>1. CASE JoinNamespaces(p)
  <2>1. CASE UNCHANGED <<proc, parent>> /\ (Fail(p) \/ (~pidNs /\ GoTo(p, "report")))
    BY <1>0, <1>1, <2>1 DEF JoinNamespaces, At, GoTo, Fail, Goes
  <2>. QED BY <1>1, <2>1 DEF JoinNamespaces
<1>2. CASE ReportPid(p)
  BY <1>0, <1>2, SendGoes DEF ReportPid, At, Goes
<1>3. CASE Leave(p) \/ ExitFailure(p)
  BY <1>3 DEF Leave, ExitFailure, Dies
<1>4. CASE ExpectProceed(p)
  BY <1>0, <1>4 DEF ExpectProceed, At, GoTo, Fail, Goes
<1>5. CASE SetupTerminal(p)
  BY <1>0, <1>5, SendGoes DEF SetupTerminal, At, Goes
<1>6. CASE SetUp(p) \/ Execvpe(p)
  BY <1>0, <1>6 DEF SetUp, Execvpe, At, GoTo, Fail, Goes
<1>7. CASE SendExecReady(p)
  BY <1>0, <1>7, SendGoes DEF SendExecReady, At, Goes
<1>8. CASE LogFatal(p)
  <2>1. Holds(toParent', "pid_report") => Holds(toParent, "pid_report")
    BY <1>0, <1>8, SendHolds DEF LogFatal
  <2>. QED BY <1>0, <1>8, <2>1 DEF LogFatal, At, GoTo, Goes
<1>. QED BY <1>1, <1>2, <1>3, <1>4, <1>5, <1>6, <1>7, <1>8 DEF ChildStep

LEMMA GoesKeeps ==
  ASSUME TypeOK, ExecInv, NEW p \in Procs, NEW next \in PCs, Goes(p, next)
  PROVE  ExecInv'
<1>. USE DEF Goes
<1>1. UNCHANGED Command /\ p \in {Child, Grandchild} /\ Child # Grandchild
  BY Processes DEF Command
<1>2. MonitorInv'
  BY <1>1 DEF ExecInv, MonitorInv
<1>3. ReapInv'
  BY <1>1 DEF ExecInv, ReapInv, ExitCodeIsTheChilds
<1>4. /\ p = Grandchild => pc[p] \notin {"join", "report", "leave"} /\ pidNs
      /\ p = Child /\ pc[p] \in {"proceed"} \cup Proceeded => ~pidNs
  BY DEF ExecInv, BirthInv, Proceeded
<1>5. BirthInv'
  <2>1. /\ pc'[Child] \in {"proceed"} \cup Proceeded => ~pidNs
        /\ pc'[Grandchild] \in {"none", "proceed", "failing", "exit"} \cup Proceeded
        /\ pc'[Child] = "report" => ~pidNs \/ pc[Child] = "report"
    BY <1>1, <1>4, Processes DEF TypeOK, ExecInv, BirthInv, Proceeded
  <2>2. Holds(toParent', "pid_report") => proc[Command] # "unborn"
    BY <1>1, <1>4 DEF ExecInv, BirthInv, Command
  <2>. QED BY <1>1, <2>1, <2>2 DEF ExecInv, BirthInv
<1>6. MonitoredBeforeProceeding'
  <2>1. pc'[p] \in Proceeded =>
          pc[p] \in Proceeded \/ (pc[p] = "proceed" /\ toChild # <<>>)
    BY DEF TypeOK, Proceeded
  <2>2. pc[p] = "proceed" => p = Command
    BY <1>1, <1>4 DEF Command
  <2>3. pc'[p] \in Proceeded => p = pid /\ mpc \notin {"off", "reap", "thrown"}
    BY <2>1, <2>2
    DEF ExecInv, MonitorInv, ProceedInv, MonitoredBeforeProceeding, Proceeded
  <2>. QED
    BY <2>3 DEF TypeOK, ExecInv, ProceedInv, MonitoredBeforeProceeding, Proceeded
<1>7. ProceedInv'
  BY <1>1, <1>6 DEF ExecInv, ProceedInv, FailureKillsCommand
<1>. QED BY <1>2, <1>3, <1>5, <1>7 DEF ExecInv

LEMMA DiesKeeps ==
  ASSUME TypeOK, ExecInv, NEW p \in Procs, Dies(p)
  PROVE  ExecInv'
<1>1. PICK c \in Nat : Die(p, c)
  BY DEF Dies
<1>2. /\ proc[p] = "alive" /\ proc' = [proc EXCEPT ![p] = "zombie"]
      /\ code' = [code EXCEPT ![p] = c]
  BY <1>1 DEF Die
<1>3. /\ UNCHANGED <<pidNs, ppc, inTry, pc, toParent, toChild, mpc, pid, childExited,
                     exitCode, Command>>
  BY DEF Dies, Command
<1>4. MonitorInv'
  BY <1>3 DEF ExecInv, MonitorInv
<1>5. BirthInv'
  BY <1>2, <1>3, Processes DEF TypeOK, ExecInv, BirthInv, Holds
<1>6. ReapInv'
  BY <1>2, <1>3 DEF TypeOK, ExecInv, ReapInv, ExitCodeIsTheChilds
<1>7. ProceedInv'
  BY <1>2, <1>3, Processes
  DEF TypeOK, ExecInv, ProceedInv, MonitoredBeforeProceeding, FailureKillsCommand
<1>. QED BY <1>4, <1>5, <1>6, <1>7 DEF ExecInv

LEMMA JoinKeeps ==
  ASSUME TypeOK, ExecInv, NEW p \in Procs,
         JoinNamespaces(p), pidNs, Fork(p, Grandchild)
  PROVE  ExecInv'
<1>1. /\ proc[p] = "alive" /\ pc[p] = "join"
      /\ proc' = [proc EXCEPT ![Grandchild] = "alive"] /\ proc[Grandchild] = "unborn"
      /\ UNCHANGED <<pidNs, ppc, inTry, toParent, toChild, mpc, pid, childExited,
                     exitCode, code, Command>>
  BY DEF JoinNamespaces, At, Fork, parentSide, options, channel, monitor, Command
<1>2. p = Child /\ Child # Grandchild /\ Grandchild \in Procs /\ Command = Grandchild
  BY <1>1, Processes DEF ExecInv, BirthInv, Proceeded, Command
<1>3. pc' = [pc EXCEPT ![Child] = "report", ![Grandchild] = "proceed"]
  BY <1>1, <1>2 DEF JoinNamespaces, TypeOK
<1>4. mpc = "off" /\ ~inTry
  BY <1>1, <1>2 DEF ExecInv, BirthInv, MonitorInv
<1>5. MonitorInv'
  BY <1>1 DEF ExecInv, MonitorInv
<1>6. BirthInv'
  BY <1>1, <1>2, <1>3, Processes DEF TypeOK, ExecInv, BirthInv, Holds, Proceeded
<1>7. ReapInv'
  BY <1>1, <1>2 DEF TypeOK, ExecInv, ReapInv, BirthInv, ExitCodeIsTheChilds
<1>8. ProceedInv'
  BY <1>1, <1>2, <1>3, <1>4, Processes
  DEF TypeOK, ExecInv, ProceedInv, BirthInv, MonitoredBeforeProceeding, FailureKillsCommand
<1>. QED BY <1>5, <1>6, <1>7, <1>8 DEF ExecInv

LEMMA OutsideKeeps ==
  ASSUME TypeOK, ExecInv, Outside
  PROVE  ExecInv'
<1>. USE DEF parentSide, options, channel, monitor
<1>1. ASSUME NEW p \in Procs, CommandExits(p) \/ Killed(p) PROVE ExecInv'
  <2>1. ExitCodes \subseteq Nat /\ KilledCode \in Nat
    BY ExitCodesAssumption DEF KilledCode
  <2>2. Dies(p)
    BY <1>1, <2>1 DEF CommandExits, Killed, Dies
  <2>. QED BY <2>2, DiesKeeps
<1>2. ASSUME SignalRuntime, UNCHANGED <<options, ppc, pc, channel, sawFatal, inTry>>
      PROVE  ExecInv'
  BY <1>2
  DEF SignalRuntime, ExecInv, MonitorInv, BirthInv, ReapInv, ProceedInv, Command, Holds,
      ExitCodeIsTheChilds, MonitoredBeforeProceeding, FailureKillsCommand
<1>3. ASSUME NEW p \in Procs, Recycle(p),
             UNCHANGED <<options, ppc, pc, channel, sawFatal, inTry>>
      PROVE  ExecInv'
  <2>1. /\ proc[p] = "reaped" /\ proc' = [proc EXCEPT ![p] = "recycled"]
        /\ UNCHANGED <<pidNs, ppc, inTry, pc, toParent, toChild, code, mpc, pid,
                       childExited, exitCode, Command>>
    BY <1>3 DEF Recycle, Command
  <2>2. MonitorInv'
    BY <2>1 DEF ExecInv, MonitorInv
  <2>3. BirthInv'
    BY <2>1, Processes DEF TypeOK, ExecInv, BirthInv, Holds
  <2>4. ReapInv'
    BY <2>1 DEF TypeOK, ExecInv, ReapInv, ExitCodeIsTheChilds
  <2>5. ProceedInv'
    BY <2>1, Processes
    DEF TypeOK, ExecInv, ProceedInv, MonitoredBeforeProceeding, FailureKillsCommand
  <2>. QED BY <2>2, <2>3, <2>4, <2>5 DEF ExecInv
<1>. QED BY <1>1, <1>2, <1>3 DEF Outside

LEMMA ExecInvariant == Spec => [](TypeOK /\ ExecInv)
<1>1. ASSUME Init PROVE ExecInv
  BY <1>1, Processes, EmptySeq
  DEF Init, MonitorInit, ExecInv, MonitorInv, BirthInv, ReapInv, ProceedInv, Holds, Proceeded,
      ExitCodeIsTheChilds, MonitoredBeforeProceeding, FailureKillsCommand
<1>2. ASSUME TypeOK, ExecInv, [Next]_vars PROVE ExecInv'
  <2>1. CASE UNCHANGED vars
    BY <1>2, <2>1
    DEF vars, options, channel, monitorVars, kernel, monitor, ExecInv, MonitorInv, BirthInv,
        ReapInv, ProceedInv, Command, Holds, ExitCodeIsTheChilds,
        MonitoredBeforeProceeding, FailureKillsCommand
  <2>2. CASE Parent
    <3>1. MonitorInv
      BY <1>2 DEF ExecInv
    <3>. QED
      BY <1>2, <2>2, <3>1, ParentShape, ForkKeeps, ConverseKeeps, ReapKeeps, KillKeeps
  <2>3. ASSUME NEW p \in Procs, ChildStep(p) PROVE ExecInv'
    BY <1>2, <2>3, ChildShape, GoesKeeps, DiesKeeps, JoinKeeps
  <2>. QED BY <1>2, <2>1, <2>2, <2>3, OutsideKeeps DEF Next
<1>. QED BY <1>1, <1>2, TypeCorrect, PTL DEF Spec

-----------------------------------------------------------------------------
(* What follows for the command that exec runs.                            *)

(* A signal the runtime forwards goes to a pid it has not released: while  *)
(* child_exited is unset, the monitored process has not been waited for.   *)
THEOREM ForwardsToOwnChild == Spec => []UnreapedWhileForwarding
<1>1. ASSUME TypeOK, ExecInv PROVE UnreapedWhileForwarding
  <2>1. ASSUME mpc \in {"ready", "loop", "signals", "chld"}, ~childExited
        PROVE  proc[pid] \in {"alive", "zombie"}
    <3>1. pid = Command /\ pid \in Procs /\ proc[pid] # "unborn"
      BY <1>1, <2>1, Processes DEF ExecInv, MonitorInv, BirthInv
    <3>2. proc[pid] \notin {"reaped", "recycled"}
      BY <1>1, <2>1, <3>1 DEF ExecInv, ReapInv
    <3>. QED BY <1>1, <3>1, <3>2 DEF TypeOK, Fates
  <2>. QED BY <2>1 DEF UnreapedWhileForwarding
<1>. QED BY <1>1, ExecInvariant, PTL

(* The exit code exec returns is that of the process it monitors, never    *)
(* that of another process it reaped on the way.                           *)
THEOREM ExitCodeOwn == Spec => []ExitCodeIsTheChilds
<1>1. ExecInv => ExitCodeIsTheChilds
  BY DEF ExecInv, ReapInv
<1>. QED BY <1>1, ExecInvariant, PTL

(* No process goes past expect_proceed before the runtime monitors it with *)
(* its signals blocked.                                                    *)
THEOREM MonitoredFirst == Spec => []MonitoredBeforeProceeding
<1>1. ExecInv => MonitoredBeforeProceeding
  BY DEF ExecInv, ProceedInv
<1>. QED BY <1>1, ExecInvariant, PTL

(* An exec that throws after its try block was entered leaves no command   *)
(* running.                                                                *)
THEOREM FailedExecKills == Spec => []FailureKillsCommand
<1>1. ExecInv => FailureKillsCommand
  BY DEF ExecInv, ProceedInv
<1>. QED BY <1>1, ExecInvariant, PTL
=============================================================================
