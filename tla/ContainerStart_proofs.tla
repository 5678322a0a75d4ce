----------------------- MODULE ContainerStart_proofs -----------------------
(***************************************************************************)
(* Proofs about ContainerStart, for every configuration, socket capacity   *)
(* and set of exit codes.                                                  *)
(***************************************************************************)
EXTENDS ContainerStart, SequenceTheorems, TLAPS

(* Sending a datagram keeps the queue's type and makes it one longer.      *)
LEMMA SendTypes ==
  ASSUME NEW S, NEW q \in Seq(S), NEW m \in S
  PROVE  /\ Append(q, m) \in Seq(S)
         /\ Len(Append(q, m)) = Len(q) + 1
         /\ Len(q) \in Nat
BY AppendProperties, LenProperties

(* Receiving one keeps the type and does not make it longer.               *)
LEMMA ReceiveTypes ==
  ASSUME NEW S, NEW q \in Seq(S), q # <<>>
  PROVE  /\ Head(q) \in S
         /\ Tail(q) \in Seq(S)
         /\ Len(Tail(q)) = Len(q) - 1
         /\ Len(q) \in Nat
BY HeadTailProperties, LenProperties

(* wait_for_stage, whatever it waits for, keeps the types.                 *)
LEMMA AwaitMsgType ==
  ASSUME TypeOK, NEW at \in ParentPCs, NEW expected, NEW next \in ParentPCs,
         AwaitMsg(at, expected, next)
  PROVE  TypeOK'
<1>1. ppc' \in ParentPCs
  BY DEF AwaitMsg, ParentPCs, TypeOK
<1>2. toParent' \in Seq(ChildMsgs) /\ Len(toParent') <= Capacity
  <2>1. CASE toParent' = toParent
    BY <2>1 DEF TypeOK
  <2>2. CASE toParent # <<>> /\ toParent' = Tail(toParent)
    <3>1. Tail(toParent) \in Seq(ChildMsgs) /\ Len(Tail(toParent)) = Len(toParent) - 1
          /\ Len(toParent) \in Nat
      BY <2>2, ReceiveTypes DEF TypeOK
    <3>. QED BY <2>2, <3>1, CapacityAssumption DEF TypeOK
  <2>. QED BY <2>1, <2>2 DEF AwaitMsg
<1>. QED BY <1>1, <1>2 DEF AwaitMsg, TypeOK, configVars, childVars

(* A membership test assigned to a flag is Boolean.                        *)
LEMMA MembershipIsBoolean == ASSUME NEW e, NEW S PROVE (e \in S) \in BOOLEAN
<1>1. CASE e \in S BY <1>1
<1>2. CASE e \notin S BY <1>2
<1>. QED BY <1>1, <1>2

(* send_stage to the child, whether it succeeds or throws.                 *)
LEMMA SendToChildType ==
  ASSUME TypeOK, NEW msg \in ParentMsgs, NEW next \in ParentPCs,
         SendToChild(msg, next)
  PROVE  /\ toChild' \in Seq(ParentMsgs)
         /\ Len(toChild') <= Capacity
         /\ ppc' \in ParentPCs
<1>1. ppc' \in ParentPCs
  BY DEF SendToChild, ParentPCs
<1>2. CASE toChild' = toChild
  BY <1>1, <1>2 DEF TypeOK
<1>3. CASE Len(toChild) < Capacity /\ toChild' = Append(toChild, msg)
  BY <1>1, <1>3, SendTypes, CapacityAssumption DEF TypeOK
<1>. QED BY <1>2, <1>3, <1>1 DEF SendToChild

(* The other building blocks of the two programs keep the types.           *)
LEMMA ParentBlocksType ==
  ASSUME TypeOK, NEW at, NEW next \in ParentPCs, NEW k \in HookKinds,
         NEW msg \in ParentMsgs,
         \/ SkipStage(at, k, next)
         \/ RunParentHook(at, k)
         \/ ReportStage(at, k, msg, next)
  PROVE  TypeOK'
<1>. USE DEF configVars, childVars
<1>1. CASE SkipStage(at, k, next)
  BY <1>1 DEF SkipStage, TypeOK
<1>2. CASE RunParentHook(at, k)
  <2>1. ran' \in [HookKinds -> Nat]
    BY <1>2 DEF RunParentHook, TypeOK
  <2>2. ppc' \in ParentPCs
    BY <1>2 DEF RunParentHook, TypeOK, ParentPCs
  <2>. QED BY <1>2, <2>1, <2>2 DEF RunParentHook, TypeOK
<1>3. CASE ReportStage(at, k, msg, next)
  <2>1. ppc' \in ParentPCs /\ toChild' \in Seq(ParentMsgs) /\ Len(toChild') <= Capacity
    BY <1>3, SendToChildType DEF ReportStage
  <2>. QED BY <1>3, <2>1 DEF ReportStage, TypeOK
<1>. QED BY <1>1, <1>2, <1>3

LEMMA ChildBlocksType ==
  ASSUME TypeOK, NEW at, NEW next \in ChildPCs, NEW k \in HookKinds,
         NEW msg \in ChildMsgs, NEW expected,
         \/ Announce(at, msg, next)
         \/ ExpectStage(at, expected, next)
         \/ SetUp(at, next)
         \/ ChildSkips(at, k, next)
         \/ RunChildHook(at, k)
  PROVE  TypeOK'
<1>. USE DEF configVars, parentVars
<1>1. CASE Announce(at, msg, next)
  <2>1. toParent' \in Seq(ChildMsgs) /\ Len(toParent') <= Capacity
    BY <1>1, SendTypes, CapacityAssumption DEF Announce, SendToParent, TypeOK
  <2>. QED BY <1>1, <2>1 DEF Announce, TypeOK
<1>2. CASE ExpectStage(at, expected, next)
  <2>1. toChild' \in Seq(ParentMsgs) /\ Len(toChild') <= Capacity
    BY <1>2, ReceiveTypes, CapacityAssumption DEF ExpectStage, TypeOK
  <2>2. cpc' \in ChildPCs
    BY <1>2 DEF ExpectStage, ChildPCs, ChildAlive
  <2>. QED BY <1>2, <2>1, <2>2 DEF ExpectStage, TypeOK
<1>3. CASE SetUp(at, next) \/ ChildSkips(at, k, next)
  BY <1>3 DEF SetUp, ChildSkips, TypeOK, ChildPCs, ChildAlive
<1>4. CASE RunChildHook(at, k)
  <2>1. ran' \in [HookKinds -> Nat]
    BY <1>4 DEF RunChildHook, TypeOK
  <2>. QED BY <1>4, <2>1 DEF RunChildHook, TypeOK, ChildPCs, ChildAlive
<1>. QED BY <1>1, <1>2, <1>3, <1>4

LEMMA DeathType ==
  ASSUME TypeOK, NEW from, NEW to \in ChildDead,
         NEW c \in ExitCodes \cup {ExitFailure, KilledCode},
         ChildDies(from, to, c)
  PROVE  TypeOK'
BY DEF ChildDies, TypeOK, ChildPCs, configVars, parentVars

LEMMA ParentType == ASSUME TypeOK, Parent PROVE TypeOK'
<1>. USE DEF configVars, childVars
<1>1. /\ {"clone", "thrown", "write_status", "caught", "namespace", "configure",
           "prestart", "run_prestart", "createruntime", "run_createruntime",
           "createcontainer", "console", "exec_ready", "close", "poststart",
           "signals", "wait_exit", "poststop", "remove", "returned", "killed"}
           \subseteq ParentPCs
      /\ {"prestart_done", "createruntime_done", "namespace_done"} \subseteq ParentMsgs
  BY DEF ParentPCs, ParentFinal, ParentMsgs
<1>2. CASE SetSubreaper
  BY <1>1, <1>2 DEF SetSubreaper, TypeOK
<1>3. CASE StartContainerProcess
  BY <1>1, <1>3 DEF StartContainerProcess, TypeOK, ChildPCs, ChildAlive, ChildSetup
<1>4. CASE WriteStatus
  BY <1>1, <1>4 DEF WriteStatus, TypeOK
<1>5. CASE ConfigureNamespaces
  <2>1. CASE AwaitMsg("namespace", "namespace_ready", "configure")
    BY <1>1, <2>1, AwaitMsgType
  <2>2. CASE ~AwaitMsg("namespace", "namespace_ready", "configure")
    <3>1. CASE configured' = TRUE /\ SendToChild("namespace_done", "prestart")
      <4>1. ppc' \in ParentPCs /\ toChild' \in Seq(ParentMsgs) /\ Len(toChild') <= Capacity
        BY <1>1, <3>1, SendToChildType
      <4>. QED BY <1>5, <2>2, <3>1, <4>1 DEF ConfigureNamespaces, TypeOK
    <3>2. CASE ppc' = "caught" /\ UNCHANGED <<toChild, configured>>
      BY <1>1, <1>5, <2>2, <3>2 DEF ConfigureNamespaces, TypeOK
    <3>. QED BY <1>5, <2>2, <3>1, <3>2 DEF ConfigureNamespaces
  <2>. QED BY <2>1, <2>2
<1>6. CASE PrestartHooks
  BY <1>1, <1>6, AwaitMsgType, ParentBlocksType DEF PrestartHooks, HookKinds
<1>7. CASE CreateRuntimeHooks
  BY <1>1, <1>7, AwaitMsgType, ParentBlocksType DEF CreateRuntimeHooks, HookKinds
<1>8. CASE WaitCreateContainerResult
  BY <1>1, <1>8, AwaitMsgType, ParentBlocksType DEF WaitCreateContainerResult, HookKinds
<1>9. CASE TakeConsole
  <2>1. CASE ~terminal
    BY <1>1, <1>9, <2>1 DEF TakeConsole, TypeOK
  <2>2. CASE terminal
    BY <1>1, <1>9, <2>2, AwaitMsgType DEF TakeConsole
  <2>. QED BY <2>1, <2>2
<1>10. CASE WaitContainerStarted
  <2>1. CASE AwaitMsg("exec_ready", "exec_ready", "close")
    BY <1>1, <2>1, AwaitMsgType
  <2>2. CASE WaitForClose
    <3>1. CASE ParentEof
      BY <1>1, <2>2, <3>1 DEF WaitForClose, TypeOK
    <3>2. CASE ~ParentEof
      <4>1. toParent' \in Seq(ChildMsgs) /\ Len(toParent') <= Capacity
        <5>1. toParent # <<>> /\ toParent' = Tail(toParent)
          BY <2>2, <3>2 DEF WaitForClose
        <5>2. Tail(toParent) \in Seq(ChildMsgs) /\ Len(Tail(toParent)) = Len(toParent) - 1
              /\ Len(toParent) \in Nat
          BY <5>1, ReceiveTypes DEF TypeOK
        <5>. QED BY <5>1, <5>2, CapacityAssumption DEF TypeOK
      <4>2. sawFatal' \in BOOLEAN
        BY <2>2, <3>2 DEF WaitForClose, TypeOK
      <4>3. /\ ppc' \in ParentPCs
            /\ UNCHANGED <<configVars, childVars, toChild, configured, status, ran,
                           reaped, sigchld, result>>
        BY <1>1, <2>2, <3>2 DEF WaitForClose
      <4>. QED BY <4>1, <4>2, <4>3 DEF TypeOK
    <3>. QED BY <3>1, <3>2
  <2>. QED BY <1>10, <2>1, <2>2 DEF WaitContainerStarted
<1>11. CASE PoststartHooks
  <2>1. CASE RunParentHook("poststart", "poststart")
    BY <1>1, <2>1, ParentBlocksType DEF HookKinds
  <2>. QED BY <1>1, <1>11, <2>1 DEF PoststartHooks, TypeOK
<1>12. CASE EnableSignalForwarding
  <2>1. reaped' \in BOOLEAN
    <3>1. CASE reaped' = (cpc \in ChildDead)
      BY <3>1, MembershipIsBoolean
    <3>. QED BY <1>12, <3>1 DEF EnableSignalForwarding, TypeOK
  <2>. QED BY <1>1, <1>12, <2>1 DEF EnableSignalForwarding, TypeOK
<1>13. CASE WaitContainerExit
  <2>1. reaped' \in BOOLEAN
    <3>1. CASE reaped' = (cpc \in ChildDead)
      BY <3>1, MembershipIsBoolean
    <3>. QED BY <1>13, <3>1 DEF WaitContainerExit, TypeOK
  <2>. QED BY <1>1, <1>13, <2>1 DEF WaitContainerExit, TypeOK
<1>14. CASE PoststopHooks
  <2>1. ran' \in [HookKinds -> Nat]
    BY <1>14 DEF PoststopHooks, TypeOK, HookKinds
  <2>. QED BY <1>1, <1>14, <2>1 DEF PoststopHooks, TypeOK
<1>15. CASE KillChild
  <2>1. cpc' \in ChildPCs /\ code' \in ExitCodes \cup {0, ExitFailure, KilledCode}
    BY <1>15 DEF KillChild, TypeOK, ChildPCs, ChildDead
  <2>2. reaped' \in BOOLEAN /\ sigchld' \in BOOLEAN
    BY <1>15, Zenon DEF KillChild, TypeOK
  <2>. QED BY <1>1, <1>15, <2>1, <2>2 DEF KillChild, TypeOK
<1>16. CASE RemoveStatus
  BY <1>1, <1>16 DEF RemoveStatus, TypeOK, ParentPCs, ParentFinal
<1>. QED
  BY <1>2, <1>3, <1>4, <1>5, <1>6, <1>7, <1>8, <1>9, <1>10, <1>11, <1>12,
     <1>13, <1>14, <1>15, <1>16 DEF Parent

LEMMA ChildType == ASSUME TypeOK, Child PROVE TypeOK'
<1>1. /\ ChildSetup \cup {"failing", "exiting", "running"} \subseteq ChildPCs
      /\ ChildMsgs = {"namespace_ready", "prestart_ready", "createruntime_ready",
                      "createcontainer_done", "console_fd", "exec_ready", "log", "fatal"}
  BY DEF ChildPCs, ChildAlive, ChildMsgs, Logs
<1>2. CASE InitializeContainer \/ ConfigureMounts
  BY <1>1, <1>2, ChildBlocksType
  DEF InitializeContainer, ConfigureMounts, ChildSetup, HookKinds
<1>3. CASE WaitPrestartHooksResult \/ WaitCreateRuntimeResult
  BY <1>1, <1>3, ChildBlocksType
  DEF WaitPrestartHooksResult, WaitCreateRuntimeResult, ChildSetup, HookKinds
<1>4. CASE ReadStatus
  BY <1>1, <1>4 DEF ReadStatus, TypeOK, ChildSetup, configVars, parentVars
<1>5. CASE CreateContainerHooks \/ PivotRoot
  BY <1>1, <1>5, ChildBlocksType
  DEF CreateContainerHooks, PivotRoot, ChildSetup, HookKinds
<1>6. CASE ConfigureTerminal \/ ApplyPrivileges
  BY <1>1, <1>6, ChildBlocksType
  DEF ConfigureTerminal, ApplyPrivileges, ChildSetup, HookKinds
<1>7. CASE StartContainerHooks \/ ExecuteProcess \/ LogFatal
  BY <1>1, <1>7, ChildBlocksType
  DEF StartContainerHooks, ExecuteProcess, LogFatal, ChildSetup, HookKinds
<1>8. CASE SendExecReady
  <2>1. toParent' \in Seq(ChildMsgs) /\ Len(toParent') <= Capacity
    BY <1>1, <1>8, SendTypes, CapacityAssumption DEF SendExecReady, SendToParent, TypeOK
  <2>. QED BY <1>1, <1>8, <2>1 DEF SendExecReady, TypeOK, ChildSetup, configVars, parentVars
<1>9. CASE ExitFailed
  BY <1>9, DeathType DEF ExitFailed, ChildDead
<1>. QED
  BY <1>2, <1>3, <1>4, <1>5, <1>6, <1>7, <1>8, <1>9 DEF Child

(* Every variable keeps its type, in both processes and whatever dies.     *)
THEOREM TypeCorrect == Spec => []TypeOK
<1>1. ASSUME Init PROVE TypeOK
  <2>1. toParent \in Seq(ChildMsgs) /\ Len(toParent) <= Capacity
        /\ toChild \in Seq(ParentMsgs) /\ Len(toChild) <= Capacity
    BY <1>1, EmptySeq, CapacityAssumption DEF Init
  <2>2. ran \in [HookKinds -> Nat] /\ logs \in 0..MaxLogs
    BY <1>1, MaxLogsAssumption DEF Init
  <2>. QED BY <1>1, <2>1, <2>2 DEF Init, TypeOK, ParentPCs, ChildPCs
<1>2. ASSUME TypeOK, [Next]_vars PROVE TypeOK'
  <2>1. CASE Parent
    BY <1>2, <2>1, ParentType
  <2>2. CASE Child
    BY <1>2, <2>2, ChildType
  <2>3. CASE ForwardingThrows
    BY <1>2, <2>3 DEF ForwardingThrows, TypeOK, ParentPCs, configVars, childVars
  <2>4. CASE ContainerExits \/ ChildKilled
    BY <1>2, <2>4, DeathType DEF ContainerExits, ChildKilled, ChildDead
  <2>5. CASE ForwardLog
    <3>1. toParent' \in Seq(ChildMsgs) /\ Len(toParent') <= Capacity
      BY <1>2, <2>5, SendTypes, CapacityAssumption
      DEF ForwardLog, SendToParent, TypeOK, ChildMsgs, Logs
    <3>. QED BY <1>2, <2>5, <3>1, MaxLogsAssumption
             DEF ForwardLog, TypeOK, configVars, parentVars
  <2>6. CASE RuntimeKilled
    BY <1>2, <2>6 DEF RuntimeKilled, TypeOK, ParentPCs, ParentFinal, configVars, childVars
  <2>7. CASE UNCHANGED vars
    BY <1>2, <2>7 DEF vars, configVars, parentVars, childVars, TypeOK
  <2>. QED BY <1>2, <2>1, <2>2, <2>3, <2>4, <2>5, <2>6, <2>7 DEF Next, Terminated
<1>. QED BY <1>1, <1>2, PTL DEF Spec

-----------------------------------------------------------------------------
(* The order of the hooks.  Neither process sees where the other one is;   *)
(* what ties them together is that a datagram is sent only when a fact     *)
(* holds that no later step undoes.  The inductive invariant says, for     *)
(* each place in either program and each datagram under way, which of      *)
(* these facts it stands for.                                              *)

PastStart     == {"exec_ready", "exec", "running", "exited"}
PastCreate    == PastStart \cup {"pivot_root", "terminal", "privileges", "startcontainer"}
PastRuntime   == PastCreate \cup {"read_status", "createcontainer"}
PastPrestart  == PastRuntime \cup {"createruntime", "wait_createruntime"}
PastNamespace == PastPrestart \cup {"mounts", "prestart", "wait_prestart"}

ParentPastStart    == {"signals", "wait_exit", "poststop"}
ParentPastReady    == ParentPastStart \cup {"close", "poststart"}
ParentPastRuntime  == ParentPastReady \cup {"createcontainer", "console", "exec_ready"}
ParentPastPrestart == ParentPastRuntime \cup {"createruntime", "run_createruntime"}

Holds(q, m) == \E i \in 1..Len(q) : q[i] = m

(* What the child knows at place c of clone_fn, the parent at place p.     *)
ChildMayBe(c) ==
  /\ c \in PastNamespace => configured
  /\ c \in PastPrestart => Done("prestart")
  /\ c \in PastRuntime => Done("createRuntime")
  /\ c \in PastCreate => Done("createContainer")
  /\ c \in PastStart => Done("startContainer")

ParentMayBe(p) ==
  /\ p \in ParentPastPrestart => Done("prestart")
  /\ p \in ParentPastRuntime => Done("createRuntime")
  /\ p \in ParentPastReady => ready
  /\ p \in ParentPastStart => Done("poststart")

ChildKnows  == ChildMayBe(cpc)
ParentKnows == ParentMayBe(ppc)

DatagramsTell ==
  /\ Holds(toChild, "namespace_done") => configured
  /\ Holds(toChild, "prestart_done") => Done("prestart")
  /\ Holds(toChild, "createruntime_done") => Done("createRuntime")
  /\ Holds(toParent, "exec_ready") => ready

ReadyTells == ready => configured /\ \A k \in SetUpStages : Done(k)

OrderInv == ChildKnows /\ ParentKnows /\ DatagramsTell /\ ReadyTells /\ HooksInOrder

LEMMA SendHolds ==
  ASSUME NEW S, NEW q \in Seq(S), NEW m \in S, NEW x, Holds(Append(q, m), x)
  PROVE  x = m \/ Holds(q, x)
BY AppendProperties, LenProperties DEF Holds

LEMMA ReceiveHolds ==
  ASSUME NEW S, NEW q \in Seq(S), q # <<>>
  PROVE  /\ \A x : Holds(Tail(q), x) => Holds(q, x)
         /\ Holds(q, Head(q))
<1>1. Head(q) = q[1] /\ 1 \in 1..Len(q) /\ Len(q) \in Nat
  BY HeadTailProperties, LenProperties, EmptySeq
<1>2. ASSUME NEW x, Holds(Tail(q), x) PROVE Holds(q, x)
  <2>1. PICK i \in 1..Len(Tail(q)) : Tail(q)[i] = x
    BY <1>2 DEF Holds
  <2>2. Len(Tail(q)) = Len(q) - 1 /\ Tail(q)[i] = q[i + 1]
    BY HeadTailProperties, <2>1
  <2>3. i + 1 \in 1..Len(q)
    BY <1>1, <2>1, <2>2
  <2>. QED BY <2>1, <2>2, <2>3 DEF Holds
<1>. QED BY <1>1, <1>2 DEF Holds

(* HooksInOrder, stage by stage.                                           *)
LEMMA OrderByStage ==
  HooksInOrder <=>
    /\ ran["createRuntime"] > 0 => Done("prestart")
    /\ ran["createContainer"] > 0 => Done("prestart") /\ Done("createRuntime")
    /\ ran["startContainer"] > 0 =>
         Done("prestart") /\ Done("createRuntime") /\ Done("createContainer")
    /\ ran["poststart"] > 0 => \A k \in SetUpStages : Done(k)
    /\ ran["poststop"] > 0 =>
         (\A k \in SetUpStages : Done(k)) /\ Done("poststart")
<1>1. /\ Stages[1] = "prestart" /\ Stages[2] = "createRuntime"
      /\ Stages[3] = "createContainer" /\ Stages[4] = "startContainer"
      /\ Stages[5] = "poststart" /\ Stages[6] = "poststop"
  BY DEF Stages
<1>. DEFINE P(i) == ran[Stages[i]] > 0 => \A j \in 1..(i-1) : Done(Stages[j])
<1>2. HooksInOrder <=> P(1) /\ P(2) /\ P(3) /\ P(4) /\ P(5) /\ P(6)
  <2>1. 1..6 = {1, 2, 3, 4, 5, 6}
    OBVIOUS
  <2>. QED BY <2>1 DEF HooksInOrder
<1>3. /\ 1..(1-1) = {} /\ 1..(2-1) = {1} /\ 1..(3-1) = {1, 2}
      /\ 1..(4-1) = {1, 2, 3} /\ 1..(5-1) = {1, 2, 3, 4}
      /\ 1..(6-1) = {1, 2, 3, 4, 5}
  OBVIOUS
<1>4. P(1)
  BY <1>3
<1>5. P(2) <=> (ran["createRuntime"] > 0 => Done("prestart"))
  BY <1>1, <1>3
<1>6. P(3) <=> (ran["createContainer"] > 0 => Done("prestart") /\ Done("createRuntime"))
  BY <1>1, <1>3
<1>7. P(4) <=> (ran["startContainer"] > 0 =>
                  Done("prestart") /\ Done("createRuntime") /\ Done("createContainer"))
  BY <1>1, <1>3
<1>8. P(5) <=> (ran["poststart"] > 0 => \A k \in SetUpStages : Done(k))
  BY <1>1, <1>3 DEF SetUpStages
<1>9. P(6) <=> (ran["poststop"] > 0 =>
                  (\A k \in SetUpStages : Done(k)) /\ Done("poststart"))
  BY <1>1, <1>3 DEF SetUpStages
<1>. HIDE DEF P
<1>. QED BY <1>2, <1>4, <1>5, <1>6, <1>7, <1>8, <1>9

(* No step undoes a fact: a hook that has run has run, and a stage that is *)
(* complete stays so.  A step that runs a hook does nothing else.          *)
Progress ==
  /\ UNCHANGED <<hooks, terminal>>
  /\ configured => configured'
  /\ ready => ready'
  /\ \/ ran' = ran
     \/ \E k \in HookKinds : /\ ran[k] < hooks[k]
                             /\ ran' = [ran EXCEPT ![k] = @ + 1]
                             /\ UNCHANGED <<ppc, cpc, ready>>

LEMMA StepsProgress == ASSUME Next PROVE Progress
<1>. USE DEF Progress, configVars, parentVars, childVars, HookKinds
<1>1. ASSUME NEW at, NEW expected, NEW next, AwaitMsg(at, expected, next) PROVE Progress
  BY <1>1 DEF AwaitMsg
<1>2. ASSUME NEW at, NEW k \in HookKinds, NEW msg, NEW next,
             SkipStage(at, k, next) \/ RunParentHook(at, k) \/ ReportStage(at, k, msg, next)
      PROVE  Progress
  BY <1>2 DEF SkipStage, RunParentHook, ReportStage
<1>3. ASSUME NEW at, NEW k \in HookKinds, NEW msg, NEW next, NEW expected,
             \/ Announce(at, msg, next) \/ ExpectStage(at, expected, next)
             \/ SetUp(at, next) \/ ChildSkips(at, k, next) \/ RunChildHook(at, k)
      PROVE  Progress
  BY <1>3 DEF Announce, ExpectStage, SetUp, ChildSkips, RunChildHook
<1>4. ASSUME NEW from, NEW to, NEW c, ChildDies(from, to, c) PROVE Progress
  BY <1>4 DEF ChildDies
<1>5. CASE Parent
  <2>1. CASE SetSubreaper \/ StartContainerProcess \/ WriteStatus
    BY <2>1 DEF SetSubreaper, StartContainerProcess, WriteStatus
  <2>2. CASE ConfigureNamespaces
    BY <2>2, <1>1 DEF ConfigureNamespaces
  <2>3. CASE PrestartHooks \/ CreateRuntimeHooks \/ WaitCreateContainerResult
    BY <2>3, <1>1, <1>2 DEF PrestartHooks, CreateRuntimeHooks, WaitCreateContainerResult
  <2>4. CASE TakeConsole \/ WaitContainerStarted
    <3>1. CASE WaitForClose
      BY <3>1 DEF WaitForClose
    <3>2. CASE TakeConsole /\ ~terminal
      BY <3>2 DEF TakeConsole
    <3>3. CASE TakeConsole /\ terminal
      BY <3>3, <1>1 DEF TakeConsole
    <3>. QED BY <2>4, <3>1, <3>2, <3>3, <1>1 DEF WaitContainerStarted
  <2>5. CASE PoststartHooks \/ PoststopHooks
    BY <2>5, <1>2 DEF PoststartHooks, PoststopHooks
  <2>6. CASE EnableSignalForwarding \/ WaitContainerExit
    BY <2>6 DEF EnableSignalForwarding, WaitContainerExit
  <2>7. CASE KillChild \/ RemoveStatus
    BY <2>7 DEF KillChild, RemoveStatus
  <2>. QED BY <1>5, <2>1, <2>2, <2>3, <2>4, <2>5, <2>6, <2>7 DEF Parent
<1>6. CASE Child
  <2>1. CASE InitializeContainer \/ ConfigureMounts \/ WaitPrestartHooksResult
              \/ WaitCreateRuntimeResult
    BY <2>1, <1>3 DEF InitializeContainer, ConfigureMounts, WaitPrestartHooksResult,
                      WaitCreateRuntimeResult
  <2>2. CASE ReadStatus \/ SendExecReady
    BY <2>2 DEF ReadStatus, SendExecReady
  <2>3. CASE CreateContainerHooks \/ PivotRoot \/ ConfigureTerminal
              \/ ApplyPrivileges \/ StartContainerHooks \/ ExecuteProcess \/ LogFatal
    BY <2>3, <1>3 DEF CreateContainerHooks, PivotRoot, ConfigureTerminal,
                      ApplyPrivileges, StartContainerHooks, ExecuteProcess, LogFatal
  <2>4. CASE ExitFailed
    BY <2>4, <1>4 DEF ExitFailed
  <2>. QED BY <1>6, <2>1, <2>2, <2>3, <2>4 DEF Child
<1>7. CASE ContainerExits \/ ChildKilled
  BY <1>7, <1>4 DEF ContainerExits, ChildKilled
<1>8. CASE ForwardingThrows \/ ForwardLog \/ RuntimeKilled
  BY <1>8 DEF ForwardingThrows, ForwardLog, RuntimeKilled
<1>9. CASE Terminated
  BY <1>9 DEF Terminated, vars
<1>. QED BY <1>5, <1>6, <1>7, <1>8, <1>9 DEF Next

LEMMA DoneStays ==
  ASSUME TypeOK, Progress, NEW k \in HookKinds, Done(k)
  PROVE  Done(k)'
<1>1. /\ hooks[k] \in Int
      /\ \A j \in HookKinds : ran[j] \in Nat
      /\ hooks' = hooks
  <2>1. hooks[k] \in HookCounts /\ Absent \in Int
    BY DEF TypeOK, Absent
  <2>2. hooks[k] \in Int
    <3>1. hooks[k] \in Nat \cup {Absent}
      BY <2>1, HookCountsAssumption, Zenon
    <3>2. CASE hooks[k] = Absent
      BY <2>1, <3>2
    <3>3. CASE hooks[k] \in Nat
      BY <3>3
    <3>. QED BY <3>1, <3>2, <3>3
  <2>3. \A j \in HookKinds : ran[j] \in Nat
    BY DEF TypeOK
  <2>4. hooks' = hooks
    BY DEF Progress
  <2>. QED BY <2>2, <2>3, <2>4
<1>2. CASE ran' = ran
  BY <1>1, <1>2 DEF Done, Configured
<1>3. ASSUME NEW j \in HookKinds, ran[j] < hooks[j], ran' = [ran EXCEPT ![j] = @ + 1]
      PROVE  Done(k)'
  <2>1. CASE hooks[k] = Absent
    BY <1>1, <2>1 DEF Done, Configured
  <2>2. CASE hooks[k] # Absent
    <3>1. ran[k] = hooks[k] /\ j # k
      BY <1>1, <1>3, <2>2 DEF Done, Configured
    <3>. QED BY <1>1, <1>3, <3>1 DEF Done, Configured, TypeOK
  <2>. QED BY <2>1, <2>2
<1>. QED BY <1>2, <1>3 DEF Progress

(* What a step leaves alone keeps its part of the invariant.               *)
LEMMA Stays ==
  ASSUME TypeOK, Progress, OrderInv
  PROVE  /\ UNCHANGED cpc => ChildKnows'
         /\ UNCHANGED ppc => ParentKnows'
         /\ UNCHANGED ready => ReadyTells'
         /\ UNCHANGED ran => HooksInOrder'
         /\ UNCHANGED <<toChild, toParent>> => DatagramsTell'
<1>1. \A k \in HookKinds : Done(k) => Done(k)'
  BY DoneStays
<1>2. /\ SetUpStages \subseteq HookKinds
      /\ {"prestart", "createRuntime", "createContainer", "startContainer",
           "poststart"} \subseteq HookKinds
      /\ (configured => configured') /\ (ready => ready')
  BY DEF SetUpStages, HookKinds, Progress
<1>3. UNCHANGED cpc => ChildKnows'
  BY <1>1, <1>2 DEF ChildKnows, ChildMayBe, OrderInv
<1>4. UNCHANGED ppc => ParentKnows'
  BY <1>1, <1>2 DEF ParentKnows, ParentMayBe, OrderInv
<1>5. UNCHANGED ready => ReadyTells'
  BY <1>1, <1>2 DEF ReadyTells, OrderInv
<1>6. UNCHANGED <<toChild, toParent>> => DatagramsTell'
  BY <1>1, <1>2 DEF DatagramsTell, Holds, OrderInv
<1>7. UNCHANGED ran => HooksInOrder'
  <2>1. /\ Stages \in [1..6 -> HookKinds]
        /\ \A i \in 1..6 : i - 1 \in 0..5 /\ \A j \in 1..(i-1) : j \in 1..6
    BY DEF Stages, HookKinds
  <2>. QED BY <1>1, <2>1 DEF HooksInOrder, OrderInv
<1>. QED BY <1>3, <1>4, <1>5, <1>6, <1>7

(* Receiving a datagram, or sending one whose fact holds, keeps what the   *)
(* datagrams tell.                                                         *)
ChildQueueStep ==
  \/ toChild' = toChild
  \/ toChild # <<>> /\ toChild' = Tail(toChild)
  \/ \E m \in ParentMsgs :
       /\ toChild' = Append(toChild, m)
       /\ m = "namespace_done" => configured'
       /\ m = "prestart_done" => Done("prestart")
       /\ m = "createruntime_done" => Done("createRuntime")

ParentQueueStep ==
  \/ toParent' = toParent
  \/ toParent # <<>> /\ toParent' = Tail(toParent)
  \/ \E m \in ChildMsgs :
       toParent' = Append(toParent, m) /\ (m = "exec_ready" => ready')

LEMMA DatagramsStay ==
  ASSUME TypeOK, Progress, OrderInv, ChildQueueStep, ParentQueueStep
  PROVE  DatagramsTell'
<1>1. /\ Done("prestart") => Done("prestart")'
      /\ Done("createRuntime") => Done("createRuntime")'
      /\ configured => configured'
      /\ ready => ready'
  BY DoneStays DEF HookKinds, Progress
<1>2. ASSUME Holds(toParent, "exec_ready")' PROVE ready'
  <2>1. CASE toParent' = toParent
    BY <1>1, <1>2, <2>1 DEF OrderInv, DatagramsTell, Holds
  <2>2. CASE toParent # <<>> /\ toParent' = Tail(toParent)
    <3>1. Holds(Tail(toParent), "exec_ready")
      BY <1>2, <2>2 DEF Holds
    <3>2. Holds(toParent, "exec_ready")
      BY <2>2, <3>1, ReceiveHolds DEF TypeOK
    <3>. QED BY <1>1, <3>2 DEF OrderInv, DatagramsTell
  <2>3. ASSUME NEW m \in ChildMsgs, toParent' = Append(toParent, m),
               m = "exec_ready" => ready'
        PROVE  ready'
    <3>1. Holds(Append(toParent, m), "exec_ready")
      BY <1>2, <2>3 DEF Holds
    <3>2. "exec_ready" = m \/ Holds(toParent, "exec_ready")
      BY <3>1, SendHolds DEF TypeOK
    <3>. QED BY <1>1, <2>3, <3>2 DEF OrderInv, DatagramsTell
  <2>. QED BY <2>1, <2>2, <2>3 DEF ParentQueueStep
<1>3. ASSUME NEW x, Holds(toChild, x)'
      PROVE  \/ Holds(toChild, x)
             \/ /\ x = "namespace_done" => configured'
                /\ x = "prestart_done" => Done("prestart")
                /\ x = "createruntime_done" => Done("createRuntime")
  <2>1. CASE toChild' = toChild
    BY <1>3, <2>1 DEF Holds
  <2>2. CASE toChild # <<>> /\ toChild' = Tail(toChild)
    <3>1. Holds(Tail(toChild), x)
      BY <1>3, <2>2 DEF Holds
    <3>. QED BY <2>2, <3>1, ReceiveHolds DEF TypeOK
  <2>3. ASSUME NEW m \in ParentMsgs,
               toChild' = Append(toChild, m),
               m = "namespace_done" => configured',
               m = "prestart_done" => Done("prestart"),
               m = "createruntime_done" => Done("createRuntime")
        PROVE  \/ Holds(toChild, x)
               \/ /\ x = "namespace_done" => configured'
                  /\ x = "prestart_done" => Done("prestart")
                  /\ x = "createruntime_done" => Done("createRuntime")
    <3>1. Holds(Append(toChild, m), x)
      BY <1>3, <2>3 DEF Holds
    <3>2. x = m \/ Holds(toChild, x)
      BY <3>1, SendHolds DEF TypeOK
    <3>. QED BY <2>3, <3>2
  <2>. QED BY <2>1, <2>2, <2>3 DEF ChildQueueStep
<1>4. /\ Holds(toChild, "namespace_done")' => configured'
      /\ Holds(toChild, "prestart_done")' => Done("prestart")'
      /\ Holds(toChild, "createruntime_done")' => Done("createRuntime")'
  BY <1>1, <1>3 DEF OrderInv, DatagramsTell
<1>. QED BY <1>2, <1>4 DEF DatagramsTell

(* A hook of stage k runs after every hook of the earlier stages.          *)
LEMMA HookKeepsOrder ==
  ASSUME TypeOK, Progress, OrderInv, NEW k \in HookKinds,
         ran' = [ran EXCEPT ![k] = @ + 1],
         k # "prestart" => Done("prestart"),
         k \notin {"prestart", "createRuntime"} => Done("createRuntime"),
         k \in {"startContainer", "poststart", "poststop"} => Done("createContainer"),
         k \in {"poststart", "poststop"} => Done("startContainer"),
         k = "poststop" => Done("poststart")
  PROVE  HooksInOrder'
<1>1. \A j \in HookKinds : Done(j) => Done(j)'
  BY DoneStays
<1>2. \A j \in HookKinds : j # k => ran'[j] = ran[j]
  BY DEF TypeOK
<1>3. ASSUME NEW i \in 1..6, ran'[Stages[i]] > 0, NEW j \in 1..(i-1)
      PROVE  Done(Stages[j])'
  <2>1. /\ Stages[1] = "prestart" /\ Stages[2] = "createRuntime"
        /\ Stages[3] = "createContainer" /\ Stages[4] = "startContainer"
        /\ Stages[5] = "poststart" /\ Stages[6] = "poststop"
    BY DEF Stages
  <2>2. Stages[i] \in HookKinds /\ Stages[j] \in HookKinds /\ j \in 1..6
    BY <2>1 DEF HookKinds
  <2>3. CASE Stages[i] = k
    BY <1>1, <2>1, <2>2, <2>3
  <2>4. CASE Stages[i] # k
    BY <1>1, <1>2, <1>3, <2>2, <2>4 DEF OrderInv, HooksInOrder
  <2>. QED BY <2>3, <2>4
<1>. QED BY <1>3 DEF HooksInOrder

(* A step keeps the invariant if it moves each process only where it knows *)
(* enough to be.                                                           *)
LEMMA StepOrder ==
  ASSUME TypeOK, Progress, OrderInv, ChildQueueStep, ParentQueueStep,
         ChildMayBe(cpc'), ParentMayBe(ppc'),
         ready' = ready \/ (configured /\ \A k \in SetUpStages : Done(k)),
         ran' = ran \/ HooksInOrder'
  PROVE  OrderInv'
<1>1. \A k \in HookKinds : Done(k) => Done(k)'
  BY DoneStays
<1>2. /\ SetUpStages \subseteq HookKinds
      /\ {"prestart", "createRuntime", "createContainer", "startContainer",
           "poststart"} \subseteq HookKinds
      /\ (configured => configured') /\ (ready => ready')
  BY DEF SetUpStages, HookKinds, Progress
<1>3. ChildKnows'
  BY <1>1, <1>2 DEF ChildKnows, ChildMayBe
<1>4. ParentKnows'
  BY <1>1, <1>2 DEF ParentKnows, ParentMayBe
<1>5. DatagramsTell'
  BY DatagramsStay
<1>6. ReadyTells'
  BY <1>1, <1>2, Stays DEF ReadyTells
<1>7. HooksInOrder'
  BY Stays
<1>. QED BY <1>3, <1>4, <1>5, <1>6, <1>7 DEF OrderInv

(* wait_for_stage moves on to "next" with the fact its message stands for. *)
LEMMA AwaitMsgOrder ==
  ASSUME TypeOK, Progress, OrderInv, NEW at, NEW expected, NEW next,
         AwaitMsg(at, expected, next),
         (expected = "exec_ready" => ready) => ParentMayBe(next)
  PROVE  OrderInv'
<1>1. UNCHANGED <<cpc, ready, toChild, ran>>
  BY DEF AwaitMsg, configVars, childVars
<1>2. ChildQueueStep /\ ParentQueueStep /\ ChildMayBe(cpc')
  BY <1>1 DEF ChildQueueStep, ParentQueueStep, AwaitMsg, OrderInv, ChildKnows
<1>3. ParentMayBe("caught")
  BY DEF ParentMayBe, ParentPastPrestart, ParentPastRuntime, ParentPastReady, ParentPastStart
<1>4. ParentMayBe(ppc')
  <2>1. CASE ppc' = ppc
    BY <2>1 DEF OrderInv, ParentKnows
  <2>2. CASE ppc' = "caught"
    BY <1>3, <2>2
  <2>3. CASE toParent # <<>> /\ Head(toParent) = expected /\ ppc' = next
    <3>1. Holds(toParent, expected)
      BY <2>3, ReceiveHolds DEF TypeOK
    <3>. QED BY <2>3, <3>1 DEF OrderInv, DatagramsTell
  <2>. QED BY <2>1, <2>2, <2>3 DEF AwaitMsg
<1>. QED BY <1>1, <1>2, <1>4, StepOrder

(* The steps of the parent that send to nobody and run no hook.            *)
LEMMA ParentMoves ==
  ASSUME TypeOK, Progress, OrderInv, UNCHANGED <<ready, toParent, toChild, ran>>,
         cpc' = cpc \/ cpc' \notin PastNamespace,
         ParentMayBe(ppc')
  PROVE  OrderInv'
<1>1. ChildQueueStep /\ ParentQueueStep
  BY DEF ChildQueueStep, ParentQueueStep
<1>2. ChildMayBe(cpc')
  BY DEF ChildMayBe, OrderInv, ChildKnows, PastNamespace, PastPrestart, PastRuntime,
         PastCreate, PastStart
<1>. QED BY <1>1, <1>2, StepOrder

(* A hook of the parent, with every earlier stage complete.                *)
LEMMA ParentHookOrder ==
  ASSUME TypeOK, Progress, OrderInv, NEW at, NEW k \in HookKinds,
         RunParentHook(at, k),
         k # "prestart" => Done("prestart"),
         k \notin {"prestart", "createRuntime"} => ready,
         k = "poststop" => Done("poststart")
  PROVE  OrderInv'
<1>1. /\ UNCHANGED <<cpc, ready, toParent, toChild>>
      /\ ChildQueueStep /\ ParentQueueStep /\ ChildMayBe(cpc')
  BY DEF RunParentHook, configVars, childVars, ChildQueueStep, ParentQueueStep,
         OrderInv, ChildKnows
<1>2. ParentMayBe(ppc')
  BY DEF RunParentHook, OrderInv, ParentKnows, ParentMayBe, ParentPastPrestart,
         ParentPastRuntime, ParentPastReady, ParentPastStart
<1>3. ran' = ran \/ HooksInOrder'
  <2>1. CASE ran' = [ran EXCEPT ![k] = @ + 1]
    <3>1. k \notin {"prestart", "createRuntime"} => \A j \in SetUpStages : Done(j)
      BY DEF OrderInv, ReadyTells
    <3>. QED BY <2>1, <3>1, HookKeepsOrder DEF SetUpStages
  <2>. QED BY <2>1 DEF RunParentHook
<1>. QED BY <1>1, <1>2, <1>3, StepOrder

(* The report of a stage: all its hooks have run.                          *)
LEMMA ReportOrder ==
  ASSUME TypeOK, Progress, OrderInv, NEW msg \in ParentMsgs, NEW next,
         UNCHANGED <<cpc, ready, toParent, ran>>,
         SendToChild(msg, next),
         msg = "namespace_done" => configured',
         msg = "prestart_done" => Done("prestart"),
         msg = "createruntime_done" => Done("createRuntime"),
         ParentMayBe(next)
  PROVE  OrderInv'
<1>1. ChildQueueStep /\ ParentQueueStep /\ ChildMayBe(cpc')
  BY DEF ChildQueueStep, ParentQueueStep, SendToChild, OrderInv, ChildKnows
<1>2. ParentMayBe(ppc')
  BY DEF SendToChild, ParentMayBe, ParentPastPrestart, ParentPastRuntime,
         ParentPastReady, ParentPastStart
<1>. QED BY <1>1, <1>2, StepOrder

LEMMA ParentOrder == ASSUME TypeOK, Progress, OrderInv, Parent PROVE OrderInv'
<1>. USE DEF ParentMayBe, ParentPastPrestart, ParentPastRuntime, ParentPastReady,
             ParentPastStart
<1>1. ParentMayBe(ppc)
  BY DEF OrderInv, ParentKnows
<1>2. /\ {"prestart_done", "createruntime_done", "namespace_done"} \subseteq ParentMsgs
      /\ {"prestart", "createRuntime", "createContainer", "poststart"} \subseteq HookKinds
  BY DEF ParentMsgs, HookKinds
<1>3. ASSUME NEW at, NEW k \in HookKinds, NEW next, SkipStage(at, k, next),
             Done(k) => ParentMayBe(next)
      PROVE  OrderInv'
  <2>1. UNCHANGED <<cpc, ready, toParent, toChild, ran>> /\ ppc' = next /\ Done(k)
    BY <1>3 DEF SkipStage, childVars, Done
  <2>. QED BY <1>3, <2>1, ParentMoves
<1>4. ASSUME NEW at, NEW k \in HookKinds, NEW msg \in ParentMsgs, NEW next,
             ReportStage(at, k, msg, next),
             \/ msg = "prestart_done" /\ k = "prestart"
             \/ msg = "createruntime_done" /\ k = "createRuntime",
             Done(k) => ParentMayBe(next)
      PROVE  OrderInv'
  <2>1. Done(k) /\ UNCHANGED <<cpc, ready, toParent, ran>> /\ SendToChild(msg, next)
    BY <1>4 DEF ReportStage, childVars, Done
  <2>. QED BY <1>4, <2>1, ReportOrder
<1>5. CASE SetSubreaper \/ StartContainerProcess \/ WriteStatus
  <2>1. /\ UNCHANGED <<ready, toParent, toChild, ran>>
        /\ cpc' = cpc \/ cpc' = "namespace_ready"
        /\ ppc' \in {"clone", "thrown", "write_status", "caught", "namespace"}
    BY <1>5 DEF SetSubreaper, StartContainerProcess, WriteStatus, childVars
  <2>2. cpc' = cpc \/ cpc' \notin PastNamespace
    BY <2>1 DEF PastNamespace, PastPrestart, PastRuntime, PastCreate, PastStart
  <2>. QED BY <2>1, <2>2, ParentMoves
<1>6. CASE ConfigureNamespaces
  <2>1. CASE AwaitMsg("namespace", "namespace_ready", "configure")
    BY <2>1, AwaitMsgOrder
  <2>2. CASE configured' = TRUE /\ SendToChild("namespace_done", "prestart")
              /\ UNCHANGED <<cpc, ready, toParent, ran>>
    BY <1>2, <2>2, ReportOrder
  <2>3. CASE ppc' = "caught" /\ UNCHANGED <<cpc, ready, toParent, toChild, ran>>
    BY <2>3, ParentMoves
  <2>. QED BY <1>6, <2>1, <2>2, <2>3 DEF ConfigureNamespaces, childVars
<1>7. CASE PrestartHooks
  <2>1. CASE SkipStage("prestart", "prestart", "createruntime")
    BY <1>2, <1>3, <2>1
  <2>2. CASE AwaitMsg("prestart", "prestart_ready", "run_prestart")
    BY <2>2, AwaitMsgOrder
  <2>3. CASE RunParentHook("run_prestart", "prestart")
    BY <1>2, <2>3, ParentHookOrder
  <2>4. CASE ReportStage("run_prestart", "prestart", "prestart_done", "createruntime")
    <3>1. Done("prestart") => ParentMayBe("createruntime")
      OBVIOUS
    <3>. HIDE DEF ParentMayBe
    <3>. QED BY <1>2, <1>4, <2>4, <3>1
  <2>. QED BY <1>7, <2>1, <2>2, <2>3, <2>4 DEF PrestartHooks
<1>8. CASE CreateRuntimeHooks
  <2>1. ppc \in {"createruntime", "run_createruntime"}
    BY <1>8 DEF CreateRuntimeHooks, SkipStage, AwaitMsg, RunParentHook, ReportStage
  <2>2. Done("prestart")
    BY <1>1, <2>1
  <2>3. CASE SkipStage("createruntime", "createRuntime", "createcontainer")
    BY <1>2, <1>3, <2>2, <2>3
  <2>4. CASE AwaitMsg("createruntime", "createruntime_ready", "run_createruntime")
    BY <2>2, <2>4, AwaitMsgOrder
  <2>5. CASE RunParentHook("run_createruntime", "createRuntime")
    BY <1>2, <2>2, <2>5, ParentHookOrder
  <2>6. CASE ReportStage("run_createruntime", "createRuntime", "createruntime_done",
                         "createcontainer")
    BY <1>2, <1>4, <2>2, <2>6
  <2>. QED BY <1>8, <2>3, <2>4, <2>5, <2>6 DEF CreateRuntimeHooks
<1>9. CASE WaitCreateContainerResult
  <2>1. Done("prestart") /\ Done("createRuntime")
    BY <1>1, <1>9 DEF WaitCreateContainerResult, SkipStage, AwaitMsg
  <2>2. CASE SkipStage("createcontainer", "createContainer", "console")
    BY <1>2, <1>3, <2>1, <2>2
  <2>3. CASE AwaitMsg("createcontainer", "createcontainer_done", "console")
    BY <2>1, <2>3, AwaitMsgOrder
  <2>. QED BY <1>9, <2>2, <2>3 DEF WaitCreateContainerResult
<1>10. CASE TakeConsole
  <2>1. Done("prestart") /\ Done("createRuntime")
    BY <1>1, <1>10 DEF TakeConsole, AwaitMsg
  <2>2. CASE \E next \in {"exec_ready", "caught"} :
               AwaitMsg("console", "console_fd", next)
    BY <2>1, <2>2, AwaitMsgOrder
  <2>3. CASE ppc' = "exec_ready" /\ UNCHANGED <<cpc, ready, toParent, toChild, ran>>
    BY <2>1, <2>3, ParentMoves
  <2>. QED BY <1>10, <2>2, <2>3 DEF TakeConsole, childVars
<1>11. CASE AwaitMsg("exec_ready", "exec_ready", "close")
  <2>1. Done("prestart") /\ Done("createRuntime")
    BY <1>1, <1>11 DEF AwaitMsg
  <2>. QED BY <1>11, <2>1, AwaitMsgOrder
<1>12. CASE WaitForClose
  <2>1. ParentQueueStep /\ ChildQueueStep
    BY <1>12 DEF WaitForClose, ParentQueueStep, ChildQueueStep
  <2>2. UNCHANGED <<cpc, ready, ran>> /\ ppc' \in {"close", "caught", "poststart"}
        /\ ppc = "close"
    BY <1>12 DEF WaitForClose, childVars
  <2>3. ChildMayBe(cpc') /\ ParentMayBe(ppc')
    BY <1>1, <2>2 DEF OrderInv, ChildKnows
  <2>. QED BY <2>1, <2>2, <2>3, StepOrder
<1>13. CASE PoststartHooks
  <2>1. ppc = "poststart"
    BY <1>13 DEF PoststartHooks, RunParentHook
  <2>2. Done("prestart") /\ Done("createRuntime") /\ ready
    BY <1>1, <2>1
  <2>3. CASE RunParentHook("poststart", "poststart")
    BY <1>2, <2>2, <2>3, ParentHookOrder
  <2>4. CASE Done("poststart") /\ ppc' = "signals"
              /\ UNCHANGED <<cpc, ready, toParent, toChild, ran>>
    BY <2>2, <2>4, ParentMoves
  <2>. QED BY <1>13, <2>3, <2>4 DEF PoststartHooks, childVars
<1>14. CASE EnableSignalForwarding \/ WaitContainerExit \/ RemoveStatus
  <2>1. /\ UNCHANGED <<cpc, ready, toParent, toChild, ran>>
        /\ \/ ppc' = ppc
           \/ ppc' \in {"caught", "returned", "thrown"}
           \/ ppc \in ParentPastStart /\ ppc' \in ParentPastStart
    BY <1>14 DEF EnableSignalForwarding, WaitContainerExit, RemoveStatus, childVars
  <2>. QED BY <1>1, <2>1, ParentMoves
<1>15. CASE PoststopHooks
  <2>1. Done("prestart") /\ Done("createRuntime") /\ ready /\ Done("poststart")
    BY <1>1, <1>15 DEF PoststopHooks
  <2>2. /\ UNCHANGED <<cpc, ready, toParent, toChild>>
        /\ ppc' = ppc \/ ppc' = "remove" \/ ppc' = "killed"
        /\ ran' = ran \/ ran' = [ran EXCEPT !["poststop"] = @ + 1]
    BY <1>15 DEF PoststopHooks, childVars
  <2>3. CASE ran' = ran
    BY <1>1, <2>2, <2>3, ParentMoves
  <2>4. CASE ran' = [ran EXCEPT !["poststop"] = @ + 1]
    <3>1. HooksInOrder'
      BY <2>1, <2>4, HookKeepsOrder DEF OrderInv, ReadyTells, SetUpStages, HookKinds
    <3>2. ChildQueueStep /\ ParentQueueStep /\ ChildMayBe(cpc') /\ ParentMayBe(ppc')
      BY <1>1, <2>2 DEF ChildQueueStep, ParentQueueStep, OrderInv, ChildKnows
    <3>. QED BY <2>2, <3>1, <3>2, StepOrder
  <2>. QED BY <2>2, <2>3, <2>4
<1>16. CASE KillChild
  <2>1. /\ UNCHANGED <<ready, toParent, toChild, ran>>
        /\ cpc' = cpc \/ cpc' = "killed"
        /\ ppc' = "remove"
    BY <1>16 DEF KillChild
  <2>2. cpc' = cpc \/ cpc' \notin PastNamespace
    BY <2>1 DEF PastNamespace, PastPrestart, PastRuntime, PastCreate, PastStart
  <2>. QED BY <2>1, <2>2, ParentMoves
<1>. QED
  BY <1>5, <1>6, <1>7, <1>8, <1>9, <1>10, <1>11, <1>12, <1>13, <1>14, <1>15, <1>16
  DEF Parent, WaitContainerStarted

(* The steps of the child that run no hook.                                *)
LEMMA ChildMoves ==
  ASSUME TypeOK, Progress, OrderInv, UNCHANGED <<ppc, ready, ran>>,
         ChildQueueStep, ParentQueueStep, ChildMayBe(cpc')
  PROVE  OrderInv'
<1>1. ParentMayBe(ppc')
  BY DEF OrderInv, ParentKnows
<1>. QED BY <1>1, StepOrder

(* The building blocks of clone_fn, where the next place asks for no more  *)
(* than what is known, received or just completed.                         *)
LEMMA AnnounceOrder ==
  ASSUME TypeOK, Progress, OrderInv, NEW at, NEW next,
         NEW msg \in ChildMsgs \ {"exec_ready"},
         Announce(at, msg, next), ChildMayBe(next)
  PROVE  OrderInv'
<1>1. UNCHANGED <<ppc, ready, ran>> /\ ChildQueueStep /\ ParentQueueStep /\ cpc' = next
  BY DEF Announce, SendToParent, parentVars, ChildQueueStep, ParentQueueStep
<1>. QED BY <1>1, ChildMoves

LEMMA SetUpOrder ==
  ASSUME TypeOK, Progress, OrderInv, NEW at, NEW next, NEW k \in HookKinds,
         \/ SetUp(at, next) /\ ChildMayBe(next)
         \/ ChildSkips(at, k, next) /\ (Done(k) => ChildMayBe(next))
  PROVE  OrderInv'
<1>1. ChildMayBe("failing")
  BY DEF ChildMayBe, PastNamespace, PastPrestart, PastRuntime, PastCreate, PastStart
<1>2. UNCHANGED <<ppc, ready, ran>> /\ ChildQueueStep /\ ParentQueueStep
  BY DEF SetUp, ChildSkips, parentVars, ChildQueueStep, ParentQueueStep
<1>3. ChildMayBe(cpc')
  BY <1>1 DEF SetUp, ChildSkips, Done
<1>. QED BY <1>2, <1>3, ChildMoves

LEMMA ExpectStageOrder ==
  ASSUME TypeOK, Progress, OrderInv, NEW at, NEW expected, NEW next,
         ExpectStage(at, expected, next),
         (/\ expected = "namespace_done" => configured
          /\ expected = "prestart_done" => Done("prestart")
          /\ expected = "createruntime_done" => Done("createRuntime"))
           => ChildMayBe(next)
  PROVE  OrderInv'
<1>1. /\ UNCHANGED <<ppc, ready, ran, toParent>>
      /\ toChild # <<>> /\ toChild' = Tail(toChild)
      /\ \/ Head(toChild) = expected /\ cpc' = next
         \/ cpc' = "failing"
  BY DEF ExpectStage, parentVars
<1>2. ChildQueueStep /\ ParentQueueStep
  BY <1>1 DEF ChildQueueStep, ParentQueueStep
<1>3. ChildMayBe("failing")
  BY DEF ChildMayBe, PastNamespace, PastPrestart, PastRuntime, PastCreate, PastStart
<1>4. Holds(toChild, Head(toChild))
  BY <1>1, ReceiveHolds DEF TypeOK
<1>5. ChildMayBe(cpc')
  BY <1>1, <1>3, <1>4 DEF OrderInv, DatagramsTell
<1>. QED BY <1>1, <1>2, <1>5, ChildMoves

(* A hook of the child, with every earlier stage complete.                 *)
LEMMA ChildHookOrder ==
  ASSUME TypeOK, Progress, OrderInv, NEW at, NEW k \in HookKinds,
         RunChildHook(at, k), k \in {"createContainer", "startContainer"},
         Done("prestart"), Done("createRuntime"),
         k = "startContainer" => Done("createContainer")
  PROVE  OrderInv'
<1>1. /\ UNCHANGED <<ppc, ready, toParent, toChild>>
      /\ cpc' = cpc \/ cpc' = "failing"
      /\ ran' = ran \/ ran' = [ran EXCEPT ![k] = @ + 1]
  BY DEF RunChildHook, parentVars
<1>2. ChildQueueStep /\ ParentQueueStep
  BY <1>1 DEF ChildQueueStep, ParentQueueStep
<1>3. ChildMayBe("failing")
  BY DEF ChildMayBe, PastNamespace, PastPrestart, PastRuntime, PastCreate, PastStart
<1>4. ChildMayBe(cpc') /\ ParentMayBe(ppc')
  BY <1>1, <1>3 DEF OrderInv, ChildKnows, ParentKnows
<1>5. ran' = ran \/ HooksInOrder'
  BY <1>1, HookKeepsOrder
<1>. QED BY <1>1, <1>2, <1>4, <1>5, StepOrder

LEMMA ChildOrder == ASSUME TypeOK, Progress, OrderInv, Child PROVE OrderInv'
<1>1. ChildMayBe(cpc)
  BY DEF OrderInv, ChildKnows
<1>2. /\ {"namespace_ready", "prestart_ready", "createruntime_ready",
           "createcontainer_done", "console_fd", "fatal"} \subseteq ChildMsgs \ {"exec_ready"}
      /\ "exec_ready" \in ChildMsgs
      /\ HookKinds = {"prestart", "createRuntime", "createContainer",
                      "startContainer", "poststart", "poststop"}
  BY DEF ChildMsgs, Logs, HookKinds
<1>. USE DEF ChildMayBe, PastNamespace, PastPrestart, PastRuntime, PastCreate, PastStart
<1>3. ChildMayBe("failing") /\ ChildMayBe("exiting") /\ ChildMayBe("wait_namespace")
  OBVIOUS
<1>4. CASE InitializeContainer
  <2>1. CASE Announce("namespace_ready", "namespace_ready", "wait_namespace")
    BY <1>2, <1>3, <2>1, AnnounceOrder, SetUpOrder
  <2>2. CASE ExpectStage("wait_namespace", "namespace_done", "mounts")
    BY <2>2, ExpectStageOrder
  <2>. QED BY <1>4, <2>1, <2>2 DEF InitializeContainer
<1>5. CASE ConfigureMounts
  <2>1. configured /\ SetUp("mounts", "prestart")
    BY <1>1, <1>5 DEF ConfigureMounts, SetUp
  <2>. QED BY <1>2, <2>1, AnnounceOrder, SetUpOrder
<1>6. CASE WaitPrestartHooksResult
  <2>1. configured
    BY <1>1, <1>6 DEF WaitPrestartHooksResult, ChildSkips, Announce, ExpectStage
  <2>2. CASE ChildSkips("prestart", "prestart", "createruntime")
    BY <1>2, <2>1, <2>2, AnnounceOrder, SetUpOrder
  <2>3. CASE Announce("prestart", "prestart_ready", "wait_prestart")
    <3>1. ChildMayBe("wait_prestart")
      BY <2>1
    <3>. HIDE DEF ChildMayBe
    <3>. QED BY <1>2, <2>3, <3>1, AnnounceOrder
  <2>4. CASE ExpectStage("wait_prestart", "prestart_done", "createruntime")
    BY <2>1, <2>4, ExpectStageOrder
  <2>. QED BY <1>6, <2>2, <2>3, <2>4 DEF WaitPrestartHooksResult
<1>7. CASE WaitCreateRuntimeResult
  <2>1. configured /\ Done("prestart")
    BY <1>1, <1>7 DEF WaitCreateRuntimeResult, ChildSkips, Announce, ExpectStage
  <2>2. CASE ChildSkips("createruntime", "createRuntime", "read_status")
    BY <1>2, <2>1, <2>2, AnnounceOrder, SetUpOrder
  <2>3. CASE Announce("createruntime", "createruntime_ready", "wait_createruntime")
    <3>1. ChildMayBe("wait_createruntime")
      BY <2>1
    <3>. HIDE DEF ChildMayBe
    <3>. QED BY <1>2, <2>3, <3>1, AnnounceOrder
  <2>4. CASE ExpectStage("wait_createruntime", "createruntime_done", "read_status")
    BY <2>1, <2>4, ExpectStageOrder
  <2>. QED BY <1>7, <2>2, <2>3, <2>4 DEF WaitCreateRuntimeResult
<1>8. CASE ReadStatus
  <2>1. configured /\ Done("prestart") /\ Done("createRuntime")
    BY <1>1, <1>8 DEF ReadStatus
  <2>2. ChildQueueStep /\ ParentQueueStep /\ UNCHANGED <<ppc, ready, ran>>
        /\ cpc' \in {"createcontainer", "failing"}
    BY <1>8 DEF ReadStatus, parentVars, ChildQueueStep, ParentQueueStep
  <2>. QED BY <2>1, <2>2, ChildMoves
<1>9. CASE CreateContainerHooks
  <2>1. configured /\ Done("prestart") /\ Done("createRuntime")
    BY <1>1, <1>9 DEF CreateContainerHooks, ChildSkips, RunChildHook, Announce
  <2>2. CASE ChildSkips("createcontainer", "createContainer", "pivot_root")
    BY <1>2, <2>1, <2>2, AnnounceOrder, SetUpOrder
  <2>3. CASE RunChildHook("createcontainer", "createContainer")
    BY <1>2, <2>1, <2>3, ChildHookOrder
  <2>4. CASE ran["createContainer"] = hooks["createContainer"]
              /\ Announce("createcontainer", "createcontainer_done", "pivot_root")
    <3>1. Done("createContainer")
      BY <2>4 DEF Done
    <3>. QED BY <1>2, <2>1, <2>4, <3>1, AnnounceOrder, SetUpOrder
  <2>. QED BY <1>9, <2>2, <2>3, <2>4 DEF CreateContainerHooks
<1>10. CASE PivotRoot \/ ConfigureTerminal \/ ApplyPrivileges
  <2>1. configured /\ Done("prestart") /\ Done("createRuntime") /\ Done("createContainer")
    BY <1>1, <1>10 DEF PivotRoot, ConfigureTerminal, ApplyPrivileges, SetUp, Announce
  <2>2. ChildMayBe("terminal") /\ ChildMayBe("privileges") /\ ChildMayBe("startcontainer")
    BY <2>1
  <2>. HIDE DEF ChildMayBe
  <2>. QED BY <1>2, <1>3, <1>10, <2>2, AnnounceOrder, SetUpOrder
           DEF PivotRoot, ConfigureTerminal, ApplyPrivileges
<1>11. CASE StartContainerHooks
  <2>1. configured /\ Done("prestart") /\ Done("createRuntime") /\ Done("createContainer")
    BY <1>1, <1>11 DEF StartContainerHooks, RunChildHook, SetUp
  <2>2. CASE RunChildHook("startcontainer", "startContainer")
    BY <1>2, <2>1, <2>2, ChildHookOrder
  <2>3. CASE Done("startContainer") /\ SetUp("startcontainer", "exec_ready")
    BY <1>2, <2>1, <2>3, AnnounceOrder, SetUpOrder
  <2>. QED BY <1>11, <2>2, <2>3 DEF StartContainerHooks
<1>12. CASE SendExecReady
  <2>1. configured /\ \A k \in SetUpStages : Done(k)
    BY <1>1, <1>12 DEF SendExecReady, SetUpStages
  <2>2. ready' /\ UNCHANGED <<ppc, ran, toChild>> /\ cpc' = "exec"
        /\ toParent' = Append(toParent, "exec_ready")
    BY <1>12 DEF SendExecReady, SendToParent, parentVars
  <2>3. ChildQueueStep /\ ParentQueueStep
    BY <1>2, <2>2 DEF ChildQueueStep, ParentQueueStep
  <2>4. ChildMayBe(cpc')
    BY <2>1, <2>2 DEF SetUpStages
  <2>5. ParentMayBe(ppc')
    BY <2>2 DEF OrderInv, ParentKnows
  <2>. QED BY <2>1, <2>2, <2>3, <2>4, <2>5, StepOrder
<1>13. CASE ExecuteProcess
  <2>1. ChildMayBe("running")
    BY <1>1, <1>13 DEF ExecuteProcess, SetUp
  <2>. HIDE DEF ChildMayBe
  <2>. QED BY <1>2, <1>13, <2>1, AnnounceOrder, SetUpOrder DEF ExecuteProcess
<1>14. CASE LogFatal
  BY <1>2, <1>3, <1>14, AnnounceOrder, SetUpOrder DEF LogFatal
<1>15. CASE ExitFailed
  <2>1. UNCHANGED <<ppc, ready, ran, toParent, toChild>> /\ cpc' = "failed"
    BY <1>15 DEF ExitFailed, ChildDies, parentVars
  <2>. QED BY <2>1, ChildMoves DEF ChildQueueStep, ParentQueueStep
<1>. QED
  BY <1>4, <1>5, <1>6, <1>7, <1>8, <1>9, <1>10, <1>11, <1>12, <1>13, <1>14, <1>15
  DEF Child

LEMMA OrderInductive ==
  ASSUME TypeOK, OrderInv, [Next]_vars
  PROVE  OrderInv'
<1>1. CASE UNCHANGED vars
  BY <1>1 DEF vars, configVars, parentVars, childVars, OrderInv, ChildKnows, ParentKnows,
              ChildMayBe, ParentMayBe, DatagramsTell, ReadyTells, HooksInOrder, Holds,
              Done, Configured
<1>2. CASE Next /\ ~UNCHANGED vars
  <2>1. Progress
    BY <1>2, StepsProgress
  <2>2. CASE Parent \/ Child
    BY <2>1, <2>2, ParentOrder, ChildOrder
  <2>3. CASE ForwardingThrows \/ RuntimeKilled
    <3>1. UNCHANGED <<cpc, ready, toParent, toChild, ran>>
          /\ ppc' \in {"caught", "killed"}
      BY <2>3 DEF ForwardingThrows, RuntimeKilled, childVars
    <3>2. ParentMayBe(ppc')
      BY <3>1 DEF ParentMayBe, ParentPastPrestart, ParentPastRuntime, ParentPastReady,
                  ParentPastStart
    <3>. QED BY <2>1, <3>1, <3>2, ParentMoves
  <2>4. CASE ContainerExits \/ ChildKilled
    <3>1. /\ UNCHANGED <<ppc, ready, ran, toParent, toChild>>
          /\ cpc' = "killed" \/ (cpc = "running" /\ cpc' = "exited")
      BY <2>4 DEF ContainerExits, ChildKilled, ChildDies, parentVars
    <3>2. ChildMayBe(cpc')
      BY <3>1 DEF OrderInv, ChildKnows, ChildMayBe, PastNamespace, PastPrestart,
                  PastRuntime, PastCreate, PastStart
    <3>. QED BY <2>1, <3>1, <3>2, ChildMoves DEF ChildQueueStep, ParentQueueStep
  <2>5. CASE ForwardLog
    <3>1. UNCHANGED <<ppc, cpc, ready, ran, toChild>> /\ toParent' = Append(toParent, "log")
          /\ "log" \in ChildMsgs
      BY <2>5 DEF ForwardLog, SendToParent, parentVars, ChildMsgs, Logs
    <3>2. ChildMayBe(cpc')
      BY <3>1 DEF OrderInv, ChildKnows
    <3>. QED BY <2>1, <3>1, <3>2, ChildMoves DEF ChildQueueStep, ParentQueueStep
  <2>. QED BY <1>1, <1>2, <2>2, <2>3, <2>4, <2>5 DEF Next, Terminated
<1>. QED BY <1>1, <1>2

LEMMA OrderInvariant == Spec => []OrderInv
<1>1. ASSUME Init PROVE OrderInv
  <2>1. ~Holds(toChild, "namespace_done") /\ ~Holds(toChild, "prestart_done")
        /\ ~Holds(toChild, "createruntime_done") /\ ~Holds(toParent, "exec_ready")
    BY <1>1, EmptySeq DEF Init, Holds
  <2>2. HooksInOrder
    BY <1>1, OrderByStage DEF Init, HookKinds
  <2>3. cpc \notin PastNamespace /\ ppc \notin ParentPastPrestart
    BY <1>1 DEF Init, PastNamespace, PastPrestart, PastRuntime, PastCreate, PastStart,
                ParentPastPrestart, ParentPastRuntime, ParentPastReady, ParentPastStart
  <2>. QED BY <1>1, <2>1, <2>2, <2>3
           DEF Init, OrderInv, ChildKnows, ParentKnows, ChildMayBe, ParentMayBe,
               DatagramsTell, ReadyTells, PastNamespace, PastPrestart, PastRuntime,
               PastCreate, PastStart, ParentPastPrestart, ParentPastRuntime,
               ParentPastReady, ParentPastStart
<1>. QED BY <1>1, TypeCorrect, OrderInductive, PTL DEF Spec

(* The OCI hook order holds for every configuration, every interleaving of *)
(* the two processes, and whatever throws or is killed.                    *)
THEOREM HookOrder == Spec => []HooksInOrder
BY OrderInvariant, PTL DEF OrderInv

(* The container's program is not executed before the runtime has set up   *)
(* its id mappings and cgroup and every hook before the start has run.     *)
THEOREM PreparedExec == Spec => []NoUnpreparedExec
<1>1. OrderInv => NoUnpreparedExec
  BY DEF OrderInv, ChildKnows, ChildMayBe, NoUnpreparedExec, SetUpStages, PastNamespace,
         PastPrestart, PastRuntime, PastCreate, PastStart
<1>. QED BY <1>1, OrderInvariant, PTL

-----------------------------------------------------------------------------
(* How a container ends.  The second inductive invariant ties the place of *)
(* the parent to what it has written, received, reaped and taken for its   *)
(* result, and counts the answers that are on their way to the child.      *)

BeforeRecord == {"start", "clone", "write_status"}
Underway     == ParentPCs \ ({"caught", "remove"} \cup ParentFinal)
Started      == {"poststart", "signals", "wait_exit"}

RecordInv ==
  /\ ppc \in {"start", "clone"} => cpc = "none"
  /\ ppc \in Underway \ {"start", "clone"} => cpc # "none"
  /\ cpc = "none" => ran = [k \in HookKinds |-> 0]
  /\ ready => cpc \in {"exec", "running", "failing", "exiting"} \cup ChildDead
  /\ ppc \in Underway \ BeforeRecord => status = "present"
  /\ configured => status # "absent"
  /\ status = "removed" <=> ppc = "returned"

ReapInv ==
  /\ reaped => cpc \in ChildDead
  /\ ppc = "poststop" \/ ran["poststop"] > 0 => reaped /\ ready
  /\ ppc \in {"remove", "returned"} => cpc = "none" \/ reaped

ExitInv ==
  /\ cpc = "failed" => code = ExitFailure
  /\ cpc = "killed" => code = KilledCode
  /\ result # ExitFailure =>
       /\ ppc \in {"poststop", "remove"} \cup ParentFinal
       /\ reaped /\ result = code
       /\ ready /\ Done("poststart")
       /\ ppc \in {"remove", "returned"} => Done("poststop")

(* Datagrams the parent at place p has sent, the child at c has received.  *)
One(b) == IF b THEN 1 ELSE 0
Sent(p) == One(p \in ParentPastPrestart \cup {"prestart", "run_prestart"})
         + One(p \in ParentPastPrestart /\ Configured("prestart"))
         + One(p \in ParentPastRuntime /\ Configured("createRuntime"))
Received(c) == One(c \in PastNamespace)
             + One(c \in PastPrestart /\ Configured("prestart"))
             + One(c \in PastRuntime /\ Configured("createRuntime"))

AnsweredInv ==
  /\ cpc = "wait_prestart" => Configured("prestart")
  /\ cpc = "wait_createruntime" => Configured("createRuntime")
  /\ ppc \in Underway =>
       /\ cpc \in ChildSetup \cup {"none"} => Len(toChild) = Sent(ppc) - Received(cpc)
       /\ ready => Len(toChild) = Sent(ppc) - Received("exec_ready")

FatalLast == toParent # <<>> /\ toParent[Len(toParent)] = "fatal"

FatalInv ==
  cpc \in {"exiting", "failed"} /\ (ppc = "close" \/ Holds(toParent, "exec_ready"))
    => sawFatal \/ FatalLast

StartedInv ==
  ppc \in Started \cup {"poststop"} \/ ran["poststart"] > 0 =>
    ready /\ EndClosed /\ cpc # "failed"

LifeInv == RecordInv /\ ReapInv /\ ExitInv /\ AnsweredInv /\ FatalInv /\ StartedInv

(* The steps of the parent between the record and the end.                 *)
ParentAdvances ==
  /\ UNCHANGED <<hooks, cpc, ready, code, status, reaped, result>>
  /\ configured' = configured \/ ppc = "configure"
  /\ ppc \in Underway \ (BeforeRecord \cup {"poststop"})
  /\ ppc' \in (Underway \ (BeforeRecord \cup {"poststop"})) \cup {"caught"}
  /\ ppc' \in Started =>
       \/ ppc \in Started
       \/ ppc = "close" /\ ParentEof /\ ~sawFatal
  /\ ran["poststart"]' = ran["poststart"] \/ ppc = "poststart"
  /\ ran["poststop"]' = ran["poststop"]

LEMMA ParentShape ==
  ASSUME TypeOK, Parent \/ ForwardingThrows
  PROVE  \/ ParentAdvances
         \/ SetSubreaper \/ StartContainerProcess \/ WriteStatus
         \/ EnableSignalForwarding \/ WaitContainerExit
         \/ PoststopHooks \/ KillChild \/ RemoveStatus
<1>. USE DEF configVars, childVars, ParentAdvances, Underway, BeforeRecord, Started,
             ParentPCs, ParentFinal
<1>1. ASSUME NEW at, NEW expected, NEW next, AwaitMsg(at, expected, next),
             at \in Underway \ (BeforeRecord \cup Started \cup {"poststop"}),
             next \in (Underway \ (BeforeRecord \cup Started \cup {"poststop"})) \cup {"caught"}
      PROVE  ParentAdvances
  BY <1>1 DEF AwaitMsg
<1>2. ASSUME NEW at, NEW k, NEW next, SkipStage(at, k, next),
             at \in Underway \ (BeforeRecord \cup Started \cup {"poststop"}),
             next \in Underway \ (BeforeRecord \cup Started \cup {"poststop"})
      PROVE  ParentAdvances
  BY <1>2 DEF SkipStage
<1>3. ASSUME NEW at, NEW k, NEW msg, NEW next, ReportStage(at, k, msg, next),
             at \in Underway \ (BeforeRecord \cup Started \cup {"poststop"}),
             next \in Underway \ (BeforeRecord \cup Started \cup {"poststop"})
      PROVE  ParentAdvances
  BY <1>3 DEF ReportStage, SendToChild
<1>4. ASSUME NEW k \in {"prestart", "createRuntime", "poststart"}, NEW at, RunParentHook(at, k),
             at \in Underway \ (BeforeRecord \cup {"poststop"}),
             k = "poststart" => at = "poststart"
      PROVE  ParentAdvances
  BY <1>4 DEF RunParentHook, TypeOK, HookKinds
<1>5. CASE ConfigureNamespaces
  <2>1. CASE AwaitMsg("namespace", "namespace_ready", "configure")
    BY <1>1, <2>1
  <2>. QED BY <1>5, <2>1 DEF ConfigureNamespaces, SendToChild
<1>6. CASE PrestartHooks
  BY <1>1, <1>2, <1>3, <1>4, <1>6 DEF PrestartHooks
<1>7. CASE CreateRuntimeHooks
  BY <1>1, <1>2, <1>3, <1>4, <1>7 DEF CreateRuntimeHooks
<1>8. CASE WaitCreateContainerResult
  BY <1>1, <1>2, <1>8 DEF WaitCreateContainerResult
<1>9. CASE TakeConsole
  <2>1. CASE terminal
    BY <1>1, <1>9, <2>1 DEF TakeConsole
  <2>2. CASE ~terminal
    BY <1>9, <2>2 DEF TakeConsole
  <2>. QED BY <2>1, <2>2
<1>10. CASE WaitContainerStarted
  <2>1. CASE AwaitMsg("exec_ready", "exec_ready", "close")
    BY <1>1, <2>1
  <2>2. CASE WaitForClose
    BY <2>2 DEF WaitForClose
  <2>. QED BY <1>10, <2>1, <2>2 DEF WaitContainerStarted
<1>11. CASE PoststartHooks
  <2>1. CASE RunParentHook("poststart", "poststart")
    BY <1>4, <2>1
  <2>. QED BY <1>11, <2>1 DEF PoststartHooks
<1>12. CASE ForwardingThrows
  BY <1>12 DEF ForwardingThrows
<1>. QED
  BY <1>5, <1>6, <1>7, <1>8, <1>9, <1>10, <1>11, <1>12 DEF Parent

(* A parent that finds the stream closed has sent nothing the child did    *)
(* not read, and the fatal message of a failed child was the last to read. *)
LEMMA ClosedMeansStarted ==
  ASSUME TypeOK, OrderInv, RecordInv, AnsweredInv, FatalInv,
         ppc = "close", ParentEof, ~sawFatal
  PROVE  ready /\ EndClosed /\ cpc # "failed"
<1>1. ready /\ EndClosed
  BY DEF OrderInv, ParentKnows, ParentMayBe, ParentPastReady, ParentEof
<1>2. Len(toChild) = Sent("close") - Received("exec_ready")
  BY <1>1 DEF AnsweredInv, Underway, ParentPCs, ParentFinal
<1>3. Sent("close") = Received("exec_ready")
  BY DEF Sent, Received, One, ParentPastPrestart, ParentPastRuntime, ParentPastReady,
         PastNamespace, PastPrestart, PastRuntime, PastCreate, PastStart
<1>4. Sent("close") \in Int
  BY DEF Sent, One
<1>5. toChild = <<>>
  BY <1>2, <1>3, <1>4, EmptySeq DEF TypeOK
<1>6. toParent = <<>>
  BY <1>5 DEF ParentEof
<1>. QED BY <1>1, <1>6 DEF FatalInv, FatalLast

(* What the parent's place says of the record, the reaping and the result. *)
PlaceInv == RecordInv /\ ReapInv /\ ExitInv /\ StartedInv

LEMMA MoveKeepsPlace ==
  ASSUME TypeOK, OrderInv, LifeInv, ParentAdvances
  PROVE  PlaceInv'
<1>. USE DEF LifeInv, ParentAdvances, Underway, BeforeRecord, Started, ParentPCs, ParentFinal
<1>1. result = ExitFailure /\ status = "present" /\ cpc # "none" /\ ppc \in Underway
  BY DEF ExitInv, RecordInv
<1>2. RecordInv'
  BY <1>1 DEF RecordInv
<1>3. ReapInv'
  BY DEF ReapInv
<1>4. ExitInv'
  BY <1>1 DEF ExitInv
<1>5. StartedInv'
  <2>1. CASE ppc \in Started \/ ran["poststart"] > 0
    BY <2>1 DEF StartedInv, EndClosed
  <2>2. CASE ppc \notin Started /\ ~(ran["poststart"] > 0)
    <3>1. ~(ran["poststart"] > 0)'
      BY <2>2
    <3>2. ASSUME ppc' \in Started PROVE ready /\ EndClosed /\ cpc # "failed"
      BY <2>2, <3>2, ClosedMeansStarted
    <3>. QED BY <3>1, <3>2 DEF StartedInv, EndClosed
  <2>. QED BY <2>1, <2>2
<1>. QED BY <1>2, <1>3, <1>4, <1>5 DEF PlaceInv

(* The other steps of the parent.                                          *)
LEMMA ParentKeepsPlace ==
  ASSUME TypeOK, OrderInv, LifeInv,
         Parent \/ ForwardingThrows \/ RuntimeKilled
  PROVE  PlaceInv'
<1>. USE DEF LifeInv, configVars, childVars, Underway, BeforeRecord, Started,
             ParentPCs, ParentFinal, ChildDead
<1>1. CASE ParentAdvances
  BY <1>1, MoveKeepsPlace
<1>2. CASE SetSubreaper \/ StartContainerProcess \/ WriteStatus
  <2>1. /\ UNCHANGED <<hooks, ran, ready, code, reaped, result, configured>>
        /\ ppc \in BeforeRecord
        /\ ppc' \in BeforeRecord \cup {"thrown", "caught", "namespace"}
    BY <1>2 DEF SetSubreaper, StartContainerProcess, WriteStatus
  <2>2. result = ExitFailure
    BY <2>1 DEF ExitInv
  <2>3. RecordInv'
    BY <1>2 DEF RecordInv, SetSubreaper, StartContainerProcess, WriteStatus, EndClosed
  <2>4. ReapInv'
    BY <1>2, <2>1 DEF ReapInv, RecordInv, SetSubreaper, StartContainerProcess, WriteStatus
  <2>5. ExitInv'
    BY <1>2, <2>1, <2>2 DEF ExitInv, SetSubreaper, StartContainerProcess, WriteStatus
  <2>6. StartedInv'
    BY <1>2, <2>1 DEF StartedInv, RecordInv, SetSubreaper, StartContainerProcess, WriteStatus, EndClosed
  <2>. QED BY <2>3, <2>4, <2>5, <2>6 DEF PlaceInv
<1>3. CASE EnableSignalForwarding
  <2>1. /\ UNCHANGED <<hooks, cpc, ran, ready, code, result, configured, status>>
        /\ ppc = "signals" /\ ppc' \in {"wait_exit", "caught"}
        /\ reaped' = (cpc \in ChildDead) \/ reaped' = reaped
    BY <1>3 DEF EnableSignalForwarding
  <2>3. reaped' => cpc \in ChildDead
    BY <2>1 DEF ReapInv
  <2>4. reaped => reaped'
    <3>1. CASE reaped' = (cpc \in ChildDead)
      BY <3>1, Zenon DEF ReapInv
    <3>. QED BY <2>1, <3>1
  <2>2. result = ExitFailure
    BY <2>1 DEF ExitInv
  <2>. HIDE DEF ChildDead
  <2>. QED BY <2>1, <2>2, <2>3, <2>4
           DEF PlaceInv, RecordInv, ReapInv, ExitInv, StartedInv, EndClosed
<1>4. CASE WaitContainerExit
  <2>1. Done("poststart") /\ ready
    BY <1>4 DEF OrderInv, ParentKnows, ParentMayBe, ParentPastStart, ParentPastReady,
                WaitContainerExit
  <2>. QED BY <1>4, <2>1 DEF WaitContainerExit, PlaceInv, RecordInv, ReapInv, ExitInv,
                             StartedInv, EndClosed, Done, Configured
<1>5. CASE PoststopHooks
  <2>1. /\ UNCHANGED <<hooks, cpc, ready, code, reaped, result, configured, status>>
        /\ ppc = "poststop" /\ ppc' \in {"poststop", "killed", "remove"}
        /\ ran["poststart"]' = ran["poststart"]
        /\ ppc' = "remove" => Done("poststop") /\ UNCHANGED ran
    BY <1>5 DEF PoststopHooks, TypeOK, HookKinds
  <2>. QED BY <2>1 DEF PlaceInv, RecordInv, ReapInv, ExitInv, StartedInv, EndClosed,
                       Done, Configured
<1>6. CASE KillChild
  <2>1. /\ UNCHANGED <<hooks, ran, ready, result, configured, status>>
        /\ ppc = "caught" /\ ppc' = "remove"
    BY <1>6 DEF KillChild
  <2>2. result = ExitFailure /\ status # "removed"
    BY <2>1 DEF ExitInv, RecordInv
  <2>3. CASE cpc = "none" \/ reaped
    <3>1. UNCHANGED <<cpc, code, reaped>>
      BY <1>6, <2>3 DEF KillChild
    <3>. QED BY <2>1, <2>2, <2>3, <3>1 DEF PlaceInv, RecordInv, ReapInv, ExitInv, StartedInv, EndClosed
  <2>4. CASE ~(cpc = "none" \/ reaped)
    <3>1. /\ reaped'
          /\ \/ cpc \in ChildDead /\ UNCHANGED <<cpc, code>>
             \/ cpc \notin ChildDead /\ cpc' = "killed" /\ code' = KilledCode
      BY <1>6, <2>4 DEF KillChild
    <3>. QED BY <2>1, <2>2, <2>4, <3>1 DEF PlaceInv, RecordInv, ReapInv, ExitInv, StartedInv, EndClosed
  <2>. QED BY <2>3, <2>4
<1>7. CASE RemoveStatus
  BY <1>7 DEF RemoveStatus, PlaceInv, RecordInv, ReapInv, ExitInv, StartedInv, EndClosed,
              Done, Configured
<1>8. CASE RuntimeKilled
  BY <1>8 DEF RuntimeKilled, PlaceInv, RecordInv, ReapInv, ExitInv, StartedInv, EndClosed,
              Done, Configured
<1>. QED BY <1>1, <1>2, <1>3, <1>4, <1>5, <1>6, <1>7, <1>8, ParentShape

(* The steps of the child, however it lives or dies.                       *)
ChildAdvances ==
  /\ UNCHANGED <<hooks, ppc, configured, status, sawFatal, result, reaped>>
  /\ \A k \in {"poststart", "poststop"} : ran[k]' = ran[k]
  /\ cpc \in ChildAlive /\ cpc' \in ChildPCs \ {"none"}
  /\ cpc' \in ChildDead \/ UNCHANGED code
  /\ cpc' = "failed" => cpc = "exiting" /\ code' = ExitFailure
  /\ cpc' = "killed" => code' = KilledCode
  /\ cpc = "running" => cpc' = "exited"
  /\ \/ SendExecReady
     \/ /\ UNCHANGED ready
        /\ cpc' \in {"exec", "running"} => cpc \in {"exec", "running"}
  /\ cpc \in {"exec", "running"} => cpc' \in {"running", "failing"} \cup ChildDead
  /\ cpc \in {"failing", "exiting"} => cpc' \in {"exiting"} \cup ChildDead

LEMMA ChildShape ==
  ASSUME TypeOK, Child \/ ContainerExits \/ ChildKilled
  PROVE  ChildAdvances
<1>. USE DEF ChildAdvances, configVars, parentVars, ChildPCs, ChildAlive, ChildSetup, ChildDead
<1>1. ASSUME NEW at, NEW msg, NEW next, Announce(at, msg, next),
             \/ at \in ChildSetup \ {"exec"} /\ next \in ChildSetup \ {"exec"}
             \/ at = "failing" /\ next = "exiting"
      PROVE  ChildAdvances
  BY <1>1 DEF Announce
<1>2. ASSUME NEW at \in ChildSetup, NEW expected, NEW next \in ChildSetup \ {"exec"},
             at # "exec", ExpectStage(at, expected, next)
      PROVE  ChildAdvances
  BY <1>2 DEF ExpectStage
<1>3. ASSUME NEW at, NEW next, SetUp(at, next),
             \/ at \in ChildSetup \ {"exec"} /\ next \in (ChildSetup \ {"exec"}) \cup {"failing"}
             \/ at = "exec" /\ next = "running"
      PROVE  ChildAdvances
  BY <1>3 DEF SetUp
<1>4. ASSUME NEW at \in ChildSetup, NEW k, NEW next \in ChildSetup \ {"exec"},
             at # "exec", ChildSkips(at, k, next)
      PROVE  ChildAdvances
  BY <1>4 DEF ChildSkips
<1>5. ASSUME NEW at \in ChildSetup, NEW k \in SetUpStages, at # "exec",
             RunChildHook(at, k)
      PROVE  ChildAdvances
  BY <1>5 DEF RunChildHook, TypeOK, SetUpStages, HookKinds
<1>6. CASE Child
  <2>1. CASE InitializeContainer \/ WaitPrestartHooksResult \/ WaitCreateRuntimeResult
    BY <2>1, <1>1, <1>2, <1>4
    DEF InitializeContainer, WaitPrestartHooksResult, WaitCreateRuntimeResult
  <2>2. CASE ReadStatus \/ SendExecReady
    BY <2>2 DEF ReadStatus, SendExecReady
  <2>3. CASE CreateContainerHooks \/ StartContainerHooks
    BY <2>3, <1>1, <1>3, <1>4, <1>5
    DEF CreateContainerHooks, StartContainerHooks, SetUpStages
  <2>4. CASE ConfigureMounts \/ PivotRoot \/ ConfigureTerminal \/ ApplyPrivileges
              \/ ExecuteProcess \/ LogFatal
    BY <2>4, <1>1, <1>3 DEF ConfigureMounts, PivotRoot, ConfigureTerminal,
                            ApplyPrivileges, ExecuteProcess, LogFatal
  <2>5. CASE ExitFailed
    BY <2>5 DEF ExitFailed, ChildDies
  <2>. QED BY <1>6, <2>1, <2>2, <2>3, <2>4, <2>5 DEF Child
<1>7. CASE ContainerExits \/ ChildKilled
  BY <1>7 DEF ContainerExits, ChildKilled, ChildDies
<1>. QED BY <1>6, <1>7

LEMMA ChildKeepsPlace ==
  ASSUME TypeOK, LifeInv, ChildAdvances
  PROVE  PlaceInv'
<1>. USE DEF LifeInv, ChildAdvances, Underway, BeforeRecord, Started, ParentPCs, ParentFinal,
             ChildPCs, ChildAlive, ChildSetup, ChildDead
<1>1. ~reaped /\ result = ExitFailure /\ cpc # "none"
  BY DEF ReapInv, ExitInv
<1>0. SendExecReady => cpc = "exec_ready" /\ cpc' = "exec" /\ ready' /\ ran' = ran
  BY DEF SendExecReady
<1>2. RecordInv'
  BY <1>0, <1>1 DEF RecordInv
<1>3. ReapInv'
  BY <1>1 DEF ReapInv
<1>4. ExitInv'
  BY <1>1 DEF ExitInv
<1>5. StartedInv'
  BY <1>0, <1>1 DEF StartedInv, EndClosed
<1>. QED BY <1>2, <1>3, <1>4, <1>5 DEF PlaceInv

(* The parent's sends and the child's receptions balance.                  *)
LEMMA CountsAreNumbers ==
  ASSUME TypeOK
  PROVE  /\ \A p : Sent(p) \in Int
         /\ \A c : Received(c) \in Int
         /\ Len(toChild) \in Int
BY LenProperties DEF Sent, Received, One, TypeOK

(* A step of the parent that sends as many datagrams as its place says.    *)
LEMMA ParentKeepsBalance ==
  ASSUME TypeOK, TypeOK', AnsweredInv, UNCHANGED <<hooks, cpc, ready>>,
         ppc' \in Underway => /\ ppc \in Underway
                              /\ Len(toChild') - Sent(ppc') = Len(toChild) - Sent(ppc)
  PROVE  AnsweredInv'
<1>1. /\ Sent(ppc)' = Sent(ppc')
      /\ Received(cpc)' = Received(cpc)
      /\ Received("exec_ready")' = Received("exec_ready")
  BY DEF Sent, Received, Configured
<1>2. /\ Sent(ppc') \in Int /\ Sent(ppc) \in Int
      /\ Received(cpc) \in Int /\ Received("exec_ready") \in Int
      /\ Len(toChild) \in Int
  BY CountsAreNumbers
<1>3. Len(toChild') \in Int
  BY LenProperties DEF TypeOK
<1>. QED BY <1>1, <1>2, <1>3 DEF AnsweredInv, Configured, Underway

(* What each place of the parent has sent.                                 *)
LEMMA SentByPlace ==
  /\ \A p \in BeforeRecord \cup {"namespace", "configure"} : Sent(p) = 0
  /\ Sent("prestart") = 1 /\ Sent("run_prestart") = 1
  /\ Sent("createruntime") = IF Configured("prestart") THEN 2 ELSE 1
  /\ Sent("run_createruntime") = Sent("createruntime")
  /\ \A p \in ParentPastRuntime :
       Sent(p) = IF Configured("createRuntime") THEN Sent("createruntime") + 1
                 ELSE Sent("createruntime")
BY DEF Sent, One, BeforeRecord, ParentPastPrestart, ParentPastRuntime, ParentPastReady,
       ParentPastStart

(* Between two places with the same count nothing is sent.                 *)
Settled(p, q) == q \in Underway => p \in Underway /\ Sent(p) = Sent(q)

LEMMA ParentSilent ==
  ASSUME TypeOK, TypeOK', AnsweredInv, UNCHANGED <<hooks, cpc, ready, toChild>>,
         Settled(ppc, ppc')
  PROVE  AnsweredInv'
<1>1. /\ Sent(ppc') \in Int /\ Sent(ppc) \in Int /\ Len(toChild) \in Int
  BY CountsAreNumbers
<1>. QED BY <1>1, ParentKeepsBalance DEF Settled

LEMMA ParentSends ==
  ASSUME TypeOK, TypeOK', AnsweredInv, UNCHANGED <<hooks, cpc, ready>>,
         NEW msg \in ParentMsgs, NEW next, SendToChild(msg, next),
         ppc \in Underway, Sent(next) = Sent(ppc) + 1
  PROVE  AnsweredInv'
<1>1. /\ Sent(ppc') \in Int /\ Sent(ppc) \in Int /\ Len(toChild) \in Int
  BY CountsAreNumbers
<1>2. CASE ppc' = "caught"
  BY <1>2, ParentKeepsBalance DEF Underway
<1>3. CASE toChild' = Append(toChild, msg) /\ ppc' = next
  <2>1. Len(toChild') = Len(toChild) + 1
    BY <1>3, SendTypes DEF TypeOK
  <2>. QED BY <1>1, <1>3, <2>1, ParentKeepsBalance
<1>. QED BY <1>2, <1>3 DEF SendToChild

LEMMA ParentAnswered ==
  ASSUME TypeOK, TypeOK', LifeInv, Parent \/ ForwardingThrows \/ RuntimeKilled
  PROVE  AnsweredInv'
<1>. USE DEF LifeInv, configVars, childVars
<1>0. /\ "caught" \notin Underway
      /\ \A f \in ParentFinal \cup {"remove"} : f \notin Underway
      /\ BeforeRecord \cup {"namespace", "configure", "prestart", "run_prestart",
           "createruntime", "run_createruntime"} \cup ParentPastRuntime \subseteq Underway
      /\ {"createcontainer", "console", "exec_ready", "close", "poststart", "signals",
           "wait_exit", "poststop"} = ParentPastRuntime
      /\ {"prestart_done", "createruntime_done", "namespace_done"} \subseteq ParentMsgs
  BY DEF Underway, ParentPCs, ParentFinal, BeforeRecord, ParentPastRuntime, ParentPastReady,
         ParentPastStart, ParentMsgs
<1>1. ASSUME NEW at, NEW expected, NEW next, AwaitMsg(at, expected, next), Settled(at, next),
             at \in Underway
      PROVE  AnsweredInv'
  BY <1>0, <1>1, ParentSilent DEF AwaitMsg, Settled
<1>2. ASSUME NEW at, NEW k, NEW next, SkipStage(at, k, next), ~Configured(k) => Settled(at, next)
      PROVE  AnsweredInv'
  BY <1>2, ParentSilent DEF SkipStage
<1>3. ASSUME NEW at \in Underway, NEW k \in HookKinds, NEW msg \in ParentMsgs, NEW next,
             ReportStage(at, k, msg, next), Configured(k) => Sent(next) = Sent(at) + 1
      PROVE  AnsweredInv'
  <2>1. ran[k] \in Nat /\ ran[k] = hooks[k]
    BY <1>3 DEF ReportStage, TypeOK
  <2>2. Configured(k)
    BY <2>1 DEF Configured, Absent
  <2>. QED BY <1>3, <2>2, ParentSends DEF ReportStage
<1>4. ASSUME NEW k, NEW at, RunParentHook(at, k) PROVE AnsweredInv'
  BY <1>0, <1>4, ParentSilent DEF RunParentHook, Settled
<1>5. CASE SetSubreaper \/ WriteStatus
  <2>1. Settled(ppc, ppc')
    BY <1>0, <1>5, SentByPlace DEF SetSubreaper, WriteStatus, Settled, ParentFinal, BeforeRecord
  <2>. QED BY <1>5, <2>1, ParentSilent DEF SetSubreaper, WriteStatus
<1>6. CASE StartContainerProcess
  <2>1. Sent("clone") = 0 /\ Sent("write_status") = 0 /\ cpc = "none" /\ ~ready
    BY <1>6, SentByPlace DEF BeforeRecord, RecordInv, StartContainerProcess, ChildDead
  <2>2. CASE UNCHANGED cpc
    <3>1. Settled(ppc, ppc')
      BY <1>0, <1>6, <2>1 DEF StartContainerProcess, Settled, BeforeRecord
    <3>. QED BY <1>6, <2>2, <3>1, ParentSilent DEF StartContainerProcess
  <2>3. CASE cpc' = "namespace_ready" /\ ppc' = "write_status"
    <3>1. Received("none") = 0 /\ Received("namespace_ready") = 0
      BY DEF Received, One, PastNamespace, PastPrestart, PastRuntime, PastCreate, PastStart
    <3>2. Len(toChild) = 0 /\ toChild' = toChild /\ ~ready'
      BY <1>0, <1>6, <2>1, <3>1 DEF StartContainerProcess, AnsweredInv, BeforeRecord
    <3>3. Sent(ppc)' = 0 /\ Received(cpc)' = 0
      BY <1>6, <2>1, <2>3, <3>1 DEF StartContainerProcess, Sent, Received, Configured
    <3>. QED BY <2>3, <3>2, <3>3 DEF AnsweredInv
  <2>. QED BY <1>6, <2>2, <2>3 DEF StartContainerProcess
<1>7. CASE ConfigureNamespaces
  <2>1. CASE AwaitMsg("namespace", "namespace_ready", "configure")
    BY <1>0, <1>1, <2>1, SentByPlace DEF Settled
  <2>2. CASE SendToChild("namespace_done", "prestart") /\ ppc = "configure"
    BY <1>0, <1>7, <2>2, SentByPlace, ParentSends DEF ConfigureNamespaces, AwaitMsg
  <2>3. CASE ppc' = "caught" /\ UNCHANGED <<hooks, cpc, ready, toChild>>
    BY <1>0, <2>3, ParentSilent DEF Settled
  <2>. QED BY <1>7, <2>1, <2>2, <2>3 DEF ConfigureNamespaces
<1>8. CASE PrestartHooks
  <2>1. ~Configured("prestart") => Settled("prestart", "createruntime")
    BY <1>0, SentByPlace DEF Settled
  <2>2. Settled("prestart", "run_prestart")
    BY <1>0, SentByPlace DEF Settled
  <2>3. Configured("prestart") => Sent("createruntime") = Sent("run_prestart") + 1
    BY SentByPlace
  <2>. QED BY <1>0, <1>1, <1>2, <1>3, <1>4, <1>8, <2>1, <2>2, <2>3
           DEF PrestartHooks, HookKinds
<1>9. CASE CreateRuntimeHooks
  <2>1. ~Configured("createRuntime") => Settled("createruntime", "createcontainer")
    BY <1>0, SentByPlace DEF Settled
  <2>2. Settled("createruntime", "run_createruntime")
    BY <1>0, SentByPlace DEF Settled
  <2>3. Configured("createRuntime") => Sent("createcontainer") = Sent("run_createruntime") + 1
    BY <1>0, SentByPlace
  <2>. QED BY <1>0, <1>1, <1>2, <1>3, <1>4, <1>9, <2>1, <2>2, <2>3
           DEF CreateRuntimeHooks, HookKinds
<1>10. ASSUME NEW p \in ParentPastRuntime,
              NEW q \in ParentPastRuntime \cup {"caught", "remove"} \cup ParentFinal
       PROVE  Settled(p, q)
  BY <1>0, <1>10, SentByPlace DEF Settled
<1>11. CASE WaitCreateContainerResult \/ TakeConsole \/ WaitContainerStarted
  <2>1. ASSUME NEW at \in ParentPastRuntime, NEW expected,
               NEW next \in ParentPastRuntime \cup {"caught"},
               AwaitMsg(at, expected, next)
        PROVE  AnsweredInv'
    BY <1>0, <1>1, <1>10, <2>1
  <2>2. ASSUME NEW at \in ParentPastRuntime, NEW k, NEW next \in ParentPastRuntime,
               SkipStage(at, k, next)
        PROVE  AnsweredInv'
    BY <1>2, <1>10, <2>2
  <2>3. CASE WaitCreateContainerResult
    BY <1>0, <2>1, <2>2, <2>3 DEF WaitCreateContainerResult
  <2>4. CASE TakeConsole /\ terminal
    BY <1>0, <2>1, <2>4 DEF TakeConsole
  <2>5. CASE TakeConsole /\ ~terminal
    BY <1>0, <1>10, <2>5, ParentSilent DEF TakeConsole
  <2>6. CASE WaitContainerStarted
    <3>1. CASE AwaitMsg("exec_ready", "exec_ready", "close")
      BY <1>0, <2>1, <3>1
    <3>2. CASE WaitForClose
      <4>1. ppc \in ParentPastRuntime /\ ppc' \in ParentPastRuntime \cup {"caught"}
        BY <1>0, <3>2 DEF WaitForClose
      <4>. QED BY <1>10, <3>2, <4>1, ParentSilent DEF WaitForClose
    <3>. QED BY <2>6, <3>1, <3>2 DEF WaitContainerStarted
  <2>. QED BY <1>11, <2>3, <2>4, <2>5, <2>6
<1>12. CASE PoststartHooks
  <2>1. CASE RunParentHook("poststart", "poststart")
    BY <1>4, <2>1
  <2>2. CASE ppc = "poststart" /\ ppc' = "signals" /\ UNCHANGED <<hooks, cpc, ready, toChild>>
    BY <1>0, <1>10, <2>2, ParentSilent
  <2>. QED BY <1>12, <2>1, <2>2 DEF PoststartHooks
<1>13. CASE EnableSignalForwarding \/ WaitContainerExit \/ PoststopHooks \/ ForwardingThrows
  <2>1. /\ UNCHANGED <<hooks, cpc, ready, toChild>>
        /\ ppc \in ParentPastRuntime
        /\ ppc' \in ParentPastRuntime \cup {"caught", "remove"} \cup ParentFinal
    BY <1>0, <1>13 DEF EnableSignalForwarding, WaitContainerExit, PoststopHooks,
                       ForwardingThrows, ParentFinal
  <2>. QED BY <1>10, <2>1, ParentSilent
<1>14. CASE KillChild
  <2>1. /\ UNCHANGED hooks /\ ppc' = "remove"
        /\ cpc' = cpc \/ cpc' = "killed"
    BY <1>14 DEF KillChild
  <2>. QED BY <1>0, <2>1 DEF AnsweredInv, Configured
<1>15. CASE RemoveStatus \/ RuntimeKilled
  <2>1. UNCHANGED <<hooks, cpc, ready, toChild>> /\ ppc' \in ParentFinal
    BY <1>15 DEF RemoveStatus, RuntimeKilled, ParentFinal
  <2>. QED BY <1>0, <2>1, ParentSilent DEF Settled
<1>. QED
  BY <1>5, <1>6, <1>7, <1>8, <1>9, <1>11, <1>12, <1>13, <1>14, <1>15 DEF Parent

(* A step of the child that receives what its place says, and waits for an *)
(* answer only where one is due.                                           *)
LEMMA ChildKeepsBalance ==
  ASSUME TypeOK, TypeOK', AnsweredInv, UNCHANGED <<hooks, ppc>>,
         cpc' = "wait_prestart" => Configured("prestart"),
         cpc' = "wait_createruntime" => Configured("createRuntime"),
         cpc' \in ChildSetup =>
           /\ cpc \in ChildSetup
           /\ Len(toChild') + Received(cpc') = Len(toChild) + Received(cpc),
         ready' => \/ ready /\ UNCHANGED toChild
                   \/ cpc = "exec_ready" /\ UNCHANGED toChild,
         cpc' # "none"
  PROVE  AnsweredInv'
<1>1. /\ Sent(ppc)' = Sent(ppc)
      /\ Received(cpc)' = Received(cpc')
      /\ Received("exec_ready")' = Received("exec_ready")
  BY DEF Sent, Received, Configured
<1>2. /\ Sent(ppc) \in Int /\ Len(toChild) \in Int
      /\ \A c : Received(c) \in Int
  BY CountsAreNumbers
<1>3. Len(toChild') \in Int
  BY LenProperties DEF TypeOK
<1>4. ASSUME ppc \in Underway, cpc' \in ChildSetup
      PROVE  Len(toChild') = Sent(ppc) - Received(cpc')
  BY <1>2, <1>3, <1>4 DEF AnsweredInv
<1>5. ASSUME ppc \in Underway, ready'
      PROVE  Len(toChild') = Sent(ppc) - Received("exec_ready")
  BY <1>5 DEF AnsweredInv, ChildSetup
<1>. QED BY <1>1, <1>4, <1>5 DEF AnsweredInv, Configured, Underway

(* What each place of the child has received.                              *)
LEMMA ReceivedByPlace ==
  /\ Received("namespace_ready") = 0 /\ Received("wait_namespace") = 0
  /\ \A c \in {"mounts", "prestart", "wait_prestart"} : Received(c) = 1
  /\ \A c \in {"createruntime", "wait_createruntime"} :
       Received(c) = IF Configured("prestart") THEN 2 ELSE 1
  /\ \A c \in PastRuntime :
       Received(c) = IF Configured("createRuntime") THEN Received("createruntime") + 1
                     ELSE Received("createruntime")
BY DEF Received, One, PastNamespace, PastPrestart, PastRuntime, PastCreate, PastStart

(* The steps of the child that receive nothing.                            *)
LEMMA ChildSilent ==
  ASSUME TypeOK, TypeOK', AnsweredInv, UNCHANGED <<hooks, ppc, ready, toChild>>,
         cpc' = "wait_prestart" => Configured("prestart"),
         cpc' = "wait_createruntime" => Configured("createRuntime"),
         cpc' # "none",
         cpc' \in ChildSetup => cpc \in ChildSetup /\ Received(cpc') = Received(cpc)
  PROVE  AnsweredInv'
BY CountsAreNumbers, ChildKeepsBalance

LEMMA ChildReceives ==
  ASSUME TypeOK, TypeOK', AnsweredInv, RecordInv, NEW at, NEW expected, NEW next,
         ExpectStage(at, expected, next), at \in ChildSetup \ {"exec"},
         next \in PastNamespace \ {"wait_prestart", "wait_createruntime"},
         Received(next) = Received(at) + 1
  PROVE  AnsweredInv'
<1>1. /\ UNCHANGED <<hooks, ppc, ready>> /\ cpc = at
      /\ toChild # <<>> /\ toChild' = Tail(toChild)
      /\ cpc' = next \/ cpc' = "failing"
  BY DEF ExpectStage, configVars, parentVars
<1>2. Len(toChild') = Len(toChild) - 1 /\ Len(toChild) \in Int
  BY <1>1, ReceiveTypes DEF TypeOK
<1>3. ~ready' /\ "failing" \notin ChildSetup /\ next # "none"
  BY <1>1 DEF RecordInv, ChildSetup, ChildDead, PastNamespace, PastPrestart, PastRuntime,
              PastCreate, PastStart
<1>4. Received(at) \in Int
  BY CountsAreNumbers
<1>5. cpc' \in ChildSetup =>
        /\ cpc \in ChildSetup
        /\ Len(toChild') + Received(cpc') = Len(toChild) + Received(cpc)
  BY <1>1, <1>2, <1>3, <1>4
<1>6. cpc' \notin {"wait_prestart", "wait_createruntime", "none"}
  BY <1>1, <1>3
<1>. QED BY <1>1, <1>3, <1>5, <1>6, ChildKeepsBalance

LEMMA ChildAnswered ==
  ASSUME TypeOK, TypeOK', LifeInv,
         Child \/ ContainerExits \/ ChildKilled \/ ForwardLog
  PROVE  AnsweredInv'
<1>. USE DEF LifeInv, configVars, parentVars
<1>0. /\ \A c \in {"failing", "exiting", "running"} \cup ChildDead : c \notin ChildSetup
      /\ ChildSetup = {"namespace_ready", "wait_namespace", "mounts", "prestart",
                       "wait_prestart", "createruntime", "wait_createruntime"}
                      \cup (PastRuntime \ {"running", "exited"})
      /\ PastRuntime = {"read_status", "createcontainer", "pivot_root", "terminal",
                        "privileges", "startcontainer", "exec_ready", "exec",
                        "running", "exited"}
      /\ "none" \notin ChildSetup \cup ChildDead
  BY DEF ChildSetup, ChildDead, PastRuntime, PastCreate, PastStart
<1>1. ASSUME NEW at \in PastRuntime \ {"running", "exited"}, NEW next \in PastRuntime
      PROVE  at \in ChildSetup /\ Received(at) = Received(next)
  BY <1>0, <1>1, ReceivedByPlace
<1>2. CASE InitializeContainer
  <2>1. CASE Announce("namespace_ready", "namespace_ready", "wait_namespace")
    BY <1>0, <2>1, ReceivedByPlace, ChildSilent DEF Announce
  <2>2. CASE ExpectStage("wait_namespace", "namespace_done", "mounts")
    BY <1>0, <2>2, ReceivedByPlace, ChildReceives DEF PastNamespace
  <2>. QED BY <1>2, <2>1, <2>2 DEF InitializeContainer
<1>3. CASE ConfigureMounts
  BY <1>0, <1>3, ReceivedByPlace, ChildSilent DEF ConfigureMounts, SetUp
<1>4. CASE WaitPrestartHooksResult
  <2>1. CASE ChildSkips("prestart", "prestart", "createruntime")
    BY <1>0, <2>1, ReceivedByPlace, ChildSilent DEF ChildSkips
  <2>2. CASE Configured("prestart") /\ Announce("prestart", "prestart_ready", "wait_prestart")
    BY <1>0, <2>2, ReceivedByPlace, ChildSilent DEF Announce
  <2>3. CASE ExpectStage("wait_prestart", "prestart_done", "createruntime")
    <3>1. Configured("prestart")
      BY <2>3 DEF AnsweredInv, ExpectStage
    <3>2. Received("createruntime") = Received("wait_prestart") + 1
      BY <3>1, ReceivedByPlace
    <3>. QED BY <1>0, <2>3, <3>2, ChildReceives DEF PastNamespace, PastPrestart
  <2>. QED BY <1>4, <2>1, <2>2, <2>3 DEF WaitPrestartHooksResult
<1>5. CASE WaitCreateRuntimeResult
  <2>1. CASE ChildSkips("createruntime", "createRuntime", "read_status")
    BY <1>0, <2>1, ReceivedByPlace, ChildSilent DEF ChildSkips
  <2>2. CASE Configured("createRuntime")
             /\ Announce("createruntime", "createruntime_ready", "wait_createruntime")
    BY <1>0, <2>2, ReceivedByPlace, ChildSilent DEF Announce
  <2>3. CASE ExpectStage("wait_createruntime", "createruntime_done", "read_status")
    <3>1. Configured("createRuntime")
      BY <2>3 DEF AnsweredInv, ExpectStage
    <3>2. Received("read_status") = Received("wait_createruntime") + 1
      BY <1>0, <3>1, ReceivedByPlace
    <3>. QED BY <1>0, <2>3, <3>2, ChildReceives DEF PastNamespace, PastPrestart
  <2>. QED BY <1>5, <2>1, <2>2, <2>3 DEF WaitCreateRuntimeResult
<1>6. ASSUME NEW at \in PastRuntime \ {"running", "exited"},
             NEW next \in PastRuntime \cup {"failing"}, NEW msg,
             \/ SetUp(at, next) \/ Announce(at, msg, next)
             \/ \E k : ChildSkips(at, k, next) \/ RunChildHook(at, k)
      PROVE  AnsweredInv'
  <2>1. /\ UNCHANGED <<hooks, ppc, ready, toChild>>
        /\ cpc = at /\ cpc' \in {at, next, "failing"}
    BY <1>6 DEF SetUp, Announce, ChildSkips, RunChildHook
  <2>2. cpc' \in ChildSetup => cpc \in ChildSetup /\ Received(cpc') = Received(cpc)
    BY <1>0, <1>1, <2>1
  <2>3. cpc' \notin {"wait_prestart", "wait_createruntime", "none"}
    BY <1>0, <2>1
  <2>. QED BY <2>1, <2>2, <2>3, ChildSilent
<1>7. CASE ReadStatus
  <2>1. UNCHANGED <<hooks, ppc, ready, toChild>> /\ cpc = "read_status"
        /\ cpc' \in {"createcontainer", "failing"}
    BY <1>7 DEF ReadStatus
  <2>2. cpc' \in ChildSetup => cpc \in ChildSetup /\ Received(cpc') = Received(cpc)
    BY <1>0, <1>1, <2>1
  <2>. QED BY <2>1, <2>2, ChildSilent
<1>8. CASE CreateContainerHooks \/ StartContainerHooks
  BY <1>0, <1>6, <1>8 DEF CreateContainerHooks, StartContainerHooks
<1>9. CASE PivotRoot \/ ConfigureTerminal \/ ApplyPrivileges \/ ExecuteProcess
  BY <1>0, <1>6, <1>9 DEF PivotRoot, ConfigureTerminal, ApplyPrivileges, ExecuteProcess
<1>10. CASE SendExecReady
  <2>1. /\ UNCHANGED <<hooks, ppc, toChild>> /\ cpc = "exec_ready" /\ cpc' = "exec"
    BY <1>10 DEF SendExecReady
  <2>2. cpc \in ChildSetup /\ Received(cpc') = Received(cpc)
    BY <1>0, <1>1, <2>1
  <2>. QED BY <2>1, <2>2, ChildKeepsBalance
<1>11. CASE LogFatal \/ ExitFailed \/ ContainerExits \/ ChildKilled
  <2>1. /\ UNCHANGED <<hooks, ppc, ready, toChild>>
        /\ cpc' \in {"exiting"} \cup ChildDead
    BY <1>11 DEF LogFatal, Announce, ExitFailed, ContainerExits, ChildKilled, ChildDies, ChildDead
  <2>2. cpc' \notin ChildSetup \cup {"none", "wait_prestart", "wait_createruntime"}
    BY <1>0, <2>1
  <2>. QED BY <2>1, <2>2, ChildSilent
<1>12. CASE ForwardLog
  <2>1. UNCHANGED <<hooks, ppc, ready, toChild, cpc>> /\ cpc \in ChildSetup
    BY <1>12 DEF ForwardLog
  <2>2. cpc # "none" /\ (cpc = "wait_prestart" => Configured("prestart"))
        /\ (cpc = "wait_createruntime" => Configured("createRuntime"))
    BY <1>0, <2>1 DEF AnsweredInv
  <2>. QED BY <2>1, <2>2, ChildSilent
<1>. QED
  BY <1>2, <1>3, <1>4, <1>5, <1>7, <1>8, <1>9, <1>10, <1>11, <1>12 DEF Child

(* Reading the oldest datagram leaves the newest the newest.               *)
LEMMA LastStays ==
  ASSUME TypeOK, toParent # <<>>, FatalLast
  PROVE  \/ Tail(toParent) = <<>> /\ Head(toParent) = "fatal"
         \/ Tail(toParent) # <<>> /\ Tail(toParent)[Len(Tail(toParent))] = "fatal"
<1>1. /\ Len(toParent) \in Nat \ {0} /\ Len(Tail(toParent)) = Len(toParent) - 1
      /\ Head(toParent) = toParent[1]
      /\ \A i \in 1..(Len(toParent) - 1) : Tail(toParent)[i] = toParent[i + 1]
      /\ Tail(toParent) \in Seq(ChildMsgs)
  BY HeadTailProperties, LenProperties, EmptySeq DEF TypeOK
<1>2. CASE Len(toParent) = 1
  <2>1. Len(Tail(toParent)) = 0
    BY <1>1, <1>2
  <2>2. Tail(toParent) = <<>>
    BY <1>1, <2>1, EmptySeq
  <2>. QED BY <1>1, <1>2, <2>2 DEF FatalLast
<1>3. CASE Len(toParent) # 1
  <2>1. Len(toParent) - 1 \in 1..(Len(toParent) - 1) /\ Len(toParent) - 1 # 0
    BY <1>1, <1>3
  <2>2. Tail(toParent) # <<>>
    BY <1>1, <2>1, EmptySeq
  <2>. QED BY <1>1, <2>1, <2>2 DEF FatalLast
<1>. QED BY <1>2, <1>3

(* The parent: only reading exec_ready brings it to "close", and only      *)
(* there does it forget a fatal message it reads.                          *)
LEMMA ParentFatal ==
  ASSUME TypeOK, LifeInv, Parent \/ ForwardingThrows \/ RuntimeKilled
  PROVE  FatalInv'
<1>. USE DEF LifeInv, configVars, childVars
<1>0. ASSUME UNCHANGED <<cpc, sawFatal>>, toParent' = toParent, ppc' # "close" \/ ppc = "close"
      PROVE  FatalInv'
  BY <1>0 DEF FatalInv, FatalLast, Holds
<1>1. ASSUME NEW at, NEW expected, NEW next, AwaitMsg(at, expected, next),
             next = "close" => expected = "exec_ready", at # "close", next # at
      PROVE  FatalInv'
  <2>1. UNCHANGED <<cpc, sawFatal>>
    BY <1>1 DEF AwaitMsg
  <2>2. CASE UNCHANGED toParent /\ ppc' = "caught"
    BY <1>0, <2>1, <2>2
  <2>3. CASE /\ toParent # <<>> /\ toParent' = Tail(toParent)
             /\ ppc' = "close" => Head(toParent) = "exec_ready"
    <3>1. SUFFICES ASSUME cpc \in {"exiting", "failed"},
                          (ppc = "close")' \/ Holds(Tail(toParent), "exec_ready")
                   PROVE  sawFatal \/ FatalLast'
      BY <2>1, <2>3 DEF FatalInv, Holds
    <3>2. Holds(toParent, "exec_ready") /\ ~(Head(toParent) = "fatal" /\ Tail(toParent) = <<>>)
      <4>1. CASE ppc' = "close"
        BY <2>3, <4>1, ReceiveHolds DEF TypeOK
      <4>2. CASE Holds(Tail(toParent), "exec_ready")
        <5>1. Tail(toParent) # <<>>
          <6>1. ~Holds(<<>>, "exec_ready")
            BY EmptySeq DEF Holds
          <6>. QED BY <4>2, <6>1
        <5>. QED BY <2>3, <4>2, <5>1, ReceiveHolds DEF TypeOK
      <4>. QED BY <3>1, <4>1, <4>2
    <3>. QED BY <2>3, <3>1, <3>2, LastStays DEF FatalInv, FatalLast
  <2>. QED BY <1>1, <2>2, <2>3 DEF AwaitMsg
<1>2. ASSUME NEW at, NEW k, NEW next, NEW msg,
             \/ SkipStage(at, k, next) /\ next # "close"
             \/ RunParentHook(at, k)
             \/ ReportStage(at, k, msg, next) /\ next # "close"
      PROVE  FatalInv'
  BY <1>0, <1>2 DEF SkipStage, RunParentHook, ReportStage, SendToChild
<1>3. CASE SetSubreaper \/ WriteStatus
  BY <1>0, <1>3 DEF SetSubreaper, WriteStatus
<1>4. CASE StartContainerProcess
  BY <1>0, <1>4 DEF StartContainerProcess, FatalInv
<1>5. CASE ConfigureNamespaces
  <2>1. CASE AwaitMsg("namespace", "namespace_ready", "configure")
    BY <1>1, <2>1
  <2>. QED BY <1>0, <1>5, <2>1 DEF ConfigureNamespaces, SendToChild
<1>6. CASE PrestartHooks \/ CreateRuntimeHooks
  <2>1. CASE PrestartHooks
    BY <1>1, <1>2, <2>1 DEF PrestartHooks
  <2>2. CASE CreateRuntimeHooks
    BY <1>1, <1>2, <2>2 DEF CreateRuntimeHooks
  <2>. QED BY <1>6, <2>1, <2>2
<1>7. CASE WaitCreateContainerResult
  BY <1>1, <1>2, <1>7 DEF WaitCreateContainerResult
<1>8. CASE TakeConsole
  <2>1. CASE terminal
    BY <1>1, <1>8, <2>1 DEF TakeConsole
  <2>2. CASE ~terminal
    BY <1>0, <1>8, <2>2 DEF TakeConsole
  <2>. QED BY <2>1, <2>2
<1>9. CASE WaitContainerStarted
  <2>1. CASE AwaitMsg("exec_ready", "exec_ready", "close")
    BY <1>1, <2>1
  <2>2. CASE WaitForClose /\ ParentEof
    BY <1>0, <2>2 DEF WaitForClose
  <2>3. CASE WaitForClose /\ ~ParentEof
    <3>1. /\ ppc = "close" /\ UNCHANGED cpc
          /\ toParent # <<>> /\ toParent' = Tail(toParent)
          /\ sawFatal' = IF Head(toParent) = "fatal" THEN TRUE ELSE sawFatal
      BY <2>3 DEF WaitForClose
    <3>2. CASE cpc \notin {"exiting", "failed"}
      BY <3>1, <3>2 DEF FatalInv
    <3>3. CASE sawFatal
      BY <3>1, <3>3 DEF FatalInv
    <3>4. CASE FatalLast
      BY <3>1, <3>4, LastStays DEF FatalInv, FatalLast
    <3>. QED BY <3>1, <3>2, <3>3, <3>4 DEF FatalInv
  <2>. QED BY <1>9, <2>1, <2>2, <2>3 DEF WaitContainerStarted
<1>10. CASE PoststartHooks \/ PoststopHooks
  BY <1>0, <1>2, <1>10 DEF PoststartHooks, PoststopHooks
<1>11. CASE EnableSignalForwarding \/ WaitContainerExit \/ ForwardingThrows
  BY <1>0, <1>11 DEF EnableSignalForwarding, WaitContainerExit, ForwardingThrows
<1>12. CASE KillChild
  <2>1. ppc = "caught" /\ ppc' = "remove" /\ UNCHANGED <<toParent, sawFatal>>
        /\ (cpc' = cpc \/ cpc' = "killed")
    BY <1>12 DEF KillChild
  <2>. QED BY <1>0, <2>1 DEF FatalInv
<1>13. CASE RemoveStatus \/ RuntimeKilled
  BY <1>0, <1>13 DEF RemoveStatus, RuntimeKilled
<1>. QED
  BY <1>3, <1>4, <1>5, <1>6, <1>7, <1>8, <1>9, <1>10, <1>11, <1>12, <1>13 DEF Parent

(* The child: the fatal message is the last it sends.                      *)
LEMMA ChildFatal ==
  ASSUME TypeOK, LifeInv, Child \/ ContainerExits \/ ChildKilled \/ ForwardLog
  PROVE  FatalInv'
<1>. USE DEF LifeInv
<1>1. CASE LogFatal
  <2>1. toParent' = Append(toParent, "fatal")
    BY <1>1 DEF LogFatal, Announce, SendToParent
  <2>2. /\ toParent' # <<>>
        /\ toParent'[Len(toParent')] = "fatal"
    <3>1. toParent \in Seq(ChildMsgs) /\ "fatal" \in ChildMsgs
      BY DEF TypeOK, ChildMsgs, Logs
    <3>2. /\ Append(toParent, "fatal") # <<>>
          /\ Len(Append(toParent, "fatal")) = Len(toParent) + 1
          /\ Append(toParent, "fatal")[Len(toParent) + 1] = "fatal"
      BY <3>1, AppendProperties
    <3>. QED BY <2>1, <3>2
  <2>. QED BY <2>2 DEF FatalInv, FatalLast
<1>2. CASE ExitFailed
  <2>1. cpc = "exiting" /\ UNCHANGED <<ppc, sawFatal>> /\ toParent' = toParent
    BY <1>2 DEF ExitFailed, ChildDies, parentVars
  <2>. QED BY <2>1 DEF FatalInv, FatalLast, Holds
<1>3. CASE ForwardLog
  <2>1. cpc' \notin {"exiting", "failed"}
    BY <1>3 DEF ForwardLog, ChildSetup
  <2>. QED BY <2>1 DEF FatalInv
<1>4. CASE (Child \/ ContainerExits \/ ChildKilled) /\ ~LogFatal /\ ~ExitFailed
  <2>1. cpc' \notin {"exiting", "failed"}
    <3>. USE DEF Announce, ExpectStage, SetUp, ChildSkips, RunChildHook
    <3>1. CASE InitializeContainer \/ WaitPrestartHooksResult \/ WaitCreateRuntimeResult
      BY <3>1 DEF InitializeContainer, WaitPrestartHooksResult, WaitCreateRuntimeResult
    <3>2. CASE ReadStatus \/ SendExecReady
      BY <3>2 DEF ReadStatus, SendExecReady
    <3>3. CASE CreateContainerHooks \/ StartContainerHooks
      BY <3>3 DEF CreateContainerHooks, StartContainerHooks
    <3>4. CASE ConfigureMounts \/ PivotRoot \/ ConfigureTerminal \/ ApplyPrivileges
                \/ ExecuteProcess
      BY <3>4 DEF ConfigureMounts, PivotRoot, ConfigureTerminal, ApplyPrivileges, ExecuteProcess
    <3>5. CASE ContainerExits \/ ChildKilled
      BY <3>5 DEF ContainerExits, ChildKilled, ChildDies
    <3>. QED BY <1>4, <3>1, <3>2, <3>3, <3>4, <3>5 DEF Child
  <2>. QED BY <2>1 DEF FatalInv
<1>. QED BY <1>1, <1>2, <1>3, <1>4

LEMMA LifeInductive ==
  ASSUME TypeOK, TypeOK', OrderInv, LifeInv, [Next]_vars
  PROVE  LifeInv'
<1>1. CASE Parent \/ ForwardingThrows \/ RuntimeKilled
  BY <1>1, ParentKeepsPlace, ParentAnswered, ParentFatal DEF PlaceInv, LifeInv
<1>2. CASE Child \/ ContainerExits \/ ChildKilled
  <2>1. PlaceInv'
    BY <1>2, ChildShape, ChildKeepsPlace
  <2>. QED BY <1>2, <2>1, ChildAnswered, ChildFatal DEF PlaceInv, LifeInv
<1>3. CASE ForwardLog
  <2>1. PlaceInv'
    BY <1>3 DEF ForwardLog, configVars, parentVars, LifeInv, PlaceInv, RecordInv, ReapInv,
                ExitInv, StartedInv, EndClosed, Done, Configured
  <2>. QED BY <1>3, <2>1, ChildAnswered, ChildFatal DEF PlaceInv, LifeInv
<1>4. CASE UNCHANGED vars
  BY <1>4 DEF vars, configVars, parentVars, childVars, LifeInv, RecordInv, ReapInv, ExitInv,
              StartedInv, AnsweredInv, FatalInv, FatalLast, EndClosed, Holds, Sent, Received,
              Done, Configured
<1>. QED BY <1>1, <1>2, <1>3, <1>4 DEF Next, Terminated

LEMMA LifeInvariant == Spec => []LifeInv
<1>1. ASSUME Init PROVE LifeInv
  <2>1. /\ ran["poststart"] = 0 /\ ran["poststop"] = 0 /\ Len(toChild) = 0
        /\ \A m : ~Holds(toParent, m)
    BY <1>1, EmptySeq DEF Init, HookKinds, Holds
  <2>2. Sent("start") = 0 /\ Received("none") = 0
    BY SentByPlace DEF BeforeRecord, Received, One, PastNamespace, PastPrestart, PastRuntime,
                       PastCreate, PastStart
  <2>. QED BY <1>1, <2>1, <2>2
           DEF Init, LifeInv, RecordInv, ReapInv, ExitInv, AnsweredInv, FatalInv, StartedInv,
               Underway, BeforeRecord, Started, ParentPCs, ParentFinal
<1>. QED BY <1>1, TypeCorrect, OrderInvariant, LifeInductive, PTL DEF Spec

(* A failed start is never taken for a started container: no poststart     *)
(* hook runs for a child that reported a failure.                          *)
THEOREM FailureNotStarted == Spec => []NoPoststartAfterFailure
<1>1. LifeInv => NoPoststartAfterFailure
  BY DEF LifeInv, StartedInv, NoPoststartAfterFailure
<1>. QED BY <1>1, LifeInvariant, PTL

(* status.json is there as long as the container needs it, and gone only   *)
(* when no process of the start is left.                                   *)
THEOREM RecordOutlivesContainer == Spec => []RecordCoversContainer
<1>1. ASSUME TypeOK, OrderInv, LifeInv PROVE RecordCoversContainer
  <2>1. ASSUME cpc \in ChildAlive \ {"namespace_ready", "wait_namespace", "failing", "exiting"}
        PROVE  status = "present"
    <3>1. configured
      BY <1>1, <2>1 DEF OrderInv, ChildKnows, ChildMayBe, ChildAlive, ChildSetup, PastNamespace,
                  PastPrestart, PastRuntime, PastCreate, PastStart
    <3>2. status # "removed"
      BY <2>1, <1>1 DEF LifeInv, RecordInv, ReapInv, ChildAlive, ChildSetup, ChildDead
    <3>. QED BY <1>1, <3>1, <3>2 DEF LifeInv, RecordInv, TypeOK
  <2>2. status = "removed" => cpc = "none" \/ reaped
    BY <1>1 DEF LifeInv, RecordInv, ReapInv
  <2>. QED BY <2>1, <2>2 DEF RecordCoversContainer
<1>. QED BY <1>1, TypeCorrect, OrderInvariant, LifeInvariant, PTL

(* run's return value is the container's own, and 0 only for a container   *)
(* that ran, exited with 0 and had all its hooks.                          *)
THEOREM ExitCodeFaithful == Spec => []FaithfulExitCode
<1>1. ASSUME LifeInv PROVE FaithfulExitCode
  <2>1. SUFFICES ASSUME ppc = "returned", result # ExitFailure
                 PROVE  /\ result = 0 => cpc = "exited" /\ Done("poststart") /\ Done("poststop")
                        /\ reaped /\ result = code
    BY DEF FaithfulExitCode, ExitFailure
  <2>. QED BY <1>1, <2>1 DEF LifeInv, ExitInv, ReapInv, ChildDead, ExitFailure, KilledCode
<1>. QED BY <1>1, LifeInvariant, PTL

-----------------------------------------------------------------------------
(* The two processes implement the lifecycle.                              *)

Phase(c) == IF c \in {"exec", "running"} THEN "launched"
            ELSE IF c \in {"failing", "exiting"} \cup ChildDead THEN "over"
            ELSE "creating"
Outcome(p, r) == IF p # "returned" THEN "pending"
                 ELSE IF r = 0 THEN "success" ELSE "failure"

LEMMA LifecycleInit == Init => Lifecycle!Init
BY DEF Init, Lifecycle!Init, Lifecycle!Kinds, Lifecycle!SetUpKinds, HookKinds, ChildDead

LEMMA CompleteIsDone ==
  ASSUME NEW k PROVE Lifecycle!Complete(k) <=> Done(k)
BY DEF Lifecycle!Complete, Done, Configured

(* A hook runs in its turn.                                                *)
LEMMA HookIsRunHook ==
  ASSUME TypeOK, OrderInv', LifeInv', NEW k \in HookKinds,
         ran[k] < hooks[k], ran' = [ran EXCEPT ![k] = @ + 1],
         UNCHANGED <<hooks, ppc, cpc, ready, result>>, ppc # "returned"
  PROVE  Lifecycle!RunHook(k)
<1>1. /\ ran \in [HookKinds -> Nat] /\ ran'[k] > 0
      /\ \A j \in HookKinds \ {k} : ran'[j] = ran[j]
  BY DEF TypeOK
<1>2. hooks[k] # Absent
  BY <1>1 DEF Absent
<1>3. \A j \in HookKinds \ {k} : Done(j)' => Done(j)
  BY <1>1 DEF Done, Configured
<1>4. \A j \in Lifecycle!Predecessors(k) : Lifecycle!Complete(j)
  <2>1. PICK i \in 1..6 : Stages[i] = k
    BY DEF Stages, HookKinds
  <2>2. \A j \in 1..(i - 1) : Done(Stages[j])'
    BY <1>1, <2>1 DEF OrderInv, HooksInOrder
  <2>3. \A m \in Lifecycle!Predecessors(k) :
          m \in HookKinds \ {k} /\ \E j \in 1..(i - 1) : m = Stages[j]
    BY <2>1 DEF Stages, HookKinds, Lifecycle!Predecessors, Lifecycle!SetUpKinds
  <2>. QED BY <1>3, <2>2, <2>3, CompleteIsDone
<1>5. k \in {"poststart", "poststop"} => ready
  BY <1>1 DEF LifeInv, StartedInv, ReapInv
<1>6. k = "poststop" => cpc \in ChildDead
  BY <1>1 DEF LifeInv, ReapInv
<1>. QED BY <1>1, <1>2, <1>4, <1>5, <1>6 DEF Lifecycle!RunHook, ChildDead

(* Every other step is a launch, an end, a result, or nothing the lifecycle*)
(* speaks of.                                                              *)
LEMMA QuietStep ==
  ASSUME UNCHANGED <<hooks, ran, ready>>, Outcome(ppc', result') = Outcome(ppc, result),
         \/ Phase(cpc') = Phase(cpc)
         \/ Phase(cpc) # "over" /\ Phase(cpc') = "over"
  PROVE  Lifecycle!GetOver \/ UNCHANGED Lifecycle!vars
BY DEF Lifecycle!GetOver, Lifecycle!vars, Phase, Outcome

LEMMA ExecReadyIsLaunch ==
  ASSUME OrderInv, SendExecReady
  PROVE  Lifecycle!Launch
<1>1. \A k \in SetUpStages : Done(k)
  BY DEF OrderInv, ChildKnows, ChildMayBe, SendExecReady, SetUpStages, PastNamespace,
         PastPrestart, PastRuntime, PastCreate, PastStart
<1>2. \A k \in Lifecycle!SetUpKinds : Lifecycle!Complete(k)
  BY <1>1, CompleteIsDone DEF SetUpStages, Lifecycle!SetUpKinds
<1>. QED BY <1>2 DEF Lifecycle!Launch, SendExecReady, configVars, parentVars, ChildDead

LEMMA ReturnIsResult ==
  ASSUME TypeOK, OrderInv, LifeInv, RemoveStatus, ppc' = "returned"
  PROVE  Lifecycle!Succeed \/ Lifecycle!Fail
<1>1. /\ ppc = "remove" /\ UNCHANGED <<hooks, ran, ready, cpc, result>>
      /\ cpc = "none" \/ reaped
  BY DEF RemoveStatus, configVars, childVars, LifeInv, ReapInv
<1>2. CASE result = 0
  <2>1. /\ ready /\ Done("poststart") /\ Done("poststop") /\ reaped
    BY <1>1, <1>2 DEF LifeInv, ExitInv, ExitFailure
  <2>2. cpc \in ChildDead
    BY <2>1 DEF LifeInv, ReapInv
  <2>3. \A k \in Lifecycle!Kinds : Lifecycle!Complete(k)
    BY <2>1, CompleteIsDone
    DEF OrderInv, ReadyTells, SetUpStages, Lifecycle!Kinds, Lifecycle!SetUpKinds
  <2>. QED BY <1>1, <1>2, <2>1, <2>2, <2>3 DEF Lifecycle!Succeed, ChildDead
<1>3. CASE result # 0
  <2>1. cpc \in ChildDead \/ (~ready /\ \A k \in HookKinds : ran[k] = 0)
    BY <1>1 DEF LifeInv, ReapInv, RecordInv, ChildDead
  <2>2. Lifecycle!Kinds = HookKinds
    BY DEF Lifecycle!Kinds, Lifecycle!SetUpKinds, HookKinds
  <2>. QED BY <1>1, <1>3, <2>1, <2>2 DEF Lifecycle!Fail, ChildDead
<1>. QED BY <1>2, <1>3

LEMMA LifecycleStep ==
  ASSUME TypeOK, OrderInv, OrderInv', LifeInv, LifeInv', [Next]_vars
  PROVE  [Lifecycle!Next]_(Lifecycle!vars)
<1>. USE DEF Lifecycle!Next
<1>1. CASE UNCHANGED vars
  BY <1>1, QuietStep DEF vars, configVars, parentVars, childVars
<1>2. CASE Next /\ ran' # ran
  <2>1. PICK k \in HookKinds : /\ ran[k] < hooks[k]
                               /\ ran' = [ran EXCEPT ![k] = @ + 1]
                               /\ UNCHANGED <<ppc, cpc, ready>>
    BY <1>2, StepsProgress DEF Progress
  <2>2. UNCHANGED hooks
    BY <1>2, StepsProgress DEF Progress
  <2>3. ppc # "returned" /\ UNCHANGED result
    <3>1. CASE Parent \/ ForwardingThrows
      <4>1. CASE ParentAdvances
        BY <4>1 DEF ParentAdvances, Underway, ParentPCs, ParentFinal
      <4>2. CASE PoststopHooks
        BY <4>2 DEF PoststopHooks
      <4>. QED
        BY <1>2, <3>1, <4>1, <4>2, ParentShape
        DEF SetSubreaper, StartContainerProcess, WriteStatus, EnableSignalForwarding,
            WaitContainerExit, KillChild, RemoveStatus
    <3>2. CASE Child \/ ContainerExits \/ ChildKilled
      <4>1. cpc \in ChildAlive /\ UNCHANGED result
        BY <3>2, ChildShape DEF ChildAdvances
      <4>. QED BY <4>1 DEF LifeInv, ReapInv, ChildAlive, ChildSetup, ChildDead
    <3>. QED BY <1>2, <3>1, <3>2 DEF Next, ForwardLog, RuntimeKilled, Terminated, vars
  <2>4. Lifecycle!RunHook(k)
    BY <2>1, <2>2, <2>3, HookIsRunHook
  <2>5. k \in Lifecycle!Kinds
    BY DEF Lifecycle!Kinds, Lifecycle!SetUpKinds, HookKinds
  <2>. QED BY <2>4, <2>5
<1>3. CASE Next /\ ran' = ran
  <2>1. UNCHANGED hooks
    BY <1>3, StepsProgress DEF Progress
  <2>2. CASE Parent \/ ForwardingThrows \/ RuntimeKilled
    <3>1. UNCHANGED ready
      BY <2>2, ParentShape DEF ParentAdvances, SetSubreaper, StartContainerProcess, WriteStatus,
           EnableSignalForwarding, WaitContainerExit, PoststopHooks, KillChild, RemoveStatus,
           RuntimeKilled, childVars
    <3>2. CASE RemoveStatus /\ ppc' = "returned"
      BY <3>2, ReturnIsResult
    <3>3. CASE ~(RemoveStatus /\ ppc' = "returned")
      <4>1. ppc # "returned" /\ ppc' # "returned"
        BY <2>2, <3>3, ParentShape
        DEF ParentAdvances, SetSubreaper, StartContainerProcess, WriteStatus,
            EnableSignalForwarding, WaitContainerExit, PoststopHooks, KillChild, RemoveStatus,
            RuntimeKilled, Underway, ParentPCs, ParentFinal
      <4>2. \/ cpc' = cpc
            \/ cpc = "none" /\ cpc' = "namespace_ready"
            \/ cpc \notin ChildDead /\ cpc' = "killed"
        BY <2>2, ParentShape
        DEF ParentAdvances, SetSubreaper, StartContainerProcess, WriteStatus,
            EnableSignalForwarding, WaitContainerExit, PoststopHooks, KillChild, RemoveStatus,
            RuntimeKilled, LifeInv, RecordInv, childVars
      <4>. QED BY <1>3, <2>1, <3>1, <4>1, <4>2, QuietStep DEF Phase, Outcome, ChildDead
    <3>. QED BY <3>2, <3>3
  <2>3. CASE Child \/ ContainerExits \/ ChildKilled
    <3>1. ChildAdvances
      BY <2>3, ChildShape
    <3>2. CASE SendExecReady
      BY <3>2, ExecReadyIsLaunch
    <3>3. CASE ~SendExecReady
      <4>1. UNCHANGED <<ready, ppc, result>>
        BY <3>1, <3>3 DEF ChildAdvances
      <4>2. \/ Phase(cpc') = Phase(cpc)
            \/ Phase(cpc) # "over" /\ Phase(cpc') = "over"
        BY <3>1, <3>3 DEF ChildAdvances, Phase, ChildAlive, ChildSetup, ChildDead, ChildPCs
      <4>. QED BY <1>3, <2>1, <4>1, <4>2, QuietStep
    <3>. QED BY <3>2, <3>3
  <2>4. CASE ForwardLog \/ Terminated
    <3>1. UNCHANGED <<ready, ppc, cpc, result>>
      BY <2>4 DEF ForwardLog, Terminated, vars, configVars, parentVars, childVars
    <3>. QED BY <1>3, <2>1, <3>1, QuietStep
  <2>. QED BY <1>3, <2>2, <2>3, <2>4 DEF Next
<1>. QED BY <1>1, <1>2, <1>3

(* The start by two processes and a socket pair implements the lifecycle   *)
(* run promises: its hooks in order, the launch after all of them, and a   *)
(* result only for a container that is over.                               *)
THEOREM Implements == Spec => LifecycleSpec
<1>1. Init => Lifecycle!Init
  BY LifecycleInit
<1>2. TypeOK /\ OrderInv /\ OrderInv' /\ LifeInv /\ LifeInv' /\ [Next]_vars
        => [Lifecycle!Next]_(Lifecycle!vars)
  BY LifecycleStep
<1>. QED
  BY <1>1, <1>2, TypeCorrect, OrderInvariant, LifeInvariant, PTL
  DEF Spec, LifecycleSpec, Lifecycle!Spec
=============================================================================
