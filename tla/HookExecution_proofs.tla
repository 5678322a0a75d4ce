------------------------ MODULE HookExecution_proofs ------------------------
(***************************************************************************)
(* Theorems about HookExecution, for any number of hooks, all timeouts and *)
(* any number of deaths, stops and interruptions between.                  *)
(***************************************************************************)
EXTENDS HookExecution, TLAPS

Waiting == {"feed", "waitpid", "sigwait", "collect"}

(* Where the caller is in a hook's call there is a hook, whose status is   *)
(* not known yet; elsewhere there is none.                                 *)
Placed ==
  /\ pc \notin {"next", "done"} => n # 0
  /\ pc \in Waiting => hook # "none" /\ status = "none"
  /\ pc \notin Waiting => hook = "none"
  /\ pc = "judge" => status \in Exits

(* Only a hook with a timeout is waited for with one, and what has passed  *)
(* of it and what is left of it are together the whole, at least.          *)
Timed ==
  /\ pc = "sigwait" => timeout[n] > 0 /\ age + left >= timeout[n]
  /\ "killed" \in {hook, status} => timeout[n] > 0 /\ age >= timeout[n]

(* A hook that is alive has sent SIGCHLD only if it was stopped, so only   *)
(* then is it waited for without a timeout although it has one. What is    *)
(* pending is from a hook that was started, or from another process.       *)
Stopped ==
  /\ pending \in (0 .. n) \cup {Other}
  /\ pc = "waitpid" => timeout[n] = 0
  /\ n # 0 /\ hook = "alive" /\ (pending = n \/ pc = "collect") => stops > 0

(* What has begun the timeout of the hook anew, or will.                   *)
Restarts == others + interrupts

(* The time the hook may still be waited for, with what has happened so    *)
(* far. A SIGCHLD that is pending, and not of the hook, will begin the     *)
(* timeout anew.                                                           *)
Budget ==
  /\ pc = "feed" => age = 0
  /\ pc = "sigwait" =>
       age + left <= timeout[n] * (IF pending \in {0, n} THEN Restarts + 2
                                                        ELSE Restarts + 1)
  /\ n # 0 /\ timeout[n] > 0 /\ stops = 0
       => age <= timeout[n] * (Restarts + 2)

Inv == TypeOK /\ Placed /\ Timed /\ OutcomeIsTheHooks /\ Stopped /\ Budget

-----------------------------------------------------------------------------
(* Types and places.                                                       *)

LEMMA PlacedStep == TypeOK /\ Placed /\ [Next]_vars => TypeOK' /\ Placed'
<1> SUFFICES ASSUME TypeOK, Placed, [Next]_vars PROVE TypeOK' /\ Placed'
  OBVIOUS
<1> USE HooksAssumption, MaxTimeoutAssumption, BoundsAssumption
        DEF TypeOK, Placed, Waiting, PCs, Exits, Other, Sigchld, Goto, events
<1>1. CASE HookExits
  BY <1>1 DEF HookExits
<1>2. CASE HookStops
  BY <1>2 DEF HookStops
<1>3. CASE OtherDies
  BY <1>3 DEF OtherDies
<1>4. CASE Tick
  BY <1>4 DEF Tick
<1>5. CASE Fork
  BY <1>5 DEF Fork
<1>6. CASE AllRun
  BY <1>6 DEF AllRun
<1>7. CASE Feed
  BY <1>7 DEF Feed
<1>8. CASE Collect
  BY <1>8 DEF Collect
<1>9. CASE TakeSigchld
  BY <1>9 DEF TakeSigchld
<1>10. CASE TimeOut
  BY <1>10 DEF TimeOut
<1>11. CASE Judge
  BY <1>11 DEF Judge
<1>12. CASE Interrupted
  BY <1>12 DEF Interrupted
<1>13. CASE UNCHANGED vars
  BY <1>13 DEF vars
<1>14. QED
  BY <1>1, <1>2, <1>3, <1>4, <1>5, <1>6, <1>7, <1>8, <1>9, <1>10, <1>11, <1>12,
     <1>13 DEF Next, ExecuteHooks

-----------------------------------------------------------------------------
(* How a hook ends.                                                        *)

LEMMA TimedStep ==
  TypeOK /\ Placed /\ Timed /\ OutcomeIsTheHooks /\ [Next]_vars
    => Timed' /\ OutcomeIsTheHooks'
<1> SUFFICES ASSUME TypeOK, Placed, Timed, OutcomeIsTheHooks, [Next]_vars
             PROVE Timed' /\ OutcomeIsTheHooks'
  OBVIOUS
<1> USE HooksAssumption, MaxTimeoutAssumption
        DEF TypeOK, Placed, Waiting, PCs, Exits, Goto, events, Timed,
            OutcomeIsTheHooks
<1>1. CASE HookExits
  BY <1>1 DEF HookExits
<1>2. CASE HookStops
  BY <1>2 DEF HookStops
<1>3. CASE OtherDies
  BY <1>3 DEF OtherDies
<1>4. CASE Tick
  BY <1>4 DEF Tick
<1>5. CASE Fork
  BY <1>5 DEF Fork
<1>6. CASE AllRun
  BY <1>6 DEF AllRun
<1>7. CASE Feed
  BY <1>7 DEF Feed
<1>8. CASE Collect
  BY <1>8 DEF Collect
<1>9. CASE TakeSigchld
  BY <1>9 DEF TakeSigchld
<1>10. CASE TimeOut
  BY <1>10 DEF TimeOut
<1>11. CASE Judge
  BY <1>11 DEF Judge
<1>12. CASE Interrupted
  BY <1>12 DEF Interrupted
<1>13. CASE UNCHANGED vars
  BY <1>13 DEF vars
<1>14. QED
  BY <1>1, <1>2, <1>3, <1>4, <1>5, <1>6, <1>7, <1>8, <1>9, <1>10, <1>11, <1>12,
     <1>13 DEF Next, ExecuteHooks

-----------------------------------------------------------------------------
(* Who has sent SIGCHLD.                                                   *)

LEMMA StoppedStep ==
  TypeOK /\ Placed /\ Stopped /\ [Next]_vars => Stopped'
<1> SUFFICES ASSUME TypeOK, Placed, Stopped, [Next]_vars PROVE Stopped'
  OBVIOUS
<1> USE HooksAssumption, MaxTimeoutAssumption, BoundsAssumption
        DEF TypeOK, Placed, Waiting, PCs, Exits, Goto, events, Stopped, Other,
            Sigchld
<1>1. CASE HookExits
  BY <1>1 DEF HookExits
<1>2. CASE HookStops
  BY <1>2 DEF HookStops
<1>3. CASE OtherDies
  BY <1>3 DEF OtherDies
<1>4. CASE Tick
  BY <1>4 DEF Tick
<1>5. CASE Fork
  BY <1>5 DEF Fork
<1>6. CASE AllRun
  BY <1>6 DEF AllRun
<1>7. CASE Feed
  BY <1>7 DEF Feed
<1>8. CASE Collect
  BY <1>8 DEF Collect
<1>9. CASE TakeSigchld
  BY <1>9 DEF TakeSigchld
<1>10. CASE TimeOut
  BY <1>10 DEF TimeOut
<1>11. CASE Judge
  BY <1>11 DEF Judge
<1>12. CASE Interrupted
  BY <1>12 DEF Interrupted
<1>13. CASE UNCHANGED vars
  BY <1>13 DEF vars
<1>14. QED
  BY <1>1, <1>2, <1>3, <1>4, <1>5, <1>6, <1>7, <1>8, <1>9, <1>10, <1>11, <1>12,
     <1>13 DEF Next, ExecuteHooks

-----------------------------------------------------------------------------
(* How long it takes.                                                      *)

(* What the multiplication in Budget needs.                                *)
LEMMA OneMore ==
  ASSUME NEW t \in Nat, NEW k \in Nat
  PROVE  /\ t * k \in Nat
         /\ t * (k + 1) = t * k + t
  BY SMT

LEMMA BudgetStep ==
  TypeOK /\ Placed /\ Timed /\ Stopped /\ Budget /\ [Next]_vars => Budget'
<1> SUFFICES ASSUME TypeOK, Placed, Timed, Stopped, Budget, [Next]_vars
             PROVE Budget'
  OBVIOUS
<1> USE HooksAssumption, MaxTimeoutAssumption, BoundsAssumption
<1>a. /\ others \in Nat /\ interrupts \in Nat /\ Restarts \in Nat
      /\ age \in Nat /\ left \in Nat
  BY DEF TypeOK, Restarts
<1>b. ASSUME n # 0
      PROVE  /\ timeout[n] \in Nat
             /\ timeout[n] * (Restarts + 1) \in Nat
             /\ timeout[n] <= timeout[n] * (Restarts + 1)
             /\ timeout[n] * (Restarts + 2) = timeout[n] * (Restarts + 1) + timeout[n]
             /\ timeout[n] * (Restarts + 3) = timeout[n] * (Restarts + 2) + timeout[n]
  <2>1. timeout[n] \in Nat
    BY <1>b DEF TypeOK
  <2>2. /\ timeout[n] * Restarts \in Nat
        /\ timeout[n] * (Restarts + 1) \in Nat
        /\ timeout[n] * (Restarts + 1) = timeout[n] * Restarts + timeout[n]
        /\ timeout[n] * ((Restarts + 1) + 1) = timeout[n] * (Restarts + 1) + timeout[n]
        /\ timeout[n] * ((Restarts + 2) + 1) = timeout[n] * (Restarts + 2) + timeout[n]
    BY <1>a, <2>1, OneMore
  <2>3. (Restarts + 1) + 1 = Restarts + 2 /\ (Restarts + 2) + 1 = Restarts + 3
    BY <1>a
  <2>4. QED
    BY <2>1, <2>2, <2>3
<1>c. ASSUME pc = "sigwait"
      PROVE  /\ n # 0
             /\ age + left <= timeout[n] * (Restarts + 2)
             /\ pending \notin {0, n} => age + left <= timeout[n] * (Restarts + 1)
  <2>1. n # 0
    BY <1>c DEF Placed
  <2>2. CASE pending \in {0, n}
    BY <1>c, <2>1, <2>2 DEF Budget
  <2>3. CASE pending \notin {0, n}
    <3>1. age + left <= timeout[n] * (Restarts + 1)
      BY <1>c, <2>3 DEF Budget
    <3>2. QED
      BY <1>a, <1>b, <2>1, <3>1
  <2>4. QED
    BY <2>2, <2>3
<1>d. ASSUME n # 0, timeout[n] > 0, stops = 0
      PROVE  age <= timeout[n] * (Restarts + 2)
  BY <1>d DEF Budget
<1>1. CASE HookExits
  BY <1>1 DEF HookExits, Budget, Placed, Sigchld, events, TypeOK, Waiting, Restarts
<1>2. CASE HookStops
  BY <1>2 DEF HookStops, Budget, Placed, Sigchld, TypeOK, Waiting, Restarts
<1>3. CASE OtherDies
  <2>1. /\ others' = others + 1 /\ interrupts' = interrupts
        /\ UNCHANGED <<n, pc, age, left, timeout, stops>>
    BY <1>3 DEF OtherDies
  <2>2. /\ Restarts' + 1 = Restarts + 2 /\ Restarts' + 2 = Restarts + 3
    BY <1>a, <2>1 DEF Restarts
  <2>3. pc = "sigwait" => age + left <= timeout[n] * (Restarts + 2)
    BY <1>c
  <2>4. pc = "sigwait" => age + left <= timeout[n] * (Restarts + 3)
    BY <1>a, <1>b, <1>c
  <2>5. n # 0 /\ timeout[n] > 0 /\ stops = 0 => age <= timeout[n] * (Restarts + 3)
    BY <1>a, <1>b, <1>d
  <2>6. pc = "feed" => age = 0
    BY DEF Budget
  <2>7. pc' = "sigwait" =>
          age' + left' <= timeout'[n'] * (IF pending' \in {0, n'}
                                            THEN Restarts' + 2 ELSE Restarts' + 1)
    BY <2>1, <2>2, <2>3, <2>4
  <2>8. n' # 0 /\ timeout'[n'] > 0 /\ stops' = 0
          => age' <= timeout'[n'] * (Restarts' + 2)
    BY <2>1, <2>2, <2>5
  <2>9. QED
    BY <2>1, <2>6, <2>7, <2>8 DEF Budget
<1>4. CASE Tick
  <2>1. /\ UNCHANGED <<n, pc, timeout, pending, others, interrupts, stops>>
        /\ age' = age + 1 /\ Restarts' = Restarts
    BY <1>4 DEF Tick, events, Restarts
  <2>2. CASE pc = "sigwait"
    <3>1. left > 0 /\ left' = left - 1
      BY <1>4, <2>2 DEF Tick
    <3>2. age' + left' = age + left /\ age' <= age + left
      BY <1>a, <2>1, <3>1
    <3>3. age' <= timeout[n] * (Restarts + 2)
      BY <1>a, <1>b, <1>c, <2>1, <2>2, <3>1, <3>2
    <3>4. QED
      BY <2>1, <2>2, <3>2, <3>3 DEF Budget
  <2>3. CASE pc # "sigwait"
    <3>1. pc \in {"waitpid", "collect"} /\ hook = "alive"
      BY <1>4, <2>3 DEF Tick
    <3>2. n # 0 => timeout[n] = 0 \/ stops > 0
      BY <3>1 DEF Stopped
    <3>3. QED
      BY <2>1, <3>1, <3>2 DEF Budget, TypeOK
  <2>4. QED
    BY <2>2, <2>3
<1>5. CASE Fork
  <2>1. /\ n' \in 1 .. Hooks /\ timeout' = timeout /\ age' = 0
        /\ others' = 0 /\ interrupts' = 0 /\ pc' \in {"feed", "thrown"}
    BY <1>5 DEF Fork, Goto, TypeOK
  <2>2. timeout'[n'] \in Nat /\ Restarts' = 0
    BY <2>1 DEF TypeOK, Restarts
  <2>3. QED
    BY <2>1, <2>2 DEF Budget
<1>6. CASE AllRun
  BY <1>6 DEF AllRun, Budget, Goto, events, Restarts
<1>7. CASE Feed
  <2>1. /\ pc = "feed" /\ n # 0 /\ age = 0 /\ left' = timeout[n]
        /\ pc' \in {"waitpid", "sigwait"} /\ Restarts' = Restarts
        /\ UNCHANGED <<n, timeout, pending, age>>
    BY <1>7 DEF Feed, Goto, events, Budget, Placed, Restarts
  <2>2. timeout[n] <= timeout[n] * (Restarts + 1)
    BY <1>b, <2>1
  <2>3. timeout[n] <= timeout[n] * (Restarts + 2)
    BY <1>a, <1>b, <2>1, <2>2
  <2>4. age + timeout[n] = timeout[n] /\ 0 <= timeout[n] * (Restarts + 2)
    BY <1>a, <1>b, <2>1, <2>3
  <2>5. QED
    BY <2>1, <2>2, <2>3, <2>4 DEF Budget
<1>8. CASE Collect
  BY <1>8 DEF Collect, Budget, Goto, events, Restarts
<1>9. CASE TakeSigchld
  <2>1. /\ pc = "sigwait" /\ n # 0 /\ Restarts' = Restarts
        /\ pending # 0 /\ pending' = 0 /\ UNCHANGED <<n, timeout, age, stops>>
        /\ pc' \in {"sigwait", "collect"}
        /\ pc' = "sigwait" => pending # n /\ left' = timeout[n]
    BY <1>9 DEF TakeSigchld, Goto, events, TypeOK, Placed, Restarts
  <2>2. pc' = "sigwait" => age + timeout[n] <= timeout[n] * (Restarts + 2)
    <3>1. ASSUME pc' = "sigwait" PROVE age + left <= timeout[n] * (Restarts + 1)
      BY <1>c, <2>1, <3>1
    <3>2. QED
      BY <1>a, <1>b, <2>1, <3>1
  <2>3. n # 0 /\ timeout[n] > 0 /\ stops = 0 => age <= timeout[n] * (Restarts + 2)
    BY <1>d
  <2>4. QED
    BY <2>1, <2>2, <2>3 DEF Budget
<1>10. CASE TimeOut
  BY <1>10 DEF TimeOut, Budget, Goto, events, Restarts
<1>11. CASE Judge
  BY <1>11 DEF Judge, Budget, Goto, events, Restarts
<1>12. CASE Interrupted
  <2>1. /\ pc = "sigwait" /\ n # 0 /\ pending = 0
        /\ left' = timeout[n] /\ interrupts' = interrupts + 1
        /\ UNCHANGED <<n, pc, timeout, pending, age, others, stops>>
    BY <1>12 DEF Interrupted, Placed
  <2>2. Restarts' + 2 = Restarts + 3
    BY <1>a, <2>1 DEF Restarts
  <2>3. age + left <= timeout[n] * (Restarts + 2)
    BY <1>c, <2>1
  <2>4. /\ age + timeout[n] <= timeout[n] * (Restarts + 3)
        /\ age <= timeout[n] * (Restarts + 3)
    BY <1>a, <1>b, <2>1, <2>3
  <2>5. QED
    BY <2>1, <2>2, <2>4 DEF Budget
<1>13. CASE UNCHANGED vars
  BY <1>13 DEF vars, events, Budget, Restarts
<1>14. QED
  BY <1>1, <1>2, <1>3, <1>4, <1>5, <1>6, <1>7, <1>8, <1>9, <1>10, <1>11, <1>12,
     <1>13 DEF Next, ExecuteHooks

-----------------------------------------------------------------------------
(* The theorems.                                                           *)

LEMMA InvHolds == Spec => []Inv
<1>1. Init => Inv
  BY HooksAssumption, MaxTimeoutAssumption, BoundsAssumption
     DEF Init, Inv, TypeOK, PCs, Exits, Other, Placed, Waiting, Timed,
         OutcomeIsTheHooks, Stopped, Budget, Restarts
<1>2. Inv /\ [Next]_vars => Inv'
  BY PlacedStep, TimedStep, StoppedStep, BudgetStep DEF Inv
<1>3. QED
  BY <1>1, <1>2, PTL DEF Spec

(* Every variable keeps its type (execute_hook and its callers' loops).    *)
THEOREM TypeCorrect == Spec => []TypeOK
  BY InvHolds, PTL DEF Inv

(* No hook is killed before it had its timeout, however many SIGCHLDs of   *)
(* others sigtimedwait returns and however often it is interrupted. The    *)
(* sigtimedwait for it lasts for its timeout, once more for each other     *)
(* child that dies and each time the caller was stopped, and once more for *)
(* what was pending; and so does the whole wait, unless the hook has been  *)
(* stopped.                                                                *)
THEOREM TimeoutsKept == Spec => []TimeoutKept
<1>1. Inv => KilledAfterTimeout
  BY DEF Inv, Timed, KilledAfterTimeout
<1>2. Inv => GivenUpInTime
  <2> SUFFICES ASSUME Inv, n > 0, timeout[n] > 0, stops = 0 \/ pc = "sigwait"
               PROVE  age <= timeout[n] * (Restarts + 2)
    BY DEF GivenUpInTime, Restarts
  <2>1. /\ n # 0 /\ age \in Nat /\ left \in Nat /\ timeout[n] \in Nat
        /\ Restarts + 1 \in Nat /\ (Restarts + 1) + 1 = Restarts + 2
    BY BoundsAssumption, HooksAssumption, MaxTimeoutAssumption
       DEF Inv, TypeOK, Restarts
  <2>2. /\ timeout[n] * (Restarts + 1) \in Nat
        /\ timeout[n] * (Restarts + 2) = timeout[n] * (Restarts + 1) + timeout[n]
    BY <2>1, OneMore
  <2>3. CASE stops = 0
    BY <2>1, <2>3 DEF Inv, Budget
  <2>4. CASE pc = "sigwait"
    <3>1. \/ age + left <= timeout[n] * (Restarts + 2)
          \/ age + left <= timeout[n] * (Restarts + 1)
      BY <2>4 DEF Inv, Budget
    <3>2. timeout[n] * (Restarts + 2) \in Nat
      BY <2>1, <2>2
    <3>3. \/ age <= timeout[n] * (Restarts + 2)
          \/ age <= timeout[n] * (Restarts + 1)
      BY <2>1, <2>2, <3>1, <3>2
    <3>4. timeout[n] * (Restarts + 1) <= timeout[n] * (Restarts + 2)
      BY <2>1, <2>2
    <3>5. QED
      BY <2>1, <2>2, <3>2, <3>3, <3>4
  <2>5. QED
    BY <2>3, <2>4
<1>3. Inv => TimeoutKept
  BY <1>1, <1>2 DEF TimeoutKept
<1>4. QED
  BY <1>3, InvHolds, PTL

(* A stage goes on past the hooks that exited with 0 and no others, though *)
(* their SIGCHLDs may be merged with others and lost.                      *)
THEOREM OutcomeFaithful == Spec => []OutcomeIsTheHooks
  BY InvHolds, PTL DEF Inv

(* execute_hook returns or throws with its hook waited for.                *)
THEOREM HooksCollected == Spec => []NoHookOutlivesItsCall
<1>1. Inv => NoHookOutlivesItsCall
  BY DEF Inv, Placed, Waiting, NoHookOutlivesItsCall
<1>2. QED
  BY <1>1, InvHolds, PTL
=============================================================================
