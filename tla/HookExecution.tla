---------------------------- MODULE HookExecution ----------------------------
(***************************************************************************)
(* The hooks of one stage: execute_hook for each, one after the other.     *)
(*                                                                         *)
(* A hook without a timeout is waited for with waitpid. One with a timeout *)
(* is waited for with sigtimedwait on SIGCHLD, of which one at most is     *)
(* pending: the SIGCHLD of a hook is lost if that of another process, or   *)
(* the one an earlier hook left behind, is pending still.                  *)
(*                                                                         *)
(* No signal is handled here: the runtime has blocked them all before it   *)
(* runs hooks (container.cpp:2311), and the container's process inherits   *)
(* that. So sigtimedwait is interrupted only when its caller is stopped    *)
(* and continued, which begins the timeout anew, and waitpid never is.     *)
(* Its other error, EINVAL, is for a timeout that validate refuses, and    *)
(* the throw for it cannot be reached.                                     *)
(*                                                                         *)
(* File: container.cpp, execute_hook.                                      *)
(***************************************************************************)
EXTENDS Integers

CONSTANTS
  Hooks,          \* how many hooks the stage has
  MaxTimeout,     \* the longest timeout
  MaxOthers,      \* bound: deaths of other children during a hook
  MaxStops,       \* bound: times that a hook is stopped or continued
  MaxInterrupts,  \* bound: times that the caller is, during a hook
  MaxAge          \* bound: time that is counted in a waitpid

ASSUME HooksAssumption == Hooks \in Nat
ASSUME MaxTimeoutAssumption == MaxTimeout \in Nat
ASSUME BoundsAssumption ==
  {MaxOthers, MaxStops, MaxInterrupts, MaxAge} \subseteq Nat

VARIABLES
  timeout,   \* hook -> its timeout, 0 if it has none
  n,         \* the hook that runs, or ran last
  pc,        \* where the caller of the hooks is
  hook,      \* what has become of hook n, none if it was waited for
  status,    \* what waitpid said of the hook waited for last
  pending,   \* whose SIGCHLD is pending, 0 if none is
  left,      \* time until sigtimedwait gives up
  age,       \* time since hook n is waited for
  (* since hook n was started *)
  others,    \* deaths of other children
  stops,     \* stops and continuations of the hook
  interrupts \* stops and continuations of the caller

events == <<others, stops, interrupts>>
vars == <<timeout, n, pc, hook, status, pending, left, age, events>>

Other == Hooks + 1
Exits == {"ok", "failed", "killed"}    \* exit 0, not 0, SIGKILL of the caller
PCs == {"next", "feed", "waitpid", "sigwait", "collect", "judge", "done",
        "thrown"}

Init ==
  /\ timeout \in [1 .. Hooks -> 0 .. MaxTimeout]
  /\ n = 0
  /\ pc = "next"
  /\ hook = "none" /\ status = "none"
  /\ pending = 0
  /\ left = 0 /\ age = 0
  /\ others = 0 /\ stops = 0 /\ interrupts = 0

-----------------------------------------------------------------------------
(* The kernel.                                                             *)

Sigchld(who) == pending' = IF pending = 0 THEN who ELSE pending

(* By exit, by a signal, or because it could not be executed.              *)
HookExits ==
  /\ hook = "alive"
  /\ hook' \in {"ok", "failed"}
  /\ Sigchld(n)
  /\ UNCHANGED <<timeout, n, pc, status, left, age, events>>

HookStops ==
  /\ hook = "alive"
  /\ stops < MaxStops
  /\ stops' = stops + 1
  /\ Sigchld(n)
  /\ UNCHANGED <<timeout, n, pc, hook, status, left, age, others, interrupts>>

OtherDies ==
  /\ others < MaxOthers
  /\ others' = others + 1
  /\ Sigchld(Other)
  /\ UNCHANGED <<timeout, n, pc, hook, status, left, age, stops, interrupts>>

(* Time passes in whatever call waits for the hook.                        *)
Tick ==
  /\ \/ pc = "sigwait" /\ left > 0 /\ left' = left - 1
     \/ /\ pc \in {"waitpid", "collect"} /\ hook = "alive"
        /\ age < MaxAge
        /\ UNCHANGED left
  /\ age' = age + 1
  /\ UNCHANGED <<timeout, n, pc, hook, status, pending, events>>

-----------------------------------------------------------------------------
(* execute_hook.                                                           *)

Goto(place) == pc' = place

(* The next hook, unless fork fails.                                       *)
Fork ==
  /\ pc = "next"
  /\ n < Hooks
  /\ n' = n + 1
  /\ \/ Goto("feed") /\ hook' = "alive"
     \/ Goto("thrown") /\ UNCHANGED hook
  /\ status' = "none"
  /\ age' = 0
  /\ others' = 0 /\ stops' = 0 /\ interrupts' = 0
  /\ UNCHANGED <<timeout, pending, left>>

AllRun ==
  /\ pc = "next"
  /\ n = Hooks
  /\ Goto("done")
  /\ UNCHANGED <<timeout, n, hook, status, pending, left, age, events>>

(* Sending the state, whose failure is only logged.                        *)
Feed ==
  /\ pc = "feed"
  /\ Goto(IF timeout[n] = 0 THEN "waitpid" ELSE "sigwait")
  /\ left' = timeout[n]
  /\ UNCHANGED <<timeout, n, hook, status, pending, age, events>>

(* waitpid, before which the hook may have been seen to die or not.        *)
Collect ==
  /\ pc \in {"waitpid", "collect"}
  /\ hook \in Exits
  /\ status' = hook
  /\ hook' = "none"
  /\ Goto("judge")
  /\ UNCHANGED <<timeout, n, pending, left, age, events>>

(* Mutant: any SIGCHLD is taken for the hook's.                            *)
TakeAnySigchld ==
  /\ pc = "sigwait"
  /\ pending # 0
  /\ pending' = 0
  /\ Goto("collect")
  /\ UNCHANGED <<timeout, n, hook, status, left, age, events>>

(* sigtimedwait returns a signal: the hook's, or one that starts the whole *)
(* timeout again.                                                          *)
TakeSigchld ==
  /\ pc = "sigwait"
  /\ pending # 0
  /\ pending' = 0
  /\ \/ pending = n /\ Goto("collect") /\ UNCHANGED left
     \/ pending # n /\ left' = timeout[n] /\ UNCHANGED pc
  /\ UNCHANGED <<timeout, n, hook, status, age, events>>

(* Mutant: the hook is killed and not waited for.                          *)
TimeOutUnreaped ==
  /\ pc = "sigwait"
  /\ pending = 0 /\ left = 0
  /\ hook' = IF hook = "alive" THEN "killed" ELSE hook
  /\ status' = "killed"
  /\ Goto("judge")
  /\ UNCHANGED <<timeout, n, pending, left, age, events>>

(* Mutant: every return without a signal counts as the end of the timeout. *)
TimeOutOnAnyError ==
  /\ pc = "sigwait"
  /\ pending = 0
  /\ hook' = IF hook = "alive" THEN "killed" ELSE hook
  /\ Goto("collect")
  /\ UNCHANGED <<timeout, n, status, pending, left, age, events>>

(* EINTR: the caller was stopped and continued. The whole timeout starts   *)
(* again.                                                                  *)
Interrupted ==
  /\ pc = "sigwait"
  /\ pending = 0
  /\ interrupts < MaxInterrupts
  /\ interrupts' = interrupts + 1
  /\ left' = timeout[n]
  /\ UNCHANGED <<timeout, n, pc, hook, status, pending, age, others, stops>>

(* It gives up: the hook is killed, if it has not ended without its        *)
(* SIGCHLD having been seen, and waited for.                               *)
TimeOut ==
  /\ pc = "sigwait"
  /\ pending = 0 /\ left = 0
  /\ \/ hook = "alive" /\ hook' = "killed" /\ Sigchld(n)
     \/ hook # "alive" /\ UNCHANGED <<hook, pending>>
  /\ Goto("collect")
  /\ UNCHANGED <<timeout, n, status, left, age, events>>

(* Mutant: a hook that was killed counts as one that ended.                *)
JudgeExitOnly ==
  /\ pc = "judge"
  /\ Goto(IF status = "failed" THEN "thrown" ELSE "next")
  /\ UNCHANGED <<timeout, n, hook, status, pending, left, age, events>>

Judge ==
  /\ pc = "judge"
  /\ Goto(IF status = "ok" THEN "next" ELSE "thrown")
  /\ UNCHANGED <<timeout, n, hook, status, pending, left, age, events>>

ExecuteHooks ==
  Fork \/ AllRun \/ Feed \/ Collect \/ TakeSigchld \/ TimeOut \/ Judge

-----------------------------------------------------------------------------

Next ==
  ExecuteHooks \/ Interrupted \/ HookExits \/ HookStops \/ OtherDies \/ Tick

(* The caller goes on when it can, and time passes. Only a hook without a  *)
(* timeout has to end.                                                     *)
Fairness ==
  /\ WF_vars(ExecuteHooks)
  /\ WF_vars(Tick)
  /\ WF_vars(pc = "waitpid" /\ HookExits)

Spec == Init /\ [][Next]_vars /\ Fairness

-----------------------------------------------------------------------------
(* Properties.                                                             *)

Ended == pc \in {"done", "thrown"}

TypeOK ==
  /\ timeout \in [1 .. Hooks -> 0 .. MaxTimeout]
  /\ n \in 0 .. Hooks
  /\ pc \in PCs
  /\ hook \in {"none", "alive"} \cup Exits
  /\ status \in {"none"} \cup Exits
  /\ pending \in 0 .. Other
  /\ left \in 0 .. MaxTimeout
  /\ age \in Nat
  /\ others \in 0 .. MaxOthers
  /\ stops \in 0 .. MaxStops
  /\ interrupts \in 0 .. MaxInterrupts

(* A hook is killed only when it has had its whole timeout, whatever       *)
(* signals of others came in between (sigtimedwait with ts).               *)
KilledAfterTimeout ==
  "killed" \in {hook, status} => timeout[n] > 0 /\ age >= timeout[n]

(* The stage goes on past a hook only if that hook exited with 0, and      *)
(* fails at one only if it did not: a hook whose SIGCHLD was lost, or who  *)
(* ends as its timeout runs out, is judged by how it ended.                *)
OutcomeIsTheHooks ==
  /\ pc \in {"next", "done"} /\ n > 0 => status = "ok"
  /\ pc = "thrown" => status # "ok"

(* When the next hook starts, or the stage is over, no hook is left        *)
(* running or as a zombie.                                                 *)
NoHookOutlivesItsCall ==
  pc \in {"next", "done", "thrown"} => hook = "none"

(* The timeout begins anew with each SIGCHLD of another process and each   *)
(* time the caller is stopped and continued, but only then: once for each  *)
(* child that dies meanwhile, and once for a SIGCHLD that was pending when *)
(* the hook was started. A hook is waited for no longer than that, even if *)
(* its own SIGCHLD was lost. One that was stopped is the exception: its    *)
(* SIGCHLD ends the sigtimedwait, and the waitpid that follows has no end  *)
(* but the hook's. What passes while the caller is stopped is not counted. *)
GivenUpInTime ==
  n > 0 /\ timeout[n] > 0 /\ (stops = 0 \/ pc = "sigwait")
    => age <= timeout[n] * (others + interrupts + 2)

(* Both: a hook has its whole timeout, and not much more unless it is      *)
(* stopped.                                                                *)
TimeoutKept == KilledAfterTimeout /\ GivenUpInTime

(* A stage ends although a hook with a timeout never does, unless a hook   *)
(* is stopped: the SIGCHLD this sends is taken for the one of its death,   *)
(* and the wait that follows has no timeout.                               *)
EndsUnlessStopped == <>(Ended \/ stops > 0)
=============================================================================
