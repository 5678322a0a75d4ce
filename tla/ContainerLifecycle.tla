------------------------ MODULE ContainerLifecycle ------------------------
(***************************************************************************)
(* What "ll-box run" promises to whoever configured a container, without   *)
(* processes and messages: the hooks of the OCI lifecycle run in their     *)
(* order, the program is launched once everything before it is done, and   *)
(* run ends only when the container is over.                               *)
(***************************************************************************)
EXTENDS Integers

CONSTANTS HookCounts, Absent

VARIABLES
  hooks,    \* hook kind -> number of hooks, or Absent
  ran,      \* hook kind -> hooks that have run
  ready,    \* the set-up was completed
  phase,    \* "creating", "launched" or "over"
  outcome   \* what run returned: "pending", "success" or "failure"

vars == <<hooks, ran, ready, phase, outcome>>

SetUpKinds == {"prestart", "createRuntime", "createContainer", "startContainer"}
Kinds == SetUpKinds \cup {"poststart", "poststop"}

Complete(k) == hooks[k] = Absent \/ ran[k] = hooks[k]

Predecessors(k) ==
  CASE k = "prestart"        -> {}
    [] k = "createRuntime"   -> {"prestart"}
    [] k = "createContainer" -> {"prestart", "createRuntime"}
    [] k = "startContainer"  -> SetUpKinds \ {k}
    [] k = "poststart"       -> SetUpKinds
    [] OTHER                 -> SetUpKinds \cup {"poststart"}

Init ==
  /\ hooks \in [Kinds -> HookCounts]
  /\ ran = [k \in Kinds |-> 0]
  /\ ready = FALSE
  /\ phase = "creating"
  /\ outcome = "pending"

(* A hook of a stage whose predecessors are complete.                      *)
RunHook(k) ==
  /\ outcome = "pending"
  /\ hooks[k] # Absent
  /\ ran[k] < hooks[k]
  /\ \A j \in Predecessors(k) : Complete(j)
  /\ k \in {"poststart", "poststop"} => ready
  /\ k = "poststop" => phase = "over"
  /\ ran' = [ran EXCEPT ![k] = @ + 1]
  /\ UNCHANGED <<hooks, ready, phase, outcome>>

Launch ==
  /\ phase = "creating"
  /\ \A k \in SetUpKinds : Complete(k)
  /\ phase' = "launched"
  /\ ready' = TRUE
  /\ UNCHANGED <<hooks, ran, outcome>>

(* The container fails, is killed, or its program exits.                   *)
GetOver ==
  /\ phase # "over"
  /\ phase' = "over"
  /\ UNCHANGED <<hooks, ran, ready, outcome>>

(* run returns 0: the container is over and every hook has had its turn.   *)
Succeed ==
  /\ outcome = "pending"
  /\ ready /\ phase = "over"
  /\ \A k \in Kinds : Complete(k)
  /\ outcome' = "success"
  /\ UNCHANGED <<hooks, ran, ready, phase>>

(* run returns another code: the container is over as well, unless it was  *)
(* never created.                                                          *)
Fail ==
  /\ outcome = "pending"
  /\ phase = "over" \/ \A k \in Kinds : ran[k] = 0 /\ ~ready
  /\ outcome' = "failure"
  /\ UNCHANGED <<hooks, ran, ready, phase>>

Next == (\E k \in Kinds : RunHook(k)) \/ Launch \/ GetOver \/ Succeed \/ Fail

Spec == Init /\ [][Next]_vars
=============================================================================
