----------------------------- MODULE CallOnce -----------------------------
(***************************************************************************)
(* What a workflow of the controller relies on when it calls the game      *)
(* through BridgeClient: one request is in flight at a time, its command   *)
(* is started at most once, and the answer a call gets is that of its own  *)
(* command.  How long a command takes, whether the caller still waits, and *)
(* what the command does are left open.                                    *)
(***************************************************************************)
EXTENDS Naturals

CONSTANT Ids   \* the calls, 1 .. n in the order in which they are made

VARIABLES issued,    \* number of the latest call published
          inflight,  \* the published call not yet completed, or 0
          runs,      \* how often the command of each call was started
          answers    \* pairs <<call, call whose command answered it>>

vars == <<issued, inflight, runs, answers>>

Init ==
  /\ issued = 0 /\ inflight = 0
  /\ runs = [i \in Ids |-> 0] /\ answers = {}

Issue ==
  /\ inflight = 0
  /\ issued + 1 \in Ids
  /\ issued' = issued + 1 /\ inflight' = issued + 1
  /\ UNCHANGED <<runs, answers>>

Run ==
  /\ inflight \in Ids /\ runs[inflight] = 0
  /\ runs' = [runs EXCEPT ![inflight] = 1]
  /\ UNCHANGED <<issued, inflight, answers>>

Finish ==
  /\ inflight \in Ids /\ runs[inflight] = 1
  /\ inflight' = 0
  /\ UNCHANGED <<issued, runs, answers>>

\* The answer of the latest call, its command finished.
Answer ==
  /\ issued \in Ids /\ inflight = 0 /\ runs[issued] = 1
  /\ answers' = answers \cup {<<issued, issued>>}
  /\ UNCHANGED <<issued, inflight, runs>>

\* A new session forgets a request no callback has taken.
Forget ==
  /\ inflight \in Ids /\ runs[inflight] = 0
  /\ inflight' = 0
  /\ UNCHANGED <<issued, runs, answers>>

Next == Issue \/ Run \/ Finish \/ Answer \/ Forget

Spec == Init /\ [][Next]_vars

============================================================================
