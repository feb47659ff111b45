------------------------- MODULE MCTradeCoordinator -------------------------
(* Instances of TradeCoordinator for TLC. *)
EXTENDS TradeCoordinator

CONSTANTS acc1, con1, con2

\* One MAIN and two CON accounts.
InitialRole == [x \in {acc1, con1, con2} |-> IF x = acc1 THEN 1 ELSE IF x = con1 THEN 2 ELSE 3]

\* Settle, but some queued accounts may have been stopped, or their clients
\* closed, while the character was dead.  All the others cooperate.
SettleAnyway ==
  /\ ~calm
  /\ calm' = TRUE
  /\ UNCHANGED <<accountVars, flowVars, enabled, scriptReady, user, reassigned, edited>>

StallSpec == Init /\ [][Tick \/ UserStep \/ SettleAnyway]_vars /\ WF_vars(calm /\ Tick)

\* "Remove waiting children that can no longer participate" (controller.cpp,
\* TickTradeCoordinator): once the user rests, a stopped or closed account does
\* not stay in the queue, while every other account cooperates.
StoppedChildLeaves ==
  \A x \in Accounts : (calm /\ auto[x] # "on" /\ x \in Waiting) ~> x \notin Waiting

\* "immutable workflow-entry tickets ... so an earlier workflow child cannot be
\* overtaken by a later traveler" (CHANGELOG.md, R7): the trade sequence begins
\* with the first CON of the queue.
NotOvertaken ==
  [][phase = "Rendezvous" /\ phase' = "Sequence" =>
       \A i \in 1 .. Len(queue') : \A j \in 1 .. Len(queue') :
         queue'[i] = child' /\ j < i => ~(role'[queue'[j]] \in 2 .. Slots + 1)]_vars

=============================================================================
