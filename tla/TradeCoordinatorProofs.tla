----------------------- MODULE TradeCoordinatorProofs -----------------------
(***************************************************************************)
(* The trade sequence begins with the child that has waited longest, and   *)
(* its pair stays: proofs for any number of accounts, roles and tickets.   *)
(* What the earlier parts of a tick do to the flow (TradeCoordinator) does *)
(* not matter, only that they leave the transaction alone; the relock      *)
(* comes after them, and nothing between it and the begin of the sequence  *)
(* touches the queue, the tickets or the child.                            *)
(***************************************************************************)
EXTENDS TradeCoordinator, TLAPS

\* A record with the fields of Flow.
IsFlow(w) ==
  w = [held |-> w.held, ticket |-> w.ticket, travel |-> w.travel, queue |-> w.queue,
       phase |-> w.phase, main |-> w.main, child |-> w.child, counter |-> w.counter]

\* The record of these fields.
FlowOf(h, t, g, q, p, m, c, n) ==
  [held |-> h, ticket |-> t, travel |-> g, queue |-> q,
   phase |-> p, main |-> m, child |-> c, counter |-> n]

\* x is what a part of the tick makes of w: the transaction is the same.
SameTrade(w, x) ==
  IsFlow(x) /\ x.phase = w.phase /\ x.main = w.main /\ x.child = w.child

\* EarliestQueuedChild as a function of what it reads.
Oldest(q, t, r) ==
  LET cons == {i \in 1 .. Len(q) : r[q[i]] \in 2 .. Slots + 1}
      withTicket == {i \in cons : t[q[i]] # 0}
      best == IF withTicket = {}
              THEN {i \in cons : \A j \in cons : i <= j}
              ELSE {i \in withTicket : \A j \in withTicket : t[q[i]] <= t[q[j]]}
  IN IF cons = {} THEN None ELSE q[CHOOSE i \in best : TRUE]

\* The child of w is the one to serve, unless no queued account is a CON.
ServesOldest(w) == Oldest(w.queue, w.ticket, role) \in {w.child, None}

\* Records of this form have parts that the prover can work with.
LEMMA FlowParts ==
  ASSUME NEW w, IsFlow(w)
  PROVE  \E h, t, g, q, p, m, c, n : w = FlowOf(h, t, g, q, p, m, c, n)
BY DEF IsFlow, FlowOf

\* Any one field may be written; three of them are the transaction.
LEMMA FieldsKeepTrade ==
  ASSUME NEW w, IsFlow(w), NEW x
  PROVE  /\ SameTrade(w, [w EXCEPT !.held = x]) /\ SameTrade(w, [w EXCEPT !.ticket = x])
         /\ SameTrade(w, [w EXCEPT !.travel = x]) /\ SameTrade(w, [w EXCEPT !.queue = x])
         /\ SameTrade(w, [w EXCEPT !.counter = x])
         /\ IsFlow([w EXCEPT !.main = x]) /\ [w EXCEPT !.main = x].phase = w.phase
         /\ IsFlow([w EXCEPT !.child = x]) /\ [w EXCEPT !.child = x].phase = w.phase
         /\ IsFlow([w EXCEPT !.phase = x]) /\ [w EXCEPT !.phase = x].phase = x
<1>1. PICK h, t, g, q, p, m, c, n : w = FlowOf(h, t, g, q, p, m, c, n)
  BY FlowParts
<1> QED BY <1>1 DEF IsFlow, FlowOf, SameTrade

\* The operator of the model and the function are the same.
LEMMA EarliestIsOldest ==
  ASSUME NEW w
  PROVE  EarliestQueuedChild(w) = Oldest(w.queue, w.ticket, role)
BY DEF EarliestQueuedChild, Oldest, IsCon

----------------------------------------------------------------------------
(* The parts of a tick before the relock leave the transaction alone *)

\* The parts of a tick can be chained.
LEMMA SameTradeChains ==
  ASSUME NEW w
  PROVE  /\ IsFlow(w) => SameTrade(w, w)
         /\ \A x, y : SameTrade(w, x) /\ SameTrade(x, y) => SameTrade(w, y)
         /\ \A x : SameTrade(w, x) => IsFlow(x)
BY DEF SameTrade

\* Several fields at once.
LEMMA TwoFieldsKeepTrade ==
  ASSUME NEW w, IsFlow(w), NEW x, NEW y
  PROVE  /\ SameTrade(w, [w EXCEPT !.ticket = x, !.travel = y])
         /\ SameTrade(w, [w EXCEPT !.travel = x, !.ticket = y])
         /\ SameTrade(w, [w EXCEPT !.held = x, !.travel = y])
<1> DEFINE t == [w EXCEPT !.ticket = x]
           g == [w EXCEPT !.travel = x]
           h == [w EXCEPT !.held = x]
<1>1. SameTrade(w, t) /\ SameTrade(w, g) /\ SameTrade(w, h)
  BY FieldsKeepTrade
<1>2. SameTrade(t, [t EXCEPT !.travel = y])
  <2> HIDE DEF t
  <2> QED BY <1>1, FieldsKeepTrade, ZenonT(40) DEF SameTrade
<1>3. SameTrade(g, [g EXCEPT !.ticket = y])
  <2> HIDE DEF g
  <2> QED BY <1>1, FieldsKeepTrade, ZenonT(40) DEF SameTrade
<1>4. SameTrade(h, [h EXCEPT !.travel = y])
  <2> HIDE DEF h
  <2> QED BY <1>1, FieldsKeepTrade, ZenonT(40) DEF SameTrade
<1> QED BY <1>1, <1>2, <1>3, <1>4, SameTradeChains, Zenon

\* The four fields ReleaseTradeHolds writes.
LEMMA ReleaseKeepsTrade ==
  ASSUME NEW w, IsFlow(w), NEW h, NEW t, NEW g, NEW q
  PROVE  SameTrade(w, [w EXCEPT !.held = h, !.ticket = t, !.travel = g, !.queue = q])
<1> DEFINE a == [w EXCEPT !.held = h]
           b == [a EXCEPT !.ticket = t, !.travel = g]
<1>1. SameTrade(w, a)
  BY FieldsKeepTrade
<1>2. SameTrade(a, b)
  <2> HIDE DEF a
  <2> QED BY <1>1, TwoFieldsKeepTrade, SameTradeChains, Zenon DEF b
<1>3. SameTrade(b, [b EXCEPT !.queue = q])
  <2> HIDE DEF a, b
  <2> QED BY <1>2, FieldsKeepTrade DEF SameTrade
<1> QED BY <1>1, <1>2, <1>3, SameTradeChains, Zenon

\* The four fields PurgeQueue writes.
LEMMA QueueLeavesKeepTrade ==
  ASSUME NEW w, IsFlow(w), NEW h, NEW t, NEW g, NEW q
  PROVE  SameTrade(w, [w EXCEPT !.queue = q, !.held = h, !.ticket = t, !.travel = g])
<1> DEFINE a == [w EXCEPT !.queue = q]
           b == [a EXCEPT !.held = h]
<1>1. SameTrade(w, a)
  BY FieldsKeepTrade
<1>2. SameTrade(a, b)
  <2> HIDE DEF a
  <2> QED BY <1>1, FieldsKeepTrade DEF SameTrade, b
<1>3. SameTrade(b, [b EXCEPT !.ticket = t, !.travel = g])
  <2> HIDE DEF a, b
  <2> QED BY <1>2, TwoFieldsKeepTrade, SameTradeChains, Zenon
<1> QED BY <1>1, <1>2, <1>3, SameTradeChains, Zenon

\* The five fields AdmitFullChildren writes.
LEMMA QueueJoinsKeepTrade ==
  ASSUME NEW w, IsFlow(w), NEW h, NEW t, NEW g, NEW q, NEW n
  PROVE  SameTrade(w, [w EXCEPT !.queue = q, !.counter = n, !.ticket = t,
                                !.held = h, !.travel = g])
<1> DEFINE a == [w EXCEPT !.queue = q]
           b == [a EXCEPT !.counter = n]
           c == [b EXCEPT !.ticket = t]
<1>1. SameTrade(w, a)
  BY FieldsKeepTrade
<1>2. SameTrade(a, b)
  <2> HIDE DEF a
  <2> QED BY <1>1, FieldsKeepTrade DEF SameTrade, b
<1>3. SameTrade(b, c)
  <2> HIDE DEF a, b
  <2> QED BY <1>2, FieldsKeepTrade DEF SameTrade, c
<1>4. SameTrade(c, [c EXCEPT !.held = h, !.travel = g])
  <2> HIDE DEF b, c
  <2> QED BY <1>3, TwoFieldsKeepTrade, SameTradeChains, Zenon
<1> QED BY <1>1, <1>2, <1>3, <1>4, SameTradeChains, Zenon

\* The life observer resets travel and tickets only.
LEMMA DeathKeepsTrade ==
  ASSUME NEW w, IsFlow(w), NEW served
  PROVE  SameTrade(w, HandleDeath(w, served))
BY TwoFieldsKeepTrade, SameTradeChains, Zenon DEF HandleDeath

\* So does a restart of an account.
LEMMA ResetKeepsTrade ==
  ASSUME NEW w, IsFlow(w), NEW a
  PROVE  SameTrade(w, ResetRuntime(w, a))
BY TwoFieldsKeepTrade, Zenon DEF ResetRuntime

\* Children leave the queue, the transaction goes on.
LEMMA PurgeKeepsTrade ==
  ASSUME NEW w, IsFlow(w), NEW v, NEW l
  PROVE  SameTrade(w, PurgeQueue(w, v, l))
BY QueueLeavesKeepTrade, SameTradeChains, Zenon DEF PurgeQueue

\* Children join the queue, the transaction goes on.
LEMMA AdmitKeepsTrade ==
  ASSUME NEW w, IsFlow(w), NEW v, NEW full, NEW m
  PROVE  SameTrade(w, AdmitFullChildren(w, v, full, m))
BY QueueJoinsKeepTrade, SameTradeChains, Zenon DEF AdmitFullChildren, Admit

\* Accounts move, the transaction goes on.
LEMMA TravelKeepsTrade ==
  ASSUME NEW w, IsFlow(w), NEW v, NEW m
  PROVE  SameTrade(w, TravelAll(w, v, m))
BY TwoFieldsKeepTrade, SameTradeChains, Zenon DEF TravelAll

\* Releasing the holds is only half of an abort.
LEMMA ReleaseAllKeepsTrade ==
  ASSUME NEW w, IsFlow(w)
  PROVE  SameTrade(w, ReleaseTradeHolds(w))
BY ReleaseKeepsTrade, Zenon DEF ReleaseTradeHolds

\* The fields ReleaseTradeHold writes, for one account.
LEMMA HoldReleased ==
  ASSUME NEW w, IsFlow(w), NEW a
  PROVE  IsFlow(ReleaseTradeHold(w, a))
<1> DEFINE b == [w EXCEPT !.held[a] = FALSE]
<1>1. SameTrade(w, b)
  BY FieldsKeepTrade
<1>2. SameTrade(b, [b EXCEPT !.ticket[a] = 0, !.travel[a] = "none"])
  <2> HIDE DEF b
  <2> QED BY <1>1, TwoFieldsKeepTrade, SameTradeChains, Zenon
<1> QED BY <1>2, SameTradeChains, Zenon DEF ReleaseTradeHold

\* RelockRendezvousToEarliestQueued: afterwards the child is the oldest one.
LEMMA RelockServesOldest ==
  ASSUME NEW w, IsFlow(w)
  PROVE  /\ IsFlow(RelockRendezvous(w)) /\ RelockRendezvous(w).phase = w.phase
         /\ w.phase = "Rendezvous" => ServesOldest(RelockRendezvous(w))
         /\ w.phase # "Rendezvous" => RelockRendezvous(w) = w
<1> DEFINE e == Oldest(w.queue, w.ticket, role)
<1>1. RelockRendezvous(w) = IF w.phase = "Rendezvous" /\ e # None
                            THEN [w EXCEPT !.child = e] ELSE w
  BY EarliestIsOldest DEF RelockRendezvous
<1> HIDE DEF e
<1>2. CASE w.phase = "Rendezvous" /\ e # None
  <2>1. RelockRendezvous(w) = [w EXCEPT !.child = e]
    BY <1>1, <1>2
  <2>2. /\ IsFlow(RelockRendezvous(w)) /\ RelockRendezvous(w).phase = w.phase
        /\ RelockRendezvous(w).queue = w.queue /\ RelockRendezvous(w).ticket = w.ticket
        /\ RelockRendezvous(w).child = e
    BY <2>1 DEF IsFlow
  <2> QED BY <1>2, <2>2 DEF ServesOldest, e
<1>3. CASE ~(w.phase = "Rendezvous" /\ e # None)
  <2>1. RelockRendezvous(w) = w
    BY <1>1, <1>3
  <2> QED BY <2>1, <1>3 DEF ServesOldest, e
<1> QED BY <1>2, <1>3

----------------------------------------------------------------------------
(* What ends a tick *)

\* An abort ends the transaction.
LEMMA AbortIsIdle ==
  ASSUME NEW w, IsFlow(w)
  PROVE  IsFlow(AbortTrade(w)) /\ AbortTrade(w).phase = "Idle"
<1> DEFINE a == ReleaseTradeHolds(w)
           b == [a EXCEPT !.phase = "Idle"]
           c == [b EXCEPT !.main = None]
<1>1. IsFlow(a)
  BY ReleaseAllKeepsTrade DEF SameTrade
<1> HIDE DEF a
<1>2. IsFlow(b) /\ b.phase = "Idle"
  BY <1>1, FieldsKeepTrade
<1>3. IsFlow(c) /\ c.phase = "Idle"
  <2> HIDE DEF b
  <2> QED BY <1>2, FieldsKeepTrade DEF c
<1>4. IsFlow([c EXCEPT !.child = None]) /\ [c EXCEPT !.child = None].phase = "Idle"
  <2> HIDE DEF b, c
  <2> QED BY <1>3, FieldsKeepTrade
<1> QED BY <1>4, Zenon DEF AbortTrade, a

\* So does the last pass.
LEMMA FinishIsIdle ==
  ASSUME NEW w, IsFlow(w)
  PROVE  FinishTrade(w).phase = "Idle"
<1> DEFINE rest == Without(w.queue, {w.child})
           left == ReleaseTradeHold(w, w.child)
           done == [left EXCEPT !.queue = rest]
           free == IF rest = <<>> THEN ReleaseTradeHold(done, w.main) ELSE done
           idle == [free EXCEPT !.phase = "Idle"]
<1>1. \A u, a : IsFlow(u) => IsFlow(ReleaseTradeHold(u, a))
  BY HoldReleased
<1>2. IsFlow(left)
  BY <1>1
<1> HIDE DEF rest
<1>3. IsFlow(done)
  <2> HIDE DEF left
  <2> QED BY <1>2, FieldsKeepTrade DEF SameTrade
<1>4. IsFlow(free)
  <2> HIDE DEF done
  <2> QED BY <1>1, <1>3
<1>5. IsFlow(idle) /\ idle.phase = "Idle"
  <2> HIDE DEF free
  <2> QED BY <1>4, FieldsKeepTrade
<1>6. [idle EXCEPT !.child = None].phase = "Idle"
  <2> HIDE DEF idle
  <2> QED BY <1>5, FieldsKeepTrade
<1> QED BY <1>6, Zenon DEF FinishTrade, rest

\* The sequence begins only in RendezvousStep, with the flow as it was relocked.
LEMMA AdvanceServesOldest ==
  ASSUME NEW w, IsFlow(w), NEW v, NEW full, NEW m, NEW x \in AdvancePhase(w, v, full, m),
         w.phase = "Rendezvous", ServesOldest(w), x.phase = "Sequence"
  PROVE  ServesOldest(x)
<1>1. x = RendezvousStep(w, v)
  BY DEF AdvancePhase
<1>2. x = AbortTrade(w) \/ x = w \/ x = [w EXCEPT !.phase = "Sequence"]
  BY <1>1 DEF RendezvousStep
<1>3. x = [w EXCEPT !.phase = "Sequence"]
  BY <1>2, AbortIsIdle
<1>4. x.queue = w.queue /\ x.ticket = w.ticket /\ x.child = w.child
  BY <1>3 DEF IsFlow
<1> QED BY <1>4 DEF ServesOldest

\* The parts in their order: only the relock chooses the child.
LEMMA CoordinateServesOldest ==
  ASSUME NEW w, IsFlow(w), NEW v, NEW l, NEW full, NEW m,
         NEW x \in Coordinate(w, v, l, full, m),
         w.phase = "Rendezvous", x.phase = "Sequence"
  PROVE  ServesOldest(x)
<1> DEFINE purged == PurgeQueue(w, v, l)
           filled == AdmitFullChildren(purged, v, full, m)
           moved == TravelAll(filled, v, m)
           locked == RelockRendezvous(moved)
<1>1. x \in AdvancePhase(locked, v, full, m)
  BY DEF Coordinate
<1>2. SameTrade(w, purged)
  BY PurgeKeepsTrade
<1>3. SameTrade(purged, filled)
  BY <1>2, AdmitKeepsTrade DEF SameTrade
<1>4. SameTrade(filled, moved)
  BY <1>3, TravelKeepsTrade DEF SameTrade
<1>5. IsFlow(moved) /\ moved.phase = "Rendezvous"
  BY <1>2, <1>3, <1>4 DEF SameTrade
<1> HIDE DEF moved
<1>6. IsFlow(locked) /\ locked.phase = "Rendezvous" /\ ServesOldest(locked)
  BY <1>5, RelockServesOldest
<1> HIDE DEF locked
<1> QED BY <1>1, <1>6, AdvanceServesOldest

\* While the clicks run, the outcomes are to wait, to abort and to finish.
LEMMA AdvanceKeepsPair ==
  ASSUME NEW w, IsFlow(w), NEW v, NEW full, NEW m, NEW x \in AdvancePhase(w, v, full, m),
         w.phase = "Sequence", x.phase = "Sequence"
  PROVE  x = w
<1>1. x \in SequenceOutcomes(w, v)
  BY DEF AdvancePhase
<1>2. x = w \/ x = AbortTrade(w) \/ x = FinishTrade(w)
  BY <1>1 DEF SequenceOutcomes
<1> QED BY <1>2, AbortIsIdle, FinishIsIdle

\* The parts of a tick, one after the other: none of them changes the pair while the
\* clicks run and go on.
LEMMA CoordinateKeepsPair ==
  ASSUME NEW w, IsFlow(w), NEW v, NEW l, NEW full, NEW m,
         NEW x \in Coordinate(w, v, l, full, m),
         w.phase = "Sequence", x.phase = "Sequence"
  PROVE  SameTrade(w, x)
<1> DEFINE purged == PurgeQueue(w, v, l)
           filled == AdmitFullChildren(purged, v, full, m)
           moved == TravelAll(filled, v, m)
<1>1. x \in AdvancePhase(RelockRendezvous(moved), v, full, m)
  BY DEF Coordinate
<1>2. SameTrade(w, moved)
  BY PurgeKeepsTrade, AdmitKeepsTrade, TravelKeepsTrade DEF SameTrade
<1> HIDE DEF moved
<1>3. RelockRendezvous(moved) = moved
  BY <1>2, RelockServesOldest DEF SameTrade
<1>4. x = moved
  BY <1>1, <1>2, <1>3, AdvanceKeepsPair DEF SameTrade
<1> QED BY <1>2, <1>4

\* The barriers wait, or end the transaction.
LEMMA TickKeepsPair ==
  ASSUME NEW w, IsFlow(w), NEW v, NEW l, NEW full, NEW m,
         NEW x \in TickTradeCoordinator(w, v, l, full, m),
         w.phase = "Sequence", x.phase = "Sequence"
  PROVE  SameTrade(w, x)
<1>1. x = w => SameTrade(w, x)
  BY SameTradeChains
<1>2. x # AbortTrade(w)
  BY AbortIsIdle
<1>3. x = AbortIfStarted(w) => x = w
  BY <1>2 DEF AbortIfStarted
<1>4. x = w \/ x \in Coordinate(w, v, l, full, m)
  BY <1>2, <1>3 DEF TickTradeCoordinator
<1> QED BY <1>1, <1>4, CoordinateKeepsPair

\* The barriers wait or abort, they never begin the sequence.
LEMMA TickServesOldest ==
  ASSUME NEW w, IsFlow(w), NEW v, NEW l, NEW full, NEW m,
         NEW x \in TickTradeCoordinator(w, v, l, full, m),
         w.phase = "Rendezvous", x.phase = "Sequence"
  PROVE  ServesOldest(x)
<1>1. x # w
  OBVIOUS
<1>2. x # AbortTrade(w)
  BY AbortIsIdle
<1>3. x # AbortIfStarted(w)
  BY <1>1, <1>2 DEF AbortIfStarted
<1>4. x \in Coordinate(w, v, l, full, m)
  BY <1>1, <1>2, <1>3 DEF TickTradeCoordinator
<1> QED BY <1>4, CoordinateServesOldest

----------------------------------------------------------------------------
\* Outside a tick the transaction ends or stays.
LEMMA UserKeepsTrade ==
  ASSUME UserStep \/ Settle, phase' # "Idle"
  PROVE  phase' = phase /\ main' = main /\ child' = child
<1> USE DEF flowVars
<1>1. IsFlow(Flow) /\ Flow.phase = phase /\ Flow.main = main /\ Flow.child = child
  BY DEF IsFlow, Flow
<1>2. AbortTrade(Flow).phase = "Idle"
  BY <1>1, AbortIsIdle
<1>3. CASE \E a \in Accounts : StopChecked(a) \/ StartChecked(a) \/ ClientCloses(a)
  <2>1. PICK a \in Accounts : StopChecked(a) \/ StartChecked(a) \/ ClientCloses(a)
    BY <1>3
  <2>2. SameTrade(Flow, ResetRuntime(Flow, a))
    BY <1>1, ResetKeepsTrade
  <2>3. AbortTrade(ResetRuntime(Flow, a)).phase = "Idle"
    BY <2>2, AbortIsIdle DEF SameTrade
  <2>4. CASE StopChecked(a)
    BY <1>1, <2>2, <2>3, <2>4 DEF StopChecked, Becomes, SameTrade
  <2>5. CASE StartChecked(a)
    BY <1>1, <2>2, <2>5 DEF StartChecked, Becomes, SameTrade
  <2> QED BY <2>1, <2>4, <2>5 DEF ClientCloses
<1>4. CASE \E a \in Accounts, r \in 0 .. Slots + 1 : ApplySelectedTradeRole(a, r)
  BY <1>4 DEF ApplySelectedTradeRole
<1>5. CASE ToggleConsolidationMode
  <2>1. ReleaseTradeHolds(AbortTrade(Flow)).phase = "Idle"
    BY <1>1, AbortIsIdle, ReleaseAllKeepsTrade DEF SameTrade
  <2>2. SameTrade(Flow, ReleaseTradeHolds(Flow))
    BY <1>1, ReleaseAllKeepsTrade
  <2> QED BY <1>1, <1>5, <2>1, <2>2 DEF ToggleConsolidationMode, Becomes, SameTrade
<1>6. CASE EditTradeSequence \/ ScanClients \/ Settle
  BY <1>6 DEF EditTradeSequence, ScanClients, Settle
<1> QED BY <1>3, <1>4, <1>5, <1>6 DEF UserStep

\* A tick in other words: the coordinator works on the flow the life observer left.
LEMMA TickOfFlow ==
  ASSUME Tick
  PROVE  \E w, m, view, l, full :
           /\ SameTrade(Flow, w) /\ role' = role
           /\ \E x \in TickTradeCoordinator(w, view, l, full, m) : Becomes(x)
<1>1. IsFlow(Flow)
  BY DEF IsFlow, Flow
<1>2. \A served : SameTrade(Flow, HandleDeath(Flow, served))
  BY <1>1, DeathKeepsTrade
<1>3. /\ role' = role
      /\ \E m, view, l, full, served :
           \E x \in TickTradeCoordinator(HandleDeath(Flow, served), view, l, full, m) :
             Becomes(x)
  BY DEF Tick
<1> QED BY <1>2, <1>3

\* The two together, for every step of the system.
LEMMA StepServesEarliest ==
  ASSUME [Next]_vars, phase = "Rendezvous", phase' = "Sequence"
  PROVE  EarliestQueuedChild(Flow)' \in {child', None}
<1>1. Tick
  BY UserKeepsTrade DEF Next, vars, flowVars
<1>2. PICK w, m, view, l, full :
        /\ SameTrade(Flow, w) /\ role' = role
        /\ \E x \in TickTradeCoordinator(w, view, l, full, m) : Becomes(x)
  BY <1>1, TickOfFlow
<1>3. PICK x \in TickTradeCoordinator(w, view, l, full, m) : Becomes(x)
  BY <1>2
<1>4. IsFlow(w) /\ w.phase = "Rendezvous"
  BY <1>2 DEF SameTrade, Flow
<1>5. ServesOldest(x)
  BY <1>3, <1>4, TickServesOldest DEF Becomes
<1>6. Oldest(queue', ticket', role') \in {child', None}
  BY <1>2, <1>3, <1>5 DEF ServesOldest, Becomes
<1>7. EarliestQueuedChild(Flow)' = Oldest(queue', ticket', role')
  BY DEF EarliestQueuedChild, Oldest, IsCon, Flow
<1> QED BY <1>6, <1>7

\* Nor does any step change the pair while the clicks run.
LEMMA StepKeepsPair ==
  ASSUME [Next]_vars, phase = "Sequence", phase' = "Sequence"
  PROVE  main' = main /\ child' = child
<1>1. CASE Tick
  <2>1. PICK w, m, view, l, full :
          /\ SameTrade(Flow, w) /\ role' = role
          /\ \E x \in TickTradeCoordinator(w, view, l, full, m) : Becomes(x)
    BY <1>1, TickOfFlow
  <2>2. PICK x \in TickTradeCoordinator(w, view, l, full, m) : Becomes(x)
    BY <2>1
  <2>3. IsFlow(w) /\ w.phase = "Sequence" /\ w.main = main /\ w.child = child
    BY <2>1 DEF SameTrade, Flow
  <2>4. SameTrade(w, x)
    BY <2>2, <2>3, TickKeepsPair DEF Becomes
  <2> QED BY <2>2, <2>3, <2>4 DEF SameTrade, Becomes
<1>2. CASE ~Tick
  BY <1>2, UserKeepsTrade DEF Next, vars, flowVars
<1> QED BY <1>1, <1>2

\* For any number of accounts and whatever they do, the trade sequence begins
\* with the child that holds the oldest ticket, unless no queued account has a
\* CON role any more (RelockRendezvousToEarliestQueued).
THEOREM OldestIsServed == Spec => EarliestIsServed
<1>1. [Next]_vars => [phase = "Rendezvous" /\ phase' = "Sequence" =>
        EarliestQueuedChild(Flow)' \in {child', None}]_vars
  BY StepServesEarliest
<1> QED BY <1>1, PTL DEF Spec, EarliestIsServed

=============================================================================
