------------------------- MODULE TradeCoordinator -------------------------
(***************************************************************************)
(* TickTradeCoordinator of the Item Consolidator (v0.6.1.6): CON accounts  *)
(* whose bag is full queue up to hand their items to the MAIN account.     *)
(* Queued accounts and MAIN are held (taken away from their own workflow), *)
(* travel to the rendezvous point, and the CON with the oldest ticket runs *)
(* the trade sequence with MAIN.  Characters die, clients close and the    *)
(* user presses buttons at any time.                                       *)
(*                                                                         *)
(* One Tick of the controller is one step.  What a tick sees of a game     *)
(* client is a view; the sequence of trade clicks is abstracted to its     *)
(* outcomes (module TradeSequence has the clicks).                         *)
(***************************************************************************)
EXTENDS Naturals, Sequences, FiniteSets

CONSTANTS Accounts,    \* the game clients
          None,        \* no account (pid 0)
          FirstRole,   \* the roles the accounts start with
          Slots,       \* number of CON roles (6 in the code)
          MaxQueued,   \* kMaxQueuedChildren (3 in the code)
          MaxTickets,  \* bound: admissions to the queue
          MaxUser      \* bound: user interventions and closed clients

ASSUME CoordinatorAssumption ==
  /\ None \notin Accounts
  /\ Slots \in Nat /\ MaxQueued \in Nat \ {0} /\ MaxTickets \in Nat /\ MaxUser \in Nat
  /\ FirstRole \in [Accounts -> 0 .. Slots + 1]

VARIABLES
  auto,        \* "on", "off" (DUNG AUTO) or "closed" (its window is gone)
  role,        \* 0 none, 1 MAIN, s + 1 for CON s
  latched,     \* deathSessionLatched
  deadSeen,    \* the last snapshot of an account that is not read any more
               \* shows it dead
  held, ticket, travel,          \* tradeHeld, tradeWorkflowEntrySeq, rendezvous travel
  queue, phase, main, child,     \* tradeQueuePids_, tradeTxn_
  counter,                       \* tradeWorkflowEntryCounter_
  enabled, scriptReady,          \* DON DO switch; the trade sequence is complete
  calm,                          \* history: the game cooperates and the user rests
  user,                          \* history: number of interventions
  reassigned,                    \* history: a role was changed
  edited                         \* history: the trade sequence was incomplete

accountVars == <<auto, role, latched, deadSeen>>
flowVars    == <<held, ticket, travel, queue, phase, main, child, counter>>
userVars    == <<enabled, scriptReady, calm, user, reassigned, edited>>
vars        == <<accountVars, flowVars, userVars>>

\* What a tick sees of a client: dead; unfit (life, bag, map or position not
\* valid or, for MAIN, its free bag space at the selling threshold); loading
\* (changing map, or busy with its own workflow); far from the rendezvous;
\* unsettled (there, but AutoPath, mount, AutoFight, a conflict or the 450 ms
\* dwell are not over); parked at the rendezvous.
Views == {"dead", "unfit", "loading", "far", "unsettled", "parked"}
Placed == {"far", "unsettled", "parked"}

Flow == [held |-> held, ticket |-> ticket, travel |-> travel, queue |-> queue,
         phase |-> phase, main |-> main, child |-> child, counter |-> counter]

Becomes(w) ==
  /\ held' = w.held /\ ticket' = w.ticket /\ travel' = w.travel /\ queue' = w.queue
  /\ phase' = w.phase /\ main' = w.main /\ child' = w.child /\ counter' = w.counter

Queued(w) == {w.queue[i] : i \in DOMAIN w.queue}
InQueue(w, a) == a \in Queued(w)
WithRole(r) == {a \in Accounts : role[a] = r}
IsCon(a) == role[a] \in 2 .. Slots + 1
Waiting == {queue[i] : i \in DOMAIN queue}
Staged(a) == held[a] \/ a \in Waiting

\* The first account with the role; None if no account has it.  Only a loaded
\* profile can give a role to two accounts.
AccountByTradeRole(r) ==
  CHOOSE a \in Accounts \cup {None} : IF WithRole(r) = {} THEN a = None ELSE a \in WithRole(r)

TradeMain == AccountByTradeRole(1)

\* The place of x in S, and all of S in the order of "at", one after the other.
Rank(S, at, x) == Cardinality({y \in S : at[y] <= at[x]})
InOrder(S, at) == [k \in 1 .. Cardinality(S) |-> CHOOSE x \in S : Rank(S, at, x) = k]

\* The queue q when the accounts in "out" have been erased from it.
Without(q, out) ==
  LET kept == {i \in DOMAIN q : q[i] \notin out}
      place == InOrder(kept, [i \in kept |-> i])
  IN [k \in 1 .. Cardinality(kept) |-> q[place[k]]]

Init ==
  /\ auto = [a \in Accounts |-> "on"] /\ role = FirstRole
  /\ latched = [a \in Accounts |-> FALSE] /\ deadSeen = [a \in Accounts |-> FALSE]
  /\ held = [a \in Accounts |-> FALSE] /\ ticket = [a \in Accounts |-> 0]
  /\ travel = [a \in Accounts |-> "none"]
  /\ queue = <<>> /\ phase = "Idle" /\ main = None /\ child = None /\ counter = 0
  /\ enabled = TRUE /\ scriptReady = TRUE /\ calm = FALSE /\ user = 0
  /\ reassigned = FALSE /\ edited = FALSE

----------------------------------------------------------------------------
(* Holds *)

ReleaseTradeHold(w, a) ==
  [w EXCEPT !.held[a] = FALSE, !.ticket[a] = 0, !.travel[a] = "none"]

ReleaseTradeHolds(w) ==
  [w EXCEPT !.held = [a \in Accounts |-> FALSE],
            !.ticket = [a \in Accounts |-> IF w.held[a] THEN 0 ELSE w.ticket[a]],
            !.travel = [a \in Accounts |-> IF w.held[a] THEN "none" ELSE w.travel[a]],
            !.queue = <<>>]

AbortTrade(w) ==
  [ReleaseTradeHolds(w) EXCEPT !.phase = "Idle", !.main = None, !.child = None]

AbortIfStarted(w) == IF w.queue # <<>> \/ w.phase # "Idle" THEN AbortTrade(w) ELSE w

\* Mutant: MAIN is not released with the last child.
FinishKeepsMain(w) ==
  LET rest == Without(w.queue, {w.child})
      done == [ReleaseTradeHold(w, w.child) EXCEPT !.queue = rest]
      free == done
  IN [free EXCEPT !.phase = "Idle", !.child = None]

FinishTrade(w) ==
  LET rest == Without(w.queue, {w.child})
      done == [ReleaseTradeHold(w, w.child) EXCEPT !.queue = rest]
      free == IF rest = <<>> THEN ReleaseTradeHold(done, w.main) ELSE done
  IN [free EXCEPT !.phase = "Idle", !.child = None]

----------------------------------------------------------------------------
(* The life observer, which runs before the coordinator in a tick *)

\* Accounts whose death session begins or ends, if the tick gets that far.
LifeChanges(view) ==
  {a \in Accounts : /\ auto[a] = "on" /\ view[a] \notin {"unfit", "loading"}
                    /\ latched[a] # (view[a] = "dead")}

\* Mutant: a held account loses its ticket with the rest of its runtime.
DeathForgetsTicket(w, served) ==
  [w EXCEPT !.travel = [a \in Accounts |-> IF a \in served THEN "none" ELSE w.travel[a]],
            !.ticket = [a \in Accounts |-> IF a \in served
                                           THEN 0 ELSE w.ticket[a]]]

\* HandleDeath resets the runtime at both boundaries, but a held account
\* keeps its ticket.
HandleDeath(w, served) ==
  IF served = {} THEN w ELSE [w EXCEPT !.travel = [a \in Accounts |-> IF a \in served THEN "none" ELSE w.travel[a]],
            !.ticket = [a \in Accounts |-> IF a \in served /\ ~w.held[a]
                                           THEN 0 ELSE w.ticket[a]]]

----------------------------------------------------------------------------
(* The parts of TickTradeCoordinator, in the order of the code.  v is the   *)
(* view of each account, l its death latch after the life observer ran.     *)

Recovering(v, l, a) == v[a] = "dead" \/ l[a]

WorldFlowPause(w, v, l, m) ==
  /\ w.phase # "Sequence"
  /\ \E a \in Queued(w) \cup {m} : w.held[a] /\ Recovering(v, l, a)

\* Alive, readable, and with more free bag space than the selling threshold.
MainHealthy(v, m) == auto[m] = "on" /\ v[m] \notin {"dead", "unfit"}

TradeStateReady(v, a) == auto[a] = "on" /\ v[a] \in Placed

\* Mutant: the purge does not spare the active child.
StaysOnlyAlive(w, v, l, a) ==
  \/ IsCon(a) /\ w.held[a] /\ Recovering(v, l, a)
  \/ IsCon(a) /\ auto[a] = "on" /\ v[a] # "dead"

\* Waiting children that can no longer take part leave; the active one stays.
StaysQueued(w, v, l, a) ==
  \/ a = w.child /\ w.phase # "Idle"
  \/ IsCon(a) /\ w.held[a] /\ Recovering(v, l, a)
  \/ IsCon(a) /\ auto[a] = "on" /\ v[a] # "dead"

PurgeQueue(w, v, l) ==
  LET out == {a \in Queued(w) : ~StaysQueued(w, v, l, a)}
  IN IF out = {} THEN w ELSE [w EXCEPT
        !.queue = Without(w.queue, out),
        !.held = [a \in Accounts |-> a \notin out /\ w.held[a]],
        !.ticket = [a \in Accounts |-> IF a \in out THEN 0 ELSE w.ticket[a]],
        !.travel = [a \in Accounts |-> IF a \in out THEN "none" ELSE w.travel[a]]]

\* There is room, and a ticket, for the first of those who are ready.
Joining(w, ready) ==
  {a \in ready : /\ Len(w.queue) + Rank(ready, role, a) <= MaxQueued
                 /\ w.counter + Rank(ready, role, a) <= MaxTickets}

\* CON 1 to CON 6 in this order; the first one in an empty queue pulls MAIN along.
Admit(w, ready, m) ==
  LET in == Joining(w, ready)
      pulled == IF w.queue = <<>> /\ in # {} THEN in \cup {m} ELSE in
  IN [w EXCEPT
        !.queue = w.queue \o InOrder(in, role),
        !.counter = w.counter + Cardinality(in),
        !.ticket = [a \in Accounts |-> IF a \in in THEN w.counter + Rank(ready, role, a)
                                       ELSE w.ticket[a]],
        !.held = [a \in Accounts |-> a \in pulled \/ w.held[a]],
        !.travel = [a \in Accounts |-> IF a \in pulled THEN "going" ELSE w.travel[a]]]

\* The CON accounts the scan of the roles finds, that are full and can trade.
CanJoin(v, full) ==
  {a \in full : IsCon(a) /\ a = AccountByTradeRole(role[a]) /\ TradeStateReady(v, a)}

\* Mutant: a child that is queued already is admitted again.
AdmitAgain(w, v, full, m) ==
  LET ready == CanJoin(v, full)
  IN IF ~scriptReady \/ w.phase = "Sequence" \/ ready = {} THEN w ELSE Admit(w, ready, m)

\* Mutant: children are admitted during the trade sequence.
AdmitDuringTrade(w, v, full, m) ==
  LET ready == CanJoin(v, full) \ Queued(w)
  IN IF ~scriptReady \/ ready = {} THEN w ELSE Admit(w, ready, m)

\* While there is room, and not during the trade sequence.
AdmitFullChildren(w, v, full, m) ==
  LET ready == CanJoin(v, full) \ Queued(w)
  IN IF ~scriptReady \/ w.phase = "Sequence" \/ ready = {} THEN w ELSE Admit(w, ready, m)

\* Mutant: travel that a reset stopped is not begun again.
TravelNotRestarted(t, view) ==
  CASE view \notin Placed -> t
    [] t = "going" -> IF view = "parked" THEN "arrived" ELSE "going"
    [] t = "arrived" /\ view # "unsettled" -> IF view = "parked" THEN "ready" ELSE "going"
    [] t = "ready" /\ view = "far" -> "going"
    [] OTHER -> t

\* HandleTradeRendezvousTravel
TravelStep(t, view) ==
  CASE view \notin Placed -> t
    [] view \in Placed /\ t = "none" -> "going"
    [] t = "going" -> IF view = "parked" THEN "arrived" ELSE "going"
    [] t = "arrived" /\ view # "unsettled" -> IF view = "parked" THEN "ready" ELSE "going"
    [] t = "ready" /\ view = "far" -> "going"
    [] OTHER -> t

TravelAll(w, v, m) ==
  LET movers == IF w.queue = <<>> THEN {}
                ELSE IF w.phase = "Sequence" THEN Queued(w) \ {w.child}
                ELSE Queued(w) \cup {m}
  IN IF movers = {} THEN w ELSE [w EXCEPT
        !.held = [a \in Accounts |-> a \in movers \/ w.held[a]],
        !.travel = [a \in Accounts |-> IF a \in movers /\ auto[a] = "on"
                                       THEN TravelStep(w.travel[a], v[a])
                                       ELSE w.travel[a]]]

\* The oldest ticket; accounts without one only if nobody has one.
EarliestQueuedChild(w) ==
  LET cons == {i \in 1 .. Len(w.queue) : IsCon(w.queue[i])}
      withTicket == {i \in cons : w.ticket[w.queue[i]] # 0}
      best == IF withTicket = {}
              THEN {i \in cons : \A j \in cons : i <= j}
              ELSE {i \in withTicket : \A j \in withTicket :
                      w.ticket[w.queue[i]] <= w.ticket[w.queue[j]]}
  IN IF cons = {} THEN None ELSE w.queue[CHOOSE i \in best : TRUE]

\* Mutant: no relock to the earliest child.
NoRelock(w) ==
  w

RelockRendezvous(w) ==
  LET e == EarliestQueuedChild(w)
  IN IF w.phase = "Rendezvous" /\ e # None THEN [w EXCEPT !.child = e] ELSE w

Arrived(w, v, a) == w.travel[a] = "ready" /\ v[a] = "parked"

RendezvousStep(w, v) ==
  IF \/ ~InQueue(w, w.child)
     \/ \E a \in {w.main, w.child} : auto[a] # "on" \/ v[a] = "dead"
  THEN AbortTrade(w)
  ELSE IF ~(Arrived(w, v, w.main) /\ Arrived(w, v, w.child)) THEN w
  ELSE IF ~scriptReady THEN AbortTrade(w)
  ELSE [w EXCEPT !.phase = "Sequence"]

\* While the pair is not parked the clicks wait (AutoPath, conflict) or the
\* trade is aborted; a click may fail, and the last pass finishes the child.
SequenceOutcomes(w, v) ==
  LET pair == {w.main, w.child}
  IN IF \E a \in pair : auto[a] # "on" \/ v[a] \notin Placed THEN {AbortTrade(w)}
     ELSE IF \E a \in pair : v[a] = "far" THEN {AbortTrade(w)}
     ELSE IF \E a \in pair : v[a] = "unsettled" THEN {w, AbortTrade(w)}
     ELSE {w, AbortTrade(w), FinishTrade(w)}

\* A CON is full, but the sequence is not complete: the tick returns at once.
SequenceMissing(v, full) == ~scriptReady /\ CanJoin(v, full) # {}

\* No transaction: release MAIN, wait for the cooldown, or take the next child.
IdleOutcomes(w, v, full, m) ==
  LET e == EarliestQueuedChild(w)
  IN IF w.queue = <<>>
     THEN {IF w.held[m] /\ ~SequenceMissing(v, full) THEN ReleaseTradeHold(w, m) ELSE w}
     ELSE {w, IF e = None THEN [w EXCEPT !.queue = Tail(@)]
              ELSE [w EXCEPT !.phase = "Rendezvous", !.main = m, !.child = e]}

AdvancePhase(w, v, full, m) ==
  CASE w.phase = "Rendezvous" -> {RendezvousStep(w, v)}
    [] w.phase = "Sequence" -> SequenceOutcomes(w, v)
    [] w.phase = "Idle" -> IdleOutcomes(w, v, full, m)

\* Each part works on the result of the part before it.
Coordinate(w, v, l, full, m) ==
  LET purged == {PurgeQueue(w, v, l)}
      filled == {AdmitFullChildren(x, v, full, m) : x \in purged}
      moved == {TravelAll(x, v, m) : x \in filled}
      locked == {RelockRendezvous(x) : x \in moved}
  IN UNION {AdvancePhase(x, v, full, m) : x \in locked}

\* The barriers that come first.
TickTradeCoordinator(w, v, l, full, m) ==
  IF ~enabled \/ m = None THEN {AbortIfStarted(w)}
  ELSE IF w.phase # "Idle" /\ w.main # m THEN {AbortTrade(w)}
  ELSE IF WorldFlowPause(w, v, l, m) THEN {w}
  ELSE IF ~MainHealthy(v, m) THEN {AbortIfStarted(w)}
  ELSE IF /\ w.queue = <<>> /\ w.phase = "Idle" /\ ~w.held[m]
          /\ ~TradeStateReady(v, m) THEN {w}
  ELSE Coordinate(w, v, l, full, m)

----------------------------------------------------------------------------
(* One tick of the controller: snapshots, the life observer, the coordinator *)

\* An account that is not running is read only while it is selected.  An
\* account that is not staged is away from the rendezvous point; a CON that is
\* loading then is like one that is not full.
SeenOf(a) ==
  CASE auto[a] = "closed" -> {IF deadSeen[a] THEN "dead" ELSE "far"}
    [] auto[a] = "off" -> IF calm THEN {"far"} ELSE {"dead", "far"}
    [] auto[a] = "on" /\ calm -> {IF Staged(a) THEN "parked" ELSE "far"}
    [] auto[a] = "on" /\ ~calm ->
         {"dead", "far"} \cup (IF role[a] = 1 THEN {"unfit", "loading"} ELSE {})
                        \cup (IF Staged(a) THEN {"loading", "unsettled", "parked"} ELSE {})

SeenViews ==
  LET seen == [a \in Accounts |-> SeenOf(a)]
  IN {view \in [Accounts -> UNION {seen[a] : a \in Accounts}] :
        \A a \in Accounts : view[a] \in seen[a]}

\* When the game cooperates, no outcome is a failure or another wait.
Progresses(w, outcomes, x) == Cardinality(outcomes) > 1 => x.phase # w.phase /\ x.main # None

Tick ==
  \E m \in {TradeMain}, view \in SeenViews :
    /\ deadSeen' = [a \in Accounts |-> auto[a] # "on" /\ view[a] = "dead"]
    /\ \E served \in SUBSET LifeChanges(view) :
         /\ calm => served = LifeChanges(view)
         /\ \E l \in {[a \in Accounts |-> IF a \in served THEN view[a] = "dead" ELSE latched[a]]},
              w \in {HandleDeath(Flow, served)},
              full \in SUBSET {a \in Accounts : IsCon(a) /\ ~Staged(a) /\ view[a] = "far"} :
              /\ latched' = l
              /\ \E outcomes \in {TickTradeCoordinator(w, view, l, full \cup Waiting, m)} :
                   \E x \in outcomes : (calm => Progresses(w, outcomes, x)) /\ Becomes(x)
    /\ UNCHANGED <<auto, role, userVars>>

----------------------------------------------------------------------------
(* The user, and clients that close *)

Intervenes == ~calm /\ user < MaxUser /\ user' = user + 1

\* ResetRuntime forgets the ticket and the travel, but neither hold nor queue.
ResetRuntime(w, a) == [w EXCEPT !.ticket[a] = 0, !.travel[a] = "none"]

StopChecked(a) ==
  /\ Intervenes
  /\ auto[a] = "on"
  /\ auto' = [auto EXCEPT ![a] = "off"]
  /\ latched' = [latched EXCEPT ![a] = FALSE]
  /\ \E dead \in BOOLEAN : deadSeen' = [deadSeen EXCEPT ![a] = dead]
  /\ LET w == ResetRuntime(Flow, a)
     IN Becomes(IF phase # "Idle" /\ a \in {main, child} THEN AbortTrade(w) ELSE w)
  /\ UNCHANGED <<role, enabled, scriptReady, calm, reassigned, edited>>

\* BAT DAU, also on an account that is running already.
StartChecked(a) ==
  /\ Intervenes
  /\ auto[a] # "closed"
  /\ auto' = [auto EXCEPT ![a] = "on"]
  /\ latched' = [latched EXCEPT ![a] = FALSE] /\ deadSeen' = [deadSeen EXCEPT ![a] = FALSE]
  /\ Becomes(ResetRuntime(Flow, a))
  /\ UNCHANGED <<role, enabled, scriptReady, calm, reassigned, edited>>

\* Mutant: the combo index is taken for one without the empty entry.
ApplyComboIndex(a, r) ==
  /\ Intervenes
  /\ role[a] # r
  /\ reassigned' = TRUE
  /\ LET losers == {b \in Accounts \ {a} : r # 0 /\ role[b] = r}
     IN /\ role' = [b \in Accounts |-> IF b = a THEN r + 1 ELSE IF b \in losers THEN 0 ELSE role[b]]
        /\ held' = [b \in Accounts |-> b \notin losers /\ held[b]]
  /\ UNCHANGED <<auto, latched, deadSeen, ticket, travel, queue, phase, main, child, counter,
                 enabled, scriptReady, calm, edited>>

\* The role is taken from its present holder.
ApplySelectedTradeRole(a, r) ==
  /\ Intervenes
  /\ role[a] # r
  /\ reassigned' = TRUE
  /\ LET losers == {b \in Accounts \ {a} : r # 0 /\ role[b] = r}
     IN /\ role' = [b \in Accounts |-> IF b = a THEN r ELSE IF b \in losers THEN 0 ELSE role[b]]
        /\ held' = [b \in Accounts |-> b \notin losers /\ held[b]]
  /\ UNCHANGED <<auto, latched, deadSeen, ticket, travel, queue, phase, main, child, counter,
                 enabled, scriptReady, calm, edited>>

ToggleConsolidationMode ==
  /\ Intervenes
  /\ enabled' = ~enabled
  /\ Becomes(IF ~enabled THEN Flow
             ELSE ReleaseTradeHolds(IF phase # "Idle" THEN AbortTrade(Flow) ELSE Flow))
  /\ UNCHANGED <<accountVars, scriptReady, calm, reassigned, edited>>

\* The sequence editor adds or removes the step that completes the sequence.
EditTradeSequence ==
  /\ Intervenes
  /\ scriptReady' = ~scriptReady
  /\ edited' = (edited \/ scriptReady)
  /\ UNCHANGED <<accountVars, flowVars, enabled, calm, reassigned>>

\* Every account is made anew; clients that are gone are not found.
ScanClients ==
  /\ Intervenes
  /\ auto' = [a \in Accounts |-> IF auto[a] = "closed" THEN "closed" ELSE "off"]
  /\ role' = [a \in Accounts |-> IF auto[a] = "closed" THEN 0 ELSE role[a]]
  /\ latched' = [a \in Accounts |-> FALSE]
  /\ held' = [a \in Accounts |-> FALSE] /\ ticket' = [a \in Accounts |-> 0]
  /\ travel' = [a \in Accounts |-> "none"]
  /\ queue' = <<>> /\ phase' = "Idle" /\ main' = None /\ child' = None
  /\ UNCHANGED <<deadSeen, counter, enabled, scriptReady, calm, reassigned, edited>>

ClientCloses(a) ==
  /\ Intervenes
  /\ auto[a] # "closed"
  /\ auto' = [auto EXCEPT ![a] = "closed"]
  /\ \E dead \in BOOLEAN : deadSeen' = [deadSeen EXCEPT ![a] = dead]
  /\ UNCHANGED <<role, latched, flowVars, enabled, scriptReady, calm, reassigned, edited>>

\* From here on characters live and arrive, clicks succeed, the user rests;
\* no account is staged that was stopped or closed while it was dead.
Settle ==
  /\ ~calm
  /\ \A a \in Accounts : Staged(a) /\ auto[a] # "on" => ~deadSeen[a] /\ ~latched[a]
  /\ calm' = TRUE
  /\ UNCHANGED <<accountVars, flowVars, enabled, scriptReady, user, reassigned, edited>>

----------------------------------------------------------------------------
UserStep ==
  \/ \E a \in Accounts : StopChecked(a) \/ StartChecked(a) \/ ClientCloses(a)
  \/ \E a \in Accounts, r \in 0 .. Slots + 1 : ApplySelectedTradeRole(a, r)
  \/ ToggleConsolidationMode \/ EditTradeSequence \/ ScanClients

Next == Tick \/ UserStep \/ Settle

Spec == Init /\ [][Next]_vars

\* The timer of the window keeps ticking (F4 is not pressed for ever).
FairSpec == Spec /\ WF_vars(calm /\ Tick)

----------------------------------------------------------------------------
TypeOK ==
  /\ auto \in [Accounts -> {"on", "off", "closed"}] /\ role \in [Accounts -> 0 .. Slots + 1]
  /\ latched \in [Accounts -> BOOLEAN] /\ deadSeen \in [Accounts -> BOOLEAN]
  /\ held \in [Accounts -> BOOLEAN] /\ ticket \in [Accounts -> 0 .. MaxTickets]
  /\ travel \in [Accounts -> {"none", "going", "arrived", "ready"}]
  /\ queue \in Seq(Accounts) /\ phase \in {"Idle", "Rendezvous", "Sequence"}
  /\ main \in Accounts \cup {None} /\ child \in Accounts \cup {None}
  /\ counter \in 0 .. MaxTickets
  /\ enabled \in BOOLEAN /\ scriptReady \in BOOLEAN /\ calm \in BOOLEAN
  /\ user \in 0 .. MaxUser /\ reassigned \in BOOLEAN /\ edited \in BOOLEAN

\* The queue is bounded and has no account twice, and tickets that were not
\* lost by a restart are in queue order: nobody admitted later stands before
\* an earlier child (tradeQueuePids_ is never re-sorted).
QueueOrder ==
  /\ Len(queue) <= MaxQueued
  /\ \A i, j \in 1 .. Len(queue) : i < j =>
       /\ queue[i] # queue[j]
       /\ ticket[queue[i]] # 0 /\ ticket[queue[j]] # 0 => ticket[queue[i]] < ticket[queue[j]]

\* A transaction that has begun has a MAIN, and its child is still queued,
\* whatever dies, closes, is stopped or changes its role.
ActiveIsQueued ==
  phase # "Idle" => main # None /\ child \in Waiting /\ main # child

\* As long as no role is changed, exactly the queued children are held, and MAIN
\* while there are any: no stale hold keeps an account from its own workflow
\* (ReleaseTradeHold in AbortTrade, FinishTrade and the purge).  Only a trade
\* sequence that was incomplete can leave MAIN held alone (SequenceMissing).
HoldMatchesQueue ==
  ~reassigned => \A a \in Accounts :
    /\ a \in Waiting \/ (a = TradeMain /\ queue # <<>>) => held[a]
    /\ held[a] => a \in Waiting \/ (a = TradeMain /\ (queue # <<>> \/ edited))

\* The trade sequence begins with the child that has the oldest ticket, unless
\* no queued account has a CON role any more (RelockRendezvousToEarliestQueued).
EarliestIsServed ==
  [][phase = "Rendezvous" /\ phase' = "Sequence" =>
       EarliestQueuedChild(Flow)' \in {child', None}]_vars

\* Once trade clicks may have been made the pair does not change, and nobody
\* joins the queue (TickTradeCoordinator, phase Sequence).
PairIsStable ==
  [][phase = "Sequence" /\ phase' = "Sequence" =>
       main' = main /\ child' = child /\ Len(queue') <= Len(queue)]_vars

\* A held child that stays queued keeps its ticket in every tick, also when it
\* dies and revives (ResetRuntimeForLifeBoundary).
TicketSurvivesDeath ==
  [][\A a \in Accounts :
       held[a] /\ user' = user /\ a \in Waiting /\ a \in Waiting' =>
         ticket'[a] = ticket[a]]_vars

\* Once the game cooperates every queued child is served, or leaves the queue
\* (no hold, no place in the queue and no abort lasts for ever).
Served == \A a \in Accounts : (calm /\ a \in Waiting) ~> a \notin Waiting

=============================================================================
