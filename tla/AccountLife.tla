---------------------------- MODULE AccountLife ----------------------------
(***************************************************************************)
(* What happens around the workflows of an account: movement is observed,  *)
(* the gate of Lau Lan is confirmed (priority 1), a dead character revives *)
(* (priority 2), a death resets everything and counts for the rotation of  *)
(* the spots, and a cold start takes a stale AutoPath back.                *)
(***************************************************************************)
EXTENDS RobustTravel

CONSTANTS DeathLimit,    \* rotateDeathLimit of the profile
          OwnershipStops \* kRouteOwnershipStopMaxAttempts (3 in the code)

ASSUME LifeAssumption == DeathLimit \in Nat \ {0} /\ OwnershipStops \in Nat \ {0}

\* A change of map is movement; so is a way of five units, which a snapshot
\* may or may not show.
ObserveMovement(w, s) ==
  LET armed == w.route.armed
      seen  == armed /\ (w.route.seen \/ Pathing(s))
      fresh == [w EXCEPT !.route.map = MapOf(s.place), !.route.moved = armed,
                         !.route.seen = seen, !.train.phase = 0, !.train.tries = 0,
                         !.train.at = FALSE]
      still == IF armed THEN [w EXCEPT !.route.seen = seen] ELSE w
  IN IF s.path = "unknown" \/ ~s.ready THEN {w}
     ELSE IF w.route.map # MapOf(s.place) THEN {fresh}
     ELSE {still} \cup (IF armed THEN {[still EXCEPT !.route.moved = TRUE]} ELSE {})

----------------------------------------------------------------------------
(* Priority 1: the confirmation at the gate *)

\* Apart from the three seconds without movement.
LauLanGateConfirmDue(w, s) ==
  /\ P(w).confirm /\ w.client = "ok" /\ s.ready
  /\ s.path # "unknown" /\ s.life = "alive"
  /\ s.place = "gate"
  /\ w.route.armed /\ w.route.moved /\ w.route.seen
  /\ Pathing(s)

\* w.done: it was sent, and the account sends no other priority click.
PriorityLauLanGateConfirmClick(w, s) ==
  IF LauLanGateConfirmDue(w, s)
  THEN WhenDue(w, {[x EXCEPT !.done = x.ok] : x \in Call(w, "ConfirmMap")}, {w})
  ELSE {w}

----------------------------------------------------------------------------
(* Rotation of the training spots *)

BeginTrainRecovery(w) ==
  [ResetTravelFightGuard(ResetRobustTravel(w)) EXCEPT
     !.train = [IdleTrain EXCEPT !.back = TRUE, !.at = w.train.at]]

\* Mutant: one death more before the spot is left.
OneDeathMore(count) == count > DeathLimit + 1

DeathLimitExceeded(count) == count > DeathLimit

\* Deaths older than the window are dropped; one too many and the next spot is
\* taken, with an empty window.
RecordDeathForRotation(w) ==
  IF ~P(w).rotate THEN {[w EXCEPT !.kept.deaths = 0]}
  ELSE {[w EXCEPT !.kept.deaths = IF DeathLimitExceeded(n) THEN 0 ELSE n] :
          n \in 1 .. w.kept.deaths + 1}

\* A spot where the bag did not fill up in the time of the profile is left,
\* while the account fights there; the time may be over in any such tick.
UpdateRotationEfficiency(w, s) ==
  IF P(w).rotate /\ AtTarget(s, "spot") /\ Fighting(s) /\ s.life = "alive" /\ s.bag # None
  THEN WhenDue(w, Handled(BeginTrainRecovery([w EXCEPT !.kept.deaths = 0])), {w})
  ELSE {w}

----------------------------------------------------------------------------
(* Death and revival *)

\* Mutant: the sale of the old life is kept.
SaleSurvives(w) == [ResetRuntime(w) EXCEPT !.sell = w.sell]

\* The trade ticket of a held account is kept: see TradeCoordinator.
ResetRuntimeForLifeBoundary(w) == ResetRuntime(w)

BeginDeathSession(w) ==
  {[ResetRuntimeForLifeBoundary(x) EXCEPT !.kept.latched = TRUE] :
     x \in RecordDeathForRotation(w)}

\* Apart from the half second since the death, which a new death has not had,
\* and the five seconds since the last click.
PriorityReviveDue(w) == P(w).revive /\ w.revive = 0

\* Priority 2 sees a death first; HandleDeath finds it latched.
PriorityReviveClick(w, s) ==
  LET revived == {[x EXCEPT !.revive = IF x.ok THEN 1 ELSE 0, !.done = x.ok] :
                    x \in Call(w, "Revive")}
  IN IF w.client # "ok" \/ ~s.ready \/ ~Dead(s) THEN {w}
     ELSE IF ~w.kept.latched THEN BeginDeathSession(w)
     ELSE IF PriorityReviveDue(w) THEN WhenDue(w, revived, {w}) ELSE {w}

\* Priorities 1, 2 and 3 of one account.
Priorities(w, s) ==
  {[x EXCEPT !.done = FALSE] :
     x \in Then(Then(PriorityLauLanGateConfirmClick(w, s),
                     LAMBDA y : PriorityReviveClick(y, s)),
                LAMBDA y : PriorityAutoClick(y, s))}

\* Mutant: the life handler does not look whether the death was seen.
CountDeathAgain(w, s) ==
  LET latched == w.kept.latched
      begun == BeginDeathSession(w)
      next(x) == IF x.revive = 1 THEN [x EXCEPT !.revive = 2] ELSE [x EXCEPT !.revive = 0]
      dying(x) == IF ~P(w).revive \/ x.revive = 0 THEN Handled(x)
                  ELSE WhenDue(x, Handled(next(x)), Handled(x))
      born == [ResetRuntimeForLifeBoundary(w) EXCEPT !.kept.latched = FALSE,
                                                     !.route.pending = TRUE]
  IN IF s.life = "unknown" THEN (IF latched THEN Handled(w) ELSE {w})
     ELSE IF Dead(s) THEN UNION {dying(x) : x \in begun}
     ELSE IF latched THEN Handled(born) ELSE {w}

\* The boundaries of a life.  An unreadable life state keeps a death session.
HandleDeath(w, s) ==
  LET latched == w.kept.latched
      begun == IF latched THEN {w} ELSE BeginDeathSession(w)
      next(x) == IF x.revive = 1 THEN [x EXCEPT !.revive = 2] ELSE [x EXCEPT !.revive = 0]
      dying(x) == IF ~P(w).revive \/ x.revive = 0 THEN Handled(x)
                  ELSE WhenDue(x, Handled(next(x)), Handled(x))
      born == [ResetRuntimeForLifeBoundary(w) EXCEPT !.kept.latched = FALSE,
                                                     !.route.pending = TRUE]
  IN IF s.life = "unknown" THEN (IF latched THEN Handled(w) ELSE {w})
     ELSE IF Dead(s) THEN UNION {dying(x) : x \in begun}
     ELSE IF latched THEN Handled(born) ELSE {w}

----------------------------------------------------------------------------
(* A cold start takes the route of an earlier life back *)

\* Mutant: after the last StopPath the account goes on.
GiveUpOwnership(w, s) ==
  IF ~w.route.pending THEN {w}
  ELSE IF s.path = "unknown" THEN Handled(w)
  ELSE IF ~Pathing(s) THEN Handled([w EXCEPT !.route = [FreeRoute EXCEPT !.map = w.route.map]])
  ELSE IF w.route.stops >= OwnershipStops THEN {w}
  ELSE WhenDue(w, {[x EXCEPT !.route.stops = IF x.ok THEN @ + 1 ELSE @, !.done = TRUE] :
                     x \in SendDecision(w, s, "StopPath", "spot")},
                  IF w.route.stops = 0 THEN {} ELSE Handled(w))

HandleRouteOwnershipReset(w, s) ==
  IF ~w.route.pending THEN {w}
  ELSE IF s.path = "unknown" THEN Handled(w)
  ELSE IF ~Pathing(s) THEN Handled([w EXCEPT !.route = [FreeRoute EXCEPT !.map = w.route.map]])
  ELSE IF w.route.stops >= OwnershipStops THEN Handled(w)
  ELSE WhenDue(w, {[x EXCEPT !.route.stops = IF x.ok THEN @ + 1 ELSE @, !.done = TRUE] :
                     x \in SendDecision(w, s, "StopPath", "spot")},
                  IF w.route.stops = 0 THEN {} ELSE Handled(w))

HandleUnderworldAutoFightGuard(w, s) ==
  IF s.place # "underworld" THEN {w}
  ELSE IF s.fight = "unknown" THEN Handled(w)
  ELSE IF ~Fighting(s) THEN {ResetTravelFightGuard(w)}
  ELSE Handle(EnsureAutoFightOffForTravel(w, s))
=============================================================================
