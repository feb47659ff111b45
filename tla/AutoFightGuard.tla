--------------------------- MODULE AutoFightGuard ---------------------------
(***************************************************************************)
(* AutoFight against movement: the Priority #3 mailbox through which every *)
(* workflow asks for an AUTO, ATTACK or STOP click, the travel guard that  *)
(* turns AutoFight off before the account moves, the invariant that breaks *)
(* up AutoPath and AutoFight seen on together, and the gate every route    *)
(* and mount command goes through.                                         *)
(***************************************************************************)
EXTENDS AccountRuntime

CanDispatchMovement(s)   == s.fight = "off"
CanDispatchFightStart(s) == s.path = "off"
\* Mutant: one STOP click is enough.
OneStopBeforeReset(w) == w.guard.stops < 1

NeedsAnotherStopBeforeReset(w) == w.guard.stops < 2

IsAttack(owner) == owner # "TravelGuardStop"

\* An AutoFight check or an AUTO click of Train needs an idle account.
\* (suppressRouteSinceTick, tested by the code too, is never set.)
AutoFightCheckBusy(w, s) ==
  \/ w.sell.phase # 0 \/ w.train.back \/ w.revive # 0
  \/ w.guard.phase # 0 \/ w.guard.stops # 0 \/ w.guard.conflict # "no"
  \/ w.mount.tries # 0 \/ w.mount.boost # 0 \/ w.mount.foot
  \/ w.route.armed \/ w.route.moved
  \/ s.riding \/ Pathing(s) \/ ~s.ready \/ Dead(s)

----------------------------------------------------------------------------
(* The mailbox: one request, or one result nobody took yet *)

\* Mutant: a result nobody took does not hold a request back.
QueueOverResult(w, s, owner) ==
  LET v == IF w.box.res \in {None, owner} THEN w
           ELSE [w EXCEPT !.box.res = None, !.box.ok = FALSE]
  IN IF w.client # "ok" \/ (IsAttack(owner) /\ ~CanDispatchFightStart(s)) THEN No(w)
     ELSE IF v.box.req = owner THEN Yes(v)
     ELSE IF v.box.req # None THEN No(v)
     ELSE Yes([v EXCEPT !.box.req = owner, !.box.point = 0])

\* A result another workflow left is thrown away; a request is not.
QueuePriorityAutoClick(w, s, owner) ==
  LET v == IF w.box.res \in {None, owner} THEN w
           ELSE [w EXCEPT !.box.res = None, !.box.ok = FALSE]
  IN IF w.client # "ok" \/ (IsAttack(owner) /\ ~CanDispatchFightStart(s)) THEN No(w)
     ELSE IF v.box.req = owner THEN Yes(v)
     ELSE IF v.box.req # None \/ v.box.res # None THEN No(v)
     ELSE Yes([v EXCEPT !.box.req = owner, !.box.point = 0])

HasResult(w, owner) == w.box.res = owner

\* w.ok becomes the result.
ConsumePriorityAutoResult(w) ==
  [w EXCEPT !.ok = w.box.ok, !.box.res = None, !.box.ok = FALSE]

Complete(w, good) ==
  [w EXCEPT !.box = [req |-> None, point |-> 0, res |-> w.box.req, ok |-> good]]

\* Mutant: the clicks of a frozen client go on.
ClickWhileFrozen(w, s) ==
  LET owner  == w.box.req
      unsafe == IsAttack(owner) /\ (~s.ready \/ Dead(s) \/ ~CanDispatchFightStart(s))
      stale  == owner = "Train" /\ AutoFightCheckBusy(w, s)
      point  == IF ~IsAttack(owner) THEN "ClickStop"
                ELSE IF w.box.point = 0 THEN "ClickAuto" ELSE "ClickAttack"
      clicked == {IF v.ok /\ point = "ClickAuto" THEN [v EXCEPT !.box.point = 1]
                  ELSE Complete(v, v.ok) : v \in Call(w, point)}
      misplaced == IF w.calm THEN {} ELSE {No(Complete(w, FALSE))}
  IN IF owner = None THEN {w}
     ELSE IF unsafe \/ stale THEN {Complete(w, FALSE)}
     ELSE IF ~s.ready \/ Dead(s) THEN {w}
     ELSE IF point = "ClickAttack" THEN WhenDue(w, clicked \cup misplaced, {w})
     ELSE clicked \cup misplaced

\* Mutant: the second click follows a first one that failed.
AttackAfterFailedMenu(w, s) ==
  LET owner  == w.box.req
      unsafe == IsAttack(owner) /\ (~s.ready \/ Dead(s) \/ ~CanDispatchFightStart(s))
      stale  == owner = "Train" /\ AutoFightCheckBusy(w, s)
      point  == IF ~IsAttack(owner) THEN "ClickStop"
                ELSE IF w.box.point = 0 THEN "ClickAuto" ELSE "ClickAttack"
      clicked == {IF point = "ClickAuto" THEN [v EXCEPT !.box.point = 1]
                  ELSE Complete(v, v.ok) : v \in Call(w, point)}
      misplaced == IF w.calm THEN {} ELSE {No(Complete(w, FALSE))}
  IN IF owner = None \/ w.client # "ok" THEN {w}
     ELSE IF unsafe \/ stale THEN {Complete(w, FALSE)}
     ELSE IF ~s.ready \/ Dead(s) THEN {w}
     ELSE IF point = "ClickAttack" THEN WhenDue(w, clicked \cup misplaced, {w})
     ELSE clicked \cup misplaced

\* One click of the request.  A request is cancelled if its state is gone: an
\* ATTACK on a loading map, of a dead character or with AutoPath not known off,
\* one of Train when the account is busy.  "misplaced" is a point that cannot
\* be converted to the window.
PriorityAutoClick(w, s) ==
  LET owner  == w.box.req
      unsafe == IsAttack(owner) /\ (~s.ready \/ Dead(s) \/ ~CanDispatchFightStart(s))
      stale  == owner = "Train" /\ AutoFightCheckBusy(w, s)
      point  == IF ~IsAttack(owner) THEN "ClickStop"
                ELSE IF w.box.point = 0 THEN "ClickAuto" ELSE "ClickAttack"
      clicked == {IF v.ok /\ point = "ClickAuto" THEN [v EXCEPT !.box.point = 1]
                  ELSE Complete(v, v.ok) : v \in Call(w, point)}
      misplaced == IF w.calm THEN {} ELSE {No(Complete(w, FALSE))}
  IN IF owner = None \/ w.client # "ok" THEN {w}
     ELSE IF unsafe \/ stale THEN {Complete(w, FALSE)}
     ELSE IF ~s.ready \/ Dead(s) THEN {w}
     ELSE IF point = "ClickAttack" THEN WhenDue(w, clicked \cup misplaced, {w})
     ELSE clicked \cup misplaced

----------------------------------------------------------------------------
(* The travel guard: STOP, verify, STOP, verify, AUTO and ATTACK, repeat *)

Ask(w, s, owner) ==
  {No(IF q.ok THEN [q EXCEPT !.guard.phase = @ + 1] ELSE q) :
     q \in {QueuePriorityAutoClick(w, s, owner)}}

\* w.ok: AutoFight is known to be off.
EnsureAutoFightOffForTravel(w, s) ==
  LET phase == w.guard.phase
      taken == ConsumePriorityAutoResult(w)
  IN IF s.fight = "unknown" THEN {No(w)}
     ELSE IF CanDispatchMovement(s) THEN {Yes(ResetTravelFightGuard(w))}
     ELSE IF phase \in {0, 3}
     THEN Ask(w, s, IF phase = 0 THEN "TravelGuardStop" ELSE "TravelGuardReset")
     ELSE IF phase = 1 THEN
       {No(IF ~HasResult(w, "TravelGuardStop") THEN w
           ELSE IF taken.ok THEN [taken EXCEPT !.guard.phase = 2, !.guard.stops = @ + 1]
           ELSE [taken EXCEPT !.guard.phase = 0])}
     ELSE IF phase = 2 THEN
       WhenDue(w, {No(IF NeedsAnotherStopBeforeReset(w) THEN [w EXCEPT !.guard.phase = 0]
                      ELSE [w EXCEPT !.guard.phase = 3, !.guard.stops = 0])},
                  {No(w)})
     ELSE IF phase = 4 THEN
       {No(IF ~HasResult(w, "TravelGuardReset") THEN w
           ELSE [taken EXCEPT !.guard.phase = IF taken.ok THEN 5 ELSE 3])}
     ELSE WhenDue(w, {No(ResetTravelFightGuard(w))}, {No(w)})

----------------------------------------------------------------------------
(* AutoPath and AutoFight on together *)

\* Mutant: the tick that sees both off goes on with its workflow.
ReleaseAndGoOn(w, s) ==
  LET v == IF Pathing(s) /\ Fighting(s) /\ w.guard.conflict = "no"
           THEN [ResetTravelFightGuard(w) EXCEPT !.guard.conflict = "new"] ELSE w
      stop == {[x EXCEPT !.guard.conflict = "stopping", !.done = TRUE] :
                 x \in Call(v, "StopPath")}
  IN IF s.path = "unknown" \/ s.fight = "unknown" THEN
       IF w.guard.conflict = "no" THEN {w} ELSE Handled(w)
     ELSE IF Dead(s) \/ v.guard.conflict = "no" THEN {w}
     ELSE IF ~Pathing(s) /\ ~Fighting(s) THEN {[v EXCEPT !.guard = IdleGuard]}
     ELSE IF ~Pathing(s) THEN Handle(EnsureAutoFightOffForTravel(v, s))
     ELSE IF v.guard.conflict = "new" THEN stop
     ELSE WhenDue(v, stop, Handled(v))

\* The path is stopped first, then the guard turns AutoFight off; both must be
\* seen off in one snapshot, and that tick does nothing else.
HandleAutoPathFightInvariant(w, s) ==
  LET v == IF Pathing(s) /\ Fighting(s) /\ w.guard.conflict = "no"
           THEN [ResetTravelFightGuard(w) EXCEPT !.guard.conflict = "new"] ELSE w
      stop == {[x EXCEPT !.guard.conflict = "stopping", !.done = TRUE] :
                 x \in Call(v, "StopPath")}
  IN IF s.path = "unknown" \/ s.fight = "unknown" THEN
       IF w.guard.conflict = "no" THEN {w} ELSE Handled(w)
     ELSE IF Dead(s) \/ v.guard.conflict = "no" THEN {w}
     ELSE IF ~Pathing(s) /\ ~Fighting(s) THEN Handled([v EXCEPT !.guard = IdleGuard])
     ELSE IF ~Pathing(s) THEN Handle(EnsureAutoFightOffForTravel(v, s))
     ELSE IF v.guard.conflict = "new" THEN stop
     ELSE WhenDue(v, stop, Handled(v))

----------------------------------------------------------------------------
(* Route and mount commands *)

\* A path to another map is armed for the confirmation at the gate.
ArmRoute(w, s, action, dest) ==
  IF w.ok /\ action = "StartPath" /\ MapOf(s.place) # MapOf(dest)
  THEN [w EXCEPT !.route.armed = TRUE, !.route.moved = @ /\ w.route.armed] ELSE w

\* CooldownReady: the same command as before waits for its delay.
SendWhenReady(w, s, action, dest) ==
  WhenDue(w, {ArmRoute(x, s, action, dest) : x \in Call(w, action)}, {No(w)})

SendDecision(w, s, action, dest) ==
  IF w.client # "ok" \/ (action = "StartPath" /\ w.guard.conflict # "no") THEN {No(w)}
  ELSE UNION {IF g.ok THEN SendWhenReady(g, s, action, dest) ELSE {g} :
                g \in IF action \in {"Mount", "StartPath"}
                      THEN EnsureAutoFightOffForTravel(w, s) ELSE {Yes(w)}}
=============================================================================
