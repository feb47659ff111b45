--------------------------- MODULE AccountRuntime ---------------------------
(***************************************************************************)
(* What the handlers of one account of the v0.6.1.6 controller share.      *)
(*                                                                         *)
(* Tick runs the handlers one after the other on one thread, each on the   *)
(* fields the earlier ones left.  A handler is therefore an operator from  *)
(* the record w of those fields (module Account has them as variables) and *)
(* the snapshot s of this tick to the set of records it may leave: a call  *)
(* to the bridge may be answered, fail or time out, a timer may have run   *)
(* out or not.  Two fields of w are the handler's own: w.done, "this       *)
(* handler owns the tick" (most of them return it), and w.ok, the result   *)
(* of a call it made or of the question it answers.                        *)
(***************************************************************************)
EXTENDS Naturals, Sequences

CONSTANTS None,    \* no click, no map, no game
          Scenes   \* settings of the account and what it meets: see Account

\* The point InputSync clicks of an account, by the workflow that wants them.
\* TravelGuardStop clicks STOP; the others click AUTO and then ATTACK.
Owners == {"TravelGuardStop", "TravelGuardReset", "MountRecovery", "Train"}

ASSUME RuntimeAssumption == None \notin Owners

P(w) == Scenes[w.scene]

\* A snapshot: is the map ready; alive, dead or unknown; AutoFight and AutoPath
\* on, off or unknown; riding; the place; the free bag space, or None.
Fighting(s) == s.fight = "on"
Pathing(s)  == s.path = "on"
Dead(s)     == s.life = "dead"

\* The spot and the field around it are one map; so is the NPC's town, the
\* gate (Lau Lan, map 5) and the underworld (map 87).
MapOf(place) == IF place \in {"spot", "field"} THEN "train" ELSE place

----------------------------------------------------------------------------
(* RuntimeState, in parts *)

ClearBox  == [req |-> None, point |-> 0, res |-> None, ok |-> FALSE]
IdleGuard == [phase |-> 0, stops |-> 0, conflict |-> "no"]
IdleMount == [tries |-> 0, cycle |-> 0, boost |-> 0, foot |-> FALSE]
FreeRoute == [pending |-> FALSE, stops |-> 0, armed |-> FALSE, moved |-> FALSE,
              seen |-> FALSE, map |-> None]
IdleTrain == [phase |-> 0, tries |-> 0, at |-> FALSE, monitor |-> FALSE, back |-> FALSE]
NoSale    == [phase |-> 0, opens |-> 0, index |-> 0, repeat |-> 0, pass |-> 0,
              stable |-> FALSE]

ResetRuntime(w) ==
  [w EXCEPT !.client = "ok", !.revive = 0, !.box = ClearBox, !.guard = IdleGuard,
            !.mount = IdleMount, !.route = FreeRoute, !.train = IdleTrain, !.sell = NoSale]

ResetRobustTravel(w) == [w EXCEPT !.mount = IdleMount]

ResetTravelFightGuard(w) == [w EXCEPT !.guard.phase = 0, !.guard.stops = 0]

----------------------------------------------------------------------------
(* Results, order and time *)

Yes(w) == [w EXCEPT !.ok = TRUE]
No(w)  == [w EXCEPT !.ok = FALSE]
Handled(w) == {[w EXCEPT !.done = TRUE]}
Handle(ws) == {[w EXCEPT !.done = TRUE] : w \in ws}

\* The next handler runs unless one before it owned the tick.
Then(ws, Next(_)) == UNION {IF w.done THEN {w} ELSE Next(w) : w \in ws}

\* Elapsed: in a late tick every timer has run out, in others any may have.
WhenDue(w, due, early) == IF w.late THEN due ELSE due \cup early

----------------------------------------------------------------------------
(* The client freeze, and calls to the bridge *)

EnterClientFreeze(w) == [w EXCEPT !.client = "frozen", !.train.phase = 0]

\* The state reader did not answer.
MarkReadStateFailure(w) == EnterClientFreeze(w)

\* A call is answered, fails or times out ("timeout" or "Bridge busy"); every
\* caller freezes the client on a timeout.
Answered(w, what, answer) ==
  LET v == [w EXCEPT !.sent = Append(@, [do |-> what, answer |-> answer]),
                     !.ok = (answer = "ok")]
  IN IF answer = "timeout" THEN EnterClientFreeze(v) ELSE v

Answers(w) == IF w.calm THEN {"ok"} ELSE P(w).answers

Call(w, what) == {Answered(w, what, r) : r \in Answers(w)}

\* Actions resume when the window answers and the client stays stable for 2 s.
HoldUntilClientStable(w, s) ==
  IF ~s.ready THEN Handled(EnterClientFreeze(w))
  ELSE IF w.client = "ok" THEN {w}
  ELSE LET silent  == IF w.calm THEN {} ELSE Handled([w EXCEPT !.client = "frozen"])
           settle  == Handled([w EXCEPT !.client = "settling"])
           resumed == {[w EXCEPT !.client = "ok"]}
       IN silent \cup (IF w.client = "frozen" THEN settle
                       ELSE WhenDue(w, resumed, Handled(w)))
=============================================================================
