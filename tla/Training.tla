------------------------------ MODULE Training ------------------------------
(***************************************************************************)
(* The account at its training spot: AutoFight is turned on with at most   *)
(* two tries, looked at every minute, and the position every three; an     *)
(* account that drifted away travels back.                                 *)
(***************************************************************************)
EXTENDS AutoSell

Fresh(w) == [w EXCEPT !.train.phase = 0, !.train.tries = 0]

\* A result is taken or a click asked for.
RequestFight(w, s) ==
  LET taken == ConsumePriorityAutoResult(w)
  IN IF HasResult(w, "Train")
     THEN [taken EXCEPT !.train.tries = @ + 1, !.train.phase = IF taken.ok THEN 2 ELSE 0]
     ELSE QueuePriorityAutoClick(w, s, "Train")

HandleFightClicks(w, s) ==
  LET again == [w EXCEPT !.train.phase = IF w.train.tries < 2 THEN 0 ELSE 2]
  IN IF ~P(w).fight THEN {Fresh(w)}
     ELSE IF s.fight = "unknown" THEN Handled(w)
     ELSE IF Fighting(s)
     THEN Handled([w EXCEPT !.train.phase = 3, !.train.tries = 0, !.train.monitor = TRUE])
     ELSE IF w.train.tries >= 2 THEN Handled([w EXCEPT !.train.phase = 3])
     ELSE IF w.train.phase = 2 THEN WhenDue(w, Handled(again), Handled(w))
     ELSE Handled(RequestFight([w EXCEPT !.train.phase = 0], s))

HandleTrainRecovery(w, s) ==
  LET arrived(x) == [x EXCEPT !.train.back = FALSE, !.train.at = FALSE,
                              !.train.phase = 0, !.train.tries = 0]
  IN IF ~w.train.back THEN {w}
     ELSE Handle({IF x.ok THEN arrived(x) ELSE x : x \in HandleRobustTravel(w, s, "spot")})

\* The check of every minute.  A busy account does not come here.
CheckAutoFight(w, s) ==
  WhenDue(w, IF s.fight = "unknown" THEN Handled(w)
             ELSE IF Fighting(s) THEN {w} ELSE HandleFightClicks(Fresh(w), s),
          {w})

\* The check of every three minutes; it owns the tick.
CheckPosition(w, s) ==
  WhenDue(w, IF AtTarget(s, "spot") THEN Handled(w)
             ELSE HandleTrainRecovery(BeginTrainRecovery(w), s),
          Handled(w))

Monitor(w, s) ==
  IF ~w.train.monitor THEN {w}
  ELSE IF AutoFightCheckBusy(w, s) THEN Handled(w)
  ELSE Then(Then(IF w.train.phase # 3 THEN HandleFightClicks(w, s) ELSE {w},
                 LAMBDA x : CheckAutoFight(x, s)),
            LAMBDA x : CheckPosition(x, s))

\* Travel to the spot, and the arrival there.
TrainOrRoute(w, s) ==
  LET action == Decide(s, "spot")
      away == [(IF w.train.at THEN Fresh(w) ELSE w) EXCEPT !.train.monitor = FALSE,
                                                           !.train.at = FALSE]
      v == IF AtTarget(s, "spot") THEN w ELSE away
      arrived == [(IF w.train.at THEN w ELSE Fresh(w)) EXCEPT !.train.at = TRUE]
  IN CASE action = "Hold" -> HandleFightClicks(arrived, s)
       [] action = "Wait" -> {v}
       [] OTHER -> SendDecision(v, s, action, "spot")
=============================================================================
