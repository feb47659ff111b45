---------------------------- MODULE RobustTravel ----------------------------
(***************************************************************************)
(* Robust travel: two attempts to mount, ten seconds of fighting, two more *)
(* attempts, then at most fifteen seconds on foot, and again.  The sale    *)
(* and the return to the training spot share it.                           *)
(***************************************************************************)
EXTENDS AutoFightGuard

AtTarget(s, dest) == s.place = dest

Decide(s, dest) ==
  IF AtTarget(s, dest)
  THEN IF Pathing(s) THEN "StopPath" ELSE IF s.riding THEN "Dismount" ELSE "Hold"
  ELSE IF ~s.riding THEN "Mount" ELSE IF ~Pathing(s) THEN "StartPath" ELSE "Wait"

\* due: the wait for the mount, or the walk, is over.
DecideMountAssist(w, s, due) ==
  LET path == IF Pathing(s) THEN "Wait" ELSE "StartPath"
  IN IF s.riding THEN path
     ELSE IF w.mount.foot THEN (IF due THEN "FinishFootCycle" ELSE path)
     ELSE IF w.mount.tries = 0 THEN "Mount"
     ELSE IF ~due THEN "Wait"
     ELSE IF w.mount.tries = 1 THEN "Mount" ELSE "MountCycleFailed"

\* Turn AutoFight on, fight for ten seconds, turn it off: the second cycle.
HandleMountFightBoost(w, s) ==
  LET boost == w.mount.boost
      fight == {[w EXCEPT !.mount.boost = 5]}
      ask   == QueuePriorityAutoClick(w, s, "MountRecovery")
      taken == ConsumePriorityAutoResult(w)
      again(g) == IF g.ok THEN [g EXCEPT !.mount = [IdleMount EXCEPT !.cycle = 1]] ELSE g
  IN IF s.fight = "unknown" THEN {w}
     ELSE IF boost = 0 THEN
       IF Fighting(s) THEN fight ELSE {IF ask.ok THEN [ask EXCEPT !.mount.boost = 1] ELSE ask}
     ELSE IF boost = 1 THEN
       IF HasResult(w, "MountRecovery")
       THEN {[taken EXCEPT !.mount.boost = IF taken.ok THEN 4 ELSE 0]} ELSE {w}
     ELSE IF boost = 4 THEN
       IF Fighting(s) THEN fight
       ELSE WhenDue(w, {[w EXCEPT !.mount.boost = 0]}, {w})
     ELSE WhenDue(w, {again(g) : g \in EnsureAutoFightOffForTravel(w, s)}, {w})

\* One assisted step; the character is not at its destination and no boost runs.
AssistedStep(w, s, dest, assist) ==
  IF assist = "StartPath"
  THEN SendDecision(IF s.riding THEN ResetRobustTravel(w) ELSE w, s, assist, dest)
  ELSE IF s.riding THEN {ResetRobustTravel(w)}
  ELSE IF assist = "FinishFootCycle"
  THEN {ResetTravelFightGuard(ResetRobustTravel(x)) :
          x \in IF Pathing(s) THEN SendDecision(w, s, "StopPath", dest) ELSE {w}}
  ELSE IF assist = "Wait" THEN {w}
  ELSE IF assist = "Mount"
  THEN {IF x.ok THEN [x EXCEPT !.mount.tries = IF @ = 2 THEN 2 ELSE @ + 1] ELSE x :
          x \in SendDecision(w, s, assist, dest)}
  ELSE IF w.mount.cycle = 0 THEN HandleMountFightBoost([w EXCEPT !.mount.boost = 0], s)
  ELSE {IF x.ok THEN [x EXCEPT !.mount.foot = TRUE] ELSE x :
          x \in UNION {IF g.ok THEN SendDecision(g, s, "StartPath", dest) ELSE {g} :
                         g \in EnsureAutoFightOffForTravel(w, s)}}

\* w.ok: arrived, dismounted and with AutoPath off.
HandleRobustTravel(w, s, dest) ==
  LET action == Decide(s, dest)
      dues   == IF w.late THEN {TRUE} ELSE BOOLEAN
  IN IF action = "Hold" THEN {Yes(ResetTravelFightGuard(ResetRobustTravel(w)))}
     ELSE {No(x) : x \in
       IF action \in {"StopPath", "Dismount"} THEN SendDecision(w, s, action, dest)
       ELSE IF w.mount.boost # 0 THEN HandleMountFightBoost(w, s)
       ELSE UNION {AssistedStep(w, s, dest, DecideMountAssist(w, s, due)) : due \in dues}}
=============================================================================
