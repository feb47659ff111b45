----------------------------- MODULE MCAccount -----------------------------
(* Instances of Account for TLC. *)
EXTENDS Account

Shots(lives, fights, paths, rides, places, bags) ==
  [ready : {TRUE}, life : lives, fight : fights, path : paths, riding : rides,
   place : places, bag : bags]

Shot(fight, place, bag) ==
  [ready |-> TRUE, life |-> "alive", fight |-> fight, path |-> "off", riding |-> FALSE,
   place |-> place, bag |-> bag]

\* A map that loads; a client whose getters are not ready.
Loading == [Shot("off", "field", None) EXCEPT !.ready = FALSE]
Blind   == [Shot("unknown", "field", None) EXCEPT !.life = "unknown", !.path = "unknown"]

Basic == [fight |-> FALSE, revive |-> FALSE, confirm |-> FALSE, sell |-> FALSE,
          rotate |-> FALSE, answers |-> {"ok", "fail"}, snaps |-> {}, calm |-> {}]

Alive == {"alive"}
Any   == {"off", "on"}

\* An account that fights at its spot, drifts away, travels back; AutoPath and
\* AutoFight may be on together.
Train ==
  [Basic EXCEPT !.fight = TRUE,
     !.snaps = Shots(Alive, Any, Any, BOOLEAN, {"spot", "field"}, {None}) \cup {Blind}]

\* Calls time out, maps load, the client freezes, on a route with a gate.
Route ==
  [Basic EXCEPT !.fight = TRUE, !.confirm = TRUE, !.answers = {"ok", "fail", "timeout"},
     !.snaps = Shots(Alive, {"off"}, Any, {TRUE}, {"field", "gate"}, {None})
               \cup {Loading, Blind, Shot("off", "spot", None), Shot("on", "spot", None)}]

\* Deaths, revivals, the underworld, spots that are left.
Life ==
  [Basic EXCEPT !.fight = TRUE, !.revive = TRUE, !.rotate = TRUE,
     !.snaps = Shots({"alive", "dead", "unknown"}, Any, Any, {FALSE}, {"spot", "underworld"}, {1})]

\* A sale whose requests time out and are carried out all the same.
Sell ==
  [Basic EXCEPT !.sell = TRUE, !.answers = {"ok", "fail", "timeout"},
     !.snaps = Shots(Alive, {"off"}, {"off"}, {FALSE}, {"spot", "npc"}, {0, 1}) \cup {Shot("off", "npc", None)},
     !.calm = {Shot("off", "npc", 0)}]

\* A sale of an account that fights, drifts and dies; the game begins to
\* cooperate while it fights, with or without AutoPath.
Market ==
  [Basic EXCEPT !.fight = TRUE, !.sell = TRUE, !.answers = {"ok"},
     !.snaps = {Shot("off", "npc", 0), Shot("off", "npc", 1), Shot("on", "spot", 0),
                Shot("off", "spot", 1), [Shot("on", "npc", 0) EXCEPT !.life = "dead"]},
     !.calm = {Shot("on", "npc", 0), [Shot("on", "spot", 0) EXCEPT !.path = "on"]}]

MCScenes == [train |-> Train, route |-> Route, life |-> Life, sell |-> Sell, market |-> Market]

\* A route from another map, every call of which succeeds; then the account has
\* arrived and dismounted.
Voyage ==
  [Basic EXCEPT !.fight = TRUE, !.answers = {"ok"},
     !.snaps = Shots(Alive, {"off"}, Any, BOOLEAN, {"npc"}, {1}),
     !.calm = {Shot("off", "spot", 1)}]

VoyageScenes == [voyage |-> Voyage]
=============================================================================
