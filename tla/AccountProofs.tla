--------------------------- MODULE AccountProofs ---------------------------
(***************************************************************************)
(* Two invariants of the account, for every scene: one click is in the     *)
(* mailbox at a time (OneClickInFlight), and nothing of the old life is    *)
(* left or begun during a death session (NoCarryOver).  A tick is one      *)
(* composition of operators on the record of the account's fields, so the  *)
(* proof follows the operators: each one takes a good record to good ones. *)
(* What only a living account does is shown to keep it alive and the       *)
(* mailbox in order; what may also happen in a death session, to write     *)
(* nothing that has to stay at rest.                                       *)
(***************************************************************************)
EXTENDS Account, TLAPS

\* The owners of a click that a death session has no use for.
Workers == {"Train", "MountRecovery"}

\* A mailbox: its fields, OneClickInFlight, and the clicks of a death session.
IsBox(b) == b = [req |-> b.req, point |-> b.point, res |-> b.res, ok |-> b.ok]

OneClick(b) ==
  /\ IsBox(b) /\ b.req \in Owners \cup {None}
  /\ b.req = None \/ b.res = None
  /\ b.point = 1 => b.req \in Owners \ {"TravelGuardStop"}

FitBox(life, b) ==
  OneClick(b) /\ (life = "dead" => b.req \notin Workers /\ b.res \notin Workers)

\* The record a handler works on: its fields, and those of three of them.
IsRecord(w) ==
  w = [scene |-> w.scene, client |-> w.client, box |-> w.box, guard |-> w.guard,
       mount |-> w.mount, route |-> w.route, train |-> w.train, sell |-> w.sell,
       revive |-> w.revive, kept |-> w.kept, shop |-> w.shop, sent |-> w.sent,
       calm |-> w.calm, late |-> w.late, ok |-> w.ok, done |-> w.done,
       closed |-> w.closed]

IsKept(k) == k = [latched |-> k.latched, deaths |-> k.deaths, learned |-> k.learned]

RouteAtRest(r) ==
  /\ r = [pending |-> r.pending, stops |-> r.stops, armed |-> r.armed, moved |-> r.moved,
          seen |-> r.seen, map |-> r.map]
  /\ ~r.armed

TrainAtRest(t) ==
  /\ t = [phase |-> t.phase, tries |-> 0, at |-> t.at, monitor |-> t.monitor, back |-> t.back]
  /\ ~t.monitor /\ ~t.back

AtRest(mounts, r, t, sale) ==
  mounts = IdleMount /\ RouteAtRest(r) /\ TrainAtRest(t) /\ sale = NoSale

\* A good record of a living account, or of one in a death session.
Good(life, w) ==
  /\ IsRecord(w) /\ FitBox(life, w.box) /\ IsKept(w.kept)
  /\ IF life = "dead" THEN w.kept.latched /\ AtRest(w.mount, w.route, w.train, w.sell)
     ELSE ~w.kept.latched

AllGood(life, ws) == \A w \in ws : Good(life, w)

RecordOf(a, b, c, d, e, f, g, h, i, j, k, l, m, n, o, p, q) ==
  [scene |-> a, client |-> b, box |-> c, guard |-> d, mount |-> e, route |-> f,
   train |-> g, sell |-> h, revive |-> i, kept |-> j, shop |-> k, sent |-> l,
   calm |-> m, late |-> n, ok |-> o, done |-> p, closed |-> q]

\* Records of this form have parts that the prover can work with.
LEMMA RecordParts ==
  ASSUME NEW w, IsRecord(w)
  PROVE  \E a, b, c, d, e, f, g, h, i, j, k, l, m, n, o, p, q :
           w = RecordOf(a, b, c, d, e, f, g, h, i, j, k, l, m, n, o, p, q)
BY DEF IsRecord, RecordOf

\* A good record in parts: what the fields have to satisfy, and nothing else.
LEMMA GoodParts ==
  ASSUME NEW life, NEW a, NEW b, NEW c, NEW d, NEW e, NEW f, NEW g, NEW h, NEW i, NEW j,
         NEW k, NEW l, NEW m, NEW n, NEW o, NEW p, NEW q
  PROVE  Good(life, RecordOf(a, b, c, d, e, f, g, h, i, j, k, l, m, n, o, p, q)) <=>
           /\ FitBox(life, c) /\ IsKept(j)
           /\ IF life = "dead" THEN j.latched /\ AtRest(e, f, g, h) ELSE ~j.latched
BY DEF Good, IsRecord, RecordOf

\* Writing one field leaves a good record, if the field may be written in this life.
LEMMA FieldWritten ==
  ASSUME NEW life, NEW w, Good(life, w), NEW x
  PROVE  /\ Good(life, [w EXCEPT !.client = x]) /\ Good(life, [w EXCEPT !.guard = x])
         /\ Good(life, [w EXCEPT !.revive = x]) /\ Good(life, [w EXCEPT !.shop = x])
         /\ Good(life, [w EXCEPT !.sent = x]) /\ Good(life, [w EXCEPT !.ok = x])
         /\ Good(life, [w EXCEPT !.done = x]) /\ Good(life, [w EXCEPT !.closed = x])
         /\ FitBox(life, x) => Good(life, [w EXCEPT !.box = x])
         /\ life # "dead" \/ x = IdleMount => Good(life, [w EXCEPT !.mount = x])
         /\ life # "dead" \/ RouteAtRest(x) => Good(life, [w EXCEPT !.route = x])
         /\ life # "dead" \/ TrainAtRest(x) => Good(life, [w EXCEPT !.train = x])
         /\ life # "dead" \/ x = NoSale => Good(life, [w EXCEPT !.sell = x])
         /\ IsKept(x) /\ (x.latched <=> w.kept.latched) => Good(life, [w EXCEPT !.kept = x])
<1>1. PICK a, b, c, d, e, f, g, h, i, j, k, l, m, n, o, p, q :
           w = RecordOf(a, b, c, d, e, f, g, h, i, j, k, l, m, n, o, p, q)
  BY RecordParts DEF Good
<1>2. /\ FitBox(life, c) /\ IsKept(j)
      /\ IF life = "dead" THEN j.latched /\ AtRest(e, f, g, h) ELSE ~j.latched
  BY <1>1, GoodParts
<1>3. /\ [w EXCEPT !.client = x] = RecordOf(a, x, c, d, e, f, g, h, i, j, k, l, m, n, o, p, q)
      /\ [w EXCEPT !.guard = x] = RecordOf(a, b, c, x, e, f, g, h, i, j, k, l, m, n, o, p, q)
      /\ [w EXCEPT !.revive = x] = RecordOf(a, b, c, d, e, f, g, h, x, j, k, l, m, n, o, p, q)
      /\ [w EXCEPT !.shop = x] = RecordOf(a, b, c, d, e, f, g, h, i, j, x, l, m, n, o, p, q)
      /\ [w EXCEPT !.sent = x] = RecordOf(a, b, c, d, e, f, g, h, i, j, k, x, m, n, o, p, q)
      /\ [w EXCEPT !.ok = x] = RecordOf(a, b, c, d, e, f, g, h, i, j, k, l, m, n, x, p, q)
      /\ [w EXCEPT !.done = x] = RecordOf(a, b, c, d, e, f, g, h, i, j, k, l, m, n, o, x, q)
      /\ [w EXCEPT !.closed = x] = RecordOf(a, b, c, d, e, f, g, h, i, j, k, l, m, n, o, p, x)
  BY <1>1 DEF RecordOf
<1>4. /\ [w EXCEPT !.box = x] = RecordOf(a, b, x, d, e, f, g, h, i, j, k, l, m, n, o, p, q)
      /\ [w EXCEPT !.mount = x] = RecordOf(a, b, c, d, x, f, g, h, i, j, k, l, m, n, o, p, q)
      /\ [w EXCEPT !.route = x] = RecordOf(a, b, c, d, e, x, g, h, i, j, k, l, m, n, o, p, q)
      /\ [w EXCEPT !.train = x] = RecordOf(a, b, c, d, e, f, x, h, i, j, k, l, m, n, o, p, q)
      /\ [w EXCEPT !.sell = x] = RecordOf(a, b, c, d, e, f, g, x, i, j, k, l, m, n, o, p, q)
      /\ [w EXCEPT !.kept = x] = RecordOf(a, b, c, d, e, f, g, h, i, x, k, l, m, n, o, p, q)
      /\ w.kept = j
  BY <1>1 DEF RecordOf
<1>5. /\ Good(life, [w EXCEPT !.client = x]) /\ Good(life, [w EXCEPT !.guard = x])
      /\ Good(life, [w EXCEPT !.revive = x]) /\ Good(life, [w EXCEPT !.shop = x])
      /\ Good(life, [w EXCEPT !.sent = x]) /\ Good(life, [w EXCEPT !.ok = x])
      /\ Good(life, [w EXCEPT !.done = x]) /\ Good(life, [w EXCEPT !.closed = x])
  BY <1>2, <1>3, GoodParts
<1>6. FitBox(life, x) => Good(life, [w EXCEPT !.box = x])
  BY <1>2, <1>4, GoodParts
<1>7. /\ life # "dead" \/ x = IdleMount => Good(life, [w EXCEPT !.mount = x])
      /\ life # "dead" \/ RouteAtRest(x) => Good(life, [w EXCEPT !.route = x])
  BY <1>2, <1>4, GoodParts DEF AtRest
<1>8. /\ life # "dead" \/ TrainAtRest(x) => Good(life, [w EXCEPT !.train = x])
      /\ life # "dead" \/ x = NoSale => Good(life, [w EXCEPT !.sell = x])
  BY <1>2, <1>4, GoodParts DEF AtRest
<1>9. IsKept(x) /\ (x.latched <=> w.kept.latched) => Good(life, [w EXCEPT !.kept = x])
  BY <1>2, <1>4, GoodParts
<1> QED BY <1>5, <1>6, <1>7, <1>8, <1>9

\* The fields that any operator may write, for any record.
LEMMA Writes ==
  /\ \A life, w, x : Good(life, w) => Good(life, [w EXCEPT !.client = x])
  /\ \A life, w, x : Good(life, w) => Good(life, [w EXCEPT !.guard = x])
  /\ \A life, w, x : Good(life, w) => Good(life, [w EXCEPT !.revive = x])
  /\ \A life, w, x : Good(life, w) => Good(life, [w EXCEPT !.shop = x])
  /\ \A life, w, x : Good(life, w) => Good(life, [w EXCEPT !.sent = x])
  /\ \A life, w, x : Good(life, w) => Good(life, [w EXCEPT !.ok = x])
  /\ \A life, w, x : Good(life, w) => Good(life, [w EXCEPT !.done = x])
  /\ \A life, w, x : Good(life, w) => Good(life, [w EXCEPT !.closed = x])
  /\ \A life, w, x : Good(life, w) /\ FitBox(life, x) => Good(life, [w EXCEPT !.box = x])
BY FieldWritten, Zenon

\* The fields of a workflow, which a living account may write.
LEMMA WorkWrites ==
  /\ \A w, x : Good("alive", w) => Good("alive", [w EXCEPT !.mount = x])
  /\ \A w, x : Good("alive", w) => Good("alive", [w EXCEPT !.route = x])
  /\ \A w, x : Good("alive", w) => Good("alive", [w EXCEPT !.train = x])
  /\ \A w, x : Good("alive", w) => Good("alive", [w EXCEPT !.sell = x])
BY FieldWritten

\* What the account keeps of its lives.
LEMMA KeptWrites ==
  /\ \A life, w, x : Good(life, w) => Good(life, [w EXCEPT !.kept.deaths = x])
  /\ \A life, w, x : Good(life, w) => Good(life, [w EXCEPT !.kept.learned = x])
<1> SUFFICES ASSUME NEW life, NEW w, Good(life, w), NEW x
             PROVE  /\ Good(life, [w EXCEPT !.kept = [w.kept EXCEPT !.deaths = x]])
                    /\ Good(life, [w EXCEPT !.kept = [w.kept EXCEPT !.learned = x]])
  BY Zenon
<1> DEFINE k == w.kept
<1>1. IsKept(k)
  BY DEF Good
<1> HIDE DEF k
<1>2. /\ IsKept([k EXCEPT !.deaths = x]) /\ ([k EXCEPT !.deaths = x].latched <=> k.latched)
      /\ IsKept([k EXCEPT !.learned = x]) /\ ([k EXCEPT !.learned = x].latched <=> k.latched)
  BY <1>1 DEF IsKept
<1> QED BY <1>2, FieldWritten DEF k

\* What a death session may still write of the training and of the route.
LEMMA RestWrites ==
  /\ \A life, w : Good(life, w) => /\ Good(life, [w EXCEPT !.train.phase = 0])
                                  /\ Good(life, [w EXCEPT !.train.tries = 0])
  /\ \A life, w, x : Good(life, w) => /\ Good(life, [w EXCEPT !.train.at = x])
                                     /\ Good(life, [w EXCEPT !.route.map = x])
                                     /\ Good(life, [w EXCEPT !.route.moved = x])
                                     /\ Good(life, [w EXCEPT !.route.seen = x])
                                     /\ Good(life, [w EXCEPT !.route.pending = x])
<1> SUFFICES ASSUME NEW life, NEW w, Good(life, w), NEW x
             PROVE  /\ Good(life, [w EXCEPT !.train = [w.train EXCEPT !.phase = 0]])
                    /\ Good(life, [w EXCEPT !.train = [w.train EXCEPT !.tries = 0]])
                    /\ Good(life, [w EXCEPT !.train = [w.train EXCEPT !.at = x]])
                    /\ Good(life, [w EXCEPT !.route = [w.route EXCEPT !.map = x]])
                    /\ Good(life, [w EXCEPT !.route = [w.route EXCEPT !.moved = x]])
                    /\ Good(life, [w EXCEPT !.route = [w.route EXCEPT !.seen = x]])
                    /\ Good(life, [w EXCEPT !.route = [w.route EXCEPT !.pending = x]])
  BY Zenon
<1>1. life = "dead" => TrainAtRest(w.train) /\ RouteAtRest(w.route)
  BY DEF Good, AtRest
<1>2. \A t : TrainAtRest(t) => /\ TrainAtRest([t EXCEPT !.phase = 0])
                             /\ TrainAtRest([t EXCEPT !.tries = 0])
                             /\ TrainAtRest([t EXCEPT !.at = x])
  BY DEF TrainAtRest
<1>3. \A r : RouteAtRest(r) => /\ RouteAtRest([r EXCEPT !.map = x])
                             /\ RouteAtRest([r EXCEPT !.moved = x])
                             /\ RouteAtRest([r EXCEPT !.seen = x])
                             /\ RouteAtRest([r EXCEPT !.pending = x])
  BY DEF RouteAtRest
<1> QED BY <1>1, <1>2, <1>3, FieldWritten

----------------------------------------------------------------------------
(* AccountRuntime *)

\* The empty mailbox is a good one.
LEMMA ClearBoxGood == \A life : FitBox(life, ClearBox)
BY RuntimeAssumption DEF ClearBox, FitBox, OneClick, IsBox, Workers, Owners

\* What a reset leaves is at rest.
LEMMA IdleIsAtRest == RouteAtRest(FreeRoute) /\ TrainAtRest(IdleTrain)
BY DEF RouteAtRest, TrainAtRest, FreeRoute, IdleTrain

\* A reset leaves the mailbox empty or as it is.
LEMMA Resets ==
  ASSUME NEW life, NEW w, Good(life, w)
  PROVE  /\ Good(life, ResetRuntime(w)) /\ Good(life, ResetRobustTravel(w))
         /\ Good(life, ResetTravelFightGuard(w))
<1>1. Good(life, ResetRuntime(w))
  BY FieldWritten, ClearBoxGood, IdleIsAtRest, Zenon DEF ResetRuntime
<1>2. Good(life, ResetRobustTravel(w))
  BY FieldWritten, Zenon DEF ResetRobustTravel
<1>3. Good(life, ResetTravelFightGuard(w))
  BY Writes, Zenon DEF ResetTravelFightGuard
<1> QED BY <1>1, <1>2, <1>3

\* Latching or releasing a record at rest.
LEMMA Latches ==
  ASSUME NEW life, NEW w, Good(life, w)
  PROVE  /\ Good("alive", [w EXCEPT !.kept.latched = FALSE])
         /\ AtRest(w.mount, w.route, w.train, w.sell) /\ FitBox("dead", w.box)
              => Good("dead", [w EXCEPT !.kept.latched = TRUE])
<1>1. PICK a, b, c, d, e, f, g, h, i, j, k, l, m, n, o, p, q :
           w = RecordOf(a, b, c, d, e, f, g, h, i, j, k, l, m, n, o, p, q)
  BY RecordParts DEF Good
<1>2. FitBox(life, c) /\ IsKept(j)
  BY <1>1, GoodParts
<1>3. w.mount = e /\ w.route = f /\ w.train = g /\ w.sell = h /\ w.box = c /\ w.kept = j
  BY <1>1 DEF RecordOf
<1>4. \A x : [w EXCEPT !.kept = x] =
               RecordOf(a, b, c, d, e, f, g, h, i, x, k, l, m, n, o, p, q)
  BY <1>1 DEF RecordOf
<1>5. FitBox("alive", c)
  BY <1>2 DEF FitBox
<1>8. \A x : [j EXCEPT !.latched = x] =
               [latched |-> x, deaths |-> j.deaths, learned |-> j.learned]
  BY <1>2 DEF IsKept
<1>6. Good("alive", [w EXCEPT !.kept.latched = FALSE])
  <2> DEFINE kk == [j EXCEPT !.latched = FALSE]
  <2>1. kk = [latched |-> FALSE, deaths |-> j.deaths, learned |-> j.learned]
    BY <1>8, Zenon
  <2>2. [w EXCEPT !.kept.latched = FALSE] = [w EXCEPT !.kept = kk]
    BY <1>3
  <2> HIDE DEF kk
  <2>4. IsKept(kk) /\ ~kk.latched
    BY <2>1 DEF IsKept
  <2>3. Good("alive", RecordOf(a, b, c, d, e, f, g, h, i, kk, k, l, m, n, o, p, q))
    BY <1>5, <2>4, GoodParts
  <2> QED BY <1>4, <2>2, <2>3
<1>7. ASSUME AtRest(e, f, g, h), FitBox("dead", c)
      PROVE  Good("dead", [w EXCEPT !.kept.latched = TRUE])
  <2> DEFINE kk == [j EXCEPT !.latched = TRUE]
  <2>1. kk = [latched |-> TRUE, deaths |-> j.deaths, learned |-> j.learned]
    BY <1>8, Zenon
  <2>2. [w EXCEPT !.kept.latched = TRUE] = [w EXCEPT !.kept = kk]
    BY <1>3
  <2> HIDE DEF kk
  <2>4. IsKept(kk) /\ kk.latched
    BY <2>1 DEF IsKept
  <2>3. Good("dead", RecordOf(a, b, c, d, e, f, g, h, i, kk, k, l, m, n, o, p, q))
    BY <1>7, <2>4, GoodParts
  <2> QED BY <1>4, <2>2, <2>3
<1> QED BY <1>3, <1>6, <1>7

\* After a reset the account is at rest.
LEMMA ResetIsAtRest ==
  ASSUME NEW life, NEW w, Good(life, w), NEW v, v = ResetRuntime(w)
  PROVE  AtRest(v.mount, v.route, v.train, v.sell) /\ FitBox("dead", v.box)
<1>1. PICK a, b, c, d, e, f, g, h, i, j, k, l, m, n, o, p, q :
           w = RecordOf(a, b, c, d, e, f, g, h, i, j, k, l, m, n, o, p, q)
  BY RecordParts DEF Good
<1> DEFINE w1 == [w EXCEPT !.client = "ok"]
           w2 == [w1 EXCEPT !.revive = 0]
           w3 == [w2 EXCEPT !.box = ClearBox]
           w4 == [w3 EXCEPT !.guard = IdleGuard]
           w5 == [w4 EXCEPT !.mount = IdleMount]
           w6 == [w5 EXCEPT !.route = FreeRoute]
           w7 == [w6 EXCEPT !.train = IdleTrain]
<1>2. v = [w7 EXCEPT !.sell = NoSale]
  BY Zenon DEF ResetRuntime
<1>11. w1 = RecordOf(a, "ok", c, d, e, f, g, h, i, j, k, l, m, n, o, p, q)
  BY <1>1 DEF RecordOf
<1> HIDE DEF w1
<1>12. w2 = RecordOf(a, "ok", c, d, e, f, g, h, 0, j, k, l, m, n, o, p, q)
  BY <1>11 DEF RecordOf
<1> HIDE DEF w2
<1>13. w3 = RecordOf(a, "ok", ClearBox, d, e, f, g, h, 0, j, k, l, m, n, o, p, q)
  BY <1>12 DEF RecordOf
<1> HIDE DEF w3
<1>14. w4 = RecordOf(a, "ok", ClearBox, IdleGuard, e, f, g, h, 0, j, k, l, m, n, o, p, q)
  BY <1>13 DEF RecordOf
<1> HIDE DEF w4
<1>15. w5 = RecordOf(a, "ok", ClearBox, IdleGuard, IdleMount, f, g, h, 0, j, k, l, m, n, o, p, q)
  BY <1>14 DEF RecordOf
<1> HIDE DEF w5
<1>16. w6 = RecordOf(a, "ok", ClearBox, IdleGuard, IdleMount, FreeRoute, g, h, 0, j, k, l, m, n,
                     o, p, q)
  BY <1>15 DEF RecordOf
<1> HIDE DEF w6
<1>17. w7 = RecordOf(a, "ok", ClearBox, IdleGuard, IdleMount, FreeRoute, IdleTrain, h, 0, j, k,
                     l, m, n, o, p, q)
  BY <1>16 DEF RecordOf
<1> HIDE DEF w7
<1>20. /\ v.box = ClearBox /\ v.mount = IdleMount /\ v.route = FreeRoute
       /\ v.train = IdleTrain /\ v.sell = NoSale
  BY <1>2, <1>17 DEF RecordOf
<1> QED BY <1>20, IdleIsAtRest, ClearBoxGood DEF AtRest

\* A life begins, or ends, with a reset; whatever life it was before.
LEMMA LifeBegins ==
  ASSUME NEW life, NEW w, Good(life, w)
  PROVE  /\ Good("alive", [ResetRuntime(w) EXCEPT !.kept.latched = FALSE])
         /\ Good("dead", [ResetRuntime(w) EXCEPT !.kept.latched = TRUE])
BY Resets, ResetIsAtRest, Latches

\* Who owns the tick, a question's answer and a timer do not touch the mailbox.
LEMMA Handles ==
  /\ \A life, w : Good(life, w) => /\ Good(life, Yes(w)) /\ Good(life, No(w))
                                  /\ AllGood(life, Handled(w)) /\ AllGood(life, {w})
  /\ \A life, ws : AllGood(life, ws) => AllGood(life, Handle(ws))
  /\ \A life, w, due, early :
       AllGood(life, due) /\ AllGood(life, early) => AllGood(life, WhenDue(w, due, early))
<1> SUFFICES ASSUME NEW life
             PROVE  /\ \A w : Good(life, w) => /\ Good(life, Yes(w)) /\ Good(life, No(w))
                                             /\ AllGood(life, Handled(w)) /\ AllGood(life, {w})
                    /\ \A ws : AllGood(life, ws) => AllGood(life, Handle(ws))
                    /\ \A w, due, early : AllGood(life, due) /\ AllGood(life, early)
                                         => AllGood(life, WhenDue(w, due, early))
  BY Zenon
<1>1. \A w : Good(life, w) => Good(life, Yes(w)) /\ Good(life, No(w))
  BY Writes, Zenon DEF Yes, No
<1>2. \A w : Good(life, w) => Good(life, [w EXCEPT !.done = TRUE])
  BY Writes, Zenon
<1>3. \A w : Good(life, w) => AllGood(life, Handled(w))
  BY <1>2, Zenon DEF Handled, AllGood
<1>4. \A ws : AllGood(life, ws) => AllGood(life, Handle(ws))
  BY <1>2, Zenon DEF Handle, AllGood
<1>5. \A w, due, early : AllGood(life, due) /\ AllGood(life, early)
                       => AllGood(life, WhenDue(w, due, early))
  BY Zenon DEF WhenDue, AllGood
<1>6. \A w : Good(life, w) => AllGood(life, {w})
  BY Zenon DEF AllGood
<1> QED BY <1>1, <1>3, <1>4, <1>5, <1>6

\* A freeze keeps the request for later, and the training where it is.
LEMMA Freezes ==
  ASSUME NEW life, NEW w, Good(life, w)
  PROVE  Good(life, EnterClientFreeze(w)) /\ Good(life, MarkReadStateFailure(w))
BY Writes, RestWrites, Zenon DEF EnterClientFreeze, MarkReadStateFailure

\* However a call is answered.
LEMMA AnsweredGood ==
  ASSUME NEW life, NEW w, Good(life, w), NEW what, NEW answer
  PROVE  Good(life, Answered(w, what, answer))
<1> DEFINE v == [w EXCEPT !.sent = Append(@, [do |-> what, answer |-> answer]),
                          !.ok = (answer = "ok")]
<1>1. Good(life, v)
  BY Writes, Zenon
<1> HIDE DEF v
<1>2. Good(life, EnterClientFreeze(v))
  BY <1>1, Freezes
<1> QED BY <1>1, <1>2, Zenon DEF Answered, v

\* A call, whatever it ends with.
LEMMA CallGood ==
  ASSUME NEW life, NEW w, Good(life, w), NEW what
  PROVE  AllGood(life, Call(w, what))
BY AnsweredGood, Zenon DEF Call, AllGood

\* A call itself leaves the mailbox alone.
LEMMA CallKeepsBox ==
  ASSUME NEW life, NEW w, Good(life, w), NEW what, NEW v \in Call(w, what)
  PROVE  v.box = w.box
<1> SUFFICES ASSUME NEW answer
             PROVE  Answered(w, what, answer).box = w.box
  BY Zenon DEF Call
<1>1. PICK a, b, c, d, e, f, g, h, i, j, k, l, m, n, o, p, q :
           w = RecordOf(a, b, c, d, e, f, g, h, i, j, k, l, m, n, o, p, q)
  BY RecordParts DEF Good
<1> QED BY <1>1 DEF Answered, EnterClientFreeze, RecordOf

\* The wait for a stable client.
LEMMA HoldGood ==
  ASSUME NEW life, NEW w, Good(life, w), NEW s
  PROVE  AllGood(life, HoldUntilClientStable(w, s))
<1> DEFINE silent  == IF w.calm THEN {} ELSE Handled([w EXCEPT !.client = "frozen"])
           settle  == Handled([w EXCEPT !.client = "settling"])
           resumed == {[w EXCEPT !.client = "ok"]}
<1>1. AllGood(life, silent) /\ AllGood(life, settle) /\ AllGood(life, resumed)
  BY Writes, Handles, Zenon DEF AllGood
<1>2. /\ AllGood(life, Handled(EnterClientFreeze(w))) /\ AllGood(life, Handled(w))
      /\ AllGood(life, {w})
  BY Freezes, Handles
<1> HIDE DEF silent, settle, resumed
<1>3. AllGood(life, WhenDue(w, resumed, Handled(w)))
  BY <1>1, <1>2, Handles
<1>4. AllGood(life, silent \cup (IF w.client = "frozen" THEN settle
                               ELSE WhenDue(w, resumed, Handled(w))))
  BY <1>1, <1>3, Zenon DEF AllGood
<1> QED BY <1>2, <1>4, Zenon DEF HoldUntilClientStable, silent, settle, resumed

----------------------------------------------------------------------------
(* AutoFightGuard: the mailbox *)

\* The owners that may ask in this life.
Asking(life, owner) == owner \in Owners /\ (life = "dead" => owner \notin Workers)

\* What the guard and the priority pass write into a mailbox; a request only into
\* an empty one.
LEMMA BoxWritten ==
  ASSUME NEW life, NEW b, FitBox(life, b)
  PROVE  /\ FitBox(life, [b EXCEPT !.res = None]) /\ FitBox(life, [b EXCEPT !.point = 0])
         /\ \A x : FitBox(life, [b EXCEPT !.ok = x])
         /\ b.req = None /\ b.res = None
              => \A o : Asking(life, o) => FitBox(life, [b EXCEPT !.req = o])
<1>1. None \notin Workers
  BY RuntimeAssumption DEF Workers, Owners
<1> QED BY <1>1, RuntimeAssumption DEF FitBox, OneClick, IsBox, Asking

\* The same for the record that holds the mailbox.
LEMMA BoxWrites ==
  /\ \A life, w : Good(life, w) => /\ Good(life, [w EXCEPT !.box.res = None])
                                  /\ Good(life, [w EXCEPT !.box.point = 0])
  /\ \A life, w, x : Good(life, w) => Good(life, [w EXCEPT !.box.ok = x])
  /\ \A life, w, o : Good(life, w) /\ w.box.req = None /\ w.box.res = None /\ Asking(life, o)
       => Good(life, [w EXCEPT !.box.req = o])
<1> SUFFICES ASSUME NEW life, NEW w, Good(life, w)
             PROVE  /\ Good(life, [w EXCEPT !.box.res = None])
                    /\ Good(life, [w EXCEPT !.box.point = 0])
                    /\ \A x : Good(life, [w EXCEPT !.box.ok = x])
                    /\ w.box.req = None /\ w.box.res = None
                         => \A o : Asking(life, o) => Good(life, [w EXCEPT !.box.req = o])
  OBVIOUS
<1>1. FitBox(life, w.box)
  BY DEF Good
<1>2. \A x : FitBox(life, x) => Good(life, [w EXCEPT !.box = x])
  BY Writes
<1>3. Good(life, [w EXCEPT !.box.res = None]) /\ Good(life, [w EXCEPT !.box.point = 0])
  BY <1>1, <1>2, BoxWritten, Zenon
<1>4. \A x : Good(life, [w EXCEPT !.box.ok = x])
  BY <1>1, <1>2, BoxWritten, Zenon
<1>5. w.box.req = None /\ w.box.res = None
        => \A o : Asking(life, o) => Good(life, [w EXCEPT !.box.req = o])
  BY <1>1, <1>2, BoxWritten, Zenon
<1> QED BY <1>3, <1>4, <1>5

\* A request is put in only when no request and no result is left.
LEMMA QueueGood ==
  ASSUME NEW life, NEW w, Good(life, w), NEW s, NEW owner, Asking(life, owner)
  PROVE  Good(life, QueuePriorityAutoClick(w, s, owner))
<1> DEFINE v == IF w.box.res \in {None, owner} THEN w
                ELSE [w EXCEPT !.box.res = None, !.box.ok = FALSE]
           r == [v EXCEPT !.box.req = owner]
           q == [v EXCEPT !.box.req = owner, !.box.point = 0]
<1>1. Good(life, v)
  BY BoxWrites, Zenon
<1> HIDE DEF v
<1>2. v.box.req = None /\ v.box.res = None => Good(life, q)
  <2>1. v.box.req = None /\ v.box.res = None => Good(life, r)
    BY <1>1, BoxWrites, Zenon
  <2>2. Good(life, r) => Good(life, [r EXCEPT !.box.point = 0])
    BY BoxWrites, Zenon
  <2> QED BY <2>1, <2>2, Zenon
<1>3. Good(life, No(w)) /\ Good(life, No(v)) /\ Good(life, Yes(v))
  BY <1>1, Handles
<1>4. v.box.req = None /\ v.box.res = None => Good(life, Yes(q))
  BY <1>2, Handles
<1> QED BY <1>3, <1>4, Zenon DEF QueuePriorityAutoClick, v

\* Taking a result leaves the request slot alone.
LEMMA ConsumeGood ==
  ASSUME NEW life, NEW w, Good(life, w)
  PROVE  Good(life, ConsumePriorityAutoResult(w))
<1>1. Good(life, [w EXCEPT !.ok = w.box.ok])
  BY Writes, Zenon
<1> QED BY <1>1, BoxWrites, Zenon DEF ConsumePriorityAutoResult

\* A completed request becomes the result, and nothing of it stays.
LEMMA CompleteGood ==
  ASSUME NEW life, NEW w, Good(life, w), NEW good
  PROVE  Good(life, Complete(w, good))
<1>1. FitBox(life, w.box)
  BY DEF Good
<1>2. FitBox(life, [req |-> None, point |-> 0, res |-> w.box.req, ok |-> good])
  <2>1. None \notin Workers
    BY RuntimeAssumption DEF Workers, Owners
  <2> QED BY <1>1, <2>1 DEF FitBox, OneClick, IsBox
<1> QED BY <1>2, Writes, Zenon DEF Complete

\* What a click leaves.
Clicked(w, point) ==
  {IF v.ok /\ point = "ClickAuto" THEN [v EXCEPT !.box.point = 1] ELSE Complete(v, v.ok) :
     v \in Call(w, point)}

\* Of the click itself: AUTO leaves the request, anything else completes it.
LEMMA ClickedGood ==
  ASSUME NEW life, NEW w, Good(life, w), w.box.req # None, NEW point,
         point = "ClickAuto" => IsAttack(w.box.req)
  PROVE  AllGood(life, Clicked(w, point))
<1> SUFFICES ASSUME NEW v \in Call(w, point)
             PROVE  Good(life, IF v.ok /\ point = "ClickAuto" THEN [v EXCEPT !.box.point = 1]
                         ELSE Complete(v, v.ok))
  BY Zenon DEF AllGood, Clicked
<1>1. Good(life, v)
  BY CallGood DEF AllGood
<1>2. v.box = w.box
  BY CallKeepsBox
<1>3. point = "ClickAuto" => FitBox(life, [v.box EXCEPT !.point = 1])
  BY <1>1, <1>2 DEF Good, FitBox, OneClick, IsBox, IsAttack
<1>4. point = "ClickAuto" => Good(life, [v EXCEPT !.box.point = 1])
  BY <1>1, <1>3, Writes, Zenon
<1> QED BY <1>1, <1>4, CompleteGood, Zenon

\* The priority click: cancelled, misplaced, or clicked.
LEMMA PriorityGood ==
  ASSUME NEW life, NEW w, Good(life, w), NEW s
  PROVE  AllGood(life, PriorityAutoClick(w, s))
<1> DEFINE point == IF ~IsAttack(w.box.req) THEN "ClickStop"
                    ELSE IF w.box.point = 0 THEN "ClickAuto" ELSE "ClickAttack"
           clicked == Clicked(w, point)
           misplaced == IF w.calm THEN {} ELSE {No(Complete(w, FALSE))}
<1>1. AllGood(life, {w}) /\ AllGood(life, {Complete(w, FALSE)}) /\ AllGood(life, misplaced)
  <2>1. Good(life, Complete(w, FALSE)) /\ Good(life, No(Complete(w, FALSE)))
    BY CompleteGood, Handles
  <2> QED BY <2>1, Zenon DEF AllGood
<1>2. w.box.req # None => AllGood(life, clicked)
  <2>1. point = "ClickAuto" => IsAttack(w.box.req)
    OBVIOUS
  <2> HIDE DEF point
  <2> QED BY <2>1, ClickedGood
<1> HIDE DEF clicked, misplaced
<1>3. w.box.req # None => AllGood(life, clicked \cup misplaced)
  BY <1>1, <1>2, Zenon DEF AllGood
<1>4. w.box.req # None => AllGood(life, WhenDue(w, clicked \cup misplaced, {w}))
  BY <1>1, <1>3, Handles
<1> QED BY <1>1, <1>3, <1>4, Zenon
        DEF PriorityAutoClick, Clicked, clicked, misplaced, point

----------------------------------------------------------------------------
(* AutoFightGuard: the guard, the invariant and the commands *)

\* The guard asks for a click.
LEMMA AskGood ==
  ASSUME NEW life, NEW w, Good(life, w), NEW s, NEW owner, Asking(life, owner)
  PROVE  AllGood(life, Ask(w, s, owner))
<1> SUFFICES ASSUME NEW q, Good(life, q)
             PROVE  Good(life, No(IF q.ok THEN [q EXCEPT !.guard.phase = @ + 1] ELSE q))
  BY QueueGood, Zenon DEF Ask, AllGood
<1>1. Good(life, [q EXCEPT !.guard.phase = @ + 1])
  BY Writes, Zenon
<1> QED BY <1>1, Handles, Zenon

\* A step of the travel guard, in every phase.
LEMMA GuardGood ==
  ASSUME NEW life, NEW w, Good(life, w), NEW s
  PROVE  AllGood(life, EnsureAutoFightOffForTravel(w, s))
<1> DEFINE taken == ConsumePriorityAutoResult(w)
           stopped == IF ~HasResult(w, "TravelGuardStop") THEN w
                      ELSE IF taken.ok
                           THEN [taken EXCEPT !.guard.phase = 2, !.guard.stops = @ + 1]
                      ELSE [taken EXCEPT !.guard.phase = 0]
           verified == IF NeedsAnotherStopBeforeReset(w) THEN [w EXCEPT !.guard.phase = 0]
                       ELSE [w EXCEPT !.guard.phase = 3, !.guard.stops = 0]
           reset == IF ~HasResult(w, "TravelGuardReset") THEN w
                    ELSE [taken EXCEPT !.guard.phase = IF taken.ok THEN 5 ELSE 3]
<1>1. Good(life, taken) /\ Good(life, ResetTravelFightGuard(w))
  BY ConsumeGood, Resets
<1>2. AllGood(life, {No(w)}) /\ AllGood(life, {Yes(ResetTravelFightGuard(w))})
      /\ AllGood(life, {No(ResetTravelFightGuard(w))})
  BY <1>1, Handles
<1>3. \A o : Asking(life, o) => AllGood(life, Ask(w, s, o))
  BY AskGood
<1> HIDE DEF taken
<1>4. Good(life, stopped)
  BY <1>1, Writes, Zenon
<1>5. Good(life, verified)
  BY Writes, Zenon
<1>6. Good(life, reset)
  BY <1>1, Writes, Zenon
<1> HIDE DEF stopped, verified, reset
<1>7. AllGood(life, {No(stopped)}) /\ AllGood(life, {No(verified)})
        /\ AllGood(life, {No(reset)})
  BY <1>4, <1>5, <1>6, Handles
<1>8. AllGood(life, WhenDue(w, {No(verified)}, {No(w)}))
      /\ AllGood(life, WhenDue(w, {No(ResetTravelFightGuard(w))}, {No(w)}))
  BY <1>2, <1>7, Handles
<1>9. Asking(life, "TravelGuardStop") /\ Asking(life, "TravelGuardReset")
  BY DEF Owners, Workers, Asking
<1>10. AllGood(life, Ask(w, s, IF w.guard.phase = 0 THEN "TravelGuardStop" ELSE "TravelGuardReset"))
  BY <1>3, <1>9
<1> QED BY <1>2, <1>7, <1>8, <1>10, Zenon
        DEF EnsureAutoFightOffForTravel, stopped, verified, reset, taken

\* The recovery from AutoPath and AutoFight seen on together.
LEMMA InvariantGood ==
  ASSUME NEW life, NEW w, Good(life, w), NEW s
  PROVE  AllGood(life, HandleAutoPathFightInvariant(w, s))
<1> DEFINE v == IF Pathing(s) /\ Fighting(s) /\ w.guard.conflict = "no"
                THEN [ResetTravelFightGuard(w) EXCEPT !.guard.conflict = "new"] ELSE w
           stop == {[x EXCEPT !.guard.conflict = "stopping", !.done = TRUE] :
                      x \in Call(v, "StopPath")}
<1>1. Good(life, v)
  <2>1. Good(life, ResetTravelFightGuard(w))
    BY Resets
  <2> QED BY <2>1, Writes, Zenon
<1> HIDE DEF v
<1>2. AllGood(life, stop)
  <2>1. \A x : Good(life, x)
          => Good(life, [x EXCEPT !.guard.conflict = "stopping", !.done = TRUE])
    BY Writes, Zenon
  <2> QED BY <1>1, <2>1, CallGood, Zenon DEF AllGood
<1> HIDE DEF stop
<1>3. Good(life, [v EXCEPT !.guard = IdleGuard])
  BY <1>1, Writes
<1>4. /\ AllGood(life, {w}) /\ AllGood(life, Handled(w)) /\ AllGood(life, Handled(v))
      /\ AllGood(life, Handled([v EXCEPT !.guard = IdleGuard]))
      /\ AllGood(life, WhenDue(v, stop, Handled(v)))
  BY <1>1, <1>2, <1>3, Handles
<1>5. AllGood(life, Handle(EnsureAutoFightOffForTravel(v, s)))
  BY <1>1, GuardGood, Handles
<1> QED BY <1>2, <1>4, <1>5, Zenon DEF HandleAutoPathFightInvariant, v, stop


\* A command that its cooldown may still refuse.
LEMMA ReadyGood ==
  ASSUME NEW w, Good("alive", w), NEW s, NEW action, NEW dest
  PROVE  AllGood("alive", SendWhenReady(w, s, action, dest))
<1>1. \A x : Good("alive", x) => Good("alive", ArmRoute(x, s, action, dest))
  BY Writes, WorkWrites, Zenon DEF ArmRoute
<1>2. AllGood("alive", Call(w, action)) /\ AllGood("alive", {No(w)})
  BY CallGood, Handles
<1>3. AllGood("alive", {ArmRoute(x, s, action, dest) : x \in Call(w, action)})
  BY <1>1, <1>2, Zenon DEF AllGood
<1> QED BY <1>2, <1>3, Handles, Zenon DEF SendWhenReady

\* The gate of every route and mount command.
LEMMA SendGood ==
  ASSUME NEW w, Good("alive", w), NEW s, NEW action, NEW dest
  PROVE  AllGood("alive", SendDecision(w, s, action, dest))
<1> DEFINE gs == IF action \in {"Mount", "StartPath"}
                 THEN EnsureAutoFightOffForTravel(w, s) ELSE {Yes(w)}
<1>1. AllGood("alive", gs)
  <2>1. AllGood("alive", {Yes(w)})
    BY Handles
  <2> QED BY <2>1, GuardGood, Zenon
<1> HIDE DEF gs
<1>2. AllGood("alive", UNION {IF g.ok THEN SendWhenReady(g, s, action, dest) ELSE {g} : g \in gs})
  <2>1. \A g : Good("alive", g)
          => AllGood("alive", SendWhenReady(g, s, action, dest)) /\ AllGood("alive", {g})
    BY ReadyGood, Handles
  <2>2. \A g \in gs : AllGood("alive", IF g.ok THEN SendWhenReady(g, s, action, dest) ELSE {g})
    BY <1>1, <2>1, Zenon DEF AllGood
  <2> QED BY <2>2, Zenon DEF AllGood
<1>3. AllGood("alive", {No(w)})
  BY Handles
<1> QED BY <1>2, <1>3, Zenon DEF SendDecision, gs

----------------------------------------------------------------------------
(* RobustTravel *)

\* The fight of a mount recovery.
LEMMA BoostGood ==
  ASSUME NEW w, Good("alive", w), NEW s
  PROVE  AllGood("alive", HandleMountFightBoost(w, s))
<1> DEFINE fight == {[w EXCEPT !.mount.boost = 5]}
           ask   == QueuePriorityAutoClick(w, s, "MountRecovery")
           taken == ConsumePriorityAutoResult(w)
           again(g) == IF g.ok THEN [g EXCEPT !.mount = [IdleMount EXCEPT !.cycle = 1]] ELSE g
           asked1 == IF ask.ok THEN [ask EXCEPT !.mount.boost = 1] ELSE ask
           fought == [taken EXCEPT !.mount.boost = IF taken.ok THEN 4 ELSE 0]
           ended == {again(g) : g \in EnsureAutoFightOffForTravel(w, s)}
<1>1. Good("alive", ask) /\ Good("alive", taken)
  <2>1. Asking("alive", "MountRecovery")
    BY DEF Owners, Workers, Asking
  <2> QED BY <2>1, QueueGood, ConsumeGood
<1> HIDE DEF ask, taken
<1>2. Good("alive", asked1) /\ Good("alive", fought)
  BY <1>1, Writes, WorkWrites, Zenon
<1>3. AllGood("alive", fight) /\ AllGood("alive", {[w EXCEPT !.mount.boost = 0]})
        /\ AllGood("alive", {w})
  <2>1. Good("alive", [w EXCEPT !.mount.boost = 5])
          /\ Good("alive", [w EXCEPT !.mount.boost = 0])
    BY Writes, WorkWrites, Zenon
  <2> QED BY <2>1, Zenon DEF AllGood
<1>4. AllGood("alive", ended)
  <2>1. \A g : Good("alive", g) => Good("alive", again(g))
    BY Writes, WorkWrites, Zenon
  <2> HIDE DEF again
  <2> QED BY <2>1, GuardGood, Zenon DEF AllGood
<1> HIDE DEF asked1, fought, ended, fight
<1>5. AllGood("alive", {asked1}) /\ AllGood("alive", {fought})
  BY <1>2, Handles
<1>6. /\ AllGood("alive", WhenDue(w, {[w EXCEPT !.mount.boost = 0]}, {w}))
      /\ AllGood("alive", WhenDue(w, ended, {w}))
  BY <1>3, <1>4, Handles
<1> QED BY <1>3, <1>5, <1>6, Zenon
        DEF HandleMountFightBoost, asked1, fought, ended, fight, ask, taken

\* A step of the assisted travel: mount, boost, dismount or walk.
LEMMA AssistGood ==
  ASSUME NEW w, Good("alive", w), NEW s, NEW dest, NEW assist
  PROVE  AllGood("alive", AssistedStep(w, s, dest, assist))
<1> DEFINE start == SendDecision(IF s.riding THEN ResetRobustTravel(w) ELSE w, s, assist, dest)
           foot == {ResetTravelFightGuard(ResetRobustTravel(x)) :
                      x \in IF Pathing(s) THEN SendDecision(w, s, "StopPath", dest) ELSE {w}}
           mounts == {IF x.ok THEN [x EXCEPT !.mount.tries = IF @ = 2 THEN 2 ELSE @ + 1] ELSE x :
                        x \in SendDecision(w, s, assist, dest)}
           walk == {IF x.ok THEN [x EXCEPT !.mount.foot = TRUE] ELSE x :
                      x \in UNION {IF g.ok THEN SendDecision(g, s, "StartPath", dest) ELSE {g} :
                                     g \in EnsureAutoFightOffForTravel(w, s)}}
<1>1. AllGood("alive", start)
  BY Resets, SendGood, Zenon
<1>2. AllGood("alive", {w}) /\ AllGood("alive", {ResetRobustTravel(w)})
  BY Resets, Handles
<1>3. AllGood("alive", foot)
  <2>1. AllGood("alive", IF Pathing(s) THEN SendDecision(w, s, "StopPath", dest) ELSE {w})
    BY <1>2, SendGood, Zenon
  <2>2. \A x : Good("alive", x) => Good("alive", ResetTravelFightGuard(ResetRobustTravel(x)))
    BY Resets
  <2> QED BY <2>1, <2>2, Zenon DEF AllGood
<1>4. AllGood("alive", mounts)
  <2>1. \A x : Good("alive", x) =>
          Good("alive", IF x.ok THEN [x EXCEPT !.mount.tries = IF @ = 2 THEN 2 ELSE @ + 1] ELSE x)
    BY Writes, WorkWrites, Zenon
  <2>2. AllGood("alive", SendDecision(w, s, assist, dest))
    BY SendGood
  <2> QED BY <2>1, <2>2, Zenon DEF AllGood
<1>5. AllGood("alive", walk)
  <2>1. AllGood("alive", EnsureAutoFightOffForTravel(w, s))
    BY GuardGood
  <2>2. AllGood("alive", UNION {IF g.ok THEN SendDecision(g, s, "StartPath", dest) ELSE {g} :
                         g \in EnsureAutoFightOffForTravel(w, s)})
    <3>1. \A g : Good("alive", g)
            => AllGood("alive", SendDecision(g, s, "StartPath", dest)) /\ AllGood("alive", {g})
      BY SendGood, Handles
    <3>2. \A g \in EnsureAutoFightOffForTravel(w, s) :
            AllGood("alive", IF g.ok THEN SendDecision(g, s, "StartPath", dest) ELSE {g})
      BY <2>1, <3>1, Zenon DEF AllGood
    <3> QED BY <3>2, Zenon DEF AllGood
  <2>3. \A x : Good("alive", x)
          => Good("alive", IF x.ok THEN [x EXCEPT !.mount.foot = TRUE] ELSE x)
    BY Writes, WorkWrites, Zenon
  <2> QED BY <2>2, <2>3, Zenon DEF AllGood
<1>6. AllGood("alive", HandleMountFightBoost([w EXCEPT !.mount.boost = 0], s))
  <2>1. Good("alive", [w EXCEPT !.mount.boost = 0])
    BY Writes, WorkWrites, Zenon
  <2> QED BY <2>1, BoostGood
<1> HIDE DEF start, foot, mounts, walk
<1> QED BY <1>1, <1>2, <1>3, <1>4, <1>5, <1>6, Zenon
        DEF AssistedStep, start, foot, mounts, walk

\* The travel of a sale or of a return.
LEMMA TravelGood ==
  ASSUME NEW w, Good("alive", w), NEW s, NEW dest
  PROVE  AllGood("alive", HandleRobustTravel(w, s, dest))
<1> DEFINE dues == IF w.late THEN {TRUE} ELSE BOOLEAN
           steps == UNION {AssistedStep(w, s, dest, DecideMountAssist(w, s, due)) : due \in dues}
<1>1. AllGood("alive", steps)
  <2>1. \A assist : AllGood("alive", AssistedStep(w, s, dest, assist))
    BY AssistGood
  <2>2. \A due \in dues : AllGood("alive", AssistedStep(w, s, dest, DecideMountAssist(w, s, due)))
    BY <2>1
  <2> QED BY <2>2, Zenon DEF AllGood
<1>2. AllGood("alive", HandleMountFightBoost(w, s))
      /\ AllGood("alive", SendDecision(w, s, Decide(s, dest), dest))
  BY BoostGood, SendGood
<1>3. \A xs : AllGood("alive", xs) => AllGood("alive", {No(x) : x \in xs})
  BY Handles, Zenon DEF AllGood
<1>4. AllGood("alive", {Yes(ResetTravelFightGuard(ResetRobustTravel(w)))})
  BY Resets, Handles
<1> HIDE DEF steps
<1>5. /\ AllGood("alive", {No(x) : x \in steps})
           /\ AllGood("alive", {No(x) : x \in HandleMountFightBoost(w, s)})
      /\ AllGood("alive", {No(x) : x \in SendDecision(w, s, Decide(s, dest), dest)})
  BY <1>1, <1>2, <1>3
<1> QED BY <1>4, <1>5, Zenon DEF HandleRobustTravel, steps
----------------------------------------------------------------------------
(* AccountLife *)

\* Movement is noted in the route and the training only.
LEMMA ObserveGood ==
  ASSUME NEW life, NEW w, Good(life, w), NEW s
  PROVE  AllGood(life, ObserveMovement(w, s))
<1> DEFINE armed == w.route.armed
           seen  == armed /\ (w.route.seen \/ Pathing(s))
           fresh == [w EXCEPT !.route.map = MapOf(s.place), !.route.moved = armed,
                              !.route.seen = seen, !.train.phase = 0, !.train.tries = 0,
                              !.train.at = FALSE]
           still == IF armed THEN [w EXCEPT !.route.seen = seen] ELSE w
           moved == [still EXCEPT !.route.moved = TRUE]
<1>1. Good(life, fresh)
  BY RestWrites, Zenon
<1>2. Good(life, still)
  BY RestWrites, Zenon
<1> HIDE DEF still, fresh
<1>3. Good(life, moved)
  BY <1>2, RestWrites, Zenon
<1> HIDE DEF moved
<1>4. AllGood(life, {w}) /\ AllGood(life, {fresh})
      /\ AllGood(life, {still} \cup (IF armed THEN {moved} ELSE {}))
  BY <1>1, <1>2, <1>3, Zenon DEF AllGood
<1> QED BY <1>4, Zenon DEF ObserveMovement, fresh, still, moved

\* The confirmation at the gate is one call.
LEMMA ConfirmGood ==
  ASSUME NEW life, NEW w, Good(life, w), NEW s
  PROVE  AllGood(life, PriorityLauLanGateConfirmClick(w, s))
<1>1. \A x : Good(life, x) => Good(life, [x EXCEPT !.done = x.ok])
  BY Writes, Zenon
<1>2. AllGood(life, {[x EXCEPT !.done = x.ok] : x \in Call(w, "ConfirmMap")})
  BY <1>1, CallGood, Zenon DEF AllGood
<1>3. AllGood(life, {w})
  BY Handles
<1> QED BY <1>2, <1>3, Handles, Zenon DEF PriorityLauLanGateConfirmClick

\* A return to the spot begins with the mailbox as it is.
LEMMA RecoveryGood ==
  ASSUME NEW w, Good("alive", w)
  PROVE  Good("alive", BeginTrainRecovery(w))
<1>1. Good("alive", ResetTravelFightGuard(ResetRobustTravel(w)))
  BY Resets
<1> QED BY <1>1, Writes, WorkWrites, Zenon DEF BeginTrainRecovery

\* The rotation writes its own counters, or begins a return.
LEMMA RotationGood ==
  ASSUME NEW w, Good("alive", w), NEW s
  PROVE  AllGood("alive", RecordDeathForRotation(w))
           /\ AllGood("alive", UpdateRotationEfficiency(w, s))
<1>1. \A x : Good("alive", [w EXCEPT !.kept.deaths = x])
  BY KeptWrites, Zenon
<1>2. AllGood("alive", RecordDeathForRotation(w))
  BY <1>1, Zenon DEF RecordDeathForRotation, AllGood
<1>3. AllGood("alive", Handled(BeginTrainRecovery([w EXCEPT !.kept.deaths = 0])))
  BY <1>1, RecoveryGood, Handles
<1>4. AllGood("alive", {w})
  BY Handles
<1>5. AllGood("alive", UpdateRotationEfficiency(w, s))
  BY <1>3, <1>4, Handles, Zenon DEF UpdateRotationEfficiency
<1> QED BY <1>2, <1>5

\* A death resets whatever life the account had, and latches.
LEMMA DeathSessionGood ==
  ASSUME NEW w, Good("alive", w)
  PROVE  AllGood("dead", BeginDeathSession(w))
<1>1. \A x : Good("alive", x)
             => Good("dead", [ResetRuntimeForLifeBoundary(x) EXCEPT !.kept.latched = TRUE])
  BY LifeBegins, Zenon DEF ResetRuntimeForLifeBoundary
<1> QED BY <1>1, RotationGood, Zenon DEF BeginDeathSession, AllGood

\* A record of the one life or of the other.
Fine(w) == Good("alive", w) \/ Good("dead", w)

AllFine(ws) == \A w \in ws : Fine(w)

\* Who is not done has come through the life handler alive.
Settled(w) == Good("alive", w) \/ (Good("dead", w) /\ w.done)

AllSettled(ws) == \A w \in ws : Settled(w)

\* What holds of every record of one life.
LEMMA Fines ==
  /\ \A w : Settled(w) => Fine(w)
  /\ \A ws : AllSettled(ws) => AllFine(ws)
  /\ \A life, ws : life \in {"alive", "dead"} /\ AllGood(life, ws) => AllFine(ws)
  /\ \A ws : AllGood("alive", ws) => AllSettled(ws)
BY DEF Fine, AllFine, Settled, AllSettled, AllGood

\* Being done is nothing a life depends on.
LEMMA DeadAreDone == \A w : Good("dead", w) => AllSettled(Handled(w))
<1> SUFFICES ASSUME NEW w, Good("dead", w)
             PROVE  Settled([w EXCEPT !.done = TRUE])
  BY Zenon DEF AllSettled, Handled
<1>1. Good("dead", [w EXCEPT !.done = TRUE])
  BY Writes
<1>2. [w EXCEPT !.done = TRUE].done = TRUE
  BY DEF Good, IsRecord
<1> QED BY <1>1, <1>2 DEF Settled

\* The click of the revival, or the death it is the first to see.
LEMMA ReviveGood ==
  ASSUME NEW w, Fine(w), NEW s
  PROVE  AllFine(PriorityReviveClick(w, s))
<1> DEFINE revived == {[x EXCEPT !.revive = IF x.ok THEN 1 ELSE 0, !.done = x.ok] :
                         x \in Call(w, "Revive")}
<1>1. ASSUME NEW life, Good(life, w)
      PROVE  AllGood(life, WhenDue(w, revived, {w})) /\ AllGood(life, {w})
  <2>1. \A x : Good(life, x)
                 => Good(life, [x EXCEPT !.revive = IF x.ok THEN 1 ELSE 0, !.done = x.ok])
    BY Writes, Zenon
  <2>2. AllGood(life, Call(w, "Revive"))
    BY <1>1, CallGood
  <2>3. AllGood(life, revived)
    BY <2>1, <2>2, Zenon DEF AllGood
  <2> HIDE DEF revived
  <2>4. AllGood(life, {w})
    BY <1>1, Handles
  <2> QED BY <2>3, <2>4, Handles
<1> HIDE DEF revived
<1>2. AllFine(WhenDue(w, revived, {w})) /\ AllFine({w})
  BY <1>1, Fines DEF Fine
<1>3. ~w.kept.latched => AllFine(BeginDeathSession(w))
  <2>1. Good("alive", w) => AllGood("dead", BeginDeathSession(w))
    BY DeathSessionGood
  <2>2. Good("dead", w) => w.kept.latched
    BY DEF Good
  <2> QED BY <2>1, <2>2, Fines DEF Fine
<1> QED BY <1>2, <1>3, Zenon DEF PriorityReviveClick, revived

\* The three priorities of one tick, one after the other.
LEMMA PrioritiesGood ==
  ASSUME NEW w, Fine(w), NEW s
  PROVE  AllFine(Priorities(w, s))
<1> DEFINE one == PriorityLauLanGateConfirmClick(w, s)
           two == UNION {IF x.done THEN {x} ELSE PriorityReviveClick(x, s) : x \in one}
           three == UNION {IF x.done THEN {x} ELSE PriorityAutoClick(x, s) : x \in two}
<1>1. AllFine(one)
  BY ConfirmGood, Fines DEF Fine
<1> HIDE DEF one
<1>2. AllFine(two)
  <2>1. \A x \in one : AllFine(IF x.done THEN {x} ELSE PriorityReviveClick(x, s))
    BY <1>1, ReviveGood, Zenon DEF AllFine
  <2> QED BY <2>1, Zenon DEF AllFine
<1> HIDE DEF two
<1>3. AllFine(three)
  <2>1. \A x : Fine(x) => AllFine(PriorityAutoClick(x, s))
    BY PriorityGood, Fines DEF Fine
  <2>2. \A x \in two : AllFine(IF x.done THEN {x} ELSE PriorityAutoClick(x, s))
    BY <1>2, <2>1, Zenon DEF AllFine
  <2> QED BY <2>2, Zenon DEF AllFine
<1> HIDE DEF three
<1>4. AllFine({[x EXCEPT !.done = FALSE] : x \in three})
  <2>1. \A x : Fine(x) => Fine([x EXCEPT !.done = FALSE])
    BY Writes, Zenon DEF Fine
  <2> QED BY <1>3, <2>1, Zenon DEF AllFine
<1> QED BY <1>4, Zenon DEF Priorities, Then, three, two, one

\* Death, the wait for the revival, and the new life: who is left in a death
\* session owns the tick.
LEMMA DeathGood ==
  ASSUME NEW w, Fine(w), NEW s
  PROVE  AllSettled(HandleDeath(w, s))
<1> DEFINE latched == w.kept.latched
           begun == IF latched THEN {w} ELSE BeginDeathSession(w)
           next(x) == IF x.revive = 1 THEN [x EXCEPT !.revive = 2] ELSE [x EXCEPT !.revive = 0]
           dying(x) == IF ~P(w).revive \/ x.revive = 0 THEN Handled(x)
                       ELSE WhenDue(x, Handled(next(x)), Handled(x))
           free == [ResetRuntimeForLifeBoundary(w) EXCEPT !.kept.latched = FALSE]
           born == [free EXCEPT !.route.pending = TRUE]
<1>1. IF latched THEN Good("dead", w) ELSE Good("alive", w)
  BY DEF Fine, Good
<1>2. AllSettled(IF latched THEN Handled(w) ELSE {w})
  <2>1. AllSettled({w}) <=> Settled(w)
    BY DEF AllSettled
  <2> QED BY <1>1, <2>1, DeadAreDone DEF Settled
<1>3. AllGood("dead", begun)
  BY <1>1, DeathSessionGood, Handles
<1>4. \A x : Good("dead", x) => AllSettled(dying(x))
  <2>1. \A x : Good("dead", x) => Good("dead", next(x))
    BY Writes, Zenon
  <2> HIDE DEF next
  <2>2. \A x : Good("dead", x) => AllSettled(Handled(x)) /\ AllSettled(Handled(next(x)))
    BY <2>1, DeadAreDone
  <2> QED BY <2>2, Zenon DEF AllSettled, WhenDue
<1>5. AllSettled(Handled(born))
  <2>1. Good("alive", free)
    BY LifeBegins, Zenon DEF Fine, ResetRuntimeForLifeBoundary
  <2> HIDE DEF free
  <2>2. Good("alive", born)
    BY <2>1, WorkWrites, Zenon
  <2> HIDE DEF born
  <2> QED BY <2>2, Handles, Fines
<1>6. AllSettled(UNION {dying(x) : x \in begun})
  <2> HIDE DEF begun, dying
  <2> QED BY <1>3, <1>4, Zenon DEF AllGood, AllSettled
<1> HIDE DEF begun, dying, born
<1>7. latched => AllSettled(Handled(w))
  BY <1>2
<1> QED BY <1>2, <1>5, <1>6, Zenon DEF HandleDeath, begun, dying, next, born, free

\* A cold start only stops the path.
LEMMA OwnershipGood ==
  ASSUME NEW w, Good("alive", w), NEW s
  PROVE  AllGood("alive", HandleRouteOwnershipReset(w, s))
<1> DEFINE free == [w EXCEPT !.route = [FreeRoute EXCEPT !.map = w.route.map]]
           stop == {[x EXCEPT !.route.stops = IF x.ok THEN @ + 1 ELSE @, !.done = TRUE] :
                      x \in SendDecision(w, s, "StopPath", "spot")}
<1>1. Good("alive", free)
  BY Writes, WorkWrites, Zenon
<1>2. AllGood("alive", stop)
  <2>1. \A x : Good("alive", x) =>
          Good("alive", [x EXCEPT !.route.stops = IF x.ok THEN @ + 1 ELSE @, !.done = TRUE])
    BY Writes, WorkWrites, Zenon
  <2> QED BY <2>1, SendGood, Zenon DEF AllGood
<1> HIDE DEF free, stop
<1>3. AllGood("alive", {w}) /\ AllGood("alive", Handled(w)) /\ AllGood("alive", Handled(free))
  BY <1>1, Handles
<1>4. AllGood("alive", WhenDue(w, stop, IF w.route.stops = 0 THEN {} ELSE Handled(w)))
  <2>1. AllGood("alive", IF w.route.stops = 0 THEN {} ELSE Handled(w))
    BY <1>3, Zenon DEF AllGood
  <2> QED BY <1>2, <2>1, Handles
<1> QED BY <1>3, <1>4, Zenon DEF HandleRouteOwnershipReset, free, stop

\* In the underworld AutoFight is turned off.
LEMMA UnderworldGood ==
  ASSUME NEW w, Good("alive", w), NEW s
  PROVE  AllGood("alive", HandleUnderworldAutoFightGuard(w, s))
<1>1. AllGood("alive", {w}) /\ AllGood("alive", Handled(w))
        /\ AllGood("alive", {ResetTravelFightGuard(w)})
  BY Resets, Handles
<1>2. AllGood("alive", Handle(EnsureAutoFightOffForTravel(w, s)))
  BY GuardGood, Handles
<1> QED BY <1>1, <1>2, Zenon DEF HandleUnderworldAutoFightGuard

----------------------------------------------------------------------------
(* AutoSell *)

\* A call of the sale leaves the mailbox alone, whatever it answers.
LEMMA SellCallGood ==
  ASSUME NEW w, Good("alive", w), NEW what, NEW results
  PROVE  AllGood("alive", SellCall(w, what, results))
<1>1. \A e, shopNow, ended :
        Good("alive", [Answered(w, what, e) EXCEPT !.shop = shopNow, !.closed = ended])
  <2>1. \A e : Good("alive", Answered(w, what, e))
    BY AnsweredGood
  <2> QED BY <2>1, Writes, WorkWrites, Zenon
<1> DEFINE good == {r \in results : r.result # "fail"}
           ends(r) == {IF r.result = "fail" THEN "fail" ELSE "ok"}
                      \cup (Answers(w) \cap {"timeout"})
           from == IF "fail" \in Answers(w) THEN results \cup {Done(w.shop, "fail")} ELSE good
           with(r) == {[Answered(w, what, e) EXCEPT !.shop = r.shop,
                                                    !.closed = (r.result = "nothing")] :
                         e \in ends(r)}
           one(r, e) == [Answered(w, what, e) EXCEPT !.shop = r.shop,
                                                     !.closed = (r.result = "nothing")]
<1>2. \A r : AllGood("alive", {one(r, e) : e \in ends(r)})
  <2>1. \A r, e : Good("alive", one(r, e))
    BY <1>1
  <2> HIDE DEF one, ends
  <2> QED BY <2>1, Zenon DEF AllGood
<1>4. \A r : AllGood("alive", with(r))
  BY <1>2, Zenon
<1> HIDE DEF with, from
<1>3. AllGood("alive", UNION {with(r) : r \in from})
  BY <1>4, Zenon DEF AllGood
<1> QED BY <1>3, Zenon DEF SellCall, with, from

\* The ends of a sale.
LEMMA SaleEndsGood ==
  /\ \A w : Good("alive", w) => Good("alive", GiveUp(w)) /\ Good("alive", Verify(w))
  /\ \A w, limit : Good("alive", w) => /\ Good("alive", CountFailure(w, limit, GiveUp))
                              /\ Good("alive", CountFailure(w, limit, Verify))
<1>1. \A w : Good("alive", w) => Good("alive", GiveUp(w)) /\ Good("alive", Verify(w))
  BY Writes, WorkWrites, Zenon DEF GiveUp, Verify
<1>2. \A w : Good("alive", w) => Good("alive", [w EXCEPT !.sell.opens = @ + 1])
  BY Writes, WorkWrites, Zenon
<1>3. \A w, limit : Good("alive", w) => Good("alive", CountFailure(w, limit, GiveUp))
  BY <1>1, <1>2, Zenon DEF CountFailure
<1>4. \A w, limit : Good("alive", w) => Good("alive", CountFailure(w, limit, Verify))
  BY <1>1, <1>2, Zenon DEF CountFailure
<1> QED BY <1>1, <1>3, <1>4

\* A sale begins with the StopPath.
LEMMA BeginSaleGood ==
  ASSUME NEW w, Good("alive", w)
  PROVE  AllGood("alive", BeginAutoSell(w))
<1>1. Good("alive", [ResetRobustTravel(w) EXCEPT
              !.sell = [NoSale EXCEPT !.phase = 4], !.train = IdleTrain,
              !.route.armed = FALSE, !.route.moved = FALSE, !.route.seen = FALSE])
  BY Resets, Writes, WorkWrites, Zenon
<1> QED BY <1>1, CallGood, Zenon DEF BeginAutoSell

\* The clicks of the macro count in the fields of the sale.
LEMMA MacroGood ==
  ASSUME NEW w, Good("alive", w)
  PROVE  AllGood("alive", RunSellMacroClick(w))
<1>1. AllGood("alive", SellItem(w))
  <2> DEFINE one(x) == [x EXCEPT !.sell.opens = 0, !.sell.repeat = @ + 1]
             counted(x) == IF one(x).sell.repeat >= EffectiveClickCount(w.kept.learned)
                           THEN [one(x) EXCEPT !.sell.index = 5, !.sell.repeat = 0] ELSE one(x)
  <2>1. \A x : Good("alive", x) => Good("alive", one(x))
    BY Writes, WorkWrites, Zenon
  <2> HIDE DEF one
  <2>2. \A x : Good("alive", x) => Good("alive", counted(x))
    BY <2>1, Writes, WorkWrites, Zenon
  <2> HIDE DEF counted
  <2> DEFINE clicks == {IF x.ok THEN counted(x) ELSE CountFailure(x, ItemLimit, GiveUp) :
                          x \in SellCall(w, "SellNextBagItem", SellFixedBagSlot(w.shop))}
  <2>3. AllGood("alive", clicks)
    <3>1. \A x : Good("alive", x)
            => Good("alive", IF x.ok THEN counted(x) ELSE CountFailure(x, ItemLimit, GiveUp))
      BY <2>2, SaleEndsGood, Zenon
    <3> QED BY <3>1, SellCallGood, Zenon DEF AllGood
  <2> HIDE DEF clicks
  <2>4. AllGood("alive", clicks \cup (IF w.calm THEN {} ELSE {GiveUp(w)}))
    BY <2>3, SaleEndsGood, Zenon DEF AllGood
  <2> QED BY <2>4, Zenon DEF SellItem, clicks, counted, one
<1>2. AllGood("alive", CloseShop(w))
  <2> DEFINE shut(x) == IF x.closed THEN Verify([x EXCEPT !.sell.opens = 0])
                        ELSE [x EXCEPT !.sell.opens = 0, !.sell.repeat = @ + 1]
  <2>1. \A x : Good("alive", x) => Good("alive", shut(x))
    <3>1. \A x : Good("alive", x) => Good("alive", [x EXCEPT !.sell.opens = 0])
      BY Writes, WorkWrites, Zenon
    <3>2. \A x : Good("alive", x)
            => Good("alive", [x EXCEPT !.sell.opens = 0, !.sell.repeat = @ + 1])
      BY Writes, WorkWrites, Zenon
    <3> QED BY <3>1, <3>2, SaleEndsGood, Zenon
  <2> HIDE DEF shut
  <2>2. \A x : Good("alive", x)
          => Good("alive", IF x.ok THEN shut(x) ELSE CountFailure(x, CloseLimit, Verify))
    BY <2>1, SaleEndsGood, Zenon
  <2>3. AllGood("alive", {IF x.ok THEN shut(x) ELSE CountFailure(x, CloseLimit, Verify) :
                   x \in SellCall(w, "CloseBackgroundSell", CloseBackgroundSell(w.shop))})
    BY <2>2, SellCallGood, Zenon DEF AllGood
  <2>4. AllGood("alive", {Verify(w)})
    BY SaleEndsGood, Handles
  <2> QED BY <2>3, <2>4, Zenon DEF CloseShop, shut
<1>3. AllGood("alive", OpenShop(w))
  <2>1. \A x : Good("alive", x) =>
          Good("alive", IF x.ok THEN [x EXCEPT !.sell.opens = 0, !.sell.index = x.shop.stage]
               ELSE CountFailure(x, OpenLimit, GiveUp))
    <3>1. \A x : Good("alive", x)
            => Good("alive", [x EXCEPT !.sell.opens = 0, !.sell.index = x.shop.stage])
      BY Writes, WorkWrites, Zenon
    <3> QED BY <3>1, SaleEndsGood, Zenon
  <2> QED BY <2>1, SellCallGood, Zenon DEF OpenShop, AllGood
<1>4. AllGood("alive", {w})
  BY Handles
<1>5. AllGood("alive", IF w.sell.index < 4 THEN OpenShop(w)
              ELSE IF w.sell.index = 4 THEN SellItem(w) ELSE CloseShop(w))
  BY <1>1, <1>2, <1>3, Zenon
<1> QED BY <1>4, <1>5, Handles, Zenon DEF RunSellMacroClick

\* The session and the verification of the bag.
LEMMA SessionGood ==
  ASSUME NEW w, Good("alive", w), NEW s
  PROVE  AllGood("alive", OpenSession(w)) /\ AllGood("alive", VerifyBag(w, s))
<1>1. AllGood("alive", OpenSession(w))
  <2> DEFINE begun(x) == [x EXCEPT !.sell = [NoSale EXCEPT !.phase = 6, !.pass = w.sell.pass + 1,
                                               !.opens = w.sell.opens + 1,
                                               !.stable = w.sell.stable]]
  <2>1. \A x : Good("alive", x) => Good("alive", begun(x))
    BY Writes, WorkWrites, Zenon
  <2> HIDE DEF begun
  <2>2. \A x : Good("alive", x)
          => Good("alive", IF x.ok THEN begun(x) ELSE CountFailure(x, 2, GiveUp))
    BY <2>1, SaleEndsGood, Zenon
  <2>3. AllGood("alive", {IF x.ok THEN begun(x) ELSE CountFailure(x, 2, GiveUp) :
                   x \in SellCall(w, "BeginBackgroundSell", BeginBackgroundSell(w.shop))})
    BY <2>2, SellCallGood, Zenon DEF AllGood
  <2> QED BY <2>3, Zenon DEF OpenSession, begun
<1>2. AllGood("alive", VerifyBag(w, s))
  <2> DEFINE back == [ResetRobustTravel(w) EXCEPT
                        !.kept.learned = s.bag, !.sell.phase = 8,
                        !.route.armed = FALSE, !.route.moved = FALSE, !.route.seen = FALSE]
             full == IF w.sell.pass < 2 THEN [w EXCEPT !.sell.phase = 5, !.sell.opens = 0]
                     ELSE GiveUp(w)
             steady == [w EXCEPT !.sell.stable = TRUE]
  <2>1. Good("alive", back)
    BY Resets, WorkWrites, KeptWrites, Zenon
  <2>2. Good("alive", full)
    <3>1. Good("alive", [w EXCEPT !.sell.phase = 5, !.sell.opens = 0])
      BY Writes, WorkWrites, Zenon
    <3> QED BY <3>1, SaleEndsGood, Zenon
  <2>3. Good("alive", steady)
    BY Writes, WorkWrites, Zenon
  <2> HIDE DEF back, full, steady
  <2>4. AllGood("alive", {w}) /\ AllGood("alive", {back}) /\ AllGood("alive", {full})
          /\ AllGood("alive", {steady})
    BY <2>1, <2>2, <2>3, Handles
  <2>5. AllGood("alive", WhenDue(w, {full}, {w})) /\ AllGood("alive", WhenDue(w, {back}, {w}))
    BY <2>4, Handles
  <2> QED BY <2>4, <2>5, Zenon DEF VerifyBag, back, full, steady
<1> QED BY <1>1, <1>2

\* The way of the sale is the way of the others.
LEMMA SaleTravelGood ==
  ASSUME NEW w, Good("alive", w), NEW s
  PROVE  AllGood("alive", TravelOfSale(w, s))
<1> DEFINE toNpc == w.sell.phase = 4
           dest == IF toNpc THEN "npc" ELSE "spot"
           atNpc(x)  == [x EXCEPT !.sell.phase = 5, !.done = TRUE]
           atSpot(x) == [x EXCEPT !.sell.phase = 0,
                                  !.train = [IdleTrain EXCEPT !.back = w.train.back]]
           next(x) == IF ~x.ok THEN [x EXCEPT !.done = TRUE]
                      ELSE IF toNpc THEN atNpc(x) ELSE atSpot(x)
<1>1. \A x : Good("alive", x) => Good("alive", next(x))
  <2>1. \A x : Good("alive", x)
          => Good("alive", atNpc(x)) /\ Good("alive", atSpot(x)) /\ Good("alive", [x EXCEPT !.done = TRUE])
    BY Writes, WorkWrites, Zenon
  <2> HIDE DEF atNpc, atSpot
  <2> QED BY <2>1, Zenon
<1>2. AllGood("alive", HandleRobustTravel(w, s, dest))
  BY TravelGood
<1> HIDE DEF next
<1>3. AllGood("alive", {next(x) : x \in HandleRobustTravel(w, s, dest)})
  BY <1>1, <1>2, Zenon DEF AllGood
<1> QED BY <1>3, Zenon DEF TravelOfSale, next

\* A tick of the sale, whatever its phase.
LEMMA SaleGood ==
  ASSUME NEW w, Good("alive", w), NEW s
  PROVE  AllGood("alive", HandleAutoSell(w, s))
<1> DEFINE phase == w.sell.phase
           emptied == IF s.bag \in {None, 0} THEN w
                      ELSE [ResetRobustTravel(w) EXCEPT !.sell.phase = 8]
<1>1. Good("alive", emptied)
  BY Resets, Writes, WorkWrites, Zenon
<1> HIDE DEF emptied
<1>2. AllGood("alive", {w}) /\ AllGood("alive", WhenDue(w, OpenSession(w), {w}))
  BY SessionGood, Handles
<1>3. /\ AllGood("alive", Handle(WhenDue(w, OpenSession(w), {w})))
           /\ AllGood("alive", Handle(RunSellMacroClick(w)))
      /\ AllGood("alive", Handle(VerifyBag(w, s))) /\ AllGood("alive", Handled(emptied))
           /\ AllGood("alive", Handled(w))
  BY <1>1, <1>2, SessionGood, MacroGood, Handles
<1>4. AllGood("alive", TravelOfSale(w, s))
  BY SaleTravelGood
<1>5. HandleAutoSell(w, s) \in
        {{w}, TravelOfSale(w, s), Handle(WhenDue(w, OpenSession(w), {w})),
         Handle(RunSellMacroClick(w)), Handle(VerifyBag(w, s)), Handled(emptied), Handled(w)}
  BY DEF HandleAutoSell, emptied
<1> QED BY <1>2, <1>3, <1>4, <1>5, Zenon

\* A full bag begins a sale.
LEMMA SellOrGoOnGood ==
  ASSUME NEW w, Good("alive", w), NEW s
  PROVE  AllGood("alive", SellOrGoOn(w, s))
<1> DEFINE started == IF w.sell.phase = 0 /\ P(w).sell /\ s.bag = 0
                      THEN BeginAutoSell(w) ELSE {w}
<1>1. AllGood("alive", started)
  BY BeginSaleGood, Handles, Zenon
<1> HIDE DEF started
<1>2. \A x \in started : AllGood("alive", HandleAutoSell(x, s))
  BY <1>1, SaleGood, Zenon DEF AllGood
<1>3. AllGood("alive", UNION {HandleAutoSell(x, s) : x \in started})
  BY <1>2, Zenon DEF AllGood
<1> QED BY <1>3, Zenon DEF SellOrGoOn, started

----------------------------------------------------------------------------
(* Training *)

\* The click to fight is asked for as Train.
LEMMA RequestFightGood ==
  ASSUME NEW w, Good("alive", w), NEW s
  PROVE  Good("alive", RequestFight(w, s))
<1> DEFINE taken == ConsumePriorityAutoResult(w)
<1>1. Good("alive", taken)
  BY ConsumeGood
<1> HIDE DEF taken
<1>2. Good("alive", [taken EXCEPT !.train.tries = @ + 1, !.train.phase = IF taken.ok THEN 2 ELSE 0])
  BY <1>1, Writes, WorkWrites, Zenon
<1>3. Good("alive", QueuePriorityAutoClick(w, s, "Train"))
  <2>1. Asking("alive", "Train")
    BY DEF Owners, Workers, Asking
  <2> QED BY <2>1, QueueGood
<1> QED BY <1>2, <1>3, Zenon DEF RequestFight, taken

\* Turning AutoFight on.
LEMMA FightGood ==
  ASSUME NEW w, Good("alive", w), NEW s
  PROVE  AllGood("alive", HandleFightClicks(w, s))
<1> DEFINE again == [w EXCEPT !.train.phase = IF w.train.tries < 2 THEN 0 ELSE 2]
           fights == [w EXCEPT !.train.phase = 3, !.train.tries = 0, !.train.monitor = TRUE]
           over == [w EXCEPT !.train.phase = 3]
           idle == [w EXCEPT !.train.phase = 0]
<1>1. Good("alive", again) /\ Good("alive", fights) /\ Good("alive", over)
        /\ Good("alive", idle) /\ Good("alive", Fresh(w))
  BY Writes, WorkWrites, Zenon DEF Fresh
<1> HIDE DEF again, fights, over, idle
<1>2. /\ AllGood("alive", {Fresh(w)}) /\ AllGood("alive", Handled(w))
           /\ AllGood("alive", Handled(fights))
      /\ AllGood("alive", Handled(over)) /\ AllGood("alive", Handled(again))
      /\ AllGood("alive", Handled(RequestFight(idle, s)))
  BY <1>1, RequestFightGood, Handles
<1>3. AllGood("alive", WhenDue(w, Handled(again), Handled(w)))
  BY <1>2, Handles
<1> QED BY <1>2, <1>3, Zenon DEF HandleFightClicks, again, fights, over, idle

\* The return to the spot.
LEMMA ReturnGood ==
  ASSUME NEW w, Good("alive", w), NEW s
  PROVE  AllGood("alive", HandleTrainRecovery(w, s))
<1> DEFINE arrived(x) == [x EXCEPT !.train.back = FALSE, !.train.at = FALSE,
                                   !.train.phase = 0, !.train.tries = 0]
           next(x) == IF x.ok THEN arrived(x) ELSE x
<1>1. \A x : Good("alive", x) => Good("alive", next(x))
  <2>1. \A x : Good("alive", x) => Good("alive", arrived(x))
    BY Writes, WorkWrites, Zenon
  <2> HIDE DEF arrived
  <2> QED BY <2>1, Zenon
<1> HIDE DEF next
<1>2. AllGood("alive", {next(x) : x \in HandleRobustTravel(w, s, "spot")})
  BY <1>1, TravelGood, Zenon DEF AllGood
<1>3. AllGood("alive", {w})
        /\ AllGood("alive", Handle({next(x) : x \in HandleRobustTravel(w, s, "spot")}))
  BY <1>2, Handles
<1> QED BY <1>3, Zenon DEF HandleTrainRecovery, next

\* The checks of every minute and of every three minutes.
LEMMA MonitorGood ==
  ASSUME NEW w, Good("alive", w), NEW s
  PROVE  AllGood("alive", Monitor(w, s))
<1>1. \A x : Good("alive", x) => AllGood("alive", CheckAutoFight(x, s))
  <2> SUFFICES ASSUME NEW x, Good("alive", x)
               PROVE  AllGood("alive", CheckAutoFight(x, s))
    OBVIOUS
  <2>1. Good("alive", Fresh(x))
    BY Writes, WorkWrites, Zenon DEF Fresh
  <2>2. /\ AllGood("alive", {x}) /\ AllGood("alive", Handled(x))
             /\ AllGood("alive", HandleFightClicks(Fresh(x), s))
    BY <2>1, FightGood, Handles
  <2>3. AllGood("alive", IF s.fight = "unknown" THEN Handled(x)
                ELSE IF Fighting(s) THEN {x} ELSE HandleFightClicks(Fresh(x), s))
    BY <2>2, Zenon
  <2> QED BY <2>2, <2>3, Handles, Zenon DEF CheckAutoFight
<1>2. \A x : Good("alive", x) => AllGood("alive", CheckPosition(x, s))
  <2> SUFFICES ASSUME NEW x, Good("alive", x)
               PROVE  AllGood("alive", CheckPosition(x, s))
    OBVIOUS
  <2>1. AllGood("alive", HandleTrainRecovery(BeginTrainRecovery(x), s))
          /\ AllGood("alive", Handled(x))
    BY RecoveryGood, ReturnGood, Handles
  <2>2. AllGood("alive", IF AtTarget(s, "spot") THEN Handled(x)
                ELSE HandleTrainRecovery(BeginTrainRecovery(x), s))
    BY <2>1, Zenon
  <2> QED BY <2>1, <2>2, Handles, Zenon DEF CheckPosition
<1> DEFINE one == IF w.train.phase # 3 THEN HandleFightClicks(w, s) ELSE {w}
           two == UNION {IF x.done THEN {x} ELSE CheckAutoFight(x, s) : x \in one}
           three == UNION {IF x.done THEN {x} ELSE CheckPosition(x, s) : x \in two}
<1>3. AllGood("alive", one)
  BY FightGood, Handles, Zenon
<1> HIDE DEF one
<1>4. AllGood("alive", two)
  <2>1. \A x \in one : AllGood("alive", IF x.done THEN {x} ELSE CheckAutoFight(x, s))
    BY <1>1, <1>3, Zenon DEF AllGood
  <2> QED BY <2>1, Zenon DEF AllGood
<1> HIDE DEF two
<1>5. AllGood("alive", three)
  <2>1. \A x \in two : AllGood("alive", IF x.done THEN {x} ELSE CheckPosition(x, s))
    BY <1>2, <1>4, Zenon DEF AllGood
  <2> QED BY <2>1, Zenon DEF AllGood
<1> HIDE DEF three
<1>6. AllGood("alive", {w}) /\ AllGood("alive", Handled(w))
  BY Handles
<1> QED BY <1>5, <1>6, Zenon DEF Monitor, Then, one, two, three

\* Travel to the spot and the arrival there.
LEMMA RouteGood ==
  ASSUME NEW w, Good("alive", w), NEW s
  PROVE  AllGood("alive", TrainOrRoute(w, s))
<1> DEFINE action == Decide(s, "spot")
           left == IF w.train.at THEN Fresh(w) ELSE w
           away == [left EXCEPT !.train.monitor = FALSE, !.train.at = FALSE]
           v == IF AtTarget(s, "spot") THEN w ELSE away
           kept1 == IF w.train.at THEN w ELSE Fresh(w)
           arrived == [kept1 EXCEPT !.train.at = TRUE]
<1>1. Good("alive", Fresh(w))
  BY Writes, WorkWrites, Zenon DEF Fresh
<1>2. Good("alive", v)
  <2>1. Good("alive", left)
    BY <1>1, Zenon
  <2> HIDE DEF left
  <2> QED BY <2>1, Writes, WorkWrites, Zenon
<1>3. Good("alive", arrived)
  <2>1. Good("alive", kept1)
    BY <1>1, Zenon
  <2> HIDE DEF kept1
  <2> QED BY <2>1, Writes, WorkWrites, Zenon
<1> HIDE DEF v, arrived, action
<1>4. AllGood("alive", HandleFightClicks(arrived, s)) /\ AllGood("alive", {v})
      /\ AllGood("alive", SendDecision(v, s, action, "spot"))
  BY <1>2, <1>3, FightGood, Handles, SendGood
<1>5. TrainOrRoute(w, s) \in {HandleFightClicks(arrived, s), {v}, SendDecision(v, s, action, "spot")}
  BY DEF TrainOrRoute, action, left, away, v, kept1, arrived
<1> QED BY <1>4, <1>5, Zenon

----------------------------------------------------------------------------
(* Account: a tick, and the steps *)

\* The life of the account, handler by handler.
LEMMA LifeGood ==
  ASSUME NEW w, Fine(w), NEW s
  PROVE  AllSettled(LifeAndRoute(w, s))
<1> DEFINE one == HandleDeath(w, s)
           two == UNION {IF x.done THEN {x} ELSE UpdateRotationEfficiency(x, s) : x \in one}
           three == UNION {IF x.done THEN {x} ELSE HandleRouteOwnershipReset(x, s) : x \in two}
           four == UNION {IF x.done THEN {x} ELSE HandleUnderworldAutoFightGuard(x, s) : x \in three}
<1>1. AllSettled(one)
  BY DeathGood
<1> HIDE DEF one
<1>2. AllSettled(two)
  <2>1. \A x : Good("alive", x) => AllSettled(UpdateRotationEfficiency(x, s))
    BY RotationGood, Fines
  <2>2. \A x \in one : AllSettled(IF x.done THEN {x} ELSE UpdateRotationEfficiency(x, s))
    BY <1>1, <2>1, Zenon DEF AllSettled, Settled
  <2> QED BY <2>2, Zenon DEF AllSettled
<1> HIDE DEF two
<1>3. AllSettled(three)
  <2>1. \A x : Good("alive", x) => AllSettled(HandleRouteOwnershipReset(x, s))
    BY OwnershipGood, Fines
  <2>2. \A x \in two : AllSettled(IF x.done THEN {x} ELSE HandleRouteOwnershipReset(x, s))
    BY <1>2, <2>1, Zenon DEF AllSettled, Settled
  <2> QED BY <2>2, Zenon DEF AllSettled
<1> HIDE DEF three
<1>4. AllSettled(four)
  <2>1. \A x : Good("alive", x) => AllSettled(HandleUnderworldAutoFightGuard(x, s))
    BY UnderworldGood, Fines
  <2>2. \A x \in three : AllSettled(IF x.done THEN {x} ELSE HandleUnderworldAutoFightGuard(x, s))
    BY <1>3, <2>1, Zenon DEF AllSettled, Settled
  <2> QED BY <2>2, Zenon DEF AllSettled
<1> HIDE DEF four
<1> QED BY <1>4, Zenon DEF LifeAndRoute, Then, one, two, three, four

\* What it does with its life, handler by handler.
LEMMA WorkGood ==
  ASSUME NEW w, Good("alive", w), NEW s
  PROVE  AllGood("alive", Work(w, s))
<1> DEFINE one == WhenDue(w, {w}, Handled(w))
           two == UNION {IF x.done THEN {x} ELSE SellOrGoOn(x, s) : x \in one}
           three == UNION {IF x.done THEN {x} ELSE HandleTrainRecovery(x, s) : x \in two}
           four == UNION {IF x.done THEN {x} ELSE Monitor(x, s) : x \in three}
           five == UNION {IF x.done THEN {x} ELSE TrainOrRoute(x, s) : x \in four}
<1>1. AllGood("alive", one)
  BY Handles
<1> HIDE DEF one
<1>2. AllGood("alive", two)
  <2>1. \A x \in one : AllGood("alive", IF x.done THEN {x} ELSE SellOrGoOn(x, s))
    BY <1>1, SellOrGoOnGood, Zenon DEF AllGood
  <2> QED BY <2>1, Zenon DEF AllGood
<1> HIDE DEF two
<1>3. AllGood("alive", three)
  <2>1. \A x \in two : AllGood("alive", IF x.done THEN {x} ELSE HandleTrainRecovery(x, s))
    BY <1>2, ReturnGood, Zenon DEF AllGood
  <2> QED BY <2>1, Zenon DEF AllGood
<1> HIDE DEF three
<1>4. AllGood("alive", four)
  <2>1. \A x \in three : AllGood("alive", IF x.done THEN {x} ELSE Monitor(x, s))
    BY <1>3, MonitorGood, Zenon DEF AllGood
  <2> QED BY <2>1, Zenon DEF AllGood
<1> HIDE DEF four
<1>5. AllGood("alive", five)
  <2>1. \A x \in four : AllGood("alive", IF x.done THEN {x} ELSE TrainOrRoute(x, s))
    BY <1>4, RouteGood, Zenon DEF AllGood
  <2> QED BY <2>1, Zenon DEF AllGood
<1> HIDE DEF five
<1> QED BY <1>5, Zenon DEF Work, Then, one, two, three, four, five

\* The account's turn, if the map is there.
LEMMA TickAccountGood ==
  ASSUME NEW w, Fine(w), NEW s
  PROVE  AllFine(TickAccount(w, s))
<1> DEFINE one == LifeAndRoute(w, s)
           two == UNION {IF x.done THEN {x} ELSE Work(x, s) : x \in one}
<1>1. AllSettled(one)
  BY LifeGood
<1> HIDE DEF one
<1>2. AllFine(two)
  <2>1. \A x : Good("alive", x) => AllFine(Work(x, s))
    BY WorkGood, Fines
  <2>2. \A x \in one : AllFine(IF x.done THEN {x} ELSE Work(x, s))
    BY <1>1, <2>1, Zenon DEF AllSettled, AllFine, Settled, Fine
  <2> QED BY <2>2, Zenon DEF AllFine
<1> HIDE DEF two
<1>3. AllFine({w})
  BY DEF AllFine
<1> QED BY <1>2, <1>3, Zenon DEF TickAccount, Then, one, two

\* The whole tick, whatever is paused.
LEMMA TickGood ==
  ASSUME NEW w, Fine(w), NEW s, NEW pause
  PROVE  AllFine(TickOf(w, s, pause))
<1> DEFINE first(x) == IF pause = "no" THEN Priorities(x, s) ELSE {x}
           second(x) == IF pause = "recording" THEN {x} ELSE HoldUntilClientStable(x, s)
           third(x) == IF pause = "no" THEN HandleAutoPathFightInvariant(x, s) ELSE {x}
           fourth(x) == IF pause = "no" THEN TickAccount(x, s) ELSE {x}
           one == ObserveMovement(w, s)
           two == UNION {IF x.done THEN {x} ELSE first(x) : x \in one}
           three == UNION {IF x.done THEN {x} ELSE second(x) : x \in two}
           four == UNION {IF x.done THEN {x} ELSE third(x) : x \in three}
           five == UNION {IF x.done THEN {x} ELSE fourth(x) : x \in four}
<1>1. \A x : Fine(x) => /\ AllFine(first(x)) /\ AllFine(second(x))
                        /\ AllFine(third(x)) /\ AllFine(fourth(x)) /\ AllFine({x})
  <2> SUFFICES ASSUME NEW x, Fine(x)
               PROVE  /\ AllFine(first(x)) /\ AllFine(second(x))
                      /\ AllFine(third(x)) /\ AllFine(fourth(x)) /\ AllFine({x})
    OBVIOUS
  <2>1. AllFine({x})
    BY DEF AllFine
  <2>2. AllFine(Priorities(x, s)) /\ AllFine(TickAccount(x, s))
    BY PrioritiesGood, TickAccountGood
  <2>3. AllFine(HoldUntilClientStable(x, s)) /\ AllFine(HandleAutoPathFightInvariant(x, s))
    BY HoldGood, InvariantGood, Fines DEF Fine
  <2> QED BY <2>1, <2>2, <2>3, Zenon
<1>2. AllFine(one)
  BY ObserveGood, Fines DEF Fine
<1> HIDE DEF first, second, third, fourth, one
<1>3. AllFine(two)
  <2>1. \A x \in one : AllFine(IF x.done THEN {x} ELSE first(x))
    BY <1>1, <1>2, Zenon DEF AllFine
  <2> QED BY <2>1, Zenon DEF AllFine
<1> HIDE DEF two
<1>4. AllFine(three)
  <2>1. \A x \in two : AllFine(IF x.done THEN {x} ELSE second(x))
    BY <1>1, <1>3, Zenon DEF AllFine
  <2> QED BY <2>1, Zenon DEF AllFine
<1> HIDE DEF three
<1>5. AllFine(four)
  <2>1. \A x \in three : AllFine(IF x.done THEN {x} ELSE third(x))
    BY <1>1, <1>4, Zenon DEF AllFine
  <2> QED BY <2>1, Zenon DEF AllFine
<1> HIDE DEF four
<1>6. AllFine(five)
  <2>1. \A x \in four : AllFine(IF x.done THEN {x} ELSE fourth(x))
    BY <1>1, <1>5, Zenon DEF AllFine
  <2> QED BY <2>1, Zenon DEF AllFine
<1> HIDE DEF five
<1> QED BY <1>6, Zenon DEF TickOf, Safe, Then, one, two, three, four, five,
                          first, second, third, fourth

\* The inductive invariant: the mailbox in order, and during a death session the
\* workflows at rest.
LivesApart ==
  /\ IsKept(kept) /\ FitBox("alive", box)
  /\ kept.latched => FitBox("dead", box) /\ AtRest(mount, route, train, sell)

\* The record of a step is good when the variables are, and the other way round.
LEMMA RecordGood ==
  ASSUME LivesApart, NEW late
  PROVE  Fine(Record(late))
BY DEF LivesApart, Fine, Good, IsRecord, Record

LEMMA BecomesGood ==
  ASSUME NEW w, Fine(w), Becomes(w)
  PROVE  LivesApart'
<1>1. FitBox("dead", w.box) => FitBox("alive", w.box)
  BY DEF FitBox
<1>2. /\ IsKept(w.kept) /\ FitBox("alive", w.box)
      /\ w.kept.latched => FitBox("dead", w.box) /\ AtRest(w.mount, w.route, w.train, w.sell)
  BY <1>1 DEF Fine, Good
<1> QED BY <1>2 DEF LivesApart, Becomes, IsKept, FitBox, OneClick, IsBox, AtRest,
                    RouteAtRest, TrainAtRest

\* A start begins a life, with the route to take back.
LEMMA StartIsAlive ==
  ASSUME NEW w, Fine(w)
  PROVE  Fine([ResetRuntime(w) EXCEPT !.route.pending = TRUE,
                                      !.kept.latched = FALSE, !.kept.deaths = 0])
<1>1. PICK life : Good(life, w)
  BY DEF Fine
<1>2. Good(life, ResetRuntime(w))
  BY <1>1, Resets
<1> DEFINE v == [ResetRuntime(w) EXCEPT !.route.pending = TRUE]
           u == [v EXCEPT !.kept.latched = FALSE]
<1>3. Good(life, v)
  BY <1>2, RestWrites, Zenon
<1> HIDE DEF v
<1>4. Good("alive", u)
  BY <1>3, Latches
<1> HIDE DEF u
<1>5. Good("alive", [u EXCEPT !.kept.deaths = 0])
  BY <1>4, KeptWrites, Zenon
<1> QED BY <1>5, Zenon DEF Fine, u, v

\* Every step of the account keeps it.
LEMMA StepGood ==
  ASSUME LivesApart, [Next]_vars
  PROVE  LivesApart'
<1> DEFINE w0 == Record(FALSE)
           born == [ResetRuntime(w0) EXCEPT !.kept.latched = FALSE]
<1>1. Fine(w0)
  BY RecordGood
<1>2. Good("alive", born)
  BY <1>1, LifeBegins, Zenon DEF Fine
<1> HIDE DEF w0, born
<1>3. CASE Tick
  <2>1. PICK pause, s : \E w \in TickOf(w0, s, pause) : Becomes(w)
    BY <1>3 DEF Tick, TickWith, w0
  <2>2. PICK w \in TickOf(w0, s, pause) : Becomes(w)
    BY <2>1
  <2>3. Fine(w)
    BY <1>1, <2>2, TickGood DEF AllFine
  <2> QED BY <2>2, <2>3, BecomesGood
<1>4. CASE ReadFails
  <2>1. Fine(MarkReadStateFailure(w0))
    BY <1>1, Freezes DEF Fine
  <2> QED BY <1>4, <2>1, BecomesGood DEF ReadFails, w0
<1>5. CASE StartChecked
  <2> DEFINE w == [ResetRuntime(w0) EXCEPT !.route.pending = TRUE,
                                          !.kept.latched = FALSE, !.kept.deaths = 0]
  <2>2. Becomes(w)
    BY <1>5, Zenon DEF StartChecked, w0
  <2>1. Fine(w)
    BY <1>1, StartIsAlive
  <2> HIDE DEF w
  <2> QED BY <2>1, <2>2, BecomesGood
<1>6. CASE StopAccount
  <2> DEFINE reset == [ResetRuntime(w0) EXCEPT !.kept.latched = FALSE, !.kept.deaths = 0]
             quiet == IF client = "ok" THEN Call(reset, "StopPath") ELSE {reset}
             off(w) == [w EXCEPT !.client = "off"]
  <2>1. Good("alive", reset)
    BY <1>2, KeptWrites, Zenon DEF born
  <2>3. \E w \in quiet : Becomes(off(w))
    BY <1>6, Zenon DEF StopAccount, w0
  <2> HIDE DEF reset
  <2>2. AllGood("alive", quiet)
    <3>1. AllGood("alive", Call(reset, "StopPath")) /\ AllGood("alive", {reset})
      BY <2>1, CallGood, Handles
    <3> QED BY <3>1, Zenon
  <2> HIDE DEF quiet
  <2>4. PICK w \in quiet : Becomes(off(w))
    BY <2>3
  <2>5. Good("alive", off(w))
    BY <2>2, <2>4, Writes, Zenon DEF AllGood
  <2> HIDE DEF off
  <2> QED BY <2>4, <2>5, BecomesGood DEF Fine
<1>7. CASE CalmDown
  BY <1>7 DEF CalmDown, runtime, LivesApart, IsKept, FitBox, OneClick, IsBox, AtRest,
              RouteAtRest, TrainAtRest
<1>8. CASE UNCHANGED vars
  BY <1>8 DEF vars, runtime, LivesApart, IsKept, FitBox, OneClick, IsBox, AtRest,
              RouteAtRest, TrainAtRest
<1> QED BY <1>3, <1>4, <1>5, <1>6, <1>7, <1>8 DEF Next

\* So that it always holds.
LEMMA LivesApartAlways == Spec => []LivesApart
<1>1. Init => LivesApart
  BY ClearBoxGood DEF Init, LivesApart, IsKept
<1>2. LivesApart /\ [Next]_vars => LivesApart'
  BY StepGood
<1> QED BY <1>1, <1>2, PTL DEF Spec

\* A request and a result are never in the mailbox together, and only an ATTACK
\* request has had its first click: the handlers of a tick, in whatever way they
\* follow each other, queue over no result, and whatever they reset, freeze or
\* cancel leaves no half of a request behind.
THEOREM OneClickAlways == Spec => []OneClickInFlight
<1>1. LivesApart => OneClickInFlight
  BY DEF LivesApart, FitBox, OneClick, OneClickInFlight
<1> QED BY <1>1, LivesApartAlways, PTL

\* "Never carry ANY runtime state from the previous life": while a death session
\* lasts there is no sale, no mount recovery, no armed route, no return and no
\* check of the training, and none of their clicks is in the mailbox, whether the
\* death was first seen by the revival or by the life handler, and whatever the
\* travel guard, the conflict recovery and the freeze do until the new life.
THEOREM NoCarryOverAlways == Spec => []NoCarryOver
<1>1. LivesApart => NoCarryOver
  BY DEF LivesApart, FitBox, Workers, AtRest, RouteAtRest, TrainAtRest, NoCarryOver
<1> QED BY <1>1, LivesApartAlways, PTL

=============================================================================
