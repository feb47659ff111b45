------------------------- MODULE AccountTickProofs -------------------------
(***************************************************************************)
(* The other properties of the account, for every scene and every limit:   *)
(* the types, who owns a travel phase, the cursor of the sale, what may be *)
(* sent, and the order of the clicks.  One pass over the handlers proves   *)
(* them all.  A handler that neither sells nor ends a return stays on its  *)
(* trip (the sale, the shop, whether the account is on its way back) and   *)
(* on its course: sets of clicks (a mailbox and the guard), routes, lives  *)
(* and traces of calls that are closed under what the handler writes.      *)
(* Each property then is a choice of these sets; the order of the clicks   *)
(* takes two: one course up to the click of a tick, and one after it.      *)
(***************************************************************************)
EXTENDS AccountProofs

----------------------------------------------------------------------------
(* Types *)

Clients == {"off", "ok", "frozen", "settling"}
Replies == {"ok", "fail", "timeout"}

\* The second STOP click counts only until it is verified (phase 2).
Guards ==
  {g \in [phase : 0 .. 5, stops : 0 .. 2, conflict : {"no", "new", "stopping"}] :
     g.phase # 2 => g.stops <= 1}
Mounts == [tries : 0 .. 2, cycle : 0 .. 1, boost : {0, 1, 4, 5}, foot : BOOLEAN]
Routes ==
  [pending : BOOLEAN, stops : 0 .. OwnershipStops, armed : BOOLEAN, moved : BOOLEAN,
   seen : BOOLEAN, map : {"train", "npc", "gate", "underworld", None}]
Trains == [phase : {0, 2, 3}, tries : 0 .. 2, at : BOOLEAN, monitor : BOOLEAN, back : BOOLEAN]
Sales ==
  [phase : {0} \cup 4 .. 8 \cup {10}, opens : 0 .. OpenLimit, index : 0 .. 5,
   repeat : 0 .. (ItemCap + Layers), pass : 0 .. 2, stable : BOOLEAN]
Kepts == [latched : BOOLEAN, deaths : 0 .. DeathLimit, learned : Nat]
Shops == [active : BOOLEAN, stage : 0 .. 4, callbacks : 0 .. ItemCap]

\* The counters of a sale in its phases, and the session of the bridge.
SaleOK(sl, sh) ==
  /\ sl \in Sales /\ sh \in Shops
  /\ sl.phase = 4 => sl.pass = 0 /\ sl.opens = 0
  /\ sl.phase = 5 => sl.pass <= 1 /\ sl.opens <= 1
  /\ sl.phase = 6 =>
       /\ sl.index <= 4 => sh.active /\ sl.index <= sh.stage
       /\ sl.index < 4 => sl.opens < OpenLimit /\ sl.repeat = 0
       /\ sl.index = 4 => /\ sl.opens < ItemLimit /\ sl.repeat < ItemCap
                          /\ sl.repeat <= sh.callbacks \/ sh.callbacks = ItemCap
       /\ sl.index = 5 => sl.opens < CloseLimit /\ sl.repeat <= Layers

----------------------------------------------------------------------------
(* Courses and trips *)

\* On the way to the NPC, to the spot after a sale, or back to the spot.
Travels(j) == j.back \/ j.sell.phase \in {4, 8}
Free(j) == ~j.back /\ j.sell.phase = 0

\* A record on its course c and on its trip j.
On(c, j, w) ==
  /\ IsRecord(w) /\ w.scene \in DOMAIN Scenes
  /\ <<w.client, w.sent>> \in c.traces /\ <<w.box, w.guard>> \in c.clicks
  /\ w.mount \in Mounts /\ (w.mount # IdleMount => Travels(j))
  /\ w.route \in c.routes
  /\ w.train \in Trains /\ (w.train.monitor => Free(j)) /\ w.train.back = j.back
  /\ w.sell = j.sell /\ w.revive \in 0 .. 2 /\ w.kept \in c.kepts /\ w.shop = j.shop
  /\ w.ok \in BOOLEAN

AllOn(c, j, ws) == \A w \in ws : On(c, j, w)

\* A mailbox whose result was taken, and one with a request.
Emptied(b) == [req |-> b.req, point |-> b.point, res |-> None, ok |-> FALSE]
Requested(b, o) == [req |-> o, point |-> 0, res |-> b.res, ok |-> b.ok]

\* The guard in another phase.
Phase(g, p, n) == [phase |-> p, stops |-> n, conflict |-> g.conflict]

\* Who may ask for a click while the guard is in its phase.  The guard asks for its
\* reset and goes on to the next phase in one.
MayAsk(g, o) == o \in Workers \/ (o = "TravelGuardStop" /\ g.phase = 0)

Typed(c) ==
  /\ c.clicks \in SUBSET (Mailbox \X Guards)
  /\ c.routes \in SUBSET Routes /\ c.kepts \in SUBSET Kepts

\* The clicks of a course: results are taken, requests put into an empty mailbox.
Mails(c) ==
  \A b, g : <<b, g>> \in c.clicks =>
    /\ <<Emptied(b), g>> \in c.clicks
    /\ b.req = None /\ b.res = None =>
         \A o \in Owners : MayAsk(g, o) => <<Requested(b, o), g>> \in c.clicks

\* The steps of the travel guard.
GuardSteps(c) ==
  \A b, g : <<b, g>> \in c.clicks =>
    /\ <<b, Phase(g, 0, 0)>> \in c.clicks
    /\ g.phase = 0 /\ b.req = "TravelGuardStop" => <<b, Phase(g, 1, g.stops)>> \in c.clicks
    /\ g.phase = 3 /\ b.req = "TravelGuardReset" => <<b, Phase(g, 4, g.stops)>> \in c.clicks
    /\ g.phase = 3 /\ b.req = None /\ b.res = None =>
         <<Requested(b, "TravelGuardReset"), Phase(g, 4, g.stops)>> \in c.clicks
    /\ g.phase = 1 /\ b.res = "TravelGuardStop" =>
         IF b.ok THEN <<Emptied(b), Phase(g, 2, g.stops + 1)>> \in c.clicks
         ELSE <<Emptied(b), Phase(g, 0, g.stops)>> \in c.clicks
    /\ g.phase = 2 => IF g.stops < 2 THEN <<b, Phase(g, 0, g.stops)>> \in c.clicks
                      ELSE <<b, Phase(g, 3, 0)>> \in c.clicks
    /\ g.phase = 4 /\ b.res = "TravelGuardReset" =>
         <<Emptied(b), Phase(g, IF b.ok THEN 5 ELSE 3, g.stops)>> \in c.clicks

\* A course on which the guard may do its work.
Guarded(c) == Typed(c) /\ Mails(c) /\ GuardSteps(c)

\* The lives of a course: a window may be emptied, a sale may be learned from.
LivesOn(c) ==
  \A k \in c.kepts :
    /\ [latched |-> k.latched, deaths |-> 0, learned |-> k.learned] \in c.kepts
    /\ \A n \in Nat : [latched |-> k.latched, deaths |-> k.deaths, learned |-> n] \in c.kepts

\* A call of this name may be made on the course, whatever it ends with.
Allows(c, what) ==
  \A q : <<"ok", q>> \in c.traces =>
    /\ <<"ok", Append(q, [do |-> what, answer |-> "ok"])>> \in c.traces
    /\ <<"ok", Append(q, [do |-> what, answer |-> "fail"])>> \in c.traces
    /\ <<"frozen", Append(q, [do |-> what, answer |-> "timeout"])>> \in c.traces

\* A route may be armed.
MayArm(c) ==
  \A r \in c.routes : \A b \in BOOLEAN :
    [pending |-> r.pending, stops |-> r.stops, armed |-> TRUE, moved |-> b, seen |-> r.seen,
     map |-> r.map] \in c.routes

----------------------------------------------------------------------------
(* Records *)

\* Reading the fields.
LEMMA RecordRead ==
  ASSUME NEW a, NEW b, NEW c, NEW d, NEW e, NEW f, NEW g, NEW h, NEW i, NEW j,
         NEW k, NEW l, NEW m, NEW n, NEW o, NEW p, NEW q, NEW w,
         w = RecordOf(a, b, c, d, e, f, g, h, i, j, k, l, m, n, o, p, q)
  PROVE  /\ IsRecord(w) /\ w.scene = a /\ w.client = b /\ w.box = c /\ w.guard = d
         /\ w.mount = e /\ w.route = f /\ w.train = g /\ w.sell = h /\ w.revive = i
         /\ w.kept = j /\ w.shop = k /\ w.sent = l /\ w.calm = m /\ w.late = n /\ w.ok = o
         /\ w.done = p /\ w.closed = q
BY DEF RecordOf, IsRecord

\* A record on a course, in parts.
LEMMA OnParts ==
  ASSUME NEW course, NEW trip, NEW a, NEW b, NEW c, NEW d, NEW e, NEW f, NEW g, NEW h, NEW i,
         NEW j, NEW k, NEW l, NEW m, NEW n, NEW o, NEW p, NEW q
  PROVE  On(course, trip, RecordOf(a, b, c, d, e, f, g, h, i, j, k, l, m, n, o, p, q)) <=>
           /\ a \in DOMAIN Scenes /\ <<b, l>> \in course.traces
           /\ <<c, d>> \in course.clicks /\ e \in Mounts /\ (e # IdleMount => Travels(trip))
           /\ f \in course.routes /\ g \in Trains /\ (g.monitor => Free(trip))
           /\ g.back = trip.back /\ h = trip.sell /\ i \in 0 .. 2 /\ j \in course.kepts
           /\ k = trip.shop /\ o \in BOOLEAN
BY RecordRead DEF On

\* Writing one field stays on the course, if the value may be there.
LEMMA FieldOn ==
  ASSUME NEW c, NEW j, NEW w, On(c, j, w), NEW x
  PROVE  /\ <<x, w.sent>> \in c.traces => On(c, j, [w EXCEPT !.client = x])
         /\ <<x, w.guard>> \in c.clicks => On(c, j, [w EXCEPT !.box = x])
         /\ <<w.box, x>> \in c.clicks => On(c, j, [w EXCEPT !.guard = x])
         /\ x \in Mounts /\ (x = IdleMount \/ Travels(j)) => On(c, j, [w EXCEPT !.mount = x])
         /\ x \in c.routes => On(c, j, [w EXCEPT !.route = x])
         /\ x \in Trains /\ (x.monitor => Free(j)) /\ x.back = j.back
              => On(c, j, [w EXCEPT !.train = x])
         /\ x \in 0 .. 2 => On(c, j, [w EXCEPT !.revive = x])
         /\ x \in c.kepts => On(c, j, [w EXCEPT !.kept = x])
         /\ <<w.client, x>> \in c.traces => On(c, j, [w EXCEPT !.sent = x])
         /\ x \in BOOLEAN => On(c, j, [w EXCEPT !.ok = x])
         /\ On(c, j, [w EXCEPT !.done = x]) /\ On(c, j, [w EXCEPT !.closed = x])
<1>1. PICK a0, b0, c0, d0, e0, f0, g0, h0, i0, j0, k0, l0, m0, n0, o0, p0, q0 :
           w = RecordOf(a0, b0, c0, d0, e0, f0, g0, h0, i0, j0, k0, l0, m0, n0, o0, p0, q0)
  BY RecordParts DEF On
<1>2. w.client = b0 /\ w.sent = l0 /\ w.box = c0 /\ w.guard = d0
  BY <1>1, RecordRead
<1>3. /\ a0 \in DOMAIN Scenes /\ <<b0, l0>> \in c.traces
      /\ <<c0, d0>> \in c.clicks /\ e0 \in Mounts /\ (e0 # IdleMount => Travels(j))
      /\ f0 \in c.routes /\ g0 \in Trains /\ (g0.monitor => Free(j))
      /\ g0.back = j.back /\ h0 = j.sell /\ i0 \in 0 .. 2 /\ j0 \in c.kepts
      /\ k0 = j.shop /\ o0 \in BOOLEAN
  BY <1>1, OnParts
<1> DEFINE R(bb, cc, dd, ee, ff, gg, hh, ii, jj, kk, ll, oo, pp, qq) ==
             RecordOf(a0, bb, cc, dd, ee, ff, gg, hh, ii, jj, kk, ll, m0, n0, oo, pp, qq)
<1>4. /\ [w EXCEPT !.client = x] = R(x, c0, d0, e0, f0, g0, h0, i0, j0, k0, l0, o0, p0, q0)
      /\ [w EXCEPT !.box = x] = R(b0, x, d0, e0, f0, g0, h0, i0, j0, k0, l0, o0, p0, q0)
      /\ [w EXCEPT !.guard = x] = R(b0, c0, x, e0, f0, g0, h0, i0, j0, k0, l0, o0, p0, q0)
      /\ [w EXCEPT !.mount = x] = R(b0, c0, d0, x, f0, g0, h0, i0, j0, k0, l0, o0, p0, q0)
      /\ [w EXCEPT !.route = x] = R(b0, c0, d0, e0, x, g0, h0, i0, j0, k0, l0, o0, p0, q0)
      /\ [w EXCEPT !.train = x] = R(b0, c0, d0, e0, f0, x, h0, i0, j0, k0, l0, o0, p0, q0)
  BY <1>1 DEF RecordOf
<1>5. /\ [w EXCEPT !.revive = x] = R(b0, c0, d0, e0, f0, g0, h0, x, j0, k0, l0, o0, p0, q0)
      /\ [w EXCEPT !.kept = x] = R(b0, c0, d0, e0, f0, g0, h0, i0, x, k0, l0, o0, p0, q0)
      /\ [w EXCEPT !.sent = x] = R(b0, c0, d0, e0, f0, g0, h0, i0, j0, k0, x, o0, p0, q0)
      /\ [w EXCEPT !.ok = x] = R(b0, c0, d0, e0, f0, g0, h0, i0, j0, k0, l0, x, p0, q0)
      /\ [w EXCEPT !.done = x] = R(b0, c0, d0, e0, f0, g0, h0, i0, j0, k0, l0, o0, x, q0)
      /\ [w EXCEPT !.closed = x] = R(b0, c0, d0, e0, f0, g0, h0, i0, j0, k0, l0, o0, p0, x)
  BY <1>1 DEF RecordOf
<1>6. \A bb, cc, dd, ee, ff, gg, hh, ii, jj, kk, ll, oo, pp, qq :
        On(c, j, R(bb, cc, dd, ee, ff, gg, hh, ii, jj, kk, ll, oo, pp, qq)) <=>
          /\ <<bb, ll>> \in c.traces /\ <<cc, dd>> \in c.clicks
          /\ ee \in Mounts /\ (ee # IdleMount => Travels(j))
          /\ ff \in c.routes /\ gg \in Trains /\ (gg.monitor => Free(j))
          /\ gg.back = j.back /\ hh = j.sell /\ ii \in 0 .. 2 /\ jj \in c.kepts
          /\ kk = j.shop /\ oo \in BOOLEAN
  BY <1>3, OnParts
<1> HIDE DEF R
<1>7. /\ <<x, w.sent>> \in c.traces => On(c, j, [w EXCEPT !.client = x])
      /\ <<w.client, x>> \in c.traces => On(c, j, [w EXCEPT !.sent = x])
  BY <1>2, <1>3, <1>4, <1>5, <1>6
<1>8. /\ <<x, w.guard>> \in c.clicks => On(c, j, [w EXCEPT !.box = x])
      /\ <<w.box, x>> \in c.clicks => On(c, j, [w EXCEPT !.guard = x])
      /\ x \in c.routes => On(c, j, [w EXCEPT !.route = x])
  BY <1>2, <1>3, <1>4, <1>6
<1>9. /\ x \in Mounts /\ (x = IdleMount \/ Travels(j)) => On(c, j, [w EXCEPT !.mount = x])
      /\ x \in Trains /\ (x.monitor => Free(j)) /\ x.back = j.back
           => On(c, j, [w EXCEPT !.train = x])
  BY <1>3, <1>4, <1>6
<1>10. /\ x \in 0 .. 2 => On(c, j, [w EXCEPT !.revive = x])
       /\ x \in c.kepts => On(c, j, [w EXCEPT !.kept = x])
       /\ x \in BOOLEAN => On(c, j, [w EXCEPT !.ok = x])
       /\ On(c, j, [w EXCEPT !.done = x]) /\ On(c, j, [w EXCEPT !.closed = x])
  BY <1>3, <1>5, <1>6
<1> QED BY <1>7, <1>8, <1>9, <1>10

\* The fields whatever trip and course the record is on.
LEMMA WritesOn ==
  ASSUME NEW c, NEW j
  PROVE  /\ \A w, x : On(c, j, w) /\ <<x, w.guard>> \in c.clicks => On(c, j, [w EXCEPT !.box = x])
         /\ \A w, x : On(c, j, w) /\ <<w.box, x>> \in c.clicks
                        => On(c, j, [w EXCEPT !.guard = x])
         /\ \A w, x : On(c, j, w) /\ x \in Mounts /\ (x = IdleMount \/ Travels(j))
                        => On(c, j, [w EXCEPT !.mount = x])
         /\ \A w, x : On(c, j, w) /\ x \in c.routes => On(c, j, [w EXCEPT !.route = x])
         /\ \A w, x : On(c, j, w) /\ x \in Trains /\ (x.monitor => Free(j)) /\ x.back = j.back
                        => On(c, j, [w EXCEPT !.train = x])
         /\ \A w, x : On(c, j, w) /\ x \in 0 .. 2 => On(c, j, [w EXCEPT !.revive = x])
         /\ \A w, x : On(c, j, w) /\ x \in c.kepts => On(c, j, [w EXCEPT !.kept = x])
         /\ \A w, x : On(c, j, w) /\ x \in BOOLEAN => On(c, j, [w EXCEPT !.ok = x])
         /\ \A w, x : On(c, j, w) => On(c, j, [w EXCEPT !.done = x])
         /\ \A w, x : On(c, j, w) => On(c, j, [w EXCEPT !.closed = x])
BY FieldOn, Zenon

\* Who owns the tick, a question's answer and a timer are no matter of the course.
LEMMA HandlesOn ==
  ASSUME NEW c, NEW j
  PROVE  /\ \A w : On(c, j, w) => /\ On(c, j, Yes(w)) /\ On(c, j, No(w))
                                  /\ AllOn(c, j, Handled(w)) /\ AllOn(c, j, {w})
         /\ \A ws : AllOn(c, j, ws) => AllOn(c, j, Handle(ws))
         /\ \A w, due, early : AllOn(c, j, due) /\ AllOn(c, j, early)
                                 => AllOn(c, j, WhenDue(w, due, early))
<1>1. TRUE \in BOOLEAN /\ FALSE \in BOOLEAN
  OBVIOUS
<1>2. \A w : On(c, j, w) => On(c, j, Yes(w)) /\ On(c, j, No(w))
  BY <1>1, WritesOn, Zenon DEF Yes, No
<1>3. \A w : On(c, j, w) => On(c, j, [w EXCEPT !.done = TRUE])
  BY WritesOn, Zenon
<1>4. \A w : On(c, j, w) => AllOn(c, j, Handled(w)) /\ AllOn(c, j, {w})
  BY <1>3, Zenon DEF Handled, AllOn
<1>5. \A ws : AllOn(c, j, ws) => AllOn(c, j, Handle(ws))
  BY <1>3, Zenon DEF Handle, AllOn
<1>6. \A w, due, early : AllOn(c, j, due) /\ AllOn(c, j, early)
                       => AllOn(c, j, WhenDue(w, due, early))
  BY Zenon DEF WhenDue, AllOn
<1> QED BY <1>2, <1>4, <1>5, <1>6

----------------------------------------------------------------------------
(* Calls *)

\* What a call may end with.
LEMMA AnswersOn ==
  ASSUME NEW w, w.scene \in DOMAIN Scenes
  PROVE  Answers(w) \subseteq Replies
BY SceneAssumption, SMT DEF Answers, P, Replies

\* The fight of a training may be begun anew in any trip.
LEMMA TrainWritten ==
  ASSUME NEW c, NEW j, NEW w, On(c, j, w)
  PROVE  /\ \A x \in {0, 2, 3} : On(c, j, [w EXCEPT !.train.phase = x])
         /\ \A x \in 0 .. 2 : On(c, j, [w EXCEPT !.train.tries = x])
         /\ \A x \in BOOLEAN : On(c, j, [w EXCEPT !.train.at = x])
         /\ \A x \in BOOLEAN : (x => Free(j)) => On(c, j, [w EXCEPT !.train.monitor = x])
<1>1. w.train \in Trains /\ (w.train.monitor => Free(j)) /\ w.train.back = j.back
  BY DEF On
<1>2. \A t \in Trains : (t.monitor => Free(j)) /\ t.back = j.back
                          => On(c, j, [w EXCEPT !.train = t])
  BY WritesOn
<1> DEFINE t == w.train
<1> HIDE DEF t
<1>3. ASSUME t \in Trains
      PROVE  /\ \A x \in {0, 2, 3} : LET u == [t EXCEPT !.phase = x] IN
                  u \in Trains /\ u.monitor = t.monitor /\ u.back = t.back
             /\ \A x \in 0 .. 2 : LET u == [t EXCEPT !.tries = x] IN
                  u \in Trains /\ u.monitor = t.monitor /\ u.back = t.back
             /\ \A x \in BOOLEAN : LET u == [t EXCEPT !.at = x] IN
                  u \in Trains /\ u.monitor = t.monitor /\ u.back = t.back
             /\ \A x \in BOOLEAN : LET u == [t EXCEPT !.monitor = x] IN
                  u \in Trains /\ u.monitor = x /\ u.back = t.back
  BY <1>3 DEF Trains
<1>4. \A x \in {0, 2, 3} : On(c, j, [w EXCEPT !.train = [t EXCEPT !.phase = x]])
  BY <1>1, <1>2, <1>3 DEF t
<1>5. \A x \in 0 .. 2 : On(c, j, [w EXCEPT !.train = [t EXCEPT !.tries = x]])
  BY <1>1, <1>2, <1>3 DEF t
<1>6. \A x \in BOOLEAN : On(c, j, [w EXCEPT !.train = [t EXCEPT !.at = x]])
  BY <1>1, <1>2, <1>3 DEF t
<1>7. \A x \in BOOLEAN : (x => Free(j))
        => On(c, j, [w EXCEPT !.train = [t EXCEPT !.monitor = x]])
  BY <1>1, <1>2, <1>3 DEF t
<1> QED BY <1>4, <1>5, <1>6, <1>7, Zenon DEF t

\* A freeze.
LEMMA FreezeOn ==
  ASSUME NEW c, NEW j, NEW w, On(c, j, w), <<"frozen", w.sent>> \in c.traces
  PROVE  On(c, j, EnterClientFreeze(w))
<1> DEFINE v == [w EXCEPT !.client = "frozen"]
<1>1. On(c, j, v)
  BY FieldOn
<1> HIDE DEF v
<1>2. On(c, j, [v EXCEPT !.train.phase = 0])
  BY <1>1, TrainWritten
<1> QED BY <1>2, Zenon DEF EnterClientFreeze, v

\* A call and its answer.
LEMMA AnsweredOn ==
  ASSUME NEW c, NEW j, NEW w, On(c, j, w), w.client = "ok", NEW what, Allows(c, what),
         NEW answer \in Replies
  PROVE  /\ On(c, j, Answered(w, what, answer))
         /\ Answered(w, what, answer).ok = (answer = "ok")
<1> DEFINE one == [do |-> what, answer |-> answer]
           sent1 == Append(w.sent, one)
           client1 == IF answer = "timeout" THEN "frozen" ELSE "ok"
           u == IF answer = "timeout" THEN [w EXCEPT !.client = "frozen"] ELSE w
           v1 == [w EXCEPT !.sent = sent1]
           v == [v1 EXCEPT !.ok = (answer = "ok")]
<1>1. PICK a0, b0, c0, d0, e0, f0, g0, h0, i0, j0, k0, l0, m0, n0, o0, p0, q0 :
           w = RecordOf(a0, b0, c0, d0, e0, f0, g0, h0, i0, j0, k0, l0, m0, n0, o0, p0, q0)
  BY RecordParts DEF On
<1>2. /\ a0 \in DOMAIN Scenes /\ <<c0, d0>> \in c.clicks
      /\ e0 \in Mounts /\ (e0 # IdleMount => Travels(j))
      /\ f0 \in c.routes /\ g0 \in Trains /\ (g0.monitor => Free(j))
      /\ g0.back = j.back /\ h0 = j.sell /\ i0 \in 0 .. 2 /\ j0 \in c.kepts
      /\ k0 = j.shop /\ o0 \in BOOLEAN /\ <<b0, l0>> \in c.traces
  BY <1>1, OnParts
<1>3. b0 = "ok" /\ w.sent = l0
  BY <1>1, RecordRead
<1>4. <<client1, sent1>> \in c.traces
  BY <1>2, <1>3, Zenon DEF Allows, Replies
<1> DEFINE okk == answer = "ok"
<1>5. okk \in BOOLEAN
  OBVIOUS
<1> HIDE DEF sent1, okk
<1>6. v1 = RecordOf(a0, b0, c0, d0, e0, f0, g0, h0, i0, j0, k0, sent1, m0, n0, o0, p0, q0)
  BY <1>1 DEF RecordOf
<1> HIDE DEF v1
<1>7. v = RecordOf(a0, b0, c0, d0, e0, f0, g0, h0, i0, j0, k0, sent1, m0, n0, okk, p0, q0)
  BY <1>6 DEF RecordOf, okk
<1> HIDE DEF v
<1>8. CASE answer # "timeout"
  <2>1. On(c, j, v) /\ v.ok = okk
    <3>1. v.ok = okk
      BY <1>7, RecordRead
    <3> QED BY <1>2, <1>3, <1>4, <1>5, <1>7, <1>8, <3>1, OnParts
  <2> QED BY <1>8, <2>1, Zenon DEF Answered, v, v1, sent1, okk
<1>9. CASE answer = "timeout"
  <2> DEFINE z == [v EXCEPT !.client = "frozen"]
  <2>1. z = RecordOf(a0, "frozen", c0, d0, e0, f0, g0, h0, i0, j0, k0, sent1, m0, n0, okk, p0, q0)
    BY <1>7 DEF RecordOf
  <2> HIDE DEF z
  <2>2. On(c, j, z) /\ z.ok = okk
    <3>1. z.ok = okk
      BY <2>1, RecordRead
    <3>2. On(c, j, z)
      <4>1. client1 = "frozen"
        BY <1>9
      <4> HIDE DEF client1
      <4> QED BY <1>2, <1>4, <1>5, <2>1, <4>1, OnParts
    <3> QED BY <3>1, <3>2
  <2>3. On(c, j, [z EXCEPT !.train.phase = 0])
    BY <2>2, TrainWritten
  <2>4. [z EXCEPT !.train.phase = 0].ok = okk
    BY <2>2 DEF On, IsRecord
  <2> QED BY <1>9, <2>3, <2>4, Zenon DEF Answered, EnterClientFreeze, z, v, v1, sent1, okk
<1> QED BY <1>8, <1>9

\* A call, whatever it ends with.
LEMMA CallOn ==
  ASSUME NEW c, NEW j, NEW w, On(c, j, w), w.client = "ok", NEW what, Allows(c, what)
  PROVE  AllOn(c, j, Call(w, what))
<1>1. \A answer \in Replies : On(c, j, Answered(w, what, answer))
  BY AnsweredOn, Zenon
<1> QED BY <1>1, AnswersOn, Zenon DEF Call, AllOn, On

----------------------------------------------------------------------------
(* Fields of fields *)

\* The mailbox of a record, written once and written twice.
LEMMA BoxRewritten ==
  ASSUME NEW w, IsRecord(w)
  PROVE  /\ \A x : [w EXCEPT !.box = x].box = x
         /\ \A x, y : [[w EXCEPT !.box = x] EXCEPT !.box = y] = [w EXCEPT !.box = y]
<1>1. PICK a, b, c, d, e, f, g, h, i, j, k, l, m, n, o, p, q :
           w = RecordOf(a, b, c, d, e, f, g, h, i, j, k, l, m, n, o, p, q)
  BY RecordParts
<1> QED BY <1>1 DEF RecordOf

\* The guard of a record, written once and written twice.
LEMMA GuardRewritten ==
  ASSUME NEW w, IsRecord(w)
  PROVE  /\ \A x : [w EXCEPT !.guard = x].guard = x
         /\ \A x, y : [[w EXCEPT !.guard = x] EXCEPT !.guard = y] = [w EXCEPT !.guard = y]
<1>1. PICK a, b, c, d, e, f, g, h, i, j, k, l, m, n, o, p, q :
           w = RecordOf(a, b, c, d, e, f, g, h, i, j, k, l, m, n, o, p, q)
  BY RecordParts
<1> QED BY <1>1 DEF RecordOf

\* The route of a record, written once and written twice.
LEMMA RouteRewritten ==
  ASSUME NEW w, IsRecord(w)
  PROVE  /\ \A x : [w EXCEPT !.route = x].route = x
         /\ \A x, y : [[w EXCEPT !.route = x] EXCEPT !.route = y] = [w EXCEPT !.route = y]
<1>1. PICK a, b, c, d, e, f, g, h, i, j, k, l, m, n, o, p, q :
           w = RecordOf(a, b, c, d, e, f, g, h, i, j, k, l, m, n, o, p, q)
  BY RecordParts
<1> QED BY <1>1 DEF RecordOf

\* The rotation of a record, written once and written twice.
LEMMA TrainRewritten ==
  ASSUME NEW w, IsRecord(w)
  PROVE  /\ \A x : [w EXCEPT !.train = x].train = x
         /\ \A x, y : [[w EXCEPT !.train = x] EXCEPT !.train = y] = [w EXCEPT !.train = y]
<1>1. PICK a, b, c, d, e, f, g, h, i, j, k, l, m, n, o, p, q :
           w = RecordOf(a, b, c, d, e, f, g, h, i, j, k, l, m, n, o, p, q)
  BY RecordParts
<1> QED BY <1>1 DEF RecordOf

\* The sale of a record, written once and written twice.
LEMMA SellRewritten ==
  ASSUME NEW w, IsRecord(w)
  PROVE  /\ \A x : [w EXCEPT !.sell = x].sell = x
         /\ \A x, y : [[w EXCEPT !.sell = x] EXCEPT !.sell = y] = [w EXCEPT !.sell = y]
<1>1. PICK a, b, c, d, e, f, g, h, i, j, k, l, m, n, o, p, q :
           w = RecordOf(a, b, c, d, e, f, g, h, i, j, k, l, m, n, o, p, q)
  BY RecordParts
<1> QED BY <1>1 DEF RecordOf

\* The mount and the counters that are kept, written once.
LEMMA LastRewritten ==
  ASSUME NEW w, IsRecord(w)
  PROVE  /\ \A x : [w EXCEPT !.mount = x].mount = x
         /\ \A x : [w EXCEPT !.kept = x].kept = x
<1>1. PICK a, b, c, d, e, f, g, h, i, j, k, l, m, n, o, p, q :
           w = RecordOf(a, b, c, d, e, f, g, h, i, j, k, l, m, n, o, p, q)
  BY RecordParts
<1> QED BY <1>1 DEF RecordOf

\* Two fields of the mailbox, written as one.
LEMMA BoxTogether ==
  ASSUME NEW w, IsRecord(w)
  PROVE  /\ \A x, y : [w EXCEPT !.box.res = x, !.box.ok = y] =
                     [w EXCEPT !.box = [w.box EXCEPT !.res = x, !.ok = y]]
         /\ \A x, y : [w EXCEPT !.box.req = x, !.box.point = y] =
                     [w EXCEPT !.box = [w.box EXCEPT !.req = x, !.point = y]]
<1>1. ASSUME NEW x, NEW y
      PROVE  [w EXCEPT !.box.res = x, !.box.ok = y] =
               [w EXCEPT !.box = [w.box EXCEPT !.res = x, !.ok = y]]
  <2> DEFINE u == [w.box EXCEPT !.res = x]
             v == [u EXCEPT !.ok = y]
  <2> HIDE DEF u, v
  <2>1. [w EXCEPT !.box = u].box = u
    BY BoxRewritten
  <2>2. [[w EXCEPT !.box = u] EXCEPT !.box = v] = [w EXCEPT !.box = v]
    BY BoxRewritten
  <2> QED BY <2>1, <2>2, Zenon DEF u, v
<1>2. ASSUME NEW x, NEW y
      PROVE  [w EXCEPT !.box.req = x, !.box.point = y] =
               [w EXCEPT !.box = [w.box EXCEPT !.req = x, !.point = y]]
  <2> DEFINE u == [w.box EXCEPT !.req = x]
             v == [u EXCEPT !.point = y]
  <2> HIDE DEF u, v
  <2>1. [w EXCEPT !.box = u].box = u
    BY BoxRewritten
  <2>2. [[w EXCEPT !.box = u] EXCEPT !.box = v] = [w EXCEPT !.box = v]
    BY BoxRewritten
  <2> QED BY <2>1, <2>2, Zenon DEF u, v
<1> QED BY <1>1, <1>2, Zenon

\* Two fields of the guard, written as one.
LEMMA GuardTogether ==
  ASSUME NEW w, IsRecord(w)
  PROVE  \A x, y : [w EXCEPT !.guard.phase = x, !.guard.stops = y] =
                     [w EXCEPT !.guard = [w.guard EXCEPT !.phase = x, !.stops = y]]
<1>1. ASSUME NEW x, NEW y
      PROVE  [w EXCEPT !.guard.phase = x, !.guard.stops = y] =
               [w EXCEPT !.guard = [w.guard EXCEPT !.phase = x, !.stops = y]]
  <2> DEFINE u == [w.guard EXCEPT !.phase = x]
             v == [u EXCEPT !.stops = y]
  <2> HIDE DEF u, v
  <2>1. [w EXCEPT !.guard = u].guard = u
    BY GuardRewritten
  <2>2. [[w EXCEPT !.guard = u] EXCEPT !.guard = v] = [w EXCEPT !.guard = v]
    BY GuardRewritten
  <2> QED BY <2>1, <2>2, Zenon DEF u, v
<1> QED BY <1>1, Zenon

\* The mailbox of a record on its course.
LEMMA BoxOn ==
  ASSUME NEW c, Typed(c), NEW j, NEW w, On(c, j, w)
  PROVE  /\ w.box \in Mailbox /\ w.guard \in Guards
         /\ [w EXCEPT !.box.res = None, !.box.ok = FALSE] = [w EXCEPT !.box = Emptied(w.box)]
         /\ \A o : [w EXCEPT !.box.req = o, !.box.point = 0] =
                     [w EXCEPT !.box = Requested(w.box, o)]
<1>1. IsRecord(w) /\ w.box \in Mailbox /\ w.guard \in Guards
  BY DEF On, Typed
<1> DEFINE b == w.box
<1> HIDE DEF b
<1>7. b \in Mailbox => IsBox(b)
  BY DEF Mailbox, IsBox
<1>2. ASSUME IsBox(b)
      PROVE  /\ [b EXCEPT !.res = None, !.ok = FALSE] = Emptied(b)
             /\ \A o : [b EXCEPT !.req = o, !.point = 0] = Requested(b, o)
  <2> SUFFICES ASSUME NEW o
               PROVE  /\ [b EXCEPT !.res = None, !.ok = FALSE] = Emptied(b)
                      /\ [b EXCEPT !.req = o, !.point = 0] = Requested(b, o)
    BY Zenon
  <2> DEFINE a == [b EXCEPT !.res = None]
             r == [b EXCEPT !.req = o]
  <2>1. a = [req |-> b.req, point |-> b.point, res |-> None, ok |-> b.ok]
    BY <1>2 DEF IsBox
  <2>2. r = [req |-> o, point |-> b.point, res |-> b.res, ok |-> b.ok]
    BY <1>2 DEF IsBox
  <2> HIDE DEF a, r
  <2>5. \A x : [a EXCEPT !.ok = x] = [req |-> b.req, point |-> b.point, res |-> None, ok |-> x]
    BY <2>1
  <2>3. [a EXCEPT !.ok = FALSE] = Emptied(b)
    BY <2>5, Zenon DEF Emptied
  <2>4. [r EXCEPT !.point = 0] = Requested(b, o)
    BY <2>2 DEF Requested
  <2> QED BY <2>3, <2>4, Zenon DEF a, r
<1>3. [w.box EXCEPT !.res = None, !.ok = FALSE] = Emptied(w.box)
  BY <1>1, <1>2, <1>7, Zenon DEF b
<1>4. \A o : [w.box EXCEPT !.req = o, !.point = 0] = Requested(w.box, o)
  BY <1>1, <1>2, <1>7, Zenon DEF b
<1>5. [w EXCEPT !.box.res = None, !.box.ok = FALSE] = [w EXCEPT !.box = Emptied(w.box)]
  BY <1>1, <1>3, BoxTogether, ZenonT(30)
<1>6. \A o : [w EXCEPT !.box.req = o, !.box.point = 0] = [w EXCEPT !.box = Requested(w.box, o)]
  BY <1>1, <1>4, BoxTogether, ZenonT(30)
<1> QED BY <1>1, <1>5, <1>6

\* The guard of a record on its course.
LEMMA GuardWritten ==
  ASSUME NEW c, Typed(c), NEW j, NEW w, On(c, j, w)
  PROVE  /\ \A p : [w EXCEPT !.guard.phase = p] = [w EXCEPT !.guard = Phase(w.guard, p, w.guard.stops)]
         /\ \A p, n : [w EXCEPT !.guard.phase = p, !.guard.stops = n] =
                        [w EXCEPT !.guard = Phase(w.guard, p, n)]
<1>1. IsRecord(w) /\ w.guard \in Guards
  BY DEF On, Typed
<1> DEFINE g == w.guard
<1> HIDE DEF g
<1>7. g \in Guards => g = Phase(g, g.phase, g.stops)
  BY DEF Guards, Phase
<1>2. ASSUME g = Phase(g, g.phase, g.stops), NEW p
      PROVE  /\ [g EXCEPT !.phase = p] = Phase(g, p, g.stops)
             /\ \A n : [g EXCEPT !.phase = p, !.stops = n] = Phase(g, p, n)
  <2> DEFINE h == [g EXCEPT !.phase = p]
  <2>1. h = Phase(g, p, g.stops)
    BY <1>2 DEF Phase
  <2> HIDE DEF h
  <2>2. \A n : [h EXCEPT !.stops = n] = Phase(g, p, n)
    BY <2>1 DEF Phase
  <2> QED BY <2>1, <2>2, Zenon DEF h
<1>3. \A p : [w.guard EXCEPT !.phase = p] = Phase(w.guard, p, w.guard.stops)
  BY <1>1, <1>2, <1>7, Zenon DEF g
<1>4. \A p, n : [w.guard EXCEPT !.phase = p, !.stops = n] = Phase(w.guard, p, n)
  BY <1>1, <1>2, <1>7, Zenon DEF g
<1>5. \A p, n : [w EXCEPT !.guard.phase = p, !.guard.stops = n] =
                  [w EXCEPT !.guard = Phase(w.guard, p, n)]
  <2>1. \A p, n : [w EXCEPT !.guard.phase = p, !.guard.stops = n] =
                    [w EXCEPT !.guard = [w.guard EXCEPT !.phase = p, !.stops = n]]
    BY <1>1, GuardTogether, Zenon
  <2>2. ASSUME NEW p, NEW n
        PROVE  [w EXCEPT !.guard.phase = p, !.guard.stops = n] =
                 [w EXCEPT !.guard = Phase(w.guard, p, n)]
    <3>1. [w.guard EXCEPT !.phase = p, !.stops = n] = Phase(w.guard, p, n)
      BY <1>4, Zenon
    <3>2. [w EXCEPT !.guard.phase = p, !.guard.stops = n] =
            [w EXCEPT !.guard = [w.guard EXCEPT !.phase = p, !.stops = n]]
      BY <2>1, Zenon
    <3> QED BY <3>1, <3>2, Zenon
  <2> QED BY <2>2, Zenon
<1> QED BY <1>3, <1>5, Zenon

\* The guard and the travel begin anew.
LEMMA ResetOn ==
  ASSUME NEW c, Typed(c), GuardSteps(c), NEW j, NEW w, On(c, j, w)
  PROVE  On(c, j, ResetTravelFightGuard(w)) /\ On(c, j, ResetRobustTravel(w))
<1>1. <<w.box, w.guard>> \in c.clicks
  BY DEF On
<1>2. <<w.box, Phase(w.guard, 0, 0)>> \in c.clicks
  BY <1>1, Zenon DEF GuardSteps
<1>3. On(c, j, [w EXCEPT !.guard = Phase(w.guard, 0, 0)])
  BY <1>2, FieldOn
<1>4. ResetTravelFightGuard(w) = [w EXCEPT !.guard = Phase(w.guard, 0, 0)]
  <2>1. \A p, n : [w EXCEPT !.guard.phase = p, !.guard.stops = n] =
                    [w EXCEPT !.guard = Phase(w.guard, p, n)]
    BY GuardWritten
  <2> QED BY <2>1, Zenon DEF ResetTravelFightGuard
<1>5. IdleMount \in Mounts
  BY DEF IdleMount, Mounts
<1>6. On(c, j, ResetRobustTravel(w))
  BY <1>5, WritesOn, Zenon DEF ResetRobustTravel
<1> QED BY <1>3, <1>4, <1>6

\* What stays when a field is written.
LEMMA Unwritten ==
  ASSUME NEW w, IsRecord(w), NEW x
  PROVE  /\ [w EXCEPT !.box = x].guard = w.guard /\ [w EXCEPT !.guard = x].box = w.box
         /\ [w EXCEPT !.ok = x].ok = x /\ [w EXCEPT !.ok = x].box = w.box
         /\ [w EXCEPT !.ok = x].guard = w.guard /\ [w EXCEPT !.ok = x].mount = w.mount
         /\ [w EXCEPT !.ok = x].client = w.client /\ [w EXCEPT !.done = x].done = x
<1>1. PICK a, b, c, d, e, f, g, h, i, j, k, l, m, n, o, p, q :
           w = RecordOf(a, b, c, d, e, f, g, h, i, j, k, l, m, n, o, p, q)
  BY RecordParts
<1> QED BY <1>1 DEF RecordOf

----------------------------------------------------------------------------
(* The mailbox and the guard *)

\* The same course for a handler that makes no call.
Still(c, w) ==
  [traces |-> {<<w.client, w.sent>>}, clicks |-> c.clicks, routes |-> c.routes, kepts |-> c.kepts]

\* What is said of the clicks is said of the same clicks.
LEMMA SameClicks ==
  ASSUME NEW c, NEW d, d.clicks = c.clicks
  PROVE  (Mails(c) => Mails(d)) /\ (GuardSteps(c) => GuardSteps(d))
<1>1. Mails(c) => Mails(d)
  BY Zenon DEF Mails
<1>2. GuardSteps(c) => GuardSteps(d)
  BY ZenonT(40) DEF GuardSteps
<1> QED BY <1>1, <1>2

\* What stays on it makes no call.
LEMMA StillOn ==
  ASSUME NEW c, NEW j, NEW w, On(c, j, w)
  PROVE  /\ On(Still(c, w), j, w) /\ (Guarded(c) => Guarded(Still(c, w)))
         /\ \A v : On(Still(c, w), j, v)
                     => On(c, j, v) /\ v.client = w.client /\ v.sent = w.sent
<1> DEFINE d == Still(c, w)
<1>1. /\ d.traces = {<<w.client, w.sent>>} /\ d.clicks = c.clicks /\ d.routes = c.routes
      /\ d.kepts = c.kepts
  BY DEF Still
<1> HIDE DEF d
<1>2. On(d, j, w) /\ (Guarded(c) => Guarded(d))
  <2>1. On(d, j, w) /\ (Typed(c) => Typed(d))
    BY <1>1 DEF On, Typed
  <2> QED BY <1>1, <2>1, SameClicks DEF Guarded
<1>3. <<w.client, w.sent>> \in c.traces
  BY DEF On
<1>4. ASSUME NEW v, On(d, j, v)
      PROVE  On(c, j, v) /\ v.client = w.client /\ v.sent = w.sent
  <2>1. <<v.client, v.sent>> = <<w.client, w.sent>>
    BY <1>1, <1>4 DEF On
  <2> QED BY <1>1, <1>3, <1>4, <2>1 DEF On
<1> QED BY <1>2, <1>4 DEF d

\* A result is taken: the mailbox is empty of results, and w.ok a Boolean.
LEMMA ConsumeOn ==
  ASSUME NEW c, Guarded(c), NEW j, NEW w, On(c, j, w)
  PROVE  LET v == ConsumePriorityAutoResult(w) IN
           /\ On(c, j, v) /\ v.ok = w.box.ok /\ v.box = Emptied(w.box) /\ v.guard = w.guard
           /\ \A g : <<Emptied(w.box), g>> \in c.clicks => On(c, j, [v EXCEPT !.guard = g])
<1> DEFINE u == [w EXCEPT !.ok = w.box.ok]
           v == [u EXCEPT !.box = Emptied(w.box)]
<1>1. w.box \in Mailbox /\ IsRecord(w)
  BY BoxOn DEF Guarded, On
<1>2. w.box.ok \in BOOLEAN
  BY <1>1 DEF Mailbox
<1>3. On(c, j, u) /\ u.box = w.box /\ u.guard = w.guard /\ u.ok = w.box.ok
  BY <1>1, <1>2, WritesOn, Unwritten
<1> HIDE DEF u
<1>4. <<Emptied(w.box), w.guard>> \in c.clicks
  <2>1. <<w.box, w.guard>> \in c.clicks
    BY DEF On
  <2> QED BY <2>1, Zenon DEF Guarded, Mails
<1>5. On(c, j, v)
  BY <1>3, <1>4, FieldOn
<1>6. v = [u EXCEPT !.box.res = None, !.box.ok = FALSE]
  BY <1>3, BoxOn DEF Guarded
<1>7. v = ConsumePriorityAutoResult(w)
  BY <1>6, Zenon DEF ConsumePriorityAutoResult, u
<1>8. v.box = Emptied(w.box) /\ v.guard = w.guard /\ v.ok = u.ok
  <2>1. IsRecord(u)
    BY <1>3 DEF On
  <2> QED BY <1>3, <2>1, BoxRewritten, Unwritten DEF IsRecord
<1> HIDE DEF v
<1>9. \A g : <<Emptied(w.box), g>> \in c.clicks => On(c, j, [v EXCEPT !.guard = g])
  BY <1>5, <1>8, FieldOn
<1> QED BY <1>3, <1>5, <1>7, <1>8, <1>9

\* Who asks for a click is refused, has asked before, or its request is put into a
\* mailbox without a request and a result.
QueueEnd(c, j, w, owner, q) ==
  \/ On(c, j, q) /\ q.guard = w.guard /\ (q.ok => q.box.req = owner)
  \/ \E v : /\ On(c, j, v) /\ v.guard = w.guard /\ v.box.req = None /\ v.box.res = None
            /\ q = Yes([v EXCEPT !.box = Requested(v.box, owner)])

LEMMA QueueEnds ==
  ASSUME NEW c, Guarded(c), NEW j, NEW w, On(c, j, w), NEW s, NEW owner \in Owners
  PROVE  QueueEnd(c, j, w, owner, QueuePriorityAutoClick(w, s, owner))
<1> DEFINE v == IF w.box.res \in {None, owner} THEN w
                ELSE [w EXCEPT !.box.res = None, !.box.ok = FALSE]
           r == [v EXCEPT !.box.req = owner, !.box.point = 0]
           q == QueuePriorityAutoClick(w, s, owner)
<1>1. IsRecord(w) /\ <<w.box, w.guard>> \in c.clicks
  BY DEF On
<1>2. On(c, j, v) /\ v.guard = w.guard
  <2>1. <<Emptied(w.box), w.guard>> \in c.clicks
    BY <1>1, Zenon DEF Guarded, Mails
  <2>2. [w EXCEPT !.box.res = None, !.box.ok = FALSE] = [w EXCEPT !.box = Emptied(w.box)]
    BY BoxOn DEF Guarded
  <2>3. On(c, j, [w EXCEPT !.box = Emptied(w.box)])
    BY <2>1, FieldOn
  <2>4. [w EXCEPT !.box = Emptied(w.box)].guard = w.guard
    BY <1>1, Unwritten
  <2> QED BY <2>2, <2>3, <2>4, Zenon
<1> HIDE DEF v
<1>3. r = [v EXCEPT !.box = Requested(v.box, owner)]
  <2>1. \A o : [v EXCEPT !.box.req = o, !.box.point = 0] = [v EXCEPT !.box = Requested(v.box, o)]
    BY <1>2, BoxOn DEF Guarded
  <2> QED BY <2>1, Zenon
<1> HIDE DEF r
<1>4. \A u : On(c, j, u) => /\ On(c, j, Yes(u)) /\ On(c, j, No(u))
                            /\ Yes(u).guard = u.guard /\ No(u).guard = u.guard
                            /\ Yes(u).box = u.box /\ ~No(u).ok
  <2> SUFFICES ASSUME NEW u, On(c, j, u)
               PROVE  /\ Yes(u).guard = u.guard /\ No(u).guard = u.guard
                      /\ Yes(u).box = u.box /\ ~No(u).ok
    BY HandlesOn
  <2>1. IsRecord(u)
    BY DEF On
  <2>2. \A x : /\ [u EXCEPT !.ok = x].guard = u.guard /\ [u EXCEPT !.ok = x].box = u.box
               /\ [u EXCEPT !.ok = x].ok = x
    BY <2>1, Unwritten
  <2> QED BY <2>2, Zenon DEF Yes, No
<1>5. q = IF w.client # "ok" \/ (IsAttack(owner) /\ ~CanDispatchFightStart(s)) THEN No(w)
          ELSE IF v.box.req = owner THEN Yes(v)
          ELSE IF v.box.req # None \/ v.box.res # None THEN No(v) ELSE Yes(r)
  BY Zenon DEF QueuePriorityAutoClick, v, r
<1> HIDE DEF q
<1>6. \/ On(c, j, q) /\ q.guard = w.guard /\ (q.ok => q.box.req = owner)
      \/ v.box.req = None /\ v.box.res = None /\ q = Yes(r)
  BY <1>2, <1>4, <1>5, Zenon
<1>7. \/ On(c, j, q) /\ q.guard = w.guard /\ (q.ok => q.box.req = owner)
      \/ \E u : /\ On(c, j, u) /\ u.guard = w.guard /\ u.box.req = None /\ u.box.res = None
                /\ q = Yes([u EXCEPT !.box = Requested(u.box, owner)])
  BY <1>2, <1>3, <1>6, Zenon
<1> QED BY <1>7, Zenon DEF q, QueueEnd

\* What a request and an answer leave of a record.
LEMMA RequestedParts ==
  ASSUME NEW w, IsRecord(w), NEW b
  PROVE  LET q == Yes([w EXCEPT !.box = b]) IN
           IsRecord(q) /\ q.box = b /\ q.guard = w.guard /\ q.ok
<1> DEFINE r == [w EXCEPT !.box = b]
           yes == TRUE
<1>1. IsRecord(r) /\ r.box = b /\ r.guard = w.guard
  BY DEF IsRecord
<1> HIDE DEF r, yes
<1>2. LET q == [r EXCEPT !.ok = yes] IN
        IsRecord(q) /\ q.box = r.box /\ q.guard = r.guard /\ q.ok = yes
  BY <1>1 DEF IsRecord
<1>3. Yes(r) = [r EXCEPT !.ok = yes]
  BY Zenon DEF Yes, yes
<1> QED BY <1>1, <1>2, <1>3, Zenon DEF r, yes

\* A request is put in only when no request and no result is left.
LEMMA QueueOn ==
  ASSUME NEW c, Guarded(c), NEW j, NEW w, On(c, j, w), NEW s,
         NEW owner \in Owners, MayAsk(w.guard, owner)
  PROVE  LET q == QueuePriorityAutoClick(w, s, owner) IN
           /\ On(c, j, q) /\ q.guard = w.guard /\ (q.ok => q.box.req = owner)
<1> DEFINE q == QueuePriorityAutoClick(w, s, owner)
<1>1. QueueEnd(c, j, w, owner, q)
  BY QueueEnds, Zenon
<1> HIDE DEF q
<1>2. ASSUME NEW v, On(c, j, v), v.guard = w.guard, v.box.req = None, v.box.res = None,
             q = Yes([v EXCEPT !.box = Requested(v.box, owner)])
      PROVE  On(c, j, q) /\ q.guard = w.guard /\ q.box.req = owner
  <2> DEFINE b == Requested(v.box, owner)
             r == [v EXCEPT !.box = b]
  <2>1. IsRecord(v) /\ <<v.box, v.guard>> \in c.clicks
    BY <1>2 DEF On
  <2>2. <<b, v.guard>> \in c.clicks
    BY <1>2, <2>1, Zenon DEF Guarded, Mails
  <2>3. b.req = owner
    BY DEF Requested
  <2> HIDE DEF b
  <2>4. On(c, j, r)
    BY <1>2, <2>2, FieldOn
  <2>5. On(c, j, Yes(r))
    BY <2>4, HandlesOn
  <2>6. Yes(r).box = b /\ Yes(r).guard = v.guard
    BY <2>1, RequestedParts
  <2>7. q = Yes(r)
    BY <1>2 DEF b
  <2> HIDE DEF r
  <2> QED BY <1>2, <2>3, <2>5, <2>6, <2>7
<1>3. On(c, j, q) /\ q.guard = w.guard /\ (q.ok => q.box.req = owner)
  BY <1>1, <1>2, Zenon DEF QueueEnd
<1> QED BY <1>3 DEF q

\* Who has its request in the mailbox goes on to the next phase.
LEMMA AskedOn ==
  ASSUME NEW c, Guarded(c), NEW j, NEW q, On(c, j, q), NEW owner, q.ok => q.box.req = owner,
         \/ owner = "TravelGuardStop" /\ q.guard.phase = 0
         \/ owner = "TravelGuardReset" /\ q.guard.phase = 3
  PROVE  On(c, j, No(IF q.ok THEN [q EXCEPT !.guard.phase = @ + 1] ELSE q))
<1> DEFINE p == IF q.ok THEN [q EXCEPT !.guard.phase = @ + 1] ELSE q
<1>2. <<q.box, q.guard>> \in c.clicks /\ q.guard \in Guards
  BY DEF On, Guarded, Typed
<1>3. q.ok => <<q.box, Phase(q.guard, q.guard.phase + 1, q.guard.stops)>> \in c.clicks
  <2>1. q.guard.phase = 0 /\ q.box.req = "TravelGuardStop"
          => <<q.box, Phase(q.guard, 1, q.guard.stops)>> \in c.clicks
    BY <1>2, Zenon DEF Guarded, GuardSteps
  <2>2. q.guard.phase = 3 /\ q.box.req = "TravelGuardReset"
          => <<q.box, Phase(q.guard, 4, q.guard.stops)>> \in c.clicks
    BY <1>2, Zenon DEF Guarded, GuardSteps
  <2> QED BY <2>1, <2>2
<1>4. [q EXCEPT !.guard.phase = @ + 1] =
        [q EXCEPT !.guard = Phase(q.guard, q.guard.phase + 1, q.guard.stops)]
  <2>1. \A n : [q EXCEPT !.guard.phase = n] = [q EXCEPT !.guard = Phase(q.guard, n, q.guard.stops)]
    BY GuardWritten DEF Guarded
  <2> QED BY <2>1, Zenon
<1>5. On(c, j, p)
  BY <1>3, <1>4, FieldOn, Zenon
<1> HIDE DEF p
<1>6. On(c, j, No(p))
  BY <1>5, HandlesOn
<1> QED BY <1>6, Zenon DEF p

\* A course with one more pair of a mailbox and a guard.
With(c, b, g) ==
  [traces |-> c.traces, clicks |-> c.clicks \cup {<<b, g>>}, routes |-> c.routes, kepts |-> c.kepts]

\* The guard asks for its reset and goes on, in one.
LEMMA AskResetOn ==
  ASSUME NEW c, Guarded(c), NEW j, NEW v, On(c, j, v), v.guard.phase = 3,
         v.box.req = None, v.box.res = None,
         NEW q, q = Yes([v EXCEPT !.box = Requested(v.box, "TravelGuardReset")])
  PROVE  On(c, j, No(IF q.ok THEN [q EXCEPT !.guard.phase = @ + 1] ELSE q))
<1> DEFINE b == Requested(v.box, "TravelGuardReset")
           h == Phase(v.guard, 4, v.guard.stops)
           r == [v EXCEPT !.box = b]
           d == With(With(c, b, v.guard), b, h)
           p == [q EXCEPT !.guard = h]
<1>1. IsRecord(v) /\ v.box \in Mailbox /\ v.guard \in Guards /\ <<v.box, v.guard>> \in c.clicks
  BY DEF On, Guarded, Typed
<1>2. <<b, h>> \in c.clicks
  BY <1>1, Zenon DEF Guarded, GuardSteps
<1>3. b \in Mailbox
  BY <1>2 DEF Guarded, Typed
<1> HIDE DEF b, h
<1>4. /\ d.traces = c.traces /\ d.routes = c.routes /\ d.kepts = c.kepts
      /\ d.clicks = c.clicks \cup {<<b, v.guard>>, <<b, h>>}
  BY DEF With
<1> HIDE DEF d
<1>5. Typed(d) /\ On(d, j, v)
  BY <1>1, <1>2, <1>3, <1>4 DEF Typed, Guarded, On
<1>6. On(d, j, r)
  BY <1>4, <1>5, FieldOn
<1>7. q = Yes(r)
  BY DEF b
<1> HIDE DEF r
<1>8. On(d, j, q)
  BY <1>6, <1>7, HandlesOn
<1>9. IsRecord(q) /\ q.box = b /\ q.guard = v.guard /\ q.ok
  <2>1. LET y == Yes([v EXCEPT !.box = b]) IN
          IsRecord(y) /\ y.box = b /\ y.guard = v.guard /\ y.ok
    BY <1>1, RequestedParts
  <2> QED BY <1>7, <2>1, Zenon DEF r
<1>10. [q EXCEPT !.guard.phase = @ + 1] = p
  <2>1. [q EXCEPT !.guard.phase = 4] = [q EXCEPT !.guard = Phase(q.guard, 4, q.guard.stops)]
    BY <1>5, <1>8, GuardWritten
  <2>2. q.guard.phase + 1 = 4
    BY <1>9
  <2>3. [q EXCEPT !.guard.phase = @ + 1] = [q EXCEPT !.guard.phase = 4]
    BY <2>2, Zenon
  <2>4. Phase(q.guard, 4, q.guard.stops) = h
    BY <1>9 DEF h
  <2> QED BY <2>1, <2>3, <2>4, Zenon
<1>11. On(d, j, p)
  <2>1. <<q.box, h>> \in d.clicks
    BY <1>4, <1>9
  <2>2. <<q.box, h>> \in d.clicks => On(d, j, p)
    BY <1>8, FieldOn
  <2> QED BY <2>1, <2>2
<1>12. p.box = b /\ p.guard = h
  <2> HIDE DEF p
  <2>1. \A x : [q EXCEPT !.guard = x].guard = x /\ [q EXCEPT !.guard = x].box = q.box
    <3>1. IsRecord(q)
      BY <1>9
    <3>2. \A x : [q EXCEPT !.guard = x].guard = x
      BY <3>1, GuardRewritten, ZenonT(40)
    <3>3. \A x : [q EXCEPT !.guard = x].box = q.box
      BY <3>1, Unwritten
    <3> QED BY <3>2, <3>3
  <2> QED BY <1>9, <2>1, Zenon DEF p
<1> HIDE DEF p
<1>13. On(c, j, p)
  BY <1>2, <1>4, <1>11, <1>12 DEF On
<1>14. On(c, j, No(p))
  BY <1>13, HandlesOn
<1> QED BY <1>9, <1>10, <1>14, Zenon

\* The guard asks for a click.
LEMMA AskOn ==
  ASSUME NEW c, Guarded(c), NEW j, NEW w, On(c, j, w), NEW s, NEW owner,
         \/ owner = "TravelGuardStop" /\ w.guard.phase = 0
         \/ owner = "TravelGuardReset" /\ w.guard.phase = 3
  PROVE  AllOn(c, j, Ask(w, s, owner))
<1> DEFINE q == QueuePriorityAutoClick(w, s, owner)
           end == No(IF q.ok THEN [q EXCEPT !.guard.phase = @ + 1] ELSE q)
<1>1. owner \in Owners
  BY DEF Owners
<1>2. ASSUME On(c, j, q), q.guard = w.guard, q.ok => q.box.req = owner
      PROVE  On(c, j, end)
  <2> HIDE DEF q
  <2> QED BY <1>2, AskedOn
<1>3. ASSUME owner = "TravelGuardStop", w.guard.phase = 0
      PROVE  On(c, j, end)
  <2>1. MayAsk(w.guard, owner)
    BY <1>3 DEF MayAsk
  <2> QED BY <1>1, <1>2, <2>1, QueueOn
<1>4. ASSUME owner = "TravelGuardReset", w.guard.phase = 3
      PROVE  On(c, j, end)
  <2>1. ASSUME NEW v, On(c, j, v), v.guard = w.guard, v.box.req = None, v.box.res = None,
               q = Yes([v EXCEPT !.box = Requested(v.box, owner)])
        PROVE  On(c, j, end)
    <3> HIDE DEF q
    <3>1. v.guard.phase = 3 /\ q = Yes([v EXCEPT !.box = Requested(v.box, "TravelGuardReset")])
      BY <1>4, <2>1
    <3> QED BY <2>1, <3>1, AskResetOn
  <2> HIDE DEF end
  <2>2. QueueEnd(c, j, w, owner, q)
    BY <1>1, QueueEnds, Zenon
  <2> HIDE DEF q
  <2> QED BY <1>2, <2>1, <2>2, Zenon DEF QueueEnd
<1>5. On(c, j, end)
  BY <1>3, <1>4
<1> HIDE DEF q
<1> QED BY <1>5, Zenon DEF Ask, AllOn, q

\* A step of the travel guard, in every phase; it makes no call.
LEMMA GuardOn ==
  ASSUME NEW c, Guarded(c), NEW j, NEW w, On(c, j, w), NEW s
  PROVE  AllOn(c, j, EnsureAutoFightOffForTravel(w, s))
<1> DEFINE g == w.guard
           b == w.box
           taken == ConsumePriorityAutoResult(w)
           stopped == IF ~HasResult(w, "TravelGuardStop") THEN w
                      ELSE IF taken.ok
                           THEN [taken EXCEPT !.guard.phase = 2, !.guard.stops = @ + 1]
                      ELSE [taken EXCEPT !.guard.phase = 0]
           verified == IF NeedsAnotherStopBeforeReset(w) THEN [w EXCEPT !.guard.phase = 0]
                       ELSE [w EXCEPT !.guard.phase = 3, !.guard.stops = 0]
           reset == IF ~HasResult(w, "TravelGuardReset") THEN w
                    ELSE [taken EXCEPT !.guard.phase = IF taken.ok THEN 5 ELSE 3]
           fresh == ResetTravelFightGuard(w)
<1>1. <<b, g>> \in c.clicks /\ b \in Mailbox /\ g \in Guards /\ Typed(c)
  BY DEF On, Guarded, Typed
<1>2. /\ On(c, j, taken) /\ taken.ok = b.ok /\ taken.guard = g
      /\ \A x : <<Emptied(b), x>> \in c.clicks => On(c, j, [taken EXCEPT !.guard = x])
  BY ConsumeOn
<1>3. \A x : <<b, x>> \in c.clicks => On(c, j, [w EXCEPT !.guard = x])
  BY FieldOn
<1>4. /\ \A p : [w EXCEPT !.guard.phase = p] = [w EXCEPT !.guard = Phase(g, p, g.stops)]
      /\ \A p, n : [w EXCEPT !.guard.phase = p, !.guard.stops = n] =
                     [w EXCEPT !.guard = Phase(g, p, n)]
  BY <1>1, GuardWritten
<1>5. /\ \A p : [taken EXCEPT !.guard.phase = p] = [taken EXCEPT !.guard = Phase(g, p, g.stops)]
      /\ \A p, n : [taken EXCEPT !.guard.phase = p, !.guard.stops = n] =
                     [taken EXCEPT !.guard = Phase(g, p, n)]
  <2> HIDE DEF taken
  <2>1. /\ \A p : [taken EXCEPT !.guard.phase = p] =
                    [taken EXCEPT !.guard = Phase(taken.guard, p, taken.guard.stops)]
        /\ \A p, n : [taken EXCEPT !.guard.phase = p, !.guard.stops = n] =
                       [taken EXCEPT !.guard = Phase(taken.guard, p, n)]
    BY <1>1, <1>2, GuardWritten
  <2>2. taken.guard = g
    BY <1>2
  <2> HIDE DEF g
  <2>3. ASSUME NEW p, NEW n
        PROVE  /\ Phase(taken.guard, p, taken.guard.stops) = Phase(g, p, g.stops)
               /\ Phase(taken.guard, p, n) = Phase(g, p, n)
    BY <2>2
  <2>4. \A p : [taken EXCEPT !.guard.phase = p] = [taken EXCEPT !.guard = Phase(g, p, g.stops)]
    <3> SUFFICES ASSUME NEW p
                 PROVE  [taken EXCEPT !.guard.phase = p] =
                          [taken EXCEPT !.guard = Phase(g, p, g.stops)]
      BY Zenon
    <3>1. [taken EXCEPT !.guard.phase = p] =
            [taken EXCEPT !.guard = Phase(taken.guard, p, taken.guard.stops)]
      BY <2>1, Zenon
    <3> QED BY <2>3, <3>1, Zenon
  <2>5. \A p, n : [taken EXCEPT !.guard.phase = p, !.guard.stops = n] =
                    [taken EXCEPT !.guard = Phase(g, p, n)]
    <3> SUFFICES ASSUME NEW p, NEW n
                 PROVE  [taken EXCEPT !.guard.phase = p, !.guard.stops = n] =
                          [taken EXCEPT !.guard = Phase(g, p, n)]
      BY Zenon
    <3>1. [taken EXCEPT !.guard.phase = p, !.guard.stops = n] =
            [taken EXCEPT !.guard = Phase(taken.guard, p, n)]
      BY <2>1, Zenon
    <3> QED BY <2>3, <3>1, Zenon
  <2> QED BY <2>4, <2>5
<1>6. IsRecord(taken)
  BY <1>2 DEF On
<1> HIDE DEF taken
<1>7. g.phase = 1 => On(c, j, stopped)
  <2>1. ASSUME g.phase = 1, b.res = "TravelGuardStop"
        PROVE  IF b.ok THEN On(c, j, [taken EXCEPT !.guard = Phase(g, 2, g.stops + 1)])
               ELSE On(c, j, [taken EXCEPT !.guard = Phase(g, 0, g.stops)])
    BY <1>1, <1>2, <2>1, Zenon DEF Guarded, GuardSteps
  <2>2. [taken EXCEPT !.guard.phase = 2, !.guard.stops = @ + 1] =
          [taken EXCEPT !.guard = Phase(g, 2, g.stops + 1)]
    <3>1. [taken EXCEPT !.guard.phase = 2, !.guard.stops = @ + 1] =
            [taken EXCEPT !.guard.phase = 2, !.guard.stops = taken.guard.stops + 1]
      <4> DEFINE t == [taken EXCEPT !.guard.phase = 2]
      <4>1. t = [taken EXCEPT !.guard = Phase(g, 2, g.stops)]
        BY <1>5
      <4>2. t.guard = Phase(g, 2, g.stops)
        <5>1. \A x : [taken EXCEPT !.guard = x].guard = x
          BY <1>6, GuardRewritten
        <5> QED BY <4>1, <5>1, Zenon
      <4> HIDE DEF t
      <4>3. t.guard.stops = taken.guard.stops
        BY <1>2, <4>2 DEF Phase
      <4>4. [t EXCEPT !.guard.stops = @ + 1] = [t EXCEPT !.guard.stops = t.guard.stops + 1]
        BY Zenon
      <4> QED BY <4>3, <4>4, Zenon DEF t
    <3>2. taken.guard.stops = g.stops
      BY <1>2
    <3>3. [taken EXCEPT !.guard.phase = 2, !.guard.stops = g.stops + 1] =
            [taken EXCEPT !.guard = Phase(g, 2, g.stops + 1)]
      BY <1>5, Zenon
    <3> HIDE DEF g
    <3> QED BY <3>1, <3>2, <3>3, Zenon
  <2>3. [taken EXCEPT !.guard.phase = 0] = [taken EXCEPT !.guard = Phase(g, 0, g.stops)]
    BY <1>5, Zenon
  <2> QED BY <1>2, <2>1, <2>2, <2>3, Zenon DEF HasResult
<1>8. g.phase = 2 => On(c, j, verified)
  <2>1. g.phase = 2 => IF g.stops < 2 THEN On(c, j, [w EXCEPT !.guard = Phase(g, 0, g.stops)])
                       ELSE On(c, j, [w EXCEPT !.guard = Phase(g, 3, 0)])
    BY <1>1, <1>3, Zenon DEF Guarded, GuardSteps
  <2> QED BY <1>4, <2>1, Zenon DEF NeedsAnotherStopBeforeReset
<1>9. g.phase = 4 => On(c, j, reset)
  <2>1. g.phase = 4 /\ b.res = "TravelGuardReset"
          => On(c, j, [taken EXCEPT !.guard = Phase(g, IF b.ok THEN 5 ELSE 3, g.stops)])
    BY <1>1, <1>2, Zenon DEF Guarded, GuardSteps
  <2> QED BY <1>2, <1>5, <2>1, Zenon DEF HasResult
<1>10. On(c, j, fresh)
  BY ResetOn DEF Guarded
<1>11. g.phase \in 0 .. 5
  BY <1>1 DEF Guards
<1> HIDE DEF stopped, verified, reset, fresh
<1>12. /\ AllOn(c, j, {No(w)}) /\ AllOn(c, j, {Yes(fresh)}) /\ AllOn(c, j, {No(fresh)})
       /\ g.phase = 1 => AllOn(c, j, {No(stopped)})
       /\ g.phase = 2 => AllOn(c, j, WhenDue(w, {No(verified)}, {No(w)}))
       /\ g.phase = 4 => AllOn(c, j, {No(reset)})
       /\ AllOn(c, j, WhenDue(w, {No(fresh)}, {No(w)}))
  BY <1>7, <1>8, <1>9, <1>10, HandlesOn
<1>13. /\ g.phase = 0 => AllOn(c, j, Ask(w, s, "TravelGuardStop"))
       /\ g.phase = 3 => AllOn(c, j, Ask(w, s, "TravelGuardReset"))
  BY AskOn
<1>14. EnsureAutoFightOffForTravel(w, s) =
         IF s.fight = "unknown" THEN {No(w)}
         ELSE IF CanDispatchMovement(s) THEN {Yes(fresh)}
         ELSE IF g.phase \in {0, 3}
         THEN Ask(w, s, IF g.phase = 0 THEN "TravelGuardStop" ELSE "TravelGuardReset")
         ELSE IF g.phase = 1 THEN {No(stopped)}
         ELSE IF g.phase = 2 THEN WhenDue(w, {No(verified)}, {No(w)})
         ELSE IF g.phase = 4 THEN {No(reset)}
         ELSE WhenDue(w, {No(fresh)}, {No(w)})
  BY Zenon DEF EnsureAutoFightOffForTravel, stopped, verified, reset, taken, fresh
<1>15. AllOn(c, j, IF g.phase \in {0, 3}
                   THEN Ask(w, s, IF g.phase = 0 THEN "TravelGuardStop" ELSE "TravelGuardReset")
                   ELSE {No(w)})
  BY <1>12, <1>13
<1> HIDE DEF g, b
<1> QED BY <1>12, <1>14, <1>15, Zenon

\* The client is asked nothing by the guard.
LEMMA GuardIsStill ==
  ASSUME NEW c, Guarded(c), NEW j, NEW w, On(c, j, w), NEW s,
         NEW g \in EnsureAutoFightOffForTravel(w, s)
  PROVE  On(c, j, g) /\ g.client = w.client /\ g.sent = w.sent
<1>1. On(Still(c, w), j, w) /\ Guarded(Still(c, w))
  BY StillOn
<1>2. On(Still(c, w), j, g)
  BY <1>1, GuardOn DEF AllOn
<1> QED BY <1>2, StillOn


----------------------------------------------------------------------------
(* The route *)

\* A route as it is but for how far the account is known to be on it.
Way(r, a, m, e, p) ==
  [pending |-> r.pending, stops |-> r.stops, armed |-> a, moved |-> m, seen |-> e, map |-> p]

\* The fields of a route that are written together.
LEMMA RouteTogether ==
  ASSUME NEW w, IsRecord(w)
  PROVE  /\ \A x, y : [w EXCEPT !.route.armed = x, !.route.moved = y] =
                       [w EXCEPT !.route = [w.route EXCEPT !.armed = x, !.moved = y]]
         /\ \A x, y, z :
              [w EXCEPT !.route.armed = x, !.route.moved = y, !.route.seen = z] =
              [w EXCEPT !.route = [w.route EXCEPT !.armed = x, !.moved = y, !.seen = z]]
         /\ \A x, y, z :
              [w EXCEPT !.route.map = x, !.route.moved = y, !.route.seen = z] =
              [w EXCEPT !.route = [w.route EXCEPT !.map = x, !.moved = y, !.seen = z]]
<1>1. \A p, q : [[w EXCEPT !.route = p] EXCEPT !.route = q] = [w EXCEPT !.route = q]
  BY RouteRewritten
<1>2. \A p : [w EXCEPT !.route = p].route = p
  BY RouteRewritten
<1>3. ASSUME NEW x, NEW y
      PROVE  [w EXCEPT !.route.armed = x, !.route.moved = y] =
               [w EXCEPT !.route = [w.route EXCEPT !.armed = x, !.moved = y]]
  BY <1>1, <1>2, ZenonT(30)
<1>4. ASSUME NEW x, NEW y, NEW z
      PROVE  [w EXCEPT !.route.armed = x, !.route.moved = y, !.route.seen = z] =
               [w EXCEPT !.route = [w.route EXCEPT !.armed = x, !.moved = y, !.seen = z]]
  BY <1>1, <1>2, ZenonT(30)
<1>5. ASSUME NEW x, NEW y, NEW z
      PROVE  [w EXCEPT !.route.map = x, !.route.moved = y, !.route.seen = z] =
               [w EXCEPT !.route = [w.route EXCEPT !.map = x, !.moved = y, !.seen = z]]
  BY <1>1, <1>2, ZenonT(30)
<1> QED BY <1>3, <1>4, <1>5, Zenon

\* The parts of a route, one after the other.
LEMMA RouteParts ==
  ASSUME NEW r \in Routes, NEW x, NEW y, NEW z
  PROVE  /\ r = Way(r, r.armed, r.moved, r.seen, r.map)
         /\ [r EXCEPT !.seen = x] = Way(r, r.armed, r.moved, x, r.map)
         /\ [r EXCEPT !.moved = x] = Way(r, r.armed, x, r.seen, r.map)
         /\ [r EXCEPT !.armed = x, !.moved = y] = Way(r, x, y, r.seen, r.map)
         /\ [r EXCEPT !.armed = x, !.moved = y, !.seen = z] = Way(r, x, y, z, r.map)
         /\ [r EXCEPT !.map = x, !.moved = y, !.seen = z] = Way(r, r.armed, y, z, x)
<1>1. r = [pending |-> r.pending, stops |-> r.stops, armed |-> r.armed, moved |-> r.moved,
           seen |-> r.seen, map |-> r.map]
  BY DEF Routes
<1> DEFINE a == [r EXCEPT !.armed = x]
           b == [a EXCEPT !.moved = y]
           d == [r EXCEPT !.map = x]
           e == [d EXCEPT !.moved = y]
<1>2. /\ [r EXCEPT !.seen = x] = Way(r, r.armed, r.moved, x, r.map)
      /\ [r EXCEPT !.moved = x] = Way(r, r.armed, x, r.seen, r.map)
  BY <1>1 DEF Way
<1>3. a = Way(r, x, r.moved, r.seen, r.map) /\ d = Way(r, r.armed, r.moved, r.seen, x)
  BY <1>1 DEF Way
<1> HIDE DEF a, d
<1>4. b = Way(r, x, y, r.seen, r.map) /\ e = Way(r, r.armed, y, r.seen, x)
  BY <1>3 DEF Way
<1> HIDE DEF b, e
<1>5. /\ [b EXCEPT !.seen = z] = Way(r, x, y, z, r.map)
      /\ [e EXCEPT !.seen = z] = Way(r, r.armed, y, z, x)
  BY <1>4 DEF Way
<1>6. [r EXCEPT !.armed = x, !.moved = y] = Way(r, x, y, r.seen, r.map)
  BY <1>4, Zenon DEF a, b
<1>7. [r EXCEPT !.armed = x, !.moved = y, !.seen = z] = Way(r, x, y, z, r.map)
  BY <1>5, Zenon DEF a, b
<1>8. [r EXCEPT !.map = x, !.moved = y, !.seen = z] = Way(r, r.armed, y, z, x)
  BY <1>5, Zenon DEF d, e
<1> QED BY <1>1, <1>2, <1>6, <1>7, <1>8 DEF Way

----------------------------------------------------------------------------
(* Commands *)

\* A path is armed for the gate.
LEMMA ArmOn ==
  ASSUME NEW c, Typed(c), NEW j, NEW w, On(c, j, w), NEW s, NEW action, NEW dest,
         action = "StartPath" => MayArm(c)
  PROVE  On(c, j, ArmRoute(w, s, action, dest))
<1> SUFFICES ASSUME MayArm(c)
             PROVE  On(c, j, [w EXCEPT !.route.armed = TRUE,
                                       !.route.moved = @ /\ w.route.armed])
  BY Zenon DEF ArmRoute
<1> DEFINE r == w.route
           b == r.moved /\ r.armed
           a == [w EXCEPT !.route.armed = TRUE]
<1>1. IsRecord(w) /\ r \in c.routes /\ r \in Routes
  BY DEF On, Typed
<1>2. b \in BOOLEAN
  BY <1>1, Zenon DEF Routes
<1>3. Way(r, TRUE, b, r.seen, r.map) \in c.routes
  BY <1>1, <1>2, Zenon DEF MayArm, Way
<1>4. a.route.moved = r.moved
  <2>1. a = [w EXCEPT !.route = [r EXCEPT !.armed = TRUE]]
    BY Zenon
  <2>2. \A x : [w EXCEPT !.route = x].route = x
    BY <1>1, RouteRewritten
  <2>3. a.route = [r EXCEPT !.armed = TRUE]
    BY <2>1, <2>2, Zenon
  <2>4. r = Way(r, r.armed, r.moved, r.seen, r.map)
    BY <1>1, RouteParts
  <2> HIDE DEF a, r
  <2> QED BY <2>3, <2>4 DEF Way
<1>5. [a EXCEPT !.route.moved = @ /\ r.armed] = [a EXCEPT !.route.moved = b]
  <2>1. [a EXCEPT !.route.moved = @ /\ r.armed] = [a EXCEPT !.route.moved = a.route.moved /\ r.armed]
    BY Zenon
  <2> HIDE DEF a, r
  <2> QED BY <1>4, <2>1, Zenon
<1>6. [w EXCEPT !.route.armed = TRUE, !.route.moved = @ /\ w.route.armed] =
        [w EXCEPT !.route.armed = TRUE, !.route.moved = b]
  BY <1>5, Zenon
<1> HIDE DEF b
<1>7. [w EXCEPT !.route.armed = TRUE, !.route.moved = b] =
        [w EXCEPT !.route = [r EXCEPT !.armed = TRUE, !.moved = b]]
  <2>1. \A x, y : [w EXCEPT !.route.armed = x, !.route.moved = y] =
                    [w EXCEPT !.route = [w.route EXCEPT !.armed = x, !.moved = y]]
    BY <1>1, RouteTogether, Zenon
  <2> QED BY <2>1, Zenon
<1> HIDE DEF r
<1>8. [r EXCEPT !.armed = TRUE, !.moved = b] = Way(r, TRUE, b, r.seen, r.map)
  BY <1>1, RouteParts, ZenonT(30)
<1>9. On(c, j, [w EXCEPT !.route = Way(r, TRUE, b, r.seen, r.map)])
  BY <1>3, FieldOn
<1> QED BY <1>6, <1>7, <1>8, <1>9, Zenon DEF r

\* A command that its cooldown may still refuse.
LEMMA ReadyOn ==
  ASSUME NEW c, Typed(c), NEW j, NEW w, On(c, j, w), w.client = "ok", NEW s, NEW action,
         NEW dest, Allows(c, action), action = "StartPath" => MayArm(c)
  PROVE  AllOn(c, j, SendWhenReady(w, s, action, dest))
<1>1. \A x : On(c, j, x) => On(c, j, ArmRoute(x, s, action, dest))
  BY ArmOn
<1>2. AllOn(c, j, Call(w, action)) /\ AllOn(c, j, {No(w)})
  BY CallOn, HandlesOn
<1>3. AllOn(c, j, {ArmRoute(x, s, action, dest) : x \in Call(w, action)})
  BY <1>1, <1>2, Zenon DEF AllOn
<1> QED BY <1>2, <1>3, HandlesOn, Zenon DEF SendWhenReady

\* The gate of every route and mount command.
LEMMA SendOn ==
  ASSUME NEW c, Guarded(c), NEW j, NEW w, On(c, j, w), NEW s, NEW action, NEW dest,
         Allows(c, action), action = "StartPath" => MayArm(c)
  PROVE  AllOn(c, j, SendDecision(w, s, action, dest))
<1> DEFINE gs == IF action \in {"Mount", "StartPath"}
                 THEN EnsureAutoFightOffForTravel(w, s) ELSE {Yes(w)}
<1>1. \A g \in gs : On(c, j, g) /\ g.client = w.client
  <2>1. On(c, j, Yes(w)) /\ Yes(w).client = w.client
    <3>1. \A x : [w EXCEPT !.ok = x].client = w.client
      BY Unwritten DEF On
    <3> QED BY <3>1, HandlesOn, Zenon DEF Yes
  <2>2. \A g \in EnsureAutoFightOffForTravel(w, s) : On(c, j, g) /\ g.client = w.client
    BY GuardIsStill
  <2> QED BY <2>1, <2>2
<1> HIDE DEF gs
<1>2. w.client = "ok" =>
        AllOn(c, j, UNION {IF g.ok THEN SendWhenReady(g, s, action, dest) ELSE {g} : g \in gs})
  <2> SUFFICES ASSUME w.client = "ok", NEW g \in gs
               PROVE  AllOn(c, j, IF g.ok THEN SendWhenReady(g, s, action, dest) ELSE {g})
    BY Zenon DEF AllOn
  <2>1. On(c, j, g) /\ g.client = "ok"
    BY <1>1
  <2> QED BY <2>1, ReadyOn, HandlesOn DEF Guarded
<1>3. AllOn(c, j, {No(w)})
  BY HandlesOn
<1> QED BY <1>2, <1>3, Zenon DEF SendDecision, gs


----------------------------------------------------------------------------
(* Travel *)

\* The courses on which an account may travel.
Roads(c) ==
  /\ Guarded(c) /\ MayArm(c)
  /\ \A what \in {"StartPath", "StopPath", "Mount", "Dismount"} : Allows(c, what)

\* The recovery of the mount, written while the account travels.
LEMMA MountOn ==
  ASSUME NEW c, NEW j, Travels(j), NEW w, On(c, j, w)
  PROVE  /\ \A x \in {0, 1, 4, 5} : On(c, j, [w EXCEPT !.mount.boost = x])
         /\ \A x \in 0 .. 2 : On(c, j, [w EXCEPT !.mount.tries = x])
         /\ On(c, j, [w EXCEPT !.mount.foot = TRUE])
         /\ On(c, j, [w EXCEPT !.mount = [IdleMount EXCEPT !.cycle = 1]])
<1> DEFINE m == w.mount
<1>1. m \in Mounts
  BY DEF On
<1>2. \A x \in Mounts : On(c, j, [w EXCEPT !.mount = x])
  BY WritesOn
<1>3. [IdleMount EXCEPT !.cycle = 1] \in Mounts
  <2>1. IdleMount \in Mounts
    BY DEF IdleMount, Mounts
  <2>2. \A x \in Mounts : [x EXCEPT !.cycle = 1] \in Mounts
    BY DEF Mounts
  <2> QED BY <2>1, <2>2, Zenon
<1> HIDE DEF m
<1>4. /\ \A x \in {0, 1, 4, 5} : [m EXCEPT !.boost = x] \in Mounts
      /\ \A x \in 0 .. 2 : [m EXCEPT !.tries = x] \in Mounts
  BY <1>1 DEF Mounts
<1>9. \A x \in BOOLEAN : [m EXCEPT !.foot = x] \in Mounts
  <2> SUFFICES ASSUME NEW x \in BOOLEAN PROVE [m EXCEPT !.foot = x] \in Mounts
    OBVIOUS
  <2>1. /\ m = [tries |-> m.tries, cycle |-> m.cycle, boost |-> m.boost, foot |-> m.foot]
        /\ m.tries \in 0 .. 2 /\ m.cycle \in 0 .. 1 /\ m.boost \in {0, 1, 4, 5}
    BY <1>1 DEF Mounts
  <2>2. [m EXCEPT !.foot = x] =
          [tries |-> m.tries, cycle |-> m.cycle, boost |-> m.boost, foot |-> x]
    BY <2>1
  <2> QED BY <2>1, <2>2 DEF Mounts
<1>5. [m EXCEPT !.foot = TRUE] \in Mounts
  BY <1>9, Zenon
<1>6. \A x \in {0, 1, 4, 5} : On(c, j, [w EXCEPT !.mount = [m EXCEPT !.boost = x]])
  BY <1>2, <1>4
<1>7. \A x \in 0 .. 2 : On(c, j, [w EXCEPT !.mount = [m EXCEPT !.tries = x]])
  BY <1>2, <1>4
<1>8. On(c, j, [w EXCEPT !.mount = [m EXCEPT !.foot = TRUE]])
  BY <1>2, <1>5
<1> QED BY <1>2, <1>3, <1>6, <1>7, <1>8, Zenon DEF m

\* The fight of a mount recovery.
LEMMA BoostOn ==
  ASSUME NEW c, Guarded(c), NEW j, Travels(j), NEW w, On(c, j, w), NEW s
  PROVE  AllOn(c, j, HandleMountFightBoost(w, s))
<1> DEFINE fight == {[w EXCEPT !.mount.boost = 5]}
           ask   == QueuePriorityAutoClick(w, s, "MountRecovery")
           taken == ConsumePriorityAutoResult(w)
           again(g) == IF g.ok THEN [g EXCEPT !.mount = [IdleMount EXCEPT !.cycle = 1]] ELSE g
           asked1 == IF ask.ok THEN [ask EXCEPT !.mount.boost = 1] ELSE ask
           fought == [taken EXCEPT !.mount.boost = IF taken.ok THEN 4 ELSE 0]
           ended == {again(g) : g \in EnsureAutoFightOffForTravel(w, s)}
<1>1. On(c, j, ask) /\ On(c, j, taken)
  <2>1. MayAsk(w.guard, "MountRecovery") /\ "MountRecovery" \in Owners
    BY DEF Owners, Workers, MayAsk
  <2> QED BY <2>1, QueueOn, ConsumeOn
<1> HIDE DEF ask, taken
<1>2. On(c, j, asked1) /\ On(c, j, fought)
  <2>1. \A x \in {0, 1, 4, 5} :
          On(c, j, [ask EXCEPT !.mount.boost = x]) /\ On(c, j, [taken EXCEPT !.mount.boost = x])
    BY <1>1, MountOn
  <2>2. (IF taken.ok THEN 4 ELSE 0) \in {0, 1, 4, 5} /\ 1 \in {0, 1, 4, 5}
    OBVIOUS
  <2> QED BY <1>1, <2>1, <2>2, Zenon
<1>3. AllOn(c, j, fight) /\ AllOn(c, j, {[w EXCEPT !.mount.boost = 0]}) /\ AllOn(c, j, {w})
  <2>1. \A x \in {0, 1, 4, 5} : On(c, j, [w EXCEPT !.mount.boost = x])
    BY MountOn
  <2>2. 0 \in {0, 1, 4, 5} /\ 5 \in {0, 1, 4, 5}
    OBVIOUS
  <2> QED BY <2>1, <2>2, Zenon DEF AllOn
<1>4. AllOn(c, j, ended)
  <2>1. \A g : On(c, j, g) => On(c, j, again(g))
    BY MountOn, Zenon
  <2> HIDE DEF again
  <2> QED BY <2>1, GuardOn, Zenon DEF AllOn
<1> HIDE DEF asked1, fought, ended, fight
<1>5. AllOn(c, j, {asked1}) /\ AllOn(c, j, {fought})
  BY <1>2, HandlesOn
<1>6. /\ AllOn(c, j, WhenDue(w, {[w EXCEPT !.mount.boost = 0]}, {w}))
      /\ AllOn(c, j, WhenDue(w, ended, {w}))
  BY <1>3, <1>4, HandlesOn
<1> QED BY <1>3, <1>5, <1>6, Zenon
        DEF HandleMountFightBoost, asked1, fought, ended, fight, ask, taken

\* A step of the assisted travel: mount, boost, dismount or walk.
LEMMA AssistOn ==
  ASSUME NEW c, Roads(c), NEW j, Travels(j), NEW w, On(c, j, w), NEW s, NEW dest,
         NEW assist \in {"StartPath", "Mount", "Wait", "FinishFootCycle", "MountCycleFailed"}
  PROVE  AllOn(c, j, AssistedStep(w, s, dest, assist))
<1> DEFINE start == SendDecision(IF s.riding THEN ResetRobustTravel(w) ELSE w, s, "StartPath", dest)
           foot == {ResetTravelFightGuard(ResetRobustTravel(x)) :
                      x \in IF Pathing(s) THEN SendDecision(w, s, "StopPath", dest) ELSE {w}}
           mounts == {IF x.ok THEN [x EXCEPT !.mount.tries = IF @ = 2 THEN 2 ELSE @ + 1] ELSE x :
                        x \in SendDecision(w, s, "Mount", dest)}
           walk == {IF x.ok THEN [x EXCEPT !.mount.foot = TRUE] ELSE x :
                      x \in UNION {IF g.ok THEN SendDecision(g, s, "StartPath", dest) ELSE {g} :
                                     g \in EnsureAutoFightOffForTravel(w, s)}}
<1>0. Guarded(c) /\ Typed(c) /\ GuardSteps(c)
  BY DEF Roads, Guarded
<1>10. \A x, what : On(c, j, x) /\ what \in {"StartPath", "StopPath", "Mount", "Dismount"}
                     => AllOn(c, j, SendDecision(x, s, what, dest))
  BY <1>0, SendOn DEF Roads
<1>1. AllOn(c, j, start)
  BY <1>0, <1>10, ResetOn, Zenon
<1>2. AllOn(c, j, {w}) /\ AllOn(c, j, {ResetRobustTravel(w)})
  BY <1>0, ResetOn, HandlesOn
<1>3. AllOn(c, j, foot)
  <2>1. AllOn(c, j, IF Pathing(s) THEN SendDecision(w, s, "StopPath", dest) ELSE {w})
    BY <1>2, <1>10, Zenon
  <2>2. \A x : On(c, j, x) => On(c, j, ResetTravelFightGuard(ResetRobustTravel(x)))
    BY <1>0, ResetOn
  <2> QED BY <2>1, <2>2, Zenon DEF AllOn
<1>4. AllOn(c, j, mounts)
  <2>1. ASSUME NEW x, On(c, j, x)
        PROVE  On(c, j, IF x.ok THEN [x EXCEPT !.mount.tries = IF @ = 2 THEN 2 ELSE @ + 1] ELSE x)
    <3> DEFINE n == IF x.mount.tries = 2 THEN 2 ELSE x.mount.tries + 1
    <3>1. n \in 0 .. 2
      BY <2>1 DEF On, Mounts
    <3>2. [x EXCEPT !.mount.tries = IF @ = 2 THEN 2 ELSE @ + 1] = [x EXCEPT !.mount.tries = n]
      BY Zenon
    <3> HIDE DEF n
    <3>3. On(c, j, [x EXCEPT !.mount.tries = n])
      BY <2>1, <3>1, MountOn
    <3> QED BY <2>1, <3>2, <3>3, Zenon
  <2>2. AllOn(c, j, SendDecision(w, s, "Mount", dest))
    BY <1>10
  <2> QED BY <2>1, <2>2, Zenon DEF AllOn
<1>5. AllOn(c, j, walk)
  <2>1. AllOn(c, j, EnsureAutoFightOffForTravel(w, s))
    BY <1>0, GuardOn
  <2>2. AllOn(c, j, UNION {IF g.ok THEN SendDecision(g, s, "StartPath", dest) ELSE {g} :
                             g \in EnsureAutoFightOffForTravel(w, s)})
    <3>1. \A g : On(c, j, g)
            => AllOn(c, j, SendDecision(g, s, "StartPath", dest)) /\ AllOn(c, j, {g})
      BY <1>10, HandlesOn
    <3>2. \A g \in EnsureAutoFightOffForTravel(w, s) :
            AllOn(c, j, IF g.ok THEN SendDecision(g, s, "StartPath", dest) ELSE {g})
      BY <2>1, <3>1, Zenon DEF AllOn
    <3> QED BY <3>2, Zenon DEF AllOn
  <2>3. \A x : On(c, j, x) => On(c, j, IF x.ok THEN [x EXCEPT !.mount.foot = TRUE] ELSE x)
    BY MountOn, Zenon
  <2> QED BY <2>2, <2>3, Zenon DEF AllOn
<1>6. AllOn(c, j, HandleMountFightBoost([w EXCEPT !.mount.boost = 0], s))
  <2>1. On(c, j, [w EXCEPT !.mount.boost = 0])
    BY MountOn
  <2> QED BY <1>0, <2>1, BoostOn
<1> HIDE DEF start, foot, mounts, walk
<1> QED BY <1>1, <1>2, <1>3, <1>4, <1>5, <1>6, Zenon
        DEF AssistedStep, start, foot, mounts, walk

\* The travel of a sale or of a return; who has arrived is off his mount.
LEMMA TravelOn ==
  ASSUME NEW c, Roads(c), NEW j, Travels(j), NEW w, On(c, j, w), NEW s, NEW dest
  PROVE  /\ AllOn(c, j, HandleRobustTravel(w, s, dest))
         /\ \A x \in HandleRobustTravel(w, s, dest) :
              x.ok => x.mount = IdleMount /\ x.client = w.client /\ x.sent = w.sent
<1> DEFINE dues == IF w.late THEN {TRUE} ELSE BOOLEAN
           action == Decide(s, dest)
           steps == UNION {AssistedStep(w, s, dest, DecideMountAssist(w, s, due)) : due \in dues}
           v == ResetRobustTravel(w)
           u == ResetTravelFightGuard(v)
           moves == IF action \in {"StopPath", "Dismount"} THEN SendDecision(w, s, action, dest)
                    ELSE IF w.mount.boost # 0 THEN HandleMountFightBoost(w, s) ELSE steps
<1>0. Guarded(c) /\ Typed(c) /\ GuardSteps(c)
  BY DEF Roads, Guarded
<1>1. AllOn(c, j, steps)
  <2>1. \A due : DecideMountAssist(w, s, due)
                   \in {"StartPath", "Mount", "Wait", "FinishFootCycle", "MountCycleFailed"}
    BY DEF DecideMountAssist
  <2>2. \A due \in dues : AllOn(c, j, AssistedStep(w, s, dest, DecideMountAssist(w, s, due)))
    BY <2>1, AssistOn
  <2> QED BY <2>2, Zenon DEF AllOn
<1> HIDE DEF steps
<1>2. AllOn(c, j, moves)
  <2>1. action \in {"StopPath", "Dismount"} => AllOn(c, j, SendDecision(w, s, action, dest))
    BY <1>0, SendOn DEF Roads
  <2>2. AllOn(c, j, HandleMountFightBoost(w, s))
    BY <1>0, BoostOn
  <2> QED BY <1>1, <2>1, <2>2
<1>3. On(Still(c, w), j, w) /\ Guarded(Still(c, w))
  BY <1>0, StillOn
<1>4. On(Still(c, w), j, u) /\ u.mount = IdleMount
  <2>1. On(Still(c, w), j, v) /\ On(Still(c, w), j, u)
    BY <1>3, ResetOn DEF Guarded
  <2>2. v.mount = IdleMount
    <3>0. IsRecord(w)
      BY DEF On
    <3>1. \A x : [w EXCEPT !.mount = x].mount = x
      BY <3>0, LastRewritten
    <3> QED BY <3>1, Zenon DEF ResetRobustTravel
  <2> HIDE DEF v
  <2>3. u.mount = v.mount
    <3>1. \A x : [v EXCEPT !.guard = x].mount = v.mount
      BY <2>1 DEF On, IsRecord
    <3>2. u = [v EXCEPT !.guard = Phase(v.guard, 0, 0)]
      <4>1. \A p, n : [v EXCEPT !.guard.phase = p, !.guard.stops = n] =
                        [v EXCEPT !.guard = Phase(v.guard, p, n)]
        BY <1>3, <2>1, GuardWritten DEF Guarded
      <4> QED BY <4>1, Zenon DEF ResetTravelFightGuard
    <3> QED BY <3>1, <3>2, Zenon
  <2> QED BY <2>1, <2>2, <2>3
<1> HIDE DEF u, moves
<1>5. Yes(u).mount = IdleMount /\ On(Still(c, w), j, Yes(u))
  <2>1. \A x : [u EXCEPT !.ok = x].mount = u.mount
    BY <1>4, Unwritten DEF On
  <2>2. Yes(u).mount = u.mount
    BY <2>1, Zenon DEF Yes
  <2> QED BY <1>4, <2>2, HandlesOn
<1>6. On(c, j, Yes(u)) /\ Yes(u).client = w.client /\ Yes(u).sent = w.sent
  <2>1. \A x : On(Still(c, w), j, x) => On(c, j, x) /\ x.client = w.client /\ x.sent = w.sent
    BY StillOn
  <2> QED BY <1>5, <2>1, Zenon
<1>7. \A x \in moves : On(c, j, No(x)) /\ ~No(x).ok
  <2> SUFFICES ASSUME NEW x \in moves
               PROVE  On(c, j, No(x)) /\ ~No(x).ok
    OBVIOUS
  <2>1. On(c, j, x)
    BY <1>2 DEF AllOn
  <2>2. \A y : [x EXCEPT !.ok = y].ok = y
    BY <2>1, Unwritten DEF On
  <2> QED BY <2>1, <2>2, HandlesOn, Zenon DEF No
<1>8. HandleRobustTravel(w, s, dest) =
        IF action = "Hold" THEN {Yes(u)} ELSE {No(x) : x \in moves}
  BY Zenon DEF HandleRobustTravel, moves, steps, u
<1> HIDE DEF action
<1> QED BY <1>5, <1>6, <1>7, <1>8, Zenon DEF AllOn

----------------------------------------------------------------------------
(* AutoPath and AutoFight on together *)

\* The guard with another state of the conflict.
Torn(g, x) == [phase |-> g.phase, stops |-> g.stops, conflict |-> x]

\* A conflict may begin, be answered by StopPath, and end.
Breaks(c) ==
  \A b, g : <<b, g>> \in c.clicks =>
    /\ <<b, Torn(Phase(g, 0, 0), "new")>> \in c.clicks
    /\ <<b, Torn(g, "stopping")>> \in c.clicks
    /\ <<b, IdleGuard>> \in c.clicks

\* What a conflict writes of the guard.
LEMMA TornWritten ==
  ASSUME NEW c, Typed(c), NEW j, NEW w, On(c, j, w)
  PROVE  /\ \A x : [w EXCEPT !.guard.conflict = x] = [w EXCEPT !.guard = Torn(w.guard, x)]
         /\ \A x : [ResetTravelFightGuard(w) EXCEPT !.guard.conflict = x] =
                     [w EXCEPT !.guard = Torn(Phase(w.guard, 0, 0), x)]
<1> SUFFICES ASSUME NEW x
             PROVE  /\ [w EXCEPT !.guard.conflict = x] = [w EXCEPT !.guard = Torn(w.guard, x)]
                    /\ [ResetTravelFightGuard(w) EXCEPT !.guard.conflict = x] =
                         [w EXCEPT !.guard = Torn(Phase(w.guard, 0, 0), x)]
  BY Zenon
<1>1. IsRecord(w) /\ w.guard \in Guards
  BY DEF On, Typed
<1>2. \A g : g = Phase(g, g.phase, g.stops) => [g EXCEPT !.conflict = x] = Torn(g, x)
  BY DEF Phase, Torn
<1>3. \A g \in Guards : g = Phase(g, g.phase, g.stops)
  BY DEF Guards, Phase
<1>4. [w EXCEPT !.guard.conflict = x] = [w EXCEPT !.guard = Torn(w.guard, x)]
  BY <1>1, <1>2, <1>3, Zenon
<1>5. ResetTravelFightGuard(w) = [w EXCEPT !.guard = Phase(w.guard, 0, 0)]
  <2>1. \A p, n : [w EXCEPT !.guard.phase = p, !.guard.stops = n] =
                    [w EXCEPT !.guard = Phase(w.guard, p, n)]
    BY GuardWritten
  <2> QED BY <2>1, Zenon DEF ResetTravelFightGuard
<1> DEFINE h == Phase(w.guard, 0, 0)
<1>6. [h EXCEPT !.conflict = x] = Torn(h, x)
  <2>1. h = Phase(h, h.phase, h.stops)
    BY DEF Phase
  <2> HIDE DEF h
  <2> QED BY <1>2, <2>1
<1> HIDE DEF h
<1>7. /\ [w EXCEPT !.guard = h].guard = h
      /\ \A g : [[w EXCEPT !.guard = h] EXCEPT !.guard = g] = [w EXCEPT !.guard = g]
  BY <1>1, GuardRewritten
<1>8. [[w EXCEPT !.guard = h] EXCEPT !.guard.conflict = x] = [w EXCEPT !.guard = Torn(h, x)]
  BY <1>6, <1>7, Zenon
<1> QED BY <1>4, <1>5, <1>8, Zenon DEF h

\* The conflict handler: what it does owns the tick, and in a conflict that is not
\* a dead character's it does.
LEMMA ConflictOn ==
  ASSUME NEW c, Guarded(c), Breaks(c), Allows(c, "StopPath"), NEW j, NEW w, On(c, j, w),
         w.client = "ok", NEW s, NEW x \in HandleAutoPathFightInvariant(w, s)
  PROVE  /\ On(c, j, x) /\ (x.done \/ x = w)
         /\ w.guard.conflict # "no" /\ ~Dead(s) => x.done
<1> DEFINE v == IF Pathing(s) /\ Fighting(s) /\ w.guard.conflict = "no"
                THEN [ResetTravelFightGuard(w) EXCEPT !.guard.conflict = "new"] ELSE w
           stopped(y) == [y EXCEPT !.guard.conflict = "stopping", !.done = TRUE]
           stop == {stopped(y) : y \in Call(v, "StopPath")}
           Ends(ws) == \A y \in ws : On(c, j, y) /\ y.done
<1>0. Typed(c)
  BY DEF Guarded
<1>1. On(c, j, v) /\ v.client = "ok"
  <2>1. On(c, j, [w EXCEPT !.guard = Torn(Phase(w.guard, 0, 0), "new")])
    <3>1. <<w.box, w.guard>> \in c.clicks
      BY DEF On
    <3>2. <<w.box, Torn(Phase(w.guard, 0, 0), "new")>> \in c.clicks
      BY <3>1 DEF Breaks
    <3> QED BY <3>2, FieldOn
  <2>2. [ResetTravelFightGuard(w) EXCEPT !.guard.conflict = "new"] =
          [w EXCEPT !.guard = Torn(Phase(w.guard, 0, 0), "new")]
    <3>1. \A z : [ResetTravelFightGuard(w) EXCEPT !.guard.conflict = z] =
                   [w EXCEPT !.guard = Torn(Phase(w.guard, 0, 0), z)]
      BY <1>0, TornWritten
    <3> QED BY <3>1, Zenon
  <2> DEFINE t == Torn(Phase(w.guard, 0, 0), "new")
  <2>3. [w EXCEPT !.guard = t].client = "ok"
    BY DEF On, IsRecord
  <2> HIDE DEF t
  <2>4. v = [w EXCEPT !.guard = t] \/ v = w
    BY <2>2, Zenon DEF t
  <2> QED BY <2>1, <2>3, <2>4 DEF t
<1>2. w.guard.conflict # "no" => v = w
  BY Zenon
<1> HIDE DEF v
<1>3. \A y : On(c, j, y) => Ends({[y EXCEPT !.done = TRUE]})
  <2> SUFFICES ASSUME NEW y, On(c, j, y)
               PROVE  On(c, j, [y EXCEPT !.done = TRUE]) /\ [y EXCEPT !.done = TRUE].done
    BY Zenon
  <2>1. \A z : [y EXCEPT !.done = z].done = z
    BY DEF On, IsRecord
  <2>2. [y EXCEPT !.done = TRUE].done = TRUE
    BY <2>1, Zenon
  <2> QED BY <2>2, WritesOn, Zenon
<1>4. \A ws : AllOn(c, j, ws) => Ends(Handle(ws))
  BY <1>3, Zenon DEF Handle, AllOn
<1>5. \A y : On(c, j, y) => Ends(Handled(y))
  BY <1>3, Zenon DEF Handled
<1>6. Ends(stop)
  <2> SUFFICES ASSUME NEW y \in Call(v, "StopPath")
               PROVE  Ends({stopped(y)})
    <3> HIDE DEF stopped
    <3> QED BY Zenon
  <2>0. AllOn(c, j, Call(v, "StopPath"))
    BY <1>1, CallOn
  <2>1. On(c, j, y) /\ <<y.box, y.guard>> \in c.clicks
    BY <2>0, Zenon DEF AllOn, On
  <2>2. <<y.box, Torn(y.guard, "stopping")>> \in c.clicks
    BY <2>1 DEF Breaks
  <2>3. On(c, j, [y EXCEPT !.guard = Torn(y.guard, "stopping")])
    BY <2>1, <2>2, FieldOn
  <2>4. [y EXCEPT !.guard.conflict = "stopping"] = [y EXCEPT !.guard = Torn(y.guard, "stopping")]
    <3>1. \A z : [y EXCEPT !.guard.conflict = z] = [y EXCEPT !.guard = Torn(y.guard, z)]
      BY <1>0, <2>1, TornWritten
    <3> QED BY <3>1, Zenon
  <2>5. stopped(y) = [[y EXCEPT !.guard.conflict = "stopping"] EXCEPT !.done = TRUE]
    BY Zenon
  <2> QED BY <1>3, <2>3, <2>4, <2>5, Zenon
<1>7. Ends(Handled([v EXCEPT !.guard = IdleGuard]))
  <2>1. <<v.box, IdleGuard>> \in c.clicks
    BY <1>1 DEF Breaks, On
  <2>2. On(c, j, [v EXCEPT !.guard = IdleGuard])
    BY <1>1, <2>1, FieldOn
  <2> QED BY <1>5, <2>2
<1>8. Ends(Handle(EnsureAutoFightOffForTravel(v, s)))
  BY <1>1, <1>4, GuardOn
<1>9. Ends(Handled(v)) /\ Ends(Handled(w))
  BY <1>1, <1>5
<1>10. Ends(WhenDue(v, stop, Handled(v)))
  BY <1>6, <1>9, Zenon DEF WhenDue
<1> HIDE DEF stop, stopped, Ends
<1>11. \/ /\ HandleAutoPathFightInvariant(w, s) = {w}
          /\ w.guard.conflict = "no" \/ Dead(s) \/ v.guard.conflict = "no"
       \/ Ends(HandleAutoPathFightInvariant(w, s))
  BY <1>6, <1>7, <1>8, <1>9, <1>10, Zenon DEF HandleAutoPathFightInvariant, v, stop, stopped
<1>12. CASE Ends(HandleAutoPathFightInvariant(w, s))
  BY <1>12, Zenon DEF Ends
<1>13. CASE /\ HandleAutoPathFightInvariant(w, s) = {w}
            /\ w.guard.conflict = "no" \/ Dead(s) \/ v.guard.conflict = "no"
  <2>1. x = w
    BY <1>13
  <2>2. w.guard.conflict = "no" \/ Dead(s)
    BY <1>2, <1>13
  <2> QED BY <2>1, <2>2
<1> QED BY <1>11, <1>12, <1>13

----------------------------------------------------------------------------
(* Records whose trip may change *)

\* The trip a record is on, and a sound record: on its course and its own trip.
TripOf(w) == [sell |-> w.sell, shop |-> w.shop, back |-> w.train.back]
Sound(c, w) == On(c, TripOf(w), w) /\ SaleOK(w.sell, w.shop)
AllSound(c, ws) == \A w \in ws : Sound(c, w)

\* A course within another one.
Within(c, d) ==
  c.traces \subseteq d.traces /\ c.clicks \subseteq d.clicks
  /\ c.routes \subseteq d.routes /\ c.kepts \subseteq d.kepts

\* Whoever keeps a trip keeps the record sound.
LEMMA OnIsSound ==
  ASSUME NEW c, NEW w, Sound(c, w)
  PROVE  /\ \A v : On(c, TripOf(w), v) => Sound(c, v)
         /\ \A ws : AllOn(c, TripOf(w), ws) => AllSound(c, ws)
<1>1. \A v : On(c, TripOf(w), v) => TripOf(v) = TripOf(w) /\ SaleOK(v.sell, v.shop)
  BY DEF On, Sound, TripOf
<1>2. \A v : On(c, TripOf(w), v) => Sound(c, v)
  BY <1>1, Zenon DEF Sound
<1> QED BY <1>2, Zenon DEF AllOn, AllSound

\* A course may be widened.
LEMMA Wider ==
  ASSUME NEW c, NEW d, Within(c, d)
  PROVE  /\ \A w : Sound(c, w) => Sound(d, w)
         /\ \A ws : AllSound(c, ws) => AllSound(d, ws)
<1>1. \A w : Sound(c, w) => Sound(d, w)
  BY DEF Within, Sound, On
<1> QED BY <1>1, Zenon DEF AllSound

\* A sound record, in parts.
LEMMA SoundParts ==
  ASSUME NEW course, NEW a, NEW b, NEW c, NEW d, NEW e, NEW f, NEW g, NEW h, NEW i,
         NEW j, NEW k, NEW l, NEW m, NEW n, NEW o, NEW p, NEW q
  PROVE  Sound(course, RecordOf(a, b, c, d, e, f, g, h, i, j, k, l, m, n, o, p, q)) <=>
           /\ a \in DOMAIN Scenes /\ <<b, l>> \in course.traces
           /\ <<c, d>> \in course.clicks /\ e \in Mounts
           /\ e # IdleMount => g.back \/ h.phase \in {4, 8}
           /\ f \in course.routes /\ g \in Trains /\ (g.monitor => ~g.back /\ h.phase = 0)
           /\ i \in 0 .. 2 /\ j \in course.kepts /\ o \in BOOLEAN /\ SaleOK(h, k)
<1> DEFINE w == RecordOf(a, b, c, d, e, f, g, h, i, j, k, l, m, n, o, p, q)
           trip == TripOf(w)
<1>1. w.sell = h /\ w.shop = k /\ w.train = g
  BY RecordRead
<1>2. On(course, trip, w) <=>
           /\ a \in DOMAIN Scenes /\ <<b, l>> \in course.traces
           /\ <<c, d>> \in course.clicks /\ e \in Mounts /\ (e # IdleMount => Travels(trip))
           /\ f \in course.routes /\ g \in Trains /\ (g.monitor => Free(trip))
           /\ g.back = trip.back /\ h = trip.sell /\ i \in 0 .. 2 /\ j \in course.kepts
           /\ k = trip.shop /\ o \in BOOLEAN
  BY OnParts
<1> HIDE DEF w
<1>3. trip.sell = h /\ trip.shop = k /\ trip.back = g.back
  BY <1>1 DEF TripOf
<1> HIDE DEF trip
<1>4. Sound(course, w) <=> On(course, trip, w) /\ SaleOK(h, k)
  BY <1>1, Zenon DEF Sound, trip
<1> QED BY <1>2, <1>3, <1>4 DEF Travels, Free, w

\* Writing a field of the trip.
LEMMA SoundWrites ==
  ASSUME NEW c, NEW w, Sound(c, w), NEW x
  PROVE  /\ (/\ SaleOK(x, w.shop)
             /\ w.mount # IdleMount => w.train.back \/ x.phase \in {4, 8}
             /\ w.train.monitor => ~w.train.back /\ x.phase = 0)
              => Sound(c, [w EXCEPT !.sell = x])
         /\ SaleOK(w.sell, x) => Sound(c, [w EXCEPT !.shop = x])
         /\ (/\ x \in Trains
             /\ x.monitor => ~x.back /\ w.sell.phase = 0
             /\ w.mount # IdleMount => x.back \/ w.sell.phase \in {4, 8})
              => Sound(c, [w EXCEPT !.train = x])
         /\ Sound(c, [w EXCEPT !.done = x]) /\ Sound(c, [w EXCEPT !.closed = x])
<1>1. PICK a0, b0, c0, d0, e0, f0, g0, h0, i0, j0, k0, l0, m0, n0, o0, p0, q0 :
           w = RecordOf(a0, b0, c0, d0, e0, f0, g0, h0, i0, j0, k0, l0, m0, n0, o0, p0, q0)
  BY RecordParts DEF Sound, On
<1>2. w.mount = e0 /\ w.train = g0 /\ w.sell = h0 /\ w.shop = k0
  BY <1>1, RecordRead
<1>3. /\ a0 \in DOMAIN Scenes /\ <<b0, l0>> \in c.traces
      /\ <<c0, d0>> \in c.clicks /\ e0 \in Mounts
      /\ e0 # IdleMount => g0.back \/ h0.phase \in {4, 8}
      /\ f0 \in c.routes /\ g0 \in Trains /\ (g0.monitor => ~g0.back /\ h0.phase = 0)
      /\ i0 \in 0 .. 2 /\ j0 \in c.kepts /\ o0 \in BOOLEAN /\ SaleOK(h0, k0)
  BY <1>1, SoundParts
<1> DEFINE R(gg, hh, kk, pp, qq) ==
             RecordOf(a0, b0, c0, d0, e0, f0, gg, hh, i0, j0, kk, l0, m0, n0, o0, pp, qq)
<1>4. /\ [w EXCEPT !.train = x] = R(x, h0, k0, p0, q0)
      /\ [w EXCEPT !.sell = x] = R(g0, x, k0, p0, q0)
      /\ [w EXCEPT !.shop = x] = R(g0, h0, x, p0, q0)
      /\ [w EXCEPT !.done = x] = R(g0, h0, k0, x, q0)
      /\ [w EXCEPT !.closed = x] = R(g0, h0, k0, p0, x)
  BY <1>1 DEF RecordOf
<1>5. \A gg, hh, kk, pp, qq :
        Sound(c, R(gg, hh, kk, pp, qq)) <=>
          /\ e0 # IdleMount => gg.back \/ hh.phase \in {4, 8}
          /\ gg \in Trains /\ (gg.monitor => ~gg.back /\ hh.phase = 0) /\ SaleOK(hh, kk)
  BY <1>3, SoundParts
<1> HIDE DEF R
<1>6. ASSUME SaleOK(x, w.shop), w.mount # IdleMount => w.train.back \/ x.phase \in {4, 8},
             w.train.monitor => ~w.train.back /\ x.phase = 0
      PROVE  Sound(c, [w EXCEPT !.sell = x])
  BY <1>2, <1>3, <1>4, <1>5, <1>6
<1>7. ASSUME x \in Trains, x.monitor => ~x.back /\ w.sell.phase = 0,
             w.mount # IdleMount => x.back \/ w.sell.phase \in {4, 8}
      PROVE  Sound(c, [w EXCEPT !.train = x])
  BY <1>2, <1>3, <1>4, <1>5, <1>7
<1>8. SaleOK(w.sell, x) => Sound(c, [w EXCEPT !.shop = x])
  BY <1>2, <1>3, <1>4, <1>5
<1>9. Sound(c, [w EXCEPT !.done = x]) /\ Sound(c, [w EXCEPT !.closed = x])
  BY <1>3, <1>4, <1>5
<1> QED BY <1>6, <1>7, <1>8, <1>9, Zenon

----------------------------------------------------------------------------
(* The sale: its fields *)

\* A sale with other counters.
Counters(sl, p, o, i, r, t) ==
  [phase |-> p, opens |-> o, index |-> i, repeat |-> r, pass |-> sl.pass, stable |-> t]

\* A record that is sound but for its sale, which may be in the middle of a change.
SellsOn(c, w) ==
  /\ IsRecord(w)
  /\ w.sell = Counters(w.sell, w.sell.phase, w.sell.opens, w.sell.index, w.sell.repeat,
                       w.sell.stable)
  /\ \A x : SaleOK(x, w.shop) => Sound(c, [w EXCEPT !.sell = x])

\* The single writes of a sale.
InPhase(w, x)    == [w EXCEPT !.sell.phase = x]
WithOpens(w, x)  == [w EXCEPT !.sell.opens = x]
AtIndex(w, x)    == [w EXCEPT !.sell.index = x]
WithRepeat(w, x) == [w EXCEPT !.sell.repeat = x]
WithStable(w, x) == [w EXCEPT !.sell.stable = x]

\* Between the trips the sale of a sound record may be changed; and must be in
\* order again in the end.
LEMMA SellsOnSound ==
  ASSUME NEW c, NEW w
  PROVE  /\ Sound(c, w) /\ w.sell.phase # 0 /\ (w.mount = IdleMount \/ w.sell.phase \notin {4, 8})
              => SellsOn(c, w)
         /\ SellsOn(c, w) /\ SaleOK(w.sell, w.shop) => Sound(c, w)
<1>1. ASSUME Sound(c, w), w.sell.phase # 0, w.mount = IdleMount \/ w.sell.phase \notin {4, 8}
      PROVE  SellsOn(c, w)
  <2>1. IsRecord(w) /\ w.sell \in Sales /\ ~w.train.monitor /\ (w.mount # IdleMount => w.train.back)
    BY <1>1 DEF Sound, On, SaleOK, TripOf, Travels, Free
  <2>2. \A x : SaleOK(x, w.shop) => Sound(c, [w EXCEPT !.sell = x])
    BY <1>1, <2>1, SoundWrites
  <2>3. \A sl \in Sales : sl = Counters(sl, sl.phase, sl.opens, sl.index, sl.repeat, sl.stable)
    BY DEF Sales, Counters
  <2> QED BY <2>1, <2>2, <2>3, Zenon DEF SellsOn
<1>2. ASSUME SellsOn(c, w), SaleOK(w.sell, w.shop)
      PROVE  Sound(c, w)
  <2>1. w = [w EXCEPT !.sell = w.sell]
    BY <1>2 DEF SellsOn, IsRecord
  <2>2. Sound(c, [w EXCEPT !.sell = w.sell])
    BY <1>2, Zenon DEF SellsOn
  <2> QED BY <2>1, <2>2
<1> QED BY <1>1, <1>2

\* The sale was changed, and nothing else.
Edited(c, w, v, sl) == SellsOn(c, v) /\ v.shop = w.shop /\ v.sell = sl

\* What a single write does to the sale.
LEMMA SaleEdits ==
  ASSUME NEW c, NEW w, SellsOn(c, w), NEW x
  PROVE  /\ Edited(c, w, InPhase(w, x), Counters(w.sell, x, w.sell.opens, w.sell.index,
                                                 w.sell.repeat, w.sell.stable))
         /\ Edited(c, w, WithOpens(w, x), Counters(w.sell, w.sell.phase, x, w.sell.index,
                                                   w.sell.repeat, w.sell.stable))
         /\ Edited(c, w, AtIndex(w, x), Counters(w.sell, w.sell.phase, w.sell.opens, x,
                                                 w.sell.repeat, w.sell.stable))
         /\ Edited(c, w, WithRepeat(w, x), Counters(w.sell, w.sell.phase, w.sell.opens,
                                                    w.sell.index, x, w.sell.stable))
         /\ Edited(c, w, WithStable(w, x), Counters(w.sell, w.sell.phase, w.sell.opens,
                                                    w.sell.index, w.sell.repeat, x))
<1> DEFINE sl == w.sell
<1>1. IsRecord(w) /\ sl = Counters(sl, sl.phase, sl.opens, sl.index, sl.repeat, sl.stable)
  BY Zenon DEF SellsOn
<1> HIDE DEF sl
<1>2. [sl EXCEPT !.phase = x] = Counters(sl, x, sl.opens, sl.index, sl.repeat, sl.stable)
  BY <1>1 DEF Counters
<1>3. [sl EXCEPT !.opens = x] = Counters(sl, sl.phase, x, sl.index, sl.repeat, sl.stable)
  BY <1>1 DEF Counters
<1>4. [sl EXCEPT !.index = x] = Counters(sl, sl.phase, sl.opens, x, sl.repeat, sl.stable)
  BY <1>1 DEF Counters
<1>5. [sl EXCEPT !.repeat = x] = Counters(sl, sl.phase, sl.opens, sl.index, x, sl.stable)
  BY <1>1 DEF Counters
<1>6. [sl EXCEPT !.stable = x] = Counters(sl, sl.phase, sl.opens, sl.index, sl.repeat, x)
  BY <1>1 DEF Counters
<1>7. ASSUME NEW y, y = Counters(y, y.phase, y.opens, y.index, y.repeat, y.stable)
      PROVE  LET v == [w EXCEPT !.sell = y] IN SellsOn(c, v) /\ v.shop = w.shop /\ v.sell = y
  <2> DEFINE v == [w EXCEPT !.sell = y]
  <2>1. IsRecord(v) /\ v.shop = w.shop
    BY <1>1 DEF IsRecord
  <2>2. v.sell = y /\ \A z : [v EXCEPT !.sell = z] = [w EXCEPT !.sell = z]
    BY <1>1, SellRewritten
  <2>3. \A z : SaleOK(z, w.shop) => Sound(c, [w EXCEPT !.sell = z])
    BY Zenon DEF SellsOn
  <2> HIDE DEF v
  <2>4. SellsOn(c, v)
    BY <1>7, <2>1, <2>2, <2>3 DEF SellsOn
  <2> QED BY <2>1, <2>2, <2>4 DEF v
<1>11. /\ InPhase(w, x) = [w EXCEPT !.sell = [sl EXCEPT !.phase = x]]
       /\ WithOpens(w, x) = [w EXCEPT !.sell = [sl EXCEPT !.opens = x]]
       /\ AtIndex(w, x) = [w EXCEPT !.sell = [sl EXCEPT !.index = x]]
       /\ WithRepeat(w, x) = [w EXCEPT !.sell = [sl EXCEPT !.repeat = x]]
       /\ WithStable(w, x) = [w EXCEPT !.sell = [sl EXCEPT !.stable = x]]
  BY Zenon DEF InPhase, WithOpens, AtIndex, WithRepeat, WithStable, sl
<1>12. /\ InPhase(w, x) = [w EXCEPT !.sell = Counters(sl, x, sl.opens, sl.index, sl.repeat, sl.stable)]
       /\ WithOpens(w, x) = [w EXCEPT !.sell = Counters(sl, sl.phase, x, sl.index, sl.repeat, sl.stable)]
       /\ AtIndex(w, x) = [w EXCEPT !.sell = Counters(sl, sl.phase, sl.opens, x, sl.repeat, sl.stable)]
       /\ WithRepeat(w, x) = [w EXCEPT !.sell = Counters(sl, sl.phase, sl.opens, sl.index, x, sl.stable)]
       /\ WithStable(w, x) = [w EXCEPT !.sell = Counters(sl, sl.phase, sl.opens, sl.index, sl.repeat, x)]
  BY <1>2, <1>3, <1>4, <1>5, <1>6, <1>11, Zenon
<1>13. /\ SellsOn(c, InPhase(w, x)) /\ InPhase(w, x).shop = w.shop
       /\ InPhase(w, x).sell = Counters(sl, x, sl.opens, sl.index, sl.repeat, sl.stable)
  <2> DEFINE y == Counters(sl, x, sl.opens, sl.index, sl.repeat, sl.stable)
  <2>1. y = Counters(y, y.phase, y.opens, y.index, y.repeat, y.stable)
    BY DEF Counters
  <2>2. InPhase(w, x) = [w EXCEPT !.sell = y]
    BY <1>12, Zenon
  <2> HIDE DEF y
  <2>3. SellsOn(c, [w EXCEPT !.sell = y]) /\ [w EXCEPT !.sell = y].shop = w.shop
          /\ [w EXCEPT !.sell = y].sell = y
    BY <1>7, <2>1, Zenon
  <2> QED BY <2>2, <2>3, Zenon DEF y
<1>14. /\ SellsOn(c, WithOpens(w, x)) /\ WithOpens(w, x).shop = w.shop
       /\ WithOpens(w, x).sell = Counters(sl, sl.phase, x, sl.index, sl.repeat, sl.stable)
  <2> DEFINE y == Counters(sl, sl.phase, x, sl.index, sl.repeat, sl.stable)
  <2>1. y = Counters(y, y.phase, y.opens, y.index, y.repeat, y.stable)
    BY DEF Counters
  <2>2. WithOpens(w, x) = [w EXCEPT !.sell = y]
    BY <1>12, Zenon
  <2> HIDE DEF y
  <2>3. SellsOn(c, [w EXCEPT !.sell = y]) /\ [w EXCEPT !.sell = y].shop = w.shop
          /\ [w EXCEPT !.sell = y].sell = y
    BY <1>7, <2>1, Zenon
  <2> QED BY <2>2, <2>3, Zenon DEF y
<1>15. /\ SellsOn(c, AtIndex(w, x)) /\ AtIndex(w, x).shop = w.shop
       /\ AtIndex(w, x).sell = Counters(sl, sl.phase, sl.opens, x, sl.repeat, sl.stable)
  <2> DEFINE y == Counters(sl, sl.phase, sl.opens, x, sl.repeat, sl.stable)
  <2>1. y = Counters(y, y.phase, y.opens, y.index, y.repeat, y.stable)
    BY DEF Counters
  <2>2. AtIndex(w, x) = [w EXCEPT !.sell = y]
    BY <1>12, Zenon
  <2> HIDE DEF y
  <2>3. SellsOn(c, [w EXCEPT !.sell = y]) /\ [w EXCEPT !.sell = y].shop = w.shop
          /\ [w EXCEPT !.sell = y].sell = y
    BY <1>7, <2>1, Zenon
  <2> QED BY <2>2, <2>3, Zenon DEF y
<1>16. /\ SellsOn(c, WithRepeat(w, x)) /\ WithRepeat(w, x).shop = w.shop
       /\ WithRepeat(w, x).sell = Counters(sl, sl.phase, sl.opens, sl.index, x, sl.stable)
  <2> DEFINE y == Counters(sl, sl.phase, sl.opens, sl.index, x, sl.stable)
  <2>1. y = Counters(y, y.phase, y.opens, y.index, y.repeat, y.stable)
    BY DEF Counters
  <2>2. WithRepeat(w, x) = [w EXCEPT !.sell = y]
    BY <1>12, Zenon
  <2> HIDE DEF y
  <2>3. SellsOn(c, [w EXCEPT !.sell = y]) /\ [w EXCEPT !.sell = y].shop = w.shop
          /\ [w EXCEPT !.sell = y].sell = y
    BY <1>7, <2>1, Zenon
  <2> QED BY <2>2, <2>3, Zenon DEF y
<1>17. /\ SellsOn(c, WithStable(w, x)) /\ WithStable(w, x).shop = w.shop
       /\ WithStable(w, x).sell = Counters(sl, sl.phase, sl.opens, sl.index, sl.repeat, x)
  <2> DEFINE y == Counters(sl, sl.phase, sl.opens, sl.index, sl.repeat, x)
  <2>1. y = Counters(y, y.phase, y.opens, y.index, y.repeat, y.stable)
    BY DEF Counters
  <2>2. WithStable(w, x) = [w EXCEPT !.sell = y]
    BY <1>12, Zenon
  <2> HIDE DEF y
  <2>3. SellsOn(c, [w EXCEPT !.sell = y]) /\ [w EXCEPT !.sell = y].shop = w.shop
          /\ [w EXCEPT !.sell = y].sell = y
    BY <1>7, <2>1, Zenon
  <2> QED BY <2>2, <2>3, Zenon DEF y
<1> QED BY <1>13, <1>14, <1>15, <1>16, <1>17, Zenon DEF sl, Edited

----------------------------------------------------------------------------
(* The sale: its requests *)

\* A request of the sale: the session is what the bridge made of it, the sale is as
\* it was, and only a result that was no failure counts.
LEMMA SellCallSound ==
  ASSUME NEW c, NEW w, Sound(c, w), w.client = "ok", NEW what, Allows(c, what), NEW results,
         \A r \in results : SaleOK(w.sell, r.shop), NEW x \in SellCall(w, what, results)
  PROVE  /\ Sound(c, x) /\ x.sell = w.sell
         /\ x.ok => \E r \in results : r.result # "fail" /\ x.shop = r.shop
<1> DEFINE good == {r \in results : r.result # "fail"}
           ends(r) == {IF r.result = "fail" THEN "fail" ELSE "ok"}
                      \cup (Answers(w) \cap {"timeout"})
           from == IF "fail" \in Answers(w) THEN results \cup {Done(w.shop, "fail")} ELSE good
           one(r, e) == [Answered(w, what, e) EXCEPT !.shop = r.shop,
                                                     !.closed = (r.result = "nothing")]
<1> DEFINE all(r) == {one(r, e) : e \in ends(r)}
<1>b. x \in UNION {all(r) : r \in from}
  BY Zenon DEF SellCall
<1>1. PICK r \in from : x \in all(r)
  <2> HIDE DEF all, from
  <2> QED BY <1>b
<1>a. PICK e \in ends(r) : x = one(r, e)
  <2> HIDE DEF one, ends
  <2> QED BY <1>1
<1> HIDE DEF all
<1>2. SaleOK(w.sell, r.shop) /\ (r.result # "fail" => r \in results)
  <2>1. SaleOK(w.sell, w.shop)
    BY Zenon DEF Sound
  <2>2. Done(w.shop, "fail").shop = w.shop /\ Done(w.shop, "fail").result = "fail"
    BY DEF Done
  <2>3. r \in results \cup {Done(w.shop, "fail")}
    BY <1>1
  <2> HIDE DEF from, ends, one
  <2> QED BY <2>1, <2>2, <2>3
<1>3. e \in Replies /\ (e = "ok" => r.result # "fail")
  BY DEF Replies
<1> DEFINE v == Answered(w, what, e)
           h == [v EXCEPT !.shop = r.shop]
           nothing == r.result = "nothing"
<1>4. On(c, TripOf(w), v) /\ v.ok = (e = "ok")
  <2>1. On(c, TripOf(w), w) /\ e \in Replies
    BY <1>3, Zenon DEF Sound
  <2> QED BY <2>1, AnsweredOn
<1>5. x = [h EXCEPT !.closed = nothing]
  BY <1>a
<1> HIDE DEF from, ends, one, v, nothing
<1>6. Sound(c, v)
  BY <1>4, OnIsSound, Zenon
<1>7. IsRecord(v) /\ v.sell = w.sell
  BY <1>4 DEF On, TripOf
<1>8. Sound(c, h)
  BY <1>2, <1>6, <1>7, SoundWrites
<1>9. h.shop = r.shop /\ h.sell = w.sell /\ h.ok = v.ok /\ IsRecord(h)
  BY <1>7 DEF IsRecord
<1> HIDE DEF h
<1>10. Sound(c, x)
  BY <1>5, <1>8, SoundWrites
<1>11. x.shop = r.shop /\ x.sell = w.sell /\ x.ok = v.ok
  BY <1>5, <1>9 DEF IsRecord
<1> QED BY <1>2, <1>3, <1>4, <1>10, <1>11

\* The sale in the middle of a change: its counters are in their bounds.
LEMMA CountersIn ==
  ASSUME NEW sl \in Sales, NEW p \in {0, 5, 6, 7, 8, 10}, NEW o \in 0 .. OpenLimit, NEW i \in 0 .. 5,
         NEW r \in 0 .. (ItemCap + Layers), NEW t \in BOOLEAN
  PROVE  /\ Counters(sl, p, o, i, r, t) \in Sales
         /\ \A sh \in Shops : p \in {0, 7, 8, 10} => SaleOK(Counters(sl, p, o, i, r, t), sh)
<1> DEFINE u == Counters(sl, p, o, i, r, t)
<1>1. u \in Sales
  BY DEF Counters, Sales
<1>2. u.phase = p
  BY DEF Counters, Sales
<1> HIDE DEF u
<1>3. ASSUME NEW sh \in Shops, p \in {0, 7, 8, 10}
      PROVE  SaleOK(u, sh)
  BY <1>1, <1>2, <1>3 DEF SaleOK
<1> QED BY <1>1, <1>3, Zenon DEF u

\* The sale with another phase, outside the shop.
LEMMA PhaseIn ==
  ASSUME NEW sl \in Sales, NEW p \in {0, 7, 8, 10}, NEW t \in BOOLEAN, NEW sh \in Shops
  PROVE  SaleOK(Counters(sl, p, sl.opens, sl.index, sl.repeat, t), sh)
<1> DEFINE u == Counters(sl, p, sl.opens, sl.index, sl.repeat, t)
<1>1. /\ sl.opens \in 0 .. OpenLimit /\ sl.index \in 0 .. 5
      /\ sl.repeat \in 0 .. (ItemCap + Layers) /\ sl.pass \in 0 .. 2
  BY DEF Sales
<1>2. u \in Sales /\ u.phase = p
  BY <1>1 DEF Counters, Sales
<1> HIDE DEF u
<1>3. SaleOK(u, sh)
  BY <1>2 DEF SaleOK
<1> QED BY <1>3, Zenon DEF u

\* A sale may be given up at any time, or go on to the verification of the bag.
LEMMA EndsSound ==
  ASSUME NEW c, NEW w, SellsOn(c, w), w.sell \in Sales, w.shop \in Shops
  PROVE  Sound(c, GiveUp(w)) /\ Sound(c, Verify(w))
<1>1. /\ w.sell.opens \in 0 .. OpenLimit /\ w.sell.index \in 0 .. 5
      /\ w.sell.repeat \in 0 .. (ItemCap + Layers) /\ w.sell.stable \in BOOLEAN
  BY DEF Sales
<1>2. Sound(c, GiveUp(w))
  <2> DEFINE v == InPhase(w, 10)
  <2>1. SellsOn(c, v) /\ v.shop = w.shop
        /\ v.sell = Counters(w.sell, 10, w.sell.opens, w.sell.index, w.sell.repeat, w.sell.stable)
    BY SaleEdits DEF Edited
  <2> HIDE DEF v
  <2>b. SaleOK(Counters(w.sell, 10, w.sell.opens, w.sell.index, w.sell.repeat, w.sell.stable), w.shop)
    BY <1>1, PhaseIn
  <2>2. SaleOK(v.sell, v.shop)
    BY <2>1, <2>b, Zenon
  <2>3. Sound(c, v)
    BY <2>1, <2>2, SellsOnSound, Zenon
  <2> QED BY <2>3, Zenon DEF GiveUp, v, InPhase
<1>3. Sound(c, Verify(w))
  <2> DEFINE u == InPhase(w, 7)
             v == WithStable(u, FALSE)
  <2>1. SellsOn(c, u) /\ u.shop = w.shop
        /\ u.sell = Counters(w.sell, 7, w.sell.opens, w.sell.index, w.sell.repeat, w.sell.stable)
    BY SaleEdits DEF Edited
  <2> HIDE DEF u
  <2>a. \A x : Edited(c, u, WithStable(u, x), Counters(u.sell, u.sell.phase, u.sell.opens,
                                                     u.sell.index, u.sell.repeat, x))
    BY <2>1, SaleEdits
  <2>2. SellsOn(c, v) /\ v.shop = u.shop
        /\ v.sell = Counters(u.sell, u.sell.phase, u.sell.opens, u.sell.index, u.sell.repeat, FALSE)
    BY <2>a, Zenon DEF Edited
  <2> HIDE DEF v
  <2>3. v.sell = Counters(w.sell, 7, w.sell.opens, w.sell.index, w.sell.repeat, FALSE)
    BY <2>1, <2>2 DEF Counters
  <2>b. \A t \in BOOLEAN :
          SaleOK(Counters(w.sell, 7, w.sell.opens, w.sell.index, w.sell.repeat, t), w.shop)
    BY <1>1, PhaseIn
  <2>c. SaleOK(Counters(w.sell, 7, w.sell.opens, w.sell.index, w.sell.repeat, FALSE), w.shop)
    BY <2>b, Zenon
  <2>4. SaleOK(v.sell, v.shop)
    BY <2>1, <2>2, <2>3, <2>c, Zenon
  <2>5. Sound(c, v)
    BY <2>2, <2>4, SellsOnSound, Zenon
  <2> QED BY <2>5, Zenon DEF Verify, v, u, InPhase, WithStable
<1> QED BY <1>2, <1>3

\* Another failure of the sale, counted within its limit.
LEMMA FailureSound ==
  ASSUME NEW c, NEW w, Sound(c, w), w.sell.phase \in {5, 6}, NEW limit \in Nat,
         w.sell.opens < OpenLimit,
         w.sell.opens + 1 < limit =>
           SaleOK(Counters(w.sell, w.sell.phase, w.sell.opens + 1, w.sell.index, w.sell.repeat,
                           w.sell.stable), w.shop)
  PROVE  Sound(c, CountFailure(w, limit, GiveUp)) /\ Sound(c, CountFailure(w, limit, Verify))
<1> DEFINE v == WithOpens(w, w.sell.opens + 1)
<1>1. SellsOn(c, w) /\ w.sell \in Sales /\ w.shop \in Shops
  <2>1. SellsOn(c, w)
    BY SellsOnSound
  <2> QED BY <2>1 DEF Sound, SaleOK
<1>2. SellsOn(c, v) /\ v.shop = w.shop
      /\ v.sell = Counters(w.sell, w.sell.phase, w.sell.opens + 1, w.sell.index, w.sell.repeat,
                           w.sell.stable)
  BY <1>1, SaleEdits DEF Edited
<1> HIDE DEF v
<1>3. w.sell.opens \in 0 .. OpenLimit /\ w.sell.index \in 0 .. 5
      /\ w.sell.repeat \in 0 .. (ItemCap + Layers) /\ w.sell.stable \in BOOLEAN
  BY <1>1 DEF Sales
<1>4. w.sell.opens + 1 \in 0 .. OpenLimit
  BY <1>3, SellAssumption
<1>5. v.sell \in Sales /\ v.shop \in Shops
  <2>1. Counters(w.sell, w.sell.phase, w.sell.opens + 1, w.sell.index, w.sell.repeat,
                 w.sell.stable) \in Sales
    BY <1>1, <1>3, <1>4, CountersIn
  <2> QED BY <1>1, <1>2, <2>1
<1>6. Sound(c, GiveUp(v)) /\ Sound(c, Verify(v))
  BY <1>2, <1>5, EndsSound
<1>7. v.sell.opens = w.sell.opens + 1
  BY <1>2 DEF Counters
<1>8. ~(v.sell.opens >= limit) => Sound(c, v)
  <2> SUFFICES ASSUME ~(v.sell.opens >= limit)
               PROVE  Sound(c, v)
    OBVIOUS
  <2>1. w.sell.opens + 1 < limit
    BY <1>3, <1>7
  <2>2. SaleOK(v.sell, v.shop)
    BY <1>2, <2>1
  <2> QED BY <1>2, <2>2, SellsOnSound, Zenon
<1>9. Sound(c, IF v.sell.opens >= limit THEN GiveUp(v) ELSE v)
      /\ Sound(c, IF v.sell.opens >= limit THEN Verify(v) ELSE v)
  BY <1>6, <1>8, Zenon
<1> HIDE DEF GiveUp, Verify
<1> QED BY <1>9, Zenon DEF CountFailure, v, WithOpens

\* What the bridge does to its session.
LEMMA ShopAnswers ==
  ASSUME NEW sh \in Shops
  PROVE  /\ \A r \in BeginBackgroundSell(sh) :
              r.shop \in Shops /\ (r.result # "fail" => r.shop.active)
         /\ \A r \in AdvanceBackgroundSell(sh) :
              /\ r.shop \in Shops /\ r.shop.active = sh.active /\ r.shop.stage >= sh.stage
              /\ r.shop.callbacks = sh.callbacks
         /\ \A r \in SellFixedBagSlot(sh) :
              /\ r.shop \in Shops /\ r.shop.active = sh.active /\ r.shop.stage = sh.stage
              /\ r.shop.callbacks >= sh.callbacks
              /\ r.result # "fail" =>
                   r.shop.callbacks = ItemCap \/ r.shop.callbacks = sh.callbacks + 1
         /\ \A r \in CloseBackgroundSell(sh) : r.shop \in Shops
<1>1. \A r \in BeginBackgroundSell(sh) :
        r.shop \in Shops /\ (r.result # "fail" => r.shop.active)
  <2> DEFINE one == [ClosedShop EXCEPT !.active = TRUE]
  <2>a. \A y, x : y = [active |-> FALSE, stage |-> 0, callbacks |-> 0] =>
          [y EXCEPT !.active = x] = [active |-> x, stage |-> 0, callbacks |-> 0]
    OBVIOUS
  <2>1. one = [active |-> TRUE, stage |-> 0, callbacks |-> 0]
    BY <2>a, Zenon DEF ClosedShop
  <2> HIDE DEF one
  <2>2. one \in Shops /\ one.active /\ ClosedShop \in Shops
    BY <2>1, SellAssumption DEF Shops, ClosedShop
  <2>3. \A r \in {Done(one, "ok"), Done(ClosedShop, "fail"), Done(sh, "fail")} :
          r.shop \in Shops /\ (r.result # "fail" => r.shop.active)
    BY <2>2 DEF Done
  <2> QED BY <2>3, Zenon DEF BeginBackgroundSell, one
<1>2. \A n \in 0 .. 3 : \A m \in NextStages[n + 1] : m \in 0 .. 4 /\ m >= n
  <2> SUFFICES ASSUME NEW n \in 0 .. 3, NEW m \in NextStages[n + 1]
               PROVE  m \in 0 .. 4 /\ m >= n
    OBVIOUS
  <2>1. n = 0 \/ n = 1 \/ n = 2 \/ n = 3
    OBVIOUS
  <2> QED BY <2>1 DEF NextStages
<1>3. \A m \in 0 .. 4 : [sh EXCEPT !.stage = m] \in Shops
        /\ [sh EXCEPT !.stage = m].stage = m /\ [sh EXCEPT !.stage = m].active = sh.active
        /\ [sh EXCEPT !.stage = m].callbacks = sh.callbacks
  BY DEF Shops
<1>4. sh.stage \in 0 .. 4 /\ sh.callbacks \in 0 .. ItemCap
  BY DEF Shops
<1>5. \A r \in AdvanceBackgroundSell(sh) :
        /\ r.shop \in Shops /\ r.shop.active = sh.active /\ r.shop.stage >= sh.stage
        /\ r.shop.callbacks = sh.callbacks
  <2>1. \A x : Done(sh, x).shop = sh
    BY DEF Done
  <2>2. CASE ~sh.active \/ sh.stage >= 4
    BY <1>4, <2>1, <2>2 DEF AdvanceBackgroundSell
  <2>3. CASE ~(~sh.active \/ sh.stage >= 4)
    <3> SUFFICES ASSUME NEW n \in NextStages[sh.stage + 1]
                 PROVE  LET r == Done([sh EXCEPT !.stage = n], "ok") IN
                          /\ r.shop \in Shops /\ r.shop.active = sh.active
                          /\ r.shop.stage >= sh.stage /\ r.shop.callbacks = sh.callbacks
      <4> DEFINE all == {Done([sh EXCEPT !.stage = n], "ok") : n \in NextStages[sh.stage + 1]}
      <4>1. \A r \in AdvanceBackgroundSell(sh) : r \in all \/ r = Done(sh, "fail")
        BY <2>3, Zenon DEF AdvanceBackgroundSell
      <4>2. \A r \in all : /\ r.shop \in Shops /\ r.shop.active = sh.active
                            /\ r.shop.stage >= sh.stage /\ r.shop.callbacks = sh.callbacks
        OBVIOUS
      <4> HIDE DEF all
      <4> QED BY <1>4, <2>1, <4>1, <4>2
    <3>1. n \in 0 .. 4 /\ n >= sh.stage
      BY <1>2, <1>4, <2>3
    <3> QED BY <1>3, <3>1 DEF Done
  <2> QED BY <2>2, <2>3
<1>6. \A r \in SellFixedBagSlot(sh) :
        /\ r.shop \in Shops /\ r.shop.active = sh.active /\ r.shop.stage = sh.stage
        /\ r.shop.callbacks >= sh.callbacks
        /\ r.result # "fail" =>
             r.shop.callbacks = ItemCap \/ r.shop.callbacks = sh.callbacks + 1
  <2> DEFINE one == [sh EXCEPT !.callbacks = @ + 1]
  <2>1. sh.callbacks < ItemCap =>
          /\ one \in Shops /\ one.active = sh.active /\ one.stage = sh.stage
          /\ one.callbacks = sh.callbacks + 1
    BY <1>4, SellAssumption DEF Shops
  <2> HIDE DEF one
  <2>2. \A r \in SellFixedBagSlot(sh) :
          \/ r = Done(sh, "fail")
          \/ r = Done(sh, "ok") /\ sh.callbacks >= ItemCap
          \/ r = Done(one, "ok") /\ ~(sh.callbacks >= ItemCap)
    BY Zenon DEF SellFixedBagSlot, one
  <2>3. \A y, x : Done(y, x).shop = y /\ Done(y, x).result = x
    BY DEF Done
  <2> QED BY <1>4, <2>1, <2>2, <2>3, SellAssumption
<1>7. \A r \in CloseBackgroundSell(sh) : r.shop \in Shops
  <2> DEFINE one == [sh EXCEPT !.active = FALSE]
  <2>a. \A x \in BOOLEAN : [sh EXCEPT !.active = x] \in Shops
    BY DEF Shops
  <2>1. one \in Shops
    BY <2>a, Zenon
  <2> HIDE DEF one
  <2>2. \A r \in CloseBackgroundSell(sh) : \E x : r = Done(sh, x) \/ r = Done(one, x)
    BY Zenon DEF CloseBackgroundSell, one
  <2>3. \A y, x : Done(y, x).shop = y
    BY DEF Done
  <2> QED BY <2>1, <2>2, <2>3
<1> QED BY <1>1, <1>5, <1>6, <1>7

----------------------------------------------------------------------------
(* The sale: its macro *)

\* An item click that was answered counts.
LEMMA CountedSound ==
  ASSUME NEW c, NEW x, Sound(c, x), x.sell.phase = 6, x.sell.index = 4, NEW n \in 1 .. ItemCap,
         x.sell.repeat + 1 <= x.shop.callbacks \/ x.shop.callbacks = ItemCap
  PROVE  LET v == WithRepeat(WithOpens(x, 0), WithOpens(x, 0).sell.repeat + 1)
         IN Sound(c, IF v.sell.repeat >= n THEN WithRepeat(AtIndex(v, 5), 0) ELSE v)
<1> DEFINE u == WithOpens(x, 0)
           v == WithRepeat(u, u.sell.repeat + 1)
           y == AtIndex(v, 5)
           z == WithRepeat(y, 0)
           sl == x.sell
<1>1. SellsOn(c, x) /\ sl \in Sales /\ SaleOK(sl, x.shop) /\ x.shop \in Shops
  <2>1. SellsOn(c, x)
    BY SellsOnSound
  <2> QED BY <2>1 DEF Sound, SaleOK
<1>2. SellsOn(c, u) /\ u.shop = x.shop
      /\ u.sell = Counters(sl, sl.phase, 0, sl.index, sl.repeat, sl.stable)
  BY <1>1, SaleEdits DEF Edited
<1> HIDE DEF u
<1>3. SellsOn(c, v) /\ v.shop = u.shop
      /\ v.sell = Counters(u.sell, u.sell.phase, u.sell.opens, u.sell.index, u.sell.repeat + 1,
                           u.sell.stable)
  BY <1>2, SaleEdits DEF Edited
<1> HIDE DEF v
<1>4. SellsOn(c, y) /\ y.shop = v.shop
      /\ y.sell = Counters(v.sell, v.sell.phase, v.sell.opens, 5, v.sell.repeat, v.sell.stable)
  BY <1>3, SaleEdits DEF Edited
<1> HIDE DEF y
<1>5. SellsOn(c, z) /\ z.shop = y.shop
      /\ z.sell = Counters(y.sell, y.sell.phase, y.sell.opens, y.sell.index, 0, y.sell.stable)
  BY <1>4, SaleEdits DEF Edited
<1> HIDE DEF z
<1>6. v.sell = Counters(sl, 6, 0, 4, sl.repeat + 1, sl.stable)
  BY <1>2, <1>3 DEF Counters
<1>7. z.sell = Counters(sl, 6, 0, 5, 0, sl.stable)
  BY <1>4, <1>5, <1>6 DEF Counters
<1> HIDE DEF sl
<1>8. sl.repeat \in 0 .. (ItemCap + Layers) /\ sl.repeat < ItemCap /\ v.sell.repeat = sl.repeat + 1
      /\ x.shop.active /\ 4 <= x.shop.stage
  BY <1>1, <1>6 DEF SaleOK, Sales, Counters, sl
<1>9. SaleOK(z.sell, z.shop)
  <2>1. z.shop = x.shop
    BY <1>2, <1>3, <1>4, <1>5
  <2> QED BY <1>1, <1>7, <2>1, SellAssumption DEF SaleOK, Sales, Counters
<1>10. ASSUME ~(v.sell.repeat >= n)
       PROVE  SaleOK(v.sell, v.shop)
  <2>1. v.shop = x.shop
    BY <1>2, <1>3
  <2>2. sl.repeat + 1 < ItemCap
    BY <1>8, <1>10, SellAssumption
  <2>3. x.sell.repeat = sl.repeat
    BY DEF sl
  <2> QED BY <1>1, <1>6, <1>8, <2>1, <2>2, <2>3, SellAssumption DEF SaleOK, Sales, Counters
<1>11. Sound(c, z) /\ (~(v.sell.repeat >= n) => Sound(c, v))
  BY <1>3, <1>5, <1>9, <1>10, SellsOnSound, Zenon
<1> QED BY <1>11, Zenon DEF u, v, y, z

\* The item click: counted, or a failure more.
LEMMA ItemSound ==
  ASSUME NEW c, NEW w, Sound(c, w), w.client = "ok", Allows(c, "SellNextBagItem"),
         w.sell.phase = 6, w.sell.index = 4
  PROVE  AllSound(c, SellItem(w))
<1> DEFINE what == "SellNextBagItem"
           results == SellFixedBagSlot(w.shop)
           n == EffectiveClickCount(w.kept.learned)
           counted(x) ==
             LET v == WithRepeat(WithOpens(x, 0), WithOpens(x, 0).sell.repeat + 1)
             IN IF v.sell.repeat >= n THEN WithRepeat(AtIndex(v, 5), 0) ELSE v
           next(x) == IF x.ok THEN counted(x) ELSE CountFailure(x, ItemLimit, GiveUp)
<1>1. w.sell \in Sales /\ w.shop \in Shops /\ SaleOK(w.sell, w.shop)
  BY DEF Sound, SaleOK
<1>2. /\ w.shop.active /\ 4 <= w.shop.stage /\ w.sell.opens < ItemLimit
      /\ w.sell.repeat < ItemCap
      /\ w.sell.repeat <= w.shop.callbacks \/ w.shop.callbacks = ItemCap
  BY <1>1 DEF SaleOK
<1>3. \A r \in results : SaleOK(w.sell, r.shop)
        /\ (r.result # "fail" =>
              w.sell.repeat + 1 <= r.shop.callbacks \/ r.shop.callbacks = ItemCap)
  <2> SUFFICES ASSUME NEW r \in results
               PROVE  SaleOK(w.sell, r.shop)
                 /\ (r.result # "fail" =>
                       w.sell.repeat + 1 <= r.shop.callbacks \/ r.shop.callbacks = ItemCap)
    OBVIOUS
  <2>1. /\ r.shop \in Shops /\ r.shop.active = w.shop.active /\ r.shop.stage = w.shop.stage
        /\ r.shop.callbacks >= w.shop.callbacks
        /\ r.result # "fail" =>
             r.shop.callbacks = ItemCap \/ r.shop.callbacks = w.shop.callbacks + 1
    BY <1>1, ShopAnswers
  <2>2. w.sell.repeat \in Nat /\ w.shop.callbacks \in 0 .. ItemCap
        /\ r.shop.callbacks \in 0 .. ItemCap
    BY <1>1, <2>1 DEF Sales, Shops
  <2>3. r.shop.callbacks = ItemCap \/ w.sell.repeat <= r.shop.callbacks
    BY <1>2, <2>1, <2>2, SellAssumption
  <2>4. SaleOK(w.sell, r.shop)
    BY <1>1, <1>2, <2>1, <2>3 DEF SaleOK
  <2> QED BY <1>2, <2>1, <2>2, <2>4, SellAssumption
<1> HIDE DEF results
<1>4. n \in 1 .. ItemCap
  BY SellAssumption DEF EffectiveClickCount
<1> HIDE DEF n
<1>5. ASSUME NEW x \in SellCall(w, what, results)
      PROVE  Sound(c, next(x))
  <2>1. /\ Sound(c, x) /\ x.sell = w.sell
        /\ x.ok => \E r \in results : r.result # "fail" /\ x.shop = r.shop
    BY <1>3, <1>5, SellCallSound
  <2>2. ASSUME x.ok
        PROVE  Sound(c, counted(x))
    <3>1. x.sell.repeat + 1 <= x.shop.callbacks \/ x.shop.callbacks = ItemCap
      BY <1>3, <2>1, <2>2
    <3> QED BY <1>4, <2>1, <3>1, CountedSound
  <2>3. Sound(c, CountFailure(x, ItemLimit, GiveUp))
    <3>1. x.sell.phase = 6 /\ x.sell.index = 4 /\ x.sell.opens < ItemLimit /\ x.sell.opens \in Nat
          /\ x.sell \in Sales /\ SaleOK(x.sell, x.shop)
      BY <1>1, <1>2, <2>1 DEF Sales, Sound
    <3>2. x.sell.opens + 1 < ItemLimit =>
            SaleOK(Counters(x.sell, x.sell.phase, x.sell.opens + 1, x.sell.index, x.sell.repeat,
                            x.sell.stable), x.shop)
      BY <3>1, SellAssumption DEF SaleOK, Sales, Counters
    <3>3. ItemLimit \in Nat /\ x.sell.opens < OpenLimit
      BY <3>1, SellAssumption
    <3> HIDE DEF next, counted
    <3> QED BY <2>1, <3>1, <3>2, <3>3, FailureSound
  <2> HIDE DEF counted, what
  <2> QED BY <2>2, <2>3, Zenon
<1> DEFINE code(x) ==
             IF x.ok THEN LET v == [x EXCEPT !.sell.opens = 0, !.sell.repeat = @ + 1]
                          IN IF v.sell.repeat >= n
                             THEN [v EXCEPT !.sell.index = 5, !.sell.repeat = 0] ELSE v
             ELSE CountFailure(x, ItemLimit, GiveUp)
<1>6. \A x : code(x) = next(x)
  <2> SUFFICES ASSUME NEW x
               PROVE  code(x) = next(x)
    BY Zenon
  <2> DEFINE a == [x EXCEPT !.sell.opens = 0, !.sell.repeat = @ + 1]
             b == WithRepeat(WithOpens(x, 0), WithOpens(x, 0).sell.repeat + 1)
             after(v) == IF v.sell.repeat >= n THEN [v EXCEPT !.sell.index = 5, !.sell.repeat = 0]
                         ELSE v
  <2>1. a = b
    BY Zenon DEF WithRepeat, WithOpens
  <2>2. code(x) = IF x.ok THEN after(a) ELSE CountFailure(x, ItemLimit, GiveUp)
    BY Zenon
  <2> HIDE DEF a
  <2>3. \A v : after(v) = IF v.sell.repeat >= n THEN WithRepeat(AtIndex(v, 5), 0) ELSE v
    BY Zenon DEF WithRepeat, AtIndex
  <2> HIDE DEF after
  <2>4. counted(x) = after(b)
    BY <2>3, Zenon
  <2> HIDE DEF b, counted
  <2> QED BY <2>1, <2>2, <2>4, Zenon
<1> HIDE DEF next
<1>7. \A x \in SellCall(w, what, results) : Sound(c, code(x))
  <2> HIDE DEF code
  <2> QED BY <1>5, <1>6
<1>8. Sound(c, GiveUp(w))
  BY <1>1, EndsSound, SellsOnSound
<1> HIDE DEF code, what
<1>9. AllSound(c, {code(x) : x \in SellCall(w, what, results)}
                    \cup (IF w.calm THEN {} ELSE {GiveUp(w)}))
  BY <1>7, <1>8, Zenon DEF AllSound
<1> QED BY <1>9, Zenon DEF SellItem, code, what, results, n

\* A window more is closed, or none is left.
LEMMA ClosedSound ==
  ASSUME NEW c, NEW x, Sound(c, x), x.sell.phase = 6, x.sell.index = 5, x.sell.repeat < Layers
  PROVE  /\ Sound(c, Verify(WithOpens(x, 0)))
         /\ Sound(c, WithRepeat(WithOpens(x, 0), WithOpens(x, 0).sell.repeat + 1))
<1> DEFINE u == WithOpens(x, 0)
           v == WithRepeat(u, u.sell.repeat + 1)
<1>1. SellsOn(c, x) /\ x.sell \in Sales /\ SaleOK(x.sell, x.shop) /\ x.shop \in Shops
  <2>1. SellsOn(c, x)
    BY SellsOnSound
  <2> QED BY <2>1 DEF Sound, SaleOK
<1>2. SellsOn(c, u) /\ u.shop = x.shop
      /\ u.sell = Counters(x.sell, 6, 0, 5, x.sell.repeat, x.sell.stable)
  BY <1>1, SaleEdits DEF Edited
<1> HIDE DEF u
<1>3. SellsOn(c, v) /\ v.shop = u.shop
      /\ v.sell = Counters(u.sell, u.sell.phase, u.sell.opens, u.sell.index, u.sell.repeat + 1,
                           u.sell.stable)
  BY <1>2, SaleEdits DEF Edited
<1> HIDE DEF v
<1>4. v.sell = Counters(x.sell, 6, 0, 5, x.sell.repeat + 1, x.sell.stable)
  BY <1>2, <1>3 DEF Counters
<1>5. x.sell.repeat \in 0 .. (ItemCap + Layers)
  BY <1>1 DEF Sales
<1>6. u.sell \in Sales /\ u.shop \in Shops
  BY <1>1, <1>2, <1>5, SellAssumption DEF Counters, Sales
<1>7. Sound(c, Verify(u))
  BY <1>2, <1>6, EndsSound
<1>8. SaleOK(v.sell, v.shop)
  BY <1>1, <1>2, <1>3, <1>4, <1>5, SellAssumption DEF Counters, Sales, SaleOK
<1>9. Sound(c, v)
  BY <1>3, <1>8, SellsOnSound, Zenon
<1> QED BY <1>7, <1>9 DEF u, v

\* The windows are closed, and the bag is verified in the end.
LEMMA CloseSound ==
  ASSUME NEW c, NEW w, Sound(c, w), w.client = "ok", Allows(c, "CloseBackgroundSell"),
         w.sell.phase = 6, w.sell.index = 5
  PROVE  AllSound(c, CloseShop(w))
<1> DEFINE what == "CloseBackgroundSell"
           results == CloseBackgroundSell(w.shop)
           code(x) ==
             IF x.ok THEN IF x.closed THEN Verify([x EXCEPT !.sell.opens = 0])
                          ELSE [x EXCEPT !.sell.opens = 0, !.sell.repeat = @ + 1]
             ELSE CountFailure(x, CloseLimit, Verify)
           next(x) ==
             IF x.ok THEN IF x.closed THEN Verify(WithOpens(x, 0))
                          ELSE WithRepeat(WithOpens(x, 0), WithOpens(x, 0).sell.repeat + 1)
             ELSE CountFailure(x, CloseLimit, Verify)
<1>1. w.sell \in Sales /\ w.shop \in Shops /\ SaleOK(w.sell, w.shop)
  BY DEF Sound, SaleOK
<1>2. w.sell.opens < CloseLimit /\ w.sell.repeat <= Layers /\ w.sell.opens \in Nat
  BY <1>1 DEF SaleOK, Sales
<1>3. \A r \in results : SaleOK(w.sell, r.shop)
  <2>1. \A r \in results : r.shop \in Shops
    BY <1>1, ShopAnswers
  <2> HIDE DEF results
  <2> QED BY <1>1, <2>1 DEF SaleOK
<1> HIDE DEF results
<1>4. \A x : code(x) = next(x)
  <2> HIDE DEF Verify
  <2> QED BY Zenon DEF WithRepeat, WithOpens
<1> HIDE DEF code
<1>5. ASSUME NEW x \in SellCall(w, what, results), w.sell.repeat < Layers
      PROVE  Sound(c, next(x))
  <2>1. Sound(c, x) /\ x.sell = w.sell
    BY <1>3, <1>5, SellCallSound
  <2>2. /\ Sound(c, Verify(WithOpens(x, 0)))
        /\ Sound(c, WithRepeat(WithOpens(x, 0), WithOpens(x, 0).sell.repeat + 1))
    BY <1>5, <2>1, ClosedSound
  <2>3. Sound(c, CountFailure(x, CloseLimit, Verify))
    <3>1. x.sell.phase = 6 /\ x.sell.index = 5 /\ x.sell.opens < CloseLimit
          /\ x.sell.opens \in Nat /\ x.sell \in Sales /\ SaleOK(x.sell, x.shop)
      BY <1>1, <1>2, <2>1 DEF Sound
    <3>2. x.sell.opens + 1 < CloseLimit =>
            SaleOK(Counters(x.sell, x.sell.phase, x.sell.opens + 1, x.sell.index, x.sell.repeat,
                            x.sell.stable), x.shop)
      BY <3>1, SellAssumption DEF SaleOK, Sales, Counters
    <3>3. CloseLimit \in Nat /\ x.sell.opens < OpenLimit
      BY <3>1, SellAssumption
    <3> HIDE DEF next
    <3> QED BY <2>1, <3>1, <3>2, <3>3, FailureSound
  <2> QED BY <2>2, <2>3, Zenon
<1> HIDE DEF next, what
<1>6. w.sell.repeat < Layers => AllSound(c, {code(x) : x \in SellCall(w, what, results)})
  <2>1. w.sell.repeat < Layers => \A x \in SellCall(w, what, results) : Sound(c, code(x))
    BY <1>4, <1>5
  <2> QED BY <2>1, Zenon DEF AllSound
<1>7. AllSound(c, {Verify(w)})
  <2>1. Sound(c, Verify(w))
    BY <1>1, EndsSound, SellsOnSound
  <2> QED BY <2>1, Zenon DEF AllSound
<1>8. w.sell.repeat < Layers \/ w.sell.repeat >= Layers
  BY <1>1, SellAssumption DEF Sales
<1>9. AllSound(c, IF w.sell.repeat >= Layers THEN {Verify(w)}
                  ELSE {code(x) : x \in SellCall(w, what, results)})
  BY <1>6, <1>7, <1>8, Zenon
<1> QED BY <1>9, Zenon DEF CloseShop, code, what, results

\* The next window is open: the cursor follows the stage.
LEMMA OpenedSound ==
  ASSUME NEW c, NEW x, Sound(c, x), x.sell.phase = 6, x.sell.index < 4, x.shop.active
  PROVE  Sound(c, AtIndex(WithOpens(x, 0), x.shop.stage))
<1> DEFINE u == WithOpens(x, 0)
           v == AtIndex(u, x.shop.stage)
<1>1. SellsOn(c, x) /\ x.sell \in Sales /\ SaleOK(x.sell, x.shop) /\ x.shop \in Shops
  <2>1. SellsOn(c, x)
    BY SellsOnSound
  <2> QED BY <2>1 DEF Sound, SaleOK
<1>2. SellsOn(c, u) /\ u.shop = x.shop
      /\ u.sell = Counters(x.sell, 6, 0, x.sell.index, x.sell.repeat, x.sell.stable)
  BY <1>1, SaleEdits DEF Edited
<1> HIDE DEF u
<1>3. SellsOn(c, v) /\ v.shop = u.shop
      /\ v.sell = Counters(u.sell, u.sell.phase, u.sell.opens, x.shop.stage, u.sell.repeat,
                           u.sell.stable)
  BY <1>2, SaleEdits DEF Edited
<1> HIDE DEF v
<1>4. x.sell.repeat = 0
  BY <1>1 DEF SaleOK
<1>5. v.sell = Counters(x.sell, 6, 0, x.shop.stage, 0, x.sell.stable)
  BY <1>2, <1>3, <1>4 DEF Counters
<1>6. x.shop.stage \in 0 .. 4 /\ x.shop.callbacks \in 0 .. ItemCap
  BY <1>1 DEF Shops
<1>7. SaleOK(v.sell, v.shop)
  BY <1>1, <1>2, <1>3, <1>5, <1>6, SellAssumption DEF Counters, Sales, SaleOK
<1>8. Sound(c, v)
  BY <1>3, <1>7, SellsOnSound, Zenon
<1> QED BY <1>8 DEF u, v

\* The windows open, or a failure more.
LEMMA OpenSound ==
  ASSUME NEW c, NEW w, Sound(c, w), w.client = "ok", Allows(c, "AdvanceBackgroundSell"),
         w.sell.phase = 6, w.sell.index < 4
  PROVE  AllSound(c, OpenShop(w))
<1> DEFINE what == "AdvanceBackgroundSell"
           results == AdvanceBackgroundSell(w.shop)
           code(x) == IF x.ok THEN [x EXCEPT !.sell.opens = 0, !.sell.index = x.shop.stage]
                      ELSE CountFailure(x, OpenLimit, GiveUp)
           next(x) == IF x.ok THEN AtIndex(WithOpens(x, 0), x.shop.stage)
                      ELSE CountFailure(x, OpenLimit, GiveUp)
<1>1. w.sell \in Sales /\ w.shop \in Shops /\ SaleOK(w.sell, w.shop)
  BY DEF Sound, SaleOK
<1>2. w.sell.opens < OpenLimit /\ w.sell.opens \in Nat /\ w.shop.active
      /\ w.sell.index <= w.shop.stage /\ w.sell.repeat = 0 /\ w.sell.index \in Nat
      /\ w.shop.stage \in Nat
  BY <1>1 DEF SaleOK, Sales, Shops
<1>3. \A r \in results : SaleOK(w.sell, r.shop) /\ r.shop.active
  <2>1. \A r \in results : r.shop \in Shops /\ r.shop.active /\ r.shop.stage >= w.shop.stage
    BY <1>1, <1>2, ShopAnswers
  <2>2. \A r \in results : r.shop.stage \in Nat
    BY <2>1 DEF Shops
  <2>3. \A r \in results : w.sell.index <= r.shop.stage
    BY <1>2, <2>1, <2>2
  <2> HIDE DEF results
  <2> QED BY <1>1, <2>1, <2>3 DEF SaleOK
<1> HIDE DEF results
<1>4. \A x : code(x) = next(x)
  BY Zenon DEF AtIndex, WithOpens
<1> HIDE DEF code
<1>5. ASSUME NEW x \in SellCall(w, what, results)
      PROVE  Sound(c, next(x))
  <2>1. /\ Sound(c, x) /\ x.sell = w.sell
        /\ x.ok => x.shop.active
    BY <1>3, <1>5, SellCallSound
  <2>2. x.ok => Sound(c, AtIndex(WithOpens(x, 0), x.shop.stage))
    BY <2>1, OpenedSound
  <2>3. Sound(c, CountFailure(x, OpenLimit, GiveUp))
    <3>1. x.sell.phase = 6 /\ x.sell.index < 4 /\ x.sell.opens < OpenLimit
          /\ x.sell.opens \in Nat /\ x.sell \in Sales /\ SaleOK(x.sell, x.shop)
          /\ x.sell.index \in Nat
      BY <1>1, <1>2, <2>1 DEF Sound
    <3>2. x.sell.opens + 1 < OpenLimit =>
            SaleOK(Counters(x.sell, x.sell.phase, x.sell.opens + 1, x.sell.index, x.sell.repeat,
                            x.sell.stable), x.shop)
      BY <3>1, SellAssumption DEF SaleOK, Sales, Counters
    <3>3. OpenLimit \in Nat
      BY SellAssumption
    <3> HIDE DEF next
    <3> QED BY <2>1, <3>1, <3>2, <3>3, FailureSound
  <2> QED BY <2>2, <2>3, Zenon
<1> HIDE DEF next, what
<1>6. \A x \in SellCall(w, what, results) : Sound(c, code(x))
  BY <1>4, <1>5
<1>7. AllSound(c, {code(x) : x \in SellCall(w, what, results)})
  BY <1>6, Zenon DEF AllSound
<1> QED BY <1>7, Zenon DEF OpenShop, code, what, results

----------------------------------------------------------------------------
(* The sale: its phases *)

SellCalls ==
  {"BeginBackgroundSell", "AdvanceBackgroundSell", "SellNextBagItem", "CloseBackgroundSell"}

\* A route may be known to be nowhere.
MayDisarm(c) == \A r \in c.routes : Way(r, FALSE, FALSE, FALSE, r.map) \in c.routes

\* The courses on which an account may sell.
Sells(c) ==
  Roads(c) /\ MayDisarm(c) /\ LivesOn(c) /\ \A what \in SellCalls : Allows(c, what)

\* The macro, from window to window.
LEMMA MacroSound ==
  ASSUME NEW c, NEW w, Sound(c, w), w.client = "ok", Sells(c), w.sell.phase = 6
  PROVE  AllSound(c, RunSellMacroClick(w))
<1>1. w.sell.index \in 0 .. 5
  BY DEF Sound, SaleOK, Sales
<1>2. \A what \in SellCalls : Allows(c, what)
  BY DEF Sells
<1>3. w.sell.index < 4 => AllSound(c, OpenShop(w))
  BY <1>2, OpenSound DEF SellCalls
<1>4. w.sell.index = 4 => AllSound(c, SellItem(w))
  BY <1>2, ItemSound DEF SellCalls
<1>5. w.sell.index = 5 => AllSound(c, CloseShop(w))
  BY <1>2, CloseSound DEF SellCalls
<1> DEFINE due == IF w.sell.index < 4 THEN OpenShop(w)
                  ELSE IF w.sell.index = 4 THEN SellItem(w) ELSE CloseShop(w)
<1>6. AllSound(c, due)
  BY <1>1, <1>3, <1>4, <1>5
<1> HIDE DEF due
<1>7. AllSound(c, WhenDue(w, due, {w}))
  BY <1>6, Zenon DEF AllSound, WhenDue
<1> QED BY <1>7, Zenon DEF RunSellMacroClick, due

\* A sale at its first window, or before it.
Begun(p, o, n, t) ==
  [phase |-> p, opens |-> o, index |-> 0, repeat |-> 0, pass |-> n, stable |-> t]

\* A session begins a pass of the sale.
LEMMA SessionSound ==
  ASSUME NEW c, NEW w, Sound(c, w), w.client = "ok", Sells(c), w.sell.phase = 5
  PROVE  AllSound(c, OpenSession(w))
<1> DEFINE what == "BeginBackgroundSell"
           results == BeginBackgroundSell(w.shop)
           y == [NoSale EXCEPT !.phase = 6, !.pass = w.sell.pass + 1,
                               !.opens = w.sell.opens + 1, !.stable = w.sell.stable]
           code(x) == IF x.ok THEN [x EXCEPT !.sell = y] ELSE CountFailure(x, 2, GiveUp)
<1>1. w.sell \in Sales /\ w.shop \in Shops /\ SaleOK(w.sell, w.shop)
  BY DEF Sound, SaleOK
<1>2. w.sell.pass \in 0 .. 1 /\ w.sell.opens \in 0 .. 1 /\ w.sell.stable \in BOOLEAN
  BY <1>1 DEF SaleOK, Sales
<1>3. \A r \in results : SaleOK(w.sell, r.shop) /\ (r.result # "fail" => r.shop.active)
  <2>1. \A r \in results : r.shop \in Shops /\ (r.result # "fail" => r.shop.active)
    BY <1>1, ShopAnswers
  <2> HIDE DEF results
  <2> QED BY <1>1, <2>1 DEF SaleOK
<1> HIDE DEF results
<1>4. y = [phase |-> 6, opens |-> w.sell.opens + 1, index |-> 0, repeat |-> 0,
           pass |-> w.sell.pass + 1, stable |-> w.sell.stable]
  <2> DEFINE z0 == NoSale
             z1 == [z0 EXCEPT !.phase = 6]
             z2 == [z1 EXCEPT !.pass = w.sell.pass + 1]
             z3 == [z2 EXCEPT !.opens = w.sell.opens + 1]
             z4 == [z3 EXCEPT !.stable = w.sell.stable]
  <2>2. PICK f : z0 = Begun(0, 0, 0, f)
    BY Zenon DEF NoSale, Begun
  <2> HIDE DEF z0
  <2>3. z1 = Begun(6, 0, 0, f)
    BY <2>2 DEF Begun
  <2> HIDE DEF z1
  <2>4. z2 = Begun(6, 0, w.sell.pass + 1, f)
    BY <2>3 DEF Begun
  <2> HIDE DEF z2
  <2>5. z3 = Begun(6, w.sell.opens + 1, w.sell.pass + 1, f)
    BY <2>4 DEF Begun
  <2> HIDE DEF z3
  <2>6. z4 = Begun(6, w.sell.opens + 1, w.sell.pass + 1, w.sell.stable)
    BY <2>5 DEF Begun
  <2> QED BY <2>6, Zenon DEF z4, z3, z2, z1, z0, Begun
<1> HIDE DEF y
<1>5. \A sh \in Shops : sh.active => SaleOK(y, sh)
  <2>1. \A sh \in Shops : sh.stage \in 0 .. 4 /\ sh.callbacks \in 0 .. ItemCap
    BY DEF Shops
  <2> QED BY <1>2, <1>4, <2>1, SellAssumption DEF SaleOK, Sales
<1>6. ASSUME NEW x \in SellCall(w, what, results)
      PROVE  Sound(c, code(x))
  <2>1. Allows(c, what)
    BY Zenon DEF Sells, SellCalls
  <2>2. Sound(c, x) /\ x.sell = w.sell /\ (x.ok => x.shop.active)
    BY <1>3, <1>6, <2>1, SellCallSound
  <2>3. SellsOn(c, x) /\ x.shop \in Shops
    <3>1. SellsOn(c, x)
      BY <2>2, SellsOnSound
    <3> QED BY <2>2, <3>1 DEF Sound, SaleOK
  <2>4. x.ok => Sound(c, [x EXCEPT !.sell = y])
    BY <1>5, <2>2, <2>3 DEF SellsOn
  <2>5. Sound(c, CountFailure(x, 2, GiveUp))
    <3>1. x.sell.opens + 1 < 2 =>
            SaleOK(Counters(x.sell, x.sell.phase, x.sell.opens + 1, x.sell.index, x.sell.repeat,
                            x.sell.stable), x.shop)
      BY <1>1, <1>2, <2>2, <2>3, SellAssumption DEF SaleOK, Sales, Counters
    <3>2. 2 \in Nat /\ x.sell.opens < OpenLimit /\ x.sell.phase = 5
      BY <1>2, <2>2, SellAssumption
    <3> HIDE DEF code
    <3> QED BY <2>2, <3>1, <3>2, FailureSound
  <2> QED BY <2>4, <2>5, Zenon
<1> HIDE DEF code, what
<1>7. AllSound(c, {code(x) : x \in SellCall(w, what, results)})
  BY <1>6, Zenon DEF AllSound
<1> QED BY <1>7, Zenon DEF OpenSession, code, what, results, y

\* The route and the bag after a sale.
Disarmed(w) == [w EXCEPT !.route.armed = FALSE, !.route.moved = FALSE, !.route.seen = FALSE]

LEMMA DisarmedOn ==
  ASSUME NEW c, Typed(c), MayDisarm(c), NEW j, NEW w, On(c, j, w)
  PROVE  On(c, j, Disarmed(w))
<1> DEFINE r == w.route
<1>1. IsRecord(w) /\ r \in c.routes /\ r \in Routes
  BY DEF On, Typed
<1>2. Way(r, FALSE, FALSE, FALSE, r.map) \in c.routes
  BY <1>1, Zenon DEF MayDisarm
<1>3. Disarmed(w) = [w EXCEPT !.route = [r EXCEPT !.armed = FALSE, !.moved = FALSE, !.seen = FALSE]]
  <2>1. IsRecord(w)
    BY <1>1
  <2>2. \A x, y, z : [w EXCEPT !.route.armed = x, !.route.moved = y, !.route.seen = z]
          = [w EXCEPT !.route = [w.route EXCEPT !.armed = x, !.moved = y, !.seen = z]]
    BY <2>1, RouteTogether, Zenon
  <2> QED BY <2>2, Zenon DEF Disarmed
<1> HIDE DEF r
<1>4. [r EXCEPT !.armed = FALSE, !.moved = FALSE, !.seen = FALSE]
        = Way(r, FALSE, FALSE, FALSE, r.map)
  <2>1. r \in Routes
    BY <1>1
  <2>2. ASSUME NEW x, NEW y, NEW z
        PROVE  [r EXCEPT !.armed = x, !.moved = y, !.seen = z] = Way(r, x, y, z, r.map)
    <3> DEFINE a == [r EXCEPT !.armed = x]
               b == [a EXCEPT !.moved = y]
               d == [b EXCEPT !.seen = z]
    <3>1. a = Way(r, x, r.moved, r.seen, r.map)
      BY <2>1 DEF Routes, Way
    <3> HIDE DEF a
    <3>2. b = Way(r, x, y, r.seen, r.map)
      BY <3>1 DEF Way
    <3> HIDE DEF b
    <3>3. d = Way(r, x, y, z, r.map)
      BY <3>2 DEF Way
    <3> QED BY <3>3, Zenon DEF d, b, a
  <2> QED BY <2>2, Zenon
<1>5. \A x \in c.routes : On(c, j, [w EXCEPT !.route = x])
  BY WritesOn
<1> QED BY <1>2, <1>3, <1>4, <1>5, Zenon

\* The free space of the bag after a sale.
LEMMA LearnedOn ==
  ASSUME NEW c, Typed(c), LivesOn(c), NEW j, NEW w, On(c, j, w), NEW n \in Nat
  PROVE  On(c, j, [w EXCEPT !.kept.learned = n])
<1> DEFINE k == w.kept
<1>1. IsRecord(w) /\ k \in c.kepts /\ k \in Kepts
  BY DEF On, Typed
<1>2. [latched |-> k.latched, deaths |-> k.deaths, learned |-> n] \in c.kepts
  BY <1>1, Zenon DEF LivesOn
<1>3. [w EXCEPT !.kept.learned = n] = [w EXCEPT !.kept = [k EXCEPT !.learned = n]]
  BY Zenon
<1> HIDE DEF k
<1>4. [k EXCEPT !.learned = n] = [latched |-> k.latched, deaths |-> k.deaths, learned |-> n]
  BY <1>1 DEF Kepts
<1>5. \A x \in c.kepts : On(c, j, [w EXCEPT !.kept = x])
  BY WritesOn
<1> QED BY <1>2, <1>3, <1>4, <1>5, Zenon

\* Phases that ask nothing of the counters.
LEMMA PhaseSound ==
  ASSUME NEW c, NEW w, Sound(c, w), w.sell.phase # 0,
         w.mount = IdleMount \/ w.sell.phase \notin {4, 8}, NEW p \in {0, 7, 8, 10}
  PROVE  Sound(c, InPhase(w, p)) /\ InPhase(w, p).sell.phase = p
<1>1. SellsOn(c, w) /\ w.sell \in Sales /\ w.shop \in Shops
  <2>1. SellsOn(c, w)
    BY SellsOnSound
  <2> QED BY <2>1 DEF Sound, SaleOK
<1> DEFINE v == InPhase(w, p)
<1>2. SellsOn(c, v) /\ v.shop = w.shop
      /\ v.sell = Counters(w.sell, p, w.sell.opens, w.sell.index, w.sell.repeat, w.sell.stable)
  BY <1>1, SaleEdits DEF Edited
<1> HIDE DEF v
<1>3. /\ w.sell.opens \in 0 .. OpenLimit /\ w.sell.index \in 0 .. 5
      /\ w.sell.repeat \in 0 .. (ItemCap + Layers) /\ w.sell.stable \in BOOLEAN
  BY <1>1 DEF Sales
<1>4. SaleOK(v.sell, v.shop) /\ v.sell.phase = p
  <2>1. v.sell.phase = p
    BY <1>2 DEF Counters
  <2>2. \A sh \in Shops : SaleOK(Counters(w.sell, p, w.sell.opens, w.sell.index, w.sell.repeat,
                                        w.sell.stable), sh)
    BY <1>1, <1>3, CountersIn
  <2> QED BY <1>1, <1>2, <2>1, <2>2
<1>5. Sound(c, v)
  BY <1>2, <1>4, SellsOnSound, Zenon
<1> QED BY <1>4, <1>5 DEF v

\* The travel begins anew, whatever the trip.
LEMMA ResetSound ==
  ASSUME NEW c, Guarded(c), NEW w, Sound(c, w)
  PROVE  /\ Sound(c, ResetRobustTravel(w)) /\ Sound(c, ResetTravelFightGuard(w))
         /\ ResetRobustTravel(w).sell = w.sell /\ ResetRobustTravel(w).mount = IdleMount
         /\ ResetRobustTravel(w).shop = w.shop /\ ResetRobustTravel(w).train = w.train
         /\ ResetRobustTravel(w).client = w.client
<1>1. On(c, TripOf(w), w) /\ Typed(c) /\ GuardSteps(c)
  BY DEF Sound, Guarded
<1>2. On(c, TripOf(w), ResetTravelFightGuard(w)) /\ On(c, TripOf(w), ResetRobustTravel(w))
  BY <1>1, ResetOn
<1>3. Sound(c, ResetRobustTravel(w)) /\ Sound(c, ResetTravelFightGuard(w))
  BY <1>2, OnIsSound, Zenon
<1>4. \A x : /\ [w EXCEPT !.mount = x].sell = w.sell /\ [w EXCEPT !.mount = x].shop = w.shop
             /\ [w EXCEPT !.mount = x].train = w.train /\ [w EXCEPT !.mount = x].mount = x
             /\ [w EXCEPT !.mount = x].client = w.client
  BY <1>1 DEF On, IsRecord
<1> QED BY <1>3, <1>4, Zenon DEF ResetRobustTravel

\* The bag is verified: back to the spot, another pass, or the end of the sale.
LEMMA VerifySound ==
  ASSUME NEW c, NEW w, Sound(c, w), Sells(c), w.sell.phase = 7, NEW s, s.bag \in {None} \cup Nat
  PROVE  AllSound(c, VerifyBag(w, s))
<1> DEFINE back == [ResetRobustTravel(w) EXCEPT
                      !.kept.learned = s.bag, !.sell.phase = 8,
                      !.route.armed = FALSE, !.route.moved = FALSE, !.route.seen = FALSE]
           full == IF w.sell.pass < 2 THEN [w EXCEPT !.sell.phase = 5, !.sell.opens = 0]
                   ELSE GiveUp(w)
           stable == [w EXCEPT !.sell.stable = TRUE]
<1>1. w.sell \in Sales /\ w.shop \in Shops /\ SellsOn(c, w) /\ Guarded(c) /\ Typed(c)
      /\ MayDisarm(c) /\ LivesOn(c)
  <2>1. SellsOn(c, w)
    BY SellsOnSound
  <2> QED BY <2>1 DEF Sound, SaleOK, Sells, Roads, Guarded
<1>2. s.bag # None => Sound(c, back)
  <2> SUFFICES ASSUME s.bag \in Nat
               PROVE  Sound(c, back)
    BY DEF SellAssumption
  <2> DEFINE u == ResetRobustTravel(w)
             v == [u EXCEPT !.kept.learned = s.bag]
             y == InPhase(v, 8)
             z == Disarmed(y)
  <2>1. Sound(c, u) /\ u.sell = w.sell
    BY <1>1, ResetSound
  <2> HIDE DEF u
  <2>2. On(c, TripOf(u), v)
    BY <1>1, <2>1, LearnedOn DEF Sound
  <2>3. Sound(c, v) /\ v.sell = w.sell
    <3>1. Sound(c, v)
      BY <2>1, <2>2, OnIsSound, Zenon
    <3> QED BY <2>1, <2>2, <3>1, Zenon DEF On, TripOf
  <2> HIDE DEF v
  <2>4. Sound(c, y)
    BY <2>3, PhaseSound
  <2> HIDE DEF y
  <2>5. On(c, TripOf(y), z)
    BY <1>1, <2>4, DisarmedOn DEF Sound
  <2>6. Sound(c, z)
    BY <2>4, <2>5, OnIsSound, Zenon
  <2> QED BY <2>6, Zenon DEF z, y, v, u, Disarmed, InPhase
<1>3. Sound(c, full)
  <2>1. CASE w.sell.pass < 2
    <3> DEFINE u == InPhase(w, 5)
               v == WithOpens(u, 0)
    <3>1. SellsOn(c, u) /\ u.shop = w.shop
          /\ u.sell = Counters(w.sell, 5, w.sell.opens, w.sell.index, w.sell.repeat, w.sell.stable)
      BY <1>1, SaleEdits DEF Edited
    <3> HIDE DEF u
    <3>2. SellsOn(c, v) /\ v.shop = u.shop
          /\ v.sell = Counters(u.sell, u.sell.phase, 0, u.sell.index, u.sell.repeat, u.sell.stable)
      BY <3>1, SaleEdits DEF Edited
    <3> HIDE DEF v
    <3>3. v.sell = Counters(w.sell, 5, 0, w.sell.index, w.sell.repeat, w.sell.stable)
      BY <3>1, <3>2 DEF Counters
    <3>4. SaleOK(v.sell, v.shop)
      BY <1>1, <2>1, <3>1, <3>2, <3>3, SellAssumption DEF Counters, Sales, SaleOK
    <3>5. Sound(c, v)
      BY <3>2, <3>4, SellsOnSound, Zenon
    <3> QED BY <2>1, <3>5, Zenon DEF v, u, InPhase, WithOpens
  <2>2. CASE ~(w.sell.pass < 2)
    <3>1. Sound(c, GiveUp(w))
      BY <1>1, EndsSound
    <3> QED BY <2>2, <3>1, Zenon
  <2> QED BY <2>1, <2>2
<1>4. Sound(c, stable)
  <2>1. \A x : Edited(c, w, WithStable(w, x), Counters(w.sell, w.sell.phase, w.sell.opens,
                                                      w.sell.index, w.sell.repeat, x))
    BY <1>1, SaleEdits
  <2>2. \A x \in BOOLEAN : SaleOK(Counters(w.sell, w.sell.phase, w.sell.opens,
                                           w.sell.index, w.sell.repeat, x), w.shop)
    BY <1>1, SellAssumption DEF Counters, Sales, SaleOK
  <2>3. \A x \in BOOLEAN : Sound(c, WithStable(w, x))
    BY <2>1, <2>2, SellsOnSound DEF Edited
  <2> QED BY <2>3, Zenon DEF WithStable
<1> HIDE DEF back, full, stable
<1>5. AllSound(c, IF s.bag = None THEN {w}
                  ELSE IF s.bag = 0 THEN WhenDue(w, {full}, {w})
                  ELSE IF ~w.sell.stable THEN {stable} ELSE WhenDue(w, {back}, {w}))
  BY <1>2, <1>3, <1>4, Zenon DEF AllSound, WhenDue
<1> QED BY <1>5, Zenon DEF VerifyBag, back, full, stable

\* The way of a sale: the arrival at the spot ends it and lets the tick go on.
LEMMA SaleTravelSound ==
  ASSUME NEW c, NEW w, Sound(c, w), Sells(c), w.sell.phase \in {4, 8}, NEW s,
         NEW v \in TravelOfSale(w, s)
  PROVE  Sound(c, v) /\ (v.done \/ v.sell.phase = 0)
<1> DEFINE toNpc == w.sell.phase = 4
           home == [IdleTrain EXCEPT !.back = w.train.back]
           atNpc(x)  == [x EXCEPT !.sell.phase = 5, !.done = TRUE]
           atSpot(x) == [x EXCEPT !.sell.phase = 0, !.train = home]
           dest == IF toNpc THEN "npc" ELSE "spot"
           end(x) == IF ~x.ok THEN [x EXCEPT !.done = TRUE]
                     ELSE IF toNpc THEN atNpc(x) ELSE atSpot(x)
<1>1. PICK x \in HandleRobustTravel(w, s, dest) : v = end(x)
  <2>1. v \in {end(x) : x \in HandleRobustTravel(w, s, dest)}
    BY Zenon DEF TravelOfSale
  <2> HIDE DEF end, dest
  <2> QED BY <2>1
<1>2. On(c, TripOf(w), x) /\ (x.ok => x.mount = IdleMount)
  <2>1. On(c, TripOf(w), w) /\ Travels(TripOf(w)) /\ Roads(c)
    BY DEF Sound, Travels, TripOf, Sells
  <2> HIDE DEF dest
  <2> QED BY <1>1, <2>1, TravelOn DEF AllOn
<1>3. Sound(c, x) /\ IsRecord(x) /\ x.sell = w.sell /\ x.train.back = w.train.back
  <2>1. Sound(c, x)
    BY <1>2, OnIsSound, Zenon
  <2> QED BY <1>2, <2>1, Zenon DEF On, TripOf
<1>4. \A y : Sound(c, y) => Sound(c, [y EXCEPT !.done = TRUE])
  BY SoundWrites, Zenon
<1>5. \A y : IsRecord(y) => [y EXCEPT !.done = TRUE].done
  <2>1. \A y, z : IsRecord(y) => [y EXCEPT !.done = z].done = z
    BY DEF IsRecord
  <2> QED BY <2>1, Zenon
<1>6. CASE ~x.ok
  BY <1>1, <1>3, <1>4, <1>5, <1>6, Zenon
<1>7. CASE x.ok /\ toNpc
  <2> DEFINE y == InPhase(x, 5)
  <2>1. SellsOn(c, x) /\ x.sell \in Sales /\ x.shop \in Shops /\ SaleOK(x.sell, x.shop)
    <3>1. SellsOn(c, x)
      BY <1>2, <1>3, <1>7, SellsOnSound
    <3> QED BY <1>3, <3>1 DEF Sound, SaleOK
  <2>2. SellsOn(c, y) /\ y.shop = x.shop
        /\ y.sell = Counters(x.sell, 5, x.sell.opens, x.sell.index, x.sell.repeat, x.sell.stable)
    BY <2>1, SaleEdits DEF Edited
  <2> HIDE DEF y
  <2>3. SaleOK(y.sell, y.shop)
    BY <1>3, <1>7, <2>1, <2>2, SellAssumption DEF SaleOK, Counters, Sales
  <2>4. Sound(c, y) /\ IsRecord(y)
    BY <2>2, <2>3, SellsOnSound, Zenon DEF SellsOn
  <2>5. v = [y EXCEPT !.done = TRUE]
    BY <1>1, <1>7, Zenon DEF y, InPhase
  <2> QED BY <1>4, <1>5, <2>4, <2>5, Zenon
<1>8. CASE x.ok /\ ~toNpc
  <2> DEFINE y == InPhase(x, 0)
  <2>1. Sound(c, y) /\ y.sell.phase = 0
    BY <1>2, <1>3, <1>8, PhaseSound
  <2>2. y.mount = IdleMount
    <3>1. \A z : [x EXCEPT !.sell = z].mount = x.mount
      BY <1>3 DEF IsRecord
    <3> QED BY <1>2, <1>8, <3>1, Zenon DEF InPhase
  <2>3. v = [y EXCEPT !.train = home]
    BY <1>1, <1>8, Zenon DEF InPhase
  <2>4. home \in Trains /\ ~home.monitor
    <3>1. w.train.back \in BOOLEAN
      BY DEF Sound, On, Trains
    <3>2. \A t \in Trains : \A b \in BOOLEAN :
            [t EXCEPT !.back = b] \in Trains /\ [t EXCEPT !.back = b].monitor = t.monitor
      BY DEF Trains
    <3>3. IdleTrain \in Trains /\ ~IdleTrain.monitor
      BY DEF IdleTrain, Trains
    <3> QED BY <3>1, <3>2, <3>3, Zenon
  <2> HIDE DEF y, home
  <2>5. Sound(c, v)
    BY <2>1, <2>2, <2>3, <2>4, SoundWrites
  <2>6. v.sell = y.sell
    <3>1. IsRecord(y)
      BY <2>1 DEF Sound, On
    <3> QED BY <2>3, <3>1 DEF IsRecord
  <2> QED BY <2>1, <2>5, <2>6
<1> QED BY <1>6, <1>7, <1>8

\* A sale, whatever its phase; who does not own the tick has no sale.
LEMMA SaleSound ==
  ASSUME NEW c, NEW w, Sound(c, w), Sells(c), w.client = "ok" \/ w.sell.phase = 4,
         NEW s, s.bag \in {None} \cup Nat, NEW x \in HandleAutoSell(w, s)
  PROVE  Sound(c, x) /\ (x.done \/ x.sell.phase = 0)
<1> DEFINE phase == w.sell.phase
           emptied == IF s.bag \in {None, 0} THEN w
                      ELSE [ResetRobustTravel(w) EXCEPT !.sell.phase = 8]
<1>1. phase \in {0} \cup 4 .. 8 \cup {10} /\ Guarded(c)
  BY DEF Sound, SaleOK, Sales, Sells, Roads
<1>2. ASSUME NEW ws, AllSound(c, ws), x \in Handle(ws)
      PROVE  Sound(c, x) /\ x.done
  <2>1. PICK y \in ws : x = [y EXCEPT !.done = TRUE]
    BY <1>2, Zenon DEF Handle
  <2>2. Sound(c, y) /\ IsRecord(y)
    BY <1>2, <2>1, Zenon DEF AllSound, Sound, On
  <2>3. \A z : [y EXCEPT !.done = z].done = z
    BY <2>2 DEF IsRecord
  <2>4. \A z : Sound(c, [y EXCEPT !.done = z])
    BY <2>2, SoundWrites, Zenon
  <2> QED BY <2>1, <2>3, <2>4, Zenon
<1>3. ASSUME NEW y, Sound(c, y), x \in Handled(y)
      PROVE  Sound(c, x) /\ x.done
  <2>1. AllSound(c, {y})
    BY <1>3, Zenon DEF AllSound
  <2>2. x \in Handle({y})
    BY <1>3, Zenon DEF Handled, Handle
  <2> QED BY <1>2, <2>1, <2>2, Zenon
<1>4. \A due : AllSound(c, due) => AllSound(c, WhenDue(w, due, {w}))
  BY Zenon DEF AllSound, WhenDue
<1>5. CASE phase = 0
  <2>1. x \in {w}
    BY <1>5 DEF HandleAutoSell
  <2> QED BY <1>5, <2>1
<1>6. CASE phase \in {4, 8}
  <2>1. x \in TravelOfSale(w, s)
    BY <1>6 DEF HandleAutoSell
  <2> QED BY <1>6, <2>1, SaleTravelSound
<1>7. CASE phase = 5
  <2>1. x \in Handle(WhenDue(w, OpenSession(w), {w}))
    BY <1>7 DEF HandleAutoSell
  <2>2. AllSound(c, OpenSession(w))
    BY <1>7, SessionSound
  <2> QED BY <1>2, <1>4, <2>1, <2>2, Zenon
<1>8. CASE phase = 6
  <2>1. x \in Handle(RunSellMacroClick(w))
    BY <1>8 DEF HandleAutoSell
  <2>2. AllSound(c, RunSellMacroClick(w))
    BY <1>8, MacroSound
  <2> QED BY <1>2, <2>1, <2>2, Zenon
<1>9. CASE phase = 7
  <2>1. x \in Handle(VerifyBag(w, s))
    BY <1>9 DEF HandleAutoSell
  <2>2. AllSound(c, VerifyBag(w, s))
    BY <1>9, VerifySound
  <2> QED BY <1>2, <2>1, <2>2, Zenon
<1>10. CASE phase = 10
  <2>1. x \in Handled(emptied)
    BY <1>10 DEF HandleAutoSell
  <2>2. Sound(c, emptied)
    <3> DEFINE u == ResetRobustTravel(w)
    <3>1. Sound(c, u) /\ u.sell = w.sell /\ u.mount = IdleMount
      BY <1>1, ResetSound
    <3> HIDE DEF u
    <3>2. Sound(c, InPhase(u, 8))
      BY <1>10, <3>1, PhaseSound
    <3> QED BY <3>2, Zenon DEF u, InPhase
  <2> QED BY <1>3, <2>1, <2>2, Zenon
<1>11. ASSUME phase \notin {0, 4, 8, 5, 6, 7, 10}
       PROVE  FALSE
  BY <1>1, <1>11
<1> QED BY <1>5, <1>6, <1>7, <1>8, <1>9, <1>10, <1>11

\* A call of a record that is sound: the client is asked, its trip is as it was.
LEMMA CallSound ==
  ASSUME NEW c, NEW w, Sound(c, w), w.client = "ok", NEW what, Allows(c, what),
         NEW x \in Call(w, what)
  PROVE  Sound(c, x) /\ x.sell = w.sell
<1>1. AllOn(c, TripOf(w), Call(w, what))
  BY CallOn DEF Sound
<1>2. On(c, TripOf(w), x)
  BY <1>1 DEF AllOn
<1>3. Sound(c, x)
  BY <1>2, OnIsSound, Zenon
<1> QED BY <1>2, <1>3, Zenon DEF On, TripOf

\* A sale begins: the account goes to the NPC, and nothing checks its training.
LEMMA BeginSaleSound ==
  ASSUME NEW c, NEW w, Sound(c, w), Sells(c), w.client = "ok", w.sell.phase = 0,
         NEW x \in BeginAutoSell(w)
  PROVE  Sound(c, x) /\ x.sell.phase = 4
<1> DEFINE y == [NoSale EXCEPT !.phase = 4]
           u == ResetRobustTravel(w)
           v == [u EXCEPT !.train = IdleTrain]
           z == [v EXCEPT !.sell = y]
           r == Disarmed(z)
<1>1. Guarded(c) /\ MayDisarm(c) /\ Allows(c, "StopPath") /\ Typed(c)
  BY DEF Sells, Roads, Guarded
<1>2. Sound(c, u) /\ u.sell = w.sell /\ u.mount = IdleMount /\ u.client = "ok"
  BY <1>1, ResetSound
<1> HIDE DEF u
<1>3. IdleTrain \in Trains /\ ~IdleTrain.monitor
  BY DEF IdleTrain, Trains
<1>4. Sound(c, v)
  BY <1>2, <1>3, SoundWrites
<1>5. IsRecord(u)
  BY <1>2 DEF Sound, On
<1>6. v.mount = IdleMount /\ v.train = IdleTrain /\ v.shop = u.shop /\ v.client = "ok"
  BY <1>2, <1>5 DEF IsRecord
<1>7. v = [u EXCEPT !.train = IdleTrain] /\ z = [[u EXCEPT !.sell = y] EXCEPT !.train = IdleTrain]
  <2> HIDE DEF y
  <2> QED BY <1>5 DEF IsRecord
<1>8. y = Begun(4, 0, 0, FALSE)
  <2>1. \A f, g : LET n == Begun(0, 0, 0, f) IN [n EXCEPT !.phase = g] = Begun(g, 0, 0, f)
    BY DEF Begun
  <2>2. NoSale = Begun(0, 0, 0, FALSE)
    BY Zenon DEF NoSale, Begun
  <2> QED BY <2>1, <2>2, Zenon
<1> HIDE DEF y, v
<1>9. SaleOK(y, v.shop) /\ y.phase = 4
  <2>1. v.shop \in Shops
    BY <1>4 DEF Sound, SaleOK
  <2> QED BY <1>8, <2>1, SellAssumption DEF SaleOK, Sales, Begun
<1>10. Sound(c, z)
  BY <1>3, <1>4, <1>6, <1>9, SoundWrites
<1>11. IsRecord(v)
  BY <1>4 DEF Sound, On
<1>12. z.sell = y /\ z.client = "ok"
  BY <1>6, <1>11 DEF IsRecord
<1> HIDE DEF z
<1>13. On(c, TripOf(z), r)
  BY <1>1, <1>10, DisarmedOn DEF Sound
<1>14. Sound(c, r)
  BY <1>10, <1>13, OnIsSound, Zenon
<1>15. r.sell = y /\ r.client = "ok"
  <2>1. r.sell = z.sell
    BY <1>13, Zenon DEF On, TripOf
  <2>2. \A o : [z EXCEPT !.route = o].client = z.client
    BY <1>10 DEF Sound, On, IsRecord
  <2>3. r.client = z.client
    <3>1. IsRecord(z)
      BY <1>10 DEF Sound, On
    <3>2. \A a, b, d : [z EXCEPT !.route.armed = a, !.route.moved = b, !.route.seen = d]
            = [z EXCEPT !.route = [z.route EXCEPT !.armed = a, !.moved = b, !.seen = d]]
      BY <3>1, RouteTogether, Zenon
    <3>3. r = [z EXCEPT !.route = [z.route EXCEPT !.armed = FALSE, !.moved = FALSE,
                                                  !.seen = FALSE]]
      BY <3>2, Zenon DEF Disarmed
    <3> HIDE DEF r
    <3> QED BY <2>2, <3>3, Zenon
  <2> QED BY <1>12, <2>1, <2>3
<1>16. BeginAutoSell(w) = Call(r, "StopPath")
  BY <1>7, Zenon DEF BeginAutoSell, r, Disarmed, z, v, u, y
<1> HIDE DEF r
<1>17. Sound(c, x) /\ x.sell = y
  BY <1>1, <1>14, <1>15, <1>16, CallSound
<1> QED BY <1>9, <1>17

\* A sale goes on, or begins; or the account has none.
LEMMA SellOrGoOnSound ==
  ASSUME NEW c, NEW w, Sound(c, w), Sells(c), w.client = "ok",
         NEW s, s.bag \in {None} \cup Nat, NEW x \in SellOrGoOn(w, s)
  PROVE  Sound(c, x) /\ (x.done \/ x.sell.phase = 0)
<1> DEFINE from == IF w.sell.phase = 0 /\ P(w).sell /\ s.bag = 0 THEN BeginAutoSell(w) ELSE {w}
<1>1. PICK y \in from : x \in HandleAutoSell(y, s)
  BY Zenon DEF SellOrGoOn
<1>2. Sound(c, y) /\ (y.client = "ok" \/ y.sell.phase = 4)
  <2>1. (w.sell.phase = 0 /\ y \in BeginAutoSell(w)) \/ y = w
    BY <1>1, Zenon
  <2> QED BY <2>1, BeginSaleSound
<1> QED BY <1>1, <1>2, SaleSound

----------------------------------------------------------------------------
(* Training *)

\* A fight that is begun anew.
LEMMA FreshOn ==
  ASSUME NEW c, NEW j, NEW w, On(c, j, w)
  PROVE  On(c, j, Fresh(w))
<1> DEFINE v == [w EXCEPT !.train.phase = 0]
<1>1. \A x \in {0, 2, 3} : On(c, j, [w EXCEPT !.train.phase = x])
  BY TrainWritten
<1>2. On(c, j, v)
  BY <1>1, Zenon
<1> HIDE DEF v
<1>3. \A x \in 0 .. 2 : On(c, j, [v EXCEPT !.train.tries = x])
  BY <1>2, TrainWritten
<1>4. On(c, j, [v EXCEPT !.train.tries = 0])
  BY <1>3
<1> QED BY <1>4, Zenon DEF Fresh, v

\* The click to fight: its result counts as a try.
LEMMA RequestFightOn ==
  ASSUME NEW c, Guarded(c), NEW j, NEW w, On(c, j, w), w.train.tries < 2, NEW s
  PROVE  On(c, j, RequestFight(w, s))
<1> DEFINE u == ConsumePriorityAutoResult(w)
           n == u.train.tries
           v == [u EXCEPT !.train.tries = n + 1]
           p == IF u.ok THEN 2 ELSE 0
           y == [v EXCEPT !.train.phase = p]
<1>1. On(c, j, u) /\ u.train = w.train
  <2>1. On(c, j, u)
    BY ConsumeOn, Zenon
  <2>2. IsRecord(w)
    BY DEF On
  <2> DEFINE z == [w EXCEPT !.ok = w.box.ok]
  <2>3. IsRecord(z) /\ z.train = w.train
    BY <2>2 DEF IsRecord
  <2> HIDE DEF z
  <2>4. [z EXCEPT !.box.res = None, !.box.ok = FALSE].train = z.train
    <3>1. \A a, b : [z EXCEPT !.box.res = a, !.box.ok = b] =
                      [z EXCEPT !.box = [z.box EXCEPT !.res = a, !.ok = b]]
      BY <2>3, BoxTogether, ZenonT(30)
    <3>2. \A x : [z EXCEPT !.box = x].train = z.train
      BY <2>3 DEF IsRecord
    <3>3. [z EXCEPT !.box.res = None, !.box.ok = FALSE] =
            [z EXCEPT !.box = [z.box EXCEPT !.res = None, !.ok = FALSE]]
      BY <3>1, Zenon
    <3>4. [z EXCEPT !.box = [z.box EXCEPT !.res = None, !.ok = FALSE]].train = z.train
      BY <3>2, Zenon
    <3> QED BY <3>3, <3>4, Zenon
  <2>5. u = [z EXCEPT !.box.res = None, !.box.ok = FALSE]
    BY Zenon DEF ConsumePriorityAutoResult, z
  <2> HIDE DEF u
  <2> QED BY <2>1, <2>3, <2>4, <2>5, Zenon
<1>2. n + 1 \in 0 .. 2
  <2>1. w.train \in Trains
    BY DEF On
  <2>2. w.train.tries \in 0 .. 2
    BY <2>1 DEF Trains
  <2> HIDE DEF u
  <2> QED BY <1>1, <2>2
<1> HIDE DEF n, u
<1>3. On(c, j, v)
  <2>1. \A x \in 0 .. 2 : On(c, j, [u EXCEPT !.train.tries = x])
    BY <1>1, TrainWritten
  <2> QED BY <1>2, <2>1, Zenon
<1> HIDE DEF v
<1>4. p \in {0, 2, 3}
  OBVIOUS
<1> HIDE DEF p
<1>5. On(c, j, y)
  <2>1. \A x \in {0, 2, 3} : On(c, j, [v EXCEPT !.train.phase = x])
    BY <1>3, TrainWritten
  <2> QED BY <1>4, <2>1, Zenon
<1>6. On(c, j, QueuePriorityAutoClick(w, s, "Train"))
  <2>1. "Train" \in Owners /\ MayAsk(w.guard, "Train")
    BY Zenon DEF Owners, MayAsk, Workers
  <2> QED BY <2>1, QueueOn, Zenon
<1>7. On(c, j, IF HasResult(w, "Train") THEN y ELSE QueuePriorityAutoClick(w, s, "Train"))
  BY <1>5, <1>6, Zenon
<1> QED BY <1>7, Zenon DEF RequestFight, y, p, v, n, u

\* Turning AutoFight on; the checks begin when it is seen on.
LEMMA FightOn ==
  ASSUME NEW c, Guarded(c), NEW j, Free(j), NEW w, On(c, j, w), NEW s
  PROVE  AllOn(c, j, HandleFightClicks(w, s))
<1> DEFINE p == IF w.train.tries < 2 THEN 0 ELSE 2
           again == [w EXCEPT !.train.phase = p]
           on == [w EXCEPT !.train.phase = 3, !.train.tries = 0, !.train.monitor = TRUE]
           over == [w EXCEPT !.train.phase = 3]
           u == [w EXCEPT !.train.phase = 0]
<1>1. \A v : On(c, j, v) => AllOn(c, j, Handled(v))
  BY HandlesOn, Zenon
<1>2. \A x \in {0, 2, 3} : On(c, j, [w EXCEPT !.train.phase = x])
  BY TrainWritten
<1>3. On(c, j, again)
  BY <1>2, Zenon
<1>4. On(c, j, on)
  <2> DEFINE a == [w EXCEPT !.train.phase = 3]
             b == [a EXCEPT !.train.tries = 0]
  <2>1. On(c, j, a)
    BY <1>2, Zenon
  <2> HIDE DEF a
  <2>2. \A x \in 0 .. 2 : On(c, j, [a EXCEPT !.train.tries = x])
    BY <2>1, TrainWritten
  <2>3. On(c, j, b)
    BY <2>2
  <2> HIDE DEF b
  <2>4. \A x \in BOOLEAN : (x => Free(j)) => On(c, j, [b EXCEPT !.train.monitor = x])
    BY <2>3, TrainWritten
  <2>5. On(c, j, [b EXCEPT !.train.monitor = TRUE])
    BY <2>4, Zenon
  <2> QED BY <2>5, Zenon DEF b, a
<1>5. On(c, j, over) /\ On(c, j, u)
  BY <1>2, Zenon
<1>6. ASSUME ~(w.train.tries >= 2)
      PROVE  On(c, j, RequestFight(u, s))
  <2>1. IsRecord(w) /\ w.train \in Trains
    BY DEF On
  <2>2. u.train.tries = w.train.tries
    <3>1. u = [w EXCEPT !.train = [w.train EXCEPT !.phase = 0]]
      BY Zenon
    <3>2. \A x : [w EXCEPT !.train = x].train = x
      BY <2>1, TrainRewritten
    <3>3. u.train = [w.train EXCEPT !.phase = 0]
      BY <3>1, <3>2, Zenon
    <3> DEFINE t == w.train
    <3>4. t \in Trains => [t EXCEPT !.phase = 0].tries = t.tries
      <4> HIDE DEF t
      <4> QED BY DEF Trains
    <3> QED BY <2>1, <3>3, <3>4, Zenon
  <2>3. w.train.tries < 2
    BY <1>6, <2>1 DEF Trains
  <2> HIDE DEF u
  <2> QED BY <1>5, <2>2, <2>3, RequestFightOn
<1>7. On(c, j, Fresh(w))
  BY FreshOn
<1>8. \A due, early : AllOn(c, j, due) /\ AllOn(c, j, early) => AllOn(c, j, WhenDue(w, due, early))
  BY HandlesOn, Zenon
<1>9. AllOn(c, j, {Fresh(w)})
  BY <1>7, Zenon DEF AllOn
<1> HIDE DEF again, on, over, u
<1>10. AllOn(c, j, WhenDue(w, Handled(again), Handled(w)))
  BY <1>1, <1>3, <1>8, Zenon
<1>11. AllOn(c, j, IF ~P(w).fight THEN {Fresh(w)}
                   ELSE IF s.fight = "unknown" THEN Handled(w)
                   ELSE IF Fighting(s) THEN Handled(on)
                   ELSE IF w.train.tries >= 2 THEN Handled(over)
                   ELSE IF w.train.phase = 2 THEN WhenDue(w, Handled(again), Handled(w))
                   ELSE Handled(RequestFight(u, s)))
  BY <1>1, <1>4, <1>5, <1>6, <1>9, <1>10, Zenon
<1> QED BY <1>11, Zenon DEF HandleFightClicks, again, on, over, u

\* Who owns the tick is no matter of soundness.
LEMMA SoundHandles ==
  ASSUME NEW c
  PROVE  /\ \A w : Sound(c, w) => /\ Sound(c, [w EXCEPT !.done = TRUE])
                                  /\ [w EXCEPT !.done = TRUE].done
         /\ \A ws : \A x \in Handle(ws) : AllSound(c, ws) => Sound(c, x) /\ x.done
         /\ \A w : \A x \in Handled(w) : Sound(c, w) => Sound(c, x) /\ x.done
<1>1. ASSUME NEW w, Sound(c, w)
      PROVE  Sound(c, [w EXCEPT !.done = TRUE]) /\ [w EXCEPT !.done = TRUE].done
  <2>1. \A x : Sound(c, [w EXCEPT !.done = x])
    BY <1>1, SoundWrites, Zenon
  <2>2. \A x : [w EXCEPT !.done = x].done = x
    BY <1>1 DEF Sound, On, IsRecord
  <2> QED BY <2>1, <2>2, Zenon
<1>2. ASSUME NEW ws, NEW x \in Handle(ws), AllSound(c, ws)
      PROVE  Sound(c, x) /\ x.done
  <2>1. PICK y \in ws : x = [y EXCEPT !.done = TRUE]
    BY <1>2, Zenon DEF Handle
  <2> QED BY <1>1, <1>2, <2>1, Zenon DEF AllSound
<1>3. ASSUME NEW w, NEW x \in Handled(w), Sound(c, w)
      PROVE  Sound(c, x) /\ x.done
  <2>1. x = [w EXCEPT !.done = TRUE]
    BY <1>3, Zenon DEF Handled
  <2> QED BY <1>1, <1>3, <2>1, Zenon
<1> QED BY <1>1, <1>2, <1>3

\* A training without a try.
Resting(a, m, b) == [phase |-> 0, tries |-> 0, at |-> a, monitor |-> m, back |-> b]

\* A return begins: nothing checks the training any more.
LEMMA BeginReturnSound ==
  ASSUME NEW c, Guarded(c), NEW w, Sound(c, w)
  PROVE  Sound(c, BeginTrainRecovery(w)) /\ BeginTrainRecovery(w).train.back
<1> DEFINE u == ResetRobustTravel(w)
           v == ResetTravelFightGuard(u)
           a == w.train.at
           t == Resting(a, FALSE, TRUE)
           y == [v EXCEPT !.train = t]
<1>1. Sound(c, u) /\ u.mount = IdleMount
  BY ResetSound
<1> HIDE DEF u
<1>2. Sound(c, v) /\ v.mount = u.mount
  <2>1. Sound(c, v)
    BY <1>1, ResetSound
  <2>2. IsRecord(u)
    BY <1>1 DEF Sound, On
  <2>3. On(c, TripOf(u), u) /\ Typed(c)
    BY <1>1 DEF Sound, Guarded
  <2>4. \A p, n : [u EXCEPT !.guard.phase = p, !.guard.stops = n] =
                    [u EXCEPT !.guard = Phase(u.guard, p, n)]
    BY <2>3, GuardWritten
  <2>5. \A x : [u EXCEPT !.guard = x].mount = u.mount
    BY <2>2 DEF IsRecord
  <2>6. [u EXCEPT !.guard.phase = 0, !.guard.stops = 0].mount = u.mount
    BY <2>4, <2>5, Zenon
  <2> QED BY <2>1, <2>6, Zenon DEF ResetTravelFightGuard
<1> HIDE DEF v
<1>3. a \in BOOLEAN
  BY DEF Sound, On, Trains
<1>4. t \in Trains /\ ~t.monitor /\ t.back
  <2>1. \A x, m, b \in BOOLEAN : /\ Resting(x, m, b) \in Trains
                                 /\ Resting(x, m, b).monitor = m /\ Resting(x, m, b).back = b
    BY DEF Resting, Trains
  <2> QED BY <1>3, <2>1, Zenon
<1>5. [IdleTrain EXCEPT !.back = TRUE, !.at = a] = t
  <2>1. \A z, f, g, b, x : z = Resting(f, g, b) => [z EXCEPT !.back = x] = Resting(f, g, x)
    BY DEF Resting
  <2>2. \A z, f, g, b, x : z = Resting(f, g, b) => [z EXCEPT !.at = x] = Resting(x, g, b)
    BY DEF Resting
  <2> DEFINE no == FALSE
             yes == TRUE
             idle == IdleTrain
             next == [idle EXCEPT !.back = yes]
  <2>3. idle = Resting(no, no, no)
    BY Zenon DEF IdleTrain, Resting
  <2> HIDE DEF no, yes, idle, a
  <2>4. next = Resting(no, no, yes)
    BY <2>1, <2>3
  <2> HIDE DEF next
  <2>5. [next EXCEPT !.at = a] = Resting(a, no, yes)
    BY <2>2, <2>4
  <2> QED BY <2>5, Zenon DEF next, idle, no, yes
<1> HIDE DEF a, t
<1>6. Sound(c, y)
  BY <1>1, <1>2, <1>4, SoundWrites
<1>7. y.train = t
  BY <1>2 DEF Sound, On, IsRecord
<1>8. BeginTrainRecovery(w) = y
  BY <1>5, Zenon DEF BeginTrainRecovery, y, v, u, a
<1> QED BY <1>4, <1>6, <1>7, <1>8

\* The return to the spot: it owns the tick, or there is none.
LEMMA ReturnSound ==
  ASSUME NEW c, Roads(c), NEW w, Sound(c, w), NEW s, NEW v \in HandleTrainRecovery(w, s)
  PROVE  Sound(c, v) /\ (v.done \/ (v = w /\ ~w.train.back))
<1> DEFINE arrived(x) == [x EXCEPT !.train.back = FALSE, !.train.at = FALSE,
                                   !.train.phase = 0, !.train.tries = 0]
           end(x) == IF x.ok THEN arrived(x) ELSE x
<1>1. CASE ~w.train.back
  <2>1. v \in {w}
    BY <1>1 DEF HandleTrainRecovery
  <2> QED BY <1>1, <2>1
<1>2. CASE w.train.back
  <2>1. v \in Handle({end(x) : x \in HandleRobustTravel(w, s, "spot")})
    BY <1>2, Zenon DEF HandleTrainRecovery
  <2>2. ASSUME NEW x \in HandleRobustTravel(w, s, "spot")
        PROVE  Sound(c, end(x))
    <3>1. On(c, TripOf(w), w) /\ Travels(TripOf(w)) /\ TripOf(w).back
      BY <1>2 DEF Sound, Travels, TripOf
    <3>2. On(c, TripOf(w), x) /\ (x.ok => x.mount = IdleMount)
      BY <3>1, TravelOn DEF AllOn
    <3>3. Sound(c, x) /\ IsRecord(x) /\ x.train \in Trains /\ ~x.train.monitor
      <4>1. Sound(c, x)
        BY <3>2, OnIsSound, Zenon
      <4>2. ~Free(TripOf(w))
        BY <3>1 DEF Free
      <4> QED BY <3>2, <4>1, <4>2 DEF On
    <3> DEFINE t == x.train
               t1 == [t EXCEPT !.back = FALSE]
               t2 == [t1 EXCEPT !.at = FALSE]
               t3 == [t2 EXCEPT !.phase = 0]
               t4 == [t3 EXCEPT !.tries = 0]
    <3>4. t4 \in Trains /\ ~t4.monitor
      <4>1. \A q \in Trains : /\ \A b \in BOOLEAN : [q EXCEPT !.back = b] \in Trains
                                   /\ [q EXCEPT !.back = b].monitor = q.monitor
                              /\ \A b \in BOOLEAN : [q EXCEPT !.at = b] \in Trains
                                   /\ [q EXCEPT !.at = b].monitor = q.monitor
                              /\ [q EXCEPT !.phase = 0] \in Trains
                              /\ [q EXCEPT !.phase = 0].monitor = q.monitor
                              /\ [q EXCEPT !.tries = 0] \in Trains
                              /\ [q EXCEPT !.tries = 0].monitor = q.monitor
        BY DEF Trains
      <4> HIDE DEF t
      <4>2. t \in Trains /\ ~t.monitor
        BY <3>3 DEF t
      <4>3. t1 \in Trains /\ ~t1.monitor
        BY <4>1, <4>2, Zenon
      <4> HIDE DEF t1
      <4>4. t2 \in Trains /\ ~t2.monitor
        BY <4>1, <4>3, Zenon
      <4> HIDE DEF t2
      <4>5. t3 \in Trains /\ ~t3.monitor
        BY <4>1, <4>4, Zenon
      <4> HIDE DEF t3
      <4> QED BY <4>1, <4>5, Zenon
    <3>5. arrived(x) = [x EXCEPT !.train = t4]
      <4>1. \A a, b : /\ [[x EXCEPT !.train = a] EXCEPT !.train = b] = [x EXCEPT !.train = b]
                      /\ [x EXCEPT !.train = a].train = a
        <5>1. IsRecord(x)
          BY <3>3
        <5> QED BY <5>1, TrainRewritten, Zenon
      <4> QED BY <4>1, Zenon
    <3> HIDE DEF t4, arrived
    <3>6. x.ok => Sound(c, [x EXCEPT !.train = t4])
      BY <3>2, <3>3, <3>4, SoundWrites
    <3> QED BY <3>3, <3>5, <3>6, Zenon
  <2>3. AllSound(c, {end(x) : x \in HandleRobustTravel(w, s, "spot")})
    <3> HIDE DEF end
    <3> QED BY <2>2, Zenon DEF AllSound
  <2> HIDE DEF end
  <2> QED BY <2>1, <2>3, SoundHandles, Zenon
<1> QED BY <1>1, <1>2

\* The check of every minute: AutoFight is turned on again.
LEMMA CheckFightOn ==
  ASSUME NEW c, Guarded(c), NEW j, Free(j), NEW w, On(c, j, w), NEW s
  PROVE  AllOn(c, j, CheckAutoFight(w, s))
<1>1. On(c, j, Fresh(w))
  BY FreshOn
<1>2. AllOn(c, j, {w}) /\ AllOn(c, j, Handled(w))
  BY HandlesOn, Zenon
<1>3. AllOn(c, j, HandleFightClicks(Fresh(w), s))
  BY <1>1, FightOn
<1>4. AllOn(c, j, IF s.fight = "unknown" THEN Handled(w)
                  ELSE IF Fighting(s) THEN {w} ELSE HandleFightClicks(Fresh(w), s))
  BY <1>2, <1>3, Zenon
<1> QED BY <1>2, <1>4, HandlesOn, Zenon DEF CheckAutoFight

\* The check of every three minutes owns the tick, whatever it finds.
LEMMA CheckPositionSound ==
  ASSUME NEW c, Roads(c), NEW w, Sound(c, w), NEW s, NEW x \in CheckPosition(w, s)
  PROVE  Sound(c, x) /\ x.done
<1> DEFINE v == BeginTrainRecovery(w)
<1>1. Sound(c, v) /\ v.train.back
  BY BeginReturnSound DEF Roads
<1> HIDE DEF v
<1>2. ASSUME NEW y \in HandleTrainRecovery(v, s)
      PROVE  Sound(c, y) /\ y.done
  BY <1>1, <1>2, ReturnSound
<1>3. \A y \in Handled(w) : Sound(c, y) /\ y.done
  BY SoundHandles, Zenon
<1>4. x \in Handled(w) \/ x \in HandleTrainRecovery(v, s)
  BY Zenon DEF CheckPosition, WhenDue, v
<1> QED BY <1>2, <1>3, <1>4, Zenon

\* The checks of an account that fights at its spot.
LEMMA MonitorSound ==
  ASSUME NEW c, Roads(c), NEW w, Sound(c, w), NEW s, NEW x \in Monitor(w, s)
  PROVE  Sound(c, x) /\ (x.done \/ (x = w /\ ~w.train.monitor))
<1> DEFINE one == IF w.train.phase # 3 THEN HandleFightClicks(w, s) ELSE {w}
           two == UNION {IF y.done THEN {y} ELSE CheckAutoFight(y, s) : y \in one}
           three == UNION {IF y.done THEN {y} ELSE CheckPosition(y, s) : y \in two}
<1>1. CASE ~w.train.monitor
  <2>1. x \in {w}
    BY <1>1 DEF Monitor
  <2> QED BY <1>1, <2>1
<1>2. CASE w.train.monitor /\ AutoFightCheckBusy(w, s)
  <2>1. x \in Handled(w)
    BY <1>2, Zenon DEF Monitor
  <2> QED BY <2>1, SoundHandles, Zenon
<1>3. CASE w.train.monitor /\ ~AutoFightCheckBusy(w, s)
  <2> DEFINE j == TripOf(w)
  <2>1. On(c, j, w) /\ Free(j) /\ Guarded(c)
    BY <1>3 DEF Sound, On, Roads
  <2>2. x \in three
    BY <1>3, Zenon DEF Monitor, Then
  <2> HIDE DEF j
  <2>3. AllOn(c, j, one)
    <3>1. AllOn(c, j, HandleFightClicks(w, s)) /\ AllOn(c, j, {w})
      BY <2>1, FightOn, HandlesOn
    <3> QED BY <3>1, Zenon
  <2> HIDE DEF one
  <2>4. AllOn(c, j, two)
    <3>1. \A y \in one : On(c, j, y) /\ AllOn(c, j, CheckAutoFight(y, s))
      BY <2>1, <2>3, CheckFightOn DEF AllOn
    <3> QED BY <3>1, Zenon DEF AllOn
  <2> HIDE DEF two
  <2>5. \A y \in two : Sound(c, y)
    BY <2>4, OnIsSound, Zenon DEF j, AllOn
  <2>6. PICK y \in two : IF y.done THEN x = y ELSE x \in CheckPosition(y, s)
    BY <2>2, Zenon
  <2> HIDE DEF three
  <2>7. CASE y.done
    BY <2>5, <2>6, <2>7
  <2>8. CASE ~y.done
    BY <2>5, <2>6, <2>8, CheckPositionSound
  <2> QED BY <2>7, <2>8
<1> QED BY <1>1, <1>2, <1>3

\* Travel to the spot of an account that has nothing else to do.
LEMMA RouteOn ==
  ASSUME NEW c, Roads(c), NEW j, Free(j), NEW w, On(c, j, w), NEW s
  PROVE  AllOn(c, j, TrainOrRoute(w, s))
<1> DEFINE action == Decide(s, "spot")
           left == IF w.train.at THEN Fresh(w) ELSE w
           left1 == [left EXCEPT !.train.monitor = FALSE]
           away == [left1 EXCEPT !.train.at = FALSE]
           v == IF AtTarget(s, "spot") THEN w ELSE away
           kept1 == IF w.train.at THEN w ELSE Fresh(w)
           arrived == [kept1 EXCEPT !.train.at = TRUE]
<1>1. On(c, j, Fresh(w))
  BY FreshOn
<1>2. \A y : On(c, j, y) => /\ \A x \in BOOLEAN : On(c, j, [y EXCEPT !.train.at = x])
                            /\ \A x \in BOOLEAN : On(c, j, [y EXCEPT !.train.monitor = x])
  BY TrainWritten, Zenon
<1>3. TRUE \in BOOLEAN /\ FALSE \in BOOLEAN
  OBVIOUS
<1>4. On(c, j, v)
  <2>1. On(c, j, left)
    BY <1>1, Zenon
  <2> HIDE DEF left
  <2>2. On(c, j, left1)
    BY <1>2, <1>3, <2>1, Zenon
  <2> HIDE DEF left1
  <2>3. On(c, j, away)
    BY <1>2, <1>3, <2>2, Zenon
  <2> QED BY <2>3, Zenon
<1>5. On(c, j, arrived)
  <2>1. On(c, j, kept1)
    BY <1>1, Zenon
  <2> HIDE DEF kept1
  <2> QED BY <1>2, <1>3, <2>1, Zenon
<1>6. action \in {"StartPath", "StopPath", "Mount", "Dismount", "Hold", "Wait"}
  BY DEF Decide
<1> HIDE DEF v, arrived, action
<1>7. AllOn(c, j, HandleFightClicks(arrived, s)) /\ AllOn(c, j, {v})
  BY <1>4, <1>5, FightOn, HandlesOn DEF Roads
<1>8. action \in {"StartPath", "StopPath", "Mount", "Dismount"}
        => AllOn(c, j, SendDecision(v, s, action, "spot"))
  BY <1>4, SendOn DEF Roads
<1>9. /\ action = "Hold" => TrainOrRoute(w, s) = HandleFightClicks(arrived, s)
      /\ action = "Wait" => TrainOrRoute(w, s) = {v}
      /\ action \in {"StartPath", "StopPath", "Mount", "Dismount"}
           => TrainOrRoute(w, s) = SendDecision(v, s, action, "spot")
  <2>1. away = [left EXCEPT !.train.monitor = FALSE, !.train.at = FALSE]
    BY Zenon
  <2> HIDE DEF away
  <2> QED BY <2>1 DEF TrainOrRoute, action, v, arrived, left, kept1
<1> QED BY <1>6, <1>7, <1>8, <1>9, Zenon

----------------------------------------------------------------------------
(* Life: resets, deaths and births *)

KeptAs(l, d, n) == [latched |-> l, deaths |-> d, learned |-> n]

\* The route of an account that was just started or has just revived.
ToTakeBack == [FreeRoute EXCEPT !.pending = TRUE]

\* A death may begin a session, and be counted once: a latched one counts no more.
MayDie(c) ==
  /\ <<ClearBox, IdleGuard>> \in c.clicks /\ FreeRoute \in c.routes
  /\ \A k \in c.kepts : ~k.latched =>
       \A d \in 0 .. DeathLimit : d <= k.deaths + 1 => KeptAs(TRUE, d, k.learned) \in c.kepts

\* A session may end.
MayBeBorn(c) ==
  /\ <<ClearBox, IdleGuard>> \in c.clicks /\ ToTakeBack \in c.routes
  /\ \A k \in c.kepts : KeptAs(FALSE, k.deaths, k.learned) \in c.kepts

\* What a reset writes is typed.
LEMMA IdleTyped ==
  /\ ClearBox \in Mailbox /\ IdleGuard \in Guards /\ IdleMount \in Mounts
  /\ FreeRoute \in Routes /\ ToTakeBack \in Routes
  /\ IdleTrain \in Trains /\ ~IdleTrain.monitor /\ ~IdleTrain.back
  /\ NoSale \in Sales /\ NoSale.phase = 0 /\ \A sh \in Shops : SaleOK(NoSale, sh)
<1>1. ClearBox \in Mailbox /\ IdleGuard \in Guards /\ IdleMount \in Mounts
  BY DEF ClearBox, Mailbox, IdleGuard, Guards, IdleMount, Mounts
<1>2. FreeRoute \in Routes /\ ToTakeBack \in Routes
  <2>1. FreeRoute \in Routes
    BY LifeAssumption DEF FreeRoute, Routes
  <2> DEFINE r == FreeRoute
  <2> HIDE DEF r
  <2>2. r \in Routes => \A x \in BOOLEAN : [r EXCEPT !.pending = x] \in Routes
    BY DEF Routes
  <2>3. TRUE \in BOOLEAN
    OBVIOUS
  <2> QED BY <2>1, <2>2, <2>3, Zenon DEF r, ToTakeBack
<1>3. IdleTrain \in Trains /\ ~IdleTrain.monitor /\ ~IdleTrain.back
  BY DEF IdleTrain, Trains
<1>4. NoSale \in Sales /\ NoSale.phase = 0
  BY SellAssumption DEF NoSale, Sales
<1>5. \A sh \in Shops : SaleOK(NoSale, sh)
  BY <1>4 DEF SaleOK
<1> QED BY <1>1, <1>2, <1>3, <1>4, <1>5

\* Writing the parts of a record that a life changes.
LEMMA PartsWritten ==
  ASSUME NEW a, NEW b, NEW c, NEW d, NEW e, NEW f, NEW g, NEW h, NEW i, NEW j,
         NEW k, NEW l, NEW m, NEW n, NEW o, NEW p, NEW q, NEW w,
         w = RecordOf(a, b, c, d, e, f, g, h, i, j, k, l, m, n, o, p, q)
  PROVE  /\ w.route = f /\ w.kept = j
         /\ \A x : [w EXCEPT !.route = x] =
                     RecordOf(a, b, c, d, e, x, g, h, i, j, k, l, m, n, o, p, q)
         /\ \A x : [w EXCEPT !.kept = x] =
                     RecordOf(a, b, c, d, e, f, g, h, i, x, k, l, m, n, o, p, q)
BY DEF RecordOf

\* What is kept of the lives, written one by one.
LEMMA KeptEdits ==
  ASSUME NEW k \in Kepts, NEW x
  PROVE  /\ [k EXCEPT !.latched = x] = KeptAs(x, k.deaths, k.learned)
         /\ [k EXCEPT !.deaths = x] = KeptAs(k.latched, x, k.learned)
         /\ KeptAs(k.latched, k.deaths, k.learned) = k
BY DEF Kepts, KeptAs

\* A reset leaves nothing but the shop, the calls and what is kept.
LEMMA ResetParts ==
  ASSUME NEW a, NEW b, NEW c, NEW d, NEW e, NEW f, NEW g, NEW h, NEW i, NEW j,
         NEW k, NEW l, NEW m, NEW n, NEW o, NEW p, NEW q, NEW w,
         w = RecordOf(a, b, c, d, e, f, g, h, i, j, k, l, m, n, o, p, q)
  PROVE  ResetRuntime(w) = RecordOf(a, "ok", ClearBox, IdleGuard, IdleMount, FreeRoute, IdleTrain,
                                    NoSale, 0, j, k, l, m, n, o, p, q)
<1> DEFINE w1 == [w EXCEPT !.client = "ok"]
           w2 == [w1 EXCEPT !.revive = 0]
           w3 == [w2 EXCEPT !.box = ClearBox]
           w4 == [w3 EXCEPT !.guard = IdleGuard]
           w5 == [w4 EXCEPT !.mount = IdleMount]
           w6 == [w5 EXCEPT !.route = FreeRoute]
           w7 == [w6 EXCEPT !.train = IdleTrain]
           w8 == [w7 EXCEPT !.sell = NoSale]
<1>1. w1 = RecordOf(a, "ok", c, d, e, f, g, h, i, j, k, l, m, n, o, p, q)
  BY DEF RecordOf
<1> HIDE DEF w1
<1>2. w2 = RecordOf(a, "ok", c, d, e, f, g, h, 0, j, k, l, m, n, o, p, q)
  BY <1>1 DEF RecordOf
<1> HIDE DEF w2
<1>3. w3 = RecordOf(a, "ok", ClearBox, d, e, f, g, h, 0, j, k, l, m, n, o, p, q)
  BY <1>2 DEF RecordOf
<1> HIDE DEF w3
<1>4. w4 = RecordOf(a, "ok", ClearBox, IdleGuard, e, f, g, h, 0, j, k, l, m, n, o, p, q)
  BY <1>3 DEF RecordOf
<1> HIDE DEF w4
<1>5. w5 = RecordOf(a, "ok", ClearBox, IdleGuard, IdleMount, f, g, h, 0, j, k, l, m, n, o, p, q)
  BY <1>4 DEF RecordOf
<1> HIDE DEF w5
<1>6. w6 = RecordOf(a, "ok", ClearBox, IdleGuard, IdleMount, FreeRoute, g, h, 0, j, k, l, m, n,
                    o, p, q)
  BY <1>5 DEF RecordOf
<1> HIDE DEF w6
<1>7. w7 = RecordOf(a, "ok", ClearBox, IdleGuard, IdleMount, FreeRoute, IdleTrain, h, 0, j, k,
                    l, m, n, o, p, q)
  BY <1>6 DEF RecordOf
<1> HIDE DEF w7
<1>8. w8 = RecordOf(a, "ok", ClearBox, IdleGuard, IdleMount, FreeRoute, IdleTrain, NoSale, 0, j,
                    k, l, m, n, o, p, q)
  BY <1>7 DEF RecordOf
<1> HIDE DEF w8
<1> QED BY <1>8, Zenon DEF ResetRuntime, w8, w7, w6, w5, w4, w3, w2, w1

\* A record after a reset, with a route f and the lives j.
AfterReset(a, f, j, k, l, m, n, o, p, q) ==
  RecordOf(a, "ok", ClearBox, IdleGuard, IdleMount, f, IdleTrain, NoSale, 0, j, k, l, m, n, o, p, q)

WithKept(w, x) == [w EXCEPT !.kept = x]

LEMMA ResetIsSound ==
  ASSUME NEW c, NEW w, Sound(c, w), <<"ok", w.sent>> \in c.traces,
         <<ClearBox, IdleGuard>> \in c.clicks
  PROVE  \E a, k, l, m, n, o, p, q :
           /\ \A x : ResetRuntime(WithKept(w, x)) =
                       AfterReset(a, FreeRoute, x, k, l, m, n, o, p, q)
           /\ ResetRuntime(w) = AfterReset(a, FreeRoute, w.kept, k, l, m, n, o, p, q)
           /\ l = w.sent /\ p = w.done
           /\ \A f \in c.routes, j \in c.kepts :
                Sound(c, AfterReset(a, f, j, k, l, m, n, o, p, q))
<1>1. PICK a, b, d, e, f, g, h, i, j, k, l, m, n, o, p, q, r :
           w = RecordOf(a, b, d, e, f, g, h, i, j, k, l, m, n, o, p, q, r)
  BY RecordParts DEF Sound, On
<1> DEFINE v(x, y) == AfterReset(a, x, y, l, m, n, o, p, q, r)
<1>2. ASSUME NEW x
      PROVE  ResetRuntime(WithKept(w, x)) = v(FreeRoute, x)
  <2> DEFINE u == WithKept(w, x)
  <2>1. u = RecordOf(a, b, d, e, f, g, h, i, j, x, l, m, n, o, p, q, r)
    BY <1>1, PartsWritten DEF WithKept
  <2> HIDE DEF u
  <2> QED BY <2>1, ResetParts DEF u, AfterReset
<1>3. ResetRuntime(w) = v(FreeRoute, w.kept)
  <2>1. w.kept = k
    BY <1>1, PartsWritten
  <2> QED BY <1>1, <2>1, ResetParts DEF AfterReset
<1>4. m = w.sent /\ q = w.done
  BY <1>1, RecordRead
<1>5. /\ a \in DOMAIN Scenes /\ p \in BOOLEAN /\ SaleOK(i, l)
  BY <1>1, SoundParts
<1>6. l \in Shops
  BY <1>5 DEF SaleOK
<1>7. ASSUME NEW x \in c.routes, NEW y \in c.kepts
      PROVE  Sound(c, v(x, y))
  <2>1. SaleOK(NoSale, l) /\ 0 \in 0 .. 2
    BY <1>6, IdleTyped
  <2> QED BY <1>4, <1>5, <2>1, IdleTyped, SoundParts DEF AfterReset
<1> HIDE DEF v
<1>8. /\ \A x : ResetRuntime(WithKept(w, x)) = v(FreeRoute, x)
      /\ ResetRuntime(w) = v(FreeRoute, w.kept)
      /\ m = w.sent /\ q = w.done
      /\ \A x \in c.routes, y \in c.kepts : Sound(c, v(x, y))
  BY <1>2, <1>3, <1>4, <1>7
<1> QED BY <1>8, Zenon DEF v

\* The deaths that count for the rotation: one more, or fewer.
LEMMA CountedDeaths ==
  ASSUME NEW w, w.kept \in Kepts, NEW x \in RecordDeathForRotation(w)
  PROVE  \E d \in 0 .. DeathLimit :
           d <= w.kept.deaths + 1 /\ x = [w EXCEPT !.kept = [w.kept EXCEPT !.deaths = d]]
<1>1. w.kept.deaths \in 0 .. DeathLimit
  BY DEF Kepts
<1>2. CASE ~P(w).rotate
  <2>1. x = [w EXCEPT !.kept = [w.kept EXCEPT !.deaths = 0]]
    BY <1>2, Zenon DEF RecordDeathForRotation
  <2>2. 0 \in 0 .. DeathLimit /\ 0 <= w.kept.deaths + 1
    BY <1>1, LifeAssumption
  <2> QED BY <2>1, <2>2, Zenon
<1>3. CASE P(w).rotate
  <2> DEFINE left(n) == IF DeathLimitExceeded(n) THEN 0 ELSE n
  <2>1. PICK n \in 1 .. w.kept.deaths + 1 :
               x = [w EXCEPT !.kept = [w.kept EXCEPT !.deaths = left(n)]]
    BY <1>3, Zenon DEF RecordDeathForRotation
  <2>2. left(n) \in 0 .. DeathLimit /\ left(n) <= w.kept.deaths + 1
    BY <1>1, LifeAssumption DEF DeathLimitExceeded
  <2> HIDE DEF left
  <2> QED BY <2>1, <2>2, Zenon
<1> QED BY <1>2, <1>3

\* A death session begins: nothing of the life before is left.
LEMMA DeathSessionSound ==
  ASSUME NEW c, Typed(c), MayDie(c), NEW w, Sound(c, w), <<"ok", w.sent>> \in c.traces,
         ~w.kept.latched, NEW x \in BeginDeathSession(w)
  PROVE  /\ Sound(c, x) /\ x.client = "ok" /\ x.sent = w.sent /\ x.done = w.done
         /\ x.box = ClearBox /\ x.guard = IdleGuard /\ x.kept.latched
<1> DEFINE k == w.kept
<1>1. k \in c.kepts /\ k \in Kepts
  BY DEF Sound, On, Typed
<1>2. <<ClearBox, IdleGuard>> \in c.clicks /\ FreeRoute \in c.routes
  BY DEF MayDie
<1>3. PICK y \in RecordDeathForRotation(w) : x = [ResetRuntime(y) EXCEPT !.kept.latched = TRUE]
  BY Zenon DEF BeginDeathSession, ResetRuntimeForLifeBoundary
<1>4. PICK d \in 0 .. DeathLimit :
             d <= k.deaths + 1 /\ y = [w EXCEPT !.kept = [k EXCEPT !.deaths = d]]
  BY <1>1, <1>3, CountedDeaths
<1>5. PICK a, sh, l, m, n, o, p, q :
           /\ \A z : ResetRuntime(WithKept(w, z)) =
                       AfterReset(a, FreeRoute, z, sh, l, m, n, o, p, q)
           /\ l = w.sent /\ p = w.done
           /\ \A f \in c.routes, j \in c.kepts :
                Sound(c, AfterReset(a, f, j, sh, l, m, n, o, p, q))
  BY <1>2, ResetIsSound
<1> DEFINE v(j) == AfterReset(a, FreeRoute, j, sh, l, m, n, o, p, q)
           k1 == [k EXCEPT !.deaths = d]
           k2 == [k1 EXCEPT !.latched = TRUE]
           u == ResetRuntime(y)
<1>6. u = v(k1)
  BY <1>4, <1>5, Zenon DEF WithKept
<1>7. x = v(k2)
  <2>1. x = [u EXCEPT !.kept = [u.kept EXCEPT !.latched = TRUE]]
    BY <1>3, Zenon
  <2> HIDE DEF u, k1
  <2>2. u.kept = k1 /\ \A z : [u EXCEPT !.kept = z] = v(z)
    BY <1>6, PartsWritten DEF AfterReset
  <2> HIDE DEF v
  <2> QED BY <2>1, <2>2, Zenon
<1>8. k2 = KeptAs(TRUE, d, k.learned)
  <2>1. k1 = KeptAs(k.latched, d, k.learned)
    BY <1>1, KeptEdits
  <2> HIDE DEF k1
  <2>2. \A z : [k1 EXCEPT !.latched = z] = KeptAs(z, d, k.learned)
    BY <2>1 DEF KeptAs
  <2> QED BY <2>2, Zenon
<1> HIDE DEF k2, u
<1>9. KeptAs(TRUE, d, k.learned) \in c.kepts
  BY <1>1, <1>4 DEF MayDie
<1>10. Sound(c, x)
  BY <1>2, <1>5, <1>7, <1>8, <1>9, Zenon
<1>11. KeptAs(TRUE, d, k.learned).latched
  BY DEF KeptAs
<1>12. /\ x.client = "ok" /\ x.sent = l /\ x.done = p /\ x.box = ClearBox
       /\ x.guard = IdleGuard /\ x.kept = k2
  BY <1>7, RecordRead DEF AfterReset
<1> QED BY <1>5, <1>8, <1>10, <1>11, <1>12

\* A life begins with a route to take back.
LEMMA BirthSound ==
  ASSUME NEW c, Typed(c), MayBeBorn(c), NEW w, Sound(c, w), <<"ok", w.sent>> \in c.traces
  PROVE  Sound(c, [ResetRuntimeForLifeBoundary(w) EXCEPT !.kept.latched = FALSE,
                                                         !.route.pending = TRUE])
<1> DEFINE k == w.kept
           u == ResetRuntime(w)
           k1 == [k EXCEPT !.latched = FALSE]
           u1 == [u EXCEPT !.kept = k1]
           u2 == [u1 EXCEPT !.route = ToTakeBack]
<1>1. k \in c.kepts /\ k \in Kepts
  BY DEF Sound, On, Typed
<1>2. <<ClearBox, IdleGuard>> \in c.clicks /\ ToTakeBack \in c.routes
  BY DEF MayBeBorn
<1>3. PICK a, sh, l, m, n, o, p, q :
           /\ ResetRuntime(w) = AfterReset(a, FreeRoute, w.kept, sh, l, m, n, o, p, q)
           /\ \A f \in c.routes, j \in c.kepts :
                Sound(c, AfterReset(a, f, j, sh, l, m, n, o, p, q))
  BY <1>2, ResetIsSound
<1> DEFINE v(f, j) == AfterReset(a, f, j, sh, l, m, n, o, p, q)
<1>4. u = v(FreeRoute, k)
  BY <1>3, Zenon
<1> HIDE DEF u
<1>5. u.kept = k /\ u1 = v(FreeRoute, k1)
  <2> HIDE DEF k1
  <2> QED BY <1>4, PartsWritten DEF AfterReset
<1> HIDE DEF u1
<1>6. u1.route = FreeRoute /\ u2 = v(ToTakeBack, k1)
  <2> HIDE DEF k1
  <2> QED BY <1>5, PartsWritten DEF AfterReset
<1>7. k1 \in c.kepts
  <2>1. \A x : [k EXCEPT !.latched = x] = KeptAs(x, k.deaths, k.learned)
    BY <1>1, KeptEdits, Zenon
  <2> QED BY <1>1, <2>1, Zenon DEF MayBeBorn
<1>8. Sound(c, u2)
  <2> HIDE DEF u2, k1
  <2> QED BY <1>2, <1>3, <1>6, <1>7, Zenon
<1>9. [ResetRuntimeForLifeBoundary(w) EXCEPT !.kept.latched = FALSE, !.route.pending = TRUE] = u2
  BY <1>5, <1>6, Zenon DEF ResetRuntimeForLifeBoundary, u, u1, ToTakeBack
<1> QED BY <1>8, <1>9

----------------------------------------------------------------------------
(* Life: its handlers *)

\* The revival begins anew.
LEMMA RevivalSound ==
  ASSUME NEW c, NEW w, Sound(c, w), NEW x \in 0 .. 2
  PROVE  Sound(c, [w EXCEPT !.revive = x])
<1>1. On(c, TripOf(w), [w EXCEPT !.revive = x])
  BY WritesOn DEF Sound
<1> QED BY <1>1, OnIsSound, Zenon

\* A death owns the tick, and so does a birth; who is neither is not in a session.
LEMMA DeathSound ==
  ASSUME NEW c, Typed(c), NEW s, Dead(s) => MayDie(c), ~Dead(s) => MayBeBorn(c),
         NEW w, Sound(c, w), <<"ok", w.sent>> \in c.traces, NEW x \in HandleDeath(w, s)
  PROVE  Sound(c, x) /\ (x.done \/ (x = w /\ ~Dead(s) /\ ~w.kept.latched))
<1> DEFINE latched == w.kept.latched
           begun == IF latched THEN {w} ELSE BeginDeathSession(w)
           next(y) == IF y.revive = 1 THEN [y EXCEPT !.revive = 2] ELSE [y EXCEPT !.revive = 0]
           dying(y) == IF ~P(w).revive \/ y.revive = 0 THEN Handled(y)
                       ELSE WhenDue(y, Handled(next(y)), Handled(y))
           born == [ResetRuntimeForLifeBoundary(w) EXCEPT !.kept.latched = FALSE,
                                                          !.route.pending = TRUE]
<1>1. \A v : Sound(c, v) => \A y \in Handled(v) : Sound(c, y) /\ y.done
  BY SoundHandles, Zenon
<1>2. CASE s.life # "unknown" /\ Dead(s)
  <2>1. PICK y \in begun : x \in dying(y)
    <3>1. x \in UNION {dying(y) : y \in begun}
      BY <1>2, Zenon DEF HandleDeath
    <3> HIDE DEF dying, begun
    <3> QED BY <3>1, Zenon
  <2>2. Sound(c, y)
    BY <1>2, <2>1, DeathSessionSound
  <2>3. Sound(c, next(y))
    <3>1. 0 \in 0 .. 2 /\ 2 \in 0 .. 2
      OBVIOUS
    <3>2. Sound(c, [y EXCEPT !.revive = 2]) /\ Sound(c, [y EXCEPT !.revive = 0])
      BY <2>2, <3>1, RevivalSound
    <3> QED BY <3>2, Zenon
  <2> HIDE DEF begun, next
  <2>4. x \in Handled(y) \/ x \in Handled(next(y))
    BY <2>1, Zenon DEF WhenDue
  <2> QED BY <1>1, <2>2, <2>3, <2>4, Zenon
<1>3. CASE s.life # "unknown" /\ ~Dead(s)
  <2>1. Sound(c, born)
    BY <1>3, BirthSound
  <2> HIDE DEF born
  <2>2. x \in Handled(born) \/ (x = w /\ ~latched)
    BY <1>3, Zenon DEF HandleDeath, born
  <2> QED BY <1>1, <1>3, <2>1, <2>2, Zenon
<1>4. CASE s.life = "unknown"
  <2>1. x \in Handled(w) \/ (x = w /\ ~latched)
    BY <1>4, Zenon DEF HandleDeath
  <2>2. ~Dead(s)
    BY <1>4 DEF Dead
  <2> QED BY <1>1, <2>1, <2>2, Zenon
<1> QED BY <1>2, <1>3, <1>4

\* A spot is left, or kept.
LEMMA RotationSound ==
  ASSUME NEW c, Guarded(c), LivesOn(c), NEW w, Sound(c, w), NEW s,
         NEW x \in UpdateRotationEfficiency(w, s)
  PROVE  Sound(c, x) /\ (x.done \/ x = w)
<1> DEFINE u == [w EXCEPT !.kept.deaths = 0]
           v == BeginTrainRecovery(u)
<1>1. Sound(c, u)
  <2> DEFINE k == w.kept
  <2>1. k \in c.kepts /\ k \in Kepts
    BY DEF Sound, On, Guarded, Typed
  <2>2. KeptAs(k.latched, 0, k.learned) \in c.kepts
    BY <2>1 DEF LivesOn, KeptAs
  <2>3. [k EXCEPT !.deaths = 0] \in c.kepts
    <3> HIDE DEF k
    <3> QED BY <2>1, <2>2, KeptEdits
  <2>4. On(c, TripOf(w), [w EXCEPT !.kept = [k EXCEPT !.deaths = 0]])
    <3>1. On(c, TripOf(w), w)
      BY DEF Sound
    <3> HIDE DEF k
    <3> QED BY <2>3, <3>1, WritesOn, Zenon
  <2> QED BY <2>4, OnIsSound, Zenon
<1> HIDE DEF u
<1>2. Sound(c, v)
  BY <1>1, BeginReturnSound
<1> HIDE DEF v
<1>3. x = w \/ x \in Handled(v)
  BY Zenon DEF UpdateRotationEfficiency, WhenDue, u, v
<1> QED BY <1>2, <1>3, SoundHandles, Zenon

\* The route of an earlier life may be taken back, or another StopPath be counted.
MayTakeBack(c) ==
  \A r \in c.routes : r.pending =>
    /\ [FreeRoute EXCEPT !.map = r.map] \in c.routes
    /\ r.stops < OwnershipStops => [r EXCEPT !.stops = r.stops + 1] \in c.routes

\* A course with this route only.
OnRoute(c, r) == [traces |-> c.traces, clicks |-> c.clicks, routes |-> {r}, kepts |-> c.kepts]

\* A StopPath does not change the route.
LEMMA StopOn ==
  ASSUME NEW c, Guarded(c), Allows(c, "StopPath"), NEW j, NEW w, On(c, j, w), NEW s, NEW dest,
         NEW y \in SendDecision(w, s, "StopPath", dest)
  PROVE  On(c, j, y) /\ y.route = w.route
<1> DEFINE d == OnRoute(c, w.route)
<1>1. /\ d.traces = c.traces /\ d.clicks = c.clicks /\ d.routes = {w.route}
      /\ d.kepts = c.kepts
  BY DEF OnRoute
<1> HIDE DEF d
<1>2. w.route \in c.routes /\ On(d, j, w)
  BY <1>1 DEF On
<1>3. Guarded(d) /\ Allows(d, "StopPath")
  <2>1. Typed(d)
    BY <1>1, <1>2 DEF Guarded, Typed
  <2>2. Mails(d) /\ GuardSteps(d)
    BY <1>1, SameClicks DEF Guarded
  <2>3. Allows(d, "StopPath")
    BY <1>1, Zenon DEF Allows
  <2> QED BY <2>1, <2>2, <2>3 DEF Guarded
<1>4. On(d, j, y)
  BY <1>2, <1>3, SendOn DEF AllOn
<1> QED BY <1>1, <1>2, <1>4 DEF On

\* A cold start that does not know its route owns the tick.
LEMMA OwnershipSound ==
  ASSUME NEW c, Guarded(c), MayTakeBack(c), Allows(c, "StopPath"), NEW w, Sound(c, w), NEW s,
         NEW x \in HandleRouteOwnershipReset(w, s)
  PROVE  Sound(c, x) /\ (x.done \/ (x = w /\ ~w.route.pending))
<1> DEFINE free == [w EXCEPT !.route = [FreeRoute EXCEPT !.map = w.route.map]]
           stopped(y) == [y EXCEPT !.route.stops = IF y.ok THEN @ + 1 ELSE @, !.done = TRUE]
           stop == {stopped(y) : y \in SendDecision(w, s, "StopPath", "spot")}
<1>0. On(c, TripOf(w), w) /\ w.route \in c.routes
  BY DEF Sound, On
<1>1. \A v : Sound(c, v) => \A y \in Handled(v) : Sound(c, y) /\ y.done
  BY SoundHandles, Zenon
<1>2. CASE ~w.route.pending
  <2>1. x \in {w}
    BY <1>2 DEF HandleRouteOwnershipReset
  <2> QED BY <1>2, <2>1
<1>3. Sound(c, free) \/ ~w.route.pending
  <2> SUFFICES ASSUME w.route.pending
               PROVE  Sound(c, free)
    OBVIOUS
  <2>1. [FreeRoute EXCEPT !.map = w.route.map] \in c.routes
    BY <1>0, Zenon DEF MayTakeBack
  <2>2. On(c, TripOf(w), free)
    BY <1>0, <2>1, WritesOn, Zenon
  <2> QED BY <2>2, OnIsSound, Zenon
<1>4. ASSUME w.route.pending, w.route.stops < OwnershipStops,
             NEW y \in SendDecision(w, s, "StopPath", "spot")
      PROVE  Sound(c, stopped(y)) /\ stopped(y).done
  <2>1. On(c, TripOf(w), y) /\ y.route = w.route
    BY <1>0, StopOn
  <2> DEFINE r == w.route
             n == IF y.ok THEN r.stops + 1 ELSE r.stops
             u == [y EXCEPT !.route = [r EXCEPT !.stops = n]]
  <2>2. [r EXCEPT !.stops = r.stops + 1] \in c.routes /\ [r EXCEPT !.stops = r.stops] \in c.routes
    <3>1. [r EXCEPT !.stops = r.stops + 1] \in c.routes
      BY <1>0, <1>4, Zenon DEF MayTakeBack
    <3>2. r \in Routes
      BY <1>0 DEF Guarded, Typed
    <3>3. [r EXCEPT !.stops = r.stops] = r
      <4> HIDE DEF r
      <4> QED BY <3>2 DEF Routes
    <3> QED BY <1>0, <3>1, <3>3, Zenon
  <2>3. [r EXCEPT !.stops = n] \in c.routes
    BY <2>2, Zenon
  <2> HIDE DEF r, n
  <2>4. On(c, TripOf(w), u)
    BY <2>1, <2>3, WritesOn, Zenon
  <2> HIDE DEF u
  <2>5. Sound(c, u)
    BY <2>4, OnIsSound, Zenon
  <2>6. Sound(c, [u EXCEPT !.done = TRUE]) /\ [u EXCEPT !.done = TRUE].done
    BY <2>5, SoundHandles, Zenon
  <2>7. stopped(y) = [u EXCEPT !.done = TRUE]
    BY <2>1, Zenon DEF u, n, r
  <2> HIDE DEF stopped
  <2> QED BY <2>6, <2>7
<1>5. CASE w.route.pending
  <2> HIDE DEF stopped, free
  <2>1. \/ x \in Handled(w) \/ x \in Handled(free)
        \/ x \in stop /\ ~(w.route.stops >= OwnershipStops)
    <3> HIDE DEF stop
    <3> QED BY <1>5, Zenon DEF HandleRouteOwnershipReset, stop, stopped, free, WhenDue
  <2>2. CASE x \in stop /\ ~(w.route.stops >= OwnershipStops)
    <3>1. PICK y \in SendDecision(w, s, "StopPath", "spot") : x = stopped(y)
      BY <2>2
    <3>2. w.route.stops < OwnershipStops
      BY <1>0, <2>2, LifeAssumption DEF Guarded, Typed, Routes
    <3> QED BY <1>4, <1>5, <3>1, <3>2, Zenon
  <2> QED BY <1>1, <1>3, <1>5, <2>1, <2>2, Zenon
<1> QED BY <1>2, <1>5

\* In the underworld AutoFight is turned off before anything else.
LEMMA UnderworldSound ==
  ASSUME NEW c, Guarded(c), NEW w, Sound(c, w), NEW s, NEW x \in HandleUnderworldAutoFightGuard(w, s)
  PROVE  Sound(c, x) /\ (x.done \/ (x.client = w.client /\ x.route = w.route))
<1>1. On(c, TripOf(w), w) /\ IsRecord(w) /\ Typed(c)
  BY DEF Sound, On, Guarded
<1>2. CASE x \in Handle(EnsureAutoFightOffForTravel(w, s))
  <2>1. AllOn(c, TripOf(w), EnsureAutoFightOffForTravel(w, s))
    BY <1>1, GuardOn
  <2>2. AllSound(c, EnsureAutoFightOffForTravel(w, s))
    BY <2>1, OnIsSound, Zenon
  <2> QED BY <1>2, <2>2, SoundHandles, Zenon
<1>3. CASE x = ResetTravelFightGuard(w)
  <2>1. Sound(c, x)
    BY <1>3, ResetSound
  <2>2. \A z : [w EXCEPT !.guard = z].client = w.client /\ [w EXCEPT !.guard = z].route = w.route
    BY <1>1 DEF IsRecord
  <2>3. x = [w EXCEPT !.guard = Phase(w.guard, 0, 0)]
    <3>1. \A p, n : [w EXCEPT !.guard.phase = p, !.guard.stops = n] =
                      [w EXCEPT !.guard = Phase(w.guard, p, n)]
      BY <1>1, GuardWritten
    <3> QED BY <1>3, <3>1, Zenon DEF ResetTravelFightGuard
  <2> QED BY <2>1, <2>2, <2>3, Zenon
<1>4. CASE x \in Handled(w)
  BY <1>4, SoundHandles, Zenon
<1>5. x = w \/ x \in Handled(w) \/ x = ResetTravelFightGuard(w)
        \/ x \in Handle(EnsureAutoFightOffForTravel(w, s))
  BY Zenon DEF HandleUnderworldAutoFightGuard
<1> QED BY <1>2, <1>3, <1>4, <1>5

----------------------------------------------------------------------------
(* Movement, the priorities and the freeze *)

Maps == {"train", "npc", "gate", "underworld"}

\* The account may be seen moving, on any map.
MayMove(c) ==
  \A r \in c.routes : \A v, e \in BOOLEAN : \A m \in Maps \cup {r.map} :
    Way(r, r.armed, v, e, m) \in c.routes

\* Movement is noted in the route and the training only, and nothing is sent.
LEMMA ObserveOn ==
  ASSUME NEW c, Typed(c), MayMove(c), NEW j, NEW w, On(c, j, w), NEW s \in Snapshots
  PROVE  AllOn(c, j, ObserveMovement(w, s))
<1> DEFINE armed == w.route.armed
           seen  == armed /\ (w.route.seen \/ Pathing(s))
           m == MapOf(s.place)
           u == [w EXCEPT !.route.map = m, !.route.moved = armed, !.route.seen = seen]
           u1 == [u EXCEPT !.train.phase = 0]
           u2 == [u1 EXCEPT !.train.tries = 0]
           fresh == [u2 EXCEPT !.train.at = FALSE]
           still == IF armed THEN [w EXCEPT !.route.seen = seen] ELSE w
           moved == [still EXCEPT !.route.moved = TRUE]
<1>1. m \in Maps
  BY DEF Snapshots, MapOf, Maps
<1>2. w.route \in c.routes /\ w.route \in Routes /\ armed \in BOOLEAN /\ seen \in BOOLEAN
  <2>1. w.route \in c.routes /\ w.route \in Routes
    BY DEF On, Typed
  <2>2. armed \in BOOLEAN
    BY <2>1 DEF Routes
  <2> QED BY <2>1, <2>2
<1>3. IsRecord(w)
  BY DEF On
<1> HIDE DEF armed, seen, m
<1>4. On(c, j, u)
  <2> DEFINE r == w.route
             r1 == [r EXCEPT !.map = m, !.moved = armed, !.seen = seen]
  <2>1. u = [w EXCEPT !.route = r1]
    <3>1. \A x, y, z :
            [w EXCEPT !.route.map = x, !.route.moved = y, !.route.seen = z] =
            [w EXCEPT !.route = [w.route EXCEPT !.map = x, !.moved = y, !.seen = z]]
      BY <1>3, RouteTogether, Zenon
    <3> QED BY <3>1, Zenon
  <2>2. r1 = Way(r, r.armed, armed, seen, m)
    <3>1. r \in Routes
      BY <1>2
    <3> HIDE DEF r
    <3> DEFINE d0 == [r EXCEPT !.map = m]
               e0 == [d0 EXCEPT !.moved = armed]
    <3>2. d0 = Way(r, r.armed, r.moved, r.seen, m)
      BY <3>1 DEF Routes, Way
    <3> HIDE DEF d0
    <3>3. e0 = Way(r, r.armed, armed, r.seen, m)
      BY <3>2 DEF Way
    <3> HIDE DEF e0
    <3>4. [e0 EXCEPT !.seen = seen] = Way(r, r.armed, armed, seen, m)
      BY <3>3 DEF Way
    <3> QED BY <3>4, Zenon DEF e0, d0
  <2> HIDE DEF r1
  <2>3. r1 \in c.routes
    <3>1. m \in Maps \cup {r.map}
      BY <1>1
    <3> QED BY <1>2, <2>2, <3>1, Zenon DEF MayMove
  <2> QED BY <2>1, <2>3, WritesOn, Zenon
<1>5. \A v : On(c, j, v) => \A x \in BOOLEAN : /\ On(c, j, [v EXCEPT !.route.seen = x])
                                               /\ On(c, j, [v EXCEPT !.route.moved = x])
  <2> SUFFICES ASSUME NEW v, On(c, j, v), NEW x \in BOOLEAN
               PROVE  /\ On(c, j, [v EXCEPT !.route = [v.route EXCEPT !.seen = x]])
                      /\ On(c, j, [v EXCEPT !.route = [v.route EXCEPT !.moved = x]])
    BY Zenon
  <2> DEFINE r == v.route
  <2>1. r \in c.routes /\ r \in Routes
    BY DEF On, Typed
  <2> HIDE DEF r
  <2>2. r.seen \in BOOLEAN /\ r.moved \in BOOLEAN
    BY <2>1 DEF Routes
  <2>3. [r EXCEPT !.seen = x] = Way(r, r.armed, r.moved, x, r.map)
          /\ [r EXCEPT !.moved = x] = Way(r, r.armed, x, r.seen, r.map)
    BY <2>1, RouteParts, Zenon
  <2>4. Way(r, r.armed, r.moved, x, r.map) \in c.routes
          /\ Way(r, r.armed, x, r.seen, r.map) \in c.routes
    BY <2>1, <2>2 DEF MayMove
  <2>5. [r EXCEPT !.seen = x] \in c.routes /\ [r EXCEPT !.moved = x] \in c.routes
    BY <2>3, <2>4, Zenon
  <2> QED BY <2>5, WritesOn, Zenon DEF r
<1> HIDE DEF u
<1>6. On(c, j, fresh)
  <2>1. 0 \in {0, 2, 3} /\ 0 \in 0 .. 2 /\ FALSE \in BOOLEAN
    OBVIOUS
  <2>2. On(c, j, u1)
    BY <1>4, <2>1, TrainWritten, Zenon
  <2> HIDE DEF u1
  <2>3. On(c, j, u2)
    BY <2>1, <2>2, TrainWritten, Zenon
  <2> HIDE DEF u2
  <2> QED BY <2>1, <2>3, TrainWritten, Zenon
<1>7. On(c, j, still)
  BY <1>2, <1>5, Zenon
<1> HIDE DEF still
<1>8. On(c, j, moved)
  <2>1. TRUE \in BOOLEAN
    OBVIOUS
  <2> QED BY <1>5, <1>7, <2>1, Zenon
<1> HIDE DEF moved
<1>9. fresh = [w EXCEPT !.route.map = m, !.route.moved = armed, !.route.seen = seen,
                        !.train.phase = 0, !.train.tries = 0, !.train.at = FALSE]
  BY Zenon DEF u
<1> HIDE DEF fresh
<1>10. \A x \in ObserveMovement(w, s) : x = w \/ x = fresh \/ x = still \/ x = moved
  BY <1>9, Zenon DEF ObserveMovement, still, moved, armed, seen, m
<1> QED BY <1>6, <1>7, <1>8, <1>10, Zenon DEF AllOn

\* The confirmation at the gate, of a route that is armed.
LEMMA ConfirmOn ==
  ASSUME NEW c, Typed(c), NEW j, NEW w, On(c, j, w), NEW s,
         w.route.armed => Allows(c, "ConfirmMap")
  PROVE  AllOn(c, j, PriorityLauLanGateConfirmClick(w, s))
<1> DEFINE sure == {[x EXCEPT !.done = x.ok] : x \in Call(w, "ConfirmMap")}
<1>1. CASE LauLanGateConfirmDue(w, s)
  <2>1. w.client = "ok" /\ Allows(c, "ConfirmMap")
    BY <1>1 DEF LauLanGateConfirmDue
  <2>2. AllOn(c, j, Call(w, "ConfirmMap"))
    BY <2>1, CallOn
  <2>3. \A x : On(c, j, x) => On(c, j, [x EXCEPT !.done = x.ok])
    BY WritesOn, Zenon
  <2>4. AllOn(c, j, sure)
    BY <2>2, <2>3, Zenon DEF AllOn
  <2> HIDE DEF sure
  <2>5. AllOn(c, j, {w})
    BY HandlesOn, Zenon
  <2>6. AllOn(c, j, WhenDue(w, sure, {w}))
    BY <2>4, <2>5, HandlesOn, Zenon
  <2> QED BY <1>1, <2>6, Zenon DEF PriorityLauLanGateConfirmClick, sure
<1>2. CASE ~LauLanGateConfirmDue(w, s)
  BY <1>2, HandlesOn, Zenon DEF PriorityLauLanGateConfirmClick
<1> QED BY <1>1, <1>2

\* The click of the revival, or the death it is the first to see.
LEMMA ReviveSound ==
  ASSUME NEW c, Typed(c), NEW s, Dead(s) => MayDie(c) /\ Allows(c, "Revive"),
         NEW w, Sound(c, w), NEW x \in PriorityReviveClick(w, s)
  PROVE  Sound(c, x)
<1> DEFINE sent1(y) == [y EXCEPT !.revive = IF y.ok THEN 1 ELSE 0, !.done = y.ok]
           revived == {sent1(y) : y \in Call(w, "Revive")}
<1>1. CASE w.client # "ok" \/ ~Dead(s)
  <2>1. x \in {w}
    BY <1>1, Zenon DEF PriorityReviveClick
  <2> QED BY <2>1
<1>2. CASE w.client = "ok" /\ Dead(s) /\ ~w.kept.latched /\ x \in BeginDeathSession(w)
  <2>1. <<"ok", w.sent>> \in c.traces
    BY <1>2 DEF Sound, On
  <2> QED BY <1>2, <2>1, DeathSessionSound
<1>3. CASE w.client = "ok" /\ Dead(s) /\ x \in revived
  <2>1. PICK y \in Call(w, "Revive") : x = sent1(y)
    BY <1>3, Zenon
  <2>2. On(c, TripOf(w), w) /\ Allows(c, "Revive")
    BY <1>3 DEF Sound
  <2>3. On(c, TripOf(w), y)
    BY <1>3, <2>1, <2>2, CallOn DEF AllOn
  <2> DEFINE n == IF y.ok THEN 1 ELSE 0
             z == [y EXCEPT !.revive = n]
  <2>4. n \in 0 .. 2
    OBVIOUS
  <2> HIDE DEF n
  <2>5. On(c, TripOf(w), z)
    BY <2>3, <2>4, WritesOn, Zenon
  <2>6. x = [z EXCEPT !.done = y.ok]
    BY <2>1, Zenon DEF n
  <2> HIDE DEF z
  <2>7. On(c, TripOf(w), x)
    BY <2>5, <2>6, WritesOn, Zenon
  <2> QED BY <2>7, OnIsSound, Zenon
<1>4. \/ w.client # "ok" \/ ~Dead(s) \/ x = w \/ (~w.kept.latched /\ x \in BeginDeathSession(w))
      \/ x \in revived
  BY Zenon DEF PriorityReviveClick, WhenDue
<1> HIDE DEF revived
<1> QED BY <1>1, <1>2, <1>3, <1>4

----------------------------------------------------------------------------
(* The priority click *)

\* A mailbox with its first click done, and one whose request has its result.
Pointed(b) == [req |-> b.req, point |-> 1, res |-> b.res, ok |-> b.ok]
Completed(b, good) == [req |-> None, point |-> 0, res |-> b.req, ok |-> good]

\* The point that is clicked next.
PointOf(b) ==
  IF ~IsAttack(b.req) THEN "ClickStop" ELSE IF b.point = 0 THEN "ClickAuto" ELSE "ClickAttack"

\* The mailbox after an answered click.
AfterClick(b, answer) ==
  IF answer = "ok" /\ PointOf(b) = "ClickAuto" THEN Pointed(b) ELSE Completed(b, answer = "ok")

\* Where the priority click leaves the client, the calls and the mailbox.
ClickEnd(w, x) ==
  \/ x.client = w.client /\ x.sent = w.sent /\ x.box = w.box
  \/ /\ w.client = "ok" /\ w.box.req # None
     /\ \/ x.client = "ok" /\ x.sent = w.sent /\ x.box = Completed(w.box, FALSE)
        \/ \E answer \in Replies :
             /\ x.client = IF answer = "timeout" THEN "frozen" ELSE "ok"
             /\ x.sent = Append(w.sent, [do |-> PointOf(w.box), answer |-> answer])
             /\ x.box = AfterClick(w.box, answer)

\* Where a call leaves the client, the calls and the mailbox.
LEMMA AnsweredFields ==
  ASSUME NEW w, IsRecord(w), NEW what, NEW answer
  PROVE  LET v == Answered(w, what, answer) IN
           /\ v.client = IF answer = "timeout" THEN "frozen" ELSE w.client
           /\ v.sent = Append(w.sent, [do |-> what, answer |-> answer])
           /\ v.box = w.box /\ v.guard = w.guard /\ v.kept = w.kept
<1>1. PICK a, b, c, d, e, f, g, h, i, j, k, l, m, n, o, p, q :
           w = RecordOf(a, b, c, d, e, f, g, h, i, j, k, l, m, n, o, p, q)
  BY RecordParts
<1> DEFINE sent1 == Append(l, [do |-> what, answer |-> answer])
           good == answer = "ok"
           v1 == [w EXCEPT !.sent = sent1]
           v2 == [v1 EXCEPT !.ok = good]
           v3 == [v2 EXCEPT !.client = "frozen"]
           t == [v3.train EXCEPT !.phase = 0]
           v4 == [v3 EXCEPT !.train = t]
<1>2. w.sent = l
  BY <1>1, RecordRead
<1> HIDE DEF sent1, good
<1>3. v1 = RecordOf(a, b, c, d, e, f, g, h, i, j, k, sent1, m, n, o, p, q)
  BY <1>1 DEF RecordOf
<1> HIDE DEF v1
<1>4. v2 = RecordOf(a, b, c, d, e, f, g, h, i, j, k, sent1, m, n, good, p, q)
  BY <1>3 DEF RecordOf
<1> HIDE DEF v2
<1>5. v3 = RecordOf(a, "frozen", c, d, e, f, g, h, i, j, k, sent1, m, n, good, p, q)
  BY <1>4 DEF RecordOf
<1> HIDE DEF v3, t
<1>6. v4 = RecordOf(a, "frozen", c, d, e, f, t, h, i, j, k, sent1, m, n, good, p, q)
  BY <1>5 DEF RecordOf
<1> HIDE DEF v4
<1>7. /\ w.client = b /\ w.box = c /\ w.guard = d /\ w.kept = j
      /\ v2.client = b /\ v2.sent = sent1 /\ v2.box = c /\ v2.guard = d /\ v2.kept = j
      /\ v4.client = "frozen" /\ v4.sent = sent1 /\ v4.box = c /\ v4.guard = d /\ v4.kept = j
  BY <1>1, <1>4, <1>6, RecordRead
<1>8. Answered(w, what, answer) = IF answer = "timeout" THEN v4 ELSE v2
  BY <1>2, Zenon DEF Answered, EnterClientFreeze, v4, t, v3, v2, v1, good, sent1
<1>9. sent1 = Append(w.sent, [do |-> what, answer |-> answer])
  BY <1>2 DEF sent1
<1> QED BY <1>7, <1>8, <1>9

\* Another mailbox leaves the client, the calls and the guard.
LEMMA BoxAlone ==
  ASSUME NEW w, IsRecord(w), NEW b
  PROVE  /\ [w EXCEPT !.box = b].client = w.client /\ [w EXCEPT !.box = b].sent = w.sent
         /\ [w EXCEPT !.box = b].guard = w.guard /\ [w EXCEPT !.box = b].box = b
         /\ No(w).client = w.client /\ No(w).sent = w.sent
         /\ No(w).guard = w.guard /\ No(w).box = w.box
<1>1. \A x : LET v == [w EXCEPT !.ok = x] IN
        v.client = w.client /\ v.sent = w.sent /\ v.guard = w.guard /\ v.box = w.box
  BY DEF IsRecord
<1>2. LET v == No(w) IN
        v.client = w.client /\ v.sent = w.sent /\ v.guard = w.guard /\ v.box = w.box
  BY <1>1, Zenon DEF No
<1> QED BY <1>2 DEF IsRecord

\* The clicks of a course may be made, whatever they end with.
MayClick(c) ==
  /\ \A what \in {"ClickStop", "ClickAuto", "ClickAttack"} : Allows(c, what)
  /\ \A b, g : <<b, g>> \in c.clicks /\ b.req # None =>
       /\ \A good \in BOOLEAN : <<Completed(b, good), g>> \in c.clicks
       /\ IsAttack(b.req) => <<Pointed(b), g>> \in c.clicks

\* A request that is completed without a click.
LEMMA CompleteOn ==
  ASSUME NEW c, MayClick(c), NEW j, NEW w, On(c, j, w), w.box.req # None, NEW good \in BOOLEAN
  PROVE  LET x == Complete(w, good) IN
           /\ On(c, j, x) /\ On(c, j, No(x)) /\ x.box = Completed(w.box, good)
           /\ x.guard = w.guard /\ x.client = w.client /\ x.sent = w.sent
           /\ No(x).box = x.box /\ No(x).guard = x.guard
           /\ No(x).client = x.client /\ No(x).sent = x.sent
<1> DEFINE b == Completed(w.box, good)
           x == [w EXCEPT !.box = b]
<1>1. IsRecord(w) /\ <<b, w.guard>> \in c.clicks
  BY DEF On, MayClick
<1>2. On(c, j, x)
  BY <1>1, FieldOn
<1>3. x.client = w.client /\ x.sent = w.sent /\ x.guard = w.guard /\ x.box = b
  BY <1>1, BoxAlone
<1>4. Complete(w, good) = x
  BY Zenon DEF Complete, Completed
<1> HIDE DEF x
<1>5. IsRecord(x)
  BY <1>2 DEF On
<1>6. No(x).client = x.client /\ No(x).sent = x.sent /\ No(x).guard = x.guard /\ No(x).box = x.box
  BY <1>5, BoxAlone
<1>7. On(c, j, No(x))
  BY <1>2, HandlesOn
<1> QED BY <1>2, <1>3, <1>4, <1>6, <1>7

\* The click itself and its answer.
LEMMA ClickedOn ==
  ASSUME NEW c, Typed(c), MayClick(c), NEW j, NEW w, On(c, j, w), w.client = "ok",
         w.box.req # None, NEW x \in Clicked(w, PointOf(w.box))
  PROVE  /\ On(c, j, x) /\ x.guard = w.guard
         /\ \E answer \in Replies :
              /\ x.client = IF answer = "timeout" THEN "frozen" ELSE "ok"
              /\ x.sent = Append(w.sent, [do |-> PointOf(w.box), answer |-> answer])
              /\ x.box = AfterClick(w.box, answer)
<1> DEFINE point == PointOf(w.box)
           next(v) == IF v.ok /\ point = "ClickAuto" THEN [v EXCEPT !.box.point = 1]
                      ELSE Complete(v, v.ok)
<1>1. PICK answer \in Replies : x = next(Answered(w, point, answer))
  <2>1. PICK answer \in Answers(w) : x = next(Answered(w, point, answer))
    BY Zenon DEF Clicked, Call
  <2>2. w.scene \in DOMAIN Scenes
    BY DEF On
  <2>3. answer \in Replies
    BY <2>1, <2>2, AnswersOn
  <2> QED BY <2>1, <2>3
<1>2. point \in {"ClickStop", "ClickAuto", "ClickAttack"}
        /\ (point = "ClickAuto" => IsAttack(w.box.req))
  BY DEF PointOf
<1> HIDE DEF point
<1> DEFINE v == Answered(w, point, answer)
<1>3. Allows(c, point)
  BY <1>2 DEF MayClick
<1>4. On(c, j, v) /\ v.ok = (answer = "ok")
  BY <1>3, AnsweredOn
<1>5. IsRecord(w)
  BY DEF On
<1>6. /\ v.client = IF answer = "timeout" THEN "frozen" ELSE "ok"
      /\ v.sent = Append(w.sent, [do |-> point, answer |-> answer])
      /\ v.box = w.box /\ v.guard = w.guard
  BY <1>5, AnsweredFields
<1>7. x = next(v)
  BY <1>1
<1> HIDE DEF v
<1>8. CASE answer = "ok" /\ point = "ClickAuto"
  <2> DEFINE b == v.box
             b1 == [b EXCEPT !.point = 1]
             u == [v EXCEPT !.box = b1]
  <2>1. x = u
    BY <1>4, <1>7, <1>8, Zenon
  <2>2. b \in Mailbox
    BY <1>4, BoxOn
  <2> HIDE DEF b
  <2>3. b1 = Pointed(b)
    BY <2>2 DEF Mailbox, Pointed
  <2>4. b = w.box
    BY <1>6 DEF b
  <2>5. <<b1, v.guard>> \in c.clicks
    <3>1. <<w.box, w.guard>> \in c.clicks
      BY DEF On
    <3> QED BY <1>2, <1>6, <1>8, <2>3, <2>4, <3>1 DEF MayClick
  <2> HIDE DEF b1
  <2>6. On(c, j, u)
    BY <1>4, <2>5, FieldOn
  <2>7. IsRecord(v)
    BY <1>4 DEF On
  <2>8. u.client = v.client /\ u.sent = v.sent /\ u.guard = v.guard /\ u.box = b1
    BY <2>7, BoxAlone
  <2> HIDE DEF u
  <2>9. x.box = AfterClick(w.box, answer)
    BY <1>8, <2>1, <2>3, <2>4, <2>8 DEF AfterClick, point
  <2> QED BY <1>6, <2>1, <2>6, <2>8, <2>9 DEF point
<1>9. CASE ~(answer = "ok" /\ point = "ClickAuto")
  <2> DEFINE good == answer = "ok"
             y == Complete(v, good)
  <2>1. x = y
    BY <1>4, <1>7, <1>9
  <2>2. good \in BOOLEAN /\ v.box.req # None
    BY <1>6
  <2> HIDE DEF good
  <2>3. /\ On(c, j, y) /\ y.box = Completed(v.box, good) /\ y.guard = v.guard
        /\ y.client = v.client /\ y.sent = v.sent
    BY <1>4, <2>2, CompleteOn
  <2> HIDE DEF y
  <2>4. x.box = AfterClick(w.box, answer)
    BY <1>6, <1>9, <2>1, <2>3, Zenon DEF AfterClick, point, good
  <2> QED BY <1>6, <2>1, <2>3, <2>4 DEF point
<1> QED BY <1>8, <1>9

\* The priority click: cancelled, misplaced, or clicked.
LEMMA ClickOn ==
  ASSUME NEW c, Typed(c), MayClick(c), NEW j, NEW w, On(c, j, w), NEW s,
         NEW x \in PriorityAutoClick(w, s)
  PROVE  On(c, j, x) /\ x.guard = w.guard /\ ClickEnd(w, x)
<1> DEFINE point == PointOf(w.box)
           clicked == Clicked(w, point)
           misplaced == IF w.calm THEN {} ELSE {No(Complete(w, FALSE))}
<1>1. CASE w.box.req = None \/ w.client # "ok"
  <2>1. x \in {w}
    BY <1>1, Zenon DEF PriorityAutoClick
  <2> QED BY <2>1 DEF ClickEnd
<1>2. CASE w.box.req # None /\ w.client = "ok"
  <2> DEFINE no == FALSE
             y == Complete(w, no)
  <2>1. no \in BOOLEAN
    OBVIOUS
  <2>2. x = w \/ x = y \/ x = No(y) \/ x \in clicked
    BY Zenon DEF PriorityAutoClick, WhenDue, Clicked, PointOf
  <2> HIDE DEF no
  <2>3. /\ On(c, j, y) /\ On(c, j, No(y)) /\ y.box = Completed(w.box, no)
        /\ y.guard = w.guard /\ y.client = w.client /\ y.sent = w.sent
        /\ No(y).box = y.box /\ No(y).guard = y.guard
        /\ No(y).client = y.client /\ No(y).sent = y.sent
    BY <1>2, <2>1, CompleteOn
  <2> HIDE DEF y
  <2>4. CASE x = w
    BY <2>4 DEF ClickEnd
  <2>5. CASE x = y \/ x = No(y)
    <3>1. On(c, j, x) /\ x.guard = w.guard
      BY <2>3, <2>5
    <3>2. x.client = "ok" /\ x.sent = w.sent /\ x.box = Completed(w.box, no)
      BY <1>2, <2>3, <2>5
    <3>3. ClickEnd(w, x)
      BY <1>2, <3>2, Zenon DEF ClickEnd, no
    <3> QED BY <3>1, <3>3
  <2>6. CASE x \in clicked
    <3>1. On(c, j, x) /\ x.guard = w.guard
      BY <1>2, <2>6, ClickedOn
    <3>2. ClickEnd(w, x)
      BY <1>2, <2>6, ClickedOn DEF ClickEnd
    <3> QED BY <3>1, <3>2
  <2> QED BY <2>2, <2>4, <2>5, <2>6
<1> QED BY <1>1, <1>2

----------------------------------------------------------------------------
(* The stages of a tick *)

\* The priorities of a course: its clicks, the gate if a route may be armed, and
\* of a dead character the revival.
Prior(c, s) ==
  /\ Typed(c) /\ MayClick(c)
  /\ (\E r \in c.routes : r.armed) => Allows(c, "ConfirmMap")
  /\ Dead(s) => MayDie(c) /\ Allows(c, "Revive")

\* The three priorities, one after the other.
LEMMA PrioritiesSound ==
  ASSUME NEW c, NEW s, Prior(c, s), NEW w, Sound(c, w)
  PROVE  AllSound(c, Priorities(w, s))
<1> DEFINE one == PriorityLauLanGateConfirmClick(w, s)
           two == UNION {IF x.done THEN {x} ELSE PriorityReviveClick(x, s) : x \in one}
           three == UNION {IF x.done THEN {x} ELSE PriorityAutoClick(x, s) : x \in two}
<1>1. AllSound(c, one)
  <2>1. On(c, TripOf(w), w) /\ Typed(c)
    BY DEF Sound, Prior
  <2>2. w.route.armed => Allows(c, "ConfirmMap")
    BY <2>1 DEF On, Prior
  <2>3. AllOn(c, TripOf(w), one)
    BY <2>1, <2>2, ConfirmOn
  <2> HIDE DEF one
  <2> QED BY <2>3, OnIsSound
<1> HIDE DEF one
<1>2. AllSound(c, two)
  <2>1. Typed(c) /\ (Dead(s) => MayDie(c) /\ Allows(c, "Revive"))
    BY DEF Prior
  <2>2. \A x \in one : AllSound(c, PriorityReviveClick(x, s))
    BY <1>1, <2>1, ReviveSound DEF AllSound
  <2>3. \A x \in one : AllSound(c, IF x.done THEN {x} ELSE PriorityReviveClick(x, s))
    BY <1>1, <2>2, Zenon DEF AllSound
  <2> QED BY <2>3, Zenon DEF AllSound
<1> HIDE DEF two
<1>3. AllSound(c, three)
  <2>1. ASSUME NEW x \in two, NEW y \in PriorityAutoClick(x, s)
        PROVE  Sound(c, y)
    <3>1. Typed(c) /\ MayClick(c) /\ Sound(c, x) /\ On(c, TripOf(x), x)
      BY <1>2 DEF Prior, AllSound, Sound
    <3>2. On(c, TripOf(x), y)
      BY <2>1, <3>1, ClickOn
    <3> QED BY <3>1, <3>2, OnIsSound
  <2>2. \A x \in two : AllSound(c, IF x.done THEN {x} ELSE PriorityAutoClick(x, s))
    BY <1>2, <2>1, Zenon DEF AllSound
  <2> QED BY <2>2, Zenon DEF AllSound
<1> HIDE DEF three
<1>4. \A x : Sound(c, x) => Sound(c, [x EXCEPT !.done = FALSE])
  BY SoundWrites, Zenon
<1>5. AllSound(c, {[x EXCEPT !.done = FALSE] : x \in three})
  BY <1>3, <1>4, Zenon DEF AllSound
<1> QED BY <1>5, Zenon DEF Priorities, Then, three, two, one

\* A client that does not answer: where the tick ends, and that one that was frozen
\* is only asked again in a later tick.
Holds(c, d) ==
  /\ Within(c, d)
  /\ \A q, x : <<x, q>> \in c.traces =>
       /\ <<"frozen", q>> \in d.traces /\ <<"settling", q>> \in d.traces
       /\ x # "frozen" => <<"ok", q>> \in c.traces

\* The wait for a stable client; who goes on has one.
LEMMA HoldSound ==
  ASSUME NEW c, NEW d, Holds(c, d), NEW w, Sound(c, w), NEW s,
         NEW x \in HoldUntilClientStable(w, s)
  PROVE  Sound(d, x) /\ (x.done \/ (Sound(c, x) /\ x.client = "ok"))
<1>1. Sound(d, w) /\ On(d, TripOf(w), w) /\ On(c, TripOf(w), w)
  BY Wider DEF Holds, Sound
<1>2. /\ <<"frozen", w.sent>> \in d.traces /\ <<"settling", w.sent>> \in d.traces
      /\ w.client # "frozen" => <<"ok", w.sent>> \in c.traces
  BY <1>1 DEF Holds, On
<1>3. \A y : On(d, TripOf(w), y) => \A z \in Handled(y) : Sound(d, z) /\ z.done
  BY <1>1, OnIsSound, SoundHandles
<1> DEFINE frozen == [w EXCEPT !.client = "frozen"]
           settling == [w EXCEPT !.client = "settling"]
           resumed == [w EXCEPT !.client = "ok"]
           y0 == EnterClientFreeze(w)
<1>4. On(d, TripOf(w), frozen) /\ On(d, TripOf(w), settling) /\ On(d, TripOf(w), y0)
  BY <1>1, <1>2, FieldOn, FreezeOn
<1>5. w.client # "frozen" => Sound(c, resumed) /\ resumed.client = "ok"
  <2>1. w.client # "frozen" => On(c, TripOf(w), resumed)
    BY <1>1, <1>2, FieldOn
  <2>2. resumed.client = "ok"
    BY <1>1 DEF On, IsRecord
  <2> HIDE DEF resumed
  <2> QED BY <2>1, <2>2, OnIsSound
<1>6. \/ x \in Handled(y0) \/ x \in Handled(frozen) \/ x \in Handled(settling) \/ x \in Handled(w)
      \/ x = w /\ w.client = "ok"
      \/ x = resumed /\ w.client # "frozen"
  BY Zenon DEF HoldUntilClientStable, WhenDue
<1> HIDE DEF frozen, settling, resumed, y0
<1>7. CASE x = resumed /\ w.client # "frozen"
  <2>1. Sound(d, x)
    BY <1>5, <1>7, Wider DEF Holds
  <2> QED BY <1>5, <1>7, <2>1
<1> QED BY <1>1, <1>3, <1>4, <1>6, <1>7

\* Movement, and if the account is not paused the priorities; then the client.
Watched(w, s, pause) ==
  Then(Then(ObserveMovement(w, s), LAMBDA x : IF pause = "no" THEN Priorities(x, s) ELSE {x}),
       LAMBDA x : IF pause = "recording" THEN {x} ELSE HoldUntilClientStable(x, s))

\* The tick up to the client: it is over, or the client is there or the account paused.
LEMMA WatchedSound ==
  ASSUME NEW c, NEW d, NEW s \in Snapshots, Prior(c, s), MayMove(c), Holds(c, d),
         NEW w, Sound(c, w), NEW pause, NEW x \in Watched(w, s, pause)
  PROVE  Sound(d, x) /\ (x.done \/ (Sound(c, x) /\ (pause = "no" => x.client = "ok")))
<1> DEFINE first(y) == IF pause = "no" THEN Priorities(y, s) ELSE {y}
           second(y) == IF pause = "recording" THEN {y} ELSE HoldUntilClientStable(y, s)
           one == ObserveMovement(w, s)
           two == UNION {IF y.done THEN {y} ELSE first(y) : y \in one}
           three == UNION {IF y.done THEN {y} ELSE second(y) : y \in two}
           good(y) == Sound(d, y) /\ (y.done \/ (Sound(c, y) /\ (pause = "no" => y.client = "ok")))
<1>1. AllSound(c, one)
  <2>1. On(c, TripOf(w), w) /\ Typed(c)
    BY DEF Sound, Prior
  <2>2. AllOn(c, TripOf(w), one)
    BY <2>1, ObserveOn
  <2> HIDE DEF one
  <2> QED BY <2>2, OnIsSound
<1> HIDE DEF one
<1>2. AllSound(c, two)
  <2>1. \A y \in one : AllSound(c, first(y))
    <3>1. \A y \in one : AllSound(c, Priorities(y, s)) /\ AllSound(c, {y})
      BY <1>1, PrioritiesSound DEF AllSound
    <3> QED BY <3>1, Zenon
  <2> HIDE DEF first
  <2>2. \A y \in one : AllSound(c, IF y.done THEN {y} ELSE first(y))
    BY <1>1, <2>1, Zenon DEF AllSound
  <2> QED BY <2>2, Zenon DEF AllSound
<1> HIDE DEF two
<1>3. ASSUME NEW y \in two
      PROVE  \A z \in IF y.done THEN {y} ELSE second(y) : good(z)
  <2>1. Sound(c, y) /\ Sound(d, y)
    <3>1. Sound(c, y)
      BY <1>2 DEF AllSound
    <3> QED BY <3>1, Wider DEF Holds
  <2>2. \A z \in HoldUntilClientStable(y, s) : good(z)
    BY <2>1, HoldSound
  <2>3. y.done \/ pause = "recording" => good(y)
    BY <2>1
  <2> HIDE DEF good
  <2> QED BY <2>2, <2>3, Zenon
<1>4. \A z \in three : good(z)
  <2> HIDE DEF good, second
  <2> QED BY <1>3, Zenon
<1>5. x \in three
  BY Zenon DEF Watched, Then, three, two, one, first, second
<1> QED BY <1>4, <1>5

\* The courses on which an account lives and takes its route back.
Lives(c, s) ==
  /\ Guarded(c) /\ LivesOn(c) /\ MayTakeBack(c) /\ Allows(c, "StopPath")
  /\ Dead(s) => MayDie(c)
  /\ ~Dead(s) => MayBeBorn(c)

\* The life of the account: who goes on is alive, is still answered, and owns its route.
LEMMA LifeSound ==
  ASSUME NEW c, NEW s, Lives(c, s), NEW w, Sound(c, w), w.client = "ok",
         NEW x \in LifeAndRoute(w, s)
  PROVE  /\ Sound(c, x)
         /\ x.done \/ (~Dead(s) /\ x.client = "ok" /\ x.route = w.route /\ ~w.route.pending)
<1> DEFINE one == HandleDeath(w, s)
           two == UNION {IF y.done THEN {y} ELSE UpdateRotationEfficiency(y, s) : y \in one}
           three == UNION {IF y.done THEN {y} ELSE HandleRouteOwnershipReset(y, s) : y \in two}
           four == UNION {IF y.done THEN {y} ELSE HandleUnderworldAutoFightGuard(y, s) : y \in three}
           as(y) == Sound(c, y) /\ (y.done \/ (y = w /\ ~Dead(s)))
           owned(y) == Sound(c, y) /\ (y.done \/ (y = w /\ ~Dead(s) /\ ~w.route.pending))
           end(y) ==
             /\ Sound(c, y)
             /\ y.done \/ (~Dead(s) /\ y.client = "ok" /\ y.route = w.route /\ ~w.route.pending)
<1>1. Guarded(c) /\ Typed(c) /\ LivesOn(c) /\ MayTakeBack(c) /\ Allows(c, "StopPath")
  BY DEF Lives, Guarded
<1>2. \A y \in one : as(y)
  <2>1. <<"ok", w.sent>> \in c.traces
    BY DEF Sound, On
  <2> QED BY <1>1, <2>1, DeathSound DEF Lives
<1> HIDE DEF one
<1>3. \A y \in two : as(y)
  <2>1. ASSUME NEW y \in one, ~y.done, NEW z \in UpdateRotationEfficiency(y, s)
        PROVE  as(z)
    BY <1>1, <1>2, <2>1, RotationSound
  <2> HIDE DEF as
  <2> QED BY <1>2, <2>1, Zenon
<1> HIDE DEF two
<1>4. \A y \in three : owned(y)
  <2>1. ASSUME NEW y \in two, ~y.done, NEW z \in HandleRouteOwnershipReset(y, s)
        PROVE  owned(z)
    BY <1>1, <1>3, <2>1, OwnershipSound
  <2>2. \A y \in two : y.done => owned(y)
    BY <1>3
  <2> HIDE DEF owned
  <2> QED BY <2>1, <2>2, Zenon
<1> HIDE DEF three
<1>5. \A y \in four : end(y)
  <2>1. ASSUME NEW y \in three, ~y.done, NEW z \in HandleUnderworldAutoFightGuard(y, s)
        PROVE  end(z)
    <3>1. y = w /\ Sound(c, w) /\ ~Dead(s) /\ ~w.route.pending
      BY <1>4, <2>1
    <3>2. Sound(c, z) /\ (z.done \/ (z.client = w.client /\ z.route = w.route))
      BY <1>1, <2>1, <3>1, UnderworldSound
    <3> QED BY <3>1, <3>2
  <2>2. \A y \in three : y.done => end(y)
    BY <1>4
  <2> HIDE DEF end
  <2> QED BY <2>1, <2>2, Zenon
<1>6. x \in four
  BY Zenon DEF LifeAndRoute, Then, four, three, two, one
<1> QED BY <1>5, <1>6

\* What it does with its life.
LEMMA WorkSound ==
  ASSUME NEW c, Sells(c), NEW w, Sound(c, w), w.client = "ok", NEW s, s.bag \in {None} \cup Nat
  PROVE  AllSound(c, Work(w, s))
<1> DEFINE one == WhenDue(w, {w}, Handled(w))
           two == UNION {IF x.done THEN {x} ELSE SellOrGoOn(x, s) : x \in one}
           three == UNION {IF x.done THEN {x} ELSE HandleTrainRecovery(x, s) : x \in two}
           four == UNION {IF x.done THEN {x} ELSE Monitor(x, s) : x \in three}
           five == UNION {IF x.done THEN {x} ELSE TrainOrRoute(x, s) : x \in four}
           begun(x) == Sound(c, x) /\ (x.done \/ x.client = "ok")
           unsold(x) == Sound(c, x) /\ (x.done \/ x.sell.phase = 0)
           free(x) == Sound(c, x) /\ (x.done \/ (x.sell.phase = 0 /\ ~x.train.back))
<1>1. Roads(c)
  BY DEF Sells
<1>2. \A x \in one : begun(x)
  <2>1. \A x \in Handled(w) : Sound(c, x) /\ x.done
    BY SoundHandles
  <2>2. \A x \in one : x = w \/ x \in Handled(w)
    BY Zenon DEF WhenDue
  <2> HIDE DEF one
  <2> QED BY <2>1, <2>2
<1> HIDE DEF one
<1>3. \A x \in two : unsold(x)
  <2>1. ASSUME NEW y \in one, ~y.done, NEW z \in SellOrGoOn(y, s)
        PROVE  unsold(z)
    BY <1>2, <2>1, SellOrGoOnSound
  <2>2. \A y \in one : y.done => unsold(y)
    BY <1>2
  <2> HIDE DEF unsold
  <2> QED BY <2>1, <2>2, Zenon
<1> HIDE DEF two
<1>4. \A x \in three : free(x)
  <2>1. ASSUME NEW y \in two, ~y.done, NEW z \in HandleTrainRecovery(y, s)
        PROVE  free(z)
    BY <1>1, <1>3, <2>1, ReturnSound
  <2>2. \A y \in two : y.done => free(y)
    BY <1>3
  <2> HIDE DEF free
  <2> QED BY <2>1, <2>2, Zenon
<1> HIDE DEF three
<1>5. \A x \in four : free(x)
  <2>1. ASSUME NEW y \in three, ~y.done, NEW z \in Monitor(y, s)
        PROVE  free(z)
    BY <1>1, <1>4, <2>1, MonitorSound
  <2>2. \A y \in three : y.done => free(y)
    BY <1>4
  <2> HIDE DEF free
  <2> QED BY <2>1, <2>2, Zenon
<1> HIDE DEF four
<1>6. \A x \in five : Sound(c, x)
  <2>1. ASSUME NEW y \in four, ~y.done, NEW z \in TrainOrRoute(y, s)
        PROVE  Sound(c, z)
    <3>1. Sound(c, y) /\ On(c, TripOf(y), y) /\ Free(TripOf(y))
      BY <1>5, <2>1 DEF Sound, TripOf, Free
    <3>2. On(c, TripOf(y), z)
      BY <1>1, <2>1, <3>1, RouteOn DEF AllOn
    <3> QED BY <3>1, <3>2, OnIsSound
  <2>2. \A y \in four : y.done => Sound(c, y)
    BY <1>5
  <2> QED BY <2>1, <2>2, Zenon
<1> HIDE DEF five
<1> QED BY <1>6, Zenon DEF AllSound, Work, Then, one, two, three, four, five

\* The course of those who own their route.
Going(c) ==
  [traces |-> c.traces, clicks |-> c.clicks, routes |-> {r \in c.routes : ~r.pending},
   kepts |-> c.kepts]

\* The account's turn.
LEMMA TickAccountSound ==
  ASSUME NEW c, NEW s \in Snapshots, Lives(c, s), NEW w, Sound(c, w), w.client = "ok",
         ~Dead(s) /\ ~w.route.pending => Sells(Going(c))
  PROVE  AllSound(c, TickAccount(w, s))
<1> DEFINE one == LifeAndRoute(w, s)
           two == UNION {IF x.done THEN {x} ELSE Work(x, s) : x \in one}
<1>1. \A x \in one :
        /\ Sound(c, x)
        /\ x.done \/ (~Dead(s) /\ x.client = "ok" /\ x.route = w.route /\ ~w.route.pending)
  BY LifeSound
<1> HIDE DEF one
<1>2. s.bag \in {None} \cup Nat
  BY DEF Snapshots
<1>3. ASSUME NEW x \in one, ~x.done
      PROVE  AllSound(c, Work(x, s))
  <2>1. Sound(c, x) /\ ~Dead(s) /\ x.client = "ok" /\ ~x.route.pending /\ Sells(Going(c))
    BY <1>1, <1>3
  <2>2. Sound(Going(c), x)
    BY <2>1 DEF Sound, On, Going
  <2>3. AllSound(Going(c), Work(x, s))
    BY <1>2, <2>1, <2>2, WorkSound
  <2>4. Within(Going(c), c)
    BY DEF Within, Going
  <2> QED BY <2>3, <2>4, Wider
<1>4. AllSound(c, two)
  <2>1. \A x \in one : AllSound(c, IF x.done THEN {x} ELSE Work(x, s))
    BY <1>1, <1>3, Zenon DEF AllSound
  <2> QED BY <2>1, Zenon DEF AllSound
<1> HIDE DEF two
<1>5. AllSound(c, {w})
  BY DEF AllSound
<1> QED BY <1>4, <1>5, Zenon DEF TickAccount, Then, one, two

\* The end of a tick on three courses: before the conflict of AutoPath and AutoFight
\* is looked at, after that, and when it is over.  A living character is not moved in
\* a conflict, nor while its route is to be taken back.
Rests(c, e, d, s) ==
  /\ Within(c, e) /\ Within(e, d)
  /\ Guarded(e) /\ Breaks(e) /\ Allows(e, "StopPath")
  /\ \/ Lives(e, s) /\ (Dead(s) \/ Sells(Going(e)) \/ \A r \in c.routes : r.pending)
     \/ ~Dead(s) /\ \A b, g : <<b, g>> \in c.clicks => g.conflict # "no"

\* The rest of a tick, of the records that the wait for the client leaves.
Finish(ones, s, pause) ==
  Then(Then(ones, LAMBDA x : IF pause = "no" THEN HandleAutoPathFightInvariant(x, s) ELSE {x}),
       LAMBDA x : IF pause = "no" THEN TickAccount(x, s) ELSE {x})

LEMMA FinishSound ==
  ASSUME NEW c, NEW e, NEW d, NEW s \in Snapshots, Rests(c, e, d, s), NEW pause, NEW one,
         \A x \in one :
           Sound(d, x) /\ (x.done \/ (Sound(c, x) /\ (pause = "no" => x.client = "ok")))
  PROVE  AllSound(d, Finish(one, s, pause))
<1> DEFINE third(x) == IF pause = "no" THEN HandleAutoPathFightInvariant(x, s) ELSE {x}
           fourth(x) == IF pause = "no" THEN TickAccount(x, s) ELSE {x}
           two == UNION {IF x.done THEN {x} ELSE third(x) : x \in one}
           three == UNION {IF x.done THEN {x} ELSE fourth(x) : x \in two}
           turn == Lives(e, s) /\ (Dead(s) \/ Sells(Going(e)) \/ \A r \in c.routes : r.pending)
           good(x) ==
             /\ Sound(d, x)
             /\ x.done \/ (/\ Sound(e, x) /\ x.route \in c.routes
                           /\ pause = "no" => x.client = "ok" /\ turn)
<1>1. \A x \in one : Sound(d, x) /\ (x.done \/ (Sound(c, x) /\ (pause = "no" => x.client = "ok")))
  OBVIOUS
<1>2. \A x : Sound(c, x) => Sound(e, x)
  BY Wider DEF Rests
<1>3. \A x : Sound(e, x) => Sound(d, x)
  BY Wider DEF Rests
<1>4. ASSUME NEW y \in one, ~y.done, pause = "no", NEW z \in HandleAutoPathFightInvariant(y, s)
      PROVE  good(z)
  <2>1. Sound(c, y) /\ y.client = "ok" /\ Sound(e, y) /\ On(e, TripOf(y), y) /\ On(c, TripOf(y), y)
    BY <1>1, <1>2, <1>4 DEF Sound
  <2>2. Guarded(e) /\ Breaks(e) /\ Allows(e, "StopPath")
    BY DEF Rests
  <2>3. /\ On(e, TripOf(y), z) /\ (z.done \/ z = y)
        /\ y.guard.conflict # "no" /\ ~Dead(s) => z.done
    BY <1>4, <2>1, <2>2, ConflictOn
  <2>4. Sound(e, z) /\ Sound(d, z)
    BY <1>3, <2>1, <2>3, OnIsSound
  <2>5. z.done \/ turn
    <3>1. (\A b, g : <<b, g>> \in c.clicks => g.conflict # "no") => y.guard.conflict # "no"
      BY <2>1 DEF On
    <3>2. turn \/ (~Dead(s) /\ \A b, g : <<b, g>> \in c.clicks => g.conflict # "no")
      BY Zenon DEF Rests
    <3> HIDE DEF turn
    <3> QED BY <2>3, <3>1, <3>2
  <2>6. z = y => z.client = "ok" /\ z.route \in c.routes
    BY <2>1 DEF On
  <2> HIDE DEF turn
  <2> QED BY <2>3, <2>4, <2>5, <2>6, Zenon
<1>5. \A x \in two : good(x)
  <2>1. ASSUME NEW y \in one, y.done \/ pause # "no"
        PROVE  good(y)
    <3>1. Sound(c, y) => y.route \in c.routes
      BY DEF Sound, On
    <3> HIDE DEF turn
    <3> QED BY <1>1, <1>2, <2>1, <3>1
  <2> HIDE DEF good
  <2> QED BY <1>4, <2>1, Zenon
<1> HIDE DEF two
<1>6. ASSUME NEW y \in two
      PROVE  AllSound(d, IF y.done THEN {y} ELSE fourth(y))
  <2>1. CASE ~y.done /\ pause = "no"
    <3>1. Sound(e, y) /\ y.client = "ok" /\ Lives(e, s) /\ y.route \in c.routes
            /\ (Dead(s) \/ Sells(Going(e)) \/ \A r \in c.routes : r.pending)
      BY <1>5, <2>1, Zenon
    <3>2. ~Dead(s) /\ ~y.route.pending => Sells(Going(e))
      BY <3>1, Zenon
    <3>3. AllSound(e, TickAccount(y, s))
      BY <3>1, <3>2, TickAccountSound
    <3>4. AllSound(d, TickAccount(y, s))
      BY <1>3, <3>3, Zenon DEF AllSound
    <3> QED BY <2>1, <3>4, Zenon
  <2>2. CASE y.done \/ pause # "no"
    <3>1. Sound(d, y)
      BY <1>5, Zenon
    <3> QED BY <2>2, <3>1, Zenon DEF AllSound
  <2> QED BY <2>1, <2>2
<1>7. AllSound(d, three)
  <2> HIDE DEF fourth
  <2> QED BY <1>6, Zenon DEF AllSound
<1>8. Finish(one, s, pause) = three
  BY Zenon DEF Finish, Then, three, two, third, fourth
<1> HIDE DEF three
<1> QED BY <1>7, <1>8

\* A tick up to the client on the first two of these courses, and to its end.
Ticks(c, e, d, s) == Prior(c, s) /\ MayMove(c) /\ Holds(c, d) /\ Rests(c, e, d, s)

\* The whole tick, whatever is paused.
LEMMA TickSound ==
  ASSUME NEW c, NEW e, NEW d, NEW s \in Snapshots, Ticks(c, e, d, s), NEW w, Sound(c, w),
         NEW pause
  PROVE  AllSound(d, TickOf(w, s, pause))
<1> DEFINE one == Watched(w, s, pause)
<1>1. \A x \in one : Sound(d, x) /\ (x.done \/ (Sound(c, x) /\ (pause = "no" => x.client = "ok")))
  BY WatchedSound DEF Ticks
<1>2. TickOf(w, s, pause) = Finish(one, s, pause)
  BY Zenon DEF TickOf, Safe, Watched, Finish
<1> HIDE DEF one
<1>3. AllSound(d, Finish(one, s, pause))
  BY <1>1, FinishSound DEF Ticks
<1> QED BY <1>2, <1>3, Zenon

----------------------------------------------------------------------------
(* Courses *)

Replied == [do : Calls, answer : Replies]
ClickCalls == {"ClickStop", "ClickAuto", "ClickAttack"}

\* A route that is to be taken back was armed in another life.
AnyRoutes == {r \in Routes : r.pending => ~r.armed}

\* All mailboxes and guards: whatever the clicks do is on the course.
LEMMA AnyClicks ==
  ASSUME NEW c, c.clicks = Mailbox \X Guards
  PROVE  /\ Mails(c) /\ GuardSteps(c) /\ Breaks(c) /\ <<ClearBox, IdleGuard>> \in c.clicks
         /\ \A b, g : <<b, g>> \in c.clicks /\ b.req # None =>
              /\ \A good \in BOOLEAN : <<Completed(b, good), g>> \in c.clicks
              /\ IsAttack(b.req) => <<Pointed(b), g>> \in c.clicks
<1>1. \A b, g : <<b, g>> \in c.clicks <=> b \in Mailbox /\ g \in Guards
  OBVIOUS
<1>2. ASSUME NEW b \in Mailbox
      PROVE  /\ Emptied(b) \in Mailbox /\ \A o \in Owners : Requested(b, o) \in Mailbox
             /\ Pointed(b) \in Mailbox
             /\ b.req # None => \A good \in BOOLEAN : Completed(b, good) \in Mailbox
  <2>1. /\ b.req \in Owners \cup {None} /\ b.point \in 0 .. 1 /\ b.res \in Owners \cup {None}
        /\ b.ok \in BOOLEAN
    BY DEF Mailbox
  <2>2. \A x, y \in Owners \cup {None}, n \in 0 .. 1, v \in BOOLEAN :
          [req |-> x, point |-> n, res |-> y, ok |-> v] \in Mailbox
    BY DEF Mailbox
  <2>3. 0 \in 0 .. 1 /\ 1 \in 0 .. 1 /\ FALSE \in BOOLEAN /\ None \in Owners \cup {None}
    OBVIOUS
  <2> QED BY <2>1, <2>2, <2>3 DEF Emptied, Requested, Pointed, Completed
<1>3. ASSUME NEW g \in Guards
      PROVE  /\ Phase(g, 0, 0) \in Guards /\ Phase(g, 3, 0) \in Guards
             /\ \A n \in 0 .. 1 : \A p \in 0 .. 5 : Phase(g, p, n) \in Guards
             /\ g.stops \in 0 .. 2 /\ (g.phase # 2 => g.stops \in 0 .. 1)
             /\ \A n \in 0 .. 2 : Phase(g, 2, n) \in Guards
             /\ \A x \in {"no", "new", "stopping"} :
                  Torn(g, x) \in Guards /\ Torn(Phase(g, 0, 0), x) \in Guards
  BY DEF Guards, Phase, Torn
<1>4. ClearBox \in Mailbox /\ IdleGuard \in Guards
  BY IdleTyped
<1>5. Mails(c)
  BY <1>1, <1>2 DEF Mails
<1>6. GuardSteps(c)
  <2> SUFFICES ASSUME NEW b \in Mailbox, NEW g \in Guards
               PROVE  /\ <<b, Phase(g, 0, 0)>> \in c.clicks
                      /\ g.phase = 0 => <<b, Phase(g, 1, g.stops)>> \in c.clicks
                      /\ g.phase = 3 => <<b, Phase(g, 4, g.stops)>> \in c.clicks
                      /\ g.phase = 3 => <<Requested(b, "TravelGuardReset"), Phase(g, 4, g.stops)>> \in c.clicks
                      /\ g.phase = 1 => /\ <<Emptied(b), Phase(g, 2, g.stops + 1)>> \in c.clicks
                                        /\ <<Emptied(b), Phase(g, 0, g.stops)>> \in c.clicks
                      /\ g.phase = 2 => IF g.stops < 2 THEN <<b, Phase(g, 0, g.stops)>> \in c.clicks
                                        ELSE <<b, Phase(g, 3, 0)>> \in c.clicks
                      /\ g.phase = 4 => \A p \in {3, 5} : <<Emptied(b), Phase(g, p, g.stops)>> \in c.clicks
    BY <1>1, ZenonT(40) DEF GuardSteps
  <2>1. Emptied(b) \in Mailbox /\ Requested(b, "TravelGuardReset") \in Mailbox
    BY <1>2 DEF Owners
  <2>2. g.phase # 2 => g.stops \in 0 .. 1 /\ g.stops + 1 \in 0 .. 2
    BY <1>3
  <2>3. g.stops < 2 => g.stops \in 0 .. 1
    BY <1>3
  <2> QED BY <1>1, <1>3, <2>1, <2>2, <2>3
<1>7. Breaks(c)
  BY <1>1, <1>3, <1>4 DEF Breaks
<1> QED BY <1>1, <1>2, <1>4, <1>5, <1>6, <1>7

\* All routes but the armed one of another life.
LEMMA RoutesThere ==
  ASSUME NEW c, c.routes = AnyRoutes
  PROVE  /\ MayMove(c) /\ MayTakeBack(c) /\ FreeRoute \in c.routes /\ ToTakeBack \in c.routes
         /\ MayArm(Going(c)) /\ MayDisarm(Going(c))
<1>1. ASSUME NEW r \in Routes
      PROVE  /\ r.pending \in BOOLEAN /\ r.stops \in 0 .. OwnershipStops /\ r.armed \in BOOLEAN
             /\ r.moved \in BOOLEAN /\ r.seen \in BOOLEAN /\ r.map \in Maps \cup {None}
  BY DEF Routes, Maps
<1>2. \A r \in Routes : \A a, m, e \in BOOLEAN, p \in Maps \cup {None} :
        /\ Way(r, a, m, e, p) \in Routes
        /\ Way(r, a, m, e, p).pending <=> r.pending
        /\ Way(r, a, m, e, p).armed <=> a
  BY <1>1 DEF Way, Routes, Maps
<1>3. MayMove(c)
  <2> SUFFICES ASSUME NEW r \in c.routes, NEW v \in BOOLEAN, NEW e \in BOOLEAN,
                      NEW m \in Maps \cup {r.map}
               PROVE  Way(r, r.armed, v, e, m) \in c.routes
    BY DEF MayMove
  <2>1. r \in Routes /\ (r.pending => ~r.armed)
    BY DEF AnyRoutes
  <2>2. m \in Maps \cup {None} /\ r.armed \in BOOLEAN
    BY <1>1, <2>1
  <2> DEFINE x == Way(r, r.armed, v, e, m)
  <2>3. x \in Routes /\ (x.pending <=> r.pending) /\ (x.armed <=> r.armed)
    BY <1>2, <2>1, <2>2
  <2> HIDE DEF x
  <2>4. x \in c.routes
    BY <2>1, <2>3 DEF AnyRoutes
  <2> QED BY <2>4, Zenon DEF x
<1>4. MayTakeBack(c)
  <2> SUFFICES ASSUME NEW r \in c.routes, r.pending
               PROVE  /\ [FreeRoute EXCEPT !.map = r.map] \in c.routes
                      /\ r.stops < OwnershipStops => [r EXCEPT !.stops = r.stops + 1] \in c.routes
    BY DEF MayTakeBack
  <2>1. r \in Routes /\ (r.pending => ~r.armed)
    BY DEF AnyRoutes
  <2> DEFINE x == [FreeRoute EXCEPT !.map = r.map]
             y == [r EXCEPT !.stops = r.stops + 1]
  <2>2. x \in Routes /\ ~x.pending
    <3>1. \A f \in Routes, q \in Maps \cup {None} :
            [f EXCEPT !.map = q] \in Routes /\ ([f EXCEPT !.map = q].pending <=> f.pending)
      BY DEF Routes, Maps
    <3>2. FreeRoute \in Routes /\ ~FreeRoute.pending
      BY IdleTyped DEF FreeRoute
    <3>3. r.map \in Maps \cup {None}
      BY <1>1, <2>1
    <3> QED BY <3>1, <3>2, <3>3
  <2>3. r.stops < OwnershipStops => y \in Routes /\ (y.pending <=> r.pending) /\ (y.armed <=> r.armed)
    <3>1. r.stops \in Nat /\ OwnershipStops \in Nat
      BY <1>1, <2>1, LifeAssumption
    <3>2. r.stops < OwnershipStops => r.stops + 1 \in 0 .. OwnershipStops
      BY <3>1
    <3> DEFINE n == r.stops + 1
    <3> HIDE DEF n
    <3>3. n \in 0 .. OwnershipStops => [r EXCEPT !.stops = n] \in Routes
            /\ ([r EXCEPT !.stops = n].pending <=> r.pending)
            /\ ([r EXCEPT !.stops = n].armed <=> r.armed)
      BY <2>1 DEF Routes
    <3> QED BY <3>2, <3>3 DEF n
  <2> HIDE DEF x, y
  <2>4. x \in c.routes /\ (r.stops < OwnershipStops => y \in c.routes)
    BY <2>1, <2>2, <2>3 DEF AnyRoutes
  <2> QED BY <2>4, Zenon DEF x, y
<1>5. FreeRoute \in c.routes /\ ToTakeBack \in c.routes
  <2>1. ~FreeRoute.pending /\ ~ToTakeBack.armed
    BY DEF FreeRoute, ToTakeBack
  <2> QED BY <2>1, IdleTyped DEF AnyRoutes
<1>6. Going(c).routes = {r \in Routes : ~r.pending}
  BY DEF Going, AnyRoutes
<1>7. MayDisarm(Going(c))
  <2> SUFFICES ASSUME NEW r \in Routes, ~r.pending
               PROVE  Way(r, FALSE, FALSE, FALSE, r.map) \in Going(c).routes
    BY <1>6 DEF MayDisarm
  <2> DEFINE no == FALSE
             x == Way(r, no, no, no, r.map)
  <2>1. no \in BOOLEAN /\ r.map \in Maps \cup {None}
    BY <1>1
  <2> HIDE DEF no
  <2>2. x \in Routes /\ (x.pending <=> r.pending)
    BY <1>2, <2>1
  <2> HIDE DEF x
  <2>3. x \in Going(c).routes
    BY <1>6, <2>2
  <2> QED BY <2>3, Zenon DEF x, no
<1>8. MayArm(Going(c))
  <2> SUFFICES ASSUME NEW r \in Routes, ~r.pending, NEW b \in BOOLEAN
               PROVE  Way(r, TRUE, b, r.seen, r.map) \in Going(c).routes
    BY <1>6 DEF MayArm, Way
  <2> DEFINE yes == TRUE
             x == Way(r, yes, b, r.seen, r.map)
  <2>1. yes \in BOOLEAN /\ r.seen \in BOOLEAN /\ r.map \in Maps \cup {None}
    BY <1>1
  <2> HIDE DEF yes
  <2>2. x \in Routes /\ (x.pending <=> r.pending)
    BY <1>2, <2>1
  <2> HIDE DEF x
  <2>3. x \in Going(c).routes
    BY <1>6, <2>2
  <2> QED BY <2>3, Zenon DEF x, yes
<1> QED BY <1>3, <1>4, <1>5, <1>7, <1>8

\* The lives of a course: a death counts if the character is dead, a birth if it is not.
Counts(c, s) ==
  /\ c.kepts \in SUBSET Kepts /\ LivesOn(c)
  /\ Dead(s) => \A k \in c.kepts : ~k.latched =>
                  \A d \in 0 .. DeathLimit :
                    d <= k.deaths + 1 => KeptAs(TRUE, d, k.learned) \in c.kepts
  /\ ~Dead(s) => \A k \in c.kepts : KeptAs(FALSE, k.deaths, k.learned) \in c.kepts

\* A course up to the conflict of AutoPath and AutoFight, on some of the guards.
LEMMA EarlyCourse ==
  ASSUME NEW c, NEW s, NEW G \in SUBSET Guards, c.clicks = Mailbox \X G,
         c.routes \in SUBSET Routes, Counts(c, s),
         \A what \in {"ClickStop", "ClickAuto", "ClickAttack"} : Allows(c, what),
         (\E r \in c.routes : r.armed) => Allows(c, "ConfirmMap"),
         Dead(s) => IdleGuard \in G /\ FreeRoute \in c.routes /\ Allows(c, "Revive")
  PROVE  Prior(c, s)
<1> DEFINE d == [traces |-> c.traces, clicks |-> Mailbox \X Guards, routes |-> c.routes,
                 kepts |-> c.kepts]
<1>1. Typed(c)
  BY DEF Typed, Counts
<1>2. MayClick(c)
  <2>1. d.clicks = Mailbox \X Guards
    OBVIOUS
  <2> HIDE DEF d
  <2>2. \A b, g : <<b, g>> \in d.clicks /\ b.req # None =>
           /\ \A good \in BOOLEAN : <<Completed(b, good), g>> \in d.clicks
           /\ IsAttack(b.req) => <<Pointed(b), g>> \in d.clicks
    BY <2>1, AnyClicks
  <2>3. \A b \in Mailbox, g \in G : b.req # None =>
           /\ \A good \in BOOLEAN : Completed(b, good) \in Mailbox
           /\ IsAttack(b.req) => Pointed(b) \in Mailbox
    BY <2>1, <2>2
  <2> QED BY <2>3 DEF MayClick
<1>3. Dead(s) => MayDie(c) /\ Allows(c, "Revive")
  <2>1. ClearBox \in Mailbox
    BY IdleTyped
  <2> QED BY <2>1 DEF MayDie, Counts
<1> QED BY <1>1, <1>2, <1>3 DEF Prior

\* A course after it, on all routes.
LEMMA LivingCourse ==
  ASSUME NEW c, NEW s, Guarded(c), <<ClearBox, IdleGuard>> \in c.clicks, c.routes = AnyRoutes,
         Counts(c, s), Allows(c, "StopPath")
  PROVE  Lives(c, s)
<1>1. MayTakeBack(c) /\ FreeRoute \in c.routes /\ ToTakeBack \in c.routes
  BY RoutesThere
<1>2. (Dead(s) => MayDie(c)) /\ (~Dead(s) => MayBeBorn(c)) /\ LivesOn(c)
  BY <1>1 DEF Counts, MayDie, MayBeBorn
<1> QED BY <1>1, <1>2 DEF Lives

\* On such a course who owns his route may travel and sell, if every call but the clicks
\* may be made.
LEMMA SellingCourse ==
  ASSUME NEW c, NEW s, Guarded(c), c.routes = AnyRoutes, Counts(c, s),
         \A what \in Calls \ ClickCalls : Allows(c, what)
  PROVE  Sells(Going(c))
<1>1. /\ Going(c).clicks = c.clicks /\ Going(c).traces = c.traces /\ Going(c).kepts = c.kepts
      /\ Going(c).routes \in SUBSET Routes
  BY DEF Going, AnyRoutes
<1>2. MayArm(Going(c)) /\ MayDisarm(Going(c))
  BY RoutesThere
<1>3. \A what \in Calls \ ClickCalls : Allows(Going(c), what)
  BY <1>1 DEF Allows
<1>4. LivesOn(Going(c)) /\ Typed(Going(c))
  BY <1>1 DEF LivesOn, Typed, Counts, Guarded
<1>5. Guarded(Going(c))
  BY <1>1, <1>4, SameClicks DEF Guarded
<1>6. {"StartPath", "StopPath", "Mount", "Dismount"} \cup SellCalls \subseteq Calls \ ClickCalls
  BY DEF Calls, ClickCalls, SellCalls
<1>7. Roads(Going(c))
  BY <1>2, <1>3, <1>5, <1>6 DEF Roads
<1> QED BY <1>2, <1>3, <1>4, <1>6, <1>7 DEF Sells

\* With all clicks.
LEMMA LateCourse ==
  ASSUME NEW c, NEW s, c.clicks = Mailbox \X Guards, c.routes = AnyRoutes, Counts(c, s),
         Allows(c, "StopPath")
  PROVE  Guarded(c) /\ Breaks(c) /\ Lives(c, s)
<1>1. Typed(c)
  BY DEF Typed, Counts, AnyRoutes
<1>2. Guarded(c) /\ Breaks(c) /\ <<ClearBox, IdleGuard>> \in c.clicks
  BY <1>1, AnyClicks DEF Guarded
<1> QED BY <1>2, LivingCourse

\* The course of all calls, clicks, routes and lives.
Any ==
  [traces |-> Clients \X Seq(Replied), clicks |-> Mailbox \X Guards, routes |-> AnyRoutes,
   kepts |-> Kepts]

\* A call may be added to any calls.
LEMMA AnyCalls == \A what \in Calls : Allows(Any, what)
<1> SUFFICES ASSUME NEW what \in Calls, NEW q \in Seq(Replied)
             PROVE  \A r \in Replies : Append(q, [do |-> what, answer |-> r]) \in Seq(Replied)
  BY DEF Allows, Any, Clients, Replies
<1>1. \A r \in Replies : [do |-> what, answer |-> r] \in Replied
  BY DEF Replied
<1> QED BY <1>1

\* All lives.
LEMMA AllLives ==
  ASSUME NEW c, c.kepts = Kepts, NEW s
  PROVE  Counts(c, s)
<1>1. 0 \in 0 .. DeathLimit
  BY LifeAssumption
<1>2. \A k \in Kepts : /\ k.latched \in BOOLEAN /\ k.deaths \in 0 .. DeathLimit
                       /\ k.learned \in Nat
  BY DEF Kepts
<1>3. \A l \in BOOLEAN, d \in 0 .. DeathLimit, n \in Nat :
        [latched |-> l, deaths |-> d, learned |-> n] \in Kepts
  BY DEF Kepts
<1>4. LivesOn(c)
  BY <1>1, <1>2, <1>3 DEF LivesOn
<1>5. \A d \in 0 .. DeathLimit, n \in Nat : KeptAs(TRUE, d, n) \in Kepts /\ KeptAs(FALSE, d, n) \in Kepts
  BY <1>3, Zenon DEF KeptAs
<1> QED BY <1>2, <1>4, <1>5 DEF Counts

\* A tick whose clicks and routes are free, as far as the calls and lives are.
LEMMA FreeTick ==
  ASSUME NEW s \in Snapshots, NEW c, c.clicks = Mailbox \X Guards, c.routes = AnyRoutes,
         Counts(c, s), \A what \in Calls : Allows(c, what), NEW d, Holds(c, d)
  PROVE  Ticks(c, c, d, s)
<1>1. Prior(c, s)
  <2>1. c.routes \in SUBSET Routes /\ FreeRoute \in c.routes /\ IdleGuard \in Guards
    BY RoutesThere, IdleTyped DEF AnyRoutes
  <2>2. Guards \in SUBSET Guards
    OBVIOUS
  <2>3. /\ \A what \in {"ClickStop", "ClickAuto", "ClickAttack"} : Allows(c, what)
        /\ Allows(c, "ConfirmMap") /\ Allows(c, "Revive")
    BY DEF Calls
  <2> QED BY <2>1, <2>2, <2>3, EarlyCourse
<1>2. MayMove(c)
  BY RoutesThere
<1>3. Within(c, c) /\ Within(c, d)
  BY DEF Within, Holds
<1>4. Allows(c, "StopPath")
  BY DEF Calls
<1>5. Guarded(c) /\ Breaks(c) /\ Lives(c, s)
  BY <1>4, LateCourse
<1>6. Sells(Going(c))
  <2>1. \A what \in Calls \ ClickCalls : Allows(c, what)
    OBVIOUS
  <2> QED BY <1>5, <2>1, SellingCourse
<1> QED BY <1>1, <1>2, <1>3, <1>4, <1>5, <1>6 DEF Ticks, Rests

\* Any tick stays on it.
LEMMA AnyTick ==
  ASSUME NEW s \in Snapshots
  PROVE  Ticks(Any, Any, Any, s)
<1> DEFINE c == Any
<1>1. c.clicks = Mailbox \X Guards /\ c.routes = AnyRoutes /\ Counts(c, s)
  BY AllLives DEF Any
<1>2. \A what \in Calls : Allows(c, what)
  BY AnyCalls
<1>3. Holds(c, c)
  BY DEF Any, Within, Holds, Clients
<1> HIDE DEF c
<1>4. Ticks(c, c, c, s)
  BY <1>1, <1>2, <1>3, FreeTick
<1> QED BY <1>4 DEF c

----------------------------------------------------------------------------
(* The inductive invariant *)

\* The types of the account, with what its properties need: a travel has its owner,
\* the checks of the training are for an account that is free, an armed route is
\* no route of another life, and the sale and the shop agree.
AccountOK ==
  /\ scene \in DOMAIN Scenes /\ client \in Clients
  /\ box \in Mailbox /\ guard \in Guards
  /\ mount \in Mounts /\ (mount # IdleMount => train.back \/ sell.phase \in {4, 8})
  /\ route \in AnyRoutes
  /\ train \in Trains /\ (train.monitor => ~train.back /\ sell.phase = 0)
  /\ SaleOK(sell, shop)
  /\ revive \in 0 .. 2 /\ kept \in Kepts
  /\ sent \in Seq(Replied)
  /\ game \in Snapshots \cup {None}
  /\ asked \in [auto : BOOLEAN, stops : 0 .. 2]

\* What a step begins with is on every course that has the account's clicks, route
\* and lives.
LEMMA RecordSound ==
  ASSUME AccountOK, NEW late, NEW c, <<client, <<>>>> \in c.traces, <<box, guard>> \in c.clicks,
         route \in c.routes, kept \in c.kepts
  PROVE  /\ Sound(c, Record(late)) /\ Record(late).client = client /\ Record(late).sent = <<>>
         /\ Record(late).kept = kept /\ Record(late).route = route /\ Record(late).shop = shop
<1> DEFINE no == FALSE
           w == RecordOf(scene, client, box, guard, mount, route, train, sell, revive, kept, shop,
                         <<>>, calm, late, no, no, no)
<1>1. no \in BOOLEAN
  OBVIOUS
<1>2. Record(late) = w
  BY DEF Record, RecordOf
<1> HIDE DEF no
<1>3. Sound(c, w)
  BY <1>1, SoundParts DEF AccountOK
<1>4. /\ w.client = client /\ w.sent = <<>> /\ w.kept = kept /\ w.route = route
      /\ w.shop = shop
  BY RecordRead
<1> HIDE DEF w
<1> QED BY <1>2, <1>3, <1>4

\* On the course of all.
LEMMA RecordAny ==
  ASSUME AccountOK, NEW late
  PROVE  Sound(Any, Record(late))
<1>1. <<>> \in Seq(Replied)
  OBVIOUS
<1>2. /\ <<client, <<>>>> \in Any.traces /\ <<box, guard>> \in Any.clicks
      /\ route \in Any.routes /\ kept \in Any.kepts
  BY <1>1 DEF Any, AccountOK
<1> QED BY <1>2, RecordSound

\* And where it ends.
LEMMA BecomesSound ==
  ASSUME scene \in DOMAIN Scenes, NEW w, Sound(Any, w), Becomes(w), game' \in Snapshots \cup {None},
         asked' \in [auto : BOOLEAN, stops : 0 .. 2]
  PROVE  AccountOK'
<1>1. /\ w.scene \in DOMAIN Scenes /\ w.client \in Clients /\ w.sent \in Seq(Replied)
      /\ w.box \in Mailbox /\ w.guard \in Guards
      /\ w.mount \in Mounts /\ (w.mount # IdleMount => w.train.back \/ w.sell.phase \in {4, 8})
      /\ w.route \in AnyRoutes
      /\ w.train \in Trains /\ (w.train.monitor => ~w.train.back /\ w.sell.phase = 0)
      /\ SaleOK(w.sell, w.shop)
      /\ w.revive \in 0 .. 2 /\ w.kept \in Kepts
  BY DEF Sound, On, Any, TripOf, Travels, Free
<1>2. SaleOK(sell, shop)'
  <2>1. sell' = w.sell /\ shop' = w.shop
    BY DEF Becomes
  <2>2. SaleOK(sell', shop')
    BY <1>1, <2>1, Zenon
  <2> QED BY <2>2 DEF SaleOK
<1>3. /\ scene' = scene /\ client' = w.client /\ sent' = w.sent /\ box' = w.box
      /\ guard' = w.guard /\ mount' = w.mount /\ route' = w.route /\ train' = w.train
      /\ sell' = w.sell /\ revive' = w.revive /\ kept' = w.kept
  BY DEF Becomes
<1> QED BY <1>1, <1>2, <1>3 DEF AccountOK

----------------------------------------------------------------------------
(* The steps *)

\* What the history of the clicks notes.
LEMMA AskedTyped ==
  ASSUME AccountOK, Remember
  PROVE  asked' \in [auto : BOOLEAN, stops : 0 .. 2]
<1> DEFINE auto == /\ box'.req # None /\ box'.req = box.req
                   /\ asked.auto \/ Accepted("ClickAuto")'
           stops == IF client' = "off" THEN 0
                    ELSE IF Accepted("ClickAttack")' /\ box.req = "TravelGuardReset" THEN 0
                    ELSE IF Accepted("ClickStop")' /\ StopsMade < 2 THEN StopsMade + 1
                    ELSE StopsMade
<1>1. asked' = [auto |-> auto, stops |-> stops]
  BY Zenon DEF Remember
<1>2. StopsMade \in 0 .. 2
  BY DEF AccountOK, StopsMade
<1>3. stops \in 0 .. 2
  BY <1>2
<1>4. auto \in BOOLEAN
  BY Zenon
<1> HIDE DEF auto, stops
<1> QED BY <1>1, <1>3, <1>4

\* The game that cooperates.
LEMMA GameTyped ==
  ASSUME AccountOK, Environment
  PROVE  game' \in Snapshots \cup {None}
<1>1. CASE ~calm
  BY <1>1 DEF Environment
<1>2. CASE calm
  <2> DEFINE did(x) == Accepted(x)'
             fight == IF did("ClickStop") THEN "off" ELSE IF did("ClickAttack") THEN "on"
                      ELSE game.fight
             riding == IF did("Mount") THEN TRUE ELSE IF did("Dismount") THEN FALSE ELSE game.riding
             path == IF did("StartPath") THEN "on" ELSE "off"
             place == IF Pathing(game) /\ ~did("StopPath") THEN Destination ELSE game.place
             bag == IF did("SellNextBagItem") THEN ItemCap ELSE game.bag
             g1 == [game EXCEPT !.fight = fight]
             g2 == [g1 EXCEPT !.riding = riding]
             g3 == [g2 EXCEPT !.path = path]
             g4 == [g3 EXCEPT !.place = place]
             g5 == [g4 EXCEPT !.bag = bag]
  <2>1. game \in Snapshots
    BY <1>2 DEF AccountOK, calm
  <2>2. /\ fight \in {"on", "off", "unknown"} /\ path \in {"on", "off", "unknown"}
        /\ place \in {"spot", "field", "npc", "gate", "underworld"}
        /\ bag \in {None} \cup Nat
    <3>1. /\ game.fight \in {"on", "off", "unknown"}
          /\ game.place \in {"spot", "field", "npc", "gate", "underworld"}
          /\ game.bag \in {None} \cup Nat
      BY <2>1 DEF Snapshots
    <3>2. Destination \in {"spot", "npc"} /\ ItemCap \in Nat
      BY SellAssumption DEF Destination
    <3> HIDE DEF did
    <3> QED BY <3>1, <3>2
  <2>3. riding \in BOOLEAN
    <3>1. game.riding \in BOOLEAN
      BY <2>1 DEF Snapshots
    <3> HIDE DEF did
    <3> QED BY <3>1
  <2>4. game' = g5
    BY <1>2, Zenon DEF Environment, Play
  <2> HIDE DEF fight, riding, path, place, bag
  <2>5. g1 \in Snapshots
    BY <2>1, <2>2 DEF Snapshots
  <2> HIDE DEF g1
  <2>6. g2 \in Snapshots
    BY <2>3, <2>5 DEF Snapshots
  <2> HIDE DEF g2
  <2>7. g3 \in Snapshots
    BY <2>2, <2>6 DEF Snapshots
  <2> HIDE DEF g3
  <2>8. g4 \in Snapshots
    BY <2>2, <2>7 DEF Snapshots
  <2> HIDE DEF g4
  <2>9. g5 \in Snapshots
    BY <2>2, <2>8 DEF Snapshots
  <2> QED BY <2>4, <2>9
<1> QED BY <1>1, <1>2

\* A tick reads a snapshot, the game's if it cooperates.
LEMMA TickReads ==
  ASSUME AccountOK, Tick
  PROVE  /\ client # "off" /\ Remember /\ Environment
         /\ \E s \in Snapshots, pause \in {"no", "F4", "recording"} :
              \E w \in TickOf(Record(FALSE), s, pause) : Becomes(w)
<1>1. PICK pause \in {"no", "F4", "recording"} : TickWith(FALSE, pause)
  BY DEF Tick
<1>2. (IF calm THEN {game} ELSE Scenes[scene].snaps) \subseteq Snapshots
  BY SceneAssumption DEF AccountOK, calm
<1>3. \E s \in Snapshots : \E w \in TickOf(Record(FALSE), s, pause) : Becomes(w)
  <2> DEFINE S == IF calm THEN {game} ELSE Scenes[scene].snaps
  <2>1. \E s \in S : \E w \in TickOf(Record(FALSE), s, pause) : Becomes(w)
    BY <1>1, Zenon DEF TickWith
  <2> HIDE DEF S
  <2> QED BY <1>2, <2>1 DEF S
<1>4. client # "off" /\ Remember /\ Environment
  BY <1>1, Zenon DEF Tick, TickWith
<1> QED BY <1>3, <1>4

\* A tick.
LEMMA TickOK ==
  ASSUME AccountOK, Tick
  PROVE  AccountOK'
<1>1. PICK s \in Snapshots, pause \in {"no", "F4", "recording"} :
           \E w \in TickOf(Record(FALSE), s, pause) : Becomes(w)
  BY TickReads
<1>2. PICK w \in TickOf(Record(FALSE), s, pause) : Becomes(w)
  BY <1>1
<1>3. Sound(Any, w)
  <2>1. Sound(Any, Record(FALSE)) /\ Ticks(Any, Any, Any, s)
    BY RecordAny, AnyTick
  <2> QED BY <1>2, <2>1, TickSound DEF AllSound
<1>4. /\ game' \in Snapshots \cup {None} /\ asked' \in [auto : BOOLEAN, stops : 0 .. 2]
      /\ scene \in DOMAIN Scenes
  BY TickReads, GameTyped, AskedTyped DEF AccountOK
<1> QED BY <1>2, <1>3, <1>4, BecomesSound

\* The lives that a start and a stop of the user begin with.
NewLife(n) == KeptAs(FALSE, 0, n)

\* What the user's buttons reset: everything but the learned clicks and the shop.
LEMMA ResetByUser ==
  ASSUME AccountOK
  PROVE  LET w == Record(FALSE)
             u == [ResetRuntime(w) EXCEPT !.kept.latched = FALSE, !.kept.deaths = 0]
             v == [ResetRuntime(w) EXCEPT !.route.pending = TRUE,
                                          !.kept.latched = FALSE, !.kept.deaths = 0]
         IN /\ Sound(Any, u) /\ u.client = "ok" /\ u.sent = <<>> /\ u.kept = NewLife(kept.learned)
            /\ u.box = ClearBox /\ u.guard = IdleGuard
            /\ Sound(Any, v) /\ v.client = "ok" /\ v.sent = <<>> /\ v.kept = NewLife(kept.learned)
            /\ v.box = ClearBox /\ v.guard = IdleGuard
<1> DEFINE no == FALSE
           yes == TRUE
           w == Record(FALSE)
           x == ResetRuntime(w)
           x1 == [x EXCEPT !.kept.latched = no]
           x2 == [x1 EXCEPT !.kept.deaths = 0]
           y == [x EXCEPT !.route.pending = yes]
           y1 == [y EXCEPT !.kept.latched = no]
           y2 == [y1 EXCEPT !.kept.deaths = 0]
<1>1. Sound(Any, w) /\ w.sent = <<>> /\ w.kept = kept
  <2>1. <<>> \in Seq(Replied)
    OBVIOUS
  <2>2. /\ <<client, <<>>>> \in Any.traces /\ <<box, guard>> \in Any.clicks
        /\ route \in Any.routes /\ kept \in Any.kepts
    BY <2>1 DEF Any, AccountOK
  <2> QED BY <2>2, RecordSound
<1>2. Any.clicks = Mailbox \X Guards /\ Any.routes = AnyRoutes /\ Any.kepts = Kepts
  BY DEF Any
<1> HIDE DEF w
<1>3. /\ <<"ok", w.sent>> \in Any.traces /\ <<ClearBox, IdleGuard>> \in Any.clicks
      /\ FreeRoute \in Any.routes /\ ToTakeBack \in Any.routes
  <2>1. <<>> \in Seq(Replied)
    OBVIOUS
  <2>2. <<"ok", <<>>>> \in Any.traces
    BY <2>1 DEF Any, Clients
  <2>3. <<ClearBox, IdleGuard>> \in Any.clicks
    BY <1>2, AnyClicks
  <2>4. FreeRoute \in Any.routes /\ ToTakeBack \in Any.routes
    BY <1>2, RoutesThere
  <2> QED BY <1>1, <2>2, <2>3, <2>4
<1>4. PICK a, sh, l, m, n, o, p, q :
           /\ \A z : ResetRuntime(WithKept(w, z)) = AfterReset(a, FreeRoute, z, sh, l, m, n, o, p, q)
           /\ ResetRuntime(w) = AfterReset(a, FreeRoute, w.kept, sh, l, m, n, o, p, q)
           /\ l = w.sent /\ p = w.done
           /\ \A f \in Any.routes, j \in Any.kepts :
                Sound(Any, AfterReset(a, f, j, sh, l, m, n, o, p, q))
  BY <1>1, <1>3, ResetIsSound
<1> DEFINE v(f, j) == AfterReset(a, f, j, sh, l, m, n, o, p, q)
           k == kept
           k1 == [k EXCEPT !.latched = no]
           k2 == [k1 EXCEPT !.deaths = 0]
           r == [FreeRoute EXCEPT !.pending = yes]
<1>5. k \in Kepts
  BY DEF AccountOK
<1> HIDE DEF k
<1>6. x = v(FreeRoute, k)
  BY <1>1, <1>4 DEF k
<1>7. \A f, j : /\ v(f, j).route = f /\ v(f, j).kept = j /\ v(f, j).client = "ok" /\ v(f, j).sent = l
               /\ v(f, j).box = ClearBox /\ v(f, j).guard = IdleGuard
  BY RecordRead DEF AfterReset
<1> HIDE DEF x
<1>9. x1 = v(FreeRoute, k1) /\ x2 = v(FreeRoute, k2)
  <2>1. x.kept = k /\ \A g : [x EXCEPT !.kept = g] = v(FreeRoute, g)
    BY <1>6, PartsWritten DEF AfterReset
  <2>2. x1 = v(FreeRoute, k1)
    BY <2>1, Zenon
  <2> HIDE DEF x1, k1
  <2>3. x1.kept = k1 /\ \A g : [x1 EXCEPT !.kept = g] = v(FreeRoute, g)
    BY <2>2, PartsWritten DEF AfterReset
  <2>4. x2 = v(FreeRoute, k2)
    BY <2>3, Zenon
  <2> QED BY <2>2, <2>4
<1>10. y2 = v(r, k2)
  <2>1. x.route = FreeRoute /\ \A g : [x EXCEPT !.route = g] = v(g, k)
    BY <1>6, PartsWritten DEF AfterReset
  <2>2. y = v(r, k)
    BY <2>1, Zenon
  <2> HIDE DEF y, r
  <2>3. y.kept = k /\ \A g : [y EXCEPT !.kept = g] = v(r, g)
    BY <2>2, PartsWritten DEF AfterReset
  <2>4. y1 = v(r, k1)
    BY <2>3, Zenon
  <2> HIDE DEF y1, k1
  <2>5. y1.kept = k1 /\ \A g : [y1 EXCEPT !.kept = g] = v(r, g)
    BY <2>4, PartsWritten DEF AfterReset
  <2> QED BY <2>5, Zenon
<1> HIDE DEF v
<1>11. k2 = NewLife(k.learned) /\ k2 \in Kepts
  <2>1. 0 \in 0 .. DeathLimit
    BY LifeAssumption
  <2>2. no \in BOOLEAN
    OBVIOUS
  <2> HIDE DEF no
  <2>3. k1 \in Kepts /\ k1 = KeptAs(no, k.deaths, k.learned)
    BY <1>5, <2>2 DEF Kepts, KeptAs
  <2> HIDE DEF k1
  <2>4. k2 \in Kepts /\ k2 = KeptAs(no, 0, k.learned)
    BY <2>1, <2>3 DEF Kepts, KeptAs
  <2> QED BY <2>4, Zenon DEF NewLife, no
<1>12. r = ToTakeBack
  BY Zenon DEF ToTakeBack
<1> HIDE DEF k2, x2, y2, r
<1>13. /\ Sound(Any, x2) /\ x2.client = "ok" /\ x2.sent = <<>> /\ x2.kept = NewLife(k.learned)
       /\ x2.box = ClearBox /\ x2.guard = IdleGuard
  BY <1>1, <1>2, <1>3, <1>4, <1>7, <1>9, <1>11 DEF v
<1>14. /\ Sound(Any, y2) /\ y2.client = "ok" /\ y2.sent = <<>> /\ y2.kept = NewLife(k.learned)
       /\ y2.box = ClearBox /\ y2.guard = IdleGuard
  BY <1>1, <1>2, <1>3, <1>4, <1>7, <1>10, <1>11, <1>12 DEF v
<1> QED BY <1>13, <1>14, Zenon DEF x2, x1, x, y2, y1, y, no, yes, w, k

\* The state reader did not answer.
LEMMA ReadFailsOK ==
  ASSUME AccountOK, ReadFails
  PROVE  /\ AccountOK' /\ sent' = <<>> /\ kept' = kept
         /\ box' = box /\ guard' = guard /\ client' = "frozen"
<1> DEFINE w == Record(FALSE)
           x == EnterClientFreeze(w)
<1>1. <<>> \in Seq(Replied)
  OBVIOUS
<1>2. /\ <<client, <<>>>> \in Any.traces /\ <<box, guard>> \in Any.clicks
      /\ route \in Any.routes /\ kept \in Any.kepts
  BY <1>1 DEF Any, AccountOK
<1>3. /\ Sound(Any, w) /\ w.sent = <<>> /\ w.kept = kept
      /\ w.box = box /\ w.guard = guard
  <2>1. w.box = box /\ w.guard = guard
    BY DEF Record
  <2> HIDE DEF w
  <2> QED BY <1>2, <2>1, RecordSound DEF w
<1>4. Becomes(x) /\ Remember /\ game' = game
  BY Zenon DEF ReadFails, MarkReadStateFailure
<1> HIDE DEF w
<1>5. <<"frozen", w.sent>> \in Any.traces
  BY <1>1, <1>3 DEF Any, Clients
<1> DEFINE c == [traces |-> {<<"frozen", <<>>>>, <<w.client, <<>>>>}, clicks |-> {<<box, guard>>},
                 routes |-> Any.routes, kepts |-> {kept}]
<1>6. On(c, TripOf(w), w)
  BY <1>3 DEF Sound, On
<1>7. <<"frozen", w.sent>> \in c.traces
  BY <1>3
<1>8. On(Any, TripOf(w), x) /\ On(c, TripOf(w), x)
  <2>1. On(Any, TripOf(w), w)
    BY <1>3 DEF Sound
  <2> HIDE DEF c
  <2> QED BY <1>5, <1>6, <1>7, <2>1, FreezeOn
<1>9. x.client = "frozen"
  <2>1. IsRecord(w)
    BY <1>3 DEF Sound, On
  <2> QED BY <2>1 DEF EnterClientFreeze, IsRecord
<1> HIDE DEF x
<1>10. /\ Sound(Any, x) /\ x.sent = <<>> /\ x.kept = kept
       /\ x.box = box /\ x.guard = guard
  <2>1. Sound(Any, x)
    BY <1>3, <1>8, OnIsSound
  <2> QED BY <1>8, <2>1 DEF On
<1>11. /\ game' \in Snapshots \cup {None} /\ asked' \in [auto : BOOLEAN, stops : 0 .. 2]
       /\ scene \in DOMAIN Scenes
  BY <1>4, AskedTyped DEF AccountOK
<1> QED BY <1>4, <1>9, <1>10, <1>11, BecomesSound DEF Becomes

\* An answer leaves these alone: AnsweredFields' last part by itself.
LEMMA AnsweredKept ==
  ASSUME NEW w, IsRecord(w), NEW what, NEW answer
  PROVE  /\ Answered(w, what, answer).kept = w.kept
         /\ Answered(w, what, answer).box = w.box /\ Answered(w, what, answer).guard = w.guard
<1> DEFINE v == Answered(w, what, answer)
<1>1. /\ v.client = IF answer = "timeout" THEN "frozen" ELSE w.client
      /\ v.sent = Append(w.sent, [do |-> what, answer |-> answer])
      /\ v.box = w.box /\ v.guard = w.guard /\ v.kept = w.kept
  BY AnsweredFields
<1> HIDE DEF v
<1>2. v.kept = w.kept /\ v.box = w.box /\ v.guard = w.guard
  BY <1>1
<1> QED BY <1>2 DEF v

\* The user's buttons.
LEMMA StartOK ==
  ASSUME AccountOK, StartChecked
  PROVE  /\ AccountOK' /\ sent' = <<>> /\ kept' = NewLife(kept.learned)
         /\ box' = ClearBox /\ guard' = IdleGuard /\ client' = "ok"
<1> DEFINE v == [ResetRuntime(Record(FALSE)) EXCEPT !.route.pending = TRUE,
                                          !.kept.latched = FALSE, !.kept.deaths = 0]
<1>1. Becomes(v) /\ Remember /\ game' = game
  BY Zenon DEF StartChecked
<1>2. /\ Sound(Any, v) /\ v.sent = <<>> /\ v.kept = NewLife(kept.learned)
      /\ v.box = ClearBox /\ v.guard = IdleGuard /\ v.client = "ok"
  BY ResetByUser, Zenon
<1> HIDE DEF v
<1>3. /\ game' \in Snapshots \cup {None} /\ asked' \in [auto : BOOLEAN, stops : 0 .. 2]
      /\ scene \in DOMAIN Scenes
  BY <1>1, AskedTyped DEF AccountOK
<1> QED BY <1>1, <1>2, <1>3, BecomesSound DEF Becomes

LEMMA StopOK ==
  ASSUME AccountOK, StopAccount
  PROVE  /\ AccountOK' /\ kept' = NewLife(kept.learned)
         /\ box' = ClearBox /\ guard' = IdleGuard /\ client' = "off"
         /\ \/ sent' = <<>>
            \/ client = "ok" /\ \E r \in Replies : sent' = <<[do |-> "StopPath", answer |-> r]>>
<1> DEFINE u == [ResetRuntime(Record(FALSE)) EXCEPT !.kept.latched = FALSE, !.kept.deaths = 0]
           quiet == IF client = "ok" THEN Call(u, "StopPath") ELSE {u}
           off(w) == [w EXCEPT !.client = "off"]
<1>1. Remember /\ game' = game /\ \E w \in quiet : Becomes(off(w))
  BY Zenon DEF StopAccount
<1>2. /\ Sound(Any, u) /\ u.client = "ok" /\ u.sent = <<>> /\ u.kept = NewLife(kept.learned)
      /\ u.box = ClearBox /\ u.guard = IdleGuard
  BY ResetByUser, Zenon
<1> HIDE DEF u
<1> DEFINE called == {<<[do |-> "StopPath", answer |-> r]>> : r \in Replies}
<1>3. PICK w \in quiet : Becomes(off(w))
  BY <1>1
<1>4. On(Any, TripOf(u), w) /\ w.kept = u.kept /\ w.box = u.box /\ w.guard = u.guard
        /\ (w.sent = <<>> \/ (client = "ok" /\ w.sent \in called))
  <2>1. On(Any, TripOf(u), u) /\ IsRecord(u)
    BY <1>2 DEF Sound, On
  <2>2. CASE w = u
    BY <1>2, <2>1, <2>2
  <2>3. CASE client = "ok" /\ w \in Call(u, "StopPath")
    <3>1. PICK r \in Answers(u) : w = Answered(u, "StopPath", r)
      BY <2>3, Zenon DEF Call
    <3>2. r \in Replies /\ Allows(Any, "StopPath")
      <4>1. r \in Replies
        BY <2>1, <3>1, AnswersOn DEF On
      <4>2. "StopPath" \in Calls
        BY DEF Calls
      <4> QED BY <4>1, <4>2, AnyCalls
    <3>3. On(Any, TripOf(u), w)
      BY <1>2, <2>1, <3>1, <3>2, AnsweredOn
    <3>4. w.sent = Append(u.sent, [do |-> "StopPath", answer |-> r])
      BY <2>1, <3>1, AnsweredFields
    <3>5. w.sent \in called
      <4>1. Append(<<>>, [do |-> "StopPath", answer |-> r]) = <<[do |-> "StopPath", answer |-> r]>>
        OBVIOUS
      <4>2. w.sent = <<[do |-> "StopPath", answer |-> r]>>
        BY <1>2, <3>4, <4>1
      <4> QED BY <3>2, <4>2
    <3>6. w.kept = u.kept /\ w.box = u.box /\ w.guard = u.guard
      <4> HIDE DEF quiet
      <4>1. IsRecord(u)
        BY <2>1
      <4>2. /\ Answered(u, "StopPath", r).kept = u.kept
            /\ Answered(u, "StopPath", r).box = u.box /\ Answered(u, "StopPath", r).guard = u.guard
        BY <4>1, AnsweredKept
      <4> QED BY <3>1, <4>2
    <3> QED BY <2>3, <3>3, <3>5, <3>6
  <2>4. w = u \/ (client = "ok" /\ w \in Call(u, "StopPath"))
    BY <1>3, Zenon
  <2> QED BY <2>2, <2>3, <2>4
<1> HIDE DEF quiet
<1>5. /\ Sound(Any, off(w)) /\ off(w).sent = w.sent /\ off(w).kept = w.kept
      /\ off(w).box = w.box /\ off(w).guard = w.guard /\ off(w).client = "off"
  <2>1. <<"off", w.sent>> \in Any.traces
    BY <1>4 DEF On, Any, Clients
  <2>2. On(Any, TripOf(u), off(w))
    BY <1>4, <2>1, FieldOn
  <2>3. /\ off(w).sent = w.sent /\ off(w).kept = w.kept
        /\ off(w).box = w.box /\ off(w).guard = w.guard /\ off(w).client = "off"
    BY <1>4 DEF On, IsRecord
  <2> HIDE DEF off
  <2> QED BY <1>2, <2>2, <2>3, OnIsSound
<1>6. /\ game' \in Snapshots \cup {None} /\ asked' \in [auto : BOOLEAN, stops : 0 .. 2]
      /\ scene \in DOMAIN Scenes
  BY <1>1, AskedTyped DEF AccountOK
<1>7. Becomes(off(w))
  BY <1>3
<1> HIDE DEF off
<1>8. /\ AccountOK' /\ sent' = w.sent /\ kept' = w.kept
      /\ box' = w.box /\ guard' = w.guard /\ client' = "off"
  BY <1>5, <1>6, <1>7, BecomesSound DEF Becomes
<1> QED BY <1>2, <1>4, <1>8

\* The game cooperates from a snapshot on.
LEMMA CalmDownOK ==
  ASSUME AccountOK, CalmDown
  PROVE  AccountOK' /\ sent' = <<>> /\ kept' = kept
<1>1. game' \in Snapshots
  BY SceneAssumption DEF CalmDown, AccountOK
<1>2. UNCHANGED <<scene, runtime, asked>> /\ sent' = <<>>
  BY DEF CalmDown
<1>3. <<>> \in Seq(Replied)
  OBVIOUS
<1> QED BY <1>1, <1>2, <1>3 DEF AccountOK, runtime

\* A step leaves the types of the account alone.
LEMMA StepOK ==
  ASSUME AccountOK, [Next]_vars
  PROVE  AccountOK'
<1>1. CASE UNCHANGED vars
  BY <1>1 DEF AccountOK, vars, runtime
<1>2. CASE Next
  BY <1>2, TickOK, ReadFailsOK, StartOK, StopOK, CalmDownOK DEF Next
<1> QED BY <1>1, <1>2

\* An account that was never started.
LEMMA InitOK ==
  ASSUME Init
  PROVE  AccountOK
<1>1. FreeRoute \in AnyRoutes
  BY IdleTyped DEF AnyRoutes, FreeRoute
<1>2. /\ ClearBox \in Mailbox /\ IdleGuard \in Guards /\ IdleMount \in Mounts
      /\ IdleTrain \in Trains /\ ~IdleTrain.monitor
  BY IdleTyped
<1>3. SaleOK(NoSale, ClosedShop)
  <2>1. ClosedShop \in Shops
    BY SellAssumption DEF ClosedShop, Shops
  <2> QED BY <2>1, IdleTyped
<1>4. 0 \in 0 .. DeathLimit /\ <<>> \in Seq(Replied)
  BY LifeAssumption
<1>5. [latched |-> FALSE, deaths |-> 0, learned |-> 0] \in Kepts
  BY <1>4 DEF Kepts
<1>6. NotAsked \in [auto : BOOLEAN, stops : 0 .. 2]
  BY DEF NotAsked
<1> QED BY <1>1, <1>2, <1>3, <1>4, <1>5, <1>6 DEF Init, AccountOK, Clients

\* So that they always hold.
LEMMA AccountOKAlways == Spec => []AccountOK
<1>1. Init => AccountOK
  BY InitOK
<1>2. AccountOK /\ [Next]_vars => AccountOK'
  BY StepOK
<1> QED BY <1>1, <1>2, PTL DEF Spec

----------------------------------------------------------------------------
(* The invariants *)

\* Every field of the account stays in its range, for every scene and every limit:
\* no handler, however many follow it in its tick, counts a STOP click, a try, a
\* StopPath of a cold start, an item or a death beyond its limit, and every call
\* is one of the bridge's, with one of its answers.
THEOREM TypesAlways == Spec => []TypeOK
<1>1. ASSUME AccountOK PROVE TypeOK
  <2>1. /\ scene \in DOMAIN Scenes /\ client \in Clients /\ box \in Mailbox
        /\ guard \in Guards /\ mount \in Mounts /\ route \in Routes /\ train \in Trains
        /\ sell \in Sales /\ shop \in Shops /\ revive \in 0 .. 2 /\ kept \in Kepts
        /\ asked \in [auto : BOOLEAN, stops : 0 .. 2]
    BY <1>1 DEF AccountOK, SaleOK, AnyRoutes
  <2>2. \A i \in 1 .. Len(sent) : sent[i] \in Replied
    BY <1>1 DEF AccountOK
  <2>3. \A i \in 1 .. Len(sent) : /\ sent[i].do \in Calls
                                  /\ sent[i].answer \in {"ok", "fail", "timeout"}
    BY <2>2 DEF Replied, Replies
  <2> QED BY <2>1, <2>3 DEF TypeOK, Clients, Guards, Mounts, Routes, Trains, Sales, Shops, Kepts
<1> QED BY <1>1, AccountOKAlways, PTL

\* A travel phase only exists while a sale or a return owns the account, and the
\* checks of the training are for an account with neither, though a sale and a
\* return are begun, ended, given up and thrown away by six handlers.
THEOREM TravelHasOwnerAlways == Spec => []TravelHasOwner
<1>1. AccountOK => TravelHasOwner
  BY DEF AccountOK, TravelHasOwner
<1> QED BY <1>1, AccountOKAlways, PTL

\* The cursor of the sale is never ahead of the session of the bridge, whatever
\* requests timed out though they were carried out, failed, or were repeated.
THEOREM ShopMatchesCursorAlways == Spec => []ShopMatchesCursor
<1>1. AccountOK => ShopMatchesCursor
  BY DEF AccountOK, SaleOK, ShopMatchesCursor
<1> QED BY <1>1, AccountOKAlways, PTL

----------------------------------------------------------------------------
(* What a step sends, and the deaths it counts *)

\* A tick ends on whatever course it is on, with its calls and its life.
LEMMA TickStays ==
  ASSUME AccountOK, Tick
  PROVE  \E s \in Snapshots :
           \A c, e, d :
             /\ Ticks(c, e, d, s) /\ <<client, <<>>>> \in c.traces /\ <<box, guard>> \in c.clicks
             /\ route \in c.routes /\ kept \in c.kepts
             => <<client', sent'>> \in d.traces /\ kept' \in d.kepts
<1>1. PICK s \in Snapshots, pause \in {"no", "F4", "recording"} :
           \E w \in TickOf(Record(FALSE), s, pause) : Becomes(w)
  BY TickReads
<1>2. PICK w \in TickOf(Record(FALSE), s, pause) : Becomes(w)
  BY <1>1
<1>3. ASSUME NEW c, NEW e, NEW d, Ticks(c, e, d, s), <<client, <<>>>> \in c.traces,
             <<box, guard>> \in c.clicks, route \in c.routes, kept \in c.kepts
      PROVE  <<client', sent'>> \in d.traces /\ kept' \in d.kepts
  <2>1. Sound(c, Record(FALSE))
    BY <1>3, RecordSound
  <2>2. AllSound(d, TickOf(Record(FALSE), s, pause))
    BY <1>3, <2>1, TickSound
  <2>3. Sound(d, w)
    BY <1>2, <2>2 DEF AllSound
  <2>4. client' = w.client /\ sent' = w.sent /\ kept' = w.kept
    BY <1>2 DEF Becomes
  <2> QED BY <2>3, <2>4 DEF Sound, On
<1> QED BY <1>3

\* The calls of a step that is not a tick: none, or the StopPath of a client that answered.
LEMMA QuietSteps ==
  ASSUME AccountOK, Next, ~Tick
  PROVE  \/ sent' = <<>>
         \/ client = "ok" /\ \E r \in Replies : sent' = <<[do |-> "StopPath", answer |-> r]>>
BY ReadFailsOK, StartOK, StopOK, CalmDownOK DEF Next

\* So that a step that is not a tick calls nothing but StopPath, and waits for it.
LEMMA QuietCalls ==
  ASSUME AccountOK, Next, ~Tick
  PROVE  /\ \A i \in 1 .. Len(sent') : sent'[i].do = "StopPath" /\ i = Len(sent')
         /\ client = "frozen" => sent' = <<>>
<1> DEFINE good == \A i \in 1 .. Len(sent') : sent'[i].do = "StopPath" /\ i = Len(sent')
<1>1. CASE sent' = <<>>
  BY <1>1
<1>2. ASSUME NEW r \in Replies, sent' = <<[do |-> "StopPath", answer |-> r]>>
      PROVE  good
  BY <1>2
<1> HIDE DEF good
<1>3. CASE client = "ok" /\ \E r \in Replies : sent' = <<[do |-> "StopPath", answer |-> r]>>
  BY <1>2, <1>3 DEF good
<1> QED BY <1>1, <1>3, QuietSteps

\* The lives such a step leaves: this one, or a new one.
LEMMA QuietLives ==
  ASSUME AccountOK, Next, ~Tick
  PROVE  kept' = kept \/ kept' = NewLife(kept.learned)
BY ReadFailsOK, StartOK, StopOK, CalmDownOK DEF Next

\* Calls without a time-out, and with none but the last.
Answering == {q \in Seq(Replied) : \A i \in 1 .. Len(q) : q[i].answer # "timeout"}
Ending ==
  {q \in Seq(Replied) : \A i \in 1 .. Len(q) : q[i].answer = "timeout" => i = Len(q)}

\* A call after calls that were answered.
LEMMA EndingCalls ==
  ASSUME NEW q \in Answering, NEW what \in Calls
  PROVE  /\ q \in Ending
         /\ Append(q, [do |-> what, answer |-> "ok"]) \in Answering
         /\ Append(q, [do |-> what, answer |-> "fail"]) \in Answering
         /\ Append(q, [do |-> what, answer |-> "timeout"]) \in Ending
<1>1. \A r \in Replies : [do |-> what, answer |-> r] \in Replied
  BY DEF Replied
<1>2. q \in Seq(Replied) /\ Len(q) \in Nat
  BY DEF Answering
<1>3. \A x \in Replied : /\ Append(q, x) \in Seq(Replied) /\ Len(Append(q, x)) = Len(q) + 1
                         /\ Append(q, x)[Len(q) + 1] = x
                         /\ \A i \in 1 .. Len(q) : Append(q, x)[i] = q[i]
  BY <1>2
<1>4. ASSUME NEW x \in Replied, x.answer # "timeout"
      PROVE  Append(q, x) \in Answering
  <2>1. \A i \in 1 .. Len(Append(q, x)) : i \in 1 .. Len(q) \/ i = Len(q) + 1
    BY <1>2, <1>3
  <2> QED BY <1>3, <1>4, <2>1 DEF Answering
<1>5. ASSUME NEW x \in Replied
      PROVE  Append(q, x) \in Ending
  <2>1. \A i \in 1 .. Len(Append(q, x)) : i \in 1 .. Len(q) \/ i = Len(q) + 1
    BY <1>2, <1>3
  <2> QED BY <1>3, <1>5, <2>1 DEF Ending, Answering
<1>6. q \in Ending
  BY DEF Answering, Ending
<1> QED BY <1>1, <1>4, <1>5, <1>6 DEF Replies

\* A tick of a client that answered: after a time-out the client is frozen.
LEMMA AnsweringTick ==
  ASSUME NEW s \in Snapshots,
         NEW c, c = [Any EXCEPT !.traces = ((Clients \ {"frozen"}) \X Answering)
                                             \cup ({"frozen"} \X Ending)],
         NEW d, d = [Any EXCEPT !.traces = Clients \X Ending]
  PROVE  Ticks(c, c, d, s)
<1>1. /\ c.clicks = Mailbox \X Guards /\ c.routes = AnyRoutes /\ c.kepts = Kepts
      /\ d.clicks = Mailbox \X Guards /\ d.routes = AnyRoutes /\ d.kepts = Kepts
      /\ c.traces = ((Clients \ {"frozen"}) \X Answering) \cup ({"frozen"} \X Ending)
      /\ d.traces = Clients \X Ending
  BY DEF Any
<1>2. \A x, q : <<x, q>> \in c.traces =>
        /\ x \in Clients /\ q \in Ending
        /\ x # "frozen" => q \in Answering
  BY <1>1, EndingCalls DEF Clients, Answering, Ending
<1>3. \A q \in Answering : \A x \in Clients \ {"frozen"} : <<x, q>> \in c.traces
  BY <1>1
<1>4. \A q \in Ending : <<"frozen", q>> \in c.traces
  BY <1>1
<1>5. \A what \in Calls : Allows(c, what)
  BY <1>2, <1>3, <1>4, EndingCalls DEF Allows, Clients
<1>6. Holds(c, d)
  <2>1. c.traces \subseteq d.traces
    BY <1>1, EndingCalls DEF Clients, Answering, Ending
  <2>2. Within(c, d)
    BY <1>1, <2>1 DEF Within
  <2>3. \A q, x : <<x, q>> \in c.traces =>
          <<"frozen", q>> \in d.traces /\ <<"settling", q>> \in d.traces
    BY <1>1, <1>2 DEF Clients
  <2>4. \A q, x : <<x, q>> \in c.traces /\ x # "frozen" => <<"ok", q>> \in c.traces
    BY <1>2, <1>3 DEF Clients
  <2> QED BY <2>2, <2>3, <2>4 DEF Holds
<1> QED BY <1>1, <1>5, <1>6, FreeTick, AllLives

\* A tick of a client that did not answer: it is not asked for anything.
LEMMA FrozenTick ==
  ASSUME NEW s \in Snapshots, NEW c, c = [Any EXCEPT !.traces = {<<"frozen", <<>>>>}],
         NEW d, d = [Any EXCEPT !.traces = {<<"frozen", <<>>>>, <<"settling", <<>>>>}]
  PROVE  Ticks(c, c, d, s)
<1>1. /\ c.clicks = Mailbox \X Guards /\ c.routes = AnyRoutes /\ c.kepts = Kepts
      /\ d.clicks = Mailbox \X Guards /\ d.routes = AnyRoutes /\ d.kepts = Kepts
      /\ c.traces = {<<"frozen", <<>>>>}
      /\ d.traces = {<<"frozen", <<>>>>, <<"settling", <<>>>>}
  BY DEF Any
<1>2. \A what \in Calls : Allows(c, what)
  BY <1>1 DEF Allows
<1>3. Holds(c, d)
  BY <1>1 DEF Holds, Within
<1> QED BY <1>1, <1>2, <1>3, FreeTick, AllLives

\* Whoever calls the bridge in a tick, and whoever would be next: a call that timed
\* out is the last one of its tick, and a frozen client is sent nothing.
THEOREM NothingAfterTimeoutAlways == Spec => NothingAfterTimeout
<1> DEFINE good == /\ \A i \in 1 .. Len(sent') : sent'[i].answer = "timeout" => i = Len(sent')
                   /\ client = "frozen" => sent' = <<>>
<1>1. ASSUME AccountOK, Tick
      PROVE  good
  <2>1. PICK s \in Snapshots :
          \A c, e, d :
             /\ Ticks(c, e, d, s) /\ <<client, <<>>>> \in c.traces /\ <<box, guard>> \in c.clicks
             /\ route \in c.routes /\ kept \in c.kepts
             => <<client', sent'>> \in d.traces /\ kept' \in d.kepts
    BY <1>1, TickStays
  <2>2. <<box, guard>> \in Mailbox \X Guards /\ route \in AnyRoutes /\ kept \in Kepts
    BY <1>1 DEF AccountOK
  <2>3. ASSUME client # "frozen"
        PROVE  sent' \in Ending
    <3> DEFINE c == [Any EXCEPT !.traces = ((Clients \ {"frozen"}) \X Answering)
                                             \cup ({"frozen"} \X Ending)]
               d == [Any EXCEPT !.traces = Clients \X Ending]
    <3>1. Ticks(c, c, d, s)
      BY AnsweringTick
    <3>2. /\ c.clicks = Mailbox \X Guards /\ c.routes = AnyRoutes /\ c.kepts = Kepts
          /\ c.traces = ((Clients \ {"frozen"}) \X Answering) \cup ({"frozen"} \X Ending)
          /\ d.traces = Clients \X Ending
      BY DEF Any
    <3>3. <<>> \in Answering
      BY DEF Answering
    <3>4. <<client, <<>>>> \in c.traces
      BY <1>1, <2>3, <3>2, <3>3 DEF AccountOK
    <3> HIDE DEF c, d
    <3> QED BY <2>1, <2>2, <3>1, <3>2, <3>4
  <2>4. ASSUME client = "frozen"
        PROVE  sent' = <<>>
    <3> DEFINE c == [Any EXCEPT !.traces = {<<"frozen", <<>>>>}]
               d == [Any EXCEPT !.traces = {<<"frozen", <<>>>>, <<"settling", <<>>>>}]
    <3>1. Ticks(c, c, d, s)
      BY FrozenTick
    <3>2. /\ c.clicks = Mailbox \X Guards /\ c.routes = AnyRoutes /\ c.kepts = Kepts
          /\ c.traces = {<<"frozen", <<>>>>}
          /\ d.traces = {<<"frozen", <<>>>>, <<"settling", <<>>>>}
      BY DEF Any
    <3>3. <<client, <<>>>> \in c.traces
      BY <2>4, <3>2
    <3> HIDE DEF c, d
    <3> QED BY <2>1, <2>2, <3>1, <3>2, <3>3
  <2>5. <<>> \in Ending
    BY DEF Ending
  <2>6. sent' \in Ending
    BY <2>3, <2>4, <2>5
  <2> QED BY <2>4, <2>6 DEF Ending
<1>2. ASSUME AccountOK, Next, ~Tick
      PROVE  good
  BY <1>2, QuietCalls
<1>3. AccountOK /\ [Next]_vars => [good]_vars
  <2> HIDE DEF good
  <2> QED BY <1>1, <1>2
<1> QED BY <1>3, AccountOKAlways, PTL DEF Spec, NothingAfterTimeout

\* The traces of some calls, whatever they end with.
Only(Q) == Clients \X Seq([do : Q, answer : Replies])

\* These calls may be made, and the client may freeze and recover.
LEMMA OnlyCalls ==
  ASSUME NEW Q, NEW c, c.traces = Only(Q)
  PROVE  /\ \A what \in Q : Allows(c, what)
         /\ \A d : d.traces = c.traces /\ Within(c, d) => Holds(c, d)
         /\ client \in Clients => <<client, <<>>>> \in c.traces
<1> DEFINE R == [do : Q, answer : Replies]
<1>1. \A x, q : <<x, q>> \in c.traces <=> x \in Clients /\ q \in Seq(R)
  BY DEF Only
<1>2. \A what \in Q, r \in Replies : [do |-> what, answer |-> r] \in R
  OBVIOUS
<1> HIDE DEF R
<1>3. \A q \in Seq(R), x \in R : Append(q, x) \in Seq(R)
  OBVIOUS
<1>4. \A what \in Q : Allows(c, what)
  BY <1>1, <1>2, <1>3 DEF Allows, Clients, Replies
<1>5. \A d : d.traces = c.traces /\ Within(c, d) => Holds(c, d)
  BY <1>1 DEF Holds, Clients
<1>6. <<>> \in Seq(R)
  OBVIOUS
<1> QED BY <1>1, <1>4, <1>5, <1>6

\* Calls on such a trace.
LEMMA OnlyThese ==
  ASSUME NEW Q, NEW x, NEW q, <<x, q>> \in Only(Q)
  PROVE  \A i \in 1 .. Len(q) : q[i].do \in Q
<1> DEFINE R == [do : Q, answer : Replies]
<1>1. q \in Seq(R)
  BY DEF Only
<1>2. \A i \in 1 .. Len(q) : q[i] \in R
  <2> HIDE DEF R
  <2> QED BY <1>1
<1> QED BY <1>2

\* The calls of a conflict of AutoPath and AutoFight, and of a route to be taken back.
Standing == {"StopPath", "ClickStop", "ClickAuto", "ClickAttack", "ConfirmMap", "Revive"}
Waiting  == {"StopPath", "ClickStop", "ClickAuto", "ClickAttack", "Revive"}

\* A tick in a conflict of AutoPath and AutoFight.
LEMMA ConflictTick ==
  ASSUME NEW s \in Snapshots,
         NEW e, e = [Any EXCEPT !.traces = Only(Standing)]
  PROVE  /\ Dead(s) => Ticks(e, e, e, s)
         /\ ~Dead(s) => \A c : c = [e EXCEPT !.clicks = Mailbox \X {g \in Guards : g.conflict # "no"}]
                          => Ticks(c, e, e, s)
<1>1. /\ e.clicks = Mailbox \X Guards /\ e.routes = AnyRoutes /\ e.kepts = Kepts
      /\ e.traces = Only(Standing)
  BY DEF Any
<1>2. \A what \in Standing : Allows(e, what)
  BY <1>1, OnlyCalls
<1>3. Guarded(e) /\ Breaks(e) /\ Lives(e, s) /\ Counts(e, s) /\ Allows(e, "StopPath")
  BY <1>1, <1>2, LateCourse, AllLives DEF Standing
<1>4. Within(e, e) /\ Holds(e, e)
  BY <1>1, OnlyCalls DEF Within
<1>5. ASSUME NEW c, NEW G \in SUBSET Guards, c.clicks = Mailbox \X G, c.routes = AnyRoutes,
             c.kepts = Kepts, c.traces = Only(Standing), Dead(s) => IdleGuard \in G
      PROVE  Prior(c, s) /\ MayMove(c)
  <2>1. \A what \in Standing : Allows(c, what)
    BY <1>5, OnlyCalls
  <2>2. c.routes \in SUBSET Routes /\ FreeRoute \in c.routes /\ MayMove(c)
    BY <1>5, RoutesThere DEF AnyRoutes
  <2>3. Counts(c, s)
    BY <1>5, AllLives
  <2>4. /\ \A what \in {"ClickStop", "ClickAuto", "ClickAttack"} : Allows(c, what)
        /\ Allows(c, "ConfirmMap") /\ Allows(c, "Revive")
    BY <2>1 DEF Standing
  <2> QED BY <1>5, <2>2, <2>3, <2>4, EarlyCourse
<1>6. CASE Dead(s)
  <2>1. IdleGuard \in Guards /\ Guards \in SUBSET Guards
    BY IdleTyped
  <2>2. Prior(e, s) /\ MayMove(e)
    BY <1>1, <1>5, <2>1
  <2> QED BY <1>3, <1>4, <1>6, <2>2 DEF Ticks, Rests
<1>7. CASE ~Dead(s)
  <2> SUFFICES ASSUME NEW c, c = [e EXCEPT !.clicks = Mailbox \X {g \in Guards : g.conflict # "no"}]
               PROVE  Ticks(c, e, e, s)
    BY <1>7
  <2> DEFINE G == {g \in Guards : g.conflict # "no"}
  <2>1. /\ c.clicks = Mailbox \X G /\ c.routes = AnyRoutes /\ c.kepts = Kepts
        /\ c.traces = Only(Standing)
    BY <1>1 DEF Any
  <2>2. G \in SUBSET Guards /\ \A b, g : <<b, g>> \in c.clicks => g.conflict # "no"
    BY <2>1
  <2> HIDE DEF G
  <2>3. Prior(c, s) /\ MayMove(c)
    BY <1>5, <1>7, <2>1, <2>2
  <2>4. Within(c, e) /\ Holds(c, e)
    <3>1. c.clicks \subseteq e.clicks
      BY <1>1, <2>1, <2>2
    <3>2. Within(c, e) /\ e.traces = c.traces
      BY <1>1, <2>1, <3>1 DEF Within
    <3>3. \A d : d.traces = c.traces /\ Within(c, d) => Holds(c, d)
      BY <2>1, OnlyCalls, Zenon
    <3> QED BY <3>2, <3>3, Zenon
  <2> QED BY <1>3, <1>4, <1>7, <2>2, <2>3, <2>4 DEF Ticks, Rests
<1> QED BY <1>6, <1>7

\* From the tick that sees AutoPath and AutoFight on together to the one that sees
\* them off, both included, nobody moves the account or goes on with its sale,
\* whatever it was doing, and whoever resets the guard of the conflict.
THEOREM ConflictHoldsAlways == Spec => ConflictHolds
<1> DEFINE only == \A i \in 1 .. Len(sent') : sent'[i].do \in Standing
<1>1. ASSUME AccountOK, Tick, guard.conflict # "no"
      PROVE  only
  <2>1. PICK s \in Snapshots :
          \A c, e, d :
             /\ Ticks(c, e, d, s) /\ <<client, <<>>>> \in c.traces /\ <<box, guard>> \in c.clicks
             /\ route \in c.routes /\ kept \in c.kepts
             => <<client', sent'>> \in d.traces /\ kept' \in d.kepts
    BY <1>1, TickStays
  <2> DEFINE e == [Any EXCEPT !.traces = Only(Standing)]
             c == IF Dead(s) THEN e
                  ELSE [e EXCEPT !.clicks = Mailbox \X {g \in Guards : g.conflict # "no"}]
  <2>2. Ticks(c, e, e, s)
    <3> HIDE DEF e
    <3>1. e = [Any EXCEPT !.traces = Only(Standing)]
      BY DEF e
    <3> QED BY <3>1, ConflictTick
  <2>3. /\ e.clicks = Mailbox \X Guards /\ e.routes = AnyRoutes /\ e.kepts = Kepts
        /\ e.traces = Only(Standing)
    BY DEF Any
  <2>4. /\ Mailbox \X {g \in Guards : g.conflict # "no"} \subseteq c.clicks
        /\ c.routes = AnyRoutes /\ c.kepts = Kepts /\ c.traces = Only(Standing)
    <3> HIDE DEF e
    <3>1. e = [e EXCEPT !.clicks = e.clicks] /\ \A x : [e EXCEPT !.clicks = x].clicks = x
      BY DEF e, Any
    <3>2. \A x : /\ [e EXCEPT !.clicks = x].routes = e.routes
                 /\ [e EXCEPT !.clicks = x].kepts = e.kepts
                 /\ [e EXCEPT !.clicks = x].traces = e.traces
      BY DEF e, Any
    <3> QED BY <2>3, <3>1, <3>2
  <2> HIDE DEF c, e
  <2>5. <<client, <<>>>> \in c.traces /\ <<box, guard>> \in c.clicks /\ route \in c.routes
          /\ kept \in c.kepts
    BY <1>1, <2>4, OnlyCalls DEF AccountOK
  <2>6. <<client', sent'>> \in Only(Standing)
    BY <2>1, <2>2, <2>3, <2>5
  <2> QED BY <2>6, OnlyThese
<1>2. ASSUME AccountOK, Next, ~Tick
      PROVE  only
  BY <1>2, QuietCalls DEF Standing
<1>3. AccountOK /\ [Next]_vars => [guard.conflict # "no" => only]_vars
  <2> HIDE DEF only
  <2> QED BY <1>1, <1>2
<1>4. only <=> \A i \in 1 .. Len(sent') :
         sent'[i].do \in {"StopPath", "ClickStop", "ClickAuto", "ClickAttack",
                        "ConfirmMap", "Revive"}
  BY DEF Standing
<1>5. AccountOK /\ [Next]_vars =>
        [guard.conflict # "no" =>
           \A i \in 1 .. Len(sent') :
             sent'[i].do \in {"StopPath", "ClickStop", "ClickAuto", "ClickAttack",
                            "ConfirmMap", "Revive"}]_vars
  <2> HIDE DEF only
  <2> QED BY <1>3, <1>4
<1> QED BY <1>5, AccountOKAlways, PTL DEF Spec, ConflictHolds

\* An account that is seen moving still has the route it had, armed or not.
LEMMA StillRoutes ==
  ASSUME NEW c, c.routes \in {{r \in Routes : ~r.armed}, {r \in Routes : r.pending /\ ~r.armed}}
  PROVE  MayMove(c)
<1> SUFFICES ASSUME NEW r \in c.routes, NEW v \in BOOLEAN, NEW e \in BOOLEAN,
                    NEW m \in Maps \cup {r.map}
             PROVE  Way(r, r.armed, v, e, m) \in c.routes
  BY DEF MayMove
<1>1. r \in Routes /\ ~r.armed
  OBVIOUS
<1>2. /\ r.pending \in BOOLEAN /\ r.stops \in 0 .. OwnershipStops /\ r.armed \in BOOLEAN
      /\ m \in Maps \cup {None}
  BY <1>1 DEF Routes, Maps
<1> DEFINE x == Way(r, r.armed, v, e, m)
<1>3. x \in Routes /\ (x.pending <=> r.pending) /\ (x.armed <=> r.armed)
  BY <1>2 DEF Way, Routes, Maps
<1> HIDE DEF x
<1>4. x \in c.routes
  BY <1>1, <1>3
<1> QED BY <1>4, Zenon DEF x

\* A tick of an account whose route is to be taken back.
LEMMA WaitingTick ==
  ASSUME NEW s \in Snapshots, NEW e, e = [Any EXCEPT !.traces = Only(Waiting)],
         NEW c, c.traces = e.traces, c.clicks = e.clicks, c.kepts = e.kepts,
         c.routes = IF Dead(s) THEN {r \in Routes : ~r.armed}
                    ELSE {r \in Routes : r.pending /\ ~r.armed}
  PROVE  Ticks(c, e, e, s)
<1>1. /\ e.clicks = Mailbox \X Guards /\ e.routes = AnyRoutes /\ e.kepts = Kepts
      /\ e.traces = Only(Waiting)
  BY DEF Any
<1>2. \A what \in Waiting : Allows(e, what) /\ Allows(c, what)
  BY <1>1, OnlyCalls
<1>3. Guarded(e) /\ Breaks(e) /\ Lives(e, s) /\ Allows(e, "StopPath")
  BY <1>1, <1>2, LateCourse, AllLives DEF Waiting
<1>4. c.routes \subseteq AnyRoutes /\ AnyRoutes \subseteq Routes /\ MayMove(c)
  BY StillRoutes DEF AnyRoutes
<1>5. Within(c, e) /\ Within(e, e)
  BY <1>1, <1>4 DEF Within
<1>6. Holds(c, e)
  <2>1. \A d : d.traces = c.traces /\ Within(c, d) => Holds(c, d)
    BY <1>1, OnlyCalls, Zenon
  <2> QED BY <1>5, <2>1, Zenon
<1>7. Prior(c, s)
  <2>1. Counts(c, s)
    BY <1>1, AllLives
  <2>2. c.routes \in SUBSET Routes /\ \A r \in c.routes : ~r.armed
    BY <1>4
  <2>3. Dead(s) => IdleGuard \in Guards /\ FreeRoute \in c.routes
    BY IdleTyped DEF FreeRoute
  <2>4. /\ \A what \in {"ClickStop", "ClickAuto", "ClickAttack"} : Allows(c, what)
        /\ Allows(c, "Revive")
    BY <1>2 DEF Waiting
  <2>5. Guards \in SUBSET Guards
    OBVIOUS
  <2> QED BY <1>1, <2>1, <2>2, <2>3, <2>4, <2>5, EarlyCourse
<1>8. Dead(s) \/ \A r \in c.routes : r.pending
  OBVIOUS
<1> QED BY <1>3, <1>4, <1>5, <1>6, <1>7, <1>8 DEF Ticks, Rests

\* After a start or a revival nobody moves the account, sells with it or confirms a
\* gate before the route was taken back, whichever handler comes first in the tick.
THEOREM OwnershipFirstAlways == Spec => OwnershipFirst
<1> DEFINE only == \A i \in 1 .. Len(sent') : sent'[i].do \in Waiting
<1>1. ASSUME AccountOK, Tick, route.pending
      PROVE  only
  <2>1. PICK s \in Snapshots :
          \A c, e, d :
             /\ Ticks(c, e, d, s) /\ <<client, <<>>>> \in c.traces /\ <<box, guard>> \in c.clicks
             /\ route \in c.routes /\ kept \in c.kepts
             => <<client', sent'>> \in d.traces /\ kept' \in d.kepts
    BY <1>1, TickStays
  <2> DEFINE e == [Any EXCEPT !.traces = Only(Waiting)]
             rs == IF Dead(s) THEN {r \in Routes : ~r.armed}
                   ELSE {r \in Routes : r.pending /\ ~r.armed}
             c == [traces |-> e.traces, clicks |-> e.clicks, routes |-> rs, kepts |-> e.kepts]
  <2>2. /\ e.clicks = Mailbox \X Guards /\ e.kepts = Kepts /\ e.traces = Only(Waiting)
        /\ e = [Any EXCEPT !.traces = Only(Waiting)]
    BY DEF Any
  <2>3. route \in rs
    BY <1>1 DEF AccountOK, AnyRoutes
  <2> HIDE DEF e
  <2>4. c.traces = e.traces /\ c.clicks = e.clicks /\ c.kepts = e.kepts /\ c.routes = rs
    OBVIOUS
  <2> HIDE DEF c
  <2>5. Ticks(c, e, e, s)
    BY <2>2, <2>4, WaitingTick
  <2>6. <<client, <<>>>> \in c.traces /\ <<box, guard>> \in c.clicks /\ kept \in c.kepts
    BY <1>1, <2>2, <2>4, OnlyCalls DEF AccountOK
  <2> HIDE DEF rs
  <2>7. <<client', sent'>> \in Only(Waiting)
    BY <2>1, <2>2, <2>3, <2>4, <2>5, <2>6
  <2> QED BY <2>7, OnlyThese
<1>2. ASSUME AccountOK, Next, ~Tick
      PROVE  only
  BY <1>2, QuietCalls DEF Waiting
<1>3. only <=> \A i \in 1 .. Len(sent') :
         sent'[i].do \in {"StopPath", "ClickStop", "ClickAuto", "ClickAttack", "Revive"}
  BY DEF Waiting
<1>4. AccountOK /\ [Next]_vars =>
        [route.pending =>
           \A i \in 1 .. Len(sent') :
             sent'[i].do \in {"StopPath", "ClickStop", "ClickAuto", "ClickAttack", "Revive"}]_vars
  <2> HIDE DEF only
  <2> QED BY <1>1, <1>2, <1>3
<1> QED BY <1>4, AccountOKAlways, PTL DEF Spec, OwnershipFirst

\* The lives a tick may leave that began with this one.
LivesFrom(k0, dead) ==
  {k \in Kepts :
     /\ k.deaths <= k0.deaths + (IF dead /\ ~k0.latched /\ k.latched THEN 1 ELSE 0)
     /\ dead /\ k0.latched => k.latched}

\* They are closed under what the tick does to a life.
LEMMA LivesCount ==
  ASSUME NEW k0 \in Kepts, NEW s, NEW c, c.kepts = LivesFrom(k0, Dead(s))
  PROVE  k0 \in c.kepts /\ Counts(c, s)
<1>1. \A k \in Kepts : k.latched \in BOOLEAN /\ k.deaths \in 0 .. DeathLimit /\ k.learned \in Nat
  BY DEF Kepts
<1>2. 0 \in 0 .. DeathLimit /\ DeathLimit \in Nat
  BY LifeAssumption
<1>3. \A l \in BOOLEAN, d \in 0 .. DeathLimit, n \in Nat :
        /\ KeptAs(l, d, n) \in Kepts /\ KeptAs(l, d, n).deaths = d
        /\ KeptAs(l, d, n).latched <=> l
  BY DEF Kepts, KeptAs
<1>4. k0 \in c.kepts
  BY <1>1, <1>2 DEF LivesFrom
<1>5. \A k \in c.kepts : /\ KeptAs(k.latched, 0, k.learned) \in c.kepts
                         /\ \A n \in Nat : KeptAs(k.latched, k.deaths, n) \in c.kepts
  <2> SUFFICES ASSUME NEW k \in c.kepts, NEW d \in {0, k.deaths}, NEW n \in Nat
               PROVE  KeptAs(k.latched, d, n) \in c.kepts
    BY <1>1 DEF LivesFrom
  <2>1. k \in Kepts /\ d \in 0 .. DeathLimit /\ d <= k.deaths
    BY <1>1, <1>2 DEF LivesFrom
  <2> DEFINE x == KeptAs(k.latched, d, n)
  <2>2. x \in Kepts /\ x.deaths = d /\ (x.latched <=> k.latched)
    BY <1>1, <1>3, <2>1
  <2> HIDE DEF x
  <2>3. x \in c.kepts
    BY <1>1, <1>2, <2>1, <2>2 DEF LivesFrom
  <2> QED BY <2>3, Zenon DEF x
<1>6. ASSUME Dead(s), NEW k \in c.kepts, ~k.latched, NEW d \in 0 .. DeathLimit, d <= k.deaths + 1
      PROVE  KeptAs(TRUE, d, k.learned) \in c.kepts
  <2> DEFINE yes == TRUE
             x == KeptAs(yes, d, k.learned)
  <2>1. yes \in BOOLEAN /\ yes /\ k \in Kepts /\ ~k0.latched /\ k.deaths <= k0.deaths
    BY <1>6, <1>1, <1>2 DEF LivesFrom
  <2> HIDE DEF yes
  <2>2. x \in Kepts /\ x.deaths = d /\ x.latched
    BY <1>1, <1>3, <2>1
  <2> HIDE DEF x
  <2>3. x \in c.kepts
    BY <1>1, <1>2, <1>6, <2>1, <2>2 DEF LivesFrom
  <2> QED BY <2>3, Zenon DEF x, yes
<1>7. ASSUME ~Dead(s), NEW k \in c.kepts
      PROVE  KeptAs(FALSE, k.deaths, k.learned) \in c.kepts
  <2> DEFINE no == FALSE
             x == KeptAs(no, k.deaths, k.learned)
  <2>1. no \in BOOLEAN /\ k \in Kepts /\ k.deaths <= k0.deaths
    BY <1>7, <1>1, <1>2 DEF LivesFrom
  <2> HIDE DEF no
  <2>2. x \in Kepts /\ x.deaths = k.deaths
    BY <1>1, <1>3, <2>1
  <2> HIDE DEF x
  <2>3. x \in c.kepts
    BY <1>1, <1>2, <1>7, <2>1, <2>2 DEF LivesFrom
  <2> QED BY <2>3, Zenon DEF x, no
<1>8. LivesOn(c)
  BY <1>5, Zenon DEF LivesOn, KeptAs
<1>9. c.kepts \in SUBSET Kepts
  BY DEF LivesFrom
<1>10. Dead(s) => \A k \in c.kepts : ~k.latched =>
                    \A d \in 0 .. DeathLimit :
                      d <= k.deaths + 1 => KeptAs(TRUE, d, k.learned) \in c.kepts
  BY <1>6, Zenon
<1>11. ~Dead(s) => \A k \in c.kepts : KeptAs(FALSE, k.deaths, k.learned) \in c.kepts
  BY <1>7, Zenon
<1> QED BY <1>4, <1>8, <1>9, <1>10, <1>11, Zenon DEF Counts

\* The deaths only grow in the step that begins a death session, and by one: the
\* priority pass and the life handler do not both count it, nor does a session that
\* lasts, whatever is read meanwhile.
THEOREM DeathCountedOnceAlways == Spec => DeathCountedOnce
<1> DEFINE once == kept'.deaths <= kept.deaths + (IF ~kept.latched /\ kept'.latched THEN 1 ELSE 0)
<1>1. ASSUME AccountOK, Tick
      PROVE  once
  <2>1. PICK s \in Snapshots :
          \A c, e, d :
             /\ Ticks(c, e, d, s) /\ <<client, <<>>>> \in c.traces /\ <<box, guard>> \in c.clicks
             /\ route \in c.routes /\ kept \in c.kepts
             => <<client', sent'>> \in d.traces /\ kept' \in d.kepts
    BY <1>1, TickStays
  <2> DEFINE c == [Any EXCEPT !.kepts = LivesFrom(kept, Dead(s))]
  <2>2. /\ c.clicks = Mailbox \X Guards /\ c.routes = AnyRoutes /\ c.traces = Any.traces
        /\ c.kepts = LivesFrom(kept, Dead(s)) /\ c.traces = Clients \X Seq(Replied)
    BY DEF Any
  <2> HIDE DEF c
  <2>3. kept \in c.kepts /\ Counts(c, s)
    BY <1>1, <2>2, LivesCount DEF AccountOK
  <2>4. \A what \in Calls : Allows(c, what)
    BY <2>2, AnyCalls DEF Allows
  <2>5. Holds(c, c)
    BY <2>2 DEF Holds, Within, Clients
  <2>6. Ticks(c, c, c, s)
    BY <2>2, <2>3, <2>4, <2>5, FreeTick
  <2>7. <<client, <<>>>> \in c.traces /\ <<box, guard>> \in c.clicks /\ route \in c.routes
    <3>1. client \in Clients /\ box \in Mailbox /\ guard \in Guards /\ route \in AnyRoutes
      BY <1>1 DEF AccountOK
    <3>2. <<>> \in Seq(Replied)
      OBVIOUS
    <3> QED BY <2>2, <3>1, <3>2
  <2>8. kept' \in LivesFrom(kept, Dead(s))
    BY <2>1, <2>2, <2>3, <2>6, <2>7
  <2>9. kept.deaths \in Nat /\ kept'.deaths \in Nat
    BY <1>1, <2>8, LifeAssumption DEF AccountOK, LivesFrom, Kepts
  <2> QED BY <2>8, <2>9 DEF LivesFrom
<1>2. ASSUME AccountOK, Next, ~Tick
      PROVE  once
  <2>1. kept.deaths \in Nat /\ NewLife(kept.learned).deaths = 0
    BY <1>2, LifeAssumption DEF AccountOK, Kepts, NewLife, KeptAs
  <2> QED BY <1>2, <2>1, QuietLives
<1>3. AccountOK /\ [Next]_vars => [once]_vars
  <2> HIDE DEF once
  <2> QED BY <1>1, <1>2
<1> QED BY <1>3, AccountOKAlways, PTL DEF Spec, DeathCountedOnce

----------------------------------------------------------------------------
(* The clicks *)

Awake == Clients \ {"off"}

\* The clicks among the calls of a step, with their answers.
Clicks(t) == {e \in [do : ClickCalls, answer : Replies] : \E i \in 1 .. Len(t) : t[i] = e}
Silent == [do : Calls \ ClickCalls, answer : Replies]

\* A call adds to the clicks if it is one.
LEMMA ClicksAppended ==
  ASSUME NEW q \in Seq(Replied), NEW e \in Replied
  PROVE  /\ Append(q, e) \in Seq(Replied)
         /\ Clicks(Append(q, e)) = IF e.do \in ClickCalls THEN Clicks(q) \cup {e} ELSE Clicks(q)
<1>1. Append(q, e) \in Seq(Replied)
  OBVIOUS
<1>2. \A x : (\E i \in 1 .. Len(Append(q, e)) : Append(q, e)[i] = x)
               <=> x = e \/ \E i \in 1 .. Len(q) : q[i] = x
  OBVIOUS
<1>3. e \in [do : ClickCalls, answer : Replies] <=> e.do \in ClickCalls
  BY DEF Replied
<1> QED BY <1>1, <1>2, <1>3 DEF Clicks

\* Calls that are no clicks.
LEMMA SilentCalls ==
  ASSUME NEW q \in Seq(Silent)
  PROVE  q \in Seq(Replied) /\ Clicks(q) = {}
<1>1. Silent \subseteq Replied
  BY DEF Silent, Replied
<1>2. \A i \in 1 .. Len(q) : q[i] \in Silent
  OBVIOUS
<1>3. q \in Seq(Replied)
  BY <1>1, <1>2
<1> QED BY <1>2, <1>3 DEF Clicks, Silent

\* What the history of the STOP clicks is after these clicks: see Remember.
StopsAfter(E, req, n) ==
  IF [do |-> "ClickAttack", answer |-> "ok"] \in E /\ req = "TravelGuardReset" THEN 0
  ELSE IF [do |-> "ClickStop", answer |-> "ok"] \in E /\ n < 2 THEN n + 1 ELSE n

\* A mailbox, the guard, and the STOP clicks since it rested: the guard has counted
\* none that was not made, two were verified in phase 3, and the result it waits for
\* is of one that was made since; while it verifies or resets, no STOP click is in
\* the mailbox; and the reset it waits for, or whose failure it has yet to read, is
\* one that two clicks came before.
StopsOK(b, g, n) ==
  /\ b.req = None \/ b.res = None
  /\ g.phase \in 3 .. 5 => g.stops = 0
  /\ (IF g.phase = 3 THEN 2 ELSE g.stops)
       + (IF g.phase = 1 /\ b.res = "TravelGuardStop" /\ b.ok THEN 1 ELSE 0) <= n
  /\ g.phase \in 2 .. 5 => b.req # "TravelGuardStop" /\ b.res # "TravelGuardStop"
  /\ b.req = "TravelGuardReset" =>
       g.stops = 0 /\ g.phase \in {0, 4} /\ (g.phase = 4 => n = 2)
  /\ g.phase = 4 /\ b.res = "TravelGuardReset" /\ ~b.ok => n = 2

\* The mailboxes and guards of a tick after its click, when n STOP clicks were made,
\* the requests in menu have had their AUTO click, and those in old are not new.
Counted(n, menu, old) ==
  {p \in Mailbox \X Guards : /\ StopsOK(p[1], p[2], n)
                             /\ p[1].point = 1 => p[1].req \in menu
                             /\ p[1].req = "TravelGuardReset" => n = 2 \/ p[1].req \in old}

\* What they are closed under.
LEMMA CountedSteps ==
  ASSUME NEW c, NEW n \in 0 .. 2, NEW menu, NEW old, c.clicks = Counted(n, menu, old),
         c.routes \in SUBSET Routes, c.kepts \in SUBSET Kepts
  PROVE  Guarded(c) /\ Breaks(c) /\ <<ClearBox, IdleGuard>> \in c.clicks
<1> DEFINE d == [traces |-> c.traces, clicks |-> Mailbox \X Guards, routes |-> c.routes,
                 kepts |-> c.kepts]
           ok(b, g) == /\ StopsOK(b, g, n)
                       /\ b.point = 1 => b.req \in menu
                       /\ b.req = "TravelGuardReset" => n = 2 \/ b.req \in old
<1>1. \A b, g : <<b, g>> \in c.clicks <=> b \in Mailbox /\ g \in Guards /\ ok(b, g)
  BY DEF Counted
<1>2. d.clicks = Mailbox \X Guards
  OBVIOUS
<1> HIDE DEF d
<1>3. /\ \A b, g : <<b, g>> \in d.clicks <=> b \in Mailbox /\ g \in Guards
      /\ Mails(d) /\ GuardSteps(d) /\ Breaks(d)
  BY <1>2, AnyClicks
<1>4. \A g \in Guards : g.phase \in 0 .. 5 /\ g.stops \in 0 .. 2 /\ (g.phase # 2 => g.stops <= 1)
  BY DEF Guards
<1>5. Typed(c)
  BY DEF Typed, Counted
<1>6. Mails(c)
  <2> SUFFICES ASSUME NEW b \in Mailbox, NEW g \in Guards, ok(b, g)
               PROVE  /\ ok(Emptied(b), g)
                      /\ b.req = None /\ b.res = None =>
                           \A o \in Owners : MayAsk(g, o) => ok(Requested(b, o), g)
    BY <1>1, <1>3 DEF Mails
  <2>1. ok(Emptied(b), g)
    BY <1>4, RuntimeAssumption DEF Emptied, StopsOK, Owners
  <2>2. ASSUME NEW o \in Owners, MayAsk(g, o), b.req = None, b.res = None
        PROVE  ok(Requested(b, o), g)
    <3>1. o \in Workers \/ (o = "TravelGuardStop" /\ g.phase = 0)
      BY <2>2 DEF MayAsk
    <3>2. o # "TravelGuardReset" /\ (o = "TravelGuardStop" => g.phase = 0)
      BY <3>1 DEF Workers
    <3> QED BY <2>2, <3>2, RuntimeAssumption DEF Requested, StopsOK, Owners
  <2> QED BY <2>1, <2>2
<1>7. GuardSteps(c)
  <2> SUFFICES ASSUME NEW b \in Mailbox, NEW g \in Guards, ok(b, g)
               PROVE  LET C == c.clicks IN
    /\ <<b, Phase(g, 0, 0)>> \in C
    /\ g.phase = 0 /\ b.req = "TravelGuardStop" => <<b, Phase(g, 1, g.stops)>> \in C
    /\ g.phase = 3 /\ b.req = "TravelGuardReset" => <<b, Phase(g, 4, g.stops)>> \in C
    /\ g.phase = 3 /\ b.req = None /\ b.res = None =>
         <<Requested(b, "TravelGuardReset"), Phase(g, 4, g.stops)>> \in C
    /\ g.phase = 1 /\ b.res = "TravelGuardStop" =>
         IF b.ok THEN <<Emptied(b), Phase(g, 2, g.stops + 1)>> \in C
         ELSE <<Emptied(b), Phase(g, 0, g.stops)>> \in C
    /\ g.phase = 2 => IF g.stops < 2 THEN <<b, Phase(g, 0, g.stops)>> \in C
                      ELSE <<b, Phase(g, 3, 0)>> \in C
    /\ g.phase = 4 /\ b.res = "TravelGuardReset" =>
         <<Emptied(b), Phase(g, IF b.ok THEN 5 ELSE 3, g.stops)>> \in C
    <3> HIDE DEF ok
    <3>1. \A b, g : <<b, g>> \in c.clicks => b \in Mailbox /\ g \in Guards /\ ok(b, g)
      BY <1>1, Zenon
    <3> QED BY <3>1, Zenon DEF GuardSteps
  <2>1. b.ok \in BOOLEAN /\ g.phase \in 0 .. 5 /\ g.stops \in 0 .. 2
          /\ (g.phase # 2 => g.stops <= 1)
    BY <1>4 DEF Mailbox
  <2>2. None # "TravelGuardStop" /\ None # "TravelGuardReset"
    BY RuntimeAssumption DEF Owners
  <2>3. ok(b, Phase(g, 0, 0))
    BY <2>1, <2>2 DEF Phase, StopsOK
  <2>4. g.phase = 0 /\ b.req = "TravelGuardStop" => ok(b, Phase(g, 1, g.stops))
    BY <2>1, <2>2 DEF Phase, StopsOK
  <2>5. ~(g.phase = 3 /\ b.req = "TravelGuardReset")
    BY DEF StopsOK
  <2>6. g.phase = 3 /\ b.req = None /\ b.res = None =>
          ok(Requested(b, "TravelGuardReset"), Phase(g, 4, g.stops))
    BY <2>1, <2>2 DEF Phase, Requested, StopsOK
  <2>7. g.phase = 1 /\ b.res = "TravelGuardStop" /\ b.ok =>
          ok(Emptied(b), Phase(g, 2, g.stops + 1))
    BY <2>1, <2>2 DEF Phase, Emptied, StopsOK
  <2>8. g.phase = 1 /\ b.res = "TravelGuardStop" /\ ~b.ok =>
          ok(Emptied(b), Phase(g, 0, g.stops))
    BY <2>1, <2>2 DEF Phase, Emptied, StopsOK
  <2>9. g.phase = 2 => IF g.stops < 2 THEN ok(b, Phase(g, 0, g.stops)) ELSE ok(b, Phase(g, 3, 0))
    BY <2>1, <2>2 DEF Phase, StopsOK
  <2>10. g.phase = 4 /\ b.res = "TravelGuardReset" =>
           ok(Emptied(b), Phase(g, IF b.ok THEN 5 ELSE 3, g.stops))
    BY <2>1, <2>2 DEF Phase, Emptied, StopsOK
  <2> HIDE DEF ok
  <2>11. \A x, h : <<x, h>> \in d.clicks /\ ok(x, h) => <<x, h>> \in c.clicks
    BY <1>1, <1>3, Zenon
  <2>12. <<b, g>> \in d.clicks
    BY <1>3
  <2>13. /\ <<b, Phase(g, 0, 0)>> \in d.clicks
         /\ g.phase = 0 /\ b.req = "TravelGuardStop" => <<b, Phase(g, 1, g.stops)>> \in d.clicks
         /\ g.phase = 3 /\ b.req = None /\ b.res = None =>
              <<Requested(b, "TravelGuardReset"), Phase(g, 4, g.stops)>> \in d.clicks
    BY <1>3, <2>12, Zenon DEF GuardSteps
  <2>14. /\ g.phase = 1 /\ b.res = "TravelGuardStop" /\ b.ok =>
              <<Emptied(b), Phase(g, 2, g.stops + 1)>> \in d.clicks
         /\ g.phase = 1 /\ b.res = "TravelGuardStop" /\ ~b.ok =>
              <<Emptied(b), Phase(g, 0, g.stops)>> \in d.clicks
    BY <1>3, <2>12, Zenon DEF GuardSteps
  <2>15. /\ g.phase = 2 => IF g.stops < 2 THEN <<b, Phase(g, 0, g.stops)>> \in d.clicks
                           ELSE <<b, Phase(g, 3, 0)>> \in d.clicks
         /\ g.phase = 4 /\ b.res = "TravelGuardReset" =>
              <<Emptied(b), Phase(g, IF b.ok THEN 5 ELSE 3, g.stops)>> \in d.clicks
    BY <1>3, <2>12, Zenon DEF GuardSteps
  <2>16. /\ <<b, Phase(g, 0, 0)>> \in c.clicks
         /\ g.phase = 0 /\ b.req = "TravelGuardStop" => <<b, Phase(g, 1, g.stops)>> \in c.clicks
         /\ g.phase = 3 /\ b.req = None /\ b.res = None =>
              <<Requested(b, "TravelGuardReset"), Phase(g, 4, g.stops)>> \in c.clicks
    BY <2>3, <2>4, <2>6, <2>11, <2>13, Zenon
  <2>17. g.phase = 1 /\ b.res = "TravelGuardStop" =>
           IF b.ok THEN <<Emptied(b), Phase(g, 2, g.stops + 1)>> \in c.clicks
           ELSE <<Emptied(b), Phase(g, 0, g.stops)>> \in c.clicks
    BY <2>7, <2>8, <2>11, <2>14, Zenon
  <2>18. g.phase = 2 => IF g.stops < 2 THEN <<b, Phase(g, 0, g.stops)>> \in c.clicks
                        ELSE <<b, Phase(g, 3, 0)>> \in c.clicks
    BY <2>9, <2>11, <2>15, Zenon
  <2>19. g.phase = 4 /\ b.res = "TravelGuardReset" =>
           <<Emptied(b), Phase(g, IF b.ok THEN 5 ELSE 3, g.stops)>> \in c.clicks
    BY <2>10, <2>11, <2>15, Zenon
  <2> QED BY <2>5, <2>16, <2>17, <2>18, <2>19, Zenon
<1>8. Breaks(c)
  <2> SUFFICES ASSUME NEW b \in Mailbox, NEW g \in Guards, ok(b, g)
               PROVE  /\ ok(b, Torn(Phase(g, 0, 0), "new")) /\ ok(b, Torn(g, "stopping"))
                      /\ ok(b, IdleGuard)
    <3> HIDE DEF ok
    <3> QED BY <1>1, <1>3 DEF Breaks
  <2> QED BY <1>4 DEF Torn, Phase, IdleGuard, StopsOK
<1>9. ok(ClearBox, IdleGuard)
  BY RuntimeAssumption DEF ClearBox, IdleGuard, StopsOK, Owners
<1> QED BY <1>1, <1>5, <1>6, <1>7, <1>8, <1>9, IdleTyped DEF Guarded

\* A request gets its result, or its first click.
LEMMA CompletedCounts ==
  ASSUME NEW b \in Mailbox, NEW g \in Guards, NEW n \in 0 .. 2, StopsOK(b, g, n), b.req # None
  PROVE  /\ StopsOK(Completed(b, FALSE), g, n) /\ StopsOK(Pointed(b), g, n)
         /\ b.req = "TravelGuardStop" =>
              StopsOK(Completed(b, TRUE), g, IF n < 2 THEN n + 1 ELSE n)
         /\ b.req # "TravelGuardStop" =>
              StopsOK(Completed(b, TRUE), g, IF b.req = "TravelGuardReset" THEN 0 ELSE n)
<1>1. g.phase \in 0 .. 5 /\ g.stops \in 0 .. 2 /\ (g.phase # 2 => g.stops <= 1) /\ b.ok \in BOOLEAN
  BY DEF Guards, Mailbox
<1>2. None # "TravelGuardStop" /\ None # "TravelGuardReset"
  BY RuntimeAssumption DEF Owners
<1>3. StopsOK(Completed(b, FALSE), g, n)
  BY <1>1, <1>2 DEF StopsOK, Completed
<1>4. StopsOK(Pointed(b), g, n)
  BY <1>1, <1>2 DEF StopsOK, Pointed
<1>5. b.req = "TravelGuardStop" => StopsOK(Completed(b, TRUE), g, IF n < 2 THEN n + 1 ELSE n)
  BY <1>1, <1>2 DEF StopsOK, Completed
<1>6. b.req # "TravelGuardStop" =>
        StopsOK(Completed(b, TRUE), g, IF b.req = "TravelGuardReset" THEN 0 ELSE n)
  BY <1>1, <1>2 DEF StopsOK, Completed
<1> QED BY <1>3, <1>4, <1>5, <1>6

\* Before the click: the request, if any, is req.
BeforeClick(w, n, menu, req) ==
  /\ w.sent \in Seq(Silent) /\ w.box \in Mailbox /\ w.guard \in Guards
  /\ n \in 0 .. 2 /\ StopsOK(w.box, w.guard, n)
  /\ w.box.point = 1 => w.box.req # None /\ w.box.req \in menu
  /\ w.box.req \in {None, req}

\* The click of a tick, of the request req: at most one, an ATTACK only after the
\* AUTO click of the request (menu has the requests that had it), and with it the
\* STOP clicks are still well counted.
WellClicked(x, n, menu, req) ==
  /\ x.sent \in Seq(Replied)
  /\ StopsOK(x.box, x.guard, StopsAfter(Clicks(x.sent), req, n))
  /\ \A e \in Clicks(x.sent) : e.do = "ClickAttack" => req \in menu
  /\ x.box.point = 1 =>
       /\ x.box.req = req /\ req # None
       /\ req \in menu \/ [do |-> "ClickAuto", answer |-> "ok"] \in Clicks(x.sent)

LEMMA EndCounts ==
  ASSUME NEW w, NEW x, ClickEnd(w, x), x.guard = w.guard,
         NEW n, NEW menu, NEW req, BeforeClick(w, n, menu, req)
  PROVE  WellClicked(x, n, menu, req)
<1> DEFINE E == Clicks(x.sent)
           b == w.box
           g == w.guard
           call(answer) == [do |-> PointOf(b), answer |-> answer]
           auto == [do |-> "ClickAuto", answer |-> "ok"]
           after == StopsAfter(E, req, n)
<1>0. /\ w.sent \in Seq(Silent) /\ b \in Mailbox /\ g \in Guards
      /\ n \in 0 .. 2 /\ StopsOK(b, g, n)
      /\ b.point = 1 => b.req # None /\ b.req \in menu
      /\ b.req \in {None, req}
  BY DEF BeforeClick
<1>1. w.sent \in Seq(Replied) /\ Clicks(w.sent) = {}
  BY <1>0, SilentCalls
<1>2. PointOf(b) \in ClickCalls /\ \A answer \in Replies : call(answer) \in Replied
  BY DEF PointOf, ClickCalls, Replied, Calls
<1>3. /\ b \in Mailbox /\ g \in Guards /\ StopsOK(b, g, n) /\ x.guard = g
      /\ b.point = 1 => b.req = req /\ req # None /\ req \in menu
  BY <1>0
<1>4. b.req # None =>
        /\ StopsOK(Completed(b, FALSE), g, n) /\ StopsOK(Pointed(b), g, n)
        /\ b.req = "TravelGuardStop" =>
             StopsOK(Completed(b, TRUE), g, IF n < 2 THEN n + 1 ELSE n)
        /\ b.req # "TravelGuardStop" =>
             StopsOK(Completed(b, TRUE), g, IF b.req = "TravelGuardReset" THEN 0 ELSE n)
  <2> HIDE DEF b, g
  <2> QED BY <1>0, <1>3, CompletedCounts
<1>5. \A good : Completed(b, good).point # 1
  BY DEF Completed
<1>6. Pointed(b).req = b.req
  BY DEF Pointed
<1>7. StopsAfter({}, req, n) = n
  BY DEF StopsAfter
<1>8. CASE x.sent = w.sent /\ (x.box = b \/ (b.req # None /\ x.box = Completed(b, FALSE)))
  <2> HIDE DEF b, g, after
  <2>1. x.sent \in Seq(Replied) /\ E = {}
    BY <1>1, <1>8
  <2>2. after = n
    BY <1>7, <2>1 DEF after
  <2>3. StopsOK(x.box, x.guard, after)
    BY <1>3, <1>4, <1>8, <2>2
  <2>4. x.box.point = 1 => x.box.req = req /\ req # None /\ req \in menu
    BY <1>3, <1>5, <1>8
  <2> HIDE DEF E
  <2> QED BY <2>1, <2>3, <2>4 DEF WellClicked, after, E
<1>9. ASSUME NEW answer \in Replies, b.req # None, x.sent = Append(w.sent, call(answer)),
             x.box = AfterClick(b, answer)
      PROVE  WellClicked(x, n, menu, req)
  <2>1. x.sent \in Seq(Replied) /\ E = {call(answer)}
    <3>1. call(answer).do = PointOf(b)
      OBVIOUS
    <3> HIDE DEF call, b
    <3> QED BY <1>1, <1>2, <1>9, <3>1, ClicksAppended
  <2>2. b.req = req
    BY <1>0, <1>9
  <2>3. \A e \in E : e.do = PointOf(b)
    BY <2>1
  <2>4. CASE PointOf(b) = "ClickStop"
    <3>1. b.req = "TravelGuardStop"
      BY <2>4 DEF PointOf, IsAttack
    <3>2. x.box = IF answer = "ok" THEN Completed(b, TRUE) ELSE Completed(b, FALSE)
      BY <1>9, <2>4 DEF AfterClick
    <3>3. after = IF answer = "ok" THEN IF n < 2 THEN n + 1 ELSE n ELSE n
      BY <2>1, <2>4 DEF StopsAfter
    <3> HIDE DEF E, b, g, after
    <3>4. StopsOK(x.box, x.guard, after)
      BY <1>3, <1>4, <1>9, <3>1, <3>2, <3>3, Zenon
    <3>5. x.box.point # 1
      BY <1>5, <3>2
    <3>6. \A e \in E : e.do # "ClickAttack"
      BY <2>3, <2>4
    <3> QED BY <2>1, <3>4, <3>5, <3>6, Zenon DEF WellClicked, after, E
  <2>5. CASE PointOf(b) = "ClickAuto"
    <3>1. after = n
      BY <2>1, <2>5 DEF StopsAfter
    <3>2. answer = "ok" => auto \in E
      BY <2>1, <2>5
    <3>3. x.box = IF answer = "ok" THEN Pointed(b) ELSE Completed(b, FALSE)
      BY <1>9, <2>5 DEF AfterClick
    <3> HIDE DEF E, b, g, auto, after
    <3>4. StopsOK(x.box, x.guard, after)
      BY <1>3, <1>4, <1>9, <3>1, <3>3, Zenon
    <3>5. x.box.point = 1 => x.box.req = req /\ req # None /\ auto \in E
      BY <1>5, <1>6, <1>9, <2>2, <3>2, <3>3
    <3>6. \A e \in E : e.do # "ClickAttack"
      BY <2>3, <2>5
    <3> QED BY <2>1, <3>4, <3>5, <3>6, Zenon DEF WellClicked, after, E, auto
  <2>6. CASE PointOf(b) = "ClickAttack"
    <3>1. b.req # "TravelGuardStop" /\ b.point = 1
      BY <1>3, <2>6 DEF PointOf, IsAttack, Mailbox
    <3>2. req \in menu
      BY <1>3, <3>1
    <3>3. after = IF answer = "ok" THEN IF b.req = "TravelGuardReset" THEN 0 ELSE n ELSE n
      BY <2>1, <2>2, <2>6 DEF StopsAfter
    <3>4. x.box = IF answer = "ok" THEN Completed(b, TRUE) ELSE Completed(b, FALSE)
      BY <1>9, <2>6 DEF AfterClick
    <3> HIDE DEF E, b, g, after
    <3>5. StopsOK(x.box, x.guard, after)
      BY <1>3, <1>4, <1>9, <3>1, <3>3, <3>4, Zenon
    <3>6. x.box.point # 1
      BY <1>5, <3>4
    <3> QED BY <2>1, <3>2, <3>5, <3>6, Zenon DEF WellClicked, after, E
  <2> QED BY <1>2, <2>4, <2>5, <2>6 DEF ClickCalls
<1> QED BY <1>8, <1>9 DEF ClickEnd

----------------------------------------------------------------------------
(* The tick and its clicks *)

\* A tick up to its click: movement and the priorities.
Prioritized(w, s, pause) ==
  Then(ObserveMovement(w, s), LAMBDA x : IF pause = "no" THEN Priorities(x, s) ELSE {x})

\* The course up to the click: the mailbox and the guard as they were, or reset by a
\* death, and no click yet.
Unclicked ==
  [traces |-> Awake \X Seq(Silent), clicks |-> {<<box, guard>>, <<ClearBox, IdleGuard>>},
   routes |-> AnyRoutes, kepts |-> Kepts]

LEMMA UnclickedCourse ==
  ASSUME AccountOK, NEW c, c = Unclicked
  PROVE  /\ Typed(c) /\ MayMove(c) /\ MayDie(c) /\ Within(c, Any)
         /\ Allows(c, "ConfirmMap") /\ Allows(c, "Revive")
<1>1. /\ c.traces = Awake \X Seq(Silent) /\ c.routes = AnyRoutes /\ c.kepts = Kepts
      /\ c.clicks = {<<box, guard>>, <<ClearBox, IdleGuard>>}
  BY DEF Unclicked
<1>2. box \in Mailbox /\ guard \in Guards /\ ClearBox \in Mailbox /\ IdleGuard \in Guards
  BY IdleTyped DEF AccountOK
<1>3. Typed(c)
  BY <1>1, <1>2 DEF Typed, AnyRoutes
<1>4. MayMove(c) /\ FreeRoute \in c.routes
  BY <1>1, RoutesThere
<1>5. MayDie(c)
  <2>1. Counts(c, [life |-> "dead"]) /\ Dead([life |-> "dead"])
    BY <1>1, AllLives DEF Dead
  <2> QED BY <1>1, <1>4, <2>1 DEF MayDie, Counts
<1>6. Within(c, Any)
  <2>1. Seq(Silent) \subseteq Seq(Replied)
    BY SilentCalls
  <2>2. c.traces \subseteq Any.traces
    BY <1>1, <2>1 DEF Any, Awake
  <2> QED BY <1>1, <1>2, <2>2 DEF Within, Any
<1>7. \A what \in Calls \ ClickCalls : Allows(c, what)
  <2> SUFFICES ASSUME NEW what \in Calls \ ClickCalls, NEW q \in Seq(Silent)
               PROVE  \A r \in Replies : Append(q, [do |-> what, answer |-> r]) \in Seq(Silent)
    BY <1>1 DEF Allows, Awake, Clients, Replies
  <2>1. \A r \in Replies : [do |-> what, answer |-> r] \in Silent
    BY DEF Silent
  <2> QED BY <2>1
<1>8. "ConfirmMap" \in Calls \ ClickCalls /\ "Revive" \in Calls \ ClickCalls
  BY DEF Calls, ClickCalls
<1> QED BY <1>3, <1>4, <1>5, <1>6, <1>7, <1>8

\* Whoever is prioritized has had its click, or none.
LEMMA PrioritizedEnds ==
  ASSUME AccountOK, client # "off", NEW s \in Snapshots, NEW pause, NEW late,
         NEW x \in Prioritized(Record(late), s, pause)
  PROVE  /\ Sound(Any, x)
         /\ \E y : Sound(Unclicked, y) /\ x.guard = y.guard /\ ClickEnd(y, x)
<1> DEFINE w == Record(late)
           c == Unclicked
           end(y, z) == Sound(Any, z) /\ z.guard = y.guard /\ ClickEnd(y, z)
           good(z) == \E y : Sound(c, y) /\ end(y, z)
           first(y) == IF pause = "no" THEN Priorities(y, s) ELSE {y}
           one == ObserveMovement(w, s)
<1>1. /\ Typed(c) /\ MayMove(c) /\ MayDie(c) /\ Within(c, Any)
      /\ Allows(c, "ConfirmMap") /\ Allows(c, "Revive")
  BY UnclickedCourse
<1>2. Sound(c, w)
  <2>1. <<client, <<>>>> \in c.traces /\ <<box, guard>> \in c.clicks
          /\ route \in c.routes /\ kept \in c.kepts
    <3>1. <<>> \in Seq(Silent)
      OBVIOUS
    <3>2. client \in Awake /\ route \in AnyRoutes /\ kept \in Kepts
      BY DEF AccountOK, Awake
    <3>3. c.traces = Awake \X Seq(Silent) /\ c.routes = AnyRoutes /\ c.kepts = Kepts
            /\ c.clicks = {<<box, guard>>, <<ClearBox, IdleGuard>>}
      BY DEF Unclicked
    <3> HIDE DEF c
    <3> QED BY <3>1, <3>2, <3>3
  <2> QED BY <2>1, RecordSound
<1> HIDE DEF c, w
<1>3. AllSound(c, one)
  <2>1. On(c, TripOf(w), w)
    BY <1>2 DEF Sound
  <2>2. AllOn(c, TripOf(w), one)
    BY <1>1, <2>1, ObserveOn
  <2> HIDE DEF one
  <2> QED BY <1>2, <2>2, OnIsSound
<1> HIDE DEF one
<1>4. \A y : Sound(c, y) => good(y)
  <2>1. \A y : Sound(c, y) => Sound(Any, y)
    BY <1>1, Wider
  <2>2. \A y : y.guard = y.guard /\ ClickEnd(y, y)
    BY DEF ClickEnd
  <2> QED BY <2>1, <2>2, Zenon
<1>5. ASSUME NEW y, Sound(c, y), NEW z \in Priorities(y, s)
      PROVE  good(z)
  <2> DEFINE two == PriorityLauLanGateConfirmClick(y, s)
             three == UNION {IF u.done THEN {u} ELSE PriorityReviveClick(u, s) : u \in two}
             four == UNION {IF u.done THEN {u} ELSE PriorityAutoClick(u, s) : u \in three}
  <2>1. AllSound(c, two)
    <3>1. On(c, TripOf(y), y)
      BY <1>5 DEF Sound
    <3>2. AllOn(c, TripOf(y), two)
      BY <1>1, <3>1, ConfirmOn
    <3> HIDE DEF two
    <3> QED BY <1>5, <3>2, OnIsSound
  <2> HIDE DEF two
  <2>2. AllSound(c, three)
    <3>1. \A u \in two : AllSound(c, PriorityReviveClick(u, s))
      BY <1>1, <2>1, ReviveSound DEF AllSound
    <3>2. \A u \in two : AllSound(c, IF u.done THEN {u} ELSE PriorityReviveClick(u, s))
      BY <2>1, <3>1, Zenon DEF AllSound
    <3> QED BY <3>2, Zenon DEF AllSound
  <2> HIDE DEF three
  <2>3. ASSUME NEW u \in three, NEW v \in PriorityAutoClick(u, s)
        PROVE  good(v)
    <3>1. Sound(c, u) /\ Sound(Any, u)
      BY <1>1, <2>2, Wider DEF AllSound
    <3>2. Typed(Any) /\ MayClick(Any) /\ On(Any, TripOf(u), u)
      <4>1. Ticks(Any, Any, Any, s)
        BY AnyTick
      <4> QED BY <3>1, <4>1 DEF Ticks, Prior, Sound
    <3>3. On(Any, TripOf(u), v) /\ v.guard = u.guard /\ ClickEnd(u, v)
      BY <2>3, <3>2, ClickOn
    <3>4. Sound(Any, v)
      BY <3>1, <3>3, OnIsSound
    <3> QED BY <3>1, <3>3, <3>4
  <2>4. \A v \in four : good(v)
    <3>1. \A u \in three : good(u)
      BY <1>4, <2>2, Zenon DEF AllSound
    <3> HIDE DEF good
    <3> QED BY <2>3, <3>1, Zenon
  <2> HIDE DEF four
  <2>5. PICK v \in four : z = [v EXCEPT !.done = FALSE]
    BY <1>5, Zenon DEF Priorities, Then, four, three, two
  <2>6. PICK u : Sound(c, u) /\ Sound(Any, v) /\ v.guard = u.guard /\ ClickEnd(u, v)
    BY <2>4
  <2>7. Sound(Any, z) /\ z.guard = v.guard /\ z.box = v.box /\ z.client = v.client /\ z.sent = v.sent
    <3>1. IsRecord(v)
      BY <2>6 DEF Sound, On
    <3>2. Sound(Any, z)
      BY <2>5, <2>6, SoundWrites, Zenon
    <3> QED BY <2>5, <3>1, <3>2 DEF IsRecord
  <2>8. ClickEnd(u, z)
    BY <2>6, <2>7, Zenon DEF ClickEnd
  <2> QED BY <2>6, <2>7, <2>8, Zenon
<1>6. \A y : Sound(c, y) => \A z \in first(y) : good(z)
  <2> HIDE DEF good
  <2> QED BY <1>4, <1>5, Zenon
<1> HIDE DEF first
<1>7. \A y \in one : \A z \in IF y.done THEN {y} ELSE first(y) : good(z)
  <2> HIDE DEF good
  <2> QED BY <1>3, <1>4, <1>6, Zenon DEF AllSound
<1>8. good(x)
  <2>1. x \in UNION {IF y.done THEN {y} ELSE first(y) : y \in one}
    BY Zenon DEF Prioritized, Then, one, first, w
  <2> HIDE DEF good
  <2> QED BY <1>7, <2>1, Zenon
<1> QED BY <1>8, Zenon DEF c

\* The wait for the client, of a record that is prioritized.
Waited(x, s, pause) ==
  IF x.done \/ pause = "recording" THEN {x} ELSE HoldUntilClientStable(x, s)

LEMMA TickFromPriorities ==
  ASSUME NEW w, NEW s, NEW pause, NEW z \in TickOf(w, s, pause)
  PROVE  \E x \in Prioritized(w, s, pause) : z \in Finish(Waited(x, s, pause), s, pause)
<1> DEFINE third(x) == IF pause = "no" THEN HandleAutoPathFightInvariant(x, s) ELSE {x}
           fourth(x) == IF pause = "no" THEN TickAccount(x, s) ELSE {x}
           next(x) == IF x.done THEN {x} ELSE third(x)
           last(x) == IF x.done THEN {x} ELSE fourth(x)
           one == Prioritized(w, s, pause)
           two == UNION {Waited(x, s, pause) : x \in one}
           end(ones) == UNION {last(y) : y \in UNION {next(x) : x \in ones}}
<1>1. \A ones : Finish(ones, s, pause) = end(ones)
  BY Zenon DEF Finish, Then
<1>2. Watched(w, s, pause) =
        UNION {IF x.done THEN {x} ELSE IF pause = "recording" THEN {x} ELSE HoldUntilClientStable(x, s) :
                 x \in one}
  BY Zenon DEF Watched, Prioritized, Then
<1>3. \A x : Waited(x, s, pause) =
        IF x.done THEN {x} ELSE IF pause = "recording" THEN {x} ELSE HoldUntilClientStable(x, s)
  BY DEF Waited
<1>4. Watched(w, s, pause) = two
  <2> HIDE DEF one
  <2> QED BY <1>2, <1>3
<1>5. z \in end(two)
  <2>1. TickOf(w, s, pause) = Finish(Watched(w, s, pause), s, pause)
    BY Zenon DEF TickOf, Safe, Watched, Finish
  <2> HIDE DEF end
  <2> QED BY <1>1, <1>4, <2>1, Zenon
<1> HIDE DEF one, next, last
<1>6. \E x \in one : z \in end(Waited(x, s, pause))
  BY <1>5
<1> HIDE DEF end
<1> QED BY <1>1, <1>6, Zenon DEF one

\* The course after the click: the clicks are made.
AfterClicks(E, n, menu, old) ==
  [traces |-> Awake \X {t \in Seq(Replied) : Clicks(t) = E}, clicks |-> Counted(n, menu, old),
   routes |-> AnyRoutes, kepts |-> Kepts]

LEMMA ClickedCourse ==
  ASSUME NEW s, NEW E, NEW n \in 0 .. 2, NEW menu, NEW old, NEW c,
         c = AfterClicks(E, n, menu, old)
  PROVE  Holds(c, c) /\ Rests(c, c, c, s)
<1>1. /\ c.traces = Awake \X {t \in Seq(Replied) : Clicks(t) = E}
      /\ c.clicks = Counted(n, menu, old) /\ c.routes = AnyRoutes /\ c.kepts = Kepts
  BY DEF AfterClicks
<1>2. Guarded(c) /\ Breaks(c) /\ <<ClearBox, IdleGuard>> \in c.clicks
  BY <1>1, CountedSteps DEF AnyRoutes
<1>3. \A what \in Calls \ ClickCalls : Allows(c, what)
  <2> SUFFICES ASSUME NEW what \in Calls \ ClickCalls, NEW q \in Seq(Replied), Clicks(q) = E
               PROVE  \A r \in Replies :
                        LET t == Append(q, [do |-> what, answer |-> r]) IN
                          t \in Seq(Replied) /\ Clicks(t) = E
    BY <1>1 DEF Allows, Awake, Clients, Replies
  <2> SUFFICES ASSUME NEW r \in Replies
               PROVE  LET t == Append(q, [do |-> what, answer |-> r]) IN
                        t \in Seq(Replied) /\ Clicks(t) = E
    OBVIOUS
  <2> DEFINE e == [do |-> what, answer |-> r]
  <2>1. e \in Replied /\ e.do \notin ClickCalls
    BY DEF Replied
  <2> HIDE DEF e
  <2>2. Append(q, e) \in Seq(Replied) /\ Clicks(Append(q, e)) = E
    BY <2>1, ClicksAppended
  <2> QED BY <2>2 DEF e
<1>4. Holds(c, c) /\ Within(c, c)
  BY <1>1 DEF Holds, Within, Awake, Clients
<1>5. Counts(c, s)
  BY <1>1, AllLives
<1>6. Allows(c, "StopPath")
  BY <1>3 DEF Calls, ClickCalls
<1>7. Lives(c, s)
  BY <1>1, <1>2, <1>5, <1>6, LivingCourse
<1>8. Sells(Going(c))
  BY <1>1, <1>2, <1>3, <1>5, SellingCourse
<1> QED BY <1>2, <1>4, <1>6, <1>7, <1>8 DEF Rests

\* A mailbox that was cleared, and a guard that rests.
LEMMA ClearedAsks ==
  ASSUME NEW n \in 0 .. 2
  PROVE  StopsOK(ClearBox, IdleGuard, n) /\ ClearBox.point = 0 /\ ClearBox.req = None
BY RuntimeAssumption DEF StopsOK, ClearBox, IdleGuard, Owners

\* The mailbox, the guard and the history: the STOP clicks are well counted, and a
\* request that had its first click had its AUTO click.
AsksOK ==
  /\ AccountOK
  /\ StopsOK(box, guard, StopsMade)
  /\ box.point = 1 => box.req # None /\ asked.auto

\* A guard that rests has counted nothing.
LEMMA RestForgets ==
  ASSUME NEW b \in Mailbox, NEW g \in Guards, NEW n \in 0 .. 2, StopsOK(b, g, n)
  PROVE  StopsOK(b, g, IF g.phase = 0 /\ g.stops = 0 THEN 0 ELSE n)
BY DEF StopsOK

\* A tick.
LEMMA TickAsks ==
  ASSUME AsksOK, Tick
  PROVE  /\ AsksOK'
         /\ Sent("ClickAttack")' => asked.auto
         /\ box'.req = "TravelGuardReset" /\ box.req # "TravelGuardReset" => asked'.stops = 2
<1> DEFINE n == StopsMade
           menu == IF asked.auto THEN {box.req} ELSE {}
<1>1. AccountOK /\ client # "off" /\ Remember
  BY TickReads DEF AsksOK
<1>2. PICK s \in Snapshots, pause \in {"no", "F4", "recording"} :
           \E w \in TickOf(Record(FALSE), s, pause) : Becomes(w)
  BY <1>1, TickReads
<1>3. PICK w \in TickOf(Record(FALSE), s, pause) : Becomes(w)
  BY <1>2
<1>4. PICK x \in Prioritized(Record(FALSE), s, pause) : w \in Finish(Waited(x, s, pause), s, pause)
  BY <1>3, TickFromPriorities, Zenon
<1>5. Sound(Any, x) /\ \E y : Sound(Unclicked, y) /\ x.guard = y.guard /\ ClickEnd(y, x)
  BY <1>1, <1>4, PrioritizedEnds
<1>6. PICK y : Sound(Unclicked, y) /\ x.guard = y.guard /\ ClickEnd(y, x)
  BY <1>5
<1>7. /\ y.client \in Awake /\ y.sent \in Seq(Silent)
      /\ <<y.box, y.guard>> \in {<<box, guard>>, <<ClearBox, IdleGuard>>}
  BY <1>6 DEF Sound, On, Unclicked
<1>8. box \in Mailbox /\ guard \in Guards /\ n \in 0 .. 2 /\ asked.auto \in BOOLEAN
  BY <1>1 DEF AccountOK, StopsMade
<1>9. /\ y.box \in Mailbox /\ y.guard \in Guards /\ StopsOK(y.box, y.guard, n)
      /\ y.box.point = 1 => y.box.req # None /\ y.box.req \in menu
      /\ y.box.req \in {None, box.req}
  <2>1. CASE y.box = box /\ y.guard = guard
    BY <1>8, <2>1 DEF AsksOK
  <2>2. CASE y.box = ClearBox /\ y.guard = IdleGuard
    <3>1. StopsOK(ClearBox, IdleGuard, n) /\ ClearBox.point = 0 /\ ClearBox.req = None
      BY <1>8, ClearedAsks
    <3> QED BY <2>2, <3>1, IdleTyped
  <2> QED BY <1>7, <2>1, <2>2
<1> HIDE DEF menu, n
<1>10. WellClicked(x, n, menu, box.req)
  <2>1. BeforeClick(y, n, menu, box.req)
    BY <1>7, <1>8, <1>9 DEF BeforeClick
  <2> QED BY <1>6, <2>1, EndCounts, Zenon
<1> DEFINE E == Clicks(x.sent)
           n1 == StopsAfter(E, box.req, n)
           menu1 == IF x.box.point = 1 THEN {box.req} ELSE {}
           c == AfterClicks(E, n1, menu1, {box.req})
<1>11. n1 \in 0 .. 2
  BY <1>8 DEF StopsAfter
<1>12. Sound(c, x)
  <2>1. x.client \in Awake
    BY <1>6, <1>7 DEF ClickEnd, Awake, Clients
  <2>2. x.sent \in Seq(Replied) /\ x.box \in Mailbox /\ x.guard \in Guards
    BY <1>5 DEF Sound, On, Any
  <2>3. StopsOK(x.box, x.guard, n1) /\ (x.box.point = 1 => x.box.req \in menu1)
    BY <1>10 DEF WellClicked
  <2>4. x.box.req = "TravelGuardReset" => x.box.req \in {box.req}
    <3>1. \A b, good : Completed(b, good).req = None /\ Pointed(b).req = b.req
      BY Zenon DEF Completed, Pointed
    <3>2. \A answer : AfterClick(y.box, answer).req \in {None, y.box.req}
      BY <3>1 DEF AfterClick
    <3>3. x.box.req \in {None, y.box.req}
      <4>1. \/ x.box = y.box \/ x.box = Completed(y.box, FALSE)
            \/ \E answer : x.box = AfterClick(y.box, answer)
        BY <1>6, Zenon DEF ClickEnd
      <4>2. Completed(y.box, FALSE).req = None
        BY <3>1, Zenon
      <4> QED BY <3>2, <4>1, <4>2
    <3>4. None # "TravelGuardReset"
      BY RuntimeAssumption DEF Owners
    <3> QED BY <1>9, <3>3, <3>4
  <2> HIDE DEF n1, menu1
  <2>5. <<x.client, x.sent>> \in c.traces /\ <<x.box, x.guard>> \in c.clicks
    BY <2>1, <2>2, <2>3, <2>4 DEF AfterClicks, Counted
  <2>6. c.routes = Any.routes /\ c.kepts = Any.kepts
    BY DEF AfterClicks, Any
  <2> HIDE DEF c
  <2> QED BY <1>5, <2>5, <2>6 DEF Sound, On
<1> HIDE DEF n1, menu1, E
<1>13. Holds(c, c) /\ Rests(c, c, c, s)
  BY <1>11, ClickedCourse
<1>14. /\ c.traces = Awake \X {t \in Seq(Replied) : Clicks(t) = E}
       /\ c.clicks = Counted(n1, menu1, {box.req})
  BY DEF AfterClicks
<1> HIDE DEF c
<1>15. Sound(c, w)
  <2> DEFINE ones == Waited(x, s, pause)
  <2>1. \A u \in ones :
          Sound(c, u) /\ (u.done \/ (Sound(c, u) /\ (pause = "no" => u.client = "ok")))
    <3>1. \A u \in HoldUntilClientStable(x, s) : Sound(c, u) /\ (u.done \/ (Sound(c, u) /\ u.client = "ok"))
      BY <1>12, <1>13, HoldSound
    <3>2. (ones = {x} /\ (x.done \/ pause # "no")) \/ ones = HoldUntilClientStable(x, s)
      BY DEF Waited
    <3> HIDE DEF ones
    <3> QED BY <1>12, <3>1, <3>2
  <2> HIDE DEF ones
  <2>2. AllSound(c, Finish(ones, s, pause))
    BY <1>13, <2>1, FinishSound
  <2> QED BY <1>4, <2>2, Zenon DEF AllSound, ones
<1>16. /\ client' \in Awake /\ sent' \in Seq(Replied) /\ Clicks(sent') = E
       /\ StopsOK(box', guard', n1) /\ (box'.point = 1 => box'.req \in menu1)
       /\ box'.req = "TravelGuardReset" => n1 = 2 \/ box'.req \in {box.req}
  <2>1. client' = w.client /\ sent' = w.sent /\ box' = w.box /\ guard' = w.guard
    BY <1>3 DEF Becomes
  <2>2. <<w.client, w.sent>> \in c.traces /\ <<w.box, w.guard>> \in c.clicks
    BY <1>15 DEF Sound, On
  <2>3. <<client', sent'>> \in c.traces /\ <<box', guard'>> \in c.clicks
    BY <2>1, <2>2, Zenon
  <2> QED BY <1>14, <2>3 DEF Counted
<1>17. \A what \in ClickCalls : Accepted(what)' <=> [do |-> what, answer |-> "ok"] \in E
  BY <1>16 DEF Accepted, Clicks, Replies
<1>18. /\ asked'.stops = n1
       /\ asked'.auto = (/\ box'.req # None /\ box'.req = box.req
                         /\ asked.auto \/ [do |-> "ClickAuto", answer |-> "ok"] \in E)
  <2>1. client' # "off"
    BY <1>16 DEF Awake
  <2>2. /\ Accepted("ClickAuto")' <=> [do |-> "ClickAuto", answer |-> "ok"] \in E
        /\ Accepted("ClickAttack")' <=> [do |-> "ClickAttack", answer |-> "ok"] \in E
        /\ Accepted("ClickStop")' <=> [do |-> "ClickStop", answer |-> "ok"] \in E
    BY <1>17 DEF ClickCalls
  <2> QED BY <1>1, <2>1, <2>2 DEF Remember, StopsAfter, n1, n
<1>19. box'.point = 1 => box'.req # None /\ asked'.auto
  <2>1. ASSUME box'.point = 1
        PROVE  box'.req # None /\ asked'.auto
    <3>1. x.box.point = 1 /\ box'.req = box.req
      BY <1>16, <2>1 DEF menu1
    <3>2. box.req # None /\ (box.req \in menu \/ [do |-> "ClickAuto", answer |-> "ok"] \in E)
      BY <1>10, <3>1 DEF WellClicked, E
    <3>3. box.req \in menu => asked.auto
      BY DEF menu
    <3> QED BY <1>18, <3>1, <3>2, <3>3
  <2> QED BY <2>1
<1>20. Sent("ClickAttack")' => asked.auto
  <2>1. ASSUME Sent("ClickAttack")'
        PROVE  asked.auto
    <3>1. PICK i \in 1 .. Len(sent') : sent'[i].do = "ClickAttack"
      BY <2>1 DEF Sent
    <3>2. sent'[i] \in Replied
      BY <1>16
    <3>3. sent'[i] \in E
      BY <1>16, <3>1, <3>2 DEF Clicks, Replied, ClickCalls
    <3>4. box.req \in menu
      BY <1>10, <3>1, <3>3 DEF WellClicked, E
    <3> QED BY <3>4 DEF menu
  <2> QED BY <2>1
<1>21. AccountOK'
  BY <1>1, TickOK
<1>22. StopsOK(box', guard', StopsMade')
  <2>1. StopsMade' = IF guard'.phase = 0 /\ guard'.stops = 0 THEN 0 ELSE n1
    BY <1>18 DEF StopsMade
  <2>2. guard' \in Guards /\ box' \in Mailbox
    BY <1>21 DEF AccountOK
  <2> QED BY <1>11, <1>16, <2>1, <2>2, RestForgets
<1> QED BY <1>16, <1>18, <1>19, <1>20, <1>21, <1>22 DEF AsksOK

\* The steps that are no ticks: the user's buttons clear the mailbox, and the others
\* leave it, with its history, alone.
LEMMA QuietAsks ==
  ASSUME AsksOK, Next, ~Tick
  PROVE  AsksOK'
<1>1. AccountOK
  BY DEF AsksOK
<1>3. ASSUME AccountOK', box' = ClearBox, guard' = IdleGuard
      PROVE  AsksOK'
  <2>1. StopsMade' \in 0 .. 2
    BY <1>3 DEF AccountOK, StopsMade
  <2>2. StopsOK(box', guard', StopsMade') /\ box'.point = 0
    BY <1>3, <2>1, ClearedAsks
  <2> QED BY <1>3, <2>2 DEF AsksOK
<1>4. CASE StartChecked
  BY <1>1, <1>3, <1>4, StartOK
<1>5. CASE StopAccount
  BY <1>1, <1>3, <1>5, StopOK
<1>6. CASE CalmDown
  <2>1. AccountOK'
    BY <1>1, <1>6, CalmDownOK
  <2>2. box' = box /\ guard' = guard /\ asked' = asked
    BY <1>6 DEF CalmDown, runtime
  <2> QED BY <2>1, <2>2 DEF AsksOK, StopsMade
<1>7. CASE ReadFails
  <2>1. /\ AccountOK' /\ sent' = <<>> /\ client' = "frozen"
        /\ box' = box /\ guard' = guard
    BY <1>1, <1>7, ReadFailsOK
  <2>2. Remember
    BY <1>7 DEF ReadFails
  <2>3. \A what : ~Accepted(what)'
    BY <2>1 DEF Accepted
  <2>4. /\ asked'.stops = StopsMade
        /\ asked'.auto = (box.req # None /\ asked.auto)
    BY <2>1, <2>2, <2>3 DEF Remember
  <2>5. StopsMade' = StopsMade
    BY <2>1, <2>4 DEF StopsMade
  <2> QED BY <2>1, <2>4, <2>5 DEF AsksOK
<1> QED BY <1>4, <1>5, <1>6, <1>7 DEF Next

\* Those steps ask for nothing.
LEMMA QuietMailbox ==
  ASSUME AccountOK, Next, ~Tick
  PROVE  box' = ClearBox \/ box' = box
<1>1. CASE StartChecked
  BY <1>1, StartOK
<1>2. CASE StopAccount
  BY <1>2, StopOK
<1>3. CASE CalmDown
  BY <1>3 DEF CalmDown, runtime
<1>4. CASE ReadFails
  BY <1>4, ReadFailsOK
<1> QED BY <1>1, <1>2, <1>3, <1>4 DEF Next

\* So that the clicks always follow their order.
LEMMA AsksOKAlways == Spec => []AsksOK
<1>1. Init => AsksOK
  <2> SUFFICES ASSUME Init PROVE AsksOK
    OBVIOUS
  <2>1. AccountOK
    BY InitOK
  <2>2. box = ClearBox /\ guard = IdleGuard /\ StopsMade \in 0 .. 2
    BY DEF Init, NotAsked, StopsMade
  <2> QED BY <2>1, <2>2, ClearedAsks DEF AsksOK
<1>2. AsksOK /\ [Next]_vars => AsksOK'
  <2>1. ASSUME AsksOK, UNCHANGED vars PROVE AsksOK'
    BY <2>1, StepOK DEF AsksOK, vars, runtime, StopsMade
  <2> QED BY <2>1, TickAsks, QuietAsks
<1> QED BY <1>1, <1>2, PTL DEF Spec

\* ATTACK is clicked for a request whose AUTO click was accepted, and for no other:
\* not for one that took the place of a request which had its first click, nor after
\* a mailbox that a revival, a reset or a reconnect threw away.
THEOREM AttackFollowsMenuAlways == Spec => AttackFollowsMenu
<1>1. ASSUME AsksOK, Next, ~Tick
      PROVE  ~Sent("ClickAttack")'
  <2>1. \A i \in 1 .. Len(sent') : sent'[i].do = "StopPath"
    BY <1>1, QuietCalls DEF AsksOK
  <2> QED BY <2>1 DEF Sent
<1>2. AsksOK /\ [Next]_vars => [Sent("ClickAttack")' => asked.auto]_vars
  BY <1>1, TickAsks
<1> QED BY <1>2, AsksOKAlways, PTL DEF Spec, AttackFollowsMenu

\* The guard asks for a reset, AUTO and ATTACK, after two accepted STOP clicks of
\* this episode and not fewer: a result is counted once, though it may be read in a
\* later tick or after a freeze, and one left by a guard that began anew never is.
THEOREM ResetAfterTwoStopsAlways == Spec => ResetAfterTwoStops
<1> DEFINE two == box'.req = "TravelGuardReset" /\ box.req # "TravelGuardReset" => asked'.stops = 2
<1>1. ASSUME AsksOK, Next, ~Tick
      PROVE  two
  <2>1. box' = ClearBox \/ box' = box
    BY <1>1, QuietMailbox DEF AsksOK
  <2> QED BY <2>1, RuntimeAssumption DEF ClearBox, Owners
<1>2. AsksOK /\ [Next]_vars => [two]_vars
  BY <1>1, TickAsks
<1> QED BY <1>2, AsksOKAlways, PTL DEF Spec, ResetAfterTwoStops

=============================================================================
