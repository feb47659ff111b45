------------------------------ MODULE Account ------------------------------
(***************************************************************************)
(* One account of the v0.6.1.6 controller: a tick reads a snapshot of the  *)
(* game client and runs, in the order of Tick and TickAccount, the         *)
(* priority clicks, the client freeze, the AutoPath and AutoFight          *)
(* invariant, death and revival, the rotation, the ownership of the route, *)
(* the sale, the return to the spot and the training.  The user starts and *)
(* stops the account.  (Accounts the trade coordinator holds: see          *)
(* TradeCoordinator.)                                                      *)
(*                                                                         *)
(* A scene gives the settings of the account (fight, revive, confirm,      *)
(* sell, rotate), what a call to the bridge may end with, the snapshots    *)
(* the game may show, in any order, and those from which on the game       *)
(* cooperates: it does what it is asked to and nothing else.               *)
(***************************************************************************)
EXTENDS Training

\* What a tick can read of the game.
Snapshots ==
  [ready : BOOLEAN, life : {"alive", "dead", "unknown"}, fight : {"on", "off", "unknown"},
   path : {"on", "off", "unknown"}, riding : BOOLEAN,
   place : {"spot", "field", "npc", "gate", "underworld"}, bag : {None} \cup Nat]

ASSUME SceneAssumption ==
  \A k \in DOMAIN Scenes :
    /\ Scenes[k].answers \subseteq {"ok", "fail", "timeout"}
    /\ Scenes[k].snaps \cup Scenes[k].calm \subseteq Snapshots

VARIABLES
  scene,                        \* which of Scenes
  client,                       \* "off", "ok", or frozen: "frozen", then "settling"
  box, guard, mount, route,     \* RuntimeState, see AccountRuntime
  train, sell, revive,
  kept,                         \* outside RuntimeState: latched, deaths, learned
  shop,                         \* g_sell of the bridge
  sent,                         \* the calls of the last step
  game,                         \* the cooperating game, or None
  asked                         \* history of the AUTO clicks: see Remember

runtime == <<client, box, guard, mount, route, train, sell, revive, kept, shop>>
vars    == <<scene, runtime, sent, game, asked>>

calm == game # None

Record(late) ==
  [scene |-> scene, client |-> client, box |-> box, guard |-> guard, mount |-> mount,
   route |-> route, train |-> train, sell |-> sell, revive |-> revive, kept |-> kept,
   shop |-> shop, sent |-> <<>>, calm |-> calm, late |-> late,
   ok |-> FALSE, done |-> FALSE, closed |-> FALSE]

Becomes(w) ==
  /\ client' = w.client /\ box' = w.box /\ guard' = w.guard /\ mount' = w.mount
  /\ route' = w.route /\ train' = w.train /\ sell' = w.sell /\ revive' = w.revive
  /\ kept' = w.kept /\ shop' = w.shop /\ sent' = w.sent /\ UNCHANGED scene

Sent(what) == \E i \in 1 .. Len(sent) : sent[i].do = what
Accepted(what) == \E i \in 1 .. Len(sent) : sent[i] = [do |-> what, answer |-> "ok"]

NotAsked == [auto |-> FALSE, stops |-> 0]

\* The STOP clicks (two are enough) since the guard last rested, and since AUTO and
\* ATTACK were last clicked as a reset.
StopsMade == IF guard.phase = 0 /\ guard.stops = 0 THEN 0 ELSE asked.stops

\* History: the request in the mailbox had its AUTO click; the STOP clicks.
Remember ==
  asked' = [auto  |-> /\ box'.req # None /\ box'.req = box.req
                      /\ asked.auto \/ Accepted("ClickAuto")',
            stops |-> IF client' = "off" THEN 0
                      ELSE IF Accepted("ClickAttack")' /\ box.req = "TravelGuardReset" THEN 0
                      ELSE IF Accepted("ClickStop")' /\ StopsMade < 2 THEN StopsMade + 1
                      ELSE StopsMade]

\* The game does what it accepted; a path ends at its destination.
Play(g, did(_), dest) ==
  [g EXCEPT !.fight  = IF did("ClickStop") THEN "off" ELSE IF did("ClickAttack") THEN "on" ELSE @,
            !.riding = IF did("Mount") THEN TRUE ELSE IF did("Dismount") THEN FALSE ELSE @,
            !.path   = IF did("StartPath") THEN "on" ELSE "off",
            !.place  = IF Pathing(g) /\ ~did("StopPath") THEN dest ELSE @,
            !.bag    = IF did("SellNextBagItem") THEN ItemCap ELSE @]

Destination == IF sell.phase = 4 THEN "npc" ELSE "spot"

Environment == game' = IF calm THEN Play(game, LAMBDA c : Accepted(c)', Destination) ELSE None

Init ==
  /\ scene \in DOMAIN Scenes
  /\ client = "off" /\ box = ClearBox /\ guard = IdleGuard /\ mount = IdleMount
  /\ route = FreeRoute /\ train = IdleTrain /\ sell = NoSale /\ revive = 0
  /\ kept = [latched |-> FALSE, deaths |-> 0, learned |-> 0]
  /\ shop = ClosedShop /\ sent = <<>> /\ game = None /\ asked = NotAsked

----------------------------------------------------------------------------
(* The tick *)

\* The life of the account, and whose route its character is on.
LifeAndRoute(w, s) ==
  Then(Then(Then(HandleDeath(w, s), LAMBDA x : UpdateRotationEfficiency(x, s)),
            LAMBDA x : HandleRouteOwnershipReset(x, s)),
       LAMBDA x : HandleUnderworldAutoFightGuard(x, s))

\* What it does with its life.  A new map must be seen in two ticks.
Work(w, s) ==
  Then(Then(Then(Then(WhenDue(w, {w}, Handled(w)), LAMBDA x : SellOrGoOn(x, s)),
                 LAMBDA x : HandleTrainRecovery(x, s)),
            LAMBDA x : Monitor(x, s)),
       LAMBDA x : TrainOrRoute(x, s))

TickAccount(w, s) ==
  IF ~s.ready \/ s.path = "unknown" THEN {w}
  ELSE Then(LifeAndRoute(w, s), LAMBDA x : Work(x, s))

\* pause: no; the F4 key; a recording of this client.
Safe(w, s, pause) ==
  Then(Then(Then(ObserveMovement(w, s),
                 LAMBDA x : IF pause = "no" THEN Priorities(x, s) ELSE {x}),
            LAMBDA x : IF pause = "recording" THEN {x} ELSE HoldUntilClientStable(x, s)),
       LAMBDA x : IF pause = "no" THEN HandleAutoPathFightInvariant(x, s) ELSE {x})

TickOf(w, s, pause) ==
  Then(Safe(w, s, pause), LAMBDA x : IF pause = "no" THEN TickAccount(x, s) ELSE {x})

\* late: every timer has run out.  What a late tick does, any tick may do.
TickWith(late, pause) ==
  /\ \E s \in IF calm THEN {game} ELSE Scenes[scene].snaps :
       \E w \in TickOf(Record(late), s, pause) : Becomes(w)
  /\ Remember /\ Environment

Tick ==
  /\ client # "off"
  /\ \E pause \in {"no", "F4", "recording"} : TickWith(FALSE, pause)

ReadFails ==
  /\ client # "off" /\ ~calm /\ "timeout" \in Scenes[scene].answers
  /\ Becomes(MarkReadStateFailure(Record(FALSE)))
  /\ Remember /\ UNCHANGED game

----------------------------------------------------------------------------
(* The user *)

StartChecked ==
  /\ ~calm
  /\ Becomes([ResetRuntime(Record(FALSE)) EXCEPT !.route.pending = TRUE,
                                                 !.kept.latched = FALSE, !.kept.deaths = 0])
  /\ Remember /\ UNCHANGED game

\* A client that is frozen is not sent anything.
StopAccount ==
  /\ client # "off" /\ ~calm
  /\ LET reset == [ResetRuntime(Record(FALSE)) EXCEPT !.kept.latched = FALSE, !.kept.deaths = 0]
         quiet == IF client = "ok" THEN Call(reset, "StopPath") ELSE {reset}
     IN \E w \in quiet : Becomes([w EXCEPT !.client = "off"])
  /\ Remember /\ UNCHANGED game

\* From now on the game cooperates and the user rests.
CalmDown ==
  /\ client # "off" /\ ~calm
  /\ game' \in Scenes[scene].calm
  /\ sent' = <<>>
  /\ UNCHANGED <<scene, runtime, asked>>

Next ==
  \/ Tick \/ ReadFails \/ StartChecked \/ StopAccount \/ CalmDown

Spec == Init /\ [][Next]_vars

\* Once the game cooperates, ticks go on and the timers run out.
FairSpec == Spec /\ WF_vars(calm /\ client # "off" /\ TickWith(TRUE, "no"))

----------------------------------------------------------------------------
(* Properties *)

Mailbox == [req : Owners \cup {None}, point : 0 .. 1, res : Owners \cup {None}, ok : BOOLEAN]
Calls == {"ConfirmMap", "Revive", "ClickStop", "ClickAuto", "ClickAttack",
          "StartPath", "StopPath", "Mount", "Dismount", "BeginBackgroundSell",
          "AdvanceBackgroundSell", "SellNextBagItem", "CloseBackgroundSell"}

\* Types; with them, the limits of the counters: two STOP clicks before a reset,
\* two tries to mount, three StopPaths of a cold start, two tries to fight, two
\* passes of a sale.
TypeOK ==
  /\ scene \in DOMAIN Scenes
  /\ client \in {"off", "ok", "frozen", "settling"}
  /\ box \in Mailbox
  /\ guard \in [phase : 0 .. 5, stops : 0 .. 2, conflict : {"no", "new", "stopping"}]
  /\ mount \in [tries : 0 .. 2, cycle : 0 .. 1, boost : {0, 1, 4, 5}, foot : BOOLEAN]
  /\ route \in [pending : BOOLEAN, stops : 0 .. OwnershipStops, armed : BOOLEAN,
                moved : BOOLEAN, seen : BOOLEAN,
                map : {"train", "npc", "gate", "underworld", None}]
  /\ train \in [phase : {0, 2, 3}, tries : 0 .. 2, at : BOOLEAN, monitor : BOOLEAN,
                back : BOOLEAN]
  /\ sell \in [phase : {0} \cup 4 .. 8 \cup {10}, opens : 0 .. OpenLimit, index : 0 .. 5,
               repeat : 0 .. (ItemCap + Layers), pass : 0 .. 2, stable : BOOLEAN]
  /\ revive \in 0 .. 2
  /\ kept \in [latched : BOOLEAN, deaths : 0 .. DeathLimit, learned : Nat]
  /\ shop \in [active : BOOLEAN, stage : 0 .. 4, callbacks : 0 .. ItemCap]
  /\ \A i \in 1 .. Len(sent) : /\ sent[i].do \in Calls
                               /\ sent[i].answer \in {"ok", "fail", "timeout"}
  /\ asked \in [auto : BOOLEAN, stops : 0 .. 2]

\* A call that timed out is the last one of its tick, whichever handler made it
\* and whoever would be next; and a frozen client is sent nothing.
NothingAfterTimeout ==
  [][/\ \A i \in 1 .. Len(sent') : sent'[i].answer = "timeout" => i = Len(sent')
     /\ client = "frozen" => sent' = <<>>]_vars

\* While AutoPath and AutoFight were seen on together and not yet seen off
\* together, and in the tick that sees them off, the account is not moved and
\* its sale does not go on: the path is stopped, AutoFight is turned off.
ConflictHolds ==
  [][guard.conflict # "no" =>
       \A i \in 1 .. Len(sent') :
         sent'[i].do \in {"StopPath", "ClickStop", "ClickAuto", "ClickAttack",
                        "ConfirmMap", "Revive"}]_vars

\* After a start or a revival the account neither moves nor sells, and no gate
\* is confirmed, before AutoPath was seen off: the route may be an old one.
OwnershipFirst ==
  [][route.pending =>
       \A i \in 1 .. Len(sent') :
         sent'[i].do \in {"StopPath", "ClickStop", "ClickAuto", "ClickAttack", "Revive"}]_vars

\* A death counts once for the rotation, though the priority pass and the life
\* handler both watch for it, and whatever is read while it lasts.
DeathCountedOnce ==
  [][kept'.deaths <= kept.deaths + (IF ~kept.latched /\ kept'.latched THEN 1 ELSE 0)]_vars

\* "Never carry ANY runtime state from the previous life" (HandleDeath): during
\* a death session nothing of the old life is left or begun.
NoCarryOver ==
  kept.latched => /\ sell = NoSale /\ mount = IdleMount /\ ~route.armed
                  /\ ~train.back /\ ~train.monitor /\ train.tries = 0
                  /\ {box.req, box.res} \cap {"Train", "MountRecovery"} = {}

\* A request and a result are never in the mailbox together, and only an ATTACK
\* request has had its first click.
OneClickInFlight ==
  /\ box.req = None \/ box.res = None
  /\ box.point = 1 => box.req \in Owners \ {"TravelGuardStop"}

\* ATTACK is only clicked after an accepted AUTO click of the same request,
\* whatever requests were queued, cancelled or thrown away in between.
AttackFollowsMenu == [][Sent("ClickAttack")' => asked.auto]_vars

\* The guard turns AutoFight on for a reset only after two accepted STOP clicks
\* which it waited for since it last rested, not after those of an earlier episode.
ResetAfterTwoStops ==
  [][box'.req = "TravelGuardReset" /\ box.req # "TravelGuardReset" => asked'.stops = 2]_vars

\* The minute and position checks only run without a sale and a return; a travel
\* phase only exists while one of those owns the account, so that no leftover phase
\* keeps it busy for ever.  (What is left in the mailbox: see ClicksAstray.)
TravelHasOwner ==
  /\ train.monitor => sell.phase = 0 /\ ~train.back
  /\ mount # IdleMount => train.back \/ sell.phase \in {4, 8}

\* The controller's cursor and the bridge's session agree, though a request that
\* timed out may have been carried out: the shop is never ahead of the windows,
\* and an item click counted by the controller was made by the bridge, or left
\* out at its limit.
ShopMatchesCursor ==
  /\ sell.phase = 6 /\ sell.index <= 4 => shop.active /\ sell.index <= shop.stage
  /\ sell.phase = 6 /\ sell.index = 4 =>
       sell.repeat <= shop.callbacks \/ shop.callbacks = ItemCap

\* A workflow and its clicks have lost each other: a mount recovery was given up
\* (the account arrived) before its clicks were made or their result was taken,
\* or waits for a result that another workflow's request threw away; the travel
\* guard saw AutoFight off before it took the result of its STOP.  Queue and
\* HandleMountFightBoost have no way out of it.
ClicksAstray ==
  \/ (mount.boost = 1) # ("MountRecovery" \in {box.req, box.res})
  \/ box.res = "TravelGuardStop" /\ guard.phase # 1

\* Once the game cooperates, whether the account fights, rides or is on its path,
\* a sale ends, at the spot or left to the user, unless clicks stay astray.
SaleEnds == (calm /\ sell.phase # 0) ~> (sell.phase \in {0, 10} \/ []ClicksAstray)

\* "A busy state does not advance the timer; the check is deferred until the
\* account becomes idle" (TickAccount): an account at its spot, on foot and with
\* nothing else to do, comes to fight.
TrainStarts == calm ~> (calm /\ Fighting(game))
=============================================================================
