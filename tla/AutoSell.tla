------------------------------ MODULE AutoSell ------------------------------
(***************************************************************************)
(* The automatic sale: the controller travels to the NPC, opens a sale     *)
(* session in the bridge, walks its shop windows, clicks the fixed bag     *)
(* slot, closes the windows, verifies the bag and goes back to the spot.   *)
(* The bridge keeps its own half of the session (g_sell, here w.shop).  A  *)
(* request that timed out may have been carried out all the same.          *)
(***************************************************************************)
EXTENDS AccountLife

CONSTANTS ItemCap,    \* kInitialClickCount and the bridge's limit (90 in the code)
          OpenLimit,  \* failures while the shop opens (12)
          ItemLimit,  \* failures of the item click (6)
          CloseLimit, \* failures while the shop closes (4)
          Layers      \* windows closed at most (4)

ASSUME SellAssumption ==
  /\ {ItemCap, OpenLimit, ItemLimit, CloseLimit, Layers} \subseteq Nat \ {0}
  /\ OpenLimit > 2 /\ ItemLimit <= OpenLimit /\ CloseLimit <= OpenLimit

----------------------------------------------------------------------------
(* The bridge: what a request does to g_sell, and its answer *)

ClosedShop == [active |-> FALSE, stage |-> 0, callbacks |-> 0]
Done(shop, result) == [shop |-> shop, result |-> result]

\* The session is cleared before the NPC is clicked, and active after it.
BeginBackgroundSell(shop) ==
  {Done([ClosedShop EXCEPT !.active = TRUE], "ok"), Done(ClosedShop, "fail"),
   Done(shop, "fail")}

\* The windows that may be the next one, by the stage reached.
NextStages == <<{1, 2, 3}, {2, 3}, {3, 4}, {4}>>

\* Mutant: the window of the stage just reached counts as the next one.
AdvanceFromSameWindow(shop) ==
  IF ~shop.active THEN {Done(shop, "fail")}
  ELSE IF shop.stage >= 4 THEN {Done(shop, "ok")}
  ELSE {Done([shop EXCEPT !.stage = n], "ok") : n \in ({shop.stage} \cup NextStages[shop.stage + 1])}
       \cup {Done(shop, "fail")}

AdvanceBackgroundSell(shop) ==
  IF ~shop.active THEN {Done(shop, "fail")}
  ELSE IF shop.stage >= 4 THEN {Done(shop, "ok")}
  ELSE {Done([shop EXCEPT !.stage = n], "ok") : n \in NextStages[shop.stage + 1]}
       \cup {Done(shop, "fail")}

\* At the limit the click is left out and the answer is a success.
SellFixedBagSlot(shop) ==
  IF ~shop.active \/ shop.stage < 4 THEN {Done(shop, "fail")}
  ELSE IF shop.callbacks >= ItemCap THEN {Done(shop, "ok"), Done(shop, "fail")}
  ELSE {Done([shop EXCEPT !.callbacks = @ + 1], "ok"), Done(shop, "fail")}

CloseBackgroundSell(shop) ==
  IF ~shop.active THEN {Done(shop, "nothing")}
  ELSE {Done([shop EXCEPT !.active = FALSE], "nothing"), Done(shop, "ok"), Done(shop, "fail")}

\* A call that carries a result: answered with it, or lost on the way back.
SellCall(w, what, results) ==
  LET good == {r \in results : r.result # "fail"}
      ends(r) == {IF r.result = "fail" THEN "fail" ELSE "ok"}
                 \cup (Answers(w) \cap {"timeout"})
      from == IF "fail" \in Answers(w) THEN results \cup {Done(w.shop, "fail")} ELSE good
  IN UNION {{[Answered(w, what, e) EXCEPT !.shop = r.shop, !.closed = (r.result = "nothing")] :
               e \in ends(r)} : r \in from}

----------------------------------------------------------------------------
(* The controller *)

EffectiveClickCount(learned) == IF learned \in 1 .. ItemCap THEN learned ELSE ItemCap

\* Another failure; the last one allowed goes on at Next.
CountFailure(w, limit, Next(_)) ==
  LET v == [w EXCEPT !.sell.opens = @ + 1]
  IN IF v.sell.opens >= limit THEN Next(v) ELSE v

GiveUp(w) == [w EXCEPT !.sell.phase = 10]
Verify(w) == [w EXCEPT !.sell.phase = 7, !.sell.stable = FALSE]

\* Mutant: the checks of the training go on during the sale.
SaleKeepsMonitor(w) ==
  LET v == [ResetRobustTravel(w) EXCEPT
              !.sell = [NoSale EXCEPT !.phase = 4],
              !.train = [IdleTrain EXCEPT !.monitor = w.train.monitor],
              !.route.armed = FALSE, !.route.moved = FALSE, !.route.seen = FALSE]
  IN Call(v, "StopPath")

BeginAutoSell(w) ==
  LET v == [ResetRobustTravel(w) EXCEPT
              !.sell = [NoSale EXCEPT !.phase = 4],
              !.train = IdleTrain,
              !.route.armed = FALSE, !.route.moved = FALSE, !.route.seen = FALSE]
  IN Call(v, "StopPath")

\* Mutant: a click that failed counts.
CountEveryClick(w) ==
  LET counted(x) ==
        LET v == [x EXCEPT !.sell.opens = 0, !.sell.repeat = @ + 1]
        IN IF v.sell.repeat >= EffectiveClickCount(w.kept.learned)
           THEN [v EXCEPT !.sell.index = 5, !.sell.repeat = 0] ELSE v
  IN {counted(x) :
        x \in SellCall(w, "SellNextBagItem", SellFixedBagSlot(w.shop))}
     \cup (IF w.calm THEN {} ELSE {GiveUp(w)})

\* The item click: repeated until the count of the last sale is reached.
SellItem(w) ==
  LET counted(x) ==
        LET v == [x EXCEPT !.sell.opens = 0, !.sell.repeat = @ + 1]
        IN IF v.sell.repeat >= EffectiveClickCount(w.kept.learned)
           THEN [v EXCEPT !.sell.index = 5, !.sell.repeat = 0] ELSE v
  IN {IF x.ok THEN counted(x) ELSE CountFailure(x, ItemLimit, GiveUp) :
        x \in SellCall(w, "SellNextBagItem", SellFixedBagSlot(w.shop))}
     \cup (IF w.calm THEN {} ELSE {GiveUp(w)})

CloseShop(w) ==
  LET closed(x) == IF x.closed THEN Verify([x EXCEPT !.sell.opens = 0])
                   ELSE [x EXCEPT !.sell.opens = 0, !.sell.repeat = @ + 1]
  IN IF w.sell.repeat >= Layers THEN {Verify(w)}
     ELSE {IF x.ok THEN closed(x) ELSE CountFailure(x, CloseLimit, Verify) :
             x \in SellCall(w, "CloseBackgroundSell", CloseBackgroundSell(w.shop))}

\* The windows open one after the other (index 0 to 3); the cursor follows the
\* stage the bridge reports.
OpenShop(w) ==
  {IF x.ok THEN [x EXCEPT !.sell.opens = 0, !.sell.index = x.shop.stage]
   ELSE CountFailure(x, OpenLimit, GiveUp) :
     x \in SellCall(w, "AdvanceBackgroundSell", AdvanceBackgroundSell(w.shop))}

RunSellMacroClick(w) ==
  WhenDue(w, IF w.sell.index < 4 THEN OpenShop(w)
             ELSE IF w.sell.index = 4 THEN SellItem(w) ELSE CloseShop(w), {w})

\* The NPC is clicked, twice at most in a pass.
OpenSession(w) ==
  LET begun(x) == [x EXCEPT !.sell = [NoSale EXCEPT !.phase = 6, !.pass = w.sell.pass + 1,
                                        !.opens = w.sell.opens + 1, !.stable = w.sell.stable]]
  IN {IF x.ok THEN begun(x) ELSE CountFailure(x, 2, GiveUp) :
        x \in SellCall(w, "BeginBackgroundSell", BeginBackgroundSell(w.shop))}

\* The free bag space must be positive and stay the same for 1.5 s; a full bag
\* is sold from once more.
VerifyBag(w, s) ==
  LET back == [ResetRobustTravel(w) EXCEPT
                 !.kept.learned = s.bag, !.sell.phase = 8,
                 !.route.armed = FALSE, !.route.moved = FALSE, !.route.seen = FALSE]
      full == IF w.sell.pass < 2 THEN [w EXCEPT !.sell.phase = 5, !.sell.opens = 0]
              ELSE GiveUp(w)
  IN IF s.bag = None THEN {w}
     ELSE IF s.bag = 0 THEN WhenDue(w, {full}, {w})
     ELSE IF ~w.sell.stable THEN {[w EXCEPT !.sell.stable = TRUE]}
     ELSE WhenDue(w, {back}, {w})

\* The way to the NPC (phase 4) and back (8).
TravelOfSale(w, s) ==
  LET toNpc == w.sell.phase = 4
      atNpc(x)  == [x EXCEPT !.sell.phase = 5, !.done = TRUE]
      atSpot(x) == [x EXCEPT !.sell.phase = 0, !.train = [IdleTrain EXCEPT !.back = w.train.back]]
  IN {IF ~x.ok THEN [x EXCEPT !.done = TRUE] ELSE IF toNpc THEN atNpc(x) ELSE atSpot(x) :
        x \in HandleRobustTravel(w, s, IF toNpc THEN "npc" ELSE "spot")}

\* Only the arrival at the spot lets the tick go on.
HandleAutoSell(w, s) ==
  LET phase == w.sell.phase
      emptied == IF s.bag \in {None, 0} THEN w
                 ELSE [ResetRobustTravel(w) EXCEPT !.sell.phase = 8]
  IN CASE phase = 0  -> {w}
       [] phase \in {4, 8} -> TravelOfSale(w, s)
       [] phase = 5  -> Handle(WhenDue(w, OpenSession(w), {w}))
       [] phase = 6  -> Handle(RunSellMacroClick(w))
       [] phase = 7  -> Handle(VerifyBag(w, s))
       [] phase = 10 -> Handled(emptied)
       [] OTHER      -> Handled(w)

\* A sale runs, or the bag is full and one begins.  (The NPC's position and the
\* row of the bag slot are set.)
SellOrGoOn(w, s) ==
  UNION {HandleAutoSell(x, s) :
           x \in IF w.sell.phase = 0 /\ P(w).sell /\ s.bag = 0 THEN BeginAutoSell(w) ELSE {w}}
=============================================================================
