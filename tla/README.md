# Verification of the trade automation tools

This directory models, model-checks and proves parts of the two generations of
the Thần Long trade automation in this repository:

* **v0.1.1, `src/src/`** ("AutoTradeTest"): a window that scans the players near
  one character and sends one trade request per click;
* **v0.6.1.6, `src/source-v0.6.1.6/src/`** ("Item Consolidator", BĐPT): a
  controller that drives many game clients at once - training, dying and
  reviving, selling, and handing the items of full characters (CON) to one
  collecting character (MAIN).

Both consist of a controller process and a bridge DLL that a `WH_GETMESSAGE`
hook brings into each game client. They talk through a block of shared memory
(`protocol.h`): the controller writes a request, publishes a number, posts a
wake message and polls; the hook runs the command on the game's message thread,
writes the response and publishes the number as completed.

Paths below are relative to `src/source-v0.6.1.6/src/` unless they begin with
`src/`.

## 1. Inventory

| Component | State | Operations | Interacts by | Hard behaviour |
|---|---|---|---|---|
| Bridge mailbox (`controller.cpp:845`, `bridge.cpp:1626`) | `SharedBlock`, `pendingSeq_`, `attached_` | Attach, Close, Call, ProcessRequest | shared memory, posted messages | timeouts, late completion, nested callbacks, new sessions |
| Trade test window (`src/src/controller.cpp`) | players, selected player, poll timer, mailbox | the buttons, the poll timer | Call, WM_TIMER | overlapping requests, torn copies, another player selected, late timer |
| IL2CPP layer (`src/src/bridge_*.inl`, `bridge.cpp`) | export table, cached classes | probe, scan, select, send, read, click | calls into the game runtime | partial failure, stale target, number widths |
| Trade coordinator (`controller.cpp:3108-3905`) | queue, holds, tickets, `tradeTxn_`, roles | TickTradeCoordinator, Start/Stop, role and mode buttons | timer tick, snapshots | FIFO, death while queued, stale holds, stalls |
| Trade sequence (`controller.cpp:3479`) | step, repeats, pass, bag before and after | one click per due tick, bag verification | Call, snapshots, the lists of the editor | nested repeats, failing clicks, edits during a pass, unstable bag value |
| Travel guard (`controller.cpp:4457-4620`, `travel_fight_guard_logic.h`) | guard phase, conflict latch, AUTO request slot | AutoFight off before travel, latch recovery | Call, priority pass | queued AUTO request, two snapshots that disagree |
| Selling (`controller.cpp:5676-5957`, `bridge.cpp:1484`) | sell phase, macro row, `g_sell` | begin, advance, sell slot, close | Call | one session on both sides, partial failure |
| Life, revive, map confirm, freeze (`controller.cpp:4753-5422`) | death latch, revive phase, freeze timers | HandleDeath, P1/P2 priorities, HoldUntilClientStable | snapshots, Call | two boundary resets, a silent client |
| Route, mount, train recovery (`controller.cpp:4839-4935`, `5528-5660`, `route_logic.h`) | robust travel phases, stall watchdog | HandleRobustTravel, ObserveMovement | snapshots, Call | stalls, remount attempts |
| Rotation (`controller.cpp:4936-5045`, `rotation_logic.h`) | death ticks, metric clock, spot index | record death, next spot | HandleDeath, TickAccount | wrapping ticks, window boundary |
| Recorder and sequence editors (`controller.cpp:1807-2185`, `2585-3088`) | recorded clicks, rows, groups | record, edit, group, copy | window messages, the two trade lists | groups and references that must survive every edit |
| Profiles and INI (`controller.cpp:2185-2585`, `3967`) | profile per role id | load, save, migrate | files | (text) |
| Image region click test (`src/tools/`) | regions, a bot loop | capture, match, click | screen | (separate tool) |

What makes the modelled parts correct:

* *Mailbox*: one request in flight; a command runs at most once; a caller gets
  the answer of its own command; a timed-out request is not overwritten and is
  eventually completed.
* *Trade test*: a packet only to the player who was chosen, and while he is selected; one packet per
  click; the Trade UI poll ends.
* *Coordinator*: the queue is bounded, without duplicates and in ticket order;
  the oldest ticket trades first; the pair does not change once clicks begin;
  exactly the accounts of the flow are held; nothing stays held for ever.
* *Account*: AutoFight is off before the account moves, and the stops and resets
  that achieve it are the ones counted; AutoPath and AutoFight seen on together
  stop everything else; one click is in the mailbox at a time; nothing of a life
  survives a death; a client that did not answer is left alone; the sale's two
  halves agree and the sale ends unless its clicks go astray.
* *Trade sequence*: a pass makes exactly the clicks the user wrote; groups stay
  contiguous and references on their row whatever is edited; a CON is repeated a
  bounded number of times; a sequence ends.

## 2. Modules

| Module | What it is |
|---|---|
| `BridgeMailbox` | `BridgeClient` and `ProcessRequest` of v0.6.1.6 |
| `CallOnce` | abstract specification: what `BridgeClient` promises a workflow |
| `BridgeMailboxProofs` | theorems about `BridgeMailbox` |
| `MCBridgeMailbox` | instances, and the statement about new sessions |
| `TradeTest` | the v0.1.1 window, its `BridgeClient`, its hook and commands |
| `TradeTestProofs` | theorems about `TradeTest`: types, the poll; invariants of its copies |
| `TradeAnswerProofs` | theorems about its answers, the target of a packet, its packets per click |
| `MCTradeTest` | instances, and the statement "one packet per click" |
| `TradeCoordinator` | the item consolidation queue of v0.6.1.6 |
| `TradeCoordinatorProofs` | theorem about `TradeCoordinator`: who is served |
| `TradeQueueProofs` | theorems about its queue, holds, tickets and pair |
| `MCTradeCoordinator` | instances, and two statements of the documents |
| `TradeScript` | the two lists of trade clicks, their editor and recorder |
| `TradeSequence` | extends `TradeScript`: the execution of a script and the bag verification |
| `TradeSequenceProofs` | theorems about `TradeSequence`: its repeats, its lists and their references |
| `AccountRuntime` | what the handlers of one account share: `RuntimeState`, results, order, time, the client freeze |
| `AutoFightGuard` | the priority click mailbox, the travel guard, the AutoPath/AutoFight invariant, `SendDecision` |
| `RobustTravel` | mount, fight, mount, walk: `HandleRobustTravel` |
| `AccountLife` | movement, gate confirmation, death and revival, rotation, route ownership |
| `AutoSell` | the sale: the controller's phases and the bridge's session |
| `Training` | AutoFight at the spot, its checks, and the way back |
| `Account` | the composition: the tick of one account, the user, the game; all properties |
| `AccountProofs` | theorems about `Account`: its clicks and its lives |
| `AccountTickProofs` | theorems about `Account`: types, travel, sale, what a step may send, the order of its clicks |
| `MCAccount` | the scenes |
| `MCTradeSequence` | the scripts that are loaded, and the reference a pass is compared with |

### BridgeMailbox

Two processes and their shared block. On the controller side `cpc` is the place
in `Call`: `prepared` (request written), `published` (`requestSeq` set),
`waiting` (wake posted, polling). A `Call` that returns without a change of
state (not attached, busy) is no action. On the game side `frame[1 .. depth]` is
the stack of running hook callbacks: while one executes its command the game
may pump messages, so another one can be entered on top of it, and the lower one
waits. Each access that the other side can see is an action of its own:
`Enter` (numbers read and compared), `ClaimBusy`/`BusyReturn` (the
compare-and-exchange), `Execute` (the command is read *now*), `Respond`,
`Complete`, `Release`. `wakes` counts queued wake messages, up to `MaxWakes`.

A request is its Call number. `runs`, `answers` and `calls` are history. So is
`clean`: it becomes TRUE when a session attaches while no callback is running,
and FALSE when one is, or when a wake cannot be posted after the number was
published. The safety properties are about clean sessions because the code does
not keep them otherwise: `bridge_reattach` shows how. `CleanSpec` is the
specification restricted to clean behaviours; it implements `CallOnce` with the
mapping at the end of the module (a request that is written but not published is
not yet issued).

A command's arguments are read together with it: in a clean session nothing can
change them in between (that is what `NeverOverwrite` says).

### TradeTest

The same exchange without `pendingSeq_`, together with everything that calls it.
`handler` is the App method that is running; the App's thread is blocked while
it polls, so no second handler starts. A request has two fields, and neither side
holds a lock. `Call` takes a number, zeroes the request and stores command and
role id with plain stores (`WriteCommand`, `WriteRole`, in either order; the first
may find the other field old or zeroed already). The hook copies the request with
plain loads (`CopyCommand`, `CopyRole`, in either order), so its copy may hold the
command of one Call and the role id of another. `RunFails` stands for every
refusal before a command has an effect.

`selected` is the player the game has selected. `DirectSelectTarget` asks for one
and reads back which one it is: the game may select the requested player
(`RunSelectTarget`, `SelectForTrade`), or any other, or none, and the command is
refused then (`SelectFails`). A trade reads its constants between the selection
and the packet (`ConstantsFail`, `SendTradePacket`), and a nested callback may
run there (`Enter` at `running` and `selected`). The packet carries the request's role id,
not the selected player's, and its sending may still be reported as failed.
`timerQueued` is a WM_TIMER in the queue, which `KillTimer` does not remove.

`Attach` zeroes the block before it loads the bridge, hooks the game and wakes it, so a
failure of these leaves a zeroed block (`HookFails`); only when the block cannot be
mapped, or no client is chosen, is nothing touched (`AttachFails`).

History: `clickRole` (the player of each click), `sent` (packets per click),
`fresh` (no callback was running when the session attached), `overlapped` (some
Call was written over an unfinished one), `raced` of a callback (a Call was half-way
through its stores at the first load of the copy, or stored before the second; `written`
notes it meanwhile).

Clients are one client: choosing another one in the combo box closes the session
and attaches again, as `ScanClients` followed by a Call does.

### TradeCoordinator

One timer tick is one action, `Tick`, because the controller is single-threaded
and every tick runs to its end: it reads snapshots (`SeenViews`), runs the life
observer (`HandleDeath`, for the accounts the tick gets that far with: `served`)
and then `TickTradeCoordinator`, in the order of the code: barriers,
`PurgeQueue`, `AdmitFullChildren`, `TravelAll`, `RelockRendezvous`,
`AdvancePhase`. Each part is an operator on a record `w` of the flow's state.
The user's buttons are actions between ticks.

A snapshot is abstracted to a *view*: `dead`, `unfit` (state not readable; for
MAIN also a bag at the selling threshold), `loading`, `far`, `unsettled` (at the
rendezvous but riding, on a path, fighting, in conflict recovery or within the
450 ms dwell), `parked`. Not in the model, and why:

* cooldown, dwell and the other timers are a choice to wait;
* F4, the recorder's local pause and frozen clients are ticks that do not
  happen, or accounts that are not `served`;
* the rendezvous point is set (once valid it never becomes invalid,
  `CaptureTradeRendezvous`);
* a queued child is never asked again whether its bag is full, as in the code;
* the trade clicks are the outcomes of `SequenceOutcomes`: wait, abort, finish
  (`TradeSequence` has them);
* stopping or starting the automation of a client that has closed.

`auto` is `running` together with `IsWindow`. `deadSeen` is the `dead` of the
last snapshot of an account that is not read any more.

History: `calm` (from here on the game cooperates and the user rests), `user`
(interventions so far), `reassigned` (a role was changed).

### TradeScript and TradeSequence

`con` is `childTradeSequence_`, `mainRows` is `mainTradeSequence_`, `clip` the
editor's clipboard. Rows are numbered from 1 and a broken reference is 0 (the
code: from 0, and -1). Of a coordinate only "captured or not" is kept; delays and
descriptions are left out. One action per editor command, and one per recorded
click; a longer recording is several. Each command that changes the list of CON ends with
`NormalizeTradeGroups`, which `SaveSharedChildTradeSequence` calls once more
without effect. `NormalizeTradeGroups` is written as what its loop computes: the
number of a row's group is the number of groups that have begun, its count that
of the row where the group begins.

In `TradeSequence`, `running` is phase `Sequence`; `index`, `repeatDone`,
`groupDone`, `pass`, `before` and the variables of the verification are those of
`tradeTxn_`. One tick of `ExecuteTradeSequenceTick` is one action: `Click`,
`ClickFails`, `ClickImpossible`, or at the end of a pass `BeginVerify`,
`BagChanged`, `KeepWatching`, `RepeatSameChild`, `FinishChild`, in the order of
the early returns. `MainFull` is the barrier in front of it, `PausedTick` a tick
that AutoPath, a conflict or a bag that cannot be read keeps from clicking,
`PairLost` everything that aborts between two clicks. The transfer guard
(`controller.cpp:3545`) is never reached because the barrier is stricter. A tick
before the delay of the last click is over changes nothing and is a stutter; ages are
counted in ticks. `BagChanges` is the game.

History: `id` and `of` (which MAIN row a reference was made for), `stale` (a
reference was pasted that had been copied before MAIN rows moved), `start` (the
free space when the sequence began), `made` and `disturbed` (clicks of this pass,
and whether script or bag changed meanwhile), `steady` (from here on the user and
the bag rest and clicks succeed).

### Account and its parts

One thread runs the handlers of an account one after the other, each on what the
earlier ones left, so a tick is one action and a handler is an operator: from the
record `w` of the account's fields and the snapshot `s` to the set of records it may
leave. `w.done` is the `return true` that owns the tick, `w.ok` the result of a call or
a question, `w.late` says that in this tick every timer has run out (in others any
may have), `w.calm` that calls succeed. `Then` is the chain of early returns in
`TickAccount`. The modules extend each other in the order in which handlers call
each other; `Account` turns the fields into variables:

| Variable | Fields of the code |
|---|---|
| `client` | `running`, `clientFreezeActive`, `clientStableSinceTick` |
| `box` | `priorityAutoRequest...`, `priorityAutoPointPhase`, `priorityAutoCompleted...` |
| `guard` | `travelFightGuardPhase`, `travelFightStopAttempts`, `autoPathFightConflict...` |
| `mount` | `travelMountAttempts`, `travelMountCycle`, `travelFightBoostPhase`, `travelFootFallback` |
| `route` | `routeOwnership...`, `crossMapRouteArmed`, `crossMapRouteMoved`, `crossMapSeenAutoPath`, `lastObservedMap` |
| `train` | `fightPhase`, `fightAttempts`, `wasAtTarget`, `trainPositionMonitorArmed`, `trainRecoveryPhase` |
| `sell` | `sellPhase`, `sellOpenAttempts`, `sellMacro...`, `sellBagStableSince` |
| `revive` | `revivePhase` (5, 6 are 1, 2) |
| `kept` | `deathSessionLatched`, `rotationDeathTicks`, `sellStep5LearnedRepeat` (they survive `ResetRuntime`) |
| `shop` | the bridge's `g_sell` |

A *scene* is a record of the account's settings, what a call may end with, and the
snapshots the game may show, in any order; in *calm* snapshots the game does what
it is asked to. Abstractions, and why they are sound:

* a cooldown (`lastAction`) may refuse a command at any time; in a late tick none does;
* a map must be seen in two ticks before the account acts on it: a choice to own
  the tick;
* the window of the death counter drops any number of old deaths; the training
  time of a spot may be over in any tick that counts it; all spots are one map;
* the free bag space is none, zero, or positive: a positive value that changes
  restarts the wait of 1.5 s, which is the choice to wait longer;
* a request of the sale that timed out may or may not have been carried out
  (`BridgeMailbox` is the reason);
* the NPC's position, the row of the bag slot and the spot are set;
* accounts held by the trade flow are in `TradeCoordinator`; of a call only answered,
  failed or timed out matters (`CallOnce`).

History: `sent` (the calls of the last step, in order), `asked` (whether the request
in the mailbox had its AUTO click; the accepted STOP clicks since the travel guard last
rested, so that those of an earlier episode do not vouch for a later reset).

## 3. Runs

All bounds are CONSTANTS and appear only in guards of the actions they limit.
The configurations of the mailbox, the trade test, the coordinator and the sequence say
`CHECK_DEADLOCK FALSE`: when the bounded calls, clicks,
sessions or interventions are used up, the controller rests.

| Run | Specification | Shows |
|---|---|---|
| `mailbox` | `Spec` | types, the inductive invariant, `NeverOverwrite`, `AnswerIsOwn`, `RunsOnce` |
| `mailbox_clean` | `FairCleanSpec` | `ImplementsPromise` (refinement of `CallOnce`), `TimedOutCompletes` |
| `bridge_reattach` | `ReliablePostSpec` | **violated**: `TimedOutNotOverwritten` |
| `trade_test` | `FairSpec` | types, `AnswerIsOwn`, `NeverWrongTarget`, `PollMeansSent`, `OneTradePerCalmClick`, `PollWithinLimit`, `PollEnds` |
| `trade_twice` | `ReliablePostSpec` | **violated**: `OneTradePerClick` |
| `trade_coordinator` | `FairSpec` | queue, holds, pair and tickets stay consistent; `Served`: once the game cooperates every queued child is served or leaves |
| `account` | `FairSpec` | the eleven safety properties of `Account`, and `SaleEnds` |
| `train_starts` | `FairSpec` | **violated**: `TrainStarts` |
| `trade_sequence` | `FairSpec` | `PassFollowsScript`, `GroupsWellFormed`, `RefsFollowMain`, `PassesBounded`, `Finishes` |
| `sequence_unstable` | `FairSpec` | **violated**: `VerifyEnds` |
| `trade_stall` | `StallSpec` | **violated**: `StoppedChildLeaves` |
| `trade_overtaken` | `Spec` | **violated**: `NotOvertaken` |

**Bounds.** The mailbox runs have calls enough for a timed-out request, its
refused successor and one more (the interplay concerns two neighbouring
requests), a second session, a nested callback and a lost wake. The trade test
has two players, a second session and three buttons that make a Call: a scan, a request that times out, and a
trade written over it. One trade click is enough because the numbers and the
poll start over with each; the poll limit is 2 instead of 40 (only "reached or
not" matters). `NeverWrongTarget` needs both of its conditions: without the one on raced copies
the run is violated by the role id of a later selection in the copy of a trade; without `fresh` it
takes a fourth button (a callback of the old session waits between read-back and packet while
one of the new session selects another player). The coordinator has one MAIN and two CONs: FIFO, overtaking and relock
need two children, and a third one only repeats the pairwise relation. Three tickets let a
child be admitted again behind one that waits. `MaxUser = 1` allows one
intervention or closed client at any moment, followed by everything the game can
do; `MaxQueued = 2` and `Slots = 2` fit the number of CONs.

The account runs five scenes, each the account at one kind of work with every
snapshot that work can meet: training with AutoPath and AutoFight in all
combinations; a route with a gate, where calls time out, maps load and getters fail;
deaths with unreadable life states; a sale whose requests time out and are carried
out all the same, followed by a cooperating game; a sale of an account that fights,
drifts and dies, followed by a game that cooperates while it still fights, with or without
AutoPath. (Random simulation of a scene that mixes them all found nothing the
five do not show.) The limits are the code's where it has small ones (two STOP clicks,
two tries, three StopPaths, two passes); `ItemCap = 2` for 90, `OpenLimit = 3` for 12,
`ItemLimit = 2` for 6, `CloseLimit = 1` and `Layers = 1` for 4 keep "below", "at" and
"one failure forgiven" apart. `DeathLimit = 2` lets a window fill, be pruned and overflow.

The trade sequence loads every script of two and three rows (a reference, a
transfer, a click) in every grouping, with row and group counts 1 and 2: the
smallest that has a group in front of, behind and around another row, and rounds
and repeats that nest. `MaxRows = 3` is reached, so the limit is met. The
clipboard holds the rows of the list at the start, so that one command
(`MaxEdits = 1`), which may come between any two ticks, may also be a paste.
`MaxFree = 2` with both thresholds 0 gives passes that are repeated and passes
that are not; of the times only their order (stable before the limit) matters.

**Fairness.** The mailbox: the game thread keeps dispatching messages and
finishes a command (otherwise the game hangs and no promise is possible), `Call`
always ends (answer or deadline), and a workflow whose request timed out keeps
calling - each tick reads a snapshot, so the nudge is repeated. The trade test:
the timer elapses, the window dispatches its message, a Call ends; nothing is
assumed of the game. The coordinator: the tick timer keeps firing
(`WF_vars(calm /\ Tick)`), and so it does for the account
(`WF_vars(calm /\ client # "off" /\ TickWith(TRUE, "no"))`: ticks go on and timers run out). The trade
sequence: ticks keep coming and a pause ends (`WF_vars(SequenceTick)`); `steady` is a
hypothesis of `Finishes`. `calm` is a hypothesis of `Served`, not fairness: it
can be set in every reachable state in which no stopped or closed account is
staged as dead, and asks that characters live, arrive and click successfully.
Without it a child may die or fail for ever.

**Findings.** Six runs are violated on purpose; each states what a document or a
comment of the repository says.

1. `bridge_reattach`: `Attach` zeroes the block and `Close` forgets
   `pendingSeq_` (`controller.cpp:862`, `913`). After a timeout, a new scan and a
   new Call write a request under the old callback, whose late answer can
   complete the new request.
2. `trade_twice`: v0.1.1's `Call` has no in-flight guard
   (`src/src/controller_support.inl:191`). A callback that ends late sets
   `completedSeq` back behind a newer number, a queued wake runs the request once
   more, and one click sends two packets.
3. `trade_stall`: a queued child that closes, or is stopped, while its last
   snapshot shows it dead makes the life barrier (`controller.cpp:3631`) return in
   every tick; the purge that would remove it is never reached.
4. `trade_overtaken`: pressing start on a queued account clears its "immutable"
   ticket (`controller.cpp:4684`), and a later child trades first.

5. `sequence_unstable`: the wait for a stable bag is called bounded
   (`controller.cpp:55`), but a value that differs from the last one returns
   (`controller.cpp:3503`) before the limit is tested; a bag that changes at every
   tick keeps the verification open for ever.

6. `train_starts`: the path to another map sets `crossMapRouteArmed`
   (`controller.cpp:4891`), and nothing clears it on arrival. The flag keeps the account busy
   (`5436`), so both requests to turn AutoFight on are cancelled as stale and the
   account stands idle; "the check is deferred until the account becomes idle"
   (`6025`), which it does not. With the flag cleared on arrival the property holds.

Observations without a run, in the account: priority clicks go astray in three ways, each found
by TLC as a sale that never ends, and each an exception in `SaleEnds` (`ClicksAstray`;
without any one of them the property is violated). (1) A mount recovery is given up, because the
account arrived, while its click is queued: its result is never taken, and
`QueuePriorityAutoClick` accepts nothing from an owner whose old result waits (`4295`). (2) The
AutoPath/AutoFight recovery asks for a STOP while a mount recovery waits for its result: the
result is discarded (`4284-4292`), and the recovery, in phase 1, waits for it for ever
(`5479-5481`). (3) The travel guard sees AutoFight off before it takes the result of its STOP and
resets itself (`4466-4471`): the result stays, and when AutoFight is on again the
next STOP is refused at `4295`, so no path is started. Results left over are
discarded by another owner's request; otherwise a start or a death ends it. The property allows a sale not to
end only if the clicks stay astray for ever. `StartPath` is
judged by the snapshot read before the priority pass of the same tick, which may have
clicked ATTACK. The flag of finding 6 also lets priority 1 confirm a gate on a route
the tool did not start. While the life state cannot be read in a death session, the
AutoPath/AutoFight invariant still sends its commands. The rotation may begin a
return to the next spot in the middle of a sale.

Observations in the other parts: F8 captures into the row number that was armed, which
may be another row after a move or a deletion (`controller.cpp:4118`; in the model
any row may be captured); references copied before MAIN rows moved point
elsewhere when they are pasted (`stale`); a row appended during the verification
is clicked, and the bag then judged without a new wait (`controller.cpp:3492`);
MAIN's room caps each transfer row on its own, not the pass (`controller.cpp:3566`).
And in the coordinator: an active child whose role is given to
another account is not purged and goes on trading (hence the `None` in
`EarliestIsServed`).

## 4. Proofs

`BridgeMailboxProofs` proves, for all values of the constants that satisfy
`BoundsAssumption`:

* `TypeCorrect`: `Spec => []TypeOK`;
* `Inductive`: `Spec => []IInv`;
* `RequestNeverOverwritten`, `AnswerBelongsToCall`: the two state properties;
* `CommandRunsOnce`: the action property `RunsOnce`;
* `CleanImplementsPromise`: `CleanSpec => ImplementsPromise`, each step maps to a
  step of `CallOnce` or a stutter.

`NeverOverwrite` is not inductive: that no callback is running follows from
`bridgeBusy = 0` only if a callback that has left `read` holds the flag, and only
if one that is still in `read` cannot exist between requests. `IInv` therefore says,
for a clean session, how the stack looks (`StackShape`: the bottom callback owns
the flag, a nested one is always still in `read`), what the bottom callback works
on (`BottomServesLatest`), how far the latest request is (`LatestRequest`) and
that the client remembers every open request (`ClientTracks`). `Bookkeeping` holds in
every session. The step lemmas split over the actions: `TypeStep`,
`BookkeepingStep`, `CleanStep` (a clean session stays one) and `CleanAgain` (a
session becomes clean by a new Attach or stays unclean).

`TradeSequenceProofs` proves `RepeatsAreBounded`: `Spec => []PassesBounded` for all
scripts, bags, thresholds and any editing (`SequenceAssumption`). `PassesBounded` says that
the passes so far have each used up more than the threshold of the room there was at the
start. With the ranges of the five variables it mentions (`CountersOK`) it is
inductive: `BoundAtRepeat` is the one step that matters (it needs that
`sequenceMainFreeBeforePass` becomes the value the decision was made with),
`BoundAtRest` covers every end of the sequence, and no other step touches these
counters.

Two modules prove every safety invariant of `TradeTest`, for any players,
ticks, polls and depth of callbacks (`TradeTestAssumption`):

* `TradeTestProofs`, `TypeCorrect`: `Spec => []TypeOK`. The type invariant is a
  conjunction of parts (`AppOK`, `ClientOK`, `BlockOK`, `GameOK`, `FactsOK`), and a
  step is shown to keep those it writes to.
* `PollStaysWithinLimit`: `Spec => []PollWithinLimit`; the poll is below its limit
  except inside the check that reached it (`PollInv`).
* `TradeAnswerProofs`, `CallTakesItsAnswer`: `Spec => []AnswerIsOwn`. In a session that
  began with no callback running (`fresh`) only the bottom callback owns the flag
  (`Stack`), numbers only grow and a callback that has not completed is ahead of
  `completedSeq` (`Numbers`), so the number a `Call` waits for can only be completed with
  the answer to its request (`Answering`).
* `PacketToChosenPlayer`: `Spec => NeverWrongTarget`, an action property of the step that
  sends. Its first half, the role of the packet, rests on `TargetInv` (`TargetAlways`, in
  `TradeTestProofs`): a request that is not being stored carries its click's role or none
  (`Tagged`); the handler that stores one still has the player of its click, and the field
  it has stored (`Chosen`); a copy between its two loads fits what it will load next, unless
  a Call has stored meanwhile (`HalfCopied`); so a copy that has not raced is tagged
  (`CopiedOK`), in every session. The second half, the selected player, rests on `Selection`:
  in a `fresh` session the callback between read-back and packet owns the flag, so that one
  nested in it can only leave again and nobody selects meanwhile.
* `PollAfterPacket`: `Spec => []PollMeansSent`. Answers that report a packet are
  `Backed` by one, and the waiting trade handler's answer is its own by the theorem before.
* `OnePacketPerClick`: `Spec => []OneTradePerCalmClick`. A click
  whose packet was not sent has one holder: the request in the block that nobody took
  yet (`Offered`) or one callback (`OneHolder`), never both. The hard case is a new
  `Attach` under callbacks of an old session: they only find the emptied block
  (`Session`), and `Nested` says that all callbacks but the top one are inside a command.

`TradeCoordinatorProofs` proves `OldestIsServed`: `Spec => EarliestIsServed`, the action
property that the trade sequence begins with the oldest ticket, for any number of
accounts and whatever dies, closes or changes its role. A tick is a composition of
operators on the record of the flow; every part before the relock keeps the phase,
the relock establishes `ServesOldest`, and only `RendezvousStep` begins the sequence,
with queue, tickets and child as the relock left them. No type invariant is needed.
`TradeQueueProofs` proves what the flow's state keeps, for any accounts, roles and bounds:
`CoordinatorIsGood`, `Spec => []CoordinatorInv`, and from it `CoordinatorTypes`
(`TypeOK`), `QueueStaysInOrder`, `ActiveStaysQueued`, `HoldsMatchQueue`, and with them the
action properties `PairStaysStable` and `TicketsSurvive`. The three invariants are not
inductive alone. The order of the queue needs that no ticket is above the
counter (`TicketsIssued`: a new child goes to the end with the next one). That holds match the
queue needs that, as long as no role is changed, only CONs are queued (`QueuedAreCons`: MAIN
would be released with its own place) and that the sequence was edited whenever it is incomplete
(`SequenceEdited`). The proof follows the tick part by part over the record of the flow.
Between the purge of the queue and the end of the tick MAIN may be held with an empty queue,
so the parts in between keep the weaker `FlowMoves`, which `AdvancePhase` makes exact
(`MainIsReleased`). The queue is filtered and filled by rank (`InOrder`), not by a recursion, so
that what a filter leaves can be proved from cardinalities (`RankTaken`, `InOrderLists`).
The theorem found a state the run with one intervention does not reach: a tick that finds a full
CON and an incomplete sequence returns at once, so MAIN stays held with an empty queue when the
sequence was made incomplete and its last child left (`SequenceMissing`);
`HoldMatchesQueue` says so.

`TradeSequenceProofs` also proves the lists of the editors: `SequenceIsGood`, `Spec =>
[]SequenceInv`, and from it `SequenceTypes` (`TypeOK`), `GroupsStayWellFormed` and
`ReferencesFollow`, for scripts of any length. `ScriptInv` is their conjunction with
`ClipFollows`: what is in the clipboard follows MAIN too, as long as MAIN rows have not moved
since the copy; without it a paste could bring anything. One lemma per editor command
(`...Keeps`) shows that lists that are cut, joined, swapped and
renumbered keep it; `NormalizedGroups` is the common end of them: whatever the numbers were,
`NormalizeTradeGroups` leaves groups whose rows are neighbours and agree. Its proof needs the
first and the last row of a run of equal numbers. The library's induction
cannot be instantiated, so both come from the well-foundedness of the naturals, through
the least counterexample (`LeastNatural`, `GreatestNatural`). A list read from a file may hold
references that point anywhere (`LoadTradeSequence` does not check them): `stale`
is then true from the start, and `RefsFollowMain` promises nothing.

`AccountProofs` proves two invariants of `Account` for every scene and every limit
(`RuntimeAssumption`: None is no owner of a click): `OneClickAlways`, `Spec =>
[]OneClickInFlight`, and `NoCarryOverAlways`, `Spec => []NoCarryOver`. Neither is inductive.
The invariant is `LivesApart`: the mailbox satisfies `OneClick`, and while the death is
latched the workflows satisfy `AtRest` and no click of theirs is in the mailbox. A tick is a
composition of operators on the record of the account's fields, so the proof goes handler by
handler over `Good(life, w)`, the invariant of a record whose life is "alive" or "dead" (with
the list of its fields, which the prover needs to see what an EXCEPT changes); `AllGood` says
it of every record a handler may leave. What may also run in a death session (the mailbox,
the travel guard, the conflict recovery, the freeze, `ObserveMovement`) has a lemma for both
lives; the other handlers (robust travel, sale, training, rotation, ownership) have one for
the living only, and `DeathGood` shows why that is enough: whoever is left in a death session
by `HandleDeath` owns the tick (`Settled`), so that none of them runs. `LifeBegins` is the
reset at both boundaries; `StepGood` puts the tick and the user's steps together.

`AccountTickProofs` proves the other invariants of `Account`, `TypesAlways` (`TypeOK`),
`TravelHasOwnerAlways` and `ShopMatchesCursorAlways`, and the action properties
`NothingAfterTimeoutAlways`, `ConflictHoldsAlways`, `OwnershipFirstAlways`,
`DeathCountedOnceAlways`, `AttackFollowsMenuAlways` and `ResetAfterTwoStopsAlways`, in one pass
over the handlers. Assumed are, besides
`RuntimeAssumption`, that what a scene shows and answers is a snapshot and an answer
(`SceneAssumption`), that windows and limits are positive (`LifeAssumption`), and that fewer
failures are forgiven at the items and at the closing of the shop than at its opening
(`SellAssumption`; the code: 6, 4 and 12), which share a counter.

A property of a tick is proved by a choice of sets. A *course* `c` is a set of traces (the
client and the calls so far), of clicks (the mailbox and the guard), of routes and of lives;
a *trip* `j` is what a sale or a return owns (the sale, the shop, `train.back`). `On(c, j, w)`
says that a record is on both. Each handler that neither sells nor ends a return keeps a
record on any course that is closed under what it writes (`Mails`, `GuardSteps`, `Breaks`,
`Roads`, `MayDie`, `MayTakeBack`, ...; `Allows(c, what)` for a call), and the others keep it
`Sound(c, w)`, on its own trip with a sale that satisfies `SaleOK`. `TickSound` puts them
together: `Ticks(c, e, d, s)` says that a tick that begins on `c` is on `e` once the conflict of
AutoPath and AutoFight was looked at, and ends on `d`. A theorem then chooses the courses:
all of them for the invariant (`Any`, `AccountOK`); traces whose time-outs come last and leave
the client frozen; traces without a walk or a sale, on the guards with a conflict; routes that are
to be taken back; lives with at most one more death. `SaleOK` strengthens
`ShopMatchesCursor` with the counters of the phases before it and after it. `OwnershipFirst` is
not provable from the types: the gate is confirmed first in a tick, so the invariant needs
that a route that is to be taken back is not armed (`AnyRoutes`). The proof also showed that
`learned`, the free space a sale ended with, is bounded by no limit of the code (it is
`ItemCap` at most only in the scenes that are checked); `EffectiveClickCount` discards a value
that is too large.

`AttackFollowsMenu` and `ResetAfterTwoStops` are about the clicks of several ticks, so their
invariant `AsksOK` relates the mailbox and the guard to the history `asked`. A request that had
its first click had its AUTO click accepted. For the STOP clicks (`StopsOK`) the properties say
far too little to be inductive. The clicks the guard has counted and the one in the result it
waits for are at most those that were made since it rested; phase 3, which has forgotten its two,
still owes a reset to two clicks; while the guard verifies or resets, no STOP click is in
the mailbox, so that the history cannot run ahead of the reset; and a reset it waits for, or whose
failure it has yet to read, has two clicks before it. A guard that rests satisfies it with
no clicks at all (`RestForgets`): a result left by an earlier episode is not waited for, and
never counted. A tick makes at most one click, in its priority pass,
and what comes before and after it is very different, so the proof of `TickAsks` uses two courses:
up to the click the mailbox and the guard are those of the last tick, or cleared (`Unclicked`,
`PrioritizedEnds`); the click is followed case by case (`EndCounts`); after it every handler keeps
the course `AfterClicks`, on which no click is added and the mailbox and the guard satisfy
`StopsOK` with the history as it will be noted (`CountedSteps`). Two facts about the guard
were needed: that the second STOP click counts only until it is verified (`Guards`),
and that a request of the guard is only queued in the phases that own it (`MayAsk`).

Model-checked only: the liveness properties, and what a pass of `TradeSequence` clicks
(`PassFollowsScript` compares with the reference expansion of `MCTradeSequence`, which is
recursive, and what a recursion computes for scripts of any length takes an induction the
provers cannot instantiate). Every other property of the passing runs is a theorem.

The proofs rest on these named assumptions only. Liveness (`TimedOutCompletes`,
`PollEnds`, `Served`, `Finishes`, `SaleEnds`) is checked by TLC and not proved: the prover has no rules for fairness.

## 5. Not modelled

Window layout, INI text, the recorder's mouse capture, image matching, the discovery of
UI controls inside the game (labels and geometry in floating point), the
IL2CPP reflection below a command's outcome, the verification scripts and the build.
They hold no protocol, or none that can be stated without the game. Tick counts are
not numbers in the models: timers are over or not, so the wrap-around after 49 days and
the value 0 as "not set" are not examined. `TradeCoordinator` and `Account` are not
composed into one state space: an account the coordinator holds runs only the life
observer and the travel of `TradeCoordinator`, which uses the robust travel as an
outcome. That `TradeSequence` refines the `SequenceOutcomes` of the coordinator
(wait, abort, finish) is by construction of its actions and not checked.
