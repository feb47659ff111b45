-------------------------- MODULE TradeTestProofs --------------------------
(* Proofs about TradeTest, for every number of players, calls and frames. *)
EXTENDS TradeTest, TLAPS

USE DEF Clicks, Depths

\* What the code passes on is well typed: the empty request and response, and
\* the command of each handler.
LEMMA BlankTyped ==
  NoRequest \in Requests /\ NoResponse \in Responses /\ NoFrame \in Frames
<1>1. NoRequest \in Requests
  BY DEF NoRequest, Requests
<1>2. NoResponse \in Responses
  BY <1>1 DEF NoResponse, Responses
<1> QED
  BY <1>1, <1>2 DEF NoFrame, Frames, Pcs

\* What a handler passes to Call is a request.
LEMMA CommandTyped ==
  ASSUME NEW h \in Handlers
  PROVE  /\ CommandOf[h] \in Commands \cup {"None"}
         /\ CommandOf[h] = "SelectAndTrade" <=> h = "SendTrade"
<1>1. CASE h = "none"
  BY <1>1, Zenon DEF CommandOf, Commands, Handlers
<1>2. CASE h = "SendTrade"
  BY <1>2, Zenon DEF CommandOf, Commands, Handlers
<1>3. CASE h = "PollCheck"
  BY <1>3, Zenon DEF CommandOf, Commands, Handlers
<1> QED
  BY <1>1, <1>2, <1>3 DEF CommandOf, Commands, Handlers

\* A step leaves the types of what it does not touch.
LEMMA Untouched ==
  /\ AppOK /\ UNCHANGED app => AppOK'
  /\ ClientOK /\ UNCHANGED client => ClientOK'
  /\ BlockOK /\ UNCHANGED block => BlockOK'
  /\ GameOK /\ UNCHANGED game => GameOK'
  /\ FactsOK /\ UNCHANGED facts => FactsOK'
<1>1. AppOK /\ UNCHANGED app => AppOK'
  BY DEF AppOK, app
<1>2. ClientOK /\ UNCHANGED client => ClientOK'
  BY DEF ClientOK, client
<1>3. BlockOK /\ UNCHANGED block => BlockOK'
  BY DEF BlockOK, block
<1>4. GameOK /\ UNCHANGED game => GameOK'
  BY DEF GameOK, game
<1>5. FactsOK /\ UNCHANGED facts => FactsOK'
  BY DEF FactsOK, facts
<1> QED
  BY <1>1, <1>2, <1>3, <1>4, <1>5

----------------------------------------------------------------------------
(* The stack of callbacks *)

\* Writing one callback's record keeps the type of the stack.
LEMMA FrameReplaced ==
  ASSUME GameOK, NEW d \in Depths, NEW f \in Frames
  PROVE  [frame EXCEPT ![d] = f] \in [Depths -> Frames]
BY DEF GameOK

\* So does moving a callback to its next step.
LEMMA FrameMoved ==
  ASSUME GameOK, NEW d \in Depths, NEW p \in Pcs
  PROVE  [frame EXCEPT ![d].pc = p] \in [Depths -> Frames]
<1>1. [frame[d] EXCEPT !.pc = p] \in Frames
  BY DEF GameOK, Frames
<1> QED
  BY <1>1 DEF GameOK

\* The callback that runs is a frame.
LEMMA TopTyped ==
  ASSUME GameOK, NEW pc, InFrame(pc)
  PROVE  depth \in Depths /\ Top \in Frames
<1>1. depth \in Depths
  BY DEF GameOK, InFrame
<1> QED
  BY <1>1 DEF GameOK, Top

\* A callback that has its answer is still a frame.
LEMMA FrameEnds ==
  ASSUME GameOK, NEW pc, InFrame(pc), NEW res \in Responses, Ends(res)
  PROVE  frame' \in [Depths -> Frames]
<1>1. depth \in Depths /\ Top \in Frames
  BY TopTyped
<1>2. [Top EXCEPT !.pc = "answered", !.res = res] \in Frames
  BY <1>1 DEF Frames, Pcs
<1>3. frame' = [frame EXCEPT ![depth] = [Top EXCEPT !.pc = "answered", !.res = res]]
  BY <1>1 DEF Ends, GameOK, Top
<1> QED
  BY <1>1, <1>2, <1>3, FrameReplaced

\* A callback that returns leaves a typed stack.
LEMMA FrameLeft ==
  ASSUME GameOK, NEW pc, InFrame(pc), LeaveFrame
  PROVE  frame' \in [Depths -> Frames] /\ depth' \in 0 .. MaxDepth
<1>1. depth \in Depths
  BY TopTyped
<1>2. frame' \in [Depths -> Frames]
  BY <1>1, FrameReplaced, BlankTyped DEF LeaveFrame
<1> QED
  BY <1>1, <1>2, TradeTestAssumption DEF LeaveFrame, TradeTestAssumption

\* What a command may answer is a response.
LEMMA AnswersTyped ==
  ASSUME GameOK, NEW pc, InFrame(pc)
  PROVE  /\ Failed \in Responses /\ Done \in Responses
         /\ \A v \in BOOLEAN : [Done EXCEPT !.visible = v] \in Responses
         /\ \A f \in SUBSET Roles : [Done EXCEPT !.found = f] \in Responses
<1>1. Top.req \in Requests
  BY TopTyped DEF Frames
<1>2. Failed \in Responses
  BY <1>1, BlankTyped DEF Failed, Responses
<1>3. Done \in Responses
  BY <1>2 DEF Done, Responses
<1> QED
  BY <1>2, <1>3 DEF Responses

----------------------------------------------------------------------------
(* Types *)

\* The initial state has the type.
LEMMA TypeInitially == Init => TypeOK
<1> SUFFICES ASSUME Init PROVE TypeOK
  OBVIOUS
<1> USE DEF Init
<1>1. AppOK
  BY DEF AppOK
<1>2. ClientOK
  BY DEF ClientOK, Handlers, Steps
<1>3. BlockOK
  BY BlankTyped DEF BlockOK
<1>4. GameOK
  <2>1. wakes \in 0 .. MaxWakes /\ depth \in 0 .. MaxDepth
    BY TradeTestAssumption DEF TradeTestAssumption
  <2>2. frame \in [Depths -> Frames] /\ selected \in Roles \cup {NoRole}
    BY BlankTyped
  <2> QED
    BY <2>1, <2>2 DEF GameOK
<1>5. clicks \in 0 .. MaxClicks /\ sessions \in 0 .. MaxSessions /\ commands \in 0 .. MaxCommands
  BY TradeTestAssumption DEF TradeTestAssumption
<1>6. clickRole \in [Clicks -> Roles \cup {NoRole}] /\ sent \in [Clicks -> Nat]
  OBVIOUS
<1>7. FactsOK
  BY <1>5, <1>6, Zenon DEF FactsOK
<1> QED
  BY <1>1, <1>2, <1>3, <1>4, <1>5, <1>7 DEF TypeOK

\* A button is pressed, or the timer's message comes.
LEMMA BeginTyped ==
  ASSUME TypeOK, NEW h \in Handlers, Begin(h), UNCHANGED <<next, attached>>
  PROVE  ClientOK'
BY DEF TypeOK, ClientOK, Begin, Steps

\* Stopping the poll keeps the type of the window.
LEMMA PollStopped ==
  ASSUME TypeOK, StopTradePoll, UNCHANGED <<players, target, timerQueued>>
  PROVE  AppOK'
BY DEF TypeOK, AppOK, StopTradePoll

\* A new command stays within the bound.
LEMMA CommandCounted ==
  ASSUME TypeOK, UserMayCall
  PROVE  commands' \in 0 .. MaxCommands
BY TradeTestAssumption DEF TypeOK, UserMayCall, TradeTestAssumption

\* The buttons, the lists and the timer keep the type.
LEMMA TypeOfUserSteps ==
  ASSUME TypeOK, UserStep \/ TimerElapses \/ PollTradeUi
  PROVE  TypeOK'
<1> USE Untouched
<1>0. \A h \in {"Probe", "QueryPlayers", "SelectTargetOnly", "SendTrade", "ManualCheck",
               "PollCheck"} : h \in Handlers
  BY DEF Handlers
<1>1. CASE ScanClients
  <2>1. AppOK'
    BY <1>1 DEF ScanClients, StopTradePoll, TypeOK, AppOK
  <2>2. ClientOK'
    BY <1>1 DEF ScanClients, TypeOK, ClientOK
  <2> QED
    BY <1>1, <2>1, <2>2 DEF ScanClients, TypeOK, past
<1>2. CASE ChoosePlayer
  <2>1. AppOK'
    BY <1>2 DEF ChoosePlayer, TypeOK, AppOK
  <2> QED
    BY <1>2, <2>1 DEF ChoosePlayer, TypeOK, past
<1>3. CASE Probe
  <2>1. ClientOK' /\ commands' \in 0 .. MaxCommands
    BY <1>0, <1>3, BeginTyped, CommandCounted DEF Probe
  <2> QED
    BY <1>3, <2>1 DEF Probe, TypeOK
<1>4. CASE QueryPlayers
  <2>1. AppOK' /\ ClientOK' /\ commands' \in 0 .. MaxCommands
    BY <1>0, <1>4, BeginTyped, CommandCounted, PollStopped DEF QueryPlayers
  <2> QED
    BY <1>4, <2>1 DEF QueryPlayers, TypeOK
<1>5. CASE NoPlayerChosen
  <2>1. AppOK'
    BY <1>5, PollStopped DEF NoPlayerChosen
  <2> QED
    BY <1>5, <2>1 DEF NoPlayerChosen, TypeOK, past
<1>6. CASE SelectTargetOnly
  <2>1. AppOK' /\ ClientOK' /\ commands' \in 0 .. MaxCommands
    BY <1>0, <1>6, BeginTyped, CommandCounted, PollStopped DEF SelectTargetOnly
  <2> QED
    BY <1>6, <2>1 DEF SelectTargetOnly, TypeOK
<1>7. CASE SendTrade
  <2>1. AppOK' /\ ClientOK' /\ commands' \in 0 .. MaxCommands
    BY <1>0, <1>7, BeginTyped, CommandCounted, PollStopped DEF SendTrade
  <2>2. clicks + 1 \in Clicks /\ clicks' \in 0 .. MaxClicks
    BY <1>7, TradeTestAssumption DEF SendTrade, TypeOK, FactsOK, TradeTestAssumption
  <2>3. clickRole' \in [Clicks -> Roles \cup {NoRole}]
    BY <1>7, <2>2 DEF SendTrade, TypeOK, FactsOK, AppOK
  <2>4. FactsOK'
    BY <1>7, <2>2, <2>3 DEF SendTrade, TypeOK, FactsOK
  <2> QED
    BY <1>7, <2>1, <2>4 DEF SendTrade, TypeOK
<1>8. CASE CheckTradeUi
  <2>1. ClientOK' /\ commands' \in 0 .. MaxCommands
    BY <1>0, <1>8, BeginTyped, CommandCounted DEF CheckTradeUi
  <2> QED
    BY <1>8, <2>1 DEF CheckTradeUi, TypeOK
<1>9. CASE TimerElapses
  <2>1. AppOK'
    BY <1>9 DEF TimerElapses, TypeOK, AppOK
  <2> QED
    BY <1>9, <2>1 DEF TimerElapses, TypeOK, past
<1>10. CASE PollTradeUi
  <2>1. ClientOK'
    BY <1>0, <1>10, BeginTyped DEF PollTradeUi
  <2>2. AppOK'
    <3>1. pollCount' \in Nat
      BY <1>10 DEF PollTradeUi, TypeOK, AppOK
    <3> QED
      BY <1>10, <3>1, Zenon DEF PollTradeUi, TypeOK, AppOK
  <2> QED
    BY <1>10, <2>1, <2>2 DEF PollTradeUi, TypeOK, past
<1> QED
  BY <1>1, <1>2, <1>3, <1>4, <1>5, <1>6, <1>7, <1>8, <1>9, <1>10 DEF UserStep

\* A handler ends: what it leaves is well typed.
LEMMA FailureTyped ==
  ASSUME TypeOK, AfterFailure, UNCHANGED attached
  PROVE  AppOK' /\ ClientOK'
<1>1. ClientOK'
  BY DEF TypeOK, ClientOK, AfterFailure, Leave, Handlers, Steps
<1>2. UNCHANGED <<players, target, timerQueued>>
  BY DEF AfterFailure
<1>3. StopTradePoll \/ UNCHANGED <<pollActive, pollCount>>
  BY DEF AfterFailure
<1>4. CASE StopTradePoll
  BY <1>1, <1>2, <1>4, PollStopped
<1>5. CASE UNCHANGED <<pollActive, pollCount>>
  BY <1>1, <1>2, <1>5, Untouched DEF TypeOK, app
<1> QED
  BY <1>3, <1>4, <1>5

\* The handlers' use of an answer keeps the type.
LEMMA AnswerTyped ==
  ASSUME TypeOK, AfterAnswer, UNCHANGED attached
  PROVE  AppOK' /\ ClientOK'
<1>1. ClientOK'
  BY DEF TypeOK, ClientOK, AfterAnswer, Leave, Handlers, Steps
<1>2. timerQueued' = timerQueued
  BY DEF AfterAnswer
<1>3. CASE AfterTeamScan
  <2>1. response.found \subseteq Roles
    BY DEF TypeOK, BlockOK, Responses
  <2>2. players' \subseteq Roles /\ target' \in Roles \cup {NoRole}
    BY <1>3, <2>1 DEF AfterTeamScan
  <2>3. pollActive' = pollActive /\ pollCount' = pollCount
    BY <1>3 DEF AfterTeamScan
  <2> QED
    BY <1>1, <1>2, <2>2, <2>3, Zenon DEF TypeOK, AppOK
<1>4. CASE AfterTrade
  <2>1. players' = players /\ target' = target /\ pollActive' \in BOOLEAN /\ pollCount' \in Nat
    BY <1>4 DEF AfterTrade
  <2> QED
    BY <1>1, <1>2, <2>1, Zenon DEF TypeOK, AppOK
<1>5. CASE AfterCheck \/ AfterOther
  <2>1. UNCHANGED <<players, target>>
    BY <1>5 DEF AfterCheck, AfterOther
  <2>2. StopTradePoll \/ UNCHANGED <<pollActive, pollCount>>
    BY <1>5 DEF AfterCheck, AfterOther
  <2>3. CASE StopTradePoll
    BY <1>1, <1>2, <2>1, <2>3, PollStopped
  <2>4. CASE UNCHANGED <<pollActive, pollCount>>
    BY <1>1, <1>2, <2>1, <2>4, Untouched DEF TypeOK, app
  <2> QED
    BY <2>2, <2>3, <2>4
<1> QED
  BY <1>1, <1>3, <1>4, <1>5 DEF AfterAnswer

\* An emptied block is well typed.
LEMMA ZeroTyped == ZeroBlock => BlockOK' /\ fresh' \in BOOLEAN
BY BlankTyped DEF ZeroBlock, BlockOK

\* What a store leaves in the request: the new field, and the other one as it
\* was or, at the first store, zero.
LEMMA StoreTyped ==
  ASSUME TypeOK, WriteCommand \/ WriteRole
  PROVE  /\ request' \in Requests
         /\ WriteCommand => /\ request'.cmd = CommandOf[handler]
                            /\ request'.click = IF handler = "SendTrade" THEN clicks ELSE 0
                            /\ \/ request'.role = request.role
                               \/ request'.role = NoRole /\ cpc = "write"
         /\ WriteRole => /\ request'.role = IF handler \in {"SelectTargetOnly", "SendTrade"}
                                             THEN target ELSE NoRole
                         /\ \/ request'.cmd = request.cmd /\ request'.click = request.click
                            \/ request'.cmd = "None" /\ request'.click = 0 /\ cpc = "write"
<1>1. request \in Requests /\ NoRequest \in Requests
  BY BlankTyped DEF TypeOK, BlockOK
<1>2. NoRequest.role = NoRole /\ NoRequest.cmd = "None" /\ NoRequest.click = 0
  BY DEF NoRequest
<1>3. CASE WriteCommand
  <2> DEFINE cmd == CommandOf[handler]
             click == IF handler = "SendTrade" THEN clicks ELSE 0
  <2>1. cmd \in Commands \cup {"None"} /\ click \in Clicks \cup {0}
    BY CommandTyped, TradeTestAssumption DEF TypeOK, ClientOK, FactsOK, TradeTestAssumption
  <2>2. PICK old \in {request, NoRequest} :
          /\ request' = [old EXCEPT !.cmd = cmd, !.click = click]
          /\ cpc # "write" => old = request
    BY <1>3 DEF WriteCommand, Store
  <2> HIDE DEF cmd, click
  <2>3. /\ request' \in Requests /\ request'.cmd = cmd /\ request'.click = click
        /\ request'.role = old.role
    BY <1>1, <2>1, <2>2 DEF Requests
  <2>4. request'.role = request.role \/ (request'.role = NoRole /\ cpc = "write")
    BY <1>2, <2>2, <2>3
  <2>5. CASE WriteRole
    BY <1>3, <2>5 DEF WriteCommand, WriteRole, FirstStore, SecondStore
  <2> QED
    BY <1>3, <2>3, <2>4, <2>5 DEF cmd, click
<1>4. CASE WriteRole
  <2> DEFINE role == IF handler \in {"SelectTargetOnly", "SendTrade"} THEN target ELSE NoRole
  <2>1. role \in Roles \cup {NoRole}
    BY DEF TypeOK, AppOK
  <2>2. PICK old \in {request, NoRequest} :
          request' = [old EXCEPT !.role = role] /\ (cpc # "write" => old = request)
    BY <1>4 DEF WriteRole, Store
  <2> HIDE DEF role
  <2>3. /\ request' \in Requests /\ request'.role = role
        /\ request'.cmd = old.cmd /\ request'.click = old.click
    BY <1>1, <2>1, <2>2 DEF Requests
  <2>4. \/ request'.cmd = request.cmd /\ request'.click = request.click
        \/ request'.cmd = "None" /\ request'.click = 0 /\ cpc = "write"
    BY <1>2, <2>2, <2>3
  <2>5. CASE WriteCommand
    BY <1>4, <2>5 DEF WriteCommand, WriteRole, FirstStore, SecondStore
  <2> QED
    BY <1>4, <2>3, <2>4, <2>5 DEF role
<1> QED
  BY <1>3, <1>4

\* The steps of BridgeClient::Call keep the type.
LEMMA TypeOfCallSteps == ASSUME TypeOK, CallStep PROVE TypeOK'
<1> USE Untouched
<1>0. PostWake => wakes' \in 0 .. MaxWakes
  BY TradeTestAssumption DEF PostWake, TypeOK, GameOK, TradeTestAssumption
<1>1. CASE AlreadyAttached
  <2>1. ClientOK'
    BY <1>1 DEF AlreadyAttached, TypeOK, ClientOK, Steps
  <2> QED
    BY <1>1, <2>1 DEF AlreadyAttached, TypeOK, past
<1>2. CASE Attach
  <2>1. ClientOK'
    BY <1>2 DEF Attach, TypeOK, ClientOK, Steps
  <2>2. BlockOK'
    BY <1>2, ZeroTyped DEF Attach
  <2>3. GameOK'
    BY <1>0, <1>2 DEF Attach, TypeOK, GameOK
  <2>4. FactsOK'
    <3>1. sessions' \in 0 .. MaxSessions
      BY <1>2, TradeTestAssumption DEF Attach, TypeOK, FactsOK, TradeTestAssumption
    <3>2. fresh' \in BOOLEAN
      BY <1>2, ZeroTyped DEF Attach
    <3> QED
      BY <1>2, <3>1, <3>2 DEF Attach, TypeOK, FactsOK
  <2> QED
    BY <1>2, <2>1, <2>2, <2>3, <2>4 DEF Attach, TypeOK
<1>3. CASE AttachFails
  BY <1>3, FailureTyped DEF AttachFails, TypeOK, past
<1>4. CASE HookFails
  <2>1. AppOK' /\ ClientOK' /\ BlockOK' /\ fresh' \in BOOLEAN
    BY <1>4, FailureTyped, ZeroTyped DEF HookFails
  <2>2. FactsOK'
    BY <1>4, <2>1 DEF HookFails, TypeOK, FactsOK
  <2> QED
    BY <1>4, <2>1, <2>2 DEF HookFails, TypeOK
<1>5. CASE WriteCommand \/ WriteRole
  <2>1. ClientOK'
    <3>1. requestSeq + 1 \in Nat /\ next \in Nat
      BY DEF TypeOK, ClientOK, BlockOK
    <3>2. next' \in Nat /\ cpc' \in {"command", "role", "publish"}
      BY <1>5, <3>1 DEF WriteCommand, WriteRole, FirstStore, SecondStore
    <3> QED
      BY <1>5, <3>2 DEF WriteCommand, WriteRole, Store, TypeOK, ClientOK, Steps
  <2>2. request' \in Requests
    BY <1>5, StoreTyped
  <2>3. BlockOK'
    BY <1>5, <2>2 DEF WriteCommand, WriteRole, Store, TypeOK, BlockOK
  <2>4. FactsOK'
    <3>1. overlapped' \in BOOLEAN /\ written' \in BOOLEAN
      BY <1>5 DEF WriteCommand, WriteRole, FirstStore, SecondStore, Store, InFrame, TypeOK, FactsOK
    <3> QED
      BY <1>5, <3>1 DEF WriteCommand, WriteRole, Store, TypeOK, FactsOK
  <2> QED
    BY <1>5, <2>1, <2>3, <2>4 DEF WriteCommand, WriteRole, Store, TypeOK
<1>6. CASE Publish
  <2>1. ClientOK'
    BY <1>6 DEF Publish, TypeOK, ClientOK, Steps
  <2>2. BlockOK'
    BY <1>6 DEF Publish, TypeOK, BlockOK, ClientOK
  <2> QED
    BY <1>6, <2>1, <2>2 DEF Publish, TypeOK, past
<1>7. CASE Post
  <2>1. ClientOK'
    BY <1>7 DEF Post, TypeOK, ClientOK, Steps
  <2>2. GameOK'
    BY <1>0, <1>7 DEF Post, TypeOK, GameOK
  <2> QED
    BY <1>7, <2>1, <2>2 DEF Post, TypeOK, past
<1>8. CASE PostFails
  BY <1>8, FailureTyped DEF PostFails, TypeOK, past
<1>9. CASE Return
  <2>1. AppOK' /\ ClientOK'
    BY <1>9, FailureTyped, AnswerTyped DEF Return
  <2> QED
    BY <1>9, <2>1 DEF Return, TypeOK, past
<1>10. CASE Timeout
  BY <1>10, FailureTyped DEF Timeout, TypeOK, past
<1> QED
  BY <1>1, <1>2, <1>3, <1>4, <1>5, <1>6, <1>7, <1>8, <1>9, <1>10 DEF CallStep

\* The steps of a callback that carries out the command it copied.
RunStep ==
  \/ RunFails \/ RunProbe \/ RunQueryTeam \/ SelectFails \/ RunSelectTarget
  \/ SelectForTrade \/ ConstantsFail \/ SendTradePacket \/ RunQueryTradeUi

\* They leave the window, the client and the block alone; each one ends the
\* command, but for the selection of the player a packet goes to.
LEMMA RunLeaves ==
  ASSUME RunStep
  PROVE  /\ UNCHANGED <<app, client, block, wakes, depth, clicks, clickRole, written, fresh,
                        overlapped, sessions, commands>>
         /\ \E pc \in {"running", "selected"} : InFrame(pc)
         /\ sent' = sent \/ SendTradePacket
         /\ SelectForTrade \/ \E res : Ends(res) /\ res.of = Top.req
<1> USE DEF past, facts
<1>1. /\ Failed.of = Top.req /\ Done.of = Top.req
      /\ \A v : [Done EXCEPT !.visible = v].of = Top.req
      /\ \A f : [Done EXCEPT !.found = f].of = Top.req
  BY DEF Done, Failed, NoResponse
<1>2. CASE RunFails \/ RunProbe \/ ConstantsFail
  BY <1>1, <1>2 DEF RunFails, RunProbe, ConstantsFail
<1>3. CASE RunQueryTeam \/ RunQueryTradeUi
  BY <1>1, <1>3 DEF RunQueryTeam, RunQueryTradeUi
<1>4. CASE SelectFails \/ RunSelectTarget
  BY <1>1, <1>4 DEF SelectFails, RunSelectTarget, Selects
<1>5. CASE SelectForTrade
  BY <1>5 DEF SelectForTrade, Selects
<1>6. CASE SendTradePacket
  BY <1>1, <1>6 DEF SendTradePacket
<1> QED
  BY <1>2, <1>3, <1>4, <1>5, <1>6 DEF RunStep

\* A callback changes neither the window nor the client, nor what the client
\* wrote.
LEMMA CallbackLeaves ==
  ASSUME Enter \/ CallbackStep
  PROVE  UNCHANGED <<app, client, requestSeq, request, clicks, clickRole, fresh, overlapped,
                     sessions, commands>>
<1> USE DEF block, past, facts
<1>1. CASE Enter \/ ClaimBusy \/ BusyReturn
  BY <1>1 DEF Enter, ClaimBusy, BusyReturn
<1>2. CASE CopyCommand \/ CopyRole
  BY <1>2 DEF CopyCommand, CopyRole
<1>3. CASE Respond \/ Complete \/ Release
  BY <1>3 DEF Respond, Complete, Release
<1>4. CASE RunStep
  BY <1>4, RunLeaves
<1> QED
  BY <1>1, <1>2, <1>3, <1>4 DEF CallbackStep, RunStep

\* A callback that ends its command, with a typed response.
LEMMA TypeOfRun ==
  ASSUME TypeOK, NEW pc, InFrame(pc), NEW res \in Responses, Ends(res),
         UNCHANGED <<wakes, depth>>, selected' \in Roles \cup {NoRole}
  PROVE  GameOK'
<1>1. frame' \in [Depths -> Frames]
  BY FrameEnds DEF TypeOK
<1> QED
  BY <1>1 DEF TypeOK, GameOK

\* The commands in the game keep the type.
LEMMA TypeOfCommands ==
  ASSUME TypeOK, RunStep
  PROVE  TypeOK'
<1> USE Untouched
<1>0. PICK pc \in {"running", "selected"} : InFrame(pc)
  BY RunLeaves
<1>1. /\ Failed \in Responses /\ Done \in Responses
      /\ \A v \in BOOLEAN : [Done EXCEPT !.visible = v] \in Responses
      /\ \A f \in SUBSET Roles : [Done EXCEPT !.found = f] \in Responses
  BY <1>0, AnswersTyped DEF TypeOK
<1>2. selected \in Roles \cup {NoRole} /\ Top.req.role \in Roles \cup {NoRole}
  BY <1>0, TopTyped DEF TypeOK, GameOK, Frames, Requests
<1>3. CASE RunFails \/ RunProbe \/ ConstantsFail
  <2>1. \E res \in Responses : Ends(res)
    BY <1>1, <1>3 DEF RunFails, RunProbe, ConstantsFail
  <2>2. GameOK'
    BY <1>0, <1>2, <1>3, <2>1, TypeOfRun DEF RunFails, RunProbe, ConstantsFail
  <2> QED
    BY <1>3, <2>2 DEF RunFails, RunProbe, ConstantsFail, TypeOK, past
<1>4. CASE RunQueryTeam \/ RunQueryTradeUi
  <2>1. \E res \in Responses : Ends(res)
    BY <1>1, <1>4 DEF RunQueryTeam, RunQueryTradeUi
  <2>2. GameOK'
    BY <1>0, <1>2, <1>4, <2>1, TypeOfRun DEF RunQueryTeam, RunQueryTradeUi
  <2> QED
    BY <1>4, <2>2 DEF RunQueryTeam, RunQueryTradeUi, TypeOK, past
<1>5. CASE SelectFails \/ RunSelectTarget
  <2>1. PICK player \in Roles \cup {NoRole} : Selects(player)
    BY <1>2, <1>5 DEF SelectFails, RunSelectTarget
  <2>2. \E res \in Responses : Ends(res)
    BY <1>1, <1>5 DEF SelectFails, RunSelectTarget
  <2>3. GameOK'
    BY <1>0, <2>1, <2>2, TypeOfRun DEF Selects
  <2> QED
    BY <2>1, <2>3 DEF Selects, TypeOK, past
<1>6. CASE SelectForTrade
  <2>1. Selects(Top.req.role) /\ frame' \in [Depths -> Frames]
    BY <1>0, <1>6, TopTyped, FrameMoved DEF SelectForTrade, TypeOK, Pcs
  <2>2. GameOK'
    BY <1>2, <2>1 DEF Selects, TypeOK, GameOK
  <2> QED
    BY <2>1, <2>2 DEF Selects, TypeOK, past
<1>7. CASE SendTradePacket
  <2>1. \E res \in Responses : Ends(res)
    BY <1>1, <1>7 DEF SendTradePacket
  <2>2. GameOK'
    BY <1>0, <1>2, <1>7, <2>1, TypeOfRun DEF SendTradePacket
  <2>3. sent' \in [Clicks -> Nat]
    <3>1. sent \in [Clicks -> Nat]
      BY DEF TypeOK, FactsOK
    <3>2. \A c \in Clicks : sent[c] + 1 \in Nat
      BY <3>1
    <3>3. \A c : [sent EXCEPT ![c] = sent[c] + 1] \in [Clicks -> Nat]
      BY <3>1, <3>2, Zenon
    <3> QED
      BY <1>7, <3>3 DEF SendTradePacket
  <2>4. FactsOK'
    BY <1>7, <2>3 DEF SendTradePacket, TypeOK, FactsOK
  <2> QED
    BY <1>7, <2>2, <2>4 DEF SendTradePacket, TypeOK
<1> QED
  BY <1>3, <1>4, <1>5, <1>6, <1>7 DEF RunStep

\* A load copies its field of the request and nothing else.  The first load
\* goes on to the other field, the second one to the command.
LEMMA CopyTyped ==
  ASSUME TypeOK, CopyCommand \/ CopyRole
  PROVE  /\ depth \in Depths /\ frame' \in [Depths -> Frames] /\ written' \in BOOLEAN
         /\ frame[depth].pc \in {"owned", "copyCommand", "copyRole"}
         /\ \A d \in Depths : d # depth => frame'[d] = frame[d]
         /\ frame'[depth].seq = frame[depth].seq /\ frame'[depth].res = frame[depth].res
         /\ CopyCommand => /\ frame'[depth].req.cmd = request.cmd
                           /\ frame'[depth].req.click = request.click
                           /\ frame'[depth].req.role = frame[depth].req.role
                           /\ frame[depth].pc = "owned" => frame'[depth].pc = "copyRole"
                           /\ frame[depth].pc # "owned" => frame[depth].pc = "copyCommand"
         /\ CopyRole => /\ frame'[depth].req.cmd = frame[depth].req.cmd
                        /\ frame'[depth].req.click = frame[depth].req.click
                        /\ frame'[depth].req.role = request.role
                        /\ frame[depth].pc = "owned" => frame'[depth].pc = "copyCommand"
                        /\ frame[depth].pc # "owned" => frame[depth].pc = "copyRole"
         /\ frame[depth].pc = "owned" =>
              frame'[depth].raced = frame[depth].raced /\ written' = (cpc \in {"command", "role"})
         /\ frame[depth].pc # "owned" =>
              frame'[depth].pc = "running" /\ frame'[depth].raced = written
<1> DEFINE f == IF CopyCommand THEN [Top EXCEPT !.req.cmd = request.cmd, !.req.click = request.click]
                               ELSE [Top EXCEPT !.req.role = request.role]
           rest == IF CopyCommand THEN "copyRole" ELSE "copyCommand"
<1>1. PICK pc \in {"owned", "copyCommand", "copyRole"} : InFrame(pc)
  BY DEF CopyCommand, CopyRole
<1>2. depth \in Depths /\ Top \in Frames /\ frame \in [Depths -> Frames] /\ Top = frame[depth]
  BY <1>1, TopTyped DEF TypeOK, GameOK, Top
<1>3. request \in Requests /\ written \in BOOLEAN
  BY DEF TypeOK, BlockOK, FactsOK
<1>4. /\ f \in Frames /\ f.seq = Top.seq /\ f.res = Top.res /\ f.raced = Top.raced
      /\ CopyCommand => /\ f.req.cmd = request.cmd /\ f.req.click = request.click
                        /\ f.req.role = Top.req.role
      /\ ~CopyCommand => /\ f.req.cmd = Top.req.cmd /\ f.req.click = Top.req.click
                         /\ f.req.role = request.role
  BY <1>2, <1>3 DEF Frames, Requests
<1>5. Copied(f, rest) /\ rest \in {"copyRole", "copyCommand"}
  BY DEF CopyCommand, CopyRole
<1>6. /\ CopyCommand => Top.pc = "owned" \/ Top.pc = "copyCommand"
      /\ CopyRole => Top.pc = "owned" \/ Top.pc = "copyRole"
      /\ ~CopyCommand => CopyRole
  BY DEF CopyCommand, CopyRole, InFrame
<1>7. CopyCommand => rest = "copyRole"
  OBVIOUS
<1>8. ~CopyCommand => rest = "copyCommand"
  OBVIOUS
<1> HIDE DEF f, rest
<1>9. ~(CopyCommand /\ CopyRole)
  <2> SUFFICES ASSUME CopyCommand, CopyRole PROVE FALSE
    OBVIOUS
  <2>1. Top.pc = "owned"
    BY DEF CopyCommand, CopyRole, InFrame
  <2>2. ASSUME NEW g, g \in Frames, NEW p \in Pcs, Copied(g, p) PROVE frame'[depth].pc = p
    <3>1. frame' = [frame EXCEPT ![depth] = [g EXCEPT !.pc = p]]
      BY <2>1, <2>2 DEF Copied
    <3> QED
      BY <1>2, <2>2, <3>1 DEF Frames
  <2>3. /\ [Top EXCEPT !.req.cmd = request.cmd, !.req.click = request.click] \in Frames
        /\ [Top EXCEPT !.req.role = request.role] \in Frames
    BY <1>2, <1>3 DEF Frames, Requests
  <2>4. frame'[depth].pc = "copyRole"
    BY <2>2, <2>3 DEF CopyCommand, Pcs
  <2>5. frame'[depth].pc = "copyCommand"
    BY <2>2, <2>3 DEF CopyRole, Pcs
  <2> QED
    BY <2>4, <2>5
<1>10. CASE Top.pc = "owned"
  <2> DEFINE g == [f EXCEPT !.pc = rest]
  <2>1. frame' = [frame EXCEPT ![depth] = g] /\ written' = (cpc \in {"command", "role"})
    BY <1>5, <1>10 DEF Copied
  <2>2. /\ g \in Frames /\ g.pc = rest /\ g.seq = f.seq /\ g.res = f.res /\ g.raced = f.raced
        /\ g.req = f.req
    BY <1>4, <1>5 DEF Frames, Pcs
  <2> HIDE DEF g
  <2>3. /\ frame'[depth] = g /\ frame' \in [Depths -> Frames]
        /\ \A d \in Depths : d # depth => frame'[d] = frame[d]
    BY <1>2, <2>1, <2>2
  <2> QED
    BY <1>2, <1>4, <1>6, <1>7, <1>8, <1>9, <1>10, <2>1, <2>2, <2>3
<1>11. CASE Top.pc # "owned"
  <2> DEFINE g == [f EXCEPT !.pc = "running", !.raced = written]
  <2>1. frame' = [frame EXCEPT ![depth] = g] /\ written' = FALSE
    BY <1>5, <1>11 DEF Copied
  <2>2. /\ g \in Frames /\ g.pc = "running" /\ g.seq = f.seq /\ g.res = f.res /\ g.raced = written
        /\ g.req = f.req
    BY <1>3, <1>4 DEF Frames, Pcs
  <2> HIDE DEF g
  <2>3. /\ frame'[depth] = g /\ frame' \in [Depths -> Frames]
        /\ \A d \in Depths : d # depth => frame'[d] = frame[d]
    BY <1>2, <2>1, <2>2
  <2> QED
    BY <1>2, <1>4, <1>6, <1>9, <1>11, <2>1, <2>2, <2>3
<1> QED
  BY <1>10, <1>11

\* The stack of callbacks and what a callback writes into the block.
LEMMA TypeOfCallbackSteps == ASSUME TypeOK, Enter \/ CallbackStep PROVE TypeOK'
<1> USE Untouched
<1>0. GameOK
  BY DEF TypeOK
<1>1. CASE Enter
  <2>1. wakes' \in 0 .. MaxWakes
    BY <1>1, TradeTestAssumption DEF Enter, TypeOK, GameOK, TradeTestAssumption
  <2>2. frame' \in [Depths -> Frames] /\ depth' \in 0 .. MaxDepth
    <3>1. CASE requestSeq = 0 \/ requestSeq = completedSeq
      BY <1>0, <1>1, <3>1 DEF Enter, GameOK
    <3>2. CASE ~(requestSeq = 0 \/ requestSeq = completedSeq)
      <4>1. depth + 1 \in Depths /\ depth' = depth + 1
        BY <1>1, <3>2, TradeTestAssumption DEF Enter, TypeOK, GameOK, TradeTestAssumption
      <4>2. [NoFrame EXCEPT !.seq = requestSeq] \in Frames
        BY BlankTyped DEF TypeOK, BlockOK, Frames
      <4>3. frame' \in [Depths -> Frames]
        BY <1>0, <1>1, <3>2, <4>1, <4>2, FrameReplaced DEF Enter
      <4> QED
        BY <4>1, <4>3, TradeTestAssumption DEF TradeTestAssumption
    <3> QED
      BY <3>1, <3>2
  <2>3. GameOK'
    BY <1>1, <2>1, <2>2 DEF Enter, TypeOK, GameOK
  <2> QED
    BY <1>1, <2>3 DEF Enter, TypeOK, past
<1>2. CASE ClaimBusy
  <2>1. frame' \in [Depths -> Frames]
    BY <1>0, <1>2, TopTyped, FrameMoved DEF ClaimBusy, Pcs
  <2>2. GameOK' /\ BlockOK'
    BY <1>2, <2>1 DEF ClaimBusy, TypeOK, GameOK, BlockOK
  <2> QED
    BY <1>2, <2>2 DEF ClaimBusy, TypeOK, past
<1>3. CASE BusyReturn
  <2>1. frame' \in [Depths -> Frames] /\ depth' \in 0 .. MaxDepth
    BY <1>0, <1>3, FrameLeft DEF BusyReturn
  <2>2. GameOK'
    BY <1>3, <2>1 DEF BusyReturn, TypeOK, GameOK
  <2> QED
    BY <1>3, <2>2 DEF BusyReturn, TypeOK, past
<1>4. CASE CopyCommand \/ CopyRole
  <2>1. frame' \in [Depths -> Frames] /\ written' \in BOOLEAN
    BY <1>4, CopyTyped
  <2>2. GameOK' /\ FactsOK'
    BY <1>4, <2>1 DEF CopyCommand, CopyRole, TypeOK, GameOK, FactsOK
  <2> QED
    BY <1>4, <2>2 DEF CopyCommand, CopyRole, TypeOK
<1>5. CASE Respond \/ Complete
  <2>1. Top.seq \in Nat /\ Top.res \in Responses
    BY <1>0, <1>5, TopTyped DEF Respond, Complete, Frames
  <2>2. BlockOK'
    BY <1>5, <2>1 DEF Respond, Complete, TypeOK, BlockOK
  <2>3. frame' \in [Depths -> Frames]
    BY <1>0, <1>5, TopTyped, FrameMoved, ZenonT(40) DEF Respond, Complete, Pcs
  <2>4. GameOK'
    BY <1>5, <2>3 DEF Respond, Complete, TypeOK, GameOK
  <2> QED
    BY <1>5, <2>2, <2>4 DEF Respond, Complete, TypeOK, past
<1>6. CASE Release
  <2>1. frame' \in [Depths -> Frames] /\ depth' \in 0 .. MaxDepth
    BY <1>0, <1>6, FrameLeft DEF Release
  <2>2. GameOK' /\ BlockOK'
    BY <1>6, <2>1 DEF Release, TypeOK, GameOK, BlockOK
  <2> QED
    BY <1>6, <2>2 DEF Release, TypeOK, past
<1> QED
  BY <1>1, <1>2, <1>3, <1>4, <1>5, <1>6, TypeOfCommands DEF CallbackStep, RunStep

\* Every step keeps the type.
LEMMA TypeStep == TypeOK /\ [Next]_vars => TypeOK'
<1> SUFFICES ASSUME TypeOK, [Next]_vars PROVE TypeOK'
  OBVIOUS
<1> USE Untouched
<1>1. CASE WakeUnhooked
  <2>1. GameOK'
    BY <1>1, TradeTestAssumption DEF WakeUnhooked, TypeOK, GameOK, TradeTestAssumption
  <2> QED
    BY <1>1, <2>1 DEF WakeUnhooked, TypeOK, past
<1>2. CASE UNCHANGED vars
  BY <1>2 DEF vars, past, TypeOK
<1> QED
  BY <1>1, <1>2, TypeOfUserSteps, TypeOfCallSteps, TypeOfCallbackSteps DEF Next

\* Every variable of the window, the block and the hook keeps its type.
THEOREM TypeCorrect == Spec => []TypeOK
BY TypeInitially, TypeStep, PTL DEF Spec

----------------------------------------------------------------------------
(* The callbacks on the stack *)

\* The callback on top goes on from step p to step q.
TopMoves(p, q) ==
  /\ depth \in Depths /\ depth > 0 /\ UNCHANGED depth /\ frame' \in [Depths -> Frames]
  /\ frame[depth].pc = p /\ frame'[depth].pc = q
  /\ frame'[depth].seq = frame[depth].seq /\ frame'[depth].req = frame[depth].req
  /\ frame'[depth].raced = frame[depth].raced
  /\ \A d \in Depths : d # depth => frame'[d] = frame[d]

\* A step that only moves the callback on top.
LEMMA TopMoved ==
  ASSUME TypeOK, NEW p \in Pcs, NEW q \in Pcs, InFrame(p), UNCHANGED depth,
         frame' = [frame EXCEPT ![depth].pc = q]
  PROVE  TopMoves(p, q) /\ frame'[depth].res = frame[depth].res
<1>1. depth \in Depths /\ depth > 0 /\ frame \in [Depths -> Frames] /\ frame[depth].pc = p
  BY TopTyped DEF TypeOK, GameOK, InFrame, Top
<1>2. frame' \in [Depths -> Frames]
  BY <1>1, FrameMoved DEF TypeOK
<1>3. /\ frame'[depth].pc = q /\ frame'[depth].seq = frame[depth].seq
      /\ frame'[depth].req = frame[depth].req /\ frame'[depth].raced = frame[depth].raced
      /\ frame'[depth].res = frame[depth].res
      /\ \A d \in Depths : d # depth => frame'[d] = frame[d]
  BY <1>1 DEF Frames
<1> QED
  BY <1>1, <1>2, <1>3 DEF TopMoves

\* The steps that move the callback on top and leave its response alone.
LEMMA MovesOf ==
  ASSUME TypeOK
  PROVE  /\ ClaimBusy => TopMoves("read", "owned") /\ frame'[depth].res = frame[depth].res
         /\ SelectForTrade => /\ TopMoves("running", "selected")
                              /\ frame'[depth].res = frame[depth].res
         /\ Respond => TopMoves("answered", "responded") /\ frame'[depth].res = frame[depth].res
         /\ Complete => TopMoves("responded", "completed") /\ frame'[depth].res = frame[depth].res
<1>1. ClaimBusy => TopMoves("read", "owned") /\ frame'[depth].res = frame[depth].res
  <2> HAVE ClaimBusy
  <2> QED
    BY TopMoved DEF ClaimBusy, Pcs
<1>2. SelectForTrade => TopMoves("running", "selected") /\ frame'[depth].res = frame[depth].res
  <2> HAVE SelectForTrade
  <2> QED
    BY TopMoved DEF SelectForTrade, Selects, Pcs
<1>3. Respond => TopMoves("answered", "responded") /\ frame'[depth].res = frame[depth].res
  <2> HAVE Respond
  <2> QED
    BY TopMoved DEF Respond, Pcs
<1>4. Complete => TopMoves("responded", "completed") /\ frame'[depth].res = frame[depth].res
  <2> HAVE Complete
  <2> QED
    BY TopMoved DEF Complete, Pcs
<1> QED
  BY <1>1, <1>2, <1>3, <1>4

\* A command that ends: the callback has its response, of its own request.
LEMMA CommandEnds ==
  ASSUME TypeOK, RunStep, ~SelectForTrade
  PROVE  /\ \E p \in {"running", "selected"} : TopMoves(p, "answered")
         /\ frame'[depth].res.of = frame[depth].req
<1>1. PICK p \in {"running", "selected"} : InFrame(p)
  BY RunLeaves
<1>2. PICK res : Ends(res) /\ res.of = Top.req
  BY RunLeaves
<1>3. depth \in Depths /\ depth > 0 /\ frame \in [Depths -> Frames] /\ frame[depth].pc = p
  BY <1>1, TopTyped DEF TypeOK, GameOK, InFrame, Top
<1>4. UNCHANGED depth /\ frame' \in [Depths -> Frames]
  BY RunLeaves, TypeOfCommands DEF TypeOK, GameOK
<1>5. frame' = [frame EXCEPT ![depth].pc = "answered", ![depth].res = res]
  BY <1>2 DEF Ends
<1>6. /\ frame'[depth].pc = "answered" /\ frame'[depth].seq = frame[depth].seq
      /\ frame'[depth].req = frame[depth].req /\ frame'[depth].raced = frame[depth].raced
      /\ frame'[depth].res = res
      /\ \A d \in Depths : d # depth => frame'[d] = frame[d]
  BY <1>3, <1>5 DEF Frames
<1> QED
  BY <1>2, <1>3, <1>4, <1>6 DEF TopMoves, Top

\* A callback that returns is dropped from the stack.
LEMMA FrameDropped ==
  ASSUME TypeOK, BusyReturn \/ Release
  PROVE  /\ depth \in Depths /\ depth > 0 /\ depth' = depth - 1 /\ frame'[depth] = NoFrame
         /\ frame' \in [Depths -> Frames]
         /\ \A d \in Depths : d # depth => frame'[d] = frame[d]
<1>1. PICK p \in {"read", "completed"} : InFrame(p)
  BY DEF BusyReturn, Release
<1>2. depth \in Depths /\ depth > 0 /\ frame \in [Depths -> Frames]
  BY <1>1, TopTyped DEF TypeOK, GameOK, InFrame
<1>3. depth' = depth - 1 /\ frame' = [frame EXCEPT ![depth] = NoFrame]
  BY DEF BusyReturn, Release, LeaveFrame
<1> QED
  BY <1>2, <1>3, BlankTyped

\* A callback that is entered has read nothing but the number.
LEMMA FrameEntered ==
  ASSUME TypeOK, Enter, ~(UNCHANGED <<depth, frame>>)
  PROVE  /\ depth + 1 \in Depths /\ depth' = depth + 1 /\ requestSeq # 0
         /\ requestSeq # completedSeq
         /\ frame' \in [Depths -> Frames]
         /\ frame'[depth + 1] = [NoFrame EXCEPT !.seq = requestSeq]
         /\ frame'[depth + 1].pc = "read" /\ frame'[depth + 1].seq = requestSeq
         /\ frame'[depth + 1].req = NoRequest /\ frame'[depth + 1].res = NoResponse
         /\ \A d \in Depths : d # depth + 1 => frame'[d] = frame[d]
         /\ depth > 0 => frame[depth].pc \in {"running", "selected"}
<1>1. /\ depth < MaxDepth /\ depth' = depth + 1 /\ requestSeq # 0 /\ requestSeq # completedSeq
      /\ frame' = [frame EXCEPT ![depth + 1] = [NoFrame EXCEPT !.seq = requestSeq]]
      /\ depth > 0 => frame[depth].pc \in {"running", "selected"}
  BY DEF Enter, Top
<1>2. depth + 1 \in Depths /\ frame \in [Depths -> Frames] /\ requestSeq \in Nat
  BY <1>1, TradeTestAssumption DEF TypeOK, GameOK, BlockOK, TradeTestAssumption
<1>3. [NoFrame EXCEPT !.seq = requestSeq] \in Frames
  BY <1>2, BlankTyped DEF Frames
<1>4. /\ [NoFrame EXCEPT !.seq = requestSeq].pc = "read"
      /\ [NoFrame EXCEPT !.seq = requestSeq].seq = requestSeq
      /\ [NoFrame EXCEPT !.seq = requestSeq].req = NoRequest
      /\ [NoFrame EXCEPT !.seq = requestSeq].res = NoResponse
  BY DEF NoFrame
<1> QED
  BY <1>1, <1>2, <1>3, <1>4

\* A callback runs its command to the end before the one below it goes on, and
\* who has set the busy flag is on the stack.
Nested ==
  /\ \A d \in Depths : d < depth => frame[d].pc \in {"running", "selected"}
  /\ bridgeBusy = 1 => \E d \in Depths : d <= depth /\ frame[d].pc # "read"

\* At the start the stack is empty.
LEMMA NestedInitially == Init => Nested
<1> SUFFICES ASSUME Init PROVE Nested
  OBVIOUS
<1>1. depth = 0 /\ bridgeBusy = 0 /\ \A d \in Depths : d \in Nat /\ d > 0
  BY DEF Init
<1> QED
  BY <1>1 DEF Nested

\* Callbacks are entered and left at the top of the stack only.
LEMMA NestedStep == TypeOK /\ Nested /\ [Next]_vars => Nested'
<1> SUFFICES ASSUME TypeOK, Nested, [Next]_vars PROVE Nested'
  OBVIOUS
<1>0. frame \in [Depths -> Frames] /\ depth \in Nat /\ \A d \in Depths : d \in Nat /\ d > 0
  BY TradeTestAssumption DEF TypeOK, GameOK, TradeTestAssumption
<1>1. ASSUME UNCHANGED <<depth, frame>>, bridgeBusy' \in {0, bridgeBusy}
      PROVE  Nested'
  BY <1>1 DEF Nested
<1>2. CASE UserStep \/ TimerElapses \/ PollTradeUi
  <2>1. UNCHANGED <<depth, frame, bridgeBusy>>
    <3> USE DEF block, game
    <3>1. CASE ScanClients \/ ChoosePlayer \/ Probe \/ QueryPlayers \/ NoPlayerChosen
      BY <3>1 DEF ScanClients, ChoosePlayer, Probe, QueryPlayers, NoPlayerChosen
    <3>2. CASE SelectTargetOnly \/ SendTrade \/ CheckTradeUi \/ TimerElapses \/ PollTradeUi
      BY <3>2 DEF SelectTargetOnly, SendTrade, CheckTradeUi, TimerElapses, PollTradeUi
    <3> QED
      BY <1>2, <3>1, <3>2 DEF UserStep
  <2> QED
    BY <1>1, <2>1
<1>3. CASE CallStep
  <2> USE DEF block, game
  <2>1. CASE AlreadyAttached \/ Attach \/ AttachFails \/ HookFails
    BY <1>1, <2>1 DEF AlreadyAttached, Attach, AttachFails, HookFails, ZeroBlock
  <2>2. CASE WriteCommand \/ WriteRole \/ Publish
    BY <1>1, <2>2 DEF WriteCommand, WriteRole, Store, Publish
  <2>3. CASE Post \/ PostFails \/ Return \/ Timeout
    BY <1>1, <2>3 DEF Post, PostFails, Return, Timeout
  <2> QED
    BY <1>3, <2>1, <2>2, <2>3 DEF CallStep
<1>4. CASE WakeUnhooked \/ UNCHANGED vars
  BY <1>1, <1>4 DEF WakeUnhooked, vars, block, game
<1>5. CASE Enter
  <2>1. CASE UNCHANGED <<depth, frame>>
    BY <1>1, <1>5, <2>1 DEF Enter, block
  <2>2. CASE ~(UNCHANGED <<depth, frame>>)
    <3>1. /\ depth' = depth + 1 /\ \A d \in Depths : d # depth + 1 => frame'[d] = frame[d]
          /\ depth > 0 => frame[depth].pc \in {"running", "selected"}
      BY <1>5, <2>2, FrameEntered
    <3>2. bridgeBusy' = bridgeBusy
      BY <1>5 DEF Enter, block
    <3>3. \A d \in Depths : d < depth + 1 => frame'[d] = frame[d] /\ (d = depth \/ d < depth)
      BY <1>0, <3>1
    <3>4. \A d \in Depths : d <= depth => d <= depth + 1 /\ d < depth + 1
      BY <1>0
    <3> QED
      BY <1>0, <3>1, <3>2, <3>3, <3>4 DEF Nested
  <2> QED
    BY <2>1, <2>2
<1>6. CASE CallbackStep
  <2>1. ASSUME depth \in Depths, UNCHANGED depth, \A d \in Depths : d # depth => frame'[d] = frame[d],
               frame'[depth].pc # "read"
        PROVE  Nested'
    <3>1. depth <= depth /\ \A d \in Depths : d < depth => d # depth
      BY <1>0
    <3> QED
      BY <2>1, <3>1 DEF Nested
  <2>2. CASE ClaimBusy \/ Respond \/ Complete \/ SelectForTrade
    BY <2>1, <2>2, MovesOf DEF TopMoves
  <2>3. CASE CopyCommand \/ CopyRole
    BY <2>1, <2>3, CopyTyped DEF CopyCommand, CopyRole
  <2>4. CASE RunStep /\ ~SelectForTrade
    BY <2>1, <2>4, CommandEnds DEF TopMoves
  <2>5. CASE BusyReturn \/ Release
    <3>1. /\ depth' = depth - 1 /\ \A d \in Depths : d # depth => frame'[d] = frame[d]
          /\ bridgeBusy' = 0 \/ (bridgeBusy' = bridgeBusy /\ frame[depth].pc = "read")
      BY <2>5, FrameDropped DEF BusyReturn, Release, InFrame, Top, block
    <3>2. \A d \in Depths : /\ d <= depth /\ d # depth => d <= depth - 1 /\ d < depth
                            /\ d < depth - 1 => d < depth
                            /\ d < depth => frame'[d] = frame[d]
      BY <1>0, <3>1
    <3> QED
      BY <3>1, <3>2 DEF Nested
  <2> QED
    BY <1>6, <2>2, <2>3, <2>4, <2>5 DEF CallbackStep, RunStep
<1> QED
  BY <1>2, <1>3, <1>4, <1>5, <1>6 DEF Next

----------------------------------------------------------------------------
(* A packet goes only to the player of its click *)

\* A trade command carries its click; with a role that is zero or the one chosen
\* at that click it is harmless.
Counted(r) == r.cmd = "SelectAndTrade" => r.click \in 1 .. clicks
Suits(cmd, click, role) ==
  cmd = "SelectAndTrade" => click \in 1 .. clicks /\ role \in {NoRole, clickRole[click]}
Tagged(r) == Suits(r.cmd, r.click, r.role)

\* While the trade button's handler runs, the player it was pressed for stays
\* selected; the field it has stored is that of its click.
Chosen ==
  /\ cpc = "idle" => handler = "none"
  /\ handler = "SendTrade" => clicks \in Clicks /\ target = clickRole[clicks]
  /\ cpc = "role" => /\ request.cmd = CommandOf[handler]
                     /\ handler = "SendTrade" => request.click = clicks
  /\ cpc = "command" /\ handler = "SendTrade" => request.role = target

\* A hook between its two loads, with no store since the first one: the field
\* it has and the one it is about to load belong together.
HalfCopied ==
  ~written =>
    /\ InFrame("copyRole") => /\ cpc \notin {"command", "role"}
                              /\ Suits(Top.req.cmd, Top.req.click, request.role)
    /\ InFrame("copyCommand") => /\ cpc \notin {"command", "role"}
                                 /\ Suits(request.cmd, request.click, Top.req.role)

\* What a callback has copied, and what it has proved of it.
CopiedOK(f) ==
  /\ Counted(f.req)
  /\ f.pc \notin {"read", "owned", "copyCommand", "copyRole"} /\ ~f.raced => Tagged(f.req)
  /\ f.pc = "selected" => f.req.cmd = "SelectAndTrade" /\ f.req.role # NoRole

TargetInv ==
  /\ Counted(request)
  /\ cpc \notin {"command", "role"} => Tagged(request)
  /\ Chosen /\ HalfCopied
  /\ \A d \in Depths : CopiedOK(frame[d])

\* At the start no player is chosen and nothing is requested.
LEMMA TargetInitially == Init => TargetInv
BY DEF Init, TargetInv, Counted, Tagged, Suits, Chosen, HalfCopied, CopiedOK, InFrame, Top,
       NoRequest, NoFrame

\* The copy of a request that nobody writes is the request, or what is left of
\* it after the block was zeroed.
LEMMA TargetOfCopies ==
  ASSUME TypeOK, TargetInv, CopyCommand \/ CopyRole
  PROVE  TargetInv'
<1> USE DEF InFrame, Top
<1>1. UNCHANGED <<clicks, clickRole, request, target, handler, cpc>>
  BY DEF CopyCommand, CopyRole, app, client, block
<1>2. Counted(request)' /\ (cpc \notin {"command", "role"} => Tagged(request))' /\ Chosen'
  BY <1>1 DEF TargetInv, Counted, Tagged, Suits, Chosen
<1>3. \A d \in Depths : d # depth => CopiedOK(frame[d])'
  BY <1>1, CopyTyped DEF TargetInv, CopiedOK, Counted, Tagged, Suits
<1>4. depth \in Depths /\ depth' = depth /\ depth > 0
  BY CopyTyped DEF CopyCommand, CopyRole
<1>5. CopiedOK(frame[depth]) /\ Counted(request)
  BY <1>4 DEF TargetInv
<1>6. Counted(frame[depth].req)'
  BY <1>1, <1>4, <1>5, CopyTyped DEF CopiedOK, Counted
<1>7. CASE frame[depth].pc = "owned"
  <2>1. frame'[depth].pc \in {"copyRole", "copyCommand"} /\ written' = (cpc \in {"command", "role"})
    BY <1>7, CopyTyped
  <2>2. HalfCopied'
    <3>1. ASSUME ~written' PROVE cpc \notin {"command", "role"} /\ Tagged(request)
      BY <2>1, <3>1 DEF TargetInv
    <3>2. ASSUME ~written', frame'[depth].pc = "copyRole"
          PROVE  /\ frame'[depth].req.cmd = request.cmd
                 /\ frame'[depth].req.click = request.click
      BY <1>7, <3>2, CopyTyped
    <3>3. ASSUME ~written', frame'[depth].pc = "copyCommand"
          PROVE  frame'[depth].req.role = request.role
      BY <1>7, <3>3, CopyTyped
    <3> QED
      BY <1>1, <1>4, <3>1, <3>2, <3>3 DEF HalfCopied, Tagged, Suits
  <2>3. CopiedOK(frame[depth])'
    BY <1>4, <1>6, <2>1 DEF CopiedOK
  <2> QED
    BY <1>2, <1>3, <1>4, <2>2, <2>3 DEF TargetInv
<1>8. CASE frame[depth].pc # "owned"
  <2>1. frame'[depth].pc = "running" /\ frame'[depth].raced = written
    BY <1>8, CopyTyped
  <2>2. HalfCopied'
    BY <1>4, <2>1 DEF HalfCopied
  <2>3. ASSUME ~written PROVE Tagged(frame[depth].req)'
    <3>1. CASE CopyCommand
      <4>1. /\ frame[depth].pc = "copyCommand" /\ frame'[depth].req.cmd = request.cmd
            /\ frame'[depth].req.click = request.click
            /\ frame'[depth].req.role = frame[depth].req.role
        BY <1>8, <3>1, CopyTyped
      <4> QED
        BY <1>1, <1>4, <2>3, <4>1 DEF TargetInv, HalfCopied, Tagged, Suits
    <3>2. CASE CopyRole
      <4>1. /\ frame[depth].pc = "copyRole" /\ frame'[depth].req.role = request.role
            /\ frame'[depth].req.cmd = frame[depth].req.cmd
            /\ frame'[depth].req.click = frame[depth].req.click
        BY <1>8, <3>2, CopyTyped
      <4> QED
        BY <1>1, <1>4, <2>3, <4>1 DEF TargetInv, HalfCopied, Tagged, Suits
    <3> QED
      BY <3>1, <3>2
  <2>4. CopiedOK(frame[depth])'
    BY <1>4, <1>6, <2>1, <2>3 DEF CopiedOK
  <2> QED
    BY <1>2, <1>3, <1>4, <2>2, <2>4 DEF TargetInv
<1> QED
  BY <1>7, <1>8

\* The other steps of a callback keep what it copied, and leave no copy half done.
LEMMA TargetOfFrames ==
  ASSUME TypeOK, Nested, TargetInv, Enter \/ CallbackStep
  PROVE  TargetInv'
<1> USE DEF InFrame, Top
<1>0. depth \in Nat /\ \A d \in Depths : d \in Nat /\ d > 0
  BY TradeTestAssumption DEF TypeOK, GameOK, TradeTestAssumption
<1>1. UNCHANGED <<clicks, clickRole, request, target, handler, cpc>>
  BY CallbackLeaves DEF app, client
<1>2. Counted(request)' /\ (cpc \notin {"command", "role"} => Tagged(request))' /\ Chosen'
  BY <1>1 DEF TargetInv, Counted, Tagged, Suits, Chosen
<1>3. \A f : CopiedOK(f) => CopiedOK(f)'
  BY <1>1 DEF CopiedOK, Counted, Tagged, Suits
<1>4. CopiedOK(NoFrame) /\ \A f : f.pc = "read" /\ f.req = NoRequest => CopiedOK(f)
  BY DEF CopiedOK, Counted, NoFrame, NoRequest
<1>5. ASSUME depth \in Depths, \A d \in Depths : d # depth => frame'[d] = frame[d],
             CopiedOK(frame'[depth]),
             depth' > 0 => frame'[depth'].pc \notin {"copyCommand", "copyRole"}
      PROVE  TargetInv'
  <2>1. \A d \in Depths : CopiedOK(frame'[d])
    BY <1>5 DEF TargetInv
  <2>2. HalfCopied'
    BY <1>5 DEF HalfCopied
  <2>3. \A d \in Depths : CopiedOK(frame[d])'
    BY <1>1, <2>1 DEF CopiedOK, Counted, Tagged, Suits
  <2> QED
    BY <1>2, <2>2, <2>3 DEF TargetInv
<1>6. CASE Enter
  <2>1. CASE UNCHANGED <<depth, frame>>
    <3>1. written' = written
      BY <1>6 DEF Enter, past, facts
    <3> QED
      BY <1>1, <1>2, <2>1, <3>1 DEF TargetInv, HalfCopied, CopiedOK, Counted, Tagged, Suits
  <2>2. CASE ~(UNCHANGED <<depth, frame>>)
    <3>1. /\ depth' = depth + 1 /\ frame'[depth + 1].pc = "read" /\ frame'[depth + 1].req = NoRequest
          /\ \A d \in Depths : d # depth + 1 => frame'[d] = frame[d]
      BY <1>6, <2>2, FrameEntered
    <3>2. \A d \in Depths : CopiedOK(frame'[d])
      BY <1>4, <3>1 DEF TargetInv
    <3>3. \A d \in Depths : CopiedOK(frame[d])'
      BY <1>1, <3>2 DEF CopiedOK, Counted, Tagged, Suits
    <3>4. HalfCopied'
      BY <3>1 DEF HalfCopied
    <3> QED
      BY <1>2, <3>3, <3>4 DEF TargetInv
  <2> QED
    BY <2>1, <2>2
<1>7. CASE ClaimBusy \/ Respond \/ Complete \/ (RunStep /\ ~SelectForTrade)
  <2>1. PICK p \in Pcs, q \in {"owned", "answered", "responded", "completed"} :
          TopMoves(p, q) /\ (q = "owned" \/ p \in {"running", "selected", "answered", "responded"})
    BY <1>7, MovesOf, CommandEnds DEF Pcs
  <2>2. CopiedOK(frame'[depth])
    BY <2>1 DEF TopMoves, TargetInv, CopiedOK
  <2> QED
    BY <1>5, <2>1, <2>2 DEF TopMoves
<1>8. CASE SelectForTrade
  <2>1. TopMoves("running", "selected") /\ Top.req.cmd = "SelectAndTrade" /\ Top.req.role # NoRole
    BY <1>8, MovesOf DEF SelectForTrade, Selects
  <2>2. CopiedOK(frame'[depth])
    BY <2>1 DEF TopMoves, TargetInv, CopiedOK
  <2> QED
    BY <1>5, <2>1, <2>2 DEF TopMoves
<1>9. CASE BusyReturn \/ Release
  <2>1. /\ depth \in Depths /\ depth > 0 /\ depth' = depth - 1 /\ frame'[depth] = NoFrame
        /\ \A d \in Depths : d # depth => frame'[d] = frame[d]
    BY <1>9, FrameDropped
  <2>2. ASSUME depth' > 0 PROVE frame'[depth'].pc \in {"running", "selected"}
    <3>1. depth' \in Depths /\ depth' < depth /\ depth' # depth
      BY <1>0, <2>1, <2>2, TradeTestAssumption DEF TradeTestAssumption
    <3> QED
      BY <2>1, <3>1 DEF Nested
  <2> QED
    BY <1>4, <1>5, <2>1, <2>2
<1>10. CASE CopyCommand \/ CopyRole
  BY <1>10, TargetOfCopies
<1> QED
  BY <1>6, <1>7, <1>8, <1>9, <1>10 DEF CallbackStep, RunStep


\* What has been said of a click stays true: a click keeps its player.
LEMMA ClicksKept ==
  ASSUME TypeOK, TargetInv,
         \A c \in 1 .. clicks : c \in 1 .. clicks' /\ clickRole'[c] = clickRole[c],
         UNCHANGED <<depth, frame, written>>, cpc' \notin {"command", "role"},
         request' = NoRequest \/ (request' = request /\ Tagged(request))
  PROVE  /\ Counted(request)' /\ Tagged(request)' /\ HalfCopied'
         /\ \A d \in Depths : CopiedOK(frame[d])'
<1>1. \A d \in Depths : CopiedOK(frame[d])'
  BY DEF TargetInv, CopiedOK, Counted, Tagged, Suits
<1>2. CASE request' = request /\ Tagged(request)
  BY <1>1, <1>2 DEF TargetInv, HalfCopied, Counted, Tagged, Suits, InFrame, Top
<1>3. CASE request' = NoRequest
  <2>1. Counted(request)' /\ Tagged(request)'
    BY <1>3 DEF Counted, Tagged, Suits, NoRequest
  <2>2. InFrame("copyRole") => Counted(Top.req)
    BY TopTyped DEF TargetInv, CopiedOK, InFrame, Top, TypeOK
  <2>3. HalfCopied'
    BY <1>3, <2>2 DEF HalfCopied, Counted, Suits, NoRequest, InFrame, Top
  <2> QED
    BY <1>1, <2>1, <2>3
<1> QED
  BY <1>2, <1>3

\* The window stores nothing itself; a click adds its number and its player.
LEMMA TargetOfUser ==
  ASSUME TypeOK, TargetInv, UserStep \/ TimerElapses \/ PollTradeUi
  PROVE  TargetInv'
<1> USE DEF UserMayCall, Begin, block, game, facts, past, client
<1>1. UNCHANGED <<request, depth, frame, written>>
  <2>1. CASE ScanClients \/ ChoosePlayer \/ Probe \/ QueryPlayers \/ NoPlayerChosen
    BY <2>1 DEF ScanClients, ChoosePlayer, Probe, QueryPlayers, NoPlayerChosen
  <2>2. CASE SelectTargetOnly \/ SendTrade \/ CheckTradeUi \/ TimerElapses \/ PollTradeUi
    BY <2>2 DEF SelectTargetOnly, SendTrade, CheckTradeUi, TimerElapses, PollTradeUi
  <2> QED
    BY <2>1, <2>2 DEF UserStep
<1>2. ASSUME cpc' \notin {"command", "role"}, cpc \notin {"command", "role"}, Chosen',
             \A c \in 1 .. clicks : c \in 1 .. clicks' /\ clickRole'[c] = clickRole[c]
      PROVE  TargetInv'
  <2>1. Tagged(request)
    BY <1>2 DEF TargetInv
  <2>2. /\ \A d \in Depths : CopiedOK(frame[d])'
        /\ Counted(request)' /\ Tagged(request)' /\ HalfCopied'
    BY <1>1, <1>2, <2>1, ClicksKept
  <2> QED
    BY <1>2, <2>2 DEF TargetInv
<1>3. CASE SendTrade
  <2>1. clicks \in Nat /\ clicks + 1 \in Clicks /\ clickRole \in [Clicks -> Roles \cup {NoRole}]
    BY <1>3, TradeTestAssumption DEF SendTrade, TypeOK, FactsOK, TradeTestAssumption
  <2>2. /\ clicks' = clicks + 1 /\ clickRole' = [clickRole EXCEPT ![clicks + 1] = target]
        /\ target' = target /\ handler' = "SendTrade" /\ cpc' = "attach" /\ cpc = "idle"
    BY <1>3 DEF SendTrade
  <2>3. \A c \in 1 .. clicks : c \in 1 .. clicks' /\ clickRole'[c] = clickRole[c]
    BY <2>1, <2>2
  <2>4. clicks' \in Clicks /\ clickRole'[clicks'] = target'
    BY <2>1, <2>2
  <2>5. Chosen'
    BY <2>2, <2>4 DEF Chosen
  <2> QED
    BY <1>2, <2>2, <2>3, <2>5
<1>4. CASE TimerElapses
  <2>1. UNCHANGED <<clicks, clickRole, handler, cpc, target>>
    BY <1>4 DEF TimerElapses
  <2> QED
    BY <1>1, <2>1 DEF TargetInv, Counted, Tagged, Suits, Chosen, HalfCopied, CopiedOK, InFrame, Top
<1>5. CASE ScanClients \/ ChoosePlayer \/ NoPlayerChosen
  <2>1. UNCHANGED <<clicks, clickRole, handler, cpc>> /\ cpc = "idle"
    BY <1>5 DEF ScanClients, ChoosePlayer, NoPlayerChosen
  <2>2. Chosen'
    BY <2>1 DEF TargetInv, Chosen
  <2> QED
    BY <1>2, <2>1, <2>2
<1>6. CASE Probe \/ QueryPlayers \/ SelectTargetOnly \/ CheckTradeUi \/ PollTradeUi
  <2>1. /\ UNCHANGED <<clicks, clickRole>> /\ handler' # "SendTrade"
        /\ cpc' = "attach" /\ cpc = "idle"
    BY <1>6 DEF Probe, QueryPlayers, SelectTargetOnly, CheckTradeUi, PollTradeUi
  <2>2. Chosen'
    BY <2>1 DEF Chosen
  <2> QED
    BY <1>2, <2>1, <2>2
<1> QED
  BY <1>3, <1>4, <1>5, <1>6 DEF UserStep

\* A store puts the field of the handler's own click; the two fields belong
\* together again when the second one is stored.
LEMMA TargetOfStores ==
  ASSUME TypeOK, TargetInv, WriteCommand \/ WriteRole
  PROVE  TargetInv'
<1>1. /\ UNCHANGED <<clicks, clickRole, depth, frame, target, handler>>
      /\ written' = (written \/ InFrame("copyCommand") \/ InFrame("copyRole"))
  BY DEF WriteCommand, WriteRole, Store, app, game
<1>2. /\ \A d \in Depths : CopiedOK(frame[d])'
      /\ HalfCopied'
  BY <1>1 DEF TargetInv, CopiedOK, Counted, Tagged, Suits, HalfCopied, InFrame, Top
<1>3. handler \in Handlers /\ Counted(request)
  BY DEF TypeOK, ClientOK, TargetInv
<1>4. handler = "SendTrade" => clicks \in 1 .. clicks /\ target = clickRole[clicks]
  BY TradeTestAssumption DEF TargetInv, Chosen, TradeTestAssumption
<1>5. CASE WriteCommand
  <2>1. /\ request'.cmd = CommandOf[handler]
        /\ handler = "SendTrade" => request'.click = clicks
        /\ request'.role = request.role \/ cpc = "write"
    BY <1>5, StoreTyped
  <2>2. request'.cmd = "SelectAndTrade" => handler = "SendTrade" /\ request'.click = clicks
    BY <1>3, <2>1, CommandTyped
  <2>3. Counted(request)'
    BY <1>1, <1>4, <2>2 DEF Counted
  <2>4. CASE cpc = "write"
    <3>1. cpc' = "role"
      BY <1>5, <2>4 DEF WriteCommand, SecondStore
    <3>2. Chosen'
      BY <1>1, <1>4, <2>1, <3>1 DEF TargetInv, Chosen
    <3> QED
      BY <1>2, <2>3, <3>1, <3>2 DEF TargetInv
  <2>5. CASE cpc # "write"
    <3>1. cpc = "command" /\ cpc' = "publish"
      BY <1>5, <2>5 DEF WriteCommand, FirstStore, SecondStore
    <3>2. handler = "SendTrade" => request'.role = clickRole[clicks]
      BY <1>4, <2>1, <3>1 DEF TargetInv, Chosen
    <3>3. Tagged(request)'
      BY <1>1, <1>4, <2>2, <3>2 DEF Tagged, Suits
    <3>4. Chosen'
      BY <1>1, <3>1 DEF TargetInv, Chosen
    <3> QED
      BY <1>2, <2>3, <3>3, <3>4 DEF TargetInv
  <2> QED
    BY <2>4, <2>5
<1>6. CASE WriteRole
  <2>1. /\ handler = "SendTrade" => request'.role = target
        /\ \/ request'.cmd = request.cmd /\ request'.click = request.click
           \/ request'.cmd = "None" /\ cpc = "write"
    BY <1>6, StoreTyped
  <2>2. Counted(request)'
    BY <1>1, <1>3, <2>1 DEF Counted
  <2>3. CASE cpc = "write"
    <3>1. cpc' = "command"
      BY <1>6, <2>3 DEF WriteRole, SecondStore
    <3>2. Chosen'
      BY <1>1, <2>1, <3>1 DEF TargetInv, Chosen
    <3> QED
      BY <1>2, <2>2, <3>1, <3>2 DEF TargetInv
  <2>4. CASE cpc # "write"
    <3>1. cpc = "role" /\ cpc' = "publish"
      BY <1>6, <2>4 DEF WriteRole, FirstStore, SecondStore
    <3>2. /\ request.cmd = CommandOf[handler]
          /\ handler = "SendTrade" => request.click = clicks
      BY <3>1 DEF TargetInv, Chosen
    <3>3. request'.cmd = "SelectAndTrade" =>
            request'.click \in 1 .. clicks /\ request'.role = clickRole[request'.click]
      BY <1>3, <1>4, <2>1, <2>4, <3>2, CommandTyped
    <3>4. Tagged(request)'
      BY <1>1, <3>3 DEF Tagged, Suits
    <3>5. Chosen'
      BY <1>1, <3>1 DEF TargetInv, Chosen
    <3> QED
      BY <1>2, <2>2, <3>4, <3>5 DEF TargetInv
  <2> QED
    BY <2>3, <2>4
<1> QED
  BY <1>5, <1>6

\* The other steps of a call at most zero the request.
LEMMA TargetOfCalls == ASSUME TypeOK, TargetInv, CallStep PROVE TargetInv'
<1> USE DEF block, game, facts, past
<1>1. ASSUME UNCHANGED <<clicks, clickRole, depth, frame, written>>, Chosen',
             request' = NoRequest \/ (request' = request /\ cpc \notin {"command", "role"}),
             cpc' \notin {"command", "role"}
      PROVE  TargetInv'
  <2>1. cpc \notin {"command", "role"} => Tagged(request)
    BY DEF TargetInv
  <2>2. \A c \in 1 .. clicks : c \in 1 .. clicks' /\ clickRole'[c] = clickRole[c]
    BY <1>1
  <2>3. /\ \A d \in Depths : CopiedOK(frame[d])'
        /\ Counted(request)' /\ Tagged(request)' /\ HalfCopied'
    BY <1>1, <2>1, <2>2, ClicksKept
  <2> QED
    BY <1>1, <2>3 DEF TargetInv
<1>2. CASE AlreadyAttached \/ Attach \/ Publish \/ Post
  <2>1. /\ UNCHANGED <<clicks, clickRole, depth, frame, written, handler, target>>
        /\ request' = NoRequest \/ (request' = request /\ cpc \notin {"command", "role"})
        /\ cpc' \in {"write", "post", "waiting"}
    BY <1>2 DEF AlreadyAttached, Attach, ZeroBlock, Publish, Post, app
  <2>2. Chosen'
    BY <2>1 DEF TargetInv, Chosen
  <2> QED
    BY <1>1, <2>1, <2>2
<1>3. CASE WriteCommand \/ WriteRole
  BY <1>3, TargetOfStores
<1>4. CASE AttachFails \/ HookFails \/ PostFails \/ Return \/ Timeout
  <2>1. /\ UNCHANGED <<clicks, clickRole, depth, frame, written>>
        /\ request' = NoRequest \/ (request' = request /\ cpc \notin {"command", "role"})
        /\ handler' = "none" /\ cpc' = "idle"
    BY <1>4 DEF AttachFails, HookFails, ZeroBlock, PostFails, Return, Timeout,
                AfterFailure, AfterAnswer, Leave
  <2>2. Chosen'
    BY <2>1 DEF Chosen
  <2> QED
    BY <1>1, <2>1, <2>2
<1> QED
  BY <1>2, <1>3, <1>4 DEF CallStep

\* The invariants of the stack and of the copies hold in every reachable state.
LEMMA TargetAlways == Spec => [](Nested /\ TargetInv)
<1>1. TypeOK /\ Nested /\ TargetInv /\ [Next]_vars => TargetInv'
  <2> SUFFICES ASSUME TypeOK, Nested, TargetInv, [Next]_vars PROVE TargetInv'
    OBVIOUS
  <2>1. CASE WakeUnhooked \/ UNCHANGED vars
    <3>1. UNCHANGED <<handler, cpc, target, request, depth, frame, written, clicks, clickRole>>
      BY <2>1 DEF WakeUnhooked, vars, app, client, block, game, facts, past
    <3> QED
      BY <3>1 DEF TargetInv, Counted, Tagged, Suits, Chosen, HalfCopied, CopiedOK, InFrame, Top
  <2> QED
    BY <2>1, TargetOfFrames, TargetOfUser, TargetOfCalls DEF Next
<1> QED
  BY <1>1, TypeCorrect, NestedInitially, NestedStep, TargetInitially, PTL DEF Spec

----------------------------------------------------------------------------
(* The limit of the poll *)

\* The handler that is running owns the count: only its own check may be the
\* last one.
PollInv ==
  /\ cpc = "idle" => handler = "none"
  /\ pollActive => /\ pollCount <= MaxPolls
                   /\ handler # "PollCheck" => pollCount < MaxPolls

\* Between Calls the limit holds, and only PollTradeUi counts.
LEMMA PollOfUser ==
  ASSUME TypeOK, PollInv, UserStep \/ TimerElapses \/ PollTradeUi
  PROVE  PollInv'
<1> USE DEF UserMayCall, Begin, StopTradePoll, PollInv
<1>1. CASE ScanClients \/ NoPlayerChosen
  BY <1>1 DEF ScanClients, NoPlayerChosen, client
<1>2. CASE QueryPlayers \/ SelectTargetOnly \/ SendTrade
  BY <1>2 DEF QueryPlayers, SelectTargetOnly, SendTrade
<1>3. CASE ChoosePlayer \/ TimerElapses
  BY <1>3 DEF ChoosePlayer, TimerElapses, client
<1>4. CASE Probe \/ CheckTradeUi
  BY <1>4 DEF Probe, CheckTradeUi, app
<1>5. CASE PollTradeUi
  <2>1. /\ cpc = "idle" /\ cpc' = "attach" /\ handler' = "PollCheck"
        /\ pollActive' = pollActive /\ pollCount' = pollCount + 1
    BY <1>5 DEF PollTradeUi
  <2>2. pollActive => pollCount + 1 <= MaxPolls
    BY <2>1, TradeTestAssumption DEF TypeOK, AppOK, TradeTestAssumption
  <2> QED
    BY <2>1, <2>2
<1> QED
  BY <1>1, <1>2, <1>3, <1>4, <1>5 DEF UserStep

\* A handler that ends leaves a poll only below the limit.
LEMMA PollOfEnds ==
  ASSUME TypeOK, PollInv, AfterFailure \/ AfterAnswer, UNCHANGED attached
  PROVE  PollInv'
<1>1. handler' = "none" /\ cpc' = "idle"
  BY DEF AfterFailure, AfterAnswer, Leave
<1>2. pollActive' => pollCount' < MaxPolls
  <2>1. CASE StopTradePoll
    BY <2>1 DEF StopTradePoll
  <2>2. CASE UNCHANGED <<pollActive, pollCount>> /\ handler # "PollCheck"
    BY <2>2 DEF PollInv
  <2>3. CASE AfterTrade
    BY <2>3, TradeTestAssumption DEF AfterTrade, TradeTestAssumption
  <2>4. CASE AfterCheck /\ handler = "PollCheck" /\ ~StopTradePoll
    <3>1. UNCHANGED <<pollActive, pollCount>> /\ ~(pollActive /\ pollCount >= MaxPolls)
      BY <2>4 DEF AfterCheck
    <3> QED
      BY <3>1, TradeTestAssumption DEF TypeOK, AppOK, TradeTestAssumption
  <2>5. CASE AfterFailure
    BY <2>1, <2>2, <2>5 DEF AfterFailure
  <2>6. CASE AfterTeamScan \/ AfterOther
    BY <2>2, <2>6 DEF AfterTeamScan, AfterOther
  <2>7. CASE AfterCheck /\ (handler # "PollCheck" \/ StopTradePoll)
    BY <2>1, <2>2, <2>7 DEF AfterCheck
  <2> QED
    BY <2>3, <2>4, <2>5, <2>6, <2>7 DEF AfterAnswer
<1>3. pollCount' \in Nat
  BY FailureTyped, AnswerTyped DEF AppOK
<1> QED
  BY <1>1, <1>2, <1>3, TradeTestAssumption DEF PollInv, TradeTestAssumption

\* Every step keeps the count of polls within its limit.
LEMMA PollStep == TypeOK /\ PollInv /\ [Next]_vars => PollInv'
<1> SUFFICES ASSUME TypeOK, PollInv, [Next]_vars PROVE PollInv'
  OBVIOUS
<1>1. CASE CallStep
  <2>1. CASE AlreadyAttached \/ Attach \/ WriteCommand \/ WriteRole \/ Publish \/ Post
    <3>1. UNCHANGED <<handler, pollActive, pollCount>> /\ cpc' # "idle"
      BY <2>1 DEF AlreadyAttached, Attach, WriteCommand, WriteRole, FirstStore, SecondStore, Store,
                  Publish, Post, app
    <3> QED
      BY <3>1 DEF PollInv
  <2>2. CASE AttachFails \/ HookFails \/ PostFails \/ Return \/ Timeout
    BY <2>2, PollOfEnds DEF AttachFails, HookFails, PostFails, Return, Timeout
  <2> QED
    BY <1>1, <2>1, <2>2 DEF CallStep
<1>2. ASSUME UNCHANGED <<app, client>> PROVE PollInv'
  BY <1>2 DEF app, client, PollInv
<1>3. CASE Enter \/ CallbackStep
  BY <1>2, <1>3, CallbackLeaves
<1>4. CASE WakeUnhooked \/ UNCHANGED vars
  BY <1>2, <1>4 DEF WakeUnhooked, vars
<1> QED
  BY <1>1, <1>3, <1>4, PollOfUser DEF Next

\* The poll stays within its limit, even when a WM_TIMER queued before
\* KillTimer is counted for the next poll (PollTradeUi).
THEOREM PollStaysWithinLimit == Spec => []PollWithinLimit
<1>1. Init => PollInv
  BY DEF Init, PollInv
<1>2. PollInv => PollWithinLimit
  BY DEF PollInv, PollWithinLimit
<1> QED
  BY <1>1, <1>2, PollStep, TypeCorrect, PTL DEF Spec
=============================================================================
