------------------------- MODULE TradeAnswerProofs -------------------------
(***************************************************************************)
(* TradeTest again: whose answer a Call takes, which player is selected    *)
(* when a packet leaves, what the poll for the Trade UI may conclude from  *)
(* an answer, and that, as long as no Call is made while an earlier one is *)
(* unfinished, a click sends one packet, even when the window attaches     *)
(* anew over a callback that still runs.                                   *)
(***************************************************************************)
EXTENDS TradeTestProofs

\* The callback at the bottom of the stack is the only one that can own the
\* busy flag; a callback above it has only been entered.
Stack ==
  /\ depth \in 0 .. 2
  /\ bridgeBusy = 1 <=> depth > 0 /\ frame[1].pc # "read"
  /\ depth = 2 => /\ 2 \in Depths /\ frame[1].pc \in {"running", "selected"}
                  /\ frame[2].pc = "read"

\* Numbers only grow: the Call's, and those the callbacks took from the block.
Numbers ==
  /\ completedSeq <= requestSeq
  /\ cpc \in {"command", "role", "publish"} => next = requestSeq + 1
  /\ cpc \in {"post", "waiting"} => next = requestSeq
  /\ depth > 0 => /\ frame[1].seq <= requestSeq
                  /\ frame[1].pc # "completed" => completedSeq < frame[1].seq

Called == cpc \in {"post", "waiting"}

\* A callback of the current number holds what it has copied of the request of
\* the Call that waits, and answers that request.
Holding(f) ==
  /\ f.pc = "copyRole" => f.req.cmd = request.cmd /\ f.req.click = request.click
  /\ f.pc = "copyCommand" => f.req.role = request.role
  /\ f.pc \notin {"read", "owned", "copyRole", "copyCommand"} => f.req = request

Answering ==
  depth > 0 =>
    /\ Called /\ frame[1].seq = requestSeq => Holding(frame[1])
    /\ frame[1].pc \in {"answered", "responded", "completed"} => frame[1].res.of = frame[1].req
    /\ frame[1].pc \in {"responded", "completed"} => response = frame[1].res

\* The game has the player selected that a packet is about to go to.
Selection == depth > 0 /\ frame[1].pc = "selected" => selected = frame[1].req.role

AnswerInv ==
  fresh => /\ Stack /\ Numbers /\ Answering /\ Selection
           /\ Called /\ completedSeq = next => response.of = request

\* At the start no call is open.
LEMMA AnswerInitially == Init => AnswerInv
BY DEF Init, AnswerInv, Stack, Numbers, Answering, Selection, Called

\* The window's own steps: they leave the callbacks and the block alone.
LEMMA AnswerOfUser ==
  ASSUME TypeOK, AnswerInv, UserStep \/ TimerElapses \/ PollTradeUi
  PROVE  AnswerInv'
<1>1. /\ UNCHANGED <<requestSeq, completedSeq, bridgeBusy, request, response, depth, frame,
                     selected, fresh>>
      /\ UNCHANGED <<cpc, next>> \/ cpc' \in {"idle", "attach"}
  <2> USE DEF block, game, client, past, facts
  <2>1. CASE ScanClients \/ ChoosePlayer \/ Probe \/ QueryPlayers \/ NoPlayerChosen
    BY <2>1 DEF ScanClients, ChoosePlayer, Probe, QueryPlayers, NoPlayerChosen, Begin
  <2>2. CASE SelectTargetOnly \/ SendTrade \/ CheckTradeUi \/ TimerElapses \/ PollTradeUi
    BY <2>2 DEF SelectTargetOnly, SendTrade, CheckTradeUi, TimerElapses, PollTradeUi, Begin
  <2> QED
    BY <2>1, <2>2 DEF UserStep
<1> QED
  BY <1>1 DEF AnswerInv, Stack, Numbers, Answering, Holding, Selection, Called

\* The steps of a call: publishing takes a new number, returning takes the answer.
LEMMA AnswerOfCalls == ASSUME TypeOK, AnswerInv, CallStep PROVE AnswerInv'
<1> USE DEF block, game, past, facts
<1>0. requestSeq \in Nat /\ completedSeq \in Nat /\ depth \in Nat
  BY TradeTestAssumption DEF TypeOK, BlockOK, GameOK, TradeTestAssumption
<1>1. CASE AlreadyAttached \/ AttachFails \/ PostFails \/ Return \/ Timeout
  <2>1. /\ UNCHANGED <<requestSeq, completedSeq, bridgeBusy, request, response, depth, frame,
                       selected, fresh>>
        /\ cpc' \in {"idle", "write"}
    BY <1>1 DEF AlreadyAttached, AttachFails, PostFails, Return, Timeout, AfterFailure,
                AfterAnswer, Leave
  <2> QED
    BY <2>1 DEF AnswerInv, Stack, Numbers, Answering, Selection, Called
<1>2. CASE Attach \/ HookFails
  <2>1. /\ requestSeq' = 0 /\ completedSeq' = 0 /\ bridgeBusy' = 0 /\ cpc' \in {"write", "idle"}
        /\ fresh' = (depth = 0) /\ depth' = depth
    BY <1>2 DEF Attach, HookFails, ZeroBlock, AfterFailure, Leave
  <2>2. fresh' => depth' = 0
    BY <2>1
  <2>3. fresh' => Stack' /\ Numbers' /\ Answering' /\ Selection'
    BY <2>1, <2>2 DEF Stack, Numbers, Answering, Selection
  <2> QED
    BY <2>1, <2>3 DEF AnswerInv, Called
<1>3. CASE WriteCommand \/ WriteRole
  <2>1. /\ UNCHANGED <<requestSeq, completedSeq, bridgeBusy, response, depth, frame, selected, fresh>>
        /\ \/ next' = requestSeq + 1 /\ cpc' \in {"role", "command"}
           \/ next' = next /\ cpc \in {"role", "command"} /\ cpc' = "publish"
    BY <1>3 DEF WriteCommand, WriteRole, FirstStore, SecondStore, Store
  <2> QED
    BY <2>1 DEF AnswerInv, Stack, Numbers, Answering, Selection, Called
<1>4. CASE Publish
  <2>1. /\ UNCHANGED <<completedSeq, bridgeBusy, request, response, depth, frame, selected, fresh, next>>
        /\ requestSeq' = next /\ cpc = "publish" /\ cpc' = "post"
    BY <1>4 DEF Publish
  <2>2. fresh => next = requestSeq + 1
    BY <2>1 DEF AnswerInv, Numbers
  <2>3. depth > 0 => frame[1].seq \in Nat
    BY <1>0, TradeTestAssumption DEF TypeOK, GameOK, Frames, Depths, TradeTestAssumption
  <2>4. fresh => Stack' /\ Numbers' /\ Selection'
    BY <1>0, <2>1, <2>2, <2>3 DEF AnswerInv, Stack, Numbers, Selection
  <2>5. fresh => Answering'
    BY <1>0, <2>1, <2>2, <2>3 DEF AnswerInv, Numbers, Answering
  <2> QED
    BY <1>0, <2>1, <2>2, <2>4, <2>5 DEF AnswerInv, Numbers
<1>5. CASE Post
  <2>1. /\ UNCHANGED <<requestSeq, completedSeq, bridgeBusy, request, response, depth, frame,
                       selected, fresh, next>>
        /\ cpc = "post" /\ cpc' = "waiting"
    BY <1>5 DEF Post
  <2> QED
    BY <2>1 DEF AnswerInv, Stack, Numbers, Answering, Holding, Selection, Called
<1> QED
  BY <1>1, <1>2, <1>3, <1>4, <1>5 DEF CallStep

\* A callback is entered: over a running one it can only leave again.
LEMMA AnswerOfEnter == ASSUME TypeOK, AnswerInv, Enter PROVE AnswerInv'
<1>1. UNCHANGED <<requestSeq, completedSeq, bridgeBusy, request, response, selected, fresh, cpc, next>>
  BY DEF Enter, client, block, past, facts
<1>2. CASE UNCHANGED <<depth, frame>>
  BY <1>1, <1>2 DEF AnswerInv, Stack, Numbers, Answering, Holding, Selection, Called
<1>3. CASE ~(UNCHANGED <<depth, frame>>)
  <2>1. /\ depth' = depth + 1 /\ depth + 1 \in Depths /\ requestSeq # completedSeq
        /\ frame'[depth + 1].pc = "read" /\ frame'[depth + 1].seq = requestSeq
        /\ \A d \in Depths : d # depth + 1 => frame'[d] = frame[d]
        /\ depth > 0 => frame[depth].pc \in {"running", "selected"}
    BY <1>3, FrameEntered
  <2>2. /\ depth \in Nat /\ 1 \in Depths
        /\ requestSeq \in Nat /\ completedSeq \in Nat
    BY TradeTestAssumption DEF TypeOK, GameOK, BlockOK, Depths, TradeTestAssumption
  <2>3. CASE depth = 0
    <3>1. frame'[1].pc = "read" /\ frame'[1].seq = requestSeq /\ depth' = 1
      BY <2>1, <2>3
    <3>2. fresh => Stack' /\ Selection'
      BY <1>1, <2>3, <3>1 DEF AnswerInv, Stack, Selection
    <3>3. fresh => Numbers'
      BY <1>1, <2>1, <2>2, <3>1 DEF AnswerInv, Numbers
    <3>4. Answering'
      BY <3>1 DEF Answering, Holding
    <3> QED
      BY <1>1, <3>2, <3>3, <3>4 DEF AnswerInv, Called
  <2>4. CASE depth > 0
    <3>1. fresh => depth = 1
      BY <2>1, <2>2, <2>4 DEF AnswerInv, Stack
    <3>2. fresh => /\ frame'[1] = frame[1] /\ frame[1].pc \in {"running", "selected"}
                   /\ depth' = 2 /\ 2 \in Depths
      BY <2>1, <2>2, <3>1
    <3>3. fresh => Stack'
      BY <1>1, <2>1, <3>1, <3>2 DEF AnswerInv, Stack
    <3>4. fresh => Numbers' /\ Answering' /\ Selection'
      BY <1>1, <3>1, <3>2 DEF AnswerInv, Numbers, Answering, Holding, Selection, Called
    <3> QED
      BY <1>1, <3>3, <3>4 DEF AnswerInv, Called
  <2> QED
    BY <2>2, <2>3, <2>4
<1> QED
  BY <1>2, <1>3

\* Past its claim, a callback is the only one on the stack.
LEMMA TopIsBottom ==
  ASSUME TypeOK, AnswerInv, fresh, NEW pc, InFrame(pc),
         pc # "read"
  PROVE  /\ depth = 1 /\ 1 \in Depths /\ Top = frame[1] /\ frame[1].pc = pc
         /\ frame \in [Depths -> Frames]
<1>1. depth \in Depths /\ frame \in [Depths -> Frames]
  BY TopTyped DEF TypeOK, GameOK
<1>2. depth # 2
  BY DEF AnswerInv, Stack, InFrame, Top
<1>3. depth = 1
  BY <1>1, <1>2 DEF AnswerInv, Stack, InFrame
<1> QED
  BY <1>1, <1>3 DEF Top, InFrame

\* Two requests with the same fields are the same.
LEMMA SameRequest ==
  ASSUME NEW a \in Requests, NEW b \in Requests,
         a.cmd = b.cmd, a.role = b.role, a.click = b.click
  PROVE  a = b
BY DEF Requests

\* What is left to show of a copy is about the bottom frame.
LEMMA AnswerOfCopies ==
  ASSUME TypeOK, AnswerInv, fresh, CopyCommand \/ CopyRole
  PROVE  /\ Stack' /\ Numbers' /\ Answering' /\ Selection'
         /\ (Called /\ completedSeq = next => response.of = request)'
<1>1. /\ UNCHANGED <<bridgeBusy, requestSeq, completedSeq, request, response, depth, cpc, next>>
      /\ \E p \in {"owned", "copyCommand", "copyRole"} : InFrame(p)
  BY DEF CopyCommand, CopyRole, client, block
<1>2. /\ depth = 1 /\ 1 \in Depths /\ frame[1].pc \in {"owned", "copyCommand", "copyRole"}
      /\ frame \in [Depths -> Frames] /\ frame' \in [Depths -> Frames]
  BY <1>1, TopIsBottom, CopyTyped
<1>3. /\ frame'[1].pc \in {"copyCommand", "copyRole", "running"}
      /\ frame'[1].seq = frame[1].seq
  BY <1>2, CopyTyped
<1>4. Stack' /\ Numbers' /\ Selection'
  BY <1>1, <1>2, <1>3 DEF AnswerInv, Stack, Numbers, Selection
<1>5. ASSUME Called, frame[1].seq = requestSeq PROVE Holding(frame[1])'
  <2>0. Holding(frame[1])
    BY <1>2, <1>5 DEF AnswerInv, Answering
  <2>1. frame'[1].req \in Requests /\ request \in Requests
    BY <1>2 DEF Frames, TypeOK, BlockOK
  <2>2. CASE CopyCommand
    <3>1. /\ frame'[1].req.cmd = request.cmd /\ frame'[1].req.click = request.click
          /\ frame'[1].req.role = frame[1].req.role
          /\ frame[1].pc = "owned" => frame'[1].pc = "copyRole"
          /\ frame[1].pc # "owned" => frame[1].pc = "copyCommand"
      BY <1>2, <2>2, CopyTyped
    <3>2. frame[1].pc # "owned" => frame'[1].req = request
      BY <2>0, <2>1, <3>1, SameRequest DEF Holding
    <3> QED
      BY <1>1, <1>3, <3>1, <3>2 DEF Holding
  <2>3. CASE CopyRole
    <3>1. /\ frame'[1].req.role = request.role /\ frame'[1].req.cmd = frame[1].req.cmd
          /\ frame'[1].req.click = frame[1].req.click
          /\ frame[1].pc = "owned" => frame'[1].pc = "copyCommand"
          /\ frame[1].pc # "owned" => frame[1].pc = "copyRole"
      BY <1>2, <2>3, CopyTyped
    <3>2. frame[1].pc # "owned" => frame'[1].req = request
      BY <2>0, <2>1, <3>1, SameRequest DEF Holding
    <3> QED
      BY <1>1, <1>3, <3>1, <3>2 DEF Holding
  <2> QED
    BY <2>2, <2>3
<1>6. Answering'
  BY <1>1, <1>3, <1>5 DEF Answering, Called
<1> QED
  BY <1>1, <1>4, <1>6 DEF AnswerInv, Called

\* A callback's step, when the block's numbers and the Call are left alone: what
\* is left to show is about the bottom frame.
LEMMA AnswerOfCallback == ASSUME TypeOK, AnswerInv, CallbackStep PROVE AnswerInv'
<1>1. UNCHANGED <<requestSeq, request, fresh, cpc, next>>
  BY CallbackLeaves DEF client
<1> SUFFICES ASSUME fresh PROVE /\ Stack' /\ Numbers' /\ Answering' /\ Selection'
                                /\ (Called /\ completedSeq = next => response.of = request)'
  BY <1>1 DEF AnswerInv
<1>0. /\ Stack /\ Numbers /\ Answering /\ Selection
      /\ Called /\ completedSeq = next => response.of = request
      /\ frame \in [Depths -> Frames]
      /\ requestSeq \in Nat /\ completedSeq \in Nat /\ next \in Nat
  BY DEF AnswerInv, TypeOK, GameOK, BlockOK, ClientOK
<1>2. CASE ClaimBusy
  <2>1. /\ bridgeBusy = 0 /\ bridgeBusy' = 1 /\ UNCHANGED <<completedSeq, response>>
        /\ TopMoves("read", "owned")
    BY <1>2, MovesOf DEF ClaimBusy
  <2>2. depth = 1
    BY <1>0, <2>1 DEF Stack, TopMoves
  <2> QED
    BY <1>0, <1>1, <2>1, <2>2 DEF TopMoves, Stack, Numbers, Answering, Holding, Selection, Called
<1>3. CASE BusyReturn
  <2>1. /\ bridgeBusy # 0 /\ Top.pc = "read"
        /\ UNCHANGED <<bridgeBusy, completedSeq, response, selected>>
        /\ depth > 0 /\ depth' = depth - 1 /\ \A d \in Depths : d # depth => frame'[d] = frame[d]
    BY <1>3, FrameDropped DEF BusyReturn, InFrame, block
  <2>2. bridgeBusy = 1
    BY <2>1 DEF TypeOK, BlockOK
  <2>3. depth = 2
    BY <1>0, <2>1, <2>2 DEF Stack, Top
  <2>4. 1 \in Depths /\ frame'[1] = frame[1] /\ depth' = 1
    BY <1>0, <2>1, <2>3, TradeTestAssumption DEF Stack, Depths, TradeTestAssumption
  <2> QED
    BY <1>0, <1>1, <2>1, <2>2, <2>3, <2>4
       DEF Stack, Numbers, Answering, Holding, Selection, Called
<1>4. CASE CopyCommand \/ CopyRole
  BY <1>4, AnswerOfCopies
<1>5. CASE RunStep
  <2>1. /\ UNCHANGED <<bridgeBusy, completedSeq, response>>
        /\ \E p \in {"running", "selected"} : InFrame(p)
    BY <1>5, RunLeaves DEF block
  <2>2. depth = 1 /\ 1 \in Depths /\ frame[1].pc \in {"running", "selected"}
    BY <2>1, TopIsBottom
  <2>3. CASE SelectForTrade
    <3>1. TopMoves("running", "selected") /\ selected' = frame[1].req.role
      BY <2>2, <2>3, MovesOf DEF SelectForTrade, Selects, Top
    <3> QED
      BY <1>0, <1>1, <2>1, <2>2, <3>1
         DEF TopMoves, Stack, Numbers, Answering, Holding, Selection, Called
  <2>4. CASE ~SelectForTrade
    <3>1. PICK p \in {"running", "selected"} : TopMoves(p, "answered")
      BY <1>5, <2>4, CommandEnds
    <3>2. frame'[1].res.of = frame[1].req
      BY <1>5, <2>2, <2>4, CommandEnds
    <3> QED
      BY <1>0, <1>1, <2>1, <2>2, <3>1, <3>2
         DEF TopMoves, Stack, Numbers, Answering, Holding, Selection, Called
  <2> QED
    BY <2>3, <2>4
<1>6. CASE Respond
  <2>1. /\ response' = Top.res /\ UNCHANGED <<bridgeBusy, completedSeq>>
        /\ TopMoves("answered", "responded") /\ frame'[depth].res = frame[depth].res
    BY <1>6, MovesOf DEF Respond
  <2>2. depth = 1 /\ 1 \in Depths /\ Top = frame[1] /\ frame[1].pc = "answered"
    BY <1>6, TopIsBottom DEF Respond
  <2>3. frame[1].seq \in Nat /\ completedSeq < frame[1].seq /\ frame[1].seq <= requestSeq
    BY <1>0, <2>2 DEF Numbers, Frames
  <2>4. ~(Called /\ completedSeq = next)
    BY <1>0, <2>3 DEF Numbers, Called
  <2>5. Stack' /\ Numbers' /\ Answering' /\ Selection'
    BY <1>0, <1>1, <2>1, <2>2
       DEF TopMoves, Stack, Numbers, Answering, Holding, Selection, Called
  <2> QED
    BY <1>1, <2>1, <2>4, <2>5 DEF Called
<1>7. CASE Complete
  <2>1. /\ completedSeq' = Top.seq /\ UNCHANGED <<bridgeBusy, response>>
        /\ TopMoves("responded", "completed") /\ frame'[depth].res = frame[depth].res
    BY <1>7, MovesOf DEF Complete
  <2>2. depth = 1 /\ 1 \in Depths /\ Top = frame[1] /\ frame[1].pc = "responded"
    BY <1>7, TopIsBottom DEF Complete
  <2>3. Stack' /\ Numbers' /\ Answering' /\ Selection'
    BY <1>0, <1>1, <2>1, <2>2
       DEF TopMoves, Stack, Numbers, Answering, Holding, Selection, Called
  <2>4. (Called /\ completedSeq = next => response.of = request)'
    BY <1>0, <1>1, <2>1, <2>2 DEF Numbers, Answering, Holding, Called
  <2> QED
    BY <2>3, <2>4
<1>8. CASE Release
  <2>1. bridgeBusy' = 0 /\ depth' = depth - 1 /\ UNCHANGED <<completedSeq, response>>
    BY <1>8 DEF Release, LeaveFrame
  <2>2. depth = 1
    BY <1>8, TopIsBottom DEF Release
  <2> QED
    BY <1>0, <1>1, <2>1, <2>2 DEF Stack, Numbers, Answering, Selection, Called
<1> QED
  BY <1>2, <1>3, <1>4, <1>5, <1>6, <1>7, <1>8 DEF CallbackStep, RunStep

\* The invariant holds in every reachable state.
LEMMA AnswerAlways == Spec => []AnswerInv
<1>1. TypeOK /\ AnswerInv /\ [Next]_vars => AnswerInv'
  <2> SUFFICES ASSUME TypeOK, AnswerInv, [Next]_vars PROVE AnswerInv'
    OBVIOUS
  <2>1. CASE WakeUnhooked \/ UNCHANGED vars
    <3>1. UNCHANGED <<requestSeq, completedSeq, bridgeBusy, request, response, depth, frame,
                      selected, fresh, cpc, next>>
      BY <2>1 DEF WakeUnhooked, vars, app, client, block, game, facts, past
    <3> QED
      BY <3>1 DEF AnswerInv, Stack, Numbers, Answering, Holding, Selection, Called
  <2> QED
    BY <2>1, AnswerOfUser, AnswerOfCalls, AnswerOfEnter, AnswerOfCallback DEF Next
<1> QED
  BY <1>1, TypeCorrect, AnswerInitially, PTL DEF Spec

\* However Calls overlap, a Call of a session that began with no callback
\* running takes only the answer to its own request (Call, completedSeq == next).
THEOREM CallTakesItsAnswer == Spec => []AnswerIsOwn
<1>1. AnswerInv => AnswerIsOwn
  BY DEF AnswerInv, AnswerIsOwn, Called
<1> QED
  BY <1>1, AnswerAlways, PTL

----------------------------------------------------------------------------
(* The player a packet goes to *)

\* Only the packet counts for a click, and it leaves a callback that has its
\* request and has seen the player selected.
LEMMA SentByPacket == [Next]_vars => UNCHANGED sent \/ SendTradePacket
<1> SUFFICES ASSUME [Next]_vars PROVE UNCHANGED sent \/ SendTradePacket
  OBVIOUS
<1> USE DEF past, facts
<1>1. CASE UserStep \/ TimerElapses \/ PollTradeUi
  <2>1. CASE ScanClients \/ ChoosePlayer \/ Probe \/ QueryPlayers \/ NoPlayerChosen
    BY <2>1 DEF ScanClients, ChoosePlayer, Probe, QueryPlayers, NoPlayerChosen
  <2>2. CASE SelectTargetOnly \/ SendTrade \/ CheckTradeUi \/ TimerElapses \/ PollTradeUi
    BY <2>2 DEF SelectTargetOnly, SendTrade, CheckTradeUi, TimerElapses, PollTradeUi
  <2> QED
    BY <1>1, <2>1, <2>2 DEF UserStep
<1>2. CASE CallStep
  <2>1. CASE AlreadyAttached \/ Attach \/ AttachFails \/ HookFails \/ WriteCommand \/ WriteRole
    BY <2>1 DEF AlreadyAttached, Attach, AttachFails, HookFails, WriteCommand, WriteRole, Store
  <2>2. CASE Publish \/ Post \/ PostFails \/ Return \/ Timeout
    BY <2>2 DEF Publish, Post, PostFails, Return, Timeout
  <2> QED
    BY <1>2, <2>1, <2>2 DEF CallStep
<1>3. CASE Enter \/ CallbackStep
  <2>1. CASE Enter \/ ClaimBusy \/ BusyReturn \/ CopyCommand \/ CopyRole
    BY <2>1 DEF Enter, ClaimBusy, BusyReturn, CopyCommand, CopyRole
  <2>2. CASE Respond \/ Complete \/ Release
    BY <2>2 DEF Respond, Complete, Release
  <2>3. CASE RunStep
    BY <2>3, RunLeaves
  <2> QED
    BY <1>3, <2>1, <2>2, <2>3 DEF CallbackStep, RunStep
<1>4. CASE WakeUnhooked \/ UNCHANGED vars
  BY <1>4 DEF WakeUnhooked, vars
<1> QED
  BY <1>1, <1>2, <1>3, <1>4 DEF Next

\* However Calls overlap, time out and are carried out late, a packet goes to
\* the player chosen at its click, unless a Call wrote the request while the
\* hook copied it; in a session begun with no callback running, that player is
\* the one the game has selected (ProcessRequest, ExecuteTradeRequest).
THEOREM PacketToChosenPlayer == Spec => NeverWrongTarget
<1> DEFINE Rightly(c) ==
      sent'[c] # sent[c] =>
        /\ ~Top.raced => Top.req.role = clickRole[c]
        /\ fresh => selected = Top.req.role
<1>1. ASSUME TypeOK, TargetInv, AnswerInv, [Next]_vars, NEW c \in Clicks
      PROVE  Rightly(c)
  <2> USE <1>1
  <2>1. CASE UNCHANGED sent
    BY <2>1
  <2>2. CASE SendTradePacket
    <3>1. InFrame("selected") /\ sent' = [sent EXCEPT ![Top.req.click] = @ + 1]
      BY <2>2 DEF SendTradePacket
    <3>2. depth \in Depths /\ Top.pc = "selected"
      BY <3>1, TopTyped DEF TypeOK, InFrame
    <3>3. CopiedOK(Top)
      BY <3>2 DEF TargetInv, Top
    <3>4. sent'[c] # sent[c] => Top.req.click = c
      BY <3>1 DEF TypeOK, FactsOK
    <3>5. ~Top.raced => Top.req.role = clickRole[Top.req.click]
      BY <3>2, <3>3 DEF CopiedOK, Tagged, Suits
    <3>6. fresh => selected = Top.req.role
      <4> SUFFICES ASSUME fresh PROVE selected = Top.req.role
        OBVIOUS
      <4>1. depth = 1 /\ Top = frame[1] /\ frame[1].pc = "selected"
        BY <3>1, TopIsBottom
      <4> QED
        BY <4>1 DEF AnswerInv, Selection
    <3> QED
      BY <3>4, <3>5, <3>6
  <2> QED
    BY <2>1, <2>2, SentByPacket
<1>2. TypeOK /\ TargetInv /\ AnswerInv /\ [Next]_vars =>
        [\A c \in Clicks : sent'[c] # sent[c] =>
           /\ ~Top.raced => Top.req.role = clickRole[c]
           /\ fresh => selected = Top.req.role]_vars
  BY <1>1
<1> QED
  BY <1>2, TypeCorrect, TargetAlways, AnswerAlways, PTL DEF Spec, NeverWrongTarget

----------------------------------------------------------------------------
(* The poll waits for a trade that was sent *)

\* An answer that reports a trade: its packet has left.
Backed(a) ==
  a.ok /\ a.of.cmd = "SelectAndTrade" => a.of.click \in Clicks /\ sent[a.of.click] > 0

\* The command is in the request; a Call is past its EnsureAttach.
Filled == cpc \in {"role", "publish", "post", "waiting"}
Linked == Filled \/ cpc \in {"write", "command"}

\* The trade button stops the poll before its Call, and a new session begins
\* with the poll stopped.
SentInv ==
  /\ Backed(response) /\ \A d \in Depths : Backed(frame[d].res)
  /\ handler = "SendTrade" => /\ ~pollActive
                              /\ Filled => request.cmd = "SelectAndTrade" /\ request.click = clicks
  /\ Linked => attached
  /\ ~attached => ~pollActive
  /\ PollMeansSent

\* At the start no packet was sent and none is claimed.
LEMMA SentInitially == Init => SentInv
BY DEF Init, SentInv, Backed, Filled, Linked, NoResponse, NoFrame, PollMeansSent

\* What a button leaves is less than what was there.
LEMMA SentOfUser ==
  ASSUME TypeOK, TargetInv, SentInv, UserStep \/ TimerElapses \/ PollTradeUi
  PROVE  SentInv'
<1> USE DEF Linked
<1>1. UNCHANGED <<response, frame, request, sent, fresh>>
  <2> USE DEF block, game, past, facts
  <2>1. CASE ScanClients \/ ChoosePlayer \/ Probe \/ QueryPlayers \/ NoPlayerChosen
    BY <2>1 DEF ScanClients, ChoosePlayer, Probe, QueryPlayers, NoPlayerChosen
  <2>2. CASE SelectTargetOnly \/ SendTrade \/ CheckTradeUi \/ TimerElapses \/ PollTradeUi
    BY <2>2 DEF SelectTargetOnly, SendTrade, CheckTradeUi, TimerElapses, PollTradeUi
  <2> QED
    BY <2>1, <2>2 DEF UserStep
<1>2. Backed(response)' /\ \A d \in Depths : Backed(frame[d].res)'
  BY <1>1 DEF SentInv, Backed
<1>3. ASSUME ~pollActive', cpc' \in {"idle", "attach"},
             UNCHANGED attached \/ attached' = FALSE
      PROVE  SentInv'
  BY <1>2, <1>3 DEF SentInv, Filled, PollMeansSent
<1>4. CASE ScanClients \/ NoPlayerChosen \/ QueryPlayers \/ SelectTargetOnly \/ SendTrade
  BY <1>3, <1>4 DEF ScanClients, NoPlayerChosen, QueryPlayers, SelectTargetOnly, SendTrade,
                    StopTradePoll, Begin, client, UserMayCall
<1>5. CASE TimerElapses
  <2>1. UNCHANGED <<pollActive, handler, cpc, attached, clicks>>
    BY <1>5 DEF TimerElapses, client, past, facts
  <2> QED
    BY <1>1, <1>2, <2>1 DEF SentInv, Filled, PollMeansSent
<1>6. CASE ChoosePlayer \/ Probe \/ CheckTradeUi \/ PollTradeUi
  <2>1. /\ UNCHANGED <<pollActive, attached, clicks>> /\ cpc = "idle" /\ cpc' \in {"idle", "attach"}
        /\ handler' # "SendTrade" \/ handler' = handler
    BY <1>6 DEF ChoosePlayer, Probe, CheckTradeUi, PollTradeUi, Begin, UserMayCall, app,
                client, past, facts
  <2>2. handler' # "SendTrade"
    BY <2>1 DEF TargetInv, Chosen
  <2> QED
    BY <1>1, <1>2, <2>1, <2>2 DEF SentInv, Filled, PollMeansSent
<1> QED
  BY <1>4, <1>5, <1>6 DEF UserStep

\* Only the answered trade handler starts a poll, and the answer is its own.
LEMMA SentOfCalls ==
  ASSUME TypeOK, TargetInv, AnswerInv, SentInv, CallStep
  PROVE  SentInv'
<1> USE DEF Linked
<1>1. UNCHANGED <<frame, sent, clicks>> /\ response' \in {response, NoResponse}
  <2> USE DEF block, game, past, facts
  <2>1. CASE AlreadyAttached \/ Attach \/ AttachFails \/ HookFails \/ WriteCommand \/ WriteRole
    BY <2>1 DEF AlreadyAttached, Attach, AttachFails, HookFails, ZeroBlock, WriteCommand,
                WriteRole, Store
  <2>2. CASE Publish \/ Post \/ PostFails \/ Return \/ Timeout
    BY <2>2 DEF Publish, Post, PostFails, Return, Timeout
  <2> QED
    BY <2>1, <2>2 DEF CallStep
<1>2. Backed(response)' /\ \A d \in Depths : Backed(frame[d].res)'
  BY <1>1 DEF SentInv, Backed, NoResponse
<1>3. CASE AlreadyAttached \/ Publish \/ Post
  <2>1. /\ UNCHANGED <<pollActive, handler, attached, request, fresh>>
        /\ \/ cpc' = "write" /\ attached
           \/ Filled /\ cpc' \in {"post", "waiting"}
    BY <1>3 DEF AlreadyAttached, Publish, Post, Filled, app, block, past, facts
  <2> QED
    BY <1>1, <1>2, <2>1 DEF SentInv, Filled, PollMeansSent
<1>4. CASE Attach
  <2>1. UNCHANGED <<pollActive, handler>> /\ ~attached /\ attached' /\ cpc' = "write"
    BY <1>4 DEF Attach, app
  <2> QED
    BY <1>1, <1>2, <2>1 DEF SentInv, Filled, PollMeansSent
<1>5. CASE WriteCommand
  <2>1. /\ UNCHANGED <<pollActive, handler, attached, fresh>> /\ cpc' \in {"role", "publish"}
        /\ cpc \in {"write", "command"} /\ request'.cmd = CommandOf[handler]
        /\ handler = "SendTrade" => request'.click = clicks
    BY <1>5, StoreTyped DEF WriteCommand, FirstStore, SecondStore, Store, app
  <2>2. handler = "SendTrade" => CommandOf[handler] = "SelectAndTrade"
    BY CommandTyped DEF TypeOK, ClientOK
  <2> QED
    BY <1>1, <1>2, <2>1, <2>2 DEF SentInv, Filled, PollMeansSent
<1>6. CASE WriteRole
  <2>1. /\ UNCHANGED <<pollActive, handler, attached, fresh>>
        /\ \/ cpc = "write" /\ cpc' = "command"
           \/ /\ cpc = "role" /\ cpc' = "publish"
              /\ request'.cmd = request.cmd /\ request'.click = request.click
    BY <1>6, StoreTyped DEF WriteRole, FirstStore, SecondStore, Store, app
  <2> QED
    BY <1>1, <1>2, <2>1 DEF SentInv, Filled, PollMeansSent
<1>7. ASSUME Leave, UNCHANGED attached, fresh' = fresh \/ ~attached,
             ~pollActive' \/ UNCHANGED pollActive
      PROVE  SentInv'
  BY <1>1, <1>2, <1>7 DEF SentInv, Filled, PollMeansSent, Leave
<1>8. CASE AttachFails \/ HookFails \/ PostFails \/ Timeout \/ (Return /\ ~response.ok)
  <2>1. AfterFailure /\ UNCHANGED attached /\ (fresh' = fresh \/ ~attached)
    BY <1>8 DEF AttachFails, HookFails, PostFails, Timeout, Return, past, facts
  <2> QED
    BY <1>7, <2>1 DEF AfterFailure, StopTradePoll
<1>9. CASE Return /\ response.ok
  <2>1. /\ AfterAnswer /\ UNCHANGED <<attached, fresh>>
        /\ cpc = "waiting" /\ completedSeq = next
    BY <1>9 DEF Return, past, facts
  <2>2. CASE AfterTeamScan \/ AfterCheck \/ AfterOther
    BY <1>7, <2>1, <2>2 DEF AfterAnswer, AfterTeamScan, AfterCheck, AfterOther, StopTradePoll
  <2>3. CASE AfterTrade
    <3>1. handler = "SendTrade" /\ Leave
      BY <2>1, <2>3 DEF AfterTrade, AfterAnswer
    <3>2. request.cmd = "SelectAndTrade" /\ request.click = clicks /\ attached
      BY <2>1, <3>1 DEF SentInv, Filled
    <3>3. fresh => response.of = request
      BY <2>1 DEF AnswerInv, Called
    <3>4. fresh => clicks \in Clicks /\ sent[clicks] > 0
      BY <1>9, <3>2, <3>3 DEF SentInv, Backed
    <3>5. PollMeansSent'
      BY <1>1, <2>1, <3>4, TradeTestAssumption DEF PollMeansSent, Clicks, TradeTestAssumption
    <3> QED
      BY <1>2, <2>1, <3>1, <3>2, <3>5 DEF SentInv, Filled, Leave
  <2> QED
    BY <2>1, <2>2, <2>3 DEF AfterAnswer
<1> QED
  BY <1>3, <1>4, <1>5, <1>6, <1>8, <1>9 DEF CallStep

\* A command that is not a trade, or one that failed, reports no trade.
LEMMA EndBacked ==
  ASSUME TypeOK, TargetInv, RunStep, ~SelectForTrade
  PROVE  \E res : Ends(res) /\ Backed(res)'
<1>1. /\ Failed.ok = FALSE /\ Failed.of = Top.req /\ Done.of = Top.req
      /\ \A v : [Done EXCEPT !.visible = v].of = Top.req
      /\ \A f : [Done EXCEPT !.found = f].of = Top.req
  BY DEF Done, Failed, NoResponse
<1>2. CASE RunFails \/ SelectFails \/ ConstantsFail
  <2>1. Ends(Failed)
    BY <1>2 DEF RunFails, SelectFails, ConstantsFail
  <2>2. PICK res : res = Failed
    OBVIOUS
  <2>3. Backed(res)'
    BY <1>1, <2>2 DEF Backed
  <2> QED
    BY <2>1, <2>2, <2>3
<1>3. CASE RunProbe \/ RunQueryTeam \/ RunSelectTarget \/ RunQueryTradeUi
  <2>1. Top.req.cmd # "SelectAndTrade"
    BY <1>3 DEF RunProbe, RunQueryTeam, RunSelectTarget, RunQueryTradeUi
  <2>2. PICK res : Ends(res) /\ res.of = Top.req
    BY <1>1, <1>3 DEF RunProbe, RunQueryTeam, RunSelectTarget, RunQueryTradeUi
  <2>3. Backed(res)'
    BY <2>1, <2>2 DEF Backed
  <2> QED
    BY <2>2, <2>3
<1>4. CASE SendTradePacket
  <2>1. /\ InFrame("selected")
        /\ sent' = [sent EXCEPT ![Top.req.click] = sent[Top.req.click] + 1]
    BY <1>4 DEF SendTradePacket
  <2>2. depth \in Depths /\ Top.pc = "selected"
    BY <2>1, TopTyped DEF TypeOK, InFrame
  <2>3. Top.req.click \in 1 .. clicks
    BY <2>2 DEF TargetInv, CopiedOK, Counted, Top
  <2>4. Top.req.click \in Clicks
    BY <2>3, TradeTestAssumption DEF TypeOK, FactsOK, Clicks, TradeTestAssumption
  <2>5. sent'[Top.req.click] > 0
    BY <2>1, <2>4 DEF TypeOK, FactsOK
  <2>6. PICK res \in {Done, Failed} : Ends(res)
    BY <1>4 DEF SendTradePacket
  <2>7. Backed(res)'
    BY <1>1, <2>4, <2>5, <2>6 DEF Backed
  <2> QED
    BY <2>6, <2>7
<1> QED
  BY <1>2, <1>3, <1>4 DEF RunStep

\* A callback reports a trade only after its packet.
LEMMA SentOfCallbacks ==
  ASSUME TypeOK, TargetInv, SentInv, Enter \/ CallbackStep
  PROVE  SentInv'
<1>0. /\ frame \in [Depths -> Frames] /\ frame' \in [Depths -> Frames] /\ sent \in [Clicks -> Nat]
      /\ UNCHANGED <<pollActive, handler, cpc, attached, request, clicks, fresh>>
  <2>1. TypeOK'
    BY TypeOfCallbackSteps
  <2> QED
    BY <2>1, CallbackLeaves DEF app, client, TypeOK, GameOK, FactsOK
<1>1. \A c \in Clicks : sent[c] > 0 => sent'[c] > 0
  <2>1. CASE SendTradePacket
    BY <1>0, <2>1 DEF SendTradePacket
  <2>2. [Next]_vars
    BY DEF Next
  <2> QED
    BY <2>1, <2>2, SentByPacket
<1>2. \A a : Backed(a) => Backed(a)'
  BY <1>1 DEF Backed
<1>3. ASSUME Backed(response)', \A d \in Depths : Backed(frame[d].res)'
      PROVE  SentInv'
  <2>1. PollMeansSent'
    <3>1. clicks > 0 => clicks \in Clicks
      BY TradeTestAssumption DEF TypeOK, FactsOK, Clicks, TradeTestAssumption
    <3> QED
      BY <1>0, <1>1, <3>1 DEF SentInv, PollMeansSent
  <2> QED
    BY <1>0, <1>3, <2>1 DEF SentInv, Filled, Linked
<1>4. ASSUME UNCHANGED response, \A d \in Depths : frame'[d].res \in {frame[d].res, NoResponse}
      PROVE  SentInv'
  <2>1. Backed(NoResponse)'
    BY DEF Backed, NoResponse
  <2>2. \A d \in Depths : Backed(frame[d].res) /\ Backed(frame[d].res)'
    BY <1>2, <1>4, <2>1 DEF SentInv, Backed
  <2>3. Backed(response)'
    BY <1>2, <1>4 DEF SentInv, Backed
  <2> QED
    BY <1>3, <2>2, <2>3
<1>5. CASE Enter
  <2>1. \A d \in Depths : frame'[d].res \in {frame[d].res, NoResponse}
    <3>1. CASE UNCHANGED <<depth, frame>>
      BY <3>1
    <3>2. CASE ~(UNCHANGED <<depth, frame>>)
      BY <1>5, <3>2, FrameEntered
    <3> QED
      BY <3>1, <3>2
  <2> QED
    BY <1>4, <1>5, <2>1 DEF Enter, block
<1>6. CASE ClaimBusy \/ CopyCommand \/ CopyRole \/ Complete \/ SelectForTrade
  <2>1. /\ \A d \in Depths : d # depth => frame'[d] = frame[d]
        /\ frame'[depth].res = frame[depth].res
    BY <1>6, MovesOf, CopyTyped DEF TopMoves
  <2>2. UNCHANGED response
    BY <1>6 DEF ClaimBusy, CopyCommand, CopyRole, Complete, SelectForTrade, Selects, block
  <2> QED
    BY <1>4, <2>1, <2>2
<1>7. CASE BusyReturn \/ Release
  <2>1. \A d \in Depths : frame'[d].res \in {frame[d].res, NoResponse}
    BY <1>7, FrameDropped DEF NoFrame
  <2> QED
    BY <1>4, <1>7, <2>1 DEF BusyReturn, Release, block
<1>8. CASE Respond
  <2>1. /\ depth \in Depths /\ response' = frame[depth].res
        /\ \A d \in Depths : frame'[d].res = frame[d].res
    BY <1>8, MovesOf DEF Respond, Top, TopMoves
  <2>2. Backed(response)'
    BY <1>2, <2>1 DEF SentInv, Backed
  <2>3. \A d \in Depths : Backed(frame[d].res)'
    BY <1>2, <2>1 DEF SentInv, Backed
  <2> QED
    BY <1>3, <2>2, <2>3
<1>9. CASE RunStep /\ ~SelectForTrade
  <2>1. PICK res : Ends(res) /\ Backed(res)'
    BY <1>9, EndBacked
  <2>2. UNCHANGED response /\ \E p \in {"running", "selected"} : InFrame(p)
    BY <1>9, RunLeaves DEF block
  <2>3. depth \in Depths /\ frame' = [frame EXCEPT ![depth].pc = "answered", ![depth].res = res]
    BY <2>1, <2>2, TopTyped DEF Ends, TypeOK
  <2>4. \A d \in Depths : frame'[d].res \in {frame[d].res, res}
    BY <1>0, <2>3 DEF Frames
  <2>5. Backed(response)' /\ \A d \in Depths : Backed(frame[d].res)'
    BY <1>2, <2>1, <2>2, <2>4 DEF SentInv, Backed
  <2> QED
    BY <1>3, <2>5
<1> QED
  BY <1>5, <1>6, <1>7, <1>8, <1>9 DEF CallbackStep, RunStep

\* The window waits for the Trade UI only after the packet of the latest click
\* has left (SendTrade starts the timer, every other handler stops it).
THEOREM PollAfterPacket == Spec => []PollMeansSent
<1>1. TypeOK /\ TargetInv /\ AnswerInv /\ SentInv /\ [Next]_vars => SentInv'
  <2> SUFFICES ASSUME TypeOK, TargetInv, AnswerInv, SentInv, [Next]_vars PROVE SentInv'
    OBVIOUS
  <2>1. CASE WakeUnhooked \/ UNCHANGED vars
    <3>1. UNCHANGED <<pollActive, handler, cpc, attached, request, response, frame, sent, clicks, fresh>>
      BY <2>1 DEF WakeUnhooked, vars, app, client, block, game, facts, past
    <3> QED
      BY <3>1 DEF SentInv, Backed, Filled, Linked, PollMeansSent
  <2> QED
    BY <2>1, SentOfUser, SentOfCalls, SentOfCallbacks DEF Next
<1>2. SentInv => PollMeansSent
  BY DEF SentInv
<1> QED
  BY <1>1, <1>2, TypeCorrect, TargetAlways, AnswerAlways, SentInitially, PTL DEF Spec

----------------------------------------------------------------------------
(* Packets per click *)

IsTrade(r) == r.cmd = "SelectAndTrade"
Unsent(r)  == IsTrade(r) => sent[r.click] = 0

\* A callback that will send a packet; one that will copy the command of the
\* block; a request no callback has been entered for.
Holds(d) == /\ d <= depth /\ frame[d].pc \in {"copyRole", "running", "selected"}
            /\ IsTrade(frame[d].req)
Takes    == \E d \in Depths : d <= depth /\ \/ frame[d].pc \in {"owned", "copyCommand"}
                                            \/ frame[d].pc = "read" /\ bridgeBusy = 0
Awaited  == depth = 0 /\ requestSeq # 0 /\ requestSeq # completedSeq

SentOnce == \A c \in Clicks : sent[c] <= 1 /\ (c > clicks => sent[c] = 0)

OneHolder ==
  \A d \in Depths : Holds(d) => /\ sent[frame[d].req.click] = 0
                                /\ \A e \in Depths : Holds(e) => e = d

Offered ==
  Awaited \/ Takes =>
    /\ Unsent(request)
    /\ IsTrade(request) => \A d \in Depths : ~Holds(d)

\* The trade button's click is known to nobody before its command is stored.
NewClick ==
  handler = "SendTrade" /\ cpc \in {"attach", "write", "command"} =>
    /\ sent[clicks] = 0
    /\ IsTrade(request) => request.click # clicks
    /\ \A d \in Depths : Holds(d) => frame[d].req.click # clicks

Writing ==
  cpc \in {"command", "role", "publish"} =>
    /\ depth = 0 /\ requestSeq = completedSeq /\ next = requestSeq + 1
    /\ cpc # "command" => Unsent(request)

\* Callbacks of an earlier session only find the emptied block; those of this
\* one are for the latest number.
Session ==
  /\ requestSeq = 0 => depth = 0 \/ request.cmd = "None"
  /\ requestSeq # 0 =>
       Stack /\ (depth > 0 => /\ frame[1].seq = requestSeq
                              /\ frame[1].pc = "completed" => completedSeq = requestSeq)

CalmInv ==
  ~overlapped => SentOnce /\ OneHolder /\ Offered /\ NewClick /\ Writing /\ Session

\* At the start no click is open.
LEMMA CalmInitially == Init => CalmInv
<1> SUFFICES ASSUME Init PROVE CalmInv
  OBVIOUS
<1>1. /\ depth = 0 /\ bridgeBusy = 0 /\ requestSeq = 0 /\ clicks = 0 /\ cpc = "idle"
      /\ sent = [c \in Clicks |-> 0]
  BY DEF Init
<1>2. \A d \in Depths : d \in Nat /\ d > 0
  BY DEF Depths
<1> QED
  BY <1>1, <1>2 DEF CalmInv, SentOnce, OneHolder, Offered, NewClick, Writing, Session,
                    Holds, Takes, Awaited

\* The window between Calls: only the trade button makes a new click.
LEMMA CalmOfUser ==
  ASSUME TypeOK, TargetInv, CalmInv, UserStep \/ TimerElapses \/ PollTradeUi
  PROVE  CalmInv'
<1>1. UNCHANGED <<requestSeq, completedSeq, bridgeBusy, request, depth, frame, sent, overlapped, next>>
  <2> USE DEF block, game, client, past, facts
  <2>1. CASE ScanClients \/ ChoosePlayer \/ Probe \/ QueryPlayers \/ NoPlayerChosen
    BY <2>1 DEF ScanClients, ChoosePlayer, Probe, QueryPlayers, NoPlayerChosen
  <2>2. CASE SelectTargetOnly \/ SendTrade \/ CheckTradeUi \/ TimerElapses \/ PollTradeUi
    BY <2>2 DEF SelectTargetOnly, SendTrade, CheckTradeUi, TimerElapses, PollTradeUi
  <2> QED
    BY <2>1, <2>2 DEF UserStep
<1>2. ASSUME UNCHANGED <<handler, cpc>> \/ cpc' = "idle" \/ (cpc' = "attach" /\ handler' # "SendTrade"),
             UNCHANGED clicks
      PROVE  CalmInv'
  BY <1>1, <1>2 DEF CalmInv, SentOnce, OneHolder, Offered, NewClick, Writing, Session, Stack,
                    Holds, Takes, Awaited, Unsent
<1>3. CASE SendTrade
  <2>1. clicks' = clicks + 1 /\ cpc' = "attach" /\ clicks \in Nat /\ clicks' \in Clicks
    BY <1>3, TradeTestAssumption DEF SendTrade, Begin, TypeOK, FactsOK, Clicks, TradeTestAssumption
  <2>2. \A r : Counted(r) /\ IsTrade(r) => r.click # clicks'
    BY <2>1 DEF Counted, IsTrade
  <2>3. ASSUME ~overlapped PROVE SentOnce' /\ NewClick'
    <3>1. SentOnce
      BY <2>3 DEF CalmInv
    <3>2. sent[clicks'] = 0
      BY <2>1, <3>1 DEF SentOnce
    <3>3. SentOnce'
      BY <1>1, <2>1, <3>1 DEF SentOnce, Clicks
    <3>4. NewClick'
      BY <1>1, <2>2, <3>2 DEF NewClick, TargetInv, CopiedOK, Holds
    <3> QED
      BY <3>3, <3>4
  <2>4. ASSUME ~overlapped PROVE OneHolder' /\ Offered' /\ Writing' /\ Session'
    BY <1>1, <2>1, <2>4 DEF CalmInv, OneHolder, Offered, Writing, Session, Stack,
                            Holds, Takes, Awaited, Unsent
  <2> QED
    BY <1>1, <2>3, <2>4 DEF CalmInv
<1>4. CASE ScanClients \/ ChoosePlayer \/ NoPlayerChosen \/ TimerElapses
  BY <1>2, <1>4 DEF ScanClients, ChoosePlayer, NoPlayerChosen, TimerElapses, client, past, facts
<1>5. CASE Probe \/ QueryPlayers \/ SelectTargetOnly \/ CheckTradeUi \/ PollTradeUi
  BY <1>2, <1>5 DEF Probe, QueryPlayers, SelectTargetOnly, CheckTradeUi, PollTradeUi, Begin,
                    past, facts
<1> QED
  BY <1>3, <1>4, <1>5 DEF UserStep

\* A store of a calm Call: nobody holds or awaits the request it changes.
LEMMA CalmOfStores ==
  ASSUME TypeOK, TargetInv, CalmInv, WriteCommand \/ WriteRole
  PROVE  CalmInv'
<1>0. requestSeq \in Nat /\ depth \in Nat /\ \A d \in Depths : d \in Nat /\ d > 0
  BY TradeTestAssumption DEF TypeOK, BlockOK, GameOK, Depths, TradeTestAssumption
<1>1. /\ UNCHANGED <<requestSeq, completedSeq, bridgeBusy, depth, frame, sent, clicks, handler>>
      /\ \/ /\ cpc = "write" /\ cpc' \in {"role", "command"} /\ next' = requestSeq + 1
            /\ overlapped' = (overlapped \/ depth > 0 \/ requestSeq # completedSeq)
         \/ /\ cpc \in {"role", "command"} /\ cpc' = "publish"
            /\ UNCHANGED <<next, overlapped>>
      /\ WriteCommand => cpc \in {"write", "command"} /\ cpc' # "command"
      /\ WriteRole => (cpc = "write" /\ cpc' = "command") \/ cpc = "role"
  BY DEF WriteCommand, WriteRole, FirstStore, SecondStore, Store, game
<1>2. ASSUME ~overlapped'
      PROVE  /\ ~overlapped /\ depth = 0 /\ requestSeq = completedSeq
             /\ next' = requestSeq + 1
  <2>1. CASE cpc = "write"
    <3>1. overlapped' = (overlapped \/ depth > 0 \/ requestSeq # completedSeq) /\ next' = requestSeq + 1
      BY <1>1, <2>1
    <3>2. ~overlapped /\ ~(depth > 0) /\ requestSeq = completedSeq
      BY <1>2, <3>1, Zenon
    <3> QED
      BY <1>0, <3>1, <3>2
  <2>2. CASE cpc # "write"
    BY <1>1, <1>2, <2>2 DEF CalmInv, Writing
  <2> QED
    BY <2>1, <2>2
<1>3. ASSUME ~overlapped' PROVE cpc' # "command" => Unsent(request)'
  <2>1. CASE WriteCommand
    <3>1. /\ request'.cmd = CommandOf[handler]
          /\ request'.click = IF handler = "SendTrade" THEN clicks ELSE 0
      BY <2>1, StoreTyped
    <3>2. IsTrade(request') => handler = "SendTrade" /\ request'.click = clicks
      BY <3>1, CommandTyped DEF TypeOK, ClientOK, IsTrade
    <3> QED
      BY <1>1, <1>2, <1>3, <2>1, <3>2 DEF CalmInv, NewClick, Unsent, IsTrade
  <2>2. CASE WriteRole /\ cpc = "role"
    <3>1. request'.cmd = request.cmd /\ request'.click = request.click
      BY <2>2, StoreTyped
    <3> QED
      BY <1>1, <1>2, <1>3, <2>2, <3>1 DEF CalmInv, Writing, Unsent, IsTrade
  <2> QED
    BY <1>1, <2>1, <2>2
<1>4. ASSUME ~overlapped' PROVE SentOnce' /\ Session' /\ Writing'
  BY <1>1, <1>2, <1>3, <1>4 DEF CalmInv, SentOnce, Writing, Session, Stack
<1>5. ASSUME ~overlapped' PROVE OneHolder' /\ Offered'
  BY <1>0, <1>1, <1>2, <1>5 DEF OneHolder, Offered, Holds, Takes, Awaited
<1>6. ASSUME ~overlapped' PROVE NewClick'
  <2> SUFFICES ASSUME handler' = "SendTrade", cpc' \in {"attach", "write", "command"} PROVE NewClick'
    BY DEF NewClick
  <2>1. WriteRole /\ cpc = "write"
    BY <1>1
  <2>2. request'.cmd = "None" \/ (request'.cmd = request.cmd /\ request'.click = request.click)
    BY <2>1, StoreTyped
  <2>3. sent[clicks] = 0 /\ (IsTrade(request) => request.click # clicks)
    BY <1>1, <1>2, <1>6, <2>1 DEF CalmInv, NewClick
  <2> QED
    BY <1>0, <1>1, <1>2, <1>6, <2>2, <2>3 DEF NewClick, Holds, IsTrade
<1> QED
  BY <1>2, <1>4, <1>5, <1>6 DEF CalmInv

\* A Call: it is calm when it is written, or the history says that it was not.
LEMMA CalmOfCalls ==
  ASSUME TypeOK, TargetInv, Nested, CalmInv, CallStep
  PROVE  CalmInv'
<1>0. requestSeq \in Nat /\ depth \in Nat /\ \A d \in Depths : d \in Nat /\ d > 0
  BY TradeTestAssumption DEF TypeOK, BlockOK, GameOK, Depths, TradeTestAssumption
<1>1. CASE AlreadyAttached \/ AttachFails \/ PostFails \/ Return \/ Timeout \/ Post
  <2>1. /\ UNCHANGED <<requestSeq, completedSeq, bridgeBusy, request, depth, frame, sent,
                       overlapped, clicks>>
        /\ \/ cpc' \in {"idle", "waiting"}
           \/ cpc = "attach" /\ cpc' = "write" /\ handler' = handler
    BY <1>1 DEF AlreadyAttached, AttachFails, PostFails, Return, Timeout, Post, AfterFailure,
                AfterAnswer, Leave, block, game, past, facts
  <2> QED
    BY <2>1 DEF CalmInv, SentOnce, OneHolder, Offered, NewClick, Writing, Session, Stack,
                Holds, Takes, Awaited, Unsent
<1>2. CASE Attach \/ HookFails
  <2>1. /\ UNCHANGED <<depth, frame, sent, overlapped, clicks>>
        /\ requestSeq' = 0 /\ request' = NoRequest
        /\ \/ cpc = "attach" /\ cpc' = "write" /\ handler' = handler
           \/ cpc' = "idle"
    BY <1>2 DEF Attach, HookFails, ZeroBlock, AfterFailure, Leave, game
  <2>2. request'.cmd = "None" /\ ~IsTrade(request')
    BY <2>1 DEF NoRequest, IsTrade
  <2>3. ~overlapped => SentOnce' /\ OneHolder' /\ Offered' /\ Writing' /\ Session'
    BY <2>1, <2>2 DEF CalmInv, SentOnce, OneHolder, Offered, Writing, Session, Holds, Unsent, IsTrade
  <2>4. ~overlapped => NewClick'
    BY <2>1, <2>2 DEF CalmInv, NewClick, Holds, IsTrade
  <2> QED
    BY <2>1, <2>3, <2>4 DEF CalmInv
<1>3. CASE WriteCommand \/ WriteRole
  BY <1>3, CalmOfStores
<1>4. CASE Publish
  <2>1. /\ UNCHANGED <<completedSeq, bridgeBusy, request, depth, frame, sent, overlapped, clicks>>
        /\ requestSeq' = next /\ cpc = "publish" /\ cpc' = "post"
    BY <1>4 DEF Publish, game, past, facts
  <2>2. bridgeBusy = 0 \/ depth > 0
    BY <1>0 DEF Nested, TypeOK, BlockOK
  <2>3. ASSUME ~overlapped
        PROVE  depth = 0 /\ Unsent(request) /\ requestSeq' = requestSeq + 1
    BY <2>1, <2>3 DEF CalmInv, Writing
  <2>4. ASSUME ~overlapped PROVE SentOnce' /\ OneHolder' /\ NewClick' /\ Writing'
    BY <1>0, <2>1, <2>4 DEF CalmInv, SentOnce, OneHolder, NewClick, Writing, Holds
  <2>5. ASSUME ~overlapped PROVE Offered'
    BY <1>0, <2>1, <2>3, <2>5 DEF Offered, Unsent, Holds
  <2>6. ASSUME ~overlapped PROVE Session'
    BY <1>0, <2>1, <2>2, <2>3, <2>6 DEF Session, Stack
  <2> QED
    BY <2>1, <2>4, <2>5, <2>6 DEF CalmInv
<1> QED
  BY <1>1, <1>2, <1>3, <1>4 DEF CallStep

\* A callback is entered for a request nobody was entered for, or over a running
\* one that keeps the flag.
LEMMA CalmOfEnter == ASSUME TypeOK, CalmInv, Nested, Enter PROVE CalmInv'
<1>0. /\ frame \in [Depths -> Frames] /\ depth \in Nat /\ bridgeBusy \in {0, 1}
      /\ \A d \in Depths : d \in Nat /\ d > 0
  BY TradeTestAssumption DEF TypeOK, GameOK, BlockOK, Depths, TradeTestAssumption
<1>1. UNCHANGED <<requestSeq, completedSeq, bridgeBusy, request, sent, overlapped, clicks, handler,
                  cpc, next>>
  BY DEF Enter, client, block, past, facts
<1>2. CASE UNCHANGED <<depth, frame>>
  BY <1>1, <1>2 DEF CalmInv, SentOnce, OneHolder, Offered, NewClick, Writing, Session, Stack,
                    Holds, Takes, Awaited, Unsent
<1>3. CASE ~(UNCHANGED <<depth, frame>>)
  <2>1. /\ depth' = depth + 1 /\ depth + 1 \in Depths /\ requestSeq # 0 /\ requestSeq # completedSeq
        /\ frame'[depth + 1].pc = "read" /\ frame'[depth + 1].seq = requestSeq
        /\ \A d \in Depths : d # depth + 1 => frame'[d] = frame[d]
        /\ depth > 0 => frame[depth].pc \in {"running", "selected"}
    BY <1>3, FrameEntered
  <2>2. \A d \in Depths : d <= depth + 1 => d <= depth \/ d = depth + 1
    BY <1>0
  <2>3. \A d \in Depths : Holds(d)' => Holds(d) /\ frame'[d] = frame[d]
    BY <2>1, <2>2 DEF Holds
  <2>4. ~overlapped => SentOnce' /\ OneHolder' /\ NewClick'
    BY <1>1, <2>3 DEF CalmInv, SentOnce, OneHolder, NewClick
  <2>5. ~overlapped => Writing'
    BY <1>1, <2>1 DEF CalmInv, Writing
  <2>6. CASE depth = 0
    <3>1. ~overlapped => Offered'
      <4>1. Awaited
        BY <2>1, <2>6 DEF Awaited
      <4> QED
        BY <1>1, <2>3, <4>1 DEF CalmInv, Offered, Unsent
    <3>2. ~overlapped => Session'
      BY <1>1, <2>1, <2>6 DEF CalmInv, Session, Stack
    <3> QED
      BY <1>1, <2>4, <2>5, <3>1, <3>2 DEF CalmInv
  <2>7. CASE depth > 0
    <3>1. ~overlapped => /\ depth = 1 /\ frame[1].pc \in {"running", "selected"} /\ bridgeBusy = 1
                         /\ frame'[1] = frame[1] /\ 1 \in Depths
      <4>1. ~overlapped => Stack
        BY <2>1 DEF CalmInv, Session
      <4>2. ~overlapped => depth = 1
        BY <2>1, <2>7, <4>1 DEF Stack
      <4>3. 1 \in Depths /\ (depth = 1 => depth + 1 # 1)
        BY TradeTestAssumption DEF Depths, TradeTestAssumption
      <4> QED
        BY <2>1, <4>1, <4>2, <4>3 DEF Stack
    <3>2. ~overlapped => ~Takes' /\ ~Awaited'
      BY <1>0, <1>1, <2>1, <2>2, <3>1 DEF Takes, Awaited
    <3>3. ~overlapped => Offered'
      BY <3>2 DEF Offered
    <3>4. ~overlapped => Session'
      BY <1>1, <2>1, <3>1 DEF CalmInv, Session, Stack
    <3> QED
      BY <1>1, <2>4, <2>5, <3>3, <3>4 DEF CalmInv
  <2> QED
    BY <1>0, <2>6, <2>7
<1> QED
  BY <1>2, <1>3

\* What a callback step may rely on: only those below it run; in a calm session
\* it is the only one past its claim, and no Call is writing.
LEMMA BelowRun ==
  ASSUME TypeOK, Nested, depth > 0
  PROVE  /\ depth \in Depths /\ frame \in [Depths -> Frames] /\ bridgeBusy \in {0, 1}
         /\ \A d \in Depths : d <= depth => d = depth \/ frame[d].pc \in {"running", "selected"}
         /\ \A d \in Depths : d <= depth - 1 <=> d <= depth /\ d # depth
         /\ depth \in Nat /\ depth <= depth
<1>1. depth \in Depths /\ frame \in [Depths -> Frames] /\ bridgeBusy \in {0, 1}
  BY TradeTestAssumption DEF TypeOK, GameOK, BlockOK, Depths, TradeTestAssumption
<1>2. \A d \in Depths : /\ d <= depth => d = depth \/ d < depth
                        /\ d <= depth - 1 <=> d <= depth /\ d # depth
  BY <1>1 DEF Depths
<1> QED
  BY <1>1, <1>2 DEF Nested, Depths

\* The parts of the invariant that a callback step leaves alone.
LEMMA CalmKept ==
  ASSUME TypeOK, CalmInv, Nested, depth > 0, ~overlapped, UNCHANGED <<sent, clicks, cpc>>
  PROVE  SentOnce' /\ Writing'
<1>1. cpc \notin {"command", "role", "publish"}
  BY DEF CalmInv, Writing
<1> QED
  BY <1>1 DEF CalmInv, SentOnce, Writing

\* The claim of the flag, and the return of a callback that cannot have it.
LEMMA CalmOfClaims ==
  ASSUME TypeOK, CalmInv, Nested, ClaimBusy \/ BusyReturn
  PROVE  CalmInv'
<1>0. /\ depth > 0 /\ depth \in Depths /\ frame \in [Depths -> Frames] /\ bridgeBusy \in {0, 1}
      /\ \A d \in Depths : d <= depth => d = depth \/ frame[d].pc \in {"running", "selected"}
      /\ \A d \in Depths : d <= depth - 1 <=> d <= depth /\ d # depth
      /\ depth \in Nat /\ depth <= depth
  <2>1. depth > 0
    BY DEF ClaimBusy, BusyReturn, InFrame
  <2> QED
    BY <2>1, BelowRun
<1>1. UNCHANGED <<requestSeq, completedSeq, request, sent, overlapped, clicks, handler, cpc, next>>
  BY DEF ClaimBusy, BusyReturn, client, block, past, facts
<1>2. ~overlapped => SentOnce' /\ Writing'
  BY <1>0, <1>1, CalmKept
<1>3. CASE ClaimBusy
  <2>1. /\ bridgeBusy = 0 /\ bridgeBusy' = 1 /\ depth' = depth
        /\ frame[depth].pc = "read" /\ frame'[depth].pc = "owned"
        /\ frame'[depth].seq = frame[depth].seq
        /\ \A d \in Depths : d # depth => frame'[d] = frame[d]
    BY <1>3, MovesOf DEF ClaimBusy, TopMoves
  <2>2. Takes
    BY <1>0, <2>1 DEF Takes
  <2>3. \A d \in Depths : Holds(d)' => Holds(d) /\ frame'[d] = frame[d]
    BY <2>1 DEF Holds
  <2>4. ~overlapped => OneHolder' /\ NewClick' /\ Offered'
    BY <1>1, <2>2, <2>3 DEF CalmInv, OneHolder, NewClick, Offered, Unsent
  <2>5. ~overlapped => Session'
    <3>1. ASSUME ~overlapped, requestSeq # 0 PROVE depth = 1
      BY <1>0, <2>1, <3>1 DEF CalmInv, Session, Stack
    <3> QED
      BY <1>1, <2>1, <3>1 DEF CalmInv, Session, Stack
  <2> QED
    BY <1>1, <1>2, <2>4, <2>5 DEF CalmInv
<1>4. CASE BusyReturn
  <2>1. /\ frame[depth].pc = "read" /\ bridgeBusy = 1 /\ bridgeBusy' = 1 /\ depth' = depth - 1
        /\ \A d \in Depths : d # depth => frame'[d] = frame[d]
    BY <1>0, <1>4, FrameDropped DEF BusyReturn, InFrame, Top, block
  <2>2. PICK o \in Depths : o <= depth /\ frame[o].pc # "read"
    BY <2>1 DEF Nested
  <2>3. o # depth /\ depth' # 0
    BY <1>0, <2>1, <2>2 DEF Depths
  <2>4. ~Takes' /\ ~Awaited'
    BY <1>0, <2>1, <2>3 DEF Takes, Awaited
  <2>5. \A d \in Depths : Holds(d)' => Holds(d) /\ frame'[d] = frame[d]
    BY <1>0, <2>1 DEF Holds
  <2>6. ~overlapped => OneHolder' /\ NewClick' /\ Offered'
    BY <1>1, <2>4, <2>5 DEF CalmInv, OneHolder, NewClick, Offered
  <2>7. ~overlapped => Session'
    <3>1. ASSUME ~overlapped, requestSeq # 0
          PROVE  depth = 2 /\ depth' = 1 /\ frame'[1] = frame[1] /\ frame[1].pc \in {"running", "selected"}
      <4>1. depth = 2
        BY <1>0, <2>1, <2>3, <3>1 DEF CalmInv, Session, Stack
      <4>2. 1 \in Depths
        BY TradeTestAssumption DEF Depths, TradeTestAssumption
      <4> QED
        BY <2>1, <3>1, <4>1, <4>2 DEF CalmInv, Session, Stack
    <3> QED
      BY <1>0, <1>1, <2>1, <3>1 DEF CalmInv, Session, Stack
  <2> QED
    BY <1>1, <1>2, <2>6, <2>7 DEF CalmInv
<1> QED
  BY <1>3, <1>4

\* The copy of the request: the one callback that takes the command of the block
\* becomes the one that holds it.
LEMMA CalmOfCopies ==
  ASSUME TypeOK, CalmInv, Nested, CopyCommand \/ CopyRole
  PROVE  CalmInv'
<1>0. /\ depth > 0 /\ depth \in Depths /\ frame \in [Depths -> Frames] /\ bridgeBusy \in {0, 1}
      /\ \A d \in Depths : d <= depth => d = depth \/ frame[d].pc \in {"running", "selected"}
      /\ depth \in Nat /\ depth <= depth
  <2>1. depth > 0
    BY DEF CopyCommand, CopyRole, InFrame
  <2> QED
    BY <2>1, BelowRun
<1>1. UNCHANGED <<requestSeq, completedSeq, bridgeBusy, depth, request, sent, overlapped, clicks,
                  handler, cpc, next>>
  BY DEF CopyCommand, CopyRole, client, block
<1>2. /\ frame[depth].pc \in {"owned", "copyCommand", "copyRole"}
      /\ frame'[depth].pc \in {"copyCommand", "copyRole", "running"}
      /\ frame'[depth].seq = frame[depth].seq
      /\ \A d \in Depths : d # depth => frame'[d] = frame[d]
  BY CopyTyped
<1>3. ~overlapped => SentOnce' /\ Writing'
  BY <1>0, <1>1, CalmKept
<1>4. ~overlapped => Session'
  <2>1. ASSUME ~overlapped, requestSeq # 0 PROVE depth = 1
    BY <1>0, <1>2, <2>1 DEF CalmInv, Session, Stack
  <2> QED
    BY <1>1, <1>2, <2>1 DEF CalmInv, Session, Stack
<1>5. ~Awaited'
  BY <1>0, <1>1 DEF Awaited
<1>6. CASE CopyCommand
  <2>1. /\ frame'[depth].req.cmd = request.cmd /\ frame'[depth].req.click = request.click
        /\ frame[depth].pc \in {"owned", "copyCommand"} /\ frame'[depth].pc \in {"copyRole", "running"}
    BY <1>2, <1>6, CopyTyped
  <2>2. Takes /\ ~Takes'
    BY <1>0, <1>1, <1>2, <2>1 DEF Takes
  <2>3. \A d \in Depths : Holds(d)' => \/ d = depth /\ IsTrade(request)
                                       \/ d # depth /\ Holds(d) /\ frame'[d] = frame[d]
    BY <1>1, <1>2, <2>1 DEF Holds, IsTrade
  <2>4. ~overlapped => /\ Unsent(request)
                       /\ IsTrade(request) => \A d \in Depths : ~Holds(d)
    BY <2>2 DEF CalmInv, Offered
  <2>5. ~overlapped => OneHolder'
    BY <1>1, <2>1, <2>3, <2>4 DEF CalmInv, OneHolder, Unsent
  <2>6. ~overlapped => NewClick'
    BY <1>1, <2>1, <2>3 DEF CalmInv, NewClick
  <2> QED
    BY <1>1, <1>3, <1>4, <1>5, <2>2, <2>5, <2>6 DEF CalmInv, Offered
<1>7. CASE CopyRole
  <2>1. /\ frame'[depth].req.cmd = frame[depth].req.cmd
        /\ frame'[depth].req.click = frame[depth].req.click
        /\ \/ frame[depth].pc = "owned" /\ frame'[depth].pc = "copyCommand"
           \/ frame[depth].pc = "copyRole" /\ frame'[depth].pc = "running"
    BY <1>2, <1>7, CopyTyped
  <2>2. Takes' => Takes
    BY <1>0, <1>1, <1>2, <2>1 DEF Takes
  <2>3. \A d \in Depths : Holds(d)' => /\ Holds(d)
                                       /\ frame'[d].req.click = frame[d].req.click
    BY <1>1, <1>2, <2>1 DEF Holds, IsTrade
  <2>4. ~overlapped => OneHolder' /\ NewClick' /\ Offered'
    BY <1>1, <1>5, <2>2, <2>3 DEF CalmInv, OneHolder, NewClick, Offered, Unsent
  <2> QED
    BY <1>1, <1>3, <1>4, <2>4 DEF CalmInv
<1> QED
  BY <1>6, <1>7

\* A running callback selects a player, or ends; it may have sent the packet it
\* held.
LEMMA CalmOfRuns ==
  ASSUME TypeOK, TargetInv, CalmInv, Nested, RunStep
  PROVE  CalmInv'
<1>1. /\ UNCHANGED <<requestSeq, completedSeq, bridgeBusy, depth, request, overlapped, clicks, handler,
                     cpc, next>>
      /\ depth > 0 /\ frame[depth].pc \in {"running", "selected"}
  BY RunLeaves DEF InFrame, Top, client, block
<1>2. /\ depth \in Depths /\ frame \in [Depths -> Frames] /\ bridgeBusy \in {0, 1}
      /\ \A d \in Depths : d <= depth => d = depth \/ frame[d].pc \in {"running", "selected"}
      /\ depth \in Nat /\ depth <= depth /\ sent \in [Clicks -> Nat]
  BY <1>1, BelowRun DEF TypeOK, FactsOK
<1>3. /\ frame'[depth].pc \in {"selected", "answered"}
      /\ ~SelectForTrade => frame'[depth].pc = "answered"
      /\ frame'[depth].seq = frame[depth].seq /\ frame'[depth].req = frame[depth].req
      /\ \A d \in Depths : d # depth => frame'[d] = frame[d]
  BY MovesOf, CommandEnds DEF TopMoves
<1>4. \A d \in Depths : Holds(d)' => /\ Holds(d) /\ frame'[d].req = frame[d].req
                                     /\ d # depth \/ SelectForTrade
  BY <1>1, <1>3 DEF Holds
<1>5. ~Takes' /\ ~Awaited'
  BY <1>1, <1>2, <1>3 DEF Takes, Awaited
<1>6. ~overlapped => Offered' /\ Writing' /\ Session'
  <2>1. ~overlapped => cpc \notin {"command", "role", "publish"}
    BY <1>1, <1>2 DEF CalmInv, Writing
  <2>2. ASSUME ~overlapped, requestSeq # 0 PROVE depth = 1 /\ bridgeBusy = 1
    BY <1>1, <1>2, <2>2 DEF CalmInv, Session, Stack
  <2>3. ~overlapped => Session'
    BY <1>1, <1>3, <2>2 DEF CalmInv, Session, Stack
  <2> QED
    BY <1>1, <1>5, <2>1, <2>3 DEF Offered, Writing
<1>7. CASE sent' = sent
  <2>1. ~overlapped => SentOnce' /\ OneHolder' /\ NewClick'
    BY <1>1, <1>4, <1>7 DEF CalmInv, SentOnce, OneHolder, NewClick
  <2> QED
    BY <1>1, <1>6, <2>1 DEF CalmInv
<1>8. CASE SendTradePacket
  <2> DEFINE c == frame[depth].req.click
  <2>1. frame[depth].pc = "selected" /\ sent' = [sent EXCEPT ![c] = sent[c] + 1]
    BY <1>8 DEF SendTradePacket, InFrame, Top
  <2>2. IsTrade(frame[depth].req) /\ c \in 1 .. clicks
    BY <1>2, <2>1 DEF TargetInv, CopiedOK, Counted, IsTrade
  <2>3. Holds(depth)
    BY <1>1, <1>2, <2>2 DEF Holds
  <2>4. c \in Clicks /\ c <= clicks /\ clicks \in Nat /\ \A k \in Clicks : k \in Nat
    BY <2>2, TradeTestAssumption DEF TypeOK, FactsOK, Clicks, TradeTestAssumption
  <2>5. ~overlapped => sent[c] = 0
    BY <1>2, <2>3 DEF CalmInv, OneHolder
  <2>6. frame'[depth].pc = "answered"
    BY <1>8, <2>1, MovesOf, <1>3 DEF TopMoves
  <2>7. ~overlapped => \A d \in Depths : ~Holds(d)'
    <3>1. ASSUME ~overlapped, NEW d \in Depths, Holds(d)' PROVE FALSE
      <4>1. Holds(d)
        BY <1>4, <3>1
      <4>2. d = depth
        BY <1>2, <2>3, <3>1, <4>1 DEF CalmInv, OneHolder
      <4> QED
        BY <2>6, <3>1, <4>2 DEF Holds
    <3> QED
      BY <3>1
  <2>8. \A k \in Clicks : sent'[k] = IF k = c THEN sent[c] + 1 ELSE sent[k]
    BY <1>2, <2>1, <2>4
  <2>9. ~overlapped => SentOnce'
    <3>1. \A k \in Clicks : k > clicks => k # c
      BY <2>4
    <3> QED
      BY <1>1, <2>5, <2>8, <3>1 DEF CalmInv, SentOnce
  <2>10. ~overlapped => OneHolder'
    BY <2>7 DEF OneHolder
  <2>11. ~overlapped => NewClick'
    <3>1. ASSUME ~overlapped, handler = "SendTrade", cpc \in {"attach", "write", "command"}
          PROVE  c # clicks /\ sent[clicks] = 0 /\ (IsTrade(request) => request.click # clicks)
      BY <1>2, <2>3, <3>1 DEF CalmInv, NewClick
    <3>2. c # clicks => sent'[clicks] = sent[clicks]
      BY <1>2, <2>1
    <3> QED
      BY <1>1, <2>7, <3>1, <3>2 DEF NewClick
  <2> QED
    BY <1>1, <1>6, <2>9, <2>10, <2>11 DEF CalmInv
<1> QED
  BY <1>7, <1>8, RunLeaves

\* The answer is written, the number completed, the flag released.
LEMMA CalmOfAnswers ==
  ASSUME TypeOK, CalmInv, Nested, Respond \/ Complete \/ Release
  PROVE  CalmInv'
<1>1. /\ UNCHANGED <<requestSeq, request, sent, overlapped, clicks, handler, cpc, next>>
      /\ depth > 0 /\ frame[depth].pc \in {"answered", "responded", "completed"}
  BY DEF Respond, Complete, Release, InFrame, Top, client, block, past, facts
<1>2. /\ depth \in Depths /\ frame \in [Depths -> Frames] /\ bridgeBusy \in {0, 1}
      /\ \A d \in Depths : d <= depth => d = depth \/ frame[d].pc \in {"running", "selected"}
      /\ \A d \in Depths : d <= depth - 1 <=> d <= depth /\ d # depth
      /\ depth \in Nat /\ depth <= depth
  BY <1>1, BelowRun
<1>3. ~overlapped => SentOnce' /\ Writing'
  BY <1>1, CalmKept
<1>4. ASSUME ~overlapped, requestSeq # 0
      PROVE  depth = 1 /\ bridgeBusy = 1 /\ frame[1].seq = requestSeq
             /\ (frame[1].pc = "completed" => completedSeq = requestSeq)
  BY <1>1, <1>2, <1>4 DEF CalmInv, Session, Stack
<1>5. CASE Respond \/ Complete
  <2>1. /\ UNCHANGED <<bridgeBusy, depth>>
        /\ frame'[depth].pc \in {"responded", "completed"}
        /\ frame'[depth].pc = "completed" => completedSeq' = frame[depth].seq
        /\ frame'[depth].seq = frame[depth].seq
        /\ \A d \in Depths : d # depth => frame'[d] = frame[d]
    BY <1>5, MovesOf DEF Respond, Complete, TopMoves, Top
  <2>2. \A d \in Depths : Holds(d)' => Holds(d) /\ frame'[d] = frame[d]
    BY <2>1 DEF Holds
  <2>3. ~Takes' /\ ~Awaited'
    BY <1>1, <1>2, <2>1 DEF Takes, Awaited
  <2>4. ~overlapped => OneHolder' /\ NewClick' /\ Offered'
    BY <1>1, <2>2, <2>3 DEF CalmInv, OneHolder, NewClick, Offered
  <2>5. ~overlapped => Session'
    BY <1>1, <1>4, <2>1 DEF CalmInv, Session, Stack
  <2> QED
    BY <1>1, <1>3, <2>4, <2>5 DEF CalmInv
<1>6. CASE Release
  <2>1. /\ bridgeBusy' = 0 /\ depth' = depth - 1 /\ completedSeq' = completedSeq
        /\ frame[depth].pc = "completed" /\ \A d \in Depths : d # depth => frame'[d] = frame[d]
    BY <1>6, FrameDropped DEF Release, InFrame, Top
  <2>2. \A d \in Depths : Holds(d)' => Holds(d) /\ frame'[d] = frame[d]
    BY <1>2, <2>1 DEF Holds
  <2>3. ~Takes'
    BY <1>2, <2>1 DEF Takes
  <2>4. ~overlapped => ~Awaited'
    BY <1>1, <1>4, <2>1 DEF Awaited
  <2>5. ~overlapped => OneHolder' /\ NewClick' /\ Offered'
    BY <1>1, <2>2, <2>3, <2>4 DEF CalmInv, OneHolder, NewClick, Offered
  <2>6. ~overlapped => Session'
    <3>1. CASE requestSeq = 0
      BY <1>1, <3>1 DEF CalmInv, Session
    <3>2. CASE requestSeq # 0
      BY <1>1, <1>4, <2>1, <3>2 DEF Session, Stack
    <3> QED
      BY <3>1, <3>2
  <2> QED
    BY <1>1, <1>3, <2>5, <2>6 DEF CalmInv
<1> QED
  BY <1>5, <1>6

\* As long as no Call overlaps an unfinished one, a click sends one packet; an
\* Attach over a running callback does not change that.
THEOREM OnePacketPerClick == Spec => []OneTradePerCalmClick
<1>1. TypeOK /\ Nested /\ TargetInv /\ CalmInv /\ [Next]_vars => CalmInv'
  <2> SUFFICES ASSUME TypeOK, Nested, TargetInv, CalmInv, [Next]_vars PROVE CalmInv'
    OBVIOUS
  <2>1. CASE WakeUnhooked \/ UNCHANGED vars
    <3>1. UNCHANGED <<requestSeq, completedSeq, bridgeBusy, request, depth, frame, sent, overlapped,
                      clicks, handler, cpc, next>>
      BY <2>1 DEF WakeUnhooked, vars, app, client, block, game, facts, past
    <3> QED
      BY <3>1 DEF CalmInv, SentOnce, OneHolder, Offered, NewClick, Writing, Session, Stack,
                  Holds, Takes, Awaited, Unsent
  <2>2. CASE CallbackStep
    BY <2>2, CalmOfClaims, CalmOfCopies, CalmOfRuns, CalmOfAnswers DEF CallbackStep, RunStep
  <2> QED
    BY <2>1, <2>2, CalmOfUser, CalmOfCalls, CalmOfEnter DEF Next
<1>2. CalmInv => OneTradePerCalmClick
  BY DEF CalmInv, SentOnce, OneTradePerCalmClick
<1> QED
  BY <1>1, <1>2, TypeCorrect, TargetAlways, CalmInitially, PTL DEF Spec

=============================================================================
