----------------------------- MODULE TradeTest -----------------------------
(***************************************************************************)
(* AutoTradeTest (v0.1.1): the App window that scans nearby players and    *)
(* sends one trade request per click, its BridgeClient, and ProcessRequest *)
(* on the game's message thread.  Unlike the later Item Consolidator this  *)
(* client keeps no note of a request that timed out, so Calls may overlap; *)
(* the module says what still holds then, and what does not.               *)
(*                                                                         *)
(* The request has two fields, command and role id, that Call stores and   *)
(* the hook copies with plain accesses and no lock: a hook that copies     *)
(* while another Call writes may get the command of one and the role of    *)
(* the other.                                                              *)
(*                                                                         *)
(* Every click on the trade button has a number 1, 2, ...; the command it  *)
(* stores carries that number as history.                                  *)
(***************************************************************************)
EXTENDS Naturals

CONSTANTS Roles,        \* players near the character
          NoRole,       \* role id 0
          MaxPolls,     \* limit of the Trade UI poll (40 in the code)
          MaxClicks,    \* bound: clicks on the trade button
          MaxCommands,  \* bound: buttons pressed that make a Call
          MaxSessions,  \* bound: Attach calls
          MaxWakes,     \* bound: wake messages queued at once
          MaxDepth      \* bound: nested hook callbacks

ASSUME TradeTestAssumption ==
  /\ NoRole \notin Roles
  /\ MaxPolls \in Nat \ {0} /\ MaxWakes \in Nat \ {0} /\ MaxDepth \in Nat \ {0}
  /\ MaxClicks \in Nat /\ MaxCommands \in Nat /\ MaxSessions \in Nat

Clicks == 1 .. MaxClicks
Depths == 1 .. MaxDepth
Commands == {"Probe", "QueryTeam", "SelectTarget", "SelectAndTrade", "QueryTradeUi"}

VARIABLES
  \* App
  players, target, pollActive, pollCount, timerQueued,
  \* App::Call and BridgeClient: the handler that is calling, and its step
  handler, cpc, next, attached,
  \* SharedBlock
  requestSeq, completedSeq, bridgeBusy, request, response,
  \* game thread and game
  wakes, depth, frame, selected,
  \* history
  clicks, clickRole, sent, written, fresh, overlapped, sessions, commands

app    == <<players, target, pollActive, pollCount, timerQueued>>
client == <<handler, cpc, next, attached>>
block  == <<requestSeq, completedSeq, bridgeBusy, request, response>>
game   == <<wakes, depth, frame, selected>>
facts  == <<clicks, clickRole, sent, written, fresh, overlapped, sessions>>
past   == <<facts, commands>>
vars   == <<app, client, block, game, past>>

\* What runs a Call: a button, or the poll timer.
Handlers == {"none", "Probe", "QueryPlayers", "SelectTargetOnly", "SendTrade",
             "ManualCheck", "PollCheck"}

CommandOf == [h \in Handlers |->
  CASE h = "none" -> "None"
    [] h = "Probe" -> "Probe"
    [] h = "QueryPlayers" -> "QueryTeam"
    [] h = "SelectTargetOnly" -> "SelectTarget"
    [] h = "SendTrade" -> "SelectAndTrade"
    [] h \in {"ManualCheck", "PollCheck"} -> "QueryTradeUi"]

Requests  == [cmd : Commands \cup {"None"}, role : Roles \cup {NoRole},
              click : Clicks \cup {0}]
Responses == [of : Requests, ok : BOOLEAN, visible : BOOLEAN, found : SUBSET Roles]
NoRequest == [cmd |-> "None", role |-> NoRole, click |-> 0]
NoResponse == [of |-> NoRequest, ok |-> FALSE, visible |-> FALSE, found |-> {}]
NoFrame == [pc |-> "read", seq |-> 0, req |-> NoRequest, raced |-> FALSE, res |-> NoResponse]

Init ==
  /\ players = {} /\ target = NoRole
  /\ pollActive = FALSE /\ pollCount = 0 /\ timerQueued = FALSE
  /\ handler = "none" /\ cpc = "idle" /\ next = 0 /\ attached = FALSE
  /\ requestSeq = 0 /\ completedSeq = 0 /\ bridgeBusy = 0
  /\ request = NoRequest /\ response = NoResponse
  /\ wakes = 0 /\ depth = 0 /\ frame = [d \in Depths |-> NoFrame]
  /\ selected = NoRole
  /\ clicks = 0 /\ clickRole = [c \in Clicks |-> NoRole]
  /\ sent = [c \in Clicks |-> 0] /\ written = FALSE
  /\ fresh = TRUE /\ overlapped = FALSE /\ sessions = 0 /\ commands = 0

----------------------------------------------------------------------------
(* App: buttons and timer *)

StopTradePoll == pollActive' = FALSE /\ pollCount' = 0

\* The handler is entered; EnsureAttach and BridgeClient::Call follow.
Begin(h) == handler' = h /\ cpc' = "attach"

UserMayCall == cpc = "idle" /\ commands < MaxCommands /\ commands' = commands + 1

ScanClients ==
  /\ cpc = "idle"
  /\ attached' = FALSE
  /\ StopTradePoll /\ players' = {} /\ target' = NoRole
  /\ UNCHANGED <<timerQueued, handler, cpc, next, block, game, past>>

ChoosePlayer ==
  /\ cpc = "idle"
  /\ target' \in players
  /\ UNCHANGED <<players, pollActive, pollCount, timerQueued, client, block, game, past>>

Probe ==
  /\ UserMayCall
  /\ Begin("Probe")
  /\ UNCHANGED <<app, next, attached, block, game, facts>>

QueryPlayers ==
  /\ UserMayCall
  /\ StopTradePoll
  /\ Begin("QueryPlayers")
  /\ UNCHANGED <<players, target, timerQueued, next, attached, block, game, facts>>

\* Both buttons stop the poll before they look at the selected player.
NoPlayerChosen ==
  /\ cpc = "idle" /\ target = NoRole
  /\ StopTradePoll
  /\ UNCHANGED <<players, target, timerQueued, client, block, game, past>>

SelectTargetOnly ==
  /\ UserMayCall /\ target # NoRole
  /\ StopTradePoll
  /\ Begin("SelectTargetOnly")
  /\ UNCHANGED <<players, target, timerQueued, next, attached, block, game, facts>>

SendTrade ==
  /\ UserMayCall /\ target # NoRole /\ clicks < MaxClicks
  /\ StopTradePoll
  /\ Begin("SendTrade")
  /\ clicks' = clicks + 1
  /\ clickRole' = [clickRole EXCEPT ![clicks + 1] = target]
  /\ UNCHANGED <<players, target, timerQueued, next, attached, block, game,
                 sent, written, fresh, overlapped, sessions>>

CheckTradeUi ==
  /\ UserMayCall
  /\ Begin("ManualCheck")
  /\ UNCHANGED <<app, next, attached, block, game, facts>>

\* KillTimer leaves a WM_TIMER that is already queued in the queue.
TimerElapses ==
  /\ pollActive /\ ~timerQueued
  /\ timerQueued' = TRUE
  /\ UNCHANGED <<players, target, pollActive, pollCount, client, block, game, past>>

\* Mutant: at the limit the handler returns without a last check, and so
\* without stopping the poll.
PollReturnsAtLimit ==
  /\ cpc = "idle" /\ timerQueued
  /\ timerQueued' = FALSE
  /\ IF pollCount + 1 >= MaxPolls
     THEN UNCHANGED <<pollCount, handler, cpc>>
     ELSE pollCount' = pollCount + 1 /\ Begin("PollCheck")
  /\ UNCHANGED <<players, target, pollActive, next, attached, block, game, past>>

PollTradeUi ==
  /\ cpc = "idle" /\ timerQueued
  /\ pollCount <= MaxPolls   \* bound: above the limit of the code
  /\ timerQueued' = FALSE
  /\ pollCount' = pollCount + 1
  /\ Begin("PollCheck")
  /\ UNCHANGED <<players, target, pollActive, next, attached, block, game, past>>

----------------------------------------------------------------------------
(* The end of each handler, when its Call failed or was answered *)

Leave == handler' = "none" /\ cpc' = "idle" /\ next' = 0

AfterFailure ==
  /\ Leave
  /\ IF handler = "PollCheck" THEN StopTradePoll ELSE UNCHANGED <<pollActive, pollCount>>
  /\ UNCHANGED <<players, target, timerQueued>>

AfterTeamScan ==
  /\ handler = "QueryPlayers"
  /\ players' = response.found
  /\ target' \in IF response.found = {} THEN {NoRole} ELSE response.found
  /\ UNCHANGED <<pollActive, pollCount>>

\* SetTimer may fail; the poll then stays off.
AfterTrade ==
  /\ handler = "SendTrade"
  /\ pollActive' \in BOOLEAN /\ pollCount' = 0
  /\ UNCHANGED <<players, target>>

\* Mutant: one poll too many.
AfterCheckOffByOne ==
  /\ handler \in {"ManualCheck", "PollCheck"}
  /\ IF \/ response.visible
        \/ handler = "PollCheck" /\ pollActive /\ pollCount > MaxPolls
     THEN StopTradePoll
     ELSE UNCHANGED <<pollActive, pollCount>>
  /\ UNCHANGED <<players, target>>

AfterCheck ==
  /\ handler \in {"ManualCheck", "PollCheck"}
  /\ IF \/ response.visible
        \/ handler = "PollCheck" /\ pollActive /\ pollCount >= MaxPolls
     THEN StopTradePoll
     ELSE UNCHANGED <<pollActive, pollCount>>
  /\ UNCHANGED <<players, target>>

AfterOther ==
  /\ handler \in {"Probe", "SelectTargetOnly"}
  /\ UNCHANGED <<players, target, pollActive, pollCount>>

AfterAnswer ==
  /\ Leave
  /\ AfterTeamScan \/ AfterTrade \/ AfterCheck \/ AfterOther
  /\ UNCHANGED timerQueued

----------------------------------------------------------------------------
(* EnsureAttach and BridgeClient::Call *)

Top == frame[depth]
InFrame(pc) == depth > 0 /\ Top.pc = pc

PostWake == wakes' = IF wakes < MaxWakes THEN wakes + 1 ELSE wakes

AlreadyAttached ==
  /\ cpc = "attach" /\ attached
  /\ cpc' = "write"
  /\ UNCHANGED <<app, handler, next, attached, block, game, past>>

\* Attach maps the block and zeroes it, also over a callback that still runs.
ZeroBlock ==
  /\ requestSeq' = 0 /\ completedSeq' = 0 /\ bridgeBusy' = 0
  /\ request' = NoRequest /\ response' = NoResponse
  /\ fresh' = (depth = 0)

Attach ==
  /\ cpc = "attach" /\ ~attached /\ sessions < MaxSessions
  /\ sessions' = sessions + 1
  /\ ZeroBlock
  /\ attached' = TRUE /\ PostWake
  /\ cpc' = "write"
  /\ UNCHANGED <<app, handler, next, depth, frame, selected, clicks, clickRole, sent,
                 written, overlapped, commands>>

\* The block cannot be mapped.
AttachFails ==
  /\ cpc = "attach" /\ ~attached
  /\ AfterFailure
  /\ UNCHANGED <<attached, block, game, past>>

\* The bridge cannot be loaded, hooked or woken: the block is zeroed already.
HookFails ==
  /\ cpc = "attach" /\ ~attached
  /\ ZeroBlock
  /\ AfterFailure
  /\ UNCHANGED <<attached, game, clicks, clickRole, sent, written, overlapped,
                 sessions, commands>>

\* Call takes a number, zeroes the request and stores its command and its role
\* id, plain stores in either order; the zeroes may be merged with them, so the
\* field that waits for its store is the old one or zero.
FirstStore ==
  /\ cpc = "write"
  /\ next' = requestSeq + 1
  /\ overlapped' = (overlapped \/ depth > 0 \/ requestSeq # completedSeq)

SecondStore(step) == cpc = step /\ cpc' = "publish" /\ UNCHANGED <<next, overlapped>>

Store(new) ==
  /\ request' = new
  /\ written' = (written \/ InFrame("copyCommand") \/ InFrame("copyRole"))
  /\ UNCHANGED <<app, handler, attached, requestSeq, completedSeq, bridgeBusy, response,
                 game, clicks, clickRole, sent, fresh, sessions, commands>>

WriteCommand ==
  /\ \/ FirstStore /\ cpc' = "role"
     \/ SecondStore("command")
  /\ \E old \in IF cpc = "write" THEN {request, NoRequest} ELSE {request} :
       Store([old EXCEPT !.cmd = CommandOf[handler],
                         !.click = IF handler = "SendTrade" THEN clicks ELSE 0])

WriteRole ==
  /\ \/ FirstStore /\ cpc' = "command"
     \/ SecondStore("role")
  /\ \E old \in IF cpc = "write" THEN {request, NoRequest} ELSE {request} :
       Store([old EXCEPT !.role =
                IF handler \in {"SelectTargetOnly", "SendTrade"} THEN target ELSE NoRole])

Publish ==
  /\ cpc = "publish"
  /\ requestSeq' = next
  /\ cpc' = "post"
  /\ UNCHANGED <<app, handler, next, attached, completedSeq, bridgeBusy, request,
                 response, game, past>>

Post ==
  /\ cpc = "post"
  /\ PostWake
  /\ cpc' = "waiting"
  /\ UNCHANGED <<app, handler, next, attached, block, depth, frame, selected, past>>

PostFails ==
  /\ cpc = "post"
  /\ AfterFailure
  /\ UNCHANGED <<attached, block, game, past>>

\* Mutant: the handler goes on whatever the bridge reports.
ReturnUnchecked ==
  /\ cpc = "waiting" /\ completedSeq = next
  /\ AfterAnswer
  /\ UNCHANGED <<attached, block, game, past>>

\* The handler goes on only if the bridge reports success.
Return ==
  /\ cpc = "waiting" /\ completedSeq = next
  /\ IF response.ok THEN AfterAnswer ELSE AfterFailure
  /\ UNCHANGED <<attached, block, game, past>>

Timeout ==
  /\ cpc = "waiting"
  /\ AfterFailure
  /\ UNCHANGED <<attached, block, game, past>>

----------------------------------------------------------------------------
(* ProcessRequest *)

LeaveFrame == depth' = depth - 1 /\ frame' = [frame EXCEPT ![depth] = NoFrame]

\* Mutant: the hook does not compare the number with completedSeq.
EnterUnchecked ==
  /\ wakes > 0 /\ attached /\ depth < MaxDepth
  /\ depth > 0 => Top.pc \in {"running", "selected"}
  /\ wakes' = wakes - 1
  /\ IF requestSeq = 0
     THEN UNCHANGED <<depth, frame>>
     ELSE /\ depth' = depth + 1
          /\ frame' = [frame EXCEPT ![depth + 1] = [NoFrame EXCEPT !.seq = requestSeq]]
  /\ UNCHANGED <<app, client, block, selected, past>>

Enter ==
  /\ wakes > 0 /\ attached /\ depth < MaxDepth
  /\ depth > 0 => Top.pc \in {"running", "selected"}
  /\ wakes' = wakes - 1
  /\ IF requestSeq = 0 \/ requestSeq = completedSeq
     THEN UNCHANGED <<depth, frame>>
     ELSE /\ depth' = depth + 1
          /\ frame' = [frame EXCEPT ![depth + 1] = [NoFrame EXCEPT !.seq = requestSeq]]
  /\ UNCHANGED <<app, client, block, selected, past>>

\* Mutant: the flag is incremented instead of compared and exchanged.
ClaimBusyByIncrement ==
  /\ InFrame("read")
  /\ bridgeBusy' = bridgeBusy + 1
  /\ frame' = [frame EXCEPT ![depth].pc = "owned"]
  /\ UNCHANGED <<app, client, requestSeq, completedSeq, request, response,
                 wakes, depth, selected, past>>

ClaimBusy ==
  /\ InFrame("read") /\ bridgeBusy = 0
  /\ bridgeBusy' = 1
  /\ frame' = [frame EXCEPT ![depth].pc = "owned"]
  /\ UNCHANGED <<app, client, requestSeq, completedSeq, request, response,
                 wakes, depth, selected, past>>

BusyReturn ==
  /\ InFrame("read") /\ bridgeBusy # 0
  /\ LeaveFrame
  /\ UNCHANGED <<app, client, block, wakes, selected, past>>

\* const Request request = g_shared->request: two plain loads in either order.
\* The copy has raced if a Call is half-way through its stores at the first
\* load, or stores before the second.
Copied(field, rest) ==
  IF Top.pc = "owned"
  THEN /\ frame' = [frame EXCEPT ![depth] = [field EXCEPT !.pc = rest]]
       /\ written' = (cpc \in {"command", "role"})
  ELSE /\ frame' = [frame EXCEPT ![depth] = [field EXCEPT !.pc = "running", !.raced = written]]
       /\ written' = FALSE

CopyCommand ==
  /\ InFrame("owned") \/ InFrame("copyCommand")
  /\ Copied([Top EXCEPT !.req.cmd = request.cmd, !.req.click = request.click], "copyRole")
  /\ UNCHANGED <<app, client, block, wakes, depth, selected, clicks, clickRole,
                 sent, fresh, overlapped, sessions, commands>>

CopyRole ==
  /\ InFrame("owned") \/ InFrame("copyRole")
  /\ Copied([Top EXCEPT !.req.role = request.role], "copyCommand")
  /\ UNCHANGED <<app, client, block, wakes, depth, selected, clicks, clickRole,
                 sent, fresh, overlapped, sessions, commands>>

Ends(res) == frame' = [frame EXCEPT ![depth].pc = "answered", ![depth].res = res]
Failed == [NoResponse EXCEPT !.of = Top.req]
Done == [Failed EXCEPT !.ok = TRUE]

\* A command that is refused or fails before it has an effect: an unknown
\* command, no Unity main thread, role id 0, a map change, no team list, no
\* SelectTarget in the game.  Probe cannot fail.
RunFails ==
  /\ InFrame("running") /\ Top.req.cmd # "Probe"
  /\ Ends(Failed)
  /\ UNCHANGED <<app, client, block, wakes, depth, selected, past>>

RunProbe ==
  /\ InFrame("running") /\ Top.req.cmd = "Probe"
  /\ Ends(Done)
  /\ UNCHANGED <<app, client, block, wakes, depth, selected, past>>

RunQueryTeam ==
  /\ InFrame("running") /\ Top.req.cmd = "QueryTeam"
  /\ \E found \in SUBSET Roles : Ends([Done EXCEPT !.found = found])
  /\ UNCHANGED <<app, client, block, wakes, depth, selected, past>>

\* DirectSelectTarget asks the game to select the player of the request; the
\* game selects some player, or none, and the selected player is read back.
Selects(player) ==
  /\ InFrame("running") /\ Top.req.cmd \in {"SelectTarget", "SelectAndTrade"}
  /\ Top.req.role # NoRole
  /\ selected' = player
  /\ UNCHANGED <<app, client, block, wakes, depth, past>>

\* The selected player is another one, or cannot be read.
SelectFails ==
  /\ \E player \in Roles \cup {NoRole} : Selects(player)
  /\ Ends(Failed)

RunSelectTarget ==
  /\ Selects(Top.req.role) /\ Top.req.cmd = "SelectTarget"
  /\ Ends(Done)

\* Mutant: the selected player is not read back.
SelectForTradeUnverified ==
  /\ \E player \in Roles \cup {NoRole} : Selects(player)
  /\ Top.req.cmd = "SelectAndTrade"
  /\ frame' = [frame EXCEPT ![depth].pc = "selected"]

\* The first half of ExecuteTradeRequest: only the selected player's own role id
\* lets it go on to the packet.
SelectForTrade ==
  /\ Selects(Top.req.role) /\ Top.req.cmd = "SelectAndTrade"
  /\ frame' = [frame EXCEPT ![depth].pc = "selected"]

\* The trade constants cannot be read from the game.
ConstantsFail ==
  /\ InFrame("selected")
  /\ Ends(Failed)
  /\ UNCHANGED <<app, client, block, wakes, depth, selected, past>>

\* The packet leaves for the role of the request; SendPacket may still raise
\* and be reported as failed.
SendTradePacket ==
  /\ InFrame("selected")
  /\ \E res \in {Done, Failed} : Ends(res)
  /\ sent' = [sent EXCEPT ![Top.req.click] = @ + 1]
  /\ UNCHANGED <<app, client, block, wakes, depth, selected, clicks, clickRole,
                 written, fresh, overlapped, sessions, commands>>

\* The two players open and close the trade window at any time.
RunQueryTradeUi ==
  /\ InFrame("running") /\ Top.req.cmd = "QueryTradeUi"
  /\ \E visible \in BOOLEAN : Ends([Done EXCEPT !.visible = visible])
  /\ UNCHANGED <<app, client, block, wakes, depth, selected, past>>

\* Mutant: the number is completed before the response is in the block.
RespondTooLate ==
  /\ InFrame("answered")
  /\ completedSeq' = Top.seq
  /\ frame' = [frame EXCEPT ![depth].pc = "responded"]
  /\ UNCHANGED <<app, client, requestSeq, bridgeBusy, request, response,
                 wakes, depth, selected, past>>

\* FinishRequest: response, then the number, then the flag.
Respond ==
  /\ InFrame("answered")
  /\ response' = Top.res
  /\ frame' = [frame EXCEPT ![depth].pc = "responded"]
  /\ UNCHANGED <<app, client, requestSeq, completedSeq, bridgeBusy, request,
                 wakes, depth, selected, past>>

Complete ==
  /\ InFrame("responded")
  /\ completedSeq' = Top.seq
  /\ frame' = [frame EXCEPT ![depth].pc = "completed"]
  /\ UNCHANGED <<app, client, requestSeq, bridgeBusy, request, response,
                 wakes, depth, selected, past>>

Release ==
  /\ InFrame("completed")
  /\ bridgeBusy' = 0
  /\ LeaveFrame
  /\ UNCHANGED <<app, client, requestSeq, completedSeq, request, response,
                 wakes, selected, past>>

\* A wake message that is dispatched after the hook was removed.
WakeUnhooked ==
  /\ wakes > 0 /\ ~attached
  /\ wakes' = wakes - 1
  /\ UNCHANGED <<app, client, block, depth, frame, selected, past>>

----------------------------------------------------------------------------
UserStep ==
  \/ ScanClients \/ ChoosePlayer \/ Probe \/ QueryPlayers \/ NoPlayerChosen
  \/ SelectTargetOnly \/ SendTrade \/ CheckTradeUi

CallStep ==
  \/ AlreadyAttached \/ Attach \/ AttachFails \/ HookFails \/ WriteCommand \/ WriteRole
  \/ Publish \/ Post \/ PostFails \/ Return \/ Timeout

CallbackStep ==
  \/ ClaimBusy \/ BusyReturn \/ CopyCommand \/ CopyRole
  \/ RunFails \/ RunProbe \/ RunQueryTeam \/ SelectFails \/ RunSelectTarget
  \/ SelectForTrade \/ ConstantsFail \/ SendTradePacket \/ RunQueryTradeUi
  \/ Respond \/ Complete \/ Release

Next ==
  \/ UserStep \/ TimerElapses \/ PollTradeUi \/ CallStep
  \/ Enter \/ CallbackStep \/ WakeUnhooked

Spec == Init /\ [][Next]_vars

(* The timer keeps elapsing, the window dispatches its message, and a Call  *)
(* always ends: by an answer, an error or its deadline.                     *)
Fairness == WF_vars(TimerElapses) /\ WF_vars(PollTradeUi) /\ WF_vars(CallStep)

FairSpec == Spec /\ Fairness

----------------------------------------------------------------------------
Steps == {"idle", "attach", "write", "command", "role", "publish", "post", "waiting"}
Pcs == {"read", "owned", "copyCommand", "copyRole", "running", "selected", "answered",
        "responded", "completed"}
Frames == [pc : Pcs, seq : Nat, req : Requests, raced : BOOLEAN, res : Responses]

AppOK ==
  /\ players \subseteq Roles /\ target \in Roles \cup {NoRole}
  /\ pollActive \in BOOLEAN /\ pollCount \in Nat /\ timerQueued \in BOOLEAN

ClientOK == handler \in Handlers /\ cpc \in Steps /\ next \in Nat /\ attached \in BOOLEAN

BlockOK ==
  /\ requestSeq \in Nat /\ completedSeq \in Nat /\ bridgeBusy \in {0, 1}
  /\ request \in Requests /\ response \in Responses

GameOK ==
  /\ wakes \in 0 .. MaxWakes /\ depth \in 0 .. MaxDepth
  /\ frame \in [Depths -> Frames] /\ selected \in Roles \cup {NoRole}

FactsOK ==
  /\ clicks \in 0 .. MaxClicks /\ clickRole \in [Clicks -> Roles \cup {NoRole}]
  /\ sent \in [Clicks -> Nat] /\ sessions \in 0 .. MaxSessions
  /\ written \in BOOLEAN /\ fresh \in BOOLEAN /\ overlapped \in BOOLEAN

TypeOK == AppOK /\ ClientOK /\ BlockOK /\ GameOK /\ FactsOK /\ commands \in 0 .. MaxCommands

\* However Calls overlap, a Call of a session that began with no callback
\* running takes only the answer to its own request (Call, completedSeq == next).
AnswerIsOwn ==
  fresh /\ cpc = "waiting" /\ completedSeq = next => response.of = request

\* However Calls overlap, time out and are carried out late, a trade packet
\* goes to the player chosen at the click it belongs to, unless a Call wrote
\* the request while the hook copied it (Call, ProcessRequest: no lock; such a
\* copy may hold the role of the other Call).  In a session that began with no
\* callback running, that player is the one the game has selected when the
\* packet leaves (DirectSelectTarget, read back before the send).
NeverWrongTarget ==
  [][\A c \in Clicks : sent'[c] # sent[c] =>
       /\ ~Top.raced => Top.req.role = clickRole[c]
       /\ fresh => selected = Top.req.role]_vars

\* The window waits for the Trade UI only after the packet of the latest
\* click has left (SendTrade starts the timer, every other handler stops it).
PollMeansSent == fresh /\ pollActive => clicks > 0 /\ sent[clicks] > 0

\* As long as no Call overlaps an unfinished one, a click sends one packet.
OneTradePerCalmClick == ~overlapped => \A c \in Clicks : sent[c] <= 1

\* The poll never outlives its limit, even when a WM_TIMER queued before
\* KillTimer is counted for the next poll (PollTradeUi, tradePollCount_ >= 40).
PollWithinLimit == cpc = "idle" /\ pollActive => pollCount < MaxPolls

\* The automatic check of the Trade UI ends (PollTradeUi, "SAU 30 GIAY").
PollEnds == pollActive ~> ~pollActive

=============================================================================
