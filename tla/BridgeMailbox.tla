--------------------------- MODULE BridgeMailbox ---------------------------
(***************************************************************************)
(* The request/answer exchange of the Item Consolidator (v0.6.1.6) between *)
(* BridgeClient, which runs on the controller's UI thread, and             *)
(* ProcessRequest, which the WH_GETMESSAGE hook runs on the game's message *)
(* thread.  Both sides share one block of memory; a posted wake message    *)
(* makes the hook look at it.                                              *)
(*                                                                         *)
(* A Call is identified by its number 1, 2, ...; the command and arguments *)
(* it writes are abstracted to that number (0 is a zeroed block), so that  *)
(* "which request does this answer belong to" can be asked.                *)
(***************************************************************************)
EXTENDS Naturals

CONSTANTS MaxCalls,     \* bound: Calls that publish a request
          MaxSessions,  \* bound: successful or failed Attach calls
          MaxWakes,     \* bound: wake messages queued at once (more are merged)
          MaxLost,      \* bound: wake messages that vanish without a callback
          MaxDepth      \* bound: nesting of hook callbacks on the game thread

ASSUME BoundsAssumption ==
  /\ MaxCalls \in Nat /\ MaxSessions \in Nat /\ MaxLost \in Nat
  /\ MaxWakes \in Nat \ {0}
  /\ MaxDepth \in Nat \ {0}

Ids == 1 .. MaxCalls
Depths == 1 .. MaxDepth

VARIABLES
  \* BridgeClient
  attached, pendingSeq, cpc, next,
  \* SharedBlock
  requestSeq, completedSeq, bridgeBusy, request, response,
  \* game thread: queued wake messages and the stack of running callbacks
  wakes, depth, frame,
  \* history
  calls,     \* number of the latest Call that wrote a request
  runs,      \* how often the command of each Call has been started
  answers,   \* pairs <<call, call whose command produced its answer>>
  clean,     \* no callback was running when this session attached and no
             \* post of it failed
  sessions, lost

client == <<attached, pendingSeq, cpc, next>>
block  == <<requestSeq, completedSeq, bridgeBusy, request, response>>
game   == <<wakes, depth, frame>>
past   == <<calls, runs, answers, clean, sessions, lost>>
vars   == <<client, block, game, past>>

Frames == [pc : {"read", "owned", "executing", "responded", "completed"},
           seq : Nat, cmd : 0 .. MaxCalls]
NoFrame == [pc |-> "read", seq |-> 0, cmd |-> 0]

Init ==
  /\ attached = FALSE /\ pendingSeq = 0 /\ cpc = "idle" /\ next = 0
  /\ requestSeq = 0 /\ completedSeq = 0 /\ bridgeBusy = 0
  /\ request = 0 /\ response = 0
  /\ wakes = 0 /\ depth = 0 /\ frame = [d \in Depths |-> NoFrame]
  /\ calls = 0 /\ runs = [i \in Ids |-> 0] /\ answers = {}
  /\ clean = TRUE /\ sessions = 0 /\ lost = 0

----------------------------------------------------------------------------
(* Attach and Close *)

PostWake == wakes' = IF wakes < MaxWakes THEN wakes + 1 ELSE wakes

ZeroBlock ==
  /\ requestSeq' = 0 /\ completedSeq' = 0 /\ bridgeBusy' = 0
  /\ request' = 0 /\ response' = 0
  /\ clean' = (depth = 0)

Attach ==
  /\ cpc = "idle" /\ ~attached /\ sessions < MaxSessions
  /\ sessions' = sessions + 1
  /\ ZeroBlock
  /\ attached' = TRUE /\ PostWake
  /\ UNCHANGED <<pendingSeq, cpc, next, depth, frame, calls, runs, answers, lost>>

\* The DLL is missing, the hook is refused, or the first wake cannot be
\* posted: the block has been zeroed already, Close undoes the rest.
AttachFails ==
  /\ cpc = "idle" /\ ~attached /\ sessions < MaxSessions
  /\ sessions' = sessions + 1
  /\ ZeroBlock
  /\ UNCHANGED <<client, game, calls, runs, answers, lost>>

\* Callbacks that are running keep the DLL and the named mapping alive.
Close ==
  /\ cpc = "idle" /\ attached
  /\ attached' = FALSE /\ pendingSeq' = 0
  /\ UNCHANGED <<cpc, next, block, game, past>>

----------------------------------------------------------------------------
(* BridgeClient::Call *)

TimedOutDone == pendingSeq > 0 /\ completedSeq = pendingSeq

\* Mutants: the guard on a timed-out request, or the guard on bridgeBusy, is gone.
PrepareOverTimedOut ==
  /\ cpc = "idle" /\ attached /\ calls < MaxCalls
  /\ bridgeBusy = 0
  /\ pendingSeq' = 0
  /\ next' = requestSeq + 1
  /\ calls' = calls + 1 /\ request' = calls + 1
  /\ cpc' = "prepared"
  /\ UNCHANGED <<attached, requestSeq, completedSeq, bridgeBusy, response, game,
                 runs, answers, clean, sessions, lost>>

PrepareWhileBusy ==
  /\ cpc = "idle" /\ attached /\ calls < MaxCalls
  /\ pendingSeq = 0 \/ TimedOutDone
  /\ pendingSeq' = 0
  /\ next' = requestSeq + 1
  /\ calls' = calls + 1 /\ request' = calls + 1
  /\ cpc' = "prepared"
  /\ UNCHANGED <<attached, requestSeq, completedSeq, bridgeBusy, response, game,
                 runs, answers, clean, sessions, lost>>

\* A Call that passes both guards and writes its request.
Prepare ==
  /\ cpc = "idle" /\ attached /\ calls < MaxCalls
  /\ pendingSeq = 0 \/ TimedOutDone
  /\ bridgeBusy = 0
  /\ pendingSeq' = 0
  /\ next' = requestSeq + 1
  /\ calls' = calls + 1 /\ request' = calls + 1
  /\ cpc' = "prepared"
  /\ UNCHANGED <<attached, requestSeq, completedSeq, bridgeBusy, response, game,
                 runs, answers, clean, sessions, lost>>

\* A Call that finds the late completion but the callback not yet left.
DiscardLate ==
  /\ cpc = "idle" /\ attached
  /\ TimedOutDone /\ bridgeBusy # 0
  /\ pendingSeq' = 0
  /\ UNCHANGED <<attached, cpc, next, block, game, past>>

\* Mutant: a refused Call only returns its error.
NudgeForgotten == cpc = "idle" /\ pendingSeq > 0 /\ UNCHANGED vars

\* A Call refused because the timed-out request is still open re-posts the
\* wake message; a Call refused without a nudge changes nothing.
Nudge ==
  /\ cpc = "idle" /\ attached
  /\ pendingSeq > 0 /\ completedSeq # pendingSeq /\ bridgeBusy = 0
  /\ PostWake
  /\ UNCHANGED <<client, block, depth, frame, past>>

Publish ==
  /\ cpc = "prepared"
  /\ requestSeq' = next
  /\ cpc' = "published"
  /\ UNCHANGED <<attached, pendingSeq, next, completedSeq, bridgeBusy, request,
                 response, game, past>>

Post ==
  /\ cpc = "published"
  /\ PostWake
  /\ cpc' = "waiting"
  /\ UNCHANGED <<attached, pendingSeq, next, block, depth, frame, past>>

\* PostThreadMessageW fails: Call returns, nobody remembers the request.
PostFails ==
  /\ cpc = "published"
  /\ cpc' = "idle"
  /\ clean' = FALSE
  /\ UNCHANGED <<attached, pendingSeq, next, block, game, calls, runs, answers,
                 sessions, lost>>

Return ==
  /\ cpc = "waiting" /\ completedSeq = next
  /\ pendingSeq' = 0
  /\ answers' = answers \cup {<<calls, response>>}
  /\ cpc' = "idle"
  /\ UNCHANGED <<attached, next, block, game, calls, runs, clean, sessions, lost>>

\* Mutant: the timed-out number is not remembered.
TimeoutForgets ==
  /\ cpc = "waiting"
  /\ cpc' = "idle"
  /\ UNCHANGED <<attached, pendingSeq, next, block, game, past>>

Timeout ==
  /\ cpc = "waiting"
  /\ pendingSeq' = next
  /\ cpc' = "idle"
  /\ UNCHANGED <<attached, next, block, game, past>>

----------------------------------------------------------------------------
(* ProcessRequest, one action per access the controller can see *)

\* Mutant: the hook does not compare the number with completedSeq.
EnterUnchecked ==
  /\ wakes > 0 /\ attached /\ depth < MaxDepth
  /\ depth > 0 => frame[depth].pc = "executing"
  /\ wakes' = wakes - 1
  /\ IF requestSeq = 0
     THEN UNCHANGED <<depth, frame>>
     ELSE /\ depth' = depth + 1
          /\ frame' = [frame EXCEPT ![depth + 1] =
                         [pc |-> "read", seq |-> requestSeq, cmd |-> 0]]
  /\ UNCHANGED <<client, block, past>>

\* A wake message reaches a hook callback.  While a callback executes its
\* command the game may pump messages, so a second one can nest in it.
Enter ==
  /\ wakes > 0 /\ attached /\ depth < MaxDepth
  /\ depth > 0 => frame[depth].pc = "executing"
  /\ wakes' = wakes - 1
  /\ IF requestSeq = 0 \/ requestSeq = completedSeq
     THEN UNCHANGED <<depth, frame>>
     ELSE /\ depth' = depth + 1
          /\ frame' = [frame EXCEPT ![depth + 1] =
                         [pc |-> "read", seq |-> requestSeq, cmd |-> 0]]
  /\ UNCHANGED <<client, block, past>>

InFrame(pc) == depth > 0 /\ frame[depth].pc = pc

GoTo(pc) == frame' = [frame EXCEPT ![depth].pc = pc]

\* Mutant: the flag is incremented instead of compared and exchanged.
ClaimBusyByIncrement ==
  /\ InFrame("read")
  /\ bridgeBusy' = bridgeBusy + 1
  /\ GoTo("owned")
  /\ UNCHANGED <<client, requestSeq, completedSeq, request, response, wakes, depth, past>>

ClaimBusy ==
  /\ InFrame("read") /\ bridgeBusy = 0
  /\ bridgeBusy' = 1
  /\ GoTo("owned")
  /\ UNCHANGED <<client, requestSeq, completedSeq, request, response, wakes, depth, past>>

\* The compare-and-swap fails: the callback returns and its wake is spent.
BusyReturn ==
  /\ InFrame("read") /\ bridgeBusy # 0
  /\ depth' = depth - 1
  /\ UNCHANGED <<client, block, wakes, frame, past>>

\* The command is read from the block now, not when its number was read; a
\* zeroed block holds no command.
Execute ==
  /\ InFrame("owned")
  /\ frame' = [frame EXCEPT ![depth].pc = "executing", ![depth].cmd = request]
  /\ runs' = IF request \in Ids THEN [runs EXCEPT ![request] = @ + 1] ELSE runs
  /\ UNCHANGED <<client, block, wakes, depth, calls, answers, clean, sessions, lost>>

\* Mutant: the number is completed before the response is in the block.
RespondTooLate ==
  /\ InFrame("executing")
  /\ completedSeq' = frame[depth].seq
  /\ GoTo("responded")
  /\ UNCHANGED <<client, requestSeq, bridgeBusy, request, response, wakes, depth, past>>

Respond ==
  /\ InFrame("executing")
  /\ response' = frame[depth].cmd
  /\ GoTo("responded")
  /\ UNCHANGED <<client, requestSeq, completedSeq, bridgeBusy, request, wakes, depth, past>>

Complete ==
  /\ InFrame("responded")
  /\ completedSeq' = frame[depth].seq
  /\ GoTo("completed")
  /\ UNCHANGED <<client, requestSeq, bridgeBusy, request, response, wakes, depth, past>>

Release ==
  /\ InFrame("completed")
  /\ bridgeBusy' = 0
  /\ depth' = depth - 1
  /\ UNCHANGED <<client, requestSeq, completedSeq, request, response, wakes, frame, past>>

\* A queued wake that no hook sees (the hook is gone), or that is lost.
WakeLost ==
  /\ wakes > 0
  /\ wakes' = wakes - 1
  /\ \/ ~attached /\ UNCHANGED lost
     \/ attached /\ lost < MaxLost /\ lost' = lost + 1
  /\ UNCHANGED <<client, block, depth, frame, calls, runs, answers, clean, sessions>>

----------------------------------------------------------------------------
ControllerStep ==
  \/ Attach \/ AttachFails \/ Close
  \/ Prepare \/ DiscardLate \/ Nudge \/ Publish \/ Post \/ PostFails
  \/ Return \/ Timeout

CallbackStep ==
  ClaimBusy \/ BusyReturn \/ Execute \/ Respond \/ Complete \/ Release

Next == ControllerStep \/ Enter \/ CallbackStep \/ WakeLost

Spec == Init /\ [][Next]_vars

(* The game thread keeps dispatching messages and finishes its callbacks;  *)
(* the controller finishes a Call it began, and a workflow whose request   *)
(* timed out keeps calling, which nudges.                                  *)
Fairness ==
  /\ WF_vars(Enter) /\ WF_vars(CallbackStep)
  /\ WF_vars(Publish) /\ WF_vars(Post) /\ WF_vars(Nudge)
  /\ WF_vars(Return \/ Timeout)

\* The behaviours in which the exchange stays clean.
CleanSpec == Init /\ [][Next /\ clean']_vars
FairCleanSpec == CleanSpec /\ Fairness

----------------------------------------------------------------------------
TypeOK ==
  /\ attached \in BOOLEAN /\ pendingSeq \in Nat /\ next \in Nat
  /\ cpc \in {"idle", "prepared", "published", "waiting"}
  /\ requestSeq \in Nat /\ completedSeq \in Nat /\ bridgeBusy \in {0, 1}
  /\ request \in 0 .. MaxCalls /\ response \in 0 .. MaxCalls
  /\ wakes \in 0 .. MaxWakes /\ depth \in 0 .. MaxDepth
  /\ frame \in [Depths -> Frames]
  /\ calls \in 0 .. MaxCalls /\ runs \in [Ids -> Nat]
  /\ answers \subseteq (0 .. MaxCalls) \X (0 .. MaxCalls)
  /\ clean \in BOOLEAN /\ sessions \in 0 .. MaxSessions /\ lost \in 0 .. MaxLost

\* The number published by the client and not yet completed by the bridge.
Open == requestSeq # completedSeq

----------------------------------------------------------------------------
(* The inductive invariant: what a clean session keeps true of the stack   *)
(* of callbacks, of the open request and of the client that made it.       *)

Bottom == frame[1].pc

StackShape ==
  /\ depth = 0 => bridgeBusy = 0
  /\ depth > 0 => (bridgeBusy = 0 <=> Bottom = "read")
  /\ depth > 1 => depth = 2 /\ Bottom = "executing" /\ frame[2].pc = "read"

\* The bottom callback works for the request that was published last.
BottomServesLatest ==
  depth > 0 =>
    /\ frame[1].seq = requestSeq
    /\ Open <=> Bottom # "completed"
    /\ Bottom \in {"executing", "responded", "completed"} => frame[1].cmd = request
    /\ Bottom \in {"responded", "completed"} => response = request

Started == depth > 0 /\ Bottom \in {"executing", "responded"}

LatestRequest ==
  /\ completedSeq = requestSeq \/ completedSeq + 1 = requestSeq
  /\ requestSeq > 0 \/ cpc = "prepared" => calls \in Ids /\ request = calls
  /\ requestSeq > 0 /\ cpc # "prepared" =>
       /\ runs[calls] = IF ~Open \/ Started THEN 1 ELSE 0
       /\ ~Open => response = request

\* An open request is awaited, remembered as timed out, or the client left.
ClientTracks ==
  /\ cpc = "prepared" => depth = 0 /\ ~Open /\ next = requestSeq + 1
                         /\ runs[calls] = 0
  /\ cpc \in {"published", "waiting"} => requestSeq = next /\ next > 0
  /\ pendingSeq > 0 => pendingSeq = requestSeq
  /\ Open => cpc \in {"published", "waiting"} \/ pendingSeq > 0 \/ ~attached

\* True of every session.
Bookkeeping ==
  /\ request <= calls
  /\ \A i \in Ids : i > calls => runs[i] = 0
  /\ cpc # "idle" => attached /\ pendingSeq = 0
  /\ ~attached => pendingSeq = 0

IInv ==
  /\ TypeOK
  /\ Bookkeeping
  /\ clean => StackShape /\ BottomServesLatest /\ LatestRequest /\ ClientTracks

----------------------------------------------------------------------------
\* In a clean session no callback is running when a Call writes its request
\* into the block: a request that timed out at the controller but may still be
\* executing is never overwritten (the guards on pendingSeq_ and bridgeBusy).
NeverOverwrite == clean /\ cpc = "prepared" => depth = 0

\* In a clean session a Call that sees its number completed is answered by
\* the execution of its own command, which ran exactly once (Call returns
\* true only for its own request).
AnswerIsOwn ==
  clean /\ cpc = "waiting" /\ completedSeq = next => response = calls /\ runs[calls] = 1

\* In a clean session a command is never started a second time, whatever
\* timeouts, nudges and nested callbacks happen (ProcessRequest ignores a
\* completed number, and only one callback owns bridgeBusy).
RunsOnce ==
  [][\A i \in Ids : clean /\ runs'[i] # runs[i] => runs[i] = 0]_vars

\* In a clean session a timed-out request is eventually completed (or the
\* client is closed), even if its wake message was lost: the refused Calls
\* nudge the game thread (Call, pendingSeq_ branch).
TimedOutCompletes ==
  (clean /\ pendingSeq > 0) ~> (completedSeq = pendingSeq \/ pendingSeq = 0)

----------------------------------------------------------------------------
\* What the client promises its callers in a clean session.
IssuedBar == IF cpc = "prepared" THEN calls - 1 ELSE calls
InflightBar == IF Open THEN request ELSE 0

Promise == INSTANCE CallOnce WITH
  Ids <- Ids,
  issued <- IssuedBar,
  inflight <- InflightBar,
  runs <- runs,
  answers <- answers

\* A clean exchange implements calls that run at most once and are answered
\* by their own execution (BridgeClient::Call with ProcessRequest).
ImplementsPromise == Promise!Spec

=============================================================================
