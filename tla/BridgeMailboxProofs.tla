------------------------ MODULE BridgeMailboxProofs ------------------------
(* Proofs about BridgeMailbox, for every value of its bounds. *)
EXTENDS BridgeMailbox, TLAPS

USE BoundsAssumption DEF BoundsAssumption, Ids, Depths

\* Pushing a frame and moving a frame on keep the stack well typed.
LEMMA FramePushed ==
  ASSUME TypeOK, NEW d \in Depths, NEW s \in Nat
  PROVE  [frame EXCEPT ![d] = [pc |-> "read", seq |-> s, cmd |-> 0]]
           \in [Depths -> Frames]
<1>1. [pc |-> "read", seq |-> s, cmd |-> 0] \in Frames
  BY DEF Frames, TypeOK
<1> QED
  BY <1>1 DEF TypeOK

LEMMA FrameMoved ==
  ASSUME TypeOK, NEW d \in Depths,
         NEW p \in {"read", "owned", "executing", "responded", "completed"}
  PROVE  [frame EXCEPT ![d].pc = p] \in [Depths -> Frames]
<1>1. frame[d] \in Frames
  BY DEF TypeOK
<1>2. [frame[d] EXCEPT !.pc = p] \in Frames
  BY <1>1 DEF Frames
<1> QED
  BY <1>2 DEF TypeOK

\* Every variable of the exchange keeps its type (SharedBlock, BridgeClient).
LEMMA TypeInitially == Init => TypeOK
<1> SUFFICES ASSUME Init PROVE TypeOK
  OBVIOUS
<1>1. NoFrame \in Frames
  BY DEF NoFrame, Frames
<1>2. frame \in [Depths -> Frames]
  BY <1>1 DEF Init
<1>3. runs \in [Ids -> Nat] /\ answers \subseteq (0 .. MaxCalls) \X (0 .. MaxCalls)
  BY DEF Init
<1>4. /\ attached \in BOOLEAN /\ pendingSeq \in Nat /\ next \in Nat
      /\ cpc \in {"idle", "prepared", "published", "waiting"}
      /\ requestSeq \in Nat /\ completedSeq \in Nat /\ bridgeBusy \in {0, 1}
  BY DEF Init
<1>5. /\ request \in 0 .. MaxCalls /\ response \in 0 .. MaxCalls
      /\ wakes \in 0 .. MaxWakes /\ depth \in 0 .. MaxDepth
      /\ calls \in 0 .. MaxCalls /\ clean \in BOOLEAN
      /\ sessions \in 0 .. MaxSessions /\ lost \in 0 .. MaxLost
  BY DEF Init
<1> QED
  BY <1>2, <1>3, <1>4, <1>5 DEF TypeOK

LEMMA TypeStep == TypeOK /\ [Next]_vars => TypeOK'
<1> SUFFICES ASSUME TypeOK, [Next]_vars PROVE TypeOK'
  OBVIOUS
<1> USE DEF TypeOK
<1>1. CASE Attach
  BY <1>1 DEF Attach, PostWake, ZeroBlock
<1>2. CASE AttachFails
  BY <1>2 DEF AttachFails, ZeroBlock, client, game
<1>3. CASE Close
  BY <1>3 DEF Close, block, game, past
<1>4. CASE Prepare
  BY <1>4 DEF Prepare, TimedOutDone, game
<1>5. CASE DiscardLate
  BY <1>5 DEF DiscardLate, TimedOutDone, block, game, past
<1>6. CASE Nudge
  BY <1>6 DEF Nudge, PostWake, client, block, past
<1>7. CASE Publish
  BY <1>7 DEF Publish, game, past
<1>8. CASE Post
  BY <1>8 DEF Post, PostWake, block, past
<1>9. CASE PostFails
  BY <1>9 DEF PostFails, block, game
<1>10. CASE Return
  BY <1>10 DEF Return, block, game
<1>11. CASE Timeout
  BY <1>11 DEF Timeout, block, game, past
<1>12. CASE Enter
  <2>1. frame' \in [Depths -> Frames] /\ depth' \in 0 .. MaxDepth
    <3>1. CASE requestSeq = 0 \/ requestSeq = completedSeq
      BY <1>12, <3>1 DEF Enter
    <3>2. CASE ~(requestSeq = 0 \/ requestSeq = completedSeq)
      <4>1. depth + 1 \in Depths
        BY <1>12 DEF Enter
      <4>2. depth' = depth + 1
        BY <1>12, <3>2 DEF Enter
      <4>3. frame' \in [Depths -> Frames]
        BY <1>12, <3>2, <4>1, FramePushed DEF Enter
      <4> QED
        BY <4>1, <4>2, <4>3
    <3> QED
      BY <3>1, <3>2
  <2> QED
    BY <1>12, <2>1 DEF Enter, client, block, past
<1>13. CASE ClaimBusy
  <2>1. depth \in Depths
    BY <1>13 DEF ClaimBusy, InFrame
  <2>2. frame' \in [Depths -> Frames]
    BY <1>13, <2>1, FrameMoved DEF ClaimBusy, InFrame, GoTo
  <2>3. frame[depth] \in Frames
    BY <2>1
  <2> QED
    BY <1>13, <2>1, <2>2, <2>3 DEF ClaimBusy, InFrame, GoTo, Frames, client, past
<1>14. CASE BusyReturn
  BY <1>14 DEF BusyReturn, InFrame, client, block, past
<1>15. CASE Execute
  <2>1. depth \in Depths
    BY <1>15 DEF Execute, InFrame
  <2>2. [frame[depth] EXCEPT !.pc = "executing", !.cmd = request] \in Frames
    BY <2>1 DEF Frames
  <2>3. frame' \in [Depths -> Frames]
    BY <1>15, <2>1, <2>2 DEF Execute
  <2>4. runs' \in [Ids -> Nat]
    BY <1>15, SMTT(30) DEF Execute
  <2> QED
    BY <1>15, <2>3, <2>4 DEF Execute, client, block
<1>16. CASE Respond
  <2>1. depth \in Depths
    BY <1>16 DEF Respond, InFrame
  <2>2. frame' \in [Depths -> Frames]
    BY <1>16, <2>1, FrameMoved DEF Respond, InFrame, GoTo
  <2>3. frame[depth] \in Frames
    BY <2>1
  <2> QED
    BY <1>16, <2>1, <2>2, <2>3 DEF Respond, InFrame, GoTo, Frames, client, past
<1>17. CASE Complete
  <2>1. depth \in Depths
    BY <1>17 DEF Complete, InFrame
  <2>2. frame' \in [Depths -> Frames]
    BY <1>17, <2>1, FrameMoved DEF Complete, InFrame, GoTo
  <2>3. frame[depth] \in Frames
    BY <2>1
  <2> QED
    BY <1>17, <2>1, <2>2, <2>3 DEF Complete, InFrame, GoTo, Frames, client, past
<1>18. CASE Release
  BY <1>18 DEF Release, InFrame, client, past
<1>19. CASE WakeLost
  BY <1>19 DEF WakeLost, client, block
<1>20. CASE UNCHANGED vars
  BY <1>20 DEF vars, client, block, game, past
<1>21. QED
  BY <1>1, <1>2, <1>3, <1>4, <1>5, <1>6, <1>7, <1>8, <1>9, <1>10, <1>11, <1>12, <1>13, <1>14, <1>15, <1>16, <1>17, <1>18, <1>19, <1>20 DEF Next, ControllerStep, CallbackStep

THEOREM TypeCorrect == Spec => []TypeOK
<1>1. QED
  BY TypeInitially, TypeStep, PTL DEF Spec

\* What holds of every session, clean or not.
LEMMA BookkeepingStep ==
  TypeOK /\ Bookkeeping /\ [Next]_vars => Bookkeeping'
<1> SUFFICES ASSUME TypeOK, Bookkeeping, [Next]_vars PROVE Bookkeeping'
  OBVIOUS
<1> USE DEF TypeOK, Bookkeeping
<1>1. CASE Attach
  BY <1>1 DEF Attach, PostWake, ZeroBlock
<1>2. CASE AttachFails
  BY <1>2 DEF AttachFails, ZeroBlock, client, game
<1>3. CASE Close
  BY <1>3 DEF Close, block, game, past
<1>4. CASE Prepare
  BY <1>4 DEF Prepare, TimedOutDone, game
<1>5. CASE DiscardLate
  BY <1>5 DEF DiscardLate, TimedOutDone, block, game, past
<1>6. CASE Nudge
  BY <1>6 DEF Nudge, PostWake, client, block, past
<1>7. CASE Publish
  BY <1>7 DEF Publish, game, past
<1>8. CASE Post
  BY <1>8 DEF Post, PostWake, block, past
<1>9. CASE PostFails
  BY <1>9 DEF PostFails, block, game
<1>10. CASE Return
  BY <1>10 DEF Return, block, game
<1>11. CASE Timeout
  BY <1>11 DEF Timeout, block, game, past
<1>12. CASE Enter
  BY <1>12 DEF Enter, client, block, past
<1>13. CASE ClaimBusy
  BY <1>13 DEF ClaimBusy, InFrame, GoTo, client, past
<1>14. CASE BusyReturn
  BY <1>14 DEF BusyReturn, InFrame, client, block, past
<1>15. CASE Execute
  BY <1>15 DEF Execute, InFrame, client, block
<1>16. CASE Respond
  BY <1>16 DEF Respond, InFrame, GoTo, client, past
<1>17. CASE Complete
  BY <1>17 DEF Complete, InFrame, GoTo, client, past
<1>18. CASE Release
  BY <1>18 DEF Release, InFrame, client, past
<1>19. CASE WakeLost
  BY <1>19 DEF WakeLost, client, block
<1>20. CASE UNCHANGED vars
  BY <1>20 DEF vars, client, block, game, past
<1> QED
  BY <1>1, <1>2, <1>3, <1>4, <1>5, <1>6, <1>7, <1>8, <1>9, <1>10, <1>11, <1>12, <1>13, <1>14, <1>15, <1>16, <1>17, <1>18, <1>19, <1>20 DEF Next, ControllerStep, CallbackStep

\* The part of IInv that only clean sessions keep.
CleanParts == StackShape /\ BottomServesLatest /\ LatestRequest /\ ClientTracks

\* One step of a session that is clean before and after it.
LEMMA CleanStep ==
  ASSUME IInv, Next, clean, clean' PROVE CleanParts'
<1> USE DEF IInv, TypeOK, Bookkeeping, CleanParts, Open, Started, Bottom,
            StackShape, BottomServesLatest, LatestRequest, ClientTracks
<1>1. CASE Attach
  BY <1>1 DEF Attach, PostWake, ZeroBlock
<1>2. CASE AttachFails
  BY <1>2 DEF AttachFails, ZeroBlock, client, game
<1>3. CASE Close
  BY <1>3 DEF Close, block, game, past
<1>4. CASE Prepare
  BY <1>4 DEF Prepare, TimedOutDone, game
<1>5. CASE DiscardLate
  BY <1>5 DEF DiscardLate, TimedOutDone, block, game, past
<1>6. CASE Nudge
  BY <1>6 DEF Nudge, PostWake, client, block, past
<1>7. CASE Publish
  BY <1>7 DEF Publish, game, past
<1>8. CASE Post
  BY <1>8 DEF Post, PostWake, block, past
<1>9. CASE PostFails
  BY <1>9 DEF PostFails, block, game
<1>10. CASE Return
  BY <1>10 DEF Return, block, game
<1>11. CASE Timeout
  BY <1>11 DEF Timeout, block, game, past
<1>12. CASE Enter
  <2>1. CASE depth' = depth
    BY <1>12, <2>1 DEF Enter, client, block, past
  <2>2. CASE depth = 0 /\ depth' = 1
    <3>1. frame' = [frame EXCEPT ![1] = [pc |-> "read", seq |-> requestSeq, cmd |-> 0]]
      BY <1>12, <2>2 DEF Enter
    <3>2. frame'[1] = [pc |-> "read", seq |-> requestSeq, cmd |-> 0]
      BY <3>1
    <3> QED
      BY <1>12, <2>2, <3>2 DEF Enter, client, block, past
  <2>3. CASE depth = 1 /\ depth' = 2
    <3>1. frame' = [frame EXCEPT ![2] = [pc |-> "read", seq |-> requestSeq, cmd |-> 0]]
      BY <1>12, <2>3 DEF Enter
    <3>2. 2 \in Depths /\ frame'[1] = frame[1] /\ frame'[2].pc = "read"
      BY <1>12, <2>3, <3>1 DEF Enter
    <3> QED
      BY <1>12, <2>3, <3>2 DEF Enter, client, block, past
  <2> QED
    BY <1>12, <2>1, <2>2, <2>3 DEF Enter
<1>13. CASE ClaimBusy
  <2>1. depth = 1
    BY <1>13 DEF ClaimBusy, InFrame
  <2>2. /\ frame'[1].pc = "owned" /\ frame'[1].seq = frame[1].seq
        /\ frame'[1].cmd = frame[1].cmd
    BY <1>13, <2>1 DEF ClaimBusy, GoTo, Frames
  <2> QED
    BY <1>13, <2>1, <2>2 DEF ClaimBusy, InFrame, client, past
<1>14. CASE BusyReturn
  <2>1. depth = 2 /\ depth' = 1
    BY <1>14 DEF BusyReturn, InFrame
  <2> QED
    BY <1>14, <2>1 DEF BusyReturn, client, block, past
<1>15. CASE Execute
  <2>1. depth = 1
    BY <1>15, SMTT(30) DEF Execute, InFrame
  <2>2. /\ frame'[1].pc = "executing" /\ frame'[1].seq = frame[1].seq
        /\ frame'[1].cmd = request
    BY <1>15, <2>1 DEF Execute, Frames
  <2> QED
    BY <1>15, <2>1, <2>2, SMTT(30) DEF Execute, InFrame, client, block
<1>16. CASE Respond
  <2>1. depth = 1
    BY <1>16 DEF Respond, InFrame
  <2>2. /\ frame'[1].pc = "responded" /\ frame'[1].seq = frame[1].seq
        /\ frame'[1].cmd = frame[1].cmd
    BY <1>16, <2>1 DEF Respond, GoTo, Frames
  <2> QED
    BY <1>16, <2>1, <2>2 DEF Respond, InFrame, client, past
<1>17. CASE Complete
  <2>1. depth = 1
    BY <1>17 DEF Complete, InFrame
  <2>2. /\ frame'[1].pc = "completed" /\ frame'[1].seq = frame[1].seq
        /\ frame'[1].cmd = frame[1].cmd
    BY <1>17, <2>1 DEF Complete, GoTo, Frames
  <2> QED
    BY <1>17, <2>1, <2>2 DEF Complete, InFrame, client, past
<1>18. CASE Release
  <2>1. depth = 1 /\ depth' = 0
    BY <1>18 DEF Release, InFrame
  <2> QED
    BY <1>18, <2>1 DEF Release, InFrame, client, past
<1>19. CASE WakeLost
  BY <1>19 DEF WakeLost, client, block
<1> QED
  BY <1>1, <1>2, <1>3, <1>4, <1>5, <1>6, <1>7, <1>8, <1>9, <1>10, <1>11, <1>12, <1>13, <1>14, <1>15, <1>16, <1>17, <1>18, <1>19 DEF Next, ControllerStep, CallbackStep

\* Only a new session turns an unclean exchange clean, and it starts empty.
LEMMA CleanAgain ==
  ASSUME IInv, Next, ~clean, clean' PROVE CleanParts'
<1>1. Attach \/ AttachFails
  BY DEF Next, ControllerStep, CallbackStep, Close, Prepare, DiscardLate, Nudge,
         Publish, Post, PostFails, Return, Timeout, Enter, ClaimBusy, BusyReturn,
         Execute, Respond, Complete, Release, WakeLost, past
<1>2. cpc' = "idle" /\ pendingSeq' = 0 /\ depth' = 0 /\ requestSeq' = 0
      /\ completedSeq' = 0 /\ bridgeBusy' = 0
  BY <1>1 DEF Attach, AttachFails, ZeroBlock, client, game, IInv, Bookkeeping
<1> QED
  BY <1>2 DEF CleanParts, StackShape, BottomServesLatest, LatestRequest, ClientTracks,
              Open, Started, Bottom

\* The invariant of the exchange (Call, Attach, Close and ProcessRequest in
\* any interleaving) is inductive.
THEOREM Inductive == Spec => []IInv
<1>1. Init => IInv
  <2>1. ASSUME Init PROVE Bookkeeping /\ CleanParts
    BY <2>1 DEF Init, Bookkeeping, CleanParts, StackShape, BottomServesLatest,
                LatestRequest, ClientTracks, Open, Started, Bottom
  <2> QED
    BY <2>1, TypeInitially DEF IInv, CleanParts
<1>2. IInv /\ [Next]_vars => IInv'
  <2> SUFFICES ASSUME IInv, [Next]_vars PROVE IInv'
    OBVIOUS
  <2>1. TypeOK' /\ Bookkeeping'
    BY TypeStep, BookkeepingStep DEF IInv
  <2>2. clean' => CleanParts'
    <3>1. CASE UNCHANGED vars
      BY <3>1 DEF IInv, CleanParts, StackShape, BottomServesLatest, LatestRequest,
                  ClientTracks, Open, Started, Bottom, vars, client, block, game, past
    <3>2. CASE Next
      BY <3>2, CleanStep, CleanAgain DEF IInv, TypeOK
    <3> QED
      BY <3>1, <3>2
  <2> QED
    BY <2>1, <2>2 DEF IInv, CleanParts
<1> QED
  BY <1>1, <1>2, PTL DEF Spec

\* A request that may still be executing is never overwritten in a clean
\* session (the pendingSeq_ and bridgeBusy guards of Call).
THEOREM RequestNeverOverwritten == Spec => []NeverOverwrite
<1>1. IInv => NeverOverwrite
  BY DEF IInv, NeverOverwrite, ClientTracks
<1> QED
  BY <1>1, Inductive, PTL

\* A Call of a clean session returns the answer of its own command, which
\* ran exactly once.
THEOREM AnswerBelongsToCall == Spec => []AnswerIsOwn
<1>1. IInv => AnswerIsOwn
  <2> SUFFICES ASSUME IInv, clean, cpc = "waiting", completedSeq = next
               PROVE  response = calls /\ runs[calls] = 1
    BY DEF AnswerIsOwn
  <2>1. requestSeq = next /\ requestSeq > 0 /\ ~Open
    BY DEF IInv, ClientTracks, Open
  <2> QED
    BY <2>1 DEF IInv, LatestRequest
<1> QED
  BY <1>1, Inductive, PTL

\* Starting a command: it is that of the latest Call and has not run.
LEMMA StartsLatest ==
  ASSUME IInv, [Next]_vars, clean, NEW i \in Ids, runs'[i] # runs[i]
  PROVE  Execute /\ i = calls /\ runs[i] = 0
<1>1. Execute
  BY DEF Next, ControllerStep, CallbackStep, Attach, AttachFails, Close, Prepare,
         DiscardLate, Nudge, Publish, Post, PostFails, Return, Timeout, Enter,
         ClaimBusy, BusyReturn, Respond, Complete, Release, WakeLost, past, vars
<1>2. depth = 1 /\ frame[1].pc = "owned"
  BY <1>1, SMTT(30) DEF Execute, InFrame, IInv, TypeOK, StackShape, Bottom
<1>3. Open /\ requestSeq > 0 /\ cpc # "prepared"
  BY <1>2 DEF IInv, TypeOK, BottomServesLatest, LatestRequest, ClientTracks, Bottom, Open
<1>4. request = calls /\ runs[calls] = 0
  BY <1>2, <1>3 DEF IInv, LatestRequest, Started, Bottom
<1> QED
  BY <1>1, <1>4 DEF Execute, IInv, TypeOK

\* No command of a clean session is started twice.
THEOREM CommandRunsOnce == Spec => RunsOnce
<1>1. IInv /\ [Next]_vars =>
        [\A i \in Ids : clean /\ runs'[i] # runs[i] => runs[i] = 0]_vars
  BY StartsLatest
<1> QED
  BY <1>1, Inductive, PTL DEF Spec, RunsOnce

\* The exchange implements its promise as long as it stays clean: every step
\* of Call and ProcessRequest is a step of CallOnce or changes nothing there.
THEOREM CleanImplementsPromise == CleanSpec => ImplementsPromise
<1>1. Init => Promise!Init
  BY DEF Init, Promise!Init, IssuedBar, InflightBar, Open
<1>2. Init => IInv /\ clean
  <2>1. ASSUME Init PROVE Bookkeeping /\ CleanParts /\ clean
    BY <2>1 DEF Init, Bookkeeping, CleanParts, StackShape, BottomServesLatest,
                LatestRequest, ClientTracks, Open, Started, Bottom
  <2> QED
    BY <2>1, TypeInitially DEF IInv, CleanParts
<1>3. IInv /\ clean /\ [Next /\ clean']_vars => IInv' /\ clean'
  <2> SUFFICES ASSUME IInv, clean, [Next /\ clean']_vars PROVE IInv' /\ clean'
    OBVIOUS
  <2>1. CASE UNCHANGED vars
    <3>1. TypeOK' /\ Bookkeeping'
      BY <2>1, TypeStep, BookkeepingStep DEF IInv
    <3> QED
      BY <2>1, <3>1 DEF IInv, StackShape, BottomServesLatest, LatestRequest,
         ClientTracks, Open, Started, Bottom, vars, client, block, game, past
  <2>2. CASE Next /\ clean'
    BY <2>2, TypeStep, BookkeepingStep, CleanStep DEF IInv, CleanParts
  <2> QED
    BY <2>1, <2>2
<1>4. ASSUME IInv, clean, [Next /\ clean']_vars
      PROVE  [Promise!Next]_(Promise!vars)
  <2> USE <1>4 DEF IssuedBar, InflightBar, Open
  <2>0. ASSUME cpc \notin {"prepared", "published"}, depth = 0, requestSeq # completedSeq
        PROVE  InflightBar \in Ids /\ runs[InflightBar] = 0
    BY <2>0 DEF IInv, TypeOK, LatestRequest, Started, Open
  <2>1. CASE Attach \/ AttachFails
    <3>0. clean'
      <4>1. sessions' # sessions
        BY <2>1 DEF Attach, AttachFails, IInv, TypeOK
      <4> QED
        BY <4>1 DEF vars, past
    <3>1. depth = 0 /\ cpc = "idle" /\ cpc' = "idle" /\ InflightBar' = 0
          /\ UNCHANGED <<calls, runs, answers>>
      BY <2>1, <3>0 DEF Attach, AttachFails, ZeroBlock, client, game
    <3>2. CASE requestSeq = completedSeq
      BY <3>1, <3>2 DEF Promise!vars
    <3>3. CASE requestSeq # completedSeq
      BY <3>1, <3>3, <2>0 DEF Promise!Next, Promise!Forget
    <3> QED
      BY <3>2, <3>3
  <2>2. CASE Prepare
    <3>1. requestSeq = completedSeq
      BY <2>2 DEF Prepare, TimedOutDone, IInv, ClientTracks, Open
    <3>2. UNCHANGED <<IssuedBar, InflightBar, runs, answers>>
      BY <2>2, <3>1 DEF Prepare, IInv, TypeOK
    <3> QED
      BY <3>2 DEF Promise!vars
  <2>3. CASE Publish
    <3>1. requestSeq = completedSeq /\ requestSeq' # completedSeq' /\ calls \in Ids
          /\ request = calls
      BY <2>3 DEF Publish, IInv, TypeOK, LatestRequest, ClientTracks, Open
    <3>2. IssuedBar' = IssuedBar + 1 /\ InflightBar = 0 /\ InflightBar' = IssuedBar + 1
          /\ IssuedBar + 1 \in Ids /\ UNCHANGED <<runs, answers>>
      BY <2>3, <3>1 DEF Publish, past, IInv, TypeOK
    <3> QED
      BY <3>2 DEF Promise!Next, Promise!Issue
  <2>4. CASE Return
    <3>1. requestSeq = completedSeq /\ requestSeq > 0 /\ calls \in Ids
          /\ response = calls /\ runs[calls] = 1
      BY <2>4 DEF Return, IInv, LatestRequest, ClientTracks, Open
    <3>2. IssuedBar = calls /\ InflightBar = 0 /\ UNCHANGED <<IssuedBar, InflightBar, runs>>
          /\ answers' = answers \cup {<<calls, calls>>}
      BY <2>4, <3>1 DEF Return, block
    <3> QED
      BY <3>1, <3>2 DEF Promise!Next, Promise!Answer
  <2>5. CASE Execute
    <3>1. depth = 1 /\ frame[1].pc = "owned"
      BY <2>5, SMTT(30) DEF Execute, InFrame, IInv, TypeOK, StackShape, Bottom
    <3>2. Open /\ requestSeq > 0 /\ cpc # "prepared"
      BY <3>1 DEF IInv, TypeOK, BottomServesLatest, LatestRequest, ClientTracks, Bottom, Open
    <3>3. request \in Ids /\ request = calls /\ runs[request] = 0
      BY <3>1, <3>2 DEF IInv, LatestRequest, Started, Bottom
    <3>4. runs' = [runs EXCEPT ![request] = 1]
      BY <2>5, <3>3 DEF Execute, IInv, TypeOK
    <3>5. InflightBar = request /\ UNCHANGED <<IssuedBar, InflightBar, answers>>
      BY <2>5, <3>2 DEF Execute, client, block, Open
    <3> QED
      BY <3>3, <3>4, <3>5 DEF Promise!Next, Promise!Run
  <2>6. CASE Complete
    <3>1. depth = 1 /\ frame[1].pc = "responded"
      BY <2>6 DEF Complete, InFrame, IInv, TypeOK, StackShape, Bottom
    <3>2. Open /\ requestSeq > 0 /\ cpc # "prepared" /\ frame[1].seq = requestSeq
      BY <3>1 DEF IInv, TypeOK, BottomServesLatest, LatestRequest, ClientTracks, Bottom, Open
    <3>3. request \in Ids /\ request = calls /\ runs[request] = 1
      BY <3>1, <3>2 DEF IInv, LatestRequest, Started, Bottom
    <3>4. InflightBar = request /\ InflightBar' = 0 /\ UNCHANGED <<IssuedBar, runs, answers>>
      BY <2>6, <3>1, <3>2 DEF Complete, client, past, Open
    <3> QED
      BY <3>3, <3>4 DEF Promise!Next, Promise!Finish
  <2>7. CASE \/ Close \/ DiscardLate \/ Nudge \/ Post \/ PostFails \/ Timeout \/ Enter
             \/ ClaimBusy \/ BusyReturn \/ Respond \/ Release \/ WakeLost \/ UNCHANGED vars
    <3>1. UNCHANGED <<calls, request, requestSeq, completedSeq, runs, answers>>
          /\ (cpc' = "prepared" <=> cpc = "prepared")
      BY <2>7 DEF Close, DiscardLate, Nudge, Post, PostFails, Timeout, Enter, ClaimBusy,
                  BusyReturn, Respond, Release, WakeLost, vars, client, block, game, past
    <3> QED
      BY <3>1 DEF Promise!vars
  <2> QED
    BY <2>1, <2>2, <2>3, <2>4, <2>5, <2>6, <2>7 DEF Next, ControllerStep, CallbackStep
<1> QED
  BY <1>1, <1>2, <1>3, <1>4, PTL DEF CleanSpec, ImplementsPromise, Promise!Spec

============================================================================
