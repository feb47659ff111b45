--------------------------- MODULE TradeSequence ---------------------------
(***************************************************************************)
(* ExecuteTradeSequenceTick (v0.6.1.6): what the trade coordinator does in *)
(* phase Sequence.  Each tick makes one click of the script; after the     *)
(* last one the free bag space of MAIN is watched until it is stable, and  *)
(* the number of slots MAIN received decides whether the pass is repeated  *)
(* with the same CON or the CON is finished.  The editor stays open: every *)
(* command of TradeScript may come between two ticks.                      *)
(*                                                                         *)
(* A tick before the delay of the last click has passed does nothing and   *)
(* is a stutter.  Ages are counted in ticks.                               *)
(***************************************************************************)
EXTENDS TradeScript

CONSTANTS FinishThreshold,  \* kReceivedSlotsFinishThreshold (8)
          SellThreshold,    \* mainSellThreshold_ (6)
          MaxFree,          \* size of MAIN's bag
          StableTicks,      \* kTradeBagStableMs (600 ms), in ticks
          VerifyTicks,      \* kTradeBagVerifyMaxMs (2200 ms), in ticks
          Loaded            \* the two lists as LoadTradeSequence may leave them,
                            \* and rows that are copied from them first

ASSUME SequenceAssumption ==
  /\ FinishThreshold \in Nat /\ SellThreshold \in Nat /\ MaxFree \in Nat
  /\ StableTicks \in Nat \ {0} /\ VerifyTicks \in Nat \ {0}

\* Groups are normalized, every list keeps its limit, and the rows of MAIN
\* are numbered.
ASSUME LoadedAssumption ==
  /\ Loaded \subseteq [con : Seq(ConRows), main : Seq(MainRows), copied : {"con", "main"}]
  /\ \A s \in Loaded : /\ NormalizeTradeGroups(s.con) = s.con
                       /\ Len(s.con) <= MaxRows /\ Len(s.main) <= MaxRows
                       /\ \A i \in Rows(s.main) : s.main[i].id = i

VARIABLES
  running,                              \* phase = Sequence
  index, repeatDone, groupDone, pass,   \* sequenceIndex (from 1) and counters
  before,                               \* sequenceMainFreeBeforePass
  verifying, verifyAge, stableAge, lastFree,   \* sequenceBag...
  free,                                 \* MAIN's free bag space, while running
  start, made, disturbed,               \* history: free space at the start, clicks of
                                        \* this pass, bag or script changed during it
  steady                                \* history: no more edits, changes and failures

place  == <<index, repeatDone, groupDone>>
verify == <<verifying, verifyAge, stableAge, lastFree>>
run    == <<running, place, pass, before, verify, start, made, disturbed>>
vars   == <<script, run, free, steady>>

Min2(a, b) == IF a <= b THEN a ELSE b
Max2(a, b) == IF a >= b THEN a ELSE b

NoVerify == verifying' = FALSE /\ verifyAge' = 0 /\ stableAge' = 0 /\ lastFree' = 0
FirstRow == index' = 1 /\ repeatDone' = 0 /\ groupDone' = 0

Init ==
  /\ \E s \in Loaded :
       /\ con = s.con /\ mainRows = s.main /\ lastId = Len(s.main)
       /\ clip = [mode |-> s.copied, rows |-> IF s.copied = "con" THEN s.con ELSE s.main]
       /\ stale = ~\A i \in Rows(s.con) : Follows(s.con[i], s.main)
  /\ edits = 0 /\ clipOld = FALSE
  /\ running = FALSE /\ index = 1 /\ repeatDone = 0 /\ groupDone = 0 /\ pass = 1
  /\ before = 0 /\ verifying = FALSE /\ verifyAge = 0 /\ stableAge = 0 /\ lastFree = 0
  /\ free = 0
  /\ start = 0 /\ made = 0 /\ disturbed = FALSE /\ steady = FALSE

----------------------------------------------------------------------------
(* Beginning and end *)

\* AbortTrade and FinishTrade reset the transaction.
Rest ==
  /\ running' = FALSE /\ FirstRow /\ pass' = 1 /\ before' = 0 /\ NoVerify
  /\ free' = 0 /\ start' = 0 /\ made' = 0 /\ disturbed' = FALSE
  /\ UNCHANGED <<script, steady>>

\* MAIN and CON are parked at the rendezvous point; the bag is seen anew.
StartSequence ==
  /\ ~running /\ ~steady
  /\ TradeSequenceReady
  /\ free' \in SellThreshold + 1 .. MaxFree
  /\ running' = TRUE /\ FirstRow /\ pass' = 1 /\ before' = free' /\ NoVerify
  /\ start' = free' /\ made' = 0 /\ disturbed' = FALSE
  /\ UNCHANGED <<script, steady>>

\* The pair leaves, dies or is stopped (TickTradeCoordinator).
PairLost == running /\ ~steady /\ Rest

\* The barrier of TickTradeCoordinator comes before every tick of the sequence.
MainFull == running /\ free <= SellThreshold /\ Rest
CanTick == running /\ free > SellThreshold

----------------------------------------------------------------------------
(* One click *)

Row == con[index]
HasRow == CanTick /\ index <= Len(con)

\* A reference that broke, or a point that was never captured.
NoPoint == ~HasPoint(Row)

ClickImpossible == HasRow /\ NoPoint /\ Rest
ClickFails == HasRow /\ ~steady /\ Rest

\* Items are transferred only as far as MAIN has room above its threshold.
RepeatLimit(row, room) ==
  IF row.kind = "transfer" THEN Min2(row.repeat, Max2(1, room)) ELSE RepeatOf(row)

\* Mutant: the next row after a group is the next row of the list.
AfterRowForgetsGroup ==
  LET first == TradeGroupStart(con, index)
      last == TradeGroupEnd(con, index)
  IN CASE Row.group = 0 -> index' = index + 1 /\ groupDone' = 0
       [] Row.group # 0 /\ index < last -> index' = index + 1 /\ groupDone' = groupDone
       [] Row.group # 0 /\ index = last ->
            IF groupDone + 1 < con[first].times
            THEN index' = first /\ groupDone' = groupDone + 1
            ELSE index' = last + 1 /\ groupDone' = groupDone

\* Mutant: the rounds of a group are not counted.
AfterRowUncounted ==
  LET first == TradeGroupStart(con, index)
      last == TradeGroupEnd(con, index)
  IN CASE Row.group = 0 -> index' = index + 1 /\ groupDone' = 0
       [] Row.group # 0 /\ index < last -> index' = index + 1 /\ groupDone' = groupDone
       [] Row.group # 0 /\ index = last ->
            IF groupDone + 1 < con[first].times
            THEN index' = first /\ groupDone' = groupDone
            ELSE index' = last + 1 /\ groupDone' = 0

\* The row is done: the next one, or the next round of its group.
AfterRow ==
  LET first == TradeGroupStart(con, index)
      last == TradeGroupEnd(con, index)
  IN CASE Row.group = 0 -> index' = index + 1 /\ groupDone' = 0
       [] Row.group # 0 /\ index < last -> index' = index + 1 /\ groupDone' = groupDone
       [] Row.group # 0 /\ index = last ->
            IF groupDone + 1 < con[first].times
            THEN index' = first /\ groupDone' = groupDone + 1
            ELSE index' = last + 1 /\ groupDone' = 0

Older(age, limit) == Min2(age + 1, limit)

Click ==
  /\ HasRow /\ ~NoPoint
  /\ IF repeatDone + 1 >= RepeatLimit(Row, free - SellThreshold)
     THEN repeatDone' = 0 /\ AfterRow
     ELSE repeatDone' = repeatDone + 1 /\ UNCHANGED <<index, groupDone>>
  /\ made' = IF disturbed THEN 0 ELSE made + 1
  /\ IF verifying
     THEN /\ verifyAge' = Older(verifyAge, VerifyTicks)
          /\ stableAge' = Older(stableAge, StableTicks)
     ELSE UNCHANGED <<verifyAge, stableAge>>
  /\ UNCHANGED <<script, running, pass, before, verifying, lastFree, start, disturbed,
                 free, steady>>

----------------------------------------------------------------------------
(* The end of a pass *)

AtEnd == CanTick /\ index > Len(con)

BeginVerify ==
  /\ AtEnd /\ ~verifying
  /\ verifying' = TRUE /\ verifyAge' = 0 /\ stableAge' = 0 /\ lastFree' = free
  /\ UNCHANGED <<script, running, place, pass, before, start, made, disturbed, free, steady>>

BagChanged ==
  /\ AtEnd /\ verifying /\ free # lastFree
  /\ lastFree' = free /\ stableAge' = 0
  /\ verifyAge' = Older(verifyAge, VerifyTicks)
  /\ UNCHANGED <<script, running, place, pass, before, verifying, start, made, disturbed,
                 free, steady>>

Measured ==
  /\ AtEnd /\ verifying /\ free = lastFree
  /\ stableAge + 1 >= StableTicks \/ verifyAge + 1 >= VerifyTicks

KeepWatching ==
  /\ AtEnd /\ verifying /\ free = lastFree /\ ~Measured
  /\ verifyAge' = verifyAge + 1 /\ stableAge' = stableAge + 1
  /\ UNCHANGED <<script, running, place, pass, before, verifying, lastFree, start, made,
                 disturbed, free, steady>>

ReceivedSlots == IF lastFree <= before THEN before - lastFree ELSE 0

\* Mutant: the next pass is measured against the first one.
RepeatKeepsBefore ==
  /\ Measured /\ ReceivedSlots > FinishThreshold
  /\ pass' = pass + 1 /\ FirstRow /\ before' = before /\ NoVerify
  /\ made' = 0 /\ disturbed' = FALSE
  /\ UNCHANGED <<script, running, start, free, steady>>

RepeatSameChild ==
  /\ Measured /\ ReceivedSlots > FinishThreshold
  /\ pass' = pass + 1 /\ FirstRow /\ before' = lastFree /\ NoVerify
  /\ made' = 0 /\ disturbed' = FALSE
  /\ UNCHANGED <<script, running, start, free, steady>>

FinishChild == Measured /\ ReceivedSlots <= FinishThreshold /\ Rest

----------------------------------------------------------------------------
(* Around it *)

\* A tick in which AutoPath or a conflict of the pair keeps the click back.
PausedTick ==
  /\ CanTick /\ verifying
  /\ verifyAge' = Older(verifyAge, VerifyTicks)
  /\ stableAge' = Older(stableAge, StableTicks)
  /\ UNCHANGED <<script, running, place, pass, before, verifying, lastFree, start, made,
                 disturbed, free, steady>>

Disturb == disturbed' = running /\ made' = 0

BagChanges ==
  /\ running /\ ~steady
  /\ free' \in 0 .. MaxFree \ {free}
  /\ Disturb
  /\ UNCHANGED <<script, running, place, pass, before, verify, start, steady>>

EditorCommand ==
  /\ ~steady
  /\ EditScript
  /\ Disturb
  /\ UNCHANGED <<running, place, pass, before, verify, start, free, steady>>

Settle ==
  /\ ~steady /\ running
  /\ steady' = TRUE
  /\ UNCHANGED <<script, run, free>>

----------------------------------------------------------------------------
SequenceTick ==
  \/ MainFull \/ ClickImpossible \/ Click \/ BeginVerify \/ BagChanged \/ KeepWatching
  \/ RepeatSameChild \/ FinishChild

Next ==
  \/ StartSequence \/ PairLost \/ ClickFails \/ SequenceTick \/ PausedTick
  \/ BagChanges \/ EditorCommand \/ Settle

Spec == Init /\ [][Next]_vars

(* The tick timer keeps firing, and a pause or a delay of the pair is over   *)
(* at some time.                                                            *)
FairSpec == Spec /\ WF_vars(SequenceTick)

----------------------------------------------------------------------------
TypeOK ==
  /\ ScriptTypeOK
  /\ running \in BOOLEAN /\ index \in Nat \ {0} /\ repeatDone \in Nat /\ groupDone \in Nat
  /\ pass \in Nat \ {0} /\ before \in 0 .. MaxFree
  /\ verifying \in BOOLEAN /\ verifyAge \in 0 .. VerifyTicks /\ stableAge \in 0 .. StableTicks
  /\ lastFree \in 0 .. MaxFree /\ free \in 0 .. MaxFree
  /\ start \in 0 .. MaxFree /\ made \in Nat /\ disturbed \in BOOLEAN /\ steady \in BOOLEAN

\* Every repeated pass has taken more than the threshold from MAIN's free space
\* as it was when the sequence began, so a CON is repeated a bounded number of
\* times however the bag changes meanwhile (sequenceMainFreeBeforePass).
PassesBounded ==
  running => (FinishThreshold + 1) * (pass - 1) + before <= start

\* However the script was edited during the run, and whatever the counters
\* then hold, the sequence ends once the bag rests and clicks succeed
\* (sequenceRepeatDone and sequenceGroupRepeatDone survive an edit).
Finishes == (steady /\ running) ~> ~running

\* The verification of the bag ends, also while the snapshot is unstable
\* (kTradeBagVerifyMaxMs, "Bounded wait").
VerifyEnds == verifying ~> ~verifying

=============================================================================
