-------------------------- MODULE MCTradeSequence --------------------------
(* The instance of TradeSequence: which scripts are loaded, and the         *)
(* reference that a pass is compared with.                                  *)
EXTENDS TradeSequence, SequencesExt

CONSTANT LoadedRows   \* sizes of the scripts that are loaded

Library == <<[id |-> 1, repeat |-> 1, placed |-> TRUE], [id |-> 2, repeat |-> 2, placed |-> TRUE]>>

\* A reference, a transfer and a click, in every grouping.
Rows3 ==
  <<[NewConRow EXCEPT !.kind = "main", !.ref = 2, !.of = 2, !.times = 2],
    [NewConRow EXCEPT !.placed = TRUE, !.kind = "transfer", !.repeat = 2, !.times = 2],
    [NewConRow EXCEPT !.placed = TRUE, !.times = 2]>>

Grouped(n) == {NormalizeTradeGroups([i \in 1 .. n |-> [Rows3[i] EXCEPT !.group = g[i]]]) :
                 g \in [1 .. n -> 0 .. 2]}

LoadedScripts ==
  {[con |-> s, main |-> Library, copied |-> IF Len(s) < MaxRows THEN "con" ELSE "main"] :
     s \in UNION {Grouped(n) : n \in LoadedRows}}

\* What the user wrote: every row as often as it says, every group as often as
\* it says, from top to bottom.
Times(n, s) == FlattenSeq([k \in 1 .. n |-> s])
RowClicks(i) == Times(RepeatLimit(con[i], before - SellThreshold), <<i>>)
GroupClicks(i) ==
  LET last == TradeGroupEnd(con, i)
  IN Times(con[i].times, FlattenSeq([k \in 1 .. last - i + 1 |-> RowClicks(i + k - 1)]))
GroupStarts == SetToSortSeq({i \in Rows(con) : TradeGroupStart(con, i) = i}, <)
Script == FlattenSeq([b \in 1 .. Len(GroupStarts) |-> GroupClicks(GroupStarts[b])])

\* As long as neither the script nor the bag changes, every click of a pass is
\* the next one of the script, and the pass ends exactly when all are made
\* (sequenceIndex, sequenceRepeatDone and sequenceGroupRepeatDone).
PassFollowsScript ==
  running /\ ~disturbed /\ (\A i \in Rows(con) : HasPoint(con[i])) =>
    IF index > Len(con) THEN made = Len(Script)
    ELSE made < Len(Script) /\ Script[made + 1] = index

=============================================================================
