---------------------------- MODULE TradeScript ----------------------------
(***************************************************************************)
(* The two lists of clicks behind a trade (v0.6.1.6): mainTradeSequence_,  *)
(* a library of clicks on the MAIN account, and childTradeSequence_, the   *)
(* workflow of every CON, whose rows are clicks of its own, transfers of   *)
(* an item, or references to a row of MAIN.  Neighbouring rows may form a  *)
(* group that is repeated as a whole.  The handlers of the editor and of   *)
(* the recorder keep groups contiguous and references on their row.        *)
(*                                                                         *)
(* Rows of MAIN carry an identity and references the identity of the row   *)
(* they were made for; both are history.  Descriptions, delays and         *)
(* coordinates are left out: of a point only "captured or not" is kept.    *)
(***************************************************************************)
EXTENDS Naturals, Sequences, FiniteSets

CONSTANTS MaxRows,    \* rows of a list (64 in the code)
          Repeats,    \* repeat counts of rows and groups (1 .. 999)
          MaxEdits    \* bound: editor commands

ASSUME ScriptAssumption ==
  /\ MaxRows \in Nat \ {0} /\ MaxEdits \in Nat
  /\ Repeats \subseteq Nat \ {0} /\ 1 \in Repeats

VARIABLES
  con, mainRows,     \* childTradeSequence_, mainTradeSequence_
  clip,              \* tradeClipboard_ and its mode
  edits,             \* history: editor commands so far
  lastId,            \* history: MAIN rows made so far
  clipOld, stale     \* history: MAIN rows moved since the copy; such a copy was pasted,
                     \* now or before the lists were saved

script == <<con, mainRows, clip, edits, lastId, clipOld, stale>>

ConRows == [kind : {"click", "transfer", "main"}, ref : 0 .. MaxRows, of : Nat,
            repeat : Repeats, group : Nat, times : Repeats, placed : BOOLEAN]
MainRows == [id : Nat, repeat : Repeats, placed : BOOLEAN]

NewConRow == [kind |-> "click", ref |-> 0, of |-> 0, repeat |-> 1, group |-> 0,
              times |-> 1, placed |-> FALSE]
NewMainRow == [id |-> lastId + 1, repeat |-> 1, placed |-> FALSE]

Rows(s) == 1 .. Len(s)
----------------------------------------------------------------------------
(* Groups *)

\* A run: neighbouring rows with the same group id.
RunStart(s, i) == s[i].group # 0 /\ (i = 1 \/ s[i - 1].group # s[i].group)

FirstOfRun(s, i) ==
  CHOOSE j \in 1 .. i : RunStart(s, j) /\ \A k \in j + 1 .. i : ~RunStart(s, k)

\* Every run becomes a group with the next number and the count of its first row.
NormalizeTradeGroups(s) ==
  [i \in Rows(s) |->
     IF s[i].group = 0 THEN [s[i] EXCEPT !.times = 1]
     ELSE [s[i] EXCEPT !.group = Cardinality({j \in 1 .. i : RunStart(s, j)}),
                       !.times = s[FirstOfRun(s, i)].times]]

MaxTradeGroupId(s) ==
  LET ids == {0} \cup {s[i].group : i \in Rows(s)}
  IN CHOOSE n \in ids : \A id \in ids : id <= n

SameGroup(s, i, j) == \A k \in i .. j : s[k].group = s[j].group

TradeGroupStart(s, i) ==
  IF s[i].group = 0 THEN i
  ELSE CHOOSE j \in 1 .. i : SameGroup(s, j, i) /\ (j = 1 \/ s[j - 1].group # s[i].group)

TradeGroupEnd(s, i) ==
  IF s[i].group = 0 THEN i
  ELSE CHOOSE j \in i .. Len(s) :
         SameGroup(s, i, j) /\ (j = Len(s) \/ s[j + 1].group # s[i].group)

----------------------------------------------------------------------------
(* Lists of rows *)

Without(s, out) ==
  LET kept == Rows(s) \ out
      at == [n \in 1 .. Cardinality(kept) |->
               CHOOSE i \in kept : Cardinality({j \in kept : j <= i}) = n]
  IN [n \in DOMAIN at |-> s[at[n]]]

Swapped(s, i) == [s EXCEPT ![i] = s[i + 1], ![i + 1] = s[i]]

\* ResolveMainReference
Resolves(row) == row.ref \in 1 .. Len(mainRows)
RepeatOf(row) == IF row.kind = "main" THEN mainRows[row.ref].repeat ELSE row.repeat

HasPoint(row) ==
  IF row.kind = "main" THEN Resolves(row) /\ mainRows[row.ref].placed ELSE row.placed

\* The reference, if it is one, is broken or points to the row it was made for.
Follows(row, main) ==
  row.kind = "main" /\ row.ref # 0 => row.ref \in Rows(main) /\ main[row.ref].id = row.of

\* TradeSequenceReady: every click has its point, and items are transferred.
TradeSequenceReady ==
  /\ \A i \in Rows(con) : HasPoint(con[i])
  /\ \E i \in Rows(con) : con[i].kind = "transfer"

----------------------------------------------------------------------------
(* Editor commands.  Every list that is saved was normalized before.  *)

Edit == edits < MaxEdits /\ edits' = edits + 1
ConOnly == UNCHANGED <<mainRows, clip, lastId, clipOld, stale>>

AddMainRow(row) ==
  /\ Len(mainRows) < MaxRows
  /\ mainRows' = Append(mainRows, row)
  /\ lastId' = lastId + 1

AddTradeMainRow ==
  /\ Edit /\ AddMainRow(NewMainRow)
  /\ UNCHANGED <<con, clip, clipOld, stale>>

\* Mutant: the list has no limit.
AddConRowUnlimited ==
  /\ Edit
  /\ con' = NormalizeTradeGroups(Append(con, NewConRow))
  /\ ConOnly

AddTradeConRow ==
  /\ Edit /\ Len(con) < MaxRows
  /\ con' = NormalizeTradeGroups(Append(con, NewConRow))
  /\ ConOnly

\* Mutant: the references behind a deleted row are not moved up.
RefsKeepNumber(rows) ==
  [i \in Rows(con) |-> IF con[i].ref \in rows THEN [con[i] EXCEPT !.ref = 0] ELSE con[i]]

\* References to deleted rows break, the others follow their row.
RefsWithout(rows) ==
  [i \in Rows(con) |->
     IF con[i].ref \in rows THEN [con[i] EXCEPT !.ref = 0]
     ELSE [con[i] EXCEPT !.ref = @ - Cardinality({r \in rows : r < con[i].ref})]]

DeleteMainRows(rows) ==
  /\ Edit
  /\ con' = NormalizeTradeGroups(RefsWithout(rows))
  /\ mainRows' = Without(mainRows, rows)
  /\ clipOld' = TRUE
  /\ UNCHANGED <<clip, lastId, stale>>

DeleteConRows(rows) ==
  /\ Edit
  /\ con' = NormalizeTradeGroups(Without(con, rows))
  /\ ConOnly

\* Row i and the next one change places, and so do the references to them.
MoveMainRow(i) ==
  /\ Edit
  /\ mainRows' = Swapped(mainRows, i)
  /\ con' = [k \in Rows(con) |->
               [con[k] EXCEPT !.ref = CASE @ = i -> i + 1 [] @ = i + 1 -> i [] OTHER -> @]]
  /\ clipOld' = TRUE
  /\ UNCHANGED <<clip, lastId, stale>>

\* Mutant: the groups are not made contiguous again.
MoveConRowOnly(i) ==
  /\ Edit
  /\ con' = Swapped(con, i)
  /\ ConOnly

MoveConRow(i) ==
  /\ Edit
  /\ con' = NormalizeTradeGroups(Swapped(con, i))
  /\ ConOnly

SaveMainRow(i, n) ==
  /\ Edit
  /\ mainRows' = [mainRows EXCEPT ![i].repeat = n]
  /\ UNCHANGED <<con, clip, lastId, clipOld, stale>>

SaveConRow(i, kind, n) ==
  /\ Edit
  /\ con' = [con EXCEPT ![i] = [@ EXCEPT !.kind = kind, !.ref = 0, !.of = 0, !.repeat = n]]
  /\ ConOnly

SaveConReference(i, r) ==
  /\ Edit
  /\ con' = [con EXCEPT ![i] = [@ EXCEPT !.kind = "main", !.ref = r, !.of = mainRows[r].id]]
  /\ ConOnly

GroupSelectedTradeRows(first, last, n) ==
  /\ Edit
  /\ con' = NormalizeTradeGroups(
              [i \in Rows(con) |-> IF i \in first .. last
                                   THEN [con[i] EXCEPT !.group = MaxTradeGroupId(con) + 1,
                                                       !.times = n]
                                   ELSE con[i]])
  /\ ConOnly

\* A group is dissolved as a whole, whichever of its rows is selected.
UngroupSelectedTradeRows(i) ==
  /\ Edit /\ con[i].group # 0
  /\ con' = NormalizeTradeGroups(
              [k \in Rows(con) |-> IF con[k].group = con[i].group
                                   THEN [con[k] EXCEPT !.group = 0, !.times = 1]
                                   ELSE con[k]])
  /\ ConOnly

CopySelectedTradeRows(mode, rows) ==
  /\ Edit
  /\ LET s == IF mode = "main" THEN mainRows ELSE con
     IN clip' = [mode |-> mode, rows |-> Without(s, Rows(s) \ rows)]
  /\ clipOld' = FALSE
  /\ UNCHANGED <<con, mainRows, lastId, stale>>

Fitting(s) == {n \in Rows(clip.rows) : Len(s) + n <= MaxRows}

\* Copied rows of MAIN become rows of their own.
PasteMainRows ==
  /\ Edit /\ clip.mode = "main"
  /\ mainRows' = mainRows \o [n \in Fitting(mainRows) |->
                                [clip.rows[n] EXCEPT !.id = lastId + n]]
  /\ lastId' = lastId + Cardinality(Fitting(mainRows))
  /\ UNCHANGED <<con, clip, clipOld, stale>>

\* Copied groups become new groups; copied references keep their number.
PasteConRows ==
  /\ Edit /\ clip.mode = "con"
  /\ con' = NormalizeTradeGroups(
              con \o [n \in Fitting(con) |->
                        [clip.rows[n] EXCEPT !.group = IF @ = 0 THEN 0
                                                       ELSE @ + MaxTradeGroupId(con)]])
  /\ stale' = (stale \/ clipOld)
  /\ UNCHANGED <<mainRows, clip, lastId, clipOld>>

\* F8.  The row was frozen when the capture was armed; after a move or a
\* deletion its number may be that of any row.
CaptureMainPoint(i) ==
  /\ Edit /\ ~mainRows[i].placed
  /\ mainRows' = [mainRows EXCEPT ![i].placed = TRUE]
  /\ UNCHANGED <<con, clip, lastId, clipOld, stale>>

CaptureConPoint(i) ==
  /\ Edit /\ ~con[i].placed
  /\ con' = [con EXCEPT ![i].placed = TRUE]
  /\ ConOnly

(* A recording of one click; a longer one adds its rows one after another. *)
RecordMain ==
  /\ Edit /\ AddMainRow([NewMainRow EXCEPT !.placed = TRUE])
  /\ UNCHANGED <<con, clip, clipOld, stale>>

RecordConClick ==
  /\ Edit /\ Len(con) < MaxRows
  /\ con' = NormalizeTradeGroups(Append(con, [NewConRow EXCEPT !.placed = TRUE]))
  /\ ConOnly

Referring(r, id) == [NewConRow EXCEPT !.kind = "main", !.ref = r, !.of = id]

\* A click on MAIN becomes a reference: to the row with this point if there
\* is one, else to a new row.
RecordConReference ==
  /\ Edit /\ Len(con) < MaxRows
  /\ \/ \E r \in Rows(mainRows) :
          /\ mainRows[r].placed
          /\ con' = NormalizeTradeGroups(Append(con, Referring(r, mainRows[r].id)))
          /\ UNCHANGED <<mainRows, lastId>>
     \/ /\ AddMainRow([NewMainRow EXCEPT !.placed = TRUE])
        /\ con' = NormalizeTradeGroups(
                    Append(con, Referring(Len(mainRows) + 1, lastId + 1)))
  /\ UNCHANGED <<clip, clipOld, stale>>

EditMain ==
  \/ AddTradeMainRow \/ PasteMainRows \/ RecordMain
  \/ \E rows \in SUBSET Rows(mainRows) \ {{}} :
       DeleteMainRows(rows) \/ CopySelectedTradeRows("main", rows)
  \/ \E i \in 1 .. Len(mainRows) - 1 : MoveMainRow(i)
  \/ \E i \in Rows(mainRows) : CaptureMainPoint(i) \/ \E n \in Repeats : SaveMainRow(i, n)

EditCon ==
  \/ AddTradeConRow \/ PasteConRows \/ RecordConClick \/ RecordConReference
  \/ \E rows \in SUBSET Rows(con) \ {{}} :
       DeleteConRows(rows) \/ CopySelectedTradeRows("con", rows)
  \/ \E i \in 1 .. Len(con) - 1 : MoveConRow(i)
  \/ \E i \in Rows(con) :
       \/ UngroupSelectedTradeRows(i) \/ CaptureConPoint(i)
       \/ \E kind \in {"click", "transfer"}, n \in Repeats : SaveConRow(i, kind, n)
       \/ \E r \in Rows(mainRows) : SaveConReference(i, r)
       \/ \E last \in i .. Len(con), n \in Repeats : GroupSelectedTradeRows(i, last, n)

EditScript == EditMain \/ EditCon

----------------------------------------------------------------------------
ScriptTypeOK ==
  /\ con \in Seq(ConRows) /\ Len(con) <= MaxRows
  /\ mainRows \in Seq(MainRows) /\ Len(mainRows) <= MaxRows
  /\ clip.mode \in {"main", "con"}
  /\ clip.rows \in IF clip.mode = "main" THEN Seq(MainRows) ELSE Seq(ConRows)
  /\ edits \in 0 .. MaxEdits /\ lastId \in Nat
  /\ clipOld \in BOOLEAN /\ stale \in BOOLEAN

\* Rows with the same group id are neighbours and agree on the group's count,
\* and a row without group counts once, whatever is moved, pasted, deleted or
\* grouped anew (NormalizeTradeGroups; the executor relies on it).
GroupsWellFormed ==
  /\ \A i, j \in Rows(con) : i <= j /\ con[i].group = con[j].group /\ con[i].group # 0 =>
       SameGroup(con, i, j) /\ con[i].times = con[j].times
  /\ \A i \in Rows(con) : con[i].group = 0 => con[i].times = 1

\* A reference points to the MAIN row it was made for, or is broken, as long
\* as no reference is pasted that was copied before MAIN rows moved
\* (DeleteTradeSequenceRow, MoveTradeSequenceRow).
RefsFollowMain == ~stale => \A i \in Rows(con) : Follows(con[i], mainRows)

=============================================================================
