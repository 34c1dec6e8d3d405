------------------------------- MODULE RowUndo -------------------------------
(***************************************************************************)
(* What a flashback promises: a source applies changes to a table and logs  *)
(* them; later the flashback of each logged change is applied, the last one *)
(* first, and the table goes back through the states it was in.             *)
(***************************************************************************)
EXTENDS RowChange, Integers, Sequences

CONSTANT MaxLogged    \* changes in the log

VARIABLES table,      \* the table
          logged,     \* changes not undone yet
          earlier,    \* earlier[i]: the table before change i of the log
          undoing     \* the flashback has begun

undoVars == <<table, logged, earlier, undoing>>

UndoInit ==
  /\ table \in TableStates
  /\ logged = <<>> /\ earlier = <<>> /\ undoing = FALSE

Apply(c) ==
  /\ ~undoing /\ Len(logged) < MaxLogged /\ CanApply(table, c)
  /\ table' = ApplyRow(table, c)
  /\ logged' = Append(logged, c) /\ earlier' = Append(earlier, table)
  /\ UNCHANGED undoing

Turn == ~undoing /\ undoing' = TRUE /\ UNCHANGED <<table, logged, earlier>>

ButLast(s) == SubSeq(s, 1, Len(s) - 1)

(* A mutant: the changes are undone from the first on.                     *)
UndoFirst ==
  /\ undoing /\ logged # <<>>
  /\ table' = ApplyRow(table, FlashbackRow(logged[1]))
  /\ logged' = Tail(logged) /\ earlier' = Tail(earlier)
  /\ UNCHANGED undoing

(* The last block of the flashback's input is the first of its output.     *)
Undo ==
  /\ undoing /\ logged # <<>>
  /\ table' = ApplyRow(table, FlashbackRow(logged[Len(logged)]))
  /\ logged' = ButLast(logged) /\ earlier' = ButLast(earlier)
  /\ UNCHANGED undoing

UndoNext == (\E c \in Changes : Apply(c)) \/ Turn \/ Undo

UndoSpec == UndoInit /\ [][UndoNext]_undoVars

-----------------------------------------------------------------------------
(* The table after change i of the log.                                    *)
After(i) == IF i = Len(logged) THEN table ELSE earlier[i + 1]

(* Whatever was applied, the flashback of the last change still logged can *)
(* be applied, and gives the table as it was before that change; so the    *)
(* table the flashback leaves at the end is the first one.                 *)
UndoRestores ==
  logged # <<>> =>
    LET c == FlashbackRow(logged[Len(logged)])
    IN  CanApply(table, c) /\ ApplyRow(table, c) = earlier[Len(logged)]

(* The inductive invariant: every logged change leads from the table       *)
(* before it to the table before the next one.                             *)
UndoInv ==
  /\ table \in TableStates
  /\ logged \in Seq(Changes) /\ earlier \in Seq(TableStates) /\ Len(logged) = Len(earlier)
  /\ \A i \in 1..Len(logged) : CanApply(earlier[i], logged[i]) /\ ApplyRow(earlier[i], logged[i]) = After(i)
=============================================================================
