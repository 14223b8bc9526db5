--------------------------- MODULE DicCallProofs ---------------------------
(***************************************************************************)
(* What holds of dic()'s calls for any number of calls, sessions and       *)
(* rounds: types, the soundness of the session pointers, the order of the  *)
(* message tree, and that the table and the pointers implement             *)
(* MessageTree.  In its second half, what the rows of a call say of it:    *)
(* the rounds hang one below the other, a dead end is never continued, -c  *)
(* stays in its session, a call ends as its last row says, and the ceiling *)
(* of a budget stops the calls above it.                                   *)
(***************************************************************************)
EXTENDS DicCall, FiniteSetTheorems, TLAPS

\* Stages in which a call may own the open write transaction.
Writing == {"resolved", "raised", "cancelling", "closing"} \cup InTry

\* Uncommitted rows exist only inside somebody's transaction and are its own.
LockInv ==
    /\ writer = NoCall => committed = Len(table)
    /\ \A c \in Calls : writer = c => pc[c] \in Writing
    /\ \A i \in (committed + 1)..Len(table) : table[i].call = writer

\* What the locals of a call hold by the stage it has reached.
StageInv ==
    \A c \in Calls :
        /\ pc[c] = "inserted" => writer = c /\ committed < Len(table)
        /\ pc[c] \in {"settling", "recording", "closing"} =>
              /\ loc[c].status # NoStatus
              /\ loc[c].status = OK => loc[c].error = "none"
        /\ pc[c] = "closing" => loc[c].asked = 0

\* The row an answered call is about to point at.
PointingInv ==
    \A c \in Calls : pc[c] = "pointing" =>
        /\ loc[c].mid \in 1..committed
        /\ LET row == table[loc[c].mid]
           IN /\ row.session = loc[c].session
              /\ row.status = OK /\ row.error = "none"
              /\ row.asked = 0

IInv ==
    /\ TypeOK
    /\ LockInv
    /\ StageInv
    /\ PointingInv
    /\ PointerSound
    /\ NoDanglingParent

----------------------------------------------------------------------------
\* Facts about the building blocks of the actions.

\* A row built by insert() is a row of the messages table.
LEMMA NewRowType ==
    ASSUME TypeOK, NEW c \in Calls, NEW status \in RowStatuses,
           NEW error \in Errors, NEW billed \in BOOLEAN
    PROVE  NewRow(c, status, error, billed) \in Row
<1>1. loc[c] \in Locals
  BY DEF TypeOK
<1> QED
  BY <1>1 DEF NewRow, Row, Locals

\* Appending a row keeps the rows before it where they are.
LEMMA AppendFacts ==
    ASSUME TypeOK, NEW row \in Row
    PROVE  /\ Append(table, row) \in Seq(Row)
           /\ Len(Append(table, row)) = Len(table) + 1
           /\ \A i \in 1..Len(table) : Append(table, row)[i] = table[i]
           /\ Append(table, row)[Len(table) + 1] = row
<1> QED
  BY DEF TypeOK

\* What is left of the table after a rollback.
LEMMA PrefixFacts ==
    ASSUME TypeOK
    PROVE  /\ SubSeq(table, 1, committed) \in Seq(Row)
           /\ Len(SubSeq(table, 1, committed)) = committed
           /\ \A i \in 1..committed : SubSeq(table, 1, committed)[i] = table[i]
<1> QED
  BY DEF TypeOK

\* A rollback, whoever goes away, keeps the types.
LEMMA RollbackType ==
    ASSUME TypeOK, NEW c \in Calls, Rollback(c)
    PROVE  /\ table' \in Seq(Row)
           /\ committed' \in 0..Len(table')
           /\ writer' \in Calls \cup {NoCall}
<1> QED
  BY PrefixFacts, SMTT(60) DEF TypeOK, Rollback, db

\* So does an insert made durable at once.
LEMMA DurableType ==
    ASSUME TypeOK, NEW row \in Row, Durable(Append(table, row))
    PROVE  /\ table' \in Seq(Row)
           /\ committed' \in 0..Len(table')
           /\ writer' \in Calls \cup {NoCall}
<1> QED
  BY AppendFacts DEF TypeOK, Durable

----------------------------------------------------------------------------
\* What the actions that assign locals leave in them.

\* One call's locals become l, the others' stay.
Becomes(c, l) ==
    /\ loc' \in [Calls -> Locals]
    /\ loc'[c] = l
    /\ \A d \in Calls : d # c => loc'[d] = loc[d]

LEMMA LocAt ==
    ASSUME TypeOK, NEW c \in Calls, NEW l \in Locals,
           loc' = [loc EXCEPT ![c] = l]
    PROVE  Becomes(c, l)
<1> QED
  BY DEF TypeOK, Becomes

\* Setting a counter or a mid keeps the record type and the other fields.
LEMMA SetNat ==
    ASSUME NEW l \in Locals, NEW n \in Nat
    PROVE  /\ [l EXCEPT !.asked = n] \in Locals
           /\ [l EXCEPT !.answered = n] \in Locals
           /\ [l EXCEPT !.index = n] \in Locals
           /\ [l EXCEPT !.prev = n] \in Locals
           /\ [l EXCEPT !.mid = n] \in Locals
<1> QED
  BY DEF Locals

\* prev and session are all the other fields the invariants look at where only
\* a counter moves.
LEMMA SetNatKeeps ==
    ASSUME NEW l \in Locals, NEW n \in Nat
    PROVE  /\ [l EXCEPT !.asked = n].prev = l.prev
           /\ [l EXCEPT !.answered = n].prev = l.prev
           /\ [l EXCEPT !.index = n].prev = l.prev
           /\ [l EXCEPT !.mid = n].prev = l.prev
           /\ [l EXCEPT !.mid = n].mid = n
           /\ [l EXCEPT !.prev = n].prev = n
           /\ [l EXCEPT !.mid = n].session = l.session
           /\ [l EXCEPT !.answered = n].status = l.status
           /\ [l EXCEPT !.answered = n].error = l.error
<1> QED
  BY DEF Locals

LEMMA ResolveLoc ==
    ASSUME TypeOK, NEW c \in Calls, NEW mode \in Modes, NEW mid \in Nat,
           ContinueFrom(c, mode, mid)
    PROVE  \E l \in Locals : Becomes(c, l) /\ l.prev = mid
<1> DEFINE l == [loc[c] EXCEPT !.mode = mode, !.prev = mid]
<1>1. loc[c] \in Locals
  BY DEF TypeOK
<1>2. l \in Locals /\ l.prev = mid
  BY <1>1 DEF Locals
<1>3. loc' = [loc EXCEPT ![c] = l]
  BY DEF ContinueFrom
<1> HIDE DEF l
<1> QED
  BY <1>2, <1>3, LocAt

LEMMA SendRequestLoc ==
    ASSUME TypeOK, NEW c \in Calls, SendRequest(c)
    PROVE  \E l \in Locals : Becomes(c, l) /\ l.prev = loc[c].prev
<1> DEFINE l == [loc[c] EXCEPT !.status = NoStatus, !.error = "none",
                               !.asked = 0, !.answered = 0]
<1>1. loc[c] \in Locals
  BY DEF TypeOK
<1>2. l \in Locals /\ l.prev = loc[c].prev
  BY <1>1 DEF Locals, Statuses, Errors
<1>3. loc' = [loc EXCEPT ![c] = l]
  BY DEF SendRequest
<1> HIDE DEF l
<1> QED
  BY <1>2, <1>3, LocAt

LEMMA ParseToolCallLoc ==
    ASSUME TypeOK, NEW c \in Calls, ParseToolCall(c)
    PROVE  \E l \in Locals : Becomes(c, l) /\ l.prev = loc[c].prev
<1> DEFINE l == [loc[c] EXCEPT !.asked = loc[c].asked + 1]
<1>1. loc[c] \in Locals
  BY DEF TypeOK
<1>2. loc[c].asked + 1 \in Nat
  BY <1>1 DEF Locals
<1>3. l \in Locals /\ l.prev = loc[c].prev
  BY <1>1, <1>2, SetNat, SetNatKeeps
<1>4. loc' = [loc EXCEPT ![c] = l]
  BY DEF ParseToolCall
<1> HIDE DEF l
<1> QED
  BY <1>3, <1>4, LocAt

\* A stream that ends has a status, and a 200 of it has no error.
LEMMA EndStreamLoc ==
    ASSUME TypeOK, NEW c \in Calls, EndStream(c)
    PROVE  \E l \in Locals :
              /\ Becomes(c, l)
              /\ l.prev = loc[c].prev
              /\ l.status \in RowStatuses
              /\ l.status = OK => l.error = "none"
<1>1. PICK o \in Outcomes : loc' = [loc EXCEPT ![c] =
                             [@ EXCEPT !.status = o.status, !.error = o.error]]
  BY DEF EndStream
<1>2. /\ o.status \in RowStatuses /\ o.status \in Statuses
      /\ o.error \in Errors
      /\ o.status = OK => o.error = "none"
  BY DEF Outcomes, RowStatuses, Statuses, Errors, OK, Refused, Failed, NoStatus
<1> DEFINE l == [loc[c] EXCEPT !.status = o.status, !.error = o.error]
<1>3. loc[c] \in Locals
  BY DEF TypeOK
<1>4. l \in Locals
  BY <1>2, <1>3 DEF Locals
<1>5. l.prev = loc[c].prev /\ l.status = o.status /\ l.error = o.error
  BY <1>3 DEF Locals
<1>6. loc' = [loc EXCEPT ![c] = l]
  BY <1>1
<1>7. Becomes(c, l)
  <2> HIDE DEF l
  <2> QED
    BY <1>4, <1>6, LocAt
<1> HIDE DEF l
<1> QED
  BY <1>2, <1>4, <1>5, <1>7

LEMMA RunToolLoc ==
    ASSUME TypeOK, NEW c \in Calls, RunTool(c)
    PROVE  \E l \in Locals :
              /\ Becomes(c, l)
              /\ l.prev = loc[c].prev
              /\ l.status = loc[c].status
              /\ l.error = loc[c].error
<1> DEFINE l == [loc[c] EXCEPT !.answered = loc[c].answered + 1]
<1>1. loc[c] \in Locals
  BY DEF TypeOK
<1>2. loc[c].answered + 1 \in Nat
  BY <1>1 DEF Locals
<1>3. /\ l \in Locals
      /\ l.prev = loc[c].prev
      /\ l.status = loc[c].status
      /\ l.error = loc[c].error
  BY <1>1, <1>2, SetNat, SetNatKeeps
<1>4. loc' = [loc EXCEPT ![c] = l]
  BY DEF RunTool
<1> HIDE DEF l
<1> QED
  BY <1>3, <1>4, LocAt

LEMMA InsertRoundLoc ==
    ASSUME TypeOK, NEW c \in Calls, InsertRound(c)
    PROVE  \E l \in Locals : Becomes(c, l) /\ l.prev = Len(table) + 1
<1> DEFINE l == [loc[c] EXCEPT !.prev = Len(table) + 1]
<1>1. loc[c] \in Locals /\ Len(table) + 1 \in Nat
  BY DEF TypeOK
<1>2. l \in Locals /\ l.prev = Len(table) + 1
  BY <1>1, SetNat, SetNatKeeps
<1>3. loc' = [loc EXCEPT ![c] = l]
  BY DEF InsertRound
<1> HIDE DEF l
<1> QED
  BY <1>2, <1>3, LocAt

LEMMA NextRoundLoc ==
    ASSUME TypeOK, NEW c \in Calls, NextRound(c)
    PROVE  \E l \in Locals : Becomes(c, l) /\ l.prev = loc[c].prev
<1> DEFINE l == [loc[c] EXCEPT !.index = loc[c].index + 1]
<1>1. loc[c] \in Locals
  BY DEF TypeOK
<1>2. loc[c].index + 1 \in Nat
  BY <1>1 DEF Locals
<1>3. l \in Locals /\ l.prev = loc[c].prev
  BY <1>1, <1>2, SetNat, SetNatKeeps
<1>4. loc' = [loc EXCEPT ![c] = l]
  BY DEF NextRound
<1> HIDE DEF l
<1> QED
  BY <1>3, <1>4, LocAt

LEMMA StoreAnswerLoc ==
    ASSUME TypeOK, NEW c \in Calls, StoreAnswer(c)
    PROVE  \E l \in Locals :
              /\ Becomes(c, l)
              /\ l.prev = loc[c].prev
              /\ l.mid = Len(table) + 1
              /\ l.session = loc[c].session
<1> DEFINE l == [loc[c] EXCEPT !.mid = Len(table) + 1]
<1>1. loc[c] \in Locals /\ Len(table) + 1 \in Nat
  BY DEF TypeOK
<1>2. /\ l \in Locals
      /\ l.prev = loc[c].prev
      /\ l.mid = Len(table) + 1
      /\ l.session = loc[c].session
  BY <1>1, SetNat, SetNatKeeps
<1>3. loc' = [loc EXCEPT ![c] = l]
  BY DEF StoreAnswer
<1> HIDE DEF l
<1> QED
  BY <1>2, <1>3, LocAt

----------------------------------------------------------------------------
\* Type correctness.

\* A jump to a stage of dic() keeps pc a function to stages.
LEMMA StageType ==
    ASSUME TypeOK, NEW c \in Calls
    PROVE  /\ \A s \in Stages : [pc EXCEPT ![c] = s] \in [Calls -> Stages]
           /\ {"opened", "budgeted", "refused", "resolved", "request",
               "streaming", "settling", "raised", "recording", "closing",
               "lost", "inserted", "committed", "cancelling", "cancelled",
               "failed", "pointing", "done", "unpointed"} \subseteq Stages
<1> QED
  BY DEF TypeOK, Stages, InTry, InHandler, Ended

\* The statuses dic writes by itself, and a status the wire gave.
LEMMA StatusType ==
    ASSUME TypeOK, NEW c \in Calls
    PROVE  /\ Failed \in RowStatuses
           /\ loc[c].status # NoStatus => loc[c].status \in RowStatuses
           /\ loc[c].error \in Errors
           /\ {"cancelled", "raised"} \subseteq Errors
<1>1. loc[c] \in Locals
  BY DEF TypeOK
<1> QED
  BY <1>1 DEF Locals, RowStatuses, Statuses, Errors, Failed, NoStatus, OK,
              Refused

\* A round that reached its end has a status and an error, or none.
LEMMA SettledStatus ==
    ASSUME TypeOK, StageInv, NEW c \in Calls,
           pc[c] \in {"settling", "recording", "closing"}
    PROVE  loc[c].status \in RowStatuses /\ loc[c].error \in Errors
<1> QED
  BY StatusType DEF StageInv

\* Every step of a call keeps the types.
LEMMA TypeStep ==
    ASSUME TypeOK, StageInv, NEW c \in Calls,
           Run(c) \/ Interrupt(c) \/ Kill(c)
    PROVE  TypeOK'
<1>1. CASE Open(c)
  BY <1>1, StageType DEF Open, Goto, db, TypeOK
<1>2. CASE CheckBudget(c)
  BY <1>2, StageType DEF CheckBudget, Goto, db, TypeOK
<1>3. CASE Resolve(c)
  <2>1. loc' \in [Calls -> Locals]
    <3>1. \E mode \in Modes, mid \in Nat : ContinueFrom(c, mode, mid)
      BY <1>3 DEF Resolve, Modes, Visible, TypeOK, Locals
    <3> QED
      BY <3>1, ResolveLoc DEF Becomes
  <2> QED
    BY <1>3, <2>1, StageType DEF Resolve, Goto, db, TypeOK
<1>4. CASE Refuse(c)
  BY <1>4, RollbackType, StageType DEF Refuse, Goto, TypeOK
<1>5. CASE StoreAttachment(c)
  BY <1>5 DEF StoreAttachment, TypeOK
<1>6. CASE BuildRequest(c)
  BY <1>6, StageType DEF BuildRequest, Goto, db, TypeOK
<1>7. CASE SendRequest(c)
  <2>1. loc' \in [Calls -> Locals]
    BY <1>7, SendRequestLoc DEF Becomes
  <2> QED
    BY <1>7, <2>1, StageType DEF SendRequest, Goto, db, TypeOK
<1>8. CASE ParseToolCall(c)
  <2>1. loc' \in [Calls -> Locals]
    BY <1>8, ParseToolCallLoc DEF Becomes
  <2> QED
    BY <1>8, <2>1, StageType DEF ParseToolCall, Goto, db, TypeOK
<1>9. CASE EndStream(c)
  <2>1. loc' \in [Calls -> Locals]
    BY <1>9, EndStreamLoc DEF Becomes
  <2> QED
    BY <1>9, <2>1, StageType DEF EndStream, Goto, db, TypeOK
<1>10. CASE AdaptorRaises(c)
  BY <1>10, StageType DEF AdaptorRaises, Goto, db, TypeOK
<1>11. CASE GiveUp(c)
  BY <1>11, StageType DEF GiveUp, Goto, db, TypeOK
<1>12. CASE BadArguments(c)
  BY <1>12, StageType DEF BadArguments, Goto, db, TypeOK
<1>13. CASE RunTool(c)
  <2>1. loc' \in [Calls -> Locals]
    BY <1>13, RunToolLoc DEF Becomes
  <2> QED
    BY <1>13, <2>1, StageType DEF RunTool, Goto, db, TypeOK
<1>14. CASE Settle(c)
  BY <1>14, StageType DEF Settle, Goto, db, TypeOK
<1>15. CASE CannotBill(c)
  BY <1>15, RollbackType, StageType DEF CannotBill, Goto, TypeOK
<1>16. CASE InsertRound(c)
  <2>1. loc' \in [Calls -> Locals]
    BY <1>16, InsertRoundLoc DEF Becomes
  <2> DEFINE row == NewRow(c, loc[c].status, loc[c].error, TRUE)
  <2>2. row \in Row
    BY <1>16, SettledStatus, NewRowType DEF InsertRound, At
  <2>3. table' = Append(table, row)
    BY <1>16 DEF InsertRound
  <2> HIDE DEF row
  <2>4. table' \in Seq(Row) /\ Len(table') = Len(table) + 1
    BY <2>2, <2>3, AppendFacts
  <2>5. committed' \in 0..Len(table')
    BY <1>16, <2>4 DEF InsertRound, TypeOK
  <2> QED
    BY <1>16, <2>1, <2>4, <2>5, StageType DEF InsertRound, Goto, TypeOK
<1>17. CASE CommitRound(c)
  BY <1>17, StageType DEF CommitRound, Durable, Goto, TypeOK
<1>18. CASE NextRound(c)
  <2>1. loc' \in [Calls -> Locals]
    BY <1>18, NextRoundLoc DEF Becomes
  <2> QED
    BY <1>18, <2>1, StageType DEF NextRound, Goto, db, TypeOK
<1>19. CASE StoreCancelled(c)
  <2> DEFINE row == NewRow(c, Failed, "cancelled", FALSE)
  <2>1. row \in Row
    BY NewRowType, StatusType
  <2>2. Durable(Append(table, row))
    BY <1>19 DEF StoreCancelled
  <2> HIDE DEF row
  <2>3. /\ table' \in Seq(Row)
        /\ committed' \in 0..Len(table')
        /\ writer' \in Calls \cup {NoCall}
    BY <2>1, <2>2, DurableType
  <2> QED
    BY <1>19, <2>3, StageType DEF StoreCancelled, Goto, TypeOK
<1>20. CASE StoreFailure(c)
  <2> DEFINE row == NewRow(c, IF loc[c].status = NoStatus THEN Failed
                               ELSE loc[c].status, "raised", FALSE)
  <2>1. row \in Row
    BY NewRowType, StatusType
  <2>2. Durable(Append(table, row))
    BY <1>20 DEF StoreFailure
  <2> HIDE DEF row
  <2>3. /\ table' \in Seq(Row)
        /\ committed' \in 0..Len(table')
        /\ writer' \in Calls \cup {NoCall}
    BY <2>1, <2>2, DurableType
  <2> QED
    BY <1>20, <2>3, StageType DEF StoreFailure, Goto, TypeOK
<1>21. CASE StoreAnswer(c)
  <2> DEFINE row == NewRow(c, loc[c].status, loc[c].error,
                         loc[c].status = OK)
  <2>1. row \in Row
    BY <1>21, SettledStatus, NewRowType DEF StoreAnswer, At
  <2>2. Durable(Append(table, row))
    BY <1>21 DEF StoreAnswer
  <2> HIDE DEF row
  <2>3. /\ table' \in Seq(Row)
        /\ committed' \in 0..Len(table')
        /\ writer' \in Calls \cup {NoCall}
    BY <2>1, <2>2, DurableType
  <2>4. loc' \in [Calls -> Locals]
    BY <1>21, StoreAnswerLoc DEF Becomes
  <2>5. AfterAnswer(c) \in Stages
    BY DEF AfterAnswer, Stages, Ended
  <2> QED
    BY <1>21, <2>3, <2>4, <2>5, StageType DEF StoreAnswer, Goto, TypeOK
<1>22. CASE PointSession(c)
  <2>1. loc[c].session \in Sessions /\ loc[c].mid \in Nat
    BY DEF TypeOK, Locals
  <2> QED
    BY <1>22, <2>1, StageType DEF PointSession, Goto, db, TypeOK
<1>23. CASE PointerRefused(c)
  BY <1>23, StageType DEF PointerRefused, Goto, db, TypeOK
<1>24. CASE Busy(c)
  BY <1>24, StageType DEF Busy, Goto, db, TypeOK
<1>25. CASE Interrupt(c)
  BY <1>25, StageType DEF Interrupt, Goto, db, TypeOK
<1>26. CASE Kill(c)
  BY <1>26, RollbackType, StageType DEF Kill, Goto, TypeOK
<1> QED
  BY <1>1, <1>2, <1>3, <1>4, <1>5, <1>6, <1>7, <1>8, <1>9, <1>10, <1>11,
     <1>12, <1>13, <1>14, <1>15, <1>16, <1>17, <1>18, <1>19, <1>20,
     <1>21, <1>22, <1>23, <1>24, <1>25, <1>26
     DEF Run, Prepare, Ask, Finish

----------------------------------------------------------------------------
\* What a step does to the rows others can see.

\* The new row of a step that stores one, as far as the invariants look at it.
Stores(c) ==
    /\ pc[c] \notin Ended
    /\ \E row \in Row :
        /\ row.call = c
        /\ row.session = loc[c].session
        /\ row.prev = loc[c].prev
        /\ table' = Append(table, row)

\* A step changes the table in one of three ways.
TableEffect(c) ==
    \/ table' = table
    \/ Rollback(c)
    \/ Stores(c)

LEMMA TableStep ==
    ASSUME TypeOK, StageInv, NEW c \in Calls,
           Run(c) \/ Interrupt(c) \/ Kill(c)
    PROVE  TableEffect(c)
<1>1. CASE Open(c)
  BY <1>1 DEF TableEffect, Open, db
<1>2. CASE CheckBudget(c)
  BY <1>2 DEF TableEffect, CheckBudget, db
<1>3. CASE Resolve(c)
  BY <1>3 DEF TableEffect, Resolve, db
<1>4. CASE Refuse(c)
  BY <1>4 DEF TableEffect, Refuse
<1>5. CASE StoreAttachment(c)
  BY <1>5 DEF TableEffect, StoreAttachment
<1>6. CASE BuildRequest(c)
  BY <1>6 DEF TableEffect, BuildRequest, db
<1>7. CASE SendRequest(c)
  BY <1>7 DEF TableEffect, SendRequest, db
<1>8. CASE ParseToolCall(c)
  BY <1>8 DEF TableEffect, ParseToolCall, db
<1>9. CASE EndStream(c)
  BY <1>9 DEF TableEffect, EndStream, db
<1>10. CASE AdaptorRaises(c)
  BY <1>10 DEF TableEffect, AdaptorRaises, db
<1>11. CASE GiveUp(c)
  BY <1>11 DEF TableEffect, GiveUp, db
<1>12. CASE BadArguments(c)
  BY <1>12 DEF TableEffect, BadArguments, db
<1>13. CASE RunTool(c)
  BY <1>13 DEF TableEffect, RunTool, db
<1>14. CASE Settle(c)
  BY <1>14 DEF TableEffect, Settle, db
<1>15. CASE CannotBill(c)
  BY <1>15 DEF TableEffect, CannotBill
<1>16. CASE InsertRound(c)
  <2> DEFINE row == NewRow(c, loc[c].status, loc[c].error, TRUE)
  <2>1. row \in Row
    BY <1>16, SettledStatus, NewRowType DEF InsertRound, At
  <2>2. /\ row.call = c
        /\ row.session = loc[c].session
        /\ row.prev = loc[c].prev
    BY DEF NewRow
  <2>3. table' = Append(table, row)
    BY <1>16 DEF InsertRound, Durable
  <2>4. pc[c] \notin Ended
    BY <1>16 DEF InsertRound, At, Ended
  <2> HIDE DEF row
  <2> QED
    BY <2>1, <2>2, <2>3, <2>4 DEF TableEffect, Stores
<1>17. CASE CommitRound(c)
  BY <1>17 DEF TableEffect, CommitRound, Durable
<1>18. CASE NextRound(c)
  BY <1>18 DEF TableEffect, NextRound, db
<1>19. CASE StoreCancelled(c)
  <2> DEFINE row == NewRow(c, Failed, "cancelled", FALSE)
  <2>1. row \in Row
    BY NewRowType, StatusType
  <2>2. /\ row.call = c
        /\ row.session = loc[c].session
        /\ row.prev = loc[c].prev
    BY DEF NewRow
  <2>3. table' = Append(table, row)
    BY <1>19 DEF StoreCancelled, Durable
  <2>4. pc[c] \notin Ended
    BY <1>19 DEF StoreCancelled, At, Ended
  <2> HIDE DEF row
  <2> QED
    BY <2>1, <2>2, <2>3, <2>4 DEF TableEffect, Stores
<1>20. CASE StoreFailure(c)
  <2> DEFINE row == NewRow(c, IF loc[c].status = NoStatus THEN Failed
                               ELSE loc[c].status, "raised", FALSE)
  <2>1. row \in Row
    BY NewRowType, StatusType
  <2>2. /\ row.call = c
        /\ row.session = loc[c].session
        /\ row.prev = loc[c].prev
    BY DEF NewRow
  <2>3. table' = Append(table, row)
    BY <1>20 DEF StoreFailure, Durable
  <2>4. pc[c] \notin Ended
    BY <1>20 DEF StoreFailure, At, Ended
  <2> HIDE DEF row
  <2> QED
    BY <2>1, <2>2, <2>3, <2>4 DEF TableEffect, Stores
<1>21. CASE StoreAnswer(c)
  <2> DEFINE row == NewRow(c, loc[c].status, loc[c].error,
                         loc[c].status = OK)
  <2>1. row \in Row
    BY <1>21, SettledStatus, NewRowType DEF StoreAnswer, At
  <2>2. /\ row.call = c
        /\ row.session = loc[c].session
        /\ row.prev = loc[c].prev
    BY DEF NewRow
  <2>3. table' = Append(table, row)
    BY <1>21 DEF StoreAnswer, Durable
  <2>4. pc[c] \notin Ended
    BY <1>21 DEF StoreAnswer, At, Ended
  <2> HIDE DEF row
  <2> QED
    BY <2>1, <2>2, <2>3, <2>4 DEF TableEffect, Stores
<1>22. CASE PointSession(c)
  BY <1>22 DEF TableEffect, PointSession, db
<1>23. CASE PointerRefused(c)
  BY <1>23 DEF TableEffect, PointerRefused, db
<1>24. CASE Busy(c)
  BY <1>24 DEF TableEffect, Busy, db
<1>25. CASE Interrupt(c)
  BY <1>25 DEF TableEffect, Interrupt, db
<1>26. CASE Kill(c)
  BY <1>26 DEF TableEffect, Kill
<1> QED
  BY <1>1, <1>2, <1>3, <1>4, <1>5, <1>6, <1>7, <1>8, <1>9, <1>10, <1>11,
     <1>12, <1>13, <1>14, <1>15, <1>16, <1>17, <1>18, <1>19, <1>20,
     <1>21, <1>22, <1>23, <1>24, <1>25, <1>26
     DEF Run, Prepare, Ask, Finish

----------------------------------------------------------------------------
\* The write lock.

\* Every step keeps the lock and the uncommitted rows together.
LEMMA LockStep ==
    ASSUME TypeOK, LockInv, StageInv, NEW c \in Calls,
           Run(c) \/ Interrupt(c) \/ Kill(c)
    PROVE  LockInv'
<1> USE CallsAssumption
<1>1. CASE Open(c)
  BY <1>1 DEF Open, At, Goto, db, LockInv, TypeOK, Writing, InTry
<1>2. CASE CheckBudget(c)
  BY <1>2 DEF CheckBudget, At, Goto, db, LockInv, TypeOK, Writing, InTry
<1>3. CASE Resolve(c)
  BY <1>3 DEF Resolve, At, Goto, db, LockInv, TypeOK, Writing, InTry
<1>4. CASE Refuse(c)
  BY <1>4, PrefixFacts DEF Refuse, Rollback, Goto, db, LockInv, TypeOK, Writing, InTry
<1>5. CASE StoreAttachment(c)
  BY <1>5 DEF StoreAttachment, At, Goto, db, LockInv, TypeOK, Writing, InTry
<1>6. CASE BuildRequest(c)
  BY <1>6 DEF BuildRequest, At, Goto, db, LockInv, TypeOK, Writing, InTry
<1>7. CASE SendRequest(c)
  BY <1>7 DEF SendRequest, At, Goto, db, LockInv, TypeOK, Writing, InTry
<1>8. CASE ParseToolCall(c)
  BY <1>8 DEF ParseToolCall, At, Goto, db, LockInv, TypeOK, Writing, InTry
<1>9. CASE EndStream(c)
  BY <1>9 DEF EndStream, At, Goto, db, LockInv, TypeOK, Writing, InTry
<1>10. CASE AdaptorRaises(c)
  BY <1>10 DEF AdaptorRaises, At, Goto, db, LockInv, TypeOK, Writing, InTry
<1>11. CASE GiveUp(c)
  BY <1>11 DEF GiveUp, At, Goto, db, LockInv, TypeOK, Writing, InTry
<1>12. CASE BadArguments(c)
  BY <1>12 DEF BadArguments, At, Goto, db, LockInv, TypeOK, Writing, InTry
<1>13. CASE RunTool(c)
  BY <1>13 DEF RunTool, At, Goto, db, LockInv, TypeOK, Writing, InTry
<1>14. CASE Settle(c)
  BY <1>14 DEF Settle, At, Goto, db, LockInv, TypeOK, Writing, InTry
<1>15. CASE CannotBill(c)
  BY <1>15, PrefixFacts DEF CannotBill, Rollback, Goto, db, LockInv, TypeOK, Writing, InTry
<1>16. CASE InsertRound(c)
  <2> DEFINE row == NewRow(c, loc[c].status, loc[c].error, TRUE)
  <2>1. row \in Row
    BY <1>16, SettledStatus, NewRowType DEF InsertRound, At
  <2>0. row.call = c
    BY DEF NewRow
  <2>2. table' = Append(table, row)
    BY <1>16 DEF InsertRound
  <2> HIDE DEF row
  <2>3. /\ Len(table') = Len(table) + 1
        /\ \A i \in 1..Len(table) : table'[i] = table[i]
        /\ table'[Len(table) + 1].call = c
    BY <2>0, <2>1, <2>2, AppendFacts
  <2>4. \A i \in (committed + 1)..Len(table) : table[i].call = c
    BY <1>16 DEF InsertRound, MayWrite, LockInv, TypeOK
  <2>5. committed' = committed /\ writer' = c
    BY <1>16 DEF InsertRound
  <2>6. \A i \in (committed' + 1)..Len(table') : table'[i].call = writer'
    BY <2>3, <2>4, <2>5 DEF TypeOK
  <2>7. pc'[c] = "inserted"
    BY <1>16 DEF InsertRound, Goto, TypeOK
  <2> QED
    BY <2>5, <2>6, <2>7 DEF LockInv, Writing, InTry
<1>17. CASE CommitRound(c)
  <2>1. committed' = Len(table') /\ writer' = NoCall
    BY <1>17 DEF CommitRound, Durable
  <2>2. Len(table') \in Nat
    BY <1>17, TypeStep DEF Run, Ask, TypeOK
  <2> QED
    BY <2>1, <2>2 DEF LockInv
<1>18. CASE NextRound(c)
  BY <1>18 DEF NextRound, At, Goto, db, LockInv, TypeOK, Writing, InTry
<1>19. CASE StoreCancelled(c)
  <2>1. committed' = Len(table') /\ writer' = NoCall
    BY <1>19 DEF StoreCancelled, Durable
  <2>2. Len(table') \in Nat
    BY <1>19, TypeStep DEF Run, Finish, TypeOK
  <2> QED
    BY <2>1, <2>2 DEF LockInv
<1>20. CASE StoreFailure(c)
  <2>1. committed' = Len(table') /\ writer' = NoCall
    BY <1>20 DEF StoreFailure, Durable
  <2>2. Len(table') \in Nat
    BY <1>20, TypeStep DEF Run, Finish, TypeOK
  <2> QED
    BY <2>1, <2>2 DEF LockInv
<1>21. CASE StoreAnswer(c)
  <2>1. committed' = Len(table') /\ writer' = NoCall
    BY <1>21 DEF StoreAnswer, Durable
  <2>2. Len(table') \in Nat
    BY <1>21, TypeStep DEF Run, Finish, TypeOK
  <2> QED
    BY <2>1, <2>2 DEF LockInv
<1>22. CASE PointSession(c)
  BY <1>22 DEF PointSession, At, Goto, db, LockInv, TypeOK, Writing, InTry
<1>23. CASE PointerRefused(c)
  BY <1>23 DEF PointerRefused, At, Goto, db, LockInv, TypeOK, Writing, InTry
<1>24. CASE Busy(c)
  BY <1>24 DEF Busy, MayWrite, Goto, db, LockInv, TypeOK
<1>25. CASE Interrupt(c)
  BY <1>25 DEF Interrupt, At, Goto, db, LockInv, TypeOK, Writing, InTry
<1>26. CASE Kill(c)
  BY <1>26, PrefixFacts DEF Kill, Rollback, Goto, db, LockInv, TypeOK, Writing, InTry
<1> QED
  BY <1>1, <1>2, <1>3, <1>4, <1>5, <1>6, <1>7, <1>8, <1>9, <1>10, <1>11,
     <1>12, <1>13, <1>14, <1>15, <1>16, <1>17, <1>18, <1>19, <1>20,
     <1>21, <1>22, <1>23, <1>24, <1>25, <1>26
     DEF Run, Prepare, Ask, Finish

----------------------------------------------------------------------------
\* The locals by stage.

\* Every step leaves every call's locals fit for the stage it is at.
LEMMA StageStep ==
    ASSUME TypeOK, LockInv, StageInv, NEW c \in Calls,
           Run(c) \/ Interrupt(c) \/ Kill(c)
    PROVE  StageInv'
<1> USE CallsAssumption
<1>1. CASE Open(c)
  BY <1>1 DEF Open, At, Goto, db, StageInv, TypeOK
<1>2. CASE CheckBudget(c)
  BY <1>2 DEF CheckBudget, At, Goto, db, StageInv, TypeOK
<1>3. CASE Resolve(c)
  <2>1. \E mode \in Modes, mid \in Nat : ContinueFrom(c, mode, mid)
    BY <1>3 DEF Resolve, Modes, Visible, TypeOK, Locals
  <2>2. \A d \in Calls : d # c => loc'[d] = loc[d]
    BY <2>1, ResolveLoc DEF Becomes
  <2> QED
    BY <1>3, <2>2 DEF Resolve, Goto, db, StageInv, TypeOK
<1>4. CASE Refuse(c)
  BY <1>4, PrefixFacts DEF Refuse, Rollback, Goto, db, StageInv, LockInv, TypeOK
<1>5. CASE StoreAttachment(c)
  BY <1>5 DEF StoreAttachment, At, StageInv, LockInv, TypeOK
<1>6. CASE BuildRequest(c)
  BY <1>6 DEF BuildRequest, At, Goto, db, StageInv, TypeOK
<1>7. CASE SendRequest(c)
  <2>1. \A d \in Calls : d # c => loc'[d] = loc[d]
    BY <1>7, SendRequestLoc DEF Becomes
  <2> QED
    BY <1>7, <2>1 DEF SendRequest, At, Goto, db, StageInv, TypeOK
<1>8. CASE ParseToolCall(c)
  <2>1. \A d \in Calls : d # c => loc'[d] = loc[d]
    BY <1>8, ParseToolCallLoc DEF Becomes
  <2> QED
    BY <1>8, <2>1 DEF ParseToolCall, At, Goto, db, StageInv, TypeOK
<1>9. CASE EndStream(c)
  <2>1. /\ \A d \in Calls : d # c => loc'[d] = loc[d]
        /\ loc'[c].status \in RowStatuses
        /\ loc'[c].status = OK => loc'[c].error = "none"
    BY <1>9, EndStreamLoc DEF Becomes
  <2> QED
    BY <1>9, <2>1 DEF EndStream, Goto, db, StageInv, TypeOK, RowStatuses
<1>10. CASE AdaptorRaises(c)
  BY <1>10 DEF AdaptorRaises, At, Goto, db, StageInv, TypeOK
<1>11. CASE GiveUp(c)
  BY <1>11 DEF GiveUp, At, Goto, db, StageInv, TypeOK
<1>12. CASE BadArguments(c)
  BY <1>12 DEF BadArguments, At, Goto, db, StageInv, TypeOK
<1>13. CASE RunTool(c)
  <2>1. /\ \A d \in Calls : d # c => loc'[d] = loc[d]
        /\ loc'[c].status = loc[c].status
        /\ loc'[c].error = loc[c].error
    BY <1>13, RunToolLoc DEF Becomes
  <2> QED
    BY <1>13, <2>1 DEF RunTool, At, db, StageInv, TypeOK
<1>14. CASE Settle(c)
  <2>1. ~(loc[c].asked > 0) => loc[c].asked = 0
    BY DEF TypeOK, Locals
  <2> QED
    BY <1>14, <2>1 DEF Settle, At, Goto, db, StageInv, TypeOK
<1>15. CASE CannotBill(c)
  BY <1>15, PrefixFacts DEF CannotBill, Rollback, Goto, db, StageInv, LockInv, TypeOK
<1>16. CASE InsertRound(c)
  <2>1. /\ \A d \in Calls : d # c => loc'[d] = loc[d]
    BY <1>16, InsertRoundLoc DEF Becomes
  <2>2. Len(table') = Len(table) + 1
    BY <1>16, SettledStatus, NewRowType, AppendFacts DEF InsertRound, At
  <2> QED
    BY <1>16, <2>1, <2>2 DEF InsertRound, MayWrite, Goto, StageInv, TypeOK
<1>17. CASE CommitRound(c)
  <2>1. \A d \in Calls : d # c => writer # d
    BY <1>17 DEF CommitRound, MayWrite, At, StageInv
  <2> QED
    BY <1>17, <2>1 DEF CommitRound, Goto, StageInv, TypeOK
<1>18. CASE NextRound(c)
  <2>1. \A d \in Calls : d # c => loc'[d] = loc[d]
    BY <1>18, NextRoundLoc DEF Becomes
  <2> QED
    BY <1>18, <2>1 DEF NextRound, At, Goto, db, StageInv, TypeOK
<1>19. CASE StoreCancelled(c)
  <2>1. \A d \in Calls : d # c => writer # d
    BY <1>19 DEF StoreCancelled, MayWrite, At, StageInv
  <2> QED
    BY <1>19, <2>1 DEF StoreCancelled, Goto, StageInv, TypeOK
<1>20. CASE StoreFailure(c)
  <2>1. \A d \in Calls : d # c => writer # d
    BY <1>20 DEF StoreFailure, MayWrite, At, StageInv
  <2> QED
    BY <1>20, <2>1 DEF StoreFailure, Goto, StageInv, TypeOK
<1>21. CASE StoreAnswer(c)
  <2>1. \A d \in Calls : d # c => writer # d
    BY <1>21 DEF StoreAnswer, MayWrite, At, StageInv
  <2>2. \A d \in Calls : d # c => loc'[d] = loc[d]
    BY <1>21, StoreAnswerLoc DEF Becomes
  <2> QED
    BY <1>21, <2>1, <2>2 DEF StoreAnswer, AfterAnswer, Goto, StageInv, TypeOK
<1>22. CASE PointSession(c)
  BY <1>22 DEF PointSession, At, Goto, db, StageInv, TypeOK
<1>23. CASE PointerRefused(c)
  BY <1>23 DEF PointerRefused, At, Goto, db, StageInv, TypeOK
<1>24. CASE Busy(c)
  BY <1>24 DEF Busy, At, Goto, db, StageInv, TypeOK
<1>25. CASE Interrupt(c)
  BY <1>25 DEF Interrupt, At, Goto, db, StageInv, TypeOK
<1>26. CASE Kill(c)
  BY <1>26, PrefixFacts DEF Kill, Rollback, Goto, db, StageInv, LockInv, TypeOK
<1> QED
  BY <1>1, <1>2, <1>3, <1>4, <1>5, <1>6, <1>7, <1>8, <1>9, <1>10, <1>11,
     <1>12, <1>13, <1>14, <1>15, <1>16, <1>17, <1>18, <1>19, <1>20,
     <1>21, <1>22, <1>23, <1>24, <1>25, <1>26
     DEF Run, Prepare, Ask, Finish

----------------------------------------------------------------------------
\* What a step leaves alone.

\* While another call owns the transaction, nothing of the table moves.
LEMMA OthersLockStep ==
    ASSUME TypeOK, StageInv, NEW c \in Calls, writer \notin {NoCall, c},
           Run(c) \/ Interrupt(c) \/ Kill(c)
    PROVE  UNCHANGED db
<1>1. CASE Open(c)
  BY <1>1 DEF Open
<1>2. CASE CheckBudget(c)
  BY <1>2 DEF CheckBudget
<1>3. CASE Resolve(c)
  BY <1>3 DEF Resolve
<1>4. CASE Refuse(c)
  BY <1>4 DEF Refuse, Rollback
<1>5. CASE StoreAttachment(c)
  BY <1>5 DEF StoreAttachment
<1>6. CASE BuildRequest(c)
  BY <1>6 DEF BuildRequest
<1>7. CASE SendRequest(c)
  BY <1>7 DEF SendRequest
<1>8. CASE ParseToolCall(c)
  BY <1>8 DEF ParseToolCall
<1>9. CASE EndStream(c)
  BY <1>9 DEF EndStream
<1>10. CASE AdaptorRaises(c)
  BY <1>10 DEF AdaptorRaises
<1>11. CASE GiveUp(c)
  BY <1>11 DEF GiveUp
<1>12. CASE BadArguments(c)
  BY <1>12 DEF BadArguments
<1>13. CASE RunTool(c)
  BY <1>13 DEF RunTool
<1>14. CASE Settle(c)
  BY <1>14 DEF Settle
<1>15. CASE CannotBill(c)
  BY <1>15 DEF CannotBill, Rollback
<1>16. CASE InsertRound(c)
  BY <1>16 DEF InsertRound, MayWrite
<1>17. CASE CommitRound(c)
  BY <1>17 DEF CommitRound, At, StageInv
<1>18. CASE NextRound(c)
  BY <1>18 DEF NextRound
<1>19. CASE StoreCancelled(c)
  BY <1>19 DEF StoreCancelled, MayWrite
<1>20. CASE StoreFailure(c)
  BY <1>20 DEF StoreFailure, MayWrite
<1>21. CASE StoreAnswer(c)
  BY <1>21 DEF StoreAnswer, MayWrite
<1>22. CASE PointSession(c)
  BY <1>22 DEF PointSession
<1>23. CASE PointerRefused(c)
  BY <1>23 DEF PointerRefused
<1>24. CASE Busy(c)
  BY <1>24 DEF Busy
<1>25. CASE Interrupt(c)
  BY <1>25 DEF Interrupt
<1>26. CASE Kill(c)
  BY <1>26 DEF Kill, Rollback
<1> QED
  BY <1>1, <1>2, <1>3, <1>4, <1>5, <1>6, <1>7, <1>8, <1>9, <1>10, <1>11,
     <1>12, <1>13, <1>14, <1>15, <1>16, <1>17, <1>18, <1>19, <1>20,
     <1>21, <1>22, <1>23, <1>24, <1>25, <1>26
     DEF Run, Prepare, Ask, Finish

\* Rows become durable all together.
LEMMA CommittedStep ==
    ASSUME TypeOK, NEW c \in Calls, Run(c) \/ Interrupt(c) \/ Kill(c)
    PROVE  committed' = committed \/ committed' = Len(table')
<1>1. CASE Open(c)
  BY <1>1 DEF Open, db
<1>2. CASE CheckBudget(c)
  BY <1>2 DEF CheckBudget, db
<1>3. CASE Resolve(c)
  BY <1>3 DEF Resolve, db
<1>4. CASE Refuse(c)
  BY <1>4 DEF Refuse, Rollback, db
<1>5. CASE StoreAttachment(c)
  BY <1>5 DEF StoreAttachment, db
<1>6. CASE BuildRequest(c)
  BY <1>6 DEF BuildRequest, db
<1>7. CASE SendRequest(c)
  BY <1>7 DEF SendRequest, db
<1>8. CASE ParseToolCall(c)
  BY <1>8 DEF ParseToolCall, db
<1>9. CASE EndStream(c)
  BY <1>9 DEF EndStream, db
<1>10. CASE AdaptorRaises(c)
  BY <1>10 DEF AdaptorRaises, db
<1>11. CASE GiveUp(c)
  BY <1>11 DEF GiveUp, db
<1>12. CASE BadArguments(c)
  BY <1>12 DEF BadArguments, db
<1>13. CASE RunTool(c)
  BY <1>13 DEF RunTool, db
<1>14. CASE Settle(c)
  BY <1>14 DEF Settle, db
<1>15. CASE CannotBill(c)
  BY <1>15 DEF CannotBill, Rollback, db
<1>16. CASE InsertRound(c)
  BY <1>16 DEF InsertRound, db
<1>17. CASE CommitRound(c)
  BY <1>17 DEF CommitRound, Durable
<1>18. CASE NextRound(c)
  BY <1>18 DEF NextRound, db
<1>19. CASE StoreCancelled(c)
  BY <1>19 DEF StoreCancelled, Durable
<1>20. CASE StoreFailure(c)
  BY <1>20 DEF StoreFailure, Durable
<1>21. CASE StoreAnswer(c)
  BY <1>21 DEF StoreAnswer, Durable
<1>22. CASE PointSession(c)
  BY <1>22 DEF PointSession, db
<1>23. CASE PointerRefused(c)
  BY <1>23 DEF PointerRefused, db
<1>24. CASE Busy(c)
  BY <1>24 DEF Busy, db
<1>25. CASE Interrupt(c)
  BY <1>25 DEF Interrupt, db
<1>26. CASE Kill(c)
  BY <1>26 DEF Kill, Rollback, db
<1> QED
  BY <1>1, <1>2, <1>3, <1>4, <1>5, <1>6, <1>7, <1>8, <1>9, <1>10, <1>11,
     <1>12, <1>13, <1>14, <1>15, <1>16, <1>17, <1>18, <1>19, <1>20,
     <1>21, <1>22, <1>23, <1>24, <1>25, <1>26
     DEF Run, Prepare, Ask, Finish

\* One call's step touches no other call's locals or stage.
LEMMA OthersStep ==
    ASSUME TypeOK, NEW c \in Calls, Run(c) \/ Interrupt(c) \/ Kill(c)
    PROVE  \A d \in Calls : d # c => loc'[d] = loc[d] /\ pc'[d] = pc[d]
<1>1. CASE Open(c)
  BY <1>1 DEF Open, Goto, TypeOK
<1>2. CASE CheckBudget(c)
  BY <1>2 DEF CheckBudget, Goto, TypeOK
<1>3. CASE Resolve(c)
  <2>1. \E mode \in Modes, mid \in Nat : ContinueFrom(c, mode, mid)
    BY <1>3 DEF Resolve, Modes, Visible, TypeOK, Locals
  <2> QED
    BY <1>3, <2>1, ResolveLoc DEF Resolve, Becomes, Goto, TypeOK
<1>4. CASE Refuse(c)
  BY <1>4 DEF Refuse, Goto, TypeOK
<1>5. CASE StoreAttachment(c)
  BY <1>5 DEF StoreAttachment, Goto, TypeOK
<1>6. CASE BuildRequest(c)
  BY <1>6 DEF BuildRequest, Goto, TypeOK
<1>7. CASE SendRequest(c)
  BY <1>7, SendRequestLoc DEF SendRequest, Becomes, Goto, TypeOK
<1>8. CASE ParseToolCall(c)
  BY <1>8, ParseToolCallLoc DEF ParseToolCall, Becomes, Goto, TypeOK
<1>9. CASE EndStream(c)
  BY <1>9, EndStreamLoc DEF EndStream, Becomes, Goto, TypeOK
<1>10. CASE AdaptorRaises(c)
  BY <1>10 DEF AdaptorRaises, Goto, TypeOK
<1>11. CASE GiveUp(c)
  BY <1>11 DEF GiveUp, Goto, TypeOK
<1>12. CASE BadArguments(c)
  BY <1>12 DEF BadArguments, Goto, TypeOK
<1>13. CASE RunTool(c)
  BY <1>13, RunToolLoc DEF RunTool, Becomes, Goto, TypeOK
<1>14. CASE Settle(c)
  BY <1>14 DEF Settle, Goto, TypeOK
<1>15. CASE CannotBill(c)
  BY <1>15 DEF CannotBill, Goto, TypeOK
<1>16. CASE InsertRound(c)
  BY <1>16, InsertRoundLoc DEF InsertRound, Becomes, Goto, TypeOK
<1>17. CASE CommitRound(c)
  BY <1>17 DEF CommitRound, Goto, TypeOK
<1>18. CASE NextRound(c)
  BY <1>18, NextRoundLoc DEF NextRound, Becomes, Goto, TypeOK
<1>19. CASE StoreCancelled(c)
  BY <1>19 DEF StoreCancelled, Goto, TypeOK
<1>20. CASE StoreFailure(c)
  BY <1>20 DEF StoreFailure, Goto, TypeOK
<1>21. CASE StoreAnswer(c)
  BY <1>21, StoreAnswerLoc DEF StoreAnswer, Becomes, Goto, TypeOK
<1>22. CASE PointSession(c)
  BY <1>22 DEF PointSession, Goto, TypeOK
<1>23. CASE PointerRefused(c)
  BY <1>23 DEF PointerRefused, Goto, TypeOK
<1>24. CASE Busy(c)
  BY <1>24 DEF Busy, Goto, TypeOK
<1>25. CASE Interrupt(c)
  BY <1>25 DEF Interrupt, Goto, TypeOK
<1>26. CASE Kill(c)
  BY <1>26 DEF Kill, Goto, TypeOK
<1> QED
  BY <1>1, <1>2, <1>3, <1>4, <1>5, <1>6, <1>7, <1>8, <1>9, <1>10, <1>11,
     <1>12, <1>13, <1>14, <1>15, <1>16, <1>17, <1>18, <1>19, <1>20,
     <1>21, <1>22, <1>23, <1>24, <1>25, <1>26
     DEF Run, Prepare, Ask, Finish

\* A durable row stays where and what it is.
LEMMA DurableStep ==
    ASSUME TypeOK, StageInv, NEW c \in Calls,
           Run(c) \/ Interrupt(c) \/ Kill(c)
    PROVE  /\ committed <= committed'
           /\ \A i \in 1..committed : table'[i] = table[i]
<1>1. TypeOK'
  BY TypeStep
<1>2. Len(table') >= committed /\ \A i \in 1..committed : table'[i] = table[i]
  <2>1. CASE table' = table
    BY <2>1 DEF TypeOK
  <2>2. CASE Rollback(c)
    BY <2>2, PrefixFacts DEF Rollback, db, TypeOK
  <2>3. CASE Stores(c)
    BY <2>3, AppendFacts DEF Stores, TypeOK
  <2> QED
    BY <2>1, <2>2, <2>3, TableStep DEF TableEffect
<1> QED
  BY <1>1, <1>2, CommittedStep DEF TypeOK

----------------------------------------------------------------------------
\* The pointers.

\* A call reaches "pointing" only by storing its answer.
LEMMA PointingStep ==
    ASSUME TypeOK, StageInv, PointingInv, NEW c \in Calls,
           Run(c) \/ Interrupt(c) \/ Kill(c)
    PROVE  PointingInv'
<1>1. CASE StoreAnswer(c)
  <2> DEFINE row == NewRow(c, loc[c].status, loc[c].error,
                           loc[c].status = OK)
  <2>1. row \in Row
    BY <1>1, SettledStatus, NewRowType DEF StoreAnswer, At
  <2>2. /\ row.session = loc[c].session
        /\ row.status = loc[c].status
        /\ row.error = loc[c].error
        /\ row.asked = loc[c].asked
    BY DEF NewRow
  <2>3. table' = Append(table, row) /\ committed' = Len(table')
    BY <1>1 DEF StoreAnswer, Durable
  <2> HIDE DEF row
  <2>4. table'[Len(table) + 1] = row /\ committed' = Len(table) + 1
    BY <2>1, <2>3, AppendFacts
  <2>5. /\ loc'[c].mid = Len(table) + 1
        /\ loc'[c].session = loc[c].session
    BY <1>1, StoreAnswerLoc DEF Becomes
  <2>6. pc'[c] = "pointing" =>
           loc[c].status = OK /\ loc[c].error = "none" /\ loc[c].asked = 0
    BY <1>1 DEF StoreAnswer, AfterAnswer, At, Goto, StageInv, TypeOK
  <2>7. Len(table) + 1 \in 1..committed'
    BY <2>4 DEF TypeOK
  <2>8. \A d \in Calls : d # c /\ pc[d] = "pointing" =>
           loc[d].mid \in 1..committed' /\ table'[loc[d].mid] = table[loc[d].mid]
    BY DurableStep, TypeStep DEF PointingInv, TypeOK
  <2> QED
    BY <2>2, <2>4, <2>5, <2>6, <2>7, <2>8, OthersStep DEF PointingInv
<1>2. CASE pc'[c] # "pointing"
  <2>1. \A d \in Calls : d # c /\ pc[d] = "pointing" =>
           loc[d].mid \in 1..committed' /\ table'[loc[d].mid] = table[loc[d].mid]
    BY DurableStep, TypeStep DEF PointingInv, TypeOK
  <2> QED
    BY <1>2, <2>1, OthersStep DEF PointingInv
<1>3. StoreAnswer(c) \/ pc'[c] # "pointing"
  BY DEF Run, Prepare, Ask, Finish, Open, CheckBudget, Resolve, Refuse,
         StoreAttachment, BuildRequest, SendRequest, ParseToolCall, EndStream,
         AdaptorRaises, GiveUp, BadArguments, RunTool, Settle, CannotBill,
         InsertRound, CommitRound, NextRound, StoreCancelled, StoreFailure,
         PointSession, PointerRefused, Busy, Interrupt, Kill, Goto, At, TypeOK
<1> QED
  BY <1>1, <1>2, <1>3

\* Only session_write() writes a pointer.
LEMMA PointerKept ==
    ASSUME NEW c \in Calls, Run(c) \/ Interrupt(c) \/ Kill(c),
           ~PointSession(c)
    PROVE  UNCHANGED pointer
<1> QED
  BY DEF Run, Prepare, Ask, Finish, Open, CheckBudget, Resolve, Refuse,
         StoreAttachment, BuildRequest, SendRequest, ParseToolCall, EndStream,
         AdaptorRaises, GiveUp, BadArguments, RunTool, Settle, CannotBill,
         InsertRound, CommitRound, NextRound, StoreCancelled, StoreFailure,
         StoreAnswer, PointerRefused, Busy, Interrupt, Kill

\* Every step keeps the pointers sound.
LEMMA PointerStep ==
    ASSUME TypeOK, StageInv, PointingInv, PointerSound, NEW c \in Calls,
           Run(c) \/ Interrupt(c) \/ Kill(c)
    PROVE  PointerSound'
<1>1. \A s \in Sessions : pointer[s] # 0 =>
         pointer[s] <= committed' /\ table'[pointer[s]] = table[pointer[s]]
  BY DurableStep, TypeStep DEF PointerSound, TypeOK
<1>2. CASE PointSession(c)
  <2>1. UNCHANGED <<table, committed>>
    BY <1>2 DEF PointSession, db
  <2>2. \A s \in Sessions : pointer'[s] = IF s = loc[c].session
                                          THEN loc[c].mid ELSE pointer[s]
    BY <1>2 DEF PointSession, TypeOK
  <2>3. /\ loc[c].mid \in 1..committed
        /\ table[loc[c].mid].session = loc[c].session
        /\ table[loc[c].mid].status = OK
        /\ table[loc[c].mid].error = "none"
        /\ table[loc[c].mid].asked = 0
    BY <1>2 DEF PointSession, At, PointingInv
  <2> QED
    BY <2>1, <2>2, <2>3 DEF PointerSound, TypeOK
<1>3. CASE ~PointSession(c)
  <2>1. pointer' = pointer
    BY <1>3, PointerKept
  <2> QED
    BY <1>1, <2>1 DEF PointerSound
<1> QED
  BY <1>2, <1>3

----------------------------------------------------------------------------
\* The tree.

\* What a call continues from does not move while it runs, but for the round
\* it has just inserted.
LEMMA PrevStep ==
    ASSUME TypeOK, PointerSound, NEW c \in Calls, pc'[c] \notin Ended,
           Run(c) \/ Interrupt(c) \/ Kill(c)
    PROVE  \/ loc'[c].prev = loc[c].prev
           \/ loc'[c].prev <= committed /\ UNCHANGED db
           \/ /\ loc'[c].prev = Len(table')
              /\ writer' = c
<1>1. CASE Resolve(c)
  <2>1. PICK mode \in Modes, mid \in 0..committed : ContinueFrom(c, mode, mid)
    <3>1. loc[c].session \in Sessions
      BY DEF TypeOK, Locals
    <3> QED
      BY <1>1, <3>1 DEF Resolve, Modes, Visible, PointerSound, TypeOK
  <2>2. loc'[c].prev = mid
    BY <2>1, ResolveLoc DEF Becomes, TypeOK
  <2> QED
    BY <1>1, <2>2 DEF Resolve, db, TypeOK
<1>2. CASE InsertRound(c)
  <2>1. loc'[c].prev = Len(table) + 1
    BY <1>2, InsertRoundLoc DEF Becomes
  <2>2. Len(table') = Len(table) + 1
    BY <1>2 DEF InsertRound, TypeOK
  <2> QED
    BY <1>2, <2>1, <2>2 DEF InsertRound
<1>3. CASE SendRequest(c)
  BY <1>3, SendRequestLoc DEF Becomes
<1>4. CASE ParseToolCall(c)
  BY <1>4, ParseToolCallLoc DEF Becomes
<1>5. CASE EndStream(c)
  BY <1>5, EndStreamLoc DEF Becomes
<1>6. CASE RunTool(c)
  BY <1>6, RunToolLoc DEF Becomes
<1>7. CASE NextRound(c)
  BY <1>7, NextRoundLoc DEF Becomes
<1>8. CASE StoreAnswer(c)
  BY <1>8, StoreAnswerLoc DEF Becomes
<1>9. CASE UNCHANGED loc
  BY <1>9
<1>10. \/ Resolve(c) \/ InsertRound(c) \/ SendRequest(c) \/ ParseToolCall(c)
       \/ EndStream(c) \/ RunTool(c) \/ NextRound(c) \/ StoreAnswer(c)
       \/ UNCHANGED loc
  BY DEF Run, Prepare, Ask, Finish, Open, CheckBudget, Refuse,
         StoreAttachment, BuildRequest, AdaptorRaises, GiveUp, BadArguments,
         Settle, CannotBill, CommitRound, StoreCancelled, StoreFailure,
         PointSession, PointerRefused, Busy, Interrupt, Kill
<1> QED
  BY <1>1, <1>2, <1>3, <1>4, <1>5, <1>6, <1>7, <1>8, <1>9, <1>10

\* A step that leaves its call running loses none of the rows it can see.
LEMMA ReachStep ==
    ASSUME TypeOK, NEW c \in Calls, pc'[c] \notin Ended,
           Run(c) \/ Interrupt(c) \/ Kill(c)
    PROVE  /\ pc[c] \notin Ended
           /\ writer = c => writer' = c \/ committed' = Len(table')
           /\ Len(table) <= Len(table')
<1>1. CASE Open(c)
  BY <1>1 DEF Open, At, Goto, db, InTry, Ended, NeedsLock, TypeOK
<1>2. CASE CheckBudget(c)
  BY <1>2 DEF CheckBudget, At, Goto, db, InTry, Ended, NeedsLock, TypeOK
<1>3. CASE Resolve(c)
  BY <1>3 DEF Resolve, At, Goto, db, InTry, Ended, NeedsLock, TypeOK
<1>4. CASE Refuse(c)
  BY <1>4 DEF Refuse, Goto, Ended, TypeOK
<1>5. CASE StoreAttachment(c)
  BY <1>5 DEF StoreAttachment, At, Goto, db, InTry, Ended, NeedsLock, TypeOK
<1>6. CASE BuildRequest(c)
  BY <1>6 DEF BuildRequest, At, Goto, db, InTry, Ended, NeedsLock, TypeOK
<1>7. CASE SendRequest(c)
  BY <1>7 DEF SendRequest, At, Goto, db, InTry, Ended, NeedsLock, TypeOK
<1>8. CASE ParseToolCall(c)
  BY <1>8 DEF ParseToolCall, At, Goto, db, InTry, Ended, NeedsLock, TypeOK
<1>9. CASE EndStream(c)
  BY <1>9 DEF EndStream, At, Goto, db, InTry, Ended, NeedsLock, TypeOK
<1>10. CASE AdaptorRaises(c)
  BY <1>10 DEF AdaptorRaises, At, Goto, db, InTry, Ended, NeedsLock, TypeOK
<1>11. CASE GiveUp(c)
  BY <1>11 DEF GiveUp, At, Goto, db, InTry, Ended, NeedsLock, TypeOK
<1>12. CASE BadArguments(c)
  BY <1>12 DEF BadArguments, At, Goto, db, InTry, Ended, NeedsLock, TypeOK
<1>13. CASE RunTool(c)
  BY <1>13 DEF RunTool, At, Goto, db, InTry, Ended, NeedsLock, TypeOK
<1>14. CASE Settle(c)
  BY <1>14 DEF Settle, At, Goto, db, InTry, Ended, NeedsLock, TypeOK
<1>15. CASE CannotBill(c)
  BY <1>15 DEF CannotBill, Goto, Ended, TypeOK
<1>16. CASE InsertRound(c)
  <2>1. Len(table') = Len(table) + 1
    BY <1>16 DEF InsertRound, TypeOK
  <2> QED
    BY <1>16, <2>1 DEF InsertRound, At, Ended, TypeOK
<1>17. CASE CommitRound(c)
  BY <1>17 DEF CommitRound, At, Durable, Ended, TypeOK
<1>18. CASE NextRound(c)
  BY <1>18 DEF NextRound, At, Goto, db, InTry, Ended, NeedsLock, TypeOK
<1>19. CASE StoreCancelled(c)
  <2>1. Len(table') = Len(table) + 1 /\ committed' = Len(table')
    BY <1>19 DEF StoreCancelled, Durable, TypeOK
  <2> QED
    BY <1>19, <2>1 DEF StoreCancelled, At, Ended, TypeOK
<1>20. CASE StoreFailure(c)
  <2>1. Len(table') = Len(table) + 1 /\ committed' = Len(table')
    BY <1>20 DEF StoreFailure, Durable, TypeOK
  <2> QED
    BY <1>20, <2>1 DEF StoreFailure, At, Ended, TypeOK
<1>21. CASE StoreAnswer(c)
  <2>1. Len(table') = Len(table) + 1 /\ committed' = Len(table')
    BY <1>21 DEF StoreAnswer, Durable, TypeOK
  <2> QED
    BY <1>21, <2>1 DEF StoreAnswer, At, Ended, TypeOK
<1>22. CASE PointSession(c)
  BY <1>22 DEF PointSession, At, Goto, db, InTry, Ended, NeedsLock, TypeOK
<1>23. CASE PointerRefused(c)
  BY <1>23 DEF PointerRefused, At, Goto, db, InTry, Ended, NeedsLock, TypeOK
<1>24. CASE Busy(c)
  BY <1>24 DEF Busy, At, Goto, db, InTry, Ended, NeedsLock, TypeOK
<1>25. CASE Interrupt(c)
  BY <1>25 DEF Interrupt, At, Goto, db, InTry, Ended, NeedsLock, TypeOK
<1>26. CASE Kill(c)
  BY <1>26 DEF Kill, Goto, Ended, TypeOK
<1> QED
  BY <1>1, <1>2, <1>3, <1>4, <1>5, <1>6, <1>7, <1>8, <1>9, <1>10, <1>11,
     <1>12, <1>13, <1>14, <1>15, <1>16, <1>17, <1>18, <1>19, <1>20,
     <1>21, <1>22, <1>23, <1>24, <1>25, <1>26
     DEF Run, Prepare, Ask, Finish

\* Every step keeps every row and every running call hanging below a row that
\* nobody else can take away.
LEMMA DanglingStep ==
    ASSUME TypeOK, LockInv, StageInv, PointerSound, NoDanglingParent,
           NEW c \in Calls, Run(c) \/ Interrupt(c) \/ Kill(c)
    PROVE  NoDanglingParent'
<1> USE CallsAssumption
<1>1. TypeOK'
  BY TypeStep
<1>2. \A i \in 1..Len(table') : table'[i].prev < i
  <2>1. CASE table' = table
    BY <2>1 DEF NoDanglingParent, Rows, Parent
  <2>2. CASE Rollback(c)
    BY <2>2, PrefixFacts DEF Rollback, db, NoDanglingParent, Rows, Parent,
       TypeOK
  <2>3. CASE Stores(c)
    <3>1. PICK row \in Row : row.prev = loc[c].prev /\ table' = Append(table, row)
      BY <2>3 DEF Stores
    <3>2. loc[c].prev <= Len(table)
      <4>1. loc[c].prev \in Nat
        BY DEF TypeOK, Locals
      <4>2. loc[c].prev <= IF writer = c THEN Len(table) ELSE committed
        BY <2>3 DEF Stores, NoDanglingParent
      <4> QED
        BY <4>1, <4>2 DEF TypeOK
    <3> QED
      BY <3>1, <3>2, AppendFacts DEF NoDanglingParent, Rows, Parent, TypeOK, Row
  <2> QED
    BY <2>1, <2>2, <2>3, TableStep DEF TableEffect
<1>3. ASSUME NEW d \in Calls, pc'[d] \notin Ended
      PROVE  loc'[d].prev <= IF writer' = d THEN Len(table') ELSE committed'
  <2>1. committed <= committed' /\ committed' <= Len(table')
    BY <1>1, DurableStep DEF TypeOK
  <2>2. loc[d].prev \in Nat /\ loc'[d].prev \in Nat
    BY <1>1 DEF TypeOK, Locals
  <2>3. CASE d # c
    <3>1. loc'[d].prev = loc[d].prev /\ pc[d] \notin Ended
      BY <1>3, <2>3, OthersStep
    <3>2. CASE writer = d
      <4>1. UNCHANGED db
        BY <2>3, <3>2, OthersLockStep
      <4> QED
        BY <3>1, <3>2, <4>1 DEF db, NoDanglingParent
    <3>3. CASE writer # d
      <4>1. loc[d].prev <= committed
        BY <3>1, <3>3 DEF NoDanglingParent
      <4> QED
        BY <1>1, <2>1, <2>2, <3>1, <4>1 DEF TypeOK
    <3> QED
      BY <3>2, <3>3
  <2>4. CASE d = c
    <3>1. /\ pc[c] \notin Ended
          /\ writer = c => writer' = c \/ committed' = Len(table')
          /\ Len(table) <= Len(table')
      BY <1>3, <2>4, ReachStep
    <3>2. loc[c].prev <= IF writer = c THEN Len(table) ELSE committed
      BY <3>1 DEF NoDanglingParent
    <3>3. loc[c].prev <= IF writer' = c THEN Len(table') ELSE committed'
      BY <1>1, <2>1, <2>2, <2>4, <3>1, <3>2 DEF TypeOK
    <3>4. CASE loc'[c].prev = loc[c].prev
      BY <2>4, <3>3, <3>4
    <3>5. CASE loc'[c].prev <= committed /\ UNCHANGED db
      BY <1>1, <2>1, <2>2, <2>4, <3>5 DEF db, TypeOK
    <3>6. CASE loc'[c].prev = Len(table') /\ writer' = c
      BY <1>1, <2>4, <3>6 DEF TypeOK
    <3> QED
      BY <1>3, <2>4, <3>4, <3>5, <3>6, PrevStep
  <2> QED
    BY <2>3, <2>4
<1> QED
  BY <1>2, <1>3 DEF NoDanglingParent, Rows, Parent

----------------------------------------------------------------------------
\* The inductive invariant.

LEMMA InitInv == Init => IInv
<1> SUFFICES ASSUME Init
             PROVE  IInv
  OBVIOUS
<1> USE DEF Init
<1>1. TypeOK
  <2>1. table \in Seq(Row) /\ committed \in 0..Len(table)
    OBVIOUS
  <2>2. pc \in [Calls -> Stages]
    BY DEF Stages
  <2>3. loc \in [Calls -> Locals]
    <3>1. \A s \in Sessions :
             [session |-> s, mode |-> "none", prev |-> 0, index |-> 0,
              mid |-> 0, status |-> NoStatus, error |-> "none",
              asked |-> 0, answered |-> 0] \in Locals
      BY DEF Locals, Modes, Statuses, Errors
    <3> QED
      BY <3>1
  <2> QED
    BY <2>1, <2>2, <2>3 DEF TypeOK
<1>2. LockInv
  BY CallsAssumption DEF LockInv
<1>3. StageInv /\ PointingInv
  BY DEF StageInv, PointingInv
<1>4. PointerSound
  BY DEF PointerSound
<1>5. NoDanglingParent
  <2>1. \A c \in Calls : loc[c].prev = 0
    OBVIOUS
  <2> QED
    BY <2>1, CallsAssumption DEF NoDanglingParent, Rows
<1> QED
  BY <1>1, <1>2, <1>3, <1>4, <1>5 DEF IInv

LEMMA NextInv == IInv /\ [Next]_vars => IInv'
<1> SUFFICES ASSUME IInv, [Next]_vars
             PROVE  IInv'
  OBVIOUS
<1>1. ASSUME NEW c \in Calls, Run(c) \/ Interrupt(c) \/ Kill(c)
      PROVE  IInv'
  BY <1>1, TypeStep, LockStep, StageStep, PointingStep, PointerStep,
     DanglingStep DEF IInv
<1>2. CASE UNCHANGED vars
  BY <1>2 DEF vars, IInv, TypeOK, LockInv, StageInv, PointingInv,
     PointerSound, NoDanglingParent, Rows, Parent
<1> QED
  BY <1>1, <1>2 DEF Next, AllEnded

\* The strengthening that makes the properties below inductive.
THEOREM Invariance == Spec => []IInv
<1> QED
  BY InitInv, NextInv, PTL DEF Spec

\* Every variable of dic()'s calls keeps its type, and no row is ever stored
\* without a status, whichever handler stores it.
THEOREM TypeCorrect == Spec => []TypeOK
<1>1. IInv => TypeOK
  BY DEF IInv
<1> QED
  BY Invariance, <1>1, PTL

\* Whatever calls run at once, crash or are cancelled, the pointer that -c
\* follows names a durable whole answer of its own session.
THEOREM PointersSound == Spec => []PointerSound
<1>1. IInv => PointerSound
  BY DEF IInv
<1> QED
  BY Invariance, <1>1, PTL

\* No row is ever stored below a row that a rollback took or can take away.
THEOREM NoRowDangles == Spec => []NoDanglingParent
<1>1. IInv => NoDanglingParent
  BY DEF IInv
<1> QED
  BY Invariance, <1>1, PTL

----------------------------------------------------------------------------
\* The message tree.

\* The durable rows of a step that leaves their number alone are the same.
LEMMA SamePrefix ==
    ASSUME TypeOK, TypeOK', committed' = committed,
           \A i \in 1..committed : table'[i] = table[i]
    PROVE  SubSeq(table', 1, committed') = SubSeq(table, 1, committed)
<1> DEFINE old == SubSeq(table, 1, committed)
           new == SubSeq(table', 1, committed')
<1>1. /\ old \in Seq(Row) /\ Len(old) = committed
      /\ \A i \in 1..committed : old[i] = table[i]
  BY PrefixFacts
<1>2. /\ new \in Seq(Row) /\ Len(new) = committed'
      /\ \A i \in 1..committed' : new[i] = table'[i]
  BY DEF TypeOK
<1> HIDE DEF old, new
<1> QED
  BY <1>1, <1>2

\* All the rows that become durable in one step are one call's.
LEMMA OneCallGrows ==
    ASSUME TypeOK, LockInv, StageInv, NEW c \in Calls,
           Run(c) \/ Interrupt(c) \/ Kill(c), committed' # committed
    PROVE  /\ committed' > committed
           /\ committed' = Len(table')
           /\ \A i \in (committed + 1)..Len(table') : table'[i].call = c
<1> USE CallsAssumption
<1>1. committed' > committed /\ committed' = Len(table') /\ TypeOK'
  BY DurableStep, CommittedStep, TypeStep DEF TypeOK
<1>2. writer \in {NoCall, c}
  BY <1>1, OthersLockStep DEF db
<1>3. \A i \in (committed + 1)..Len(table) : table[i].call = c
  BY <1>2 DEF LockInv, TypeOK
<1>4. CASE table' = table
  BY <1>1, <1>3, <1>4
<1>5. CASE Rollback(c)
  BY <1>1, <1>5 DEF Rollback, db
<1>6. CASE Stores(c)
  <2>1. PICK row \in Row : row.call = c /\ table' = Append(table, row)
    BY <1>6 DEF Stores
  <2> QED
    BY <1>1, <1>3, <2>1, AppendFacts DEF TypeOK
<1> QED
  BY <1>1, <1>4, <1>5, <1>6, TableStep DEF TableEffect

LEMMA TreeStep ==
    ASSUME IInv, IInv', NEW c \in Calls,
           Run(c) \/ Interrupt(c) \/ Kill(c)
    PROVE  [Tree!Next]_(Tree!vars)
<1> DEFINE old == SubSeq(table, 1, committed)
           new == SubSeq(table', 1, committed')
<1>1. /\ Len(old) = committed
      /\ \A i \in 1..committed : old[i] = table[i]
  BY PrefixFacts DEF IInv
<1>2. /\ Len(new) = committed'
      /\ \A i \in 1..committed' : new[i] = table'[i]
  BY DEF IInv, TypeOK
<1>3. committed \in Nat /\ committed' \in Nat /\ committed' <= Len(table')
  BY DEF IInv, TypeOK
<1> HIDE DEF old, new
<1>4. CASE committed' # committed
  <2>1. UNCHANGED pointer
    BY <1>4, PointerKept DEF PointSession, db
  <2>2. /\ committed' > committed
        /\ committed' = Len(table')
        /\ \A i \in (committed + 1)..Len(table') : table'[i].call = c
    BY <1>4, OneCallGrows DEF IInv
  <2>3. Len(new) > Len(old)
    BY <1>1, <1>2, <2>2
  <2>4. \A i \in 1..Len(old) : new[i] = old[i]
    BY <1>3, <1>1, <1>2, DurableStep DEF IInv
  <2>5. \A i \in (Len(old) + 1)..Len(new) : new[i].call = new[Len(new)].call
    BY <1>3, <1>1, <1>2, <2>2
  <2>6. \A i \in 1..Len(new) : new[i].prev \in 0..(i - 1)
    <3>1. \A i \in 1..committed' : table'[i].prev \in Nat /\ table'[i].prev < i
      <4>1. \A i \in 1..committed' : i \in 1..Len(table')
        BY <1>3 DEF IInv, TypeOK
      <4>2. \A i \in 1..Len(table') : table'[i] \in Row
        BY DEF IInv, TypeOK
      <4>3. \A i \in 1..Len(table') : table'[i].prev < i
        BY DEF IInv, NoDanglingParent, Rows, Parent
      <4> QED
        BY <4>1, <4>2, <4>3 DEF Row
    <3>2. ASSUME NEW i \in 1..Len(new)
          PROVE  new[i].prev \in 0..(i - 1)
      <4>1. i \in 1..committed' /\ new[i] = table'[i]
        BY <1>2
      <4> QED
        BY <1>3, <3>1, <4>1
    <3> QED
      BY <3>2
  <2>7. \A i \in (Len(old) + 1)..Len(new) : i \in 1..Len(new)
    BY <1>3, <1>1, <1>2
  <2>8. Tree!Grow
    BY <2>1, <2>3, <2>4, <2>5, <2>6, <2>7 DEF Tree!Grow, Tree!WellPlaced, old, new
  <2> QED
    BY <2>8 DEF Tree!Next
<1>5. CASE committed' = committed
  <2>1. new = old
    BY <1>5, SamePrefix, DurableStep DEF IInv, old, new
  <2>2. CASE PointSession(c)
    <3>1. /\ loc[c].session \in Sessions
          /\ loc[c].mid \in 1..Len(old)
          /\ old[loc[c].mid].session = loc[c].session
          /\ old[loc[c].mid].status = 200
          /\ old[loc[c].mid].error = "none"
          /\ old[loc[c].mid].asked = 0
      <4>1. /\ loc[c].session \in Sessions
            /\ loc[c].mid \in 1..committed
            /\ table[loc[c].mid].session = loc[c].session
            /\ table[loc[c].mid].status = OK
            /\ table[loc[c].mid].error = "none"
            /\ table[loc[c].mid].asked = 0
        BY <2>2 DEF PointSession, At, IInv, PointingInv, TypeOK, Locals
      <4> QED
        BY <1>1, <4>1 DEF OK
    <3>2. pointer' = [pointer EXCEPT ![loc[c].session] = loc[c].mid]
      BY <2>2 DEF PointSession
    <3>3. Tree!Advance(loc[c].session)
      BY <2>1, <3>1, <3>2 DEF Tree!Advance, old, new
    <3> QED
      BY <3>1, <3>3 DEF Tree!Next
  <2>3. CASE ~PointSession(c)
    BY <2>1, <2>3, PointerKept DEF Tree!vars, old, new
  <2> QED
    BY <2>2, <2>3
<1> QED
  BY <1>4, <1>5

\* dic()'s concurrent calls implement the message tree: what is durable only
\* grows, one call at a time and below what is there, and the heads move only
\* to whole answers of their session.
THEOREM Refinement == Spec => TreeSpec
<1>1. Init => Tree!Init
  BY DEF Init, Tree!Init
<1>2. IInv /\ IInv' /\ [Next]_vars => [Tree!Next]_(Tree!vars)
  <2> SUFFICES ASSUME IInv, IInv', [Next]_vars
               PROVE  [Tree!Next]_(Tree!vars)
    OBVIOUS
  <2>1. CASE UNCHANGED vars
    BY <2>1 DEF vars, Tree!vars
  <2>2. ASSUME NEW c \in Calls, Run(c) \/ Interrupt(c) \/ Kill(c)
        PROVE  [Tree!Next]_(Tree!vars)
    BY <2>2, TreeStep
  <2> QED
    BY <2>1, <2>2 DEF Next, AllEnded
<1> QED
  BY <1>1, <1>2, Invariance, PTL DEF Spec, TreeSpec, Tree!Spec

----------------------------------------------------------------------------

----------------------------------------------------------------------------
\* The rows a call has stored, the open transaction's included.
Mine(c) == {i \in Rows : table[i].call = c}

\* A round of c that asked for tools and has all of their results.
Asking(c, i, n) ==
    /\ i \in Rows
    /\ table[i].call = c
    /\ table[i].round = n
    /\ table[i].asked > 0
    /\ table[i].answered = table[i].asked
    /\ table[i].error \in {"none", "stream"}

\* What resolve_ref() may return for the first round of a call.
Started(c) ==
    /\ Mine(c) = {}
    /\ loc[c].mode \in {"new", "continue", "mid"}
    /\ loc[c].mode = "new" => loc[c].prev = 0
    /\ loc[c].mode = "continue" =>
          LET row == table[loc[c].prev]
          IN /\ loc[c].prev \in 1..committed
             /\ row.session = loc[c].session
             /\ row.status = OK /\ row.error = "none" /\ row.asked = 0

\* A round that is not stored yet hangs below the one before it.
Unstored(c) ==
    /\ loc[c].index = 0 => Started(c)
    /\ loc[c].index > 0 => Asking(c, loc[c].prev, loc[c].index - 1)
    /\ \A i \in Mine(c) : table[i].round < loc[c].index

\* A stored one is what the next will hang below.
Stored(c) ==
    /\ Asking(c, loc[c].prev, loc[c].index)
    /\ \A i \in Mine(c) : table[i].round < loc[c].index \/ i = loc[c].prev

\* The last row of an ended call.
EndsWith(c, errors) ==
    \E i \in Mine(c) : /\ \A j \in Mine(c) : j <= i
                       /\ table[i].error \in errors

\* The row of an answer bears the call's session and its bill.
Answers(c) ==
    \E i \in Mine(c) : table[i].billed /\ table[i].session = loc[c].session

Untold == {"idle", "opened", "budgeted", "resolved", "refused"}

\* What a call and its rows say of each other, by the stage it has reached.
CallInv(c) ==
    /\ pc[c] \in Untold => Mine(c) = {} /\ loc[c].index = 0
    /\ pc[c] \in {"resolved", "request", "streaming", "settling", "raised",
                  "recording", "closing"} => Unstored(c)
    /\ pc[c] \in {"inserted", "committed"} => Stored(c)
    /\ pc[c] = "cancelling" => Unstored(c) \/ Stored(c)
    /\ pc[c] \in {"pointing", "done", "unpointed"} =>
          EndsWith(c, {"none"}) /\ Answers(c)
    /\ pc[c] = "failed" => EndsWith(c, {"http", "stream", "raised"})
    /\ pc[c] = "cancelled" => EndsWith(c, {"cancelled"})

\* The counters and the outcome of the round at hand.
RoundInv(c) ==
    /\ loc[c].index < MaxToolRounds
    /\ loc[c].answered <= loc[c].asked
    /\ pc[c] = "streaming" => loc[c].answered = 0
    /\ pc[c] = "settling" /\ loc[c].answered > 0 => loc[c].index + 1 < MaxToolRounds
    /\ pc[c] \in {"settling", "recording", "closing"} =>
          /\ loc[c].error \in {"none", "http", "stream"}
          /\ loc[c].error = "http" => loc[c].asked = 0
          /\ loc[c].error = "none" => loc[c].status = OK
    /\ pc[c] = "recording" => loc[c].asked > 0 /\ loc[c].answered = loc[c].asked
    /\ pc[c] \in {"recording", "inserted", "committed"} =>
          loc[c].index + 1 < MaxToolRounds

\* What a table says of its row j, whose call began in this mode.
RowSays(rows, j, mode) ==
    LET row == rows[j]
        above == rows[row.prev]
    IN /\ row.round < MaxToolRounds
       /\ row.answered <= row.asked
       /\ row.round > 0 =>
             /\ row.prev > 0
             /\ above.call = row.call
             /\ above.asked > 0
             /\ \/ above.round = row.round - 1
                \/ above.round = row.round /\ row.error = "cancelled"
       /\ \A i \in 1..(j - 1) :
             rows[i].call = row.call /\ rows[i].round >= row.round
                => row.error = "cancelled" /\ row.prev = i
       /\ row.prev > 0 =>
             \/ row.round = 0 /\ mode = "mid"
             \/ /\ above.answered = above.asked
                /\ above.error \in {"none", "stream"}
                /\ above.error = "stream" => above.asked > 0
       /\ row.round = 0 /\ mode = "continue" =>
             /\ row.prev > 0
             /\ \/ above.session = row.session /\ above.status = OK
                \/ above.call = row.call

RowInv(j) == RowSays(table, j, loc[table[j].call].mode)

TreeInv ==
    /\ \A c \in Calls : CallInv(c) /\ RoundInv(c)
    /\ \A j \in Rows : RowInv(j)

----------------------------------------------------------------------------
\* What a step does to the rows of a call, and to those of the others.

Step(c) == Run(c) \/ Interrupt(c) \/ Kill(c)

\* A step of c rewrites no row, adds and takes away only rows of c, and takes
\* away none that a commit has made durable: sqlite's one write transaction.
LEMMA RowsMove ==
    ASSUME IInv, IInv', NEW c \in Calls, Step(c)
    PROVE  /\ \A i \in Rows : i \in Rows' => table'[i] = table[i]
           /\ \A i \in Rows : i \notin Rows' => table[i].call = c
           /\ \A i \in Rows' : i \notin Rows => table'[i].call = c
           /\ committed <= committed'
           /\ \A i \in 1..committed : i \in Rows /\ i \in Rows'
<1> USE DEF Rows
<1>1. TypeOK /\ TypeOK' /\ StageInv /\ LockInv
  BY DEF IInv
<1>2. /\ Len(table) \in Nat /\ Len(table') \in Nat
      /\ committed \in 0..Len(table) /\ committed' \in 0..Len(table')
  BY <1>1 DEF TypeOK
<1>3. committed <= committed'
  BY <1>1, DurableStep DEF Step
<1>4. \A i \in 1..committed : i \in Rows /\ i \in Rows'
  BY <1>2, <1>3
<1>5. CASE table' = table
  BY <1>3, <1>4, <1>5
<1>6. CASE Rollback(c) /\ table' # table
  <2>1. writer = c /\ table' = SubSeq(table, 1, committed)
    BY <1>6 DEF Rollback, db
  <2>2. Len(table') = committed /\ \A i \in 1..committed : table'[i] = table[i]
    BY <1>1, <2>1, PrefixFacts
  <2>3. \A i \in (committed + 1)..Len(table) : table[i].call = c
    BY <1>1, <2>1 DEF LockInv
  <2> QED
    BY <1>2, <1>3, <1>4, <2>2, <2>3
<1>7. CASE Stores(c)
  <2>1. PICK row \in Row : row.call = c /\ table' = Append(table, row)
    BY <1>7 DEF Stores
  <2>2. /\ Len(table') = Len(table) + 1
        /\ \A i \in 1..Len(table) : table'[i] = table[i]
        /\ table'[Len(table) + 1] = row
    BY <1>1, <2>1, AppendFacts
  <2> QED
    BY <1>2, <1>3, <1>4, <2>1, <2>2
<1> QED
  BY <1>1, <1>5, <1>6, <1>7, TableStep DEF TableEffect, Step

\* The rows and the locals of a call are left alone by every other call.
LEMMA MineKept ==
    ASSUME IInv, IInv', NEW c \in Calls, Step(c), NEW d \in Calls, d # c
    PROVE  /\ Mine(d)' = Mine(d)
           /\ \A i \in Mine(d) : table'[i] = table[i]
           /\ loc'[d] = loc[d] /\ pc'[d] = pc[d]
<1>1. loc'[d] = loc[d] /\ pc'[d] = pc[d]
  BY OthersStep DEF IInv, Step
<1>2. /\ \A i \in Rows : i \in Rows' => table'[i] = table[i]
      /\ \A i \in Rows : i \notin Rows' => table[i].call = c
      /\ \A i \in Rows' : i \notin Rows => table'[i].call = c
  BY RowsMove
<1>3. \A i \in Mine(d) : i \in Rows /\ i \in Rows' /\ table'[i] = table[i]
  BY <1>2 DEF Mine
<1>4. \A i \in Rows' : table'[i].call = d => i \in Rows /\ table[i].call = d
  BY <1>2
<1>5. Mine(d)' = Mine(d)
  BY <1>3, <1>4 DEF Mine
<1> QED
  BY <1>1, <1>3, <1>5

\* So what a call and its rows say of each other outlives another call's step,
\* the row of somebody else that -c continues being a durable one.
LEMMA OthersHold ==
    ASSUME IInv, IInv', NEW c \in Calls, Step(c), NEW d \in Calls, d # c,
           CallInv(d), RoundInv(d)
    PROVE  CallInv(d)' /\ RoundInv(d)'
<1>1. /\ Mine(d)' = Mine(d)
      /\ \A i \in Mine(d) : table'[i] = table[i]
      /\ loc'[d] = loc[d] /\ pc'[d] = pc[d]
  BY MineKept
<1>2. RoundInv(d)'
  BY <1>1 DEF RoundInv
<1>3. /\ \A i \in Rows : i \in Rows' => table'[i] = table[i]
      /\ committed <= committed'
      /\ \A i \in 1..committed : i \in Rows /\ i \in Rows'
      /\ committed \in Nat /\ committed' \in Nat
  BY RowsMove DEF IInv, TypeOK
<1>4. ASSUME NEW i, NEW n, Asking(d, i, n)
      PROVE  Asking(d, i, n)'
  <2>1. i \in Mine(d)
    BY <1>4 DEF Asking, Mine
  <2>2. i \in Rows' /\ table'[i] = table[i]
    BY <1>1, <2>1 DEF Mine
  <2> QED
    BY <1>4, <2>2 DEF Asking
<1>5. Started(d) => Started(d)'
  <2>1. loc[d].prev \in 1..committed =>
           /\ loc[d].prev \in 1..committed'
           /\ table'[loc[d].prev] = table[loc[d].prev]
    BY <1>3
  <2> QED
    BY <1>1, <2>1 DEF Started
<1>6. Unstored(d) => Unstored(d)'
  BY <1>1, <1>4, <1>5 DEF Unstored
<1>7. Stored(d) => Stored(d)'
  BY <1>1, <1>4 DEF Stored
<1>8. \A errors : EndsWith(d, errors) => EndsWith(d, errors)'
  BY <1>1 DEF EndsWith
<1>9. Answers(d) => Answers(d)'
  BY <1>1 DEF Answers
<1> QED
  BY <1>1, <1>2, <1>6, <1>7, <1>8, <1>9 DEF CallInv

\* A call says once which row it continues, before it has any of its own.
LEMMA ModeKept ==
    ASSUME IInv, NEW c \in Calls, Step(c), CallInv(c), Mine(c) # {}
    PROVE  loc'[c].mode = loc[c].mode /\ loc'[c].session = loc[c].session
<1>1. ~Resolve(c)
  BY DEF Resolve, At, CallInv, Untold
<1>2. loc \in [Calls -> Locals] /\ loc[c] \in Locals
  BY DEF IInv, TypeOK
<1>3. CASE SendRequest(c)
  BY <1>2, <1>3 DEF SendRequest, Locals
<1>4. CASE ParseToolCall(c)
  BY <1>2, <1>4 DEF ParseToolCall, Locals
<1>5. CASE EndStream(c)
  <2>1. PICK o : loc' = [loc EXCEPT ![c] =
                           [@ EXCEPT !.status = o.status, !.error = o.error]]
    BY <1>5 DEF EndStream
  <2> QED
    BY <1>2, <2>1 DEF Locals
<1>6. CASE RunTool(c)
  BY <1>2, <1>6 DEF RunTool, Locals
<1>7. CASE InsertRound(c)
  BY <1>2, <1>7 DEF InsertRound, Locals
<1>8. CASE NextRound(c)
  BY <1>2, <1>8 DEF NextRound, Locals
<1>9. CASE StoreAnswer(c)
  BY <1>2, <1>9 DEF StoreAnswer, Locals
<1>10. CASE UNCHANGED loc
  BY <1>10
<1>11. \/ Resolve(c) \/ InsertRound(c) \/ SendRequest(c) \/ ParseToolCall(c)
       \/ EndStream(c) \/ RunTool(c) \/ NextRound(c) \/ StoreAnswer(c)
       \/ UNCHANGED loc
  BY DEF Step, Run, Prepare, Ask, Finish, Open, CheckBudget, Refuse,
         StoreAttachment, BuildRequest, AdaptorRaises, GiveUp, BadArguments,
         Settle, CannotBill, CommitRound, StoreCancelled, StoreFailure,
         PointSession, PointerRefused, Busy, Interrupt, Kill
<1> QED
  BY <1>1, <1>3, <1>4, <1>5, <1>6, <1>7, <1>8, <1>9, <1>10, <1>11

\* A row that a step leaves in the table still hangs where insert() hung it.
LEMMA RowsHold ==
    ASSUME IInv, IInv', NEW c \in Calls, Step(c), CallInv(c),
           NEW j \in Rows, j \in Rows', RowInv(j)
    PROVE  RowInv(j)'
<1> DEFINE row == table[j]
           above == table[row.prev]
<1>1. /\ Len(table) \in Nat /\ Len(table') \in Nat /\ row \in Row
  BY DEF IInv, TypeOK, Rows
<1>2. row.prev \in Nat /\ row.prev < j /\ row.call \in Calls /\ row.round \in Nat
  BY <1>1 DEF Row, IInv, NoDanglingParent, Parent
<1>3. table'[j] = row
  BY RowsMove
<1>4. row.prev > 0 => table'[row.prev] = above
  <2>1. row.prev > 0 => row.prev \in Rows /\ row.prev \in Rows'
    BY <1>1, <1>2 DEF Rows
  <2> QED
    BY <2>1, RowsMove
<1>5. \A i \in 1..(j - 1) : table'[i] = table[i]
  <2>1. \A i \in 1..(j - 1) : i \in Rows /\ i \in Rows'
    BY <1>1 DEF Rows
  <2> QED
    BY <2>1, RowsMove
<1>6. loc'[row.call].mode = loc[row.call].mode
  <2>1. CASE row.call # c
    BY <1>2, <2>1, OthersStep DEF IInv, Step
  <2>2. CASE row.call = c
    <3>1. j \in Mine(c)
      BY <2>2 DEF Mine
    <3> QED
      BY <2>2, <3>1, ModeKept
  <2> QED
    BY <2>1, <2>2
<1> HIDE DEF row, above
<1>7. RowSays(table, j, loc[row.call].mode)
  BY DEF RowInv, row
<1>8. RowSays(table', j, loc[row.call].mode)
  BY <1>2, <1>3, <1>4, <1>5, <1>7 DEF RowSays, row, above
<1> QED
  BY <1>3, <1>6, <1>8 DEF RowInv

----------------------------------------------------------------------------
\* What is stored, and what of it the locals say.

\* The step stores a row of c, as insert() makes it.
Adds(c, status, error, billed) ==
    table' = Append(table, NewRow(c, status, error, billed))

\* The row that is added, and the rows of the call with it.
LEMMA AddedRow ==
    ASSUME IInv, NEW c \in Calls, NEW status \in RowStatuses,
           NEW error \in Errors, NEW billed \in BOOLEAN,
           Adds(c, status, error, billed)
    PROVE  LET n == Len(table) + 1
               row == table'[n]
           IN /\ n \in Nat /\ Len(table) \in Nat
              /\ Rows' = Rows \cup {n} /\ n \notin Rows
              /\ \A i \in Rows : table'[i] = table[i]
              /\ Mine(c)' = Mine(c) \cup {n}
              /\ \A i \in Mine(c) : i < n /\ i \in Rows /\ table'[i] = table[i]
              /\ row.call = c /\ row.session = loc[c].session
              /\ row.round = loc[c].index /\ row.prev = loc[c].prev
              /\ row.status = status /\ row.error = error
              /\ row.billed = billed
              /\ row.asked = loc[c].asked /\ row.answered = loc[c].answered
<1> DEFINE n == Len(table) + 1
           new == NewRow(c, status, error, billed)
<1>1. new \in Row
  BY NewRowType DEF IInv
<1>2. /\ new.call = c /\ new.session = loc[c].session
      /\ new.round = loc[c].index /\ new.prev = loc[c].prev
      /\ new.status = status /\ new.error = error
      /\ new.billed = billed
      /\ new.asked = loc[c].asked /\ new.answered = loc[c].answered
  BY DEF NewRow
<1>3. table' = Append(table, new)
  BY DEF Adds
<1> HIDE DEF new
<1>4. /\ Len(table') = n
      /\ \A i \in 1..Len(table) : table'[i] = table[i]
      /\ table'[n] = new
  BY <1>1, <1>3, AppendFacts DEF IInv
<1>5. Len(table) \in Nat
  BY DEF IInv, TypeOK
<1>6. Rows' = Rows \cup {n} /\ n \notin Rows
  BY <1>4, <1>5 DEF Rows
<1>7. \A i \in Rows : table'[i] = table[i]
  BY <1>4 DEF Rows
<1>8. Mine(c)' = Mine(c) \cup {n}
  BY <1>2, <1>4, <1>6, <1>7 DEF Mine
<1>9. \A i \in Mine(c) : i < n /\ i \in Rows
  BY <1>5 DEF Mine, Rows
<1> QED
  BY <1>2, <1>4, <1>5, <1>6, <1>7, <1>8, <1>9

\* A row insert() adds hangs rightly, for a round that is not stored yet, or
\* as the second copy of a stored one that the handler of the ^C makes.
LEMMA AddedHolds ==
    ASSUME IInv, IInv', NEW c \in Calls, NEW status \in RowStatuses,
           NEW error \in Errors, NEW billed \in BOOLEAN,
           Adds(c, status, error, billed),
           RoundInv(c), \A j \in Rows : RowInv(j),
           loc'[c].mode = loc[c].mode,
           Unstored(c) \/ (Stored(c) /\ error = "cancelled")
    PROVE  \A j \in Rows' : j \notin Rows => RowInv(j)'
<1> DEFINE row == table'[Len(table) + 1]
           prev == loc[c].prev
           above == table[prev]
           mode == loc[c].mode
<1> SUFFICES ASSUME NEW n, n = Len(table) + 1
             PROVE  RowSays(table', n, mode)
  BY AddedRow DEF RowInv
<1>1. /\ n \in Nat /\ Rows' = Rows \cup {n} /\ n \notin Rows /\ Len(table) \in Nat
      /\ \A i \in Rows : table'[i] = table[i]
      /\ row.call = c /\ row.session = loc[c].session
      /\ row.round = loc[c].index /\ row.prev = prev
      /\ row.status = status /\ row.error = error
      /\ row.asked = loc[c].asked /\ row.answered = loc[c].answered
      /\ table'[n] = row
  BY AddedRow
<1>2. loc[c] \in Locals
  BY DEF IInv, TypeOK
<1>3. prev \in Nat /\ loc[c].index \in Nat /\ prev < n
  BY <1>1, <1>2 DEF Locals, IInv, NoDanglingParent, Parent
<1>4. prev > 0 => prev \in Rows /\ table'[prev] = above
  BY <1>1, <1>3 DEF Rows
<1>5. \A i \in 1..(n - 1) : i \in Rows /\ table'[i] = table[i]
  BY <1>1 DEF Rows
<1>6. /\ loc[c].index < MaxToolRounds
      /\ loc[c].answered <= loc[c].asked
  BY DEF RoundInv
<1>7. \A i \in Rows : table[i].round \in Nat
  <2>1. \A i \in Rows : table[i] \in Row
    BY DEF IInv, TypeOK, Rows
  <2> QED
    BY <2>1 DEF Row
<1>8. CASE Unstored(c) /\ loc[c].index = 0
  <2>1. /\ Mine(c) = {}
        /\ mode \in {"new", "continue", "mid"}
        /\ mode = "new" => prev = 0
        /\ mode = "continue" =>
              /\ prev \in 1..committed /\ above.session = loc[c].session
              /\ above.status = OK /\ above.error = "none" /\ above.asked = 0
    BY <1>8 DEF Unstored, Started
  <2>2. \A i \in Rows : table[i].call # c
    BY <2>1 DEF Mine
  <2>3. mode = "continue" => prev > 0 /\ above.answered = above.asked
    <3> SUFFICES ASSUME mode = "continue"
                 PROVE  prev > 0 /\ above.answered = above.asked
      OBVIOUS
    <3>1. prev > 0 /\ prev \in Rows
      BY <1>3, <1>4, <2>1 DEF IInv, TypeOK
    <3>2. above.answered <= above.asked
      BY <3>1 DEF RowInv, RowSays
    <3>3. above \in Row
      BY <3>1 DEF IInv, TypeOK, Rows
    <3>4. above.answered \in Nat /\ above.asked = 0
      BY <2>1, <3>3 DEF Row
    <3> QED
      BY <3>1, <3>2, <3>4
  <2> HIDE DEF row, above, prev, mode
  <2> QED
    BY <1>1, <1>3, <1>4, <1>5, <1>6, <1>8, <2>1, <2>2, <2>3 DEF RowSays
<1>9. CASE Unstored(c) /\ loc[c].index > 0
  <2>1. Asking(c, prev, loc[c].index - 1)
    BY <1>9 DEF Unstored
  <2>2. /\ prev \in Rows /\ above.call = c /\ above.round = loc[c].index - 1
        /\ above.asked > 0 /\ above.answered = above.asked
        /\ above.error \in {"none", "stream"}
    BY <2>1 DEF Asking
  <2>3. \A i \in Rows : table[i].call = c => table[i].round < loc[c].index
    BY <1>9 DEF Unstored, Mine
  <2>4. prev > 0
    BY <2>2 DEF Rows
  <2> HIDE DEF row, above, prev, mode
  <2> QED
    BY <1>1, <1>3, <1>4, <1>5, <1>6, <1>7, <1>9, <2>2, <2>3, <2>4 DEF RowSays
<1>10. CASE Stored(c) /\ error = "cancelled"
  <2>1. Asking(c, prev, loc[c].index)
    BY <1>10 DEF Stored
  <2>2. /\ prev \in Rows /\ above.call = c /\ above.round = loc[c].index
        /\ above.asked > 0 /\ above.answered = above.asked
        /\ above.error \in {"none", "stream"}
    BY <2>1 DEF Asking
  <2>3. \A i \in Rows : table[i].call = c => table[i].round < loc[c].index \/ i = prev
    BY <1>10 DEF Stored, Mine
  <2>4. prev > 0
    BY <2>2 DEF Rows
  <2> HIDE DEF row, above, prev, mode
  <2> QED
    BY <1>1, <1>3, <1>4, <1>5, <1>6, <1>7, <1>10, <2>2, <2>3, <2>4 DEF RowSays
<1> QED
  BY <1>3, <1>8, <1>9, <1>10

----------------------------------------------------------------------------
\* What a step of a call says of the call itself.

\* While the table and these four locals stay, so does the place of the round.
LEMMA SameRows ==
    ASSUME NEW c, table' = table, committed <= committed', IInv, IInv',
           loc'[c].prev = loc[c].prev, loc'[c].mode = loc[c].mode,
           loc'[c].index = loc[c].index, loc'[c].session = loc[c].session
    PROVE  /\ Mine(c)' = Mine(c)
           /\ Unstored(c) => Unstored(c)'
           /\ Stored(c) => Stored(c)'
<1>1. Mine(c)' = Mine(c)
  BY DEF Mine, Rows
<1>2. committed \in Nat /\ committed' \in Nat
  BY DEF IInv, TypeOK
<1>3. Started(c) => Started(c)'
  BY <1>1, <1>2 DEF Started
<1>4. Asking(c, loc[c].prev, loc[c].index - 1)
        => Asking(c, loc[c].prev, loc[c].index - 1)'
  BY DEF Asking, Rows
<1>5. Asking(c, loc[c].prev, loc[c].index)
        => Asking(c, loc[c].prev, loc[c].index)'
  BY DEF Asking, Rows
<1> QED
  BY <1>1, <1>3, <1>4, <1>5 DEF Unstored, Stored

\* Only the stage of the call changes.
Moves(c, stage) ==
    /\ pc' = [pc EXCEPT ![c] = stage]
    /\ UNCHANGED <<table, loc>>

\* The same for a step that only moves the call on.
LEMMA MovesFacts ==
    ASSUME IInv, IInv', NEW c \in Calls, Step(c), NEW stage, Moves(c, stage)
    PROVE  /\ pc'[c] = stage /\ loc'[c] = loc[c]
           /\ Mine(c)' = Mine(c)
           /\ Unstored(c) => Unstored(c)'
           /\ Stored(c) => Stored(c)'
<1>1. committed <= committed'
  BY RowsMove
<1>2. pc'[c] = stage
  BY DEF Moves, IInv, TypeOK
<1> QED
  BY <1>1, <1>2, SameRows DEF Moves

\* What an ended call has lost tells nothing.
LEMMA LostHolds ==
    ASSUME IInv, NEW c \in Calls, RoundInv(c), pc'[c] = "lost", loc' = loc
    PROVE  CallInv(c)' /\ RoundInv(c)'
<1> QED
  BY DEF CallInv, RoundInv, Untold

\* Opening, the budget's check and resolve_ref() keep it: what -c finds is the
\* whole answer that the pointer of its own session names (PointerSound).
LEMMA PrepareHolds ==
    ASSUME IInv, IInv', NEW c \in Calls, Step(c), Prepare(c),
           CallInv(c), RoundInv(c)
    PROVE  CallInv(c)' /\ RoundInv(c)'
<1>1. CASE Open(c)
  <2>1. Moves(c, "opened") /\ pc[c] = "idle"
    BY <1>1 DEF Open, At, Goto, Moves, db
  <2> QED
    BY <2>1, MovesFacts DEF CallInv, RoundInv, Untold
<1>2. CASE CheckBudget(c)
  <2>1. PICK stage \in {"refused", "budgeted"} : Moves(c, stage) /\ pc[c] = "opened"
    BY <1>2 DEF CheckBudget, At, Goto, Moves, db
  <2> QED
    BY <2>1, MovesFacts DEF CallInv, RoundInv, Untold
<1>3. CASE Resolve(c)
  <2>1. pc[c] = "budgeted" /\ pc'[c] = "resolved" /\ UNCHANGED db
    BY <1>3 DEF Resolve, At, Goto, IInv, TypeOK
  <2>2. Mine(c) = {} /\ Mine(c)' = {} /\ loc[c].index = 0
    BY <2>1 DEF CallInv, Untold, Mine, Rows, db
  <2>3. loc[c] \in Locals /\ loc \in [Calls -> Locals] /\ loc[c].session \in Sessions
    BY DEF IInv, TypeOK, Locals
  <2>4. PICK mode \in {"new", "continue", "mid"}, mid \in Nat :
          /\ ContinueFrom(c, mode, mid)
          /\ mode = "new" => mid = 0
          /\ mode = "continue" => mid # 0 /\ mid = pointer[loc[c].session]
    BY <1>3, <2>3 DEF Resolve, Visible, IInv, TypeOK
  <2>5. /\ loc'[c].mode = mode /\ loc'[c].prev = mid
        /\ loc'[c].index = 0 /\ loc'[c].session = loc[c].session
        /\ loc'[c].asked = loc[c].asked /\ loc'[c].answered = loc[c].answered
    BY <2>2, <2>3, <2>4 DEF ContinueFrom, Locals
  <2>6. mode = "continue" =>
          /\ mid \in 1..committed
          /\ table[mid].session = loc[c].session
          /\ table[mid].status = OK /\ table[mid].error = "none"
          /\ table[mid].asked = 0
    BY <2>3, <2>4 DEF IInv, TypeOK, PointerSound
  <2>7. Started(c)'
    BY <2>1, <2>2, <2>4, <2>5, <2>6 DEF Started, db
  <2>8. CallInv(c)'
    BY <2>1, <2>2, <2>5, <2>7 DEF CallInv, Unstored, Untold
  <2> QED
    BY <2>1, <2>2, <2>5, <2>8 DEF RoundInv
<1>4. CASE Refuse(c)
  <2>1. /\ pc[c] \in {"budgeted", "resolved"} /\ pc'[c] = "refused" /\ loc' = loc
    BY <1>4 DEF Refuse, Goto, IInv, TypeOK
  <2>2. Mine(c) = {} /\ loc[c].index = 0
    BY <2>1 DEF CallInv, Untold
  <2>3. table' = table \/ table' = SubSeq(table, 1, committed)
    BY <1>4 DEF Refuse, Rollback, db
  <2>4. Mine(c)' = {}
    <3>1. CASE table' = table
      BY <2>2, <3>1 DEF Mine, Rows
    <3>2. CASE table' = SubSeq(table, 1, committed)
      <4>1. Len(table') = committed /\ \A i \in 1..committed : table'[i] = table[i]
        BY <3>2, PrefixFacts DEF IInv
      <4>2. \A i \in 1..committed : i \in 1..Len(table)
        BY DEF IInv, TypeOK
      <4> QED
        BY <2>2, <4>1, <4>2 DEF Mine, Rows
    <3> QED
      BY <2>3, <3>1, <3>2
  <2> QED
    BY <2>1, <2>2, <2>4 DEF CallInv, RoundInv, Untold
<1>5. CASE StoreAttachment(c)
  <2>1. table' = table /\ loc' = loc /\ pc' = pc /\ committed <= committed'
    BY <1>5, RowsMove DEF StoreAttachment
  <2>2. /\ Mine(c)' = Mine(c)
        /\ Unstored(c) => Unstored(c)'
        /\ Stored(c) => Stored(c)'
    BY <2>1, SameRows
  <2> QED
    BY <1>5, <2>1, <2>2 DEF StoreAttachment, At, CallInv, RoundInv
<1>6. CASE BuildRequest(c)
  <2>1. Moves(c, "request") /\ pc[c] = "resolved"
    BY <1>6 DEF BuildRequest, At, Goto, Moves, db
  <2> QED
    BY <2>1, MovesFacts DEF CallInv, RoundInv, Untold
<1> QED
  BY <1>1, <1>2, <1>3, <1>4, <1>5, <1>6 DEF Prepare

\* The rounds keep it: every stored round has all its results, and the next
\* one hangs below it.
LEMMA AskHolds ==
    ASSUME IInv, IInv', NEW c \in Calls, Step(c), Ask(c),
           CallInv(c), RoundInv(c)
    PROVE  CallInv(c)' /\ RoundInv(c)'
<1>0. /\ loc \in [Calls -> Locals] /\ loc[c] \in Locals
      /\ loc[c].asked \in Nat /\ loc[c].answered \in Nat /\ loc[c].index \in Nat
      /\ MaxToolRounds \in Nat \ {0}
  BY BoundsAssumption DEF IInv, TypeOK, Locals
<1>a. pc \in [Calls -> Stages]
  BY DEF IInv, TypeOK
<1>b. committed <= committed'
  BY RowsMove
<1>1. CASE SendRequest(c)
  <2>1. /\ pc[c] = "request" /\ pc'[c] = "streaming" /\ table' = table
        /\ loc'[c].prev = loc[c].prev /\ loc'[c].mode = loc[c].mode
        /\ loc'[c].index = loc[c].index /\ loc'[c].session = loc[c].session
        /\ loc'[c].asked = 0 /\ loc'[c].answered = 0
    BY <1>0, <1>a, <1>1 DEF SendRequest, At, Goto, db, Locals
  <2>2. Unstored(c)'
    BY <1>b, <2>1, SameRows DEF CallInv
  <2> QED
    BY <2>1, <2>2 DEF CallInv, RoundInv, Untold
<1>2. CASE ParseToolCall(c)
  <2>1. /\ pc[c] = "streaming" /\ pc'[c] = "streaming" /\ table' = table
        /\ loc'[c].prev = loc[c].prev /\ loc'[c].mode = loc[c].mode
        /\ loc'[c].index = loc[c].index /\ loc'[c].session = loc[c].session
        /\ loc'[c].asked = loc[c].asked + 1 /\ loc'[c].answered = loc[c].answered
    BY <1>0, <1>2 DEF ParseToolCall, At, db, Locals
  <2>2. Unstored(c)'
    BY <1>b, <2>1, SameRows DEF CallInv
  <2> QED
    BY <1>0, <2>1, <2>2 DEF CallInv, RoundInv, Untold
<1>3. CASE EndStream(c)
  <2>1. PICK o \in Outcomes :
          /\ o.status = Refused => loc[c].asked = 0
          /\ loc' = [loc EXCEPT ![c] = [@ EXCEPT !.status = o.status,
                                                !.error = o.error]]
    BY <1>3 DEF EndStream
  <2>2. /\ o.error \in {"none", "http", "stream"}
        /\ o.error = "http" => o.status = Refused
        /\ o.error = "none" => o.status = OK
    BY DEF Outcomes
  <2>3. /\ pc[c] = "streaming" /\ pc'[c] = "settling" /\ table' = table
    BY <1>a, <1>3 DEF EndStream, At, Goto, db
  <2>4. /\ loc'[c].prev = loc[c].prev /\ loc'[c].mode = loc[c].mode
        /\ loc'[c].index = loc[c].index /\ loc'[c].session = loc[c].session
        /\ loc'[c].asked = loc[c].asked /\ loc'[c].answered = loc[c].answered
        /\ loc'[c].status = o.status /\ loc'[c].error = o.error
    BY <1>0, <2>1 DEF Locals
  <2>5. Unstored(c)'
    BY <1>b, <2>3, <2>4, SameRows DEF CallInv
  <2>6. CallInv(c)'
    BY <2>3, <2>5 DEF CallInv, Untold
  <2> QED
    BY <2>1, <2>2, <2>3, <2>4, <2>6 DEF RoundInv
<1>4. CASE AdaptorRaises(c)
  <2>1. Moves(c, "raised") /\ pc[c] = "streaming"
    BY <1>4 DEF AdaptorRaises, At, Goto, Moves, db
  <2> QED
    BY <2>1, MovesFacts DEF CallInv, RoundInv, Untold
<1>5. CASE GiveUp(c) \/ BadArguments(c)
  <2>1. Moves(c, "raised") /\ pc[c] = "settling"
    BY <1>5 DEF GiveUp, BadArguments, At, Goto, Moves, db
  <2> QED
    BY <2>1, MovesFacts DEF CallInv, RoundInv, Untold
<1>6. CASE RunTool(c)
  <2>1. /\ pc[c] = "settling" /\ pc' = pc /\ table' = table
        /\ loc'[c].prev = loc[c].prev /\ loc'[c].mode = loc[c].mode
        /\ loc'[c].index = loc[c].index /\ loc'[c].session = loc[c].session
        /\ loc'[c].asked = loc[c].asked /\ loc'[c].answered = loc[c].answered + 1
        /\ loc'[c].status = loc[c].status /\ loc'[c].error = loc[c].error
        /\ loc[c].answered < loc[c].asked
        /\ ~(loc[c].index + 1 >= MaxToolRounds)
    BY <1>0, <1>6 DEF RunTool, OutOfRounds, At, db, Locals
  <2>2. Unstored(c)'
    BY <1>b, <2>1, SameRows DEF CallInv
  <2>3. CallInv(c)'
    BY <2>1, <2>2 DEF CallInv, Untold
  <2> QED
    BY <1>0, <2>1, <2>3 DEF RoundInv
<1>7. CASE Settle(c)
  <2>1. /\ pc[c] = "settling" /\ loc[c].answered = loc[c].asked
        /\ Moves(c, IF loc[c].asked > 0 THEN "recording" ELSE "closing")
    BY <1>7 DEF Settle, Answered, At, Goto, Moves, db
  <2>2. /\ pc'[c] = IF loc[c].asked > 0 THEN "recording" ELSE "closing"
        /\ loc'[c] = loc[c] /\ Unstored(c)'
    BY <2>1, MovesFacts DEF CallInv
  <2>3. CallInv(c)'
    BY <2>2 DEF CallInv, Untold
  <2> QED
    BY <1>0, <2>1, <2>2, <2>3 DEF RoundInv
<1>8. CASE CannotBill(c)
  <2>1. pc'[c] = "lost" /\ loc' = loc
    BY <1>a, <1>8 DEF CannotBill, Goto
  <2> QED
    BY <2>1, LostHolds
<1>9. CASE InsertRound(c)
  <2>1. /\ pc[c] = "recording" /\ pc'[c] = "inserted"
        /\ Adds(c, loc[c].status, loc[c].error, TRUE)
        /\ loc'[c].prev = Len(table) + 1 /\ loc'[c].mode = loc[c].mode
        /\ loc'[c].index = loc[c].index /\ loc'[c].session = loc[c].session
        /\ loc'[c].asked = loc[c].asked /\ loc'[c].answered = loc[c].answered
    BY <1>0, <1>a, <1>9 DEF InsertRound, Adds, At, Goto, Locals
  <2>2. loc[c].status \in RowStatuses /\ loc[c].error \in Errors
    BY <2>1, SettledStatus DEF IInv
  <2>3. PICK n : n = Len(table) + 1
    OBVIOUS
  <2>8. /\ Rows' = Rows \cup {n}
        /\ Mine(c)' = Mine(c) \cup {n}
        /\ \A i \in Mine(c) : table'[i] = table[i]
        /\ table'[n].call = c /\ table'[n].round = loc[c].index
        /\ table'[n].error = loc[c].error
        /\ table'[n].asked = loc[c].asked /\ table'[n].answered = loc[c].answered
    <3>1. PICK status \in RowStatuses, error \in Errors, billed \in BOOLEAN :
            /\ Adds(c, status, error, billed)
            /\ error = loc[c].error
      BY <2>1, <2>2
    <3> QED
      BY <2>3, <3>1, AddedRow
  <2>4. /\ loc[c].asked > 0 /\ loc[c].answered = loc[c].asked
        /\ loc[c].error \in {"none", "stream"}
        /\ loc[c].index + 1 < MaxToolRounds
    BY <2>1 DEF RoundInv
  <2>5. \A i \in Mine(c) : table[i].round < loc[c].index
    BY <2>1 DEF CallInv, Unstored
  <2>6. Stored(c)'
    BY <2>1, <2>3, <2>4, <2>5, <2>8 DEF Stored, Asking
  <2>7. CallInv(c)'
    BY <2>1, <2>6 DEF CallInv, Untold
  <2> QED
    BY <2>1, <2>4, <2>7 DEF RoundInv
<1>10. CASE CommitRound(c)
  <2>1. Moves(c, "committed") /\ pc[c] = "inserted"
    BY <1>10 DEF CommitRound, Durable, At, Goto, Moves
  <2> QED
    BY <2>1, MovesFacts DEF CallInv, RoundInv, Untold
<1>11. CASE NextRound(c)
  <2>1. /\ pc[c] = "committed" /\ pc'[c] = "request" /\ table' = table
        /\ loc'[c].prev = loc[c].prev /\ loc'[c].mode = loc[c].mode
        /\ loc'[c].index = loc[c].index + 1 /\ loc'[c].session = loc[c].session
        /\ loc'[c].asked = loc[c].asked /\ loc'[c].answered = loc[c].answered
    BY <1>0, <1>a, <1>11 DEF NextRound, At, Goto, db, Locals
  <2>2. /\ Asking(c, loc[c].prev, loc[c].index)
        /\ \A i \in Mine(c) : table[i].round < loc[c].index \/ i = loc[c].prev
    BY <2>1 DEF CallInv, Stored
  <2>3. Mine(c)' = Mine(c)
    BY <2>1 DEF Mine, Rows
  <2>4. \A i \in Mine(c) : table[i].round \in Nat
    <3>1. \A i \in Mine(c) : table[i] \in Row
      BY DEF IInv, TypeOK, Rows, Mine
    <3> QED
      BY <3>1 DEF Row
  <2>5. Unstored(c)'
    <3>1. PICK p, m : p = loc[c].prev /\ m = loc[c].index
      OBVIOUS
    <3>2. Asking(c, p, m)'
      BY <2>1, <2>2, <3>1 DEF Asking, Rows
    <3>3. \A i \in Mine(c) : table[i].round < loc[c].index + 1
      BY <1>0, <2>2, <2>4 DEF Asking
    <3>4. loc'[c].prev = p /\ loc'[c].index # 0 /\ loc'[c].index - 1 = m
      BY <1>0, <2>1, <3>1
    <3>5. \A i \in Mine(c)' : table'[i].round < loc'[c].index
      BY <2>1, <2>3, <3>3
    <3> QED
      BY <3>2, <3>4, <3>5 DEF Unstored
  <2>6. CallInv(c)'
    BY <2>1, <2>5 DEF CallInv, Untold
  <2> QED
    BY <2>1, <2>6 DEF RoundInv
<1> QED
  BY <1>1, <1>2, <1>3, <1>4, <1>5, <1>6, <1>7, <1>8, <1>9, <1>10, <1>11 DEF Ask

\* The row that ends a call is its last, and bears its bill and its session.
LEMMA EndsWithAdded ==
    ASSUME IInv, IInv', NEW c \in Calls, NEW status \in RowStatuses,
           NEW error \in Errors, NEW billed \in BOOLEAN,
           Adds(c, status, error, billed),
           loc'[c].session = loc[c].session
    PROVE  /\ \A errors : error \in errors => EndsWith(c, errors)'
           /\ billed => Answers(c)'
<1>1. PICK n : n = Len(table) + 1
  OBVIOUS
<1>2. /\ n \in Nat /\ Mine(c)' = Mine(c) \cup {n}
      /\ \A i \in Mine(c) : i < n /\ i \in Nat
      /\ table'[n].error = error /\ table'[n].session = loc[c].session
      /\ table'[n].billed = billed
  BY <1>1, AddedRow DEF Rows
<1>3. \A i \in Mine(c)' : i <= n
  BY <1>2
<1>4. n \in Mine(c)'
  BY <1>2
<1> QED
  BY <1>2, <1>3, <1>4 DEF EndsWith, Answers

\* Both exception handlers store a row with a status, "or -1" included.
LEMMA HandlerAdds ==
    ASSUME IInv, NEW c \in Calls, StoreCancelled(c) \/ StoreFailure(c)
    PROVE  \E status \in RowStatuses, error \in Errors, billed \in BOOLEAN :
              /\ Adds(c, status, error, billed)
              /\ error = IF StoreCancelled(c) THEN "cancelled" ELSE "raised"
<1>1. "cancelled" \in Errors /\ "raised" \in Errors /\ Failed \in RowStatuses
  BY DEF Errors, RowStatuses, Statuses, NoStatus, OK, Refused, Failed
<1>2. CASE StoreCancelled(c)
  <2>1. Adds(c, Failed, "cancelled", FALSE)
    BY <1>2 DEF StoreCancelled, Durable, Adds
  <2> QED
    BY <1>1, <1>2, <2>1
<1>3. CASE StoreFailure(c) /\ ~StoreCancelled(c)
  <2>1. loc[c].status \in Statuses
    BY DEF IInv, TypeOK, Locals
  <2>2. PICK status : /\ status = IF loc[c].status = NoStatus THEN Failed ELSE loc[c].status
                      /\ Adds(c, status, "raised", FALSE)
    BY <1>3 DEF StoreFailure, Durable, Adds
  <2>3. status \in RowStatuses
    BY <1>1, <2>1, <2>2 DEF RowStatuses
  <2> QED
    BY <1>1, <1>3, <2>2, <2>3
<1> QED
  BY <1>2, <1>3

\* The ends of a call keep it: each stores the row it reports.
LEMMA FinishHolds ==
    ASSUME IInv, IInv', NEW c \in Calls, Step(c), Finish(c),
           CallInv(c), RoundInv(c)
    PROVE  CallInv(c)' /\ RoundInv(c)'
<1>0. loc \in [Calls -> Locals] /\ loc[c] \in Locals /\ pc \in [Calls -> Stages]
  BY DEF IInv, TypeOK
<1>1. CASE StoreCancelled(c)
  <2>1. PICK status \in RowStatuses, error \in Errors, billed \in BOOLEAN :
          Adds(c, status, error, billed) /\ error = "cancelled"
    BY <1>1, HandlerAdds
  <2>2. pc'[c] = "cancelled" /\ loc' = loc
    BY <1>0, <1>1 DEF StoreCancelled, Goto
  <2>3. EndsWith(c, {"cancelled"})'
    BY <2>1, <2>2, EndsWithAdded
  <2> QED
    BY <2>2, <2>3 DEF CallInv, RoundInv, Untold
<1>2. CASE StoreFailure(c)
  <2>1. pc[c] = "raised"
    BY <1>2 DEF StoreFailure, At
  <2>2. PICK status \in RowStatuses, error \in Errors, billed \in BOOLEAN :
          Adds(c, status, error, billed) /\ error = "raised"
    BY <1>2, <2>1, HandlerAdds DEF StoreCancelled, At
  <2>3. pc'[c] = "failed" /\ loc' = loc
    BY <1>0, <1>2 DEF StoreFailure, Goto
  <2>4. EndsWith(c, {"http", "stream", "raised"})'
    BY <2>2, <2>3, EndsWithAdded
  <2> QED
    BY <2>3, <2>4 DEF CallInv, RoundInv, Untold
<1>3. CASE StoreAnswer(c)
  <2>1. pc[c] = "closing" /\ loc[c].status \in RowStatuses /\ loc[c].error \in Errors
    BY <1>3, SettledStatus DEF StoreAnswer, At, IInv
  <2>2. PICK status \in RowStatuses, error \in Errors, billed \in BOOLEAN :
          /\ Adds(c, status, error, billed)
          /\ status = loc[c].status /\ error = loc[c].error
          /\ billed <=> status = OK
    BY <1>3, <2>1 DEF StoreAnswer, Durable, Adds
  <2>3. /\ loc'[c].index = loc[c].index /\ loc'[c].session = loc[c].session
        /\ loc'[c].asked = loc[c].asked /\ loc'[c].answered = loc[c].answered
    BY <1>0, <1>3 DEF StoreAnswer, Locals
  <2>4. /\ status = OK => pc'[c] = "pointing"
        /\ status # OK => pc'[c] = "failed"
    BY <1>0, <1>3, <2>2 DEF StoreAnswer, AfterAnswer, Goto
  <2>5. /\ status = OK => error = "none"
        /\ status # OK => error \in {"http", "stream"}
    BY <2>1, <2>2 DEF RoundInv, IInv, StageInv
  <2>6. status = OK => EndsWith(c, {"none"})' /\ Answers(c)'
    BY <2>2, <2>3, <2>5, EndsWithAdded
  <2>7. status # OK => EndsWith(c, {"http", "stream", "raised"})'
    BY <2>2, <2>3, <2>5, EndsWithAdded
  <2>8. CallInv(c)'
    BY <2>4, <2>6, <2>7 DEF CallInv, Untold
  <2> QED
    BY <2>3, <2>4, <2>8 DEF RoundInv
<1>4. CASE PointSession(c) \/ PointerRefused(c)
  <2>1. PICK stage \in {"done", "unpointed"} : Moves(c, stage) /\ pc[c] = "pointing"
    BY <1>4 DEF PointSession, PointerRefused, At, Goto, Moves, db
  <2>2. pc'[c] = stage /\ loc'[c] = loc[c] /\ Mine(c)' = Mine(c) /\ table' = table
    BY <2>1, MovesFacts DEF Moves
  <2>3. EndsWith(c, {"none"}) /\ Answers(c)
    BY <2>1 DEF CallInv
  <2>4. EndsWith(c, {"none"})' /\ Answers(c)'
    BY <2>2, <2>3 DEF EndsWith, Answers
  <2> QED
    BY <2>1, <2>2, <2>4 DEF CallInv, RoundInv, Untold
<1>5. CASE Busy(c)
  <2>1. pc'[c] = "lost" /\ loc' = loc
    BY <1>0, <1>5 DEF Busy, Goto
  <2> QED
    BY <2>1, LostHolds
<1> QED
  BY <1>1, <1>2, <1>3, <1>4, <1>5 DEF Finish

\* Every step of a call keeps what the call and its rows say of each other.
LEMMA CallHolds ==
    ASSUME IInv, IInv', NEW c \in Calls, Step(c), CallInv(c), RoundInv(c)
    PROVE  CallInv(c)' /\ RoundInv(c)'
<1>0. pc \in [Calls -> Stages]
  BY DEF IInv, TypeOK
<1>1. CASE Interrupt(c)
  <2>1. Moves(c, "cancelling") /\ pc[c] \in InTry
    BY <1>1 DEF Interrupt, Goto, Moves, db
  <2>2. Unstored(c) \/ Stored(c)
    BY <2>1 DEF CallInv, InTry
  <2> QED
    BY <2>1, <2>2, MovesFacts DEF CallInv, RoundInv, Untold
<1>2. CASE Kill(c)
  <2>1. pc'[c] = "lost" /\ loc' = loc
    BY <1>0, <1>2 DEF Kill, Goto
  <2> QED
    BY <2>1, LostHolds
<1> QED
  BY <1>1, <1>2, PrepareHolds, AskHolds, FinishHolds DEF Step, Run

\* Every row a step adds hangs rightly.
LEMMA NewRowHolds ==
    ASSUME IInv, IInv', NEW c \in Calls, Step(c), CallInv(c), RoundInv(c),
           \A j \in Rows : RowInv(j)
    PROVE  \A j \in Rows' : j \notin Rows => RowInv(j)'
<1>0. loc \in [Calls -> Locals] /\ loc[c] \in Locals /\ pc \in [Calls -> Stages]
  BY DEF IInv, TypeOK
<1>1. CASE InsertRound(c)
  <2>1. pc[c] = "recording" /\ loc'[c].mode = loc[c].mode
    BY <1>0, <1>1 DEF InsertRound, At, Locals
  <2>2. PICK status \in RowStatuses, error \in Errors, billed \in BOOLEAN :
          Adds(c, status, error, billed)
    BY <1>1, <2>1, SettledStatus DEF InsertRound, Adds, IInv
  <2>3. Unstored(c)
    BY <2>1 DEF CallInv
  <2> QED
    BY <2>1, <2>2, <2>3, AddedHolds
<1>2. CASE StoreCancelled(c)
  <2>1. PICK status \in RowStatuses, error \in Errors, billed \in BOOLEAN :
          Adds(c, status, error, billed) /\ error = "cancelled"
    BY <1>2, HandlerAdds
  <2>2. Unstored(c) \/ Stored(c)
    BY <1>2 DEF StoreCancelled, At, CallInv
  <2>3. loc' = loc
    BY <1>2 DEF StoreCancelled
  <2> QED
    BY <2>1, <2>2, <2>3, AddedHolds
<1>3. CASE StoreFailure(c)
  <2>1. PICK status \in RowStatuses, error \in Errors, billed \in BOOLEAN :
          Adds(c, status, error, billed)
    BY <1>3, HandlerAdds
  <2>2. Unstored(c) /\ loc' = loc
    BY <1>3 DEF StoreFailure, At, CallInv
  <2> QED
    BY <2>1, <2>2, AddedHolds
<1>4. CASE StoreAnswer(c)
  <2>1. pc[c] = "closing" /\ loc'[c].mode = loc[c].mode
    BY <1>0, <1>4 DEF StoreAnswer, At, Locals
  <2>2. PICK status \in RowStatuses, error \in Errors, billed \in BOOLEAN :
          Adds(c, status, error, billed)
    BY <1>4, <2>1, SettledStatus DEF StoreAnswer, Durable, Adds, IInv
  <2>3. Unstored(c)
    BY <2>1 DEF CallInv
  <2> QED
    BY <2>1, <2>2, <2>3, AddedHolds
<1>5. CASE table' = table
  BY <1>5 DEF Rows
<1>6. CASE Rollback(c)
  <2>1. table' = table \/ table' = SubSeq(table, 1, committed)
    BY <1>6 DEF Rollback, db
  <2>2. Len(table') = Len(table) \/ Len(table') = committed
    BY <2>1, PrefixFacts DEF IInv
  <2> QED
    BY <2>2 DEF Rows, IInv, TypeOK
<1>7. \/ InsertRound(c) \/ StoreCancelled(c) \/ StoreFailure(c) \/ StoreAnswer(c)
      \/ table' = table \/ Rollback(c)
  BY DEF Step, Run, Prepare, Ask, Finish, Open, CheckBudget, Resolve, Refuse,
         StoreAttachment, BuildRequest, SendRequest, ParseToolCall, EndStream,
         AdaptorRaises, GiveUp, BadArguments, RunTool, Settle, CannotBill,
         CommitRound, Durable, NextRound, PointSession, PointerRefused, Busy,
         Interrupt, Kill, db
<1> QED
  BY <1>1, <1>2, <1>3, <1>4, <1>5, <1>6, <1>7

\* Nobody has stored anything yet.
LEMMA TreeInit == Init => TreeInv
<1> SUFFICES ASSUME Init PROVE TreeInv
  OBVIOUS
<1>1. Rows = {} /\ \A c \in Calls : Mine(c) = {}
  BY DEF Init, Rows, Mine
<1>2. ASSUME NEW c \in Calls
      PROVE  pc[c] = "idle" /\ loc[c].index = 0 /\ loc[c].asked = 0 /\ loc[c].answered = 0
  BY <1>2 DEF Init
<1> QED
  BY <1>1, <1>2, BoundsAssumption DEF TreeInv, CallInv, RoundInv, Untold

\* A step keeps the rows of its call (CallHolds, NewRowHolds) and those of
\* the others (OthersHold, RowsHold).
LEMMA TreeNext == IInv /\ TreeInv /\ [Next]_vars => TreeInv'
<1> SUFFICES ASSUME IInv, TreeInv, [Next]_vars
             PROVE  TreeInv'
  OBVIOUS
<1>1. IInv'
  BY NextInv
<1>2. CASE UNCHANGED vars
  <2>1. /\ \A c \in Calls : CallInv(c)' /\ RoundInv(c)'
        /\ Rows' = Rows
    BY <1>2 DEF vars, TreeInv, CallInv, RoundInv, Unstored, Stored, Started,
                Asking, EndsWith, Answers, Mine, Rows
  <2>2. \A j \in Rows : RowInv(j)'
    BY <1>2 DEF vars, TreeInv, RowInv, RowSays
  <2> QED
    BY <2>1, <2>2 DEF TreeInv
<1>3. ASSUME NEW c \in Calls, Step(c)
      PROVE  TreeInv'
  <2>1. \A d \in Calls : CallInv(d)' /\ RoundInv(d)'
    BY <1>1, <1>3, CallHolds, OthersHold DEF TreeInv
  <2>2. \A j \in Rows' : j \in Rows => RowInv(j)'
    BY <1>1, <1>3, RowsHold DEF TreeInv
  <2>3. \A j \in Rows' : j \notin Rows => RowInv(j)'
    BY <1>1, <1>3, NewRowHolds DEF TreeInv
  <2>4. \A j \in Rows' : RowInv(j)'
    BY <2>2, <2>3
  <2> QED
    BY <2>1, <2>4 DEF TreeInv
<1> QED
  BY <1>2, <1>3 DEF Next, Step, AllEnded

\* The invariant of the rows, on top of the locks and the pointers of IInv.
THEOREM RowsTell == Spec => []TreeInv
<1>1. Init => IInv
  BY InitInv
<1>2. IInv /\ [Next]_vars => IInv'
  BY NextInv
<1> QED
  BY <1>1, <1>2, TreeInit, TreeNext, PTL DEF Spec

----------------------------------------------------------------------------
\* The properties of the runs.

\* The rounds of the tool loop hang one below the other, MAX_TOOL_ROUNDS at
\* most, and only a ^C around a commit stores one of them twice.
THEOREM RoundsHang == Spec => []RoundsChain
<1>1. IInv /\ TreeInv => RoundsChain
  <2> SUFFICES ASSUME IInv, TreeInv, NEW i \in Rows
               PROVE  /\ table[i].round < MaxToolRounds
                      /\ table[i].round > 0 =>
                            /\ Parent(i) > 0
                            /\ LET above == table[Parent(i)]
                               IN /\ above.call = table[i].call
                                  /\ above.asked > 0
                                  /\ \/ above.round = table[i].round - 1
                                     \/ /\ above.round = table[i].round
                                        /\ table[i].error = "cancelled"
                      /\ \A j \in 1..(i - 1) :
                            table[j].call = table[i].call
                               /\ table[j].round >= table[i].round
                            => table[i].error = "cancelled" /\ Parent(i) = j
    BY DEF RoundsChain, IInv
  <2>1. RowSays(table, i, loc[table[i].call].mode)
    BY DEF TreeInv, RowInv
  <2> QED
    BY <2>1 DEF RowSays, Parent
<1> QED
  BY <1>1, RowsTell, Invariance, PTL

\* Neither -c nor the tool loop ever continues a row that ended its call
\* without an answer, or one whose tool calls have not all got their results;
\* only --mid does, where a user names it.
THEOREM OnlyWholeContinue == Spec => []ContinuedIsWhole
<1>1. ASSUME IInv, TreeInv PROVE ContinuedIsWhole
  <2> SUFFICES ASSUME NEW i \in Rows, NEW j \in Rows, Parent(j) = i, ~ByMid(j)
               PROVE  /\ table[i].error \notin {"http", "cancelled", "raised"}
                      /\ table[i].error = "stream" => table[i].asked > 0
                      /\ table[i].answered = table[i].asked
    BY DEF ContinuedIsWhole
  <2>1. RowSays(table, j, loc[table[j].call].mode)
    BY <1>1 DEF TreeInv, RowInv
  <2>2. table[j].prev = i /\ i > 0
    BY DEF Parent, Rows
  <2> QED
    BY <2>1, <2>2 DEF RowSays, ByMid
<1> QED
  BY <1>1, RowsTell, Invariance, PTL

\* -c continues a whole answer of its own session, however the calls of other
\* sessions interleave with it.
THEOREM HomeIsKept == Spec => []ContinueStaysHome
<1>1. TreeInv => ContinueStaysHome
  <2> SUFFICES ASSUME TreeInv, NEW j \in Rows, table[j].round = 0,
                      loc[table[j].call].mode = "continue"
               PROVE  \/ /\ Parent(j) > 0
                         /\ table[Parent(j)].session = table[j].session
                         /\ table[Parent(j)].status = OK
                      \/ /\ Parent(j) > 0
                         /\ table[Parent(j)].call = table[j].call
    BY DEF ContinueStaysHome
  <2>1. RowSays(table, j, loc[table[j].call].mode)
    BY DEF TreeInv, RowInv
  <2> QED
    BY <2>1 DEF RowSays, Parent
<1> QED
  BY <1>1, RowsTell, PTL

\* A call that is over, or about to move its pointer, has no open transaction.
LEMMA EndedIsDurable ==
    ASSUME IInv, NEW c \in Calls, pc[c] \notin Writing
    PROVE  RowsOf(c) = Mine(c)
<1>1. writer # c /\ \A i \in (committed + 1)..Len(table) : table[i].call # c
  BY DEF IInv, LockInv
<1>2. committed \in 0..Len(table) /\ Len(table) \in Nat
  BY DEF IInv, TypeOK
<1> QED
  BY <1>1, <1>2 DEF RowsOf, Mine, Rows

\* What a call reports is what its last durable row says, and a call refused
\* before the network has stored none.
THEOREM CallsEndAsTheTableSays == Spec => []OutcomeStored
<1>1. IInv /\ TreeInv => OutcomeStored
  <2> SUFFICES ASSUME IInv, TreeInv, NEW c \in Calls
               PROVE  /\ pc[c] \in {"pointing", "done", "unpointed"} =>
                            LastRowIs(c, {"none"})
                      /\ pc[c] = "failed" =>
                            LastRowIs(c, {"http", "stream", "raised"})
                      /\ pc[c] = "cancelled" => LastRowIs(c, {"cancelled"})
                      /\ pc[c] = "refused" => RowsOf(c) = {}
    BY DEF OutcomeStored
  <2>1. CallInv(c)
    BY DEF TreeInv
  <2>2. pc[c] \in {"pointing", "done", "unpointed", "failed", "cancelled", "refused"}
           => RowsOf(c) = Mine(c)
    BY EndedIsDurable DEF Writing, InTry
  <2>3. \A errors : RowsOf(c) = Mine(c) /\ EndsWith(c, errors) => LastRowIs(c, errors)
    BY DEF EndsWith, LastRowIs
  <2> QED
    BY <2>1, <2>2, <2>3 DEF CallInv, Untold
<1> QED
  BY <1>1, RowsTell, Invariance, PTL

\* Each call that ended well has a durable billed row of its own, so a session
\* and those nested in it have spent at least as much as calls ended there.
LEMMA DoneIsBilled ==
    ASSUME IInv, TreeInv, NEW s \in Sessions
    PROVE  /\ Cardinality(EndedUnder(s)) \in Nat /\ Spent(s) \in Nat
           /\ Cardinality(EndedUnder(s)) <= Spent(s)
<1> DEFINE ended == EndedUnder(s)
           bill == BilledRows(s)
           theirs == {i \in bill : table[i].call \in ended}
           payer == [i \in theirs |-> table[i].call]
<1>1. committed \in Nat
  BY DEF IInv, TypeOK
<1>2. IsFiniteSet(1..committed)
  BY <1>1, FS_Interval
<1>3. bill \in SUBSET (1..committed)
  BY DEF BilledRows
<1>4. IsFiniteSet(bill)
  BY <1>2, <1>3, FS_Subset
<1>5. \A d \in ended : \E i \in theirs : table[i].call = d
  <2> SUFFICES ASSUME NEW d \in ended
               PROVE  \E i \in theirs : table[i].call = d
    OBVIOUS
  <2>1. /\ d \in Calls /\ pc[d] = "done"
        /\ loc[d].session = s \/ s \in Ancestors[loc[d].session]
    BY DEF EndedUnder
  <2>2. Answers(d)
    BY <2>1 DEF TreeInv, CallInv
  <2>3. PICK i \in Mine(d) : table[i].billed /\ table[i].session = loc[d].session
    BY <2>2 DEF Answers
  <2>4. i \in 1..committed /\ table[i].call = d
    BY <2>1, <2>3, EndedIsDurable DEF Writing, InTry, RowsOf
  <2>5. loc[d].session \in Sessions
    BY <2>1 DEF IInv, TypeOK, Locals
  <2>6. i \in bill
    BY <2>1, <2>3, <2>4, <2>5 DEF BilledRows, Under
  <2> QED
    BY <2>4, <2>6
<1> HIDE DEF ended, bill
<1>6. payer \in Surjection(theirs, ended)
  BY <1>5 DEF Surjection
<1>7. theirs \in SUBSET bill
  OBVIOUS
<1>8. IsFiniteSet(theirs) /\ Cardinality(theirs) <= Cardinality(bill)
  BY <1>4, <1>7, FS_Subset
<1> HIDE DEF theirs, payer
<1>9. IsFiniteSet(ended) /\ Cardinality(ended) <= Cardinality(theirs)
  BY <1>6, <1>8, FS_Surjection
<1>10. /\ Cardinality(bill) \in Nat /\ Cardinality(theirs) \in Nat
       /\ Cardinality(ended) \in Nat
  BY <1>4, <1>8, <1>9, FS_CardinalityType
<1>11. Cardinality(ended) <= Cardinality(bill)
  BY <1>8, <1>9, <1>10
<1> QED
  BY <1>10, <1>11 DEF Spent, ended, bill

\* The ceiling stops: however many calls run at once, none is let through once
\* as many have ended in its session's subtree as DIC_COST_BUDGET pays for.
THEOREM BudgetHolds == Spec => CeilingStops
<1>1. ASSUME IInv, TreeInv, [Next]_vars, NEW c \in Budgeted,
             At(c, "opened"), pc'[c] = "budgeted"
      PROVE  Cardinality(EndedUnder(loc[c].session)) < Budget
  <2>1. c \in Calls /\ Budget \in Nat /\ pc[c] = "opened"
    BY <1>1, BoundsAssumption DEF At
  <2>2. CheckBudget(c)
    <3>1. pc' # pc
      BY <1>1, <2>1
    <3>2. PICK d \in Calls : Run(d) \/ Interrupt(d) \/ Kill(d)
      BY <1>1, <3>1 DEF Next, AllEnded, vars
    <3>3. d = c
      BY <1>1, <2>1, <3>2, OthersStep DEF IInv
    <3>4. pc \in [Calls -> Stages]
      BY <1>1 DEF IInv, TypeOK
    <3> QED
      BY <1>1, <2>1, <3>2, <3>3, <3>4
         DEF Run, Prepare, Ask, Finish, Open, CheckBudget, Resolve, Refuse,
             StoreAttachment, BuildRequest, SendRequest, ParseToolCall,
             EndStream, AdaptorRaises, GiveUp, BadArguments, RunTool, Settle,
             CannotBill, InsertRound, CommitRound, NextRound, StoreCancelled,
             StoreFailure, StoreAnswer, PointSession, PointerRefused, Busy,
             NeedsLock, Interrupt, InTry, Kill, Goto, At
  <2>3. ~OverBudget(c)
    BY <1>1, <2>1, <2>2 DEF CheckBudget, Goto, IInv, TypeOK
  <2>4. loc[c].session \in Sessions
    BY <1>1, <2>1 DEF IInv, TypeOK, Locals
  <2>5. ~(Spent(loc[c].session) >= Budget)
    BY <1>1, <2>3 DEF OverBudget
  <2>6. /\ Cardinality(EndedUnder(loc[c].session)) <= Spent(loc[c].session)
        /\ Spent(loc[c].session) \in Nat
        /\ Cardinality(EndedUnder(loc[c].session)) \in Nat
    BY <1>1, <2>4, DoneIsBilled
  <2> QED
    BY <2>1, <2>5, <2>6
<1>2. IInv /\ TreeInv /\ [Next]_vars
        => [\A c \in Budgeted :
               At(c, "opened") /\ pc'[c] = "budgeted" =>
                  Cardinality(EndedUnder(loc[c].session)) < Budget]_vars
  BY <1>1
<1> QED
  BY <1>2, RowsTell, Invariance, PTL DEF Spec, CeilingStops
=============================================================================
