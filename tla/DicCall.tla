------------------------------ MODULE DicCall ------------------------------
(***************************************************************************)
(* dic() of src/src/dic/client.py: one call from the command line to the   *)
(* model and back, and several of them at once over one database file and  *)
(* one directory of session pointers.  A call opens the database, checks   *)
(* its budget, picks the row it continues, and then asks the model in      *)
(* rounds: a round that ends by asking for tools is stored and followed by *)
(* another, and the last one is stored and pointed at.                     *)
(*                                                                         *)
(* The messages table is one sequence in rowid order, a row's number       *)
(* standing for its mid.  Its first `committed' rows are durable; the rest *)
(* belong to the one write transaction sqlite allows, whose owner is       *)
(* `writer'.                                                               *)
(***************************************************************************)
EXTENDS Integers, Sequences, FiniteSets

CONSTANTS
    Calls,          \* the calls made, each by a process or a pool thread
    NoCall,         \* not a call: nobody holds sqlite's write lock
    Sessions,       \* DIC_SESSION values
    Ancestors,      \* session -> the sessions whose name is a path prefix of it
    MaxToolRounds,  \* MAX_TOOL_ROUNDS, 16 in the code
    MaxAsked,       \* bound: tool calls one round may ask for
    Budgeted,       \* the calls run with DIC_COST_BUDGET set
    Budget          \* its value, in rounds: every billed row costs 1

ASSUME CallsAssumption == NoCall \notin Calls
ASSUME AncestorsAssumption ==
    /\ Ancestors \in [Sessions -> SUBSET Sessions]
    /\ \A s \in Sessions : s \notin Ancestors[s]
ASSUME BoundsAssumption ==
    /\ MaxToolRounds \in Nat \ {0}
    /\ MaxAsked \in Nat
    /\ Budget \in Nat
    /\ Budgeted \subseteq Calls

VARIABLES
    table,      \* messages, in rowid order, with the open transaction's rows
    committed,  \* how many of them are durable and visible to everybody
    writer,     \* who holds the RESERVED lock, or NoCall
    pointer,    \* session -> the row its pointer file names, 0 when no file
    pc,         \* call -> where in dic() it stands
    loc         \* call -> dic()'s locals

db == <<table, committed, writer>>
vars == <<table, committed, writer, pointer, pc, loc>>

\* No status yet; a 200; the API's refusal; and what dic writes for itself.
NoStatus == 0
OK == 200
Refused == 429
Failed == -1
Statuses == {NoStatus, OK, Refused, Failed}

Errors == {"none", "http", "stream", "cancelled", "raised"}

\* A stored row always has a status: where the wire gave none it is -1.
RowStatuses == Statuses \ {NoStatus}

\* `round' counts API calls; `asked' and `answered' are the tool calls in
\* response_raw and the results in tool_results; `billed' is cost NOT NULL.
Row == [call : Calls, session : Sessions, round : Nat, prev : Nat,
        status : RowStatuses, error : Errors, billed : BOOLEAN,
        asked : Nat, answered : Nat]

Ended == {"done", "failed", "cancelled", "refused", "lost", "unpointed"}
InTry == {"request", "streaming", "settling", "recording", "inserted",
          "committed"}
InHandler == {"raised", "cancelling"}
Stages == {"idle", "opened", "budgeted", "resolved", "closing", "pointing"}
              \cup InTry \cup InHandler \cup Ended

Modes == {"none", "new", "continue", "mid"}

Locals == [session : Sessions, mode : Modes, prev : Nat, index : Nat,
           mid : Nat, status : Statuses, error : Errors,
           asked : Nat, answered : Nat]

----------------------------------------------------------------------------
\* sqlite's rollback-journal locking, as far as dic meets it.

\* A statement that writes may run: nobody else's transaction is open.
MayWrite(c) == writer \in {NoCall, c}

\* conn.commit(): everything inserted becomes durable, the lock is dropped.
Durable(rows) ==
    /\ table' = rows
    /\ committed' = Len(rows)
    /\ writer' = NoCall

\* Mutated Rollback: the rows go and the lock stays.
RollbackKeepsLock(c) ==
    IF writer = c
    THEN /\ table' = SubSeq(table, 1, committed)
         /\ UNCHANGED <<committed, writer>>
    ELSE UNCHANGED db

\* A connection that goes away takes its open transaction with it.
Rollback(c) ==
    IF writer = c
    THEN /\ table' = SubSeq(table, 1, committed)
         /\ writer' = NoCall
         /\ UNCHANGED committed
    ELSE UNCHANGED db

Goto(c, stage) == pc' = [pc EXCEPT ![c] = stage]

At(c, stage) == pc[c] = stage

----------------------------------------------------------------------------
\* Before the network.

Init ==
    /\ table = << >>
    /\ committed = 0
    /\ writer = NoCall
    /\ pointer = [s \in Sessions |-> 0]
    /\ pc = [c \in Calls |-> "idle"]
    /\ loc \in [Calls -> {[session |-> s, mode |-> "none", prev |-> 0,
                            index |-> 0, mid |-> 0, status |-> NoStatus,
                            error |-> "none", asked |-> 0, answered |-> 0]
                           : s \in Sessions}]

\* db(): every open writes PRAGMA user_version, so it needs the lock too.
Open(c) ==
    /\ At(c, "idle")
    /\ MayWrite(c)
    /\ Goto(c, "opened")
    /\ UNCHANGED <<db, pointer, loc>>

\* Mutated Under: the LIKE that takes in the nested sessions is missing.
UnderFlat(s) == {s}

\* SESSION_COST: the bill of a session and of every session nested in it.
Under(s) == {t \in Sessions : t = s \/ s \in Ancestors[t]}

BilledRows(s) ==
    {i \in 1..committed : table[i].billed /\ table[i].session \in Under(s)}

Spent(s) == Cardinality(BilledRows(s))

OverBudget(c) == c \in Budgeted /\ Spent(loc[c].session) >= Budget

CheckBudget(c) ==
    /\ At(c, "opened")
    /\ Goto(c, IF OverBudget(c) THEN "refused" ELSE "budgeted")
    /\ UNCHANGED <<db, pointer, loc>>

ContinueFrom(c, mode, mid) ==
    loc' = [loc EXCEPT ![c] = [@ EXCEPT !.mode = mode, !.prev = mid]]

\* The rows a reader's SELECT finds.
Visible == 1..committed

\* Mutated Resolve: -c takes whichever pointer there is.
ResolveAnyPointer(c) ==
    /\ At(c, "budgeted")
    /\ \/ ContinueFrom(c, "new", 0)
       \/ \E s \in Sessions :
             pointer[s] # 0 /\ ContinueFrom(c, "continue", pointer[s])
       \/ \E mid \in Visible : ContinueFrom(c, "mid", mid)
    /\ Goto(c, "resolved")
    /\ UNCHANGED <<db, pointer>>

\* A new conversation, -c from the session's pointer, or --mid from any row:
\* resolve_ref() asks only that the row exists.
Resolve(c) ==
    /\ At(c, "budgeted")
    /\ \/ ContinueFrom(c, "new", 0)
       \/ LET mid == pointer[loc[c].session]
          IN mid # 0 /\ ContinueFrom(c, "continue", mid)
       \/ \E mid \in Visible : ContinueFrom(c, "mid", mid)
    /\ Goto(c, "resolved")
    /\ UNCHANGED <<db, pointer>>

\* -c without a pointer, an unknown mid or model, a key that is not set, a
\* taken --path, a bad --tools: a DicError before the try, so no row.
Refuse(c) ==
    /\ pc[c] \in {"budgeted", "resolved"}
    /\ Goto(c, "refused")
    /\ Rollback(c)
    /\ UNCHANGED <<pointer, loc>>

\* -a: the INSERT opens a transaction that nothing commits before the first
\* row does, so the lock is held across the network.
StoreAttachment(c) ==
    /\ At(c, "resolved")
    /\ writer = NoCall
    /\ writer' = c
    /\ UNCHANGED <<table, committed, pointer, pc, loc>>

BuildRequest(c) ==
    /\ At(c, "resolved")
    /\ Goto(c, "request")
    /\ UNCHANGED <<db, pointer, loc>>

----------------------------------------------------------------------------
\* The rounds of the try block.

\* The top of the loop: acc, asked, results and wire start again.
SendRequest(c) ==
    /\ At(c, "request")
    /\ loc' = [loc EXCEPT ![c] = [@ EXCEPT !.status = NoStatus,
                                          !.error = "none",
                                          !.asked = 0, !.answered = 0]]
    /\ Goto(c, "streaming")
    /\ UNCHANGED <<db, pointer>>

\* parse() adds one more tool call to acc.
ParseToolCall(c) ==
    /\ At(c, "streaming")
    /\ loc[c].asked < MaxAsked
    /\ loc' = [loc EXCEPT ![c].asked = @ + 1]
    /\ UNCHANGED <<db, pointer, pc>>

\* How a stream ends: whole, refused before its first event, or with an error
\* frame after the 200, which leaves in acc whatever had arrived.
Outcomes == {[status |-> OK, error |-> "none"],
             [status |-> Refused, error |-> "http"],
             [status |-> Failed, error |-> "stream"]}

EndStream(c) ==
    /\ At(c, "streaming")
    /\ \E o \in Outcomes :
          /\ o.status = Refused => loc[c].asked = 0
          /\ loc' = [loc EXCEPT ![c] = [@ EXCEPT !.status = o.status,
                                                !.error = o.error]]
    /\ Goto(c, "settling")
    /\ UNCHANGED <<db, pointer>>

\* A call() adaptor (fal, images, videos) reports a failure by raising, and
\* none of them offers tools.
AdaptorRaises(c) ==
    /\ At(c, "streaming")
    /\ loc[c].asked = 0 /\ loc[c].index = 0
    /\ Goto(c, "raised")
    /\ UNCHANGED <<db, pointer, loc>>

\* Mutated OutOfRounds: one round too many.
OutOfRoundsLate(c) == loc[c].index + 1 > MaxToolRounds

OutOfRounds(c) == loc[c].index + 1 >= MaxToolRounds

\* Mutated GiveUp: the last round waits for tools nobody runs.
GiveUpNever(c) == FALSE

GiveUp(c) ==
    /\ At(c, "settling")
    /\ loc[c].asked > 0
    /\ OutOfRounds(c)
    /\ Goto(c, "raised")
    /\ UNCHANGED <<db, pointer, loc>>

\* calls() finds arguments that are not JSON, before any tool has run.
BadArguments(c) ==
    /\ At(c, "settling")
    /\ loc[c].asked > 0
    /\ loc[c].answered = 0
    /\ Goto(c, "raised")
    /\ UNCHANGED <<db, pointer, loc>>

\* A tool that fails answers too: its message is the result.
RunTool(c) ==
    /\ At(c, "settling")
    /\ loc[c].answered < loc[c].asked
    /\ ~OutOfRounds(c)
    /\ loc' = [loc EXCEPT ![c].answered = @ + 1]
    /\ UNCHANGED <<db, pointer, pc>>

\* Mutated Answered: the round is settled whether or not its tools have run.
AnsweredAnyway(c) == TRUE

\* Every call asked for has its result.
Answered(c) == loc[c].answered = loc[c].asked

\* billing() and finish(); a round that asked for nothing is the last.
Settle(c) ==
    /\ At(c, "settling")
    /\ Answered(c)
    /\ Goto(c, IF loc[c].asked > 0 THEN "recording" ELSE "closing")
    /\ UNCHANGED <<db, pointer, loc>>

\* Two price rules tie: billing() raises, the handler's billing() raises
\* again, and the round is never stored.
CannotBill(c) ==
    /\ At(c, "settling")
    /\ Answered(c)
    /\ Goto(c, "lost")
    /\ Rollback(c)
    /\ UNCHANGED <<pointer, loc>>

NewRow(c, status, error, billed) ==
    [call |-> c, session |-> loc[c].session, round |-> loc[c].index,
     prev |-> loc[c].prev, status |-> status, error |-> error,
     billed |-> billed, asked |-> loc[c].asked, answered |-> loc[c].answered]

\* insert() of a round that is not the last: prev is the new row from here on,
\* and the row is not durable yet.
InsertRound(c) ==
    /\ At(c, "recording")
    /\ MayWrite(c)
    /\ table' = Append(table, NewRow(c, loc[c].status, loc[c].error, TRUE))
    /\ writer' = c
    /\ loc' = [loc EXCEPT ![c].prev = Len(table) + 1]
    /\ Goto(c, "inserted")
    /\ UNCHANGED <<committed, pointer>>

CommitRound(c) ==
    /\ At(c, "inserted")
    /\ Durable(table)
    /\ Goto(c, "committed")
    /\ UNCHANGED <<pointer, loc>>

\* The results become a turn, the next body is built, index += 1.
NextRound(c) ==
    /\ At(c, "committed")
    /\ loc' = [loc EXCEPT ![c].index = @ + 1]
    /\ Goto(c, "request")
    /\ UNCHANGED <<db, pointer>>

----------------------------------------------------------------------------
\* The ends of a call.

\* A ^C inside the try: the handler will store what there is.
Interrupt(c) ==
    /\ pc[c] \in InTry
    /\ Goto(c, "cancelling")
    /\ UNCHANGED <<db, pointer, loc>>

\* Mutated StoreCancelled: insert() without the commit, undone on the way out.
StoreCancelledUncommitted(c) ==
    /\ At(c, "cancelling")
    /\ MayWrite(c)
    /\ Goto(c, "cancelled")
    /\ Rollback(c)
    /\ UNCHANGED <<pointer, loc>>

\* except KeyboardInterrupt: insert() and commit().  A round inserted just
\* before the ^C is made durable by the same commit.
StoreCancelled(c) ==
    /\ At(c, "cancelling")
    /\ MayWrite(c)
    /\ Durable(Append(table, NewRow(c, Failed, "cancelled", FALSE)))
    /\ Goto(c, "cancelled")
    /\ UNCHANGED <<pointer, loc>>

\* Mutated StoreFailure: the `or -1' is missing.
StoreFailureNoStatus(c) ==
    /\ At(c, "raised")
    /\ MayWrite(c)
    /\ Durable(Append(table, NewRow(c, loc[c].status, "raised", FALSE)))
    /\ Goto(c, "failed")
    /\ UNCHANGED <<pointer, loc>>

\* except DicError: the round's own status where it had one, else -1.
StoreFailure(c) ==
    /\ At(c, "raised")
    /\ MayWrite(c)
    /\ LET status == IF loc[c].status = NoStatus THEN Failed ELSE loc[c].status
       IN Durable(Append(table, NewRow(c, status, "raised", FALSE)))
    /\ Goto(c, "failed")
    /\ UNCHANGED <<pointer, loc>>

\* Mutated AfterAnswer: the pointer follows every row that was stored.
AfterAnswerAlways(c) == "pointing"

\* Only a 200 has a bill and goes on to move the pointer.
AfterAnswer(c) == IF loc[c].status = OK THEN "pointing" ELSE "failed"

StoreAnswer(c) ==
    /\ At(c, "closing")
    /\ MayWrite(c)
    /\ Durable(Append(table, NewRow(c, loc[c].status, loc[c].error,
                                    loc[c].status = OK)))
    /\ loc' = [loc EXCEPT ![c].mid = Len(table) + 1]
    /\ Goto(c, AfterAnswer(c))
    /\ UNCHANGED pointer

\* A pointer is a file and a nested session needs its parent's name to be a
\* directory, so session_write() cannot place the one where the other stands.
Blocked(s) ==
    \E t \in Sessions :
        pointer[t] # 0 /\ (t \in Ancestors[s] \/ s \in Ancestors[t])

\* Mutated PointSession: the row before the answer.
PointSessionAtPrev(c) ==
    /\ At(c, "pointing")
    /\ ~Blocked(loc[c].session)
    /\ pointer' = [pointer EXCEPT ![loc[c].session] = loc[c].prev]
    /\ Goto(c, "done")
    /\ UNCHANGED <<db, loc>>

PointSession(c) ==
    /\ At(c, "pointing")
    /\ ~Blocked(loc[c].session)
    /\ pointer' = [pointer EXCEPT ![loc[c].session] = loc[c].mid]
    /\ Goto(c, "done")
    /\ UNCHANGED <<db, loc>>

\* The OSError leaves dic() after the row was committed.
PointerRefused(c) ==
    /\ At(c, "pointing")
    /\ Blocked(loc[c].session)
    /\ Goto(c, "unpointed")
    /\ UNCHANGED <<db, pointer, loc>>

\* sqlite gives a statement five seconds to get the lock, then raises an
\* OperationalError that no handler of dic() catches.
NeedsLock == {"idle", "resolved", "recording", "raised", "cancelling",
              "closing"}

Busy(c) ==
    /\ pc[c] \in NeedsLock
    /\ ~MayWrite(c)
    /\ Goto(c, "lost")
    /\ UNCHANGED <<db, pointer, loc>>

\* A crash, a ^C outside the try or inside a handler, or an exception that is
\* not a DicError: a refused connection, a reset, an event that is not JSON.
Kill(c) ==
    /\ pc[c] \notin Ended \cup {"idle"}
    /\ Goto(c, "lost")
    /\ Rollback(c)
    /\ UNCHANGED <<pointer, loc>>

----------------------------------------------------------------------------
Prepare(c) ==
    \/ Open(c) \/ CheckBudget(c) \/ Resolve(c) \/ Refuse(c)
    \/ StoreAttachment(c) \/ BuildRequest(c)

Ask(c) ==
    \/ SendRequest(c) \/ ParseToolCall(c) \/ EndStream(c) \/ AdaptorRaises(c)
    \/ GiveUp(c) \/ BadArguments(c) \/ RunTool(c) \/ Settle(c)
    \/ CannotBill(c) \/ InsertRound(c) \/ CommitRound(c) \/ NextRound(c)

Finish(c) ==
    \/ StoreCancelled(c) \/ StoreFailure(c) \/ StoreAnswer(c)
    \/ PointSession(c) \/ PointerRefused(c) \/ Busy(c)

Run(c) == Prepare(c) \/ Ask(c) \/ Finish(c)

\* All calls are over: the only way the system stops.
AllEnded == (\A c \in Calls : pc[c] \in Ended) /\ UNCHANGED vars

Next ==
    \/ \E c \in Calls : Run(c) \/ Interrupt(c) \/ Kill(c)
    \/ AllEnded

Spec == Init /\ [][Next]_vars

\* The steps the code takes by itself.  What the user and the model choose, and
\* what goes wrong, is free to happen or not; that EndStream is here is an
\* assumption about the peer, because http.client is given no timeout.
Progress(c) ==
    \/ Open(c) \/ CheckBudget(c) \/ Resolve(c) \/ BuildRequest(c)
    \/ SendRequest(c) \/ EndStream(c) \/ GiveUp(c) \/ RunTool(c) \/ Settle(c)
    \/ InsertRound(c) \/ CommitRound(c) \/ NextRound(c) \/ Finish(c)

FairSpec == Spec /\ \A c \in Calls : WF_vars(Progress(c))

----------------------------------------------------------------------------
\* Types, and that whatever is stored has a status (client.py:976, 1072: an
\* exception before the wire gave one must not leave it NULL).
TypeOK ==
    /\ table \in Seq(Row)
    /\ committed \in 0..Len(table)
    /\ writer \in Calls \cup {NoCall}
    /\ pointer \in [Sessions -> Nat]
    /\ pc \in [Calls -> Stages]
    /\ loc \in [Calls -> Locals]

Rows == 1..Len(table)

Parent(i) == table[i].prev

\* --mid may start a turn below any row at all.
ByMid(j) == table[j].round = 0 /\ loc[table[j].call].mode = "mid"

\* The pointer session_write() leaves names a durable row of that session: a
\* whole 200 that no tool call is still waiting behind, so -c can replay it.
PointerSound ==
    \A s \in Sessions : pointer[s] # 0 =>
        /\ pointer[s] <= committed
        /\ LET row == table[pointer[s]]
           IN /\ row.session = s
              /\ row.status = OK /\ row.error = "none"
              /\ row.asked = 0

\* prev_mid always names an older row, and a row that no other call's rollback
\* can take away: durable, or in the call's own open transaction.
NoDanglingParent ==
    /\ \A i \in Rows : Parent(i) < i
    /\ \A c \in Calls : pc[c] \notin Ended =>
          loc[c].prev <= IF writer = c THEN Len(table) ELSE committed

\* No parent dangles, and the rounds of one call hang one below the other,
\* MAX_TOOL_ROUNDS at most, each on a round that asked for tools.  A ^C around the commit of a round
\* may store that round a second time, and nothing else may.
RoundsChain ==
    /\ NoDanglingParent
    /\ \A i \in Rows :
        /\ table[i].round < MaxToolRounds
        /\ table[i].round > 0 =>
              /\ Parent(i) > 0
              /\ LET above == table[Parent(i)]
                 IN /\ above.call = table[i].call
                    /\ above.asked > 0
                    /\ \/ above.round = table[i].round - 1
                       \/ /\ above.round = table[i].round
                          /\ table[i].error = "cancelled"
        /\ \A j \in 1..(i - 1) :
              table[j].call = table[i].call /\ table[j].round >= table[i].round
                 => table[i].error = "cancelled" /\ Parent(i) = j

\* What -c or the call itself continues is whole: a row that ended its call
\* without an answer is a leaf, and one that asked for tools has all their
\* results beside it, or the next request would hold calls without answers.
\* Only where a user names a row with --mid is neither looked at.
ContinuedIsWhole ==
    \A i, j \in Rows :
        Parent(j) = i /\ ~ByMid(j) =>
            /\ table[i].error \notin {"http", "cancelled", "raised"}
            /\ table[i].error = "stream" => table[i].asked > 0
            /\ table[i].answered = table[i].asked

\* -c replays "never somebody else's" (client.py:689): the row it continues is
\* a whole answer of the same session, whatever ran in between.
ContinueStaysHome ==
    \A j \in Rows :
        table[j].round = 0 /\ loc[table[j].call].mode = "continue" =>
            \/ /\ Parent(j) > 0
               /\ table[Parent(j)].session = table[j].session
               /\ table[Parent(j)].status = OK
            \/ /\ Parent(j) > 0      \* the second copy a ^C stored
               /\ table[Parent(j)].call = table[j].call

\* DIC_COST_BUDGET is the ceiling of a subtree (client.py:672): once as many
\* calls have ended well in a session and those nested in it as the ceiling
\* pays for, the check lets no further call of that session through.
EndedUnder(s) ==
    {d \in Calls : pc[d] = "done" /\ (loc[d].session = s
                                      \/ s \in Ancestors[loc[d].session])}

CeilingStops ==
    [][\A c \in Budgeted :
          At(c, "opened") /\ pc'[c] = "budgeted" =>
              Cardinality(EndedUnder(loc[c].session)) < Budget]_vars

\* What a call reports is what the table says: its last durable row is the
\* answer, the failure or the cancel it ended with, and a call refused before
\* the network has no row at all.
RowsOf(c) == {i \in 1..committed : table[i].call = c}

LastRowIs(c, errors) ==
    \E i \in RowsOf(c) :
        (\A j \in RowsOf(c) : j <= i) /\ table[i].error \in errors

OutcomeStored ==
    \A c \in Calls :
        /\ pc[c] \in {"pointing", "done", "unpointed"} => LastRowIs(c, {"none"})
        /\ pc[c] = "failed" => LastRowIs(c, {"http", "stream", "raised"})
        /\ pc[c] = "cancelled" => LastRowIs(c, {"cancelled"})
        /\ pc[c] = "refused" => RowsOf(c) = {}

\* The table and the pointers together behave as the message tree.
Tree == INSTANCE MessageTree WITH tree <- SubSeq(table, 1, committed),
                                  head <- pointer
TreeSpec == Tree!Spec

\* Every call that got as far as the database comes to an end.
EveryCallEnds == \A c \in Calls : At(c, "opened") ~> pc[c] \in Ended

\* The write lock does not stay with a call, even one that attached a file and
\* was then killed.
LockReleased == \A c \in Calls : writer = c ~> writer # c

----------------------------------------------------------------------------
\* What the documents say and the code does not do.

\* SPEC.md:424 "a failed row is always a leaf and is never replayed into a
\* later conversation": no answer hangs below a failed row.
FailedRowNeverReplayed ==
    \A i, j \in Rows :
        Parent(j) = i /\ table[j].error = "none" =>
            table[i].status = OK \/ ByMid(j)
=============================================================================
