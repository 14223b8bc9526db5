--------------------------- MODULE ProgressProofs ---------------------------
(***************************************************************************)
(* Theorems about Progress, for any number of polls and rounds and any of  *)
(* the adaptors: the clock's thread and the main thread share the row of   *)
(* the terminal, and whoever paints next finds it ended or its own.        *)
(***************************************************************************)
EXTENDS Progress, TLAPS

\* TypeOK in two parts, for two provers.
Booleans ==
    /\ quiet \in BOOLEAN /\ metered \in BOOLEAN /\ piped \in BOOLEAN
    /\ stop \in BOOLEAN /\ late \in BOOLEAN /\ showing \in BOOLEAN

Values ==
    /\ adaptor \in Adaptors
    /\ main \in Blocked \cup {"round", "thought", "answer", "blob", "yielded", "ended"}
    /\ after \in {"none", "status", "thought", "answer", "blob", "ended"}
    /\ round \in 1..MaxRounds /\ polls \in 0..MaxPolls
    /\ thread \in {"none", "waiting", "awake", "gone"}
    /\ row \in {Free, "earlier"} \cup LineRows \cup Meters \cup Text
    /\ meter \in [Meters -> {"fresh", "open", "done"}]
    /\ outcome \in {"none", "answered", "failed", "cancelled", "raised", "tools"}

\* Which stages are a stream's and which a job's.
Ways ==
    /\ main \in {"connecting", "streaming", "thought", "answer"}
          \/ after \in {"thought", "answer"} => adaptor = "stream"
    /\ main \in {"submitting", "polling", "fetching", "blob", "yielded"}
          \/ after \in {"status", "blob"} => adaptor # "stream"

\* The rows that nothing ends, on which a later writer does begin.
LeftOpen == {"reasoning", "earlier"}

\* What the main thread may rely on where it stands: after a join there is no
\* thread, a round begins below whatever was shown and ended, and what it goes
\* on to after a join has been said.
Stages ==
    /\ main = "joining" <=> after # "none"
    /\ main \in {"round", "thought", "answer", "blob", "yielded"} => thread = "none"
    /\ main = "round" => row \in {Free} \cup LeftOpen
    /\ outcome = "tools" => round < MaxRounds

\* Who can be on the row: while a thread lives nobody but its clock, or what was
\* left open; a meter that is open; an answer that is not metered; what is left
\* open, where the user asked for it; and at each stage nobody else the next
\* writer would paint over.
Owners ==
    /\ thread # "none" => row \in {Free, "clock"} \cup LeftOpen
    /\ row = "reasoning" => ~metered
    /\ row = "earlier" => quiet
    /\ row \in {"answer"} \cup LeftOpen => adaptor = "stream"
    /\ row = "thinking" =>
          metered /\ meter["thinking"] = "open" /\ adaptor = "stream"
    /\ row = "response" => meter["response"] = "open" /\ piped
    /\ row = "answer" => ~piped
    /\ main \in {"thought", "answer", "blob"} => row \notin LineRows
    /\ main = "thought" => row \in {Free, "thinking"} \cup LeftOpen
    /\ after = "thought" => row \notin {"answer", "response"}
    /\ main \in {"submitting", "polling"} \/ after = "status"
          => row \in {Free} \cup LineRows

\* RowChangesHands of one step.
Handover ==
    row # Free /\ row' \in (LineRows \cup Meters \cup Text) \ {row}
        => \/ row = "clock" /\ row' = "status"
           \/ row = "reasoning" /\ ~metered
           \/ row = "earlier" /\ quiet

\* The inductive invariant.
IInv == Booleans /\ Values /\ Ways /\ Stages /\ Owners
        /\ NothingRepaintsAfter

----------------------------------------------------------------------------
\* The flags stay flags.
LEMMA BooleansStep ==
    ASSUME Booleans, [Next]_vars
    PROVE  Booleans'
<1>1. CASE Wait
  BY <1>1 DEF knobs, Wait, Booleans
<1>2. CASE Elapse
  BY <1>2 DEF knobs, Elapse, Booleans, call
<1>3. CASE Wake
  BY <1>3 DEF knobs, Wake, Booleans, call
<1>4. CASE Paint
  BY <1>4 DEF knobs, Paint, Booleans, call
<1>5. CASE Leave
  BY <1>5 DEF knobs, Leave, Booleans, call
<1>6. CASE Join
  BY <1>6 DEF knobs, Join, Booleans, call
<1>7. CASE Thought
  BY <1>7 DEF knobs, Thought, Booleans, call, clock
<1>8. CASE ThoughtEnds
  BY <1>8 DEF knobs, ThoughtEnds, Booleans, call, clock
<1>9. CASE Answer
  BY <1>9 DEF knobs, Answer, Booleans, call, clock
<1>10. CASE Blob
  BY <1>10 DEF knobs, Blob, Booleans, call, clock
<1>11. CASE Yielded
  BY <1>11 DEF knobs, Yielded, StopClock, End, Booleans, call
<1>12. CASE Rounds
  BY <1>12 DEF knobs, Rounds, Booleans, clock
<1>13. CASE Connect
  BY <1>13 DEF knobs, Connect, Raise, End, StopClock, Booleans, call, clock
<1>14. CASE Arrives
  BY <1>14 DEF knobs, Arrives, StopClock, Booleans, call
<1>15. CASE StreamEnds
  BY <1>15 DEF knobs, StreamEnds, StopClock, End, Raise, Booleans, clock
<1>16. CASE Submit
  BY <1>16 DEF knobs, Submit, Raise, End, StopClock, Booleans, call, clock
<1>17. CASE Poll
  BY <1>17 DEF knobs, Poll, Raise, End, StopClock, Booleans, call, clock
<1>18. CASE Fetch
  BY <1>18 DEF knobs, Fetch, Raise, End, StopClock, Booleans, call, clock
<1>19. CASE Interrupt
  BY <1>19 DEF knobs, Interrupt, End, StopClock, Booleans
<1>20. CASE UNCHANGED vars
  BY <1>20 DEF knobs, vars, call, clock, Booleans
<1>21. QED
  BY <1>1, <1>2, <1>3, <1>4, <1>5, <1>6, <1>7, <1>8, <1>9, <1>10, <1>11,
     <1>12, <1>13, <1>14, <1>15, <1>16, <1>17, <1>18, <1>19, <1>20
     DEF Next, Ticker, Showing, Waiting

\* The others keep their types: a round is begun only if there is one left,
\* and the polls stop at the bound.
LEMMA ValuesStep ==
    ASSUME Values, Stages, [Next]_vars
    PROVE  Values'
<1>1. CASE Wait
  BY <1>1, ProgressAssumption DEF knobs, Wait, Fresh, Values, Blocked
<1>2. CASE Elapse
  BY <1>2 DEF knobs, Elapse, Values, call
<1>3. CASE Wake
  BY <1>3 DEF knobs, Wake, Values, call
<1>4. CASE Paint
  BY <1>4 DEF knobs, Paint, Values, call, LineRows
<1>5. CASE Leave
  BY <1>5 DEF knobs, Leave, Values, call
<1>6. CASE Join
  BY <1>6 DEF knobs, Join, RowAfter, Closed, Values, Stages, call, LineRows,
     Blocked
<1>7. CASE Thought
  BY <1>7 DEF knobs, Thought, Values, call, clock, Meters, Blocked, Free,
     LineRows, Text, LeftOpen
<1>8. CASE ThoughtEnds
  BY <1>8 DEF knobs, ThoughtEnds, Values, call, clock
<1>9. CASE Answer
  BY <1>9 DEF knobs, Answer, Values, call, clock, Meters, Blocked, Free,
     LineRows, Text, LeftOpen
<1>10. CASE Blob
  BY <1>10 DEF knobs, Blob, Values, call, clock, Meters
<1>11. CASE Yielded
  BY <1>11 DEF knobs, Yielded, StopClock, End, Values, call, Blocked
<1>12. CASE Rounds
  BY <1>12, ProgressAssumption DEF knobs, Rounds, Values, Stages, clock
<1>13. CASE Connect
  BY <1>13 DEF knobs, Connect, Raise, End, StopClock, Values, call, clock,
     Blocked
<1>14. CASE Arrives
  BY <1>14 DEF knobs, Arrives, StopClock, Values, call, Blocked
<1>15. CASE StreamEnds
  BY <1>15 DEF knobs, StreamEnds, StopClock, End, Raise, Values, clock, Blocked
<1>16. CASE Submit
  BY <1>16 DEF knobs, Submit, Raise, End, StopClock, Values, call, clock,
     Blocked
<1>17. CASE Poll
  BY <1>17, ProgressAssumption DEF knobs, Poll, Raise, End, StopClock, Values,
     call,
     clock, Blocked
<1>18. CASE Fetch
  BY <1>18 DEF knobs, Fetch, Raise, End, StopClock, Values, call, clock, Blocked
<1>19. CASE Interrupt
  BY <1>19 DEF knobs, Interrupt, End, StopClock, Blocked, Values
<1>20. CASE UNCHANGED vars
  BY <1>20 DEF knobs, vars, call, clock, Values
<1>21. QED
  BY <1>1, <1>2, <1>3, <1>4, <1>5, <1>6, <1>7, <1>8, <1>9, <1>10, <1>11,
     <1>12, <1>13, <1>14, <1>15, <1>16, <1>17, <1>18, <1>19, <1>20
     DEF Next, Ticker, Showing, Waiting

\* A stream never polls and a job never meters thoughts.
LEMMA WaysStep ==
    ASSUME Values, Ways, [Next]_vars
    PROVE  Ways'
<1>1. CASE Wait
  BY <1>1 DEF knobs, Wait, Ways
<1>2. CASE Elapse
  BY <1>2 DEF knobs, Elapse, Ways, call
<1>3. CASE Wake
  BY <1>3 DEF knobs, Wake, Ways, call
<1>4. CASE Paint
  BY <1>4 DEF knobs, Paint, Ways, call
<1>5. CASE Leave
  BY <1>5 DEF knobs, Leave, Ways, call
<1>6. CASE Join
  BY <1>6 DEF knobs, Join, Values, Ways, call
<1>7. CASE Thought
  BY <1>7 DEF knobs, Thought, Ways, call
<1>8. CASE ThoughtEnds
  BY <1>8 DEF knobs, ThoughtEnds, Ways, call
<1>9. CASE Answer
  BY <1>9 DEF knobs, Answer, Ways, call
<1>10. CASE Blob
  BY <1>10 DEF knobs, Blob, Ways, call
<1>11. CASE Yielded
  BY <1>11 DEF knobs, Yielded, StopClock, End, Ways, call
<1>12. CASE Rounds
  BY <1>12 DEF knobs, Rounds, Ways
<1>13. CASE Connect
  BY <1>13 DEF knobs, Connect, Raise, End, StopClock, Ways, call
<1>14. CASE Arrives
  BY <1>14 DEF knobs, Arrives, StopClock, Ways, call
<1>15. CASE StreamEnds
  BY <1>15 DEF knobs, StreamEnds, StopClock, End, Raise, Ways
<1>16. CASE Submit
  BY <1>16 DEF knobs, Submit, Raise, End, StopClock, Ways, call
<1>17. CASE Poll
  BY <1>17 DEF knobs, Poll, Raise, End, StopClock, Ways, call
<1>18. CASE Fetch
  BY <1>18 DEF knobs, Fetch, Raise, End, StopClock, Ways, call
<1>19. CASE Interrupt
  BY <1>19 DEF knobs, Interrupt, End, StopClock, Ways
<1>20. CASE UNCHANGED vars
  BY <1>20 DEF knobs, vars, call, Ways
<1>21. QED
  BY <1>1, <1>2, <1>3, <1>4, <1>5, <1>6, <1>7, <1>8, <1>9, <1>10, <1>11,
     <1>12, <1>13, <1>14, <1>15, <1>16, <1>17, <1>18, <1>19, <1>20
     DEF Next, Ticker, Showing, Waiting

\* A call that has ended is at rest: the join was the last thing it did.
LEMMA EndedStep ==
    ASSUME Values, NothingRepaintsAfter, [Next]_vars
    PROVE  NothingRepaintsAfter'
<1>1. CASE Wait
  BY <1>1 DEF knobs, Wait, NothingRepaintsAfter
<1>2. CASE Elapse
  BY <1>2 DEF knobs, Elapse, NothingRepaintsAfter, call
<1>3. CASE Wake
  BY <1>3 DEF knobs, Wake, NothingRepaintsAfter, call
<1>4. CASE Paint
  BY <1>4 DEF knobs, Paint, NothingRepaintsAfter, call
<1>5. CASE Leave
  BY <1>5 DEF knobs, Leave, NothingRepaintsAfter, call
<1>6. CASE Join
  BY <1>6 DEF knobs, Join, Joined, RowAfter, Closed, Values,
     NothingRepaintsAfter,
     LineRows, Meters, Free, Text, LeftOpen
<1>7. CASE Thought
  BY <1>7 DEF knobs, Thought, NothingRepaintsAfter
<1>8. CASE ThoughtEnds
  BY <1>8 DEF knobs, ThoughtEnds, NothingRepaintsAfter
<1>9. CASE Answer
  BY <1>9 DEF knobs, Answer, NothingRepaintsAfter
<1>10. CASE Blob
  BY <1>10 DEF knobs, Blob, NothingRepaintsAfter
<1>11. CASE Yielded
  BY <1>11 DEF knobs, Yielded, StopClock, End, NothingRepaintsAfter
<1>12. CASE Rounds
  BY <1>12 DEF knobs, Rounds, NothingRepaintsAfter
<1>13. CASE Connect
  BY <1>13 DEF knobs, Connect, Raise, End, StopClock, NothingRepaintsAfter
<1>14. CASE Arrives
  BY <1>14 DEF knobs, Arrives, StopClock, NothingRepaintsAfter
<1>15. CASE StreamEnds
  BY <1>15 DEF knobs, StreamEnds, StopClock, End, Raise, NothingRepaintsAfter
<1>16. CASE Submit
  BY <1>16 DEF knobs, Submit, Raise, End, StopClock, NothingRepaintsAfter
<1>17. CASE Poll
  BY <1>17 DEF knobs, Poll, Raise, End, StopClock, NothingRepaintsAfter
<1>18. CASE Fetch
  BY <1>18 DEF knobs, Fetch, Raise, End, StopClock, NothingRepaintsAfter
<1>19. CASE Interrupt
  BY <1>19 DEF knobs, Interrupt, End, StopClock, NothingRepaintsAfter
<1>20. CASE UNCHANGED vars
  BY <1>20 DEF knobs, vars, call, clock, NothingRepaintsAfter
<1>21. QED
  BY <1>1, <1>2, <1>3, <1>4, <1>5, <1>6, <1>7, <1>8, <1>9, <1>10, <1>11,
     <1>12, <1>13, <1>14, <1>15, <1>16, <1>17, <1>18, <1>19, <1>20
     DEF Next, Ticker, Showing, Waiting

\* What each stage relies on holds when it is reached, the clock's thread
\* notwithstanding.
LEMMA StagesStep ==
    ASSUME Values, Stages, NothingRepaintsAfter, [Next]_vars
    PROVE  Stages'
<1>1. CASE Wait
  BY <1>1 DEF knobs, Wait, Stages
<1>2. CASE Elapse
  BY <1>2 DEF knobs, Elapse, Stages, call
<1>3. CASE Wake
  BY <1>3 DEF knobs, Wake, Stages, call
<1>4. CASE Paint
  BY <1>4 DEF knobs, Paint, Stages, call
<1>5. CASE Leave
  BY <1>5 DEF knobs, Leave, Stages, call
<1>6. CASE Join
  BY <1>6 DEF knobs, Join, Joined, Values, Stages, call
<1>7. CASE Thought
  BY <1>7 DEF knobs, Thought, Stages, call
<1>8. CASE ThoughtEnds
  BY <1>8 DEF knobs, ThoughtEnds, Stages, call, clock
<1>9. CASE Answer
  BY <1>9 DEF knobs, Answer, Stages, call
<1>10. CASE Blob
  BY <1>10 DEF knobs, Blob, Stages, call, clock
<1>11. CASE Yielded
  BY <1>11 DEF knobs, Yielded, StopClock, End, Stages, call
<1>12. CASE Rounds
  BY <1>12 DEF knobs, Rounds, Values, Stages, clock, NothingRepaintsAfter,
     Free, LineRows, Meters, Text, LeftOpen
<1>13. CASE Connect
  BY <1>13 DEF knobs, Connect, Raise, End, StopClock, Stages, call
<1>14. CASE Arrives
  BY <1>14 DEF knobs, Arrives, StopClock, Stages, call
<1>15. CASE StreamEnds
  BY <1>15 DEF knobs, StreamEnds, StopClock, End, Raise, Stages
<1>16. CASE Submit
  BY <1>16 DEF knobs, Submit, Raise, End, StopClock, Stages, call
<1>17. CASE Poll
  BY <1>17 DEF knobs, Poll, Raise, End, StopClock, Stages, call
<1>18. CASE Fetch
  BY <1>18 DEF knobs, Fetch, Raise, End, StopClock, Stages, call
<1>19. CASE Interrupt
  BY <1>19 DEF knobs, Interrupt, End, StopClock, Stages
<1>20. CASE UNCHANGED vars
  BY <1>20 DEF knobs, vars, call, clock, Stages
<1>21. QED
  BY <1>1, <1>2, <1>3, <1>4, <1>5, <1>6, <1>7, <1>8, <1>9, <1>10, <1>11,
     <1>12, <1>13, <1>14, <1>15, <1>16, <1>17, <1>18, <1>19, <1>20
     DEF Next, Ticker, Showing, Waiting

\* Nobody is on the row whom the next writer would paint over.
LEMMA OwnersStep ==
    ASSUME IInv, [Next]_vars
    PROVE  Owners'
<1>1. CASE Wait
  BY <1>1 DEF knobs, Wait, IInv, Stages, Owners, Free, LineRows, Meters, Text,
     LeftOpen
<1>2. CASE Elapse
  BY <1>2 DEF knobs, Elapse, IInv, Owners, call
<1>3. CASE Wake
  BY <1>3 DEF knobs, Wake, IInv, Owners, call
<1>4. CASE Paint
  BY <1>4 DEF knobs, Paint, IInv, Stages, Owners, LineRows, Free, Meters, Text,
     LeftOpen
<1>5. CASE Leave
  BY <1>5 DEF knobs, Leave, IInv, Owners, call
<1>6. CASE Join
  BY <1>6 DEF knobs, Join, Joined, RowAfter, IInv, Values, Owners, call, Free,
     LineRows, Meters, Text, LeftOpen
<1>7. CASE Thought
  BY <1>7 DEF knobs, Thought, IInv, Values, Ways, Stages, Owners, call, clock,
     Meters, Free, LineRows, Text, LeftOpen
<1>8. CASE ThoughtEnds
  BY <1>8 DEF knobs, ThoughtEnds, Owners, Free, LineRows, Meters, Text, LeftOpen
<1>9. CASE Answer
  <2>1. CASE piped
    BY <1>9, <2>1 DEF knobs, Answer, IInv, Values, Stages, Owners, call, clock,
       Meters, Free, LineRows, Text, LeftOpen
  <2>2. CASE ~piped
    BY <1>9, <2>2 DEF knobs, Answer, IInv, Values, Ways, Stages, Owners, call,
       clock, Free, LineRows, Meters, Text, LeftOpen
  <2> QED
    BY <2>1, <2>2
<1>10. CASE Blob
  <2>1. CASE piped
    BY <1>10, <2>1 DEF knobs, Blob, IInv, Values, Stages, Owners, call, clock,
       Meters, Free, LineRows, Text, LeftOpen
  <2>2. CASE ~piped
    BY <1>10, <2>2 DEF knobs, Blob, IInv, Owners, call, clock
  <2> QED
    BY <2>1, <2>2
<1>11. CASE Yielded
  BY <1>11 DEF knobs, Yielded, StopClock, End, IInv, Owners, call
<1>12. CASE Rounds
  BY <1>12 DEF knobs, Rounds, IInv, Values, Stages, NothingRepaintsAfter,
     Owners, clock, Free, LineRows, Meters, Text, LeftOpen
<1>13. CASE Connect
  BY <1>13 DEF knobs, Connect, Raise, End, StopClock, IInv, Owners, call, clock
<1>14. CASE Arrives
  BY <1>14 DEF knobs, Arrives, StopClock, IInv, Owners, call
<1>15. CASE StreamEnds
  BY <1>15 DEF knobs, StreamEnds, StopClock, End, Raise, IInv, Owners, clock
<1>16. CASE Submit
  BY <1>16 DEF knobs, Submit, Raise, End, StopClock, IInv, Owners, call, clock
<1>17. CASE Poll
  BY <1>17 DEF knobs, Poll, Raise, End, StopClock, IInv, Owners, call, clock
<1>18. CASE Fetch
  BY <1>18 DEF knobs, Fetch, Raise, End, StopClock, IInv, Owners, call, clock
<1>19. CASE Interrupt
  BY <1>19 DEF knobs, Interrupt, End, StopClock, IInv, Owners
<1>20. CASE UNCHANGED vars
  BY <1>20 DEF knobs, vars, call, clock, IInv, Owners
<1>21. QED
  BY <1>1, <1>2, <1>3, <1>4, <1>5, <1>6, <1>7, <1>8, <1>9, <1>10, <1>11,
     <1>12, <1>13, <1>14, <1>15, <1>16, <1>17, <1>18, <1>19, <1>20
     DEF Next, Ticker, Showing, Waiting

\* A step that puts another writer on the row finds it ended.
LEMMA HandStep ==
    ASSUME IInv, [Next]_vars
    PROVE  Handover
<1>1. CASE Wait
  BY <1>1 DEF knobs, Wait, Handover
<1>2. CASE Elapse
  BY <1>2 DEF knobs, Elapse, Handover
<1>3. CASE Wake
  BY <1>3 DEF knobs, Wake, Handover
<1>4. CASE Paint
  BY <1>4 DEF knobs, Paint, IInv, Owners, Handover, Free, LineRows, Meters,
     Text, LeftOpen
<1>5. CASE Leave
  BY <1>5 DEF knobs, Leave, Handover
<1>6. CASE Join
  BY <1>6 DEF knobs, Join, RowAfter, IInv, Owners, LineRows, Handover, Free,
     Meters, Text, LeftOpen
<1>7. CASE Thought
  BY <1>7 DEF knobs, Thought, IInv, Owners, Handover, Free, LineRows, Meters,
     Text, LeftOpen
<1>8. CASE ThoughtEnds
  BY <1>8 DEF knobs, ThoughtEnds, Handover, Free, LineRows, Meters, Text,
     LeftOpen
<1>9. CASE Answer
  <2>1. CASE piped
    BY <1>9, <2>1 DEF knobs, Answer, IInv, Values, Owners, Meters, Handover,
       Free, LineRows, Text, LeftOpen
  <2>2. CASE ~piped
    BY <1>9, <2>2 DEF knobs, Answer, IInv, Values, Owners, Meters, Handover,
       Free, LineRows, Text, LeftOpen
  <2> QED
    BY <2>1, <2>2
<1>10. CASE Blob
  <2>1. CASE piped
    BY <1>10, <2>1 DEF knobs, Blob, IInv, Values, Ways, Owners, Meters,
       Handover, Free, LineRows, Text, LeftOpen
  <2>2. CASE ~piped
    BY <1>10, <2>2 DEF knobs, Blob, Handover
  <2> QED
    BY <2>1, <2>2
<1>11. CASE Yielded
  BY <1>11 DEF knobs, Yielded, StopClock, End, Handover
<1>12. CASE Rounds
  BY <1>12 DEF knobs, Rounds, Handover, Free, LineRows, Meters, Text, LeftOpen
<1>13. CASE Connect
  BY <1>13 DEF knobs, Connect, Raise, End, StopClock, Handover
<1>14. CASE Arrives
  BY <1>14 DEF knobs, Arrives, StopClock, Handover
<1>15. CASE StreamEnds
  BY <1>15 DEF knobs, StreamEnds, StopClock, End, Raise, Handover
<1>16. CASE Submit
  BY <1>16 DEF knobs, Submit, Raise, End, StopClock, Handover
<1>17. CASE Poll
  BY <1>17 DEF knobs, Poll, Raise, End, StopClock, Handover
<1>18. CASE Fetch
  BY <1>18 DEF knobs, Fetch, Raise, End, StopClock, Handover
<1>19. CASE Interrupt
  BY <1>19 DEF knobs, Interrupt, End, StopClock, Handover
<1>20. CASE UNCHANGED vars
  BY <1>20 DEF knobs, vars, Handover
<1>21. QED
  BY <1>1, <1>2, <1>3, <1>4, <1>5, <1>6, <1>7, <1>8, <1>9, <1>10, <1>11,
     <1>12, <1>13, <1>14, <1>15, <1>16, <1>17, <1>18, <1>19, <1>20
     DEF Next, Ticker, Showing, Waiting

----------------------------------------------------------------------------
\* A new call has neither a thread nor anything on its row.
LEMMA InitInv == Init => IInv
<1> SUFFICES ASSUME Init PROVE IInv
  OBVIOUS
<1>1. Booleans
  BY DEF Init, Booleans
<1>2. Values
  BY ProgressAssumption DEF Init, Values, Fresh, Meters, LineRows, Text, Free
<1>3. Ways /\ Stages /\ Owners /\ NothingRepaintsAfter
  BY DEF Init, Ways, Stages, Owners, NothingRepaintsAfter, Free, LineRows,
     Meters, Text, LeftOpen
<1> QED
  BY <1>1, <1>2, <1>3 DEF IInv

\* The strengthening is inductive: who is on the row, given where the main
\* thread is and whether the clock's thread lives.
THEOREM Invariance == Spec => []IInv
<1>1. IInv /\ [Next]_vars => IInv'
  <2> SUFFICES ASSUME IInv, [Next]_vars PROVE IInv'
    OBVIOUS
  <2>1. Booleans' /\ Values' /\ Ways'
    BY BooleansStep, ValuesStep, WaysStep DEF IInv
  <2>2. Stages' /\ Owners' /\ NothingRepaintsAfter'
    BY StagesStep, OwnersStep, EndedStep DEF IInv
  <2> QED
    BY <2>1, <2>2 DEF IInv
<1> QED
  BY InitInv, <1>1, PTL DEF Spec

\* Every variable of Progress keeps its type: the polls stop at POLL_S and the
\* rounds at MAX_TOOL_ROUNDS (Line, dic()).
THEOREM TypeCorrect == Spec => []TypeOK
<1>1. IInv => TypeOK
  BY DEF IInv, Booleans, Values, TypeOK
<1> QED
  BY Invariance, <1>1, PTL

\* A call that ended as dic() handles it leaves no clock running and no line
\* or meter open (close_meters()).
THEOREM NothingLeft == Spec => []NothingRepaintsAfter
<1>1. IInv => NothingRepaintsAfter
  BY DEF IInv
<1> QED
  BY Invariance, <1>1, PTL

\* Whoever paints finds the row ended, or its own, or the clock's where the
\* line's own status follows it (stop_clock() joins before it returns); but for
\* printed reasoning and, under -q, the answer of an earlier round, which
\* nothing ends (Rounds, Thought).
THEOREM RowsApart == Spec => RowChangesHands
<1>1. IInv /\ [Next]_vars => [Handover]_vars
  BY HandStep
<1>2. Spec => [][Handover]_vars
  BY Invariance, <1>1, PTL DEF Spec
<1> QED
  BY <1>2 DEF RowChangesHands, Handover
=============================================================================
