------------------------------ MODULE Progress ------------------------------
(***************************************************************************)
(* What a call shows while it waits: tty.Line with the thread of its ttft  *)
(* clock, the meters of tty.pv_update, and the two ways a call waits, for  *)
(* the frames of a stream (client.events and the loop of client.dic) and   *)
(* for a job that is polled (call() of fal, openai_videos, openai_images). *)
(*                                                                         *)
(* `row' is the writer whose text stands on the terminal's last row and is *)
(* not ended: the line's clock or status, a meter, the answer, reasoning   *)
(* that is printed, the answer of an earlier round, or nobody.             *)
(***************************************************************************)
EXTENDS Integers, Sequences

CONSTANTS
    Adaptors,       \* of "stream", "fal", "videos", "images"
    MaxPolls,       \* how many polls fit into POLL_S
    MaxRounds       \* rounds of a tool loop

ASSUME ProgressAssumption ==
    /\ Adaptors \subseteq {"stream", "fal", "videos", "images"}
    /\ MaxPolls \in Nat /\ MaxRounds \in Nat \ {0}

Free == "nobody"
LineRows == {"clock", "status"}
Meters == {"thinking", "response"}
Text == {"answer", "reasoning"}

VARIABLES
    adaptor,    \* how this call waits
    quiet,      \* -q or DIC_VERBOSITY=0: report() writes nothing
    metered,    \* whether reasoning is metered: not with --no-pv-thinking
    piped,      \* whether the answer is metered, stdout being no terminal
    main,       \* where the main thread is
    after,      \* what it goes on to when the clock's thread has ended
    round,
    polls,
    thread,     \* the clock's: none, waiting in stop.wait(), awake, gone
    stop,       \* its event is set
    late,       \* WAIT_DELAY is over
    showing,    \* Line.clock
    row,
    meter,      \* each meter: fresh, open, done
    outcome

knobs == <<adaptor, quiet, metered, piped>>
call == <<knobs, round, polls, outcome>>
clock == <<thread, stop, late, showing>>
vars == <<call, main, after, clock, row, meter>>

----------------------------------------------------------------------------
Fresh == [m \in Meters |-> "fresh"]

Init ==
    /\ adaptor \in Adaptors
    /\ quiet \in BOOLEAN /\ metered \in BOOLEAN /\ piped \in BOOLEAN
    /\ main = "round" /\ after = "none" /\ round = 1 /\ polls = 0
    /\ thread = "none" /\ stop = FALSE /\ late = FALSE /\ showing = FALSE
    /\ row = Free /\ meter = Fresh /\ outcome = "none"

\* Line.restart(), Line.wait(): a clock and a thread of this round's own, where
\* anything is metered.
Wait ==
    /\ main = "round"
    /\ thread' = (IF metered \/ piped THEN "waiting" ELSE "none")
    /\ stop' = FALSE /\ late' = FALSE
    /\ main' = IF adaptor = "stream" THEN "connecting" ELSE "submitting"
    /\ polls' = 0 /\ meter' = Fresh
    /\ UNCHANGED <<knobs, round, outcome, after, showing, row>>

----------------------------------------------------------------------------
(* The thread of Line.wait()                                               *)
Elapse ==
    /\ thread # "none" /\ ~late
    /\ late' = TRUE
    /\ UNCHANGED <<call, main, after, thread, stop, showing, row, meter>>

\* stop.wait(0.1) timed out: the clock is going to paint.
Wake ==
    /\ thread = "waiting" /\ ~stop /\ late
    /\ thread' = "awake" /\ showing' = TRUE
    /\ UNCHANGED <<call, main, after, stop, late, row, meter>>

Paint ==
    /\ thread = "awake"
    /\ row' = "clock" /\ thread' = "waiting"
    /\ UNCHANGED <<call, main, after, stop, late, showing, meter>>

Leave ==
    /\ thread = "waiting" /\ stop
    /\ thread' = "gone"
    /\ UNCHANGED <<call, main, after, stop, late, showing, row, meter>>

Ticker == Wake \/ Paint \/ Leave

----------------------------------------------------------------------------
(* Line.stop_clock() and what its callers do with the line                 *)

\* The event is set; with no clock running there is nothing to wait for.
StopClock(then) ==
    /\ stop' = (thread # "none" \/ stop)
    /\ main' = "joining" /\ after' = then
    /\ UNCHANGED <<thread, late, showing, row, meter>>

\* Mutated Joined: the thread is told to stop and not waited for.
JoinedAtOnce == TRUE

\* thread.join()
Joined == thread \in {"none", "gone"}

\* pv_update(final): a meter that has painted ends its row.
Closed(m) == [m EXCEPT !["thinking"] = IF @ = "open" THEN "done" ELSE @,
                       !["response"] = IF @ = "open" THEN "done" ELSE @]

\* Mutated RowAfter: first_token() ends the line only if its clock showed.
RowAfterClock(then, owner) ==
    IF then = "status" THEN "status"
    ELSE IF then = "ended" /\ owner \in Meters THEN Free
    ELSE IF owner = "clock" THEN Free ELSE owner

\* first_token() ends the line whatever it shows; status() ends the clock's
\* and goes on painting the same row.
RowAfter(then, owner) ==
    IF then = "status" THEN "status"
    ELSE IF then = "ended" /\ owner \in Meters THEN Free
    ELSE IF owner \in LineRows THEN Free ELSE owner

\* The line forgets its thread; one that still ran would go on.
Join ==
    /\ main = "joining" /\ Joined
    /\ thread' = IF thread = "gone" THEN "none" ELSE thread
    /\ stop' = (stop /\ thread' # "none")
    /\ showing' = FALSE
    /\ row' = RowAfter(after, IF showing THEN "clock" ELSE row)
    /\ meter' = IF after = "ended" THEN Closed(meter) ELSE meter
    /\ main' = IF after = "status" THEN "polling" ELSE after
    /\ after' = "none"
    /\ UNCHANGED <<call, late>>

----------------------------------------------------------------------------
(* The ways out.  A DicError and a ^C are handled by dic(), which closes    *)
(* the meters; any other exception leaves the function as it is.            *)
End(how) ==
    /\ StopClock("ended")
    /\ outcome' = how /\ UNCHANGED <<knobs, round, polls>>

Raise ==
    /\ main' = "ended" /\ outcome' = "raised"
    /\ UNCHANGED <<knobs, round, polls, after, clock, row, meter>>

Blocked == {"connecting", "streaming", "submitting", "polling", "fetching",
            "joining"}
Interrupt ==
    /\ main \in Blocked /\ outcome \in {"none", "answered", "tools"}
    /\ End("cancelled")

\* The round asked for tools.  The report of each ends the row; with no report
\* an answer stays where it is, the answer of an earlier round now.
Rounds ==
    /\ main = "ended" /\ outcome = "tools"
    /\ main' = "round" /\ round' = round + 1 /\ outcome' = "none"
    /\ row' = IF ~quiet THEN Free ELSE IF row = "answer" THEN "earlier" ELSE row
    /\ UNCHANGED <<knobs, polls, after, clock, meter>>

----------------------------------------------------------------------------
(* A stream                                                                *)

\* events(): nothing is caught; a reply that is no 200 yields no event.
Connect ==
    /\ main = "connecting"
    /\ \/ Raise
       \/ End("failed")
       \/ main' = "streaming" /\ UNCHANGED <<call, after, clock, row, meter>>

\* An event with a chunk ends the wait.  Bound: a server that reasons does so
\* before it answers in that round, or below an answer whose row has ended.
Arrives ==
    /\ main = "streaming"
    /\ UNCHANGED call
    /\ \/ StopClock("answer")
       \/ meter["response"] = "fresh" /\ row # "answer" /\ StopClock("thought")

\* pv_update(pv, chunk): a meter that is done paints no more.  With no meter the
\* reasoning itself is written.
Thought ==
    /\ main = "thought" /\ main' = "streaming"
    /\ \/ ~metered /\ row' \in {"reasoning", Free} /\ UNCHANGED meter
       \/ metered /\ meter["thinking"] = "done" /\ UNCHANGED <<row, meter>>
       \/ /\ metered /\ meter["thinking"] # "done"
          /\ row' = "thinking" /\ meter' = [meter EXCEPT !["thinking"] = "open"]
    /\ UNCHANGED <<call, after, clock>>

\* Below a meter the answer starts on a row of its own; it is metered or printed.
ThoughtEnds ==
    /\ main = "answer" /\ meter["thinking"] = "open"
    /\ meter' = [meter EXCEPT !["thinking"] = "done"]
    /\ row' = Free
    /\ UNCHANGED <<call, main, after, clock>>

Answer ==
    /\ main = "answer" /\ meter["thinking"] # "open"
    /\ main' = "streaming"
    /\ meter' = [meter EXCEPT !["response"] = IF piped THEN "open" ELSE @]
    /\ row' \in IF piped THEN {"response"} ELSE {"answer", Free}
    /\ UNCHANGED <<call, after, clock>>

\* The end of the reply, a frame that is an error or that is not JSON.
StreamEnds ==
    /\ main = "streaming"
    /\ \/ End("answered") \/ End("failed") \/ Raise
       \/ round < MaxRounds /\ End("tools")

----------------------------------------------------------------------------
(* A job.  fetch() makes a DicError of what HTTP and urllib report.         *)
Submit ==
    /\ main = "submitting"
    /\ \/ Raise \/ End("failed")
       \/ /\ main' = IF adaptor = "images" THEN "fetching" ELSE "polling"
          /\ UNCHANGED <<call, after, clock, row, meter>>

\* Mutated Overdue: the polls are not counted.
OverdueNever == FALSE

\* time.time() - start > POLL_S
Overdue == polls >= MaxPolls

Poll ==
    /\ main = "polling"
    /\ \/ Raise
       \/ End("failed")             \* the job, or the request for its status
       \/ main' = "fetching" /\ UNCHANGED <<call, after, clock, row, meter>>
       \/ Overdue /\ End("failed")
       \/ /\ ~Overdue /\ StopClock("status")
          /\ polls' = IF polls < MaxPolls THEN polls + 1 ELSE polls
          /\ UNCHANGED <<knobs, round, outcome>>

\* The result is yielded, then its bytes are fetched and yielded as a blob.
\* fal alone catches nothing but an HTTPError; the images are in the result.
Fetch ==
    /\ main = "fetching"
    /\ \/ Raise
       \/ adaptor # "images" /\ End("failed")
       \/ adaptor = "images" /\ End("answered")     \* no image at all
       \/ StopClock("blob") /\ UNCHANGED call

Blob ==
    /\ main = "blob"
    /\ IF piped THEN row' = "response" /\ meter' = [meter EXCEPT !["response"] = "open"]
                ELSE UNCHANGED <<row, meter>>
    /\ main' = "yielded"
    /\ UNCHANGED <<call, after, clock>>

Yielded ==
    /\ main = "yielded"
    /\ \/ adaptor = "images" /\ StopClock("blob") /\ UNCHANGED call
       \/ End("answered")

----------------------------------------------------------------------------
Waiting == Connect \/ Arrives \/ StreamEnds \/ Submit \/ Poll \/ Fetch
Showing == Wait \/ Join \/ Thought \/ ThoughtEnds \/ Answer \/ Blob \/ Yielded \/ Rounds

Next == Elapse \/ Ticker \/ Showing \/ Waiting \/ Interrupt

\* The scheduler runs both threads, and a service answers each request for a
\* job's status.  A server may stream, or say nothing, for ever.
Fairness ==
    /\ WF_vars(Ticker) /\ WF_vars(Showing)
    /\ WF_vars(Submit) /\ WF_vars(Poll) /\ WF_vars(Fetch)

Spec == Init /\ [][Next]_vars /\ Fairness

----------------------------------------------------------------------------
\* The values of the variables.
TypeOK ==
    /\ adaptor \in Adaptors
    /\ quiet \in BOOLEAN /\ metered \in BOOLEAN /\ piped \in BOOLEAN
    /\ main \in Blocked \cup {"round", "thought", "answer", "blob", "yielded", "ended"}
    /\ after \in {"none", "status", "thought", "answer", "blob", "ended"}
    /\ round \in 1..MaxRounds /\ polls \in 0..MaxPolls
    /\ thread \in {"none", "waiting", "awake", "gone"}
    /\ stop \in BOOLEAN /\ late \in BOOLEAN /\ showing \in BOOLEAN
    /\ row \in {Free, "earlier"} \cup LineRows \cup Meters \cup Text
    /\ meter \in [Meters -> {"fresh", "open", "done"}]
    /\ outcome \in {"none", "answered", "failed", "cancelled", "raised", "tools"}

\* No writer takes the row from another: between two of them the row is ended
\* ("no two writers fight over one row of the terminal", tty.py:166).  The
\* clock's thread is the one that could: it may be past its look at the event
\* when the main thread sets it.  The line's own status follows its clock.
\* Two rows are not ended, and only where a user asked for it: reasoning that is
\* printed and not metered, and under -q the answer of a round that wanted tools.
RowChangesHands ==
    [][row # Free /\ row' \in (LineRows \cup Meters \cup Text) \ {row}
          => \/ row = "clock" /\ row' = "status"
             \/ row = "reasoning" /\ ~metered
             \/ row = "earlier" /\ quiet]_vars

\* What tty.py:166 promises of an answer, "the answer never scrolls away and no
\* two writers fight over one row": nothing that repaints takes its row.  Under
\* -q the clock of the next round does, the row of a round that asked for tools
\* having been ended by report() alone.
AnswerNotPaintedOver ==
    [][(row \in {"answer", "earlier"}) => row' \notin LineRows \cup Meters]_vars

\* A call that ended in any way dic() handles leaves no thread and no line or
\* meter open behind ("so nothing repaints after", close_meters()): what may
\* stand unended is text.
NothingRepaintsAfter ==
    main = "ended" /\ outcome # "raised" =>
        /\ thread = "none"
        /\ row \notin LineRows \cup Meters /\ "open" \notin {meter[m] : m \in Meters}

\* A job is not waited for for ever: one that stays in its queue is given up
\* after POLL_S, and the main thread never waits for its own clock for ever.
JobEnds == <>(adaptor # "stream" /\ adaptor # "images" => main = "ended")
=============================================================================
