---------------------------- MODULE MCAlgorithms ----------------------------
(***************************************************************************)
(* The pure algorithms over bounded inputs: every step takes one case, and *)
(* the invariants say of the case that was taken what its algorithm does.  *)
(***************************************************************************)
EXTENDS Sequences, Integers, FiniteSets, SequencesExt

Placement == INSTANCE HunkPlacement
Chain == INSTANCE Replay
Wire == INSTANCE Streams

VARIABLE case

Idle == [kind |-> "idle"]

----------------------------------------------------------------------------
(* Files of up to four lines of two texts, and one or two hunks cut out of  *)
(* them; the hunk's first line may have drifted, and its line number too.   *)
Line(text, trail) == [text |-> text, trail |-> trail]
Added == Line("new", FALSE)
Files == UNION {[1..n -> {Line(t, FALSE) : t \in {"a", "b"}}] : n \in 1..4}
Shapes == {<<"+">>, <<"-">>, <<" ", "+">>, <<"-", "+">>, <<" ", "-">>,
           <<" ", "-", "+", " ">>}
Size(tags) == Len(SelectSeq(tags, LAMBDA t : t # "+"))
Cuts(file) == {<<[at |-> a, tags |-> s]>> : a \in 0..Len(file), s \in Shapes}
Fits(file, cuts) == \A i \in DOMAIN cuts :
    /\ cuts[i].at + Size(cuts[i].tags) <= Len(file)
    /\ i > 1 => cuts[i - 1].at + Size(cuts[i - 1].tags) <= cuts[i].at
HunkSets(file) ==
    {c \in Cuts(file) \cup {x \o y : x \in Cuts(file), y \in Cuts(file)} :
        Fits(file, c)}
Half == <<1, 2>>

Drift(line, drift) ==
    IF drift = "none" \/ line = Added THEN line
    ELSE IF drift = "trail" THEN [line EXCEPT !.trail = TRUE]
    ELSE [line EXCEPT !.text = "a"]
Drifted(hunk, drift, shift) ==
    [start |-> hunk.start + shift,
     body |-> [j \in DOMAIN hunk.body |->
                 IF j > 1 THEN hunk.body[j]
                 ELSE [hunk.body[j] EXCEPT !.line = Drift(@, drift)]]]

TakeHunks ==
    \E file \in Files : \E cuts \in HunkSets(file),
       drift \in {"none", "trail", "text"}, shift \in -1..1 :
        case' = [kind |-> "hunks", file |-> file,
                 at |-> [i \in DOMAIN cuts |-> cuts[i].at],
                 exact |-> drift = "none" /\ shift = 0,
                 hunks |-> [i \in DOMAIN cuts |->
                              Drifted(Placement!Cut(file, cuts[i].at,
                                                    cuts[i].tags, Added),
                                      drift, shift)]]

----------------------------------------------------------------------------
(* Up to three calls, each in a protocol of its own and with up to two      *)
(* rounds, each going on from any round of the one before it; of the earlier *)
(* ones any may be a job that made a file, which may have gone since.       *)
Round(call, number, said, thinks, asks) ==
    [text |-> IF said THEN ToString(<<"answer", call, number>>) ELSE "",
     thought |-> IF thinks THEN <<"thought">> ELSE << >>,
     files |-> << >>, calls |-> [k \in 1..asks |-> <<call, number, k>>]]
Prompt(call) == [text |-> ToString(<<"prompt", call>>),
                 files |-> IF call = 1 THEN <<"file">> ELSE << >>]

Answers(call) ==
    {<<Round(call, 1, TRUE, thinks, 0)>> : thinks \in BOOLEAN}
Loops(call) ==
    {<<Round(call, 1, said, thinks, asks), Round(call, 2, TRUE, FALSE, 0)>> :
        said \in BOOLEAN, thinks \in BOOLEAN, asks \in 1..2}
CallsOf(call) ==
    {c \in [api : Chain!Apis, prompt : {Prompt(call)},
            rounds : Answers(call) \cup Loops(call), kept : 1..2] :
        /\ c.kept <= Len(c.rounds)
        /\ c.api = "responses" => Len(c.rounds) = 1
        /\ c.api = "chat" => c.rounds[1].thought = << >>}

Job(call) ==
    [api |-> "job", prompt |-> Prompt(call), kept |-> 1,
     rounds |-> <<[Round(call, 1, FALSE, FALSE, 0)
                      EXCEPT !.files = <<ToString(<<"image", call>>)>>]>>]
Chains ==
    LET Earlier(call) == CallsOf(call) \cup {Job(call)}
    IN {<<c>> : c \in CallsOf(1)}
       \cup {<<b, c>> : b \in Earlier(1), c \in CallsOf(2)}
       \cup {<<a, b, c>> : a \in Earlier(1), b \in Earlier(2), c \in CallsOf(3)}
FilesOf(calls) ==
    UNION {ToSet(calls[i].prompt.files \o calls[i].rounds[1].files) :
              i \in DOMAIN calls}

TakeChain ==
    \E calls \in Chains : \E gone \in {{}} \cup {{f} : f \in FilesOf(calls)} :
        case' = [kind |-> "chain", calls |-> calls, gone |-> gone]

----------------------------------------------------------------------------
(* Replies of text, thinking and up to two calls; the pieces of chat's calls *)
(* come in any order that keeps those of each call in theirs.                *)
Arguments == {<< >>, <<"}">>, <<"{", "}">>}
Block(type, id, text, input) ==
    [type |-> type, id |-> id, text |-> text, input |-> input,
     signature |-> IF type = "thinking" THEN <<"s">> ELSE << >>,
     scratch |-> FALSE, json |-> << >>]
Thinking == Block("thinking", "", <<"h", "m">>, << >>)
Saying == Block("text", "", <<"h", "i">>, << >>)
Asking(number, arguments) ==
    Block("tool_use", <<"x", "y">>[number], << >>, arguments)
Blocks ==
    {a \o b \o c : a \in {<< >>, <<Thinking>>}, b \in {<< >>, <<Saying>>},
                   c \in UNION {{[i \in 1..n |-> Asking(i, f[i])] :
                                   f \in [1..n -> Arguments]} : n \in 0..2}}

Deltas(delta, pieces) == [i \in DOMAIN pieces |->
    [type |-> "delta", delta |-> delta, piece |-> pieces[i]]]
BlockFrames(block) ==
    <<[type |-> "block", block |-> block.type, id |-> block.id]>>
    \o Deltas("text", block.text) \o Deltas("signature", block.signature)
    \o Deltas("json", block.input) \o <<[type |-> "close"]>>
AnthropicFrames(blocks) ==
    <<[type |-> "start", usage |-> <<1, 0>>]>>
    \o FlattenSeq([i \in DOMAIN blocks |-> BlockFrames(blocks[i])])
    \o <<[type |-> "stop", output |-> 2, reason |-> "end"]>>

Of(blocks, type) == SelectSeq(blocks, LAMBDA b : b.type = type)
Pieces(blocks, type) ==
    FlattenSeq([i \in DOMAIN Of(blocks, type) |-> Of(blocks, type)[i].text])
Called(blocks) ==
    LET asked == Of(blocks, "tool_use")
    IN [i \in DOMAIN asked |-> [id |-> asked[i].id, arguments |-> asked[i].input]]

CallFrames(call, index) ==
    <<[type |-> "call", index |-> index, id |-> call.id, arguments |-> << >>]>>
    \o [i \in DOMAIN call.arguments |->
          [type |-> "call", index |-> index, id |-> "",
           arguments |-> <<call.arguments[i]>>]]
Mixed(one, two) ==
    LET n == Len(one) + Len(two)
        Before(places, i) == Cardinality({p \in places : p <= i})
    IN {[i \in 1..n |-> IF i \in places THEN one[Before(places, i)]
                                        ELSE two[i - Before(places, i)]] :
            places \in {p \in SUBSET (1..n) : Cardinality(p) = Len(one)}}
ChatFrames(blocks) ==
    LET calls == Called(blocks)
        Frames(i) == IF i \in DOMAIN calls THEN CallFrames(calls[i], i) ELSE << >>
        Frame(type) == [i \in DOMAIN Pieces(blocks, type) |->
                           [type |-> type, piece |-> Pieces(blocks, type)[i]]]
        Usage == <<[type |-> "usage", usage |-> <<1, 2>>]>>
    IN {Frame("thinking") \o Frame("text") \o m \o Usage :
           m \in Mixed(Frames(1), Frames(2))}

TakeChat == \E blocks \in Blocks : \E frames \in ChatFrames(blocks) :
    case' = [kind |-> "stream", api |-> "chat", frames |-> frames,
             sent |-> [calls |-> Called(blocks),
                       raw |-> <<[text |-> Pieces(blocks, "text"),
                                  calls |-> Called(blocks)]>>]]
TakeAnthropic == \E blocks \in Blocks :
    case' = [kind |-> "stream", api |-> "anthropic",
             frames |-> AnthropicFrames(blocks),
             sent |-> [calls |-> Called(blocks), raw |-> blocks]]
TakeResponse == \E blocks \in Blocks : \E type \in {"completed", "incomplete"} :
    case' = [kind |-> "stream", api |-> "responses",
             frames |-> <<[type |-> "delta"],
                          [type |-> type, output |-> blocks, usage |-> <<1, 2>>,
                           reason |-> "max_output_tokens"]>>,
             sent |-> [calls |-> << >>, raw |-> blocks]]

----------------------------------------------------------------------------
Init == case = Idle

Next == /\ case = Idle
        /\ \/ TakeHunks
           \/ TakeChain
           \/ TakeChat \/ TakeAnthropic \/ TakeResponse

Spec == Init /\ [][Next]_case

\* HunkPlacement!CutApplies: a patch cut from a file makes what it declares,
\* however often its lines are repeated (locate(), splice(), apply_hunks()).
PatchMakesWhatItDeclares ==
    case.kind = "hunks" /\ case.exact =>
        Placement!CutApplies(case.file, case.hunks, case.at, Half)

\* HunkPlacement!FileKept: a patch that has drifted changes no line that it
\* does not remove, wherever it was put (splice()).
OtherLinesKept ==
    case.kind = "hunks" =>
        Placement!FileKept(case.file, case.hunks, Half, Added)

\* Replay!ReplaysAlone: the stored rows alone make the request that a live
\* call would have gone on with (turns_from_rows(), insert(), breakpoint()).
ReplaysAlone ==
    case.kind = "chain" =>
        Chain!ReplaysAlone(case.calls, [text |-> "more", files |-> << >>],
                           case.gone)

\* Replay!AnswersFollow: no request has a call without its answer or an
\* answer without its call, and none loses a file (turns_from_rows(), build()).
AnswersFollow ==
    case.kind = "chain" => Chain!AnswersFollow(case.calls, case.gone)

\* Streams!RebuiltAsSent: the calls and the replayed answer are the server's
\* (parse(), calls(), finish()).
RebuiltAsSent ==
    case.kind = "stream" => Wire!RebuiltAsSent(case.api, case.frames, case.sent)
=============================================================================
