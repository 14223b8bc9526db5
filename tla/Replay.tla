------------------------------- MODULE Replay -------------------------------
(***************************************************************************)
(* The conversation a request carries, and how the rows of the tree become *)
(* one again: store.turns_from_rows and store.normalize, build() of the    *)
(* three chat protocols, Anthropic's cache breakpoint, and the rounds that *)
(* client.dic sends and stores.                                            *)
(*                                                                         *)
(* A message is a role and a sequence of parts; what the provider sent is  *)
(* `raw', a sequence of messages that is stored and replayed verbatim.     *)
(***************************************************************************)
EXTENDS Integers, Sequences, SequencesExt, FiniteSetsExt

\* The chat protocols.  An earlier call may also have been a "job", one of the
\* adaptors that answer with files and are sent the newest prompt alone.
Apis == {"chat", "anthropic", "responses"}

Part(kind, value) == [kind |-> kind, value |-> value]
Text(value) == Part("text", value)
NoText == Text("")
Message(role, parts) == [role |-> role, parts |-> parts]
Spoken(role, blocks) == [role |-> role, blocks |-> blocks, raw |-> << >>]
Verbatim(turn) == turn.raw # << >>
Parts(kind, values) == [i \in DOMAIN values |-> Part(kind, values[i])]

\* finish(): a chat message of text and calls, Anthropic's own blocks, the
\* output items of a response one by one, or a job's record.
Raw(api, round) ==
    LET thought == Parts("thinking", round.thought)
        said == <<Text(round.text)>>
        asked == Parts("call", round.calls)
        whole == thought \o said \o asked
    IN CASE api = "chat" -> <<Message("assistant", said \o asked)>>
         [] api = "anthropic" -> <<Message("assistant", whole)>>
         [] api = "responses" ->
                [i \in DOMAIN whole |-> Message("assistant", <<whole[i]>>)]
         [] api = "job" -> <<Message("assistant", Parts("job", round.files))>>

\* Mutated RowPrompt: every round of a call stores its prompt.
RowPromptEveryRound(number, prompt) == prompt

\* insert(): only the first round carries the prompt and the attachments.
RowPrompt(number, prompt) ==
    IF number = 1 THEN prompt ELSE [text |-> "", files |-> << >>]

Row(api, number, prompt, round) ==
    [api |-> api, prompt |-> RowPrompt(number, prompt), text |-> round.text,
     raw |-> Raw(api, round), outputs |-> round.files, results |-> round.calls]

PromptTurn(prompt) ==
    Spoken("user", Parts("file", prompt.files) \o <<Text(prompt.text)>>)
ResultsTurn(results) == Spoken("user", Parts("result", results))
RawTurn(raw) == [role |-> "assistant", blocks |-> << >>, raw |-> raw]

\* Mutated KeptResults: the results stay when the calls are gone.
KeptResultsAlways(row, api) == row.results

\* Results are replayed only with the calls they answer.
KeptResults(row, api) == IF row.api = api THEN row.results ELSE << >>

\* file_block() of each file a row names, whether it is sent or not: one that
\* has gone is a DicError, and nothing is sent.
Readable(rows, gone) ==
    \A i \in DOMAIN rows :
        gone \cap ToSet(rows[i].prompt.files \o rows[i].outputs) = {}

\* turns_from_rows() of rows whose files can be read
TurnsFromRows(rows, api) ==
    FlattenSeq([i \in DOMAIN rows |->
        LET row == rows[i]
            reply == IF row.api = api THEN RawTurn(row.raw)
                     ELSE Spoken("assistant", <<Text(row.text)>>
                                              \o Parts("file", row.outputs))
            results == KeptResults(row, api)
        IN <<PromptTurn(row.prompt), reply>>
           \o (IF results = << >> THEN << >> ELSE <<ResultsTurn(results)>>)])

\* normalize(): no empty text, and turns of one role are one, but for raw ones.
Normalize(turns) ==
    LET Add(done, turn) ==
            LET blocks == SelectSeq(turn.blocks, LAMBDA b : b # NoText)
                joins == /\ done # << >>
                         /\ Last(done).role = turn.role
                         /\ ~Verbatim(Last(done))
            IN IF Verbatim(turn) THEN Append(done, turn)
               ELSE IF blocks = << >> THEN done
               ELSE IF joins
                    THEN Append(Front(done),
                                [Last(done) EXCEPT !.blocks = @ \o blocks])
               ELSE Append(done, [turn EXCEPT !.blocks = blocks])
    IN FoldLeft(Add, << >>, turns)

\* Chat: each result is a message of its own, above the text of its turn.
ChatMessages(role, results, parts) ==
    [i \in DOMAIN results |-> Message("tool", <<results[i]>>)]
    \o (IF parts # << >> \/ results = << >> THEN <<Message(role, parts)>>
                                            ELSE << >>)

\* build(): a response has no place for the results of tools.
Messages(api, turn) ==
    LET Of(b) == b.kind = "result"
        results == SelectSeq(turn.blocks, Of)
        parts == SelectSeq(turn.blocks, LAMBDA b : ~Of(b))
    IN IF Verbatim(turn) THEN turn.raw
       ELSE CASE api = "chat" -> ChatMessages(turn.role, results, parts)
              [] api = "anthropic" -> <<Message(turn.role, turn.blocks)>>
              [] api = "responses" -> <<Message(turn.role, parts)>>

Build(api, turns) ==
    FlattenSeq([i \in DOMAIN turns |-> Messages(api, turns[i])])

\* breakpoint(), mark(): the last message with content carries the breakpoint.
\* It is set on the request and never on what is stored.
Breakpoint(body) == Max({i \in DOMAIN body : body[i].parts # << >>})

----------------------------------------------------------------------------
\* dic(): the turns the rounds of one call are sent with; a later round has
\* the rounds before it as they came, and nothing is normalized again.
Opening(rows, api, prompt) ==
    Normalize(Append(TurnsFromRows(rows, api), PromptTurn(prompt)))

LiveTurns(rows, call, number) ==
    Opening(rows, call.api, call.prompt)
    \o FlattenSeq([i \in 1..(number - 1) |->
                      <<RawTurn(Raw(call.api, call.rounds[i])),
                        ResultsTurn(call.rounds[i].calls)>>])

Live(rows, call, number) == Build(call.api, LiveTurns(rows, call, number))

\* The rows of an answered call, up to the one the next call goes on from: the
\* last with -c, any with --mid.
RowsOf(call) == [i \in 1..call.kept |->
                    Row(call.api, i, call.prompt, call.rounds[i])]
RowsOfAll(calls) == FlattenSeq([i \in DOMAIN calls |-> RowsOf(calls[i])])

\* The parts of a body in order.
Flat(body) == FlattenSeq([i \in DOMAIN body |-> body[i].parts])
Kind(body, kind) == SelectSeq(Flat(body), LAMBDA p : p.kind = kind)

\* Every body of the last of `calls': none if a file it goes on from has gone.
Bodies(calls, gone) ==
    LET call == Last(calls)
        rows == RowsOfAll(Front(calls))
    IN [n \in {r \in DOMAIN call.rounds : Readable(rows, gone)} |->
           Live(rows, call, n)]

----------------------------------------------------------------------------
\* A call that goes on from an answer in the same protocol sends what the last
\* round of that answer was sent with, its answer and the prompt: "the
\* conversation they form replays out of the tree alone" (insert() in dic()).
\* So nothing under a breakpoint changes, and the whole request is under it
\* ("a cache read of everything above it", breakpoint()).
ReplaysAlone(calls, prompt, gone) ==
    LET call == Last(calls)
        last == Last(call.rounds)
        sent == Bodies(calls, gone)[Len(call.rounds)]
        next == Build(call.api, Opening(RowsOfAll(calls), call.api, prompt))
    IN call.kept = Len(call.rounds) /\ Readable(RowsOfAll(calls), gone) =>
       /\ next = sent \o Raw(call.api, last)
                      \o Build(call.api, <<PromptTurn(prompt)>>)
       /\ call.api = "anthropic" => Breakpoint(sent) = Len(sent)

\* What a request of the n-th round has to carry, said of the calls themselves:
\* the tool calls of rounds of its own protocol; the files of every prompt, and
\* of every answer of another protocol.
CallsCarried(calls, n) ==
    LET rows == RowsOfAll(Front(calls))
        last == Last(calls)
        Own(row) == row.api = last.api
        earlier == SelectSeq(rows, Own)
    IN FlattenSeq([i \in DOMAIN earlier |-> earlier[i].results]
                  \o [i \in 1..(n - 1) |-> last.rounds[i].calls])

FilesCarried(calls) ==
    LET api == Last(calls).api
        Made(call) == [i \in 1..call.kept |->
                          IF call.api = api THEN << >> ELSE call.rounds[i].files]
    IN FlattenSeq([i \in DOMAIN calls |->
                      calls[i].prompt.files
                      \o (IF i = Len(calls) THEN << >>
                          ELSE FlattenSeq(Made(calls[i])))])

\* In every request, whatever protocols the conversation went through, each
\* call is answered once and each answer follows the calls, with nothing in
\* between (turns_from_rows(): "a turn the API would reject").  The calls are
\* those of the request's own protocol, and no others: the rest do not "survive
\* conversion", as SPEC.md:786 has it.  The files are all there (file_block():
\* never "a turn that quietly lost its video").
AnswersFollow(calls, gone) ==
    \A n \in DOMAIN Bodies(calls, gone) :
        LET body == Bodies(calls, gone)[n]
            flat == Flat(body)
            Tool(i) == i \in DOMAIN flat /\ flat[i].kind \in {"call", "result"}
            Values(s) == [i \in DOMAIN s |-> s[i].value]
        IN /\ Values(Kind(body, "call")) = Values(Kind(body, "result"))
           /\ \A i \in DOMAIN flat :
                 /\ flat[i].kind = "result" => Tool(i - 1)
                 /\ flat[i].kind = "call" => Tool(i + 1)
           /\ Values(Kind(body, "call")) = CallsCarried(calls, n)
           /\ Values(Kind(body, "file")) = FilesCarried(calls)
=============================================================================
