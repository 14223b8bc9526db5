------------------------------ MODULE Streams ------------------------------
(***************************************************************************)
(* How the frames of a reply become an answer: parse(), calls() and        *)
(* finish() of openai_chat, anthropic_messages and openai_responses.       *)
(*                                                                         *)
(* A text is the sequence of its pieces.  The JSON of a call's arguments   *)
(* is such a sequence too, and is whole when it ends with its "}".         *)
(***************************************************************************)
EXTENDS Integers, Sequences, SequencesExt, FiniteSetsExt

NoArguments == << >>
IsJSON(text) == text # << >> /\ \A i \in DOMAIN text : text[i] = "}" <=> i = Len(text)

\* acc before the first frame: chat's calls by slot, Anthropic's blocks, the
\* output of a response; `usage' is what was last reported.
NoAcc == [text |-> << >>, slots |-> << >>, blocks |-> << >>, output |-> << >>,
          usage |-> << >>, error |-> FALSE, stop |-> ""]

----------------------------------------------------------------------------
(* openai_chat *)
NoSlot == [id |-> "", arguments |-> NoArguments]

\* Mutated Slot: the pieces go to the call that was begun last.
SlotLast(slots, index) == Max({Len(slots), 1})

Slot(slots, index) == index

\* A piece names the slot of its call; the slots up to it are made.
AddPiece(slots, piece) ==
    LET at == Slot(slots, piece.index)
        made == [i \in 1..Max({at, Len(slots)}) |->
                    IF i <= Len(slots) THEN slots[i] ELSE NoSlot]
    IN [made EXCEPT ![at].id = IF piece.id = "" THEN @ ELSE piece.id,
                    ![at].arguments = @ \o piece.arguments]

\* An error frame is all there is to it; reasoning is painted and not kept.
ChatParse(acc, frame) ==
    CASE frame.type = "error" -> [acc EXCEPT !.error = TRUE]
      [] frame.type = "usage" -> [acc EXCEPT !.usage = frame.usage]
      [] frame.type = "text" -> [acc EXCEPT !.text = Append(@, frame.piece)]
      [] frame.type = "thinking" -> acc
      [] frame.type = "call" -> [acc EXCEPT !.slots = AddPiece(@, frame)]
      [] frame.type = "stop" -> [acc EXCEPT !.stop = frame.reason]

\* calls(): no arguments are no JSON but an empty object.
ChatRefused(acc) ==
    \E s \in ToSet(acc.slots) : s.arguments # NoArguments /\ ~IsJSON(s.arguments)
ChatCalls(acc) == acc.slots

\* finish(): the calls as they came, read or not.
ChatFinish(acc) == <<[text |-> acc.text, calls |-> acc.slots]>>

----------------------------------------------------------------------------
(* anthropic_messages: `json' is the scratch key, and is no part of a block *)
(* until a delta makes it one.                                              *)
NewBlock(frame) ==
    [type |-> frame.block, id |-> frame.id, text |-> << >>,
     signature |-> << >>, input |-> NoArguments, scratch |-> FALSE,
     json |-> << >>]

Grown(block, frame) ==
    CASE frame.delta = "text" -> [block EXCEPT !.text = Append(@, frame.piece)]
      [] frame.delta = "signature" ->
            [block EXCEPT !.signature = Append(@, frame.piece)]
      [] frame.delta = "json" ->
            [block EXCEPT !.json = Append(@, frame.piece), !.scratch = TRUE]

\* content_block_stop: what is not JSON is no argument at all.
Closed(block) ==
    IF ~block.scratch THEN block
    ELSE [block EXCEPT !.input = IF IsJSON(block.json) THEN block.json
                                 ELSE NoArguments,
                       !.scratch = FALSE, !.json = << >>]

\* The output count of the last message_delta replaces the first one.
AnthropicParse(acc, frame) ==
    LET change == acc.blocks # << >>
        Newest(block) == [acc EXCEPT !.blocks = Append(Front(@), block)]
    IN CASE frame.type = "error" -> [acc EXCEPT !.error = TRUE]
         [] frame.type = "start" -> [acc EXCEPT !.usage = frame.usage]
         [] frame.type = "block" ->
                [acc EXCEPT !.blocks = Append(@, NewBlock(frame))]
         [] frame.type = "delta" /\ change ->
                Newest(Grown(Last(acc.blocks), frame))
         [] frame.type = "close" /\ change -> Newest(Closed(Last(acc.blocks)))
         [] frame.type = "stop" ->
                [acc EXCEPT !.usage = <<@[1], frame.output>>,
                            !.stop = frame.reason]
         [] OTHER -> acc

AnthropicCalls(acc) ==
    LET asked == SelectSeq(acc.blocks, LAMBDA b : b.type = "tool_use")
    IN [i \in DOMAIN asked |-> [id |-> asked[i].id,
                                arguments |-> asked[i].input]]

\* finish(): a scratch key that is left is dropped.
AnthropicFinish(acc) ==
    [i \in DOMAIN acc.blocks |-> [acc.blocks[i] EXCEPT !.scratch = FALSE,
                                                       !.json = << >>]]

----------------------------------------------------------------------------
(* openai_responses: the last frame carries the output and the usage *)
ResponsesParse(acc, frame) ==
    CASE frame.type = "error" -> [acc EXCEPT !.error = TRUE]
      [] frame.type \in {"completed", "incomplete"} ->
            [acc EXCEPT !.output = frame.output, !.usage = frame.usage,
                        !.stop = IF frame.type = "incomplete"
                                 THEN frame.reason ELSE @]
      [] OTHER -> acc

ResponsesFinish(acc) == acc.output

----------------------------------------------------------------------------
Parse(api, acc, frame) ==
    CASE api = "chat" -> ChatParse(acc, frame)
      [] api = "anthropic" -> AnthropicParse(acc, frame)
      [] api = "responses" -> ResponsesParse(acc, frame)

Parsed(api, frames) ==
    FoldLeft(LAMBDA acc, frame : Parse(api, acc, frame), NoAcc, frames)

\* The calls a round runs tools for, or none when reading them is an error.
Calls(api, acc) ==
    CASE api = "chat" -> IF ChatRefused(acc) THEN << >> ELSE ChatCalls(acc)
      [] api = "anthropic" -> AnthropicCalls(acc)
      [] api = "responses" -> << >>

Finish(api, acc) ==
    CASE api = "chat" -> ChatFinish(acc)
      [] api = "anthropic" -> AnthropicFinish(acc)
      [] api = "responses" -> ResponsesFinish(acc)

----------------------------------------------------------------------------
\* However the frames of several calls are mixed and wherever the stream is
\* cut: a call is refused, or has no arguments, or is one the server sent with
\* its own arguments, never half of them or another's; at the end the calls
\* are all there, in order, and what is stored to be replayed is what the
\* server sent, with nothing of dic's own (parse(), calls(), finish()).
RebuiltAsSent(api, frames, sent) ==
    \A cut \in 0..Len(frames) :
        LET acc == Parsed(api, SubSeq(frames, 1, cut))
            calls == Calls(api, acc)
        IN /\ Len(calls) <= Len(sent.calls)
           /\ \A i \in DOMAIN calls :
                 /\ calls[i].id \in {"", sent.calls[i].id}
                 /\ calls[i].arguments \in {NoArguments, sent.calls[i].arguments}
           /\ cut = Len(frames) => /\ calls = sent.calls
                                   /\ Finish(api, acc) = sent.raw
=============================================================================
