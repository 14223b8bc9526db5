------------------------------- MODULE MCBills -------------------------------
(* A small instance of Bills for TLC. *)
EXTENDS Bills

\* Tables with the two plain rates, in `price' or as the older keys, and any of
\* the rules that refine them: by name, by tier, by the prompt's length.
Refined(name, key, tier, when, rate) == Rule(name, key, tier, when, rate, "token")
Refinements ==
    {Plain(CacheRead, 1), Plain(Reasoning, 7),
     Refined(<<"in", "long">>, In, "", 2, 5),
     Refined(<<"in", "batch">>, In, "batch", Missing, 2),
     Refined(<<"batch">>, In, "batch", Missing, 4)}
Entry(api, price, output) ==
    [api |-> api, price |-> price, input |-> 8, output |-> output]
Writes == {Plain(CacheWrite("5m"), 4), Plain(CacheWrite("1h"), 6)}
MCEntries ==
    {Entry("openai", {Plain(In, 3)} \cup more, 6) : more \in SUBSET Refinements}
    \cup {Entry("openai", more, Missing) : more \in {{}, Refinements}}
    \cup {Entry("anthropic", {Plain(In, 3)} \cup more, 6) : more \in SUBSET Writes}

OpenAIReply(prompt, cached, completion, reasoning, tier, charged) ==
    [prompt |-> prompt, cached |-> cached, completion |-> completion,
     reasoning |-> reasoning, tier |-> tier, charged |-> charged]
Counts == {<<0, Missing, 0, Missing>>, <<0, Missing, 1, 0>>, <<1, 1, 1, Missing>>,
           <<3, Missing, 2, 1>>, <<3, 0, 0, 0>>, <<3, 2, 2, 2>>}
Charges == {<<"default", Missing>>, <<"batch", Missing>>, <<"default", 0>>,
            <<"default", 9>>}
AnthropicReply(input, read, written, split) ==
    [input |-> input, read |-> read, output |-> 1, written |-> written,
     five |-> IF split = "5m" THEN written ELSE 0,
     hour |-> IF split = "1h" THEN written ELSE 0]
MCReplies ==
    [api \in {"openai", "anthropic"} |->
        IF api = "openai"
        THEN {OpenAIReply(c[1], c[2], c[3], c[4], p[1], p[2]) :
                 c \in Counts, p \in Charges}
        ELSE {AnthropicReply(i, r, w, s) :
                 i \in {1, 3}, r \in 0..1, w \in 0..2, s \in {"", "5m", "1h"}}]
MCParts == {"in", "out", "cache_read", "cache_write", "5m", "1h", "reasoning",
            "long", "batch"}
==============================================================================
