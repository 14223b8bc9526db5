-------------------------------- MODULE Bills --------------------------------
(***************************************************************************)
(* What one call pays for its rounds: the billing of dic() in client.py,   *)
(* from the reply of each round to the rows it stores and to the line that *)
(* is shown.  What the rounds say and how their rows hang together is      *)
(* module DicCall's; what a reply costs is module Prices'.                 *)
(***************************************************************************)
EXTENDS Prices

CONSTANTS
    Entries,    \* the models of the config, with their prices
    Replies,    \* protocol -> what its servers may say they counted
    Parts,      \* the parts of the names of usages and rules
    MaxRounds   \* MAX_TOOL_ROUNDS

VARIABLES
    model,  \* the entry of the call: its protocol, its table and its TTL
    stage,  \* where dic() stands
    index,  \* the number of the round, from 0
    acc,    \* what parse() has kept of the round's usage
    rounds, \* the bills so far
    rows,   \* the rows stored, each with a bill or with none
    line    \* the cost line on stderr

vars == <<model, stage, index, acc, rounds, rows, line>>

Table(entry) == PriceTable(entry.price, entry.input, entry.output)

\* A rule for this name that prices it whatever the call's facts are.
Priced(table, name) ==
    \E r \in table : Pattern(r) = name /\ r.tier = "" /\ r.when = Missing

\* The rules that say what this name costs are named for it and unconditional.
PlainFor(table, name) ==
    \A r \in table : r.name = name \/ Pattern(r) = name =>
        r.name = name /\ Pattern(r) = name /\ r.tier = "" /\ r.when = Missing

\* Rules have names, each its own, and none that of the provider's charge.
Rated(table) ==
    /\ \A r \in table : r.name \in Seq(Parts) /\ r.key \in Seq(Parts)
    /\ \A r, s \in table : r.name = s.name => r = s
    /\ \A r \in table : r.name # Provider /\ r.rate \in Int

\* What a reply says of its tokens: totals, and subsets that are in them.
ReplyCounts(reply) ==
    /\ reply.prompt \in Nat /\ reply.completion \in Nat
    /\ reply.cached \in Nat \cup {Missing} /\ reply.cached <= reply.prompt
    /\ reply.reasoning \in Nat \cup {Missing} /\ reply.reasoning <= reply.completion
    /\ reply.charged \in Nat \cup {Missing}

\* What a reply says it wrote, as a total or by TTL: what was asked for is what
\* the provider writes.
ReplyWrites(reply, asked) ==
    /\ reply.input \in Nat /\ reply.read \in Nat /\ reply.output \in Nat
    /\ reply.written \in Nat /\ reply.five \in Nat /\ reply.hour \in Nat
    /\ reply.five > 0 \/ reply.hour > 0 =>
          \/ asked = "5m" /\ reply.five = reply.written /\ reply.hour = 0
          \/ asked = "1h" /\ reply.hour = reply.written /\ reply.five = 0

ASSUME BillsAssumption ==
    /\ MaxRounds \in Nat \ {0}
    /\ \A e \in Entries : e.api \in {"openai", "anthropic"} /\ Rated(Table(e))
    /\ \A reply \in Replies["openai"] : ReplyCounts(reply)

Nothing == [said |-> FALSE]
NoAcc == [usage |-> Tokens({}), tier |-> "default", charged |-> Missing,
          reply |-> Nothing]
NoLine == [usage |-> Tokens({}), items |-> {}, partial |-> FALSE]

\* A TTL the table cannot rate is refused before anything is sent.
Init ==
    /\ \E e \in Entries, asked \in {"off", "5m", "1h"} :
          model = [api |-> e.api, table |-> Table(e), asked |-> asked]
    /\ stage = IF CacheTtl(model.table, model.asked) = "refused"
               THEN "refused" ELSE "open"
    /\ index = 0 /\ acc = NoAcc /\ rounds = << >> /\ rows = << >> /\ line = NoLine

At(s) == stage = s
Shown == {"answered", "cancelled"}

----------------------------------------------------------------------------
\* rated() could not tell two rules apart.
Tied == Ambiguous(acc.usage, model.table, Facts(acc.usage, acc.tier))
Bill == Billing(model.table, acc)

\* merged(): a loop reads as one call.
LineOf(bills, partial) ==
    [usage |-> MergedUsage(bills), items |-> MergedItems(bills),
     partial |-> partial]

\* One row; its cost is NULL unless the round ended as it should.
Row(bill, billed) == [bill |-> bill, billed |-> billed]

\* parse(): what the reply has said of its usage by the time it is billed, all
\* of it at the end of the stream or, of anthropic's, some at the start.
Reply ==
    /\ At("open") /\ acc = NoAcc
    /\ \E reply \in Replies[model.api] :
          IF model.api = "openai"
          THEN acc' = [usage |-> OpenAIUsage(reply), tier |-> reply.tier,
                       charged |-> reply.charged, reply |-> reply]
          ELSE /\ ReplyWrites(reply, model.asked)
               /\ acc' = [NoAcc EXCEPT !.usage = AnthropicUsage(reply, model.asked),
                                       !.reply = reply]
    /\ UNCHANGED <<model, stage, index, rounds, rows, line>>

\* Mutated MayGoOn: the rounds are counted from 0.
MayGoOnFromZero == index < MaxRounds

MayGoOn == index + 1 < MaxRounds

\* The round asked for tools: it is billed, and stored before the next.
Tools ==
    /\ At("open") /\ acc # NoAcc /\ MayGoOn /\ ~Tied
    /\ rounds' = Append(rounds, Bill)
    /\ stage' = "storing"
    /\ UNCHANGED <<model, index, acc, rows, line>>

Store ==
    /\ At("storing")
    /\ rows' = Append(rows, Row(Bill, TRUE))
    /\ stage' = "stored"
    /\ UNCHANGED <<model, index, acc, rounds, line>>

NextRound ==
    /\ At("stored")
    /\ index' = index + 1 /\ acc' = NoAcc /\ stage' = "open"
    /\ UNCHANGED <<model, rounds, rows, line>>

\* The last round is billed, and the loop left.
Settle ==
    /\ At("open") /\ acc # NoAcc /\ ~Tied
    /\ rounds' = Append(rounds, Bill)
    /\ stage' = "settled"
    /\ UNCHANGED <<model, index, acc, rows, line>>

\* Its row and the line; of a stream that failed after its 200 no cost is
\* stored and no line is shown.  A ^C past the loop has no handler.
Answer(ok) ==
    /\ At("settled")
    /\ rows' = Append(rows, Row(Bill, ok))
    /\ line' = IF ok THEN LineOf(rounds, FALSE) ELSE line
    /\ stage' = IF ok THEN "answered" ELSE "failed"
    /\ UNCHANGED <<model, index, acc, rounds>>

\* except DicError: the transport failed, or the rounds are used up.
Fail ==
    /\ At("open") /\ ~Tied
    /\ rounds' = Append(rounds, Bill)
    /\ rows' = Append(rows, Row(Bill, FALSE))
    /\ stage' = "failed"
    /\ UNCHANGED <<model, index, acc, line>>

\* except KeyboardInterrupt: what is in acc is billed, though a round that is
\* being stored already was, and so was a last one before the loop is left.
Cancel ==
    /\ stage \in {"open", "storing", "stored", "settled"} /\ ~Tied
    /\ rounds' = Append(rounds, Bill)
    /\ rows' = Append(rows, Row(Bill, FALSE))
    /\ line' = LineOf(rounds', TRUE)
    /\ stage' = "cancelled"
    /\ UNCHANGED <<model, index, acc>>

\* billing() raises, and so does the handler that would store the failure.
Tie ==
    /\ At("open") /\ Tied
    /\ stage' = "crashed"
    /\ UNCHANGED <<model, index, acc, rounds, rows, line>>

Next == \/ Reply \/ Tools \/ Store \/ NextRound \/ Settle \/ Fail \/ Cancel \/ Tie
        \/ \E ok \in BOOLEAN : Answer(ok)

Spec == Init /\ [][Next]_vars

----------------------------------------------------------------------------
TypeOK ==
    /\ stage \in Shown \cup {"open", "storing", "stored", "settled", "failed",
                           "crashed", "refused"}
    /\ index \in 0..(MaxRounds - 1)
    /\ rounds \in Seq(ToSet(rounds)) /\ Len(rounds) \in index..(index + 2)
    /\ rows \in Seq(ToSet(rows)) /\ Len(rows) \in index..Len(rounds)

Counted(items) == MapThenSumSet(LAMBDA i : i.qty, items)

\* What of each round's tokens is billed by a table that prices the direction
\* is what the provider counted, whatever part of it was cached or reasoning,
\* and whichever refinements, tiers and conditions price the parts
\* ("leaving them in would charge a cached prompt twice", openai_usage()).
TokensBilledOnce ==
    model.api = "openai" =>
        \A i \in DOMAIN rounds :
            LET reply == rounds[i].of.reply
                Billed(name) ==
                    Counted({x \in rounds[i].items : Under(x.key, name)})
            IN reply # Nothing /\ rounds[i].of.charged = Missing =>
                  /\ Priced(model.table, In) => Billed(In) = reply.prompt
                  /\ Priced(model.table, Out) => Billed(Out) = reply.completion

\* A call that was let to cache is billed for what the provider wrote, by the
\* rule for that TTL, whichever way the replies report it ("a model that cannot
\* be billed for a cache write is never asked for one", cache_ttl()).  A
\* condition on that rule is not looked at there, so it has none here.
CacheWritesBilled ==
    model.api = "anthropic" /\ model.asked # "off" =>
        LET name == CacheWrite(model.asked)
        IN PlainFor(model.table, name) =>
              \A i \in DOMAIN rounds :
                  rounds[i].of.reply # Nothing =>
                     Counted({x \in rounds[i].items : x.rule = name})
                        = rounds[i].of.reply.written

\* What the rounds of a call come to.
RoundCosts(bills) == MapThenSumSet(LAMBDA i : Cost(bills[i].items), DOMAIN bills)
RoundTotals(bills) ==
    MapThenSumSet(LAMBDA i : UsageTotal(bills[i].usage, << >>), DOMAIN bills)

\* What one of what an item counts costs.
UnitCost(table, item) ==
    IF item.rule = Provider THEN 1
    ELSE Charge(CHOOSE r \in table : r.name = item.rule, 1)

\* The line of a tool loop loses no token and no dollar of its rounds and
\* counts none twice, and every item of it multiplies out, though the rounds
\* were rated under facts of their own (merged()); and of an answer the rounds
\* are the rows it was stored in, which every later total is made of ("the line
\* a user reads is the sum of every round it took, not the last one's", dic()).
LineIsTheRows ==
    stage \in Shown =>
        /\ Cost(line.items) = RoundCosts(rounds)
        /\ UsageTotal(line.usage, << >>) = RoundTotals(rounds)
        /\ \A i \in line.items : i.cost = UnitCost(model.table, i) * i.qty
        /\ At("answered") =>
              /\ \A i \in DOMAIN rows : rows[i].billed
              /\ rounds = [i \in DOMAIN rows |-> rows[i].bill]

\* The input and the output on the line add up to its total, whatever the
\* rounds were priced by ("Their sum is the only total dic ever prints",
\* summary()); a provider's own charge has no such parts.
LineAddsUp ==
    LET Shows(name) == \E i \in line.items : Under(i.key, name)
        Amount(name) == IF Shows(name) THEN CostOf(line.items, name, line.partial)
                        ELSE 0
    IN stage \in Shown /\ (\A i \in line.items : i.rule # Provider) =>
          Amount(<< >>) = Amount(In) + Amount(Out)
==============================================================================
