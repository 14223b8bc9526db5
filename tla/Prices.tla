------------------------------- MODULE Prices -------------------------------
(***************************************************************************)
(* What a call costs: price.py, the usage names the adaptors report        *)
(* (store.openai_usage, anthropic_messages.cache_usage), the table of an   *)
(* entry (config.price_table), the TTL a call may cache under              *)
(* (client.cache_ttl) and the bill of a round (client.billing).            *)
(*                                                                         *)
(* A usage name is the sequence of its dotted parts, a usage a function    *)
(* from names to positive counts, a table a set of rules of distinct names.*)
(* Dollars are millionths, so that a rate per million tokens is a factor.  *)
(***************************************************************************)
EXTENDS Integers, Sequences, SequencesExt, FiniteSetsExt

Missing == -1

In == <<"in">>
Out == <<"out">>
CacheRead == <<"in", "cache_read">>
CacheWrite(ttl) == <<"in", "cache_write", ttl>>
Reasoning == <<"out", "reasoning">>

\* tokens(): the counts that happened.  `counts' is a set of <<name, count>>.
Tokens(counts) ==
    [n \in {c[1] : c \in {c \in counts : c[2] > 0}} |->
        (CHOOSE c \in counts : c[1] = n)[2]]

\* Mutated OpenAIUsage: the subsets stay in the totals.
OpenAIUsageWhole(reply) ==
    Tokens({<<In, reply.prompt>>, <<CacheRead, reply.cached>>,
            <<Out, reply.completion>>, <<Reasoning, reply.reasoning>>})

\* openai_usage(): a detail may be missing; what it counts is in the total.
OpenAIUsage(reply) ==
    LET Less(total, part) == total - Max({part, 0})
    IN Tokens({<<In, Less(reply.prompt, reply.cached)>>,
               <<CacheRead, reply.cached>>,
               <<Out, Less(reply.completion, reply.reasoning)>>,
               <<Reasoning, reply.reasoning>>})

\* Mutated WriteCounts: a total is always taken for the default TTL.
WriteCountsDefault(reply, asked) ==
    IF reply.five > 0 \/ reply.hour > 0
    THEN {<<CacheWrite("5m"), reply.five>>, <<CacheWrite("1h"), reply.hour>>}
    ELSE {<<CacheWrite("5m"), reply.written>>}

\* The writes: by TTL where the reply splits them, else under the TTL asked.
WriteCounts(reply, asked) ==
    IF reply.five > 0 \/ reply.hour > 0
    THEN {<<CacheWrite("5m"), reply.five>>, <<CacheWrite("1h"), reply.hour>>}
    ELSE {<<CacheWrite(IF asked = "off" THEN "5m" ELSE asked), reply.written>>}

\* cache_usage() and the counts of message_start and message_delta around it.
AnthropicUsage(reply, asked) ==
    Tokens({<<In, reply.input>>, <<CacheRead, reply.read>>,
            <<Out, reply.output>>} \cup WriteCounts(reply, asked))

----------------------------------------------------------------------------
Rule(name, key, tier, when, rate, unit) ==
    [name |-> name, key |-> key, tier |-> tier, when |-> when,
     rate |-> rate, unit |-> unit]
Plain(name, rate) == Rule(name, << >>, "", Missing, rate, "token")

\* price_table(): the two older keys become rules where no rule has the name.
PriceTable(price, costInput, costOutput) ==
    LET Legacy(name, rate) ==
            IF rate = Missing \/ \E r \in price : r.name = name THEN {}
            ELSE {Plain(name, rate)}
    IN price \cup Legacy(In, costInput) \cup Legacy(Out, costOutput)

Pattern(rule) == IF rule.key = << >> THEN rule.name ELSE rule.key
Under(name, prefix) == IsPrefix(prefix, name)

UsageTotal(usage, prefix) ==
    MapThenSumSet(LAMBDA n : usage[n], {n \in DOMAIN usage : Under(n, prefix)})

\* facts(): a `when' is a threshold on the call's input.
Facts(usage, tier) == [tier |-> tier, in_total |-> UsageTotal(usage, In)]

\* matches(): the name is the pattern or below it, never above.
Matches(name, rule, facts) ==
    /\ Under(name, Pattern(rule))
    /\ rule.tier # "" => rule.tier = facts.tier
    /\ rule.when # Missing => facts.in_total > rule.when

\* specificity(): the tuple (parts, tier, when) as one number.
Specificity(rule) ==
    4 * Len(Pattern(rule)) + (IF rule.tier = "" THEN 0 ELSE 2)
                           + (IF rule.when = Missing THEN 0 ELSE 1)

\* Of the matching rules those that constrain the call most.
Best(name, table, facts) ==
    LET found == {r \in table : Matches(name, r, facts)}
    IN {r \in found : \A s \in found : Specificity(r) >= Specificity(s)}

\* rated() is an error where two of them differ in rate; of rules of one rate
\* the code takes the last by name, here any.
Ambiguous(usage, table, facts) ==
    \E name \in DOMAIN usage : \E r, s \in Best(name, table, facts) :
        r.rate # s.rate

Charge(rule, qty) == rule.rate * qty * (IF rule.unit = "token" THEN 1 ELSE 10^6)

\* rate(): one item for every usage name that some rule prices.
Rate(table, usage, facts) ==
    {LET rule == CHOOSE r \in Best(name, table, facts) : TRUE
     IN [rule |-> rule.name, key |-> name, qty |-> usage[name],
         rate |-> rule.rate, cost |-> Charge(rule, usage[name])] :
        name \in {n \in DOMAIN usage : Best(n, table, facts) # {}}}

Cost(items) == MapThenSumSet(LAMBDA i : i.cost, items)

\* reported(): the provider's own charge is the bill.
Provider == <<"provider">>
Reported(total) ==
    {[rule |-> Provider, key |-> <<"cost">>, qty |-> total, rate |-> 1,
      cost |-> total]}

\* billing(): the tier is what the reply says, never what was asked for.
Billing(table, round) ==
    [of |-> round, usage |-> round.usage,
     items |-> IF round.charged # Missing THEN Reported(round.charged)
               ELSE Rate(table, round.usage, Facts(round.usage, round.tier))]

\* Mutated MergeKey: items of one usage name are one, whatever priced them.
MergeKeyByName(item) == item.key

MergeKey(item) == <<item.rule, item.key, item.rate>>

\* merged(): the rounds' counts by name, their items by rule, name and rate.
MergedUsage(bills) ==
    LET Of(b, n) == IF n \in DOMAIN b.usage THEN b.usage[n] ELSE 0
    IN [n \in UNION {DOMAIN bills[i].usage : i \in DOMAIN bills} |->
           MapThenSumSet(LAMBDA i : Of(bills[i], n), DOMAIN bills)]

MergedItems(bills) ==
    LET all == UNION {{[round |-> i, item |-> x] : x \in bills[i].items} :
                         i \in DOMAIN bills}
        Same(a) == {b \in all : MergeKey(b.item) = MergeKey(a.item)}
        First(a) == \A b \in Same(a) : a.round <= b.round
    IN {[a.item EXCEPT
            !.qty = MapThenSumSet(LAMBDA b : b.item.qty, Same(a)),
            !.cost = MapThenSumSet(LAMBDA b : b.item.cost, Same(a))] :
           a \in {a \in all : First(a)}}

\* Mutated CostOf: the rate's own name, not those below it.
CostOfExactly(items, direction, partial) ==
    LET priced == {i \in items : i.key = direction}
    IN IF priced = {} /\ partial THEN Missing ELSE Cost(priced)

\* summary(): what a call cut short does not know it does not call free.
CostOf(items, direction, partial) ==
    LET priced == {i \in items : Under(i.key, direction)}
    IN IF priced = {} /\ partial THEN Missing ELSE Cost(priced)

----------------------------------------------------------------------------
\* cache_ttls(): the TTLs that rules are named for.
CacheTtls(table) ==
    {r.name[3] : r \in {r \in table : /\ Len(r.name) = 3
                                      /\ r.name = CacheWrite(r.name[3])}}

\* Mutated CacheTtl: any table that prices a cache write takes any TTL.
CacheTtlAny(table, asked) ==
    IF asked = "off" THEN "off"
    ELSE IF CacheTtls(table) # {} THEN asked ELSE "refused"

\* cache_ttl(): a TTL no rule is named for is an error.
CacheTtl(table, asked) ==
    IF asked = "off" THEN "off"
    ELSE IF asked \in CacheTtls(table) THEN asked ELSE "refused"

=============================================================================
