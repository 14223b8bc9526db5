# A TLA+ model of dic

`dic` sends one prompt to a language model and stores the exchange; around it
stand a patch tool (`git-apply-fuzzy`) and three shell agents (`committe`,
`itera`, `geni`). What makes it hard to test is that every piece of it is run
by several processes at once over one sqlite file, one directory of session
pointers and the user's own files, and that it is cut off at any point by ^C,
a crash, a refusal of the API or a lock timeout. This directory holds TLA+
modules of that behaviour, TLC configurations that check them on small
instances, and theorems that TLAPS proves for every instance.

Paths below are relative to the repository (`src/` is its root, so the client
is `src/src/dic/client.py`; `client.py:900` means line 900 of that file).

## The system

| component | state it keeps | operations | talks to | modelled by |
|---|---|---|---|---|
| call (`client.py dic()`) | the locals of one call: parent row, round, status, what was asked and answered | open, budget check, resolve `-c`/`--mid`, attach, tool rounds, the ^C and DicError handlers, last row, pointer | store, pointers, sink, adaptor, tools, line | `DicCall`, partly |
| message store (`store.py`) | `messages`, `attachments`, the write lock | `db`, insert, commit, `history`, `resolve_ref`, `store_attachment`, `SESSION_COST`, `turns_from_rows`, `normalize` | sqlite | `DicCall`, `Replay`, partly |
| session pointers (`store.py:632-670`) | one file per session | `session_read`, `session_write` | the file system | `DicCall` |
| output files (`output.py`) | PATH, its numbered blobs, a `.part` of each | `write`, `write_blob`, `end_blob`, `close`, `pending`, `abandon` | the file system, `dic()` | `Sink` |
| config cache (`config.py`, `store.py db()`) | `config`, `config_meta` in dic.db | create, `sync`, `materialize`, `resolve`, `price_table`, `default_id` | source files, sqlite | `ConfigCache`, `Prices`, partly |
| prices (`price.py`) | none | `matches`, `rate`, `merged`, usage, `cache_ttl`, and `billing()` in each round of `dic()` | the rows, the cost line | `Prices`, `Bills` |
| terminal line (`tty.py`) | the clock's thread, the meters | `wait`, `stop_clock`, `first_token`, `status`, `close`, `pv_update` | a thread, `dic()` | `Progress`, partly |
| streaming adaptors | the answer assembled so far | `build`, `parse`, `calls`, `finish` | the wire | `Streams`, `Replay`, `Prices`, partly |
| job adaptors | a remote job | submit, poll, download | the wire, the sink, the line | `Progress`, and what they yield in `Sink`, partly |
| tools | none | schema, bind, run | `dic()` | one step with a result, in `DicCall` |
| git-apply-fuzzy | the tree and the index | parse, plan, gate, rename, create, delete, write, chmod, stage; `locate`, `splice`, `apply_hunks` | git | `ApplyFuzzy`, `HunkPlacement` |
| committe | the patch file, the loop counters | clean check, ask, apply, retry, commit | dic, git, git-apply-fuzzy | `Committe` |
| itera and geni | the round, the branch and its worktree | test, ask again, fast-forward, remove | committe, git | `Geni` |
| async calls (`client.py:1133-1182`) | a shared pool | `_pool`, `generate_async` | `dic()` on threads | what two calls do to each other is `DicCall` |
| command line, listings, accio, sandbox, completion | none | | | not modelled |

What is hard in it, by component (each at its line in `PROJECT.json`, "hazards"):

- **call and store**: a row's parent is chosen long before the row is stored;
  an uncommitted row is a parent for its own call only; the attachment's
  transaction holds the lock across the network; sqlite gives up after five
  seconds with an error nobody catches; ^C lands between an insert and its
  commit; the budget is read once. Correct when the durable rows are a forest
  that only grows and every pointer names a whole answer of its own session.
- **output files**: a name is looked at and taken in two steps, a `.part`
  outlives its call, several rounds share one list of paths. Correct when what
  is under a name is one call's, all of it, and the rows name each file once.
- **config cache**: the stamps are taken before the parse, and two processes
  may use different model files over one cache. Correct when a cache whose
  stamps match the files holds the files.
- **replay and streams**: a request is rebuilt from stored rows that may come
  from three protocols, and an answer from frames that mix several calls and may
  stop anywhere. Correct when a stored conversation is sent as it was live, with
  every call answered, and no call has another's arguments or half of its own.
- **prices**: several rules match one count, subsets are inside totals, rounds
  are rated apart, stored apart and merged into one line. Correct when every token
  is billed exactly once, and what the line says is what the rows say.
- **terminal line**: a thread paints the row the main thread ends, and a job may
  never answer. Correct when no writer paints over another's row, nothing is
  left painting, and the wait for a job ends.
- **git-apply-fuzzy and committe**: changes are written one by one and staged
  at the end; the tree is checked clean minutes before it is changed; the retry
  meets what the last try left. Correct when a refused patch leaves the tree
  alone, and a commit holds what the patch says and leaves nothing behind.
- **itera and geni**: a branch may move while the worktree is being worked on.
  Correct when what lands on it is a tree the tests passed on.

## The modules

| module | what it is |
|---|---|
| `MessageTree` | abstract: a forest of durable rows that only grows, one call at a time, and a head for each session that moves to a whole answer |
| `DicCall` | `dic()` in detail, any number of calls at once |
| `DicCallProofs` | theorems about `DicCall`: locks, pointers, parents, the refinement; then what the rows of a call say, and the budget |
| `Sink` | the files of an answer |
| `SinkProofs` | the theorems about `Sink` |
| `ConfigCache` | the start of every command: the creation of dic.db, `sync`, `materialize`, `resolve` |
| `ConfigCacheProofs` | the theorems about `ConfigCache` |
| `ApplyFuzzy` | git-apply-fuzzy on a tree and its index, one system call at a time |
| `Committe` | `EXTENDS ApplyFuzzy`: the script around it, git, and a user in the same tree |
| `Geni` | `EXTENDS Committe`: the loop of patches and tests, and the merge |
| `PatchConventions` | `EXTENDS Geni`: what the proofs ask of a patch, that `git diff` could have written it |
| `GeniProofs` | the theorems about `Geni`, and the `Committe` and `ApplyFuzzy` in it |
| `CommitProofs` | `EXTENDS GeniProofs`: that what is committed is what the patch says |
| `HunkPlacement` | where the hunks of one file go |
| `Replay` | the conversation a request carries, and how rows become one again |
| `Streams` | how the frames of a reply become an answer |
| `Prices` | usage, tables, rates, bills |
| `Bills` | `EXTENDS Prices`: the money of one call, from the reply of each round to its row and to the line |
| `PricesProofs` | sums over finite sets, and the theorems about `Bills` |
| `Progress` | what a call shows while it waits, with the clock's thread |
| `ProgressProofs` | the theorems about `Progress` |
| `SequenceLemmas` | induction over the numbers, and what `FlattenSeq` returns and in which order; used by `SinkProofs`, `GeniProofs`, `CommitProofs` and `PricesProofs` |
| `MCDicCall`, `MCSink`, `MCConfigCache`, `MCGeni`, `MCProgress`, `MCBills` | the instances for TLC |
| `MCAlgorithms` | instantiates `HunkPlacement`, `Replay` and `Streams`, and takes one bounded input per step |

`DicCall`, `Sink`, `ConfigCache`, `Progress`, `Bills`, `Streams` and `Replay` meet in
`dic()`: `ConfigCache` is what happens between its `Open` and its `Resolve`,
`Replay` what its `BuildRequest` builds, `Streams` what its events are read
into, `Sink` and `Progress` what happens to files and terminal inside its
rounds, `Bills` what its `Settle` and its handlers bill. They are checked apart, because what they share is only whether the call
goes on. `Geni`, `Committe` and `ApplyFuzzy` are composed: they change one tree.

### DicCall

One action for each step at which something other than the call's own locals
can be seen or changed, in the order of the code:

| action | code |
|---|---|
| `Open` | `db()`, `store.py:436`: the PRAGMA that stamps the version is a write, so an open needs the lock too |
| `CheckBudget` | `client.py:672-684`, with the LIKE that takes in nested sessions |
| `Resolve`, `Refuse` | `client.py:686-765`: a new conversation, the pointer, or any visible row; every DicError before the `try` |
| `StoreAttachment`, `BuildRequest` | `client.py:745-785`, `store.py:541` |
| `SendRequest`, `ParseToolCall`, `EndStream`, `AdaptorRaises` | the loop's top, the events, and the ways they end: whole, refused, an error frame after the 200 |
| `GiveUp`, `BadArguments`, `RunTool` | `client.py:975-1001` |
| `Settle`, `CannotBill` | billing and `finish` |
| `InsertRound`, `CommitRound`, `NextRound` | `client.py:1007-1021` |
| `Interrupt`, `StoreCancelled`, `StoreFailure` | the two handlers, `client.py:1022-1075` |
| `StoreAnswer`, `PointSession`, `PointerRefused` | `client.py:1076-1106` |
| `Busy`, `Kill` | the lock timeout; everything no handler catches |

The messages table is one sequence in rowid order. Its first `committed` rows
are durable, the rest are in the one open write transaction, whose owner is
`writer`. A row's number stands for its mid. Statements are atomic and only
the owner of the lock writes; that is sqlite's contract, taken as external.

What is abstracted, by name:

- Text, options and prices are not there. A row keeps what the properties tell
  apart: whose it is, its session, round, parent, status, error, whether it was
  billed, and how many tool calls it asked for and had answered. Each billed
  row costs 1.
- `prev = insert()` and the INSERT are one step. A ^C between the C call that
  inserts and the assignment would store the second copy one row higher; the
  model has the ^C before or after both.
- In `StoreCancelled`, `StoreFailure` and `StoreAnswer` the INSERT and the
  commit are one step: nothing of the call runs between them, no other
  connection sees or writes anything meanwhile, and a crash there has the
  same effect as one before.
- A round that cannot be billed (two price rules tie) may do so on any round:
  the handler's own `billing()` raises the same way, so the call leaves no row.

### Sink

`final` and `part` hold, for PATH itself and each of its numbered names, the
chunks of the file under that name and of the file beside it, each chunk named
by its writer. `commit()` is two steps, `EndBlob` or `Close` for the look and
`FinishBlob` or `PlaceText` for the rename, because the user (`Create`) may
take the name in between; `late` remembers where that happened. `paths`, `seen`
and the stored `rows` follow `client.py:1005-1014`. Calls on one PATH are made
one after the other; two at once on one name would need file offsets and are
left for later.

### ConfigCache

| action | code |
|---|---|
| `ReadVersion`, `CheckSchema`, `CreateSchema`, `StampVersion` | `store.py:445-457`, four accesses to the file that others may come between |
| `ListSources`, `StatFile`, `Compare` | `config.py:154-161`, file by file |
| `ParseFile`, `WriteCache` | `config.py:163-180`; the DELETEs and INSERTs are one transaction |
| `Choose`, `LookUp`, `InsertRows` | `config.py:200-228`: an entry or an ad-hoc chain; one SELECT for each prefix, one transaction for the rows |
| `Fold` | the RESOLVE query, `config.py:42-55`, one statement |
| `Edit`, `Remove` | the user and upgrades of the package |
| `Fail` | a crash, a file that is gone or is not json, an unknown id, the lock timeout |

A file says the number of its edits, and that number is its mtime and size:
two edits within one tick of the clock that leave the size alone are not seen by
the code either, and are left out. The keys of an entry are the edits of the files
they came from. One ad-hoc chain stands for all; the longest defined suffix of its
prefixes is taken to be a configured entry. Locals are reset where their function
returns. `quiet`, `overtaken` and `raced` are history: who has been alone since its
start, whose look at the table is older than the table, and whether such a one
has written into it.

### ApplyFuzzy, Committe, Geni

`tree`, `index` and `head` map each path to a file or `None`: a mode, and for a text
the sequence of what was done to it, the number of each entry of the patch and
`User` for an edit. What happens to the lines is `HunkPlacement`'s; here an entry
says whether its hunks match the file they were made for (`exact`, `drifted`,
`foreign`) and whether they match it a second time (`again`). `dirs` is the directories
there are: git makes and removes them (`Folders`, `Emptied`), git-apply-fuzzy does not, and
what it moves or creates in a new one fails (`Housed`, finding 25). A link is read and
written through, and leads to a file that is none of the repository's (`Leads`).

| action | code |
|---|---|
| `Plan` | `parse()` and the planning loop, `__main__.py:214-300, 412-539`, in one step because it only reads; `Kind` follows the branches of the loop in their order |
| `Perform` (`Move`, `Write`, `Delete`, `Chmod`, `Submodule`) | one call of the loops at `__main__.py:541-593` |
| `Stumble` | the same call failing: only said for `chmod` and submodules, the end of the program for the others. `Leavings` is what it leaves of the file: as it was, written without its mode, broken off (marked `Torn`), or gone where a link was to be |
| `Add`, `Exit` | `stage()` of one path, the exit status |
| `Check`, `MkPatch`, `GitApply`, `FuzzyReturns`, `Commit` | `committe.sh`: the clean check, the model with its retries, `git apply --index`, the retries of git-apply-fuzzy, `git commit` |
| `Edit`, `Stage` | the user |
| `Pretest`, `Round`, `Green`, `Red`, `GiveUp` | `itera.sh`: the tests before, a round of `committe`, the tests after it |
| `Merge`, `RemoveWorktree`, `RootMoves` | `geni.sh:140-165` and somebody who commits to the branch meanwhile |

git is external: `GitEntry` says what `git apply` does with one entry, as the script
relies on it, and `Same` what `git diff` compares. The patch is any of those in
`Patches`. `-p` is 1, `Forced` is its `--force`. `--dry-run` (which stops at the gate) is left out, a kill of
the programs too: after one nobody goes on. `geni`'s worktree is there at the start.

### HunkPlacement, Replay, Streams

Pure operators, no RECURSIVE ones. `Locate` is the code's search (exact, without
trailing space, most similar, each nearest to the hint first), `Matching` is difflib's
matching blocks; `Splice` and `ApplyHunks` follow by name. Lines are a text and
whether white space trails it. `Declared` says, independently, what file a list of
hunks cut from a file declares.

`Replay` has `TurnsFromRows`, `Normalize` and the `build()` of the three chat protocols,
and `LiveTurns`: what `dic()` sends round by round without the database.
A message is a role and a sequence of parts, `raw` what the provider sent. An earlier
call of the conversation may be a job, which answers with files; `gone` are the files that
have been removed since, and a row that names one (`Readable`) refuses the request. The rows
are those of calls that were answered: a cancelled row, continued with `--mid`, is left out.
`Streams` folds `ChatParse`, `AnthropicParse` or `ResponsesParse` over frames; a text is the
sequence of its pieces.

### Prices, Bills

`Prices` has the pure operators. It writes a usage name as the sequence of its
dotted parts and dollars in millionths, so that a rate per million is a factor.
Its `when` is a threshold on the prompt's length; `price_hash` is left out.
`Bills` is what one call does with them:

| action | code |
|---|---|
| `Init` | the entry's table, and `cache_ttl()` before anything is sent (`client.py:754-758`) |
| `Reply` | `parse()`: what the reply has said of its usage by the time it is billed |
| `Tools`, `Store`, `NextRound` | a round that asked for tools: `billing()` and `rounds.append` (`client.py:1002-1003`), `insert()` and the commit (`1007-1015`), the next round with an empty `acc` |
| `Settle` | the last round is billed and the loop left (`client.py:1002-1006`) |
| `Answer` | its row and its line; without a cost if the stream failed after its 200 (`client.py:1094-1119`) |
| `Cancel`, `Fail` | the two handlers, which bill what is in `acc` (`client.py:1038`, `1067`) and store no cost |
| `Tie` | `billing()` raises, and raises again in the handler |

`rounds` are the bills as the code keeps them, each with the reply it was made of;
`rows` is what was stored of each, and `line` what `price.merged` and `summary()` show.
What the rounds say and which row hangs below which is `DicCall`'s.

### Progress

`row` is the writer whose text stands, not ended, on the terminal's last row.

| action | code |
|---|---|
| `Wait` | the top of a round, `client.py:911-916`: its fresh meters and, if there is one, `Line.wait()` |
| `Elapse`, `Wake`, `Paint`, `Leave` | the thread: WAIT_DELAY over, the look at the event, the paint after it, the end |
| `StopClock`, `Join` | `Line.stop_clock()` and what its callers do with the row: `first_token()`, `status()`, `close()` and `close_meters()` |
| `Connect`, `Arrives`, `Thought`, `ThoughtEnds`, `Answer`, `StreamEnds` | `events()` and the loop of `dic()` |
| `Submit`, `Poll`, `Fetch`, `Blob`, `Yielded` | `call()` of the job adaptors |
| `Rounds`, `Interrupt` | the next round of a tool loop, ^C |

The look at the event and the paint that follows are two steps, which is what
`join()` is for. The rate limit of the meters, the width and all wording are left
out. `MaxPolls` is how many polls fit into POLL_S. A server that reasons
does so before it answers in that round (`Arrives`; finding 17 is what happens otherwise).
`quiet` (`-q`, `DIC_VERBOSITY=0`), `metered` (not `--no-pv-thinking`) and `piped` are the
options of the call: without a meter no thread is started, and with `quiet` the report of
a tool call, which is what ends an answer's row between two rounds, is not written.
`--pv-response` on a terminal, which asks for the answer and its meter on one row, is left out.

## The runs

| run | instance | what it shows |
|---|---|---|
| `core_safety` | 2 calls, sessions `parent` and `parent/child`, 3 rounds, 1 tool call a round | all invariants of `DicCall`, and that it implements `MessageTree` |
| `core_live` | 2 calls, the same sessions, 2 rounds, one call under a ceiling of 1, fair | every call ends, the lock is released, the ceiling stops a call |
| `failed_row_replayed` | 1 call | a counterexample: finding 1 below |
| `sink` | a call with `-f` and one without, 2 blob names, 3 chunks, 2 rounds | all properties of `Sink` |
| `one_blob_one_file` | 1 call, 2 chunks | a counterexample: finding 4 |
| `config` | 3 commands, one with a file of its own, 2 files, 1 edit each, chains of up to 2 names in front | all properties of `ConfigCache` |
| `fresh_db` | 2 commands | a counterexample: finding 19 |
| `patch` | 5 paths, some 420 patches of one or two entries, 1 retry, 1 failing call, 1 edit of the user, 2 rounds | what is committed, what a refusal leaves, what lands on the branch |
| `algorithms` | 88 145 inputs | all properties of `HunkPlacement`, `Replay` and `Streams` |
| `bills` | 38 price tables in two protocols, 2 rounds, 24 or 28 replies a round | all properties of `Bills` |
| `progress` | every adaptor, 3 polls, 3 rounds, with and without `-q`, `--no-pv-thinking` and a pipe | all properties of `Progress` |
| `progress_quiet` | the same | a counterexample: finding 22 |

The properties, and the code they are about:

- `PointerSound`: a pointer names a durable 200 of its session with no tool
  call open. It needs the commit, the status check and the pointer in that
  order, and no rollback of what a pointer names.
- `RoundsChain`: a parent is older than its child, and a running call never
  continues from a row that someone else's rollback can remove
  (`NoDanglingParent`); the rounds of a call form a chain, at most
  `MAX_TOOL_ROUNDS` long. A ^C around the commit of a round may store that round twice, and the
  property says exactly which second copy is possible.
- `ContinuedIsWhole`: nothing but `--mid` continues a row
  that ended its call badly, or one whose tool calls have no results. `--mid`
  is excluded because `resolve_ref` accepts any row.
- `ContinueStaysHome`: `-c` continues a 200 of its own session.
- `OutcomeStored`: how a call ended is what its last durable row says; a call
  refused before the network has no row.
- `CeilingStops`: once a subtree's finished calls have spent the ceiling, the
  check lets no further call of that session through. Calls already past the
  check are not stopped, which is why the property counts finished ones.
- `TreeSpec`: the refinement, with `tree` the durable prefix of the table and
  `head` the pointers.
- `EveryCallEnds`, `LockReleased`: liveness.
- `PlacedWhole`, `OutputsOnce`, `OutputsKept`, `UserFileKept`, `PendingNamed`:
  a name holds all of one call's text; the rows of a call that finished name
  each blob once; a file a row names keeps its bytes until somebody uses `-f`;
  a file the user put there before the look is never replaced; the row of a
  call cut short names the `.part`.
- `CacheCurrent`: recorded stamps are never newer than the rows they stand for,
  so a cache whose stamps match the files holds the files. It is why the
  stamps are taken before the parse.
- `AloneIsCurrent`: whatever others left in the cache, a command that nobody
  disturbs resolves what its own files say. Chains are included as long as no
  overtaken process wrote a row (`raced`).
- `AdhocFresh`: an ad-hoc row differs from the table it stands in only after
  that race, and the next rewrite of the table takes it away.

- `GateHolds`: until one git-apply-fuzzy has been through all of the patch nothing
  has changed, and never if some entry cannot be done (`Hopeless`), on no try.
- `CommitsThePatch`: undisturbed, the commit is what the patch says, whichever
  of the two programs applied it. `Proper` names what it has to assume: one
  entry a path, and no directory called `a` or `b` around a rename.
- `CommitIsTheTree`: after any failures and retries a commit leaves nothing behind.
  `Submodules` are excepted in this property, in `GateHolds` and in `LandedIsTested`:
  `set_submodule()` writes the index and leaves the checkout to the user.
- `ComesToAnEnd`: every step of committe leaves less to do, first of the tries
  (`TriesLeft`), then of the way through one (`WayLeft`), then of git-apply-fuzzy's
  operations (`OpsLeft`); with deadlock checking no state short of the end has no step,
  so it returns.
- `LandedIsTested`, `WorkIsReachable`: what the branch gets is a tree the tests passed
  on, and no commit is lost when it does not get it.
- `PatchMakesWhatItDeclares`: hunks cut from a file make the file they declare,
  however often its lines repeat; insertions that quote no line of the file are
  left out (finding 8).
- `OtherLinesKept`: wherever a drifted hunk lands, the file loses only the lines the
  patch removes and gains only those it adds.
- `TokensBilledOnce`, `CacheWritesBilled`: the counts billed in each round are the
  totals reported; a TTL that is accepted is billed.
- `LineIsTheRows`: of the rounds' tokens and dollars the line shows all, once, and each
  item on it is its count times its rate. The rounds of an answer are the rows it was
  stored in, each with its cost; a cancelled call's last row has none.
- `LineAddsUp`: the input and the output shown are the total shown, so every item is
  under one of the two. A provider's own charge is under neither and is shown alone.
- `ReplaysAlone`: going on from an answer of the same protocol, the request is the one
  the last round was sent with, its answer, and the prompt.
- `AnswersFollow`: through any change of protocols every call in a request is
  answered once, directly after the calls; the calls are those of the request's own
  protocol and no others (finding 24), and the files are all there.
- `RebuiltAsSent`: for every mix of frames and every cut of the stream.
- `RowChangesHands`: between two writers the row is ended; the line's own status
  follows its clock. Two rows nobody ends are left out by name, each with the option that
  makes them: printed reasoning (finding 23), and under `-q` the answer of an earlier
  round (finding 22).
- `AnswerNotPaintedOver`: what `tty.py:166` says of an answer, which finding 22 refutes.
- `NothingRepaintsAfter`: a call that ended in a way `dic()` handles leaves no thread and
  no open line. Other exceptions are left out by name (finding 16).
- `JobEnds`: a job that stays in its queue is given up.

### Bounds

`MaxToolRounds` is 16 in the code; 3 rounds give a first, a middle and a last
one, and 2 the boundary alone. One tool call a round is enough for "some of
them answered" to differ from "all", because none answered is "some". Two calls
meet each other at every pair of steps, and what the ceiling does with more is a
theorem (`BudgetHolds`). Two sessions, one nested, are
all the relations two names can have apart from "unrelated", which constrains
less. In `Sink` three chunks are the fewest that give a blob, something else
and a blob again, and two numbered names let the first be taken.
In `ConfigCache` two commands race and a third, alone afterwards, sees what they
left; one edit of each file is enough for older and newer to differ, and two
prefixes for a chain to be half there.
In `patch` the five paths are a file, a free name, one in a directory that is not there, a file
in a directory called `a`, and a submodule; every pair has at least one entry about the file, since entries about
other paths alone do not meet. One failing call suffices because the first one ends
the program or leaves the mark (`failed`), and one retry is the first that
meets what a try left. `Torn` is a number no entry has. In `algorithms` files have up to four lines of two texts (the
fewest in which a block of two can occur twice, apart and overlapping), hunks come alone
and in pairs with their first line and their line number drifting; conversations have up to three calls in any three
protocols with up to two rounds, the earlier ones also jobs, with no file or one gone;
streams have up to two calls with arguments
of up to two pieces, and are cut everywhere. Each input is one state, which is why
this run stops (`CHECK_DEADLOCK FALSE`), and so do `progress` and `bills` when a call is
over. In `bills` the tables are any subset of five refinements (by name, by tier, by
length), from `price` or the older keys, and of the two cache rules; the replies have
counts of nothing, of a prompt that is all cached, and on both sides of the length;
two rounds are a merge and the boundary of `MAX_TOOL_ROUNDS`.
The symmetry in `core_safety` permutes the calls, which
the module never tells apart, and in `config` the two commands that read the
same files; `core_live` uses none.

### Fairness

Each call's own steps are weakly fair together (`Progress`): a process that can
run does run, and sqlite's busy handler turns a wait for the lock into `Busy`
after five seconds, so waiting is always bounded. ^C, crashes, refusals, further
tool calls and attachments are not fair. `EndStream` is: that is an assumption
about the peer, since `http.client` is given no timeout, and without it a call
may wait for ever (a hazard in the list). No fairness is claimed for the start
of a call, which is why `EveryCallEnds` begins at "opened".

In `Progress` both threads are scheduled. That a job service answers or refuses each
request is an assumption about the peer again, since `urlopen` is given no timeout
either; what the code adds, and the property is about, is that a service that
answers "still queued" for ever is given up. Nothing is promised for streams.
`Elapse` and ^C are not fair.

## The theorems

Every property of the passing runs but liveness and those of `algorithms` is a theorem: what the runs show on small instances holds for every
value of the constants.

### DicCall

For any set of calls and sessions, any nesting, any number of rounds and tool calls,
and any budget. The assumptions are those of `DicCall`: the marker `NoCall` is not a
call, `Ancestors` maps sessions to sets of sessions and no session is its own
ancestor, and the bounds are numbers.

| theorem of `DicCallProofs` | says |
|---|---|
| `Invariance` | `Spec => []IInv` |
| `TypeCorrect` | `Spec => []TypeOK` |
| `PointersSound` | `Spec => []PointerSound` |
| `NoRowDangles` | `Spec => []NoDanglingParent`, a part of `RoundsChain` |
| `Refinement` | `Spec => TreeSpec` |

`PointerSound` and `NoDanglingParent` are not inductive. `IInv` adds:

- `LockInv`: rows beyond `committed` exist only while someone owns the lock,
  and all of them are the owner's. Without it a rollback could take a row that
  somebody's pointer or parent names.
- `StageInv`: what the locals hold at each stage, for example that a call about
  to store its last answer asked for nothing more, and that one between an
  insert and its commit owns the lock.
- `PointingInv`: a call about to write its pointer has a durable whole
  answer of its session in `mid`.

The argument: `TypeStep`, then `TableStep` (an action of one call appends one
row, rolls back its own rows, or leaves the table alone) and `OthersStep` (what
other calls may rely on meanwhile). From these `DurableStep` shows that durable
rows never change, which carries `PointingInv`, the pointers and the parents
through the steps of every other call; each action's own effect is treated in
the lemma named for the conjunct. `Refinement` maps a step that commits to
`Grow`, `PointSession` to `Advance`, everything else to a stutter.

| theorem of `DicCallProofs`, second part | says |
|---|---|
| `RowsTell` | `Spec => []TreeInv` |
| `RoundsHang` | `Spec => []RoundsChain` |
| `OnlyWholeContinue` | `Spec => []ContinuedIsWhole` |
| `HomeIsKept` | `Spec => []ContinueStaysHome` |
| `CallsEndAsTheTableSays` | `Spec => []OutcomeStored` |
| `BudgetHolds` | `Spec => CeilingStops` |

What a row may say depends on what its call knew when it stored the row, so none of
these is inductive without the other side. `TreeInv`, on top of `IInv`, is both:

- `CallInv`: what a call and the rows it has stored say of each other, by stage. A
  round not stored yet hangs below the round before it, which asked for tools and
  has all the results (`Unstored`); a stored one is what the next hangs below
  (`Stored`); a ^C finds either; a call that has ended ends with a row of that error.
- `RoundInv`: the counters, with the order of `NextRound`'s check.
- `RowInv`: what one row says of its parent and of its call's earlier rows.

A step appends at most one row, and `RowSays` of the older rows is about rows that stay
(`DurableStep`, `LockInv`). `BudgetHolds` is about a step and counts: the finished
calls of a session's subtree map one to one into the billed durable rows the
check sums (`DoneIsBilled`, from `Answers`), so their number is at most what the check
reads.

### Sink

For any set of calls, with any of them forced, any number of blobs, chunks and rounds,
and a user who creates files of those names at any moment.

| theorem of `SinkProofs` | says |
|---|---|
| `Invariance` | `Spec => []IInv` |
| `TypeCorrect` | `Spec => []TypeOK` |
| `PlacedIsWhole` | `Spec => []PlacedWhole` |
| `NamedOnce` | `Spec => []OutputsOnce` |
| `NamedIsKept` | `Spec => []OutputsKept` |
| `UsersFilesKept` | `Spec => UserFileKept` |
| `WhatIsOpenIsNamed` | `Spec => PendingNamed` |

`IInv` says whose bytes are where: `Alone` (calls on one PATH run one after another),
`OpenInv` (an open `.part` is its call's and nobody else's, because opening cuts what a
cancelled call left), `FinalInv` (a file in place with anything of a call is all that
call's), `ClearInv` (a name `commit()` found free is free still or the user's), and
`NamesInv` (the rows flattened are the first `seen` of `paths`, which is why `seen` has to
move with every stored round). `FlattenAppend` of `SequenceLemmas` is what a stored
round does to the flattened rows.

### ConfigCache

For any set of processes, any finite set of files with any choice of them for each
process, chains of any length and any number of edits. `NoRowAssumption` says the
marker of an absent row is not the keys of a row.

| theorem of `ConfigCacheProofs` | says |
|---|---|
| `Invariance`, `TypeCorrect` | `Spec => []IInv`, `Spec => []TypeOK` |
| `StampsNeverAhead` | `Spec => []CacheCurrent` |
| `ChainsFresh` | `Spec => []AdhocFresh` |
| `AloneIsRight` | `Spec => []AloneIsCurrent` |

`CacheCurrent` needs `SyncInv`: a process in `sync` holds stamps no newer than the
files, and keys no older than its stamps, and has parsed exactly what it has no
longer to do. `AdhocFresh` needs `LookInv` (what `materialize` has in hand is from
the present table unless it was overtaken) and `RowsInv` (it has one row in hand for
each prefix it looked at). The lemmas named `...Loc` say once what each action does
to the locals, and the `...Step` lemmas are one for each conjunct.

`AloneIsCurrent` speaks of the end of an undisturbed command, and `SoloInv` of all of
its way. `Alone` says that nobody else runs, that the stamps still stand, and what is
known at each stage: stamps of exactly its own files before the comparison, then
configured rows that are what those files say. That a cache it did not write is
current follows from `CacheCurrent`: stamps that equal the files leave the rows no
room between them. For the chain `TableInv` says what a table keeps whoever writes into
it: a prefix found defined stays defined (`SeenInv`), so an insert by one that was not
overtaken leaves the whole chain, and chains are there from their entry up
(`ChainInv`) until an overtaken one writes.

### Progress

For any of the adaptors and any number of polls and rounds:

| theorem of `ProgressProofs` | says |
|---|---|
| `Invariance`, `TypeCorrect` | `Spec => []IInv`, `Spec => []TypeOK` |
| `NothingLeft` | `Spec => []NothingRepaintsAfter` |
| `RowsApart` | `Spec => RowChangesHands` |

`RowChangesHands` is about a step, so it is proved from what holds before one:
`Owners` says who can be on the row (while the thread lives nobody but its
clock, and what was left open: `LeftOpen`, which only a stream brings about and only
with the options of findings 22 and 23), `Stages` what the main thread may rely on where it
stands (no thread after a join, a row that is free or left open when a round begins), `Ways` which stages are a stream's and which
a job's. One lemma per part, one case per action.

### git-apply-fuzzy, committe, geni

For any set of paths and files, any set of patches whose headers name those paths
(`PatchAssumption`: a model has to know the paths it has a tree for), any numbers of
retries, rounds, failing calls and edits, with and without `--force` and `-f`.

| theorem of `GeniProofs` | says | also assumes |
|---|---|---|
| `TypesHold`, `TypeCorrect` | `GeniSpec => [](Types /\ OuterTypes /\ OuterInv)`, `GeniSpec => []TypeOK` | |
| `NoWorkIsLost` | `GeniSpec => []WorkIsReachable` | |
| `ComesOn` | `GeniSpec => ComesToAnEnd` | |
| `StaysCalm` | `GeniSpec => []Undisturbed` | `HeadersAgree` |
| `NothingBeforeAll` | `GeniSpec => []GateHolds` | `HeadersAgree` |
| `TheTreeIsCommitted` | `GeniSpec => []CommitIsTheTree` | `HeadersAgree` |
| `TestedIsWhatLands` | `GeniSpec => []LandedIsTested` | `HeadersAgree` |
| `PatchIsCommitted` (of `CommitProofs`) | `GeniSpec => []CommitsThePatch` | `Conventions` |

A path is even when the tree has what is staged. `Calm` says where a path may be uneven
while the user keeps out: nowhere outside of a try (`EvenInv`), on paths of the patch
in one (`WithinInv`), and in a git-apply-fuzzy that has not failed only on paths it has
still to write or to stage (`PendingInv`), so that its exit status 0 means that
nothing is (`OkInv`). `HeadInv` and `BaseInv` tie the index to the commit, and `GateInv` says
that a patch of which an entry cannot be done has changed nothing.
A try that failed leaves the tree uneven, and the next may begin with `git apply`:
that it then takes the patch only if the index and the tree agree on every path it
touches is why the retry is safe.

It is safe only if both programs go to the same paths. `HeadersAgree` says so of the
patches: the paths git-apply-fuzzy takes from an entry are among those `git apply`
takes. Without it the theorems are false. In a tree with `x`, `y` and `a/x`, take a patch
that renames `a/x` to `y` and deletes `y`. git refuses it, since `y` is there;
git-apply-fuzzy takes `a/x` for `x` (finding 13), moves `x` to `y`, deletes `y`, and
fails to stage `x`, which is gone. The retry's `git apply` looks at `a/x` and `y`, finds
them as staged, and the commit leaves `x` deleted in the tree and not in it. The
patches of the `patch` run include the rename of such a file, with changes that do not
bring that about, so the run needs no such assumption, and says something of the
patches that the theorems leave out.

`ComesOn` says nothing of `HeadersAgree`: it counts. Each operation done or given up
takes one from `todo` and adds at most two paths to `applied`, each of which is staged
once; hence the 3 in `OpsLeft`.

#### What is committed is what the patch says

`CommitsThePatch` compares two ways through a patch: `git apply` goes entry by entry and
all at once, git-apply-fuzzy plans operations, sorts them by phase, and does them one
system call at a time, over several tries if need be. `Conventions` is what the proof asks of the patches:

- `HeadersAgree`, as above;
- `WrittenByGit`: each header is one `git diff` writes. A creation names no file on its
  first side, a removal none on its second, a rename two different ones; a mode that is
  said is made, removed or changed. parse() does not look at the other combinations;
- `SubmodulesApart`: where some patch makes or removes a submodule no patch has a file.
  git-apply-fuzzy writes a submodule to the index only, so the checkout of one is
  compared nowhere, and a file that takes its place would not be either.

`MCGeni` has TLC evaluate all three on the patches of the `patch` run. They hold of all but
the rename of `a/x`, which has no `HeadersAgree` and which `Proper` excepts in the
property itself. `CommitteAssumption` says that the marker `None` is neither a path,
a mode nor a file, and that `Torn` is a number; `PatchAssumption` that no patch has an
entry of that number.

The argument, in the order of the module:

- Entries of a patch that is `Proper` are on different paths, so what `git apply` makes of
  the tree is, path by path, what the one entry there makes of the file that was
  there before (`MeantSplits`): the order does not matter.
- Each entry is planned as one operation, or a move and one more (`EntryShape`). These
  are in `todo` sorted by phase (`OrderedRanked`, `OpsOfRanked`), moves first (`HeadRanked`),
  and those of different entries touch different paths (`OpsApart`).
- `Running` says where a git-apply-fuzzy that has not failed stands: of each entry
  nothing is done, or it is renamed, or it is done (`TreeAs`), by what is left of it
  in `todo`; the index has the same but for what is still to be staged. When nothing
  is left the index is `Target` (`AllDone`).
- With no call failing and the user keeping out (`Alone`), a try fails only over an
  entry that makes an empty file (finding 10). Such an entry fails again on every try,
  and in between `git apply` refuses: what brought git-apply-fuzzy in, a hunk that
  drifted or a submodule, is still there (`Spoilt`, `Stuck`, `GitRefuses`). So nothing is
  committed, rather than half of it. This is the case in which the retry meets a tree
  that is neither clean nor done.
- A patch that moves or creates something in a directory that is not there (no `Homed`)
  fails in every git-apply-fuzzy, at that operation or at one before it. Before it come only
  moves and creations, which leave the index alone, so the next `git apply` sees the index
  of the beginning (`Astray`, `AstrayKept`), and takes all of the patch or nothing.
- `LinkInv` keeps submodules apart from one round of geni to the next. `CommitInv` puts these
  together: from the first try to the commit the tree is `Pristine`, `Running` or
  `Stuck`. It is inductive relative to `Undisturbed` (`StaysCalm`).

### Prices and Bills

For any models and tables, any replies, any bound on the rounds, and a ^C or a failure
at any step. `BillsAssumption` says of the constants that every table is `Rated` (its rules
have names, each its own and none of them `provider`) and that every reply's subsets are
within its totals (`ReplyCounts`); that the writes come under the TTL asked for is
the guard of `Reply` (`ReplyWrites`).

| theorem of `PricesProofs` | says |
|---|---|
| `BillsAreKept`, `BillsTypeOK` | `Spec => []IInv`, `Spec => []TypeOK` |
| `EveryTokenIsBilledOnce` | `Spec => []TokensBilledOnce` |
| `EveryWriteIsBilled` | `Spec => []CacheWritesBilled` |
| `RoundsReadAsOneCall` | `Spec => []LineIsTheRows` |
| `LinesAddUp` | `Spec => []LineAddsUp` |

`IInv` ties the money to the stage. `BillsInv`: each bill is what `billing()` makes of what
`parse()` kept of some reply (`Kept`), so that what holds of every reply holds of every
bill. `CountInv`: how many rounds are billed and stored at each stage, and that the round
being stored is the last one billed. `RowsInv`: while the call goes well, row by row the
bill of the same round, with its cost. `LineInv`: a line that is shown is `merged()` of
all the bills. `ModelInv` keeps the outcome of `cache_ttl()`.

`Rated` excludes the one name `reported()` uses for the provider's own charge, which
nothing keeps a table from using. `TokensBilledOnce` is about tables that price the
direction without a condition (`Priced`), and `CacheWritesBilled` about tables whose rules for
that write carry its name and no condition (`PlainFor`), which is what
`cache_ttl()` takes for granted: it looks at the names of the rules and not at their
conditions. A rule that matches a write as well as its own must be as long a
pattern, hence the same name (`WritesHaveTheirRule`).

`RoundsReadAsOneCall` adds up the items of all rounds in two ways. Round by round gives what the
rounds were billed; key by key, where the key is `MergeKey`, gives the merged items,
one from each key's first round (`MergedCosts`). Items of one key were priced by rules
of one name, so by one rule, whose unit price is a factor of the sum
(`MergedItemsMultiply`). The tokens are a table of names and rounds, summed by lines and
by columns (`MergedTotals`). `LinesAddUp` splits the merged items by the direction of their
names, of which there are only those `openai_usage()` and `cache_usage()` report (`Names`).

The sums of the community modules are recursive functions over subsets in an order
`CHOOSE` makes. The first part of `PricesProofs` shows that they exist (`SumsExist`), that
the order does not matter (`AnyOrder`), and that a sum may be split (`AddsSplit`), put into
classes (`Regroup`), given other names (`Reindex`) and swapped (`SumsSwap`).

### Sequences

The community modules define `FlattenSeq` by recursion, and the library's induction
theorems take an operator for a parameter, which the installed provers cannot
instantiate. `SequenceLemmas` does without: `LeastNumber` takes from well-founded
orders that a set of numbers has a least one, `Induction` is said of a set, and with it
`FlatExists` shows that the recursive definition has a solution, `FlattenElements` and
`FlattenAppend` what it returns, `FlattenRanked` in which order (`Ranked`: of two
elements the earlier stands in a given relation to the later, the phases of operations
for one). `GeniProofs` and `CommitProofs` use it for the order of the operations, and
`Induction` for `Meant`, a recursive function of its own; `PricesProofs` uses `Induction` for
its sums.

### What is only model-checked

- The properties of `HunkPlacement`, `Replay` and `Streams` (`algorithms`): bounded inputs.
  Each folds over its input, and would need an induction of its own.
- Liveness under fairness, which TLAPS cannot reason about: `EveryCallEnds`, `LockReleased`, `JobEnds`.

## Findings

1. A stream that fails after its 200 with a tool call already received is
   treated as one that asked for a tool: the tool runs, the failed row is
   continued by the same call, and it is billed (SPEC.md:424 and :369 say a
   failed row is a leaf without a cost).
2. The budget is checked before the first round only (SPEC.md:105 says before
   every request).
3. The pointer of a session is a file, and the pointer of a session nested in it
   needs a directory of the same name, so one of the two cannot be written: its
   call is answered, stored, and then fails with an OSError.
4. Images that follow each other without anything between them end in one file.
5. A failed stream's partial text is renamed into place before the status is
   looked at.
6. The handlers store only the pending `.part`: a blob of the same round that
   is already in place is on no row.
7. In git-apply-fuzzy `except OSError as error` makes `error` a local of `main`, so
   each of its error reports raises UnboundLocalError: a mismatch is a traceback,
   and `--force` never writes what did match.
8. A hunk that quotes no line of the file (`@@ -n,0`) is put one line early.
9. committe's retry applies the patch again to a tree that git-apply-fuzzy changed
   before a `git add` failed; an insertion that still fits is made twice.
10. A new empty file is planned as a change of mode and fails.
11. Creations run before deletions, so a path that changes its type is lost.
12. Of two entries for one path the second undoes the first, and a file the patch
    creates replaces an untracked one, which git apply refuses.
13. A rename under a directory called `a` or `b` goes to the wrong path.
14. An edit of the user to a file the patch names, made after the clean check, is
    committed with it.
15. Two price rules that differ only in `unit` are not taken for a tie.
16. An exception that is neither DicError nor ^C leaves the clock's thread running.
17. Reasoning that arrives after answer text begins a meter on the unfinished row.
18. `default_id` gives up at the first entry whose key is not exported.
19. `db()` reads the version, looks for the tables, creates them and stamps the
    version in separate steps: a second first command, or every command after a
    crash there, reports a schema mismatch and advises to delete the database.
20. `materialize` inserts rows copied from a table that another command may have
    rewritten since; the stale row stays until a source file changes.
21. A ^C while a round that asked for tools is being stored, or after the last round was
    billed and before the loop is left, bills that round a second time, and the cost line
    counts it twice (client.py:825: "a ^C's cost line and the
    reply's are the same numbers").
22. Under `-q` nothing ends the row of an answer before the next round, whose clock is
    painted over it (tty.py:166: "the answer never scrolls away and no two writers fight
    over one row of the terminal").
23. With `--no-pv-thinking` nothing ends the row of the reasoning: the answer begins on it
    (client.py:951: "the answer starts on a line of its own"), or a meter or clock
    repaints it.
24. A change of protocol drops tool calls and their results, of which SPEC.md:786 says
    that they "survive conversion".
25. git-apply-fuzzy makes no directory, so a patch that adds a file in a new one fails on
    every try of it (__main__.py:4: "A drop-in replacement for `git apply`").

1, 4, 19 and 22 are counterexamples of runs. The others were met while modelling and are
in the models as the code has them: 2 in the order of `CheckBudget` and `NextRound`, 3
in `PointerRefused`, 5 and 6 in `Close` and `Abandon`, 7 in `Breaks`, 8 in `Hint`, 9 in
`FuzzyReturns`, 10 and 11 in `Kind` and `Phases`, 12 and 13 in `Plan` and `Unprefixed`,
14 in `Add`, 15 in `Prices`, 16 in `Raise`, 20 in `InsertRows` (which is why `AdhocFresh`
speaks of the race), 21 in `Cancel` of `Bills`, 23 in `Thought`, 24 in `TurnsFromRows` (and
in `CallsCarried`, which is why `AnswersFollow` holds), 25 in `Possible`. The line and the quotation for each are in `PROJECT.json`.

## Plan

What is left, the most consequential first:

1. Proofs: that `Sink`, `ConfigCache` and `Progress` are what `DicCall` takes their
   steps for; lemmas about the operators of `HunkPlacement`, with `Induction` of
   `SequenceLemmas`.
2. Two calls at once on one PATH in `Sink`, which needs file offsets.
3. `default_id` and aliases in `ConfigCache`.

## Not modelled

- The command line and its options: argument parsing and exit codes.
- `--log`, `--stats`, `--providers`, `--cost-tree`: they read and print. Of `summary()`
  only the dollars are modelled.
- The pool of `generate_async`: one unlocked line builds it; the calls on it are `DicCall`'s.
- Tool schemas and argument binding, uploads, image encoding: conversions of data.
- `default_id` (finding 18) and aliases.
- `--dry-run` of git-apply-fuzzy, and `-p` other than 1.
- `accio`, which walks files and prints them; shell completion, which keeps no
  state; the sandbox, a command line for bwrap and a syscall filter whose
  behaviour is the kernel's.

Wording, colour and layout are left out everywhere.

## Running it

    tlc -workers 2 -config core_safety.cfg MCDicCall.tla
    tlapm CommitProofs.tla

Each run's module and configuration are in `PROJECT.json`. `core_safety`, `core_live`, `sink`
and `config` take about a minute each, `algorithms` half of one, the others seconds;
the proof modules some minutes together.
