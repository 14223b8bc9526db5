----------------------------- MODULE ConfigCache -----------------------------
(***************************************************************************)
(* The start of every command: db() of src/src/dic/store.py and sync() and *)
(* resolve() of src/src/dic/config.py, as client.py:589-591 and 702 call   *)
(* them.  The parsed configuration is cached in dic.db beside the stamps   *)
(* of the files it came from.  Any number of processes share one dic.db,   *)
(* each with its own list of files, while the user edits them.             *)
(*                                                                         *)
(* What a file says is the number of its edits, and that number is also    *)
(* its mtime and size.  The keys of an entry are the edits of the files    *)
(* they were parsed from.                                                  *)
(***************************************************************************)
EXTENDS Naturals, Sequences, FiniteSets

CONSTANTS
    Procs,      \* the commands run
    Files,      \* configuration files, numbered from the weakest
    SourcesOf,  \* process -> the files it would read, its --models-file too
    Depth,      \* names in front of the model in an ad-hoc chain
    NoRow,      \* not the keys of a row
    MaxEdits    \* bound: edits of one file

ASSUME ConfigAssumption ==
    /\ Files \subseteq Nat /\ IsFiniteSet(Files)
    /\ SourcesOf \in [Procs -> SUBSET Files]
    /\ \A p \in Procs : \E f \in SourcesOf[p] : \A g \in Files : f <= g
    /\ Depth \in Nat \ {0}
    /\ MaxEdits \in Nat

VARIABLES
    database,  \* dic.db: does it have its tables, and its version
    edits,     \* file -> how often it was changed
    present,   \* the files that exist
    config,    \* the rows of the configured entries
    meta,      \* config_meta: file -> the stamp recorded for it
    adhoc,     \* prefix of the ad-hoc chain -> the keys of its row
    stage,     \* process -> where it stands
    loc,       \* process -> its locals
    quiet,     \* the process nobody has disturbed since it started
    overtaken, \* processes whose look at the table another has replaced
    raced      \* has one of those written into the table there is now

cache == <<config, meta, adhoc>>
world == <<edits, present>>
ghosts == <<quiet, overtaken, raced>>
vars == <<database, world, cache, stage, loc, ghosts>>

Ended == {"resolved", "mismatch", "failed"}
Stages == {"idle", "probed", "creating", "stamping", "opened", "statting",
           "parsing", "synced", "looking", "inserting", "folding"} \cup Ended

\* Keys, by the edits of the files they come from.
Snapshots == UNION {[S -> 0..MaxEdits] : S \in SUBSET Files}
Prefixes == 1..Depth

ASSUME NoRowAssumption == NoRow \notin Snapshots

\* Each is reset where its function returns.
\* `found': user_version as db() read it; `todo', `stamps' and `read' belong to
\* sync(); `want' is the length of the chain -m names, 0 for a configured entry;
\* `rows' are what materialize() is about to insert; `result' is what the chain
\* folds, from the configured entry down.
NewLocals == [found |-> FALSE, todo |-> {}, stamps |-> << >>, read |-> << >>,
              want |-> 0, rows |-> << >>, result |-> << >>]

Locals == [found : BOOLEAN, todo : SUBSET Files, stamps : Snapshots,
           read : Snapshots, want : 0..Depth,
           rows : Seq(Snapshots \cup {NoRow}),
           result : UNION {[I -> Snapshots] : I \in SUBSET (0..Depth)}]

Init ==
    /\ database \in {"empty", "stamped"}
    /\ edits = [f \in Files |-> 0]
    /\ present = Files
    /\ config = << >> /\ meta = << >>
    /\ adhoc = [i \in Prefixes |-> NoRow]
    /\ stage = [p \in Procs |-> "idle"]
    /\ loc = [p \in Procs |-> NewLocals]
    /\ quiet = {} /\ overtaken = {} /\ raced = FALSE

Reset(p) == loc' = [loc EXCEPT ![p] = NewLocals]
Goto(p, s) == stage' = [stage EXCEPT ![p] = s]
At(p, s) == stage[p] = s
Running(p) == stage[p] \notin Ended \cup {"idle"}
IsFirst(f, S) == f \in S /\ \A g \in S : f <= g

----------------------------------------------------------------------------
\* The user, or an upgrade, writes a file.
Edit(f) ==
    /\ edits[f] < MaxEdits
    /\ edits' = [edits EXCEPT ![f] = @ + 1]
    /\ present' = present \cup {f}
    /\ quiet' = {}
    /\ UNCHANGED <<database, cache, stage, loc, overtaken, raced>>

\* The packaged defaults stay where they are; the others may go.
Remove(f) ==
    /\ f \in present /\ ~IsFirst(f, Files)
    /\ present' = present \ {f}
    /\ quiet' = {}
    /\ UNCHANGED <<database, edits, cache, stage, loc, overtaken, raced>>

----------------------------------------------------------------------------
\* db().

\* PRAGMA user_version, 0 while nobody has written one.
ReadVersion(p) ==
    /\ At(p, "idle")
    /\ loc' = [loc EXCEPT ![p].found = (database = "stamped")]
    /\ quiet' = IF \E q \in Procs : Running(q) THEN {} ELSE {p}
    /\ Goto(p, "probed")
    /\ UNCHANGED <<database, world, cache, overtaken, raced>>

\* sqlite_master has the tables, but not the version that was read.
CheckSchema(p) ==
    /\ At(p, "probed")
    /\ Goto(p, IF database # "empty" /\ ~loc[p].found
               THEN "mismatch" ELSE "creating")
    /\ Reset(p)
    /\ UNCHANGED <<database, world, cache, ghosts>>

\* executescript(SCHEMA): each CREATE TABLE IF NOT EXISTS commits by itself.
CreateSchema(p) ==
    /\ At(p, "creating")
    /\ database' = IF database = "empty" THEN "unstamped" ELSE database
    /\ Goto(p, "stamping")
    /\ UNCHANGED <<world, cache, loc, ghosts>>

StampVersion(p) ==
    /\ At(p, "stamping")
    /\ database' = "stamped"
    /\ Goto(p, "opened")
    /\ UNCHANGED <<world, cache, loc, ghosts>>

----------------------------------------------------------------------------
\* sync().

\* Mutated Sources: the files of every process.
SourcesAll(p) == present

\* sources(): the files that exist.
Sources(p) == SourcesOf[p] \cap present

ListSources(p) ==
    /\ At(p, "opened")
    /\ loc' = [loc EXCEPT ![p].todo = Sources(p)]
    /\ Goto(p, "statting")
    /\ UNCHANGED <<database, world, cache, ghosts>>

\* A local that maps files to edits, with one file more.
With(known, f) ==
    [g \in DOMAIN known \cup {f} |-> IF g = f THEN edits[f] ELSE known[g]]

\* One file after the other; one that is gone by now fails the command.
StatFile(p) ==
    /\ At(p, "statting")
    /\ \E f \in present :
          /\ IsFirst(f, loc[p].todo)
          /\ loc' = [loc EXCEPT ![p] =
                [@ EXCEPT !.todo = loc[p].todo \ {f},
                          !.stamps = With(loc[p].stamps, f)]]
    /\ UNCHANGED <<database, world, cache, stage, ghosts>>

\* Mutated Cached: only what this process reads is compared.
CachedCovers(p) ==
    /\ DOMAIN loc[p].stamps \subseteq DOMAIN meta
    /\ \A f \in DOMAIN loc[p].stamps : loc[p].stamps[f] = meta[f]

\* The cache has these stamps and no others.
Cached(p) == meta = loc[p].stamps

Compare(p) ==
    /\ At(p, "statting")
    /\ loc[p].todo = {}
    /\ IF Cached(p)
       THEN Goto(p, "synced") /\ Reset(p)
       ELSE /\ Goto(p, "parsing")
            /\ loc' = [loc EXCEPT ![p].todo = DOMAIN loc[p].stamps]
    /\ UNCHANGED <<database, world, cache, ghosts>>

ParseFile(p) ==
    /\ At(p, "parsing")
    /\ \E f \in present :
          /\ IsFirst(f, loc[p].todo)
          /\ loc' = [loc EXCEPT ![p] =
                [@ EXCEPT !.todo = loc[p].todo \ {f},
                          !.read = With(loc[p].read, f)]]
    /\ UNCHANGED <<database, world, cache, stage, ghosts>>

\* Mutated Recorded: the files are looked at again after the parse.
RecordedLate(p) == [f \in DOMAIN loc[p].stamps |-> edits[f]]

\* The stamps written are those from before the parse.
Recorded(p) == loc[p].stamps

\* Mutated Kept: only the configured entries are deleted.
KeptAdhoc == adhoc

\* DELETE FROM config takes the ad-hoc rows along.
Kept == [i \in Prefixes |-> NoRow]

\* Both tables are rewritten in one transaction.
WriteCache(p) ==
    /\ At(p, "parsing")
    /\ loc[p].todo = {}
    /\ config' = loc[p].read
    /\ meta' = Recorded(p)
    /\ adhoc' = Kept
    /\ overtaken' = {q \in Procs : loc[q].rows # << >>}
    /\ raced' = FALSE
    /\ Reset(p)
    /\ Goto(p, "synced")
    /\ UNCHANGED <<database, world, quiet>>

----------------------------------------------------------------------------
\* resolve().

\* A configured entry, or a chain of `want' names in front of one.  A chain
\* that has a row already is not materialized again.
Choose(p) ==
    /\ At(p, "synced")
    /\ \E want \in 0..Depth :
          /\ loc' = [loc EXCEPT ![p].want = want]
          /\ Goto(p, IF want > 0 /\ adhoc[want] = NoRow
                     THEN "looking" ELSE "folding")
    /\ UNCHANGED <<database, world, cache, ghosts>>

\* materialize(), prefix by prefix: nothing for one that is defined, else the
\* keys of its longest defined suffix, a configured entry.
LookUp(p) ==
    /\ At(p, "looking")
    /\ LET i == Len(loc[p].rows) + 1
       IN /\ loc' = [loc EXCEPT ![p].rows =
                        Append(@, IF adhoc[i] = NoRow THEN config ELSE NoRow)]
          /\ IF i = loc[p].want THEN Goto(p, "inserting") ELSE UNCHANGED stage
    /\ UNCHANGED <<database, world, cache, ghosts>>

Inserted(p, i) == i <= loc[p].want /\ adhoc[i] = NoRow /\ loc[p].rows[i] # NoRow

\* INSERT OR IGNORE, in one transaction.
InsertRows(p) ==
    /\ At(p, "inserting")
    /\ adhoc' = [i \in Prefixes |->
                    IF Inserted(p, i) THEN loc[p].rows[i] ELSE adhoc[i]]
    /\ raced' = (raced \/ p \in overtaken)
    /\ overtaken' = overtaken \ {p}
    /\ loc' = [loc EXCEPT ![p].rows = << >>]
    /\ Goto(p, "folding")
    /\ UNCHANGED <<database, world, config, meta, quiet>>

\* RESOLVE, one query: up the chain by parent, as far as there are rows.  A
\* chain whose last row is not there has no keys, which is an error.
Fold(p) ==
    /\ At(p, "folding")
    /\ LET want == loc[p].want
           linked(i) == \A j \in Prefixes : j \in i..want => adhoc[j] # NoRow
       IN /\ linked(want)
          /\ loc' = [loc EXCEPT ![p].result =
                [i \in {j \in 0..want : linked(j)} |->
                    IF i = 0 THEN config ELSE adhoc[i]]]
    /\ Goto(p, "resolved")
    /\ UNCHANGED <<database, world, cache, ghosts>>

\* A crash, a file that went away, one that is not json, an id that is not in
\* the table, the lock timeout: the command ends and leaves what it has written.
Fail(p) ==
    /\ Running(p)
    /\ Goto(p, "failed")
    /\ Reset(p)
    /\ quiet' = quiet \ {p}
    /\ overtaken' = overtaken \ {p}
    /\ UNCHANGED <<database, world, cache, raced>>

Run(p) ==
    \/ ReadVersion(p) \/ CheckSchema(p) \/ CreateSchema(p) \/ StampVersion(p)
    \/ ListSources(p) \/ StatFile(p) \/ Compare(p) \/ ParseFile(p)
    \/ WriteCache(p) \/ Choose(p) \/ LookUp(p) \/ InsertRows(p) \/ Fold(p)
    \/ Fail(p)

AllEnded == (\A p \in Procs : stage[p] \in Ended) /\ UNCHANGED vars

Next ==
    \/ \E p \in Procs : Run(p)
    \/ \E f \in Files : Edit(f) \/ Remove(f)
    \/ AllEnded

Spec == Init /\ [][Next]_vars

----------------------------------------------------------------------------
\* Types; a process looks at no files but its own.
TypeOK ==
    /\ database \in {"empty", "unstamped", "stamped"}
    /\ edits \in [Files -> 0..MaxEdits]
    /\ present \subseteq Files
    /\ config \in Snapshots /\ meta \in Snapshots
    /\ adhoc \in [Prefixes -> Snapshots \cup {NoRow}]
    /\ stage \in [Procs -> Stages]
    /\ loc \in [Procs -> Locals]
    /\ \A p \in Procs :
          loc[p].todo \cup DOMAIN loc[p].stamps \subseteq SourcesOf[p]
    /\ quiet \subseteq Procs /\ overtaken \subseteq Procs /\ raced \in BOOLEAN

\* The recorded stamps are never newer than the rows they stand for, so a
\* cache whose stamps match the files holds the files (SPEC.md:707), however
\* many processes rewrote it while they were edited.
CacheCurrent ==
    /\ DOMAIN meta = DOMAIN config
    /\ \A f \in DOMAIN meta : meta[f] <= config[f] /\ config[f] <= edits[f]

Current(p) == [f \in SourcesOf[p] \cap present |-> edits[f]]

\* Whatever other processes left in the cache, with other files, cut off or
\* overtaken, a command that runs alone resolves what its own files say now.
ResolvesTo(p) ==
    loc[p].result = [i \in 0..loc[p].want |-> Current(p)]

AloneIsCurrent ==
    \A p \in quiet :
        At(p, "resolved") /\ (loc[p].want > 0 => ~raced) => ResolvesTo(p)

\* An ad-hoc row says what the entries it was copied from say, unless its
\* writer had looked at a table that is not there any more; the next process
\* to rewrite the table takes even that row away.
AdhocFresh ==
    \A i \in Prefixes : ~raced /\ adhoc[i] # NoRow => adhoc[i] = config

----------------------------------------------------------------------------
\* What the documents say and the code does not do.

\* store.py:437 db() opens the database "creating the schema when it is new",
\* and a mismatch means another build wrote it: there is only one build here.
OneBuildNeverMismatches == \A p \in Procs : stage[p] # "mismatch"
=============================================================================
