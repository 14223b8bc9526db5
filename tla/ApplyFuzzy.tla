----------------------------- MODULE ApplyFuzzy -----------------------------
(***************************************************************************)
(* git-apply-fuzzy on a whole tree: parse() and main() of                  *)
(* src/src/git_apply_fuzzy/__main__.py.  Everything is planned first, and  *)
(* then done one file at a time while the user edits.  Module              *)
(* HunkPlacement has what happens to the lines of one file; here a text is *)
(* the sequence of what was done to it: the number of each entry of the    *)
(* patch, User for an edit, and Torn where a write broke off.  A link leads *)
(* to a file that is there and is none of the repository's.                *)
(***************************************************************************)
EXTENDS Naturals, Sequences, SequencesExt

CONSTANTS
    Paths,      \* the paths of the repository, each a sequence of names
    None,       \* no path, no mode, no file
    User,       \* the mark an edit of the user leaves in a text
    Torn,       \* the mark of a file that was not written to its end
    Forced,     \* --force was given
    MaxFaults   \* bound: system calls and git commands that fail

VARIABLES
    tree,   \* path -> the file of the working tree, or None
    dirs,   \* the directories there are
    index,  \* path -> the file staged, or None
    patch,  \* the patch: a sequence of changes, as their headers say them
    fuzzy,  \* the process: where main() stands and its locals
    faults  \* how many calls have failed

fuzzyVars == <<tree, dirs, index, patch, fuzzy, faults>>

Plain == "100644"
Executable == "100755"
Link == "120000"
Gitlink == "160000"
Modes == {Plain, Executable, Link, Gitlink}
File(mode, text) == [mode |-> mode, text |-> text]

\* What a header says; the hunks are summed up by whether they match the file
\* they were made for, and whether they match a file they already changed.
\* `name' is the path of a `diff --git' line that gives one path twice.
Silent == [name |-> None, minus |-> None, plus |-> None, from |-> None,
           to |-> None, oldMode |-> None, newMode |-> None,
           hunks |-> "none", again |-> FALSE]

\* parse(): one entry.  /dev/null is no path, and a path said only by the
\* `diff --git' line is deleted unless a new mode is given.
Parsed(h) ==
    LET renames == h.from # None /\ h.to # None
        bare == h.minus = None /\ h.plus = None /\ ~renames
    IN [old |-> IF bare THEN h.name ELSE h.minus,
        new |-> IF ~bare THEN h.plus
                ELSE IF h.newMode # None THEN h.name ELSE None,
        renames |-> renames, from |-> h.from, to |-> h.to,
        oldMode |-> h.oldMode, newMode |-> h.newMode,
        hunks |-> h.hunks, again |-> h.again]

\* strip_path(), with -p 1, and unprefixed().
StripPath(path) == IF path = None THEN None ELSE Tail(path)
Unprefixed(path) == IF Head(path) \in {"a", "b"} THEN Tail(path) ELSE path

Or(a, b) == IF a # None THEN a ELSE b

\* The locals of the planning loop for one entry.
Named(e) ==
    LET old == IF e.renames THEN Unprefixed(e.from) ELSE StripPath(e.old)
        new == IF e.renames THEN Unprefixed(e.to) ELSE StripPath(e.new)
    IN [old |-> old, new |-> new, path |-> Or(new, old),
        mode |-> Or(e.newMode, e.oldMode),
        source |-> IF e.renames THEN old ELSE Or(new, old)]

\* A directory cannot be read, and open() and chmod() follow a link.
Readable(file) == file # None /\ file.mode # Gitlink
Leads(file) == file # None /\ file.mode = Link

\* Do the hunks of entry i match this file?  They do not match what a link leads
\* to, and what is left of a torn file no sooner than a file they changed.
Matches(e, i, file) ==
    /\ e.hunks \in {"exact", "drifted"} /\ ~Leads(file)
    /\ ToSet(file.text) \cap {i, Torn} # {} => e.again

Phases == <<"move", "create", "delete", "write", "chmod", "submodule">>

\* What becomes of entry i, by the branches of the loop, in their order.
Kind(e, i, files) ==
    LET n == Named(e) IN
    IF n.path = None THEN "nameless"
    ELSE IF n.mode = Gitlink THEN "submodule"
    ELSE IF n.new = None THEN "delete"
    ELSE IF n.old = None THEN "create"
    ELSE IF e.hunks = "none" THEN
        IF n.mode # e.oldMode THEN "chmod"
        ELSE IF e.renames THEN "move" ELSE "nothing"
    ELSE IF Readable(files[n.source]) /\ Matches(e, i, files[n.source])
    THEN "write" ELSE "mismatch"

Op(phase, path, mode, text) ==
    [phase |-> phase, path |-> path, from |-> None, mode |-> mode, text |-> text]

\* The operations planned for entry i.  The lines to write are made now.
OpsOf(e, i, files) ==
    LET n == Named(e)
        kind == Kind(e, i, files)
        renamed == e.renames /\ kind \in {"chmod", "move", "write"}
        text == CASE kind = "create" -> <<i>>
                  [] kind = "submodule" -> IF n.new = None THEN << >> ELSE <<i>>
                  [] kind = "write" -> Append(files[n.source].text, i)
                  [] OTHER -> << >>
    IN (IF renamed
        THEN <<[Op("move", n.new, None, << >>) EXCEPT !.from = n.old]>>
        ELSE << >>)
       \o (IF kind \in ToSet(Phases) \ {"move"}
           THEN <<Op(kind, n.path, n.mode, text)>> ELSE << >>)

\* Renames before creations, those before deletions, and so on.
InPhase(ops, phase) ==
    FlattenSeq([i \in DOMAIN ops |->
                   IF ops[i].phase = phase THEN <<ops[i]>> ELSE << >>])

Ordered(ops) ==
    FlattenSeq([p \in DOMAIN Phases |-> InPhase(ops, Phases[p])])

NewFuzzy == [stage |-> "off", todo |-> << >>, applied |-> << >>, failed |-> FALSE]
Goto(s) == fuzzy' = [fuzzy EXCEPT !.stage = s]
At(s) == fuzzy.stage = s
Exited == {"ok", "failed", "crashed"}
\* error() is a local of main() that an `except ... as error' never bound, so
\* every mismatch, unreadable file and failed write ends in UnboundLocalError.
Breaks(i, files) == Kind(Parsed(patch[i]), i, files) = "mismatch"
Wrong(i, files) == Kind(Parsed(patch[i]), i, files) \in {"nameless", "nothing"}

\* Mutated Gate: an entry that cannot be done does not stop the others.
GateForced(wrong) == TRUE

\* "a patch that fails to match somewhere leaves it exactly as it was."
Gate(wrong) == wrong => Forced

----------------------------------------------------------------------------
\* The planning loop, which only reads, and the gate behind it.
Plan ==
    LET wrong == \E i \in DOMAIN patch : Wrong(i, tree)
        ops == FlattenSeq([i \in DOMAIN patch |-> OpsOf(Parsed(patch[i]), i, tree)])
    IN /\ At("planning")
       /\ fuzzy' =
            IF \E i \in DOMAIN patch : Breaks(i, tree)
            THEN [fuzzy EXCEPT !.stage = "crashed"]
            ELSE IF ~Gate(wrong) THEN [fuzzy EXCEPT !.stage = "failed"]
            ELSE [fuzzy EXCEPT !.stage = "doing", !.todo = Ordered(ops),
                               !.failed = wrong]
       /\ UNCHANGED <<tree, dirs, index, patch, faults>>

Doing(op) == At("doing") /\ fuzzy.todo # << >> /\ op = Head(fuzzy.todo)

\* Mutated DoneWith: the source of a rename is not staged.
DoneWithPath(op) ==
    fuzzy' = [fuzzy EXCEPT !.todo = Tail(@), !.applied = Append(@, op.path)]

DoneWith(op) ==
    fuzzy' = [fuzzy EXCEPT
        !.todo = Tail(@),
        !.applied = IF op.phase = "move" THEN @ \o <<op.from, op.path>>
                    ELSE IF op.phase = "submodule" THEN @
                    ELSE Append(@, op.path)]

\* The mode of a file that is written, as long as nobody has said another.
OwnMode(file) == IF file = None THEN Plain ELSE file.mode

\* Mutated ModeAfter: a file whose mode is not said is given none.
ModeAfterSaid(op) == op.mode

ModeAfter(op) == IF op.mode # None THEN op.mode ELSE OwnMode(tree[op.path])

\* permissions(): a mode is only good for its bits.
Permissions(mode) == IF mode = Executable THEN Executable ELSE Plain

\* No call makes a directory: what goes to a new one fails.
Housed(path) == Front(path) \in dirs

\* What the call of an operation needs to succeed.  A file that is written was
\* read where it is, or has just been moved there.
Possible(op) ==
    LET file == tree[op.path] IN
    CASE op.phase = "move" ->
            tree[op.from] # None /\ (file = None \/ Readable(file)) /\ Housed(op.path)
      [] op.phase = "create" ->
            (file = None \/ (Readable(file) /\ op.mode # Link)) /\ Housed(op.path)
      [] op.phase = "delete" -> Readable(file)
      [] op.phase = "write" -> IF op.mode = Link THEN Readable(file)
                               ELSE file = None \/ Readable(file)
      [] op.phase = "chmod" -> file # None
      [] op.phase = "submodule" -> TRUE

Move(op) ==
    /\ op.phase = "move"
    /\ tree' = [tree EXCEPT ![op.from] = None, ![op.path] = tree[op.from]]
    /\ UNCHANGED index

\* open(path, "w") makes the file, or empties the one of that name, or the one
\* a link of that name leads to.
Write(op) ==
    /\ op.phase \in {"create", "write"}
    /\ tree' = [tree EXCEPT ![op.path] = IF Leads(@) /\ op.mode # Link THEN @
                                         ELSE File(ModeAfter(op), op.text)]
    /\ UNCHANGED index

Delete(op) ==
    /\ op.phase = "delete"
    /\ tree' = [tree EXCEPT ![op.path] = None]
    /\ UNCHANGED index

Chmod(op) ==
    /\ op.phase = "chmod"
    /\ tree' = [tree EXCEPT ![op.path] =
                    IF Readable(@) /\ ~Leads(@)
                    THEN [@ EXCEPT !.mode = Permissions(op.mode)] ELSE @]
    /\ UNCHANGED index

\* set_submodule(): git update-index; the checkout is left as it is.
Submodule(op) ==
    /\ op.phase = "submodule"
    /\ index' = [index EXCEPT ![op.path] =
                    IF op.text = << >> THEN None ELSE File(Gitlink, op.text)]
    /\ UNCHANGED tree

\* One call of the five loops that touch the tree, in the order planned.
Perform ==
    \E op \in ToSet(fuzzy.todo) :
        /\ Doing(op)
        /\ Possible(op)
        /\ Move(op) \/ Write(op) \/ Delete(op) \/ Chmod(op) \/ Submodule(op)
        /\ DoneWith(op)
        /\ UNCHANGED <<dirs, patch, faults>>

\* What a failing call may leave of the file: a write that broke off, or whose
\* chmod() failed, and no file where a link was to be.
Leavings(op, file) ==
    {file} \cup
    IF op.phase \notin {"create", "write"} THEN {}
    ELSE IF op.mode = Link THEN IF op.phase = "write" THEN {None} ELSE {}
    ELSE IF Leads(file) THEN {}
    ELSE {File(OwnMode(file), text) : text \in {op.text, Append(op.text, Torn)}}

\* A call that fails: chmod and git only say so, everything else is error().
\* What is not possible fails at once.
Stumble ==
    \E op \in ToSet(fuzzy.todo) :
        /\ Doing(op)
        /\ IF Possible(op)
           THEN /\ faults < MaxFaults /\ faults' = faults + 1
                /\ \E left \in Leavings(op, tree[op.path]) :
                      tree' = [tree EXCEPT ![op.path] = left]
           ELSE UNCHANGED <<tree, faults>>
        /\ fuzzy' = IF op.phase \in {"chmod", "submodule"}
                    THEN [fuzzy EXCEPT !.todo = Tail(@), !.failed = TRUE]
                    ELSE [fuzzy EXCEPT !.stage = "crashed"]
        /\ UNCHANGED <<dirs, index, patch>>

\* stage(): git add -A of one path, which must match something.
Add ==
    /\ At("doing") /\ fuzzy.todo = << >> /\ fuzzy.applied # << >>
    /\ LET path == Head(fuzzy.applied)
           known == tree[path] # None \/ index[path] # None
       IN \/ /\ known
             /\ index' = [index EXCEPT ![path] = tree[path]]
             /\ fuzzy' = [fuzzy EXCEPT !.applied = Tail(@)]
             /\ UNCHANGED faults
          \/ /\ known => faults < MaxFaults
             /\ faults' = IF known THEN faults + 1 ELSE faults
             /\ fuzzy' = [fuzzy EXCEPT !.applied = Tail(@), !.failed = TRUE]
             /\ UNCHANGED index
    /\ UNCHANGED <<tree, dirs, patch>>

Exit ==
    /\ At("doing") /\ fuzzy.todo = << >> /\ fuzzy.applied = << >>
    /\ Goto(IF fuzzy.failed THEN "failed" ELSE "ok")
    /\ UNCHANGED <<tree, dirs, index, patch, faults>>

FuzzyNext == Plan \/ Perform \/ Stumble \/ Add \/ Exit
=============================================================================
