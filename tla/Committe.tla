------------------------------ MODULE Committe ------------------------------
(***************************************************************************)
(* committe of src/scripts/committe.sh: one request, one patch, one        *)
(* commit, while the user works in the same tree.  git itself is modelled  *)
(* as the script uses it; git-apply-fuzzy is module ApplyFuzzy.            *)
(***************************************************************************)
EXTENDS ApplyFuzzy

CONSTANTS
    Patches,    \* the patches the model may write
    Present,    \* the files there are, as committed: path -> file or None
    Retries,    \* --retries
    Unchecked,  \* -f was given
    MaxEdits    \* bound: edits of the user

ASSUME CommitteAssumption ==
    /\ None \notin Paths /\ None \notin Modes
    /\ None \notin [mode : Modes, text : Seq(Nat)]
    /\ Retries \in Nat /\ MaxEdits \in Nat /\ MaxFaults \in Nat
    /\ Unchecked \in BOOLEAN /\ Forced \in BOOLEAN
    /\ User = 0 /\ Torn \in Nat    \* the entries of a patch are counted from 1

FileOrNone == [mode : Modes, text : Seq(Nat)] \cup {None}

\* Every path a header says, with its prefix or without, is one of Paths.
Known(h) ==
    /\ \A path \in {h.name, h.minus, h.plus} \ {None} : StripPath(path) \in Paths
    /\ \A path \in {h.from, h.to} \ {None} :
          path \in Paths /\ Unprefixed(path) \in Paths
    /\ {h.oldMode, h.newMode} \subseteq Modes \cup {None}

ASSUME PatchAssumption ==
    /\ Present \in [Paths -> FileOrNone]
    /\ \A q \in Patches : /\ q \in Seq(ToSet(q)) /\ \A h \in ToSet(q) : Known(h)
                          /\ Torn \notin DOMAIN q

VARIABLES
    head,   \* path -> the file of HEAD
    cm,     \* the script: where it stands and its loop counters
    user    \* how often the user has edited, and whether an edit was staged

vars == <<fuzzyVars, head, cm, user>>

\* `base' is the HEAD committe was called on.
NewCommitte(base) == [stage |-> "checking", asked |-> 0, tries |-> 0,
                      via |-> None, base |-> base]

\* The directories on the way to a path, and those that files are in.
Above(path) == {SubSeq(path, 1, n) : n \in 0..(Len(path) - 1)}
Folders(files) == {<< >>} \cup UNION {Above(p) : p \in {q \in Paths : files[q] # None}}

Init ==
    /\ head = Present /\ index = Present /\ tree = Present /\ dirs = Folders(Present)
    /\ patch = << >> /\ fuzzy = NewFuzzy /\ faults = 0
    /\ cm = NewCommitte(Present)
    /\ user = [edits |-> 0, staged |-> FALSE]

CmAt(s) == cm.stage = s
CmGoto(s) == cm' = [cm EXCEPT !.stage = s]
Returned == {"refused", "unanswered", "question", "failed", "done", "uncommitted"}

----------------------------------------------------------------------------
\* git apply: every entry in turn on the outcome of those before it, and
\* nothing at all if one of them does not fit.  `drift' is the one thing
\* git-apply-fuzzy is there to forgive.
GitNames(h) ==
    IF h.from # None THEN [old |-> h.from, new |-> h.to]
    ELSE LET path == StripPath(Or(h.name, Or(h.plus, h.minus)))
         IN [old |-> path, new |-> path]

Creates(h) == h.newMode # None /\ h.oldMode = None
Deletes(h) == h.newMode = None /\ h.oldMode # None

\* A mode may change a file's bits, but not what it is.
Kindred(a, b) == a = b \/ {a, b} \subseteq {Plain, Executable}

GitEntry(done, i, drift) ==
    LET h == patch[i]
        n == GitNames(h)
        file == IF n.old = None THEN None ELSE done.files[n.old]
        fits == /\ n.old # None /\ n.new # None
                /\ h.hunks \in (IF drift \/ Deletes(h) THEN {"none", "exact", "drifted"}
                                ELSE {"none", "exact"})
                /\ IF Creates(h) THEN file = None
                   ELSE /\ file # None
                        /\ \A mode \in {h.oldMode, h.newMode} \ {None} :
                              Kindred(mode, file.mode)
                /\ n.new # n.old => done.files[n.new] = None
                /\ h.hunks # "none" \/ h.newMode # None \/ n.new # n.old \/ Deletes(h)
        changed == IF h.hunks = "none" THEN << >> ELSE <<i>>
        after ==
            IF Deletes(h) THEN None
            ELSE IF Creates(h) THEN File(h.newMode, changed)
            ELSE File(Or(h.newMode, file.mode),
                      IF file.mode = Gitlink THEN changed ELSE file.text \o changed)
    IN IF done.ok /\ fits
       THEN [ok |-> TRUE,
             files |-> [[done.files EXCEPT ![n.old] = None] EXCEPT ![n.new] = after]]
       ELSE [done EXCEPT !.ok = FALSE]

Meant(files, drift) ==
    LET done[i \in 0..Len(patch)] ==
            IF i = 0 THEN [ok |-> TRUE, files |-> files]
            ELSE GitEntry(done[i - 1], i, drift)
    IN done[Len(patch)]

TouchedBy(h) == {GitNames(h).old, GitNames(h).new} \ {None}
Touched == UNION {TouchedBy(patch[i]) : i \in DOMAIN patch}

\* What git diff compares; a submodule's checkout is there or not.
Same(file, staged) ==
    file = staged \/ (file # None /\ staged # None
                      /\ file.mode = Gitlink /\ staged.mode = Gitlink)

\* --index: what is in the tree is what is staged.
Current(path) == Same(tree[path], index[path])

----------------------------------------------------------------------------
\* The clean check; untracked files are not looked at.
Check ==
    /\ CmAt("checking")
    /\ LET clean == /\ index = head
                    /\ \A p \in Paths : index[p] # None => Same(tree[p], index[p])
       IN CmGoto(IF Unchecked \/ clean THEN "asking" ELSE "refused")
    /\ UNCHANGED <<fuzzyVars, head, user>>

\* committe-mkpatch: the answer becomes the patch file.
MkPatch(answers) ==
    /\ CmAt("asking")
    /\ \/ /\ patch' \in answers
          /\ CmGoto("applying")
       \/ CmGoto("question") /\ UNCHANGED patch
       \/ /\ cm' = IF cm.asked < Retries THEN [cm EXCEPT !.asked = @ + 1]
                   ELSE [cm EXCEPT !.stage = "unanswered"]
          /\ UNCHANGED patch
    /\ UNCHANGED <<tree, dirs, index, fuzzy, faults, head, user>>

\* git apply makes the directories it needs and removes those it empties.
Emptied == UNION {Above(p) : p \in {q \in Touched : tree[q] # None /\ tree'[q] = None}}

\* git apply --index, and git-apply-fuzzy if it will not.
GitApply ==
    /\ CmAt("applying")
    /\ LET staged == Meant(index, FALSE)
       IN IF staged.ok /\ \A p \in Touched : Current(p)
          THEN /\ tree' = [p \in Paths |->
                            IF p \in Touched THEN staged.files[p] ELSE tree[p]]
               /\ index' = [p \in Paths |->
                             IF p \in Touched THEN staged.files[p] ELSE index[p]]
               /\ dirs' = Folders(tree') \cup (dirs \ Emptied)
               /\ cm' = [cm EXCEPT !.stage = "committing", !.via = "git"]
               /\ UNCHANGED fuzzy
          ELSE /\ CmGoto("fuzzy")
               /\ fuzzy' = [NewFuzzy EXCEPT !.stage = "planning"]
               /\ UNCHANGED <<tree, dirs, index>>
    /\ UNCHANGED <<patch, faults, head, user>>

\* Mutated Again: a try is not counted.
AgainForever == [cm EXCEPT !.stage = "applying"]

Again == [cm EXCEPT !.stage = "applying", !.tries = @ + 1]

\* Mutated Applied: the last try goes on to the commit however it ended.
AppliedAnyhow == At("ok") \/ cm.tries >= Retries

Applied == At("ok")

FuzzyReturns ==
    /\ CmAt("fuzzy") /\ fuzzy.stage \in Exited
    /\ cm' = IF Applied THEN [cm EXCEPT !.stage = "committing", !.via = "fuzzy"]
             ELSE IF cm.tries >= Retries THEN [cm EXCEPT !.stage = "failed"]
             ELSE Again
    /\ UNCHANGED <<fuzzyVars, head, user>>

\* git commit takes the whole index, and nothing at all if that is HEAD.
Commit ==
    /\ CmAt("committing")
    /\ head' = index
    /\ CmGoto(IF index = head THEN "uncommitted" ELSE "done")
    /\ UNCHANGED <<fuzzyVars, user>>

Fuzzy == CmAt("fuzzy") /\ FuzzyNext /\ UNCHANGED <<head, cm, user>>

EditedFile(file) ==
    IF file = None THEN File(Plain, <<User>>)
    ELSE [file EXCEPT !.text = Append(@, User)]

\* The user changes a file or makes one, and may stage what there is.
Edit(p) ==
    /\ user.edits < MaxEdits /\ cm.stage \notin Returned
    /\ tree[p] = None \/ Readable(tree[p])
    /\ tree' = [tree EXCEPT ![p] = EditedFile(@)] /\ dirs' = dirs \cup Above(p)
    /\ user' = [user EXCEPT !.edits = @ + 1]
    /\ UNCHANGED <<index, patch, fuzzy, faults, head, cm>>

Stage(p) ==
    /\ user.edits > 0 /\ cm.stage \notin Returned
    /\ Readable(tree[p]) /\ User \in ToSet(tree[p].text) /\ ~user.staged
    /\ index' = [index EXCEPT ![p] = tree[p]]
    /\ user' = [user EXCEPT !.staged = TRUE]
    /\ UNCHANGED <<tree, dirs, patch, fuzzy, faults, head, cm>>

Script(answers) ==
    Check \/ MkPatch(answers) \/ GitApply \/ FuzzyReturns \/ Commit \/ Fuzzy

----------------------------------------------------------------------------
TypeOK ==
    /\ tree \in [Paths -> FileOrNone]
    /\ dirs \subseteq {<< >>} \cup UNION {Above(p) : p \in Paths}
    /\ index \in [Paths -> FileOrNone]
    /\ head \in [Paths -> FileOrNone]
    /\ fuzzy.stage \in {"off", "planning", "doing"} \cup Exited
    /\ fuzzy.failed \in BOOLEAN
    /\ cm.stage \in Returned \cup {"checking", "asking", "applying", "fuzzy", "committing"}
    /\ cm.asked \in 0..Retries /\ cm.tries \in 0..Retries
    /\ faults \in 0..MaxFaults /\ user.edits \in 0..MaxEdits

Alone == user.edits = 0 /\ faults = 0

\* The paths some patch makes, moves or removes a submodule at: set_submodule()
\* works on the index, and leaves what is checked out there to the user.
Submodules ==
    {p \in Paths : \E q \in Patches : \E i \in DOMAIN q :
        LET n == Named(Parsed(q[i])) IN n.mode = Gitlink /\ n.path = p}

\* The entries git-apply-fuzzy cannot do, on the files committe was called on.
Hopeless(i) ==
    \/ /\ Breaks(i, cm.base)
       /\ Named(Parsed(patch[i])).source \notin Submodules
    \/ Wrong(i, cm.base) /\ ~Forced

\* Until the first git-apply-fuzzy has been through all of the patch nothing
\* has changed, and never if some of it cannot be done, however often it is
\* tried and whatever fails ("The repository is not touched until every hunk
\* has been located", __main__.py:27).
GateHolds ==
    /\ user.edits = 0
    /\ cm.stage \in {"fuzzy", "failed"}
    /\ \E i \in DOMAIN patch : Hopeless(i)
    => /\ index = cm.base
       /\ \A p \in Paths \ Submodules : tree[p] = cm.base[p]

\* A patch git-apply-fuzzy is made for: git apply would take it if its context
\* had not drifted, no path is in two of its entries, and no path is in a
\* directory called a or b (README, findings, has what happens otherwise).
Proper ==
    /\ Meant(cm.base, TRUE).ok
    /\ \A i, j \in DOMAIN patch :
          i # j => TouchedBy(patch[i]) \cap TouchedBy(patch[j]) = {}
    /\ \A i \in DOMAIN patch :
          patch[i].from # None => \A p \in TouchedBy(patch[i]) : Unprefixed(p) = p

\* What is committed is what the patch says, whichever of the two programs
\* applied it and however many files it moved, made and removed
\* ("A drop-in replacement for `git apply`", __main__.py:4).
CommitsThePatch ==
    Alone /\ CmAt("done") /\ Proper => head = Meant(cm.base, TRUE).files

\* A commit leaves nothing behind: whatever failed and was tried again, the
\* tree the tests run in next is the tree that was committed (itera.sh).  A
\* submodule's checkout is left to the user (set_submodule()).
CommitIsTheTree ==
    CmAt("done") /\ user.edits = 0
        => \A p \in Paths \ Submodules : tree[p] = head[p]

\* What is left to do: the tries, the way through one of them, and the
\* operations of git-apply-fuzzy, each of which may stage two paths.
TriesLeft == 2 * Retries - cm.asked - cm.tries
WayLeft ==
    CASE CmAt("checking") -> 6
      [] CmAt("asking") -> 5
      [] CmAt("applying") -> 4
      [] CmAt("fuzzy") -> IF At("planning") THEN 3 ELSE 2
      [] CmAt("committing") -> 1
      [] OTHER -> 0
OpsLeft == IF At("doing") THEN 1 + 3 * Len(fuzzy.todo) + Len(fuzzy.applied) ELSE 0

LessLeft ==
    \/ TriesLeft' < TriesLeft
    \/ TriesLeft' = TriesLeft /\ WayLeft' < WayLeft
    \/ TriesLeft' = TriesLeft /\ WayLeft' = WayLeft /\ OpsLeft' < OpsLeft

\* committe returns, whatever fails and whatever the user does meanwhile: each
\* step leaves less to do, in an order without infinite descent (no count is
\* ever below 0), and no state short of the end has no step.
ComesToAnEnd ==
    [][user' = user /\ cm.stage \notin Returned => TriesLeft \in Nat /\ LessLeft]_vars

=============================================================================
