-------------------------------- MODULE Geni --------------------------------
(***************************************************************************)
(* geni and itera of src/scripts/geni.sh and itera.sh: committe and the    *)
(* tests in turn, in a worktree of their own, until the tests pass; then a *)
(* fast-forward of whatever branch the repository is on by that time.      *)
(* tree, index and head are the worktree's.                                *)
(***************************************************************************)
EXTENDS Committe

CONSTANTS
    MaxRounds,  \* --max
    Later       \* the patches of the rounds after the first

ASSUME GeniAssumption == MaxRounds \in Nat \ {0} /\ Later \subseteq Patches

VARIABLES
    it,     \* itera and geni: where they stand, and the round
    root,   \* the repository's branch: its files, and is it ahead of the cut?
    branch, \* is the branch geni cut still there, and its worktree?
    tested  \* the files the last green test run saw

geniVars == <<vars, it, root, branch, tested>>
outer == <<root, branch, tested>>

GeniInit ==
    /\ Init
    /\ it = [stage |-> "pretest", round |-> 1]
    /\ root = [files |-> Present, moved |-> FALSE]
    /\ branch = [there |-> TRUE, worktree |-> TRUE]
    /\ tested = None

ItAt(s) == it.stage = s
ItGoto(s) == it' = [it EXCEPT !.stage = s]
Stopped == {"red", "failed", "spent", "stale", "succeeded"}

----------------------------------------------------------------------------
\* The tests must pass before anything is asked for.
Pretest ==
    /\ ItAt("pretest")
    /\ ItGoto("looping") \/ ItGoto("red")
    /\ UNCHANGED <<vars, outer>>

Round ==
    /\ ItAt("looping")
    /\ Script(IF it.round = 1 THEN Patches ELSE Later)
    /\ UNCHANGED <<it, outer>>

\* A question ends the loop as a failure does: committe returned non-zero.
GiveUp ==
    /\ ItAt("looping") /\ cm.stage \in Returned \ {"done"}
    /\ ItGoto("failed")
    /\ UNCHANGED <<vars, outer>>

\* The tests see the tree, not the commit.
Green ==
    /\ ItAt("looping") /\ CmAt("done")
    /\ ItGoto("merging")
    /\ tested' = tree
    /\ UNCHANGED <<vars, root, branch>>

Red ==
    /\ ItAt("looping") /\ CmAt("done")
    /\ IF it.round < MaxRounds
       THEN /\ it' = [it EXCEPT !.round = @ + 1]
            /\ cm' = NewCommitte(head)
            /\ fuzzy' = NewFuzzy /\ patch' = << >>
       ELSE ItGoto("spent") /\ UNCHANGED <<cm, fuzzy, patch>>
    /\ UNCHANGED <<tree, dirs, index, faults, head, user, outer>>

\* Mutated FastForward: the branch is set to the new commit whatever it is at.
FastForwardOrReset == TRUE

FastForward == ~root.moved

\* merge --ff-only, onto where the repository is now.
Merge ==
    /\ ItAt("merging")
    /\ IF FastForward
       THEN root' = [root EXCEPT !.files = head] /\ ItGoto("removing")
       ELSE ItGoto("stale") /\ UNCHANGED root
    /\ UNCHANGED <<vars, branch, tested>>

\* worktree remove refuses a worktree with changes in it, and branch -d a
\* branch that is checked out in one; either way geni has succeeded.
RemoveWorktree ==
    /\ ItAt("removing")
    /\ LET clean == tree = head /\ index = head
       IN branch' = [there |-> ~clean, worktree |-> ~clean]
    /\ ItGoto("succeeded")
    /\ UNCHANGED <<vars, root, tested>>

\* Somebody commits to, or switches, the branch the repository is on.  That
\* may be at any time; before the merge it makes no difference to geni when.
RootMoves ==
    /\ ItAt("merging") /\ ~root.moved
    /\ root' = [root EXCEPT !.moved = TRUE]
    /\ UNCHANGED <<vars, it, branch, tested>>

UserEdits ==
    /\ ItAt("looping")
    /\ \E p \in Paths : Edit(p) \/ Stage(p)
    /\ UNCHANGED <<it, outer>>

End == it.stage \in Stopped /\ UNCHANGED geniVars

GeniNext ==
    \/ Pretest \/ Round \/ GiveUp \/ Green \/ Red \/ Merge \/ RemoveWorktree
    \/ RootMoves \/ UserEdits \/ End

GeniSpec == GeniInit /\ [][GeniNext]_geniVars

----------------------------------------------------------------------------
\* What lands on the repository's branch is exactly a tree the tests passed
\* on: the commit is the tree, and nothing was merged in between
\* (merge --ff-only, geni.sh:147).  The user kept out of the worktree.
LandedIsTested ==
    ItAt("succeeded") /\ user.edits = 0 =>
        \A p \in Paths \ Submodules : root.files[p] = tested[p]

\* No commit of a round is ever out of reach, and a branch that moved is left
\* where it is.
WorkIsReachable ==
    /\ branch.there \/ root.files = head
    /\ root.moved => root.files = Present
=============================================================================
