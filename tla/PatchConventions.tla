--------------------------- MODULE PatchConventions ---------------------------
(***************************************************************************)
(* What the proofs ask of the patches, beyond that their headers name      *)
(* paths there are: that they are such as git diff writes.                 *)
(***************************************************************************)
EXTENDS Geni

\* The paths the operations of an entry write, whatever the tree holds; those
\* of a submodule are in Submodules.
FuzzyPaths(h) ==
    LET n == Named(Parsed(h))
    IN IF n.mode = Gitlink THEN {}
       ELSE IF Parsed(h).renames THEN {n.old, n.new}
       ELSE {n.path} \ {None}

\* The paths where the tree has to be what is staged in the end.
Plainly == Paths \ Submodules

\* The headers of a patch agree with each other, as those git diff writes do:
\* git apply and git-apply-fuzzy read the same paths in them.
NamesAgree(h) == FuzzyPaths(h) \subseteq TouchedBy(h)

HeadersAgree == \A q \in Patches : \A i \in DOMAIN q : NamesAgree(q[i])

\* A header as git diff writes it: a rename says both names, any other header
\* one path only; a creation has no file on the one side, a removal none on the
\* other, and no hunks no lines that name a side; a mode that is said is made,
\* removed or changed, and of a submodule, which has a line to show, only the
\* first two.
AsGitWrites(h) ==
    /\ h.from = None <=> h.to = None
    /\ h.from # None => h.from # h.to /\ (h.oldMode = None <=> h.newMode = None)
    /\ h.from = None =>
          /\ \A path \in {h.name, h.minus, h.plus} \ {None} :
                StripPath(path) = GitNames(h).old
          /\ h.hunks # "none" =>
                /\ h.minus = None <=> Creates(h)
                /\ h.plus = None <=> Deletes(h)
    /\ h.hunks = "none" <=> h.minus = None /\ h.plus = None
    /\ h.oldMode = h.newMode => h.newMode = None
    /\ Gitlink \in {h.oldMode, h.newMode} =>
          h.hunks # "none" /\ (Creates(h) \/ Deletes(h))

WrittenByGit == \A q \in Patches : \A i \in DOMAIN q : AsGitWrites(q[i])

\* The entry is about a submodule.
OfSubmodule(h) == Or(h.newMode, h.oldMode) = Gitlink

\* Where some patch makes or removes a submodule no patch has a file, and there are
\* submodules nowhere else.
SubmodulesApart ==
    /\ \A q \in Patches : \A i \in DOMAIN q :
          ~OfSubmodule(q[i]) => TouchedBy(q[i]) \cap Submodules = {}
    /\ \A p \in Plainly : Present[p] # None => Present[p].mode # Gitlink

\* All of them: what PatchIsCommitted needs of the patches.
Conventions == HeadersAgree /\ WrittenByGit /\ SubmodulesApart
===============================================================================
