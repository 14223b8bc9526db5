----------------------------- MODULE MCDicCall -----------------------------
(* Small instances of DicCall for TLC. *)
EXTENDS DicCall, TLC

CONSTANTS c1, c2, c3, parent, child, other

\* DIC_SESSION=parent and DIC_SESSION=parent/child, and one beside them.
MCAncestors ==
    [s \in Sessions |-> IF s = child THEN Sessions \cap {parent} ELSE {}]

\* Calls are alike: a run gives a budget to all of them or to none.
MCSymmetry == Permutations(Calls)
=============================================================================
