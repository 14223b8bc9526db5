---------------------------- MODULE MessageTree ----------------------------
(***************************************************************************)
(* What dic promises of its message store: a forest of rows that only      *)
(* grows, and for each session a head that names the last answer of a call *)
(* made under it.  Rows are numbered in the order they became durable;     *)
(* parent 0 is the root of a conversation.                                 *)
(***************************************************************************)
EXTENDS Naturals, Sequences

CONSTANT Sessions

VARIABLES
    tree,   \* the durable rows, oldest first
    head    \* the row each session's -c continues, 0 when it has none

vars == <<tree, head>>

Init ==
    /\ tree = << >>
    /\ head = [s \in Sessions |-> 0]

\* A row hangs below an older one, or starts a conversation.
WellPlaced(rows, i) == rows[i].prev \in 0..(i - 1)

\* One call makes its finished rounds durable.  Nothing already there moves.
Grow ==
    /\ Len(tree') > Len(tree)
    /\ \A i \in 1..Len(tree) : tree'[i] = tree[i]
    /\ \A i \in (Len(tree) + 1)..Len(tree') :
          /\ WellPlaced(tree', i)
          /\ tree'[i].call = tree'[Len(tree')].call
    /\ UNCHANGED head

\* A session's head moves to an answer that arrived whole, never to a failure
\* and never to a round that still waits for its tools.
Advance(s) ==
    /\ \E i \in 1..Len(tree) :
          /\ tree[i].session = s
          /\ tree[i].status = 200
          /\ tree[i].error = "none"
          /\ tree[i].asked = 0
          /\ head' = [head EXCEPT ![s] = i]
    /\ UNCHANGED tree

Next == Grow \/ \E s \in Sessions : Advance(s)

Spec == Init /\ [][Next]_vars
=============================================================================
