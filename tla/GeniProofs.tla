------------------------------ MODULE GeniProofs ------------------------------
(***************************************************************************)
(* Proofs about Geni, and the Committe and ApplyFuzzy in it: the types,    *)
(* that nothing is touched by a patch that cannot be done, that a commit   *)
(* is the tree and what is merged is what was tested, and that committe    *)
(* comes to an end.                                                        *)
(***************************************************************************)
EXTENDS PatchConventions, SequenceLemmas

----------------------------------------------------------------------------
\* The paths of all of the patch.
PatchPaths == UNION {FuzzyPaths(patch[i]) : i \in DOMAIN patch}

\* The paths an operation has to stage.
OpPaths(op) ==
    IF op.phase = "submodule" THEN {}
    ELSE IF op.phase = "move" THEN {op.from, op.path}
    ELSE {op.path}

\* The names of the phases, and what the operations planned can be.
PhaseNames == {"move", "create", "delete", "write", "chmod", "submodule"}

Ops == {op \in [phase : PhaseNames, path : Paths, from : Paths \cup {None},
                mode : Modes \cup {None}, text : Seq(Nat)] :
          /\ op.phase = "move" => op.from \in Paths
          /\ op.phase = "chmod" => op.mode # None
          /\ op.phase = "submodule" => op.path \in Submodules}

Stages == Returned \cup {"checking", "asking", "applying", "fuzzy", "committing"}

\* The types: of the worktree and of committe, then of what is around them.
Types ==
    /\ tree \in [Paths -> FileOrNone]
    /\ index \in [Paths -> FileOrNone]
    /\ head \in [Paths -> FileOrNone]
    /\ fuzzy \in [stage : {"off", "planning", "doing"} \cup Exited,
                  todo : Seq(Ops), applied : Seq(Paths), failed : BOOLEAN]
    /\ cm \in [stage : Stages, asked : 0..Retries, tries : 0..Retries,
               via : {None, "git", "fuzzy"}, base : [Paths -> FileOrNone]]
    /\ faults \in 0..MaxFaults
    /\ user \in [edits : 0..MaxEdits, staged : BOOLEAN]
    /\ patch = << >> \/ patch \in Patches

OuterTypes ==
    /\ it \in [stage : Stopped \cup {"pretest", "looping", "merging", "removing"},
              round : Nat]
    /\ root \in [files : [Paths -> FileOrNone], moved : BOOLEAN]
    /\ branch \in [there : BOOLEAN, worktree : BOOLEAN]

\* Where geni has got to: what the tests saw is still the tree, the branch of the
\* repository is the commit or what it was, and only success removes a branch.
Merged == {"removing", "succeeded"}

OuterInv ==
    /\ it.stage \in Merged \cup {"merging"} => CmAt("done") /\ tested = tree
    /\ root.files = IF it.stage \in Merged THEN head ELSE Present
    /\ root.moved => it.stage \in {"merging", "stale"}
    /\ ~branch.there => it.stage \in Merged

Even(p) == tree[p] = index[p]

\* The stages before a patch is tried and behind it.
Behind == {"checking", "asking", "question", "unanswered", "refused",
           "committing", "done", "uncommitted"}

\* Outside of a try to apply the patch, everything is even.
EvenInv == cm.stage \in Behind => \A p \in Plainly : Even(p)

\* In one, only paths of the patch are not.
WithinInv ==
    cm.stage \notin Behind => \A p \in Plainly : Even(p) \/ p \in PatchPaths

\* A git-apply-fuzzy begins with nothing to stage.
FreshInv == CmAt("fuzzy") /\ At("planning") => fuzzy.applied = << >>

\* Whatever is uneven has still to be written or staged, unless a call has
\* failed; and git-apply-fuzzy keeps to the paths of the patch.
PendingInv ==
    CmAt("fuzzy") /\ At("doing") =>
        /\ ToSet(fuzzy.applied) \subseteq PatchPaths
        /\ \A op \in ToSet(fuzzy.todo) : OpPaths(op) \subseteq PatchPaths
        /\ ~fuzzy.failed => \A p \in Plainly :
              \/ Even(p) \/ p \in ToSet(fuzzy.applied)
              \/ \E op \in ToSet(fuzzy.todo) : p \in OpPaths(op)

\* Its exit status tells the truth, if it is 0.
OkInv == CmAt("fuzzy") /\ At("ok") => \A p \in Plainly : Even(p)

\* What is staged is committed, and is what committe was called on.
HeadInv == cm.stage \in Behind \ {"committing"} => head = index

BaseInv == cm.stage \in {"checking", "asking"} => cm.base = index

\* A patch that cannot be done has done nothing.
GateInv ==
    /\ cm.stage \in {"applying", "fuzzy", "failed"}
    /\ \E i \in DOMAIN patch : Hopeless(i)
    => /\ index = cm.base
       /\ \A p \in Plainly : tree[p] = cm.base[p]
       /\ CmAt("fuzzy") => fuzzy.stage \in {"planning", "crashed", "failed"}

Calm == EvenInv /\ WithinInv /\ FreshInv /\ PendingInv /\ OkInv
           /\ HeadInv /\ BaseInv /\ GateInv

Undisturbed == user.edits = 0 => Calm

----------------------------------------------------------------------------
\* The phases of main() are six, and Ordered goes through all of them.
LEMMA PhaseSet == ToSet(Phases) = PhaseNames /\ DOMAIN Phases = 1..6
  <1>1. DOMAIN Phases = 1..6
    BY DEF Phases
  <1>2. 1..6 = {1, 2, 3, 4, 5, 6}
    OBVIOUS
  <1>3. /\ Phases[1] = "move" /\ Phases[2] = "create" /\ Phases[3] = "delete"
        /\ Phases[4] = "write" /\ Phases[5] = "chmod" /\ Phases[6] = "submodule"
    BY DEF Phases
  <1>4. {Phases[i] : i \in {1, 2, 3, 4, 5, 6}} = PhaseNames
    BY <1>3 DEF PhaseNames
  <1> QED
    BY <1>1, <1>2, <1>4 DEF ToSet

\* The paths and the modes the planning loop and git apply read from a header are
\* paths of the repository and modes git has, or None.
LEMMA NamesTyped ==
    ASSUME NEW h, Known(h)
    PROVE  LET n == Named(Parsed(h)) IN
           /\ n.old \in Paths \cup {None} /\ n.new \in Paths \cup {None}
           /\ n.path = Or(n.new, n.old)
           /\ n.mode = Or(h.newMode, h.oldMode) /\ n.mode \in Modes \cup {None}
           /\ n.source = IF Parsed(h).renames THEN n.old ELSE n.path
           /\ Parsed(h).renames => n.old \in Paths /\ n.new \in Paths
           /\ Parsed(h).oldMode = h.oldMode
           /\ Parsed(h).renames \in BOOLEAN
           /\ GitNames(h).old \in Paths \cup {None}
           /\ GitNames(h).new \in Paths \cup {None}
  <1>1. \A path \in {h.name, h.minus, h.plus, None} : StripPath(path) \in Paths \cup {None}
    BY DEF Known, StripPath
  <1>2. Parsed(h).renames => h.from # None /\ h.to # None
    BY DEF Parsed
  <1>3. /\ Parsed(h).old \in {h.name, h.minus, h.plus, None}
        /\ Parsed(h).new \in {h.name, h.minus, h.plus, None}
    BY DEF Parsed
  <1>4. /\ Parsed(h).from = h.from /\ Parsed(h).to = h.to
        /\ Parsed(h).newMode = h.newMode /\ Parsed(h).oldMode = h.oldMode
        /\ Parsed(h).renames \in BOOLEAN
    BY DEF Parsed
  <1>5. Parsed(h).renames => Unprefixed(h.from) \in Paths /\ Unprefixed(h.to) \in Paths
    BY <1>2 DEF Known
  <1> DEFINE e == Parsed(h)
             n == Named(e)
  <1>6. /\ n.old = IF e.renames THEN Unprefixed(e.from) ELSE StripPath(e.old)
        /\ n.new = IF e.renames THEN Unprefixed(e.to) ELSE StripPath(e.new)
        /\ n.path = Or(n.new, n.old)
        /\ n.mode = Or(e.newMode, e.oldMode)
        /\ n.source = IF e.renames THEN n.old ELSE n.path
    BY DEF Named
  <1>7. n.old \in Paths \cup {None} /\ n.new \in Paths \cup {None}
        /\ (e.renames => n.old \in Paths /\ n.new \in Paths)
    <2> HIDE DEF n, e
    <2> QED BY <1>1, <1>3, <1>4, <1>5, <1>6 DEF e
  <1>8. n.mode = Or(h.newMode, h.oldMode) /\ n.mode \in Modes \cup {None}
    BY <1>4, <1>6 DEF Known, Or
  <1>9. GitNames(h).old \in Paths \cup {None} /\ GitNames(h).new \in Paths \cup {None}
    <2>1. Or(h.name, Or(h.plus, h.minus)) \in {h.name, h.minus, h.plus, None}
      BY DEF Or
    <2>2. (h.from = None \/ h.from \in Paths) /\ (h.to = None \/ h.to \in Paths)
      BY DEF Known
    <2> QED
      BY <1>1, <2>1, <2>2 DEF GitNames
  <1> QED
    BY <1>4, <1>6, <1>7, <1>8, <1>9

\* The patch at hand is one of Patches, or nothing.
LEMMA PatchFacts ==
    ASSUME Types
    PROVE  /\ patch \in Seq(ToSet(patch))
           /\ Len(patch) \in Nat /\ DOMAIN patch = 1..Len(patch)
           /\ \A i \in DOMAIN patch : Known(patch[i])
           /\ \A i \in DOMAIN patch :
                LET n == Named(Parsed(patch[i])) IN
                n.mode = Gitlink /\ n.path \in Paths => n.path \in Submodules
  <1>1. CASE patch = << >>
    <2>1. DOMAIN patch = {} /\ Len(patch) = 0
      BY <1>1
    <2> QED
      BY <1>1, <2>1
  <1>2. CASE patch \in Patches
    <2>1. patch \in Seq(ToSet(patch)) /\ \A h \in ToSet(patch) : Known(h)
      BY <1>2, PatchAssumption
    <2>2. \A i \in DOMAIN patch : patch[i] \in ToSet(patch)
      BY DEF ToSet
    <2>3. Len(patch) \in Nat /\ DOMAIN patch = 1..Len(patch)
      BY <2>1
    <2> QED
      BY <1>2, <2>1, <2>2, <2>3 DEF Submodules
  <1> QED
    BY <1>1, <1>2 DEF Types

----------------------------------------------------------------------------

\* Entry i makes operations of the right shape, on its own paths; if it can be
\* done at all, on every one of them.
LEMMA EntryOps ==
    ASSUME Types, NEW i \in DOMAIN patch, NEW files \in [Paths -> FileOrNone],
           NEW ops, ops = OpsOf(Parsed(patch[i]), i, files),
           ~(Kind(Parsed(patch[i]), i, files) = "mismatch")
    PROVE  /\ ops \in Seq(Ops)
           /\ \A op \in ToSet(ops) : OpPaths(op) \subseteq FuzzyPaths(patch[i])
           /\ Kind(Parsed(patch[i]), i, files) \notin {"nameless", "nothing"} =>
                 FuzzyPaths(patch[i]) \subseteq UNION {OpPaths(op) : op \in ToSet(ops)}
  <1> DEFINE h == patch[i]
             e == Parsed(h)
             n == Named(e)
             kind == Kind(e, i, files)
             renamed == e.renames /\ kind \in {"chmod", "move", "write"}
             text == CASE kind = "create" -> <<i>>
                       [] kind = "submodule" -> IF n.new = None THEN << >> ELSE <<i>>
                       [] kind = "write" -> Append(files[n.source].text, i)
                       [] OTHER -> << >>
             moves == IF renamed
                      THEN <<[Op("move", n.new, None, << >>) EXCEPT !.from = n.old]>>
                      ELSE << >>
             others == IF kind \in PhaseNames \ {"move"}
                       THEN <<Op(kind, n.path, n.mode, text)>> ELSE << >>
  <1>1. ops = moves \o others
    BY PhaseSet DEF OpsOf
  <1>2. /\ n.old \in Paths \cup {None} /\ n.new \in Paths \cup {None}
        /\ n.path = Or(n.new, n.old) /\ n.mode \in Modes \cup {None}
        /\ n.mode = Or(h.newMode, h.oldMode) /\ e.oldMode = h.oldMode
        /\ n.source = IF e.renames THEN n.old ELSE n.path
        /\ e.renames => n.old \in Paths /\ n.new \in Paths
        /\ e.renames \in BOOLEAN
    BY PatchFacts, NamesTyped
  <1>3. n.mode = Gitlink /\ n.path \in Paths => n.path \in Submodules
    BY PatchFacts
  <1>4. /\ kind \in PhaseNames \cup {"nameless", "nothing", "mismatch"}
        /\ kind = "nameless" <=> n.path = None
        /\ kind \in {"delete", "create", "chmod", "move", "write"} => n.mode # Gitlink
        /\ kind = "submodule" => n.mode = Gitlink
        /\ kind = "delete" => n.new = None
        /\ kind = "create" => n.old = None
        /\ kind = "chmod" => n.mode # e.oldMode
        /\ kind = "move" => e.renames
        /\ kind \in {"chmod", "move", "write"} => n.new # None /\ n.old # None
        /\ kind = "write" => Readable(files[n.source])
    BY DEF Kind, PhaseNames
  <1>5. n.path # None => n.path \in Paths
    BY <1>2 DEF Or
  <1>6. i \in Nat
    BY PatchFacts
  <1>7. FuzzyPaths(h) = IF n.mode = Gitlink THEN {}
                        ELSE IF e.renames THEN {n.old, n.new} ELSE {n.path} \ {None}
    BY DEF FuzzyPaths
  <1>8. text \in Seq(Nat)
    <2>1. kind = "write" => files[n.source].text \in Seq(Nat)
      <3> SUFFICES ASSUME kind = "write" PROVE files[n.source].text \in Seq(Nat)
        OBVIOUS
      <3>1. n.source \in Paths
        BY <1>2, <1>4, <1>5 DEF Or
      <3> QED
        BY <1>4, <3>1 DEF Readable, FileOrNone
    <2> HIDE DEF n, kind
    <2> QED
      BY <1>6, <2>1
  <1> HIDE DEF h, e, n, kind, text
  <1>9. /\ moves \in Seq(Ops)
        /\ ToSet(moves) = {x \in {[Op("move", n.new, None, << >>) EXCEPT !.from = n.old]} : renamed}
    <2>1. CASE renamed
      <3>1. [Op("move", n.new, None, << >>) EXCEPT !.from = n.old] \in Ops
        <4>1. [Op("move", n.new, None, << >>) EXCEPT !.from = n.old] =
                [phase |-> "move", path |-> n.new, from |-> n.old, mode |-> None, text |-> << >>]
          BY DEF Op
        <4>2. n.old \in Paths /\ n.new \in Paths /\ << >> \in Seq(Nat)
          BY <1>2, <2>1
        <4> QED
          BY <4>1, <4>2 DEF Ops, PhaseNames
      <3> QED
        BY <2>1, <3>1, OneElement
    <2>2. CASE ~renamed
      BY <2>2, OneElement
    <2> QED
      BY <2>1, <2>2
  <1>10. /\ others \in Seq(Ops)
         /\ ToSet(others) = {x \in {Op(kind, n.path, n.mode, text)} : kind \in PhaseNames \ {"move"}}
    <2>1. CASE kind \in PhaseNames \ {"move"}
      <3>1. kind # "nameless"
        BY <2>1 DEF PhaseNames
      <3>2. kind = "chmod" => n.mode # None
        BY <1>2, <1>4 DEF Or
      <3>3. Op(kind, n.path, n.mode, text) \in Ops
        BY <1>2, <1>3, <1>4, <1>5, <1>8, <2>1, <3>1, <3>2 DEF Op, Ops
      <3> QED
        BY <2>1, <3>3, OneElement
    <2>2. CASE ~(kind \in PhaseNames \ {"move"})
      <3>1. others = << >>
        BY <2>2
      <3> HIDE DEF others
      <3>2. {x \in {Op(kind, n.path, n.mode, text)} : kind \in PhaseNames \ {"move"}} = {}
        BY <2>2
      <3> QED
        BY <3>1, <3>2, OneElement
    <2> QED
      BY <2>1, <2>2
  <1>11. ops \in Seq(Ops) /\ ToSet(ops) = ToSet(moves) \cup ToSet(others)
    <2> HIDE DEF moves, others
    <2> QED
      BY <1>1, <1>9, <1>10, ConcatElements
  <1> DEFINE mv == [Op("move", n.new, None, << >>) EXCEPT !.from = n.old]
             ot == Op(kind, n.path, n.mode, text)
  <1>12. OpPaths(mv) = {n.old, n.new}
    BY DEF Op, OpPaths
  <1>13. kind \in PhaseNames \ {"move"} =>
           OpPaths(ot) = IF kind = "submodule" THEN {} ELSE {n.path}
    BY DEF Op, OpPaths
  <1>14. kind # "mismatch"
    BY DEF kind, e, h
  <1> HIDE DEF moves, others, mv, ot
  <1>15. ToSet(ops) = {x \in {mv} : renamed} \cup {x \in {ot} : kind \in PhaseNames \ {"move"}}
    BY <1>9, <1>10, <1>11 DEF mv, ot
  <1>16. \A op \in ToSet(ops) : OpPaths(op) \subseteq FuzzyPaths(h)
    <2>1. renamed => OpPaths(mv) \subseteq FuzzyPaths(h)
      BY <1>4, <1>7, <1>12
    <2>2. kind \in PhaseNames \ {"move"} => OpPaths(ot) \subseteq FuzzyPaths(h)
      <3> SUFFICES ASSUME kind \in PhaseNames \ {"move", "submodule"} PROVE n.path \in FuzzyPaths(h)
        BY <1>13
      <3>1. n.path # None /\ n.mode # Gitlink
        BY <1>4 DEF PhaseNames
      <3>2. n.path \in {n.old, n.new}
        BY <1>2 DEF Or
      <3> QED
        BY <1>7, <3>1, <3>2
    <2> QED
      BY <1>15, <2>1, <2>2
  <1>17. ASSUME kind \notin {"nameless", "nothing"}
         PROVE  FuzzyPaths(h) \subseteq UNION {OpPaths(op) : op \in ToSet(ops)}
    <2>1. CASE kind = "submodule"
      BY <1>4, <1>7, <2>1
    <2>2. CASE renamed
      <3>1. mv \in ToSet(ops)
        BY <1>15, <2>2
      <3>2. FuzzyPaths(h) \subseteq OpPaths(mv)
        BY <1>4, <1>7, <1>12, <2>2
      <3> QED
        BY <3>1, <3>2
    <2>3. CASE kind \in PhaseNames \ {"move", "submodule"} /\ ~renamed
      <3>1. ot \in ToSet(ops) /\ OpPaths(ot) = {n.path}
        BY <1>13, <1>15, <2>3
      <3>2. FuzzyPaths(h) \subseteq {n.path}
        <4>1. CASE e.renames
          <5>1. kind \in {"create", "delete"}
            BY <2>3, <4>1 DEF PhaseNames
          <5>2. n.old # None /\ n.new # None
            BY <1>2, <4>1, CommitteAssumption
          <5> QED
            BY <1>4, <5>1, <5>2
        <4>2. CASE ~e.renames
          BY <1>7, <4>2
        <4> QED
          BY <4>1, <4>2
      <3> QED
        BY <3>1, <3>2
    <2> QED
      BY <1>4, <1>14, <1>17, <2>1, <2>2, <2>3 DEF PhaseNames
  <1> QED
    BY <1>11, <1>16, <1>17 DEF kind, h, e

\* Putting the operations in the order they are done in changes only that.
LEMMA OrderedOps ==
    ASSUME NEW ops \in Seq(Ops)
    PROVE  /\ Ordered(ops) \in Seq(Ops)
           /\ ToSet(Ordered(ops)) = ToSet(ops)
  <1> DEFINE One(i, phase) == IF ops[i].phase = phase THEN <<ops[i]>> ELSE << >>
             Picked(phase) == [i \in DOMAIN ops |-> One(i, phase)]
             Phased == [p \in DOMAIN Phases |-> InPhase(ops, Phases[p])]
  <1>1. ASSUME NEW phase
        PROVE  /\ InPhase(ops, phase) \in Seq(Ops)
               /\ ToSet(InPhase(ops, phase)) = {op \in ToSet(ops) : op.phase = phase}
    <2>1. \A i \in DOMAIN ops :
            /\ One(i, phase) \in Seq(Ops)
            /\ ToSet(One(i, phase)) = {op \in {ops[i]} : op.phase = phase}
      BY OneElement
    <2>2. Picked(phase) \in Seq(Seq(Ops)) /\ DOMAIN Picked(phase) = DOMAIN ops
          /\ \A i \in DOMAIN ops : Picked(phase)[i] = One(i, phase)
      <3> HIDE DEF One
      <3> QED
        BY <2>1
    <2>3. InPhase(ops, phase) = FlattenSeq(Picked(phase))
      BY DEF InPhase
    <2> HIDE DEF Picked, One
    <2>4. /\ FlattenSeq(Picked(phase)) \in Seq(Ops)
          /\ ToSet(FlattenSeq(Picked(phase))) =
                UNION {ToSet(Picked(phase)[i]) : i \in DOMAIN Picked(phase)}
      BY <2>2, FlattenElements
    <2>5. UNION {ToSet(Picked(phase)[i]) : i \in DOMAIN Picked(phase)} =
            {op \in ToSet(ops) : op.phase = phase}
      BY <2>1, <2>2 DEF ToSet
    <2> QED
      BY <2>3, <2>4, <2>5
  <1>2. Phased \in Seq(Seq(Ops)) /\ DOMAIN Phased = 1..6
        /\ \A p \in 1..6 : Phased[p] = InPhase(ops, Phases[p])
    BY <1>1, PhaseSet
  <1>3. Ordered(ops) = FlattenSeq(Phased)
    BY DEF Ordered
  <1> HIDE DEF Phased
  <1>4. Ordered(ops) \in Seq(Ops) /\ ToSet(Ordered(ops)) = UNION {ToSet(Phased[p]) : p \in 1..6}
    BY <1>2, <1>3, FlattenElements
  <1>5. \A op \in ToSet(ops) : \E p \in 1..6 : op.phase = Phases[p]
    <2> TAKE op \in ToSet(ops)
    <2>1. op \in Ops
      BY DEF ToSet
    <2>2. op.phase \in ToSet(Phases)
      BY <2>1, PhaseSet DEF Ops
    <2> QED
      BY <2>2, PhaseSet DEF ToSet
  <1>6. UNION {ToSet(Phased[p]) : p \in 1..6} = ToSet(ops)
    <2>1. \A p \in 1..6 : ToSet(Phased[p]) = {op \in ToSet(ops) : op.phase = Phases[p]}
      BY <1>1, <1>2
    <2> QED
      BY <1>5, <2>1
  <1> QED
    BY <1>4, <1>6

\* What the planning loop plans for a patch whose every entry matches: what it
\* plans for the entries, and no more.
LEMMA PlannedSet ==
    ASSUME Types, \A i \in DOMAIN patch : ~Breaks(i, tree),
           NEW ops, ops = FlattenSeq([i \in DOMAIN patch |-> OpsOf(Parsed(patch[i]), i, tree)])
    PROVE  /\ ops \in Seq(Ops) /\ Ordered(ops) \in Seq(Ops)
           /\ ToSet(Ordered(ops)) =
                UNION {ToSet(OpsOf(Parsed(patch[i]), i, tree)) : i \in DOMAIN patch}
  <1> DEFINE O(i) == OpsOf(Parsed(patch[i]), i, tree)
             all == [i \in DOMAIN patch |-> O(i)]
  <1>1. ASSUME NEW i \in DOMAIN patch
        PROVE  O(i) \in Seq(Ops)
    <2>1. tree \in [Paths -> FileOrNone]
      BY DEF Types
    <2>2. Kind(Parsed(patch[i]), i, tree) # "mismatch"
      BY DEF Breaks
    <2> QED
      BY <2>1, <2>2, EntryOps
  <1> HIDE DEF O
  <1>2. all \in Seq(Seq(Ops)) /\ DOMAIN all = DOMAIN patch /\ \A i \in DOMAIN patch : all[i] = O(i)
    BY <1>1, PatchFacts
  <1>3. ops = FlattenSeq(all)
    BY DEF O
  <1> HIDE DEF all
  <1>4. ops \in Seq(Ops) /\ ToSet(ops) = UNION {ToSet(O(i)) : i \in DOMAIN patch}
    <2>1. UNION {ToSet(all[i]) : i \in DOMAIN all} = UNION {ToSet(O(i)) : i \in DOMAIN patch}
      BY <1>2
    <2> QED
      BY <1>2, <1>3, <2>1, FlattenElements
  <1> QED
    BY <1>4, OrderedOps DEF O

\* These are on the paths of the patch, and on all of them if nothing is wrong.
LEMMA PlannedOps ==
    ASSUME Types, \A i \in DOMAIN patch : ~Breaks(i, tree),
           NEW ops, ops = FlattenSeq([i \in DOMAIN patch |-> OpsOf(Parsed(patch[i]), i, tree)])
    PROVE  /\ Ordered(ops) \in Seq(Ops)
           /\ \A op \in ToSet(Ordered(ops)) : OpPaths(op) \subseteq PatchPaths
           /\ (\A i \in DOMAIN patch : ~Wrong(i, tree)) =>
                 PatchPaths \subseteq UNION {OpPaths(op) : op \in ToSet(Ordered(ops))}
  <1> DEFINE O(i) == OpsOf(Parsed(patch[i]), i, tree)
  <1>1. ASSUME NEW i \in DOMAIN patch
        PROVE  /\ \A op \in ToSet(O(i)) : OpPaths(op) \subseteq FuzzyPaths(patch[i])
               /\ ~Wrong(i, tree) =>
                    FuzzyPaths(patch[i]) \subseteq UNION {OpPaths(op) : op \in ToSet(O(i))}
    <2>1. tree \in [Paths -> FileOrNone]
      BY DEF Types
    <2>2. Kind(Parsed(patch[i]), i, tree) # "mismatch"
      BY DEF Breaks
    <2> QED
      BY <2>1, <2>2, EntryOps DEF Wrong
  <1>2. /\ Ordered(ops) \in Seq(Ops)
        /\ ToSet(Ordered(ops)) = UNION {ToSet(O(i)) : i \in DOMAIN patch}
    BY PlannedSet
  <1> HIDE DEF O
  <1>3. \A op \in ToSet(Ordered(ops)) : OpPaths(op) \subseteq PatchPaths
    BY <1>1, <1>2 DEF PatchPaths
  <1>4. ASSUME \A i \in DOMAIN patch : ~Wrong(i, tree)
        PROVE  PatchPaths \subseteq UNION {OpPaths(op) : op \in ToSet(Ordered(ops))}
    BY <1>1, <1>2, <1>4 DEF PatchPaths
  <1> QED
    BY <1>2, <1>3, <1>4

----------------------------------------------------------------------------
Applying == [ok : BOOLEAN, files : [Paths -> FileOrNone]]

\* An entry git applies leaves files where there were files.
LEMMA EntryTyped ==
    ASSUME Types, NEW i \in DOMAIN patch, NEW done \in Applying, NEW drift
    PROVE  GitEntry(done, i, drift) \in Applying
  <1> DEFINE h == patch[i]
             n == GitNames(h)
             file == IF n.old = None THEN None ELSE done.files[n.old]
             fits == /\ n.old # None /\ n.new # None
                     /\ h.hunks \in (IF drift \/ Deletes(h) THEN {"none", "exact", "drifted"}
                                     ELSE {"none", "exact"})
                     /\ IF Creates(h) THEN file = None
                        ELSE /\ file # None
                             /\ \A mode \in {h.oldMode, h.newMode} \ {None} :
                                   Kindred(mode, file.mode)
                     /\ n.new # n.old => done.files[n.new] = None
                     /\ h.hunks # "none" \/ h.newMode # None \/ n.new # n.old \/ Deletes(h)
             changed == IF h.hunks = "none" THEN << >> ELSE <<i>>
             after ==
                 IF Deletes(h) THEN None
                 ELSE IF Creates(h) THEN File(h.newMode, changed)
                 ELSE File(Or(h.newMode, file.mode),
                           IF file.mode = Gitlink THEN changed ELSE file.text \o changed)
             next == [[done.files EXCEPT ![n.old] = None] EXCEPT ![n.new] = after]
  <1>1. GitEntry(done, i, drift) =
          IF done.ok /\ fits THEN [ok |-> TRUE, files |-> next] ELSE [done EXCEPT !.ok = FALSE]
    BY DEF GitEntry
  <1>2. [done EXCEPT !.ok = FALSE] \in Applying
    BY DEF Applying
  <1>3. ASSUME fits
        PROVE  [ok |-> TRUE, files |-> next] \in Applying
    <2>1. n.old \in Paths /\ n.new \in Paths /\ Known(h) /\ i \in Nat
      BY <1>3, PatchFacts, NamesTyped
    <2>2. changed \in Seq(Nat)
      BY <2>1
    <2>3. file \in FileOrNone /\ file = done.files[n.old]
      BY <2>1, CommitteAssumption DEF Applying
    <2>4. h.newMode \in Modes \cup {None} /\ (Creates(h) => h.newMode \in Modes)
      BY <2>1 DEF Known, Creates
    <2>5. ~Creates(h) => file \in [mode : Modes, text : Seq(Nat)]
      BY <1>3, <2>3 DEF FileOrNone
    <2> HIDE DEF changed, file, n
    <2>6. after \in FileOrNone
      <3>1. CASE Deletes(h)
        BY <3>1 DEF FileOrNone
      <3>2. CASE ~Deletes(h) /\ Creates(h)
        BY <2>2, <2>4, <3>2 DEF FileOrNone, File
      <3>3. CASE ~Deletes(h) /\ ~Creates(h)
        <4>1. Or(h.newMode, file.mode) \in Modes
          BY <2>4, <2>5, <3>3 DEF Or
        <4>2. (IF file.mode = Gitlink THEN changed ELSE file.text \o changed) \in Seq(Nat)
          BY <2>2, <2>5, <3>3
        <4>3. after = File(Or(h.newMode, file.mode),
                          IF file.mode = Gitlink THEN changed ELSE file.text \o changed)
          BY <3>3
        <4> HIDE DEF after
        <4> QED
          BY <4>1, <4>2, <4>3 DEF FileOrNone, File
      <3> QED
        BY <3>1, <3>2, <3>3
    <2>7. done.files \in [Paths -> FileOrNone] /\ None \in FileOrNone
      BY DEF Applying, FileOrNone
    <2> HIDE DEF after
    <2>8. next \in [Paths -> FileOrNone]
      BY <2>1, <2>6, <2>7
    <2> QED
      BY <2>8 DEF Applying
  <1> QED
    BY <1>1, <1>2, <1>3

\* One entry after another: the recursion Meant is defined by has a solution.
LEMMA MeantIs ==
    ASSUME Types, NEW files, NEW drift
    PROVE  \E done :
             /\ done = [i \in 0..Len(patch) |->
                          IF i = 0 THEN [ok |-> TRUE, files |-> files]
                          ELSE GitEntry(done[i - 1], i, drift)]
             /\ Meant(files, drift) = done[Len(patch)]
  <1> DEFINE base == [ok |-> TRUE, files |-> files]
             Step(f, i) == IF i = 0 THEN base ELSE GitEntry(f[i - 1], i, drift)
             T == {m \in Nat : \E f : f = [i \in 0..m |-> Step(f, i)]}
  <1>0. Len(patch) \in Nat
    BY PatchFacts
  <1>1. 0 \in T
    <2> DEFINE g == [i \in 0..0 |-> base]
    <2>1. g = [i \in 0..0 |-> Step(g, i)]
      OBVIOUS
    <2> HIDE DEF g, Step
    <2> QED
      BY <2>1
  <1>2. ASSUME NEW m \in T
        PROVE  m + 1 \in T
    <2>0. m \in Nat
      OBVIOUS
    <2>1. PICK f : f = [i \in 0..m |-> Step(f, i)]
      OBVIOUS
    <2> DEFINE new == GitEntry(f[m], m + 1, drift)
               g == [i \in 0..(m+1) |-> IF i = m + 1 THEN new ELSE f[i]]
    <2>2. \A i \in 0..m : f[i] = Step(f, i)
      BY <2>1
    <2>3. \A i \in 0..m : g[i] = f[i]
      BY <2>0
    <2>4. \A i \in 0..m : Step(g, i) = f[i]
      <3> TAKE i \in 0..m
      <3>1. CASE i = 0
        BY <2>2, <3>1
      <3>2. CASE i # 0
        <4>1. i - 1 \in 0..m /\ i # 0
          BY <2>0, <3>2
        <4>2. g[i - 1] = f[i - 1]
          BY <2>3, <4>1
        <4> HIDE DEF g
        <4> QED
          BY <2>2, <4>1, <4>2
      <3> QED
        BY <3>1, <3>2
    <2>5. Step(g, m + 1) = new
      <3>1. g[m + 1 - 1] = f[m] /\ m + 1 # 0
        BY <2>0, <2>3
      <3> HIDE DEF g
      <3> QED
        BY <3>1
    <2>6. g = [i \in 0..(m+1) |-> Step(g, i)]
      <3>1. \A i \in 0..(m+1) : Step(g, i) = IF i = m + 1 THEN new ELSE f[i]
        <4> HIDE DEF Step, g, new
        <4> QED
          BY <2>0, <2>4, <2>5
      <3> HIDE DEF Step, new
      <3> QED
        BY <3>1
    <2>7. \E f1 : f1 = [i \in 0..(m+1) |-> Step(f1, i)]
      <3> HIDE DEF g, Step
      <3> QED
        BY <2>6
    <2> QED
      BY <2>0, <2>7
  <1>3. T = Nat
    <2>1. T \in SUBSET Nat
      OBVIOUS
    <2> HIDE DEF T
    <2> QED
      BY <1>1, <1>2, <2>1, Induction
  <1>4. \E f : f = [i \in 0..Len(patch) |-> Step(f, i)]
    BY <1>0, <1>3
  <1> DEFINE done == CHOOSE f : f = [i \in 0..Len(patch) |-> Step(f, i)]
  <1>5. done = [i \in 0..Len(patch) |-> Step(done, i)]
    <2> HIDE DEF Step
    <2> QED
      BY <1>4
  <1>6. Meant(files, drift) = done[Len(patch)]
    BY DEF Meant
  <1> HIDE DEF done
  <1> QED
    BY <1>5, <1>6

\* So does all of a patch, by induction on its entries.
LEMMA MeantTyped ==
    ASSUME Types, NEW files \in [Paths -> FileOrNone], NEW drift
    PROVE  Meant(files, drift) \in Applying
  <1>1. PICK done :
          /\ done = [i \in 0..Len(patch) |->
                       IF i = 0 THEN [ok |-> TRUE, files |-> files]
                       ELSE GitEntry(done[i - 1], i, drift)]
          /\ Meant(files, drift) = done[Len(patch)]
    BY MeantIs
  <1> DEFINE T == {m \in Nat : m \in 0..Len(patch) => done[m] \in Applying}
  <1>2. Len(patch) \in Nat /\ DOMAIN patch = 1..Len(patch)
    BY PatchFacts
  <1>3. 0 \in T
    BY <1>1, <1>2 DEF Applying
  <1>4. ASSUME NEW m \in T
        PROVE  m + 1 \in T
    <2> SUFFICES ASSUME m + 1 \in 0..Len(patch)
                 PROVE  done[m + 1] \in Applying
      OBVIOUS
    <2>1. m \in 0..Len(patch) /\ m + 1 \in DOMAIN patch /\ m + 1 # 0 /\ m + 1 - 1 = m
      BY <1>2
    <2>2. done[m] \in Applying
      BY <2>1
    <2>3. done[m + 1] = GitEntry(done[m], m + 1, drift)
      <3>1. \A i \in 0..Len(patch) :
              done[i] = IF i = 0 THEN [ok |-> TRUE, files |-> files]
                        ELSE GitEntry(done[i - 1], i, drift)
        BY <1>1
      <3> QED
        BY <2>1, <3>1
    <2> QED
      BY <2>1, <2>2, <2>3, EntryTyped
  <1>5. T = Nat
    <2>1. T \in SUBSET Nat
      OBVIOUS
    <2> HIDE DEF T
    <2> QED
      BY <1>3, <1>4, <2>1, Induction
  <1>6. Len(patch) \in T /\ Len(patch) \in 0..Len(patch)
    BY <1>2, <1>5
  <1> QED
    BY <1>1, <1>6

\* The operation at hand, in Perform and in Stumble.
LEMMA OpAtHand ==
    ASSUME Types, NEW op, Doing(op)
    PROVE  /\ At("doing") /\ op \in Ops /\ fuzzy.todo # << >> /\ op = Head(fuzzy.todo)
           /\ Tail(fuzzy.todo) \in Seq(Ops)
           /\ ToSet(fuzzy.todo) = {op} \cup ToSet(Tail(fuzzy.todo))
           /\ Len(Tail(fuzzy.todo)) = Len(fuzzy.todo) - 1
           /\ Len(fuzzy.todo) \in Nat \ {0}
  <1>1. fuzzy.todo \in Seq(Ops)
    BY DEF Types
  <1> QED
    BY <1>1, FirstAndRest DEF Doing

\* What an operation leaves to do and to stage: all of its paths are staged later.
LEMMA DoneTyped ==
    ASSUME Types, NEW op, Doing(op), DoneWith(op)
    PROVE  /\ fuzzy'.applied \in Seq(Paths)
           /\ ToSet(fuzzy'.applied) = ToSet(fuzzy.applied) \cup OpPaths(op)
           /\ Len(fuzzy'.applied) <= Len(fuzzy.applied) + 2
           /\ Len(fuzzy'.applied) \in Nat /\ Len(fuzzy.applied) \in Nat
           /\ fuzzy' = [stage |-> fuzzy.stage, todo |-> Tail(fuzzy.todo),
                        applied |-> fuzzy'.applied, failed |-> fuzzy.failed]
  <1>1. op \in Ops /\ fuzzy.applied \in Seq(Paths)
    BY OpAtHand DEF Types
  <1>2. /\ fuzzy'.applied = IF op.phase = "move" THEN fuzzy.applied \o <<op.from, op.path>>
                            ELSE IF op.phase = "submodule" THEN fuzzy.applied
                            ELSE Append(fuzzy.applied, op.path)
        /\ fuzzy' = [stage |-> fuzzy.stage, todo |-> Tail(fuzzy.todo),
                     applied |-> fuzzy'.applied, failed |-> fuzzy.failed]
    BY DEF DoneWith, Types
  <1>3. CASE op.phase = "move"
    <2>1. op.from \in Paths /\ op.path \in Paths
      BY <1>1, <1>3 DEF Ops
    <2>2. <<op.from, op.path>> \in Seq(Paths) /\ ToSet(<<op.from, op.path>>) = {op.from, op.path}
      BY <2>1 DEF ToSet
    <2>3. fuzzy'.applied = fuzzy.applied \o <<op.from, op.path>>
      BY <1>2, <1>3
    <2>4. OpPaths(op) = {op.from, op.path}
      BY <1>3 DEF OpPaths
    <2>5. fuzzy'.applied \in Seq(Paths)
          /\ ToSet(fuzzy'.applied) = ToSet(fuzzy.applied) \cup OpPaths(op)
      <3>1. LET t == <<op.from, op.path>> IN
              /\ fuzzy.applied \o t \in Seq(Paths)
              /\ ToSet(fuzzy.applied \o t) = ToSet(fuzzy.applied) \cup ToSet(t)
        BY <1>1, <2>2, ConcatElements, ZenonT(60)
      <3> QED
        BY <2>2, <2>3, <2>4, <3>1
    <2>6. Len(fuzzy'.applied) = Len(fuzzy.applied) + 2 /\ Len(fuzzy.applied) \in Nat
      BY <1>1, <2>1, <2>3
    <2>7. fuzzy'.applied \in Seq(Paths) => Len(fuzzy'.applied) \in Nat
      OBVIOUS
    <2>8. Len(fuzzy'.applied) <= Len(fuzzy.applied) + 2
      BY <2>6
    <2> QED
      BY <1>2, <2>5, <2>6, <2>7, <2>8
  <1>4. CASE op.phase = "submodule"
    BY <1>1, <1>2, <1>4 DEF OpPaths
  <1>5. CASE op.phase \notin {"move", "submodule"}
    <2>1. op.path \in Paths /\ OpPaths(op) = {op.path}
      BY <1>1, <1>5 DEF Ops, OpPaths
    <2>2. fuzzy'.applied = fuzzy.applied \o <<op.path>>
      BY <1>1, <1>2, <1>5, <2>1
    <2>3. <<op.path>> \in Seq(Paths) /\ ToSet(<<op.path>>) = {op.path}
      BY <2>1, OneElement
    <2>4. fuzzy'.applied \in Seq(Paths)
          /\ ToSet(fuzzy'.applied) = ToSet(fuzzy.applied) \cup OpPaths(op)
      <3>1. LET t == <<op.path>> IN
              /\ fuzzy.applied \o t \in Seq(Paths)
              /\ ToSet(fuzzy.applied \o t) = ToSet(fuzzy.applied) \cup ToSet(t)
        BY <1>1, <2>3, ConcatElements, ZenonT(60)
      <3> QED
        BY <2>1, <2>2, <2>3, <3>1
    <2>5. Len(fuzzy'.applied) = Len(fuzzy.applied) + 1 /\ Len(fuzzy.applied) \in Nat
      BY <1>1, <2>1, <2>2
    <2> QED
      BY <1>2, <2>4, <2>5
  <1> QED
    BY <1>3, <1>4, <1>5

\* A file that is written has a mode, and so has one that is not written to its end.
LEMMA LeftTyped ==
    ASSUME NEW op \in Ops, NEW file \in FileOrNone
    PROVE  OwnMode(file) \in Modes /\ Leavings(op, file) \subseteq FileOrNone
  <1>1. OwnMode(file) \in Modes
    <2>1. file # None => file \in [mode : Modes, text : Seq(Nat)]
      BY DEF FileOrNone
    <2> QED
      BY <2>1 DEF OwnMode, Modes
  <1>2. op.text \in Seq(Nat) /\ Torn \in Nat
    BY CommitteAssumption DEF Ops
  <1>3. \A text \in {op.text, Append(op.text, Torn)} : text \in Seq(Nat)
    BY <1>2
  <1>4. \A text \in {op.text, Append(op.text, Torn)} :
          File(OwnMode(file), text) \in [mode : Modes, text : Seq(Nat)]
    BY <1>1, <1>3 DEF File
  <1>5. None \in FileOrNone /\ [mode : Modes, text : Seq(Nat)] \subseteq FileOrNone
    BY DEF FileOrNone
  <1> QED
    BY <1>1, <1>4, <1>5 DEF Leavings

\* A call that fails: what it may leave of the tree.
LEMMA StumbleIs ==
    ASSUME Types, Stumble
    PROVE  \E op \in ToSet(fuzzy.todo) :
             /\ Doing(op) /\ op \in Ops
             /\ fuzzy' = IF op.phase \in {"chmod", "submodule"}
                         THEN [fuzzy EXCEPT !.todo = Tail(@), !.failed = TRUE]
                         ELSE [fuzzy EXCEPT !.stage = "crashed"]
             /\ tree' \in [Paths -> FileOrNone] /\ faults' \in 0..MaxFaults
             /\ \A p \in Paths \ OpPaths(op) : tree'[p] = tree[p]
             /\ faults' = faults => ~Possible(op) /\ tree' = tree
             /\ UNCHANGED <<dirs, index, patch>>
  <1>1. PICK op \in ToSet(fuzzy.todo) :
          /\ Doing(op)
          /\ IF Possible(op)
             THEN /\ faults < MaxFaults /\ faults' = faults + 1
                  /\ \E left \in Leavings(op, tree[op.path]) :
                        tree' = [tree EXCEPT ![op.path] = left]
             ELSE UNCHANGED <<tree, faults>>
          /\ fuzzy' = IF op.phase \in {"chmod", "submodule"}
                      THEN [fuzzy EXCEPT !.todo = Tail(@), !.failed = TRUE]
                      ELSE [fuzzy EXCEPT !.stage = "crashed"]
          /\ UNCHANGED <<dirs, index, patch>>
    BY DEF Stumble
  <1>2. /\ op \in Ops /\ op.path \in Paths /\ tree \in [Paths -> FileOrNone]
        /\ faults \in 0..MaxFaults /\ MaxFaults \in Nat
    BY <1>1, OpAtHand, CommitteAssumption DEF Types, Ops
  <1>3. CASE ~Possible(op)
    BY <1>1, <1>2, <1>3
  <1>4. CASE Possible(op)
    <2>1. PICK left \in Leavings(op, tree[op.path]) :
            tree' = [tree EXCEPT ![op.path] = left]
      BY <1>1, <1>4
    <2>2. left \in FileOrNone
      BY <1>2, <2>1, LeftTyped
    <2>3. op.path \notin OpPaths(op) => left = tree[op.path]
      <3>1. op.path \notin OpPaths(op) => op.phase = "submodule"
        BY DEF OpPaths
      <3> QED
        BY <2>1, <3>1 DEF Leavings
    <2>4. /\ tree' \in [Paths -> FileOrNone]
          /\ \A p \in Paths \ OpPaths(op) : tree'[p] = tree[p]
      BY <1>2, <2>1, <2>2, <2>3
    <2>5. faults' \in 0..MaxFaults /\ faults' # faults
      BY <1>1, <1>2, <1>4
    <2> QED
      BY <1>1, <1>2, <2>4, <2>5
  <1> QED
    BY <1>3, <1>4

\* What an operation writes.
LEMMA WriteTyped ==
    ASSUME Types, NEW op, Doing(op), Possible(op),
           Move(op) \/ Write(op) \/ Delete(op) \/ Chmod(op) \/ Submodule(op)
    PROVE  /\ tree' \in [Paths -> FileOrNone] /\ index' \in [Paths -> FileOrNone]
           /\ \A p \in Paths \ OpPaths(op) : tree'[p] = tree[p]
           /\ \A p \in Paths \ Submodules : index'[p] = index[p]
  <1>1. /\ op \in Ops /\ op.path \in Paths /\ op.text \in Seq(Nat)
        /\ op.mode \in Modes \cup {None}
        /\ op.phase = "move" => op.from \in Paths
        /\ op.phase = "chmod" => op.mode # None
        /\ op.phase = "submodule" => op.path \in Submodules
    <2>1. op \in Ops
      BY OpAtHand
    <2> QED
      BY <2>1 DEF Ops
  <1>2. tree \in [Paths -> FileOrNone] /\ index \in [Paths -> FileOrNone] /\ None \in FileOrNone
    BY DEF Types, FileOrNone
  <1>3. CASE Move(op)
    <2>1. tree' = [tree EXCEPT ![op.from] = None, ![op.path] = tree[op.from]] /\ index' = index
      BY <1>3 DEF Move
    <2>2. op.phase = "move" /\ op.from \in Paths /\ OpPaths(op) = {op.from, op.path}
      BY <1>1, <1>3 DEF Move, OpPaths
    <2> QED
      BY <1>1, <1>2, <2>1, <2>2
  <1>4. CASE Write(op)
    <2>1. /\ tree' = [tree EXCEPT ![op.path] =
                         IF Leads(tree[op.path]) /\ op.mode # Link THEN tree[op.path]
                         ELSE File(ModeAfter(op), op.text)]
          /\ index' = index
      BY <1>4 DEF Write
    <2>2. OpPaths(op) = {op.path}
      BY <1>4 DEF Write, OpPaths
    <2>3. ModeAfter(op) \in Modes
      <3>1. op \in Ops /\ tree[op.path] \in FileOrNone
        BY <1>1, <1>2
      <3>2. OwnMode(tree[op.path]) \in Modes
        BY <3>1, LeftTyped
      <3> QED
        BY <1>1, <3>2 DEF ModeAfter
    <2>4. File(ModeAfter(op), op.text) \in FileOrNone
      BY <1>1, <2>3 DEF File, FileOrNone
    <2> QED
      BY <1>1, <1>2, <2>1, <2>2, <2>4
  <1>5. CASE Delete(op)
    <2>1. tree' = [tree EXCEPT ![op.path] = None] /\ index' = index /\ OpPaths(op) = {op.path}
      BY <1>5 DEF Delete, OpPaths
    <2> QED
      BY <1>1, <1>2, <2>1
  <1>6. CASE Chmod(op)
    <2>1. /\ tree' = [tree EXCEPT ![op.path] =
                        IF Readable(@) /\ ~Leads(@)
                        THEN [@ EXCEPT !.mode = Permissions(op.mode)] ELSE @]
          /\ index' = index /\ OpPaths(op) = {op.path}
      BY <1>1, <1>6 DEF Chmod, OpPaths
    <2>2. (IF Readable(tree[op.path]) /\ ~Leads(tree[op.path])
           THEN [tree[op.path] EXCEPT !.mode = Permissions(op.mode)]
           ELSE tree[op.path]) \in FileOrNone
      <3>1. Permissions(op.mode) \in Modes
        BY DEF Permissions, Modes
      <3> QED
        BY <1>1, <1>2, <2>1, <3>1 DEF Readable, FileOrNone
    <2> QED
      BY <1>1, <1>2, <2>1, <2>2
  <1>7. CASE Submodule(op)
    <2>1. /\ index' = [index EXCEPT ![op.path] =
                        IF op.text = << >> THEN None ELSE File(Gitlink, op.text)]
          /\ tree' = tree /\ op.path \in Submodules
      BY <1>1, <1>7 DEF Submodule
    <2>2. File(Gitlink, op.text) \in FileOrNone
      BY <1>1 DEF File, FileOrNone, Modes
    <2> QED
      BY <1>1, <1>2, <2>1, <2>2
  <1> QED
    BY <1>3, <1>4, <1>5, <1>6, <1>7

----------------------------------------------------------------------------
\* The first states have the types.
LEMMA InitTypes == GeniInit => Types /\ OuterTypes
  <1> SUFFICES ASSUME GeniInit PROVE Types /\ OuterTypes
    OBVIOUS
  <1>1. /\ Present \in [Paths -> FileOrNone]
        /\ 0 \in 0..Retries /\ 0 \in 0..MaxFaults /\ 0 \in 0..MaxEdits
    BY PatchAssumption, CommitteAssumption
  <1>2. << >> \in Seq(Ops) /\ << >> \in Seq(Paths)
    OBVIOUS
  <1> QED
    BY <1>1, <1>2 DEF GeniInit, Init, Types, OuterTypes, NewFuzzy,
       NewCommitte, Stages

\* git-apply-fuzzy keeps the types.
LEMMA FuzzyTypes ==
    ASSUME Types, Fuzzy
    PROVE  Types'
  <1> DEFINE rest == <<head, cm, user>>
  <1>0. FuzzyNext /\ UNCHANGED rest
    BY DEF Fuzzy
  <1>1. CASE Plan
    <2> DEFINE ops == FlattenSeq([i \in DOMAIN patch |-> OpsOf(Parsed(patch[i]), i, tree)])
               wrong == \E i \in DOMAIN patch : Wrong(i, tree)
    <2>1. /\ fuzzy' = IF \E i \in DOMAIN patch : Breaks(i, tree)
                      THEN [fuzzy EXCEPT !.stage = "crashed"]
                      ELSE IF ~Gate(wrong) THEN [fuzzy EXCEPT !.stage = "failed"]
                      ELSE [fuzzy EXCEPT !.stage = "doing", !.todo = Ordered(ops),
                                         !.failed = wrong]
          /\ UNCHANGED <<tree, index, patch, faults>>
      BY <1>1 DEF Plan
    <2>2. (\A i \in DOMAIN patch : ~Breaks(i, tree)) => Ordered(ops) \in Seq(Ops)
      BY PlannedOps
    <2> HIDE DEF ops
    <2> QED
      BY <1>0, <2>1, <2>2 DEF Types, Exited
  <1>2. CASE Perform
    <2>1. PICK op \in ToSet(fuzzy.todo) :
            /\ Doing(op) /\ Possible(op) /\ DoneWith(op)
            /\ Move(op) \/ Write(op) \/ Delete(op) \/ Chmod(op) \/ Submodule(op)
            /\ UNCHANGED <<patch, faults>>
      BY <1>2 DEF Perform
    <2>2. tree' \in [Paths -> FileOrNone] /\ index' \in [Paths -> FileOrNone]
      BY <2>1, WriteTyped
    <2>3. Tail(fuzzy.todo) \in Seq(Ops) /\ fuzzy'.applied \in Seq(Paths)
          /\ fuzzy' = [stage |-> fuzzy.stage, todo |-> Tail(fuzzy.todo),
                       applied |-> fuzzy'.applied, failed |-> fuzzy.failed]
      BY <2>1, OpAtHand, DoneTyped
    <2>4. fuzzy' \in [stage : {"off", "planning", "doing"} \cup Exited,
                      todo : Seq(Ops), applied : Seq(Paths), failed : BOOLEAN]
      <3> DEFINE now == fuzzy'.applied
      <3>1. now \in Seq(Paths)
            /\ fuzzy' = [stage |-> fuzzy.stage, todo |-> Tail(fuzzy.todo),
                         applied |-> now, failed |-> fuzzy.failed]
        BY <2>3
      <3> HIDE DEF now
      <3> QED
        BY <2>3, <3>1 DEF Types
    <2> QED
      BY <1>0, <2>1, <2>2, <2>4 DEF Types
  <1>3. CASE Stumble
    <2>1. PICK op \in ToSet(fuzzy.todo) :
            /\ Doing(op)
            /\ fuzzy' = IF op.phase \in {"chmod", "submodule"}
                        THEN [fuzzy EXCEPT !.todo = Tail(@), !.failed = TRUE]
                        ELSE [fuzzy EXCEPT !.stage = "crashed"]
            /\ tree' \in [Paths -> FileOrNone] /\ faults' \in 0..MaxFaults
            /\ UNCHANGED <<index, patch>>
      BY <1>3, StumbleIs
    <2>2. Tail(fuzzy.todo) \in Seq(Ops)
      BY <2>1, OpAtHand
    <2> QED
      BY <1>0, <2>1, <2>2 DEF Types, Exited
  <1>4. CASE Add
    <2> DEFINE path == Head(fuzzy.applied)
    <2>1. path \in Paths /\ Tail(fuzzy.applied) \in Seq(Paths)
      BY <1>4, FirstAndRest DEF Add, Types
    <2>2. /\ index' = [index EXCEPT ![path] = tree[path]] \/ index' = index
          /\ faults' = faults \/ (faults' = faults + 1 /\ faults < MaxFaults)
          /\ fuzzy' \in {[fuzzy EXCEPT !.applied = Tail(@)],
                         [fuzzy EXCEPT !.applied = Tail(@), !.failed = TRUE]}
          /\ UNCHANGED <<tree, patch>>
      BY <1>4 DEF Add
    <2> HIDE DEF path
    <2>3. index' \in [Paths -> FileOrNone]
      BY <2>1, <2>2 DEF Types
    <2>4. faults' \in 0..MaxFaults
      BY <2>2, CommitteAssumption DEF Types
    <2>5. fuzzy' \in [stage : {"off", "planning", "doing"} \cup Exited,
                      todo : Seq(Ops), applied : Seq(Paths), failed : BOOLEAN]
      BY <2>1, <2>2 DEF Types
    <2> QED
      BY <1>0, <2>2, <2>3, <2>4, <2>5 DEF Types
  <1>5. CASE Exit
    BY <1>0, <1>5 DEF Exit, Goto, Types, Exited
  <1> QED
    BY <1>0, <1>1, <1>2, <1>3, <1>4, <1>5 DEF FuzzyNext

\* So do committe, the user, and the programs around them.
LEMMA ScriptTypes ==
    ASSUME Types, NEW answers \in {Patches, Later}, Script(answers)
    PROVE  Types'
  <1>1. CASE Check
    BY <1>1 DEF Check, CmGoto, Types, fuzzyVars, Stages, Returned
  <1>2. CASE MkPatch(answers)
    <2>1. answers \subseteq Patches
      BY GeniAssumption
    <2>2. patch' \in answers \/ patch' = patch
      BY <1>2 DEF MkPatch
    <2>3. \/ cm' \in {[cm EXCEPT !.stage = s] : s \in {"applying", "question", "unanswered"}}
          \/ cm.asked < Retries /\ cm' = [cm EXCEPT !.asked = @ + 1]
      BY <1>2 DEF MkPatch, CmGoto
    <2>4. cm.asked < Retries => cm.asked + 1 \in 0..Retries
      BY CommitteAssumption DEF Types
    <2>5. cm' \in [stage : Stages, asked : 0..Retries, tries : 0..Retries,
                   via : {None, "git", "fuzzy"}, base : [Paths -> FileOrNone]]
      BY <2>3, <2>4 DEF Types, Stages, Returned
    <2> QED
      BY <1>2, <2>1, <2>2, <2>5 DEF MkPatch, Types
  <1>3. CASE GitApply
    <2> DEFINE staged == Meant(index, FALSE)
    <2>1. index \in [Paths -> FileOrNone] /\ tree \in [Paths -> FileOrNone]
      BY DEF Types
    <2>2. staged.files \in [Paths -> FileOrNone]
      BY <2>1, MeantTyped DEF Applying
    <2> HIDE DEF staged
    <2>3. /\ \/ tree' = tree
             \/ tree' = [p \in Paths |->
                           IF p \in Touched THEN staged.files[p] ELSE tree[p]]
          /\ \/ index' = index
             \/ index' = [p \in Paths |->
                            IF p \in Touched THEN staged.files[p] ELSE index[p]]
          /\ cm' \in {[cm EXCEPT !.stage = "committing", !.via = "git"],
                      [cm EXCEPT !.stage = "fuzzy"]}
          /\ fuzzy' \in {fuzzy, [NewFuzzy EXCEPT !.stage = "planning"]}
          /\ UNCHANGED <<patch, faults, head, user>>
      BY <1>3 DEF GitApply, CmGoto, staged
    <2>4. tree' \in [Paths -> FileOrNone] /\ index' \in [Paths -> FileOrNone]
      BY <2>1, <2>2, <2>3
    <2>5. fuzzy' \in [stage : {"off", "planning", "doing"} \cup Exited,
                      todo : Seq(Ops), applied : Seq(Paths), failed : BOOLEAN]
      <3>1. << >> \in Seq(Ops) /\ << >> \in Seq(Paths)
        OBVIOUS
      <3> QED
        BY <2>3, <3>1 DEF Types, NewFuzzy
    <2>6. cm' \in [stage : Stages, asked : 0..Retries, tries : 0..Retries,
                   via : {None, "git", "fuzzy"}, base : [Paths -> FileOrNone]]
      BY <2>3 DEF Types, Stages
    <2> QED
      BY <2>3, <2>4, <2>5, <2>6 DEF Types
  <1>4. CASE FuzzyReturns
    <2>1. \/ cm' = [cm EXCEPT !.stage = "committing", !.via = "fuzzy"]
          \/ cm' = [cm EXCEPT !.stage = "failed"]
          \/ ~(cm.tries >= Retries) /\ cm' = [cm EXCEPT !.stage = "applying", !.tries = @ + 1]
      BY <1>4 DEF FuzzyReturns, Again
    <2>2. ~(cm.tries >= Retries) => cm.tries + 1 \in 0..Retries
      BY CommitteAssumption DEF Types
    <2>3. cm' \in [stage : Stages, asked : 0..Retries, tries : 0..Retries,
                   via : {None, "git", "fuzzy"}, base : [Paths -> FileOrNone]]
      BY <2>1, <2>2 DEF Types, Stages, Returned
    <2> QED
      BY <1>4, <2>3 DEF FuzzyReturns, fuzzyVars, Types
  <1>5. CASE Commit
    BY <1>5 DEF Commit, CmGoto, fuzzyVars, Types, Stages, Returned
  <1>6. CASE Fuzzy
    BY <1>6, FuzzyTypes
  <1> QED
    BY <1>1, <1>2, <1>3, <1>4, <1>5, <1>6 DEF Script

\* An edit of the user, and a git add of it, keep the types.
LEMMA UserTypes ==
    ASSUME Types, NEW p \in Paths, Edit(p) \/ Stage(p)
    PROVE  Types'
  <1>0. tree \in [Paths -> FileOrNone] /\ index \in [Paths -> FileOrNone]
    BY DEF Types
  <1>1. CASE Edit(p)
    <2> DEFINE new == EditedFile(tree[p])
    <2>0. user' = [user EXCEPT !.edits = @ + 1]
          /\ user.edits < MaxEdits /\ UNCHANGED <<index, patch, fuzzy, faults, head, cm>>
      BY <1>1 DEF Edit
    <2>1. tree' = [tree EXCEPT ![p] = new]
      BY <1>1 DEF Edit
    <2>2. User \in Nat /\ <<User>> \in Seq(Nat)
      BY CommitteAssumption
    <2>3. new \in FileOrNone
      <3>1. tree[p] # None => Append(tree[p].text, User) \in Seq(Nat)
        BY <1>0, <2>2 DEF FileOrNone
      <3> QED
        BY <1>0, <2>2, <3>1 DEF EditedFile, FileOrNone, File, Plain, Modes
    <2> HIDE DEF new
    <2>4. tree' \in [Paths -> FileOrNone]
      BY <1>0, <2>1, <2>3
    <2>5. user' \in [edits : 0..MaxEdits, staged : BOOLEAN]
      <3>1. user.edits + 1 \in 0..MaxEdits
        BY <2>0, CommitteAssumption DEF Types
      <3> QED
        BY <2>0, <3>1 DEF Types
    <2> QED
      BY <2>0, <2>4, <2>5 DEF Types
  <1>2. CASE Stage(p)
    BY <1>0, <1>2 DEF Stage, Types
  <1> QED
    BY <1>1, <1>2

\* Every step of geni, itera, committe, git-apply-fuzzy and the user does.
LEMMA TypesKept ==
    ASSUME Types, OuterTypes, GeniNext
    PROVE  Types' /\ OuterTypes'
  <1>1. CASE Pretest
    BY <1>1 DEF Pretest, ItGoto, vars, fuzzyVars, outer, Types, OuterTypes,
       Stopped
  <1>2. CASE Round
    <2>1. Types'
      BY <1>2, ScriptTypes DEF Round
    <2> QED
      BY <1>2, <2>1 DEF Round, outer, OuterTypes
  <1>3. CASE GiveUp
    BY <1>3 DEF GiveUp, ItGoto, vars, fuzzyVars, outer, Types, OuterTypes,
       Stopped
  <1>4. CASE Green
    BY <1>4 DEF Green, ItGoto, vars, fuzzyVars, Types, OuterTypes, Stopped
  <1>5. CASE Red
    <2>1. << >> \in Seq(Ops) /\ << >> \in Seq(Paths) /\ 0 \in 0..Retries
      BY CommitteAssumption
    <2>3. OuterTypes'
      BY <1>5 DEF Red, ItGoto, outer, OuterTypes, Stopped
    <2>2. CASE it.round < MaxRounds
      <3>1. /\ cm' = NewCommitte(head) /\ fuzzy' = NewFuzzy /\ patch' = << >>
            /\ UNCHANGED <<tree, index, faults, head, user>>
        BY <1>5, <2>2 DEF Red
      <3>2. cm' \in [stage : Stages, asked : 0..Retries, tries : 0..Retries,
                     via : {None, "git", "fuzzy"}, base : [Paths -> FileOrNone]]
        BY <2>1, <3>1 DEF NewCommitte, Stages, Types
      <3>3. fuzzy' \in [stage : {"off", "planning", "doing"} \cup Exited,
                        todo : Seq(Ops), applied : Seq(Paths), failed : BOOLEAN]
        BY <2>1, <3>1 DEF NewFuzzy
      <3>4. Types'
        BY <3>1, <3>2, <3>3 DEF Types
      <3> QED
        BY <2>3, <3>4
    <2>4. CASE ~(it.round < MaxRounds)
      <3>1. Types'
        BY <1>5, <2>4 DEF Red, Types
      <3> QED
        BY <2>3, <3>1
    <2> QED
      BY <2>2, <2>3, <2>4
  <1>6. CASE Merge
    BY <1>6 DEF Merge, ItGoto, vars, fuzzyVars, Types, OuterTypes, Stopped
  <1>7. CASE RemoveWorktree
    BY <1>7 DEF RemoveWorktree, ItGoto, vars, fuzzyVars, Types, OuterTypes,
       Stopped
  <1>8. CASE RootMoves
    BY <1>8 DEF RootMoves, vars, fuzzyVars, Types, OuterTypes
  <1>9. CASE UserEdits
    <2>1. Types'
      BY <1>9, UserTypes DEF UserEdits
    <2> QED
      BY <1>9, <2>1 DEF UserEdits, outer, OuterTypes
  <1>10. CASE End
    BY <1>10 DEF End, geniVars, vars, fuzzyVars, Types, OuterTypes
  <1> QED
    BY <1>1, <1>2, <1>3, <1>4, <1>5, <1>6, <1>7, <1>8, <1>9, <1>10 DEF GeniNext

----------------------------------------------------------------------------
\* Every step keeps what is known of the worktree, the branch and the tests.
LEMMA OuterKept ==
    ASSUME OuterTypes, OuterInv, GeniNext
    PROVE  OuterInv'
  <1> USE DEF Merged, CmAt
  <1>1. CASE Pretest
    BY <1>1 DEF Pretest, ItGoto, ItAt, vars, fuzzyVars, outer, OuterTypes,
       OuterInv
  <1>2. CASE Round
    BY <1>2 DEF Round, ItAt, outer, OuterTypes, OuterInv
  <1>3. CASE GiveUp
    BY <1>3 DEF GiveUp, ItGoto, ItAt, vars, fuzzyVars, outer, OuterTypes,
       OuterInv
  <1>4. CASE Green
    BY <1>4 DEF Green, ItGoto, ItAt, vars, fuzzyVars, OuterTypes, OuterInv
  <1>5. CASE Red
    BY <1>5 DEF Red, ItGoto, ItAt, outer, OuterTypes, OuterInv
  <1>6. CASE Merge
    BY <1>6 DEF Merge, FastForward, ItGoto, ItAt, vars, fuzzyVars, OuterTypes,
       OuterInv
  <1>7. CASE RemoveWorktree
    BY <1>7 DEF RemoveWorktree, ItGoto, ItAt, vars, fuzzyVars, OuterTypes,
       OuterInv
  <1>8. CASE RootMoves
    BY <1>8 DEF RootMoves, ItAt, vars, fuzzyVars, OuterTypes, OuterInv
  <1>9. CASE UserEdits
    BY <1>9 DEF UserEdits, ItAt, outer, OuterTypes, OuterInv
  <1>10. CASE End
    BY <1>10 DEF End, geniVars, vars, fuzzyVars, OuterInv
  <1> QED
    BY <1>1, <1>2, <1>3, <1>4, <1>5, <1>6, <1>7, <1>8, <1>9, <1>10 DEF GeniNext

\* So does a step of something else.
LEMMA Stutter ==
    ASSUME UNCHANGED geniVars
    PROVE  /\ Types => Types'
           /\ OuterTypes => OuterTypes'
           /\ OuterInv => OuterInv'
  BY DEF geniVars, vars, fuzzyVars, Types, OuterTypes, OuterInv, CmAt

\* The types, and where geni has got to, hold throughout.
THEOREM TypesHold == GeniSpec => [](Types /\ OuterTypes /\ OuterInv)
  <1>1. GeniInit => Types /\ OuterTypes /\ OuterInv
    <2>1. GeniInit => OuterInv
      BY DEF GeniInit, OuterInv, Merged
    <2> QED
      BY <2>1, InitTypes
  <1>2. Types /\ OuterTypes /\ OuterInv /\ [GeniNext]_geniVars
          => (Types /\ OuterTypes /\ OuterInv)'
    BY TypesKept, OuterKept, Stutter
  <1> QED
    BY <1>1, <1>2, PTL DEF GeniSpec

\* The directories are those on the way to a path.
DirTypes == dirs \subseteq {<< >>} \cup UNION {Above(p) : p \in Paths}

LEMMA DirsHold == GeniSpec => []DirTypes
  <1>1. GeniInit => DirTypes
    BY DEF GeniInit, Init, DirTypes, Folders
  <1>2. DirTypes /\ [GeniNext]_geniVars => DirTypes'
    <2> SUFFICES ASSUME DirTypes, [GeniNext]_geniVars PROVE DirTypes'
      OBVIOUS
    <2>1. ASSUME GitApply
          PROVE  DirTypes'
      <3>1. dirs' = Folders(tree') \cup (dirs \ Emptied) \/ dirs' = dirs
        BY <2>1 DEF GitApply
      <3>2. Folders(tree') \subseteq {<< >>} \cup UNION {Above(p) : p \in Paths}
        BY DEF Folders
      <3> QED
        BY <3>1, <3>2 DEF DirTypes
    <2>2. ASSUME NEW p \in Paths, Edit(p)
          PROVE  DirTypes'
      BY <2>2 DEF Edit, DirTypes
    <2>3. ASSUME NEW p \in Paths, Stage(p)
          PROVE  DirTypes'
      BY <2>3 DEF Stage, DirTypes
    <2>4. ASSUME UNCHANGED dirs
          PROVE  DirTypes'
      BY <2>4 DEF DirTypes
    <2>5. ASSUME NEW answers, Script(answers), ~GitApply
          PROVE  UNCHANGED dirs
      BY <2>5 DEF Script, Check, MkPatch, FuzzyReturns, Commit, Fuzzy, FuzzyNext, Plan,
         Perform, Stumble, Add, Exit, fuzzyVars
    <2>6. CASE Round
      BY <2>1, <2>4, <2>5, <2>6 DEF Round
    <2>7. CASE UserEdits
      BY <2>2, <2>3, <2>7 DEF UserEdits
    <2>8. ~Round /\ ~UserEdits => UNCHANGED dirs
      BY DEF GeniNext, Pretest, GiveUp, Green, Red, Merge, RemoveWorktree, RootMoves, End,
         geniVars, vars, fuzzyVars
    <2> QED
      BY <2>4, <2>6, <2>7, <2>8
  <1> QED
    BY <1>1, <1>2, PTL DEF GeniSpec

\* Whatever the patches and the bounds, the variables of committe and of
\* git-apply-fuzzy keep their types: no operation is done on a path that is not
\* one, no file is left without a mode, and no loop counter passes --retries.
THEOREM TypeCorrect == GeniSpec => []TypeOK
  <1>1. Types /\ DirTypes => TypeOK
    BY DEF Types, DirTypes, TypeOK, Stages
  <1> QED
    BY <1>1, TypesHold, DirsHold, PTL

\* geni removes a branch only after the repository's has its commit, and leaves a
\* branch that has moved where it is (merge --ff-only, branch -d; geni.sh).
THEOREM NoWorkIsLost == GeniSpec => []WorkIsReachable
  <1>1. OuterTypes /\ OuterInv => WorkIsReachable
    BY DEF OuterTypes, OuterInv, WorkIsReachable, Merged
  <1> QED
    BY <1>1, TypesHold, PTL

----------------------------------------------------------------------------
\* The patch does not change, nor does what it says.
LEMMA SamePatch ==
    ASSUME patch' = patch
    PROVE  PatchPaths' = PatchPaths /\ Touched' = Touched
  BY DEF PatchPaths, Touched

\* Nor do the entries that cannot be done.
LEMMA SameHopeless ==
    ASSUME patch' = patch, cm'.base = cm.base
    PROVE  (\E i \in DOMAIN patch : Hopeless(i))' <=> \E i \in DOMAIN patch : Hopeless(i)
  BY DEF Hopeless, Breaks, Wrong

\* git apply and git-apply-fuzzy go to the same paths.
LEMMA PathsTouched ==
    ASSUME HeadersAgree, Types
    PROVE  PatchPaths \subseteq Touched
  BY DEF HeadersAgree, NamesAgree, Types, PatchPaths, Touched

\* An entry that cannot be done on the files committe was called on cannot be
\* done on a tree that is still those files.
LEMMA StillHopeless ==
    ASSUME Types, \A p \in Plainly : tree[p] = cm.base[p],
           NEW i \in DOMAIN patch, Hopeless(i)
    PROVE  Breaks(i, tree) \/ (Wrong(i, tree) /\ ~Forced)
  <1> DEFINE e == Parsed(patch[i])
             n == Named(e)
  <1>1. Wrong(i, cm.base) <=> Wrong(i, tree)
    BY DEF Wrong, Kind
  <1>2. ASSUME Breaks(i, cm.base), n.source \notin Submodules
        PROVE  Breaks(i, tree)
    <2>1. Kind(e, i, cm.base) = "mismatch"
      BY <1>2 DEF Breaks
    <2>2. n.path # None /\ n.new # None /\ n.old # None
      BY <2>1 DEF Kind
    <2>3. n.source \in Paths
      <3>1. n.source = IF e.renames THEN n.old ELSE n.path
        BY PatchFacts, NamesTyped
      <3>2. n.old \in Paths /\ n.path \in Paths
        BY <2>2, PatchFacts, NamesTyped DEF Or
      <3> QED
        BY <3>1, <3>2
    <2>4. tree[n.source] = cm.base[n.source]
      BY <1>2, <2>3 DEF Plainly
    <2>5. Kind(e, i, tree) = Kind(e, i, cm.base)
      BY <2>4 DEF Kind
    <2> QED
      BY <2>1, <2>5 DEF Breaks
  <1> QED
    BY <1>1, <1>2 DEF Hopeless

\* The clean check of committe keeps everything calm.
LEMMA CheckCalm ==
    ASSUME Types, Calm, Check
    PROVE  Calm'
  <1>1. /\ CmAt("checking") /\ UNCHANGED <<tree, index, patch, fuzzy, head>>
        /\ \E s \in {"asking", "refused"} : cm' = [cm EXCEPT !.stage = s]
    BY DEF Check, CmGoto, fuzzyVars
  <1>2. cm'.stage \in {"asking", "refused"} /\ cm'.base = cm.base
    BY <1>1 DEF Types
  <1>3. EvenInv' /\ HeadInv' /\ BaseInv'
    BY <1>1, <1>2 DEF Calm, EvenInv, HeadInv, BaseInv, Even, Behind, CmAt
  <1>4. WithinInv' /\ FreshInv' /\ PendingInv' /\ OkInv' /\ GateInv'
    BY <1>2 DEF WithinInv, FreshInv, PendingInv, OkInv, GateInv, Behind, CmAt
  <1> QED
    BY <1>3, <1>4 DEF Calm

\* The patch arrives on a tree that is even, staged and committed.
LEMMA MkPatchCalm ==
    ASSUME Types, Calm, NEW answers, MkPatch(answers)
    PROVE  Calm'
  <1>1. /\ CmAt("asking") /\ UNCHANGED <<tree, index, fuzzy, head>>
        /\ \/ \E s \in {"applying", "question", "unanswered"} : cm' = [cm EXCEPT !.stage = s]
           \/ cm' = [cm EXCEPT !.asked = @ + 1]
    BY DEF MkPatch, CmGoto
  <1>2. cm'.base = cm.base /\ cm'.stage \in {"applying", "question", "unanswered", "asking"}
    BY <1>1 DEF Types, CmAt
  <1>3. /\ \A p \in Plainly : Even(p)
        /\ head = index /\ cm.base = index
    BY <1>1 DEF Calm, EvenInv, HeadInv, BaseInv, Behind, CmAt
  <1>4. (\A p \in Plainly : Even(p))'
    BY <1>1, <1>3 DEF Even
  <1>5. EvenInv' /\ WithinInv' /\ HeadInv' /\ BaseInv'
    BY <1>1, <1>2, <1>3, <1>4 DEF EvenInv, WithinInv, HeadInv, BaseInv
  <1>6. FreshInv' /\ PendingInv' /\ OkInv'
    BY <1>2 DEF FreshInv, PendingInv, OkInv, CmAt
  <1>7. GateInv'
    BY <1>1, <1>2, <1>3 DEF GateInv, Even, CmAt
  <1> QED
    BY <1>5, <1>6, <1>7 DEF Calm

\* git apply takes all of a patch or nothing; if it takes it, every path that was
\* uneven is one it has written, which is what --index and HeadersAgree are for.
LEMMA GitApplyCalm ==
    ASSUME HeadersAgree, Types, Calm, GitApply
    PROVE  Calm'
  <1> DEFINE staged == Meant(index, FALSE)
             ok == staged.ok /\ \A p \in Touched : Current(p)
  <1>1. CmAt("applying") /\ UNCHANGED <<patch, head>>
    BY DEF GitApply
  <1>2. \A p \in Plainly : Even(p) \/ p \in PatchPaths
    BY <1>1 DEF Calm, WithinInv, Behind, CmAt
  <1>3. CASE ok
    <2>1. /\ tree' = [p \in Paths |-> IF p \in Touched THEN staged.files[p] ELSE tree[p]]
          /\ index' = [p \in Paths |-> IF p \in Touched THEN staged.files[p] ELSE index[p]]
          /\ cm' = [cm EXCEPT !.stage = "committing", !.via = "git"]
      BY <1>3 DEF GitApply
    <2>2. cm'.stage = "committing"
      BY <2>1 DEF Types
    <2>3. \A p \in Plainly : tree'[p] = index'[p]
      BY <1>2, <2>1, PathsTouched DEF Plainly, Even
    <2>4. EvenInv'
      BY <2>3 DEF EvenInv, Even
    <2>5. WithinInv' /\ FreshInv' /\ PendingInv' /\ OkInv' /\ HeadInv' /\ BaseInv' /\ GateInv'
      BY <2>2 DEF WithinInv, FreshInv, PendingInv, OkInv, HeadInv, BaseInv,
         GateInv, Behind, CmAt
    <2> QED
      BY <2>4, <2>5 DEF Calm
  <1>4. CASE ~ok
    <2>1. /\ cm' = [cm EXCEPT !.stage = "fuzzy"]
          /\ fuzzy' = [NewFuzzy EXCEPT !.stage = "planning"]
          /\ UNCHANGED <<tree, index>>
      BY <1>4 DEF GitApply, CmGoto
    <2>2. cm'.stage = "fuzzy" /\ cm'.base = cm.base
          /\ fuzzy'.stage = "planning" /\ fuzzy'.applied = << >>
      BY <2>1 DEF Types, NewFuzzy
    <2>3. WithinInv'
      BY <1>1, <1>2, <2>1, SamePatch DEF WithinInv, Even
    <2>4. EvenInv' /\ FreshInv' /\ PendingInv' /\ OkInv' /\ HeadInv' /\ BaseInv'
      BY <2>2 DEF EvenInv, FreshInv, PendingInv, OkInv, HeadInv, BaseInv,
         Behind, At, CmAt
    <2>5. GateInv'
      <3>1. (\E i \in DOMAIN patch : Hopeless(i))' => \E i \in DOMAIN patch : Hopeless(i)
        BY <1>1, <2>2, SameHopeless
      <3> QED
        BY <1>1, <2>1, <2>2, <3>1 DEF Calm, GateInv, CmAt
    <2> QED
      BY <2>3, <2>4, <2>5 DEF Calm
  <1> HIDE DEF ok
  <1> QED
    BY <1>3, <1>4

\* Only a git-apply-fuzzy that returned 0 leads on to the commit.
LEMMA FuzzyReturnsCalm ==
    ASSUME Types, Calm, FuzzyReturns
    PROVE  Calm'
  <1>1. CmAt("fuzzy") /\ UNCHANGED <<tree, index, patch, fuzzy, head>>
    BY DEF FuzzyReturns, fuzzyVars
  <1>2. /\ cm'.base = cm.base
        /\ cm'.stage \in {"committing", "failed", "applying"}
        /\ cm'.stage = "committing" => At("ok")
    BY DEF FuzzyReturns, Applied, Again, Types
  <1>3. FreshInv' /\ PendingInv' /\ OkInv' /\ HeadInv' /\ BaseInv'
    BY <1>2 DEF FreshInv, PendingInv, OkInv, HeadInv, BaseInv, Behind, CmAt
  <1>4. EvenInv'
    BY <1>1, <1>2 DEF Calm, OkInv, EvenInv, Even, Behind
  <1>5. WithinInv'
    BY <1>1, <1>2, SamePatch DEF Calm, WithinInv, Even, Behind, CmAt
  <1>6. GateInv'
    <2>1. (\E i \in DOMAIN patch : Hopeless(i))' => \E i \in DOMAIN patch : Hopeless(i)
      BY <1>1, <1>2, SameHopeless
    <2> QED
      BY <1>1, <1>2, <2>1 DEF Calm, GateInv, CmAt
  <1> QED
    BY <1>3, <1>4, <1>5, <1>6 DEF Calm

\* git commit takes the whole index.
LEMMA CommitCalm ==
    ASSUME Types, Calm, Commit
    PROVE  Calm'
  <1>1. /\ CmAt("committing") /\ UNCHANGED <<tree, index, patch, fuzzy>> /\ head' = index
        /\ cm'.base = cm.base /\ cm'.stage \in {"uncommitted", "done"}
    BY DEF Commit, CmGoto, fuzzyVars, Types
  <1>2. EvenInv' /\ HeadInv'
    BY <1>1 DEF Calm, EvenInv, HeadInv, Even, Behind, CmAt
  <1>3. WithinInv' /\ FreshInv' /\ PendingInv' /\ OkInv' /\ BaseInv' /\ GateInv'
    BY <1>1 DEF WithinInv, FreshInv, PendingInv, OkInv, BaseInv, GateInv,
       Behind, CmAt
  <1> QED
    BY <1>2, <1>3 DEF Calm

----------------------------------------------------------------------------
\* A step of git-apply-fuzzy keeps everything calm, one action at a time.
LEMMA InFuzzy ==
    ASSUME Types, Calm, Fuzzy,
           FreshInv', PendingInv', OkInv', GateInv',
           \A p \in Plainly : Even(p)' \/ p \in PatchPaths
    PROVE  Calm'
  <1>1. CmAt("fuzzy") /\ UNCHANGED <<head, cm>> /\ patch' = patch
    BY DEF Fuzzy, FuzzyNext, Plan, Perform, Stumble, Add, Exit
  <1>2. EvenInv' /\ HeadInv' /\ BaseInv'
    BY <1>1 DEF EvenInv, HeadInv, BaseInv, Behind, CmAt
  <1>3. WithinInv'
    BY <1>1, SamePatch DEF WithinInv
  <1> QED
    BY <1>2, <1>3 DEF Calm

\* The planning loop covers every path that is uneven, or stops before the tree.
LEMMA PlanCalm ==
    ASSUME Types, Calm, Fuzzy, Plan
    PROVE  Calm'
  <1> DEFINE ops == FlattenSeq([i \in DOMAIN patch |-> OpsOf(Parsed(patch[i]), i, tree)])
             wrong == \E i \in DOMAIN patch : Wrong(i, tree)
             broken == \E i \in DOMAIN patch : Breaks(i, tree)
  <1>1. /\ CmAt("fuzzy") /\ At("planning") /\ UNCHANGED <<tree, index, patch, cm>>
        /\ fuzzy' =
             IF broken THEN [fuzzy EXCEPT !.stage = "crashed"]
             ELSE IF ~Gate(wrong) THEN [fuzzy EXCEPT !.stage = "failed"]
             ELSE [fuzzy EXCEPT !.stage = "doing", !.todo = Ordered(ops), !.failed = wrong]
    BY DEF Fuzzy, Plan
  <1>2. \A p \in Plainly : Even(p) \/ p \in PatchPaths
    BY <1>1 DEF Calm, WithinInv, Behind, CmAt
  <1>3. \A p \in Plainly : Even(p)' \/ p \in PatchPaths
    BY <1>1, <1>2 DEF Even
  <1>4. fuzzy.applied = << >>
    BY <1>1 DEF Calm, FreshInv
  <1>5. ~broken => /\ \A op \in ToSet(Ordered(ops)) : OpPaths(op) \subseteq PatchPaths
                   /\ ~wrong => PatchPaths
                                  \subseteq UNION {OpPaths(op) : op \in ToSet(Ordered(ops))}
    BY PlannedOps DEF Wrong
  <1> HIDE DEF ops
  <1>6. /\ fuzzy'.applied = << >> /\ fuzzy'.stage \in {"crashed", "failed", "doing"}
        /\ fuzzy'.stage = "doing" =>
              ~broken /\ Gate(wrong) /\ fuzzy'.todo = Ordered(ops) /\ fuzzy'.failed = wrong
    BY <1>1, <1>4 DEF Types
  <1>7. FreshInv' /\ OkInv'
    BY <1>6 DEF FreshInv, OkInv, At
  <1>8. PendingInv'
    <2> SUFFICES ASSUME fuzzy'.stage = "doing"
                 PROVE  /\ ToSet(fuzzy'.applied) \subseteq PatchPaths
                        /\ \A op \in ToSet(fuzzy'.todo) : OpPaths(op) \subseteq PatchPaths
                        /\ ~fuzzy'.failed => \A p \in Plainly :
                              Even(p)' \/ \E op \in ToSet(fuzzy'.todo) : p \in OpPaths(op)
      BY <1>1, SamePatch DEF PendingInv, At
    <2>1. ToSet(fuzzy'.applied) = {}
      BY <1>6, OneElement
    <2>2. fuzzy'.todo = Ordered(ops) /\ fuzzy'.failed = wrong /\ ~broken
      BY <1>6
    <2>3. \A op \in ToSet(fuzzy'.todo) : OpPaths(op) \subseteq PatchPaths
      BY <1>5, <2>2
    <2> HIDE DEF wrong, broken
    <2>4. ~fuzzy'.failed => PatchPaths \subseteq UNION {OpPaths(op) : op \in ToSet(fuzzy'.todo)}
      BY <1>5, <2>2
    <2> QED
      BY <1>3, <2>1, <2>3, <2>4
  <1>9. GateInv'
    <2> SUFFICES ASSUME \E i \in DOMAIN patch : Hopeless(i)
                 PROVE  /\ index' = cm.base /\ \A p \in Plainly : tree'[p] = cm.base[p]
                        /\ fuzzy'.stage \in {"crashed", "failed"}
      BY <1>1, SameHopeless DEF GateInv
    <2>1. index = cm.base /\ \A p \in Plainly : tree[p] = cm.base[p]
      BY <1>1 DEF Calm, GateInv, CmAt
    <2>2. broken \/ (wrong /\ ~Forced)
      BY <2>1, StillHopeless
    <2> QED
      BY <1>1, <1>6, <2>1, <2>2 DEF Gate
  <1> QED
    BY <1>3, <1>7, <1>8, <1>9, InFuzzy

\* While git-apply-fuzzy works, every entry of the patch can be done.
LEMMA NoneHopeless ==
    ASSUME Calm, Fuzzy, At("doing"), patch' = patch
    PROVE  GateInv'
  <1>1. CmAt("fuzzy") /\ cm' = cm
    BY DEF Fuzzy
  <1>2. ~ \E i \in DOMAIN patch : Hopeless(i)
    BY <1>1 DEF Calm, GateInv, CmAt, At
  <1>3. ~ (\E i \in DOMAIN patch : Hopeless(i))'
    BY <1>1, <1>2, SameHopeless
  <1> QED
    BY <1>3 DEF GateInv

\* What is known while it works.
LEMMA Pending ==
    ASSUME Calm, Fuzzy, At("doing")
    PROVE  /\ CmAt("fuzzy") /\ cm' = cm
           /\ \A p \in Plainly : Even(p) \/ p \in PatchPaths
           /\ ToSet(fuzzy.applied) \subseteq PatchPaths
           /\ \A op \in ToSet(fuzzy.todo) : OpPaths(op) \subseteq PatchPaths
           /\ ~fuzzy.failed => \A p \in Plainly :
                 \/ Even(p) \/ p \in ToSet(fuzzy.applied)
                 \/ \E op \in ToSet(fuzzy.todo) : p \in OpPaths(op)
  <1>1. CmAt("fuzzy") /\ cm' = cm
    BY DEF Fuzzy
  <1>2. \A p \in Plainly : Even(p) \/ p \in PatchPaths
    BY <1>1 DEF Calm, WithinInv, Behind, CmAt
  <1> QED
    BY <1>1, <1>2 DEF Calm, PendingInv

\* What an operation makes uneven it puts on the list of those to stage.
LEMMA PerformCalm ==
    ASSUME Types, Calm, Fuzzy, Perform
    PROVE  Calm'
  <1>1. PICK op \in ToSet(fuzzy.todo) :
          /\ Doing(op) /\ Possible(op) /\ DoneWith(op)
          /\ Move(op) \/ Write(op) \/ Delete(op) \/ Chmod(op) \/ Submodule(op)
          /\ UNCHANGED <<patch, faults>>
    BY DEF Perform
  <1>2. /\ \A p \in Paths \ OpPaths(op) : tree'[p] = tree[p]
        /\ \A p \in Paths \ Submodules : index'[p] = index[p]
    BY <1>1, WriteTyped
  <1>3. At("doing") /\ ToSet(fuzzy.todo) = {op} \cup ToSet(Tail(fuzzy.todo))
    BY <1>1, OpAtHand
  <1>4. /\ ToSet(fuzzy'.applied) = ToSet(fuzzy.applied) \cup OpPaths(op)
        /\ fuzzy'.stage = fuzzy.stage /\ fuzzy'.todo = Tail(fuzzy.todo)
        /\ fuzzy'.failed = fuzzy.failed
    <2>1. /\ ToSet(fuzzy'.applied) = ToSet(fuzzy.applied) \cup OpPaths(op)
          /\ fuzzy' = [stage |-> fuzzy.stage, todo |-> Tail(fuzzy.todo),
                       applied |-> fuzzy'.applied, failed |-> fuzzy.failed]
      BY <1>1, DoneTyped
    <2> DEFINE now == fuzzy'.applied
    <2>2. fuzzy' = [stage |-> fuzzy.stage, todo |-> Tail(fuzzy.todo),
                    applied |-> now, failed |-> fuzzy.failed]
      BY <2>1
    <2> HIDE DEF now
    <2>3. fuzzy'.stage = fuzzy.stage /\ fuzzy'.todo = Tail(fuzzy.todo)
          /\ fuzzy'.failed = fuzzy.failed
      BY <2>2
    <2> QED
      BY <2>1, <2>3
  <1>5. /\ CmAt("fuzzy") /\ cm' = cm
        /\ \A p \in Plainly : Even(p) \/ p \in PatchPaths
        /\ ToSet(fuzzy.applied) \subseteq PatchPaths
        /\ \A o \in ToSet(fuzzy.todo) : OpPaths(o) \subseteq PatchPaths
        /\ ~fuzzy.failed => \A p \in Plainly :
              \/ Even(p) \/ p \in ToSet(fuzzy.applied)
              \/ \E o \in ToSet(fuzzy.todo) : p \in OpPaths(o)
    BY <1>3, Pending
  <1>6. \A p \in Plainly : p \in OpPaths(op) \/ (Even(p)' <=> Even(p))
    BY <1>2 DEF Even, Plainly
  <1>7. OpPaths(op) \subseteq PatchPaths
    BY <1>3, <1>5
  <1>8. \A p \in Plainly : Even(p)' \/ p \in PatchPaths
    BY <1>5, <1>6, <1>7
  <1>9. FreshInv' /\ OkInv'
    BY <1>3, <1>4 DEF FreshInv, OkInv, At
  <1>10. PendingInv'
    <2>1. ToSet(fuzzy'.applied) \subseteq PatchPaths
      BY <1>4, <1>5, <1>7
    <2>2. \A o \in ToSet(fuzzy'.todo) : OpPaths(o) \subseteq PatchPaths
      BY <1>3, <1>4, <1>5
    <2>3. ~fuzzy'.failed => \A p \in Plainly :
             \/ Even(p)' \/ p \in ToSet(fuzzy'.applied)
             \/ \E o \in ToSet(fuzzy'.todo) : p \in OpPaths(o)
      BY <1>3, <1>4, <1>5, <1>6
    <2> QED
      BY <1>1, <2>1, <2>2, <2>3, SamePatch DEF PendingInv
  <1>11. GateInv'
    BY <1>1, <1>3, NoneHopeless
  <1> QED
    BY <1>8, <1>9, <1>10, <1>11, InFuzzy

\* A call that fails is remembered, or ends git-apply-fuzzy.
LEMMA StumbleCalm ==
    ASSUME Types, Calm, Fuzzy, Stumble
    PROVE  Calm'
  <1>1. PICK op \in ToSet(fuzzy.todo) :
          /\ Doing(op)
          /\ fuzzy' = IF op.phase \in {"chmod", "submodule"}
                      THEN [fuzzy EXCEPT !.todo = Tail(@), !.failed = TRUE]
                      ELSE [fuzzy EXCEPT !.stage = "crashed"]
          /\ \A p \in Paths \ OpPaths(op) : tree'[p] = tree[p]
          /\ UNCHANGED <<index, patch>>
    BY StumbleIs
  <1>2. At("doing") /\ ToSet(fuzzy.todo) = {op} \cup ToSet(Tail(fuzzy.todo))
    BY <1>1, OpAtHand
  <1>3. \/ fuzzy'.stage = "crashed"
        \/ /\ fuzzy'.stage = "doing" /\ fuzzy'.failed
           /\ fuzzy'.todo = Tail(fuzzy.todo) /\ fuzzy'.applied = fuzzy.applied
    BY <1>1, <1>2 DEF At, Types
  <1>4. /\ \A p \in Plainly : Even(p) \/ p \in PatchPaths
        /\ ToSet(fuzzy.applied) \subseteq PatchPaths
        /\ \A o \in ToSet(fuzzy.todo) : OpPaths(o) \subseteq PatchPaths
    BY <1>2, Pending
  <1>5. \A p \in Plainly : Even(p)' \/ p \in PatchPaths
    BY <1>1, <1>4 DEF Even, Plainly
  <1>6. FreshInv' /\ OkInv'
    BY <1>3 DEF FreshInv, OkInv, At
  <1>7. PendingInv'
    BY <1>1, <1>2, <1>3, <1>4, SamePatch DEF PendingInv, At
  <1>8. GateInv'
    BY <1>1, <1>2, NoneHopeless
  <1> QED
    BY <1>5, <1>6, <1>7, <1>8, InFuzzy

\* What is staged is even again.
LEMMA AddCalm ==
    ASSUME Types, Calm, Fuzzy, Add
    PROVE  Calm'
  <1> DEFINE path == Head(fuzzy.applied)
  <1>1. /\ At("doing") /\ fuzzy.todo = << >> /\ fuzzy.applied # << >>
        /\ UNCHANGED <<tree, patch>>
        /\ \/ /\ index' = [index EXCEPT ![path] = tree[path]]
              /\ fuzzy' = [fuzzy EXCEPT !.applied = Tail(@)]
           \/ /\ fuzzy' = [fuzzy EXCEPT !.applied = Tail(@), !.failed = TRUE]
              /\ UNCHANGED index
    BY DEF Add
  <1>2. path \in Paths /\ ToSet(fuzzy.applied) = {path} \cup ToSet(Tail(fuzzy.applied))
    BY <1>1, FirstAndRest DEF Types
  <1> HIDE DEF path
  <1>3. /\ fuzzy'.stage = "doing" /\ fuzzy'.todo = << >>
        /\ fuzzy'.applied = Tail(fuzzy.applied)
        /\ \/ /\ index' = [index EXCEPT ![path] = tree[path]]
              /\ fuzzy'.failed = fuzzy.failed
           \/ fuzzy'.failed /\ UNCHANGED index
    BY <1>1 DEF At, Types
  <1>4. /\ \A p \in Plainly : Even(p) \/ p \in PatchPaths
        /\ ToSet(fuzzy.applied) \subseteq PatchPaths
        /\ ~fuzzy.failed => \A p \in Plainly :
              \/ Even(p) \/ p \in ToSet(fuzzy.applied)
              \/ \E o \in ToSet(fuzzy.todo) : p \in OpPaths(o)
    BY <1>1, Pending
  <1>5. /\ \A p \in Plainly : Even(p) => Even(p)'
        /\ ~fuzzy'.failed => tree'[path] = index'[path] /\ ~fuzzy.failed
    <2>1. tree' = tree /\ index \in [Paths -> FileOrNone]
      BY <1>1 DEF Types
    <2>2. CASE index' = [index EXCEPT ![path] = tree[path]] /\ fuzzy'.failed = fuzzy.failed
      BY <1>2, <2>1, <2>2 DEF Even, Plainly
    <2>3. CASE fuzzy'.failed /\ UNCHANGED index
      BY <2>1, <2>3 DEF Even
    <2> QED
      BY <1>3, <2>2, <2>3
  <1>6. \A p \in Plainly : Even(p)' \/ p \in PatchPaths
    BY <1>4, <1>5
  <1>7. FreshInv' /\ OkInv'
    BY <1>3 DEF FreshInv, OkInv, At
  <1>8. PendingInv'
    <2>1. ToSet(fuzzy.todo) = {} /\ ToSet(fuzzy'.todo) = {}
      BY <1>1, <1>3, OneElement
    <2>2. ToSet(fuzzy'.applied) \subseteq PatchPaths
      BY <1>2, <1>3, <1>4
    <2>3. ~fuzzy'.failed => \A p \in Plainly : Even(p)' \/ p \in ToSet(fuzzy'.applied)
      BY <1>2, <1>3, <1>4, <1>5, <2>1 DEF Even
    <2> QED
      BY <1>1, <2>1, <2>2, <2>3, SamePatch DEF PendingInv
  <1>9. GateInv'
    BY <1>1, NoneHopeless
  <1> QED
    BY <1>6, <1>7, <1>8, <1>9, InFuzzy

\* git-apply-fuzzy returns 0 only when nothing is left to do or to stage.
LEMMA ExitCalm ==
    ASSUME Types, Calm, Fuzzy, Exit
    PROVE  Calm'
  <1>1. /\ At("doing") /\ fuzzy.todo = << >> /\ fuzzy.applied = << >>
        /\ fuzzy'.stage = IF fuzzy.failed THEN "failed" ELSE "ok"
        /\ UNCHANGED <<tree, index, patch>>
    BY DEF Exit, Goto, Types
  <1>2. /\ \A p \in Plainly : Even(p) \/ p \in PatchPaths
        /\ ~fuzzy.failed => \A p \in Plainly :
              \/ Even(p) \/ p \in ToSet(fuzzy.applied)
              \/ \E o \in ToSet(fuzzy.todo) : p \in OpPaths(o)
    BY <1>1, Pending
  <1>3. ToSet(fuzzy.todo) = {} /\ ToSet(fuzzy.applied) = {}
    BY <1>1, OneElement
  <1>4. \A p \in Plainly : Even(p)' \/ p \in PatchPaths
    BY <1>1, <1>2 DEF Even
  <1>5. FreshInv' /\ PendingInv'
    BY <1>1 DEF FreshInv, PendingInv, At
  <1>6. OkInv'
    BY <1>1, <1>2, <1>3 DEF OkInv, At, Even
  <1>7. GateInv'
    BY <1>1, NoneHopeless
  <1> QED
    BY <1>4, <1>5, <1>6, <1>7, InFuzzy

\* Every step of git-apply-fuzzy keeps everything calm.
LEMMA FuzzyCalm ==
    ASSUME Types, Calm, Fuzzy
    PROVE  Calm'
  <1>1. FuzzyNext
    BY DEF Fuzzy
  <1> QED
    BY <1>1, PlanCalm, PerformCalm, StumbleCalm, AddCalm, ExitCalm
       DEF FuzzyNext

\* Every step of committe does.
LEMMA ScriptCalm ==
    ASSUME HeadersAgree, Types, Calm, NEW answers, Script(answers)
    PROVE  Calm'
  BY CheckCalm, MkPatchCalm, GitApplyCalm, FuzzyReturnsCalm, CommitCalm,
     FuzzyCalm
     DEF Script

\* And every step that is not one of its own.
LEMMA SameCalm ==
    ASSUME UNCHANGED vars
    PROVE  Calm' <=> Calm
  <1>1. UNCHANGED <<tree, index, patch, fuzzy, head, cm>>
    BY DEF vars, fuzzyVars
  <1> USE <1>1 DEF Even, At, CmAt
  <1>2. EvenInv' <=> EvenInv
    BY DEF EvenInv
  <1>3. WithinInv' <=> WithinInv
    BY SamePatch DEF WithinInv
  <1>4. PendingInv' <=> PendingInv
    BY SamePatch DEF PendingInv
  <1>5. GateInv' <=> GateInv
    BY SameHopeless DEF GateInv
  <1>6. /\ FreshInv' <=> FreshInv
        /\ OkInv' <=> OkInv
        /\ HeadInv' <=> HeadInv
        /\ BaseInv' <=> BaseInv
    BY DEF FreshInv, OkInv, HeadInv, BaseInv
  <1> QED
    BY <1>2, <1>3, <1>4, <1>5, <1>6 DEF Calm

\* A round begins on the commit of the one before, which left the tree even.
LEMMA FreshRound ==
    ASSUME Types, Calm, Red
    PROVE  Calm'
  <1>1. CmAt("done") /\ UNCHANGED <<tree, index, head>>
    BY DEF Red
  <1>2. CASE it.round < MaxRounds
    <2>1. cm'.stage = "checking" /\ cm'.base = head
      BY <1>2 DEF Red, NewCommitte
    <2>2. head = index /\ \A p \in Plainly : Even(p)
      BY <1>1 DEF Calm, HeadInv, EvenInv, Behind, CmAt
    <2>3. EvenInv' /\ HeadInv' /\ BaseInv'
      BY <1>1, <2>1, <2>2 DEF EvenInv, HeadInv, BaseInv, Even
    <2>4. WithinInv' /\ FreshInv' /\ PendingInv' /\ OkInv' /\ GateInv'
      BY <2>1 DEF WithinInv, FreshInv, PendingInv, OkInv, GateInv, CmAt, Behind
    <2> QED
      BY <2>3, <2>4 DEF Calm
  <1>3. CASE ~(it.round < MaxRounds)
    BY <1>3, SameCalm DEF Red, vars, fuzzyVars
  <1> QED
    BY <1>2, <1>3

\* Every step of the system does, as long as the user has not edited.
LEMMA UndisturbedKept ==
    ASSUME HeadersAgree, Types, Undisturbed, [GeniNext]_geniVars
    PROVE  Undisturbed'
  <1>1. CASE Round
    <2>1. user' = user /\ \E answers : Script(answers)
      BY <1>1 DEF Round, Script, Check, MkPatch, GitApply, FuzzyReturns,
         Commit, Fuzzy
    <2> QED
      BY <2>1, ScriptCalm DEF Undisturbed
  <1>2. CASE Red
    BY <1>2, FreshRound DEF Red, Undisturbed
  <1>3. CASE UserEdits
    <2>1. PICK p \in Paths : Edit(p) \/ Stage(p)
      BY <1>3 DEF UserEdits
    <2>2. user \in [edits : 0..MaxEdits, staged : BOOLEAN] /\ MaxEdits \in Nat
      BY CommitteAssumption DEF Types
    <2>3. user' = [user EXCEPT !.edits = @ + 1] \/ (user'.edits = user.edits /\ user.edits > 0)
      <3>1. CASE Edit(p)
        BY <3>1 DEF Edit
      <3>2. CASE Stage(p)
        BY <2>2, <3>2 DEF Stage
      <3> QED
        BY <2>1, <3>1, <3>2
    <2>4. user'.edits > 0
      BY <2>2, <2>3
    <2> QED
      BY <2>4 DEF Undisturbed
  <1>4. CASE UNCHANGED vars
    BY <1>4, SameCalm DEF Undisturbed, vars
  <1>5. Pretest \/ GiveUp \/ Green \/ Merge \/ RemoveWorktree \/ RootMoves \/ End
            \/ UNCHANGED geniVars => UNCHANGED vars
    BY DEF Pretest, GiveUp, Green, Merge, RemoveWorktree, RootMoves, End,
       geniVars
  <1> QED
    BY <1>1, <1>2, <1>3, <1>4, <1>5 DEF GeniNext

\* geni begins on a fresh worktree.
LEMMA InitCalm == GeniInit => Calm
  <1> SUFFICES ASSUME GeniInit PROVE Calm
    OBVIOUS
  <1>1. /\ tree = index /\ head = index /\ patch = << >> /\ cm.stage = "checking"
        /\ cm.base = index
    BY DEF GeniInit, Init, NewCommitte
  <1> QED
    BY <1>1 DEF Calm, EvenInv, WithinInv, FreshInv, PendingInv, OkInv,
       HeadInv, BaseInv,
                GateInv, Behind, CmAt, Even

\* The inductive invariant: while the user has not edited, whatever is uneven has
\* still to be written or staged, and a commit comes only when nothing is.
THEOREM StaysCalm ==
    ASSUME HeadersAgree
    PROVE  GeniSpec => []Undisturbed
  <1>1. GeniInit => Undisturbed
    BY InitCalm DEF Undisturbed
  <1>2. HeadersAgree /\ Types /\ Undisturbed /\ [GeniNext]_geniVars => Undisturbed'
    BY UndisturbedKept
  <1>3. HeadersAgree
    OBVIOUS
  <1>4. Types /\ Undisturbed /\ [GeniNext]_geniVars => Undisturbed'
    BY <1>2, <1>3
  <1> QED
    BY <1>1, <1>4, TypesHold, PTL DEF GeniSpec

\* A patch of which an entry cannot be done changes nothing, in any round, on any
\* try and whatever fails (the gate of main(), __main__.py:27).
THEOREM NothingBeforeAll ==
    ASSUME HeadersAgree
    PROVE  GeniSpec => []GateHolds
  <1>1. Undisturbed => GateHolds
    BY DEF Undisturbed, Calm, GateInv, GateHolds, Plainly
  <1> QED
    BY <1>1, StaysCalm, PTL

\* A commit of committe is the tree, whatever failed on the way to it and however
\* often it was tried again.
THEOREM TheTreeIsCommitted ==
    ASSUME HeadersAgree
    PROVE  GeniSpec => []CommitIsTheTree
  <1>1. Undisturbed => CommitIsTheTree
    <2> SUFFICES ASSUME Undisturbed, CmAt("done"), user.edits = 0
                 PROVE  \A p \in Paths \ Submodules : tree[p] = head[p]
      BY DEF CommitIsTheTree
    <2>1. head = index /\ \A p \in Plainly : Even(p)
      BY DEF Undisturbed, Calm, HeadInv, EvenInv, Behind, CmAt
    <2> QED
      BY <2>1 DEF Plainly, Even
  <1> QED
    BY <1>1, StaysCalm, PTL

\* What geni merges into the repository's branch is, file for file, the tree the
\* tests passed on.
THEOREM TestedIsWhatLands ==
    ASSUME HeadersAgree
    PROVE  GeniSpec => []LandedIsTested
  <1>1. OuterInv /\ CommitIsTheTree => LandedIsTested
    BY DEF OuterInv, Merged, CommitIsTheTree, LandedIsTested, ItAt, CmAt
  <1> QED
    BY <1>1, TypesHold, TheTreeIsCommitted, PTL

----------------------------------------------------------------------------
\* No more is asked and tried than --retries allows, and a step that counts
\* neither leaves as many.
LEMMA TriesAreCounted ==
    ASSUME Types
    PROVE  /\ TriesLeft \in Nat
           /\ cm.asked \in Nat /\ cm.tries \in Nat /\ Retries \in Nat
           /\ cm'.asked = cm.asked /\ cm'.tries = cm.tries => TriesLeft' = TriesLeft
  <1>1. Retries \in Nat /\ cm.asked \in 0..Retries /\ cm.tries \in 0..Retries
    BY CommitteAssumption DEF Types
  <1> QED
    BY <1>1 DEF TriesLeft

\* The way through a try, stage by stage.
LEMMA TheWay ==
    /\ CmAt("checking") => WayLeft = 6
    /\ CmAt("asking") => WayLeft = 5
    /\ CmAt("applying") => WayLeft = 4
    /\ CmAt("fuzzy") /\ At("planning") => WayLeft = 3
    /\ CmAt("fuzzy") /\ ~At("planning") => WayLeft = 2
    /\ CmAt("committing") => WayLeft = 1
    /\ cm.stage \in Returned => WayLeft = 0
  BY DEF WayLeft, CmAt, Returned

\* The same of the state after a step.
LEMMA TheWayAfter ==
    /\ CmAt("asking")' => WayLeft' = 5
    /\ CmAt("applying")' => WayLeft' = 4
    /\ CmAt("fuzzy")' /\ At("planning")' => WayLeft' = 3
    /\ CmAt("fuzzy")' /\ ~At("planning")' => WayLeft' = 2
    /\ CmAt("committing")' => WayLeft' = 1
    /\ cm'.stage \in Returned => WayLeft' = 0
  BY DEF WayLeft, CmAt, Returned

\* Each operation may put two paths on the list of those to stage.
LEMMA OpsCounted ==
    ASSUME NEW n \in Nat, NEW m \in Nat
    PROVE  /\ 1 + 3 * n + m > 0
           /\ \A k \in Nat : n # 0 /\ k <= m + 2
                 => 1 + 3 * (n - 1) + k < 1 + 3 * n + m
           /\ \A k \in Nat : k < m => 1 + 3 * n + k < 1 + 3 * n + m
  OBVIOUS

\* Every step of git-apply-fuzzy leaves it less to do.
LEMMA FuzzyComesOn ==
    ASSUME Types, Fuzzy
    PROVE  LessLeft
  <1>1. CmAt("fuzzy") /\ CmAt("fuzzy")' /\ cm' = cm /\ FuzzyNext
    BY DEF Fuzzy, CmAt
  <1>2. TriesLeft' = TriesLeft
    BY <1>1, TriesAreCounted
  <1>3. fuzzy.todo \in Seq(Ops) /\ fuzzy.applied \in Seq(Paths)
    BY DEF Types
  <1>4. Len(fuzzy.todo) \in Nat /\ Len(fuzzy.applied) \in Nat
    BY <1>3
  <1>5. CASE Plan
    <2>1. At("planning") /\ fuzzy'.stage \in {"crashed", "failed", "doing"}
      BY <1>5 DEF Plan, Types
    <2>2. WayLeft = 3 /\ WayLeft' = 2
      BY <1>1, <2>1, TheWay, TheWayAfter DEF At
    <2> QED
      BY <1>2, <2>2 DEF LessLeft
  <1>6. ASSUME At("doing"), At("doing")',
               1 + 3 * Len(fuzzy'.todo) + Len(fuzzy'.applied)
                   < 1 + 3 * Len(fuzzy.todo) + Len(fuzzy.applied)
        PROVE  LessLeft
    <2>1. WayLeft = 2 /\ WayLeft' = 2
      BY <1>1, <1>6, TheWay, TheWayAfter DEF At
    <2> QED
      BY <1>2, <1>6, <2>1 DEF LessLeft, OpsLeft
  <1>7. ASSUME At("doing"), fuzzy'.stage \in Exited
        PROVE  LessLeft
    <2>1. WayLeft = 2 /\ WayLeft' = 2
      BY <1>1, <1>7, TheWay, TheWayAfter DEF At, Exited
    <2>2. OpsLeft' = 0
      BY <1>7 DEF OpsLeft, At, Exited
    <2>3. OpsLeft > 0
      BY <1>4, <1>7, OpsCounted DEF OpsLeft
    <2> QED
      BY <1>2, <2>1, <2>2, <2>3 DEF LessLeft
  <1>8. CASE Perform
    <2>1. PICK op : Doing(op) /\ DoneWith(op)
      BY <1>8 DEF Perform
    <2>2. /\ At("doing") /\ Len(Tail(fuzzy.todo)) = Len(fuzzy.todo) - 1
          /\ Len(fuzzy.todo) \in Nat \ {0}
      BY <2>1, OpAtHand
    <2>3. /\ Len(fuzzy'.applied) <= Len(fuzzy.applied) + 2 /\ Len(fuzzy'.applied) \in Nat
      BY <2>1, DoneTyped
    <2>4. fuzzy'.stage = fuzzy.stage /\ fuzzy'.todo = Tail(fuzzy.todo)
      BY <2>1 DEF DoneWith, Types
    <2>5. 1 + 3 * (Len(fuzzy.todo) - 1) + Len(fuzzy'.applied)
             < 1 + 3 * Len(fuzzy.todo) + Len(fuzzy.applied)
      BY <1>4, <2>2, <2>3, OpsCounted
    <2>6. Len(fuzzy'.todo) = Len(fuzzy.todo) - 1 /\ At("doing")'
      BY <2>2, <2>4 DEF At
    <2> QED
      BY <1>6, <2>2, <2>5, <2>6
  <1>9. CASE Stumble
    <2>1. PICK op :
            /\ Doing(op)
            /\ fuzzy' = IF op.phase \in {"chmod", "submodule"}
                        THEN [fuzzy EXCEPT !.todo = Tail(@), !.failed = TRUE]
                        ELSE [fuzzy EXCEPT !.stage = "crashed"]
      BY <1>9 DEF Stumble
    <2>2. /\ At("doing") /\ Len(Tail(fuzzy.todo)) = Len(fuzzy.todo) - 1
          /\ Len(fuzzy.todo) \in Nat \ {0}
      BY <2>1, OpAtHand
    <2>3. \/ fuzzy'.stage = "crashed"
          \/ fuzzy'.stage = fuzzy.stage /\ fuzzy'.todo = Tail(fuzzy.todo)
             /\ fuzzy'.applied = fuzzy.applied
      BY <2>1 DEF Types
    <2>4. CASE fuzzy'.stage = "crashed"
      BY <1>7, <2>2, <2>4 DEF Exited
    <2>5. CASE /\ fuzzy'.stage = fuzzy.stage /\ fuzzy'.todo = Tail(fuzzy.todo)
               /\ fuzzy'.applied = fuzzy.applied
      <3>1. 1 + 3 * (Len(fuzzy.todo) - 1) + Len(fuzzy.applied)
               < 1 + 3 * Len(fuzzy.todo) + Len(fuzzy.applied)
        <4>1. Len(fuzzy.applied) <= Len(fuzzy.applied) + 2
          BY <1>4
        <4> QED
          BY <1>4, <2>2, <4>1, OpsCounted
      <3>2. /\ Len(fuzzy'.todo) = Len(fuzzy.todo) - 1 /\ At("doing")'
            /\ Len(fuzzy'.applied) = Len(fuzzy.applied)
        BY <2>2, <2>5 DEF At
      <3> QED
        BY <1>6, <2>2, <3>1, <3>2
    <2> QED
      BY <2>3, <2>4, <2>5
  <1>10. CASE Add
    <2>1. /\ At("doing") /\ fuzzy.applied # << >>
          /\ fuzzy'.stage = fuzzy.stage /\ fuzzy'.todo = fuzzy.todo
          /\ fuzzy'.applied = Tail(fuzzy.applied)
      BY <1>10 DEF Add, Types
    <2>2. Len(Tail(fuzzy.applied)) = Len(fuzzy.applied) - 1
      BY <1>3, <2>1, FirstAndRest
    <2>3. Len(fuzzy'.applied) \in Nat /\ Len(fuzzy'.applied) < Len(fuzzy.applied)
      <3>1. Tail(fuzzy.applied) \in Seq(Paths)
        BY <1>3, <2>1, FirstAndRest
      <3> QED
        BY <1>4, <2>1, <2>2, <3>1
    <2>4. 1 + 3 * Len(fuzzy.todo) + Len(fuzzy'.applied)
             < 1 + 3 * Len(fuzzy.todo) + Len(fuzzy.applied)
      BY <1>4, <2>3, OpsCounted
    <2>5. Len(fuzzy'.todo) = Len(fuzzy.todo) /\ At("doing")'
      BY <2>1 DEF At
    <2> QED
      BY <1>6, <2>1, <2>4, <2>5
  <1>11. CASE Exit
    BY <1>7, <1>11 DEF Exit, Goto, Exited, Types
  <1> QED
    BY <1>1, <1>5, <1>8, <1>9, <1>10, <1>11 DEF FuzzyNext

\* So does every step of committe.
LEMMA ScriptComesOn ==
    ASSUME Types, NEW answers, Script(answers)
    PROVE  TriesLeft \in Nat /\ LessLeft
  <1>1. TriesLeft \in Nat
    BY TriesAreCounted
  <1>2. ASSUME WayLeft' < WayLeft, cm'.asked = cm.asked, cm'.tries = cm.tries
        PROVE  LessLeft
    BY <1>2, TriesAreCounted DEF LessLeft
  <1>3. CASE Check
    <2>1. /\ CmAt("checking") /\ cm'.stage \in {"asking", "refused"}
          /\ cm'.asked = cm.asked /\ cm'.tries = cm.tries
      BY <1>3 DEF Check, CmGoto, Types
    <2>2. WayLeft = 6 /\ WayLeft' \in {5, 0}
      BY <2>1, TheWay, TheWayAfter DEF CmAt, Returned
    <2> QED
      BY <1>1, <1>2, <2>1, <2>2
  <1>4. CASE MkPatch(answers)
    <2>1. CmAt("asking") /\ WayLeft = 5
      BY <1>4, TheWay DEF MkPatch
    <2>2. CASE cm' = [cm EXCEPT !.asked = @ + 1]
      <3>1. cm'.asked = cm.asked + 1 /\ cm'.tries = cm.tries
        BY <2>2 DEF Types
      <3>2. TriesLeft' < TriesLeft
        BY <3>1, TriesAreCounted DEF TriesLeft
      <3> QED
        BY <1>1, <3>2 DEF LessLeft
    <2>3. CASE \E s \in {"applying", "question", "unanswered"} : cm' = [cm EXCEPT !.stage = s]
      <3>1. /\ cm'.stage \in {"applying", "question", "unanswered"}
            /\ cm'.asked = cm.asked /\ cm'.tries = cm.tries
        BY <2>3 DEF Types
      <3>2. WayLeft' \in {4, 0}
        BY <3>1, TheWayAfter DEF CmAt, Returned
      <3> QED
        BY <1>1, <1>2, <2>1, <3>1, <3>2
    <2> QED
      BY <1>4, <2>2, <2>3 DEF MkPatch, CmGoto
  <1>5. CASE GitApply
    <2>1. CmAt("applying") /\ WayLeft = 4
      BY <1>5, TheWay DEF GitApply
    <2>2. /\ cm'.asked = cm.asked /\ cm'.tries = cm.tries
          /\ \/ cm'.stage = "committing"
             \/ cm'.stage = "fuzzy" /\ fuzzy'.stage = "planning"
      BY <1>5 DEF GitApply, CmGoto, Types, NewFuzzy
    <2>3. WayLeft' \in {3, 1}
      BY <2>2, TheWayAfter DEF CmAt, At
    <2> QED
      BY <1>1, <1>2, <2>1, <2>2, <2>3
  <1>6. CASE FuzzyReturns
    <2>1. WayLeft = 2
      BY <1>6, TheWay DEF FuzzyReturns, At, Exited
    <2>2. CASE cm' = Again
      <3>1. cm'.tries = cm.tries + 1 /\ cm'.asked = cm.asked
        BY <2>2 DEF Again, Types
      <3>2. TriesLeft' < TriesLeft
        BY <3>1, TriesAreCounted DEF TriesLeft
      <3> QED
        BY <1>1, <3>2 DEF LessLeft
    <2>3. CASE cm' # Again
      <3>1. /\ cm'.stage \in {"committing", "failed"}
            /\ cm'.asked = cm.asked /\ cm'.tries = cm.tries
        BY <1>6, <2>3 DEF FuzzyReturns, Types
      <3>2. WayLeft' \in {1, 0}
        BY <3>1, TheWayAfter DEF CmAt, Returned
      <3> QED
        BY <1>1, <1>2, <2>1, <3>1, <3>2
    <2> QED
      BY <2>2, <2>3
  <1>7. CASE Commit
    <2>1. /\ CmAt("committing") /\ cm'.stage \in {"uncommitted", "done"}
          /\ cm'.asked = cm.asked /\ cm'.tries = cm.tries
      BY <1>7 DEF Commit, CmGoto, Types
    <2>2. WayLeft = 1 /\ WayLeft' = 0
      BY <2>1, TheWay, TheWayAfter DEF Returned
    <2> QED
      BY <1>1, <1>2, <2>1, <2>2
  <1>8. CASE Fuzzy
    BY <1>1, <1>8, FuzzyComesOn
  <1> QED
    BY <1>1, <1>3, <1>4, <1>5, <1>6, <1>7, <1>8 DEF Script

\* committe and git-apply-fuzzy return after a bounded number of steps, whatever
\* fails and whatever the user does meanwhile: no loop of theirs runs for ever.
THEOREM ComesOn == GeniSpec => ComesToAnEnd
  <1> DEFINE OnlyOn == user' = user /\ cm.stage \notin Returned => TriesLeft \in Nat /\ LessLeft
  <1>1. ASSUME Types, GeniNext
        PROVE  [OnlyOn]_vars
    <2>1. CASE Round
      BY <1>1, <2>1, ScriptComesOn DEF Round
    <2>2. CASE Red
      BY <2>2 DEF Red, CmAt, Returned
    <2>3. CASE UserEdits
      <3> SUFFICES ASSUME user' = user PROVE FALSE
        OBVIOUS
      <3>1. PICK p \in Paths : Edit(p) \/ Stage(p)
        BY <2>3 DEF UserEdits
      <3>2. user \in [edits : 0..MaxEdits, staged : BOOLEAN] /\ MaxEdits \in Nat
        BY <1>1, CommitteAssumption DEF Types
      <3>3. CASE Edit(p)
        <4>1. user'.edits = user.edits + 1
          BY <3>2, <3>3 DEF Edit
        <4>2. user.edits \in Nat
          BY <3>2
        <4> QED
          BY <4>1, <4>2
      <3>4. CASE Stage(p)
        <4>1. user' = [user EXCEPT !.staged = TRUE] /\ ~user.staged
          BY <3>4 DEF Stage
        <4> QED
          BY <3>2, <4>1
      <3> QED
        BY <3>1, <3>3, <3>4
    <2>4. Pretest \/ GiveUp \/ Green \/ Merge \/ RemoveWorktree \/ RootMoves \/ End
              => UNCHANGED vars
      BY DEF Pretest, GiveUp, Green, Merge, RemoveWorktree, RootMoves, End,
         geniVars
    <2> QED
      BY <1>1, <2>1, <2>2, <2>3, <2>4 DEF GeniNext
  <1>2. Types /\ [GeniNext]_geniVars => [OnlyOn]_vars
    BY <1>1 DEF geniVars
  <1>3. GeniSpec => [][OnlyOn]_vars
    BY <1>2, TypesHold, PTL DEF GeniSpec
  <1> QED
    BY <1>3 DEF ComesToAnEnd
=============================================================================
