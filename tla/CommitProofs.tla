----------------------------- MODULE CommitProofs -----------------------------
(***************************************************************************)
(* Proof that committe commits the patch: what git-apply-fuzzy makes of a  *)
(* tree, operation by operation in the order of its phases, is what        *)
(* `git apply' would have made of it, entry by entry, if the context of    *)
(* its hunks had not drifted.                                              *)
(***************************************************************************)
EXTENDS GeniProofs

----------------------------------------------------------------------------
\* GitEntry in two parts: does entry i fit these files, and what it makes of the
\* one it is about.
Fits(files, i, drift) ==
    LET h == patch[i]
        n == GitNames(h)
        file == IF n.old = None THEN None ELSE files[n.old]
    IN /\ n.old # None /\ n.new # None
       /\ h.hunks \in (IF drift \/ Deletes(h) THEN {"none", "exact", "drifted"}
                       ELSE {"none", "exact"})
       /\ IF Creates(h) THEN file = None
          ELSE /\ file # None
               /\ \A mode \in {h.oldMode, h.newMode} \ {None} : Kindred(mode, file.mode)
       /\ n.new # n.old => files[n.new] = None
       /\ h.hunks # "none" \/ h.newMode # None \/ n.new # n.old \/ Deletes(h)

After(files, i) ==
    LET h == patch[i]
        file == files[GitNames(h).old]
        changed == IF h.hunks = "none" THEN << >> ELSE <<i>>
    IN IF Deletes(h) THEN None
       ELSE IF Creates(h) THEN File(h.newMode, changed)
       ELSE File(Or(h.newMode, file.mode),
                 IF file.mode = Gitlink THEN changed ELSE file.text \o changed)

\* No path is in two entries of the patch.
Disjoint == \A i, j \in DOMAIN patch :
               i # j => TouchedBy(patch[i]) \cap TouchedBy(patch[j]) = {}

\* git apply's step over one entry, in these words.
LEMMA GitEntryIs ==
    ASSUME NEW done, NEW i, NEW drift
    PROVE  GitEntry(done, i, drift) =
             LET n == GitNames(patch[i])
             IN IF done.ok /\ Fits(done.files, i, drift)
                THEN [ok |-> TRUE,
                      files |-> [[done.files EXCEPT ![n.old] = None]
                                   EXCEPT ![n.new] = After(done.files, i)]]
                ELSE [done EXCEPT !.ok = FALSE]
  <1> DEFINE n == GitNames(patch[i])
  <1>1. CASE n.old = None
    BY <1>1 DEF GitEntry, Fits
  <1>2. CASE n.old # None
    BY <1>2 DEF GitEntry, Fits, After
  <1> QED
    BY <1>1, <1>2

\* An entry reads and writes the paths it touches, and no others.
LEMMA EntryReads ==
    ASSUME Types, NEW i \in DOMAIN patch, NEW f, NEW g, NEW drift,
           \A p \in TouchedBy(patch[i]) : f[p] = g[p]
    PROVE  /\ Fits(f, i, drift) <=> Fits(g, i, drift)
           /\ Fits(f, i, drift) => After(f, i) = After(g, i)
  <1> DEFINE h == patch[i]
             n == GitNames(h)
  <1>1. TouchedBy(h) = {n.old, n.new} \ {None}
    BY DEF TouchedBy
  <1>2. /\ n.old # None => f[n.old] = g[n.old]
        /\ n.new # None => f[n.new] = g[n.new]
    BY <1>1
  <1>3. Fits(f, i, drift) <=> Fits(g, i, drift)
    <2> HIDE DEF n, h
    <2> QED
      BY <1>2 DEF Fits, n, h
  <1>4. Fits(f, i, drift) => After(f, i) = After(g, i)
    <2> SUFFICES ASSUME Fits(f, i, drift) PROVE After(f, i) = After(g, i)
      OBVIOUS
    <2>1. n.old # None
      BY DEF Fits
    <2>2. f[n.old] = g[n.old]
      BY <1>2, <2>1
    <2> QED
      BY <2>2 DEF After
  <1> QED
    BY <1>3, <1>4

\* A patch that git apply takes, and whose entries are about different paths, is
\* what each of its entries makes of the files it began with.
LEMMA MeantSplits ==
    ASSUME Types, NEW files \in [Paths -> FileOrNone], NEW drift \in BOOLEAN,
           Disjoint, Meant(files, drift).ok
    PROVE  LET after == Meant(files, drift).files IN
           /\ \A p \in Paths \ Touched : after[p] = files[p]
           /\ \A i \in DOMAIN patch :
                LET n == GitNames(patch[i]) IN
                /\ Fits(files, i, drift)
                /\ after[n.new] = After(files, i)
                /\ n.old # n.new => after[n.old] = None
  <1>1. PICK done :
          /\ done = [i \in 0..Len(patch) |->
                       IF i = 0 THEN [ok |-> TRUE, files |-> files]
                       ELSE GitEntry(done[i - 1], i, drift)]
          /\ Meant(files, drift) = done[Len(patch)]
    BY MeantIs
  <1> DEFINE l == Len(patch)
             Name(i) == GitNames(patch[i])
             Paths1(i) == TouchedBy(patch[i])
             Did(m, i) == /\ Fits(files, i, drift)
                          /\ done[m].files[Name(i).new] = After(files, i)
                          /\ Name(i).old # Name(i).new => done[m].files[Name(i).old] = None
             Good(m) == /\ done[m] \in Applying
                        /\ done[m].ok =>
                             /\ \A i \in 1..m : Did(m, i)
                             /\ \A p \in Paths : (\A i \in 1..m : p \notin Paths1(i))
                                   => done[m].files[p] = files[p]
             T == {m \in Nat : m \in 0..l => Good(m)}
  <1>2. l \in Nat /\ DOMAIN patch = 1..l
    BY PatchFacts
  <1>3. /\ done[0] = [ok |-> TRUE, files |-> files]
        /\ \A m \in 1..l : done[m] = GitEntry(done[m - 1], m, drift)
    <2>1. \A i \in 0..l : done[i] = IF i = 0 THEN [ok |-> TRUE, files |-> files]
                                    ELSE GitEntry(done[i - 1], i, drift)
      BY <1>1
    <2>2. 0 \in 0..l /\ \A m \in 1..l : m \in 0..l /\ m # 0
      BY <1>2
    <2> QED
      BY <2>1, <2>2
  <1>4. 0 \in T
    <2>1. 1..0 = {}
      OBVIOUS
    <2>2. done[0] \in Applying /\ done[0].files = files
      BY <1>3 DEF Applying
    <2>3. Good(0)
      <3> HIDE DEF Did, Paths1
      <3> QED
        BY <2>1, <2>2
    <2> QED
      BY <2>3
  <1>5. ASSUME NEW m \in T
        PROVE  m + 1 \in T
    <2> SUFFICES ASSUME m + 1 \in 0..l
                 PROVE  Good(m + 1)
      OBVIOUS
    <2> DEFINE i == m + 1
               was == done[m]
               now == done[i]
               n == Name(i)
    <2>1. m \in Nat /\ m \in 0..l /\ i \in 1..l /\ i \in DOMAIN patch /\ i - 1 = m
      BY <1>2
    <2>2. Good(m)
      BY <2>1
    <2>3. now = GitEntry(was, i, drift)
      BY <1>3, <2>1
    <2>4. now \in Applying
      BY <2>1, <2>2, <2>3, EntryTyped
    <2> SUFFICES ASSUME now.ok
                 PROVE  /\ \A j \in 1..i : Did(i, j)
                        /\ \A p \in Paths : (\A j \in 1..i : p \notin Paths1(j))
                              => now.files[p] = files[p]
      BY <2>4
    <2>5. /\ was.ok /\ Fits(was.files, i, drift)
          /\ now.files = [[was.files EXCEPT ![n.old] = None]
                             EXCEPT ![n.new] = After(was.files, i)]
      <3>1. ~(was.ok /\ Fits(was.files, i, drift)) => now = [was EXCEPT !.ok = FALSE]
        BY <2>3, GitEntryIs
      <3>2. [was EXCEPT !.ok = FALSE].ok = FALSE
        BY <2>2 DEF Applying
      <3>3. was.ok /\ Fits(was.files, i, drift)
        BY <3>1, <3>2
      <3> QED
        BY <2>3, <3>3, GitEntryIs
    <2>6. \A p \in Paths1(i) : p \in Paths /\ was.files[p] = files[p]
      <3> TAKE p \in Paths1(i)
      <3>1. p \in Paths
        BY <2>1, PatchFacts, NamesTyped DEF TouchedBy
      <3>2. \A j \in 1..m : p \notin Paths1(j)
        BY <1>2, <2>1 DEF Disjoint
      <3> QED
        BY <2>2, <2>5, <3>1, <3>2
    <2>7. Fits(files, i, drift) /\ After(was.files, i) = After(files, i)
      BY <2>1, <2>5, <2>6, EntryReads
    <2>8. /\ n.old \in Paths /\ n.new \in Paths /\ Paths1(i) = {n.old, n.new}
          /\ was.files \in [Paths -> FileOrNone]
      <3>1. n.old # None /\ n.new # None
        BY <2>7 DEF Fits
      <3>2. n.old \in Paths \cup {None} /\ n.new \in Paths \cup {None}
        BY <2>1, PatchFacts, NamesTyped
      <3> QED
        BY <2>2, <3>1, <3>2 DEF TouchedBy, Applying
    <2>9. /\ now.files[n.new] = After(files, i)
          /\ n.old # n.new => now.files[n.old] = None
          /\ \A p \in Paths \ Paths1(i) : now.files[p] = was.files[p]
      <3> HIDE DEF n, was, now, i, Paths1
      <3> QED
        BY <2>5, <2>7, <2>8
    <2>10. ASSUME NEW j \in 1..m
           PROVE  Did(i, j)
      <3>1. Did(m, j)
        BY <2>2, <2>5
      <3>2. Name(j).new \in Paths1(j) /\ Name(j).old \in Paths1(j) /\ Paths1(j) \subseteq Paths
        <4>1. Name(j).old # None /\ Name(j).new # None
          BY <3>1 DEF Fits
        <4>2. j \in DOMAIN patch
          BY <1>2, <2>1
        <4> QED
          BY <4>1, <4>2, PatchFacts, NamesTyped DEF TouchedBy
      <3>3. Paths1(j) \cap Paths1(i) = {}
        BY <1>2, <2>1 DEF Disjoint
      <3>4. \A p \in Paths1(j) : now.files[p] = was.files[p]
        BY <2>9, <3>2, <3>3
      <3> QED
        BY <3>1, <3>2, <3>4
    <2>11. \A p \in Paths : (\A j \in 1..i : p \notin Paths1(j)) => now.files[p] = files[p]
      <3>1. 1..m \subseteq 1..i /\ i \in 1..i
        BY <2>1
      <3> HIDE DEF Paths1, now, was, i
      <3> QED
        BY <2>2, <2>5, <2>9, <3>1 DEF was
    <2>12. \A j \in 1..i : j \in 1..m \/ j = i
      BY <2>1
    <2> QED
      BY <2>7, <2>9, <2>10, <2>11, <2>12
  <1>6. T = Nat
    <2>1. T \in SUBSET Nat
      OBVIOUS
    <2> HIDE DEF T
    <2> QED
      BY <1>4, <1>5, <2>1, Induction
  <1>7. Good(l)
    BY <1>2, <1>6
  <1>8. \A p \in Paths \ Touched : \A i \in 1..l : p \notin Paths1(i)
    BY <1>2 DEF Touched
  <1> QED
    BY <1>1, <1>2, <1>7, <1>8

\* Without an entry that has drifted, what has drifted needs no forgiving.
Drifting == \E i \in DOMAIN patch : patch[i].hunks = "drifted" /\ ~Deletes(patch[i])

\* Allowing for drift makes no difference to a patch in which nothing has drifted.
LEMMA NothingToForgive ==
    ASSUME Types, NEW files, ~Drifting
    PROVE  Meant(files, FALSE) = Meant(files, TRUE)
  <1> DEFINE Walks(drift, done) ==
               done = [i \in 0..Len(patch) |->
                         IF i = 0 THEN [ok |-> TRUE, files |-> files]
                         ELSE GitEntry(done[i - 1], i, drift)]
  <1>1. PICK f : Walks(FALSE, f) /\ Meant(files, FALSE) = f[Len(patch)]
    BY MeantIs
  <1>2. PICK g : Walks(TRUE, g) /\ Meant(files, TRUE) = g[Len(patch)]
    BY MeantIs
  <1> DEFINE l == Len(patch)
             T == {m \in Nat : m \in 0..l => f[m] = g[m]}
  <1>3. l \in Nat /\ DOMAIN patch = 1..l
    BY PatchFacts
  <1>4. /\ f[0] = [ok |-> TRUE, files |-> files] /\ g[0] = f[0]
        /\ \A m \in 1..l : f[m] = GitEntry(f[m - 1], m, FALSE)
        /\ \A m \in 1..l : g[m] = GitEntry(g[m - 1], m, TRUE)
    <2>1. \A i \in 0..l : f[i] = IF i = 0 THEN [ok |-> TRUE, files |-> files]
                                 ELSE GitEntry(f[i - 1], i, FALSE)
      BY <1>1
    <2>2. \A i \in 0..l : g[i] = IF i = 0 THEN [ok |-> TRUE, files |-> files]
                                 ELSE GitEntry(g[i - 1], i, TRUE)
      BY <1>2
    <2>3. 0 \in 0..l /\ \A m \in 1..l : m \in 0..l /\ m # 0
      BY <1>3
    <2>4. \A m \in 1..l : f[m] = GitEntry(f[m - 1], m, FALSE)
      BY <2>1, <2>3
    <2>5. \A m \in 1..l : g[m] = GitEntry(g[m - 1], m, TRUE)
      BY <2>2, <2>3
    <2> QED
      BY <2>1, <2>2, <2>3, <2>4, <2>5
  <1>5. 0 \in T
    BY <1>3, <1>4
  <1>6. ASSUME NEW m \in T
        PROVE  m + 1 \in T
    <2> SUFFICES ASSUME m + 1 \in 0..l PROVE f[m + 1] = g[m + 1]
      OBVIOUS
    <2>1. m \in Nat /\ m \in 0..l /\ m + 1 \in DOMAIN patch /\ m + 1 \in 1..l /\ m + 1 - 1 = m
      BY <1>3
    <2>2. f[m] = g[m]
      BY <2>1
    <2>3. f[m + 1] = GitEntry(f[m], m + 1, FALSE) /\ g[m + 1] = GitEntry(f[m], m + 1, TRUE)
      <3>1. \A k \in 1..l : k - 1 = m => f[k] = GitEntry(f[m], k, FALSE)
        BY <1>4
      <3>2. \A k \in 1..l : k - 1 = m => g[k] = GitEntry(g[m], k, TRUE)
        BY <1>4
      <3> DEFINE k == m + 1
      <3>3. k \in 1..l /\ k - 1 = m
        BY <2>1
      <3> HIDE DEF k
      <3>4. f[k] = GitEntry(f[m], k, FALSE)
        BY <3>1, <3>3, Zenon
      <3>5. g[k] = GitEntry(g[m], k, TRUE)
        BY <3>2, <3>3, Zenon
      <3> QED
        BY <2>2, <3>4, <3>5, Zenon DEF k
    <2>4. Fits(f[m].files, m + 1, FALSE) <=> Fits(f[m].files, m + 1, TRUE)
      <3>1. patch[m + 1].hunks = "drifted" => Deletes(patch[m + 1])
        BY <2>1 DEF Drifting
      <3> QED
        BY <3>1 DEF Fits
    <2> QED
      BY <2>3, <2>4, GitEntryIs
  <1>7. T = Nat
    <2>1. T \in SUBSET Nat
      OBVIOUS
    <2> HIDE DEF T
    <2> QED
      BY <1>5, <1>6, <2>1, Induction
  <1>8. f[l] = g[l]
    BY <1>3, <1>7
  <1> QED
    BY <1>1, <1>2, <1>8

\* And an entry that has is refused by git apply on any tree.
LEMMA DriftIsRefused ==
    ASSUME Types, NEW files \in [Paths -> FileOrNone], Drifting, Disjoint
    PROVE  ~Meant(files, FALSE).ok
  <1>1. PICK i \in DOMAIN patch : patch[i].hunks = "drifted" /\ ~Deletes(patch[i])
    BY DEF Drifting
  <1>2. ~Fits(files, i, FALSE)
    BY <1>1 DEF Fits
  <1> QED
    BY <1>2, MeantSplits

----------------------------------------------------------------------------
\* What the planning loop reads in a header that git apply can use.
LEMMA NamesMeet ==
    ASSUME NEW h, Known(h), AsGitWrites(h),
           h.from # None => \A p \in TouchedBy(h) : Unprefixed(p) = p,
           GitNames(h).old # None, GitNames(h).new # None,
           h.hunks # "none" \/ h.newMode # None \/ GitNames(h).new # GitNames(h).old
              \/ Deletes(h)
    PROVE  LET e == Parsed(h)
               n == Named(e)
               g == GitNames(h)
           IN /\ e.renames <=> h.from # None
              /\ e.hunks = h.hunks /\ e.oldMode = h.oldMode /\ n.mode = Or(h.newMode, h.oldMode)
              /\ e.renames =>
                    /\ n.old = g.old /\ n.new = g.new /\ n.path = g.new /\ n.source = g.old
                    /\ g.old # g.new /\ (h.oldMode = None <=> h.newMode = None)
              /\ ~e.renames =>
                    /\ g.old = g.new /\ n.path = g.old /\ n.source = g.old
                    /\ n.old \in {None, n.path} /\ n.new \in {None, n.path}
                    /\ n.new = None <=> Deletes(h)
                    /\ n.old = None <=> Creates(h) /\ h.hunks # "none"
  <1> DEFINE e == Parsed(h)
             n == Named(e)
             g == GitNames(h)
             bare == h.minus = None /\ h.plus = None
  <1>1. /\ e.renames <=> h.from # None
        /\ e.hunks = h.hunks /\ e.oldMode = h.oldMode /\ n.mode = Or(h.newMode, h.oldMode)
        /\ e.from = h.from /\ e.to = h.to /\ e.newMode = h.newMode
    BY DEF Parsed, Named, AsGitWrites
  <1>2. /\ n.old = IF e.renames THEN Unprefixed(h.from) ELSE StripPath(e.old)
        /\ n.new = IF e.renames THEN Unprefixed(h.to) ELSE StripPath(e.new)
        /\ n.path = Or(n.new, n.old)
        /\ n.source = IF e.renames THEN n.old ELSE n.path
    BY <1>1 DEF Named
  <1>3. CASE h.from # None
    <2>1. g.old = h.from /\ g.new = h.to /\ TouchedBy(h) = {h.from, h.to}
      BY <1>3 DEF GitNames, AsGitWrites, TouchedBy
    <2>2. Unprefixed(h.from) = h.from /\ Unprefixed(h.to) = h.to
      BY <1>3, <2>1
    <2> QED
      BY <1>1, <1>2, <1>3, <2>1, <2>2 DEF AsGitWrites, Or
  <1>4. CASE h.from = None
    <2>1. ~e.renames /\ g.old = g.new
      BY <1>1, <1>4 DEF GitNames
    <2>2. /\ e.old = IF bare THEN h.name ELSE h.minus
          /\ e.new = IF ~bare THEN h.plus ELSE IF h.newMode # None THEN h.name ELSE None
      BY <1>1, <2>1 DEF Parsed
    <2>3. \A path \in {h.name, h.minus, h.plus} \ {None} : StripPath(path) = g.old
      BY <1>4 DEF AsGitWrites
    <2>4. StripPath(None) = None
      BY DEF StripPath
    <2>5. CASE bare
      <3>1. h.hunks = "none" /\ h.name # None
        <4>1. g.old = StripPath(h.name)
          BY <1>4, <2>5 DEF GitNames, Or
        <4> QED
          BY <2>4, <2>5, <4>1 DEF AsGitWrites
      <3>2. n.old = g.old /\ n.new = IF h.newMode # None THEN g.old ELSE None
        BY <1>2, <2>1, <2>2, <2>3, <2>4, <2>5, <3>1
      <3>3. h.newMode = None <=> Deletes(h)
        BY <2>1, <3>1 DEF Deletes
      <3> QED
        BY <1>1, <1>2, <2>1, <3>1, <3>2, <3>3 DEF Or
    <2>6. CASE ~bare
      <3>1. h.hunks # "none" /\ (h.minus = None <=> Creates(h)) /\ (h.plus = None <=> Deletes(h))
        BY <1>4, <2>6 DEF AsGitWrites
      <3>2. n.old = (IF h.minus = None THEN None ELSE g.old)
            /\ n.new = (IF h.plus = None THEN None ELSE g.old)
        BY <1>2, <2>1, <2>2, <2>3, <2>4, <2>6
      <3> QED
        BY <1>1, <1>2, <2>1, <2>6, <3>1, <3>2 DEF Or
    <2> QED
      BY <2>5, <2>6
  <1> QED
    BY <1>3, <1>4

----------------------------------------------------------------------------
\* What is meant, what is planned on the files committe was called on, and an
\* entry that no operation of git-apply-fuzzy can do: an empty file is not made.
Target == Meant(cm.base, TRUE).files
Planned(i) == ToSet(OpsOf(Parsed(patch[i]), i, cm.base))
PathOf(i) == Named(Parsed(patch[i])).path
MakesEmpty(i) ==
    Creates(patch[i]) /\ patch[i].hunks = "none" /\ ~OfSubmodule(patch[i])

\* What is moved or created goes to a directory there is, for git-apply-fuzzy makes
\* none.
Rehoused(i) ==
    /\ ~OfSubmodule(patch[i])
    /\ Parsed(patch[i]).renames \/ (Creates(patch[i]) /\ patch[i].hunks # "none")
Homed == \A i \in DOMAIN patch : Rehoused(i) => Housed(PathOf(i))

\* Submodules are nowhere else.
Linkless(files) == \A p \in Plainly : files[p] # None => files[p].mode # Gitlink

\* A patch at hand that the property is about.
Ready == Types /\ Conventions /\ Proper /\ Linkless(cm.base)

\* What git apply and the planning loop read in entry i, and what is meant by it.
Reads(i) ==
    LET h == patch[i]
        e == Parsed(h)
        n == Named(e)
        g == GitNames(h)
    IN /\ Known(h) /\ AsGitWrites(h) /\ i \in Nat
       /\ e.renames <=> h.from # None
       /\ e.renames \in BOOLEAN
       /\ e.hunks = h.hunks /\ e.oldMode = h.oldMode /\ n.mode = Or(h.newMode, h.oldMode)
       /\ g.old \in Paths /\ g.new \in Paths /\ TouchedBy(h) = {g.old, g.new}
       /\ n.path = g.new /\ n.source = g.old /\ n.mode \in Modes \cup {None}
       /\ e.renames =>
             /\ n.old = g.old /\ n.new = g.new
             /\ g.old # g.new /\ (h.oldMode = None <=> h.newMode = None)
       /\ ~e.renames =>
             /\ g.old = g.new
             /\ n.old \in {None, n.path} /\ n.new \in {None, n.path}
             /\ n.new = None <=> Deletes(h)
             /\ n.old = None <=> Creates(h) /\ h.hunks # "none"
       /\ ~OfSubmodule(h) => g.old \in Plainly /\ g.new \in Plainly
       /\ OfSubmodule(h) => g.old = g.new /\ g.new \in Submodules

\* ... and what is meant by it.
Means(i) ==
    LET g == GitNames(patch[i])
    IN /\ Fits(cm.base, i, TRUE)
       /\ Target[g.new] = After(cm.base, i)
       /\ g.old # g.new => Target[g.old] = None

\* The patch at hand keeps to the conventions.
LEMMA PatchKeeps ==
    ASSUME Types, Conventions, NEW i \in DOMAIN patch
    PROVE  /\ AsGitWrites(patch[i]) /\ FuzzyPaths(patch[i]) \subseteq TouchedBy(patch[i])
           /\ ~OfSubmodule(patch[i]) => TouchedBy(patch[i]) \cap Submodules = {}
           /\ Known(patch[i])
           /\ OfSubmodule(patch[i]) /\ PathOf(i) \in Paths => PathOf(i) \in Submodules
  <1>1. patch \in Patches
    <2>1. patch # << >>
      OBVIOUS
    <2> QED
      BY <2>1 DEF Types
  <1>2. Known(patch[i])
    BY PatchFacts
  <1>3. Named(Parsed(patch[i])).mode = Or(patch[i].newMode, patch[i].oldMode)
    BY <1>2, NamesTyped
  <1>4. OfSubmodule(patch[i]) /\ PathOf(i) \in Paths => PathOf(i) \in Submodules
    BY <1>3, PatchFacts DEF OfSubmodule, PathOf
  <1> QED
    BY <1>1, <1>2, <1>4 DEF Conventions, HeadersAgree, NamesAgree, WrittenByGit, SubmodulesApart

\* Of a patch that git apply would take, both read the same.
LEMMA EntryReadAlike ==
    ASSUME Ready, NEW i \in DOMAIN patch
    PROVE  Reads(i) /\ Means(i)
  <1> DEFINE h == patch[i]
             g == GitNames(h)
             n == Named(Parsed(h))
  <1>1. Types /\ Conventions /\ Proper /\ Disjoint /\ cm.base \in [Paths -> FileOrNone]
    BY DEF Ready, Proper, Disjoint, Types
  <1>2. Means(i)
    BY <1>1, MeantSplits DEF Proper, Means, Target
  <1>3. /\ AsGitWrites(h) /\ Known(h) /\ i \in Nat
        /\ ~OfSubmodule(h) => TouchedBy(h) \cap Submodules = {}
        /\ OfSubmodule(h) /\ PathOf(i) \in Paths => PathOf(i) \in Submodules
    BY <1>1, PatchKeeps, PatchFacts
  <1>4. /\ g.old # None /\ g.new # None
        /\ h.hunks # "none" \/ h.newMode # None \/ g.new # g.old \/ Deletes(h)
    BY <1>2 DEF Means, Fits
  <1>5. h.from # None => \A p \in TouchedBy(h) : Unprefixed(p) = p
    BY <1>1 DEF Proper
  <1>6. /\ g.old \in Paths /\ g.new \in Paths /\ TouchedBy(h) = {g.old, g.new}
        /\ n.mode \in Modes \cup {None} /\ Parsed(h).renames \in BOOLEAN
    BY <1>3, <1>4, NamesTyped DEF TouchedBy
  <1>7. /\ Parsed(h).renames <=> h.from # None
        /\ Parsed(h).hunks = h.hunks /\ Parsed(h).oldMode = h.oldMode
        /\ n.mode = Or(h.newMode, h.oldMode)
        /\ Parsed(h).renames =>
              /\ n.old = g.old /\ n.new = g.new /\ n.path = g.new /\ n.source = g.old
              /\ g.old # g.new /\ (h.oldMode = None <=> h.newMode = None)
        /\ ~Parsed(h).renames =>
              /\ g.old = g.new /\ n.path = g.old /\ n.source = g.old
              /\ n.old \in {None, n.path} /\ n.new \in {None, n.path}
              /\ n.new = None <=> Deletes(h)
              /\ n.old = None <=> Creates(h) /\ h.hunks # "none"
    BY <1>3, <1>4, <1>5, NamesMeet
  <1>8. n.path = g.new /\ n.source = g.old
    BY <1>7
  <1>9. ~OfSubmodule(h) => g.old \in Plainly /\ g.new \in Plainly
    BY <1>3, <1>6 DEF Plainly
  <1>10. OfSubmodule(h) => g.old = g.new /\ g.new \in Submodules
    <2> SUFFICES ASSUME OfSubmodule(h) PROVE g.old = g.new /\ g.new \in Submodules
      OBVIOUS
    <2>1. Gitlink \in {h.oldMode, h.newMode}
      BY DEF OfSubmodule, Or
    <2>2. Creates(h) \/ Deletes(h)
      BY <1>3, <2>1 DEF AsGitWrites
    <2>3. h.from = None
      BY <1>3, <2>2 DEF AsGitWrites, Creates, Deletes
    <2> QED
      BY <1>3, <1>6, <1>7, <2>3 DEF PathOf
  <1>11. Reads(i)
    <2> HIDE DEF h, g, n
    <2> QED
      BY <1>3, <1>6, <1>7, <1>8, <1>9, <1>10 DEF Reads, h, g, n
  <1> QED
    BY <1>2, <1>11

----------------------------------------------------------------------------
\* What an operation other than a rename makes of the file at its path, and of
\* which files it can be made to.
Result(op, file) ==
    CASE op.phase = "delete" -> None
      [] op.phase = "chmod" ->
            IF Readable(file) /\ ~Leads(file)
            THEN [file EXCEPT !.mode = Permissions(op.mode)] ELSE file
      [] OTHER -> IF Leads(file) /\ op.mode # Link THEN file
                  ELSE File(IF op.mode # None THEN op.mode ELSE OwnMode(file), op.text)

Doable(op, file) == IF op.phase = "create" THEN file = None ELSE Readable(file)

\* Its rename.
MoveOp(i) ==
    LET n == Named(Parsed(patch[i]))
    IN [Op("move", n.new, None, << >>) EXCEPT !.from = n.old]

\* The operations of an entry, by the branch the planning loop takes.
OtherOp(i, files) ==
    LET e == Parsed(patch[i])
        n == Named(e)
        kind == Kind(e, i, files)
    IN Op(kind, n.path, n.mode,
          CASE kind = "create" -> <<i>>
            [] kind = "submodule" -> IF n.new = None THEN << >> ELSE <<i>>
            [] kind = "write" -> Append(files[n.source].text, i)
            [] OTHER -> << >>)

\* OpsOf is these two: the rename, if there is one, and the rest.
LEMMA OpsAre ==
    ASSUME NEW i, NEW files
    PROVE  LET kind == Kind(Parsed(patch[i]), i, files) IN
           ToSet(OpsOf(Parsed(patch[i]), i, files)) =
             {op \in {MoveOp(i)} : Parsed(patch[i]).renames /\ kind \in {"chmod", "move", "write"}}
             \cup {op \in {OtherOp(i, files)} : kind \in PhaseNames \ {"move"}}
  <1> DEFINE e == Parsed(patch[i])
             kind == Kind(e, i, files)
             moves == IF e.renames /\ kind \in {"chmod", "move", "write"}
                      THEN <<MoveOp(i)>> ELSE << >>
             others == IF kind \in PhaseNames \ {"move"}
                       THEN <<OtherOp(i, files)>> ELSE << >>
             S == {MoveOp(i), OtherOp(i, files)}
  <1>1. OpsOf(e, i, files) = moves \o others
    BY PhaseSet DEF OpsOf, OtherOp, MoveOp
  <1>2. /\ moves \in Seq(S)
        /\ ToSet(moves) = {op \in {MoveOp(i)} : e.renames /\ kind \in {"chmod", "move", "write"}}
    <2> HIDE DEF e, kind
    <2> QED
      BY OneElement
  <1>3. /\ others \in Seq(S)
        /\ ToSet(others) = {op \in {OtherOp(i, files)} : kind \in PhaseNames \ {"move"}}
    <2> HIDE DEF e, kind
    <2> QED
      BY OneElement
  <1> HIDE DEF moves, others, S
  <1> QED
    BY <1>1, <1>2, <1>3, ConcatElements, SMTT(60)

\* Every phase but two writes the one path.
LEMMA DoesIt ==
    ASSUME Types, NEW op, Doing(op), op.phase \notin {"move", "submodule"}
    PROVE  /\ Move(op) \/ Write(op) \/ Delete(op) \/ Chmod(op) \/ Submodule(op) =>
                /\ tree' = [tree EXCEPT ![op.path] = Result(op, tree[op.path])]
                /\ UNCHANGED index
           /\ Doable(op, tree[op.path]) /\ (op.phase = "create" => Housed(op.path))
                => Possible(op)
  <1>1. op \in Ops
    BY OpAtHand
  <1>2. op.phase \in {"create", "delete", "write", "chmod"}
    BY <1>1 DEF Ops, PhaseNames
  <1>3. CASE op.phase = "create"
    BY <1>3 DEF Move, Write, Delete, Chmod, Submodule, Result, ModeAfter, Doable, Possible
  <1>4. CASE op.phase = "write"
    BY <1>4 DEF Move, Write, Delete, Chmod, Submodule, Result, ModeAfter, Doable, Possible
  <1>5. CASE op.phase = "delete"
    BY <1>5 DEF Move, Write, Delete, Chmod, Submodule, Result, Doable, Possible
  <1>6. CASE op.phase = "chmod"
    BY <1>6 DEF Move, Write, Delete, Chmod, Submodule, Result, Doable, Possible, Readable
  <1> QED
    BY <1>2, <1>3, <1>4, <1>5, <1>6

----------------------------------------------------------------------------
\* The branch the planning loop takes for an entry that git apply can read.
LEMMA KindIs ==
    ASSUME NEW i, Reads(i), NEW files
    PROVE  LET h == patch[i]
               n == Named(Parsed(h))
           IN /\ Kind(Parsed(h), i, files) =
                   IF OfSubmodule(h) THEN "submodule"
                   ELSE IF Deletes(h) THEN "delete"
                   ELSE IF Creates(h) /\ h.hunks # "none" THEN "create"
                   ELSE IF h.hunks = "none" THEN
                       IF n.mode # h.oldMode THEN "chmod"
                       ELSE IF Parsed(h).renames THEN "move" ELSE "nothing"
                   ELSE IF Readable(files[n.source]) /\ Matches(Parsed(h), i, files[n.source])
                   THEN "write" ELSE "mismatch"
              /\ n.new = None <=> Deletes(h)
              /\ n.path # None /\ PathOf(i) = n.path
              /\ Creates(h) => ~Parsed(h).renames /\ n.mode = h.newMode /\ n.mode # None
              /\ Parsed(h).renames => ~Deletes(h) /\ ~Creates(h)
  <1> DEFINE h == patch[i]
             n == Named(Parsed(h))
             g == GitNames(h)
  <1>1. None \notin Paths
    BY CommitteAssumption
  <1>2. /\ n.path # None /\ g.old # None /\ g.new # None
        /\ n.mode = Gitlink <=> OfSubmodule(h)
    BY <1>1 DEF Reads, OfSubmodule
  <1>3. CASE Parsed(h).renames
    <2>1. n.old # None /\ n.new # None /\ (h.oldMode = None <=> h.newMode = None)
      BY <1>2, <1>3 DEF Reads
    <2>2. ~Deletes(h) /\ ~Creates(h)
      BY <2>1 DEF Deletes, Creates
    <2> QED
      BY <1>2, <1>3, <2>1, <2>2 DEF Kind, Reads, PathOf
  <1>4. CASE ~Parsed(h).renames
    <2>1. (n.new = None <=> Deletes(h)) /\ (n.old = None <=> Creates(h) /\ h.hunks # "none")
      BY <1>4 DEF Reads
    <2>2. Creates(h) => n.mode = h.newMode /\ n.mode # None
      BY DEF Reads, Creates, Or
    <2> QED
      BY <1>2, <1>4, <2>1, <2>2 DEF Kind, Reads, PathOf
  <1> QED
    BY <1>3, <1>4

\* The operation planned for a submodule.
SubmoduleOp(i, op) ==
    /\ op.phase = "submodule" /\ op.path = PathOf(i)
    /\ op.text = << >> <=> Deletes(patch[i])

\* A submodule has that operation whatever the files are, and nothing else has one of
\* that phase; a file of no lines is planned as a change of mode.
LEMMA PlannedAnyway ==
    ASSUME NEW i, Reads(i), NEW files
    PROVE  LET ops == ToSet(OpsOf(Parsed(patch[i]), i, files)) IN
           /\ OfSubmodule(patch[i]) => \A op \in ops : SubmoduleOp(i, op)
           /\ OfSubmodule(patch[i]) => ops # {}
           /\ ~OfSubmodule(patch[i]) => \A op \in ops : op.phase # "submodule"
           /\ MakesEmpty(i) =>
                 ops = {Op("chmod", PathOf(i), patch[i].newMode, << >>)}
  <1> DEFINE h == patch[i]
             kind == Kind(Parsed(h), i, files)
             ops == ToSet(OpsOf(Parsed(patch[i]), i, files))
             other == OtherOp(i, files)
  <1>1. ops = {op \in {MoveOp(i)} : Parsed(h).renames /\ kind \in {"chmod", "move", "write"}}
              \cup {op \in {other} : kind \in PhaseNames \ {"move"}}
    BY OpsAre
  <1>2. /\ other.phase = kind /\ other.path = PathOf(i)
        /\ MoveOp(i).phase = "move"
        /\ kind = "submodule" =>
              other.text = IF Named(Parsed(h)).new = None THEN << >> ELSE <<i>>
        /\ kind = "chmod" => other = Op("chmod", PathOf(i), Named(Parsed(h)).mode, << >>)
    BY DEF OtherOp, MoveOp, Op, PathOf
  <1>3. Named(Parsed(h)).new = None <=> Deletes(h)
    BY KindIs
  <1>4. CASE OfSubmodule(h)
    <2>1. kind = "submodule"
      BY <1>4, KindIs
    <2>2. ops = {other}
      BY <1>1, <2>1 DEF PhaseNames
    <2>3. other.text = << >> <=> Deletes(h)
      <3>1. <<i>> # << >>
        OBVIOUS
      <3> QED
        BY <1>2, <1>3, <2>1, <3>1
    <2> QED
      BY <1>2, <1>4, <2>1, <2>2, <2>3 DEF SubmoduleOp, MakesEmpty
  <1>5. CASE ~OfSubmodule(h)
    <2>1. kind # "submodule"
      BY <1>5, KindIs
    <2>2. \A op \in ops : op.phase # "submodule"
      BY <1>1, <1>2, <2>1
    <2>3. ASSUME MakesEmpty(i)
          PROVE  ops = {Op("chmod", PathOf(i), h.newMode, << >>)}
      <3>1. /\ Creates(h) /\ h.hunks = "none" /\ ~Deletes(h)
            /\ h.newMode # h.oldMode
        BY <2>3 DEF MakesEmpty, Creates, Deletes
      <3>2. Named(Parsed(h)).mode = h.newMode /\ ~Parsed(h).renames
        BY <3>1, KindIs
      <3>3. kind = "chmod"
        BY <1>5, <3>1, <3>2, KindIs
      <3>4. ops = {other}
        BY <1>1, <3>2, <3>3 DEF PhaseNames
      <3> QED
        BY <1>2, <3>2, <3>3, <3>4
    <2> QED
      BY <1>5, <2>2, <2>3
  <1> QED
    BY <1>4, <1>5

----------------------------------------------------------------------------
\* What is planned for a submodule is what is meant by it.
LEMMA SubmoduleMeant ==
    ASSUME Ready, NEW i \in DOMAIN patch, OfSubmodule(patch[i])
    PROVE  /\ PathOf(i) \in Submodules /\ TouchedBy(patch[i]) = {PathOf(i)}
           /\ Creates(patch[i]) <=> ~Deletes(patch[i])
           /\ Target[PathOf(i)] = None <=> Deletes(patch[i])
           /\ \A op \in Planned(i) :
                Target[PathOf(i)] = IF op.text = << >> THEN None ELSE File(Gitlink, op.text)
           /\ \A x, y \in Planned(i) : x = y
  <1> DEFINE h == patch[i]
             g == GitNames(h)
             other == OtherOp(i, cm.base)
  <1>1. Reads(i) /\ Means(i)
    BY EntryReadAlike
  <1>2. /\ PathOf(i) = g.new /\ g.old = g.new /\ g.new \in Submodules
        /\ TouchedBy(h) = {PathOf(i)}
    BY <1>1 DEF Reads, PathOf
  <1>3. /\ h.hunks # "none" /\ (Creates(h) \/ Deletes(h)) /\ ~(Creates(h) /\ Deletes(h))
        /\ Creates(h) => h.newMode = Gitlink
    BY <1>1 DEF Reads, AsGitWrites, OfSubmodule, Or, Creates, Deletes
  <1>4. Target[PathOf(i)] = IF Deletes(h) THEN None ELSE File(Gitlink, <<i>>)
    BY <1>1, <1>2, <1>3 DEF Means, After
  <1>5. Target[PathOf(i)] = None <=> Deletes(h)
    <2>1. File(Gitlink, <<i>>) # None
      <3>1. i \in Nat
        BY <1>1 DEF Reads
      <3>2. File(Gitlink, <<i>>) \in [mode : Modes, text : Seq(Nat)]
        BY <3>1 DEF File, Modes
      <3>3. \A file \in [mode : Modes, text : Seq(Nat)] : file # None
        BY CommitteAssumption
      <3> QED
        BY <3>2, <3>3
    <2> QED
      BY <1>4, <2>1
  <1>6. Planned(i) = {other} /\ other.text = IF Deletes(h) THEN << >> ELSE <<i>>
    <2>1. Kind(Parsed(h), i, cm.base) = "submodule" /\ (Named(Parsed(h)).new = None <=> Deletes(h))
      BY <1>1, KindIs
    <2>2. Planned(i) = {other}
      BY <2>1, OpsAre DEF Planned, PhaseNames
    <2>3. other.text = IF Deletes(h) THEN << >> ELSE <<i>>
      BY <2>1 DEF OtherOp, Op
    <2> QED
      BY <2>2, <2>3
  <1>7. \A op \in Planned(i) :
          Target[PathOf(i)] = IF op.text = << >> THEN None ELSE File(Gitlink, op.text)
    <2>1. <<i>> # << >>
      OBVIOUS
    <2> QED
      BY <1>4, <1>6, <2>1
  <1> QED
    BY <1>2, <1>3, <1>5, <1>6, <1>7

\* What a write or a change of mode makes of the file an entry is about is what
\* git apply would.
LEMMA Changed ==
    ASSUME Ready, NEW i \in DOMAIN patch, ~OfSubmodule(patch[i]),
           Kind(Parsed(patch[i]), i, cm.base) \in {"chmod", "write"}, ~MakesEmpty(i)
    PROVE  LET op == OtherOp(i, cm.base)
               file == cm.base[GitNames(patch[i]).old]
           IN Doable(op, file) /\ Result(op, file) = Target[GitNames(patch[i]).new]
  <1> DEFINE h == patch[i]
             g == GitNames(h)
             n == Named(Parsed(h))
             kind == Kind(Parsed(h), i, cm.base)
             op == OtherOp(i, cm.base)
             file == cm.base[g.old]
  <1>1. Reads(i) /\ Means(i)
    BY EntryReadAlike
  <1>2. /\ n.mode = Or(h.newMode, h.oldMode) /\ n.source = g.old /\ i \in Nat
        /\ g.old \in Plainly
    BY <1>1 DEF Reads
  <1>3. /\ ~Deletes(h) /\ ~Creates(h)
        /\ kind = "chmod" => h.hunks = "none" /\ n.mode # h.oldMode
        /\ kind = "write" => h.hunks # "none"
    BY <1>1, KindIs DEF MakesEmpty
  <1>4. file # None /\ file.mode # Gitlink
    <2>1. file # None
      BY <1>1, <1>3, CommitteAssumption DEF Means, Fits
    <2> QED
      BY <1>2, <2>1 DEF Ready, Linkless
  <1>5. file \in [mode : Modes, text : Seq(Nat)]
    BY <1>2, <1>4 DEF Ready, Types, FileOrNone, Plainly
  <1>6. Target[g.new] = File(Or(h.newMode, file.mode),
                             file.text \o (IF h.hunks = "none" THEN << >> ELSE <<i>>))
    BY <1>1, <1>3, <1>4 DEF Means, After
  <1>7. Readable(file)
    BY <1>4 DEF Readable
  <1>8. op.phase = kind /\ op.mode = n.mode
    BY DEF OtherOp, Op
  <1>11. \A mode \in {h.oldMode, h.newMode} \ {None} : Kindred(mode, file.mode)
    BY <1>1, <1>3, CommitteAssumption DEF Means, Fits
  <1>9. CASE kind = "chmod"
    <2>1. n.mode = h.newMode /\ h.newMode # None /\ h.oldMode # None
      BY <1>2, <1>3, <1>9 DEF Or, Creates
    <2>7. h.newMode \in {Plain, Executable} /\ file.mode # Link
      BY <1>3, <1>9, <1>11, <2>1 DEF Kindred, Plain, Executable, Link
    <2>8. Permissions(n.mode) = n.mode /\ ~Leads(file)
      BY <2>1, <2>7 DEF Permissions, Leads
    <2>2. file.text \o << >> = file.text
      BY <1>5
    <2>3. Target[g.new] = [mode |-> h.newMode, text |-> file.text]
      BY <1>3, <1>6, <1>9, <2>1, <2>2 DEF File, Or
    <2>4. [file EXCEPT !.mode = n.mode] = [mode |-> n.mode, text |-> file.text]
      BY <1>5
    <2>5. Result(op, file) = [file EXCEPT !.mode = n.mode]
      <3> HIDE DEF op, file, n, kind
      <3> QED
        BY <1>7, <1>8, <1>9, <2>8 DEF Result
    <2>6. Doable(op, file)
      BY <1>7, <1>8, <1>9 DEF Doable
    <2> QED
      BY <2>1, <2>3, <2>4, <2>5, <2>6
  <1>10. CASE kind = "write"
    <2>1. op.text = Append(file.text, i)
      BY <1>2, <1>10 DEF OtherOp, Op
    <2>2. file.text \o <<i>> = Append(file.text, i)
      <3>1. file.text \in Seq(Nat) /\ i \in Nat
        BY <1>2, <1>5
      <3>2. \A s \in Seq(Nat) : s \o <<i>> = Append(s, i)
        BY <3>1
      <3> QED
        BY <3>1, <3>2
    <2>3. Or(h.newMode, file.mode) = IF n.mode # None THEN n.mode ELSE file.mode
      BY <1>2, <1>3 DEF Or, Deletes
    <2>4. Result(op, file) = File(IF n.mode # None THEN n.mode ELSE file.mode, op.text)
      <3>1. ~Leads(file)
        BY <1>1, <1>2, <1>3, <1>10, KindIs DEF Matches
      <3> HIDE DEF op, file, n, kind
      <3> QED
        BY <1>4, <1>8, <1>10, <3>1 DEF Result, OwnMode
    <2>5. Doable(op, file)
      BY <1>7, <1>8, <1>10 DEF Doable
    <2> QED
      BY <1>3, <1>6, <1>10, <2>1, <2>2, <2>3, <2>4, <2>5
  <1> QED
    BY <1>9, <1>10

\* An entry is one operation at its path ...
SingleShape(i, op) ==
    LET p == PathOf(i) IN
    /\ Planned(i) = {op} /\ TouchedBy(patch[i]) = {p} /\ p \in Plainly
    /\ op.phase \in {"create", "delete", "write", "chmod"} /\ op.path = p
    /\ IF MakesEmpty(i)
       THEN op.phase = "chmod" /\ cm.base[p] = None
       ELSE Doable(op, cm.base[p]) /\ Result(op, cm.base[p]) = Target[p]
    /\ op.phase = "delete" => cm.base[p] # None
    /\ op.phase = "create" => Rehoused(i)
    /\ Target[p] = None => op.phase = "delete"

\* ... or a rename, and what is done to the file under its new name.
RenameShape(i, old, new) ==
    /\ TouchedBy(patch[i]) = {old, new} /\ old # new /\ {old, new} \subseteq Plainly
    /\ MoveOp(i).phase = "move" /\ MoveOp(i).from = old /\ MoveOp(i).path = new
    /\ new = PathOf(i) /\ Rehoused(i)
    /\ ~MakesEmpty(i)
    /\ cm.base[old] # None /\ cm.base[new] = None
    /\ Target[old] = None /\ Target[new] # None
    /\ \/ Planned(i) = {MoveOp(i)} /\ Target[new] = cm.base[old]
       \/ \E op :
            /\ Planned(i) = {MoveOp(i), op}
            /\ op.phase \in {"write", "chmod"} /\ op.path = new
            /\ Doable(op, cm.base[old]) /\ Result(op, cm.base[old]) = Target[new]

\* Every entry that is no submodule's is planned in one of these two shapes, and what
\* is planned is what is meant.
LEMMA EntryShape ==
    ASSUME Ready, NEW i \in DOMAIN patch, ~OfSubmodule(patch[i]), ~Breaks(i, cm.base)
    PROVE  /\ ~Parsed(patch[i]).renames => \E op : SingleShape(i, op)
           /\ Parsed(patch[i]).renames =>
                \E old \in Paths, new \in Paths : RenameShape(i, old, new)
           /\ ~Wrong(i, cm.base)
  <1> DEFINE h == patch[i]
             g == GitNames(h)
             n == Named(Parsed(h))
             b == cm.base
             kind == Kind(Parsed(h), i, b)
             other == OtherOp(i, b)
             p == PathOf(i)
  <1>1. Reads(i) /\ Means(i)
    BY EntryReadAlike
  <1>2. /\ h.hunks # "none" \/ h.newMode # None \/ g.new # g.old \/ Deletes(h)
        /\ IF Creates(h) THEN b[g.old] = None ELSE b[g.old] # None
        /\ g.new # g.old => b[g.new] = None
        /\ Target[g.new] = After(b, i)
        /\ g.old # g.new => Target[g.old] = None
    BY <1>1, CommitteAssumption DEF Means, Fits
  <1>3. /\ p = g.new /\ g.old \in Plainly /\ g.new \in Plainly
        /\ TouchedBy(h) = {g.old, g.new} /\ g.old \in Paths /\ g.new \in Paths
        /\ Parsed(h).renames => g.old # g.new /\ n.old = g.old /\ n.new = g.new
        /\ ~Parsed(h).renames => g.old = g.new
        /\ AsGitWrites(h) /\ i \in Nat
        /\ n.mode = Or(h.newMode, h.oldMode)
    BY <1>1 DEF Reads, PathOf
  <1>4. /\ kind = IF Deletes(h) THEN "delete"
                  ELSE IF Creates(h) /\ h.hunks # "none" THEN "create"
                  ELSE IF h.hunks = "none" THEN
                      IF n.mode # h.oldMode THEN "chmod"
                      ELSE IF Parsed(h).renames THEN "move" ELSE "nothing"
                  ELSE IF Readable(b[n.source]) /\ Matches(Parsed(h), i, b[n.source])
                  THEN "write" ELSE "mismatch"
        /\ Creates(h) => ~Parsed(h).renames /\ n.mode = h.newMode /\ n.mode # None
        /\ Parsed(h).renames => ~Deletes(h) /\ ~Creates(h)
    BY <1>1, KindIs
  <1>5. kind # "mismatch"
    BY DEF Breaks
  <1>6. kind # "nothing"
    <2> SUFFICES ASSUME kind = "nothing" PROVE FALSE
      OBVIOUS
    <2>1. h.hunks = "none" /\ ~Deletes(h) /\ n.mode = h.oldMode /\ ~Parsed(h).renames
      BY <1>4
    <2>2. h.newMode # None
      BY <1>2, <1>3, <2>1
    <2>3. h.newMode = h.oldMode
      BY <1>3, <2>1, <2>2 DEF Or
    <2> QED
      BY <1>3, <2>2, <2>3 DEF AsGitWrites
  <1>7. kind \in {"delete", "create", "chmod", "move", "write"}
    BY <1>4, <1>5, <1>6
  <1>8. ~Wrong(i, b)
    BY <1>7 DEF Wrong
  <1>9. /\ other.phase = kind /\ other.path = p /\ other.mode = n.mode
        /\ kind = "create" => other.text = <<i>>
    BY DEF OtherOp, Op, PathOf
  <1>10. ~MakesEmpty(i) /\ kind \in {"chmod", "write"} =>
           Doable(other, b[g.old]) /\ Result(other, b[g.old]) = Target[g.new]
    BY Changed
  <1>11. MakesEmpty(i) <=> Creates(h) /\ h.hunks = "none"
    BY DEF MakesEmpty
  <1>12. ~Deletes(h) => Target[g.new] # None
    <2> SUFFICES ASSUME ~Deletes(h) PROVE After(b, i) # None
      BY <1>2
    <2>1. \E mode \in Modes, text \in Seq(Nat) : After(b, i) = File(mode, text)
      <3>1. h.newMode \in Modes \cup {None}
        BY <1>1 DEF Reads, Known
      <3>2. <<i>> \in Seq(Nat) /\ << >> \in Seq(Nat)
        BY <1>3
      <3>3. CASE Creates(h)
        <4>1. h.newMode \in Modes
          BY <3>1, <3>3 DEF Creates
        <4> QED
          BY <3>2, <3>3, <4>1 DEF After
      <3>4. CASE ~Creates(h)
        <4>1. b[g.old] \in [mode : Modes, text : Seq(Nat)] /\ b[g.old].mode # Gitlink
          <5>1. b \in [Paths -> FileOrNone] /\ Linkless(b)
            BY DEF Ready, Types
          <5> QED
            BY <1>2, <1>3, <3>4, <5>1 DEF FileOrNone, Linkless
        <4> DEFINE changed == IF h.hunks = "none" THEN << >> ELSE <<i>>
        <4>2. After(b, i) = File(Or(h.newMode, b[g.old].mode), b[g.old].text \o changed)
          BY <3>4, <4>1 DEF After
        <4>3. Or(h.newMode, b[g.old].mode) \in Modes
          BY <3>1, <4>1 DEF Or
        <4>4. b[g.old].text \o changed \in Seq(Nat)
          <5>1. b[g.old].text \in Seq(Nat) /\ changed \in Seq(Nat)
            BY <3>2, <4>1
          <5> HIDE DEF b, g, changed
          <5> QED
            BY <5>1
        <4> QED
          BY <4>2, <4>3, <4>4
      <3> QED
        BY <3>3, <3>4
    <2>2. \A mode \in Modes, text \in Seq(Nat) : File(mode, text) # None
      BY CommitteAssumption DEF File
    <2> QED
      BY <2>1, <2>2
  <1>13. ASSUME ~Parsed(h).renames
         PROVE  SingleShape(i, other)
    <2>1. Planned(i) = {other}
      <3>1. kind \in PhaseNames \ {"move"}
        BY <1>4, <1>7, <1>13 DEF PhaseNames
      <3> QED
        BY <1>13, <3>1, OpsAre DEF Planned
    <2>2. TouchedBy(h) = {p} /\ p \in Plainly /\ b[g.old] = b[p]
      BY <1>3, <1>13
    <2>3. kind \in {"create", "delete", "write", "chmod"}
      BY <1>4, <1>7, <1>13
    <2>4. MakesEmpty(i) => kind = "chmod" /\ b[p] = None
      <3>1. Creates(h) => ~Deletes(h) /\ h.newMode # h.oldMode
        BY DEF Creates, Deletes
      <3> QED
        BY <1>2, <1>4, <1>11, <2>2, <3>1
    <2>5. ASSUME ~MakesEmpty(i)
          PROVE  Doable(other, b[p]) /\ Result(other, b[p]) = Target[p]
      <3>1. CASE kind \in {"chmod", "write"}
        BY <1>3, <1>10, <2>2, <2>5, <3>1
      <3>2. CASE kind = "delete"
        <4>1. Deletes(h) /\ ~Creates(h)
          BY <1>4, <3>2 DEF Creates, Deletes
        <4>2. b[p] # None /\ b[p].mode # Gitlink
          BY <1>2, <2>2, <4>1 DEF Ready, Linkless
        <4>3. Target[p] = None
          BY <1>2, <1>3, <4>1 DEF After
        <4> QED
          BY <1>9, <3>2, <4>2, <4>3 DEF Doable, Result, Readable
      <3>3. CASE kind = "create"
        <4>1. Creates(h) /\ ~Deletes(h) /\ h.hunks # "none"
          BY <1>4, <3>3
        <4>2. b[p] = None /\ Target[p] = File(h.newMode, <<i>>)
          BY <1>2, <1>3, <2>2, <4>1 DEF After
        <4>3. Result(other, b[p]) = File(h.newMode, <<i>>)
          BY <1>4, <1>9, <3>3, <4>1, <4>2 DEF Result, Leads
        <4> QED
          BY <1>9, <3>3, <4>2, <4>3 DEF Doable
      <3> QED
        BY <2>3, <3>1, <3>2, <3>3
    <2>6. kind = "delete" => b[p] # None
      BY <1>2, <1>4, <2>2 DEF Creates, Deletes
    <2>7. Target[p] = None => kind = "delete"
      BY <1>3, <1>4, <1>12
    <2>8. kind = "create" => Rehoused(i)
      BY <1>4 DEF Rehoused
    <2> HIDE DEF h, g, n, b, kind, other, p
    <2> QED
      BY <1>9, <2>1, <2>2, <2>3, <2>4, <2>5, <2>6, <2>7, <2>8 DEF SingleShape, h, b, p
  <1>14. ASSUME Parsed(h).renames
         PROVE  RenameShape(i, g.old, g.new)
    <2>1. /\ ~Deletes(h) /\ ~Creates(h) /\ ~MakesEmpty(i)
          /\ kind \in {"chmod", "move", "write"}
      BY <1>4, <1>7, <1>11, <1>14
    <2>2. /\ MoveOp(i).phase = "move" /\ MoveOp(i).from = g.old /\ MoveOp(i).path = g.new
      BY <1>3, <1>14 DEF MoveOp, Op
    <2>6. Rehoused(i)
      BY <1>14 DEF Rehoused
    <2>3. /\ g.old # g.new /\ b[g.old] # None /\ b[g.new] = None /\ Target[g.old] = None
          /\ Target[g.new] # None
      BY <1>2, <1>3, <1>12, <1>14, <2>1
    <2>4. CASE kind = "move"
      <3>1. Planned(i) = {MoveOp(i)}
        BY <1>14, <2>4, OpsAre DEF Planned
      <3>2. Target[g.new] = b[g.old]
        <4>1. h.hunks = "none" /\ n.mode = h.oldMode
          BY <1>4, <2>4
        <4>2. h.newMode = None
          BY <1>3, <4>1 DEF AsGitWrites, Or
        <4>3. b[g.old] \in [mode : Modes, text : Seq(Nat)] /\ b[g.old].mode # Gitlink
          <5>1. b \in [Paths -> FileOrNone] /\ Linkless(b)
            BY DEF Ready, Types
          <5> QED
            BY <1>3, <2>3, <5>1 DEF FileOrNone, Linkless
        <4>4. After(b, i) = File(b[g.old].mode, b[g.old].text \o << >>)
          BY <2>1, <4>1, <4>2, <4>3 DEF After, Or
        <4>5. b[g.old].text \o << >> = b[g.old].text
          BY <4>3
        <4>6. b[g.old] = [mode |-> b[g.old].mode, text |-> b[g.old].text]
          BY <4>3
        <4> QED
          BY <1>2, <4>4, <4>5, <4>6 DEF File
      <3> HIDE DEF g, b
      <3> QED
        BY <1>3, <2>1, <2>2, <2>3, <2>6, <3>1, <3>2 DEF RenameShape, b
    <2>5. CASE kind \in {"chmod", "write"}
      <3>1. Planned(i) = {MoveOp(i), other}
        BY <1>14, <2>5, OpsAre DEF Planned, PhaseNames
      <3>2. /\ other.phase \in {"write", "chmod"} /\ other.path = g.new
            /\ Doable(other, b[g.old]) /\ Result(other, b[g.old]) = Target[g.new]
        BY <1>3, <1>9, <1>10, <2>1, <2>5
      <3> HIDE DEF g, b, other
      <3> QED
        BY <1>3, <2>1, <2>2, <2>3, <2>6, <3>1, <3>2 DEF RenameShape, b
    <2> QED
      BY <2>1, <2>4, <2>5
  <1> QED
    BY <1>3, <1>8, <1>13, <1>14

----------------------------------------------------------------------------
\* No operation is planned twice; the renames come first, and submodules after them
\* and after what is created.
Apart == {pair \in Ops \X Ops : pair[1] # pair[2]}
InOrder(R) ==
    {pair \in R : /\ pair[2].phase = "move" => pair[1].phase = "move"
                  /\ pair[2].phase \in {"move", "create"} => pair[1].phase # "submodule"}
Sooner == InOrder(Apart)
Orderly == InOrder(Ops \X Ops)

\* Ordered keeps operations that all differ apart, and puts all of them in order.
LEMMA OrderedRanked ==
    ASSUME NEW ops \in Seq(Ops), NEW R \in {Apart, Ops \X Ops}, Ranked(ops, R)
    PROVE  Ranked(Ordered(ops), InOrder(R))
  <1> DEFINE One(k, phase) == IF ops[k].phase = phase THEN <<ops[k]>> ELSE << >>
             Picked(phase) == [k \in DOMAIN ops |-> One(k, phase)]
             Phased == [p \in DOMAIN Phases |-> InPhase(ops, Phases[p])]
  <1>1. ASSUME NEW phase
        PROVE  /\ InPhase(ops, phase) \in Seq(Ops)
               /\ \A op \in ToSet(InPhase(ops, phase)) : op \in Ops /\ op.phase = phase
               /\ Ranked(InPhase(ops, phase), InOrder(R))
    <2>1. \A k \in DOMAIN ops :
            /\ One(k, phase) \in Seq(Ops)
            /\ ToSet(One(k, phase)) = {op \in {ops[k]} : op.phase = phase}
            /\ Ranked(One(k, phase), InOrder(R))
      <3> TAKE k \in DOMAIN ops
      <3>1. Ranked(<<ops[k]>>, InOrder(R)) /\ Ranked(<< >>, InOrder(R))
        BY DEF Ranked
      <3> QED
        BY <3>1, OneElement
    <2>2. Picked(phase) \in Seq(Seq(Ops)) /\ DOMAIN Picked(phase) = DOMAIN ops
          /\ \A k \in DOMAIN ops : Picked(phase)[k] = One(k, phase)
      <3> HIDE DEF One
      <3> QED
        BY <2>1
    <2>3. InPhase(ops, phase) = FlattenSeq(Picked(phase))
      BY DEF InPhase
    <2> HIDE DEF Picked, One
    <2>4. \A k, l \in DOMAIN ops : k < l =>
            \A x \in ToSet(One(k, phase)), y \in ToSet(One(l, phase)) : <<x, y>> \in InOrder(R)
      <3> TAKE k, l \in DOMAIN ops
      <3> SUFFICES ASSUME k < l, NEW x \in ToSet(One(k, phase)), NEW y \in ToSet(One(l, phase))
                   PROVE  <<x, y>> \in InOrder(R)
        OBVIOUS
      <3>1. x = ops[k] /\ y = ops[l] /\ x.phase = phase /\ y.phase = phase
        BY <2>1
      <3>2. <<x, y>> \in R
        BY <3>1 DEF Ranked
      <3> QED
        BY <3>1, <3>2 DEF InOrder
    <2>5. Ranked(FlattenSeq(Picked(phase)), InOrder(R))
      <3>1. \A k \in DOMAIN Picked(phase) : Ranked(Picked(phase)[k], InOrder(R))
        BY <2>1, <2>2
      <3>2. \A k, l \in DOMAIN Picked(phase) : k < l =>
              \A x \in ToSet(Picked(phase)[k]), y \in ToSet(Picked(phase)[l]) :
                 <<x, y>> \in InOrder(R)
        BY <2>2, <2>4
      <3> QED
        BY <2>2, <3>1, <3>2, FlattenRanked
    <2>6. /\ FlattenSeq(Picked(phase)) \in Seq(Ops)
          /\ ToSet(FlattenSeq(Picked(phase))) =
                UNION {ToSet(Picked(phase)[k]) : k \in DOMAIN Picked(phase)}
      BY <2>2, FlattenElements
    <2>7. \A op \in ToSet(FlattenSeq(Picked(phase))) : op \in Ops /\ op.phase = phase
      <3> TAKE op \in ToSet(FlattenSeq(Picked(phase)))
      <3>1. PICK k \in DOMAIN ops : op \in ToSet(One(k, phase))
        BY <2>2, <2>6
      <3> QED
        BY <2>1, <3>1
    <2> QED
      BY <2>3, <2>5, <2>6, <2>7
  <1>2. /\ Phased \in Seq(Seq(Ops)) /\ DOMAIN Phased = 1..6
        /\ \A p \in 1..6 : Phased[p] = InPhase(ops, Phases[p])
    BY <1>1, PhaseSet
  <1>3. Ordered(ops) = FlattenSeq(Phased)
    BY DEF Ordered
  <1> HIDE DEF Phased
  <1>4. \A p, q \in 1..6 : p < q =>
          /\ Phases[p] # Phases[q] /\ Phases[q] # "move"
          /\ Phases[q] = "create" => Phases[p] # "submodule"
    <2>1. 1..6 = {1, 2, 3, 4, 5, 6}
      OBVIOUS
    <2>2. /\ Phases[1] = "move" /\ Phases[2] = "create" /\ Phases[3] = "delete"
          /\ Phases[4] = "write" /\ Phases[5] = "chmod" /\ Phases[6] = "submodule"
      BY DEF Phases
    <2> QED
      BY <2>1, <2>2
  <1>5. \A p, q \in 1..6 : p < q =>
          \A x \in ToSet(Phased[p]), y \in ToSet(Phased[q]) : <<x, y>> \in InOrder(R)
    <2> TAKE p, q \in 1..6
    <2> SUFFICES ASSUME p < q, NEW x \in ToSet(Phased[p]), NEW y \in ToSet(Phased[q])
                 PROVE  <<x, y>> \in InOrder(R)
      OBVIOUS
    <2>1. x \in Ops /\ y \in Ops /\ x.phase = Phases[p] /\ y.phase = Phases[q]
      BY <1>1, <1>2
    <2> QED
      BY <1>4, <2>1 DEF InOrder, Apart
  <1>6. \A p \in 1..6 : Ranked(Phased[p], InOrder(R))
    BY <1>1, <1>2
  <1> QED
    BY <1>2, <1>3, <1>5, <1>6, FlattenRanked

----------------------------------------------------------------------------
\* The operations of an entry are about its paths, and of no other entry.
LEMMA OpsTouch ==
    ASSUME Ready, NEW i \in DOMAIN patch, ~Breaks(i, cm.base)
    PROVE  \A op \in Planned(i) :
             /\ op.path \in TouchedBy(patch[i]) /\ OpPaths(op) \subseteq TouchedBy(patch[i])
             /\ ~OfSubmodule(patch[i]) => OpPaths(op) # {}
             /\ OfSubmodule(patch[i]) <=> op.phase = "submodule"
  <1>1. CASE OfSubmodule(patch[i])
    <2>1. TouchedBy(patch[i]) = {PathOf(i)} /\ Reads(i)
      BY <1>1, SubmoduleMeant, EntryReadAlike
    <2>2. \A op \in Planned(i) : SubmoduleOp(i, op)
      BY <1>1, <2>1, PlannedAnyway DEF Planned
    <2> QED
      BY <1>1, <2>1, <2>2 DEF SubmoduleOp, OpPaths
  <1>2. CASE ~OfSubmodule(patch[i]) /\ ~Parsed(patch[i]).renames
    <2>1. PICK op : SingleShape(i, op)
      BY <1>2, EntryShape
    <2> QED
      BY <1>2, <2>1 DEF SingleShape, OpPaths
  <1>3. CASE ~OfSubmodule(patch[i]) /\ Parsed(patch[i]).renames
    <2>1. PICK old \in Paths, new \in Paths : RenameShape(i, old, new)
      BY <1>3, EntryShape
    <2> QED
      BY <1>3, <2>1 DEF RenameShape, OpPaths
  <1>4. Reads(i)
    BY EntryReadAlike
  <1>5. Parsed(patch[i]).renames \in BOOLEAN
    BY <1>4 DEF Reads
  <1> QED
    BY <1>1, <1>2, <1>3, <1>5

\* The operations of two entries are about different paths.
LEMMA OpsApart ==
    ASSUME Ready, NEW i \in DOMAIN patch, NEW j \in DOMAIN patch, i # j,
           ~Breaks(i, cm.base), ~Breaks(j, cm.base),
           NEW x \in Planned(i), NEW y \in Planned(j)
    PROVE  x # y /\ OpPaths(x) \cap OpPaths(y) = {}
  <1>1. TouchedBy(patch[i]) \cap TouchedBy(patch[j]) = {}
    BY DEF Ready, Proper
  <1> QED
    BY <1>1, OpsTouch

\* On a tree that is still what committe was called on, the planning loop plans
\* what it would on that.
LEMMA SamePlans ==
    ASSUME Ready, NEW i \in DOMAIN patch, \A p \in Plainly : tree[p] = cm.base[p]
    PROVE  /\ Kind(Parsed(patch[i]), i, tree) = Kind(Parsed(patch[i]), i, cm.base)
           /\ OpsOf(Parsed(patch[i]), i, tree) = OpsOf(Parsed(patch[i]), i, cm.base)
  <1> DEFINE e == Parsed(patch[i])
             n == Named(e)
  <1>1. Reads(i)
    BY EntryReadAlike
  <1>2. ~OfSubmodule(patch[i]) => tree[n.source] = cm.base[n.source]
    BY <1>1 DEF Reads
  <1>3. OfSubmodule(patch[i]) =>
          Kind(e, i, tree) = "submodule" /\ Kind(e, i, cm.base) = "submodule"
    BY <1>1, KindIs
  <1>4. Kind(e, i, tree) = Kind(e, i, cm.base)
    <2>1. CASE OfSubmodule(patch[i])
      BY <1>3, <2>1
    <2>2. CASE ~OfSubmodule(patch[i])
      BY <1>2, <2>2 DEF Kind
    <2> QED
      BY <2>1, <2>2
  <1> HIDE DEF e
  <1>5. OpsOf(e, i, tree) = OpsOf(e, i, cm.base)
    <2>1. CASE OfSubmodule(patch[i])
      <3>1. Kind(e, i, tree) = "submodule" /\ Kind(e, i, cm.base) = "submodule"
        BY <1>3, <2>1
      <3> QED
        BY <3>1 DEF OpsOf
    <2>2. CASE ~OfSubmodule(patch[i])
      BY <1>2, <1>4, <2>2 DEF OpsOf
    <2> QED
      BY <2>1, <2>2
  <1> QED
    BY <1>4, <1>5 DEF e

\* The one or two operations of an entry differ.
LEMMA OpsOfRanked ==
    ASSUME Types, NEW i \in DOMAIN patch, ~Breaks(i, cm.base)
    PROVE  /\ OpsOf(Parsed(patch[i]), i, cm.base) \in Seq(Ops)
           /\ Ranked(OpsOf(Parsed(patch[i]), i, cm.base), Apart)
  <1> DEFINE e == Parsed(patch[i])
             kind == Kind(e, i, cm.base)
             other == OtherOp(i, cm.base)
             moves == IF e.renames /\ kind \in {"chmod", "move", "write"}
                      THEN <<MoveOp(i)>> ELSE << >>
             others == IF kind \in PhaseNames \ {"move"} THEN <<other>> ELSE << >>
             S == {MoveOp(i), other}
  <1>1. OpsOf(e, i, cm.base) = moves \o others
    BY PhaseSet DEF OpsOf, OtherOp, MoveOp
  <1>2. /\ moves \in Seq(S) /\ ToSet(moves) \subseteq {MoveOp(i)}
        /\ Ranked(moves, Apart)
    <2>1. Ranked(<<MoveOp(i)>>, Apart) /\ Ranked(<< >>, Apart)
      BY DEF Ranked
    <2> HIDE DEF e, kind
    <2> QED
      BY <2>1, OneElement
  <1>3. /\ others \in Seq(S)
        /\ ToSet(others) = {op \in {other} : kind \in PhaseNames \ {"move"}}
        /\ Ranked(others, Apart)
    <2>1. Ranked(<<other>>, Apart) /\ Ranked(<< >>, Apart)
      BY DEF Ranked
    <2> HIDE DEF e, kind, other
    <2> QED
      BY <2>1, OneElement
  <1>4. OpsOf(e, i, cm.base) \in Seq(Ops)
    <2>1. cm.base \in [Paths -> FileOrNone] /\ kind # "mismatch"
      BY DEF Types, Breaks
    <2> QED
      BY <2>1, EntryOps
  <1>5. ToSet(OpsOf(e, i, cm.base)) = ToSet(moves) \cup ToSet(others)
    <2> HIDE DEF moves, others, S, e
    <2> QED
      BY <1>1, <1>2, <1>3, ConcatElements
  <1>6. \A x \in ToSet(moves), y \in ToSet(others) : <<x, y>> \in Apart
    <2> TAKE x \in ToSet(moves), y \in ToSet(others)
    <2>1. x.phase = "move" /\ y.phase # "move"
      <3>1. MoveOp(i).phase = "move" /\ other.phase = kind
        BY DEF MoveOp, OtherOp, Op
      <3> HIDE DEF moves, others, other, kind
      <3> QED
        BY <1>2, <1>3, <3>1
    <2>2. \A z \in ToSet(OpsOf(e, i, cm.base)) : z \in Ops
      BY <1>4 DEF ToSet
    <2>3. x \in Ops /\ y \in Ops
      BY <1>5, <2>2
    <2> QED
      BY <2>1, <2>3 DEF Apart
  <1>7. Ranked(moves \o others, Apart)
    <2> HIDE DEF moves, others, S
    <2> QED
      BY <1>2, <1>3, <1>6, ConcatRanked
  <1> HIDE DEF moves, others
  <1> QED
    BY <1>1, <1>4, <1>7

\* The plan on those files: the operations of every entry, renames first.
LEMMA PlanIs ==
    ASSUME Ready, \A p \in Plainly : tree[p] = cm.base[p],
           \A i \in DOMAIN patch : ~Breaks(i, tree),
           NEW ops, ops = FlattenSeq([i \in DOMAIN patch |-> OpsOf(Parsed(patch[i]), i, tree)])
    PROVE  /\ \A i \in DOMAIN patch : ~Breaks(i, cm.base) /\ ~Wrong(i, tree)
           /\ ToSet(Ordered(ops)) = UNION {Planned(i) : i \in DOMAIN patch}
           /\ Ranked(Ordered(ops), Sooner) /\ Ordered(ops) \in Seq(Ops)
  <1>1. Types
    BY DEF Ready
  <1>2. \A i \in DOMAIN patch : ~Breaks(i, cm.base)
    BY SamePlans DEF Breaks
  <1>3. \A i \in DOMAIN patch : ~Wrong(i, tree)
    <2> TAKE i \in DOMAIN patch
    <2>1. ~Wrong(i, cm.base)
      <3>1. CASE OfSubmodule(patch[i])
        <4>1. Reads(i)
          BY EntryReadAlike
        <4>2. Kind(Parsed(patch[i]), i, cm.base) = "submodule"
          BY <3>1, <4>1, KindIs
        <4> QED
          BY <4>2 DEF Wrong
      <3>2. CASE ~OfSubmodule(patch[i])
        BY <1>2, <3>2, EntryShape
      <3> QED
        BY <3>1, <3>2
    <2> QED
      BY <2>1, SamePlans DEF Wrong
  <1> DEFINE O(i) == OpsOf(Parsed(patch[i]), i, tree)
             all == [i \in DOMAIN patch |-> O(i)]
  <1>4. ASSUME NEW i \in DOMAIN patch
        PROVE  O(i) \in Seq(Ops) /\ Ranked(O(i), Apart) /\ ToSet(O(i)) = Planned(i)
    BY <1>1, <1>2, SamePlans, OpsOfRanked DEF Planned
  <1> HIDE DEF O
  <1>5. /\ all \in Seq(Seq(Ops)) /\ DOMAIN all = DOMAIN patch
        /\ \A i \in DOMAIN patch : all[i] = O(i)
    BY <1>1, <1>4, PatchFacts
  <1>6. ops = FlattenSeq(all)
    BY DEF O
  <1> HIDE DEF all
  <1>7. /\ ops \in Seq(Ops) /\ ToSet(ops) = UNION {Planned(i) : i \in DOMAIN patch}
    <2>1. UNION {ToSet(all[i]) : i \in DOMAIN all} = UNION {Planned(i) : i \in DOMAIN patch}
      BY <1>4, <1>5
    <2> QED
      BY <1>5, <1>6, <2>1, FlattenElements
  <1>8. Ranked(ops, Apart)
    <2>1. \A i \in DOMAIN all : Ranked(all[i], Apart)
      BY <1>4, <1>5
    <2>2. \A i, j \in DOMAIN all : i < j =>
            \A x \in ToSet(all[i]), y \in ToSet(all[j]) : <<x, y>> \in Apart
      <3> TAKE i, j \in DOMAIN all
      <3> SUFFICES ASSUME i < j, NEW x \in ToSet(all[i]), NEW y \in ToSet(all[j])
                   PROVE  <<x, y>> \in Apart
        OBVIOUS
      <3>1. i # j /\ i \in DOMAIN patch /\ j \in DOMAIN patch
        BY <1>1, <1>5, PatchFacts
      <3>2. x \in Planned(i) /\ y \in Planned(j)
        BY <1>4, <1>5, <3>1
      <3>3. x # y
        BY <1>2, <3>1, <3>2, OpsApart
      <3>4. x \in Ops /\ y \in Ops
        BY <1>4, <1>5, <3>1 DEF ToSet
      <3> QED
        BY <3>3, <3>4 DEF Apart
    <2> QED
      BY <1>5, <1>6, <2>1, <2>2, FlattenRanked
  <1> QED
    BY <1>2, <1>3, <1>7, <1>8, OrderedOps, OrderedRanked DEF Sooner

\* The operation at hand is not planned again.
LEMMA HeadRanked ==
    ASSUME NEW s \in Seq(Ops), s # << >>, Ranked(s, Sooner)
    PROVE  /\ ToSet(Tail(s)) = ToSet(s) \ {Head(s)} /\ Head(s) \in ToSet(s)
           /\ Ranked(Tail(s), Sooner)
           /\ \A op \in ToSet(Tail(s)) : op.phase = "move" => Head(s).phase = "move"
  <1>1. Ranked(Tail(s), Sooner) /\ \A op \in ToSet(Tail(s)) : <<Head(s), op>> \in Sooner
    BY TailRanked
  <1>2. ToSet(s) = {Head(s)} \cup ToSet(Tail(s)) /\ Head(s) \in ToSet(s)
    BY FirstAndRest
  <1>3. \A op \in ToSet(Tail(s)) :
          op # Head(s) /\ (op.phase = "move" => Head(s).phase = "move")
    BY <1>1 DEF Sooner, InOrder, Apart
  <1> QED
    BY <1>1, <1>2, <1>3

----------------------------------------------------------------------------
\* git apply does not take a patch whose context has drifted, nor one again that
\* has made or removed a submodule.
Refused ==
    \/ Drifting
    \/ \E j \in DOMAIN patch :
          OfSubmodule(patch[j]) /\ (Creates(patch[j]) <=> index[PathOf(j)] # None)

\* Nothing has been done yet.
Pristine == index = cm.base /\ \A p \in Plainly : tree[p] = cm.base[p]

\* Why it does not take it the first time.
Refusable == Drifting \/ \E j \in DOMAIN patch : OfSubmodule(patch[j])

\* git apply does not take such a patch.
LEMMA GitRefuses ==
    ASSUME Ready, Refused
    PROVE  ~Meant(index, FALSE).ok
  <1>1. Types /\ Disjoint /\ index \in [Paths -> FileOrNone]
    BY DEF Ready, Proper, Disjoint, Types
  <1>2. CASE Drifting
    BY <1>1, <1>2, DriftIsRefused
  <1>3. CASE ~Drifting
    <2> SUFFICES ASSUME Meant(index, FALSE).ok PROVE FALSE
      OBVIOUS
    <2>1. PICK j \in DOMAIN patch :
            OfSubmodule(patch[j]) /\ (Creates(patch[j]) <=> index[PathOf(j)] # None)
      BY <1>3 DEF Refused
    <2>2. Fits(index, j, FALSE)
      BY <1>1, MeantSplits
    <2>3. GitNames(patch[j]).old = PathOf(j) /\ GitNames(patch[j]).old # None
      BY <2>1, EntryReadAlike, CommitteAssumption DEF Reads, PathOf
    <2> QED
      BY <2>1, <2>2, <2>3 DEF Fits
  <1> QED
    BY <1>2, <1>3

\* On the files committe was called on it takes the others, and does as is meant.
LEMMA GitTakes ==
    ASSUME Ready, index = cm.base, Meant(index, FALSE).ok
    PROVE  /\ \A p \in Paths : Meant(index, FALSE).files[p] = Target[p]
           /\ \A p \in Paths \ Touched : index[p] = Target[p]
  <1>1. Types /\ Disjoint /\ index \in [Paths -> FileOrNone] /\ Proper
    BY DEF Ready, Proper, Disjoint, Types
  <1>2. ~Drifting
    BY <1>1, DriftIsRefused
  <1>3. Meant(index, FALSE) = Meant(cm.base, TRUE)
    BY <1>1, <1>2, NothingToForgive
  <1>4. \A p \in Paths \ Touched : Target[p] = cm.base[p]
    BY <1>1, MeantSplits DEF Proper, Target
  <1> QED
    BY <1>3, <1>4 DEF Target

\* If it does not on those files, the patch has drifted or is about a submodule.
LEMMA WhyNotTaken ==
    ASSUME Ready, Pristine, ~(Meant(index, FALSE).ok /\ \A p \in Touched : Current(p))
    PROVE  Refusable
  <1> SUFFICES ASSUME ~Drifting PROVE \E j \in DOMAIN patch : OfSubmodule(patch[j])
    BY DEF Refusable
  <1>1. Types /\ Proper /\ index = cm.base
    BY DEF Ready, Pristine
  <1>2. Meant(index, FALSE) = Meant(cm.base, TRUE)
    BY <1>1, NothingToForgive
  <1>3. PICK p \in Touched : ~Current(p)
    BY <1>1, <1>2 DEF Proper
  <1>4. PICK j \in DOMAIN patch : p \in TouchedBy(patch[j])
    BY <1>3 DEF Touched
  <1>5. ASSUME ~OfSubmodule(patch[j])
        PROVE  Current(p)
    <2>1. p \in Plainly
      BY <1>4, <1>5, EntryReadAlike DEF Reads
    <2> QED
      BY <2>1 DEF Pristine, Current, Same
  <1> QED
    BY <1>3, <1>5

\* Neither the patch nor the files committe was called on change while it is tried.
LEMMA SameTarget ==
    ASSUME patch' = patch, cm'.base = cm.base
    PROVE  /\ Target' = Target /\ Proper' = Proper /\ Drifting' = Drifting
           /\ \A i : /\ Planned(i)' = Planned(i) /\ MakesEmpty(i)' = MakesEmpty(i)
                     /\ PathOf(i)' = PathOf(i) /\ Breaks(i, cm.base)' = Breaks(i, cm.base)
                     /\ MoveOp(i)' = MoveOp(i)
           /\ Linkless(cm.base)' = Linkless(cm.base) /\ Refusable' = Refusable
  <1>1. Target' = Target /\ Meant(cm.base, TRUE)' = Meant(cm.base, TRUE)
    BY DEF Target, Meant, GitEntry
  <1> QED
    BY <1>1 DEF Proper, Drifting, Planned, MakesEmpty, PathOf, Breaks, MoveOp, Linkless,
       Refusable

----------------------------------------------------------------------------
\* How far an entry has got: nothing of it, all of it, or a file that is renamed
\* and not yet written.
TreeAs(i, files, todo) ==
    LET mv == MoveOp(i) IN
    /\ Planned(i) \subseteq todo \/ MakesEmpty(i) =>
          \A p \in TouchedBy(patch[i]) : files[p] = cm.base[p]
    /\ Planned(i) \cap todo = {} /\ ~MakesEmpty(i) =>
          \A p \in TouchedBy(patch[i]) : files[p] = Target[p]
    /\ Parsed(patch[i]).renames =>
          /\ mv \in todo => Planned(i) \subseteq todo
          /\ mv \notin todo /\ Planned(i) \cap todo # {} =>
                files[mv.from] = None /\ files[mv.path] = cm.base[mv.from]

Writes(op) == Move(op) \/ Write(op) \/ Delete(op) \/ Chmod(op) \/ Submodule(op)

Todo == ToSet(fuzzy.todo)

\* An operation of the entry brings it on, unless it is to make an empty file, and
\* leaves what is staged.
LEMMA EntryComesOn ==
    ASSUME Ready, Homed, NEW i \in DOMAIN patch, ~OfSubmodule(patch[i]), ~Breaks(i, cm.base),
           NEW op \in Planned(i), Doing(op), Ranked(fuzzy.todo, Sooner),
           TreeAs(i, tree, Todo)
    PROVE  /\ Possible(op) <=> ~MakesEmpty(i)
           /\ MakesEmpty(i) => op.phase = "chmod"
           /\ Possible(op) /\ Writes(op) =>
                index' = index /\ TreeAs(i, tree', Todo \ {op})
  <1> DEFINE b == cm.base
  <1>1. /\ Types /\ tree \in [Paths -> FileOrNone] /\ fuzzy.todo \in Seq(Ops)
        /\ op \in Ops
    BY OpAtHand DEF Ready, Types
  <1>2. /\ op \in Todo /\ op = Head(fuzzy.todo)
        /\ \A x \in Todo \ {op} : x.phase = "move" => op.phase = "move"
    BY <1>1, OpAtHand, HeadRanked DEF Doing, Todo
  <1>3. CASE ~Parsed(patch[i]).renames
    <2>1. PICK o : SingleShape(i, o)
      BY <1>3, EntryShape
    <2> DEFINE p == PathOf(i)
    <2>2. /\ o = op /\ Planned(i) = {op} /\ TouchedBy(patch[i]) = {p} /\ p \in Paths
          /\ op.phase \in {"create", "delete", "write", "chmod"} /\ op.path = p
          /\ MakesEmpty(i) => op.phase = "chmod" /\ b[p] = None
          /\ ~MakesEmpty(i) => Doable(op, b[p]) /\ Result(op, b[p]) = Target[p]
          /\ op.phase = "create" => Housed(p)
      BY <2>1 DEF SingleShape, Plainly, Homed
    <2>3. tree[p] = b[p]
      BY <1>2, <2>2 DEF TreeAs
    <2>4. CASE MakesEmpty(i)
      <3>1. ~Possible(op)
        BY <2>2, <2>3, <2>4 DEF Possible
      <3> QED
        BY <2>2, <2>4, <3>1
    <2>5. CASE ~MakesEmpty(i)
      <3>1. Possible(op)
        BY <1>1, <2>2, <2>3, <2>5, DoesIt
      <3>2. ASSUME Writes(op)
            PROVE  index' = index /\ TreeAs(i, tree', Todo \ {op})
        <4>1. tree' = [tree EXCEPT ![p] = Result(op, tree[p])] /\ index' = index
          BY <1>1, <2>2, <3>2, DoesIt DEF Writes
        <4>2. tree'[p] = Target[p]
          BY <1>1, <2>2, <2>3, <2>5, <4>1
        <4>3. Planned(i) \cap (Todo \ {op}) = {} /\ ~(Planned(i) \subseteq Todo \ {op})
          BY <2>2
        <4> HIDE DEF p
        <4> QED
          BY <1>3, <2>2, <2>5, <4>1, <4>2, <4>3 DEF TreeAs
      <3> QED
        BY <2>5, <3>1, <3>2
    <2> QED
      BY <2>4, <2>5
  <1>4. CASE Parsed(patch[i]).renames
    <2>1. PICK old \in Paths, new \in Paths : RenameShape(i, old, new)
      BY <1>4, EntryShape
    <2> DEFINE mv == MoveOp(i)
    <2>2. /\ TouchedBy(patch[i]) = {old, new} /\ old # new /\ ~MakesEmpty(i)
          /\ mv.phase = "move" /\ mv.from = old /\ mv.path = new
          /\ b[old] # None /\ b[new] = None /\ Target[old] = None
          /\ mv \in Planned(i) /\ Housed(new)
      BY <2>1 DEF RenameShape, Homed
    <2> HIDE DEF mv
    <2>3. CASE op = mv
      <3>1. tree[old] = b[old] /\ tree[new] = b[new] /\ Planned(i) \subseteq Todo
        BY <1>2, <1>4, <2>2, <2>3 DEF TreeAs, mv
      <3>2. Possible(op)
        BY <2>2, <2>3, <3>1 DEF Possible
      <3>3. ASSUME Writes(op)
            PROVE  index' = index /\ TreeAs(i, tree', Todo \ {op})
        <4>1. tree' = [tree EXCEPT ![old] = None, ![new] = tree[old]] /\ index' = index
          BY <2>2, <2>3, <3>3 DEF Writes, Move, Write, Delete, Chmod, Submodule
        <4>2. tree'[old] = None /\ tree'[new] = b[old]
          BY <1>1, <2>2, <3>1, <4>1
        <4>3. mv \notin Todo \ {op} /\ ~(Planned(i) \subseteq Todo \ {op})
          BY <2>2, <2>3
        <4>4. Planned(i) \cap (Todo \ {op}) = {} => Target[new] = b[old]
          <5>1. CASE Planned(i) = {mv} /\ Target[new] = b[old]
            BY <5>1
          <5>2. ASSUME NEW o, Planned(i) = {mv, o}, o.phase \in {"write", "chmod"}
                PROVE  Planned(i) \cap (Todo \ {op}) # {}
            BY <2>2, <2>3, <3>1, <5>2
          <5> QED
            BY <2>1, <5>1, <5>2 DEF RenameShape, mv
        <4> QED
          BY <1>4, <2>2, <4>1, <4>2, <4>3, <4>4 DEF TreeAs, mv
      <3> QED
        BY <2>2, <3>2, <3>3
    <2>4. CASE op # mv
      <3>1. /\ Planned(i) = {mv, op} /\ op.phase \in {"write", "chmod"} /\ op.path = new
            /\ Doable(op, b[old]) /\ Result(op, b[old]) = Target[new]
        BY <2>1, <2>4 DEF RenameShape, mv
      <3>2. mv \notin Todo
        BY <1>2, <2>2, <2>4, <3>1
      <3>3. tree[old] = None /\ tree[new] = b[old]
        BY <1>2, <1>4, <2>2, <3>2 DEF TreeAs, mv
      <3>4. Possible(op)
        BY <1>1, <3>1, <3>3, DoesIt
      <3>5. ASSUME Writes(op)
            PROVE  index' = index /\ TreeAs(i, tree', Todo \ {op})
        <4>1. tree' = [tree EXCEPT ![new] = Result(op, tree[new])] /\ index' = index
          BY <1>1, <3>1, <3>5, DoesIt DEF Writes
        <4>2. tree'[old] = Target[old] /\ tree'[new] = Target[new]
          BY <1>1, <2>2, <3>1, <3>3, <4>1
        <4>3. Planned(i) \cap (Todo \ {op}) = {} /\ mv \notin Todo \ {op}
              /\ ~(Planned(i) \subseteq Todo \ {op})
          BY <2>2, <3>1, <3>2
        <4> QED
          BY <1>4, <2>2, <4>1, <4>2, <4>3 DEF TreeAs, mv
      <3> QED
        BY <2>2, <3>4, <3>5
    <2> QED
      BY <2>3, <2>4
  <1>5. Parsed(patch[i]).renames \in BOOLEAN
    BY EntryReadAlike DEF Reads
  <1> QED
    BY <1>3, <1>4, <1>5

\* An operation does not touch what another entry has got to.
LEMMA OthersStay ==
    ASSUME Ready, NEW j \in DOMAIN patch, ~OfSubmodule(patch[j]), ~Breaks(j, cm.base),
           NEW op, op \notin Planned(j), NEW files,
           \A p \in TouchedBy(patch[j]) : files[p] = tree[p],
           TreeAs(j, tree, Todo)
    PROVE  TreeAs(j, files, Todo \ {op})
  <1> DEFINE mv == MoveOp(j)
  <1>1. /\ Planned(j) \subseteq Todo \ {op} <=> Planned(j) \subseteq Todo
        /\ Planned(j) \cap (Todo \ {op}) = Planned(j) \cap Todo
    OBVIOUS
  <1>2. CASE ~Parsed(patch[j]).renames
    BY <1>1, <1>2 DEF TreeAs
  <1>3. CASE Parsed(patch[j]).renames
    <2>1. mv \in Planned(j) /\ {mv.from, mv.path} \subseteq TouchedBy(patch[j])
      BY <1>3, EntryShape DEF RenameShape
    <2>2. mv \in Todo \ {op} <=> mv \in Todo
      BY <2>1
    <2>3. files[mv.from] = tree[mv.from] /\ files[mv.path] = tree[mv.path]
      BY <2>1
    <2> HIDE DEF mv
    <2> QED
      BY <1>1, <1>3, <2>2, <2>3 DEF TreeAs, mv
  <1>4. Parsed(patch[j]).renames \in BOOLEAN
    BY EntryReadAlike DEF Reads
  <1> QED
    BY <1>2, <1>3, <1>4

----------------------------------------------------------------------------
\* The paths there is no file at in the end, each staged once.
Gone == {p \in Plainly : Target[p] = None}
OnceGone == {pair \in Paths \X Paths : pair[1] = pair[2] => pair[1] \notin Gone}

\* What is left of the plan, in its order; what was made of the tree, and of the
\* index; what is still to be staged; and why it may fail.
TodoInv ==
    /\ \A i \in DOMAIN patch : ~Breaks(i, cm.base)
    /\ \A op \in Todo : \E i \in DOMAIN patch : op \in Planned(i)
    /\ Ranked(fuzzy.todo, Sooner)

TreeInv ==
    /\ \A p \in Plainly \ Touched : tree[p] = cm.base[p]
    /\ \A i \in DOMAIN patch : ~OfSubmodule(patch[i]) => TreeAs(i, tree, Todo)

IndexInv ==
    /\ \A p \in Plainly : index[p] = cm.base[p] \/ (fuzzy.todo = << >> /\ index[p] = tree[p])
    /\ \A p \in Submodules :
          index[p] = IF \E op \in Todo : op.phase = "submodule" /\ op.path = p
                     THEN cm.base[p] ELSE Target[p]

StageInv ==
    /\ \A p \in ToSet(fuzzy.applied) :
          /\ p \in Plainly \cap Touched
          /\ p \in Gone => index[p] # None /\ \A op \in Todo : p \notin OpPaths(op)
          /\ \A i \in DOMAIN patch : MakesEmpty(i) => p # PathOf(i)
    /\ Ranked(fuzzy.applied, OnceGone)

EmptyInv ==
    /\ fuzzy.failed => \E i \in DOMAIN patch : MakesEmpty(i)
    /\ \A i \in DOMAIN patch : MakesEmpty(i) => fuzzy.failed \/ Planned(i) \subseteq Todo

Running == TodoInv /\ TreeInv /\ IndexInv /\ StageInv /\ EmptyInv

\* The plan made on the files committe was called on.
LEMMA PlanRuns ==
    ASSUME Ready, Pristine, Plan, fuzzy = [NewFuzzy EXCEPT !.stage = "planning"],
           UNCHANGED cm
    PROVE  \/ fuzzy'.stage = "crashed"
           \/ fuzzy'.stage = "doing" /\ Running'
  <1> DEFINE ops == FlattenSeq([i \in DOMAIN patch |-> OpsOf(Parsed(patch[i]), i, tree)])
             wrong == \E i \in DOMAIN patch : Wrong(i, tree)
             broken == \E i \in DOMAIN patch : Breaks(i, tree)
  <1>1. /\ fuzzy' =
             IF broken THEN [fuzzy EXCEPT !.stage = "crashed"]
             ELSE IF ~Gate(wrong) THEN [fuzzy EXCEPT !.stage = "failed"]
             ELSE [fuzzy EXCEPT !.stage = "doing", !.todo = Ordered(ops), !.failed = wrong]
        /\ UNCHANGED <<tree, index, patch, faults>>
    BY DEF Plan
  <1>2. CASE broken
    BY <1>1, <1>2 DEF NewFuzzy
  <1>3. CASE ~broken
    <2>1. /\ \A i \in DOMAIN patch : ~Breaks(i, cm.base) /\ ~Wrong(i, tree)
          /\ ToSet(Ordered(ops)) = UNION {Planned(i) : i \in DOMAIN patch}
          /\ Ranked(Ordered(ops), Sooner) /\ Ordered(ops) \in Seq(Ops)
      <3> HIDE DEF ops
      <3> QED
        BY <1>3, PlanIs DEF Pristine, ops
    <2> HIDE DEF ops
    <2>2. ~wrong /\ Gate(wrong)
      BY <2>1 DEF Gate
    <2>3. fuzzy' = [stage |-> "doing", todo |-> Ordered(ops), applied |-> << >>,
                    failed |-> FALSE]
      BY <1>1, <1>3, <2>2 DEF NewFuzzy
    <2>4. Todo' = UNION {Planned(i) : i \in DOMAIN patch} /\ Ranked(fuzzy'.todo, Sooner)
      BY <2>1, <2>3 DEF Todo
    <2>5. TodoInv'
      BY <1>1, <2>1, <2>4, SameTarget DEF TodoInv
    <2>6. \A i \in DOMAIN patch : Planned(i) # {} /\ Planned(i) \subseteq Todo'
      <3> TAKE i \in DOMAIN patch
      <3>1. Planned(i) # {}
        <4>1. CASE OfSubmodule(patch[i])
          BY <4>1, EntryReadAlike, PlannedAnyway DEF Planned
        <4>2. CASE ~OfSubmodule(patch[i])
          <5>1. Parsed(patch[i]).renames \in BOOLEAN
            BY EntryReadAlike DEF Reads
          <5>2. (\E op : SingleShape(i, op))
                \/ \E old \in Paths, new \in Paths : RenameShape(i, old, new)
            BY <2>1, <4>2, <5>1, EntryShape
          <5> QED
            BY <5>2 DEF SingleShape, RenameShape
        <4> QED
          BY <4>1, <4>2
      <3> QED
        BY <2>4, <3>1
    <2>7. TreeInv'
      <3>1. \A i \in DOMAIN patch : ~OfSubmodule(patch[i]) => TreeAs(i, tree, Todo')
        <4> SUFFICES ASSUME NEW i \in DOMAIN patch, ~OfSubmodule(patch[i])
                     PROVE  TreeAs(i, tree, Todo')
          OBVIOUS
        <4>1. \A p \in TouchedBy(patch[i]) : tree[p] = cm.base[p]
          BY EntryReadAlike DEF Pristine, Reads
        <4>2. Parsed(patch[i]).renames => MoveOp(i) \in Planned(i)
          BY <2>1, EntryShape DEF RenameShape
        <4> QED
          BY <2>6, <4>1, <4>2 DEF TreeAs
      <3> QED
        BY <1>1, <3>1, SameTarget DEF TreeInv, Touched, Pristine, TreeAs
    <2>8. \A p \in Submodules :
            ~(\E op \in Todo' : op.phase = "submodule" /\ op.path = p) => cm.base[p] = Target[p]
      <3> SUFFICES ASSUME NEW p \in Submodules, cm.base[p] # Target[p]
                   PROVE  \E op \in Todo' : op.phase = "submodule" /\ op.path = p
        OBVIOUS
      <3>1. p \in Touched
        <4>1. Types /\ Disjoint /\ cm.base \in [Paths -> FileOrNone] /\ Meant(cm.base, TRUE).ok
          BY DEF Ready, Proper, Disjoint, Types
        <4>2. p \in Paths
          BY DEF Submodules
        <4> QED
          BY <4>1, <4>2, MeantSplits DEF Target
      <3>2. PICK j \in DOMAIN patch : p \in TouchedBy(patch[j])
        BY <3>1 DEF Touched
      <3>3. OfSubmodule(patch[j])
        BY <3>2, EntryReadAlike DEF Reads, Plainly
      <3>4. PathOf(j) = p
        BY <3>2, <3>3, SubmoduleMeant
      <3>5. PICK op \in Planned(j) : SubmoduleOp(j, op)
        BY <2>6, <3>3, EntryReadAlike, PlannedAnyway DEF Planned
      <3> QED
        BY <2>6, <3>4, <3>5 DEF SubmoduleOp
    <2>9. IndexInv'
      BY <1>1, <2>8, SameTarget DEF IndexInv, Pristine, Plainly, Submodules
    <2>10. StageInv' /\ EmptyInv'
      <3>1. fuzzy'.applied = << >> /\ fuzzy'.failed = FALSE
        BY <2>3
      <3>2. ToSet(fuzzy'.applied) = {}
        BY <3>1, OneElement
      <3>3. Ranked(fuzzy'.applied, OnceGone')
        BY <3>1 DEF Ranked
      <3>4. StageInv'
        BY <3>2, <3>3 DEF StageInv
      <3>5. EmptyInv'
        BY <1>1, <2>6, <3>1, SameTarget DEF EmptyInv
      <3> QED
        BY <3>4, <3>5
    <2> QED
      BY <2>3, <2>5, <2>7, <2>9, <2>10 DEF Running
  <1> QED
    BY <1>2, <1>3

\* A file that is gone in the end was there, and one operation takes it away.
LEMMA GoneOnceOnly ==
    ASSUME Ready, NEW i \in DOMAIN patch, ~OfSubmodule(patch[i]), ~Breaks(i, cm.base),
           NEW op \in Planned(i), NEW p \in OpPaths(op), Target[p] = None
    PROVE  cm.base[p] # None /\ \A x \in Planned(i) : p \in OpPaths(x) => x = op
  <1>1. CASE ~Parsed(patch[i]).renames
    <2>1. PICK o : SingleShape(i, o)
      BY <1>1, EntryShape
    <2> QED
      BY <2>1 DEF SingleShape, OpPaths
  <1>2. CASE Parsed(patch[i]).renames
    <2>1. PICK old \in Paths, new \in Paths : RenameShape(i, old, new)
      BY <1>2, EntryShape
    <2>2. p = old
      BY <2>1 DEF RenameShape, OpPaths
    <2>3. \A x \in Planned(i) : old \in OpPaths(x) => x = MoveOp(i)
      BY <2>1 DEF RenameShape, OpPaths
    <2> QED
      BY <2>1, <2>2, <2>3 DEF RenameShape
  <1>3. Parsed(patch[i]).renames \in BOOLEAN
    BY EntryReadAlike DEF Reads
  <1> QED
    BY <1>1, <1>2, <1>3

\* What is left to do after an operation is another entry's, or later.
LEMMA TodoGoesOn ==
    ASSUME Types, TodoInv, NEW op, Doing(op), fuzzy'.todo = Tail(fuzzy.todo),
           patch' = patch, cm'.base = cm.base
    PROVE  /\ Todo' = Todo \ {op} /\ op \in Todo /\ fuzzy.todo # << >> /\ TodoInv'
  <1>1. /\ op = Head(fuzzy.todo) /\ fuzzy.todo # << >> /\ fuzzy.todo \in Seq(Ops)
    BY OpAtHand DEF Types
  <1>2. /\ ToSet(Tail(fuzzy.todo)) = Todo \ {op} /\ op \in Todo
        /\ Ranked(Tail(fuzzy.todo), Sooner)
    BY <1>1, HeadRanked DEF TodoInv, Todo
  <1>3. Todo' = Todo \ {op}
    BY <1>2 DEF Todo
  <1>4. TodoInv'
    BY <1>2, <1>3, SameTarget DEF TodoInv
  <1> QED
    BY <1>1, <1>2, <1>3, <1>4

\* What it writes, if it is not a submodule's: the paths to stage are its own.
LEMMA StagedLater ==
    ASSUME Ready, Running, NEW i \in DOMAIN patch, ~OfSubmodule(patch[i]), ~MakesEmpty(i),
           NEW op \in Planned(i), Doing(op), DoneWith(op),
           index' = index, patch' = patch, cm'.base = cm.base
    PROVE  StageInv'
  <1>1. Types /\ \A j \in DOMAIN patch : ~Breaks(j, cm.base)
    BY DEF Ready, Running, TodoInv
  <1>2. /\ Todo' = Todo \ {op} /\ op \in Todo /\ fuzzy.todo # << >>
        /\ fuzzy'.todo = Tail(fuzzy.todo)
    <2>1. fuzzy'.todo = Tail(fuzzy.todo)
      BY <1>1 DEF DoneWith, Types
    <2> QED
      BY <1>1, <2>1, TodoGoesOn DEF Running
  <1>3. /\ ToSet(fuzzy'.applied) = ToSet(fuzzy.applied) \cup OpPaths(op)
        /\ fuzzy.applied \in Seq(Paths) /\ op \in Ops
    BY <1>1, DoneTyped, OpAtHand DEF Types
  <1>4. OpPaths(op) \subseteq TouchedBy(patch[i]) /\ op.phase # "submodule"
    BY <1>1, OpsTouch
  <1>5. OpPaths(op) \subseteq Plainly \cap Touched
    BY <1>4, EntryReadAlike DEF Reads, Touched
  <1>6. ASSUME NEW p \in OpPaths(op), p \in Gone
        PROVE  index[p] # None /\ \A x \in Todo \ {op} : p \notin OpPaths(x)
    <2>1. /\ cm.base[p] # None
          /\ \A x \in Planned(i) : p \in OpPaths(x) => x = op
      BY <1>1, <1>6, GoneOnceOnly DEF Gone
    <2>2. index[p] = cm.base[p]
      BY <1>2, <1>5 DEF Running, IndexInv
    <2>3. \A x \in Todo \ {op} : p \notin OpPaths(x)
      <3> SUFFICES ASSUME NEW x \in Todo, x # op, p \in OpPaths(x) PROVE FALSE
        OBVIOUS
      <3>1. PICK j \in DOMAIN patch : x \in Planned(j)
        BY DEF Running, TodoInv
      <3>2. i # j
        BY <2>1, <3>1
      <3> QED
        BY <1>1, <3>1, <3>2, OpsApart
    <2> QED
      BY <2>1, <2>2, <2>3
  <1>7. ASSUME NEW p \in OpPaths(op), NEW j \in DOMAIN patch, MakesEmpty(j)
        PROVE  p # PathOf(j)
    <2>1. j # i
      BY <1>7
    <2>2. TouchedBy(patch[i]) \cap TouchedBy(patch[j]) = {}
      BY <2>1 DEF Ready, Proper
    <2>3. PathOf(j) \in TouchedBy(patch[j])
      BY EntryReadAlike DEF Reads, PathOf
    <2> QED
      BY <1>4, <2>2, <2>3
  <1>8. ASSUME NEW p \in ToSet(fuzzy.applied)
        PROVE  /\ p \in Plainly \cap Touched
               /\ p \in Gone => index[p] # None /\ \A x \in Todo : p \notin OpPaths(x)
               /\ \A j \in DOMAIN patch : MakesEmpty(j) => p # PathOf(j)
    BY DEF Running, StageInv
  <1>9. Gone' = Gone /\ OnceGone' = OnceGone /\ Touched' = Touched
    <2>1. Gone' = Gone /\ Touched' = Touched
      BY SameTarget DEF Gone, Plainly, Submodules, Touched
    <2> QED
      BY <2>1 DEF OnceGone
  <1>10. ASSUME NEW p \in ToSet(fuzzy'.applied)
         PROVE  /\ p \in Plainly \cap Touched
                /\ p \in Gone => index[p] # None /\ \A x \in Todo' : p \notin OpPaths(x)
                /\ \A j \in DOMAIN patch : MakesEmpty(j) => p # PathOf(j)
    <2>1. CASE p \in ToSet(fuzzy.applied)
      BY <1>2, <1>8, <2>1
    <2>2. CASE p \in OpPaths(op)
      BY <1>2, <1>5, <1>6, <1>7, <2>2
    <2> QED
      BY <1>3, <2>1, <2>2
  <1>11. Ranked(fuzzy'.applied, OnceGone)
    <2>1. \A p \in ToSet(fuzzy.applied), q \in OpPaths(op) : <<p, q>> \in OnceGone
      BY <1>2, <1>5, <1>8 DEF OnceGone, Plainly
    <2>2. CASE op.phase = "move"
      <3> DEFINE t == <<op.from, op.path>>
      <3>1. t \in Seq(Paths) /\ ToSet(t) = OpPaths(op)
        <4>1. op.from \in Paths /\ op.path \in Paths
          BY <1>3, <2>2 DEF Ops
        <4> QED
          BY <2>2, <4>1 DEF ToSet, OpPaths
      <3>2. op.from # op.path /\ op.from \in Paths /\ op.path \in Paths
        <4>1. Parsed(patch[i]).renames
          <5>1. Parsed(patch[i]).renames \in BOOLEAN
            BY EntryReadAlike DEF Reads
          <5>2. ~Parsed(patch[i]).renames => op.phase # "move"
            BY <1>1, EntryShape DEF SingleShape
          <5> QED
            BY <2>2, <5>1, <5>2
        <4>2. PICK old \in Paths, new \in Paths : RenameShape(i, old, new)
          BY <1>1, <4>1, EntryShape
        <4> QED
          BY <2>2, <4>2 DEF RenameShape
      <3>3. Ranked(t, OnceGone)
        <4>1. <<t[1], t[2]>> \in OnceGone /\ DOMAIN t = {1, 2}
          BY <3>2 DEF OnceGone
        <4> QED
          BY <4>1 DEF Ranked
      <3>4. fuzzy'.applied = fuzzy.applied \o t
        BY <1>1, <2>2 DEF DoneWith, Types
      <3> HIDE DEF t
      <3> QED
        BY <1>3, <2>1, <3>1, <3>3, <3>4, ConcatRanked DEF Running, StageInv
    <2>3. CASE op.phase # "move"
      <3> DEFINE t == <<op.path>>
      <3>1. t \in Seq(Paths) /\ ToSet(t) = OpPaths(op) /\ op.path \in Paths
        BY <1>3, <1>4, <2>3, OneElement DEF OpPaths, Ops
      <3>2. Ranked(t, OnceGone)
        BY DEF Ranked
      <3>3. fuzzy'.applied = fuzzy.applied \o t
        <4>1. fuzzy'.applied = Append(fuzzy.applied, op.path)
          BY <1>1, <1>4, <2>3 DEF DoneWith, Types
        <4>2. \A s \in Seq(Paths) : s \o <<op.path>> = Append(s, op.path)
          BY <3>1
        <4> QED
          BY <1>3, <4>1, <4>2
      <3> HIDE DEF t
      <3> QED
        BY <1>3, <2>1, <3>1, <3>2, <3>3, ConcatRanked DEF Running, StageInv
    <2> QED
      BY <2>2, <2>3
  <1>12. \A j : MakesEmpty(j)' = MakesEmpty(j) /\ PathOf(j)' = PathOf(j)
    BY SameTarget
  <1>13. Plainly' = Plainly
    BY DEF Plainly, Submodules
  <1> QED
    BY <1>9, <1>10, <1>11, <1>12, <1>13 DEF StageInv

\* An operation that is done leaves the run as far as it has got.
LEMMA PerformRuns ==
    ASSUME Ready, Homed, Running, NEW op, Doing(op), Possible(op), Writes(op),
           DoneWith(op), patch' = patch, cm'.base = cm.base
    PROVE  Running'
  <1>1. Types /\ \A j \in DOMAIN patch : ~Breaks(j, cm.base)
    BY DEF Ready, Running, TodoInv
  <1>2. fuzzy'.todo = Tail(fuzzy.todo) /\ fuzzy'.failed = fuzzy.failed
    BY <1>1 DEF DoneWith, Types
  <1>3. Todo' = Todo \ {op} /\ op \in Todo /\ fuzzy.todo # << >> /\ TodoInv'
    BY <1>1, <1>2, TodoGoesOn DEF Running
  <1>4. PICK i \in DOMAIN patch : op \in Planned(i)
    BY <1>3 DEF Running, TodoInv
  <1>5. /\ Plainly' = Plainly /\ Submodules' = Submodules /\ Touched' = Touched
        /\ \A p \in Plainly : index[p] = cm.base[p]
    BY <1>3 DEF Plainly, Submodules, Touched, Running, IndexInv
  <1>6. /\ \A p \in Paths \ OpPaths(op) : tree'[p] = tree[p]
        /\ \A p \in Plainly : index'[p] = index[p]
        /\ OpPaths(op) \subseteq TouchedBy(patch[i])
        /\ OfSubmodule(patch[i]) <=> op.phase = "submodule"
    BY <1>1, <1>4, WriteTyped, OpsTouch DEF Writes, Plainly
  <1>7. \A j \in DOMAIN patch : j # i => op \notin Planned(j)
    BY <1>1, <1>4, OpsApart
  <1>8. ASSUME NEW j \in DOMAIN patch, ~OfSubmodule(patch[j]), j # i
        PROVE  TreeAs(j, tree', Todo \ {op})
    <2>1. TouchedBy(patch[j]) \cap TouchedBy(patch[i]) = {} /\ TouchedBy(patch[j]) \subseteq Paths
      <3>1. TouchedBy(patch[j]) \cap TouchedBy(patch[i]) = {}
        BY <1>8 DEF Ready, Proper
      <3>2. TouchedBy(patch[j]) \subseteq Paths
        BY EntryReadAlike DEF Reads
      <3> QED
        BY <3>1, <3>2
    <2>2. \A p \in TouchedBy(patch[j]) : tree'[p] = tree[p]
      BY <1>6, <2>1
    <2> QED
      BY <1>1, <1>7, <1>8, <2>2, OthersStay DEF Running, TreeInv
  <1>9. ASSUME \A j \in DOMAIN patch : ~OfSubmodule(patch[j]) => TreeAs(j, tree', Todo \ {op})
        PROVE  TreeInv'
    <2>1. \A p \in Plainly \ Touched : tree'[p] = cm.base[p]
      BY <1>4, <1>6 DEF Running, TreeInv, Touched, Plainly
    <2> QED
      BY <1>3, <1>5, <1>9, <2>1, SameTarget DEF TreeInv, TreeAs
  <1>10. ASSUME ~MakesEmpty(i)
         PROVE  EmptyInv'
    <2>1. \A j \in DOMAIN patch : MakesEmpty(j) => fuzzy.failed \/ Planned(j) \subseteq Todo \ {op}
      BY <1>7, <1>10 DEF Running, EmptyInv
    <2> QED
      BY <1>2, <1>3, <2>1, SameTarget DEF Running, EmptyInv
  <1>11. CASE OfSubmodule(patch[i])
    <2>1. /\ PathOf(i) \in Submodules /\ TouchedBy(patch[i]) = {PathOf(i)} /\ op.path = PathOf(i)
          /\ Target[PathOf(i)] = IF op.text = << >> THEN None ELSE File(Gitlink, op.text)
          /\ \A x \in Planned(i) : x = op
          /\ ~MakesEmpty(i) /\ op.phase = "submodule"
      BY <1>4, <1>6, <1>11, SubmoduleMeant, EntryReadAlike, PlannedAnyway, ZenonT(60)
         DEF Planned, SubmoduleOp, MakesEmpty
    <2>2. /\ index' = [index EXCEPT ![PathOf(i)] = Target[PathOf(i)]] /\ tree' = tree
      BY <2>1 DEF Writes, Move, Write, Delete, Chmod, Submodule
    <2>3. fuzzy'.applied = fuzzy.applied
      BY <1>1, <2>1 DEF DoneWith, Types
    <2>4. TreeInv'
      BY <1>8, <1>9, <1>11
    <2>5. \A x \in Todo : x.phase = "submodule" /\ x.path = PathOf(i) => x = op
      <3> SUFFICES ASSUME NEW x \in Todo, x.phase = "submodule", x.path = PathOf(i)
                   PROVE  x = op
        OBVIOUS
      <3>1. PICK j \in DOMAIN patch : x \in Planned(j)
        BY DEF Running, TodoInv
      <3>2. PathOf(i) \in TouchedBy(patch[j])
        BY <1>1, <3>1, OpsTouch
      <3>3. j = i
        BY <2>1, <3>2 DEF Ready, Proper
      <3> QED
        BY <2>1, <3>1, <3>3
    <2>6. ASSUME NEW p \in Submodules
          PROVE  index'[p] = IF \E x \in Todo' : x.phase = "submodule" /\ x.path = p
                             THEN cm.base[p] ELSE Target[p]
      <3>1. CASE p = PathOf(i)
        <4>1. index'[p] = Target[p]
          BY <1>1, <2>2, <3>1 DEF Types, Submodules
        <4> QED
          BY <1>3, <2>5, <3>1, <4>1
      <3>2. CASE p # PathOf(i)
        <4>1. index'[p] = index[p]
          BY <1>1, <2>2, <3>2 DEF Types, Submodules
        <4>2. (\E x \in Todo' : x.phase = "submodule" /\ x.path = p)
              <=> \E x \in Todo : x.phase = "submodule" /\ x.path = p
          BY <1>3, <2>1, <3>2
        <4> QED
          BY <4>1, <4>2 DEF Running, IndexInv
      <3> QED
        BY <3>1, <3>2
    <2>7. IndexInv'
      BY <1>5, <1>6, <2>6, SameTarget DEF IndexInv
    <2>8. StageInv'
      <3>1. Gone' = Gone /\ OnceGone' = OnceGone
        <4>1. Gone' = Gone
          BY <1>5, SameTarget DEF Gone
        <4> QED
          BY <4>1 DEF OnceGone
      <3>2. \A p \in ToSet(fuzzy.applied) :
              /\ p \in Plainly \cap Touched
              /\ p \in Gone => index'[p] # None /\ \A x \in Todo' : p \notin OpPaths(x)
              /\ \A j \in DOMAIN patch : MakesEmpty(j) => p # PathOf(j)
        BY <1>3, <1>6 DEF Running, StageInv
      <3> QED
        BY <1>5, <2>3, <3>1, <3>2, SameTarget DEF Running, StageInv
    <2> QED
      BY <1>3, <1>10, <2>1, <2>4, <2>7, <2>8 DEF Running
  <1>12. CASE ~OfSubmodule(patch[i])
    <2>1. /\ ~MakesEmpty(i) /\ index' = index /\ TreeAs(i, tree', Todo \ {op})
      BY <1>1, <1>4, <1>12, EntryComesOn DEF Running, TodoInv, TreeInv
    <2>2. TreeInv'
      BY <1>8, <1>9, <2>1
    <2>3. IndexInv'
      <3>1. \A p \in Submodules :
              (\E x \in Todo' : x.phase = "submodule" /\ x.path = p)
              <=> \E x \in Todo : x.phase = "submodule" /\ x.path = p
        BY <1>3, <1>6, <1>12
      <3> QED
        BY <1>5, <2>1, <3>1, SameTarget DEF Running, IndexInv
    <2>4. StageInv'
      BY <1>4, <1>12, <2>1, StagedLater
    <2> QED
      BY <1>3, <1>10, <2>1, <2>2, <2>3, <2>4 DEF Running
  <1> QED
    BY <1>11, <1>12

\* An operation that is not done is one that was to make an empty file.
LEMMA StumbleRuns ==
    ASSUME Ready, Homed, Running, Stumble, faults' = faults, cm'.base = cm.base
    PROVE  fuzzy'.stage = "doing" /\ Running'
  <1>1. PICK op \in ToSet(fuzzy.todo) :
          /\ Doing(op) /\ ~Possible(op)
          /\ fuzzy' = IF op.phase \in {"chmod", "submodule"}
                      THEN [fuzzy EXCEPT !.todo = Tail(@), !.failed = TRUE]
                      ELSE [fuzzy EXCEPT !.stage = "crashed"]
          /\ UNCHANGED <<tree, index, patch>>
    BY StumbleIs DEF Ready
  <1>2. Types /\ \A j \in DOMAIN patch : ~Breaks(j, cm.base)
    BY DEF Ready, Running, TodoInv
  <1>3. ~Possible(op)
    BY <1>1
  <1>4. PICK i \in DOMAIN patch : op \in Planned(i)
    BY DEF Running, TodoInv, Todo
  <1>5. ~OfSubmodule(patch[i]) /\ op.phase # "submodule"
    <2>1. op.phase # "submodule"
      BY <1>3 DEF Possible
    <2> QED
      BY <1>2, <1>4, <2>1, OpsTouch
  <1>6. MakesEmpty(i) /\ op.phase = "chmod" /\ TreeAs(i, tree, Todo)
    BY <1>1, <1>2, <1>3, <1>4, <1>5, EntryComesOn DEF Running, TodoInv, TreeInv
  <1>7. /\ fuzzy'.todo = Tail(fuzzy.todo) /\ fuzzy'.failed = TRUE
        /\ fuzzy'.applied = fuzzy.applied /\ fuzzy'.stage = "doing"
    BY <1>1, <1>2, <1>6 DEF Types, Doing, At
  <1>8. Todo' = Todo \ {op} /\ op \in Todo /\ fuzzy.todo # << >> /\ TodoInv'
    BY <1>1, <1>2, <1>7, TodoGoesOn DEF Running
  <1>9. /\ Plainly' = Plainly /\ Submodules' = Submodules /\ Touched' = Touched
        /\ Gone' = Gone /\ OnceGone' = OnceGone
    <2>1. Plainly' = Plainly /\ Submodules' = Submodules /\ Touched' = Touched
      BY <1>1 DEF Plainly, Submodules, Touched
    <2>2. Gone' = Gone
      BY <1>1, <2>1, SameTarget DEF Gone
    <2> QED
      BY <2>1, <2>2 DEF OnceGone
  <1>10. ASSUME NEW j \in DOMAIN patch, ~OfSubmodule(patch[j])
         PROVE  TreeAs(j, tree, Todo \ {op})
    <2>1. TreeAs(j, tree, Todo)
      BY <1>10 DEF Running, TreeInv
    <2>2. CASE j = i
      <3>1. ~Parsed(patch[i]).renames
        BY <1>6, EntryReadAlike, KindIs DEF MakesEmpty
      <3> QED
        BY <1>6, <2>2, <3>1 DEF TreeAs
    <2>3. CASE j # i
      <3>1. op \notin Planned(j)
        BY <1>2, <1>4, <2>3, OpsApart
      <3> QED
        BY <1>2, <1>10, <2>1, <3>1, OthersStay
    <2> QED
      BY <2>2, <2>3
  <1>11. TreeInv'
    BY <1>1, <1>8, <1>9, <1>10, SameTarget DEF Running, TreeInv, TreeAs
  <1>12. IndexInv'
    <2>1. \A p \in Submodules :
            (\E x \in Todo' : x.phase = "submodule" /\ x.path = p)
            <=> \E x \in Todo : x.phase = "submodule" /\ x.path = p
      BY <1>5, <1>8
    <2>2. \A p \in Plainly : index[p] = cm.base[p]
      BY <1>8 DEF Running, IndexInv
    <2> QED
      BY <1>1, <1>9, <2>1, <2>2, SameTarget DEF Running, IndexInv
  <1>13. StageInv'
    <2>1. \A p \in ToSet(fuzzy.applied) :
            /\ p \in Plainly \cap Touched
            /\ p \in Gone => index[p] # None /\ \A x \in Todo' : p \notin OpPaths(x)
            /\ \A j \in DOMAIN patch : MakesEmpty(j) => p # PathOf(j)
      BY <1>8 DEF Running, StageInv
    <2> QED
      BY <1>1, <1>7, <1>9, <2>1, SameTarget DEF Running, StageInv
  <1>14. EmptyInv'
    BY <1>1, <1>6, <1>7, SameTarget DEF EmptyInv
  <1> QED
    BY <1>7, <1>8, <1>11, <1>12, <1>13, <1>14 DEF Running

\* When all is done, the tree is what is meant but for the empty files.
LEMMA AllDone ==
    ASSUME Ready, Running, fuzzy.todo = << >>, NEW p \in Plainly
    PROVE  \/ tree[p] = Target[p]
           \/ \E i \in DOMAIN patch : MakesEmpty(i) /\ PathOf(i) = p
  <1>1. /\ Types /\ Disjoint /\ cm.base \in [Paths -> FileOrNone] /\ Meant(cm.base, TRUE).ok
        /\ \A j \in DOMAIN patch : ~Breaks(j, cm.base)
    BY DEF Ready, Proper, Disjoint, Types, Running, TodoInv
  <1>2. CASE p \notin Touched
    BY <1>1, <1>2, MeantSplits, ZenonT(60) DEF Target, Plainly, Running, TreeInv
  <1>3. CASE p \in Touched
    <2>1. PICK i \in DOMAIN patch : p \in TouchedBy(patch[i])
      BY <1>3 DEF Touched
    <2>2. ~OfSubmodule(patch[i])
      BY <2>1, SubmoduleMeant DEF Plainly
    <2>3. Todo = {}
      BY OneElement DEF Todo
    <2>4. CASE ~MakesEmpty(i)
      BY <2>1, <2>2, <2>3, <2>4 DEF Running, TreeInv, TreeAs
    <2>5. CASE MakesEmpty(i)
      <3>1. ~Parsed(patch[i]).renames
        BY <2>5, EntryReadAlike, KindIs DEF MakesEmpty
      <3>2. TouchedBy(patch[i]) = {PathOf(i)}
        BY <1>1, <2>2, <3>1, EntryShape DEF SingleShape
      <3> QED
        BY <2>1, <2>5, <3>2
    <2> QED
      BY <2>4, <2>5
  <1> QED
    BY <1>2, <1>3

\* Everything is staged: no path of the list matches nothing.
LEMMA AddRuns ==
    ASSUME Ready, Running, Add, faults' = faults, cm'.base = cm.base
    PROVE  fuzzy'.stage = "doing" /\ Running'
  <1> DEFINE path == Head(fuzzy.applied)
             known == tree[path] # None \/ index[path] # None
  <1>1. /\ At("doing") /\ fuzzy.todo = << >> /\ fuzzy.applied # << >>
        /\ UNCHANGED <<tree, patch>>
        /\ \/ /\ known
              /\ index' = [index EXCEPT ![path] = tree[path]]
              /\ fuzzy' = [fuzzy EXCEPT !.applied = Tail(@)]
           \/ known => faults < MaxFaults /\ faults' = faults + 1
    BY DEF Add
  <1>2. /\ Types /\ fuzzy.applied \in Seq(Paths) /\ faults \in Nat
        /\ \A j \in DOMAIN patch : ~Breaks(j, cm.base)
    BY CommitteAssumption DEF Ready, Types, Running, TodoInv
  <1>3. /\ path \in Paths /\ path \in ToSet(fuzzy.applied)
        /\ ToSet(fuzzy.applied) = {path} \cup ToSet(Tail(fuzzy.applied))
        /\ Tail(fuzzy.applied) \in Seq(Paths)
    BY <1>1, <1>2, FirstAndRest
  <1>4. /\ Ranked(Tail(fuzzy.applied), OnceGone)
        /\ \A p \in ToSet(Tail(fuzzy.applied)) : <<path, p>> \in OnceGone
    BY <1>1, <1>2, TailRanked DEF Running, StageInv
  <1> HIDE DEF path
  <1>5. /\ path \in Plainly \cap Touched
        /\ path \in Gone => index[path] # None
        /\ \A i \in DOMAIN patch : MakesEmpty(i) => path # PathOf(i)
    BY <1>3 DEF Running, StageInv
  <1>6. tree[path] = Target[path]
    BY <1>1, <1>5, AllDone
  <1>7. known
    BY <1>5, <1>6 DEF Gone
  <1>8. /\ index' = [index EXCEPT ![path] = tree[path]]
        /\ fuzzy' = [fuzzy EXCEPT !.applied = Tail(@)]
    BY <1>1, <1>2, <1>7
  <1>9. /\ fuzzy'.todo = fuzzy.todo /\ fuzzy'.stage = "doing" /\ fuzzy'.failed = fuzzy.failed
        /\ fuzzy'.applied = Tail(fuzzy.applied)
    BY <1>1, <1>2, <1>8 DEF Types, At
  <1>10. /\ Plainly' = Plainly /\ Submodules' = Submodules /\ Touched' = Touched
         /\ Gone' = Gone /\ OnceGone' = OnceGone /\ Todo' = Todo
    <2>1. Plainly' = Plainly /\ Submodules' = Submodules /\ Touched' = Touched /\ Todo' = Todo
      BY <1>1, <1>9 DEF Plainly, Submodules, Touched, Todo
    <2>2. Gone' = Gone
      BY <1>1, <2>1, SameTarget DEF Gone
    <2> QED
      BY <2>1, <2>2 DEF OnceGone
  <1>11. TodoInv' /\ TreeInv' /\ EmptyInv'
    BY <1>1, <1>9, <1>10, SameTarget DEF Running, TodoInv, TreeInv, TreeAs, EmptyInv
  <1>12. /\ index'[path] = tree[path]
         /\ \A p \in Paths : p # path => index'[p] = index[p]
    BY <1>2, <1>3, <1>8 DEF Types
  <1>13. IndexInv'
    <2>1. \A p \in Plainly : index'[p] = cm.base[p] \/ index'[p] = tree[p]
      BY <1>12 DEF Running, IndexInv, Plainly
    <2>2. \A p \in Submodules : index'[p] = index[p]
      BY <1>5, <1>12 DEF Plainly, Submodules
    <2> QED
      BY <1>1, <1>9, <1>10, <2>1, <2>2, SameTarget DEF Running, IndexInv
  <1>14. StageInv'
    <2>1. ASSUME NEW p \in ToSet(Tail(fuzzy.applied))
          PROVE  /\ p \in Plainly \cap Touched
                 /\ p \in Gone => index'[p] # None /\ \A x \in Todo : p \notin OpPaths(x)
                 /\ \A j \in DOMAIN patch : MakesEmpty(j) => p # PathOf(j)
      <3>1. /\ p \in Plainly \cap Touched
            /\ p \in Gone => index[p] # None /\ \A x \in Todo : p \notin OpPaths(x)
            /\ \A j \in DOMAIN patch : MakesEmpty(j) => p # PathOf(j)
        BY <1>3 DEF Running, StageInv
      <3>2. p \in Gone => p # path
        BY <1>4 DEF OnceGone
      <3> QED
        BY <1>12, <3>1, <3>2 DEF Plainly
    <2> QED
      BY <1>1, <1>4, <1>9, <1>10, <2>1, SameTarget DEF StageInv
  <1> QED
    BY <1>9, <1>11, <1>13, <1>14 DEF Running

----------------------------------------------------------------------------
\* An empty file was to be made and has not been, which cannot be mended: git
\* apply takes the patch no more.
Missing(i) ==
    MakesEmpty(i) /\ tree[PathOf(i)] = None /\ index[PathOf(i)] = None

\* No try can do it any more.
Spoilt == Refused /\ \E i \in DOMAIN patch : Missing(i)

\* While git-apply-fuzzy tries again it fails again, for it can only change the
\* mode of that file.
Futile(i) ==
    /\ Missing(i) /\ PathOf(i) \notin ToSet(fuzzy.applied)
    /\ \A op \in Todo : PathOf(i) \in OpPaths(op) => op.phase = "chmod"
    /\ fuzzy.failed \/ \E op \in Todo : op.phase = "chmod" /\ op.path = PathOf(i)

Stuck ==
    /\ Refused
    /\ \A op \in Todo : op.phase = "submodule" =>
          \E j \in DOMAIN patch : OfSubmodule(patch[j]) /\ SubmoduleOp(j, op)
    /\ \E i \in DOMAIN patch : Futile(i)

\* The path of an empty file is one there is nothing at.
LEMMA EmptyPath ==
    ASSUME Ready, NEW i \in DOMAIN patch, MakesEmpty(i)
    PROVE  PathOf(i) \in Plainly /\ TouchedBy(patch[i]) = {PathOf(i)} /\ cm.base[PathOf(i)] = None
  <1>1. ~Parsed(patch[i]).renames /\ ~OfSubmodule(patch[i]) /\ Creates(patch[i])
    BY EntryReadAlike, KindIs DEF MakesEmpty
  <1>2. /\ PathOf(i) \in Plainly /\ TouchedBy(patch[i]) = {PathOf(i)}
        /\ PathOf(i) = GitNames(patch[i]).old /\ PathOf(i) # None
    BY <1>1, EntryReadAlike, CommitteAssumption DEF Reads, PathOf
  <1>3. Fits(cm.base, i, TRUE)
    BY EntryReadAlike DEF Means
  <1>4. cm.base[PathOf(i)] = None
    BY <1>1, <1>2, <1>3 DEF Fits
  <1> QED
    BY <1>2, <1>4

\* At its end the index is what is meant, unless an empty file is missing.
LEMMA ExitRuns ==
    ASSUME Ready, Running, Exit, Refusable, cm'.base = cm.base,
           fuzzy'.stage = "ok" => \A p \in Plainly : tree[p] = index[p]
    PROVE  \/ fuzzy'.stage = "ok" /\ index' = Target'
           \/ fuzzy'.stage = "failed" /\ Spoilt'
  <1>1. /\ fuzzy.todo = << >> /\ UNCHANGED <<tree, index, patch>>
        /\ fuzzy'.stage = IF fuzzy.failed THEN "failed" ELSE "ok"
    BY DEF Exit, Goto, Ready, Types
  <1>2. Todo = {}
    BY <1>1, OneElement DEF Todo
  <1>3. ASSUME NEW p \in Submodules
        PROVE  index[p] = Target[p]
    BY <1>2 DEF Running, IndexInv
  <1>4. CASE fuzzy.failed
    <2>1. PICK i \in DOMAIN patch : MakesEmpty(i)
      BY <1>4 DEF Running, EmptyInv
    <2>2. TreeAs(i, tree, Todo)
      BY <2>1 DEF Running, TreeInv, MakesEmpty
    <2>3. tree[PathOf(i)] = None /\ index[PathOf(i)] = None
      BY <2>1, <2>2, EmptyPath DEF Running, IndexInv, TreeAs
    <2>4. Refused
      <3>1. CASE Drifting
        BY <3>1 DEF Refused
      <3>2. CASE ~Drifting
        <4>1. PICK j \in DOMAIN patch : OfSubmodule(patch[j])
          BY <3>2 DEF Refusable
        <4>2. Creates(patch[j]) <=> index[PathOf(j)] # None
          BY <1>3, <4>1, SubmoduleMeant
        <4> QED
          BY <4>1, <4>2 DEF Refused
      <3> QED
        BY <3>1, <3>2
    <2>5. Refused' /\ Missing(i)'
      BY <1>1, <2>1, <2>3, <2>4, SameTarget DEF Refused, Missing
    <2> QED
      BY <1>1, <1>4, <2>5 DEF Spoilt
  <1>5. CASE ~fuzzy.failed
    <2>1. \A i \in DOMAIN patch : ~MakesEmpty(i)
      <3> SUFFICES ASSUME NEW i \in DOMAIN patch, MakesEmpty(i) PROVE FALSE
        OBVIOUS
      <3>1. Planned(i) = {}
        BY <1>2, <1>5 DEF Running, EmptyInv
      <3> QED
        BY <3>1, EntryReadAlike, PlannedAnyway DEF Planned
    <2>2. \A p \in Plainly : index[p] = Target[p]
      BY <1>1, <1>5, <2>1, AllDone
    <2>3. \A p \in Paths : index[p] = Target[p]
      BY <1>3, <2>2 DEF Plainly
    <2>4. index \in [Paths -> FileOrNone] /\ Target \in [Paths -> FileOrNone]
      <3>1. Types /\ cm.base \in [Paths -> FileOrNone]
        BY DEF Ready, Types
      <3>2. Meant(cm.base, TRUE) \in Applying
        BY <3>1, MeantTyped
      <3> QED
        BY <3>1, <3>2 DEF Types, Target, Applying
    <2>5. index = Target
      BY <2>3, <2>4
    <2> QED
      BY <1>1, <1>5, <2>5, SameTarget
  <1>6. fuzzy.failed \in BOOLEAN
    BY DEF Ready, Types
  <1> QED
    BY <1>4, <1>5, <1>6

\* A try on a spoilt tree.
LEMMA PlanStuck ==
    ASSUME Ready, Spoilt, Plan, fuzzy = [NewFuzzy EXCEPT !.stage = "planning"],
           cm'.base = cm.base
    PROVE  \/ fuzzy'.stage \in {"crashed", "failed"} /\ Spoilt'
           \/ fuzzy'.stage = "doing" /\ Stuck'
  <1> DEFINE ops == FlattenSeq([i \in DOMAIN patch |-> OpsOf(Parsed(patch[i]), i, tree)])
             wrong == \E i \in DOMAIN patch : Wrong(i, tree)
             broken == \E i \in DOMAIN patch : Breaks(i, tree)
             O(i) == ToSet(OpsOf(Parsed(patch[i]), i, tree))
  <1>1. /\ fuzzy' =
             IF broken THEN [fuzzy EXCEPT !.stage = "crashed"]
             ELSE IF ~Gate(wrong) THEN [fuzzy EXCEPT !.stage = "failed"]
             ELSE [fuzzy EXCEPT !.stage = "doing", !.todo = Ordered(ops), !.failed = wrong]
        /\ UNCHANGED <<tree, index, patch, faults>>
    BY DEF Plan
  <1>2. Refused' = Refused /\ \A i : Missing(i)' = Missing(i)
    BY <1>1, SameTarget DEF Refused, Missing
  <1>3. CASE broken \/ ~Gate(wrong)
    <2>1. fuzzy'.stage \in {"crashed", "failed"}
      BY <1>1, <1>3 DEF NewFuzzy
    <2>2. Spoilt'
      BY <1>1, <1>2 DEF Spoilt
    <2> QED
      BY <2>1, <2>2
  <1>4. CASE ~broken /\ Gate(wrong)
    <2>1. /\ fuzzy'.stage = "doing" /\ fuzzy'.todo = Ordered(ops) /\ fuzzy'.applied = << >>
      <3> HIDE DEF ops, wrong
      <3> QED
        BY <1>1, <1>4 DEF NewFuzzy
    <2>2. /\ ToSet(Ordered(ops)) = UNION {O(i) : i \in DOMAIN patch}
      BY <1>4, PlannedSet DEF Ready
    <2> HIDE DEF ops, O
    <2>3. Todo' = UNION {O(i) : i \in DOMAIN patch}
      BY <2>1, <2>2 DEF Todo
    <2>4. \A op \in Todo' : op.phase = "submodule" =>
            \E j \in DOMAIN patch : OfSubmodule(patch[j]) /\ SubmoduleOp(j, op)
      <3> SUFFICES ASSUME NEW j \in DOMAIN patch, NEW op \in O(j), op.phase = "submodule"
                   PROVE  OfSubmodule(patch[j]) /\ SubmoduleOp(j, op)
        BY <2>3
      <3> QED
        BY EntryReadAlike, PlannedAnyway DEF O
    <2>5. PICK i \in DOMAIN patch : Missing(i)
      BY DEF Spoilt
    <2>6. O(i) = {Op("chmod", PathOf(i), patch[i].newMode, << >>)}
      BY <2>5, EntryReadAlike, PlannedAnyway DEF O, Missing
    <2>7. \E op \in Todo' : op.phase = "chmod" /\ op.path = PathOf(i)
      <3>1. Op("chmod", PathOf(i), patch[i].newMode, << >>) \in Todo'
        BY <2>3, <2>6
      <3> QED
        BY <3>1 DEF Op
    <2>8. ASSUME NEW op \in Todo', PathOf(i) \in OpPaths(op)
          PROVE  op.phase = "chmod"
      <3>1. PICK j \in DOMAIN patch : op \in O(j)
        BY <2>3
      <3>2. CASE j = i
        BY <2>6, <3>1, <3>2 DEF Op
      <3>3. CASE j # i
        <4>1. OpPaths(op) \subseteq FuzzyPaths(patch[j])
          <5>1. Types /\ tree \in [Paths -> FileOrNone]
            BY DEF Ready, Types
          <5>2. Kind(Parsed(patch[j]), j, tree) # "mismatch"
            BY <1>4 DEF Breaks
          <5> QED
            BY <3>1, <5>1, <5>2, EntryOps DEF O
        <4>2. FuzzyPaths(patch[j]) \subseteq TouchedBy(patch[j])
          BY PatchKeeps DEF Ready
        <4>3. TouchedBy(patch[j]) \cap TouchedBy(patch[i]) = {}
          BY <3>3 DEF Ready, Proper
        <4>4. PathOf(i) \in TouchedBy(patch[i])
          BY <2>5, EmptyPath DEF Missing
        <4> QED
          BY <2>8, <4>1, <4>2, <4>3, <4>4
      <3> QED
        BY <3>2, <3>3
    <2>9. ToSet(fuzzy'.applied) = {}
      BY <2>1, OneElement
    <2>10. Futile(i)'
      BY <1>1, <1>2, <2>5, <2>7, <2>8, <2>9, SameTarget DEF Futile
    <2>11. Stuck'
      BY <1>1, <1>2, <2>4, <2>10, SameTarget DEF Stuck, Spoilt, SubmoduleOp
    <2> QED
      BY <2>1, <2>11
  <1> QED
    BY <1>3, <1>4

\* git-apply-fuzzy writes no path there is a submodule at.
LEMMA PatchIsPlain ==
    ASSUME Types, Conventions
    PROVE  PatchPaths \subseteq Plainly
  <1> SUFFICES ASSUME NEW i \in DOMAIN patch, NEW p \in FuzzyPaths(patch[i])
               PROVE  p \in Plainly
    BY DEF PatchPaths
  <1>1. Known(patch[i]) /\ p \in TouchedBy(patch[i])
    BY PatchKeeps
  <1>2. p \in Paths
    BY <1>1, NamesTyped DEF TouchedBy
  <1>3. ~OfSubmodule(patch[i])
    <2>1. Named(Parsed(patch[i])).mode # Gitlink
      BY DEF FuzzyPaths
    <2> QED
      BY <1>1, <2>1, NamesTyped DEF OfSubmodule
  <1> QED
    BY <1>1, <1>2, <1>3, PatchKeeps DEF Plainly

\* A submodule made or removed once more makes git apply take the patch no sooner.
LEMMA RefusedStays ==
    ASSUME Ready, Stuck, NEW op, Doing(op), Possible(op), Writes(op),
           patch' = patch, cm'.base = cm.base
    PROVE  Refused'
  <1>1. Types /\ op \in Todo /\ op \in Ops
    BY OpAtHand DEF Ready, Todo
  <1>2. CASE Drifting
    BY <1>2, SameTarget DEF Refused
  <1>3. CASE ~Drifting
    <2>1. PICK j \in DOMAIN patch :
            OfSubmodule(patch[j]) /\ (Creates(patch[j]) <=> index[PathOf(j)] # None)
      BY <1>3 DEF Stuck, Refused
    <2>2. PathOf(j) \in Submodules /\ TouchedBy(patch[j]) = {PathOf(j)}
          /\ (Creates(patch[j]) <=> ~Deletes(patch[j]))
      BY <2>1, SubmoduleMeant
    <2>3. index'[PathOf(j)] = None <=> index[PathOf(j)] = None
      <3>1. CASE op.phase # "submodule"
        BY <3>1 DEF Writes, Move, Write, Delete, Chmod, Submodule
      <3>2. CASE op.phase = "submodule"
        <4>1. PICK k \in DOMAIN patch : OfSubmodule(patch[k]) /\ SubmoduleOp(k, op)
          BY <1>1, <3>2 DEF Stuck
        <4>2. /\ index' = [index EXCEPT ![op.path] =
                             IF op.text = << >> THEN None ELSE File(Gitlink, op.text)]
              /\ op.path = PathOf(k) /\ (op.text = << >> <=> Deletes(patch[k]))
          BY <3>2, <4>1 DEF Writes, Move, Write, Delete, Chmod, Submodule, SubmoduleOp
        <4>3. TouchedBy(patch[k]) = {PathOf(k)}
          BY <4>1, SubmoduleMeant
        <4>4. CASE k = j
          <5>1. File(Gitlink, op.text) # None
            <6>1. File(Gitlink, op.text) \in [mode : Modes, text : Seq(Nat)]
              BY <1>1 DEF Ops, File, Modes
            <6>2. \A file \in [mode : Modes, text : Seq(Nat)] : file # None
              BY CommitteAssumption
            <6> QED
              BY <6>1, <6>2
          <5>2. index'[PathOf(j)] = IF op.text = << >> THEN None ELSE File(Gitlink, op.text)
            BY <1>1, <2>2, <4>2, <4>4 DEF Types, Submodules
          <5> QED
            BY <2>1, <2>2, <4>2, <4>4, <5>1, <5>2
        <4>5. CASE k # j
          <5>1. PathOf(k) # PathOf(j)
            BY <2>2, <4>3, <4>5 DEF Ready, Proper
          <5> QED
            BY <1>1, <2>2, <4>2, <5>1 DEF Types, Submodules
        <4> QED
          BY <4>4, <4>5
      <3> QED
        BY <3>1, <3>2
    <2> QED
      BY <2>1, <2>3, SameTarget DEF Refused
  <1> QED
    BY <1>2, <1>3

\* No operation that can be done is about the file that is missing.
LEMMA PerformStuck ==
    ASSUME Ready, Stuck, NEW op, Doing(op), Possible(op), Writes(op), DoneWith(op),
           patch' = patch, cm'.base = cm.base
    PROVE  Stuck'
  <1>1. Types
    BY DEF Ready
  <1>2. /\ Todo = {op} \cup Todo'
        /\ ToSet(fuzzy'.applied) = ToSet(fuzzy.applied) \cup OpPaths(op)
        /\ fuzzy'.failed = fuzzy.failed
    <2>1. fuzzy'.todo = Tail(fuzzy.todo) /\ fuzzy'.failed = fuzzy.failed
      BY <1>1 DEF DoneWith, Types
    <2> QED
      BY <1>1, <2>1, OpAtHand, DoneTyped DEF Todo
  <1>3. PICK i \in DOMAIN patch : Futile(i)
    BY DEF Stuck
  <1>4. PathOf(i) \in Plainly
    BY <1>3, EmptyPath DEF Futile, Missing
  <1>5. PathOf(i) \notin OpPaths(op)
    <2> SUFFICES ASSUME PathOf(i) \in OpPaths(op) PROVE FALSE
      OBVIOUS
    <2>1. op.phase = "chmod"
      BY <1>2, <1>3 DEF Futile
    <2>2. op.path = PathOf(i)
      BY <2>1 DEF OpPaths
    <2> QED
      BY <1>3, <2>1, <2>2 DEF Futile, Missing, Possible
  <1>6. tree'[PathOf(i)] = None /\ index'[PathOf(i)] = None
    <2>1. tree'[PathOf(i)] = tree[PathOf(i)] /\ index'[PathOf(i)] = index[PathOf(i)]
      BY <1>1, <1>4, <1>5, WriteTyped DEF Writes, Plainly
    <2> QED
      BY <1>3, <2>1 DEF Futile, Missing
  <1>7. \A x \in Todo : x.phase = "chmod" /\ x.path = PathOf(i) => x \in Todo'
    <2>1. op.phase = "chmod" => op.path # PathOf(i)
      BY <1>5 DEF OpPaths
    <2> QED
      BY <1>2, <2>1
  <1>8. Futile(i)'
    BY <1>2, <1>3, <1>5, <1>6, <1>7, SameTarget DEF Futile, Missing
  <1>9. Refused'
    BY RefusedStays
  <1>10. \A x \in Todo' : x.phase = "submodule" =>
           \E j \in DOMAIN patch : OfSubmodule(patch[j]) /\ SubmoduleOp(j, x)
    BY <1>2 DEF Stuck
  <1> QED
    BY <1>8, <1>9, <1>10, SameTarget DEF Stuck, SubmoduleOp

\* An operation that is not possible changes nothing of that.
LEMMA StumbleStuck ==
    ASSUME Ready, Stuck, Stumble, faults' = faults, cm'.base = cm.base
    PROVE  \/ fuzzy'.stage = "crashed" /\ Spoilt'
           \/ fuzzy'.stage = "doing" /\ Stuck'
  <1>1. PICK op \in ToSet(fuzzy.todo) :
          /\ Doing(op)
          /\ fuzzy' = IF op.phase \in {"chmod", "submodule"}
                      THEN [fuzzy EXCEPT !.todo = Tail(@), !.failed = TRUE]
                      ELSE [fuzzy EXCEPT !.stage = "crashed"]
          /\ UNCHANGED <<tree, index, patch>>
    BY StumbleIs DEF Ready
  <1>2. Types
    BY DEF Ready
  <1>3. PICK i \in DOMAIN patch : Futile(i)
    BY DEF Stuck
  <1>4. Refused' /\ Missing(i)'
    BY <1>1, <1>3, SameTarget DEF Stuck, Refused, Futile, Missing
  <1>5. CASE op.phase \notin {"chmod", "submodule"}
    <2>1. fuzzy'.stage = "crashed"
      BY <1>1, <1>2, <1>5 DEF Types
    <2> QED
      BY <1>1, <1>4, <2>1 DEF Spoilt
  <1>6. CASE op.phase \in {"chmod", "submodule"}
    <2>1. /\ fuzzy'.todo = Tail(fuzzy.todo) /\ fuzzy'.failed = TRUE
          /\ fuzzy'.applied = fuzzy.applied /\ fuzzy'.stage = "doing"
      BY <1>1, <1>2, <1>6 DEF Types, Doing, At
    <2>2. Todo = {op} \cup Todo'
      BY <1>1, <1>2, <2>1, OpAtHand DEF Todo
    <2>3. Futile(i)'
      BY <1>1, <1>3, <1>4, <2>1, <2>2, SameTarget DEF Futile
    <2>4. \A x \in Todo' : x.phase = "submodule" =>
            \E j \in DOMAIN patch : OfSubmodule(patch[j]) /\ SubmoduleOp(j, x)
      BY <2>2 DEF Stuck
    <2> QED
      BY <1>1, <1>4, <2>1, <2>3, <2>4, SameTarget DEF Stuck, SubmoduleOp
  <1> QED
    BY <1>5, <1>6

\* What is staged is another path.
LEMMA AddStuck ==
    ASSUME Ready, Stuck, Add, ToSet(fuzzy.applied) \subseteq PatchPaths, cm'.base = cm.base
    PROVE  fuzzy'.stage = "doing" /\ Stuck'
  <1> DEFINE path == Head(fuzzy.applied)
  <1>1. /\ At("doing") /\ fuzzy.todo = << >> /\ fuzzy.applied # << >>
        /\ UNCHANGED <<tree, patch>>
        /\ \/ /\ index' = [index EXCEPT ![path] = tree[path]]
              /\ fuzzy' = [fuzzy EXCEPT !.applied = Tail(@)]
           \/ /\ fuzzy' = [fuzzy EXCEPT !.applied = Tail(@), !.failed = TRUE]
              /\ UNCHANGED index
    BY DEF Add
  <1>2. Types /\ Conventions
    BY DEF Ready
  <1>3. path \in ToSet(fuzzy.applied)
        /\ ToSet(fuzzy.applied) = {path} \cup ToSet(Tail(fuzzy.applied))
    BY <1>1, <1>2, FirstAndRest DEF Types
  <1> HIDE DEF path
  <1>4. path \in Plainly
    BY <1>2, <1>3, PatchIsPlain
  <1>5. /\ fuzzy'.stage = "doing" /\ fuzzy'.todo = fuzzy.todo
        /\ fuzzy'.applied = Tail(fuzzy.applied) /\ (fuzzy.failed => fuzzy'.failed)
    BY <1>1, <1>2 DEF Types, At
  <1>6. \A p \in Paths : p # path => index'[p] = index[p]
    BY <1>1, <1>2 DEF Types
  <1>7. Todo' = Todo
    BY <1>5 DEF Todo
  <1>8. PICK i \in DOMAIN patch : Futile(i)
    BY DEF Stuck
  <1>9. PathOf(i) \in Plainly /\ PathOf(i) # path
    BY <1>3, <1>8, EmptyPath DEF Futile, Missing
  <1>10. index'[PathOf(i)] = index[PathOf(i)]
    BY <1>6, <1>9 DEF Plainly
  <1>11. Futile(i)'
    BY <1>1, <1>3, <1>5, <1>7, <1>8, <1>10, SameTarget DEF Futile, Missing
  <1>12. Refused'
    <2>1. CASE Drifting
      BY <1>1, <2>1, SameTarget DEF Refused
    <2>2. CASE ~Drifting
      <3>1. PICK j \in DOMAIN patch :
              OfSubmodule(patch[j]) /\ (Creates(patch[j]) <=> index[PathOf(j)] # None)
        BY <2>2 DEF Stuck, Refused
      <3>2. PathOf(j) \in Submodules
        BY <3>1, SubmoduleMeant
      <3>3. index'[PathOf(j)] = index[PathOf(j)]
        BY <1>4, <1>6, <3>2 DEF Plainly, Submodules
      <3> QED
        BY <1>1, <3>1, <3>3, SameTarget DEF Refused
    <2> QED
      BY <2>1, <2>2
  <1>13. \A x \in Todo : x.phase = "submodule" =>
           \E j \in DOMAIN patch : OfSubmodule(patch[j]) /\ SubmoduleOp(j, x)
    BY DEF Stuck
  <1> QED
    BY <1>1, <1>5, <1>7, <1>11, <1>12, <1>13, SameTarget DEF Stuck, SubmoduleOp

\* So it fails again.
LEMMA ExitStuck ==
    ASSUME Ready, Stuck, Exit, cm'.base = cm.base
    PROVE  fuzzy'.stage = "failed" /\ Spoilt'
  <1>1. /\ fuzzy.todo = << >> /\ UNCHANGED <<tree, index, patch>>
        /\ fuzzy'.stage = IF fuzzy.failed THEN "failed" ELSE "ok"
    BY DEF Exit, Goto, Ready, Types
  <1>2. Todo = {}
    BY <1>1, OneElement DEF Todo
  <1>3. PICK i \in DOMAIN patch : Futile(i)
    BY DEF Stuck
  <1>4. fuzzy.failed
    BY <1>2, <1>3 DEF Futile
  <1>5. Refused' /\ Missing(i)'
    BY <1>1, <1>3, SameTarget DEF Stuck, Refused, Futile, Missing
  <1> QED
    BY <1>1, <1>4, <1>5 DEF Spoilt

----------------------------------------------------------------------------
\* Submodules stay where they are: neither program makes one, or moves one, to
\* where the patches have files.
LEMMA EntryLinkless ==
    ASSUME Types, Conventions, NEW i \in DOMAIN patch, NEW done \in Applying, NEW drift,
           Linkless(done.files)
    PROVE  Linkless(GitEntry(done, i, drift).files)
  <1> DEFINE h == patch[i]
             n == GitNames(h)
             file == done.files[n.old]
             after == After(done.files, i)
             next == [[done.files EXCEPT ![n.old] = None] EXCEPT ![n.new] = after]
  <1>1. /\ AsGitWrites(h) /\ Known(h)
        /\ ~OfSubmodule(h) => TouchedBy(h) \cap Submodules = {}
        /\ OfSubmodule(h) /\ PathOf(i) \in Paths => PathOf(i) \in Submodules
    BY PatchKeeps
  <1>2. done.files \in [Paths -> FileOrNone] /\ Gitlink # None
    BY CommitteAssumption DEF Applying, Modes
  <1>3. CASE ~(done.ok /\ Fits(done.files, i, drift))
    <2>1. GitEntry(done, i, drift) = [done EXCEPT !.ok = FALSE]
      BY <1>3, GitEntryIs
    <2>2. GitEntry(done, i, drift).files = done.files
      BY <2>1 DEF Applying
    <2> QED
      BY <2>2
  <1>4. CASE done.ok /\ Fits(done.files, i, drift)
    <2>1. GitEntry(done, i, drift).files = next
      BY <1>4, GitEntryIs
    <2>2. /\ n.old \in Paths /\ n.new \in Paths /\ TouchedBy(h) = {n.old, n.new}
          /\ IF Creates(h) THEN file = None ELSE file # None
          /\ h.hunks # "none" \/ h.newMode # None \/ n.new # n.old \/ Deletes(h)
      BY <1>1, <1>4, NamesTyped DEF Fits, TouchedBy
    <2>3. n.new \in Plainly /\ after # None => after.mode # Gitlink
      <3> SUFFICES ASSUME n.new \in Plainly, after # None PROVE after.mode # Gitlink
        OBVIOUS
      <3>1. ~Deletes(h)
        BY DEF After
      <3>2. ~OfSubmodule(h)
        <4> SUFFICES ASSUME OfSubmodule(h) PROVE FALSE
          OBVIOUS
        <4>1. Creates(h)
          BY <1>1, <1>2, <3>1 DEF AsGitWrites, OfSubmodule, Or
        <4>2. h.from = None
          BY <1>1, <4>1 DEF AsGitWrites, Creates
        <4>3. PathOf(i) = n.new
          <5>1. n.old # None /\ n.new # None
            BY <2>2, CommitteAssumption
          <5> QED
            BY <1>1, <2>2, <4>2, <5>1, NamesMeet DEF PathOf
        <4> QED
          BY <1>1, <2>2, <4>3 DEF Plainly
      <3>3. h.newMode # Gitlink
        BY <1>2, <3>2 DEF OfSubmodule, Or
      <3>4. ~Creates(h) => file # None /\ file.mode # Gitlink
        <4>1. n.old \in Plainly
          BY <1>1, <2>2, <3>2 DEF Plainly
        <4> QED
          BY <2>2, <4>1 DEF Linkless
      <3> QED
        BY <3>1, <3>3, <3>4 DEF After, File, Or
    <2>4. ASSUME NEW p \in Plainly, next[p] # None
          PROVE  next[p].mode # Gitlink
      <3>1. p \in Paths
        BY DEF Plainly
      <3> HIDE DEF n, after
      <3>2. next[p] = IF p = n.new THEN after ELSE IF p = n.old THEN None ELSE done.files[p]
        BY <1>2, <2>2, <3>1
      <3>3. CASE p = n.new
        BY <2>3, <2>4, <3>2, <3>3
      <3>4. CASE p # n.new
        BY <2>4, <3>2, <3>4 DEF Linkless
      <3> QED
        BY <3>3, <3>4
    <2> HIDE DEF next
    <2> QED
      BY <2>1, <2>4 DEF Linkless
  <1> QED
    BY <1>3, <1>4

\* So does all of a patch.
LEMMA MeantLinkless ==
    ASSUME Types, Conventions, NEW files \in [Paths -> FileOrNone], NEW drift, Linkless(files)
    PROVE  Linkless(Meant(files, drift).files)
  <1>1. PICK done :
          /\ done = [i \in 0..Len(patch) |->
                       IF i = 0 THEN [ok |-> TRUE, files |-> files]
                       ELSE GitEntry(done[i - 1], i, drift)]
          /\ Meant(files, drift) = done[Len(patch)]
    BY MeantIs
  <1> DEFINE Good(m) == done[m] \in Applying /\ Linkless(done[m].files)
             T == {m \in Nat : m \in 0..Len(patch) => Good(m)}
  <1>2. Len(patch) \in Nat /\ DOMAIN patch = 1..Len(patch)
    BY PatchFacts
  <1>3. 0 \in T
    <2>1. done[0] = [ok |-> TRUE, files |-> files]
      BY <1>1, <1>2
    <2>2. done[0] \in Applying /\ done[0].files = files
      BY <2>1 DEF Applying
    <2>3. Good(0)
      BY <2>2
    <2> HIDE DEF Good
    <2> QED
      BY <2>3
  <1>4. ASSUME NEW m \in T
        PROVE  m + 1 \in T
    <2> SUFFICES ASSUME m + 1 \in 0..Len(patch)
                 PROVE  Good(m + 1)
      OBVIOUS
    <2>1. m \in 0..Len(patch) /\ m + 1 \in DOMAIN patch /\ m + 1 # 0 /\ m + 1 - 1 = m
      BY <1>2
    <2>2. Good(m)
      BY <2>1
    <2>3. done[m + 1] = GitEntry(done[m], m + 1, drift)
      <3>1. \A i \in 0..Len(patch) :
              done[i] = IF i = 0 THEN [ok |-> TRUE, files |-> files]
                        ELSE GitEntry(done[i - 1], i, drift)
        BY <1>1
      <3> QED
        BY <2>1, <3>1
    <2> QED
      BY <2>1, <2>2, <2>3, EntryTyped, EntryLinkless
  <1>5. T = Nat
    <2>1. T \in SUBSET Nat
      OBVIOUS
    <2> HIDE DEF T
    <2> QED
      BY <1>3, <1>4, <2>1, Induction
  <1>6. Len(patch) \in T /\ Len(patch) \in 0..Len(patch)
    BY <1>2, <1>5
  <1> QED
    BY <1>1, <1>6

\* That is so of every tree there is, and of what git-apply-fuzzy has still to do.
LinkInv ==
    /\ Linkless(tree) /\ Linkless(index) /\ Linkless(head) /\ Linkless(cm.base)
    /\ \A op \in Todo : op.mode = Gitlink => op.phase = "submodule"

\* The constants do not change.
LEMMA SameLinks == Plainly' = Plainly /\ \A files : Linkless(files)' = Linkless(files)
  BY DEF Plainly, Submodules, Linkless

\* git apply keeps to it.
LEMMA GitApplyLinks ==
    ASSUME Types, Conventions, LinkInv, GitApply
    PROVE  LinkInv'
  <1> DEFINE staged == Meant(index, FALSE)
             taken == staged.ok /\ \A p \in Touched : Current(p)
  <1>1. cm'.base = cm.base /\ head' = head
    BY DEF GitApply, CmGoto, Types
  <1>2. Linkless(staged.files)
    BY MeantLinkless DEF LinkInv, Types
  <1>3. CASE taken
    <2>1. /\ tree' = [p \in Paths |-> IF p \in Touched THEN staged.files[p] ELSE tree[p]]
          /\ index' = [p \in Paths |-> IF p \in Touched THEN staged.files[p] ELSE index[p]]
          /\ fuzzy' = fuzzy
      BY <1>3 DEF GitApply
    <2> HIDE DEF staged
    <2>2. Linkless(tree') /\ Linkless(index')
      BY <1>2, <2>1 DEF Linkless, LinkInv, Plainly
    <2> QED
      BY <1>1, <2>1, <2>2, SameLinks DEF LinkInv, Todo, Linkless
  <1>4. CASE ~taken
    <2>1. fuzzy'.todo = << >> /\ UNCHANGED <<tree, index>>
      BY <1>4 DEF GitApply, NewFuzzy
    <2>2. Todo' = {}
      BY <2>1, OneElement DEF Todo
    <2> QED
      BY <1>1, <2>1, <2>2, SameLinks DEF LinkInv, Linkless
  <1> QED
    BY <1>3, <1>4

\* What is planned with a submodule's mode is for the index alone.
LEMMA PlanLinks ==
    ASSUME Types, LinkInv, Plan, cm' = cm, head' = head
    PROVE  LinkInv'
  <1> DEFINE ops == FlattenSeq([i \in DOMAIN patch |-> OpsOf(Parsed(patch[i]), i, tree)])
             wrong == \E i \in DOMAIN patch : Wrong(i, tree)
             broken == \E i \in DOMAIN patch : Breaks(i, tree)
  <1>1. /\ fuzzy' =
             IF broken THEN [fuzzy EXCEPT !.stage = "crashed"]
             ELSE IF ~Gate(wrong) THEN [fuzzy EXCEPT !.stage = "failed"]
             ELSE [fuzzy EXCEPT !.stage = "doing", !.todo = Ordered(ops), !.failed = wrong]
        /\ UNCHANGED <<tree, index, patch>>
    BY DEF Plan
  <1>2. \A op \in Todo' : op.mode = Gitlink => op.phase = "submodule"
    <2>1. CASE broken \/ ~Gate(wrong)
      <3>1. fuzzy'.todo = fuzzy.todo
        <4> HIDE DEF broken, wrong, ops
        <4> QED
          BY <1>1, <2>1 DEF Types
      <3> QED
        BY <3>1 DEF LinkInv, Todo
    <2>2. CASE ~broken /\ Gate(wrong)
      <3>1. fuzzy'.todo = Ordered(ops)
        <4> HIDE DEF broken, wrong, ops
        <4> QED
          BY <1>1, <2>2 DEF Types
      <3>2. ToSet(Ordered(ops)) =
              UNION {ToSet(OpsOf(Parsed(patch[i]), i, tree)) : i \in DOMAIN patch}
        BY <2>2, PlannedSet
      <3> HIDE DEF ops
      <3> SUFFICES ASSUME NEW i \in DOMAIN patch,
                          NEW op \in ToSet(OpsOf(Parsed(patch[i]), i, tree)),
                          op.mode = Gitlink
                   PROVE  op.phase = "submodule"
        BY <3>1, <3>2 DEF Todo
      <3> DEFINE kind == Kind(Parsed(patch[i]), i, tree)
      <3>3. op = MoveOp(i) \/ (op = OtherOp(i, tree) /\ kind \in PhaseNames)
        BY OpsAre
      <3>4. MoveOp(i).mode = None /\ None # Gitlink
        BY CommitteAssumption DEF MoveOp, Op, Modes
      <3>5. op = OtherOp(i, tree) /\ kind \in PhaseNames
        BY <3>3, <3>4
      <3>6. op.phase = kind /\ Named(Parsed(patch[i])).mode = Gitlink
        BY <3>5 DEF OtherOp, Op
      <3> QED
        BY <3>5, <3>6 DEF Kind, PhaseNames
    <2> QED
      BY <2>1, <2>2
  <1> QED
    BY <1>1, <1>2 DEF LinkInv, Linkless, Plainly, Submodules

\* An operation writes only where there are files, and no submodule's mode.
LEMMA PerformLinks ==
    ASSUME Types, Conventions, LinkInv, Perform, cm' = cm, head' = head,
           \A op \in Todo : OpPaths(op) \subseteq PatchPaths
    PROVE  LinkInv'
  <1>1. PICK op \in ToSet(fuzzy.todo) :
          Doing(op) /\ Possible(op) /\ Writes(op) /\ DoneWith(op)
    BY DEF Perform, Writes
  <1>2. fuzzy'.todo = Tail(fuzzy.todo)
    BY <1>1 DEF DoneWith, Types
  <1>3. Todo' \subseteq Todo /\ op \in Todo /\ op \in Ops
    BY <1>1, <1>2, OpAtHand DEF Todo
  <1>4. /\ \A p \in Paths \ OpPaths(op) : tree'[p] = tree[p]
        /\ \A p \in Plainly : index'[p] = index[p]
    BY <1>1, WriteTyped DEF Writes, Plainly
  <1>5. OpPaths(op) \subseteq Plainly
    BY <1>3, PatchIsPlain
  <1>6. tree \in [Paths -> FileOrNone] /\ op.path \in Paths
    BY <1>3 DEF Types, Ops
  <1>7. ASSUME NEW p \in OpPaths(op), tree'[p] # None
        PROVE  tree'[p].mode # Gitlink
    <2>1. CASE op.phase = "move"
      <3>1. /\ tree' = [tree EXCEPT ![op.from] = None, ![op.path] = tree[op.from]]
            /\ OpPaths(op) = {op.from, op.path} /\ op.from \in Paths
        BY <1>1, <1>3, <2>1 DEF Writes, Move, Write, Delete, Chmod, Submodule, OpPaths, Ops
      <3>2. tree'[p] = None \/ tree'[p] = tree[op.from]
        BY <1>6, <1>7, <3>1
      <3> QED
        BY <1>5, <1>7, <3>1, <3>2 DEF LinkInv, Linkless
    <2>2. CASE op.phase \notin {"move", "submodule"}
      <3>1. tree' = [tree EXCEPT ![op.path] = Result(op, tree[op.path])]
        BY <1>1, <2>2, DoesIt DEF Writes
      <3>2. p = op.path /\ p \in Plainly
        BY <1>5, <1>7, <2>2 DEF OpPaths
      <3>3. op.mode # Gitlink
        BY <1>3, <2>2 DEF LinkInv
      <3>4. tree[p] # None => tree[p].mode # Gitlink
        BY <3>2 DEF LinkInv, Linkless
      <3>5. tree'[p] = Result(op, tree[p])
        BY <1>6, <3>1, <3>2
      <3>6. CASE op.phase = "delete"
        BY <1>7, <3>5, <3>6 DEF Result
      <3>7. CASE op.phase = "chmod"
        <4>1. tree[p] # None => tree[p] \in [mode : Modes, text : Seq(Nat)]
          BY <1>6, <3>2 DEF FileOrNone
        <4>2. Permissions(op.mode) # Gitlink
          BY DEF Permissions, Plain, Executable, Gitlink
        <4> QED
          BY <1>7, <3>4, <3>5, <3>7, <4>1, <4>2 DEF Result, Readable
      <3>8. CASE op.phase \notin {"delete", "chmod"}
        <4>1. OwnMode(tree[p]) # Gitlink
          BY <3>4 DEF OwnMode, Plain, Gitlink
        <4> QED
          BY <1>7, <3>3, <3>4, <3>5, <3>8, <4>1 DEF Result, File
      <3> QED
        BY <3>6, <3>7, <3>8
    <2>3. CASE op.phase = "submodule"
      BY <1>7, <2>3 DEF OpPaths
    <2> QED
      BY <2>1, <2>2, <2>3
  <1>8. Linkless(tree')
    BY <1>4, <1>7 DEF LinkInv, Linkless, Plainly
  <1>9. Linkless(index')
    BY <1>4 DEF LinkInv, Linkless
  <1> QED
    BY <1>3, <1>8, <1>9, SameLinks DEF LinkInv, Linkless

\* What is staged is what is in the tree.
LEMMA AddLinks ==
    ASSUME Types, LinkInv, Add, cm' = cm, head' = head
    PROVE  LinkInv'
  <1> DEFINE path == Head(fuzzy.applied)
  <1>1. /\ fuzzy.applied # << >> /\ tree' = tree /\ fuzzy'.todo = fuzzy.todo
        /\ index' = [index EXCEPT ![path] = tree[path]] \/ index' = index
    BY DEF Add, Types
  <1> HIDE DEF path
  <1>2. \A p \in Plainly : index'[p] = tree[p] \/ index'[p] = index[p]
    BY <1>1 DEF Types, Plainly
  <1>3. Linkless(index') /\ Todo' = Todo
    BY <1>1, <1>2 DEF LinkInv, Linkless, Todo
  <1> QED
    BY <1>1, <1>3, SameLinks DEF LinkInv, Linkless

\* So it stays, whatever committe and geni do, as long as no call fails and the user
\* does nothing.
LEMMA LinksKept ==
    ASSUME Types, Conventions, Calm, LinkInv, [GeniNext]_geniVars, ~UserEdits,
           faults' = faults
    PROVE  LinkInv'
  <1>1. ASSUME NEW answers, Script(answers)
        PROVE  LinkInv'
    <2>1. CASE GitApply
      BY <2>1, GitApplyLinks
    <2>2. CASE Fuzzy
      <3>1. CmAt("fuzzy") /\ cm' = cm /\ head' = head
        BY <2>2 DEF Fuzzy
      <3>2. CASE Plan
        BY <3>1, <3>2, PlanLinks
      <3>3. CASE Perform
        <4>1. At("doing")
          BY <3>3 DEF Perform, Doing
        <4> QED
          BY <2>2, <3>1, <3>3, <4>1, Pending, PerformLinks DEF Todo
      <3>4. CASE Stumble
        <4>1. Todo' \subseteq Todo /\ UNCHANGED <<tree, index>>
          <5>1. PICK op \in ToSet(fuzzy.todo) :
                  /\ Doing(op)
                  /\ fuzzy' = IF op.phase \in {"chmod", "submodule"}
                              THEN [fuzzy EXCEPT !.todo = Tail(@), !.failed = TRUE]
                              ELSE [fuzzy EXCEPT !.stage = "crashed"]
                  /\ UNCHANGED <<tree, index>>
            BY <3>4, StumbleIs
          <5>2. fuzzy'.todo = Tail(fuzzy.todo) \/ fuzzy'.todo = fuzzy.todo
            BY <5>1 DEF Types
          <5> QED
            BY <5>1, <5>2, OpAtHand DEF Todo
        <4> QED
          BY <3>1, <4>1, SameLinks DEF LinkInv, Linkless
      <3>5. CASE Add
        BY <3>1, <3>5, AddLinks
      <3>6. CASE Exit
        <4>1. fuzzy'.todo = fuzzy.todo /\ UNCHANGED <<tree, index>>
          BY <3>6 DEF Exit, Goto, Types
        <4>2. Todo' = Todo
          BY <4>1 DEF Todo
        <4> QED
          BY <3>1, <4>1, <4>2, SameLinks DEF LinkInv, Linkless
      <3> QED
        BY <2>2, <3>2, <3>3, <3>4, <3>5, <3>6 DEF Fuzzy, FuzzyNext
    <2>3. CASE Check \/ MkPatch(answers) \/ FuzzyReturns \/ Commit
      <3>1. UNCHANGED <<tree, index, fuzzy>> /\ cm'.base = cm.base /\ head' \in {head, index}
        BY <2>3 DEF Check, MkPatch, FuzzyReturns, Commit, CmGoto, Again, fuzzyVars, Types
      <3>2. Todo' = Todo
        BY <3>1 DEF Todo
      <3> QED
        BY <3>1, <3>2, SameLinks DEF LinkInv, Linkless
    <2> QED
      BY <1>1, <2>1, <2>2, <2>3 DEF Script
  <1>2. CASE Red
    <2>1. UNCHANGED <<tree, index, head>> /\ cm'.base \in {head, cm.base}
          /\ fuzzy'.todo \in {<< >>, fuzzy.todo}
      BY <1>2 DEF Red, NewCommitte, NewFuzzy
    <2>2. Todo' \subseteq Todo
      BY <2>1, OneElement DEF Todo
    <2> QED
      BY <2>1, <2>2, SameLinks DEF LinkInv, Linkless
  <1>3. CASE UNCHANGED vars
    <2>1. UNCHANGED <<tree, index, head, cm, fuzzy>>
      BY <1>3 DEF vars, fuzzyVars
    <2>2. Todo' = Todo
      BY <2>1 DEF Todo
    <2> QED
      BY <2>1, <2>2, SameLinks DEF LinkInv, Linkless
  <1>4. Pretest \/ GiveUp \/ Green \/ Merge \/ RemoveWorktree \/ RootMoves \/ End
            \/ UNCHANGED geniVars => UNCHANGED vars
    BY DEF Pretest, GiveUp, Green, Merge, RemoveWorktree, RootMoves, End, geniVars
  <1> QED
    BY <1>1, <1>2, <1>3, <1>4 DEF GeniNext, Round

----------------------------------------------------------------------------
\* A patch that needs a directory there is not: git-apply-fuzzy never gets past
\* what goes there, and so nothing is staged.
AstrayOp(op) == op.phase \in {"move", "create"} /\ ~Housed(op.path)

Astray ==
    /\ CmAt("applying") \/ CmAt("fuzzy") => index = cm.base
    /\ CmAt("fuzzy") => ~At("ok")
    /\ CmAt("fuzzy") /\ At("doing") =>
          Ranked(fuzzy.todo, Orderly) /\ \E op \in Todo : AstrayOp(op)

\* Otherwise, before the patch is applied the files are those committe was called
\* on, or the patch cannot be applied any more.
Tried ==
    /\ CmAt("applying") => Pristine \/ Spoilt
    /\ CmAt("fuzzy") => Refusable
    /\ CmAt("fuzzy") /\ At("planning") =>
          fuzzy = [NewFuzzy EXCEPT !.stage = "planning"] /\ (Pristine \/ Spoilt)
    /\ CmAt("fuzzy") /\ At("doing") => Running \/ Stuck
    /\ CmAt("fuzzy") /\ At("ok") => index = Target
    /\ CmAt("fuzzy") /\ fuzzy.stage \in {"crashed", "failed"} => Pristine \/ Spoilt

\* The inductive invariant: what is applied is what is meant.
Begun ==
    /\ IF Homed THEN Tried ELSE Astray
    /\ CmAt("committing") => index = Target
    /\ CmAt("done") => head = Target

\* That is so of a patch the property is about, while nothing has come between.
Begins == cm.stage \in {"applying", "fuzzy", "committing", "done"} /\ Proper => Begun

CommitInv == Alone => LinkInv /\ Begins

\* What is meant is files.
LEMMA TargetTyped ==
    ASSUME Types
    PROVE  Target \in [Paths -> FileOrNone]
  <1>1. cm.base \in [Paths -> FileOrNone]
    BY DEF Types
  <1> QED
    BY <1>1, MeantTyped DEF Target, Applying

\* Files that stay as they are are as spoilt as they were.
LEMMA SameFiles ==
    ASSUME UNCHANGED <<tree, index, patch>>, cm'.base = cm.base
    PROVE  (Pristine' <=> Pristine) /\ (Spoilt' <=> Spoilt)
  BY SameTarget DEF Pristine, Spoilt, Refused, Missing, Plainly, Submodules

\* Directories are only made by git and the user.
LEMMA SameHome ==
    ASSUME patch' = patch, dirs' = dirs
    PROVE  (Homed' <=> Homed) /\ \A op : AstrayOp(op)' <=> AstrayOp(op)
  BY DEF Homed, Rehoused, Housed, PathOf, AstrayOp

\* What is planned for it, on any files, has the operation that is not possible.
LEMMA PlanAstray ==
    ASSUME Ready, ~Homed, Plan, cm' = cm
    PROVE  \/ fuzzy'.stage \in {"crashed", "failed"}
           \/ /\ fuzzy'.stage = "doing"
              /\ Ranked(fuzzy'.todo, Orderly) /\ \E op \in Todo' : AstrayOp(op)
  <1> DEFINE ops == FlattenSeq([i \in DOMAIN patch |-> OpsOf(Parsed(patch[i]), i, tree)])
             wrong == \E i \in DOMAIN patch : Wrong(i, tree)
             broken == \E i \in DOMAIN patch : Breaks(i, tree)
             O(i) == ToSet(OpsOf(Parsed(patch[i]), i, tree))
  <1>1. fuzzy' =
             IF broken THEN [fuzzy EXCEPT !.stage = "crashed"]
             ELSE IF ~Gate(wrong) THEN [fuzzy EXCEPT !.stage = "failed"]
             ELSE [fuzzy EXCEPT !.stage = "doing", !.todo = Ordered(ops), !.failed = wrong]
    BY DEF Plan
  <1>2. Types
    BY DEF Ready
  <1>3. CASE broken \/ ~Gate(wrong)
    BY <1>1, <1>2, <1>3 DEF Types
  <1>4. CASE ~broken /\ Gate(wrong)
    <2>1. fuzzy'.stage = "doing" /\ fuzzy'.todo = Ordered(ops)
      <3> HIDE DEF ops, wrong
      <3> QED
        BY <1>1, <1>2, <1>4 DEF Types
    <2>2. ops \in Seq(Ops) /\ ToSet(Ordered(ops)) = UNION {O(i) : i \in DOMAIN patch}
      BY <1>2, <1>4, PlannedSet
    <2> HIDE DEF ops, wrong
    <2>3. Ranked(ops, Ops \X Ops)
      BY <2>2 DEF Ranked
    <2>4. Ranked(fuzzy'.todo, Orderly)
      BY <2>1, <2>2, <2>3, OrderedRanked DEF Orderly
    <2>5. PICK i \in DOMAIN patch : Rehoused(i) /\ ~Housed(PathOf(i))
      BY DEF Homed
    <2> DEFINE h == patch[i]
               n == Named(Parsed(h))
               kind == Kind(Parsed(h), i, tree)
    <2>6. Reads(i) /\ kind # "mismatch"
      BY <1>4, EntryReadAlike DEF Breaks
    <2>7. /\ kind = IF Deletes(h) THEN "delete"
                    ELSE IF Creates(h) /\ h.hunks # "none" THEN "create"
                    ELSE IF h.hunks = "none" THEN
                        IF n.mode # h.oldMode THEN "chmod"
                        ELSE IF Parsed(h).renames THEN "move" ELSE "nothing"
                    ELSE IF Readable(tree[n.source]) /\ Matches(Parsed(h), i, tree[n.source])
                    THEN "write" ELSE "mismatch"
          /\ Parsed(h).renames => ~Deletes(h) /\ ~Creates(h)
          /\ PathOf(i) = n.path
      BY <2>5, <2>6, KindIs DEF Rehoused
    <2> HIDE DEF kind
    <2>8. \E op \in O(i) : AstrayOp(op)
      <3>1. CASE Parsed(h).renames
        <4>1. kind \in {"chmod", "move", "write"}
          BY <2>6, <2>7, <3>1
        <4>2. MoveOp(i) \in O(i)
          BY <3>1, <4>1, OpsAre DEF kind
        <4>3. MoveOp(i).phase = "move" /\ MoveOp(i).path = PathOf(i)
          BY <2>6, <2>7, <3>1 DEF MoveOp, Op, Reads
        <4> QED
          BY <2>5, <4>2, <4>3 DEF AstrayOp
      <3>2. CASE ~Parsed(h).renames
        <4>1. Creates(h) /\ h.hunks # "none" /\ ~Deletes(h)
          BY <2>5, <3>2 DEF Rehoused, Creates, Deletes
        <4>2. kind = "create"
          BY <2>7, <4>1
        <4>3. OtherOp(i, tree) \in O(i)
          BY <4>2, OpsAre DEF kind, PhaseNames
        <4>4. OtherOp(i, tree).phase = "create" /\ OtherOp(i, tree).path = PathOf(i)
          BY <4>2 DEF OtherOp, Op, PathOf, kind
        <4> QED
          BY <2>5, <4>3, <4>4 DEF AstrayOp
      <3> QED
        BY <3>1, <3>2
    <2> QED
      BY <2>1, <2>2, <2>4, <2>8 DEF Todo
  <1> QED
    BY <1>3, <1>4

\* Nothing before it is a submodule's.
LEMMA AstrayHead ==
    ASSUME Types, Ranked(fuzzy.todo, Orderly), \E op \in Todo : AstrayOp(op),
           NEW op, Doing(op)
    PROVE  /\ op.phase # "submodule" /\ Ranked(Tail(fuzzy.todo), Orderly)
           /\ ~AstrayOp(op) => \E x \in ToSet(Tail(fuzzy.todo)) : AstrayOp(x)
           /\ AstrayOp(op) => ~Possible(op)
  <1>1. /\ fuzzy.todo \in Seq(Ops) /\ fuzzy.todo # << >> /\ op = Head(fuzzy.todo)
        /\ Todo = {op} \cup ToSet(Tail(fuzzy.todo))
    BY OpAtHand DEF Types, Todo
  <1>2. /\ Ranked(Tail(fuzzy.todo), Orderly)
        /\ \A x \in ToSet(Tail(fuzzy.todo)) : <<op, x>> \in Orderly
    BY <1>1, TailRanked
  <1>3. \A x \in ToSet(Tail(fuzzy.todo)) : AstrayOp(x) => op.phase # "submodule"
    BY <1>2 DEF Orderly, InOrder, AstrayOp
  <1> QED
    BY <1>1, <1>2, <1>3 DEF AstrayOp, Possible

\* git-apply-fuzzy breaks off there.
LEMMA AstrayKept ==
    ASSUME Ready, ~Homed, CmAt("fuzzy"), Astray, FuzzyNext, faults' = faults, cm' = cm
    PROVE  Astray'
  <1>1. /\ Types /\ index = cm.base /\ ~At("ok") /\ dirs' = dirs /\ patch' = patch
        /\ \A op : AstrayOp(op)' <=> AstrayOp(op)
    BY SameHome DEF Ready, Astray, FuzzyNext, Plan, Perform, Stumble, Add, Exit
  <1>2. ASSUME At("doing")
        PROVE  Ranked(fuzzy.todo, Orderly) /\ (\E op \in Todo : AstrayOp(op)) /\ fuzzy.todo # << >>
    <2>1. fuzzy.todo = << >> => Todo = {}
      BY OneElement DEF Todo
    <2> QED
      BY <1>2, <2>1 DEF Astray
  <1>3. ASSUME index' = index,
               \/ fuzzy'.stage \in {"crashed", "failed"}
               \/ /\ fuzzy'.stage = "doing"
                  /\ Ranked(fuzzy'.todo, Orderly) /\ \E op \in Todo' : AstrayOp(op)
        PROVE  Astray'
    BY <1>1, <1>3 DEF Astray, CmAt, At, Orderly, InOrder, Ops, Submodules
  <1>4. CASE Plan
    <2>1. index' = index
      BY <1>4 DEF Plan
    <2> QED
      BY <1>3, <1>4, <2>1, PlanAstray
  <1>5. CASE Perform
    <2>1. PICK op \in ToSet(fuzzy.todo) :
            Doing(op) /\ Possible(op) /\ Writes(op) /\ DoneWith(op)
      BY <1>5 DEF Perform, Writes
    <2>2. /\ fuzzy'.stage = "doing" /\ fuzzy'.todo = Tail(fuzzy.todo) /\ At("doing")
      BY <1>1, <2>1 DEF DoneWith, Doing, At, Types
    <2>3. /\ op.phase # "submodule" /\ Ranked(fuzzy'.todo, Orderly)
          /\ \E x \in Todo' : AstrayOp(x)
      BY <1>1, <1>2, <2>1, <2>2, AstrayHead DEF Todo
    <2>4. index' = index
      BY <2>1, <2>3 DEF Writes, Move, Write, Delete, Chmod, Submodule
    <2> QED
      BY <1>3, <2>2, <2>3, <2>4
  <1>6. CASE Stumble
    <2>1. PICK op \in ToSet(fuzzy.todo) :
            /\ Doing(op)
            /\ fuzzy' = IF op.phase \in {"chmod", "submodule"}
                        THEN [fuzzy EXCEPT !.todo = Tail(@), !.failed = TRUE]
                        ELSE [fuzzy EXCEPT !.stage = "crashed"]
            /\ UNCHANGED index
      BY <1>1, <1>6, StumbleIs
    <2>2. CASE op.phase \notin {"chmod", "submodule"}
      BY <1>1, <1>3, <2>1, <2>2 DEF Types
    <2>3. CASE op.phase \in {"chmod", "submodule"}
      <3>1. /\ fuzzy'.stage = "doing" /\ fuzzy'.todo = Tail(fuzzy.todo) /\ At("doing")
        BY <1>1, <2>1, <2>3 DEF Types, Doing, At
      <3>2. Ranked(fuzzy'.todo, Orderly) /\ \E x \in Todo' : AstrayOp(x)
        BY <1>1, <1>2, <2>1, <2>3, <3>1, AstrayHead DEF Todo, AstrayOp
      <3> QED
        BY <1>3, <2>1, <3>1, <3>2
    <2> QED
      BY <2>2, <2>3
  <1>7. ~Add /\ ~Exit
    BY <1>2 DEF Add, Exit
  <1> QED
    BY <1>4, <1>5, <1>6, <1>7 DEF FuzzyNext

\* git apply takes the patch as it is meant, or leaves it to git-apply-fuzzy for a
\* reason that stays.
LEMMA GitApplyBegins ==
    ASSUME Types, Conventions, LinkInv, Begins, GitApply
    PROVE  Begins'
  <1> DEFINE staged == Meant(index, FALSE)
             taken == staged.ok /\ \A p \in Touched : Current(p)
  <1>1. CmAt("applying") /\ cm'.base = cm.base /\ patch' = patch
    BY DEF GitApply, CmGoto, Types
  <1> SUFFICES ASSUME Proper PROVE Begun'
    BY <1>1, SameTarget DEF Begins
  <1>2. /\ Ready
        /\ IF Homed THEN Pristine \/ Spoilt ELSE index = cm.base
    BY <1>1 DEF Ready, LinkInv, Begins, Begun, Tried, Astray, CmAt
  <1>3. CASE taken
    <2>1. /\ index' = [p \in Paths |-> IF p \in Touched THEN staged.files[p] ELSE index[p]]
          /\ cm'.stage = "committing"
      BY <1>3 DEF GitApply, Types
    <2>2. ~Spoilt
      BY <1>2, <1>3, GitRefuses DEF Spoilt
    <2>3. /\ \A p \in Paths : staged.files[p] = Target[p]
          /\ \A p \in Paths \ Touched : index[p] = Target[p]
      BY <1>2, <1>3, <2>2, GitTakes DEF Pristine
    <2> HIDE DEF staged
    <2>4. index' = Target
      BY <2>1, <2>3, TargetTyped
    <2> QED
      BY <1>1, <2>1, <2>4, SameTarget DEF Begun, Tried, Astray, CmAt
  <1>4. CASE ~taken
    <2>1. /\ fuzzy' = [NewFuzzy EXCEPT !.stage = "planning"] /\ cm'.stage = "fuzzy"
          /\ UNCHANGED <<tree, dirs, index>>
      BY <1>4 DEF GitApply, CmGoto, Types
    <2>2. fuzzy'.stage = "planning" /\ (Homed' <=> Homed)
      BY <1>1, <2>1, SameHome DEF NewFuzzy
    <2>3. CASE Homed
      <3>1. Refusable
        BY <1>2, <1>4, <2>3, WhyNotTaken DEF Spoilt, Refused, Refusable
      <3>2. Refusable' /\ (Pristine' \/ Spoilt')
        BY <1>1, <1>2, <2>1, <2>3, <3>1, SameFiles, SameTarget
      <3> QED
        BY <2>1, <2>2, <2>3, <3>2 DEF Begun, Tried, CmAt, At, NewFuzzy
    <2>4. CASE ~Homed
      BY <1>1, <1>2, <2>1, <2>2, <2>4 DEF Begun, Astray, CmAt, At
    <2> QED
      BY <2>3, <2>4
  <1> QED
    BY <1>3, <1>4

\* git-apply-fuzzy does as meant, or fails and leaves nothing to try again for.
LEMMA TriedKept ==
    ASSUME Ready, Calm, Calm', Homed, Tried, Fuzzy, faults' = faults
    PROVE  Tried'
  <1>1. CmAt("fuzzy") /\ cm' = cm /\ patch' = patch /\ FuzzyNext /\ Types
    BY DEF Ready, Fuzzy, FuzzyNext, Plan, Perform, Stumble, Add, Exit
  <1>2. Ready /\ Refusable /\ Tried
    BY <1>1 DEF Tried, CmAt
  <1>3. CmAt("fuzzy")' /\ Refusable'
    BY <1>1, <1>2, SameTarget DEF CmAt
  <1>4. CASE Plan
    <2>1. fuzzy = [NewFuzzy EXCEPT !.stage = "planning"] /\ (Pristine \/ Spoilt)
          /\ UNCHANGED <<tree, index, patch>>
      BY <1>1, <1>2, <1>4 DEF Plan, Tried
    <2>2. \/ fuzzy'.stage \in {"crashed", "failed"} /\ (Pristine' \/ Spoilt')
          \/ fuzzy'.stage = "doing" /\ (Running' \/ Stuck')
      <3>1. CASE Pristine
        <4>1. Pristine'
          BY <1>1, <2>1, <3>1, SameFiles
        <4> QED
          BY <1>1, <1>2, <1>4, <2>1, <3>1, <4>1, PlanRuns
      <3>2. CASE Spoilt
        BY <1>1, <1>2, <1>4, <2>1, <3>2, PlanStuck
      <3> QED
        BY <2>1, <3>1, <3>2
    <2> QED
      BY <1>3, <2>2 DEF Tried, CmAt, At
  <1>5. ASSUME At("doing")
        PROVE  Running \/ Stuck
    BY <1>1, <1>2, <1>5 DEF Tried
  <1>6. ASSUME fuzzy'.stage = "doing", Running' \/ Stuck'
        PROVE  Tried'
    BY <1>3, <1>6 DEF Tried, CmAt, At
  <1>7. ASSUME fuzzy'.stage \in {"crashed", "failed"}, Spoilt'
        PROVE  Tried'
    BY <1>3, <1>7 DEF Tried, CmAt, At
  <1>8. CASE Perform
    <2>1. PICK op \in ToSet(fuzzy.todo) :
            Doing(op) /\ Possible(op) /\ Writes(op) /\ DoneWith(op)
      BY <1>8 DEF Perform, Writes
    <2>2. fuzzy'.stage = "doing" /\ At("doing")
      BY <2>1 DEF DoneWith, Doing, At, Types
    <2>3. Running' \/ Stuck'
      BY <1>1, <1>2, <1>5, <2>1, <2>2, PerformRuns, PerformStuck
    <2> QED
      BY <1>6, <2>2, <2>3
  <1>9. CASE Stumble
    <2>1. At("doing")
      BY <1>9 DEF Stumble, Doing
    <2>2. CASE Running
      BY <1>1, <1>2, <1>6, <1>9, <2>2, StumbleRuns
    <2>3. CASE Stuck
      BY <1>1, <1>2, <1>6, <1>7, <1>9, <2>3, StumbleStuck
    <2> QED
      BY <1>5, <2>1, <2>2, <2>3
  <1>10. CASE Add
    <2>1. At("doing")
      BY <1>10 DEF Add
    <2>2. CASE Running
      BY <1>1, <1>2, <1>6, <1>10, <2>2, AddRuns
    <2>3. CASE Stuck
      <3>1. ToSet(fuzzy.applied) \subseteq PatchPaths
        BY <2>1, Pending
      <3> QED
        BY <1>1, <1>2, <1>6, <1>10, <2>3, <3>1, AddStuck
    <2> QED
      BY <1>5, <2>1, <2>2, <2>3
  <1>11. CASE Exit
    <2>1. At("doing") /\ UNCHANGED <<tree, index>>
      BY <1>11 DEF Exit
    <2>2. fuzzy'.stage = "ok" => \A p \in Plainly : tree[p] = index[p]
      <3>1. OkInv' /\ Plainly' = Plainly
        BY SameLinks DEF Calm
      <3> QED
        BY <1>3, <2>1, <3>1 DEF OkInv, Even, CmAt, At
    <2>3. CASE Running
      <3>1. \/ fuzzy'.stage = "ok" /\ index' = Target'
            \/ fuzzy'.stage = "failed" /\ Spoilt'
        BY <1>1, <1>2, <1>11, <2>2, <2>3, ExitRuns
      <3>2. CASE fuzzy'.stage = "ok" /\ index' = Target'
        BY <1>3, <3>2 DEF Tried, CmAt, At
      <3> QED
        BY <1>7, <3>1, <3>2
    <2>4. CASE Stuck
      BY <1>1, <1>2, <1>7, <1>11, <2>4, ExitStuck
    <2> QED
      BY <1>5, <2>1, <2>3, <2>4
  <1> QED
    BY <1>1, <1>4, <1>8, <1>9, <1>10, <1>11 DEF FuzzyNext

LEMMA FuzzyBegins ==
    ASSUME Types, Conventions, Calm, Calm', LinkInv, Begins, Fuzzy, faults' = faults
    PROVE  Begins'
  <1>1. CmAt("fuzzy") /\ cm' = cm /\ patch' = patch /\ dirs' = dirs /\ FuzzyNext
    BY DEF Fuzzy, FuzzyNext, Plan, Perform, Stumble, Add, Exit
  <1> SUFFICES ASSUME Proper PROVE Begun'
    BY <1>1, SameTarget DEF Begins
  <1>2. Ready /\ Begun
    BY <1>1 DEF Ready, LinkInv, Begins, CmAt
  <1>3. IF Homed' THEN Tried' ELSE Astray'
    BY <1>1, <1>2, SameHome, TriedKept, AstrayKept DEF Begun
  <1> QED
    BY <1>1, <1>3 DEF Begun, CmAt

\* And so does committe around them.
LEMMA ScriptBegins ==
    ASSUME Types, Conventions, Calm, Calm', LinkInv, Begins, NEW answers, Script(answers),
           faults' = faults
    PROVE  Begins'
  <1>1. CASE Check
    <2>1. cm'.stage \in {"asking", "refused"}
      BY <1>1 DEF Check, CmGoto, Types
    <2> QED
      BY <2>1 DEF Begins
  <1>2. CASE MkPatch(answers)
    <2>1. /\ CmAt("asking") /\ UNCHANGED <<tree, index>>
          /\ cm'.base = cm.base /\ cm'.stage \in {"applying", "question", "unanswered", "asking"}
      BY <1>2 DEF MkPatch, CmGoto, Types, CmAt
    <2>2. index = cm.base /\ \A p \in Plainly : tree[p] = cm.base[p]
      BY <2>1 DEF Calm, BaseInv, EvenInv, Even, Behind, CmAt
    <2>3. Pristine'
      BY <2>1, <2>2, SameLinks DEF Pristine
    <2> QED
      BY <2>1, <2>3 DEF Begins, Begun, Tried, Astray, Pristine, CmAt
  <1>3. CASE FuzzyReturns
    <2>1. /\ CmAt("fuzzy") /\ fuzzy.stage \in Exited /\ cm'.base = cm.base
          /\ UNCHANGED <<tree, dirs, index, patch, fuzzy>>
          /\ cm'.stage = IF At("ok") THEN "committing"
                         ELSE IF cm.tries >= Retries THEN "failed" ELSE "applying"
      BY <1>3 DEF FuzzyReturns, Applied, Again, fuzzyVars, Types
    <2> SUFFICES ASSUME Proper, cm'.stage # "failed" PROVE Begun'
      BY <2>1, SameTarget DEF Begins
    <2>2. Begun /\ (Homed' <=> Homed)
      BY <2>1, SameHome DEF Begins, CmAt
    <2>3. CASE At("ok")
      BY <2>1, <2>2, <2>3, SameTarget DEF Begun, Tried, Astray, CmAt
    <2>4. CASE ~At("ok") /\ Homed
      <3>1. Pristine \/ Spoilt
        BY <2>1, <2>2, <2>4 DEF Begun, Tried, Exited, At
      <3> QED
        BY <2>1, <2>2, <2>4, <3>1, SameFiles DEF Begun, Tried, CmAt
    <2>5. CASE ~At("ok") /\ ~Homed
      BY <2>1, <2>2, <2>5 DEF Begun, Astray, CmAt
    <2> QED
      BY <2>3, <2>4, <2>5
  <1>4. CASE Commit
    <2>1. /\ CmAt("committing") /\ head' = index /\ UNCHANGED patch /\ cm'.base = cm.base
          /\ cm'.stage \in {"uncommitted", "done"}
      BY <1>4 DEF Commit, CmGoto, fuzzyVars, Types
    <2>2. Proper => index = Target
      BY <2>1 DEF Begins, Begun, CmAt
    <2> QED
      BY <2>1, <2>2, SameTarget DEF Begins, Begun, Tried, Astray, CmAt
  <1> QED
    BY <1>1, <1>2, <1>3, <1>4, GitApplyBegins, FuzzyBegins DEF Script

\* Every step of the system keeps the invariant, as long as nothing fails and the
\* user does nothing.
LEMMA CommitKept ==
    ASSUME Types, Conventions, Undisturbed, Undisturbed', CommitInv, [GeniNext]_geniVars
    PROVE  CommitInv'
  <1> SUFFICES ASSUME Alone' PROVE LinkInv' /\ Begins'
    BY DEF CommitInv
  <1>1. user.edits \in Nat /\ faults \in Nat /\ user \in [edits : 0..MaxEdits, staged : BOOLEAN]
    BY CommitteAssumption DEF Types
  <1>2. ~UserEdits
    <2>1. ASSUME NEW p \in Paths, Edit(p)
          PROVE  FALSE
      BY <1>1, <2>1 DEF Edit, Alone
    <2>2. ASSUME NEW p \in Paths, Stage(p)
          PROVE  FALSE
      BY <1>1, <2>2 DEF Stage, Alone
    <2> QED
      BY <2>1, <2>2 DEF UserEdits
  <1>3. user' = user /\ faults' \in {faults, faults + 1}
    BY <1>2 DEF GeniNext, Pretest, Round, GiveUp, Green, Red, Merge, RemoveWorktree, RootMoves,
       End, geniVars, vars, fuzzyVars, Script, Check, MkPatch, GitApply, FuzzyReturns, Commit,
       Fuzzy, FuzzyNext, Plan, Perform, Stumble, Add, Exit
  <1>4. Alone /\ faults' = faults /\ user.edits = 0 /\ user'.edits = 0
    BY <1>1, <1>3 DEF Alone
  <1>5. Calm /\ Calm' /\ LinkInv /\ Begins
    BY <1>4 DEF Undisturbed, CommitInv
  <1>6. LinkInv'
    BY <1>2, <1>4, <1>5, LinksKept
  <1>7. CASE Round
    BY <1>4, <1>5, <1>6, <1>7, ScriptBegins DEF Round
  <1>8. CASE UNCHANGED vars
    <2>1. UNCHANGED <<tree, dirs, index, patch, fuzzy, head, cm>>
      BY <1>8 DEF vars, fuzzyVars
    <2>2. /\ Target' = Target /\ Proper' = Proper /\ Refusable' = Refusable
          /\ (Pristine' <=> Pristine) /\ (Spoilt' <=> Spoilt)
      BY <2>1, SameTarget, SameFiles
    <2>3. Running' <=> Running
      BY <2>1, SameTarget, SameLinks DEF Running, TodoInv, TreeInv, IndexInv, StageInv, EmptyInv,
         Todo, TreeAs, Gone, OnceGone, Touched, Submodules
    <2>4. Stuck' <=> Stuck
      BY <2>1, SameTarget DEF Stuck, Refused, Futile, Missing, Todo, SubmoduleOp
    <2>5. (Homed' <=> Homed) /\ (Astray' <=> Astray)
      BY <2>1, SameHome DEF Astray, CmAt, At, Todo, Orderly, InOrder, Ops, Submodules
    <2>6. Tried' <=> Tried
      BY <2>1, <2>2, <2>3, <2>4 DEF Tried, CmAt, At
    <2> QED
      BY <1>5, <1>6, <2>1, <2>2, <2>5, <2>6 DEF Begins, Begun, CmAt
  <1>9. CASE Red
    <2>1. CASE it.round < MaxRounds
      <3>1. cm'.stage = "checking"
        BY <1>9, <2>1 DEF Red, NewCommitte
      <3> QED
        BY <1>6, <3>1 DEF Begins
    <2>2. CASE ~(it.round < MaxRounds)
      BY <1>6, <1>8, <1>9, <2>2 DEF Red, vars, fuzzyVars
    <2> QED
      BY <2>1, <2>2
  <1>10. Pretest \/ GiveUp \/ Green \/ Merge \/ RemoveWorktree \/ RootMoves \/ End
            \/ UNCHANGED geniVars => UNCHANGED vars
    BY DEF Pretest, GiveUp, Green, Merge, RemoveWorktree, RootMoves, End, geniVars
  <1> QED
    BY <1>2, <1>6, <1>7, <1>8, <1>9, <1>10 DEF GeniNext

\* What committe commits is what the patch means, whichever of git apply and
\* git-apply-fuzzy applied it, on whatever try, and whatever it moves, makes and
\* removes (git_apply_fuzzy/__main__.py:4).
THEOREM PatchIsCommitted ==
    ASSUME Conventions
    PROVE  GeniSpec => []CommitsThePatch
  <1>1. Conventions /\ GeniInit => CommitInv
    <2> SUFFICES ASSUME Conventions, GeniInit PROVE LinkInv /\ Begins
      BY DEF CommitInv
    <2>1. /\ tree = Present /\ index = Present /\ head = Present /\ cm.base = Present
          /\ fuzzy.todo = << >> /\ cm.stage = "checking"
      BY DEF GeniInit, Init, NewFuzzy, NewCommitte
    <2>2. Todo = {}
      BY <2>1, OneElement DEF Todo
    <2> QED
      BY <2>1, <2>2 DEF LinkInv, Linkless, Conventions, SubmodulesApart, Begins
  <1>2. Conventions /\ Types /\ Undisturbed /\ Undisturbed' /\ CommitInv /\ [GeniNext]_geniVars
          => CommitInv'
    BY CommitKept
  <1>3. CommitInv => CommitsThePatch
    BY DEF CommitInv, Begins, Begun, CommitsThePatch, CmAt, Target
  <1>4. Conventions /\ HeadersAgree
    BY DEF Conventions
  <1>5. GeniInit => CommitInv
    BY <1>1, <1>4
  <1>6. Types /\ Undisturbed /\ Undisturbed' /\ CommitInv /\ [GeniNext]_geniVars => CommitInv'
    BY <1>2, <1>4
  <1>7. GeniSpec => []Undisturbed
    BY <1>4, StaysCalm
  <1> QED
    BY <1>3, <1>5, <1>6, <1>7, TypesHold, PTL DEF GeniSpec
===============================================================================
