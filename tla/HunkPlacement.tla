--------------------------- MODULE HunkPlacement ---------------------------
(***************************************************************************)
(* Where git-apply-fuzzy puts the hunks of one file: locate(), splice()    *)
(* and apply_hunks() of src/src/git_apply_fuzzy/__main__.py.               *)
(* A line is its text and whether white space trails it; positions count   *)
(* from 0 as in the code.  `wanted' is --threshold as a pair of numbers.   *)
(***************************************************************************)
EXTENDS Integers, Sequences, SequencesExt, FiniteSetsExt

Nowhere == -1

\* One side of a hunk: the lines of its body whose tags are among `tags'.
Side(body, tags) ==
    LET kept == SelectSeq(body, LAMBDA b : b.tag \in tags)
    IN [i \in DOMAIN kept |-> kept[i].line]

Old(body) == Side(body, {" ", "-"})
New(body) == Side(body, {" ", "+"})

Window(lines, at, size) == SubSeq(lines, at + 1, at + size)
Stripped(lines) == [i \in DOMAIN lines |-> [lines[i] EXCEPT !.trail = FALSE]]
Clip(n, low, high) == Max({low, Min({n, high})})
Distance(a, b) == IF a < b THEN b - a ELSE a - b

\* difflib: the longest common run, earliest in a and then in b, and the same
\* again to its left and to its right; ratio() is this over the window's size.
Matching(a, b) ==
    LET ends == 0..Len(a)
        size[p \in ends, q \in ends, r \in ends, s \in ends] ==
            LET runs == {x \in (p..q) \X (r..s) \X (1..Len(a)) :
                            /\ x[1] + x[3] <= q /\ x[2] + x[3] <= s
                            /\ Window(a, x[1], x[3]) = Window(b, x[2], x[3])}
                First(x, y) == \/ x[3] > y[3]
                               \/ x[3] = y[3] /\ x[1] < y[1]
                               \/ x[3] = y[3] /\ x[1] = y[1] /\ x[2] <= y[2]
                run == CHOOSE x \in runs : \A y \in runs : First(x, y)
            IN IF runs = {} THEN 0
               ELSE run[3] + size[p, run[1], r, run[2]]
                           + size[run[1] + run[3], q, run[2] + run[3], s]
    IN size[0, Len(a), 0, Len(a)]

\* Windows are tried in the order of their distance to the hint.
Nearest(starts, hint) ==
    CHOOSE s \in starts : \A t \in starts :
        \/ Distance(s, hint) < Distance(t, hint)
        \/ Distance(s, hint) = Distance(t, hint) /\ s <= t

\* locate(): an exact match, one without trailing space, the most similar.
Locate(lines, search, hint, wanted) ==
    LET size == Len(search)
        last == Len(lines) - size
        starts == 0..last
        near == Clip(hint, 0, last)
        alike == [s \in starts |-> Matching(Window(lines, s, size), search)]
        exact == {s \in starts : Window(lines, s, size) = search}
        bare == {s \in starts :
                    Stripped(Window(lines, s, size)) = Stripped(search)}
        fuzzy == {s \in starts : /\ alike[s] > 0
                                 /\ alike[s] * wanted[2] >= wanted[1] * size
                                 /\ \A t \in starts : alike[s] >= alike[t]}
    IN IF size = 0 THEN Clip(hint, 0, Len(lines))
       ELSE IF exact # {} THEN Nearest(exact, near)
       ELSE IF bare # {} THEN Nearest(bare, near)
       ELSE IF fuzzy # {} THEN Nearest(fuzzy, near)
       ELSE Nowhere

\* Mutated Rewritten: a fuzzy match writes the patch's own context lines.
RewrittenByPatch(window, body) == New(body)

\* The new side, with the file's own version of every context line.
Rewritten(window, body) ==
    LET Consumed(i) == Len(Old(SubSeq(body, 1, i)))
        line == [i \in DOMAIN body |->
                    IF body[i].tag = " " THEN window[Consumed(i)]
                                         ELSE body[i].line]
        kept == SelectSeq([i \in DOMAIN body |-> i],
                          LAMBDA i : body[i].tag # "-")
    IN [i \in DOMAIN kept |-> line[kept[i]]]

\* splice(); `at + i' past the end of the list is an IndexError in the code,
\* which no hunk meets whose window lies in the lines it is spliced into.
Splice(lines, at, body) ==
    LET size == Len(Old(body))
        window == Window(lines, at, size)
    IN Window(lines, 0, at)
       \o (IF window = Old(body) THEN New(body) ELSE Rewritten(window, body))
       \o SubSeq(lines, at + size + 1, Len(lines))

\* sorted(placed, key=-at), which is stable.
SpliceOrder(placed) ==
    SortSeq(placed, LAMBDA p, q : \/ p.at > q.at
                                  \/ p.at = q.at /\ p.number < q.number)

\* Mutated Hint: the line number as it is, though lists count from 0.
HintUnshifted(hunk) == hunk.start

Hint(hunk) == hunk.start - 1

Placements(lines, hunks, wanted) ==
    [i \in DOMAIN hunks |->
        Locate(lines, Old(hunks[i].body), Hint(hunks[i]), wanted)]

\* apply_hunks(): every hunk is located in the file as it was.
ApplyHunks(lines, hunks, wanted) ==
    LET at == Placements(lines, hunks, wanted)
        found == SelectSeq([i \in DOMAIN hunks |-> i],
                           LAMBDA i : at[i] # Nowhere)
        placed == [i \in DOMAIN found |-> [at |-> at[found[i]], number |-> i,
                                           body |-> hunks[found[i]].body]]
    IN FoldLeft(LAMBDA done, p : Splice(done, p.at, p.body), lines,
                SpliceOrder(placed))

----------------------------------------------------------------------------
\* A hunk cut out of a file at a position, its tags given: how git writes it.
\* With no old line to name it names the line before.
Cut(lines, at, tags, added) ==
    LET Before(i) == Len(SelectSeq(SubSeq(tags, 1, i - 1), LAMBDA t : t # "+"))
        size == Len(SelectSeq(tags, LAMBDA t : t # "+"))
    IN [start |-> IF size = 0 THEN at ELSE at + 1,
        body |-> [i \in DOMAIN tags |->
                    [tag |-> tags[i],
                     line |-> IF tags[i] = "+" THEN added
                              ELSE lines[at + Before(i) + 1]]]]

\* The file that hunks cut at the positions `cuts', in this order, declare.
Declared(lines, hunks, cuts) ==
    LET from == [i \in DOMAIN hunks |->
                    IF i = 1 THEN 0
                    ELSE cuts[i - 1] + Len(Old(hunks[i - 1].body))]
        rest == cuts[Len(cuts)] + Len(Old(hunks[Len(cuts)].body))
    IN FlattenSeq([i \in DOMAIN hunks |->
                      SubSeq(lines, from[i] + 1, cuts[i]) \o New(hunks[i].body)])
       \o SubSeq(lines, rest + 1, Len(lines))

\* A patch cut from the file, each hunk with a line to find, makes the file
\* it declares, however often its lines are repeated elsewhere ("a block that
\* occurs twice lands where the diff meant it to", locate()).
CutApplies(lines, hunks, cuts, wanted) ==
    (\A i \in DOMAIN hunks : Old(hunks[i].body) # << >>)
        => ApplyHunks(lines, hunks, wanted) = Declared(lines, hunks, cuts)

\* Whatever was matched, and how: without the lines the patch adds, the result
\* is the file without the lines the patch removes; no line of the file
\* turned into the patch's version of it (splice()).  The windows are apart.
FileKept(lines, hunks, wanted, added) ==
    LET at == Placements(lines, hunks, wanted)
        size == [i \in DOMAIN hunks |-> Len(Old(hunks[i].body))]
        Removed(i) == {at[i] + Len(Old(SubSeq(hunks[i].body, 1, k))) :
                          k \in {j \in DOMAIN hunks[i].body :
                                    hunks[i].body[j].tag = "-"}}
        stays == SelectSeq([n \in DOMAIN lines |-> n],
                           LAMBDA n : \A i \in DOMAIN hunks :
                                          at[i] # Nowhere => n \notin Removed(i))
        Apart(i, j) == /\ at[i] # at[j]
                       /\ at[i] + size[i] <= at[j] \/ at[j] + size[j] <= at[i]
    IN (\A i, j \in DOMAIN hunks :
            i # j /\ at[i] # Nowhere /\ at[j] # Nowhere => Apart(i, j))
        => SelectSeq(ApplyHunks(lines, hunks, wanted), LAMBDA l : l # added)
              = [k \in DOMAIN stays |-> lines[stays[k]]]
=============================================================================
