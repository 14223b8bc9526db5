---------------------------- MODULE MCGeni ----------------------------
(* Small instances of Geni, and of the Committe and ApplyFuzzy in it, for TLC. *)
EXTENDS PatchConventions

x == <<"x">>
y == <<"y">>
ax == <<"a", "x">>
sub == <<"sub">>
nz == <<"new", "z">>   \* in a directory there is not

A(p) == <<"a">> \o p
B(p) == <<"b">> \o p

\* Headers as git diff writes them.
Fits == {"exact", "drifted", "foreign"}
At2(p) == [Silent EXCEPT !.name = A(p)]
Both(p) == [At2(p) EXCEPT !.minus = A(p), !.plus = B(p)]
Created(p, m) == [At2(p) EXCEPT !.plus = B(p), !.newMode = m, !.hunks = "exact"]
Empty(p) == [At2(p) EXCEPT !.newMode = Plain]
Deleted(p, m) == [At2(p) EXCEPT !.minus = A(p), !.oldMode = m, !.hunks = "exact"]
Dropped(p) == [At2(p) EXCEPT !.oldMode = Plain]
Edited(p) == {[Both(p) EXCEPT !.hunks = f, !.again = r] : f \in Fits, r \in BOOLEAN}
Moded(p) == [At2(p) EXCEPT !.oldMode = Plain, !.newMode = Executable]
ModedToo(p) == [Both(p) EXCEPT !.oldMode = Plain, !.newMode = Executable, !.hunks = "drifted"]
Renamed(p, q) == [Silent EXCEPT !.from = p, !.to = q]
Moved(p, q) == {[Renamed(p, q) EXCEPT !.minus = A(p), !.plus = B(q), !.hunks = f] : f \in Fits}
Nothing(p) == At2(p)

\* Changes to the one file there is, and changes to others.
ToX == Edited(x) \cup Moved(x, y) \cup {Renamed(x, y), Renamed(x, nz), Moded(x), ModedToo(x), Deleted(x, Plain), Dropped(x)}
Others == {Created(y, Plain), Created(y, Link), Empty(y), Created(sub, Gitlink), Nothing(x), Created(nz, Plain),
           Renamed(ax, y), Deleted(ax, Plain), Created(x, Link), Silent} \cup {h \in Edited(ax) : ~h.again}
MCPaths == {x, y, ax, sub, nz}
MCPresent == [p \in MCPaths |-> IF p \in {x, ax} THEN File(Plain, << >>) ELSE None]
One == {<<h>> : h \in ToX \cup Others}
MCPatches == One \cup {<<g, h>> : g \in ToX, h \in Others} \cup {<<g, h>> : g \in Others, h \in ToX}
MCLater == {p \in One : p[1].again /\ p[1].plus = B(x)} \cup {<<Empty(y)>>}

\* They are as the proofs want them, but for the rename of a file in a directory
\* called a, which the two programs read differently.
ASSUME SomeAreAstray == \A q \in MCPatches : \A i \in DOMAIN q :
                           NamesAgree(q[i]) \/ q[i] = Renamed(ax, y)
ASSUME ElseConventional == WrittenByGit /\ SubmodulesApart
=============================================================================
