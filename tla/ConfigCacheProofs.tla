-------------------------- MODULE ConfigCacheProofs --------------------------
(***************************************************************************)
(* What holds of the configuration cache for any number of processes,      *)
(* files and edits: types, that the recorded stamps never claim more than  *)
(* the rows hold, that an ad-hoc row goes stale only by being overtaken    *)
(* between the look and the insert, and that a command alone resolves what *)
(* its own files say.                                                      *)
(***************************************************************************)
EXTENDS ConfigCache, TLAPS

\* What sync()'s locals hold by the stage it has reached: stamps from before
\* the parse, and keys no older than the stamps.
SyncInv ==
    \A p \in Procs :
        /\ stage[p] \in {"idle", "probed", "creating", "stamping", "opened"}
              => DOMAIN loc[p].stamps = {}
        /\ stage[p] # "parsing" => DOMAIN loc[p].read = {}
        /\ \A f \in DOMAIN loc[p].stamps : loc[p].stamps[f] <= edits[f]
        /\ stage[p] = "parsing" =>
              /\ DOMAIN loc[p].stamps = loc[p].todo \cup DOMAIN loc[p].read
              /\ \A f \in DOMAIN loc[p].read :
                    /\ loc[p].stamps[f] <= loc[p].read[f]
                    /\ loc[p].read[f] <= edits[f]

\* What materialize() has in hand is from the table there is now, unless it
\* has been overtaken.
LookInv ==
    \A p \in Procs : p \notin overtaken =>
        \A i \in 1..Len(loc[p].rows) : loc[p].rows[i] \in {NoRow, config}

\* materialize() looks once at each prefix of the chain.
RowsInv ==
    \A p \in Procs :
        /\ stage[p] = "looking" => Len(loc[p].rows) < loc[p].want
        /\ stage[p] = "inserting" => Len(loc[p].rows) = loc[p].want
        /\ stage[p] \notin {"looking", "inserting"} => loc[p].rows = << >>

IInv == TypeOK /\ CacheCurrent /\ SyncInv /\ RowsInv /\ LookInv /\ AdhocFresh

----------------------------------------------------------------------------
\* Building blocks.

LEMMA SnapshotDef ==
    ASSUME NEW s
    PROVE  s \in Snapshots <=> \E S \in SUBSET Files : s \in [S -> 0..MaxEdits]
BY DEF Snapshots

LEMMA EmptySnapshot == << >> \in Snapshots
<1>1. << >> \in [{} -> 0..MaxEdits]
  OBVIOUS
<1> QED
  BY <1>1, SnapshotDef

\* The values of a snapshot are numbers of edits.
LEMMA SnapshotValue ==
    ASSUME NEW s \in Snapshots, NEW f \in DOMAIN s
    PROVE  f \in Files /\ s[f] \in Nat /\ DOMAIN s \subseteq Files
<1>1. PICK S \in SUBSET Files : s \in [S -> 0..MaxEdits]
  BY SnapshotDef
<1> QED
  BY <1>1, ConfigAssumption

LEMMA WithFacts ==
    ASSUME TypeOK, NEW known \in Snapshots, NEW f \in Files
    PROVE  /\ With(known, f) \in Snapshots
           /\ DOMAIN With(known, f) = DOMAIN known \cup {f}
           /\ With(known, f)[f] = edits[f]
           /\ \A g \in DOMAIN known \ {f} : With(known, f)[g] = known[g]
<1>1. PICK S \in SUBSET Files : known \in [S -> 0..MaxEdits]
  BY SnapshotDef
<1>2. With(known, f) \in [S \cup {f} -> 0..MaxEdits]
  BY <1>1 DEF With, TypeOK
<1>3. S \cup {f} \in SUBSET Files
  OBVIOUS
<1>4. With(known, f) \in Snapshots
  BY <1>2, <1>3, SnapshotDef
<1> QED
  BY <1>1, <1>4 DEF With

LEMMA NewLocalsType == NewLocals \in Locals
<1>1. << >> \in [{} -> Snapshots] /\ {} \in SUBSET (0..Depth)
  OBVIOUS
<1>2. << >> \in UNION {[I -> Snapshots] : I \in SUBSET (0..Depth)}
  BY <1>1
<1> QED
  BY <1>2, EmptySnapshot, ConfigAssumption DEF NewLocals, Locals

\* The locals of one process are records, whoever it is.
LEMMA LocFields ==
    ASSUME TypeOK, NEW p \in Procs
    PROVE  /\ loc[p] \in Locals
           /\ loc[p].todo \subseteq Files
           /\ loc[p].stamps \in Snapshots /\ loc[p].read \in Snapshots
           /\ loc[p].want \in 0..Depth
           /\ loc[p].rows \in Seq(Snapshots \cup {NoRow})
BY DEF TypeOK, Locals

\* What an update of one process's locals leaves to the others.
LEMMA LocStep ==
    ASSUME TypeOK, NEW p \in Procs, NEW new \in Locals,
           new.todo \cup DOMAIN new.stamps \subseteq SourcesOf[p],
           loc' = [loc EXCEPT ![p] = new]
    PROVE  /\ loc' \in [Procs -> Locals]
           /\ loc'[p] = new
           /\ \A q \in Procs \ {p} : loc'[q] = loc[q]
           /\ \A q \in Procs :
                 loc'[q].todo \cup DOMAIN loc'[q].stamps \subseteq SourcesOf[q]
BY DEF TypeOK

LEMMA ResetStep ==
    ASSUME TypeOK, NEW p \in Procs, Reset(p)
    PROVE  /\ loc' \in [Procs -> Locals]
           /\ loc'[p] = NewLocals
           /\ \A q \in Procs \ {p} : loc'[q] = loc[q]
           /\ \A q \in Procs :
                 loc'[q].todo \cup DOMAIN loc'[q].stamps \subseteq SourcesOf[q]
<1>1. NewLocals.todo \cup DOMAIN NewLocals.stamps \subseteq SourcesOf[p]
  BY DEF NewLocals
<1> QED
  BY <1>1, LocStep, NewLocalsType DEF Reset

LEMMA InitInv == Init => IInv
<1> SUFFICES ASSUME Init PROVE IInv
  OBVIOUS
<1>1. TypeOK
  <2>1. edits \in [Files -> 0..MaxEdits]
    BY ConfigAssumption DEF Init
  <2>2. adhoc \in [Prefixes -> Snapshots \cup {NoRow}]
    BY DEF Init
  <2>3. /\ loc \in [Procs -> Locals]
        /\ \A p \in Procs : loc[p] = NewLocals
    BY NewLocalsType DEF Init
  <2>4. \A p \in Procs :
           loc[p].todo \cup DOMAIN loc[p].stamps \subseteq SourcesOf[p]
    BY <2>3 DEF NewLocals
  <2>5. stage \in [Procs -> Stages]
    BY DEF Init, Stages
  <2> QED
    BY <2>1, <2>2, <2>3, <2>4, <2>5, EmptySnapshot DEF Init, TypeOK
<1>2. CacheCurrent
  BY DEF Init, CacheCurrent
<1>3. SyncInv
  BY DEF Init, SyncInv, NewLocals
<1>4. RowsInv /\ LookInv
  BY DEF Init, RowsInv, LookInv, NewLocals
<1>5. AdhocFresh
  BY DEF Init, AdhocFresh
<1> QED
  BY <1>1, <1>2, <1>3, <1>4, <1>5 DEF IInv

----------------------------------------------------------------------------
\* Each update of the locals, once: the fields it sets and those it keeps.

LEMMA SetFound ==
    ASSUME TypeOK, NEW p \in Procs, NEW v \in BOOLEAN
    PROVE  LET new == [loc[p] EXCEPT !.found = v]
           IN /\ new \in Locals
              /\ new.todo = loc[p].todo /\ new.stamps = loc[p].stamps
              /\ new.read = loc[p].read /\ new.want = loc[p].want
              /\ new.rows = loc[p].rows
BY LocFields DEF Locals

LEMMA SetTodo ==
    ASSUME TypeOK, NEW p \in Procs, NEW v \in SUBSET Files
    PROVE  LET new == [loc[p] EXCEPT !.todo = v]
           IN /\ new \in Locals
              /\ new.todo = v /\ new.stamps = loc[p].stamps
              /\ new.read = loc[p].read /\ new.want = loc[p].want
              /\ new.rows = loc[p].rows
BY LocFields DEF Locals

LEMMA SetWant ==
    ASSUME TypeOK, NEW p \in Procs, NEW v \in 0..Depth
    PROVE  LET new == [loc[p] EXCEPT !.want = v]
           IN /\ new \in Locals
              /\ new.todo = loc[p].todo /\ new.stamps = loc[p].stamps
              /\ new.read = loc[p].read /\ new.want = v
              /\ new.rows = loc[p].rows
BY LocFields DEF Locals

LEMMA SetRows ==
    ASSUME TypeOK, NEW p \in Procs, NEW v \in Seq(Snapshots \cup {NoRow})
    PROVE  LET new == [loc[p] EXCEPT !.rows = v]
           IN /\ new \in Locals
              /\ new.todo = loc[p].todo /\ new.stamps = loc[p].stamps
              /\ new.read = loc[p].read /\ new.want = loc[p].want
              /\ new.rows = v
BY LocFields DEF Locals

LEMMA SetResult ==
    ASSUME TypeOK, NEW p \in Procs, NEW I \in SUBSET (0..Depth),
           NEW v \in [I -> Snapshots]
    PROVE  LET new == [loc[p] EXCEPT !.result = v]
           IN /\ new \in Locals
              /\ new.todo = loc[p].todo /\ new.stamps = loc[p].stamps
              /\ new.read = loc[p].read /\ new.want = loc[p].want
              /\ new.rows = loc[p].rows
BY LocFields DEF Locals

----------------------------------------------------------------------------
\* What each action does to the locals.

LocsAre(p, todo, stamps, read, want, rows) ==
    /\ loc' \in [Procs -> Locals]
    /\ \A q \in Procs \ {p} : loc'[q] = loc[q]
    /\ \A q \in Procs :
          loc'[q].todo \cup DOMAIN loc'[q].stamps \subseteq SourcesOf[q]
    /\ loc'[p].todo = todo /\ loc'[p].stamps = stamps
    /\ loc'[p].read = read /\ loc'[p].want = want /\ loc'[p].rows = rows

LEMMA ResetLoc ==
    ASSUME TypeOK, NEW p \in Procs, Reset(p)
    PROVE  LocsAre(p, {}, << >>, << >>, 0, << >>)
BY ResetStep DEF LocsAre, NewLocals

LEMMA KeptLoc ==
    ASSUME TypeOK, NEW p \in Procs, UNCHANGED loc
    PROVE  LocsAre(p, loc[p].todo, loc[p].stamps, loc[p].read, loc[p].want,
                   loc[p].rows)
BY DEF LocsAre, TypeOK

LEMMA ReadVersionLoc ==
    ASSUME TypeOK, NEW p \in Procs, ReadVersion(p)
    PROVE  LocsAre(p, loc[p].todo, loc[p].stamps, loc[p].read, loc[p].want,
                   loc[p].rows)
<1> DEFINE new == [loc[p] EXCEPT !.found = (database = "stamped")]
<1>1. loc' = [loc EXCEPT ![p] = new]
  BY DEF ReadVersion
<1>2. /\ new \in Locals
      /\ new.todo = loc[p].todo /\ new.stamps = loc[p].stamps
      /\ new.read = loc[p].read /\ new.want = loc[p].want
      /\ new.rows = loc[p].rows
  BY SetFound
<1> HIDE DEF new
<1>3. new.todo \cup DOMAIN new.stamps \subseteq SourcesOf[p]
  BY <1>2 DEF TypeOK
<1> QED
  BY <1>1, <1>2, <1>3, LocStep DEF LocsAre

LEMMA ListSourcesLoc ==
    ASSUME TypeOK, NEW p \in Procs, ListSources(p)
    PROVE  LocsAre(p, Sources(p), loc[p].stamps, loc[p].read, loc[p].want,
                   loc[p].rows)
<1> DEFINE new == [loc[p] EXCEPT !.todo = Sources(p)]
<1>1. loc' = [loc EXCEPT ![p] = new]
  BY DEF ListSources
<1>2. Sources(p) \in SUBSET Files /\ Sources(p) \subseteq SourcesOf[p]
  BY ConfigAssumption DEF Sources
<1>3. /\ new \in Locals
      /\ new.todo = Sources(p) /\ new.stamps = loc[p].stamps
      /\ new.read = loc[p].read /\ new.want = loc[p].want
      /\ new.rows = loc[p].rows
  BY <1>2, SetTodo
<1> HIDE DEF new
<1>4. new.todo \cup DOMAIN new.stamps \subseteq SourcesOf[p]
  BY <1>2, <1>3 DEF TypeOK
<1> QED
  BY <1>1, <1>3, <1>4, LocStep DEF LocsAre

LEMMA StampsLoc ==
    ASSUME TypeOK, NEW p \in Procs, NEW v \in SUBSET Files,
           NEW w \in Snapshots, v \cup DOMAIN w \subseteq SourcesOf[p],
           loc' = [loc EXCEPT ![p] = [@ EXCEPT !.todo = v, !.stamps = w]]
    PROVE  LocsAre(p, v, w, loc[p].read, loc[p].want, loc[p].rows)
<1> DEFINE new == [loc[p] EXCEPT !.todo = v, !.stamps = w]
<1>1. loc' = [loc EXCEPT ![p] = new]
  OBVIOUS
<1>2. /\ new \in Locals
      /\ new.todo = v /\ new.stamps = w
      /\ new.read = loc[p].read /\ new.want = loc[p].want
      /\ new.rows = loc[p].rows
  BY LocFields DEF Locals
<1> HIDE DEF new
<1> QED
  BY <1>1, <1>2, LocStep DEF LocsAre

LEMMA ReadLoc ==
    ASSUME TypeOK, NEW p \in Procs, NEW v \in SUBSET Files,
           NEW w \in Snapshots,
           loc' = [loc EXCEPT ![p] = [@ EXCEPT !.todo = v, !.read = w]],
           v \subseteq loc[p].todo
    PROVE  LocsAre(p, v, loc[p].stamps, w, loc[p].want, loc[p].rows)
<1> DEFINE new == [loc[p] EXCEPT !.todo = v, !.read = w]
<1>1. loc' = [loc EXCEPT ![p] = new]
  OBVIOUS
<1>2. /\ new \in Locals
      /\ new.todo = v /\ new.stamps = loc[p].stamps
      /\ new.read = w /\ new.want = loc[p].want
      /\ new.rows = loc[p].rows
  BY LocFields DEF Locals
<1> HIDE DEF new
<1>3. new.todo \cup DOMAIN new.stamps \subseteq SourcesOf[p]
  BY <1>2 DEF TypeOK
<1> QED
  BY <1>1, <1>2, <1>3, LocStep DEF LocsAre

LEMMA StatFileLoc ==
    ASSUME TypeOK, NEW p \in Procs, StatFile(p)
    PROVE  \E f \in loc[p].todo :
              LocsAre(p, loc[p].todo \ {f}, With(loc[p].stamps, f),
                      loc[p].read, loc[p].want, loc[p].rows)
<1>1. PICK f \in loc[p].todo :
         loc' = [loc EXCEPT ![p] = [@ EXCEPT !.todo = loc[p].todo \ {f},
                                            !.stamps = With(loc[p].stamps, f)]]
  BY DEF StatFile, IsFirst
<1> DEFINE v == loc[p].todo \ {f}
           w == With(loc[p].stamps, f)
<1>2. /\ v \in SUBSET Files /\ w \in Snapshots
      /\ DOMAIN w = DOMAIN loc[p].stamps \cup {f}
  BY <1>1, LocFields, WithFacts
<1>3. v \cup DOMAIN w \subseteq SourcesOf[p]
  BY <1>1, <1>2 DEF TypeOK
<1>4. loc' = [loc EXCEPT ![p] = [@ EXCEPT !.todo = v, !.stamps = w]]
  BY <1>1
<1> HIDE DEF v, w
<1>5. LocsAre(p, v, w, loc[p].read, loc[p].want, loc[p].rows)
  BY <1>2, <1>3, <1>4, StampsLoc
<1> QED
  BY <1>5 DEF v, w

LEMMA ParseFileLoc ==
    ASSUME TypeOK, NEW p \in Procs, ParseFile(p)
    PROVE  \E f \in loc[p].todo :
              LocsAre(p, loc[p].todo \ {f}, loc[p].stamps,
                      With(loc[p].read, f), loc[p].want, loc[p].rows)
<1>1. PICK f \in loc[p].todo :
         loc' = [loc EXCEPT ![p] = [@ EXCEPT !.todo = loc[p].todo \ {f},
                                            !.read = With(loc[p].read, f)]]
  BY DEF ParseFile, IsFirst
<1> DEFINE v == loc[p].todo \ {f}
           w == With(loc[p].read, f)
<1>2. v \in SUBSET Files /\ w \in Snapshots /\ v \subseteq loc[p].todo
  BY <1>1, LocFields, WithFacts
<1>3. loc' = [loc EXCEPT ![p] = [@ EXCEPT !.todo = v, !.read = w]]
  BY <1>1
<1> HIDE DEF v, w
<1>4. LocsAre(p, v, loc[p].stamps, w, loc[p].want, loc[p].rows)
  BY <1>2, <1>3, ReadLoc
<1> QED
  BY <1>4 DEF v, w

LEMMA CompareLoc ==
    ASSUME TypeOK, NEW p \in Procs, Compare(p), ~Cached(p)
    PROVE  LocsAre(p, DOMAIN loc[p].stamps, loc[p].stamps, loc[p].read,
                   loc[p].want, loc[p].rows)
<1> DEFINE new == [loc[p] EXCEPT !.todo = DOMAIN loc[p].stamps]
<1>1. loc' = [loc EXCEPT ![p] = new]
  BY DEF Compare
<1>2. DOMAIN loc[p].stamps \in SUBSET Files
  BY LocFields, SnapshotDef
<1>3. /\ new \in Locals
      /\ new.todo = DOMAIN loc[p].stamps /\ new.stamps = loc[p].stamps
      /\ new.read = loc[p].read /\ new.want = loc[p].want
      /\ new.rows = loc[p].rows
  BY <1>2, SetTodo
<1> HIDE DEF new
<1>4. new.todo \cup DOMAIN new.stamps \subseteq SourcesOf[p]
  BY <1>3 DEF TypeOK
<1> QED
  BY <1>1, <1>3, <1>4, LocStep DEF LocsAre

LEMMA ChooseLoc ==
    ASSUME TypeOK, NEW p \in Procs, Choose(p)
    PROVE  \E want \in 0..Depth :
              /\ LocsAre(p, loc[p].todo, loc[p].stamps, loc[p].read, want,
                         loc[p].rows)
              /\ Goto(p, IF want > 0 /\ adhoc[want] = NoRow
                         THEN "looking" ELSE "folding")
<1>1. PICK want \in 0..Depth :
         /\ loc' = [loc EXCEPT ![p].want = want]
         /\ Goto(p, IF want > 0 /\ adhoc[want] = NoRow
                    THEN "looking" ELSE "folding")
  BY DEF Choose
<1> DEFINE new == [loc[p] EXCEPT !.want = want]
<1>2. loc' = [loc EXCEPT ![p] = new]
  BY <1>1
<1>3. /\ new \in Locals
      /\ new.todo = loc[p].todo /\ new.stamps = loc[p].stamps
      /\ new.read = loc[p].read /\ new.want = want
      /\ new.rows = loc[p].rows
  BY SetWant
<1> HIDE DEF new
<1>4. new.todo \cup DOMAIN new.stamps \subseteq SourcesOf[p]
  BY <1>3 DEF TypeOK
<1> QED
  BY <1>1, <1>2, <1>3, <1>4, LocStep DEF LocsAre

LEMMA RowsLoc ==
    ASSUME TypeOK, NEW p \in Procs, NEW rows \in Seq(Snapshots \cup {NoRow}),
           loc' = [loc EXCEPT ![p].rows = rows]
    PROVE  LocsAre(p, loc[p].todo, loc[p].stamps, loc[p].read, loc[p].want,
                   rows)
<1> DEFINE new == [loc[p] EXCEPT !.rows = rows]
<1>1. loc' = [loc EXCEPT ![p] = new]
  OBVIOUS
<1>2. /\ new \in Locals
      /\ new.todo = loc[p].todo /\ new.stamps = loc[p].stamps
      /\ new.read = loc[p].read /\ new.want = loc[p].want
      /\ new.rows = rows
  BY SetRows
<1> HIDE DEF new
<1>3. new.todo \cup DOMAIN new.stamps \subseteq SourcesOf[p]
  BY <1>2 DEF TypeOK
<1> QED
  BY <1>1, <1>2, <1>3, LocStep DEF LocsAre

\* The row a look at prefix i puts in hand.
Looked(i) == IF adhoc[i] = NoRow THEN config ELSE NoRow

LEMMA LookUpLoc ==
    ASSUME TypeOK, NEW p \in Procs, LookUp(p)
    PROVE  LocsAre(p, loc[p].todo, loc[p].stamps, loc[p].read, loc[p].want,
                   Append(loc[p].rows, Looked(Len(loc[p].rows) + 1)))
<1> DEFINE rows == Append(loc[p].rows, Looked(Len(loc[p].rows) + 1))
<1>1. loc' = [loc EXCEPT ![p].rows = rows]
  BY DEF LookUp, Looked
<1>2. rows \in Seq(Snapshots \cup {NoRow})
  BY LocFields DEF TypeOK, Looked
<1> HIDE DEF rows
<1>3. LocsAre(p, loc[p].todo, loc[p].stamps, loc[p].read, loc[p].want, rows)
  BY <1>1, <1>2, RowsLoc
<1> QED
  BY <1>3 DEF rows

LEMMA InsertRowsLoc ==
    ASSUME TypeOK, NEW p \in Procs, InsertRows(p)
    PROVE  LocsAre(p, loc[p].todo, loc[p].stamps, loc[p].read, loc[p].want,
                   << >>)
<1>1. << >> \in Seq(Snapshots \cup {NoRow})
  OBVIOUS
<1>2. loc' = [loc EXCEPT ![p].rows = << >>]
  BY DEF InsertRows
<1> QED
  BY <1>1, <1>2, RowsLoc

LEMMA FoldLoc ==
    ASSUME TypeOK, NEW p \in Procs, Fold(p)
    PROVE  LocsAre(p, loc[p].todo, loc[p].stamps, loc[p].read, loc[p].want,
                   loc[p].rows)
<1> DEFINE linked(i) ==
              \A j \in Prefixes : j \in i..loc[p].want => adhoc[j] # NoRow
           I == {j \in 0..loc[p].want : linked(j)}
           v == [i \in I |-> IF i = 0 THEN config ELSE adhoc[i]]
           new == [loc[p] EXCEPT !.result = v]
<1>1. loc' = [loc EXCEPT ![p] = new]
  BY DEF Fold
<1>2. I \in SUBSET (0..Depth)
  BY LocFields, ConfigAssumption
<1>3. \A i \in I : (IF i = 0 THEN config ELSE adhoc[i]) \in Snapshots
  <2> SUFFICES ASSUME NEW i \in I, i # 0
               PROVE  adhoc[i] \in Snapshots
    BY DEF TypeOK
  <2>1. i \in Prefixes /\ i \in i..loc[p].want
    BY LocFields, ConfigAssumption DEF Prefixes
  <2> QED
    BY <2>1 DEF TypeOK
<1>4. v \in [I -> Snapshots]
  BY <1>3
<1> HIDE DEF v, I
<1>5. /\ new \in Locals
      /\ new.todo = loc[p].todo /\ new.stamps = loc[p].stamps
      /\ new.read = loc[p].read /\ new.want = loc[p].want
      /\ new.rows = loc[p].rows
  BY <1>2, <1>4, SetResult
<1> HIDE DEF new
<1>6. new.todo \cup DOMAIN new.stamps \subseteq SourcesOf[p]
  BY <1>5 DEF TypeOK
<1> QED
  BY <1>1, <1>5, <1>6, LocStep DEF LocsAre

----------------------------------------------------------------------------
\* Types.

\* Every action moves at most its own process to another stage.
LEMMA StageStep ==
    ASSUME TypeOK, NEW p \in Procs, Run(p)
    PROVE  /\ stage' \in [Procs -> Stages]
           /\ \A q \in Procs \ {p} : stage'[q] = stage[q]
<1>1. ASSUME NEW s \in Stages, Goto(p, s)
      PROVE  /\ stage' \in [Procs -> Stages]
             /\ \A q \in Procs \ {p} : stage'[q] = stage[q]
  BY <1>1 DEF Goto, TypeOK
<1>2. UNCHANGED stage \/ \E s \in Stages : Goto(p, s)
  <2>1. CASE Choose(p)
    BY <2>1, ChooseLoc, SMTT(60) DEF Stages
  <2>2. CASE ~Choose(p)
    BY <2>2 DEF Run, ReadVersion, CheckSchema, CreateSchema, StampVersion,
                ListSources, StatFile, Compare, ParseFile, WriteCache, LookUp,
                InsertRows, Fold, Fail, Stages, Ended
  <2> QED
    BY <2>1, <2>2
<1> QED
  BY <1>1, <1>2 DEF TypeOK

\* Every action touches the locals of its own process only.
LEMMA LocsStep ==
    ASSUME TypeOK, NEW p \in Procs, Run(p)
    PROVE  /\ loc' \in [Procs -> Locals]
           /\ \A q \in Procs \ {p} : loc'[q] = loc[q]
           /\ \A q \in Procs :
                 loc'[q].todo \cup DOMAIN loc'[q].stamps \subseteq SourcesOf[q]
<1>1. CASE ReadVersion(p)
  BY <1>1, ReadVersionLoc DEF LocsAre
<1>2. CASE CheckSchema(p) \/ WriteCache(p) \/ Fail(p)
  BY <1>2, ResetStep DEF CheckSchema, WriteCache, Fail
<1>3. CASE CreateSchema(p) \/ StampVersion(p)
  BY <1>3 DEF CreateSchema, StampVersion, TypeOK
<1>4. CASE ListSources(p)
  BY <1>4, ListSourcesLoc DEF LocsAre
<1>5. CASE StatFile(p)
  BY <1>5, StatFileLoc DEF LocsAre
<1>6. CASE ParseFile(p)
  BY <1>6, ParseFileLoc DEF LocsAre
<1>7. CASE Compare(p) /\ Cached(p)
  BY <1>7, ResetStep DEF Compare
<1>8. CASE Compare(p) /\ ~Cached(p)
  BY <1>8, CompareLoc DEF LocsAre
<1>9. CASE Choose(p)
  BY <1>9, ChooseLoc DEF LocsAre
<1>10. CASE LookUp(p)
  BY <1>10, LookUpLoc DEF LocsAre
<1>11. CASE InsertRows(p)
  BY <1>11, InsertRowsLoc DEF LocsAre
<1>12. CASE Fold(p)
  BY <1>12, FoldLoc DEF LocsAre
<1> QED
  BY <1>1, <1>2, <1>3, <1>4, <1>5, <1>6, <1>7, <1>8, <1>9, <1>10, <1>11,
     <1>12 DEF Run

\* What InsertRows leaves in the table.
LEMMA InsertedType ==
    ASSUME TypeOK, RowsInv, NEW p \in Procs, InsertRows(p)
    PROVE  /\ adhoc' \in [Prefixes -> Snapshots \cup {NoRow}]
           /\ \A i \in Prefixes :
                 adhoc'[i] = IF Inserted(p, i) THEN loc[p].rows[i] ELSE adhoc[i]
           /\ \A i \in Prefixes : Inserted(p, i) =>
                 i \in 1..Len(loc[p].rows) /\ loc[p].rows[i] # NoRow
<1>1. Len(loc[p].rows) = loc[p].want
  BY DEF InsertRows, At, RowsInv
<1>2. \A i \in Prefixes : Inserted(p, i) =>
         i \in 1..Len(loc[p].rows) /\ loc[p].rows[i] # NoRow
  BY <1>1, LocFields, ConfigAssumption DEF Inserted, Prefixes
<1>3. \A i \in Prefixes :
         (IF Inserted(p, i) THEN loc[p].rows[i] ELSE adhoc[i])
            \in Snapshots \cup {NoRow}
  BY <1>2, LocFields DEF TypeOK
<1> QED
  BY <1>2, <1>3 DEF InsertRows

LEMMA TypeStep ==
    ASSUME TypeOK, RowsInv, NEW p \in Procs, Run(p)
    PROVE  TypeOK'
<1>1. /\ stage' \in [Procs -> Stages]
      /\ loc' \in [Procs -> Locals]
      /\ \A q \in Procs :
            loc'[q].todo \cup DOMAIN loc'[q].stamps \subseteq SourcesOf[q]
  BY StageStep, LocsStep, SMTT(60)
<1>2. UNCHANGED world
  BY DEF Run, ReadVersion, CheckSchema, CreateSchema, StampVersion,
         ListSources, StatFile, Compare, ParseFile, WriteCache, Choose, LookUp,
         InsertRows, Fold, Fail
<1>3. database' \in {"empty", "unstamped", "stamped"}
  BY DEF TypeOK, Run, ReadVersion, CheckSchema, CreateSchema, StampVersion,
         ListSources, StatFile, Compare, ParseFile, WriteCache, Choose, LookUp,
         InsertRows, Fold, Fail
<1>4. quiet' \subseteq Procs /\ overtaken' \subseteq Procs /\ raced' \in BOOLEAN
  <2>1. CASE InsertRows(p)
    BY <2>1 DEF InsertRows, TypeOK
  <2>2. CASE ~InsertRows(p)
    BY <2>2 DEF TypeOK, ghosts, Run, ReadVersion, CheckSchema, CreateSchema,
                StampVersion, ListSources, StatFile, Compare, ParseFile,
                WriteCache, Choose, LookUp, Fold, Fail
  <2> QED
    BY <2>1, <2>2
<1>5. /\ config' \in Snapshots /\ meta' \in Snapshots
      /\ adhoc' \in [Prefixes -> Snapshots \cup {NoRow}]
  <2>1. CASE WriteCache(p)
    BY <2>1, LocFields DEF WriteCache, Recorded, Kept
  <2>2. CASE InsertRows(p)
    BY <2>2, InsertedType DEF InsertRows, TypeOK
  <2>3. CASE ~WriteCache(p) /\ ~InsertRows(p)
    BY <2>3 DEF TypeOK, cache, Run, ReadVersion, CheckSchema, CreateSchema,
                StampVersion, ListSources, StatFile, Compare, ParseFile,
                Choose, LookUp, Fold, Fail
  <2> QED
    BY <2>1, <2>2, <2>3
<1> QED
  BY <1>1, <1>2, <1>3, <1>4, <1>5 DEF TypeOK, world

----------------------------------------------------------------------------
\* The stamps and the keys.

\* Only WriteCache changes the configured rows and their stamps.
LEMMA CacheKept ==
    ASSUME NEW p \in Procs, Run(p), ~WriteCache(p)
    PROVE  UNCHANGED <<config, meta>>
BY DEF cache, Run, ReadVersion, CheckSchema, CreateSchema, StampVersion,
       ListSources, StatFile, Compare, ParseFile, Choose, LookUp, InsertRows,
       Fold, Fail

LEMMA WorldKept ==
    ASSUME NEW p \in Procs, Run(p)
    PROVE  UNCHANGED <<edits, present>>
BY DEF world, Run, ReadVersion, CheckSchema, CreateSchema, StampVersion,
       ListSources, StatFile, Compare, ParseFile, WriteCache, Choose, LookUp,
       InsertRows, Fold, Fail

LEMMA CacheStep ==
    ASSUME TypeOK, CacheCurrent, SyncInv, NEW p \in Procs, Run(p)
    PROVE  CacheCurrent'
<1>1. CASE WriteCache(p)
  <2>1. config' = loc[p].read /\ meta' = loc[p].stamps
    BY <1>1 DEF WriteCache, Recorded
  <2>2. stage[p] = "parsing" /\ loc[p].todo = {}
    BY <1>1 DEF WriteCache, At
  <2> QED
    BY <2>1, <2>2, WorldKept DEF SyncInv, CacheCurrent
<1>2. CASE ~WriteCache(p)
  BY <1>2, CacheKept, WorldKept DEF CacheCurrent
<1> QED
  BY <1>1, <1>2

\* SyncInv of a process at stage s with the locals l.
Synced(s, l) ==
    /\ s \in {"idle", "probed", "creating", "stamping", "opened"}
          => DOMAIN l.stamps = {}
    /\ s # "parsing" => DOMAIN l.read = {}
    /\ \A f \in DOMAIN l.stamps : l.stamps[f] <= edits[f]
    /\ s = "parsing" =>
          /\ DOMAIN l.stamps = l.todo \cup DOMAIN l.read
          /\ \A f \in DOMAIN l.read :
                /\ l.stamps[f] <= l.read[f]
                /\ l.read[f] <= edits[f]

LEMMA EditsNat ==
    ASSUME TypeOK, NEW p \in Procs, NEW f \in loc[p].todo
    PROVE  f \in Files /\ edits[f] \in Nat
<1>1. f \in Files
  BY LocFields
<1>2. edits[f] \in 0..MaxEdits
  BY <1>1 DEF TypeOK
<1> QED
  BY <1>1, <1>2, ConfigAssumption

LEMMA SyncStep ==
    ASSUME TypeOK, TypeOK', SyncInv, NEW p \in Procs, Run(p)
    PROVE  SyncInv'
<1>1. edits' = edits
  BY WorldKept
<1>2. Synced(stage[p], loc[p])
  BY DEF SyncInv, Synced
<1>3. ASSUME NEW q \in Procs \ {p} PROVE Synced(stage'[q], loc'[q])
  BY <1>1, <1>3, StageStep, LocsStep DEF SyncInv, Synced
<1> SUFFICES Synced(stage'[p], loc'[p])
  <2>1. ASSUME Synced(stage'[p], loc'[p])
        PROVE  \A q \in Procs : Synced(stage'[q], loc'[q])
    BY <1>3, <2>1
  <2> QED
    BY <1>1, <2>1 DEF SyncInv, Synced
<1>4. ASSUME Reset(p) PROVE Synced(stage'[p], loc'[p])
  <2>1. /\ loc'[p].todo = {} /\ DOMAIN loc'[p].stamps = {}
        /\ DOMAIN loc'[p].read = {}
    BY <1>4, ResetLoc DEF LocsAre
  <2> QED
    BY <2>1 DEF Synced
<1>5. ASSUME stage'[p] # "parsing", stage[p] # "parsing",
             stage'[p] \in {"idle", "probed", "creating", "stamping", "opened"}
               => stage[p] \in {"idle", "probed", "creating", "stamping",
                                "opened"},
             loc'[p].stamps = loc[p].stamps, loc'[p].read = loc[p].read
      PROVE  Synced(stage'[p], loc'[p])
  BY <1>1, <1>2, <1>5 DEF Synced
<1>6. CASE ReadVersion(p) \/ CreateSchema(p) \/ StampVersion(p)
  <2>1. loc'[p].stamps = loc[p].stamps /\ loc'[p].read = loc[p].read
    BY <1>6, ReadVersionLoc DEF LocsAre, CreateSchema, StampVersion
  <2>2. /\ stage[p] \in {"idle", "creating", "stamping"}
        /\ stage'[p] \in {"probed", "stamping", "opened"}
    BY <1>6 DEF ReadVersion, CreateSchema, StampVersion, At, Goto, TypeOK
  <2> QED
    BY <1>5, <2>1, <2>2
<1>7. CASE CheckSchema(p) \/ WriteCache(p) \/ Fail(p)
  BY <1>4, <1>7 DEF CheckSchema, WriteCache, Fail
<1>8. CASE ListSources(p)
  <2>1. loc'[p].stamps = loc[p].stamps /\ loc'[p].read = loc[p].read
    BY <1>8, ListSourcesLoc DEF LocsAre
  <2>2. stage[p] = "opened" /\ stage'[p] = "statting"
    BY <1>8 DEF ListSources, At, Goto, TypeOK
  <2> QED
    BY <1>5, <2>1, <2>2
<1>9. CASE StatFile(p)
  <2>1. PICK f \in loc[p].todo :
           LocsAre(p, loc[p].todo \ {f}, With(loc[p].stamps, f),
                   loc[p].read, loc[p].want, loc[p].rows)
    BY <1>9, StatFileLoc
  <2>2. f \in Files /\ edits[f] \in Nat
    BY EditsNat
  <2>3. /\ DOMAIN With(loc[p].stamps, f) = DOMAIN loc[p].stamps \cup {f}
        /\ With(loc[p].stamps, f)[f] = edits[f]
        /\ \A g \in DOMAIN loc[p].stamps \ {f} :
              With(loc[p].stamps, f)[g] = loc[p].stamps[g]
    BY <2>2, LocFields, WithFacts
  <2>4. loc'[p].stamps = With(loc[p].stamps, f) /\ loc'[p].read = loc[p].read
    BY <2>1 DEF LocsAre
  <2>5. stage[p] = "statting" /\ stage'[p] = "statting"
    BY <1>9 DEF StatFile, At
  <2>6. \A g \in DOMAIN loc'[p].stamps : loc'[p].stamps[g] <= edits[g]
    BY <1>2, <2>2, <2>3, <2>4 DEF Synced
  <2> QED
    BY <1>1, <1>2, <2>4, <2>5, <2>6 DEF Synced
<1>10. CASE ParseFile(p)
  <2>1. PICK f \in loc[p].todo :
           LocsAre(p, loc[p].todo \ {f}, loc[p].stamps,
                   With(loc[p].read, f), loc[p].want, loc[p].rows)
    BY <1>10, ParseFileLoc
  <2>2. f \in Files /\ edits[f] \in Nat
    BY EditsNat
  <2>3. /\ DOMAIN With(loc[p].read, f) = DOMAIN loc[p].read \cup {f}
        /\ With(loc[p].read, f)[f] = edits[f]
        /\ \A g \in DOMAIN loc[p].read \ {f} :
              With(loc[p].read, f)[g] = loc[p].read[g]
    BY <2>2, LocFields, WithFacts
  <2>4. /\ loc'[p].stamps = loc[p].stamps
        /\ loc'[p].read = With(loc[p].read, f)
        /\ loc'[p].todo = loc[p].todo \ {f}
    BY <2>1 DEF LocsAre
  <2>5. stage[p] = "parsing" /\ stage'[p] = "parsing"
    BY <1>10 DEF ParseFile, At
  <2>6. DOMAIN loc'[p].stamps = loc'[p].todo \cup DOMAIN loc'[p].read
    BY <1>2, <2>3, <2>4, <2>5 DEF Synced
  <2>7. loc[p].stamps[f] <= edits[f]
    BY <1>2, <2>5 DEF Synced
  <2>8. \A g \in DOMAIN loc'[p].read :
           /\ loc'[p].stamps[g] <= loc'[p].read[g]
           /\ loc'[p].read[g] <= edits[g]
    BY <1>2, <2>2, <2>3, <2>4, <2>5, <2>7 DEF Synced
  <2> QED
    BY <1>1, <1>2, <2>4, <2>5, <2>6, <2>8 DEF Synced
<1>11. CASE Compare(p) /\ Cached(p)
  BY <1>4, <1>11 DEF Compare
<1>12. CASE Compare(p) /\ ~Cached(p)
  <2>1. /\ loc'[p].stamps = loc[p].stamps /\ loc'[p].read = loc[p].read
        /\ loc'[p].todo = DOMAIN loc[p].stamps
    BY <1>12, CompareLoc DEF LocsAre
  <2>2. stage[p] = "statting" /\ stage'[p] = "parsing"
    BY <1>12 DEF Compare, At, Goto, TypeOK
  <2> QED
    BY <1>1, <1>2, <2>1, <2>2 DEF Synced
<1>13. CASE Choose(p) \/ LookUp(p) \/ InsertRows(p) \/ Fold(p)
  <2>1. loc'[p].stamps = loc[p].stamps /\ loc'[p].read = loc[p].read
    BY <1>13, ChooseLoc, LookUpLoc, InsertRowsLoc, FoldLoc DEF LocsAre
  <2>2. /\ stage[p] \in {"synced", "looking", "inserting", "folding"}
        /\ stage'[p] \in {"looking", "inserting", "folding", "resolved"}
    <3>1. CASE Choose(p)
      BY <3>1, ChooseLoc DEF Choose, At, Goto, TypeOK
    <3>2. CASE LookUp(p)
      BY <3>2 DEF LookUp, At, Goto, TypeOK
    <3>3. CASE InsertRows(p) \/ Fold(p)
      BY <3>3 DEF InsertRows, Fold, At, Goto, TypeOK
    <3> QED
      BY <1>13, <3>1, <3>2, <3>3
  <2> QED
    BY <1>5, <2>1, <2>2
<1> QED
  BY <1>6, <1>7, <1>8, <1>9, <1>10, <1>11, <1>12, <1>13 DEF Run

----------------------------------------------------------------------------
\* The ad-hoc chain.

\* RowsInv of a process at stage s with the locals l.
Rowed(s, l) ==
    /\ s = "looking" => Len(l.rows) < l.want
    /\ s = "inserting" => Len(l.rows) = l.want
    /\ s \notin {"looking", "inserting"} => l.rows = << >>

LEMMA RowsStep ==
    ASSUME TypeOK, RowsInv, NEW p \in Procs, Run(p)
    PROVE  RowsInv'
<1>1. Rowed(stage[p], loc[p])
  BY DEF RowsInv, Rowed
<1>2. ASSUME NEW q \in Procs \ {p} PROVE Rowed(stage'[q], loc'[q])
  BY <1>2, StageStep, LocsStep DEF RowsInv, Rowed
<1> SUFFICES Rowed(stage'[p], loc'[p])
  <2>1. ASSUME Rowed(stage'[p], loc'[p])
        PROVE  \A q \in Procs : Rowed(stage'[q], loc'[q])
    BY <1>2, <2>1
  <2> QED
    BY <2>1 DEF RowsInv, Rowed
<1>3. ASSUME stage'[p] \notin {"looking", "inserting"}, loc'[p].rows = << >>
      PROVE  Rowed(stage'[p], loc'[p])
  BY <1>3 DEF Rowed
<1>4. CASE CheckSchema(p) \/ WriteCache(p) \/ Fail(p)
           \/ (Compare(p) /\ Cached(p))
  <2>1. loc'[p].rows = << >>
    BY <1>4, ResetLoc DEF CheckSchema, WriteCache, Fail, Compare, LocsAre
  <2>2. stage'[p] \in {"mismatch", "creating", "synced", "failed"}
    BY <1>4 DEF CheckSchema, WriteCache, Fail, Compare, Goto, TypeOK
  <2> QED
    BY <1>3, <2>1, <2>2
<1>5. CASE ReadVersion(p) \/ CreateSchema(p) \/ StampVersion(p)
           \/ ListSources(p)
  <2>1. loc'[p].rows = loc[p].rows
    BY <1>5, ReadVersionLoc, ListSourcesLoc
       DEF LocsAre, CreateSchema, StampVersion
  <2>2. /\ stage[p] \in {"idle", "creating", "stamping", "opened"}
        /\ stage'[p] \in {"probed", "stamping", "opened", "statting"}
    BY <1>5 DEF ReadVersion, CreateSchema, StampVersion, ListSources, At, Goto,
                TypeOK
  <2> QED
    BY <1>1, <1>3, <2>1, <2>2 DEF Rowed
<1>6. CASE StatFile(p) \/ ParseFile(p) \/ (Compare(p) /\ ~Cached(p))
  <2>1. loc'[p].rows = loc[p].rows
    BY <1>6, StatFileLoc, ParseFileLoc, CompareLoc DEF LocsAre
  <2>2. /\ stage[p] \in {"statting", "parsing"}
        /\ stage'[p] \in {"statting", "parsing"}
    BY <1>6 DEF StatFile, ParseFile, Compare, At, Goto, TypeOK
  <2> QED
    BY <1>1, <1>3, <2>1, <2>2 DEF Rowed
<1>7. CASE Choose(p)
  <2>1. PICK want \in 0..Depth :
           /\ LocsAre(p, loc[p].todo, loc[p].stamps, loc[p].read, want,
                      loc[p].rows)
           /\ Goto(p, IF want > 0 /\ adhoc[want] = NoRow
                      THEN "looking" ELSE "folding")
    BY <1>7, ChooseLoc
  <2>2. loc[p].rows = << >>
    BY <1>1, <1>7 DEF Choose, At, Rowed
  <2>3. loc'[p].rows = << >> /\ loc'[p].want = want
    BY <2>1, <2>2 DEF LocsAre
  <2>4. stage'[p] = IF want > 0 /\ adhoc[want] = NoRow
                    THEN "looking" ELSE "folding"
    BY <2>1 DEF Goto, TypeOK
  <2>5. Len(<< >>) = 0
    OBVIOUS
  <2> QED
    BY <2>3, <2>4, <2>5 DEF Rowed
<1>8. CASE LookUp(p)
  <2> DEFINE row == Looked(Len(loc[p].rows) + 1)
  <2>1. /\ loc'[p].rows = Append(loc[p].rows, row)
        /\ loc'[p].want = loc[p].want
    BY <1>8, LookUpLoc DEF LocsAre
  <2>2. Len(loc'[p].rows) = Len(loc[p].rows) + 1
    BY <2>1, LocFields
  <2>3. stage[p] = "looking"
    BY <1>8 DEF LookUp, At
  <2>4. stage'[p] = IF Len(loc[p].rows) + 1 = loc[p].want
                    THEN "inserting" ELSE "looking"
    BY <1>8, <2>3 DEF LookUp, Goto, TypeOK
  <2>5. Len(loc[p].rows) \in Nat /\ loc[p].want \in Nat
    BY LocFields, ConfigAssumption
  <2> QED
    BY <1>1, <2>1, <2>2, <2>3, <2>4, <2>5 DEF Rowed
<1>9. CASE InsertRows(p)
  <2>1. loc'[p].rows = << >>
    BY <1>9, InsertRowsLoc DEF LocsAre
  <2>2. stage'[p] = "folding"
    BY <1>9 DEF InsertRows, Goto, TypeOK
  <2> QED
    BY <1>3, <2>1, <2>2
<1>10. CASE Fold(p)
  <2>1. loc'[p].rows = loc[p].rows
    BY <1>10, FoldLoc DEF LocsAre
  <2>2. stage[p] = "folding" /\ stage'[p] = "resolved"
    BY <1>10 DEF Fold, At, Goto, TypeOK
  <2> QED
    BY <1>1, <1>3, <2>1, <2>2 DEF Rowed
<1> QED
  BY <1>4, <1>5, <1>6, <1>7, <1>8, <1>9, <1>10 DEF Run

\* LookInv of the rows one process has in hand.
FromTable(rows) == \A i \in 1..Len(rows) : rows[i] \in {NoRow, config}

LEMMA LookStep ==
    ASSUME TypeOK, RowsInv, LookInv, NEW p \in Procs, Run(p)
    PROVE  LookInv'
<1>1. FromTable(<< >>)
  BY DEF FromTable
<1>2. \A q \in Procs : q \notin overtaken => FromTable(loc[q].rows)
  BY DEF LookInv, FromTable
<1>3. CASE WriteCache(p)
  <2>1. \A q \in Procs : q \notin overtaken' => loc'[q].rows = << >>
    <3>1. loc'[p].rows = << >>
      BY <1>3, ResetLoc DEF WriteCache, LocsAre
    <3>2. \A q \in Procs \ {p} : loc'[q] = loc[q]
      BY LocsStep
    <3>3. overtaken' = {q \in Procs : loc[q].rows # << >>}
      BY <1>3 DEF WriteCache
    <3> QED
      BY <3>1, <3>2, <3>3
  <2> QED
    BY <2>1 DEF LookInv
<1>4. ASSUME config' = config, overtaken \ {p} \subseteq overtaken',
             p \notin overtaken' =>
                \/ loc'[p].rows = << >>
                \/ p \notin overtaken /\ FromTable(loc'[p].rows)
      PROVE  LookInv'
  <2>1. \A q \in Procs : q \notin overtaken' => FromTable(loc'[q].rows)
    BY <1>1, <1>2, <1>4, LocsStep
  <2> QED
    BY <1>4, <2>1 DEF LookInv, FromTable
<1>5. CASE LookUp(p)
  <2> DEFINE row == Looked(Len(loc[p].rows) + 1)
  <2>1. /\ loc'[p].rows = Append(loc[p].rows, row)
        /\ config' = config /\ overtaken' = overtaken
    BY <1>5, LookUpLoc DEF LookUp, LocsAre, cache, ghosts
  <2>2. row \in {NoRow, config}
    BY DEF Looked
  <2>3. row \in Snapshots \cup {NoRow}
    BY <2>2 DEF TypeOK
  <2> HIDE DEF row
  <2>4. ASSUME p \notin overtaken
        PROVE  FromTable(Append(loc[p].rows, row))
    BY <1>2, <2>2, <2>3, <2>4, LocFields DEF FromTable
  <2> QED
    BY <1>4, <2>1, <2>4
<1>6. CASE InsertRows(p) \/ Fail(p)
  <2>1. loc'[p].rows = << >>
    BY <1>6, InsertRowsLoc, ResetLoc DEF Fail, LocsAre
  <2>2. config' = config /\ overtaken' = overtaken \ {p}
    BY <1>6 DEF InsertRows, Fail, cache
  <2> QED
    BY <1>4, <2>1, <2>2
<1>7. CASE CheckSchema(p) \/ (Compare(p) /\ Cached(p))
  <2>1. loc'[p].rows = << >>
    BY <1>7, ResetLoc DEF CheckSchema, Compare, LocsAre
  <2>2. config' = config /\ overtaken' = overtaken
    BY <1>7 DEF CheckSchema, Compare, cache, ghosts
  <2> QED
    BY <1>4, <2>1, <2>2
<1>8. CASE \/ ReadVersion(p) \/ CreateSchema(p) \/ StampVersion(p)
           \/ ListSources(p) \/ StatFile(p) \/ ParseFile(p)
           \/ Compare(p) /\ ~Cached(p)
           \/ Choose(p) \/ Fold(p)
  <2>1. loc'[p].rows = loc[p].rows
    BY <1>8, ReadVersionLoc, ListSourcesLoc, StatFileLoc, ParseFileLoc,
       CompareLoc, ChooseLoc, FoldLoc
       DEF LocsAre, CreateSchema, StampVersion
  <2>2. config' = config /\ overtaken' = overtaken
    BY <1>8 DEF ReadVersion, CreateSchema, StampVersion, ListSources, StatFile,
                ParseFile, Compare, Choose, Fold, cache, ghosts
  <2> QED
    BY <1>2, <1>4, <2>1, <2>2
<1> QED
  BY <1>3, <1>5, <1>6, <1>7, <1>8 DEF Run

LEMMA FreshStep ==
    ASSUME TypeOK, RowsInv, LookInv, AdhocFresh, NEW p \in Procs, Run(p)
    PROVE  AdhocFresh'
<1>1. CASE WriteCache(p)
  BY <1>1 DEF WriteCache, Kept, AdhocFresh
<1>2. CASE InsertRows(p)
  <2> SUFFICES ASSUME NEW i \in Prefixes, ~raced', adhoc'[i] # NoRow
               PROVE  adhoc'[i] = config'
    BY DEF AdhocFresh
  <2>1. config' = config /\ ~raced /\ p \notin overtaken
    BY <1>2 DEF InsertRows
  <2>2. CASE Inserted(p, i)
    BY <1>2, <2>1, <2>2, InsertedType DEF LookInv
  <2>3. CASE ~Inserted(p, i)
    BY <1>2, <2>1, <2>3, InsertedType DEF AdhocFresh
  <2> QED
    BY <2>2, <2>3
<1>3. CASE ~WriteCache(p) /\ ~InsertRows(p)
  <2>1. UNCHANGED <<adhoc, config, raced>>
    BY <1>3 DEF cache, ghosts, Run, ReadVersion, CheckSchema, CreateSchema,
                StampVersion, ListSources, StatFile, Compare, ParseFile,
                Choose, LookUp, Fold, Fail
  <2> QED
    BY <2>1 DEF AdhocFresh
<1> QED
  BY <1>1, <1>2, <1>3

----------------------------------------------------------------------------
\* The user's steps, and all of them together.

\* An edit makes a stamp older, never newer.
LEMMA UserStep ==
    ASSUME IInv, NEW f \in Files, Edit(f) \/ Remove(f)
    PROVE  IInv'
<1>1. UNCHANGED <<database, config, meta, adhoc, stage, loc, overtaken, raced>>
  BY DEF Edit, Remove, cache
<1>2. /\ edits' \in [Files -> 0..MaxEdits]
      /\ \A g \in Files : edits[g] <= edits'[g]
      /\ \A g \in Files : edits[g] \in Nat /\ edits'[g] \in Nat
  <2>1. edits \in [Files -> 0..MaxEdits]
    BY DEF IInv, TypeOK
  <2>2. CASE Edit(f)
    BY <2>1, <2>2, ConfigAssumption DEF Edit
  <2>3. CASE Remove(f)
    BY <2>1, <2>3, ConfigAssumption DEF Remove
  <2> QED
    BY <2>2, <2>3
<1>3. present' \subseteq Files /\ quiet' \subseteq Procs
  BY DEF IInv, TypeOK, Edit, Remove
<1>4. TypeOK'
  BY <1>1, <1>2, <1>3 DEF IInv, TypeOK
<1>5. CacheCurrent'
  <2>1. \A g \in DOMAIN meta : g \in Files /\ meta[g] \in Nat
    BY SnapshotValue DEF IInv, TypeOK
  <2>2. \A g \in DOMAIN config : config[g] \in Nat
    BY SnapshotValue DEF IInv, TypeOK
  <2> QED
    BY <1>1, <1>2, <2>1, <2>2 DEF IInv, CacheCurrent
<1>6. SyncInv'
  <2>1. \A p \in Procs : \A g \in DOMAIN loc[p].stamps :
           g \in Files /\ loc[p].stamps[g] \in Nat
    BY SnapshotValue, LocFields DEF IInv
  <2>2. \A p \in Procs : \A g \in DOMAIN loc[p].read :
           g \in Files /\ loc[p].read[g] \in Nat
    BY SnapshotValue, LocFields DEF IInv
  <2> QED
    BY <1>1, <1>2, <2>1, <2>2 DEF IInv, SyncInv
<1>7. RowsInv' /\ LookInv' /\ AdhocFresh'
  BY <1>1 DEF IInv, RowsInv, LookInv, AdhocFresh
<1> QED
  BY <1>4, <1>5, <1>6, <1>7 DEF IInv

LEMMA NextInv == IInv /\ [Next]_vars => IInv'
<1> SUFFICES ASSUME IInv, [Next]_vars PROVE IInv'
  OBVIOUS
<1>1. ASSUME NEW p \in Procs, Run(p) PROVE IInv'
  <2>1. TypeOK'
    BY <1>1, TypeStep DEF IInv
  <2>2. CacheCurrent'
    BY <1>1, CacheStep DEF IInv
  <2>3. SyncInv'
    BY <1>1, <2>1, SyncStep DEF IInv
  <2>4. RowsInv' /\ LookInv' /\ AdhocFresh'
    BY <1>1, RowsStep, LookStep, FreshStep DEF IInv
  <2> QED
    BY <2>1, <2>2, <2>3, <2>4 DEF IInv
<1>2. ASSUME NEW f \in Files, Edit(f) \/ Remove(f) PROVE IInv'
  BY <1>2, UserStep
<1>3. CASE UNCHANGED vars
  BY <1>3 DEF vars, cache, world, ghosts, IInv, TypeOK, CacheCurrent, SyncInv,
              RowsInv, LookInv, AdhocFresh
<1> QED
  BY <1>1, <1>2, <1>3 DEF Next, AllEnded

\* The strengthening holds in every state.
THEOREM Invariance == Spec => []IInv
<1>1. IInv /\ [Next]_vars => IInv'
  BY NextInv
<1> QED
  BY <1>1, InitInv, PTL DEF Spec

\* Every variable keeps its type, and no process looks at another's files.
THEOREM TypeCorrect == Spec => []TypeOK
<1>1. IInv => TypeOK
  BY DEF IInv
<1> QED
  BY <1>1, Invariance, PTL

\* sync()'s promise (SPEC.md:707): stamps that match the files mean rows that
\* match them, for any number of processes, files and edits.
THEOREM StampsNeverAhead == Spec => []CacheCurrent
<1>1. IInv => CacheCurrent
  BY DEF IInv
<1> QED
  BY <1>1, Invariance, PTL

\* An ad-hoc row goes stale in one way only: its writer was overtaken between
\* its look and its insert.
THEOREM ChainsFresh == Spec => []AdhocFresh
<1>1. IInv => AdhocFresh
  BY DEF IInv
<1> QED
  BY <1>1, Invariance, PTL

----------------------------------------------------------------------------
\* What a command that runs alone gets.

\* Only what is being materialized can be overtaken.
OvertakenInv == \A p \in overtaken : loc[p].rows # << >>

\* A prefix a process found defined is defined still, as long as the table it
\* looked at is there.
SeenInv ==
    \A p \in Procs \ overtaken : \A i \in 1..Len(loc[p].rows) :
        loc[p].rows[i] = NoRow => adhoc[i] # NoRow

\* A chain that is there is there from its entry up.
ChainInv ==
    ~raced => \A i, j \in Prefixes :
                 j <= i /\ adhoc[i] # NoRow => adhoc[j] # NoRow

\* What an undisturbed command knows at each stage is what is the case.
AtStage(p) ==
    /\ stage[p] = "statting" =>
          loc[p].todo \cup DOMAIN loc[p].stamps = Sources(p)
    /\ stage[p] = "parsing" => DOMAIN loc[p].stamps = Sources(p)
    /\ stage[p] \in {"synced", "looking", "inserting", "folding"} =>
          config = Current(p)
    /\ stage[p] = "folding" /\ loc[p].want > 0 => adhoc[loc[p].want] # NoRow
    /\ stage[p] = "resolved" /\ (loc[p].want > 0 => ~raced) => ResolvesTo(p)

\* It is the only one that runs, it has not been overtaken, and the stamps it
\* took still stand.
Alone(p) ==
    /\ \A q \in Procs \ {p} : ~Running(q)
    /\ p \notin overtaken
    /\ \A f \in DOMAIN loc[p].stamps : loc[p].stamps[f] = edits[f]
    /\ AtStage(p)

AloneInv == \A p \in quiet : Alone(p)

TableInv == OvertakenInv /\ SeenInv /\ ChainInv

\* The strengthening of AloneIsCurrent.
SoloInv == IInv /\ TableInv /\ AloneInv

LEMMA InitSolo == Init => TableInv /\ AloneInv
<1> SUFFICES ASSUME Init PROVE TableInv /\ AloneInv
  OBVIOUS
<1>1. OvertakenInv /\ AloneInv /\ ChainInv
  BY DEF Init, OvertakenInv, AloneInv, ChainInv
<1>2. \A p \in Procs : loc[p].rows = << >>
  BY DEF Init, NewLocals
<1>3. SeenInv
  BY <1>2 DEF SeenInv
<1> QED
  BY <1>1, <1>3 DEF TableInv

\* Who has rows in hand is materializing.
LEMMA HasRows ==
    ASSUME RowsInv, NEW p \in Procs, stage[p] \notin {"looking", "inserting"}
    PROVE  loc[p].rows = << >>
BY DEF RowsInv

LEMMA OvertakenStep ==
    ASSUME TypeOK, RowsInv, OvertakenInv, NEW p \in Procs, Run(p)
    PROVE  OvertakenInv'
<1>1. overtaken \subseteq Procs
  BY DEF TypeOK
<1>2. CASE WriteCache(p)
  <2>1. overtaken' = {q \in Procs : loc[q].rows # << >>}
    BY <1>2 DEF WriteCache
  <2>2. loc[p].rows = << >>
    BY <1>2, HasRows DEF WriteCache, At
  <2> QED
    BY <2>1, <2>2, LocsStep DEF OvertakenInv
<1>3. ASSUME overtaken' \subseteq overtaken,
             p \in overtaken' => loc'[p].rows # << >>
      PROVE  OvertakenInv'
  BY <1>1, <1>3, LocsStep DEF OvertakenInv
<1>4. CASE InsertRows(p) \/ Fail(p)
  BY <1>3, <1>4 DEF InsertRows, Fail
<1>5. CASE LookUp(p)
  <2>1. overtaken' = overtaken
    BY <1>5 DEF LookUp, ghosts
  <2> DEFINE row == Looked(Len(loc[p].rows) + 1)
  <2>2. row \in Snapshots \cup {NoRow}
    BY DEF Looked, TypeOK
  <2>3. loc'[p].rows = Append(loc[p].rows, row)
    BY <1>5, LookUpLoc DEF LocsAre
  <2> HIDE DEF row
  <2>4. Append(loc[p].rows, row) # << >>
    BY <2>2, LocFields
  <2> QED
    BY <1>3, <2>1, <2>3, <2>4
<1>6. CASE ~(WriteCache(p) \/ InsertRows(p) \/ Fail(p) \/ LookUp(p))
  <2>1. /\ overtaken' = overtaken
        /\ stage[p] \notin {"looking", "inserting"}
    BY <1>6 DEF Run, ReadVersion, CheckSchema, CreateSchema, StampVersion,
                ListSources, StatFile, ParseFile, Compare, Choose, Fold, At,
                ghosts
  <2>2. p \notin overtaken
    BY <2>1, HasRows DEF OvertakenInv
  <2> QED
    BY <1>3, <2>1, <2>2
<1> QED
  BY <1>2, <1>4, <1>5, <1>6

\* A table only ever gains rows, until it is rewritten.
LEMMA AdhocGrows ==
    ASSUME TypeOK, RowsInv, NEW p \in Procs, Run(p), ~WriteCache(p)
    PROVE  \A i \in Prefixes : adhoc[i] # NoRow => adhoc'[i] # NoRow
<1>1. CASE InsertRows(p)
  BY <1>1, InsertedType, SMTT(60) DEF Inserted
<1>2. CASE ~InsertRows(p)
  BY <1>2 DEF cache, Run, ReadVersion, CheckSchema, CreateSchema, StampVersion,
              ListSources, StatFile, Compare, ParseFile, Choose, LookUp, Fold,
              Fail
<1> QED
  BY <1>1, <1>2

\* SeenInv of the rows one process has in hand.
Seen(rows) ==
    \A i \in 1..Len(rows) : rows[i] = NoRow => adhoc[i] # NoRow

LEMMA RowIsPrefix ==
    ASSUME TypeOK, RowsInv, NEW p \in Procs
    PROVE  1..Len(loc[p].rows) \subseteq Prefixes
<1>1. Len(loc[p].rows) <= loc[p].want
  <2>1. Len(loc[p].rows) \in Nat /\ loc[p].want \in Nat
    BY LocFields, ConfigAssumption
  <2>2. CASE stage[p] \in {"looking", "inserting"}
    BY <2>1, <2>2 DEF RowsInv
  <2>3. CASE stage[p] \notin {"looking", "inserting"}
    BY <2>1, <2>3, HasRows
  <2> QED
    BY <2>2, <2>3
<1> QED
  BY <1>1, LocFields, ConfigAssumption DEF Prefixes

LEMMA SeenStep ==
    ASSUME TypeOK, RowsInv, SeenInv, NEW p \in Procs, Run(p)
    PROVE  SeenInv'
<1>1. Len(<< >>) = 0
  OBVIOUS
<1>2. CASE WriteCache(p)
  <2>1. overtaken' = {q \in Procs : loc[q].rows # << >>}
    BY <1>2 DEF WriteCache
  <2>2. loc'[p].rows = << >>
    BY <1>2, ResetLoc DEF WriteCache, LocsAre
  <2>3. \A q \in Procs \ overtaken' : loc'[q].rows = << >>
    BY <2>1, <2>2, LocsStep
  <2> QED
    BY <1>1, <2>3 DEF SeenInv
<1>3. ASSUME ~WriteCache(p), overtaken \ {p} \subseteq overtaken',
             p \notin overtaken' =>
                \/ loc'[p].rows = << >>
                \/ p \notin overtaken /\ loc'[p].rows = loc[p].rows
      PROVE  SeenInv'
  <2> SUFFICES ASSUME NEW q \in Procs \ overtaken',
                      NEW i \in 1..Len(loc'[q].rows), loc'[q].rows[i] = NoRow
               PROVE  adhoc'[i] # NoRow
    BY DEF SeenInv
  <2>1. q \notin overtaken /\ loc'[q].rows = loc[q].rows
    BY <1>1, <1>3, LocsStep
  <2>2. i \in Prefixes
    BY <2>1, RowIsPrefix
  <2> QED
    BY <1>3, <2>1, <2>2, AdhocGrows DEF SeenInv
<1>4. CASE InsertRows(p) \/ Fail(p)
  <2>1. loc'[p].rows = << >>
    BY <1>4, InsertRowsLoc, ResetLoc DEF Fail, LocsAre
  <2>2. ~WriteCache(p) /\ overtaken' = overtaken \ {p}
    <3>1. CASE InsertRows(p)
      BY <3>1 DEF InsertRows, WriteCache, At
    <3>2. CASE Fail(p)
      BY <3>2 DEF Fail, WriteCache, Goto, TypeOK
    <3> QED
      BY <1>4, <3>1, <3>2
  <2> QED
    BY <1>3, <2>1, <2>2
<1>5. CASE LookUp(p)
  <2> DEFINE k == Len(loc[p].rows)
             row == Looked(k + 1)
             rows == Append(loc[p].rows, row)
  <2>1. /\ overtaken' = overtaken /\ adhoc' = adhoc
    BY <1>5 DEF LookUp, ghosts, cache
  <2>2. loc'[p].rows = rows
    BY <1>5, LookUpLoc DEF LocsAre
  <2>3. row \in Snapshots \cup {NoRow} /\ (row = NoRow => adhoc[k + 1] # NoRow)
    BY NoRowAssumption DEF Looked, TypeOK
  <2>4. ASSUME p \notin overtaken
        PROVE  \A i \in 1..Len(rows) : rows[i] = NoRow => adhoc[i] # NoRow
    <3>1. \A i \in 1..k : loc[p].rows[i] = NoRow => adhoc[i] # NoRow
      BY <2>4 DEF SeenInv
    <3>2. k \in Nat /\ Len(rows) = k + 1 /\ rows[k + 1] = row
      BY <2>3, LocFields
    <3>3. \A i \in 1..k : rows[i] = loc[p].rows[i]
      BY <2>3, LocFields
    <3> HIDE DEF k, row, rows
    <3> QED
      BY <2>3, <3>1, <3>2, <3>3
  <2> HIDE DEF rows
  <2> QED
    BY <2>1, <2>2, <2>4, LocsStep DEF SeenInv
<1>6. CASE ~(WriteCache(p) \/ InsertRows(p) \/ Fail(p) \/ LookUp(p))
  <2>1. /\ overtaken' = overtaken
        /\ stage[p] \notin {"looking", "inserting"}
        /\ stage'[p] \in {"looking", "inserting"} => Choose(p)
    BY <1>6 DEF Run, ReadVersion, CheckSchema, CreateSchema, StampVersion,
                ListSources, StatFile, ParseFile, Compare, Choose, Fold, At,
                ghosts, Goto, TypeOK
  <2>2. loc[p].rows = << >>
    BY <2>1, HasRows
  <2>3. loc'[p].rows = << >>
    BY <1>6, <2>2, ResetLoc, ReadVersionLoc, ListSourcesLoc, StatFileLoc,
       ParseFileLoc, CompareLoc, ChooseLoc, FoldLoc
       DEF Run, LocsAre, CheckSchema, CreateSchema, StampVersion, Compare
  <2> QED
    BY <1>3, <1>6, <2>1, <2>3
<1> QED
  BY <1>2, <1>4, <1>5, <1>6

\* After an insert by a process that was not overtaken its whole chain is there.
LEMMA InsertedChain ==
    ASSUME TypeOK, RowsInv, SeenInv, NEW p \in Procs, InsertRows(p),
           p \notin overtaken
    PROVE  \A i \in 1..loc[p].want : adhoc'[i] # NoRow
<1>1. loc[p].want = Len(loc[p].rows)
  BY DEF RowsInv, InsertRows, At
<1>2. 1..loc[p].want \subseteq Prefixes
  BY <1>1, RowIsPrefix
<1> SUFFICES ASSUME NEW i \in 1..loc[p].want PROVE adhoc'[i] # NoRow
  OBVIOUS
<1>3. i \in Prefixes /\ i <= loc[p].want
  BY <1>2, LocFields, ConfigAssumption
<1>4. CASE loc[p].rows[i] = NoRow
  <2>1. adhoc[i] # NoRow
    BY <1>1, <1>4 DEF SeenInv
  <2> QED
    BY <1>3, <2>1, InsertedType DEF Inserted
<1>5. CASE loc[p].rows[i] # NoRow
  BY <1>3, <1>5, InsertedType DEF Inserted
<1> QED
  BY <1>4, <1>5

LEMMA ChainStep ==
    ASSUME TypeOK, RowsInv, SeenInv, ChainInv, NEW p \in Procs, Run(p)
    PROVE  ChainInv'
<1>1. CASE WriteCache(p)
  BY <1>1 DEF WriteCache, Kept, ChainInv
<1>2. CASE InsertRows(p)
  <2> SUFFICES ASSUME ~raced', NEW i \in Prefixes, NEW j \in Prefixes,
                      j <= i, adhoc'[i] # NoRow
               PROVE  adhoc'[j] # NoRow
    BY DEF ChainInv
  <2>1. ~raced /\ p \notin overtaken
    BY <1>2 DEF InsertRows
  <2>2. CASE j <= loc[p].want
    <3>1. j \in 1..loc[p].want
      BY <2>2, LocFields, ConfigAssumption DEF Prefixes
    <3> QED
      BY <1>2, <2>1, <3>1, InsertedChain
  <2>3. CASE ~(j <= loc[p].want)
    <3>1. ~(i <= loc[p].want)
      BY <2>3, LocFields, ConfigAssumption DEF Prefixes
    <3>2. adhoc'[i] = adhoc[i] /\ adhoc'[j] = adhoc[j]
      BY <1>2, <2>3, <3>1, InsertedType DEF Inserted
    <3> QED
      BY <2>1, <3>2 DEF ChainInv
  <2> QED
    BY <2>2, <2>3
<1>3. CASE ~WriteCache(p) /\ ~InsertRows(p)
  <2>1. UNCHANGED <<adhoc, raced>>
    BY <1>3 DEF cache, ghosts, Run, ReadVersion, CheckSchema, CreateSchema,
                StampVersion, ListSources, StatFile, Compare, ParseFile,
                Choose, LookUp, Fold, Fail
  <2> QED
    BY <2>1 DEF ChainInv
<1> QED
  BY <1>1, <1>2, <1>3

LEMMA TableStep ==
    ASSUME IInv, TableInv, [Next]_vars
    PROVE  TableInv'
<1>1. ASSUME NEW p \in Procs, Run(p) PROVE TableInv'
  BY <1>1, OvertakenStep, SeenStep, ChainStep DEF IInv, TableInv
<1>2. CASE UNCHANGED <<adhoc, loc, overtaken, raced>>
  BY <1>2 DEF TableInv, OvertakenInv, SeenInv, ChainInv
<1>3. CASE \E f \in Files : Edit(f) \/ Remove(f)
  BY <1>2, <1>3 DEF Edit, Remove, cache
<1>4. CASE UNCHANGED vars
  BY <1>2, <1>4 DEF vars, cache, ghosts
<1> QED
  BY <1>1, <1>3, <1>4 DEF Next, AllEnded

----------------------------------------------------------------------------
\* The command alone.

\* A snapshot of the files of p that has what they say is what they say.
LEMMA IsCurrent ==
    ASSUME NEW p \in Procs, NEW s \in Snapshots, DOMAIN s = Sources(p),
           \A f \in DOMAIN s : s[f] = edits[f]
    PROVE  s = Current(p)
<1>1. PICK S \in SUBSET Files : s \in [S -> 0..MaxEdits]
  BY SnapshotDef
<1>2. S = SourcesOf[p] \cap present
  BY <1>1 DEF Sources
<1> QED
  BY <1>1, <1>2 DEF Current

\* While one is undisturbed only it takes steps of its own.
LEMMA OnlyStarts ==
    ASSUME TypeOK, AloneInv, NEW p \in quiet, NEW q \in Procs \ {p}, Run(q)
    PROVE  p \notin quiet'
<1>1. ~Running(q)
  BY SMTT(60) DEF AloneInv, Alone
<1>2. ReadVersion(q)
  BY <1>1 DEF Running, Ended, Run, CheckSchema, CreateSchema, StampVersion,
              ListSources, StatFile, Compare, ParseFile, WriteCache, Choose,
              LookUp, InsertRows, Fold, Fail, At
<1> QED
  BY <1>2 DEF ReadVersion

\* It is joined only by who starts.
LEMMA StaysQuiet ==
    ASSUME NEW p \in Procs, NEW q \in Procs, Run(q), p \in quiet',
           ~(ReadVersion(q) /\ p = q)
    PROVE  p \in quiet
BY DEF ghosts, Run, ReadVersion, CheckSchema, CreateSchema, StampVersion,
       ListSources, StatFile, Compare, ParseFile, WriteCache, Choose, LookUp,
       InsertRows, Fold, Fail

LEMMA AloneStarts ==
    ASSUME SoloInv, NEW p \in Procs, ReadVersion(p), p \in quiet'
    PROVE  Alone(p)'
<1> USE DEF SoloInv, IInv
<1>1. Run(p)
  BY DEF Run
<1>2. stage'[p] = "probed" /\ stage[p] = "idle"
  BY DEF ReadVersion, At, Goto, TypeOK
<1>3. \A q \in Procs : ~Running(q)
  BY DEF ReadVersion
<1>4. \A q \in Procs \ {p} : ~Running(q)'
  BY <1>1, <1>3, StageStep DEF Running
<1>5. p \notin overtaken'
  <2>1. loc[p].rows = << >>
    BY <1>2, HasRows
  <2> QED
    BY <2>1 DEF ReadVersion, TableInv, OvertakenInv
<1>6. DOMAIN loc'[p].stamps = {}
  BY <1>2, ReadVersionLoc DEF LocsAre, SyncInv
<1> QED
  BY <1>2, <1>4, <1>5, <1>6 DEF Alone, AtStage

\* What does not depend on the stage.
LEMMA AloneAnyway ==
    ASSUME SoloInv, NEW p \in quiet, Run(p), ~Fail(p)
    PROVE  /\ \A q \in Procs \ {p} : ~Running(q)'
           /\ p \notin overtaken'
           /\ \A f \in DOMAIN loc'[p].stamps : loc'[p].stamps[f] = edits'[f]
<1> USE DEF SoloInv, IInv
<1>1. p \in Procs /\ Alone(p)
  BY DEF TypeOK, AloneInv
<1>2. \A q \in Procs \ {p} : ~Running(q)'
  BY <1>1, StageStep DEF Running, Alone
<1>3. p \notin overtaken'
  <2>1. CASE WriteCache(p)
    <3>1. loc[p].rows = << >>
      BY <1>1, <2>1, HasRows, SMTT(60) DEF WriteCache, At
    <3> QED
      BY <2>1, <3>1 DEF WriteCache
  <2>2. CASE ~WriteCache(p)
    BY <1>1, <2>2 DEF Alone, ghosts, Run, ReadVersion, CheckSchema,
              CreateSchema, StampVersion, ListSources, StatFile, Compare,
              ParseFile, Choose, LookUp, InsertRows, Fold
  <2> QED
    BY <2>1, <2>2
<1>4. edits' = edits
  BY <1>1, WorldKept
<1>5. \A f \in DOMAIN loc'[p].stamps : loc'[p].stamps[f] = edits[f]
  <2>1. CASE StatFile(p)
    <3>1. PICK f \in loc[p].todo :
             LocsAre(p, loc[p].todo \ {f}, With(loc[p].stamps, f),
                     loc[p].read, loc[p].want, loc[p].rows)
      BY <1>1, <2>1, StatFileLoc
    <3>2. loc'[p].stamps = With(loc[p].stamps, f) /\ f \in Files
      BY <1>1, <3>1, EditsNat DEF LocsAre
    <3>3. /\ DOMAIN With(loc[p].stamps, f) = DOMAIN loc[p].stamps \cup {f}
          /\ With(loc[p].stamps, f)[f] = edits[f]
          /\ \A g \in DOMAIN loc[p].stamps \ {f} :
                With(loc[p].stamps, f)[g] = loc[p].stamps[g]
      BY <1>1, <3>2, LocFields, WithFacts
    <3> QED
      BY <1>1, <3>2, <3>3 DEF Alone
  <2>2. CASE loc'[p].stamps = loc[p].stamps
    BY <1>1, <2>2 DEF Alone
  <2>3. CASE Reset(p)
    BY <1>1, <2>3, ResetLoc DEF LocsAre
  <2>4. loc'[p].stamps = loc[p].stamps \/ Reset(p) \/ StatFile(p)
    BY <1>1, ReadVersionLoc, ListSourcesLoc, ParseFileLoc, CompareLoc,
       ChooseLoc, LookUpLoc, InsertRowsLoc, FoldLoc
       DEF Run, LocsAre, CheckSchema, CreateSchema, StampVersion, Compare,
           WriteCache
  <2> QED
    BY <2>1, <2>2, <2>3, <2>4
<1> QED
  BY <1>2, <1>3, <1>4, <1>5

\* Up to the end of sync().
LEMMA AloneSyncs ==
    ASSUME SoloInv, NEW p \in quiet, Run(p), ~Fail(p), ~Choose(p), ~LookUp(p),
           ~InsertRows(p), ~Fold(p)
    PROVE  AtStage(p)'
<1> USE DEF SoloInv, IInv
<1>1. p \in Procs /\ Alone(p)
  BY DEF TypeOK, AloneInv
<1>2. UNCHANGED <<edits, present>>
  BY <1>1, WorldKept
<1>3. Sources(p)' = Sources(p) /\ Current(p)' = Current(p)
  BY <1>2 DEF Sources, Current
<1>4. CASE ReadVersion(p) \/ CheckSchema(p) \/ CreateSchema(p)
           \/ StampVersion(p)
  <2>1. stage'[p] \in {"probed", "mismatch", "creating", "stamping", "opened"}
    BY <1>1, <1>4 DEF ReadVersion, CheckSchema, CreateSchema, StampVersion,
                      Goto, TypeOK
  <2> QED
    BY <2>1 DEF AtStage
<1>5. CASE ListSources(p)
  <2>1. stage[p] = "opened" /\ stage'[p] = "statting"
    BY <1>1, <1>5 DEF ListSources, At, Goto, TypeOK
  <2>2. loc'[p].todo = Sources(p) /\ DOMAIN loc'[p].stamps = {}
    BY <1>1, <1>5, <2>1, ListSourcesLoc DEF LocsAre, SyncInv
  <2> QED
    BY <1>3, <2>1, <2>2 DEF AtStage
<1>6. CASE StatFile(p)
  <2>1. PICK f \in loc[p].todo :
           LocsAre(p, loc[p].todo \ {f}, With(loc[p].stamps, f),
                   loc[p].read, loc[p].want, loc[p].rows)
    BY <1>1, <1>6, StatFileLoc
  <2>2. f \in Files
    BY <1>1, EditsNat
  <2>3. DOMAIN With(loc[p].stamps, f) = DOMAIN loc[p].stamps \cup {f}
    BY <1>1, <2>2, LocFields, WithFacts
  <2>4. /\ loc'[p].stamps = With(loc[p].stamps, f)
        /\ loc'[p].todo = loc[p].todo \ {f}
    BY <2>1 DEF LocsAre
  <2>5. stage[p] = "statting" /\ stage'[p] = "statting"
    BY <1>6 DEF StatFile, At
  <2>6. loc[p].todo \cup DOMAIN loc[p].stamps = Sources(p)
    BY <1>1, <2>5 DEF Alone, AtStage
  <2>7. loc'[p].todo \cup DOMAIN loc'[p].stamps = Sources(p)
    BY <2>3, <2>4, <2>6
  <2> QED
    BY <1>3, <2>5, <2>7 DEF AtStage
<1>7. CASE Compare(p)
  <2>1. stage[p] = "statting" /\ loc[p].todo = {}
    BY <1>7 DEF Compare, At
  <2>2. DOMAIN loc[p].stamps = Sources(p)
    BY <1>1, <2>1 DEF Alone, AtStage
  <2>3. CASE Cached(p)
    <3>1. /\ stage'[p] = "synced" /\ config' = config
      BY <1>1, <1>7, <2>3 DEF Compare, Goto, TypeOK, cache
    <3>2. DOMAIN config = Sources(p)
      BY <2>2, <2>3 DEF Cached, CacheCurrent
    <3>3. \A f \in DOMAIN config : config[f] = edits[f]
      <4> SUFFICES ASSUME NEW f \in DOMAIN config PROVE config[f] = edits[f]
        OBVIOUS
      <4>1. edits[f] <= config[f] /\ config[f] <= edits[f]
        BY <1>1, <2>2, <2>3, <3>2 DEF Cached, CacheCurrent, Alone, AtStage
      <4>2. f \in Files /\ config[f] \in Nat
        BY SnapshotValue DEF TypeOK
      <4>3. edits[f] \in Nat
        BY <4>2, ConfigAssumption DEF TypeOK
      <4> QED
        BY <4>1, <4>2, <4>3
    <3>4. config = Current(p)
      BY <1>1, <3>2, <3>3, IsCurrent DEF TypeOK
    <3> QED
      BY <1>3, <3>1, <3>4 DEF AtStage
  <2>4. CASE ~Cached(p)
    <3>1. stage'[p] = "parsing"
      BY <1>1, <1>7, <2>4 DEF Compare, Goto, TypeOK
    <3>2. loc'[p].stamps = loc[p].stamps
      BY <1>1, <1>7, <2>4, CompareLoc DEF LocsAre
    <3> QED
      BY <1>3, <2>2, <3>1, <3>2 DEF AtStage
  <2> QED
    BY <2>3, <2>4
<1>8. CASE ParseFile(p)
  <2>1. stage[p] = "parsing" /\ stage'[p] = "parsing"
    BY <1>8 DEF ParseFile, At
  <2>2. loc'[p].stamps = loc[p].stamps
    BY <1>1, <1>8, ParseFileLoc DEF LocsAre
  <2> QED
    BY <1>1, <1>3, <2>1, <2>2 DEF AtStage, Alone
<1>9. CASE WriteCache(p)
  <2>1. stage[p] = "parsing" /\ loc[p].todo = {}
    BY <1>9 DEF WriteCache, At
  <2>2. stage'[p] = "synced" /\ config' = loc[p].read
    BY <1>1, <1>9 DEF WriteCache, Goto, TypeOK
  <2>3. /\ DOMAIN loc[p].stamps = Sources(p)
        /\ DOMAIN loc[p].read = Sources(p)
    BY <1>1, <2>1 DEF Alone, AtStage, SyncInv
  <2>4. \A f \in DOMAIN loc[p].read : loc[p].read[f] = edits[f]
    <3> SUFFICES ASSUME NEW f \in DOMAIN loc[p].read
                 PROVE  loc[p].read[f] = edits[f]
      OBVIOUS
    <3>1. edits[f] <= loc[p].read[f] /\ loc[p].read[f] <= edits[f]
      BY <1>1, <2>1, <2>3 DEF Alone, AtStage, SyncInv
    <3>2. f \in Files /\ loc[p].read[f] \in Nat
      BY <1>1, LocFields, SnapshotValue
    <3>3. edits[f] \in Nat
      BY <3>2, ConfigAssumption DEF TypeOK
    <3> QED
      BY <3>1, <3>2, <3>3
  <2>5. loc[p].read = Current(p)
    BY <1>1, <2>3, <2>4, LocFields, IsCurrent
  <2> QED
    BY <1>3, <2>2, <2>5 DEF AtStage
<1> QED
  BY <1>4, <1>5, <1>6, <1>7, <1>8, <1>9 DEF Run

\* What one query finds of a chain that is all there.
LEMMA FoldsChain ==
    ASSUME TypeOK, AdhocFresh, ChainInv, NEW p \in Procs, Fold(p),
           loc[p].want > 0 => ~raced /\ adhoc[loc[p].want] # NoRow
    PROVE  loc'[p].result = [i \in 0..loc[p].want |-> config]
<1> DEFINE want == loc[p].want
           linked(i) == \A j \in Prefixes : j \in i..want => adhoc[j] # NoRow
<1>1. loc' = [loc EXCEPT ![p].result =
                 [i \in {j \in 0..want : linked(j)} |->
                     IF i = 0 THEN config ELSE adhoc[i]]]
  BY DEF Fold
<1>2. want \in Nat /\ want <= Depth
  BY LocFields, ConfigAssumption
<1>3. \A i \in Prefixes : i <= want => adhoc[i] # NoRow /\ adhoc[i] = config
  <2> SUFFICES ASSUME NEW i \in Prefixes, i <= want
               PROVE  adhoc[i] # NoRow /\ adhoc[i] = config
    OBVIOUS
  <2>1. want > 0 /\ want \in Prefixes
    BY <1>2, ConfigAssumption DEF Prefixes
  <2>2. ~raced /\ adhoc[want] # NoRow
    BY <2>1
  <2>3. adhoc[i] # NoRow
    BY <2>1, <2>2 DEF ChainInv
  <2> QED
    BY <2>2, <2>3 DEF AdhocFresh
<1>4. \A i \in 0..want : linked(i)
  BY <1>2, <1>3 DEF Prefixes
<1>5. {j \in 0..want : linked(j)} = 0..want
  BY <1>4
<1>6. \A i \in 0..want : (IF i = 0 THEN config ELSE adhoc[i]) = config
  BY <1>2, <1>3, ConfigAssumption DEF Prefixes
<1> HIDE DEF linked, want
<1>7. [i \in {j \in 0..want : linked(j)} |-> IF i = 0 THEN config ELSE adhoc[i]]
         = [i \in 0..want |-> config]
  BY <1>5, <1>6
<1>8. loc' = [loc EXCEPT ![p].result = [i \in 0..want |-> config]]
  BY <1>1, <1>7
<1>9. loc'[p].result = [i \in 0..want |-> config]
  BY <1>8, LocFields DEF TypeOK, Locals
<1> QED
  BY <1>9 DEF want

\* resolve().
LEMMA AloneResolves ==
    ASSUME SoloInv, NEW p \in quiet,
           Choose(p) \/ LookUp(p) \/ InsertRows(p) \/ Fold(p)
    PROVE  AtStage(p)'
<1> USE DEF SoloInv, IInv
<1>1. p \in Procs /\ Alone(p)
  BY DEF TypeOK, AloneInv
<1>2. Run(p)
  BY DEF Run
<1>3. Current(p)' = Current(p)
  BY <1>1, <1>2, WorldKept DEF Current
<1>4. config' = config
  BY DEF Choose, LookUp, InsertRows, Fold, cache
<1>5. config = Current(p)
  BY <1>1 DEF Alone, AtStage, Choose, LookUp, InsertRows, Fold, At
<1>6. CASE Choose(p)
  <2>1. PICK want \in 0..Depth :
           /\ LocsAre(p, loc[p].todo, loc[p].stamps, loc[p].read, want,
                      loc[p].rows)
           /\ Goto(p, IF want > 0 /\ adhoc[want] = NoRow
                      THEN "looking" ELSE "folding")
    BY <1>1, <1>6, ChooseLoc
  <2>2. loc'[p].want = want /\ adhoc' = adhoc
    BY <1>6, <2>1 DEF LocsAre, Choose, cache
  <2>3. stage'[p] = IF want > 0 /\ adhoc[want] = NoRow
                    THEN "looking" ELSE "folding"
    BY <1>1, <2>1 DEF Goto, TypeOK
  <2> QED
    BY <1>3, <1>4, <1>5, <2>2, <2>3 DEF AtStage
<1>7. CASE LookUp(p)
  <2>1. stage'[p] \in {"looking", "inserting"}
    BY <1>1, <1>7 DEF LookUp, At, Goto, TypeOK
  <2> QED
    BY <1>3, <1>4, <1>5, <2>1 DEF AtStage
<1>8. CASE InsertRows(p)
  <2>1. stage'[p] = "folding"
    BY <1>1, <1>8 DEF InsertRows, Goto, TypeOK
  <2>2. loc'[p].want = loc[p].want /\ loc[p].want \in Nat
    BY <1>1, <1>8, InsertRowsLoc, LocFields, ConfigAssumption DEF LocsAre
  <2>3. \A i \in 1..loc[p].want : adhoc'[i] # NoRow
    BY <1>1, <1>8, InsertedChain DEF Alone, TableInv
  <2>4. loc'[p].want > 0 => adhoc'[loc'[p].want] # NoRow
    BY <2>2, <2>3
  <2> QED
    BY <1>3, <1>4, <1>5, <2>1, <2>4 DEF AtStage
<1>9. CASE Fold(p)
  <2>1. stage[p] = "folding" /\ stage'[p] = "resolved"
    BY <1>1, <1>9 DEF Fold, At, Goto, TypeOK
  <2>2. loc'[p].want = loc[p].want /\ raced' = raced
    BY <1>1, <1>9, FoldLoc DEF LocsAre, Fold, ghosts
  <2>3. ASSUME loc[p].want > 0 => ~raced
        PROVE  ResolvesTo(p)'
    <3>1. loc'[p].result = [i \in 0..loc[p].want |-> config]
      BY <1>1, <1>9, <2>1, <2>3, FoldsChain DEF Alone, AtStage, TableInv
    <3>2. loc'[p].result = [i \in 0..loc'[p].want |-> Current(p)']
      BY <1>3, <1>5, <2>2, <3>1
    <3> QED
      BY <3>2 DEF ResolvesTo
  <2> QED
    BY <2>1, <2>2, <2>3 DEF AtStage
<1> QED
  BY <1>6, <1>7, <1>8, <1>9

LEMMA AloneStep ==
    ASSUME SoloInv, [Next]_vars
    PROVE  AloneInv'
<1> USE DEF SoloInv, IInv
<1>1. CASE \E f \in Files : Edit(f) \/ Remove(f)
  BY <1>1 DEF AloneInv, Edit, Remove
<1>2. CASE UNCHANGED vars
  <2>1. UNCHANGED <<edits, present, config, adhoc, stage, loc, quiet, overtaken,
                    raced>>
    BY <1>2 DEF vars, world, cache, ghosts
  <2>2. ASSUME NEW p \in quiet PROVE Alone(p)'
    <3>1. /\ \A q \in Procs \ {p} : ~Running(q)
          /\ p \notin overtaken
          /\ \A f \in DOMAIN loc[p].stamps : loc[p].stamps[f] = edits[f]
          /\ AtStage(p)
      BY <2>2 DEF AloneInv, Alone
    <3>2. Sources(p)' = Sources(p) /\ Current(p)' = Current(p)
      BY <2>1 DEF Sources, Current
    <3>3. ResolvesTo(p)' <=> ResolvesTo(p)
      BY <2>1, <3>2 DEF ResolvesTo
    <3>4. AtStage(p)'
      BY <2>1, <3>1, <3>2, <3>3 DEF AtStage
    <3> QED
      BY <2>1, <3>1, <3>4 DEF Alone, Running
  <2> QED
    BY <2>1, <2>2 DEF AloneInv
<1>3. ASSUME NEW q \in Procs, Run(q) PROVE AloneInv'
  <2> SUFFICES ASSUME NEW p \in quiet' PROVE Alone(p)'
    BY DEF AloneInv
  <2>1. p \in Procs
    BY <1>3, TypeStep DEF TypeOK
  <2>2. CASE ReadVersion(q) /\ p = q
    BY <2>1, <2>2, AloneStarts
  <2>3. CASE ~(ReadVersion(q) /\ p = q)
    <3>1. p \in quiet
      BY <1>3, <2>1, <2>3, StaysQuiet
    <3>2. p = q
      BY <1>3, <3>1, OnlyStarts
    <3>3. ~Fail(p)
      BY DEF Fail
    <3>4. AtStage(p)'
      BY <1>3, <3>1, <3>2, <3>3, AloneSyncs, AloneResolves
    <3>5. /\ \A r \in Procs \ {p} : ~Running(r)'
          /\ p \notin overtaken'
          /\ \A f \in DOMAIN loc'[p].stamps : loc'[p].stamps[f] = edits'[f]
      BY <1>3, <3>1, <3>2, <3>3, AloneAnyway
    <3> QED
      BY <3>4, <3>5 DEF Alone
  <2> QED
    BY <2>2, <2>3
<1> QED
  BY <1>1, <1>2, <1>3 DEF Next, AllEnded

\* A command that runs alone, on files that hold still, resolves what its own
\* files say, whatever others left in the cache before it: an earlier process
\* with other files, one cut off between two commits, rows of an ad-hoc chain.
\* Only a chain some process was overtaken over may say something else.
THEOREM AloneIsRight == Spec => []AloneIsCurrent
<1>1. Init => SoloInv
  BY InitInv, InitSolo DEF SoloInv
<1>2. SoloInv /\ [Next]_vars => SoloInv'
  BY NextInv, TableStep, AloneStep DEF SoloInv
<1>3. SoloInv => AloneIsCurrent
  BY DEF SoloInv, AloneInv, Alone, AtStage, AloneIsCurrent, At
<1> QED
  BY <1>1, <1>2, <1>3, PTL DEF Spec
=============================================================================
