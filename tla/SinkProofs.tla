----------------------------- MODULE SinkProofs -----------------------------
(***************************************************************************)
(* What Sink promises of the files of an answer, proved for any number of  *)
(* calls on one name, of blobs, rounds and chunks, and for a user who may  *)
(* create files of those names at any moment.                              *)
(***************************************************************************)
EXTENDS Sink, SequenceLemmas, SequenceTheorems

\* A Sink, with the locals of dic() that go with it.
Sinks == [text : BOOLEAN, blob : BOOLEAN, slot : BlobSlots, n : Nat,
          paths : Seq(Names), clear : BOOLEAN, seen : Nat, round : Nat,
          failed : BOOLEAN, rows : Seq(Seq(Names)), events : Nat, texts : Nat]

Types ==
    /\ final \in [Slots -> Contents]
    /\ part \in [Slots -> Contents]
    /\ late \subseteq Slots
    /\ stage \in [Calls -> Stages]
    /\ sink \in [Calls -> Sinks]
    /\ \A c \in Calls : sink[c].seen <= Len(sink[c].paths)

\* Calls on one name run one after the other.
Alone == \A c, d \in Calls : Running(c) /\ Running(d) => c = d

\* A file with something of c in it, and of nobody else.
Whole(chunks, c) == chunks # << >> /\ \A i \in 1..Len(chunks) : chunks[i] = c

\* What is open belongs to a call that runs, and the .part is that call's.
OpenInv(c) ==
    /\ At(c, "idle") => sink[c] = NewSink
    /\ sink[c].text => stage[c] \in InTry \cup {"closing"}
    /\ sink[c].blob => At(c, "streaming")
    /\ stage[c] \in InTry \cup {"closing"} => (sink[c].text <=> sink[c].texts > 0)
    /\ sink[c].text \/ At(c, "placing") =>
          /\ Whole(part[TextSlot], c)
          /\ Len(part[TextSlot]) = sink[c].texts
    /\ sink[c].blob \/ At(c, "renaming") => Whole(part[sink[c].slot], c)

\* What has been placed.
FinalInv(s, c) ==
    Contains(final[s], c) =>
        /\ Whole(final[s], c)
        /\ s = TextSlot =>
              /\ Len(final[s]) = sink[c].texts
              /\ stage[c] \in {"placed", "done", "failed", "crashed"}

\* The name a call is about to rename its file to.
Target(c) == IF At(c, "renaming") THEN sink[c].slot ELSE TextSlot

\* If commit() found it free then only the user can have taken it since.
ClearInv(c) ==
    stage[c] \in {"renaming", "placing"} /\ sink[c].clear /\ c \notin Forced =>
        \/ final[Target(c)] = NoFile
        \/ final[Target(c)] = <<User>> /\ Target(c) \in late

\* Nobody has been told to overwrite what c has placed.
Safe(c) == \A d \in Forced \ {c} : At(d, "idle")

\* The blob files c has ended, and what its rows say of them.
NamesInv(c) ==
    /\ \A k \in 1..Len(sink[c].paths) :
          LET name == sink[c].paths[k]
          IN /\ name[1] \in BlobSlots
             /\ name[2] = "final" /\ Safe(c) => Contains(final[name[1]], c)
    /\ \A i \in 1..Len(sink[c].rows) : \A k \in 1..Len(sink[c].rows[i]) :
          LET name == sink[c].rows[i][k]
          IN name[2] = "final" => name \in ToSet(sink[c].paths)
    /\ stage[c] \notin Ended =>
          FlattenSeq(sink[c].rows) = SubSeq(sink[c].paths, 1, sink[c].seen)
    /\ At(c, "done") => FlattenSeq(sink[c].rows) = sink[c].paths

IInv ==
    /\ Types
    /\ Alone
    /\ \A c \in Calls : OpenInv(c) /\ ClearInv(c) /\ NamesInv(c)
    /\ \A s \in Slots, c \in Calls : FinalInv(s, c)

----------------------------------------------------------------------------
\* What the building blocks of the actions do.

\* A call's locals change, and nobody else's.
LEMMA BecomesIs ==
    ASSUME Types, NEW c \in Calls, NEW s, Becomes(c, s)
    PROVE  /\ sink'[c] = s
           /\ \A d \in Calls : d # c => sink'[d] = sink[d]
           /\ s \in Sinks => sink' \in [Calls -> Sinks]
<1> QED
  BY DEF Types, Becomes

\* A call moves on, and nobody else.
LEMMA GotoIs ==
    ASSUME Types, NEW c \in Calls, NEW s, Goto(c, s)
    PROVE  /\ stage'[c] = s
           /\ \A d \in Calls : d # c => stage'[d] = stage[d]
           /\ s \in Stages => stage' \in [Calls -> Stages]
<1> QED
  BY DEF Types, Goto

\* The fields of a Sink, by their types.
LEMMA SinkFields ==
    ASSUME Types, NEW c \in Calls
    PROVE  /\ sink[c] \in Sinks
           /\ sink[c].text \in BOOLEAN /\ sink[c].blob \in BOOLEAN
           /\ sink[c].clear \in BOOLEAN /\ sink[c].failed \in BOOLEAN
           /\ sink[c].slot \in BlobSlots /\ sink[c].n \in Nat
           /\ sink[c].paths \in Seq(Names) /\ Len(sink[c].paths) \in Nat
           /\ sink[c].seen \in Nat /\ sink[c].seen <= Len(sink[c].paths)
           /\ sink[c].rows \in Seq(Seq(Names)) /\ Len(sink[c].rows) \in Nat
           /\ sink[c].round \in Nat
           /\ sink[c].events \in Nat /\ sink[c].texts \in Nat
           /\ stage[c] \in Stages
<1>1. sink[c] \in Sinks /\ stage[c] \in Stages /\ sink[c].seen <= Len(sink[c].paths)
  BY DEF Types
<1>2. sink[c].paths \in Seq(Names) /\ sink[c].rows \in Seq(Seq(Names))
  BY <1>1 DEF Sinks
<1> QED
  BY <1>1, <1>2 DEF Sinks

\* insert() adds a row with these outputs, and changes nothing else.
LEMMA StoredIs ==
    ASSUME Types, NEW c \in Calls, NEW outputs \in Seq(Names)
    PROVE  /\ Stored(c, outputs) = [sink[c] EXCEPT !.rows = Append(sink[c].rows, outputs)]
           /\ Stored(c, outputs) \in Sinks
<1>1. Append(sink[c].rows, outputs) \in Seq(Seq(Names))
  BY SinkFields
<1> QED
  BY <1>1, SinkFields DEF Stored, Sinks

\* The files of a round are some of those of the call.
LEMMA UnseenIs ==
    ASSUME Types, NEW c \in Calls
    PROVE  /\ Unseen(c) \in Seq(Names)
           /\ \A k \in 1..Len(Unseen(c)) : Unseen(c)[k] \in ToSet(sink[c].paths)
           /\ SubSeq(sink[c].paths, 1, sink[c].seen) \o Unseen(c) = sink[c].paths
           /\ SubSeq(sink[c].paths, 1, Len(sink[c].paths)) = sink[c].paths
<1>1. PICK p, m : p = sink[c].paths /\ m = sink[c].seen
  OBVIOUS
<1>2. p \in Seq(Names) /\ m \in Nat /\ m <= Len(p) /\ Len(p) \in Nat
  BY <1>1, SinkFields
<1>3. SubSeq(p, m + 1, Len(p)) \in Seq(Names)
  BY <1>2
<1>4. \A k \in 1..Len(SubSeq(p, m + 1, Len(p))) :
        /\ m + k \in 1..Len(p)
        /\ SubSeq(p, m + 1, Len(p))[k] = p[m + k]
  BY <1>2
<1>5. SubSeq(p, 1, Len(p)) = p
  BY <1>2, SubSeqFull, SMTT(60)
<1>6. SubSeq(p, 1, m) \o SubSeq(p, m + 1, Len(p)) = p
  <2>1. 1 \in 1..(Len(p) + 1) /\ m \in (1 - 1)..Len(p) /\ Len(p) \in m..Len(p)
    BY <1>2
  <2> QED
    BY <1>2, <1>5, <2>1, ConcatAdjacentSubSeq
<1>7. Unseen(c) = SubSeq(p, m + 1, Len(p))
  BY <1>1 DEF Unseen
<1>8. \A k \in 1..Len(Unseen(c)) : Unseen(c)[k] \in ToSet(p)
  BY <1>2, <1>4, <1>7 DEF ToSet
<1> QED
  BY <1>1, <1>3, <1>5, <1>6, <1>7, <1>8

\* pending() names at most one file, the .part that is open.
LEMMA PendingIs ==
    ASSUME Types, NEW c \in Calls
    PROVE  /\ Pending(c) \in Seq(Names)
           /\ \A k \in 1..Len(Pending(c)) : Pending(c)[k][2] = "part"
<1>1. <<sink[c].slot, "part">> \in Names /\ <<TextSlot, "part">> \in Names
  BY SinkFields DEF Names, Slots
<1> QED
  BY <1>1 DEF Pending

\* One chunk more.
LEMMA WriteIs ==
    ASSUME Types, NEW c \in Calls, NEW slot \in Slots, NEW isOpen \in BOOLEAN,
           WriteTo(c, slot, isOpen), isOpen => Whole(part[slot], c)
    PROVE  /\ part' \in [Slots -> Contents]
           /\ \A s \in Slots : s # slot => part'[s] = part[s]
           /\ Whole(part'[slot], c)
           /\ Len(part'[slot]) = IF isOpen THEN Len(part[slot]) + 1 ELSE 1
<1>1. Held(slot, isOpen) \in Contents
  BY DEF Held, NoFile, Types, Contents
<1>2. \A i \in 1..Len(Held(slot, isOpen)) : Held(slot, isOpen)[i] = c
  BY DEF Held, NoFile, Whole
<1>3. PICK held : held = Held(slot, isOpen)
  OBVIOUS
<1>5. held \in Seq(Calls \cup {User}) /\ \A i \in 1..Len(held) : held[i] = c
  BY <1>1, <1>2, <1>3 DEF Contents
<1>6. /\ Append(held, c) \in Seq(Calls \cup {User})
      /\ Len(Append(held, c)) = Len(held) + 1 /\ Len(held) \in Nat
      /\ \A i \in 1..Len(held) : Append(held, c)[i] = held[i]
      /\ Append(held, c)[Len(held) + 1] = c
  BY <1>5
<1>7. \A i \in 1..(Len(held) + 1) : Append(held, c)[i] = c
  BY <1>5, <1>6
<1>8. Append(held, c) # << >>
  BY <1>6
<1>4. Len(Append(Held(slot, isOpen), c)) = IF isOpen THEN Len(part[slot]) + 1 ELSE 1
  BY <1>1 DEF Held, NoFile, Contents
<1> QED
  BY <1>3, <1>4, <1>6, <1>7, <1>8 DEF WriteTo, Types, Contents, Whole

----------------------------------------------------------------------------
\* What a step leaves alone.

\* A step of c keeps the types if it leaves a Sink to c and files to the names.
LEMMA TypesAre ==
    ASSUME Types, NEW c \in Calls, Run(c),
           final' \in [Slots -> Contents], part' \in [Slots -> Contents],
           late' \subseteq Slots, stage'[c] \in Stages, sink'[c] \in Sinks,
           sink'[c].seen <= Len(sink'[c].paths)
    PROVE  Types'
<1>1. /\ (\E s : Goto(c, s)) \/ stage' = stage
      /\ (\E s : Becomes(c, s)) \/ sink' = sink
  BY DEF Run, Start, WriteText, WriteBlob, EndBlob, FinishBlob, NextRound,
         EndStream, Close, PlaceText, StoreAnswer, Abandon, Crash
<1>2. stage' \in [Calls -> Stages]
  BY <1>1, GotoIs DEF Types
<1>3. /\ sink' \in [Calls -> Sinks]
      /\ \A d \in Calls : d # c => sink'[d] = sink[d]
  BY <1>1, BecomesIs DEF Types
<1>4. \A d \in Calls : sink'[d].seen <= Len(sink'[d].paths)
  BY <1>3 DEF Types
<1> QED
  BY <1>2, <1>3, <1>4 DEF Types

\* A step of c is a step of nobody else, and no other call is running then.
LEMMA OthersStay ==
    ASSUME Types, Alone, NEW c \in Calls, Run(c)
    PROVE  /\ \A d \in Calls : d # c =>
                 /\ stage'[d] = stage[d] /\ sink'[d] = sink[d]
                 /\ ~Running(d) /\ ~Running(d)'
           /\ stage'[c] # "idle" /\ stage[c] \notin Ended
<1>1. /\ (\E s : Goto(c, s)) \/ stage' = stage
      /\ (\E s : Becomes(c, s)) \/ sink' = sink
  BY DEF Run, Start, WriteText, WriteBlob, EndBlob, FinishBlob, NextRound,
         EndStream, Close, PlaceText, StoreAnswer, Abandon, Crash
<1>2. \A d \in Calls : d # c => stage'[d] = stage[d] /\ sink'[d] = sink[d]
  BY <1>1, BecomesIs, GotoIs
<1>3. stage'[c] # "idle" /\ stage[c] \notin Ended
  <2>1. stage[c] \notin Ended
    BY DEF Run, Start, WriteText, WriteBlob, EndBlob, FinishBlob, NextRound,
           EndStream, Close, PlaceText, StoreAnswer, Abandon, Crash,
           MayReceive, At, Running, InTry, Ended
  <2>2. \/ \E s : Goto(c, s) /\ s # "idle"
        \/ stage' = stage /\ stage[c] = "streaming"
    <3>1. CASE Start(c)
      <4>1. PICK slot \in {TextSlot, 1} :
              Goto(c, IF Free(c, slot) THEN "streaming" ELSE "refused")
        BY <3>1 DEF Start
      <4> QED
        BY <4>1
    <3>2. CASE Close(c)
      BY <3>2 DEF Close
    <3>3. CASE StoreAnswer(c)
      BY <3>3 DEF StoreAnswer
    <3>4. CASE Abandon(c)
      BY <3>4 DEF Abandon
    <3>5. CASE WriteText(c) \/ WriteBlob(c) \/ NextRound(c)
      BY <3>5 DEF WriteText, WriteBlob, NextRound, MayReceive, At
    <3>6. CASE EndBlob(c) \/ FinishBlob(c) \/ EndStream(c) \/ PlaceText(c) \/ Crash(c)
      BY <3>6 DEF EndBlob, FinishBlob, EndStream, PlaceText, Crash
    <3> QED
      BY <3>1, <3>2, <3>3, <3>4, <3>5, <3>6 DEF Run
  <2> QED
    BY <2>1, <2>2, GotoIs
<1>4. \A d \in Calls : d # c => ~Running(d)
  <2>1. CASE Start(c)
    <3>1. \A d \in Calls : ~Running(d)
      BY <2>1 DEF Start
    <3> QED
      BY <3>1
  <2>2. CASE stage[c] # "idle"
    BY <1>3, <2>2 DEF Alone, Running
  <2>3. Start(c) \/ stage[c] # "idle"
    BY DEF Run, WriteText, WriteBlob, EndBlob, FinishBlob, NextRound,
         EndStream, Close, PlaceText, StoreAnswer, Abandon, Crash, MayReceive,
         At, Running, InTry
  <2> QED
    BY <2>1, <2>2, <2>3
<1>5. \A d \in Calls : d # c => ~Running(d)'
  BY <1>2, <1>4 DEF Running
<1> QED
  BY <1>2, <1>3, <1>4, <1>5

\* So nothing of a call is open while another one runs.
LEMMA OthersClosed ==
    ASSUME Types, Alone, NEW c \in Calls, Run(c), NEW d \in Calls, d # c,
           OpenInv(d)
    PROVE  OpenInv(d)' /\ ClearInv(d)'
<1>1. stage'[d] = stage[d] /\ sink'[d] = sink[d] /\ ~Running(d) /\ ~Running(d)'
  BY OthersStay
<1>2. /\ stage[d] \notin InTry \cup {"closing", "placing"}
  BY <1>1 DEF Running, InTry, Ended
<1>3. ~sink[d].text /\ ~sink[d].blob
  BY <1>2 DEF OpenInv, At, InTry
<1>4. At(d, "idle") => sink[d] = NewSink
  BY DEF OpenInv
<1>5. OpenInv(d)'
  BY <1>1, <1>2, <1>3, <1>4 DEF OpenInv, At, InTry
<1>6. ClearInv(d)'
  BY <1>1, <1>2 DEF ClearInv, InTry
<1> QED
  BY <1>5, <1>6

\* The only files that change place are those of the call that renames them.
Placed(c) ==
    \A s \in Slots :
        \/ final'[s] = final[s]
        \/ /\ Whole(final'[s], c)
           /\ stage[c] \in {"renaming", "placing"}
           /\ s = TextSlot => At(c, "placing")
           /\ At(c, "placing") => Len(final'[s]) = sink[c].texts
           /\ \/ c \in Forced
              \/ final[s] = NoFile
              \/ final[s] = <<User>> /\ s \in late

\* commit() puts the .part in place, or leaves both files alone.
LEMMA RenameIs ==
    ASSUME Types, NEW c \in Calls, NEW slot \in Slots, Rename(c, slot),
           Whole(part[slot], c)
    PROVE  /\ final' \in [Slots -> Contents] /\ part' \in [Slots -> Contents]
           /\ late' \subseteq Slots
           /\ \A s \in Slots : s # slot =>
                 final'[s] = final[s] /\ part'[s] = part[s]
           /\ sink[c].clear => final'[slot] = part[slot]
           /\ ~sink[c].clear => UNCHANGED files
<1>1. NoFile \in Contents
  BY DEF NoFile, Contents
<1>2. CASE sink[c].clear
  BY <1>1, <1>2 DEF Rename, Types
<1>3. CASE ~sink[c].clear
  BY <1>3 DEF Rename, files, Types
<1> QED
  BY <1>2, <1>3

\* What end_blob() and close() rename is a file of the call's own, and what is
\* lost under the name is nothing, what came there late, or -f was given.
LEMMA PlacedIs ==
    ASSUME Types, NEW c \in Calls, Run(c), OpenInv(c), ClearInv(c)
    PROVE  Placed(c)
<1>1. CASE FinishBlob(c)
  <2>1. /\ stage[c] = "renaming" /\ Rename(c, sink[c].slot)
        /\ sink[c].slot \in Slots /\ sink[c].slot # TextSlot
        /\ Whole(part[sink[c].slot], c)
    BY <1>1, SinkFields DEF FinishBlob, At, OpenInv, Slots, BlobSlots, TextSlot
  <2>2. sink[c].clear /\ c \notin Forced =>
          \/ final[sink[c].slot] = NoFile
          \/ final[sink[c].slot] = <<User>> /\ sink[c].slot \in late
    BY <2>1 DEF ClearInv, Target, At
  <2>3. sink[c].clear \in BOOLEAN
    BY SinkFields
  <2> QED
    BY <2>1, <2>2, <2>3, RenameIs DEF Placed, files, At
<1>2. CASE PlaceText(c)
  <2>1. /\ stage[c] = "placing" /\ Rename(c, TextSlot) /\ TextSlot \in Slots
        /\ Whole(part[TextSlot], c) /\ Len(part[TextSlot]) = sink[c].texts
    BY <1>2 DEF PlaceText, At, OpenInv, Slots
  <2>2. sink[c].clear /\ c \notin Forced =>
          \/ final[TextSlot] = NoFile
          \/ final[TextSlot] = <<User>> /\ TextSlot \in late
    BY <2>1 DEF ClearInv, Target, At
  <2>3. sink[c].clear \in BOOLEAN
    BY SinkFields
  <2> QED
    BY <2>1, <2>2, <2>3, RenameIs DEF Placed, files, At
<1>3. CASE UNCHANGED final
  BY <1>3 DEF Placed
<1> QED
  BY <1>1, <1>2, <1>3
     DEF Run, Start, WriteText, WriteBlob, EndBlob, NextRound, EndStream,
         Close, StoreAnswer, Abandon, Crash, files

\* What was placed for another call stays, as long as nobody has -f.
LEMMA OthersNamed ==
    ASSUME Types, Alone, NEW c \in Calls, Run(c), Placed(c),
           NEW d \in Calls, d # c, NamesInv(d),
           \A s \in Slots : FinalInv(s, d)
    PROVE  NamesInv(d)' /\ \A s \in Slots : FinalInv(s, d)'
<1>1. stage'[d] = stage[d] /\ sink'[d] = sink[d] /\ stage'[c] # "idle"
  BY OthersStay
<1>2. Safe(d)' => Safe(d) /\ c \notin Forced
  <2> SUFFICES ASSUME Safe(d)' PROVE Safe(d) /\ c \notin Forced
    OBVIOUS
  <2>1. \A e \in Forced \ {d} : stage'[e] = "idle"
    BY DEF Safe, At
  <2>2. c \notin Forced
    BY <1>1, <2>1
  <2>3. \A e \in Forced \ {d} : stage'[e] = stage[e]
    BY <2>2, OthersStay, SinkAssumption
  <2> QED
    BY <2>1, <2>2, <2>3 DEF Safe, At
<1>3. c # User /\ d # User
  BY SinkAssumption
<1>4. \A s \in Slots : Safe(d)' /\ Contains(final[s], d) => Contains(final'[s], d)
  BY <1>2, <1>3 DEF Placed, Contains, NoFile
<1>5. \A s \in Slots : Contains(final'[s], d) => final'[s] = final[s]
  BY DEF Placed, Contains, Whole
<1>6. \A k \in 1..Len(sink[d].paths) : sink[d].paths[k][1] \in Slots
  BY DEF NamesInv, Slots
<1>7. NamesInv(d)'
  BY <1>1, <1>2, <1>4, <1>6 DEF NamesInv, At
<1>8. \A s \in Slots : FinalInv(s, d)'
  BY <1>1, <1>5 DEF FinalInv
<1> QED
  BY <1>7, <1>8

----------------------------------------------------------------------------
\* What a step keeps of the call that takes it.

\* A step that ends no file and stores no row keeps what the rows say.
LEMMA NamesKept ==
    ASSUME Types, Types', Alone, NEW c \in Calls, Run(c), Placed(c),
           NamesInv(c), sink'[c].paths = sink[c].paths, sink'[c].rows = sink[c].rows,
           sink'[c].seen = sink[c].seen, stage'[c] # "done"
    PROVE  NamesInv(c)'
<1>1. stage[c] \notin Ended
  BY OthersStay
<1>2. Safe(c)' => Safe(c)
  BY OthersStay, SinkAssumption DEF Safe, At
<1>3. \A s \in Slots : Contains(final[s], c) => Contains(final'[s], c)
  <2>1. \A s \in Slots : final'[s] \in Contents
    BY DEF Types
  <2>2. ASSUME NEW s \in Slots, Whole(final'[s], c)
        PROVE  Contains(final'[s], c)
    <3>1. Len(final'[s]) \in Nat \ {0}
      BY <2>1, <2>2 DEF Contents, Whole
    <3> QED
      BY <2>2, <3>1 DEF Contains, Whole
  <2> QED
    BY <2>2 DEF Placed
<1>4. \A k \in 1..Len(sink[c].paths) : sink[c].paths[k][1] \in Slots
  BY DEF NamesInv, Slots
<1> QED
  BY <1>1, <1>2, <1>3, <1>4 DEF NamesInv, At

\* A placed text stays the whole text of its call.
LEMMA FinalKept ==
    ASSUME Types, Alone, NEW c \in Calls, Run(c), Placed(c),
           \A s \in Slots : FinalInv(s, c),
           stage[c] \in {"placed", "placing"} =>
              /\ stage'[c] \in {"placed", "done", "failed", "crashed"}
              /\ sink'[c].texts = sink[c].texts
    PROVE  \A s \in Slots : FinalInv(s, c)'
<1>1. stage[c] \notin Ended
  BY OthersStay
<1> SUFFICES ASSUME NEW s \in Slots, Contains(final'[s], c)
             PROVE  /\ Whole(final'[s], c)
                    /\ s = TextSlot =>
                          /\ Len(final'[s]) = sink'[c].texts
                          /\ stage'[c] \in {"placed", "done", "failed", "crashed"}
  BY DEF FinalInv
<1>2. CASE final'[s] = final[s]
  BY <1>1, <1>2 DEF FinalInv, Ended
<1>3. CASE final'[s] # final[s]
  BY <1>3 DEF Placed, At
<1> QED
  BY <1>2, <1>3

\* Every step of a call keeps the types, what it says of its open files, and
\* that the name commit() found free is free or was taken late.
LEMMA OwnHolds ==
    ASSUME Types, NEW c \in Calls, Run(c), OpenInv(c), ClearInv(c)
    PROVE  Types' /\ OpenInv(c)' /\ ClearInv(c)'
<1> DEFINE old == sink[c]
<1>0. /\ old \in Sinks
      /\ old.text \in BOOLEAN /\ old.blob \in BOOLEAN /\ old.clear \in BOOLEAN
      /\ old.slot \in BlobSlots /\ old.n \in Nat
      /\ old.paths \in Seq(Names) /\ Len(old.paths) \in Nat
      /\ old.seen \in Nat /\ old.seen <= Len(old.paths)
      /\ old.rows \in Seq(Seq(Names))
      /\ old.round \in Nat /\ old.events \in Nat /\ old.texts \in Nat
      /\ stage[c] \in Stages
      /\ old.slot \in Slots /\ TextSlot \in Slots /\ old.slot # TextSlot
  BY SinkFields DEF Slots, BlobSlots, TextSlot
<1> HIDE DEF old
<1>b. old \in Sinks
  BY <1>0
<1>a. \A d \in Calls : sink[d].seen <= Len(sink[d].paths)
  BY DEF Types
<1>1. CASE Start(c)
  <2>1. PICK slot : Goto(c, IF Free(c, slot) THEN "streaming" ELSE "refused")
    BY <1>1 DEF Start
  <2>2. /\ stage'[c] \in {"streaming", "refused"} /\ UNCHANGED <<files, sink>>
        /\ stage' \in [Calls -> Stages] /\ stage[c] = "idle"
    BY <1>1, <2>1, GotoIs DEF Start, At, Stages, InTry, Ended
  <2>3. ~sink[c].text /\ ~sink[c].blob /\ sink[c].texts = 0
    BY <2>2 DEF OpenInv, At, NewSink
  <2>4. Types'
    BY <2>2
       DEF Types, files, Stages, InTry, Ended
  <2> QED
    BY <2>2, <2>3, <2>4 DEF OpenInv, ClearInv, At, InTry
<1>2. CASE WriteText(c)
  <2>1. /\ stage[c] = "streaming" /\ ~old.blob /\ WriteTo(c, TextSlot, old.text)
        /\ sink'[c] = [old EXCEPT !.text = TRUE, !.events = old.events + 1,
                                  !.texts = old.texts + 1]
        /\ UNCHANGED <<final, late, stage>>
    BY <1>2, BecomesIs DEF WriteText, MayReceive, At, old
  <2>2. sink'[c] \in Sinks
    <3>1. old.events + 1 \in Nat /\ old.texts + 1 \in Nat
      BY <1>0
    <3> QED
      BY <1>b, <2>1, <3>1 DEF Sinks
  <2>2a. /\ sink'[c].text /\ (sink'[c].blob <=> old.blob)
        /\ sink'[c].texts = old.texts + 1
        /\ sink'[c].paths = old.paths /\ sink'[c].seen = old.seen
    BY <1>0, <2>1 DEF Sinks
  <2>3. /\ old.text => Whole(part[TextSlot], c) /\ Len(part[TextSlot]) = old.texts
        /\ (old.text <=> old.texts > 0)
    BY <2>1 DEF OpenInv, InTry, old
  <2>4. /\ part' \in [Slots -> Contents] /\ Whole(part'[TextSlot], c)
        /\ Len(part'[TextSlot]) = IF old.text THEN Len(part[TextSlot]) + 1 ELSE 1
    BY <1>0, <2>1, <2>3, WriteIs
  <2>5. Len(part'[TextSlot]) = old.texts + 1
    BY <1>0, <2>3, <2>4
  <2>6. Types'
    BY <1>0, <1>2, <1>a, <2>1, <2>2, <2>2a, <2>4, TypesAre
       DEF Types, files, Stages, InTry, Ended
  <2>7. sink'[c].texts > 0
    BY <1>0, <2>2a
  <2>8. stage'[c] = "streaming" /\ ~sink'[c].blob
    BY <2>1, <2>2a
  <2>9. OpenInv(c)'
    BY <2>2a, <2>4, <2>5, <2>7, <2>8 DEF OpenInv, At, InTry
  <2> QED
    BY <2>6, <2>8, <2>9 DEF ClearInv
<1>3. CASE WriteBlob(c)
  <2>1. PICK slot \in BlobSlots :
          /\ IF old.blob THEN slot = old.slot ELSE NextFree(c, slot)
          /\ WriteTo(c, slot, old.blob)
          /\ Becomes(c, [sink[c] EXCEPT !.blob = TRUE, !.slot = slot,
                                        !.n = slot, !.events = @ + 1])
    BY <1>3 DEF WriteBlob, old
  <2>2. /\ stage[c] = "streaming" /\ UNCHANGED <<final, late, stage>>
        /\ slot \in Slots /\ slot # TextSlot /\ slot \in Nat
    BY <1>3 DEF WriteBlob, MayReceive, At, Slots, BlobSlots, TextSlot
  <2>3. sink'[c] = [old EXCEPT !.blob = TRUE, !.slot = slot, !.n = slot,
                               !.events = old.events + 1]
    BY <2>1, BecomesIs DEF old
  <2>4. sink'[c] \in Sinks
    <3>1. old.events + 1 \in Nat /\ slot \in Nat /\ slot \in BlobSlots
      BY <1>0, <2>2
    <3> QED
      BY <1>b, <2>3, <3>1 DEF Sinks
  <2>4a. /\ sink'[c].blob /\ sink'[c].slot = slot
        /\ (sink'[c].text <=> old.text) /\ sink'[c].texts = old.texts
        /\ sink'[c].paths = old.paths /\ sink'[c].seen = old.seen
    BY <1>0, <2>2, <2>3 DEF Sinks
  <2>5. old.blob => Whole(part[slot], c)
    BY <2>1 DEF OpenInv, old
  <2>6. /\ part' \in [Slots -> Contents] /\ Whole(part'[slot], c)
        /\ part'[TextSlot] = part[TextSlot]
    BY <1>0, <2>1, <2>2, <2>5, WriteIs
  <2>7. Types'
    BY <1>0, <1>a, <2>1, <2>2, <2>4, <2>4a, <2>6, TypesAre
       DEF Types, files, Stages, InTry, Ended
  <2>8. /\ (old.text <=> old.texts > 0)
        /\ old.text => Whole(part[TextSlot], c) /\ Len(part[TextSlot]) = old.texts
    BY <2>2 DEF OpenInv, InTry, old
  <2> QED
    BY <2>2, <2>4, <2>4a, <2>6, <2>7, <2>8 DEF OpenInv, ClearInv, At, InTry
<1>4. CASE EndBlob(c)
  <2>1. /\ stage[c] = "streaming" /\ stage'[c] = "renaming" /\ old.blob
        /\ sink'[c] = [old EXCEPT !.blob = FALSE, !.clear = Look(c, old.slot)]
        /\ UNCHANGED files
    BY <1>4, BecomesIs, GotoIs DEF EndBlob, At, old
  <2>2. sink'[c] \in Sinks
    BY <1>0, <2>1 DEF Sinks, Look, Free
  <2>2a. /\ ~sink'[c].blob /\ sink'[c].slot = old.slot
        /\ (sink'[c].clear <=> Look(c, old.slot))
        /\ (sink'[c].text <=> old.text) /\ sink'[c].texts = old.texts
        /\ sink'[c].paths = old.paths /\ sink'[c].seen = old.seen
    BY <1>b, <2>1, ZenonT(60) DEF Sinks, Look, Free
  <2>3. Types'
    BY <1>0, <1>4, <1>a, <2>1, <2>2, <2>2a, TypesAre    
       DEF Types, files, Stages, InTry, Ended
  <2>4. /\ (old.text <=> old.texts > 0) /\ Whole(part[old.slot], c)
        /\ old.text => Whole(part[TextSlot], c) /\ Len(part[TextSlot]) = old.texts
    BY <2>1 DEF OpenInv, InTry, old
  <2>5. OpenInv(c)'
    BY <2>1, <2>2, <2>2a, <2>4 DEF OpenInv, At, InTry, files
  <2>6. ClearInv(c)'
    BY <2>1, <2>2, <2>2a DEF ClearInv, Target, At, Look, Free, files
  <2> QED
    BY <2>3, <2>5, <2>6
<1>5. CASE FinishBlob(c)
  <2> DEFINE name == <<old.slot, IF old.clear THEN "final" ELSE "part">>
  <2>1. /\ stage[c] = "renaming" /\ stage'[c] = "streaming"
        /\ Rename(c, old.slot)
        /\ sink'[c] = [old EXCEPT !.paths = Append(old.paths, name)]
    BY <1>5, BecomesIs, GotoIs DEF FinishBlob, At, old
  <2>2. name \in Names
    BY <1>0 DEF Names
  <2> HIDE DEF name
  <2>3. Append(old.paths, name) \in Seq(Names) /\ Len(Append(old.paths, name)) = Len(old.paths) + 1
    BY <1>0, <2>2
  <2>4. sink'[c] \in Sinks
    BY <1>0, <2>1, <2>3 DEF Sinks
  <2>4a. /\ (sink'[c].blob <=> old.blob)
        /\ (sink'[c].text <=> old.text) /\ sink'[c].texts = old.texts
        /\ sink'[c].paths = Append(old.paths, name) /\ sink'[c].seen = old.seen
    BY <1>0, <2>1, <2>3 DEF Sinks
  <2>5. /\ (old.text <=> old.texts > 0) /\ Whole(part[old.slot], c)
        /\ old.text => Whole(part[TextSlot], c) /\ Len(part[TextSlot]) = old.texts
        /\ ~old.blob
    BY <2>1 DEF OpenInv, InTry, At, old
  <2>6. /\ final' \in [Slots -> Contents] /\ part' \in [Slots -> Contents]
        /\ late' \subseteq Slots /\ part'[TextSlot] = part[TextSlot]
    BY <1>0, <2>1, <2>5, RenameIs
  <2>7. /\ sink' \in [Calls -> Sinks] /\ stage' \in [Calls -> Stages]
        /\ \A d \in Calls : d # c => sink'[d] = sink[d]
    BY <1>5, <2>1, <2>4, <2>4a, BecomesIs, GotoIs DEF FinishBlob, Stages, InTry
  <2>8. \A d \in Calls : sink'[d].seen <= Len(sink'[d].paths)
    BY <1>0, <1>a, <2>3, <2>4, <2>4a, <2>7
  <2>9. Types'
    BY <2>6, <2>7, <2>8
       DEF Types, files, Stages, InTry, Ended
  <2> QED
    BY <2>1, <2>4, <2>4a, <2>5, <2>6, <2>9 DEF OpenInv, ClearInv, At, InTry
<1>6. CASE NextRound(c)
  <2>1. PICK row : row = Unseen(c)
    OBVIOUS
  <2>2. row \in Seq(Names) /\ Append(old.rows, row) \in Seq(Seq(Names))
    BY <1>0, <2>1, UnseenIs
  <2>3. Stored(c, row) = [old EXCEPT !.rows = Append(old.rows, row)]
    BY <2>2, StoredIs DEF old
  <2>4. /\ stage[c] = "streaming" /\ UNCHANGED <<files, stage>>
        /\ sink'[c] = [Stored(c, row) EXCEPT !.seen = SeenNow(c),
                                             !.round = Stored(c, row).round + 1]
    BY <1>6, <2>1, BecomesIs DEF NextRound, At
  <2>5. sink'[c] = [old EXCEPT !.rows = Append(old.rows, row),
                               !.seen = Len(old.paths), !.round = old.round + 1]
    BY <1>0, <2>2, <2>3, <2>4 DEF SeenNow, Sinks, old
  <2>6. sink'[c] \in Sinks
    <3>1. Len(old.paths) \in Nat /\ old.round + 1 \in Nat
      BY <1>0
    <3> QED
      BY <1>b, <2>2, <2>5, <3>1 DEF Sinks
  <2>6a. /\ (sink'[c].blob <=> old.blob) /\ sink'[c].slot = old.slot
        /\ (sink'[c].text <=> old.text) /\ sink'[c].texts = old.texts
        /\ sink'[c].paths = old.paths /\ sink'[c].seen = Len(old.paths)
    BY <1>0, <2>2, <2>5 DEF Sinks
  <2>7. Types'
    <3>1. sink'[c].seen <= Len(sink'[c].paths)
      BY <1>0, <2>6a
    <3> QED
      BY <2>4, <2>6, <3>1, TypesAre DEF Types, files
  <2> QED
    BY <2>4, <2>6, <2>6a, <2>7 DEF OpenInv, ClearInv, At, InTry, files, old
<1>7. CASE EndStream(c)
  <2>1. PICK failed \in BOOLEAN : Becomes(c, [sink[c] EXCEPT !.failed = failed])
    BY <1>7 DEF EndStream
  <2>2. /\ stage[c] = "streaming" /\ stage'[c] = "closing" /\ UNCHANGED files
        /\ ~old.blob
    BY <1>7, GotoIs DEF EndStream, At, old
  <2>5. sink'[c] = [old EXCEPT !.failed = failed]
    BY <2>1, BecomesIs DEF old
  <2>3. sink'[c] \in Sinks
    BY <1>b, <2>5 DEF Sinks
  <2>3a. /\ (sink'[c].blob <=> old.blob) /\ sink'[c].slot = old.slot
        /\ (sink'[c].text <=> old.text) /\ sink'[c].texts = old.texts
        /\ sink'[c].paths = old.paths /\ sink'[c].seen = old.seen
    BY <1>b, <2>5 DEF Sinks
  <2>4. Types'
    BY <1>0, <1>7, <1>a, <2>1, <2>2, <2>3, <2>3a, TypesAre    
       DEF Types, files, Stages, InTry, Ended
  <2> QED
    BY <2>2, <2>3, <2>3a, <2>4 DEF OpenInv, ClearInv, At, InTry, files, old
<1>8. CASE Close(c)
  <2>1. /\ stage[c] = "closing"
        /\ stage'[c] = IF old.text THEN "placing" ELSE "placed"
        /\ sink'[c] = [old EXCEPT !.text = FALSE,
                                  !.clear = old.text /\ Look(c, TextSlot)]
        /\ UNCHANGED files
    BY <1>8, BecomesIs, GotoIs DEF Close, At, old
  <2>2. sink'[c] \in Sinks
    BY <1>0, <2>1 DEF Sinks, Look, Free
  <2>2a. /\ (sink'[c].blob <=> old.blob) /\ sink'[c].slot = old.slot
        /\ ~sink'[c].text /\ sink'[c].texts = old.texts
        /\ (sink'[c].clear <=> old.text /\ Look(c, TextSlot))
        /\ sink'[c].paths = old.paths /\ sink'[c].seen = old.seen
    BY <1>b, <2>1, ZenonT(60) DEF Sinks, Look, Free
  <2>3. Types'
    BY <1>0, <1>8, <1>a, <2>1, <2>2, <2>2a, TypesAre    
       DEF Types, files, Stages, InTry, Ended
  <2>4. /\ ~old.blob
        /\ old.text => Whole(part[TextSlot], c) /\ Len(part[TextSlot]) = old.texts
    BY <2>1 DEF OpenInv, At, old
  <2>5. OpenInv(c)'
    BY <2>1, <2>2, <2>2a, <2>4 DEF OpenInv, At, InTry, files
  <2>6. ClearInv(c)'
    BY <2>1, <2>2, <2>2a DEF ClearInv, Target, At, Look, Free, files
  <2> QED
    BY <2>3, <2>5, <2>6
<1>9. CASE PlaceText(c)
  <2>1. /\ stage[c] = "placing" /\ stage'[c] = "placed" /\ UNCHANGED sink
        /\ Rename(c, TextSlot)
    BY <1>9, GotoIs DEF PlaceText, At
  <2>2. Whole(part[TextSlot], c) /\ ~old.text /\ ~old.blob
    BY <2>1 DEF OpenInv, InTry, At, old
  <2>3. Types'
    <3>1. /\ final' \in [Slots -> Contents] /\ part' \in [Slots -> Contents]
          /\ late' \subseteq Slots
      BY <1>0, <2>1, <2>2, RenameIs
    <3>2. stage'[c] \in Stages
      BY <2>1 DEF Stages
    <3> QED
      BY <1>0, <2>1, <3>1, <3>2, TypesAre DEF old
  <2> QED
    BY <2>1, <2>2, <2>3 DEF OpenInv, ClearInv, At, InTry, old
<1>10. CASE StoreAnswer(c)
  <2>1. PICK row : row = Unseen(c)
    OBVIOUS
  <2>2. row \in Seq(Names)
    BY <2>1, UnseenIs
  <2>3. Stored(c, row) = [old EXCEPT !.rows = Append(old.rows, row)] /\ Stored(c, row) \in Sinks
    BY <2>2, StoredIs DEF old
  <2>4. /\ stage[c] = "placed" /\ stage'[c] \in {"failed", "done"}
        /\ sink'[c] = Stored(c, row) /\ UNCHANGED files
    BY <1>10, <2>1, BecomesIs, GotoIs DEF StoreAnswer, At
  <2>5. /\ (sink'[c].blob <=> old.blob) /\ (sink'[c].text <=> old.text)
        /\ sink'[c].paths = old.paths /\ sink'[c].seen = old.seen
    BY <1>0, <2>3, <2>4 DEF Sinks
  <2>6. ~old.blob /\ ~old.text
    BY <2>4 DEF OpenInv, At, InTry, old
  <2>7. stage' \in [Calls -> Stages]
    BY <1>10, <2>4, GotoIs DEF StoreAnswer, Stages, Ended
  <2>8. Types'
    BY <1>0, <1>10, <1>a, <2>1, <2>3, <2>4, <2>5, <2>7, TypesAre    
       DEF Types, files, Stages, InTry, Ended
  <2> QED
    BY <2>4, <2>5, <2>6, <2>8 DEF OpenInv, ClearInv, At, InTry
<1>11. CASE Abandon(c)
  <2>1. PICK row : row = Pending(c)
    OBVIOUS
  <2>2. row \in Seq(Names) /\ Append(old.rows, row) \in Seq(Seq(Names))
    BY <1>0, <2>1, PendingIs
  <2>3. Stored(c, row) = [old EXCEPT !.rows = Append(old.rows, row)]
    BY <2>2, StoredIs DEF old
  <2>4. /\ sink'[c] = [Stored(c, row) EXCEPT !.text = FALSE, !.blob = FALSE]
        /\ UNCHANGED files /\ stage'[c] \in {"cancelled", "failed"}
        /\ stage' \in [Calls -> Stages]
    BY <1>11, <2>1, BecomesIs, GotoIs DEF Abandon, Stages, Ended
  <2>7. sink'[c] = [old EXCEPT !.rows = Append(old.rows, row), !.text = FALSE,
                               !.blob = FALSE]
    BY <1>b, <2>2, <2>3, <2>4 DEF Sinks
  <2>5. sink'[c] \in Sinks
    BY <1>b, <2>2, <2>7 DEF Sinks
  <2>5a. /\ ~sink'[c].blob /\ ~sink'[c].text
        /\ sink'[c].paths = old.paths /\ sink'[c].seen = old.seen
    BY <1>b, <2>7 DEF Sinks
  <2>6. Types'
    BY <1>0, <1>11, <1>a, <2>1, <2>4, <2>5, <2>5a, TypesAre
       DEF Types, files, Stages, InTry, Ended
  <2> QED
    BY <2>4, <2>5, <2>5a, <2>6 DEF OpenInv, ClearInv, At, InTry
<1>12. CASE Crash(c)
  <2>1. /\ sink'[c] = [old EXCEPT !.text = FALSE, !.blob = FALSE]
        /\ UNCHANGED files /\ stage'[c] = "crashed"
        /\ stage' \in [Calls -> Stages]
    BY <1>12, BecomesIs, GotoIs DEF Crash, Stages, Ended, old
  <2>2. sink'[c] \in Sinks
    BY <1>0, <2>1 DEF Sinks
  <2>2a. /\ ~sink'[c].blob /\ ~sink'[c].text
        /\ sink'[c].paths = old.paths /\ sink'[c].seen = old.seen
    BY <1>0, <2>1 DEF Sinks
  <2>3. Types'
    BY <1>0, <1>12, <1>a, <2>1, <2>2, <2>2a, TypesAre
       DEF Types, files, Stages, InTry, Ended
  <2> QED
    BY <2>1, <2>2, <2>2a, <2>3 DEF OpenInv, ClearInv, At, InTry
<1> QED
  BY <1>1, <1>2, <1>3, <1>4, <1>5, <1>6, <1>7, <1>8, <1>9, <1>10, <1>11, <1>12
     DEF Run

\* Every step of a call keeps that its rows name its files, in their order
\* and in place: paths[seen:] takes up where the row before it ended.
LEMMA NamesHold ==
    ASSUME Types, Types', Alone, NEW c \in Calls, Run(c), Placed(c),
           OpenInv(c), NamesInv(c)
    PROVE  NamesInv(c)'
<1> DEFINE old == sink[c]
<1>0. /\ old \in Sinks
      /\ old.paths \in Seq(Names) /\ Len(old.paths) \in Nat
      /\ old.seen \in Nat /\ old.seen <= Len(old.paths)
      /\ old.rows \in Seq(Seq(Names)) /\ Len(old.rows) \in Nat
      /\ old.slot \in BlobSlots /\ old.slot \in Slots
  BY SinkFields DEF Slots
<1> HIDE DEF old
<1>a. /\ stage[c] \notin Ended
      /\ FlattenSeq(old.rows) = SubSeq(old.paths, 1, old.seen)
  BY OthersStay DEF NamesInv, old
<1>b. Safe(c)' => Safe(c)
  BY OthersStay, SinkAssumption DEF Safe, At
<1>c. old \in Sinks
  BY <1>0
<1>1. ASSUME sink'[c].paths = old.paths, sink'[c].seen = old.seen,
             sink'[c].rows = old.rows, stage'[c] # "done"
      PROVE  NamesInv(c)'
  BY <1>1, NamesKept DEF old
<1>2. CASE Start(c) \/ PlaceText(c)
  <2>1. sink' = sink
    BY <1>2 DEF Start, PlaceText
  <2>2. stage'[c] # "done"
    BY <1>2, GotoIs DEF Start, PlaceText
  <2> QED
    BY <1>1, <2>1, <2>2 DEF old
<1>3. CASE WriteText(c)
  <2>1. /\ sink'[c] = [old EXCEPT !.text = TRUE, !.events = old.events + 1,
                                  !.texts = old.texts + 1]
        /\ stage'[c] = "streaming"
    BY <1>3, BecomesIs DEF WriteText, MayReceive, At, old
  <2> QED
    BY <1>1, <1>c, <2>1 DEF Sinks
<1>4. CASE WriteBlob(c)
  <2>1. PICK slot : Becomes(c, [sink[c] EXCEPT !.blob = TRUE, !.slot = slot,
                                        !.n = slot, !.events = @ + 1])
    BY <1>4 DEF WriteBlob
  <2>2. /\ sink'[c] = [old EXCEPT !.blob = TRUE, !.slot = slot, !.n = slot,
                                  !.events = old.events + 1]
        /\ stage'[c] = "streaming"
    BY <1>4, <2>1, BecomesIs DEF WriteBlob, MayReceive, At, old
  <2> QED
    BY <1>1, <1>c, <2>2 DEF Sinks
<1>5. CASE EndBlob(c)
  <2>1. /\ sink'[c] = [old EXCEPT !.blob = FALSE, !.clear = Look(c, old.slot)]
        /\ stage'[c] = "renaming"
    BY <1>5, BecomesIs, GotoIs DEF EndBlob, old
  <2> QED
    BY <1>1, <1>c, <2>1 DEF Sinks
<1>6. CASE EndStream(c)
  <2>1. PICK failed \in BOOLEAN : Becomes(c, [sink[c] EXCEPT !.failed = failed])
    BY <1>6 DEF EndStream
  <2>2. sink'[c] = [old EXCEPT !.failed = failed] /\ stage'[c] = "closing"
    BY <1>6, <2>1, BecomesIs, GotoIs DEF EndStream, old
  <2> QED
    BY <1>1, <1>c, <2>2 DEF Sinks
<1>7. CASE Close(c)
  <2>1. /\ sink'[c] = [old EXCEPT !.text = FALSE,
                                  !.clear = old.text /\ Look(c, TextSlot)]
        /\ stage'[c] \in {"placing", "placed"}
    BY <1>7, BecomesIs, GotoIs DEF Close, old
  <2> QED
    BY <1>1, <1>c, <2>1 DEF Sinks
<1>8. CASE Crash(c)
  <2>1. /\ sink'[c] = [old EXCEPT !.text = FALSE, !.blob = FALSE]
        /\ stage'[c] = "crashed"
    BY <1>8, BecomesIs, GotoIs DEF Crash, old
  <2> QED
    BY <1>1, <1>c, <2>1 DEF Sinks
<1>9. CASE FinishBlob(c)
  <2> DEFINE name == <<old.slot, IF old.clear THEN "final" ELSE "part">>
  <2>1. /\ stage[c] = "renaming" /\ stage'[c] = "streaming"
        /\ Rename(c, old.slot)
        /\ sink'[c] = [old EXCEPT !.paths = Append(old.paths, name)]
    BY <1>9, BecomesIs, GotoIs DEF FinishBlob, At, old
  <2>2. /\ name \in Names /\ name[1] = old.slot
        /\ name[2] = "final" => old.clear
    BY <1>0 DEF Names
  <2>3. /\ Whole(part[old.slot], c)
        /\ name[2] = "final" => final'[old.slot] = part[old.slot]
    <3>1. Whole(part[old.slot], c)
      BY <2>1 DEF OpenInv, At, old
    <3> QED
      BY <1>0, <2>1, <2>2, <3>1, RenameIs DEF old
  <2>4. name[2] = "final" => Contains(final'[name[1]], c)
    <3>1. Len(part[old.slot]) \in Nat
      BY <1>0 DEF Types, Contents
    <3>2. Contains(part[old.slot], c)
      <4>1. Len(part[old.slot]) # 0
        BY <1>0, <2>3 DEF Whole, Types, Contents
      <4> QED
        BY <2>3, <3>1, <4>1, SMTT(60) DEF Whole, Contains
    <3> QED
      BY <2>2, <2>3, <3>2
  <2> HIDE DEF name
  <2>5. PICK p : p = Append(old.paths, name)
    OBVIOUS
  <2>6. /\ p \in Seq(Names) /\ Len(p) = Len(old.paths) + 1
        /\ \A k \in 1..Len(old.paths) : p[k] = old.paths[k]
        /\ p[Len(old.paths) + 1] = name
        /\ SubSeq(p, 1, old.seen) = SubSeq(old.paths, 1, old.seen)
    BY <1>0, <2>2, <2>5
  <2>7. /\ sink'[c].paths = p /\ sink'[c].seen = old.seen
        /\ sink'[c].rows = old.rows
    BY <1>c, <2>1, <2>5 DEF Sinks
  <2>8. \A s \in Slots : Contains(final[s], c) => Contains(final'[s], c)
    <3>1. final'[old.slot] # final[old.slot] => Contains(final'[old.slot], c)
      BY <2>1, <2>2, <2>3, <2>4 DEF Rename, files, name, old
    <3>2. \A s \in Slots : s # old.slot => final'[s] = final[s]
      BY <1>0, <2>1, <2>3, RenameIs
    <3> QED
      BY <3>1, <3>2
  <2>9. \A k \in 1..Len(p) :
          /\ p[k][1] \in BlobSlots
          /\ p[k][2] = "final" /\ Safe(c)' => Contains(final'[p[k][1]], c)
    <3> SUFFICES ASSUME NEW k \in 1..Len(p)
                 PROVE  /\ p[k][1] \in BlobSlots
                        /\ p[k][2] = "final" /\ Safe(c)' =>
                              Contains(final'[p[k][1]], c)
      OBVIOUS
    <3>1. CASE k = Len(old.paths) + 1
      BY <1>0, <2>2, <2>4, <2>6, <3>1
    <3>2. CASE k \in 1..Len(old.paths)
      <4>1. /\ old.paths[k][1] \in BlobSlots
            /\ old.paths[k][2] = "final" /\ Safe(c) =>
                  Contains(final[old.paths[k][1]], c)
        BY <3>2 DEF NamesInv, old
      <4> QED
        BY <1>b, <2>6, <2>8, <3>2, <4>1 DEF Slots
    <3> QED
      BY <1>0, <2>6, <3>1, <3>2
  <2>10. ToSet(old.paths) \subseteq ToSet(p)
    <3>1. DOMAIN old.paths = 1..Len(old.paths) /\ DOMAIN p = 1..Len(p)
      BY <1>0, <2>6
    <3>2. \A k \in DOMAIN old.paths : k \in DOMAIN p /\ p[k] = old.paths[k]
      BY <1>0, <2>6, <3>1
    <3> QED
      BY <3>2 DEF ToSet
  <2>11. \A i \in 1..Len(old.rows) : \A k \in 1..Len(old.rows[i]) :
            old.rows[i][k][2] = "final" => old.rows[i][k] \in ToSet(p)
    BY <2>10 DEF NamesInv, old
  <2> QED
    BY <1>a, <2>1, <2>6, <2>7, <2>9, <2>11 DEF NamesInv, At
<1>10. ASSUME NEW row \in Seq(Names), sink'[c].rows = Append(old.rows, row),
              sink'[c].paths = old.paths, final' = final,
              \A k \in 1..Len(row) : row[k][2] = "final" => row[k] \in ToSet(old.paths),
              stage'[c] \notin Ended =>
                 FlattenSeq(Append(old.rows, row)) = SubSeq(old.paths, 1, sink'[c].seen),
              stage'[c] = "done" => FlattenSeq(Append(old.rows, row)) = old.paths
       PROVE  NamesInv(c)'
  <2>1. PICK more : more = Append(old.rows, row)
    OBVIOUS
  <2>2. /\ Len(more) = Len(old.rows) + 1
        /\ \A i \in 1..Len(old.rows) : more[i] = old.rows[i]
        /\ more[Len(old.rows) + 1] = row
    BY <1>0, <1>10, <2>1
  <2>3. \A i \in 1..Len(more) : \A k \in 1..Len(more[i]) :
           more[i][k][2] = "final" => more[i][k] \in ToSet(old.paths)
    <3> SUFFICES ASSUME NEW i \in 1..Len(more)
                 PROVE  \A k \in 1..Len(more[i]) :
                           more[i][k][2] = "final" => more[i][k] \in ToSet(old.paths)
      OBVIOUS
    <3>1. CASE i = Len(old.rows) + 1
      BY <1>10, <2>2, <3>1
    <3>2. CASE i \in 1..Len(old.rows)
      BY <2>2, <3>2 DEF NamesInv, old
    <3> QED
      BY <1>0, <2>2, <3>1, <3>2, SMTT(60)
  <2> QED
    BY <1>b, <1>10, <2>1, <2>3 DEF NamesInv, At, old
<1>11. CASE NextRound(c)
  <2>1. PICK row : row = Unseen(c)
    OBVIOUS
  <2>2. /\ row \in Seq(Names)
        /\ \A k \in 1..Len(row) : row[k] \in ToSet(old.paths)
        /\ SubSeq(old.paths, 1, old.seen) \o row = old.paths
        /\ SubSeq(old.paths, 1, Len(old.paths)) = old.paths
    BY <2>1, UnseenIs DEF old
  <2>3. Stored(c, row) = [old EXCEPT !.rows = Append(old.rows, row)]
    BY <2>2, StoredIs DEF old
  <2>4. /\ final' = final /\ stage'[c] = "streaming"
        /\ sink'[c] = [Stored(c, row) EXCEPT !.seen = SeenNow(c),
                                             !.round = Stored(c, row).round + 1]
    BY <1>11, <2>1, BecomesIs DEF NextRound, At, files
  <2>5. /\ sink'[c].rows = Append(old.rows, row) /\ sink'[c].paths = old.paths
        /\ sink'[c].seen = Len(old.paths)
    BY <1>c, <2>2, <2>3, <2>4 DEF SeenNow, Sinks, old
  <2>6. FlattenSeq(Append(old.rows, row)) = old.paths
    BY <1>0, <1>a, <2>2, FlattenAppend
  <2> QED
    BY <1>10, <2>2, <2>4, <2>5, <2>6
<1>12. CASE StoreAnswer(c)
  <2>1. PICK row : row = Unseen(c)
    OBVIOUS
  <2>2. /\ row \in Seq(Names)
        /\ \A k \in 1..Len(row) : row[k] \in ToSet(old.paths)
        /\ SubSeq(old.paths, 1, old.seen) \o row = old.paths
    BY <2>1, UnseenIs DEF old
  <2>3. Stored(c, row) = [old EXCEPT !.rows = Append(old.rows, row)]
    BY <2>2, StoredIs DEF old
  <2>4. /\ final' = final /\ stage'[c] \in {"failed", "done"}
        /\ sink'[c] = Stored(c, row)
    BY <1>12, <2>1, BecomesIs, GotoIs DEF StoreAnswer, files
  <2>5. sink'[c].rows = Append(old.rows, row) /\ sink'[c].paths = old.paths
    BY <1>c, <2>3, <2>4 DEF Sinks
  <2>6. FlattenSeq(Append(old.rows, row)) = old.paths
    BY <1>0, <1>a, <2>2, FlattenAppend
  <2>7. stage'[c] \in Ended
    BY <2>4 DEF Ended
  <2> QED
    BY <1>10, <2>2, <2>4, <2>5, <2>6, <2>7
<1>13. CASE Abandon(c)
  <2>1. PICK row : row = Pending(c)
    OBVIOUS
  <2>2. row \in Seq(Names) /\ \A k \in 1..Len(row) : row[k][2] # "final"
    BY <2>1, PendingIs
  <2>3. Stored(c, row) = [old EXCEPT !.rows = Append(old.rows, row)]
    BY <2>2, StoredIs DEF old
  <2>4. /\ final' = final /\ stage'[c] \in {"cancelled", "failed"}
        /\ sink'[c] = [Stored(c, row) EXCEPT !.text = FALSE, !.blob = FALSE]
    BY <1>13, <2>1, BecomesIs, GotoIs DEF Abandon, files
  <2>5. sink'[c].rows = Append(old.rows, row) /\ sink'[c].paths = old.paths
    BY <1>c, <2>3, <2>4 DEF Sinks
  <2>6. stage'[c] \in Ended /\ stage'[c] # "done"
    BY <2>4 DEF Ended
  <2> QED
    BY <1>10, <2>2, <2>4, <2>5, <2>6
<1> QED
  BY <1>2, <1>3, <1>4, <1>5, <1>6, <1>7, <1>8, <1>9, <1>11, <1>12, <1>13 DEF Run

----------------------------------------------------------------------------
\* The invariant.

\* No call has begun and there is no file.
LEMMA InitHolds == Init => IInv
<1> SUFFICES ASSUME Init PROVE IInv
  OBVIOUS
<1>1. NoFile \in Contents /\ << >> \in Seq(Names) /\ << >> \in Seq(Seq(Names))
  BY DEF NoFile, Contents
<1>2. 1 \in BlobSlots /\ 1 \in Nat /\ 0 \in Nat
  BY SinkAssumption DEF BlobSlots
<1>3. NewSink \in Sinks
  BY <1>1, <1>2 DEF NewSink, Sinks
<1>4. "idle" \in Stages
  BY DEF Stages
<1>5. /\ NewSink.paths = << >> /\ NewSink.rows = << >> /\ NewSink.seen = 0
      /\ ~NewSink.text /\ ~NewSink.blob
  BY DEF NewSink
<1>6. \A c \in Calls : sink[c] = NewSink /\ stage[c] = "idle"
  BY DEF Init
<1>7. Types
  BY <1>1, <1>3, <1>4, <1>5 DEF Init, Types
<1>8. Alone
  BY <1>6 DEF Alone, Running
<1>9. \A c \in Calls : OpenInv(c) /\ ClearInv(c)
  BY <1>5, <1>6 DEF OpenInv, ClearInv, At, InTry
<1>10. FlattenSeq(<< >>) = << >> /\ SubSeq(<< >>, 1, 0) = << >>
  BY DEF FlattenSeq
<1>11. \A c \in Calls : NamesInv(c)
  <2> SUFFICES ASSUME NEW c \in Calls PROVE NamesInv(c)
    OBVIOUS
  <2>1. /\ sink[c].paths = << >> /\ sink[c].rows = << >> /\ sink[c].seen = 0
        /\ stage[c] = "idle"
    BY <1>5, <1>6
  <2>2. 1..Len(sink[c].paths) = {} /\ 1..Len(sink[c].rows) = {}
    BY <2>1
  <2>3. FlattenSeq(sink[c].rows) = SubSeq(sink[c].paths, 1, sink[c].seen)
    BY <1>10, <2>1
  <2> QED
    BY <2>1, <2>2, <2>3 DEF NamesInv, At
<1>12. \A s \in Slots, c \in Calls : FinalInv(s, c)
  BY DEF Init, FinalInv, Contains, NoFile
<1> QED
  BY <1>7, <1>8, <1>9, <1>11, <1>12 DEF IInv

\* A step of a call keeps the invariant, its own part and everybody else's.
LEMMA RunHolds ==
    ASSUME IInv, NEW c \in Calls, Run(c)
    PROVE  IInv'
<1>1. /\ Types /\ Alone /\ OpenInv(c) /\ ClearInv(c) /\ NamesInv(c)
      /\ \A s \in Slots : FinalInv(s, c)
  BY DEF IInv
<1>2. Placed(c)
  BY <1>1, PlacedIs
<1>3. Types' /\ OpenInv(c)' /\ ClearInv(c)'
  BY <1>1, OwnHolds
<1>4. NamesInv(c)'
  BY <1>1, <1>2, <1>3, NamesHold
<1>5. stage[c] \in {"placed", "placing"} =>
         /\ stage'[c] \in {"placed", "done", "failed", "crashed"}
         /\ sink'[c].texts = sink[c].texts
  <2> SUFFICES ASSUME stage[c] \in {"placed", "placing"}
               PROVE  /\ stage'[c] \in {"placed", "done", "failed", "crashed"}
                      /\ sink'[c].texts = sink[c].texts
    OBVIOUS
  <2>1. CASE PlaceText(c)
    BY <1>1, <2>1, GotoIs DEF PlaceText
  <2>2. CASE StoreAnswer(c)
    <3>1. PICK row : row = Unseen(c)
      OBVIOUS
    <3>2. row \in Seq(Names)
      BY <1>1, <3>1, UnseenIs
    <3>3. sink'[c] = [sink[c] EXCEPT !.rows = Append(sink[c].rows, row)]
      <4>1. Stored(c, row) = [sink[c] EXCEPT !.rows = Append(sink[c].rows, row)]
        BY <1>1, <3>2, StoredIs
      <4>2. sink'[c] = Stored(c, row)
        BY <1>1, <2>2, <3>1, BecomesIs DEF StoreAnswer
      <4> QED
        BY <4>1, <4>2
    <3>4. stage'[c] \in {"failed", "done"}
      BY <1>1, <2>2, GotoIs DEF StoreAnswer
    <3> QED
      BY <1>1, <3>3, <3>4, SinkFields DEF Sinks
  <2>3. CASE Crash(c)
    <3>1. /\ sink'[c] = [sink[c] EXCEPT !.text = FALSE, !.blob = FALSE]
          /\ stage'[c] = "crashed"
      BY <1>1, <2>3, BecomesIs, GotoIs DEF Crash
    <3> QED
      BY <1>1, <3>1, SinkFields DEF Sinks
  <2> QED
    BY <2>1, <2>2, <2>3
       DEF Run, Start, WriteText, WriteBlob, EndBlob, FinishBlob, NextRound,
           EndStream, Close, Abandon, MayReceive, At, InTry
<1>6. \A s \in Slots : FinalInv(s, c)'
  BY <1>1, <1>2, <1>5, FinalKept
<1>7. Alone'
  BY <1>1, OthersStay DEF Alone
<1>8. ASSUME NEW d \in Calls, d # c
      PROVE  /\ OpenInv(d)' /\ ClearInv(d)' /\ NamesInv(d)'
             /\ \A s \in Slots : FinalInv(s, d)'
  <2>1. OpenInv(d) /\ NamesInv(d) /\ \A s \in Slots : FinalInv(s, d)
    BY DEF IInv
  <2> QED
    BY <1>1, <1>2, <1>8, <2>1, OthersClosed, OthersNamed
<1> QED
  BY <1>3, <1>4, <1>6, <1>7, <1>8 DEF IInv

\* So does the user, who creates a file only where there is none.
LEMMA CreateHolds ==
    ASSUME IInv, NEW slot \in Slots, Create(slot)
    PROVE  IInv'
<1>1. /\ final[slot] = NoFile /\ part' = part /\ stage' = stage /\ sink' = sink
      /\ final' = [final EXCEPT ![slot] = <<User>>]
      /\ late \subseteq late' /\ late' \subseteq Slots
  BY DEF Create, IInv, Types
<1>2. /\ final'[slot] = <<User>> /\ <<User>> \in Contents
      /\ \A s \in Slots : s # slot => final'[s] = final[s]
  BY <1>1 DEF IInv, Types, Contents
<1>3. Types' /\ Alone'
  BY <1>1, <1>2 DEF IInv, Types, Alone, Running
<1>4. \A c \in Calls : \A s \in Slots :
         Contains(final'[s], c) <=> s # slot /\ Contains(final[s], c)
  BY <1>1, <1>2, SinkAssumption DEF Contains, NoFile
<1>5. ASSUME NEW c \in Calls
      PROVE  OpenInv(c)'
  <2>1. OpenInv(c)
    BY DEF IInv
  <2> QED
    BY <1>1, <2>1 DEF OpenInv, At
<1>6. ASSUME NEW c \in Calls
      PROVE  ClearInv(c)'
  <2> SUFFICES ASSUME stage[c] \in {"renaming", "placing"}, sink[c].clear,
                      c \notin Forced
               PROVE  \/ final'[Target(c)] = NoFile
                      \/ final'[Target(c)] = <<User>> /\ Target(c) \in late'
    BY <1>1 DEF ClearInv, Target, At
  <2>1. \/ final[Target(c)] = NoFile
        \/ final[Target(c)] = <<User>> /\ Target(c) \in late
    BY DEF IInv, ClearInv
  <2>2. Target(c) \in Slots
    BY SinkFields DEF Target, Slots, IInv
  <2>3. CASE Target(c) = slot
    <3>1. \/ At(c, "renaming") /\ sink[c].slot = slot
          \/ At(c, "placing") /\ slot = TextSlot
      BY <2>3 DEF Target, At
    <3>2. slot \in late'
      BY <3>1 DEF Create
    <3> QED
      BY <1>2, <2>3, <3>2
  <2>4. CASE Target(c) # slot
    BY <1>1, <1>2, <2>1, <2>2, <2>4
  <2> QED
    BY <2>3, <2>4
<1>7. ASSUME NEW c \in Calls
      PROVE  NamesInv(c)'
  <2>1. NamesInv(c)
    BY DEF IInv
  <2>2. \A s \in Slots : Contains(final[s], c) => Contains(final'[s], c)
    BY <1>1, <1>4 DEF Contains, NoFile
  <2> QED
    BY <1>1, <2>1, <2>2 DEF NamesInv, Safe, At, Slots
<1>8. ASSUME NEW c \in Calls, NEW s \in Slots
      PROVE  FinalInv(s, c)'
  <2>1. FinalInv(s, c)
    BY DEF IInv
  <2> QED
    BY <1>1, <1>2, <1>4, <2>1 DEF FinalInv
<1> QED
  BY <1>3, <1>5, <1>6, <1>7, <1>8 DEF IInv

\* Hence every step keeps it.
LEMMA NextHolds == IInv /\ [Next]_vars => IInv'
<1> SUFFICES ASSUME IInv, [Next]_vars PROVE IInv'
  OBVIOUS
<1>1. CASE UNCHANGED vars
  BY <1>1, ZenonT(60) DEF vars, IInv, Types, Alone, Running, OpenInv, ClearInv, Target,
              NamesInv, Safe, FinalInv, At
<1> QED
  BY <1>1, RunHolds, CreateHolds DEF Next, AllEnded

\* The inductive invariant.
THEOREM Invariance == Spec => []IInv
<1> QED
  BY InitHolds, NextHolds, PTL DEF Spec

----------------------------------------------------------------------------
\* The properties of the run.

\* Files, stages and the fields of a Sink have their types, for any bound.
THEOREM TypeCorrect == Spec => []TypeOK
<1>1. IInv => TypeOK
  <2> SUFFICES ASSUME IInv PROVE TypeOK
    OBVIOUS
  <2>1. /\ final \in [Slots -> Contents] /\ part \in [Slots -> Contents]
        /\ late \subseteq Slots /\ stage \in [Calls -> Stages]
    BY DEF IInv, Types
  <2>2. ASSUME NEW c \in Calls
        PROVE  /\ sink[c].slot \in BlobSlots
               /\ sink[c].paths \in Seq(Names)
               /\ sink[c].rows \in Seq(Seq(Names))
               /\ sink[c].seen \in 0..Len(sink[c].paths)
    BY SinkFields DEF IInv
  <2> QED
    BY <2>1, <2>2 DEF TypeOK
<1> QED
  BY <1>1, Invariance, PTL

\* A file in place is one writer's, and PATH itself holds the whole text of a
\* call that got as far as placing it: no half answer under the name.
THEOREM PlacedIsWhole == Spec => []PlacedWhole
<1>1. IInv => PlacedWhole
  <2> SUFFICES ASSUME IInv, NEW s \in Slots, NEW c \in Calls, Contains(final[s], c)
               PROVE  /\ ToSet(final[s]) = {c}
                      /\ s = TextSlot =>
                            /\ Len(final[s]) = sink[c].texts
                            /\ stage[c] \in {"placed", "done", "failed", "crashed"}
    BY DEF PlacedWhole
  <2>1. FinalInv(s, c) /\ final[s] \in Seq(Calls \cup {User})
    BY DEF IInv, Types, Contents
  <2>2. Whole(final[s], c)
    BY <2>1 DEF FinalInv
  <2>3. DOMAIN final[s] = 1..Len(final[s])
    BY <2>1
  <2>4. ToSet(final[s]) = {c}
    BY <2>2, <2>3 DEF ToSet, Whole, Contains
  <2> QED
    BY <2>1, <2>4 DEF FinalInv
<1> QED
  BY <1>1, Invariance, PTL

\* A call that ran to its end has named each blob file once and in order, all
\* its rounds' rows together.
THEOREM NamedOnce == Spec => []OutputsOnce
<1>1. IInv => OutputsOnce
  BY DEF IInv, NamesInv, OutputsOnce
<1> QED
  BY <1>1, Invariance, PTL

\* The blob file a row names keeps the bytes of that call until -f.
THEOREM NamedIsKept == Spec => []OutputsKept
<1>1. IInv => OutputsKept
  <2> SUFFICES ASSUME IInv, NEW c \in Calls, NEW s \in Slots,
                      NEW i \in DOMAIN sink[c].rows,
                      Contains(sink[c].rows[i], <<s, "final">>),
                      \A d \in Forced \ {c} : At(d, "idle")
               PROVE  Contains(final[s], c)
    BY DEF OutputsKept
  <2>1. NamesInv(c) /\ Types /\ Safe(c)
    BY DEF IInv, Safe
  <2>2. /\ DOMAIN sink[c].rows = 1..Len(sink[c].rows)
        /\ DOMAIN sink[c].paths = 1..Len(sink[c].paths)
    BY <2>1, SinkFields
  <2>3. PICK name : name = <<s, "final">>
    OBVIOUS
  <2>4. name[1] = s /\ name[2] = "final"
    BY <2>3
  <2>5. PICK k \in 1..Len(sink[c].rows[i]) : sink[c].rows[i][k] = name
    BY <2>3 DEF Contains
  <2>6. name \in ToSet(sink[c].paths)
    BY <2>1, <2>2, <2>4, <2>5 DEF NamesInv
  <2>7. PICK m \in 1..Len(sink[c].paths) : sink[c].paths[m] = name
    BY <2>2, <2>6 DEF ToSet
  <2> QED
    BY <2>1, <2>4, <2>7 DEF NamesInv
<1> QED
  BY <1>1, Invariance, PTL

\* dic overwrites no file of the user's without -f, but for one that came
\* between the look and the rename.
THEOREM UsersFilesKept == Spec => UserFileKept
<1>1. ASSUME IInv, [Next]_vars, NEW s \in Slots, final[s] = <<User>>, s \notin late
      PROVE  \/ final'[s] = <<User>>
             \/ \E c \in Forced : stage[c] \in {"renaming", "placing"}
  <2>1. ASSUME NEW c \in Calls, Run(c)
        PROVE  \/ final'[s] = <<User>>
               \/ \E d \in Forced : stage[d] \in {"renaming", "placing"}
    <3>1. Placed(c)
      BY <1>1, <2>1, PlacedIs DEF IInv
    <3>2. final[s] # NoFile
      BY <1>1 DEF NoFile
    <3> QED
      BY <1>1, <3>1, <3>2 DEF Placed
  <2>2. ASSUME NEW slot \in Slots, Create(slot)
        PROVE  final'[s] = <<User>>
    <3>1. final[slot] = NoFile /\ final' = [final EXCEPT ![slot] = <<User>>]
      BY <2>2 DEF Create
    <3> QED
      BY <1>1, <3>1 DEF IInv, Types
  <2>3. CASE UNCHANGED vars
    BY <1>1, <2>3 DEF vars
  <2> QED
    BY <1>1, <2>1, <2>2, <2>3 DEF Next, AllEnded
<1>2. IInv /\ [Next]_vars =>
        [\A s \in Slots :
            final[s] = <<User>> /\ s \notin late =>
                \/ final'[s] = <<User>>
                \/ \E c \in Forced : stage[c] \in {"renaming", "placing"}]_vars
  BY <1>1
<1> QED
  BY <1>2, Invariance, PTL DEF Spec, UserFileKept

\* The row of a call cut short names the .part that was open, and that file
\* holds what had arrived.
THEOREM WhatIsOpenIsNamed == Spec => PendingNamed
<1>1. ASSUME IInv, [Next]_vars, NEW c \in Calls, At(c, "streaming"),
             stage'[c] \in {"cancelled", "failed"}, sink[c].text \/ sink[c].blob
      PROVE  \E name \in ToSet(Last(sink'[c].rows)) :
                name[2] = "part" /\ Contains(part'[name[1]], c)
  <2>0. /\ Types /\ Alone /\ OpenInv(c) /\ stage[c] = "streaming"
        /\ sink[c] \in Sinks /\ sink[c].rows \in Seq(Seq(Names))
        /\ sink[c].slot \in Slots /\ TextSlot \in Slots
    BY <1>1, SinkFields DEF IInv, At, Slots
  <2>1. Abandon(c)
    <3>1. PICK d \in Calls : Run(d)
      BY <1>1, <2>0 DEF Next, Create, AllEnded, Ended, vars
    <3>2. d = c
      BY <1>1, <2>0, <3>1, OthersStay
    <3> QED
      BY <1>1, <2>0, <3>1, <3>2, GotoIs
         DEF Run, Start, WriteText, WriteBlob, EndBlob, FinishBlob, NextRound,
             EndStream, Close, PlaceText, StoreAnswer, Crash, MayReceive, At
  <2>2. PICK row : row = Pending(c)
    OBVIOUS
  <2>3. row \in Seq(Names)
    BY <2>0, <2>2, PendingIs
  <2>4. Stored(c, row) = [sink[c] EXCEPT !.rows = Append(sink[c].rows, row)]
    BY <2>0, <2>3, StoredIs
  <2>5. /\ sink'[c] = [Stored(c, row) EXCEPT !.text = FALSE, !.blob = FALSE]
        /\ part' = part
    BY <2>0, <2>1, <2>2, BecomesIs DEF Abandon, files
  <2>6. sink'[c].rows = Append(sink[c].rows, row)
    BY <2>0, <2>4, <2>5 DEF Sinks
  <2>7. Last(sink'[c].rows) = row
    BY <2>0, <2>3, <2>6 DEF Last
  <2>8. PICK slot \in Slots : row = <<<<slot, "part">>>> /\ Whole(part[slot], c)
    BY <1>1, <2>0, <2>2 DEF Pending, OpenInv
  <2>9. <<slot, "part">> \in ToSet(row)
    BY <2>8, OneElement
  <2>10. Contains(part[slot], c)
    <3>1. part[slot] \in Seq(Calls \cup {User})
      BY <2>0 DEF Types, Contents
    <3>2. Len(part[slot]) \in Nat /\ Len(part[slot]) # 0
      BY <2>8, <3>1 DEF Whole
    <3> QED
      BY <2>8, <3>2 DEF Whole, Contains
  <2>11. <<slot, "part">>[1] = slot /\ <<slot, "part">>[2] = "part"
    OBVIOUS
  <2> QED
    BY <2>5, <2>7, <2>9, <2>10, <2>11
<1>2. IInv /\ [Next]_vars =>
        [\A c \in Calls :
            /\ At(c, "streaming")
            /\ stage'[c] \in {"cancelled", "failed"}
            /\ sink[c].text \/ sink[c].blob
            => \E name \in ToSet(Last(sink'[c].rows)) :
                  name[2] = "part" /\ Contains(part'[name[1]], c)]_vars
  BY <1>1
<1> QED
  BY <1>2, Invariance, PTL DEF Spec, PendingNamed
=============================================================================
