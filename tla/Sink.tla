------------------------------- MODULE Sink -------------------------------
(***************************************************************************)
(* The files of an answer: class Sink of src/src/dic/output.py, driven by  *)
(* dic() of src/src/dic/client.py.  Calls name one --path, one call after  *)
(* the other; text goes to the name itself, and each blob to the name with *)
(* a number in it.  A file is written beside itself as NAME.part and       *)
(* renamed into place, while the user may create files of the same names.  *)
(***************************************************************************)
EXTENDS Naturals, Sequences, SequencesExt

CONSTANTS
    Calls,      \* the calls given this --path
    User,       \* whoever else creates files
    Forced,     \* the calls run with -f
    MaxSlot,    \* bound: the last blob number there is room for
    MaxEvents,  \* bound: chunks of one call
    MaxRounds   \* bound: API rounds of one call

ASSUME SinkAssumption ==
    /\ User \notin Calls
    /\ Forced \subseteq Calls
    /\ MaxSlot \in Nat \ {0}
    /\ MaxEvents \in Nat
    /\ MaxRounds \in Nat \ {0}

VARIABLES
    final,  \* slot -> the chunks of the file of that name, each by its writer
    part,   \* slot -> the chunks of the file of that name with .part
    late,   \* slots the user filled while a rename into them was under way
    stage,  \* call -> where dic() stands
    sink    \* call -> its Sink, and dic()'s locals beside it

vars == <<final, part, late, stage, sink>>
files == <<final, part, late>>

\* Slot 0 is PATH itself, slot i + 1 is numbered(PATH, i).
TextSlot == 0
BlobSlots == 1..MaxSlot
Slots == {TextSlot} \cup BlobSlots

\* Every file is opened with its first chunk, so an empty one is none at all.
NoFile == << >>

Contents == Seq(Calls \cup {User})
Names == Slots \X {"final", "part"}

Ended == {"done", "failed", "cancelled", "refused", "crashed"}
InTry == {"streaming", "renaming"}
Stages == {"idle", "closing", "placing", "placed"} \cup InTry \cup Ended

\* `text' and `blob': is that file open; `slot' is blob_path, `n' and `paths'
\* are the Sink's own; `clear' is what commit() found out about the name.  Of
\* dic(): `seen', `round', whether the stream failed, and the outputs column
\* of each row stored.  `events' and `texts' count what has arrived.
NewSink == [text |-> FALSE, blob |-> FALSE, slot |-> 1, n |-> 0,
            paths |-> << >>, clear |-> TRUE, seen |-> 0, round |-> 1,
            failed |-> FALSE, rows |-> << >>, events |-> 0, texts |-> 0]

Init ==
    /\ final = [s \in Slots |-> NoFile]
    /\ part = [s \in Slots |-> NoFile]
    /\ late = {}
    /\ stage = [c \in Calls |-> "idle"]
    /\ sink = [c \in Calls |-> NewSink]

Goto(c, s) == stage' = [stage EXCEPT ![c] = s]
At(c, s) == stage[c] = s
Running(c) == stage[c] \notin Ended \cup {"idle"}
Becomes(c, s) == sink' = [sink EXCEPT ![c] = s]

\* Mutated Free: every call as if run with -f.
FreeAlways(c, slot) == TRUE

\* The name is free, or -f was given.
Free(c, slot) == c \in Forced \/ final[slot] = NoFile

----------------------------------------------------------------------------
\* The user creates a file where there is none.
Create(slot) ==
    /\ final[slot] = NoFile
    /\ final' = [final EXCEPT ![slot] = <<User>>]
    /\ late' = IF \E c \in Calls :
                     \/ At(c, "renaming") /\ sink[c].slot = slot
                     \/ At(c, "placing") /\ slot = TextSlot
               THEN late \cup {slot} ELSE late
    /\ UNCHANGED <<part, stage, sink>>

\* check_free(), of PATH for a text answer, of its first number for a blob.
\* Calls on one PATH are made one after the other.
Start(c) ==
    /\ At(c, "idle")
    /\ \A d \in Calls : ~Running(d)
    /\ \E slot \in {TextSlot, 1} :
          Goto(c, IF Free(c, slot) THEN "streaming" ELSE "refused")
    /\ UNCHANGED <<files, sink>>

MayReceive(c) == At(c, "streaming") /\ sink[c].events < MaxEvents

\* Mutated Held: a .part left by an earlier call is extended, not cut.
HeldAppending(slot, isOpen) == part[slot]

\* What the .part holds before the next write: open(..., "w") cuts it.
Held(slot, isOpen) == IF isOpen THEN part[slot] ELSE NoFile

WriteTo(c, slot, isOpen) ==
    part' = [part EXCEPT ![slot] = Append(Held(slot, isOpen), c)]

\* write(); EndBlob has ended a blob that was open.
WriteText(c) ==
    /\ MayReceive(c)
    /\ ~sink[c].blob
    /\ WriteTo(c, TextSlot, sink[c].text)
    /\ Becomes(c, [sink[c] EXCEPT !.text = TRUE, !.events = @ + 1,
                                  !.texts = @ + 1])
    /\ UNCHANGED <<final, late, stage>>

\* free_path(): the next number whose name is free.
NextFree(c, slot) ==
    /\ slot > sink[c].n
    /\ Free(c, slot)
    /\ \A s \in (sink[c].n + 1)..(slot - 1) : ~Free(c, s)

\* write_blob(): one event of call() is one whole image or video.
WriteBlob(c) ==
    /\ MayReceive(c)
    /\ \E slot \in BlobSlots :
          /\ IF sink[c].blob THEN slot = sink[c].slot ELSE NextFree(c, slot)
          /\ WriteTo(c, slot, sink[c].blob)
          /\ Becomes(c, [sink[c] EXCEPT !.blob = TRUE, !.slot = slot,
                                        !.n = slot, !.events = @ + 1])
    /\ UNCHANGED <<final, late, stage>>

\* Mutated Look: the name was free when free_path() looked.
LookNever(c, slot) == TRUE

\* commit() looks whether something took the name meanwhile.
Look(c, slot) == Free(c, slot)

\* end_blob(), when anything but a blob arrives and when the stream ends.
EndBlob(c) ==
    /\ At(c, "streaming")
    /\ sink[c].blob
    /\ Becomes(c, [sink[c] EXCEPT !.blob = FALSE,
                                  !.clear = Look(c, sink[c].slot)])
    /\ Goto(c, "renaming")
    /\ UNCHANGED files

\* commit() renames over whatever is there by now, or leaves the .part.
Rename(c, slot) ==
    IF sink[c].clear
    THEN /\ final' = [final EXCEPT ![slot] = part[slot]]
         /\ part' = [part EXCEPT ![slot] = NoFile]
         /\ late' = late \ {slot}
    ELSE UNCHANGED files

FinishBlob(c) ==
    /\ At(c, "renaming")
    /\ LET slot == sink[c].slot
           name == <<slot, IF sink[c].clear THEN "final" ELSE "part">>
       IN /\ Rename(c, slot)
          /\ Becomes(c, [sink[c] EXCEPT !.paths = Append(@, name)])
    /\ Goto(c, "streaming")

\* insert(): a row and its outputs.
Stored(c, outputs) == [sink[c] EXCEPT !.rows = Append(@, outputs)]

\* Mutated Unseen: each round's row names the files of all of them.
UnseenAll(c) == sink[c].paths

\* paths[seen:], the files of this round.
Unseen(c) == SubSeq(sink[c].paths, sink[c].seen + 1, Len(sink[c].paths))

\* Mutated SeenNow: one too many.
SeenNext(c) == Len(sink[c].paths) + 1

SeenNow(c) == Len(sink[c].paths)

\* A round that asked for tools: its row, seen = len(sink.paths), the next one.
NextRound(c) ==
    /\ At(c, "streaming") /\ ~sink[c].blob
    /\ sink[c].round < MaxRounds
    /\ Becomes(c, [Stored(c, Unseen(c)) EXCEPT !.seen = SeenNow(c),
                                               !.round = @ + 1])
    /\ UNCHANGED <<files, stage>>

\* The stream of the last round ends, whole or with an error frame.
EndStream(c) ==
    /\ At(c, "streaming") /\ ~sink[c].blob
    /\ \E failed \in BOOLEAN : Becomes(c, [sink[c] EXCEPT !.failed = failed])
    /\ Goto(c, "closing")
    /\ UNCHANGED files

\* close(): the text file is closed and committed, failed stream or not.
Close(c) ==
    /\ At(c, "closing")
    /\ Becomes(c, [sink[c] EXCEPT
                      !.text = FALSE,
                      !.clear = sink[c].text /\ Look(c, TextSlot)])
    /\ Goto(c, IF sink[c].text THEN "placing" ELSE "placed")
    /\ UNCHANGED files

PlaceText(c) ==
    /\ At(c, "placing")
    /\ Rename(c, TextSlot)
    /\ Goto(c, "placed")
    /\ UNCHANGED sink

\* The last row; the status is looked at only after it.
StoreAnswer(c) ==
    /\ At(c, "placed")
    /\ Becomes(c, Stored(c, Unseen(c)))
    /\ Goto(c, IF sink[c].failed THEN "failed" ELSE "done")
    /\ UNCHANGED files

\* Mutated Pending: abandon() has run first and nothing is open any more.
PendingAfterAbandon(c) == << >>

\* pending(): the .part that is open, the blob's before the text's.
Pending(c) ==
    IF sink[c].blob THEN <<<<sink[c].slot, "part">>>>
    ELSE IF sink[c].text THEN <<<<TextSlot, "part">>>>
    ELSE << >>

\* A ^C or a DicError inside the try: pending(), abandon(), a row.
Abandon(c) ==
    /\ stage[c] \in InTry
    /\ Becomes(c, [Stored(c, Pending(c)) EXCEPT !.text = FALSE, !.blob = FALSE])
    /\ \E s \in {"cancelled", "failed"} : Goto(c, s)
    /\ UNCHANGED files

\* Anything else ends the process, with no row and whatever was open.
Crash(c) ==
    /\ Running(c)
    /\ Becomes(c, [sink[c] EXCEPT !.text = FALSE, !.blob = FALSE])
    /\ Goto(c, "crashed")
    /\ UNCHANGED files

Run(c) ==
    \/ Start(c) \/ WriteText(c) \/ WriteBlob(c) \/ EndBlob(c) \/ FinishBlob(c)
    \/ NextRound(c) \/ EndStream(c) \/ Close(c) \/ PlaceText(c)
    \/ StoreAnswer(c) \/ Abandon(c) \/ Crash(c)

AllEnded == (\A c \in Calls : stage[c] \in Ended) /\ UNCHANGED vars

Next ==
    \/ \E c \in Calls : Run(c)
    \/ \E slot \in Slots : Create(slot)
    \/ AllEnded

Spec == Init /\ [][Next]_vars

----------------------------------------------------------------------------
\* Types.
TypeOK ==
    /\ final \in [Slots -> Contents]
    /\ part \in [Slots -> Contents]
    /\ late \subseteq Slots
    /\ stage \in [Calls -> Stages]
    /\ \A c \in Calls :
          /\ sink[c].slot \in BlobSlots
          /\ sink[c].paths \in Seq(Names)
          /\ sink[c].rows \in Seq(Seq(Names))
          /\ sink[c].seen \in 0..Len(sink[c].paths)

\* "dic overwrites nothing the user did not ask it to with -f" (output.py:16):
\* a file of the user's that is there when commit() looks stays there.
UserFileKept ==
    [][\A s \in Slots :
          final[s] = <<User>> /\ s \notin late =>
              \/ final'[s] = <<User>>
              \/ \E c \in Forced : stage[c] \in {"renaming", "placing"}]_vars

\* What is under the name itself is all of one call's text and nobody else's
\* (output.py:3), whatever an earlier call left in the .part, and a cancelled
\* call leaves the name alone; a numbered file has one writer too.
PlacedWhole ==
    \A s \in Slots, c \in Calls :
        Contains(final[s], c) =>
            /\ ToSet(final[s]) = {c}
            /\ s = TextSlot =>
                  /\ Len(final[s]) = sink[c].texts
                  /\ stage[c] \in {"placed", "done", "failed", "crashed"}

\* The rows of a call that ran to its end name each of its blob files once, in
\* order, over all its rounds.
OutputsOnce ==
    \A c \in Calls :
        At(c, "done") => FlattenSeq(sink[c].rows) = sink[c].paths

\* A blob file that a row names in place keeps that call's bytes until
\* somebody runs with -f.
OutputsKept ==
    \A c \in Calls, s \in Slots :
        /\ \E i \in DOMAIN sink[c].rows : Contains(sink[c].rows[i], <<s, "final">>)
        /\ \A d \in Forced \ {c} : At(d, "idle")
        => Contains(final[s], c)

\* The row of a call cut short while a file was open names that .part, which
\* holds what had arrived.
PendingNamed ==
    [][\A c \in Calls :
          /\ At(c, "streaming")
          /\ stage'[c] \in {"cancelled", "failed"}
          /\ sink[c].text \/ sink[c].blob
          => \E name \in ToSet(Last(sink'[c].rows)) :
                name[2] = "part" /\ Contains(part'[name[1]], c)]_vars

----------------------------------------------------------------------------
\* SPEC.md:178 "one blob is one file".
OneBlobOneFile ==
    \A s \in BlobSlots : final[s] # <<User>> => Len(final[s]) <= 1
=============================================================================
