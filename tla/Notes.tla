------------------------------- MODULE Notes -------------------------------
(***************************************************************************)
(* The work notes of one role and project (knowledge/memory.py).  Writers  *)
(* hold write.lock; readers hold nothing and go from the index to the      *)
(* record to the text.  A revision is a directory written once; the index  *)
(* makes it the current one.  A writer may die between any two steps.      *)
(*                                                                         *)
(* A digest is the text it is of, so a record carries the text it expects. *)
(***************************************************************************)
EXTENDS Naturals

CONSTANTS Keys,         \* idempotency keys; the identity of a note is a digest of its key
          Texts,
          MaxRevision, MaxGeneration, MaxDeaths

Revisions == 1..MaxRevision
NoText == "no text"   \* no file

ASSUME NotesAssumption == /\ MaxRevision \in Nat \ {0} /\ MaxGeneration \in Nat /\ MaxDeaths \in Nat
                          /\ NoText \notin Texts

Absent == [text |-> NoText, record |-> NoText, creation |-> NoText]
NoReflection == [generation |-> 0, notes |-> [k \in Keys |-> NoText]]
NoWriter == [step |-> "idle", key |-> CHOOSE k \in Keys : TRUE, revision |-> 1, text |-> NoText,
             creation |-> NoText]
NoReader == [step |-> "idle", key |-> CHOOSE k \in Keys : TRUE, revision |-> 1, text |-> NoText]

VARIABLES heads, generation,   \* index.json; revision 0 is no head
          notes,               \* the revision directories
          reflection,          \* reflection.json
          writer,              \* the holder of write.lock
          reader,
          told,                \* observation: the revision and text a writer last got an answer for
          recorded,            \* observation: what records were written for
          deaths

index == <<heads, generation>>
observed == <<told, recorded>>
notesVars == <<index, notes, reflection, writer, reader, observed, deaths>>

Current(k) == notes[k][heads[k]]
NothingTold == [revision |-> 0, text |-> NoText]

-----------------------------------------------------------------------------
(* Writers *)

\* _prepare_payload and the native rendering, which come before any write.
Publishes(k, revision, text, creation) ==
    /\ revision \in Revisions /\ generation < MaxGeneration
    /\ writer' = [step |-> "clear", key |-> k, revision |-> revision, text |-> text,
                  creation |-> creation]
    /\ UNCHANGED <<index, notes, reflection, reader, observed, deaths>>

\* A key that is bound is answered with its note, if it was created from this text; it
\* conflicts otherwise.
Save(k, text) ==
    /\ writer.step = "idle"
    /\ \/ heads[k] = 0 /\ Publishes(k, 1, text, text)
       \/ /\ heads[k] # 0 /\ Current(k).creation = text
          /\ told' = [told EXCEPT ![k] = [revision |-> heads[k], text |-> Current(k).record]]
          /\ UNCHANGED <<index, notes, reflection, writer, reader, recorded, deaths>>

Correct(k, text) ==
    /\ writer.step = "idle"
    /\ heads[k] # 0   \* and the expected revision is this one
    /\ Publishes(k, heads[k] + 1, text, Current(k).creation)

\* _publish.  A directory beyond the head is of an interrupted publication.
Step(from, to) == writer.step = from /\ writer' = [writer EXCEPT !.step = to]
Directory(entry) == notes' = [notes EXCEPT ![writer.key][writer.revision] = entry]

Clear == /\ Step("clear", "text")
         /\ heads[writer.key] < writer.revision
         /\ Directory(Absent)
         /\ UNCHANGED <<index, reflection, reader, observed, deaths>>

WriteText == /\ Step("text", "record")
             /\ Directory([Absent EXCEPT !.text = writer.text])
             /\ UNCHANGED <<index, reflection, reader, observed, deaths>>

WriteRecord_IndexFirst ==   \* the index before the record
    /\ Step("record", "index")
    /\ heads' = [heads EXCEPT ![writer.key] = writer.revision]
    /\ UNCHANGED <<generation, notes, reflection, reader, observed, deaths>>

WriteRecord == /\ Step("record", "index")
               /\ Directory([text |-> writer.text, record |-> writer.text,
                             creation |-> writer.creation])
               /\ recorded' = recorded \cup {<<writer.key, writer.revision, writer.text>>}
               /\ UNCHANGED <<index, reflection, reader, told, deaths>>

WriteIndex == /\ Step("index", "unlink")
              /\ heads' = [heads EXCEPT ![writer.key] = writer.revision]
              /\ generation' = generation + 1
              /\ UNCHANGED <<notes, reflection, reader, observed, deaths>>

Replied == /\ writer.step = "unlink"
          /\ writer' = NoWriter
          /\ reflection' = NoReflection
          /\ told' = [told EXCEPT ![writer.key] = [revision |-> writer.revision,
                                                   text |-> writer.text]]
          /\ UNCHANGED <<index, notes, reader, recorded, deaths>>

\* The note leaves the index first, then the reflection goes, then its directories.
Delete(k) ==
    /\ writer.step = "idle" /\ heads[k] # 0 /\ generation < MaxGeneration
    /\ writer' = [NoWriter EXCEPT !.step = "forget", !.key = k]
    /\ heads' = [heads EXCEPT ![k] = 0]
    /\ generation' = generation + 1
    /\ told' = [told EXCEPT ![k] = NothingTold]
    /\ UNCHANGED <<notes, reflection, reader, recorded, deaths>>

Forget == /\ Step("forget", "remove")
          /\ reflection' = NoReflection
          /\ UNCHANGED <<index, notes, reader, observed, deaths>>

\* shutil.rmtree, file by file
Remove ==
    /\ writer.step = "remove"
    /\ \/ \E r \in Revisions :
             /\ notes[writer.key][r] # Absent
             /\ \E left \in {[notes[writer.key][r] EXCEPT !.text = NoText],
                             [notes[writer.key][r] EXCEPT !.record = NoText, !.creation = NoText]} :
                   /\ left # notes[writer.key][r]
                   /\ notes' = [notes EXCEPT ![writer.key][r] = left]
             /\ UNCHANGED writer
       \/ /\ \A r \in Revisions : notes[writer.key][r] = Absent
          /\ writer' = NoWriter
          /\ UNCHANGED notes
    /\ UNCHANGED <<index, reflection, reader, observed, deaths>>

Texts_ == [k \in Keys |-> IF heads[k] = 0 THEN NoText ELSE Current(k).text]

\* _reflect: what an earlier one of this generation found is used again.
Reuses == reflection.generation = generation
Reflect ==
    /\ writer.step = "idle" /\ generation > 0
    /\ ~Reuses
    /\ reflection' = [generation |-> generation, notes |-> Texts_]
    /\ UNCHANGED <<index, notes, writer, reader, observed, deaths>>

Dies ==
    /\ writer.step # "idle" /\ deaths < MaxDeaths
    /\ deaths' = deaths + 1
    /\ writer' = NoWriter
    /\ UNCHANGED <<index, notes, reflection, reader, observed>>

-----------------------------------------------------------------------------
(* Readers *)

ReadIndex(k) ==
    /\ reader.step = "idle" /\ heads[k] # 0
    /\ reader' = [step |-> "record", key |-> k, revision |-> heads[k], text |-> NoText]
    /\ UNCHANGED <<index, notes, reflection, writer, observed, deaths>>

\* _record: the directory may be gone by now.
ReadRecord ==
    /\ reader.step = "record"
    /\ LET record == notes[reader.key][reader.revision].record
       IN  reader' = IF record = NoText THEN NoReader
                     ELSE [reader EXCEPT !.step = "text", !.text = record]
    /\ UNCHANGED <<index, notes, reflection, writer, observed, deaths>>

\* _verify_note_content: the text served has to be the one the record was written for.
Verified(text) == text # NoText /\ text = reader.text
ReadText ==
    /\ reader.step = "text"
    /\ LET text == notes[reader.key][reader.revision].text
       IN  reader' = IF Verified(text) THEN [reader EXCEPT !.step = "served", !.text = text]
                     ELSE NoReader
    /\ UNCHANGED <<index, notes, reflection, writer, observed, deaths>>

Served ==
    /\ reader.step = "served"
    /\ reader' = NoReader
    /\ UNCHANGED <<index, notes, reflection, writer, observed, deaths>>

-----------------------------------------------------------------------------
NotesInit ==
    /\ heads = [k \in Keys |-> 0] /\ generation = 0
    /\ notes = [k \in Keys |-> [r \in Revisions |-> Absent]]
    /\ reflection = NoReflection
    /\ writer = NoWriter /\ reader = NoReader
    /\ told = [k \in Keys |-> NothingTold] /\ recorded = {} /\ deaths = 0

NotesNext ==
    \/ \E k \in Keys : \/ Delete(k) \/ ReadIndex(k)
                       \/ \E text \in Texts : Save(k, text) \/ Correct(k, text)
    \/ Clear \/ WriteText \/ WriteRecord \/ WriteIndex \/ Replied
    \/ Forget \/ Remove \/ Reflect \/ Dies
    \/ ReadRecord \/ ReadText \/ Served

NotesSpec == NotesInit /\ [][NotesNext]_notesVars

-----------------------------------------------------------------------------
(* Properties *)

\* The index names whole revisions only, and what a writer was told it wrote stays until the
\* note is deleted or corrected, whichever publications and deletions died half way.
NoteIsKept ==
    \A k \in Keys :
        /\ heads[k] # 0 => /\ Current(k).record # NoText
                           /\ Current(k).text = Current(k).record
        /\ told[k].revision <= heads[k]
        /\ told[k].revision # 0 /\ told[k].revision = heads[k] => Current(k).text = told[k].text

\* A reflection that would be used again is of the notes as they are: also after a writer that
\* died between the index and the reflection.
ReflectionIsCurrent == generation > 0 /\ Reuses => reflection.notes = Texts_

\* A reader is never served the text of a publication that was not completed, nor one text under
\* the record of another, though the note is deleted and its first revision written anew
\* meanwhile.  (It may be served a revision just before the index names it.)
ServedIsWhole ==
    reader.step = "served" => <<reader.key, reader.revision, reader.text>> \in recorded

(* A note survives whatever dies: the index and what a writer was told agree with the files, a
   reflection that is used again is of the notes as they are, and a reader, who holds no lock,
   is served whole notes only (WorkMemoryStore.execute, _publish, _reflect). *)
NotesAreWhole == NoteIsKept /\ ReflectionIsCurrent /\ ServedIsWhole
=============================================================================
