---------------------------- MODULE MeetingFiles ----------------------------
(***************************************************************************)
(* What a meeting leaves behind: recordings and documents with their       *)
(* objects in storage (backend/app/domain/meetings/service.py), and the    *)
(* transcripts and notes made of them (domain/meet_ai/service.py).         *)
(***************************************************************************)
EXTENDS Requests

-----------------------------------------------------------------------------
(* Rows. A document's status stays "ready": nobody knows whether the       *)
(* upload took place. outside: recordings the SFU is making, objects in    *)
(* storage, and history: a request failed after it had called a provider;  *)
(* the host deleted the meeting itself.                                    *)
Occasion == "meeting"
FileKinds == {"recording", "document", "transcript", "note"}

ASSUME FilesAssumption == None \notin FileKinds /\ Occasion \notin Row

FileRow == [is : Is, kind : FileKinds \cup {None}, status : {"processing", "ready", "failed"}]
FilesInit ==
  Start("files",
    [k \in Row \cup {Occasion} |->
      IF k = Occasion THEN [is |-> "here"]
      ELSE [is |-> "none", kind |-> None, status |-> "ready"]],
    [egress |-> {}, objects |-> {}, failed |-> FALSE, deleted |-> FALSE])

egress == outside.egress
objects == outside.objects
OfKind(kind, r) == Here(r) /\ db[r].kind = kind
NewFile(r, kind, status) == Insert(r, [kind |-> kind, status |-> status])
NewHere(r) == Here(Occasion) /\ New(r)

(* The SFU starts to record before there is a row.                         *)
StartRecording(r) ==
  /\ NewHere(r)
  /\ Call(NewFile(r, "recording", "processing"))
  /\ outside' = [outside EXCEPT !.egress = @ \cup {r}]

(* The SFU says what has become of the recording; one that has ended       *)
(* cannot be stopped, and the call raises.                                 *)
StopRecording(r, result) ==
  /\ OfKind("recording", r) /\ r \in egress
  /\ Call(Change(r, "status", result))
  /\ outside' = IF result = "processing" THEN outside
                ELSE [outside EXCEPT !.egress = @ \ {r},
                                     !.objects = IF result = "ready" THEN @ \cup {r} ELSE @]

(* A recording ends by itself when the room is empty, or after it was told *)
(* to. Nobody tells the backend: its row goes on saying "processing".      *)
EgressEnds(r) ==
  /\ r \in egress
  /\ Outside([outside EXCEPT !.egress = @ \ {r}, !.objects = @ \cup {r}])

(* The object goes first, then the row.                                    *)
DeleteRecording(r) ==
  /\ OfKind("recording", r) /\ db[r].status # "processing"
  /\ Call(Delete(r))
  /\ outside' = [outside EXCEPT !.objects = @ \ {r}]

RequestDocumentUpload(r) == NewHere(r) /\ Request(NewFile(r, "document", "ready"))
(* The link for the upload stays valid whatever happens to the row.        *)
Upload(r) ==
  /\ db[r].kind = "document" /\ r \notin objects
  /\ Outside([outside EXCEPT !.objects = @ \cup {r}])
DeleteDocument(r) ==
  /\ OfKind("document", r)
  /\ Call(Delete(r))
  /\ outside' = [outside EXCEPT !.objects = @ \ {r}]

-----------------------------------------------------------------------------
(* The assistant. A recording transcribed twice is in the transcript twice;*)
(* notes are added to those there are.                                     *)
HasTranscript == \E r \in Row : OfKind("transcript", r)
TranscribeRecording(r, t) ==
  /\ OfKind("recording", r) /\ db[r].status = "ready" /\ r \in objects
  /\ NewHere(t) /\ Request(NewFile(t, "transcript", "ready"))
GenerateNotes(n) == HasTranscript /\ NewHere(n) /\ Request(NewFile(n, "note", "ready"))
Notes == {r \in Row : OfKind("note", r)}

(* The meeting goes, and with it the rows there are at that time; what is  *)
(* in storage stays, and so does what the SFU is making.                   *)
DeleteOccasion ==
  /\ Here(Occasion) /\ Call(Delete(Occasion))
  /\ outside' = [outside EXCEPT !.deleted = TRUE]
Deletes(w) == <<Occasion, "is", "gone">> \in w
CommitDeletion(t) ==
  /\ Deletes(open[t]) /\ Lawful(open[t])
  /\ db' = Written({<<k, "is", "gone">> : k \in {r \in DOMAIN db : Here(r)}})
  /\ open' = [open EXCEPT ![t] = {}]
  /\ UNCHANGED <<topic, asked, overlapped, outside>>

(* A row needs its meeting.                                                *)
Makes(w) == \E r \in Row : <<r, "is", "here">> \in w
CommitFiles(t) ==
  \/ CommitDeletion(t)
  \/ ~Deletes(open[t]) /\ (Makes(open[t]) => Here(Occasion)) /\ Commit(t)
FailFiles(t) == RollBack(t) /\ outside' = [outside EXCEPT !.failed = TRUE]

Recordings ==
  \E r \in Row :
    \/ StartRecording(r) \/ DeleteRecording(r)
    \/ \E result \in {"processing", "ready", "failed"} : StopRecording(r, result)
Documents == \E r \in Row : RequestDocumentUpload(r) \/ DeleteDocument(r)
Assistant == \E r \in Row : GenerateNotes(r) \/ \E t \in Row : TranscribeRecording(r, t)

FilesNext ==
  topic = "files" /\
    \/ Recordings \/ Documents \/ Assistant \/ DeleteOccasion
    \/ \E r \in Row : EgressEnds(r) \/ Upload(r)
    \/ \E t \in Slot : CommitFiles(t) \/ FailFiles(t)
-----------------------------------------------------------------------------
FilesTypeOK ==
  topic = "files" =>
    /\ TransactionsOK
    /\ \A r \in Row : db[r] \in FileRow
    /\ db[Occasion] \in [is : Is]
    /\ {egress, objects} \subseteq SUBSET Row

(* A recording that says it is ready can be played, and one that is        *)
(* deleted leaves no object behind and is not being made, whatever the SFU *)
(* is still doing ("Closes the previously-disclosed gap ... left the       *)
(* object orphaned in storage", backend/app/domain/meetings/service.py).   *)
(* Not so once a request failed after it had called a provider, or the     *)
(* meeting was deleted, which leaves the objects and the recording going.  *)
FilesMatchRows ==
  topic = "files" /\ Quiet /\ ~outside.failed /\ ~outside.deleted =>
    \A r \in {q \in Row : db[q].kind = "recording"} :
      /\ Here(r) /\ db[r].status = "ready" => r \in objects
      /\ ~Here(r) => r \notin objects \cup egress
=============================================================================
