------------------------------ MODULE Ingestion ------------------------------
(***************************************************************************)
(* One TEXT document of the knowledge base: its row, its chunks, the tasks *)
(* that ingest it and the requests that edit, retry and delete it.         *)
(*                                                                         *)
(* A content is named by its version and stands for its hash.  Titles, the *)
(* error message and the source's summary status are left out.  Sessions   *)
(* read what is committed; the ORM writes the columns a session changed    *)
(* and no others; a row written and not yet committed keeps others waiting.*)
(***************************************************************************)
EXTENDS Naturals

CONSTANTS
    Versions,   \* contents
    Workers,    \* processes that run ingest_document
    Editors,    \* requests at a time
    First,      \* the content the document was added with
    NoHash,     \* content_hash is NULL
    MaxQueue,   \* bound: tasks waiting
    MaxEdits    \* bound: requests in a behaviour

ASSUME VersionsAssumption == First \in Versions /\ NoHash \notin Versions
ASSUME SessionsAssumption == Workers \cap Editors = {}

VARIABLES
    doc,        \* the committed row
    chunks,     \* number of committed copies of each version's chunks
    queue,      \* ingest_document tasks in the broker
    work,       \* what each worker and request is at
    edits,      \* requests so far
    overlap,    \* two tasks have been under way at once
    lost        \* a task was lost: not accepted by the broker, or its worker died

vars == <<doc, chunks, queue, work, edits, overlap, lost>>

Status == {"PENDING", "PROCESSING", "FAILED", "COMPLETED", "DELETED"}
Row == [content : Versions, hash : Versions \cup {NoHash}, status : Status]
Copies == [Versions -> Nat]
Sessions == Workers \cup Editors

Idle == "idle"
Work == [pc : {Idle, "loaded", "same", "differs", "embed", "edit", "retry", "enqueue"},
         seen : Row,        \* the row as loaded, with the session's own writes
         content : Versions,\* the content to write
         removed : Copies]  \* the chunks it has deleted and not committed

NoChunks == [v \in Versions |-> 0]
Added == [content |-> First, hash |-> NoHash, status |-> "PENDING"]
AtIdle == [pc |-> Idle, seen |-> Added, content |-> First, removed |-> NoChunks]

TypeOK ==
    /\ doc \in Row
    /\ chunks \in Copies
    /\ queue \in Nat
    /\ work \in [Sessions -> Work]
    /\ edits \in Nat
    /\ overlap \in BOOLEAN /\ lost \in BOOLEAN

(* create_pending_document, committed and its task in the broker. *)
Init ==
    /\ doc = Added
    /\ chunks = NoChunks
    /\ queue = 1
    /\ work = [s \in Sessions |-> AtIdle]
    /\ edits = 0 /\ overlap = FALSE /\ lost = FALSE

-----------------------------------------------------------------------------
(* The database *)

Locked == \E w \in Workers : work[w].pc = "embed"

(* The UPDATE of the columns in which new differs from what was loaded.      *)
Column(committed, loaded, new) == IF new = loaded THEN committed ELSE new
Flush(seen, new) == [content |-> Column(doc.content, seen.content, new.content),
                     hash    |-> Column(doc.hash, seen.hash, new.hash),
                     status  |-> Column(doc.status, seen.status, new.status)]

(* The chunks without those deleted, and with a copy more of version v.      *)
(* A definition named X_Fault is X with one plausible bug, which no action   *)
(* uses.                                                                     *)
Without(removed) ==
    [u \in Versions |-> IF chunks[u] > removed[u] THEN chunks[u] - removed[u] ELSE 0]
Replaced(removed, v) == [Without(removed) EXCEPT ![v] = @ + 1]

HasChunks == \E v \in Versions : chunks[v] > 0

Ends(s) == work' = [work EXCEPT ![s] = AtIdle]

-----------------------------------------------------------------------------
(* A worker: _run_ingest.  The broker forgets a task when a worker takes it. *)

Take(w) ==
    /\ work[w].pc = Idle /\ queue > 0
    /\ queue' = queue - 1
    /\ IF doc.status = "DELETED"
       THEN UNCHANGED <<work, overlap>>
       ELSE /\ work' = [work EXCEPT ![w].pc = "loaded", ![w].seen = doc]
            /\ overlap' = (overlap \/ \E x \in Workers : work[x].pc # Idle)
    /\ UNCHANGED <<doc, chunks, edits, lost>>

(* Is the content the one the chunks were made of? *)
Unchanged_ByChunks(w) == HasChunks
Unchanged(w) == work[w].seen.hash = work[w].seen.content /\ HasChunks

Compare(w) ==
    /\ work[w].pc = "loaded"
    /\ work' = [work EXCEPT ![w].pc = IF Unchanged(w) THEN "same" ELSE "differs"]
    /\ UNCHANGED <<doc, chunks, queue, edits, overlap, lost>>

(* The early return; the UPDATE of a deleted row is an error. *)
Confirm(w) ==
    /\ work[w].pc = "same" /\ ~Locked
    /\ doc' = IF doc.status = "DELETED" THEN doc
              ELSE Flush(work[w].seen, [work[w].seen EXCEPT !.status = "COMPLETED"])
    /\ Ends(w)
    /\ UNCHANGED <<chunks, queue, edits, overlap, lost>>

(* PROCESSING is written and not committed: from here on the row is locked.  *)
(* Then the chunks are deleted.                                              *)
Begin_Unlocked(w) ==
    /\ work[w].pc = "differs" /\ doc.status # "DELETED"
    /\ work' = [work EXCEPT ![w].pc = "embed", ![w].removed = chunks]
    /\ UNCHANGED <<doc, chunks, queue, edits, overlap, lost>>
Begin(w) ==
    /\ work[w].pc = "differs" /\ ~Locked
    /\ work' = IF doc.status = "DELETED" THEN [work EXCEPT ![w] = AtIdle]
               ELSE [work EXCEPT ![w].pc = "embed", ![w].removed = chunks,
                                 ![w].seen.status = "PROCESSING"]
    /\ UNCHANGED <<doc, chunks, queue, edits, overlap, lost>>

Complete(w) ==
    /\ work[w].pc = "embed"
    /\ LET seen == work[w].seen
       IN  /\ doc' = Flush(seen, [seen EXCEPT !.hash = seen.content, !.status = "COMPLETED"])
           /\ chunks' = Replaced(work[w].removed, seen.content)
    /\ Ends(w)
    /\ UNCHANGED <<queue, edits, overlap, lost>>

(* The embedding fails, or there is nothing to embed: FAILED and the         *)
(* deletion are committed.                                                   *)
EmbedFails(w) ==
    /\ work[w].pc = "embed"
    /\ doc' = Flush(work[w].seen, [work[w].seen EXCEPT !.status = "FAILED"])
    /\ chunks' = Without(work[w].removed)
    /\ Ends(w)
    /\ UNCHANGED <<queue, edits, overlap, lost>>

(* The worker dies, or a statement fails: nothing is committed. *)
Abort(w) ==
    /\ work[w].pc # Idle
    /\ lost' = TRUE
    /\ Ends(w)
    /\ UNCHANGED <<doc, chunks, queue, edits, overlap>>

-----------------------------------------------------------------------------
(* Requests *)

Open(e, pc, v) ==
    /\ work[e].pc = Idle /\ edits < MaxEdits /\ doc.status # "DELETED"
    /\ edits' = edits + 1
    /\ work' = [work EXCEPT ![e].pc = pc, ![e].seen = doc, ![e].content = v]
    /\ UNCHANGED <<doc, chunks, queue, overlap, lost>>

OpenEdit(e) == \E v \in Versions : Open(e, "edit", v)

OpenRetry(e) == Open(e, "retry", doc.content) /\ doc.status # "COMPLETED"

(* Flush and commit; a request that changed nothing does not wait. *)
Save(e, new) ==
    /\ new = work[e].seen \/ ~Locked
    /\ IF doc.status = "DELETED"
       THEN doc' = doc /\ Ends(e)
       ELSE /\ doc' = Flush(work[e].seen, new)
            /\ work' = [work EXCEPT ![e].pc = "enqueue"]
    /\ UNCHANGED <<chunks, queue, edits, overlap, lost>>

(* update_text_document *)
Edit(e) ==
    /\ work[e].pc = "edit"
    /\ Save(e, [content |-> work[e].content, hash |-> NoHash, status |-> "PENDING"])

(* prepare_retry *)
Retry(e) ==
    /\ work[e].pc = "retry"
    /\ Save(e, [work[e].seen EXCEPT !.status = "PENDING"])

(* ingest_document.delay, which may raise. *)
Enqueue(e) ==
    /\ work[e].pc = "enqueue"
    /\ \/ queue < MaxQueue /\ queue' = queue + 1 /\ lost' = lost
       \/ queue' = queue /\ lost' = TRUE
    /\ Ends(e)
    /\ UNCHANGED <<doc, chunks, edits, overlap>>

(* delete_document, and the chunks with it. *)
Delete(e) ==
    /\ work[e].pc = Idle /\ doc.status # "DELETED" /\ edits < MaxEdits /\ ~Locked
    /\ edits' = edits + 1
    /\ doc' = [doc EXCEPT !.status = "DELETED"]
    /\ chunks' = NoChunks
    /\ UNCHANGED <<queue, work, overlap, lost>>

-----------------------------------------------------------------------------
Ingest(w) ==
    \/ Take(w) \/ Compare(w) \/ Confirm(w) \/ Begin(w)
    \/ Complete(w) \/ EmbedFails(w) \/ Abort(w)

Request(e) ==
    \/ OpenEdit(e) \/ OpenRetry(e) \/ Edit(e) \/ Retry(e) \/ Enqueue(e) \/ Delete(e)

Next == (\E w \in Workers : Ingest(w)) \/ (\E e \in Editors : Request(e))

Spec == Init /\ [][Next]_vars

-----------------------------------------------------------------------------
(* Properties *)

(* However many tasks run on a document at once, search finds its chunks     *)
(* once, and those of one version.                                           *)
OneCopy == \A u, v \in Versions :
    /\ chunks[u] <= 1
    /\ chunks[u] > 0 /\ chunks[v] > 0 => u = v

AtRest == queue = 0 /\ \A s \in Sessions : work[s].pc = Idle

(* When nothing is left to do, a COMPLETED document is found by its current  *)
(* content: ORM sessions that write over each other's columns, edits during  *)
(* an ingest and retries do not matter while tasks run one after the other.  *)
Current == AtRest /\ doc.status = "COMPLETED" => chunks[doc.content] > 0
CurrentInTurn == ~overlap /\ ~lost => Current

(* A COMPLETED document is found, while tasks run one after the other.       *)
CompletedIsFound == ~overlap /\ doc.status = "COMPLETED" => HasChunks
=============================================================================
