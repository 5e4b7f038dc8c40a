-------------------------- MODULE IngestionProofs --------------------------
(***************************************************************************)
(* Theorems about ingestion, for any contents, workers and requests: the   *)
(* row lock keeps one copy of the chunks however tasks overlap, and while  *)
(* tasks run one after the other search follows the document's content.    *)
(***************************************************************************)
EXTENDS Ingestion, TLAPS

(* At most one worker has the row locked, and it has deleted the chunks that *)
(* are there.                                                                *)
LockHolder ==
    \A w \in Workers : work[w].pc = "embed" =>
        /\ work[w].removed = chunks
        /\ work[w].seen.status = "PROCESSING"
        /\ doc.status # "DELETED"
        /\ \A x \in Workers : work[x].pc = "embed" => x = w

LockInv == TypeOK /\ OneCopy /\ LockHolder

LEMMA FlushType ==
    ASSUME doc \in Row, NEW seen \in Row, NEW new \in Row
    PROVE  Flush(seen, new) \in Row
BY DEF Flush, Column, Row

LEMMA WithoutType ==
    ASSUME chunks \in Copies, NEW removed \in Copies
    PROVE  Without(removed) \in Copies
BY DEF Without, Copies

LEMMA ReplacedType ==
    ASSUME chunks \in Copies, NEW removed \in Copies, NEW v \in Versions
    PROVE  Replaced(removed, v) \in Copies
BY WithoutType DEF Replaced, Copies

(* What the lock holder leaves when it has deleted all the chunks there are. *)
LEMMA NothingElse ==
    ASSUME chunks \in Copies, NEW v \in Versions
    PROVE  /\ Without(chunks) = NoChunks
           /\ Replaced(chunks, v) = [NoChunks EXCEPT ![v] = 1]
<1>1. Without(chunks) = NoChunks
  BY DEF Without, NoChunks, Copies
<1>2. QED
  BY <1>1 DEF Replaced, NoChunks

LEMMA IdleType == AtIdle \in Work /\ Added \in Row /\ NoChunks \in Copies
<1>1. Added \in Row
  BY VersionsAssumption DEF Added, Row, Status
<1>2. NoChunks \in Copies
  BY DEF NoChunks, Copies
<1>3. QED
  BY <1>1, <1>2, VersionsAssumption DEF AtIdle, Work, Idle

(* Every step of a worker or a request keeps the types. *)
LEMMA IngestType ==
    ASSUME TypeOK, NEW w \in Workers, Ingest(w)
    PROVE  TypeOK'
<1>1. /\ w \in Sessions /\ work[w] \in Work
      /\ work[w].seen \in Row /\ work[w].removed \in Copies
      /\ work[w].seen.content \in Versions
  BY DEF TypeOK, Sessions, Work, Row
<1>2. CASE Take(w)
  <2>1. queue' \in Nat /\ work' \in [Sessions -> Work]
    BY <1>1, <1>2 DEF Take, TypeOK, Work, Idle
  <2>2. overlap' \in BOOLEAN
    BY <1>2, Zenon DEF Take, TypeOK
  <2>3. QED
    BY <1>2, <2>1, <2>2 DEF Take, TypeOK
<1>3. CASE Compare(w)
  BY <1>1, <1>3 DEF Compare, TypeOK, Work
<1>4. CASE Confirm(w)
  <2>1. [work[w].seen EXCEPT !.status = "COMPLETED"] \in Row
    BY <1>1 DEF Row, Status
  <2>2. doc' \in Row
    BY <1>1, <1>4, <2>1, FlushType DEF Confirm, TypeOK
  <2>3. QED
    BY <1>1, <1>4, <2>2, IdleType DEF Confirm, TypeOK, Ends
<1>5. CASE Begin(w)
  <2>1. work' \in [Sessions -> Work]
    BY <1>1, <1>5, IdleType DEF Begin, TypeOK, Work, Row, Status
  <2>2. QED
    BY <1>5, <2>1 DEF Begin, TypeOK
<1>6. CASE Complete(w)
  <2>1. [work[w].seen EXCEPT !.hash = work[w].seen.content, !.status = "COMPLETED"] \in Row
    BY <1>1 DEF Row, Status
  <2>2. doc' \in Row /\ chunks' \in Copies
    BY <1>1, <1>6, <2>1, FlushType, ReplacedType DEF Complete, TypeOK
  <2>3. QED
    BY <1>1, <1>6, <2>2, IdleType DEF Complete, TypeOK, Ends
<1>7. CASE EmbedFails(w)
  <2>1. [work[w].seen EXCEPT !.status = "FAILED"] \in Row
    BY <1>1 DEF Row, Status
  <2>2. doc' \in Row /\ chunks' \in Copies
    BY <1>1, <1>7, <2>1, FlushType, WithoutType DEF EmbedFails, TypeOK
  <2>3. QED
    BY <1>1, <1>7, <2>2, IdleType DEF EmbedFails, TypeOK, Ends
<1>8. CASE Abort(w)
  BY <1>1, <1>8, IdleType DEF Abort, TypeOK, Ends
<1>9. QED
  BY <1>2, <1>3, <1>4, <1>5, <1>6, <1>7, <1>8 DEF Ingest

LEMMA SaveType ==
    ASSUME TypeOK, NEW e \in Editors, NEW new \in Row, Save(e, new)
    PROVE  TypeOK'
<1>1. e \in Sessions /\ work[e] \in Work /\ work[e].seen \in Row
  BY DEF TypeOK, Sessions, Work
<1>2. doc' \in Row
  BY <1>1, FlushType DEF Save, TypeOK
<1>3. work' \in [Sessions -> Work]
  BY <1>1, IdleType DEF Save, Ends, TypeOK, Work
<1>4. QED
  BY <1>2, <1>3 DEF Save, TypeOK

LEMMA RequestType ==
    ASSUME TypeOK, NEW e \in Editors, Request(e)
    PROVE  TypeOK'
<1>1. e \in Sessions /\ work[e] \in Work /\ work[e].seen \in Row /\ work[e].content \in Versions
  BY DEF TypeOK, Sessions, Work
<1>2. ASSUME NEW pc \in {"edit", "retry"}, NEW v \in Versions, Open(e, pc, v)
      PROVE  TypeOK'
  <2>1. [work[e] EXCEPT !.pc = pc, !.seen = doc, !.content = v] \in Work
    BY <1>1 DEF TypeOK, Work
  <2>2. work' = [work EXCEPT ![e] = [work[e] EXCEPT !.pc = pc, !.seen = doc, !.content = v]]
    BY <1>1, <1>2 DEF Open, TypeOK
  <2>3. work' \in [Sessions -> Work] /\ edits' \in Nat
    BY <1>1, <1>2, <2>1, <2>2 DEF Open, TypeOK
  <2>4. QED
    BY <1>2, <2>3 DEF Open, TypeOK
<1>3. CASE OpenEdit(e) \/ OpenRetry(e)
  BY <1>2, <1>3 DEF OpenEdit, OpenRetry, TypeOK, Row
<1>4. CASE Edit(e)
  <2>1. [content |-> work[e].content, hash |-> NoHash, status |-> "PENDING"] \in Row
    BY <1>1 DEF Row, Status
  <2>2. QED
    BY <1>4, <2>1, SaveType DEF Edit
<1>5. CASE Retry(e)
  <2>1. [work[e].seen EXCEPT !.status = "PENDING"] \in Row
    BY <1>1 DEF Row, Status
  <2>2. QED
    BY <1>5, <2>1, SaveType DEF Retry
<1>6. CASE Enqueue(e)
  <2>1. queue' \in Nat /\ work' \in [Sessions -> Work]
    BY <1>1, <1>6, IdleType DEF Enqueue, TypeOK, Ends
  <2>2. lost' \in BOOLEAN
    BY <1>6, Zenon DEF Enqueue, TypeOK
  <2>3. QED
    BY <1>6, <2>1, <2>2 DEF Enqueue, TypeOK
<1>7. CASE Delete(e)
  <2>1. doc' \in Row
    BY <1>7 DEF Delete, TypeOK, Row, Status
  <2>2. QED
    BY <1>7, <2>1, IdleType DEF Delete, TypeOK
<1>8. QED
  BY <1>3, <1>4, <1>5, <1>6, <1>7 DEF Request

LEMMA TypeInit == Init => TypeOK
<1>1. Init => queue \in Nat /\ edits \in Nat /\ work \in [Sessions -> Work]
  BY IdleType DEF Init
<1>2. Init => overlap \in BOOLEAN /\ lost \in BOOLEAN
  BY Zenon DEF Init
<1>3. QED
  BY <1>1, <1>2, IdleType DEF Init, TypeOK

LEMMA TypeStep == TypeOK /\ [Next]_vars => TypeOK'
<1>1. TypeOK /\ Next => TypeOK'
  BY IngestType, RequestType DEF Next
<1>2. TypeOK /\ UNCHANGED vars => TypeOK'
  BY DEF TypeOK, vars
<1>3. QED
  BY <1>1, <1>2

(* The state stays well-typed. *)
THEOREM TypeCorrect == Spec => []TypeOK
BY TypeInit, TypeStep, PTL DEF Spec

-----------------------------------------------------------------------------
(* The row lock *)

(* The shape of every step on the sessions. *)
LEMMA IngestShape ==
    ASSUME TypeOK, NEW w \in Workers, Ingest(w)
    PROVE  \A x \in Sessions \ {w} : work'[x] = work[x]
BY DEF Ingest, Take, Compare, Confirm, Begin, Complete, EmbedFails, Abort, Ends, TypeOK

LEMMA RequestShape ==
    ASSUME TypeOK, NEW e \in Editors, Request(e)
    PROVE  \A x \in Workers : work'[x] = work[x]
<1>1. e \notin Workers
  BY SessionsAssumption
<1>2. \A x \in Sessions \ {e} : work'[x] = work[x]
  BY DEF Request, OpenEdit, OpenRetry, Open, Edit, Retry, Save, Enqueue, Delete, Ends, TypeOK
<1>3. QED
  BY <1>1, <1>2 DEF Sessions

(* A step that neither locks nor touches the chunks, and leaves the row      *)
(* undeleted.                                                                *)
LEMMA LockKept ==
    ASSUME LockInv, TypeOK', chunks' = chunks,
           doc.status # "DELETED" => doc'.status # "DELETED",
           \A x \in Workers : work'[x].pc = "embed" => work'[x] = work[x]
    PROVE  LockInv'
<1>1. OneCopy'
  BY DEF LockInv, OneCopy
<1>2. LockHolder'
  BY DEF LockInv, LockHolder
<1>3. QED
  BY <1>1, <1>2 DEF LockInv

(* Flush deletes nothing that is not deleted. *)
LEMMA FlushStatus ==
    ASSUME NEW seen, NEW new, new.status # "DELETED", doc.status # "DELETED"
    PROVE  Flush(seen, new).status # "DELETED"
BY DEF Flush, Column

LEMMA LockIngest ==
    ASSUME LockInv, NEW w \in Workers, Ingest(w)
    PROVE  LockInv'
<1>1. TypeOK /\ TypeOK' /\ w \in Sessions /\ work[w] \in Work
  BY IngestType DEF LockInv, TypeOK, Sessions
<1>2. \A x \in Workers \ {w} : work'[x] = work[x]
  BY <1>1, IngestShape DEF Sessions
<1>3. CASE Take(w)
  <2>1. work'[w] = work[w] \/ work'[w].pc = "loaded"
    BY <1>1, <1>3 DEF Take, TypeOK, Work
  <2>2. doc' = doc /\ chunks' = chunks
    BY <1>3 DEF Take
  <2>3. QED
    BY <1>1, <1>2, <2>1, <2>2, LockKept
<1>4. CASE Compare(w)
  BY <1>1, <1>2, <1>4, LockKept DEF Compare, TypeOK
<1>5. CASE Confirm(w)
  <2>1. doc.status # "DELETED" => doc'.status # "DELETED"
    BY <1>1, <1>5, FlushStatus DEF Confirm, Work, Row
  <2>2. work'[w].pc # "embed" /\ chunks' = chunks
    BY <1>1, <1>5 DEF Confirm, Ends, TypeOK, AtIdle, Idle
  <2>3. QED
    BY <1>1, <1>2, <2>1, <2>2, LockKept
<1>6. CASE Begin(w)
  <2>1. CASE doc.status = "DELETED"
    <3>1. work'[w].pc # "embed" /\ chunks' = chunks /\ doc' = doc
      BY <1>1, <1>6, <2>1 DEF Begin, TypeOK, AtIdle, Idle
    <3>2. QED
      BY <1>1, <1>2, <3>1, LockKept
  <2>2. CASE doc.status # "DELETED"
    <3>1. /\ work'[w].removed = chunks /\ work'[w].seen.status = "PROCESSING"
          /\ chunks' = chunks /\ doc' = doc
          /\ \A x \in Workers : work[x].pc # "embed"
      BY <1>1, <1>6, <2>2 DEF Begin, TypeOK, Locked, Work, Row
    <3>2. LockHolder'
      BY <1>2, <2>2, <3>1 DEF LockHolder
    <3>3. QED
      BY <1>1, <3>1, <3>2 DEF LockInv, OneCopy
  <2>3. QED
    BY <2>1, <2>2
<1>7. ASSUME Complete(w) \/ EmbedFails(w) PROVE LockInv'
  <2>1. work[w].pc = "embed" /\ work[w].removed = chunks
        /\ \A x \in Workers : work[x].pc = "embed" => x = w
    BY <1>7 DEF Complete, EmbedFails, LockInv, LockHolder
  <2>2. work'[w].pc # "embed"
    BY <1>1, <1>7 DEF Complete, EmbedFails, Ends, TypeOK, AtIdle, Idle
  <2>3. LockHolder'
    BY <1>2, <2>1, <2>2 DEF LockHolder
  <2>4. \/ chunks' = NoChunks
        \/ \E v \in Versions : chunks' = [NoChunks EXCEPT ![v] = 1]
    <3>1. work[w].seen.content \in Versions /\ chunks \in Copies
      BY <1>1 DEF TypeOK, Work, Row
    <3>2. CASE Complete(w)
      BY <2>1, <3>1, <3>2, NothingElse DEF Complete
    <3>3. CASE EmbedFails(w)
      BY <2>1, <3>1, <3>3, NothingElse DEF EmbedFails
    <3>4. QED
      BY <1>7, <3>2, <3>3
  <2>5. OneCopy'
    BY <2>4 DEF OneCopy, NoChunks
  <2>6. QED
    BY <1>1, <2>3, <2>5 DEF LockInv
<1>8. CASE Abort(w)
  BY <1>1, <1>2, <1>8, LockKept DEF Abort, Ends, TypeOK, AtIdle, Idle
<1>9. QED
  BY <1>3, <1>4, <1>5, <1>6, <1>7, <1>8 DEF Ingest

LEMMA LockRequest ==
    ASSUME LockInv, NEW e \in Editors, Request(e)
    PROVE  LockInv'
<1>1. TypeOK /\ TypeOK' /\ e \in Sessions /\ work[e] \in Work
  BY RequestType DEF LockInv, TypeOK, Sessions
<1>2. \A x \in Workers : work'[x] = work[x]
  BY <1>1, RequestShape
<1>3. CASE Delete(e)
  <2>1. chunks' = NoChunks /\ \A x \in Workers : work'[x].pc # "embed"
    BY <1>2, <1>3 DEF Delete, Locked
  <2>2. QED
    BY <1>1, <2>1 DEF LockInv, LockHolder, OneCopy, NoChunks
<1>4. ASSUME NEW new \in Row, new.status # "DELETED", Save(e, new) PROVE LockInv'
  BY <1>1, <1>2, <1>4, LockKept, FlushStatus DEF Save
<1>5. CASE Edit(e)
  <2>1. [content |-> work[e].content, hash |-> NoHash, status |-> "PENDING"] \in Row
    BY <1>1 DEF Work, Row, Status
  <2>2. QED
    BY <1>4, <1>5, <2>1 DEF Edit
<1>6. CASE Retry(e)
  <2>1. /\ [work[e].seen EXCEPT !.status = "PENDING"] \in Row
        /\ [work[e].seen EXCEPT !.status = "PENDING"].status = "PENDING"
    BY <1>1 DEF Work, Row, Status
  <2>2. QED
    BY <1>4, <1>6, <2>1 DEF Retry
<1>7. CASE OpenEdit(e) \/ OpenRetry(e) \/ Enqueue(e)
  <2>1. chunks' = chunks /\ doc' = doc
    BY <1>7 DEF OpenEdit, OpenRetry, Open, Enqueue
  <2>2. QED
    BY <1>1, <1>2, <2>1, LockKept
<1>8. QED
  BY <1>3, <1>5, <1>6, <1>7 DEF Request

LEMMA LockStep == LockInv /\ [Next]_vars => LockInv'
<1>1. LockInv /\ Next => LockInv'
  BY LockIngest, LockRequest DEF Next
<1>2. LockInv /\ UNCHANGED vars => LockInv'
  BY TypeStep DEF LockInv, LockHolder, OneCopy, vars
<1>3. QED
  BY <1>1, <1>2

LEMMA LockInit == Init => LockInv
<1>1. Init => OneCopy /\ LockHolder
  BY DEF Init, OneCopy, LockHolder, NoChunks, AtIdle, Idle, Sessions
<1>2. QED
  BY <1>1, TypeInit DEF LockInv

(* However many tasks run on the document at once, its chunks are there once *)
(* and of one version.                                                       *)
THEOREM ChunksOnce == Spec => []OneCopy
<1>1. LockInv => OneCopy
  BY DEF LockInv
<1>2. QED
  BY <1>1, LockInit, LockStep, PTL DEF Spec

-----------------------------------------------------------------------------
(* One task at a time *)

(* A task will run, or is about to be asked for. *)
Due == queue > 0 \/ \E e \in Editors : work[e].pc = "enqueue"

(* The hash names what the chunks were made of. *)
Names(h) == h # NoHash /\ HasChunks => chunks[h] > 0

Busy(w) == work[w].pc # Idle

(* What the worker at work may rely on: the row's hash is the one it loaded, *)
(* or an edit has cleared it.                                                *)
Sound(w) ==
    /\ doc.hash \in {work[w].seen.hash, NoHash}
    /\ Names(work[w].seen.hash)
    /\ work[w].pc = "same" => /\ work[w].seen.hash = work[w].seen.content
                              /\ HasChunks \/ doc.status = "DELETED"

(* While no two tasks overlap. *)
InTurn ==
    /\ \A w, x \in Workers : Busy(w) /\ Busy(x) => w = x
    /\ Names(doc.hash)
    /\ doc.status = "COMPLETED" => HasChunks
    /\ \A w \in Workers : Busy(w) => Sound(w)

(* And while none is lost: a content that is not in the chunks has a task.   *)
Followed ==
    \/ doc.status = "DELETED" \/ Due
    \/ /\ \A w \in Workers : Busy(w) => work[w].seen.content = doc.content
       /\ \/ doc.status = "FAILED" \/ chunks[doc.content] > 0
          \/ \E w \in Workers : Busy(w)

TurnInv ==
    /\ LockInv
    /\ ~overlap => InTurn
    /\ ~overlap /\ ~lost => Followed

(* A step that ends the only worker's task, if it keeps what InTurn says of  *)
(* the row and a row that is neither deleted nor failed has its chunks or a  *)
(* task.                                                                     *)
LEMMA TaskEnds ==
    ASSUME TurnInv, LockInv', overlap' = overlap, NEW w \in Workers, Busy(w), ~Busy(w)',
           \A x \in Workers \ {w} : work'[x] = work[x],
           ~overlap => Names(doc.hash)' /\ (doc'.status = "COMPLETED" => HasChunks'),
           ~overlap /\ ~lost' =>
               doc'.status \in {"DELETED", "FAILED"} \/ Due' \/ chunks'[doc'.content] > 0
    PROVE  TurnInv'
<1>1. ASSUME ~overlap, NEW x \in Workers, Busy(x)' PROVE FALSE
  <2>1. x # w /\ Busy(x)
    BY <1>1 DEF Busy
  <2>2. QED
    BY <1>1, <2>1 DEF TurnInv, InTurn
<1>2. ~overlap => InTurn'
  BY <1>1 DEF InTurn
<1>3. ~overlap /\ ~lost' => Followed'
  BY <1>1 DEF Followed
<1>4. QED
  BY <1>2, <1>3 DEF TurnInv

(* A step that ends no task, and changes neither chunks nor content.         *)
LEMMA TaskGoesOn ==
    ASSUME TurnInv, LockInv', overlap' = overlap, lost' = lost, chunks' = chunks,
           doc' = doc, queue' = queue,
           \A e \in Editors : work[e].pc = "enqueue" => work'[e].pc = "enqueue",
           \A w \in Workers : \/ work'[w] = work[w]
                              \/ /\ Busy(w) /\ Busy(w)'
                                 /\ work'[w].seen.hash = work[w].seen.hash
                                 /\ work'[w].seen.content = work[w].seen.content
                                 /\ work'[w].pc = "same" => Unchanged(w)
    PROVE  TurnInv'
<1>1. /\ \A w \in Workers : Busy(w)' <=> Busy(w)
      /\ \A w \in Workers : work'[w].seen.content = work[w].seen.content
  BY DEF Busy
<1>2. \A h : Names(h)' <=> Names(h)
  BY DEF Names, HasChunks
<1>3. ASSUME NEW w \in Workers, Sound(w) PROVE Sound(w)'
  BY <1>2, <1>3 DEF Sound, Unchanged, HasChunks
<1>4. ~overlap => InTurn'
  BY <1>1, <1>2, <1>3 DEF TurnInv, InTurn, HasChunks
<1>5. Due => Due'
  BY DEF Due
<1>6. ~overlap /\ ~lost => Followed'
  BY <1>1, <1>5 DEF TurnInv, Followed
<1>7. QED
  BY <1>4, <1>6 DEF TurnInv

LEMMA DueStays ==
    ASSUME Due, queue' = queue, \A e \in Editors : work'[e] = work[e]
    PROVE  Due'
BY DEF Due

LEMMA TurnIngest ==
    ASSUME TurnInv, NEW w \in Workers, Ingest(w)
    PROVE  TurnInv'
<1>1. /\ TypeOK /\ LockInv' /\ w \in Sessions /\ work[w] \in Work
      /\ work[w].seen \in Row /\ work[w].seen.content \in Versions
  BY LockIngest DEF TurnInv, LockInv, TypeOK, Sessions, Work, Row
<1>2. /\ \A x \in Workers \ {w} : work'[x] = work[x]
      /\ \A e \in Editors : work'[e] = work[e]
  BY <1>1, IngestShape, SessionsAssumption DEF Sessions
<1>3. CASE Take(w)
  <2>1. CASE doc.status = "DELETED"
    <3>1. UNCHANGED <<doc, chunks, work, overlap, lost>>
      BY <1>3, <2>1 DEF Take
    <3>2. InTurn <=> InTurn'
      BY <3>1 DEF InTurn, Busy, Sound, Names, HasChunks
    <3>3. QED
      BY <1>1, <2>1, <3>1, <3>2 DEF TurnInv, Followed
  <2>2. CASE doc.status # "DELETED"
    <3>1. /\ work'[w].pc = "loaded" /\ work'[w].seen = doc
          /\ UNCHANGED <<doc, chunks, lost>>
          /\ ~overlap' => ~overlap /\ \A x \in Workers : ~Busy(x)
      BY <1>1, <1>3, <2>2 DEF Take, TypeOK, Work, Busy
    <3>2. ASSUME ~overlap' PROVE InTurn' /\ Followed'
      <4>1. \A x \in Workers : Busy(x)' <=> x = w
        BY <1>2, <3>1, <3>2 DEF Busy, Idle
      <4>2. Names(doc.hash)' /\ (doc'.status = "COMPLETED" => HasChunks')
        BY <3>1, <3>2 DEF TurnInv, InTurn, Names, HasChunks
      <4>3. Sound(w)'
        BY <3>1, <4>2 DEF Sound
      <4>4. QED
        BY <3>1, <4>1, <4>2, <4>3 DEF InTurn, Followed
    <3>3. QED
      BY <1>1, <3>2 DEF TurnInv
  <2>3. QED
    BY <2>1, <2>2
<1>4. CASE Compare(w)
  <2>1. /\ Busy(w) /\ Busy(w)' /\ work'[w].seen = work[w].seen
        /\ work'[w].pc = "same" => Unchanged(w)
    BY <1>1, <1>4 DEF Compare, TypeOK, Work, Busy, Idle
  <2>2. QED
    BY <1>2, <1>4, <1>1, <2>1, TaskGoesOn DEF Compare
<1>5. CASE Confirm(w)
  <2>1. /\ Busy(w) /\ ~Busy(w)' /\ UNCHANGED <<chunks, queue, overlap, lost>>
        /\ work[w].pc = "same"
    BY <1>1, <1>5 DEF Confirm, Ends, TypeOK, Busy, AtIdle, Idle
  <2>2. /\ doc'.hash = doc.hash /\ doc'.content = doc.content
        /\ doc.status = "DELETED" => doc'.status = "DELETED"
    BY <1>1, <1>5 DEF Confirm, Flush, Column, Row
  <2>3. ASSUME ~overlap
        PROVE  Names(doc.hash)' /\ (doc'.status = "COMPLETED" => HasChunks')
    <3>1. InTurn /\ Sound(w)
      BY <2>1, <2>3 DEF TurnInv, InTurn
    <3>2. QED
      BY <2>1, <2>2, <3>1 DEF InTurn, Sound, Names, HasChunks
  <2>4. ASSUME ~overlap, ~lost, doc.status # "DELETED", ~Due
        PROVE  chunks[doc.content] > 0
    <3>1. Sound(w) /\ work[w].seen.content = doc.content
      BY <2>1, <2>4 DEF TurnInv, InTurn, Followed
    <3>2. QED
      BY <1>1, <2>1, <2>4, <3>1, VersionsAssumption DEF Sound, Names
  <2>5. Due => Due'
    BY <1>2, <2>1, DueStays
  <2>6. QED
    BY <1>1, <1>2, <2>1, <2>2, <2>3, <2>4, <2>5, TaskEnds
<1>6. CASE Begin(w)
  <2>1. CASE doc.status = "DELETED"
    <3>1. Busy(w) /\ ~Busy(w)' /\ UNCHANGED <<doc, chunks, queue, overlap, lost>>
      BY <1>1, <1>6, <2>1 DEF Begin, TypeOK, Busy, AtIdle, Idle
    <3>2. ~overlap => Names(doc.hash)' /\ (doc'.status = "COMPLETED" => HasChunks')
      BY <3>1 DEF TurnInv, InTurn, Names, HasChunks
    <3>3. QED
      BY <1>1, <1>2, <2>1, <3>1, <3>2, TaskEnds
  <2>2. CASE doc.status # "DELETED"
    <3>1. /\ Busy(w) /\ Busy(w)' /\ work'[w].pc # "same"
          /\ work'[w].seen.hash = work[w].seen.hash
          /\ work'[w].seen.content = work[w].seen.content
      BY <1>1, <1>6, <2>2 DEF Begin, TypeOK, Work, Row, Busy, Idle
    <3>2. QED
      BY <1>1, <1>2, <1>6, <3>1, TaskGoesOn DEF Begin
  <2>3. QED
    BY <2>1, <2>2
<1>7. CASE Complete(w)
  <2> DEFINE seen == work[w].seen
  <2>1. /\ Busy(w) /\ ~Busy(w)' /\ UNCHANGED <<queue, overlap, lost>>
        /\ work[w].pc = "embed"
    BY <1>1, <1>7 DEF Complete, Ends, TypeOK, Busy, AtIdle, Idle
  <2>2. work[w].removed = chunks /\ doc.status # "DELETED"
    BY <2>1 DEF TurnInv, LockInv, LockHolder
  <2>3. chunks' = [NoChunks EXCEPT ![seen.content] = 1]
    BY <1>1, <1>7, <2>2, NothingElse DEF Complete, TypeOK
  <2>4. chunks'[seen.content] > 0 /\ HasChunks'
    BY <1>1, <2>3 DEF NoChunks, HasChunks
  <2>5. /\ doc'.content = doc.content
        /\ doc'.hash = IF seen.content = seen.hash THEN doc.hash ELSE seen.content
    BY <1>1, <1>7 DEF Complete, Flush, Column, Row
  <2>6. ASSUME ~overlap PROVE Names(doc.hash)'
    <3>1. doc.hash \in {seen.hash, NoHash}
      BY <2>1, <2>6 DEF TurnInv, InTurn, Sound
    <3>2. QED
      BY <2>4, <2>5, <3>1 DEF Names
  <2>7. ASSUME ~overlap, ~lost, ~Due PROVE seen.content = doc.content
    BY <2>1, <2>2, <2>7 DEF TurnInv, Followed
  <2>8. Due => Due'
    BY <1>2, <2>1, DueStays
  <2>9. QED
    BY <1>1, <1>2, <2>1, <2>4, <2>5, <2>6, <2>7, <2>8, TaskEnds
<1>8. CASE EmbedFails(w)
  <2>1. /\ Busy(w) /\ ~Busy(w)' /\ UNCHANGED <<queue, overlap, lost>>
        /\ work[w].pc = "embed"
    BY <1>1, <1>8 DEF EmbedFails, Ends, TypeOK, Busy, AtIdle, Idle
  <2>2. work[w].removed = chunks /\ work[w].seen.status = "PROCESSING"
    BY <2>1 DEF TurnInv, LockInv, LockHolder
  <2>3. chunks' = NoChunks /\ doc'.status = "FAILED"
    BY <1>1, <1>8, <2>2, VersionsAssumption, NothingElse
    DEF EmbedFails, TypeOK, Flush, Column, Row
  <2>4. ~HasChunks'
    BY <2>3 DEF NoChunks, HasChunks
  <2>5. QED
    BY <1>1, <1>2, <2>1, <2>3, <2>4, TaskEnds DEF Names
<1>9. CASE Abort(w)
  <2>1. Busy(w) /\ ~Busy(w)' /\ UNCHANGED <<doc, chunks, overlap>> /\ lost'
    BY <1>1, <1>9 DEF Abort, Ends, TypeOK, Busy, AtIdle, Idle
  <2>2. ~overlap => Names(doc.hash)' /\ (doc'.status = "COMPLETED" => HasChunks')
    BY <2>1 DEF TurnInv, InTurn, Names, HasChunks
  <2>3. QED
    BY <1>1, <1>2, <2>1, <2>2, TaskEnds
<1>10. QED
  BY <1>3, <1>4, <1>5, <1>6, <1>7, <1>8, <1>9 DEF Ingest

(* An edit or a retry clears the hash or leaves it, and will ask for a task. *)
LEMMA TurnSave ==
    ASSUME TurnInv, LockInv', NEW e \in Editors, NEW new \in Row, Save(e, new),
           new.hash \in {work[e].seen.hash, NoHash},
           new.status \in {work[e].seen.status, "PENDING"},
           work[e].pc # "enqueue"
    PROVE  TurnInv'
<1>1. /\ TypeOK /\ e \in Sessions
      /\ \A w \in Workers : work'[w] = work[w]
      /\ UNCHANGED <<chunks, queue, overlap, lost>>
  BY SessionsAssumption DEF TurnInv, LockInv, TypeOK, Sessions, Save, Ends
<1>2. CASE doc.status = "DELETED"
  <2>1. doc' = doc
    BY <1>2 DEF Save
  <2>2. InTurn <=> InTurn'
    BY <1>1, <2>1 DEF InTurn, Busy, Sound, Names, HasChunks
  <2>3. QED
    BY <1>1, <1>2, <2>1, <2>2 DEF TurnInv, Followed
<1>3. CASE doc.status # "DELETED"
  <2>1. /\ doc'.hash \in {doc.hash, NoHash}
        /\ doc'.status \in {doc.status, "PENDING"}
        /\ work'[e].pc = "enqueue"
    BY <1>1, <1>3 DEF Save, Flush, Column, TypeOK, Work
  <2>2. Due'
    BY <2>1 DEF Due
  <2>3. (\A h : Names(h)' <=> Names(h)) /\ (HasChunks' <=> HasChunks)
    BY <1>1 DEF Names, HasChunks
  <2>4. ASSUME ~overlap PROVE InTurn'
    <3>1. Names(doc.hash)' /\ (doc'.status = "COMPLETED" => HasChunks')
      BY <2>1, <2>3, <2>4 DEF TurnInv, InTurn, Names
    <3>2. ASSUME NEW w \in Workers, Busy(w)' PROVE Sound(w)'
      <4>1. Busy(w) /\ Sound(w)
        BY <1>1, <2>4, <3>2 DEF TurnInv, InTurn, Busy
      <4>2. QED
        BY <1>1, <1>3, <2>1, <2>3, <4>1 DEF Sound
    <3>3. QED
      BY <1>1, <2>4, <3>1, <3>2 DEF TurnInv, InTurn, Busy
  <2>5. QED
    BY <1>1, <2>2, <2>4 DEF TurnInv, Followed
<1>4. QED
  BY <1>2, <1>3

LEMMA TurnRequest ==
    ASSUME TurnInv, NEW e \in Editors, Request(e)
    PROVE  TurnInv'
<1>1. /\ TypeOK /\ LockInv' /\ e \in Sessions /\ work[e] \in Work
      /\ \A w \in Workers : work'[w] = work[w]
  BY LockRequest, RequestShape DEF TurnInv, LockInv, TypeOK, Sessions
<1>2. CASE OpenEdit(e) \/ OpenRetry(e)
  <2>0. PICK pc, v : Open(e, pc, v)
    BY <1>2 DEF OpenEdit, OpenRetry
  <2>1. /\ UNCHANGED <<doc, chunks, queue, overlap, lost>>
        /\ \A x \in Editors : work[x].pc = "enqueue" => work'[x].pc = "enqueue"
    <3>1. \A x \in Sessions \ {e} : work'[x] = work[x]
      BY <1>1, <2>0 DEF Open, TypeOK
    <3>2. work[e].pc # "enqueue"
      BY <2>0 DEF Open, Idle
    <3>3. QED
      BY <2>0, <3>1, <3>2 DEF Open, Sessions
  <2>2. QED
    BY <1>1, <2>1, TaskGoesOn
<1>3. CASE Edit(e)
  <2> DEFINE new == [content |-> work[e].content, hash |-> NoHash, status |-> "PENDING"]
  <2>1. new \in Row /\ new.hash = NoHash /\ new.status = "PENDING"
    BY <1>1 DEF Work, Row, Status
  <2>2. Save(e, new) /\ work[e].pc = "edit"
    BY <1>3 DEF Edit
  <2> HIDE DEF new
  <2>3. QED
    BY <1>1, <2>1, <2>2, TurnSave
<1>4. CASE Retry(e)
  <2> DEFINE new == [work[e].seen EXCEPT !.status = "PENDING"]
  <2>1. new \in Row /\ new.hash = work[e].seen.hash /\ new.status = "PENDING"
    BY <1>1 DEF Work, Row, Status
  <2>2. Save(e, new) /\ work[e].pc = "retry"
    BY <1>4 DEF Retry
  <2> HIDE DEF new
  <2>3. QED
    BY <1>1, <2>1, <2>2, TurnSave
<1>5. CASE Enqueue(e)
  <2>0. queue + 1 > 0
    BY <1>1 DEF TypeOK
  <2>a. UNCHANGED <<doc, chunks, overlap>> /\ (queue' = queue + 1 \/ lost' = TRUE)
    BY <1>5, Zenon DEF Enqueue
  <2>1. UNCHANGED <<doc, chunks, overlap>> /\ (lost' \/ queue' > 0)
    BY <2>0, <2>a
  <2>2. InTurn <=> InTurn'
    BY <1>1, <2>1 DEF InTurn, Busy, Sound, Names, HasChunks
  <2>3. ~lost' => Followed'
    BY <2>1 DEF Followed, Due
  <2>4. QED
    BY <1>1, <2>1, <2>2, <2>3 DEF TurnInv
<1>6. CASE Delete(e)
  <2>1. /\ UNCHANGED <<overlap, lost>> /\ doc'.status = "DELETED"
        /\ doc'.hash = doc.hash /\ ~HasChunks'
    BY <1>1, <1>6 DEF Delete, TypeOK, Row, NoChunks, HasChunks
  <2>2. ~overlap => InTurn'
    BY <1>1, <2>1 DEF TurnInv, InTurn, Busy, Sound, Names
  <2>3. QED
    BY <1>1, <2>1, <2>2 DEF TurnInv, Followed
<1>7. QED
  BY <1>2, <1>3, <1>4, <1>5, <1>6 DEF Request

LEMMA TurnInit == Init => TurnInv
<1>1. Init => LockInv
  BY LockInit
<1>2. Init => InTurn /\ Followed
  BY DEF Init, InTurn, Followed, Due, Names, Added, Busy, AtIdle, Sessions
<1>3. QED
  BY <1>1, <1>2 DEF TurnInv

LEMMA TurnStep == TurnInv /\ [Next]_vars => TurnInv'
<1>1. TurnInv /\ Next => TurnInv'
  BY TurnIngest, TurnRequest DEF Next
<1>2. TurnInv /\ UNCHANGED vars => TurnInv'
  BY LockStep DEF TurnInv, InTurn, Followed, Busy, Sound, Names, HasChunks, Due, vars
<1>3. QED
  BY <1>1, <1>2

(* The inductive invariant: the lock, and while tasks run one after the      *)
(* other, what the worker may rely on and who will bring the chunks up to    *)
(* date.                                                                     *)
THEOREM TurnHolds == Spec => []TurnInv
BY TurnInit, TurnStep, PTL DEF Spec

(* While tasks run one after the other, search follows the content.          *)
THEOREM SearchFollows == Spec => []CurrentInTurn
<1>1. TurnInv => CurrentInTurn
  <2>1. ASSUME TurnInv, ~overlap, ~lost, AtRest, doc.status = "COMPLETED"
        PROVE  chunks[doc.content] > 0
    <3>1. ~Due /\ \A w \in Workers : ~Busy(w)
      BY <2>1 DEF AtRest, Due, Busy, Sessions, Idle
    <3>2. QED
      BY <2>1, <3>1 DEF TurnInv, Followed
  <2>2. QED
    BY <2>1 DEF CurrentInTurn, Current
<1>2. QED
  BY <1>1, TurnHolds, PTL

(* ... and a COMPLETED document is found.                                    *)
THEOREM FoundWhenCompleted == Spec => []CompletedIsFound
<1>1. TurnInv => CompletedIsFound
  BY DEF TurnInv, InTurn, CompletedIsFound
<1>2. QED
  BY <1>1, TurnHolds, PTL
=============================================================================
