--------------------------- MODULE LifecycleProofs ---------------------------
(***************************************************************************)
(* For any policies, hours and number of sessions: a conversation has one  *)
(* clock of each type at most, a completed timer has been earned, and      *)
(* deadlines, openings and closings agree.                                 *)
(*                                                                         *)
(* The first two rest on the order in which a session does things: it      *)
(* writes the row before it looks for timers, so that whoever starts       *)
(* timers holds the row's lock and nobody else adds any before it commits. *)
(* The third is about the functions of BusinessHours: the walk over the    *)
(* days ends at an instant before which as many minutes are open as were   *)
(* asked for.                                                              *)
(***************************************************************************)
EXTENDS Lifecycle, SequenceTheorems, FiniteSetTheorems, WellFoundedInduction, TLAPS

Fields == {"at", "kind", "sets", "seen", "row", "changes", "new"}
Minutes == {p.first : p \in Policies} \cup {p.resolution : p \in Policies}
TimerFields == [type : Types, policy : Policies, started : 0..Horizon,
                due : {DueTimes[n][m] : n \in 0..Horizon, m \in Minutes},
                status : {"RUNNING", "COMPLETED", "BREACHED"}]

(* No timer is ever PAUSED, and what it is due stays as computed at its start. *)
TimerRow == {r \in TimerFields : r.due = DueTimes[r.started][MinutesOf(r.policy, r.type)]}
Shape ==
    /\ clock \in 0..Horizon
    /\ conv \in ConvRow \cup {NoRow} /\ (conv = NoRow => timers = <<>>)
    /\ timers \in Seq(TimerRow)
    /\ DOMAIN work = Sessions \cup {Beat}
    /\ \A s \in Sessions \cup {Beat} :
          /\ DOMAIN work[s] = Fields
          /\ work[s].new \in Seq(TimerRow)
          /\ DOMAIN work[s].changes \subseteq DOMAIN timers

(* What a session has loaded and will write. *)
ColumnsTyped(sets) ==
    /\ "status" \in DOMAIN sets => sets["status"] \in Statuses
    /\ "priority" \in DOMAIN sets => sets["priority"] \in Priorities
SessionOK(s) ==
    LET w == work[s]
    IN  /\ w.at \in {"loaded", "flushed"}
        /\ w.kind \in {"update", "reply", "message", "priority", "status"}
        /\ conv \in ConvRow /\ w.seen \in ConvRow /\ w.row \in ConvRow
        /\ ColumnsTyped(w.sets)
        /\ w.kind \in {"update", "priority"} => Changed(w) # Nothing
        /\ w.at = "loaded" => w.new = <<>> /\ DOMAIN w.changes = {}

(* What it completes its commit will have earned. *)
Earns(s) ==
    LET w == work[s]
    IN  /\ \A i \in DOMAIN w.changes : w.changes[i] = "COMPLETED" /\ timers[i].type \in Completes(w)
        /\ \A i \in DOMAIN w.new : w.new[i].status = "COMPLETED" => w.new[i].type \in Completes(w)

(* Whoever has timers to add holds the row, and they are the only ones of    *)
(* their types.                                                              *)
Fresh(s) ==
    LET new == work[s].new
    IN  /\ new # <<>> => HasRowLock(s)
        /\ \A i, j \in Ids(new, Live) : new[i].type = new[j].type => i = j
        /\ \A i \in Ids(new, Live), j \in Ids(timers, Live) : new[i].type # timers[j].type

BeatOK ==
    /\ work[Beat].new = <<>>
    /\ \A i \in DOMAIN work[Beat].changes : work[Beat].changes[i] = "BREACHED"

OneLock == \A s, o \in Sessions : HasRowLock(s) /\ HasRowLock(o) => s = o

LifecycleInv ==
    /\ Shape /\ BeatOK /\ OneLock
    /\ \A s \in Sessions : work[s] = AtIdle \/ (SessionOK(s) /\ Earns(s) /\ Fresh(s))
    /\ OneClock /\ CompletedIsEarned

-----------------------------------------------------------------------------
(* Operators *)

LEMMA OverwriteTyped ==
    ASSUME NEW row \in ConvRow, NEW columns, ColumnsTyped(columns)
    PROVE  Overwrite(row, columns) \in ConvRow
BY DEF Overwrite, ConvRow, ColumnsTyped

(* The columns a session writes are among those it was given. *)
LEMMA ChangedTyped ==
    ASSUME NEW w, w.seen \in ConvRow, ColumnsTyped(w.sets)
    PROVE  ColumnsTyped(Changed(w))
BY DEF ColumnsTyped, Changed

(* A column that differs is written. *)
LEMMA ChangedSomething ==
    ASSUME NEW w, NEW n \in DOMAIN w.sets, w.sets[n] # w.seen[n]
    PROVE  Changed(w) # Nothing
<1>1. n \in DOMAIN Changed(w)
  BY DEF Changed
<1>2. DOMAIN Nothing = {}
  BY DEF Nothing
<1>. QED
  BY <1>1, <1>2

(* Requests name at least one column. *)
LEMMA ColumnsAre ==
    ASSUME NEW sets \in Columns
    PROVE  /\ ColumnsTyped(sets)
           /\ sets # Nothing => \E n \in {"status", "priority"} : n \in DOMAIN sets
BY DEF Columns, ColumnsTyped, ConvRow, Nothing

(* A timer of the policy. *)
LEMMA StartedTyped ==
    ASSUME clock \in 0..Horizon, NEW p \in Policies, NEW type \in Types
    PROVE  Started(type, p) \in TimerRow
<1>1. MinutesOf(p, type) \in Minutes
  BY DEF MinutesOf, Minutes
<1>. QED
  BY <1>1 DEF Started, TimerRow, TimerFields

(* The timers a policy starts run, one of each type at most and none of a    *)
(* type that is live already.                                                *)
LEMMA NewTimers ==
    ASSUME clock \in 0..Horizon, NEW priority, NEW new \in Starts(priority)
    PROVE  /\ new \in Seq(TimerRow)
           /\ \A i \in DOMAIN new : new[i].status = "RUNNING"
           /\ \A i, j \in DOMAIN new : new[i].type = new[j].type => i = j
           /\ \A i \in DOMAIN new, j \in Ids(timers, Live) : new[i].type # timers[j].type
<1>1. CASE new = <<>>
  BY <1>1
<1>2. ASSUME NEW p \in Policies, new = TimersOf(p)
      PROVE  /\ new \in Seq(TimerRow)
             /\ \A i \in DOMAIN new : new[i].status = "RUNNING" /\ new[i].type \in Missing(p)
             /\ \A i, j \in DOMAIN new : new[i].type = new[j].type => i = j
  <2>. DEFINE first == Started("FIRST_RESPONSE", p)
              resolution == Started("RESOLUTION", p)
              both == <<first, resolution>>
  <2>1. first \in TimerRow /\ resolution \in TimerRow
    BY StartedTyped DEF Types
  <2>2. /\ first.type = "FIRST_RESPONSE" /\ first.status = "RUNNING"
        /\ resolution.type = "RESOLUTION" /\ resolution.status = "RUNNING"
    BY DEF Started
  <2>. HIDE DEF first, resolution
  <2>3. /\ <<>> \o <<>> = <<>> /\ <<first>> \o <<>> = <<first>>
        /\ <<>> \o <<resolution>> = <<resolution>>
        /\ <<first>> \o <<resolution>> = both
    <3>1. <<first>> \in Seq(TimerRow) /\ <<resolution>> \in Seq(TimerRow) /\ <<>> \in Seq(TimerRow)
      BY <2>1
    <3>2. <<first>> \o <<resolution>> = both
      <4>1. both \in Seq(TimerRow) /\ Len(both) = 2 /\ both[1] = first /\ both[2] = resolution
        BY <2>1
      <4>2. Len(<<first>>) = 1 /\ Len(<<resolution>>) = 1 /\ 1..1 + 1 = {1, 2}
        OBVIOUS
      <4>3. /\ <<first>> \o <<resolution>> \in Seq(TimerRow)
            /\ Len(<<first>> \o <<resolution>>) = 2
            /\ (<<first>> \o <<resolution>>)[1] = first
            /\ (<<first>> \o <<resolution>>)[2] = resolution
        BY <3>1, <4>2, ConcatProperties
      <4>4. \A i \in 1..2 : (<<first>> \o <<resolution>>)[i] = both[i]
        BY <4>1, <4>3
      <4>. QED
        BY <4>1, <4>3, <4>4, SeqEqual
    <3>3. \A some \in Seq(TimerRow) : some \o <<>> = some /\ <<>> \o some = some
      BY ConcatEmptySeq
    <3>. QED
      BY <3>1, <3>2, <3>3
  <2>4. \/ new = <<>>
        \/ new = <<first>> /\ "FIRST_RESPONSE" \in Missing(p)
        \/ new = <<resolution>> /\ "RESOLUTION" \in Missing(p)
        \/ new = both /\ Types \subseteq Missing(p)
    BY <1>2, <2>3 DEF TimersOf, Types, first, resolution
  <2>5. CASE new = <<>>
    BY <2>5
  <2>6. CASE new = <<first>> /\ "FIRST_RESPONSE" \in Missing(p)
    BY <2>1, <2>2, <2>6
  <2>7. CASE new = <<resolution>> /\ "RESOLUTION" \in Missing(p)
    BY <2>1, <2>2, <2>7
  <2>8. CASE new = both /\ Types \subseteq Missing(p)
    BY <2>1, <2>2, <2>8 DEF Types
  <2>. QED
    BY <2>4, <2>5, <2>6, <2>7, <2>8
<1>3. ASSUME NEW p \in Policies, NEW type \in Missing(p), NEW j \in Ids(timers, Live)
      PROVE  type # timers[j].type
  BY DEF Missing, Ids
<1>4. new = <<>> \/ \E p \in Policies : new = TimersOf(p)
  BY DEF Starts, Matching
<1>. QED
  BY <1>1, <1>2, <1>3, <1>4

LEMMA StatusSet ==
    ASSUME NEW timer \in TimerRow, NEW status \in {"COMPLETED", "BREACHED"},
           NEW closed, closed = [timer EXCEPT !.status = status]
    PROVE  closed \in TimerRow /\ closed.type = timer.type /\ closed.status = status
<1>1. timer \in TimerFields /\ timer.due = DueTimes[timer.started][MinutesOf(timer.policy, timer.type)]
  BY DEF TimerRow
<1>2. /\ closed \in TimerFields
      /\ closed.type = timer.type /\ closed.status = status /\ closed.policy = timer.policy
      /\ closed.started = timer.started /\ closed.due = timer.due
  BY <1>1 DEF TimerFields
<1>. QED
  BY <1>1, <1>2 DEF TimerRow

(* Changes that stop timers, and what is left of them when a commit makes    *)
(* the changes and puts its new timers last.                                 *)
Stops(changes) ==
    /\ DOMAIN changes \subseteq DOMAIN timers
    /\ \A i \in DOMAIN changes : changes[i] \in {"COMPLETED", "BREACHED"}
After(ts, changes, new) ==
    /\ ts \in Seq(TimerRow)
    /\ DOMAIN timers \subseteq DOMAIN ts
    /\ \A i \in DOMAIN timers :
          /\ ts[i].type = timers[i].type
          /\ ts[i].status = IF i \in DOMAIN changes THEN changes[i] ELSE timers[i].status
    /\ \A i \in DOMAIN ts \ DOMAIN timers :
          i - Len(timers) \in DOMAIN new /\ ts[i] = new[i - Len(timers)]

LEMMA AppliedTimers ==
    ASSUME timers \in Seq(TimerRow), NEW changes, Stops(changes),
           NEW new \in Seq(TimerRow), NEW ts, ts = Applied(changes) \o new
    PROVE  After(ts, changes, new)
<1>. USE DEF Stops, After
<1>. DEFINE old == Applied(changes)
<1>1. /\ DOMAIN old = DOMAIN timers
      /\ \A i \in DOMAIN timers :
            /\ old[i] \in TimerRow /\ old[i].type = timers[i].type
            /\ old[i].status = IF i \in DOMAIN changes THEN changes[i] ELSE timers[i].status
  <2>1. ASSUME NEW i \in DOMAIN timers
        PROVE  /\ old[i] \in TimerRow /\ old[i].type = timers[i].type
               /\ old[i].status = IF i \in DOMAIN changes THEN changes[i] ELSE timers[i].status
    <3>1. timers[i] \in TimerRow
      OBVIOUS
    <3>2. old[i] = IF i \in DOMAIN changes THEN [timers[i] EXCEPT !.status = changes[i]] ELSE timers[i]
      BY DEF Applied
    <3>. HIDE DEF old
    <3>3. CASE i \in DOMAIN changes
      <4>1. PICK timer \in TimerRow, status \in {"COMPLETED", "BREACHED"} :
                timer = timers[i] /\ status = changes[i]
        BY <3>1, <3>3
      <4>. DEFINE closed == [timer EXCEPT !.status = status]
      <4>2. closed \in TimerRow /\ closed.type = timer.type /\ closed.status = status
        BY StatusSet
      <4>3. old[i] = closed
        BY <3>2, <3>3, <4>1
      <4>. HIDE DEF closed
      <4>. QED
        BY <3>3, <4>1, <4>2, <4>3
    <3>. QED
      BY <3>1, <3>2, <3>3
  <2>. QED
    BY <2>1 DEF Applied
<1>2. old \in Seq(TimerRow) /\ Len(old) = Len(timers)
  <2>1. Len(timers) \in Nat /\ DOMAIN timers = 1..Len(timers)
    BY LenProperties
  <2>2. old \in [1..Len(timers) -> TimerRow]
    BY <1>1, <2>1 DEF Applied
  <2>. QED
    BY <2>1, <2>2
<1>. HIDE DEF old
<1>3. /\ old \o new \in Seq(TimerRow)
      /\ Len(old \o new) = Len(timers) + Len(new)
      /\ \A i \in 1..Len(timers) + Len(new) :
            (old \o new)[i] = IF i <= Len(timers) THEN old[i] ELSE new[i - Len(timers)]
  BY <1>2, ConcatProperties
<1>4. /\ Len(timers) \in Nat /\ DOMAIN timers = 1..Len(timers)
      /\ Len(new) \in Nat /\ DOMAIN new = 1..Len(new)
      /\ DOMAIN ts = 1..Len(ts)
  BY <1>3, LenProperties DEF old
<1>5. ts = old \o new
  BY DEF old
<1>. QED
  BY <1>1, <1>3, <1>4, <1>5

-----------------------------------------------------------------------------
(* Sessions *)

LEMMA InitInv == Init => LifecycleInv
<1>. SUFFICES ASSUME Init PROVE LifecycleInv
  OBVIOUS
<1>1. Shape
  <2>1. 0 \in 0..Horizon
    BY LifecycleAssumption
  <2>2. DOMAIN AtIdle = Fields /\ AtIdle.new = <<>> /\ DOMAIN AtIdle.changes = {}
    BY DEF AtIdle, Fields, Nothing
  <2>3. DOMAIN work = Sessions \cup {Beat} /\ \A s \in Sessions \cup {Beat} : work[s] = AtIdle
    BY DEF Init
  <2>4. <<>> \in Seq(TimerRow) /\ DOMAIN <<>> = {}
    OBVIOUS
  <2>. QED
    BY <2>1, <2>2, <2>3, <2>4 DEF Init, Shape
<1>2. BeatOK /\ OneLock
  BY DEF Init, BeatOK, OneLock, HasRowLock, AtIdle, Nothing
<1>3. \A s \in Sessions : work[s] = AtIdle
  BY DEF Init
<1>4. OneClock /\ CompletedIsEarned
  BY DEF Init, OneClock, CompletedIsEarned, Ids
<1>. QED
  BY <1>1, <1>2, <1>3, <1>4 DEF LifecycleInv

(* The session's row and its lock are those of its record. *)
LEMMA SameWork ==
    ASSUME NEW s \in Sessions, work'[s] = work[s]
    PROVE  /\ HasRowLock(s)' = HasRowLock(s)
           /\ conv' \in ConvRow /\ SessionOK(s) => SessionOK(s)'
           /\ timers' = timers => Earns(s)' = Earns(s) /\ Fresh(s)' = Fresh(s)
BY DEF HasRowLock, SessionOK, Earns, Fresh, Ids

(* A session that has just loaded the conversation has nothing to write. *)
LEMMA OpensKeeps ==
    ASSUME LifecycleInv, NEW s \in Sessions, NEW kind, NEW sets, Opens(s, kind, sets),
           kind \in {"update", "reply", "message", "priority", "status"},
           conv # NoRow, ColumnsTyped(sets),
           kind \in {"update", "priority"} => \E n \in DOMAIN sets : sets[n] # conv[n]
    PROVE  LifecycleInv'
<1>. DEFINE opened == [AtIdle EXCEPT !.at = "loaded", !.kind = kind, !.sets = sets,
                                     !.seen = conv, !.row = conv]
<1>1. /\ work' = [work EXCEPT ![s] = opened]
      /\ UNCHANGED <<clock, conv, timers, earned>>
  BY DEF Opens
<1>2. /\ DOMAIN opened = Fields
      /\ opened.at = "loaded" /\ opened.kind = kind /\ opened.sets = sets
      /\ opened.seen = conv /\ opened.row = conv /\ opened.new = <<>>
      /\ DOMAIN opened.changes = {}
  BY DEF AtIdle, Fields, Nothing
<1>. HIDE DEF opened
<1>3. s # Beat /\ conv \in ConvRow
  BY LifecycleAssumption DEF LifecycleInv, Shape
<1>4. work'[s] = opened /\ \A o \in (Sessions \cup {Beat}) \ {s} : work'[o] = work[o]
  BY <1>1 DEF LifecycleInv, Shape
<1>5. Shape'
  <2>1. DOMAIN work' = Sessions \cup {Beat}
    BY <1>1 DEF LifecycleInv, Shape
  <2>2. <<>> \in Seq(TimerRow)
    OBVIOUS
  <2>3. \A o \in Sessions \cup {Beat} :
          /\ DOMAIN work'[o] = Fields
          /\ work'[o].new \in Seq(TimerRow)
          /\ DOMAIN work'[o].changes \subseteq DOMAIN timers
    BY <1>2, <1>4, <2>2 DEF LifecycleInv, Shape
  <2>. QED
    BY <1>1, <1>3, <2>1, <2>3 DEF LifecycleInv, Shape
<1>6. BeatOK'
  BY <1>3, <1>4 DEF LifecycleInv, BeatOK
<1>7. OneLock'
  <2>1. ~HasRowLock(s)'
    BY <1>2, <1>4 DEF HasRowLock
  <2>2. \A o \in Sessions \ {s} : HasRowLock(o)' = HasRowLock(o)
    BY <1>4, SameWork
  <2>. QED
    BY <2>1, <2>2 DEF LifecycleInv, OneLock
<1>8. SessionOK(s)' /\ Earns(s)' /\ Fresh(s)'
  <2>1. kind \in {"update", "priority"} => Changed(opened) # Nothing
    BY <1>2, ChangedSomething
  <2>2. SessionOK(s)'
    BY <1>1, <1>2, <1>3, <1>4, <2>1 DEF SessionOK
  <2>. QED
    BY <1>2, <1>4, <2>2 DEF Earns, Fresh, Ids
<1>9. \A o \in Sessions \ {s} : work'[o] = AtIdle \/ (SessionOK(o)' /\ Earns(o)' /\ Fresh(o)')
  BY <1>1, <1>3, <1>4, SameWork DEF LifecycleInv
<1>10. (OneClock /\ CompletedIsEarned)'
  BY <1>1 DEF LifecycleInv, OneClock, CompletedIsEarned, Ids
<1>. QED
  BY <1>5, <1>6, <1>7, <1>8, <1>9, <1>10 DEF LifecycleInv

LEMMA BeginKeeps ==
    ASSUME LifecycleInv, NEW s \in Sessions, Begin(s)
    PROVE  LifecycleInv'
<1>1. CASE Update(s)
  <2>1. PICK sets \in Columns \ {Nothing} :
           conv # NoRow /\ (\A n \in DOMAIN sets : sets[n] # conv[n]) /\ Opens(s, "update", sets)
    BY <1>1 DEF Update
  <2>2. ColumnsTyped(sets) /\ \E n \in DOMAIN sets : sets[n] # conv[n]
    BY <2>1, ColumnsAre
  <2>. QED
    BY <2>1, <2>2, OpensKeeps
<1>2. CASE Message(s)
  <2>1. PICK kind \in {"reply", "message"} :
           Opens(s, kind, IF conv.status = "CLOSED" THEN [status |-> "OPEN"] ELSE Nothing)
    BY <1>2 DEF Message
  <2>2. ColumnsTyped([status |-> "OPEN"]) /\ ColumnsTyped(Nothing)
    BY DEF ColumnsTyped, Statuses, Nothing
  <2>3. conv # NoRow
    BY <1>2 DEF Message
  <2>. QED
    BY <2>1, <2>2, <2>3, OpensKeeps
<1>3. CASE SetPriority(s)
  <2>1. PICK p \in Priorities \ {conv.priority} : Opens(s, "priority", [priority |-> p])
    BY <1>3 DEF SetPriority
  <2>. DEFINE sets == [priority |-> p]
  <2>2. ColumnsTyped(sets)
    BY DEF ColumnsTyped
  <2>3. "priority" \in DOMAIN sets /\ sets["priority"] # conv["priority"]
    OBVIOUS
  <2>4. conv # NoRow
    BY <1>3 DEF SetPriority
  <2>. HIDE DEF sets
  <2>5. Opens(s, "priority", sets)
    BY <2>1 DEF sets
  <2>. QED
    BY <2>2, <2>3, <2>4, <2>5, OpensKeeps
<1>4. CASE SetStatus(s)
  <2>1. PICK status \in Statuses \ {conv.status} : Opens(s, "status", [status |-> status])
    BY <1>4 DEF SetStatus
  <2>2. ColumnsTyped([status |-> status])
    BY DEF ColumnsTyped
  <2>3. conv # NoRow
    BY <1>4 DEF SetStatus
  <2>. QED
    BY <2>1, <2>2, <2>3, OpensKeeps
<1>. QED
  BY <1>1, <1>2, <1>3, <1>4 DEF Begin

(* Who starts timers has written the row, so it holds the lock; the timers   *)
(* it starts are of no live type.                                            *)
LEMMA ActKeeps ==
    ASSUME LifecycleInv, NEW s \in Sessions, Act(s)
    PROVE  LifecycleInv'
<1>. DEFINE row == Overwrite(IF work[s].kind = "update" THEN conv ELSE work[s].seen, Changed(work[s]))
            w == [work[s] EXCEPT !.at = "flushed", !.row = row]
            done(timer) == Live(timer) /\ timer.type \in Completes(w)
            paused(timer) == timer.status = "PAUSED" /\ Reopens(w)
<1>1. PICK new \in IF StartsTimers(w) THEN Starts(row.priority) ELSE {<<>>} :
         work' = [work EXCEPT ![s] = [w EXCEPT
              !.new = [i \in DOMAIN new |->
                 IF done(new[i]) THEN [new[i] EXCEPT !.status = "COMPLETED"] ELSE new[i]],
              !.changes = [i \in Ids(timers, done) \cup Ids(timers, paused) |->
                 IF done(timers[i]) THEN "COMPLETED" ELSE "RUNNING"]]]
  BY DEF Act
<1>2. UNCHANGED <<clock, conv, timers, ops, failures, earned>>
  BY DEF Act
<1>3. work[s].at = "loaded" /\ work[s] # AtIdle /\ s # Beat
  BY LifecycleAssumption DEF Act, AtIdle
<1>4. SessionOK(s) /\ DOMAIN work[s] = Fields
  BY <1>3 DEF LifecycleInv, Shape
<1>5. row \in ConvRow
  BY <1>4, OverwriteTyped, ChangedTyped DEF SessionOK
<1>6. /\ DOMAIN w = Fields
      /\ w.at = "flushed" /\ w.row = row
      /\ w.kind = work[s].kind /\ w.sets = work[s].sets /\ w.seen = work[s].seen
  BY <1>4 DEF Fields
<1>. HIDE DEF w, row
<1>7. /\ new \in Seq(TimerRow)
      /\ \A i \in DOMAIN new : new[i].status = "RUNNING"
      /\ \A i, j \in DOMAIN new : new[i].type = new[j].type => i = j
      /\ \A i \in DOMAIN new, j \in Ids(timers, Live) : new[i].type # timers[j].type
      /\ new # <<>> => StartsTimers(w)
  <2>1. CASE StartsTimers(w)
    BY <2>1, NewTimers DEF LifecycleInv, Shape
  <2>2. CASE new = <<>>
    BY <2>2
  <2>. QED
    BY <2>1, <2>2
<1>8. \A i \in DOMAIN timers : timers[i] \in TimerRow /\ timers[i].status # "PAUSED"
  <2>1. \A i \in DOMAIN timers : timers[i] \in TimerRow
    BY DEF LifecycleInv, Shape
  <2>. QED
    BY <2>1 DEF TimerRow, TimerFields
<1>. DEFINE added == [i \in DOMAIN new |->
                 IF done(new[i]) THEN [new[i] EXCEPT !.status = "COMPLETED"] ELSE new[i]]
            changes == [i \in Ids(timers, done) \cup Ids(timers, paused) |->
                 IF done(timers[i]) THEN "COMPLETED" ELSE "RUNNING"]
            acted == [w EXCEPT !.new = added, !.changes = changes]
<1>9. /\ DOMAIN changes \subseteq DOMAIN timers
      /\ \A i \in DOMAIN changes : changes[i] = "COMPLETED" /\ timers[i].type \in Completes(w)
  BY <1>8 DEF Ids
<1>10. /\ DOMAIN added = DOMAIN new
       /\ \A i \in DOMAIN new :
             /\ added[i] \in TimerRow /\ added[i].type = new[i].type
             /\ added[i].status # "RUNNING" => added[i].status = "COMPLETED" /\ new[i].type \in Completes(w)
             /\ Live(added[i]) => Live(new[i])
  <2>1. ASSUME NEW i \in DOMAIN new
        PROVE  /\ added[i] \in TimerRow /\ added[i].type = new[i].type
               /\ added[i].status # "RUNNING" => added[i].status = "COMPLETED" /\ new[i].type \in Completes(w)
               /\ Live(added[i]) => Live(new[i])
    <3>1. new[i] \in TimerRow /\ new[i].status = "RUNNING"
      BY <1>7
    <3>2. CASE done(new[i])
      <4>. DEFINE closed == [new[i] EXCEPT !.status = "COMPLETED"]
      <4>1. closed \in TimerRow /\ closed.type = new[i].type /\ closed.status = "COMPLETED"
        BY <3>1, StatusSet
      <4>2. added[i] = closed
        BY <3>2
      <4>. HIDE DEF closed, added
      <4>. QED
        BY <3>1, <3>2, <4>1, <4>2 DEF Live
    <3>3. CASE ~done(new[i])
      <4>1. added[i] = new[i]
        BY <3>3
      <4>. QED
        BY <3>1, <4>1
    <3>. QED
      BY <3>2, <3>3
  <2>. QED
    BY <2>1
<1>11. added \in Seq(TimerRow)
  <2>1. DOMAIN new = 1..Len(new) /\ Len(new) \in Nat
    BY <1>7, LenProperties
  <2>2. added \in [1..Len(new) -> TimerRow]
    BY <1>10, <2>1
  <2>. QED
    BY <2>1, <2>2
<1>12. /\ DOMAIN acted = Fields /\ acted.new = added /\ acted.changes = changes
       /\ acted.at = "flushed" /\ acted.row = row
       /\ acted.kind = work[s].kind /\ acted.sets = work[s].sets /\ acted.seen = work[s].seen
  BY <1>6 DEF Fields
<1>13. work' = [work EXCEPT ![s] = acted]
  BY <1>1
<1>. HIDE DEF added, changes, acted
<1>14. work'[s] = acted /\ \A o \in (Sessions \cup {Beat}) \ {s} : work'[o] = work[o]
  BY <1>13 DEF LifecycleInv, Shape
<1>15. Completes(acted) = Completes(w) /\ Changed(acted) = Changed(work[s])
  BY <1>6, <1>12 DEF Completes, Closes, Changed
<1>16. Shape'
  <2>1. DOMAIN work' = Sessions \cup {Beat}
    BY <1>13 DEF LifecycleInv, Shape
  <2>2. \A o \in Sessions \cup {Beat} :
          /\ DOMAIN work'[o] = Fields
          /\ work'[o].new \in Seq(TimerRow)
          /\ DOMAIN work'[o].changes \subseteq DOMAIN timers
    BY <1>9, <1>11, <1>12, <1>14 DEF LifecycleInv, Shape
  <2>. QED
    BY <1>2, <2>1, <2>2 DEF LifecycleInv, Shape
<1>17. BeatOK'
  BY <1>3, <1>14 DEF LifecycleInv, BeatOK
<1>18. OneLock'
  <2>1. \A o \in Sessions \ {s} : HasRowLock(o)' = HasRowLock(o)
    BY <1>14, SameWork
  <2>2. HasRowLock(s)' => \A o \in Sessions \ {s} : ~HasRowLock(o)
    BY <1>14, <1>15 DEF HasRowLock, Act
  <2>. QED
    BY <2>1, <2>2 DEF LifecycleInv, OneLock
<1>19. SessionOK(s)'
  BY <1>2, <1>4, <1>5, <1>12, <1>14, <1>15 DEF SessionOK
<1>20. Earns(s)'
  BY <1>2, <1>9, <1>10, <1>12, <1>14, <1>15 DEF Earns
<1>21. Fresh(s)'
  <2>1. added # <<>> => HasRowLock(s)'
    <3>1. ASSUME added # <<>> PROVE work[s].kind \in {"update", "priority"}
      <4>1. new # <<>>
        BY <1>10, <3>1 DEF added
      <4>. QED
        BY <1>6, <1>7, <4>1 DEF StartsTimers
    <3>. QED
      BY <3>1, <1>4, <1>12, <1>14, <1>15 DEF SessionOK, HasRowLock
  <2>2. /\ \A i, j \in Ids(added, Live) : added[i].type = added[j].type => i = j
        /\ \A i \in Ids(added, Live), j \in Ids(timers, Live) : added[i].type # timers[j].type
    BY <1>7, <1>10 DEF Ids
  <2>. QED
    BY <2>1, <2>2, <1>2, <1>12, <1>14 DEF Fresh, Ids
<1>22. \A o \in Sessions \ {s} : work'[o] = AtIdle \/ (SessionOK(o)' /\ Earns(o)' /\ Fresh(o)')
  BY <1>2, <1>4, <1>14, SameWork DEF LifecycleInv, SessionOK
<1>23. (OneClock /\ CompletedIsEarned)'
  BY <1>2 DEF LifecycleInv, OneClock, CompletedIsEarned, Ids
<1>. QED
  BY <1>16, <1>17, <1>18, <1>19, <1>20, <1>21, <1>22, <1>23 DEF LifecycleInv

(* Of two sessions only one has timers to add: where it has, the other's     *)
(* commit stops timers and starts none.                                      *)
LEMMA CommitKeeps ==
    ASSUME LifecycleInv, NEW s \in Sessions, Commit(s)
    PROVE  LifecycleInv'
<1>. DEFINE w == work[s]
<1>1. /\ w.at = "flushed"
      /\ conv' = Overwrite(conv, Changed(w))
      /\ timers' = Applied(w.changes) \o w.new
      /\ earned' = earned \cup (IF w.kind = "reply" THEN {"reply"} ELSE {})
                          \cup (IF Closes(w) THEN {"close"} ELSE {})
      /\ work' = [work EXCEPT ![s] = AtIdle]
      /\ clock' = clock
  BY DEF Commit
<1>2. w # AtIdle /\ s # Beat
  BY <1>1, LifecycleAssumption DEF AtIdle
<1>3. SessionOK(s) /\ Earns(s) /\ Fresh(s)
  BY <1>2 DEF LifecycleInv
<1>4. conv' \in ConvRow
  BY <1>1, <1>3, OverwriteTyped, ChangedTyped DEF SessionOK
<1>5. timers \in Seq(TimerRow) /\ w.new \in Seq(TimerRow) /\ DOMAIN w.changes \subseteq DOMAIN timers
  BY DEF LifecycleInv, Shape
<1>6. \A i \in DOMAIN w.changes : w.changes[i] = "COMPLETED" /\ timers[i].type \in Completes(w)
  BY <1>3 DEF Earns
<1>7. After(timers', w.changes, w.new)
  <2>1. Stops(w.changes)
    BY <1>5, <1>6 DEF Stops
  <2>. QED
    BY <1>1, <1>5, <2>1, AppliedTimers
<1>. USE DEF After
<1>8. work'[s] = AtIdle /\ \A o \in (Sessions \cup {Beat}) \ {s} : work'[o] = work[o]
  BY <1>1 DEF LifecycleInv, Shape
<1>9. \A i \in Ids(timers', Live) : i \in DOMAIN timers => i \in Ids(timers, Live)
  BY <1>6, <1>7 DEF Ids, Live
<1>10. Shape'
  <2>1. DOMAIN work' = Sessions \cup {Beat}
    BY <1>1 DEF LifecycleInv, Shape
  <2>2. DOMAIN AtIdle = Fields /\ AtIdle.new = <<>> /\ DOMAIN AtIdle.changes = {}
    BY DEF AtIdle, Fields, Nothing
  <2>3. <<>> \in Seq(TimerRow)
    OBVIOUS
  <2>4. \A o \in Sessions \cup {Beat} :
          /\ DOMAIN work'[o] = Fields
          /\ work'[o].new \in Seq(TimerRow)
          /\ DOMAIN work'[o].changes \subseteq DOMAIN timers'
    BY <1>7, <1>8, <2>2, <2>3 DEF LifecycleInv, Shape
  <2>5. conv' # NoRow
    BY <1>4, LifecycleAssumption DEF ConvRow
  <2>. QED
    BY <1>1, <1>4, <1>7, <2>1, <2>4, <2>5 DEF LifecycleInv, Shape
<1>11. BeatOK'
  BY <1>2, <1>8 DEF LifecycleInv, BeatOK
<1>12. OneLock'
  <2>1. ~HasRowLock(s)'
    BY <1>8 DEF HasRowLock, AtIdle
  <2>2. \A o \in Sessions \ {s} : HasRowLock(o)' = HasRowLock(o)
    BY <1>8, SameWork
  <2>. QED
    BY <2>1, <2>2 DEF LifecycleInv, OneLock
<1>13. ASSUME NEW o \in Sessions \ {s}, work[o] # AtIdle
       PROVE  SessionOK(o)' /\ Earns(o)' /\ Fresh(o)'
  <2>1. SessionOK(o) /\ Earns(o) /\ Fresh(o) /\ work'[o] = work[o] /\ DOMAIN work[o].changes \subseteq DOMAIN timers
    BY <1>8, <1>13 DEF LifecycleInv, Shape
  <2>2. SessionOK(o)'
    BY <1>4, <2>1, SameWork
  <2>3. Earns(o)'
    BY <1>7, <2>1 DEF Earns
  <2>4. Fresh(o)'
    <3>1. HasRowLock(o)' = HasRowLock(o)
      BY <2>1, SameWork
    <3>2. ASSUME NEW i \in Ids(work[o].new, Live), NEW j \in Ids(timers', Live)
          PROVE  work[o].new[i].type # timers'[j].type
      <4>1. HasRowLock(o)
        BY <2>1 DEF Fresh, Ids
      <4>2. w.new = <<>>
        BY <1>3, <4>1 DEF Fresh, LifecycleInv, OneLock
      <4>3. j \in DOMAIN timers
        BY <1>7, <4>2 DEF Ids
      <4>. QED
        BY <1>7, <1>9, <2>1, <4>3 DEF Fresh
    <3>. QED
      BY <2>1, <3>1, <3>2 DEF Fresh
  <2>. QED
    BY <2>2, <2>3, <2>4
<1>14. OneClock'
  <2>1. ASSUME NEW i \in Ids(timers', Live), NEW j \in Ids(timers', Live), timers'[i].type = timers'[j].type
        PROVE  i = j
    <3>1. CASE i \in DOMAIN timers /\ j \in DOMAIN timers
      BY <1>7, <1>9, <2>1, <3>1 DEF LifecycleInv, OneClock
    <3>2. \A k \in Ids(timers', Live) \ DOMAIN timers :
             /\ k - Len(timers) \in Ids(w.new, Live)
             /\ timers'[k].type = w.new[k - Len(timers)].type
      BY <1>7 DEF Ids
    <3>3. ASSUME NEW k \in Ids(timers', Live) \ DOMAIN timers, NEW l \in Ids(timers', Live) \cap DOMAIN timers
          PROVE  timers'[k].type # timers'[l].type
      BY <1>3, <1>7, <1>9, <3>2 DEF Fresh
    <3>4. CASE i \notin DOMAIN timers /\ j \notin DOMAIN timers
      <4>1. i - Len(timers) = j - Len(timers)
        BY <1>3, <2>1, <3>2, <3>4 DEF Fresh
      <4>2. i \in Nat /\ j \in Nat /\ Len(timers) \in Nat
        BY <1>5, <1>7, LenProperties DEF Ids
      <4>. QED
        BY <4>1, <4>2
    <3>. QED
      BY <2>1, <3>1, <3>3, <3>4
  <2>. QED
    BY <2>1 DEF OneClock
<1>15. CompletedIsEarned'
  <2>1. ASSUME NEW i \in DOMAIN timers', timers'[i].status = "COMPLETED"
        PROVE  (IF timers'[i].type = "FIRST_RESPONSE" THEN "reply" ELSE "close") \in earned'
    <3>1. CASE timers'[i].type \in Completes(w)
      <4>1. \/ w.kind = "reply" /\ timers'[i].type = "FIRST_RESPONSE"
            \/ Closes(w) /\ timers'[i].type = "RESOLUTION"
        BY <3>1 DEF Completes
      <4>. QED
        BY <1>1, <4>1
    <3>2. CASE timers'[i].type \notin Completes(w)
      <4>1. i \in DOMAIN timers
        BY <1>3, <1>7, <2>1, <3>2 DEF Earns
      <4>2. timers[i].status = "COMPLETED" /\ timers[i].type = timers'[i].type
        BY <1>6, <1>7, <2>1, <3>2, <4>1
      <4>3. (IF timers[i].type = "FIRST_RESPONSE" THEN "reply" ELSE "close") \in earned
        BY <4>1, <4>2 DEF LifecycleInv, CompletedIsEarned
      <4>. QED
        BY <1>1, <4>2, <4>3
    <3>. QED
      BY <3>1, <3>2
  <2>. QED
    BY <2>1 DEF CompletedIsEarned
<1>. QED
  BY <1>8, <1>10, <1>11, <1>12, <1>13, <1>14, <1>15 DEF LifecycleInv

-----------------------------------------------------------------------------
(* The creation, the beat, failures and the clock *)

LEMMA CreateKeeps ==
    ASSUME LifecycleInv, Create
    PROVE  LifecycleInv'
<1>. PICK priority \in Priorities : \E new \in Starts(priority) :
         conv' = [status |-> "OPEN", priority |-> priority] /\ timers' = new
  BY DEF Create
<1>1. PICK new \in Starts(priority) :
         conv' = [status |-> "OPEN", priority |-> priority] /\ timers' = new
  OBVIOUS
<1>2. conv = NoRow /\ UNCHANGED <<clock, work, ops, failures, earned>>
  BY DEF Create
<1>3. \A s \in Sessions : work[s] = AtIdle
  <2>1. conv \notin ConvRow
    BY <1>2, LifecycleAssumption DEF ConvRow
  <2>. QED
    BY <2>1 DEF LifecycleInv, SessionOK
<1>4. conv' \in ConvRow
  BY <1>1 DEF ConvRow, Statuses
<1>5. /\ new \in Seq(TimerRow)
      /\ \A i \in DOMAIN new : new[i].status = "RUNNING"
      /\ \A i, j \in DOMAIN new : new[i].type = new[j].type => i = j
  BY NewTimers DEF LifecycleInv, Shape
<1>6. timers = <<>> /\ DOMAIN timers = {}
  BY <1>2 DEF LifecycleInv, Shape
<1>7. Shape'
  <2>1. conv' # NoRow
    BY <1>4, LifecycleAssumption DEF ConvRow
  <2>. QED
    BY <1>1, <1>2, <1>4, <1>5, <1>6, <2>1 DEF LifecycleInv, Shape
<1>8. BeatOK' /\ OneLock' /\ \A s \in Sessions : work'[s] = AtIdle
  BY <1>2, <1>3 DEF LifecycleInv, BeatOK, OneLock, HasRowLock
<1>9. OneClock' /\ CompletedIsEarned'
  BY <1>1, <1>5 DEF OneClock, CompletedIsEarned, Ids
<1>. QED
  BY <1>7, <1>8, <1>9 DEF LifecycleInv

(* Other sessions keep what they know where the conversation and its timers  *)
(* stay.                                                                     *)
LEMMA OtherKeeps ==
    ASSUME LifecycleInv, UNCHANGED <<clock, conv, timers, earned>>,
           NEW s \in Sessions \cup {Beat}, NEW w, work' = [work EXCEPT ![s] = w],
           DOMAIN w = Fields, w.new = <<>>, DOMAIN w.changes \subseteq DOMAIN timers,
           s \in Sessions => w = AtIdle,
           s = Beat => \A i \in DOMAIN w.changes : w.changes[i] = "BREACHED"
    PROVE  LifecycleInv'
<1>1. work'[s] = w /\ \A o \in (Sessions \cup {Beat}) \ {s} : work'[o] = work[o]
  BY DEF LifecycleInv, Shape
<1>2. Shape'
  <2>1. DOMAIN work' = Sessions \cup {Beat}
    BY DEF LifecycleInv, Shape
  <2>2. <<>> \in Seq(TimerRow)
    OBVIOUS
  <2>. QED
    BY <1>1, <2>1, <2>2 DEF LifecycleInv, Shape
<1>3. BeatOK'
  BY <1>1 DEF LifecycleInv, BeatOK
<1>4. OneLock'
  <2>1. s \in Sessions => ~HasRowLock(s)'
    BY <1>1 DEF HasRowLock, AtIdle
  <2>2. \A o \in Sessions \ {s} : HasRowLock(o)' = HasRowLock(o)
    BY <1>1, SameWork
  <2>. QED
    BY <2>1, <2>2 DEF LifecycleInv, OneLock
<1>5. \A o \in Sessions \ {s} : work'[o] = AtIdle \/ (SessionOK(o)' /\ Earns(o)' /\ Fresh(o)')
  BY <1>1, SameWork DEF LifecycleInv, SessionOK
<1>6. (OneClock /\ CompletedIsEarned)'
  BY DEF LifecycleInv, OneClock, CompletedIsEarned, Ids
<1>. QED
  BY <1>1, <1>2, <1>3, <1>4, <1>5, <1>6 DEF LifecycleInv

LEMMA IdleShape == DOMAIN AtIdle = Fields /\ AtIdle.new = <<>> /\ DOMAIN AtIdle.changes = {}
BY DEF AtIdle, Fields, Nothing

LEMMA ScanKeeps ==
    ASSUME LifecycleInv, Scan
    PROVE  LifecycleInv'
<1>. DEFINE w == [AtIdle EXCEPT !.at = "flushed", !.changes = [i \in Overdue |-> "BREACHED"]]
<1>1. work' = [work EXCEPT ![Beat] = w] /\ UNCHANGED <<clock, conv, timers, earned>>
  BY DEF Scan
<1>2. /\ DOMAIN w = Fields /\ w.new = <<>>
      /\ DOMAIN w.changes = Overdue /\ \A i \in Overdue : w.changes[i] = "BREACHED"
  BY DEF AtIdle, Fields
<1>3. Overdue \subseteq DOMAIN timers
  BY DEF Overdue, Ids
<1>. HIDE DEF w
<1>. QED
  BY <1>1, <1>2, <1>3, OtherKeeps, LifecycleAssumption

LEMMA FailKeeps ==
    ASSUME LifecycleInv, NEW s \in Sessions \cup {Beat}, Fail(s)
    PROVE  LifecycleInv'
BY IdleShape, OtherKeeps DEF Fail

(* A scan breaches timers and completes none. *)
LEMMA CommitScanKeeps ==
    ASSUME LifecycleInv, CommitScan
    PROVE  LifecycleInv'
<1>. DEFINE changes == work[Beat].changes
<1>1. /\ timers' = Applied(changes) /\ work' = [work EXCEPT ![Beat] = AtIdle]
      /\ UNCHANGED <<clock, conv, ops, failures, earned>>
  BY DEF CommitScan
<1>2. /\ DOMAIN changes \subseteq DOMAIN timers
      /\ \A i \in DOMAIN changes : changes[i] = "BREACHED"
      /\ timers \in Seq(TimerRow)
  BY DEF LifecycleInv, Shape, BeatOK
<1>. HIDE DEF changes
<1>3. /\ timers' \in Seq(TimerRow) /\ DOMAIN timers' = DOMAIN timers
      /\ \A i \in DOMAIN timers :
            /\ timers'[i].type = timers[i].type
            /\ timers'[i].status = IF i \in DOMAIN changes THEN changes[i] ELSE timers[i].status
  <2>1. <<>> \in Seq(TimerRow) /\ DOMAIN <<>> = {}
    OBVIOUS
  <2>2. DOMAIN timers' = DOMAIN timers /\ DOMAIN timers = 1..Len(timers) /\ Len(timers) \in Nat
    BY <1>1, <1>2, LenProperties DEF Applied
  <2>3. After(Applied(changes) \o <<>>, changes, <<>>)
    <3>1. Stops(changes)
      BY <1>2 DEF Stops
    <3>. QED
      BY <1>2, <2>1, <3>1, AppliedTimers
  <2>4. Applied(changes) \o <<>> = Applied(changes)
    <3>1. Applied(changes) \in Seq(UNION {{Applied(changes)[i]} : i \in DOMAIN timers})
      BY <2>2 DEF Applied
    <3>. QED
      BY <3>1, ConcatEmptySeq
  <2>. QED
    BY <1>1, <2>2, <2>3, <2>4 DEF After
<1>4. work'[Beat] = AtIdle /\ \A o \in Sessions : work'[o] = work[o]
  BY <1>1, LifecycleAssumption DEF LifecycleInv, Shape
<1>5. Ids(timers', Live) \subseteq Ids(timers, Live)
  BY <1>2, <1>3 DEF Ids, Live
<1>6. Shape'
  <2>1. DOMAIN work' = Sessions \cup {Beat}
    BY <1>1 DEF LifecycleInv, Shape
  <2>2. <<>> \in Seq(TimerRow)
    OBVIOUS
  <2>3. conv = NoRow => timers' = <<>>
    <3>1. ASSUME conv = NoRow PROVE DOMAIN timers' = {}
      BY <1>3, <3>1 DEF LifecycleInv, Shape
    <3>. QED
      BY <1>3, <3>1, LenProperties, EmptySeq
  <2>. QED
    BY <1>1, <1>3, <1>4, <2>1, <2>2, <2>3, IdleShape DEF LifecycleInv, Shape
<1>7. BeatOK'
  BY <1>4, IdleShape DEF BeatOK
<1>8. OneLock'
  BY <1>4, SameWork DEF LifecycleInv, OneLock
<1>9. ASSUME NEW o \in Sessions, work[o] # AtIdle
      PROVE  SessionOK(o)' /\ Earns(o)' /\ Fresh(o)'
  <2>1. SessionOK(o) /\ Earns(o) /\ Fresh(o) /\ work'[o] = work[o] /\ DOMAIN work[o].changes \subseteq DOMAIN timers
    BY <1>4, <1>9 DEF LifecycleInv, Shape
  <2>2. SessionOK(o)'
    BY <1>1, <2>1, SameWork DEF SessionOK
  <2>3. Earns(o)'
    BY <1>3, <2>1 DEF Earns
  <2>4. Fresh(o)'
    <3>1. HasRowLock(o)' = HasRowLock(o)
      BY <2>1, SameWork
    <3>2. \A j \in Ids(timers', Live) : j \in Ids(timers, Live) /\ timers'[j].type = timers[j].type
      BY <1>3, <1>5 DEF Ids
    <3>. QED
      BY <2>1, <3>1, <3>2 DEF Fresh
  <2>. QED
    BY <2>2, <2>3, <2>4
<1>10. OneClock'
  <2>1. \A j \in Ids(timers', Live) : j \in Ids(timers, Live) /\ timers'[j].type = timers[j].type
    BY <1>3, <1>5 DEF Ids
  <2>. QED
    BY <2>1 DEF LifecycleInv, OneClock
<1>11. CompletedIsEarned'
  BY <1>1, <1>2, <1>3 DEF LifecycleInv, CompletedIsEarned
<1>. QED
  BY <1>4, <1>6, <1>7, <1>8, <1>9, <1>10, <1>11 DEF LifecycleInv

LEMMA TickKeeps ==
    ASSUME LifecycleInv, Tick
    PROVE  LifecycleInv'
<1>1. clock' \in 0..Horizon
  BY LifecycleAssumption DEF Tick, LifecycleInv, Shape
<1>2. UNCHANGED <<conv, timers, work, earned>>
  BY DEF Tick
<1>3. Shape' /\ BeatOK' /\ OneLock'
  BY <1>1, <1>2 DEF LifecycleInv, Shape, BeatOK, OneLock, HasRowLock
<1>4. \A s \in Sessions : work'[s] = AtIdle \/ (SessionOK(s)' /\ Earns(s)' /\ Fresh(s)')
  BY <1>2, SameWork DEF LifecycleInv, SessionOK
<1>5. (OneClock /\ CompletedIsEarned)'
  BY <1>2 DEF LifecycleInv, OneClock, CompletedIsEarned, Ids
<1>. QED
  BY <1>2, <1>3, <1>4, <1>5 DEF LifecycleInv

-----------------------------------------------------------------------------
(* The inductive invariant holds in every state. *)
THEOREM LifecycleHolds == Spec => []LifecycleInv
<1>1. Init => LifecycleInv
  BY InitInv
<1>2. LifecycleInv /\ [Next]_vars => LifecycleInv'
  <2>. SUFFICES ASSUME LifecycleInv, [Next]_vars PROVE LifecycleInv'
    OBVIOUS
  <2>1. ASSUME NEW s \in Sessions, Begin(s) \/ Proceed(s) PROVE LifecycleInv'
    BY <2>1, BeginKeeps, ActKeeps, CommitKeeps DEF Proceed
  <2>2. ASSUME NEW s \in Sessions \cup {Beat}, Fail(s) PROVE LifecycleInv'
    BY <2>2, FailKeeps
  <2>3. CASE Create \/ Scan \/ CommitScan \/ Tick
    BY <2>3, CreateKeeps, ScanKeeps, CommitScanKeeps, TickKeeps
  <2>4. CASE UNCHANGED vars
    <3>1. UNCHANGED <<clock, conv, timers, work, earned>>
      BY <2>4 DEF vars
    <3>2. Shape' /\ BeatOK' /\ OneLock'
      BY <3>1 DEF LifecycleInv, Shape, BeatOK, OneLock, HasRowLock
    <3>3. \A s \in Sessions : work'[s] = AtIdle \/ (SessionOK(s)' /\ Earns(s)' /\ Fresh(s)')
      BY <3>1, SameWork DEF LifecycleInv, SessionOK
    <3>4. (OneClock /\ CompletedIsEarned)'
      BY <3>1 DEF LifecycleInv, OneClock, CompletedIsEarned, Ids
    <3>. QED
      BY <3>1, <3>2, <3>3, <3>4 DEF LifecycleInv
  <2>. QED
    BY <2>1, <2>2, <2>3, <2>4 DEF Next
<1>. QED
  BY <1>1, <1>2, PTL DEF Spec

(* For any policies and any number of sessions that update, answer and       *)
(* reprioritise the conversation (start_timers_for_conversation), it has one *)
(* live timer of each type at most.                                          *)
THEOREM OneClockHolds == Spec => []OneClock
<1>1. LifecycleInv => OneClock
  BY DEF LifecycleInv
<1>. QED
  BY <1>1, LifecycleHolds, PTL

(* A first response is completed only by an agent's committed answer and a   *)
(* resolution only by a committed close, whatever else commits in between.   *)
THEOREM CompletedIsEarnedHolds == Spec => []CompletedIsEarned
<1>1. LifecycleInv => CompletedIsEarned
  BY DEF LifecycleInv
<1>. QED
  BY <1>1, LifecycleHolds, PTL

-----------------------------------------------------------------------------
(* The business hours *)

(* An instant lies in its day, and in no other. *)
LEMMA DayHolds ==
    ASSUME NEW t \in Nat
    PROVE  /\ DayOf(t) \in Nat /\ Midnight(DayOf(t)) \in Nat
           /\ Midnight(DayOf(t)) <= t /\ t < Midnight(DayOf(t)) + Day
<1>1. Day \in Nat /\ Day > 0
  BY HoursAssumption
<1>2. t \div Day \in Nat /\ t % Day \in 0..(Day - 1) /\ t = Day * (t \div Day) + (t % Day)
  BY <1>1
<1>. QED
  BY <1>1, <1>2 DEF DayOf, Midnight

LEMMA Midnights ==
    ASSUME NEW d \in Nat, NEW e \in Nat
    PROVE  /\ Midnight(d) \in Nat
           /\ Midnight(d + 1) = Midnight(d) + Day
           /\ d < e => Midnight(d) + Day <= Midnight(e)
<1>1. Day \in Nat /\ Day > 0
  BY HoursAssumption
<1>2. Midnight(d) \in Nat /\ Midnight(e) \in Nat
  BY <1>1 DEF Midnight
<1>3. Midnight(d + 1) = Midnight(d) + Day
  BY <1>1 DEF Midnight
<1>4. ASSUME d < e PROVE Midnight(d) + Day <= Midnight(e)
  <2>1. PICK k \in Nat : e = (d + 1) + k
    <3>1. e - (d + 1) \in Nat /\ e = (d + 1) + (e - (d + 1))
      BY <1>4
    <3>. QED
      BY <3>1
  <2>2. e * Day = (d + 1) * Day + k * Day /\ k * Day \in Nat
    BY <1>1, <2>1
  <2>. QED
    BY <1>1, <1>2, <1>3, <2>2 DEF Midnight
<1>. QED
  BY <1>2, <1>3, <1>4

LEMMA DayIs ==
    ASSUME NEW t \in Nat, NEW d \in Nat, Midnight(d) <= t, t < Midnight(d) + Day
    PROVE  DayOf(t) = d
<1>1. /\ DayOf(t) \in Nat /\ Midnight(DayOf(t)) \in Nat
      /\ Midnight(DayOf(t)) <= t /\ t < Midnight(DayOf(t)) + Day
  BY DayHolds
<1>2. /\ Midnight(d) \in Nat
      /\ d < DayOf(t) => Midnight(d) + Day <= Midnight(DayOf(t))
      /\ DayOf(t) < d => Midnight(DayOf(t)) + Day <= Midnight(d)
  BY <1>1, Midnights
<1>3. Day \in Nat
  BY HoursAssumption
<1>. QED
  BY <1>1, <1>2, <1>3

LEMMA NextDay ==
    ASSUME NEW t \in Nat
    PROVE  /\ DayOf(t) \in Nat /\ Midnight(DayOf(t)) \in Nat
           /\ Midnight(DayOf(t)) <= t /\ t < Midnight(DayOf(t) + 1)
           /\ Midnight(DayOf(t) + 1) = Midnight(DayOf(t)) + Day
           /\ Midnight(DayOf(t) + 1) \in Nat /\ Day \in Nat
<1>1. DayOf(t) \in Nat /\ DayOf(t) + 1 \in Nat
  BY DayHolds
<1>2. Day \in Nat
  BY HoursAssumption
<1>. QED
  BY <1>1, <1>2, DayHolds, Midnights

(* A day's hours lie in the day, and are whole minutes long. *)
LEMMA HoursInDay ==
    ASSUME NEW d \in Nat
    PROVE  /\ HasRow(d) /\ Row(d).open # NoTime =>
                 OpensAt(d) \in Nat /\ Midnight(d) <= OpensAt(d) /\ OpensAt(d) < Midnight(d) + Day
           /\ HasRow(d) /\ Row(d).close # NoTime =>
                 ClosesAt(d) \in Nat /\ Midnight(d) <= ClosesAt(d) /\ ClosesAt(d) < Midnight(d) + Day
<1>1. Midnight(d) \in Nat /\ Day \in Nat
  BY Midnights, HoursAssumption
<1>2. ASSUME HasRow(d), Row(d).open # NoTime PROVE Row(d).open \in 0..(Day - 1)
  BY <1>2, HoursAssumption DEF HasRow, Row
<1>3. ASSUME HasRow(d), Row(d).close # NoTime PROVE Row(d).close \in 0..(Day - 1)
  BY <1>3, HoursAssumption DEF HasRow, Row
<1>. QED
  BY <1>1, <1>2, <1>3 DEF OpensAt, ClosesAt

(* Is it open at an instant of the day?  The hours of the day tell. *)
LEMMA OpenInDay ==
    ASSUME NEW t \in Nat, NEW d \in Nat, Midnight(d) <= t, t < Midnight(d) + Day
    PROVE  IsOpen(t) <=> Working(d) /\ OpensAt(d) <= t /\ t < ClosesAt(d)
BY DayIs DEF IsOpen

LEMMA NoneOpen ==
    ASSUME NEW a \in Nat, NEW b \in Nat, \A t \in a..(b - 1) : ~IsOpen(t)
    PROVE  OpenUnits(a, b) = 0
<1>1. {t \in a..b - 1 : IsOpen(t)} = {}
  OBVIOUS
<1>. QED
  BY <1>1, FS_EmptySet DEF OpenUnits

LEMMA AllOpen ==
    ASSUME NEW a \in Nat, NEW b \in Nat, a <= b, \A t \in a..(b - 1) : IsOpen(t)
    PROVE  OpenUnits(a, b) = b - a
<1>1. {t \in a..b - 1 : IsOpen(t)} = a..(b - 1)
  OBVIOUS
<1>2. Cardinality(a..(b - 1)) = IF a > b - 1 THEN 0 ELSE (b - 1) - a + 1
  BY FS_Interval
<1>3. OpenUnits(a, b) = Cardinality(a..(b - 1))
  BY <1>1 DEF OpenUnits
<1>. QED
  BY <1>2, <1>3

LEMMA OpenAdds ==
    ASSUME NEW a \in Nat, NEW b \in Nat, NEW c \in Nat, a <= b, b <= c
    PROVE  /\ OpenUnits(a, b) \in Nat /\ OpenUnits(b, c) \in Nat
           /\ OpenUnits(a, c) = OpenUnits(a, b) + OpenUnits(b, c)
<1>. DEFINE Open(x, y) == {t \in x..y - 1 : IsOpen(t)}
<1>1. ASSUME NEW x \in Nat, NEW y \in Nat
      PROVE  IsFiniteSet(Open(x, y)) /\ Cardinality(Open(x, y)) \in Nat
  <2>1. IsFiniteSet(x..(y - 1)) /\ Open(x, y) \subseteq x..(y - 1)
    BY FS_Interval
  <2>. QED
    BY <2>1, FS_Subset, FS_CardinalityType
<1>2. Open(a, c) = Open(a, b) \cup Open(b, c) /\ Open(a, b) \cap Open(b, c) = {}
  OBVIOUS
<1>3. Cardinality(Open(a, b) \cup Open(b, c))
        = Cardinality(Open(a, b)) + Cardinality(Open(b, c)) - Cardinality({})
  BY <1>1, <1>2, FS_Union
<1>4. Cardinality({}) = 0
  BY FS_EmptySet
<1>5. \A x, y : OpenUnits(x, y) = Cardinality(Open(x, y))
  BY DEF OpenUnits
<1>. HIDE DEF Open
<1>6. Cardinality(Open(a, c)) = Cardinality(Open(a, b)) + Cardinality(Open(b, c)) - 0
  BY <1>2, <1>3, <1>4
<1>7. Cardinality(Open(a, b)) \in Nat /\ Cardinality(Open(b, c)) \in Nat
  BY <1>1
<1>. QED
  BY <1>5, <1>6, <1>7

(* next_open_time is the first open instant, if no day closes before it opens. *)
LEMMA NextOpenIs == ASSUME clock \in Nat, OpensBeforeCloses PROVE NextOpenIsFirst
<1>. DEFINE days == {day \in DayOf(clock)..DayOf(clock) + Lookahead - 1 : Answers(day, clock)}
            first == Min(days)
            next == NextOpen(clock)
<1>. SUFFICES ASSUME next # NoTime, Row(DayOf(next)).close # NoTime
              PROVE  next >= clock /\ IsOpen(next) /\ OpenUnits(clock, next) = 0
  BY DEF NextOpenIsFirst
<1>1. /\ DayOf(clock) \in Nat /\ Midnight(DayOf(clock)) \in Nat /\ Midnight(DayOf(clock)) <= clock
      /\ clock < Midnight(DayOf(clock)) + Day
      /\ Day \in Nat /\ Day > 0 /\ Lookahead \in Nat
  BY DayHolds, HoursAssumption
<1>2. days # {} /\ next = IF OpensAt(first) <= clock THEN clock ELSE OpensAt(first)
  BY DEF NextOpen
<1>3. days \subseteq Nat
  BY <1>1
<1>4. first \in days /\ \A day \in days : first <= day
  <2>1. PICK n \in days : \A m \in days : ~(<<m, n>> \in OpToRel(<, Nat))
    <3>. HIDE DEF days
    <3>. QED
      BY <1>2, <1>3, WFMin, NatLessThanWellFounded
  <2>2. \A m \in days : n <= m
    <3>1. \A m \in days : m \in Nat /\ n \in Nat
      BY <1>3
    <3>. HIDE DEF days
    <3>2. \A m \in days : ~(m < n)
      BY <2>1, <3>1 DEF OpToRel
    <3>. QED
      BY <3>1, <3>2
  <2>. QED
    BY <2>2 DEF Min
<1>5. /\ first \in Nat /\ first >= DayOf(clock)
      /\ ~Holiday(first) /\ HasRow(first) /\ ~Row(first).closed /\ Row(first).open # NoTime
      /\ OpensAt(first) <= clock => Row(first).close # NoTime /\ clock < ClosesAt(first)
  BY <1>1, <1>4 DEF Answers
<1>6. /\ OpensAt(first) \in Nat /\ Midnight(first) <= OpensAt(first)
      /\ OpensAt(first) < Midnight(first) + Day /\ Midnight(first) \in Nat
  BY <1>5, HoursInDay, Midnights
<1>7. first > DayOf(clock) => Midnight(DayOf(clock)) + Day <= Midnight(first)
  BY <1>1, <1>5, Midnights
<1>8. CASE OpensAt(first) <= clock
  <2>1. first = DayOf(clock)
    BY <1>1, <1>5, <1>6, <1>7, <1>8
  <2>2. next = clock
    BY <1>2, <1>8
  <2>3. IsOpen(clock)
    BY <1>5, <1>8, <2>1 DEF IsOpen, Working
  <2>4. OpenUnits(clock, clock) = 0
    BY NoneOpen
  <2>. QED
    BY <2>2, <2>3, <2>4
<1>9. CASE ~(OpensAt(first) <= clock)
  <2>1. next = OpensAt(first) /\ DayOf(next) = first
    BY <1>2, <1>5, <1>6, <1>9, DayIs
  <2>2. Working(first)
    BY <1>5, <2>1 DEF Working
  <2>3. OpensAt(first) < ClosesAt(first)
    <3>1. Row(first).open < Row(first).close
      BY <2>2 DEF OpensBeforeCloses, Working, Row, HasRow
    <3>2. Row(first).open \in 0..(Day - 1) /\ Row(first).close \in 0..(Day - 1)
      BY <2>2, HoursAssumption DEF Working, Row, HasRow
    <3>. QED
      BY <1>1, <1>6, <3>1, <3>2 DEF OpensAt, ClosesAt
  <2>4. IsOpen(next)
    BY <1>6, <2>1, <2>2, <2>3 DEF IsOpen
  <2>5. ASSUME NEW t \in clock..(next - 1) PROVE ~IsOpen(t)
    <3>. SUFFICES ASSUME IsOpen(t) PROVE FALSE
      OBVIOUS
    <3>. DEFINE d == DayOf(t)
    <3>1. t \in Nat /\ clock <= t /\ t < OpensAt(first)
      BY <1>6, <2>1
    <3>2. /\ d \in Nat /\ Midnight(d) \in Nat /\ Midnight(d) <= t /\ t < Midnight(d) + Day
      BY <3>1, DayHolds
    <3>3. Working(d) /\ OpensAt(d) <= t /\ t < ClosesAt(d)
      BY DEF IsOpen
    <3>4. OpensAt(d) \in Nat /\ ClosesAt(d) \in Nat
      BY <3>2, <3>3, HoursInDay DEF Working
    <3>5. Answers(d, clock)
      BY <3>1, <3>3, <3>4 DEF Answers, Working
    <3>6. DayOf(clock) <= d /\ d <= first
      <4>1. /\ d < DayOf(clock) => Midnight(d) + Day <= Midnight(DayOf(clock))
            /\ first < d => Midnight(first) + Day <= Midnight(d)
        BY <1>1, <1>5, <3>2, Midnights
      <4>. QED
        BY <1>1, <1>5, <1>6, <3>1, <3>2, <4>1
    <3>7. d \in days
      <4>1. first \in DayOf(clock)..DayOf(clock) + Lookahead - 1
        BY <1>4
      <4>. QED
        BY <1>1, <1>5, <3>2, <3>5, <3>6, <4>1
    <3>8. d = first
      BY <1>4, <1>5, <3>2, <3>6, <3>7
    <3>. QED
      BY <1>6, <3>1, <3>3, <3>8
  <2>6. OpenUnits(clock, next) = 0
    BY <1>6, <2>1, <2>5, NoneOpen
  <2>. QED
    BY <1>6, <1>9, <2>1, <2>4, <2>6
<1>. QED
  BY <1>8, <1>9

LEMMA NextCloseIs == ASSUME clock \in Nat PROVE NextCloseIsFirst
<1>. DEFINE d == DayOf(clock)
            next == NextClose(clock)
<1>. SUFFICES ASSUME next # NoTime PROVE ~IsOpen(next) /\ OpenUnits(clock, next) = next - clock
  BY DEF NextCloseIsFirst
<1>1. IsOpen(clock) /\ next = ClosesAt(d)
  BY DEF NextClose
<1>2. Working(d) /\ OpensAt(d) <= clock /\ clock < ClosesAt(d)
  BY <1>1 DEF IsOpen
<1>3. d \in Nat /\ Midnight(d) \in Nat /\ Midnight(d) <= clock /\ Day \in Nat
  BY DayHolds, HoursAssumption
<1>4. ClosesAt(d) \in Nat /\ ClosesAt(d) < Midnight(d) + Day /\ OpensAt(d) \in Nat
  BY <1>2, <1>3, HoursInDay DEF Working
<1>5. ~IsOpen(next)
  <2>1. IsOpen(next) => next < ClosesAt(d)
    BY <1>1, <1>2, <1>3, <1>4, OpenInDay
  <2>. QED
    BY <1>1, <1>4, <2>1
<1>6. ASSUME NEW t \in clock..(next - 1) PROVE IsOpen(t)
  <2>1. t \in Nat /\ Midnight(d) <= t /\ t < Midnight(d) + Day /\ OpensAt(d) <= t /\ t < ClosesAt(d)
    BY <1>1, <1>2, <1>3, <1>4
  <2>. QED
    BY <1>2, <1>3, <2>1, OpenInDay
<1>7. OpenUnits(clock, next) = next - clock
  BY <1>1, <1>2, <1>4, <1>6, AllOpen
<1>. QED
  BY <1>5, <1>7

-----------------------------------------------------------------------------
(* The walk of add_business_minutes *)

LEMMA Products ==
    ASSUME NEW a \in Nat, NEW b \in Nat, NEW k \in Nat \ {0}
    PROVE  /\ a * k \in Nat
           /\ a <= b => a * k <= b * k
           /\ a < b => a * k + k <= b * k
           /\ (a + b) * k = a * k + b * k
<1>1. a * k \in Nat /\ b * k \in Nat /\ (a + b) * k = a * k + b * k
  OBVIOUS
<1>2. ASSUME a < b PROVE a * k + k <= b * k
  <2>1. PICK c \in Nat : b = (a + 1) + c
    <3>1. b - (a + 1) \in Nat /\ b = (a + 1) + (b - (a + 1))
      BY <1>2
    <3>. QED
      BY <3>1
  <2>2. b * k = (a + 1) * k + c * k /\ c * k \in Nat /\ (a + 1) * k = a * k + k
    BY <2>1
  <2>. QED
    BY <1>1, <2>2
<1>. QED
  BY <1>1, <1>2

LEMMA Quotients ==
    ASSUME NEW a \in Nat, NEW k \in Nat \ {0}
    PROVE  /\ a \div k \in Nat /\ a % k \in 0..(k - 1)
           /\ a = (a \div k) * k + (a % k)
OBVIOUS

(* What is whole minutes long has no rest. *)
LEMMA WholeMinutes ==
    ASSUME NEW a \in Nat, NEW b \in Nat, a % Minute = 0, b % Minute = 0, a <= b
    PROVE  ((b - a) \div Minute) * Minute = b - a
<1>. DEFINE i == a \div Minute
            j == b \div Minute
            q == (b - a) \div Minute
            r == (b - a) % Minute
<1>1. Minute \in Nat \ {0} /\ b - a \in Nat
  BY HoursAssumption
<1>2. /\ i \in Nat /\ a = i * Minute /\ j \in Nat /\ b = j * Minute
      /\ q \in Nat /\ r \in 0..(Minute - 1) /\ b - a = q * Minute + r
  <2>1. a = i * Minute + (a % Minute) /\ b = j * Minute + (b % Minute)
    BY <1>1, Quotients
  <2>. QED
    BY <1>1, <2>1, Quotients, Products
<1>. HIDE DEF i, j, q, r
<1>3. (i + q) * Minute = i * Minute + q * Minute
  BY <1>1, <1>2, Products
<1>4. /\ i + q < j => (i + q) * Minute + Minute <= j * Minute
      /\ j < i + q => j * Minute + Minute <= (i + q) * Minute
  BY <1>1, <1>2, Products
<1>5. j * Minute = (i + q) * Minute + r
  BY <1>1, <1>2, <1>3, Products
<1>6. (i + q) * Minute \in Nat
  BY <1>1, <1>2, Products
<1>7. r = 0
  BY <1>1, <1>2, <1>4, <1>5, <1>6
<1>8. b - a = q * Minute
  BY <1>1, <1>2, <1>7, Products
<1>. QED
  BY <1>8 DEF q

(* The open time between an instant and a later one of its day. *)
From(at) == IF at < OpensAt(DayOf(at)) THEN OpensAt(DayOf(at)) ELSE at
LEMMA OpenToday ==
    ASSUME NEW at \in Nat, Working(DayOf(at))
    PROVE  /\ From(at) \in Nat /\ ClosesAt(DayOf(at)) \in Nat /\ at <= From(at)
           /\ ClosesAt(DayOf(at)) < Midnight(DayOf(at) + 1)
           /\ \A b \in Nat : From(at) <= b /\ b <= ClosesAt(DayOf(at)) => OpenUnits(at, b) = b - From(at)
           /\ From(at) <= ClosesAt(DayOf(at)) =>
                 OpenUnits(at, Midnight(DayOf(at) + 1)) = ClosesAt(DayOf(at)) - From(at)
<1>. DEFINE d == DayOf(at)
            next == Midnight(d + 1)
            opens == OpensAt(d)
            closes == ClosesAt(d)
            from == From(at)
<1>1. /\ d \in Nat /\ Midnight(d) \in Nat /\ Midnight(d) <= at /\ at < next
      /\ next = Midnight(d) + Day /\ next \in Nat /\ Day \in Nat
  BY NextDay
<1>2. /\ opens \in Nat /\ Midnight(d) <= opens /\ opens < next
      /\ closes \in Nat /\ Midnight(d) <= closes /\ closes < next
  BY <1>1, HoursInDay DEF Working
<1>3. from = IF at < opens THEN opens ELSE at
  BY DEF From
<1>4. \A t \in Nat : Midnight(d) <= t /\ t < next => (IsOpen(t) <=> opens <= t /\ t < closes)
  BY <1>1, OpenInDay
<1>. HIDE DEF d, next, opens, closes, from
<1>5. from \in Nat /\ at <= from /\ opens <= from
  BY <1>2, <1>3
<1>6. ASSUME NEW b \in Nat, from <= b, b <= closes PROVE OpenUnits(at, b) = b - from
  <2>1. OpenUnits(at, from) = 0
    <3>1. \A t \in at..(from - 1) : ~IsOpen(t)
      BY <1>1, <1>2, <1>3, <1>4
    <3>. QED
      BY <1>5, <3>1, NoneOpen
  <2>2. OpenUnits(from, b) = b - from
    <3>1. \A t \in from..(b - 1) : IsOpen(t)
      BY <1>1, <1>2, <1>4, <1>5, <1>6
    <3>. QED
      BY <1>5, <1>6, <3>1, AllOpen
  <2>3. OpenUnits(at, b) = OpenUnits(at, from) + OpenUnits(from, b)
    BY <1>5, <1>6, OpenAdds
  <2>. QED
    BY <1>5, <1>6, <2>1, <2>2, <2>3
<1>7. ASSUME from <= closes PROVE OpenUnits(at, next) = closes - from
  <2>1. OpenUnits(closes, next) = 0
    <3>1. \A t \in closes..(next - 1) : ~IsOpen(t)
      BY <1>1, <1>2, <1>4
    <3>. QED
      BY <1>1, <1>2, <3>1, NoneOpen
  <2>2. OpenUnits(at, closes) = closes - from
    BY <1>2, <1>6, <1>7
  <2>3. OpenUnits(at, next) = OpenUnits(at, closes) + OpenUnits(closes, next)
    <3>1. at <= closes /\ closes <= next
      BY <1>1, <1>2, <1>5, <1>7
    <3>. QED
      BY <1>1, <1>2, <3>1, OpenAdds
  <2>. QED
    BY <1>2, <1>5, <1>7, <2>1, <2>2, <2>3
<1>. QED
  BY <1>2, <1>5, <1>6, <1>7 DEF d, next, opens, closes, from

LEMMA ShutToday ==
    ASSUME NEW at \in Nat, ~Working(DayOf(at)) \/ From(at) >= ClosesAt(DayOf(at))
    PROVE  OpenUnits(at, Midnight(DayOf(at) + 1)) = 0
<1>. DEFINE d == DayOf(at)
<1>1. /\ d \in Nat /\ Midnight(d) \in Nat /\ Midnight(d) <= at
      /\ Midnight(d + 1) = Midnight(d) + Day /\ Midnight(d + 1) \in Nat /\ Day \in Nat
  BY NextDay
<1>2. ASSUME NEW t \in at..(Midnight(d + 1) - 1) PROVE ~IsOpen(t)
  <2>1. t \in Nat /\ Midnight(d) <= t /\ t < Midnight(d) + Day
    BY <1>1
  <2>2. IsOpen(t) <=> Working(d) /\ OpensAt(d) <= t /\ t < ClosesAt(d)
    BY <1>1, <2>1, OpenInDay
  <2>3. Working(d) => OpensAt(d) \in Nat /\ ClosesAt(d) \in Nat
    BY <1>1, HoursInDay DEF Working
  <2>. QED
    BY <1>1, <2>1, <2>2, <2>3 DEF From
<1>. QED
  BY <1>1, <1>2, NoneOpen

(* A walk has counted the open time behind it but for less than a minute, and *)
(* the rest of a minute is lost on the first day only.                       *)
WalkOK(t, minutes, w) ==
    /\ w \in [at : Nat, left : Nat] /\ t <= w.at
    /\ \E rest \in 0..(Minute - 1) :
          /\ OpenUnits(t, w.at) + w.left * Minute = minutes * Minute + rest
          /\ w.left > 0 /\ rest # 0 => w.at = Midnight(DayOf(w.at))
    /\ w.left = 0 => IsOpen(w.at - 1)

LEMMA RoundKeeps ==
    ASSUME NEW t \in Nat, NEW minutes \in Nat, NEW w, WalkOK(t, minutes, w)
    PROVE  WalkOK(t, minutes, Round(w))
<1>. DEFINE at == w.at
            left == w.left
            d == DayOf(at)
            from == From(at)
            closes == ClosesAt(d)
            next == Midnight(d + 1)
            available == (closes - from) \div Minute
<1>1. /\ at \in Nat /\ left \in Nat /\ t <= at /\ w = [at |-> at, left |-> left]
      /\ Minute \in Nat \ {0}
  BY HoursAssumption DEF WalkOK
<1>2. PICK rest \in 0..(Minute - 1) :
          /\ OpenUnits(t, at) + left * Minute = minutes * Minute + rest
          /\ left > 0 /\ rest # 0 => at = Midnight(d)
  BY DEF WalkOK
<1>3. Round(w) = IF left = 0 THEN w
                 ELSE IF ~Working(d) \/ from >= closes THEN [w EXCEPT !.at = next]
                 ELSE IF left <= available THEN [at |-> from + left * Minute, left |-> 0]
                 ELSE [at |-> next, left |-> left - available]
  BY DEF Round, From
<1>4. /\ d \in Nat /\ next \in Nat /\ Midnight(d) \in Nat /\ at < next
      /\ next = Midnight(DayOf(next))
  <2>1. /\ d \in Nat /\ Midnight(d) \in Nat /\ at < Midnight(d) + Day
        /\ next = Midnight(d) + Day /\ next \in Nat /\ Day \in Nat /\ Day > 0
    BY <1>1, DayHolds, Midnights, HoursAssumption
  <2>2. d + 1 \in Nat /\ next < next + Day
    BY <2>1
  <2>3. DayOf(next) = d + 1
    BY <2>1, <2>2, DayIs
  <2>. QED
    BY <2>1, <2>3
<1>5. OpenUnits(t, at) \in Nat /\ left * Minute \in Nat /\ minutes * Minute \in Nat
  BY <1>1, OpenAdds, Products
<1>6. CASE left = 0
  BY <1>3, <1>6
<1>7. CASE left # 0 /\ (~Working(d) \/ from >= closes)
  <2>1. Round(w) = [at |-> next, left |-> left]
    BY <1>1, <1>3, <1>7
  <2>2. OpenUnits(at, next) = 0
    BY <1>1, <1>7, ShutToday
  <2>3. OpenUnits(t, next) = OpenUnits(t, at) + OpenUnits(at, next)
    BY <1>1, <1>4, OpenAdds
  <2>4. OpenUnits(t, next) + left * Minute = minutes * Minute + rest
    BY <1>2, <1>5, <2>2, <2>3
  <2>. QED
    BY <1>1, <1>4, <1>7, <2>1, <2>4 DEF WalkOK
<1>8. CASE left # 0 /\ Working(d) /\ from < closes
  <2>1. /\ from \in Nat /\ closes \in Nat /\ at <= from /\ closes < next
        /\ \A b \in Nat : from <= b /\ b <= closes => OpenUnits(at, b) = b - from
        /\ OpenUnits(at, next) = closes - from
    BY <1>1, <1>8, OpenToday
  <2>. DEFINE lost == (closes - from) % Minute
  <2>2. /\ available \in Nat /\ lost \in 0..(Minute - 1)
        /\ closes - from = available * Minute + lost /\ available * Minute \in Nat
    <3>1. closes - from \in Nat
      BY <1>8, <2>1
    <3>. DEFINE x == closes - from
    <3>2. /\ x \div Minute \in Nat /\ x % Minute \in 0..(Minute - 1)
          /\ x = (x \div Minute) * Minute + (x % Minute)
      <4>. HIDE DEF x
      <4>. QED
        BY <1>1, <3>1, Quotients DEF x
    <3>3. (x \div Minute) * Minute \in Nat
      <4>. HIDE DEF x
      <4>. QED
        BY <1>1, <3>2, Products
    <3>. QED
      BY <3>2, <3>3
  <2>3. rest # 0 => lost = 0
    <3>. SUFFICES ASSUME rest # 0 PROVE lost = 0
      OBVIOUS
    <3>1. at = Midnight(d)
      BY <1>1, <1>2, <1>8
    <3>. DEFINE o == Row(d).open
                c == Row(d).close
    <3>2. o \in 0..(Day - 1) /\ o % Minute = 0 /\ c \in 0..(Day - 1) /\ c % Minute = 0 /\ Day \in Nat
      BY <1>8, HoursAssumption DEF Working, Row, HasRow
    <3>3. from = Midnight(d) + o /\ closes = Midnight(d) + c
      BY <1>4, <3>1, <3>2 DEF From, OpensAt, ClosesAt
    <3>. HIDE DEF o, c, from, closes
    <3>4. closes - from = c - o /\ o <= c /\ o \in Nat /\ c \in Nat
      BY <1>4, <1>8, <3>2, <3>3
    <3>5. ((c - o) \div Minute) * Minute = c - o
      BY <3>2, <3>4, WholeMinutes
    <3>6. available * Minute = closes - from
      BY <3>4, <3>5
    <3>. HIDE DEF available, lost
    <3>. QED
      BY <2>1, <2>2, <3>6
  <2>. HIDE DEF lost, available, closes, from
  <2>4. CASE left <= available
    <3>. DEFINE end == from + left * Minute
    <3>1. Round(w) = [at |-> end, left |-> 0]
      BY <1>3, <1>8, <2>1, <2>4
    <3>2. left * Minute <= available * Minute /\ left * Minute > 0
      <4>1. 0 < left /\ 0 \in Nat
        BY <1>1, <1>8
      <4>2. 0 * Minute + Minute <= left * Minute /\ 0 * Minute = 0
        BY <1>1, <4>1, Products
      <4>3. left * Minute <= available * Minute
        BY <1>1, <2>2, <2>4, Products
      <4>. QED
        BY <1>1, <1>5, <4>2, <4>3
    <3>3. end \in Nat /\ from < end /\ end <= closes
      BY <1>5, <2>1, <2>2, <3>2
    <3>4. OpenUnits(at, end) = left * Minute
      BY <1>5, <2>1, <3>3
    <3>5. OpenUnits(t, end) = OpenUnits(t, at) + OpenUnits(at, end)
      BY <1>1, <2>1, <3>3, OpenAdds
    <3>6. IsOpen(end - 1)
      <4>1. /\ end - 1 \in Nat /\ Midnight(d) <= end - 1 /\ end - 1 < Midnight(d) + Day
            /\ OpensAt(d) <= end - 1 /\ end - 1 < closes
        <5>1. OpensAt(d) \in Nat /\ OpensAt(d) <= from /\ Midnight(d) <= OpensAt(d)
          BY <1>1, <1>4, <1>8, HoursInDay DEF from, From, Working
        <5>2. closes < Midnight(d) + Day /\ Day \in Nat
          BY <1>4, <1>8, HoursInDay, HoursAssumption DEF closes, Working
        <5>. QED
          BY <1>4, <2>1, <3>3, <5>1, <5>2
      <4>. QED
        BY <1>4, <1>8, <4>1, OpenInDay DEF closes
    <3>7. OpenUnits(t, end) + 0 * Minute = minutes * Minute + rest /\ t <= end
      <4>1. 0 * Minute = 0
        BY <1>1
      <4>. HIDE DEF end
      <4>. QED
        BY <1>1, <1>2, <1>5, <2>1, <3>3, <3>4, <3>5, <4>1
    <3>. HIDE DEF end
    <3>. QED
      BY <3>1, <3>3, <3>6, <3>7 DEF WalkOK
  <2>5. CASE ~(left <= available)
    <3>1. Round(w) = [at |-> next, left |-> left - available]
      BY <1>3, <1>8, <2>1, <2>5
    <3>2. left - available \in Nat /\ left - available > 0
      BY <1>1, <2>2, <2>5
    <3>3. OpenUnits(t, next) = OpenUnits(t, at) + (available * Minute + lost)
      <4>1. OpenUnits(t, next) = OpenUnits(t, at) + OpenUnits(at, next)
        BY <1>1, <1>4, OpenAdds
      <4>. QED
        BY <2>1, <2>2, <4>1
    <3>4. left * Minute = available * Minute + (left - available) * Minute
      <4>1. left = available + (left - available)
        BY <1>1, <2>2
      <4>2. (available + (left - available)) * Minute = available * Minute + (left - available) * Minute
        BY <1>1, <2>2, <3>2, Products
      <4>. QED
        BY <4>1, <4>2
    <3>5. (left - available) * Minute \in Nat
      BY <1>1, <3>2, Products
    <3>. DEFINE rest2 == rest + lost
    <3>6. rest2 \in 0..(Minute - 1)
      BY <1>1, <2>2, <2>3
    <3>7. OpenUnits(t, next) + (left - available) * Minute = minutes * Minute + rest2
      BY <1>1, <1>2, <1>5, <2>2, <3>3, <3>4, <3>5
    <3>8. t <= next
      BY <1>1, <1>4
    <3>. HIDE DEF rest2, next
    <3>. QED
      BY <1>4, <3>1, <3>2, <3>6, <3>7, <3>8 DEF WalkOK
  <2>. QED
    BY <2>4, <2>5
<1>9. Working(d) => closes \in Nat /\ from \in Nat
  BY <1>1, OpenToday
<1>. QED
  BY <1>6, <1>7, <1>8, <1>9

(* The recursive function of Walk exists: the least length that it does not   *)
(* have would be one more than a length that it has.                         *)
Rounds(f, k, t, minutes) ==
    f = [n \in 0..k |-> IF n = 0 THEN [at |-> t, left |-> minutes] ELSE Round(f[n - 1])]

LEMMA RoundsExist ==
    ASSUME NEW t, NEW minutes, NEW k \in Nat
    PROVE  \E f : Rounds(f, k, t, minutes)
<1>. DEFINE Bad == {n \in Nat : ~\E f : Rounds(f, n, t, minutes)}
<1>. SUFFICES ASSUME Bad # {} PROVE FALSE
  OBVIOUS
<1>1. PICK n \in Bad : \A m \in Bad : ~(m < n)
  <2>1. PICK n \in Bad : \A m \in Bad : ~(<<m, n>> \in OpToRel(<, Nat))
    <3>. HIDE DEF Bad
    <3>1. Bad \subseteq Nat
      BY DEF Bad
    <3>. QED
      BY <3>1, WFMin, NatLessThanWellFounded
  <2>. QED
    BY <2>1 DEF OpToRel
<1>2. CASE n = 0
  <2>. DEFINE f == [i \in 0..0 |-> [at |-> t, left |-> minutes]]
  <2>1. Rounds(f, 0, t, minutes)
    BY DEF Rounds
  <2>. QED
    BY <1>2, <2>1
<1>3. CASE n # 0
  <2>1. n - 1 \in Nat /\ n - 1 < n
    BY <1>3
  <2>2. PICK f : Rounds(f, n - 1, t, minutes)
    BY <1>1, <2>1
  <2>. DEFINE g == [i \in 0..n |-> IF i = n THEN Round(f[n - 1]) ELSE f[i]]
  <2>3. \A i \in 0..(n - 1) : f[i] = IF i = 0 THEN [at |-> t, left |-> minutes] ELSE Round(f[i - 1])
    BY <2>2 DEF Rounds
  <2>4. \A i \in 0..n : g[i] = IF i = 0 THEN [at |-> t, left |-> minutes] ELSE Round(g[i - 1])
    <3>. SUFFICES ASSUME NEW i \in 0..n
                  PROVE  g[i] = IF i = 0 THEN [at |-> t, left |-> minutes] ELSE Round(g[i - 1])
      OBVIOUS
    <3>1. CASE i = n
      <4>1. g[i - 1] = f[n - 1] /\ g[i] = Round(f[n - 1])
        BY <1>3, <2>1, <3>1
      <4>. QED
        BY <1>3, <3>1, <4>1
    <3>2. CASE i = 0
      BY <1>3, <2>1, <2>3, <3>2
    <3>3. CASE i # n /\ i # 0
      <4>1. /\ i \in 0..(n - 1) /\ i - 1 \in 0..n /\ i - 1 # n
            /\ g[i] = f[i] /\ g[i - 1] = f[i - 1]
        BY <3>3
      <4>. QED
        BY <2>3, <3>3, <4>1
    <3>. QED
      BY <3>1, <3>2, <3>3
  <2>5. Rounds(g, n, t, minutes)
    BY <2>4 DEF Rounds
  <2>. QED
    BY <2>5
<1>. QED
  BY <1>2, <1>3

LEMMA WalkHolds ==
    ASSUME NEW t \in Nat, NEW minutes \in Nat \ {0}
    PROVE  WalkOK(t, minutes, Walk(t, minutes))
<1>1. Safety \in Nat /\ Minute \in Nat \ {0}
  BY HoursAssumption
<1>. DEFINE after[n \in 0..Safety] ==
                IF n = 0 THEN [at |-> t, left |-> minutes] ELSE Round(after[n - 1])
<1>2. Walk(t, minutes) = after[Safety]
  BY DEF Walk
<1>3. Rounds(after, Safety, t, minutes)
  <2>1. \E f : Rounds(f, Safety, t, minutes)
    BY <1>1, RoundsExist
  <2>. QED
    BY <2>1 DEF Rounds
<1>. HIDE DEF after
<1>4. /\ after[0] = [at |-> t, left |-> minutes]
      /\ \A n \in 1..Safety : after[n] = Round(after[n - 1])
  BY <1>1, <1>3 DEF Rounds
<1>5. WalkOK(t, minutes, after[0])
  <2>. DEFINE w == [at |-> t, left |-> minutes]
  <2>1. w \in [at : Nat, left : Nat] /\ w.at = t /\ w.left = minutes /\ minutes * Minute \in Nat
    BY <1>1, Products
  <2>2. OpenUnits(t, t) = 0
    BY NoneOpen
  <2>3. 0 \in 0..(Minute - 1)
    BY <1>1
  <2>. HIDE DEF w
  <2>4. WalkOK(t, minutes, w)
    BY <2>1, <2>2, <2>3 DEF WalkOK
  <2>. QED
    BY <1>4, <2>4 DEF w
<1>. DEFINE Bad == {n \in 0..Safety : ~WalkOK(t, minutes, after[n])}
<1>. SUFFICES ASSUME Bad # {} PROVE FALSE
  BY <1>1, <1>2
<1>6. PICK n \in Bad : \A m \in Bad : ~(m < n)
  <2>1. Bad \subseteq Nat
    BY <1>1
  <2>2. PICK n \in Bad : \A m \in Bad : ~(<<m, n>> \in OpToRel(<, Nat))
    <3>. HIDE DEF Bad
    <3>. QED
      BY <2>1, WFMin, NatLessThanWellFounded
  <2>. QED
    BY <2>1, <2>2 DEF OpToRel
<1>7. n \in 1..Safety /\ n - 1 \in 0..Safety /\ n - 1 < n
  BY <1>1, <1>5, <1>6
<1>8. WalkOK(t, minutes, after[n - 1])
  BY <1>6, <1>7
<1>9. WalkOK(t, minutes, after[n])
  BY <1>4, <1>7, <1>8, RoundKeeps
<1>. QED
  BY <1>6, <1>9

LEMMA DueIs ==
    ASSUME HoursSound, NEW timer \in TimerRow
    PROVE  DueInHours(timer)
<1>. DEFINE t == timer.started
            p == timer.policy
            m == MinutesOf(p, timer.type)
<1>1. /\ t \in 0..Horizon /\ t \in Nat /\ p \in Policies /\ m \in {p.first, p.resolution}
      /\ timer.due = DueTimes[t][m]
  BY LifecycleAssumption DEF TimerRow, TimerFields, MinutesOf
<1>2. m \in Nat \ {0}
  <2>1. p \in [first : Nat, resolution : Nat, priority : Priorities \cup {AnyPriority}]
    BY <1>1, LifecycleAssumption
  <2>2. p.first \in Nat /\ p.resolution \in Nat
    BY <2>1
  <2>. QED
    BY <1>1, <2>2 DEF HoursSound
<1>. HIDE DEF t, p, m
<1>3. timer.due = IF HasHours THEN AddBusinessMinutes(t, m) ELSE t + m * Minute
  BY <1>1 DEF DueTimes
<1>4. CASE ~HasHours
  BY <1>3, <1>4 DEF DueInHours, t, p, m
<1>5. CASE HasHours
  <2>. DEFINE w == Walk(t, m)
  <2>1. WalkOK(t, m, w)
    BY <1>1, <1>2, WalkHolds
  <2>2. w.left = 0 /\ timer.due = w.at
    BY <1>1, <1>3, <1>5 DEF HoursSound, AddBusinessMinutes
  <2>. HIDE DEF w
  <2>3. PICK rest \in 0..(Minute - 1) : OpenUnits(t, w.at) + 0 * Minute = m * Minute + rest
    BY <2>1, <2>2 DEF WalkOK
  <2>4. IsOpen(timer.due - 1)
    BY <2>1, <2>2 DEF WalkOK
  <2>5. /\ Minute \in Nat \ {0} /\ m * Minute \in Nat /\ (m + 1) * Minute = m * Minute + 1 * Minute
        /\ 0 * Minute = 0 /\ 1 * Minute = Minute
    BY <1>2, HoursAssumption, Products
  <2>6. OpenUnits(t, timer.due) \in Nat
    BY <1>1, <2>1, <2>2, OpenAdds DEF WalkOK
  <2>7. /\ m * Minute <= OpenUnits(t, timer.due)
        /\ OpenUnits(t, timer.due) < (m + 1) * Minute
    BY <2>2, <2>3, <2>5, <2>6
  <2>. QED
    BY <1>5, <2>4, <2>7 DEF DueInHours, t, p, m
<1>. QED
  BY <1>4, <1>5

(* For any week, holidays, policies and size of a minute, is_open,            *)
(* next_open_time, next_close_time and add_business_minutes tell one story,   *)
(* as far as days close after they open and the walk's safety bound is not    *)
(* what ends it.                                                             *)
THEOREM HoursAgreeHolds == HoursSound => (Spec => []HoursAgree)
<1>. SUFFICES ASSUME HoursSound PROVE Spec => []HoursAgree
  OBVIOUS
<1>1. LifecycleInv => HoursAgree
  <2>. SUFFICES ASSUME LifecycleInv PROVE HoursAgree
    OBVIOUS
  <2>1. clock \in Nat /\ OpensBeforeCloses
    BY LifecycleAssumption DEF LifecycleInv, Shape, HoursSound
  <2>2. \A i \in DOMAIN timers : timers[i] \in TimerRow
    BY DEF LifecycleInv, Shape
  <2>3. \A i \in DOMAIN timers : DueInHours(timers[i])
    BY <2>2, DueIs
  <2>. QED
    BY <2>1, <2>3, NextOpenIs, NextCloseIs DEF HoursAgree
<1>. QED
  BY <1>1, LifecycleHolds, PTL
=============================================================================
