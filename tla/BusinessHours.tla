--------------------------- MODULE BusinessHours ---------------------------
(***************************************************************************)
(* The support hours of an organization: is it open, when does it open     *)
(* and close next, and when have so many business minutes gone by.         *)
(*                                                                         *)
(* An instant is a natural number of units since a Monday's midnight of    *)
(* the organization's time zone; a minute has Minute units, so that an     *)
(* instant may lie between two minutes.  The hours are whole minutes.      *)
(* Changes of the clock in summer are left out.                            *)
(***************************************************************************)
EXTENDS Integers, FiniteSetsExt

CONSTANTS
    Minute,     \* units in a minute
    Day,        \* units in a day
    Week,       \* days in a week
    Schedule,   \* the rows of some weekdays: [closed, open, close]
    Holidays,   \* days, counted from the first
    NoTime,     \* open_time or close_time is NULL
    Lookahead,  \* next_open_time looks at so many days
    Safety      \* add_business_minutes goes through its loop so often

ASSUME HoursAssumption ==
    /\ {Minute, Day, Week, Lookahead, Safety} \subseteq Nat \ {0}
    /\ DOMAIN Schedule \subseteq 0..Week - 1
    /\ Holidays \subseteq Nat
    /\ \A d \in DOMAIN Schedule :
         \A t \in {Schedule[d].open, Schedule[d].close} \ {NoTime} :
             t \in 0..Day - 1 /\ t % Minute = 0

DayOf(t) == t \div Day
TimeOf(t) == t % Day
Midnight(day) == day * Day
Weekday(day) == day % Week

Holiday(day) == day \in Holidays
HasRow(day) == Weekday(day) \in DOMAIN Schedule
Row(day) == Schedule[Weekday(day)]

(* A day with both times; the others are closed all day. *)
Working(day) ==
    /\ ~Holiday(day) /\ HasRow(day) /\ ~Row(day).closed
    /\ Row(day).open # NoTime /\ Row(day).close # NoTime
OpensAt(day) == Midnight(day) + Row(day).open
ClosesAt(day) == Midnight(day) + Row(day).close

(* Nothing in the code keeps a day from closing before it opens; then it is  *)
(* closed all day.                                                           *)
OpensBeforeCloses ==
    \A d \in DOMAIN Schedule :
        Schedule[d].open # NoTime /\ Schedule[d].close # NoTime => Schedule[d].open < Schedule[d].close

IsOpen(t) ==
    LET day == DayOf(t) IN Working(day) /\ OpensAt(day) <= t /\ t < ClosesAt(day)

(* Is the day, seen from t, one at whose opening, or within which, the       *)
(* search of next_open_time ends?                                            *)
Answers(day, t) ==
    /\ ~Holiday(day) /\ HasRow(day) /\ ~Row(day).closed /\ Row(day).open # NoTime
    /\ OpensAt(day) <= t => Row(day).close # NoTime /\ t < ClosesAt(day)

NextOpen(t) ==
    LET days == {day \in DayOf(t)..DayOf(t) + Lookahead - 1 : Answers(day, t)}
        first == Min(days)
    IN IF days = {} THEN NoTime ELSE IF OpensAt(first) <= t THEN t ELSE OpensAt(first)

NextClose(t) == IF IsOpen(t) THEN ClosesAt(DayOf(t)) ELSE NoTime

(* One round of add_business_minutes: the minutes left end on this day, or   *)
(* those of the day are taken from them and the next day begins.             *)
Round_Inclusive(walk) ==
    LET day == DayOf(walk.at)
        from == IF walk.at < OpensAt(day) THEN OpensAt(day) ELSE walk.at
        available == (ClosesAt(day) - from) \div Minute + 1
    IN IF walk.left = 0 THEN walk
       ELSE IF ~Working(day) \/ from >= ClosesAt(day)
       THEN [walk EXCEPT !.at = Midnight(day + 1)]
       ELSE IF walk.left <= available
       THEN [at |-> from + walk.left * Minute, left |-> 0]
       ELSE [at |-> Midnight(day + 1), left |-> walk.left - available]
Round(walk) ==
    LET day == DayOf(walk.at)
        from == IF walk.at < OpensAt(day) THEN OpensAt(day) ELSE walk.at
        available == (ClosesAt(day) - from) \div Minute
    IN IF walk.left = 0 THEN walk
       ELSE IF ~Working(day) \/ from >= ClosesAt(day)
       THEN [walk EXCEPT !.at = Midnight(day + 1)]
       ELSE IF walk.left <= available
       THEN [at |-> from + walk.left * Minute, left |-> 0]
       ELSE [at |-> Midnight(day + 1), left |-> walk.left - available]

Walk(t, minutes) ==
    LET after[n \in 0..Safety] ==
          IF n = 0 THEN [at |-> t, left |-> minutes] ELSE Round(after[n - 1])
    IN after[Safety]
AddBusinessMinutes(t, minutes) == Walk(t, minutes).at
=============================================================================
