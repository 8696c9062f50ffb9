------------------------------ MODULE Schedule ------------------------------
(***************************************************************************)
(* umabot/tasks/schedule.py: when a task runs next.  The arithmetic is on  *)
(* the clock on the wall of the task's time zone, and the comparison with  *)
(* the present too, as both sides have one tzinfo; only the result is put  *)
(* into UTC.  A moment is a number of ticks; the clock of a zone is turned *)
(* once, at `at`, from the offset `before` to `after`.  Hours it shows     *)
(* twice are told apart by `fold`.  Slots are what the parsing and its     *)
(* clamping of hours and minutes leave.                                    *)
(***************************************************************************)
EXTENDS Integers

CONSTANTS Hour, Day \* in ticks

ASSUME ScheduleAssumption == Hour \in Nat \ {0} /\ Day \in Nat \ {0}

Zone == [at : Int, before : Int, after : Int]
NoMoment == "null"
Periods == {"hourly", "daily", "weekly"}

(* A periodic schedule, as compute_next_run_at reads it.                   *)
Periodical == [kind : Periods, slot : Nat, day : 0..6]

-----------------------------------------------------------------------------
(* datetime.astimezone: the clock at a moment, and back.  A time that is   *)
(* left out when the clock is put forward is read with the offset before.  *)
ToLocal(zone, moment) ==
    [wall |-> moment + (IF moment < zone.at THEN zone.before ELSE zone.after),
     fold |-> IF /\ zone.at <= moment
                 /\ moment < zone.at + zone.before - zone.after
              THEN 1 ELSE 0]

Turn(zone, fold) ==
    zone.at + (IF (fold = 0) <=> (zone.before > zone.after)
               THEN zone.before ELSE zone.after)

ToUtc(zone, local) ==
    local.wall - (IF local.wall < Turn(zone, local.fold)
                  THEN zone.before ELSE zone.after)

(* datetime + timedelta is on the wall, and forgets the fold.              *)
Shifted(local, ticks) == [wall |-> local.wall + ticks, fold |-> 0]

-----------------------------------------------------------------------------
Span(kind) == CASE kind = "hourly" -> Hour [] kind = "daily" -> Day
                [] kind = "weekly" -> 7 * Day

(* now_local.replace(...): the slot of the hour or day, with its fold.     *)
SlotOf(span, slot, local) ==
    [wall |-> local.wall - (local.wall % span) + slot, fold |-> local.fold]

Weekday(wall) == (wall \div Day) % 7

Candidate(s, local) ==
    CASE s.kind = "hourly" -> SlotOf(Hour, s.slot, local)
      [] s.kind = "daily"  -> SlotOf(Day, s.slot, local)
      [] s.kind = "weekly" ->
           Shifted(SlotOf(Day, s.slot, local),
                   Day * ((s.day - Weekday(local.wall)) % 7))

(* _compute_next_run of a periodic task: at or after the present, strictly *)
(* after it for compute_next_run_at.                                       *)
NextMoment(s, zone, now, strict) ==
    LET local == ToLocal(zone, now)
        first == Candidate(s, local)
    IN  IF first.wall < local.wall \/ (strict /\ first.wall = local.wall)
        THEN ToUtc(zone, Shifted(first, Span(s.kind)))
        ELSE ToUtc(zone, first)

(* ... and of a one-time task: nothing if it is over.                      *)
OneTime(runAt, now, strict) ==
    IF runAt = NoMoment \/ (strict /\ runAt <= now) THEN NoMoment ELSE runAt

-----------------------------------------------------------------------------
(* The slots of a schedule on the wall, as a reference.                    *)
IsSlot(s, wall) ==
    CASE s.kind = "hourly" -> wall % Hour = s.slot
      [] s.kind = "daily"  -> wall % Day = s.slot
      [] s.kind = "weekly" -> wall % Day = s.slot /\ Weekday(wall) = s.day

(* The clock is not put back by so much that an hour or day is left.       *)
StaysInHour(zone) ==
    \A span \in {Hour, Day} :
        LET wall == zone.at + zone.after
        IN  wall - (wall % span) + span >= zone.at + zone.before

(* Where the next moment is not after the present.                         *)
Unsafe(s, zone, now) == s.kind = "weekly" /\ ToLocal(zone, now).fold = 1
=============================================================================
