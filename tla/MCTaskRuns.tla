----------------------------- MODULE MCTaskRuns -----------------------------
EXTENDS TaskRuns, Schedule

CONSTANTS once, daily

(* A clock that is not turned, put forward and put back, by one tick or by *)
(* a whole hour, in every schedule and at every moment of a week.          *)
MCZones == {[at |-> 7 * Day + 4, before |-> 0, after |-> d] : d \in {0, -1, 1, -Hour, Hour}}
MCMoments == (6 * Day)..(14 * Day)
MCSchedules ==
    {s \in [kind : Periods, slot : 0..(Day - 1), day : {0, 1, 6}] :
        s.kind = "hourly" => s.slot < Hour}

(* The result is the first slot after the present, on the wall.            *)
ASSUME NextIsFirstSlot ==
    \A s \in MCSchedules, u \in MCMoments :
        LET zone == [at |-> 0, before |-> 0, after |-> 0]
            next == NextMoment(s, zone, u, TRUE)
        IN  /\ next > u /\ IsSlot(s, next)
            /\ \A w \in (u + 1)..(next - 1) : ~IsSlot(s, w)
            /\ NextMoment(s, zone, u, FALSE) =
                   IF IsSlot(s, u) THEN u ELSE next

(* It is after the present in every zone, but for weekly tasks in the hour *)
(* that is shown twice; and there it fails.                                *)
ASSUME NextIsLaterButThere ==
    /\ \A zone \in MCZones : StaysInHour(zone)
    /\ \A zone \in MCZones, s \in MCSchedules, u \in MCMoments :
           Unsafe(s, zone, u) \/ NextMoment(s, zone, u, TRUE) > u
    /\ \E zone \in MCZones, s \in MCSchedules, u \in MCMoments :
           NextMoment(s, zone, u, TRUE) < u
=============================================================================
