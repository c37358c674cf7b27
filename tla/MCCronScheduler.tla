-------------------------- MODULE MCCronScheduler --------------------------
(* A small instance of CronScheduler: what the jobs are, and when.          *)
EXTENDS CronScheduler

(* The last minute of a Saturday in October, and the first of November.     *)
MCCalendar ==
    << [minute |-> 59, hour |-> 23, day |-> 31, month |-> 10, weekday |-> 5],
       [minute |-> 0, hour |-> 0, day |-> 1, month |-> 11, weekday |-> 6] >>

(* Job 1 is durable and due in both minutes, as is job 2, which fires once, *)
(* at the first for its weekday and at the second for its day; job 3 lives  *)
(* in memory, on Saturdays; job 4 is refused.                               *)
MCJobs == 1 .. 4
MCDurable == {1, 2}
MCRecurring == {1, 3}

MCExpression ==
    << <<List({0, 59}), Every(23), Span(1, 31), Any, Any>>,
       <<Any, Any, Only(1), Span(10, 12), Only(6)>>,
       <<Any, Any, Any, Any, Only(6)>>,
       <<Any, Any, Any, Every(13), Any>> >>
=============================================================================
