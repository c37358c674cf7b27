\* One thread that schedules and cancels against the scheduler's own writes.
CONSTANTS
  Jobs <- MCJobs
  Durable <- MCDurable
  Recurring <- MCRecurring
  Expression <- MCExpression
  Calendar <- MCCalendar
  Callers = {c1}
  Scheduler = scheduler
  None = None
  MaxMinute = 2
  MaxPrompts = 1
  MaxFailures = 1
SPECIFICATION FairSpec
INVARIANTS TypeOK TriggeredOnce FiresAsWritten DeliveredInOrder
PROPERTIES QueueDrains DueIsTriggered
\* With its scheduler's thread dead, the process only waits for its user.
CHECK_DEADLOCK FALSE
