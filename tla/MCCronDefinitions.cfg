\* One thread that schedules or cancels while the scheduler marks and removes.
CONSTANTS
  Jobs <- MCJobs
  Durable <- MCDurable
  Recurring <- MCRecurring
  Expression <- MCExpression
  Calendar <- MCCalendar
  Callers = {c1}
  Scheduler = scheduler
  None = None
  MaxMinute = 2
  MaxPrompts = 0
  MaxFailures = 0
SPECIFICATION Spec
PROPERTY OneDefinitionChanges
