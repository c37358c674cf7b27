\* One command, and one Run that may fail after it has drained its end.
SPECIFICATION ConversationSpec
CONSTANTS
  Commands = {build}
  MaxTurns = 2
  MaxMessages = 7
  KeepHead = 2
  KeepRecent = 1
  TailMessages = 3
  MaxContinuations = 0
  LargeResults = {}
  MaxPrompts = 2
INVARIANT AnnouncementReaches
\* With its prompts used up the session only waits.
CHECK_DEADLOCK FALSE
