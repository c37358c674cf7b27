\* Two threads and two Runs: the second Run starts after every way the first
\* may have ended or been cut off.  Two turns of up to two tool calls reach the
\* limit both with and without a last text.
CONSTANTS
  Threads = {foreground, cron}
  None = None
  MaxTurns = 2
  MaxTools = 2
  MaxRuns = 2
SPECIFICATION FairSpec
INVARIANTS TypeOK ActiveRunIsSaved BegunRunIsActive EndedRunHasNoOpenStep ToolCallsAreAnswered
PROPERTY PromptEnds
\* With its Runs used up, the session only waits.
CHECK_DEADLOCK FALSE
