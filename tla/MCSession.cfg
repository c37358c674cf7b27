\* Each part by itself.  MCP: two servers of one name and one over HTTP, and calls
\* enough to connect, to give one up and to make another.  Memory:
\* two loops and one crash.  Conversation: views long enough to be snipped and
\* summarised twice.  Tools: a lead that delegates and a member.
SPECIFICATION SessionSpec
CONSTANTS
  docs = docs
  docsAgain = docsAgain
  remote = remote
  search = search
  edit = edit
  Servers = {docs, docsAgain, remote}
  Http = {remote}
  NormalName <- MCNormalName
  Offered = {search, edit}
  PublicName <- MCPublicName
  Cursors = {more}
  NoServer = noServer
  MaxCalls = 3
  MaxQueue = 2
  Loops = {lead, member}
  MemoryIds = {1, 2}
  Facts = {likes, works}
  Threshold = 2
  MaxItems = 1
  MaxRuns = 3
  MaxFaults = 1
  Commands = {build}
  MaxTurns = 2
  MaxMessages = 7
  KeepHead = 2
  KeepRecent = 1
  TailMessages = 3
  MaxContinuations = 1
  LargeResults = {3, 7}
  MaxPrompts = 3
  leader = leader
  mate = mate
  Threads = {leader, mate}
  Leads = {leader}
  Wanted <- MCWanted
  ChildTurns = 2
  TodoTurns = 3
  NoCall = noCall
INVARIANTS
  SessionTypeOK
  ConnectsWholly
  OwnAnswer
  FactsKept
  ViewFaithful
  CheckpointIsPrefix
  AnnouncedOnce
  ToldAsHappened
  RemindedInTime
\* With its calls, Runs and prompts used up, a part only waits.
CHECK_DEADLOCK FALSE
