----------------------------- MODULE Conversation -----------------------------
(***************************************************************************)
(* The conversation of one session (runtime/loop.py, context/,              *)
(* background_tasks/): the transcript a Run appends to, the views of it     *)
(* that requests to the model are made of, the checkpoint that stands for   *)
(* its beginning, and the background commands whose end is announced in it. *)
(*                                                                          *)
(* Runs of a session follow one another; commands end on threads of their   *)
(* own.  What a message says is left out: a message is its kind and its     *)
(* place.  Whether a request is too long, a summary usable or an answer     *)
(* truncated is open.                                                       *)
(***************************************************************************)
EXTENDS Naturals, Sequences, FiniteSets

CONSTANTS Commands,         \* background commands that may be started
          MaxTurns,         \* requests of a Run
          MaxMessages,      \* a longer view is snipped
          KeepHead,         \* messages a snip keeps at the beginning
          KeepRecent,       \* results that are never shortened
          TailMessages,     \* messages a checkpoint leaves
          MaxContinuations, \* continuations of a truncated answer
          LargeResults,     \* places of results too large for a request
          MaxPrompts        \* bound on the Runs

(* The limits of the program are 10, 50, 3, 3, 10 and 3; what the last      *)
(* conjunct says holds of them: the messages of one Run fit into the tail   *)
(* of a snipped view.                                                      *)
ASSUME ConversationAssumption ==
    /\ MaxTurns \in Nat \ {0} /\ KeepHead \in Nat \ {0}
    /\ MaxMessages \in Nat /\ KeepRecent \in Nat
    /\ TailMessages \in Nat \ {0}
    /\ MaxContinuations \in Nat /\ MaxPrompts \in Nat
    /\ LargeResults \subseteq Nat
    /\ MaxMessages >= KeepHead + 2 * (MaxTurns + MaxContinuations) - 1

VARIABLES
  transcript, \* the messages on file
  checkpoint, \* on file: what the summary covers, no messages if there is none
  artifacts,  \* on file: the places of results kept whole outside a request
  step,       \* what the Run is doing
  turn,       \* its requests that were answered with tool calls
  prompt,     \* where its prompt is in the transcript
  extra,      \* messages of a continuation, in memory only
  forced,     \* the next request begins with a summary of the history
  retried,    \* the request has been rejected as too long before
  view,       \* the messages of the request
  taken,      \* announcements the Run has drained and not yet appended
  command,    \* command[c]: "none", "running", "ended" or "forgotten"
  delivered,  \* the commands marked as announced
  prompts,    \* how many Runs have begun
  dropped     \* history: announcements drained by a Run that then failed

conversationVars ==
    <<transcript, checkpoint, artifacts, step, turn, prompt, extra, forced,
      retried, view, taken, command, delivered, prompts, dropped>>

runVars == <<turn, prompt, extra, forced, retried, view>>

-----------------------------------------------------------------------------
(* Messages of the transcript, and of views: a view has the transcript's    *)
(* messages, a summary of the first ones, a note where some were snipped    *)
(* out, and a notice or a reference for a result; "at" is the message it    *)
(* stands for, the last one if they are many.                              *)
Message == [kind: {"prompt", "use", "result", "text"}, at: Nat,
            notes: SUBSET Commands]
Item    == Message \cup [kind: {"summary", "gap", "notice", "reference"}, at: Nat,
                         notes: SUBSET Commands]

Results == {"result", "notice", "reference"}

ItemOf(kind, at) == [kind |-> kind, at |-> at, notes |-> {}]

Steps == {"idle", "starting", "asking", "waiting", "tools", "results", "ending"}

ConversationTypeOK ==
    /\ transcript \in Seq(Message)
    /\ checkpoint \in Seq(Message)
    /\ artifacts \subseteq DOMAIN transcript
    /\ step \in Steps
    /\ turn \in 0..MaxTurns
    /\ prompt \in Nat
    /\ extra \in Seq(Message)
    /\ forced \in BOOLEAN /\ retried \in BOOLEAN
    /\ view \in Seq(Item)
    /\ taken \subseteq Commands
    /\ command \in [Commands -> {"none", "running", "ended", "forgotten"}]
    /\ delivered \subseteq Commands /\ dropped \subseteq Commands
    /\ prompts \in 0..MaxPrompts

ConversationInit ==
    /\ transcript = <<>> /\ checkpoint = <<>> /\ artifacts = {}
    /\ step = "idle" /\ turn = 0 /\ prompt = 0
    /\ extra = <<>> /\ forced = FALSE /\ retried = FALSE /\ view = <<>>
    /\ taken = {} /\ delivered = {} /\ dropped = {}
    /\ command = [c \in Commands |-> "none"]
    /\ prompts = 0

-----------------------------------------------------------------------------
(* Background commands.                                                    *)

(* A command is started by a tool of the Run that is executing tools.      *)
StartCommand(c) ==
    /\ step = "tools" /\ command[c] = "none"
    /\ command' = [command EXCEPT ![c] = "running"]
    /\ UNCHANGED <<transcript, checkpoint, artifacts, step, taken, delivered,
                   prompts, dropped>>
    /\ UNCHANGED runVars

(* Its thread ends it, with success, an exit code, a time-out or an error.  *)
EndCommand(c) ==
    /\ command[c] = "running"
    /\ command' = [command EXCEPT ![c] = "ended"]
    /\ UNCHANGED <<transcript, checkpoint, artifacts, step, taken, delivered,
                   prompts, dropped>>
    /\ UNCHANGED runVars

\* Mutant: what was drained before is drained again.
ReadyAgain == {c \in Commands : command[c] = "ended"}

(* The commands to announce are those that have ended and were not yet      *)
(* announced; they are marked at once.                                     *)
Ready == {c \in Commands : command[c] = "ended"} \ delivered

Drain ==
    /\ taken' = Ready
    /\ delivered' = delivered \cup Ready

-----------------------------------------------------------------------------
(* The transcript.                                                         *)

(* An append rewrites the file with one more message.                      *)
AppendMessage(kind, notes) ==
    transcript' = Append(transcript,
                         [kind |-> kind, at |-> Len(transcript) + 1, notes |-> notes])

(* A Run begins: it drains, then appends its prompt.                       *)
BeginRun ==
    /\ step = "idle" /\ prompts < MaxPrompts
    /\ prompts' = prompts + 1
    /\ step' = "starting"
    /\ Drain
    /\ UNCHANGED <<transcript, checkpoint, artifacts, command, dropped>>
    /\ UNCHANGED runVars

AppendPrompt ==
    /\ step = "starting"
    /\ AppendMessage("prompt", taken)
    /\ taken' = {}
    /\ prompt' = Len(transcript) + 1
    /\ step' = "asking"
    /\ UNCHANGED <<checkpoint, artifacts, command, delivered, prompts, dropped,
                   turn, extra, forced, retried, view>>

(* A Run is over: nothing of it stays in memory.                           *)
Reset ==
    /\ step' = "idle"
    /\ turn' = 0 /\ prompt' = 0
    /\ extra' = <<>> /\ forced' = FALSE /\ retried' = FALSE /\ view' = <<>>
    /\ taken' = {}

(* Any step of a Run may raise; what it has drained is not given back.     *)
FailPrompt ==
    /\ step # "idle"
    /\ Reset
    /\ dropped' = dropped \cup taken
    /\ UNCHANGED <<transcript, checkpoint, artifacts, command, delivered, prompts>>

(* The process stops: it forgets the commands and what it has announced.    *)
Restart ==
    /\ Reset
    /\ dropped' = dropped \cup taken
    /\ command' = [c \in Commands |-> IF command[c] = "none" THEN "none"
                                      ELSE "forgotten"]
    /\ delivered' = {}
    /\ UNCHANGED <<transcript, checkpoint, artifacts, prompts>>

-----------------------------------------------------------------------------
(* The view.                                                               *)

First(s, n) == SubSeq(s, 1, n)
From(s, n)  == SubSeq(s, n, Len(s))

SplitsExchange(messages, n) ==
    /\ 0 < n /\ n < Len(messages)
    /\ messages[n].kind = "use" /\ messages[n + 1].kind = "result"

(* The last place not after n that has no call before it and its result     *)
(* after it; none if that is the very beginning.                           *)
SafeBoundary(messages, n) ==
    IF SplitsExchange(messages, n) THEN n - 1 ELSE n

(* A view of a checkpoint: a summary and the messages it does not cover.    *)
Summary(n) == <<ItemOf("summary", n)>>

CheckpointView(messages, covered) == Summary(covered) \o From(messages, covered + 1)

(* A checkpoint is refused when its messages are not the first ones, or it  *)
(* separates a call from its result.                                       *)
Matches(messages) ==
    /\ Len(checkpoint) <= Len(messages)
    /\ checkpoint = First(messages, Len(checkpoint))
    /\ ~SplitsExchange(messages, Len(checkpoint))

Restored(messages) ==
    IF checkpoint = <<>> THEN messages ELSE CheckpointView(messages, Len(checkpoint))

\* Mutant: the end may begin with a result.
TailStartPlain(messages) == Len(messages) - (MaxMessages - KeepHead) + 1

(* The middle of a long view is snipped out.  The beginning is extended     *)
(* when it ends with a call, and so is the end when it begins with a        *)
(* result; nothing is snipped when they then meet.                         *)
HeadEnd(messages) ==
    IF messages[KeepHead].kind = "use" /\ messages[KeepHead + 1].kind = "result"
      THEN KeepHead + 1 ELSE KeepHead

TailStart(messages) ==
    LET n == Len(messages) - (MaxMessages - KeepHead)   \* the last one before
    IN  IF SplitsExchange(messages, n) THEN n ELSE n + 1

Snip(messages) ==
    IF Len(messages) <= MaxMessages \/ HeadEnd(messages) + 1 >= TailStart(messages)
      THEN messages
      ELSE First(messages, HeadEnd(messages))
             \o <<ItemOf("gap", messages[TailStart(messages) - 1].at)>>
             \o From(messages, TailStart(messages))

(* Results that are large and not among the last are shortened to a notice; *)
(* every one is taken to be large.                                         *)
RecentResult(messages, i) ==
    Cardinality({j \in i + 1..Len(messages) : messages[j].kind = "result"}) < KeepRecent

Shorten(messages) ==
    [i \in DOMAIN messages |->
       IF messages[i].kind = "result" /\ ~RecentResult(messages, i)
         THEN [messages[i] EXCEPT !.kind = "notice"] ELSE messages[i]]

(* A large result that ends the view is kept in a file of its own, named    *)
(* after what it says, and the view refers to it.                          *)
Large(messages) ==
    LET last == messages[Len(messages)]
    IN  IF last.kind = "result" THEN {last.at} \cap LargeResults ELSE {}

Budgeted(messages) ==
    [i \in DOMAIN messages |->
       IF i = Len(messages) /\ Large(messages) # {}
         THEN [messages[i] EXCEPT !.kind = "reference"] ELSE messages[i]]

PreSummary(messages) == Shorten(Snip(Budgeted(messages)))

(* What a checkpoint is to cover: all but the tail, all of a short history. *)
DesiredCoverage(messages) ==
    IF Len(messages) <= TailMessages THEN Len(messages)
    ELSE Len(messages) - TailMessages

-----------------------------------------------------------------------------
(* One request.                                                            *)

Messages == transcript \o extra

\* Mutant: a request that continues an answer may replace the checkpoint.
RebuildAlways == TRUE

RebuildAllowed == extra = <<>>

(* A file that is there is kept.                                           *)
Persist(results) == artifacts' = artifacts \cup results

(* The file of the checkpoint is replaced.                                 *)
SaveCheckpoint(messages) == checkpoint' = messages

Ask(messages) ==
    /\ view' = PreSummary(messages)
    /\ Persist(Large(Restored(Messages)) \cup Large(messages))
    /\ step' = "waiting"
    /\ UNCHANGED <<transcript, turn, prompt, extra, retried, taken, command,
                   delivered, prompts, dropped>>

(* The view is that of the checkpoint, which must match.                   *)
AskPlainly ==
    /\ step = "asking" /\ ~forced /\ ~retried
    /\ checkpoint = <<>> \/ Matches(Messages)
    /\ Ask(Restored(Messages))
    /\ UNCHANGED <<checkpoint, forced>>

(* It is over the budget, or a summary is required: a new checkpoint is     *)
(* made from the whole history and saved; or, where that is not allowed,    *)
(* the view is the summary alone.                                          *)
AskSummarised ==
    /\ step = "asking"
    /\ checkpoint = <<>> \/ Matches(Messages)
    /\ IF RebuildAllowed
         THEN LET covered == SafeBoundary(Messages, DesiredCoverage(Messages))
              IN  /\ covered > 0
                  /\ SaveCheckpoint(First(Messages, covered))
                  /\ Ask(CheckpointView(Messages, covered))
         ELSE /\ Ask(Summary(Len(Messages)))
              /\ UNCHANGED checkpoint
    /\ UNCHANGED forced

(* A summary that fails, or a view too long all the same, fails the Run,    *)
(* the latter after the checkpoint is saved: FailPrompt while waiting.       *)

-----------------------------------------------------------------------------
(* What comes of it.                                                       *)

(* The provider rejects the request as too long: once more, summarised.    *)
RejectRequest ==
    /\ step = "waiting" /\ ~retried
    /\ retried' = TRUE
    /\ step' = "asking"
    /\ view' = <<>>
    /\ UNCHANGED <<transcript, checkpoint, artifacts, turn, prompt, extra, forced,
                   taken, command, delivered, prompts, dropped>>

(* A truncated answer without tool calls is asked for again with a higher   *)
(* budget, or continued: its fragment and a request to go on are messages   *)
(* in memory only.                                                         *)
TruncateAnswer ==
    /\ step = "waiting"
    /\ \/ extra = <<>> /\ UNCHANGED extra
       \/ /\ Len(extra) < 2 * MaxContinuations
          /\ extra' = extra \o <<ItemOf("text", Len(Messages) + 1),
                                ItemOf("prompt", Len(Messages) + 2)>>
    /\ retried' = FALSE
    /\ step' = "asking"
    /\ view' = <<>>
    /\ UNCHANGED <<transcript, checkpoint, artifacts, turn, prompt, forced, taken,
                   command, delivered, prompts, dropped>>

Answered(next) ==
    /\ step' = next
    /\ extra' = <<>> /\ forced' = FALSE /\ retried' = FALSE /\ view' = <<>>
    /\ UNCHANGED <<checkpoint, artifacts, prompt, taken, command, delivered,
                   prompts, dropped>>

(* Tool calls are appended, then executed; a continued answer may not have  *)
(* any.                                                                    *)
AnswerWithTools ==
    /\ step = "waiting" /\ extra = <<>>
    /\ AppendMessage("use", {})
    /\ turn' = turn + 1
    /\ Answered("tools")

(* A text ends the Run, the fragments joined into one message.             *)
AnswerWithText ==
    /\ step = "waiting"
    /\ AppendMessage("text", {})
    /\ Answered("ending")
    /\ UNCHANGED turn

CompletePrompt ==
    /\ step = "ending"
    /\ Reset
    /\ UNCHANGED <<transcript, checkpoint, artifacts, command, delivered, prompts, dropped>>

(* All calls have been executed or refused and each has its result; the     *)
(* compaction tool asks for a summary.  The Run drains once more.          *)
EndTools ==
    /\ step = "tools"
    /\ Drain
    /\ forced' \in BOOLEAN
    /\ step' = "results"
    /\ UNCHANGED <<transcript, checkpoint, artifacts, turn, prompt, extra, retried,
                   view, command, prompts, dropped>>

\* Mutant: the limit is noticed one turn late.
OutOfTurnsLate == turn > MaxTurns

OutOfTurns == turn = MaxTurns

AppendResults ==
    /\ step = "results"
    /\ AppendMessage("result", taken)
    /\ IF OutOfTurns
         THEN Reset
         ELSE /\ step' = "asking"
              /\ taken' = {}
              /\ UNCHANGED runVars
    /\ UNCHANGED <<checkpoint, artifacts, command, delivered, prompts, dropped>>
-----------------------------------------------------------------------------
CommandStep == \E c \in Commands : StartCommand(c) \/ EndCommand(c)

PromptStep == BeginRun \/ AppendPrompt \/ FailPrompt \/ CompletePrompt

RequestStep == AskPlainly \/ AskSummarised \/ RejectRequest \/ TruncateAnswer

AnswerStep == AnswerWithTools \/ AnswerWithText \/ EndTools \/ AppendResults

ConversationNext ==
    \/ CommandStep
    \/ PromptStep
    \/ RequestStep
    \/ AnswerStep
    \/ Restart

ConversationSpec == ConversationInit /\ [][ConversationNext]_conversationVars

-----------------------------------------------------------------------------
(* Every request tells the whole story in order: each message up to the     *)
(* last is in the view, covered by a summary, or snipped; what is snipped   *)
(* is older than the prompt of the Run; every result follows its call,      *)
(* every call that has a result is followed by it, and a reference is to a  *)
(* result on file (context/structural_compaction.py:94,                     *)
(* context/manager.py:137, context/tool_result_budget.py:82).               *)
ViewFaithful ==
    step = "waiting" =>
        LET messages == Messages IN
        /\ view[1].kind = "summary" \/ view[1].at = 1
        /\ view[Len(view)].at = Len(messages)
        /\ \A i \in 2..Len(view) :
              IF view[i].kind = "gap"
                THEN view[i - 1].at < view[i].at /\ view[i].at < prompt
                ELSE view[i].at = view[i - 1].at + 1
        /\ \A i \in DOMAIN view :
              /\ view[i].kind \in Results =>
                    i > 1 /\ view[i - 1].kind = "use"
              /\ view[i].kind = "use" /\ messages[view[i].at + 1].kind = "result" =>
                    view[i + 1].kind \in Results
              /\ view[i].kind = "reference" => view[i].at \in artifacts

(* The checkpoint on file covers the first messages of the transcript on    *)
(* file and separates no call from its result, so that no later Run of the  *)
(* session refuses it (context/checkpoints.py:115-144); messages of a       *)
(* continuation, which are never on file, are not in it.                   *)
CheckpointIsPrefix == Matches(transcript)

(* The end of a command is announced in one message, or was drained by a    *)
(* Run that failed before it could append it                               *)
(* (background_tasks/notifications.py:28-34); a command marked as announced *)
(* is one or the other, or about to be appended.                           *)
Announcements(c) ==
    Cardinality({i \in DOMAIN transcript : c \in transcript[i].notes})
      + (IF c \in taken THEN 1 ELSE 0) + (IF c \in dropped THEN 1 ELSE 0)

AnnouncedOnce ==
    \A c \in Commands :
        /\ Announcements(c) <= 1
        /\ c \in delivered => Announcements(c) = 1
        /\ Announcements(c) = 1 => command[c] \in {"ended", "forgotten"}

(* Every announcement reaches the conversation, and so a later request: a   *)
(* command marked as announced is in a message on file, or the Run that has *)
(* drained it is about to append it                                        *)
(* (background_tasks/notifications.py:34).                                 *)
AnnouncementReaches ==
    \A c \in delivered :
        c \in taken \/ \E i \in DOMAIN transcript : c \in transcript[i].notes
=============================================================================
