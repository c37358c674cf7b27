----------------------------- MODULE ModelCall ------------------------------
(***************************************************************************)
(* How one Run obtains a model response on each of its turns (_generate in *)
(* runtime/loop.py and recovery/).  Three recoveries are nested: inside,   *)
(* a transient error is retried after a wait, and overloads in a row turn  *)
(* the calls to the fallback model; around that, a request that exceeds    *)
(* the context window is built again from a compacted history, once; and   *)
(* outermost, a truncated text is asked for again with a higher output     *)
(* budget, then continued.  Each level keeps state of its own, which the   *)
(* level around it sees only when the call returns.                        *)
(*                                                                         *)
(* The provider is external: it may answer a request in any of these ways. *)
(***************************************************************************)
EXTENDS Naturals

CONSTANTS
  MaxTurns,          \* max_turns of the loop
  MaxRetries,        \* max_retries of a request
  MaxOverloads,      \* max_consecutive_overloads
  MaxContinuations   \* max_continuations of a truncated text

ASSUME Bounds ==
  /\ {MaxTurns, MaxOverloads, MaxContinuations} \subseteq Nat \ {0}
  /\ MaxRetries \in Nat

VARIABLES
  settings,       \* is a fallback model configured, is the budget upgradable
  pc,             \* where the Run is
  turn,           \* turn_number
  stage,          \* which of the requests of _generate this is
  continuations,  \* continuations asked for in this turn
  escalated,      \* output_budget_escalated
  kept,           \* transient_recovery_state, as the loop keeps it
  current,        \* current_state of the executor
  retry,          \* retry_index of the executor
  compacted,      \* the request is built again after it exceeded the window
  request,        \* the last request sent: its model and its output budget
  calls,          \* history: requests sent in this turn
  streak,         \* history: overloads answered in a row, up to MaxOverloads
  tripped,        \* history: the streak was that long once
  exceeded        \* history: the context window was exceeded

loop == <<turn, escalated, kept>>
call == <<stage, continuations, current, retry, compacted, request>>
history == <<calls, streak, tripped, exceeded>>
vars == <<settings, pc, loop, call, history>>

\* A response has a text or tool calls, whole or cut at the token limit, or is
\* one that nothing can be done with.
Responses == {"text", "tools", "cut_text", "cut_tools", "other"}

\* Mutant: a later turn starts from the configured budget again.
BudgetOfStage == IF stage # "first" THEN "escalated" ELSE "initial"

\* max_output_tokens of a request
Budget == IF stage # "first" \/ escalated THEN "escalated" ELSE "initial"

\* Mutant: the fallback is chosen one overload too late.
AfterErrorLate(s, overload) ==
  IF ~overload THEN [s EXCEPT !.overloads = 0]
  ELSE IF s.overloads < MaxOverloads THEN [s EXCEPT !.overloads = @ + 1]
  ELSE [model |-> IF settings.fallback THEN "fallback" ELSE s.model, overloads |-> 0]

\* Mutant: errors other than overloads do not break the row.
AfterErrorAny(s, overload) ==
  IF ~overload THEN s
  ELSE IF s.overloads + 1 < MaxOverloads THEN [s EXCEPT !.overloads = @ + 1]
  ELSE [model |-> IF settings.fallback THEN "fallback" ELSE s.model, overloads |-> 0]

\* _next_state: the recovery state after a transient error
AfterError(s, overload) ==
  IF ~overload THEN [s EXCEPT !.overloads = 0]
  ELSE IF s.overloads + 1 < MaxOverloads THEN [s EXCEPT !.overloads = @ + 1]
  ELSE [model |-> IF settings.fallback THEN "fallback" ELSE s.model, overloads |-> 0]

\* record_success
AfterSuccess(s) == [s EXCEPT !.overloads = 0]

Init ==
  /\ settings \in [fallback : BOOLEAN, upgradable : BOOLEAN]
  /\ pc = "idle" /\ turn = 0
  /\ stage = "first" /\ continuations = 0 /\ escalated = FALSE
  /\ kept = [model |-> "primary", overloads |-> 0]
  /\ current = kept /\ retry = 0 /\ compacted = FALSE
  /\ request = [model |-> "primary", budget |-> "initial"]
  /\ calls = 0 /\ streak = 0 /\ tripped = FALSE /\ exceeded = FALSE

-----------------------------------------------------------------------------
\* _generate_with_context_recovery for a stage, from the given recovery state
Enter(s, n, state) ==
  /\ pc' = "prepare"
  /\ stage' = s /\ continuations' = n
  /\ current' = state /\ retry' = 0 /\ compacted' = FALSE
  /\ UNCHANGED request

\* Nothing in execute catches it: the Run is over.
Raised ==
  /\ pc' = "raised"
  /\ UNCHANGED call

\* execute takes the next turn.
Generate ==
  /\ pc = "idle" /\ turn < MaxTurns
  /\ turn' = turn + 1
  /\ Enter("first", 0, kept)
  /\ calls' = 0
  /\ UNCHANGED <<settings, escalated, kept, streak, tripped, exceeded>>

\* One call of the operation that the executor retries
Send(model) ==
  /\ request' = [model |-> model, budget |-> Budget]
  /\ calls' = calls + 1

\* _build_model_request, then the first call
Prepare ==
  /\ pc = "prepare"
  /\ pc' = "sent"
  /\ Send(current.model)
  /\ UNCHANGED <<settings, loop, stage, continuations, current, retry, compacted,
                 streak, tripped, exceeded>>

Count(overload) ==
  /\ streak' = IF ~overload THEN 0
               ELSE IF streak < MaxOverloads THEN streak + 1 ELSE streak
  /\ tripped' = (tripped \/ streak' = MaxOverloads)

\* Mutant: one retry more than max_retries.
TransientErrorLate(overload) ==
  /\ pc = "sent"
  /\ \/ retry > MaxRetries /\ Raised /\ UNCHANGED calls
     \/ /\ retry <= MaxRetries
        /\ current' = AfterError(current, overload)
        /\ retry' = retry + 1
        /\ Send(current'.model)
        /\ UNCHANGED <<pc, stage, continuations, compacted>>
  /\ Count(overload)
  /\ UNCHANGED <<settings, loop, exceeded>>

\* The executor decides on a transient error: it waits and sends the same
\* request again, or gives up.
TransientError(overload) ==
  /\ pc = "sent"
  /\ \/ retry >= MaxRetries /\ Raised /\ UNCHANGED calls
     \/ /\ retry < MaxRetries
        /\ current' = AfterError(current, overload)
        /\ retry' = retry + 1
        /\ Send(current'.model)
        /\ UNCHANGED <<pc, stage, continuations, compacted>>
  /\ Count(overload)
  /\ UNCHANGED <<settings, loop, exceeded>>

\* The window was exceeded by the request, or by one made while it was built.
\* The first time it is built again, and called with the recovery state that
\* this call began with.
ContextExceeded ==
  /\ pc \in {"prepare", "sent"}
  /\ \/ compacted /\ Raised
     \/ /\ ~compacted
        /\ pc' = "prepare"
        /\ compacted' = TRUE
        /\ current' = kept /\ retry' = 0
        /\ UNCHANGED <<stage, continuations, request>>
  /\ exceeded' = TRUE
  /\ UNCHANGED <<settings, loop, calls, streak, tripped>>

\* Any other exception
Fails ==
  /\ pc \in {"prepare", "sent"}
  /\ Raised
  /\ UNCHANGED <<settings, loop, history>>

-----------------------------------------------------------------------------
\* _generate returns the response: execute ends with a whole text, goes on with
\* tool calls.
Accepted(place) ==
  /\ pc' = place
  /\ UNCHANGED call

\* A text that was cut: once in a Run it is asked for with the higher budget,
\* from then on it is continued; where the budget cannot be higher, it is
\* returned and execute raises.
CutText ==
  LET state == AfterSuccess(current) IN
    \/ stage = "first" /\ ~escalated /\ settings.upgradable /\ Enter("retry", 0, state)
    \/ stage = "first" /\ ~escalated /\ ~settings.upgradable /\ Raised
    \/ (stage = "retry" \/ escalated) /\ stage # "continue" /\ Enter("continue", 1, state)
    \/ /\ stage = "continue" /\ continuations < MaxContinuations
       /\ Enter("continue", continuations + 1, state)
    \/ stage = "continue" /\ continuations = MaxContinuations /\ Raised

\* Tool calls that were cut are never executed, nor any that come while a text
\* is continued.
Respond(response) ==
  /\ pc = "sent"
  /\ \/ response = "text" /\ Accepted("completed")
     \/ response = "tools" /\ stage # "continue" /\ Accepted("idle")
     \/ response = "tools" /\ stage = "continue" /\ Raised
     \/ response \in {"cut_tools", "other"} /\ Raised
     \/ response = "cut_text" /\ CutText
  /\ kept' = AfterSuccess(current)
  /\ escalated' = (escalated \/ stage = "retry")
  /\ streak' = 0
  /\ UNCHANGED <<settings, turn, calls, tripped, exceeded>>

Next ==
  \/ Generate \/ Prepare \/ ContextExceeded \/ Fails
  \/ \E overload \in BOOLEAN : TransientError(overload)
  \/ \E response \in Responses : Respond(response)

Spec == Init /\ [][Next]_vars

-----------------------------------------------------------------------------
\* Every variable has the shape its code gives it.
TypeOK ==
  LET Recovery == [model : {"primary", "fallback"}, overloads : 0 .. MaxOverloads - 1] IN
    /\ settings \in [fallback : BOOLEAN, upgradable : BOOLEAN]
    /\ pc \in {"idle", "prepare", "sent", "completed", "raised"}
    /\ turn \in 0 .. MaxTurns
    /\ stage \in {"first", "retry", "continue"}
    /\ continuations \in 0 .. MaxContinuations
    /\ escalated \in BOOLEAN
    /\ kept \in Recovery /\ current \in Recovery
    /\ retry \in 0 .. MaxRetries
    /\ compacted \in BOOLEAN
    /\ request \in [model : {"primary", "fallback"}, budget : {"initial", "escalated"}]
    /\ calls \in Nat
    /\ streak \in 0 .. MaxOverloads
    /\ tripped \in BOOLEAN /\ exceeded \in BOOLEAN

\* The nested recoveries multiply, and to no more than this: each of the
\* requests of a turn is built twice at most, and each time sent once and
\* retried MaxRetries times.
CallsBounded == calls <= 2 * (MaxRetries + 1) * (2 + MaxContinuations)

\* Where the window is never exceeded, requests go to the fallback exactly when
\* it is configured and that many overloads came in a row, wherever in the Run
\* they came: over retries, stages and turns.
FallbackAfterOverloads ==
  pc = "sent" /\ ~exceeded =>
    (request.model = "fallback" <=> settings.fallback /\ tripped)

\* A Run whose output budget was escalated keeps it on every later request, of
\* this turn and of the next ones.
BudgetKept == [][request.budget = "escalated" => request'.budget = "escalated"]_request

\* The current model is kept across the calls of a Run: one that has turned to
\* the fallback stays with it.
FallbackKept == [][request.model = "fallback" => request'.model = "fallback"]_request
=============================================================================
