--------------------------- MODULE ModelCallProofs ---------------------------
(***************************************************************************)
(* Proofs about ModelCall, for every value of its bounds.  The invariant   *)
(* follows three things through the nested recoveries: what the recovery   *)
(* state in use says of the overloads so far, how many requests the stages *)
(* behind the current one may have sent, and who knows that the output     *)
(* budget was escalated.                                                   *)
(***************************************************************************)
EXTENDS ModelCall, TLAPS

Recovery == [model : {"primary", "fallback"}, overloads : 0 .. MaxOverloads - 1]

\* The recovery state s agrees with the answers the provider has given.
Tracks(s) ==
  IF tripped THEN s.model = "fallback" <=> settings.fallback
  ELSE s.model = "primary" /\ s.overloads = streak

\* Between turns the loop's state counts, during a call the executor's, and
\* they are the same where a call begins.
Following ==
  ~exceeded =>
    /\ pc = "idle" => Tracks(kept) /\ streak = 0
    /\ pc = "prepare" => current = kept
    /\ pc \in {"prepare", "sent"} => Tracks(current)
    /\ pc = "sent" => request.model = current.model

\* The requests of a turn before the one of this stage
Before == IF stage = "first" THEN 0 ELSE IF stage = "retry" THEN 1 ELSE continuations + 1

\* The calls of one built request, the first one and the retries, and those
\* of n requests that were each built twice
Tries == MaxRetries + 1
Spent(n) == 2 * Tries * n

Counting ==
  /\ stage = "continue" => continuations >= 1
  /\ pc = "prepare" => retry = 0
  /\ pc \in {"prepare", "sent"} =>
       calls <= Spent(Before) + (IF compacted THEN Tries ELSE 0)
                  + (IF pc = "sent" THEN retry + 1 ELSE 0)

\* Who knows that the last request carried the higher budget
Escalating ==
  /\ stage = "continue" => escalated
  /\ pc \in {"idle", "prepare", "sent"} /\ request.budget = "escalated" =>
       escalated \/ (pc # "idle" /\ stage # "first")

IInv == TypeOK /\ CallsBounded /\ Following /\ Counting /\ Escalating

-----------------------------------------------------------------------------
LEMMA BoundsAreNumbers ==
  /\ MaxTurns \in Nat /\ MaxTurns > 0 /\ MaxOverloads \in Nat /\ MaxOverloads > 0
  /\ MaxContinuations \in Nat /\ MaxContinuations > 0 /\ MaxRetries \in Nat
BY Bounds

\* The model and the row of overloads that a recovery state holds.
LEMMA Transitions ==
  ASSUME NEW s \in Recovery, settings \in [fallback : BOOLEAN, upgradable : BOOLEAN]
  PROVE  /\ AfterSuccess(s) \in Recovery
         /\ \A overload \in BOOLEAN : AfterError(s, overload) \in Recovery
BY BoundsAreNumbers DEF Recovery, AfterSuccess, AfterError

\* What a call keeps to itself
CallTyped ==
  /\ pc \in {"idle", "prepare", "sent", "completed", "raised"}
  /\ stage \in {"first", "retry", "continue"}
  /\ continuations \in 0 .. MaxContinuations
  /\ current \in Recovery
  /\ retry \in 0 .. MaxRetries
  /\ compacted \in BOOLEAN

LEMMA Entering ==
  ASSUME NEW s \in {"first", "retry", "continue"}, NEW n \in 0 .. MaxContinuations,
         NEW state \in Recovery, Enter(s, n, state)
  PROVE  CallTyped' /\ request' = request
<1>1. compacted' \in BOOLEAN
  BY DEF Enter
<1>2. retry' \in 0 .. MaxRetries
  BY BoundsAreNumbers DEF Enter
<1> QED BY <1>1, <1>2 DEF Enter, CallTyped

LEMMA TypeStep ==
  ASSUME TypeOK, [Next]_vars
  PROVE  TypeOK'
<1> USE BoundsAreNumbers DEF TypeOK
<1>r. /\ AfterSuccess(current) \in Recovery
      /\ \A overload \in BOOLEAN : AfterError(current, overload) \in Recovery
  BY Transitions DEF Recovery
<1>s. \A m \in {"primary", "fallback"} :
        [model |-> m, budget |-> Budget]
          \in [model : {"primary", "fallback"}, budget : {"initial", "escalated"}]
  BY DEF Budget
<1>1. CASE Generate
  BY <1>1, Entering DEF Generate, CallTyped, Recovery
<1>2. CASE Prepare
  BY <1>2, <1>s DEF Prepare, Send, loop
<1>3. CASE ContextExceeded
  <2>1. compacted' \in BOOLEAN
    BY <1>3 DEF ContextExceeded, Raised, call
  <2>2. exceeded' \in BOOLEAN
    BY <1>3 DEF ContextExceeded
  <2>3. retry' \in 0 .. MaxRetries
    BY <1>3 DEF ContextExceeded, Raised, call
  <2> QED BY <1>3, <2>1, <2>2, <2>3 DEF ContextExceeded, Raised, loop, call
<1>4. CASE Fails
  BY <1>4 DEF Fails, Raised, loop, call, history
<1>5. ASSUME NEW overload \in BOOLEAN, TransientError(overload)
      PROVE  TypeOK'
  <2>1. streak' \in 0 .. MaxOverloads /\ tripped' \in BOOLEAN
    BY <1>5 DEF TransientError, Count
  <2>2. CASE Raised
    BY <1>5, <2>1, <2>2 DEF TransientError, Raised, Send, loop, call
  <2>3. CASE retry < MaxRetries /\ current' = AfterError(current, overload)
             /\ retry' = retry + 1 /\ Send(current'.model)
             /\ UNCHANGED <<pc, stage, continuations, compacted>>
    <3>1. current' \in Recovery /\ current'.model \in {"primary", "fallback"}
      BY <2>3, <1>r DEF Recovery
    <3>2. request' \in [model : {"primary", "fallback"}, budget : {"initial", "escalated"}]
      BY <2>3, <3>1, <1>s DEF Send
    <3> QED BY <1>5, <2>1, <2>3, <3>1, <3>2 DEF TransientError, Send, loop, Recovery
  <2> QED BY <1>5, <2>2, <2>3 DEF TransientError
<1>6. ASSUME NEW response \in Responses, Respond(response)
      PROVE  TypeOK'
  <2>1. kept' \in Recovery /\ escalated' \in BOOLEAN
    BY <1>6, <1>r DEF Respond
  <2>2. CASE \/ Accepted("completed") \/ Accepted("idle") \/ Raised
    BY <1>6, <2>1, <2>2 DEF Respond, Accepted, Raised, call, Recovery
  <2>3. CASE CutText
    <3>1. CASE Raised
      BY <1>6, <2>1, <3>1 DEF Respond, Raised, call, Recovery
    <3>2. CASE \E s \in {"retry", "continue"}, n \in 0 .. MaxContinuations :
                 Enter(s, n, AfterSuccess(current))
      BY <1>6, <1>r, <2>1, <3>2, Entering DEF Respond, CallTyped, Recovery
    <3> QED BY <2>3, <3>1, <3>2 DEF CutText
  <2> QED BY <1>6, <2>2, <2>3 DEF Respond
<1>7. CASE UNCHANGED vars
  BY <1>7 DEF vars, loop, call, history
<1> QED BY <1>1, <1>2, <1>3, <1>4, <1>5, <1>6, <1>7 DEF Next

-----------------------------------------------------------------------------
\* Only the response to a "retry" says that the budget is the higher one, and
\* a stage after the first one has it whoever says so.
LEMMA EscalatingStep ==
  ASSUME TypeOK, Escalating, [Next]_vars
  PROVE  Escalating'
<1> USE DEF TypeOK, Escalating
<1>1. CASE Generate
  BY <1>1 DEF Generate, Enter
<1>2. CASE Prepare
  BY <1>2 DEF Prepare, Send, Budget, loop
<1>3. CASE ContextExceeded
  BY <1>3 DEF ContextExceeded, Raised, loop, call
<1>4. CASE Fails
  BY <1>4 DEF Fails, Raised, loop, call
<1>5. ASSUME NEW overload \in BOOLEAN, TransientError(overload)
      PROVE  Escalating'
  BY <1>5 DEF TransientError, Raised, Send, Budget, loop, call
<1>6. ASSUME NEW response \in Responses, Respond(response)
      PROVE  Escalating'
  <2>1. CASE \/ Accepted("completed") \/ Accepted("idle") \/ Raised
    BY <1>6, <2>1 DEF Respond, Accepted, Raised, call
  <2>2. CASE CutText
    BY <1>6, <2>2 DEF Respond, CutText, Enter, Raised, call
  <2> QED BY <1>6, <2>1, <2>2 DEF Respond
<1>7. CASE UNCHANGED vars
  BY <1>7 DEF vars, loop, call
<1> QED BY <1>1, <1>2, <1>3, <1>4, <1>5, <1>6, <1>7 DEF Next

\* The row of overloads is counted where the current state counts it, except by
\* a call that began anew after it exceeded the window.
LEMMA FollowingStep ==
  ASSUME TypeOK, Following, [Next]_vars
  PROVE  Following'
<1> USE BoundsAreNumbers DEF TypeOK, Following, Tracks
<1>1. CASE Generate
  BY <1>1 DEF Generate, Enter
<1>2. CASE Prepare
  BY <1>2 DEF Prepare, Send, loop
<1>3. CASE ContextExceeded
  BY <1>3 DEF ContextExceeded
<1>4. CASE Fails
  BY <1>4 DEF Fails, Raised, loop, call, history
<1>5. ASSUME NEW overload \in BOOLEAN, TransientError(overload)
      PROVE  Following'
  <2>1. CASE Raised
    BY <1>5, <2>1 DEF TransientError, Raised, loop, call
  <2>2. CASE retry < MaxRetries /\ current' = AfterError(current, overload)
             /\ retry' = retry + 1 /\ Send(current'.model)
             /\ UNCHANGED <<pc, stage, continuations, compacted>>
    BY <1>5, <2>2 DEF TransientError, AfterError, Count, Send, loop
  <2> QED BY <1>5, <2>1, <2>2 DEF TransientError
<1>6. ASSUME NEW response \in Responses, Respond(response)
      PROVE  Following'
  <2>1. CASE \/ Accepted("completed") \/ Accepted("idle") \/ Raised
    BY <1>6, <2>1 DEF Respond, Accepted, Raised, call, AfterSuccess
  <2>2. CASE CutText
    BY <1>6, <2>2 DEF Respond, CutText, Enter, Raised, call, AfterSuccess
  <2> QED BY <1>6, <2>1, <2>2 DEF Respond
<1>7. CASE UNCHANGED vars
  BY <1>7 DEF vars, loop, call, history
<1> QED BY <1>1, <1>2, <1>3, <1>4, <1>5, <1>6, <1>7 DEF Next

-----------------------------------------------------------------------------
\* What all the requests of a turn may spend
Most == 2 * (MaxRetries + 1) * (2 + MaxContinuations)

LEMMA OneMore ==
  ASSUME NEW n \in Nat
  PROVE  Spent(n) \in Nat /\ Spent(n + 1) = Spent(n) + 2 * Tries
BY BoundsAreNumbers DEF Spent, Tries

LEMMA Monotone ==
  ASSUME NEW m \in Nat, NEW n \in Nat, m <= n
  PROVE  Spent(m) <= Spent(n)
<1>1. PICK d \in Nat : n = m + d
  <2>1. n - m \in Nat /\ n = m + (n - m)
    OBVIOUS
  <2> QED BY <2>1
<1>2. Tries \in Nat
  BY BoundsAreNumbers DEF Tries
<1>3. 2 * Tries * (m + d) = 2 * Tries * m + 2 * Tries * d
  BY <1>2
<1>4. 2 * Tries * d \in Nat /\ 2 * Tries * m \in Nat
  BY <1>2
<1> QED BY <1>1, <1>3, <1>4 DEF Spent

\* A stage that has not sent more than its share leaves the turn within what
\* all its stages may send.
LEMMA Share ==
  ASSUME NEW n \in 0 .. MaxContinuations + 1, NEW k \in 0 .. 2 * Tries
  PROVE  /\ Spent(n) \in Nat /\ Spent(n) + k <= Spent(n + 1)
         /\ Spent(n) + k <= Most /\ Most \in Nat
<1>1. n \in Nat /\ n + 1 \in Nat /\ 2 + MaxContinuations \in Nat /\ Tries \in Nat
  BY BoundsAreNumbers DEF Tries
<1>2. Spent(n) \in Nat /\ Spent(n + 1) = Spent(n) + 2 * Tries
  BY <1>1, OneMore
<1>3. Spent(n + 1) <= Spent(2 + MaxContinuations)
  BY <1>1, Monotone, BoundsAreNumbers
<1>4. Spent(n + 1) \in Nat /\ Spent(2 + MaxContinuations) \in Nat
  BY <1>1, OneMore
<1>5. k \in Nat /\ k <= 2 * Tries
  BY <1>1
<1>6. Spent(n) + k <= Spent(n + 1)
  BY <1>2, <1>5, <1>1
<1>7. Spent(n) + k <= Spent(2 + MaxContinuations)
  BY <1>2, <1>3, <1>4, <1>5, <1>6
<1>8. Most = Spent(2 + MaxContinuations)
  BY DEF Spent, Most, Tries
<1> QED BY <1>2, <1>4, <1>6, <1>7, <1>8

\* A stage begins with what the stages before it may have sent, and each call
\* in it is one of the tries of its two builds.
LEMMA CountingStep ==
  ASSUME TypeOK, Counting, CallsBounded, [Next]_vars
  PROVE  Counting' /\ CallsBounded'
<1> DEFINE Builds == IF compacted THEN Tries ELSE 0
<1>b. Before \in 0 .. MaxContinuations + 1
  BY BoundsAreNumbers DEF TypeOK, Before
<1>t. Tries \in Nat /\ Tries = MaxRetries + 1 /\ Builds \in {0, Tries}
  BY BoundsAreNumbers DEF Tries
<1>z. Spent(0) = 0 /\ Spent(Before) \in Nat
  BY <1>b, <1>t, OneMore DEF Spent
<1>n. calls \in Nat /\ retry \in 0 .. MaxRetries /\ MaxRetries \in Nat
  BY BoundsAreNumbers DEF TypeOK
\* what may have been sent when the stage ends
<1>e. pc \in {"prepare", "sent"} => calls <= Spent(Before + 1)
  <2> SUFFICES ASSUME pc \in {"prepare", "sent"} PROVE calls <= Spent(Before + 1)
    OBVIOUS
  <2> DEFINE k == Builds + (IF pc = "sent" THEN retry + 1 ELSE 0)
  <2>1. k \in 0 .. 2 * Tries
    BY <1>t, <1>n
  <2>2. calls <= Spent(Before) + k
    BY <1>t, <1>n, <1>z DEF Counting
  <2>3. Spent(Before) + k <= Spent(Before + 1)
    BY <1>b, <2>1, Share
  <2>4. Spent(Before + 1) \in Nat
    BY <1>b, OneMore, BoundsAreNumbers
  <2> HIDE DEF k
  <2> QED BY <1>n, <1>z, <2>1, <2>2, <2>3, <2>4
<1>1. CASE Generate
  <2>1. pc' = "prepare" /\ stage' = "first" /\ retry' = 0 /\ calls' = 0
    BY <1>1 DEF Generate, Enter
  <2>2. ~compacted'
    BY <1>1 DEF Generate, Enter
  <2>3. Before' = 0
    BY <2>1 DEF Before
  <2>4. calls' <= Most
    BY <2>1, <1>t, <1>n, <1>b, Share
  <2>5. CallsBounded'
    BY <2>4 DEF CallsBounded, Most
  <2> QED BY <2>1, <2>2, <2>3, <2>5, <1>z DEF Counting
<1>2. CASE Prepare
  <2>1. pc = "prepare" /\ pc' = "sent" /\ retry = 0 /\ retry' = 0 /\ calls' = calls + 1
    BY <1>2 DEF Prepare, Send, Counting
  <2>2. UNCHANGED <<stage, continuations, compacted>> /\ Before' = Before
    BY <1>2 DEF Prepare, Before
  <2>3. calls' <= Spent(Before) + (Builds + 1)
    BY <2>1, <1>t, <1>n, <1>z DEF Counting
  <2>4. Builds + 1 \in 0 .. 2 * Tries
    BY <1>t, <1>n
  <2>5. calls' <= Most
    BY <2>1, <2>3, <2>4, <1>b, <1>n, <1>t, <1>z, Share
  <2>6. CallsBounded'
    BY <2>5 DEF CallsBounded, Most
  <2> QED BY <2>1, <2>2, <2>3, <2>6, <1>t, <1>n, <1>z DEF Counting
<1>3. CASE ContextExceeded
  <2>1. calls' = calls /\ CallsBounded'
    BY <1>3 DEF ContextExceeded, CallsBounded
  <2>2. CASE Raised
    BY <1>3, <2>1, <2>2 DEF Counting, Raised, call
  <2>3. CASE /\ ~compacted /\ pc' = "prepare" /\ compacted' /\ retry' = 0
             /\ UNCHANGED <<stage, continuations>>
    <3>1. Before' = Before
      BY <2>3 DEF Before
    <3>2. calls <= Spent(Before) + Tries
      BY <1>3, <2>3, <1>n, <1>t, <1>z DEF Counting, ContextExceeded
    <3> QED BY <2>1, <2>3, <3>1, <3>2, <1>n, <1>t, <1>z DEF Counting
  <2> QED BY <1>3, <2>2, <2>3 DEF ContextExceeded
<1>4. CASE Fails
  BY <1>4 DEF Fails, Raised, call, history, Counting, CallsBounded
<1>5. ASSUME NEW overload \in BOOLEAN, TransientError(overload)
      PROVE  Counting' /\ CallsBounded'
  <2>1. CASE Raised /\ calls' = calls
    BY <2>1 DEF Counting, CallsBounded, Raised, call
  <2>2. CASE /\ retry < MaxRetries /\ retry' = retry + 1 /\ calls' = calls + 1
             /\ UNCHANGED <<pc, stage, continuations, compacted>>
    <3>1. pc = "sent" /\ Before' = Before
      BY <1>5, <2>2 DEF TransientError, Before
    <3>2. calls' <= Spent(Before) + (Builds + (retry + 2))
      BY <2>2, <3>1, <1>t, <1>n, <1>z DEF Counting
    <3>3. Builds + (retry + 2) \in 0 .. 2 * Tries
      BY <2>2, <1>t, <1>n
    <3>4. calls' <= Most
      BY <2>2, <3>2, <3>3, <1>b, <1>n, <1>t, <1>z, Share
    <3>5. CallsBounded'
      BY <3>4 DEF CallsBounded, Most
    <3> QED BY <2>2, <3>1, <3>2, <3>5, <1>t, <1>n, <1>z DEF Counting
  <2> QED BY <1>5, <2>1, <2>2 DEF TransientError, Send
<1>6. ASSUME NEW response \in Responses, Respond(response)
      PROVE  Counting' /\ CallsBounded'
  <2>1. pc = "sent" /\ calls' = calls /\ CallsBounded'
    BY <1>6 DEF Respond, CallsBounded
  <2>2. CASE \/ Accepted("completed") \/ Accepted("idle") \/ Raised
    BY <2>1, <2>2 DEF Counting, Accepted, Raised, call
  <2>3. CASE CutText
    <3>1. CASE Raised
      BY <2>1, <3>1 DEF Counting, Raised, call
    <3>2. CASE stage = "first" /\ Enter("retry", 0, AfterSuccess(current))
      <4>1. Before = 0 /\ Before' = Before + 1
        BY <3>2 DEF Enter, Before
      <4>2. pc' = "prepare" /\ stage' = "retry" /\ retry' = 0
        BY <3>2 DEF Enter
      <4>3. ~compacted'
        BY <3>2 DEF Enter
      <4>4. Spent(Before + 1) \in Nat
        BY <4>1, OneMore
      <4> QED BY <2>1, <4>1, <4>2, <4>3, <4>4, <1>e, <1>n DEF Counting
    <3>3. CASE stage # "continue" /\ Enter("continue", 1, AfterSuccess(current))
      <4>1. Before \in {0, 1} /\ Before' = 2
        BY <3>3 DEF Enter, Before, TypeOK
      <4>2. pc' = "prepare" /\ continuations' = 1 /\ retry' = 0
        BY <3>3 DEF Enter
      <4>3. ~compacted'
        BY <3>3 DEF Enter
      <4>4. Spent(Before + 1) <= Spent(2) /\ Spent(Before + 1) \in Nat /\ Spent(2) \in Nat
        BY <4>1, Monotone, OneMore
      <4> QED BY <2>1, <4>1, <4>2, <4>3, <4>4, <1>e, <1>n DEF Counting
    <3>4. CASE stage = "continue" /\ Enter("continue", continuations + 1, AfterSuccess(current))
      <4>1. Before' = Before + 1
        BY <3>4 DEF Enter, Before, TypeOK
      <4>2. pc' = "prepare" /\ continuations' >= 1 /\ retry' = 0
        BY <3>4 DEF Enter, TypeOK
      <4>3. ~compacted'
        BY <3>4 DEF Enter
      <4> QED BY <2>1, <4>1, <4>2, <4>3, <1>e, <1>b, <1>n, OneMore DEF Counting
    <3> QED BY <2>3, <3>1, <3>2, <3>3, <3>4 DEF CutText
  <2> QED BY <1>6, <2>2, <2>3 DEF Respond
<1>7. CASE UNCHANGED vars
  <2>1. UNCHANGED <<pc, stage, continuations, retry, compacted, calls>>
    BY <1>7 DEF vars, call, history
  <2>2. Before' = Before
    BY <2>1 DEF Before
  <2>3. CallsBounded'
    BY <2>1 DEF CallsBounded
  <2> QED BY <2>1, <2>2, <2>3 DEF Counting
<1> QED BY <1>1, <1>2, <1>3, <1>4, <1>5, <1>6, <1>7 DEF Next

-----------------------------------------------------------------------------
LEMMA InitHolds == Init => IInv
<1> SUFFICES ASSUME Init PROVE IInv
  OBVIOUS
<1> USE BoundsAreNumbers
<1>1. kept \in Recovery /\ current \in Recovery
  BY DEF Init, Recovery
<1>2. compacted \in BOOLEAN /\ escalated \in BOOLEAN /\ tripped \in BOOLEAN /\ exceeded \in BOOLEAN
  BY DEF Init
<1>3. request \in [model : {"primary", "fallback"}, budget : {"initial", "escalated"}]
  BY DEF Init
<1>4. TypeOK
  BY <1>1, <1>2, <1>3 DEF Init, TypeOK, Recovery
<1>5. CallsBounded
  BY Share, OneMore DEF Init, CallsBounded, Most
<1>6. Following
  BY DEF Init, Following, Tracks
<1>7. Counting /\ Escalating
  BY DEF Init, Counting, Escalating
<1> QED BY <1>4, <1>5, <1>6, <1>7 DEF IInv

LEMMA Inductive == IInv /\ [Next]_vars => IInv'
BY TypeStep, CountingStep, FollowingStep, EscalatingStep DEF IInv

LEMMA Invariant == Spec => []IInv
BY InitHolds, Inductive, PTL DEF Spec

\* For any bounds, and both kinds of settings, every variable of the model has
\* the shape that the code's objects have.
THEOREM CallTypeCorrect == Spec => []TypeOK
<1>1. IInv => TypeOK
  BY DEF IInv
<1> QED BY Invariant, <1>1, PTL

\* However the recoveries of _generate nest, a turn sends no more requests than
\* the product of their bounds.
THEOREM RecoveriesBounded == Spec => []CallsBounded
<1>1. IInv => CallsBounded
  BY DEF IInv
<1> QED BY Invariant, <1>1, PTL

\* The row of overloads that turns the calls to the fallback model is counted
\* right over the retries, stages and turns it spreads over.
THEOREM FallbackWhenOverloaded == Spec => []FallbackAfterOverloads
<1>1. IInv => FallbackAfterOverloads
  BY BoundsAreNumbers DEF IInv, Following, Tracks, TypeOK, FallbackAfterOverloads
<1> QED BY Invariant, <1>1, PTL

\* The executor's local flag and the stages of one turn together never forget
\* that the output budget was escalated.
THEOREM BudgetStaysEscalated == Spec => BudgetKept
<1>1. IInv /\ [Next]_vars =>
        [request.budget = "escalated" => request'.budget = "escalated"]_request
  <2> SUFFICES ASSUME IInv, Next, request.budget = "escalated", request' # request
               PROVE  request'.budget = "escalated"
    BY DEF vars, call
  <2>1. CASE Prepare
    BY <2>1 DEF Prepare, Send, Budget, IInv, Escalating
  <2>2. ASSUME NEW overload \in BOOLEAN, TransientError(overload)
        PROVE  request'.budget = "escalated"
    BY <2>2 DEF TransientError, Raised, call, Send, Budget, IInv, Escalating
  <2>3. CASE Generate \/ ContextExceeded \/ Fails
    BY <2>3 DEF Generate, Enter, ContextExceeded, Fails, Raised, call
  <2>4. ASSUME NEW response \in Responses, Respond(response)
        PROVE  request' = request
    BY <2>4 DEF Respond, Accepted, CutText, Enter, Raised, call
  <2> QED BY <2>1, <2>2, <2>3, <2>4 DEF Next
<1> QED BY Invariant, <1>1, PTL DEF Spec, BudgetKept
=============================================================================
