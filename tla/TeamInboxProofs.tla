--------------------------- MODULE TeamInboxProofs ---------------------------
(***************************************************************************)
(* Proofs about the inboxes and the runners, for any team, any number of   *)
(* messages, any batch size and however many calls raise.                  *)
(*                                                                         *)
(* TeamInv adds to the properties where every message is while a runner is *)
(* between two of its calls (Batch), where the request behind a confirmed  *)
(* stop has got to (Stopping), and what has become of each chore (Free and *)
(* Taken).  A step of one runner is followed through its own box; to the   *)
(* others it is a delivery at the end of theirs (Quiet), which nothing     *)
(* here minds: what is oldest stays oldest.                                *)
(***************************************************************************)
EXTENDS TeamInbox, TLAPS, SequenceTheorems, FiniteSetTheorems,
        WellFoundedInduction

-----------------------------------------------------------------------------
(* Types, by the stores the variables belong to. *)

TeamOK ==
  /\ roster \subseteq Owners
  /\ hiring \in [step : {"none", "enter", "start"}, who : Owners \cup {None}]

MailOK == inbox \in [Owners -> Seq(Messages)]

RecordOK ==
  /\ assigned \in [Assignments -> Members \cup {None}]
  /\ request \in [Members -> {"none", "pending", "approved"}]

RunnerOK ==
  /\ at \in [Owners -> Places]
  /\ held \in [Owners -> SUBSET Nat] /\ todo \in [Owners -> SUBSET Nat]
  /\ agent \in [Owners -> SUBSET Nat] /\ lost \in [Owners -> SUBSET Nat]

ChoreOK ==
  /\ work \in [Chores -> [status : {"pending", "in_progress", "completed"},
                          owner : Owners \cup {None}]]
  /\ doing \in [Members -> [task : Chores \cup {None}, run : Nat]]
  /\ untold \subseteq Chores

SessionOK ==
  /\ runs \in [Members -> Nat]
  /\ wedged \in [Owners -> BOOLEAN]
  /\ gate \in {None, Lead, Other}
  /\ faults \in 0 .. MaxFaults /\ fails \in 0 .. MaxFails

LEMMA TypeParts ==
  TypeOK <=> TeamOK /\ MailOK /\ RecordOK /\ RunnerOK /\ ChoreOK /\ SessionOK
BY DEF TypeOK, TeamOK, MailOK, RecordOK, RunnerOK, ChoreOK, SessionOK

LEMMA PartsType ==
  TeamOK' /\ MailOK' /\ RecordOK' /\ RunnerOK' /\ ChoreOK' /\ SessionOK' => TypeOK'
BY DEF TypeOK, TeamOK, MailOK, RecordOK, RunnerOK, ChoreOK, SessionOK

-----------------------------------------------------------------------------
(* Messages. *)

LEMMA MessageType ==
  ASSUME NEW k \in Messages
  PROVE  /\ k.kind \in ForAgent \cup {"shutdown", "response"}
         /\ k.status \in Statuses
         /\ k.kind = "assignment" => k.of \in Assignments
         /\ k.kind \in {"shutdown", "response"} => k.of \in Members
BY DEF Messages, ForAgent

\* The status of a message is all that changes of it.
LEMMA MessageMarked ==
  ASSUME NEW k \in Messages, NEW s \in Statuses
  PROVE  LET next == [k EXCEPT !.status = s] IN
         next \in Messages /\ next.kind = k.kind /\ next.of = k.of /\ next.status = s
<1>1. CASE k \in [kind : {"plain"}, of : Plains, status : Statuses]
  BY <1>1 DEF Messages
<1>2. CASE k \in [kind : {"assignment"}, of : Assignments, status : Statuses]
  BY <1>2 DEF Messages
<1>3. CASE k \in [kind : {"shutdown", "response"}, of : Members, status : Statuses]
  BY <1>3 DEF Messages
<1>4. CASE k \in [kind : {"result"}, of : Results, status : Statuses]
  BY <1>4 DEF Messages
<1>5. CASE k \in [kind : {"verdict"}, of : Verdicts, status : Statuses]
  BY <1>5 DEF Messages
<1> QED BY <1>1, <1>2, <1>3, <1>4, <1>5 DEF Messages

LEMMA BoxDomain ==
  ASSUME MailOK, NEW r \in Owners
  PROVE  /\ Len(inbox[r]) \in Nat /\ DOMAIN inbox[r] = 1 .. Len(inbox[r])
         /\ IsFiniteSet(DOMAIN inbox[r])
         /\ \A i \in DOMAIN inbox[r] : inbox[r][i] \in Messages /\ i \in Nat
<1>1. inbox[r] \in Seq(Messages)
  BY DEF MailOK
<1>2. Len(inbox[r]) \in Nat /\ DOMAIN inbox[r] = 1 .. Len(inbox[r])
  BY <1>1, LenProperties
<1>3. \A i \in DOMAIN inbox[r] : inbox[r][i] \in Messages
  BY <1>1, <1>2, ElementOfSeq
<1>4. IsFiniteSet(1 .. Len(inbox[r]))
  BY <1>2, FS_Interval
<1> QED BY <1>2, <1>3, <1>4

\* One message more, last and unread, unless its key is there.
Delivered(old, new, kind, of) ==
  /\ DOMAIN old \subseteq DOMAIN new
  /\ \A i \in DOMAIN old : new[i] = old[i]
  /\ \A i \in DOMAIN new \ DOMAIN old :
       /\ new[i] = [kind |-> kind, of |-> of, status |-> "unread"]
       /\ \A j \in DOMAIN old : j < i /\ ~(old[j].kind = kind /\ old[j].of = of)
       /\ \A j \in DOMAIN new \ DOMAIN old : i = j
  /\ \E i \in DOMAIN new : new[i].kind = kind /\ new[i].of = of

LEMMA SentMail ==
  ASSUME MailOK, NEW r \in Owners, NEW kind, NEW of,
         [kind |-> kind, of |-> of, status |-> "unread"] \in Messages,
         inbox' = Sent(r, kind, of)
  PROVE  /\ MailOK'
         /\ \A q \in Owners \ {r} : inbox'[q] = inbox[q]
         /\ Delivered(inbox[r], inbox'[r], kind, of)
<1> DEFINE k == [kind |-> kind, of |-> of, status |-> "unread"]
<1>1. CASE Holds(r, kind, of)
  <2>1. inbox' = inbox
    BY <1>1 DEF Sent
  <2> QED BY <1>1, <2>1 DEF MailOK, Holds, Delivered
<1>2. CASE ~Holds(r, kind, of)
  <2>0. k.kind = kind /\ k.of = of
    OBVIOUS
  <2>1. inbox' = [inbox EXCEPT ![r] = Append(inbox[r], k)]
    BY <1>2 DEF Sent
  <2> HIDE DEF k
  <2>2. inbox[r] \in Seq(Messages) /\ k \in Messages
    BY DEF MailOK, k
  <2>3. /\ Append(inbox[r], k) \in Seq(Messages)
        /\ DOMAIN Append(inbox[r], k) = 1 .. Len(inbox[r]) + 1
        /\ \A i \in 1 .. Len(inbox[r]) : Append(inbox[r], k)[i] = inbox[r][i]
        /\ Append(inbox[r], k)[Len(inbox[r]) + 1] = k
    BY <2>2, AppendProperties, LenProperties
  <2>4. /\ inbox' \in [Owners -> Seq(Messages)]
        /\ inbox'[r] = Append(inbox[r], k)
        /\ \A q \in Owners \ {r} : inbox'[q] = inbox[q]
    BY <2>1, <2>3 DEF MailOK
  <2>5. Len(inbox[r]) \in Nat /\ DOMAIN inbox[r] = 1 .. Len(inbox[r])
    BY BoxDomain
  <2>6. \A j \in DOMAIN inbox[r] : ~(inbox[r][j].kind = kind /\ inbox[r][j].of = of)
    BY <1>2 DEF Holds
  <2>7. Delivered(inbox[r], inbox'[r], kind, of)
    <3> DEFINE l == Len(inbox[r])
    <3>1. DOMAIN inbox'[r] \ DOMAIN inbox[r] = {l + 1}
      BY <2>3, <2>4, <2>5
    <3>2. l + 1 \in DOMAIN inbox'[r] /\ inbox'[r][l + 1] = k
      BY <2>3, <2>4, <2>5
    <3>3. \A i \in DOMAIN inbox[r] : inbox'[r][i] = inbox[r][i] /\ i < l + 1
      BY <2>3, <2>4, <2>5
    <3>4. DOMAIN inbox[r] \subseteq DOMAIN inbox'[r]
      BY <2>3, <2>4, <2>5
    <3> HIDE DEF l
    <3> QED BY <2>0, <2>6, <3>1, <3>2, <3>3, <3>4 DEF Delivered, k
  <2> QED BY <2>4, <2>7 DEF MailOK
<1> QED BY <1>1, <1>2

LEMMA MarkedMail ==
  ASSUME MailOK, NEW r \in Owners, NEW S, NEW s \in Statuses,
         inbox' = Marked(r, S, s)
  PROVE  /\ MailOK'
         /\ \A q \in Owners \ {r} : inbox'[q] = inbox[q]
         /\ DOMAIN inbox'[r] = DOMAIN inbox[r]
         /\ \A i \in DOMAIN inbox[r] :
              /\ inbox'[r][i].kind = inbox[r][i].kind
              /\ inbox'[r][i].of = inbox[r][i].of
              /\ inbox'[r][i].status = IF i \in S THEN s ELSE inbox[r][i].status
<1> DEFINE box == [i \in DOMAIN inbox[r] |->
                     IF i \in S THEN [inbox[r][i] EXCEPT !.status = s] ELSE inbox[r][i]]
<1>1. \A i \in DOMAIN inbox[r] :
        /\ box[i] \in Messages
        /\ box[i].kind = inbox[r][i].kind /\ box[i].of = inbox[r][i].of
        /\ box[i].status = IF i \in S THEN s ELSE inbox[r][i].status
  BY BoxDomain, MessageMarked
<1>2. box \in Seq(Messages) /\ DOMAIN box = DOMAIN inbox[r]
  <2>1. box \in [1 .. Len(inbox[r]) -> Messages] /\ Len(inbox[r]) \in Nat
    BY <1>1, BoxDomain
  <2> HIDE DEF box
  <2>2. box \in Seq(Messages)
    BY <2>1, SeqDef
  <2> QED BY <2>1, <2>2, BoxDomain
<1>3. inbox' = [inbox EXCEPT ![r] = box]
  BY DEF Marked
<1> HIDE DEF box
<1>4. /\ inbox' \in [Owners -> Seq(Messages)] /\ inbox'[r] = box
      /\ \A q \in Owners \ {r} : inbox'[q] = inbox[q]
  BY <1>2, <1>3 DEF MailOK
<1> QED BY <1>1, <1>2, <1>4 DEF MailOK

-----------------------------------------------------------------------------
(* What the messages, the runners and the chores have to do with each other. *)

\* A member is sent work and at most one request to stop; nobody stops the lead.
Letters ==
  /\ \A m \in Members : \A i \in DOMAIN inbox[m] :
       /\ inbox[m][i].kind \in {"plain", "assignment", "shutdown"}
       /\ inbox[m][i].kind = "shutdown" =>
            /\ inbox[m][i].of = m
            /\ \A j \in DOMAIN inbox[m] : inbox[m][j].kind = "shutdown" => i = j
  /\ \A i \in DOMAIN inbox[Lead] : inbox[Lead][i].kind # "shutdown"

\* Who has no file yet has no runner either.
Hired ==
  /\ hiring.step = "enter" => hiring.who = Lead /\ Lead \notin roster
  /\ hiring.step = "start" => hiring.who \in Owners \cap roster /\ at[hiring.who] = "none"
  /\ \A r \in Owners \ roster : at[r] = "none"

\* What a runner has reserved are the oldest messages it has not consumed, and
\* those it has dispatched are the agent's or the protocol's.
Batch(r) ==
  /\ held[r] \subseteq DOMAIN inbox[r]
  /\ todo[r] \subseteq held[r] /\ agent[r] \subseteq held[r]
  /\ \A i \in agent[r] : inbox[r][i].kind \in ForAgent
  /\ at[r] \in {"dispatch", "stopping"} => \A i \in System(r) : inbox[r][i].kind \notin ForAgent
  /\ at[r] \in {"none", "poll", "work", "verify"} => held[r] = {}
  /\ at[r] \in {"run", "report", "ack"} => todo[r] = {}
  /\ \A i \in held[r] : i \in Oldest(With(r, "unread") \cup held[r], BatchSize)

Resulted(box, m, a) ==
  \E j \in DOMAIN box : box[j].kind = "result" /\ box[j].of.by = m /\ a \in box[j].of.for

Reported(m) ==
  at[m] = "ack" => \A i \in agent[m] :
                     inbox[m][i].kind = "assignment" => Resulted(inbox[Lead], m, inbox[m][i].of)

ConsumedTold(m) ==
  \A i \in With(m, "consumed") :
    inbox[m][i].kind = "assignment" => Resulted(inbox[Lead], m, inbox[m][i].of)

\* Where the request of a confirmed stop is: whatever fails, the next batch has it
\* again before the agent gets anything.
Stopping(m, i) ==
  \/ i \in lost[m]
  \/ at[m] \in {"leave", "stopped", "dead"}
  \/ at[m] = "stopping" /\ (i \in System(m) \/ System(m) = {})
  \/ at[m] = "dispatch" /\ i \in todo[m]
  \/ at[m] = "release" /\ i \in held[m]
  \/ at[m] = "poll" /\ i \in Oldest(With(m, "unread"), BatchSize)

Confirmed(m) ==
  Holds(Lead, "response", m) =>
    \E i \in DOMAIN inbox[m] : inbox[m][i].kind = "shutdown" /\ Stopping(m, i)

Good(r) ==
  /\ Batch(r)
  /\ r \in Members => Reported(r) /\ ConsumedTold(r) /\ Confirmed(r)

\* A chore nobody has taken, and one somebody has.
Free(t) ==
  /\ work[t].status = "pending" /\ work[t].owner = None
  /\ VerdictsOn(t) = {} /\ t \notin untold
  /\ \A m \in Members : doing[m].task # t

Taken(t) ==
  /\ work[t].status # "pending" /\ work[t].owner \in Members
  /\ \A m \in Members : doing[m].task = t => m = work[t].owner
  /\ \/ doing[work[t].owner].task = t /\ VerdictsOn(t) = {} /\ t \notin untold
     \/ doing[work[t].owner].task # t /\ VerdictsOn(t) = {} /\ t \in untold
     \/ /\ doing[work[t].owner].task # t /\ t \notin untold
        /\ \E i \in DOMAIN inbox[Lead] : VerdictsOn(t) = {i}
  /\ \A i \in VerdictsOn(t) :
       /\ inbox[Lead][i].of.by = work[t].owner
       /\ inbox[Lead][i].of.completed =>
            work[t].status = "completed" /\ inbox[Lead][i].of.run # 0

Accounts ==
  /\ \A t \in Chores : Free(t) \/ Taken(t)
  /\ \A m \in Members : IF at[m] \in {"work", "verify"} THEN doing[m].task \in Chores
                                                         ELSE doing[m] = Idle

TeamInv ==
  TypeOK /\ Letters /\ Hired /\ (\A r \in Owners : Good(r)) /\ Accounts

-----------------------------------------------------------------------------
(* Deliveries to a box, seen from its reader. *)

Grown(q) ==
  /\ DOMAIN inbox[q] \subseteq DOMAIN inbox'[q]
  /\ \A i \in DOMAIN inbox[q] : /\ inbox'[q][i].kind = inbox[q][i].kind
                                /\ inbox'[q][i].of = inbox[q][i].of

Quiet(q) ==
  /\ Grown(q)
  /\ \A i \in DOMAIN inbox[q] : inbox'[q][i].status = inbox[q][i].status
  /\ \A i \in DOMAIN inbox'[q] \ DOMAIN inbox[q] :
       /\ inbox'[q][i].status = "unread"
       /\ \A j \in DOMAIN inbox[q] : ~(i < j) /\ i # j

LEMMA SameQuiet ==
  ASSUME NEW q \in Owners, inbox'[q] = inbox[q]
  PROVE  Quiet(q)
BY DEF Quiet, Grown

LEMMA SentQuiet ==
  ASSUME MailOK, NEW r \in Owners, NEW kind, NEW of,
         [kind |-> kind, of |-> of, status |-> "unread"] \in Messages,
         inbox' = Sent(r, kind, of)
  PROVE  /\ MailOK' /\ \A q \in Owners : Quiet(q)
         /\ \A q \in Owners : \A i \in DOMAIN inbox'[q] \ DOMAIN inbox[q] :
              q = r /\ inbox'[q][i].kind = kind /\ inbox'[q][i].of = of
         /\ \A i, j \in DOMAIN inbox'[r] \ DOMAIN inbox[r] : i = j
<1>1. /\ MailOK'
      /\ \A q \in Owners \ {r} : inbox'[q] = inbox[q]
      /\ Delivered(inbox[r], inbox'[r], kind, of)
  BY SentMail
<1>2. \A i \in DOMAIN inbox[r], j \in DOMAIN inbox'[r] : i \in Nat /\ j \in Nat
  BY <1>1, BoxDomain DEF Delivered, MailOK
<1>3. Quiet(r)
  BY <1>1, <1>2 DEF Delivered, Quiet, Grown
<1>4. \A q \in Owners \ {r} : Quiet(q)
  BY <1>1, SameQuiet
<1> QED BY <1>1, <1>3, <1>4 DEF Delivered

\* Of the oldest messages, those that remain are among the oldest that remain; and
\* what comes later is not older.
LEMMA OldestShrinks ==
  ASSUME NEW T, NEW S, S \subseteq T, IsFiniteSet(T), NEW i \in S, i \in Oldest(T, BatchSize)
  PROVE  i \in Oldest(S, BatchSize)
<1> DEFINE A == {j \in S : j < i}
           B == {j \in T : j < i}
<1>1. A \subseteq B /\ B \subseteq T
  OBVIOUS
<1>2. IsFiniteSet(B)
  BY <1>1, FS_Subset
<1>3. Cardinality(A) <= Cardinality(B) /\ Cardinality(A) \in Nat /\ Cardinality(B) \in Nat
  <2> HIDE DEF A, B
  <2> QED BY <1>1, <1>2, FS_Subset, FS_CardinalityType
<1>4. Cardinality(B) < BatchSize
  BY DEF Oldest
<1>5. Cardinality(A) < BatchSize
  <2> HIDE DEF A, B
  <2> QED BY <1>3, <1>4, SomeBatch
<1> QED BY <1>5 DEF Oldest

LEMMA OldestGrows ==
  ASSUME NEW S, NEW T, S \subseteq T, NEW i \in Oldest(S, BatchSize),
         \A j \in T \ S : ~(j < i)
  PROVE  i \in Oldest(T, BatchSize)
<1>1. {j \in T : j < i} = {j \in S : j < i}
  OBVIOUS
<1> QED BY <1>1 DEF Oldest

LEMMA QuietBatch ==
  ASSUME NEW q \in Owners, Batch(q), Quiet(q),
         at'[q] = at[q], held'[q] = held[q], todo'[q] = todo[q], agent'[q] = agent[q]
  PROVE  Batch(q)'
<1>1. /\ With(q, "unread") \subseteq With(q, "unread")'
      /\ \A j \in With(q, "unread")' \ With(q, "unread") :
           \A i \in DOMAIN inbox[q] : ~(j < i)
  BY DEF With, Quiet, Grown
<1>2. \A i \in held[q] : i \in Oldest(With(q, "unread")' \cup held[q], BatchSize)
  <2> SUFFICES ASSUME NEW i \in held[q]
               PROVE  i \in Oldest(With(q, "unread")' \cup held[q], BatchSize)
    OBVIOUS
  <2> DEFINE S == With(q, "unread") \cup held[q]
             T == With(q, "unread")' \cup held[q]
  <2>1. i \in Oldest(S, BatchSize) /\ i \in DOMAIN inbox[q]
    BY DEF Batch
  <2>2. S \subseteq T /\ \A j \in T \ S : ~(j < i)
    BY <1>1, <2>1
  <2> HIDE DEF S, T
  <2>3. i \in Oldest(T, BatchSize)
    BY <2>1, <2>2, OldestGrows
  <2> QED BY <2>3 DEF T
<1>3. \A i \in held[q] : i \in DOMAIN inbox'[q] /\ inbox'[q][i].kind = inbox[q][i].kind
  BY DEF Batch, Quiet, Grown
<1>4. System(q)' = System(q) /\ System(q) \subseteq held[q]
  BY DEF System
<1> QED BY <1>2, <1>3, <1>4 DEF Batch

LEMMA ResultedStays ==
  ASSUME Grown(Lead), NEW m, NEW a, Resulted(inbox[Lead], m, a)
  PROVE  Resulted(inbox'[Lead], m, a)
BY DEF Resulted, Grown

LEMMA GrownHolds ==
  ASSUME NEW q \in Owners, Grown(q), NEW kind, NEW of, Holds(q, kind, of)
  PROVE  Holds(q, kind, of)'
BY DEF Holds, Grown

LEMMA QuietReported ==
  ASSUME NEW m \in Members, Batch(m), Reported(m), Quiet(m), Grown(Lead),
         at'[m] = at[m], agent'[m] = agent[m]
  PROVE  Reported(m)'
<1> SUFFICES ASSUME at[m] = "ack", NEW i \in agent[m], inbox'[m][i].kind = "assignment"
             PROVE  Resulted(inbox'[Lead], m, inbox'[m][i].of)
  BY DEF Reported
<1>1. i \in DOMAIN inbox[m]
  BY DEF Batch
<1>2. inbox[m][i].kind = "assignment" /\ inbox'[m][i].of = inbox[m][i].of
  BY <1>1 DEF Quiet, Grown
<1>3. Resulted(inbox[Lead], m, inbox[m][i].of)
  BY <1>2 DEF Reported
<1> QED BY <1>2, <1>3, ResultedStays

LEMMA QuietConsumed ==
  ASSUME NEW m \in Members, ConsumedTold(m), Quiet(m), Grown(Lead)
  PROVE  ConsumedTold(m)'
<1> SUFFICES ASSUME NEW i \in DOMAIN inbox'[m], inbox'[m][i].status = "consumed",
                    inbox'[m][i].kind = "assignment"
             PROVE  Resulted(inbox'[Lead], m, inbox'[m][i].of)
  BY DEF ConsumedTold, With
<1>1. /\ i \in DOMAIN inbox[m] /\ inbox[m][i].status = "consumed"
      /\ inbox[m][i].kind = "assignment" /\ inbox'[m][i].of = inbox[m][i].of
  BY DEF Quiet, Grown
<1>2. Resulted(inbox[Lead], m, inbox[m][i].of)
  BY <1>1 DEF ConsumedTold, With
<1> QED BY <1>1, <1>2, ResultedStays

LEMMA QuietConfirmed ==
  ASSUME NEW m \in Members, Confirmed(m), Quiet(m),
         Holds(Lead, "response", m)' => Holds(Lead, "response", m),
         at'[m] = at[m], held'[m] = held[m], todo'[m] = todo[m], agent'[m] = agent[m],
         lost[m] \subseteq lost'[m]
  PROVE  Confirmed(m)'
<1> SUFFICES ASSUME Holds(Lead, "response", m)
             PROVE  \E i \in DOMAIN inbox'[m] :
                      inbox'[m][i].kind = "shutdown" /\ Stopping(m, i)'
  BY DEF Confirmed
<1>1. PICK i \in DOMAIN inbox[m] : inbox[m][i].kind = "shutdown" /\ Stopping(m, i)
  BY DEF Confirmed
<1>2. i \in DOMAIN inbox'[m] /\ inbox'[m][i].kind = "shutdown"
  BY <1>1 DEF Quiet, Grown
<1>3. System(m)' = System(m)
  BY DEF System
<1>4. i \in Oldest(With(m, "unread"), BatchSize) => i \in Oldest(With(m, "unread")', BatchSize)
  <2>1. /\ With(m, "unread") \subseteq With(m, "unread")'
        /\ \A j \in With(m, "unread")' \ With(m, "unread") : ~(j < i)
    BY <1>1 DEF With, Quiet, Grown
  <2> DEFINE S == With(m, "unread")
             T == With(m, "unread")'
  <2> HIDE DEF S, T
  <2>2. i \in Oldest(S, BatchSize) => i \in Oldest(T, BatchSize)
    BY <2>1, OldestGrows DEF S, T
  <2> QED BY <2>2 DEF S, T
<1>5. Stopping(m, i)'
  BY <1>1, <1>3, <1>4 DEF Stopping
<1> QED BY <1>2, <1>5

\* A runner whose own state stays as it is, whatever else happens.
LEMMA OthersGood ==
  ASSUME NEW q \in Owners, Good(q), Quiet(q), Grown(Lead),
         q \in Members /\ Holds(Lead, "response", q)' => Holds(Lead, "response", q),
         at'[q] = at[q], held'[q] = held[q], todo'[q] = todo[q], agent'[q] = agent[q],
         lost[q] \subseteq lost'[q]
  PROVE  Good(q)'
<1>1. Batch(q)'
  BY QuietBatch DEF Good
<1>2. ASSUME q \in Members PROVE Reported(q)' /\ ConsumedTold(q)' /\ Confirmed(q)'
  BY <1>2, QuietReported, QuietConsumed, QuietConfirmed DEF Good
<1> QED BY <1>1, <1>2 DEF Good

-----------------------------------------------------------------------------
(* Letters and accounts. *)

\* A message more that does not stop a second time.
LEMMA SentLetters ==
  ASSUME MailOK, Letters, NEW r \in Owners, NEW kind, NEW of,
         [kind |-> kind, of |-> of, status |-> "unread"] \in Messages,
         inbox' = Sent(r, kind, of),
         \/ r \in Members /\ kind \in {"plain", "assignment"}
         \/ r \in Members /\ kind = "shutdown" /\ of = r
         \/ r = Lead /\ kind # "shutdown"
  PROVE  Letters'
<1>1. /\ \A q \in Owners \ {r} : inbox'[q] = inbox[q]
      /\ Delivered(inbox[r], inbox'[r], kind, of)
  BY SentMail
<1>2. ASSUME NEW m \in Members, NEW i \in DOMAIN inbox'[m]
      PROVE  /\ inbox'[m][i].kind \in {"plain", "assignment", "shutdown"}
             /\ inbox'[m][i].kind = "shutdown" =>
                  /\ inbox'[m][i].of = m
                  /\ \A j \in DOMAIN inbox'[m] : inbox'[m][j].kind = "shutdown" => i = j
  <2>1. CASE m # r
    <3>1. inbox'[m] = inbox[m]
      BY <1>1, <2>1 DEF Owners
    <3> QED BY <3>1 DEF Letters
  <2>2. CASE m = r
    <3>1. r # Lead
      BY <2>2, Distinct
    <3>2. \A j \in DOMAIN inbox[m] : inbox[m][j].kind = "shutdown" => inbox[m][j].of = m
      BY DEF Letters
    <3> QED BY <1>1, <2>2, <3>1, <3>2 DEF Delivered, Letters
  <2> QED BY <2>1, <2>2
<1>3. ASSUME NEW i \in DOMAIN inbox'[Lead] PROVE inbox'[Lead][i].kind # "shutdown"
  <2>1. CASE r # Lead
    <3>1. inbox'[Lead] = inbox[Lead]
      BY <1>1, <2>1 DEF Owners
    <3> QED BY <3>1 DEF Letters
  <2>2. CASE r = Lead
    BY <1>1, <2>2, Distinct DEF Delivered, Letters
  <2> QED BY <2>1, <2>2
<1> QED BY <1>2, <1>3 DEF Letters

LEMMA KeptLetters ==
  ASSUME Letters, \A q \in Owners : Grown(q) /\ DOMAIN inbox'[q] = DOMAIN inbox[q]
  PROVE  Letters'
BY DEF Letters, Grown, Owners

LEMMA VerdictsKept ==
  ASSUME NEW t, Grown(Lead),
         \A i \in DOMAIN inbox'[Lead] \ DOMAIN inbox[Lead] :
            ~(inbox'[Lead][i].kind = "verdict" /\ inbox'[Lead][i].of.task = t)
  PROVE  /\ VerdictsOn(t)' = VerdictsOn(t)
         /\ \A i \in VerdictsOn(t) : inbox'[Lead][i].of = inbox[Lead][i].of
BY DEF VerdictsOn, Grown

LEMMA AccountsKept ==
  ASSUME Accounts, UNCHANGED chores, Grown(Lead),
         \A i \in DOMAIN inbox'[Lead] \ DOMAIN inbox[Lead] : inbox'[Lead][i].kind # "verdict",
         \A m \in Members : at'[m] \in {"work", "verify"} <=> at[m] \in {"work", "verify"}
  PROVE  Accounts'
<1>1. \A m \in Members : IF at'[m] \in {"work", "verify"} THEN doing'[m].task \in Chores
                                                         ELSE doing'[m] = Idle
  BY DEF Accounts, chores
<1>2. ASSUME NEW t \in Chores PROVE Free(t)' \/ Taken(t)'
  <2>1. /\ VerdictsOn(t)' = VerdictsOn(t)
        /\ \A i \in VerdictsOn(t) : inbox'[Lead][i].of = inbox[Lead][i].of
    BY VerdictsKept
  <2>2. CASE Free(t)
    BY <2>1, <2>2 DEF Free, chores
  <2>3. CASE Taken(t)
    BY <2>1, <2>3 DEF Taken, chores, Grown
  <2> QED BY <2>2, <2>3 DEF Accounts
<1> QED BY <1>1, <1>2 DEF Accounts

LEMMA HiredKept ==
  ASSUME Hired, UNCHANGED team, \A q \in Owners : at[q] = "none" => at'[q] = "none"
  PROVE  Hired'
BY DEF Hired, team

LEMMA TeamSame == TeamOK /\ UNCHANGED team => TeamOK'
BY DEF TeamOK, team

LEMMA RecordSame == RecordOK /\ UNCHANGED <<assigned, request>> => RecordOK'
BY DEF RecordOK

LEMMA RunnerSame == RunnerOK /\ UNCHANGED runners => RunnerOK'
BY DEF RunnerOK, runners

LEMMA ChoreSame == ChoreOK /\ UNCHANGED chores => ChoreOK'
BY DEF ChoreOK, chores

LEMMA SessionSame ==
  SessionOK /\ UNCHANGED sessions /\ (Fault \/ UNCHANGED faults) => SessionOK'
BY Bounds DEF SessionOK, sessions, Fault

-----------------------------------------------------------------------------
(* The tools and the team. *)

\* Messages only: everybody's state stays as it is.
LEMMA SentGood ==
  ASSUME TeamInv, NEW r \in Owners, NEW kind, NEW of,
         [kind |-> kind, of |-> of, status |-> "unread"] \in Messages,
         inbox' = Sent(r, kind, of), UNCHANGED runners,
         kind # "response"
  PROVE  \A q \in Owners : Good(q)'
<1> SUFFICES ASSUME NEW q \in Owners PROVE Good(q)'
  OBVIOUS
<1>1. /\ Lead \in Owners /\ \A p \in Owners : Quiet(p)
      /\ \A p \in Owners : \A i \in DOMAIN inbox'[p] \ DOMAIN inbox[p] :
              p = r /\ inbox'[p][i].kind = kind /\ inbox'[p][i].of = of
  BY SentQuiet, TypeParts DEF TeamInv, Owners
<1>2. Grown(Lead)
  BY <1>1 DEF Quiet
<1>3. Holds(Lead, "response", q)' => Holds(Lead, "response", q)
  BY <1>1, <1>2 DEF Holds, Grown
<1>4. Good(q)
  BY DEF TeamInv
<1> QED BY <1>1, <1>2, <1>3, <1>4, OthersGood DEF runners

LEMMA SentInv ==
  ASSUME TeamInv, NEW r \in Owners, NEW kind, NEW of,
         [kind |-> kind, of |-> of, status |-> "unread"] \in Messages,
         inbox' = Sent(r, kind, of), UNCHANGED <<team, runners, chores>>,
         kind \notin {"response", "verdict"},
         \/ r \in Members /\ kind \in {"plain", "assignment"}
         \/ r \in Members /\ kind = "shutdown" /\ of = r
         \/ r = Lead /\ kind # "shutdown"
  PROVE  MailOK' /\ Letters' /\ Hired' /\ (\A q \in Owners : Good(q)') /\ Accounts'
<1>1. \A q \in Owners : Good(q)'
  BY SentGood
<1>2. Letters'
  BY SentLetters, TypeParts DEF TeamInv
<1>3. MailOK' /\ Grown(Lead)
      /\ \A i \in DOMAIN inbox'[Lead] \ DOMAIN inbox[Lead] : inbox'[Lead][i].kind # "verdict"
  <2>1. /\ MailOK' /\ Lead \in Owners /\ \A q \in Owners : Quiet(q)
        /\ \A q \in Owners : \A i \in DOMAIN inbox'[q] \ DOMAIN inbox[q] :
             q = r /\ inbox'[q][i].kind = kind /\ inbox'[q][i].of = of
    BY SentQuiet, TypeParts DEF TeamInv, Owners
  <2> QED BY <2>1 DEF Quiet
<1>4. Accounts'
  BY <1>3, AccountsKept DEF TeamInv, runners
<1>5. Hired'
  BY HiredKept DEF TeamInv, runners
<1> QED BY <1>1, <1>2, <1>3, <1>4, <1>5

\* No file of a box and no runner is touched.
LEMMA NoMailInv ==
  ASSUME TeamInv, UNCHANGED <<inbox, runners>>
  PROVE  MailOK' /\ Letters' /\ (\A q \in Owners : Good(q)')
<1>1. \A q \in Owners : Quiet(q) /\ Good(q)
  BY SameQuiet DEF TeamInv
<1>2. Grown(Lead) /\ Lead \in Owners
  BY <1>1 DEF Quiet, Owners
<1>3. \A q \in Owners : Holds(Lead, "response", q)' => Holds(Lead, "response", q)
  BY DEF Holds
<1>4. \A q \in Owners : Good(q)'
  BY <1>1, <1>2, <1>3, OthersGood DEF runners
<1>5. MailOK' /\ Letters'
  BY TypeParts DEF TeamInv, MailOK, Letters
<1> QED BY <1>4, <1>5

LEMMA StutterInv ==
  ASSUME TeamInv, UNCHANGED <<team, inbox, runners, chores>>,
         RecordOK', SessionOK'
  PROVE  TeamInv'
<1>1. MailOK' /\ Letters' /\ (\A q \in Owners : Good(q)')
  BY NoMailInv
<1>2. Hired' /\ Accounts'
  BY DEF TeamInv, Hired, Accounts, Free, Taken, VerdictsOn, team, runners, chores
<1>3. TypeOK'
  BY <1>1, TypeParts, PartsType, TeamSame, RunnerSame, ChoreSame DEF TeamInv
<1> QED BY <1>1, <1>2, <1>3 DEF TeamInv

LEMMA SendInv ==
  ASSUME TeamInv,
         \/ \E p \in Plains, r \in Readers : SendMessage(p, r)
         \/ \E a \in Assignments : SendAssignment(a)
         \/ \E m \in Members : SendShutdown(m)
  PROVE  TeamInv'
<1>1. UNCHANGED <<team, runners, chores, assigned, request, sessions, faults>>
  BY DEF SendMessage, SendAssignment, SendShutdown
<1>2. MailOK' /\ Letters' /\ Hired' /\ (\A q \in Owners : Good(q)') /\ Accounts'
  <2>1. ASSUME NEW p \in Plains, NEW r \in Readers, SendMessage(p, r)
        PROVE  MailOK' /\ Letters' /\ Hired' /\ (\A q \in Owners : Good(q)') /\ Accounts'
    <3>1. r \in Owners /\ (r \in Members \/ r = Lead)
      BY SomeReaders DEF Owners
    <3>2. [kind |-> "plain", of |-> p, status |-> "unread"] \in Messages
      BY DEF Messages, Statuses
    <3> QED BY <1>1, <2>1, <3>1, <3>2, SentInv DEF SendMessage
  <2>2. ASSUME NEW a \in Assignments, SendAssignment(a)
        PROVE  MailOK' /\ Letters' /\ Hired' /\ (\A q \in Owners : Good(q)') /\ Accounts'
    <3>1. assigned[a] \in Members /\ assigned[a] \in Owners
      BY <2>2, TypeParts DEF SendAssignment, TeamInv, RecordOK, Owners
    <3>2. [kind |-> "assignment", of |-> a, status |-> "unread"] \in Messages
      BY DEF Messages, Statuses
    <3>3. PICK m \in Members : m = assigned[a] /\ m \in Owners
      BY <3>1
    <3>4. inbox' = Sent(m, "assignment", a)
      BY <2>2, <3>3 DEF SendAssignment
    <3> QED BY <1>1, <3>2, <3>3, <3>4, SentInv
  <2>3. ASSUME NEW m \in Members, SendShutdown(m)
        PROVE  MailOK' /\ Letters' /\ Hired' /\ (\A q \in Owners : Good(q)') /\ Accounts'
    <3>1. m \in Owners
      BY DEF Owners
    <3>2. [kind |-> "shutdown", of |-> m, status |-> "unread"] \in Messages
      BY DEF Messages, Statuses
    <3> QED BY <1>1, <2>3, <3>1, <3>2, SentInv DEF SendShutdown
  <2> QED BY <2>1, <2>2, <2>3
<1>3. TypeOK'
  BY <1>1, <1>2, TypeParts, PartsType, TeamSame, RecordSame, RunnerSame, ChoreSame, SessionSame
     DEF TeamInv
<1> QED BY <1>2, <1>3 DEF TeamInv

LEMMA RecordInv ==
  ASSUME TeamInv,
         \/ \E a \in Assignments, m \in Members : AssignWork(a, m)
         \/ \E m \in Members : RequestShutdown(m)
  PROVE  TeamInv'
<1>1. UNCHANGED <<team, runners, inbox, chores, sessions, faults>>
  BY DEF AssignWork, RequestShutdown
<1>2. RecordOK'
  BY TypeParts DEF AssignWork, AddAssignment, RequestShutdown, SaveProtocol, TeamInv, RecordOK
<1>3. SessionOK'
  BY <1>1, SessionSame, TypeParts DEF TeamInv
<1> QED BY <1>1, <1>2, <1>3, StutterInv

LEMMA OtherInv ==
  ASSUME TeamInv, OtherRun \/ OtherEnd
  PROVE  TeamInv'
<1>1. UNCHANGED <<team, runners, inbox, assigned, request, chores>>
  BY DEF OtherRun, OtherEnd, repositories
<1>2. RecordOK'
  BY <1>1, RecordSame, TypeParts DEF TeamInv
<1>3. SessionOK'
  <2>1. SessionOK /\ Lead \in Owners
    BY TypeParts DEF TeamInv, Owners
  <2>2. gate' \in {None, Lead, Other} /\ faults' = faults /\ runs' = runs
    BY DEF OtherRun, OtherEnd
  <2>3. wedged' \in [Owners -> BOOLEAN]
    BY <2>1 DEF OtherRun, OtherEnd, SessionOK
  <2>4. fails' \in 0 .. MaxFails
    BY <2>1, Bounds DEF OtherRun, OtherEnd, SessionOK
  <2> QED BY <2>1, <2>2, <2>3, <2>4 DEF SessionOK
<1> QED BY <1>1, <1>2, <1>3, StutterInv

\* A chore in progress is completed, whoever says so.
LEMMA CompleteInv ==
  ASSUME TeamInv, NEW t \in Chores, CompleteWork(t)
  PROVE  TeamInv'
<1>1. UNCHANGED <<team, runners, inbox, assigned, request, sessions, faults, doing, untold>>
  BY DEF CompleteWork, repositories
<1>2. ChoreOK /\ work[t] \in [status : {"pending", "in_progress", "completed"},
                              owner : Owners \cup {None}]
  BY TypeParts DEF TeamInv, ChoreOK
<1> DEFINE next == [work[t] EXCEPT !.status = "completed"]
<1>3. /\ next \in [status : {"pending", "in_progress", "completed"},
                   owner : Owners \cup {None}]
      /\ next.status = "completed" /\ next.owner = work[t].owner
  BY <1>2
<1>4. work' = [work EXCEPT ![t] = next]
  BY DEF CompleteWork
<1> HIDE DEF next
<1>5. /\ work' \in [Chores -> [status : {"pending", "in_progress", "completed"},
                               owner : Owners \cup {None}]]
      /\ work'[t].status = "completed" /\ work'[t].owner = work[t].owner
      /\ \A u \in Chores \ {t} : work'[u] = work[u]
  BY <1>2, <1>3, <1>4 DEF ChoreOK
<1>6. ChoreOK'
  BY <1>1, <1>2, <1>5 DEF ChoreOK
<1>7. MailOK' /\ Letters' /\ (\A q \in Owners : Good(q)')
  BY <1>1, NoMailInv
<1>8. TypeOK'
  BY <1>1, <1>6, <1>7, TypeParts, PartsType, TeamSame, RecordSame, RunnerSame, SessionSame
     DEF TeamInv
<1>9. Hired'
  BY <1>1, HiredKept DEF TeamInv, runners
<1>10. Accounts'
  <2>1. \A u \in Chores : VerdictsOn(u)' = VerdictsOn(u)
    BY <1>1 DEF VerdictsOn
  <2>2. Taken(t)
    BY DEF TeamInv, Accounts, Free, CompleteWork
  <2>3. Taken(t)'
    BY <1>1, <1>5, <2>1, <2>2 DEF Taken
  <2>4. \A u \in Chores \ {t} : Free(u)' \/ Taken(u)'
    BY <1>1, <1>5, <2>1 DEF TeamInv, Accounts, Free, Taken
  <2> QED BY <1>1, <2>3, <2>4 DEF TeamInv, Accounts, runners
<1> QED BY <1>7, <1>8, <1>9, <1>10 DEF TeamInv

LEMMA TeamFilesInv ==
  ASSUME TeamInv, CreateTeam \/ EnterLead \/ \E m \in Members : AddTeammate(m)
  PROVE  TeamInv'
<1>1. /\ UNCHANGED <<runners, inbox, assigned, request, runs, gate, fails, chores>>
      /\ Fault \/ UNCHANGED faults
  BY DEF CreateTeam, EnterLead, AddTeammate, repositories, sessions
<1>2. MailOK' /\ Letters' /\ (\A q \in Owners : Good(q)')
  BY <1>1, NoMailInv
<1>3. SessionOK'
  <2>1. SessionOK /\ Lead \in Owners /\ Members \subseteq Owners
    BY TypeParts DEF TeamInv, Owners
  <2>2. wedged' \in [Owners -> BOOLEAN]
    BY <2>1 DEF CreateTeam, EnterLead, AddTeammate, SessionOK, sessions
  <2>3. faults' \in 0 .. MaxFaults
    BY <1>1, <2>1, Bounds DEF Fault, SessionOK
  <2> QED BY <1>1, <2>1, <2>2, <2>3 DEF SessionOK
<1>4. TeamOK' /\ Hired'
  <2>0. TeamOK /\ Hired /\ Lead \in Owners /\ Members \subseteq Owners /\ UNCHANGED at
    BY <1>1, TypeParts DEF TeamInv, Owners, runners
  <2>1. CASE CreateTeam
    <3>1. hiring' = [step |-> "enter", who |-> Lead] /\ roster' = roster /\ Lead \notin roster
      BY <2>1 DEF CreateTeam, SaveTeam, Hire, Active
    <3> QED BY <2>0, <3>1 DEF TeamOK, Hired
  <2>2. CASE EnterLead
    <3>1. Lead \notin roster
      BY <2>0, <2>2 DEF EnterLead, Hired
    <3>2. CASE roster' = roster \cup {Lead} /\ hiring' = [step |-> "start", who |-> Lead]
      BY <2>0, <3>1, <3>2 DEF TeamOK, Hired
    <3>3. CASE roster' = roster /\ hiring' = [step |-> "none", who |-> None]
      BY <2>0, <3>1, <3>3 DEF TeamOK, Hired
    <3> QED BY <2>2, <3>2, <3>3 DEF EnterLead, SaveMember, Hire, NotHiring
  <2>3. ASSUME NEW m \in Members, AddTeammate(m) PROVE TeamOK' /\ Hired'
    <3>1. /\ m \notin roster /\ roster' = roster \cup {m}
          /\ hiring' = [step |-> "start", who |-> m]
      BY <2>3 DEF AddTeammate, SaveMember, Hire, Active
    <3> QED BY <2>0, <3>1 DEF TeamOK, Hired
  <2> QED BY <2>1, <2>2, <2>3
<1>5. Accounts'
  BY <1>1 DEF TeamInv, Accounts, Free, Taken, VerdictsOn, runners, chores
<1>6. TypeOK'
  BY <1>1, <1>2, <1>3, <1>4, TypeParts, PartsType, RecordSame, RunnerSame, ChoreSame DEF TeamInv
<1> QED BY <1>2, <1>4, <1>5, <1>6 DEF TeamInv

LEMMA StartInv ==
  ASSUME TeamInv, StartRunner
  PROVE  TeamInv'
<1>1. /\ UNCHANGED <<roster, held, todo, agent, lost, repositories, sessions, chores>>
      /\ Fault \/ UNCHANGED faults
      /\ hiring' = NotHiring
  BY DEF StartRunner
<1>2. TypeOK /\ RunnerOK /\ MailOK
  BY TypeParts DEF TeamInv
<1>3. PICK r \in Owners : r = hiring.who
  BY <1>2, TypeParts DEF StartRunner, TeamInv, Hired, TeamOK
<1>4. /\ at[r] = "none" /\ at' \in [Owners -> Places] /\ at'[r] \in {"poll", "dead"}
      /\ \A q \in Owners \ {r} : at'[q] = at[q]
  BY <1>2, <1>3 DEF StartRunner, TeamInv, Hired, RunnerOK, Places
<1>5. UNCHANGED inbox /\ Lead \in Owners
  BY <1>1 DEF repositories, Owners
<1>6. \A q \in Owners : Quiet(q) /\ Grown(q) /\ Good(q)
                        /\ (Holds(Lead, "response", q)' => Holds(Lead, "response", q))
  BY <1>5, SameQuiet DEF TeamInv, Quiet, Holds
<1>7. \A q \in Owners \ {r} : Good(q)'
  BY <1>1, <1>4, <1>5, <1>6, OthersGood
<1>8. Good(r)'
  <2>1. Batch(r) /\ held[r] = {} /\ held'[r] = {}
    BY <1>1, <1>4, <1>6 DEF Good, Batch
  <2>2. Batch(r)'
    BY <1>1, <1>4, <2>1 DEF Batch
  <2>3. ASSUME r \in Members PROVE Reported(r)' /\ ConsumedTold(r)' /\ Confirmed(r)'
    <3>1. Reported(r)'
      BY <1>4 DEF Reported
    <3>2. ConsumedTold(r)'
      BY <1>5, <1>6, <2>3, QuietConsumed DEF Good
    <3>3. \A i : Stopping(r, i) => Stopping(r, i)'
      BY <1>1, <1>4 DEF Stopping
    <3>4. Confirmed(r)'
      BY <1>5, <1>6, <2>3, <3>3 DEF Good, Confirmed
    <3> QED BY <3>1, <3>2, <3>4
  <2> QED BY <2>2, <2>3 DEF Good
<1>9. TeamOK' /\ Hired'
  <2>1. NotHiring \in [step : {"none", "enter", "start"}, who : Owners \cup {None}]
    BY DEF NotHiring
  <2>2. r \in roster
    BY <1>3 DEF StartRunner, TeamInv, Hired
  <2>3. \A q \in Owners \ roster : at'[q] = "none"
    BY <1>4, <2>2 DEF TeamInv, Hired
  <2> QED BY <1>1, <1>2, <2>1, <2>3, TypeParts DEF TeamOK, Hired, NotHiring
<1>10. Letters'
  BY <1>5 DEF TeamInv, Letters
<1>11. Accounts'
  BY <1>1, <1>4, <1>5, <1>6, AccountsKept DEF TeamInv, Owners
<1>12. TypeOK'
  <2>1. RunnerOK' /\ MailOK'
    BY <1>1, <1>2, <1>4, <1>5 DEF RunnerOK, MailOK
  <2> QED BY <1>1, <1>9, <2>1, TypeParts, PartsType, RecordSame, ChoreSame, SessionSame
          DEF TeamInv, repositories
<1> QED BY <1>7, <1>8, <1>9, <1>10, <1>11, <1>12 DEF TeamInv

-----------------------------------------------------------------------------
(* The runners. *)

\* What a step of r leaves alone.
Others(r) ==
  \A q \in Owners \ {r} :
    /\ at'[q] = at[q] /\ held'[q] = held[q] /\ todo'[q] = todo[q] /\ agent'[q] = agent[q]
    /\ lost[q] \subseteq lost'[q]

LEMMA StepOthers ==
  ASSUME TeamInv, NEW r \in Owners, Others(r), \A q \in Owners \ {r} : Quiet(q), Grown(r),
         \A m \in Members \ {r} : Holds(Lead, "response", m)' => Holds(Lead, "response", m)
  PROVE  \A q \in Owners \ {r} : Good(q)'
<1> SUFFICES ASSUME NEW q \in Owners \ {r} PROVE Good(q)'
  OBVIOUS
<1>1. Good(q) /\ Grown(Lead) /\ Quiet(q)
  BY DEF TeamInv, Quiet, Owners
<1> QED BY <1>1, OthersGood DEF Others

\* The runner goes to another place and does nothing else.
LEMMA Move ==
  ASSUME TeamInv, NEW r \in Owners, NEW p \in Places, Goto(r, p),
         UNCHANGED <<team, held, todo, agent, lost, inbox, chores>>,
         at[r] \notin {"none", "work", "verify"},
         p \notin {"none", "work", "verify", "dispatch", "stopping"},
         p = "ack" => r \notin Members,
         p = "poll" => held[r] = {},
         p \in {"run", "report", "ack"} => todo[r] = {},
         \A i : r \in Members /\ Stopping(r, i) => Stopping(r, i)'
  PROVE  /\ TeamOK' /\ MailOK' /\ RunnerOK' /\ ChoreOK' /\ Letters' /\ Hired' /\ Accounts'
         /\ \A q \in Owners : Good(q)'
<1>1. TypeOK /\ TeamOK /\ MailOK /\ RunnerOK /\ ChoreOK
  BY TypeParts DEF TeamInv
<1>2. /\ at' \in [Owners -> Places] /\ at'[r] = p
      /\ \A q \in Owners \ {r} : at'[q] = at[q]
  BY <1>1 DEF Goto, RunnerOK
<1>3. TeamOK' /\ MailOK' /\ RunnerOK' /\ ChoreOK'
  BY <1>1, <1>2, TeamSame, ChoreSame DEF MailOK, RunnerOK
<1>4. Letters'
  BY DEF TeamInv, Letters
<1>5. Hired'
  BY <1>2, HiredKept DEF TeamInv
<1>6. \A q \in Owners : Quiet(q) /\ Grown(q)
                        /\ (Holds(Lead, "response", q)' => Holds(Lead, "response", q))
  BY SameQuiet DEF Quiet, Holds
<1>7. Grown(Lead)
  BY <1>6 DEF Owners
<1>8. Accounts'
  BY <1>2, <1>7, AccountsKept DEF TeamInv, Owners
<1>9. \A q \in Owners \ {r} : Good(q)'
  <2>1. Others(r)
    BY <1>2 DEF Others
  <2> QED BY <1>6, <2>1, StepOthers DEF Owners
<1>10. Good(r)'
  <2>1. Good(r)
    BY DEF TeamInv
  <2>2. Batch(r)'
    <3>1. With(r, "unread")' = With(r, "unread")
      BY DEF With
    <3> QED BY <1>2, <2>1, <3>1 DEF Good, Batch
  <2>3. ASSUME r \in Members PROVE Reported(r)' /\ ConsumedTold(r)' /\ Confirmed(r)'
    <3>1. Reported(r)'
      BY <1>2, <2>3 DEF Reported
    <3>2. ConsumedTold(r)'
      BY <1>6, <1>7, <2>1, <2>3, QuietConsumed DEF Good
    <3>3. Confirmed(r)'
      BY <1>6, <2>1, <2>3 DEF Good, Confirmed
    <3> QED BY <3>1, <3>2, <3>3
  <2> QED BY <2>2, <2>3 DEF Good
<1> QED BY <1>3, <1>4, <1>5, <1>8, <1>9, <1>10

\* The steps that only go on or give up.
LEMMA GiveUpInv ==
  ASSUME TeamInv, NEW r \in Owners,
         ReserveFails(r) \/ DispatchFails(r) \/ AcknowledgeSystemFails(r)
           \/ ReportFails(r) \/ AcknowledgeFails(r)
  PROVE  TeamInv'
<1> DEFINE p == IF at[r] = "poll" THEN "dead" ELSE "release"
<1>1. /\ at[r] \in {"poll", "dispatch", "stopping", "report", "ack"} /\ Goto(r, p) /\ Fault
      /\ UNCHANGED <<team, held, todo, agent, lost, repositories, sessions, chores>>
  <2>1. CASE ReserveFails(r)
    BY <2>1 DEF ReserveFails
  <2>2. CASE DispatchFails(r)
    BY <2>2 DEF DispatchFails
  <2>3. CASE AcknowledgeSystemFails(r)
    BY <2>3 DEF AcknowledgeSystemFails, Dispatched
  <2>4. CASE ReportFails(r)
    BY <2>4 DEF ReportFails
  <2>5. CASE AcknowledgeFails(r)
    BY <2>5 DEF AcknowledgeFails
  <2> QED BY <2>1, <2>2, <2>3, <2>4, <2>5
<1>2. \/ at[r] = "dispatch" /\ todo[r] # {}
      \/ at[r] \in {"dispatch", "stopping"} /\ System(r) # {}
      \/ at[r] \in {"poll", "report", "ack"}
  BY DEF ReserveFails, DispatchFails, AcknowledgeSystemFails, ReportFails, AcknowledgeFails,
     Dispatched
<1>3. p \in Places /\ p \in {"dead", "release"}
  BY DEF Places
<1>4. RunnerOK /\ Batch(r)
  BY TypeParts DEF TeamInv, Good
<1>5. at'[r] = p
  BY <1>1, <1>4 DEF Goto, RunnerOK
<1>6. \A i : Stopping(r, i) => Stopping(r, i)'
  BY <1>1, <1>2, <1>4, <1>5 DEF Stopping, System, Batch
<1> HIDE DEF p
<1>7. /\ TeamOK' /\ MailOK' /\ RunnerOK' /\ ChoreOK' /\ Letters' /\ Hired' /\ Accounts'
      /\ \A q \in Owners : Good(q)'
  BY <1>1, <1>3, <1>6, Move DEF repositories
<1>8. TypeOK'
  BY <1>1, <1>7, PartsType, TypeParts, RecordSame, SessionSame DEF TeamInv, repositories
<1> QED BY <1>7, <1>8 DEF TeamInv

LEMMA SettleInv ==
  ASSUME TeamInv, NEW r \in Owners, Settle(r)
  PROVE  TeamInv'
<1>1. /\ at[r] \in {"dispatch", "stopping"} /\ System(r) = {}
      /\ at[r] = "dispatch" => todo[r] = {}
      /\ UNCHANGED <<team, held, todo, agent, lost, repositories, runs, wedged, fails, faults,
                     chores>>
  BY DEF Settle, Dispatched
<1>2. PICK p \in {"leave", "poll", "release", "run"} :
         /\ Goto(r, p)
         /\ p # "leave" => at[r] = "dispatch"
         /\ p = "poll" => agent[r] = {}
         /\ p = "release" => r = Lead
         /\ gate' = gate \/ gate' = Lead
  BY DEF Settle
<1>3. RunnerOK /\ SessionOK /\ Batch(r) /\ p \in Places
  BY TypeParts DEF TeamInv, Good, Places
<1>4. at'[r] = p
  BY <1>2, <1>3 DEF Goto, RunnerOK
<1>5. \A i : r \in Members /\ Stopping(r, i) => Stopping(r, i)'
  BY <1>1, <1>2, <1>4, Distinct DEF Stopping
<1>6. (p = "poll" => held[r] = {}) /\ (p = "run" => todo[r] = {})
  BY <1>1, <1>2 DEF System
<1>7. /\ TeamOK' /\ MailOK' /\ RunnerOK' /\ ChoreOK' /\ Letters' /\ Hired' /\ Accounts'
      /\ \A q \in Owners : Good(q)'
  BY <1>1, <1>2, <1>3, <1>5, <1>6, Move DEF repositories
<1>8. SessionOK'
  BY <1>1, <1>2, <1>3 DEF SessionOK
<1>9. TypeOK'
  BY <1>1, <1>7, <1>8, PartsType, TypeParts, RecordSame DEF TeamInv, repositories
<1> QED BY <1>7, <1>9 DEF TeamInv

LEMMA RunInv ==
  ASSUME TeamInv, NEW r \in Owners, Run(r) \/ RunFails(r)
  PROVE  TeamInv'
<1>1. /\ at[r] = "run"
      /\ UNCHANGED <<team, held, todo, agent, lost, repositories, gate, faults, chores>>
  BY DEF Run, RunFails
<1>2. PICK p \in {"ack", "report", "release"} : Goto(r, p) /\ (p = "ack" => r = Lead)
  BY DEF Run, RunFails
<1>3. RunnerOK /\ SessionOK /\ p \in Places
  BY TypeParts DEF TeamInv, Places
<1>0. todo[r] = {}
  BY <1>1 DEF TeamInv, Good, Batch
<1>4. at'[r] = p
  BY <1>2, <1>3 DEF Goto, RunnerOK
<1>5. \A i : Stopping(r, i) => Stopping(r, i)'
  BY <1>1 DEF Stopping
<1>6. /\ TeamOK' /\ MailOK' /\ RunnerOK' /\ ChoreOK' /\ Letters' /\ Hired' /\ Accounts'
      /\ \A q \in Owners : Good(q)'
  BY <1>0, <1>1, <1>2, <1>3, <1>5, Move, Distinct DEF repositories
<1>7. SessionOK'
  <2>1. runs' \in [Members -> Nat]
    BY <1>3 DEF Run, RunFails, SessionOK
  <2>2. wedged' \in [Owners -> BOOLEAN]
    BY <1>3 DEF Run, RunFails, SessionOK
  <2>3. fails' \in 0 .. MaxFails
    BY <1>3, Bounds DEF Run, RunFails, SessionOK
  <2> QED BY <1>1, <1>3, <2>1, <2>2, <2>3 DEF SessionOK
<1>8. TypeOK'
  BY <1>1, <1>6, <1>7, PartsType, TypeParts, RecordSame DEF TeamInv, repositories
<1> QED BY <1>6, <1>8 DEF TeamInv

RunnerSet(r, p, H, T, A, L) ==
  /\ at' = [at EXCEPT ![r] = p] \/ (at' = at /\ p = at[r])
  /\ held' = [held EXCEPT ![r] = H] \/ (held' = held /\ H = held[r])
  /\ todo' = [todo EXCEPT ![r] = T] \/ (todo' = todo /\ T = todo[r])
  /\ agent' = [agent EXCEPT ![r] = A] \/ (agent' = agent /\ A = agent[r])
  /\ lost' = [lost EXCEPT ![r] = L] \/ (lost' = lost /\ L = lost[r])

LEMMA RunnerStep ==
  ASSUME RunnerOK, NEW r \in Owners, NEW p \in Places, NEW H \in SUBSET Nat,
         NEW T \in SUBSET Nat, NEW A \in SUBSET Nat, NEW L \in SUBSET Nat,
         RunnerSet(r, p, H, T, A, L)
  PROVE  /\ RunnerOK' /\ Others(r)
         /\ at'[r] = p /\ held'[r] = H /\ todo'[r] = T /\ agent'[r] = A /\ lost'[r] = L
<1>1. /\ at' \in [Owners -> Places] /\ at'[r] = p
      /\ \A q \in Owners \ {r} : at'[q] = at[q]
  BY DEF RunnerOK, RunnerSet
<1>2. /\ held' \in [Owners -> SUBSET Nat] /\ held'[r] = H
      /\ \A q \in Owners \ {r} : held'[q] = held[q]
  BY DEF RunnerOK, RunnerSet
<1>3. /\ todo' \in [Owners -> SUBSET Nat] /\ todo'[r] = T
      /\ \A q \in Owners \ {r} : todo'[q] = todo[q]
  BY DEF RunnerOK, RunnerSet
<1>4. /\ agent' \in [Owners -> SUBSET Nat] /\ agent'[r] = A
      /\ \A q \in Owners \ {r} : agent'[q] = agent[q]
  BY DEF RunnerOK, RunnerSet
<1>5. /\ lost' \in [Owners -> SUBSET Nat] /\ lost'[r] = L
      /\ \A q \in Owners \ {r} : lost'[q] = lost[q]
  BY DEF RunnerOK, RunnerSet
<1> QED BY <1>1, <1>2, <1>3, <1>4, <1>5 DEF RunnerOK, Others

LEMMA MarkedKeeps ==
  ASSUME TeamInv, NEW r \in Owners, NEW S, NEW s \in Statuses, inbox' = Marked(r, S, s)
  PROVE  /\ MailOK' /\ Letters'
         /\ \A q \in Owners : Grown(q) /\ DOMAIN inbox'[q] = DOMAIN inbox[q]
         /\ \A q \in Owners \ {r} : Quiet(q)
         /\ \A m : Holds(Lead, "response", m)' => Holds(Lead, "response", m)
         /\ \A i \in DOMAIN inbox[r] :
              inbox'[r][i].status = IF i \in S THEN s ELSE inbox[r][i].status
<1>1. /\ MailOK'
      /\ \A q \in Owners \ {r} : inbox'[q] = inbox[q]
      /\ DOMAIN inbox'[r] = DOMAIN inbox[r]
      /\ \A i \in DOMAIN inbox[r] :
              /\ inbox'[r][i].kind = inbox[r][i].kind
              /\ inbox'[r][i].of = inbox[r][i].of
              /\ inbox'[r][i].status = IF i \in S THEN s ELSE inbox[r][i].status
  BY MarkedMail, TypeParts DEF TeamInv
<1>2. \A q \in Owners : Grown(q) /\ DOMAIN inbox'[q] = DOMAIN inbox[q]
  BY <1>1 DEF Grown
<1>3. \A q \in Owners \ {r} : Quiet(q)
  BY <1>1, SameQuiet
<1>4. Letters'
  BY <1>2, KeptLetters DEF TeamInv
<1>5. \A m : Holds(Lead, "response", m)' => Holds(Lead, "response", m)
  BY <1>2 DEF Holds, Grown, Owners
<1> QED BY <1>1, <1>2, <1>3, <1>4, <1>5

\* Nothing is consumed without its result.
LEMMA MarkedConsumed ==
  ASSUME NEW m \in Members, ConsumedTold(m), Grown(m), Grown(Lead),
         DOMAIN inbox'[m] = DOMAIN inbox[m],
         \A i \in DOMAIN inbox[m] :
            inbox'[m][i].status = "consumed" /\ inbox[m][i].kind = "assignment" =>
              \/ inbox[m][i].status = "consumed"
              \/ Resulted(inbox[Lead], m, inbox[m][i].of)
  PROVE  ConsumedTold(m)'
<1> SUFFICES ASSUME NEW i \in DOMAIN inbox'[m], inbox'[m][i].status = "consumed",
                    inbox'[m][i].kind = "assignment"
             PROVE  Resulted(inbox'[Lead], m, inbox'[m][i].of)
  BY DEF ConsumedTold, With
<1>1. /\ i \in DOMAIN inbox[m]
      /\ inbox[m][i].kind = "assignment" /\ inbox'[m][i].of = inbox[m][i].of
  BY DEF Grown
<1>2. Resulted(inbox[Lead], m, inbox[m][i].of)
  BY <1>1 DEF ConsumedTold, With
<1> QED BY <1>1, <1>2, ResultedStays

\* A step of r, which concerns nobody else and no chore.
LEMMA StepInv ==
  ASSUME TeamInv, NEW r \in Owners, Others(r), Good(r)', UNCHANGED <<team, chores>>,
         \A q \in Owners \ {r} : Quiet(q), \A q \in Owners : Grown(q),
         \A m \in Members \ {r} : Holds(Lead, "response", m)' => Holds(Lead, "response", m),
         \A i \in DOMAIN inbox'[Lead] \ DOMAIN inbox[Lead] : inbox'[Lead][i].kind # "verdict",
         at[r] \notin {"none", "work", "verify"}, at'[r] \notin {"work", "verify"}
  PROVE  Hired' /\ Accounts' /\ \A q \in Owners : Good(q)'
<1>1. \A q \in Owners \ {r} : Good(q)'
  BY StepOthers
<1>2. Hired'
  BY HiredKept DEF TeamInv, Others
<1>3. Accounts'
  BY AccountsKept DEF TeamInv, Others, Owners
<1> QED BY <1>1, <1>2, <1>3

LEMMA ReserveInv ==
  ASSUME TeamInv, NEW r \in Owners, Reserve(r)
  PROVE  TeamInv'
<1> DEFINE U == With(r, "unread")
           B == Oldest(U, BatchSize)
<1>1. /\ at[r] = "poll" /\ inbox' = Marked(r, B, "reserved")
      /\ held' = [held EXCEPT ![r] = B] /\ todo' = [todo EXCEPT ![r] = B]
      /\ agent' = [agent EXCEPT ![r] = {}] /\ at' = [at EXCEPT ![r] = "dispatch"]
      /\ UNCHANGED <<team, lost, assigned, request, sessions, faults, chores>>
  BY DEF Reserve, Goto
<1>2. RunnerOK /\ MailOK /\ Good(r)
  BY TypeParts DEF TeamInv
<1>3. B \subseteq U /\ U \subseteq DOMAIN inbox[r] /\ B \in SUBSET Nat
  BY <1>2, BoxDomain DEF Oldest, With
<1>4. /\ RunnerOK' /\ Others(r) /\ at'[r] = "dispatch" /\ held'[r] = B /\ todo'[r] = B
      /\ agent'[r] = {} /\ lost'[r] = lost[r]
  <2>1. "dispatch" \in Places /\ {} \in SUBSET Nat /\ lost[r] \in SUBSET Nat
    BY <1>2 DEF Places, RunnerOK
  <2> HIDE DEF B
  <2>2. RunnerSet(r, "dispatch", B, B, {}, lost[r])
    BY <1>1 DEF RunnerSet
  <2> QED BY <1>2, <1>3, <2>1, <2>2, RunnerStep
<1>5. /\ MailOK' /\ Letters'
      /\ \A q \in Owners : Grown(q) /\ DOMAIN inbox'[q] = DOMAIN inbox[q]
      /\ \A q \in Owners \ {r} : Quiet(q)
      /\ \A m : Holds(Lead, "response", m)' => Holds(Lead, "response", m)
      /\ \A i \in DOMAIN inbox[r] :
              inbox'[r][i].status = IF i \in B THEN "reserved" ELSE inbox[r][i].status
  <2>1. "reserved" \in Statuses
    BY DEF Statuses
  <2> HIDE DEF B
  <2> QED BY <1>1, <2>1, MarkedKeeps
<1>6. With(r, "unread")' \cup B = U
  BY <1>3, <1>5 DEF With
<1>7. Batch(r)'
  <2>1. System(r)' = {}
    BY <1>4 DEF System
  <2>2. \A i \in B : i \in Oldest(With(r, "unread")' \cup B, BatchSize)
    BY <1>6
  <2> HIDE DEF B
  <2> QED BY <1>3, <1>4, <1>5, <2>1, <2>2 DEF Batch
<1>8. ASSUME r \in Members PROVE Reported(r)' /\ ConsumedTold(r)' /\ Confirmed(r)'
  <2>1. Reported(r)'
    BY <1>4 DEF Reported
  <2>2. ConsumedTold(r)'
    <3>1. "reserved" # "consumed" /\ Lead \in Owners
      BY DEF Owners
    <3> HIDE DEF B
    <3> QED BY <1>2, <1>5, <1>8, <3>1, MarkedConsumed DEF Good
  <2>3. \A i : Stopping(r, i) => Stopping(r, i)'
    BY <1>1, <1>4 DEF Stopping
  <2>4. Confirmed(r)'
    BY <1>2, <1>5, <1>8, <2>3 DEF Good, Confirmed, Grown
  <2> QED BY <2>1, <2>2, <2>4
<1>9. Hired' /\ Accounts' /\ \A q \in Owners : Good(q)'
  <2>1. Good(r)'
    BY <1>7, <1>8 DEF Good
  <2>2. Lead \in Owners
    BY DEF Owners
  <2> HIDE DEF B
  <2> QED BY <1>1, <1>4, <1>5, <2>1, <2>2, StepInv
<1>10. TypeOK'
  BY <1>1, <1>4, <1>5, PartsType, TypeParts, TeamSame, RecordSame, ChoreSame, SessionSame
     DEF TeamInv
<1> QED BY <1>5, <1>9, <1>10 DEF TeamInv

LEMMA FirstIsMember ==
  ASSUME NEW S, S \subseteq Nat, S # {}
  PROVE  First(S) \in S
<1> DEFINE Less == OpToRel(<, Nat)
<1>1. PICK x \in S : \A y \in S : <<y, x>> \notin Less
  BY NatLessThanWellFounded, WFMin
<1>2. \A y \in S : ~(y < x)
  BY <1>1 DEF OpToRel
<1>3. \A y \in S : x <= y
  BY <1>2
<1> QED BY <1>3 DEF First

\* Only a request to stop is the protocol's in the box of a member, and there is one.
LEMMA OneSystemMessage ==
  ASSUME TeamInv, NEW m \in Members, at[m] \in {"dispatch", "stopping"},
         NEW i \in System(m), NEW j \in System(m)
  PROVE  i = j
<1>1. Batch(m)
  BY DEF TeamInv, Good, Owners
<1>2. \A k \in System(m) : k \in DOMAIN inbox[m] /\ inbox[m][k].kind \notin ForAgent
  BY <1>1 DEF Batch, System
<1>3. \A k \in System(m) : inbox[m][k].kind = "shutdown"
  BY <1>2 DEF TeamInv, Letters, ForAgent
<1> QED BY <1>2, <1>3 DEF TeamInv, Letters

LEMMA AcknowledgeSystemInv ==
  ASSUME TeamInv, NEW r \in Owners, AcknowledgeSystem(r)
  PROVE  TeamInv'
<1>1. RunnerOK /\ MailOK /\ Good(r) /\ Batch(r)
  BY TypeParts DEF TeamInv, Good
<1>2. PICK k \in System(r) : k = First(System(r))
  <2>1. System(r) \subseteq Nat /\ System(r) # {}
    BY <1>1 DEF System, RunnerOK, AcknowledgeSystem
  <2> QED BY <2>1, FirstIsMember
<1>3. /\ at[r] \in {"dispatch", "stopping"} /\ (at[r] = "dispatch" => todo[r] = {})
      /\ inbox' = Marked(r, {k}, "consumed")
      /\ held' = [held EXCEPT ![r] = held[r] \ {k}]
      /\ UNCHANGED <<team, at, todo, agent, lost, assigned, request, sessions, faults, chores>>
  BY <1>2 DEF AcknowledgeSystem, Dispatched
<1>4. k \in DOMAIN inbox[r] /\ k \notin agent[r] /\ k \notin todo[r]
      /\ inbox[r][k].kind \notin ForAgent
  BY <1>1, <1>3 DEF Batch, System
<1>5. /\ RunnerOK' /\ Others(r) /\ at'[r] = at[r] /\ held'[r] = held[r] \ {k}
      /\ todo'[r] = todo[r] /\ agent'[r] = agent[r] /\ lost'[r] = lost[r]
  <2> DEFINE H == held[r] \ {k}
  <2>1. /\ at[r] \in Places /\ H \in SUBSET Nat /\ todo[r] \in SUBSET Nat
        /\ agent[r] \in SUBSET Nat /\ lost[r] \in SUBSET Nat
    BY <1>1 DEF RunnerOK
  <2>2. held' = [held EXCEPT ![r] = H]
    BY <1>3
  <2> HIDE DEF H
  <2>3. RunnerSet(r, at[r], H, todo[r], agent[r], lost[r])
    BY <1>3, <2>2 DEF RunnerSet
  <2>4. /\ RunnerOK' /\ Others(r) /\ at'[r] = at[r] /\ held'[r] = H
        /\ todo'[r] = todo[r] /\ agent'[r] = agent[r] /\ lost'[r] = lost[r]
    BY <1>1, <2>1, <2>3, RunnerStep
  <2> QED BY <2>4 DEF H
<1>6. /\ MailOK' /\ Letters'
      /\ \A q \in Owners : Grown(q) /\ DOMAIN inbox'[q] = DOMAIN inbox[q]
      /\ \A q \in Owners \ {r} : Quiet(q)
      /\ \A m : Holds(Lead, "response", m)' => Holds(Lead, "response", m)
      /\ \A i \in DOMAIN inbox[r] :
              inbox'[r][i].status = IF i \in {k} THEN "consumed" ELSE inbox[r][i].status
  <2> DEFINE K == {k}
  <2>1. "consumed" \in Statuses /\ inbox' = Marked(r, K, "consumed")
    BY <1>3 DEF Statuses
  <2> HIDE DEF K
  <2>2. /\ MailOK' /\ Letters'
        /\ \A q \in Owners : Grown(q) /\ DOMAIN inbox'[q] = DOMAIN inbox[q]
        /\ \A q \in Owners \ {r} : Quiet(q)
        /\ \A m : Holds(Lead, "response", m)' => Holds(Lead, "response", m)
        /\ \A i \in DOMAIN inbox[r] :
             inbox'[r][i].status = IF i \in K THEN "consumed" ELSE inbox[r][i].status
    BY <2>1, MarkedKeeps
  <2> QED BY <2>2 DEF K
<1>7. System(r)' = System(r) \ {k}
  BY <1>5 DEF System
<1>8. Batch(r)'
  <2> DEFINE T == With(r, "unread") \cup held[r]
             S == With(r, "unread")' \cup held'[r]
  <2>1. S \subseteq T /\ T \subseteq DOMAIN inbox[r] /\ held'[r] \subseteq S
    BY <1>1, <1>4, <1>5, <1>6 DEF With, Batch
  <2>2. \A i \in held[r] : i \in Oldest(T, BatchSize)
    BY <1>1 DEF Batch
  <2>3. IsFiniteSet(T)
    <3> HIDE DEF T
    <3> QED BY <1>1, <2>1, BoxDomain, FS_Subset
  <2>4. \A i \in held'[r] : i \in Oldest(S, BatchSize)
    <3> HIDE DEF S, T
    <3> QED BY <1>5, <2>1, <2>2, <2>3, OldestShrinks
  <2>5. \A i \in held'[r] : i \in DOMAIN inbox'[r] /\ inbox'[r][i].kind = inbox[r][i].kind
    BY <1>1, <1>5, <1>6 DEF Batch, Grown
  <2>6. /\ agent'[r] \subseteq held'[r] /\ todo'[r] \subseteq held'[r]
        /\ System(r) \subseteq held[r]
    BY <1>1, <1>4, <1>5 DEF Batch, System
  <2> QED BY <1>1, <1>5, <1>7, <2>4, <2>5, <2>6 DEF Batch
<1>9. ASSUME r \in Members PROVE Reported(r)' /\ ConsumedTold(r)' /\ Confirmed(r)'
  <2>1. Reported(r)'
    BY <1>3, <1>5 DEF Reported
  <2>2. ConsumedTold(r)'
    <3>1. inbox[r][k].kind # "assignment" /\ Lead \in Owners
      BY <1>4 DEF ForAgent, Owners
    <3> QED BY <1>1, <1>6, <1>9, <3>1, MarkedConsumed DEF Good
  <2>3. \A i : Stopping(r, i) => Stopping(r, i)'
    <3>1. System(r) = {k}
      BY <1>3, <1>9, OneSystemMessage
    <3> QED BY <1>3, <1>5, <1>7, <3>1 DEF Stopping
  <2>4. Confirmed(r)'
    BY <1>1, <1>6, <1>9, <2>3 DEF Good, Confirmed, Grown
  <2> QED BY <2>1, <2>2, <2>4
<1>10. Hired' /\ Accounts' /\ \A q \in Owners : Good(q)'
  <2>1. Good(r)' /\ Lead \in Owners
    BY <1>8, <1>9 DEF Good, Owners
  <2> QED BY <1>3, <1>5, <1>6, <2>1, StepInv
<1>11. TypeOK'
  BY <1>3, <1>5, <1>6, PartsType, TypeParts, TeamSame, RecordSame, ChoreSame, SessionSame
     DEF TeamInv
<1> QED BY <1>6, <1>10, <1>11 DEF TeamInv

LEMMA GateLeftType ==
  ASSUME SessionOK, NEW r \in Owners, GateLeft(r)
  PROVE  gate' \in {None, Lead, Other}
BY DEF SessionOK, GateLeft

LEMMA AcknowledgeInv ==
  ASSUME TeamInv, NEW r \in Owners, Acknowledge(r)
  PROVE  TeamInv'
<1> DEFINE A == agent[r]
<1>1. RunnerOK /\ MailOK /\ SessionOK /\ Good(r) /\ Batch(r)
  BY TypeParts DEF TeamInv, Good
<1>2. /\ at[r] = "ack" /\ inbox' = Marked(r, A, "consumed")
      /\ held' = [held EXCEPT ![r] = {}] /\ agent' = [agent EXCEPT ![r] = {}]
      /\ at' = [at EXCEPT ![r] = "poll"] /\ GateLeft(r)
      /\ UNCHANGED <<team, todo, lost, assigned, request, runs, wedged, fails, faults, chores>>
  BY DEF Acknowledge, Goto
<1>3. todo[r] = {}
  BY <1>1, <1>2 DEF Batch
<1>4. /\ RunnerOK' /\ Others(r) /\ at'[r] = "poll" /\ held'[r] = {} /\ todo'[r] = {}
      /\ agent'[r] = {} /\ lost'[r] = lost[r]
  <2>1. "poll" \in Places /\ {} \in SUBSET Nat /\ lost[r] \in SUBSET Nat
    BY <1>1 DEF Places, RunnerOK
  <2>2. RunnerSet(r, "poll", {}, {}, {}, lost[r])
    BY <1>2, <1>3 DEF RunnerSet
  <2> QED BY <1>1, <2>1, <2>2, RunnerStep
<1>5. /\ MailOK' /\ Letters'
      /\ \A q \in Owners : Grown(q) /\ DOMAIN inbox'[q] = DOMAIN inbox[q]
      /\ \A q \in Owners \ {r} : Quiet(q)
      /\ \A m : Holds(Lead, "response", m)' => Holds(Lead, "response", m)
      /\ \A i \in DOMAIN inbox[r] :
              inbox'[r][i].status = IF i \in A THEN "consumed" ELSE inbox[r][i].status
  <2>1. "consumed" \in Statuses
    BY DEF Statuses
  <2> HIDE DEF A
  <2> QED BY <1>2, <2>1, MarkedKeeps
<1>6. Batch(r)'
  BY <1>4 DEF Batch
<1>7. ASSUME r \in Members PROVE Reported(r)' /\ ConsumedTold(r)' /\ Confirmed(r)'
  <2>1. Reported(r)'
    BY <1>4 DEF Reported
  <2>2. ConsumedTold(r)'
    <3>1. \A i \in A : inbox[r][i].kind = "assignment" =>
                         Resulted(inbox[Lead], r, inbox[r][i].of)
      BY <1>1, <1>2, <1>7 DEF Good, Reported
    <3>2. ConsumedTold(r) /\ Lead \in Owners
      BY <1>1, <1>7 DEF Good, Owners
    <3> HIDE DEF A
    <3> QED BY <1>5, <1>7, <3>1, <3>2, MarkedConsumed
  <2>3. \A i : Stopping(r, i) => Stopping(r, i)'
    BY <1>2, <1>4 DEF Stopping
  <2>4. Confirmed(r)'
    BY <1>1, <1>5, <1>7, <2>3 DEF Good, Confirmed, Grown
  <2> QED BY <2>1, <2>2, <2>4
<1>8. Hired' /\ Accounts' /\ \A q \in Owners : Good(q)'
  <2>1. Good(r)' /\ Lead \in Owners
    BY <1>6, <1>7 DEF Good, Owners
  <2> HIDE DEF A
  <2> QED BY <1>2, <1>4, <1>5, <2>1, StepInv
<1>9. SessionOK'
  BY <1>1, <1>2, GateLeftType DEF SessionOK
<1>10. TypeOK'
  BY <1>2, <1>4, <1>5, <1>9, PartsType, TypeParts, TeamSame, RecordSame, ChoreSame
     DEF TeamInv
<1> QED BY <1>5, <1>8, <1>10 DEF TeamInv

\* What is released goes back among the oldest unread messages, and what cannot be
\* released is lost.
LEMMA ReleasedInv ==
  ASSUME TeamInv, NEW r \in Owners, Release(r) \/ ReleaseFails(r)
  PROVE  TeamInv'
<1> DEFINE H == held[r]
           p == IF at[r] = "leave" THEN "stopped" ELSE "poll"
           L == IF lost' = lost THEN lost[r] ELSE lost[r] \cup H
<1>1. RunnerOK /\ MailOK /\ SessionOK /\ Good(r) /\ Batch(r) /\ Lead \in Owners
  BY TypeParts DEF TeamInv, Good, Owners
<1>2. /\ at[r] \in {"release", "leave"} /\ at' = [at EXCEPT ![r] = p]
      /\ held' = [held EXCEPT ![r] = {}] /\ todo' = [todo EXCEPT ![r] = {}]
      /\ agent' = [agent EXCEPT ![r] = {}] /\ GateLeft(r)
      /\ UNCHANGED <<team, assigned, request, runs, wedged, fails, chores>>
      /\ Fault \/ UNCHANGED faults
      /\ \/ inbox' = Marked(r, H, "unread") /\ UNCHANGED lost
         \/ UNCHANGED inbox /\ lost' = [lost EXCEPT ![r] = lost[r] \cup H]
  BY DEF Release, ReleaseFails, Released, Goto
<1>3. /\ RunnerOK' /\ Others(r) /\ at'[r] = p /\ held'[r] = {} /\ todo'[r] = {}
      /\ agent'[r] = {} /\ lost'[r] = L
  <2>1. p \in Places /\ {} \in SUBSET Nat /\ L \in SUBSET Nat
    BY <1>1 DEF Places, RunnerOK
  <2>2. lost' = [lost EXCEPT ![r] = L] \/ (lost' = lost /\ L = lost[r])
    BY <1>2
  <2> HIDE DEF p, L
  <2>3. RunnerSet(r, p, {}, {}, {}, L)
    BY <1>2, <2>2 DEF RunnerSet
  <2> QED BY <1>1, <2>1, <2>3, RunnerStep
<1>4. /\ MailOK' /\ Letters'
      /\ \A q \in Owners : Grown(q) /\ DOMAIN inbox'[q] = DOMAIN inbox[q]
      /\ \A q \in Owners \ {r} : Quiet(q)
      /\ \A m : Holds(Lead, "response", m)' => Holds(Lead, "response", m)
      /\ \/ \A i \in DOMAIN inbox[r] :
              inbox'[r][i].status = IF i \in H THEN "unread" ELSE inbox[r][i].status
         \/ UNCHANGED inbox /\ lost'[r] = lost[r] \cup H
  <2>1. CASE inbox' = Marked(r, H, "unread")
    <3>1. "unread" \in Statuses
      BY DEF Statuses
    <3> HIDE DEF H
    <3> QED BY <2>1, <3>1, MarkedKeeps
  <2>2. CASE UNCHANGED inbox /\ lost' = [lost EXCEPT ![r] = lost[r] \cup H]
    <3>1. \A q \in Owners : Quiet(q) /\ Grown(q) /\ DOMAIN inbox'[q] = DOMAIN inbox[q]
      BY <2>2, SameQuiet DEF Quiet
    <3>2. MailOK' /\ Letters'
      BY <1>1, <2>2 DEF MailOK, TeamInv, Letters
    <3>3. lost'[r] = lost[r] \cup H
      BY <1>1, <2>2 DEF RunnerOK
    <3>4. \A m : Holds(Lead, "response", m)' => Holds(Lead, "response", m)
      BY <2>2 DEF Holds
    <3> QED BY <2>2, <3>1, <3>2, <3>3, <3>4
  <2> QED BY <1>2, <2>1, <2>2
<1>5. Batch(r)'
  BY <1>3 DEF Batch
<1>6. ASSUME r \in Members PROVE Reported(r)' /\ ConsumedTold(r)' /\ Confirmed(r)'
  <2>1. Reported(r)'
    BY <1>3 DEF Reported
  <2>2. ConsumedTold(r)'
    <3>1. ConsumedTold(r)
      BY <1>1, <1>6 DEF Good
    <3> HIDE DEF H
    <3> QED BY <1>1, <1>4, <1>6, <3>1, MarkedConsumed
  <2>3. ASSUME NEW i \in DOMAIN inbox[r], Stopping(r, i) PROVE Stopping(r, i)'
    <3>1. CASE i \in lost[r]
      BY <1>3, <3>1 DEF Stopping
    <3>2. CASE at[r] = "leave"
      BY <1>3, <3>2 DEF Stopping
    <3>3. CASE at[r] = "release" /\ i \in H
      <4>1. CASE lost'[r] = lost[r] \cup H
        BY <3>3, <4>1 DEF Stopping
      <4>2. CASE \A j \in DOMAIN inbox[r] :
                    inbox'[r][j].status = IF j \in H THEN "unread" ELSE inbox[r][j].status
        <5>1. With(r, "unread")' = With(r, "unread") \cup H
          BY <1>1, <1>4, <4>2 DEF With, Batch
        <5>2. i \in Oldest(With(r, "unread") \cup H, BatchSize)
          BY <1>1, <3>3 DEF Batch
        <5>3. at'[r] = "poll"
          BY <1>3, <3>3
        <5> QED BY <5>1, <5>2, <5>3 DEF Stopping
      <4> QED BY <1>4, <4>1, <4>2
    <3> QED BY <1>2, <2>3, <3>1, <3>2, <3>3 DEF Stopping
  <2>4. Confirmed(r)'
    BY <1>1, <1>4, <1>6, <2>3 DEF Good, Confirmed, Grown
  <2> QED BY <2>1, <2>2, <2>4
<1>7. Hired' /\ Accounts' /\ \A q \in Owners : Good(q)'
  <2>1. Good(r)'
    BY <1>5, <1>6 DEF Good
  <2>2. p \notin {"work", "verify"}
    OBVIOUS
  <2> HIDE DEF H, p, L
  <2> QED BY <1>1, <1>2, <1>3, <1>4, <2>1, <2>2, StepInv
<1>8. SessionOK'
  <2>1. faults' \in 0 .. MaxFaults
    BY <1>1, <1>2, Bounds DEF SessionOK, Fault
  <2> QED BY <1>1, <1>2, <2>1, GateLeftType DEF SessionOK
<1>9. TypeOK'
  BY <1>2, <1>3, <1>4, <1>8, PartsType, TypeParts, TeamSame, RecordSame, ChoreSame
     DEF TeamInv
<1> QED BY <1>4, <1>7, <1>9 DEF TeamInv

LEMMA DispatchInv ==
  ASSUME TeamInv, NEW r \in Owners, Dispatch(r)
  PROVE  TeamInv'
<1>1. /\ RunnerOK /\ MailOK /\ RecordOK /\ Good(r) /\ Batch(r) /\ Letters /\ Lead \in Owners
      /\ at[r] = "dispatch"
  BY TypeParts DEF TeamInv, Good, Owners, Dispatch
<1>2. PICK k \in todo[r] : k = First(todo[r])
  <2>1. todo[r] \subseteq Nat /\ todo[r] # {}
    BY <1>1 DEF RunnerOK, Dispatch
  <2> QED BY <2>1, FirstIsMember
<1>3. k \in held[r] /\ k \in DOMAIN inbox[r] /\ inbox[r][k] \in Messages /\ k \in Nat
  BY <1>1, <1>2, BoxDomain DEF Batch
<1>4. /\ todo' = [todo EXCEPT ![r] = todo[r] \ {k}]
      /\ UNCHANGED <<team, held, lost, assigned, sessions, faults, chores>>
      /\ \/ /\ inbox[r][k].kind \in ForAgent
            /\ agent' = [agent EXCEPT ![r] = agent[r] \cup {k}]
            /\ UNCHANGED <<at, inbox, request>>
         \/ /\ inbox[r][k].kind = "shutdown"
            /\ inbox' = Sent(Lead, "response", r)
            /\ at' = [at EXCEPT ![r] = "stopping"]
            /\ UNCHANGED <<agent, request>>
         \/ /\ inbox[r][k].kind = "response"
            /\ request' = [request EXCEPT ![inbox[r][k].of] = "approved"]
            /\ UNCHANGED <<at, agent, inbox>>
  BY <1>2 DEF Dispatch, Goto, Resolve, SaveProtocol
<1> DEFINE stop == inbox[r][k].kind = "shutdown"
           p == IF stop THEN "stopping" ELSE "dispatch"
           A == IF inbox[r][k].kind \in ForAgent THEN agent[r] \cup {k} ELSE agent[r]
           T == todo[r] \ {k}
<1>5. /\ RunnerOK' /\ Others(r) /\ at'[r] = p /\ held'[r] = held[r] /\ todo'[r] = T
      /\ agent'[r] = A /\ lost'[r] = lost[r]
  <2>1. /\ p \in Places /\ held[r] \in SUBSET Nat /\ T \in SUBSET Nat /\ A \in SUBSET Nat
        /\ lost[r] \in SUBSET Nat
    BY <1>1, <1>3 DEF Places, RunnerOK
  <2>2. /\ at' = [at EXCEPT ![r] = p] \/ (at' = at /\ p = at[r])
        /\ agent' = [agent EXCEPT ![r] = A] \/ (agent' = agent /\ A = agent[r])
        /\ todo' = [todo EXCEPT ![r] = T]
    BY <1>1, <1>4 DEF ForAgent
  <2> HIDE DEF p, A, T
  <2>3. RunnerSet(r, p, held[r], T, A, lost[r])
    BY <1>4, <2>2 DEF RunnerSet
  <2> QED BY <1>1, <2>1, <2>3, RunnerStep
<1>6. stop => r \in Members /\ r # Lead
  BY <1>1, <1>3 DEF Letters, Owners
<1>7. /\ MailOK' /\ Letters' /\ \A q \in Owners : Quiet(q) /\ Grown(q)
      /\ \A m \in Members \ {r} : Holds(Lead, "response", m)' => Holds(Lead, "response", m)
      /\ ~stop => (Holds(Lead, "response", r)' => Holds(Lead, "response", r))
      /\ \A i \in DOMAIN inbox'[Lead] \ DOMAIN inbox[Lead] : inbox'[Lead][i].kind # "verdict"
      /\ inbox'[r] = inbox[r]
  <2>1. CASE stop
    <3>1. inbox' = Sent(Lead, "response", r)
      BY <1>4, <2>1 DEF ForAgent
    <3>2. [kind |-> "response", of |-> r, status |-> "unread"] \in Messages
      BY <1>6, <2>1 DEF Messages, Statuses
    <3> HIDE DEF stop
    <3>3. /\ MailOK' /\ \A q \in Owners : Quiet(q)
          /\ \A q \in Owners : \A i \in DOMAIN inbox'[q] \ DOMAIN inbox[q] :
               q = Lead /\ inbox'[q][i].kind = "response" /\ inbox'[q][i].of = r
      BY <1>1, <3>1, <3>2, SentQuiet
    <3>4. Letters'
      BY <1>1, <3>1, <3>2, SentLetters
    <3>5. inbox'[r] = inbox[r]
      BY <1>1, <1>6, <2>1, <3>1, <3>2, SentMail
    <3>6. \A m \in Members \ {r} : Holds(Lead, "response", m)' => Holds(Lead, "response", m)
      BY <1>1, <3>3 DEF Holds, Quiet, Grown
    <3> QED BY <1>1, <2>1, <3>3, <3>4, <3>5, <3>6 DEF Quiet
  <2>2. CASE ~stop
    <3>1. UNCHANGED inbox
      BY <1>4, <2>2
    <3> QED BY <1>1, <3>1, SameQuiet DEF MailOK, Letters, Quiet, Holds
  <2> QED BY <2>1, <2>2
<1>8. Batch(r)'
  <2>1. With(r, "unread")' = With(r, "unread")
    BY <1>7 DEF With
  <2>2. System(r)' \subseteq System(r) \cup {k}
        /\ (inbox[r][k].kind \in ForAgent => k \notin System(r)')
    BY <1>1, <1>2, <1>5 DEF System
  <2>3. \A i \in System(r)' : inbox'[r][i].kind \notin ForAgent
    BY <1>1, <1>7, <2>2 DEF Batch
  <2>4. T \subseteq held[r] /\ A \subseteq held[r] /\ \A i \in A : inbox[r][i].kind \in ForAgent
    BY <1>1, <1>3 DEF Batch
  <2>5. p \in {"dispatch", "stopping"}
    OBVIOUS
  <2> HIDE DEF p, A, T
  <2> QED BY <1>1, <1>5, <1>7, <2>1, <2>3, <2>4, <2>5 DEF Batch
<1>9. ASSUME r \in Members PROVE Reported(r)' /\ ConsumedTold(r)' /\ Confirmed(r)'
  <2>1. Reported(r)'
    BY <1>5 DEF Reported
  <2>2. ConsumedTold(r)'
    BY <1>1, <1>7, <1>9, QuietConsumed DEF Good
  <2>3. Confirmed(r)'
    <3>1. CASE stop
      <4>1. k \in System(r)'
        BY <1>1, <1>3, <1>5, <3>1 DEF System, Batch, ForAgent
      <4>2. inbox'[r][k].kind = "shutdown" /\ k \in DOMAIN inbox'[r] /\ at'[r] = "stopping"
        BY <1>3, <1>5, <1>7, <3>1
      <4> QED BY <4>1, <4>2 DEF Confirmed, Stopping
    <3>2. CASE ~stop
      <4>1. \A i \in DOMAIN inbox[r] :
              inbox[r][i].kind = "shutdown" /\ Stopping(r, i) => Stopping(r, i)'
        BY <1>1, <1>5, <3>2 DEF Stopping
      <4> QED BY <1>1, <1>7, <1>9, <3>2, <4>1 DEF Good, Confirmed
    <3> QED BY <3>1, <3>2
  <2> QED BY <2>1, <2>2, <2>3
<1>10. Hired' /\ Accounts' /\ \A q \in Owners : Good(q)'
  <2>1. Good(r)'
    BY <1>8, <1>9 DEF Good
  <2>2. p \in {"dispatch", "stopping"} /\ UNCHANGED <<team, chores>>
    BY <1>4
  <2> HIDE DEF stop, p, A, T
  <2> QED BY <1>1, <1>5, <1>7, <2>1, <2>2, StepInv
<1>11. RecordOK'
  <2>1. inbox[r][k].kind = "response" => inbox[r][k].of \in Members
    BY <1>3, MessageType
  <2> QED BY <1>1, <1>4, <2>1 DEF RecordOK
<1>12. TypeOK'
  BY <1>4, <1>5, <1>7, <1>11, PartsType, TypeParts, TeamSame, ChoreSame, SessionSame
     DEF TeamInv
<1> QED BY <1>7, <1>10, <1>12 DEF TeamInv

\* The batch is acknowledged with its result in the lead's box.
LEMMA ReportInv ==
  ASSUME TeamInv, NEW m \in Members, Report(m)
  PROVE  TeamInv'
<1>1. /\ RunnerOK /\ MailOK /\ SessionOK /\ Good(m) /\ Batch(m) /\ Letters /\ Lead \in Owners
      /\ m \in Owners /\ m # Lead
  BY TypeParts, Distinct DEF TeamInv, Good, Owners
<1>2. /\ at[m] = "report" /\ at' = [at EXCEPT ![m] = "ack"]
      /\ UNCHANGED <<team, held, todo, agent, lost, assigned, request, sessions, faults, chores>>
  BY DEF Report, Goto
<1>3. Sources(m) \subseteq Assignments
  <2>1. \A i \in agent[m] : inbox[m][i] \in Messages
    BY <1>1, BoxDomain DEF Batch
  <2> QED BY <2>1, MessageType DEF Sources
<1> DEFINE result == [by |-> m, run |-> runs[m], for |-> Sources(m)]
<1>4. [kind |-> "result", of |-> result, status |-> "unread"] \in Messages
  <2>1. result \in Results
    BY <1>1, <1>3 DEF Results, SessionOK
  <2> HIDE DEF result
  <2> QED BY <2>1 DEF Messages, Statuses
<1>5. /\ RunnerOK' /\ Others(m) /\ at'[m] = "ack" /\ held'[m] = held[m] /\ todo'[m] = todo[m]
      /\ agent'[m] = agent[m] /\ lost'[m] = lost[m]
  <2>1. /\ "ack" \in Places /\ held[m] \in SUBSET Nat /\ todo[m] \in SUBSET Nat
        /\ agent[m] \in SUBSET Nat /\ lost[m] \in SUBSET Nat
    BY <1>1 DEF Places, RunnerOK
  <2>2. RunnerSet(m, "ack", held[m], todo[m], agent[m], lost[m])
    BY <1>2 DEF RunnerSet
  <2> QED BY <1>1, <2>1, <2>2, RunnerStep
<1>6. /\ MailOK' /\ Letters' /\ \A q \in Owners : Quiet(q) /\ Grown(q)
      /\ \A q \in Members : Holds(Lead, "response", q)' => Holds(Lead, "response", q)
      /\ \A i \in DOMAIN inbox'[Lead] \ DOMAIN inbox[Lead] : inbox'[Lead][i].kind # "verdict"
      /\ inbox'[m] = inbox[m]
      /\ Sources(m) # {} =>
           \E j \in DOMAIN inbox'[Lead] :
              inbox'[Lead][j].kind = "result" /\ inbox'[Lead][j].of = result
  <2>1. CASE Sources(m) = {}
    <3>1. UNCHANGED inbox
      BY <2>1 DEF Report
    <3> QED BY <1>1, <2>1, <3>1, SameQuiet DEF MailOK, Letters, Quiet, Holds
  <2>2. CASE Sources(m) # {}
    <3>1. inbox' = Sent(Lead, "result", result)
      BY <2>2 DEF Report
    <3> HIDE DEF result
    <3>2. /\ MailOK' /\ \A q \in Owners : Quiet(q)
          /\ \A q \in Owners : \A i \in DOMAIN inbox'[q] \ DOMAIN inbox[q] :
               q = Lead /\ inbox'[q][i].kind = "result" /\ inbox'[q][i].of = result
      BY <1>1, <1>4, <3>1, SentQuiet
    <3>3. Letters'
      BY <1>1, <1>4, <3>1, SentLetters
    <3>4. inbox'[m] = inbox[m] /\ Delivered(inbox[Lead], inbox'[Lead], "result", result)
      BY <1>1, <1>4, <3>1, SentMail
    <3>5. \A q \in Members : Holds(Lead, "response", q)' => Holds(Lead, "response", q)
      BY <1>1, <3>2 DEF Holds, Quiet, Grown
    <3> QED BY <1>1, <3>2, <3>3, <3>4, <3>5 DEF Quiet, Delivered
  <2> QED BY <2>1, <2>2
<1>7. Batch(m)'
  <2>1. With(m, "unread")' = With(m, "unread")
    BY <1>6 DEF With
  <2> QED BY <1>1, <1>2, <1>5, <1>6, <2>1 DEF Batch
<1>8. Reported(m)' /\ ConsumedTold(m)' /\ Confirmed(m)'
  <2>1. Reported(m)'
    <3> SUFFICES ASSUME NEW i \in agent[m], inbox[m][i].kind = "assignment"
                 PROVE  Resulted(inbox'[Lead], m, inbox[m][i].of)
      BY <1>5, <1>6 DEF Reported
    <3>1. inbox[m][i].of \in Sources(m)
      BY DEF Sources
    <3> QED BY <1>6, <3>1 DEF Resulted
  <2>2. ConsumedTold(m)'
    BY <1>1, <1>6, QuietConsumed DEF Good
  <2>3. \A i : Stopping(m, i) => Stopping(m, i)'
    BY <1>2, <1>5 DEF Stopping
  <2>4. Confirmed(m)'
    BY <1>1, <1>6, <2>3 DEF Good, Confirmed
  <2> QED BY <2>1, <2>2, <2>4
<1>9. Hired' /\ Accounts' /\ \A q \in Owners : Good(q)'
  <2>1. Good(m)'
    BY <1>7, <1>8 DEF Good
  <2> HIDE DEF result
  <2> QED BY <1>1, <1>2, <1>5, <1>6, <2>1, StepInv
<1>10. TypeOK'
  BY <1>2, <1>5, <1>6, PartsType, TypeParts, TeamSame, RecordSame, ChoreSame, SessionSame
     DEF TeamInv
<1> QED BY <1>6, <1>9, <1>10 DEF TeamInv

-----------------------------------------------------------------------------
(* Work of its own. *)

\* A member without a batch, at a chore or between two.
LEMMA WorkGood ==
  ASSUME TeamInv, NEW m \in Members, NEW p \in {"poll", "work", "verify"}, Goto(m, p),
         UNCHANGED <<held, todo, agent, lost>>, \A q \in Owners : Quiet(q),
         \A q \in Members : Holds(Lead, "response", q)' => Holds(Lead, "response", q),
         \/ at[m] = "poll" /\ With(m, "unread") = {}
         \/ at[m] \in {"work", "verify"},
         UNCHANGED team
  PROVE  /\ RunnerOK' /\ Hired' /\ \A q \in Owners : Good(q)'
         /\ at'[m] = p /\ \A q \in Members \ {m} : at'[q] = at[q]
<1>1. /\ RunnerOK /\ Good(m) /\ Batch(m) /\ Lead \in Owners /\ m \in Owners
      /\ Members \subseteq Owners /\ p \in Places
  BY TypeParts DEF TeamInv, Good, Owners, Places
<1>2. /\ at' \in [Owners -> Places] /\ at'[m] = p
      /\ \A q \in Owners \ {m} : at'[q] = at[q]
  BY <1>1 DEF Goto, RunnerOK
<1>3. RunnerOK' /\ Others(m)
  BY <1>1, <1>2 DEF RunnerOK, Others
<1>4. Hired'
  BY <1>2, HiredKept DEF TeamInv
<1>5. \A q \in Owners : Grown(q)
  BY DEF Quiet
<1>6. \A q \in Owners \ {m} : Good(q)'
  BY <1>1, <1>3, <1>5, StepOthers
<1>7. held[m] = {}
  BY <1>1 DEF Batch
<1>8. Batch(m)'
  BY <1>1, <1>2, <1>7 DEF Batch
<1>9. Reported(m)' /\ ConsumedTold(m)'
  BY <1>1, <1>2, <1>5, QuietConsumed DEF Good, Reported
<1>10. Confirmed(m)'
  <2>1. \A i : Stopping(m, i) => i \in lost[m]
    BY DEF Stopping, Oldest
  <2>2. \A i : Stopping(m, i) => Stopping(m, i)'
    BY <2>1 DEF Stopping
  <2> QED BY <1>1, <1>5, <2>2 DEF Good, Confirmed, Grown
<1>11. Good(m)'
  BY <1>8, <1>9, <1>10 DEF Good
<1> QED BY <1>1, <1>2, <1>3, <1>4, <1>6, <1>11

LEMMA ClaimInv ==
  ASSUME TeamInv, NEW m \in Members, ClaimWork(m)
  PROVE  TeamInv'
<1>1. PICK t \in Chores :
         /\ work[t].status = "pending"
         /\ work' = [work EXCEPT ![t] = [status |-> "in_progress", owner |-> m]]
         /\ doing' = [doing EXCEPT ![m] = [task |-> t, run |-> 0]]
  BY DEF ClaimWork
<1>2. /\ at[m] = "poll" /\ With(m, "unread") = {} /\ Goto(m, "work")
      /\ UNCHANGED <<team, held, todo, agent, lost, inbox, assigned, request, sessions, faults,
                     untold>>
  BY DEF ClaimWork, repositories
<1>3. ChoreOK /\ Accounts /\ MailOK /\ m \in Owners /\ Lead \in Owners
  BY TypeParts DEF TeamInv, Owners
<1>4. MailOK' /\ Letters' /\ \A q \in Owners : Quiet(q)
  BY <1>2, <1>3, SameQuiet DEF TeamInv, MailOK, Letters
<1>5. \A q \in Members : Holds(Lead, "response", q)' => Holds(Lead, "response", q)
  BY <1>2 DEF Holds
<1>6. /\ RunnerOK' /\ Hired' /\ \A q \in Owners : Good(q)'
      /\ at'[m] = "work" /\ \A q \in Members \ {m} : at'[q] = at[q]
  BY <1>2, <1>4, <1>5, WorkGood
<1>7. /\ work' \in [Chores -> [status : {"pending", "in_progress", "completed"},
                               owner : Owners \cup {None}]]
      /\ work'[t] = [status |-> "in_progress", owner |-> m]
      /\ \A u \in Chores \ {t} : work'[u] = work[u]
  BY <1>1, <1>3 DEF ChoreOK
<1>8. /\ doing' \in [Members -> [task : Chores \cup {None}, run : Nat]]
      /\ doing'[m] = [task |-> t, run |-> 0]
      /\ \A q \in Members \ {m} : doing'[q] = doing[q]
  BY <1>1, <1>3 DEF ChoreOK
<1>9. ChoreOK'
  BY <1>2, <1>3, <1>7, <1>8 DEF ChoreOK
<1>10. Accounts'
  <2>1. \A u : VerdictsOn(u)' = VerdictsOn(u)
    BY <1>2 DEF VerdictsOn
  <2>2. doing[m] = Idle /\ doing[m].task = None
    BY <1>2, <1>3 DEF Accounts, Idle
  <2>3. Free(t)
    BY <1>1, <1>3 DEF Accounts, Taken
  <2>4. Taken(t)'
    BY <1>2, <1>7, <1>8, <2>1, <2>3 DEF Free, Taken
  <2>5. ASSUME NEW u \in Chores \ {t} PROVE Free(u)' \/ Taken(u)'
    <3>1. doing[m].task # u /\ doing'[m].task # u
      BY <1>8, <2>2, NoChore
    <3>2. CASE Free(u)
      BY <1>2, <1>7, <1>8, <2>1, <3>1, <3>2 DEF Free
    <3>3. CASE Taken(u)
      <4>1. /\ work'[u] = work[u]
            /\ \A q \in Members : doing'[q].task = u <=> doing[q].task = u
        BY <1>7, <1>8, <3>1
      <4> QED BY <1>2, <2>1, <3>3, <4>1 DEF Taken
    <3> QED BY <1>3, <3>2, <3>3 DEF Accounts
  <2>6. \A q \in Members : IF at'[q] \in {"work", "verify"} THEN doing'[q].task \in Chores
                                                           ELSE doing'[q] = Idle
    BY <1>3, <1>6, <1>8 DEF Accounts
  <2> QED BY <2>4, <2>5, <2>6 DEF Accounts
<1>11. TypeOK'
  BY <1>2, <1>4, <1>6, <1>9, PartsType, TypeParts, TeamSame, RecordSame, SessionSame
     DEF TeamInv
<1> QED BY <1>4, <1>6, <1>10, <1>11 DEF TeamInv

\* The Run of the chore.
LEMMA DoWorkInv ==
  ASSUME TeamInv, NEW m \in Members, DoWork(m) \/ DoWorkFails(m)
  PROVE  TeamInv'
<1>1. /\ at[m] = "work" /\ Goto(m, "verify")
      /\ UNCHANGED <<team, held, todo, agent, lost, inbox, assigned, request, gate, faults,
                     work, untold>>
  BY DEF DoWork, DoWorkFails, repositories, chores
<1>2. /\ ChoreOK /\ Accounts /\ MailOK /\ SessionOK /\ m \in Owners /\ Lead \in Owners
  BY TypeParts DEF TeamInv, Owners
<1>3. MailOK' /\ Letters' /\ \A q \in Owners : Quiet(q)
  BY <1>1, <1>2, SameQuiet DEF TeamInv, MailOK, Letters
<1>4. \A q \in Members : Holds(Lead, "response", q)' => Holds(Lead, "response", q)
  BY <1>1 DEF Holds
<1>5. /\ RunnerOK' /\ Hired' /\ \A q \in Owners : Good(q)'
      /\ at'[m] = "verify" /\ \A q \in Members \ {m} : at'[q] = at[q]
  BY <1>1, <1>3, <1>4, WorkGood
<1>6. /\ doing' \in [Members -> [task : Chores \cup {None}, run : Nat]]
      /\ \A q \in Members : doing'[q].task = doing[q].task
      /\ \A q \in Members \ {m} : doing'[q] = doing[q]
  <2>1. CASE UNCHANGED doing
    BY <1>2, <2>1 DEF ChoreOK
  <2>2. CASE DoWork(m)
    <3> DEFINE next == [doing[m] EXCEPT !.run = runs[m] + 1]
    <3>1. doing[m] \in [task : Chores \cup {None}, run : Nat] /\ runs[m] + 1 \in Nat
      BY <1>2 DEF ChoreOK, SessionOK
    <3>2. next \in [task : Chores \cup {None}, run : Nat] /\ next.task = doing[m].task
      BY <3>1
    <3>3. doing' = [doing EXCEPT ![m] = next]
      BY <2>2 DEF DoWork
    <3> HIDE DEF next
    <3> QED BY <1>2, <3>2, <3>3 DEF ChoreOK
  <2> QED BY <2>1, <2>2 DEF DoWorkFails, chores
<1>7. ChoreOK'
  BY <1>1, <1>2, <1>6 DEF ChoreOK
<1>8. Accounts'
  <2>1. \A u : VerdictsOn(u)' = VerdictsOn(u)
    BY <1>1 DEF VerdictsOn
  <2>2. ASSUME NEW u \in Chores PROVE Free(u)' \/ Taken(u)'
    <3>1. CASE Free(u)
      BY <1>1, <1>6, <2>1, <3>1 DEF Free
    <3>2. CASE Taken(u)
      BY <1>1, <1>6, <2>1, <3>2 DEF Taken
    <3> QED BY <1>2, <3>1, <3>2 DEF Accounts
  <2>3. \A q \in Members : IF at'[q] \in {"work", "verify"} THEN doing'[q].task \in Chores
                                                           ELSE doing'[q] = Idle
    BY <1>1, <1>2, <1>5, <1>6 DEF Accounts
  <2> QED BY <2>2, <2>3 DEF Accounts
<1>9. SessionOK'
  <2>1. runs' \in [Members -> Nat]
    BY <1>2 DEF DoWork, DoWorkFails, SessionOK
  <2>2. wedged' \in [Owners -> BOOLEAN]
    BY <1>2 DEF DoWork, DoWorkFails, SessionOK
  <2>3. fails' \in 0 .. MaxFails
    BY <1>2, Bounds DEF DoWork, DoWorkFails, SessionOK
  <2> QED BY <1>1, <1>2, <2>1, <2>2, <2>3 DEF SessionOK
<1>10. TypeOK'
  BY <1>1, <1>3, <1>5, <1>7, <1>9, PartsType, TypeParts, TeamSame, RecordSame DEF TeamInv
<1> QED BY <1>3, <1>5, <1>8, <1>10 DEF TeamInv

\* The chore is accounted for: with a verdict, or among those nobody was told of.
LEMMA TellInv ==
  ASSUME TeamInv, NEW m \in Members, Tell(m) \/ TellFails(m)
  PROVE  TeamInv'
<1> DEFINE verdict == [by |-> m, task |-> doing[m].task, run |-> doing[m].run,
                       completed |-> Verified(m)]
<1>1. /\ at[m] = "verify" /\ Goto(m, "poll") /\ doing' = [doing EXCEPT ![m] = Idle]
      /\ UNCHANGED <<team, held, todo, agent, lost, assigned, request, sessions, work>>
      /\ \/ inbox' = Sent(Lead, "verdict", verdict) /\ UNCHANGED <<untold, faults>>
         \/ UNCHANGED inbox /\ untold' = untold \cup {doing[m].task} /\ Fault
  BY DEF Tell, TellFails, repositories
<1>2. /\ ChoreOK /\ Accounts /\ MailOK /\ Letters /\ m \in Owners /\ Lead \in Owners
  BY TypeParts DEF TeamInv, Owners
<1>3. PICK t \in Chores : doing[m].task = t
  BY <1>1, <1>2 DEF Accounts
<1>4. Taken(t) /\ work[t].owner = m /\ VerdictsOn(t) = {} /\ t \notin untold
  BY <1>2, <1>3 DEF Accounts, Free, Taken
<1>5. [kind |-> "verdict", of |-> verdict, status |-> "unread"] \in Messages
  <2>1. doing[m].run \in Nat /\ Verified(m) \in BOOLEAN
    BY <1>2 DEF ChoreOK, Verified
  <2>2. verdict \in Verdicts
    BY <1>3, <2>1 DEF Verdicts
  <2> HIDE DEF verdict
  <2> QED BY <2>2 DEF Messages, Statuses
<1>6. /\ verdict.by = m /\ verdict.task = t
      /\ verdict.completed => work[t].status = "completed" /\ verdict.run # 0
  BY <1>3 DEF Verified
<1> HIDE DEF verdict
<1>7. /\ MailOK' /\ Letters' /\ \A q \in Owners : Quiet(q)
      /\ \A q \in Members : Holds(Lead, "response", q)' => Holds(Lead, "response", q)
      /\ \A i \in DOMAIN inbox'[Lead] \ DOMAIN inbox[Lead] :
           /\ inbox'[Lead][i].kind = "verdict" /\ inbox'[Lead][i].of = verdict
           /\ \A j \in DOMAIN inbox'[Lead] \ DOMAIN inbox[Lead] : i = j
  <2>1. CASE inbox' = Sent(Lead, "verdict", verdict)
    <3>1. /\ MailOK' /\ \A q \in Owners : Quiet(q)
          /\ \A q \in Owners : \A i \in DOMAIN inbox'[q] \ DOMAIN inbox[q] :
               q = Lead /\ inbox'[q][i].kind = "verdict" /\ inbox'[q][i].of = verdict
          /\ \A i, j \in DOMAIN inbox'[Lead] \ DOMAIN inbox[Lead] : i = j
      BY <1>2, <1>5, <2>1, SentQuiet
    <3>2. Letters'
      BY <1>2, <1>5, <2>1, SentLetters
    <3>3. \A q \in Members : Holds(Lead, "response", q)' => Holds(Lead, "response", q)
      BY <1>2, <3>1 DEF Holds, Quiet, Grown
    <3> QED BY <1>2, <3>1, <3>2, <3>3
  <2>2. CASE UNCHANGED inbox
    BY <1>2, <2>2, SameQuiet DEF MailOK, Letters, Holds
  <2> QED BY <1>1, <2>1, <2>2
<1>8. /\ RunnerOK' /\ Hired' /\ \A q \in Owners : Good(q)'
      /\ at'[m] = "poll" /\ \A q \in Members \ {m} : at'[q] = at[q]
  BY <1>1, <1>7, WorkGood
<1>9. /\ doing' \in [Members -> [task : Chores \cup {None}, run : Nat]]
      /\ doing'[m] = Idle
      /\ \A q \in Members \ {m} : doing'[q] = doing[q]
  <2>1. Idle \in [task : Chores \cup {None}, run : Nat]
    BY DEF Idle
  <2> HIDE DEF Idle
  <2> QED BY <1>1, <1>2, <2>1 DEF ChoreOK
<1>10. ChoreOK'
  BY <1>1, <1>2, <1>3, <1>9 DEF ChoreOK
<1>11. doing'[m].task = None /\ None \notin Chores
  BY <1>9, NoChore DEF Idle
<1>12. Taken(t)'
  <2>1. work'[t] = work[t] /\ doing'[work[t].owner].task # t
    BY <1>1, <1>4, <1>11
  <2>2. \A q \in Members : doing'[q].task = t => q = m
    BY <1>4, <1>9 DEF Taken
  <2>3. CASE UNCHANGED inbox /\ untold' = untold \cup {doing[m].task}
    <3>1. VerdictsOn(t)' = {} /\ t \in untold'
      BY <1>3, <1>4, <2>3 DEF VerdictsOn
    <3> QED BY <1>4, <2>1, <2>2, <3>1 DEF Taken
  <2>4. CASE inbox' = Sent(Lead, "verdict", verdict) /\ UNCHANGED untold
    <3>1. Delivered(inbox[Lead], inbox'[Lead], "verdict", verdict)
      BY <1>2, <1>5, <2>4, SentMail
    <3>2. PICK i \in DOMAIN inbox'[Lead] :
             inbox'[Lead][i].kind = "verdict" /\ inbox'[Lead][i].of = verdict
      BY <3>1 DEF Delivered
    <3>3. i \notin DOMAIN inbox[Lead]
      BY <1>4, <1>6, <3>1, <3>2 DEF Delivered, VerdictsOn
    <3>4. VerdictsOn(t)' = {i}
      <4>1. i \in VerdictsOn(t)'
        BY <1>6, <3>2 DEF VerdictsOn
      <4>2. ASSUME NEW j \in VerdictsOn(t)' PROVE j = i
        <5>1. /\ j \in DOMAIN inbox'[Lead] /\ inbox'[Lead][j].kind = "verdict"
              /\ inbox'[Lead][j].of.task = t
          BY DEF VerdictsOn
        <5>2. j \notin DOMAIN inbox[Lead]
          BY <1>4, <3>1, <5>1 DEF Delivered, VerdictsOn
        <5> QED BY <1>7, <3>2, <3>3, <5>1, <5>2
      <4> QED BY <4>1, <4>2
    <3> QED BY <1>4, <1>6, <2>1, <2>2, <2>4, <3>2, <3>4 DEF Taken
  <2> QED BY <1>1, <2>3, <2>4
<1>13. ASSUME NEW u \in Chores \ {t} PROVE Free(u)' \/ Taken(u)'
  <2>1. /\ VerdictsOn(u)' = VerdictsOn(u)
        /\ \A i \in VerdictsOn(u) : inbox'[Lead][i].of = inbox[Lead][i].of
    <3>1. Grown(Lead)
      BY <1>2, <1>7 DEF Quiet
    <3> QED BY <1>6, <1>7, <3>1, VerdictsKept
  <2>2. \A q \in Members : doing'[q].task = u <=> doing[q].task = u
    BY <1>3, <1>9, <1>11
  <2>3. (u \in untold' <=> u \in untold) /\ work'[u] = work[u]
    BY <1>1, <1>3
  <2>4. CASE Free(u)
    BY <2>1, <2>2, <2>3, <2>4 DEF Free
  <2>5. CASE Taken(u)
    <3>1. DOMAIN inbox[Lead] \subseteq DOMAIN inbox'[Lead]
      BY <1>2, <1>7 DEF Quiet, Grown
    <3> QED BY <2>1, <2>2, <2>3, <2>5, <3>1 DEF Taken
  <2> QED BY <1>2, <2>4, <2>5 DEF Accounts
<1>14. Accounts'
  <2>1. \A q \in Members : IF at'[q] \in {"work", "verify"} THEN doing'[q].task \in Chores
                                                           ELSE doing'[q] = Idle
    BY <1>2, <1>8, <1>9 DEF Accounts
  <2> QED BY <1>12, <1>13, <2>1 DEF Accounts
<1>15. TypeOK'
  BY <1>1, <1>7, <1>8, <1>10, PartsType, TypeParts, TeamSame, RecordSame, SessionSame
     DEF TeamInv
<1> QED BY <1>7, <1>8, <1>14, <1>15 DEF TeamInv

-----------------------------------------------------------------------------
(* The invariant, and what it says of assignments, stops and chores. *)

LEMMA InitInv == Init => TeamInv
<1> SUFFICES ASSUME Init PROVE TeamInv
  OBVIOUS
<1>1. \A r \in Owners : /\ inbox[r] = <<>> /\ DOMAIN inbox[r] = {}
                        /\ at[r] = "none" /\ held[r] = {} /\ todo[r] = {} /\ agent[r] = {}
  BY DEF Init
<1>2. Lead \in Owners /\ Members \subseteq Owners
  BY DEF Owners
<1>3. TypeOK
  <2>1. /\ NotHiring \in [step : {"none", "enter", "start"}, who : Owners \cup {None}]
        /\ Idle \in [task : Chores \cup {None}, run : Nat]
        /\ [status |-> "pending", owner |-> None]
             \in [status : {"pending", "in_progress", "completed"}, owner : Owners \cup {None}]
    BY DEF NotHiring, Idle
  <2>2. TeamOK
    BY <2>1 DEF Init, TeamOK
  <2>3. MailOK
    <3>1. <<>> \in Seq(Messages)
      OBVIOUS
    <3> QED BY <3>1 DEF Init, MailOK
  <2>4. RecordOK
    BY DEF Init, RecordOK
  <2>5. RunnerOK
    BY DEF Init, RunnerOK, Places
  <2>6. ChoreOK
    BY <2>1 DEF Init, ChoreOK
  <2>7. SessionOK
    BY Bounds DEF Init, SessionOK
  <2> QED BY <2>2, <2>3, <2>4, <2>5, <2>6, <2>7, TypeParts
<1>4. Letters
  BY <1>1, <1>2 DEF Letters
<1>5. Hired
  BY <1>1 DEF Init, Hired, NotHiring
<1>6. ASSUME NEW r \in Owners PROVE Good(r)
  <2>1. Batch(r)
    BY <1>1 DEF Batch, System
  <2>2. Reported(r) /\ ConsumedTold(r) /\ Confirmed(r)
    BY <1>1, <1>2 DEF Reported, ConsumedTold, Confirmed, With, Holds
  <2> QED BY <2>1, <2>2 DEF Good
<1>7. Accounts
  <2>1. \A m \in Members : doing[m] = Idle /\ doing[m].task = None
    BY DEF Init, Idle
  <2>2. \A t \in Chores : t # None
    BY NoChore
  <2>3. \A t \in Chores : Free(t)
    BY <1>1, <1>2, <2>1, <2>2 DEF Init, Free, VerdictsOn
  <2> QED BY <1>1, <1>2, <2>1, <2>3 DEF Accounts
<1> QED BY <1>3, <1>4, <1>5, <1>6, <1>7 DEF TeamInv

LEMMA RunnerStepInv ==
  ASSUME TeamInv, NEW r \in Owners, Step(r)
  PROVE  TeamInv'
BY GiveUpInv, SettleInv, RunInv, ReserveInv, AcknowledgeSystemInv, AcknowledgeInv,
   ReleasedInv, DispatchInv DEF Step

LEMMA MemberStepInv ==
  ASSUME TeamInv, NEW m \in Members, MemberStep(m)
  PROVE  TeamInv'
<1>1. m \in Owners
  BY DEF Owners
<1> QED BY <1>1, RunnerStepInv, ReportInv, GiveUpInv, ClaimInv, DoWorkInv, TellInv
        DEF MemberStep, WorkStep

LEMMA ToolInv ==
  ASSUME TeamInv, Tool
  PROVE  TeamInv'
BY SendInv, RecordInv, CompleteInv DEF Tool

LEMMA Unchanged ==
  ASSUME TeamInv, UNCHANGED vars
  PROVE  TeamInv'
<1>1. /\ UNCHANGED <<team, inbox, runners, chores, sessions, faults>>
      /\ UNCHANGED <<assigned, request>>
  BY DEF vars, repositories
<1>2. RecordOK' /\ SessionOK'
  BY <1>1, RecordSame, SessionSame, TypeParts DEF TeamInv
<1> QED BY <1>1, <1>2, StutterInv

LEMMA TeamInductive == Spec => []TeamInv
<1>1. TeamInv /\ [Next]_vars => TeamInv'
  <2> SUFFICES ASSUME TeamInv, [Next]_vars PROVE TeamInv'
    OBVIOUS
  <2>1. CASE UNCHANGED vars
    BY <2>1, Unchanged
  <2>2. CASE \E m \in Members : MemberStep(m)
    BY <2>2, MemberStepInv
  <2>3. CASE Step(Lead)
    BY <2>3, RunnerStepInv DEF Owners
  <2>4. CASE Hiring
    BY <2>4, TeamFilesInv, StartInv DEF Hiring
  <2>5. CASE Tool
    BY <2>5, ToolInv
  <2>6. CASE OtherRun \/ OtherEnd
    BY <2>6, OtherInv
  <2> QED BY <2>1, <2>2, <2>3, <2>4, <2>5, <2>6 DEF Next
<1> QED BY <1>1, InitInv, PTL DEF Spec

\* The files of the team, the runners' places and batches, and the gate have
\* their types whatever fails and in whatever order the threads go.
THEOREM TeamTypeCorrect == Spec => []TypeOK
<1>1. TeamInv => TypeOK
  BY DEF TeamInv
<1> QED BY <1>1, TeamInductive, PTL

\* TeamRunner reports before it acknowledges: an assignment that counts as
\* consumed has its result in the lead's inbox, whichever call has raised.
THEOREM ConsumedIsReported == Spec => []ConsumedHasResult
<1>1. TeamInv => ConsumedHasResult
  <2>1. Members \subseteq Owners
    BY DEF Owners
  <2> QED BY <2>1 DEF TeamInv, Good, ConsumedTold, Resulted, ConsumedHasResult
<1> QED BY <1>1, TeamInductive, PTL

\* A member whose confirmation has reached the lead is in no Run, of a batch or of
\* a chore, and does not get to one: its request stays ahead of what came later,
\* and keeps its inbox from being empty, through every failure and every delivery,
\* unless the release of the request itself has raised.
THEOREM ConfirmedMembersStop == Spec => []ConfirmedStopHolds
<1>1. TeamInv => ConfirmedStopHolds
  <2> SUFFICES ASSUME TeamInv, NEW m \in Members,
                      at[m] \in {"run", "report", "ack", "work", "verify"},
                      Holds(Lead, "response", m)
               PROVE  \E i \in lost[m] : inbox[m][i].kind = "shutdown"
    BY DEF ConfirmedStopHolds
  <2>1. Confirmed(m)
    BY DEF TeamInv, Good, Owners
  <2>2. PICK i \in DOMAIN inbox[m] : inbox[m][i].kind = "shutdown" /\ Stopping(m, i)
    BY <2>1 DEF Confirmed
  <2>3. i \in lost[m]
    BY <2>2 DEF Stopping
  <2> QED BY <2>2, <2>3
<1> QED BY <1>1, TeamInductive, PTL

\* Each chore a member took for itself is with its runner, or has its one verdict
\* in the lead's inbox, or is known to be untold; a good verdict is the board's.
THEOREM ChoresAreAccounted == Spec => []WorkAccounted
<1>1. TeamInv => WorkAccounted
  <2> SUFFICES ASSUME TeamInv, NEW t \in Chores
      PROVE  /\ work[t].owner \in Members =>
                  Cardinality(VerdictsOn(t)) + (IF doing[work[t].owner].task = t THEN 1 ELSE 0)
                    + (IF t \in untold THEN 1 ELSE 0) = 1
             /\ \A i \in VerdictsOn(t) :
                  /\ work[t].owner = inbox[Lead][i].of.by
                  /\ inbox[Lead][i].of.completed =>
                       work[t].status = "completed" /\ inbox[Lead][i].of.run # 0
    BY DEF WorkAccounted
  <2>1. CASE Free(t)
    <3>1. None \notin Members
      BY Distinct DEF Owners
    <3> QED BY <2>1, <3>1 DEF Free
  <2>2. CASE Taken(t)
    <3>1. VerdictsOn(t) = {} => Cardinality(VerdictsOn(t)) = 0
      BY FS_EmptySet
    <3>2. ASSUME NEW i \in DOMAIN inbox[Lead], VerdictsOn(t) = {i}
          PROVE  Cardinality(VerdictsOn(t)) = 1
      BY <3>2, FS_Singleton
    <3> QED BY <2>2, <3>1, <3>2 DEF Taken
  <2> QED BY <2>1, <2>2 DEF TeamInv, Accounts
<1> QED BY <1>1, TeamInductive, PTL
=============================================================================
