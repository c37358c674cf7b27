----------------------------- MODULE SessionProofs -----------------------------
(***************************************************************************)
(* Proofs about what a session keeps on file, for any limits, loops, Runs  *)
(* and commands: first its long-term memory (MemoryStore), then its        *)
(* conversation (Conversation).                                            *)
(*                                                                         *)
(* Memory.  A fact is owed from the time it is written until a loop that   *)
(* was not alone at work, or the model, drops it.  MemoryInv: of the loops *)
(* at work only one at a time can have been alone, and what it has still   *)
(* to write and to unlink leaves some file with every fact that is owed    *)
(* (Covered).                                                              *)
(*                                                                         *)
(* Conversation.  ConversationInv says what a Run has appended since its   *)
(* prompt, by where it is (Written); that a checkpoint ends where no later *)
(* message makes it separate a call from its result (CheckpointSound); and *)
(* where the end of each command is told (Told).  That a request tells the *)
(* whole story is followed through what is done to its messages: they are  *)
(* the history or what a checkpoint leaves of it (Whole), with a reference *)
(* at the end (Sound), with the middle cut out and old results shortened   *)
(* (Faithful).                                                             *)
(***************************************************************************)
EXTENDS MCSession, ToolProofs, TLAPS, SequenceTheorems, FiniteSetTheorems,
        WellFoundedInduction

-----------------------------------------------------------------------------
\* Some file has f and goes on having it: it is left alone, or written anew with f,
\* or unlinked only after another one has been written with f.
Safe(f, fs, pend, doom) ==
  \E j \in DOMAIN fs :
    /\ f \in fs[j]
    /\ j \in DOMAIN pend => f \in pend[j]
    /\ j \in doom => \E k \in DOMAIN pend : f \in pend[k]

\* What a loop that is alone at work has still to write and to unlink loses no fact
\* that is owed; which files it unlinks is decided after the new set is.
Covered(st, fs, pend, doom, ow) ==
  /\ st = "saving" => DOMAIN pend \cap DOMAIN fs = {}
  /\ st = "replacing" => \A f \in ow : Safe(f, fs, pend, DOMAIN fs \ DOMAIN pend)
  /\ st = "writing" => /\ doom \cap DOMAIN pend = {}
                       /\ \A f \in ow : Safe(f, fs, pend, doom)

AloneAtWork ==
  \A l, m \in Loops : l # m /\ AtWork(l) /\ AtWork(m) => ~alone[l]

AloneCovered ==
  \A l \in Loops : alone[l] => Covered(stage[l], files, pending[l], doomed[l], owed)

MemoryInv == MemoryTypeOK /\ FactsKept /\ AloneAtWork /\ AloneCovered

-----------------------------------------------------------------------------
(* Catalogs. *)

LEMMA CatalogDomain ==
  ASSUME NEW S, NEW c \in Catalogs(S)
  PROVE  DOMAIN c \subseteq MemoryIds /\ \A i \in DOMAIN c : c[i] \in S
BY DEF Catalogs

LEMMA CatalogOf ==
  ASSUME NEW S, NEW D, D \subseteq MemoryIds, NEW c \in [D -> S]
  PROVE  c \in Catalogs(S)
BY DEF Catalogs

LEMMA EmptyCatalog ==
  ASSUME NEW S
  PROVE  Empty \in Catalogs(S) /\ DOMAIN Empty = {}
<1>1. Empty \in [{} -> S] /\ DOMAIN Empty = {}
  BY DEF Empty
<1> QED BY <1>1, CatalogOf

LEMMA WithCatalog ==
  ASSUME NEW S, NEW c \in Catalogs(S), NEW i \in MemoryIds, NEW e \in S
  PROVE  /\ With(c, i, e) \in Catalogs(S)
         /\ DOMAIN With(c, i, e) = DOMAIN c \cup {i}
         /\ With(c, i, e)[i] = e
         /\ \A j \in DOMAIN c \ {i} : With(c, i, e)[j] = c[j]
<1>1. DOMAIN c \subseteq MemoryIds /\ \A j \in DOMAIN c : c[j] \in S
  BY CatalogDomain
<1>2. With(c, i, e) \in [DOMAIN c \cup {i} -> S]
  BY <1>1 DEF With
<1> QED BY <1>1, <1>2, CatalogOf DEF With

LEMMA WithoutCatalog ==
  ASSUME NEW S, NEW c \in Catalogs(S), NEW i
  PROVE  /\ Without(c, i) \in Catalogs(S)
         /\ DOMAIN Without(c, i) = DOMAIN c \ {i}
         /\ \A j \in DOMAIN c \ {i} : Without(c, i)[j] = c[j]
<1>1. DOMAIN c \subseteq MemoryIds /\ \A j \in DOMAIN c : c[j] \in S
  BY CatalogDomain
<1>2. Without(c, i) \in [DOMAIN c \ {i} -> S]
  BY <1>1 DEF Without
<1> QED BY <1>1, <1>2, CatalogOf DEF Without

LEMMA LeastIsMember ==
  ASSUME NEW S, S \subseteq MemoryIds, S # {}
  PROVE  Least(S) \in S
<1> DEFINE Less == OpToRel(<, Nat)
<1>1. S \subseteq Nat
  BY MemoryAssumption
<1>2. \E x \in S : \A y \in S : <<y, x>> \notin Less
  BY <1>1, NatLessThanWellFounded, WFMin
<1>3. PICK x \in S : \A y \in S : <<y, x>> \notin Less
  BY <1>2
<1>4. \A y \in S : ~(y < x)
  BY <1>1, <1>3 DEF OpToRel
<1>5. \A y \in S : x <= y
  BY <1>1, <1>4
<1> QED BY <1>5 DEF Least

-----------------------------------------------------------------------------
(* Facts that are written or dropped. *)

\* Writing keeps every owed fact in a file.
LEMMA WriteKeepsFacts ==
  ASSUME files \in Catalogs(SUBSET Facts), FactsKept, NEW l \in Loops, NEW i \in MemoryIds,
         NEW facts \in SUBSET Facts, WriteFile(l, i, facts),
         \A f \in owed : alone[l] /\ i \in DOMAIN files /\ f \in files[i] /\ f \notin facts =>
             \E j \in DOMAIN files \ {i} : f \in files[j]
  PROVE  FactsKept'
<1>1. files' = With(files, i, facts)
  BY DEF WriteFile
<1>2. /\ DOMAIN files' = DOMAIN files \cup {i} /\ files'[i] = facts
      /\ \A j \in DOMAIN files \ {i} : files'[j] = files[j]
  <2> DEFINE S == SUBSET Facts
  <2>1. files \in Catalogs(S) /\ facts \in S
    OBVIOUS
  <2> HIDE DEF S
  <2> QED BY <1>1, <2>1, WithCatalog
<1>3. ASSUME NEW f \in owed' PROVE \E j \in DOMAIN files' : f \in files'[j]
  <2>1. CASE f \in facts
    BY <1>2, <2>1
  <2>2. CASE f \notin facts
    <3>1. f \in owed /\ (~alone[l] /\ i \in DOMAIN files => f \notin files[i])
      BY <1>3, <2>2 DEF WriteFile
    <3>2. PICK j \in DOMAIN files : f \in files[j]
      BY <3>1 DEF FactsKept, FactsOf
    <3> QED BY <1>2, <2>2, <3>1, <3>2
  <2> QED BY <2>1, <2>2
<1> QED BY <1>3 DEF FactsKept, FactsOf

-----------------------------------------------------------------------------
(* One step of a loop. *)

\* While a loop is at work no other one is alone.
LEMMA WorkKeeps ==
  ASSUME MemoryInv, NEW l \in Loops, AtWork(l), MemoryTypeOK', FactsKept',
         \A m \in Loops \ {l} : stage'[m] = stage[m] /\ pending'[m] = pending[m]
                                 /\ doomed'[m] = doomed[m],
         UNCHANGED alone,
         alone[l] => Covered(stage'[l], files', pending'[l], doomed'[l], owed')
  PROVE  MemoryInv'
<1>1. \A m \in Loops : AtWork(m)' => AtWork(m)
  BY DEF AtWork
<1>2. AloneAtWork'
  BY <1>1 DEF MemoryInv, AloneAtWork
<1>3. ASSUME NEW m \in Loops, alone[m]
      PROVE  Covered(stage'[m], files', pending'[m], doomed'[m], owed')
  <2>1. CASE m = l
    BY <1>3, <2>1
  <2>2. CASE m # l
    <3>1. ~AtWork(m)
      BY <1>3, <2>2 DEF MemoryInv, AloneAtWork
    <3>2. stage'[m] \in {"idle", "running"}
      BY <2>2, <3>1 DEF AtWork
    <3> QED BY <3>2 DEF Covered
  <2> QED BY <2>1, <2>2
<1> QED BY <1>2, <1>3 DEF MemoryInv, AloneCovered

\* A Run begins or ends; it touches no file.
LEMMA RunStepKeeps ==
  ASSUME MemoryInv, NEW l \in Loops, RunStep(l)
  PROVE  MemoryInv'
<1>1. MemoryTypeOK /\ FactsKept /\ AloneAtWork /\ AloneCovered
  BY DEF MemoryInv
<1>2. stage[l] \in {"idle", "running"} /\ UNCHANGED <<files, pending, doomed, faults, owed>>
  BY DEF RunStep, LoadMemories, FailRun, CompleteRun
<1>3. FactsKept'
  BY <1>1, <1>2 DEF FactsKept
<1>4. CASE LoadMemories(l) \/ FailRun(l)
  <2>1. PICK s \in {"idle", "running"} : stage' = [stage EXCEPT ![l] = s]
    BY <1>4 DEF LoadMemories, FailRun, Goto
  <2>2. MemoryTypeOK'
    <3>1. loaded' \in [Loops -> SUBSET MemoryIds]
      <4>1. CASE LoadMemories(l)
        <5>1. PICK S \in Selections(files) : loaded' = [loaded EXCEPT ![l] = S]
          BY <4>1 DEF LoadMemories
        <5>2. S \subseteq MemoryIds
          BY <1>1, CatalogDomain DEF Selections, MemoryTypeOK
        <5> QED BY <1>1, <5>1, <5>2 DEF MemoryTypeOK
      <4>2. CASE FailRun(l)
        BY <1>1, <4>2 DEF FailRun, MemoryTypeOK
      <4> QED BY <1>4, <4>1, <4>2
    <3>2. stage' \in [Loops -> Stages]
      BY <1>1, <2>1 DEF MemoryTypeOK, Stages
    <3>3. runs' \in 0 .. MaxRuns
      BY <1>1, <1>4, MemoryAssumption DEF LoadMemories, FailRun, MemoryTypeOK
    <3>4. UNCHANGED alone
      BY <1>4 DEF LoadMemories, FailRun
    <3> QED BY <1>1, <1>2, <3>1, <3>2, <3>3, <3>4 DEF MemoryTypeOK
  <2>3. UNCHANGED alone
    BY <1>4 DEF LoadMemories, FailRun
  <2>4. \A m \in Loops : stage'[m] = stage[m] \/ stage'[m] \in {"idle", "running"}
    BY <1>1, <2>1 DEF MemoryTypeOK
  <2>5. AloneAtWork'
    BY <1>1, <2>3, <2>4 DEF AloneAtWork, AtWork
  <2>6. AloneCovered'
    BY <1>1, <1>2, <2>3, <2>4 DEF AloneCovered, Covered
  <2> QED BY <1>3, <2>2, <2>5, <2>6 DEF MemoryInv
<1>5. CASE CompleteRun(l)
  <2> DEFINE others == \E m \in Loops \ {l} : AtWork(m)
  <2>1. /\ stage' = [stage EXCEPT ![l] = "extracting"]
        /\ loaded' = [loaded EXCEPT ![l] = {}]
        /\ alone' = IF others THEN [m \in Loops |-> alone[m] /\ m # l /\ ~AtWork(m)]
                    ELSE [alone EXCEPT ![l] = TRUE]
        /\ UNCHANGED runs
    BY <1>5 DEF CompleteRun, Goto
  <2> HIDE DEF others
  <2>2. alone' \in [Loops -> BOOLEAN]
    <3>1. CASE others
      BY <2>1, <3>1
    <3>2. CASE ~others
      BY <1>1, <2>1, <3>2 DEF MemoryTypeOK
    <3> QED BY <3>1, <3>2
  <2>3. MemoryTypeOK'
    <3>1. stage' \in [Loops -> Stages] /\ loaded' \in [Loops -> SUBSET MemoryIds]
      BY <1>1, <2>1 DEF MemoryTypeOK, Stages
    <3> QED BY <1>1, <1>2, <2>1, <2>2, <3>1 DEF MemoryTypeOK
  <2>4. stage'[l] = "extracting" /\ \A m \in Loops \ {l} : stage'[m] = stage[m]
    BY <1>1, <2>1 DEF MemoryTypeOK
  <2>5. \A m \in Loops \ {l} : AtWork(m)' <=> AtWork(m)
    BY <2>4 DEF AtWork
  <2>6. CASE others
    <3>1. \A m \in Loops : alone'[m] = (alone[m] /\ m # l /\ ~AtWork(m))
      BY <2>1, <2>6
    <3>2. AloneAtWork'
      BY <2>5, <3>1 DEF AloneAtWork
    <3>3. AloneCovered'
      BY <1>1, <1>2, <2>4, <3>1 DEF AloneCovered
    <3> QED BY <1>3, <2>3, <3>2, <3>3 DEF MemoryInv
  <2>7. CASE ~others
    <3>1. \A m \in Loops \ {l} : ~AtWork(m) /\ alone'[m] = alone[m]
      BY <1>1, <2>1, <2>7 DEF others, MemoryTypeOK
    <3>2. AloneAtWork'
      BY <2>5, <3>1 DEF AloneAtWork
    <3>3. AloneCovered'
      BY <1>1, <1>2, <2>4, <3>1 DEF AloneCovered, Covered
    <3> QED BY <1>3, <2>3, <3>2, <3>3 DEF MemoryInv
  <2> QED BY <2>6, <2>7
<1> QED BY <1>4, <1>5 DEF RunStep

\* The types of the files and of what is to be written.
Contents == SUBSET Facts

LEMMA FileTypes ==
  ASSUME MemoryTypeOK, NEW l \in Loops
  PROVE  /\ files \in Catalogs(Contents) /\ pending[l] \in Catalogs(Contents)
         /\ pending \in [Loops -> Catalogs(Contents)]
         /\ DOMAIN files \subseteq MemoryIds /\ DOMAIN pending[l] \subseteq MemoryIds
         /\ \A i \in DOMAIN files : files[i] \in Contents
         /\ \A i \in DOMAIN pending[l] : pending[l][i] \in Contents
<1>1. files \in Catalogs(Contents) /\ pending \in [Loops -> Catalogs(Contents)]
  BY DEF MemoryTypeOK, Contents
<1>2. pending[l] \in Catalogs(Contents)
  BY <1>1
<1> QED BY <1>1, <1>2, CatalogDomain

\* A file of l is written and crossed off its list.
LEMMA WriteTypes ==
  ASSUME MemoryTypeOK, NEW l \in Loops, NEW i \in DOMAIN pending[l],
         WriteFile(l, i, pending[l][i]),
         pending' = [pending EXCEPT ![l] = Without(pending[l], i)],
         UNCHANGED <<stage, loaded, doomed, runs, faults, alone>>
  PROVE  /\ MemoryTypeOK'
         /\ DOMAIN files' = DOMAIN files \cup {i} /\ files'[i] = pending[l][i]
         /\ \A j \in DOMAIN files \ {i} : files'[j] = files[j]
         /\ DOMAIN pending'[l] = DOMAIN pending[l] \ {i}
         /\ \A j \in DOMAIN pending[l] \ {i} : pending'[l][j] = pending[l][j]
         /\ \A m \in Loops \ {l} : pending'[m] = pending[m]
         /\ owed' \subseteq owed \cup pending[l][i]
<1>1. /\ files' = With(files, i, pending[l][i])
      /\ owed' = (IF ~alone[l] /\ i \in DOMAIN files
                  THEN owed \ files[i] ELSE owed) \cup pending[l][i]
  BY DEF WriteFile
<1>2. /\ files \in Catalogs(Contents) /\ pending[l] \in Catalogs(Contents)
      /\ pending \in [Loops -> Catalogs(Contents)]
      /\ i \in MemoryIds /\ pending[l][i] \in Contents
  BY FileTypes
<1>3. /\ files' \in Catalogs(Contents)
      /\ DOMAIN files' = DOMAIN files \cup {i} /\ files'[i] = pending[l][i]
      /\ \A j \in DOMAIN files \ {i} : files'[j] = files[j]
  <2> DEFINE e == pending[l][i]
  <2>1. files' = With(files, i, e) /\ files \in Catalogs(Contents) /\ i \in MemoryIds
        /\ e \in Contents
    BY <1>1, <1>2
  <2> HIDE DEF e
  <2>2. /\ With(files, i, e) \in Catalogs(Contents)
        /\ DOMAIN With(files, i, e) = DOMAIN files \cup {i}
        /\ With(files, i, e)[i] = e
        /\ \A j \in DOMAIN files \ {i} : With(files, i, e)[j] = files[j]
    BY <2>1, WithCatalog
  <2> QED BY <2>1, <2>2 DEF e
<1>4. /\ Without(pending[l], i) \in Catalogs(Contents)
      /\ DOMAIN Without(pending[l], i) = DOMAIN pending[l] \ {i}
      /\ \A j \in DOMAIN pending[l] \ {i} : Without(pending[l], i)[j] = pending[l][j]
  BY <1>2, WithoutCatalog
<1>5. /\ pending' \in [Loops -> Catalogs(Contents)]
      /\ pending'[l] = Without(pending[l], i)
      /\ \A m \in Loops \ {l} : pending'[m] = pending[m]
  BY <1>2, <1>4
<1>6. owed' \subseteq Facts /\ owed' \subseteq owed \cup pending[l][i]
  BY <1>1, <1>2 DEF MemoryTypeOK, Contents
<1>7. MemoryTypeOK'
  BY <1>3, <1>5, <1>6 DEF MemoryTypeOK, Contents
<1> QED BY <1>3, <1>4, <1>5, <1>6, <1>7

LEMMA SaveMemoryKeeps ==
  ASSUME MemoryInv, NEW l \in Loops, SaveMemory(l)
  PROVE  MemoryInv'
<1>1. MemoryTypeOK /\ FactsKept /\ AtWork(l) /\ stage[l] = "saving"
      /\ UNCHANGED <<stage, loaded, doomed, runs, faults, alone>>
  BY DEF MemoryInv, SaveMemory, AtWork
<1>2. PICK i \in DOMAIN pending[l] :
         /\ WriteFile(l, i, pending[l][i])
         /\ pending' = [pending EXCEPT ![l] = Without(pending[l], i)]
  BY DEF SaveMemory
<1>3. /\ MemoryTypeOK' /\ DOMAIN files' = DOMAIN files \cup {i}
      /\ DOMAIN pending'[l] = DOMAIN pending[l] \ {i}
      /\ \A m \in Loops \ {l} : pending'[m] = pending[m]
  BY <1>1, <1>2, WriteTypes
<1>4. alone[l] => DOMAIN pending[l] \cap DOMAIN files = {}
  BY <1>1 DEF MemoryInv, AloneCovered, Covered
<1>5. FactsKept'
  <2>1. files \in Catalogs(SUBSET Facts) /\ i \in MemoryIds /\ pending[l][i] \in SUBSET Facts
    BY <1>1, FileTypes DEF Contents
  <2> QED BY <1>1, <1>2, <1>4, <2>1, WriteKeepsFacts
<1>6. alone[l] => Covered(stage'[l], files', pending'[l], doomed'[l], owed')
  BY <1>1, <1>3, <1>4 DEF Covered
<1> QED BY <1>1, <1>3, <1>5, <1>6, WorkKeeps

LEMMA WriteMemoryKeeps ==
  ASSUME MemoryInv, NEW l \in Loops, WriteMemory(l)
  PROVE  MemoryInv'
<1> DEFINE i == Least(DOMAIN pending[l])
<1>1. MemoryTypeOK /\ FactsKept /\ AtWork(l) /\ stage[l] = "writing"
      /\ UNCHANGED <<stage, loaded, doomed, runs, faults, alone>>
  BY DEF MemoryInv, WriteMemory, AtWork
<1>2. i \in DOMAIN pending[l]
  BY <1>1, FileTypes, LeastIsMember DEF WriteMemory
<1>3. /\ WriteFile(l, i, pending[l][i])
      /\ pending' = [pending EXCEPT ![l] = Without(pending[l], i)]
  BY DEF WriteMemory
<1> HIDE DEF i
<1>4. /\ MemoryTypeOK'
      /\ DOMAIN files' = DOMAIN files \cup {i} /\ files'[i] = pending[l][i]
      /\ \A j \in DOMAIN files \ {i} : files'[j] = files[j]
      /\ DOMAIN pending'[l] = DOMAIN pending[l] \ {i}
      /\ \A j \in DOMAIN pending[l] \ {i} : pending'[l][j] = pending[l][j]
      /\ \A m \in Loops \ {l} : pending'[m] = pending[m]
      /\ owed' \subseteq owed \cup pending[l][i]
  BY <1>1, <1>2, <1>3, WriteTypes
<1>5. alone[l] => /\ doomed[l] \cap DOMAIN pending[l] = {}
                  /\ \A f \in owed : Safe(f, files, pending[l], doomed[l])
  BY <1>1 DEF MemoryInv, AloneCovered, Covered
<1>6. FactsKept'
  <2>1. files \in Catalogs(SUBSET Facts) /\ i \in MemoryIds /\ pending[l][i] \in SUBSET Facts
    BY <1>1, <1>2, FileTypes DEF Contents
  <2>2. \A f \in owed : alone[l] /\ i \in DOMAIN files /\ f \in files[i] /\ f \notin pending[l][i] =>
             \E j \in DOMAIN files \ {i} : f \in files[j]
    BY <1>2, <1>5 DEF Safe
  <2> QED BY <1>1, <1>3, <2>1, <2>2, WriteKeepsFacts
<1>7. ASSUME alone[l], NEW f \in owed'
      PROVE  Safe(f, files', pending'[l], doomed[l])
  <2>1. CASE f \in pending[l][i]
    <3>1. i \in DOMAIN files' /\ f \in files'[i] /\ i \notin DOMAIN pending'[l] /\ i \notin doomed[l]
      BY <1>2, <1>4, <1>5, <1>7, <2>1
    <3> QED BY <3>1 DEF Safe
  <2>2. CASE f \notin pending[l][i]
    <3>1. f \in owed
      BY <1>4, <1>7, <2>2
    <3>2. PICK j \in DOMAIN files :
             /\ f \in files[j]
             /\ j \in DOMAIN pending[l] => f \in pending[l][j]
             /\ j \in doomed[l] => \E k \in DOMAIN pending[l] : f \in pending[l][k]
      BY <1>5, <1>7, <3>1 DEF Safe
    <3>3. j # i
      BY <1>2, <2>2, <3>2
    <3>4. j \in DOMAIN files' /\ f \in files'[j]
      BY <1>4, <3>2, <3>3
    <3>5. j \in DOMAIN pending'[l] => f \in pending'[l][j]
      BY <1>4, <3>2, <3>3
    <3>6. j \in doomed[l] => \E k \in DOMAIN pending'[l] : f \in pending'[l][k]
      BY <1>4, <2>2, <3>2
    <3> QED BY <3>4, <3>5, <3>6 DEF Safe
  <2> QED BY <2>1, <2>2
<1>8. alone[l] => Covered(stage'[l], files', pending'[l], doomed'[l], owed')
  BY <1>1, <1>4, <1>5, <1>7 DEF Covered
<1> QED BY <1>1, <1>4, <1>6, <1>8, WorkKeeps

LEMMA UnlinkMemoryKeeps ==
  ASSUME MemoryInv, NEW l \in Loops, UnlinkMemory(l)
  PROVE  MemoryInv'
<1>1. /\ MemoryTypeOK /\ FactsKept /\ AtWork(l) /\ stage[l] = "writing"
      /\ DOMAIN pending[l] = {}
      /\ UNCHANGED <<stage, loaded, pending, runs, faults, alone>>
  BY DEF MemoryInv, UnlinkMemory, AtWork
<1>2. PICK i \in doomed[l] :
         /\ files' = Without(files, i)
         /\ owed' = IF ~alone[l] /\ i \in DOMAIN files THEN owed \ files[i] ELSE owed
         /\ doomed' = [doomed EXCEPT ![l] = doomed[l] \ {i}]
  BY DEF UnlinkMemory
<1>3. /\ files' \in Catalogs(Contents)
      /\ DOMAIN files' = DOMAIN files \ {i}
      /\ \A j \in DOMAIN files \ {i} : files'[j] = files[j]
  BY <1>1, <1>2, FileTypes, WithoutCatalog
<1>4. /\ doomed' \in [Loops -> SUBSET MemoryIds]
      /\ doomed'[l] = doomed[l] \ {i}
      /\ \A m \in Loops \ {l} : doomed'[m] = doomed[m]
  BY <1>1, <1>2 DEF MemoryTypeOK
<1>5. owed' \subseteq owed
  BY <1>2
<1>6. MemoryTypeOK'
  BY <1>1, <1>3, <1>4, <1>5 DEF MemoryTypeOK, Contents
<1>7. alone[l] => \A f \in owed : \E j \in DOMAIN files : f \in files[j] /\ j \notin doomed[l]
  BY <1>1 DEF MemoryInv, AloneCovered, Covered, Safe
<1>8. ASSUME NEW f \in owed' PROVE \E j \in DOMAIN files' : f \in files'[j]
  <2>1. f \in owed
    BY <1>5, <1>8
  <2>2. CASE alone[l]
    BY <1>3, <1>7, <2>1, <2>2
  <2>3. CASE ~alone[l]
    <3>1. PICK j \in DOMAIN files : f \in files[j]
      BY <1>1, <2>1 DEF FactsKept, FactsOf
    <3>2. j # i
      BY <1>2, <1>8, <2>3, <3>1
    <3> QED BY <1>3, <3>1, <3>2
  <2> QED BY <2>2, <2>3
<1>9. FactsKept'
  BY <1>8 DEF FactsKept, FactsOf
<1>10. alone[l] => Covered(stage'[l], files', pending'[l], doomed'[l], owed')
  <2>1. ASSUME alone[l], NEW f \in owed' PROVE Safe(f, files', pending'[l], doomed'[l])
    <3>1. PICK j \in DOMAIN files : f \in files[j] /\ j \notin doomed[l]
      BY <1>5, <1>7, <2>1
    <3>2. j # i /\ j \in DOMAIN files' /\ f \in files'[j] /\ j \notin doomed'[l]
      BY <1>2, <1>3, <1>4, <3>1
    <3> QED BY <1>1, <3>2 DEF Safe
  <2> QED BY <1>1, <2>1 DEF Covered
<1> QED BY <1>1, <1>4, <1>6, <1>9, <1>10, WorkKeeps

\* A loop goes on to another stage of its work, or ends it; the files stay.
LEMMA TurnKeeps ==
  ASSUME MemoryInv, NEW l \in Loops, AtWork(l), NEW s \in Stages,
         stage' = [stage EXCEPT ![l] = s],
         NEW next \in Catalogs(Contents), pending' = [pending EXCEPT ![l] = next],
         NEW gone \in SUBSET MemoryIds, doomed' = [doomed EXCEPT ![l] = gone],
         UNCHANGED <<files, loaded, runs, alone>>, owed' \subseteq owed,
         UNCHANGED faults \/ (faults < MaxFaults /\ faults' = faults + 1),
         alone[l] => Covered(s, files, next, gone, owed')
  PROVE  MemoryInv'
<1>1. MemoryTypeOK /\ FactsKept
  BY DEF MemoryInv
<1>2. /\ stage' \in [Loops -> Stages] /\ stage'[l] = s
      /\ \A m \in Loops \ {l} : stage'[m] = stage[m]
  BY <1>1 DEF MemoryTypeOK
<1>3. /\ pending' \in [Loops -> Catalogs(Contents)] /\ pending'[l] = next
      /\ \A m \in Loops \ {l} : pending'[m] = pending[m]
  <2>1. pending \in [Loops -> Catalogs(Contents)]
    BY <1>1, FileTypes
  <2> QED BY <2>1
<1>4. /\ doomed' \in [Loops -> SUBSET MemoryIds] /\ doomed'[l] = gone
      /\ \A m \in Loops \ {l} : doomed'[m] = doomed[m]
  BY <1>1 DEF MemoryTypeOK
<1>5. faults' \in 0 .. MaxFaults
  BY <1>1, MemoryAssumption DEF MemoryTypeOK
<1>6. MemoryTypeOK'
  BY <1>1, <1>2, <1>3, <1>4, <1>5 DEF MemoryTypeOK, Contents
<1>7. FactsKept'
  BY <1>1 DEF FactsKept
<1> QED BY <1>2, <1>3, <1>4, <1>6, <1>7, WorkKeeps

\* What stays as it was.
LEMMA SameLists ==
  ASSUME MemoryTypeOK, NEW l \in Loops
  PROVE  /\ [pending EXCEPT ![l] = pending[l]] = pending
         /\ [doomed EXCEPT ![l] = doomed[l]] = doomed
         /\ doomed[l] \in SUBSET MemoryIds
BY DEF MemoryTypeOK

LEMMA ExtractMemoriesKeeps ==
  ASSUME MemoryInv, NEW l \in Loops, ExtractMemories(l)
  PROVE  MemoryInv'
<1>1. /\ MemoryTypeOK /\ AtWork(l) /\ stage[l] = "extracting"
      /\ UNCHANGED <<files, loaded, doomed, runs, alone, owed>>
  BY DEF MemoryInv, ExtractMemories, AtWork
<1>2. /\ doomed' = [doomed EXCEPT ![l] = doomed[l]] /\ doomed[l] \in SUBSET MemoryIds
      /\ pending[l] \in Catalogs(Contents)
  BY <1>1, SameLists, FileTypes
<1>3. ASSUME NEW proposed \in Proposals, UNCHANGED faults,
             pending' = [pending EXCEPT ![l] = NewMemories(files, proposed)],
             stage' = [stage EXCEPT ![l] = "saving"]
      PROVE  MemoryInv'
  <2> DEFINE next == NewMemories(files, proposed)
  <2>1. proposed \in Catalogs(Contents)
    <3>1. PICK D \in SUBSET MemoryIds : proposed \in [D -> {{f} : f \in Facts}]
      BY DEF Proposals, Catalogs
    <3>2. proposed \in [D -> Contents]
      BY <3>1 DEF Contents
    <3> QED BY <3>2, CatalogOf
  <2>2. next \in Catalogs(Contents)
    <3>1. DOMAIN proposed \subseteq MemoryIds /\ \A i \in DOMAIN proposed : proposed[i] \in Contents
      BY <2>1, CatalogDomain
    <3>2. next \in [DOMAIN proposed \ DOMAIN files -> Contents]
      BY <3>1 DEF NewMemories
    <3> QED BY <3>1, <3>2, CatalogOf
  <2>3. DOMAIN next \cap DOMAIN files = {}
    BY DEF NewMemories
  <2> HIDE DEF next
  <2>4. Covered("saving", files, next, doomed[l], owed')
    BY <2>3 DEF Covered
  <2>5. "saving" \in Stages
    BY DEF Stages
  <2> QED BY <1>1, <1>2, <1>3, <2>2, <2>4, <2>5, TurnKeeps DEF next
<1>4. CASE CanFail(l) /\ stage' = [stage EXCEPT ![l] = "consolidating"] /\ UNCHANGED pending
  <2>1. Covered("consolidating", files, pending[l], doomed[l], owed')
    BY DEF Covered
  <2>2. pending' = [pending EXCEPT ![l] = pending[l]] /\ "consolidating" \in Stages
    BY <1>1, <1>4, SameLists DEF Stages
  <2>3. UNCHANGED faults \/ (faults < MaxFaults /\ faults' = faults + 1)
    BY <1>4 DEF CanFail
  <2> QED BY <1>1, <1>2, <1>4, <2>1, <2>2, <2>3, TurnKeeps
<1> QED BY <1>3, <1>4 DEF ExtractMemories, Goto

LEMMA EndSavingKeeps ==
  ASSUME MemoryInv, NEW l \in Loops, EndSaving(l)
  PROVE  MemoryInv'
<1>1. /\ MemoryTypeOK /\ AtWork(l)
      /\ stage' = [stage EXCEPT ![l] = "consolidating"]
      /\ pending' = [pending EXCEPT ![l] = Empty]
      /\ UNCHANGED <<files, loaded, doomed, runs, alone, owed>>
      /\ UNCHANGED faults \/ (faults < MaxFaults /\ faults' = faults + 1)
  BY DEF MemoryInv, EndSaving, AtWork, Goto, CanFail
<1>2. doomed' = [doomed EXCEPT ![l] = doomed[l]] /\ doomed[l] \in SUBSET MemoryIds
  BY <1>1, SameLists
<1>3. Empty \in Catalogs(Contents) /\ "consolidating" \in Stages
  BY EmptyCatalog DEF Stages
<1>4. Covered("consolidating", files, Empty, doomed[l], owed')
  BY DEF Covered
<1> QED BY <1>1, <1>2, <1>3, <1>4, TurnKeeps

LEMMA ConsolidateMemoriesKeeps ==
  ASSUME MemoryInv, NEW l \in Loops, ConsolidateMemories(l)
  PROVE  MemoryInv'
<1>1. /\ MemoryTypeOK /\ FactsKept /\ AtWork(l)
      /\ UNCHANGED <<files, loaded, doomed, runs, alone>>
  BY DEF MemoryInv, ConsolidateMemories, AtWork
<1>2. /\ doomed' = [doomed EXCEPT ![l] = doomed[l]] /\ doomed[l] \in SUBSET MemoryIds
      /\ pending[l] \in Catalogs(Contents)
  BY <1>1, SameLists, FileTypes
<1>3. ASSUME NEW next \in Rewritings(files), pending' = [pending EXCEPT ![l] = next],
             owed' = owed \ GivenUp(files, next), UNCHANGED faults,
             stage' = [stage EXCEPT ![l] = "replacing"]
      PROVE  MemoryInv'
  <2>1. next \in Catalogs(Contents)
    <3>1. PICK D \in SUBSET MemoryIds : next \in [D -> SUBSET FactsOf(files)]
      BY DEF Rewritings, Catalogs
    <3>2. FactsOf(files) \subseteq Facts
      BY <1>1, FileTypes DEF FactsOf, Contents
    <3>3. next \in [D -> Contents]
      BY <3>1, <3>2 DEF Contents
    <3> QED BY <3>3, CatalogOf
  <2>2. ASSUME NEW f \in owed' PROVE Safe(f, files, next, DOMAIN files \ DOMAIN next)
    <3>1. f \in owed /\ f \notin GivenUp(files, next)
      BY <1>3, <2>2
    <3>2. PICK j \in DOMAIN files : f \in files[j]
      BY <1>1, <3>1 DEF FactsKept, FactsOf
    <3>3. j \in DOMAIN next => f \in next[j]
      BY <3>1, <3>2 DEF GivenUp
    <3>4. \E k \in DOMAIN next : f \in next[k]
      BY <3>1, <3>2 DEF GivenUp, FactsOf
    <3> QED BY <3>2, <3>3, <3>4 DEF Safe
  <2>3. Covered("replacing", files, next, doomed[l], owed')
    BY <2>2 DEF Covered
  <2>4. "replacing" \in Stages /\ owed' \subseteq owed
    BY <1>3 DEF Stages
  <2> QED BY <1>1, <1>2, <1>3, <2>1, <2>3, <2>4, TurnKeeps
<1>4. CASE /\ UNCHANGED faults \/ CanFail(l)
           /\ stage' = [stage EXCEPT ![l] = "idle"]
           /\ UNCHANGED <<pending, owed>>
  <2>1. Covered("idle", files, pending[l], doomed[l], owed')
    BY DEF Covered
  <2>2. pending' = [pending EXCEPT ![l] = pending[l]] /\ "idle" \in Stages
    BY <1>1, <1>4, SameLists DEF Stages
  <2>3. UNCHANGED faults \/ (faults < MaxFaults /\ faults' = faults + 1)
    BY <1>4 DEF CanFail
  <2> QED BY <1>1, <1>2, <1>4, <2>1, <2>2, <2>3, TurnKeeps
<1> QED BY <1>3, <1>4 DEF ConsolidateMemories, Goto

\* The work is over, done or not.
LEMMA DropKeeps ==
  ASSUME MemoryInv, NEW l \in Loops, AtWork(l), Goto(l, "idle"), Drop(l),
         UNCHANGED <<files, loaded, runs, alone, owed>>,
         UNCHANGED faults \/ (faults < MaxFaults /\ faults' = faults + 1)
  PROVE  MemoryInv'
<1>1. /\ stage' = [stage EXCEPT ![l] = "idle"] /\ pending' = [pending EXCEPT ![l] = Empty]
      /\ doomed' = [doomed EXCEPT ![l] = {}]
  BY DEF Goto, Drop
<1>2. Empty \in Catalogs(Contents) /\ "idle" \in Stages /\ {} \in SUBSET MemoryIds
  BY EmptyCatalog DEF Stages
<1>3. Covered("idle", files, Empty, {}, owed')
  BY DEF Covered
<1> QED BY <1>1, <1>2, <1>3, TurnKeeps

LEMMA ReplaceMemoriesKeeps ==
  ASSUME MemoryInv, NEW l \in Loops, ReplaceMemories(l)
  PROVE  MemoryInv'
<1>1. /\ MemoryTypeOK /\ AtWork(l) /\ stage[l] = "replacing"
      /\ UNCHANGED <<files, loaded, runs, alone, owed>>
  BY DEF MemoryInv, ReplaceMemories, AtWork
<1>2. CASE /\ doomed' = [doomed EXCEPT ![l] = Obsolete(l)]
           /\ stage' = [stage EXCEPT ![l] = "writing"]
           /\ UNCHANGED <<faults, pending>>
  <2>1. /\ pending' = [pending EXCEPT ![l] = pending[l]] /\ "writing" \in Stages
        /\ pending[l] \in Catalogs(Contents) /\ Obsolete(l) \in SUBSET MemoryIds
    BY <1>1, <1>2, SameLists, FileTypes DEF Stages, Obsolete
  <2>2. alone[l] => \A f \in owed : Safe(f, files, pending[l], Obsolete(l))
    BY <1>1 DEF MemoryInv, AloneCovered, Covered, Obsolete
  <2>3. alone[l] => Covered("writing", files, pending[l], Obsolete(l), owed')
    BY <1>1, <2>2 DEF Covered, Obsolete
  <2> QED BY <1>1, <1>2, <2>1, <2>3, TurnKeeps
<1>3. CASE CanFail(l) /\ Goto(l, "idle") /\ Drop(l)
  BY <1>1, <1>3, DropKeeps DEF CanFail
<1> QED BY <1>2, <1>3 DEF ReplaceMemories, Goto

LEMMA EndReplacingKeeps ==
  ASSUME MemoryInv, NEW l \in Loops, EndReplacing(l)
  PROVE  MemoryInv'
<1>1. /\ AtWork(l) /\ UNCHANGED <<files, loaded, runs, alone, owed>>
      /\ UNCHANGED faults \/ (faults < MaxFaults /\ faults' = faults + 1)
      /\ Goto(l, "idle") /\ Drop(l)
  BY DEF EndReplacing, AtWork
<1> QED BY <1>1, DropKeeps

LEMMA MemoryCrashKeeps ==
  ASSUME MemoryInv, MemoryCrash
  PROVE  MemoryInv'
<1>1. MemoryTypeOK /\ FactsKept
  BY DEF MemoryInv
<1>2. MemoryTypeOK'
  <2>1. pending' \in [Loops -> Catalogs(Contents)]
    BY EmptyCatalog DEF MemoryCrash
  <2>2. faults' \in 0 .. MaxFaults
    BY <1>1, MemoryAssumption DEF MemoryCrash, MemoryTypeOK
  <2>3. stage' \in [Loops -> Stages] /\ loaded' \in [Loops -> SUBSET MemoryIds]
        /\ doomed' \in [Loops -> SUBSET MemoryIds]
    BY DEF MemoryCrash, Stages
  <2> QED BY <1>1, <2>1, <2>2, <2>3 DEF MemoryCrash, MemoryTypeOK, Contents
<1>3. FactsKept'
  BY <1>1 DEF FactsKept, MemoryCrash
<1>4. AloneAtWork' /\ AloneCovered'
  BY DEF MemoryCrash, AloneAtWork, AtWork, AloneCovered, Covered
<1> QED BY <1>2, <1>3, <1>4 DEF MemoryInv

-----------------------------------------------------------------------------
(* The theorems. *)

LEMMA MemoryInvInductive == MemorySpec => []MemoryInv
<1>1. MemoryInit => MemoryInv
  <2> SUFFICES ASSUME MemoryInit PROVE MemoryInv
    OBVIOUS
  <2>1. MemoryTypeOK
    <3>1. files \in Catalogs(SUBSET Facts) /\ pending \in [Loops -> Catalogs(SUBSET Facts)]
      BY EmptyCatalog DEF MemoryInit
    <3>2. /\ stage \in [Loops -> Stages] /\ loaded \in [Loops -> SUBSET MemoryIds]
          /\ doomed \in [Loops -> SUBSET MemoryIds] /\ alone \in [Loops -> BOOLEAN]
      BY DEF MemoryInit, Stages
    <3>3. runs \in 0 .. MaxRuns /\ faults \in 0 .. MaxFaults /\ owed \subseteq Facts
      BY MemoryAssumption DEF MemoryInit
    <3> QED BY <3>1, <3>2, <3>3 DEF MemoryTypeOK
  <2>2. FactsKept /\ AloneAtWork /\ AloneCovered
    BY DEF MemoryInit, FactsKept, AloneAtWork, AtWork, AloneCovered, Covered
  <2> QED BY <2>1, <2>2 DEF MemoryInv
<1>2. MemoryInv /\ [MemoryNext]_memoryVars => MemoryInv'
  <2> SUFFICES ASSUME MemoryInv, [MemoryNext]_memoryVars PROVE MemoryInv'
    OBVIOUS
  <2>1. ASSUME NEW l \in Loops, RunStep(l) PROVE MemoryInv'
    BY <2>1, RunStepKeeps
  <2>2. ASSUME NEW l \in Loops, SaveStep(l) PROVE MemoryInv'
    BY <2>2, ExtractMemoriesKeeps, SaveMemoryKeeps, EndSavingKeeps DEF SaveStep
  <2>3. ASSUME NEW l \in Loops, ReplaceStep(l) PROVE MemoryInv'
    BY <2>3, ConsolidateMemoriesKeeps, ReplaceMemoriesKeeps, WriteMemoryKeeps,
       UnlinkMemoryKeeps, EndReplacingKeeps DEF ReplaceStep
  <2>4. CASE MemoryCrash
    BY <2>4, MemoryCrashKeeps
  <2>5. CASE UNCHANGED memoryVars
    <3>1. MemoryTypeOK' /\ FactsKept'
      BY <2>5 DEF memoryVars, MemoryInv, MemoryTypeOK, FactsKept
    <3>2. AloneAtWork' /\ AloneCovered'
      BY <2>5 DEF memoryVars, MemoryInv, AloneAtWork, AtWork, AloneCovered
    <3> QED BY <3>1, <3>2 DEF MemoryInv
  <2> QED BY <2>1, <2>2, <2>3, <2>4, <2>5 DEF MemoryNext
<1> QED BY <1>1, <1>2, PTL DEF MemorySpec

\* Every variable has its type: what a loop has loaded, has still to write and has
\* to unlink are catalogs and files of this store.
THEOREM MemoryTypeCorrect == MemorySpec => []MemoryTypeOK
BY MemoryInvInductive, PTL DEF MemoryInv

\* A fact written to memory stays in some file until the model drops it or loops
\* that worked on the store together overwrite each other, whatever fails.
THEOREM FactsAreKept == MemorySpec => []FactsKept
BY MemoryInvInductive, PTL DEF MemoryInv

-----------------------------------------------------------------------------
(* What the messages of a Run are. *)

\* Messages are where they say they are, and a result follows its call.
Story(s) ==
  \A i \in 1..Len(s) :
    /\ s[i].at = i
    /\ s[i].kind = "result" => i > 1 /\ s[i - 1].kind = "use"

Last(s) == s[Len(s)]

\* Continuations are pairs of messages that follow the transcript.
Continued ==
  /\ Len(extra) <= 2 * MaxContinuations /\ \E k \in Nat : Len(extra) = 2 * k
  /\ \A i \in 1..Len(extra) :
       extra[i].at = Len(transcript) + i /\ extra[i].kind \in {"text", "prompt"}

\* Where a Run is tells how much it has appended since its prompt.
Written ==
  /\ step \in {"asking", "waiting"} =>
       /\ turn < MaxTurns /\ prompt > 0 /\ Len(transcript) = prompt + 2 * turn
       /\ Last(transcript).kind \in {"prompt", "result"}
       /\ turn = 0 => Last(transcript).kind = "prompt"
       /\ Continued
  /\ step \in {"tools", "results"} =>
       /\ turn > 0 /\ prompt > 0 /\ Len(transcript) = prompt + 2 * turn - 1
       /\ Last(transcript).kind = "use"
       /\ extra = <<>>
  /\ step \in {"idle", "starting"} => turn = 0 /\ extra = <<>>
  /\ step = "ending" => extra = <<>>

\* A checkpoint ends where no later message can make it separate an exchange.
CheckpointSound ==
  /\ Len(checkpoint) <= Len(transcript)
  /\ \A i \in 1..Len(checkpoint) : checkpoint[i] = transcript[i]
  /\ Len(checkpoint) > 0 /\ Last(checkpoint).kind = "use" =>
       /\ Len(checkpoint) < Len(transcript)
       /\ transcript[Len(checkpoint) + 1].kind # "result"

Noted(s, c) == {i \in DOMAIN s : c \in s[i].notes}

\* The end of a command is told nowhere, or in one place.
Told(c) ==
  \/ Noted(transcript, c) = {} /\ c \notin taken /\ c \notin dropped /\ c \notin delivered
  \/ /\ command[c] \in {"ended", "forgotten"}
     /\ command[c] = "ended" => c \in delivered
     /\ \/ (\E i \in Nat : Noted(transcript, c) = {i}) /\ c \notin taken /\ c \notin dropped
        \/ Noted(transcript, c) = {} /\ c \in taken /\ c \notin dropped
        \/ Noted(transcript, c) = {} /\ c \notin taken /\ c \in dropped

Telling ==
  /\ step \notin {"starting", "results"} => taken = {}
  /\ \A c \in Commands : Told(c)

-----------------------------------------------------------------------------
(* Views.                                                                   *)

\* ViewFaithful, but for what the references refer to.
Faithful(v, M, p) ==
  /\ v[1].kind = "summary" \/ v[1].at = 1
  /\ v[Len(v)].at = Len(M) /\ v[Len(v)].kind # "use"
  /\ \A i \in 2..Len(v) :
       IF v[i].kind = "gap" THEN v[i - 1].at < v[i].at /\ v[i].at < p
                            ELSE v[i].at = v[i - 1].at + 1
  /\ \A i \in 1..Len(v) :
       /\ v[i].kind \in Results => i > 1 /\ v[i - 1].kind = "use"
       /\ v[i].kind = "use" /\ M[v[i].at + 1].kind = "result" => v[i + 1].kind \in Results

\* The request that waits for an answer.
ViewSound ==
  step = "waiting" =>
    /\ Faithful(view, Messages, prompt)
    /\ \A i \in 1..Len(view) : view[i].kind = "reference" => view[i].at \in artifacts

ConversationInv ==
  ConversationTypeOK /\ Story(transcript) /\ Written /\ CheckpointSound /\ Telling /\ ViewSound

\* The messages of M from d + 1 on, where the first may be a summary instead.
Whole(m, M, d) ==
  /\ m \in Seq(Item) /\ d \in Nat /\ Len(m) > 0 /\ Len(m) + d = Len(M)
  /\ m[1].kind = "summary" \/ (d = 0 /\ m[1].kind = M[1].kind)
  /\ \A i \in 1..Len(m) : m[i].at = i + d /\ m[i].kind \notin {"gap", "notice", "reference"}
  /\ \A i \in 2..Len(m) : m[i].kind = M[i + d].kind
  /\ \A i \in 1..Len(m) : m[i].kind = "result" => i > 1 /\ m[i - 1].kind = "use"
  /\ Last(m).kind # "use"

\* The same, where the last may be a reference to a result.
Sound(b, M, d) ==
  /\ b \in Seq(Item) /\ d \in Nat /\ Len(b) > 0 /\ Len(b) + d = Len(M)
  /\ b[1].kind = "summary" \/ d = 0
  /\ \A i \in 1..Len(b) : /\ b[i].at = i + d /\ b[i].kind \notin {"gap", "notice"}
                          /\ b[i].kind = "reference" => i = Len(b)
  /\ \A i \in 2..Len(b) : M[i + d].kind = "result" <=> b[i].kind \in Results
  /\ \A i \in 1..Len(b) : b[i].kind \in Results => i > 1 /\ b[i - 1].kind = "use"
  /\ Last(b).kind # "use"

LEMMA ItemKind ==
  ASSUME NEW k \in Item, NEW kind \in {"notice", "reference"}
  PROVE  LET next == [k EXCEPT !.kind = kind] IN
         next \in Item /\ next.kind = kind /\ next.at = k.at
BY DEF Item, Message

LEMMA GapIsItem ==
  ASSUME NEW kind \in {"summary", "gap"}, NEW n \in Nat
  PROVE  ItemOf(kind, n) \in Item /\ ItemOf(kind, n).kind = kind /\ ItemOf(kind, n).at = n
BY DEF ItemOf, Item

LEMMA BudgetedIsSound ==
  ASSUME NEW m, NEW M, NEW d, Whole(m, M, d)
  PROVE  /\ Sound(Budgeted(m), M, d)
         /\ Len(Budgeted(m)) = Len(m)
         /\ Last(Budgeted(m)).kind = "reference" => Large(m) = {Len(M)} /\ Last(m).kind = "result"
<1> DEFINE b == Budgeted(m)
           l == Len(m)
<1>1. /\ m \in Seq(Item) /\ l \in Nat /\ l > 0 /\ DOMAIN m = 1..l
      /\ \A i \in 1..l : m[i] \in Item
  BY LenProperties, ElementOfSeq DEF Whole
<1>2. m[l].at = Len(M)
  BY <1>1 DEF Whole
<1>3. \A i \in 1..l :
        b[i] = IF i = l /\ Large(m) # {} THEN [m[i] EXCEPT !.kind = "reference"] ELSE m[i]
  BY <1>1 DEF Budgeted
<1>4. Large(m) # {} => Large(m) = {Len(M)} /\ m[l].kind = "result"
  BY <1>2 DEF Large
<1>5. \A i \in 1..l :
        /\ b[i] \in Item /\ b[i].at = m[i].at
        /\ b[i].kind = IF i = l /\ Large(m) # {} THEN "reference" ELSE m[i].kind
  <2> SUFFICES ASSUME NEW i \in 1..l
               PROVE  /\ b[i] \in Item /\ b[i].at = m[i].at
                      /\ b[i].kind = IF i = l /\ Large(m) # {} THEN "reference" ELSE m[i].kind
    OBVIOUS
  <2>1. m[i] \in Item
    BY <1>1
  <2>2. b[i] = IF i = l /\ Large(m) # {} THEN [m[i] EXCEPT !.kind = "reference"] ELSE m[i]
    BY <1>3
  <2> HIDE DEF b, l
  <2> QED BY <2>1, <2>2, ItemKind
<1>6. b \in Seq(Item) /\ Len(b) = l
  <2>1. b \in [1..l -> Item]
    BY <1>1, <1>5 DEF Budgeted
  <2> HIDE DEF b
  <2>2. b \in Seq(Item)
    BY <1>1, <2>1, SeqDef
  <2>3. Len(b) \in Nat /\ DOMAIN b = 1..Len(b)
    BY <2>2, LenProperties
  <2> QED BY <1>1, <2>1, <2>2, <2>3, LenProperties
<1> HIDE DEF b
<1>7. Sound(b, M, d)
  <2>1. b[1].kind = "summary" \/ d = 0
    <3>1. 1 \in 1..l /\ (m[1].kind = "summary" \/ d = 0)
      BY <1>1 DEF Whole
    <3> QED BY <1>4, <1>5, <3>1
  <2>2. \A i \in 1..l : /\ b[i].at = i + d /\ b[i].kind \notin {"gap", "notice"}
                        /\ b[i].kind = "reference" => i = l
    BY <1>1, <1>5 DEF Whole
  <2>3. \A i \in 1..l : b[i].kind \in Results <=> m[i].kind = "result"
    BY <1>1, <1>4, <1>5 DEF Whole, Results
  <2>4. \A i \in 2..l : M[i + d].kind = "result" <=> b[i].kind \in Results
    BY <1>1, <2>3 DEF Whole
  <2>5. \A i \in 1..l : b[i].kind \in Results => i > 1 /\ b[i - 1].kind = "use"
    <3> SUFFICES ASSUME NEW i \in 1..l, m[i].kind = "result"
                 PROVE  i > 1 /\ b[i - 1].kind = "use"
      BY <2>3
    <3>1. i > 1 /\ m[i - 1].kind = "use"
      BY DEF Whole
    <3>2. i - 1 \in 1..l /\ i - 1 # l
      BY <1>1, <3>1
    <3> QED BY <1>5, <3>1, <3>2
  <2>6. b[l].kind # "use"
    <3>1. l \in 1..l /\ m[l].kind # "use"
      BY <1>1 DEF Whole, Last
    <3> QED BY <1>5, <3>1
  <2> QED BY <1>1, <1>6, <2>1, <2>2, <2>4, <2>5, <2>6 DEF Sound, Whole, Last
<1>8. Last(b).kind = "reference" => Large(m) # {}
  <2>1. Last(b) = b[l] /\ l \in 1..l
    BY <1>1, <1>6 DEF Last
  <2>2. m[l].kind # "reference"
    BY <2>1 DEF Whole
  <2> QED BY <1>5, <2>1, <2>2
<1> QED BY <1>4, <1>6, <1>7, <1>8 DEF b, Last

\* A view that is not snipped.
LEMMA SoundIsFaithful ==
  ASSUME NEW b, NEW M, NEW d, NEW p, Sound(b, M, d)
  PROVE  Faithful(b, M, p)
<1>1. Len(b) \in Nat /\ Len(b) > 0 /\ d \in Nat /\ Len(b) + d = Len(M)
  BY LenProperties DEF Sound
<1>2. 1 \in 1..Len(b) /\ Len(b) \in 1..Len(b)
  BY <1>1
<1>3. b[1].kind = "summary" \/ b[1].at = 1
  BY <1>1, <1>2 DEF Sound
<1>4. b[Len(b)].at = Len(M) /\ b[Len(b)].kind # "use"
  BY <1>1, <1>2 DEF Sound, Last
<1>5. ASSUME NEW i \in 2..Len(b)
      PROVE  b[i].kind # "gap" /\ b[i].at = b[i - 1].at + 1
  <2>1. i \in 1..Len(b) /\ i - 1 \in 1..Len(b)
    BY <1>1
  <2>2. b[i].at = i + d /\ b[i - 1].at = (i - 1) + d /\ b[i].kind # "gap"
    BY <2>1 DEF Sound
  <2> QED BY <1>1, <2>2
<1>6. ASSUME NEW i \in 1..Len(b), b[i].kind = "use", M[b[i].at + 1].kind = "result"
      PROVE  b[i + 1].kind \in Results
  <2>1. i # Len(b)
    BY <1>6 DEF Sound, Last
  <2>2. i + 1 \in 2..Len(b) /\ b[i].at + 1 = (i + 1) + d
    BY <1>1, <2>1 DEF Sound
  <2> QED BY <1>6, <2>2 DEF Sound
<1>7. \A i \in 1..Len(b) : b[i].kind \in Results => i > 1 /\ b[i - 1].kind = "use"
  BY DEF Sound
<1> QED BY <1>3, <1>4, <1>5, <1>6, <1>7 DEF Faithful

\* Where a view is snipped: after a message that is not separated from its result
\* and before one that is not separated from its call.
SnipsAt(b, h, t) ==
  /\ h \in 1..Len(b) /\ t \in 1..Len(b) /\ h + 1 < t
  /\ ~(b[h].kind = "use" /\ b[h + 1].kind \in Results)
  /\ b[t].kind \notin Results

LEMMA WhereSnipped ==
  ASSUME NEW b, NEW M, NEW d, Sound(b, M, d),
         Len(b) > MaxMessages, HeadEnd(b) + 1 < TailStart(b),
         Last(b).kind = "reference" => MaxMessages - KeepHead > 1
  PROVE  /\ SnipsAt(b, HeadEnd(b), TailStart(b))
         /\ TailStart(b) - 1 <= Len(b) - (MaxMessages - KeepHead)
<1> DEFINE l == Len(b)
           n == l - (MaxMessages - KeepHead)
           h == HeadEnd(b)
           t == TailStart(b)
<1>1. l \in Nat /\ l > 0 /\ d \in Nat
  BY LenProperties DEF Sound
<1>2. MaxMessages \in Nat /\ KeepHead \in Nat /\ KeepHead > 0 /\ MaxMessages >= KeepHead + 1
  BY ConversationAssumption
<1>3. n \in 1..l /\ n + 1 \in 1..l /\ n > KeepHead
  BY <1>1, <1>2
<1>4. h \in {KeepHead, KeepHead + 1} /\ t \in {n, n + 1}
  BY DEF HeadEnd, TailStart
<1>5. h \in 1..l /\ t \in 1..l /\ h + 1 < l
  BY <1>1, <1>2, <1>3, <1>4
<1>6. ~(b[h].kind = "use" /\ b[h + 1].kind \in Results)
  <2> SUFFICES ASSUME b[h].kind = "use", b[h + 1].kind \in Results PROVE FALSE
    OBVIOUS
  <2>1. h + 1 \in 1..l /\ h + 1 # l
    BY <1>1, <1>5
  <2>2. b[h + 1].kind = "result"
    BY <2>1 DEF Sound, Results
  <2>3. CASE h = KeepHead
    BY <1>2, <2>2, <2>3 DEF HeadEnd
  <2>4. CASE h = KeepHead + 1
    BY <1>2, <2>4 DEF HeadEnd
  <2> QED BY <1>4, <2>3, <2>4
<1>7. b[t].kind \notin Results
  <2>1. CASE SplitsExchange(b, n)
    BY <2>1 DEF SplitsExchange, TailStart, Results
  <2>2. CASE ~SplitsExchange(b, n)
    <3> SUFFICES ASSUME b[n + 1].kind \in Results PROVE FALSE
      BY <2>2 DEF TailStart
    <3>1. b[n].kind = "use"
      <4>1. b[(n + 1) - 1].kind = "use"
        BY <1>3 DEF Sound
      <4> QED BY <1>3, <4>1
    <3>2. n + 1 # l \/ b[l].kind # "reference"
      <4> SUFFICES ASSUME b[l].kind = "reference" PROVE n + 1 # l
        OBVIOUS
      <4>1. MaxMessages - KeepHead > 1
        BY DEF Last
      <4> HIDE DEF l
      <4> QED BY <1>1, <1>2, <4>1
    <3>3. b[n + 1].kind = "result"
      BY <1>3, <3>2 DEF Sound, Results
    <3> QED BY <1>1, <1>3, <2>2, <3>1, <3>3 DEF SplitsExchange
  <2> QED BY <2>1, <2>2
<1>8. t - 1 <= n
  BY <1>3, <1>4
<1> QED BY <1>5, <1>6, <1>7, <1>8 DEF SnipsAt

Cut(b, h, t) == First(b, h) \o <<ItemOf("gap", b[t - 1].at)>> \o From(b, t)

LEMMA CutElements ==
  ASSUME NEW b \in Seq(Item), NEW h \in 1..Len(b), NEW t \in 1..Len(b), h + 1 < t
  PROVE  LET v == Cut(b, h, t)
             l == h + 2 + Len(b) - t
         IN  /\ v \in Seq(Item) /\ Len(v) = l
             /\ \A i \in 1..h : v[i] = b[i]
             /\ v[h + 1].kind = "gap" /\ v[h + 1].at = b[t - 1].at
             /\ \A i \in h + 2..l : v[i] = b[i - h - 2 + t]
<1>1. Len(b) \in Nat /\ \A i \in 1..Len(b) : b[i] \in Item
  BY LenProperties, ElementOfSeq
<1> DEFINE g == ItemOf("gap", b[t - 1].at)
           f == First(b, h)
           r == From(b, t)
<1>2. g \in Item /\ g.kind = "gap" /\ g.at = b[t - 1].at
  <2>1. t - 1 \in 1..Len(b)
    BY <1>1
  <2>2. b[t - 1].at \in Nat
    BY <1>1, <2>1 DEF Item, Message
  <2> QED BY <2>2, GapIsItem
<1>3. f \in Seq(Item) /\ Len(f) = h /\ \A i \in 1..h : f[i] = b[i]
  <2>1. \A i \in 1..h : b[i] \in Item
    BY <1>1
  <2>2. /\ f \in Seq(Item) /\ Len(f) = IF 1 <= h THEN h - 1 + 1 ELSE 0
        /\ \A i \in 1..h - 1 + 1 : f[i] = b[1 + i - 1]
    BY <2>1, SubSeqProperties DEF First
  <2> QED BY <1>1, <2>2
<1>4. /\ r \in Seq(Item) /\ Len(r) = Len(b) - t + 1
      /\ \A i \in 1..Len(b) - t + 1 : r[i] = b[t + i - 1]
  <2>1. \A i \in t..Len(b) : b[i] \in Item
    BY <1>1
  <2>2. /\ r \in Seq(Item) /\ Len(r) = IF t <= Len(b) THEN Len(b) - t + 1 ELSE 0
        /\ \A i \in 1..Len(b) - t + 1 : r[i] = b[t + i - 1]
    BY <1>1, <2>1, SubSeqProperties DEF From
  <2> QED BY <1>1, <2>2
<1> HIDE DEF g, f, r
<1>5. <<g>> \in Seq(Item) /\ Len(<<g>>) = 1 /\ <<g>>[1] = g
  BY <1>2
<1>6. /\ f \o <<g>> \in Seq(Item) /\ Len(f \o <<g>>) = h + 1
      /\ \A i \in 1..h + 1 : (f \o <<g>>)[i] = IF i <= h THEN f[i] ELSE <<g>>[i - h]
  <2> DEFINE G == <<g>>
  <2>1. G \in Seq(Item) /\ Len(G) = 1
    BY <1>5
  <2> HIDE DEF G
  <2>2. /\ f \o G \in Seq(Item) /\ Len(f \o G) = Len(f) + Len(G)
        /\ \A i \in 1..Len(f) + Len(G) :
              (f \o G)[i] = IF i <= Len(f) THEN f[i] ELSE G[i - Len(f)]
    BY <1>3, <2>1, ConcatProperties
  <2>3. /\ f \o G \in Seq(Item) /\ Len(f \o G) = h + 1
        /\ \A i \in 1..h + 1 : (f \o G)[i] = IF i <= h THEN f[i] ELSE G[i - h]
    BY <1>3, <2>1, <2>2
  <2> QED BY <2>3 DEF G
<1> DEFINE fg == f \o <<g>>
<1>7. /\ fg \in Seq(Item) /\ Len(fg) = h + 1 /\ fg[h + 1] = g
      /\ \A i \in 1..h : fg[i] = b[i]
  <2>1. \A i \in 1..h : i \in 1..h + 1 /\ i <= h
    BY <1>1
  <2>2. h + 1 \in 1..h + 1 /\ ~(h + 1 <= h) /\ (h + 1) - h = 1
    BY <1>1
  <2> QED BY <1>3, <1>5, <1>6, <2>1, <2>2
<1> HIDE DEF fg
<1> DEFINE v == fg \o r
           l == h + 2 + Len(b) - t
<1>8. /\ v \in Seq(Item) /\ Len(v) = Len(fg) + Len(r)
      /\ \A i \in 1..Len(fg) + Len(r) : v[i] = IF i <= Len(fg) THEN fg[i] ELSE r[i - Len(fg)]
  BY <1>4, <1>7, ConcatProperties
<1>9. Len(fg) + Len(r) = l
  BY <1>1, <1>4, <1>7
<1>10. \A i \in 1..h : v[i] = b[i]
  BY <1>1, <1>7, <1>8, <1>9
<1>11. v[h + 1] = g
  BY <1>1, <1>7, <1>8, <1>9
<1>12. ASSUME NEW i \in h + 2..l PROVE v[i] = b[i - h - 2 + t]
  <2>1. i \in 1..l /\ ~(i <= h + 1) /\ i - (h + 1) \in 1..Len(b) - t + 1
    BY <1>1
  <2>2. v[i] = r[i - (h + 1)]
    BY <1>7, <1>8, <1>9, <2>1
  <2>3. t + (i - (h + 1)) - 1 = i - h - 2 + t
    BY <1>1
  <2> QED BY <1>4, <2>1, <2>2, <2>3
<1>13. v = Cut(b, h, t)
  BY DEF Cut, fg, f, g, r
<1> HIDE DEF v, l
<1> QED BY <1>2, <1>8, <1>9, <1>10, <1>11, <1>12, <1>13 DEF l

\* What is snipped is older than p.
LEMMA CutIsFaithful ==
  ASSUME NEW b, NEW M, NEW d, NEW p \in Nat, Sound(b, M, d), NEW h, NEW t, SnipsAt(b, h, t),
         t - 1 + d < p
  PROVE  /\ Cut(b, h, t) \in Seq(Item) /\ Faithful(Cut(b, h, t), M, p)
         /\ \A i \in 1..Len(Cut(b, h, t)) :
              Cut(b, h, t)[i].kind = "reference" => Cut(b, h, t)[i].at = Len(M)
                                                    /\ Last(b).kind = "reference"
<1> DEFINE v == Cut(b, h, t)
           l == h + 2 + Len(b) - t
<1>1. /\ b \in Seq(Item) /\ Len(b) \in Nat /\ d \in Nat /\ Len(b) + d = Len(M)
      /\ h \in 1..Len(b) /\ t \in 1..Len(b) /\ h + 1 < t
  BY LenProperties DEF Sound, SnipsAt
<1>2. /\ v \in Seq(Item) /\ Len(v) = l
      /\ \A i \in 1..h : v[i] = b[i]
      /\ v[h + 1].kind = "gap" /\ v[h + 1].at = b[t - 1].at
      /\ \A i \in h + 2..l : v[i] = b[i - h - 2 + t]
  BY <1>1, CutElements
<1> HIDE DEF v
<1>3. l \in Nat /\ h \in Nat /\ t \in Nat /\ h + 2 <= l /\ h >= 1
  BY <1>1
<1>4. \A i \in 1..Len(b) : b[i].at = i + d /\ b[i].kind # "gap"
  BY DEF Sound
<1>5. v[h + 1].at = t - 1 + d
  BY <1>1, <1>2, <1>4
<1>6. \A i \in h + 2..l : i - h - 2 + t \in t..Len(b)
  BY <1>1
<1>7. v[1].kind = "summary" \/ v[1].at = 1
  <2>0. 1 \in 1..h /\ 1 \in 1..Len(b)
    BY <1>1, <1>3
  <2>1. v[1] = b[1] /\ b[1].at = 1 + d
    BY <1>2, <1>4, <2>0
  <2> QED BY <1>1, <2>1 DEF Sound
<1>8. v[l] = b[Len(b)] /\ v[l].at = Len(M) /\ v[l].kind # "use"
  <2>1. l \in h + 2..l /\ l - h - 2 + t = Len(b) /\ Len(b) \in 1..Len(b)
    BY <1>1, <1>3
  <2>2. b[Len(b)].kind # "use"
    BY DEF Sound, Last
  <2> QED BY <1>1, <1>2, <1>4, <2>1, <2>2
<1>9. ASSUME NEW i \in 2..l
      PROVE  IF v[i].kind = "gap" THEN v[i - 1].at < v[i].at /\ v[i].at < p
                                  ELSE v[i].at = v[i - 1].at + 1
  <2>1. CASE i <= h
    <3>1. i \in 1..h /\ i - 1 \in 1..h /\ i \in 1..Len(b) /\ i - 1 \in 1..Len(b)
      BY <1>1, <1>3, <2>1
    <3>2. v[i].at = i + d /\ v[i - 1].at = (i - 1) + d /\ v[i].kind # "gap"
      BY <1>2, <1>4, <3>1
    <3> QED BY <1>1, <3>2
  <2>2. CASE i = h + 1
    <3>0. i - 1 = h /\ h \in 1..h
      BY <1>3, <2>2
    <3>1. v[i - 1].at = h + d
      BY <1>1, <1>2, <1>4, <3>0
    <3> QED BY <1>1, <1>2, <1>5, <2>2, <3>1
  <2>3. CASE i = h + 2
    <3>1. i \in h + 2..l /\ i - h - 2 + t = t /\ i - 1 = h + 1
      BY <1>1, <1>3, <2>3
    <3>2. v[i].at = t + d /\ v[i].kind # "gap"
      BY <1>1, <1>2, <1>4, <3>1
    <3>3. v[i - 1].at = t - 1 + d
      BY <1>5, <3>1
    <3>4. t \in Nat
      BY <1>1
    <3> QED BY <1>1, <3>2, <3>3, <3>4
  <2>4. CASE i > h + 2
    <3> DEFINE k == i - h - 2 + t
    <3>1. i \in h + 2..l /\ i - 1 \in h + 2..l /\ (i - 1) - h - 2 + t = k - 1
      BY <1>1, <1>3, <2>4
    <3>2. k \in 1..Len(b) /\ k - 1 \in 1..Len(b)
      BY <1>1, <1>3, <2>4
    <3>3. v[i] = b[k] /\ v[i - 1] = b[k - 1]
      BY <1>2, <3>1
    <3> HIDE DEF k
    <3>4. v[i].at = k + d /\ v[i - 1].at = (k - 1) + d /\ v[i].kind # "gap"
      BY <1>4, <3>2, <3>3
    <3>5. k \in Nat
      BY <3>2
    <3> QED BY <1>1, <3>4, <3>5
  <2>5. i <= h \/ i = h + 1 \/ i = h + 2 \/ i > h + 2
    BY <1>3
  <2> QED BY <2>1, <2>2, <2>3, <2>4, <2>5
<1>10. ASSUME NEW i \in 1..l, v[i].kind \in Results
       PROVE  i > 1 /\ v[i - 1].kind = "use"
  <2>1. CASE i <= h
    <3>1. i \in 1..h /\ i \in 1..Len(b)
      BY <1>1, <1>3, <2>1
    <3>2. i > 1 /\ b[i - 1].kind = "use"
      BY <1>2, <1>10, <3>1 DEF Sound
    <3>3. i - 1 \in 1..h
      <4>1. i > 1
        BY <3>2
      <4> QED BY <1>3, <3>1, <4>1
    <3> QED BY <1>2, <3>2, <3>3
  <2>2. CASE i = h + 1
    BY <1>2, <1>10, <2>2 DEF Results
  <2>3. CASE i = h + 2
    <3>1. i \in h + 2..l /\ i - h - 2 + t = t
      BY <1>1, <1>3, <2>3
    <3> QED BY <1>2, <1>10, <3>1 DEF SnipsAt
  <2>4. CASE i > h + 2
    <3> DEFINE k == i - h - 2 + t
    <3>1. i \in h + 2..l /\ i - 1 \in h + 2..l /\ (i - 1) - h - 2 + t = k - 1 /\ i > 1
      BY <1>1, <1>3, <2>4
    <3>2. k \in 1..Len(b)
      BY <1>1, <1>3, <2>4
    <3>3. v[i] = b[k] /\ v[i - 1] = b[k - 1]
      BY <1>2, <3>1
    <3> HIDE DEF k
    <3> QED BY <1>10, <3>1, <3>2, <3>3 DEF Sound
  <2>5. i <= h \/ i = h + 1 \/ i = h + 2 \/ i > h + 2
    BY <1>3
  <2> QED BY <2>1, <2>2, <2>3, <2>4, <2>5
<1>11. ASSUME NEW i \in 1..l, v[i].kind = "use", M[v[i].at + 1].kind = "result"
       PROVE  v[i + 1].kind \in Results
  <2> DEFINE k == IF i <= h THEN i ELSE i - h - 2 + t
  <2>1. i # h + 1 /\ i # l
    BY <1>2, <1>8, <1>11 DEF Sound, Last
  <2>2. k \in 1..Len(b) /\ k + 1 \in 2..Len(b) /\ v[i] = b[k]
    <3>1. CASE i <= h
      <4>1. i \in 1..h /\ k = i /\ k \in 1..Len(b) /\ k + 1 \in 2..Len(b)
        BY <1>1, <1>3, <3>1
      <4> QED BY <1>2, <4>1
    <3>2. CASE i > h
      <4>1. i \in h + 2..l /\ k = i - h - 2 + t
        BY <1>1, <1>3, <2>1, <3>2
      <4>2. k \in 1..Len(b) /\ k + 1 \in 2..Len(b)
        BY <1>1, <1>3, <2>1, <4>1
      <4> HIDE DEF k
      <4> QED BY <1>2, <4>1, <4>2
    <3> QED BY <1>1, <1>3, <3>1, <3>2
  <2>3. b[k + 1].kind \in Results
    <3> HIDE DEF k
    <3>1. v[i].at = k + d /\ k \in Nat
      BY <1>4, <2>2
    <3>2. v[i].at + 1 = (k + 1) + d
      BY <1>1, <3>1
    <3> QED BY <1>11, <2>2, <3>2 DEF Sound
  <2>4. i # h
    BY <1>11, <2>2, <2>3 DEF SnipsAt
  <2>5. CASE i < h
    <3>1. i + 1 \in 1..h /\ k = i
      BY <1>3, <2>5
    <3> QED BY <1>2, <2>3, <3>1
  <2>6. CASE i > h + 1
    <3>1. i + 1 \in h + 2..l /\ (i + 1) - h - 2 + t = k + 1
      BY <1>1, <1>3, <2>1, <2>6
    <3> QED BY <1>2, <2>3, <3>1
  <2> QED BY <1>1, <1>3, <2>1, <2>4, <2>5, <2>6
<1>12. ASSUME NEW i \in 1..l, v[i].kind = "reference"
       PROVE  v[i].at = Len(M) /\ Last(b).kind = "reference"
  <2> DEFINE k == IF i <= h THEN i ELSE i - h - 2 + t
  <2>1. i # h + 1
    BY <1>2, <1>12
  <2>2. k \in 1..Len(b) /\ v[i] = b[k]
    <3>1. CASE i <= h
      <4>1. i \in 1..h /\ k = i /\ k \in 1..Len(b)
        BY <1>1, <1>3, <3>1
      <4> QED BY <1>2, <4>1
    <3>2. CASE i > h
      <4>1. i \in h + 2..l /\ k = i - h - 2 + t /\ k \in 1..Len(b)
        BY <1>1, <1>3, <2>1, <3>2
      <4> QED BY <1>2, <4>1
    <3> QED BY <1>1, <1>3, <3>1, <3>2
  <2> HIDE DEF k
  <2> QED BY <1>1, <1>4, <1>12, <2>2 DEF Sound, Last
<1> HIDE DEF l
<1> QED BY <1>2, <1>7, <1>8, <1>9, <1>10, <1>11, <1>12 DEF Faithful, v

\* Shortening replaces results by notices, and is as faithful.
LEMMA ShortenedIsFaithful ==
  ASSUME NEW v \in Seq(Item), NEW M, NEW p, Len(v) > 0, Faithful(v, M, p)
  PROVE  /\ Shorten(v) \in Seq(Item) /\ Len(Shorten(v)) = Len(v)
         /\ Faithful(Shorten(v), M, p)
         /\ \A i \in 1..Len(v) : Shorten(v)[i].kind = "reference" =>
                                   v[i].kind = "reference" /\ Shorten(v)[i].at = v[i].at
<1> DEFINE w == Shorten(v)
           l == Len(v)
<1>1. l \in Nat /\ DOMAIN v = 1..l /\ \A i \in 1..l : v[i] \in Item
  BY LenProperties, ElementOfSeq
<1>2. \A i \in 1..l : w[i] = IF v[i].kind = "result" /\ ~RecentResult(v, i)
                             THEN [v[i] EXCEPT !.kind = "notice"] ELSE v[i]
  BY <1>1 DEF Shorten
<1>3. ASSUME NEW i \in 1..l
      PROVE  /\ w[i] \in Item /\ w[i].at = v[i].at
             /\ w[i].kind = v[i].kind \/ (v[i].kind = "result" /\ w[i].kind = "notice")
  <2>1. v[i] \in Item
    BY <1>1
  <2>2. w[i] = v[i] \/ (v[i].kind = "result" /\ w[i] = [v[i] EXCEPT !.kind = "notice"])
    BY <1>2
  <2> HIDE DEF w, l
  <2> QED BY <2>1, <2>2, ItemKind
<1>4. w \in Seq(Item) /\ Len(w) = l
  <2>1. w \in [1..l -> Item]
    BY <1>1, <1>3 DEF Shorten
  <2> HIDE DEF w
  <2>2. w \in Seq(Item)
    BY <1>1, <2>1, SeqDef
  <2>3. Len(w) \in Nat /\ DOMAIN w = 1..Len(w)
    BY <2>2, LenProperties
  <2> QED BY <1>1, <2>1, <2>2, <2>3, LenProperties
<1> HIDE DEF w
<1>5. \A i \in 1..l : w[i].kind \in Results <=> v[i].kind \in Results
  BY <1>3 DEF Results
<1>6. \A i \in 1..l : /\ w[i].kind = "use" <=> v[i].kind = "use"
                      /\ w[i].kind = "gap" <=> v[i].kind = "gap"
                      /\ w[i].kind = "summary" <=> v[i].kind = "summary"
                      /\ w[i].kind = "reference" <=> v[i].kind = "reference"
  BY <1>3
<1>7. 1 \in 1..l /\ l \in 1..l
  BY <1>1
<1>8. w[1].kind = "summary" \/ w[1].at = 1
  BY <1>3, <1>6, <1>7 DEF Faithful
<1>9. w[l].at = Len(M) /\ w[l].kind # "use"
  BY <1>3, <1>6, <1>7 DEF Faithful
<1>10. ASSUME NEW i \in 2..l
       PROVE  IF w[i].kind = "gap" THEN w[i - 1].at < w[i].at /\ w[i].at < p
                                   ELSE w[i].at = w[i - 1].at + 1
  <2>1. i \in 1..l /\ i - 1 \in 1..l
    BY <1>1
  <2> QED BY <1>3, <1>6, <2>1 DEF Faithful
<1>11. ASSUME NEW i \in 1..l, w[i].kind \in Results
       PROVE  i > 1 /\ w[i - 1].kind = "use"
  <2>1. i > 1 /\ v[i - 1].kind = "use"
    BY <1>5, <1>11 DEF Faithful
  <2>2. i - 1 \in 1..l
    BY <1>1, <2>1
  <2> QED BY <1>6, <2>1, <2>2
<1>12. ASSUME NEW i \in 1..l, w[i].kind = "use", M[w[i].at + 1].kind = "result"
       PROVE  w[i + 1].kind \in Results
  <2>1. v[i + 1].kind \in Results
    BY <1>3, <1>6, <1>12 DEF Faithful
  <2>2. i # l
    BY <1>9, <1>12
  <2>3. i + 1 \in 1..l
    <3>1. l \in Nat
      BY <1>1
    <3> HIDE DEF l
    <3> QED BY <2>2, <3>1
  <2> QED BY <1>5, <2>1, <2>3
<1> QED BY <1>3, <1>4, <1>6, <1>8, <1>9, <1>10, <1>11, <1>12 DEF Faithful, w

\* What a request is made of is faithful, whatever is snipped and shortened of it,
\* if the messages since p fit into what a snip leaves.
LEMMA PreSummaryIsFaithful ==
  ASSUME NEW m, NEW M, NEW d, Whole(m, M, d), NEW p \in Nat,
         Len(M) - p < MaxMessages - KeepHead,
         Last(m).kind = "result" => MaxMessages - KeepHead > 1
  PROVE  LET v == PreSummary(m) IN
         /\ v \in Seq(Item) /\ Faithful(v, M, p)
         /\ \A i \in 1..Len(v) : v[i].kind = "reference" => v[i].at \in Large(m)
<1> DEFINE b == Budgeted(m)
           s == Snip(b)
<1>1. /\ Sound(b, M, d) /\ Len(b) = Len(m)
      /\ Last(b).kind = "reference" => Large(m) = {Len(M)} /\ Last(m).kind = "result"
  BY BudgetedIsSound
<1> HIDE DEF b
<1>2. /\ b \in Seq(Item) /\ Len(b) \in Nat /\ Len(b) > 0 /\ d \in Nat /\ Len(b) + d = Len(M)
  BY <1>1, LenProperties DEF Sound
<1>3. /\ s \in Seq(Item) /\ Len(s) > 0 /\ Faithful(s, M, p)
      /\ \A i \in 1..Len(s) : s[i].kind = "reference" => s[i].at \in Large(m)
  <2>1. CASE Len(b) <= MaxMessages \/ HeadEnd(b) + 1 >= TailStart(b)
    <3>1. s = b
      BY <2>1 DEF Snip
    <3>2. \A i \in 1..Len(b) : b[i].kind = "reference" => b[i].at = Len(M) /\ i = Len(b)
      BY <1>1, <1>2 DEF Sound
    <3> QED BY <1>1, <1>2, <3>1, <3>2, SoundIsFaithful DEF Last
  <2>2. CASE ~(Len(b) <= MaxMessages \/ HeadEnd(b) + 1 >= TailStart(b))
    <3> DEFINE h == HeadEnd(b)
               t == TailStart(b)
    <3>0. MaxMessages \in Nat /\ KeepHead \in Nat
      BY ConversationAssumption
    <3>1. h \in Nat /\ t \in Int
      BY <1>2, <3>0 DEF HeadEnd, TailStart
    <3>2. Len(b) > MaxMessages /\ h + 1 < t
      BY <1>2, <2>2, <3>0, <3>1
    <3>3. SnipsAt(b, h, t) /\ t - 1 <= Len(b) - (MaxMessages - KeepHead)
      BY <1>1, <3>2, WhereSnipped
    <3>4. s = Cut(b, h, t)
      BY <2>2 DEF Snip, Cut
    <3> HIDE DEF h, t
    <3>5. t - 1 + d < p
      BY <1>2, <3>0, <3>1, <3>3
    <3>6. /\ s \in Seq(Item) /\ Faithful(s, M, p)
          /\ \A i \in 1..Len(s) : s[i].kind = "reference" => s[i].at = Len(M)
                                                             /\ Last(b).kind = "reference"
      BY <1>1, <3>3, <3>4, <3>5, CutIsFaithful
    <3>7. Len(s) > 0
      <4>1. h \in 1..Len(b) /\ t \in 1..Len(b) /\ h + 1 < t
        BY <3>3 DEF SnipsAt
      <4>2. Len(s) = h + 2 + Len(b) - t
        BY <1>2, <3>4, <4>1, CutElements
      <4> QED BY <1>2, <4>1, <4>2
    <3> QED BY <1>1, <3>6, <3>7
  <2> QED BY <2>1, <2>2
<1> HIDE DEF s
<1> DEFINE w == Shorten(s)
<1>4. PreSummary(m) = w
  BY DEF PreSummary, s, b
<1>5. /\ w \in Seq(Item) /\ Len(w) = Len(s) /\ Faithful(w, M, p)
      /\ \A i \in 1..Len(s) : w[i].kind = "reference" =>
                               s[i].kind = "reference" /\ w[i].at = s[i].at
  BY <1>3, ShortenedIsFaithful
<1> HIDE DEF w
<1>6. \A i \in 1..Len(w) : w[i].kind = "reference" => w[i].at \in Large(m)
  BY <1>3, <1>5
<1> QED BY <1>4, <1>5, <1>6

-----------------------------------------------------------------------------
(* The messages views are made of.                                          *)

\* What is on file and what a continuation has added: every exchange is closed.
Sequel(M) ==
  /\ M \in Seq(Message) /\ Len(M) > 0 /\ Story(M) /\ Last(M).kind # "use"

LEMMA MessageKind ==
  ASSUME NEW k \in Message
  PROVE  /\ k \in Item /\ k.at \in Nat /\ k.notes \subseteq Commands
         /\ k.kind \in {"prompt", "use", "result", "text"}
BY DEF Message, Item

LEMMA HistoryIsWhole ==
  ASSUME NEW M, Sequel(M)
  PROVE  Whole(M, M, 0)
<1>1. M \in Seq(Item)
  <2>1. Message \subseteq Item
    BY DEF Item
  <2> QED BY <2>1, SeqMonotonic DEF Sequel
<1>2. Len(M) \in Nat /\ \A i \in 1..Len(M) : M[i] \in Message
  BY LenProperties, ElementOfSeq DEF Sequel
<1>3. \A i \in 1..Len(M) : M[i].at = i + 0 /\ M[i].kind \notin {"gap", "notice", "reference"}
  BY <1>2, MessageKind DEF Sequel, Story
<1> QED BY <1>1, <1>2, <1>3 DEF Whole, Sequel, Story

LEMMA SummaryIsWhole ==
  ASSUME NEW M, Sequel(M)
  PROVE  Whole(Summary(Len(M)), M, Len(M) - 1)
<1> DEFINE k == ItemOf("summary", Len(M))
           m == <<k>>
<1>1. Len(M) \in Nat /\ Len(M) > 0
  BY LenProperties DEF Sequel
<1>2. k \in Item /\ k.kind = "summary" /\ k.at = Len(M)
  BY <1>1, GapIsItem
<1> HIDE DEF k
<1>3. m \in Seq(Item) /\ Len(m) = 1 /\ m[1] = k
  BY <1>2
<1> HIDE DEF m
<1>4. Whole(m, M, Len(M) - 1)
  BY <1>1, <1>2, <1>3 DEF Whole, Last
<1> QED BY <1>4 DEF m, k, Summary

LEMMA CheckpointIsWhole ==
  ASSUME NEW M, Sequel(M), NEW n \in 1..Len(M), ~SplitsExchange(M, n)
  PROVE  Whole(CheckpointView(M, n), M, n - 1)
<1> DEFINE k == ItemOf("summary", n)
           S == <<k>>
           r == From(M, n + 1)
           m == S \o r
           l == Len(M) - n + 1
<1>1. /\ Len(M) \in Nat /\ n \in Nat
      /\ \A i \in 1..Len(M) : M[i] \in Message /\ M[i] \in Item
                              /\ M[i].kind \in {"prompt", "use", "result", "text"}
  BY LenProperties, ElementOfSeq, MessageKind DEF Sequel
<1>2. k \in Item /\ k.kind = "summary" /\ k.at = n
  BY <1>1, GapIsItem
<1> HIDE DEF k
<1>3. S \in Seq(Item) /\ Len(S) = 1 /\ S[1] = k
  BY <1>2
<1> HIDE DEF S
<1>4. /\ r \in Seq(Item) /\ Len(r) = l - 1
      /\ \A i \in 1..l - 1 : r[i] = M[n + i]
  <2>1. \A i \in n + 1..Len(M) : M[i] \in Item
    BY <1>1
  <2>2. /\ r \in Seq(Item) /\ Len(r) = IF n + 1 <= Len(M) THEN Len(M) - (n + 1) + 1 ELSE 0
        /\ \A i \in 1..Len(M) - (n + 1) + 1 : r[i] = M[n + 1 + i - 1]
    BY <1>1, <2>1, SubSeqProperties DEF From
  <2> HIDE DEF r
  <2>3. Len(r) = l - 1
    BY <1>1, <2>2
  <2>4. ASSUME NEW i \in 1..l - 1 PROVE r[i] = M[n + i]
    <3>1. i \in 1..Len(M) - (n + 1) + 1 /\ n + 1 + i - 1 = n + i
      BY <1>1
    <3> QED BY <2>2, <3>1
  <2> QED BY <2>2, <2>3, <2>4
<1> HIDE DEF r
<1>5. /\ m \in Seq(Item) /\ Len(m) = l /\ m[1] = k
      /\ \A i \in 2..l : m[i] = M[i + (n - 1)]
  <2>1. /\ m \in Seq(Item) /\ Len(m) = Len(S) + Len(r)
        /\ \A i \in 1..Len(S) + Len(r) : m[i] = IF i <= Len(S) THEN S[i] ELSE r[i - Len(S)]
    BY <1>3, <1>4, ConcatProperties
  <2>2. Len(S) + Len(r) = l
    BY <1>1, <1>3, <1>4
  <2>3. m[1] = k
    <3>1. 1 \in 1..l
      BY <1>1
    <3> QED BY <1>3, <2>1, <2>2, <3>1
  <2>4. ASSUME NEW i \in 2..l PROVE m[i] = M[i + (n - 1)]
    <3>1. i \in 1..l /\ ~(i <= 1) /\ i - 1 \in 1..l - 1 /\ n + (i - 1) = i + (n - 1)
      BY <1>1
    <3>2. m[i] = r[i - 1]
      BY <1>3, <2>1, <2>2, <3>1
    <3> QED BY <1>4, <3>1, <3>2
  <2> QED BY <2>1, <2>2, <2>3, <2>4
<1> HIDE DEF m
<1>6. l \in Nat /\ l > 0 /\ l + (n - 1) = Len(M) /\ n - 1 \in Nat
      /\ \A i \in 2..l : i + (n - 1) \in 1..Len(M)
  BY <1>1
<1>7. \A i \in 1..l : m[i].at = i + (n - 1) /\ m[i].kind \notin {"gap", "notice", "reference"}
  <2> SUFFICES ASSUME NEW i \in 1..l
               PROVE  /\ m[i].at = i + (n - 1)
                      /\ m[i].kind \notin {"gap", "notice", "reference"}
    OBVIOUS
  <2>1. CASE i = 1
    BY <1>1, <1>2, <1>5, <2>1
  <2>2. CASE i # 1
    <3>1. i \in 2..l
      BY <1>6, <2>2
    <3>2. m[i] = M[i + (n - 1)] /\ i + (n - 1) \in 1..Len(M)
      BY <1>5, <1>6, <3>1
    <3> QED BY <1>1, <3>2 DEF Sequel, Story
  <2> QED BY <2>1, <2>2
<1>8. ASSUME NEW i \in 1..l, m[i].kind = "result"
      PROVE  i > 1 /\ m[i - 1].kind = "use"
  <2>1. i # 1
    BY <1>2, <1>5, <1>8
  <2>2. i \in 2..l
    BY <1>6, <2>1
  <2> DEFINE j == i + (n - 1)
  <2>3. m[i] = M[j] /\ j \in 1..Len(M)
    BY <1>5, <1>6, <2>2
  <2>4. j > 1 /\ M[j - 1].kind = "use"
    BY <1>8, <2>3 DEF Sequel, Story
  <2>5. i # 2
    <3> SUFFICES ASSUME i = 2 PROVE FALSE
      OBVIOUS
    <3>1. j = n + 1 /\ j - 1 = n /\ n < Len(M) /\ 0 < n
      BY <1>1, <2>3
    <3> QED BY <1>8, <2>3, <2>4, <3>1 DEF SplitsExchange
  <2>6. i - 1 \in 2..l /\ (i - 1) + (n - 1) = j - 1
    BY <1>1, <1>6, <2>2, <2>5
  <2>7. m[i - 1] = M[j - 1]
    BY <1>5, <2>6
  <2> QED BY <2>2, <2>4, <2>7
<1>9. m[l].kind # "use"
  <2>1. CASE l = 1
    BY <1>2, <1>5, <2>1
  <2>2. CASE l # 1
    <3>1. l \in 2..l
      BY <1>6, <2>2
    <3> QED BY <1>5, <1>6, <3>1 DEF Sequel, Last
  <2> QED BY <2>1, <2>2
<1>10. Whole(m, M, n - 1)
  BY <1>2, <1>5, <1>6, <1>7, <1>8, <1>9 DEF Whole, Last
<1> QED BY <1>10 DEF m, S, k, r, CheckpointView, Summary

LEMMA ConversationTypes ==
  ASSUME ConversationTypeOK
  PROVE  /\ transcript \in Seq(Message) /\ Len(transcript) \in Nat
         /\ \A i \in 1..Len(transcript) : transcript[i] \in Message
         /\ checkpoint \in Seq(Message) /\ Len(checkpoint) \in Nat
         /\ extra \in Seq(Message) /\ Len(extra) \in Nat
         /\ \A i \in 1..Len(extra) : extra[i] \in Message
         /\ turn \in Nat /\ turn <= MaxTurns /\ prompt \in Nat
BY ConversationAssumption, LenProperties, ElementOfSeq DEF ConversationTypeOK

LEMMA NoExtra ==
  ASSUME ConversationTypeOK, extra = <<>>
  PROVE  Messages = transcript
BY ConversationTypes, ConcatEmptySeq DEF Messages

\* The history a request is made of; the messages since the prompt fit into what a
\* snip leaves.
LEMMA RequestHistory ==
  ASSUME ConversationTypeOK, Story(transcript), Written, step \in {"asking", "waiting"}
  PROVE  /\ Sequel(Messages) /\ Len(Messages) = Len(transcript) + Len(extra)
         /\ Len(transcript) > 0
         /\ \A i \in 1..Len(transcript) : Messages[i] = transcript[i]
         /\ Len(Messages) - prompt < MaxMessages - KeepHead
         /\ Last(Messages).kind = "result" => /\ extra = <<>>
                                              /\ MaxMessages - KeepHead > 1
<1> DEFINE M == Messages
           n == Len(transcript)
           e == Len(extra)
<1>1. /\ transcript \in Seq(Message) /\ n \in Nat /\ extra \in Seq(Message) /\ e \in Nat
      /\ turn \in Nat /\ prompt \in Nat
  BY ConversationTypes
<1>2. /\ turn < MaxTurns /\ prompt > 0 /\ n = prompt + 2 * turn
      /\ Last(transcript).kind \in {"prompt", "result"}
      /\ turn = 0 => Last(transcript).kind = "prompt"
      /\ Continued
  BY DEF Written
<1>3. /\ M \in Seq(Message) /\ Len(M) = n + e
      /\ \A i \in 1..n + e : M[i] = IF i <= n THEN transcript[i] ELSE extra[i - n]
  BY <1>1, ConcatProperties DEF Messages
<1> HIDE DEF M
<1>4. n > 0
  BY <1>1, <1>2
<1>5. \A i \in 1..n : M[i] = transcript[i]
  BY <1>1, <1>3
<1>6. ASSUME NEW i \in n + 1..n + e
      PROVE  M[i].at = i /\ M[i].kind \in {"text", "prompt"}
  <2>1. i \in 1..n + e /\ ~(i <= n) /\ i - n \in 1..e /\ n + (i - n) = i
    BY <1>1
  <2>2. M[i] = extra[i - n]
    BY <1>3, <2>1
  <2>3. extra[i - n].at = n + (i - n) /\ extra[i - n].kind \in {"text", "prompt"}
    BY <1>2, <2>1 DEF Continued
  <2> QED BY <2>1, <2>2, <2>3
<1>7. Story(M)
  <2> SUFFICES ASSUME NEW i \in 1..n + e
               PROVE  /\ M[i].at = i
                      /\ M[i].kind = "result" => i > 1 /\ M[i - 1].kind = "use"
    BY <1>3 DEF Story
  <2>1. CASE i <= n
    <3>1. i \in 1..n
      BY <1>1, <2>1
    <3>2. /\ transcript[i].at = i
          /\ transcript[i].kind = "result" => i > 1 /\ transcript[i - 1].kind = "use"
      BY <3>1 DEF Story
    <3>3. i > 1 => i - 1 \in 1..n
      BY <1>1, <3>1
    <3> QED BY <1>5, <3>1, <3>2, <3>3
  <2>2. CASE ~(i <= n)
    <3>1. i \in n + 1..n + e
      BY <1>1, <2>2
    <3> QED BY <1>6, <3>1
  <2> QED BY <2>1, <2>2
<1>8. /\ e = 0 => Last(M) = Last(transcript)
      /\ e # 0 => Last(M).kind \in {"text", "prompt"}
  <2>1. CASE e = 0
    <3>1. n \in 1..n /\ n + e = n
      BY <1>1, <1>4, <2>1
    <3> QED BY <1>3, <1>5, <3>1, <2>1 DEF Last
  <2>2. CASE e # 0
    <3>1. n + e \in n + 1..n + e
      BY <1>1, <2>2
    <3> QED BY <1>3, <1>6, <3>1, <2>2 DEF Last
  <2> QED BY <2>1, <2>2
<1>9. Sequel(M)
  <2>1. Last(M).kind # "use"
    BY <1>2, <1>8
  <2>2. n + e > 0
    BY <1>1, <1>4
  <2> QED BY <1>3, <1>7, <2>1, <2>2 DEF Sequel
<1>10. Len(M) - prompt < MaxMessages - KeepHead
  <2>1. /\ MaxTurns \in Nat /\ MaxContinuations \in Nat /\ MaxMessages \in Nat /\ KeepHead \in Nat
        /\ MaxMessages >= KeepHead + 2 * (MaxTurns + MaxContinuations) - 1
    BY ConversationAssumption
  <2>2. e <= 2 * MaxContinuations
    BY <1>2 DEF Continued
  <2>3. Len(M) - prompt = 2 * turn + e
    BY <1>1, <1>2, <1>3
  <2>4. 2 * turn + e <= 2 * (MaxTurns - 1) + 2 * MaxContinuations
    BY <1>1, <1>2, <2>1, <2>2
  <2> QED BY <1>1, <2>1, <2>3, <2>4
<1>11. Last(M).kind = "result" => extra = <<>> /\ MaxMessages - KeepHead > 1
  <2> SUFFICES ASSUME Last(M).kind = "result" PROVE extra = <<>> /\ MaxMessages - KeepHead > 1
    OBVIOUS
  <2>1. e = 0
    BY <1>8
  <2>2. extra = <<>>
    BY <1>1, <2>1, EmptySeq
  <2>3. turn # 0
    BY <1>2, <1>8, <2>1
  <2>4. MaxTurns >= 2
    BY <1>1, <1>2, <2>3, ConversationAssumption
  <2>5. MaxMessages - KeepHead > 1
    BY <2>4, ConversationAssumption
  <2> QED BY <2>2, <2>5
<1> QED BY <1>3, <1>4, <1>5, <1>9, <1>10, <1>11 DEF M

LEMMA SafeBoundaryIsSafe ==
  ASSUME NEW M, Len(M) \in Nat, NEW n \in 0..Len(M)
  PROVE  /\ SafeBoundary(M, n) \in 0..Len(M)
         /\ ~SplitsExchange(M, SafeBoundary(M, n))
<1>1. CASE SplitsExchange(M, n)
  <2>1. SafeBoundary(M, n) = n - 1 /\ n - 1 \in 0..Len(M) /\ (n - 1) + 1 = n
    BY <1>1 DEF SafeBoundary, SplitsExchange
  <2>2. M[n].kind = "use"
    BY <1>1 DEF SplitsExchange
  <2> QED BY <2>1, <2>2 DEF SplitsExchange
<1>2. CASE ~SplitsExchange(M, n)
  BY <1>2 DEF SafeBoundary
<1> QED BY <1>1, <1>2

LEMMA DesiredCoverageIsCoverage ==
  ASSUME NEW M, Len(M) \in Nat
  PROVE  DesiredCoverage(M) \in 0..Len(M)
BY ConversationAssumption DEF DesiredCoverage

LEMMA FirstElements ==
  ASSUME NEW S, NEW s \in Seq(S), NEW n \in 0..Len(s)
  PROVE  /\ First(s, n) \in Seq(S) /\ Len(First(s, n)) = n
         /\ \A i \in 1..n : First(s, n)[i] = s[i]
<1>1. Len(s) \in Nat /\ \A i \in 1..Len(s) : s[i] \in S
  BY LenProperties, ElementOfSeq
<1>2. \A i \in 1..n : s[i] \in S
  BY <1>1
<1>3. /\ First(s, n) \in Seq(S) /\ Len(First(s, n)) = IF 1 <= n THEN n - 1 + 1 ELSE 0
      /\ \A i \in 1..n - 1 + 1 : First(s, n)[i] = s[1 + i - 1]
  BY <1>1, <1>2, SubSeqProperties DEF First
<1>4. n \in Nat /\ n - 1 + 1 = n /\ \A i \in 1..n : 1 + i - 1 = i
  BY <1>1
<1>5. Len(First(s, n)) = n
  BY <1>3, <1>4
<1>6. \A i \in 1..n : First(s, n)[i] = s[i]
  BY <1>3, <1>4
<1> QED BY <1>3, <1>5, <1>6

\* A view restored from a checkpoint that matches.
LEMMA RestoredIsWhole ==
  ASSUME NEW M, Sequel(M), Len(checkpoint) \in Nat, checkpoint \in Seq(Message),
         checkpoint = <<>> \/ Matches(M)
  PROVE  \E d : Whole(Restored(M), M, d)
<1>1. CASE checkpoint = <<>>
  BY <1>1, HistoryIsWhole DEF Restored
<1>2. CASE checkpoint # <<>>
  <2>1. Len(checkpoint) \in 1..Len(M)
    <3>1. Len(checkpoint) > 0 /\ Len(M) \in Nat
      BY <1>2, EmptySeq, LenProperties DEF Sequel
    <3> QED BY <1>2, <3>1 DEF Matches
  <2>2. Restored(M) = CheckpointView(M, Len(checkpoint))
    BY <1>2 DEF Restored
  <2>3. ~SplitsExchange(M, Len(checkpoint))
    BY <1>2 DEF Matches
  <2> QED BY <2>1, <2>2, <2>3, CheckpointIsWhole
<1> QED BY <1>1, <1>2

\* Whatever a whole view ends with, it is what the history ends with.
LEMMA LastOfWhole ==
  ASSUME NEW m, NEW M, NEW d, Whole(m, M, d), M \in Seq(Message)
  PROVE  /\ Last(m).kind = "result" => Last(M).kind = "result"
         /\ Large(m) \subseteq {Len(M)}
         /\ Large(m) # {} => Last(M).kind = "result"
<1>1. /\ Len(m) \in Nat /\ Len(m) > 0 /\ d \in Nat /\ Len(m) + d = Len(M)
  BY LenProperties DEF Whole
<1>2. Len(m) \in 1..Len(m) /\ m[Len(m)].at = Len(M)
  BY <1>1 DEF Whole
<1>3. Last(m).kind = "result" => Last(M).kind = "result"
  <2>1. CASE Len(m) = 1
    BY <1>1, <1>2, <2>1 DEF Whole, Last
  <2>2. CASE Len(m) # 1
    <3> DEFINE l == Len(m)
    <3>1. l \in Nat /\ l > 0 /\ l # 1
      BY <1>1, <2>2
    <3> HIDE DEF l
    <3>2. l \in 2..l
      BY <3>1
    <3> QED BY <1>1, <3>2 DEF Whole, Last, l
  <2> QED BY <2>1, <2>2
<1> QED BY <1>2, <1>3 DEF Large, Last

-----------------------------------------------------------------------------
(* Appends, requests and announcements.                                     *)

LEMMA AppendedTranscript ==
  ASSUME ConversationTypeOK, NEW kind \in {"prompt", "use", "result", "text"},
         NEW notes, notes \subseteq Commands, AppendMessage(kind, notes)
  PROVE  /\ transcript' \in Seq(Message) /\ Len(transcript') = Len(transcript) + 1
         /\ DOMAIN transcript \subseteq DOMAIN transcript'
         /\ \A i \in 1..Len(transcript) : transcript'[i] = transcript[i]
         /\ LET k == transcript'[Len(transcript) + 1] IN
            k.kind = kind /\ k.at = Len(transcript) + 1 /\ k.notes = notes
<1> DEFINE n == Len(transcript)
           k == [kind |-> kind, at |-> n + 1, notes |-> notes]
<1>1. transcript \in Seq(Message) /\ n \in Nat /\ DOMAIN transcript = 1..n
  BY ConversationTypes, LenProperties
<1>2. k \in Message /\ k.kind = kind /\ k.at = n + 1 /\ k.notes = notes
  BY <1>1 DEF Message
<1>3. transcript' = Append(transcript, k)
  BY DEF AppendMessage
<1> HIDE DEF k
<1>4. /\ transcript' \in Seq(Message) /\ Len(transcript') = n + 1
      /\ \A i \in 1..n : transcript'[i] = transcript[i]
      /\ transcript'[n + 1] = k
  BY <1>1, <1>2, <1>3, AppendProperties
<1>5. DOMAIN transcript' = 1..n + 1
  BY <1>4, LenProperties
<1> QED BY <1>1, <1>2, <1>4, <1>5

LEMMA AppendedStory ==
  ASSUME ConversationTypeOK, Story(transcript),
         NEW kind \in {"prompt", "use", "result", "text"},
         NEW notes, notes \subseteq Commands, AppendMessage(kind, notes),
         kind = "result" => Len(transcript) > 0 /\ Last(transcript).kind = "use"
  PROVE  Story(transcript')
<1> DEFINE n == Len(transcript)
<1>1. n \in Nat
  BY ConversationTypes
<1>2. /\ Len(transcript') = n + 1
      /\ \A i \in 1..n : transcript'[i] = transcript[i]
      /\ transcript'[n + 1].kind = kind /\ transcript'[n + 1].at = n + 1
  BY AppendedTranscript
<1> SUFFICES ASSUME NEW i \in 1..n + 1
             PROVE  /\ transcript'[i].at = i
                    /\ transcript'[i].kind = "result" => i > 1 /\ transcript'[i - 1].kind = "use"
  BY <1>2 DEF Story
<1>3. CASE i = n + 1
  <2>1. i - 1 = n /\ (n > 0 => n \in 1..n)
    BY <1>1, <1>3
  <2> QED BY <1>1, <1>2, <1>3, <2>1 DEF Last
<1>4. CASE i # n + 1
  <2>1. i \in 1..n /\ (i > 1 => i - 1 \in 1..n)
    BY <1>1, <1>4
  <2> QED BY <1>2, <2>1 DEF Story
<1> QED BY <1>3, <1>4

\* What is on file of a checkpoint stays the beginning of the transcript.
LEMMA AppendedCheckpoint ==
  ASSUME ConversationTypeOK, CheckpointSound,
         NEW kind \in {"prompt", "use", "result", "text"},
         NEW notes, notes \subseteq Commands, AppendMessage(kind, notes),
         checkpoint' = checkpoint
  PROVE  CheckpointSound'
<1> DEFINE n == Len(transcript)
           l == Len(checkpoint)
<1>1. n \in Nat /\ l \in Nat
  BY ConversationTypes
<1>2. /\ Len(transcript') = n + 1
      /\ \A i \in 1..n : transcript'[i] = transcript[i]
  BY AppendedTranscript
<1>3. l <= n /\ l <= n + 1
  BY <1>1 DEF CheckpointSound
<1>4. \A i \in 1..l : i \in 1..n
  BY <1>1, <1>3
<1>5. \A i \in 1..l : checkpoint[i] = transcript'[i]
  BY <1>2, <1>4 DEF CheckpointSound
<1>6. l > 0 /\ Last(checkpoint).kind = "use" =>
        l < n + 1 /\ transcript'[l + 1].kind # "result"
  <2> SUFFICES ASSUME l > 0, Last(checkpoint).kind = "use"
               PROVE  l < n + 1 /\ transcript'[l + 1].kind # "result"
    OBVIOUS
  <2>1. l < n /\ transcript[l + 1].kind # "result"
    BY DEF CheckpointSound
  <2>2. l + 1 \in 1..n /\ l < n + 1
    BY <1>1, <2>1
  <2> QED BY <1>2, <2>1, <2>2
<1> QED BY <1>2, <1>3, <1>5, <1>6 DEF CheckpointSound

LEMMA AskedView ==
  ASSUME ConversationTypeOK, Story(transcript), Written, step = "asking",
         checkpoint = <<>> \/ Matches(Messages),
         NEW m, NEW d, Whole(m, Messages, d), Ask(m)
  PROVE  /\ view' \in Seq(Item) /\ artifacts' \subseteq DOMAIN transcript
         /\ Faithful(view', Messages, prompt)
         /\ \A i \in 1..Len(view') : view'[i].kind = "reference" => view'[i].at \in artifacts'
<1> DEFINE M == Messages
<1>1. /\ Sequel(M) /\ M \in Seq(Message) /\ Len(M) = Len(transcript) + Len(extra)
      /\ Len(transcript) > 0
      /\ Len(M) - prompt < MaxMessages - KeepHead
      /\ Last(M).kind = "result" => extra = <<>> /\ MaxMessages - KeepHead > 1
  BY RequestHistory DEF Sequel
<1>2. /\ prompt \in Nat /\ DOMAIN transcript = 1..Len(transcript)
      /\ Len(transcript) \in Nat /\ checkpoint \in Seq(Message) /\ Len(checkpoint) \in Nat
  BY ConversationTypes, LenProperties
<1>3. PICK c : Whole(Restored(M), M, c)
  BY <1>1, <1>2, RestoredIsWhole
<1> HIDE DEF M
<1>4. view' = PreSummary(m) /\ artifacts' = artifacts \cup (Large(Restored(M)) \cup Large(m))
  BY DEF Ask, Persist, M
<1>5. Whole(m, M, d)
  BY DEF M
<1>6. Last(m).kind = "result" => MaxMessages - KeepHead > 1
  BY <1>1, <1>5, LastOfWhole
<1>7. /\ view' \in Seq(Item) /\ Faithful(view', M, prompt)
      /\ \A i \in 1..Len(view') : view'[i].kind = "reference" => view'[i].at \in Large(m)
  BY <1>1, <1>2, <1>4, <1>5, <1>6, PreSummaryIsFaithful
<1>8. Large(Restored(M)) \subseteq DOMAIN transcript /\ Large(m) \subseteq DOMAIN transcript
  <2>1. ASSUME NEW v, NEW e, Whole(v, M, e)
        PROVE  Large(v) \subseteq DOMAIN transcript
    <3>1. Large(v) \subseteq {Len(M)} /\ (Large(v) # {} => Last(M).kind = "result")
      BY <1>1, <2>1, LastOfWhole
    <3>2. CASE Large(v) = {}
      BY <3>2
    <3>3. CASE Large(v) # {}
      <4>1. Len(extra) = 0
        BY <1>1, <3>1, <3>3
      <4>2. Len(M) \in DOMAIN transcript
        BY <1>1, <1>2, <4>1
      <4> QED BY <3>1, <4>2
    <3> QED BY <3>2, <3>3
  <2> QED BY <1>3, <1>5, <2>1
<1> QED BY <1>4, <1>7, <1>8 DEF ConversationTypeOK, M

LEMMA AppendedNotes ==
  ASSUME ConversationTypeOK, NEW kind \in {"prompt", "use", "result", "text"},
         NEW notes, notes \subseteq Commands, AppendMessage(kind, notes), NEW c
  PROVE  Noted(transcript', c) =
           Noted(transcript, c) \cup (IF c \in notes THEN {Len(transcript) + 1} ELSE {})
<1> DEFINE n == Len(transcript)
<1>1. n \in Nat /\ DOMAIN transcript = 1..n
  BY ConversationTypes, LenProperties
<1>2. /\ transcript' \in Seq(Message) /\ Len(transcript') = n + 1
      /\ \A i \in 1..n : transcript'[i] = transcript[i]
      /\ transcript'[n + 1].notes = notes
  BY AppendedTranscript
<1>3. DOMAIN transcript' = 1..n \cup {n + 1}
  <2>1. DOMAIN transcript' = 1..n + 1
    BY <1>2, LenProperties
  <2> QED BY <1>1, <2>1
<1> QED BY <1>1, <1>2, <1>3 DEF Noted

\* What is drained was told nowhere before.
LEMMA DrainTells ==
  ASSUME taken = {}, \A c \in Commands : Told(c), Drain,
         UNCHANGED <<transcript, command, dropped>>
  PROVE  \A c \in Commands : Told(c)'
<1> SUFFICES ASSUME NEW c \in Commands PROVE Told(c)'
  OBVIOUS
<1>1. Told(c) /\ c \notin taken
  OBVIOUS
<1>2. Noted(transcript, c)' = Noted(transcript, c) /\ dropped' = dropped /\ command' = command
  BY DEF Noted
<1>3. taken' = Ready /\ delivered' = delivered \cup Ready
  BY DEF Drain
<1>4. c \in Ready <=> command[c] = "ended" /\ c \notin delivered
  BY DEF Ready
<1> HIDE DEF Ready
<1>5. CASE c \in Ready
  <2>1. Noted(transcript, c) = {} /\ c \notin dropped
    BY <1>1, <1>4, <1>5 DEF Told
  <2> QED BY <1>2, <1>3, <1>4, <1>5, <2>1 DEF Told
<1>6. CASE c \notin Ready
  <2>1. c \notin taken' /\ (c \in delivered' <=> c \in delivered)
    BY <1>3, <1>6
  <2> QED BY <1>1, <1>2, <2>1 DEF Told
<1> QED BY <1>5, <1>6

\* What is appended is told there.
LEMMA AppendTells ==
  ASSUME ConversationTypeOK, \A c \in Commands : Told(c),
         NEW kind \in {"prompt", "use", "result", "text"}, AppendMessage(kind, taken),
         taken' = {}, UNCHANGED <<command, delivered, dropped>>
  PROVE  \A c \in Commands : Told(c)'
<1> SUFFICES ASSUME NEW c \in Commands PROVE Told(c)'
  OBVIOUS
<1>1. Told(c) /\ taken \subseteq Commands /\ Len(transcript) + 1 \in Nat
  BY ConversationTypes DEF ConversationTypeOK
<1>2. Noted(transcript', c) =
        Noted(transcript, c) \cup (IF c \in taken THEN {Len(transcript) + 1} ELSE {})
  BY <1>1, AppendedNotes
<1>3. CASE c \in taken
  <2>1. Noted(transcript', c) = {Len(transcript) + 1} /\ c \notin dropped
        /\ command[c] \in {"ended", "forgotten"} /\ (command[c] = "ended" => c \in delivered)
    BY <1>1, <1>2, <1>3 DEF Told
  <2>2. \E i \in Nat : Noted(transcript', c) = {i}
    BY <1>1, <2>1
  <2> QED BY <2>1, <2>2 DEF Told
<1>4. CASE c \notin taken
  <2>1. Noted(transcript', c) = Noted(transcript, c)
    BY <1>2, <1>4
  <2> QED BY <1>1, <1>4, <2>1 DEF Told
<1> QED BY <1>3, <1>4

\* What a Run has drained and does not append is dropped.
LEMMA DropTells ==
  ASSUME \A c \in Commands : Told(c), taken' = {}, dropped' = dropped \cup taken,
         UNCHANGED transcript,
         UNCHANGED <<command, delivered>>
           \/ /\ \A c \in Commands : command'[c] = IF command[c] = "none" THEN "none"
                                                                         ELSE "forgotten"
              /\ delivered' = {}
  PROVE  \A c \in Commands : Told(c)'
<1> SUFFICES ASSUME NEW c \in Commands PROVE Told(c)'
  OBVIOUS
<1>1. Told(c) /\ Noted(transcript, c)' = Noted(transcript, c)
  BY DEF Noted
<1>2. /\ c \in delivered' => c \in delivered
      /\ command'[c] = "ended" => command[c] = "ended" /\ (c \in delivered' <=> c \in delivered)
      /\ command[c] \in {"ended", "forgotten"} => command'[c] \in {"ended", "forgotten"}
  OBVIOUS
<1>3. c \notin taken' /\ (c \in dropped' <=> c \in dropped \/ c \in taken)
  OBVIOUS
<1> QED BY <1>1, <1>2, <1>3 DEF Told

-----------------------------------------------------------------------------
(* Every step preserves the invariant.                                      *)

LEMMA NoTurnsYet ==
  0 \in 0..MaxTurns /\ 0 \in 0..MaxPrompts /\ 0 \in Nat
BY ConversationAssumption

LEMMA ConversationStarts ==
  ASSUME ConversationInit
  PROVE  ConversationInv
<1> USE DEF ConversationInit
<1>1. <<>> \in Seq(Message) /\ Len(<<>>) = 0 /\ <<>> \in Seq(Item)
  BY EmptySeq
<1>2. DOMAIN transcript = {}
  BY <1>1, LenProperties
<1>3. ConversationTypeOK
  <2>1. transcript \in Seq(Message) /\ checkpoint \in Seq(Message) /\ extra \in Seq(Message)
        /\ view \in Seq(Item)
    BY <1>1
  <2>2. command \in [Commands -> {"none", "running", "ended", "forgotten"}]
    OBVIOUS
  <2>3. turn \in 0..MaxTurns /\ prompts \in 0..MaxPrompts /\ prompt \in Nat
    BY NoTurnsYet
  <2>4. /\ artifacts = {} /\ step \in Steps /\ forced \in BOOLEAN /\ retried \in BOOLEAN
        /\ taken = {} /\ delivered = {} /\ dropped = {}
    BY DEF Steps
  <2> QED BY <2>1, <2>2, <2>3, <2>4 DEF ConversationTypeOK
<1>4. Story(transcript) /\ Written /\ ViewSound
  BY <1>1 DEF Story, Written, ViewSound
<1>5. CheckpointSound
  BY <1>1 DEF CheckpointSound
<1>6. Telling
  BY <1>2 DEF Telling, Told, Noted
<1> QED BY <1>3, <1>4, <1>5, <1>6 DEF ConversationInv

LEMMA UnappendedIsSound ==
  ASSUME ConversationInv, UNCHANGED transcript
  PROVE  /\ Story(transcript)' /\ Len(transcript') = Len(transcript)
         /\ UNCHANGED checkpoint => CheckpointSound'
BY DEF ConversationInv, Story, CheckpointSound, Last

LEMMA CommandsKeep ==
  ASSUME ConversationInv, CommandStep
  PROVE  ConversationInv'
<1>1. PICK c \in Commands : StartCommand(c) \/ EndCommand(c)
  BY DEF CommandStep
<1>2. /\ command' \in [Commands -> {"none", "running", "ended", "forgotten"}]
      /\ command[c] \in {"none", "running"}
      /\ \A d \in Commands : d # c => command'[d] = command[d]
      /\ UNCHANGED <<transcript, checkpoint, artifacts, step, taken, delivered, prompts, dropped>>
      /\ UNCHANGED runVars
  BY <1>1 DEF StartCommand, EndCommand, ConversationInv, ConversationTypeOK
<1>3. ConversationTypeOK'
  BY <1>2 DEF ConversationInv, ConversationTypeOK, runVars
<1>4. Written' /\ ViewSound'
  BY <1>2 DEF ConversationInv, Written, Continued, ViewSound, Messages, Last, runVars
<1>5. Story(transcript)' /\ CheckpointSound'
  BY <1>2, UnappendedIsSound
<1>6. Telling'
  <2>1. \A d \in Commands : Told(d)'
    <3> SUFFICES ASSUME NEW d \in Commands PROVE Told(d)'
      OBVIOUS
    <3>1. Told(d) /\ Noted(transcript, d)' = Noted(transcript, d)
      BY <1>2 DEF ConversationInv, Telling, Noted
    <3> QED BY <1>2, <3>1 DEF Told
  <2> QED BY <1>2, <2>1 DEF ConversationInv, Telling
<1> QED BY <1>3, <1>4, <1>5, <1>6 DEF ConversationInv

LEMMA BeginRunKeeps ==
  ASSUME ConversationInv, BeginRun
  PROVE  ConversationInv'
<1>1. Ready \subseteq Commands
  BY DEF Ready
<1>2. ConversationTypeOK'
  BY <1>1, ConversationAssumption
  DEF BeginRun, Drain, ConversationInv, ConversationTypeOK, Steps, runVars
<1>3. Written' /\ ViewSound'
  BY DEF BeginRun, ConversationInv, Written, ViewSound, runVars
<1>4. Story(transcript)' /\ CheckpointSound'
  BY UnappendedIsSound DEF BeginRun
<1>5. Telling'
  BY DrainTells DEF BeginRun, ConversationInv, Telling
<1> QED BY <1>2, <1>3, <1>4, <1>5 DEF ConversationInv

LEMMA AppendPromptKeeps ==
  ASSUME ConversationInv, AppendPrompt
  PROVE  ConversationInv'
<1> USE DEF AppendPrompt, ConversationInv
<1>1. taken \subseteq Commands /\ Len(transcript) \in Nat
  BY ConversationTypes DEF ConversationTypeOK
<1>2. /\ transcript' \in Seq(Message) /\ Len(transcript') = Len(transcript) + 1
      /\ DOMAIN transcript \subseteq DOMAIN transcript'
      /\ transcript'[Len(transcript) + 1].kind = "prompt"
  BY <1>1, AppendedTranscript
<1>3. ConversationTypeOK'
  BY <1>1, <1>2 DEF ConversationTypeOK, Steps
<1>4. Written'
  <2>1. turn = 0 /\ extra = <<>> /\ turn' = turn /\ extra' = extra
    BY DEF Written
  <2>2. MaxTurns > 0 /\ MaxContinuations \in Nat
    BY ConversationAssumption
  <2>3. prompt' = Len(transcript) + 1 /\ prompt' > 0 /\ Len(transcript') = prompt' + 2 * 0
    BY <1>1, <1>2
  <2>4. Continued'
    <3>1. Len(extra') = 0 /\ 0 = 2 * 0
      BY <2>1
    <3> QED BY <2>2, <3>1 DEF Continued
  <2> QED BY <1>2, <2>1, <2>2, <2>3, <2>4 DEF Written, Last
<1>5. Story(transcript)' /\ CheckpointSound'
  BY <1>1, AppendedStory, AppendedCheckpoint
<1>6. Telling' /\ ViewSound'
  BY AppendTells DEF Telling, ViewSound
<1> QED BY <1>3, <1>4, <1>5, <1>6

LEMMA ResetKeeps ==
  ASSUME ConversationInv, Reset, UNCHANGED <<transcript, checkpoint, artifacts, prompts>>,
         command' \in [Commands -> {"none", "running", "ended", "forgotten"}],
         delivered' \subseteq Commands, dropped' \subseteq Commands,
         \A c \in Commands : Told(c)'
  PROVE  ConversationInv'
<1>1. <<>> \in Seq(Message) /\ <<>> \in Seq(Item)
  BY EmptySeq
<1>2. ConversationTypeOK'
  BY <1>1, NoTurnsYet DEF Reset, ConversationInv, ConversationTypeOK, Steps
<1>3. Written' /\ ViewSound'
  BY DEF Reset, Written, ViewSound
<1>4. Story(transcript)' /\ CheckpointSound'
  BY UnappendedIsSound
<1>5. Telling'
  BY DEF Reset, Telling
<1> QED BY <1>2, <1>3, <1>4, <1>5 DEF ConversationInv

LEMMA EndsKeep ==
  ASSUME ConversationInv, FailPrompt \/ CompletePrompt \/ Restart
  PROVE  ConversationInv'
<1>1. Reset /\ UNCHANGED <<transcript, checkpoint, artifacts, prompts>> /\ taken' = {}
  BY DEF FailPrompt, CompletePrompt, Restart, Reset
<1>2. /\ command' \in [Commands -> {"none", "running", "ended", "forgotten"}]
      /\ delivered' \subseteq Commands /\ dropped' \subseteq Commands
  BY DEF FailPrompt, CompletePrompt, Restart, ConversationInv, ConversationTypeOK
<1>3. dropped' = dropped \cup taken
  BY DEF FailPrompt, CompletePrompt, Restart, ConversationInv, Telling
<1>4. \/ UNCHANGED <<command, delivered>>
      \/ /\ \A c \in Commands : command'[c] = IF command[c] = "none" THEN "none"
                                                                    ELSE "forgotten"
         /\ delivered' = {}
  BY DEF FailPrompt, CompletePrompt, Restart
<1>5. \A c \in Commands : Told(c)'
  BY <1>1, <1>3, <1>4, DropTells DEF ConversationInv, Telling
<1> QED BY <1>1, <1>2, <1>5, ResetKeeps

\* A request: what it saves as a checkpoint is a beginning of the history.
LEMMA AskKeeps ==
  ASSUME ConversationInv, step = "asking", checkpoint = <<>> \/ Matches(Messages),
         NEW m, NEW d, Whole(m, Messages, d), Ask(m), UNCHANGED forced,
         checkpoint' \in Seq(Message), CheckpointSound'
  PROVE  ConversationInv'
<1> USE DEF ConversationInv
<1>1. /\ view' \in Seq(Item) /\ artifacts' \subseteq DOMAIN transcript
      /\ Faithful(view', Messages, prompt)
      /\ \A i \in 1..Len(view') : view'[i].kind = "reference" => view'[i].at \in artifacts'
  BY AskedView
<1>2. /\ UNCHANGED <<transcript, turn, prompt, extra, retried, taken, command, delivered,
                     prompts, dropped>>
      /\ step' = "waiting"
  BY DEF Ask
<1>3. ConversationTypeOK'
  BY <1>1, <1>2 DEF ConversationTypeOK, Steps
<1>4. Written'
  BY <1>2 DEF Written, Continued, Last
<1>5. Telling'
  BY <1>2 DEF Telling, Told, Noted
<1>6. ViewSound'
  BY <1>1, <1>2 DEF ViewSound, Messages
<1>7. Story(transcript)'
  BY <1>2, UnappendedIsSound
<1> QED BY <1>3, <1>4, <1>5, <1>6, <1>7

LEMMA AskPlainlyKeeps ==
  ASSUME ConversationInv, AskPlainly
  PROVE  ConversationInv'
<1>1. /\ step = "asking" /\ (checkpoint = <<>> \/ Matches(Messages))
      /\ Ask(Restored(Messages)) /\ UNCHANGED <<checkpoint, forced>>
  BY DEF AskPlainly
<1>2. Sequel(Messages)
  BY <1>1, RequestHistory DEF ConversationInv
<1>3. checkpoint \in Seq(Message) /\ Len(checkpoint) \in Nat
  BY ConversationTypes DEF ConversationInv
<1>4. PICK d : Whole(Restored(Messages), Messages, d)
  BY <1>1, <1>2, <1>3, RestoredIsWhole
<1>5. CheckpointSound'
  BY <1>1, UnappendedIsSound DEF Ask
<1> DEFINE m == Restored(Messages)
<1>6. Whole(m, Messages, d) /\ Ask(m)
  BY <1>1, <1>4
<1> HIDE DEF m
<1> QED BY <1>1, <1>3, <1>5, <1>6, AskKeeps

LEMMA AskSummarisedKeeps ==
  ASSUME ConversationInv, AskSummarised
  PROVE  ConversationInv'
<1>1. step = "asking" /\ (checkpoint = <<>> \/ Matches(Messages)) /\ UNCHANGED forced
  BY DEF AskSummarised
<1>2. Sequel(Messages)
  BY <1>1, RequestHistory DEF ConversationInv
<1>3. /\ checkpoint \in Seq(Message) /\ transcript \in Seq(Message)
      /\ Len(transcript) \in Nat
  BY ConversationTypes DEF ConversationInv
<1>4. CASE RebuildAllowed
  <2>1. Messages = transcript
    BY <1>4, NoExtra DEF RebuildAllowed, ConversationInv
  <2> DEFINE n == SafeBoundary(transcript, DesiredCoverage(transcript))
             c == First(transcript, n)
             m == CheckpointView(transcript, n)
  <2>2. n > 0 /\ checkpoint' = c /\ Ask(m)
    BY <1>4, <2>1 DEF AskSummarised, SaveCheckpoint
  <2>3. n \in 0..Len(transcript) /\ ~SplitsExchange(transcript, n)
    BY <1>3, DesiredCoverageIsCoverage, SafeBoundaryIsSafe
  <2> HIDE DEF n
  <2>4. n \in 1..Len(transcript) /\ n \in Nat
    BY <1>3, <2>2, <2>3
  <2>5. Whole(m, Messages, n - 1)
    BY <1>2, <2>1, <2>3, <2>4, CheckpointIsWhole
  <2>6. /\ c \in Seq(Message) /\ Len(c) = n
        /\ \A i \in 1..n : c[i] = transcript[i]
    BY <1>3, <2>3, FirstElements
  <2>7. UNCHANGED transcript
    BY <2>2 DEF Ask
  <2>8. CheckpointSound'
    <3>1. n \in 1..n /\ n <= Len(transcript)
      BY <1>3, <2>4
    <3>2. Last(c) = transcript[n]
      BY <2>6, <3>1 DEF Last
    <3> HIDE DEF c
    <3>3. ASSUME transcript[n].kind = "use"
          PROVE  n < Len(transcript) /\ transcript[n + 1].kind # "result"
      <4>1. n # Len(transcript)
        BY <1>2, <2>1, <3>3 DEF Sequel, Last
      <4>2. n < Len(transcript)
        BY <1>3, <2>4, <4>1
      <4> QED BY <2>3, <2>4, <3>3, <4>2 DEF SplitsExchange
    <3> QED BY <2>2, <2>6, <2>7, <3>1, <3>2, <3>3 DEF CheckpointSound
  <2> HIDE DEF m, c
  <2> QED BY <1>1, <2>2, <2>5, <2>6, <2>8, AskKeeps
<1>5. CASE ~RebuildAllowed
  <2> DEFINE m == Summary(Len(Messages))
  <2>1. Ask(m) /\ UNCHANGED checkpoint
    BY <1>5 DEF AskSummarised
  <2>2. Whole(m, Messages, Len(Messages) - 1)
    BY <1>2, SummaryIsWhole
  <2>3. CheckpointSound'
    BY <2>1, UnappendedIsSound DEF Ask
  <2> HIDE DEF m
  <2> QED BY <1>1, <1>3, <2>1, <2>2, <2>3, AskKeeps
<1> QED BY <1>4, <1>5

LEMMA RejectKeeps ==
  ASSUME ConversationInv, RejectRequest
  PROVE  ConversationInv'
<1> USE DEF RejectRequest, ConversationInv
<1>1. <<>> \in Seq(Item)
  BY EmptySeq
<1>2. ConversationTypeOK'
  BY <1>1 DEF ConversationTypeOK, Steps
<1>3. Written' /\ ViewSound'
  BY DEF Written, Continued, Last, ViewSound
<1>4. Story(transcript)' /\ CheckpointSound'
  BY UnappendedIsSound
<1>5. Telling'
  BY DEF Telling, Told, Noted
<1> QED BY <1>2, <1>3, <1>4, <1>5

LEMMA PairAppended ==
  ASSUME NEW S, NEW s \in Seq(S), NEW a \in S, NEW b \in S
  PROVE  LET t == s \o <<a, b>> IN
         /\ t \in Seq(S) /\ Len(t) = Len(s) + 2
         /\ \A i \in 1..Len(s) : t[i] = s[i]
         /\ t[Len(s) + 1] = a /\ t[Len(s) + 2] = b
<1> DEFINE K == <<a, b>>
           t == s \o K
<1>1. Len(s) \in Nat
  BY LenProperties
<1>2. K \in Seq(S) /\ Len(K) = 2 /\ K[1] = a /\ K[2] = b
  OBVIOUS
<1> HIDE DEF K
<1>3. /\ t \in Seq(S) /\ Len(t) = Len(s) + Len(K)
      /\ \A i \in 1..Len(s) + Len(K) : t[i] = IF i <= Len(s) THEN s[i] ELSE K[i - Len(s)]
  BY <1>2, ConcatProperties
<1> HIDE DEF t
<1>4. Len(t) = Len(s) + 2
  BY <1>2, <1>3
<1>5. \A i \in 1..Len(s) : t[i] = s[i]
  BY <1>1, <1>2, <1>3
<1>6. t[Len(s) + 1] = K[1]
  <2>1. Len(s) + 1 \in 1..Len(s) + Len(K) /\ ~(Len(s) + 1 <= Len(s)) /\ (Len(s) + 1) - Len(s) = 1
    BY <1>1, <1>2
  <2> QED BY <1>3, <2>1
<1>7. t[Len(s) + 2] = K[2]
  <2>1. Len(s) + 2 \in 1..Len(s) + Len(K) /\ ~(Len(s) + 2 <= Len(s)) /\ (Len(s) + 2) - Len(s) = 2
    BY <1>1, <1>2
  <2> QED BY <1>3, <2>1
<1> QED BY <1>2, <1>3, <1>4, <1>5, <1>6, <1>7 DEF t, K

\* Two messages more of a continuation.
LEMMA ContinuedFurther ==
  ASSUME ConversationTypeOK, Continued, Len(extra) < 2 * MaxContinuations,
         Len(Messages) = Len(transcript) + Len(extra), UNCHANGED transcript,
         extra' = extra \o <<ItemOf("text", Len(Messages) + 1), ItemOf("prompt", Len(Messages) + 2)>>
  PROVE  extra' \in Seq(Message) /\ Continued'
<1> DEFINE n == Len(transcript)
           e == Len(extra)
           first == ItemOf("text", Len(Messages) + 1)
           second == ItemOf("prompt", Len(Messages) + 2)
<1>1. n \in Nat /\ e \in Nat /\ extra \in Seq(Message)
  BY ConversationTypes
<1>2. /\ first \in Message /\ first.kind = "text" /\ first.at = n + e + 1
      /\ second \in Message /\ second.kind = "prompt" /\ second.at = n + e + 2
  BY <1>1 DEF ItemOf, Message
<1>3. extra' = extra \o <<first, second>>
  OBVIOUS
<1> HIDE DEF first, second
<1>4. /\ extra' \in Seq(Message) /\ Len(extra') = Len(extra) + 2
      /\ \A i \in 1..Len(extra) : extra'[i] = extra[i]
      /\ extra'[Len(extra) + 1] = first /\ extra'[Len(extra) + 2] = second
  BY <1>1, <1>2, <1>3, PairAppended
<1>5. /\ e + 2 <= 2 * MaxContinuations
      /\ \E k \in Nat : e + 2 = 2 * k
  <2>1. PICK k \in Nat : e = 2 * k
    BY DEF Continued
  <2>2. 2 * k < 2 * MaxContinuations /\ MaxContinuations \in Nat
    BY <2>1, ConversationAssumption
  <2>3. e + 2 = 2 * (k + 1) /\ k + 1 \in Nat
    BY <2>1
  <2>4. 2 * (k + 1) <= 2 * MaxContinuations
    BY <2>2
  <2> HIDE DEF e
  <2> QED BY <2>3, <2>4
<1>6. ASSUME NEW i \in 1..e + 2
      PROVE  extra'[i].at = n + i /\ extra'[i].kind \in {"text", "prompt"}
  <2>1. i \in 1..e \/ i = e + 1 \/ i = e + 2
    <3> HIDE DEF e
    <3> QED BY <1>1
  <2>2. CASE i \in 1..e
    BY <1>4, <2>2 DEF Continued
  <2>3. CASE i = e + 1
    <3>1. n + i = n + e + 1
      BY <1>1, <2>3
    <3> QED BY <1>2, <1>4, <2>3, <3>1
  <2>4. CASE i = e + 2
    <3>1. n + i = n + e + 2
      BY <1>1, <2>4
    <3> QED BY <1>2, <1>4, <2>4, <3>1
  <2> QED BY <2>1, <2>2, <2>3, <2>4
<1> QED BY <1>4, <1>5, <1>6 DEF Continued

LEMMA TruncateKeeps ==
  ASSUME ConversationInv, TruncateAnswer
  PROVE  ConversationInv'
<1> USE DEF TruncateAnswer, ConversationInv
<1>1. Len(Messages) = Len(transcript) + Len(extra)
  BY RequestHistory
<1>2. <<>> \in Seq(Item) /\ extra \in Seq(Message) /\ Continued
  BY EmptySeq, ConversationTypes DEF Written
<1>3. extra' \in Seq(Message) /\ Continued'
  <2>1. CASE UNCHANGED extra
    BY <1>2, <2>1 DEF Continued
  <2>2. CASE ~UNCHANGED extra
    BY <1>1, <1>2, <2>2, ContinuedFurther
  <2> QED BY <2>1, <2>2
<1>4. ConversationTypeOK'
  BY <1>2, <1>3 DEF ConversationTypeOK, Steps
<1>5. Written' /\ ViewSound'
  BY <1>3 DEF Written, Last, ViewSound
<1>6. Story(transcript)' /\ CheckpointSound'
  BY UnappendedIsSound
<1>7. Telling'
  BY DEF Telling, Told, Noted
<1> QED BY <1>4, <1>5, <1>6, <1>7

LEMMA AnswersKeep ==
  ASSUME ConversationInv, AnswerWithTools \/ AnswerWithText
  PROVE  ConversationInv'
<1> USE DEF ConversationInv
<1>1. step = "waiting" /\ UNCHANGED <<checkpoint, artifacts, prompt, taken, command, delivered,
                                     prompts, dropped>>
  BY DEF AnswerWithTools, AnswerWithText, Answered
<1>2. extra' = <<>> /\ forced' = FALSE /\ retried' = FALSE /\ view' = <<>>
  BY DEF AnswerWithTools, AnswerWithText, Answered
<1>3. PICK kind \in {"use", "text"} : AppendMessage(kind, {})
  BY DEF AnswerWithTools, AnswerWithText
<1>4. /\ kind \in {"prompt", "use", "result", "text"} /\ kind # "result"
      /\ {} \subseteq Commands
  OBVIOUS
<1>5. /\ transcript' \in Seq(Message) /\ Len(transcript') = Len(transcript) + 1
      /\ DOMAIN transcript \subseteq DOMAIN transcript'
      /\ transcript'[Len(transcript) + 1].kind = kind
  BY <1>3, <1>4, AppendedTranscript
<1>6. /\ turn < MaxTurns /\ prompt > 0 /\ Len(transcript) = prompt + 2 * turn
      /\ turn \in Nat /\ prompt \in Nat /\ MaxTurns \in Nat /\ Len(transcript) \in Nat
  BY <1>1, ConversationTypes, ConversationAssumption DEF Written
<1>7. /\ step' \in {"tools", "ending"} /\ turn' \in 0..MaxTurns
      /\ step' = "tools" => turn' = turn + 1 /\ kind = "use"
  <2>1. CASE AnswerWithTools
    <3>1. step' = "tools" /\ turn' = turn + 1 /\ AppendMessage("use", {})
      BY <2>1 DEF AnswerWithTools, Answered
    <3>2. transcript'[Len(transcript) + 1].kind = "use"
      BY <1>4, <3>1, AppendedTranscript
    <3>3. turn' \in 0..MaxTurns
      BY <1>6, <3>1
    <3> QED BY <1>5, <3>1, <3>2, <3>3
  <2>2. CASE AnswerWithText
    <3>1. step' = "ending" /\ turn' = turn
      BY <2>2 DEF AnswerWithText, Answered
    <3>2. turn' \in 0..MaxTurns
      BY <1>6, <3>1
    <3> QED BY <3>1, <3>2
  <2> QED BY <2>1, <2>2
<1>8. ConversationTypeOK'
  <2>1. <<>> \in Seq(Message) /\ <<>> \in Seq(Item)
    BY EmptySeq
  <2>2. step' \in Steps
    BY <1>7 DEF Steps
  <2> QED BY <1>1, <1>2, <1>5, <1>7, <2>1, <2>2 DEF ConversationTypeOK
<1>9. Written' /\ ViewSound'
  <2>1. CASE step' = "tools"
    <3>1. turn' > 0 /\ Len(transcript') = prompt' + 2 * turn' - 1 /\ prompt' > 0
      BY <1>1, <1>5, <1>6, <1>7, <2>1
    <3>2. Last(transcript').kind = "use"
      BY <1>5, <1>7, <2>1 DEF Last
    <3> QED BY <1>2, <2>1, <3>1, <3>2 DEF Written, ViewSound
  <2>2. CASE step' = "ending"
    BY <1>2, <2>2 DEF Written, ViewSound
  <2> QED BY <1>7, <2>1, <2>2
<1>10. Story(transcript)' /\ CheckpointSound'
  BY <1>1, <1>3, <1>4, AppendedStory, AppendedCheckpoint
<1>11. Telling'
  <2>1. taken = {} /\ taken' = {}
    BY <1>1 DEF Telling
  <2>2. AppendMessage(kind, taken)
    BY <1>3, <2>1
  <2>3. \A c \in Commands : Told(c)'
    BY <1>1, <1>4, <2>1, <2>2, AppendTells DEF Telling
  <2> QED BY <2>1, <2>3 DEF Telling
<1> QED BY <1>8, <1>9, <1>10, <1>11

LEMMA EndToolsKeeps ==
  ASSUME ConversationInv, EndTools
  PROVE  ConversationInv'
<1> USE DEF EndTools, ConversationInv
<1>1. Ready \subseteq Commands
  BY DEF Ready
<1>2. ConversationTypeOK'
  BY <1>1 DEF Drain, ConversationTypeOK, Steps
<1>3. Written' /\ ViewSound'
  BY DEF Written, ViewSound, Last
<1>4. Story(transcript)' /\ CheckpointSound'
  BY UnappendedIsSound
<1>5. Telling'
  BY DrainTells DEF Telling
<1> QED BY <1>2, <1>3, <1>4, <1>5

LEMMA AppendResultsKeeps ==
  ASSUME ConversationInv, AppendResults
  PROVE  ConversationInv'
<1> USE DEF ConversationInv
<1>1. /\ step = "results" /\ AppendMessage("result", taken)
      /\ UNCHANGED <<checkpoint, artifacts, command, delivered, prompts, dropped>>
      /\ taken' = {} /\ step' \in {"idle", "asking"}
  BY DEF AppendResults, Reset
<1>2. /\ turn > 0 /\ prompt > 0 /\ Len(transcript) = prompt + 2 * turn - 1
      /\ Last(transcript).kind = "use" /\ extra = <<>>
      /\ turn \in Nat /\ turn <= MaxTurns /\ prompt \in Nat /\ Len(transcript) \in Nat
      /\ taken \subseteq Commands
  BY <1>1, ConversationTypes DEF Written, ConversationTypeOK
<1>3. /\ transcript' \in Seq(Message) /\ Len(transcript') = Len(transcript) + 1
      /\ DOMAIN transcript \subseteq DOMAIN transcript'
      /\ transcript'[Len(transcript) + 1].kind = "result"
  BY <1>1, <1>2, AppendedTranscript
<1>4. Len(transcript) > 0
  BY <1>2
<1>5. Story(transcript)' /\ CheckpointSound'
  BY <1>1, <1>2, <1>4, AppendedStory, AppendedCheckpoint
<1>6. Telling'
  BY <1>1, AppendTells DEF Telling
<1>7. \/ Reset
      \/ step' = "asking" /\ UNCHANGED runVars /\ ~OutOfTurns
  BY DEF AppendResults
<1>8. ConversationTypeOK'
  <2>1. <<>> \in Seq(Message) /\ <<>> \in Seq(Item) /\ step' \in Steps
    BY <1>1, EmptySeq DEF Steps
  <2>2. CASE Reset
    BY <1>1, <1>3, <2>1, <2>2, NoTurnsYet DEF Reset, ConversationTypeOK
  <2>3. CASE UNCHANGED runVars
    BY <1>1, <1>3, <2>1, <2>3 DEF runVars, ConversationTypeOK
  <2> QED BY <1>7, <2>2, <2>3
<1>9. Written' /\ ViewSound'
  <2>1. CASE Reset
    BY <2>1 DEF Reset, Written, ViewSound
  <2>2. CASE step' = "asking" /\ UNCHANGED runVars /\ ~OutOfTurns
    <3>1. /\ turn' = turn /\ prompt' = prompt /\ extra' = <<>>
      BY <1>2, <2>2 DEF runVars
    <3>2. turn' < MaxTurns /\ prompt' > 0 /\ turn' # 0
      BY <1>2, <2>2, <3>1, ConversationAssumption DEF OutOfTurns
    <3>3. Len(transcript') = prompt' + 2 * turn'
      BY <1>2, <1>3, <3>1
    <3>4. Last(transcript').kind = "result"
      BY <1>3 DEF Last
    <3>5. Continued'
      <4>1. Len(extra') = 0 /\ 0 = 2 * 0 /\ 0 <= 2 * MaxContinuations
        BY <3>1, ConversationAssumption
      <4> QED BY <4>1 DEF Continued
    <3> QED BY <2>2, <3>1, <3>2, <3>3, <3>4, <3>5 DEF Written, ViewSound
  <2> QED BY <1>7, <2>1, <2>2
<1> QED BY <1>5, <1>6, <1>8, <1>9

LEMMA ConversationStep ==
  ASSUME ConversationInv, [ConversationNext]_conversationVars
  PROVE  ConversationInv'
<1>1. CASE CommandStep
  BY <1>1, CommandsKeep
<1>2. CASE PromptStep
  BY <1>2, BeginRunKeeps, AppendPromptKeeps, EndsKeep DEF PromptStep
<1>3. CASE RequestStep
  BY <1>3, AskPlainlyKeeps, AskSummarisedKeeps, RejectKeeps, TruncateKeeps DEF RequestStep
<1>4. CASE AnswerStep
  BY <1>4, AnswersKeep, EndToolsKeeps, AppendResultsKeeps DEF AnswerStep
<1>5. CASE Restart
  BY <1>5, EndsKeep
<1>6. CASE UNCHANGED conversationVars
  <2> USE <1>6 DEF conversationVars, ConversationInv
  <2>1. ConversationTypeOK'
    BY DEF ConversationTypeOK
  <2>2. Story(transcript)' /\ CheckpointSound'
    BY UnappendedIsSound
  <2>3. Written'
    BY DEF Written, Continued, Last
  <2>4. Telling'
    BY DEF Telling, Told, Noted
  <2>5. ViewSound'
    BY DEF ViewSound, Messages
  <2> QED BY <2>1, <2>2, <2>3, <2>4, <2>5
<1> QED BY <1>1, <1>2, <1>3, <1>4, <1>5, <1>6 DEF ConversationNext

\* The invariant holds from the beginning on.
LEMMA ConversationInvariant == ConversationSpec => []ConversationInv
<1>1. ConversationInit => ConversationInv
  BY ConversationStarts
<1>2. ConversationInv /\ [ConversationNext]_conversationVars => ConversationInv'
  BY ConversationStep
<1> QED BY <1>1, <1>2, PTL DEF ConversationSpec

-----------------------------------------------------------------------------
(* The theorems. *)

\* The state of the conversation is well formed: what the views are made of as well,
\* and what has been kept whole outside a request is a message of the transcript.
THEOREM ConversationTypeCorrect == ConversationSpec => []ConversationTypeOK
<1>1. ConversationInv => ConversationTypeOK
  BY DEF ConversationInv
<1> QED BY <1>1, ConversationInvariant, PTL

LEMMA InvIsFaithful ==
  ASSUME ConversationInv
  PROVE  ViewFaithful
<1> SUFFICES ASSUME step = "waiting"
             PROVE  LET messages == Messages IN
               /\ view[1].kind = "summary" \/ view[1].at = 1
               /\ view[Len(view)].at = Len(messages)
               /\ \A i \in 2..Len(view) :
                     IF view[i].kind = "gap"
                       THEN view[i - 1].at < view[i].at /\ view[i].at < prompt
                       ELSE view[i].at = view[i - 1].at + 1
               /\ \A i \in DOMAIN view :
                     /\ view[i].kind \in Results =>
                           i > 1 /\ view[i - 1].kind = "use"
                     /\ view[i].kind = "use" /\ messages[view[i].at + 1].kind = "result" =>
                           view[i + 1].kind \in Results
                     /\ view[i].kind = "reference" => view[i].at \in artifacts
  BY DEF ViewFaithful
<1>1. DOMAIN view = 1..Len(view)
  BY LenProperties DEF ConversationInv, ConversationTypeOK
<1>2. /\ Faithful(view, Messages, prompt)
      /\ \A i \in 1..Len(view) : view[i].kind = "reference" => view[i].at \in artifacts
  BY DEF ConversationInv, ViewSound
<1> QED BY <1>1, <1>2 DEF Faithful

\* Whatever the limits are, as long as the messages of one Run fit into the tail of a
\* snipped view, every request tells the whole story in order.
THEOREM RequestsTellTheStory == ConversationSpec => []ViewFaithful
<1>1. ConversationInv => ViewFaithful
  BY InvIsFaithful
<1> QED BY <1>1, ConversationInvariant, PTL

LEMMA InvIsPrefix ==
  ASSUME ConversationInv
  PROVE  CheckpointIsPrefix
<1> DEFINE l == Len(checkpoint)
<1>1. /\ checkpoint \in Seq(Message) /\ l \in Nat
      /\ transcript \in Seq(Message) /\ Len(transcript) \in Nat
  BY ConversationTypes DEF ConversationInv
<1>2. l <= Len(transcript) /\ \A i \in 1..l : checkpoint[i] = transcript[i]
  BY DEF ConversationInv, CheckpointSound
<1>3. l \in 0..Len(transcript)
  BY <1>1, <1>2
<1>4. checkpoint = First(transcript, l)
  <2> DEFINE f == First(transcript, l)
  <2>1. f \in Seq(Message) /\ Len(f) = l /\ \A i \in 1..l : f[i] = transcript[i]
    BY <1>1, <1>3, FirstElements
  <2> HIDE DEF f
  <2>2. checkpoint = f
    BY <1>1, <1>2, <2>1, SeqEqual
  <2> QED BY <2>2 DEF f
<1>5. ~SplitsExchange(transcript, l)
  <2> SUFFICES ASSUME SplitsExchange(transcript, l) PROVE FALSE
    OBVIOUS
  <2>1. l > 0 /\ transcript[l].kind = "use" /\ transcript[l + 1].kind = "result"
    BY <1>1 DEF SplitsExchange
  <2>2. l \in 1..l
    BY <1>1, <2>1
  <2>3. Last(checkpoint).kind = "use"
    BY <1>2, <2>1, <2>2 DEF Last
  <2> QED BY <2>1, <2>3 DEF ConversationInv, CheckpointSound
<1> QED BY <1>2, <1>4, <1>5 DEF CheckpointIsPrefix, Matches

\* A checkpoint stands for a beginning of the transcript that no later message spoils.
THEOREM CheckpointsStayPrefixes == ConversationSpec => []CheckpointIsPrefix
<1>1. ConversationInv => CheckpointIsPrefix
  BY InvIsPrefix
<1> QED BY <1>1, ConversationInvariant, PTL

LEMMA InvAnnouncesOnce ==
  ASSUME ConversationInv
  PROVE  AnnouncedOnce
<1> SUFFICES ASSUME NEW c \in Commands
             PROVE  /\ Announcements(c) <= 1
                    /\ c \in delivered => Announcements(c) = 1
                    /\ Announcements(c) = 1 => command[c] \in {"ended", "forgotten"}
  BY DEF AnnouncedOnce
<1>1. Told(c)
  BY DEF ConversationInv, Telling
<1>2. Announcements(c) = Cardinality(Noted(transcript, c))
                           + (IF c \in taken THEN 1 ELSE 0) + (IF c \in dropped THEN 1 ELSE 0)
  BY DEF Announcements, Noted
<1>3. Cardinality({}) = 0 /\ \A i \in Nat : Cardinality({i}) = 1
  BY FS_EmptySet, FS_Singleton
<1> HIDE DEF Announcements
<1>4. CASE Noted(transcript, c) = {} /\ c \notin taken /\ c \notin dropped /\ c \notin delivered
  <2>1. Announcements(c) = 0
    BY <1>2, <1>3, <1>4
  <2> QED BY <1>4, <2>1
<1>5. CASE /\ command[c] \in {"ended", "forgotten"}
           /\ \/ (\E i \in Nat : Noted(transcript, c) = {i}) /\ c \notin taken /\ c \notin dropped
              \/ Noted(transcript, c) = {} /\ c \in taken /\ c \notin dropped
              \/ Noted(transcript, c) = {} /\ c \notin taken /\ c \in dropped
  <2>1. Announcements(c) = 1
    BY <1>2, <1>3, <1>5
  <2> QED BY <1>5, <2>1
<1> QED BY <1>1, <1>4, <1>5 DEF Told

\* The end of a command is announced once or dropped with the Run that drained it,
\* whenever Runs fail and the process stops.
THEOREM EndsAreToldOnce == ConversationSpec => []AnnouncedOnce
<1>1. ConversationInv => AnnouncedOnce
  BY InvAnnouncesOnce
<1> QED BY <1>1, ConversationInvariant, PTL

-----------------------------------------------------------------------------
(* The four parts together. *)

\* The parts of a session share no state: what the specification of all of them
\* allows, that of each allows, so that what is proved of a part holds of the whole
\* and a run of the whole checks each part.
THEOREM SessionIsItsParts ==
  SessionSpec => McpSpec /\ MemorySpec /\ ConversationSpec /\ ToolCallsSpec
<1>1. SessionInit => McpInit /\ MemoryInit /\ ConversationInit /\ ToolCallsInit
  BY DEF SessionInit
<1>2. [SessionNext]_<<part, mcpVars, memoryVars, conversationVars, toolVars>>
        => /\ [McpNext]_mcpVars /\ [MemoryNext]_memoryVars
           /\ [ConversationNext]_conversationVars /\ [ToolCallsNext]_toolVars
  BY DEF SessionNext, McpPart, MemoryPart, ConversationPart, ToolsPart
<1> QED BY <1>1, <1>2, PTL DEF SessionSpec, McpSpec, MemorySpec, ConversationSpec, ToolCallsSpec

\* Every part has its type, in whatever order the parts run.
THEOREM SessionTypeCorrect == SessionSpec => []SessionTypeOK
<1>1. McpTypeOK /\ MemoryTypeOK /\ ConversationTypeOK /\ ToolCallsTypeOK => SessionTypeOK
  BY DEF SessionTypeOK
<1> QED BY <1>1, SessionIsItsParts, McpTypeCorrect, MemoryTypeCorrect, ConversationTypeCorrect,
           ToolCallsTypeCorrect, PTL
=============================================================================
