----------------------------- MODULE MemoryStore -----------------------------
(***************************************************************************)
(* Long-term memory (memory/): one Markdown file per memory, shared by the  *)
(* lead's loop and the members' loop.                                       *)
(*                                                                          *)
(* A Run begins by loading a selection.  When it completes its loop first   *)
(* extracts new memories and saves them one file at a time, then, if there  *)
(* are many, has the model rewrite the whole set and replaces the files.    *)
(* No lock orders two loops, so each write or unlink is a step; whatever    *)
(* fails is logged and does not fail the Run.                               *)
(*                                                                          *)
(* Contents are sets of facts.  The index MEMORY.md is written and never    *)
(* read by the program; it is left out.                                     *)
(***************************************************************************)
EXTENDS Naturals, FiniteSets

CONSTANTS Loops,      \* agent loops: the lead's, the members'
          MemoryIds,  \* names of memories, ordered as numbers are
          Facts,      \* what a memory may say
          Threshold,  \* consolidation starts at this many memories
          MaxItems,   \* memories a Run may load
          MaxRuns,    \* bound on the Runs
          MaxFaults   \* bound on failures of the disk and crashes

ASSUME MemoryAssumption ==
    /\ MemoryIds \subseteq Nat
    /\ Threshold \in Nat \ {0} /\ MaxItems \in Nat \ {0}
    /\ MaxRuns \in Nat /\ MaxFaults \in Nat

VARIABLES
  files,     \* the directory: a function from the names present to facts
  stage,     \* stage[l]: what loop l is doing
  loaded,    \* loaded[l]: the names the Run of l was given
  pending,   \* pending[l]: the files l still has to write
  doomed,    \* doomed[l]: the files l still has to unlink
  runs,      \* how many Runs have begun
  faults,    \* how many faults have happened
  alone,     \* history: alone[l], no other loop was at work on the files
             \*          since l took up its work on them
  owed       \* history: the facts that must be in a file

memoryVars == <<files, stage, loaded, pending, doomed, runs, faults,
                alone, owed>>

-----------------------------------------------------------------------------
Empty == [i \in {} |-> {}]

(* Catalogs and sets of files are functions on some of the names.          *)
Catalogs(S) == UNION {[D -> S] : D \in SUBSET MemoryIds}

FactsOf(catalog) == UNION {catalog[i] : i \in DOMAIN catalog}

With(catalog, i, facts) ==
    [j \in DOMAIN catalog \cup {i} |-> IF j = i THEN facts ELSE catalog[j]]

Without(catalog, i) == [j \in DOMAIN catalog \ {i} |-> catalog[j]]

Stages == {"idle", "running", "extracting", "saving", "consolidating", "replacing",
           "writing"}

AtWork(l) == stage[l] \notin {"idle", "running"}

MemoryTypeOK ==
    /\ files \in Catalogs(SUBSET Facts)
    /\ stage \in [Loops -> Stages]
    /\ loaded \in [Loops -> SUBSET MemoryIds]
    /\ pending \in [Loops -> Catalogs(SUBSET Facts)]
    /\ doomed \in [Loops -> SUBSET MemoryIds]
    /\ runs \in 0..MaxRuns /\ faults \in 0..MaxFaults
    /\ alone \in [Loops -> BOOLEAN]
    /\ owed \subseteq Facts

MemoryInit ==
    /\ files = Empty
    /\ stage = [l \in Loops |-> "idle"]
    /\ loaded = [l \in Loops |-> {}]
    /\ pending = [l \in Loops |-> Empty]
    /\ doomed = [l \in Loops |-> {}]
    /\ runs = 0 /\ faults = 0
    /\ alone = [l \in Loops |-> TRUE]
    /\ owed = {}

-----------------------------------------------------------------------------
(* Every listing reads the file of each name; it raises when one is         *)
(* damaged, or has gone between the scan and the read.                     *)
CanFail(l) ==
    \/ faults < MaxFaults /\ faults' = faults + 1
    \/ (\E m \in Loops \ {l} : doomed[m] # {}) /\ UNCHANGED faults

(* The next stage of l, its work on the files over when it is "idle".      *)
Goto(l, s) == stage' = [stage EXCEPT ![l] = s]

Drop(l) ==
    /\ pending' = [pending EXCEPT ![l] = Empty]
    /\ doomed' = [doomed EXCEPT ![l] = {}]

-----------------------------------------------------------------------------
(* The Run.                                                                *)

(* Names that a selector returns: some of the catalog, at most MaxItems;    *)
(* an unusable answer of the model is replaced by matching words, and what  *)
(* is over the budget is left out, so any such set is possible.            *)
Selections(catalog) ==
    {S \in SUBSET DOMAIN catalog : Cardinality(S) <= MaxItems}

(* A Run begins; a failing load leaves it without memories.                *)
LoadMemories(l) ==
    /\ stage[l] = "idle" /\ runs < MaxRuns
    /\ runs' = runs + 1
    /\ Goto(l, "running")
    /\ \E S \in Selections(files) : loaded' = [loaded EXCEPT ![l] = S]
    /\ UNCHANGED <<files, pending, doomed, faults, alone, owed>>

(* A Run that fails or runs out of turns saves nothing.                    *)
FailRun(l) ==
    /\ stage[l] = "running"
    /\ Goto(l, "idle")
    /\ loaded' = [loaded EXCEPT ![l] = {}]
    /\ UNCHANGED <<files, pending, doomed, runs, faults, alone, owed>>

(* A Run completes and l takes up the files, alone if no other loop is at   *)
(* work on them; one that is is not alone any more.                        *)
CompleteRun(l) ==
    /\ stage[l] = "running"
    /\ Goto(l, "extracting")
    /\ loaded' = [loaded EXCEPT ![l] = {}]
    /\ alone' = IF \E m \in Loops \ {l} : AtWork(m)
                THEN [m \in Loops |-> alone[m] /\ m # l /\ ~AtWork(m)]
                ELSE [alone EXCEPT ![l] = TRUE]
    /\ UNCHANGED <<files, pending, doomed, runs, faults, owed>>

-----------------------------------------------------------------------------
(* Extraction.                                                             *)

\* Mutant: a proposed memory replaces the one of that name.
NewMemoriesAll(catalog, proposed) == proposed

(* The model proposes memories with different names; the names in the       *)
(* catalog it was shown are passed over.                                   *)
NewMemories(catalog, proposed) ==
    [i \in DOMAIN proposed \ DOMAIN catalog |-> proposed[i]]

Proposals == Catalogs({{f} : f \in Facts})

ExtractMemories(l) ==
    /\ stage[l] = "extracting"
    /\ \/ /\ \E proposed \in Proposals :
               pending' = [pending EXCEPT ![l] = NewMemories(files, proposed)]
          /\ Goto(l, "saving")
          /\ UNCHANGED faults
       \/ /\ CanFail(l)
          /\ Goto(l, "consolidating")
          /\ UNCHANGED pending
    /\ UNCHANGED <<files, loaded, doomed, runs, alone, owed>>

(* A file is replaced in one step.  What was in it is owed no longer only   *)
(* if two loops are at work together.                                      *)
WriteFile(l, i, facts) ==
    /\ files' = With(files, i, facts)
    /\ owed' = (IF ~alone[l] /\ i \in DOMAIN files
                THEN owed \ files[i] ELSE owed) \cup facts

SaveMemory(l) ==
    /\ stage[l] = "saving"
    /\ \E i \in DOMAIN pending[l] :
         /\ WriteFile(l, i, pending[l][i])
         /\ pending' = [pending EXCEPT ![l] = Without(@, i)]
    /\ UNCHANGED <<stage, loaded, doomed, runs, faults, alone>>

(* Saving ends with the last memory, or with a write or a listing for the   *)
(* index that raises: the memories still to be saved are lost.             *)
EndSaving(l) ==
    /\ stage[l] = "saving"
    /\ (DOMAIN pending[l] = {} /\ UNCHANGED faults) \/ CanFail(l)
    /\ Goto(l, "consolidating")
    /\ pending' = [pending EXCEPT ![l] = Empty]
    /\ UNCHANGED <<files, loaded, doomed, runs, alone, owed>>

-----------------------------------------------------------------------------
(* Consolidation.                                                          *)

ShouldConsolidate(catalog) == Cardinality(DOMAIN catalog) >= Threshold

(* The rewritten set is the model's; it says nothing it was not shown.     *)
Rewritings(catalog) == Catalogs(SUBSET FactsOf(catalog))

(* A decision gives up the facts that are in no memory of the new set, and  *)
(* puts at risk those that leave a name the new set rewrites: its file is   *)
(* replaced before the other one may be written.                           *)
GivenUp(catalog, next) ==
    (FactsOf(catalog) \ FactsOf(next))
        \cup UNION {catalog[i] \ next[i] : i \in DOMAIN catalog \cap DOMAIN next}

(* The catalog is listed and the model asked; too few memories, or an       *)
(* unusable answer, end the work.                                          *)
ConsolidateMemories(l) ==
    /\ stage[l] = "consolidating"
    /\ \/ /\ ShouldConsolidate(files)
          /\ \E next \in Rewritings(files) :
               /\ pending' = [pending EXCEPT ![l] = next]
               /\ owed' = owed \ GivenUp(files, next)
          /\ Goto(l, "replacing")
          /\ UNCHANGED faults
       \/ /\ (~ShouldConsolidate(files) /\ UNCHANGED faults) \/ CanFail(l)
          /\ Goto(l, "idle")
          /\ UNCHANGED <<pending, owed>>
    /\ UNCHANGED <<files, loaded, doomed, runs, alone>>

(* The names to unlink are those of a second listing, after the model's     *)
(* answer, that the new set does not have.                                 *)
Obsolete(l) == DOMAIN files \ DOMAIN pending[l]

ReplaceMemories(l) ==
    /\ stage[l] = "replacing"
    /\ \/ /\ doomed' = [doomed EXCEPT ![l] = Obsolete(l)]
          /\ Goto(l, "writing")
          /\ UNCHANGED <<faults, pending>>
       \/ /\ CanFail(l)
          /\ Goto(l, "idle")
          /\ Drop(l)
    /\ UNCHANGED <<files, loaded, runs, alone, owed>>

Least(S) == CHOOSE i \in S : \A j \in S : i <= j

WriteMemory(l) ==
    /\ stage[l] = "writing" /\ DOMAIN pending[l] # {}
    /\ LET i == Least(DOMAIN pending[l]) IN
         /\ WriteFile(l, i, pending[l][i])
         /\ pending' = [pending EXCEPT ![l] = Without(@, i)]
    /\ UNCHANGED <<stage, loaded, doomed, runs, faults, alone>>

(* The old files go when the new set is written; one that has gone already  *)
(* is passed over.                                                         *)
UnlinkMemory(l) ==
    /\ stage[l] = "writing" /\ DOMAIN pending[l] = {}
    /\ \E i \in doomed[l] :
         /\ files' = Without(files, i)
         /\ owed' = IF ~alone[l] /\ i \in DOMAIN files THEN owed \ files[i] ELSE owed
         /\ doomed' = [doomed EXCEPT ![l] = @ \ {i}]
    /\ UNCHANGED <<stage, loaded, pending, runs, faults, alone>>

EndReplacing(l) ==
    /\ stage[l] = "writing"
    /\ \/ DOMAIN pending[l] = {} /\ doomed[l] = {} /\ UNCHANGED faults
       \/ faults < MaxFaults /\ faults' = faults + 1
    /\ Goto(l, "idle")
    /\ Drop(l)
    /\ UNCHANGED <<files, loaded, runs, alone, owed>>

-----------------------------------------------------------------------------
(* The process stops between two steps; files are all that is left.        *)
MemoryCrash ==
    /\ faults < MaxFaults /\ faults' = faults + 1
    /\ stage' = [l \in Loops |-> "idle"]
    /\ loaded' = [l \in Loops |-> {}]
    /\ pending' = [l \in Loops |-> Empty]
    /\ doomed' = [l \in Loops |-> {}]
    /\ UNCHANGED <<files, runs, alone, owed>>

RunStep(l) == LoadMemories(l) \/ FailRun(l) \/ CompleteRun(l)

SaveStep(l) == ExtractMemories(l) \/ SaveMemory(l) \/ EndSaving(l)

ReplaceStep(l) ==
    \/ ConsolidateMemories(l)
    \/ ReplaceMemories(l)
    \/ WriteMemory(l)
    \/ UnlinkMemory(l)
    \/ EndReplacing(l)

MemoryNext ==
    \/ \E l \in Loops : RunStep(l) \/ SaveStep(l) \/ ReplaceStep(l)
    \/ MemoryCrash

MemorySpec == MemoryInit /\ [][MemoryNext]_memoryVars

-----------------------------------------------------------------------------
(* A fact that was saved is in some file at every moment, half-way through  *)
(* a replacement and after a crash too (memory/repository.py:59-73), unless *)
(* a consolidation that was shown it left it out or moved it out of a       *)
(* memory it kept, or a loop that was not alone at work overwrote it.       *)
FactsKept == owed \subseteq FactsOf(files)
=============================================================================
