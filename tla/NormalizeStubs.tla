--------------------------- MODULE NormalizeStubs ---------------------------
(***************************************************************************)
(* The two scripts that rewrite stub files in place: normalize_stubs.py    *)
(* over a directory, and the main function of merge_overload_effects.py    *)
(* over the files it is given.  Both open the file they have read for      *)
(* writing, which empties it, and then write; both go on with the next     *)
(* file when one fails; either can be killed at any time and run again.    *)
(*                                                                         *)
(* A file's text is a member of Texts.  The rewriting of one text is       *)
(* module StubMerge, here the function Merged.                             *)
(***************************************************************************)
EXTENDS Naturals, Sequences, FiniteSets

CONSTANTS
    Files,          \* names of stub files
    Texts, Empty,   \* the texts a file can hold; the empty text
    Merged,         \* the text merge_overload_effects returns, for those it can parse
    Prefixes,       \* what an interrupted write of a text can leave
    ArgLists,       \* the argument lists the merge script is given
    SortedFiles,    \* the files of the directory in order
    MaxInvocations, \* bound on the runs of the scripts, one after the other
    MaxFaults       \* bound on the kills and failing operations

Parsable == DOMAIN Merged

ASSUME TextsAssumption ==
    /\ Merged \in [Parsable -> Parsable] /\ Parsable \subseteq Texts
    /\ Prefixes \in [Texts -> SUBSET Texts]
    /\ Empty \in Parsable
    /\ \A t \in Texts : Empty \in Prefixes[t]

ASSUME FaultsAssumption == MaxInvocations \in Nat /\ MaxFaults \in Nat

\* The arguments and the listing name files of a directory, the listing each
\* one once.
ASSUME ListsAssumption ==
    /\ IsFiniteSet(Files)
    /\ ArgLists \subseteq Seq(Files)
    /\ SortedFiles \in Seq(Files)
    /\ \A m, n \in DOMAIN SortedFiles : SortedFiles[m] = SortedFiles[n] => m = n

VARIABLES
    disk,           \* the text of each file; an unreadable one is a text outside Parsable
    script,         \* the script that runs
    at,
    pending,        \* the files still to be processed, the first one being processed
    result,         \* the text to be written
    success_count, error_count,
    exit,           \* the exit status of the last run that ended by itself
    invocations,    \* the runs started so far
    faults,         \* the kills and failing operations so far
    started,        \* the disk when the run started
    original        \* the disk before the first run

scriptVars ==
    <<disk, script, at, pending, result, success_count, error_count, exit, invocations, faults, started, original>>

Running == {"next", "merge", "open", "write"}

NoExit == 2

-----------------------------------------------------------------------------
ScriptInit ==
    /\ disk \in [Files -> Texts]
    /\ script = "normalize" /\ at = "idle" /\ pending = <<>>
    /\ result = Empty
    /\ success_count = 0 /\ error_count = 0 /\ exit = NoExit
    /\ invocations = 0 /\ faults = 0
    /\ started = disk /\ original = disk

\* get_stubs_dir: a directory that is missing ends the script with status 1.
MissingDirectory ==
    /\ at = "idle" /\ invocations < MaxInvocations
    /\ invocations' = invocations + 1 /\ script' = "normalize" /\ exit' = 1
    /\ success_count' = 0 /\ error_count' = 0
    /\ pending' = <<>> /\ started' = disk
    /\ UNCHANGED <<disk, at, result, faults, original>>

\* A script starts; normalize_stubs.py without a file ends with status 0.
Start(s, list) ==
    /\ at = "idle" /\ invocations < MaxInvocations
    /\ invocations' = invocations + 1 /\ script' = s
    /\ pending' = list /\ started' = disk
    /\ success_count' = 0 /\ error_count' = 0
    /\ IF s = "normalize" /\ list = <<>> THEN exit' = 0 /\ at' = "idle" ELSE exit' = NoExit /\ at' = "next"
    /\ UNCHANGED <<disk, result, faults, original>>

NextFile == pending' = Tail(pending) /\ at' = "next"

CountError == error_count' = error_count + 1 /\ NextFile

\* The file is read; one that cannot be read is an error.
Read ==
    /\ at = "next" /\ pending # <<>>
    /\ \/ at' = "merge" /\ UNCHANGED <<pending, error_count, faults>>
       \/ faults < MaxFaults /\ faults' = faults + 1 /\ CountError
    /\ UNCHANGED <<disk, script, result, success_count, exit, invocations, started, original>>

\* Faulty variant: the file is opened for writing before its text is merged.
MergeAfterOpen ==
    /\ at = "merge"
    /\ LET text == disk[Head(pending)] IN
       \/ /\ text \in Parsable /\ result' = Merged[text] /\ at' = "open"
          /\ UNCHANGED <<disk, pending, error_count>>
       \/ /\ text \notin Parsable /\ CountError
          /\ disk' = [disk EXCEPT ![Head(pending)] = Empty] /\ UNCHANGED result
    /\ UNCHANGED <<script, success_count, exit, invocations, faults, started, original>>

\* merge_overload_effects: a text that cannot be parsed is an error.
Merge ==
    /\ at = "merge"
    /\ LET text == disk[Head(pending)] IN
       \/ text \in Parsable /\ result' = Merged[text] /\ at' = "open" /\ UNCHANGED <<pending, error_count>>
       \/ text \notin Parsable /\ CountError /\ UNCHANGED result
    /\ UNCHANGED <<disk, script, success_count, exit, invocations, faults, started, original>>

\* open(.., "w") empties the file, or fails and leaves it alone.
Open ==
    /\ at = "open"
    /\ \/ /\ disk' = [disk EXCEPT ![Head(pending)] = Empty]
          /\ at' = "write" /\ UNCHANGED <<pending, error_count, faults>>
       \/ faults < MaxFaults /\ faults' = faults + 1 /\ CountError /\ UNCHANGED disk
    /\ UNCHANGED <<script, result, success_count, exit, invocations, started, original>>

\* Part of the text reaches the disk before the rest.
Flush ==
    /\ at = "write"
    /\ \E t \in Prefixes[result] : disk' = [disk EXCEPT ![Head(pending)] = t]
    /\ UNCHANGED <<script, at, pending, result, success_count, error_count, exit, invocations, faults, started, original>>

\* The whole text is written, or the write fails with what was flushed.
Write ==
    /\ at = "write"
    /\ \/ /\ disk' = [disk EXCEPT ![Head(pending)] = result]
          /\ success_count' = success_count + 1 /\ NextFile
          /\ UNCHANGED <<error_count, faults>>
       \/ /\ faults < MaxFaults /\ faults' = faults + 1
          /\ CountError
          /\ UNCHANGED <<disk, success_count>>
    /\ UNCHANGED <<script, result, exit, invocations, started, original>>

\* Faulty variant: any success makes the status 0.
ExitAnySuccess ==
    /\ at = "next" /\ pending = <<>>
    /\ at' = "idle"
    /\ exit' = IF script = "normalize" /\ error_count > 0 /\ success_count = 0 THEN 1 ELSE 0
    /\ UNCHANGED <<disk, script, pending, result, success_count, error_count, invocations, faults, started, original>>

\* Only normalize_stubs.py turns an error into its status.
Exit ==
    /\ at = "next" /\ pending = <<>>
    /\ at' = "idle"
    /\ exit' = IF script = "normalize" /\ error_count > 0 THEN 1 ELSE 0
    /\ UNCHANGED <<disk, script, pending, result, success_count, error_count, invocations, faults, started, original>>

\* The process is killed.
Kill ==
    /\ at \in Running /\ faults < MaxFaults
    /\ faults' = faults + 1
    /\ at' = "idle" /\ pending' = <<>>
    /\ UNCHANGED <<disk, script, result, success_count, error_count, exit, invocations, started, original>>

ScriptStep ==
    \/ MissingDirectory \/ Start("normalize", SortedFiles) \/ \E list \in ArgLists : Start("merge", list)
    \/ Read \/ Merge \/ Open \/ Write \/ Exit

ScriptDone == at = "idle" /\ invocations = MaxInvocations /\ UNCHANGED scriptVars

ScriptNext == ScriptStep \/ Flush \/ Kill \/ ScriptDone

ScriptSpec == ScriptInit /\ [][ScriptNext]_scriptVars

-----------------------------------------------------------------------------
(* Properties.                                                              *)

\* Type invariant.
ScriptTypeOK ==
    /\ disk \in [Files -> Texts] /\ started \in [Files -> Texts]
    /\ original \in [Files -> Texts]
    /\ script \in {"normalize", "merge"}
    /\ at \in Running \cup {"idle"}
    /\ pending \in Seq(Files) /\ (at \in Running \ {"next"} => pending # <<>>)
    /\ result \in Parsable
    /\ success_count \in Nat /\ error_count \in Nat
    /\ exit \in {0, 1, NoExit}
    /\ invocations \in 0..MaxInvocations /\ faults \in 0..MaxFaults

\* Status 0 of normalize_stubs.py is a promise: every file of the directory holds
\* the merged form of what it held when the run started.
StatusZeroMeansMerged ==
    script = "normalize" /\ exit = 0 /\ at = "idle" =>
        \A n \in DOMAIN SortedFiles : LET f == SortedFiles[n] IN
            started[f] \in Parsable /\ disk[f] = Merged[started[f]]

\* The file whose writing is in progress.
InWrite == IF at = "write" THEN {Head(pending)} ELSE {}

\* What any number of runs makes of a text: a merged text may be merged again into
\* a different one (see Settles of StubMerge).
Forms(text) ==
    {u \in Texts : \A S \in SUBSET Texts :
        text \in S /\ (\A t \in S \cap Parsable : Merged[t] \in S) => u \in S}

\* A file that holds neither its original text nor what the merge makes of it.
Damaged == {f \in Files : disk[f] \notin Forms(original[f])}

\* A kill or a failing operation costs the text of one file at most, over any
\* number of runs, and what is not interrupted costs nothing: a file is emptied
\* only when its new text is at hand.  Type correct.
OneFilePerFault == ScriptTypeOK /\ Cardinality(Damaged \ InWrite) <= faults

=============================================================================
