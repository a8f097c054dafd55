------------------------------ MODULE Pipeline ------------------------------
(***************************************************************************)
(* src/tools/run_946_pipeline.py: five phases, each a script, that derive  *)
(* packet drafts from a Ghidra project, the confirmed names and the field  *)
(* files.  A phase is skipped when its entry in cache-manifest.json holds  *)
(* the fingerprint of its inputs.  What is modelled is when a skipped      *)
(* phase is one whose output is still right: the order in which files are  *)
(* fingerprinted, read and written, the manifest that is read at the start *)
(* and written at the end, the cross-build index that the last phases      *)
(* write and the next run's phase 3 reads, and what comes between: the     *)
(* user's edits, scripts that fail, runs that are killed, runs of some of  *)
(* the phases, and the tools that read and write the same manifest.        *)
(*                                                                         *)
(* A source file is its version, and an artifact the versions it was made  *)
(* from.  The behaviour begins after a first complete run.                 *)
(***************************************************************************)
EXTENDS Naturals, FiniteSetsExt

CONSTANTS
    Selections,  \* the sets of phases a run is asked for, --phase and --from-phase
    MaxRuns,     \* bound: runs of the pipeline
    MaxEdits,    \* bound: edits of the sources
    MaxTools     \* bound: tools started by hand

Phase == 1..5

ASSUME SelectionsAssumption == Selections \subseteq (SUBSET Phase) \ {{}}
ASSUME BoundsAssumption == MaxRuns \in Nat /\ MaxEdits \in Nat /\ MaxTools \in Nat

VARIABLES
    src,        \* the sources: names (the TOML files), fields (*.txt), ghidra
    file,       \* the artifacts on disk
    disk,       \* cache-manifest.json
    mem,        \* cache_manifest, the run's copy of it
    run,        \* the run's --phase and --force
    pc,         \* where main is
    phase,      \* the phase it is at, or 6
    print,      \* input_fingerprint of maybe_run_phase while the script runs
    tool,       \* the manifest as a tool has read it: {manifest}, or {}
    left,       \* runs, edits and tools that may still be started
    quiet,      \* complete successful runs since the last edit, partial or failed run, to 3
    edited,     \* there was an edit during this run
    disturbed   \* the manifest and the artifacts may have come apart

vars == <<src, file, disk, mem, run, pc, phase, print, tool, left, quiet, edited, disturbed>>

Version == 0..1
None == 2   \* the version of a file that is not there
Sources == [names : Version, fields : Version, ghidra : Version]
Three == [names : Version, one : Version, two : Version]
NoThree == [names |-> None, one |-> None, two |-> None]

----------------------------------------------------------------------------
(* What is made from what.                                                 *)

\* Phase 3: nameCandidates.json; cross is what load_cross_build_scaffold took from the
\* index of the last run.
Candidates == [names |-> src.names, one |-> file.one, two |-> file.two, cross |-> file.index.two]

\* Phase 4: it reads of a candidate all but crossBuild, and which field files there are.
Drafts == [three |-> [names |-> file.three.names, one |-> file.three.one, two |-> file.three.two],
           fields |-> src.fields]

\* build_cross_build_index
Index ==
    [one |-> file.one, two |-> file.two, names |-> src.names,
     three |-> [names |-> file.three.names, one |-> file.three.one, two |-> file.three.two]]
NoIndex == [one |-> None, two |-> None, names |-> None, three |-> NoThree]

\* build_evidence_index, and the rows of it build_verified_entries keeps
Verified == [three |-> file.three, four |-> file.four, two |-> file.two, names |-> src.names,
             fields |-> src.fields]

\* The artifacts after the script of phase p.
Made(p) ==
    CASE p = 1 -> [file EXCEPT !.one = src.ghidra]
      [] p = 2 -> [file EXCEPT !.two = src.ghidra]
      [] p = 3 -> [file EXCEPT !.three = Candidates]
      [] p = 4 -> [file EXCEPT !.four = Drafts]
      [] p = 5 -> [file EXCEPT !.five = file.verified]

\* Mutant: the index is no input.
FingerprintWithoutIndex(p) ==
    [names |-> src.names,
     index |-> NoIndex,
     fields |-> IF p >= 4 THEN src.fields ELSE None,
     verified |-> IF p = 5 THEN {file.verified} ELSE {}]

\* phase_input_fingerprint: the files that are hashed for phase p
Fingerprint(p) ==
    [names |-> src.names,
     index |-> IF p >= 3 THEN file.index ELSE NoIndex,
     fields |-> IF p >= 4 THEN src.fields ELSE None,
     verified |-> IF p = 5 THEN {file.verified} ELSE {}]

\* Mutant: --force does not make a phase run.
HitAnyway(p) == mem[p] = Fingerprint(p)

\* maybe_run_phase: the entry is that of these inputs, and the outputs exist
Hit(p) == ~run.force /\ mem[p] = Fingerprint(p)

----------------------------------------------------------------------------
NoRun == [sel |-> {}, force |-> FALSE]

\* A complete run from nothing: the index was not there when phases 3 and 4 began.
FirstThree == [names |-> 0, one |-> 0, two |-> 0]
FirstCandidates == [names |-> 0, one |-> 0, two |-> 0, cross |-> None]
FirstFiles ==
    LET four == [three |-> FirstThree, fields |-> 0]
        verified == [three |-> FirstCandidates, four |-> four, two |-> 0, names |-> 0, fields |-> 0]
    IN  [one |-> 0, two |-> 0, three |-> FirstCandidates, four |-> four,
         index |-> [one |-> 0, two |-> 0, names |-> 0, three |-> FirstThree],
         verified |-> verified, five |-> verified]
FirstManifest ==
    [p \in Phase |->
        [names |-> 0, index |-> IF p = 5 THEN FirstFiles.index ELSE NoIndex,
         fields |-> IF p >= 4 THEN 0 ELSE None,
         verified |-> IF p = 5 THEN {FirstFiles.verified} ELSE {}]]

Init ==
    /\ src = [names |-> 0, fields |-> 0, ghidra |-> 0]
    /\ file = FirstFiles /\ disk = FirstManifest /\ mem = FirstManifest
    /\ run = NoRun /\ pc = "idle" /\ phase = 6 /\ print = {} /\ tool = {}
    /\ left = [runs |-> MaxRuns, edits |-> MaxEdits, tools |-> MaxTools]
    /\ quiet = 1 /\ edited = FALSE /\ disturbed = FALSE

counters == <<left, quiet, edited, disturbed>>

\* Mutant: the phases a run was not asked for are not passed over.
FollowingNext(p) == p + 1

\* selected_phases, in order: the next after p, 6 when there is none
Following(p) == LET later == {q \in run.sel : q > p} IN IF later = {} THEN 6 ELSE Min(later)

\* Phase 3 or 4 on the output of an earlier one that is left out and is due.
SkipsStale(sel) ==
    \E p \in sel \cap 3..4, q \in 1..3 : q < p /\ q \notin sel /\ disk[q] # Fingerprint(q)

\* What phases 1 and 2 make is no input of 3 and 4: these find it by the names it was made
\* for, in the same run, or by the index, which may come back to one they have an entry for.
LeavesBehind(sel) == sel \cap {1, 2} # {} /\ ~({3, 4} \subseteq sel)

Starts ==
    /\ pc = "idle" /\ left.runs > 0
    /\ \E sel \in Selections, force \in BOOLEAN :
        /\ run' = [sel |-> sel, force |-> force]
        /\ phase' = Min(sel)
        /\ pc' = IF Min(sel) = 5 THEN "rewrite" ELSE "phase"
        /\ disturbed' = (disturbed \/ SkipsStale(sel) \/ LeavesBehind(sel))
    /\ mem' = disk
    /\ left' = [left EXCEPT !.runs = @ - 1]
    /\ UNCHANGED <<src, file, disk, print, tool, quiet, edited>>

\* On to the next phase; the shared files are written after phase 4, before phase 5 and
\* after the last.
Advances(p) ==
    /\ phase' = Following(p)
    /\ pc' = CASE p = 4 -> "after4"
               [] p # 4 /\ Following(p) >= 5 -> "rewrite"
               [] OTHER -> "phase"

Skips ==
    /\ pc = "phase" /\ Hit(phase)
    /\ Advances(phase)
    /\ UNCHANGED <<src, file, disk, mem, run, print, tool, counters>>

\* The inputs are hashed before the script reads them.
RunsScript ==
    /\ pc = "phase" /\ ~Hit(phase)
    /\ print' = {Fingerprint(phase)} /\ pc' = "script"
    /\ UNCHANGED <<src, file, disk, mem, run, phase, tool, counters>>

\* Mutant: a phase that has run is not recorded.
ScriptEndsUnrecorded ==
    /\ pc = "script"
    /\ file' = Made(phase)
    /\ \E entry \in print : mem' = IF phase = 5 THEN [mem EXCEPT ![phase] = entry] ELSE mem
    /\ print' = {}
    /\ Advances(phase)
    /\ UNCHANGED <<src, disk, run, tool, counters>>

ScriptEnds ==
    /\ pc = "script"
    /\ file' = Made(phase)
    /\ \E entry \in print : mem' = [mem EXCEPT ![phase] = entry]
    /\ print' = {}
    /\ Advances(phase)
    /\ UNCHANGED <<src, disk, run, tool, counters>>

\* The run ends and its manifest is not saved.
Abandons ==
    /\ pc' = "idle" /\ phase' = 6 /\ run' = NoRun /\ print' = {} /\ mem' = disk
    /\ quiet' = 0 /\ edited' = FALSE /\ disturbed' = TRUE
    /\ UNCHANGED <<src, disk, tool, left>>

\* A RuntimeError: run-meta.json and EXIT_PHASE_FAILURE.  The script may have written.
ScriptFails ==
    /\ pc = "script"
    /\ file' \in {file, Made(phase)}
    /\ Abandons

\* write_json of the index, and then of the evidence and the verified packets
Rewrites ==
    /\ pc \in {"after4", "rewrite"}
    /\ file' = [file EXCEPT !.index = Index, !.verified = Verified]
    /\ pc' = CASE pc = "after4" -> "rewrite"
               [] pc = "rewrite" /\ phase = 5 -> "phase"
               [] OTHER -> "tail"
    /\ UNCHANGED <<src, disk, mem, run, phase, print, tool, counters>>

\* The run is killed between two scripts, or an advisory tool of its end fails:
\* EXIT_PHASE_FAILURE as well.
Dies ==
    /\ pc \in {"phase", "after4", "rewrite", "tail"}
    /\ \/ UNCHANGED file
       \/ pc \in {"after4", "rewrite"} /\ file' = [file EXCEPT !.index = Index]
    /\ Abandons

\* A complete run over sources that stood still counts as quiet; with --force it makes
\* everything afresh.
Rests ==
    /\ pc' = "idle" /\ run' = NoRun /\ edited' = FALSE
    /\ quiet' = CASE run.sel # Phase \/ edited -> 0
                  [] run.sel = Phase /\ ~edited /\ run.force -> 1
                  [] OTHER -> Min({quiet + 1, 3})
    /\ disturbed' = (disturbed /\ ~(run.sel = Phase /\ run.force /\ ~edited))
    /\ UNCHANGED <<src, file, phase, print, tool, left>>

\* The end of main, or that of a run whose --verify-runtime failed.
Saves ==
    /\ pc = "tail"
    /\ disk' = mem /\ mem' = mem /\ Rests

----------------------------------------------------------------------------
(* Beside the run.                                                         *)

\* The user: a rename, a field file promoted or withdrawn, a new import into Ghidra.
Edits ==
    /\ left.edits > 0
    /\ \E what \in {"names", "fields", "ghidra"} : src' = [src EXCEPT ![what] = 1 - @]
    /\ left' = [left EXCEPT !.edits = @ - 1]
    /\ quiet' = 0 /\ edited' = (pc # "idle")
    /\ disturbed' = (disturbed \/ pc # "idle")
    /\ UNCHANGED <<file, disk, mem, run, pc, phase, print, tool>>

\* A tool started by hand, run_946_sender_aid.py and a dozen others: it reads the
\* manifest, adds its entry and writes the whole of it back.
ToolReads ==
    /\ tool = {} /\ left.tools > 0
    /\ tool' = {disk}
    /\ left' = [left EXCEPT !.tools = @ - 1]
    /\ UNCHANGED <<src, file, disk, mem, run, pc, phase, print, quiet, edited, disturbed>>

ToolWrites ==
    /\ \E manifest \in tool :
        /\ disk' = manifest
        /\ mem' = IF pc = "idle" THEN manifest ELSE mem
        /\ disturbed' = (disturbed \/ manifest # disk)
        /\ quiet' = IF manifest # disk THEN 0 ELSE quiet
    /\ tool' = {}
    /\ UNCHANGED <<src, file, run, pc, phase, print, left, edited>>

Next ==
    \/ Starts \/ Skips \/ RunsScript \/ ScriptEnds \/ ScriptFails \/ Rewrites
    \/ Dies \/ Saves
    \/ Edits \/ ToolReads \/ ToolWrites

Spec == Init /\ [][Next]_vars

----------------------------------------------------------------------------
(* Properties.                                                             *)

Candidate == [names : Version, one : Version, two : Version, cross : 0..2]
Draft == [three : Three, fields : Version]
VerifiedFile == [three : Candidate, four : Draft, two : Version, names : Version, fields : Version]
IndexFile == [one : Version, two : Version, names : Version, three : Three]
Files == [one : Version, two : Version, three : Candidate, four : Draft, index : IndexFile,
          verified : VerifiedFile, five : VerifiedFile]

\* The entry of phase p.
Entry(p) ==
    [names : Version,
     index : IF p >= 3 THEN IndexFile \cup {NoIndex} ELSE {NoIndex},
     fields : IF p >= 4 THEN Version ELSE {None},
     verified : IF p = 5 THEN SUBSET VerifiedFile ELSE {{}}]
IsManifest(m) == DOMAIN m = Phase /\ \A p \in Phase : m[p] \in Entry(p)

\* run_946_pipeline: the type of its files, its manifests and its progress.
TypeOK ==
    /\ src \in Sources
    /\ file \in Files
    /\ IsManifest(disk) /\ IsManifest(mem)
    /\ run \in [sel : Selections \cup {{}}, force : BOOLEAN]
    /\ pc \in {"idle", "phase", "script", "after4", "rewrite", "tail"}
    /\ phase \in 1..6
    /\ pc = "idle" => run = NoRun /\ phase = 6
    /\ pc # "idle" => run.sel \in Selections /\ phase \in run.sel \cup {6}
    /\ pc \in {"phase", "script"} => phase # 6
    /\ pc \in {"after4", "rewrite"} => phase >= 5
    /\ pc = "tail" => phase = 6
    /\ IF pc = "script" THEN \E entry \in print : print = {entry} /\ entry \in Entry(phase)
       ELSE print = {}
    /\ tool = {} \/ \E manifest \in tool : tool = {manifest} /\ IsManifest(manifest)
    /\ left \in [runs : 0..MaxRuns, edits : 0..MaxEdits, tools : 0..MaxTools]
    /\ quiet \in 0..3 /\ edited \in BOOLEAN /\ disturbed \in BOOLEAN

\* maybe_run_phase: a phase that is skipped would have made what is there, as long as
\* every run was left to end, the sources stood still while it ran, no manifest was lost
\* to a tool, and no run left out a phase that was due before one it ran, or 3 and 4 after
\* 1 or 2; and again from the next complete run with --force on.
CacheIsCurrent ==
    pc = "phase" /\ phase >= 3 /\ Hit(phase) /\ ~disturbed => Made(phase) = file

\* The index that the last phases write is an input of phases 3 and 4 of the next run,
\* and that loop has a fixed point: after three complete runs over sources that stay as
\* they are, whatever went before them, a fourth skips every phase.  Where nothing went
\* wrong before, two are enough.
Settled == quiet >= 3 \/ (quiet >= 2 /\ ~disturbed)
QuietMeansCached == pc = "phase" /\ Settled /\ ~run.force => Hit(phase)

\* After a complete run over sources that stood still the artifacts are those of the
\* sources, the cached phases' as well, and after a second one the scaffold that phase 3
\* takes from the last index too: another run with --force would change nothing.
OutputsAreRight ==
    pc = "idle" /\ quiet >= 1 /\ ~disturbed =>
        /\ [file.three EXCEPT !.cross = 0]
             = [names |-> src.names, one |-> file.one, two |-> file.two, cross |-> 0]
        /\ file.index = Index /\ file.verified = Verified
        /\ \A p \in IF quiet >= 2 THEN 3..5 ELSE 4..5 : Made(p) = file

=============================================================================
