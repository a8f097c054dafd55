--------------------------- MODULE PipelineProofs ---------------------------
(***************************************************************************)
(* Theorems of Pipeline: the types, that a skipped phase is current, that  *)
(* runs over sources that stay as they are come to rest, and that complete *)
(* runs leave what the sources make; for every set of selections and any   *)
(* number of runs, edits and tools.                                        *)
(*                                                                         *)
(* The invariant has two halves.  As long as nothing has gone wrong, an    *)
(* entry of the manifest says what its artifact was made from, and where   *)
(* an artifact is behind those before it, its phase is still to come in    *)
(* this run and will not be skipped (Undisturbed).  Whatever went wrong,   *)
(* what the phases that a complete run has passed have left is known       *)
(* (Passed, Heals), and so is how the index moves from one complete run to *)
(* the next (Again, Rested), until it moves no more (Still).               *)
(***************************************************************************)
EXTENDS Pipeline, TLAPS

----------------------------------------------------------------------------
(* The order of the phases.                                                *)

\* The least of a set of phases.
LEMMA LeastPhase ==
    ASSUME NEW S \in SUBSET Phase, S # {}
    PROVE  Min(S) \in S /\ \A q \in S : Min(S) <= q
  <1>1. \E p \in S : \A q \in S : p <= q
    <2>1. CASE 1 \in S
      BY <2>1, SMT DEF Phase
    <2>2. CASE 1 \notin S /\ 2 \in S
      BY <2>2, SMT DEF Phase
    <2>3. CASE 1 \notin S /\ 2 \notin S /\ 3 \in S
      BY <2>3, SMT DEF Phase
    <2>4. CASE 1 \notin S /\ 2 \notin S /\ 3 \notin S /\ 4 \in S
      BY <2>4, SMT DEF Phase
    <2>5. CASE 1 \notin S /\ 2 \notin S /\ 3 \notin S /\ 4 \notin S
      <3>1. \A q \in S : q = 5
        BY <2>5, SMT DEF Phase
      <3>2. 5 \in S
        BY <3>1
      <3> QED
        BY <3>1, <3>2, SMT
    <2> QED
      BY <2>1, <2>2, <2>3, <2>4, <2>5
  <1> QED
    BY <1>1 DEF Min

\* selected_phases: the phase after p is the least of those asked for that come later.
LEMMA FollowingPhase ==
    ASSUME run.sel \subseteq Phase, NEW p \in Phase
    PROVE  /\ Following(p) \in run.sel \cup {6} /\ Following(p) \in 2..6
           /\ Following(p) > p
           /\ \A q \in run.sel : q > p => Following(p) <= q
  <1> DEFINE later == {q \in run.sel : q > p}
  <1>1. CASE later = {}
    <2>1. Following(p) = 6
      BY <1>1 DEF Following
    <2> QED
      BY <1>1, <2>1, SMT DEF Phase
  <1>2. CASE later # {}
    <2>1. Following(p) = Min(later)
      BY <1>2 DEF Following
    <2>2. later \in SUBSET Phase
      OBVIOUS
    <2>3. Min(later) \in later /\ \A q \in later : Min(later) <= q
      BY <1>2, <2>2, LeastPhase
    <2>4. Min(later) \in run.sel /\ Min(later) > p
      BY <2>3
    <2>5. \A q \in run.sel : q > p => Min(later) <= q
      BY <2>3
    <2> HIDE DEF later
    <2> QED
      BY <2>1, <2>4, <2>5, SMT DEF Phase
  <1> QED
    BY <1>1, <1>2

----------------------------------------------------------------------------
(* The types.                                                              *)

\* A run is asked for some of the phases.
LEMMA SelectionsArePhases == \A sel \in Selections : sel \in SUBSET Phase /\ sel # {}
  BY SelectionsAssumption

\* What the scripts and main make has its type.
LEMMA MadeTypes ==
    ASSUME TypeOK
    PROVE  /\ \A p \in Phase : Made(p) \in Files
           /\ Index \in IndexFile /\ Verified \in VerifiedFile
           /\ \A p \in Phase : Fingerprint(p) \in Entry(p)
  <1> USE DEF TypeOK, Files, Sources
  <1>1. Index \in IndexFile
    BY SMT DEF Index, IndexFile, Three, Candidate
  <1>2. Verified \in VerifiedFile
    BY SMT DEF Verified, VerifiedFile
  <1>3. Candidates \in Candidate
    BY SMT DEF Candidates, Candidate, IndexFile, Version
  <1>4. Drafts \in Draft
    BY SMT DEF Drafts, Draft, Three, Candidate
  <1>5. ASSUME NEW p \in Phase PROVE Made(p) \in Files
    <2>1. CASE p = 1
      BY <2>1, SMT DEF Made
    <2>2. CASE p = 2
      BY <2>2, SMT DEF Made
    <2>3. CASE p = 3
      BY <2>3, <1>3, SMT DEF Made
    <2>4. CASE p = 4
      BY <2>4, <1>4, SMT DEF Made
    <2>5. CASE p = 5
      BY <2>5, SMT DEF Made
    <2> QED
      BY <2>1, <2>2, <2>3, <2>4, <2>5, SMT DEF Phase
  <1>6. ASSUME NEW p \in Phase PROVE Fingerprint(p) \in Entry(p)
    <2>1. src.names \in Version /\ src.fields \in Version /\ file.index \in IndexFile
          /\ {file.verified} \in SUBSET VerifiedFile
      OBVIOUS
    <2> QED
      BY <2>1, SMT DEF Fingerprint, Entry
  <1> QED
    BY <1>1, <1>2, <1>5, <1>6

\* The parts of the type.
FilesTyped == src \in Sources /\ file \in Files
ManifestsTyped ==
    /\ IsManifest(disk) /\ IsManifest(mem)
    /\ tool = {} \/ \E manifest \in tool : tool = {manifest} /\ IsManifest(manifest)
Progress ==
    /\ run \in [sel : Selections \cup {{}}, force : BOOLEAN]
    /\ pc \in {"idle", "phase", "script", "after4", "rewrite", "tail"}
    /\ phase \in 1..6
    /\ pc = "idle" => run = NoRun /\ phase = 6
    /\ pc # "idle" => run.sel \in Selections /\ phase \in run.sel \cup {6}
    /\ pc \in {"phase", "script"} => phase # 6
    /\ pc \in {"after4", "rewrite"} => phase >= 5
    /\ pc = "tail" => phase = 6
PrintTyped ==
    IF pc = "script" THEN \E entry \in print : print = {entry} /\ entry \in Entry(phase)
    ELSE print = {}
CountersTyped ==
    /\ left \in [runs : 0..MaxRuns, edits : 0..MaxEdits, tools : 0..MaxTools]
    /\ quiet \in 0..3 /\ edited \in BOOLEAN /\ disturbed \in BOOLEAN

\* TypeOK is the sum of its parts.
LEMMA TypeParts ==
    TypeOK <=> FilesTyped /\ ManifestsTyped /\ Progress /\ PrintTyped /\ CountersTyped
  BY DEF TypeOK, FilesTyped, ManifestsTyped, Progress, PrintTyped, CountersTyped

\* run_946_pipeline starts from files of the right types.
LEMMA TypesInit == Init => TypeOK
  <1> SUFFICES ASSUME Init PROVE TypeOK
    OBVIOUS
  <1> USE DEF Init, Version, Three, FirstThree
  <1>1. FirstCandidates \in Candidate
    BY SMT DEF FirstCandidates, Candidate, None
  <1>2. FirstFiles \in Files
    BY <1>1, SMT DEF FirstFiles, Files, Draft, VerifiedFile, IndexFile, FirstCandidates, Candidate
  <1>3. IsManifest(FirstManifest)
    <2>1. FirstFiles.index \in IndexFile /\ {FirstFiles.verified} \in SUBSET VerifiedFile
      BY <1>2 DEF Files
    <2>2. DOMAIN FirstManifest = Phase
      BY DEF FirstManifest
    <2>3. ASSUME NEW p \in Phase PROVE FirstManifest[p] \in Entry(p)
      <3>1. FirstManifest[p] =
              [names |-> 0, index |-> IF p = 5 THEN FirstFiles.index ELSE NoIndex,
               fields |-> IF p >= 4 THEN 0 ELSE None,
               verified |-> IF p = 5 THEN {FirstFiles.verified} ELSE {}]
        BY <2>3 DEF FirstManifest
      <3> HIDE DEF Init, Three, FirstThree
      <3> QED
        BY <2>1, <3>1, SMT DEF Entry, Phase
    <2> QED
      BY <2>2, <2>3 DEF IsManifest
  <1>4. src \in Sources
    BY DEF Sources
  <1>5. run \in [sel : Selections \cup {{}}, force : BOOLEAN] /\ run = NoRun
    BY DEF NoRun
  <1>6. left \in [runs : 0..MaxRuns, edits : 0..MaxEdits, tools : 0..MaxTools]
    BY BoundsAssumption, SMT
  <1>7. pc = "idle" /\ phase = 6 /\ print = {} /\ tool = {} /\ disk = FirstManifest
        /\ mem = FirstManifest /\ quiet = 1 /\ edited = FALSE /\ disturbed = FALSE
    OBVIOUS
  <1>8. file \in Files
    BY <1>2
  <1> HIDE DEF Init
  <1>9. FilesTyped /\ ManifestsTyped
    BY <1>3, <1>4, <1>7, <1>8 DEF FilesTyped, ManifestsTyped
  <1>10. Progress /\ PrintTyped
    <2>1. Progress
      BY <1>5, <1>7, SMT DEF Progress
    <2>2. PrintTyped
      BY <1>7, Zenon DEF PrintTyped
    <2> QED
      BY <2>1, <2>2
  <1>11. CountersTyped
    <2>1. quiet \in 0..3
      BY <1>7
    <2> QED
      BY <1>6, <1>7, <2>1, Zenon DEF CountersTyped
  <1> QED
    BY <1>9, <1>10, <1>11, TypeParts

\* What a phase leaves behind for the next.
LEMMA AdvancesTypes ==
    ASSUME TypeOK, NEW p \in Phase, Advances(p), run' = run, run.sel \subseteq Phase
    PROVE  /\ phase' \in 2..6 /\ phase' \in run.sel \cup {6} /\ phase' > p
           /\ \A q \in run.sel : q > p => phase' <= q
           /\ pc' \in {"phase", "after4", "rewrite"}
           /\ pc' = "after4" <=> p = 4
           /\ pc' = "phase" => phase' <= 4
           /\ pc' \in {"after4", "rewrite"} => phase' >= 5
  <1>1. /\ phase' \in 2..6 /\ phase' \in run.sel \cup {6} /\ phase' > p
        /\ \A q \in run.sel : q > p => phase' <= q
    BY FollowingPhase DEF Advances
  <1>2. /\ p = 4 => pc' = "after4"
        /\ p # 4 /\ phase' >= 5 => pc' = "rewrite"
        /\ p # 4 /\ ~(phase' >= 5) => pc' = "phase"
    BY DEF Advances
  <1> QED
    BY <1>1, <1>2, SMT DEF Phase

\* The phases a run is asked for.
LEMMA RunTypes ==
    ASSUME TypeOK
    PROVE  /\ run.sel \subseteq Phase
           /\ pc \in {"phase", "script"} /\ phase # 6 => phase \in Phase /\ phase \in run.sel
  BY SelectionsArePhases DEF TypeOK, NoRun

\* The start of a run keeps the types.
LEMMA StartsTypes == TypeOK /\ Starts => TypeOK'
  <1> SUFFICES ASSUME TypeOK, Starts PROVE TypeOK'
    OBVIOUS
  <1>1. PICK sel \in Selections, force \in BOOLEAN :
           /\ run' = [sel |-> sel, force |-> force]
           /\ phase' = Min(sel)
           /\ pc' = IF Min(sel) = 5 THEN "rewrite" ELSE "phase"
    BY DEF Starts
  <1>2. sel \in SUBSET Phase /\ Min(sel) \in sel /\ Min(sel) \in 1..5
    <2>1. sel \in SUBSET Phase /\ sel # {}
      BY SelectionsArePhases
    <2> QED
      BY <2>1, LeastPhase DEF Phase
  <1>3. Progress'
    BY <1>1, <1>2, SMT DEF Progress
  <1>4. FilesTyped' /\ ManifestsTyped' /\ PrintTyped' /\ CountersTyped'
    BY <1>1, BoundsAssumption, SMT DEF Starts, TypeOK, FilesTyped, ManifestsTyped, PrintTyped,
       CountersTyped
  <1> QED
    BY <1>3, <1>4 DEF TypeOK, FilesTyped, ManifestsTyped, Progress, PrintTyped, CountersTyped

\* A skipped phase keeps the types.
LEMMA SkipsTypes == TypeOK /\ Skips => TypeOK'
  <1> SUFFICES ASSUME TypeOK, Skips PROVE TypeOK'
    OBVIOUS
  <1>1. run.sel \subseteq Phase /\ phase \in Phase
    BY RunTypes DEF Skips, TypeOK
  <1>2. Progress'
    BY <1>1, AdvancesTypes, SMT DEF Skips, TypeOK, Progress, Phase
  <1>3. FilesTyped' /\ ManifestsTyped' /\ CountersTyped'
    BY SMT DEF Skips, TypeOK, FilesTyped, ManifestsTyped, CountersTyped, counters
  <1>4. PrintTyped'
    BY <1>1, AdvancesTypes DEF Skips, TypeOK, PrintTyped
  <1> QED
    BY <1>2, <1>3, <1>4 DEF TypeOK, FilesTyped, ManifestsTyped, Progress, PrintTyped, CountersTyped

\* The start of a script keeps the types: the fingerprint taken is an entry.
LEMMA RunsScriptTypes == TypeOK /\ RunsScript => TypeOK'
  <1> SUFFICES ASSUME TypeOK, RunsScript PROVE TypeOK'
    OBVIOUS
  <1>1. phase \in Phase /\ Fingerprint(phase) \in Entry(phase)
    BY RunTypes, MadeTypes DEF RunsScript, TypeOK
  <1>2. Progress' /\ FilesTyped' /\ ManifestsTyped' /\ CountersTyped'
    BY SMT DEF RunsScript, TypeOK, Progress, FilesTyped, ManifestsTyped, CountersTyped, counters
  <1>3. PrintTyped'
    BY <1>1 DEF RunsScript, PrintTyped
  <1> QED
    BY <1>2, <1>3 DEF TypeOK, FilesTyped, ManifestsTyped, Progress, PrintTyped, CountersTyped

\* The end of a script keeps the types: it writes one artifact and one entry.
LEMMA ScriptEndsTypes == TypeOK /\ ScriptEnds => TypeOK'
  <1> SUFFICES ASSUME TypeOK, ScriptEnds PROVE TypeOK'
    OBVIOUS
  <1>1. run.sel \subseteq Phase /\ phase \in Phase
    BY RunTypes DEF ScriptEnds, TypeOK
  <1>2. Progress'
    BY <1>1, AdvancesTypes, SMT DEF ScriptEnds, TypeOK, Progress, Phase
  <1>3. FilesTyped'
    BY <1>1, MadeTypes DEF ScriptEnds, FilesTyped, TypeOK
  <1>4. ManifestsTyped'
    <2>1. PICK entry \in print : mem' = [mem EXCEPT ![phase] = entry]
      BY DEF ScriptEnds
    <2>2. entry \in Entry(phase)
      BY <2>1 DEF TypeOK, ScriptEnds
    <2>3. IsManifest(mem')
      BY <1>1, <2>1, <2>2 DEF TypeOK, IsManifest
    <2> QED
      BY <2>3 DEF TypeOK, ScriptEnds, ManifestsTyped
  <1>5. PrintTyped'
    BY <1>1, AdvancesTypes DEF ScriptEnds, TypeOK, PrintTyped
  <1>6. CountersTyped'
    BY DEF ScriptEnds, TypeOK, CountersTyped, counters
  <1> QED
    BY <1>2, <1>3, <1>4, <1>5, <1>6
       DEF TypeOK, FilesTyped, ManifestsTyped, Progress, PrintTyped, CountersTyped

\* A run that is abandoned leaves what it has written.
LEMMA AbandonsTypes ==
    ASSUME TypeOK, Abandons, file' \in Files
    PROVE  TypeOK'
  <1>1. FilesTyped' /\ ManifestsTyped'
    BY DEF Abandons, TypeOK, FilesTyped, ManifestsTyped
  <1>2. Progress'
    BY SMT DEF Abandons, Progress, NoRun
  <1>4. PrintTyped'
    BY DEF Abandons, PrintTyped
  <1>3. CountersTyped'
    <2>1. quiet' = 0 /\ edited' = FALSE /\ disturbed' = TRUE /\ left' = left
      BY DEF Abandons
    <2>2. left \in [runs : 0..MaxRuns, edits : 0..MaxEdits, tools : 0..MaxTools]
      BY DEF TypeOK
    <2>3. quiet' \in 0..3
      BY <2>1
    <2> QED
      BY <2>1, <2>2, <2>3, Zenon DEF CountersTyped
  <1> QED
    BY <1>1, <1>2, <1>3, <1>4
       DEF TypeOK, FilesTyped, ManifestsTyped, Progress, PrintTyped, CountersTyped

\* A script that fails keeps the types.
LEMMA ScriptFailsTypes == TypeOK /\ ScriptFails => TypeOK'
  <1> SUFFICES ASSUME TypeOK, ScriptFails PROVE TypeOK'
    OBVIOUS
  <1>1. phase \in Phase
    BY RunTypes DEF ScriptFails, TypeOK
  <1>2. file' \in Files
    BY <1>1, MadeTypes DEF ScriptFails, TypeOK
  <1> QED
    BY <1>2, AbandonsTypes DEF ScriptFails

\* Writing the shared files keeps the types.
LEMMA RewritesTypes == TypeOK /\ Rewrites => TypeOK'
  <1> SUFFICES ASSUME TypeOK, Rewrites PROVE TypeOK'
    OBVIOUS
  <1>1. file' \in Files
    BY MadeTypes DEF Rewrites, TypeOK, Files
  <1>2. FilesTyped' /\ ManifestsTyped' /\ Progress' /\ PrintTyped' /\ CountersTyped'
    BY <1>1, SMT DEF Rewrites, TypeOK, FilesTyped, ManifestsTyped, Progress, PrintTyped,
       CountersTyped, counters
  <1> QED
    BY <1>2 DEF TypeOK, FilesTyped, ManifestsTyped, Progress, PrintTyped, CountersTyped

\* A killed run keeps the types.
LEMMA DiesTypes == TypeOK /\ Dies => TypeOK'
  <1> SUFFICES ASSUME TypeOK, Dies PROVE TypeOK'
    OBVIOUS
  <1>1. file' \in Files
    BY MadeTypes DEF Dies, TypeOK, Files
  <1> QED
    BY <1>1, AbandonsTypes DEF Dies

\* The end of a run keeps the types.
LEMMA SavesTypes == TypeOK /\ Saves => TypeOK'
  <1> SUFFICES ASSUME TypeOK, Saves PROVE TypeOK'
    OBVIOUS
  <1>1. quiet' \in 0..3
    <2>1. quiet + 1 \in 1..4
      BY DEF TypeOK
    <2>2. Min({quiet + 1, 3}) \in 0..3
      <3>1. \E q \in {quiet + 1, 3} : \A r \in {quiet + 1, 3} : q <= r
        BY <2>1
      <3>2. Min({quiet + 1, 3}) <= 3 /\ Min({quiet + 1, 3}) \in {quiet + 1, 3}
        BY <3>1 DEF Min
      <3> QED
        BY <2>1, <3>2
    <2> QED
      BY <2>2 DEF Saves, Rests
  <1>2. FilesTyped' /\ ManifestsTyped'
    BY DEF Saves, Rests, TypeOK, FilesTyped, ManifestsTyped
  <1>3. Progress' /\ PrintTyped'
    BY SMT DEF Saves, Rests, TypeOK, Progress, PrintTyped, NoRun
  <1>4. left' = left /\ edited' \in BOOLEAN /\ disturbed' \in BOOLEAN
    BY Zenon DEF Saves, Rests, TypeOK
  <1>5. CountersTyped'
    BY <1>1, <1>4 DEF TypeOK, CountersTyped
  <1> QED
    BY <1>2, <1>3, <1>5 DEF TypeOK, FilesTyped, ManifestsTyped, Progress, PrintTyped, CountersTyped

\* An edit keeps the types.
LEMMA EditsTypes == TypeOK /\ Edits => TypeOK'
  <1> SUFFICES ASSUME TypeOK, Edits PROVE TypeOK'
    OBVIOUS
  <1>1. src' \in Sources
    <2>1. PICK what \in {"names", "fields", "ghidra"} : src' = [src EXCEPT ![what] = 1 - @]
      BY DEF Edits
    <2> QED
      BY <2>1, SMT DEF TypeOK, Sources, Version
  <1>2. FilesTyped' /\ ManifestsTyped'
    BY <1>1 DEF Edits, TypeOK, FilesTyped, ManifestsTyped
  <1>3. Progress' /\ PrintTyped'
    BY DEF Edits, TypeOK, Progress, PrintTyped
  <1>4. edited' \in BOOLEAN /\ disturbed' \in BOOLEAN
    BY Zenon DEF Edits, TypeOK
  <1>5. quiet' \in 0..3 /\ left' \in [runs : 0..MaxRuns, edits : 0..MaxEdits, tools : 0..MaxTools]
    BY BoundsAssumption, SMT DEF Edits, TypeOK
  <1> QED
    BY <1>2, <1>3, <1>4, <1>5
       DEF TypeOK, FilesTyped, ManifestsTyped, Progress, PrintTyped, CountersTyped

\* The tools keep the types: they write back a manifest.
LEMMA ToolsTypes == TypeOK /\ (ToolReads \/ ToolWrites) => TypeOK'
  <1> SUFFICES ASSUME TypeOK, ToolReads \/ ToolWrites PROVE TypeOK'
    OBVIOUS
  <1>1. ManifestsTyped'
    BY DEF ToolReads, ToolWrites, TypeOK, ManifestsTyped
  <1>2. FilesTyped' /\ Progress' /\ PrintTyped'
    BY DEF ToolReads, ToolWrites, TypeOK, FilesTyped, Progress, PrintTyped
  <1>3. edited' \in BOOLEAN /\ disturbed' \in BOOLEAN
    BY Zenon DEF ToolReads, ToolWrites, TypeOK
  <1>4. quiet' \in 0..3 /\ left' \in [runs : 0..MaxRuns, edits : 0..MaxEdits, tools : 0..MaxTools]
    BY BoundsAssumption, SMT DEF ToolReads, ToolWrites, TypeOK
  <1> QED
    BY <1>1, <1>2, <1>3, <1>4
       DEF TypeOK, FilesTyped, ManifestsTyped, Progress, PrintTyped, CountersTyped

\* Every step keeps the types.
LEMMA TypesNext == TypeOK /\ [Next]_vars => TypeOK'
  <1>1. TypeOK /\ UNCHANGED vars => TypeOK'
    BY DEF vars, TypeOK, PrintTyped
  <1> QED
    BY <1>1, StartsTypes, SkipsTypes, RunsScriptTypes, ScriptEndsTypes, ScriptFailsTypes,
       RewritesTypes, DiesTypes, SavesTypes, EditsTypes, ToolsTypes DEF Next

\* run_946_pipeline: the types hold throughout, so that main only ever stands at a phase it
\* was asked for.
THEOREM Types == Spec => []TypeOK
  BY TypesInit, TypesNext, PTL DEF Spec

----------------------------------------------------------------------------
(* The inductive invariant.                                                *)

\* The script of phase q runs in this run whatever the index is.
Due(q) == q \in run.sel /\ (run.force \/ mem[q].names # src.names)

Sans(three) == [names |-> three.names, one |-> three.one, two |-> three.two]

\* Phases 3 and 4 have taken up what is before them.
CandidatesFollow == file.three.one = file.one /\ file.three.two = file.two
DraftsFollow == file.four.three = Sans(file.three)
Right == file.three.names = src.names /\ CandidatesFollow

\* An entry says what the file it stands for was made from.
EntriesOfFiles ==
    /\ file.three.names = mem[3].names /\ file.three.cross = mem[3].index.two
    /\ file.four.fields = mem[4].fields
    /\ mem[5].verified = {file.five}

NamesAlike == \A q \in 1..4 : mem[q].names = mem[1].names

\* Between two runs that went well.
InPlace == NamesAlike /\ EntriesOfFiles /\ CandidatesFollow /\ DraftsFollow

\* In a run that goes well: where a phase is behind, it will run.
NamesOnTheWay ==
    /\ \A q \in 1..4 : q \in run.sel /\ q < phase => mem[q].names = src.names
    /\ \/ \A q \in 1..4 : mem[q].names = src.names
       \/ /\ 1..4 \subseteq run.sel
          /\ \A q, r \in 1..4 : q >= phase /\ r >= phase => mem[q].names = mem[r].names
       \/ run.sel = {5} /\ NamesAlike
OnTheWay ==
    /\ ~edited
    /\ run.sel \cap {1, 2} # {} => {3, 4} \subseteq run.sel
    /\ NamesOnTheWay /\ EntriesOfFiles
    /\ CandidatesFollow \/ (phase <= 3 /\ Due(3) /\ Due(4))
    /\ DraftsFollow \/ (phase <= 4 /\ Due(4))

Undisturbed == ~disturbed => IF pc = "idle" THEN InPlace ELSE OnTheWay

\* A complete run over sources that stand still.
Complete == pc # "idle" /\ run.sel = Phase /\ ~edited

\* With --force, what it has passed is in place.
Heals ==
    Complete /\ run.force =>
        /\ phase > 3 => Right /\ mem[3].names = src.names /\ file.three.cross = mem[3].index.two
        /\ phase > 4 => DraftsFollow /\ file.four.fields = mem[4].fields
        /\ phase > 5 => mem[5].verified = {file.five}

SharedAreRight == file.index = Index /\ file.verified = Verified

\* The entries of what it has passed.
Passed ==
    Complete =>
        /\ \A q \in Phase : q < phase => mem[q].names = src.names
        /\ phase = 4 => mem[3].index = file.index
        /\ phase > 4 => mem[4].fields = src.fields /\ mem[4].index = mem[3].index
        /\ pc \in {"phase", "script"} /\ phase = 5 => SharedAreRight
        /\ pc = "after4" => phase = 5
        /\ phase = 6 => SharedAreRight /\ mem[5] = Fingerprint(5)

\* One good complete run before this one, or two of any kind.
Strong == quiet >= 2 \/ (quiet >= 1 /\ ~disturbed)

\* The second complete run, and the third.
Again ==
    Complete /\ ~run.force /\ quiet >= 1 =>
        /\ phase <= 3 => file.index = Index /\ \A q \in 1..4 : mem[q].names = src.names
        /\ phase > 3 => mem[3].index = Index \/ Right
        /\ Strong => IF phase > 3 THEN mem[3].index = Index
                     ELSE mem[3].index = file.index \/ Right

\* After a complete run.
Rested ==
    pc = "idle" /\ quiet >= 1 =>
        /\ \A q \in 1..4 : mem[q].names = src.names
        /\ SharedAreRight
        /\ mem[4].fields = src.fields /\ mem[4].index = mem[3].index
        /\ mem[5] = Fingerprint(5)
        /\ Strong => mem[3].index = file.index \/ Right

\* When everything has settled.
Still ==
    Settled /\ ~run.force =>
        pc # "script" /\ SharedAreRight /\ \A q \in Phase : mem[q] = Fingerprint(q)

Standing ==
    /\ pc = "idle" => mem = disk /\ ~edited
    /\ edited => quiet = 0
    /\ pc = "script" /\ ~edited => print = {Fingerprint(phase)} /\ ~Hit(phase)

IInv == TypeOK /\ Standing /\ Undisturbed /\ Heals /\ Passed /\ Again /\ Rested /\ Still

----------------------------------------------------------------------------
(* What the steps of a run do to the files and the entries.                *)

\* The artifacts a script leaves alone.
LEMMA MadeParts ==
    ASSUME file \in Files, NEW p \in Phase
    PROVE  /\ Made(p).one = IF p = 1 THEN src.ghidra ELSE file.one
           /\ Made(p).two = IF p = 2 THEN src.ghidra ELSE file.two
           /\ Made(p).three = IF p = 3 THEN Candidates ELSE file.three
           /\ Made(p).four = IF p = 4 THEN Drafts ELSE file.four
           /\ Made(p).five = IF p = 5 THEN file.verified ELSE file.five
           /\ Made(p).index = file.index /\ Made(p).verified = file.verified
  <1>1. CASE p = 1
    BY <1>1, SMT DEF Made, Files
  <1>2. CASE p = 2
    BY <1>2, SMT DEF Made, Files
  <1>3. CASE p = 3
    BY <1>3, SMT DEF Made, Files
  <1>4. CASE p = 4
    BY <1>4, SMT DEF Made, Files
  <1>5. CASE p = 5
    BY <1>5, SMT DEF Made, Files
  <1> QED
    BY <1>1, <1>2, <1>3, <1>4, <1>5, SMT DEF Phase

\* phase_input_fingerprint, part by part.
LEMMA FingerprintParts ==
    ASSUME NEW p \in Phase, NEW entry \in Entry(p)
    PROVE  entry = Fingerprint(p) <=>
             /\ entry.names = src.names
             /\ p >= 3 => entry.index = file.index
             /\ p >= 4 => entry.fields = src.fields
             /\ p = 5 => entry.verified = {file.verified}
  <1> USE DEF Phase
  <1>1. /\ Fingerprint(p).names = src.names
        /\ Fingerprint(p).index = IF p >= 3 THEN file.index ELSE NoIndex
        /\ Fingerprint(p).fields = IF p >= 4 THEN src.fields ELSE None
        /\ Fingerprint(p).verified = IF p = 5 THEN {file.verified} ELSE {}
    BY DEF Fingerprint
  <1>2. /\ p < 3 => entry.index = NoIndex
        /\ p < 4 => entry.fields = None
        /\ p # 5 => entry.verified = {}
    BY SMT DEF Entry
  <1>3. /\ entry = [names |-> entry.names, index |-> entry.index, fields |-> entry.fields,
                    verified |-> entry.verified]
    BY DEF Entry
  <1>4. ASSUME entry.names = src.names, p >= 3 => entry.index = file.index,
               p >= 4 => entry.fields = src.fields, p = 5 => entry.verified = {file.verified}
        PROVE  entry = Fingerprint(p)
    <2>1. /\ entry.index = IF p >= 3 THEN file.index ELSE NoIndex
          /\ entry.fields = IF p >= 4 THEN src.fields ELSE None
          /\ entry.verified = IF p = 5 THEN {file.verified} ELSE {}
      BY <1>2, <1>4, SMT
    <2> QED
      BY <1>3, <1>4, <2>1, Zenon DEF Fingerprint
  <1>5. entry = Fingerprint(p) =>
             /\ entry.names = src.names
             /\ p >= 3 => entry.index = file.index
             /\ p >= 4 => entry.fields = src.fields
             /\ p = 5 => entry.verified = {file.verified}
    BY <1>1, SMT
  <1> QED
    BY <1>4, <1>5

\* A phase that is not skipped writes its artifact and its entry and goes on to the next.
LEMMA ScriptEndsParts ==
    ASSUME TypeOK, Standing, ScriptEnds
    PROVE  /\ phase \in Phase /\ phase \in run.sel /\ run.sel \subseteq Phase
           /\ mem'[phase] \in Entry(phase) /\ \A q \in Phase : q # phase => mem'[q] = mem[q]
           /\ ~edited => mem'[phase] = Fingerprint(phase) /\ ~Hit(phase)
           /\ file'.one = IF phase = 1 THEN src.ghidra ELSE file.one
           /\ file'.two = IF phase = 2 THEN src.ghidra ELSE file.two
           /\ file'.three = IF phase = 3 THEN Candidates ELSE file.three
           /\ file'.four = IF phase = 4 THEN Drafts ELSE file.four
           /\ file'.five = IF phase = 5 THEN file.verified ELSE file.five
           /\ file'.index = file.index /\ file'.verified = file.verified
           /\ phase' \in 2..6 /\ phase' \in run.sel \cup {6} /\ phase' > phase
           /\ \A q \in run.sel : q > phase => phase' <= q
           /\ pc' \in {"phase", "after4", "rewrite"} /\ (pc' = "after4" <=> phase = 4)
           /\ pc' = "phase" => phase' <= 4
           /\ UNCHANGED <<src, disk, run, tool, left, quiet, edited, disturbed>>
  <1>1. phase \in Phase /\ phase \in run.sel /\ run.sel \subseteq Phase
    BY RunTypes DEF ScriptEnds, TypeOK
  <1>2. PICK entry \in print : mem' = [mem EXCEPT ![phase] = entry]
    BY DEF ScriptEnds
  <1>3. entry \in Entry(phase) /\ (~edited => entry = Fingerprint(phase))
    BY <1>2 DEF TypeOK, Standing, ScriptEnds
  <1>4. mem'[phase] = entry /\ \A q \in Phase : q # phase => mem'[q] = mem[q]
    BY <1>1, <1>2 DEF TypeOK, IsManifest
  <1>5. file \in Files /\ file' = Made(phase)
    BY DEF TypeOK, ScriptEnds
  <1>6. /\ file'.one = IF phase = 1 THEN src.ghidra ELSE file.one
        /\ file'.two = IF phase = 2 THEN src.ghidra ELSE file.two
        /\ file'.three = IF phase = 3 THEN Candidates ELSE file.three
        /\ file'.four = IF phase = 4 THEN Drafts ELSE file.four
        /\ file'.five = IF phase = 5 THEN file.verified ELSE file.five
        /\ file'.index = file.index /\ file'.verified = file.verified
    BY <1>1, <1>5, MadeParts
  <1>7. Advances(phase) /\ run' = run
    BY DEF ScriptEnds
  <1>8. /\ phase' \in 2..6 /\ phase' \in run.sel \cup {6} /\ phase' > phase
        /\ \A q \in run.sel : q > phase => phase' <= q
        /\ pc' \in {"phase", "after4", "rewrite"} /\ (pc' = "after4" <=> phase = 4)
        /\ pc' = "phase" => phase' <= 4
    BY <1>1, <1>7, AdvancesTypes
  <1>9. ~edited => ~Hit(phase)
    BY DEF Standing, ScriptEnds
  <1> QED
    BY <1>1, <1>3, <1>4, <1>6, <1>8, <1>9 DEF ScriptEnds, counters

\* A phase that is skipped.
LEMMA SkipsParts ==
    ASSUME TypeOK, Skips
    PROVE  /\ phase \in Phase /\ phase \in run.sel /\ run.sel \subseteq Phase
           /\ ~run.force /\ mem[phase] = Fingerprint(phase)
           /\ phase' \in 2..6 /\ phase' \in run.sel \cup {6} /\ phase' > phase
           /\ \A q \in run.sel : q > phase => phase' <= q
           /\ pc' \in {"phase", "after4", "rewrite"} /\ (pc' = "after4" <=> phase = 4)
           /\ pc' = "phase" => phase' <= 4
           /\ UNCHANGED <<src, file, disk, mem, run, print, tool, left, quiet, edited, disturbed>>
  <1>1. phase \in Phase /\ phase \in run.sel /\ run.sel \subseteq Phase
    BY RunTypes DEF Skips, TypeOK
  <1>2. Advances(phase) /\ run' = run
    BY DEF Skips
  <1>3. /\ phase' \in 2..6 /\ phase' \in run.sel \cup {6} /\ phase' > phase
        /\ \A q \in run.sel : q > phase => phase' <= q
        /\ pc' \in {"phase", "after4", "rewrite"} /\ (pc' = "after4" <=> phase = 4)
        /\ pc' = "phase" => phase' <= 4
    BY <1>1, <1>2, AdvancesTypes
  <1> QED
    BY <1>1, <1>3 DEF Skips, Hit, counters

\* The start of a run.
LEMMA StartsParts ==
    ASSUME TypeOK, Starts
    PROVE  /\ run'.sel \in Selections /\ run'.sel \in SUBSET Phase
           /\ phase' \in run'.sel /\ phase' \in Phase /\ \A q \in run'.sel : phase' <= q
           /\ pc = "idle" /\ pc' = IF phase' = 5 THEN "rewrite" ELSE "phase"
           /\ mem' = disk
           /\ disturbed' = (disturbed \/ SkipsStale(run'.sel) \/ LeavesBehind(run'.sel))
           /\ UNCHANGED <<src, file, disk, print, tool, quiet, edited>>
  <1>1. PICK sel \in Selections, force \in BOOLEAN :
           /\ run' = [sel |-> sel, force |-> force]
           /\ phase' = Min(sel)
           /\ pc' = IF Min(sel) = 5 THEN "rewrite" ELSE "phase"
           /\ disturbed' = (disturbed \/ SkipsStale(sel) \/ LeavesBehind(sel))
    BY DEF Starts
  <1>2. run'.sel = sel
    BY <1>1
  <1>3. sel \in SUBSET Phase /\ Min(sel) \in sel /\ \A q \in sel : Min(sel) <= q
    BY SelectionsArePhases, LeastPhase
  <1>4. pc = "idle" /\ mem' = disk /\ UNCHANGED <<src, file, disk, print, tool, quiet, edited>>
    BY DEF Starts
  <1> QED
    BY <1>1, <1>2, <1>3, <1>4

----------------------------------------------------------------------------
(* The invariant is inductive.                                             *)

\* Every step keeps Standing: a script runs for the fingerprint taken before it.
LEMMA StandingNext == TypeOK /\ Standing /\ Next => Standing'
  <1> SUFFICES ASSUME TypeOK, Standing, Next PROVE Standing'
    OBVIOUS
  <1>1. CASE Starts
    <2>1. pc' # "idle" /\ pc' # "script" /\ UNCHANGED <<quiet, edited>>
      BY <1>1, StartsParts
    <2> QED
      BY <2>1 DEF Standing
  <1>2. CASE Skips
    <2>1. pc' # "idle" /\ pc' # "script" /\ UNCHANGED <<quiet, edited>>
      BY <1>2, SkipsParts
    <2> QED
      BY <2>1 DEF Standing
  <1>3. CASE RunsScript
    <2>1. Fingerprint(phase)' = Fingerprint(phase) /\ Hit(phase)' = Hit(phase)
      BY <1>3 DEF RunsScript, Fingerprint, Hit
    <2>2. pc' = "script" /\ phase' = phase /\ print' = {Fingerprint(phase)} /\ ~Hit(phase)
          /\ UNCHANGED <<quiet, edited>>
      BY <1>3 DEF RunsScript, counters
    <2> QED
      BY <2>1, <2>2 DEF Standing
  <1>4. CASE ScriptEnds
    <2>1. pc' # "idle" /\ pc' # "script" /\ UNCHANGED <<quiet, edited>>
      BY <1>4, ScriptEndsParts
    <2> QED
      BY <2>1 DEF Standing
  <1>5. CASE ScriptFails \/ Dies
    BY <1>5, Zenon DEF ScriptFails, Dies, Abandons, Standing
  <1>6. CASE Rewrites
    <2>1. pc' # "idle" /\ pc' # "script" /\ UNCHANGED <<quiet, edited>>
      BY <1>6 DEF Rewrites, counters
    <2> QED
      BY <2>1 DEF Standing
  <1>7. CASE Saves
    BY <1>7, Zenon DEF Saves, Rests, Standing
  <1>8. CASE Edits
    BY <1>8 DEF Edits, Standing
  <1>9. CASE ToolReads
    BY <1>9 DEF ToolReads, Standing, Fingerprint, Hit
  <1>10. CASE ToolWrites
    <2>1. Fingerprint(phase)' = Fingerprint(phase)
      BY <1>10 DEF ToolWrites, Fingerprint
    <2>2. (pc # "idle" => mem' = mem) /\ (pc = "idle" => mem' = disk')
          /\ quiet' \in {quiet, 0} /\ UNCHANGED <<run, pc, phase, print, edited>>
      BY <1>10 DEF ToolWrites
    <2> QED
      BY <2>1, <2>2 DEF Standing, Hit
  <1> QED
    BY <1>1, <1>2, <1>3, <1>4, <1>5, <1>6, <1>7, <1>8, <1>9, <1>10 DEF Next

\* A run that starts where all is in place finds every phase it will leave behind due.
LEMMA UndisturbedStarts ==
    ASSUME TypeOK, Standing, Undisturbed, Starts
    PROVE  Undisturbed'
  <1> SUFFICES ASSUME ~disturbed' PROVE OnTheWay'
    BY StartsParts DEF Undisturbed
  <1>1. /\ run'.sel \in SUBSET Phase /\ phase' \in run'.sel /\ phase' \in Phase
        /\ \A q \in run'.sel : phase' <= q
        /\ pc = "idle" /\ mem' = mem /\ mem = disk /\ ~edited /\ edited' = edited
        /\ src' = src /\ file' = file
        /\ ~disturbed /\ ~SkipsStale(run'.sel) /\ ~LeavesBehind(run'.sel)
    BY StartsParts DEF Standing
  <1>2. InPlace
    BY <1>1 DEF Undisturbed
  <1>3. EntriesOfFiles' /\ CandidatesFollow' /\ DraftsFollow' /\ NamesAlike'
    BY <1>1, <1>2 DEF InPlace, EntriesOfFiles, CandidatesFollow, DraftsFollow, NamesAlike, Sans
  <1>4. run'.sel \cap {1, 2} # {} => {3, 4} \subseteq run'.sel
    BY <1>1 DEF LeavesBehind
  <1>5. NamesOnTheWay'
    <2>1. \A q \in 1..4 : ~(q \in run'.sel /\ q < phase')
      BY <1>1, SMT DEF Phase
    <2>2. \A q \in 1..4 : mem[q].names = mem[1].names
      BY <1>2 DEF InPlace, NamesAlike
    <2>3. ASSUME mem[1].names # src.names
          PROVE  1..4 \subseteq run'.sel \/ run'.sel = {5}
      <3>1. \A q \in 1..3 : disk[q] # Fingerprint(q)
        BY <1>1, <2>2, <2>3 DEF Fingerprint
      <3>2. \A p \in run'.sel \cap 3..4, q \in 1..3 : q < p => q \in run'.sel
        BY <1>1, <3>1 DEF SkipsStale
      <3>3. 3 \in run'.sel => 1 \in run'.sel /\ 2 \in run'.sel
        BY <3>2
      <3>4. 4 \in run'.sel => 1 \in run'.sel /\ 2 \in run'.sel /\ 3 \in run'.sel
        BY <3>2
      <3>5. 1 \in run'.sel \/ 2 \in run'.sel => 3 \in run'.sel /\ 4 \in run'.sel
        BY <1>4
      <3>6. CASE 4 \in run'.sel
        BY <3>4, <3>6, SMT
      <3>7. CASE 4 \notin run'.sel
        <4>1. \A q \in run'.sel : q = 5
          BY <1>1, <3>3, <3>5, <3>7, SMT DEF Phase
        <4> QED
          BY <1>1, <4>1
      <3> QED
        BY <3>6, <3>7
    <2> QED
      BY <1>1, <1>3, <2>1, <2>2, <2>3 DEF NamesOnTheWay
  <1> QED
    BY <1>1, <1>3, <1>4, <1>5 DEF OnTheWay

\* The entry that lets phase p be skipped is of the names.
LEMMA UndisturbedSkips ==
    ASSUME TypeOK, Undisturbed, Skips
    PROVE  Undisturbed'
  <1> SUFFICES ASSUME ~disturbed' PROVE OnTheWay'
    BY SkipsParts DEF Undisturbed
  <1>1. /\ phase \in Phase /\ phase \in run.sel /\ run.sel \subseteq Phase
        /\ ~run.force /\ mem[phase] = Fingerprint(phase)
        /\ phase' \in 2..6 /\ phase' > phase /\ \A q \in run.sel : q > phase => phase' <= q
        /\ UNCHANGED <<src, file, mem, run, edited, disturbed>>
    BY SkipsParts
  <1>2. OnTheWay
    BY <1>1 DEF Undisturbed, Skips
  <1>3. mem[phase].names = src.names
    BY <1>1 DEF Fingerprint
  <1>4. EntriesOfFiles' /\ (run'.sel \cap {1, 2} # {} => {3, 4} \subseteq run'.sel) /\ ~edited'
    BY <1>1, <1>2 DEF OnTheWay, EntriesOfFiles
  <1>5. NamesOnTheWay'
    <2>1. \A q \in 1..4 : q \in run.sel /\ q < phase' => q < phase \/ q = phase
      BY <1>1, SMT DEF Phase
    <2>2. \A q \in 1..4 : q \in run'.sel /\ q < phase' => mem'[q].names = src'.names
      BY <1>1, <1>2, <1>3, <2>1 DEF OnTheWay, NamesOnTheWay
    <2>3. \A q \in 1..4 : q >= phase' => q >= phase
      BY <1>1, SMT DEF Phase
    <2> QED
      BY <1>1, <1>2, <2>2, <2>3 DEF OnTheWay, NamesOnTheWay, NamesAlike
  <1>6. CandidatesFollow' \/ (phase' <= 3 /\ Due(3)' /\ Due(4)')
    <2>1. ASSUME phase <= 3, Due(3) PROVE phase' <= 3
      BY <1>1, <1>3, <2>1, SMT DEF Due, Phase
    <2>2. (CandidatesFollow' <=> CandidatesFollow) /\ (Due(3)' <=> Due(3)) /\ (Due(4)' <=> Due(4))
      BY <1>1 DEF CandidatesFollow, Due
    <2> QED
      BY <1>2, <2>1, <2>2 DEF OnTheWay
  <1>7. DraftsFollow' \/ (phase' <= 4 /\ Due(4)')
    <2>1. ASSUME phase <= 4, Due(4) PROVE phase' <= 4
      BY <1>1, <1>3, <2>1, SMT DEF Due, Phase
    <2>2. (DraftsFollow' <=> DraftsFollow) /\ (Due(4)' <=> Due(4))
      BY <1>1 DEF DraftsFollow, Due, Sans
    <2> QED
      BY <1>2, <2>1, <2>2 DEF OnTheWay
  <1> QED
    BY <1>4, <1>5, <1>6, <1>7 DEF OnTheWay

\* What a script makes of what is on the way.
LEMMA UndisturbedScriptEnds ==
    ASSUME TypeOK, Standing, Undisturbed, ScriptEnds
    PROVE  Undisturbed'
  <1> SUFFICES ASSUME ~disturbed' PROVE OnTheWay'
    BY ScriptEndsParts DEF Undisturbed
  <1>1. ~edited /\ OnTheWay
    BY ScriptEndsParts DEF Undisturbed, OnTheWay, ScriptEnds
  <1>2. /\ phase \in Phase /\ phase \in run.sel /\ run.sel \subseteq Phase
        /\ mem'[phase] = Fingerprint(phase) /\ \A q \in Phase : q # phase => mem'[q] = mem[q]
        /\ phase' \in 2..6 /\ phase' > phase /\ \A q \in run.sel : q > phase => phase' <= q
        /\ UNCHANGED <<src, run, edited>>
    BY <1>1, ScriptEndsParts
  <1>3. /\ file'.one = IF phase = 1 THEN src.ghidra ELSE file.one
        /\ file'.two = IF phase = 2 THEN src.ghidra ELSE file.two
        /\ file'.three = IF phase = 3 THEN Candidates ELSE file.three
        /\ file'.four = IF phase = 4 THEN Drafts ELSE file.four
        /\ file'.five = IF phase = 5 THEN file.verified ELSE file.five
    BY ScriptEndsParts
  <1>4. mem'[phase].names = src.names
    BY <1>2 DEF Fingerprint
  <1>5. (run'.sel \cap {1, 2} # {} => {3, 4} \subseteq run'.sel) /\ ~edited'
    BY <1>1, <1>2 DEF OnTheWay
  <1>6. NamesOnTheWay'
    <2>1. \A q \in 1..4 : q \in run.sel /\ q < phase' => q < phase \/ q = phase
      BY <1>2, SMT DEF Phase
    <2>2. \A q \in 1..4 : q \in Phase
      BY DEF Phase
    <2>3. \A q \in 1..4 : q \in run'.sel /\ q < phase' => mem'[q].names = src'.names
      <3>1. ASSUME NEW q \in 1..4, q \in run.sel, q < phase' PROVE mem'[q].names = src.names
        <4>1. CASE q = phase
          BY <1>4, <4>1
        <4>2. CASE q # phase
          BY <1>1, <1>2, <2>1, <2>2, <3>1, <4>2 DEF OnTheWay, NamesOnTheWay
        <4> QED
          BY <4>1, <4>2
      <3> QED
        BY <1>2, <3>1
    <2>4. CASE \A q \in 1..4 : mem[q].names = src.names
      <3>1. \A q \in 1..4 : mem'[q].names = src.names
        BY <1>2, <1>4, <2>2, <2>4
      <3> QED
        BY <1>2, <2>3, <3>1 DEF NamesOnTheWay
    <2>5. CASE /\ 1..4 \subseteq run.sel
               /\ \A q, r \in 1..4 : q >= phase /\ r >= phase => mem[q].names = mem[r].names
      <3>1. \A q \in 1..4 : q >= phase' => q >= phase /\ mem'[q] = mem[q]
        BY <1>2, <2>2, SMT DEF Phase
      <3>2. \A q, r \in 1..4 : q >= phase' /\ r >= phase' => mem'[q].names = mem'[r].names
        BY <2>5, <3>1
      <3> QED
        BY <1>2, <2>3, <2>5, <3>2 DEF NamesOnTheWay
    <2>6. CASE run.sel = {5} /\ NamesAlike
      <3>1. \A q \in 1..4 : mem'[q] = mem[q]
        BY <1>2, <2>2, <2>6
      <3>2. NamesAlike'
        BY <2>6, <3>1 DEF NamesAlike
      <3> QED
        BY <1>2, <2>3, <2>6, <3>2 DEF NamesOnTheWay
    <2> QED
      BY <1>1, <2>4, <2>5, <2>6 DEF OnTheWay, NamesOnTheWay
  <1>7. EntriesOfFiles'
    <2> USE DEF Phase
    <2>1. file'.three.names = mem'[3].names /\ file'.three.cross = mem'[3].index.two
      <3>1. CASE phase = 3
        BY <1>2, <1>3, <3>1 DEF Candidates, Fingerprint
      <3>2. CASE phase # 3
        BY <1>1, <1>2, <1>3, <3>2 DEF OnTheWay, EntriesOfFiles
      <3> QED
        BY <3>1, <3>2
    <2>2. file'.four.fields = mem'[4].fields
      <3>1. CASE phase = 4
        BY <1>2, <1>3, <3>1 DEF Drafts, Fingerprint
      <3>2. CASE phase # 4
        BY <1>1, <1>2, <1>3, <3>2 DEF OnTheWay, EntriesOfFiles
      <3> QED
        BY <3>1, <3>2
    <2>3. mem'[5].verified = {file'.five}
      <3>1. CASE phase = 5
        BY <1>2, <1>3, <3>1 DEF Fingerprint
      <3>2. CASE phase # 5
        BY <1>1, <1>2, <1>3, <3>2 DEF OnTheWay, EntriesOfFiles
      <3> QED
        BY <3>1, <3>2
    <2> QED
      BY <2>1, <2>2, <2>3 DEF EntriesOfFiles
  <1>8. ASSUME NEW q \in 3..4, q > phase PROVE Due(q) => Due(q)' /\ phase' <= q
    BY <1>2, <1>8 DEF Due, Phase
  <1>9. ASSUME phase \in {1, 2} PROVE Due(3) /\ Due(4)
    <2>1. {3, 4} \subseteq run.sel
      BY <1>1, <1>2, <1>9 DEF OnTheWay
    <2>2. ~run.force => mem[phase].names # src.names
      <3>1. mem[phase] # Fingerprint(phase) \/ run.force
        BY <1>1, ScriptEndsParts DEF Hit
      <3>2. mem[phase].names = src.names => mem[phase] = Fingerprint(phase)
        BY <1>2, <1>9, FingerprintParts DEF TypeOK, IsManifest
      <3> QED
        BY <3>1, <3>2
    <2>3. ~run.force => mem[3].names # src.names /\ mem[4].names # src.names
      <3>1. ~run.force => ~(\A q \in 1..4 : mem[q].names = src.names) /\ run.sel # {5}
        BY <1>2, <1>9, <2>1, <2>2
      <3>2. ~run.force => \A q, r \in 1..4 : q >= phase /\ r >= phase => mem[q].names = mem[r].names
        BY <1>1, <3>1 DEF OnTheWay, NamesOnTheWay
      <3>3. ~run.force => mem[3].names = mem[phase].names /\ mem[4].names = mem[phase].names
        BY <1>9, <3>2
      <3> QED
        BY <2>2, <3>3
    <2> QED
      BY <2>1, <2>3 DEF Due
  <1>10. CandidatesFollow' \/ (phase' <= 3 /\ Due(3)' /\ Due(4)')
    <2>1. CASE phase \in {1, 2}
      BY <1>8, <1>9, <2>1
    <2>2. CASE phase = 3
      BY <1>3, <2>2 DEF Candidates, CandidatesFollow
    <2>3. CASE phase > 3
      BY <1>1, <1>2, <1>3, <2>3 DEF OnTheWay, CandidatesFollow, Phase
    <2> QED
      BY <1>2, <2>1, <2>2, <2>3 DEF Phase
  <1>11. DraftsFollow' \/ (phase' <= 4 /\ Due(4)')
    <2>1. CASE phase \in {1, 2}
      BY <1>8, <1>9, <2>1
    <2>2. CASE phase = 3 /\ Due(4)
      BY <1>8, <2>2
    <2>3. CASE phase = 3 /\ ~Due(4)
      <3>1. CandidatesFollow /\ DraftsFollow
        BY <1>1, <2>3 DEF OnTheWay
      <3>2. mem[3].names = src.names
        <4>1. CASE \A q \in 1..4 : mem[q].names = src.names
          BY <4>1
        <4>2. CASE 1..4 \subseteq run.sel /\ mem[3].names = mem[4].names
          BY <2>3, <4>2 DEF Due
        <4>3. CASE run.sel = {5}
          BY <1>2, <2>3, <4>3
        <4> QED
          BY <1>1, <2>3, <4>1, <4>2, <4>3 DEF OnTheWay, NamesOnTheWay
      <3>3. file.three.names = src.names
        BY <1>1, <3>2 DEF OnTheWay, EntriesOfFiles
      <3>4. Sans(file'.three) = Sans(file.three)
        BY <1>3, <2>3, <3>1, <3>3 DEF Candidates, CandidatesFollow, Sans
      <3> QED
        BY <1>3, <2>3, <3>1, <3>4 DEF DraftsFollow
    <2>4. CASE phase = 4
      BY <1>3, <2>4 DEF Drafts, DraftsFollow, Sans
    <2>5. CASE phase = 5
      BY <1>1, <1>3, <2>5 DEF OnTheWay, DraftsFollow
    <2> QED
      BY <1>2, <2>1, <2>2, <2>3, <2>4, <2>5 DEF Phase
  <1> QED
    BY <1>5, <1>6, <1>7, <1>10, <1>11 DEF OnTheWay

\* Every step keeps Undisturbed; it begins anew at the end of a complete run with --force.
LEMMA UndisturbedNext ==
    TypeOK /\ Standing /\ Undisturbed /\ Heals /\ Passed /\ Next => Undisturbed'
  <1> SUFFICES ASSUME TypeOK, Standing, Undisturbed, Heals, Passed, Next PROVE Undisturbed'
    OBVIOUS
  <1>1. CASE RunsScript
    <2>1. /\ pc # "idle" /\ pc' # "idle"
          /\ UNCHANGED <<src, file, mem, run, phase, edited, disturbed>>
      BY <1>1 DEF RunsScript, counters
    <2>2. OnTheWay' <=> OnTheWay
      BY <2>1 DEF OnTheWay, NamesOnTheWay, NamesAlike, EntriesOfFiles, CandidatesFollow,
         DraftsFollow, Due, Sans
    <2> QED
      BY <2>1, <2>2 DEF Undisturbed
  <1>2. CASE ScriptFails \/ Dies
    BY <1>2, Zenon DEF ScriptFails, Dies, Abandons, Undisturbed
  <1>3. CASE Rewrites
    <2>1. /\ pc # "idle" /\ pc' # "idle"
          /\ UNCHANGED <<src, mem, run, phase, edited, disturbed>>
      BY <1>3 DEF Rewrites, counters
    <2>2. file'.one = file.one /\ file'.two = file.two /\ file'.three = file.three
          /\ file'.four = file.four /\ file'.five = file.five
      BY <1>3 DEF Rewrites, TypeOK, Files
    <2>3. OnTheWay' <=> OnTheWay
      BY <2>1, <2>2 DEF OnTheWay, NamesOnTheWay, NamesAlike, EntriesOfFiles, CandidatesFollow,
         DraftsFollow, Due, Sans
    <2> QED
      BY <2>1, <2>3 DEF Undisturbed
  <1>4. CASE Saves
    <2> SUFFICES ASSUME ~disturbed' PROVE InPlace'
      BY <1>4 DEF Saves, Rests, Undisturbed
    <2>1. UNCHANGED <<src, file, mem>> /\ pc = "tail" /\ phase = 6
      BY <1>4 DEF Saves, Rests, TypeOK
    <2>2. CASE disturbed
      <3>1. Complete /\ run.force
        BY <1>4, <2>2 DEF Saves, Rests, Complete
      <3>2. \A q \in Phase : mem[q].names = src.names
        BY <2>1, <3>1 DEF Passed, Phase
      <3>3. EntriesOfFiles /\ CandidatesFollow /\ DraftsFollow
        BY <2>1, <3>1 DEF Heals, Right, EntriesOfFiles
      <3> QED
        BY <2>1, <3>2, <3>3 DEF InPlace, NamesAlike, EntriesOfFiles, CandidatesFollow,
           DraftsFollow, Sans, Phase
    <2>3. CASE ~disturbed
      <3>1. OnTheWay
        BY <2>1, <2>3 DEF Undisturbed
      <3>2. NamesAlike
        <4>1. \A q \in 1..4 : q < phase
          BY <2>1
        <4> QED
          BY <3>1, <4>1 DEF OnTheWay, NamesOnTheWay, NamesAlike
      <3>3. EntriesOfFiles /\ CandidatesFollow /\ DraftsFollow
        BY <2>1, <3>1 DEF OnTheWay
      <3> QED
        BY <2>1, <3>2, <3>3 DEF InPlace, NamesAlike, EntriesOfFiles, CandidatesFollow,
           DraftsFollow, Sans
    <2> QED
      BY <2>2, <2>3
  <1>5. CASE Edits
    <2>1. disturbed' = (disturbed \/ pc # "idle") /\ UNCHANGED <<file, mem, pc>>
      BY <1>5 DEF Edits
    <2>2. InPlace' <=> InPlace
      BY <2>1 DEF InPlace, NamesAlike, EntriesOfFiles, CandidatesFollow, DraftsFollow, Sans
    <2> QED
      BY <2>1, <2>2 DEF Undisturbed
  <1>6. CASE ToolReads \/ ToolWrites
    <2>1. ~disturbed' => ~disturbed /\ mem' = mem
      BY <1>6 DEF ToolReads, ToolWrites, Standing
    <2>2. UNCHANGED <<src, file, run, pc, phase, edited>>
      BY <1>6 DEF ToolReads, ToolWrites
    <2>3. ~disturbed' => (OnTheWay' <=> OnTheWay) /\ (InPlace' <=> InPlace)
      BY <2>1, <2>2 DEF InPlace, OnTheWay, NamesOnTheWay, NamesAlike, EntriesOfFiles,
         CandidatesFollow, DraftsFollow, Due, Sans
    <2> QED
      BY <2>1, <2>2, <2>3 DEF Undisturbed
  <1> QED
    BY <1>1, <1>2, <1>3, <1>4, <1>5, <1>6, UndisturbedStarts, UndisturbedSkips,
       UndisturbedScriptEnds DEF Next

\* With --force no phase is skipped.
LEMMA HealsNext == TypeOK /\ Standing /\ Heals /\ Passed /\ Next => Heals'
  <1> SUFFICES ASSUME TypeOK, Standing, Heals, Passed, Next, Complete', run'.force PROVE Heals'
    BY DEF Heals
  <1>1. CASE Starts
    <2>1. phase' = 1
      BY <1>1, StartsParts DEF Complete, Phase
    <2> QED
      BY <2>1 DEF Heals
  <1>2. CASE ScriptEnds
    <2>1. /\ phase \in Phase /\ run.sel = Phase /\ run' = run /\ src' = src /\ pc # "idle"
          /\ mem'[phase] = Fingerprint(phase) /\ \A q \in Phase : q # phase => mem'[q] = mem[q]
          /\ phase' = phase + 1 /\ ~edited
      <3>1. run' = run /\ ~edited /\ run.sel = Phase /\ phase \in Phase
        BY <1>2, ScriptEndsParts DEF Complete
      <3>2. phase' \in 2..6 /\ phase' > phase /\ \A q \in Phase : q > phase => phase' <= q
        BY <1>2, <3>1, ScriptEndsParts
      <3>3. phase' = phase + 1
        BY <3>1, <3>2, SMT DEF Phase
      <3> QED
        BY <1>2, <3>1, <3>3, ScriptEndsParts DEF ScriptEnds
    <2>2. /\ file'.one = IF phase = 1 THEN src.ghidra ELSE file.one
          /\ file'.two = IF phase = 2 THEN src.ghidra ELSE file.two
          /\ file'.three = IF phase = 3 THEN Candidates ELSE file.three
          /\ file'.four = IF phase = 4 THEN Drafts ELSE file.four
          /\ file'.five = IF phase = 5 THEN file.verified ELSE file.five
      BY <1>2, ScriptEndsParts
    <2>3. /\ phase > 3 => Right /\ mem[3].names = src.names /\ file.three.cross = mem[3].index.two
          /\ phase > 4 => DraftsFollow /\ file.four.fields = mem[4].fields
      BY <2>1 DEF Heals, Complete
    <2>4. CASE phase \in 1..2
      BY <2>1, <2>4 DEF Heals
    <2>5. CASE phase = 3
      <3>1. Right'
        BY <2>1, <2>2, <2>5 DEF Right, CandidatesFollow, Candidates
      <3>2. mem'[3].names = src'.names /\ file'.three.cross = mem'[3].index.two
        BY <2>1, <2>2, <2>5 DEF Candidates, Fingerprint
      <3> QED
        BY <2>1, <2>5, <3>1, <3>2 DEF Heals
    <2>6. CASE phase = 4
      <3>1. Right' /\ mem'[3].names = src'.names /\ file'.three.cross = mem'[3].index.two
        BY <2>1, <2>2, <2>3, <2>6 DEF Right, CandidatesFollow, Phase
      <3>2. DraftsFollow' /\ file'.four.fields = mem'[4].fields
        BY <2>1, <2>2, <2>6 DEF DraftsFollow, Drafts, Sans, Fingerprint
      <3> QED
        BY <2>1, <2>6, <3>1, <3>2 DEF Heals
    <2>7. CASE phase = 5
      <3>1. Right' /\ mem'[3].names = src'.names /\ file'.three.cross = mem'[3].index.two
        BY <2>1, <2>2, <2>3, <2>7 DEF Right, CandidatesFollow, Phase
      <3>2. DraftsFollow' /\ file'.four.fields = mem'[4].fields
        BY <2>1, <2>2, <2>3, <2>7 DEF DraftsFollow, Sans, Phase
      <3>3. mem'[5].verified = {file'.five}
        BY <2>1, <2>2, <2>7 DEF Fingerprint
      <3> QED
        BY <3>1, <3>2, <3>3 DEF Heals
    <2> QED
      BY <2>1, <2>4, <2>5, <2>6, <2>7 DEF Phase
  <1>3. CASE Skips
    BY <1>3, SkipsParts
  <1>4. CASE RunsScript \/ Rewrites \/ ToolReads \/ ToolWrites
    <2>1. /\ pc # "idle" /\ mem' = mem
          /\ UNCHANGED <<src, run, phase, edited>>
      BY <1>4 DEF RunsScript, Rewrites, ToolReads, ToolWrites, Complete, counters
    <2>2. file'.one = file.one /\ file'.two = file.two /\ file'.three = file.three
          /\ file'.four = file.four /\ file'.five = file.five
      BY <1>4 DEF RunsScript, Rewrites, ToolReads, ToolWrites, TypeOK, Files
    <2>3. Complete /\ run.force
      BY <2>1 DEF Complete
    <2> QED
      BY <2>1, <2>2, <2>3 DEF Heals, Right, CandidatesFollow, DraftsFollow, Sans
  <1>5. CASE ScriptFails \/ Dies \/ Saves
    BY <1>5 DEF ScriptFails, Dies, Saves, Abandons, Rests, Complete
  <1>6. CASE Edits
    BY <1>6 DEF Edits, Complete
  <1> QED
    BY <1>1, <1>2, <1>3, <1>4, <1>5, <1>6 DEF Next

\* What main writes before and after phase 5 is right when it has been written.
LEMMA RewritesParts ==
    ASSUME TypeOK, Rewrites
    PROVE  /\ file'.one = file.one /\ file'.two = file.two /\ file'.three = file.three
           /\ file'.four = file.four /\ file'.five = file.five
           /\ file'.index = Index /\ Index' = Index /\ SharedAreRight'
           /\ phase \in 5..6 /\ phase \in run.sel \cup {6}
           /\ pc' = "rewrite" \/ (pc' = "phase" /\ phase = 5) \/ (pc' = "tail" /\ phase = 6)
           /\ pc = "rewrite" => pc' # "rewrite"
           /\ UNCHANGED <<src, disk, mem, run, phase, print, tool, left, quiet, edited, disturbed>>
  <1>1. /\ file'.one = file.one /\ file'.two = file.two /\ file'.three = file.three
        /\ file'.four = file.four /\ file'.five = file.five
        /\ file'.index = Index /\ file'.verified = Verified
    BY DEF Rewrites, TypeOK, Files
  <1>2. UNCHANGED <<src, disk, mem, run, phase, print, tool, left, quiet, edited, disturbed>>
    BY DEF Rewrites, counters
  <1>3. Index' = Index /\ Verified' = Verified
    BY <1>1, <1>2 DEF Index, Verified
  <1>4. phase \in 5..6 /\ phase \in run.sel \cup {6}
    BY DEF Rewrites, TypeOK
  <1>5. /\ pc' = "rewrite" \/ (pc' = "phase" /\ phase = 5) \/ (pc' = "tail" /\ phase = 6)
        /\ pc = "rewrite" => pc' # "rewrite"
    BY <1>4 DEF Rewrites
  <1> QED
    BY <1>1, <1>2, <1>3, <1>4, <1>5 DEF SharedAreRight

\* A complete run goes through the phases one after the other.
LEMMA CompleteStep ==
    ASSUME TypeOK, Standing, Skips \/ ScriptEnds, Complete'
    PROVE  /\ Complete /\ phase \in Phase /\ phase' = phase + 1
           /\ mem'[phase] = Fingerprint(phase) /\ \A q \in Phase : q # phase => mem'[q] = mem[q]
           /\ \A p \in Phase : Fingerprint(p)' = Fingerprint(p)
           /\ file'.index = file.index /\ file'.verified = file.verified
           /\ pc' = IF phase = 4 THEN "after4" ELSE IF phase = 5 THEN "rewrite" ELSE "phase"
           /\ UNCHANGED <<src, run, quiet, edited, disturbed>>
  <1>1. /\ run' = run /\ run.sel = Phase /\ ~edited /\ phase \in Phase /\ src' = src
        /\ UNCHANGED <<quiet, edited, disturbed>>
        /\ mem'[phase] = Fingerprint(phase) /\ \A q \in Phase : q # phase => mem'[q] = mem[q]
        /\ file'.index = file.index /\ file'.verified = file.verified
        /\ phase' \in 2..6 /\ phase' > phase /\ \A q \in Phase : q > phase => phase' <= q
        /\ pc' \in {"phase", "after4", "rewrite"} /\ (pc' = "after4" <=> phase = 4)
        /\ pc' = "phase" => phase' <= 4
    <2>1. CASE Skips
      BY <2>1, SkipsParts DEF Complete
    <2>2. CASE ScriptEnds
      BY <2>2, ScriptEndsParts DEF Complete
    <2> QED
      BY <2>1, <2>2
  <1>2. phase' = phase + 1
    BY <1>1, SMT DEF Phase
  <1>3. Advances(phase)
    BY DEF Skips, ScriptEnds
  <1>4. pc' = IF phase = 4 THEN "after4" ELSE IF phase = 5 THEN "rewrite" ELSE "phase"
    <2>1. CASE phase \in 1..3
      <3>1. pc' \in {"after4", "rewrite"} => phase' >= 5
        BY <1>1, <1>3, AdvancesTypes
      <3> QED
        BY <1>1, <1>2, <2>1, <3>1
    <2>2. CASE phase \in 4..5
      BY <1>1, <1>2, <2>2
    <2> QED
      BY <1>1, <2>1, <2>2 DEF Phase
  <1>5. \A p \in Phase : Fingerprint(p)' = Fingerprint(p)
    BY <1>1 DEF Fingerprint
  <1> QED
    BY <1>1, <1>2, <1>4, <1>5 DEF Complete, Skips, ScriptEnds

\* Every step keeps Passed: the shared files are written before phase 5 and do not change after.
LEMMA PassedNext == TypeOK /\ Standing /\ Passed /\ Next => Passed'
  <1> SUFFICES ASSUME TypeOK, Standing, Passed, Next, Complete' PROVE Passed'
    BY DEF Passed
  <1>1. CASE Starts
    <2>1. phase' = 1 /\ pc' = "phase"
      BY <1>1, StartsParts DEF Complete, Phase
    <2> QED
      BY <2>1 DEF Passed, Phase
  <1>2. CASE Skips \/ ScriptEnds
    <2>1. /\ Complete /\ phase \in Phase /\ phase' = phase + 1
          /\ mem'[phase] = Fingerprint(phase) /\ \A q \in Phase : q # phase => mem'[q] = mem[q]
          /\ \A p \in Phase : Fingerprint(p)' = Fingerprint(p)
          /\ file'.index = file.index /\ file'.verified = file.verified
          /\ pc' = IF phase = 4 THEN "after4" ELSE IF phase = 5 THEN "rewrite" ELSE "phase"
          /\ src' = src
      BY <1>2, CompleteStep
    <2> USE DEF Phase
    <2>2. ASSUME NEW q \in Phase, q < phase' PROVE mem'[q].names = src'.names
      <3>1. CASE q = phase
        BY <2>1, <3>1 DEF Fingerprint
      <3>2. CASE q # phase
        BY <2>1, <2>2, <3>2 DEF Passed
      <3> QED
        BY <3>1, <3>2
    <2>3. phase' = 4 => mem'[3].index = file'.index
      BY <2>1 DEF Fingerprint
    <2>4. ASSUME phase' > 4
          PROVE  mem'[4].fields = src'.fields /\ mem'[4].index = mem'[3].index
      <3>1. CASE phase = 4
        <4>1. mem[3].index = file.index
          BY <2>1, <3>1 DEF Passed
        <4> QED
          BY <2>1, <3>1, <4>1 DEF Fingerprint
      <3>2. CASE phase = 5
        BY <2>1, <3>2 DEF Passed
      <3> QED
        BY <2>1, <2>4, <3>1, <3>2
    <2>5. ASSUME phase = 5 PROVE SharedAreRight' /\ mem'[5] = Fingerprint(5)'
      <3>1. SharedAreRight
        BY <1>2, <2>1, <2>5 DEF Passed, Skips, ScriptEnds
      <3>2. file'.one = file.one /\ file'.two = file.two /\ file'.three = file.three
            /\ file'.four = file.four
        BY <1>2, <2>5, ScriptEndsParts DEF Skips
      <3>3. Index' = Index /\ Verified' = Verified
        BY <2>1, <3>2 DEF Index, Verified
      <3> QED
        BY <2>1, <2>5, <3>1, <3>3 DEF SharedAreRight
    <2>6. pc' = "after4" => phase' = 5
      BY <2>1
    <2>7. phase' = 6 => SharedAreRight' /\ mem'[5] = Fingerprint(5)'
      BY <2>1, <2>5
    <2>8. ~(pc' \in {"phase", "script"} /\ phase' = 5)
      BY <2>1
    <2> QED
      BY <2>2, <2>3, <2>4, <2>6, <2>7, <2>8 DEF Passed
  <1>3. CASE RunsScript
    <2>1. pc = "phase" /\ pc' = "script" /\ UNCHANGED <<src, file, mem, run, phase, edited>>
      BY <1>3 DEF RunsScript, counters
    <2>2. Complete
      BY <2>1 DEF Complete
    <2>3. Index' = Index /\ Verified' = Verified /\ Fingerprint(5)' = Fingerprint(5)
      BY <2>1 DEF Index, Verified, Fingerprint
    <2> QED
      BY <2>1, <2>2, <2>3 DEF Passed, SharedAreRight
  <1>4. CASE Rewrites
    <2>1. /\ SharedAreRight' /\ phase \in 5..6 /\ phase' = phase
          /\ pc' = "rewrite" \/ (pc' = "phase" /\ phase = 5) \/ (pc' = "tail" /\ phase = 6)
          /\ file'.index = Index
          /\ UNCHANGED <<src, mem, run, edited>>
      BY <1>4, RewritesParts
    <2>2. Complete
      BY <1>4, <2>1 DEF Complete, Rewrites
    <2>3. ASSUME phase = 6 PROVE mem'[5] = Fingerprint(5)'
      <3>1. file'.index = file.index /\ file'.verified = file.verified
        BY <1>4, <2>2, <2>3 DEF Passed, SharedAreRight, Rewrites, TypeOK, Files
      <3> QED
        BY <2>1, <2>2, <2>3, <3>1 DEF Passed, Fingerprint
    <2>4. phase # 4 /\ pc' # "after4"
      BY <2>1
    <2> QED
      BY <2>1, <2>2, <2>3, <2>4 DEF Passed
  <1>5. CASE ToolReads \/ ToolWrites
    <2>1. pc # "idle" /\ UNCHANGED <<src, file, mem, run, pc, phase, edited>>
      BY <1>5 DEF ToolReads, ToolWrites, Complete
    <2>2. Complete
      BY <2>1 DEF Complete
    <2>3. Index' = Index /\ Verified' = Verified /\ Fingerprint(5)' = Fingerprint(5)
      BY <2>1 DEF Index, Verified, Fingerprint
    <2> QED
      BY <2>1, <2>2, <2>3 DEF Passed, SharedAreRight
  <1>6. CASE ScriptFails \/ Dies \/ Saves
    BY <1>6 DEF ScriptFails, Dies, Saves, Abandons, Rests, Complete
  <1>7. CASE Edits
    BY <1>7 DEF Edits, Complete
  <1> QED
    BY <1>1, <1>2, <1>3, <1>4, <1>5, <1>6, <1>7 DEF Next

\* The tools, beside a run or between two.
LEMMA ToolsParts ==
    ASSUME TypeOK, Standing, ToolReads \/ ToolWrites
    PROVE  /\ UNCHANGED <<src, file, run, pc, phase, print, edited>>
           /\ pc # "idle" => mem' = mem
           /\ ~disturbed' => ~disturbed /\ mem' = mem
           /\ quiet' = 0 \/ (quiet' = quiet /\ mem' = mem)
  <1>1. CASE ToolReads
    BY <1>1 DEF ToolReads
  <1>2. CASE ToolWrites
    <2>1. PICK manifest \in tool :
             /\ disk' = manifest
             /\ mem' = IF pc = "idle" THEN manifest ELSE mem
             /\ disturbed' = (disturbed \/ manifest # disk)
             /\ quiet' = IF manifest # disk THEN 0 ELSE quiet
      BY <1>2 DEF ToolWrites
    <2>2. UNCHANGED <<src, file, run, pc, phase, print, edited>>
      BY <1>2 DEF ToolWrites
    <2>3. manifest = disk => mem' = mem
      BY <2>1 DEF Standing
    <2>4. ~disturbed' => ~disturbed /\ manifest = disk
      BY <2>1, Zenon
    <2>5. pc # "idle" => mem' = mem
      BY <2>1
    <2>6. quiet' = 0 \/ (quiet' = quiet /\ manifest = disk)
      BY <2>1
    <2> QED
      BY <2>2, <2>3, <2>4, <2>5, <2>6
  <1> QED
    BY <1>1, <1>2

\* Every step keeps Again: phase 3 runs only on an index that has moved, and then moves it to
\* where it stays.
LEMMA AgainNext == TypeOK /\ Standing /\ Passed /\ Again /\ Rested /\ Next => Again'
  <1> SUFFICES ASSUME TypeOK, Standing, Passed, Again, Rested, Next,
                      Complete', ~run'.force, quiet' >= 1
               PROVE  Again'
    BY DEF Again
  <1>1. CASE Starts
    <2>1. phase' = 1 /\ pc = "idle" /\ mem' = mem /\ UNCHANGED <<src, file, quiet>>
      BY <1>1, StartsParts DEF Complete, Standing, Phase
    <2>0. ~disturbed' => ~disturbed
      BY <1>1, StartsParts, Zenon
    <2>2. /\ \A q \in 1..4 : mem[q].names = src.names
          /\ file.index = Index /\ (Strong => mem[3].index = file.index \/ Right)
      BY <2>1 DEF Rested, SharedAreRight
    <2>3. Index' = Index /\ (Right' <=> Right) /\ (Strong' => Strong)
      BY <2>0, <2>1 DEF Index, Right, CandidatesFollow, Strong
    <2> QED
      BY <2>1, <2>2, <2>3 DEF Again
  <1>2. CASE Skips \/ ScriptEnds
    <2>1. /\ Complete /\ phase \in Phase /\ phase' = phase + 1
          /\ mem'[phase] = Fingerprint(phase) /\ \A q \in Phase : q # phase => mem'[q] = mem[q]
          /\ file'.index = file.index
          /\ UNCHANGED <<src, run, quiet, edited, disturbed>>
      BY <1>2, CompleteStep
    <2> USE DEF Phase
    <2>2. ~run.force /\ quiet >= 1 /\ (Strong' <=> Strong)
      BY <2>1 DEF Strong
    <2>3. ASSUME phase <= 3, mem[phase].names = src.names,
                 phase = 3 => mem[3].index = file.index
          PROVE  Skips
      <3>1. mem[phase] \in Entry(phase)
        BY <2>1 DEF TypeOK, IsManifest
      <3>2. mem[phase] = Fingerprint(phase)
        BY <2>1, <2>3, <3>1, FingerprintParts
      <3>3. ~ScriptEnds
        BY <2>1, <2>2, <3>2, ScriptEndsParts DEF Complete, Hit
      <3> QED
        BY <1>2, <3>3
    <2>4. CASE phase <= 3
      <3>1. /\ file.index = Index /\ \A q \in 1..4 : mem[q].names = src.names
            /\ Strong => mem[3].index = file.index \/ Right
        BY <2>1, <2>2, <2>4 DEF Again
      <3>2. mem[phase].names = src.names
        BY <2>1, <2>4, <3>1
      <3>3. CASE phase \in 1..2
        <4>1. Skips
          BY <2>3, <3>2, <3>3
        <4>2. UNCHANGED <<file, mem>>
          BY <4>1 DEF Skips
        <4>3. Index' = Index /\ (Right' <=> Right)
          BY <2>1, <4>2 DEF Index, Right, CandidatesFollow
        <4> QED
          BY <2>1, <2>2, <3>1, <3>3, <4>2, <4>3 DEF Again
      <3>4. CASE phase = 3 /\ Skips
        <4>1. UNCHANGED <<file, mem>>
          BY <3>4 DEF Skips
        <4>2. mem'[3].index = file.index /\ Index' = Index
          BY <2>1, <3>4, <4>1 DEF Fingerprint, Index
        <4> QED
          BY <2>1, <3>1, <3>4, <4>2 DEF Again
      <3>5. CASE phase = 3 /\ ~Skips
        <4>1. /\ file'.one = file.one /\ file'.two = file.two /\ file'.three = Candidates
          BY <1>2, <3>5, ScriptEndsParts
        <4>2. Right'
          BY <2>1, <4>1 DEF Right, CandidatesFollow, Candidates
        <4>3. mem'[3].index = file.index
          BY <2>1, <3>5 DEF Fingerprint
        <4>4. ASSUME Strong PROVE mem'[3].index = Index'
          <5>1. Right
            BY <2>3, <3>1, <3>2, <3>5, <4>4
          <5>2. Index' = Index
            BY <2>1, <4>1, <5>1 DEF Index, Right, CandidatesFollow, Candidates
          <5> QED
            BY <3>1, <4>3, <5>2
        <4> QED
          BY <2>1, <2>2, <3>5, <4>2, <4>4 DEF Again
      <3> QED
        BY <2>1, <2>4, <3>3, <3>4, <3>5
    <2>5. CASE phase > 3
      <3>1. file'.one = file.one /\ file'.two = file.two /\ file'.three = file.three
        BY <1>2, <2>5, ScriptEndsParts DEF Skips
      <3>2. Index' = Index /\ (Right' <=> Right)
        BY <2>1, <3>1 DEF Index, Right, CandidatesFollow
      <3>3. mem'[3] = mem[3]
        BY <2>1, <2>5
      <3> QED
        BY <2>1, <2>2, <2>5, <3>2, <3>3 DEF Again
    <2> QED
      BY <2>1, <2>4, <2>5
  <1>3. CASE RunsScript \/ ToolReads \/ ToolWrites
    <2>1. /\ pc # "idle" /\ UNCHANGED <<src, file, mem, run, phase, edited>>
          /\ quiet' = quiet /\ (~disturbed' => ~disturbed)
      <3>1. CASE RunsScript
        BY <3>1 DEF RunsScript, counters
      <3>2. CASE ToolReads \/ ToolWrites
        BY <3>2, ToolsParts DEF Complete
      <3> QED
        BY <1>3, <3>1, <3>2
    <2>2. Complete /\ Index' = Index /\ (Right' <=> Right) /\ (Strong' => Strong)
      BY <2>1 DEF Complete, Index, Right, CandidatesFollow, Strong
    <2> QED
      BY <2>1, <2>2 DEF Again
  <1>4. CASE Rewrites
    <2>1. /\ phase \in 5..6 /\ phase' = phase /\ Index' = Index
          /\ file'.one = file.one /\ file'.two = file.two /\ file'.three = file.three
          /\ UNCHANGED <<src, mem, run, quiet, edited, disturbed>>
      BY <1>4, RewritesParts
    <2>2. Complete /\ (Right' <=> Right) /\ (Strong' <=> Strong)
      BY <1>4, <2>1 DEF Complete, Right, CandidatesFollow, Strong, Rewrites
    <2> QED
      BY <2>1, <2>2 DEF Again
  <1>5. CASE ScriptFails \/ Dies \/ Saves
    BY <1>5 DEF ScriptFails, Dies, Saves, Abandons, Rests, Complete
  <1>6. CASE Edits
    BY <1>6 DEF Edits, Complete
  <1> QED
    BY <1>1, <1>2, <1>3, <1>4, <1>5, <1>6 DEF Next

\* The end of a run that counts.
LEMMA SavesParts ==
    ASSUME TypeOK, Saves, quiet' >= 1
    PROVE  /\ Complete /\ phase = 6 /\ pc = "tail" /\ UNCHANGED <<src, file, mem>>
           /\ quiet \in 0..3 /\ quiet' \in 0..3
           /\ run.force => quiet' = 1
           /\ ~run.force => /\ quiet' = Min({quiet + 1, 3})
                            /\ quiet' <= quiet + 1 /\ (~disturbed' => ~disturbed)
  <1>1. pc = "tail" /\ phase = 6 /\ UNCHANGED <<src, file, mem>>
    BY DEF Saves, Rests, TypeOK
  <1>2. run.sel = Phase /\ ~edited
    <2>1. ASSUME run.sel # Phase \/ edited PROVE quiet' = 0
      BY <2>1, Zenon DEF Saves, Rests
    <2> QED
      BY <2>1
  <1>3. run.force => quiet' = 1
    BY <1>2, Zenon DEF Saves, Rests
  <1>4. ~run.force => quiet' = Min({quiet + 1, 3})
    BY <1>2, Zenon DEF Saves, Rests
  <1>5. Min({quiet + 1, 3}) <= quiet + 1
    <2>1. quiet + 1 \in 1..4
      BY DEF TypeOK
    <2>2. \E q \in {quiet + 1, 3} : \A r \in {quiet + 1, 3} : q <= r
      BY <2>1
    <2> QED
      BY <2>1, <2>2 DEF Min
  <1>6. ~run.force /\ ~disturbed' => ~disturbed
    BY Zenon DEF Saves, Rests
  <1>7. quiet \in 0..3 /\ quiet' \in 0..3
    BY SavesTypes DEF TypeOK
  <1> QED
    BY <1>1, <1>2, <1>3, <1>4, <1>5, <1>6, <1>7 DEF Complete

\* Every step keeps Rested: at the end of a run main saves what it has passed.
LEMMA RestedNext ==
    TypeOK /\ Standing /\ Undisturbed /\ Heals /\ Passed /\ Again /\ Rested /\ Next => Rested'
  <1> SUFFICES ASSUME TypeOK, Standing, Undisturbed, Heals, Passed, Again, Rested, Next,
                      pc' = "idle", quiet' >= 1
               PROVE  Rested'
    BY DEF Rested
  <1>1. CASE Saves
    <2>1. /\ Complete /\ phase = 6 /\ pc = "tail" /\ UNCHANGED <<src, file, mem>>
          /\ quiet \in 0..3 /\ quiet' \in 0..3
          /\ run.force => quiet' = 1
          /\ ~run.force => quiet' <= quiet + 1 /\ (~disturbed' => ~disturbed)
      BY <1>1, SavesParts
    <2>2. /\ \A q \in 1..4 : mem[q].names = src.names
          /\ SharedAreRight /\ mem[5] = Fingerprint(5)
          /\ mem[4].fields = src.fields /\ mem[4].index = mem[3].index
      BY <2>1 DEF Passed, Phase
    <2>3. ASSUME Strong' PROVE mem[3].index = file.index \/ Right
      <3>1. CASE run.force
        BY <2>1, <3>1 DEF Heals
      <3>2. CASE ~run.force /\ quiet' >= 2
        <4>1. quiet >= 1
          BY <2>1, <3>2
        <4> QED
          BY <2>1, <2>2, <3>2, <4>1 DEF Again, SharedAreRight
      <3>3. CASE ~run.force /\ ~(quiet' >= 2)
        <4>1. ~disturbed
          BY <2>1, <2>3, <3>3 DEF Strong
        <4>2. CandidatesFollow /\ file.three.names = mem[3].names
          BY <2>1, <4>1 DEF Undisturbed, OnTheWay, EntriesOfFiles
        <4> QED
          BY <2>2, <4>2 DEF Right
      <3> QED
        BY <3>1, <3>2, <3>3
    <2>4. (SharedAreRight' <=> SharedAreRight) /\ (Right' <=> Right)
          /\ Fingerprint(5)' = Fingerprint(5)
      BY <2>1 DEF SharedAreRight, Index, Verified, Right, CandidatesFollow, Fingerprint
    <2> QED
      BY <2>1, <2>2, <2>3, <2>4 DEF Rested
  <1>2. CASE ToolReads \/ ToolWrites
    <2>1. pc = "idle" /\ quiet' = quiet /\ mem' = mem /\ UNCHANGED <<src, file>>
          /\ (~disturbed' => ~disturbed)
      BY <1>2, ToolsParts
    <2>2. (SharedAreRight' <=> SharedAreRight) /\ (Right' <=> Right)
          /\ Fingerprint(5)' = Fingerprint(5) /\ (Strong' => Strong)
      BY <2>1 DEF SharedAreRight, Index, Verified, Right, CandidatesFollow, Fingerprint, Strong
    <2> QED
      BY <2>1, <2>2 DEF Rested
  <1>3. CASE Edits \/ ScriptFails \/ Dies
    BY <1>3 DEF Edits, ScriptFails, Dies, Abandons
  <1>4. CASE Starts
    BY <1>4, StartsParts
  <1>5. CASE Skips
    BY <1>5, SkipsParts
  <1>6. CASE RunsScript
    BY <1>6 DEF RunsScript
  <1>7. CASE ScriptEnds
    BY <1>7, ScriptEndsParts
  <1>8. CASE Rewrites
    BY <1>8, RewritesParts
  <1> QED
    BY <1>1, <1>2, <1>3, <1>4, <1>5, <1>6, <1>7, <1>8 DEF Next

\* Every step keeps Still: main skips every phase and writes the shared files as they are.
LEMMA StillNext ==
    TypeOK /\ Standing /\ Passed /\ Again /\ Still /\ Next => Still'
  <1> SUFFICES ASSUME TypeOK, Standing, Passed, Again, Still, Next, Settled', ~run'.force
               PROVE  Still'
    BY DEF Still
  <1>0. quiet' \in 0..3 /\ quiet' >= 2
    BY TypesNext DEF TypeOK, Settled
  <1>1. CASE Saves
    <2>1. /\ Complete /\ phase = 6 /\ pc = "tail" /\ UNCHANGED <<src, file, mem>>
          /\ ~run.force /\ quiet \in 0..3 /\ quiet' <= quiet + 1 /\ (~disturbed' => ~disturbed)
      BY <1>0, <1>1, SavesParts
    <2>2. quiet >= 1 /\ Strong
      BY <1>0, <2>1 DEF Settled, Strong
    <2>3. mem[3].index = Index
      BY <2>1, <2>2 DEF Again
    <2>4. SharedAreRight /\ mem[3].index = file.index /\ mem[4].index = file.index
          /\ mem[4].fields = src.fields /\ mem[5] = Fingerprint(5)
          /\ \A q \in Phase : mem[q].names = src.names
      BY <2>1, <2>3 DEF Passed, SharedAreRight, Phase
    <2>5. ASSUME NEW q \in Phase PROVE mem[q] = Fingerprint(q)
      <3>1. mem[q] \in Entry(q)
        BY DEF TypeOK, IsManifest
      <3>2. CASE q = 5
        BY <2>4, <3>2
      <3>3. CASE q # 5
        <4>1. q >= 3 => mem[q].index = file.index
          BY <2>4, <3>3 DEF Phase
        <4>2. q >= 4 => mem[q].fields = src.fields
          BY <2>4, <3>3 DEF Phase
        <4> QED
          BY <2>4, <3>1, <3>3, <4>1, <4>2, FingerprintParts
      <3> QED
        BY <3>2, <3>3
    <2>6. (SharedAreRight' <=> SharedAreRight) /\ \A q \in Phase : Fingerprint(q)' = Fingerprint(q)
      BY <2>1 DEF SharedAreRight, Index, Verified, Fingerprint
    <2>7. pc' = "idle"
      BY <1>1 DEF Saves, Rests
    <2> QED
      BY <2>1, <2>4, <2>5, <2>6, <2>7 DEF Still
  <1>2. CASE Edits \/ ScriptFails \/ Dies
    <2>1. quiet' = 0
      BY <1>2 DEF Edits, ScriptFails, Dies, Abandons
    <2> QED
      BY <2>1 DEF Settled
  <1>3. CASE Starts \/ Skips \/ ToolReads \/ ToolWrites
    <2>1. /\ mem' = mem /\ UNCHANGED <<src, file, quiet>> /\ (~disturbed' => ~disturbed)
          /\ ~run.force /\ (pc # "script" => pc' # "script")
      <3>1. CASE Starts
        BY <3>1, StartsParts DEF Standing, TypeOK, NoRun
      <3>2. CASE Skips
        BY <3>2, SkipsParts
      <3>3. CASE ToolReads \/ ToolWrites
        <4>1. /\ UNCHANGED <<src, file, run, pc>> /\ (~disturbed' => ~disturbed)
              /\ quiet' = 0 \/ (quiet' = quiet /\ mem' = mem)
          BY <3>3, ToolsParts
        <4> QED
          BY <1>0, <4>1
      <3> QED
        BY <1>3, <3>1, <3>2, <3>3
    <2>2. Settled
      BY <2>1 DEF Settled
    <2>3. (SharedAreRight' <=> SharedAreRight) /\ \A q \in Phase : Fingerprint(q)' = Fingerprint(q)
      BY <2>1 DEF SharedAreRight, Index, Verified, Fingerprint
    <2> QED
      BY <2>1, <2>2, <2>3 DEF Still
  <1>4. CASE RunsScript
    <2>1. Settled /\ ~run.force
      BY <1>4 DEF RunsScript, Settled, counters
    <2>2. phase \in Phase
      BY <1>4, RunTypes DEF RunsScript, TypeOK
    <2> QED
      BY <1>4, <2>1, <2>2 DEF Still, RunsScript, Hit
  <1>5. CASE ScriptEnds
    <2>1. Settled /\ ~run.force /\ pc = "script"
      BY <1>5 DEF ScriptEnds, Settled, counters
    <2> QED
      BY <2>1 DEF Still
  <1>6. CASE Rewrites
    <2>1. /\ SharedAreRight' /\ file'.index = Index /\ pc' # "script"
          /\ UNCHANGED <<src, mem, run, quiet, disturbed>>
      BY <1>6, RewritesParts
    <2>2. Settled /\ ~run.force
      BY <2>1 DEF Settled
    <2>3. file'.index = file.index /\ file'.verified = file.verified
      BY <1>6, <2>1, <2>2 DEF Still, SharedAreRight, Rewrites, TypeOK, Files
    <2>4. \A q \in Phase : Fingerprint(q)' = Fingerprint(q)
      BY <2>1, <2>3 DEF Fingerprint
    <2> QED
      BY <2>1, <2>2, <2>4 DEF Still
  <1> QED
    BY <1>1, <1>2, <1>3, <1>4, <1>5, <1>6 DEF Next

\* The invariant holds after the first complete run.
LEMMA InvariantInit == Init => IInv
  <1> SUFFICES ASSUME Init PROVE IInv
    OBVIOUS
  <1>1. TypeOK
    BY TypesInit
  <1>2. /\ src.names = 0 /\ src.fields = 0 /\ pc = "idle" /\ mem = disk /\ edited = FALSE
        /\ disturbed = FALSE /\ quiet = 1
        /\ \A p \in Phase :
             /\ mem[p].names = 0
             /\ mem[p].index = IF p = 5 THEN file.index ELSE NoIndex
             /\ mem[p].fields = IF p >= 4 THEN 0 ELSE None
             /\ mem[p].verified = IF p = 5 THEN {file.verified} ELSE {}
    BY DEF Init, FirstManifest
  <1>3. /\ file.one = 0 /\ file.two = 0
        /\ file.three = [names |-> 0, one |-> 0, two |-> 0, cross |-> None]
        /\ file.four = [three |-> FirstThree, fields |-> 0]
        /\ file.index = [one |-> 0, two |-> 0, names |-> 0, three |-> FirstThree]
        /\ file.verified = [three |-> file.three, four |-> file.four, two |-> 0, names |-> 0,
                            fields |-> 0]
        /\ file.five = file.verified
    BY DEF Init, FirstFiles, FirstCandidates
  <1>4. Sans(file.three) = FirstThree
    BY <1>3 DEF Sans, FirstThree
  <1>5. CandidatesFollow /\ DraftsFollow /\ Right
    BY <1>2, <1>3, <1>4 DEF CandidatesFollow, DraftsFollow, Right
  <1>6. EntriesOfFiles /\ NamesAlike
    <2>1. \A q \in 1..4 : mem[q].names = 0
      BY <1>2 DEF Phase
    <2>2. mem[3].index.two = None
      BY <1>2 DEF Phase, NoIndex
    <2> QED
      BY <1>2, <1>3, <2>1, <2>2 DEF EntriesOfFiles, NamesAlike, Phase
  <1>7. SharedAreRight
    BY <1>2, <1>3, <1>4 DEF SharedAreRight, Index, Verified, Sans
  <1>8. mem[5] = Fingerprint(5)
    <2>1. 5 \in Phase /\ mem[5] \in Entry(5)
      BY <1>1 DEF TypeOK, IsManifest, Phase
    <2> QED
      BY <1>2, <2>1, FingerprintParts
  <1>9. Rested
    BY <1>2, <1>5, <1>7, <1>8 DEF Rested, Phase
  <1>10. Undisturbed
    BY <1>2, <1>5, <1>6 DEF Undisturbed, InPlace
  <1>11. Standing /\ Heals /\ Passed /\ Again /\ Still
    BY <1>2 DEF Standing, Heals, Passed, Again, Still, Complete, Settled
  <1> QED
    BY <1>1, <1>9, <1>10, <1>11 DEF IInv

\* Every step keeps the invariant.
LEMMA InvariantNext == IInv /\ [Next]_vars => IInv'
  <1>1. CASE IInv /\ UNCHANGED vars
    <2>1. /\ UNCHANGED <<src, file, disk, mem, run, pc, phase, print>>
          /\ UNCHANGED <<quiet, edited, disturbed>>
      BY <1>1 DEF vars
    <2>2. \A p \in Phase : Fingerprint(p)' = Fingerprint(p)
      BY <2>1 DEF Fingerprint
    <2>3. Fingerprint(phase)' = Fingerprint(phase) /\ Fingerprint(5)' = Fingerprint(5)
          /\ (Hit(phase)' <=> Hit(phase))
      BY <2>1 DEF Fingerprint, Hit
    <2>4. /\ Index' = Index /\ (SharedAreRight' <=> SharedAreRight)
          /\ (Right' <=> Right) /\ (DraftsFollow' <=> DraftsFollow)
      BY <2>1 DEF Index, Verified, SharedAreRight, Right, CandidatesFollow, DraftsFollow, Sans
    <2>5. TypeOK' /\ Standing'
      BY <1>1, <2>1, <2>3, TypesNext DEF IInv, Standing
    <2>6. (InPlace' <=> InPlace) /\ (OnTheWay' <=> OnTheWay)
      BY <2>1 DEF InPlace, OnTheWay, NamesOnTheWay, NamesAlike, EntriesOfFiles, CandidatesFollow,
         DraftsFollow, Due, Sans
    <2>7. Undisturbed'
      BY <1>1, <2>1, <2>6 DEF IInv, Undisturbed
    <2>8. Heals'
      BY <1>1, <2>1, <2>4 DEF IInv, Heals, Complete
    <2>9. Passed'
      BY <1>1, <2>1, <2>3, <2>4 DEF IInv, Passed, Complete
    <2>10. Again'
      BY <1>1, <2>1, <2>4 DEF IInv, Again, Complete, Strong
    <2>11. Rested'
      BY <1>1, <2>1, <2>3, <2>4 DEF IInv, Rested, Strong
    <2>12. Still'
      BY <1>1, <2>1, <2>2, <2>4 DEF IInv, Still, Settled
    <2> QED
      BY <2>5, <2>7, <2>8, <2>9, <2>10, <2>11, <2>12 DEF IInv
  <1>2. CASE Next
    BY <1>2, TypesNext, StandingNext, UndisturbedNext, HealsNext, PassedNext, AgainNext,
       RestedNext, StillNext DEF IInv
  <1> QED
    BY <1>1, <1>2

\* run_946_pipeline: how the manifest, the artifacts and the shared files stand to each
\* other, in a run and between two.
THEOREM PipelineInvariant == Spec => []IInv
  BY InvariantInit, InvariantNext, PTL DEF Spec

----------------------------------------------------------------------------
(* What the invariant says of the cache.                                   *)

\* maybe_run_phase: a phase that is skipped would have made what is there, where nothing
\* went wrong before.
LEMMA HitIsCurrent == IInv => CacheIsCurrent
  <1> SUFFICES ASSUME IInv, pc = "phase", phase >= 3, Hit(phase), ~disturbed
               PROVE  Made(phase) = file
    BY DEF CacheIsCurrent
  <1>1. TypeOK /\ OnTheWay
    BY DEF IInv, Undisturbed
  <1>2. phase \in Phase /\ phase \in run.sel /\ ~run.force /\ mem[phase] = Fingerprint(phase)
    BY <1>1, RunTypes DEF Hit, TypeOK
  <1>3. mem[phase].names = src.names /\ ~Due(phase)
    BY <1>2 DEF Fingerprint, Due
  <1>4. file \in Files
    BY <1>1 DEF TypeOK
  <1>5. CASE phase = 3
    <2>1. CandidatesFollow
      BY <1>1, <1>3, <1>5 DEF OnTheWay
    <2>2. file.three.names = src.names /\ file.three.cross = file.index.two
      BY <1>1, <1>2, <1>5 DEF OnTheWay, EntriesOfFiles, Fingerprint
    <2>3. file.three \in Candidate
      BY <1>4 DEF Files
    <2>4. Candidates = file.three
      BY <2>1, <2>2, <2>3 DEF Candidates, CandidatesFollow, Candidate
    <2> QED
      BY <1>4, <1>5, <2>4 DEF Made, Files
  <1>6. CASE phase = 4
    <2>1. DraftsFollow
      BY <1>1, <1>3, <1>6 DEF OnTheWay
    <2>2. file.four.fields = src.fields
      BY <1>1, <1>2, <1>6 DEF OnTheWay, EntriesOfFiles, Fingerprint
    <2>3. file.four \in Draft
      BY <1>4 DEF Files
    <2>4. Drafts = file.four
      BY <2>1, <2>2, <2>3 DEF Drafts, DraftsFollow, Sans, Draft
    <2> QED
      BY <1>4, <1>6, <2>4 DEF Made, Files
  <1>7. CASE phase = 5
    <2>1. file.five = file.verified
      BY <1>1, <1>2, <1>7 DEF OnTheWay, EntriesOfFiles, Fingerprint
    <2> QED
      BY <1>4, <1>7, <2>1 DEF Made, Files
  <1> QED
    BY <1>2, <1>5, <1>6, <1>7 DEF Phase

\* maybe_run_phase, in every reachable state.
THEOREM SkippedPhasesAreCurrent == Spec => []CacheIsCurrent
  BY PipelineInvariant, HitIsCurrent, PTL

\* The loop through the cross-build index comes to rest: the second complete run leaves
\* the index as it found it, if the first was not misled by an entry of before, and the
\* third does in any case.
THEOREM QuietRunsAreCached == Spec => []QuietMeansCached
  <1>1. IInv => QuietMeansCached
    <2> SUFFICES ASSUME IInv, pc = "phase", Settled, ~run.force PROVE Hit(phase)
      BY DEF QuietMeansCached
    <2>1. phase \in Phase
      BY RunTypes DEF IInv, TypeOK
    <2> QED
      BY <2>1 DEF IInv, Still, Hit
  <1> QED
    BY <1>1, PipelineInvariant, PTL

\* A complete run leaves what the sources make, and the second one what a run with --force
\* would make.
THEOREM OutputsOfSources == Spec => []OutputsAreRight
  <1>1. IInv => OutputsAreRight
    <2> SUFFICES ASSUME IInv, pc = "idle", quiet >= 1, ~disturbed
                 PROVE  /\ [file.three EXCEPT !.cross = 0]
                             = [names |-> src.names, one |-> file.one, two |-> file.two,
                                cross |-> 0]
                        /\ file.index = Index /\ file.verified = Verified
                        /\ \A p \in IF quiet >= 2 THEN 3..5 ELSE 4..5 : Made(p) = file
      BY DEF OutputsAreRight
    <2>1. TypeOK /\ InPlace /\ file \in Files
      BY DEF IInv, Undisturbed, TypeOK
    <2>2. /\ \A q \in 1..4 : mem[q].names = src.names
          /\ SharedAreRight /\ mem[4].fields = src.fields /\ mem[5] = Fingerprint(5)
      BY DEF IInv, Rested
    <2>3. Right
      BY <2>1, <2>2 DEF InPlace, EntriesOfFiles, Right
    <2>4. file.three \in Candidate /\ file.four \in Draft
      BY <2>1 DEF Files
    <2>5. [file.three EXCEPT !.cross = 0]
            = [names |-> src.names, one |-> file.one, two |-> file.two, cross |-> 0]
      BY <2>3, <2>4 DEF Right, CandidatesFollow, Candidate
    <2>6. Made(4) = file
      <3>1. Drafts = file.four
        BY <2>1, <2>2, <2>4 DEF InPlace, EntriesOfFiles, Drafts, DraftsFollow, Sans, Draft
      <3> QED
        BY <2>1, <3>1 DEF Made, Files
    <2>7. Made(5) = file
      <3>1. file.five = file.verified
        BY <2>1, <2>2 DEF InPlace, EntriesOfFiles, Fingerprint
      <3> QED
        BY <2>1, <3>1 DEF Made, Files
    <2>8. ASSUME quiet >= 2 PROVE Made(3) = file
      <3>1. mem[3] = Fingerprint(3)
        BY <2>1, <2>8 DEF IInv, Still, Settled, TypeOK, NoRun, Phase
      <3>2. file.three.cross = file.index.two
        BY <2>1, <3>1 DEF InPlace, EntriesOfFiles, Fingerprint
      <3>3. Candidates = file.three
        BY <2>3, <2>4, <3>2 DEF Candidates, Right, CandidatesFollow, Candidate
      <3> QED
        BY <2>1, <3>3 DEF Made, Files
    <2>9. \A p \in IF quiet >= 2 THEN 3..5 ELSE 4..5 : Made(p) = file
      <3>1. CASE quiet >= 2
        <4>1. \A p \in 3..5 : p = 3 \/ p = 4 \/ p = 5
          OBVIOUS
        <4> QED
          BY <2>6, <2>7, <2>8, <3>1, <4>1
      <3>2. CASE ~(quiet >= 2)
        <4>1. \A p \in 4..5 : p = 4 \/ p = 5
          OBVIOUS
        <4> QED
          BY <2>6, <2>7, <3>2, <4>1
      <3> QED
        BY <3>1, <3>2
    <2> QED
      BY <2>2, <2>5, <2>9 DEF SharedAreRight
  <1> QED
    BY <1>1, PipelineInvariant, PTL
=============================================================================
