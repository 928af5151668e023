------------------------ MODULE FlowRunOutputsProofs ------------------------
(***************************************************************************)
(* Where the outputs of the steps of a run come from and what the commands *)
(* are rendered from, for every set of flows, runs and directories:        *)
(* OutputInv and CommandInv are inductive together with CacheInv, and      *)
(* OutputsOfThisRun, AcceptedResolves and RendersAsWritten follow.         *)
(*                                                                         *)
(* As in FlowRunProofs a step of a run is seen by nobody else who is alone *)
(* in his directory (Unnoticed), so that of most of them only what the run *)
(* itself has written and collected is left to be shown (WorkKeeps).       *)
(***************************************************************************)
EXTENDS FlowRunProofs, TemplatesProofs

-----------------------------------------------------------------------------
(* Steps and their outputs *)

\* The steps of an accepted flow.
LEMMA StepIs ==
  ASSUME TypeOK, NEW r \in Active, NEW i \in 1..Len(Def(r).steps)
  PROVE  LET st == Def(r).steps[i]
         IN  /\ st.name \in StepNames \union {None}
             /\ \A j \in 1..Len(Def(r).steps) :
                  st.name = Def(r).steps[j].name /\ st.name # None => i = j
             /\ \A n \in NamesOf(st.outputs) :
                  /\ st.name # None
                  /\ LastNamed(st.outputs, n) \in ToSet(st.outputs)
                  /\ LastNamed(st.outputs, n).name = n
                  /\ LastNamed(st.outputs, n).type # "variable" =>
                       LastNamed(st.outputs, n).path \in Paths
<1> DEFINE steps == Def(r).steps
           st == steps[i]
<1>1. /\ flow[r] \in DOMAIN FlowFile /\ steps \in Seq(ToSet(steps))
      /\ ValidStepNames(steps) /\ \A j \in DOMAIN steps : ValidOutputs(steps[j])
  BY FlowsAssumption DEF TypeOK, InRange, Active, Def, Flows, ParseFlow, ValidateFlow
<1>2. DOMAIN steps = 1..Len(steps) /\ st \in ToSet(steps)
  BY <1>1 DEF ToSet
<1>3. /\ st.name \in StepNames \union {None} /\ st.outputs \in Seq(ToSet(st.outputs))
      /\ \A o \in ToSet(st.outputs) : o.path \in Paths \union {None}
  BY <1>1, <1>2, StepsAssumption DEF Def
<1>4. \A j \in 1..Len(steps) : st.name = steps[j].name /\ st.name # None => i = j
  BY <1>1, <1>2 DEF ValidStepNames
<1>5. ASSUME NEW n \in NamesOf(st.outputs)
      PROVE  /\ st.name # None
             /\ LastNamed(st.outputs, n) \in ToSet(st.outputs)
             /\ LastNamed(st.outputs, n).name = n
             /\ LastNamed(st.outputs, n).type # "variable" =>
                  LastNamed(st.outputs, n).path \in Paths
  <2>1. LastNamed(st.outputs, n) \in ToSet(st.outputs) /\ LastNamed(st.outputs, n).name = n
    BY <1>3, LastNamedIs
  <2>2. ValidOutputs(st)
    BY <1>1, <1>2
  <2>3. st.outputs # <<>>
    BY DEF NamesOf
  <2>4. \A o \in ToSet(st.outputs) : o.type # "variable" => o.path # None
    BY <2>2 DEF ValidOutputs, ToSet
  <2> QED
    BY <1>3, <2>1, <2>2, <2>3, <2>4 DEF ValidOutputs
<1> QED
  BY <1>3, <1>4, <1>5

-----------------------------------------------------------------------------
(* What the others do, and what a run does itself *)

Unnoticed(q) ==
  /\ pc'[q] = pc[q] /\ flow'[q] = flow[q] /\ step'[q] = step[q]
  /\ outputs'[q] = outputs[q] /\ wrote'[q] = wrote[q]
  /\ outfile'[Dir(q)] = outfile[Dir(q)] /\ files'[Dir(q)] = files[Dir(q)]
  /\ Dir(q) \in soiled' <=> Dir(q) \in soiled

LEMMA UnnoticedKeeps ==
  ASSUME NEW q, Unnoticed(q), Fresh(q), Written(q), Collected(q)
  PROVE  Fresh(q)' /\ Written(q)' /\ Collected(q)'
<1>1. Dir(q)' = Dir(q) /\ Def(q)' = Def(q) /\ Step(q)' = Step(q)
  BY DEF Unnoticed, Dir, Def, Step
<1>2. Lines(q)' = Lines(q)
  BY <1>1 DEF Unnoticed, Lines
<1>3. Fresh(q)'
  BY <1>1 DEF Unnoticed, Fresh
<1>4. Written(q)'
  BY <1>1, <1>2 DEF Unnoticed, Written
<1>5. \A i : OwnOutputs(q, i)' <=> OwnOutputs(q, i)
  BY <1>1 DEF Unnoticed, OwnOutputs
<1>6. Collected(q)'
  BY <1>5 DEF Unnoticed, Collected
<1> QED
  BY <1>3, <1>4, <1>6

\* What a run knows, with others in its directory or not, is its own.
LEMMA KnownStays ==
  ASSUME NEW q, Known(q), flow'[q] = flow[q], step'[q] = step[q], outputs'[q] = outputs[q],
         pc[q] \in {"cleanup", "end"} => pc'[q] \in {"cleanup", "end"}
  PROVE  Known(q)'
  BY DEF Known, Def

\* A step of a run that changes what is its own and the files of its directory.
OwnWork(r) ==
  /\ pc'[r] # "idle" /\ \A q \in Runs \ {r} : pc'[q] = pc[q]
  /\ UNCHANGED <<flow, mixed>>
  /\ \A q \in Runs \ {r} :
       step'[q] = step[q] /\ outputs'[q] = outputs[q] /\ wrote'[q] = wrote[q]
  /\ Shapes'
  /\ \A d \in Dirs \ {Dir(r)} : outfile'[d] = outfile[d] /\ files'[d] = files[d]
  /\ \A p \in Paths :
       \/ files'[Dir(r)][p] = files[Dir(r)][p]
       \/ files'[Dir(r)][p] = r /\ Dir(r) \in base
  /\ base \subseteq base' /\ soiled' \in {soiled, soiled \union {Dir(r)}}

LEMMA WorkKeeps ==
  ASSUME IInv, NEW r \in Active, OwnWork(r), Known(r)',
         r \notin mixed => Written(r)' /\ Collected(r)'
  PROVE  OutputInv'
<1>1. /\ r \in Runs /\ Dir(r) \in Dirs /\ Active' = Active
      /\ \A q : Dir(q)' = Dir(q)
  BY DirIsDir, SameFlow DEF IInv, CacheInv, OwnWork, Active
<1>2. ASSUME NEW q \in Active \ mixed, q # r PROVE Fresh(q)' /\ Written(q)' /\ Collected(q)'
  <2>1. q \in Runs \ {r} /\ Dir(q) \in Dirs \ {Dir(r)}
    BY <1>1, <1>2, DirIsDir DEF IInv, CacheInv, Apart, Active
  <2>2. Unnoticed(q)
    BY <2>1 DEF OwnWork, Unnoticed
  <2> QED
    BY <1>2, <2>2, UnnoticedKeeps DEF IInv, OutputInv
<1>3. ASSUME r \notin mixed PROVE Fresh(r)'
  BY <1>1, <1>3, OldAssumption DEF IInv, OutputInv, Fresh, OwnWork
<1>4. Marked'
  <2> SUFFICES ASSUME NEW d \in Dirs, NEW p \in Paths, files'[d][p] \in Runs
               PROVE  files'[d][p] \in Active /\ Dir(files'[d][p]) = d
    BY <1>1 DEF Marked
  <2>1. files'[d][p] = files[d][p] \/ (files'[d][p] = r /\ d = Dir(r))
    BY DEF OwnWork
  <2> QED
    BY <2>1 DEF IInv, OutputInv, Marked
<1>5. Housed'
  BY DEF IInv, OutputInv, Housed, OwnWork
<1>6. ASSUME NEW q \in Active, q # r PROVE Known(q)'
  BY <1>6, KnownStays DEF IInv, OutputInv, OwnWork, Active
<1> QED
  BY <1>1, <1>2, <1>3, <1>4, <1>5, <1>6 DEF OutputInv, OwnWork

\* The outputs of a step stay what they are while the run goes on.
LEMMA OutputsStay ==
  ASSUME TypeOK, NEW r \in Active, NEW i \in 1..Len(Def(r).steps), OwnOutputs(r, i),
         flow'[r] = flow[r],
         \A n \in NamesOf(Def(r).steps[i].outputs) :
           LET so == <<Def(r).steps[i].name, n>>
           IN  /\ so \in DOMAIN outputs[r] =>
                    so \in DOMAIN outputs'[r] /\ outputs'[r][so] = outputs[r][so]
               /\ so \in DOMAIN wrote[r] =>
                    so \in DOMAIN wrote'[r] /\ wrote'[r][so] = wrote[r][so],
         \A p \in Paths : files'[Dir(r)][p] \in {files[Dir(r)][p], r},
         Dir(r) \in soiled => Dir(r) \in soiled'
  PROVE  OwnOutputs(r, i)'
<1>1. Dir(r)' = Dir(r) /\ Def(r)' = Def(r)
  BY DEF Dir, Def
<1> DEFINE st == Def(r).steps[i]
<1>2. \A n \in NamesOf(st.outputs) :
        LastNamed(st.outputs, n).type # "variable" => LastNamed(st.outputs, n).path \in Paths
  BY StepIs
<1> QED
  BY <1>1, <1>2 DEF OwnOutputs

\* The steps that have nothing to do with the outputs.
AwayFromOutputs(r) ==
  /\ pc'[r] # "idle" /\ \A q \in Runs \ {r} : pc'[q] = pc[q]
  /\ UNCHANGED <<flow, mixed, step, outputs, wrote, outfile, files>>
  /\ base \subseteq base' /\ soiled' \in {soiled, soiled \union {Dir(r)}}
  /\ pc[r] \in {"cleanup", "end"} => pc'[r] \in {"cleanup", "end"}
  /\ pc'[r] \in {"start", "launch", "running"} => pc[r] \in {"start", "launch", "running"}
  /\ pc'[r] \in {"wrote", "collect"} => pc[r] \in {"start", "launch", "running", "wrote", "collect"}

LEMMA AwayKeeps ==
  ASSUME IInv, NEW r \in Active, AwayFromOutputs(r) PROVE OutputInv'
<1>1. /\ Dir(r)' = Dir(r) /\ Def(r)' = Def(r) /\ Step(r)' = Step(r) /\ Lines(r)' = Lines(r)
  BY DEF AwayFromOutputs, Dir, Def, Step, Lines
<1>2. OwnWork(r)
  BY DEF AwayFromOutputs, OwnWork, IInv, OutputInv, Shapes
<1>3. ASSUME r \notin mixed PROVE Written(r)' /\ Collected(r)'
  <2>1. Fresh(r) /\ Written(r) /\ Collected(r)
    BY <1>3 DEF IInv, OutputInv
  <2>2. Written(r)'
    BY <1>1, <2>1 DEF AwayFromOutputs, Written
  <2>3. ASSUME NEW i, OwnOutputs(r, i) PROVE OwnOutputs(r, i)'
    BY <1>1, <2>3 DEF AwayFromOutputs, OwnOutputs
  <2>4. Collected(r)'
    BY <2>1, <2>3 DEF AwayFromOutputs, Collected
  <2> QED BY <2>2, <2>4
<1>4. Known(r)'
  BY KnownStays DEF AwayFromOutputs, IInv, OutputInv
<1> QED
  BY <1>2, <1>3, <1>4, WorkKeeps

-----------------------------------------------------------------------------
(* The steps of a run *)

\* Those that are not about outputs.
LEMMA FlowAway ==
  ASSUME IInv, NEW r \in Runs,
         \/ MkBase(r) \/ MkOuts(r) \/ LoadFlowSecrets(r) \/ NextStep(r)
         \/ StartScript(r) \/ LaunchScript(r) \/ ScriptExits(r) \/ ScriptKilled(r)
         \/ Cancel(r)
  PROVE  OutputInv'
<1>1. pc \in [Runs -> Stages]
  BY DEF IInv, CacheInv, TypeOK, Typed
<1> USE <1>1 DEF AwayFromOutputs, GoTo, Fail, Succeed, runVars, historyVars
<1>2. r \in Active
  BY DEF Active, MkBase, MkOuts, LoadFlowSecrets, NextStep, StartScript, LaunchScript,
         ScriptExits, ScriptKilled, Cancel
<1>3. CASE MkBase(r)
  <2>1. AwayFromOutputs(r) BY <1>3 DEF MkBase, NotInitialized
  <2> QED BY <1>2, <2>1, AwayKeeps
<1>4. CASE MkOuts(r)
  <2>1. AwayFromOutputs(r) BY <1>4 DEF MkOuts, NotInitialized
  <2> QED BY <1>2, <2>1, AwayKeeps
<1>5. CASE LoadFlowSecrets(r)
  <2>1. AwayFromOutputs(r) BY <1>5 DEF LoadFlowSecrets
  <2> QED BY <1>2, <2>1, AwayKeeps
<1>6. CASE NextStep(r)
  <2>1. pc[r] = "check" /\ (GoTo(r, "cleanup") \/ GoTo(r, "prepare"))
    BY ONLY <1>6 DEF NextStep, Succeed, Fail
  <2>2. UNCHANGED <<flow, mixed, step, outputs, wrote, outfile, files, base, soiled>>
    BY <1>6 DEF NextStep
  <2>3. AwayFromOutputs(r) BY <2>1, <2>2
  <2> QED BY <1>2, <2>3, AwayKeeps
<1>7. CASE StartScript(r)
  <2>1. AwayFromOutputs(r) BY <1>7 DEF StartScript
  <2> QED BY <1>2, <2>1, AwayKeeps
<1>8. CASE ScriptExits(r)
  <2>1. AwayFromOutputs(r) BY <1>8 DEF ScriptExits
  <2> QED BY <1>2, <2>1, AwayKeeps
<1>10. CASE LaunchScript(r)
  <2>1. AwayFromOutputs(r) BY <1>10 DEF LaunchScript
  <2> QED BY <1>2, <2>1, AwayKeeps
<1>11. CASE ScriptKilled(r)
  <2>1. AwayFromOutputs(r) BY <1>11 DEF ScriptKilled
  <2> QED BY <1>2, <2>1, AwayKeeps
<1>9. CASE Cancel(r)
  <2>1. AwayFromOutputs(r) BY <1>2, <1>9 DEF Cancel, Active
  <2> QED BY <1>2, <2>1, AwayKeeps
<1> QED
  BY <1>3, <1>4, <1>5, <1>6, <1>7, <1>8, <1>9, <1>10, <1>11

LEMMA ToolAway ==
  ASSUME IInv, NEW r \in Runs, ToolStep(r), UNCHANGED <<runVars, historyVars>>
  PROVE  OutputInv'
<1>1. pc \in [Runs -> Stages]
  BY DEF IInv, CacheInv, TypeOK, Typed
<1> USE <1>1
<1>2. pc[r] \in InTools /\ flow' = flow /\ base \subseteq base'
  BY DEF ToolStep, MkTools, NextTool, ToolsDone, NeedsDownload, Fetch, Copy, Verify, Extract,
         Unpack, Chmod, TruncateMeta, SaveMeta, InTools
<1>3. \E s \in InTools \union {"secrets", "cleanup"} : GoTo(r, s)
  BY DEF ToolStep, MkTools, NextTool, ToolsDone, NeedsDownload, Fetch, Copy, Verify, Extract,
         Unpack, Chmod, TruncateMeta, SaveMeta, InTools, AttemptFails, FailTool, ToolDone, Fail
<1>4. AwayFromOutputs(r) /\ r \in Active
  BY <1>2, <1>3 DEF AwayFromOutputs, GoTo, InTools, runVars, historyVars, Active
<1> QED
  BY <1>4, AwayKeeps

LEMMA PrepareStepKeepsOutputs ==
  ASSUME IInv, NEW r \in Runs, PrepareStep(r) PROVE OutputInv'
<1>1. /\ pc \in [Runs -> Stages] /\ TypeOK /\ Placed(r) /\ Shapes /\ pc[r] = "prepare"
      /\ r \in Active /\ Dir(r) \in Dirs
      /\ step[r] \in 1..Len(Def(r).steps)
  <2>1. TypeOK /\ Typed /\ Placed(r) /\ Shapes /\ pc[r] = "prepare" /\ r \in Active
    BY DEF IInv, CacheInv, OutputInv, TypeOK, PrepareStep, Active
  <2> QED
    BY <2>1, DirIsDir, FlowIs DEF Typed, Placed, InSteps
<1>2. /\ UNCHANGED <<flow, mixed, files, step, outputs, wrote, soiled>>
      /\ base \subseteq base' /\ pc'[r] \in {"start", "cleanup"}
      /\ \A q \in Runs \ {r} : pc'[q] = pc[q]
  BY <1>1 DEF PrepareStep, GoTo, Fail, historyVars
<1>3. \/ outfile' = outfile /\ (pc'[r] = "start" => Step(r).name = None)
      \/ outfile' = [outfile EXCEPT ![Dir(r)][Step(r).name] = <<>>] /\ Step(r).name # None
  BY <1>1 DEF PrepareStep, GoTo, Fail, SetOutfile
<1>4. Step(r).name # None => Step(r).name \in StepNames
  BY <1>1, StepIs DEF Step
<1>5. /\ Shapes' /\ \A d \in Dirs \ {Dir(r)} : outfile'[d] = outfile[d]
  BY <1>1, <1>2, <1>3 DEF Shapes
<1>6. OwnWork(r)
  BY <1>1, <1>2, <1>5 DEF OwnWork
<1>7. /\ Dir(r)' = Dir(r) /\ Def(r)' = Def(r) /\ Step(r)' = Step(r)
  BY <1>2 DEF Dir, Def, Step
<1>8. Written(r)'
  <2>1. Step(r).name # None /\ pc'[r] = "start" => outfile'[Dir(r)][Step(r).name] = <<>>
    BY <1>1, <1>3, <1>4 DEF Shapes
  <2>2. Step(r).name # None /\ pc'[r] = "start" => DOMAIN Lines(r)' = {}
    BY <1>7, <2>1 DEF Lines
  <2> QED
    BY <1>2, <1>7, <2>2 DEF Written
<1>9. ASSUME r \notin mixed PROVE Collected(r)'
  <2>1. Collected(r)
    BY <1>1, <1>9 DEF IInv, OutputInv
  <2>2. ASSUME NEW i, OwnOutputs(r, i) PROVE OwnOutputs(r, i)'
    BY <1>2, <1>7, <2>2 DEF OwnOutputs
  <2> QED
    BY <1>1, <1>2, <2>1, <2>2 DEF Collected
<1>10. Known(r)'
  BY <1>1, <1>2, KnownStays DEF IInv, OutputInv
<1> QED
  BY <1>1, <1>6, <1>8, <1>9, <1>10, WorkKeeps

LEMMA ScriptWritesKeepsOutputs ==
  ASSUME IInv, NEW r \in Runs, ScriptWrites(r) PROVE OutputInv'
<1>1. /\ pc \in [Runs -> Stages] /\ TypeOK /\ Shapes /\ pc[r] = "running" /\ r \in Active
      /\ Dir(r) \in Dirs /\ step[r] \in 1..Len(Def(r).steps) /\ Len(Def(r).steps) \in Nat
  <2>1. TypeOK /\ Typed /\ Placed(r) /\ Shapes /\ pc[r] = "running" /\ r \in Active
    BY DEF IInv, CacheInv, OutputInv, TypeOK, ScriptWrites, Active
  <2> QED
    BY <2>1, DirIsDir, FlowIs DEF Typed, Placed, InSteps
<1> DEFINE st == Step(r)
<1>2. PICK names \in SUBSET {o.name : o \in OutputsOf(r, "variable")} :
      \E vars_ \in [names -> Values], made_ \in SUBSET OutputsOf(r, "file") :
        /\ IF names # {} /\ Dir(r) \in outs THEN SetOutfile(r, Updated(Lines(r), vars_))
           ELSE UNCHANGED outfile
        /\ files' = IF Dir(r) \in base
                    THEN [files EXCEPT ![Dir(r)] =
                            [p \in DOMAIN @ |-> IF p \in {o.path : o \in made_} THEN r ELSE @[p]]]
                    ELSE files
        /\ wrote' = [wrote EXCEPT ![r] =
             Updated(@, [so \in {<<st.name, n>> : n \in names} |-> vars_[so[2]]])]
  BY DEF ScriptWrites
<1>3. PICK vars_ \in [names -> Values], made_ \in SUBSET OutputsOf(r, "file") :
        /\ IF names # {} /\ Dir(r) \in outs THEN SetOutfile(r, Updated(Lines(r), vars_))
           ELSE UNCHANGED outfile
        /\ files' = IF Dir(r) \in base
                    THEN [files EXCEPT ![Dir(r)] =
                            [p \in DOMAIN @ |-> IF p \in {o.path : o \in made_} THEN r ELSE @[p]]]
                    ELSE files
        /\ wrote' = [wrote EXCEPT ![r] =
             Updated(@, [so \in {<<st.name, n>> : n \in names} |-> vars_[so[2]]])]
  BY <1>2
<1> DEFINE new == [so \in {<<st.name, n>> : n \in names} |-> vars_[so[2]]]
<1>4. /\ UNCHANGED <<flow, mixed, base, soiled, step, outputs>>
      /\ pc'[r] = "wrote" /\ \A q \in Runs \ {r} : pc'[q] = pc[q]
  BY <1>1 DEF ScriptWrites, GoTo
<1>5. st.name \in StepNames \union {None}
  BY <1>1, StepIs DEF Step
<1>6. /\ DOMAIN wrote' = Runs /\ wrote'[r] = Updated(wrote[r], new)
      /\ \A q \in Runs \ {r} : wrote'[q] = wrote[q]
  BY <1>1, <1>3 DEF Shapes
<1>7. /\ DOMAIN outfile' = Dirs /\ \A d \in Dirs : DOMAIN outfile'[d] = StepNames
      /\ \A d \in Dirs \ {Dir(r)} : outfile'[d] = outfile[d]
      /\ st.name # None =>
           outfile'[Dir(r)][st.name] \in {outfile[Dir(r)][st.name], Updated(Lines(r), vars_)}
  <2>1. CASE outfile' = outfile
    BY <1>1, <2>1 DEF Shapes
  <2>2. CASE SetOutfile(r, Updated(Lines(r), vars_))
    <3>1. outfile' = [outfile EXCEPT ![Dir(r)][st.name] = Updated(Lines(r), vars_)]
      BY <2>2 DEF SetOutfile
    <3> QED
      BY <1>1, <1>5, <3>1 DEF Shapes
  <2> QED BY <1>3, <2>1, <2>2
<1>8. /\ files' \in [Dirs -> [Paths -> Runs \union {"old", None}]]
      /\ \A d \in Dirs \ {Dir(r)} : files'[d] = files[d]
      /\ \A p \in Paths :
           \/ files'[Dir(r)][p] = files[Dir(r)][p]
           \/ files'[Dir(r)][p] = r /\ Dir(r) \in base
  BY <1>1, <1>3 DEF Shapes
<1>9. OwnWork(r)
  BY <1>1, <1>4, <1>6, <1>7, <1>8 DEF OwnWork, Shapes
<1>10. Dir(r)' = Dir(r) /\ Def(r)' = Def(r) /\ Step(r)' = Step(r)
  BY <1>4 DEF Dir, Def, Step
<1>11. ASSUME r \notin mixed PROVE Written(r)'
  <2> SUFFICES ASSUME st.name # None, NEW n \in DOMAIN Lines(r)'
               PROVE  /\ <<st.name, n>> \in DOMAIN wrote'[r]
                      /\ Lines(r)'[n] = wrote'[r][<<st.name, n>>]
    BY <1>4, <1>10 DEF Written
  <2>1. DOMAIN Lines(r) = {}
    BY <1>1, <1>11 DEF IInv, OutputInv, Written
  <2>2. Lines(r)' \in {Lines(r), <<>>, Updated(Lines(r), vars_)}
    BY <1>7, <1>10 DEF Lines
  <2>3. Lines(r)' = Updated(Lines(r), vars_) /\ n \in names
    BY <2>1, <2>2 DEF Updated
  <2>4. Lines(r)'[n] = vars_[n]
    BY <2>3 DEF Updated
  <2>5. <<st.name, n>> \in DOMAIN new /\ new[<<st.name, n>>] = vars_[n]
    BY <2>3
  <2>6. <<st.name, n>> \in DOMAIN wrote'[r] /\ wrote'[r][<<st.name, n>>] = vars_[n]
    BY <1>6, <2>5 DEF Updated
  <2> QED BY <2>4, <2>6
<1>12. ASSUME r \notin mixed PROVE Collected(r)'
  <2> SUFFICES ASSUME NEW i \in 1..(step[r] - 1) PROVE OwnOutputs(r, i)'
    BY <1>4 DEF Collected
  <2>1. OwnOutputs(r, i) /\ i \in 1..Len(Def(r).steps) /\ i # step[r]
    BY <1>1, <1>12 DEF IInv, OutputInv, Collected
  <2>2. ASSUME NEW n \in NamesOf(Def(r).steps[i].outputs)
        PROVE  <<Def(r).steps[i].name, n>> \notin DOMAIN new
    BY <1>1, <2>1, StepIs DEF Step
  <2>3. ASSUME NEW n \in NamesOf(Def(r).steps[i].outputs),
               <<Def(r).steps[i].name, n>> \in DOMAIN wrote[r]
        PROVE  /\ <<Def(r).steps[i].name, n>> \in DOMAIN wrote'[r]
               /\ wrote'[r][<<Def(r).steps[i].name, n>>] = wrote[r][<<Def(r).steps[i].name, n>>]
    BY <1>6, <2>2, <2>3 DEF Updated
  <2> QED
    BY <1>1, <1>4, <1>8, <2>1, <2>3, OutputsStay
<1>13. Known(r)'
  BY <1>1, <1>4, KnownStays DEF IInv, OutputInv
<1> QED
  BY <1>1, <1>9, <1>11, <1>12, <1>13, WorkKeeps

LEMMA CollectOutputsKeepsOutputs ==
  ASSUME IInv, NEW r \in Runs, CollectOutputs(r) PROVE OutputInv'
<1>1. /\ pc \in [Runs -> Stages] /\ TypeOK /\ Shapes /\ pc[r] = "collect" /\ r \in Active
      /\ Dir(r) \in Dirs /\ step[r] \in 1..Len(Def(r).steps) /\ Len(Def(r).steps) \in Nat
      /\ step \in [Runs -> Nat \ {0}]
  <2>1. TypeOK /\ Typed /\ Placed(r) /\ Shapes /\ pc[r] = "collect" /\ r \in Active
    BY DEF IInv, CacheInv, OutputInv, TypeOK, CollectOutputs, Active
  <2> QED
    BY <2>1, DirIsDir, FlowIs DEF Typed, Placed, InSteps
<1>2. UNCHANGED <<flow, base, outfile, files, wrote, mixed, soiled>>
  BY DEF CollectOutputs, historyVars
<1>3. Dir(r)' = Dir(r) /\ Def(r)' = Def(r)
  BY <1>2 DEF Dir, Def
<1>4. CASE Fail(r) /\ UNCHANGED <<step, outputs>>
  <2>1. AwayFromOutputs(r)
    BY <1>1, <1>2, <1>4 DEF AwayFromOutputs, Fail, GoTo
  <2> QED BY <1>1, <2>1, AwayKeeps
<1>5. CASE ~(Fail(r) /\ UNCHANGED <<step, outputs>>)
  <2> DEFINE st == Step(r)
             new == [so \in {<<st.name, n>> : n \in NamesOf(st.outputs)} |->
                       Value(r, LastNamed(st.outputs, so[2]))]
  <2>1. /\ \A o \in ToSet(st.outputs) : Produced(r, o)
        /\ GoTo(r, "check") /\ step' = [step EXCEPT ![r] = @ + 1]
        /\ outputs' = [outputs EXCEPT ![r] = Updated(@, new)]
    BY <1>5 DEF CollectOutputs
  <2>2. /\ DOMAIN outputs' = Runs /\ outputs'[r] = Updated(outputs[r], new)
        /\ \A q \in Runs \ {r} : outputs'[q] = outputs[q] /\ step'[q] = step[q]
        /\ step'[r] = step[r] + 1
        /\ pc'[r] = "check" /\ \A q \in Runs \ {r} : pc'[q] = pc[q]
    BY <1>1, <2>1 DEF Shapes, GoTo
  <2>3. OwnWork(r)
    BY <1>1, <1>2, <2>2 DEF OwnWork, Shapes
  <2>4. Written(r)'
    BY <2>2 DEF Written
  <2>5. ASSUME r \notin mixed, NEW i \in 1..(step[r] - 1) PROVE OwnOutputs(r, i)'
    <3>1. OwnOutputs(r, i) /\ i \in 1..Len(Def(r).steps) /\ i # step[r]
      BY <1>1, <2>5 DEF IInv, OutputInv, Collected
    <3>2. ASSUME NEW n \in NamesOf(Def(r).steps[i].outputs)
          PROVE  <<Def(r).steps[i].name, n>> \notin DOMAIN new
      BY <1>1, <3>1, StepIs DEF Step
    <3>3. ASSUME NEW n \in NamesOf(Def(r).steps[i].outputs),
                 <<Def(r).steps[i].name, n>> \in DOMAIN outputs[r]
          PROVE  /\ <<Def(r).steps[i].name, n>> \in DOMAIN outputs'[r]
                 /\ outputs'[r][<<Def(r).steps[i].name, n>>] = outputs[r][<<Def(r).steps[i].name, n>>]
      BY <2>2, <3>2, <3>3 DEF Updated
    <3> QED
      BY <1>1, <1>2, <3>1, <3>3, OutputsStay
  <2>6. ASSUME r \notin mixed, NEW i, i = step[r] PROVE OwnOutputs(r, i)'
    <3>1. Fresh(r) /\ Written(r) /\ Marked /\ Def(r).steps[i] = st
      BY <1>1, <2>6 DEF IInv, OutputInv, Step
    <3> SUFFICES ASSUME NEW n \in NamesOf(st.outputs)
                 PROVE  LET so == <<st.name, n>>
                            o == LastNamed(st.outputs, n)
                        IN  /\ so \in DOMAIN outputs'[r]
                            /\ IF o.type = "variable"
                               THEN so \in DOMAIN wrote[r] /\ outputs'[r][so] = wrote[r][so]
                               ELSE /\ outputs'[r][so] = <<Text(o.path)>>
                                    /\ \/ files[Dir(r)][o.path] = r
                                       \/ files[Dir(r)][o.path] = "old" /\ Dir(r) \in soiled
      BY <1>2, <1>3, <3>1 DEF OwnOutputs
    <3> DEFINE so == <<st.name, n>>
               o == LastNamed(st.outputs, n)
    <3>2. /\ st.name # None /\ o \in ToSet(st.outputs) /\ o.name = n
          /\ o.type # "variable" => o.path \in Paths
      BY <1>1, StepIs DEF Step
    <3>3. so \in DOMAIN outputs'[r] /\ outputs'[r][so] = Value(r, o)
      <4>1. so \in DOMAIN new /\ new[so] = Value(r, o)
        OBVIOUS
      <4> QED BY <2>2, <4>1 DEF Updated
    <3>4. Produced(r, o)
      BY <2>1, <3>2
    <3>5. CASE o.type = "variable"
      <4>1. n \in DOMAIN Lines(r) /\ Value(r, o) = Lines(r)[n]
        BY <3>2, <3>4, <3>5 DEF Produced, Value
      <4>2. so \in DOMAIN wrote[r] /\ Lines(r)[n] = wrote[r][so]
        BY <1>1, <3>1, <3>2, <4>1 DEF Written
      <4> QED BY <3>3, <3>5, <4>1, <4>2
    <3>6. CASE o.type # "variable"
      <4>1. /\ Value(r, o) = <<Text(o.path)>> /\ o.path \in Paths
            /\ files[Dir(r)][o.path] \in Runs \union {"old"}
        BY <1>1, <3>2, <3>4, <3>6 DEF Produced, Value, Shapes
      <4>2. files[Dir(r)][o.path] \in Runs => files[Dir(r)][o.path] = r
        BY <1>1, <2>6, <3>1, <4>1 DEF Marked, IInv, CacheInv, Apart
      <4>3. files[Dir(r)][o.path] = "old" => Dir(r) \in soiled
        BY <3>1, <4>1 DEF Fresh
      <4> QED BY <3>3, <3>6, <4>1, <4>2, <4>3
    <3> QED BY <3>5, <3>6
  <2>7. ASSUME r \notin mixed PROVE Collected(r)'
    <3> SUFFICES ASSUME NEW i \in 1..step[r] PROVE OwnOutputs(r, i)'
      BY <1>1, <2>2 DEF Collected
    <3>1. CASE i = step[r]
      BY <2>6, <2>7, <3>1
    <3>2. CASE i # step[r]
      BY <1>1, <2>5, <2>7, <3>2
    <3> QED BY <3>1, <3>2
  <2>8. Known(r)'
    <3> SUFFICES ASSUME NEW i \in 1..(step'[r] - 1), NEW n \in NamesOf(Def(r).steps[i].outputs)
                 PROVE  <<Def(r).steps[i].name, n>> \in DOMAIN outputs'[r]
      BY <1>3 DEF Known
    <3>1. CASE i = step[r]
      BY <2>2, <3>1 DEF Step, Updated
    <3>2. CASE i # step[r]
      <4>0. i \in 1..(step[r] - 1)
        BY <1>1, <2>2, <3>2
      <4>1. <<Def(r).steps[i].name, n>> \in DOMAIN outputs[r]
        BY <1>1, <4>0 DEF IInv, OutputInv, Known
      <4> QED BY <2>2, <4>1 DEF Updated
    <3> QED BY <3>1, <3>2
  <2> QED
    BY <1>1, <2>3, <2>4, <2>7, <2>8, WorkKeeps
<1> QED
  BY <1>4, <1>5

-----------------------------------------------------------------------------
(* The beginning and the end of a run *)

LEMMA PlacesGone ==
  ASSUME Shapes, NEW ds, Gone(ds)
  PROVE  /\ DOMAIN outfile' = Dirs /\ \A d \in Dirs : DOMAIN outfile'[d] = StepNames
         /\ files' \in [Dirs -> [Paths -> Runs \union {"old", None}]]
         /\ \A d \in Dirs \ ds : outfile'[d] = outfile[d] /\ files'[d] = files[d]
         /\ \A d \in Dirs \intersect ds, p \in Paths : files'[d][p] = None
         /\ soiled' = soiled \ ds /\ base' = base \ ds
  BY DEF Shapes, Gone, Clear, Empty

LEMMA CleanupKeepsOutputs ==
  ASSUME IInv, NEW r \in Runs, Cleanup(r) PROVE OutputInv'
<1>1. /\ r \in Active /\ Dir(r) \in Dirs /\ Shapes /\ pc \in [Runs -> Stages]
      /\ pc' = [pc EXCEPT ![r] = "end"] /\ Gone({Dir(r)})
      /\ UNCHANGED <<flow, step, outputs, wrote, mixed>>
  <2>1. r \in Active
    BY DEF Cleanup, Active
  <2> QED
    BY <2>1, DirIsDir DEF IInv, CacheInv, OutputInv, TypeOK, Typed, Cleanup, GoTo
<1>2. /\ Active' = Active /\ \A q : Dir(q)' = Dir(q)
      /\ pc'[r] = "end" /\ \A q \in Runs \ {r} : pc'[q] = pc[q]
  BY <1>1, SameFlow DEF Active
<1>3. ASSUME NEW q \in Active \ mixed, q # r PROVE Fresh(q)' /\ Written(q)' /\ Collected(q)'
  <2>1. q \in Runs \ {r} /\ Dir(q) \in Dirs \ {Dir(r)}
    BY <1>1, <1>3, DirIsDir DEF IInv, CacheInv, Apart, Active
  <2>2. Unnoticed(q)
    BY <1>1, <1>2, <2>1, PlacesGone DEF Unnoticed
  <2> QED
    BY <1>3, <2>2, UnnoticedKeeps DEF IInv, OutputInv
<1>4. Fresh(r)' /\ Written(r)' /\ Collected(r)'
  BY <1>1, <1>2, PlacesGone, OldAssumption DEF Fresh, Written, Collected
<1>5. Marked'
  <2> SUFFICES ASSUME NEW d \in Dirs, NEW p \in Paths, files'[d][p] \in Runs
               PROVE  files'[d][p] \in Active /\ Dir(files'[d][p]) = d
    BY <1>2 DEF Marked
  <2>1. files'[d][p] = files[d][p]
    BY <1>1, PlacesGone, ToolsOptions
  <2> QED
    BY <2>1 DEF IInv, OutputInv, Marked
<1>6. Housed'
  BY <1>1, PlacesGone DEF IInv, OutputInv, Housed
<1>7. Shapes'
  BY <1>1, PlacesGone DEF Shapes
<1>8. \A q \in Active : Known(q)'
  BY <1>1, <1>2, KnownStays DEF IInv, OutputInv, Active
<1> QED
  BY <1>1, <1>2, <1>3, <1>4, <1>5, <1>6, <1>7, <1>8 DEF OutputInv

LEMMA BeginKeepsOutputs ==
  ASSUME IInv, NEW r \in Runs, NEW f \in Flows, Begin(r, f) PROVE OutputInv'
<1>1. /\ r \in Runs \ Active /\ TypeOK /\ Typed /\ Shapes /\ Placed(r)
      /\ pc[r] = "idle" /\ pc' = [pc EXCEPT ![r] = "mkbase"] /\ Gone({r})
      /\ flow' = [flow EXCEPT ![r] = f]
      /\ UNCHANGED <<step, outputs, wrote>>
      /\ mixed' = IF Sharing(FlowFile[f].stateDir) = {} THEN mixed
                  ELSE mixed \union Sharing(FlowFile[f].stateDir) \union {r}
  BY DEF IInv, CacheInv, OutputInv, TypeOK, Begin, Active, GoTo
<1>2. /\ pc'[r] = "mkbase" /\ flow'[r] = f
      /\ \A q \in Runs \ {r} : pc'[q] = pc[q] /\ flow'[q] = flow[q]
  BY <1>1 DEF Typed
<1>3. Active' = Active \union {r}
  BY <1>1, <1>2 DEF Active
<1>4. \A q \in Active : Dir(q)' = Dir(q) /\ Dir(q) \in Dirs \ {r} /\ q \in Runs \ {r}
  <2> SUFFICES ASSUME NEW q \in Active PROVE Dir(q)' = Dir(q) /\ Dir(q) # r
    BY <1>1, DirIsDir
  <2>1. q \in Runs /\ q # r /\ flow[q] \in Flows
    BY <1>1 DEF Active, TypeOK, InRange
  <2> QED
    BY <1>2, <2>1, FlowsAssumption, ToolsOptions DEF Dir, Def, Flows
<1>5. /\ Dir(r)' = IF FlowFile[f].stateDir = None THEN r ELSE FlowFile[f].stateDir
      /\ Dir(r)' \in Dirs
  BY <1>2, FlowsAssumption DEF Dir, Def, Dirs, Flows
<1>6. ASSUME NEW q \in Active \ mixed' PROVE Fresh(q)' /\ Written(q)' /\ Collected(q)'
  <2>1. q \notin mixed
    BY <1>1, <1>6
  <2>2. Unnoticed(q)
    BY <1>1, <1>2, <1>4, PlacesGone DEF Unnoticed
  <2> QED
    BY <2>1, <2>2, UnnoticedKeeps DEF IInv, OutputInv
<1>7. ASSUME r \notin mixed' PROVE Fresh(r)'
  <2>1. CASE Dir(r)' = r
    BY <1>1, <1>5, <2>1, PlacesGone, OldAssumption DEF Fresh, Dirs
  <2>2. CASE Dir(r)' # r
    <3>1. Dir(r)' = FlowFile[f].stateDir /\ Sharing(FlowFile[f].stateDir) = {}
      BY <1>1, <1>5, <1>7, <2>2
    <3>2. Dir(r)' \notin base \/ Dir(r)' \in soiled
      BY <1>5, <3>1 DEF IInv, CacheInv, Covered, Sharing
    <3>3. /\ Dir(r)' \in soiled => Dir(r)' \in soiled'
          /\ files'[Dir(r)'] = files[Dir(r)']
      BY <1>1, <1>5, <2>2, PlacesGone
    <3>4. Dir(r)' \notin base => \A p \in Paths : files[Dir(r)'][p] = None
      BY <1>5 DEF IInv, OutputInv, Housed
    <3> QED
      BY <3>2, <3>3, <3>4, OldAssumption DEF Fresh
  <2> QED BY <2>1, <2>2
<1>8. Written(r)' /\ Collected(r)'
  BY <1>1, <1>2 DEF Written, Collected, Placed, Typed
<1>9. Marked'
  <2> SUFFICES ASSUME NEW d \in Dirs, NEW p \in Paths, NEW q \in Runs, files'[d][p] = q
               PROVE  q \in Active /\ Dir(q)' = d
    BY <1>3 DEF Marked
  <2>1. files'[d][p] = files[d][p]
    BY <1>1, PlacesGone, ToolsOptions
  <2>2. q \in Active /\ Dir(q) = d
    BY <2>1 DEF IInv, OutputInv, Marked
  <2> QED
    BY <1>4, <2>2
<1>10. Housed'
  BY <1>1, PlacesGone DEF IInv, OutputInv, Housed
<1>11. Shapes'
  BY <1>1, PlacesGone DEF Shapes
<1>12. \A q \in Active' : Known(q)'
  <2>1. Known(r)'
    BY <1>1, <1>2 DEF Known, Placed, Typed
  <2>2. ASSUME NEW q \in Active PROVE Known(q)'
    BY <1>1, <1>2, <1>4, KnownStays DEF IInv, OutputInv
  <2> QED BY <1>3, <2>1, <2>2
<1> QED
  BY <1>3, <1>6, <1>7, <1>8, <1>9, <1>10, <1>11, <1>12 DEF OutputInv

\* What a run that is over has known and has written.
LEMMA ForgottenOutputs ==
  ASSUME IInv, NEW rs \in SUBSET Runs, Forget(rs)
  PROVE  /\ DOMAIN outputs' = Runs /\ DOMAIN wrote' = Runs
         /\ \A q \in Runs \ rs : outputs'[q] = outputs[q] /\ wrote'[q] = wrote[q]
         /\ Aged(rs) \in [Dirs -> [Paths -> (Runs \ rs) \union {"old", None}]]
         /\ \A d \in Dirs, p \in Paths :
              Aged(rs)[d][p] = IF files[d][p] \in rs THEN "old" ELSE files[d][p]
<1>1. Shapes
  BY DEF IInv, OutputInv
<1>2. \A d \in Dirs, p \in Paths :
        Aged(rs)[d][p] = IF files[d][p] \in rs THEN "old" ELSE files[d][p]
  BY <1>1 DEF Shapes, Aged
<1>3. Aged(rs) \in [Dirs -> [Paths -> (Runs \ rs) \union {"old", None}]]
  BY <1>1 DEF Shapes, Aged
<1>4. DOMAIN outputs' = Runs /\ \A q \in Runs \ rs : outputs'[q] = outputs[q]
  BY DEF Forget
<1>5. DOMAIN wrote' = Runs /\ \A q \in Runs \ rs : wrote'[q] = wrote[q]
  BY DEF Forget
<1> QED
  BY <1>2, <1>3, <1>4, <1>5

LEMMA EndKeepsOutputs ==
  ASSUME IInv, NEW r \in Runs, End(r) PROVE OutputInv'
<1>1. /\ TypeOK /\ Shapes /\ r \in Active /\ Forget({r}) /\ files' = Aged({r})
      /\ UNCHANGED <<base, outfile, soiled>>
  BY DEF IInv, CacheInv, OutputInv, End, Active
<1>2. /\ Active' = Active \ {r} /\ mixed' = mixed \ {r}
      /\ \A q \in Runs \ {r} : pc'[q] = pc[q] /\ flow'[q] = flow[q] /\ step'[q] = step[q]
                             /\ Dir(q)' = Dir(q)
  BY <1>1, ForgetIs
<1>3. ASSUME NEW q \in Active' \ mixed' PROVE Fresh(q)' /\ Written(q)' /\ Collected(q)'
  <2>1. q \in Active \ mixed /\ q \in Runs \ {r} /\ Dir(q) \in Dirs \ {Dir(r)}
    BY <1>1, <1>2, <1>3, DirIsDir DEF IInv, CacheInv, Apart, Active
  <2>2. \A p \in Paths : files[Dir(q)][p] # r
    BY <1>1, <2>1 DEF IInv, OutputInv, Marked
  <2>3. files'[Dir(q)] = files[Dir(q)]
    <3>1. files[Dir(q)] \in [Paths -> Runs \union {"old", None}]
      BY <1>1, <2>1 DEF Shapes
    <3>2. files' \in [Dirs -> [Paths -> (Runs \ {r}) \union {"old", None}]]
      <4>1. {r} \in SUBSET Runs
        OBVIOUS
      <4>2. Aged({r}) \in [Dirs -> [Paths -> (Runs \ {r}) \union {"old", None}]]
        BY <1>1, <4>1, ForgottenOutputs
      <4> QED BY <1>1, <4>2
    <3>3. \A p \in Paths : files'[Dir(q)][p] = files[Dir(q)][p]
      BY <1>1, <2>1, <2>2, ForgottenOutputs
    <3> QED BY <2>1, <3>1, <3>2, <3>3
  <2>4. Unnoticed(q)
    BY <1>1, <1>2, <2>1, <2>3, ForgottenOutputs DEF Unnoticed
  <2> QED
    BY <2>1, <2>4, UnnoticedKeeps DEF IInv, OutputInv
<1>4. Marked'
  <2> SUFFICES ASSUME NEW d \in Dirs, NEW p \in Paths, NEW q \in Runs, files'[d][p] = q
               PROVE  q \in Active' /\ Dir(q)' = d
    BY DEF Marked
  <2>1. files[d][p] = q /\ q # r
    BY <1>1, ForgottenOutputs, OldAssumption
  <2>2. q \in Active /\ Dir(q) = d
    BY <2>1 DEF IInv, OutputInv, Marked
  <2> QED
    BY <1>2, <2>1, <2>2
<1>5. Housed'
  BY <1>1, ForgottenOutputs, ToolsOptions DEF IInv, OutputInv, Housed
<1>6. Shapes'
  <2>1. files' \in [Dirs -> [Paths -> (Runs \ {r}) \union {"old", None}]]
    <3>1. {r} \in SUBSET Runs
      OBVIOUS
    <3>2. Aged({r}) \in [Dirs -> [Paths -> (Runs \ {r}) \union {"old", None}]]
      BY <1>1, <3>1, ForgottenOutputs
    <3> QED BY <1>1, <3>2
  <2>2. files' \in [Dirs -> [Paths -> Runs \union {"old", None}]]
    BY <2>1
  <2>3. DOMAIN outputs' = Runs /\ DOMAIN wrote' = Runs
    BY <1>1, ForgottenOutputs
  <2> QED
    BY <1>1, <2>2, <2>3 DEF Shapes
<1>7. ASSUME NEW q \in Active' PROVE Known(q)'
  <2>1. q \in Active /\ q \in Runs \ {r}
    BY <1>2 DEF Active
  <2> QED
    BY <1>1, <1>2, <2>1, ForgottenOutputs, KnownStays DEF IInv, OutputInv
<1> QED
  BY <1>3, <1>4, <1>5, <1>6, <1>7 DEF OutputInv

LEMMA CrashKeepsOutputs ==
  ASSUME IInv, Crash PROVE OutputInv'
<1>1. /\ TypeOK /\ Shapes /\ Forget(Runs) /\ outfile' = Clear(outfile, Runs)
      /\ files' = [d \in Dirs |-> IF d \in Runs THEN Empty(files)[d] ELSE Aged(Runs)[d]]
      /\ base' = base \ Runs
  BY DEF IInv, CacheInv, OutputInv, Crash
<1>2. Active' = {}
  BY <1>1, ForgetIs DEF Active
<1>3. \A d \in Dirs, p \in Paths :
        /\ files'[d][p] \in {"old", None}
        /\ d \in Runs => files'[d][p] = None
        /\ files[d][p] = None => files'[d][p] = None
  BY <1>1, ForgottenOutputs, ToolsOptions DEF Shapes, Empty
<1>4. files' \in [Dirs -> [Paths -> Runs \union {"old", None}]]
  <2>1. \A d \in Dirs : files'[d] \in [Paths -> Runs \union {"old", None}]
    <3>1. Aged(Runs) \in [Dirs -> [Paths -> (Runs \ Runs) \union {"old", None}]]
      BY <1>1, ForgottenOutputs
    <3> QED
      BY <1>1, <3>1 DEF Shapes, Empty
  <2> QED BY <1>1, <2>1
<1>5. Shapes'
  <2>1. DOMAIN outfile' = Dirs /\ \A d \in Dirs : DOMAIN outfile'[d] = StepNames
    BY <1>1 DEF Shapes, Clear, Empty
  <2> QED
    BY <1>1, <1>4, <2>1, ForgottenOutputs DEF Shapes
<1>6. Marked'
  BY <1>3, OldAssumption, ToolsOptions DEF Marked
<1>7. Housed'
  BY <1>1, <1>3 DEF IInv, OutputInv, Housed
<1> QED
  BY <1>2, <1>5, <1>6, <1>7 DEF OutputInv

-----------------------------------------------------------------------------
(* The commands *)

\* What a step leaves alone for a run whose command it does not change.
LEMMA ReadyStays ==
  ASSUME NEW q, Ready(q), flow'[q] = flow[q], step'[q] = step[q], outputs'[q] = outputs[q],
         pc'[q] \in InSteps => pc[q] \in InSteps,
         pc'[q] \in {"prepare", "start", "launch"} =>
           pc[q] \in {"prepare", "start", "launch"} /\ cmd'[q] = cmd[q]
  PROVE  Ready(q)'
<1>1. Def(q)' = Def(q) /\ Step(q)' = Step(q)
  BY DEF Def, Step
<1>2. Resolved(q)' = Resolved(q)
  BY <1>1 DEF Resolved, StepSecrets
<1> QED
  BY <1>1, <1>2 DEF Ready

Elsewhere(r) ==
  \A q \in Runs \ {r} :
    /\ pc'[q] = pc[q] /\ flow'[q] = flow[q] /\ step'[q] = step[q]
    /\ outputs'[q] = outputs[q] /\ cmd'[q] = cmd[q]

LEMMA CommandsKept ==
  ASSUME IInv, NEW r \in Runs, Elsewhere(r), Worded', DOMAIN cmd' = Runs,
         r \in Active' => Ready(r)'
  PROVE  CommandInv'
<1>1. ASSUME NEW q \in Active', q # r PROVE Ready(q)'
  <2>1. q \in Active /\ q \in Runs \ {r}
    BY <1>1 DEF Active, Elsewhere
  <2> QED
    BY <2>1, ReadyStays DEF Elsewhere, IInv, CommandInv
<1> QED
  BY <1>1 DEF CommandInv

LEMMA WordedStays ==
  ASSUME Worded,
         \A d \in Dirs, s \in StepNames : outfile'[d][s] \in {outfile[d][s], None, <<>>},
         \A q \in Runs : outputs'[q] \in {outputs[q], <<>>}
  PROVE  Worded'
  BY DEF Worded

\* The steps of a run that change neither outputs nor output files.
LEMMA StepsKeepCommands ==
  ASSUME IInv, NEW r \in Runs,
         \/ MkBase(r) \/ MkOuts(r) \/ LoadFlowSecrets(r) \/ NextStep(r)
         \/ StartScript(r) \/ LaunchScript(r) \/ ScriptExits(r) \/ ScriptKilled(r)
         \/ Cancel(r)
  PROVE  CommandInv'
<1>1. /\ pc \in [Runs -> Stages] /\ Worded /\ DOMAIN cmd = Runs
  BY DEF IInv, CacheInv, TypeOK, Typed, CommandInv
<1>2. r \in Active /\ Ready(r)
  BY DEF Active, IInv, CommandInv, MkBase, MkOuts, LoadFlowSecrets, NextStep, StartScript,
         LaunchScript, ScriptExits, ScriptKilled, Cancel
<1>3. UNCHANGED <<flow, step, outputs, outfile>>
  BY DEF MkBase, MkOuts, LoadFlowSecrets, NextStep, StartScript, LaunchScript, ScriptExits,
         ScriptKilled, Cancel, runVars
<1>4. Worded'
  BY <1>1, <1>3 DEF Worded
<1>5. /\ Def(r)' = Def(r) /\ Step(r)' = Step(r) /\ Resolved(r)' = Resolved(r)
  BY <1>3 DEF Def, Step, Resolved, StepSecrets
<1>6. CASE NextStep(r)
  <2>1. CASE cmd' = [cmd EXCEPT ![r] = Resolved(r).cmd] /\ GoTo(r, "prepare")
             /\ Loads(Step(r).secrets) /\ Resolved(r).error = None
    <3>1. Ready(r)'
      BY <1>1, <1>2, <1>5, <1>6, <2>1 DEF Ready, GoTo, NextStep, InSteps
    <3>2. Elsewhere(r) /\ DOMAIN cmd' = Runs
      BY <1>1, <1>3, <2>1 DEF Elsewhere, GoTo
    <3> QED BY <1>4, <3>1, <3>2, CommandsKept
  <2>2. CASE UNCHANGED cmd /\ GoTo(r, "cleanup")
    <3>1. Ready(r)'
      BY <1>1, <2>2 DEF Ready, GoTo, InSteps
    <3>2. Elsewhere(r) /\ DOMAIN cmd' = Runs
      BY <1>1, <1>3, <2>2 DEF Elsewhere, GoTo
    <3> QED BY <1>4, <3>1, <3>2, CommandsKept
  <2> QED
    BY ONLY <1>6, <2>1, <2>2 DEF NextStep, Fail, Succeed
<1>7. CASE MkBase(r) \/ MkOuts(r) \/ LoadFlowSecrets(r) \/ StartScript(r) \/ LaunchScript(r)
           \/ ScriptExits(r) \/ ScriptKilled(r) \/ Cancel(r)
  <2>1. UNCHANGED cmd
    BY <1>7 DEF MkBase, MkOuts, LoadFlowSecrets, StartScript, LaunchScript, ScriptExits,
                ScriptKilled, Cancel, runVars
  <2>2. Elsewhere(r) /\ DOMAIN cmd' = Runs
    BY <1>1, <1>3, <1>7, <2>1
    DEF Elsewhere, MkBase, MkOuts, LoadFlowSecrets, StartScript, LaunchScript, ScriptExits,
        ScriptKilled, Cancel, GoTo, Fail, NotInitialized
  <2>3. Ready(r)'
    <3>1. CASE LoadFlowSecrets(r)
      BY <1>1, <1>5, <3>1 DEF LoadFlowSecrets, Ready, GoTo, Fail, InSteps
    <3>2. CASE MkBase(r) \/ MkOuts(r)
      BY <1>1, <3>2 DEF MkBase, MkOuts, Ready, GoTo, NotInitialized, InSteps
    <3>3. CASE StartScript(r) \/ LaunchScript(r) \/ ScriptExits(r) \/ ScriptKilled(r) \/ Cancel(r)
      <4>1. /\ pc'[r] \in InSteps => pc[r] \in InSteps
            /\ pc'[r] \in {"prepare", "start", "launch"} => pc[r] \in {"prepare", "start", "launch"}
        BY <1>1, <3>3
        DEF StartScript, LaunchScript, ScriptExits, ScriptKilled, Cancel, GoTo, Fail, InSteps
      <4> QED BY <1>2, <1>3, <2>1, <4>1, ReadyStays
    <3> QED BY <1>7, <3>1, <3>2, <3>3
  <2> QED BY <1>4, <2>2, <2>3, CommandsKept
<1> QED
  BY <1>6, <1>7

LEMMA ToolsKeepCommands ==
  ASSUME IInv, NEW r \in Runs, ToolStep(r), UNCHANGED <<runVars, historyVars>>
  PROVE  CommandInv'
<1>1. pc \in [Runs -> Stages] /\ Worded /\ DOMAIN cmd = Runs
  BY DEF IInv, CacheInv, TypeOK, Typed, CommandInv
<1>2. flow' = flow
  BY DEF ToolStep, MkTools, NextTool, ToolsDone, NeedsDownload, Fetch, Copy, Verify, Extract,
         Unpack, Chmod, TruncateMeta, SaveMeta
<1>3. \E s \in InTools \union {"secrets", "cleanup"} : GoTo(r, s)
  BY <1>1 DEF ToolStep, MkTools, NextTool, ToolsDone, NeedsDownload, Fetch, Copy, Verify, Extract,
         Unpack, Chmod, TruncateMeta, SaveMeta, InTools, AttemptFails, FailTool, ToolDone, Fail
<1>4. Elsewhere(r) /\ Worded' /\ DOMAIN cmd' = Runs
  BY <1>1, <1>2, <1>3 DEF Elsewhere, GoTo, runVars, Worded
<1>5. Ready(r)'
  BY <1>1, <1>3 DEF Ready, GoTo, InSteps, InTools
<1> QED
  BY <1>4, <1>5, CommandsKept

LEMMA PrepareStepKeepsCommands ==
  ASSUME IInv, NEW r \in Runs, PrepareStep(r) PROVE CommandInv'
<1>1. /\ pc \in [Runs -> Stages] /\ Worded /\ DOMAIN cmd = Runs /\ Shapes
      /\ pc[r] = "prepare" /\ r \in Active /\ Ready(r)
  BY DEF IInv, CacheInv, TypeOK, Typed, OutputInv, CommandInv, PrepareStep, Active
<1>2. UNCHANGED <<flow, step, outputs, cmd>> /\ (GoTo(r, "start") \/ GoTo(r, "cleanup"))
  BY ONLY PrepareStep(r) DEF PrepareStep, Fail
<1>3. outfile' = outfile \/ SetOutfile(r, <<>>)
  BY ONLY PrepareStep(r) DEF PrepareStep
<1>4. \A d \in Dirs, s \in StepNames : outfile'[d][s] \in {outfile[d][s], None, <<>>}
  BY <1>1, <1>3 DEF SetOutfile, Shapes
<1>5. Worded'
  BY <1>1, <1>2, <1>4, WordedStays
<1>6. Elsewhere(r) /\ pc'[r] \in {"start", "cleanup"}
  BY <1>1, <1>2 DEF Elsewhere, GoTo
<1>7. Ready(r)'
  BY <1>1, <1>2, <1>6, ReadyStays DEF InSteps
<1> QED
  BY <1>1, <1>2, <1>5, <1>6, <1>7, CommandsKept

LEMMA ScriptWritesKeepsCommands ==
  ASSUME IInv, NEW r \in Runs, ScriptWrites(r) PROVE CommandInv'
<1>1. /\ pc \in [Runs -> Stages] /\ TypeOK /\ Worded /\ DOMAIN cmd = Runs /\ Shapes
      /\ pc[r] = "running" /\ r \in Active /\ Ready(r)
      /\ Dir(r) \in Dirs /\ step[r] \in 1..Len(Def(r).steps)
  <2>1. /\ TypeOK /\ Typed /\ Placed(r) /\ Worded /\ DOMAIN cmd = Runs /\ Shapes
        /\ pc[r] = "running" /\ r \in Active /\ Ready(r)
    BY DEF IInv, CacheInv, TypeOK, OutputInv, CommandInv, ScriptWrites, Active
  <2> QED
    BY <2>1, DirIsDir, FlowIs DEF Typed, Placed, InSteps
<1>2. UNCHANGED <<flow, step, outputs, cmd>> /\ GoTo(r, "wrote")
  BY DEF ScriptWrites
<1>3. Elsewhere(r) /\ pc'[r] = "wrote"
  BY <1>1, <1>2 DEF Elsewhere, GoTo
<1>4. Ready(r)'
  BY <1>1, <1>2, <1>3, ReadyStays DEF InSteps
<1>5a. PICK names \in SUBSET {o.name : o \in OutputsOf(r, "variable")} :
         \E vars_ \in [names -> Values] :
           IF names # {} /\ Dir(r) \in outs THEN SetOutfile(r, Updated(Lines(r), vars_))
           ELSE UNCHANGED outfile
  BY ONLY ScriptWrites(r) DEF ScriptWrites
<1>5. PICK vars_ \in [names -> Values] :
        IF names # {} /\ Dir(r) \in outs THEN SetOutfile(r, Updated(Lines(r), vars_))
        ELSE UNCHANGED outfile
  BY <1>5a
<1>6. CASE outfile' = outfile
  <2>1. Worded'
    BY <1>1, <1>2, <1>6 DEF Worded
  <2> QED BY <1>1, <1>2, <1>3, <1>4, <2>1, CommandsKept
<1>7. CASE names # {} /\ SetOutfile(r, Updated(Lines(r), vars_))
  <2> DEFINE file == Updated(Lines(r), vars_)
             s == Step(r).name
  <2>1. s \in StepNames
    <3>1. PICK o \in ToSet(Step(r).outputs) : TRUE
      BY <1>7 DEF OutputsOf
    <3>2. o.name \in NamesOf(Step(r).outputs)
      BY <3>1 DEF NamesOf, ToSet
    <3> QED BY <1>1, <3>2, StepIs DEF Step
  <2>2. \A n \in DOMAIN Lines(r) : Lines(r)[n] \in Values
    BY <1>1, <2>1 DEF Worded, Lines
  <2>3. \A n \in DOMAIN file : file[n] \in Values
    BY <2>2 DEF Updated
  <2>4. \A d \in Dirs, x \in StepNames :
          outfile'[d][x] = outfile[d][x] \/ outfile'[d][x] = file
    <3> HIDE DEF file
    <3> QED BY <1>1, <1>7 DEF SetOutfile, Shapes, file
  <2>5. Worded'
    <3> HIDE DEF file
    <3> QED BY <1>1, <1>2, <2>3, <2>4 DEF Worded
  <2> QED BY <1>1, <1>2, <1>3, <1>4, <2>5, CommandsKept
<1> QED BY <1>5, <1>6, <1>7

LEMMA CollectOutputsKeepsCommands ==
  ASSUME IInv, NEW r \in Runs, CollectOutputs(r) PROVE CommandInv'
<1>1. /\ pc \in [Runs -> Stages] /\ TypeOK /\ Worded /\ DOMAIN cmd = Runs /\ Shapes
      /\ pc[r] = "collect" /\ r \in Active /\ Ready(r) /\ step \in [Runs -> Nat \ {0}]
      /\ Dir(r) \in Dirs /\ step[r] \in 1..Len(Def(r).steps)
  <2>1. /\ TypeOK /\ Typed /\ Placed(r) /\ Worded /\ DOMAIN cmd = Runs /\ Shapes
        /\ pc[r] = "collect" /\ r \in Active /\ Ready(r)
    BY DEF IInv, CacheInv, TypeOK, OutputInv, CommandInv, CollectOutputs, Active
  <2> QED
    BY <2>1, DirIsDir, FlowIs DEF Typed, Placed, InSteps
<1>2. flow' = flow /\ outfile' = outfile /\ cmd' = [cmd EXCEPT ![r] = <<>>]
  BY DEF CollectOutputs
<1>3. Def(r)' = Def(r) /\ DOMAIN cmd' = Runs
  BY <1>1, <1>2 DEF Def
<1>4. CASE Fail(r) /\ UNCHANGED <<step, outputs>>
  <2>1. Elsewhere(r) /\ pc'[r] = "cleanup"
    BY <1>1, <1>2, <1>4 DEF Elsewhere, Fail, GoTo
  <2>2. Ready(r)'
    BY <2>1 DEF Ready, InSteps
  <2>3. Worded'
    BY <1>1, <1>2, <1>4 DEF Worded
  <2> QED BY <1>3, <2>1, <2>2, <2>3, CommandsKept
<1>5. CASE ~(Fail(r) /\ UNCHANGED <<step, outputs>>)
  <2> DEFINE st == Step(r)
             new == [so \in {<<st.name, n>> : n \in NamesOf(st.outputs)} |->
                       Value(r, LastNamed(st.outputs, so[2]))]
             Texts == Values \union {<<Text(p)>> : p \in Paths}
  <2>1. /\ \A o \in ToSet(st.outputs) : Produced(r, o)
        /\ GoTo(r, "check") /\ step' = [step EXCEPT ![r] = @ + 1]
        /\ outputs' = [outputs EXCEPT ![r] = Updated(@, new)]
    BY <1>5 DEF CollectOutputs
  <2>2. ASSUME NEW n \in NamesOf(st.outputs)
        PROVE  Value(r, LastNamed(st.outputs, n)) \in Texts
    <3> DEFINE o == LastNamed(st.outputs, n)
    <3>1. /\ st.name \in StepNames /\ o \in ToSet(st.outputs)
          /\ o.type # "variable" => o.path \in Paths
      BY <1>1, StepIs DEF Step
    <3>2. Produced(r, o)
      BY <2>1, <3>1
    <3>3. CASE o.type = "variable"
      <4>1. o.name \in DOMAIN Lines(r) /\ Value(r, o) = Lines(r)[o.name]
        BY <3>2, <3>3 DEF Produced, Value
      <4> QED BY <1>1, <3>1, <4>1 DEF Worded, Lines
    <3>4. CASE o.type # "variable"
      BY <3>1, <3>4 DEF Value
    <3> QED BY <3>3, <3>4
  <2>3. \A so \in DOMAIN new : new[so] \in Texts
    BY <2>2
  <2>4. /\ outputs'[r] = Updated(outputs[r], new)
        /\ \A q \in Runs \ {r} : outputs'[q] = outputs[q]
    BY <1>1, <2>1 DEF Shapes
  <2>5. Worded'
    <3> HIDE DEF new, Texts
    <3>1. \A q \in Runs : \A so \in DOMAIN outputs[q] : outputs[q][so] \in Texts
      BY <1>1 DEF Worded, Texts
    <3>2. \A so \in DOMAIN outputs'[r] : outputs'[r][so] \in Texts
      BY <2>3, <2>4, <3>1 DEF Updated
    <3>3. \A q \in Runs : \A so \in DOMAIN outputs'[q] : outputs'[q][so] \in Texts
      BY <2>4, <3>1, <3>2
    <3> QED BY <1>1, <1>2, <3>3 DEF Worded, Texts
  <2>6. Elsewhere(r) /\ pc'[r] = "check"
    BY <1>1, <1>2, <2>1, <2>4 DEF Elsewhere, GoTo
  <2>7. Ready(r)'
    BY <1>1, <1>3, <2>6 DEF Ready, InSteps
  <2> QED BY <1>3, <2>5, <2>6, <2>7, CommandsKept
<1> QED
  BY <1>4, <1>5

\* The output files that go with a directory.
LEMMA GoneKeepsWords ==
  ASSUME Shapes, NEW ds, outfile' = Clear(outfile, ds)
  PROVE  \A d \in Dirs, s \in StepNames : outfile'[d][s] \in {outfile[d][s], None, <<>>}
  BY DEF Shapes, Clear, Empty

LEMMA CleanupKeepsCommands ==
  ASSUME IInv, NEW r \in Runs, Cleanup(r) PROVE CommandInv'
<1>1. /\ pc \in [Runs -> Stages] /\ Worded /\ DOMAIN cmd = Runs /\ Shapes
      /\ UNCHANGED <<flow, step, outputs, cmd>> /\ GoTo(r, "end") /\ Gone({Dir(r)})
  BY DEF IInv, CacheInv, TypeOK, Typed, OutputInv, CommandInv, Cleanup
<1>2. Worded'
  BY <1>1, GoneKeepsWords, WordedStays DEF Gone
<1>3. Elsewhere(r) /\ pc'[r] = "end"
  BY <1>1 DEF Elsewhere, GoTo
<1>4. Ready(r)'
  BY <1>3 DEF Ready, InSteps
<1> QED
  BY <1>1, <1>2, <1>3, <1>4, CommandsKept

LEMMA BeginKeepsCommands ==
  ASSUME IInv, NEW r \in Runs, NEW f \in Flows, Begin(r, f) PROVE CommandInv'
<1>1. /\ pc \in [Runs -> Stages] /\ flow \in [Runs -> Flows \union {None}]
      /\ Worded /\ DOMAIN cmd = Runs /\ Shapes
      /\ UNCHANGED <<step, outputs, cmd>> /\ GoTo(r, "mkbase") /\ Gone({r})
      /\ flow' = [flow EXCEPT ![r] = f]
  BY DEF IInv, CacheInv, TypeOK, Typed, OutputInv, CommandInv, Begin
<1>2. Worded'
  BY <1>1, GoneKeepsWords, WordedStays DEF Gone
<1>3. Elsewhere(r) /\ pc'[r] = "mkbase"
  BY <1>1 DEF Elsewhere, GoTo
<1>4. Ready(r)'
  BY <1>3 DEF Ready, InSteps
<1> QED
  BY <1>1, <1>2, <1>3, <1>4, CommandsKept

LEMMA EndKeepsCommands ==
  ASSUME IInv, NEW r \in Runs, End(r) PROVE CommandInv'
<1>1. Worded /\ DOMAIN cmd = Runs /\ Forget({r}) /\ UNCHANGED outfile /\ TypeOK
  BY DEF IInv, CacheInv, CommandInv, End
<1>2. Worded'
  BY <1>1, WordedStays DEF Forget
<1>3. Elsewhere(r) /\ DOMAIN cmd' = Runs /\ r \notin Active'
  BY <1>1 DEF Forget, Elsewhere, Active
<1> QED
  BY <1>2, <1>3, CommandsKept

LEMMA CrashKeepsCommands ==
  ASSUME IInv, Crash PROVE CommandInv'
<1>1. Worded /\ Shapes /\ Forget(Runs) /\ outfile' = Clear(outfile, Runs) /\ TypeOK
  BY DEF IInv, CacheInv, OutputInv, CommandInv, Crash
<1>2. \A q \in Runs : outputs'[q] \in {outputs[q], <<>>}
  BY <1>1 DEF Forget
<1>3. Worded'
  BY <1>1, <1>2, GoneKeepsWords, WordedStays
<1>4. Active' = {} /\ DOMAIN cmd' = Runs
  BY <1>1 DEF Forget, Active
<1> QED
  BY <1>3, <1>4 DEF CommandInv

-----------------------------------------------------------------------------
(* The invariant *)

LEMMA InitHoldsToo == Init => IInv
<1> SUFFICES ASSUME Init PROVE OutputInv /\ CommandInv
  BY InitHolds DEF IInv
<1>1. Active = {}
  BY DEF Init, Active
<1>2. Shapes /\ Marked /\ Housed
  BY ToolsOptions DEF Init, Shapes, Marked, Housed
<1>3. Worded /\ DOMAIN cmd = Runs
  BY DEF Init, Worded
<1> QED
  BY <1>1, <1>2, <1>3 DEF OutputInv, CommandInv

LEMMA NextKeepsOutputs ==
  ASSUME IInv, [Next]_vars PROVE OutputInv'
<1>1. ASSUME NEW r \in Runs, FlowStep(r) PROVE OutputInv'
  BY <1>1, FlowAway, PrepareStepKeepsOutputs, CollectOutputsKeepsOutputs, CleanupKeepsOutputs, EndKeepsOutputs
  DEF FlowStep
<1>2. ASSUME NEW r \in Runs, ToolStep(r), UNCHANGED <<runVars, historyVars>> PROVE OutputInv'
  BY <1>2, ToolAway
<1>3. CASE UNCHANGED vars
  <2>1. /\ UNCHANGED <<pc, flow, step, outputs, wrote, outfile, files, soiled, mixed, base>>
        /\ Active' = Active /\ \A q : Dir(q)' = Dir(q)
    BY <1>3, SameFlow DEF vars, runVars, historyVars, Active
  <2>2. \A q \in Active \ mixed : Fresh(q)' /\ Written(q)' /\ Collected(q)'
    BY <2>1, UnnoticedKeeps DEF Unnoticed, IInv, OutputInv
  <2>3. \A q \in Active : Known(q)'
    BY <2>1, KnownStays DEF IInv, OutputInv
  <2> QED
    BY <2>1, <2>2, <2>3 DEF IInv, OutputInv, Shapes, Marked, Housed
<1> QED
  BY <1>1, <1>2, <1>3, FlowAway, ScriptWritesKeepsOutputs, BeginKeepsOutputs, CrashKeepsOutputs
  DEF Next, RunStep, ScriptStep

LEMMA NextKeepsCommands ==
  ASSUME IInv, [Next]_vars PROVE CommandInv'
<1>1. ASSUME NEW r \in Runs, FlowStep(r) PROVE CommandInv'
  BY <1>1, StepsKeepCommands, PrepareStepKeepsCommands, CollectOutputsKeepsCommands, CleanupKeepsCommands, EndKeepsCommands
  DEF FlowStep
<1>2. ASSUME NEW r \in Runs, ToolStep(r), UNCHANGED <<runVars, historyVars>> PROVE CommandInv'
  BY <1>2, ToolsKeepCommands
<1>3. CASE UNCHANGED vars
  <2>1. UNCHANGED <<pc, flow, step, outputs, cmd, outfile>> /\ Active' = Active
    BY <1>3 DEF vars, runVars, Active
  <2>2. \A q \in Active : Ready(q)'
    BY <2>1, ReadyStays DEF IInv, CommandInv
  <2> QED
    BY <2>1, <2>2 DEF IInv, CommandInv, Worded
<1> QED
  BY <1>1, <1>2, <1>3, StepsKeepCommands, ScriptWritesKeepsCommands, BeginKeepsCommands,
     CrashKeepsCommands
  DEF Next, RunStep, ScriptStep

LEMMA NextKeepsToo == IInv /\ [Next]_vars => IInv'
  BY NextKeeps, NextKeepsOutputs, NextKeepsCommands DEF IInv

\* The whole invariant, as FlowRun.cfg has it checked, holds throughout.
THEOREM Invariance == Spec => []IInv
  BY InitHoldsToo, NextKeepsToo, PTL DEF Spec

\* What a step hands to the steps after it is its own: the value of a variable
\* is what its script has written in this run, and a file is one of this run or,
\* in a directory that a process has died in, an old one.  It is so whatever the
\* flow declares twice, other runs do, and earlier ones have left, unless the run
\* shares its directory.
THEOREM OutputsAreOwn == Spec => []OutputsOfThisRun
<1>1. IInv => OutputsOfThisRun
  <2> SUFFICES ASSUME IInv, NEW r \in Active \ mixed, pc[r] \in InSteps,
                      NEW i \in 1..(step[r] - 1)
               PROVE  OwnOutputs(r, i)
    BY DEF OutputsOfThisRun
  <2> QED
    BY DEF IInv, OutputInv, Collected, InSteps
<1> QED
  BY <1>1, Invariance, PTL

\* No command of an accepted flow waits for an output that is not there: when a
\* step comes every output its command refers to has been collected
\* (ShellStep.ResolveTemplates never fails for one), also if the run shares its
\* directory.
NoOutputMissing ==
  \A r \in Runs :
    pc[r] = "check" /\ step[r] <= Len(Def(r).steps) =>
      Defined(ParseTemplates(Step(r).cmd), outputs[r])

LEMMA OutputsThere == IInv => NoOutputMissing
<1> SUFFICES ASSUME IInv, NEW r \in Runs, pc[r] = "check", step[r] <= Len(Def(r).steps),
                    NEW i \in DOMAIN ParseTemplates(Step(r).cmd)
             PROVE  Tail(ParseTemplates(Step(r).cmd)[i]) \in DOMAIN outputs[r]
  BY DEF NoOutputMissing, Defined
<1> DEFINE steps == Def(r).steps
           t == ParseTemplates(Step(r).cmd)[i]
<1>1. /\ TypeOK /\ Typed /\ r \in Active /\ Known(r) /\ flow[r] \in DOMAIN FlowFile
      /\ ValidateTemplateReferences(steps)
  BY DEF IInv, CacheInv, OutputInv, TypeOK, InRange, Active, Flows, ParseFlow, ValidateFlow
<1>2. /\ step[r] \in 1..Len(steps) /\ DOMAIN steps = 1..Len(steps) /\ Len(steps) \in Nat
  BY <1>1, FlowsAssumption DEF Typed, Def
<1>3. t \in ToSet(ParseTemplates(steps[step[r]].cmd))
  BY DEF ToSet, Step
<1>4. PICK j \in 1..(step[r] - 1) : steps[j].name = t[2] /\ t[3] \in NamesOf(steps[j].outputs)
  BY <1>1, <1>2, <1>3 DEF ValidateTemplateReferences
<1>5. <<t[2], t[3]>> \in DOMAIN outputs[r]
  BY <1>1, <1>4 DEF Known
<1>6. t = Output(t[2], t[3])
  <2>1. steps[step[r]] \in ToSet(FlowFile[flow[r]].steps)
    BY <1>2 DEF Def, ToSet
  <2> QED BY <1>1, <1>3, <2>1, StepsAssumption
<1>7. Tail(Output(t[2], t[3])) = <<t[2], t[3]>>
  BY DEF Output
<1> QED
  BY <1>5, <1>6, <1>7

THEOREM ReferencesAreCollected == Spec => []NoOutputMissing
  BY OutputsThere, Invariance, PTL

-----------------------------------------------------------------------------
(* What the commands are rendered from *)

LEMMA SequenceOf ==
  ASSUME NEW s, IsSequence(s), NEW T, ToSet(s) \subseteq T
  PROVE  s \in Seq(T) /\ DOMAIN s = 1..Len(s)
  BY DEF IsSequence, ToSet

\* The command and the secrets of a step of an accepted flow.
LEMMA CommandIs ==
  ASSUME TypeOK, NEW r \in Active, step[r] \in 1..Len(Def(r).steps)
  PROVE  /\ IsSequence(Step(r).cmd)
         /\ \A t \in ToSet(ParseTemplates(Step(r).cmd)) : t = Output(t[2], t[3])
         /\ \A t \in ToSet(ParseSecretTemplates(Step(r).cmd)) :
              /\ t = Secret(t[2])
              /\ t[2] \in NamesOf(Def(r).secrets) \union NamesOf(Step(r).secrets)
         /\ \A decls \in {Def(r).secrets, Step(r).secrets} :
              /\ IsSequence(decls) /\ ValidSecrets(decls)
              /\ \A d \in ToSet(decls) : ResolveSecret(d) # None => IsSequence(ResolveSecret(d))
<1> DEFINE flowfile == Def(r)
           st == Step(r)
<1>1. /\ flow[r] \in DOMAIN FlowFile /\ flowfile.steps \in Seq(ToSet(flowfile.steps))
      /\ ValidSecrets(flowfile.secrets) /\ ValidateSecretReferences(flowfile)
      /\ \A i \in DOMAIN flowfile.steps : ValidSecrets(flowfile.steps[i].secrets)
  BY FlowsAssumption DEF TypeOK, InRange, Active, Def, Flows, ParseFlow, ValidateFlow
<1>2. /\ step[r] \in DOMAIN flowfile.steps /\ st = flowfile.steps[step[r]]
      /\ st \in ToSet(FlowFile[flow[r]].steps) /\ flowfile = FlowFile[flow[r]]
  BY <1>1 DEF ToSet, Step, Def
<1> HIDE DEF flowfile, st
<1>3. /\ \A t \in ToSet(ParseTemplates(st.cmd)) : t = Output(t[2], t[3])
      /\ \A t \in ToSet(ParseSecretTemplates(st.cmd)) : t = Secret(t[2])
  BY <1>1, <1>2, StepsAssumption
<1>4. /\ IsSequence(st.cmd)
      /\ \A decls \in {flowfile.secrets, st.secrets} :
           /\ IsSequence(decls)
           /\ \A d \in ToSet(decls) : ResolveSecret(d) # None => IsSequence(ResolveSecret(d))
  BY <1>1, <1>2, TextsAssumption
<1>5. \A t \in ToSet(ParseSecretTemplates(st.cmd)) :
        t[2] \in NamesOf(flowfile.secrets) \union NamesOf(st.secrets)
  BY <1>1, <1>2 DEF ValidateSecretReferences
<1>6. \A decls \in {flowfile.secrets, st.secrets} : ValidSecrets(decls)
  BY <1>1, <1>2
<1> QED
  BY <1>3, <1>4, <1>5, <1>6 DEF flowfile, st

\* The secrets of a step: those that it and its flow declare, its own first.
LEMMA StepSecretsAre ==
  ASSUME TypeOK, NEW r \in Active, step[r] \in 1..Len(Def(r).steps),
         NEW n \in NamesOf(Def(r).secrets) \union NamesOf(Step(r).secrets)
  PROVE  /\ <<n>> \in DOMAIN StepSecrets(r)
         /\ StepSecrets(r)[<<n>>] = SecretValue(r, n)
         /\ \E d \in ToSet(Def(r).secrets) \union ToSet(Step(r).secrets) :
              SecretValue(r, n) = ResolveSecret(d)
<1>1. PICK A, B : A = Def(r).secrets /\ B = Step(r).secrets
  OBVIOUS
<1>2. /\ A \in Seq(ToSet(A)) /\ ValidSecrets(A) /\ B \in Seq(ToSet(B)) /\ ValidSecrets(B)
  BY <1>1, CommandIs DEF IsSequence
<1>3. PICK m : m = Load(<<>>, A)
  OBVIOUS
<1>4. StepSecrets(r) = Load(m, B)
  BY <1>1, <1>3 DEF StepSecrets
<1>5. /\ DOMAIN m = DOMAIN <<>> \union {<<x>> : x \in NamesOf(A)}
      /\ \A d \in ToSet(A) : m[<<d.name>>] = ResolveSecret(d)
  BY <1>2, <1>3, LoadIs
<1>6. /\ DOMAIN Load(m, B) = DOMAIN m \union {<<x>> : x \in NamesOf(B)}
      /\ \A d \in ToSet(B) : Load(m, B)[<<d.name>>] = ResolveSecret(d)
      /\ \A x \in DOMAIN m : (\A d \in ToSet(B) : x # <<d.name>>) => Load(m, B)[x] = m[x]
  BY <1>2, LoadIs
<1>7. <<n>> \in DOMAIN Load(m, B)
  BY <1>1, <1>5, <1>6
<1> DEFINE own == {d \in ToSet(B) : d.name = n}
           all == {d \in ToSet(A) : d.name = n}
           value == ResolveSecret(CHOOSE d \in (IF own # {} THEN own ELSE all) : TRUE)
<1>8. SecretValue(r, n) = value
  BY <1>1 DEF SecretValue
<1>9. CASE own # {}
  <2>1. PICK d \in own : value = ResolveSecret(d)
    BY <1>9
  <2>2. Load(m, B)[<<d.name>>] = ResolveSecret(d) /\ d.name = n
    BY <1>6
  <2> QED BY <1>1, <1>4, <1>7, <1>8, <2>1, <2>2
<1>10. CASE own = {}
  <2>1. n \in NamesOf(A) /\ all # {}
    BY <1>1, <1>10 DEF NamesOf, ToSet
  <2>2. PICK d \in all : value = ResolveSecret(d)
    BY <1>10, <2>1
  <2>3. m[<<n>>] = ResolveSecret(d) /\ <<n>> \in DOMAIN m
    BY <1>5, <2>1
  <2>4. \A e \in ToSet(B) : <<n>> # <<e.name>>
    BY <1>10
  <2>5. Load(m, B)[<<n>>] = m[<<n>>]
    BY <1>6, <2>3, <2>4
  <2> QED BY <1>1, <1>4, <1>7, <1>8, <2>2, <2>3, <2>5
<1> QED BY <1>9, <1>10

\* The tokens a command is rendered from.
OutputTokens(values) == UNION {ToSet(values[so]) : so \in DOMAIN values}
SecretTokens(decls) == UNION {ToSet(ResolveSecret(d)) : d \in ToSet(decls)}
Tokens(r) ==
  ToSet(Step(r).cmd) \union OutputTokens(outputs[r])
    \union SecretTokens(Def(r).secrets) \union SecretTokens(Step(r).secrets)

LEMMA OutputsAreSequences ==
  ASSUME Worded, NEW r \in Runs, NEW so \in DOMAIN outputs[r]
  PROVE  outputs[r][so] \in Seq(Tokens(r)) /\ IsSequence(outputs[r][so])
<1>1. IsSequence(outputs[r][so])
  <2>1. outputs[r][so] \in Values \union {<<Text(p)>> : p \in Paths}
    BY DEF Worded
  <2>2. \A p \in Paths : IsSequence(<<Text(p)>>)
    BY DEF IsSequence, ToSet
  <2> QED BY <2>1, <2>2, TextsAssumption
<1>2. ToSet(outputs[r][so]) \subseteq Tokens(r)
  <2>1. OutputTokens(outputs[r]) \subseteq Tokens(r)
    BY DEF Tokens
  <2> QED BY <2>1 DEF OutputTokens
<1> QED
  BY <1>1, <1>2, SequenceOf

\* A secret that the command refers to is one of the step or of its flow.
LEMMA SecretIs ==
  ASSUME TypeOK, NEW r \in Active, step[r] \in 1..Len(Def(r).steps),
         NEW t \in ToSet(Step(r).cmd), t[1] = "secret"
  PROVE  /\ Tail(t) \in DOMAIN StepSecrets(r)
         /\ StepSecrets(r)[Tail(t)] = SecretValue(r, t[2])
         /\ \E d \in ToSet(Def(r).secrets) \union ToSet(Step(r).secrets) :
              SecretValue(r, t[2]) = ResolveSecret(d)
<1>1. PICK c : c = Step(r).cmd
  OBVIOUS
<1>2. PICK T : T = ToSet(c) /\ c \in Seq(T)
  BY <1>1, CommandIs DEF IsSequence
<1>3. PICK srefs : srefs = References(c, "secret")
  OBVIOUS
<1>4. PICK k \in 1..Len(c) : c[k] = t
  BY <1>1, <1>2 DEF ToSet
<1>5. srefs \in Seq({c[n] : n \in {j \in 1..Len(c) : c[j][1] = "secret"}})
  BY <1>2, <1>3, ReferencesAre
<1>6. \E j \in 1..Len(srefs) : srefs[j] = t
  <2>1. c[k][1] = "secret"
    BY <1>4
  <2>2. \E j \in 1..Len(References(c, "secret")) : References(c, "secret")[j] = c[k]
    BY <1>2, <2>1, ReferencesHas
  <2> QED BY <1>3, <1>4, <2>2
<1>7. t \in ToSet(ParseSecretTemplates(c))
  BY <1>3, <1>5, <1>6 DEF ToSet, ParseSecretTemplates
<1>8. /\ t = Secret(t[2])
      /\ t[2] \in NamesOf(Def(r).secrets) \union NamesOf(Step(r).secrets)
  BY <1>1, <1>7, CommandIs
<1>9. Tail(t) = <<t[2]>>
  <2>1. Tail(Secret(t[2])) = <<t[2]>>
    BY DEF Secret
  <2> QED BY <1>8, <2>1
<1> QED
  BY <1>8, <1>9, StepSecretsAre

\* A secret that the command refers to once its outputs are put in is declared,
\* unless an output has a reference to one.
LEMMA SecretsThere ==
  ASSUME TypeOK, Worded, NEW r \in Active, step[r] \in 1..Len(Def(r).steps),
         NEW refs, refs = ParseTemplates(Step(r).cmd), Defined(refs, outputs[r]),
         \A so \in DOMAIN outputs[r] : ~Has(outputs[r][so], "secret")
  PROVE  Defined(ParseSecretTemplates(Substitute(Step(r).cmd, refs, outputs[r])), StepSecrets(r))
<1>1. PICK c, values : c = Step(r).cmd /\ values = outputs[r]
  OBVIOUS
<1> DEFINE T == ToSet(c) \union UNION {ToSet(values[so]) : so \in DOMAIN values}
           K == {c[i] : i \in {j \in 1..Len(c) : c[j][1] = "output"}}
<1>2. c \in Seq(T)
  BY <1>1, CommandIs, SequenceOf
<1>3. \A so \in DOMAIN values : values[so] \in Seq(T)
  BY <1>1, OutputsAreSequences, SequenceOf DEF Active
<1>4. refs \in Seq(K)
  BY <1>1, <1>2, ReferencesAre DEF ParseTemplates
<1>5. \A i \in 1..Len(refs) : values[Tail(refs[i])] \in Seq(T)
  <2>1. DOMAIN refs = 1..Len(refs)
    <3> HIDE DEF K
    <3> QED BY <1>4
  <2>2. \A i \in DOMAIN refs : Tail(refs[i]) \in DOMAIN values
    BY <1>1 DEF Defined
  <2> HIDE DEF T
  <2> QED BY <1>3, <2>1, <2>2
<1>6. PICK filled \in Seq(T) : filled = Substitute(c, refs, values)
  <2>1. Substitute(c, refs, values) \in Seq(T)
    <3> HIDE DEF T, K
    <3> QED BY <1>2, <1>4, <1>5, SubstituteWithin
  <2> QED BY <2>1
<1>7. PICK found : found = ParseSecretTemplates(filled)
  OBVIOUS
<1>8. found \in Seq({filled[i] : i \in {j \in 1..Len(filled) : filled[j][1] = "secret"}})
  <2> HIDE DEF T
  <2> QED BY <1>7, ReferencesAre DEF ParseSecretTemplates
<1> SUFFICES ASSUME NEW i \in DOMAIN found
             PROVE  Tail(found[i]) \in DOMAIN StepSecrets(r)
  BY <1>1, <1>6, <1>7 DEF Defined
<1>9. PICK t \in T : t = found[i] /\ t[1] = "secret"
  <2> HIDE DEF T
  <2> QED BY <1>8
<1>10. t \in ToSet(c)
  <2>1. ASSUME NEW so \in DOMAIN values, t \in ToSet(values[so]) PROVE FALSE
    BY <1>1, <1>9, <2>1 DEF Has, ToSet
  <2> QED BY <1>9, <2>1
<1> QED
  BY <1>1, <1>9, <1>10, SecretIs

\* A step of an accepted flow whose secrets are there is never refused, but for a
\* secret when an output has a reference to one
\* (ShellStep.ResolveTemplates after ValidateFlow).
THEOREM AcceptedReferencesResolve == Spec => []AcceptedResolves
<1>1. IInv => AcceptedResolves
  <2> SUFFICES ASSUME IInv, NEW r \in Runs, pc[r] = "check", step[r] <= Len(Def(r).steps)
               PROVE  \/ Resolved(r).error = None
                      \/ /\ Resolved(r).error = "secret"
                         /\ \E so \in DOMAIN outputs[r] : Has(outputs[r][so], "secret")
    BY DEF AcceptedResolves
  <2>1. TypeOK /\ Worded /\ r \in Active /\ step[r] \in 1..Len(Def(r).steps)
    <3>1. TypeOK /\ Worded /\ r \in Active
      BY DEF IInv, CacheInv, CommandInv, Active
    <3> QED BY <3>1, FlowIs DEF TypeOK, Typed
  <2>2. PICK refs : refs = ParseTemplates(Step(r).cmd) /\ Defined(refs, outputs[r])
    BY OutputsThere DEF NoOutputMissing
  <2>3. CASE \E so \in DOMAIN outputs[r] : Has(outputs[r][so], "secret")
    BY <2>2, <2>3 DEF Resolved, ResolveTemplates
  <2>4. CASE \A so \in DOMAIN outputs[r] : ~Has(outputs[r][so], "secret")
    <3>1. Defined(ParseSecretTemplates(Substitute(Step(r).cmd, refs, outputs[r])), StepSecrets(r))
      BY <2>1, <2>2, <2>4, SecretsThere
    <3> QED BY <2>2, <3>1 DEF Resolved, ResolveTemplates
  <2> QED BY <2>3, <2>4
<1> QED
  BY <1>1, Invariance, PTL

\* An output that the command refers to is one of those that are put in.
LEMMA OutputIs ==
  ASSUME NEW T, NEW c \in Seq(T), NEW values, Defined(ParseTemplates(c), values),
         NEW i \in 1..Len(c), c[i][1] = "output"
  PROVE  Tail(c[i]) \in DOMAIN values
<1>1. PICK refs : refs = References(c, "output")
  OBVIOUS
<1>2. refs \in Seq({c[n] : n \in {j \in 1..Len(c) : c[j][1] = "output"}})
  BY <1>1, ReferencesAre
<1>3. PICK j \in 1..Len(refs) : refs[j] = c[i]
  <2>1. \E j \in 1..Len(References(c, "output")) : References(c, "output")[j] = c[i]
    <3>1. PICK kind : kind = "output" /\ c[i][1] = kind
      OBVIOUS
    <3>2. \E j \in 1..Len(References(c, kind)) : References(c, kind)[j] = c[i]
      BY <3>1, ReferencesHas
    <3> QED BY <3>1, <3>2
  <2> QED BY <1>1, <2>1
<1>4. j \in DOMAIN refs
  BY <1>2
<1> QED
  BY <1>1, <1>3, <1>4 DEF Defined, ParseTemplates

LEMMA RenderedIs ==
  ASSUME TypeOK, Worded, NEW r \in Active, step[r] \in 1..Len(Def(r).steps),
         Loads(Def(r).secrets), Loads(Step(r).secrets), Resolved(r).error = None, Plain(r)
  PROVE  Resolved(r).cmd = Rendered(r)
<1>1. PICK c, values, secrets : c = Step(r).cmd /\ values = outputs[r] /\ secrets = StepSecrets(r)
  OBVIOUS
<1>2. PICK T : T = Tokens(r)
  OBVIOUS
<1>3. PICK filled : filled = Substitute(c, References(c, "output"), values)
  OBVIOUS
<1>4. /\ Defined(ParseTemplates(c), values)
      /\ Resolved(r).cmd = Substitute(filled, References(filled, "secret"), secrets)
  BY <1>1, <1>3, ErrorsAssumption DEF Resolved, ResolveTemplates, ParseTemplates, ParseSecretTemplates
<1>5. c \in Seq(T) /\ DOMAIN c = 1..Len(c)
  BY <1>1, <1>2, CommandIs, SequenceOf DEF Tokens
<1>6. ASSUME NEW i \in 1..Len(c), c[i][1] = "output"
      PROVE  /\ values[Tail(c[i])] \in Seq(T)
             /\ Free(values[Tail(c[i])], "output") /\ Free(values[Tail(c[i])], "secret")
  <2>1. Tail(c[i]) \in DOMAIN values
    BY <1>4, <1>5, <1>6, OutputIs
  <2>2. PICK v \in Seq(T) : v = values[Tail(c[i])]
    BY <1>1, <1>2, <2>1, OutputsAreSequences DEF Active
  <2>3. ~Has(v, "output") /\ ~Has(v, "secret")
    BY <1>1, <2>1, <2>2 DEF Plain
  <2>4. Free(v, "output") /\ Free(v, "secret")
    BY <2>2, <2>3 DEF Has, Free
  <2> QED BY <2>2, <2>4
<1>7. ASSUME NEW i \in 1..Len(c), c[i][1] = "secret"
      PROVE  /\ secrets[Tail(c[i])] = SecretValue(r, c[i][2])
             /\ secrets[Tail(c[i])] \in Seq(T) /\ Free(secrets[Tail(c[i])], "secret")
  <2>1. c[i] \in ToSet(Step(r).cmd)
    BY <1>1, <1>5 DEF ToSet
  <2>2. /\ secrets[Tail(c[i])] = SecretValue(r, c[i][2])
        /\ \E d \in ToSet(Def(r).secrets) \union ToSet(Step(r).secrets) :
             SecretValue(r, c[i][2]) = ResolveSecret(d)
    BY <1>1, <1>7, <2>1, SecretIs
  <2>3. PICK d \in ToSet(Def(r).secrets) \union ToSet(Step(r).secrets) :
             SecretValue(r, c[i][2]) = ResolveSecret(d)
    BY <2>2
  <2>4. ResolveSecret(d) # None
    BY DEF Loads, ToSet
  <2>5. IsSequence(ResolveSecret(d))
    BY <2>4, CommandIs
  <2>6. ToSet(ResolveSecret(d)) \subseteq T
    <3>1. \A decls : d \in ToSet(decls) => ToSet(ResolveSecret(d)) \subseteq SecretTokens(decls)
      BY DEF SecretTokens
    <3>2. SecretTokens(Def(r).secrets) \subseteq T /\ SecretTokens(Step(r).secrets) \subseteq T
      BY <1>2 DEF Tokens
    <3> QED BY <3>1, <3>2
  <2>7. PICK v \in Seq(T) : v = ResolveSecret(d)
    BY <2>5, <2>6, SequenceOf
  <2>8. ~Has(v, "secret")
    BY <2>7 DEF Plain
  <2>9. Free(v, "secret")
    BY <2>7, <2>8 DEF Has, Free
  <2> QED BY <2>2, <2>3, <2>7, <2>9
<1>8. Replaceable(T, c, values, secrets)
  BY <1>6, <1>7 DEF Replaceable
<1>9. Resolved(r).cmd = AtOnce(c, values, secrets)
  BY <1>3, <1>4, <1>5, <1>8, ResolvedAtOnce
<1>10. AtOnce(c, values, secrets) = Rendered(r)
  <2> DEFINE Token(t) == CASE t[1] = "output" -> values[Tail(t)]
                           [] t[1] = "secret" -> SecretValue(r, t[2])
                           [] OTHER -> <<t>>
  <2>1. \A i \in DOMAIN c : Both(c[i], values, secrets) = Token(c[i])
    BY <1>5, <1>7 DEF Both
  <2>2. [i \in DOMAIN c |-> Both(c[i], values, secrets)] = [i \in DOMAIN c |-> Token(c[i])]
    <3> HIDE DEF Token
    <3> QED BY <2>1
  <2>3. Rendered(r) = FlattenSeq([i \in DOMAIN c |-> Token(c[i])])
    BY <1>1 DEF Rendered
  <2> QED BY <2>2, <2>3 DEF AtOnce
<1> QED
  BY <1>9, <1>10

\* The command that is run is the one that was written with each reference
\* replaced by its value, for commands, outputs and secrets of any length, unless
\* a value has a reference itself (ResolveTemplates of template.go).
THEOREM RenderedAsWritten == Spec => []RendersAsWritten
<1>1. IInv => RendersAsWritten
  <2> SUFFICES ASSUME IInv, NEW r \in Runs, pc[r] \in {"prepare", "start", "launch"}, Plain(r)
               PROVE  cmd[r] = Rendered(r)
    BY DEF RendersAsWritten
  <2>1. TypeOK /\ Worded /\ r \in Active /\ Ready(r) /\ Placed(r)
    BY DEF IInv, CacheInv, CommandInv, Active
  <2>2. step[r] \in 1..Len(Def(r).steps)
    BY <2>1, FlowIs DEF TypeOK, Typed, Placed, InSteps
  <2>3. /\ Loads(Def(r).secrets) /\ Loads(Step(r).secrets)
        /\ Resolved(r).error = None /\ cmd[r] = Resolved(r).cmd
    BY <2>1 DEF Ready, InSteps
  <2> QED
    BY <2>1, <2>2, <2>3, RenderedIs
<1> QED
  BY <1>1, Invariance, PTL

=============================================================================
