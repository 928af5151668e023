------------------------------- MODULE FlowRun ------------------------------
(***************************************************************************)
(* The execution of a flow (internal/engine/core.go): the state directory  *)
(* (internal/engine/state.go), the tools, the secrets, then one step after *)
(* the other as a script (internal/engine/step_shell.go) whose outputs are *)
(* collected for the commands of the steps that follow.                    *)
(*                                                                         *)
(* A run is cancelled or ends by itself; the process that runs it may die  *)
(* and be started again, when the flow may be run again.  Runs of flows    *)
(* that name the same state directory share it.                            *)
(***************************************************************************)
EXTENDS Tools, FiniteSets

CONSTANTS
  First,     \* bound: the runs that begin when nothing else runs
  Together,  \* bound: the sets of flows that are run at one time
  StepNames, \* the names of the steps of flows
  Paths,     \* the paths of their outputs
  Values     \* the values a script may write to its output file

ASSUME StepsAssumption ==
  \A f \in DOMAIN FlowFile : \A s \in ToSet(FlowFile[f].steps) :
    /\ s.name \in StepNames \union {None} /\ s.outputs \in Seq(ToSet(s.outputs))
    /\ \A o \in ToSet(s.outputs) : o.path \in Paths \union {None}
    /\ \A t \in ToSet(ParseTemplates(s.cmd)) : t = Output(t[2], t[3])
    /\ \A t \in ToSet(ParseSecretTemplates(s.cmd)) : t = Secret(t[2])

\* What commands are rendered from are sequences of tokens, and so are commands.
IsSequence(s) == s \in Seq(ToSet(s))
ASSUME TextsAssumption ==
  /\ \A value \in Values : IsSequence(value)
  /\ \A f \in DOMAIN FlowFile : \A s \in ToSet(FlowFile[f].steps) :
       /\ IsSequence(s.cmd)
       /\ \A decls \in {FlowFile[f].secrets, s.secrets} :
            /\ IsSequence(decls)
            /\ \A d \in ToSet(decls) : ResolveSecret(d) # None => IsSequence(ResolveSecret(d))

ASSUME OldAssumption == "old" \notin Runs \union {None}
ASSUME ErrorsAssumption == None \notin {"output", "secret"}

VARIABLES
  outs,      \* the outputs directories that exist
  outfile,   \* directory, step -> its output file: name -> value, or None
  files,     \* directory -> path -> the run that wrote it, "old" or None
  step,      \* run: the step it is at
  outputs,   \* run: <<step, output>> -> value
  cmd,       \* run: the command of the step, resolved
  cancelled, \* the runs whose context is cancelled
  wrote,     \* history: what the scripts of the run have written
  mixed,     \* history: the runs that have shared their state directory
  soiled,    \* history: the directories a process has died in
  cut        \* history: ... when the cache there had something wrong

runVars == <<outs, outfile, files, step, outputs, cmd, cancelled>>
historyVars == <<wrote, mixed, soiled, cut>>
vars == <<pc, flow, result, base, made, toolVars, runVars, historyVars>>

Flows == DOMAIN FlowFile
Step(r) == Def(r).steps[step[r]]

Init ==
  /\ pc = [r \in Runs |-> "idle"]
  /\ flow = [r \in Runs |-> None] /\ result = [r \in Runs |-> None]
  /\ base = {} /\ made = {} /\ outs = {}
  /\ bin = [d \in Dirs |-> [t \in ToolNames |-> None]]
  /\ meta = [d \in Dirs |-> [t \in ToolNames |-> None]]
  /\ tool = [r \in Runs |-> 1] /\ tries = [r \in Runs |-> 0]
  /\ archive = [r \in Runs |-> None]
  /\ outfile = [d \in Dirs |-> [s \in StepNames |-> None]]
  /\ files = [d \in Dirs |-> [p \in Paths |-> None]]
  /\ step = [r \in Runs |-> 1]
  /\ outputs = [r \in Runs |-> <<>>] /\ cmd = [r \in Runs |-> <<>>]
  /\ cancelled = {}
  /\ wrote = [r \in Runs |-> <<>>]
  /\ mixed = {} /\ soiled = {} /\ cut = {}

-----------------------------------------------------------------------------
(* Begin, and the state directory.                                         *)

Active == {r \in Runs : pc[r] # "idle"}
Sharing(d) == {r \in Active : Dir(r) = d}

Empty(places) == [d \in DOMAIN places |-> [x \in DOMAIN places[d] |-> None]]
Clear(places, ds) == [d \in DOMAIN places |-> IF d \in ds THEN Empty(places)[d] ELSE places[d]]
Gone(ds) ==
  /\ base' = base \ ds /\ made' = made \ ds /\ outs' = outs \ ds
  /\ bin' = Clear(bin, ds) /\ meta' = Clear(meta, ds)
  /\ outfile' = Clear(outfile, ds) /\ files' = Clear(files, ds)
  /\ soiled' = soiled \ ds /\ cut' = cut \ ds

\* Bound: the runs that share nothing are looked at one by one, and runs at one
\* time only in a directory that nobody has died in.
Bounded(r, f) ==
  /\ Active = {} => r \in First
  /\ Active # {} =>
       soiled = {} /\ ({f} \union {flow[q] : q \in Active}) \in Together
  /\ base \intersect StateDirs # {} => FlowFile[f].stateDir # None

\* A directory of its own has a random name, that of no earlier run.
Begin(r, f) ==
  /\ pc[r] = "idle" /\ Bounded(r, f) /\ ParseFlow(FlowFile[f])
  /\ flow' = [flow EXCEPT ![r] = f]
  /\ GoTo(r, "mkbase")
  /\ mixed' = IF Sharing(FlowFile[f].stateDir) = {} THEN mixed
              ELSE mixed \union Sharing(FlowFile[f].stateDir) \union {r}
  /\ Gone({r})
  /\ UNCHANGED <<result, tool, tries, archive, step, outputs, cmd, cancelled, wrote>>

\* Initialize fails before anybody is to clean up.
NotInitialized(r) ==
  /\ GoTo(r, "end") /\ result' = [result EXCEPT ![r] = "error"]
  /\ soiled' = soiled \union (base \intersect {Dir(r)})

MkBase(r) ==
  /\ pc[r] = "mkbase"
  /\ \/ base' = base \union {Dir(r)} /\ GoTo(r, "mkouts") /\ UNCHANGED <<result, soiled>>
     \/ "mkdir" \in Faults /\ NotInitialized(r) /\ UNCHANGED base
  /\ UNCHANGED <<flow, made, toolVars, runVars, wrote, mixed, cut>>

MkOuts(r) ==
  /\ pc[r] = "mkouts"
  /\ \/ /\ base' = base \union {Dir(r)} /\ outs' = outs \union {Dir(r)}
        /\ GoTo(r, IF Def(r).tools = <<>> THEN "secrets" ELSE "mktools")
        /\ UNCHANGED <<result, soiled>>
     \/ "mkdir" \in Faults /\ NotInitialized(r) /\ UNCHANGED <<base, outs>>
  /\ UNCHANGED <<flow, made, toolVars, outfile, files, step, outputs, cmd, cancelled,
                 wrote, mixed, cut>>

LoadFlowSecrets(r) ==
  /\ pc[r] = "secrets"
  /\ IF Loads(Def(r).secrets) THEN GoTo(r, "check") /\ UNCHANGED result ELSE Fail(r)
  /\ UNCHANGED <<flow, base, made, toolVars, runVars, historyVars>>

-----------------------------------------------------------------------------
(* The steps.                                                              *)

StepSecrets(r) == Load(Load(<<>>, Def(r).secrets), Step(r).secrets)
Resolved(r) == ResolveTemplates(Step(r).cmd, outputs[r], StepSecrets(r))

NextStep(r) ==
  /\ pc[r] = "check"
  /\ IF step[r] > Len(Def(r).steps) THEN Succeed(r) /\ UNCHANGED cmd
     ELSE IF r \in cancelled \/ ~Loads(Step(r).secrets) \/ Resolved(r).error # None
     THEN Fail(r) /\ UNCHANGED cmd
     ELSE /\ cmd' = [cmd EXCEPT ![r] = Resolved(r).cmd]
          /\ GoTo(r, "prepare") /\ UNCHANGED result
  /\ UNCHANGED <<flow, base, made, toolVars, outs, outfile, files, step, outputs,
                 cancelled, historyVars>>

SetOutfile(r, vars_) == outfile' = [outfile EXCEPT ![Dir(r)][Step(r).name] = vars_]

\* Mutant: the output file of the step is kept if it is there.
PrepareKeeping(r) ==
  /\ pc[r] = "prepare"
  /\ IF Step(r).name = None \/ Dir(r) \in outs
     THEN GoTo(r, "start") /\ UNCHANGED result ELSE Fail(r)
  /\ base' = IF Step(r).name = None THEN base ELSE base \union {Dir(r)}
  /\ UNCHANGED <<flow, made, toolVars, runVars, historyVars>>
PrepareStep(r) ==
  /\ pc[r] = "prepare"
  /\ IF Step(r).name = None THEN GoTo(r, "start") /\ UNCHANGED <<result, base, outfile>>
     ELSE /\ base' = base \union {Dir(r)}
          /\ IF Dir(r) \in outs
             THEN SetOutfile(r, <<>>) /\ GoTo(r, "start") /\ UNCHANGED result
             ELSE Fail(r) /\ UNCHANGED outfile
  /\ UNCHANGED <<flow, made, toolVars, outs, files, step, outputs, cmd, cancelled,
                 historyVars>>

\* The script is written to a file and the context is looked at.  A script of
\* comments is not run.
StartScript(r) ==
  /\ pc[r] = "start"
  /\ \/ /\ cmd[r] # <<>> /\ Head(cmd[r]) = Comment
        /\ GoTo(r, "collect") /\ UNCHANGED result
     \/ /\ cmd[r] = <<>> \/ Head(cmd[r]) # Comment
        /\ \/ r \notin cancelled /\ GoTo(r, "launch") /\ UNCHANGED result
           \/ (r \in cancelled \/ "write" \in Faults) /\ Fail(r)
  /\ UNCHANGED <<flow, base, made, toolVars, runVars, historyVars>>

\* The process of the script begins, also when the run has been cancelled since.
LaunchScript(r) ==
  /\ pc[r] = "launch"
  /\ IF Dir(r) \in base THEN GoTo(r, "running") /\ UNCHANGED result ELSE Fail(r)
  /\ UNCHANGED <<flow, base, made, toolVars, runVars, historyVars>>

OutputsOf(r, type) == {o \in ToSet(Step(r).outputs) : o.type = type}
Lines(r) ==
  LET file == outfile[Dir(r)][Step(r).name] IN IF file = None THEN <<>> ELSE file

\* The script writes some of its outputs, in directories that are there.
ScriptWrites(r) ==
  /\ pc[r] = "running"
  /\ \E names \in SUBSET {o.name : o \in OutputsOf(r, "variable")} :
     \E vars_ \in [names -> Values], made_ \in SUBSET OutputsOf(r, "file") :
       /\ IF names # {} /\ Dir(r) \in outs THEN SetOutfile(r, Updated(Lines(r), vars_))
          ELSE UNCHANGED outfile
       /\ files' = IF Dir(r) \in base
                   THEN [files EXCEPT ![Dir(r)] =
                           [p \in DOMAIN @ |-> IF p \in {o.path : o \in made_}
                                            THEN r ELSE @[p]]]
                   ELSE files
       /\ wrote' = [wrote EXCEPT ![r] =
            Updated(@, [so \in {<<Step(r).name, n>> : n \in names} |-> vars_[so[2]]])]
  /\ GoTo(r, "wrote")
  /\ UNCHANGED <<flow, result, base, made, toolVars, outs, step, outputs, cmd,
                 cancelled, mixed, soiled, cut>>

\* It ends well or badly, if it ever does.
ScriptExits(r) ==
  /\ pc[r] = "wrote"
  /\ (GoTo(r, "collect") /\ UNCHANGED result) \/ Fail(r)
  /\ UNCHANGED <<flow, base, made, toolVars, runVars, historyVars>>

\* When the context is cancelled it is killed, unless it has ended before.
\* Mutant: a script is on its own as soon as it has begun.
ScriptStays(r) ==
  /\ pc[r] = "launch" /\ r \in cancelled /\ Fail(r)
  /\ UNCHANGED <<flow, base, made, toolVars, runVars, historyVars>>
ScriptKilled(r) ==
  /\ pc[r] \in {"running", "wrote"} /\ r \in cancelled /\ Fail(r)
  /\ UNCHANGED <<flow, base, made, toolVars, runVars, historyVars>>

\* Is the output there, and what does it stand for?
Produced(r, o) ==
  IF o.type = "variable" THEN o.name \in DOMAIN Lines(r)
  ELSE o.path \notin EscapingPaths /\ files[Dir(r)][o.path] # None
Value(r, o) == IF o.type = "variable" THEN Lines(r)[o.name] ELSE <<Text(o.path)>>

CollectOutputs(r) ==
  /\ pc[r] = "collect"
  /\ IF \A o \in ToSet(Step(r).outputs) : Produced(r, o)
     THEN /\ GoTo(r, "check") /\ step' = [step EXCEPT ![r] = @ + 1]
          /\ outputs' = [outputs EXCEPT ![r] =
               Updated(@, [so \in {<<Step(r).name, n>> : n \in NamesOf(Step(r).outputs)} |->
                             Value(r, LastNamed(Step(r).outputs, so[2]))])]
          /\ UNCHANGED result
     ELSE Fail(r) /\ UNCHANGED <<step, outputs>>
  /\ cmd' = [cmd EXCEPT ![r] = <<>>]
  /\ UNCHANGED <<flow, base, made, toolVars, outs, outfile, files, cancelled, historyVars>>

-----------------------------------------------------------------------------
(* The end of a run.                                                       *)

\* RemoveAll of the state directory, on every way out of Run.
Cleanup(r) ==
  /\ pc[r] = "cleanup"
  /\ Gone({Dir(r)})
  /\ GoTo(r, "end")
  /\ UNCHANGED <<flow, result, tool, tries, archive, step, outputs, cmd, cancelled,
                 wrote, mixed>>

\* What a run knows is gone when it is over, or its process has died.
Forget(rs) ==
  /\ pc' = [r \in Runs |-> IF r \in rs THEN "idle" ELSE pc[r]]
  /\ flow' = [r \in Runs |-> IF r \in rs THEN None ELSE flow[r]]
  /\ result' = [r \in Runs |-> IF r \in rs THEN None ELSE result[r]]
  /\ tool' = [r \in Runs |-> IF r \in rs THEN 1 ELSE tool[r]]
  /\ tries' = [r \in Runs |-> IF r \in rs THEN 0 ELSE tries[r]]
  /\ archive' = [r \in Runs |-> IF r \in rs THEN None ELSE archive[r]]
  /\ step' = [r \in Runs |-> IF r \in rs THEN 1 ELSE step[r]]
  /\ outputs' = [r \in Runs |-> IF r \in rs THEN <<>> ELSE outputs[r]]
  /\ cmd' = [r \in Runs |-> IF r \in rs THEN <<>> ELSE cmd[r]]
  /\ wrote' = [r \in Runs |-> IF r \in rs THEN <<>> ELSE wrote[r]]
  /\ cancelled' = cancelled \ rs /\ mixed' = mixed \ rs

\* The files of a run that is over are old ones to the next.
Aged(rs) ==
  [d \in Dirs |-> [p \in DOMAIN files[d] |-> IF files[d][p] \in rs THEN "old" ELSE files[d][p]]]

End(r) ==
  /\ pc[r] = "end"
  /\ Forget({r})
  /\ files' = Aged({r})
  /\ UNCHANGED <<base, made, bin, meta, outs, outfile, soiled, cut>>

Cancel(r) ==
  /\ pc[r] \notin {"idle", "end"}
  /\ cancelled' = cancelled \union {r}
  /\ UNCHANGED <<pc, flow, result, base, made, toolVars, outs, outfile, files, step,
                 outputs, cmd, historyVars>>

\* A binary that is what a declaration, or the metadata, ask for.
GoodFor(b, t) ==
  /\ b # None /\ b.url = t.url /\ b.exec /\ b.data # "part"
  /\ t.sha # None => b.data = "full"

\* Do the metadata of a tool say something of the binary that is not so?
Sound(d, t) ==
  meta[d][t] \in {None, Torn} \/ bin[d][t] = None \/ GoodFor(bin[d][t], meta[d][t])
Broken(d) == \E t \in ToolNames : ~Sound(d, t)

\* The process dies.  The directories the flows name stay; the others are
\* left behind, as the next run has a directory of its own.
Crash ==
  /\ Active # {}
  /\ Forget(Runs)
  /\ base' = base \ Runs /\ made' = made \ Runs /\ outs' = outs \ Runs
  /\ bin' = Clear(bin, Runs) /\ meta' = Clear(meta, Runs)
  /\ outfile' = Clear(outfile, Runs)
  /\ files' = [d \in Dirs |-> IF d \in Runs THEN Empty(files)[d] ELSE Aged(Runs)[d]]
  /\ soiled' = (soiled \union {Dir(r) : r \in Active}) \intersect (base \ Runs)
  /\ cut' = cut \union {d \in StateDirs : Broken(d) \/ Sharing(d) \intersect mixed # {}}

FlowStep(r) ==
  \/ MkBase(r) \/ MkOuts(r) \/ LoadFlowSecrets(r) \/ NextStep(r) \/ PrepareStep(r)
  \/ StartScript(r) \/ LaunchScript(r) \/ ScriptKilled(r) \/ CollectOutputs(r)
  \/ Cleanup(r) \/ End(r)

RunStep(r) == FlowStep(r) \/ (ToolStep(r) /\ UNCHANGED <<runVars, historyVars>>)
ScriptStep(r) == ScriptWrites(r) \/ ScriptExits(r)

Next ==
  \/ \E r \in Runs :
       RunStep(r) \/ ScriptStep(r) \/ Cancel(r) \/ \E f \in Flows : Begin(r, f)
  \/ Crash

Spec == Init /\ [][Next]_vars

\* The process goes on and the requests of tools are answered.  Nothing is assumed
\* of scripts: they may run for ever.
FairSpec == Spec /\ \A r \in Runs : WF_vars(RunStep(r))

-----------------------------------------------------------------------------
(* Properties.                                                             *)

InSteps == {"check", "prepare", "start", "launch", "running", "wrote", "collect"}
InTools == {"mktools", "tools", "needs", "fetch", "copy", "verify", "extract", "unpack",
            "chmod", "meta", "savemeta"}
Stages == {"idle", "mkbase", "mkouts", "secrets", "cleanup", "end"} \union InSteps
            \union InTools

\* The variables have the right types, and the indices stay in the flow.
InRange(r) ==
  /\ flow[r] \in Flows /\ ParseFlow(Def(r))
  /\ tool[r] <= Len(Def(r).tools) + 1
  /\ step[r] <= Len(Def(r).steps) + 1
  /\ pc[r] \in {"fetch", "copy"} => tries[r] >= 1
  /\ archive[r] # None => pc[r] \in InTools
Typed ==
  /\ pc \in [Runs -> Stages] /\ flow \in [Runs -> Flows \union {None}]
  /\ result \in [Runs -> {None, "ok", "error"}]
  /\ base \subseteq Dirs /\ made \subseteq base /\ outs \subseteq base
  /\ bin \in [Dirs -> [ToolNames -> Binary \union {None}]]
  /\ meta \in [Dirs -> [ToolNames -> Metadata \union {Torn, None}]]
  /\ \A d \in Dirs \ made, t \in ToolNames : bin[d][t] = None
  /\ tool \in [Runs -> Nat \ {0}] /\ tries \in [Runs -> Nat]
  /\ archive \in [Runs -> {None, "part", "other", "full"}]
  /\ step \in [Runs -> Nat \ {0}]
  /\ cancelled \subseteq Active /\ mixed \subseteq Active
  /\ soiled \subseteq base /\ cut \subseteq StateDirs
TypeOK == Typed /\ \A r \in Active : InRange(r)

\* The references of a flow that was accepted can be resolved when their step
\* comes: the outputs are always there, and a secret is missing only if the
\* value of an output looks like a reference to one.
Has(value, kind) == \E i \in DOMAIN value : value[i][1] = kind
AcceptedResolves ==
  \A r \in Runs :
    pc[r] = "check" /\ step[r] <= Len(Def(r).steps) /\ Loads(Step(r).secrets) =>
      \/ Resolved(r).error = None
      \/ /\ Resolved(r).error = "secret"
         /\ \E so \in DOMAIN outputs[r] : Has(outputs[r][so], "secret")

\* The command that is run is the one that was written, with every reference
\* replaced at once: outputs by what the run has collected, secrets by the
\* declaration of the step if there is one, else by that of the flow.  It is
\* so for outputs that do not look like references themselves, and secrets that
\* do not look like secrets: a value that does can be taken for the reference
\* that is still to be replaced.
SecretValue(r, name) ==
  LET own == {d \in ToSet(Step(r).secrets) : d.name = name}
      all == {d \in ToSet(Def(r).secrets) : d.name = name}
  IN  ResolveSecret(CHOOSE d \in (IF own # {} THEN own ELSE all) : TRUE)
Rendered(r) ==
  FlattenSeq([i \in DOMAIN Step(r).cmd |->
    LET t == Step(r).cmd[i]
    IN  CASE t[1] = "output" -> outputs[r][Tail(t)]
          [] t[1] = "secret" -> SecretValue(r, t[2])
          [] OTHER -> <<t>>])
Plain(r) ==
  /\ \A so \in DOMAIN outputs[r] :
       ~Has(outputs[r][so], "output") /\ ~Has(outputs[r][so], "secret")
  /\ \A d \in ToSet(Def(r).secrets) \union ToSet(Step(r).secrets) :
       ~Has(ResolveSecret(d), "secret")
RendersAsWritten ==
  \A r \in Runs : pc[r] \in {"prepare", "start", "launch"} /\ Plain(r) => cmd[r] = Rendered(r)

\* The outputs of a step that is done: the values that its script has written in
\* this run, and the places of files of this run, or old ones.
OwnOutputs(r, i) ==
  LET st == Def(r).steps[i]
  IN  \A n \in NamesOf(st.outputs) :
        LET so == <<st.name, n>>
            o == LastNamed(st.outputs, n)
        IN  /\ so \in DOMAIN outputs[r]
            /\ IF o.type = "variable"
               THEN so \in DOMAIN wrote[r] /\ outputs[r][so] = wrote[r][so]
               ELSE /\ outputs[r][so] = <<Text(o.path)>>
                    /\ \/ files[Dir(r)][o.path] = r
                       \/ files[Dir(r)][o.path] = "old" /\ Dir(r) \in soiled

\* What the steps after a step use is what it has declared and its own script has
\* written in this run, not what another or an earlier one has left.  A file is
\* only looked for, so that it may be one of another step, and an old one in a
\* directory a process has died in.
OutputsOfThisRun ==
  \A r \in Active \ mixed :
    pc[r] \in InSteps => \A i \in 1..(step[r] - 1) : OwnOutputs(r, i)

\* When the steps are run every tool is what the flow asks for: complete, of
\* the URL, checked if it has a checksum, and executable.  A binary that a
\* download replaces while old metadata are still there is the exception, if
\* the process dies then.
ToolsReady ==
  \A r \in Active \ mixed :
    pc[r] \in InSteps /\ Dir(r) \notin cut =>
      \A t \in ToSet(Def(r).tools) : t.url # None => GoodFor(bin[Dir(r)][t.name], t)

\* When nothing runs there is no state directory but those that were there
\* when a process died or that could not be made completely.
LeavesNothing == Active = {} => base \subseteq soiled

\* A run that does not end is at a script that does not end: no failure, retry or
\* other run in its directory keeps it going.
RunEnds ==
  \A r \in Runs : <>[](pc[r] # "idle") => <>[](pc[r] \in {"running", "wrote"})

\* And one that is cancelled ends, whatever its scripts do: the cancellation is
\* not lost wherever the run is, also between the look at the context and the
\* beginning of the process of a script.
CancelEnds == \A r \in Runs : r \in cancelled ~> pc[r] = "idle"
=============================================================================
