---------------------------- MODULE FlowRunProofs ---------------------------
(***************************************************************************)
(* Theorems about FlowRun for every set of flows, runs, directories and    *)
(* tools: CacheInv is inductive, and the properties follow from it.        *)
(*                                                                         *)
(* Most steps of a run change what is its own and the one directory it     *)
(* works in (Own).  Of such a step only what the run itself relies on is   *)
(* left to be shown (OwnKeeps): the runs that nobody shares a directory    *)
(* with do not notice it, and nothing is claimed of the others.            *)
(***************************************************************************)
EXTENDS FlowRunInv, TLAPS, SequenceTheorems

-----------------------------------------------------------------------------
(* Flows and their tools *)

\* A run works in one of the directories.
LEMMA DirIsDir ==
  ASSUME TypeOK, NEW r \in Active PROVE Dir(r) \in Dirs /\ r \in Runs
  BY FlowsAssumption DEF TypeOK, InRange, Active, Dir, Dirs, Def, Flows

\* The tools and steps of an accepted flow.
LEMMA FlowIs ==
  ASSUME TypeOK, NEW r \in Active
  PROVE  /\ Def(r).tools \in Seq(Declared) /\ Len(Def(r).tools) \in Nat
         /\ DOMAIN Def(r).tools = 1..Len(Def(r).tools)
         /\ Len(Def(r).steps) \in Nat
         /\ \A i \in 1..Len(Def(r).tools) :
              /\ Def(r).tools[i] \in Declared /\ Def(r).tools[i].name \in ToolNames
              /\ Retries(Def(r).tools[i]) \in Nat \ {0}
         /\ \A i, j \in 1..Len(Def(r).tools) :
              Def(r).tools[i].name = Def(r).tools[j].name => i = j
<1>1. /\ flow[r] \in DOMAIN FlowFile /\ ValidTools(Def(r).tools)
      /\ Def(r).tools \in Seq(Declared) /\ Def(r).steps \in Seq(ToSet(Def(r).steps))
  BY FlowsAssumption DEF TypeOK, InRange, Active, Def, Flows, ParseFlow, ValidateFlow
<1>2. /\ Len(Def(r).tools) \in Nat /\ DOMAIN Def(r).tools = 1..Len(Def(r).tools)
      /\ Len(Def(r).steps) \in Nat
      /\ \A i \in 1..Len(Def(r).tools) : Def(r).tools[i] \in Declared
  BY <1>1
<1>3. \A t \in Declared : t.name # None /\ Retries(t) >= 1 => t.name \in ToolNames /\ Retries(t) \in Nat \ {0}
  BY FlowsAssumption DEF Retries
<1> QED
  BY <1>1, <1>2, <1>3 DEF ValidTools

\* The tool that a run resolves.
LEMMA DeclIs ==
  ASSUME TypeOK, NEW r \in Active, tool[r] <= Len(Def(r).tools)
  PROVE  /\ Decl(r) \in Declared /\ Decl(r).name \in ToolNames
         /\ Retries(Decl(r)) \in Nat \ {0}
         /\ \A i \in 1..(tool[r] - 1) :
              /\ i \in 1..Len(Def(r).tools)
              /\ Def(r).tools[i].name \in ToolNames \ {Decl(r).name}
<1>1. r \in Runs /\ tool[r] \in 1..Len(Def(r).tools)
  BY FlowIs, DirIsDir DEF TypeOK, Typed
<1> QED
  BY <1>1, FlowIs DEF Decl

\* The records of the cache.
LEMMA BinaryIs ==
  /\ None \notin Binary
  /\ \A b \in Binary :
       /\ b.data \in {"part", "other", "full"} /\ b.exec \in BOOLEAN
       /\ [b EXCEPT !.exec = TRUE] \in Binary
       /\ [b EXCEPT !.exec = TRUE].url = b.url
       /\ [b EXCEPT !.exec = TRUE].data = b.data
       /\ [b EXCEPT !.exec = TRUE].exec
<1>1. None \notin Binary
  BY NoneAssumption
<1>2. ASSUME NEW b \in Binary
      PROVE  /\ b.data \in {"part", "other", "full"} /\ b.exec \in BOOLEAN
             /\ [b EXCEPT !.exec = TRUE] \in Binary
             /\ [b EXCEPT !.exec = TRUE].url = b.url
             /\ [b EXCEPT !.exec = TRUE].data = b.data
             /\ [b EXCEPT !.exec = TRUE].exec = TRUE
  BY DEF Binary
<1> QED
  BY <1>1, <1>2

LEMMA AskedIs ==
  ASSUME NEW t \in Declared
  PROVE  /\ Asked(t) \in Metadata /\ Asked(t) # None
         /\ Asked(t).url = t.url /\ Asked(t).sha = t.sha
         /\ t.url # None => Asked(t) # Torn
  BY NoneAssumption DEF Asked, Metadata, Torn

LEMMA CreatedIs ==
  ASSUME TypeOK, NEW r \in Active, tool[r] <= Len(Def(r).tools),
         NEW data \in {"part", "other", "full"}
  PROVE  /\ Created(r, data) \in Binary /\ Created(r, data) # None
         /\ Created(r, data).url = Decl(r).url /\ Created(r, data).data = data
<1>1. Bin(r) \in Binary \union {None} /\ Decl(r) \in Declared
  BY DirIsDir, DeclIs DEF TypeOK, Typed, Bin
<1>2. (Bin(r) # None /\ Bin(r).exec) \in BOOLEAN
  BY <1>1, BinaryIs
<1>3. Created(r, data) \in Binary
  BY <1>1, <1>2 DEF Created, Binary
<1> QED
  BY <1>3, NoneAssumption DEF Created

\* Writing one of its files leaves the others.
LEMMA SetBinIs ==
  ASSUME TypeOK, NEW r \in Active, Decl(r).name \in ToolNames, NEW b, SetBin(r, b)
  PROVE  /\ bin'[Dir(r)][Decl(r).name] = b
         /\ \A d \in Dirs \ {Dir(r)} : bin'[d] = bin[d]
         /\ \A t \in ToolNames \ {Decl(r).name} : bin'[Dir(r)][t] = bin[Dir(r)][t]
         /\ b \in Binary \union {None} =>
              bin' \in [Dirs -> [ToolNames -> Binary \union {None}]]
  BY DirIsDir DEF TypeOK, Typed, SetBin

LEMMA SetMetaIs ==
  ASSUME TypeOK, NEW r \in Active, Decl(r).name \in ToolNames, NEW m, SetMeta(r, m)
  PROVE  /\ meta'[Dir(r)][Decl(r).name] = m
         /\ \A d \in Dirs \ {Dir(r)} : meta'[d] = meta[d]
         /\ \A t \in ToolNames \ {Decl(r).name} : meta'[Dir(r)][t] = meta[Dir(r)][t]
         /\ m \in Metadata \union {Torn, None} =>
              meta' \in [Dirs -> [ToolNames -> Metadata \union {Torn, None}]]
  BY DirIsDir DEF TypeOK, Typed, SetMeta

-----------------------------------------------------------------------------
(* The steps of one run *)

\* A step that changes only what is the run's own and its directory.
Own(r) ==
  /\ pc' = [pc EXCEPT ![r] = pc'[r]] /\ pc'[r] # "idle"
  /\ UNCHANGED <<flow, mixed, cut>>
  /\ \A q \in Runs \ {r} :
       tool'[q] = tool[q] /\ tries'[q] = tries[q] /\ archive'[q] = archive[q]
         /\ step'[q] = step[q]
  /\ \A d \in Dirs \ {Dir(r)} : bin'[d] = bin[d] /\ meta'[d] = meta[d]
  /\ pc'[r] \in Quiet => pc[r] \in Quiet /\ UNCHANGED <<bin, meta>>

\* A run that does not notice a step of another.
Unseen(q) ==
  /\ pc'[q] = pc[q] /\ flow'[q] = flow[q] /\ tool'[q] = tool[q] /\ tries'[q] = tries[q]
  /\ archive'[q] = archive[q] /\ step'[q] = step[q]
  /\ q \in Active /\ Alone(q)' =>
       Alone(q) /\ bin'[Dir(q)] = bin[Dir(q)] /\ meta'[Dir(q)] = meta[Dir(q)]

LEMMA UnseenKeeps ==
  ASSUME CacheInv, NEW q \in Runs, Unseen(q)
  PROVE  Placed(q)' /\ (q \in Active => InRange(q)' /\ Caches(q)')
<1>1. Dir(q)' = Dir(q) /\ Def(q)' = Def(q) /\ Decl(q)' = Decl(q)
  BY DEF Unseen, Dir, Def, Decl
<1>2. Placed(q)'
  BY <1>1 DEF CacheInv, Placed, IsArchive, Unseen
<1>3. q \in Active => InRange(q)'
  BY <1>1 DEF CacheInv, TypeOK, InRange, Unseen
<1>4. ASSUME q \in Active, Alone(q)' PROVE Caches(q)'
  <2>1. Caches(q) /\ Alone(q)
    BY <1>4 DEF CacheInv, Unseen
  <2>2. /\ bin'[Dir(q)] = bin[Dir(q)] /\ meta'[Dir(q)] = meta[Dir(q)]
        /\ pc'[q] = pc[q] /\ tool'[q] = tool[q]
    BY <1>4 DEF Unseen
  <2>3. OthersTrue(q)'
    BY <1>1, <2>1, <2>2 DEF Caches, OthersTrue, Sound
  <2>4. EarlierGood(q)'
    BY <1>1, <2>1, <2>2 DEF Caches, EarlierGood
  <2>5. Fetched(q)'
    BY <1>1, <2>1, <2>2 DEF Caches, Fetched, Bin, IsArchive
  <2> QED BY <2>3, <2>4, <2>5 DEF Caches
<1> QED
  BY <1>2, <1>3, <1>4 DEF Caches

\* Nothing else than its flow makes the directory of a run.
LEMMA SameFlow ==
  ASSUME UNCHANGED flow
  PROVE  \A r : Dir(r)' = Dir(r) /\ Def(r)' = Def(r)
  BY DEF Dir, Def

LEMMA OwnActive ==
  ASSUME pc \in [Runs -> Stages], NEW r \in Active, Own(r)
  PROVE  Active' = Active /\ \A q \in Runs \ {r} : pc'[q] = pc[q]
  BY DEF Own, Active

LEMMA OwnKeeps ==
  ASSUME CacheInv, NEW r \in Active, Own(r), Typed', InRange(r)', Covered',
         Placed(r)', Caches(r)'
  PROVE  CacheInv'
<1>1. /\ Active' = Active /\ \A q \in Runs \ {r} : pc'[q] = pc[q]
      /\ \A q : Dir(q)' = Dir(q) /\ Def(q)' = Def(q)
  BY OwnActive, SameFlow DEF CacheInv, TypeOK, Typed, Own
<1>2. ASSUME NEW q \in Runs \ {r} PROVE Unseen(q)
  <2>1. q \in Active /\ Alone(q)' => Alone(q)
    BY <1>1 DEF Alone, Own
  <2>2. q \in Active /\ Alone(q) => Dir(q) \in Dirs \ {Dir(r)}
    BY DirIsDir DEF CacheInv, Apart, Alone
  <2> QED
    BY <1>1, <2>1, <2>2 DEF Unseen, Own
<1>3. \A q \in Active : InRange(q)' /\ Caches(q)'
  BY <1>2, UnseenKeeps DEF Active
<1>4. \A q \in Runs : Placed(q)'
  BY <1>2, UnseenKeeps
<1>5. CachesTrue'
  <2> SUFFICES ASSUME NEW d \in Dirs \ cut, NEW t \in ToolNames,
                      \A q \in Sharing(d)' : pc'[q] \in Quiet
               PROVE  Sound(d, t)'
    BY DEF CachesTrue, Own
  <2>1. Sharing(d)' = Sharing(d)
    BY <1>1 DEF Sharing
  <2>2. \A q \in Sharing(d) : pc[q] \in Quiet
    BY <2>1, <1>1 DEF Own, Sharing, Active
  <2>3. bin'[d] = bin[d] /\ meta'[d] = meta[d]
    BY <2>1 DEF Own, Sharing
  <2> QED
    BY <2>2, <2>3 DEF CacheInv, CachesTrue, Sound
<1>6. Apart'
  BY <1>1 DEF CacheInv, Apart, Own
<1> QED
  BY <1>1, <1>3, <1>4, <1>5, <1>6 DEF CacheInv, TypeOK
-----------------------------------------------------------------------------
(* The steps of the flow *)

\* What the steps of a flow have in common, its secrets included: the cache is
\* only used, and the run stays among them or fails.
StepMove(r) ==
  /\ pc[r] \in InSteps \union {"secrets"}
  /\ pc' = [pc EXCEPT ![r] = pc'[r]] /\ pc'[r] \in InSteps \union {"cleanup"}
  /\ UNCHANGED <<flow, toolVars, made, outs, cancelled, mixed, soiled, cut>>
  /\ result' \in [Runs -> {None, "ok", "error"}]
  /\ base' \in {base, base \union {Dir(r)}}
  /\ step' \in [Runs -> Nat \ {0}] /\ \A q \in Runs \ {r} : step'[q] = step[q]
  /\ step'[r] <= Len(Def(r).steps) + 1
  /\ pc'[r] \in InSteps \ {"check"} => step'[r] <= Len(Def(r).steps)

LEMMA StepKeeps ==
  ASSUME CacheInv, NEW r \in Active, StepMove(r) PROVE CacheInv'
<1>1. TypeOK /\ Typed /\ InRange(r) /\ Placed(r) /\ Caches(r) /\ r \in Runs /\ Dir(r) \in Dirs
  BY DirIsDir DEF CacheInv, TypeOK
<1>2. Dir(r)' = Dir(r) /\ Def(r)' = Def(r) /\ \A q : Dir(q)' = Dir(q)
  BY SameFlow DEF StepMove
<1>3. Own(r)
  BY DEF Own, StepMove, toolVars, InSteps, Quiet
<1>4. pc' \in [Runs -> Stages] /\ Active' = Active
  <2>1. pc \in [Runs -> Stages] /\ pc'[r] \in Stages
    BY <1>1 DEF Typed, StepMove, InSteps, Stages
  <2>2. pc' \in [Runs -> Stages]
    BY <2>1 DEF StepMove
  <2> QED BY <1>3, <2>1, <2>2, OwnActive
<1>5. Typed'
  BY <1>1, <1>4 DEF Typed, StepMove, toolVars
<1>6. InRange(r)'
  BY <1>1, <1>2 DEF InRange, StepMove, toolVars, InSteps, InTools, Placed, Downloading
<1>7. Covered'
  BY <1>1, <1>2, <1>3, <1>4 DEF CacheInv, Covered, StepMove, Own, InSteps, Active, Typed
<1>8. Placed(r)'
  BY <1>1, <1>2 DEF Placed, StepMove, toolVars, InSteps, InTools, Downloading
<1>9. Caches(r)'
  <2> SUFFICES ASSUME Alone(r)' PROVE OthersTrue(r)' /\ EarlierGood(r)' /\ Fetched(r)'
    BY DEF Caches
  <2>1. Alone(r)
    BY <1>2 DEF Alone, StepMove, InSteps, Quiet
  <2>2. bin' = bin /\ meta' = meta /\ tool' = tool /\ pc[r] \notin Downloading
    BY DEF StepMove, toolVars, InSteps, Downloading
  <2>3. OthersTrue(r)'
    BY <1>1, <1>2, <2>1, <2>2 DEF Caches, OthersTrue, Sound
  <2>4. EarlierGood(r)'
    BY <1>1, <1>2, <2>1, <2>2 DEF Caches, EarlierGood
  <2>5. Fetched(r)'
    BY DEF Fetched, StepMove, InSteps
  <2> QED BY <2>3, <2>4, <2>5
<1> QED
  BY <1>3, <1>5, <1>6, <1>7, <1>8, <1>9, OwnKeeps

LEMMA FlowStepMoves ==
  ASSUME CacheInv, NEW r \in Runs,
         \/ LoadFlowSecrets(r) \/ NextStep(r) \/ PrepareStep(r) \/ StartScript(r)
         \/ LaunchScript(r) \/ ScriptWrites(r) \/ ScriptExits(r) \/ ScriptKilled(r)
         \/ CollectOutputs(r)
  PROVE  CacheInv'
<1>1. r \in Active
  BY DEF Active, LoadFlowSecrets, NextStep, PrepareStep, StartScript, LaunchScript,
         ScriptWrites, ScriptExits, ScriptKilled, CollectOutputs
<1>2. /\ TypeOK /\ Typed /\ InRange(r) /\ Placed(r)
      /\ Len(Def(r).steps) \in Nat /\ step[r] \in Nat \ {0}
  BY <1>1, FlowIs DEF CacheInv, TypeOK, Typed
<1> USE <1>2 DEF StepMove, GoTo, Fail, Succeed, runVars, historyVars, InSteps, InTools, Typed, InRange, Placed
<1>3. CASE LoadFlowSecrets(r)
  <2>1. StepMove(r) BY <1>3 DEF LoadFlowSecrets
  <2> QED BY <2>1, <1>1, StepKeeps
<1>4. CASE NextStep(r)
  <2>1. \/ Succeed(r) \/ Fail(r)
        \/ GoTo(r, "prepare") /\ UNCHANGED result /\ ~(step[r] > Len(Def(r).steps))
    BY ONLY <1>4 DEF NextStep
  <2>2. /\ UNCHANGED <<flow, toolVars, base, made, outs, step, cancelled, mixed, soiled, cut>>
        /\ pc[r] = "check"
    BY <1>4 DEF NextStep
  <2>3. /\ pc' = [pc EXCEPT ![r] = pc'[r]] /\ pc'[r] \in {"cleanup", "prepare"}
        /\ result' \in [Runs -> {None, "ok", "error"}]
    BY <2>1
  <2>4. pc'[r] = "prepare" => step[r] <= Len(Def(r).steps)
    BY <2>1
  <2>5. StepMove(r)
    BY <2>2, <2>3, <2>4
  <2> QED BY <2>5, <1>1, StepKeeps
<1>5. CASE PrepareStep(r)
  <2>1. StepMove(r) BY <1>5 DEF PrepareStep
  <2> QED BY <2>1, <1>1, StepKeeps
<1>6. CASE StartScript(r)
  <2>1. StepMove(r) BY <1>6 DEF StartScript
  <2> QED BY <2>1, <1>1, StepKeeps
<1>7. CASE ScriptWrites(r)
  <2>1. StepMove(r) BY <1>7 DEF ScriptWrites
  <2> QED BY <2>1, <1>1, StepKeeps
<1>8. CASE ScriptExits(r)
  <2>1. StepMove(r) BY <1>8 DEF ScriptExits
  <2> QED BY <2>1, <1>1, StepKeeps
<1>10. CASE LaunchScript(r)
  <2>1. StepMove(r) BY <1>10 DEF LaunchScript
  <2> QED BY <2>1, <1>1, StepKeeps
<1>11. CASE ScriptKilled(r)
  <2>1. StepMove(r) BY <1>11 DEF ScriptKilled
  <2> QED BY <2>1, <1>1, StepKeeps
<1>9. CASE CollectOutputs(r)
  <2>1. /\ pc' = [pc EXCEPT ![r] = pc'[r]] /\ pc'[r] \in {"cleanup", "check"}
        /\ result' \in [Runs -> {None, "ok", "error"}]
    BY <1>9 DEF CollectOutputs
  <2>2. step' \in {step, [step EXCEPT ![r] = @ + 1]} /\ step[r] <= Len(Def(r).steps)
    BY <1>9 DEF CollectOutputs
  <2>3. /\ step' \in [Runs -> Nat \ {0}] /\ \A q \in Runs \ {r} : step'[q] = step[q]
        /\ step'[r] <= Len(Def(r).steps) + 1
    <3>1. step \in [Runs -> Nat \ {0}] /\ step[r] \in Nat /\ Len(Def(r).steps) \in Nat
      BY <1>2
    <3>2. CASE step' = step
      BY ONLY <2>2, <3>1, <3>2
    <3>3. CASE step' = [step EXCEPT ![r] = @ + 1]
      <4>1. step'[r] = step[r] + 1 /\ \A q \in Runs \ {r} : step'[q] = step[q]
        BY ONLY <3>1, <3>3, r \in Runs
      <4>2. step[r] + 1 \in Nat \ {0} /\ step[r] + 1 <= Len(Def(r).steps) + 1
        BY ONLY <2>2, <3>1
      <4>3. step' \in [Runs -> Nat \ {0}]
        BY ONLY <3>1, <3>3, <4>2
      <4> QED BY ONLY <4>1, <4>2, <4>3
    <3> QED BY ONLY <2>2, <3>2, <3>3
  <2>4. StepMove(r)
    BY <1>9, <2>1, <2>3 DEF CollectOutputs
  <2> QED BY <2>4, <1>1, StepKeeps
<1> QED
  BY <1>3, <1>4, <1>5, <1>6, <1>7, <1>8, <1>9, <1>10, <1>11
-----------------------------------------------------------------------------
(* The beginning and the end of a run *)

\* What is left of a cache that is removed.
LEMMA ClearIs ==
  ASSUME TypeOK, NEW ds, bin' = Clear(bin, ds), meta' = Clear(meta, ds)
  PROVE  /\ bin' \in [Dirs -> [ToolNames -> Binary \union {None}]]
         /\ meta' \in [Dirs -> [ToolNames -> Metadata \union {Torn, None}]]
         /\ \A d \in Dirs \ ds : bin'[d] = bin[d] /\ meta'[d] = meta[d]
         /\ \A d \in Dirs \intersect ds, t \in ToolNames : bin'[d][t] = None /\ meta'[d][t] = None
  BY DEF TypeOK, Typed, Clear, Empty

LEMMA GoneIs ==
  ASSUME TypeOK, NEW ds, Gone(ds)
  PROVE  /\ bin' \in [Dirs -> [ToolNames -> Binary \union {None}]]
         /\ meta' \in [Dirs -> [ToolNames -> Metadata \union {Torn, None}]]
         /\ \A d \in Dirs \ ds : bin'[d] = bin[d] /\ meta'[d] = meta[d]
         /\ \A d \in Dirs \intersect ds, t \in ToolNames : bin'[d][t] = None /\ meta'[d][t] = None
         /\ base' = base \ ds /\ base' \subseteq Dirs /\ made' \subseteq base' /\ outs' \subseteq base'
         /\ \A d \in Dirs \ made', t \in ToolNames : bin'[d][t] = None
         /\ soiled' = soiled \ ds /\ soiled' \subseteq base'
         /\ cut' = cut \ ds /\ cut' \subseteq StateDirs
<1>1. bin' = Clear(bin, ds) /\ meta' = Clear(meta, ds)
  BY DEF Gone
<1>2. \A d \in Dirs \ made, t \in ToolNames : bin[d][t] = None
  BY DEF TypeOK, Typed
<1> QED
  BY <1>1, <1>2, ClearIs DEF TypeOK, Typed, Gone

LEMMA MkBaseKeeps ==
  ASSUME CacheInv, NEW r \in Runs, MkBase(r) PROVE CacheInv'
<1>1. r \in Active
  BY DEF MkBase, Active
<1>2. TypeOK /\ Typed /\ InRange(r) /\ Placed(r) /\ Dir(r) \in Dirs
  BY <1>1, DirIsDir DEF CacheInv, TypeOK
<1>3. /\ pc[r] = "mkbase" /\ pc' = [pc EXCEPT ![r] = pc'[r]] /\ pc'[r] \in {"mkouts", "end"}
      /\ UNCHANGED <<flow, made, toolVars, runVars, wrote, mixed, cut>>
  BY <1>2 DEF MkBase, GoTo, NotInitialized, Typed
<1>4. Own(r)
  BY <1>3 DEF Own, toolVars, runVars, Quiet
<1>5. Active' = Active /\ Dir(r)' = Dir(r) /\ Def(r)' = Def(r) /\ \A q : Dir(q)' = Dir(q)
  BY <1>1, <1>2, <1>3, <1>4, OwnActive, SameFlow DEF Typed
<1>6. pc' \in [Runs -> Stages]
  BY <1>2, <1>3 DEF Typed, Stages
<1>7. /\ result' \in [Runs -> {None, "ok", "error"}]
      /\ \/ base' = base \union {Dir(r)} /\ soiled' = soiled /\ pc'[r] = "mkouts"
         \/ base' = base /\ soiled' = soiled \union (base \intersect {Dir(r)}) /\ pc'[r] = "end"
  BY <1>2 DEF MkBase, GoTo, NotInitialized, Typed
<1>8. Typed'
  BY <1>2, <1>3, <1>5, <1>6, <1>7 DEF Typed, toolVars, runVars
<1>9. InRange(r)' /\ Placed(r)' /\ Caches(r)'
  BY <1>2, <1>3, <1>5
  DEF InRange, Placed, Caches, Alone, toolVars, runVars, InTools, InSteps, Quiet
<1>10. Covered'
  BY <1>1, <1>2, <1>3, <1>5, <1>7 DEF CacheInv, Covered, Typed, Active
<1> QED
  BY <1>1, <1>4, <1>8, <1>9, <1>10, OwnKeeps

LEMMA MkOutsKeeps ==
  ASSUME CacheInv, NEW r \in Runs, MkOuts(r) PROVE CacheInv'
<1>1. r \in Active
  BY DEF MkOuts, Active
<1>2. TypeOK /\ Typed /\ InRange(r) /\ Placed(r) /\ Dir(r) \in Dirs
  BY <1>1, DirIsDir DEF CacheInv, TypeOK
<1>3. /\ pc[r] = "mkouts" /\ pc' = [pc EXCEPT ![r] = pc'[r]]
      /\ pc'[r] \in {"secrets", "mktools", "end"} /\ (pc'[r] = "secrets" => Def(r).tools = <<>>)
      /\ UNCHANGED <<flow, made, toolVars, step, cancelled, mixed, cut>>
  BY <1>2 DEF MkOuts, GoTo, NotInitialized, Typed
<1>4. Own(r)
  BY <1>3 DEF Own, toolVars, Quiet
<1>5. Active' = Active /\ Dir(r)' = Dir(r) /\ Def(r)' = Def(r) /\ \A q : Dir(q)' = Dir(q)
  BY <1>1, <1>2, <1>3, <1>4, OwnActive, SameFlow DEF Typed
<1>6. pc' \in [Runs -> Stages]
  BY <1>2, <1>3 DEF Typed, Stages, InTools
<1>7. /\ result' \in [Runs -> {None, "ok", "error"}]
      /\ \/ /\ base' = base \union {Dir(r)} /\ outs' = outs \union {Dir(r)}
            /\ soiled' = soiled /\ pc'[r] # "end"
         \/ /\ base' = base /\ outs' = outs
            /\ soiled' = soiled \union (base \intersect {Dir(r)}) /\ pc'[r] = "end"
  BY <1>2 DEF MkOuts, GoTo, NotInitialized, Typed
<1>8. Typed'
  BY <1>2, <1>3, <1>5, <1>6, <1>7 DEF Typed, toolVars
<1>9. InRange(r)' /\ Placed(r)'
  BY <1>2, <1>3, <1>5 DEF InRange, Placed, toolVars, InTools, InSteps, Downloading
<1>10. Covered'
  <2>1. \A q \in Active : pc[q] # "end" => q \in Active /\ (pc'[q] = "end" => q = r)
    BY <1>2, <1>3 DEF Typed, Active
  <2>2. CASE base' = base \union {Dir(r)} /\ soiled' = soiled /\ pc'[r] # "end"
    BY <1>1, <1>5, <2>1, <2>2 DEF CacheInv, Covered
  <2>3. CASE base' = base /\ soiled' = soiled \union (base \intersect {Dir(r)})
    BY <1>1, <1>5, <2>1, <2>3 DEF CacheInv, Covered
  <2> QED BY <1>7, <2>2, <2>3
<1>11. Caches(r)'
  <2> SUFFICES ASSUME Alone(r)' PROVE OthersTrue(r)' /\ EarlierGood(r)' /\ Fetched(r)'
    BY DEF Caches
  <2>1. r \notin mixed /\ Dir(r) \notin cut
    BY <1>3, <1>5 DEF Alone
  <2>2. \A t \in ToolNames : Sound(Dir(r), t)
    BY <1>1, <1>2, <1>3, <2>1 DEF CacheInv, CachesTrue, Apart, Sharing, Quiet
  <2>3. OthersTrue(r)'
    BY <1>3, <1>5, <2>2 DEF OthersTrue, Sound, toolVars
  <2>4. tool'[r] = 1
    BY <1>2, <1>3 DEF Placed, toolVars
  <2>5. EarlierGood(r)' /\ Fetched(r)'
    BY <1>3, <2>4 DEF EarlierGood, Fetched
  <2> QED BY <2>3, <2>5
<1> QED
  BY <1>1, <1>4, <1>8, <1>9, <1>10, <1>11, OwnKeeps

LEMMA CancelKeeps ==
  ASSUME CacheInv, NEW r \in Runs, Cancel(r) PROVE CacheInv'
<1>1. /\ r \in Active /\ TypeOK /\ Typed /\ cancelled' = cancelled \union {r}
      /\ UNCHANGED <<pc, flow, result, base, made, toolVars, outs, step, historyVars>>
  BY DEF CacheInv, TypeOK, Cancel, Active
<1>2. Own(r)
  BY <1>1 DEF Own, toolVars, historyVars, Typed, Active
<1>3. Active' = Active /\ \A q : Dir(q)' = Dir(q) /\ Def(q)' = Def(q) /\ Decl(q)' = Decl(q)
  BY <1>1, SameFlow DEF Active, Decl, toolVars
<1>4. Typed' /\ Covered'
  BY <1>1, <1>3 DEF CacheInv, Typed, Covered, toolVars, historyVars
<1>5. Unseen(r)
  BY <1>1, <1>3 DEF Unseen, Alone, toolVars, historyVars
<1> QED
  BY <1>1, <1>2, <1>4, <1>5, UnseenKeeps, OwnKeeps

LEMMA CleanupKeeps ==
  ASSUME CacheInv, NEW r \in Runs, Cleanup(r) PROVE CacheInv'
<1>1. /\ r \in Active /\ TypeOK /\ Typed /\ InRange(r) /\ Placed(r)
      /\ pc[r] = "cleanup" /\ pc' = [pc EXCEPT ![r] = "end"] /\ Gone({Dir(r)})
      /\ UNCHANGED <<flow, result, tool, tries, archive, step, cancelled, mixed>>
  BY DEF CacheInv, TypeOK, Cleanup, Active, GoTo
<1>2. Active' = Active /\ \A q : Dir(q)' = Dir(q) /\ Def(q)' = Def(q)
  BY <1>1, SameFlow DEF Active, Typed
<1>3. pc' \in [Runs -> Stages] /\ pc'[r] = "end" /\ \A q \in Runs \ {r} : pc'[q] = pc[q]
  BY <1>1 DEF Typed, Stages
<1>4. ASSUME NEW q \in Runs \ {r} PROVE Unseen(q)
  <2>1. ASSUME q \in Active, Alone(q)' PROVE Alone(q) /\ Dir(q) \in Dirs \ {Dir(r)}
    <3>1. q \notin mixed /\ Dir(q) \in Dirs \ {Dir(r)}
      BY <1>1, <1>2, <2>1, DirIsDir DEF CacheInv, Apart, Alone
    <3>2. cut' = cut \ {Dir(r)}
      BY <1>1, GoneIs
    <3> QED
      BY <1>2, <1>3, <2>1, <3>1, <3>2 DEF Alone
  <2>2. \A d \in Dirs \ {Dir(r)} : bin'[d] = bin[d] /\ meta'[d] = meta[d]
    BY <1>1, GoneIs
  <2> QED
    BY <1>1, <1>3, <2>1, <2>2 DEF Unseen
<1>5. InRange(r)' /\ Placed(r)' /\ Caches(r)'
  BY <1>1, <1>2, <1>3
  DEF InRange, Placed, Caches, Alone, InTools, InSteps, Quiet, Downloading
<1>6. \A q \in Runs : Placed(q)' /\ (q \in Active => InRange(q)' /\ Caches(q)')
  BY <1>4, <1>5, UnseenKeeps
<1>7. Typed'
  BY <1>1, <1>2, <1>3, GoneIs DEF Typed
<1>8. Covered'
  BY <1>1, <1>2, <1>3, GoneIs DEF CacheInv, Covered, Active
<1>9. Apart'
  BY <1>1, <1>2 DEF CacheInv, Apart
<1>10. CachesTrue'
  <2> SUFFICES ASSUME NEW d \in Dirs \ cut', NEW t \in ToolNames,
                      \A q \in Sharing(d)' : pc'[q] \in Quiet
               PROVE  Sound(d, t)'
    BY DEF CachesTrue
  <2>1. CASE d = Dir(r)
    BY <1>1, <2>1, GoneIs DEF Sound
  <2>2. CASE d # Dir(r)
    <3>1. bin'[d] = bin[d] /\ meta'[d] = meta[d] /\ d \notin cut
      BY <1>1, <2>2, GoneIs
    <3>2. \A q \in Sharing(d) : pc[q] \in Quiet
      BY <1>2, <1>3, <2>2 DEF Sharing, Active
    <3> QED
      BY <3>1, <3>2 DEF CacheInv, CachesTrue, Sound
  <2> QED BY <2>1, <2>2
<1> QED
  BY <1>2, <1>6, <1>7, <1>8, <1>9, <1>10 DEF CacheInv, TypeOK, Active

LEMMA BeginKeeps ==
  ASSUME CacheInv, NEW r \in Runs, NEW f \in Flows, Begin(r, f) PROVE CacheInv'
<1>1. /\ r \in Runs \ Active /\ TypeOK /\ Typed /\ Placed(r) /\ ParseFlow(FlowFile[f])
      /\ pc[r] = "idle" /\ pc' = [pc EXCEPT ![r] = "mkbase"] /\ Gone({r})
      /\ flow' = [flow EXCEPT ![r] = f]
      /\ UNCHANGED <<result, tool, tries, archive, step, cancelled>>
      /\ mixed' = IF Sharing(FlowFile[f].stateDir) = {} THEN mixed
                  ELSE mixed \union Sharing(FlowFile[f].stateDir) \union {r}
  BY DEF CacheInv, TypeOK, Begin, Active, GoTo
<1>2. /\ pc' \in [Runs -> Stages] /\ pc'[r] = "mkbase"
      /\ flow' \in [Runs -> Flows \union {None}] /\ flow'[r] = f
      /\ \A q \in Runs \ {r} : pc'[q] = pc[q] /\ flow'[q] = flow[q]
  BY <1>1 DEF Typed, Stages
<1>3. Active' = Active \union {r}
  BY <1>1, <1>2 DEF Active
<1>4. \A q \in Active : Dir(q)' = Dir(q) /\ Dir(q) \in Dirs \ {r} /\ q \in Runs \ {r}
  <2> SUFFICES ASSUME NEW q \in Active PROVE Dir(q)' = Dir(q) /\ Dir(q) # r
    BY <1>1, DirIsDir
  <2>1. q \in Runs /\ q # r /\ flow[q] \in Flows
    BY <1>1 DEF Active, TypeOK, InRange
  <2> QED
    BY <1>2, <2>1, FlowsAssumption, ToolsOptions DEF Dir, Def, Flows
<1>5. /\ Def(r)' = FlowFile[f]
      /\ Dir(r)' = IF FlowFile[f].stateDir = None THEN r ELSE FlowFile[f].stateDir
  BY <1>2 DEF Dir, Def
<1>6. ASSUME NEW q \in Active, Dir(q) = Dir(r)' PROVE q \in mixed' /\ r \in mixed'
  BY <1>1, <1>4, <1>5, <1>6 DEF Sharing
<1>7. mixed \subseteq mixed' /\ mixed' \subseteq Active'
  BY <1>1, <1>3 DEF Typed, Sharing
<1>8. cut' = cut
  <2>1. cut' = cut \ {r}
    BY <1>1, GoneIs
  <2> QED
    BY <1>1, <2>1, ToolsOptions DEF Typed
<1>9. \A q \in Runs \ {r} : Unseen(q)
  <2> SUFFICES ASSUME NEW q \in Runs \ {r}, q \in Active, Alone(q)'
               PROVE  /\ Alone(q) /\ bin'[Dir(q)] = bin[Dir(q)]
                      /\ meta'[Dir(q)] = meta[Dir(q)]
    BY <1>1, <1>2 DEF Unseen
  <2>1. Alone(q)
    BY <1>2, <1>4, <1>7, <1>8 DEF Alone
  <2> QED
    BY <1>1, <1>4, <2>1, GoneIs
<1>10. InRange(r)' /\ Placed(r)' /\ Caches(r)'
  <2>1. Len(Def(r)'.tools) \in Nat /\ Len(Def(r)'.steps) \in Nat
    BY <1>5, FlowsAssumption DEF Flows
  <2>2. tool[r] = 1 /\ step[r] = 1 /\ archive[r] = None
    BY <1>1 DEF Placed, Downloading
  <2> QED
    BY <1>1, <1>2, <1>5, <2>1, <2>2
    DEF InRange, Placed, Caches, Alone, InTools, InSteps, Quiet, Downloading
<1>11. \A q \in Runs : Placed(q)' /\ (q \in Active' => InRange(q)' /\ Caches(q)')
  BY <1>3, <1>9, <1>10, UnseenKeeps
<1>12. Typed'
  BY <1>1, <1>2, <1>3, <1>7, GoneIs DEF Typed
<1>13. Covered'
  <2>1. base' = base \ {r} /\ soiled' = soiled \ {r}
    BY <1>1, GoneIs
  <2> QED
    BY <1>1, <1>2, <1>3, <1>4, <2>1 DEF CacheInv, Covered
<1>14. Apart'
  BY <1>3, <1>4, <1>6, <1>7 DEF CacheInv, Apart
<1>15. CachesTrue'
  <2> SUFFICES ASSUME NEW d \in Dirs \ cut', NEW t \in ToolNames,
                      \A q \in Sharing(d)' : pc'[q] \in Quiet
               PROVE  Sound(d, t)'
    BY DEF CachesTrue
  <2>1. CASE d = r
    BY <1>1, <2>1, GoneIs DEF Sound
  <2>2. CASE d # r
    <3>1. bin'[d] = bin[d] /\ meta'[d] = meta[d]
      BY <1>1, <2>2, GoneIs
    <3>2. \A q \in Sharing(d) : pc[q] \in Quiet
      BY <1>2, <1>3, <1>4 DEF Sharing
    <3> QED
      BY <1>8, <3>1, <3>2 DEF CacheInv, CachesTrue, Sound
  <2> QED BY <2>1, <2>2
<1>16. Active' \subseteq Runs
  BY DEF Active
<1> QED
  BY <1>11, <1>12, <1>13, <1>14, <1>15, <1>16 DEF CacheInv, TypeOK

\* What is forgotten of runs that are over.
LEMMA ForgetIs ==
  ASSUME TypeOK, NEW rs \in SUBSET Runs, Forget(rs)
  PROVE  /\ pc' \in [Runs -> Stages] /\ flow' \in [Runs -> Flows \union {None}]
         /\ result' \in [Runs -> {None, "ok", "error"}]
         /\ tool' \in [Runs -> Nat \ {0}] /\ tries' \in [Runs -> Nat]
         /\ archive' \in [Runs -> {None, "part", "other", "full"}]
         /\ step' \in [Runs -> Nat \ {0}]
         /\ Active' = Active \ rs
         /\ cancelled' = cancelled \ rs /\ mixed' = mixed \ rs
         /\ \A q \in rs : Placed(q)'
         /\ \A q \in Runs \ rs :
              /\ pc'[q] = pc[q] /\ flow'[q] = flow[q] /\ tool'[q] = tool[q]
              /\ tries'[q] = tries[q] /\ archive'[q] = archive[q] /\ step'[q] = step[q]
              /\ Dir(q)' = Dir(q)
<1>1. /\ pc' \in [Runs -> Stages] /\ flow' \in [Runs -> Flows \union {None}]
      /\ result' \in [Runs -> {None, "ok", "error"}]
      /\ tool' \in [Runs -> Nat \ {0}] /\ tries' \in [Runs -> Nat]
      /\ archive' \in [Runs -> {None, "part", "other", "full"}]
      /\ step' \in [Runs -> Nat \ {0}]
      /\ cancelled' = cancelled \ rs /\ mixed' = mixed \ rs
  BY DEF TypeOK, Typed, Forget, Stages
<1>2. \A q \in Runs \ rs :
        /\ pc'[q] = pc[q] /\ flow'[q] = flow[q] /\ tool'[q] = tool[q]
        /\ tries'[q] = tries[q] /\ archive'[q] = archive[q] /\ step'[q] = step[q]
  BY DEF Forget
<1>3. \A q \in rs : pc'[q] = "idle" /\ tool'[q] = 1 /\ step'[q] = 1 /\ archive'[q] = None
  BY DEF Forget
<1>4. Active' = Active \ rs
  BY <1>2, <1>3 DEF Active
<1>5. \A q \in rs : Placed(q)'
  BY <1>3 DEF Placed, InTools, InSteps
<1> QED
  BY <1>1, <1>2, <1>4, <1>5 DEF Dir, Def

LEMMA EndKeeps ==
  ASSUME CacheInv, NEW r \in Runs, End(r) PROVE CacheInv'
<1>1. /\ TypeOK /\ Typed /\ r \in Active /\ pc[r] = "end" /\ Forget({r})
      /\ UNCHANGED <<base, made, bin, meta, outs, soiled, cut>>
  BY DEF CacheInv, TypeOK, End, Active
<1>2. Active' = Active \ {r} /\ mixed' = mixed \ {r}
  BY <1>1, ForgetIs
<1>3. \A q \in Runs \ {r} : Unseen(q) /\ Dir(q)' = Dir(q) /\ pc'[q] = pc[q]
  <2>1. ASSUME NEW q \in Runs \ {r} PROVE Dir(q)' = Dir(q) /\ pc'[q] = pc[q]
    BY <1>1, ForgetIs
  <2>2. ASSUME NEW q \in Runs \ {r}, Alone(q)' PROVE Alone(q)
    BY <1>1, <1>2, <2>1, <2>2 DEF Alone
  <2>3. ASSUME NEW q \in Runs \ {r}
        PROVE  /\ flow'[q] = flow[q] /\ tool'[q] = tool[q] /\ tries'[q] = tries[q]
               /\ archive'[q] = archive[q] /\ step'[q] = step[q]
    BY <1>1, ForgetIs
  <2> QED
    BY <1>1, <2>1, <2>2, <2>3 DEF Unseen
<1>4. \A q \in Runs : Placed(q)' /\ (q \in Active' => InRange(q)' /\ Caches(q)')
  BY <1>1, <1>2, <1>3, ForgetIs, UnseenKeeps
<1>5. Typed'
  BY <1>1, <1>2, ForgetIs DEF Typed
<1>6. Covered'
  BY <1>1, <1>2, <1>3 DEF CacheInv, Covered, Active
<1>7. Apart'
  BY <1>2, <1>3 DEF CacheInv, Apart, Active
<1>8. CachesTrue'
  <2> SUFFICES ASSUME NEW d \in Dirs \ cut, NEW t \in ToolNames,
                      \A q \in Sharing(d)' : pc'[q] \in Quiet
               PROVE  Sound(d, t)'
    BY <1>1 DEF CachesTrue
  <2>1. \A q \in Sharing(d) : pc[q] \in Quiet
    BY <1>1, <1>2, <1>3 DEF Sharing, Active, Quiet
  <2> QED
    BY <1>1, <2>1 DEF CacheInv, CachesTrue, Sound
<1> QED
  BY <1>2, <1>4, <1>5, <1>6, <1>7, <1>8 DEF CacheInv, TypeOK, Active

LEMMA CrashKeeps ==
  ASSUME CacheInv, Crash PROVE CacheInv'
<1>1. /\ TypeOK /\ Typed /\ Forget(Runs)
      /\ base' = base \ Runs /\ made' = made \ Runs /\ outs' = outs \ Runs
      /\ bin' = Clear(bin, Runs) /\ meta' = Clear(meta, Runs)
      /\ soiled' = (soiled \union {Dir(r) : r \in Active}) \intersect (base \ Runs)
      /\ cut' = cut \union {d \in StateDirs : Broken(d) \/ Sharing(d) \intersect mixed # {}}
  BY DEF CacheInv, TypeOK, Crash
<1>2. Active' = {} /\ cancelled' = {} /\ mixed' = {} /\ \A q \in Runs : Placed(q)'
  <2>1. Active' = Active \ Runs /\ cancelled' = cancelled \ Runs /\ mixed' = mixed \ Runs
    BY <1>1, ForgetIs
  <2> QED
    BY <1>1, <2>1, ForgetIs DEF Active, Typed
<1>3. Typed'
  <2>1. \A d \in Dirs \ made', t \in ToolNames : bin'[d][t] = None
    BY <1>1, ClearIs DEF Typed
  <2>2. cut' \subseteq StateDirs
    BY <1>1 DEF Typed
  <2> QED
    BY <1>1, <1>2, <2>1, <2>2, ForgetIs, ClearIs DEF Typed
<1>4. Covered'
  BY <1>1 DEF CacheInv, Covered
<1>5. CachesTrue'
  <2> SUFFICES ASSUME NEW d \in Dirs \ cut', NEW t \in ToolNames PROVE Sound(d, t)'
    BY DEF CachesTrue
  <2>1. CASE d \in Runs
    BY <1>1, <2>1, ClearIs DEF Sound
  <2>2. CASE d \notin Runs
    <3>1. bin'[d] = bin[d] /\ meta'[d] = meta[d]
      BY <1>1, <2>2, ClearIs
    <3>2. Sound(d, t)
      BY <1>1, <2>2 DEF Broken, Dirs
    <3> QED
      BY <3>1, <3>2 DEF Sound
  <2> QED BY <2>1, <2>2
<1> QED
  BY <1>2, <1>3, <1>4, <1>5 DEF CacheInv, TypeOK, Apart

-----------------------------------------------------------------------------
(* The tools *)

\* What a step that resolves a tool may do to the files: only those of its tool
\* change, and there is no binary without a directory for it.
Writes(r) ==
  /\ bin' \in [Dirs -> [ToolNames -> Binary \union {None}]]
  /\ meta' \in [Dirs -> [ToolNames -> Metadata \union {Torn, None}]]
  /\ \A d \in Dirs \ {Dir(r)} : bin'[d] = bin[d] /\ meta'[d] = meta[d]
  /\ \A t \in ToolNames \ {Decl(r).name} :
       bin'[Dir(r)][t] = bin[Dir(r)][t] /\ meta'[Dir(r)][t] = meta[Dir(r)][t]
  /\ \A d \in Dirs \ made, t \in ToolNames : bin'[d][t] = None
ToolFrame(r) == UNCHANGED <<flow, base, made, runVars, historyVars>> /\ Writes(r)

LEMMA NothingWritten ==
  ASSUME TypeOK, NEW r \in Active, UNCHANGED <<bin, meta>> PROVE Writes(r)
  BY DirIsDir DEF TypeOK, Typed, Writes

LEMMA BinWritten ==
  ASSUME TypeOK, NEW r \in Active, tool[r] <= Len(Def(r).tools),
         NEW b \in Binary \union {None}, SetBin(r, b), UNCHANGED meta,
         b # None => Dir(r) \in made
  PROVE  /\ Writes(r) /\ bin'[Dir(r)][Decl(r).name] = b
<1>1. /\ bin'[Dir(r)][Decl(r).name] = b
      /\ \A d \in Dirs \ {Dir(r)} : bin'[d] = bin[d]
      /\ \A t \in ToolNames \ {Decl(r).name} : bin'[Dir(r)][t] = bin[Dir(r)][t]
      /\ bin' \in [Dirs -> [ToolNames -> Binary \union {None}]]
  BY SetBinIs, DeclIs
<1>2. ASSUME NEW d \in Dirs \ made, NEW t \in ToolNames PROVE bin'[d][t] = None
  <2>1. bin[d][t] = None
    BY DEF TypeOK, Typed
  <2>2. CASE d = Dir(r) /\ t = Decl(r).name
    BY <1>1, <2>2
  <2>3. CASE ~(d = Dir(r) /\ t = Decl(r).name)
    BY <1>1, <2>1, <2>3
  <2> QED BY <2>2, <2>3
<1> QED
  BY <1>1, <1>2 DEF TypeOK, Typed, Writes

LEMMA MetaWritten ==
  ASSUME TypeOK, NEW r \in Active, tool[r] <= Len(Def(r).tools),
         NEW m \in Metadata \union {Torn, None}, SetMeta(r, m), UNCHANGED bin
  PROVE  /\ Writes(r) /\ meta'[Dir(r)][Decl(r).name] = m
<1>1. /\ meta'[Dir(r)][Decl(r).name] = m
      /\ \A d \in Dirs \ {Dir(r)} : meta'[d] = meta[d]
      /\ \A t \in ToolNames \ {Decl(r).name} : meta'[Dir(r)][t] = meta[Dir(r)][t]
      /\ meta' \in [Dirs -> [ToolNames -> Metadata \union {Torn, None}]]
  BY SetMetaIs, DeclIs
<1> QED
  BY <1>1 DEF TypeOK, Typed, Writes

\* What all steps with a tool have in common.
ToolMove(r) ==
  /\ pc[r] \in InTools /\ pc' = [pc EXCEPT ![r] = pc'[r]]
  /\ pc'[r] \in InTools \union {"secrets", "cleanup"}
  /\ UNCHANGED <<flow, runVars, historyVars>>
  /\ result' \in [Runs -> {None, "ok", "error"}]
  /\ base' \in {base, base \union {Dir(r)}}
  /\ made' \subseteq base' /\ made \subseteq made' /\ Writes(r)
  /\ tool' \in [Runs -> Nat \ {0}] /\ tries' \in [Runs -> Nat]
  /\ archive' \in [Runs -> {None, "part", "other", "full"}]
  /\ \A q \in Runs \ {r} :
       tool'[q] = tool[q] /\ tries'[q] = tries[q] /\ archive'[q] = archive[q]

LEMMA ToolMoveKeeps ==
  ASSUME CacheInv, NEW r \in Active, ToolMove(r),
         tool'[r] <= Len(Def(r).tools) + 1,
         pc'[r] \in {"fetch", "copy"} => tries'[r] >= 1,
         Placed(r)', Caches(r)'
  PROVE  CacheInv'
<1>1. TypeOK /\ Typed /\ InRange(r) /\ r \in Runs /\ Dir(r) \in Dirs
  BY DirIsDir DEF CacheInv, TypeOK
<1>2. Own(r)
  BY DEF Own, ToolMove, Writes, runVars, historyVars, InTools, Quiet
<1>3. Active' = Active /\ \A q : Dir(q)' = Dir(q) /\ Def(q)' = Def(q)
  BY <1>1, <1>2, OwnActive, SameFlow DEF Typed, ToolMove
<1>4. pc' \in [Runs -> Stages]
  <2>1. pc \in [Runs -> Stages] /\ pc'[r] \in Stages
    BY <1>1 DEF Typed, ToolMove, InTools, Stages
  <2> QED BY <2>1 DEF ToolMove
<1>5. Typed'
  BY <1>1, <1>3, <1>4 DEF Typed, ToolMove, Writes, runVars, historyVars
<1>6. InRange(r)'
  BY <1>1, <1>3 DEF InRange, ToolMove, runVars, Placed, Downloading, InTools
<1>7. Covered'
  <2>1. \A q \in Active \ {r} : pc'[q] = pc[q]
    BY <1>1, <1>2, OwnActive DEF Typed, Active
  <2>2. pc'[r] # "end" /\ soiled' = soiled /\ base' \subseteq base \union {Dir(r)}
    BY DEF ToolMove, InTools, historyVars
  <2> QED
    BY <1>3, <2>1, <2>2 DEF CacheInv, Covered
<1> QED
  BY <1>2, <1>5, <1>6, <1>7, OwnKeeps

LEMMA FailToolKeeps ==
  ASSUME CacheInv, NEW r \in Active, pc[r] \in InTools, FailTool(r), ToolFrame(r)
  PROVE  CacheInv'
<1>1. TypeOK /\ Typed /\ InRange(r) /\ Placed(r) /\ r \in Runs /\ Dir(r)' = Dir(r) /\ Def(r)' = Def(r)
  BY DirIsDir, SameFlow DEF CacheInv, TypeOK, ToolFrame
<1>2. /\ pc' = [pc EXCEPT ![r] = "cleanup"] /\ result' = [result EXCEPT ![r] = "error"]
      /\ archive' = [archive EXCEPT ![r] = None] /\ UNCHANGED <<tool, tries>>
  BY DEF FailTool, Fail, GoTo
<1>3. ToolMove(r) /\ pc'[r] = "cleanup"
  BY <1>1, <1>2 DEF ToolMove, ToolFrame, Typed
<1>4. Placed(r)' /\ Caches(r)'
  BY <1>1, <1>2, <1>3 DEF Placed, Caches, Alone, InTools, InSteps, Typed
<1> QED
  BY <1>1, <1>2, <1>3, <1>4, ToolMoveKeeps DEF InRange

LEMMA ToolDoneKeeps ==
  ASSUME CacheInv, NEW r \in Active, pc[r] \in {"tools", "needs", "savemeta"},
         tool[r] <= Len(Def(r).tools), ToolDone(r), ToolFrame(r),
         Alone(r) => /\ \A t \in ToolNames : Sound(Dir(r), t)'
                     /\ Decl(r).url # None =>
                          GoodFor(bin'[Dir(r)][Decl(r).name], Decl(r))
  PROVE  CacheInv'
<1>1. TypeOK /\ Typed /\ InRange(r) /\ Placed(r) /\ r \in Runs /\ Dir(r)' = Dir(r) /\ Def(r)' = Def(r)
  BY DirIsDir, SameFlow DEF CacheInv, TypeOK, ToolFrame
<1>2. /\ pc' = [pc EXCEPT ![r] = "tools"] /\ result' = result
      /\ archive' = [archive EXCEPT ![r] = None]
      /\ tool' = [tool EXCEPT ![r] = @ + 1] /\ tries' = [tries EXCEPT ![r] = 0]
  BY DEF ToolDone, GoTo
<1>3. /\ pc'[r] = "tools" /\ tool'[r] = tool[r] + 1 /\ tool[r] \in Nat \ {0}
      /\ archive'[r] = None /\ Len(Def(r).tools) \in Nat
  BY <1>1, <1>2, FlowIs DEF Typed
<1>4. ToolMove(r)
  BY <1>1, <1>2 DEF ToolMove, ToolFrame, Typed, InTools
<1>5. Placed(r)'
  BY <1>3 DEF Placed, InTools, InSteps
<1>6. Caches(r)'
  <2> SUFFICES ASSUME Alone(r)' PROVE OthersTrue(r)' /\ EarlierGood(r)' /\ Fetched(r)'
    BY DEF Caches
  <2>1. Alone(r) /\ Caches(r)
    BY <1>1 DEF Alone, ToolFrame, historyVars, Quiet, CacheInv
  <2>2. OthersTrue(r)'
    BY <1>1, <2>1 DEF OthersTrue, Sound
  <2>3. ASSUME NEW i \in 1..tool[r], Def(r).tools[i].url # None
        PROVE  GoodFor(bin'[Dir(r)][Def(r).tools[i].name], Def(r).tools[i])
    <3>1. CASE i = tool[r]
      BY <2>1, <2>3, <3>1 DEF Decl
    <3>2. CASE i # tool[r]
      <4>1. i \in 1..(tool[r] - 1)
        BY <1>3, <3>2
      <4>2. Def(r).tools[i].name \in ToolNames \ {Decl(r).name}
        BY <1>1, <4>1, DeclIs
      <4>3. bin'[Dir(r)][Def(r).tools[i].name] = bin[Dir(r)][Def(r).tools[i].name]
        BY <4>2 DEF ToolFrame, Writes
      <4> QED
        BY <2>1, <2>3, <4>1, <4>3 DEF Caches, EarlierGood
    <3> QED BY <3>1, <3>2
  <2>4. EarlierGood(r)'
    BY <1>1, <1>3, <2>3 DEF EarlierGood
  <2>5. Fetched(r)'
    BY <1>3 DEF Fetched
  <2> QED BY <2>2, <2>4, <2>5
<1> QED
  BY <1>1, <1>3, <1>4, <1>5, <1>6, ToolMoveKeeps

\* A step to or within a download: the run stays with the tool.
DownloadMove(r) ==
  /\ pc' = [pc EXCEPT ![r] = pc'[r]] /\ pc'[r] \in Downloading
  /\ result' = result /\ tool' = tool
  /\ tries' \in [Runs -> Nat] /\ archive' \in [Runs -> {None, "part", "other", "full"}]
  /\ \A q \in Runs \ {r} : tries'[q] = tries[q] /\ archive'[q] = archive[q]
  /\ pc'[r] \in {"fetch", "copy"} => tries'[r] >= 1
  /\ pc'[r] \in {"extract", "unpack"} => IsArchive(Decl(r))
  /\ pc'[r] \in {"verify", "extract", "unpack"} /\ IsArchive(Decl(r)) =>
       archive'[r] \in {"other", "full"}
  /\ pc'[r] \in {"extract", "unpack"} /\ Decl(r).sha # None => archive'[r] = "full"

\* Where a tool is resolved, and all that is known there.
Resolving == Downloading \union {"needs"}

LEMMA ResolvingIs ==
  ASSUME CacheInv, NEW r \in Runs, pc[r] \in Resolving
  PROVE  /\ r \in Active /\ TypeOK /\ Typed /\ InRange(r) /\ Placed(r) /\ Caches(r)
         /\ pc[r] \in InTools /\ tool[r] <= Len(Def(r).tools) /\ Decl(r).url # None
         /\ Decl(r) \in Declared /\ Decl(r).name \in ToolNames
         /\ Dir(r) \in Dirs /\ Bin(r) \in Binary \union {None}
         /\ Bin(r) # None => Dir(r) \in made
<1>1. /\ r \in Active /\ TypeOK /\ Typed /\ InRange(r) /\ Placed(r) /\ Caches(r)
      /\ pc[r] \in InTools /\ tool[r] <= Len(Def(r).tools) /\ Decl(r).url # None
  BY DEF CacheInv, TypeOK, Resolving, Downloading, InTools, Active, Placed
<1>2. Decl(r) \in Declared /\ Decl(r).name \in ToolNames /\ Dir(r) \in Dirs
  BY <1>1, DeclIs, DirIsDir
<1> QED
  BY <1>1, <1>2 DEF Typed, Bin

LEMMA DownloadKeeps ==
  ASSUME CacheInv, NEW r \in Runs, pc[r] \in Resolving, DownloadMove(r), ToolFrame(r),
         Alone(r) => Fetched(r)'
  PROVE  CacheInv'
<1>1. /\ r \in Active /\ TypeOK /\ Typed /\ InRange(r) /\ Placed(r) /\ Caches(r)
      /\ pc[r] \in InTools /\ tool[r] <= Len(Def(r).tools) /\ Decl(r).url # None
  BY ResolvingIs
<1>2. /\ Dir(r)' = Dir(r) /\ Def(r)' = Def(r) /\ Decl(r)' = Decl(r)
  BY SameFlow DEF ToolFrame, DownloadMove, Decl
<1>3. ToolMove(r)
  BY <1>1 DEF ToolMove, DownloadMove, ToolFrame, Typed, InTools, Downloading
<1>4. Placed(r)'
  BY <1>1, <1>2 DEF Placed, DownloadMove, IsArchive, Downloading, InSteps
<1>5. Caches(r)'
  <2> SUFFICES ASSUME Alone(r)' PROVE OthersTrue(r)' /\ EarlierGood(r)' /\ Fetched(r)'
    BY DEF Caches
  <2>1. Alone(r)
    BY <1>2 DEF Alone, ToolFrame, historyVars, Quiet, Resolving, Downloading
  <2>2. OthersTrue(r)'
    <3> SUFFICES ASSUME NEW t \in ToolNames \ {Decl(r).name} PROVE Sound(Dir(r), t)'
      BY <1>2 DEF OthersTrue, DownloadMove
    <3>1. Sound(Dir(r), t)
      BY <1>1, <2>1 DEF Caches, OthersTrue
    <3> QED
      BY <1>2, <3>1 DEF Sound, ToolFrame, Writes
  <2>3. EarlierGood(r)'
    <3> SUFFICES ASSUME NEW i \in 1..(tool[r] - 1), Def(r).tools[i].url # None
                 PROVE  GoodFor(bin'[Dir(r)][Def(r).tools[i].name], Def(r).tools[i])
      BY <1>2 DEF EarlierGood, DownloadMove
    <3>1. Def(r).tools[i].name \in ToolNames \ {Decl(r).name}
      BY <1>1, DeclIs
    <3>2. bin'[Dir(r)][Def(r).tools[i].name] = bin[Dir(r)][Def(r).tools[i].name]
      BY <3>1 DEF ToolFrame, Writes
    <3> QED
      BY <1>1, <2>1, <3>2 DEF Caches, EarlierGood
  <2> QED BY <2>1, <2>2, <2>3
<1> QED
  BY <1>1, <1>3, <1>4, <1>5, ToolMoveKeeps DEF InRange, DownloadMove

-----------------------------------------------------------------------------
(* One lemma per step *)

LEMMA MkToolsKeeps ==
  ASSUME CacheInv, NEW r \in Runs, MkTools(r), UNCHANGED <<runVars, historyVars>> PROVE CacheInv'
<1>1. /\ r \in Active /\ TypeOK /\ Typed /\ InRange(r) /\ Placed(r) /\ Caches(r)
      /\ pc[r] = "mktools" /\ UNCHANGED <<flow, toolVars>>
  BY DEF CacheInv, TypeOK, MkTools, Active
<1>2. \/ /\ pc' = [pc EXCEPT ![r] = "tools"] /\ result' = result
         /\ base' = base \union {Dir(r)} /\ made' = made \union {Dir(r)}
      \/ /\ pc' = [pc EXCEPT ![r] = "cleanup"] /\ result' = [result EXCEPT ![r] = "error"]
         /\ base' = base /\ made' = made
  BY DEF MkTools, GoTo, Fail
<1>3. Writes(r)
  BY <1>1, NothingWritten DEF toolVars
<1>4. ToolMove(r)
  BY <1>1, <1>2, <1>3 DEF ToolMove, InTools, Typed, toolVars
<1>5. pc'[r] \in {"tools", "cleanup"}
  BY <1>1, <1>2 DEF Typed
<1>6. Dir(r)' = Dir(r) /\ Def(r)' = Def(r)
  BY <1>1, SameFlow
<1>7. Placed(r)'
  BY <1>1, <1>5, <1>6 DEF Placed, InTools, InSteps, toolVars, runVars, Downloading
<1>8. Caches(r)'
  BY <1>1, <1>5, <1>6
  DEF Caches, Alone, OthersTrue, EarlierGood, Fetched, Sound, toolVars, historyVars, Quiet, Downloading
<1> QED
  BY <1>1, <1>4, <1>5, <1>7, <1>8, ToolMoveKeeps DEF InRange, toolVars

LEMMA ToolsDoneKeeps ==
  ASSUME CacheInv, NEW r \in Runs, ToolsDone(r), UNCHANGED <<runVars, historyVars>> PROVE CacheInv'
<1>1. /\ r \in Active /\ TypeOK /\ Typed /\ InRange(r) /\ Placed(r) /\ Caches(r)
      /\ pc[r] = "tools" /\ pc' = [pc EXCEPT ![r] = "secrets"]
      /\ UNCHANGED <<flow, result, base, made, toolVars>> /\ tool[r] > Len(Def(r).tools)
  BY DEF CacheInv, TypeOK, ToolsDone, Active, GoTo
<1>2. Writes(r)
  BY <1>1, NothingWritten DEF toolVars
<1>3. ToolMove(r) /\ pc'[r] = "secrets"
  BY <1>1, <1>2 DEF ToolMove, InTools, Typed, toolVars
<1>4. Dir(r)' = Dir(r) /\ Def(r)' = Def(r)
  BY <1>1, SameFlow
<1>5. Placed(r)'
  BY <1>1, <1>3, <1>4 DEF Placed, InTools, InSteps, toolVars, runVars, Downloading
<1>6. Caches(r)'
  BY <1>1, <1>3, <1>4
  DEF Caches, Alone, OthersTrue, EarlierGood, Fetched, Sound, toolVars, historyVars, Quiet, Downloading
<1> QED
  BY <1>1, <1>3, <1>5, <1>6, ToolMoveKeeps DEF InRange, toolVars

LEMMA NextToolKeeps ==
  ASSUME CacheInv, NEW r \in Runs, NextTool(r), UNCHANGED <<runVars, historyVars>> PROVE CacheInv'
<1>1. /\ r \in Active /\ TypeOK /\ Typed /\ InRange(r) /\ Placed(r) /\ Caches(r)
      /\ pc[r] = "tools" /\ tool[r] <= Len(Def(r).tools)
      /\ UNCHANGED <<flow, base, made, bin, meta>>
  BY DEF CacheInv, TypeOK, NextTool, Active
<1>2. ToolFrame(r)
  BY <1>1, NothingWritten DEF ToolFrame
<1>3. Dir(r)' = Dir(r) /\ Def(r)' = Def(r)
  BY <1>1, SameFlow
<1>4. CASE Decl(r).url # None
  <2>1. /\ pc' = [pc EXCEPT ![r] = "needs"] /\ UNCHANGED <<result, tool, tries, archive>>
    BY <1>4 DEF NextTool, GoTo
  <2>2. ToolMove(r) /\ pc'[r] = "needs"
    BY <1>1, <1>2, <2>1 DEF ToolMove, ToolFrame, Typed, InTools
  <2>3. Decl(r)' = Decl(r)
    BY <1>3, <2>1 DEF Decl
  <2>4. Placed(r)'
    BY <1>1, <1>3, <1>4, <2>1, <2>2, <2>3 DEF Placed, InTools, InSteps, Downloading
  <2>5. Caches(r)'
    BY <1>1, <1>2, <1>3, <2>1, <2>2
    DEF Caches, Alone, OthersTrue, EarlierGood, Fetched, Sound, ToolFrame, historyVars, Quiet, Downloading
  <2> QED
    BY <1>1, <2>1, <2>2, <2>4, <2>5, ToolMoveKeeps DEF InRange
<1>5. CASE Decl(r).url = None /\ ToolDone(r)
  <2>1. Alone(r) => \A t \in ToolNames : Sound(Dir(r), t)'
    BY <1>1, <1>3 DEF Caches, OthersTrue, Sound, Downloading
  <2> QED
    BY <1>1, <1>2, <1>5, <2>1, ToolDoneKeeps
<1>6. CASE FailTool(r)
  BY <1>1, <1>2, <1>6, FailToolKeeps DEF InTools
<1> QED
  BY <1>4, <1>5, <1>6 DEF NextTool

LEMMA NeedsDownloadKeeps ==
  ASSUME CacheInv, NEW r \in Runs, NeedsDownload(r), UNCHANGED <<runVars, historyVars>> PROVE CacheInv'
<1>1. pc[r] = "needs" /\ UNCHANGED <<flow, base, made, bin, meta>>
  BY DEF NeedsDownload
<1>2. /\ r \in Active /\ TypeOK /\ Typed /\ InRange(r) /\ Placed(r) /\ Caches(r)
      /\ tool[r] <= Len(Def(r).tools) /\ Decl(r).url # None
      /\ Decl(r) \in Declared /\ Decl(r).name \in ToolNames
  BY <1>1, ResolvingIs DEF Resolving
<1>3. ToolFrame(r)
  BY <1>1, <1>2, NothingWritten DEF ToolFrame
<1>4. Dir(r)' = Dir(r) /\ Def(r)' = Def(r)
  BY <1>1, SameFlow
<1>5. CASE Bin(r) # None /\ Meta(r) = Asked(Decl(r))
  <2>1. ToolDone(r)
    BY <1>5 DEF NeedsDownload
  <2>2. Alone(r) => \A t \in ToolNames : Sound(Dir(r), t)
    BY <1>1, <1>2 DEF Caches, OthersTrue, Downloading
  <2>3. Alone(r) => GoodFor(Bin(r), Asked(Decl(r)))
    BY <1>2, <1>5, <2>2, AskedIs DEF Sound, Bin, Meta
  <2>4. Alone(r) => GoodFor(bin'[Dir(r)][Decl(r).name], Decl(r))
    BY <1>1, <1>2, <2>3, AskedIs DEF GoodFor, Bin
  <2>5. Alone(r) => \A t \in ToolNames : Sound(Dir(r), t)'
    BY <1>1, <1>4, <2>2 DEF Sound
  <2> QED
    BY <1>1, <1>2, <1>3, <2>1, <2>4, <2>5, ToolDoneKeeps
<1>6. CASE ~(Bin(r) # None /\ Meta(r) = Asked(Decl(r)))
  <2>1. /\ pc' = [pc EXCEPT ![r] = "fetch"] /\ UNCHANGED <<result, tool, archive>>
        /\ tries' = [tries EXCEPT ![r] = Retries(Decl(r))]
    BY <1>6 DEF NeedsDownload, GoTo
  <2>2. Retries(Decl(r)) \in Nat \ {0}
    BY <1>2, DeclIs
  <2>3. DownloadMove(r) /\ pc'[r] = "fetch"
    BY <1>2, <2>1, <2>2 DEF DownloadMove, Typed, Downloading
  <2> QED
    BY <1>1, <1>3, <2>3, DownloadKeeps DEF Resolving, Fetched
<1> QED
  BY <1>5, <1>6

LEMMA AttemptFailsKeeps ==
  ASSUME CacheInv, NEW r \in Runs, pc[r] \in {"fetch", "copy"}, AttemptFails(r), ToolFrame(r)
  PROVE  CacheInv'
<1>1. r \in Active /\ Typed /\ InRange(r) /\ pc[r] \in InTools /\ pc[r] \in Resolving
  BY ResolvingIs DEF Resolving, Downloading
<1>2. CASE tries[r] = 1
  BY <1>1, <1>2, FailToolKeeps DEF AttemptFails
<1>3. CASE tries[r] # 1
  <2>1. /\ pc' = [pc EXCEPT ![r] = "fetch"] /\ UNCHANGED <<result, tool, archive>>
        /\ tries' = [tries EXCEPT ![r] = @ - 1]
    BY <1>3 DEF AttemptFails, GoTo
  <2>2. tries[r] \in Nat /\ tries[r] >= 2
    BY <1>1, <1>3 DEF InRange, Typed
  <2>3. DownloadMove(r) /\ pc'[r] = "fetch"
    BY <1>1, <2>1, <2>2 DEF DownloadMove, Typed, Downloading
  <2> QED
    BY <1>1, <2>3, DownloadKeeps DEF Fetched
<1> QED
  BY <1>2, <1>3

LEMMA FetchKeeps ==
  ASSUME CacheInv, NEW r \in Runs, Fetch(r), UNCHANGED <<runVars, historyVars>> PROVE CacheInv'
<1>1. pc[r] = "fetch" /\ UNCHANGED <<flow, base, made, meta>>
  BY DEF Fetch
<1>2. /\ r \in Active /\ TypeOK /\ Typed /\ InRange(r) /\ tool[r] <= Len(Def(r).tools)
      /\ pc[r] \in Resolving
  BY <1>1, ResolvingIs DEF Resolving, Downloading
<1>3. CASE IsArchive(Decl(r)) /\ archive' = [archive EXCEPT ![r] = "part"]
           /\ GoTo(r, "copy") /\ UNCHANGED <<result, bin, tool, tries>>
  <2>1. ToolFrame(r)
    BY <1>1, <1>2, <1>3, NothingWritten DEF ToolFrame
  <2>2. DownloadMove(r) /\ pc'[r] = "copy"
    BY <1>1, <1>2, <1>3 DEF DownloadMove, GoTo, InRange, Typed, Downloading
  <2> QED
    BY <1>2, <2>1, <2>2, DownloadKeeps DEF Fetched
<1>4. CASE Dir(r) \in made /\ SetBin(r, Created(r, "part"))
           /\ GoTo(r, "copy") /\ UNCHANGED <<result, archive, tool, tries>>
  <2>1. ToolFrame(r)
    BY <1>1, <1>2, <1>4, BinWritten, CreatedIs DEF ToolFrame
  <2>2. DownloadMove(r) /\ pc'[r] = "copy"
    BY <1>1, <1>2, <1>4 DEF DownloadMove, GoTo, InRange, Typed, Downloading
  <2> QED
    BY <1>2, <2>1, <2>2, DownloadKeeps DEF Fetched
<1>5. CASE AttemptFails(r) /\ UNCHANGED bin
  <2>1. ToolFrame(r)
    BY <1>1, <1>2, <1>5, NothingWritten DEF ToolFrame
  <2> QED
    BY <1>1, <1>5, <2>1, AttemptFailsKeeps
<1> QED
  BY <1>3, <1>4, <1>5 DEF Fetch

LEMMA CopyKeeps ==
  ASSUME CacheInv, NEW r \in Runs, Copy(r), UNCHANGED <<runVars, historyVars>> PROVE CacheInv'
<1>1. pc[r] = "copy" /\ UNCHANGED <<flow, base, made, meta>>
  BY DEF Copy
<1>2. /\ r \in Active /\ TypeOK /\ Typed /\ InRange(r) /\ tool[r] <= Len(Def(r).tools)
      /\ pc[r] \in Resolving /\ (Bin(r) # None => Dir(r) \in made)
  BY <1>1, ResolvingIs DEF Resolving, Downloading
<1>3. ASSUME NEW data \in {"full", "other"}, IsArchive(Decl(r)),
             archive' = [archive EXCEPT ![r] = data], UNCHANGED bin,
             GoTo(r, "verify"), UNCHANGED <<result, tool, tries>>
      PROVE  CacheInv'
  <2>1. ToolFrame(r)
    BY <1>1, <1>2, <1>3, NothingWritten DEF ToolFrame
  <2>2. DownloadMove(r) /\ pc'[r] = "verify" /\ Decl(r)' = Decl(r)
    BY <1>1, <1>2, <1>3, SameFlow DEF DownloadMove, GoTo, InRange, Typed, Downloading, Decl
  <2> QED
    BY <1>2, <1>3, <2>1, <2>2, DownloadKeeps DEF Fetched, IsArchive
<1>4. ASSUME NEW data \in {"full", "other"}, ~IsArchive(Decl(r)),
             IF Bin(r) = None THEN UNCHANGED bin ELSE SetBin(r, Created(r, data)),
             GoTo(r, "verify"), UNCHANGED <<result, archive, tool, tries>>
      PROVE  CacheInv'
  <2>1. /\ Writes(r)
        /\ bin'[Dir(r)][Decl(r).name] # None =>
             bin'[Dir(r)][Decl(r).name] = Created(r, data)
    <3>1. CASE Bin(r) = None
      BY <1>1, <1>2, <1>4, <3>1, NothingWritten DEF Bin
    <3>2. CASE Bin(r) # None
      BY <1>1, <1>2, <1>4, <3>2, BinWritten, CreatedIs
    <3> QED BY <3>1, <3>2
  <2>2. ToolFrame(r)
    BY <1>1, <2>1 DEF ToolFrame
  <2>3. DownloadMove(r) /\ pc'[r] = "verify"
    BY <1>1, <1>2, <1>4 DEF DownloadMove, GoTo, InRange, Typed, Downloading
  <2>4. Decl(r)' = Decl(r) /\ Bin(r)' = bin'[Dir(r)][Decl(r).name]
    BY <1>1, <1>4, SameFlow DEF Decl, Bin
  <2>5. Created(r, data).url = Decl(r).url /\ Created(r, data).data = data
    BY <1>2, CreatedIs
  <2>6. Fetched(r)'
    BY <2>1, <2>3, <2>4, <2>5 DEF Fetched
  <2> QED
    BY <1>2, <2>2, <2>3, <2>6, DownloadKeeps
<1>5. CASE AttemptFails(r) /\ UNCHANGED bin
  <2>1. ToolFrame(r)
    BY <1>1, <1>2, <1>5, NothingWritten DEF ToolFrame
  <2> QED
    BY <1>1, <1>5, <2>1, AttemptFailsKeeps
<1> QED
  BY <1>3, <1>4, <1>5 DEF Copy

LEMMA VerifyKeeps ==
  ASSUME CacheInv, NEW r \in Runs, Verify(r), UNCHANGED <<runVars, historyVars>> PROVE CacheInv'
<1>1. pc[r] = "verify" /\ UNCHANGED <<flow, base, made, meta>>
  BY DEF Verify
<1>2. /\ r \in Active /\ TypeOK /\ Typed /\ InRange(r) /\ Placed(r) /\ Caches(r)
      /\ tool[r] <= Len(Def(r).tools) /\ pc[r] \in Resolving /\ pc[r] \in InTools
      /\ Bin(r) \in Binary \union {None}
  BY <1>1, ResolvingIs DEF Resolving, Downloading
<1>3. CASE Decl(r).sha = None \/ Matches(r)
  <2>1. /\ GoTo(r, IF IsArchive(Decl(r)) THEN "extract" ELSE "chmod")
        /\ UNCHANGED <<result, bin, tool, tries, archive>>
    BY <1>3 DEF Verify
  <2>2. ToolFrame(r)
    BY <1>1, <1>2, <2>1, NothingWritten DEF ToolFrame
  <2>3. Decl(r)' = Decl(r) /\ Bin(r)' = Bin(r)
    BY <1>1, <2>1, SameFlow DEF Decl, Bin
  <2>4. CASE IsArchive(Decl(r))
    <3>1. DownloadMove(r) /\ pc'[r] = "extract"
      BY <1>1, <1>2, <1>3, <2>1, <2>4
      DEF DownloadMove, GoTo, InRange, Typed, Downloading, Placed, Matches
    <3> QED
      BY <1>2, <2>2, <3>1, DownloadKeeps DEF Fetched
  <2>5. CASE ~IsArchive(Decl(r))
    <3>1. DownloadMove(r) /\ pc'[r] = "chmod"
      BY <1>1, <1>2, <2>1, <2>5 DEF DownloadMove, GoTo, InRange, Typed, Downloading
    <3>2. ASSUME Alone(r), Bin(r) # None PROVE GoodFor([Bin(r) EXCEPT !.exec = TRUE], Decl(r))
      <4>1. Bin(r).url = Decl(r).url /\ Bin(r).data # "part"
        BY <1>1, <1>2, <2>5, <3>2 DEF Caches, Fetched
      <4>2. Decl(r).sha # None => Bin(r).data = "full"
        BY <1>3, <2>5 DEF Matches
      <4> QED
        BY <1>2, <3>2, <4>1, <4>2, BinaryIs DEF GoodFor
    <3>3. Alone(r) => Fetched(r)'
      BY <2>3, <3>1, <3>2 DEF Fetched
    <3> QED
      BY <1>2, <2>2, <3>1, <3>3, DownloadKeeps
  <2> QED BY <2>4, <2>5
<1>4. CASE ~(Decl(r).sha = None \/ Matches(r))
  <2>1. /\ IF IsArchive(Decl(r)) THEN UNCHANGED bin ELSE SetBin(r, None)
        /\ FailTool(r)
    BY <1>4 DEF Verify
  <2>2. Writes(r)
    <3>1. CASE IsArchive(Decl(r))
      BY <1>1, <1>2, <2>1, <3>1, NothingWritten
    <3>2. CASE ~IsArchive(Decl(r))
      BY <1>1, <1>2, <2>1, <3>2, BinWritten
    <3> QED BY <3>1, <3>2
  <2>3. ToolFrame(r)
    BY <1>1, <2>2 DEF ToolFrame
  <2> QED
    BY <1>2, <2>1, <2>3, FailToolKeeps
<1> QED
  BY <1>3, <1>4

LEMMA ExtractKeeps ==
  ASSUME CacheInv, NEW r \in Runs, Extract(r), UNCHANGED <<runVars, historyVars>> PROVE CacheInv'
<1>1. pc[r] = "extract" /\ UNCHANGED <<flow, base, made, meta>>
  BY DEF Extract
<1>2. /\ r \in Active /\ TypeOK /\ Typed /\ InRange(r) /\ Placed(r)
      /\ tool[r] <= Len(Def(r).tools) /\ pc[r] \in Resolving /\ pc[r] \in InTools
  BY <1>1, ResolvingIs DEF Resolving, Downloading
<1>3. CASE Dir(r) \in made /\ SetBin(r, Created(r, "part"))
           /\ GoTo(r, "unpack") /\ UNCHANGED <<result, tool, tries, archive>>
  <2>1. ToolFrame(r)
    BY <1>1, <1>2, <1>3, BinWritten, CreatedIs DEF ToolFrame
  <2>2. DownloadMove(r) /\ pc'[r] = "unpack"
    BY <1>1, <1>2, <1>3 DEF DownloadMove, GoTo, InRange, Typed, Downloading, Placed
  <2> QED
    BY <1>2, <2>1, <2>2, DownloadKeeps DEF Fetched
<1>4. CASE FailTool(r) /\ UNCHANGED bin
  <2>1. ToolFrame(r)
    BY <1>1, <1>2, <1>4, NothingWritten DEF ToolFrame
  <2> QED
    BY <1>2, <1>4, <2>1, FailToolKeeps
<1> QED
  BY <1>3, <1>4 DEF Extract

LEMMA UnpackKeeps ==
  ASSUME CacheInv, NEW r \in Runs, Unpack(r), UNCHANGED <<runVars, historyVars>> PROVE CacheInv'
<1>1. pc[r] = "unpack" /\ UNCHANGED <<flow, base, made, meta>>
  BY DEF Unpack
<1>2. /\ r \in Active /\ TypeOK /\ Typed /\ InRange(r) /\ Placed(r)
      /\ tool[r] <= Len(Def(r).tools) /\ pc[r] \in Resolving /\ pc[r] \in InTools
      /\ (Bin(r) # None => Dir(r) \in made)
  BY <1>1, ResolvingIs DEF Resolving, Downloading
<1>3. archive[r] \in {"other", "full"} /\ (Decl(r).sha # None => archive[r] = "full")
  BY <1>1, <1>2 DEF Placed
<1>4. CASE /\ IF Bin(r) = None THEN UNCHANGED bin ELSE SetBin(r, Created(r, archive[r]))
           /\ GoTo(r, "chmod") /\ UNCHANGED <<result, tool, tries, archive>>
  <2>1. /\ Created(r, archive[r]) \in Binary
        /\ Created(r, archive[r]).url = Decl(r).url
        /\ Created(r, archive[r]).data = archive[r]
    BY <1>2, <1>3, CreatedIs
  <2>2. /\ Writes(r)
        /\ bin'[Dir(r)][Decl(r).name] # None =>
             bin'[Dir(r)][Decl(r).name] = Created(r, archive[r])
    <3>1. CASE Bin(r) = None
      BY <1>1, <1>2, <1>4, <3>1, NothingWritten DEF Bin
    <3>2. CASE Bin(r) # None
      BY <1>1, <1>2, <1>4, <2>1, <3>2, BinWritten
    <3> QED BY <3>1, <3>2
  <2>3. ToolFrame(r)
    BY <1>1, <2>2 DEF ToolFrame
  <2>4. DownloadMove(r) /\ pc'[r] = "chmod"
    BY <1>1, <1>2, <1>4 DEF DownloadMove, GoTo, InRange, Typed, Downloading
  <2>5. Decl(r)' = Decl(r) /\ Bin(r)' = bin'[Dir(r)][Decl(r).name]
    BY <1>1, <1>4, SameFlow DEF Decl, Bin
  <2>6. Bin(r)' # None => GoodFor([Bin(r)' EXCEPT !.exec = TRUE], Decl(r))
    BY <1>3, <2>1, <2>2, <2>5, BinaryIs DEF GoodFor
  <2>7. Fetched(r)'
    BY <2>4, <2>5, <2>6 DEF Fetched
  <2> QED
    BY <1>2, <2>3, <2>4, <2>7, DownloadKeeps
<1>5. CASE FailTool(r) /\ UNCHANGED bin
  <2>1. ToolFrame(r)
    BY <1>1, <1>2, <1>5, NothingWritten DEF ToolFrame
  <2> QED
    BY <1>2, <1>5, <2>1, FailToolKeeps
<1> QED
  BY <1>4, <1>5 DEF Unpack

LEMMA ChmodKeeps ==
  ASSUME CacheInv, NEW r \in Runs, Chmod(r), UNCHANGED <<runVars, historyVars>> PROVE CacheInv'
<1>1. pc[r] = "chmod" /\ UNCHANGED <<flow, base, made, meta>>
  BY DEF Chmod
<1>2. /\ r \in Active /\ TypeOK /\ Typed /\ InRange(r) /\ Caches(r)
      /\ tool[r] <= Len(Def(r).tools) /\ pc[r] \in Resolving /\ pc[r] \in InTools
      /\ Bin(r) \in Binary \union {None} /\ (Bin(r) # None => Dir(r) \in made)
  BY <1>1, ResolvingIs DEF Resolving, Downloading
<1>3. CASE FailTool(r) /\ UNCHANGED bin
  <2>1. ToolFrame(r)
    BY <1>1, <1>2, <1>3, NothingWritten DEF ToolFrame
  <2> QED
    BY <1>2, <1>3, <2>1, FailToolKeeps
<1>4. CASE /\ Bin(r) # None /\ SetBin(r, [Bin(r) EXCEPT !.exec = TRUE])
           /\ GoTo(r, "meta") /\ UNCHANGED <<result, tool, tries, archive>>
  <2>1. [Bin(r) EXCEPT !.exec = TRUE] \in Binary
    BY <1>2, <1>4, BinaryIs
  <2>2. Writes(r) /\ bin'[Dir(r)][Decl(r).name] = [Bin(r) EXCEPT !.exec = TRUE]
    BY <1>1, <1>2, <1>4, <2>1, BinWritten
  <2>3. ToolFrame(r)
    BY <1>1, <2>2 DEF ToolFrame
  <2>4. DownloadMove(r) /\ pc'[r] = "meta"
    BY <1>1, <1>2, <1>4 DEF DownloadMove, GoTo, InRange, Typed, Downloading
  <2>5. Decl(r)' = Decl(r) /\ Bin(r)' = [Bin(r) EXCEPT !.exec = TRUE]
    BY <1>1, <1>4, <2>2, SameFlow DEF Decl, Bin
  <2>6. Alone(r) => GoodFor([Bin(r) EXCEPT !.exec = TRUE], Decl(r))
    BY <1>1, <1>2, <1>4 DEF Caches, Fetched
  <2>7. Alone(r) => Fetched(r)'
    BY <2>4, <2>5, <2>6 DEF Fetched
  <2> QED
    BY <1>2, <2>3, <2>4, <2>7, DownloadKeeps
<1> QED
  BY <1>3, <1>4 DEF Chmod

LEMMA TruncateMetaKeeps ==
  ASSUME CacheInv, NEW r \in Runs, TruncateMeta(r), UNCHANGED <<runVars, historyVars>>
  PROVE  CacheInv'
<1>1. pc[r] = "meta" /\ UNCHANGED <<flow, base, made, bin>>
  BY DEF TruncateMeta
<1>2. /\ r \in Active /\ TypeOK /\ Typed /\ InRange(r) /\ Caches(r)
      /\ tool[r] <= Len(Def(r).tools) /\ pc[r] \in Resolving /\ pc[r] \in InTools
  BY <1>1, ResolvingIs DEF Resolving, Downloading
<1>3. CASE SetMeta(r, Torn) /\ GoTo(r, "savemeta") /\ UNCHANGED <<result, tool, tries, archive>>
  <2>1. ToolFrame(r)
    BY <1>1, <1>2, <1>3, MetaWritten DEF ToolFrame
  <2>2. DownloadMove(r) /\ pc'[r] = "savemeta"
    BY <1>1, <1>2, <1>3 DEF DownloadMove, GoTo, InRange, Typed, Downloading
  <2>3. Decl(r)' = Decl(r) /\ Bin(r)' = Bin(r)
    BY <1>1, <1>3, SameFlow DEF Decl, Bin
  <2>4. Alone(r) => Fetched(r)'
    BY <1>1, <1>2, <2>2, <2>3 DEF Caches, Fetched
  <2> QED
    BY <1>2, <2>1, <2>2, <2>4, DownloadKeeps
<1>4. CASE FailTool(r) /\ UNCHANGED meta
  <2>1. ToolFrame(r)
    BY <1>1, <1>2, <1>4, NothingWritten DEF ToolFrame
  <2> QED
    BY <1>2, <1>4, <2>1, FailToolKeeps
<1> QED
  BY <1>3, <1>4 DEF TruncateMeta

LEMMA SaveMetaKeeps ==
  ASSUME CacheInv, NEW r \in Runs, SaveMeta(r), UNCHANGED <<runVars, historyVars>> PROVE CacheInv'
<1>1. pc[r] = "savemeta" /\ UNCHANGED <<flow, base, made, bin>>
  BY DEF SaveMeta
<1>2. /\ r \in Active /\ TypeOK /\ Typed /\ InRange(r) /\ Caches(r)
      /\ tool[r] <= Len(Def(r).tools) /\ pc[r] \in Resolving /\ pc[r] \in InTools
      /\ Decl(r) \in Declared /\ Decl(r).name \in ToolNames
  BY <1>1, ResolvingIs DEF Resolving, Downloading
<1>3. CASE /\ IF Meta(r) = None THEN UNCHANGED meta ELSE SetMeta(r, Asked(Decl(r)))
           /\ ToolDone(r)
  <2>1. /\ Writes(r)
        /\ meta'[Dir(r)][Decl(r).name] \in {None, Asked(Decl(r))}
    <3>1. CASE Meta(r) = None
      BY <1>1, <1>2, <1>3, <3>1, NothingWritten DEF Meta
    <3>2. CASE Meta(r) # None
      BY <1>1, <1>2, <1>3, <3>2, MetaWritten, AskedIs
    <3> QED BY <3>1, <3>2
  <2>2. ToolFrame(r)
    BY <1>1, <2>1 DEF ToolFrame
  <2>3. Dir(r)' = Dir(r)
    BY <1>1, SameFlow
  <2>4. ASSUME Alone(r)
        PROVE  /\ GoodFor(bin'[Dir(r)][Decl(r).name], Decl(r))
               /\ \A t \in ToolNames : Sound(Dir(r), t)'
    <3>1. GoodFor(bin'[Dir(r)][Decl(r).name], Decl(r))
      BY <1>1, <1>2, <2>4 DEF Caches, Fetched, Bin
    <3>2. ASSUME NEW t \in ToolNames, t = Decl(r).name PROVE Sound(Dir(r), t)'
      <4>1. /\ Asked(Decl(r)).url = Decl(r).url /\ Asked(Decl(r)).sha = Decl(r).sha
            /\ meta'[Dir(r)][t] \in {None, Asked(Decl(r))}
        BY <1>2, <2>1, <3>2, AskedIs
      <4>2. GoodFor(bin'[Dir(r)][t], Asked(Decl(r)))
        BY <3>1, <3>2, <4>1 DEF GoodFor
      <4> QED
        BY <2>3, <4>1, <4>2 DEF Sound
    <3>3. ASSUME NEW t \in ToolNames \ {Decl(r).name} PROVE Sound(Dir(r), t)'
      BY <1>2, <2>1, <2>3, <2>4 DEF Caches, OthersTrue, Sound, Writes
    <3> QED
      BY <3>1, <3>2, <3>3
  <2> QED
    BY <1>1, <1>2, <1>3, <2>2, <2>4, ToolDoneKeeps
<1>4. CASE FailTool(r) /\ UNCHANGED meta
  <2>1. ToolFrame(r)
    BY <1>1, <1>2, <1>4, NothingWritten DEF ToolFrame
  <2> QED
    BY <1>2, <1>4, <2>1, FailToolKeeps
<1> QED
  BY <1>3, <1>4 DEF SaveMeta

-----------------------------------------------------------------------------
(* The invariant *)

LEMMA InitHolds == Init => CacheInv
<1> SUFFICES ASSUME Init PROVE CacheInv
  OBVIOUS
<1>1. Active = {} /\ \A r \in Runs : pc[r] = "idle"
  BY DEF Init, Active
<1>2. Typed
  BY <1>1 DEF Init, Typed, Stages
<1>3. \A r \in Runs : Placed(r)
  BY <1>1 DEF Init, Placed, InTools, InSteps
<1>4. CachesTrue
  BY DEF Init, CachesTrue, Sound, Dirs
<1>5. Apart /\ Covered
  BY <1>1 DEF Init, Apart, Covered
<1> QED
  BY <1>1, <1>2, <1>3, <1>4, <1>5 DEF CacheInv, TypeOK

LEMMA NextKeeps == CacheInv /\ [Next]_vars => CacheInv'
<1> SUFFICES ASSUME CacheInv, [Next]_vars PROVE CacheInv'
  OBVIOUS
<1>1. ASSUME NEW r \in Runs, FlowStep(r) PROVE CacheInv'
  BY <1>1, MkBaseKeeps, MkOutsKeeps, FlowStepMoves, CleanupKeeps, EndKeeps DEF FlowStep
<1>2. ASSUME NEW r \in Runs, ToolStep(r), UNCHANGED <<runVars, historyVars>> PROVE CacheInv'
  BY <1>2, MkToolsKeeps, NextToolKeeps, ToolsDoneKeeps, NeedsDownloadKeeps, FetchKeeps,
     CopyKeeps, VerifyKeeps, ExtractKeeps, UnpackKeeps, ChmodKeeps, TruncateMetaKeeps,
     SaveMetaKeeps
  DEF ToolStep
<1>3. CASE UNCHANGED vars
  <2> USE <1>3 DEF vars, toolVars, runVars, historyVars
  <2>1. Active' = Active /\ \A q : Dir(q)' = Dir(q) /\ Def(q)' = Def(q)
    BY SameFlow DEF Active
  <2>2. \A q \in Runs : Unseen(q)
    BY <2>1 DEF Unseen, Alone
  <2>3. Typed'
    BY <2>1 DEF CacheInv, TypeOK, Typed
  <2>4. Apart' /\ Covered'
    BY <2>1 DEF CacheInv, Apart, Covered
  <2>5. CachesTrue'
    BY <2>1 DEF CacheInv, CachesTrue, Sharing, Sound
  <2>6. Active \subseteq Runs
    BY DEF Active
  <2> QED
    BY <2>1, <2>2, <2>3, <2>4, <2>5, <2>6, UnseenKeeps DEF CacheInv, TypeOK
<1> QED
  BY <1>1, <1>2, <1>3, FlowStepMoves, BeginKeeps, CancelKeeps, CrashKeeps
  DEF Next, RunStep, ScriptStep

\* The invariant holds throughout.
THEOREM CacheInvariance == Spec => []CacheInv
  BY InitHolds, NextKeeps, PTL DEF Spec

\* The variables have the right types, no index leaves its flow, no binary is
\* where there is no tools directory, and a download always has an attempt
\* left (ToolResolver.downloadTool counts them down).
THEOREM TypeCorrect == Spec => []TypeOK
<1>1. CacheInv => TypeOK
  BY DEF CacheInv
<1> QED
  BY <1>1, CacheInvariance, PTL

\* The cache can be trusted: when the steps of a run begin, every tool that is
\* downloaded is complete, of the URL of its declaration, of its checksum if
\* there is one, and executable, whatever earlier versions of the flow, failed
\* downloads and crashes have left, unless the run shares its directory or the
\* cache was broken when a process died.
THEOREM ToolsAreReady == Spec => []ToolsReady
<1>1. CacheInv => ToolsReady
  <2> SUFFICES ASSUME CacheInv, NEW r \in Active \ mixed, pc[r] \in InSteps, Dir(r) \notin cut,
                      NEW t \in ToSet(Def(r).tools), t.url # None
               PROVE  GoodFor(bin[Dir(r)][t.name], t)
    BY DEF ToolsReady
  <2>1. TypeOK /\ Typed /\ Placed(r) /\ Caches(r) /\ Alone(r) /\ r \in Runs
    BY DEF CacheInv, TypeOK, Active, Alone, InSteps, Quiet
  <2>2. PICK i \in 1..Len(Def(r).tools) : t = Def(r).tools[i]
    BY <2>1, FlowIs DEF ToSet
  <2>3. i \in 1..(tool[r] - 1)
    BY <2>1, FlowIs DEF Placed, Typed
  <2> QED
    BY <2>1, <2>2, <2>3 DEF Caches, EarlierGood
<1> QED
  BY <1>1, CacheInvariance, PTL

\* When nothing runs, no state directory is left but those that a process died
\* in or that could not be made completely.
THEOREM NothingIsLeft == Spec => []LeavesNothing
<1>1. CacheInv => LeavesNothing
  BY DEF CacheInv, Covered, LeavesNothing
<1> QED
  BY <1>1, CacheInvariance, PTL
=============================================================================
