------------------------------ MODULE FlowRunInv ----------------------------
(***************************************************************************)
(* The inductive invariant of FlowRun: where each run is in its flow, what *)
(* it knows of the tool it downloads, what the caches hold that nobody     *)
(* writes to, and where the outputs of the steps come from.  Nothing is    *)
(* said of a run that shares its directory and of a cache that was broken  *)
(* when a process died (mixed and cut), but that every one that shares is  *)
(* among them.                                                             *)
(***************************************************************************)
EXTENDS FlowRun

\* Where the run has not looked at the cache yet, or no longer does.
Quiet == {"idle", "mkbase", "mkouts", "end"}

\* Where its binary is being replaced.
Downloading == {"fetch", "copy", "verify", "extract", "unpack", "chmod", "meta", "savemeta"}

\* The index of the tool and that of the step fit to where the run is, and so
\* does what its temporary file holds.
Placed(r) ==
  /\ pc[r] \in {"idle", "mkbase", "mkouts"} => tool[r] = 1
  /\ pc[r] = "idle" => step[r] = 1
  /\ pc[r] \in InTools \ {"mktools", "tools"} =>
       tool[r] <= Len(Def(r).tools) /\ Decl(r).url # None
  /\ pc[r] \in InSteps \union {"secrets"} => tool[r] > Len(Def(r).tools)
  /\ pc[r] \in InSteps \ {"check"} => step[r] <= Len(Def(r).steps)
  /\ archive[r] # None => pc[r] \in Downloading
  /\ pc[r] \in {"extract", "unpack"} => IsArchive(Decl(r))
  /\ pc[r] \in {"verify", "extract", "unpack"} /\ IsArchive(Decl(r)) =>
       archive[r] \in {"other", "full"}
  /\ pc[r] \in {"extract", "unpack"} /\ Decl(r).sha # None => archive[r] = "full"

\* A run that works with a cache nobody else works with.
Alone(r) == r \notin mixed /\ Dir(r) \notin cut /\ pc[r] \notin Quiet \union {"cleanup"}

\* The metadata of all tools but the one that it replaces are true.
OthersTrue(r) ==
  \A t \in ToolNames : Sound(Dir(r), t) \/ (pc[r] \in Downloading /\ t = Decl(r).name)

\* The tools before the one it is at are what the flow asks for.
EarlierGood(r) ==
  \A i \in 1..(tool[r] - 1) :
    Def(r).tools[i].url # None =>
      GoodFor(bin[Dir(r)][Def(r).tools[i].name], Def(r).tools[i])

\* The one it is at is complete once it is verified, and executable when its
\* metadata are written.
Fetched(r) ==
  /\ pc[r] = "verify" /\ ~IsArchive(Decl(r)) /\ Bin(r) # None =>
       Bin(r).url = Decl(r).url /\ Bin(r).data # "part"
  /\ pc[r] = "chmod" /\ Bin(r) # None => GoodFor([Bin(r) EXCEPT !.exec = TRUE], Decl(r))
  /\ pc[r] \in {"meta", "savemeta"} => GoodFor(Bin(r), Decl(r))

Caches(r) == Alone(r) => OthersTrue(r) /\ EarlierGood(r) /\ Fetched(r)

\* A cache that no run works on tells the truth.
CachesTrue ==
  \A d \in Dirs \ cut :
    (\A r \in Sharing(d) : pc[r] \in Quiet) => \A t \in ToolNames : Sound(d, t)

\* Runs that share their directory are known to.
Apart == \A q, r \in Active : Dir(q) = Dir(r) => q = r \/ {q, r} \subseteq mixed

\* A directory is that of a run that will remove it, or one that was left.
Covered == base \subseteq soiled \union {Dir(r) : r \in {q \in Active : pc[q] # "end"}}

\* What is known of the caches: no run gets out of its flow, and what the cache
\* says of the tools is so, whatever the runs that share nothing do.
CacheInv ==
  /\ TypeOK /\ CachesTrue /\ Apart /\ Covered
  /\ \A r \in Runs : Placed(r)
  /\ \A r \in Active : Caches(r)

-----------------------------------------------------------------------------
(* The outputs of the steps.                                               *)

Shapes ==
  /\ DOMAIN outfile = Dirs /\ \A d \in Dirs : DOMAIN outfile[d] = StepNames
  /\ files \in [Dirs -> [Paths -> Runs \union {"old", None}]]
  /\ DOMAIN outputs = Runs /\ DOMAIN wrote = Runs

\* A file of a run that is going on is in the directory of the run.
Marked ==
  \A d \in Dirs, p \in Paths :
    files[d][p] \in Runs => files[d][p] \in Active /\ Dir(files[d][p]) = d

\* No file is in a directory that does not exist.
Housed == \A d \in Dirs \ base, p \in Paths : files[d][p] = None

\* An old file is only in a directory that a process has died in.
Fresh(r) == Dir(r) \in soiled \/ \A p \in Paths : files[Dir(r)][p] # "old"

\* The output file of the step holds what its script wrote, and nothing before.
Written(r) ==
  /\ pc[r] \in {"start", "launch", "running"} /\ Step(r).name # None => DOMAIN Lines(r) = {}
  /\ pc[r] \in {"wrote", "collect"} /\ Step(r).name # None =>
       \A n \in DOMAIN Lines(r) :
         LET so == <<Step(r).name, n>>
         IN  so \in DOMAIN wrote[r] /\ Lines(r)[n] = wrote[r][so]

\* The steps before the one it is at have left all that they declare.
Known(r) ==
  pc[r] \notin {"cleanup", "end"} =>
    \A i \in 1..(step[r] - 1) : \A n \in NamesOf(Def(r).steps[i].outputs) :
      <<Def(r).steps[i].name, n>> \in DOMAIN outputs[r]

\* And it is their own.
Collected(r) ==
  pc[r] \notin {"cleanup", "end"} => \A i \in 1..(step[r] - 1) : OwnOutputs(r, i)

OutputInv ==
  /\ Shapes /\ Marked /\ Housed
  /\ \A r \in Active : Known(r)
  /\ \A r \in Active \ mixed : Fresh(r) /\ Written(r) /\ Collected(r)

-----------------------------------------------------------------------------
(* The commands.                                                           *)

\* The output files hold what scripts may write, and what is collected is that
\* or the place of a file.
Worded ==
  /\ \A d \in Dirs, s \in StepNames :
       outfile[d][s] # None => \A n \in DOMAIN outfile[d][s] : outfile[d][s][n] \in Values
  /\ \A r \in Runs : \A so \in DOMAIN outputs[r] :
       outputs[r][so] \in Values \union {<<Text(p)>> : p \in Paths}

\* The secrets are there, and the command of the step is resolved from what the
\* run knows now.
Ready(r) ==
  /\ pc[r] \in InSteps => Loads(Def(r).secrets)
  /\ pc[r] \in {"prepare", "start", "launch"} =>
       /\ Loads(Step(r).secrets)
       /\ Resolved(r).error = None /\ cmd[r] = Resolved(r).cmd

CommandInv == Worded /\ DOMAIN cmd = Runs /\ \A r \in Active : Ready(r)

-----------------------------------------------------------------------------
\* Everything together.
IInv == CacheInv /\ OutputInv /\ CommandInv
=============================================================================
