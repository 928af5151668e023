-------------------------------- MODULE Tools --------------------------------
(***************************************************************************)
(* The tools of a flow (internal/engine/tool.go): looked up in PATH, or    *)
(* downloaded to the tools directory of the flow's state directory, where  *)
(* the binary of a tool and a file that says what was asked for make a     *)
(* cache.  The binary is created and truncated in its place; an archive is *)
(* downloaded to a temporary file and the binary extracted from it.        *)
(***************************************************************************)
EXTENDS FlowDefs

CONSTANTS
  FlowFile,   \* flow -> what its file holds
  Declared,   \* the tools that flows declare
  Runs,       \* runs of flows at one time
  StateDirs,  \* state directories that flows name
  ToolNames,
  OnPath,     \* the tools found in PATH
  HasEntry,   \* the archives that hold the binary
  Faults      \* what may fail: "net", "other", "write", "mkdir"

ASSUME ToolsOptions ==
  /\ Faults \subseteq {"net", "other", "write", "mkdir"}
  /\ Runs \intersect StateDirs = {} /\ None \notin Runs \union StateDirs
  /\ OnPath \subseteq ToolNames /\ HasEntry \subseteq ArchiveURLs

ASSUME FlowsAssumption ==
  /\ \A t \in Declared : t.name \in ToolNames \union {None} /\ t.retries \in Nat \union {None}
  /\ \A f \in DOMAIN FlowFile :
       /\ FlowFile[f].stateDir \in StateDirs \union {None}
       /\ FlowFile[f].tools \in Seq(Declared)
       /\ FlowFile[f].steps \in Seq(ToSet(FlowFile[f].steps))

\* A flow that names no state directory gets one of its own.
Dirs == Runs \union StateDirs

VARIABLES
  pc,      \* run: where it is
  flow,    \* run: its flow
  result,  \* run: how it ends, once it is known
  base,    \* the directories that exist
  made,    \* the tools directories that exist
  bin,     \* directory, tool -> the binary, or None
  meta,    \* directory, tool -> what its metadata say, or None
  tool,    \* run: which tool it resolves
  tries,   \* run: the attempts that are left
  archive  \* run: what its temporary file holds, or None

toolVars == <<bin, meta, tool, tries, archive>>

Def(r) == FlowFile[flow[r]]
Dir(r) == IF Def(r).stateDir = None THEN r ELSE Def(r).stateDir
Decl(r) == Def(r).tools[tool[r]]
Torn == [url |-> None, path |-> None, sha |-> None]
Asked(decl) == [url |-> decl.url, path |-> decl.path, sha |-> decl.sha]
IsArchive(decl) == decl.url \in ArchiveURLs

\* What the files of the cache may hold.
Binary == [url: {t.url : t \in Declared}, data: {"part", "other", "full"}, exec: BOOLEAN]
Metadata == {Asked(t) : t \in Declared}
ASSUME NoneAssumption == None \notin Binary /\ None \notin Metadata

GoTo(r, next) == pc' = [pc EXCEPT ![r] = next]
Succeed(r) == GoTo(r, "cleanup") /\ result' = [result EXCEPT ![r] = "ok"]
Fail(r) == GoTo(r, "cleanup") /\ result' = [result EXCEPT ![r] = "error"]

SetBin(r, b) == bin' = [bin EXCEPT ![Dir(r)][Decl(r).name] = b]
SetMeta(r, m) == meta' = [meta EXCEPT ![Dir(r)][Decl(r).name] = m]
Bin(r) == bin[Dir(r)][Decl(r).name]
Meta(r) == meta[Dir(r)][Decl(r).name]

\* The function that resolves one tool returns: its temporary file is removed.
\* Mutant: the clean-up is deferred only when the tools are there.
FailToolEarly(r) ==
  /\ GoTo(r, "end") /\ result' = [result EXCEPT ![r] = "error"]
  /\ archive' = [archive EXCEPT ![r] = None] /\ UNCHANGED <<tool, tries>>
FailTool(r) ==
  Fail(r) /\ archive' = [archive EXCEPT ![r] = None] /\ UNCHANGED <<tool, tries>>
ToolDone(r) ==
  /\ GoTo(r, "tools") /\ UNCHANGED result
  /\ archive' = [archive EXCEPT ![r] = None]
  /\ tool' = [tool EXCEPT ![r] = @ + 1]
  /\ tries' = [tries EXCEPT ![r] = 0]

MkTools(r) ==
  /\ pc[r] = "mktools"
  /\ \/ /\ base' = base \union {Dir(r)} /\ made' = made \union {Dir(r)}
        /\ GoTo(r, "tools") /\ UNCHANGED result
     \/ "mkdir" \in Faults /\ Fail(r) /\ UNCHANGED <<base, made>>
  /\ UNCHANGED <<flow, toolVars>>

NextTool(r) ==
  /\ pc[r] = "tools" /\ tool[r] <= Len(Def(r).tools)
  /\ IF Decl(r).url # None
     THEN GoTo(r, "needs") /\ UNCHANGED <<result, tool, tries, archive>>
     ELSE IF Decl(r).name \in OnPath THEN ToolDone(r) ELSE FailTool(r)
  /\ UNCHANGED <<flow, base, made, bin, meta>>

ToolsDone(r) ==
  /\ pc[r] = "tools" /\ tool[r] > Len(Def(r).tools)
  /\ GoTo(r, "secrets")
  /\ UNCHANGED <<flow, result, base, made, toolVars>>

NeedsDownload(r) ==
  /\ pc[r] = "needs"
  /\ IF Bin(r) # None /\ Meta(r) = Asked(Decl(r))
     THEN ToolDone(r)
     ELSE /\ GoTo(r, "fetch") /\ UNCHANGED <<result, tool, archive>>
          /\ tries' = [tries EXCEPT ![r] = Retries(Decl(r))]
  /\ UNCHANGED <<flow, base, made, bin, meta>>

\* Mutant: one attempt more than the declaration says.
AttemptOnceMore(r) ==
  IF tries[r] = 0 THEN FailTool(r)
  ELSE /\ GoTo(r, "fetch") /\ UNCHANGED <<result, tool, archive>>
       /\ tries' = [tries EXCEPT ![r] = @ - 1]
\* Mutant: a download that fails is tried again for ever.
AttemptAlways(r) ==
  GoTo(r, "fetch") /\ UNCHANGED <<result, tool, archive, tries>>
AttemptFails(r) ==
  IF tries[r] = 1 THEN FailTool(r)
  ELSE /\ GoTo(r, "fetch") /\ UNCHANGED <<result, tool, archive>>
       /\ tries' = [tries EXCEPT ![r] = @ - 1]

\* What os.Create makes of the binary: its mode stays if it was there.
Created(r, data) ==
  [url |-> Decl(r).url, data |-> data, exec |-> Bin(r) # None /\ Bin(r).exec]

\* The answer to the request, then the file it goes to.
Fetch(r) ==
  /\ pc[r] = "fetch"
  /\ \/ /\ IsArchive(Decl(r))
        /\ archive' = [archive EXCEPT ![r] = "part"]
        /\ GoTo(r, "copy") /\ UNCHANGED <<result, bin, tool, tries>>
     \/ /\ ~IsArchive(Decl(r)) /\ Dir(r) \in made
        /\ SetBin(r, Created(r, "part"))
        /\ GoTo(r, "copy") /\ UNCHANGED <<result, archive, tool, tries>>
     \/ /\ "net" \in Faults \/ (~IsArchive(Decl(r)) /\ Dir(r) \notin made)
        /\ AttemptFails(r) /\ UNCHANGED bin
  /\ UNCHANGED <<flow, base, made, meta>>

\* The body arrives: what the URL is expected to give, something else, or a
\* part of it.
Copy(r) ==
  /\ pc[r] = "copy"
  /\ \/ /\ \E data \in {"full"} \union (Faults \intersect {"other"}) :
             IF IsArchive(Decl(r))
             THEN archive' = [archive EXCEPT ![r] = data] /\ UNCHANGED bin
             ELSE /\ IF Bin(r) = None THEN UNCHANGED bin ELSE SetBin(r, Created(r, data))
                  /\ UNCHANGED archive
        /\ GoTo(r, "verify") /\ UNCHANGED <<result, tool, tries>>
     \/ "net" \in Faults /\ AttemptFails(r) /\ UNCHANGED bin
  /\ UNCHANGED <<flow, base, made, meta>>

\* Does the file that was downloaded have the checksum of the declaration?
Matches(r) ==
  IF IsArchive(Decl(r)) THEN archive[r] = "full"
  ELSE Bin(r) # None /\ Bin(r).url = Decl(r).url /\ Bin(r).data = "full"

\* Mutant: the checksum is not looked at.
VerifyNothing(r) ==
  /\ pc[r] = "verify"
  /\ GoTo(r, IF IsArchive(Decl(r)) THEN "extract" ELSE "chmod")
  /\ UNCHANGED <<flow, result, base, made, toolVars>>
Verify(r) ==
  /\ pc[r] = "verify"
  /\ IF Decl(r).sha = None \/ Matches(r)
     THEN /\ GoTo(r, IF IsArchive(Decl(r)) THEN "extract" ELSE "chmod")
          /\ UNCHANGED <<result, bin, tool, tries, archive>>
     ELSE /\ IF IsArchive(Decl(r)) THEN UNCHANGED bin ELSE SetBin(r, None)
          /\ FailTool(r)
  /\ UNCHANGED <<flow, base, made, meta>>

\* Something else than the archive may be an archive that holds the binary.
Extract(r) ==
  /\ pc[r] = "extract"
  /\ \/ /\ Dir(r) \in made
        /\ archive[r] = "other" \/ Decl(r).url \in HasEntry
        /\ SetBin(r, Created(r, "part"))
        /\ GoTo(r, "unpack") /\ UNCHANGED <<result, tool, tries, archive>>
     \/ /\ Dir(r) \notin made \/ archive[r] = "other" \/ Decl(r).url \notin HasEntry
        /\ FailTool(r) /\ UNCHANGED bin
  /\ UNCHANGED <<flow, base, made, meta>>

Unpack(r) ==
  /\ pc[r] = "unpack"
  /\ \/ /\ IF Bin(r) = None THEN UNCHANGED bin ELSE SetBin(r, Created(r, archive[r]))
        /\ GoTo(r, "chmod") /\ UNCHANGED <<result, tool, tries, archive>>
     \/ "write" \in Faults /\ FailTool(r) /\ UNCHANGED bin
  /\ UNCHANGED <<flow, base, made, meta>>

Chmod(r) ==
  /\ pc[r] = "chmod"
  /\ IF Bin(r) = None THEN FailTool(r) /\ UNCHANGED bin
     ELSE /\ SetBin(r, [Bin(r) EXCEPT !.exec = TRUE])
          /\ GoTo(r, "meta") /\ UNCHANGED <<result, tool, tries, archive>>
  /\ UNCHANGED <<flow, base, made, meta>>

\* The metadata are truncated, then written.
TruncateMeta(r) ==
  /\ pc[r] = "meta"
  /\ IF Dir(r) \in made
     THEN /\ SetMeta(r, Torn) /\ GoTo(r, "savemeta")
          /\ UNCHANGED <<result, tool, tries, archive>>
     ELSE FailTool(r) /\ UNCHANGED meta
  /\ UNCHANGED <<flow, base, made, bin>>

SaveMeta(r) ==
  /\ pc[r] = "savemeta"
  /\ \/ /\ IF Meta(r) = None THEN UNCHANGED meta ELSE SetMeta(r, Asked(Decl(r)))
        /\ ToolDone(r)
     \/ "write" \in Faults /\ FailTool(r) /\ UNCHANGED meta
  /\ UNCHANGED <<flow, base, made, bin>>

ToolStep(r) ==
  \/ MkTools(r) \/ NextTool(r) \/ ToolsDone(r) \/ NeedsDownload(r) \/ Fetch(r)
  \/ Copy(r) \/ Verify(r) \/ Extract(r) \/ Unpack(r) \/ Chmod(r)
  \/ TruncateMeta(r) \/ SaveMeta(r)
=============================================================================
