----------------------------- MODULE FlowRegistry ----------------------------
(***************************************************************************)
(* The flow registry (internal/registry/registry.go), one file per flow    *)
(* and no lock, behind the flow endpoints and their access control         *)
(* (internal/server/server.go), and the jobs whose flow is looked up when  *)
(* they are created and read when they run (internal/queue/queue.go,       *)
(* internal/queue/worker.go).                                              *)
(*                                                                         *)
(* A flow is written to a temporary file that is renamed to its place.     *)
(* Every call of the file system is one action.  An open temporary file    *)
(* stays the same file when it is renamed, truncated or removed by         *)
(* somebody else: fd says under which name a writer's file is now.         *)
(***************************************************************************)
EXTENDS Access

CONSTANTS
  Names, Contents,  \* flow names, contents of flows
  None,       \* no file, no name
  Handlers,   \* requests in flight at one time
  Configs,    \* the configurations the daemon may be started with
  Ops,        \* the requests that are made
  OpsAfter,   \* bound: those made once two writers of one flow have overlapped
  Faults      \* the calls that may fail

ASSUME ContentsAssumption ==
  None \notin Contents \union {"empty", "torn"} /\ None \notin Names
ASSUME ConfigsAssumption ==
  Configs \subseteq [auth: BOOLEAN, lines: Seq(Line), required: SUBSET Transports,
                    clients: SUBSET [via: Transports, key: Keys \union {NoKey}]]
ASSUME RegistryOptions ==
  /\ Ops \subseteq {"getFlow", "addFlow", "deleteFlow", "renameFlow", "enqueue"}
  /\ OpsAfter \subseteq Ops
  /\ Faults \subseteq {"write", "remove"}

\* What a file may hold: a flow, nothing yet, or parts of what was written.
Data == Contents \union {"empty", "torn"}

VARIABLES
  config,   \* how the daemon was started
  file,     \* name -> what its file holds, or None
  tmp,      \* name -> what its temporary file holds, or None
  hpc,      \* handler: where it is
  req,      \* handler: its request
  hdata,    \* handler: the content it writes or has read
  fd,       \* handler: where its open temporary file is
  job,      \* the flow of the job that waits for a worker, or None
  before,   \* history: the files when a handler that writes began
  shared,   \* history: the flows whose writers have overlapped in time, and
            \* what they have been renamed to
  gone      \* history: has the flow of the job been removed since Enqueue
            \* looked for it?

fileVars == <<file, tmp, fd>>
historyVars == <<before, shared, gone>>
vars == <<config, fileVars, hpc, req, hdata, job, historyVars>>

Writes == {"addFlow", "deleteFlow", "renameFlow"}
Request == [op: Ops, name: Names, to: Names]
NoRequest == [op |-> None, name |-> None, to |-> None]
OpenFile == [at: {"tmp", "file", "unlinked"}, name: Names]
Nowhere == [at |-> "closed", name |-> None]
Final == {"ok", "error"}

Init ==
  /\ config \in {c \in Configs : Starts(c)}
  /\ file = [n \in Names |-> None] /\ tmp = [n \in Names |-> None]
  /\ hpc = [h \in Handlers |-> "idle"]
  /\ req = [h \in Handlers |-> NoRequest]
  /\ hdata = [h \in Handlers |-> None]
  /\ fd = [h \in Handlers |-> Nowhere]
  /\ job = None
  /\ before = [h \in Handlers |-> file] /\ shared = {} /\ gone = FALSE

-----------------------------------------------------------------------------
(* Requests: access control, then the first call of each operation.        *)

GoTo(h, pc) == hpc' = [hpc EXCEPT ![h] = pc]

Writing(n) ==
  \E h \in Handlers :
    hpc[h] # "idle" /\ req[h].op \in Writes /\ n \in {req[h].name, req[h].to}
Enqueuing == \E h \in Handlers : hpc[h] # "idle" /\ req[h].op = "enqueue"

\* Mutant: a rename does not look whether the new name is taken.
FirstCallCareless ==
  [getFlow |-> "get", addFlow |-> "open", deleteFlow |-> "statold",
   renameFlow |-> "read", enqueue |-> "exists"]
FirstCall ==
  [getFlow |-> "get", addFlow |-> "open", deleteFlow |-> "statold",
   renameFlow |-> "statold", enqueue |-> "exists"]

\* A request comes in and is let through to its handler; bound: one job at
\* a time.  Others are answered by 401 or 403 and change nothing.
Ask(h, r, c) ==
  /\ hpc[h] = "idle"
  /\ r.op # "renameFlow" => r.to = r.name
  /\ r.op = "enqueue" => job = None /\ ~Enqueuing
  /\ IF r.op = "addFlow" THEN c \in Contents ELSE c = None
  /\ \E caller \in config.clients : Served(config, caller.via, caller.key, r.op)
  /\ shared = {} \/ r.op \in OpsAfter
  /\ GoTo(h, FirstCall[r.op])
  /\ req' = [req EXCEPT ![h] = r]
  /\ hdata' = [hdata EXCEPT ![h] = c]
  /\ IF r.op \in Writes
     THEN /\ before' = [before EXCEPT ![h] = file]
          /\ shared' = shared \union {n \in {r.name, r.to} : Writing(n)}
     ELSE UNCHANGED <<before, shared>>
  /\ UNCHANGED <<config, fileVars, job, gone>>

Get(h) ==
  /\ hpc[h] = "get"
  /\ hdata' = [hdata EXCEPT ![h] = file[req[h].name]]
  /\ GoTo(h, IF file[req[h].name] = None THEN "error" ELSE "ok")
  /\ UNCHANGED <<config, fileVars, req, job, historyVars>>

\* Delete and Rename look for the flow first, Rename then for the new name.
StatOld(h) ==
  /\ hpc[h] = "statold"
  /\ GoTo(h, IF file[req[h].name] = None THEN "error"
             ELSE IF req[h].op = "deleteFlow" THEN "remove" ELSE "statnew")
  /\ UNCHANGED <<config, fileVars, req, hdata, job, historyVars>>

StatNew(h) ==
  /\ hpc[h] = "statnew"
  /\ GoTo(h, IF file[req[h].to] # None THEN "error" ELSE "read")
  /\ UNCHANGED <<config, fileVars, req, hdata, job, historyVars>>

\* Mutant: a flow that cannot be read is renamed as an empty one.
ReadUnchecked(h) ==
  /\ hpc[h] = "read"
  /\ hdata' = [hdata EXCEPT ![h] = file[req[h].name]]
  /\ GoTo(h, "open")
  /\ UNCHANGED <<config, fileVars, req, job, historyVars>>
ReadOld(h) ==
  /\ hpc[h] = "read"
  /\ hdata' = [hdata EXCEPT ![h] = file[req[h].name]]
  /\ GoTo(h, IF file[req[h].name] = None THEN "error" ELSE "open")
  /\ UNCHANGED <<config, fileVars, req, job, historyVars>>

-----------------------------------------------------------------------------
(* Writing: the temporary file is created or truncated, written, renamed.  *)

\* Mutant: the file is written in its place.
OpenInPlace(h) ==
  /\ hpc[h] = "open"
  /\ file' = [file EXCEPT ![req[h].to] = "empty"]
  /\ tmp' = [tmp EXCEPT ![req[h].to] = "empty"]
  /\ fd' = [fd EXCEPT ![h] = [at |-> "file", name |-> req[h].to]]
  /\ GoTo(h, "write")
  /\ UNCHANGED <<config, req, hdata, job, historyVars>>
OpenTmp(h) ==
  /\ hpc[h] = "open"
  /\ \/ /\ tmp' = [tmp EXCEPT ![req[h].to] = "empty"]
        /\ fd' = [fd EXCEPT ![h] = [at |-> "tmp", name |-> req[h].to]]
        /\ GoTo(h, "write")
     \/ /\ "write" \in Faults
        /\ GoTo(h, "error") /\ UNCHANGED <<tmp, fd>>
  /\ UNCHANGED <<config, file, req, hdata, job, historyVars>>

\* A write over what another writer has written to the same file leaves the
\* tail of it if that was longer.
Result(old, new) == IF old = "empty" THEN {new} ELSE {new, "torn"}

Put(h, new) ==
  LET n == fd[h].name
  IN  \/ /\ fd[h].at = "tmp"
         /\ \E d \in Result(tmp[n], new) : tmp' = [tmp EXCEPT ![n] = d]
         /\ UNCHANGED file
      \/ /\ fd[h].at = "file"
         /\ \E d \in Result(file[n], new) : file' = [file EXCEPT ![n] = d]
         /\ UNCHANGED tmp
      \/ fd[h].at = "unlinked" /\ UNCHANGED <<file, tmp>>

\* Mutant: a write that fails is not noticed.
WriteUnchecked(h) ==
  /\ hpc[h] = "write"
  /\ \/ Put(h, hdata[h])
     \/ "write" \in Faults /\ Put(h, "torn")
  /\ GoTo(h, "commit")
  /\ fd' = [fd EXCEPT ![h] = Nowhere]
  /\ UNCHANGED <<config, req, hdata, job, historyVars>>
WriteTmp(h) ==
  /\ hpc[h] = "write"
  /\ \/ Put(h, hdata[h]) /\ GoTo(h, "commit")
     \/ "write" \in Faults /\ Put(h, "torn") /\ GoTo(h, "error")
  /\ fd' = [fd EXCEPT ![h] = Nowhere]
  /\ UNCHANGED <<config, req, hdata, job, historyVars>>

\* The writers that have the file at a name open see it move there, or see
\* it lose its last name.
Follow(from, n, to) ==
  [h \in Handlers |->
     IF fd[h] = [at |-> from, name |-> n] THEN [fd[h] EXCEPT !.at = to] ELSE fd[h]]
Replace(n) ==
  [h \in Handlers |->
     IF fd[h] = [at |-> "tmp", name |-> n] THEN [fd[h] EXCEPT !.at = "file"]
     ELSE IF fd[h] = [at |-> "file", name |-> n] THEN [fd[h] EXCEPT !.at = "unlinked"]
     ELSE fd[h]]

Committed == [addFlow |-> "ok", renameFlow |-> "removeold"]

RenameTmp(h) ==
  /\ hpc[h] = "commit"
  /\ LET n == req[h].to
     IN  \/ /\ tmp[n] # None
            /\ file' = [file EXCEPT ![n] = tmp[n]]
            /\ tmp' = [tmp EXCEPT ![n] = None]
            /\ fd' = Replace(n)
            /\ shared' = IF req[h].name \in shared THEN shared \union {n} ELSE shared
            /\ GoTo(h, Committed[req[h].op])
         \/ /\ tmp[n] = None \/ "write" \in Faults
            /\ GoTo(h, "discard") /\ UNCHANGED <<file, tmp, fd, shared>>
  /\ UNCHANGED <<config, req, hdata, job, before, gone>>

DiscardTmp(h) ==
  /\ hpc[h] = "discard"
  /\ \/ /\ tmp' = [tmp EXCEPT ![req[h].to] = None]
        /\ fd' = Follow("tmp", req[h].to, "unlinked")
     \/ "remove" \in Faults /\ UNCHANGED <<tmp, fd>>
  /\ GoTo(h, "error")
  /\ UNCHANGED <<config, file, req, hdata, job, historyVars>>

-----------------------------------------------------------------------------
(* Removing: the end of Delete, and of Rename, which only logs a failure.  *)

NeededByJob(n) ==
  \/ \E g \in Handlers : hpc[g] = "create" /\ req[g].name = n
  \/ job = n

Remove(h, done, failed) ==
  LET n == req[h].name
  IN  \/ /\ file[n] # None
         /\ file' = [file EXCEPT ![n] = None]
         /\ fd' = Follow("file", n, "unlinked")
         /\ gone' = (gone \/ NeededByJob(n))
         /\ GoTo(h, done)
      \/ /\ file[n] = None \/ "remove" \in Faults
         /\ GoTo(h, failed) /\ UNCHANGED <<file, fd, gone>>

RemoveFlow(h) ==
  /\ hpc[h] = "remove"
  /\ Remove(h, "ok", "error")
  /\ UNCHANGED <<config, tmp, req, hdata, job, before, shared>>

\* Mutant: a rename that cannot remove the old file is reported as failed.
RemoveOldStrictly(h) ==
  /\ hpc[h] = "removeold"
  /\ Remove(h, "ok", "error")
  /\ UNCHANGED <<config, tmp, req, hdata, job, before, shared>>
RemoveOld(h) ==
  /\ hpc[h] = "removeold"
  /\ Remove(h, "ok", "ok")
  /\ UNCHANGED <<config, tmp, req, hdata, job, before, shared>>

-----------------------------------------------------------------------------
(* Jobs: Enqueue looks for the flow, the worker reads it later.            *)

\* Mutant: the job is created whether or not there is such a flow.
EnqueueUnchecked(h) ==
  /\ hpc[h] = "exists"
  /\ GoTo(h, "create") /\ gone' = FALSE
  /\ UNCHANGED <<config, fileVars, req, hdata, job, before, shared>>
CheckExists(h) ==
  /\ hpc[h] = "exists"
  /\ GoTo(h, IF file[req[h].name] = None THEN "error" ELSE "create")
  /\ gone' = FALSE
  /\ UNCHANGED <<config, fileVars, req, hdata, job, before, shared>>

CreateJob(h) ==
  /\ hpc[h] = "create"
  /\ job' = req[h].name
  /\ GoTo(h, "ok")
  /\ UNCHANGED <<config, fileVars, req, hdata, historyVars>>

\* What the worker gets when it reads the flow of a job.
LoadResult(n) == IF file[n] = None THEN "missing"
                 ELSE IF file[n] \in Contents THEN "loaded" ELSE "unreadable"

LoadFlow ==
  /\ job # None
  /\ job' = None /\ gone' = FALSE
  /\ UNCHANGED <<config, fileVars, hpc, req, hdata, before, shared>>

-----------------------------------------------------------------------------
Reply(h) ==
  /\ hpc[h] \in Final
  /\ GoTo(h, "idle")
  /\ req' = [req EXCEPT ![h] = NoRequest]
  /\ hdata' = [hdata EXCEPT ![h] = None]
  /\ before' = [before EXCEPT ![h] = [n \in Names |-> None]]
  /\ UNCHANGED <<config, fileVars, job, shared, gone>>

\* The daemon dies and is started again: requests are gone, files stay.
Crash ==
  /\ hpc' = [h \in Handlers |-> "idle"]
  /\ req' = [h \in Handlers |-> NoRequest]
  /\ hdata' = [h \in Handlers |-> None]
  /\ fd' = [h \in Handlers |-> Nowhere]
  /\ before' = [h \in Handlers |-> [n \in Names |-> None]]
  /\ UNCHANGED <<config, file, tmp, job, shared, gone>>

HandlerStep(h) ==
  \/ \E r \in Request, c \in Contents \union {None} : Ask(h, r, c)
  \/ Get(h) \/ StatOld(h) \/ StatNew(h) \/ ReadOld(h)
  \/ OpenTmp(h) \/ WriteTmp(h) \/ RenameTmp(h) \/ DiscardTmp(h)
  \/ RemoveFlow(h) \/ RemoveOld(h)
  \/ CheckExists(h) \/ CreateJob(h) \/ Reply(h)

Next ==
  \/ \E h \in Handlers : HandlerStep(h)
  \/ LoadFlow
  \/ Crash

Spec == Init /\ [][Next]_vars

-----------------------------------------------------------------------------
(* Properties.                                                             *)

Calls == {"idle", "get", "statold", "statnew", "read", "open", "write", "commit",
          "discard", "remove", "removeold", "exists", "create"} \union Final

\* The variables have the right types; who is writing has something to write
\* and an open file to write it to.
TypeOK ==
  /\ config \in Configs
  /\ file \in [Names -> Data \union {None}] /\ tmp \in [Names -> Data \union {None}]
  /\ hpc \in [Handlers -> Calls]
  /\ req \in [Handlers -> Request \union {NoRequest}]
  /\ hdata \in [Handlers -> Data \union {None}]
  /\ fd \in [Handlers -> OpenFile \union {Nowhere}]
  /\ \A h \in Handlers :
       /\ hpc[h] \in {"open", "write"} => hdata[h] # None
       /\ hpc[h] = "write" <=> fd[h] # Nowhere
  /\ job \in Names \union {None}
  /\ before \in [Handlers -> [Names -> Data \union {None}]]
  /\ shared \subseteq Names /\ gone \in BOOLEAN

\* Whoever opens the file of a flow, at any time, finds all of one content
\* that was added: a write that fails, a crash between two calls and a
\* temporary file left over by either never show.  Two writers of one flow at
\* the same time are the exception, as they share the temporary file.
WholeFlows == \A n \in Names \ shared : file[n] \in Contents \union {None}

Alone(h) == {req[h].name, req[h].to} \intersect shared = {}

\* A request that is answered by an error has left all the flows it is about
\* as they were when it came in, if nobody else was writing them.
FailsCleanly ==
  \A h \in Handlers :
    hpc[h] = "error" /\ req[h].op \in Writes /\ Alone(h) =>
      \A n \in {req[h].name, req[h].to} : file[n] = before[h][n]

\* A request that is answered with success has had its effect, whatever has
\* failed under way; a rename may leave the old name behind.
SucceedsTruly ==
  \A h \in Handlers :
    hpc[h] = "ok" /\ req[h].op \in Writes /\ Alone(h) =>
      file[req[h].to] = CASE req[h].op = "addFlow" -> hdata[h]
                          [] req[h].op = "deleteFlow" -> None
                          [] OTHER -> before[h][req[h].name]

\* A content is lost only when its flow is deleted or overwritten by an
\* addition: a rename has it under one of the names at every moment, unless
\* the new name had another writer at the same time.
NothingVanishes ==
  [][\A n \in Names \ shared :
       file[n] # None /\ (\A m \in Names : file'[m] # file[n]) =>
         \E h \in Handlers :
           /\ hpc'[h] # hpc[h] /\ req[h].name = n
           /\ \/ hpc[h] = "remove"
              \/ hpc[h] = "commit" /\ req[h].op = "addFlow"
              \/ hpc[h] = "removeold" /\ req[h].to \in shared]_vars

\* A worker that gets to a job finds its flow, unless the flow has been
\* deleted or renamed since Enqueue looked for it; it finds part of a flow
\* only if two writers of that flow have overlapped.
JobFindsFlow ==
  job # None =>
    /\ LoadResult(job) = "missing" => gone
    /\ LoadResult(job) = "unreadable" => job \in shared

\* The registry and the queue work only for callers that may ask them to:
\* those of a transport without authentication that show no key that counts,
\* and users that have the role the README gives for what they ask.
Holder(caller, role) ==
  \E i \in DOMAIN config.lines :
    config.lines[i].hash = caller.key /\ role \in config.lines[i].roles
Open(caller) ==
  caller.via \notin config.required /\ (~config.auth \/ caller.key = NoKey)
Entitled(caller, op) ==
  \/ Open(caller)
  \/ /\ config.auth
     /\ Holder(caller, CASE op \in Writes -> "flows:write"
                         [] op = "getFlow" -> "flows:read"
                         [] OTHER -> "jobs:write")
OnlyEntitled ==
  \A caller \in [via: Transports, key: Keys \union {NoKey}], op \in Ops :
    Served(config, caller.via, caller.key, op) => Entitled(caller, op)
=============================================================================
