-------------------------- MODULE FlowRegistryProofs ------------------------
(***************************************************************************)
(* Theorems about FlowRegistry for every set of flows, contents, requests  *)
(* in flight and configurations.                                           *)
(*                                                                         *)
(* Typing comes first.  Then the step of one request is described as the   *)
(* others see it (OnlyOwn): it changes no flow but those it is about and   *)
(* those that two have written at a time.  With that, each part of         *)
(* IInv is shown for the request that takes the step and holds for  *)
(* the others because nothing they rely on has changed.                    *)
(***************************************************************************)
EXTENDS FlowRegistryInv, TLAPS, WellFoundedInduction

-----------------------------------------------------------------------------
(* Typing *)

\* The record of an open file.
LEMMA OpenFileIs ==
  /\ Nowhere \notin OpenFile
  /\ \A a \in {"tmp", "file", "unlinked"}, n \in Names :
       [at |-> a, name |-> n] \in OpenFile
  /\ \A f \in OpenFile :
       /\ f.at \in {"tmp", "file", "unlinked"} /\ f.name \in Names
       /\ f = [at |-> f.at, name |-> f.name]
       /\ \A a : [f EXCEPT !.at = a] = [at |-> a, name |-> f.name]
  BY DEF OpenFile, Nowhere

\* What becomes of the open files when the one at a name is renamed or loses
\* its name.
FilesTyped == fd \in [Handlers -> OpenFile \union {Nowhere}]
Moves(n) ==
  /\ FilesTyped'
  /\ \A g \in Handlers :
       /\ fd'[g] = Nowhere <=> fd[g] = Nowhere
       /\ fd'[g].name = fd[g].name
       /\ fd'[g] # fd[g] =>
            fd[g].name = n /\ fd'[g].at # "tmp"

LEMMA ReplaceMoves ==
  ASSUME FilesTyped, NEW n \in Names, fd' = Replace(n) PROVE Moves(n)
  BY OpenFileIs DEF Replace, Moves, FilesTyped

LEMMA FollowMoves ==
  ASSUME FilesTyped, NEW n \in Names, NEW from \in {"tmp", "file"},
         fd' = Follow(from, n, "unlinked")
  PROVE  Moves(n)
  BY OpenFileIs DEF Follow, Moves, FilesTyped

LEMMA InitTyped == Init => TypeOK
<1> SUFFICES ASSUME Init PROVE TypeOK
  OBVIOUS
<1> USE DEF Init
<1>1. /\ config \in Configs /\ job \in Names \union {None}
      /\ shared \subseteq Names /\ gone \in BOOLEAN
  OBVIOUS
<1>2. file \in [Names -> Data \union {None}] /\ tmp \in [Names -> Data \union {None}]
  OBVIOUS
<1>3. before \in [Handlers -> [Names -> Data \union {None}]]
  BY <1>2
<1>4. hpc \in [Handlers -> Calls] /\ hdata \in [Handlers -> Data \union {None}]
  BY DEF Calls
<1>5. /\ req \in [Handlers -> Request \union {NoRequest}]
      /\ fd \in [Handlers -> OpenFile \union {Nowhere}]
  OBVIOUS
<1> QED BY <1>1, <1>2, <1>3, <1>4, <1>5 DEF TypeOK

\* A step of a request keeps the types, and its calls in their operations.
LEMMA HandlerTyping ==
  ASSUME TypeOK, Asking, OpenFiles, NEW h \in Handlers, HandlerStep(h)
  PROVE  TypeOK' /\ Asking'
<1> USE ContentsAssumption, RegistryOptions
    DEF TypeOK, Asking, GoTo, Calls, Final, Data
<1>1. ASSUME NEW r \in Request, NEW c \in Contents \union {None}, Ask(h, r, c)
      PROVE  TypeOK' /\ Asking'
  <2>1. /\ hpc' = [hpc EXCEPT ![h] = FirstCall[r.op]]
        /\ req' = [req EXCEPT ![h] = r]
        /\ hdata' = [hdata EXCEPT ![h] = c]
        /\ hpc[h] = "idle" /\ (r.op # "renameFlow" => r.to = r.name)
        /\ r.op = "addFlow" => c \in Contents
        /\ UNCHANGED <<config, file, tmp, fd, job, gone>>
    BY <1>1 DEF Ask, fileVars
  <2>2. /\ r.op \in Ops /\ r.name \in Names /\ r.to \in Names
        /\ r.op \in {"getFlow", "addFlow", "deleteFlow", "renameFlow", "enqueue"}
    BY DEF Request
  <2>3. \/ r.op = "getFlow" /\ FirstCall[r.op] = "get"
        \/ r.op = "addFlow" /\ FirstCall[r.op] = "open"
        \/ r.op \in {"deleteFlow", "renameFlow"} /\ FirstCall[r.op] = "statold"
        \/ r.op = "enqueue" /\ FirstCall[r.op] = "exists"
    BY <2>2 DEF FirstCall
  <2>4. /\ before' \in [Handlers -> [Names -> Data \union {None}]]
        /\ shared' \subseteq Names
    <3>1. \/ /\ before' = [before EXCEPT ![h] = file]
             /\ shared' = shared \union {n \in {r.name, r.to} : Writing(n)}
          \/ UNCHANGED <<before, shared>>
      BY <1>1 DEF Ask
    <3>2. before' \in [Handlers -> [Names -> Data \union {None}]]
      BY <3>1
    <3>3. shared' \subseteq Names
      BY <2>2, <3>1
    <3> QED BY <3>2, <3>3
  <2>5. Asking'
    BY <2>1, <2>2, <2>3
  <2>6. hpc' \in [Handlers -> Calls]
    BY <2>1, <2>3
  <2>7. ASSUME NEW g \in Handlers
        PROVE  /\ hpc'[g] \in {"open", "write"} => hdata'[g] # None
               /\ hpc'[g] = "write" <=> fd'[g] # Nowhere
    BY <2>1, <2>3
  <2> QED BY <2>1, <2>4, <2>5, <2>6, <2>7
<1>2. ASSUME Get(h) PROVE TypeOK' /\ Asking'
  BY <1>2 DEF Get, fileVars, historyVars, Request
<1>3. ASSUME StatOld(h) PROVE TypeOK' /\ Asking'
  BY <1>3 DEF StatOld, fileVars, historyVars, Request
<1>4. ASSUME StatNew(h) PROVE TypeOK' /\ Asking'
  BY <1>4 DEF StatNew, fileVars, historyVars, Request
<1>5. ASSUME ReadOld(h) PROVE TypeOK' /\ Asking'
  BY <1>5 DEF ReadOld, fileVars, historyVars, Request
<1>0. hpc[h] # "idle" => req[h].name \in Names /\ req[h].to \in Names
  BY DEF Request
<1>6. ASSUME OpenTmp(h) PROVE TypeOK' /\ Asking'
  <2>1. CASE hpc' = [hpc EXCEPT ![h] = "write"]
    <3>1. /\ tmp' = [tmp EXCEPT ![req[h].to] = "empty"]
          /\ fd' = [fd EXCEPT ![h] = [at |-> "tmp", name |-> req[h].to]]
      BY <1>6, <2>1 DEF OpenTmp
    <3>2. [at |-> "tmp", name |-> req[h].to] \in OpenFile \ {Nowhere}
      BY <1>0, <1>6, OpenFileIs DEF OpenTmp
    <3> HIDE DEF Nowhere
    <3> QED BY <1>0, <1>6, <2>1, <3>1, <3>2 DEF OpenTmp, historyVars
  <2>2. CASE hpc' = [hpc EXCEPT ![h] = "error"] /\ UNCHANGED <<tmp, fd>>
    BY <1>0, <1>6, <2>2 DEF OpenTmp, historyVars
  <2> QED BY <1>6, <2>1, <2>2 DEF OpenTmp
<1>7. ASSUME WriteTmp(h) PROVE TypeOK' /\ Asking'
  <2>1. fd[h] \in OpenFile
    BY <1>7 DEF WriteTmp
  <2>2. \A d \in Data : Put(h, d) =>
          /\ file' \in [Names -> Data \union {None}]
          /\ tmp' \in [Names -> Data \union {None}]
    BY <2>1, OpenFileIs DEF Put, Result
  <2>3. /\ file' \in [Names -> Data \union {None}]
        /\ tmp' \in [Names -> Data \union {None}]
    BY <1>7, <2>2 DEF WriteTmp
  <2>4. /\ hpc' = [hpc EXCEPT ![h] = "commit"] \/ hpc' = [hpc EXCEPT ![h] = "error"]
        /\ fd' = [fd EXCEPT ![h] = Nowhere]
        /\ UNCHANGED <<config, req, hdata, job, before, shared, gone>>
    BY <1>7 DEF WriteTmp, historyVars
  <2> QED BY <1>0, <1>7, <2>3, <2>4 DEF WriteTmp
<1>8. ASSUME RenameTmp(h) PROVE TypeOK' /\ Asking'
  <2>1. CASE hpc' = [hpc EXCEPT ![h] = "discard"] /\ UNCHANGED <<file, tmp, fd, shared>>
    BY <1>0, <1>8, <2>1 DEF RenameTmp
  <2>2. CASE /\ tmp[req[h].to] # None
             /\ file' = [file EXCEPT ![req[h].to] = tmp[req[h].to]]
             /\ tmp' = [tmp EXCEPT ![req[h].to] = None]
             /\ fd' = Replace(req[h].to)
             /\ hpc' = [hpc EXCEPT ![h] = Committed[req[h].op]]
    <3>1. Moves(req[h].to)
      BY <1>0, <1>8, <2>2, ReplaceMoves DEF RenameTmp, FilesTyped
    <3>2. /\ file' \in [Names -> Data \union {None}]
          /\ tmp' \in [Names -> Data \union {None}]
          /\ fd' \in [Handlers -> OpenFile \union {Nowhere}]
      BY <1>0, <1>8, <2>2, <3>1 DEF RenameTmp, Moves, FilesTyped
    <3>3. /\ shared' \subseteq Names
          /\ UNCHANGED <<config, req, hdata, job, before, gone>>
      BY <1>0, <1>8 DEF RenameTmp
    <3>4. \/ req[h].op = "addFlow" /\ hpc' = [hpc EXCEPT ![h] = "ok"]
          \/ req[h].op = "renameFlow" /\ hpc' = [hpc EXCEPT ![h] = "removeold"]
      <4>1. req[h].op \in {"addFlow", "renameFlow"}
        BY <1>8 DEF RenameTmp
      <4>2. Committed["addFlow"] = "ok" /\ Committed["renameFlow"] = "removeold"
        BY DEF Committed
      <4> QED BY <2>2, <4>1, <4>2
    <3>5. \A g \in Handlers : fd'[g] # Nowhere <=> fd[g] # Nowhere
      BY <3>1 DEF Moves
    <3> QED BY <1>0, <1>8, <3>2, <3>3, <3>4, <3>5 DEF RenameTmp
  <2> QED BY <1>8, <2>1, <2>2 DEF RenameTmp
<1>9. ASSUME DiscardTmp(h) PROVE TypeOK' /\ Asking'
  BY <1>0, <1>9, FollowMoves DEF DiscardTmp, Moves, FilesTyped, historyVars
<1>10. ASSUME NEW done \in Final, NEW failed \in Final, Remove(h, done, failed),
              hpc[h] \in {"remove", "removeold"},
              UNCHANGED <<config, tmp, req, hdata, job, before, shared>>
       PROVE  TypeOK' /\ Asking'
  <2>1. CASE hpc' = [hpc EXCEPT ![h] = failed] /\ UNCHANGED <<file, fd, gone>>
    BY <1>10, <2>1
  <2>2. CASE /\ file' = [file EXCEPT ![req[h].name] = None]
             /\ fd' = Follow("file", req[h].name, "unlinked")
             /\ gone' = (gone \/ NeededByJob(req[h].name))
             /\ hpc' = [hpc EXCEPT ![h] = done]
    <3>1. Moves(req[h].name)
      BY <1>0, <1>10, <2>2, FollowMoves DEF FilesTyped
    <3>2. /\ fd' \in [Handlers -> OpenFile \union {Nowhere}]
          /\ \A g \in Handlers : fd'[g] # Nowhere <=> fd[g] # Nowhere
      BY <3>1 DEF Moves, FilesTyped
    <3> QED BY <1>0, <1>10, <2>2, <3>2 DEF NeededByJob
  <2> QED BY <1>10, <2>1, <2>2 DEF Remove
<1>11. ASSUME RemoveFlow(h) \/ RemoveOld(h) PROVE TypeOK' /\ Asking'
  BY <1>10, <1>11 DEF RemoveFlow, RemoveOld
<1>12. ASSUME CheckExists(h) PROVE TypeOK' /\ Asking'
  BY <1>12, ZenonT(40) DEF CheckExists, fileVars, Request
<1>13. ASSUME CreateJob(h) PROVE TypeOK' /\ Asking'
  BY <1>13 DEF CreateJob, fileVars, historyVars, Request
<1>14. ASSUME Reply(h) PROVE TypeOK' /\ Asking'
  BY <1>14 DEF Reply, fileVars, NoRequest
<1> QED
  BY <1>1, <1>2, <1>3, <1>4, <1>5, <1>6, <1>7, <1>8, <1>9, <1>11,
     <1>12, <1>13, <1>14 DEF HandlerStep

\* So do a worker that reads the flow of a job and a crash.
LEMMA OtherTyping ==
  ASSUME TypeOK, Asking, LoadFlow \/ Crash
  PROVE  TypeOK' /\ Asking'
<1> USE DEF TypeOK, Asking, Calls, Final, Nowhere
<1>1. ASSUME LoadFlow PROVE TypeOK' /\ Asking'
  BY <1>1 DEF LoadFlow, fileVars
<1>2. ASSUME Crash PROVE TypeOK' /\ Asking'
  BY <1>2 DEF Crash, NoRequest
<1> QED BY <1>1, <1>2

-----------------------------------------------------------------------------
(* What the others see of the step of a request *)

\* A step of h as the other requests and the other flows see it.
OnlyOwn(h) ==
  /\ UNCHANGED config /\ shared \subseteq shared'
  /\ \A g \in Handlers \ {h} :
       /\ UNCHANGED <<hpc[g], req[g], hdata[g], before[g]>>
       /\ fd'[g].name = fd[g].name /\ (fd'[g] = Nowhere <=> fd[g] = Nowhere)
       /\ fd'[g] # fd[g] => fd[g].name \in shared
  /\ \A n \in Names : n \notin shared /\ n \notin Held(h) =>
       file'[n] = file[n] /\ tmp'[n] = tmp[n]

LEMMA OnlyOwnStep ==
  ASSUME TypeOK, Asking, OneWriter, OpenFiles, NEW h \in Handlers, HandlerStep(h)
  PROVE  OnlyOwn(h)
<1> USE DEF GoTo
<1>0. /\ FilesTyped
      /\ hpc \in [Handlers -> Calls] /\ req \in [Handlers -> Request \union {NoRequest}]
      /\ hdata \in [Handlers -> Data \union {None}]
      /\ before \in [Handlers -> [Names -> Data \union {None}]]
      /\ file \in [Names -> Data \union {None}] /\ tmp \in [Names -> Data \union {None}]
  BY DEF TypeOK, FilesTyped
<1>1. /\ hpc[h] # "idle" => req[h].name \in Names /\ req[h].to \in Names
      /\ hpc[h] \in {"open", "write", "commit", "discard"} => req[h].to \in Held(h)
      /\ hpc[h] \in {"remove", "removeold"} => req[h].name \in Held(h)
      /\ hpc[h] = "write" => fd[h].name = req[h].to
  BY DEF Asking, Request, Held, Writes, TypeOK, OpenFiles
\* Another writer of the same flow: the flow is shared.
<1>2. ASSUME NEW n \in Held(h), Moves(n),
             NEW g \in Handlers \ {h}
      PROVE  /\ fd'[g].name = fd[g].name /\ (fd'[g] = Nowhere <=> fd[g] = Nowhere)
             /\ fd'[g] # fd[g] => fd[g].name \in shared
  <2>1. fd'[g].name = fd[g].name /\ (fd'[g] = Nowhere <=> fd[g] = Nowhere)
    BY <1>2 DEF Moves
  <2>2. ASSUME fd'[g] # fd[g] PROVE fd[g].name \in shared
    <3>1. fd[g].name = n /\ fd[g] # Nowhere
      BY <1>2, <2>2 DEF Moves
    <3>2. n \in Held(g)
      BY <3>1 DEF OpenFiles, TypeOK, Asking, Held, Writes
    <3> QED BY <1>2, <3>1, <3>2 DEF OneWriter
  <2> QED BY <2>1, <2>2
<1>3. ASSUME NEW r \in Request, NEW c \in Contents \union {None}, Ask(h, r, c)
      PROVE  OnlyOwn(h)
  BY <1>0, <1>3 DEF Ask, OnlyOwn, fileVars
<1>4. ASSUME Get(h) \/ StatOld(h) \/ StatNew(h) \/ ReadOld(h) PROVE OnlyOwn(h)
  BY <1>0, <1>4 DEF Get, StatOld, StatNew, ReadOld, OnlyOwn, fileVars, historyVars
<1>5. ASSUME OpenTmp(h) PROVE OnlyOwn(h)
  BY <1>0, <1>1, <1>5 DEF OpenTmp, OnlyOwn, FilesTyped, historyVars
<1>6. ASSUME WriteTmp(h) PROVE OnlyOwn(h)
  <2>1. \A d : Put(h, d) => \A n \in Names \ Held(h) :
          file'[n] = file[n] /\ tmp'[n] = tmp[n]
    BY <1>0, <1>1, <1>6 DEF Put, WriteTmp
  <2>2. \A n \in Names \ Held(h) : file'[n] = file[n] /\ tmp'[n] = tmp[n]
    BY <1>6, <2>1 DEF WriteTmp
  <2>3. fd' = [fd EXCEPT ![h] = Nowhere] /\ UNCHANGED <<config, req, hdata, before, shared>>
    BY <1>6 DEF WriteTmp, historyVars
  <2>4. \A g \in Handlers \ {h} : hpc'[g] = hpc[g]
    BY <1>0, <1>6 DEF WriteTmp
  <2> QED BY <1>0, <2>2, <2>3, <2>4 DEF OnlyOwn, FilesTyped
<1>7. ASSUME RenameTmp(h) PROVE OnlyOwn(h)
  <2>1. \/ UNCHANGED <<file, tmp, fd, shared>>
        \/ /\ Moves(req[h].to)
           /\ file' = [file EXCEPT ![req[h].to] = tmp[req[h].to]]
           /\ tmp' = [tmp EXCEPT ![req[h].to] = None]
           /\ shared \subseteq shared'
    BY <1>0, <1>1, <1>7, ReplaceMoves DEF RenameTmp
  <2>2. /\ UNCHANGED <<config, req, hdata, before>>
        /\ \A g \in Handlers \ {h} : hpc'[g] = hpc[g]
    BY <1>0, <1>7 DEF RenameTmp
  <2> QED BY <1>0, <1>1, <1>2, <1>7, <2>1, <2>2 DEF RenameTmp, OnlyOwn
<1>8. ASSUME DiscardTmp(h) PROVE OnlyOwn(h)
  <2>1. \/ UNCHANGED <<tmp, fd>>
        \/ Moves(req[h].to) /\ tmp' = [tmp EXCEPT ![req[h].to] = None]
    BY <1>0, <1>1, <1>8, FollowMoves DEF DiscardTmp
  <2>2. /\ UNCHANGED <<config, file, req, hdata, before, shared>>
        /\ \A g \in Handlers \ {h} : hpc'[g] = hpc[g]
    BY <1>0, <1>8 DEF DiscardTmp, historyVars
  <2> QED BY <1>0, <1>1, <1>2, <1>8, <2>1, <2>2 DEF DiscardTmp, OnlyOwn
<1>9. ASSUME RemoveFlow(h) \/ RemoveOld(h) PROVE OnlyOwn(h)
  <2>1. \/ UNCHANGED <<file, fd>>
        \/ Moves(req[h].name) /\ file' = [file EXCEPT ![req[h].name] = None]
    BY <1>0, <1>1, <1>9, FollowMoves DEF RemoveFlow, RemoveOld, Remove
  <2>2. /\ UNCHANGED <<config, tmp, req, hdata, before, shared>>
        /\ \A g \in Handlers \ {h} : hpc'[g] = hpc[g]
        /\ hpc[h] \in {"remove", "removeold"}
    BY <1>0, <1>9 DEF RemoveFlow, RemoveOld, Remove
  <2> QED BY <1>0, <1>1, <1>2, <2>1, <2>2 DEF OnlyOwn
<1>10. ASSUME CheckExists(h) \/ CreateJob(h) \/ Reply(h) PROVE OnlyOwn(h)
  BY <1>0, <1>10 DEF CheckExists, CreateJob, Reply, OnlyOwn, fileVars, historyVars
<1> QED
  BY <1>3, <1>4, <1>5, <1>6, <1>7, <1>8, <1>9, <1>10 DEF HandlerStep

\* A request comes in, is answered, or stays the same through the step.
Goes(h) ==
  /\ UNCHANGED <<req, before>>
  /\ hpc[h] # "idle" /\ hpc'[h] # "idle" /\ hpc'[h] # hpc[h]

LEMMA RequestStays ==
  ASSUME TypeOK, Asking, NEW h \in Handlers, HandlerStep(h)
  PROVE  \/ \E r \in Request, c \in Contents \union {None} : Ask(h, r, c)
         \/ Reply(h)
         \/ Goes(h)
<1> USE DEF GoTo, Goes, TypeOK
<1>1. ASSUME Get(h) \/ StatOld(h) \/ StatNew(h) \/ ReadOld(h) PROVE Goes(h)
  BY <1>1 DEF Get, StatOld, StatNew, ReadOld, historyVars
<1>2. ASSUME OpenTmp(h) \/ WriteTmp(h) \/ DiscardTmp(h) PROVE Goes(h)
  BY <1>2 DEF OpenTmp, WriteTmp, DiscardTmp, historyVars
<1>3. ASSUME RenameTmp(h) PROVE Goes(h)
  BY <1>3 DEF RenameTmp, Committed, Asking
<1>4. ASSUME RemoveFlow(h) \/ RemoveOld(h) PROVE Goes(h)
  BY <1>4 DEF RemoveFlow, RemoveOld, Remove
<1>5. ASSUME CheckExists(h) \/ CreateJob(h) PROVE Goes(h)
  BY <1>5 DEF CheckExists, CreateJob, historyVars
<1> QED BY <1>1, <1>2, <1>3, <1>4, <1>5 DEF HandlerStep

-----------------------------------------------------------------------------
(* The parts of the invariant *)

LEMMA OneWriterStep ==
  ASSUME TypeOK, Asking, OneWriter, NEW h \in Handlers, HandlerStep(h), OnlyOwn(h)
  PROVE  OneWriter'
<1>1. \A g \in Handlers \ {h} : Held(g)' = Held(g)
  BY DEF OnlyOwn, Held
<1>2. ASSUME NEW g \in Handlers \ {h} PROVE Held(h)' \intersect Held(g) \subseteq shared'
  <2>1. ASSUME NEW r \in Request, NEW c \in Contents \union {None}, Ask(h, r, c),
               NEW n \in Held(h)', n \in Held(g)
        PROVE  n \in shared'
    <3>1. Writing(n)
      BY <2>1 DEF Writing, Held
    <3>2. req'[h] = r /\ r.op \in Writes /\ n \in {r.name, r.to}
      BY <2>1 DEF Ask, Held, TypeOK
    <3> QED BY <2>1, <3>1, <3>2 DEF Ask
  <2>2. CASE Reply(h)
    BY <2>2 DEF Reply, GoTo, Held, TypeOK
  <2>3. CASE Goes(h)
    BY <2>3 DEF Goes, Held, OneWriter, OnlyOwn
  <2> QED BY <2>1, <2>2, <2>3, RequestStays
<1> QED BY <1>1, <1>2 DEF OneWriter, OnlyOwn

LEMMA OpenFilesStep ==
  ASSUME TypeOK, Asking, OneWriter, OpenFiles, NEW h \in Handlers, HandlerStep(h),
         OnlyOwn(h), TypeOK'
  PROVE  OpenFiles'
<1>1. ASSUME NEW g \in Handlers \ {h}, fd'[g] # Nowhere
      PROVE  fd'[g].name = req'[g].to /\ (fd'[g].at = "tmp" \/ fd'[g].name \in shared')
  BY <1>1 DEF OnlyOwn, OpenFiles
<1>2. ASSUME fd'[h] # Nowhere
      PROVE  fd'[h].name = req'[h].to /\ (fd'[h].at = "tmp" \/ fd'[h].name \in shared')
  <2>1. hpc'[h] = "write"
    BY <1>2 DEF TypeOK
  <2>2. OpenTmp(h)
    BY <2>1, RegistryOptions
    DEF HandlerStep, TypeOK, GoTo, Ask, Get, StatOld, StatNew, ReadOld, WriteTmp,
        RenameTmp, Committed, DiscardTmp, RemoveFlow, RemoveOld, Remove, CheckExists,
        CreateJob, Reply, FirstCall, Request, Asking
  <2> QED BY <2>1, <2>2 DEF OpenTmp, TypeOK, GoTo, historyVars
<1> QED BY <1>1, <1>2 DEF OpenFiles

LEMMA DraftsStep ==
  ASSUME TypeOK, Asking, OneWriter, OpenFiles, Drafts, WholeFlows,
         NEW h \in Handlers, HandlerStep(h), OnlyOwn(h), TypeOK', Asking'
  PROVE  Drafts'
<1> DEFINE D(g) ==
      /\ hpc[g] \in {"open", "write", "commit"}
           /\ (req[g].op = "addFlow" \/ req[g].name \notin shared) =>
         hdata[g] \in Contents
      /\ req[g].to \notin shared =>
           /\ hpc[g] = "write" => tmp[req[g].to] = "empty"
           /\ hpc[g] = "commit" => tmp[req[g].to] = hdata[g]
<1>1. ASSUME NEW g \in Handlers \ {h} PROVE D(g)'
  <2>1. ASSUME hpc[g] \in {"write", "commit"}, req[g].to \notin shared
        PROVE  tmp'[req[g].to] = tmp[req[g].to]
    <3>1. req[g].to \in Held(g) /\ req[g].to \in Names
      BY <2>1 DEF Held, Asking, Writes, Request
    <3> QED BY <2>1, <3>1 DEF OneWriter, OnlyOwn
  <2> QED BY <2>1 DEF OnlyOwn, Drafts
<1>2. D(h)'
  <2> USE DEF GoTo, TypeOK
  <2>1. ASSUME NEW r \in Request, NEW c \in Contents \union {None}, Ask(h, r, c)
        PROVE  D(h)'
    <3>1. /\ hpc'[h] = FirstCall[r.op] /\ req'[h] = r /\ hdata'[h] = c
          /\ r.op = "addFlow" => c \in Contents
      BY <2>1 DEF Ask
    <3>2. /\ r.op \in {"getFlow", "addFlow", "deleteFlow", "renameFlow", "enqueue"}
          /\ r.op # "addFlow" => FirstCall[r.op] \notin {"open", "write", "commit"}
          /\ FirstCall[r.op] \notin {"write", "commit"}
      <4>1. r.op \in {"getFlow", "addFlow", "deleteFlow", "renameFlow", "enqueue"}
        BY RegistryOptions DEF Request
      <4> QED BY <4>1 DEF FirstCall
    <3> QED BY <3>1, <3>2
  <2>2. CASE Get(h) \/ StatOld(h) \/ StatNew(h) \/ Reply(h)
    BY <2>2 DEF Get, StatOld, StatNew, Reply
  <2>3. CASE ReadOld(h)
    BY <2>3 DEF ReadOld, WholeFlows, Asking, Request, historyVars
  <2>4. CASE OpenTmp(h)
    <3>1. /\ hpc'[h] = "write" => tmp'[req[h].to] = "empty"
          /\ hpc'[h] \in {"write", "error"}
      BY <2>4 DEF OpenTmp, Asking, Request
    <3> QED BY <2>4, <3>1 DEF OpenTmp, Drafts, historyVars
  <2>5. CASE WriteTmp(h)
    <3>1. /\ hpc'[h] \in {"commit", "error"}
          /\ UNCHANGED <<req, hdata, shared>>
          /\ hpc'[h] = "commit" => Put(h, hdata[h])
      BY <2>5 DEF WriteTmp, historyVars
    <3>2. ASSUME hpc'[h] = "commit", req[h].to \notin shared
          PROVE  tmp'[req[h].to] = hdata[h]
      <4>1. fd[h].at = "tmp" /\ fd[h].name = req[h].to /\ req[h].to \in Names
        BY <2>5, <3>2 DEF WriteTmp, OpenFiles, Asking, Request
      <4>2. tmp[req[h].to] = "empty"
        BY <2>5, <3>2 DEF WriteTmp, Drafts
      <4> QED BY <3>1, <3>2, <4>1, <4>2 DEF Put, Result
    <3> QED BY <2>5, <3>1, <3>2 DEF WriteTmp, Drafts
  <2>6. CASE RenameTmp(h)
    BY <2>6 DEF RenameTmp, Committed, Asking
  <2>7. CASE DiscardTmp(h) \/ RemoveFlow(h) \/ RemoveOld(h)
    BY <2>7 DEF DiscardTmp, RemoveFlow, RemoveOld, Remove
  <2>8. CASE CheckExists(h) \/ CreateJob(h)
    BY <2>8 DEF CheckExists, CreateJob
  <2> QED
    BY <2>1, <2>2, <2>3, <2>4, <2>5, <2>6, <2>7, <2>8 DEF HandlerStep
<1> QED BY <1>1, <1>2 DEF Drafts

\* The files of the flows that a request has changed: it has renamed what it
\* has written, or removed one, or written to a file that two share.
LEMMA FileChanges ==
  ASSUME TypeOK, Asking, OpenFiles, NEW h \in Handlers, HandlerStep(h)
  PROVE  \/ UNCHANGED file
         \/ /\ RenameTmp(h) /\ hpc'[h] \in {"ok", "removeold"}
            /\ tmp[req[h].to] # None
            /\ file' = [file EXCEPT ![req[h].to] = tmp[req[h].to]]
         \/ /\ RemoveFlow(h) \/ RemoveOld(h)
            /\ hpc'[h] = "ok"
            /\ file' = [file EXCEPT ![req[h].name] = None]
         \/ /\ WriteTmp(h) /\ fd[h].name \in shared
            /\ \E d \in Data : file' = [file EXCEPT ![fd[h].name] = d]
<1>1. CASE RenameTmp(h)
  BY <1>1 DEF RenameTmp, Committed, GoTo, TypeOK, Asking
<1>2. CASE RemoveFlow(h) \/ RemoveOld(h)
  BY <1>2 DEF RemoveFlow, RemoveOld, Remove, GoTo, TypeOK
<1>3. CASE WriteTmp(h)
  <2>1. hdata[h] \in Data /\ "torn" \in Data
    BY <1>3 DEF WriteTmp, TypeOK, Data
  <2>2. fd[h] # Nowhere
    BY <1>3 DEF WriteTmp, TypeOK
  <2>3. ASSUME NEW d \in Data, Put(h, d)
        PROVE  \/ UNCHANGED file
               \/ /\ fd[h].name \in shared
                  /\ \E e \in Data : file' = [file EXCEPT ![fd[h].name] = e]
    BY <2>2, <2>3 DEF Put, Result, Data, OpenFiles
  <2> QED BY <1>3, <2>1, <2>3 DEF WriteTmp
<1>4. CASE ~RenameTmp(h) /\ ~RemoveFlow(h) /\ ~RemoveOld(h) /\ ~WriteTmp(h)
  BY <1>4 DEF HandlerStep, Ask, Get, StatOld, StatNew, ReadOld, OpenTmp, DiscardTmp,
              CheckExists, CreateJob, Reply, fileVars
<1> QED BY <1>1, <1>2, <1>3, <1>4

LEMMA WholeStep ==
  ASSUME TypeOK, Asking, OpenFiles, Drafts, WholeFlows, NEW h \in Handlers,
         HandlerStep(h), OnlyOwn(h)
  PROVE  WholeFlows'
<1>1. CASE UNCHANGED file
  BY <1>1 DEF WholeFlows, OnlyOwn
<1>2. CASE RenameTmp(h) /\ file' = [file EXCEPT ![req[h].to] = tmp[req[h].to]]
                        /\ hpc'[h] \in {"ok", "removeold"}
  <2>1. ASSUME req[h].to \notin shared' PROVE tmp[req[h].to] \in Contents
    BY <1>2, <2>1 DEF RenameTmp, GoTo, TypeOK, Asking, Drafts
  <2> QED BY <1>2, <2>1 DEF TypeOK, WholeFlows, OnlyOwn
<1>3. CASE file' = [file EXCEPT ![req[h].name] = None]
  BY <1>3 DEF TypeOK, WholeFlows, OnlyOwn
<1>4. CASE fd[h].name \in shared /\ \E d \in Data : file' = [file EXCEPT ![fd[h].name] = d]
  BY <1>4 DEF TypeOK, WholeFlows, OnlyOwn
<1> QED BY <1>1, <1>2, <1>3, <1>4, FileChanges

\* What the others write is as it was.
LEMMA OthersKeep ==
  ASSUME OneWriter, Asking, NEW h \in Handlers, OnlyOwn(h),
         NEW g \in Handlers \ {h}
  PROVE  /\ Held(g)' = Held(g)
         /\ \A n \in Held(g) \ shared : n \in Names /\ file'[n] = file[n]
<1>1. Held(g)' = Held(g)
  BY DEF OnlyOwn, Held
<1>2. \A n \in Held(g) : n \in Names
  BY DEF Held, Asking, Request
<1> QED BY <1>1, <1>2 DEF OneWriter, OnlyOwn

LEMMA UntouchedStep ==
  ASSUME TypeOK, Asking, OneWriter, OpenFiles, Untouched, NEW h \in Handlers,
         HandlerStep(h), OnlyOwn(h)
  PROVE  Untouched'
<1>1. ASSUME NEW g \in Handlers \ {h}, hpc'[g] \notin {"idle", "removeold", "ok"},
             NEW n \in Held(g)' \ shared'
      PROVE  file'[n] = before'[g][n]
  BY <1>1, OthersKeep DEF OnlyOwn, Untouched
<1>2. ASSUME hpc'[h] \notin {"idle", "removeold", "ok"}, NEW n \in Held(h)' \ shared'
      PROVE  file'[n] = before'[h][n]
  <2>1. ASSUME NEW r \in Request, NEW c \in Contents \union {None}, Ask(h, r, c)
        PROVE  file'[n] = before'[h][n]
    BY <1>2, <2>1 DEF Ask, Held, TypeOK, fileVars
  <2>2. CASE Reply(h)
    BY <1>2, <2>2 DEF Reply, GoTo, TypeOK
  <2>3. CASE Goes(h)
    <3>1. hpc[h] \notin {"idle", "removeold", "ok"}
      <4>1. CASE hpc[h] = "removeold"
        BY <1>2, <4>1
        DEF HandlerStep, Ask, Get, StatOld, StatNew, ReadOld, OpenTmp, WriteTmp,
            RenameTmp, DiscardTmp, RemoveFlow, RemoveOld, Remove, CheckExists,
            CreateJob, Reply, Final, GoTo, TypeOK
      <4>2. CASE hpc[h] = "ok"
        BY <1>2, <4>2
        DEF HandlerStep, Ask, Get, StatOld, StatNew, ReadOld, OpenTmp, WriteTmp,
            RenameTmp, DiscardTmp, RemoveFlow, RemoveOld, Remove, CheckExists,
            CreateJob, Reply, Final, GoTo, TypeOK
      <4> QED BY <2>3, <4>1, <4>2 DEF Goes
    <3>2. n \in Held(h) \ shared
      BY <2>3 DEF Goes, Held, OnlyOwn
    <3>3. file'[n] = file[n]
      <4>1. n \in Names
        BY <3>2 DEF Held, Asking, Request
      <4> QED BY <1>2, <3>2, <4>1, FileChanges DEF TypeOK
    <3> QED BY <2>3, <3>1, <3>2, <3>3 DEF Goes, Untouched
  <2> QED BY <2>1, <2>2, <2>3, RequestStays
<1> QED BY <1>1, <1>2 DEF Untouched

LEMMA RenamingStep ==
  ASSUME TypeOK, Asking, OneWriter, OpenFiles, Drafts, Untouched, Renaming,
         NEW h \in Handlers, HandlerStep(h), OnlyOwn(h)
  PROVE  Renaming'
<1> DEFINE R(g) ==
      req[g].op = "renameFlow" =>
      /\ hpc[g] \in {"statnew", "read"} /\ req[g].name \notin shared =>
           file[req[g].name] # None
      /\ hpc[g] \in {"read", "open", "write", "commit", "discard"}
           /\ req[g].to \notin shared => file[req[g].to] = None
      /\ Alone(g) =>
           /\ hpc[g] \in {"open", "write", "commit", "discard", "removeold"} =>
                req[g].name # req[g].to
           /\ hpc[g] \in {"open", "write", "commit"} =>
                hdata[g] = before[g][req[g].name]
           /\ hpc[g] = "removeold" =>
                \A n \in Held(g) : file[n] = before[g][req[g].name]
<1>0. \A g \in Handlers : Alone(g) <=> req[g].name \notin shared /\ req[g].to \notin shared
  BY DEF Alone
<1>1. ASSUME NEW g \in Handlers \ {h} PROVE R(g)'
  <2>1. /\ UNCHANGED <<hpc[g], req[g], hdata[g], before[g]>> /\ shared \subseteq shared'
    BY DEF OnlyOwn
  <2>2. ASSUME req[g].op = "renameFlow", hpc[g] # "idle"
        PROVE  Held(g) = {req[g].name, req[g].to}
    BY <2>2 DEF Held, Writes
  <2>3. Alone(g)' => Alone(g)
    BY <2>1 DEF Alone
  <2>4. R(g)
    BY DEF Renaming
  <2> QED BY <1>0, <2>1, <2>2, <2>3, <2>4, OthersKeep
<1>2. R(h)'
  <2>1. ASSUME NEW r \in Request, NEW c \in Contents \union {None}, Ask(h, r, c)
        PROVE  R(h)'
    <3>1. /\ hpc'[h] = FirstCall[r.op] /\ req'[h] = r
          /\ r.op = "renameFlow" => FirstCall[r.op] = "statold"
      BY <2>1 DEF Ask, GoTo, TypeOK, FirstCall
    <3> QED BY <3>1
  <2>2. CASE Reply(h)
    BY <2>2 DEF Reply, NoRequest, GoTo, TypeOK, ContentsAssumption
  <2>3. CASE Goes(h)
    <3>0. /\ UNCHANGED <<req, before>> /\ hpc[h] # "idle" /\ Held(h)' = Held(h)
          /\ req[h].name \in Names /\ req[h].to \in Names
          /\ shared \subseteq shared'
      BY <2>3 DEF Goes, Held, Asking, Request, OnlyOwn
    <3>1. SUFFICES ASSUME req[h].op = "renameFlow"
                   PROVE  R(h)'
      BY <3>0
    <3>2. Held(h) = {req[h].name, req[h].to} /\ R(h)
      BY <3>0, <3>1 DEF Held, Writes, Renaming
    <3>T. /\ hpc \in [Handlers -> Calls] /\ req \in [Handlers -> Request \union {NoRequest}]
          /\ hdata \in [Handlers -> Data \union {None}]
          /\ file \in [Names -> Data \union {None}] /\ tmp \in [Names -> Data \union {None}]
      BY DEF TypeOK
    <3>A. /\ Alone(h)' => Alone(h)
          /\ Alone(h) => req[h].name \notin shared /\ req[h].to \notin shared
      BY <3>0 DEF Alone
    <3> HIDE <1>0
    <3> USE <3>0, <3>1, <3>2, <3>T, <3>A DEF GoTo
    <3>3. CASE StatOld(h)
      BY <3>3 DEF StatOld, fileVars, historyVars
    <3>4. CASE StatNew(h)
      BY <3>4 DEF StatNew, fileVars, historyVars
    <3>5. CASE ReadOld(h)
      <4>1. Alone(h) => file[req[h].name] = before[h][req[h].name]
        BY <3>5 DEF ReadOld, Untouched
      <4> QED BY <3>5, <4>1 DEF ReadOld, fileVars, historyVars
    <3>6. CASE OpenTmp(h)
      BY <3>6 DEF OpenTmp, historyVars
    <3>7. CASE WriteTmp(h)
      <4>1. \A n \in Names \ shared : file'[n] = file[n]
        BY <3>7, FileChanges
        DEF WriteTmp, RenameTmp, RemoveFlow, RemoveOld, Remove
      <4> QED BY <3>7, <4>1 DEF WriteTmp, historyVars
    <3>8. CASE RenameTmp(h)
      <4>1. CASE hpc'[h] = "discard"
        BY <3>8, <4>1 DEF RenameTmp, Committed
      <4>2. CASE hpc'[h] = "removeold" /\ file' = [file EXCEPT ![req[h].to] = tmp[req[h].to]]
        <5>1. ASSUME Alone(h)
              PROVE  /\ tmp[req[h].to] = before[h][req[h].name]
                     /\ file[req[h].name] = before[h][req[h].name]
          BY <3>8, <5>1 DEF RenameTmp, Drafts, Untouched
        <5> QED BY <3>8, <4>2, <5>1 DEF RenameTmp, Alone
      <4> QED BY <3>8, <4>1, <4>2 DEF RenameTmp, Committed
    <3>9. CASE DiscardTmp(h) \/ RemoveFlow(h) \/ RemoveOld(h)
      BY <3>9 DEF DiscardTmp, RemoveFlow, RemoveOld, Remove
    <3>10. CASE Get(h) \/ CheckExists(h) \/ CreateJob(h)
      BY <3>10 DEF Get, CheckExists, CreateJob
    <3>11. ASSUME NEW r \in Request, NEW c \in Contents \union {None}, Ask(h, r, c)
           PROVE  FALSE
      BY <3>11 DEF Ask
    <3> QED
      BY <2>2, <3>3, <3>4, <3>5, <3>6, <3>7, <3>8, <3>9, <3>10, <3>11 DEF HandlerStep
  <2> QED BY <2>1, <2>2, <2>3, RequestStays
<1> QED BY <1>1, <1>2 DEF Renaming

LEMMA SucceedsStep ==
  ASSUME TypeOK, Asking, OneWriter, OpenFiles, Drafts, Untouched, Renaming,
         SucceedsTruly, NEW h \in Handlers, HandlerStep(h), OnlyOwn(h)
  PROVE  SucceedsTruly'
<1> DEFINE S(g) ==
      hpc[g] = "ok" /\ req[g].op \in Writes /\ Alone(g) =>
      file[req[g].to] = CASE req[g].op = "addFlow" -> hdata[g]
                          [] req[g].op = "deleteFlow" -> None
                          [] OTHER -> before[g][req[g].name]
<1>1. ASSUME NEW g \in Handlers \ {h} PROVE S(g)'
  <2>1. UNCHANGED <<hpc[g], req[g], hdata[g], before[g]>> /\ shared \subseteq shared'
    BY DEF OnlyOwn
  <2>2. S(g) /\ (Alone(g)' => Alone(g) /\ req[g].to \notin shared)
    BY <2>1 DEF SucceedsTruly, Alone
  <2>3. ASSUME hpc[g] = "ok", req[g].op \in Writes, req[g].to \notin shared
        PROVE  file'[req[g].to] = file[req[g].to]
    BY <2>3, OthersKeep DEF Held
  <2> QED BY <2>1, <2>2, <2>3
<1>2. S(h)'
  <2>1. SUFFICES ASSUME hpc'[h] = "ok", req'[h].op \in Writes, Alone(h)'
                 PROVE  S(h)'
    OBVIOUS
  <2>2. Goes(h)
    <3>1. ASSUME NEW r \in Request, NEW c \in Contents \union {None}, Ask(h, r, c)
          PROVE  FALSE
      <4>1. r.op \in {"getFlow", "addFlow", "deleteFlow", "renameFlow", "enqueue"}
        BY RegistryOptions DEF Request
      <4>2. FirstCall[r.op] # "ok"
        BY <4>1 DEF FirstCall
      <4> QED BY <2>1, <3>1, <4>2 DEF Ask, GoTo, TypeOK
    <3>2. ~Reply(h)
      BY <2>1 DEF Reply, GoTo, TypeOK
    <3> QED BY <3>1, <3>2, RequestStays
  <2>3. /\ UNCHANGED <<req, before>> /\ hpc[h] # "idle" /\ hpc[h] # "ok"
        /\ req[h].name \in Names /\ req[h].to \in Names
        /\ Alone(h) /\ req[h].name \notin shared /\ req[h].to \notin shared
        /\ Held(h) = {req[h].name, req[h].to}
    BY <2>1, <2>2 DEF Goes, Held, Asking, Request, OnlyOwn, Alone
  <2>4. /\ hpc \in [Handlers -> Calls]
        /\ file \in [Names -> Data \union {None}] /\ tmp \in [Names -> Data \union {None}]
    BY DEF TypeOK
  <2> USE <2>1, <2>3, <2>4 DEF GoTo
  <2>5. CASE RenameTmp(h)
    <3>1. /\ hpc[h] = "commit" /\ req[h].op = "addFlow"
          /\ file' = [file EXCEPT ![req[h].to] = tmp[req[h].to]]
          /\ UNCHANGED hdata
      BY <2>5 DEF RenameTmp, Committed, Asking
    <3>2. tmp[req[h].to] = hdata[h]
      BY <3>1 DEF Drafts
    <3> QED BY <3>1, <3>2
  <2>6. CASE RemoveFlow(h)
    BY <2>6 DEF RemoveFlow, Remove, Asking
  <2>7. CASE RemoveOld(h)
    <3>1. /\ hpc[h] = "removeold" /\ req[h].op = "renameFlow"
          /\ file'[req[h].to] = file[req[h].to] \/ req[h].to = req[h].name
      BY <2>7 DEF RemoveOld, Remove, Asking
    <3>2. req[h].to # req[h].name /\ file[req[h].to] = before[h][req[h].name]
      BY <3>1 DEF Renaming
    <3> QED BY <3>1, <3>2
  <2>8. CASE ~RenameTmp(h) /\ ~RemoveFlow(h) /\ ~RemoveOld(h)
    <3>1. \A r \in Request, c \in Contents \union {None} : ~Ask(h, r, c)
      BY DEF Ask
    <3> QED
      BY <2>8, <3>1
      DEF HandlerStep, Get, StatOld, StatNew, ReadOld, OpenTmp, WriteTmp, DiscardTmp,
          CheckExists, CreateJob, Reply, Asking, Writes
  <2> QED BY <2>5, <2>6, <2>7, <2>8
<1> QED BY <1>1, <1>2 DEF SucceedsTruly

\* A file that goes has been seen to go if the job or its request needs it.
LEMMA RemovalsSeen ==
  ASSUME TypeOK, Asking, OpenFiles, NEW h \in Handlers, HandlerStep(h),
         NEW n \in Names, file'[n] = None
  PROVE  file[n] = None \/ (NeededByJob(n) => gone')
<1> USE DEF TypeOK
<1>1. CASE UNCHANGED file
  BY <1>1
<1>2. CASE tmp[req[h].to] # None /\ file' = [file EXCEPT ![req[h].to] = tmp[req[h].to]]
  BY <1>2
<1>3. CASE (RemoveFlow(h) \/ RemoveOld(h)) /\ file' = [file EXCEPT ![req[h].name] = None]
  BY <1>3 DEF RemoveFlow, RemoveOld, Remove
<1>4. CASE \E d \in Data : file' = [file EXCEPT ![fd[h].name] = d]
  BY <1>4, ContentsAssumption DEF Data
<1> QED BY <1>1, <1>2, <1>3, <1>4, FileChanges

\* What a step of a request does to the job and to what is known of it.
LEMMA JobChanges ==
  ASSUME TypeOK, Asking, NEW h \in Handlers, HandlerStep(h)
  PROVE  \/ CheckExists(h)
         \/ CreateJob(h)
         \/ UNCHANGED job /\ (gone => gone') /\ hpc'[h] # "create"
<1> DEFINE Goal == UNCHANGED job /\ (gone => gone') /\ hpc'[h] # "create"
<1> USE DEF GoTo
<1>0. hpc \in [Handlers -> Calls]
  BY DEF TypeOK
<1>1. ASSUME NEW r \in Request, NEW c \in Contents \union {None}, Ask(h, r, c)
      PROVE  Goal
  <2>1. r.op \in {"getFlow", "addFlow", "deleteFlow", "renameFlow", "enqueue"}
    BY RegistryOptions DEF Request
  <2>2. FirstCall[r.op] # "create"
    BY <2>1 DEF FirstCall
  <2> QED BY <1>0, <1>1, <2>2 DEF Ask
<1>2. CASE Get(h) \/ StatOld(h) \/ StatNew(h) \/ ReadOld(h) \/ Reply(h)
  BY <1>0, <1>2 DEF Get, StatOld, StatNew, ReadOld, Reply, historyVars
<1>3. CASE OpenTmp(h) \/ WriteTmp(h) \/ DiscardTmp(h)
  BY <1>0, <1>3 DEF OpenTmp, WriteTmp, DiscardTmp, historyVars
<1>4. CASE RenameTmp(h)
  BY <1>0, <1>4 DEF RenameTmp, Committed, Asking
<1>5. CASE RemoveFlow(h) \/ RemoveOld(h)
  BY <1>0, <1>5 DEF RemoveFlow, RemoveOld, Remove
<1> QED BY <1>1, <1>2, <1>3, <1>4, <1>5 DEF HandlerStep

LEMMA OneJobStep ==
  ASSUME TypeOK, Asking, OpenFiles, OneJob, NEW h \in Handlers, HandlerStep(h),
         OnlyOwn(h), Asking'
  PROVE  OneJob'
<1> DEFINE Enqueues(g) == hpc[g] # "idle" /\ req[g].op = "enqueue"
<1>0. /\ \A g \in Handlers \ {h} : UNCHANGED <<hpc[g], req[g]>>
      /\ hpc \in [Handlers -> Calls] /\ req \in [Handlers -> Request \union {NoRequest}]
      /\ \A g \in Handlers : hpc[g] \in {"exists", "create"} => Enqueues(g)
      /\ \A g \in Handlers : hpc'[g] \in {"exists", "create"} => Enqueues(g)'
  BY DEF OnlyOwn, TypeOK, Asking
<1>1. ASSUME NEW g \in Handlers, NEW f \in Handlers, Enqueues(g)', Enqueues(f)'
      PROVE  g = f
  <2>1. ASSUME Enqueues(h)', ~Enqueues(h), NEW k \in Handlers PROVE ~Enqueues(k)
    <3>1. PICK r \in Request, c \in Contents \union {None} : Ask(h, r, c)
      BY <2>1, RequestStays DEF Reply, GoTo, TypeOK, Goes
    <3>2. r.op = "enqueue"
      BY <2>1, <3>1 DEF Ask, TypeOK
    <3> QED BY <3>1, <3>2 DEF Ask, Enqueuing
  <2>2. \A k \in Handlers \ {h} : Enqueues(k)' <=> Enqueues(k)
    BY <1>0
  <2>3. \A k, l \in Handlers : Enqueues(k) /\ Enqueues(l) => k = l
    BY DEF OneJob
  <2> QED BY <1>1, <2>1, <2>2, <2>3
<1>2. ASSUME NEW g \in Handlers, hpc'[g] \in {"exists", "create"} PROVE job' = None
  <2>1. CASE CreateJob(h)
    <3>1. hpc[h] = "create" /\ hpc'[h] = "ok"
      BY <1>0, <2>1 DEF CreateJob, GoTo
    <3>2. g # h /\ Enqueues(h) /\ Enqueues(g)
      BY <1>0, <1>2, <3>1
    <3> QED BY <3>2 DEF OneJob
  <2>2. CASE g # h /\ ~CreateJob(h)
    BY <1>0, <1>2, <2>2, JobChanges DEF OneJob, CheckExists
  <2>3. ASSUME g = h, NEW r \in Request, NEW c \in Contents \union {None}, Ask(h, r, c)
        PROVE  job' = None
    BY <1>0, <1>2, <2>3 DEF Ask, Asking, TypeOK
  <2>4. CASE g = h /\ CheckExists(h)
    BY <2>4 DEF CheckExists, OneJob
  <2>5. CASE g = h /\ Goes(h) /\ ~CreateJob(h) /\ ~CheckExists(h)
    <3>1. Enqueues(h) /\ hpc[h] \notin {"exists", "create"}
      BY <1>0, <1>2, <2>5
      DEF Goes, HandlerStep, Ask, Get, StatOld, StatNew, ReadOld, OpenTmp, WriteTmp,
          RenameTmp, DiscardTmp, RemoveFlow, RemoveOld, Remove, Reply, Final
    <3> QED
      BY <1>0, <1>2, <2>5, <3>1
      DEF Goes, HandlerStep, Ask, Get, StatOld, StatNew, ReadOld, OpenTmp, WriteTmp,
          RenameTmp, DiscardTmp, RemoveFlow, RemoveOld, Remove, Reply, Final, Asking,
          GoTo
  <2>6. CASE g = h /\ Reply(h)
    BY <1>0, <1>2, <2>6 DEF Reply, GoTo
  <2> QED BY <2>1, <2>2, <2>3, <2>4, <2>5, <2>6, RequestStays
<1>3. ASSUME NEW g \in Handlers, hpc'[g] = "create", file'[req'[g].name] = None
      PROVE  gone'
  <2>1. CASE CheckExists(h)
    <3>1. g = h
      BY <1>0, <1>3, <2>1 DEF OneJob, CheckExists
    <3> QED BY <1>0, <1>3, <2>1, <3>1 DEF CheckExists, GoTo, fileVars
  <2>2. CASE ~CheckExists(h)
    <3>1. g # h /\ hpc[g] = "create" /\ req'[g] = req[g]
      BY <1>0, <1>3, <2>2, JobChanges DEF CreateJob, GoTo
    <3>2. req[g].name \in Names /\ NeededByJob(req[g].name)
      BY <3>1 DEF NeededByJob, Asking, Request
    <3>3. gone => gone'
      BY <2>2, JobChanges DEF CreateJob, historyVars
    <3> QED BY <1>3, <3>1, <3>2, <3>3, RemovalsSeen DEF OneJob
  <2> QED BY <2>1, <2>2
<1>4. ASSUME job' # None, file'[job'] = None PROVE gone'
  <2>1. CASE CheckExists(h)
    BY <1>4, <2>1 DEF CheckExists, OneJob
  <2>2. CASE CreateJob(h)
    BY <1>4, <2>2 DEF CreateJob, OneJob, fileVars, historyVars
  <2>3. CASE ~CheckExists(h) /\ ~CreateJob(h)
    <3>1. job' = job /\ (gone => gone') /\ job \in Names /\ NeededByJob(job)
      BY <1>4, <2>3, JobChanges DEF TypeOK, NeededByJob
    <3> QED BY <1>4, <3>1, RemovalsSeen DEF OneJob
  <2> QED BY <2>1, <2>2, <2>3
<1> QED BY <1>1, <1>2, <1>3, <1>4 DEF OneJob

-----------------------------------------------------------------------------
(* The invariant and the properties *)

\* A worker that reads the flow of a job leaves all but the job as it is.
LEMMA LoadFlowStep ==
  ASSUME IInv, LoadFlow
  PROVE  IInv'
<1>1. /\ UNCHANGED <<config, file, tmp, fd, hpc, req, hdata, before, shared>>
      /\ job # None /\ job' = None
  BY DEF LoadFlow, fileVars
<1>2. TypeOK' /\ Asking'
  BY OtherTyping DEF IInv
<1>3. OneJob'
  BY <1>1 DEF IInv, OneJob
<1>4. OneWriter' /\ OpenFiles' /\ Drafts' /\ Starts(config')
  BY <1>1 DEF IInv, OneWriter, Held, OpenFiles, Drafts
<1>5. WholeFlows' /\ Untouched'
  BY <1>1 DEF IInv, WholeFlows, Untouched, Held
<1>6. Renaming' /\ SucceedsTruly'
  BY <1>1 DEF IInv, Renaming, SucceedsTruly, Alone, Held
<1> QED BY <1>2, <1>3, <1>4, <1>5, <1>6 DEF IInv

\* A crash ends all requests; what holds of the files alone stays.
LEMMA CrashStep ==
  ASSUME IInv, Crash
  PROVE  IInv'
<1>1. /\ UNCHANGED <<config, file, shared, job, gone>>
      /\ \A h \in Handlers : hpc'[h] = "idle" /\ fd'[h] = Nowhere
      /\ \A h \in Handlers : req'[h].op = None
  BY DEF Crash, NoRequest
<1>2. TypeOK' /\ Asking'
  BY OtherTyping DEF IInv
<1>3. OneJob' /\ OneWriter' /\ OpenFiles' /\ Drafts' /\ Starts(config')
  BY <1>1 DEF IInv, OneJob, OneWriter, Held, OpenFiles, Drafts
<1>4. WholeFlows' /\ Untouched' /\ SucceedsTruly' /\ Renaming'
  BY <1>1 DEF IInv, WholeFlows, Untouched, SucceedsTruly, Renaming
<1> QED BY <1>2, <1>3, <1>4 DEF IInv

LEMMA RegistryInit == Init => IInv
<1> SUFFICES ASSUME Init PROVE IInv
  OBVIOUS
<1>1. TypeOK
  BY InitTyped
<1>2. /\ Starts(config) /\ shared = {} /\ job = None
      /\ \A n \in Names : file[n] = None
      /\ \A h \in Handlers : hpc[h] = "idle" /\ fd[h] = Nowhere /\ req[h] = NoRequest
  BY DEF Init
<1>3. Asking /\ OneWriter /\ OpenFiles /\ Drafts /\ OneJob
  BY <1>2 DEF Asking, OneWriter, Held, OpenFiles, Drafts, OneJob, NoRequest
<1>4. WholeFlows /\ Untouched /\ Renaming /\ SucceedsTruly
  BY <1>2 DEF WholeFlows, Untouched, Renaming, SucceedsTruly, NoRequest
<1> QED BY <1>1, <1>2, <1>3, <1>4 DEF IInv

LEMMA RegistryStep == IInv /\ [Next]_vars => IInv'
<1> SUFFICES ASSUME IInv, [Next]_vars PROVE IInv'
  OBVIOUS
<1>1. CASE UNCHANGED vars
  BY <1>1
  DEF vars, fileVars, historyVars, IInv, TypeOK, Asking, OneWriter, Held,
      OpenFiles, Drafts, WholeFlows, Untouched, Renaming, SucceedsTruly, Alone, OneJob
<1>2. ASSUME NEW h \in Handlers, HandlerStep(h) PROVE IInv'
  <2>1. TypeOK' /\ Asking' /\ OnlyOwn(h)
    BY <1>2, HandlerTyping, OnlyOwnStep DEF IInv
  <2>2. OneWriter' /\ OpenFiles' /\ Drafts'
    BY <1>2, <2>1, OneWriterStep, OpenFilesStep, DraftsStep DEF IInv
  <2>3. WholeFlows' /\ Untouched' /\ Renaming'
    BY <1>2, <2>1, WholeStep, UntouchedStep, RenamingStep DEF IInv
  <2>4. SucceedsTruly' /\ OneJob'
    BY <1>2, <2>1, SucceedsStep, OneJobStep DEF IInv
  <2>5. Starts(config')
    BY <2>1 DEF OnlyOwn, IInv
  <2> QED BY <2>1, <2>2, <2>3, <2>4, <2>5 DEF IInv
<1> QED BY <1>1, <1>2, LoadFlowStep, CrashStep DEF Next

\* The inductive invariant of the registry, for every set of flows, contents,
\* requests in flight and configurations, and whatever calls fail.
THEOREM Invariance == Spec => []IInv
  BY RegistryInit, RegistryStep, PTL DEF Spec

\* The variables keep their types.
THEOREM TypeCorrect == Spec => []TypeOK
<1>1. IInv => TypeOK
  BY DEF IInv
<1> QED BY <1>1, Invariance, PTL

\* A reader finds a whole flow at every moment, in spite of failed writes and
\* crashes, unless two writers of that flow have overlapped.
THEOREM ReadersFindWholeFlows == Spec => []WholeFlows
<1>1. IInv => WholeFlows
  BY DEF IInv
<1> QED BY <1>1, Invariance, PTL

\* An error reply to a lone writer: its flows are as they were.
THEOREM ErrorsLeaveNothing == Spec => []FailsCleanly
<1>1. IInv => FailsCleanly
  BY DEF IInv, FailsCleanly, Untouched, Held, Alone
<1> QED BY <1>1, Invariance, PTL

\* A success reply to a lone writer: its request has had its effect.
THEOREM SuccessesAreTrue == Spec => []SucceedsTruly
<1>1. IInv => SucceedsTruly
  BY DEF IInv
<1> QED BY <1>1, Invariance, PTL

\* A worker finds the flow of its job, or the flow has been removed since
\* Enqueue looked for it.
THEOREM JobsFindTheirFlows == Spec => []JobFindsFlow
<1>1. IInv => JobFindsFlow
  BY DEF IInv, JobFindsFlow, LoadResult, OneJob, WholeFlows, TypeOK
<1> QED BY <1>1, Invariance, PTL

\* No content is lost but by a deletion or an overwriting addition.
LEMMA VanishStep ==
  ASSUME IInv, [Next]_vars, NEW n \in Names \ shared,
         file[n] # None, \A m \in Names : file'[m] # file[n]
  PROVE  \E h \in Handlers :
           /\ hpc'[h] # hpc[h] /\ req[h].name = n
           /\ \/ hpc[h] = "remove"
              \/ hpc[h] = "commit" /\ req[h].op = "addFlow"
              \/ hpc[h] = "removeold" /\ req[h].to \in shared
<1> USE DEF GoTo
<1>0. /\ TypeOK /\ Asking /\ OpenFiles /\ Untouched /\ Renaming
      /\ file \in [Names -> Data \union {None}] /\ hpc \in [Handlers -> Calls]
  BY DEF IInv, TypeOK
<1>1. file' # file
  OBVIOUS
<1>2. PICK h \in Handlers : HandlerStep(h)
  BY <1>1 DEF Next, vars, fileVars, LoadFlow, Crash
<1>3. ASSUME RenameTmp(h), hpc'[h] \in {"ok", "removeold"},
             file' = [file EXCEPT ![req[h].to] = tmp[req[h].to]]
      PROVE  hpc'[h] # hpc[h] /\ req[h].name = n /\ hpc[h] = "commit" /\ req[h].op = "addFlow"
  <2>1. req[h].to = n /\ hpc[h] = "commit" /\ hpc'[h] # hpc[h]
    BY <1>0, <1>3 DEF RenameTmp
  <2>2. req[h].op # "renameFlow"
    BY <1>0, <2>1 DEF Renaming
  <2> QED BY <1>0, <2>1, <2>2 DEF Asking
<1>4. ASSUME RemoveFlow(h) \/ RemoveOld(h), hpc'[h] = "ok",
             file' = [file EXCEPT ![req[h].name] = None]
      PROVE  /\ hpc'[h] # hpc[h] /\ req[h].name = n
             /\ hpc[h] = "remove" \/ (hpc[h] = "removeold" /\ req[h].to \in shared)
  <2>1. req[h].name = n /\ hpc[h] \in {"remove", "removeold"} /\ hpc'[h] # hpc[h]
    BY <1>0, <1>4 DEF RemoveFlow, RemoveOld
  <2>2. ASSUME hpc[h] = "removeold", req[h].to \notin shared PROVE FALSE
    <3>1. Alone(h) /\ req[h].op = "renameFlow" /\ req[h].to \in Names
      BY <1>0, <2>1, <2>2 DEF Alone, Asking, Request
    <3>2. req[h].name # req[h].to /\ {req[h].name, req[h].to} \subseteq Held(h)
      BY <1>0, <2>2, <3>1 DEF Renaming, Held, Writes
    <3>3. file[req[h].to] = file[n]
      BY <1>0, <2>1, <2>2, <3>1, <3>2 DEF Renaming
    <3> QED BY <1>0, <1>4, <2>1, <3>1, <3>2, <3>3
  <2> QED BY <2>1, <2>2
<1>5. ~(fd[h].name \in shared /\ \E d \in Data : file' = [file EXCEPT ![fd[h].name] = d])
  BY <1>0
<1> QED BY <1>0, <1>1, <1>2, <1>3, <1>4, <1>5, FileChanges

THEOREM ContentsSurvive == Spec => NothingVanishes
<1>1. IInv /\ [Next]_vars =>
        [\A n \in Names \ shared :
           file[n] # None /\ (\A m \in Names : file'[m] # file[n]) =>
             \E h \in Handlers :
               /\ hpc'[h] # hpc[h] /\ req[h].name = n
               /\ \/ hpc[h] = "remove"
                  \/ hpc[h] = "commit" /\ req[h].op = "addFlow"
                  \/ hpc[h] = "removeold" /\ req[h].to \in shared]_vars
  BY VanishStep
<1> QED BY <1>1, Invariance, PTL DEF Spec, NothingVanishes

-----------------------------------------------------------------------------
(* Access control *)

LEMMA Smallest ==
  ASSUME NEW T \in SUBSET Nat, T # {}
  PROVE  \E i \in T : \A j \in T : i <= j
<1> DEFINE R == OpToRel(<, Nat)
<1>1. IsWellFoundedOn(R, Nat)
  BY NatLessThanWellFounded
<1>2. \A i, j \in Nat : j < i => <<j, i>> \in R
  BY DEF OpToRel
<1> HIDE DEF R
<1>3. PICK i \in T : \A j \in T : ~ (<<j, i>> \in R)
  BY <1>1, WFMin, Zenon
<1>4. \A j \in T : ~ (j < i)
  BY <1>2, <1>3
<1> QED BY <1>3, <1>4

\* The user a key authenticates is one of a line with its hash.
LEMMA UserOfKey ==
  ASSUME NEW c \in Configs, NEW key, Matches(c, key) # {}
  PROVE  \E i \in DOMAIN c.lines :
           c.lines[i].hash = key /\ Authenticate(c, key) = c.lines[i]
<1> DEFINE i == CHOOSE k \in Matches(c, key) : \A j \in Matches(c, key) : k <= j
<1>1. c.lines \in Seq(Line)
  BY ConfigsAssumption
<1>2. Matches(c, key) \in SUBSET Nat
  BY <1>1 DEF Matches
<1>3. i \in Matches(c, key)
  BY <1>2, Smallest
<1> QED BY <1>3 DEF Matches, Authenticate

\* The role a route of the model asks for.
LEMMA RoleOf ==
  ASSUME NEW op \in Ops
  PROVE  RequiredRole[op] = CASE op \in Writes -> "flows:write"
                              [] op = "getFlow" -> "flows:read"
                              [] OTHER -> "jobs:write"
<1>1. op \in {"getFlow", "addFlow", "deleteFlow", "renameFlow", "enqueue"}
  BY RegistryOptions
<1> QED
  BY <1>1 DEF RequiredRole, Routes, JobRoutes, FlowRoutes, ScheduleRoutes, Need, Writes

\* Whoever is served is entitled to it, whatever daemon is configured.
THEOREM ServedAreEntitled == Spec => []OnlyEntitled
<1>1. ASSUME config \in Configs PROVE OnlyEntitled
  <2>1. SUFFICES ASSUME NEW caller \in [via: Transports, key: Keys \union {NoKey}],
                        NEW op \in Ops,
                        Served(config, caller.via, caller.key, op)
                 PROVE  Entitled(caller, op)
    BY DEF OnlyEntitled
  <2>2. CASE Anonymous(config, caller.via, caller.key)
    BY <2>2 DEF Anonymous, Entitled, Open
  <2>3. CASE /\ Authenticated(config, caller.key)
             /\ RequiredRole[op] \in Authenticate(config, caller.key).roles
    <3>1. Holder(caller, RequiredRole[op])
      BY <1>1, <2>3, UserOfKey DEF Authenticated, Holder
    <3> QED BY <2>3, <3>1, RoleOf DEF Authenticated, Entitled
  <2> QED BY <2>1, <2>2, <2>3 DEF Served
<1>2. IInv => OnlyEntitled
  BY <1>1 DEF IInv, TypeOK
<1> QED BY <1>2, Invariance, PTL
=============================================================================
