--------------------------- MODULE FlowRegistryInv --------------------------
(***************************************************************************)
(* The inductive invariant behind the properties of FlowRegistry: who is   *)
(* at which call with what, who may touch the file of a flow, and what a   *)
(* request that writes a flow knows of it while nobody else writes it.     *)
(***************************************************************************)
EXTENDS FlowRegistry

\* Each call belongs to the operations that make it.
Asking ==
  \A h \in Handlers :
    /\ hpc[h] # "idle" => req[h] \in Request
    /\ req[h].op # "renameFlow" => req[h].to = req[h].name
    /\ hpc[h] = "get" => req[h].op = "getFlow"
    /\ hpc[h] \in {"exists", "create"} => req[h].op = "enqueue"
    /\ hpc[h] = "remove" => req[h].op = "deleteFlow"
    /\ hpc[h] = "statold" => req[h].op \in {"deleteFlow", "renameFlow"}
    /\ hpc[h] \in {"statnew", "read", "removeold"} => req[h].op = "renameFlow"
    /\ hpc[h] \in {"open", "write", "commit", "discard"} =>
         req[h].op \in {"addFlow", "renameFlow"}

\* The flows a request writes, from the moment it comes in to its answer.
Held(h) == IF hpc[h] # "idle" /\ req[h].op \in Writes
           THEN {req[h].name, req[h].to} ELSE {}

\* Two requests that write one flow at the same time are known to.
OneWriter ==
  \A g, h \in Handlers : g # h => Held(g) \intersect Held(h) \subseteq shared

\* The open file of a writer is the temporary file of its flow, unless
\* another writer of that flow has renamed or removed it.
OpenFiles ==
  \A h \in Handlers :
    fd[h] # Nowhere => /\ fd[h].name = req[h].to
                       /\ fd[h].at = "tmp" \/ fd[h].name \in shared

\* What a writer is about to write is a flow; it stays as it is written.
Drafts ==
  \A h \in Handlers :
    /\ hpc[h] \in {"open", "write", "commit"}
         /\ (req[h].op = "addFlow" \/ req[h].name \notin shared) =>
       hdata[h] \in Contents
    /\ req[h].to \notin shared =>
         /\ hpc[h] = "write" => tmp[req[h].to] = "empty"
         /\ hpc[h] = "commit" => tmp[req[h].to] = hdata[h]

\* A request leaves the flows it is about alone up to its last steps.
Untouched ==
  \A h \in Handlers :
    hpc[h] \notin {"idle", "removeold", "ok"} =>
      \A n \in Held(h) \ shared : file[n] = before[h][n]

\* What a rename has seen of its two names is still so.
Renaming ==
  \A h \in Handlers :
    req[h].op = "renameFlow" =>
      /\ hpc[h] \in {"statnew", "read"} /\ req[h].name \notin shared =>
           file[req[h].name] # None
      /\ hpc[h] \in {"read", "open", "write", "commit", "discard"}
           /\ req[h].to \notin shared => file[req[h].to] = None
      /\ Alone(h) =>
           /\ hpc[h] \in {"open", "write", "commit", "discard", "removeold"} =>
                req[h].name # req[h].to
           /\ hpc[h] \in {"open", "write", "commit"} =>
                hdata[h] = before[h][req[h].name]
           /\ hpc[h] = "removeold" =>
                \A n \in Held(h) : file[n] = before[h][req[h].name]

\* One job at a time; the flow Enqueue has found for it is there, or its
\* removal has been seen.
OneJob ==
  /\ \A g, h \in Handlers :
       hpc[g] # "idle" /\ req[g].op = "enqueue" /\
       hpc[h] # "idle" /\ req[h].op = "enqueue" => g = h
  /\ \A h \in Handlers : hpc[h] \in {"exists", "create"} => job = None
  /\ \A h \in Handlers :
       hpc[h] = "create" /\ file[req[h].name] = None => gone
  /\ job # None /\ file[job] = None => gone

IInv ==
  /\ TypeOK /\ Starts(config)
  /\ Asking /\ OneWriter /\ OpenFiles /\ Drafts
  /\ WholeFlows /\ Untouched /\ Renaming /\ SucceedsTruly /\ OneJob
=============================================================================
