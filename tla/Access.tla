-------------------------------- MODULE Access -------------------------------
(***************************************************************************)
(* Who may call what: the users a daemon is started with                   *)
(* (internal/auth/file.go, cmd/yafe/main.go), the authentication of a      *)
(* request (internal/auth/middleware.go) and the role of each route        *)
(* (internal/server/server.go).  Users are read once, when the daemon      *)
(* starts, so that a decision is a function of the configuration and the   *)
(* request.  A bcrypt hash is represented by the key it is the hash of.    *)
(***************************************************************************)
EXTENDS Naturals, Sequences

CONSTANTS
  Keys,    \* API keys
  NoKey,   \* no key in the request; no hash, or none of bcrypt's, in a line
  NoName   \* an empty user name

Roles == {"jobs:read", "jobs:write", "flows:read", "flows:write",
          "schedules:read", "schedules:write"}
Transports == {"socket", "http"}

\* The routes of each role: of those that read, of those that write.
JobRoutes == [reads |-> {"listJobs", "getJob", "getJobLogs"},
              writes |-> {"enqueue", "dequeue"}]
FlowRoutes == [reads |-> {"listFlows", "getFlow"},
               writes |-> {"addFlow", "deleteFlow", "renameFlow"}]
ScheduleRoutes == [reads |-> {"listSchedules", "getSchedule"},
                   writes |-> {"createSchedule", "updateSchedule", "deleteSchedule",
                               "enableSchedule", "disableSchedule"}]
Routes == UNION {r.reads \union r.writes : r \in {JobRoutes, FlowRoutes, ScheduleRoutes}}
\* Mutant: a flow is deleted by whoever may read it.
NeedSwapped(r) ==
  CASE r \in JobRoutes.reads -> "jobs:read"
    [] r \in JobRoutes.writes -> "jobs:write"
    [] r \in FlowRoutes.reads \union {"deleteFlow"} -> "flows:read"
    [] r \in FlowRoutes.writes \ {"deleteFlow"} -> "flows:write"
    [] r \in ScheduleRoutes.reads -> "schedules:read"
    [] r \in ScheduleRoutes.writes -> "schedules:write"
\* The role a route asks for.
Need(r) ==
  CASE r \in JobRoutes.reads -> "jobs:read"
    [] r \in JobRoutes.writes -> "jobs:write"
    [] r \in FlowRoutes.reads -> "flows:read"
    [] r \in FlowRoutes.writes -> "flows:write"
    [] r \in ScheduleRoutes.reads -> "schedules:read"
    [] r \in ScheduleRoutes.writes -> "schedules:write"
RequiredRole == [r \in Routes |-> Need(r)]

\* A line of the auth file, or the flags of a single user.
Line == [name: {"ann", "bob", NoName}, hash: Keys \union {NoKey},
         roles: SUBSET (Roles \union {"bogus"})]

ParseLine(line) ==
  line.name # NoName /\ line.hash \in Keys /\ line.roles \subseteq Roles

\* The users of a file: every line parses and no name comes twice.
LoadsUsers(lines) ==
  /\ \A i \in DOMAIN lines : ParseLine(lines[i])
  /\ \A i, j \in DOMAIN lines : lines[i].name = lines[j].name => i = j

\* A configuration: is there an authenticator, its lines, and the transports
\* that require authentication.  serve refuses to start with any other one.
Starts(config) ==
  /\ config.auth => LoadsUsers(config.lines)
  /\ config.required # {} => config.auth

\* The first user whose hash matches, in the order of the file.
Matches(config, key) ==
  {i \in DOMAIN config.lines : config.lines[i].hash = key}
Authenticate(config, key) ==
  config.lines[CHOOSE i \in Matches(config, key) :
                 \A j \in Matches(config, key) : i <= j]

\* Middleware: without an authenticator, or without a key, a request passes
\* as nobody in particular unless the transport requires authentication; a
\* key that is there has to be some user's.
Anonymous(config, via, key) ==
  (~config.auth \/ key = NoKey) /\ via \notin config.required
Authenticated(config, key) ==
  config.auth /\ key # NoKey /\ Matches(config, key) # {}

\* RequireRole, behind the middleware.
Served(config, via, key, route) ==
  \/ Anonymous(config, via, key)
  \/ /\ Authenticated(config, key)
     /\ RequiredRole[route] \in Authenticate(config, key).roles
=============================================================================
