--------------------------- MODULE MCFlowRegistry ---------------------------
(* Instances of FlowRegistry for TLC.                                      *)
EXTENDS FlowRegistryInv, TLC

CONSTANTS n1, n2, c1, c2, k1, k2, h1, h2

TwoNames == {n1, n2}
TwoContents == {c1, c2}
TwoHandlers == {h1, h2}
TwoKeys == {k1, k2}

User(name, hash, roles) == [name |-> name, hash |-> hash, roles |-> roles]
Ann == User("ann", k1, {"flows:read", "flows:write", "jobs:write"})
Bob == User("bob", k2, {"flows:read"})

From(via, key) == [via |-> via, key |-> key]

\* No authentication; users from a file, required over HTTP only; and three
\* that serve refuses: nobody to authenticate, a name twice, a role unknown.
\* Nobody calls the first one: it would act as the second one does for the
\* callers it lets through.
OpenDaemon == [auth |-> FALSE, lines |-> <<>>, required |-> {},
               clients |-> {}]
ClosedDaemon == [auth |-> TRUE, lines |-> <<Ann, Bob>>, required |-> {"http"},
                 clients |-> {From("http", k1), From("http", k2),
                              From("http", NoKey), From("socket", NoKey)}]
SomeConfigs ==
  {OpenDaemon, ClosedDaemon,
   [OpenDaemon EXCEPT !.required = {"http"}],
   [ClosedDaemon EXCEPT !.lines = <<Ann, User("ann", k2, {"flows:write"})>>],
   [ClosedDaemon EXCEPT !.lines = <<Ann, User("bob", k2, {"bogus"})>>]}

Symmetry == Permutations(Handlers) \union Permutations(Contents) \union Permutations(Names)
=============================================================================
