----------------------------- MODULE MCJobQueue -----------------------------
(* Instances of JobQueue for TLC.                                          *)
EXTENDS JobQueueRefines, JobQueueInv, TLC

CONSTANTS d1, d2, h1, h2

OneDaemon == {d1}
TwoDaemons == {d1, d2}
OneHandler == {h1}
TwoHandlers == {h1, h2}
HomeOne == [h \in Handlers |-> d1]

\* The retentions that the daemons are started with.
KeepAll == [d \in Daemons |-> {}]
ExpireAll == [d \in Daemons |-> {"done", "failed"}]
ExpireDone == [d \in Daemons |-> {"done"}]
ExpireFailedAtOne == [d \in Daemons |-> IF d = d1 THEN {"failed"} ELSE {}]

\* The handlers of one daemon are interchangeable.
HandlerSymmetry == Permutations(Handlers)
=============================================================================
