--------------------------- MODULE MCLayerAliases ---------------------------
(* Small instance of the session of honua_gp for TLC, two threads and one       *)
(* output name, in three parts that a run takes one of: the names with two jobs *)
(* and no where clauses, the selections with one job and every clause over one  *)
(* row, and the clients, which share no state with the aliases but the lock.    *)
EXTENDS LayerAliases, SessionClients, TLC

CONSTANTS t1, t2, j1, j2

VARIABLE part   \* "names", "selections" or "clients"

MCThreads == {t1, t2}
MCJobs == {j1, j2}
MCNames == {"out"}
MCSymmetry == UNION {Permutations(MCThreads), Permutations(MCJobs), Permutations(Handles)}

SomeEnvironment == [url |-> "", key |-> "", insecure |-> FALSE]

PartsInit ==
  /\ Init /\ SessionInit
  /\ \/ part \in {"names", "selections"} /\ environ = SomeEnvironment
     \/ part = "clients" /\ overwrite = FALSE

NoClauses == \A t \in Threads : arg[t] = NoWhere /\ whr[t] = NoWhere
OneJob == Cardinality((done \cup {res[t] : t \in Threads}) \ {NoJob}) <= 1
LayersOfNames ==
  \A t \in Threads : pc[t] # "idle" => (op[t] = "make") = (inn[t] \in Layers)

PartsNext ==
  \/ part = "names" /\ Next /\ NoClauses' /\ UNCHANGED <<sessionVars, part>>
  \/ part = "selections" /\ Next /\ (OneJob /\ LayersOfNames /\ overwrite)' /\ UNCHANGED <<sessionVars, part>>
  \/ part = "clients" /\ SessionNext /\ UNCHANGED <<vars, part>>

PartsSpec == PartsInit /\ [][PartsNext]_<<vars, sessionVars, part>>
=============================================================================
