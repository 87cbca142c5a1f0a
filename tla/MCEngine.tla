------------------------------- MODULE MCEngine ------------------------------
(***************************************************************************)
(* The engine above the storage layer for TLC.  Its modules share no state *)
(* at their level of abstraction: a behaviour is one of the sessions, of a *)
(* parallel stream, or of a query.                                         *)
(***************************************************************************)
EXTENDS MCSession, Parallel, MCQueries, MCRewrites

----------------------------------------------------------------------------
\* Parallel: an empty leaf, a leaf whose rows do not pass, a join with several
\* matches, LIMIT and OFFSET, a row that cannot be evaluated, a worker that
\* fails, and statements that stay serial.
Scanning(leaves, limit, offset) ==
    [leaves |-> leaves, join |-> FALSE, features |-> {}, limit |-> limit,
     offset |-> offset, faults |-> FALSE]
Joining(leaves, limit, offset) ==
    [Scanning(leaves, limit, offset) EXCEPT !.join = TRUE]
Serial == Scanning(<<<<1>>>>, NoLimit, 0)
Streams ==
    {Scanning(leaves, l, o) : l \in {NoLimit, 2}, o \in {0, 1},
        leaves \in {<<<<1, 1>>, <<0, 1>>, <<1>>>>, <<<<1>>, <<>>, <<1>>, <<1, 0>>, <<1>>>>}}
    \cup {Joining(leaves, l, o) : l \in {NoLimit, 2}, o \in {0, 1},
             leaves \in {<<<<2>>, <<0, 1>>, <<2>>>>, <<<<2>>, <<2, 1>>>>}}
    \cup {Scanning(<<<<1>>, <<ErrorRow>>, <<1>>, <<1>>>>, NoLimit, 0),
          Scanning(<<<<1>>, <<1>>>>, 0, 0), Serial,
          [Scanning(<<<<1, 1>>, <<1>>, <<1>>>>, NoLimit, 0) EXCEPT !.faults = TRUE],
          [Joining(<<<<1>>, <<1>>>>, NoLimit, 0) EXCEPT !.features = {"where_subquery"}]}

----------------------------------------------------------------------------
VARIABLE part

IdleJoin == CHOOSE j \in JoinInputs : j.left = <<>> /\ j.kind = "cross"
IdleSelect == CHOOSE s \in Selects : s.table = <<>>
IdleExpr == CHOOSE e \in Exprs : TRUE
IdleBatch == CHOOSE b \in Batches : TRUE
IdleQuery == CHOOSE q \in WrittenQueries : TRUE
IdleTables == CHOOSE d \in Databases : TRUE
engineVars == <<part, sessionVars, parallelVars, joinVars, selVars, exprVars, queryVars>>

\* The parts that do not run stay in an initial state in which nothing is asked.
EngineInit ==
    /\ part \in {"session", "parallel", "join", "select", "expr", "query"}
    /\ part # "session" => session_load = Quiet
    /\ part # "parallel" => query = Serial
    /\ SessionInit /\ ParallelInit
    /\ IF part = "join" THEN join \in JoinInputs ELSE join = IdleJoin
    /\ IF part = "select" THEN sel \in Selects ELSE sel = IdleSelect
    /\ IF part = "expr" THEN expr \in Exprs /\ batch \in Batches
       ELSE expr = IdleExpr /\ batch = IdleBatch
    /\ IF part = "query" THEN written \in WrittenQueries /\ tables \in Databases
       ELSE written = IdleQuery /\ tables = IdleTables
    /\ JoinStart /\ SelectStart /\ ExprStart /\ QueryStart

EngineNext ==
    \/ /\ part = "session" /\ SessionNext
       /\ UNCHANGED <<part, parallelVars, joinVars, selVars, exprVars, queryVars>>
    \/ /\ part = "parallel" /\ ParallelNext
       /\ UNCHANGED <<part, sessionVars, joinVars, selVars, exprVars, queryVars>>
    \/ /\ part = "join" /\ JoinNext
       /\ UNCHANGED <<part, sessionVars, parallelVars, selVars, exprVars, queryVars>>
    \/ /\ part = "select" /\ SelectNext
       /\ UNCHANGED <<part, sessionVars, parallelVars, joinVars, exprVars, queryVars>>
    \/ /\ part = "expr" /\ ExprNext
       /\ UNCHANGED <<part, sessionVars, parallelVars, joinVars, selVars, queryVars>>
    \/ /\ part = "query" /\ QueryNext
       /\ UNCHANGED <<part, sessionVars, parallelVars, joinVars, selVars, exprVars>>

EngineSpec ==
    EngineInit /\ [][EngineNext]_engineVars /\ SessionFairness /\ ParallelFairness

\* The types of the parts: among them that an ID in flight has been handed out, and
\* that a worker's channel never holds more than its capacity.
EngineTypeOK == SessionTypeOK /\ ParallelTypeOK
=============================================================================
