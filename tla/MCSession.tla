------------------------------ MODULE MCSession ------------------------------
(* What the two connections of module Session ask for. *)
EXTENDS Session, TLC

CONSTANTS c1, c2, r1, r2

Asking(one, two, happens) ==
    [asks |-> (c1 :> one) @@ (c2 :> two), incidents |-> happens]

\* Transactions that insert, fail, and lose their connections.
Transactions == Asking({"begin", "insert", "select"}, {"begin", "insert"}, {"fail", "close"})

\* An index built while a peer inserts, and the process killed.
Building == Asking({"create_index"}, {"begin", "insert"}, {"crash", "close"})

\* An index dropped while it is built.
Dropping == Asking({"create_index"}, {"drop_index"}, {})

\* Statements prepared while the schema changes.
Preparing == Asking({"prepare_select"}, {"create_index", "drop_index"}, {})
PreparedInsert == Asking({"prepare_insert"}, {"create_index", "insert"}, {})

\* Statistics gathered by two clients while one of them inserts; and EXPLAIN.
Analyzing == Asking({"analyze"}, {"analyze", "insert"}, {})
Explaining == Asking({"explain", "insert"}, {"select", "explain"}, {})

\* The server's own ANALYZE while a client builds an index, inserts and drops it, and
\* while another has a statement prepared.
AutoAnalyze == Asking({"create_index", "insert"}, {"analyze", "prepare_select"}, {})
AutoAnalyzeDrop == Asking({"create_index", "drop_index"}, {"analyze", "prepare_select"}, {})

\* Nobody asks for anything.
Quiet == Asking({}, {}, {})

Sessions == {Quiet, Transactions, Building, Dropping, Preparing, PreparedInsert,
             Analyzing, Explaining, AutoAnalyze, AutoAnalyzeDrop}
SchemaChanges == {AutoAnalyze}
PlansAndDrops == {Preparing}
=============================================================================
