----------------------------- MODULE CommitLog ------------------------------
(***************************************************************************)
(* What the commit log promises its callers (engine/clog.rs), with neither *)
(* threads nor files: every transaction has at most one outcome, an        *)
(* outcome never changes, a caller is told of an outcome only after it is  *)
(* decided, and raising the floor makes everything below it Committed.     *)
(* There is no crash action: a crash loses nothing that was decided.       *)
(***************************************************************************)
EXTENDS Naturals

CONSTANT MaxTx      \* bound: transaction IDs are 1..MaxTx

VARIABLES outcome,  \* how each transaction ended, "None" while undecided
          floor,    \* IDs below it answer "Committed" by convention
          told      \* the outcomes reported to the threads that asked for them

Tx == 1..MaxTx
Status == {"Committed", "RolledBack"}

Init ==
    /\ outcome = [t \in Tx |-> "None"]
    /\ floor = 0
    /\ told = {}

\* Some undecided transactions are decided, in one durable write.
Decide(decided) ==
    /\ \A t \in Tx : IF outcome[t] = "None" THEN decided[t] \in Status \cup {"None"}
                                             ELSE decided[t] = outcome[t]
    /\ outcome' = decided
    /\ UNCHANGED <<floor, told>>

\* A caller learns that its record is durable.
Tell(t) ==
    /\ outcome[t] # "None" /\ t >= floor
    /\ told' = told \cup {[tx |-> t, status |-> outcome[t]]}
    /\ UNCHANGED <<outcome, floor>>

\* The outcomes below f are forgotten.
Forget(f) ==
    /\ f > floor
    /\ floor' = f
    /\ outcome' = [t \in Tx |-> IF t < f THEN "Committed" ELSE outcome[t]]
    /\ UNCHANGED told

Next ==
    \/ \E decided \in [Tx -> Status \cup {"None"}] : Decide(decided)
    \/ \E t \in Tx : Tell(t)
    \/ \E f \in 1..(MaxTx + 1) : Forget(f)

Spec == Init /\ [][Next]_<<outcome, floor, told>>
=============================================================================
