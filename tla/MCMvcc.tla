------------------------------- MODULE MCMvcc -------------------------------
(* Workloads for module Mvcc. *)
EXTENDS Mvcc, TLC

CONSTANTS s1, s2, x, y

\* Each session writes an item of its own; both write x; s1 writes both items or
\* only y and s2 reads.
Disjoint    == (s1 :> {x}) @@ (s2 :> {y})
Overlapping == (s1 :> {x}) @@ (s2 :> {x})
OneWriter   == (s1 :> {x, y}) @@ (s2 :> {})
WriterOfY   == (s1 :> {y}) @@ (s2 :> {})

\* Writers that do not meet: with rollbacks, restarts and reclaim passes, and with
\* truncations of the commit log when nothing rolls back.
Independent ==
    {[may_write |-> Disjoint,  events |-> {"rollback", "crash"}],
     [may_write |-> WriterOfY, events |-> {"rollback", "crash", "reclaim"}],
     [may_write |-> WriterOfY, events |-> {"truncate"}]}

\* Two writers of one item, either of which may roll back.
Competing ==
    {[may_write |-> Overlapping, events |-> {"rollback", "empty"}]}

Sound == Independent \cup Competing

\* Two writers of one item that always commit.
Racing == {[may_write |-> Overlapping, events |-> {}]}

\* A reader beside a writer and the reclaimer.
Reclaiming == {[may_write |-> OneWriter, events |-> {"reclaim"}]}

\* The background reclaimer truncates the commit log, transactions roll back or
\* the process restarts.
Truncating ==
    {[may_write |-> OneWriter, events |-> {"rollback", "truncate"}],
     [may_write |-> OneWriter, events |-> {"crash", "truncate"}]}
=============================================================================
