------------------------------ MODULE Parallel ------------------------------
(***************************************************************************)
(* The parallel scan and the parallel hash join of engine/executor.rs:     *)
(* worker threads read ranges of the outer table and send rows over        *)
(* bounded channels, and the stream drains the channels one by one.        *)
(*                                                                         *)
(* The table's rows are numbered in key order and spread over leaf pages.  *)
(* What the statement makes of a row is an input: the number of rows it    *)
(* gives (a scan at most one, a join one for each match; 0 stands for rows *)
(* that are not visible, fail the filter or have no match), or ErrorRow if *)
(* an expression fails on it.  A worker is named for the chunk of leaves   *)
(* with which its range begins.                                            *)
(***************************************************************************)
EXTENDS Integers, Sequences, SequencesExt, FiniteSetsExt

CONSTANTS
    MinLeaves,      \* MIN_LEAVES_FOR_PARALLEL, 16 in the code
    MaxWorkers,     \* available_parallelism, at most 8 in the code
    Capacity,       \* depth of a channel, 64 in the code
    Queries         \* per query: the leaves with their rows, whether it is a join,
                    \* its features, LIMIT and OFFSET, whether workers may fail

NoLimit == -1
ErrorRow == -1

\* A tree has a leaf at least, its root.
ASSUME ParallelConstants ==
    /\ MinLeaves \in Nat /\ MaxWorkers \in Nat \ {0} /\ Capacity \in Nat \ {0}
    /\ \A q \in Queries :
          /\ q.leaves \in Seq(Seq(Nat \cup {ErrorRow})) /\ q.leaves # <<>>
          /\ q.limit \in Nat \cup {NoLimit} /\ q.offset \in Nat
          /\ q.join \in BOOLEAN /\ q.faults \in BOOLEAN

VARIABLES
    query,              \* the query, chosen once
    \* per worker
    row_at,             \* the row its cursor reads next
    match_at,           \* the match it sends next, 0 between rows
    sending,            \* it is in tx.send
    working,            \* its thread has not returned
    channel,
    \* shared, and the stream's own
    stop, current, offset_remaining, remaining,
    stream,             \* "serial" if the statement runs without workers, "open",
                        \* "ended" after None, "dropped"
    \* history
    returned,           \* the rows the stream has handed out
    failed              \* a worker has returned because of an error

workerVars   == <<row_at, match_at, sending, working, channel>>
streamVars   == <<stop, current, offset_remaining, remaining, stream>>
parallelVars == <<query, workerVars, streamVars, returned, failed>>

-----------------------------------------------------------------------------
(* When the parallel path is taken *)

\* The gates of select for both, and those of build_parallel_scan, try_parallel_scan
\* and try_parallel_hash_join.  Both ask predicate_has_correlated about subqueries,
\* the join also whether WHERE keeps to plain columns of the outer table.
Rejected(q) ==
    {"analyze", "index_access", "group_by", "aggregate", "order_by", "having",
     "correlated", "expression_items"}
    \cup IF q.join THEN {"left_join", "no_equality", "where_inner", "where_subquery"}
                   ELSE {}
TakesParallelPath(q) ==
    q.features \cap Rejected(q) = {} /\ Len(q.leaves) >= MinLeaves

\* The workers of a scan evaluate WHERE as parsed, over a scope named for the table:
\* a subquery has not been replaced by its result, and an alias is not known.
WhereFails(q) == ~q.join /\ q.features \cap {"where_subquery", "where_alias"} # {}

-----------------------------------------------------------------------------
(* Partitioning *)

AllRows == FlattenSeq(query.leaves)
FirstRow(i) == 1 + Len(FlattenSeq(SubSeq(query.leaves, 1, i - 1)))

NumWorkers == Min({MaxWorkers, Len(query.leaves)})
ChunkSize == (Len(query.leaves) + NumWorkers - 1) \div NumWorkers

\* The chunks at which a range begins: the first, and those with a leaf_first_key; an
\* empty leaf gives no boundary.
Workers ==
    {0} \cup {w \in 1..(NumWorkers - 1) :
                /\ w * ChunkSize < Len(query.leaves)
                /\ query.leaves[w * ChunkSize + 1] # <<>>}

\* The worker whose channel is drained after that of w, NumWorkers behind the last.
NextWorker(w) == Min({v \in Workers : v > w} \cup {NumWorkers})

\* The range of w.
StartOf(w) == FirstRow(w * ChunkSize + 1)
EndOf(w) ==
    IF NextWorker(w) = NumWorkers THEN Len(AllRows) + 1 ELSE StartOf(NextWorker(w))

AllWorkers == 0..(MaxWorkers - 1)

ParallelTypeOK ==
    /\ query \in Queries
    /\ row_at \in [AllWorkers -> Nat] /\ match_at \in [AllWorkers -> Nat]
    /\ \A w \in Workers :
          /\ row_at[w] \in StartOf(w)..EndOf(w)
          /\ match_at[w] > 0 => row_at[w] < EndOf(w) /\ match_at[w] <= AllRows[row_at[w]]
    /\ sending \in [AllWorkers -> BOOLEAN] /\ working \in [AllWorkers -> BOOLEAN]
    /\ \A w \in AllWorkers : Len(channel[w]) <= Capacity
    /\ stop \in BOOLEAN /\ failed \in BOOLEAN
    /\ current \in Workers \cup {NumWorkers}
    /\ offset_remaining \in 0..query.offset
    /\ remaining \in IF query.limit = NoLimit THEN {NoLimit} ELSE 0..query.limit
    /\ stream \in {"serial", "open", "ended", "dropped"}

\* The workers start as soon as the stream is made.
ParallelInit ==
    /\ query \in Queries
    /\ row_at = [w \in AllWorkers |-> IF w \in Workers THEN StartOf(w) ELSE 1]
    /\ match_at = [w \in AllWorkers |-> 0]
    /\ sending = [w \in AllWorkers |-> FALSE]
    /\ working = [w \in AllWorkers |-> w \in Workers /\ TakesParallelPath(query)]
    /\ channel = [w \in AllWorkers |-> <<>>]
    /\ stop = FALSE /\ current = 0
    /\ stream = IF TakesParallelPath(query) THEN "open" ELSE "serial"
    /\ offset_remaining = query.offset /\ remaining = query.limit
    /\ returned = <<>> /\ failed = FALSE

-----------------------------------------------------------------------------
(* Workers *)

Exits(w) == working' = [working EXCEPT ![w] = FALSE]

\* The stop flag is looked at before every row, and by a join before every match.
WorkerStops(w) ==
    /\ working[w] /\ ~sending[w] /\ stop
    /\ Exits(w)
    /\ UNCHANGED <<query, row_at, match_at, sending, channel, streamVars, returned, failed>>

\* cursor.next, the visibility check, the filter and the probe.  A row on which the
\* filter or ON cannot be evaluated is passed over.
WorkerReads(w) ==
    /\ working[w] /\ ~stop /\ match_at[w] = 0
    /\ IF row_at[w] >= EndOf(w)
         THEN Exits(w) /\ UNCHANGED <<row_at, match_at, sending>>
         ELSE /\ UNCHANGED working
              /\ IF AllRows[row_at[w]] \in {0, ErrorRow} \/ WhereFails(query)
                   THEN /\ row_at' = [row_at EXCEPT ![w] = @ + 1]
                        /\ UNCHANGED <<match_at, sending>>
                   ELSE /\ match_at' = [match_at EXCEPT ![w] = 1]
                        /\ sending' = [sending EXCEPT ![w] = ~query.join]
                        /\ UNCHANGED row_at
    /\ UNCHANGED <<query, channel, streamVars, returned, failed>>

WorkerOffers(w) ==
    /\ working[w] /\ ~stop /\ match_at[w] > 0 /\ ~sending[w]
    /\ sending' = [sending EXCEPT ![w] = TRUE]
    /\ UNCHANGED <<query, row_at, match_at, working, channel, streamVars, returned, failed>>

\* tx.send waits for room, and fails once the receiver is gone.  The last match of a
\* row moves the cursor on.
WorkerSends(w) ==
    /\ working[w] /\ sending[w]
    /\ sending' = [sending EXCEPT ![w] = FALSE]
    /\ IF stream = "dropped"
         THEN Exits(w) /\ UNCHANGED <<row_at, match_at, channel>>
         ELSE /\ Len(channel[w]) < Capacity
              /\ channel' = [channel EXCEPT ![w] = Append(@, <<row_at[w], match_at[w]>>)]
              /\ IF match_at[w] < AllRows[row_at[w]]
                   THEN match_at' = [match_at EXCEPT ![w] = @ + 1] /\ UNCHANGED row_at
                   ELSE /\ match_at' = [match_at EXCEPT ![w] = 0]
                        /\ row_at' = [row_at EXCEPT ![w] = @ + 1]
              /\ UNCHANGED working
    /\ UNCHANGED <<query, streamVars, returned, failed>>

\* The pager cannot be opened, or the cursor or decode_row fails: the thread returns.
WorkerFails(w) ==
    /\ query.faults /\ working[w] /\ match_at[w] = 0
    /\ Exits(w) /\ failed' = TRUE
    /\ UNCHANGED <<query, row_at, match_at, sending, channel, streamVars, returned>>

-----------------------------------------------------------------------------
(* The stream *)

\* RowStream::next with the limit used up, or behind the last channel.
NextIsNone ==
    /\ stream = "open" /\ (remaining = 0 \/ current = NumWorkers)
    /\ stream' = "ended" /\ stop' = (stop \/ remaining = 0)
    /\ UNCHANGED <<query, workerVars, current, offset_remaining, remaining, returned,
                   failed>>

\* Mutant: OFFSET rows count against LIMIT.
NextIsRow_LimitFirst ==
    /\ stream = "open" /\ remaining # 0 /\ current # NumWorkers
    /\ channel[current] # <<>>
    /\ channel' = [channel EXCEPT ![current] = Tail(@)]
    /\ remaining' = IF remaining = NoLimit THEN NoLimit ELSE remaining - 1
    /\ stop' = (stop \/ remaining = 1)
    /\ IF offset_remaining > 0
         THEN offset_remaining' = offset_remaining - 1 /\ UNCHANGED returned
         ELSE /\ returned' = Append(returned, Head(channel[current]))
              /\ UNCHANGED offset_remaining
    /\ UNCHANGED <<query, row_at, match_at, sending, working, current, stream, failed>>

\* recv gives a row of the current channel: OFFSET skips it or LIMIT counts it.
NextIsRow ==
    /\ stream = "open" /\ remaining # 0 /\ current # NumWorkers
    /\ channel[current] # <<>>
    /\ channel' = [channel EXCEPT ![current] = Tail(@)]
    /\ IF offset_remaining > 0
         THEN /\ offset_remaining' = offset_remaining - 1
              /\ UNCHANGED <<returned, remaining, stop>>
         ELSE /\ returned' = Append(returned, Head(channel[current]))
              /\ remaining' = IF remaining = NoLimit THEN NoLimit ELSE remaining - 1
              /\ stop' = (stop \/ remaining = 1)
              /\ UNCHANGED offset_remaining
    /\ UNCHANGED <<query, row_at, match_at, sending, working, current, stream, failed>>

\* recv fails: the channel is empty and its worker has returned.
NextChannel ==
    /\ stream = "open" /\ remaining # 0 /\ current # NumWorkers
    /\ channel[current] = <<>> /\ ~working[current]
    /\ current' = NextWorker(current)
    /\ UNCHANGED <<query, workerVars, stop, offset_remaining, remaining, stream, returned,
                   failed>>

\* Mutant: dropping the stream keeps the channels open.
DropStream_KeepsChannels ==
    /\ stream \in {"open", "ended"}
    /\ stream' = "ended" /\ stop' = TRUE
    /\ UNCHANGED <<query, workerVars, current, offset_remaining, remaining, returned,
                   failed>>

\* The stream is dropped, early or at its end: the flag is set, the receivers go.
DropStream ==
    /\ stream \in {"open", "ended"}
    /\ stream' = "dropped" /\ stop' = TRUE
    /\ UNCHANGED <<query, workerVars, current, offset_remaining, remaining, returned,
                   failed>>

WorkerStep(w) ==
    WorkerStops(w) \/ WorkerReads(w) \/ WorkerOffers(w) \/ WorkerSends(w) \/ WorkerFails(w)
Pull == NextIsNone \/ NextIsRow \/ NextChannel

ParallelNext == (\E w \in AllWorkers : WorkerStep(w)) \/ Pull \/ DropStream

\* Threads run; whoever has the stream pulls it to its end and drops it then.
ParallelFairness ==
    /\ \A w \in AllWorkers : WF_parallelVars(WorkerStep(w))
    /\ WF_parallelVars(Pull) /\ WF_parallelVars(stream = "ended" /\ DropStream)

ParallelSpec == ParallelInit /\ [][ParallelNext]_parallelVars /\ ParallelFairness

-----------------------------------------------------------------------------
(* Properties *)

\* What the serial scan or join gives in key order, if no expression fails; and the
\* window of LIMIT and OFFSET.
SerialRows == FlattenSeq([r \in DOMAIN AllRows |-> [m \in 1..AllRows[r] |-> <<r, m>>]])
SerialAnswer ==
    SubSeq(SerialRows, query.offset + 1,
           IF query.limit = NoLimit THEN Len(SerialRows)
           ELSE Min({Len(SerialRows), query.offset + query.limit}))
Evaluates == ErrorRow \notin Range(AllRows)

\* Unless a worker fails, or an expression does, the stream hands out what the serial
\* path would: in key order, each row once, cut to LIMIT and OFFSET, and nothing is
\* missing when it ends (try_parallel_scan, try_parallel_hash_join, RowStream::next).
SameAsSerial ==
    ~failed /\ Evaluates /\ ~WhereFails(query) =>
        /\ IsPrefix(returned, SerialAnswer)
        /\ stream = "ended" => returned = SerialAnswer

\* The stream comes to an end although a slow worker holds up those behind it on
\* full channels, and then no thread stays behind: neither those blocked on a full
\* channel nor those in the middle of their range (impl Drop for ParallelSource).
WorkersReturn == <>(stream # "open" /\ \A w \in AllWorkers : ~working[w])
=============================================================================
