---------------------------- MODULE FilterSource ----------------------------
(***************************************************************************)
(* The source of PhysicalCreateFilter: once the sink is finalized, the     *)
(* chunks it stored are handed to the pipeline above.  They are cut into   *)
(* partitions, one for each thread of the scheduler; every task of that    *)
(* pipeline has a local source state, which claims one partition with an   *)
(* atomic counter on its first call and reads it to its end.               *)
(*                                                                         *)
(* How many tasks there are is the scheduler's affair (it is not part of   *)
(* the repository): MaxThreads only bounds it from above, and a pipeline   *)
(* whose sink or operators are not parallel has a single one.              *)
(***************************************************************************)
EXTENDS Integers, FiniteSets

CONSTANTS
    MaxChunks,        \* bound: chunks stored by the sink
    MaxNumThreads,    \* bound: threads of the scheduler
    Tasks             \* the tasks a pipeline may have

ASSUME BoundsAssumption == MaxChunks \in Nat /\ MaxNumThreads \in Nat \ {0}
ASSUME TasksAssumption  == IsFiniteSet(Tasks)

VARIABLES
    chunk_count,      \* chunks in total_data
    num_threads,      \* NumberOfThreads()
    tasks,            \* the tasks of the pipeline above
    partition_id,     \* the next partition to claim
    lstate,           \* CreateFilterLocalSourceState of each task
    emitted           \* how often each chunk was handed on

vars == <<chunk_count, num_threads, tasks, partition_id, lstate, emitted>>

-----------------------------------------------------------------------------
\* chunks_todo, as GetGlobalSourceState fills it: ranges of equal length, the
\* last one cut at the end, until the chunks are used up.

Stored == 0 .. chunk_count - 1

\* Mutant of chunks_per_thread: the quotient is rounded down.
chunks_per_thread_down ==
    LET per == chunk_count \div num_threads
    IN  IF per > 1 THEN per ELSE 1

chunks_per_thread ==
    LET per == (chunk_count + num_threads - 1) \div num_threads
    IN  IF per > 1 THEN per ELSE 1

\* Mutant of From: partitions are counted from one.
FromOne(p) == (p - 1) * chunks_per_thread

From(p) == p * chunks_per_thread
To(p)   == IF From(p) + chunks_per_thread < chunk_count
           THEN From(p) + chunks_per_thread ELSE chunk_count

Partitions == {p \in 0 .. num_threads - 1 : From(p) < chunk_count}

-----------------------------------------------------------------------------

NotStarted == [initial |-> TRUE, partition |-> 0, current |-> 0, to |-> 0, finished |-> FALSE]

Init ==
    /\ chunk_count \in 0 .. MaxChunks
    /\ num_threads \in 1 .. MaxNumThreads
    /\ tasks \in (SUBSET Tasks) \ {{}}
    /\ Cardinality(tasks) <= num_threads
    /\ partition_id = 0
    /\ lstate = [t \in tasks |-> NotStarted]
    /\ emitted = [c \in Stored |-> 0]

\* The state a call reads chunks from: a first call claims the next partition,
\* an empty range when there is none left.
Claimed(t) ==
    IF ~lstate[t].initial THEN lstate[t]
    ELSE [initial   |-> FALSE,
          partition |-> partition_id,
          current   |-> IF partition_id \in Partitions THEN From(partition_id) ELSE 0,
          to        |-> IF partition_id \in Partitions THEN To(partition_id) ELSE 0,
          finished  |-> FALSE]

\* Mutant of ClaimNext: the counter is read and not advanced.
ClaimSame(t) == UNCHANGED partition_id

ClaimNext(t) ==
    partition_id' = IF lstate[t].initial THEN partition_id + 1 ELSE partition_id

\* GetDataInternal with a chunk to return.
FetchChunk(t) ==
    /\ ~lstate[t].finished
    /\ Claimed(t).current < Claimed(t).to
    /\ emitted' = [emitted EXCEPT ![Claimed(t).current] = @ + 1]
    /\ lstate' = [lstate EXCEPT ![t] = [Claimed(t) EXCEPT !.current = @ + 1]]
    /\ ClaimNext(t)
    /\ UNCHANGED <<chunk_count, num_threads, tasks>>

\* Mutant of Finished: a call without a chunk asks to be called again.
AskAgain(t) ==
    /\ ~lstate[t].finished
    /\ Claimed(t).current >= Claimed(t).to
    /\ lstate' = [lstate EXCEPT ![t] = Claimed(t)]
    /\ ClaimNext(t)
    /\ UNCHANGED <<chunk_count, num_threads, tasks, emitted>>

\* GetDataInternal at the end of its partition: the task does not call again.
Finished(t) ==
    /\ ~lstate[t].finished
    /\ Claimed(t).current >= Claimed(t).to
    /\ lstate' = [lstate EXCEPT ![t] = [Claimed(t) EXCEPT !.finished = TRUE]]
    /\ ClaimNext(t)
    /\ UNCHANGED <<chunk_count, num_threads, tasks, emitted>>

Next == \E t \in tasks : FetchChunk(t) \/ Finished(t)

\* The scheduler runs each of its tasks to the end.
Fairness == \A t \in Tasks : WF_vars(t \in tasks /\ (FetchChunk(t) \/ Finished(t)))

Spec == Init /\ [][Next]_vars
FairSpec == Spec /\ Fairness

-----------------------------------------------------------------------------

LocalStates == [initial : BOOLEAN, partition : Nat, current : Nat, to : Nat, finished : BOOLEAN]

TypeOK ==
    /\ chunk_count \in 0 .. MaxChunks
    /\ num_threads \in 1 .. MaxNumThreads
    /\ tasks \subseteq Tasks
    /\ partition_id \in Nat
    /\ lstate \in [tasks -> LocalStates]
    /\ emitted \in [Stored -> Nat]

\* However the claims of the tasks interleave, and however unevenly the chunks
\* divide among the threads, no chunk is handed on twice
\* (physical_create_filter.cpp:617, :667).
EmittedAtMostOnce == \A c \in Stored : emitted[c] <= 1

AllFinished == \A t \in tasks : lstate[t].finished

\* When there is a task for every partition, all chunks are handed on.  With
\* fewer tasks they are not: a task reads one partition only
\* (physical_create_filter.cpp:641-669).
EmittedWhenClaimed ==
    AllFinished /\ Cardinality(tasks) >= Cardinality(Partitions) =>
        \A c \in Stored : emitted[c] = 1

\* Every task ends.
SourceTerminates == <>[]AllFinished

=============================================================================
