------------------------- MODULE FilterSourceProofs -------------------------
(***************************************************************************)
(* Proofs about FilterSource, for any number of chunks, threads and tasks. *)
(***************************************************************************)
EXTENDS FilterSource, FiniteSetTheorems, TLAPS

-----------------------------------------------------------------------------
\* Arithmetic of the partitions.

\* Multiplication preserves order.
LEMMA TimesMonotone ==
    ASSUME NEW a \in Nat, NEW b \in Nat, NEW k \in Nat, a <= b
    PROVE  a * k <= b * k
<1>1. PICK d \in Nat : b = a + d
  <2>1. b - a \in Nat /\ b = a + (b - a)  OBVIOUS
  <2> QED  BY <2>1
<1>2. b * k = a * k + d * k  BY <1>1
<1>3. d * k \in Nat /\ a * k \in Nat  OBVIOUS
<1> QED  BY <1>2, <1>3

\* Division with remainder.
LEMMA DivisionFacts ==
    ASSUME NEW a \in Nat, NEW b \in Nat \ {0}
    PROVE  /\ a \div b \in Nat
           /\ (a \div b) * b <= a
           /\ a < (a \div b) * b + b
  OBVIOUS

\* A partition is at least one chunk long, and the partitions of all threads
\* are long enough for all chunks.
LEMMA PartitionLength ==
    ASSUME chunk_count \in Nat, num_threads \in Nat \ {0}
    PROVE  /\ chunks_per_thread \in Nat \ {0}
           /\ chunk_count <= num_threads * chunks_per_thread
<1> DEFINE ceil == (chunk_count + num_threads - 1) \div num_threads
<1>1. chunk_count + num_threads - 1 \in Nat  OBVIOUS
<1>2. /\ ceil \in Nat
      /\ chunk_count + num_threads - 1 < ceil * num_threads + num_threads
  BY <1>1, DivisionFacts
<1>3. chunks_per_thread \in Nat \ {0} /\ ceil <= chunks_per_thread
  BY <1>2 DEF chunks_per_thread
<1>4. ceil * num_threads <= chunks_per_thread * num_threads
  BY <1>2, <1>3, TimesMonotone
<1>5. chunk_count <= ceil * num_threads  BY <1>2
<1>6. chunks_per_thread * num_threads = num_threads * chunks_per_thread  BY <1>3
<1> QED  BY <1>2, <1>3, <1>4, <1>5, <1>6

\* Every stored chunk lies in a partition.
LEMMA PartitionsCover ==
    ASSUME chunk_count \in Nat, num_threads \in Nat \ {0}, NEW c \in Stored
    PROVE  \E p \in Partitions : From(p) <= c /\ c < To(p)
<1> DEFINE k == chunks_per_thread
           p == c \div k
<1>1. k \in Nat \ {0} /\ chunk_count <= num_threads * k  BY PartitionLength
<1>2. c \in Nat /\ c < chunk_count  BY DEF Stored
<1>3. p \in Nat /\ p * k <= c /\ c < p * k + k  BY <1>1, <1>2, DivisionFacts
<1> HIDE DEF k, p
<1>4. p < num_threads
  <2> SUFFICES ASSUME num_threads <= p PROVE FALSE  BY <1>3
  <2>1. num_threads * k <= p * k  BY <1>1, <1>3, TimesMonotone
  <2>2. num_threads * k \in Nat /\ p * k \in Nat  BY <1>1, <1>3
  <2> QED  BY <1>1, <1>2, <1>3, <2>1, <2>2
<1>5. From(p) = p * k /\ p * k \in Nat  BY <1>1, <1>3 DEF From, k
<1>6. p \in Partitions  BY <1>2, <1>3, <1>4, <1>5 DEF Partitions
<1>7. c < To(p)  BY <1>1, <1>2, <1>3, <1>5 DEF To, k
<1> QED  BY <1>3, <1>5, <1>6, <1>7

\* Partitions are ranges of stored chunks, one after the other.
LEMMA PartitionsAreRanges ==
    ASSUME chunk_count \in Nat, num_threads \in Nat \ {0},
           NEW p \in Nat
    PROVE  /\ From(p) \in Nat
           /\ To(p) \in Nat
           /\ To(p) <= chunk_count
           /\ p \in Partitions => From(p) <= To(p)
           /\ \A q \in Nat : p < q => To(p) <= From(q)
<1> DEFINE k == chunks_per_thread
<1>1. k \in Nat \ {0}  BY PartitionLength
<1>2. p * k \in Nat  BY <1>1
<1>3. From(p) = p * k  BY DEF From
<1>4. To(p) = IF p * k + k < chunk_count THEN p * k + k ELSE chunk_count  BY DEF To, From
<1> HIDE DEF k
<1>5. p \in Partitions => From(p) <= To(p)  BY <1>1, <1>2, <1>3, <1>4 DEF Partitions
<1>6. ASSUME NEW q \in Nat, p < q
      PROVE  To(p) <= From(q)
  <2>1. (p + 1) * k <= q * k  BY <1>1, <1>6, TimesMonotone
  <2>2. (p + 1) * k = p * k + k  BY <1>1
  <2>3. From(q) = q * k /\ q * k \in Nat  BY <1>1 DEF From, k
  <2> QED  BY <1>1, <1>2, <1>4, <2>1, <2>2, <2>3
<1> QED  BY <1>1, <1>2, <1>3, <1>4, <1>5, <1>6

-----------------------------------------------------------------------------
\* The inductive invariant.

\* The tasks that have made their claim.
Started == {t \in tasks : ~lstate[t].initial}

\* Claims are the values the counter has had, each taken by one task.
ClaimsDistinct ==
    /\ \A t \in Started : lstate[t].partition < partition_id
    /\ \A t, u \in Started : lstate[t].partition = lstate[u].partition => t = u

\* A task reads within its partition; a task that has not started has not ended,
\* and one that has ended has read all of its partition.
WithinPartition(ls) ==
    IF ls.partition \in Partitions
    THEN /\ From(ls.partition) <= ls.current
         /\ ls.current <= ls.to
         /\ ls.to = To(ls.partition)
    ELSE ls.current = 0 /\ ls.to = 0

ReadsInPartition ==
    /\ \A t \in Started : WithinPartition(lstate[t])
    /\ \A t \in tasks : lstate[t].finished =>
            ~lstate[t].initial /\ lstate[t].current >= lstate[t].to

\* The chunks a task has handed on.
HandedOn(t) ==
    {c \in Stored : /\ ~lstate[t].initial
                    /\ lstate[t].partition \in Partitions
                    /\ From(lstate[t].partition) <= c
                    /\ c < lstate[t].current}

\* A chunk has been handed on once if some task has read past it.
EmittedOnceRead ==
    \A c \in Stored : emitted[c] = IF \E t \in tasks : c \in HandedOn(t) THEN 1 ELSE 0

\* The values the counter has had were all claimed.
ClaimsTaken == \A p \in 0 .. partition_id - 1 : \E t \in Started : lstate[t].partition = p

SourceInv == TypeOK /\ ClaimsDistinct /\ ClaimsTaken /\ ReadsInPartition /\ EmittedOnceRead

\* What a call works on is a claimed range no other task reads.
LEMMA ClaimedFacts ==
    ASSUME SourceInv, NEW t \in tasks
    PROVE  /\ Claimed(t) \in LocalStates
           /\ ~Claimed(t).initial
           /\ Claimed(t).partition < IF lstate[t].initial THEN partition_id + 1 ELSE partition_id
           /\ \A u \in Started : u # t => lstate[u].partition # Claimed(t).partition
           /\ WithinPartition(Claimed(t))
           /\ HandedOn(t) = {c \in Stored : /\ Claimed(t).partition \in Partitions
                                            /\ From(Claimed(t).partition) <= c
                                            /\ c < Claimed(t).current}
<1>1. chunk_count \in Nat /\ num_threads \in Nat \ {0} /\ partition_id \in Nat
      /\ lstate[t] \in LocalStates
  BY BoundsAssumption DEF SourceInv, TypeOK
<1>2. CASE ~lstate[t].initial
  <2>1. Claimed(t) = lstate[t] /\ t \in Started  BY <1>2 DEF Claimed, Started
  <2> QED  BY <1>1, <1>2, <2>1 DEF SourceInv, ClaimsDistinct, ReadsInPartition, HandedOn
<1>3. CASE lstate[t].initial
  <2> DEFINE p == partition_id
  <2>1. Claimed(t) = [initial   |-> FALSE,
                      partition |-> p,
                      current   |-> IF p \in Partitions THEN From(p) ELSE 0,
                      to        |-> IF p \in Partitions THEN To(p) ELSE 0,
                      finished  |-> FALSE]
    BY <1>3 DEF Claimed
  <2>2. From(p) \in Nat /\ To(p) \in Nat /\ (p \in Partitions => From(p) <= To(p))
    BY <1>1, PartitionsAreRanges
  <2> HIDE DEF p
  <2>3. Claimed(t) \in LocalStates  BY <1>1, <2>1, <2>2 DEF LocalStates, p
  <2>4. HandedOn(t) = {}  BY <1>3 DEF HandedOn
  <2>5. {c \in Stored : /\ Claimed(t).partition \in Partitions
                        /\ From(Claimed(t).partition) <= c
                        /\ c < Claimed(t).current} = {}
    BY <2>1, <2>2, <1>1 DEF Stored
  <2>6. \A u \in Started : lstate[u].partition # p
    <3> SUFFICES ASSUME NEW u \in Started PROVE lstate[u].partition # p  OBVIOUS
    <3>1. lstate[u].partition < p  BY DEF SourceInv, ClaimsDistinct, p
    <3>2. u \in tasks  BY DEF Started
    <3>3. lstate[u] \in LocalStates  BY <3>2 DEF SourceInv, TypeOK
    <3> QED  BY <1>1, <3>1, <3>3 DEF LocalStates, p
  <2>7. p < p + 1  BY <1>1 DEF p
  <2> QED  BY <1>3, <2>1, <2>2, <2>3, <2>4, <2>5, <2>6, <2>7 DEF p, WithinPartition
<1> QED  BY <1>2, <1>3

\* The next chunk of a call has not been handed on by any task.
LEMMA NextChunkIsNew ==
    ASSUME SourceInv, NEW t \in tasks, Claimed(t).current < Claimed(t).to
    PROVE  /\ Claimed(t).partition \in Partitions
           /\ Claimed(t).current \in Stored
           /\ \A u \in tasks : Claimed(t).current \notin HandedOn(u)
<1> DEFINE p == Claimed(t).partition
           c == Claimed(t).current
<1>1. chunk_count \in Nat /\ num_threads \in Nat \ {0}
  BY BoundsAssumption DEF SourceInv, TypeOK
<1>2. p \in Partitions
  <2>1. p \notin Partitions => c = 0 /\ Claimed(t).to = 0  BY ClaimedFacts DEF WithinPartition
  <2> QED  BY <2>1
<1>3. p \in Nat /\ From(p) \in Nat /\ To(p) <= chunk_count /\ To(p) \in Nat
      /\ From(p) <= c /\ c < To(p) /\ c \in Nat
  <2>1. p \in Nat /\ c \in Nat  BY ClaimedFacts DEF LocalStates
  <2>2. From(p) <= c /\ Claimed(t).to = To(p)  BY <1>2, ClaimedFacts DEF WithinPartition
  <2> QED  BY <1>1, <2>1, <2>2, PartitionsAreRanges
<1>4. c \in Stored  BY <1>1, <1>3 DEF Stored
<1>5. ASSUME NEW u \in tasks, c \in HandedOn(u)
      PROVE  FALSE
  <2>1. CASE u = t
    <3>1. c < c  BY <1>5, <2>1, ClaimedFacts
    <3> QED  BY <1>3, <3>1
  <2>2. CASE u # t
    <3> DEFINE q == lstate[u].partition
    <3>1. u \in Started /\ q \in Partitions /\ From(q) <= c /\ c < lstate[u].current
      BY <1>5 DEF HandedOn, Started
    <3>2. lstate[u].current <= To(q)
      BY <3>1 DEF SourceInv, ReadsInPartition, WithinPartition
    <3>3. q \in Nat /\ lstate[u].current \in Nat
      BY DEF SourceInv, TypeOK, LocalStates
    <3>4. q # p  BY <2>2, <3>1, ClaimedFacts
    <3>5. From(q) \in Nat /\ To(q) \in Nat
          /\ (q < p => To(q) <= From(p)) /\ (p < q => To(p) <= From(q))
      BY <1>1, <1>3, <3>3, PartitionsAreRanges
    <3> QED  BY <1>3, <3>1, <3>2, <3>3, <3>4, <3>5
  <2> QED  BY <2>1, <2>2
<1> QED  BY <1>2, <1>4, <1>5

\* A call changes one local state, to `new`, which keeps the claim of the call.
LEMMA CallKeepsClaims ==
    ASSUME SourceInv, NEW t \in tasks, NEW new \in LocalStates,
           ~new.initial, new.partition = Claimed(t).partition,
           lstate' = [lstate EXCEPT ![t] = new], ClaimNext(t),
           UNCHANGED <<chunk_count, num_threads, tasks>>
    PROVE  /\ partition_id' \in Nat
           /\ lstate' \in [tasks' -> LocalStates]
           /\ lstate'[t] = new
           /\ \A u \in tasks : u # t => lstate'[u] = lstate[u]
           /\ Started' = Started \cup {t}
           /\ ClaimsDistinct'
           /\ ClaimsTaken'
<1>1. /\ partition_id \in Nat
      /\ lstate \in [tasks -> LocalStates]
  BY DEF SourceInv, TypeOK
<1>2. partition_id' \in Nat /\ partition_id <= partition_id'
      /\ Claimed(t).partition < partition_id'
  BY <1>1, ClaimedFacts DEF ClaimNext
<1>3. lstate' \in [tasks' -> LocalStates] /\ lstate'[t] = new
      /\ \A u \in tasks : u # t => lstate'[u] = lstate[u]
  BY <1>1
<1>4. Started' = Started \cup {t}
  BY <1>3 DEF Started
<1>5. \A u \in Started' : lstate'[u].partition < partition_id'
  <2> SUFFICES ASSUME NEW u \in Started'
               PROVE  lstate'[u].partition < partition_id'
    OBVIOUS
  <2>1. CASE u = t  BY <1>2, <1>3, <2>1
  <2>2. CASE u # t
    <3>1. u \in Started /\ u \in tasks  BY <1>4, <2>2 DEF Started
    <3>2. lstate[u].partition < partition_id  BY <3>1 DEF SourceInv, ClaimsDistinct
    <3>3. lstate[u].partition \in Nat  BY <1>1, <3>1 DEF LocalStates
    <3> QED  BY <1>1, <1>2, <1>3, <2>2, <3>1, <3>2, <3>3
  <2> QED  BY <2>1, <2>2
<1>6. ASSUME NEW u \in Started', NEW w \in Started',
             lstate'[u].partition = lstate'[w].partition
      PROVE  u = w
  <2>1. \A x \in Started : x # t => lstate[x].partition # new.partition  BY ClaimedFacts
  <2>2. \A x \in Started : x \in tasks  BY DEF Started
  <2>3. CASE u = t  BY <1>3, <1>4, <1>6, <2>1, <2>2, <2>3
  <2>4. CASE w = t  BY <1>3, <1>4, <1>6, <2>1, <2>2, <2>4
  <2>5. CASE u # t /\ w # t
    <3>1. u \in Started /\ w \in Started  BY <1>4, <2>5
    <3> QED  BY <1>3, <1>6, <2>2, <2>5, <3>1 DEF SourceInv, ClaimsDistinct
  <2> QED  BY <2>3, <2>4, <2>5
<1>7. ClaimsDistinct'  BY <1>5, <1>6 DEF ClaimsDistinct
<1>8. ASSUME NEW p \in 0 .. partition_id' - 1
      PROVE  \E u \in Started' : lstate'[u].partition = p
  <2>1. CASE p < partition_id
    <3>1. p \in 0 .. partition_id - 1  BY <1>1, <1>2, <2>1
    <3>2. PICK u \in Started : lstate[u].partition = p
      BY <3>1 DEF SourceInv, ClaimsTaken
    <3>3. u \in tasks /\ u \in Started'  BY <1>4 DEF Started
    <3>4. CASE u = t
      <4>1. Claimed(t) = lstate[t]  BY <3>2, <3>4 DEF Started, Claimed
      <4> QED  BY <1>3, <3>2, <3>3, <3>4, <4>1
    <3>5. CASE u # t  BY <1>3, <3>2, <3>3, <3>5
    <3> QED  BY <3>4, <3>5
  <2>2. CASE ~(p < partition_id)
    <3>1. lstate[t].initial /\ p = partition_id  BY <1>1, <1>2, <2>2 DEF ClaimNext
    <3>2. Claimed(t).partition = partition_id  BY <3>1 DEF Claimed
    <3> QED  BY <1>3, <1>4, <3>1, <3>2
  <2> QED  BY <2>1, <2>2
<1>9. ClaimsTaken'  BY <1>8 DEF ClaimsTaken
<1> QED  BY <1>2, <1>3, <1>4, <1>7, <1>9

\* The partitions do not change.
LEMMA PartitionsUnchanged ==
    ASSUME UNCHANGED <<chunk_count, num_threads>>
    PROVE  /\ Stored' = Stored /\ Partitions' = Partitions
           /\ \A p : From(p)' = From(p) /\ To(p)' = To(p)
  BY DEF Stored, Partitions, From, To, chunks_per_thread

\* A range that lies in its partition still does after a call.
LEMMA WithinPartitionNext ==
    ASSUME UNCHANGED <<chunk_count, num_threads>>, NEW u
    PROVE  WithinPartition(lstate[u])' <=> WithinPartition(lstate'[u])
  BY DEF WithinPartition, Partitions, From, To, chunks_per_thread

\* No partition has been claimed and no chunk handed on.
LEMMA InitSourceInv == Init => SourceInv
<1> SUFFICES ASSUME Init PROVE SourceInv  OBVIOUS
<1> USE DEF Init
<1>1. TypeOK  BY DEF TypeOK, NotStarted, LocalStates
<1>2. Started = {}  BY DEF Started, NotStarted
<1>3. ClaimsDistinct  BY <1>2 DEF ClaimsDistinct
<1>4. ReadsInPartition  BY <1>2 DEF ReadsInPartition, NotStarted
<1>7. ClaimsTaken  BY DEF ClaimsTaken
<1>5. \A t \in tasks : HandedOn(t) = {}  BY DEF HandedOn, NotStarted
<1>6. EmittedOnceRead  BY <1>5 DEF EmittedOnceRead
<1> QED  BY <1>1, <1>3, <1>4, <1>6, <1>7 DEF SourceInv

\* A call of GetDataInternal by any task keeps the invariant.
LEMMA NextSourceInv == SourceInv /\ [Next]_vars => SourceInv'
<1> SUFFICES ASSUME SourceInv, [Next]_vars PROVE SourceInv'  OBVIOUS
<1>1. ASSUME NEW t \in tasks, FetchChunk(t)
      PROVE  SourceInv'
  <2> DEFINE old == Claimed(t)
             new == [Claimed(t) EXCEPT !.current = @ + 1]
             p == old.partition
  <2>1. /\ old.current < old.to
        /\ emitted' = [emitted EXCEPT ![old.current] = @ + 1]
        /\ lstate' = [lstate EXCEPT ![t] = new]
        /\ ClaimNext(t)
        /\ UNCHANGED <<chunk_count, num_threads, tasks>>
    BY <1>1 DEF FetchChunk
  <2>2. old \in LocalStates /\ ~old.initial /\ ~old.finished
    BY <1>1, ClaimedFacts DEF FetchChunk, Claimed
  <2>3. /\ new \in LocalStates /\ ~new.initial /\ ~new.finished /\ new.partition = p
        /\ new.current = old.current + 1 /\ new.to = old.to
    BY <2>2 DEF LocalStates
  <2>4. p \in Partitions /\ old.current \in Stored
        /\ \A u \in tasks : old.current \notin HandedOn(u)
    BY <2>1, NextChunkIsNew
  <2> HIDE DEF new
  <2>5. /\ partition_id' \in Nat
        /\ lstate' \in [tasks' -> LocalStates]
        /\ lstate'[t] = new
        /\ \A u \in tasks : u # t => lstate'[u] = lstate[u]
        /\ Started' = Started \cup {t}
        /\ ClaimsDistinct'
        /\ ClaimsTaken'
    BY <2>1, <2>3, CallKeepsClaims
  <2>6. /\ Stored' = Stored /\ Partitions' = Partitions /\ tasks' = tasks
        /\ \A q : From(q)' = From(q) /\ To(q)' = To(q)
    BY <2>1, PartitionsUnchanged
  <2>7. From(p) <= old.current /\ old.to = To(p)
    BY <2>4, ClaimedFacts DEF WithinPartition
  <2>8. p \in Nat /\ old.current \in Nat /\ old.to \in Nat /\ From(p) \in Nat
    <3>1. chunk_count \in Nat /\ num_threads \in Nat \ {0}
      BY BoundsAssumption DEF SourceInv, TypeOK
    <3>2. p \in Nat  BY <2>2 DEF LocalStates
    <3> QED  BY <2>2, <3>1, <3>2, PartitionsAreRanges DEF LocalStates
  <2>9. TypeOK'
    BY <2>1, <2>4, <2>5, <2>6 DEF SourceInv, TypeOK
  <2>10. ReadsInPartition'
    <3>1. ASSUME NEW u \in Started'
          PROVE  WithinPartition(lstate'[u])
      <4>1. CASE u = t
        <5>1. From(p) <= new.current /\ new.current <= new.to
          BY <2>1, <2>3, <2>7, <2>8
        <5> QED  BY <2>3, <2>4, <2>5, <2>7, <4>1, <5>1 DEF WithinPartition
      <4>2. CASE u # t
        <5>1. u \in Started /\ u \in tasks  BY <2>5, <4>2 DEF Started
        <5> QED  BY <2>5, <4>2, <5>1 DEF SourceInv, ReadsInPartition
      <4> QED  BY <4>1, <4>2
    <3>2. \A u \in tasks' : lstate'[u].finished =>
                ~lstate'[u].initial /\ lstate'[u].current >= lstate'[u].to
      BY <2>3, <2>5, <2>6 DEF SourceInv, ReadsInPartition
    <3> QED  BY <2>1, <3>1, <3>2, WithinPartitionNext DEF ReadsInPartition
  <2>11. \A u \in tasks : HandedOn(u)' = HandedOn(u) \cup (IF u = t THEN {old.current} ELSE {})
    <3> SUFFICES ASSUME NEW u \in tasks
                 PROVE  HandedOn(u)' = HandedOn(u) \cup (IF u = t THEN {old.current} ELSE {})
      OBVIOUS
    <3>1. CASE u = t
      <4>1. HandedOn(t) = {c \in Stored : From(p) <= c /\ c < old.current}
        BY <2>4, ClaimedFacts
      <4>2. HandedOn(t)' = {c \in Stored : From(p) <= c /\ c < old.current + 1}
        BY <2>3, <2>4, <2>5, <2>6 DEF HandedOn
      <4>3. \A c \in Stored : c < old.current + 1 <=> c < old.current \/ c = old.current
        BY <2>8 DEF Stored
      <4> QED  BY <2>4, <2>7, <3>1, <4>1, <4>2, <4>3
    <3>2. CASE u # t  BY <2>5, <2>6, <3>2 DEF HandedOn
    <3> QED  BY <3>1, <3>2
  <2>12. EmittedOnceRead'
    <3> SUFFICES ASSUME NEW c \in Stored
                 PROVE  emitted'[c] = IF \E u \in tasks : c \in HandedOn(u)' THEN 1 ELSE 0
      BY <2>6 DEF EmittedOnceRead
    <3>1. emitted \in [Stored -> Nat]  BY DEF SourceInv, TypeOK
    <3>2. emitted[c] = IF \E u \in tasks : c \in HandedOn(u) THEN 1 ELSE 0
      BY DEF SourceInv, EmittedOnceRead
    <3>3. CASE c = old.current
      <4>1. emitted[c] = 0  BY <2>4, <3>2, <3>3
      <4>2. emitted'[c] = 1  BY <2>1, <2>4, <3>1, <3>3, <4>1
      <4>3. c \in HandedOn(t)'  BY <2>11, <3>3
      <4> QED  BY <4>2, <4>3
    <3>4. CASE c # old.current
      <4>1. emitted'[c] = emitted[c]  BY <2>1, <3>1, <3>4
      <4>2. \A u \in tasks : c \in HandedOn(u)' <=> c \in HandedOn(u)  BY <2>11, <3>4
      <4> QED  BY <3>2, <4>1, <4>2
    <3> QED  BY <3>3, <3>4
  <2> QED  BY <2>5, <2>9, <2>10, <2>12 DEF SourceInv
<1>2. ASSUME NEW t \in tasks, Finished(t)
      PROVE  SourceInv'
  <2> DEFINE old == Claimed(t)
             new == [Claimed(t) EXCEPT !.finished = TRUE]
             p == old.partition
  <2>1. /\ old.current >= old.to
        /\ emitted' = emitted
        /\ lstate' = [lstate EXCEPT ![t] = new]
        /\ ClaimNext(t)
        /\ UNCHANGED <<chunk_count, num_threads, tasks>>
    BY <1>2 DEF Finished
  <2>2. old \in LocalStates /\ ~old.initial  BY ClaimedFacts
  <2>3. /\ new \in LocalStates /\ ~new.initial /\ new.partition = p
        /\ new.current = old.current /\ new.to = old.to
    BY <2>2 DEF LocalStates
  <2> HIDE DEF new
  <2>4. /\ partition_id' \in Nat
        /\ lstate' \in [tasks' -> LocalStates]
        /\ lstate'[t] = new
        /\ \A u \in tasks : u # t => lstate'[u] = lstate[u]
        /\ Started' = Started \cup {t}
        /\ ClaimsDistinct'
        /\ ClaimsTaken'
    BY <2>1, <2>3, CallKeepsClaims
  <2>5. /\ Stored' = Stored /\ Partitions' = Partitions /\ tasks' = tasks
        /\ \A q : From(q)' = From(q) /\ To(q)' = To(q)
    BY <2>1, PartitionsUnchanged
  <2>6. TypeOK'
    BY <2>1, <2>4, <2>5 DEF SourceInv, TypeOK
  <2>7. ReadsInPartition'
    <3>1. ASSUME NEW u \in Started'
          PROVE  WithinPartition(lstate'[u])
      <4>1. CASE u = t  BY <2>3, <2>4, <4>1, ClaimedFacts DEF WithinPartition
      <4>2. CASE u # t
        <5>1. u \in Started /\ u \in tasks  BY <2>4, <4>2 DEF Started
        <5> QED  BY <2>4, <4>2, <5>1 DEF SourceInv, ReadsInPartition
      <4> QED  BY <4>1, <4>2
    <3>2. \A u \in tasks' : lstate'[u].finished =>
                ~lstate'[u].initial /\ lstate'[u].current >= lstate'[u].to
      BY <2>1, <2>3, <2>4, <2>5 DEF SourceInv, ReadsInPartition
    <3> QED  BY <2>1, <3>1, <3>2, WithinPartitionNext DEF ReadsInPartition
  <2>8. \A u \in tasks : HandedOn(u)' = HandedOn(u)
    <3> SUFFICES ASSUME NEW u \in tasks PROVE HandedOn(u)' = HandedOn(u)  OBVIOUS
    <3>1. CASE u = t
      <4>1. HandedOn(t) = {c \in Stored : /\ p \in Partitions /\ From(p) <= c
                                          /\ c < old.current}
        BY ClaimedFacts
      <4>2. HandedOn(t)' = {c \in Stored : /\ p \in Partitions /\ From(p) <= c
                                           /\ c < old.current}
        BY <2>3, <2>4, <2>5 DEF HandedOn
      <4> QED  BY <3>1, <4>1, <4>2
    <3>2. CASE u # t  BY <2>4, <2>5, <3>2 DEF HandedOn
    <3> QED  BY <3>1, <3>2
  <2>9. EmittedOnceRead'
    BY <2>1, <2>5, <2>8 DEF SourceInv, EmittedOnceRead
  <2> QED  BY <2>4, <2>6, <2>7, <2>9 DEF SourceInv
<1>3. CASE UNCHANGED vars
  <2> USE <1>3 DEF vars
  <2>1. /\ Stored' = Stored /\ Partitions' = Partitions
        /\ \A q : From(q)' = From(q) /\ To(q)' = To(q)
    BY PartitionsUnchanged
  <2>2. TypeOK'  BY <2>1 DEF SourceInv, TypeOK
  <2>3. ClaimsDistinct'  BY DEF SourceInv, ClaimsDistinct, Started
  <2>7. ClaimsTaken'  BY DEF SourceInv, ClaimsTaken, Started
  <2>4. ReadsInPartition'
    BY <2>1, WithinPartitionNext DEF SourceInv, ReadsInPartition, Started
  <2>5. \A u \in tasks : HandedOn(u)' = HandedOn(u)  BY <2>1 DEF HandedOn
  <2>6. EmittedOnceRead'  BY <2>1, <2>5 DEF SourceInv, EmittedOnceRead
  <2> QED  BY <2>2, <2>3, <2>4, <2>6, <2>7 DEF SourceInv
<1> QED  BY <1>1, <1>2, <1>3 DEF Next

\* The invariant about claims and chunks holds throughout.
LEMMA SourceInvariant == Spec => []SourceInv
  BY InitSourceInv, NextSourceInv, PTL DEF Spec

\* The state of a CREATE_FILTER source has its type (GetGlobalSourceState,
\* GetDataInternal).
THEOREM SourceTypeCorrect == Spec => []TypeOK
<1>1. SourceInv => TypeOK  BY DEF SourceInv
<1> QED  BY <1>1, SourceInvariant, PTL

\* No chunk is handed on twice, for any number of chunks, threads and tasks and
\* any interleaving of their claims (GetDataInternal).
THEOREM SourceEmitsAtMostOnce == Spec => []EmittedAtMostOnce
<1>1. SourceInv => EmittedAtMostOnce
  BY DEF SourceInv, EmittedOnceRead, EmittedAtMostOnce
<1> QED  BY <1>1, SourceInvariant, PTL

-----------------------------------------------------------------------------
\* Nothing is left over when there is a task for every partition.

\* The tasks have made at most as many claims as the counter has had values.
LEMMA ClaimsCounted ==
    ASSUME SourceInv, AllFinished, Cardinality(tasks) >= Cardinality(Partitions),
           NEW p \in Partitions
    PROVE  p < partition_id
<1>1. /\ partition_id \in Nat /\ num_threads \in Nat \ {0} /\ chunk_count \in Nat
      /\ tasks \subseteq Tasks
      /\ lstate \in [tasks -> LocalStates]
  BY BoundsAssumption DEF SourceInv, TypeOK
<1>2. IsFiniteSet(tasks)  BY <1>1, TasksAssumption, FS_Subset
<1>3. Started = tasks  BY DEF SourceInv, ReadsInPartition, AllFinished, Started
<1> DEFINE claims == 0 .. partition_id - 1
           f == [t \in tasks |-> lstate[t].partition]
<1>4. IsFiniteSet(claims) /\ Cardinality(claims) = partition_id
  <2>1. 0 \in Int /\ partition_id - 1 \in Int  BY <1>1
  <2> QED  BY <1>1, <2>1, FS_Interval
<1>5. f \in Injection(tasks, claims)
  <2>1. ASSUME NEW t \in tasks PROVE f[t] \in claims
    <3>1. lstate[t].partition < partition_id  BY <1>3 DEF SourceInv, ClaimsDistinct
    <3>2. lstate[t].partition \in Nat  BY <1>1 DEF LocalStates
    <3> QED  BY <1>1, <3>1, <3>2
  <2>2. f \in [tasks -> claims]  BY <2>1
  <2>3. \A t, u \in tasks : f[t] = f[u] => t = u  BY <1>3 DEF SourceInv, ClaimsDistinct
  <2> QED  BY <2>2, <2>3 DEF Injection, IsInjective
<1>6. Cardinality(tasks) <= partition_id
  BY <1>2, <1>4, <1>5, FS_Injection
<1>7. IsFiniteSet(Partitions)
  <2>1. 0 \in Int /\ num_threads - 1 \in Int  BY <1>1
  <2>2. IsFiniteSet(0 .. num_threads - 1)  BY <2>1, FS_Interval
  <2> QED  BY <2>2, FS_Subset DEF Partitions
<1>8. p \in Nat /\ 0 .. p \subseteq Partitions
  <2>1. p \in Nat /\ p <= num_threads - 1 /\ From(p) < chunk_count  BY <1>1 DEF Partitions
  <2>2. ASSUME NEW q \in 0 .. p PROVE q \in Partitions
    <3>1. q \in Nat /\ q <= p  BY <2>1
    <3>2. chunks_per_thread \in Nat \ {0}  BY <1>1, PartitionLength
    <3>3. q * chunks_per_thread <= p * chunks_per_thread  BY <2>1, <3>1, <3>2, TimesMonotone
    <3>4. From(q) \in Nat /\ From(p) \in Nat /\ From(q) <= From(p)
      <4>1. From(q) \in Nat /\ From(p) \in Nat  BY <1>1, <2>1, <3>1, PartitionsAreRanges
      <4> QED  BY <3>3, <4>1 DEF From
    <3> QED  BY <1>1, <2>1, <3>1, <3>4 DEF Partitions
  <2> QED  BY <2>1, <2>2
<1>9. Cardinality(0 .. p) = p + 1 /\ IsFiniteSet(0 .. p)
  <2>1. 0 \in Int /\ p \in Int  BY <1>8
  <2> QED  BY <1>8, <2>1, FS_Interval
<1>10. p + 1 <= Cardinality(Partitions)
  BY <1>7, <1>8, <1>9, FS_Subset
<1>11. Cardinality(Partitions) \in Nat /\ Cardinality(tasks) \in Nat
  BY <1>2, <1>7, FS_CardinalityType
<1> QED  BY <1>1, <1>6, <1>8, <1>10, <1>11

\* When there is a task for every partition, each chunk is handed on exactly once
\* by the time the tasks have ended (GetGlobalSourceState, GetDataInternal).
THEOREM SourceEmitsAll == Spec => []EmittedWhenClaimed
<1>1. SourceInv => EmittedWhenClaimed
  <2> SUFFICES ASSUME SourceInv, AllFinished, Cardinality(tasks) >= Cardinality(Partitions),
                      NEW c \in Stored
               PROVE  emitted[c] = 1
    BY DEF EmittedWhenClaimed
  <2>1. chunk_count \in Nat /\ num_threads \in Nat \ {0} /\ partition_id \in Nat
    BY BoundsAssumption DEF SourceInv, TypeOK
  <2>2. PICK p \in Partitions : From(p) <= c /\ c < To(p)
    BY <2>1, PartitionsCover
  <2>3. p \in 0 .. partition_id - 1
    <3>1. p \in Nat  BY <2>1 DEF Partitions
    <3> QED  BY <2>1, <3>1, ClaimsCounted
  <2>4. PICK t \in Started : lstate[t].partition = p
    BY <2>3 DEF SourceInv, ClaimsTaken
  <2>5. t \in tasks /\ ~lstate[t].initial  BY DEF Started
  <2>6. lstate[t].current >= lstate[t].to
    BY <2>5 DEF AllFinished, SourceInv, ReadsInPartition
  <2>7. lstate[t].to = To(p)
    BY <2>4 DEF SourceInv, ReadsInPartition, WithinPartition
  <2>8. lstate[t].current \in Nat /\ lstate[t].to \in Nat
    BY <2>5 DEF SourceInv, TypeOK, LocalStates
  <2>9. c < lstate[t].current  BY <2>1, <2>2, <2>6, <2>7, <2>8 DEF Stored
  <2>10. c \in HandedOn(t)  BY <2>2, <2>4, <2>5, <2>9 DEF HandedOn
  <2> QED  BY <2>5, <2>10 DEF SourceInv, EmittedOnceRead
<1> QED  BY <1>1, SourceInvariant, PTL

=============================================================================
