-------------------------- MODULE FilterSinkProofs --------------------------
(***************************************************************************)
(* Proofs about FilterSink, for any threads, any input and any settings of *)
(* the operator and of the filters.                                        *)
(***************************************************************************)
EXTENDS FilterSink, FiniteSetTheorems, WellFoundedInduction, TLAPS

-----------------------------------------------------------------------------
\* The statistics of one chunk.

\* A finite nonempty set of numbers has a least and a greatest element.
LEMMA Extremes ==
    ASSUME NEW S \in SUBSET Nat, IsFiniteSet(S), S # {}
    PROVE  /\ Least(S) \in S    /\ \A o \in S : Least(S) <= o
           /\ Greatest(S) \in S /\ \A o \in S : Greatest(S) >= o
<1> DEFINE below(r) == {o \in S : o < r}
           above(r) == {o \in S : o > r}
           B == {below(r) : r \in S}
           A == {above(r) : r \in S}
<1>1. IsWellFoundedOn(StrictSubsetOrdering(S), SUBSET S)
  BY FS_StrictSubsetOrderingWellFounded, FS_FiniteSubsetsOfFinite
<1>2. B \subseteq SUBSET S /\ B # {} /\ A \subseteq SUBSET S /\ A # {}
  OBVIOUS
<1>3. /\ \E x \in B : \A y \in B : <<y, x>> \notin StrictSubsetOrdering(S)
      /\ \E x \in A : \A y \in A : <<y, x>> \notin StrictSubsetOrdering(S)
  <2> HIDE DEF A, B
  <2> QED  BY <1>1, <1>2, WFMin
<1>4. \E m \in S : \A o \in S : m <= o
  <2>1. PICK m \in S : \A o \in S : <<below(o), below(m)>> \notin StrictSubsetOrdering(S)
    BY <1>3
  <2>2. ASSUME NEW o \in S, o < m PROVE FALSE
    <3>1. \A x \in S : x \in Nat  OBVIOUS
    <3>2. o \in below(m) /\ o \notin below(o)  BY <2>2, <3>1
    <3>3. \A x \in below(o) : x \in below(m)  BY <2>2, <3>1
    <3>4. <<below(o), below(m)>> \in StrictSubsetOrdering(S)
      BY <3>2, <3>3 DEF StrictSubsetOrdering
    <3> QED  BY <2>1, <3>4
  <2> QED  BY <2>2
<1>5. \E m \in S : \A o \in S : m >= o
  <2>1. PICK m \in S : \A o \in S : <<above(o), above(m)>> \notin StrictSubsetOrdering(S)
    BY <1>3
  <2>2. ASSUME NEW o \in S, o > m PROVE FALSE
    <3>1. \A x \in S : x \in Nat  OBVIOUS
    <3>2. o \in above(m) /\ o \notin above(o)  BY <2>2, <3>1
    <3>3. \A x \in above(o) : x \in above(m)  BY <2>2, <3>1
    <3>4. <<above(o), above(m)>> \in StrictSubsetOrdering(S)
      BY <3>2, <3>3 DEF StrictSubsetOrdering
    <3> QED  BY <2>1, <3>4
  <2> QED  BY <2>2
<1> QED  BY <1>4, <1>5 DEF Least, Greatest

\* The min-max of a chunk is one of numbers; without NaN it bounds all values.
LEMMA ChunkFacts ==
    ASSUME input \in Inputs, NEW c \in DOMAIN input
    PROVE  /\ NonNull(input[c]) \subseteq Values
           /\ ChunkMinMax(input[c]) \in MinMaxes
           /\ NaN \notin Values => \A k \in NonNull(input[c]) :
                /\ ChunkMinMax(input[c]).has_value
                /\ ChunkMinMax(input[c]).min <= k
                /\ k <= ChunkMinMax(input[c]).max
<1> DEFINE rows  == input[c]
           here  == {i \in DOMAIN rows : rows[i] # NULL}
           first == CHOOSE i \in DOMAIN rows :
                        rows[i] # NULL /\ \A j \in DOMAIN rows : j < i => rows[j] = NULL
           plain == NonNull(rows) \ {NaN}
<1>1. rows \in Seq(Values \cup {NULL})  BY InputsAssumption
<1>2. DOMAIN rows = 1 .. Len(rows) /\ Len(rows) \in Nat  BY <1>1
<1>3. NonNull(rows) \subseteq Values /\ Values \subseteq Nat
  BY <1>1, ValuesAssumption DEF NonNull
<1>4. CASE NonNull(rows) = {}
  <2>1. ChunkMinMax(rows) = NoMinMax  BY <1>4 DEF ChunkMinMax
  <2> QED  BY <1>3, <1>4, <2>1 DEF NoMinMax, MinMaxes
<1>5. CASE NonNull(rows) # {}
  <2>1. here # {}  BY <1>5 DEF NonNull
  <2>2. IsFiniteSet(here) /\ here \in SUBSET Nat
    <3>1. IsFiniteSet(1 .. Len(rows))
      <4>1. 1 \in Int /\ Len(rows) \in Int  BY <1>2
      <4> QED  BY <4>1, FS_Interval
    <3>2. here \subseteq 1 .. Len(rows)  BY <1>2
    <3> QED  BY <3>1, <3>2, FS_Subset
  <2>3. Least(here) \in here /\ \A o \in here : Least(here) <= o  BY <2>1, <2>2, Extremes
  <2>4. first \in DOMAIN rows /\ rows[first] # NULL
    <3>1. ASSUME NEW j \in DOMAIN rows, j < Least(here)
          PROVE  rows[j] = NULL
      <4>1. j \in Nat /\ Least(here) \in Nat  BY <1>2, <2>2, <2>3
      <4>2. ~(Least(here) <= j)  BY <3>1, <4>1
      <4> QED  BY <2>3, <4>2
    <3>2. Least(here) \in DOMAIN rows /\ rows[Least(here)] # NULL  BY <2>3
    <3> QED  BY <3>1, <3>2
  <2>5. rows[first] \in NonNull(rows)  BY <2>4 DEF NonNull
  <2>6. ChunkMinMax(rows) = IF rows[first] = NaN THEN MinMax(NaN, NaN)
                            ELSE MinMax(Least(plain), Greatest(plain))
    BY <1>5 DEF ChunkMinMax
  <2> HIDE DEF first, rows
  <2>7. IsFiniteSet(plain) /\ plain \in SUBSET Nat
    BY <1>3, FiniteAssumption, FS_Subset
  <2>8. CASE rows[first] = NaN
    <3>1. ChunkMinMax(rows) = MinMax(NaN, NaN)  BY <2>6, <2>8
    <3>2. NaN \in Values  BY <1>3, <2>5, <2>8
    <3>3. MinMax(NaN, NaN) \in MinMaxes  BY NaNAssumption DEF MinMax, MinMaxes
    <3> QED  BY <1>3, <3>1, <3>2, <3>3 DEF rows
  <2>9. CASE rows[first] # NaN
    <3>1. plain # {}  BY <2>5, <2>9
    <3>2. /\ Least(plain) \in plain    /\ \A o \in plain : Least(plain) <= o
          /\ Greatest(plain) \in plain /\ \A o \in plain : Greatest(plain) >= o
      BY <2>7, <3>1, Extremes
    <3>3. ChunkMinMax(rows) = [has_value |-> TRUE, min |-> Least(plain), max |-> Greatest(plain)]
      BY <2>6, <2>9 DEF MinMax
    <3>4. ChunkMinMax(rows) \in MinMaxes  BY <2>7, <3>2, <3>3 DEF MinMaxes
    <3>5. ASSUME NaN \notin Values, NEW k \in NonNull(rows)
          PROVE  /\ ChunkMinMax(rows).has_value
                 /\ ChunkMinMax(rows).min <= k
                 /\ k <= ChunkMinMax(rows).max
      <4>1. k \in plain  BY <1>3, <3>5
      <4>2. k \in Nat /\ Least(plain) \in Nat /\ Greatest(plain) \in Nat  BY <2>7, <3>2, <4>1
      <4>3. Least(plain) <= k /\ k <= Greatest(plain)  BY <3>2, <4>1, <4>2
      <4> QED  BY <3>3, <4>3
    <3> QED  BY <1>3, <3>4, <3>5 DEF rows
  <2> QED  BY <2>8, <2>9
<1> QED  BY <1>4, <1>5

\* Widening yields bounds again, and they bound what either bounded.
LEMMA WidenFacts ==
    ASSUME NEW a \in MinMaxes, NEW b \in MinMaxes
    PROVE  /\ Widen(a, b) \in MinMaxes
           /\ \A k \in Nat : a.has_value /\ a.min <= k /\ k <= a.max =>
                Widen(a, b).has_value /\ Widen(a, b).min <= k /\ k <= Widen(a, b).max
           /\ \A k \in Nat : b.has_value /\ b.min <= k /\ k <= b.max =>
                Widen(a, b).has_value /\ Widen(a, b).min <= k /\ k <= Widen(a, b).max
  BY DEF Widen, MinMaxes, MinMax

\* Adding values keeps the type, and drops none without saying so.
LEMMA AddDistinctFacts ==
    ASSUME NEW cd \in Distincts, NEW S \in SUBSET Values
    PROVE  /\ AddDistinct(cd, S) \in Distincts
           /\ ~AddDistinct(cd, S).over_threshold =>
                ~cd.over_threshold /\ AddDistinct(cd, S).values = cd.values \cup S
  BY DEF AddDistinct, Distincts, Distinct, Overflown

\* Finitely many rows are stored.
LEMMA RowCountType ==
    ASSUME input \in Inputs, NEW chunks \in SUBSET DOMAIN input
    PROVE  RowCount(chunks) \in Nat
<1> DEFINE rowsOf == [c \in chunks |-> {c} \X DOMAIN input[c]]
           R == {{c} \X DOMAIN input[c] : c \in chunks}
<1>1. IsFiniteSet(chunks)  BY InputsAssumption, FiniteAssumption, FS_Subset
<1>2. rowsOf \in Surjection(chunks, R)  BY DEF Surjection
<1>3. IsFiniteSet(R)
  <2> HIDE DEF rowsOf, R
  <2> QED  BY <1>1, <1>2, FS_Surjection
<1>4. ASSUME NEW c \in chunks
      PROVE  IsFiniteSet({c} \X DOMAIN input[c])
  <2>1. input[c] \in Seq(Values \cup {NULL})  BY InputsAssumption
  <2>2. DOMAIN input[c] = 1 .. Len(input[c]) /\ Len(input[c]) \in Nat  BY <2>1
  <2>3. 1 \in Int /\ Len(input[c]) \in Int  BY <2>2
  <2>4. IsFiniteSet(DOMAIN input[c])  BY <2>2, <2>3, FS_Interval
  <2> QED  BY <2>4, FS_Singleton, FS_Product
<1>5. \A T \in R : IsFiniteSet(T)  BY <1>4
<1>6. IsFiniteSet(UNION R)
  <2> HIDE DEF R
  <2> QED  BY <1>3, <1>5, FS_UNION
<1>7. RowCount(chunks) = Cardinality(UNION R)  BY DEF RowCount
<1> QED  BY <1>6, <1>7, FS_CardinalityType

-----------------------------------------------------------------------------
\* The inductive invariant.

\* Every chunk of the input is waiting, held by a thread or stored, unless the
\* probe side is empty; none was made up.
ChunksAccountedFor ==
    /\ waiting \subseteq DOMAIN input
    /\ Stored \subseteq DOMAIN input
    /\ \A t \in Threads, c \in Chunks : thread[t] = Holding(c) => c \in DOMAIN input
    /\ probe_empty \/ \A c \in DOMAIN input :
            c \in waiting \/ c \in Stored \/ \E t \in Threads : thread[t] = Holding(c)

\* A thread stops before the end of the input only if the probe side is empty, and
\* leaves nothing in its local state.
ThreadsEnd ==
    /\ \A t \in Threads : thread[t] = Stopped => probe_empty
    /\ \A t \in Threads : thread[t] = Combined =>
            local[t].data = {} /\ (waiting = {} \/ probe_empty)

\* Finalize comes last and only once.
FinalizeLast ==
    /\ finalized => local_data_collections = {} /\ \A t \in Threads : thread[t] = Combined
    /\ ~finalized => total_data = {} /\ pushed = {} /\ ~bloom_filter.finalized

\* The bounds and the distinct values stand for all keys of some chunks.
Covers(mm, cd, keys) ==
    /\ \A k \in keys : mm.has_value /\ mm.min <= k /\ k <= mm.max
    /\ ~cd.over_threshold => keys \subseteq cd.values

StatisticsCover ==
    op.is_forward_pass =>
        /\ \A t \in Threads : Covers(local[t].min_max, local[t].distinct, KeysOf(local[t].data))
        /\ Covers(column_min_max, column_distinct, KeysOf(total_data \cup local_data_collections))

\* All that holds whatever the values are.
FlowInv ==
    /\ TypeOK
    /\ ChunksAccountedFor
    /\ ThreadsEnd
    /\ FinalizeLast
    /\ FlagJustified
    /\ bloom_filter.inserted = Stored

\* The states of a thread are different from each other.
LEMMA StatesDiffer ==
    /\ Idle # Stopped /\ Idle # Combined /\ Stopped # Combined
    /\ \A c : Holding(c) # Idle /\ Holding(c) # Stopped /\ Holding(c) # Combined
    /\ \A c, d : Holding(c) = Holding(d) => c = d
<1>1. /\ Idle.state = "idle" /\ Stopped.state = "stopped" /\ Combined.state = "combined"
      /\ \A c : Holding(c).state = "holding" /\ Holding(c).chunk = c
  BY DEF Idle, Stopped, Combined, Holding
<1> QED  BY <1>1

\* No chunk has been fetched, and nothing is finalized.
LEMMA InitFlowInv == Init => FlowInv
<1> SUFFICES ASSUME Init PROVE FlowInv  OBVIOUS
<1> USE DEF Init
<1>1. op.estimated_cardinality \in Nat
  BY OperatorsAssumption DEF OperatorSettings
<1>2. bloom_filter \in [inserted : SUBSET Chunks, sized_for_rows : Nat, finalized : BOOLEAN]
  <2>1. op.estimated_cardinality % UintRange \in Nat  BY <1>1, SizesAssumption
  <2> QED  BY <2>1 DEF NewBloomFilter
<1>3. EmptyLocal \in Locals /\ NoMinMax \in MinMaxes /\ Distinct({}) \in Distincts
  BY DEF EmptyLocal, Locals, NoMinMax, MinMaxes, Distinct, Distincts
<1>4. TypeOK
  BY <1>2, <1>3, InputsAssumption DEF TypeOK, ThreadStates
<1>5. Stored = {}  BY DEF Stored, EmptyLocal
<1>6. ChunksAccountedFor  BY <1>5, StatesDiffer DEF ChunksAccountedFor
<1>7. ThreadsEnd  BY StatesDiffer DEF ThreadsEnd
<1>8. FinalizeLast /\ bloom_filter.inserted = {}  BY DEF FinalizeLast, NewBloomFilter
<1> QED  BY <1>4, <1>5, <1>6, <1>7, <1>8 DEF FlowInv, FlagJustified

\* Fetching a chunk moves it from the input to the thread.
LEMMA SinkStartFlow ==
    ASSUME FlowInv, NEW t \in Threads, NEW c \in Chunks, SinkStart(t, c)
    PROVE  FlowInv' /\ Stored' = Stored
<1> USE DEF SinkStart
<1>1. Stored' = Stored  BY DEF Stored
<1>2. TypeOK'
  <2>1. Holding(c) \in ThreadStates  BY DEF ThreadStates
  <2> QED  BY <2>1 DEF FlowInv, TypeOK
<1>3. /\ thread \in [Threads -> ThreadStates]
      /\ thread'[t] = Holding(c)
      /\ \A u \in Threads : u # t => thread'[u] = thread[u]
  BY DEF FlowInv, TypeOK
<1>4. c \in DOMAIN input  BY DEF FlowInv, ChunksAccountedFor
<1>5. ChunksAccountedFor'
  <2>1. \A u \in Threads, d \in Chunks : thread'[u] = Holding(d) => d \in DOMAIN input
    BY <1>3, <1>4, StatesDiffer DEF FlowInv, ChunksAccountedFor
  <2>2. ASSUME ~probe_empty, NEW d \in DOMAIN input
        PROVE  d \in waiting' \/ d \in Stored \/ \E u \in Threads : thread'[u] = Holding(d)
    <3>1. CASE d = c  BY <1>3, <3>1
    <3>2. CASE d # c /\ \E u \in Threads : thread[u] = Holding(d)
      BY <1>3, <3>2, StatesDiffer
    <3>3. CASE d # c /\ ~ \E u \in Threads : thread[u] = Holding(d)
      BY <2>2, <3>3 DEF FlowInv, ChunksAccountedFor
    <3> QED  BY <3>1, <3>2, <3>3
  <2> QED  BY <1>1, <2>1, <2>2 DEF FlowInv, ChunksAccountedFor
<1>6. ThreadsEnd'
  BY <1>3, StatesDiffer DEF FlowInv, ThreadsEnd
<1>7. FinalizeLast'
  BY <1>3, StatesDiffer DEF FlowInv, FinalizeLast
<1> QED  BY <1>1, <1>2, <1>5, <1>6, <1>7 DEF FlowInv, FlagJustified

\* A chunk is given up only when the probe side is empty.
LEMMA SinkFinishedFlow ==
    ASSUME FlowInv, NEW t \in Threads, NEW c \in Chunks, SinkFinished(t, c)
    PROVE  FlowInv' /\ Stored' = Stored
<1> USE DEF SinkFinished, FlagSeen
<1>1. Stored' = Stored  BY DEF Stored
<1>2. TypeOK'
  BY DEF FlowInv, TypeOK, ThreadStates
<1>3. /\ thread'[t] = Stopped
      /\ \A u \in Threads : u # t => thread'[u] = thread[u]
  BY DEF FlowInv, TypeOK
<1>4. probe_empty  BY DEF FlowInv, ChunksAccountedFor, FlagJustified
<1>5. ChunksAccountedFor'
  <2>1. \A u \in Threads, d \in Chunks : thread'[u] = Holding(d) => d \in DOMAIN input
    BY <1>3, StatesDiffer DEF FlowInv, ChunksAccountedFor
  <2> QED  BY <1>1, <1>4, <2>1 DEF FlowInv, ChunksAccountedFor
<1>6. ThreadsEnd'
  BY <1>3, <1>4, StatesDiffer DEF FlowInv, ThreadsEnd
<1>7. FinalizeLast'
  BY <1>3, StatesDiffer DEF FlowInv, FinalizeLast
<1> QED  BY <1>1, <1>2, <1>5, <1>6, <1>7 DEF FlowInv, FlagJustified

\* Taking in a chunk moves it from the thread to its local data.
LEMMA SinkIngestFlow ==
    ASSUME FlowInv, NEW t \in Threads, NEW c \in Chunks, SinkIngest(t, c)
    PROVE  /\ FlowInv'
           /\ Stored' = Stored \cup {c}
           /\ c \in DOMAIN input
           /\ ~finalized
<1> USE DEF SinkIngest
<1>1. c \in DOMAIN input  BY DEF FlowInv, ChunksAccountedFor
<1>2. ~finalized  BY StatesDiffer DEF FlowInv, FinalizeLast
<1>3. /\ thread'[t] = Idle
      /\ \A u \in Threads : u # t => thread'[u] = thread[u] /\ local'[u] = local[u]
      /\ local'[t].data = local[t].data \cup {c}
  BY DEF FlowInv, TypeOK
<1>4. Stored' = Stored \cup {c}
  <2>1. UNCHANGED <<total_data, local_data_collections>>  OBVIOUS
  <2> HIDE DEF SinkIngest
  <2>2. \A u \in Threads : u # t => local'[u].data = local[u].data
    BY <1>3
  <2>3. ASSUME NEW d
        PROVE  d \in Stored' <=> d \in Stored \cup {c}
    <3>1. d \in Stored' <=> \/ d \in total_data \cup local_data_collections
                            \/ \E u \in Threads : d \in local'[u].data
      BY <2>1 DEF Stored
    <3>2. d \in Stored <=> \/ d \in total_data \cup local_data_collections
                           \/ \E u \in Threads : d \in local[u].data
      BY DEF Stored
    <3>3. d \in local'[t].data <=> d \in local[t].data \/ d = c  BY <1>3
    <3>4. \A u \in Threads : d \in local'[u].data <=> d \in local[u].data \/ (u = t /\ d = c)
      BY <2>2, <3>3
    <3> QED  BY <3>1, <3>2, <3>4
  <2> QED  BY <2>3
<1>5. local'[t] \in Locals
  <2>1. local[t] \in Locals  BY DEF FlowInv, TypeOK
  <2>2. NonNull(input[c]) \in SUBSET Values /\ ChunkMinMax(input[c]) \in MinMaxes
    BY <1>1, ChunkFacts DEF FlowInv, TypeOK
  <2>3. local[t].min_max \in MinMaxes /\ local[t].distinct \in Distincts
        /\ local[t].data \in SUBSET Chunks
    BY <2>1 DEF Locals
  <2>4. Widen(local[t].min_max, ChunkMinMax(input[c])) \in MinMaxes
    BY <2>2, <2>3, WidenFacts
  <2>5. AddDistinct(local[t].distinct, NonNull(input[c])) \in Distincts
    BY <2>2, <2>3, AddDistinctFacts
  <2>6. local'[t] =
            [data     |-> local[t].data \cup {c},
             min_max  |-> IF op.is_forward_pass
                          THEN Widen(local[t].min_max, ChunkMinMax(input[c]))
                          ELSE local[t].min_max,
             distinct |-> IF op.is_forward_pass
                          THEN AddDistinct(local[t].distinct, NonNull(input[c]))
                          ELSE local[t].distinct]
    BY DEF FlowInv, TypeOK
  <2> QED  BY <2>3, <2>4, <2>5, <2>6 DEF Locals
<1>6. TypeOK'
  <2>1. local' \in [Threads -> Locals]
    <3>1. \A u \in Threads : local'[u] \in Locals  BY <1>3, <1>5 DEF FlowInv, TypeOK
    <3>2. DOMAIN local' = Threads /\ local' = [u \in DOMAIN local' |-> local'[u]]
      BY DEF FlowInv, TypeOK
    <3> QED  BY <3>1, <3>2
  <2>2. thread' \in [Threads -> ThreadStates]  BY DEF FlowInv, TypeOK, ThreadStates
  <2> QED  BY <2>1, <2>2 DEF FlowInv, TypeOK
<1>7. ChunksAccountedFor'
  <2>1. \A u \in Threads, d \in Chunks : thread'[u] = Holding(d) => d \in DOMAIN input
    BY <1>3, StatesDiffer DEF FlowInv, ChunksAccountedFor
  <2>2. ASSUME ~probe_empty, NEW d \in DOMAIN input
        PROVE  d \in waiting \/ d \in Stored' \/ \E u \in Threads : thread'[u] = Holding(d)
    <3>1. CASE d = c  BY <1>4, <3>1
    <3>2. CASE d # c /\ \E u \in Threads : thread[u] = Holding(d)
      BY <1>3, <3>2, StatesDiffer
    <3>3. CASE d # c /\ ~ \E u \in Threads : thread[u] = Holding(d)
      BY <1>4, <2>2, <3>3 DEF FlowInv, ChunksAccountedFor
    <3> QED  BY <3>1, <3>2, <3>3
  <2> QED  BY <1>1, <1>4, <2>1, <2>2 DEF FlowInv, ChunksAccountedFor
<1>8. ThreadsEnd'
  BY <1>3, StatesDiffer DEF FlowInv, ThreadsEnd
<1>9. FinalizeLast'
  BY <1>2 DEF FlowInv, FinalizeLast, TypeOK
<1>10. bloom_filter'.inserted = Stored'
  BY <1>4 DEF FlowInv, TypeOK
<1> QED  BY <1>1, <1>2, <1>4, <1>6, <1>7, <1>8, <1>9, <1>10 DEF FlowInv, FlagJustified

\* Combining moves a thread's chunks to the shared collections.
LEMMA CombineFlow ==
    ASSUME FlowInv, NEW t \in Threads, Combine(t)
    PROVE  FlowInv' /\ Stored' = Stored /\ ~finalized
<1> USE DEF Combine
<1>1. ~finalized  BY StatesDiffer DEF FlowInv, FinalizeLast
<1>2. /\ thread'[t] = Combined
      /\ \A u \in Threads : u # t => thread'[u] = thread[u] /\ local'[u] = local[u]
      /\ local'[t] = [local[t] EXCEPT !.data = {}]
      /\ local[t] \in Locals
  BY DEF FlowInv, TypeOK
<1>3. local'[t] \in Locals /\ local'[t].data = {}
  BY <1>2 DEF Locals
<1>4. Stored' = Stored
  <2>1. \A u \in Threads : local'[u].data = IF u = t THEN {} ELSE local[u].data
    BY <1>2, <1>3
  <2>2. UNION {local[u].data : u \in Threads} =
            local[t].data \cup UNION {local'[u].data : u \in Threads}
    BY <2>1
  <2> QED  BY <2>2 DEF Stored
<1>5. TypeOK'
  <2>1. local' \in [Threads -> Locals]
    <3>1. \A u \in Threads : local'[u] \in Locals  BY <1>2, <1>3 DEF FlowInv, TypeOK
    <3>2. DOMAIN local' = Threads /\ local' = [u \in DOMAIN local' |-> local'[u]]
      BY DEF FlowInv, TypeOK
    <3> QED  BY <3>1, <3>2
  <2>2. thread' \in [Threads -> ThreadStates]  BY DEF FlowInv, TypeOK, ThreadStates
  <2>3. /\ local[t].min_max \in MinMaxes /\ local[t].distinct \in Distincts
        /\ local[t].data \in SUBSET Chunks /\ local[t].distinct.values \in SUBSET Values
    BY <1>2 DEF Locals, Distincts
  <2>4. column_min_max' \in MinMaxes
    BY <2>3, WidenFacts DEF FlowInv, TypeOK
  <2>5. column_distinct' \in Distincts
    <3>1. Overflown \in Distincts  BY DEF Overflown, Distincts
    <3>2. AddDistinct(column_distinct, local[t].distinct.values) \in Distincts
      BY <2>3, AddDistinctFacts DEF FlowInv, TypeOK
    <3> QED  BY <3>1, <3>2
  <2>6. local_data_collections' \subseteq Chunks  BY <2>3 DEF FlowInv, TypeOK
  <2> QED  BY <2>1, <2>2, <2>4, <2>5, <2>6 DEF FlowInv, TypeOK
<1>6. ChunksAccountedFor'
  <2>1. \A u \in Threads, d \in Chunks : thread'[u] = Holding(d) <=> thread[u] = Holding(d)
    BY <1>2, StatesDiffer
  <2>2. \A d \in DOMAIN input : d \in Chunks  BY InputsAssumption DEF FlowInv, TypeOK
  <2> QED  BY <1>4, <2>1, <2>2 DEF FlowInv, ChunksAccountedFor
<1>7. ThreadsEnd'
  <2>1. waiting = {} \/ probe_empty  BY DEF FlowInv, ThreadsEnd
  <2> QED  BY <1>2, <1>3, <2>1, StatesDiffer DEF FlowInv, ThreadsEnd
<1>8. FinalizeLast'
  BY <1>1 DEF FlowInv, FinalizeLast
<1> QED  BY <1>1, <1>4, <1>5, <1>6, <1>7, <1>8 DEF FlowInv, FlagJustified

\* By the time Finalize runs, the collections hold all that was stored.
LEMMA FinalizeFlow ==
    ASSUME FlowInv, Finalize
    PROVE  /\ FlowInv'
           /\ Stored' = Stored
           /\ total_data' = Stored
           /\ ~finalized /\ finalized'
           /\ Stored = DOMAIN input \/ probe_empty
           /\ bloom_filter'.inserted = Stored
<1> USE DEF Finalize, RaisesFlag
<1>1. total_data = {} /\ pushed = {} /\ \A t \in Threads : local[t].data = {}
  BY DEF FlowInv, FinalizeLast, ThreadsEnd
<1>2. Stored = local_data_collections  BY <1>1 DEF Stored
<1>3. Stored' = Stored  BY <1>1, <1>2 DEF Stored
<1>4. Stored = DOMAIN input \/ probe_empty
  <2>1. waiting = {} \/ probe_empty  BY ThreadsAssumption DEF FlowInv, ThreadsEnd
  <2>2. \A t \in Threads, c \in DOMAIN input : thread[t] # Holding(c)  BY StatesDiffer
  <2> QED  BY <2>1, <2>2 DEF FlowInv, ChunksAccountedFor
<1>5. /\ bloom_filter' \in [inserted : SUBSET Chunks, sized_for_rows : Nat, finalized : BOOLEAN]
      /\ bloom_filter'.inserted = Stored
  <2> DEFINE resized == Resize(bloom_filter, total_data')
  <2>1. total_data' = Stored /\ Stored \in SUBSET DOMAIN input /\ DOMAIN input \subseteq Chunks
    BY <1>2, InputsAssumption DEF FlowInv, ChunksAccountedFor, TypeOK
  <2>2. RowCount(total_data') \in Nat
    <3>1. RowCount(Stored) \in Nat  BY <2>1, RowCountType DEF FlowInv, TypeOK
    <3> QED  BY <2>1, <3>1
  <2>3. \/ resized = bloom_filter
        \/ resized = [bloom_filter EXCEPT !.inserted = total_data',
                                          !.sized_for_rows = RowCount(total_data')]
    BY DEF Resize
  <2>4. bloom_filter \in [inserted : SUBSET Chunks, sized_for_rows : Nat, finalized : BOOLEAN]
        /\ bloom_filter.inserted = Stored
    BY DEF FlowInv, TypeOK
  <2>5. resized \in [inserted : SUBSET Chunks, sized_for_rows : Nat, finalized : BOOLEAN]
        /\ resized.inserted = Stored
    BY <2>1, <2>2, <2>3, <2>4
  <2>6. bloom_filter' = [resized EXCEPT !.finalized = TRUE]  OBVIOUS
  <2> QED  BY <2>5, <2>6
<1>6. \A f \in pushed' : f.kind \in {"NEVER", "IN", "BF", "RANGE"}
  <2>1. ASSUME NEW data, NEW bf, NEW f \in DynamicFilters(data, bf)
        PROVE  f.kind \in {"NEVER", "IN", "BF", "RANGE"}
    BY <2>1 DEF DynamicFilters
  <2>2. pushed' = DynamicFilters(total_data', bloom_filter')  OBVIOUS
  <2> QED  BY <2>1, <2>2
<1>7. TypeOK'
  BY <1>5, <1>6 DEF FlowInv, TypeOK
<1>8. ChunksAccountedFor'  BY <1>3 DEF FlowInv, ChunksAccountedFor
<1>9. ThreadsEnd'  BY DEF FlowInv, ThreadsEnd
<1>10. FinalizeLast'  BY DEF FinalizeLast
<1>11. FlagJustified'
  BY <1>2, <1>4 DEF FlowInv, FlagJustified
<1> QED  BY <1>2, <1>3, <1>4, <1>5, <1>7, <1>8, <1>9, <1>10, <1>11 DEF FlowInv

\* Raising the flag only makes room for input to be left aside.
LEMMA RaiseFlagFlow ==
    ASSUME FlowInv, RaiseFlag
    PROVE  FlowInv' /\ Stored' = Stored
<1> USE DEF RaiseFlag
<1>1. Stored' = Stored  BY DEF Stored
<1>2. TypeOK' /\ FinalizeLast'  BY DEF FlowInv, TypeOK, FinalizeLast
<1>3. ChunksAccountedFor' /\ ThreadsEnd'  BY <1>1 DEF FlowInv, ChunksAccountedFor, ThreadsEnd
<1> QED  BY <1>1, <1>2, <1>3 DEF FlowInv, FlagJustified

\* A step that changes nothing keeps the invariant.
LEMMA StutterFlow ==
    ASSUME FlowInv, UNCHANGED vars
    PROVE  FlowInv' /\ Stored' = Stored
<1> USE DEF vars
<1>1. Stored' = Stored  BY DEF Stored
<1>2. TypeOK' /\ FinalizeLast'  BY DEF FlowInv, TypeOK, FinalizeLast
<1>3. ChunksAccountedFor' /\ ThreadsEnd'  BY <1>1 DEF FlowInv, ChunksAccountedFor, ThreadsEnd
<1> QED  BY <1>1, <1>2, <1>3 DEF FlowInv, FlagJustified

\* Every step of the sink (Sink, Combine, Finalize, a raised flag) keeps the
\* invariant.
LEMMA NextFlowInv == FlowInv /\ [Next]_vars => FlowInv'
  BY SinkStartFlow, SinkFinishedFlow, SinkIngestFlow, CombineFlow, RaiseFlagFlow,
     FinalizeFlow, StutterFlow DEF Next

\* The invariant about where the chunks are holds throughout.
LEMMA FlowInvariant == Spec => []FlowInv
  BY InitFlowInv, NextFlowInv, PTL DEF Spec

\* The sink's state has its type (PhysicalCreateFilter::Sink, Combine, Finalize).
THEOREM SinkTypeCorrect == Spec => []TypeOK
<1>1. FlowInv => TypeOK  BY DEF FlowInv
<1> QED  BY <1>1, FlowInvariant, PTL

\* The sink raises the empty flag of its probe table only for an input that really
\* is empty, never for one the flag itself cut short (Finalize).
THEOREM SinkFlagJustified == Spec => []FlagJustified
<1>1. FlowInv => FlagJustified  BY DEF FlowInv
<1> QED  BY <1>1, FlowInvariant, PTL

\* No chunk is lost between the threads: what Finalize has put together is the whole
\* input, unless the probe side is known to be empty (Sink, Combine, Finalize).
THEOREM SinkLosesNoRow == Spec => []NoRowLost
<1>1. FlowInv => NoRowLost
  <2> SUFFICES ASSUME FlowInv, finalized, ~probe_empty PROVE total_data = DOMAIN input
    BY DEF NoRowLost
  <2>1. /\ local_data_collections = {} /\ waiting = {}
        /\ \A t \in Threads : thread[t] = Combined /\ local[t].data = {}
    BY ThreadsAssumption DEF FlowInv, FinalizeLast, ThreadsEnd
  <2>2. total_data = Stored  BY <2>1 DEF Stored
  <2> QED  BY <2>1, <2>2, StatesDiffer DEF FlowInv, ChunksAccountedFor
<1> QED  BY <1>1, FlowInvariant, PTL

-----------------------------------------------------------------------------
\* The statistics cover the stored values, and so do the pushed filters.

\* The keys of two sets of chunks together are the keys of either.
LEMMA KeysOfFacts ==
    ASSUME FlowInv
    PROVE  /\ \A A \in SUBSET DOMAIN input : KeysOf(A) \subseteq Values
           /\ \A A, B : KeysOf(A \cup B) = KeysOf(A) \cup KeysOf(B)
           /\ \A c : KeysOf({c}) = NonNull(input[c])
           /\ KeysOf({}) = {}
<1>1. \A A \in SUBSET DOMAIN input : KeysOf(A) \subseteq Values
  BY ChunkFacts DEF KeysOf, FlowInv, TypeOK
<1> QED  BY <1>1 DEF KeysOf

\* Statistics that cover S, widened with bounds of some new values and with a set
\* that holds them, cover S and the new values.
LEMMA CoversFacts ==
    ASSUME NEW a \in MinMaxes, NEW b \in MinMaxes, NEW cd \in Distincts,
           NEW S \in SUBSET Values, NEW new \in SUBSET Values,
           Covers(a, cd, S), \A k \in new : b.has_value /\ b.min <= k /\ k <= b.max
    PROVE  \A more \in SUBSET Values : new \subseteq more =>
                Covers(Widen(a, b), AddDistinct(cd, more), S \cup new)
<1> SUFFICES ASSUME NEW more \in SUBSET Values, new \subseteq more
             PROVE  Covers(Widen(a, b), AddDistinct(cd, more), S \cup new)
  OBVIOUS
<1>1. \A k \in S \cup new : /\ Widen(a, b).has_value
                            /\ Widen(a, b).min <= k /\ k <= Widen(a, b).max
  <2>1. ASSUME NEW k \in S \cup new
        PROVE  Widen(a, b).has_value /\ Widen(a, b).min <= k /\ k <= Widen(a, b).max
    <3>1. k \in Nat  BY ValuesAssumption
    <3>2. CASE k \in S  BY <3>1, <3>2, WidenFacts DEF Covers
    <3>3. CASE k \in new  BY <3>1, <3>3, WidenFacts
    <3> QED  BY <3>2, <3>3
  <2> QED  BY <2>1
<1>2. ~AddDistinct(cd, more).over_threshold => S \cup new \subseteq AddDistinct(cd, more).values
  BY AddDistinctFacts DEF Covers
<1> QED  BY <1>1, <1>2 DEF Covers

\* The empty statistics cover the empty data.
LEMMA InitStatisticsCover == Init => StatisticsCover
<1>1. Init => \A t \in Threads : local[t].data = {}  BY DEF Init, EmptyLocal
<1>2. KeysOf({}) = {}  BY DEF KeysOf
<1> QED  BY <1>1, <1>2 DEF Init, StatisticsCover, Covers

\* Statistics of the data stay as they are when neither changes.
LEMMA SameStatistics ==
    ASSUME StatisticsCover,
           UNCHANGED <<input, op, local, column_min_max, column_distinct>>,
           total_data' \cup local_data_collections' = total_data \cup local_data_collections
    PROVE  StatisticsCover'
  BY DEF StatisticsCover, Covers, KeysOf

\* A chunk and its values reach the local state in one step (Sink).
LEMMA SinkIngestStatistics ==
    ASSUME FlowInv, StatisticsCover, NaN \notin Values,
           NEW t \in Threads, NEW c \in Chunks, SinkIngest(t, c)
    PROVE  StatisticsCover'
<1> SUFFICES ASSUME op.is_forward_pass
             PROVE  StatisticsCover'
  BY DEF StatisticsCover, SinkIngest
<1> DEFINE mm == ChunkMinMax(input[c])
           new == NonNull(input[c])
<1>1. /\ local'[t].data = local[t].data \cup {c}
      /\ local'[t].min_max = Widen(local[t].min_max, mm)
      /\ local'[t].distinct = AddDistinct(local[t].distinct, new)
      /\ \A u \in Threads : u # t => local'[u] = local[u]
  BY DEF SinkIngest, FlowInv, TypeOK
<1>2. UNCHANGED <<input, op, column_min_max, column_distinct, total_data, local_data_collections>>
  BY DEF SinkIngest
<1>3. /\ local[t].min_max \in MinMaxes /\ local[t].distinct \in Distincts
      /\ local[t].data \in SUBSET DOMAIN input
  <2>1. local[t] \in Locals  BY DEF FlowInv, TypeOK
  <2>2. local[t].data \subseteq DOMAIN input  BY DEF FlowInv, ChunksAccountedFor, Stored
  <2> QED  BY <2>1, <2>2 DEF Locals
<1>4. /\ mm \in MinMaxes /\ new \in SUBSET Values
      /\ \A k \in new : mm.has_value /\ mm.min <= k /\ k <= mm.max
  <2>1. c \in DOMAIN input  BY SinkIngestFlow
  <2>2. input \in Inputs  BY DEF FlowInv, TypeOK
  <2> QED  BY <2>1, <2>2, ChunkFacts
<1>5. KeysOf(local[t].data) \in SUBSET Values
      /\ KeysOf(local[t].data \cup {c}) = KeysOf(local[t].data) \cup new
  <2>1. KeysOf({c}) = new  BY KeysOfFacts
  <2>2. \A A, B : KeysOf(A \cup B) = KeysOf(A) \cup KeysOf(B)  BY KeysOfFacts
  <2>3. KeysOf(local[t].data) \subseteq Values  BY <1>3, KeysOfFacts
  <2> HIDE DEF new
  <2> QED  BY <2>1, <2>2, <2>3
<1>6. Covers(local[t].min_max, local[t].distinct, KeysOf(local[t].data))
  BY DEF StatisticsCover
<1> HIDE DEF mm, new
<1>7. Covers(local'[t].min_max, local'[t].distinct, KeysOf(local[t].data \cup {c}))
  <2> DEFINE S == KeysOf(local[t].data)
  <2>1. S \in SUBSET Values /\ Covers(local[t].min_max, local[t].distinct, S)
    BY <1>5, <1>6
  <2> HIDE DEF S
  <2>2. Covers(Widen(local[t].min_max, mm), AddDistinct(local[t].distinct, new), S \cup new)
    BY <1>3, <1>4, <2>1, CoversFacts
  <2>3. S \cup new = KeysOf(local[t].data \cup {c})  BY <1>5 DEF S
  <2> QED  BY <1>1, <2>2, <2>3
<1>8. \A S : KeysOf(S)' = KeysOf(S)  BY <1>2 DEF KeysOf
<1>9. ASSUME NEW u \in Threads
      PROVE  Covers(local'[u].min_max, local'[u].distinct, KeysOf(local'[u].data))
  <2>1. CASE u = t  BY <1>1, <1>7, <2>1
  <2>2. CASE u # t  BY <1>1, <2>2 DEF StatisticsCover
  <2> QED  BY <2>1, <2>2
<1> QED  BY <1>2, <1>9 DEF StatisticsCover, KeysOf

\* A thread hands over its chunks together with their statistics (Combine).
LEMMA CombineStatistics ==
    ASSUME FlowInv, StatisticsCover, NEW t \in Threads, Combine(t)
    PROVE  StatisticsCover'
<1> SUFFICES ASSUME op.is_forward_pass
             PROVE  StatisticsCover'
  BY DEF StatisticsCover, Combine
<1> DEFINE new == KeysOf(local[t].data)
           old == KeysOf(total_data \cup local_data_collections)
<1>1. /\ local'[t].data = {}
      /\ \A u \in Threads : u # t => local'[u] = local[u]
      /\ local[t] \in Locals
  BY DEF Combine, FlowInv, TypeOK
<1>2. UNCHANGED <<input, op, total_data>>  BY DEF Combine
<1>3. /\ local[t].min_max \in MinMaxes /\ local[t].distinct \in Distincts
      /\ local[t].distinct.values \in SUBSET Values
  BY <1>1 DEF Locals, Distincts
<1>4. /\ column_min_max \in MinMaxes /\ column_distinct \in Distincts
  BY DEF FlowInv, TypeOK
<1>5. /\ local[t].data \in SUBSET DOMAIN input
      /\ total_data \cup local_data_collections \in SUBSET DOMAIN input
  BY DEF FlowInv, ChunksAccountedFor, Stored
<1>6. /\ new \in SUBSET Values /\ old \in SUBSET Values
      /\ KeysOf((total_data \cup local_data_collections) \cup local[t].data) = old \cup new
  BY <1>5, KeysOfFacts
<1>7. /\ Covers(local[t].min_max, local[t].distinct, new)
      /\ Covers(column_min_max, column_distinct, old)
  BY DEF StatisticsCover
<1>8. /\ column_min_max' = Widen(column_min_max, local[t].min_max)
      /\ column_distinct' = IF local[t].distinct.over_threshold THEN Overflown
                            ELSE AddDistinct(column_distinct, local[t].distinct.values)
      /\ local_data_collections' = local_data_collections \cup local[t].data
  BY DEF Combine
<1> HIDE DEF new, old
<1>9. Covers(column_min_max', column_distinct', old \cup new)
  <2>1. \A k \in new : /\ local[t].min_max.has_value
                       /\ local[t].min_max.min <= k /\ k <= local[t].min_max.max
    BY <1>7 DEF Covers
  <2>2. CASE local[t].distinct.over_threshold
    <3>1. column_distinct'.over_threshold  BY <1>8, <2>2 DEF Overflown
    <3>2. Covers(Widen(column_min_max, local[t].min_max), AddDistinct(column_distinct, Values),
                 old \cup new)
      BY <1>3, <1>4, <1>6, <1>7, <2>1, CoversFacts
    <3> QED  BY <1>8, <3>1, <3>2 DEF Covers
  <2>3. CASE ~local[t].distinct.over_threshold
    <3>1. new \subseteq local[t].distinct.values  BY <1>7, <2>3 DEF Covers
    <3> QED  BY <1>3, <1>4, <1>6, <1>7, <1>8, <2>1, <2>3, <3>1, CoversFacts
  <2> QED  BY <2>2, <2>3
<1>10. total_data' \cup local_data_collections'
            = (total_data \cup local_data_collections) \cup local[t].data
  BY <1>2, <1>8
<1>11. ASSUME NEW u \in Threads
       PROVE  Covers(local'[u].min_max, local'[u].distinct, KeysOf(local'[u].data))
  <2>1. CASE u = t
    <3>1. KeysOf(local'[u].data) = {} /\ local'[t] = [local[t] EXCEPT !.data = {}]
      BY <1>1, <2>1, KeysOfFacts DEF Combine, FlowInv, TypeOK
    <3>2. local'[t].min_max = local[t].min_max /\ local'[t].distinct = local[t].distinct
      BY <1>1, <3>1 DEF Locals
    <3> QED  BY <1>7, <2>1, <3>1, <3>2 DEF Covers
  <2>2. CASE u # t  BY <1>1, <2>2 DEF StatisticsCover
  <2> QED  BY <2>1, <2>2
<1>12. Covers(column_min_max', column_distinct', KeysOf(total_data' \cup local_data_collections'))
  BY <1>6, <1>9, <1>10
<1> QED  BY <1>2, <1>11, <1>12 DEF StatisticsCover, KeysOf

\* Every step keeps the statistics in line with the data they are of.
LEMMA NextStatisticsCover ==
    ASSUME NaN \notin Values, FlowInv, StatisticsCover, [Next]_vars
    PROVE  StatisticsCover'
<1>1. ASSUME NEW t \in Threads, NEW c \in Chunks, SinkStart(t, c) \/ SinkFinished(t, c)
      PROVE  StatisticsCover'
  BY <1>1, SameStatistics DEF SinkStart, SinkFinished
<1>2. CASE RaiseFlag  BY <1>2, SameStatistics DEF RaiseFlag
<1>3. CASE UNCHANGED vars  BY <1>3, SameStatistics DEF vars
<1>4. CASE Finalize
  <2>1. total_data = {}  BY <1>4 DEF Finalize, FlowInv, FinalizeLast
  <2> QED  BY <1>4, <2>1, SameStatistics DEF Finalize
<1> QED  BY <1>1, <1>2, <1>3, <1>4, SinkIngestStatistics, CombineStatistics DEF Next

\* What Finalize pushes lets every stored key through.
LEMMA FinalizeAdmits ==
    ASSUME FlowInv, StatisticsCover, Finalize
    PROVE  KeysOf(Stored) \subseteq AdmittedKeys'
<1> DEFINE keys == KeysOf(Stored)
<1>1. /\ total_data' = Stored /\ bloom_filter'.inserted = Stored
      /\ UNCHANGED <<input, op, column_min_max, column_distinct>>
  BY FinalizeFlow DEF Finalize
<1>2. \A S : KeysOf(S)' = KeysOf(S)  BY <1>1 DEF KeysOf
<1>3. keys \subseteq Values
  <2>1. Stored \in SUBSET DOMAIN input  BY DEF FlowInv, ChunksAccountedFor
  <2> QED  BY <2>1, KeysOfFacts
<1>4. op.is_forward_pass => Covers(column_min_max, column_distinct, keys)
  <2>1. total_data \cup local_data_collections = Stored
    BY DEF Stored, Finalize, FlowInv, FinalizeLast, ThreadsEnd
  <2> QED  BY <2>1 DEF StatisticsCover
<1>5. pushed' = DynamicFilters(Stored, bloom_filter')
  BY <1>1, <1>2 DEF Finalize, DynamicFilters, EqualPushed, InPushed
<1>6. ASSUME NEW f \in DynamicFilters(Stored, bloom_filter'), NEW k \in keys
      PROVE  f.kind # "NEVER" /\ k \in f.values
  <2>1. op.is_forward_pass  BY <1>6 DEF DynamicFilters
  <2>2. Stored # {}  BY KeysOfFacts
  <2>3. \/ f = [kind |-> "IN", values |-> column_distinct.values] /\ (EqualPushed \/ InPushed)
        \/ f = [kind |-> "BF", values |-> KeysOf(bloom_filter'.inserted)]
        \/ f = [kind |-> "RANGE", values |-> {v \in Values : /\ v >= column_min_max.min
                                                           /\ v <= column_min_max.max}]
    BY <1>6, <2>2 DEF DynamicFilters
  <2>4. CASE f = [kind |-> "IN", values |-> column_distinct.values] /\ (EqualPushed \/ InPushed)
    <3>1. ~column_distinct.over_threshold  BY <2>4 DEF EqualPushed, InPushed
    <3> QED  BY <1>4, <2>1, <2>4, <3>1 DEF Covers
  <2>5. CASE f = [kind |-> "BF", values |-> KeysOf(bloom_filter'.inserted)]
    BY <1>1, <2>5
  <2>6. CASE f = [kind |-> "RANGE", values |-> {v \in Values : /\ v >= column_min_max.min
                                                             /\ v <= column_min_max.max}]
    <3>1. column_min_max.min <= k /\ k <= column_min_max.max  BY <1>4, <2>1 DEF Covers
    <3>2. k \in Values /\ k \in Nat  BY <1>3, ValuesAssumption
    <3>3. column_min_max.min \in Nat  BY DEF FlowInv, TypeOK, MinMaxes
    <3> QED  BY <2>6, <3>1, <3>2, <3>3
  <2> QED  BY <2>3, <2>4, <2>5, <2>6
<1> HIDE DEF keys
<1>7. keys \subseteq {v \in Values : /\ bloom_filter'.finalized => v \in keys
                                     /\ \A f \in pushed' : f.kind # "NEVER" /\ v \in f.values}
  BY <1>3, <1>5, <1>6
<1>8. KeysOf(bloom_filter.inserted)' = keys  BY <1>1, <1>2 DEF KeysOf, keys
<1> QED  BY <1>7, <1>8 DEF AdmittedKeys, keys

\* The sink of a CREATE_FILTER, with all its threads and statistics, implements the
\* promise: it publishes once everything is stored or the probe side is empty, and the
\* published filters admit all that is stored.  The column has no NaN.
THEOREM SinkKeepsPromise ==
    ASSUME NaN \notin Values
    PROVE  Spec => KeepsPromise
<1>1. Init => Promise!Init
  <2> SUFFICES ASSUME Init PROVE Promise!Init  OBVIOUS
  <2>1. Stored = {}  BY DEF Init, Stored, EmptyLocal
  <2>2. AdmittedKeys = Values  BY DEF Init, AdmittedKeys, NewBloomFilter
  <2> QED  BY <2>1, <2>2 DEF Init, Promise!Init
<1>2. ASSUME FlowInv, StatisticsCover, [Next]_vars
      PROVE  [Promise!Next]_(Promise!vars)
  <2>1. ASSUME UNCHANGED <<input, probe_empty, finalized, bloom_filter, pushed>>, Stored' = Stored
        PROVE  UNCHANGED Promise!vars
    BY <2>1 DEF Promise!vars, AdmittedKeys, KeysOf
  <2>2. ASSUME NEW t \in Threads, NEW c \in Chunks, SinkStart(t, c) \/ SinkFinished(t, c)
        PROVE  UNCHANGED Promise!vars
    BY <1>2, <2>1, <2>2, SinkStartFlow, SinkFinishedFlow DEF SinkStart, SinkFinished
  <2>3. ASSUME NEW t \in Threads, Combine(t)
        PROVE  UNCHANGED Promise!vars
    BY <1>2, <2>1, <2>3, CombineFlow DEF Combine
  <2>4. ASSUME NEW t \in Threads, NEW c \in Chunks, SinkIngest(t, c)
        PROVE  Promise!Store
    <3>1. Stored' = Stored \cup {c} /\ c \in DOMAIN input /\ ~finalized
      BY <1>2, <2>4, SinkIngestFlow
    <3>2. /\ UNCHANGED <<input, probe_empty, finalized, pushed>>
          /\ bloom_filter'.finalized = bloom_filter.finalized
      BY <2>4 DEF SinkIngest, FlowInv, TypeOK
    <3>3. ~bloom_filter.finalized /\ pushed = {}
      BY <1>2, <3>1 DEF FlowInv, FinalizeLast
    <3>4. AdmittedKeys' = AdmittedKeys  BY <3>2, <3>3 DEF AdmittedKeys
    <3>5. Stored' \subseteq DOMAIN input
      BY <1>2, <3>1 DEF FlowInv, ChunksAccountedFor
    <3> QED  BY <3>1, <3>2, <3>4, <3>5 DEF Promise!Store
  <2>5. ASSUME RaiseFlag
        PROVE  Promise!Doom
    <3>1. Stored' = Stored /\ probe_empty'  BY <1>2, <2>5, RaiseFlagFlow DEF RaiseFlag
    <3>2. UNCHANGED <<input, finalized, bloom_filter, pushed>>  BY <2>5 DEF RaiseFlag
    <3>3. AdmittedKeys' = AdmittedKeys  BY <3>2 DEF AdmittedKeys, KeysOf
    <3>4. probe_empty' = TRUE  BY <2>5 DEF RaiseFlag
    <3> QED  BY <3>1, <3>2, <3>3, <3>4 DEF Promise!Doom
  <2>6. ASSUME Finalize
        PROVE  Promise!Publish
    <3>1. Stored' = Stored /\ ~finalized /\ (Stored = DOMAIN input \/ probe_empty)
      BY <1>2, <2>6, FinalizeFlow
    <3>2. UNCHANGED <<input, probe_empty>> /\ finalized' = TRUE  BY <2>6 DEF Finalize
    <3>3. KeysOf(Stored) \subseteq AdmittedKeys'  BY <1>2, <2>6, FinalizeAdmits
    <3>4. AdmittedKeys' \in SUBSET Values  BY DEF AdmittedKeys
    <3>5. Promise!StoredKeys = KeysOf(Stored)
      <4>1. Stored \subseteq DOMAIN input  BY <1>2 DEF FlowInv, ChunksAccountedFor
      <4> QED  BY <4>1 DEF Promise!StoredKeys, KeysOf
    <3> QED  BY <3>1, <3>2, <3>3, <3>4, <3>5 DEF Promise!Publish
  <2>7. CASE UNCHANGED vars
    BY <1>2, <2>1, <2>7, StutterFlow DEF vars
  <2> QED  BY <1>2, <2>2, <2>3, <2>4, <2>5, <2>6, <2>7 DEF Next, Promise!Next
<1>3. FlowInv /\ StatisticsCover /\ [Next]_vars => FlowInv' /\ StatisticsCover'
  BY NextFlowInv, NextStatisticsCover
<1>4. Init => FlowInv /\ StatisticsCover
  BY InitFlowInv, InitStatisticsCover
<1> QED  BY <1>1, <1>2, <1>3, <1>4, PTL DEF Spec, KeepsPromise, Promise!Spec

-----------------------------------------------------------------------------
\* The statistics are exact.

\* What one thread would have found out about some keys, had it met no others.
BoundsOf(keys)   == IF keys = {} THEN NoMinMax ELSE MinMax(Least(keys), Greatest(keys))
DistinctOf(keys) == IF Cardinality(keys) <= DistinctThreshold THEN Distinct(keys) ELSE Overflown

\* A thread's statistics are those of its own chunks until it has handed both over,
\* and the operator's are those of the chunks handed over.
StatisticsInv ==
    op.is_forward_pass =>
        /\ \A t \in Threads : thread[t] # Combined =>
              /\ local[t].min_max = BoundsOf(KeysOf(local[t].data))
              /\ local[t].distinct = DistinctOf(KeysOf(local[t].data))
        /\ column_min_max = BoundsOf(KeysOf(total_data \cup local_data_collections))
        /\ column_distinct = DistinctOf(KeysOf(total_data \cup local_data_collections))

\* The least and the greatest element are the only ones of their kind.
LEMMA ExtremesUnique ==
    ASSUME NEW S \in SUBSET Nat, NEW lo \in S, NEW hi \in S,
           \A o \in S : lo <= o /\ o <= hi
    PROVE  Least(S) = lo /\ Greatest(S) = hi
<1>1. /\ Least(S) \in S    /\ \A o \in S : Least(S) <= o
      /\ Greatest(S) \in S /\ \A o \in S : Greatest(S) >= o
  BY DEF Least, Greatest
<1>2. \A o \in S : o \in Nat  OBVIOUS
<1>3. Least(S) <= lo /\ lo <= Least(S) /\ Greatest(S) >= hi /\ Greatest(S) <= hi  BY <1>1
<1>4. Least(S) \in Nat /\ Greatest(S) \in Nat /\ lo \in Nat /\ hi \in Nat  BY <1>1, <1>2
<1> QED  BY <1>3, <1>4

\* Merging the bounds of two sets of keys gives the bounds of both together.
LEMMA WidenBounds ==
    ASSUME NEW A \in SUBSET Values, NEW B \in SUBSET Values
    PROVE  Widen(BoundsOf(A), BoundsOf(B)) = BoundsOf(A \cup B)
<1>1. CASE A = {} \/ B = {}
  <2>1. ~NoMinMax.has_value /\ \A lo, hi : MinMax(lo, hi).has_value
    BY DEF NoMinMax, MinMax
  <2>2. A \cup {} = A /\ {} \cup B = B  OBVIOUS
  <2> QED  BY <1>1, <2>1, <2>2 DEF Widen, BoundsOf
<1>2. CASE A # {} /\ B # {}
  <2> DEFINE a == Least(A)  b == Least(B)  y == Greatest(A)  z == Greatest(B)
             lo == IF b < a THEN b ELSE a
             hi == IF z > y THEN z ELSE y
  <2>1. /\ A \in SUBSET Nat /\ IsFiniteSet(A)
        /\ B \in SUBSET Nat /\ IsFiniteSet(B)
    BY ValuesAssumption, FiniteAssumption, FS_Subset
  <2>2. /\ a \in A /\ y \in A /\ \A o \in A : a <= o /\ y >= o
        /\ b \in B /\ z \in B /\ \A o \in B : b <= o /\ z >= o
    BY <1>2, <2>1, Extremes
  <2>3. a \in Nat /\ b \in Nat /\ y \in Nat /\ z \in Nat  BY <2>1, <2>2
  <2>4. Widen(MinMax(a, y), MinMax(b, z)) = MinMax(lo, hi)
    <3> HIDE DEF a, b, y, z
    <3> QED  BY <2>3 DEF Widen, MinMax
  <2> HIDE DEF a, b, y, z
  <2>5. lo \in A \cup B /\ hi \in A \cup B  BY <2>2
  <2>6. \A o \in A \cup B : lo <= o /\ o <= hi
    <3>1. ASSUME NEW o \in A \cup B PROVE lo <= o /\ o <= hi
      <4>1. o \in Nat  BY <2>1
      <4>2. (a <= o /\ y >= o) \/ (b <= o /\ z >= o)  BY <2>2
      <4> QED  BY <2>3, <4>1, <4>2
    <3> QED  BY <3>1
  <2>7. A \cup B \in SUBSET Nat  BY <2>1
  <2> HIDE DEF lo, hi
  <2>8. Least(A \cup B) = lo /\ Greatest(A \cup B) = hi  BY <2>5, <2>6, <2>7, ExtremesUnique
  <2>9. /\ BoundsOf(A) = MinMax(a, y) /\ BoundsOf(B) = MinMax(b, z)
        /\ BoundsOf(A \cup B) = MinMax(lo, hi)
    BY <1>2, <2>8 DEF BoundsOf, a, b, y, z
  <2> QED  BY <2>4, <2>9
<1> QED  BY <1>1, <1>2

\* Adding keys to the distinct values of others gives the distinct values of both: once
\* there are too many there are too many for ever.
LEMMA AddDistinctOf ==
    ASSUME NEW A \in SUBSET Values, NEW B \in SUBSET Values
    PROVE  /\ AddDistinct(DistinctOf(A), B) = DistinctOf(A \cup B)
           /\ DistinctOf(B).over_threshold => DistinctOf(A \cup B) = Overflown
           /\ ~DistinctOf(B).over_threshold => DistinctOf(B).values = B
<1>1. IsFiniteSet(A \cup B)  BY FiniteAssumption, FS_Subset
<1>2. IsFiniteSet(A) /\ IsFiniteSet(B) /\ Cardinality(A) <= Cardinality(A \cup B)
      /\ Cardinality(B) <= Cardinality(A \cup B)
  BY <1>1, FS_Subset
<1>3. Cardinality(A) \in Nat /\ Cardinality(B) \in Nat /\ Cardinality(A \cup B) \in Nat
  BY <1>1, <1>2, FS_CardinalityType
<1>4. DistinctThreshold \in Nat  BY SizesAssumption
<1>5. /\ Overflown.over_threshold
      /\ \A S : ~Distinct(S).over_threshold /\ Distinct(S).values = S
  BY DEF Overflown, Distinct
<1>6. CASE Cardinality(A) <= DistinctThreshold
  <2>1. ~DistinctOf(A).over_threshold /\ DistinctOf(A).values = A  BY <1>5, <1>6 DEF DistinctOf
  <2>2. Cardinality(A \cup B) > DistinctThreshold <=> ~(Cardinality(A \cup B) <= DistinctThreshold)
    BY <1>3, <1>4
  <2>3. AddDistinct(DistinctOf(A), B) = DistinctOf(A \cup B)
    BY <2>1, <2>2 DEF AddDistinct, DistinctOf
  <2> QED  BY <1>2, <1>3, <1>4, <1>5, <2>3 DEF DistinctOf
<1>7. CASE ~(Cardinality(A) <= DistinctThreshold)
  <2>1. DistinctOf(A).over_threshold  BY <1>5, <1>7 DEF DistinctOf
  <2>2. ~(Cardinality(A \cup B) <= DistinctThreshold)  BY <1>2, <1>3, <1>4, <1>7
  <2> QED  BY <1>5, <2>1, <2>2 DEF AddDistinct, DistinctOf
<1> QED  BY <1>6, <1>7

\* The min-max of a chunk without NaN is that of its keys.
LEMMA ChunkMinMaxExact ==
    ASSUME input \in Inputs, NaN \notin Values, NEW c \in DOMAIN input
    PROVE  ChunkMinMax(input[c]) = BoundsOf(NonNull(input[c]))
<1> DEFINE rows  == input[c]
           here  == {i \in DOMAIN rows : rows[i] # NULL}
           first == CHOOSE i \in DOMAIN rows :
                        rows[i] # NULL /\ \A j \in DOMAIN rows : j < i => rows[j] = NULL
<1>1. rows \in Seq(Values \cup {NULL})  BY InputsAssumption
<1>2. DOMAIN rows = 1 .. Len(rows) /\ Len(rows) \in Nat  BY <1>1
<1>3. CASE NonNull(rows) = {}  BY <1>3 DEF ChunkMinMax, BoundsOf
<1>4. CASE NonNull(rows) # {}
  <2>1. here # {}  BY <1>4 DEF NonNull
  <2>2. IsFiniteSet(here) /\ here \in SUBSET Nat
    <3>1. 1 \in Int /\ Len(rows) \in Int  BY <1>2
    <3>2. IsFiniteSet(1 .. Len(rows))  BY <3>1, FS_Interval
    <3>3. here \subseteq 1 .. Len(rows)  BY <1>2
    <3> QED  BY <3>2, <3>3, FS_Subset
  <2>3. Least(here) \in here /\ \A o \in here : Least(here) <= o  BY <2>1, <2>2, Extremes
  <2>4. first \in DOMAIN rows /\ rows[first] # NULL
    <3>1. ASSUME NEW j \in DOMAIN rows, j < Least(here)
          PROVE  rows[j] = NULL
      <4>1. j \in Nat /\ Least(here) \in Nat  BY <1>2, <2>2, <2>3
      <4>2. ~(Least(here) <= j)  BY <3>1, <4>1
      <4> QED  BY <2>3, <4>2
    <3>2. Least(here) \in DOMAIN rows /\ rows[Least(here)] # NULL  BY <2>3
    <3> QED  BY <3>1, <3>2
  <2>5. rows[first] \in Values
    <3> HIDE DEF first
    <3> QED  BY <1>1, <2>4
  <2>6. rows[first] # NaN  BY <2>5
  <2>7. NonNull(rows) \ {NaN} = NonNull(rows)
    <3>1. NonNull(rows) \subseteq Values  BY ChunkFacts
    <3> QED  BY <3>1
  <2> QED  BY <1>4, <2>6, <2>7 DEF ChunkMinMax, BoundsOf
<1> QED  BY <1>3, <1>4

\* Nothing is known of no keys.
LEMMA InitStatisticsExact == Init => StatisticsInv
<1>1. Init => \A t \in Threads : local[t] = EmptyLocal  BY DEF Init
<1>2. KeysOf({}) = {}  BY DEF KeysOf
<1>3. DistinctOf({}) = Distinct({})
  BY FS_EmptySet, SizesAssumption DEF DistinctOf
<1>4. BoundsOf({}) = NoMinMax  BY DEF BoundsOf
<1>5. /\ EmptyLocal.data = {} /\ EmptyLocal.min_max = NoMinMax
      /\ EmptyLocal.distinct = Distinct({})
  BY DEF EmptyLocal
<1>6. Init => total_data \cup local_data_collections = {}  BY DEF Init
<1> QED  BY <1>1, <1>2, <1>3, <1>4, <1>5, <1>6 DEF Init, StatisticsInv

\* A step that leaves the statistics and the data they are of alone.
LEMMA SameExactStatistics ==
    ASSUME StatisticsInv,
           UNCHANGED <<input, op, local, column_min_max, column_distinct>>,
           \A t \in Threads : thread'[t] # Combined => thread[t] # Combined,
           total_data' \cup local_data_collections' = total_data \cup local_data_collections
    PROVE  StatisticsInv'
  BY DEF StatisticsInv, KeysOf

\* A thread adds a chunk to its statistics in the step that stores it (Sink).
LEMMA SinkIngestExact ==
    ASSUME FlowInv, StatisticsInv, NaN \notin Values,
           NEW t \in Threads, NEW c \in Chunks, SinkIngest(t, c)
    PROVE  StatisticsInv'
<1> SUFFICES ASSUME op.is_forward_pass
             PROVE  StatisticsInv'
  BY DEF StatisticsInv, SinkIngest
<1> DEFINE new == NonNull(input[c])
           old == KeysOf(local[t].data)
<1>1. /\ local'[t].data = local[t].data \cup {c}
      /\ local'[t].min_max = Widen(local[t].min_max, ChunkMinMax(input[c]))
      /\ local'[t].distinct = AddDistinct(local[t].distinct, new)
      /\ \A u \in Threads : u # t => local'[u] = local[u] /\ thread'[u] = thread[u]
  BY DEF SinkIngest, FlowInv, TypeOK
<1>2. UNCHANGED <<input, op, column_min_max, column_distinct, total_data, local_data_collections>>
  BY DEF SinkIngest
<1>3. thread[t] # Combined  BY StatesDiffer DEF SinkIngest
<1>4. /\ local[t].min_max = BoundsOf(old)
      /\ local[t].distinct = DistinctOf(old)
  BY <1>3 DEF StatisticsInv
<1>5. c \in DOMAIN input /\ input \in Inputs  BY SinkIngestFlow DEF FlowInv, TypeOK
<1>6. ChunkMinMax(input[c]) = BoundsOf(new)  BY <1>5, ChunkMinMaxExact
<1>7. /\ old \in SUBSET Values /\ new \in SUBSET Values
      /\ KeysOf(local[t].data \cup {c}) = old \cup new
  <2>1. local[t].data \in SUBSET DOMAIN input  BY DEF FlowInv, ChunksAccountedFor, Stored
  <2>2. KeysOf({c}) = new  BY KeysOfFacts
  <2>3. \A A, B : KeysOf(A \cup B) = KeysOf(A) \cup KeysOf(B)  BY KeysOfFacts
  <2>4. new \in SUBSET Values  BY <1>5, ChunkFacts
  <2> HIDE DEF new
  <2> QED  BY <2>1, <2>2, <2>3, <2>4, KeysOfFacts
<1> HIDE DEF new, old
<1>8. /\ local'[t].min_max = BoundsOf(old \cup new)
      /\ local'[t].distinct = DistinctOf(old \cup new)
  BY <1>1, <1>4, <1>6, <1>7, WidenBounds, AddDistinctOf
<1>9. \A S : KeysOf(S)' = KeysOf(S)  BY <1>2 DEF KeysOf
<1>10. ASSUME NEW u \in Threads, thread'[u] # Combined
       PROVE  /\ local'[u].min_max = BoundsOf(KeysOf(local'[u].data))
              /\ local'[u].distinct = DistinctOf(KeysOf(local'[u].data))
  <2>1. CASE u = t  BY <1>1, <1>7, <1>8, <2>1
  <2>2. CASE u # t  BY <1>1, <1>10, <2>2 DEF StatisticsInv
  <2> QED  BY <2>1, <2>2
<1> QED  BY <1>2, <1>10 DEF StatisticsInv, KeysOf

\* A thread's exact statistics are merged in the step that hands its chunks over.
LEMMA CombineExact ==
    ASSUME FlowInv, StatisticsInv, NEW t \in Threads, Combine(t)
    PROVE  StatisticsInv'
<1> SUFFICES ASSUME op.is_forward_pass
             PROVE  StatisticsInv'
  BY DEF StatisticsInv, Combine
<1> DEFINE new == KeysOf(local[t].data)
           old == KeysOf(total_data \cup local_data_collections)
<1>1. /\ thread'[t] = Combined /\ thread[t] # Combined
      /\ \A u \in Threads : u # t => local'[u] = local[u] /\ thread'[u] = thread[u]
  BY StatesDiffer DEF Combine, FlowInv, TypeOK
<1>2. UNCHANGED <<input, op, total_data>>  BY DEF Combine
<1>3. /\ new \in SUBSET Values /\ old \in SUBSET Values
      /\ KeysOf((total_data \cup local_data_collections) \cup local[t].data) = old \cup new
  <2>1. /\ local[t].data \in SUBSET DOMAIN input
        /\ total_data \cup local_data_collections \in SUBSET DOMAIN input
    BY DEF FlowInv, ChunksAccountedFor, Stored
  <2> QED  BY <2>1, KeysOfFacts
<1>4. /\ local[t].min_max = BoundsOf(new) /\ local[t].distinct = DistinctOf(new)
      /\ column_min_max = BoundsOf(old) /\ column_distinct = DistinctOf(old)
  BY <1>1 DEF StatisticsInv
<1>5. /\ column_min_max' = Widen(column_min_max, local[t].min_max)
      /\ column_distinct' = IF local[t].distinct.over_threshold THEN Overflown
                            ELSE AddDistinct(column_distinct, local[t].distinct.values)
      /\ local_data_collections' = local_data_collections \cup local[t].data
  BY DEF Combine
<1> HIDE DEF new, old
<1>6. column_min_max' = BoundsOf(old \cup new)  BY <1>3, <1>4, <1>5, WidenBounds
<1>7. column_distinct' = DistinctOf(old \cup new)
  <2>1. /\ AddDistinct(DistinctOf(old), new) = DistinctOf(old \cup new)
        /\ DistinctOf(new).over_threshold => DistinctOf(old \cup new) = Overflown
        /\ ~DistinctOf(new).over_threshold => DistinctOf(new).values = new
    BY <1>3, AddDistinctOf
  <2> QED  BY <1>4, <1>5, <2>1
<1>8. \A S : KeysOf(S)' = KeysOf(S)  BY <1>2 DEF KeysOf
<1>9. ASSUME NEW u \in Threads, thread'[u] # Combined
      PROVE  /\ local'[u].min_max = BoundsOf(KeysOf(local'[u].data))
             /\ local'[u].distinct = DistinctOf(KeysOf(local'[u].data))
  BY <1>1, <1>9 DEF StatisticsInv
<1>10. total_data' \cup local_data_collections'
            = (total_data \cup local_data_collections) \cup local[t].data
  BY <1>2, <1>5
<1>11. KeysOf(total_data' \cup local_data_collections') = old \cup new  BY <1>3, <1>10
<1>12. /\ column_min_max' = BoundsOf(KeysOf(total_data' \cup local_data_collections'))
       /\ column_distinct' = DistinctOf(KeysOf(total_data' \cup local_data_collections'))
  BY <1>6, <1>7, <1>11
<1> QED  BY <1>2, <1>9, <1>12 DEF StatisticsInv, KeysOf

\* Every step keeps the statistics exact.
LEMMA NextStatisticsExact ==
    ASSUME NaN \notin Values, FlowInv, StatisticsInv, [Next]_vars
    PROVE  StatisticsInv'
<1>1. ASSUME NEW t \in Threads, NEW c \in Chunks, SinkStart(t, c) \/ SinkFinished(t, c)
      PROVE  StatisticsInv'
  <2>1. thread[t] # Combined /\ \A u \in Threads : u # t => thread'[u] = thread[u]
    BY <1>1, StatesDiffer DEF SinkStart, SinkFinished, FlowInv, TypeOK
  <2> QED  BY <1>1, <2>1, SameExactStatistics DEF SinkStart, SinkFinished
<1>2. CASE RaiseFlag  BY <1>2, SameExactStatistics DEF RaiseFlag
<1>3. CASE UNCHANGED vars  BY <1>3, SameExactStatistics DEF vars
<1>4. CASE Finalize
  <2>1. total_data = {}  BY <1>4 DEF Finalize, FlowInv, FinalizeLast
  <2> QED  BY <1>4, <2>1, SameExactStatistics DEF Finalize
<1> QED  BY <1>1, <1>2, <1>3, <1>4, SinkIngestExact, CombineExact DEF Next

\* However the chunks were spread over the threads and in whatever order these were
\* combined, the bounds and the distinct values are those of all stored rows (Sink,
\* Combine, TypedUpdateMinMax, UpdateDistinctValues).  The column has no NaN.
THEOREM SinkStatisticsExact ==
    ASSUME NaN \notin Values
    PROVE  Spec => []StatisticsExact
<1>1. FlowInv /\ StatisticsInv => StatisticsExact
  <2> SUFFICES ASSUME FlowInv, StatisticsInv, finalized, op.is_forward_pass
               PROVE  /\ column_distinct = DistinctOf(KeysOf(total_data))
                      /\ column_min_max = BoundsOf(KeysOf(total_data))
    BY DEF StatisticsExact, DistinctOf, BoundsOf
  <2>1. total_data \cup local_data_collections = total_data  BY DEF FlowInv, FinalizeLast
  <2> QED  BY <2>1 DEF StatisticsInv
<1>2. FlowInv /\ StatisticsInv /\ [Next]_vars => FlowInv' /\ StatisticsInv'
  BY NextFlowInv, NextStatisticsExact
<1>3. Init => FlowInv /\ StatisticsInv
  BY InitFlowInv, InitStatisticsExact
<1> QED  BY <1>1, <1>2, <1>3, PTL DEF Spec

-----------------------------------------------------------------------------
\* The bloom filter is large enough.

\* Induction over the natural numbers, as a fact about sets.
LEMMA NaturalsInSet ==
    ASSUME NEW S, 0 \in S, \A n \in Nat : n \in S => n + 1 \in S
    PROVE  Nat \subseteq S
<1> SUFFICES ASSUME NEW n \in Nat, n \notin S
             PROVE  FALSE
  OBVIOUS
<1> DEFINE missing == {m \in 0 .. n : m \notin S}
           m == Least(missing)
<1>1. IsFiniteSet(missing) /\ missing \in SUBSET Nat /\ n \in missing
  <2>1. IsFiniteSet(0 .. n)  BY FS_Interval
  <2> QED  BY <2>1, FS_Subset
<1>2. m \in missing /\ \A o \in missing : m <= o  BY <1>1, Extremes
<1> HIDE DEF m
<1>3. m \in Nat /\ m # 0 /\ m <= n /\ m \notin S  BY <1>2
<1>4. m - 1 \in 0 .. n /\ (m - 1) + 1 = m /\ ~(m <= m - 1)  BY <1>3
<1>5. m - 1 \in S  BY <1>2, <1>4
<1> QED  BY <1>3, <1>4, <1>5

\* The equation that defines the powers of two has a solution.
LEMMA PowersOfTwoDef ==
    ASSUME NEW n \in Nat
    PROVE  PowersOfTwo(n) =
            [e \in 0 .. n |-> IF e = 0 THEN 1 ELSE 2 * PowersOfTwo(n)[e - 1]]
<1> DEFINE Solves(f, m) == f = [e \in 0 .. m |-> IF e = 0 THEN 1 ELSE 2 * f[e - 1]]
           Good == {m \in Nat : \E f : Solves(f, m)}
<1>1. 0 \in Good
  <2>1. Solves([e \in 0 .. 0 |-> 1], 0)  OBVIOUS
  <2> HIDE DEF Solves
  <2> QED  BY <2>1
<1>2. ASSUME NEW m \in Nat, m \in Good
      PROVE  m + 1 \in Good
  <2>1. PICK f : Solves(f, m)  BY <1>2
  <2> DEFINE h == [e \in 0 .. m + 1 |-> IF e <= m THEN f[e] ELSE 2 * f[m]]
  <2>2. \A e \in 0 .. m + 1 : h[e] = IF e = 0 THEN 1 ELSE 2 * h[e - 1]
    <3> TAKE e \in 0 .. m + 1
    <3>1. CASE e \in 0 .. m
      <4>1. h[e] = f[e] /\ (e # 0 => e - 1 \in 0 .. m /\ h[e - 1] = f[e - 1])  BY <3>1
      <4>2. f[e] = IF e = 0 THEN 1 ELSE 2 * f[e - 1]  BY <2>1, <3>1
      <4> QED  BY <4>1, <4>2
    <3>2. CASE e = m + 1
      <4>1. h[e - 1] = f[m] /\ e # 0  BY <3>2
      <4> QED  BY <3>2, <4>1
    <3> QED  BY <3>1, <3>2
  <2>3. h = [e \in 0 .. m + 1 |-> h[e]]  OBVIOUS
  <2> HIDE DEF h
  <2>4. Solves(h, m + 1)  BY <2>2, <2>3
  <2> HIDE DEF Solves
  <2> QED  BY <2>4
<1> HIDE DEF Good
<1>3. Nat \subseteq Good  BY <1>1, <1>2, NaturalsInSet
<1>4. \E f : Solves(f, n)  BY <1>3 DEF Good
<1>5. Solves(PowersOfTwo(n), n)  BY <1>4 DEF PowersOfTwo
<1> QED  BY <1>5

\* A power of two is greater than its exponent.
LEMMA PowersOfTwoFacts ==
    ASSUME NEW n \in Nat, NEW e \in 0 .. n
    PROVE  PowersOfTwo(n)[e] \in Nat /\ PowersOfTwo(n)[e] > e
<1> DEFINE p == PowersOfTwo(n)
           Good == {m \in Nat : m \in 0 .. n => p[m] \in Nat /\ p[m] > m}
<1>1. \A m \in 0 .. n : p[m] = IF m = 0 THEN 1 ELSE 2 * p[m - 1]
  <2>1. p = [m \in 0 .. n |-> IF m = 0 THEN 1 ELSE 2 * p[m - 1]]  BY PowersOfTwoDef
  <2> HIDE DEF p
  <2> QED  BY <2>1
<1> HIDE DEF p
<1>2. 0 \in Good  BY <1>1
<1>3. ASSUME NEW m \in Nat, m \in Good
      PROVE  m + 1 \in Good
  <2> SUFFICES ASSUME m + 1 \in 0 .. n
               PROVE  p[m + 1] \in Nat /\ p[m + 1] > m + 1
    OBVIOUS
  <2>1. m \in 0 .. n /\ p[m + 1] = 2 * p[m]
    <3>1. m \in 0 .. n /\ m + 1 # 0 /\ (m + 1) - 1 = m  OBVIOUS
    <3> QED  BY <1>1, <3>1
  <2>2. p[m] \in Nat /\ p[m] > m  BY <1>3, <2>1
  <2> QED  BY <2>1, <2>2
<1> HIDE DEF Good
<1>4. Nat \subseteq Good  BY <1>2, <1>3, NaturalsInSet
<1>5. e \in Good /\ e \in 0 .. n  BY <1>4
<1> QED  BY <1>5 DEF Good, p

\* The next power of two is not below the number.
LEMMA NextPowerOfTwoFacts ==
    ASSUME NEW n \in Nat
    PROVE  NextPowerOfTwo(n) \in Nat /\ NextPowerOfTwo(n) >= n
<1> DEFINE p == PowersOfTwo(n)
           reached == {e \in 0 .. n : p[e] >= n}
           least == Least(reached)
           k == CHOOSE e \in 0 .. n : p[e] >= n /\ (e = 0 \/ p[e - 1] < n)
<1>1. \A e \in 0 .. n : p[e] \in Nat /\ p[e] > e  BY PowersOfTwoFacts
<1> HIDE DEF p
<1>2. n \in reached
  <2>1. n \in 0 .. n  OBVIOUS
  <2> QED  BY <1>1, <2>1
<1>3. IsFiniteSet(reached) /\ reached \in SUBSET Nat
  <2>1. IsFiniteSet(0 .. n)  BY FS_Interval
  <2> QED  BY <2>1, FS_Subset
<1>4. least \in reached /\ \A o \in reached : least <= o  BY <1>2, <1>3, Extremes
<1>5. \E e \in 0 .. n : p[e] >= n /\ (e = 0 \/ p[e - 1] < n)
  <2> HIDE DEF least
  <2>1. least \in 0 .. n /\ p[least] >= n  BY <1>4
  <2>2. ASSUME least # 0 PROVE p[least - 1] < n
    <3>1. least - 1 \in 0 .. n /\ ~(least <= least - 1)  BY <2>1, <2>2
    <3>2. ~(p[least - 1] >= n)  BY <1>4, <3>1
    <3> QED  BY <1>1, <3>1, <3>2
  <2> QED  BY <2>1, <2>2
<1>6. k \in 0 .. n /\ p[k] >= n  BY <1>5
<1>7. NextPowerOfTwo(n) = p[k]  BY DEF NextPowerOfTwo, p
<1> HIDE DEF k
<1> QED  BY <1>1, <1>6, <1>7

\* A filter made for some rows has enough bits for them.
LEMMA AllocatedBitsSuffice ==
    ASSUME NEW rows \in Nat
    PROVE  rows * MinBitsPerRow <= AllocatedBits(rows)
<1> DEFINE wanted == IF rows * BitsPerRow > MinBits THEN rows * BitsPerRow ELSE MinBits
<1>1. /\ MinBits \in Nat /\ MinBitsPerRow \in Nat /\ BitsPerRow \in Nat
      /\ BitsPerRow - MinBitsPerRow \in Nat
  BY SizesAssumption
<1>2. \A a, b \in Nat : a * b \in Nat  OBVIOUS
<1>3. /\ rows * BitsPerRow \in Nat /\ rows * MinBitsPerRow \in Nat
      /\ rows * (BitsPerRow - MinBitsPerRow) \in Nat
  BY <1>1, <1>2
<1>4. rows * BitsPerRow = rows * MinBitsPerRow + rows * (BitsPerRow - MinBitsPerRow)
  BY <1>1
<1>5. rows * MinBitsPerRow <= rows * BitsPerRow  BY <1>3, <1>4
<1>6. wanted \in Nat /\ wanted >= rows * BitsPerRow  BY <1>1, <1>3
<1>7. NextPowerOfTwo(wanted) \in Nat /\ NextPowerOfTwo(wanted) >= wanted
  BY <1>6, NextPowerOfTwoFacts
<1>8. AllocatedBits(rows) = NextPowerOfTwo(wanted)  BY DEF AllocatedBits
<1> HIDE DEF wanted
<1> QED  BY <1>3, <1>5, <1>6, <1>7, <1>8

\* The bloom filter is right when Finalize leaves it and is not touched afterwards.
LEMMA NextEnoughBits ==
    ASSUME FlowInv, EnoughBits, [Next]_vars
    PROVE  EnoughBits'
<1>1. CASE Finalize
  <2> DEFINE rows == RowCount(Stored)
  <2>1. /\ bloom_filter' = [Resize(bloom_filter, total_data') EXCEPT !.finalized = TRUE]
        /\ input' = input
    BY <1>1 DEF Finalize
  <2>2. total_data' = Stored /\ bloom_filter.inserted = Stored
    BY <1>1, FinalizeFlow DEF FlowInv
  <2>3. bloom_filter \in [inserted : SUBSET Chunks, sized_for_rows : Nat, finalized : BOOLEAN]
    BY DEF FlowInv, TypeOK
  <2>4. rows \in Nat  BY RowCountType DEF FlowInv, TypeOK, ChunksAccountedFor
  <2>5. /\ bloom_filter'.inserted = Stored
        /\ rows * MinBitsPerRow <= AllocatedBits(bloom_filter'.sized_for_rows)
    <3>1. CASE rows * MinBitsPerRow > AllocatedBits(bloom_filter.sized_for_rows)
      <4>1. bloom_filter'.inserted = Stored /\ bloom_filter'.sized_for_rows = rows
        BY <2>1, <2>2, <2>3, <3>1 DEF Resize
      <4> QED  BY <2>4, <4>1, AllocatedBitsSuffice
    <3>2. CASE ~(rows * MinBitsPerRow > AllocatedBits(bloom_filter.sized_for_rows))
      <4>1. /\ bloom_filter'.inserted = Stored
            /\ bloom_filter'.sized_for_rows = bloom_filter.sized_for_rows
        BY <2>1, <2>2, <2>3, <3>2 DEF Resize
      <4>2. AllocatedBits(bloom_filter.sized_for_rows) \in Nat
        <5>1. bloom_filter.sized_for_rows \in Nat  BY <2>3
        <5>2. bloom_filter.sized_for_rows * BitsPerRow \in Nat /\ MinBits \in Nat
          BY <5>1, SizesAssumption
        <5> QED  BY <5>2, NextPowerOfTwoFacts DEF AllocatedBits
      <4>3. rows * MinBitsPerRow \in Nat  BY <2>4, SizesAssumption
      <4> QED  BY <3>2, <4>1, <4>2, <4>3
    <3> QED  BY <3>1, <3>2
  <2>6. \A S : RowCount(S)' = RowCount(S)  BY <2>1 DEF RowCount
  <2> QED  BY <2>5, <2>6 DEF EnoughBits, RowCount
<1>2. CASE finalized
  <2>1. \A t \in Threads : thread[t] = Combined  BY <1>2 DEF FlowInv, FinalizeLast
  <2>2. UNCHANGED <<input, bloom_filter, finalized>>
    BY <1>2, <2>1, StatesDiffer
       DEF Next, vars, SinkStart, SinkFinished, SinkIngest, Combine, RaiseFlag, Finalize
  <2> QED  BY <2>2 DEF EnoughBits, RowCount
<1>3. CASE ~finalized /\ ~Finalize
  BY <1>3 DEF EnoughBits, Next, vars, SinkStart, SinkFinished, SinkIngest, Combine, RaiseFlag
<1> QED  BY <1>1, <1>2, <1>3

\* A finalized bloom filter is not undersized, whatever was estimated and however the
\* estimate was cut to a uint32_t (PTBloomFilter::Initialize, Finalize).
THEOREM SinkEnoughBits == Spec => []EnoughBits
<1>1. Init => EnoughBits  BY DEF Init, EnoughBits
<1>2. FlowInv /\ EnoughBits /\ [Next]_vars => EnoughBits'  BY NextEnoughBits
<1> QED  BY <1>1, <1>2, FlowInvariant, PTL DEF Spec

=============================================================================
