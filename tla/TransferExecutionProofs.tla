----------------------- MODULE TransferExecutionProofs -----------------------
(***************************************************************************)
(* Proofs about TransferExecution, for any number of tables and columns,   *)
(* any contents and any hash function: the plans of the optimizer are      *)
(* sound, and filters, links and flags change nothing about the result of  *)
(* a query with a sound plan, in whatever order the pipelines run.         *)
(***************************************************************************)
EXTENDS TransferExecution, FilterPlacementProofs

-----------------------------------------------------------------------------
\* Sound plans: what is true of one operation.

\* Two lists of columns, each the other's counterpart position by position.
Paired(cls, a, b) == DOMAIN a = DOMAIN b /\ \A i \in DOMAIN a : Together(cls, a[i], b[i])

\* A PROBE of table t tests columns of t with those they are joined with; a CREATE
\* of table t builds filters on columns of t.
SoundOp(cls, t, op) ==
    /\ op.is_create => \A x \in ToSet(op.build_columns) : x[1] = t
    /\ ~ op.is_create => /\ \A x \in ToSet(op.probe_columns) : x[1] = t
                         /\ Paired(cls, op.build_columns, op.probe_columns)

SoundOps(cls, t, ops) == \A i \in DOMAIN ops : SoundOp(cls, t, ops[i])

\* What a CREATE may push: the filter of a build column goes to the column at its
\* position, unless that is a target of an earlier one.
SoundPushes(cls, op) ==
    \A i \in DOMAIN op.build_columns \cap DOMAIN op.probe_columns :
        (\A k \in DOMAIN op.build_columns \cap DOMAIN op.probe_columns :
            op.probe_columns[k] = op.probe_columns[i] => i <= k)
        => Together(cls, op.build_columns[i], op.probe_columns[i])

-----------------------------------------------------------------------------
\* Merging keeps operations sound.

LEMMA MergedSound ==
    ASSUME NEW cls, NEW t, NEW ops, ProbesThenCreates(t, ops), SoundOps(cls, t, ops)
    PROVE  SoundOps(cls, t, MergeCreates(ops))
<1> DEFINE out == MergeCreates(ops)
<1>1. /\ \A i \in DOMAIN out : out[i].is_create => StandsFor(out[i], ops, Len(ops))
      /\ \A i \in DOMAIN out : ~ out[i].is_create => \E j \in DOMAIN ops : out[i] = ops[j]
  BY MergeCreatesFacts
<1>2. DOMAIN ops = 1 .. Len(ops)
  BY DEF ProbesThenCreates
<1> HIDE DEF out
<1> SUFFICES ASSUME NEW i \in DOMAIN out PROVE SoundOp(cls, t, out[i])
  BY DEF SoundOps, out
<1>3. CASE out[i].is_create
  <2>1. ASSUME NEW x \in ToSet(out[i].build_columns)
        PROVE  x[1] = t
    <3>1. PICK j \in 1 .. Len(ops) : ops[j].is_create /\ x \in ToSet(ops[j].build_columns)
      BY <1>1, <1>3 DEF StandsFor
    <3> QED BY <1>2, <3>1 DEF SoundOps, SoundOp
  <2> QED BY <1>3, <2>1 DEF SoundOp
<1>4. CASE ~ out[i].is_create
  BY <1>1, <1>4 DEF SoundOps
<1> QED BY <1>3, <1>4

\* When all CREATEs of a pass join on one class, so do their merged columns.
LEMMA MergedOnClass ==
    ASSUME NEW cls, NEW t, NEW ops, ProbesThenCreates(t, ops), NEW class \in cls,
           \A j \in DOMAIN ops : ops[j].is_create =>
                /\ ToSet(ops[j].build_columns) \subseteq class
                /\ ToSet(ops[j].probe_columns) \subseteq class
    PROVE  \A i \in DOMAIN MergeCreates(ops) :
                MergeCreates(ops)[i].is_create => SoundPushes(cls, MergeCreates(ops)[i])
<1> DEFINE out == MergeCreates(ops)
<1>1. \A i \in DOMAIN out : out[i].is_create => StandsFor(out[i], ops, Len(ops))
  BY MergeCreatesFacts
<1>2. DOMAIN ops = 1 .. Len(ops)
  BY DEF ProbesThenCreates
<1> HIDE DEF out
<1> SUFFICES ASSUME NEW i \in DOMAIN out, out[i].is_create PROVE SoundPushes(cls, out[i])
  BY DEF out
<1>3. /\ ToSet(out[i].build_columns) \subseteq class
      /\ ToSet(out[i].probe_columns) \subseteq class
  BY <1>1, <1>2 DEF StandsFor
<1> QED BY <1>3 DEF SoundPushes, ToSet, Together

\* Of two CREATEs of one column each, the merged one still has the first at its
\* place; there is no third.
AtMostTwo(ops) ==
    \A i, j, k \in DOMAIN ops :
        (ops[i].is_create /\ ops[j].is_create /\ ops[k].is_create) => (i = j \/ j = k \/ i = k)

RunSound(cls, ops, k, acc) ==
    /\ \A i \in DOMAIN acc.out : acc.out[i].is_create => SoundPushes(cls, acc.out[i])
    /\ acc.run = 1 => \E i \in 1 .. k : ops[i].is_create
    /\ acc.run = 2 => \E i, j \in 1 .. k : i # j /\ ops[i].is_create /\ ops[j].is_create
    /\ acc.run <= 2

LEMMA TwoMerged ==
    ASSUME NEW cls, NEW S, NEW A \in Seq(S), NEW B \in Seq(S), NEW X \in Seq(S), NEW Y \in Seq(S),
           Len(A) = 1, Len(B) = 1, Len(X) = 1, Len(Y) = 1, Together(cls, A[1], X[1])
    PROVE  LET build == A \o B
               probe == X \o X \o Y
           IN  \A i \in DOMAIN build \cap DOMAIN probe :
                    (\A k \in DOMAIN build \cap DOMAIN probe : probe[k] = probe[i] => i <= k)
                        => Together(cls, build[i], probe[i])
<1> DEFINE build == A \o B
           probe == X \o X \o Y
<1>1. \A u, v \in Seq(S) :
        /\ u \o v \in Seq(S) /\ Len(u \o v) = Len(u) + Len(v)
        /\ DOMAIN u = 1 .. Len(u) /\ DOMAIN (u \o v) = 1 .. Len(u) + Len(v)
        /\ \A i \in DOMAIN u : (u \o v)[i] = u[i]
        /\ \A i \in DOMAIN v : (u \o v)[Len(u) + i] = v[i]
  <2> SUFFICES ASSUME NEW u \in Seq(S), NEW v \in Seq(S)
               PROVE  /\ u \o v \in Seq(S) /\ Len(u \o v) = Len(u) + Len(v)
                      /\ DOMAIN u = 1 .. Len(u) /\ DOMAIN (u \o v) = 1 .. Len(u) + Len(v)
                      /\ \A i \in DOMAIN u : (u \o v)[i] = u[i]
                      /\ \A i \in DOMAIN v : (u \o v)[Len(u) + i] = v[i]
    OBVIOUS
  <2>1. /\ DOMAIN (u \o v) = 1 .. Len(u) + Len(v) /\ Len(u \o v) = Len(u) + Len(v)
        /\ DOMAIN u = 1 .. Len(u) /\ DOMAIN v = 1 .. Len(v)
        /\ Len(u) \in Nat /\ Len(v) \in Nat
        /\ u \o v \in Seq(S)
    OBVIOUS
  <2>2. \A i \in DOMAIN u : (u \o v)[i] = u[i]
    BY <2>1
  <2>3. \A i \in DOMAIN v : (u \o v)[Len(u) + i] = v[i]
    BY <2>1
  <2> QED BY <2>1, <2>2, <2>3
<1>2. DOMAIN build = 1 .. 2 /\ build[1] = A[1]
  BY <1>1
<1> DEFINE Z == X \o X
<1>3. Z \in Seq(S) /\ Len(Z) = 2 /\ Z[1] = X[1] /\ Z[2] = X[1]
  <2>1. 1 \in 1 .. Len(X) /\ Len(X) + 1 = 2
    OBVIOUS
  <2>2. Z[Len(X) + 1] = X[1]
    BY <1>1, <2>1
  <2> QED BY <1>1, <2>1, <2>2
<1> HIDE DEF Z
<1>4. DOMAIN (Z \o Y) = 1 .. 3 /\ (Z \o Y)[1] = X[1] /\ (Z \o Y)[2] = X[1]
  <2>1. DOMAIN (Z \o Y) = 1 .. 2 + 1 /\ \A i \in 1 .. 2 : (Z \o Y)[i] = Z[i]
    BY <1>1, <1>3
  <2> QED BY <1>3, <2>1
<1>5. DOMAIN probe = 1 .. 3 /\ probe[1] = X[1] /\ probe[2] = X[1]
  BY <1>4 DEF Z
<1> HIDE DEF build, probe
<1> SUFFICES ASSUME NEW i \in DOMAIN build \cap DOMAIN probe,
                    \A k \in DOMAIN build \cap DOMAIN probe : probe[k] = probe[i] => i <= k
             PROVE  Together(cls, build[i], probe[i])
  BY DEF build, probe
<1>6. i \in 1 .. 2 /\ 1 \in DOMAIN build \cap DOMAIN probe
  BY <1>2, <1>5
<1>7. i = 1
  BY <1>5, <1>6
<1> QED BY <1>2, <1>5, <1>7

\* The CREATEs of a pass are at most two, and if there are two, of one pair each.
FewCreates(cls, ops) ==
    /\ AtMostTwo(ops)
    /\ \A i \in DOMAIN ops : ops[i].is_create => SoundPushes(cls, ops[i])
    /\ \A i, j \in DOMAIN ops : (i # j /\ ops[i].is_create /\ ops[j].is_create) =>
            /\ Len(ops[i].build_columns) = 1 /\ Len(ops[i].probe_columns) = 1
            /\ Together(cls, ops[i].build_columns[1], ops[i].probe_columns[1])

LEMMA AddOperationSound ==
    ASSUME NEW cls, NEW t, NEW ops, ProbesThenCreates(t, ops), FewCreates(cls, ops),
           NEW k \in Nat, k + 1 \in DOMAIN ops, NEW acc,
           MergedSoFar(ops, k, acc), RunSound(cls, ops, k, acc)
    PROVE  RunSound(cls, ops, k + 1, AddOperation(acc, ops[k + 1]))
<1> DEFINE op   == ops[k + 1]
           last == acc.out[Len(acc.out)]
<1>1. /\ op \in FilterOp
      /\ \A j \in 1 .. k + 1 : j \in DOMAIN ops /\ ops[j] \in FilterOp
      /\ \A j \in 1 .. k : j \in 1 .. k + 1 /\ j # k + 1
      /\ k + 1 \in 1 .. k + 1
      /\ acc.out \in Seq(FilterOp) /\ acc.run \in Nat /\ Len(acc.out) \in Nat
  BY DEF ProbesThenCreates, MergedSoFar
<1>2. CASE acc.run > 0
  <2>1. PICK j \in 1 .. k : ops[j].is_create /\ acc.first = ops[j]
    BY <1>2 DEF MergedSoFar
  <2>2. op.is_create
    <3>1. j \in DOMAIN ops /\ k + 1 \in DOMAIN ops /\ ~ (k + 1 < j)
      BY <1>1
    <3> QED BY <2>1, <3>1 DEF ProbesThenCreates
  <2>3. /\ Len(acc.out) \in DOMAIN acc.out /\ Last(acc.out) = last
        /\ last \in FilterOp /\ StandsFor(last, ops, k)
    BY <1>1, <1>2 DEF MergedSoFar, Last
  <2>4. op.build_table = last.build_table
    BY <1>1, <2>2, <2>3 DEF ProbesThenCreates, StandsFor
  <2>5. acc.run = 1
    <3> SUFFICES ASSUME acc.run = 2 PROVE FALSE
      BY <1>1, <1>2 DEF RunSound
    <3>1. PICK a, b \in 1 .. k : a # b /\ ops[a].is_create /\ ops[b].is_create
      BY DEF RunSound
    <3>2. a \in DOMAIN ops /\ b \in DOMAIN ops /\ a # k + 1 /\ b # k + 1
      BY <1>1
    <3> QED BY <2>2, <3>1, <3>2 DEF FewCreates, AtMostTwo
  <2>6. last = acc.first
    BY <2>5 DEF MergedSoFar
  <2> DEFINE merged == AddToRun(acc.first, acc.run, last, op)
             out    == [acc.out EXCEPT ![Len(acc.out)] = merged]
  <2>7. AddOperation(acc, op) = [out |-> out, first |-> acc.first, run |-> 2]
    <3>1. AddOperation(acc, op) = [out |-> out, first |-> acc.first, run |-> acc.run + 1]
      BY <1>2, <2>2, <2>3, <2>4 DEF AddOperation, MergedSoFar
    <3> QED BY <2>5, <3>1
  <2>8. /\ merged.build_columns = last.build_columns \o op.build_columns
        /\ merged.probe_columns = last.probe_columns \o last.probe_columns \o op.probe_columns
    BY <2>3, <2>5, <2>6 DEF AddToRun, FilterOp
  <2> HIDE DEF merged
  <2>9. SoundPushes(cls, merged)
    <3> DEFINE S == Tables \X Columns
               A == last.build_columns
               B == op.build_columns
               X == last.probe_columns
               Y == op.probe_columns
    <3>1. A \in Seq(S) /\ B \in Seq(S) /\ X \in Seq(S) /\ Y \in Seq(S)
      BY <1>1, <2>3 DEF FilterOp
    <3>2. Len(A) = 1 /\ Len(B) = 1 /\ Len(X) = 1 /\ Len(Y) = 1 /\ Together(cls, A[1], X[1])
      BY <1>1, <2>1, <2>2, <2>6 DEF FewCreates
    <3>3. merged.build_columns = A \o B /\ merged.probe_columns = X \o X \o Y
      BY <2>8
    <3> HIDE DEF S, A, B, X, Y
    <3> QED BY <3>1, <3>2, <3>3, TwoMerged DEF SoundPushes
  <2>10. /\ DOMAIN out = DOMAIN acc.out
         /\ \A i \in DOMAIN out : out[i] = merged \/ out[i] = acc.out[i]
    BY <1>1, <2>3
  <2> HIDE DEF out
  <2>11. \A i \in DOMAIN out : out[i].is_create => SoundPushes(cls, out[i])
    BY <2>9, <2>10 DEF RunSound
  <2>12. \E a, b \in 1 .. k + 1 : a # b /\ ops[a].is_create /\ ops[b].is_create
    BY <1>1, <2>1, <2>2
  <2> QED BY <2>7, <2>11, <2>12 DEF RunSound
<1>3. CASE acc.run = 0
  <2> DEFINE out == Append(acc.out, op)
             run == IF op.is_create THEN 1 ELSE 0
  <2>1. AddOperation(acc, op) = [out |-> out, first |-> op, run |-> run]
    BY <1>3 DEF AddOperation
  <2>2. /\ DOMAIN out = DOMAIN acc.out \cup {Len(out)}
        /\ out[Len(out)] = op
        /\ \A i \in DOMAIN acc.out : out[i] = acc.out[i]
    BY <1>1, AppendFacts
  <2> HIDE DEF out
  <2>3. \A i \in DOMAIN out : out[i].is_create => SoundPushes(cls, out[i])
    BY <1>1, <2>2 DEF RunSound, FewCreates
  <2>4. run = 1 => \E i \in 1 .. k + 1 : ops[i].is_create
    BY <1>1
  <2>5. run # 2 /\ run <= 2
    OBVIOUS
  <2> HIDE DEF run
  <2> QED BY <2>1, <2>3, <2>4, <2>5 DEF RunSound
<1> QED BY <1>1, <1>2, <1>3

\* So what such CREATEs are merged into pushes no filter to a wrong column.
LEMMA MergedFew ==
    ASSUME NEW cls, NEW t, NEW ops, ProbesThenCreates(t, ops), FewCreates(cls, ops)
    PROVE  \A i \in DOMAIN MergeCreates(ops) :
                MergeCreates(ops)[i].is_create => SoundPushes(cls, MergeCreates(ops)[i])
<1> DEFINE M == MergedUpTo(ops)
           Good == {k \in Nat : k <= Len(ops) =>
                        MergedSoFar(ops, k, M[k]) /\ RunSound(cls, ops, k, M[k])}
<1>1. Len(ops) \in Nat /\ DOMAIN ops = 1 .. Len(ops)
  BY DEF ProbesThenCreates
<1>2. /\ M[0] = [out |-> << >>, first |-> << >>, run |-> 0]
      /\ \A k \in Nat : k + 1 <= Len(ops) => M[k + 1] = AddOperation(M[k], ops[k + 1])
  <2>1. \A k \in 0 .. Len(ops) :
            M[k] = IF k = 0 THEN [out |-> << >>, first |-> << >>, run |-> 0]
                   ELSE AddOperation(M[k - 1], ops[k])
    BY <1>1, MergedUpToDef
  <2> HIDE DEF M
  <2> QED BY <1>1, <2>1
<1> HIDE DEF M
<1>3. 0 \in Good
  <2>1. << >> \in Seq(FilterOp) /\ DOMAIN << >> = {} /\ 1 .. 0 = {}
    OBVIOUS
  <2>2. /\ M[0].out = << >> /\ M[0].run = 0 /\ 0 \in Nat
        /\ M[0] = [out |-> M[0].out, first |-> M[0].first, run |-> M[0].run]
    BY <1>2
  <2>3. MergedSoFar(ops, 0, M[0])
    BY <2>1, <2>2 DEF MergedSoFar
  <2>4. RunSound(cls, ops, 0, M[0])
    BY <2>1, <2>2 DEF RunSound
  <2> QED BY <2>3, <2>4
<1>4. ASSUME NEW k \in Nat, k \in Good
      PROVE  k + 1 \in Good
  <2> SUFFICES ASSUME k + 1 <= Len(ops)
               PROVE  MergedSoFar(ops, k + 1, M[k + 1]) /\ RunSound(cls, ops, k + 1, M[k + 1])
    OBVIOUS
  <2>1. k + 1 \in DOMAIN ops /\ k <= Len(ops)
    BY <1>1
  <2> QED BY <1>2, <1>4, <2>1, AddOperationFacts, AddOperationSound
<1> HIDE DEF Good
<1>5. Nat \subseteq Good
  BY <1>3, <1>4, SetInduction
<1>6. RunSound(cls, ops, Len(ops), M[Len(ops)])
  BY <1>1, <1>5 DEF Good
<1>7. MergeCreates(ops) = M[Len(ops)].out
  BY DEF MergeCreates, M
<1> QED BY <1>6, <1>7 DEF RunSound

-----------------------------------------------------------------------------
\* The invariant.

AllSound(cls, f) == \A t \in Tables : SoundOps(cls, t, f[t])

\* Every source of a class is the first pair of an edge that has been processed.
SourceEdges(g, tds, sources) ==
    \A s \in sources : \E p, c \in Tables :
        /\ Linked(g, p, c) /\ <<p, c>> \notin tds
        /\ s.table = p /\ s.columns = ColsOfParent(g, p, c)

SoundGraph ==
    /\ PairsTogether(edges, classes) /\ ClassesDisjoint(classes)
    /\ stage # "tree" => OnePairIfMerged(edges) /\ FewParents(edges, classes)
    /\ heuristic = "join_order" => OnePairIfBroadcast(edges, classes)

SoundPasses ==
    /\ AllSound(classes, forward_filter_ops) /\ AllSound(classes, backward_filter_ops)
    /\ ForEdges(edges, forward_filter_ops)
    /\ stage = "forward" => EdgesDone(forward_filter_ops, todo)
    /\ stage = "backward" => SourceEdges(edges, todo, equiv_class_bf_source)

SoundStacks ==
    step \in {"link", "pushdown", "planned"} =>
        \A t \in Tables : \A i \in DOMAIN stacks[t] :
            /\ SoundOp(classes, t, stacks[t][i])
            /\ (stacks[t][i].is_create /\ stacks[t][i].forward) =>
                    SoundPushes(classes, stacks[t][i])

SoundInv == SoundGraph /\ SoundPasses /\ SoundStacks

-----------------------------------------------------------------------------
\* The passes keep it.

LEMMA PairsOfEdge ==
    ASSUME GraphInv, PairsTogether(edges, classes),
           NEW p \in Tables, NEW c \in Tables, Linked(edges, p, c)
    PROVE  /\ Paired(classes, ChildCols(p, c), ParentCols(p, c))
           /\ Paired(classes, ParentCols(p, c), ChildCols(p, c))
           /\ \A x \in ToSet(ParentCols(p, c)) : x[1] = p
           /\ \A x \in ToSet(ChildCols(p, c)) : x[1] = c
<1>1. \A i \in DOMAIN edges[p, c] :
        Together(classes, <<p, edges[p, c][i][1]>>, <<c, edges[p, c][i][2]>>)
  <2>1. <<p, c>> \in Tables \X Tables /\ <<p, c>>[1] = p /\ <<p, c>>[2] = c
    OBVIOUS
  <2> QED BY <2>1 DEF PairsTogether
<1>2. /\ Paired(classes, ChildCols(p, c), ParentCols(p, c))
      /\ Paired(classes, ParentCols(p, c), ChildCols(p, c))
  BY <1>1 DEF Paired, ChildCols, ParentCols, Together
<1> QED BY <1>2, EdgeColumns

LEMMA AppendSound ==
    ASSUME NEW cls, NEW f \in [Tables -> Seq(FilterOp)], AllSound(cls, f),
           NEW a \in Tables, NEW x \in FilterOp, SoundOp(cls, a, x),
           NEW b \in Tables, NEW y \in FilterOp, SoundOp(cls, b, y), a # b
    PROVE  AllSound(cls, [f EXCEPT ![a] = Append(@, x), ![b] = Append(@, y)])
<1> DEFINE g == [f EXCEPT ![a] = Append(@, x)]
           h == [g EXCEPT ![b] = Append(@, y)]
<1>1. /\ g \in [Tables -> Seq(FilterOp)]
      /\ \A t \in Tables : \A i \in DOMAIN g[t] :
                \/ i \in DOMAIN f[t] /\ g[t][i] = f[t][i]
                \/ t = a /\ g[t][i] = x
  BY AppendOne
<1> HIDE DEF g
<1>2. \A t \in Tables : \A i \in DOMAIN h[t] :
                \/ i \in DOMAIN g[t] /\ h[t][i] = g[t][i]
                \/ t = b /\ h[t][i] = y
  BY <1>1, AppendOne
<1>3. [f EXCEPT ![a] = Append(@, x), ![b] = Append(@, y)] = h
  BY DEF g
<1> HIDE DEF h
<1>4. AllSound(cls, h)
  BY <1>1, <1>2 DEF AllSound, SoundOps
<1> QED BY <1>3, <1>4

LEMMA TodoEdge ==
    ASSUME StageInv, PairsTogether(edges, classes),
           NEW p \in Tables, NEW c \in Tables, <<p, c>> \in todo
    PROVE  /\ Linked(edges, p, c) /\ p # c
           /\ sequence \in Nat /\ sequence + 1 \in Nat
           /\ ParentCols(p, c) \in Seq(Tables \X Columns)
           /\ ChildCols(p, c) \in Seq(Tables \X Columns)
           /\ Paired(classes, ChildCols(p, c), ParentCols(p, c))
           /\ Paired(classes, ParentCols(p, c), ChildCols(p, c))
           /\ \A x \in ToSet(ParentCols(p, c)) : x[1] = p
           /\ \A x \in ToSet(ChildCols(p, c)) : x[1] = c
<1>1. GraphInv
  BY DEF StageInv
<1>2. <<p, c>> \in LevelledEdges(edges, level)
  BY <1>1 DEF GraphInv
<1>3. Linked(edges, p, c) /\ level[p] < level[c] /\ level[p] \in Int
  BY <1>1, <1>2, NumTablesAssumption DEF GraphInv, LevelledEdges
<1>4. sequence \in Nat /\ sequence + 1 \in Nat
  BY <1>1 DEF GraphInv
<1> QED BY <1>1, <1>3, <1>4, PairsOfEdge, EdgeColumns

LEMMA ForwardSound ==
    ASSUME StageInv, SoundInv, stage = "forward",
           NEW p \in Tables, NEW c \in Tables, <<p, c>> \in todo, AddForward(p, c)
    PROVE  SoundPasses'
<1> DEFINE f  == forward_filter_ops
           cr == CreateOp(c, ChildCols(p, c), p, ParentCols(p, c), TRUE, sequence)
           pr == ProbeOp(c, ChildCols(p, c), p, ParentCols(p, c), TRUE, sequence + 1)
           h  == [f EXCEPT ![c] = Append(@, cr), ![p] = Append(@, pr)]
<1>1. PairsTogether(edges, classes) /\ SoundPasses /\ f \in [Tables -> Seq(FilterOp)]
  BY DEF SoundInv, SoundGraph, StageInv, ForwardInv
<1>2. /\ forward_filter_ops' = h /\ todo' = todo \ {<<p, c>>}
      /\ UNCHANGED <<edges, classes, backward_filter_ops, stage>>
  BY DEF AddForward
<1>3. /\ Linked(edges, p, c) /\ p # c
      /\ sequence \in Nat /\ sequence + 1 \in Nat
      /\ ParentCols(p, c) \in Seq(Tables \X Columns)
      /\ ChildCols(p, c) \in Seq(Tables \X Columns)
      /\ Paired(classes, ChildCols(p, c), ParentCols(p, c))
      /\ \A x \in ToSet(ParentCols(p, c)) : x[1] = p
      /\ \A x \in ToSet(ChildCols(p, c)) : x[1] = c
  BY <1>1, TodoEdge
<1> HIDE DEF h
<1>4. /\ cr \in FilterOp /\ cr.is_create /\ cr.probe_table = p
      /\ cr.build_columns = ChildCols(p, c) /\ cr.probe_columns = ParentCols(p, c)
  BY <1>3 DEF CreateOp, FilterOp
<1>5. /\ pr \in FilterOp /\ ~ pr.is_create
      /\ pr.build_columns = ChildCols(p, c) /\ pr.probe_columns = ParentCols(p, c)
  BY <1>3 DEF CreateOp, ProbeOp, FilterOp
<1> HIDE DEF cr, pr
<1>6. SoundOp(classes, c, cr) /\ SoundOp(classes, p, pr)
  BY <1>3, <1>4, <1>5 DEF SoundOp
<1>7. AllSound(classes, f)
  BY <1>1 DEF SoundPasses
<1>8. AllSound(classes, h)
  BY <1>1, <1>3, <1>4, <1>5, <1>6, <1>7, AppendSound DEF h
<1>9. ForEdges(edges, h) /\ EdgesDone(h, todo \ {<<p, c>>})
  <2>1. ForEdges(edges, f) /\ EdgesDone(f, todo)
    BY <1>1 DEF SoundPasses
  <2>2. cr.build_columns = ColsOfChild(edges, p, c) /\ cr.probe_columns = ColsOfParent(edges, p, c)
    BY <1>4 DEF ColsOfChild, ColsOfParent, ChildCols, ParentCols
  <2> HIDE DEF f
  <2>3. f \in [Tables -> Seq(FilterOp)]
    BY <1>1
  <2> QED BY <1>3, <1>4, <1>5, <2>1, <2>2, <2>3, AppendForEdge DEF h
<1>10. stage' # "backward" /\ classes' = classes /\ edges' = edges
  BY <1>2
<1> HIDE DEF f
<1> QED BY <1>1, <1>2, <1>8, <1>9, <1>10 DEF SoundPasses

LEMMA BackwardSound ==
    ASSUME StageInv, SoundInv, stage = "backward",
           NEW p \in Tables, NEW c \in Tables, <<p, c>> \in todo, AddBackward(p, c),
           todo' = todo \ {<<p, c>>},
           UNCHANGED <<edges, classes, forward_filter_ops, stage>>,
           \A s \in equiv_class_bf_source' :
                \/ s \in equiv_class_bf_source
                \/ s.table = p /\ s.columns = ParentCols(p, c)
    PROVE  SoundPasses'
<1> DEFINE f  == backward_filter_ops
           cr == CreateOp(p, ParentCols(p, c), c, ChildCols(p, c), FALSE, sequence)
           pr == ProbeOp(p, ParentCols(p, c), c, ChildCols(p, c), FALSE, sequence + 1)
           h  == [f EXCEPT ![p] = Append(@, cr), ![c] = Append(@, pr)]
<1>1. PairsTogether(edges, classes) /\ SoundPasses /\ f \in [Tables -> Seq(FilterOp)]
  BY DEF SoundInv, SoundGraph, StageInv, BackwardInv
<1>2. backward_filter_ops' = h
  BY DEF AddBackward
<1>3. /\ Linked(edges, p, c) /\ p # c
      /\ sequence \in Nat /\ sequence + 1 \in Nat
      /\ ParentCols(p, c) \in Seq(Tables \X Columns)
      /\ ChildCols(p, c) \in Seq(Tables \X Columns)
      /\ Paired(classes, ParentCols(p, c), ChildCols(p, c))
      /\ \A x \in ToSet(ParentCols(p, c)) : x[1] = p
      /\ \A x \in ToSet(ChildCols(p, c)) : x[1] = c
  BY <1>1, TodoEdge
<1> HIDE DEF h
<1>4. /\ cr \in FilterOp /\ cr.is_create /\ cr.build_columns = ParentCols(p, c)
  BY <1>3 DEF CreateOp, FilterOp
<1>5. /\ pr \in FilterOp /\ ~ pr.is_create
      /\ pr.build_columns = ParentCols(p, c) /\ pr.probe_columns = ChildCols(p, c)
  BY <1>3 DEF CreateOp, ProbeOp, FilterOp
<1> HIDE DEF cr, pr
<1>6. SoundOp(classes, p, cr) /\ SoundOp(classes, c, pr)
  BY <1>3, <1>4, <1>5 DEF SoundOp
<1>7. AllSound(classes, f)
  BY <1>1 DEF SoundPasses
<1>8. AllSound(classes, h)
  BY <1>1, <1>3, <1>4, <1>5, <1>6, <1>7, AppendSound DEF h
<1>9. SourceEdges(edges, todo', equiv_class_bf_source')
  <2>1. SourceEdges(edges, todo, equiv_class_bf_source)
    BY <1>1 DEF SoundPasses
  <2>2. ParentCols(p, c) = ColsOfParent(edges, p, c)
    BY DEF ColsOfParent, ParentCols
  <2>3. ASSUME NEW s \in equiv_class_bf_source'
        PROVE  \E q, d \in Tables : /\ Linked(edges, q, d) /\ <<q, d>> \notin todo'
                                    /\ s.table = q /\ s.columns = ColsOfParent(edges, q, d)
    <3>1. CASE s \in equiv_class_bf_source
      BY <2>1, <3>1 DEF SourceEdges
    <3>2. CASE s.table = p /\ s.columns = ParentCols(p, c)
      BY <1>3, <2>2, <3>2
    <3> QED BY <2>3, <3>1, <3>2
  <2> QED BY <2>3 DEF SourceEdges
<1> HIDE DEF f
<1>10. stage' # "forward" /\ classes' = classes /\ edges' = edges
      /\ forward_filter_ops' = forward_filter_ops
  OBVIOUS
<1> QED BY <1>1, <1>2, <1>8, <1>9, <1>10 DEF SoundPasses

\* Columns of one class lie together, and classes do not overlap.
LEMMA OneClass ==
    ASSUME NEW cls, NEW x, NEW y, Together(cls, x, x), Together(cls, y, y),
           ClassIn(cls, x) = ClassIn(cls, y)
    PROVE  Together(cls, x, y)
<1>1. /\ ClassIn(cls, x) \in cls /\ x \in ClassIn(cls, x)
      /\ ClassIn(cls, y) \in cls /\ y \in ClassIn(cls, y)
  BY DEF Together, ClassIn
<1> QED BY <1>1 DEF Together

LEMMA TogetherFollows ==
    ASSUME NEW cls, ClassesDisjoint(cls), NEW x, NEW y, NEW z,
           Together(cls, x, y), Together(cls, y, z)
    PROVE  Together(cls, x, z)
<1>1. PICK k \in cls : x \in k /\ y \in k
  BY DEF Together
<1>2. PICK l \in cls : y \in l /\ z \in l
  BY DEF Together
<1>3. k = l
  <2>1. y \in k \cap l
    BY <1>1, <1>2
  <2> QED BY <2>1 DEF ClassesDisjoint
<1> QED BY <1>1, <1>2, <1>3 DEF Together

\* A broadcast filter has one column, and the child has one that lies with it.
LEMMA BroadcastPair ==
    ASSUME StageInv, SoundInv, stage = "backward", heuristic = "join_order",
           NEW p \in Tables, NEW c \in Tables, <<p, c>> \in todo,
           NEW source \in SourcesFor(<<p, c>>)
    PROVE  /\ Paired(classes, source.columns, ChildCols(p, c))
           /\ \A x \in ToSet(source.columns) : x[1] = source.table
<1>1. /\ PairsTogether(edges, classes) /\ ClassesDisjoint(classes)
      /\ OnePairIfBroadcast(edges, classes)
      /\ SourceEdges(edges, todo, equiv_class_bf_source)
      /\ GraphInv
  BY DEF SoundInv, SoundGraph, SoundPasses, StageInv
<1>2. /\ source \in equiv_class_bf_source /\ source.class = ClassOf(ParentCols(p, c)[1])
      /\ source.class = ClassOf(source.columns[1])
  BY DEF SourcesFor, StageInv, SourceInv, SourceOk
<1>3. PICK q, d \in Tables : /\ Linked(edges, q, d) /\ <<q, d>> \notin todo
                             /\ source.table = q /\ source.columns = ColsOfParent(edges, q, d)
  BY <1>1, <1>2 DEF SourceEdges
<1>4. /\ Linked(edges, p, c) /\ Paired(classes, ParentCols(p, c), ChildCols(p, c))
      /\ 1 \in DOMAIN ParentCols(p, c)
  <2>1. Linked(edges, p, c) /\ Paired(classes, ParentCols(p, c), ChildCols(p, c))
    BY <1>1, TodoEdge
  <2> QED BY <1>1, <2>1, EdgeColumns
<1>5. /\ source.columns = ParentCols(q, d)
      /\ Paired(classes, source.columns, ChildCols(q, d)) /\ 1 \in DOMAIN source.columns
      /\ \A x \in ToSet(source.columns) : x[1] = q
  <2>1. source.columns = ParentCols(q, d)
    BY <1>3 DEF ColsOfParent, ParentCols
  <2>2. /\ Paired(classes, ParentCols(q, d), ChildCols(q, d)) /\ 1 \in DOMAIN ParentCols(q, d)
        /\ \A x \in ToSet(ParentCols(q, d)) : x[1] = q
    BY <1>1, <1>3, PairsOfEdge, EdgeColumns
  <2> QED BY <2>1, <2>2
<1>6. Together(classes, source.columns[1], ParentCols(p, c)[1])
  <2>1. /\ Together(classes, source.columns[1], source.columns[1])
        /\ Together(classes, ParentCols(p, c)[1], ParentCols(p, c)[1])
    BY <1>4, <1>5 DEF Paired, Together
  <2>2. ClassIn(classes, source.columns[1]) = ClassIn(classes, ParentCols(p, c)[1])
    BY <1>2 DEF ClassOf, ClassIn
  <2> QED BY <2>1, <2>2, OneClass
<1>7. Len(edges[p, c]) = 1 /\ Len(edges[q, d]) = 1
  <2> DEFINE e == <<p, c>>
             f == <<q, d>>
  <2>1. e \in Tables \X Tables /\ f \in Tables \X Tables /\ e # f
        /\ e[1] = p /\ e[2] = c /\ f[1] = q /\ f[2] = d
    BY <1>3
  <2>2. /\ source.columns[1] = <<q, edges[q, d][1][1]>>
        /\ ParentCols(p, c)[1] = <<p, edges[p, c][1][1]>>
    BY <1>4, <1>5 DEF ParentCols
  <2>3. /\ Together(classes, <<e[1], edges[e][1][1]>>, <<f[1], edges[f][1][1]>>)
        /\ Together(classes, <<f[1], edges[f][1][1]>>, <<e[1], edges[e][1][1]>>)
    BY <1>6, <2>1, <2>2 DEF Together
  <2>4. Linked(edges, e[1], e[2]) /\ Linked(edges, f[1], f[2])
    BY <1>3, <1>4, <2>1
  <2> HIDE DEF e, f
  <2>5. Len(edges[e]) = 1 /\ Len(edges[f]) = 1
    BY <1>1, <2>1, <2>3, <2>4 DEF OnePairIfBroadcast
  <2> QED BY <2>5 DEF e, f
<1>8. DOMAIN source.columns = {1} /\ DOMAIN ChildCols(p, c) = {1}
  <2>1. edges[p, c] \in Seq(ColPair) /\ edges[q, d] \in Seq(ColPair)
    BY <1>1 DEF GraphInv, Graph
  <2>2. DOMAIN edges[p, c] = {1} /\ DOMAIN edges[q, d] = {1}
    <3>1. \A u \in Seq(ColPair) : Len(u) = 1 => DOMAIN u = {1}
      OBVIOUS
    <3> QED BY <1>7, <2>1, <3>1
  <2> QED BY <1>5, <2>2 DEF ParentCols, ChildCols
<1>9. Together(classes, ParentCols(p, c)[1], ChildCols(p, c)[1])
  BY <1>4 DEF Paired
<1>10. Together(classes, source.columns[1], ChildCols(p, c)[1])
  BY <1>1, <1>6, <1>9, TogetherFollows
<1> QED BY <1>3, <1>5, <1>8, <1>10 DEF Paired

LEMMA BroadcastSound ==
    ASSUME StageInv, SoundInv, stage = "backward", heuristic = "join_order",
           NEW p \in Tables, NEW c \in Tables, <<p, c>> \in todo,
           NEW source \in SourcesFor(<<p, c>>), Broadcast(<<p, c>>, source),
           todo' = todo \ {<<p, c>>},
           UNCHANGED <<edges, classes, forward_filter_ops, stage>>
    PROVE  SoundPasses'
<1> DEFINE f       == backward_filter_ops
           T       == source.table
           I       == source.index
           pcols   == ChildCols(p, c)
           size    == Len(source.columns)
           matched == [i \in DOMAIN pcols |-> source.columns[IF i <= size THEN i ELSE size]]
           use     == ProbeOp(T, source.columns, c, pcols, FALSE, sequence)
           w       == WithColumns(f[T][I], pcols, matched)
           g       == [f EXCEPT ![T] = [@ EXCEPT ![I] = w]]
           h       == [g EXCEPT ![c] = Append(@, use)]
<1>1. /\ PairsTogether(edges, classes) /\ SoundPasses /\ f \in [Tables -> Seq(FilterOp)]
      /\ AllSound(classes, f)
  BY DEF SoundInv, SoundGraph, StageInv, BackwardInv, SoundPasses
<1>2. SourceOk(f, source)
  BY DEF SourcesFor, StageInv, SourceInv
<1>3. /\ T \in Tables /\ source.columns \in Seq(Tables \X Columns) /\ source.columns # << >>
      /\ I \in DOMAIN f[T] /\ f[T][I].is_create
      /\ f[T] \in Seq(FilterOp) /\ f[T][I] \in FilterOp
  BY <1>1, <1>2 DEF SourceOk
<1>4. backward_filter_ops' = h /\ UNCHANGED equiv_class_bf_source
  <2>1. [f EXCEPT ![T][I].probe_columns = @ \o pcols, ![T][I].build_columns = @ \o matched] = g
    BY <1>3 DEF WithColumns
  <2> HIDE DEF g
  <2>2. backward_filter_ops' =
            [[f EXCEPT ![T][I].probe_columns = @ \o pcols, ![T][I].build_columns = @ \o matched]
                EXCEPT ![c] = Append(@, use)]
    BY DEF Broadcast
  <2> QED BY <2>1, <2>2 DEF Broadcast
<1> HIDE DEF h
<1>5. /\ pcols \in Seq(Tables \X Columns) /\ sequence \in Nat
      /\ \A x \in ToSet(pcols) : x[1] = c
  BY <1>1, TodoEdge
<1>6. /\ Paired(classes, source.columns, pcols)
      /\ \A x \in ToSet(source.columns) : x[1] = T
  BY BroadcastPair
<1> HIDE DEF pcols
<1>7. matched \in Seq(Tables \X Columns) /\ \A x \in ToSet(matched) : x[1] = T
  <2>1. size \in Nat \ {0} /\ DOMAIN source.columns = 1 .. size
    BY <1>3
  <2>2. DOMAIN pcols = 1 .. Len(pcols) /\ Len(pcols) \in Nat
    BY <1>5
  <2>3. \A i \in DOMAIN pcols : (IF i <= size THEN i ELSE size) \in DOMAIN source.columns
    BY <2>1, <2>2
  <2>4. \A i \in DOMAIN source.columns : /\ source.columns[i] \in ToSet(source.columns)
                                         /\ source.columns[i] \in Tables \X Columns
    BY <1>3 DEF ToSet
  <2> HIDE DEF size
  <2>5. \A i \in DOMAIN pcols : matched[i] \in Tables \X Columns /\ matched[i][1] = T
    BY <1>6, <2>3, <2>4
  <2> QED BY <2>2, <2>5 DEF ToSet
<1> HIDE DEF matched
<1>8. w \in FilterOp /\ SoundOp(classes, T, w)
  <2> DEFINE old == f[T][I]
  <2>1. old \in FilterOp /\ pcols \in ColumnLists /\ matched \in ColumnLists
    BY <1>3, <1>5, <1>7 DEF ColumnLists
  <2>2. w = WithColumns(old, pcols, matched)
    OBVIOUS
  <2>3. SoundOp(classes, T, old) /\ old.is_create
    BY <1>1, <1>3 DEF AllSound, SoundOps
  <2> HIDE DEF old, w
  <2>4. w \in FilterOp /\ w.is_create = old.is_create
    BY <2>1, <2>2, Widened
  <2>5. w.build_columns = old.build_columns \o matched
    BY <2>1, <2>2 DEF WithColumns, FilterOp
  <2>6. old.build_columns \in Seq(Tables \X Columns)
    BY <2>1 DEF FilterOp
  <2>7. ToSet(old.build_columns \o matched) = ToSet(old.build_columns) \cup ToSet(matched)
    BY <1>7, <2>6, ToSetConcat
  <2> QED BY <1>7, <2>3, <2>4, <2>5, <2>7 DEF SoundOp
<1> HIDE DEF w
<1>9. use \in FilterOp /\ SoundOp(classes, c, use)
  <2>1. /\ use \in FilterOp /\ ~ use.is_create
        /\ use.build_columns = source.columns /\ use.probe_columns = pcols
    BY <1>3, <1>5 DEF CreateOp, ProbeOp, FilterOp
  <2> QED BY <1>5, <1>6, <2>1 DEF SoundOp
<1> HIDE DEF use
<1>10. /\ g \in [Tables -> Seq(FilterOp)]
       /\ \A t \in Tables : \A i \in DOMAIN g[t] :
            \/ i \in DOMAIN f[t] /\ g[t][i] = f[t][i]
            \/ t = T /\ g[t][i] = w
  <2>1. [f[T] EXCEPT ![I] = w] \in Seq(FilterOp)
    BY <1>3, <1>8
  <2> QED BY <1>1, <1>3, <2>1
<1> HIDE DEF g
<1>11. \A t \in Tables : \A i \in DOMAIN h[t] :
            \/ i \in DOMAIN g[t] /\ h[t][i] = g[t][i]
            \/ t = c /\ h[t][i] = use
  BY <1>9, <1>10, AppendOne DEF h
<1>12. AllSound(classes, h)
  BY <1>1, <1>8, <1>9, <1>10, <1>11 DEF AllSound, SoundOps
<1>13. SourceEdges(edges, todo', equiv_class_bf_source')
  BY <1>1, <1>4 DEF SoundPasses, SourceEdges
<1> HIDE DEF f
<1>14. stage' # "forward" /\ classes' = classes /\ edges' = edges
       /\ forward_filter_ops' = forward_filter_ops
  OBVIOUS
<1> QED BY <1>1, <1>4, <1>12, <1>13, <1>14 DEF SoundPasses

\* A graph whose tables have one parent each merges nothing.
LEMMA OneParent ==
    ASSUME NEW g, NEW cls, \A t \in Tables : \A p, q \in Parents(g, t) : p = q
    PROVE  OnePairIfMerged(g) /\ FewParents(g, cls)
<1>1. ASSUME NEW e \in Tables \X Tables, NEW f \in Tables \X Tables,
             e # f, e[2] = f[2], Linked(g, f[1], f[2])
      PROVE  Len(g[e]) <= 1
  <2>1. /\ e[1] \in Tables /\ e[2] \in Tables /\ f[1] \in Tables /\ f[2] \in Tables
        /\ e = <<e[1], e[2]>> /\ f = <<f[1], f[2]>>
    OBVIOUS
  <2>2. e[1] # f[1]
    BY <1>1, <2>1
  <2>3. f[1] \in Parents(g, e[2])
    BY <1>1, <2>1 DEF Parents
  <2>4. ~ Linked(g, e[1], e[2])
    BY <2>1, <2>2, <2>3 DEF Parents
  <2>5. g[e] = << >>
    BY <2>1, <2>4 DEF Linked
  <2> QED BY <2>5
<1>2. ASSUME NEW t \in Tables
      PROVE  Cardinality(Parents(g, t)) <= 2
  <2>1. CASE Parents(g, t) = {}
    BY <2>1, FS_EmptySet
  <2>2. CASE Parents(g, t) # {}
    <3>1. PICK p : Parents(g, t) = {p}
      BY <2>2
    <3>2. Cardinality({p}) = 1
      BY FS_Singleton
    <3> QED BY <3>1, <3>2
  <2> QED BY <2>1, <2>2
<1> QED BY <1>1, <1>2 DEF OnePairIfMerged, FewParents

LEMMA NoOpsSound ==
    ASSUME NEW cls, NEW g, NEW tds
    PROVE  AllSound(cls, NoOps) /\ ForEdges(g, NoOps) /\ EdgesDone(NoOps, tds)
<1>1. \A t \in Tables : DOMAIN NoOps[t] = {}
  BY DEF NoOps
<1> QED BY <1>1 DEF AllSound, SoundOps, ForEdges, EdgesDone

LEMMA HInitSound == SoundInputs /\ HInit => SoundInv
<1> SUFFICES ASSUME SoundInputs, HInit PROVE SoundInv
  OBVIOUS
<1>1. /\ forward_filter_ops = NoOps /\ backward_filter_ops = NoOps
      /\ step = "generate" /\ stage # "backward"
  BY DEF HInit, PInit, Init, NoOps
<1>2. SoundPasses
  <2>1. /\ AllSound(classes, forward_filter_ops) /\ AllSound(classes, backward_filter_ops)
        /\ ForEdges(edges, forward_filter_ops) /\ EdgesDone(forward_filter_ops, todo)
    BY <1>1, NoOpsSound
  <2> QED BY <1>1, <2>1 DEF SoundPasses
<1>3. SoundStacks
  BY <1>1 DEF SoundStacks
<1>4. CASE PInit
  <2>1. PICK in \in Inputs : edges = in.edges /\ classes = in.classes
    BY <1>4 DEF PInit, Init
  <2> QED BY <1>2, <1>3, <2>1 DEF SoundInv, SoundInputs, SoundGraph
<1>5. CASE /\ heuristic = "largest_root" /\ stage = "tree"
           /\ \E in \in JoinEdges : edges = in.edges /\ classes = in.classes
  BY <1>2, <1>3, <1>5 DEF SoundInv, SoundInputs, SoundGraph
<1> QED BY <1>4, <1>5 DEF HInit

\* The rooted tree has join edges only, some of them turned round, and no table
\* has two parents.
LEMMA TreeSound ==
    ASSUME TreeInv, StageInv, PlaceInv, SoundInv, BuildRootedTree, heuristic = "largest_root"
    PROVE  SoundInv'
<1>1. /\ stage = "tree" /\ stage' = "forward"
      /\ edges' = [e \in Tables \X Tables |->
                    IF card[root] > 0 /\ ParentOf(e[1], e[2]) THEN ColumnsOf(e[1], e[2])
                    ELSE << >>]
      /\ step' = step /\ heuristic' = heuristic
      /\ UNCHANGED <<classes, card, root, mst_nodes, forward_filter_ops, backward_filter_ops>>
  BY DEF BuildRootedTree, placement, treevars
<1>2. PairsTogether(edges', classes)
  <2>1. PairsTogether(edges, classes) /\ edges \in Graph
    BY DEF SoundInv, SoundGraph, StageInv, GraphInv
  <2>2. ASSUME NEW p \in Tables, NEW c \in Tables, NEW i \in DOMAIN edges'[<<p, c>>]
        PROVE  Together(classes, <<p, edges'[<<p, c>>][i][1]>>, <<c, edges'[<<p, c>>][i][2]>>)
    <3>1. edges'[<<p, c>>] = IF card[root] > 0 /\ ParentOf(p, c) THEN ColumnsOf(p, c) ELSE << >>
      BY <1>1
    <3>2. edges'[<<p, c>>] = edges[<<p, c>>] \/ edges'[<<p, c>>] = SwapSides(edges[<<c, p>>])
      <4>1. edges'[<<p, c>>] # << >>
        BY <2>2
      <4> QED BY <3>1, <4>1 DEF ColumnsOf
    <3>3. /\ \A j \in DOMAIN edges[<<p, c>>] :
                Together(classes, <<p, edges[<<p, c>>][j][1]>>, <<c, edges[<<p, c>>][j][2]>>)
          /\ \A j \in DOMAIN edges[<<c, p>>] :
                Together(classes, <<c, edges[<<c, p>>][j][1]>>, <<p, edges[<<c, p>>][j][2]>>)
      <4>1. /\ <<p, c>> \in Tables \X Tables /\ <<p, c>>[1] = p /\ <<p, c>>[2] = c
            /\ <<c, p>> \in Tables \X Tables /\ <<c, p>>[1] = c /\ <<c, p>>[2] = p
        OBVIOUS
      <4> QED BY <2>1, <4>1 DEF PairsTogether
    <3>4. CASE edges'[<<p, c>>] = edges[<<p, c>>]
      BY <2>2, <3>3, <3>4
    <3>5. CASE edges'[<<p, c>>] = SwapSides(edges[<<c, p>>])
      <4>1. /\ i \in DOMAIN edges[<<c, p>>]
            /\ edges'[<<p, c>>][i] = <<edges[<<c, p>>][i][2], edges[<<c, p>>][i][1]>>
        BY <2>2, <3>5 DEF SwapSides
      <4>2. Together(classes, <<c, edges[<<c, p>>][i][1]>>, <<p, edges[<<c, p>>][i][2]>>)
        BY <3>3, <4>1
      <4>3. /\ edges'[<<p, c>>][i][1] = edges[<<c, p>>][i][2]
            /\ edges'[<<p, c>>][i][2] = edges[<<c, p>>][i][1]
        BY <4>1
      <4> QED BY <4>2, <4>3 DEF Together
    <3> QED BY <3>2, <3>4, <3>5
  <2>3. ASSUME NEW e \in Tables \X Tables, NEW i \in DOMAIN edges'[e]
        PROVE  Together(classes, <<e[1], edges'[e][i][1]>>, <<e[2], edges'[e][i][2]>>)
    <3>1. e[1] \in Tables /\ e[2] \in Tables /\ e = <<e[1], e[2]>>
      OBVIOUS
    <3> QED BY <2>2, <2>3, <3>1
  <2> QED BY <2>3 DEF PairsTogether
<1>3. ASSUME NEW t \in Tables, NEW p \in Parents(edges', t), NEW q \in Parents(edges', t)
      PROVE  p = q
  <2>1. \A u \in Parents(edges', t) : u \in Tables /\ card[root] > 0 /\ ParentOf(u, t)
    <3> SUFFICES ASSUME NEW u \in Parents(edges', t)
                 PROVE  u \in Tables /\ card[root] > 0 /\ ParentOf(u, t)
      OBVIOUS
    <3>1. u \in Tables /\ edges'[u, t] # << >>
      BY DEF Parents, Linked
    <3>2. edges'[u, t] = IF card[root] > 0 /\ ParentOf(u, t) THEN ColumnsOf(u, t) ELSE << >>
      BY <1>1, <3>1
    <3> QED BY <3>1, <3>2
  <2>2. RootedTree(edges', level', mst_nodes, root)
    <3>1. TreeInv'
      BY TreeIsBuilt
    <3> QED BY <1>1, <2>1, <3>1 DEF TreeInv
  <2>3. t \in mst_nodes
    <3>1. GrownTree
      BY <1>1 DEF TreeInv
    <3>2. Neighbours(p, t) /\ p \in Tables
      BY <2>1 DEF ParentOf
    <3> QED BY <3>1, <3>2 DEF GrownTree, TreeEdge
  <2>4. t # root
    BY <2>2 DEF RootedTree
  <2>5. Cardinality(Parents(edges', t)) = 1
    BY <2>2, <2>3, <2>4 DEF RootedTree
  <2>6. IsFiniteSet(Parents(edges', t))
    BY FewTables DEF Parents
  <2>7. PICK x : Parents(edges', t) = {x}
    BY <2>5, <2>6, FS_Singleton
  <2> QED BY <2>7
<1>4. SoundGraph'
  <2>1. OnePairIfMerged(edges') /\ FewParents(edges', classes)
    BY <1>3, OneParent
  <2>2. ClassesDisjoint(classes) /\ classes' = classes /\ heuristic' # "join_order"
    BY <1>1 DEF SoundInv, SoundGraph
  <2> QED BY <1>2, <2>1, <2>2 DEF SoundGraph
<1>5. SoundPasses'
  <2>1. forward_filter_ops' = NoOps /\ backward_filter_ops' = NoOps
    BY <1>1 DEF StageInv, ForwardInv, BackwardInv, NoOps
  <2>2. /\ AllSound(classes', NoOps) /\ ForEdges(edges', NoOps) /\ EdgesDone(NoOps, todo')
    BY NoOpsSound
  <2> QED BY <1>1, <2>1, <2>2 DEF SoundPasses
<1>6. SoundStacks'
  BY <1>1 DEF SoundStacks, PlaceInv
<1> QED BY <1>4, <1>5, <1>6 DEF SoundInv

\* A step of the passes.
LEMMA GenerateSound ==
    ASSUME StageInv, SoundInv, UNCHANGED heuristic,
           \/ heuristic = "join_order" /\ Next
           \/ ForwardTreeEdge \/ EndForward \/ BackwardTreeEdge \/ EndBackward
    PROVE  SoundGraph' /\ SoundPasses'
<1>1. /\ SoundGraph /\ SoundPasses
      /\ todo \subseteq Tables \X Tables
  BY DEF SoundInv, StageInv, GraphInv, LevelledEdges
<1>2. ASSUME UNCHANGED <<edges, classes>>, stage # "tree"
      PROVE  SoundGraph'
  BY <1>1, <1>2 DEF SoundGraph
<1>3. ASSUME stage = "forward", NEW e \in todo, AddForward(e[1], e[2])
      PROVE  SoundGraph' /\ SoundPasses'
  <2>1. e[1] \in Tables /\ e[2] \in Tables /\ <<e[1], e[2]>> \in todo
    BY <1>1
  <2>2. SoundPasses'
    BY <1>3, <2>1, ForwardSound
  <2> QED BY <1>2, <1>3, <2>2 DEF AddForward
<1>4. CASE ForwardEdge
  <2>1. stage = "forward" /\ todo # {}
    BY <1>4 DEF ForwardEdge
  <2>2. PICK p \in Tables : <<p, DeepestChild>> \in todo /\ AddForward(p, DeepestChild)
    BY <1>4 DEF ForwardEdge
  <2> DEFINE e == <<p, DeepestChild>>
  <2>3. e \in todo /\ e[1] = p /\ e[2] = DeepestChild
    BY <2>2
  <2> HIDE DEF DeepestChild, e
  <2> QED BY <1>3, <2>1, <2>2, <2>3
<1>5. CASE ForwardTreeEdge
  BY <1>3, <1>5 DEF ForwardTreeEdge
<1>6. CASE EndForward
  <2>1. /\ stage = "forward" /\ stage' = "backward"
        /\ UNCHANGED <<edges, classes, forward_filter_ops, backward_filter_ops,
                       equiv_class_bf_source>>
    BY <1>6 DEF EndForward
  <2>2. equiv_class_bf_source' = {}
    BY <2>1 DEF StageInv, SourceInv
  <2>3. SourceEdges(edges', todo', equiv_class_bf_source')
    BY <2>2 DEF SourceEdges
  <2>4. SoundPasses'
    BY <1>1, <2>1, <2>3 DEF SoundPasses
  <2> QED BY <1>2, <2>1, <2>4
<1>7. CASE heuristic = "join_order" /\ BackwardEdge
  <2>1. /\ stage = "backward" /\ UNCHANGED <<edges, classes, forward_filter_ops, stage>>
    BY <1>7 DEF BackwardEdge
  <2>2. PICK e \in todo : /\ IF SourcesFor(e) = {} THEN NewSource(e)
                             ELSE \E source \in SourcesFor(e) : Broadcast(e, source)
                          /\ todo' = todo \ {e}
    BY <1>7 DEF BackwardEdge, NextBackward
  <2>3. PICK p \in Tables, c \in Tables : e = <<p, c>>
    <3>1. e \in Tables \X Tables
      BY <1>1
    <3> QED BY ONLY <3>1
  <2>4. <<p, c>> \in todo /\ e[1] = p /\ e[2] = c /\ todo' = todo \ {<<p, c>>}
    BY <2>2, <2>3
  <2>5. SoundPasses'
    <3>1. CASE SourcesFor(e) = {}
      <4>1. NewSource(e)
        BY <2>2, <3>1
      <4>2. /\ AddBackward(p, c)
            /\ equiv_class_bf_source' = equiv_class_bf_source \cup
                 {[class |-> ClassOf(ParentCols(p, c)[1]), table |-> p,
                   columns |-> ParentCols(p, c), index |-> Len(backward_filter_ops[p]) + 1]}
        BY <2>4, <4>1 DEF NewSource
      <4>3. \A s \in equiv_class_bf_source' :
                \/ s \in equiv_class_bf_source
                \/ s.table = p /\ s.columns = ParentCols(p, c)
        BY <4>2
      <4> QED BY <2>1, <2>4, <4>2, <4>3, BackwardSound
    <3>2. CASE SourcesFor(e) # {}
      <4>1. PICK source \in SourcesFor(<<p, c>>) : Broadcast(<<p, c>>, source)
        BY <2>2, <2>3, <3>2
      <4> QED BY <1>7, <2>1, <2>4, <4>1, BroadcastSound
    <3> QED BY <3>1, <3>2
  <2> QED BY <1>2, <2>1, <2>5
<1>8. CASE BackwardTreeEdge
  <2>1. /\ stage = "backward"
        /\ UNCHANGED <<edges, classes, forward_filter_ops, equiv_class_bf_source, stage>>
    BY <1>8 DEF BackwardTreeEdge
  <2>2. PICK e \in todo : AddBackward(e[1], e[2]) /\ todo' = todo \ {e}
    BY <1>8 DEF BackwardTreeEdge
  <2>3. e[1] \in Tables /\ e[2] \in Tables /\ e = <<e[1], e[2]>>
    BY <1>1
  <2>4. SoundPasses'
    BY <2>1, <2>2, <2>3, BackwardSound
  <2> QED BY <1>2, <2>1, <2>4
<1>9. CASE EndBackward
  <2>1. /\ stage = "backward" /\ stage' = "done"
        /\ UNCHANGED <<edges, classes, forward_filter_ops, backward_filter_ops>>
    BY <1>9 DEF EndBackward
  <2>2. SoundPasses'
    BY <1>1, <2>1 DEF SoundPasses
  <2> QED BY <1>2, <2>1, <2>2
<1> QED BY <1>4, <1>5, <1>6, <1>7, <1>8, <1>9 DEF Next

\* No more than two tables can be told apart in a set of two.
LEMMA NoThird ==
    ASSUME NEW S, IsFiniteSet(S), Cardinality(S) <= 2,
           NEW a \in S, NEW b \in S, NEW c \in S
    PROVE  a = b \/ b = c \/ a = c
<1> SUFFICES ASSUME a # b, b # c, a # c PROVE FALSE
  OBVIOUS
<1>1. IsFiniteSet({a}) /\ Cardinality({a}) = 1
  BY FS_Singleton
<1>2. IsFiniteSet({a} \cup {b}) /\ Cardinality({a} \cup {b}) = 2
  <2> DEFINE P == {a}
  <2>1. b \notin P /\ IsFiniteSet(P) /\ Cardinality(P) = 1
    BY <1>1
  <2> HIDE DEF P
  <2>2. IsFiniteSet(P \cup {b}) /\ Cardinality(P \cup {b}) = 1 + 1
    BY <2>1, FS_AddElement
  <2> QED BY <2>2 DEF P
<1>3. IsFiniteSet(({a} \cup {b}) \cup {c}) /\ Cardinality(({a} \cup {b}) \cup {c}) = 3
  <2> DEFINE P == {a} \cup {b}
  <2>1. c \notin P /\ IsFiniteSet(P) /\ Cardinality(P) = 2
    BY <1>2
  <2> HIDE DEF P
  <2>2. IsFiniteSet(P \cup {c}) /\ Cardinality(P \cup {c}) = 2 + 1
    BY <2>1, FS_AddElement
  <2> QED BY <2>2 DEF P
<1> DEFINE T == ({a} \cup {b}) \cup {c}
<1>4. T \in SUBSET S
  OBVIOUS
<1> HIDE DEF T
<1>5. Cardinality(T) <= Cardinality(S)
  BY <1>4, FS_Subset
<1>6. Cardinality(T) = 3 /\ Cardinality(S) \in Nat
  BY <1>3, FS_CardinalityType DEF T
<1> QED BY <1>5, <1>6

\* The merged CREATE of the forward pass pushes no filter to a wrong column: it
\* stands for one edge, for two of one pair each, or for edges of one class.
LEMMA ForwardPushes ==
    ASSUME StageInv, SoundInv, stage = "done", NEW t \in Tables
    PROVE  \A i \in DOMAIN MergeCreates(forward_filter_ops[t]) :
                MergeCreates(forward_filter_ops[t])[i].is_create =>
                    SoundPushes(classes, MergeCreates(forward_filter_ops[t])[i])
<1> DEFINE ops == forward_filter_ops[t]
<1>1. /\ ProbesThenCreates(t, ops) /\ GraphInv
      /\ PairsTogether(edges, classes)
      /\ OnePairIfMerged(edges) /\ FewParents(edges, classes)
      /\ ForEdges(edges, forward_filter_ops)
  BY DEF StageInv, ForwardInv, SoundInv, SoundGraph, SoundPasses
<1>2. \A i \in DOMAIN ops : ops[i].is_create =>
        /\ ops[i].probe_table \in Parents(edges, t)
        /\ ops[i].build_columns = ColsOfChild(edges, ops[i].probe_table, t)
        /\ ops[i].probe_columns = ColsOfParent(edges, ops[i].probe_table, t)
        /\ \A j \in DOMAIN ops :
            (ops[j].is_create /\ ops[j].probe_table = ops[i].probe_table) => i = j
  BY <1>1 DEF ForEdges, Parents
<1> HIDE DEF ops
<1>3. ASSUME Cardinality(Parents(edges, t)) <= 2
      PROVE  FewCreates(classes, ops)
  <2>1. AtMostTwo(ops)
    <3> SUFFICES ASSUME NEW i \in DOMAIN ops, NEW j \in DOMAIN ops, NEW k \in DOMAIN ops,
                        ops[i].is_create, ops[j].is_create, ops[k].is_create
                 PROVE  i = j \/ j = k \/ i = k
      BY DEF AtMostTwo
    <3>1. IsFiniteSet(Parents(edges, t))
      BY FewTables DEF Parents
    <3>2. \/ ops[i].probe_table = ops[j].probe_table
          \/ ops[j].probe_table = ops[k].probe_table
          \/ ops[i].probe_table = ops[k].probe_table
      BY <1>2, <1>3, <3>1, NoThird
    <3> QED BY <1>2, <3>2
  <2>2. ASSUME NEW i \in DOMAIN ops, ops[i].is_create
        PROVE  Paired(classes, ops[i].build_columns, ops[i].probe_columns)
    <3> DEFINE p == ops[i].probe_table
    <3>1. /\ p \in Tables /\ Linked(edges, p, t)
          /\ ops[i].build_columns = ChildCols(p, t) /\ ops[i].probe_columns = ParentCols(p, t)
      BY <1>2, <2>2 DEF Parents, ColsOfChild, ColsOfParent, ChildCols, ParentCols
    <3> HIDE DEF p
    <3> QED BY <1>1, <3>1, PairsOfEdge
  <2>3. \A i \in DOMAIN ops : ops[i].is_create => SoundPushes(classes, ops[i])
    BY <2>2 DEF Paired, SoundPushes
  <2>4. ASSUME NEW i \in DOMAIN ops, NEW j \in DOMAIN ops, i # j,
               ops[i].is_create, ops[j].is_create
        PROVE  /\ Len(ops[i].build_columns) = 1 /\ Len(ops[i].probe_columns) = 1
               /\ Together(classes, ops[i].build_columns[1], ops[i].probe_columns[1])
    <3> DEFINE p == ops[i].probe_table
               q == ops[j].probe_table
               e == <<p, t>>
               f == <<q, t>>
    <3>1. p \in Tables /\ q \in Tables /\ Linked(edges, p, t) /\ Linked(edges, q, t) /\ p # q
      BY <1>2, <2>4 DEF Parents
    <3>2. /\ ops[i].build_columns = ColsOfChild(edges, p, t)
          /\ ops[i].probe_columns = ColsOfParent(edges, p, t)
      BY <1>2, <2>4
    <3> HIDE DEF p, q
    <3>3. /\ e \in Tables \X Tables /\ f \in Tables \X Tables /\ e # f /\ e[2] = f[2]
          /\ f[1] = q /\ f[2] = t
      BY <3>1
    <3> HIDE DEF e, f
    <3>4. Len(edges[e]) <= 1
      BY <1>1, <3>1, <3>3 DEF OnePairIfMerged
    <3>5. edges[p, t] \in Seq(ColPair) /\ edges[p, t] # << >> /\ Len(edges[p, t]) <= 1
      BY <1>1, <3>1, <3>4 DEF GraphInv, Graph, Linked, e
    <3>6. Len(edges[p, t]) = 1 /\ DOMAIN edges[p, t] = {1}
      <4>1. \A u \in Seq(ColPair) : u # << >> => Len(u) \in Nat \ {0}
        OBVIOUS
      <4>2. \A u \in Seq(ColPair) : Len(u) = 1 => DOMAIN u = {1}
        OBVIOUS
      <4> DEFINE u == edges[p, t]
      <4>3. u \in Seq(ColPair) /\ u # << >> /\ Len(u) <= 1
        BY <3>5
      <4> HIDE DEF u
      <4>4. Len(u) \in Nat \ {0}
        BY <4>1, <4>3
      <4>5. Len(u) = 1
        <5>1. \A n \in Nat \ {0} : n <= 1 => n = 1
          OBVIOUS
        <5> QED BY ONLY <4>3, <4>4, <5>1
      <4> QED BY <4>2, <4>3, <4>5 DEF u
    <3>7. Len(ops[i].build_columns) = 1 /\ Len(ops[i].probe_columns) = 1
          /\ DOMAIN ops[i].build_columns = {1}
      <4>1. ASSUME NEW S, NEW u \in Seq(S), DOMAIN u = {1}
            PROVE  Len(u) = 1
        <5>1. DOMAIN u = 1 .. Len(u) /\ Len(u) \in Nat
          OBVIOUS
        <5>2. 1 \in 1 .. Len(u)
          BY <4>1, <5>1
        <5>3. Len(u) \in DOMAIN u
          BY <5>1, <5>2
        <5> QED BY <4>1, <5>3
      <4>2. ops[i] \in FilterOp
        BY <1>1 DEF ProbesThenCreates
      <4>3. ops[i].build_columns \in Seq(Tables \X Columns) /\ ops[i].probe_columns \in Seq(Tables \X Columns)
        BY <4>2 DEF FilterOp
      <4>4. DOMAIN ops[i].build_columns = {1} /\ DOMAIN ops[i].probe_columns = {1}
        BY <3>2, <3>6 DEF ColsOfChild, ColsOfParent
      <4> QED BY <4>1, <4>3, <4>4
    <3>8. Together(classes, ops[i].build_columns[1], ops[i].probe_columns[1])
      BY <2>2, <2>4, <3>7 DEF Paired
    <3> QED BY <3>7, <3>8
  <2> QED BY <2>1, <2>3, <2>4 DEF FewCreates
<1>4. CASE Cardinality(Parents(edges, t)) <= 2
  BY <1>1, <1>3, <1>4, MergedFew DEF ops
<1>5. CASE \E class \in classes : \A p \in Parents(edges, t) : \A i \in DOMAIN edges[p, t] :
                <<p, edges[p, t][i][1]>> \in class /\ <<t, edges[p, t][i][2]>> \in class
  <2>1. PICK class \in classes : \A p \in Parents(edges, t) : \A i \in DOMAIN edges[p, t] :
                <<p, edges[p, t][i][1]>> \in class /\ <<t, edges[p, t][i][2]>> \in class
    BY <1>5
  <2>2. \A j \in DOMAIN ops : ops[j].is_create =>
                /\ ToSet(ops[j].build_columns) \subseteq class
                /\ ToSet(ops[j].probe_columns) \subseteq class
    <3> SUFFICES ASSUME NEW j \in DOMAIN ops, ops[j].is_create
                 PROVE  /\ ToSet(ops[j].build_columns) \subseteq class
                        /\ ToSet(ops[j].probe_columns) \subseteq class
      OBVIOUS
    <3> DEFINE p == ops[j].probe_table
    <3>1. /\ p \in Parents(edges, t)
          /\ ops[j].build_columns = ColsOfChild(edges, p, t)
          /\ ops[j].probe_columns = ColsOfParent(edges, p, t)
      BY <1>2
    <3> HIDE DEF p
    <3>2. \A i \in DOMAIN edges[p, t] : /\ ColsOfParent(edges, p, t)[i] \in class
                                        /\ ColsOfChild(edges, p, t)[i] \in class
      BY <2>1, <3>1 DEF ColsOfChild, ColsOfParent
    <3>3. /\ DOMAIN ColsOfParent(edges, p, t) = DOMAIN edges[p, t]
          /\ DOMAIN ColsOfChild(edges, p, t) = DOMAIN edges[p, t]
      BY DEF ColsOfChild, ColsOfParent
    <3> QED BY <3>1, <3>2, <3>3 DEF ToSet
  <2> QED BY <1>1, <2>2, MergedOnClass DEF ops
<1> QED BY <1>1, <1>4, <1>5 DEF FewParents

\* What is said of each operator of two lists is said of each of their concatenation.
StackSound(cls, t, ops) ==
    \A i \in DOMAIN ops :
        /\ SoundOp(cls, t, ops[i])
        /\ (ops[i].is_create /\ ops[i].forward) => SoundPushes(cls, ops[i])

LEMMA StacksSound ==
    ASSUME StageInv, PlaceInv, SoundInv, ApplyStageModifications
    PROVE  SoundStacks'
<1>1. /\ step = "apply" /\ UNCHANGED classes
      /\ LET backward == IF pass_mode = "forward_only" THEN [t \in Tables |-> << >>]
                         ELSE backward_filter_ops
         IN  stacks' = [t \in Tables |-> Stacked(forward_filter_ops[t], backward[t])]
  BY DEF ApplyStageModifications, vars
<1>2. /\ stage = "done" /\ AllSound(classes, forward_filter_ops)
      /\ AllSound(classes, backward_filter_ops)
  BY <1>1 DEF PlaceInv, SoundInv, SoundPasses
<1>3. ASSUME NEW t \in Tables
      PROVE  StackSound(classes, t, stacks'[t])
  <2> DEFINE F == MergeCreates(forward_filter_ops[t])
             B == MergeCreates(backward_filter_ops[t])
             E == MergeCreates(<< >>)
  <2>1. stacks'[t] = F \o B \/ stacks'[t] = F \o E
    BY <1>1 DEF Stacked
  <2>2. /\ ProbesThenCreates(t, forward_filter_ops[t])
        /\ ProbesThenCreates(t, backward_filter_ops[t])
        /\ ProbesThenCreates(t, << >>)
    <3>1. << >> \in Seq(FilterOp) /\ DOMAIN << >> = {}
      OBVIOUS
    <3> QED BY <3>1 DEF StageInv, ForwardInv, BackwardInv, ProbesThenCreates
  <2>3. /\ SoundOps(classes, t, F) /\ SoundOps(classes, t, B) /\ SoundOps(classes, t, E)
    <3>1. DOMAIN << >> = {}
      OBVIOUS
    <3>2. SoundOps(classes, t, << >>)
      BY <3>1 DEF SoundOps
    <3>3. SoundOps(classes, t, forward_filter_ops[t]) /\ SoundOps(classes, t, backward_filter_ops[t])
      BY <1>2 DEF AllSound
    <3> QED BY <2>2, <3>2, <3>3, MergedSound
  <2>4. /\ F \in Seq(FilterOp) /\ B \in Seq(FilterOp) /\ E \in Seq(FilterOp)
        /\ \A i \in DOMAIN B : B[i].forward = FALSE
        /\ \A i \in DOMAIN E : E[i].forward = FALSE
    <3> DEFINE mF == [u \in Tables |-> MergeCreates(forward_filter_ops[u])]
               mB == [u \in Tables |-> MergeCreates(backward_filter_ops[u])]
               mE == [u \in Tables |-> MergeCreates(<< >>)]
    <3>1. PassPlaced(level, mF, TRUE) /\ PassPlaced(level, mB, FALSE) /\ PassPlaced(level, mE, FALSE)
      BY ForwardPlaced, BackwardPlaced, NothingPlaced
    <3>2. mF[t] = F /\ mB[t] = B /\ mE[t] = E
      OBVIOUS
    <3> HIDE DEF mF, mB, mE, F, B, E
    <3> QED BY <3>1, <3>2 DEF PassPlaced
  <2>5. \A i \in DOMAIN F : F[i].is_create => SoundPushes(classes, F[i])
    BY <1>2, ForwardPushes
  <2> HIDE DEF F, B, E
  <2>6. ASSUME NEW G \in Seq(FilterOp), SoundOps(classes, t, G),
               \A i \in DOMAIN G : G[i].forward = FALSE
        PROVE  StackSound(classes, t, F \o G)
    <3>1. \A i \in DOMAIN (F \o G) :
                \/ i \in DOMAIN F /\ (F \o G)[i] = F[i]
                \/ \E k \in DOMAIN G : (F \o G)[i] = G[k]
      BY <2>4, ConcatPlaces
    <3> QED BY <2>3, <2>5, <2>6, <3>1 DEF StackSound, SoundOps
  <2> QED BY <2>1, <2>3, <2>4, <2>6
<1> QED BY <1>1, <1>3 DEF SoundStacks, StackSound

\* Filters are pushed from forward CREATEs only.
TargetsInv ==
    \A c \in DOMAIN pushdown_targets :
        /\ c[1] \in Tables /\ c[2] \in DOMAIN stacks[c[1]] /\ c = <<c[1], c[2]>>
        /\ stacks[c[1]][c[2]].is_create /\ stacks[c[1]][c[2]].forward

LEMMA TargetsInvStep == TargetsInv /\ PushInv /\ [HNext]_hvars => TargetsInv'
<1> SUFFICES ASSUME TargetsInv, PushInv, [HNext]_hvars PROVE TargetsInv'
  OBVIOUS
<1>1. CASE UNCHANGED <<stacks, pushdown_targets>>
  BY <1>1 DEF TargetsInv
<1>2. CASE ApplyStageModifications
  <2>1. step = "apply" /\ step' = "link" /\ pushdown_targets' = pushdown_targets
    BY <1>2 DEF ApplyStageModifications
  <2>2. DOMAIN << >> = {}
    OBVIOUS
  <2> QED BY <2>1, <2>2 DEF PushInv, TargetsInv
<1>3. CASE SetupDynamicFilterPushdown
  <2>1. /\ DOMAIN pushdown_targets' = {c \in Creates : Op(c).forward}
        /\ stacks' = stacks
    BY <1>3 DEF SetupDynamicFilterPushdown
  <2> QED BY <2>1, PositionFacts DEF TargetsInv, Creates
<1> QED BY <1>1, <1>2, <1>3 DEF HNext, PlaceOperators, Generate, GenerateStageModifications,
       GrowTree, BuildRootedTree, LinkProbeFilterToCreateFilter, hvars, allvars, placement

LEMMA SoundInvStep ==
    ASSUME StageInv, PlaceInv, TreeInv, SoundInv, [HNext]_hvars
    PROVE  SoundInv'
<1>1. SoundGraph /\ SoundPasses /\ SoundStacks
  BY DEF SoundInv
<1>2. ASSUME UNCHANGED <<edges, classes, stage, heuristic, forward_filter_ops,
                         backward_filter_ops, todo, equiv_class_bf_source>>
      PROVE  SoundGraph' /\ SoundPasses'
  BY <1>1, <1>2 DEF SoundGraph, SoundPasses
<1>3. CASE heuristic = "join_order" /\ Generate /\ UNCHANGED heuristic
  <2>1. Next /\ step' \in {"generate", "apply"}
    <3>1. step = "generate" /\ Next /\ step' = IF stage' = "done" THEN "apply" ELSE step
      BY <1>3 DEF Generate
    <3> QED BY <3>1
  <2>2. SoundGraph' /\ SoundPasses'
    BY <1>3, <2>1, GenerateSound
  <2>3. SoundStacks'
    BY <2>1 DEF SoundStacks
  <2> QED BY <2>2, <2>3 DEF SoundInv
<1>4. CASE GenerateStageModifications
  <2>1. /\ ForwardTreeEdge \/ EndForward \/ BackwardTreeEdge \/ EndBackward
        /\ UNCHANGED heuristic
        /\ step = "generate" /\ step' = IF stage' = "done" THEN "apply" ELSE step
    BY <1>4 DEF GenerateStageModifications
  <2>2. SoundGraph' /\ SoundPasses'
    BY <2>1, GenerateSound
  <2>3. SoundStacks'
    BY <2>1 DEF SoundStacks
  <2> QED BY <2>2, <2>3 DEF SoundInv
<1>5. CASE heuristic = "largest_root" /\ BuildRootedTree
  BY <1>5, TreeSound
<1>6. CASE ApplyStageModifications /\ UNCHANGED heuristic
  <2>1. UNCHANGED <<edges, classes, stage, forward_filter_ops,
                    backward_filter_ops, todo, equiv_class_bf_source>>
    BY <1>6 DEF ApplyStageModifications, vars
  <2>2. SoundStacks'
    BY <1>6, StacksSound
  <2> QED BY <1>2, <1>6, <2>1, <2>2 DEF SoundInv
<1>7. CASE /\ LinkProbeFilterToCreateFilter \/ SetupDynamicFilterPushdown
           /\ UNCHANGED heuristic
  <2>1. /\ UNCHANGED <<edges, classes, stage, forward_filter_ops, stacks,
                       backward_filter_ops, todo, equiv_class_bf_source>>
        /\ step \in {"link", "pushdown"}
    BY <1>7 DEF LinkProbeFilterToCreateFilter, SetupDynamicFilterPushdown, vars
  <2>2. SoundStacks'
    BY <1>1, <2>1 DEF SoundStacks
  <2> QED BY <1>2, <1>7, <2>1, <2>2 DEF SoundInv
<1>8. CASE GrowTree \/ UNCHANGED hvars
  <2>1. UNCHANGED <<edges, classes, stage, heuristic, forward_filter_ops, stacks, step,
                    backward_filter_ops, todo, equiv_class_bf_source>>
    BY <1>8 DEF GrowTree, hvars, allvars, vars, placement
  <2>2. SoundStacks'
    BY <1>1, <2>1 DEF SoundStacks
  <2> QED BY <1>2, <2>1, <2>2 DEF SoundInv
<1> QED BY <1>3, <1>4, <1>5, <1>6, <1>7, <1>8 DEF HNext, PlaceOperators

OptimizedInv == StageInv /\ PlaceInv /\ TreeInv /\ PushInv /\ TargetsInv

\* What is proved of the planner, whatever is planned.
LEMMA OptimizedInvariant == HSpec => []OptimizedInv
<1>1. HInit => PushInv /\ TargetsInv
  <2> SUFFICES ASSUME HInit PROVE PushInv /\ TargetsInv
    OBVIOUS
  <2>1. /\ related_create = << >> /\ passthrough = {} /\ pushdown_targets = << >>
        /\ step = "generate"
    BY DEF HInit, PInit
  <2>2. DOMAIN << >> = {}
    OBVIOUS
  <2> QED BY <2>1, <2>2 DEF PushInv, TargetsInv
<1>2. /\ PlaceInv /\ PushInv /\ [HNext]_hvars => PushInv'
      /\ TargetsInv /\ PushInv /\ [HNext]_hvars => TargetsInv'
  BY PushInvStep, TargetsInvStep
<1> QED BY <1>1, <1>2, PlaceInvariant, TreeInvariant, PTL DEF HSpec, OptimizedInv

\* The filters of a plan are right as soon as its graph is.
LEMMA SoundInvariant ==
    ASSUME SoundInputs
    PROVE  HSpec => []SoundInv
<1>1. HInit => SoundInv
  BY HInitSound
<1>2. StageInv /\ PlaceInv /\ TreeInv /\ SoundInv /\ [HNext]_hvars => SoundInv'
  BY SoundInvStep
<1> QED BY <1>1, <1>2, PlaceInvariant, TreeInvariant, PTL DEF HSpec

\* A plan with all that is sound.
LEMMA SoundFollows == OptimizedInv /\ SoundInv => PlanSound
<1> SUFFICES ASSUME OptimizedInv, SoundInv, step = "planned"
             PROVE  /\ \A pos \in Positions : Op(pos) \in FilterOp
                    /\ \A c \in Creates : \A i \in DOMAIN Op(c).build_columns :
                        Op(c).build_columns[i][1] = c[1]
                    /\ \A q \in DOMAIN related_create :
                        /\ related_create[q] \in Creates
                        /\ FoundAt(q) = DOMAIN Op(q).build_columns
                        /\ \A i \in DOMAIN Op(q).build_columns :
                            /\ Op(q).probe_columns[i][1] = q[1]
                            /\ JoinedOn(Op(q).build_columns[i], Op(q).probe_columns[i])
                    /\ \A c \in DOMAIN pushdown_targets : \A target \in pushdown_targets[c] :
                        /\ c \in Creates
                        /\ target \in Tables \X Columns
                        /\ \A b \in PushedFrom(c, target) : JoinedOn(b, target)
  BY DEF PlanSound
<1>1. /\ Layered(level, stacks) /\ Linking(stacks, related_create)
      /\ OnlyProbes(stacks, related_create) /\ TargetsInv /\ SoundStacks
      /\ EveryProbeFindsItsFilters
      /\ \A c \in DOMAIN pushdown_targets : pushdown_targets[c] \subseteq Tables \X Columns
  BY ProbesFound DEF OptimizedInv, PlaceInv, PushInv, SoundInv
<1>2. ASSUME NEW pos \in Positions
      PROVE  /\ Op(pos) \in FilterOp
             /\ SoundOp(classes, pos[1], Op(pos))
             /\ (Op(pos).is_create /\ Op(pos).forward) => SoundPushes(classes, Op(pos))
  <2>1. pos[1] \in Tables /\ pos[2] \in DOMAIN stacks[pos[1]] /\ Op(pos) = stacks[pos[1]][pos[2]]
    BY PositionFacts
  <2>2. Op(pos) \in FilterOp
    BY <1>1, PlacedFacts
  <2> QED BY <1>1, <2>1, <2>2 DEF SoundStacks
<1>3. ASSUME NEW c \in Creates, NEW i \in DOMAIN Op(c).build_columns
      PROVE  Op(c).build_columns[i][1] = c[1]
  BY <1>2 DEF Creates, SoundOp, ToSet
<1>4. ASSUME NEW q \in DOMAIN related_create
      PROVE  /\ related_create[q] \in Creates
             /\ FoundAt(q) = DOMAIN Op(q).build_columns
             /\ \A i \in DOMAIN Op(q).build_columns :
                  /\ Op(q).probe_columns[i][1] = q[1]
                  /\ JoinedOn(Op(q).build_columns[i], Op(q).probe_columns[i])
  <2>1. /\ q[1] \in Tables /\ q[2] \in DOMAIN stacks[q[1]] /\ q = <<q[1], q[2]>>
        /\ ~ stacks[q[1]][q[2]].is_create
    BY <1>1 DEF OnlyProbes
  <2>2. q \in Positions /\ Op(q) = stacks[q[1]][q[2]] /\ q \in Probes
    BY <2>1, PositionFacts DEF Probes, Op
  <2>3. LinkOk(stacks, q, related_create[q])
    BY <1>1, <2>1 DEF Linking
  <2>4. related_create[q] \in Creates
    BY <2>3, PositionFacts DEF LinkOk, Creates, Op
  <2>5. FoundAt(q) = DOMAIN Op(q).build_columns
    BY <1>1, <2>2 DEF EveryProbeFindsItsFilters
  <2>6. SoundOp(classes, q[1], Op(q)) /\ ~ Op(q).is_create
    BY <1>2, <2>1, <2>2
  <2>7. \A i \in DOMAIN Op(q).build_columns :
            /\ Op(q).probe_columns[i][1] = q[1]
            /\ JoinedOn(Op(q).build_columns[i], Op(q).probe_columns[i])
    BY <2>6 DEF SoundOp, Paired, ToSet, JoinedOn
  <2> QED BY <2>4, <2>5, <2>7
<1>5. ASSUME NEW c \in DOMAIN pushdown_targets, NEW target \in pushdown_targets[c]
      PROVE  /\ c \in Creates
             /\ target \in Tables \X Columns
             /\ \A b \in PushedFrom(c, target) : JoinedOn(b, target)
  <2>1. /\ c[1] \in Tables /\ c[2] \in DOMAIN stacks[c[1]] /\ c = <<c[1], c[2]>>
        /\ stacks[c[1]][c[2]].is_create /\ stacks[c[1]][c[2]].forward
    BY <1>1 DEF TargetsInv
  <2>2. c \in Positions /\ c \in Creates /\ Op(c).forward /\ Op(c).is_create
    BY <2>1, PositionFacts DEF Creates, Op
  <2>3. SoundPushes(classes, Op(c))
    BY <1>2, <2>2
  <2>4. \A b \in PushedFrom(c, target) : JoinedOn(b, target)
    BY <2>3 DEF PushedFrom, SoundPushes, JoinedOn
  <2> QED BY <1>1, <2>2, <2>4
<1> QED BY <1>2, <1>3, <1>4, <1>5

-----------------------------------------------------------------------------
\* The inductive invariant.

\* The links of a PROBE once its CREATE has been made, and before.
LinksOf(q) == IF q \in DOMAIN related_create /\ related_create[q] \in physical
              THEN <<related_create[q]>> ELSE << >>

\* Operators are made, linked and put in pipelines for a finished plan only;
\* a PROBE is linked to nothing but its CREATE, and a pipeline waits at least for
\* the CREATE it starts from.
PlanInv ==
    /\ exec # "optimize" => step = "planned"
    /\ exec \in {"optimize", "create plan"} =>
        waits = << >> /\ to_build = {} /\ this_pipeline = {}
    /\ exec = "optimize" => physical = {}
    /\ exec \in {"build", "run", "returned"} => physical = Positions
    /\ DOMAIN linked = Probes \cap physical
    /\ \A q \in DOMAIN linked : linked[q] = LinksOf(q)
    /\ \A p \in DOMAIN waits : p[1] \in Tables /\ SourceOf(p) \subseteq waits[p]
    /\ \A p \in to_build \cup this_pipeline : p[1] \in Tables

\* A PROBE is linked to CREATEs only.
LinkedCreates ==
    step = "planned" => \A q \in DOMAIN related_create : related_create[q] \in Creates

\* A row of the result lets no flag rise, and is not lost by any pipeline.
KeepsResult ==
    \A f \in FullResult : flags = {} /\ \A p \in Finished : f[p[1]] \in produced[p]

\* Pipelines hand on rows of their tables, and all those that are in the result.
RowsInv ==
    /\ exec \notin {"run", "returned"} => flags = {} /\ produced = << >>
    /\ \A t \in Tables : data[t] \subseteq [Columns -> Int]
    /\ \A p \in Finished : p[1] \in Tables /\ produced[p] \subseteq data[p[1]]
    /\ KeepsResult
    /\ exec = "returned" => Outputs \subseteq Finished

-----------------------------------------------------------------------------
\* Rows of the result pass the filters of a sound plan.

\* A row of the result has equal values in columns that the query equates.
LEMMA EqualOnClass ==
    ASSUME NEW f \in FullResult, NEW a, NEW b, JoinedOn(a, b)
    PROVE  f[a[1]][a[2]] = f[b[1]][b[2]]
BY DEF FullResult, JoinOf, JoinedOn, Together

\* The filters of a finished CREATE have the values of every row of the result.
LEMMA ResultInFilter ==
    ASSUME KeepsResult, NEW f \in FullResult, NEW c \in Finished,
           NEW b, NEW a, b[1] = c[1], JoinedOn(b, a)
    PROVE  InFilter(c, b, f[a[1]][a[2]])
<1>1. f[c[1]] \in produced[c]  BY DEF KeepsResult
<1>2. f[c[1]][b[2]] = f[a[1]][a[2]]  BY EqualOnClass
<1> QED  BY <1>1, <1>2 DEF InFilter

\* Positions of a stack, and those above the stacks, are on a table.
LEMMA PositionsOnTables ==
    \A pos \in Positions \cup Outputs : pos[1] \in Tables
BY DEF Positions, Outputs

LEMMA SoundLinks == PlanSound => LinkedCreates
BY DEF PlanSound, LinkedCreates

\* A PROBE is linked to nothing but its CREATE.
LEMMA LinksAreCreates ==
    ASSUME PlanInv, LinkedCreates, step = "planned",
           NEW q \in DOMAIN linked, NEW c \in ToSet(linked[q])
    PROVE  c \in Creates /\ q \in DOMAIN related_create /\ c = related_create[q]
<1>1. q \in DOMAIN related_create /\ c = related_create[q]
  <2>1. linked[q] = LinksOf(q)  BY DEF PlanInv
  <2>2. linked[q] # << >>  BY DEF ToSet
  <2>3. linked[q] = <<related_create[q]>> /\ q \in DOMAIN related_create
    BY <2>1, <2>2 DEF LinksOf
  <2> QED  BY <2>3 DEF ToSet
<1> QED  BY <1>1 DEF LinkedCreates

\* In a sound plan the filters found are those of the CREATE the PROBE is linked
\* to, none is missing before the j-th, and so the j-th is looked up with the j-th
\* column.
LEMMA TestedWithItsColumn ==
    ASSUME PlanInv, PlanSound, step = "planned", NEW q \in DOMAIN linked,
           NEW j \in DOMAIN Op(q).build_columns, NEW c \in Holders(q, j)
    PROVE  /\ c \in Creates
           /\ Op(q).build_columns[j][1] = c[1]
           /\ TestedColumn(q, j)[1] = q[1]
           /\ JoinedOn(Op(q).build_columns[j], TestedColumn(q, j))
<1>1. c \in Creates /\ q \in DOMAIN related_create /\ c = related_create[q]
  BY SoundLinks, LinksAreCreates DEF Holders
<1>2. FoundAt(q) = DOMAIN Op(q).build_columns
  BY <1>1 DEF PlanSound
<1>3. Op(q).build_columns[j][1] = c[1]
  <2>1. PICK i \in DOMAIN Op(c).build_columns : Op(c).build_columns[i] = Op(q).build_columns[j]
    BY DEF Holders, ToSet
  <2> QED  BY <1>1, <2>1 DEF PlanSound
<1>4. j \in Nat /\ j >= 1 /\ 1 .. j \subseteq DOMAIN Op(q).build_columns
  <2>1. q \in Positions  BY DEF PlanInv, Probes
  <2>2. Op(q).build_columns \in Seq(Tables \X Columns)
    BY <2>1 DEF PlanSound, FilterOp
  <2> QED  BY <2>2
<1>5. \A k \in 1 .. j : FilterFound(q, k)
  <2>1. \A k \in 1 .. j : c \in Holders(q, k)
    BY <1>1, <1>2, <1>4 DEF Holders, FoundAt
  <2> QED  BY <2>1 DEF FilterFound
<1>6. Cardinality({k \in 1 .. j : FilterFound(q, k)}) = j
  <2>1. {k \in 1 .. j : FilterFound(q, k)} = 1 .. j  BY <1>5
  <2>2. Cardinality(1 .. j) = j  BY <1>4, FS_Interval
  <2> QED  BY <2>1, <2>2
<1>7. TestedColumn(q, j) = Op(q).probe_columns[j]  BY <1>6 DEF TestedColumn
<1> QED  BY <1>1, <1>2, <1>3, <1>7 DEF PlanSound

\* A PROBE lets the rows of the result pass.
LEMMA ProbeAdmitsResult ==
    ASSUME PlanInv, RowsInv, PlanSound, step = "planned",
           NEW q \in DOMAIN linked, NEW f \in FullResult
    PROVE  Admits(q, f[q[1]])
<1>1. ASSUME NEW j \in DOMAIN Op(q).build_columns, NEW c \in Holders(q, j) \cap Finished
      PROVE  InFilter(c, Op(q).build_columns[j], f[q[1]][TestedColumn(q, j)[2]])
  <2>1. /\ Op(q).build_columns[j][1] = c[1]
        /\ TestedColumn(q, j)[1] = q[1]
        /\ JoinedOn(Op(q).build_columns[j], TestedColumn(q, j))
    BY <1>1, TestedWithItsColumn
  <2> QED  BY <2>1, ResultInFilter DEF RowsInv
<1> QED  BY <1>1 DEF Admits

\* So does what a finished CREATE pushed to a scan, its range included.
LEMMA PushAdmitsResult ==
    ASSUME RowsInv, PlanSound, step = "planned", NEW f \in FullResult,
           NEW c \in DOMAIN pushdown_targets \cap Finished, NEW target \in pushdown_targets[c]
    PROVE  PushAdmits(c, target, f[target[1]])
<1>1. f[c[1]] \in produced[c]  BY DEF RowsInv, KeepsResult
<1>2. ASSUME NEW b \in PushedFrom(c, target)
      PROVE  /\ InFilter(c, b, f[target[1]][target[2]])
             /\ \E low, high \in produced[c] : /\ low[b[2]] <= f[target[1]][target[2]]
                                               /\ f[target[1]][target[2]] <= high[b[2]]
  <2>1. b[1] = c[1]  BY DEF PlanSound, PushedFrom
  <2>2. JoinedOn(b, target)  BY DEF PlanSound
  <2>3. f[c[1]][b[2]] = f[target[1]][target[2]]  BY <2>1, <2>2, EqualOnClass
  <2>4. f[target[1]][target[2]] \in Int
    <3>1. target[1] \in Tables /\ target[2] \in Columns  BY DEF PlanSound
    <3>2. f[target[1]] \in data[target[1]]  BY <3>1 DEF FullResult, JoinOf
    <3>3. f[target[1]] \in [Columns -> Int]  BY <3>1, <3>2 DEF RowsInv
    <3> QED  BY <3>1, <3>3
  <2>5. InFilter(c, b, f[target[1]][target[2]])
    BY <2>1, <2>2, ResultInFilter DEF RowsInv
  <2> QED  BY <1>1, <2>3, <2>4, <2>5
<1> QED  BY <1>1, <1>2 DEF PushAdmits

\* A row of the result reaches every operator of a pipeline, and what reaches it
\* are rows of the table.
LEMMA ResultReaches ==
    ASSUME PlanInv, RowsInv, PlanSound, exec = "run", NEW p \in Runnable, NEW i
    PROVE  /\ p[1] \in Tables
           /\ Reaching(p, i) \subseteq data[p[1]]
           /\ \A f \in FullResult : f[p[1]] \in Reaching(p, i)
<1>1. p[1] \in Tables /\ SourceOf(p) \subseteq Finished
  BY DEF PlanInv, Runnable
<1>2. \A c \in SourceOf(p) : c[1] = p[1]  BY DEF SourceOf, Under
<1>3. Entering(p) \subseteq data[p[1]]
  BY <1>1, <1>2 DEF Entering, Scanned, RowsInv
<1>4. ASSUME NEW f \in FullResult
      PROVE  f[p[1]] \in Entering(p)
  <2>1. CASE SourceOf(p) = {}
    <3>1. f[p[1]] \in data[p[1]]  BY <1>1 DEF FullResult, JoinOf
    <3>2. step = "planned"  BY DEF PlanInv
    <3>3. \A c \in DOMAIN pushdown_targets \cap Finished : \A target \in pushdown_targets[c] :
            target[1] = p[1] => PushAdmits(c, target, f[p[1]])
      BY <3>2, PushAdmitsResult
    <3> QED  BY <2>1, <3>1, <3>3 DEF Entering, Scanned
  <2>2. CASE SourceOf(p) # {}
    <3>1. PICK c : c \in SourceOf(p)  BY <2>2
    <3>2. f[p[1]] \in produced[c]  BY <1>1, <1>2, <3>1 DEF RowsInv, KeepsResult
    <3> QED  BY <2>2, <3>1, <3>2 DEF Entering
  <2> QED  BY <2>1, <2>2
<1>5. ASSUME NEW f \in FullResult, NEW q \in Segment(p)
      PROVE  Admits(q, f[p[1]])
  <2>1. q \in Probes /\ q[1] = p[1]  BY DEF Segment, Under
  <2>2. q \in DOMAIN linked  BY <2>1 DEF PlanInv, Probes
  <2> QED  BY <2>1, <2>2, ProbeAdmitsResult DEF PlanInv
<1> QED  BY <1>1, <1>3, <1>4, <1>5 DEF Reaching

\* An empty filter, met by a PROBE, means that there is no result.
LEMMA EmptyFilterEmptyResult ==
    ASSUME RowsInv, NEW p, NEW q, MeetsEmpty(p, q)
    PROVE  FullResult = {}
BY DEF MeetsEmpty, RowsInv, KeepsResult

-----------------------------------------------------------------------------
\* The invariant holds initially and is kept by every step.

\* Nothing is linked, waits or has finished at first.
LEMMA NoDomain == DOMAIN << >> = {}
OBVIOUS

LEMMA InvInit == XInit => PlanInv /\ RowsInv
<1> SUFFICES ASSUME XInit PROVE PlanInv /\ RowsInv
  OBVIOUS
<1>1. PlanInv  BY DEF XInit, PlanInv
<1>2. RowsInv  BY DEF XInit, RowsInv, KeepsResult, Finished, NoRows
<1> QED  BY <1>1, <1>2

\* A pipeline depends on CREATEs of the plan.
LEMMA DependenciesAreCreates ==
    ASSUME PlanInv, LinkedCreates, exec = "build", NEW p
    PROVE  DependsOn(p) \subseteq Creates
<1>1. SourceOf(p) \subseteq Creates  BY DEF SourceOf
<1>2. Segment(p) \subseteq DOMAIN linked  BY DEF Segment, Probes, PlanInv
<1>3. \A q \in Segment(p) : ToSet(linked[q]) \subseteq Creates
  <2>1. step = "planned"  BY DEF PlanInv
  <2> QED  BY <1>2, <2>1, LinksAreCreates
<1> QED  BY <1>1, <1>3 DEF DependsOn

\* Positions and what is said of the plan depend on the plan only.
LEMMA SamePlan ==
    ASSUME UNCHANGED hvars
    PROVE  /\ Positions' = Positions /\ Creates' = Creates /\ Probes' = Probes
           /\ Outputs' = Outputs /\ step' = step /\ related_create' = related_create
           /\ classes' = classes
           /\ \A p : SourceOf(p)' = SourceOf(p)
<1>1. stacks' = stacks /\ step' = step /\ related_create' = related_create /\ classes' = classes
  BY DEF hvars, allvars, vars, placement
<1>2. Positions' = Positions  BY <1>1 DEF Positions
<1>3. Creates' = Creates /\ Probes' = Probes  BY <1>1, <1>2 DEF Creates, Probes, Op
<1>4. Outputs' = Outputs  BY <1>1 DEF Outputs
<1>5. \A p : SourceOf(p)' = SourceOf(p)  BY <1>2, <1>3 DEF SourceOf, Under
<1> QED  BY <1>1, <1>2, <1>3, <1>4, <1>5

LEMMA PlanInvStep ==
    ASSUME PlanInv, LinkedCreates, [XNext]_xvars
    PROVE  PlanInv'
<1>1. CASE Optimize
  <2>1. /\ exec' \in {"optimize", "create plan"} /\ (exec' # "optimize" => step' = "planned")
        /\ waits' = << >> /\ to_build' = {} /\ this_pipeline' = {}
        /\ physical' = {} /\ DOMAIN linked' = {}
    BY <1>1 DEF PlanInv, Optimize, planstate, pipestate
  <2>2. DOMAIN waits' = {}  BY <2>1, NoDomain
  <2> QED  BY <2>1, <2>2 DEF PlanInv
<1>2. ASSUME NEW pos \in Positions, exec = "create plan", CreatePlan(pos)
      PROVE  PlanInv'
  <2>1. /\ Positions' = Positions /\ Probes' = Probes /\ step' = step
        /\ related_create' = related_create /\ \A r : SourceOf(r)' = SourceOf(r)
    BY <1>2, SamePlan DEF CreatePlan
  <2>2. physical' = physical \cup {pos} /\ exec' = exec
        /\ waits' = waits /\ to_build' = to_build /\ this_pipeline' = this_pipeline
    BY <1>2 DEF CreatePlan, pipestate
  <2>3. CASE Op(pos).is_create
    <3>1. linked' = LinkCreate(pos)  BY <1>2, <2>3 DEF CreatePlan
    <3>2. DOMAIN linked' = DOMAIN linked  BY <3>1 DEF LinkCreate
    <3>3. pos \notin Probes  BY <2>3 DEF Probes
    <3>4. ASSUME NEW q \in DOMAIN linked
          PROVE  linked'[q] = LinksOf(q)'
      <4>1. linked[q] = LinksOf(q) /\ pos \notin physical  BY <1>2 DEF PlanInv, CreatePlan
      <4>2. CASE q \in DOMAIN related_create /\ related_create[q] = pos
        <5>1. linked'[q] = Append(linked[q], pos)  BY <3>1, <4>2 DEF LinkCreate
        <5>2. linked[q] = << >>  BY <4>1, <4>2 DEF LinksOf
        <5> QED  BY <2>1, <2>2, <4>2, <5>1, <5>2 DEF LinksOf
      <4>3. CASE ~ (q \in DOMAIN related_create /\ related_create[q] = pos)
        BY <2>1, <2>2, <3>1, <4>1, <4>3 DEF LinkCreate, LinksOf
      <4> QED  BY <4>2, <4>3
    <3> QED  BY <1>2, <2>1, <2>2, <3>2, <3>3, <3>4 DEF PlanInv
  <2>4. CASE ~ Op(pos).is_create
    <3>1. linked' = LinkProbe(pos)  BY <1>2, <2>4 DEF CreatePlan
    <3>2. DOMAIN linked' = DOMAIN linked \cup {pos}  BY <3>1 DEF LinkProbe
    <3>3. pos \in Probes /\ pos \notin Creates  BY <1>2, <2>4 DEF Probes, Creates
    <3>4. ASSUME NEW q \in DOMAIN linked'
          PROVE  linked'[q] = LinksOf(q)'
      <4>1. step = "planned"  BY <1>2 DEF PlanInv
      <4>2. q \in DOMAIN related_create => related_create[q] # pos
        BY <3>3, <4>1 DEF LinkedCreates
      <4>3. LinksOf(q)' = LinksOf(q)  BY <2>1, <2>2, <4>2 DEF LinksOf
      <4>4. CASE q = pos  BY <3>1, <4>3, <4>4 DEF LinkProbe, LinksOf
      <4>5. CASE q # pos  BY <3>1, <3>2, <4>3, <4>5 DEF LinkProbe, PlanInv
      <4> QED  BY <4>4, <4>5
    <3> QED  BY <1>2, <2>1, <2>2, <3>2, <3>3, <3>4 DEF PlanInv
  <2> QED  BY <2>3, <2>4
<1>3. CASE EndPlan
  <2>1. /\ Positions' = Positions /\ Probes' = Probes /\ step' = step
        /\ related_create' = related_create /\ \A r : SourceOf(r)' = SourceOf(r)
    BY <1>3, SamePlan DEF EndPlan
  <2>2. \A p \in to_build' : p[1] \in Tables
    <3>1. to_build' = Outputs  BY <1>3 DEF EndPlan
    <3> QED  BY <3>1, PositionsOnTables
  <2>3. /\ exec = "create plan" /\ exec' = "build" /\ physical = Positions
        /\ physical' = physical /\ linked' = linked
        /\ waits' = waits /\ this_pipeline' = this_pipeline
    BY <1>3 DEF EndPlan, planstate
  <2> QED  BY <2>1, <2>2, <2>3 DEF PlanInv, LinksOf
<1>4. ASSUME NEW p \in to_build, BuildPipelines(p)
      PROVE  PlanInv'
  <2>1. /\ Positions' = Positions /\ Probes' = Probes /\ step' = step
        /\ related_create' = related_create /\ \A r : SourceOf(r)' = SourceOf(r)
    BY <1>4, SamePlan DEF BuildPipelines
  <2>2. /\ exec = "build" /\ exec' = exec /\ physical' = physical /\ linked' = linked
    BY <1>4 DEF BuildPipelines, planstate
  <2>3. \A d \in DependsOn(p) : d[1] \in Tables
    BY <2>2, DependenciesAreCreates, PositionsOnTables DEF Creates
  <2>4. \A q \in to_build' \cup this_pipeline' : q[1] \in Tables
    BY <1>4, <2>3 DEF BuildPipelines, ToCollect, PlanInv
  <2>5. \A q \in DOMAIN waits' : q[1] \in Tables /\ SourceOf(q)' \subseteq waits'[q]
    <3>1. waits' = [q \in DOMAIN waits \cup {p} |-> IF q = p THEN DependsOn(p) ELSE waits[q]]
      BY <1>4 DEF BuildPipelines
    <3>2. SourceOf(p) \subseteq DependsOn(p)  BY DEF DependsOn
    <3>3. p[1] \in Tables  BY <1>4 DEF PlanInv
    <3> QED  BY <2>1, <3>1, <3>2, <3>3 DEF PlanInv
  <2> QED  BY <2>1, <2>2, <2>4, <2>5 DEF PlanInv, LinksOf
<1>5. CASE Start \/ ReturnResult
  <2>1. /\ Positions' = Positions /\ Probes' = Probes /\ step' = step
        /\ related_create' = related_create /\ \A r : SourceOf(r)' = SourceOf(r)
    BY <1>5, SamePlan DEF Start, ReturnResult
  <2>2. /\ exec \in {"build", "run"} /\ exec' \in {"run", "returned"}
        /\ physical' = physical /\ linked' = linked
        /\ waits' = waits /\ to_build' = to_build /\ this_pipeline' = this_pipeline
    BY <1>5 DEF Start, ReturnResult, planstate, pipestate
  <2> QED  BY <2>1, <2>2 DEF PlanInv, LinksOf
<1>6. ASSUME NEW p, NEW q, NEW rows, ProbeRaisesFlag(p, q) \/ (exec = "run" /\ FinishWith(p, rows))
      PROVE  PlanInv'
  <2>1. /\ Positions' = Positions /\ Probes' = Probes /\ step' = step
        /\ related_create' = related_create /\ \A r : SourceOf(r)' = SourceOf(r)
    BY <1>6, SamePlan DEF ProbeRaisesFlag, FinishWith
  <2>2. /\ exec = "run" /\ exec' = exec
        /\ physical' = physical /\ linked' = linked
        /\ waits' = waits /\ to_build' = to_build /\ this_pipeline' = this_pipeline
    BY <1>6 DEF ProbeRaisesFlag, FinishWith, planstate, pipestate
  <2> QED  BY <2>1, <2>2 DEF PlanInv, LinksOf
<1>7. CASE QueryEnd
  <2>1. step' = "planned"  BY <1>7, SamePlan DEF QueryEnd, PlanInv
  <2>2. /\ exec' = "create plan" /\ physical' = {}
        /\ to_build' = {} /\ this_pipeline' = {} /\ waits' = << >>
        /\ DOMAIN linked' = {} /\ DOMAIN waits' = {}
    BY <1>7, NoDomain DEF QueryEnd
  <2> QED  BY <2>1, <2>2 DEF PlanInv
<1>8. CASE UNCHANGED xvars
  <2>1. /\ Positions' = Positions /\ Probes' = Probes /\ step' = step
        /\ related_create' = related_create /\ \A r : SourceOf(r)' = SourceOf(r)
    BY <1>8, SamePlan DEF xvars
  <2>2. /\ exec' = exec /\ physical' = physical /\ linked' = linked
        /\ waits' = waits /\ to_build' = to_build /\ this_pipeline' = this_pipeline
    BY <1>8 DEF xvars, execvars, planstate, pipestate
  <2> QED  BY <2>1, <2>2 DEF PlanInv, LinksOf
<1> QED
  BY <1>1, <1>2, <1>3, <1>4, <1>5, <1>6, <1>7, <1>8
  DEF XNext, Execute, FinishPipeline, StopPipeline

\* Rows that a pipeline hands on: of its table, and all that are in the result.
LEMMA RowsInvFinish ==
    ASSUME PlanInv, RowsInv, PlanSound, exec = "run", NEW p \in Runnable, NEW rows,
           FinishWith(p, rows), rows \subseteq Reaching(p, p[2]),
           \A f \in FullResult : f[p[1]] \in rows
    PROVE  RowsInv'
<1>1. /\ produced' = [q \in Finished \cup {p} |-> IF q = p THEN rows ELSE produced[q]]
      /\ Finished' = Finished \cup {p}
  BY DEF FinishWith, Finished
<1>2. /\ exec' = exec /\ data' = data /\ FullResult' = FullResult
  <2>1. classes' = classes /\ exec' = exec /\ data' = data  BY SamePlan DEF FinishWith
  <2> QED  BY <2>1 DEF FullResult
<1>3. p[1] \in Tables /\ rows \subseteq data[p[1]]  BY ResultReaches
<1>4. \A q \in Finished' : q[1] \in Tables /\ produced'[q] \subseteq data'[q[1]]
  BY <1>1, <1>2, <1>3 DEF RowsInv
<1>5. ASSUME NEW f \in FullResult
      PROVE  flags' = {} /\ \A q \in Finished' : f[q[1]] \in produced'[q]
  <2>1. flags = {} /\ \A q \in Finished : f[q[1]] \in produced[q]
    BY DEF RowsInv, KeepsResult
  <2>2. rows # {}  OBVIOUS
  <2>3. flags' = {}  BY <2>1, <2>2 DEF FinishWith
  <2> QED  BY <1>1, <2>1, <2>3
<1>6. KeepsResult'  BY <1>2, <1>5 DEF KeepsResult
<1> QED  BY <1>2, <1>4, <1>6 DEF RowsInv

LEMMA RowsInvStep ==
    ASSUME PlanInv, RowsInv, PlanSound, [XNext]_xvars
    PROVE  RowsInv'
<1>1. CASE \/ Optimize \/ EndPlan
           \/ \E pos \in Positions : CreatePlan(pos)
           \/ exec = "build" /\ \E p \in to_build : BuildPipelines(p)
  <2>1. /\ exec \notin {"run", "returned"} /\ exec' \notin {"run", "returned"}
        /\ data' = data /\ flags' = flags /\ produced' = produced
    BY <1>1 DEF Optimize, EndPlan, CreatePlan, BuildPipelines, runstate
  <2>2. flags' = {} /\ produced' = << >> /\ Finished' = {}
    BY <2>1 DEF RowsInv, Finished
  <2> QED  BY <2>1, <2>2 DEF RowsInv, KeepsResult
<1>2. CASE exec = "build" /\ Start
  <2>1. exec' = "run" /\ flags' = {} /\ produced' = << >>
    BY <1>2 DEF Start, RowsInv
  <2>2. Finished' = {}  BY <2>1 DEF Finished
  <2>3. \A t \in Tables : data'[t] \subseteq [Columns -> Int]
    BY <1>2, ExecutionsAssumption DEF Start
  <2> QED  BY <2>1, <2>2, <2>3 DEF RowsInv, KeepsResult
<1>3. CASE ReturnResult
  <2>1. /\ exec = "run" /\ exec' = "returned" /\ Outputs \subseteq Finished
        /\ data' = data /\ flags' = flags /\ produced' = produced
    BY <1>3 DEF ReturnResult, runstate
  <2>2. Outputs' = Outputs /\ classes' = classes
    BY <1>3, SamePlan DEF ReturnResult
  <2>3. Finished' = Finished /\ FullResult' = FullResult
    BY <2>1, <2>2 DEF Finished, FullResult
  <2> QED  BY <2>1, <2>2, <2>3 DEF RowsInv, KeepsResult
<1>4. ASSUME NEW p \in Runnable, NEW q \in Segment(p), exec = "run", ProbeRaisesFlag(p, q)
      PROVE  RowsInv'
  <2>1. exec' = exec /\ data' = data /\ produced' = produced /\ MeetsEmpty(p, q)
    BY <1>4 DEF ProbeRaisesFlag
  <2>2. classes' = classes  BY <1>4, SamePlan DEF ProbeRaisesFlag
  <2>3. FullResult' = {}
    BY <2>1, <2>2, EmptyFilterEmptyResult DEF FullResult
  <2>4. Finished' = Finished  BY <2>1 DEF Finished
  <2> QED  BY <1>4, <2>1, <2>3, <2>4 DEF RowsInv, KeepsResult
<1>5. ASSUME NEW p \in Runnable, exec = "run", FinishPipeline(p)
      PROVE  RowsInv'
  BY <1>5, ResultReaches, RowsInvFinish DEF FinishPipeline
<1>6. ASSUME NEW p \in Runnable, exec = "run", StopPipeline(p)
      PROVE  RowsInv'
  <2>1. FullResult = {}
    BY <1>6 DEF StopPipeline, StopsEarly, RowsInv, KeepsResult
  <2> QED  BY <1>6, <2>1, RowsInvFinish DEF StopPipeline
<1>7. CASE QueryEnd
  <2>1. /\ exec' \notin {"run", "returned"} /\ flags' = {} /\ produced' = << >>
        /\ data' = NoRows
    BY <1>7 DEF QueryEnd, ClearedFlags
  <2>2. Finished' = {}  BY <2>1 DEF Finished
  <2> QED  BY <2>1, <2>2 DEF RowsInv, KeepsResult, NoRows
<1>8. CASE UNCHANGED xvars
  <2>1. /\ exec' = exec /\ data' = data /\ flags' = flags /\ produced' = produced
    BY <1>8 DEF xvars, execvars, runstate
  <2>2. Outputs' = Outputs /\ classes' = classes
    BY <1>8, SamePlan DEF xvars
  <2>3. Finished' = Finished /\ FullResult' = FullResult
    BY <2>1, <2>2 DEF Finished, FullResult
  <2> QED  BY <2>1, <2>2, <2>3 DEF RowsInv, KeepsResult
<1> QED
  BY <1>1, <1>2, <1>3, <1>4, <1>5, <1>6, <1>7, <1>8 DEF XNext, Execute

\* Execution leaves the plan alone.
LEMMA ExecutionPlans == XSpec => HSpec
<1>1. XInit => HInit
  BY DEF XInit
<1>2. [XNext]_xvars => [HNext]_hvars
  BY DEF XNext, Optimize, Execute, EndPlan, CreatePlan, Start, BuildPipelines, ReturnResult,
     ProbeRaisesFlag, FinishPipeline, StopPipeline, FinishWith, QueryEnd, xvars
<1> QED BY <1>1, <1>2, PTL DEF XSpec, HSpec

\* Links are kept, whatever is planned.
LEMMA PlanInvariant == XSpec => [](PlanInv /\ LinkedCreates)
<1>1. OptimizedInv => LinkedCreates
  <2> SUFFICES ASSUME OptimizedInv, step = "planned", NEW q \in DOMAIN related_create
               PROVE  related_create[q] \in Creates
    BY DEF LinkedCreates
  <2>1. OnlyProbes(stacks, related_create) /\ Linking(stacks, related_create)
    BY DEF OptimizedInv, PlaceInv
  <2>2. LinkOk(stacks, q, related_create[q])
    BY <2>1 DEF OnlyProbes, Linking
  <2> QED BY <2>2, PositionFacts DEF LinkOk, Creates, Op
<1>2. PlanInv /\ LinkedCreates /\ [XNext]_xvars => PlanInv'
  BY PlanInvStep
<1>3. XInit => PlanInv
  BY InvInit
<1> QED BY <1>1, <1>2, <1>3, ExecutionPlans, OptimizedInvariant, PTL DEF XSpec

\* The invariant, of all behaviours whose plans are sound.
LEMMA Invariant == XSpec /\ []PlanSound => [](PlanInv /\ RowsInv)
<1>1. PlanInv /\ RowsInv /\ PlanSound /\ [XNext]_xvars => RowsInv'
  BY RowsInvStep
<1>2. XInit => RowsInv
  BY InvInit
<1> QED  BY <1>1, <1>2, PlanInvariant, PTL DEF XSpec

-----------------------------------------------------------------------------
\* The theorems.

\* The optimizer makes sound plans of all graphs of SoundInputs, with either
\* heuristic and pass mode: every PROBE and every scan tests a column with a filter
\* of a column the query equates with it (robust_optimizer.cpp:1041-1160,
\* 1193-1212, 1369-1395, physical_create_filter.cpp:390-401).
THEOREM PlansAreSound ==
    ASSUME SoundInputs
    PROVE  XSpec => []PlanSound
<1> QED BY ExecutionPlans, OptimizedInvariant, SoundInvariant, SoundFollows, PTL

\* No flag rises in a query that has a result, whatever empty filters are met and
\* whichever operators share a flag: no operator stops by it with rows to come.
THEOREM FlagsMeanEmptyThm == XSpec /\ []PlanSound => []FlagsMeanEmpty
<1>1. RowsInv => FlagsMeanEmpty
  BY DEF RowsInv, KeepsResult, FlagsMeanEmpty
<1> QED  BY <1>1, Invariant, PTL

\* The same of whatever the optimizer makes of the graphs of SoundInputs
\* (physical_create_filter.cpp:201, physical_probe_filter.cpp:157).
THEOREM FlagsAlwaysMeanEmpty ==
    ASSUME SoundInputs
    PROVE  XSpec => []FlagsMeanEmpty
<1> QED BY FlagsMeanEmptyThm, PlansAreSound, PTL

\* The joins return from the rows they are given what they return from the tables.
LEMMA SameJoin ==
    ASSUME RowsInv, Outputs \subseteq Finished
    PROVE  JoinOf(OutputRows, classes) = JoinOf(data, classes)
<1>1. ASSUME NEW t \in Tables
      PROVE  /\ OutputRows[t] \subseteq data[t]
             /\ \A f \in FullResult : f[t] \in OutputRows[t]
  <2>1. PICK p \in Outputs : p = <<t, Len(stacks[t]) + 1>>  BY DEF Outputs
  <2>2. p \in Finished /\ p[1] = t /\ OutputRows[t] = produced[p]
    BY <2>1 DEF OutputRows
  <2> QED  BY <2>2 DEF RowsInv, KeepsResult
<1>2. ASSUME NEW f \in JoinOf(OutputRows, classes)
      PROVE  f \in JoinOf(data, classes)
  <2>1. f = [t \in Tables |-> f[t]] /\ \A t \in Tables : f[t] \in OutputRows[t]
    BY DEF JoinOf
  <2>2. \A t \in Tables : f[t] \in data[t]  BY <1>1, <2>1
  <2>3. f \in [Tables -> UNION {data[t] : t \in Tables}]  BY <2>1, <2>2
  <2> QED  BY <2>2, <2>3 DEF JoinOf
<1>3. ASSUME NEW f \in JoinOf(data, classes)
      PROVE  f \in JoinOf(OutputRows, classes)
  <2>1. f = [t \in Tables |-> f[t]]  BY DEF JoinOf
  <2>2. \A t \in Tables : f[t] \in OutputRows[t]  BY <1>1 DEF FullResult
  <2>3. f \in [Tables -> UNION {OutputRows[t] : t \in Tables}]  BY <2>1, <2>2
  <2> QED  BY <2>2, <2>3 DEF JoinOf
<1> QED  BY <1>2, <1>3

\* Planning leaves the classes as they are.
LEMMA ClassesKept ==
    ASSUME HNext
    PROVE  classes' = classes
<1>1. ASSUME NEW p, NEW c, AddForward(p, c)
      PROVE  classes' = classes
  BY <1>1 DEF AddForward
<1>2. CASE Next
  BY <1>1, <1>2 DEF Next, ForwardEdge, EndForward, BackwardEdge, EndBackward
<1>3. CASE GrowTree \/ BuildRootedTree
  BY <1>3 DEF GrowTree, BuildRootedTree, allvars, vars
<1>4. CASE GenerateStageModifications
  BY <1>1, <1>4 DEF GenerateStageModifications, ForwardTreeEdge, EndForward,
                    BackwardTreeEdge, EndBackward
<1>5. CASE PlaceOperators
  BY <1>5 DEF PlaceOperators, ApplyStageModifications, LinkProbeFilterToCreateFilter,
              SetupDynamicFilterPushdown, vars
<1> QED  BY <1>2, <1>3, <1>4, <1>5 DEF HNext, Generate

\* A step of a query is a step of the promise, or changes nothing it speaks of.
LEMMA StepKeepsPromise ==
    ASSUME PlanInv, RowsInv, [XNext]_xvars
    PROVE  [Query!QNext]_(Query!qvars)
<1> USE DEF Query!qvars
<1>1. CASE Optimize
  <2>1. /\ exec \notin {"run", "returned"} /\ exec' \notin {"run", "returned"}
        /\ data' = data /\ classes' = classes
    BY <1>1, ClassesKept DEF Optimize, runstate
  <2> QED  BY <2>1
<1>2. CASE \/ EndPlan
           \/ \E pos \in Positions : CreatePlan(pos)
           \/ exec = "build" /\ \E p \in to_build : BuildPipelines(p)
  <2>1. /\ exec \notin {"run", "returned"} /\ exec' \notin {"run", "returned"}
        /\ data' = data /\ classes' = classes
    BY <1>2, SamePlan DEF EndPlan, CreatePlan, BuildPipelines, runstate
  <2> QED  BY <2>1
<1>3. CASE exec = "build" /\ Start
  <2>1. exec = "build" /\ exec' = "run" /\ classes' = classes
    BY <1>3, SamePlan DEF Start
  <2>2. Query!Ask  BY <2>1 DEF Query!Ask
  <2> QED  BY <2>2 DEF Query!QNext
<1>4. CASE ReturnResult
  <2>1. /\ exec = "run" /\ exec' = "returned" /\ Outputs \subseteq Finished
        /\ data' = data /\ produced' = produced /\ UNCHANGED hvars
    BY <1>4 DEF ReturnResult, runstate
  <2>2. classes' = classes /\ stacks' = stacks
    BY <2>1 DEF hvars, allvars, vars, placement
  <2>3. OutputRows' = OutputRows  BY <2>1, <2>2 DEF OutputRows
  <2>4. JoinOf(OutputRows, classes)' = Query!JoinOf(data, classes)
    <3>1. JoinOf(OutputRows, classes)' = JoinOf(OutputRows, classes)
      BY <2>2, <2>3 DEF JoinOf
    <3> QED  BY <2>1, <3>1, SameJoin DEF JoinOf, Query!JoinOf, Tables, Query!Tables
  <2>5. Query!Answer  BY <2>1, <2>2, <2>4 DEF Query!Answer
  <2> QED  BY <2>5 DEF Query!QNext
<1>5. ASSUME NEW p, NEW q, NEW rows, exec = "run",
             ProbeRaisesFlag(p, q) \/ FinishWith(p, rows)
      PROVE  UNCHANGED Query!qvars
  <2>1. exec' = "run" /\ data' = data /\ classes' = classes
    BY <1>5, SamePlan DEF ProbeRaisesFlag, FinishWith
  <2> QED  BY <1>5, <2>1
<1>6. CASE QueryEnd
  <2>1. exec = "returned" /\ exec' = "create plan" /\ classes' = classes
    BY <1>6, SamePlan DEF QueryEnd
  <2>2. Query!Close  BY <2>1 DEF Query!Close
  <2> QED  BY <2>2 DEF Query!QNext
<1>7. CASE UNCHANGED xvars
  <2>1. /\ exec' = exec /\ data' = data /\ classes' = classes /\ stacks' = stacks
        /\ produced' = produced
    BY <1>7 DEF xvars, hvars, allvars, vars, placement, execvars, runstate
  <2>2. OutputRows' = OutputRows  BY <2>1 DEF OutputRows
  <2> QED  BY <2>1, <2>2
<1> QED
  BY <1>1, <1>2, <1>3, <1>4, <1>5, <1>6, <1>7
  DEF XNext, Execute, FinishPipeline, StopPipeline

\* Execution with filters implements the promise of the query: what is returned is
\* the join of the tables.
THEOREM ResultKeptThm == XSpec /\ []PlanSound => ResultKept
<1>1. XInit => Query!QInit
  BY DEF XInit, Query!QInit
<1>2. PlanInv /\ RowsInv /\ [XNext]_xvars => [Query!QNext]_(Query!qvars)
  BY StepKeepsPromise
<1> QED  BY <1>1, <1>2, Invariant, PTL DEF XSpec, ResultKept, Query!QSafety

\* From the transfer graph to the rows of the result: on the graphs of SoundInputs
\* a query returns what it returns without the filters (README.md:16).
THEOREM ResultAlwaysKept ==
    ASSUME SoundInputs
    PROVE  XSpec => ResultKept
<1> QED BY ResultKeptThm, PlansAreSound, PTL

\* In whatever order the plan generator makes the operators of the joins' inputs,
\* a PROBE ends up with the link to its CREATE, once, also in plans that are not
\* sound (logical_create_filter.cpp:121, logical_probe_filter.cpp:94).
THEOREM LinkedExactlyOnceThm == XSpec => []LinkedExactlyOnce
<1>1. PlanInv /\ LinkedCreates => LinkedExactlyOnce
  <2> SUFFICES ASSUME PlanInv, LinkedCreates, exec \in {"build", "run", "returned"}, NEW q \in Probes
               PROVE  linked[q] = IF q \in DOMAIN related_create
                                  THEN <<related_create[q]>> ELSE << >>
    BY DEF LinkedExactlyOnce
  <2>1. step = "planned" /\ physical = Positions  BY DEF PlanInv
  <2>2. linked[q] = LinksOf(q)  BY <2>1 DEF PlanInv, Probes
  <2>3. q \in DOMAIN related_create => related_create[q] \in physical
    BY <2>1 DEF LinkedCreates, Creates
  <2> QED  BY <2>2, <2>3 DEF LinksOf
<1> QED  BY <1>1, PlanInvariant, PTL
-----------------------------------------------------------------------------
\* What the passes leave of the tables.

\* What is proved of the planner that the reduction rests on.
ReducingInv ==
    StageInv /\ PlaceInv /\ StackInv /\ PlannedInv /\ LevelInv /\ SingleParentIsPushed

LEMMA ReducingInvariant == HSpec => []ReducingInv
<1> QED BY OperatorsForEdges, PlannedInvariant, EdgesAreLevelled, SingleParentPushed, PTL
        DEF ReducingInv

\* Pipelines end at a CREATE or above a stack, and wait for all they depend on.
WaitInv ==
    /\ DOMAIN waits \cup to_build \cup this_pipeline \subseteq Creates \cup Outputs
    /\ \A p \in DOMAIN waits : DependsOn(p) \subseteq waits[p]
    /\ Finished \subseteq DOMAIN waits

LEMMA SamePipelines ==
    ASSUME UNCHANGED hvars, UNCHANGED linked
    PROVE  \A p : DependsOn(p)' = DependsOn(p) /\ Under(p)' = Under(p)
<1>1. Positions' = Positions /\ Probes' = Probes /\ Creates' = Creates
      /\ \A p : SourceOf(p)' = SourceOf(p)
  BY SamePlan
<1>2. \A p : Under(p)' = Under(p)
  BY <1>1 DEF Under
<1>3. \A p : Segment(p)' = Segment(p)
  BY <1>1, <1>2 DEF Segment
<1> QED BY <1>1, <1>2, <1>3 DEF DependsOn

LEMMA WaitInvStep ==
    ASSUME PlanInv, RowsInv, LinkedCreates, WaitInv, [XNext]_xvars
    PROVE  WaitInv'
<1>1. CASE UNCHANGED <<waits, to_build, this_pipeline, produced, linked>> /\ UNCHANGED hvars
  <2>1. /\ Creates' = Creates /\ Outputs' = Outputs
        /\ \A p : DependsOn(p)' = DependsOn(p)
    BY <1>1, SamePlan, SamePipelines
  <2> QED BY <1>1, <2>1 DEF WaitInv, Finished
<1>2. CASE Optimize \/ (\E pos \in Positions : exec = "create plan" /\ CreatePlan(pos)) \/ QueryEnd
  <2>1. /\ waits' = << >> /\ to_build' = {} /\ this_pipeline' = {} /\ produced' = << >>
    BY <1>2 DEF Optimize, CreatePlan, QueryEnd, PlanInv, RowsInv, pipestate, runstate
  <2> QED BY <2>1, NoDomain DEF WaitInv, Finished
<1>3. CASE exec = "create plan" /\ EndPlan
  <2>1. /\ waits' = << >> /\ to_build' = Outputs /\ this_pipeline' = {} /\ produced' = << >>
        /\ Outputs' = Outputs
    BY <1>3, SamePlan DEF EndPlan, PlanInv, RowsInv, runstate
  <2> QED BY <2>1, NoDomain DEF WaitInv, Finished
<1>4. ASSUME NEW p \in to_build, exec = "build", BuildPipelines(p)
      PROVE  WaitInv'
  <2>1. /\ Creates' = Creates /\ Outputs' = Outputs
        /\ \A x : DependsOn(x)' = DependsOn(x)
    BY <1>4, SamePlan, SamePipelines DEF BuildPipelines, planstate
  <2>2. /\ waits' = [q \in DOMAIN waits \cup {p} |-> IF q = p THEN DependsOn(p) ELSE waits[q]]
        /\ this_pipeline' = this_pipeline \cup DependsOn(p)
        /\ to_build' = (to_build \ {p}) \cup ToCollect(p)
        /\ produced' = produced
    BY <1>4 DEF BuildPipelines, runstate
  <2>3. DependsOn(p) \subseteq Creates
    BY <1>4, DependenciesAreCreates
  <2>4. DOMAIN waits' = DOMAIN waits \cup {p}
    BY <2>2
  <2> QED BY <1>4, <2>1, <2>2, <2>3, <2>4 DEF WaitInv, ToCollect, Finished
<1>5. ASSUME NEW p \in Runnable, NEW rows, FinishWith(p, rows)
      PROVE  WaitInv'
  <2>1. /\ Creates' = Creates /\ Outputs' = Outputs
        /\ \A x : DependsOn(x)' = DependsOn(x)
    BY <1>5, SamePlan, SamePipelines DEF FinishWith, planstate
  <2>2. UNCHANGED <<waits, to_build, this_pipeline>> /\ Finished' = Finished \cup {p}
    BY <1>5 DEF FinishWith, pipestate, Finished
  <2>3. p \in DOMAIN waits
    BY DEF Runnable
  <2> QED BY <2>1, <2>2, <2>3 DEF WaitInv
<1>6. CASE \/ exec = "build" /\ Start
           \/ exec = "run" /\ ReturnResult
           \/ \E p \in Runnable : \E q \in Segment(p) : ProbeRaisesFlag(p, q)
           \/ UNCHANGED xvars
  <2>1. CASE exec = "build" /\ Start
    BY <1>1, <2>1 DEF Start, planstate, pipestate
  <2>2. CASE exec = "run" /\ ReturnResult
    BY <1>1, <2>2 DEF ReturnResult, planstate, pipestate, runstate
  <2>3. CASE \E p \in Runnable : \E q \in Segment(p) : ProbeRaisesFlag(p, q)
    BY <1>1, <2>3 DEF ProbeRaisesFlag, planstate, pipestate
  <2>4. CASE UNCHANGED xvars
    BY <1>1, <2>4 DEF xvars, execvars, planstate, pipestate, runstate
  <2> QED BY <1>6, <2>1, <2>2, <2>3, <2>4
<1> QED
  BY <1>2, <1>3, <1>4, <1>5, <1>6
  DEF XNext, Execute, FinishPipeline, StopPipeline

\* No child has two parents, and filters make no mistakes: then a row that has
\* passed a PROBE, in whatever pipeline, at its operator or in the scan, has a
\* partner among the rows of the PROBE's CREATE.
Partner(q, r) ==
    \E s \in produced[related_create[q]] :
        s[Op(q).build_columns[1][2]] = r[Op(q).probe_columns[1][2]]

MatchInv ==
    (ExactFilters /\ \A t \in Tables : Cardinality(Parents(edges, t)) <= 1) =>
        \A p \in Finished : \A q \in Probes \cap Under(p) :
            /\ related_create[q] \in Finished
            /\ \A r \in produced[p] : Partner(q, r)

\* The first columns of a PROBE, and its CREATE.
LEMMA ProbeFacts ==
    ASSUME ReducingInv, PlanSound, step = "planned", NEW q \in Probes
    PROVE  /\ q \in DOMAIN related_create /\ related_create[q] \in Creates
           /\ related_create[q][1] = Op(q).build_table
           /\ Op(related_create[q]).forward = Op(q).forward
           /\ 1 \in DOMAIN Op(q).build_columns
           /\ FoundAt(q) = DOMAIN Op(q).build_columns
           /\ Op(q).build_columns[1] \in Tables \X Columns
           /\ Op(q).build_columns[1][1] = Op(q).build_table
           /\ 1 \in DOMAIN Op(q).probe_columns
           /\ Op(q).probe_columns[1] \in Tables \X Columns
           /\ Op(q).probe_columns[1][1] = q[1]
           /\ JoinedOn(Op(q).build_columns[1], Op(q).probe_columns[1])
<1> DEFINE t  == q[1]
           op == Op(q)
           c  == related_create[q]
<1>1. /\ t \in Tables /\ q[2] \in DOMAIN stacks[t] /\ q = <<t, q[2]>>
      /\ op = stacks[t][q[2]] /\ ~ op.is_create /\ q \in Positions
  BY PositionFacts DEF Probes
<1>2. q \in DOMAIN related_create /\ LinkOk(stacks, q, c)
  BY <1>1 DEF ReducingInv, PlaceInv, Linking
<1>3. /\ c \in Creates /\ c[1] = op.build_table /\ Op(c).forward = op.forward
  BY <1>1, <1>2, PositionFacts DEF LinkOk, Creates, Op
<1>4. op \in FilterOp
  BY <1>1 DEF PlanSound
<1>5. /\ op.build_columns \in Seq(Tables \X Columns) /\ op.probe_columns \in Seq(Tables \X Columns)
      /\ op.forward \in BOOLEAN
  BY <1>4 DEF FilterOp
<1>6. op.build_columns # << >> /\ op.probe_columns # << >>
  <2>1. EdgeOp(edges, t, op)
    BY <1>1 DEF ReducingInv, StackInv, EdgeStack
  <2>2. \A a, b \in Tables : Linked(edges, a, b) =>
            ColsOfChild(edges, a, b) # << >> /\ ColsOfParent(edges, a, b) # << >>
    <3> SUFFICES ASSUME NEW a \in Tables, NEW b \in Tables, Linked(edges, a, b)
                 PROVE  ColsOfChild(edges, a, b) # << >> /\ ColsOfParent(edges, a, b) # << >>
      OBVIOUS
    <3>1. ParentCols(a, b) # << >> /\ ChildCols(a, b) # << >>
      BY EdgeColumns DEF ReducingInv, StageInv
    <3> QED BY <3>1 DEF ParentCols, ChildCols, ColsOfChild, ColsOfParent
  <2>3. CASE op.forward
    <3>1. ForwardProbe(edges, t, op)
      BY <1>1, <2>1, <2>3 DEF EdgeOp
    <3> QED BY <1>1, <2>2, <3>1 DEF ForwardProbe
  <2>4. CASE ~ op.forward
    <3>1. BackwardProbe(edges, t, op)
      BY <1>1, <2>1, <2>4 DEF EdgeOp
    <3> QED BY <1>1, <2>2, <3>1 DEF BackwardProbe
  <2> QED BY <1>5, <2>3, <2>4
<1> DEFINE bc == op.build_columns
           pc == op.probe_columns
<1>7. /\ 1 \in DOMAIN bc /\ 1 \in DOMAIN pc
      /\ bc[1] \in Tables \X Columns /\ pc[1] \in Tables \X Columns
  <2>1. /\ bc \in Seq(Tables \X Columns) /\ pc \in Seq(Tables \X Columns)
        /\ bc # << >> /\ pc # << >>
    BY <1>5, <1>6
  <2> HIDE DEF bc, pc
  <2>2. 1 \in DOMAIN bc /\ 1 \in DOMAIN pc
    BY <2>1
  <2> QED BY <2>1, <2>2, ElementOf
<1>8. /\ FoundAt(q) = DOMAIN bc /\ pc[1][1] = t /\ JoinedOn(bc[1], pc[1])
  BY <1>2, <1>7 DEF PlanSound
<1>9. bc[1][1] = op.build_table
  <2>1. bc[1] \in ToSet(Op(c).build_columns)
    BY <1>7, <1>8 DEF FoundAt
  <2>2. PICK i \in DOMAIN Op(c).build_columns : Op(c).build_columns[i] = bc[1]
    BY <2>1 DEF ToSet
  <2> QED BY <1>3, <2>2 DEF PlanSound
<1> QED BY <1>2, <1>3, <1>7, <1>8, <1>9

\* A value that a filter lets pass is one of its values.
LEMMA ExactMatch ==
    ASSUME ExactFilters, RowsInv, NEW c \in Finished, NEW b, b[2] \in Columns,
           NEW t \in Tables, NEW r \in data[t], NEW k \in Columns,
           InFilter(c, b, r[k])
    PROVE  \E s \in produced[c] : s[b[2]] = r[k]
<1>1. PICK s \in produced[c] : hash[s[b[2]]] = hash[r[k]]
  BY DEF InFilter
<1>2. c[1] \in Tables /\ s \in data[c[1]]
  BY DEF RowsInv
<1>3. s[b[2]] = r[k]
  BY <1>1, <1>2 DEF ExactFilters
<1> QED BY <1>3

\* A PROBE that is not a passthrough tests the row with its CREATE's filter.
LEMMA AdmitsMatches ==
    ASSUME ReducingInv, PlanInv, RowsInv, PlanSound, exec = "run", ExactFilters,
           NEW q \in Probes, q \notin passthrough, related_create[q] \in Finished,
           NEW r \in data[q[1]], q[1] \in Tables, Admits(q, r)
    PROVE  Partner(q, r)
<1> DEFINE c  == related_create[q]
           bc == Op(q).build_columns
           pc == Op(q).probe_columns
<1>1. step = "planned" /\ physical = Positions
  BY DEF PlanInv
<1>2. /\ q \in DOMAIN related_create /\ c \in Creates
      /\ 1 \in DOMAIN bc /\ FoundAt(q) = DOMAIN bc
      /\ bc[1] \in Tables \X Columns /\ pc[1] \in Tables \X Columns
  BY <1>1, ProbeFacts
<1>3. linked[q] = <<c>>
  <2>1. q \in DOMAIN linked /\ c \in physical
    BY <1>1, <1>2 DEF PlanInv, Probes, Creates
  <2> QED BY <1>2, <2>1 DEF PlanInv, LinksOf
<1>4. c \in Holders(q, 1)
  BY <1>2, <1>3 DEF Holders, FoundAt, ToSet
<1>5. InFilter(c, bc[1], r[TestedColumn(q, 1)[2]])
  BY <1>2, <1>4 DEF Admits
<1>6. TestedColumn(q, 1) = pc[1]
  <2>1. {k \in 1 .. 1 : FilterFound(q, k)} = {1}
    BY <1>4 DEF FilterFound
  <2>2. Cardinality({1}) = 1
    BY FS_Singleton
  <2> QED BY <2>1, <2>2 DEF TestedColumn
<1> HIDE DEF bc, pc, c
<1>7. InFilter(c, bc[1], r[pc[1][2]]) /\ c \in Finished
  BY <1>5, <1>6 DEF c
<1>8. bc[1][2] \in Columns /\ pc[1][2] \in Columns
  BY <1>2
<1>9. \E s \in produced[c] : s[bc[1][2]] = r[pc[1][2]]
  BY <1>7, <1>8, ExactMatch
<1> QED BY <1>9 DEF Partner, c, bc, pc

\* A passthrough leaves the test to the scan, whose rows come to it directly.
LEMMA ScanMatches ==
    ASSUME ReducingInv, PlanInv, RowsInv, PlanSound, exec = "run", ExactFilters,
           \A t \in Tables : Cardinality(Parents(edges, t)) <= 1,
           NEW q \in passthrough, q \in Probes, related_create[q] \in Finished,
           q[1] \in Tables, NEW r \in Scanned(q[1])
    PROVE  Partner(q, r)
<1> DEFINE c  == related_create[q]
           bc == Op(q).build_columns
           pc == Op(q).probe_columns
<1>1. step = "planned"
  BY DEF PlanInv
<1>2. /\ q \in DOMAIN related_create /\ 1 \in DOMAIN pc /\ pc[1][1] = q[1]
      /\ bc[1] \in Tables \X Columns /\ pc[1] \in Tables \X Columns
  BY <1>1, ProbeFacts
<1>3. /\ q \in PushedProbes /\ c \in DOMAIN pushdown_targets /\ pc[1] \in pushdown_targets[c]
  BY <1>1, <1>2 DEF ReducingInv, PlannedInv, ToSet
<1>4. Op(q).forward /\ Op(q).probe_table \in gets
  BY <1>3 DEF PushedProbes
<1>5. Cardinality(Parents(edges, Op(q).build_table)) = 1
  <2> DEFINE b == Op(q).build_table
  <2>1. q[1] \in Parents(edges, b) /\ b \in Tables
    <3>1. Linked(edges, q[1], b)
      <4>1. Cardinality(Parents(edges, b)) <= 1
        BY <1>1, <1>2, ProbeFacts
      <4> QED BY <1>1, <1>2, <1>4, <4>1, SameColumns DEF ReducingInv
    <3>2. b \in Tables
      BY <1>1, <1>2, ProbeFacts
    <3> QED BY <3>1, <3>2 DEF Parents
  <2> HIDE DEF b
  <2>2. /\ IsFiniteSet(Parents(edges, b)) /\ Cardinality(Parents(edges, b)) \in Nat
    BY FewTables DEF Parents
  <2>3. Cardinality(Parents(edges, b)) # 0 /\ Cardinality(Parents(edges, b)) <= 1
    BY <2>1, <2>2, FS_EmptySet
  <2> QED BY <2>2, <2>3 DEF b
<1>6. ReachScan(q, 1) = {bc[1]}
  <2>1. \A k \in 1 .. 1 - 1 : pc[k] # pc[1]
    OBVIOUS
  <2> QED BY <1>2, <1>5, <2>1 DEF ReducingInv, SingleParentIsPushed
<1>7. bc[1] \in PushedFrom(c, pc[1])
  BY <1>3, <1>4, <1>6 DEF ReachScan
<1>8. PushAdmits(c, pc[1], r)
  BY <1>2, <1>3 DEF Scanned
<1>9. InFilter(c, bc[1], r[pc[1][2]])
  BY <1>7, <1>8 DEF PushAdmits
<1>10. r \in data[q[1]] /\ c \in Finished
  BY DEF Scanned
<1>11. bc[1][2] \in Columns /\ pc[1][2] \in Columns
  BY <1>2
<1> HIDE DEF bc, pc, c
<1>12. \E s \in produced[c] : s[bc[1][2]] = r[pc[1][2]]
  BY <1>9, <1>10, <1>11, ExactMatch
<1> QED BY <1>12 DEF Partner, c, bc, pc

\* The rows at the end of a pipeline have passed every PROBE below it.
LEMMA ReachingMatches ==
    ASSUME ReducingInv, PlanInv, RowsInv, PlanSound, WaitInv, MatchInv, exec = "run",
           ExactFilters, \A t \in Tables : Cardinality(Parents(edges, t)) <= 1,
           NEW p \in Runnable, NEW q \in Probes \cap Under(p)
    PROVE  /\ related_create[q] \in Finished
           /\ \A r \in Reaching(p, p[2]) : Partner(q, r)
<1> DEFINE c == related_create[q]
<1>1. step = "planned" /\ physical = Positions
  BY DEF PlanInv
<1>2. /\ q \in DOMAIN related_create /\ c \in Creates
  BY <1>1, ProbeFacts
<1>3. /\ p[1] \in Tables /\ p \in DOMAIN waits /\ waits[p] \subseteq Finished
      /\ DependsOn(p) \subseteq waits[p]
  BY DEF PlanInv, Runnable, WaitInv
<1>4. /\ q \in Positions /\ q[1] = p[1] /\ q[2] < p[2]
  BY DEF Under
<1>5. \A i : Reaching(p, i) \subseteq data[p[1]] /\ Reaching(p, i) \subseteq Entering(p)
  BY ResultReaches DEF Reaching
<1>6. CASE q \in Segment(p)
  <2>1. linked[q] = <<c>>
    <3>1. q \in DOMAIN linked /\ c \in physical
      BY <1>1, <1>2 DEF PlanInv, Probes, Creates
    <3> QED BY <1>2, <3>1 DEF PlanInv, LinksOf
  <2>2. c \in Finished
    <3>1. c \in ToSet(linked[q])
      BY <2>1 DEF ToSet
    <3> QED BY <1>3, <1>6, <3>1 DEF DependsOn
  <2>3. ASSUME NEW r \in Reaching(p, p[2])
        PROVE  Partner(q, r)
    <3>1. Admits(q, r) /\ r \in data[q[1]] /\ q[1] \in Tables
      BY <1>3, <1>4, <1>5, <1>6 DEF Reaching
    <3>2. CASE q \notin passthrough
      BY <2>2, <3>1, <3>2, AdmitsMatches
    <3>3. CASE q \in passthrough
      <4>1. SourceOf(p) = {}
        <5> SUFFICES ASSUME NEW d \in SourceOf(p) PROVE FALSE
          OBVIOUS
        <5>1. /\ d \in Creates /\ d \in Positions /\ d[1] = p[1] /\ d[2] < q[2]
          BY <1>6 DEF SourceOf, Segment, Under
        <5>2. q \in PushedProbes
          BY <1>1, <3>3 DEF ReducingInv, PlannedInv
        <5>3. Op(q).forward
          BY <5>2 DEF PushedProbes
        <5>4. EdgeStack(edges, p[1], stacks[p[1]])
          BY <1>1, <1>3 DEF ReducingInv, StackInv
        <5>5. /\ d[2] \in DOMAIN stacks[p[1]] /\ Op(d) = stacks[p[1]][d[2]]
              /\ q[2] \in DOMAIN stacks[p[1]] /\ Op(q) = stacks[p[1]][q[2]]
              /\ Op(d).is_create /\ ~ Op(q).is_create
          BY <1>4, <5>1, PositionFacts DEF Creates, Probes
        <5>6. q[2] < d[2]
          BY <5>3, <5>4, <5>5 DEF EdgeStack
        <5>7. q[2] \in Nat /\ d[2] \in Nat
          <6>1. Layered(level, stacks)
            BY <1>1 DEF ReducingInv, PlaceInv
          <6> QED BY <1>4, <5>1, <6>1, PlacedFacts
        <5> QED BY <5>1, <5>6, <5>7
      <4>2. r \in Scanned(q[1])
        BY <1>4, <1>5, <4>1 DEF Entering
      <4> QED BY <2>2, <3>1, <3>3, <4>2, ScanMatches
    <3> QED BY <3>2, <3>3
  <2> QED BY <2>2, <2>3
<1>7. CASE q \notin Segment(p)
  <2>1. PICK d \in SourceOf(p) : ~ (d[2] < q[2])
    BY <1>7 DEF Segment
  <2>2. ASSUME NEW e \in SourceOf(p)
        PROVE  e \in Finished /\ q \in Probes \cap Under(e)
    <3>1. e \in Finished
      BY <1>3 DEF DependsOn
    <3>2. /\ d \in Positions /\ e \in Positions /\ e \in Creates /\ e[1] = p[1] /\ d[2] <= e[2]
      BY <2>1 DEF SourceOf, Under
    <3>3. q[2] \in Nat /\ d[2] \in Nat /\ e[2] \in Nat
      <4>1. Layered(level, stacks)
        BY <1>1 DEF ReducingInv, PlaceInv
      <4> QED BY <1>4, <3>2, <4>1, PlacedFacts
    <3>4. q[2] # e[2]
      <4>1. q = <<q[1], q[2]>> /\ e = <<e[1], e[2]>>
        BY <1>4, <3>2, PositionFacts
      <4>2. q # e
        BY <3>2 DEF Probes, Creates
      <4> QED BY <1>4, <3>2, <4>1, <4>2
    <3> QED BY <1>4, <2>1, <3>1, <3>2, <3>3, <3>4 DEF Under
  <2>3. c \in Finished
    BY <2>1, <2>2 DEF MatchInv
  <2>4. ASSUME NEW r \in Reaching(p, p[2])
        PROVE  Partner(q, r)
    <3>1. PICK e \in SourceOf(p) : r \in produced[e]
      BY <1>5, <2>1 DEF Entering
    <3> QED BY <2>2, <3>1 DEF MatchInv
  <2> QED BY <2>3, <2>4
<1> QED BY <1>6, <1>7

LEMMA MatchInvFinish ==
    ASSUME ReducingInv, PlanInv, RowsInv, PlanSound, WaitInv, MatchInv, exec = "run",
           NEW p \in Runnable, NEW rows, FinishWith(p, rows), rows \subseteq Reaching(p, p[2])
    PROVE  MatchInv'
<1>1. /\ produced' = [q \in Finished \cup {p} |-> IF q = p THEN rows ELSE produced[q]]
      /\ Finished' = Finished \cup {p} /\ data' = data /\ hash' = hash
  BY DEF FinishWith, Finished
<1>2. /\ Probes' = Probes /\ related_create' = related_create /\ edges' = edges
      /\ \A x : Under(x)' = Under(x) /\ Op(x)' = Op(x)
  <2>1. UNCHANGED hvars
    BY DEF FinishWith
  <2>2. UNCHANGED <<edges, stacks>>
    BY <2>1 DEF hvars, allvars, vars, placement
  <2>3. Probes' = Probes /\ Positions' = Positions /\ related_create' = related_create
    BY <2>1, SamePlan
  <2> QED BY <2>2, <2>3 DEF Under, Op
<1>3. ExactFilters' <=> ExactFilters
  BY <1>1 DEF ExactFilters
<1> SUFFICES ASSUME ExactFilters, \A t \in Tables : Cardinality(Parents(edges, t)) <= 1,
                    NEW x \in Finished', NEW q \in Probes \cap Under(x)
             PROVE  /\ related_create[q] \in Finished'
                    /\ \A r \in produced'[x] : Partner(q, r)'
  BY <1>2, <1>3 DEF MatchInv
<1>4. p \notin Finished
  BY DEF Runnable
<1>5. /\ related_create[q] \in Finished
      /\ \A r \in produced'[x] : Partner(q, r)
  <2>1. CASE x = p
    <3>1. produced'[x] = rows
      BY <1>1, <2>1
    <3> QED BY <2>1, <3>1, ReachingMatches
  <2>2. CASE x # p
    <3>1. x \in Finished /\ produced'[x] = produced[x]
      BY <1>1, <2>2
    <3> QED BY <3>1 DEF MatchInv
  <2> QED BY <2>1, <2>2
<1>6. produced'[related_create[q]] = produced[related_create[q]]
  BY <1>1, <1>4, <1>5
<1>7. \A r : Partner(q, r)' <=> Partner(q, r)
  BY <1>2, <1>6 DEF Partner
<1> QED BY <1>1, <1>5, <1>7

LEMMA MatchInvStep ==
    ASSUME ReducingInv, PlanInv, RowsInv, PlanSound, WaitInv, MatchInv, [XNext]_xvars
    PROVE  MatchInv'
<1>1. CASE produced' = << >>
  BY <1>1, NoDomain DEF MatchInv, Finished
<1>2. CASE UNCHANGED <<data, hash, produced>> /\ UNCHANGED hvars
  <2>1. UNCHANGED <<edges, stacks>>
    BY <1>2 DEF hvars, allvars, vars, placement
  <2>2. Probes' = Probes /\ Positions' = Positions /\ related_create' = related_create
    BY <1>2, SamePlan
  <2>3. /\ \A x : Under(x)' = Under(x) /\ Op(x)' = Op(x)
        /\ Finished' = Finished
    BY <1>2, <2>1, <2>2 DEF Under, Op, Finished
  <2>4. ExactFilters' <=> ExactFilters
    BY <1>2 DEF ExactFilters
  <2>5. \A q, r : Partner(q, r)' <=> Partner(q, r)
    BY <1>2, <2>2, <2>3 DEF Partner
  <2> QED BY <1>2, <2>1, <2>2, <2>3, <2>4, <2>5 DEF MatchInv
<1>3. CASE Optimize \/ (\E pos \in Positions : exec = "create plan" /\ CreatePlan(pos)) \/ QueryEnd
           \/ (exec = "create plan" /\ EndPlan) \/ (exec = "build" /\ Start)
           \/ \E p \in to_build : exec = "build" /\ BuildPipelines(p)
  <2>1. produced' = << >>
    BY <1>3 DEF Optimize, CreatePlan, QueryEnd, EndPlan, Start, BuildPipelines, RowsInv, runstate
  <2> QED BY <1>1, <2>1
<1>4. CASE \/ exec = "run" /\ ReturnResult
           \/ \E p \in Runnable : \E q \in Segment(p) : ProbeRaisesFlag(p, q)
           \/ UNCHANGED xvars
  <2>1. UNCHANGED <<data, hash, produced>> /\ UNCHANGED hvars
    BY <1>4 DEF ReturnResult, ProbeRaisesFlag, xvars, execvars, runstate
  <2> QED BY <1>2, <2>1
<1>5. ASSUME NEW p \in Runnable, exec = "run", FinishPipeline(p) \/ StopPipeline(p)
      PROVE  MatchInv'
  <2>1. PICK rows \in SUBSET Reaching(p, p[2]) : FinishWith(p, rows)
    BY <1>5 DEF FinishPipeline, StopPipeline
  <2> QED BY <1>5, <2>1, MatchInvFinish
<1> QED BY <1>3, <1>4, <1>5 DEF XNext, Execute

\* What the rows of finished pipelines look like when the tables form a tree.

Handed(t) == UNION {produced[p] : p \in {x \in Finished : x[1] = t}}

\* The columns of the only pair of an edge.
ParentCol(p, c) == edges[p, c][1][1]
ChildCol(p, c)  == edges[p, c][1][2]

\* Edges lead down the levels, join columns that the query equates, and every
\* row of the parent has found a row of the child.
EdgeFacts(p, c) ==
    /\ level[p] < level[c]
    /\ DOMAIN edges[p, c] = {1}
    /\ JoinedOn(<<c, ChildCol(p, c)>>, <<p, ParentCol(p, c)>>)
    /\ \A r \in Handed(p) : \E s \in Handed(c) : s[ChildCol(p, c)] = r[ParentCol(p, c)]

TreeFacts ==
    /\ \A t \in Tables : level[t] \in -1 .. NumTables /\ Handed(t) \subseteq data[t]
    /\ \A n \in Tables : \A p, q \in Parents(edges, n) : p = q
    /\ Connected(edges, Tables)
    /\ \A p, c \in Tables : Linked(edges, p, c) => EdgeFacts(p, c)

\* Only one table has no parent, and it is above all others.
LEMMA RootIsAbove ==
    ASSUME TreeFacts, NEW t \in Tables, Parents(edges, t) = {}, NEW u \in Tables, u # t
    PROVE  Parents(edges, u) # {} /\ level[t] < level[u]
<1>1. \A v \in Tables : v # t => Parents(edges, v) # {}
  BY OneRoot DEF TreeFacts
<1>2. \A v \in Tables : level[v] \in Int /\ level[v] + 1 \in Nat
  BY NumTablesAssumption DEF TreeFacts
<1> DEFINE U == {v \in Tables : v # t /\ ~ (level[t] < level[v])}
           H == {level[v] + 1 : v \in U}
<1>3. U = {}
  <2> SUFFICES ASSUME U # {} PROVE FALSE
    OBVIOUS
  <2>1. H \subseteq Nat /\ H # {}
    BY <1>2
  <2>2. PICK k \in H : \A m \in H : k <= m
    <3> HIDE DEF H
    <3> QED BY <2>1, LeastNat
  <2>3. PICK v \in U : k = level[v] + 1
    OBVIOUS
  <2>4. PICK p \in Parents(edges, v) : TRUE
    BY <1>1
  <2>5. p \in Tables /\ level[p] < level[v]
    BY DEF Parents, TreeFacts, EdgeFacts
  <2>6. p \in U
    BY <1>2, <2>5
  <2>7. k <= level[p] + 1
    BY <2>2, <2>6
  <2> QED BY <1>2, <2>3, <2>5, <2>7
<1> QED BY <1>1, <1>3

\* Rows for all tables that fit together down to level k.
FitsDownTo(k, h) ==
    /\ h \in [Tables -> UNION {data[t] : t \in Tables}]
    /\ \A t \in Tables : level[t] <= k => h[t] \in Handed(t)
    /\ \A p, c \in Tables : (Linked(edges, p, c) /\ level[c] <= k) =>
        h[c][ChildCol(p, c)] = h[p][ParentCol(p, c)]

\* The children on the next level have rows for those of their parents.
LEMMA OneLevelDown ==
    ASSUME TreeFacts, NEW k \in Int, NEW h, FitsDownTo(k, h),
           \A t \in Tables : level[t] > k => Parents(edges, t) # {}
    PROVE  \E g : FitsDownTo(k + 1, g) /\ \A t \in Tables : level[t] <= k => g[t] = h[t]
<1> DEFINE Fit(t, s) == \A p \in Parents(edges, t) : s[ChildCol(p, t)] = h[p][ParentCol(p, t)]
           g == [t \in Tables |-> IF level[t] = k + 1 THEN CHOOSE s \in Handed(t) : Fit(t, s)
                                  ELSE h[t]]
<1>1. \A t \in Tables : level[t] \in Int /\ Handed(t) \subseteq data[t]
  BY NumTablesAssumption DEF TreeFacts
<1>2. ASSUME NEW t \in Tables, level[t] = k + 1
      PROVE  g[t] \in Handed(t) /\ Fit(t, g[t])
  <2>1. PICK p \in Parents(edges, t) : TRUE
    BY <1>1, <1>2
  <2>2. /\ p \in Tables /\ Linked(edges, p, t) /\ level[p] < level[t]
        /\ \A q \in Parents(edges, t) : q = p
    BY DEF Parents, TreeFacts, EdgeFacts
  <2>3. h[p] \in Handed(p)
    BY <1>1, <1>2, <2>2 DEF FitsDownTo
  <2>4. PICK s \in Handed(t) : s[ChildCol(p, t)] = h[p][ParentCol(p, t)]
    BY <2>2, <2>3 DEF TreeFacts, EdgeFacts
  <2>5. \E x \in Handed(t) : Fit(t, x)
    BY <2>2, <2>4
  <2>6. g[t] = CHOOSE x \in Handed(t) : Fit(t, x)
    BY <1>2
  <2> HIDE DEF Fit, g
  <2> QED BY <2>5, <2>6
<1>3. \A t \in Tables : level[t] # k + 1 => g[t] = h[t]
  OBVIOUS
<1>4. g \in [Tables -> UNION {data[t] : t \in Tables}]
  <2>1. \A t \in Tables : g[t] \in UNION {data[x] : x \in Tables}
    <3> TAKE t \in Tables
    <3>1. CASE level[t] = k + 1
      BY <1>1, <1>2, <3>1
    <3>2. CASE level[t] # k + 1
      BY <1>3, <3>2 DEF FitsDownTo
    <3> QED BY <3>1, <3>2
  <2>2. g = [t \in Tables |-> g[t]]
    OBVIOUS
  <2> HIDE DEF g
  <2> QED BY <2>1, <2>2
<1> HIDE DEF g
<1>5. ASSUME NEW t \in Tables, level[t] <= k + 1
      PROVE  g[t] \in Handed(t)
  <2>1. CASE level[t] = k + 1
    BY <1>2, <2>1
  <2>2. CASE level[t] <= k
    BY <1>1, <1>3, <2>2 DEF FitsDownTo
  <2> QED BY <1>1, <1>5, <2>1, <2>2
<1>6. ASSUME NEW p \in Tables, NEW c \in Tables, Linked(edges, p, c), level[c] <= k + 1
      PROVE  g[c][ChildCol(p, c)] = g[p][ParentCol(p, c)]
  <2>1. level[p] < level[c]
    BY <1>6 DEF TreeFacts, EdgeFacts
  <2>2. g[p] = h[p]
    BY <1>1, <1>3, <1>6, <2>1
  <2>3. CASE level[c] = k + 1
    <3>1. p \in Parents(edges, c)
      BY <1>6 DEF Parents
    <3> QED BY <1>2, <2>2, <2>3, <3>1
  <2>4. CASE level[c] <= k
    <3>1. g[c] = h[c]
      BY <1>1, <1>3, <2>4
    <3> QED BY <1>6, <2>2, <2>4, <3>1 DEF FitsDownTo
  <2> QED BY <1>1, <1>6, <2>3, <2>4
<1>7. \A t \in Tables : level[t] <= k => g[t] = h[t]
  BY <1>1, <1>3
<1> QED BY <1>4, <1>5, <1>6, <1>7 DEF FitsDownTo

LEMMA AllLevelsDown ==
    ASSUME TreeFacts, NEW k \in -1 .. NumTables, NEW h, FitsDownTo(k, h),
           \A t \in Tables : level[t] > k => Parents(edges, t) # {}
    PROVE  \E g : FitsDownTo(NumTables, g) /\ \A t \in Tables : level[t] <= k => g[t] = h[t]
<1> DEFINE Same(g) == \A t \in Tables : level[t] <= k => g[t] = h[t]
           Good == {j \in Nat : \E g : FitsDownTo(k + j, g) /\ Same(g)}
<1>1. \A t \in Tables : level[t] \in Int
  BY NumTablesAssumption DEF TreeFacts
<1>2. k \in Int /\ NumTables - k \in Nat /\ k + (NumTables - k) = NumTables /\ k + 0 = k
  BY NumTablesAssumption
<1>3. 0 \in Good
  <2>1. FitsDownTo(k + 0, h) /\ Same(h)
    BY <1>2
  <2> HIDE DEF Same
  <2> QED BY <2>1
<1>4. ASSUME NEW j \in Nat, j \in Good
      PROVE  j + 1 \in Good
  <2>1. PICK f : FitsDownTo(k + j, f) /\ Same(f)
    BY <1>4
  <2>2. k + j \in Int /\ (k + j) + 1 = k + (j + 1)
    BY <1>2
  <2>3. \A t \in Tables : level[t] > k + j => Parents(edges, t) # {}
    BY <1>1, <1>2
  <2>4. PICK g : FitsDownTo((k + j) + 1, g) /\ \A t \in Tables : level[t] <= k + j => g[t] = f[t]
    BY <2>1, <2>2, <2>3, OneLevelDown
  <2>5. Same(g)
    BY <1>1, <1>2, <2>1, <2>4
  <2>6. FitsDownTo(k + (j + 1), g)
    BY <2>2, <2>4
  <2> HIDE DEF Same
  <2> QED BY <2>5, <2>6
<1>5. NumTables - k \in Good
  <2> HIDE DEF Good
  <2>1. Nat \subseteq Good
    BY <1>3, <1>4, SetInduction
  <2> QED BY <1>2, <2>1
<1>6. PICK g : FitsDownTo(k + (NumTables - k), g) /\ Same(g)
  BY <1>5
<1> QED BY <1>2, <1>6

\* Rows that fit along all edges of a spanning tree are a row of the result.
LEMMA FittingIsResult ==
    ASSUME TreeFacts, edges \in Graph, SpannedBy(edges, classes),
           NEW g, FitsDownTo(NumTables, g)
    PROVE  g \in FullResult
<1>1. \A t \in Tables : level[t] <= NumTables
  BY NumTablesAssumption DEF TreeFacts
<1>2. /\ g \in [Tables -> UNION {data[t] : t \in Tables}]
      /\ \A t \in Tables : g[t] \in data[t]
  BY <1>1 DEF FitsDownTo, TreeFacts
<1>3. ASSUME NEW class \in classes, NEW a \in class, NEW b \in class
      PROVE  g[a[1]][a[2]] = g[b[1]][b[2]]
  <2> DEFINE S == {x \in class : g[x[1]][x[2]] = g[a[1]][a[2]]}
  <2> SUFFICES ASSUME b \notin S PROVE FALSE
    OBVIOUS
  <2>1. S \in (SUBSET class) \ {{}, class}
    <3>1. a \in S /\ S \subseteq class
      OBVIOUS
    <3> HIDE DEF S
    <3> QED BY <3>1
  <2>2. PICK e \in Tables \X Tables : \E i \in DOMAIN edges[e] :
            LET x == <<e[1], edges[e][i][1]>>
                y == <<e[2], edges[e][i][2]>>
            IN  (x \in S /\ y \in class \ S) \/ (y \in S /\ x \in class \ S)
    <3> HIDE DEF S
    <3> QED BY <2>1 DEF SpannedBy
  <2>3. PICK p \in Tables, c \in Tables : e = <<p, c>>
    BY ONLY e \in Tables \X Tables
  <2>4. e[1] = p /\ e[2] = c /\ edges[e] = edges[p, c]
    BY <2>3
  <2>5. PICK i \in DOMAIN edges[p, c] :
            \/ <<p, edges[p, c][i][1]>> \in S /\ <<c, edges[p, c][i][2]>> \in class \ S
            \/ <<c, edges[p, c][i][2]>> \in S /\ <<p, edges[p, c][i][1]>> \in class \ S
    <3> HIDE DEF S
    <3> QED BY <2>2, <2>4
  <2>6. Linked(edges, p, c)
    <3>1. edges[p, c] # << >>
      BY <2>5, NoDomain
    <3> QED BY <3>1 DEF Linked
  <2>7. i = 1
    <3>1. DOMAIN edges[p, c] = {1}
      BY <2>6 DEF TreeFacts, EdgeFacts
    <3>2. i \in DOMAIN edges[p, c]
      BY <2>5
    <3> QED BY ONLY <3>1, <3>2
  <2>8. g[c][edges[p, c][i][2]] = g[p][edges[p, c][i][1]]
    BY <1>1, <2>6, <2>7 DEF FitsDownTo, ChildCol, ParentCol
  <2> DEFINE u == edges[p, c][i][1]
             v == edges[p, c][i][2]
  <2>9. \/ <<p, u>> \in S /\ <<c, v>> \in class \ S
        \/ <<c, v>> \in S /\ <<p, u>> \in class \ S
    BY <2>5
  <2>10. g[c][v] = g[p][u]
    BY <2>8
  <2> HIDE DEF u, v
  <2>11. \A x, y : <<x, y>> \in class => (<<x, y>> \in S <=> g[x][y] = g[a[1]][a[2]])
    OBVIOUS
  <2> HIDE DEF S
  <2>12. S \subseteq class
    BY <2>1
  <2> QED BY ONLY <2>9, <2>10, <2>11, <2>12
<1>4. /\ \A t \in Tables : g[t] \in data[t]
      /\ \A class \in classes : \A a, b \in class : g[a[1]][a[2]] = g[b[1]][b[2]]
  BY <1>2, <1>3
<1> QED BY <1>2, <1>4 DEF FullResult, JoinOf

\* The state in which the query has returned from a tree of joins.
TreeQuery ==
    /\ ReducingInv /\ PlanInv /\ RowsInv /\ PlanSound /\ WaitInv /\ MatchInv
    /\ exec = "returned" /\ ExactFilters /\ JoinTree(edges)

\* Which PROBEs lie below the end of a pipeline.
LEMMA ProbesBelow ==
    ASSUME ReducingInv, step = "planned", NEW x \in Creates \cup Outputs,
           NEW q \in Probes, q[1] = x[1],
           x \in Outputs \/ Op(q).forward \/ ~ Op(x).forward
    PROVE  q \in Under(x)
<1>1. /\ q \in Positions /\ q[1] \in Tables /\ q[2] \in DOMAIN stacks[q[1]]
      /\ Op(q) = stacks[q[1]][q[2]] /\ ~ Op(q).is_create
  BY PositionFacts DEF Probes
<1>2. stacks \in [Tables -> Seq(FilterOp)]
  BY DEF ReducingInv, PlaceInv, Layered
<1>3. CASE x \in Outputs
  <2>1. PICK t \in Tables : x = <<t, Len(stacks[t]) + 1>>
    BY <1>3 DEF Outputs
  <2>2. stacks[t] \in Seq(FilterOp) /\ q[2] \in DOMAIN stacks[t] /\ x[2] = Len(stacks[t]) + 1
    BY <1>1, <1>2, <2>1
  <2>3. q[2] < x[2]
    BY <2>2
  <2> QED BY <1>1, <2>3 DEF Under
<1>4. CASE x \in Creates /\ (Op(q).forward \/ ~ Op(x).forward)
  <2>1. /\ x[1] \in Tables /\ x[2] \in DOMAIN stacks[x[1]]
        /\ Op(x) = stacks[x[1]][x[2]] /\ Op(x).is_create
    BY <1>4, PositionFacts DEF Creates
  <2>2. EdgeStack(edges, x[1], stacks[x[1]])
    BY <2>1 DEF ReducingInv, StackInv
  <2>3. q[2] < x[2]
    BY <1>1, <1>4, <2>1, <2>2 DEF EdgeStack
  <2> QED BY <1>1, <2>3 DEF Under
<1> QED BY <1>3, <1>4

\* An edge of the tree has one pair and is processed by both passes.
LEMMA TreeEdgeFacts ==
    ASSUME TreeQuery, NEW p \in Tables, NEW c \in Tables, Linked(edges, p, c)
    PROVE  /\ <<p, c>> \in LevelledEdges(edges, level)
           /\ level[p] < level[c]
           /\ DOMAIN edges[p, c] = {1}
           /\ ColsOfChild(edges, p, c)[1] = <<c, ChildCol(p, c)>>
           /\ ColsOfParent(edges, p, c)[1] = <<p, ParentCol(p, c)>>
<1>1. step = "planned" /\ stage = "done"
  BY DEF TreeQuery, PlanInv, ReducingInv, PlaceInv
<1>2. level[c] >= 1
  BY <1>1 DEF TreeQuery, ReducingInv, LevelInv, JoinTree
<1> DEFINE e == <<p, c>>
<1>3. e[1] = p /\ e[2] = c /\ e \in Tables \X Tables /\ edges[e] = edges[p, c]
  OBVIOUS
<1>4. e \in LevelledEdges(edges, level)
  BY <1>2, <1>3 DEF LevelledEdges
<1>5. level[p] < level[c]
  BY <1>3, <1>4 DEF TreeQuery, ReducingInv, StageInv, GraphInv
<1>6. DOMAIN edges[p, c] = {1}
  <2> DEFINE s == edges[p, c]
  <2>1. s \in Seq(ColPair) /\ s # << >>
    BY DEF TreeQuery, ReducingInv, StageInv, GraphInv, Graph, Linked
  <2>2. Len(s) <= 1
    BY <1>3 DEF TreeQuery, JoinTree
  <2> HIDE DEF s
  <2>3. DOMAIN s = 1 .. Len(s) /\ Len(s) \in Nat /\ 1 \in DOMAIN s
    BY <2>1
  <2>4. Len(s) = 1
    BY <2>2, <2>3
  <2>5. 1 .. 1 = {1}
    OBVIOUS
  <2>6. DOMAIN s = {1}
    BY ONLY <2>3, <2>4, <2>5
  <2> QED BY <2>6 DEF s
<1>7. /\ ColsOfChild(edges, p, c)[1] = <<c, ChildCol(p, c)>>
      /\ ColsOfParent(edges, p, c)[1] = <<p, ParentCol(p, c)>>
  <2> DEFINE D == DOMAIN edges[p, c]
  <2>1. 1 \in D
    BY <1>6
  <2>2. /\ ColsOfChild(edges, p, c) = [i \in D |-> <<c, edges[p, c][i][2]>>]
        /\ ColsOfParent(edges, p, c) = [i \in D |-> <<p, edges[p, c][i][1]>>]
    BY DEF ColsOfChild, ColsOfParent
  <2> HIDE DEF D
  <2> QED BY <2>1, <2>2 DEF ParentCol, ChildCol
<1> HIDE DEF e
<1> QED BY <1>4, <1>5, <1>6, <1>7 DEF e

\* Every row of the parent has found a row of the child.
LEMMA ParentsMatch ==
    ASSUME TreeQuery, NEW p \in Tables, NEW c \in Tables, Linked(edges, p, c)
    PROVE  EdgeFacts(p, c)
<1>1. step = "planned"
  BY DEF TreeQuery, PlanInv
<1>2. PICK i \in DOMAIN stacks[p] :
        ~ stacks[p][i].is_create /\ stacks[p][i].forward /\ stacks[p][i].build_table = c
  <2> DEFINE e == <<p, c>>
  <2>1. e \in LevelledEdges(edges, level) /\ e[1] = p /\ e[2] = c
    BY TreeEdgeFacts
  <2>2. EdgesProbed(edges, level, stacks, pass_mode = "both")
    BY <1>1 DEF TreeQuery, ReducingInv, StackInv
  <2> HIDE DEF e
  <2> QED BY <2>1, <2>2 DEF EdgesProbed
<1> DEFINE q == <<p, i>>
<1>3. /\ q \in Probes /\ q[1] = p /\ Op(q) = stacks[p][i]
  BY <1>2, PositionFacts DEF Probes
<1>4. ForwardProbe(edges, p, Op(q))
  BY <1>1, <1>2, <1>3 DEF TreeQuery, ReducingInv, StackInv, EdgeStack, EdgeOp
<1>5. /\ Op(q).build_table = c
      /\ Op(q).build_columns[1] = <<c, ChildCol(p, c)>>
      /\ Op(q).probe_columns[1] = <<p, ParentCol(p, c)>>
  <2>1. Op(q).build_table = c
    BY <1>2, <1>3
  <2>2. /\ Op(q).build_columns = ColsOfChild(edges, p, c)
        /\ Op(q).probe_columns = ColsOfParent(edges, p, c)
    BY <1>4, <2>1 DEF ForwardProbe
  <2> HIDE DEF q
  <2> QED BY <2>1, <2>2, TreeEdgeFacts
<1> HIDE DEF q
<1>6. /\ JoinedOn(<<c, ChildCol(p, c)>>, <<p, ParentCol(p, c)>>)
      /\ related_create[q][1] = c
  BY <1>1, <1>3, <1>5, ProbeFacts DEF TreeQuery
<1>7. ASSUME NEW r \in Handed(p)
      PROVE  \E s \in Handed(c) : s[ChildCol(p, c)] = r[ParentCol(p, c)]
  <2>1. PICK x \in Finished : x[1] = p /\ r \in produced[x]
    BY <1>7 DEF Handed
  <2>2. x \in Creates \cup Outputs
    BY DEF TreeQuery, WaitInv
  <2>3. q \in Under(x)
    BY <1>1, <1>2, <1>3, <2>1, <2>2, ProbesBelow DEF TreeQuery
  <2>4. /\ related_create[q] \in Finished
        /\ Partner(q, r)
    BY <1>3, <2>1, <2>3 DEF TreeQuery, MatchInv, JoinTree
  <2>5. PICK s \in produced[related_create[q]] : s[ChildCol(p, c)] = r[ParentCol(p, c)]
    BY <1>5, <2>4 DEF Partner
  <2> QED BY <1>6, <2>4, <2>5 DEF Handed
<1> QED BY <1>6, <1>7, TreeEdgeFacts DEF EdgeFacts

LEMMA TreeHasFacts == TreeQuery => TreeFacts
<1> SUFFICES ASSUME TreeQuery PROVE TreeFacts
  OBVIOUS
<1>1. \A t \in Tables : level[t] \in -1 .. NumTables /\ Handed(t) \subseteq data[t]
  BY DEF TreeQuery, ReducingInv, StageInv, GraphInv, RowsInv, Handed
<1>2. ASSUME NEW n \in Tables, NEW p \in Parents(edges, n), NEW q \in Parents(edges, n)
      PROVE  p = q
  <2> DEFINE P == Parents(edges, n)
  <2>1. Cardinality(P) <= 1 /\ P \subseteq Tables
    BY DEF TreeQuery, JoinTree, Parents
  <2>2. p \in P /\ q \in P
    OBVIOUS
  <2> HIDE DEF P
  <2>3. IsFiniteSet(P) /\ Cardinality(P) \in Nat
    BY <2>1, FewTables
  <2>4. Cardinality(P) # 0
    BY <2>2, <2>3, FS_EmptySet
  <2>5. Cardinality(P) = 1
    BY <2>1, <2>3, <2>4
  <2>6. \E x : P = {x}
    BY <2>3, <2>5, FS_Singleton
  <2> QED BY <2>2, <2>6
<1>3. Connected(edges, Tables)
  BY DEF TreeQuery, JoinTree
<1> QED BY <1>1, <1>2, <1>3, ParentsMatch DEF TreeFacts

\* A pipeline whose rows have passed all PROBEs of their table.
Top(x) == x \in Finished /\ \A q \in Probes : q[1] = x[1] => q \in Under(x)

InResult(t, r) == \E f \in FullResult : f[t] = r

\* A pipeline above which there is nothing more to test hands on rows of the result,
\* if those on lower levels do.
LEMMA TopOfRoot ==
    ASSUME TreeQuery, SpannedBy(edges, classes), NEW t \in Tables, NEW r \in Handed(t),
           Parents(edges, t) = {}
    PROVE  InResult(t, r)
<1> DEFINE h == [u \in Tables |-> r]
<1>1. TreeFacts
  BY TreeHasFacts
<1>2. \A u \in Tables : u # t => Parents(edges, u) # {} /\ level[t] < level[u]
  BY <1>1, RootIsAbove
<1>3. \A u \in Tables : level[u] \in -1 .. NumTables /\ level[u] \in Int
  BY <1>1, NumTablesAssumption DEF TreeFacts
<1>4. FitsDownTo(level[t], h)
  <2>1. r \in data[t]
    BY <1>1 DEF TreeFacts
  <2>2. h \in [Tables -> UNION {data[u] : u \in Tables}]
    BY <2>1
  <2>3. \A u \in Tables : level[u] <= level[t] => h[u] \in Handed(u)
    BY <1>2, <1>3
  <2>4. ASSUME NEW p \in Tables, NEW c \in Tables, Linked(edges, p, c), level[c] <= level[t]
        PROVE  FALSE
    <3>1. c = t
      BY <1>2, <1>3, <2>4
    <3> QED BY <2>4, <3>1 DEF Parents
  <2> HIDE DEF h
  <2> QED BY <2>2, <2>3, <2>4 DEF FitsDownTo
<1>5. \A u \in Tables : level[u] > level[t] => Parents(edges, u) # {}
  BY <1>2, <1>3
<1>6. h[t] = r
  OBVIOUS
<1> HIDE DEF h
<1>7. PICK g : FitsDownTo(NumTables, g) /\ \A u \in Tables : level[u] <= level[t] => g[u] = h[u]
  BY <1>1, <1>3, <1>4, <1>5, AllLevelsDown
<1>8. g[t] = r
  BY <1>3, <1>6, <1>7
<1>9. g \in FullResult
  BY <1>1, <1>7, FittingIsResult DEF TreeQuery, ReducingInv, StageInv, GraphInv
<1> QED BY <1>8, <1>9 DEF InResult

\* The row of a child can take the place of the one it has the join column from.
LEMMA Exchanged ==
    ASSUME TreeQuery, SpannedBy(edges, classes), NEW t \in Tables, NEW r \in Handed(t),
           NEW p \in Tables, Linked(edges, p, t),
           NEW f \in FullResult, f[p][ParentCol(p, t)] = r[ChildCol(p, t)]
    PROVE  InResult(t, r)
<1> DEFINE h == [f EXCEPT ![t] = r]
<1>1. TreeFacts
  BY TreeHasFacts
<1>2. \A u \in Tables : level[u] \in -1 .. NumTables /\ level[u] \in Int
  BY <1>1, NumTablesAssumption DEF TreeFacts
<1>3. f \in [Tables -> UNION {data[u] : u \in Tables}]
  BY DEF FullResult, JoinOf
<1>4. /\ h \in [Tables -> UNION {data[u] : u \in Tables}]
      /\ h[t] = r
      /\ \A u \in Tables : u # t => h[u] = f[u]
  <2>1. r \in data[t]
    BY <1>1 DEF TreeFacts
  <2> QED BY <1>3, <2>1
<1> HIDE DEF h
<1>5. \A u \in Tables : f[u] \in Handed(u)
  <2> TAKE u \in Tables
  <2> DEFINE x == <<u, Len(stacks[u]) + 1>>
  <2>1. x \in Finished /\ x[1] = u
    BY DEF TreeQuery, RowsInv, Outputs
  <2> HIDE DEF x
  <2>2. f[u] \in produced[x]
    BY <2>1 DEF TreeQuery, RowsInv, KeepsResult
  <2> QED BY <2>1, <2>2 DEF Handed
<1>6. \A u \in Tables : h[u] \in Handed(u)
  BY <1>4, <1>5
<1>7. ASSUME NEW a \in Tables, NEW c \in Tables, Linked(edges, a, c), level[c] <= level[t]
      PROVE  h[c][ChildCol(a, c)] = h[a][ParentCol(a, c)]
  <2>1. EdgeFacts(a, c)
    BY <1>1, <1>7 DEF TreeFacts
  <2>2. a # t /\ h[a] = f[a]
    <3>1. level[a] < level[c]
      BY <1>7, TreeEdgeFacts
    <3> QED BY <1>2, <1>4, <1>7, <3>1
  <2>3. CASE c = t
    <3>1. a = p
      BY <1>1, <1>7, <2>3 DEF TreeFacts, Parents
    <3> QED BY <1>4, <2>2, <2>3, <3>1
  <2>4. CASE c # t
    <3>1. f[c][ChildCol(a, c)] = f[a][ParentCol(a, c)]
      <4> DEFINE x == <<c, ChildCol(a, c)>>
                 y == <<a, ParentCol(a, c)>>
      <4>1. JoinedOn(x, y) /\ x[1] = c /\ x[2] = ChildCol(a, c) /\ y[1] = a /\ y[2] = ParentCol(a, c)
        BY <2>1 DEF EdgeFacts
      <4> HIDE DEF x, y
      <4>2. f[x[1]][x[2]] = f[y[1]][y[2]]
        BY <4>1, EqualOnClass
      <4> QED BY <4>1, <4>2
    <3> QED BY <1>4, <2>2, <2>4, <3>1
  <2> QED BY <2>3, <2>4
<1>8. FitsDownTo(level[t], h)
  BY <1>4, <1>6, <1>7 DEF FitsDownTo
<1>9. ASSUME NEW u \in Tables, level[u] > level[t]
      PROVE  Parents(edges, u) # {}
  <2> SUFFICES ASSUME Parents(edges, u) = {} PROVE FALSE
    OBVIOUS
  <2>1. u # t
    BY <1>2, <1>9
  <2>2. level[u] < level[t]
    BY <1>1, <2>1, RootIsAbove
  <2> QED BY <1>2, <1>9, <2>2
<1>10. PICK g : FitsDownTo(NumTables, g) /\ \A u \in Tables : level[u] <= level[t] => g[u] = h[u]
  BY <1>1, <1>2, <1>8, <1>9, AllLevelsDown
<1>11. g[t] = r
  BY <1>2, <1>4, <1>10
<1>12. g \in FullResult
  BY <1>1, <1>10, FittingIsResult DEF TreeQuery, ReducingInv, StageInv, GraphInv
<1> QED BY <1>11, <1>12 DEF InResult

\* The backward PROBE of a child found the row among those of the CREATE it reads,
\* whose table has the same column as the parent.
LEMMA TopOfChild ==
    ASSUME TreeQuery, SpannedBy(edges, classes), pass_mode = "both",
           NEW x, Top(x), NEW p \in Parents(edges, x[1]), NEW r \in produced[x],
           \A y : (Top(y) /\ level[y[1]] < level[x[1]]) => \A s \in produced[y] : InResult(y[1], s)
    PROVE  InResult(x[1], r)
<1> DEFINE t == x[1]
<1>1. step = "planned" /\ x \in Finished /\ t \in Tables
  BY DEF TreeQuery, PlanInv, RowsInv, Top
<1>2. p \in Tables /\ Linked(edges, p, t) /\ \A a \in Tables : Linked(edges, a, t) => a = p
  BY <1>1, TreeHasFacts DEF TreeFacts, Parents
<1>3. PICK i \in DOMAIN stacks[t] : ~ stacks[t][i].is_create /\ ~ stacks[t][i].forward
  <2> DEFINE e == <<p, t>>
  <2>1. e \in LevelledEdges(edges, level) /\ e[2] = t
    BY <1>1, <1>2, TreeEdgeFacts
  <2>2. EdgesProbed(edges, level, stacks, pass_mode = "both")
    BY <1>1 DEF TreeQuery, ReducingInv, StackInv
  <2> HIDE DEF e, t
  <2> QED BY <2>1, <2>2 DEF EdgesProbed
<1> DEFINE q == <<t, i>>
           u == Op(q).build_table
           b == Op(q).build_columns[1]
           c == related_create[q]
<1>4. q \in Probes /\ q[1] = t /\ Op(q) = stacks[t][i] /\ ~ Op(q).is_create /\ ~ Op(q).forward
  BY <1>1, <1>3, PositionFacts DEF Probes
<1>5. Op(q).probe_columns[1] = <<t, ChildCol(p, t)>>
  <2>1. BackwardProbe(edges, t, Op(q))
    BY <1>1, <1>3, <1>4 DEF TreeQuery, ReducingInv, StackInv, EdgeStack, EdgeOp
  <2>2. Op(q).probe_columns = ColsOfChild(edges, p, t)
    BY <1>2, <2>1 DEF BackwardProbe
  <2> HIDE DEF q, t
  <2> QED BY <1>1, <1>2, <2>2, TreeEdgeFacts DEF t
<1> HIDE DEF q
<1>6. /\ c \in Creates /\ c[1] = u /\ ~ Op(c).forward
      /\ b \in Tables \X Columns /\ b[1] = u
      /\ JoinedOn(b, <<t, ChildCol(p, t)>>)
  BY <1>1, <1>4, <1>5, ProbeFacts DEF TreeQuery
<1>7. level[u] < level[t] /\ u \in Tables
  <2>1. Layered(level, stacks)
    BY <1>1 DEF TreeQuery, ReducingInv, PlaceInv
  <2>2. PlacedOp(level, stacks, t, stacks[t][i])
    BY <1>1, <2>1 DEF Layered
  <2> QED BY <1>4, <1>6, <2>2 DEF PlacedOp
<1>8. q \in Under(x)
  BY <1>4 DEF Top
<1>9. c \in Finished /\ Partner(q, r)
  BY <1>1, <1>4, <1>8 DEF TreeQuery, MatchInv, JoinTree
<1>10. PICK s \in produced[c] : s[b[2]] = r[ChildCol(p, t)]
  <2>1. Op(q).probe_columns[1][2] = ChildCol(p, t)
    BY <1>5
  <2> QED BY <1>9, <2>1 DEF Partner
<1>11. Top(c)
  BY <1>1, <1>6, <1>9, ProbesBelow DEF Top, TreeQuery
<1> HIDE DEF c, b, u
<1>12. PICK f \in FullResult : f[u] = s
  <2>1. InResult(c[1], s)
    BY <1>6, <1>7, <1>10, <1>11
  <2> QED BY <1>6, <2>1 DEF InResult
<1>13. f[t][ChildCol(p, t)] = r[ChildCol(p, t)]
  <2> DEFINE a == <<t, ChildCol(p, t)>>
  <2>1. JoinedOn(b, a) /\ a[1] = t /\ a[2] = ChildCol(p, t)
    BY <1>6
  <2> HIDE DEF a
  <2>2. f[b[1]][b[2]] = f[a[1]][a[2]]
    BY <2>1, EqualOnClass
  <2> QED BY <1>6, <1>10, <1>12, <2>1, <2>2
<1>14. f[p][ParentCol(p, t)] = f[t][ChildCol(p, t)]
  <2> DEFINE a == <<t, ChildCol(p, t)>>
             d == <<p, ParentCol(p, t)>>
  <2>1. /\ JoinedOn(a, d) /\ a[1] = t /\ a[2] = ChildCol(p, t)
        /\ d[1] = p /\ d[2] = ParentCol(p, t)
    BY <1>1, <1>2, ParentsMatch DEF EdgeFacts
  <2> HIDE DEF a, d
  <2>2. f[a[1]][a[2]] = f[d[1]][d[2]]
    BY <2>1, EqualOnClass
  <2> QED BY <2>1, <2>2
<1>15. r \in Handed(t)
  BY <1>1 DEF Handed
<1> HIDE DEF t
<1>16. InResult(t, r)
  BY <1>1, <1>2, <1>13, <1>14, <1>15, Exchanged
<1> QED BY <1>16 DEF t

\* So all of them do, by induction on the levels.
LEMMA TopInResult ==
    ASSUME TreeQuery, SpannedBy(edges, classes), pass_mode = "both"
    PROVE  \A x : Top(x) => \A r \in produced[x] : InResult(x[1], r)
<1> DEFINE Good == {j \in Nat : \A x : (Top(x) /\ level[x[1]] + 1 < j) =>
                                    \A r \in produced[x] : InResult(x[1], r)}
<1>1. \A x : Top(x) => level[x[1]] \in Int /\ level[x[1]] + 1 \in Nat /\ x[1] \in Tables
  BY TreeHasFacts, NumTablesAssumption DEF Top, TreeQuery, RowsInv, TreeFacts
<1>2. 0 \in Good
  BY <1>1
<1>3. ASSUME NEW j \in Nat, j \in Good
      PROVE  j + 1 \in Good
  <2> SUFFICES ASSUME NEW x, Top(x), level[x[1]] + 1 < j + 1, NEW r \in produced[x]
               PROVE  InResult(x[1], r)
    OBVIOUS
  <2>1. \A y : (Top(y) /\ level[y[1]] < level[x[1]]) => \A s \in produced[y] : InResult(y[1], s)
    BY <1>1, <1>3
  <2> HIDE DEF Good
  <2>2. CASE Parents(edges, x[1]) = {}
    <3>1. r \in Handed(x[1])
      BY DEF Top, Handed
    <3> QED BY <1>1, <2>2, <3>1, TopOfRoot
  <2>3. CASE Parents(edges, x[1]) # {}
    BY <2>1, <2>3, TopOfChild
  <2> QED BY <2>2, <2>3
<1>4. Nat \subseteq Good
  <2> HIDE DEF Good
  <2> QED BY <1>2, <1>3, SetInduction
<1>5. \A x : Top(x) => (level[x[1]] + 1) + 1 \in Good
  <2> HIDE DEF Good
  <2> QED BY <1>1, <1>4
<1> QED BY <1>1, <1>5

\* What the joins are given is reduced to the result.
LEMMA TreeIsReduced ==
    ASSUME ReducingInv, PlanInv, RowsInv, PlanSound, WaitInv, MatchInv
    PROVE  FullyReduced
<1> SUFFICES ASSUME TreeQuery, SpannedBy(edges, classes), pass_mode = "both", NEW p \in Outputs
             PROVE  produced[p] = {f[p[1]] : f \in FullResult}
  BY DEF FullyReduced, TreeQuery
<1>1. p \in Finished /\ step = "planned"
  BY DEF TreeQuery, RowsInv, PlanInv
<1>2. Top(p)
  BY <1>1, ProbesBelow DEF Top, TreeQuery
<1>3. \A r \in produced[p] : \E f \in FullResult : f[p[1]] = r
  BY <1>2, TopInResult DEF InResult
<1>4. \A f \in FullResult : f[p[1]] \in produced[p]
  BY <1>1 DEF TreeQuery, RowsInv, KeepsResult
<1> QED BY <1>3, <1>4

\* After both passes over a tree of joins, with filters that make no mistakes, the
\* joins are given the rows of the result and no others: whichever operator, scan
\* or merged filter was to remove a row did it, in every order in which the
\* pipelines could run (robust_optimizer.cpp:1041-1160, 1369-1395, 1452-1505).
THEOREM FullyReducedThm == XSpec /\ []PlanSound => []FullyReduced
<1>1. XInit => WaitInv /\ MatchInv
  BY NoDomain DEF XInit, WaitInv, MatchInv, Finished
<1>2. PlanInv /\ RowsInv /\ LinkedCreates /\ WaitInv /\ [XNext]_xvars => WaitInv'
  BY WaitInvStep
<1>3. /\ ReducingInv /\ PlanInv /\ RowsInv /\ PlanSound /\ WaitInv /\ MatchInv
      /\ [XNext]_xvars
      => MatchInv'
  BY MatchInvStep
<1>4. ReducingInv /\ PlanInv /\ RowsInv /\ PlanSound /\ WaitInv /\ MatchInv => FullyReduced
  BY TreeIsReduced
<1>5. XSpec => []ReducingInv
  BY ExecutionPlans, ReducingInvariant, PTL
<1> QED BY <1>1, <1>2, <1>3, <1>4, <1>5, Invariant, PlanInvariant, PTL DEF XSpec

\* The same of whatever the optimizer makes of the graphs of SoundInputs.
THEOREM FullyReducedAlways ==
    ASSUME SoundInputs
    PROVE  XSpec => []FullyReduced
<1> QED BY FullyReducedThm, PlansAreSound, PTL

=============================================================================
