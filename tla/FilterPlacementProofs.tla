------------------------ MODULE FilterPlacementProofs ------------------------
(***************************************************************************)
(* Proofs about the two passes and their placement, with either heuristic, *)
(* for any number of tables, any graph and any columns.                    *)
(***************************************************************************)
EXTENDS LargestRoot, TransferGraphProofs

-----------------------------------------------------------------------------
\* Sequences as the passes use them.

LEMMA ToSetConcat ==
    ASSUME NEW S, NEW s \in Seq(S), NEW u \in Seq(S)
    PROVE  s \o u \in Seq(S) /\ ToSet(s \o u) = ToSet(s) \cup ToSet(u)
<1>1. /\ DOMAIN (s \o u) = 1 .. Len(s) + Len(u)
      /\ DOMAIN s = 1 .. Len(s) /\ DOMAIN u = 1 .. Len(u)
      /\ Len(s) \in Nat /\ Len(u) \in Nat
  OBVIOUS
<1>2. \A i \in DOMAIN s : i \in DOMAIN (s \o u) /\ (s \o u)[i] = s[i]
  BY <1>1
<1>3. \A i \in DOMAIN u : Len(s) + i \in DOMAIN (s \o u) /\ (s \o u)[Len(s) + i] = u[i]
  BY <1>1
<1>4. \A i \in DOMAIN (s \o u) : i \in DOMAIN s \/ (i - Len(s) \in DOMAIN u /\ i = Len(s) + (i - Len(s)))
  BY <1>1
<1>5. ToSet(s \o u) \subseteq ToSet(s) \cup ToSet(u)
  BY <1>2, <1>3, <1>4 DEF ToSet
<1>6. ToSet(s) \cup ToSet(u) \subseteq ToSet(s \o u)
  BY <1>2, <1>3 DEF ToSet
<1> QED BY <1>5, <1>6

LEMMA ElementOf ==
    ASSUME NEW S, NEW s \in Seq(S), NEW i \in DOMAIN s
    PROVE  s[i] \in S
OBVIOUS

LEMMA ToSetTwice ==
    ASSUME NEW S, NEW s \in Seq(S)
    PROVE  s \o s \in Seq(S) /\ ToSet(s \o s) = ToSet(s)
<1>1. \A u \in Seq(S) : s \o u \in Seq(S) /\ ToSet(s \o u) = ToSet(s) \cup ToSet(u)
  BY ToSetConcat
<1> QED BY <1>1

LEMMA AppendFacts ==
    ASSUME NEW S, NEW s \in Seq(S), NEW x \in S
    PROVE  /\ Append(s, x) \in Seq(S)
           /\ Len(Append(s, x)) = Len(s) + 1
           /\ DOMAIN Append(s, x) = DOMAIN s \cup {Len(s) + 1}
           /\ \A i \in DOMAIN s : i \in 1 .. Len(s) /\ Append(s, x)[i] = s[i]
           /\ Append(s, x)[Len(s) + 1] = x
           /\ Len(s) + 1 \notin DOMAIN s
OBVIOUS

-----------------------------------------------------------------------------
\* Merging the CREATEs of one table in one pass.

\* The operations of one pass on table t: probes first, then creates of t.
ProbesThenCreates(t, ops) ==
    /\ ops \in Seq(FilterOp)
    /\ \A i \in DOMAIN ops : ops[i].is_create => ops[i].build_table = t
    /\ \A i, j \in DOMAIN ops : (ops[i].is_create /\ ~ ops[j].is_create) => j < i

\* The equation that defines MergedUpTo has a solution.
LEMMA MergedUpToDef ==
    ASSUME NEW ops, Len(ops) \in Nat
    PROVE  MergedUpTo(ops) =
            [k \in 0 .. Len(ops) |->
                IF k = 0 THEN [out |-> << >>, first |-> << >>, run |-> 0]
                         ELSE AddOperation(MergedUpTo(ops)[k - 1], ops[k])]
<1> DEFINE None == [out |-> << >>, first |-> << >>, run |-> 0]
           Solves(f, m) == f = [k \in 0 .. m |-> IF k = 0 THEN None
                                                 ELSE AddOperation(f[k - 1], ops[k])]
<1> HIDE DEF None
<1>1. \A m \in Nat : \E f : Solves(f, m)
  <2> DEFINE Good == {m \in Nat : \E f : Solves(f, m)}
  <2>1. 0 \in Good
    <3>1. Solves([k \in 0 .. 0 |-> None], 0)
      OBVIOUS
    <3> HIDE DEF Solves
    <3> QED BY <3>1
  <2>2. ASSUME NEW m \in Nat, m \in Good
        PROVE  m + 1 \in Good
    <3>1. PICK f : Solves(f, m)
      BY <2>2
    <3> DEFINE h == [k \in 0 .. m + 1 |->
                        IF k <= m THEN f[k] ELSE AddOperation(f[m], ops[m + 1])]
    <3>2. \A k \in 0 .. m + 1 : h[k] = IF k = 0 THEN None ELSE AddOperation(h[k - 1], ops[k])
      <4> TAKE k \in 0 .. m + 1
      <4>1. CASE k \in 0 .. m
        <5>1. h[k] = f[k] /\ (k # 0 => k - 1 \in 0 .. m /\ h[k - 1] = f[k - 1])
          BY <4>1
        <5>2. f[k] = IF k = 0 THEN None ELSE AddOperation(f[k - 1], ops[k])
          BY <3>1, <4>1
        <5> QED BY <5>1, <5>2
      <4>2. CASE k = m + 1
        <5>1. h[k - 1] = f[m] /\ k # 0
          BY <4>2
        <5> QED BY <4>2, <5>1
      <4> QED BY <4>1, <4>2
    <3>3. h = [k \in 0 .. m + 1 |-> h[k]]
      OBVIOUS
    <3> HIDE DEF h
    <3>4. Solves(h, m + 1)
      BY <3>2, <3>3
    <3> HIDE DEF Solves
    <3> QED BY <3>4
  <2> HIDE DEF Good
  <2>3. Nat \subseteq Good
    BY <2>1, <2>2, SetInduction
  <2> QED BY <2>3 DEF Good
<1>2. \E f : Solves(f, Len(ops))
  BY <1>1
<1>3. Solves(MergedUpTo(ops), Len(ops))
  BY <1>2 DEF MergedUpTo, None
<1> QED BY <1>3 DEF None

\* The CREATE that stands for the creates among the first k operations: it has
\* the tables and the direction of one of them and the columns of all.
StandsFor(create, ops, k) ==
    /\ create \in FilterOp
    /\ \E j \in 1 .. k :
        /\ ops[j].is_create /\ create.is_create
        /\ create.build_table = ops[j].build_table
        /\ create.probe_table = ops[j].probe_table
        /\ create.forward = ops[j].forward
    /\ \A j \in 1 .. k : ops[j].is_create =>
        /\ ToSet(ops[j].build_columns) \subseteq ToSet(create.build_columns)
        /\ ToSet(ops[j].probe_columns) \subseteq ToSet(create.probe_columns)
    /\ \A x \in ToSet(create.build_columns) : \E j \in 1 .. k :
        ops[j].is_create /\ x \in ToSet(ops[j].build_columns)
    /\ \A x \in ToSet(create.probe_columns) : \E j \in 1 .. k :
        ops[j].is_create /\ x \in ToSet(ops[j].probe_columns)

\* What the first k operations of a pass have been merged into.
MergedSoFar(ops, k, acc) ==
    /\ acc = [out |-> acc.out, first |-> acc.first, run |-> acc.run]
    /\ acc.out \in Seq(FilterOp)
    /\ acc.run \in Nat
    /\ \A i \in DOMAIN acc.out : acc.out[i].is_create <=> (acc.run > 0 /\ i = Len(acc.out))
    /\ \A i \in DOMAIN acc.out : ~ acc.out[i].is_create => \E j \in 1 .. k : acc.out[i] = ops[j]
    /\ \A j \in 1 .. k : ~ ops[j].is_create => \E i \in DOMAIN acc.out : acc.out[i] = ops[j]
    /\ \A j \in 1 .. k : ops[j].is_create => acc.run > 0
    /\ acc.run > 1 => \E i, j \in 1 .. k : i # j /\ ops[i].is_create /\ ops[j].is_create
    /\ acc.run > 0 =>
        /\ Len(acc.out) > 0
        /\ StandsFor(acc.out[Len(acc.out)], ops, k)
        /\ \E j \in 1 .. k : ops[j].is_create /\ acc.first = ops[j]
        /\ acc.run = 1 => acc.out[Len(acc.out)] = acc.first

\* One operation is merged.
LEMMA AddOperationFacts ==
    ASSUME NEW t, NEW ops, ProbesThenCreates(t, ops), NEW k \in Nat, k + 1 \in DOMAIN ops,
           NEW acc, MergedSoFar(ops, k, acc)
    PROVE  MergedSoFar(ops, k + 1, AddOperation(acc, ops[k + 1]))
<1> DEFINE op   == ops[k + 1]
           last == acc.out[Len(acc.out)]
<1>1. /\ op \in FilterOp
      /\ \A j \in 1 .. k + 1 : j \in DOMAIN ops /\ ops[j] \in FilterOp
      /\ 1 .. k + 1 = 1 .. k \cup {k + 1}
      /\ acc.out \in Seq(FilterOp) /\ acc.run \in Nat /\ Len(acc.out) \in Nat
  BY DEF ProbesThenCreates, MergedSoFar
<1>2. CASE acc.run > 0
  <2>1. PICK j \in 1 .. k : ops[j].is_create /\ acc.first = ops[j]
    BY <1>2 DEF MergedSoFar
  <2>2. op.is_create
    <3>1. j \in DOMAIN ops /\ k + 1 \in DOMAIN ops /\ ~ (k + 1 < j)
      BY <1>1
    <3> QED BY <2>1, <3>1 DEF ProbesThenCreates
  <2>3. /\ Len(acc.out) \in DOMAIN acc.out /\ Last(acc.out) = last
        /\ last \in FilterOp /\ StandsFor(last, ops, k)
    BY <1>1, <1>2 DEF MergedSoFar, Last
  <2>4. op.build_table = last.build_table
    BY <1>1, <2>2, <2>3 DEF ProbesThenCreates, StandsFor
  <2> DEFINE merged == AddToRun(acc.first, acc.run, last, op)
             out    == [acc.out EXCEPT ![Len(acc.out)] = merged]
  <2>5. AddOperation(acc, op) = [out |-> out, first |-> acc.first, run |-> acc.run + 1]
    BY <1>2, <2>2, <2>3, <2>4 DEF AddOperation, MergedSoFar
  <2>6. /\ merged \in FilterOp
        /\ merged.is_create
        /\ merged.build_table = last.build_table
        /\ merged.probe_table = last.probe_table
        /\ merged.forward = last.forward
        /\ ToSet(merged.build_columns) = ToSet(last.build_columns) \cup ToSet(op.build_columns)
        /\ ToSet(merged.probe_columns) = ToSet(last.probe_columns) \cup ToSet(op.probe_columns)
    <3> DEFINE S    == Tables \X Columns
               base == IF acc.run = 1
                       THEN [acc.first EXCEPT !.probe_columns = @ \o acc.first.probe_columns]
                       ELSE last
    <3>1. /\ acc.first \in FilterOp
          /\ acc.run = 1 => last = acc.first
      BY <1>1, <1>2, <2>1 DEF MergedSoFar
    <3>2. /\ base \in FilterOp
          /\ base.is_create = last.is_create
          /\ base.build_table = last.build_table
          /\ base.probe_table = last.probe_table
          /\ base.forward = last.forward
          /\ base.build_columns = last.build_columns
          /\ ToSet(base.probe_columns) = ToSet(last.probe_columns)
      <4>1. CASE acc.run = 1
        <5>1. /\ last.probe_columns \o last.probe_columns \in Seq(S)
              /\ ToSet(last.probe_columns \o last.probe_columns) = ToSet(last.probe_columns)
          <6>1. last.probe_columns \in Seq(S)
            BY <2>3 DEF FilterOp
          <6> HIDE DEF S, last
          <6> QED BY <6>1, ToSetTwice
        <5>2. base = [last EXCEPT !.probe_columns = last.probe_columns \o last.probe_columns]
          BY <3>1, <4>1
        <5> QED BY <2>3, <5>1, <5>2 DEF FilterOp
      <4>2. CASE acc.run # 1
        BY <2>3, <4>2
      <4> QED BY <4>1, <4>2
    <3>3. merged = [base EXCEPT !.build_columns = base.build_columns \o op.build_columns,
                                !.probe_columns = base.probe_columns \o op.probe_columns]
      BY <3>2 DEF AddToRun, FilterOp
    <3> HIDE DEF base, merged
    <3>4. /\ base.build_columns \o op.build_columns \in Seq(S)
          /\ base.probe_columns \o op.probe_columns \in Seq(S)
          /\ ToSet(base.build_columns \o op.build_columns)
                = ToSet(base.build_columns) \cup ToSet(op.build_columns)
          /\ ToSet(base.probe_columns \o op.probe_columns)
                = ToSet(base.probe_columns) \cup ToSet(op.probe_columns)
      <4>1. /\ base.build_columns \in Seq(S) /\ op.build_columns \in Seq(S)
            /\ base.probe_columns \in Seq(S) /\ op.probe_columns \in Seq(S)
        BY <1>1, <3>2 DEF FilterOp
      <4> HIDE DEF S
      <4> QED BY <4>1, ToSetConcat
    <3>5. base.is_create
      BY <2>3, <3>2 DEF StandsFor
    <3> QED BY <3>2, <3>3, <3>4, <3>5 DEF FilterOp
  <2> HIDE DEF merged
  <2>7. StandsFor(merged, ops, k + 1)
    <3>1. PICK i \in 1 .. k : /\ ops[i].is_create /\ last.is_create
                              /\ last.build_table = ops[i].build_table
                              /\ last.probe_table = ops[i].probe_table
                              /\ last.forward = ops[i].forward
      BY <2>3 DEF StandsFor
    <3>2. i \in 1 .. k + 1 /\ k + 1 \in 1 .. k + 1
      BY <1>1
    <3>3. \A h \in 1 .. k + 1 : ops[h].is_create =>
            /\ ToSet(ops[h].build_columns) \subseteq ToSet(merged.build_columns)
            /\ ToSet(ops[h].probe_columns) \subseteq ToSet(merged.probe_columns)
      BY <1>1, <2>3, <2>6 DEF StandsFor
    <3>4. \A x \in ToSet(merged.build_columns) : \E h \in 1 .. k + 1 :
            ops[h].is_create /\ x \in ToSet(ops[h].build_columns)
      BY <1>1, <2>2, <2>3, <2>6, <3>2 DEF StandsFor
    <3>5. \A x \in ToSet(merged.probe_columns) : \E h \in 1 .. k + 1 :
            ops[h].is_create /\ x \in ToSet(ops[h].probe_columns)
      BY <1>1, <2>2, <2>3, <2>6, <3>2 DEF StandsFor
    <3> QED BY <2>6, <3>1, <3>2, <3>3, <3>4, <3>5 DEF StandsFor
  <2>8. /\ out \in Seq(FilterOp) /\ Len(out) = Len(acc.out) /\ DOMAIN out = DOMAIN acc.out
        /\ out[Len(out)] = merged
        /\ \A i \in DOMAIN out : i # Len(out) => out[i] = acc.out[i]
    BY <1>1, <2>3, <2>6
  <2> HIDE DEF out
  <2>9. \A i \in DOMAIN out : out[i].is_create <=> i = Len(out)
    BY <1>2, <2>6, <2>8 DEF MergedSoFar
  <2>10. \A i \in DOMAIN out : ~ out[i].is_create => \E h \in 1 .. k + 1 : out[i] = ops[h]
    BY <1>1, <1>2, <2>6, <2>8 DEF MergedSoFar
  <2>11. \E h \in 1 .. k + 1 : ops[h].is_create /\ acc.first = ops[h]
    BY <1>1, <2>1
  <2>12. acc.run + 1 \in Nat /\ acc.run + 1 > 0 /\ acc.run + 1 # 1 /\ Len(out) > 0
    BY <1>1, <1>2, <2>8 DEF MergedSoFar
  <2>13. ASSUME NEW h \in 1 .. k + 1, ~ ops[h].is_create
         PROVE  \E i \in DOMAIN out : out[i] = ops[h]
    <3>1. h \in 1 .. k
      BY <1>1, <2>2, <2>13
    <3>2. PICK i \in DOMAIN acc.out : acc.out[i] = ops[h]
      BY <2>13, <3>1 DEF MergedSoFar
    <3>3. i # Len(acc.out)
      BY <2>3, <2>13, <3>2 DEF StandsFor
    <3> QED BY <2>8, <3>2, <3>3
  <2>14. \E a, b \in 1 .. k + 1 : a # b /\ ops[a].is_create /\ ops[b].is_create
    <3>1. j \in 1 .. k + 1 /\ k + 1 \in 1 .. k + 1 /\ j # k + 1
      BY <1>1
    <3> QED BY <2>1, <2>2, <3>1
  <2> DEFINE new == AddOperation(acc, op)
  <2>15. /\ new.out = out /\ new.first = acc.first /\ new.run = acc.run + 1
         /\ new = [out |-> new.out, first |-> new.first, run |-> new.run]
    BY <2>5
  <2> HIDE DEF new, op, last
  <2>16. /\ new.run > 0 /\ new.run # 1 /\ new.run \in Nat
         /\ \A j1 \in 1 .. k + 1 : ops[j1].is_create => new.run > 0
    BY <2>12, <2>15
  <2>17. /\ Len(new.out) > 0 /\ new.out \in Seq(FilterOp)
         /\ StandsFor(new.out[Len(new.out)], ops, k + 1)
    BY <2>7, <2>8, <2>12, <2>15
  <2>18. /\ \A i \in DOMAIN new.out : new.out[i].is_create <=> (new.run > 0 /\ i = Len(new.out))
         /\ \A i \in DOMAIN new.out : ~ new.out[i].is_create =>
                \E h \in 1 .. k + 1 : new.out[i] = ops[h]
         /\ \A h \in 1 .. k + 1 : ~ ops[h].is_create => \E i \in DOMAIN new.out : new.out[i] = ops[h]
    BY <2>9, <2>10, <2>13, <2>15, <2>16
  <2>19. MergedSoFar(ops, k + 1, new)
    BY <2>11, <2>14, <2>15, <2>16, <2>17, <2>18 DEF MergedSoFar
  <2> QED BY <2>19 DEF new, op
<1>3. CASE acc.run = 0
  <2> DEFINE out == Append(acc.out, op)
             run == IF op.is_create THEN 1 ELSE 0
  <2>1. AddOperation(acc, op) = [out |-> out, first |-> op, run |-> run]
    BY <1>3 DEF AddOperation
  <2>2. /\ out \in Seq(FilterOp) /\ Len(out) = Len(acc.out) + 1
        /\ DOMAIN out = DOMAIN acc.out \cup {Len(out)}
        /\ out[Len(out)] = op
        /\ \A i \in DOMAIN acc.out : i # Len(out) /\ out[i] = acc.out[i]
    BY <1>1, AppendFacts
  <2> HIDE DEF out
  <2>3. /\ \A i \in DOMAIN acc.out : ~ acc.out[i].is_create
        /\ \A j \in 1 .. k : ~ ops[j].is_create
    BY <1>3 DEF MergedSoFar
  <2>4. \A i \in DOMAIN out : out[i].is_create <=> (run > 0 /\ i = Len(out))
    BY <2>2, <2>3
  <2>5. \A i \in DOMAIN out : ~ out[i].is_create => \E j \in 1 .. k + 1 : out[i] = ops[j]
    <3>1. \A i \in DOMAIN acc.out : \E j \in 1 .. k : acc.out[i] = ops[j]
      BY <2>3 DEF MergedSoFar
    <3> QED BY <1>1, <2>2, <3>1
  <2>6. \A j \in 1 .. k + 1 : ops[j].is_create => run > 0
    BY <1>1, <2>3
  <2>7. op.is_create => StandsFor(op, ops, k + 1)
    <3>1. \A j \in 1 .. k + 1 : ops[j].is_create => ops[j] = op
      BY <1>1, <2>3
    <3> QED BY <1>1, <3>1 DEF StandsFor
  <2>8. run \in Nat /\ Len(out) > 0 /\ k + 1 \in 1 .. k + 1
    BY <1>1, <2>2
  <2>9. run > 0 => op.is_create
    OBVIOUS
  <2> DEFINE new == AddOperation(acc, op)
  <2>10. /\ new.out = out /\ new.first = op /\ new.run = run
         /\ new = [out |-> new.out, first |-> new.first, run |-> new.run]
    BY <2>1
  <2> HIDE DEF new, run, op
  <2>11. new.run > 0 =>
          /\ Len(new.out) > 0
          /\ StandsFor(new.out[Len(new.out)], ops, k + 1)
          /\ \E j \in 1 .. k + 1 : ops[j].is_create /\ new.first = ops[j]
          /\ new.run = 1 => new.out[Len(new.out)] = new.first
    BY <2>2, <2>7, <2>8, <2>9, <2>10 DEF op
  <2>12. new.out \in Seq(FilterOp) /\ new.run \in Nat
    BY <2>2, <2>8, <2>10
  <2>13. \A j \in 1 .. k + 1 : ~ ops[j].is_create => \E i \in DOMAIN out : out[i] = ops[j]
    <3>1. \A j \in 1 .. k : ~ ops[j].is_create => \E i \in DOMAIN acc.out : acc.out[i] = ops[j]
      BY DEF MergedSoFar
    <3>2. out[Len(out)] = ops[k + 1] /\ Len(out) \in DOMAIN out
      BY <2>2 DEF op
    <3> QED BY <1>1, <2>2, <3>1, <3>2
  <2>14. ~ (run > 1)
    BY DEF run
  <2>15. MergedSoFar(ops, k + 1, new)
    BY <2>4, <2>5, <2>6, <2>10, <2>11, <2>12, <2>13, <2>14 DEF MergedSoFar
  <2> QED BY <2>15 DEF new, op
<1> QED BY <1>1, <1>2, <1>3

\* What the operations of a pass become: the probes as they were, and above them
\* one CREATE that stands for all creates, and is the only one if that is so.
LEMMA MergeCreatesFacts ==
    ASSUME NEW t, NEW ops, ProbesThenCreates(t, ops)
    PROVE  LET out == MergeCreates(ops) IN
           /\ out \in Seq(FilterOp)
           /\ \A i, j \in DOMAIN out : out[i].is_create =>
                /\ StandsFor(out[i], ops, Len(ops))
                /\ j <= i
           /\ \A i \in DOMAIN out : ~ out[i].is_create => \E j \in DOMAIN ops : out[i] = ops[j]
           /\ \A j \in DOMAIN ops : ops[j].is_create => \E i \in DOMAIN out : out[i].is_create
           /\ \A j \in DOMAIN ops : ~ ops[j].is_create => \E i \in DOMAIN out : out[i] = ops[j]
           /\ \A i \in DOMAIN out : out[i].is_create =>
                \/ \E j \in DOMAIN ops : ops[j].is_create /\ out[i] = ops[j]
                \/ \E j, k \in DOMAIN ops : j # k /\ ops[j].is_create /\ ops[k].is_create
<1> DEFINE M == MergedUpTo(ops)
           Good == {k \in Nat : k <= Len(ops) => MergedSoFar(ops, k, M[k])}
<1>1. Len(ops) \in Nat /\ DOMAIN ops = 1 .. Len(ops)
  BY DEF ProbesThenCreates
<1>2. /\ M[0] = [out |-> << >>, first |-> << >>, run |-> 0]
      /\ \A k \in Nat : k + 1 <= Len(ops) => M[k + 1] = AddOperation(M[k], ops[k + 1])
  <2>1. \A k \in 0 .. Len(ops) :
            M[k] = IF k = 0 THEN [out |-> << >>, first |-> << >>, run |-> 0]
                   ELSE AddOperation(M[k - 1], ops[k])
    BY <1>1, MergedUpToDef
  <2> HIDE DEF M
  <2> QED BY <1>1, <2>1
<1> HIDE DEF M
<1>3. 0 \in Good
  <2>1. << >> \in Seq(FilterOp) /\ DOMAIN << >> = {} /\ 1 .. 0 = {}
    OBVIOUS
  <2>2. /\ M[0].out = << >> /\ M[0].run = 0 /\ 0 \in Nat
        /\ M[0] = [out |-> M[0].out, first |-> M[0].first, run |-> M[0].run]
    BY <1>2
  <2>3. MergedSoFar(ops, 0, M[0])
    BY <2>1, <2>2 DEF MergedSoFar
  <2> QED BY <2>3
<1>4. ASSUME NEW k \in Nat, k \in Good
      PROVE  k + 1 \in Good
  <2> SUFFICES ASSUME k + 1 <= Len(ops)
               PROVE  MergedSoFar(ops, k + 1, M[k + 1])
    OBVIOUS
  <2>1. k + 1 \in DOMAIN ops /\ k <= Len(ops)
    BY <1>1
  <2> QED BY <1>2, <1>4, <2>1, AddOperationFacts
<1> HIDE DEF Good
<1>5. Nat \subseteq Good
  BY <1>3, <1>4, SetInduction
<1>6. MergedSoFar(ops, Len(ops), M[Len(ops)])
  BY <1>1, <1>5 DEF Good
<1>7. MergeCreates(ops) = M[Len(ops)].out
  BY DEF MergeCreates, M
<1> DEFINE acc == M[Len(ops)]
<1>8. MergedSoFar(ops, Len(ops), acc) /\ MergeCreates(ops) = acc.out
  BY <1>6, <1>7
<1> HIDE DEF acc
<1>9. \A i \in DOMAIN acc.out : acc.out[i].is_create =>
        \/ \E j \in DOMAIN ops : ops[j].is_create /\ acc.out[i] = ops[j]
        \/ \E j, k \in DOMAIN ops : j # k /\ ops[j].is_create /\ ops[k].is_create
  <2> SUFFICES ASSUME NEW i \in DOMAIN acc.out, acc.out[i].is_create
               PROVE  \/ \E j \in DOMAIN ops : ops[j].is_create /\ acc.out[i] = ops[j]
                      \/ \E j, k \in DOMAIN ops : j # k /\ ops[j].is_create /\ ops[k].is_create
    OBVIOUS
  <2>1. acc.run > 0 /\ i = Len(acc.out) /\ acc.run \in Nat
    BY <1>8 DEF MergedSoFar
  <2>2. CASE acc.run = 1
    BY <1>1, <1>8, <2>1, <2>2 DEF MergedSoFar
  <2>3. CASE acc.run > 1
    BY <1>1, <1>8, <2>3 DEF MergedSoFar
  <2> QED BY <2>1, <2>2, <2>3
<1>10. /\ acc.out \in Seq(FilterOp)
       /\ \A i, j \in DOMAIN acc.out : acc.out[i].is_create =>
            StandsFor(acc.out[i], ops, Len(ops)) /\ j <= i
  BY <1>8 DEF MergedSoFar
<1>11. /\ \A i \in DOMAIN acc.out : ~ acc.out[i].is_create => \E j \in DOMAIN ops : acc.out[i] = ops[j]
       /\ \A j \in DOMAIN ops : ~ ops[j].is_create => \E i \in DOMAIN acc.out : acc.out[i] = ops[j]
  BY <1>1, <1>8 DEF MergedSoFar
<1>12. \A j \in DOMAIN ops : ops[j].is_create => \E i \in DOMAIN acc.out : acc.out[i].is_create
  <2> SUFFICES ASSUME NEW j \in DOMAIN ops, ops[j].is_create
               PROVE  \E i \in DOMAIN acc.out : acc.out[i].is_create
    OBVIOUS
  <2>1. acc.run > 0 /\ Len(acc.out) > 0 /\ acc.out \in Seq(FilterOp)
    BY <1>1, <1>8 DEF MergedSoFar
  <2>2. Len(acc.out) \in DOMAIN acc.out
    BY <2>1
  <2> QED BY <1>8, <2>1, <2>2 DEF MergedSoFar
<1> QED BY <1>8, <1>9, <1>10, <1>11, <1>12

-----------------------------------------------------------------------------
\* The operations of the two passes: the invariant of their generation.

GraphInv ==
    /\ edges \in Graph
    /\ level \in [Tables -> -1 .. NumTables]
    /\ sequence \in Nat
    /\ stage \in {"tree", "forward", "backward", "done"}
    /\ todo \subseteq LevelledEdges(edges, level)
    /\ \A e \in LevelledEdges(edges, level) : level[e[1]] < level[e[2]]
    /\ stage \in {"tree", "done"} => todo = {}

\* A CREATE that builds what a PROBE reads, and names the PROBE's table.
Supplies(create, probe) ==
    /\ create.is_create
    /\ ToSet(probe.build_columns) \subseteq ToSet(create.build_columns)
    /\ \E x \in ToSet(create.probe_columns) : x[1] = probe.probe_table

\* A forward operation of table t: filters go up the levels.
ForwardOp(lev, ops, t, op) ==
    /\ op.forward
    /\ op.is_create =>
        /\ lev[op.probe_table] < lev[t]
        /\ op.probe_columns # << >>
        /\ \A x \in ToSet(op.probe_columns) : x[1] = op.probe_table
    /\ ~ op.is_create =>
        /\ op.probe_table = t
        /\ lev[t] < lev[op.build_table]
        /\ \E i \in DOMAIN ops[op.build_table] : Supplies(ops[op.build_table][i], op)

\* Once a table has a forward CREATE, its own children are done.
ForwardInv ==
    /\ forward_filter_ops \in [Tables -> Seq(FilterOp)]
    /\ stage = "tree" => forward_filter_ops = [t \in Tables |-> << >>]
    /\ \A t \in Tables :
        /\ ProbesThenCreates(t, forward_filter_ops[t])
        /\ \A i \in DOMAIN forward_filter_ops[t] :
            /\ ForwardOp(level, forward_filter_ops, t, forward_filter_ops[t][i])
            /\ (stage = "forward" /\ forward_filter_ops[t][i].is_create) =>
                    \A e \in todo : level[e[2]] <= level[t]

\* A backward operation of table t: filters go down the levels, to every table
\* whose columns a broadcast has added.
BackwardOp(lev, ops, t, op) ==
    /\ ~ op.forward
    /\ op.is_create => \A x \in ToSet(op.probe_columns) : lev[t] < lev[x[1]]
    /\ ~ op.is_create =>
        /\ op.probe_table = t
        /\ lev[op.build_table] < lev[t]
        /\ \E i \in DOMAIN ops[op.build_table] : Supplies(ops[op.build_table][i], op)

\* Once a table has a backward CREATE, its own parents are done.
BackwardInv ==
    /\ backward_filter_ops \in [Tables -> Seq(FilterOp)]
    /\ stage \in {"tree", "forward"} => backward_filter_ops = [t \in Tables |-> << >>]
    /\ \A t \in Tables :
        /\ ProbesThenCreates(t, backward_filter_ops[t])
        /\ \A i \in DOMAIN backward_filter_ops[t] :
            /\ BackwardOp(level, backward_filter_ops, t, backward_filter_ops[t][i])
            /\ (stage = "backward" /\ backward_filter_ops[t][i].is_create) =>
                    \A e \in todo : level[t] < level[e[2]]

\* The source of a class is the CREATE that its record points at.
SourceOk(ops, s) ==
    /\ s.table \in Tables
    /\ s.columns \in Seq(Tables \X Columns)
    /\ s.columns # << >>
    /\ s.class = ClassOf(s.columns[1])
    /\ s.index \in DOMAIN ops[s.table]
    /\ ops[s.table][s.index].is_create
    /\ ToSet(s.columns) \subseteq ToSet(ops[s.table][s.index].build_columns)

SourceInv ==
    /\ stage \in {"tree", "forward"} => equiv_class_bf_source = {}
    /\ \A s \in equiv_class_bf_source : SourceOk(backward_filter_ops, s)

\* What EdgesReduceBothSides asks of an edge.
ForwardReduced(ops, e) ==
    \E i \in DOMAIN ops[e[1]] :
        /\ ~ ops[e[1]][i].is_create
        /\ ops[e[1]][i].build_table = e[2]

ClassIn(cls, key) == CHOOSE class \in cls : key \in class

BackwardReduced(ops, cls, e, key) ==
    \E i \in DOMAIN ops[e[2]] :
        /\ ~ ops[e[2]][i].is_create
        /\ ClassIn(cls, ops[e[2]][i].build_columns[1]) = ClassIn(cls, key)

ReducedInv ==
    \A e \in LevelledEdges(edges, level) :
        /\ (stage \in {"backward", "done"} \/ (stage = "forward" /\ e \notin todo)) =>
                ForwardReduced(forward_filter_ops, e)
        /\ (stage = "done" \/ (stage = "backward" /\ e \notin todo)) =>
                BackwardReduced(backward_filter_ops, classes, e, ParentCols(e[1], e[2])[1])

StageInv == GraphInv /\ ForwardInv /\ BackwardInv /\ SourceInv /\ ReducedInv

-----------------------------------------------------------------------------
\* Operations and the lists they are appended to.

\* The columns of an edge are columns of its two tables, and there are some.
LEMMA EdgeColumns ==
    ASSUME GraphInv, NEW p \in Tables, NEW c \in Tables, Linked(edges, p, c)
    PROVE  /\ ParentCols(p, c) \in Seq(Tables \X Columns)
           /\ ChildCols(p, c) \in Seq(Tables \X Columns)
           /\ ParentCols(p, c) # << >> /\ ChildCols(p, c) # << >>
           /\ 1 \in DOMAIN ParentCols(p, c) /\ 1 \in DOMAIN ChildCols(p, c)
           /\ \A x \in ToSet(ParentCols(p, c)) : x[1] = p
           /\ \A x \in ToSet(ChildCols(p, c)) : x[1] = c
<1> DEFINE s == edges[p, c]
<1>1. s \in Seq(ColPair) /\ s # << >>
  BY DEF GraphInv, Graph, Linked
<1> HIDE DEF s
<1>2. /\ DOMAIN s = 1 .. Len(s) /\ Len(s) \in Nat /\ 1 \in DOMAIN s
      /\ \A i \in DOMAIN s : s[i][1] \in Columns /\ s[i][2] \in Columns
  BY <1>1 DEF ColPair
<1> DEFINE pcols == [i \in DOMAIN s |-> <<p, s[i][1]>>]
           ccols == [i \in DOMAIN s |-> <<c, s[i][2]>>]
<1>3. pcols \in Seq(Tables \X Columns) /\ ccols \in Seq(Tables \X Columns)
  BY <1>2
<1>4. 1 \in DOMAIN pcols /\ 1 \in DOMAIN ccols
  BY <1>2
<1>5. pcols # << >> /\ ccols # << >>
  BY <1>4
<1>6. (\A x \in ToSet(pcols) : x[1] = p) /\ (\A x \in ToSet(ccols) : x[1] = c)
  BY DEF ToSet
<1>7. ParentCols(p, c) = pcols /\ ChildCols(p, c) = ccols
  BY DEF ParentCols, ChildCols, s
<1> HIDE DEF pcols, ccols
<1> QED BY <1>3, <1>4, <1>5, <1>6, <1>7

\* A CREATE may always be appended, a PROBE as long as there is no CREATE.
LEMMA AppendKeepsOrder ==
    ASSUME NEW t, NEW ops, ProbesThenCreates(t, ops), NEW x \in FilterOp,
           x.is_create => x.build_table = t,
           ~ x.is_create => \A i \in DOMAIN ops : ~ ops[i].is_create
    PROVE  ProbesThenCreates(t, Append(ops, x))
<1>1. ops \in Seq(FilterOp)
  BY DEF ProbesThenCreates
<1> DEFINE new == Append(ops, x)
<1>2. /\ new \in Seq(FilterOp) /\ DOMAIN new = DOMAIN ops \cup {Len(ops) + 1}
      /\ \A i \in DOMAIN ops : i \in 1 .. Len(ops) /\ new[i] = ops[i]
      /\ new[Len(ops) + 1] = x /\ Len(ops) \in Nat
  BY <1>1, AppendFacts
<1> HIDE DEF new
<1>3. ASSUME NEW i \in DOMAIN new, NEW j \in DOMAIN new, new[i].is_create, ~ new[j].is_create
      PROVE  j < i
  <2>1. CASE i \in DOMAIN ops /\ j \in DOMAIN ops
    BY <1>2, <1>3, <2>1 DEF ProbesThenCreates
  <2>2. CASE i \in DOMAIN ops /\ j \notin DOMAIN ops
    BY <1>2, <1>3, <2>2
  <2>3. CASE i \notin DOMAIN ops
    <3>1. i = Len(ops) + 1 /\ j # i
      BY <1>2, <1>3, <2>3
    <3> QED BY <1>2, <3>1
  <2> QED BY <2>1, <2>2, <2>3
<1>4. \A i \in DOMAIN new : new[i].is_create => new[i].build_table = t
  BY <1>2 DEF ProbesThenCreates
<1> QED BY <1>2, <1>3, <1>4 DEF ProbesThenCreates, new

\* One operation is appended to the list of table a.
LEMMA AppendOne ==
    ASSUME NEW f \in [Tables -> Seq(FilterOp)], NEW a \in Tables, NEW x \in FilterOp
    PROVE  LET h == [f EXCEPT ![a] = Append(@, x)] IN
           /\ h \in [Tables -> Seq(FilterOp)]
           /\ h[a] = Append(f[a], x)
           /\ \A t \in Tables : t # a => h[t] = f[t]
           /\ \A t \in Tables : \A i \in DOMAIN f[t] : i \in DOMAIN h[t] /\ h[t][i] = f[t][i]
           /\ Len(f[a]) + 1 \in DOMAIN h[a] /\ h[a][Len(f[a]) + 1] = x
           /\ \A t \in Tables : \A i \in DOMAIN h[t] :
                \/ i \in DOMAIN f[t] /\ h[t][i] = f[t][i]
                \/ t = a /\ h[t][i] = x
<1> DEFINE h == [f EXCEPT ![a] = Append(@, x)]
<1>1. f[a] \in Seq(FilterOp)
  OBVIOUS
<1>2. /\ Append(f[a], x) \in Seq(FilterOp)
      /\ DOMAIN Append(f[a], x) = DOMAIN f[a] \cup {Len(f[a]) + 1}
      /\ \A i \in DOMAIN f[a] : Append(f[a], x)[i] = f[a][i]
      /\ Append(f[a], x)[Len(f[a]) + 1] = x
  BY <1>1, AppendFacts
<1>3. h[a] = Append(f[a], x) /\ \A t \in Tables : t # a => h[t] = f[t]
  OBVIOUS
<1>4. h \in [Tables -> Seq(FilterOp)]
  BY <1>2
<1> HIDE DEF h
<1> QED BY <1>2, <1>3, <1>4 DEF h

\* What two lists of operations have in common when the second has been made
\* from the first by appending x at table a and y at table b.
Appended(f, h, a, x, b, y) ==
    /\ h \in [Tables -> Seq(FilterOp)]
    /\ \A t \in Tables : \A i \in DOMAIN f[t] : i \in DOMAIN h[t] /\ h[t][i] = f[t][i]
    /\ \A t \in Tables : \A i \in DOMAIN h[t] :
        \/ i \in DOMAIN f[t] /\ h[t][i] = f[t][i]
        \/ t = a /\ h[t][i] = x
        \/ t = b /\ h[t][i] = y
    /\ Len(f[a]) + 1 \in DOMAIN h[a] /\ h[a][Len(f[a]) + 1] = x
    /\ Len(f[b]) + 1 \in DOMAIN h[b] /\ h[b][Len(f[b]) + 1] = y
    /\ \A t \in Tables : ProbesThenCreates(t, h[t])

\* Every PROBE of h is one of f or one of table a, which reads the filters of
\* bcols of table b with pcols.
NewProbes(f, h, b, bcols, a, pcols) ==
    \A t \in Tables : \A i \in DOMAIN h[t] : ~ h[t][i].is_create =>
        \/ i \in DOMAIN f[t] /\ h[t][i] = f[t][i]
        \/ /\ t = a /\ h[t][i].build_table = b
           /\ h[t][i].build_columns = bcols /\ h[t][i].probe_columns = pcols

\* A CREATE and the PROBE of its filter are appended.
LEMMA AppendPair ==
    ASSUME NEW f \in [Tables -> Seq(FilterOp)], NEW a \in Tables, NEW b \in Tables, a # b,
           NEW x \in FilterOp, NEW y \in FilterOp, x.is_create, x.build_table = a, ~ y.is_create,
           \A i \in DOMAIN f[b] : ~ f[b][i].is_create,
           \A t \in Tables : ProbesThenCreates(t, f[t])
    PROVE  Appended(f, [f EXCEPT ![a] = Append(@, x), ![b] = Append(@, y)], a, x, b, y)
<1> DEFINE g == [f EXCEPT ![a] = Append(@, x)]
           h == [g EXCEPT ![b] = Append(@, y)]
<1>1. /\ g \in [Tables -> Seq(FilterOp)]
      /\ g[a] = Append(f[a], x)
      /\ \A t \in Tables : t # a => g[t] = f[t]
      /\ \A t \in Tables : \A i \in DOMAIN f[t] : i \in DOMAIN g[t] /\ g[t][i] = f[t][i]
      /\ Len(f[a]) + 1 \in DOMAIN g[a] /\ g[a][Len(f[a]) + 1] = x
      /\ \A t \in Tables : \A i \in DOMAIN g[t] :
            \/ i \in DOMAIN f[t] /\ g[t][i] = f[t][i]
            \/ t = a /\ g[t][i] = x
  BY AppendOne
<1> HIDE DEF g
<1>2. /\ h \in [Tables -> Seq(FilterOp)]
      /\ h[b] = Append(g[b], y)
      /\ \A t \in Tables : t # b => h[t] = g[t]
      /\ \A t \in Tables : \A i \in DOMAIN g[t] : i \in DOMAIN h[t] /\ h[t][i] = g[t][i]
      /\ Len(g[b]) + 1 \in DOMAIN h[b] /\ h[b][Len(g[b]) + 1] = y
      /\ \A t \in Tables : \A i \in DOMAIN h[t] :
            \/ i \in DOMAIN g[t] /\ h[t][i] = g[t][i]
            \/ t = b /\ h[t][i] = y
  BY <1>1, AppendOne
<1>3. [f EXCEPT ![a] = Append(@, x), ![b] = Append(@, y)] = h
  BY DEF g
<1> HIDE DEF h
<1>4. /\ h[a] = Append(f[a], x) /\ h[a] = g[a]
      /\ h[b] = Append(f[b], y) /\ g[b] = f[b]
  <2>1. h[a] = g[a] /\ g[b] = f[b] /\ g[a] = Append(f[a], x) /\ h[b] = Append(g[b], y)
    BY <1>1, <1>2
  <2> QED BY <2>1
<1>5. \A t \in Tables : (t # a /\ t # b) => h[t] = f[t]
  BY <1>1, <1>2
<1>6. ProbesThenCreates(a, h[a])
  <2>1. ProbesThenCreates(a, Append(f[a], x))
    BY AppendKeepsOrder
  <2> QED BY <1>4, <2>1
<1>7. ProbesThenCreates(b, h[b])
  <2>1. ProbesThenCreates(b, Append(f[b], y))
    BY AppendKeepsOrder
  <2> QED BY <1>4, <2>1
<1>8. \A t \in Tables : ProbesThenCreates(t, h[t])
  BY <1>6, <1>7, <1>5
<1>9. /\ \A t \in Tables : \A i \in DOMAIN f[t] : i \in DOMAIN h[t] /\ h[t][i] = f[t][i]
      /\ \A t \in Tables : \A i \in DOMAIN h[t] :
            \/ i \in DOMAIN f[t] /\ h[t][i] = f[t][i]
            \/ t = a /\ h[t][i] = x
            \/ t = b /\ h[t][i] = y
  BY <1>1, <1>2
<1>10. /\ Len(f[a]) + 1 \in DOMAIN h[a] /\ h[a][Len(f[a]) + 1] = x
      /\ Len(f[b]) + 1 \in DOMAIN h[b] /\ h[b][Len(f[b]) + 1] = y
  <2>1. Len(f[a]) + 1 \in DOMAIN h[a] /\ h[a][Len(f[a]) + 1] = x
    BY <1>1, <1>4
  <2>2. Len(g[b]) + 1 \in DOMAIN h[b] /\ h[b][Len(g[b]) + 1] = y
    BY <1>2
  <2>3. Len(f[b]) + 1 = Len(g[b]) + 1
    BY <1>4
  <2> QED BY <2>1, <2>2, <2>3
<1>11. Appended(f, h, a, x, b, y)
  BY <1>2, <1>8, <1>9, <1>10 DEF Appended
<1> QED BY <1>3, <1>11

-----------------------------------------------------------------------------
\* The forward pass.

\* The deepest of the remaining children creates, one of its parents probes.
LEMMA AddForwardStep ==
    ASSUME StageInv, stage = "forward", NEW p \in Tables, NEW c \in Tables, <<p, c>> \in todo,
           \A o \in todo : level[o[2]] <= level[c], AddForward(p, c)
    PROVE  /\ StageInv'
           /\ NewProbes(forward_filter_ops, forward_filter_ops',
                        c, ChildCols(p, c), p, ParentCols(p, c))
<1> DEFINE f  == forward_filter_ops
           cr == CreateOp(c, ChildCols(p, c), p, ParentCols(p, c), TRUE, sequence)
           pr == ProbeOp(c, ChildCols(p, c), p, ParentCols(p, c), TRUE, sequence + 1)
           h  == [f EXCEPT ![c] = Append(@, cr), ![p] = Append(@, pr)]
<1>1. GraphInv /\ ForwardInv /\ BackwardInv /\ SourceInv /\ ReducedInv
  BY DEF StageInv
<1>2. /\ forward_filter_ops' = h /\ todo' = todo \ {<<p, c>>} /\ sequence' = sequence + 2
      /\ UNCHANGED <<edges, classes, level, card, backward_filter_ops,
                     equiv_class_bf_source, stage>>
  BY DEF AddForward
<1> HIDE DEF h
<1>3. /\ Linked(edges, p, c) /\ level[p] < level[c]
      /\ \A t \in Tables : level[t] \in Int
      /\ sequence \in Nat /\ sequence + 1 \in Nat /\ sequence + 2 \in Nat
  <2>1. <<p, c>> \in LevelledEdges(edges, level)
    BY <1>1 DEF GraphInv
  <2>2. Linked(edges, p, c)
    BY <2>1 DEF LevelledEdges
  <2>3. \A t \in Tables : level[t] \in Int
    BY <1>1, NumTablesAssumption DEF GraphInv
  <2> QED BY <1>1, <2>1, <2>2, <2>3 DEF GraphInv
<1>4. /\ ParentCols(p, c) \in Seq(Tables \X Columns) /\ ChildCols(p, c) \in Seq(Tables \X Columns)
      /\ ParentCols(p, c) # << >> /\ 1 \in DOMAIN ParentCols(p, c)
      /\ \A x \in ToSet(ParentCols(p, c)) : x[1] = p
  BY <1>1, <1>3, EdgeColumns
<1>5. /\ cr \in FilterOp /\ cr.is_create /\ cr.build_table = c /\ cr.probe_table = p
      /\ cr.build_columns = ChildCols(p, c) /\ cr.probe_columns = ParentCols(p, c) /\ cr.forward
      /\ pr \in FilterOp /\ ~ pr.is_create /\ pr.build_table = c /\ pr.probe_table = p
      /\ pr.build_columns = ChildCols(p, c) /\ pr.probe_columns = ParentCols(p, c) /\ pr.forward
  <2> HIDE DEF cr, pr
  <2>1. /\ cr = CreateOp(c, ChildCols(p, c), p, ParentCols(p, c), TRUE, sequence)
        /\ pr = ProbeOp(c, ChildCols(p, c), p, ParentCols(p, c), TRUE, sequence + 1)
        /\ TRUE \in BOOLEAN
    BY DEF cr, pr
  <2>2. /\ cr \in FilterOp /\ cr.is_create /\ cr.build_table = c /\ cr.probe_table = p
        /\ cr.build_columns = ChildCols(p, c) /\ cr.probe_columns = ParentCols(p, c)
        /\ cr.forward = TRUE
    BY <1>3, <1>4, <2>1 DEF CreateOp, FilterOp
  <2>3. /\ pr \in FilterOp /\ ~ pr.is_create /\ pr.build_table = c /\ pr.probe_table = p
        /\ pr.build_columns = ChildCols(p, c) /\ pr.probe_columns = ParentCols(p, c)
        /\ pr.forward = TRUE
    BY <1>3, <1>4, <2>1 DEF CreateOp, ProbeOp, FilterOp
  <2> QED BY <2>2, <2>3
<1> HIDE DEF cr, pr
<1>6. \A i \in DOMAIN f[p] : ~ f[p][i].is_create
  <2>1. ASSUME NEW i \in DOMAIN f[p], f[p][i].is_create
        PROVE  FALSE
    <3>1. \A e \in todo : level[e[2]] <= level[p]
      BY <1>1, <2>1 DEF ForwardInv
    <3>2. level[c] <= level[p]
      BY <3>1
    <3> QED BY <1>3, <3>2
  <2> QED BY <2>1
<1>7. Appended(f, h, c, cr, p, pr)
  <2>1. f \in [Tables -> Seq(FilterOp)] /\ \A t \in Tables : ProbesThenCreates(t, f[t])
    BY <1>1 DEF ForwardInv
  <2>2. c # p
    BY <1>3
  <2> QED BY <1>5, <1>6, <2>1, <2>2, AppendPair DEF h
<1>8. GraphInv'
  BY <1>1, <1>2, <1>3 DEF GraphInv
<1>9. ForwardInv'
  <2>1. \A t \in Tables : \A i \in DOMAIN f[t] : i \in DOMAIN h[t] /\ h[t][i] = f[t][i]
    BY <1>7 DEF Appended
  <2>2. Len(f[c]) + 1 \in DOMAIN h[c] /\ h[c][Len(f[c]) + 1] = cr
    BY <1>7 DEF Appended
  <2>3. ASSUME NEW t \in Tables, NEW i \in DOMAIN h[t]
        PROVE  /\ ForwardOp(level, h, t, h[t][i])
               /\ h[t][i].is_create => \A e \in todo' : level[e[2]] <= level[t]
    <3>1. CASE i \in DOMAIN f[t] /\ h[t][i] = f[t][i]
      <4> DEFINE op == f[t][i]
      <4>1. op \in FilterOp /\ ForwardOp(level, f, t, op)
            /\ (op.is_create => \A e \in todo : level[e[2]] <= level[t])
        BY <1>1, <3>1 DEF ForwardInv
      <4> HIDE DEF op
      <4>2. op.build_table \in Tables
        BY <4>1 DEF FilterOp
      <4>3. ~ op.is_create => \E j \in DOMAIN h[op.build_table] : Supplies(h[op.build_table][j], op)
        BY <2>1, <4>1, <4>2 DEF ForwardOp
      <4>4. ForwardOp(level, h, t, op)
        BY <4>1, <4>3 DEF ForwardOp
      <4>5. op.is_create => \A e \in todo' : level[e[2]] <= level[t]
        BY <1>2, <4>1
      <4> QED BY <3>1, <4>4, <4>5 DEF op
    <3>2. CASE t = c /\ h[t][i] = cr
      <4>1. ForwardOp(level, h, c, cr)
        BY <1>3, <1>4, <1>5 DEF ForwardOp
      <4>2. \A e \in todo' : level[e[2]] <= level[c]
        BY <1>2
      <4> QED BY <3>2, <4>1, <4>2
    <3>3. CASE t = p /\ h[t][i] = pr
      <4>1. Supplies(cr, pr)
        <5>1. ParentCols(p, c)[1] \in ToSet(ParentCols(p, c))
          BY <1>4 DEF ToSet
        <5> QED BY <1>4, <1>5, <5>1 DEF Supplies
      <4>2. ForwardOp(level, h, p, pr)
        BY <1>3, <1>5, <2>2, <4>1 DEF ForwardOp
      <4> QED BY <1>5, <3>3, <4>2
    <3> QED BY <1>7, <3>1, <3>2, <3>3 DEF Appended
  <2>4. h \in [Tables -> Seq(FilterOp)] /\ \A t \in Tables : ProbesThenCreates(t, h[t])
    BY <1>7 DEF Appended
  <2> QED BY <1>2, <2>3, <2>4 DEF ForwardInv, ProbesThenCreates
<1>10. BackwardInv'
  BY <1>1, <1>2 DEF BackwardInv
<1>11. SourceInv'
  BY <1>1, <1>2 DEF SourceInv, SourceOk, ClassOf
<1>12. ReducedInv'
  <2>1. ASSUME NEW e \in LevelledEdges(edges, level), e \notin todo'
        PROVE  ForwardReduced(h, e)
    <3>1. e \in Tables \X Tables /\ e[1] \in Tables
      BY DEF LevelledEdges
    <3>2. CASE e = <<p, c>>
      <4>1. Len(f[p]) + 1 \in DOMAIN h[p] /\ h[p][Len(f[p]) + 1] = pr
        BY <1>7 DEF Appended
      <4> QED BY <1>5, <3>2, <4>1 DEF ForwardReduced
    <3>3. CASE e \notin todo
      <4>1. ForwardReduced(f, e)
        BY <1>1, <3>3 DEF ReducedInv
      <4>2. \A i \in DOMAIN f[e[1]] : i \in DOMAIN h[e[1]] /\ h[e[1]][i] = f[e[1]][i]
        BY <1>7, <3>1 DEF Appended
      <4> QED BY <4>1, <4>2 DEF ForwardReduced
    <3> QED BY <1>2, <2>1, <3>2, <3>3
  <2> QED BY <1>2, <2>1 DEF ReducedInv, LevelledEdges, Linked
<1>13. NewProbes(f, h, c, ChildCols(p, c), p, ParentCols(p, c))
  BY <1>5, <1>7 DEF Appended, NewProbes
<1> QED BY <1>2, <1>8, <1>9, <1>10, <1>11, <1>12, <1>13 DEF StageInv

-----------------------------------------------------------------------------
\* The backward pass.

\* A CREATE may have been given more columns; a PROBE stays as it is.
Wider(new, old) ==
    /\ new.is_create = old.is_create
    /\ ~ old.is_create => new = old
    /\ ToSet(old.build_columns) \subseteq ToSet(new.build_columns)
    /\ ToSet(old.probe_columns) \subseteq ToSet(new.probe_columns)

Grown(f, h) ==
    \A t \in Tables : \A i \in DOMAIN f[t] : i \in DOMAIN h[t] /\ Wider(h[t][i], f[t][i])

\* What has been achieved is not undone by wider CREATEs and new operations.
LEMMA GrownKeeps ==
    ASSUME NEW f, NEW h, Grown(f, h)
    PROVE  /\ \A t \in Tables : \A op :
                (\E i \in DOMAIN f[t] : Supplies(f[t][i], op)) =>
                    \E i \in DOMAIN h[t] : Supplies(h[t][i], op)
           /\ \A s : SourceOk(f, s) => SourceOk(h, s)
           /\ \A cls, key : \A e \in Tables \X Tables :
                BackwardReduced(f, cls, e, key) => BackwardReduced(h, cls, e, key)
<1>1. ASSUME NEW t \in Tables, NEW op, NEW i \in DOMAIN f[t], Supplies(f[t][i], op)
      PROVE  i \in DOMAIN h[t] /\ Supplies(h[t][i], op)
  BY <1>1 DEF Grown, Wider, Supplies
<1>2. ASSUME NEW s, SourceOk(f, s)
      PROVE  SourceOk(h, s)
  <2>1. s.table \in Tables /\ s.index \in DOMAIN f[s.table]
    BY <1>2 DEF SourceOk
  <2>2. s.index \in DOMAIN h[s.table] /\ Wider(h[s.table][s.index], f[s.table][s.index])
    BY <2>1 DEF Grown
  <2> QED BY <1>2, <2>2 DEF SourceOk, Wider
<1>3. ASSUME NEW cls, NEW key, NEW e \in Tables \X Tables, BackwardReduced(f, cls, e, key)
      PROVE  BackwardReduced(h, cls, e, key)
  <2>1. PICK i \in DOMAIN f[e[2]] :
            /\ ~ f[e[2]][i].is_create
            /\ ClassIn(cls, f[e[2]][i].build_columns[1]) = ClassIn(cls, key)
    BY <1>3 DEF BackwardReduced
  <2>2. e[2] \in Tables
    OBVIOUS
  <2>3. i \in DOMAIN h[e[2]] /\ h[e[2]][i] = f[e[2]][i]
    BY <2>1, <2>2 DEF Grown, Wider
  <2> QED BY <2>1, <2>3 DEF BackwardReduced
<1> QED BY <1>1, <1>2, <1>3

\* An edge of the backward pass is done, by a pair of operations or a broadcast.
LEMMA BackwardStep ==
    ASSUME StageInv, stage = "backward", NEW p \in Tables, NEW c \in Tables, <<p, c>> \in todo,
           todo' = todo \ {<<p, c>>}, sequence' \in Nat,
           UNCHANGED <<edges, classes, level, forward_filter_ops, stage>>,
           NEW h \in [Tables -> Seq(FilterOp)], backward_filter_ops' = h,
           Grown(backward_filter_ops, h),
           \A t \in Tables : ProbesThenCreates(t, h[t]),
           \A t \in Tables : \A i \in DOMAIN h[t] :
                \/ i \in DOMAIN backward_filter_ops[t] /\ h[t][i] = backward_filter_ops[t][i]
                \/ /\ BackwardOp(level, h, t, h[t][i])
                   /\ h[t][i].is_create => \A e \in todo : level[t] < level[e[2]],
           BackwardReduced(h, classes, <<p, c>>, ParentCols(p, c)[1]),
           \A s \in equiv_class_bf_source' : s \in equiv_class_bf_source \/ SourceOk(h, s)
    PROVE  StageInv'
<1> DEFINE f == backward_filter_ops
<1>1. GraphInv /\ ForwardInv /\ BackwardInv /\ SourceInv /\ ReducedInv
  BY DEF StageInv
<1>2. GraphInv'
  BY <1>1 DEF GraphInv
<1>3. ForwardInv'
  BY <1>1 DEF ForwardInv
<1>4. BackwardInv'
  <2>1. ASSUME NEW t \in Tables, NEW i \in DOMAIN h[t]
        PROVE  /\ BackwardOp(level, h, t, h[t][i])
               /\ h[t][i].is_create => \A e \in todo' : level[t] < level[e[2]]
    <3>1. CASE i \in DOMAIN f[t] /\ h[t][i] = f[t][i]
      <4> DEFINE op == f[t][i]
      <4>1. op \in FilterOp /\ BackwardOp(level, f, t, op)
            /\ (op.is_create => \A e \in todo : level[t] < level[e[2]])
        BY <1>1, <3>1 DEF BackwardInv
      <4> HIDE DEF op
      <4>2. op.build_table \in Tables
        BY <4>1 DEF FilterOp
      <4>3. ~ op.is_create => \E j \in DOMAIN h[op.build_table] : Supplies(h[op.build_table][j], op)
        <5>1. \A b \in Tables : (\E j \in DOMAIN f[b] : Supplies(f[b][j], op)) =>
                                    \E j \in DOMAIN h[b] : Supplies(h[b][j], op)
          BY GrownKeeps
        <5>2. ~ op.is_create => \E j \in DOMAIN f[op.build_table] : Supplies(f[op.build_table][j], op)
          BY <4>1 DEF BackwardOp
        <5> HIDE DEF f
        <5> QED BY <4>2, <5>1, <5>2
      <4>4. BackwardOp(level, h, t, op)
        BY <4>1, <4>3 DEF BackwardOp
      <4> QED BY <3>1, <4>1, <4>4 DEF op
    <3>2. CASE /\ BackwardOp(level, h, t, h[t][i])
               /\ h[t][i].is_create => \A e \in todo : level[t] < level[e[2]]
      BY <3>2
    <3> QED BY <3>1, <3>2
  <2> QED BY <2>1 DEF BackwardInv, ProbesThenCreates
<1>5. SourceInv'
  <2>1. \A s \in equiv_class_bf_source' : SourceOk(h, s)
    BY <1>1, GrownKeeps DEF SourceInv
  <2> QED BY <2>1 DEF SourceInv, SourceOk, ClassOf
<1>6. ReducedInv'
  <2> DEFINE Done(e) == BackwardReduced(h, classes, e, ParentCols(e[1], e[2])[1])
  <2>1. ASSUME NEW e \in LevelledEdges(edges, level), e \notin todo'
        PROVE  Done(e)
    <3>1. CASE e \notin todo
      <4>1. BackwardReduced(f, classes, e, ParentCols(e[1], e[2])[1]) /\ e \in Tables \X Tables
        BY <1>1, <3>1 DEF ReducedInv, LevelledEdges
      <4> HIDE DEF f
      <4> QED BY <4>1, GrownKeeps DEF f
    <3>2. CASE e = <<p, c>>
      BY <3>2
    <3> QED BY <2>1, <3>1, <3>2
  <2>2. \A e \in LevelledEdges(edges, level) : ForwardReduced(forward_filter_ops, e)
    BY <1>1 DEF ReducedInv
  <2>3. LevelledEdges(edges, level)' = LevelledEdges(edges, level)
    BY DEF LevelledEdges, Linked
  <2>4. \A e : ParentCols(e[1], e[2])' = ParentCols(e[1], e[2])
    BY DEF ParentCols
  <2> QED BY <2>1, <2>2, <2>3, <2>4 DEF ReducedInv
<1> QED BY <1>2, <1>3, <1>4, <1>5, <1>6 DEF StageInv

\* What the next edge of the backward pass may count on.
LEMMA NextBackwardFacts ==
    ASSUME StageInv, stage = "backward", NEW p \in Tables, NEW c \in Tables, <<p, c>> \in todo,
           \A o \in todo : level[c] <= level[o[2]]
    PROVE  /\ Linked(edges, p, c) /\ level[p] < level[c] /\ p # c
           /\ \A e \in todo : level[p] < level[e[2]]
           /\ \A i \in DOMAIN backward_filter_ops[c] : ~ backward_filter_ops[c][i].is_create
           /\ \A t \in Tables : \A i \in DOMAIN backward_filter_ops[t] :
                backward_filter_ops[t][i].is_create => level[t] < level[c]
<1>1. GraphInv /\ BackwardInv
  BY DEF StageInv
<1>2. <<p, c>> \in LevelledEdges(edges, level)
  BY <1>1 DEF GraphInv
<1>3. Linked(edges, p, c)
  BY <1>2 DEF LevelledEdges
<1>4. \A t \in Tables : level[t] \in Int
  BY <1>1, NumTablesAssumption DEF GraphInv
<1>5. level[p] < level[c] /\ p # c
  BY <1>1, <1>2, <1>4 DEF GraphInv
<1>6. ASSUME NEW e \in todo
      PROVE  level[p] < level[e[2]]
  <2>1. e[2] \in Tables
    BY <1>1 DEF GraphInv, LevelledEdges
  <2>2. level[c] <= level[e[2]]
    OBVIOUS
  <2> QED BY <1>4, <1>5, <2>1, <2>2
<1>7. \A t \in Tables : \A i \in DOMAIN backward_filter_ops[t] :
            backward_filter_ops[t][i].is_create => level[t] < level[c]
  <2>1. \A t \in Tables : \A i \in DOMAIN backward_filter_ops[t] :
            backward_filter_ops[t][i].is_create => \A e \in todo : level[t] < level[e[2]]
    BY <1>1 DEF BackwardInv
  <2> QED BY <2>1
<1>8. \A i \in DOMAIN backward_filter_ops[c] : ~ backward_filter_ops[c][i].is_create
  BY <1>4, <1>7
<1> QED BY <1>3, <1>5, <1>6, <1>7, <1>8

\* The parent creates, the child probes, and the pair may become a source.
LEMMA AddBackwardStep ==
    ASSUME StageInv, stage = "backward", NEW p \in Tables, NEW c \in Tables, <<p, c>> \in todo,
           \A o \in todo : level[c] <= level[o[2]], AddBackward(p, c),
           todo' = todo \ {<<p, c>>},
           UNCHANGED <<edges, classes, level, forward_filter_ops, stage>>,
           \A s \in equiv_class_bf_source' :
                \/ s \in equiv_class_bf_source
                \/ s = [class |-> ClassOf(ParentCols(p, c)[1]), table |-> p,
                        columns |-> ParentCols(p, c),
                        index |-> Len(backward_filter_ops[p]) + 1]
    PROVE  /\ StageInv'
           /\ NewProbes(backward_filter_ops, backward_filter_ops',
                        p, ParentCols(p, c), c, ChildCols(p, c))
<1> DEFINE f  == backward_filter_ops
           cr == CreateOp(p, ParentCols(p, c), c, ChildCols(p, c), FALSE, sequence)
           pr == ProbeOp(p, ParentCols(p, c), c, ChildCols(p, c), FALSE, sequence + 1)
           h  == [f EXCEPT ![p] = Append(@, cr), ![c] = Append(@, pr)]
<1>1. GraphInv /\ BackwardInv
  BY DEF StageInv
<1>2. backward_filter_ops' = h /\ sequence' = sequence + 2
  BY DEF AddBackward
<1> HIDE DEF h
<1>3. /\ Linked(edges, p, c) /\ level[p] < level[c] /\ p # c
      /\ \A e \in todo : level[p] < level[e[2]]
      /\ \A i \in DOMAIN f[c] : ~ f[c][i].is_create
      /\ sequence \in Nat /\ sequence + 1 \in Nat /\ sequence + 2 \in Nat
  BY <1>1, NextBackwardFacts DEF GraphInv
<1>4. /\ ParentCols(p, c) \in Seq(Tables \X Columns) /\ ChildCols(p, c) \in Seq(Tables \X Columns)
      /\ ParentCols(p, c) # << >> /\ 1 \in DOMAIN ChildCols(p, c)
      /\ \A x \in ToSet(ChildCols(p, c)) : x[1] = c
  BY <1>1, <1>3, EdgeColumns
<1>5. /\ cr \in FilterOp /\ cr.is_create /\ cr.build_table = p /\ cr.probe_table = c
      /\ cr.build_columns = ParentCols(p, c) /\ cr.probe_columns = ChildCols(p, c) /\ ~ cr.forward
      /\ pr \in FilterOp /\ ~ pr.is_create /\ pr.build_table = p /\ pr.probe_table = c
      /\ pr.build_columns = ParentCols(p, c) /\ pr.probe_columns = ChildCols(p, c)
      /\ ~ pr.forward
  <2> HIDE DEF cr, pr
  <2>1. /\ cr = CreateOp(p, ParentCols(p, c), c, ChildCols(p, c), FALSE, sequence)
        /\ pr = ProbeOp(p, ParentCols(p, c), c, ChildCols(p, c), FALSE, sequence + 1)
    BY DEF cr, pr
  <2>2. /\ cr \in FilterOp /\ cr.is_create /\ cr.build_table = p /\ cr.probe_table = c
        /\ cr.build_columns = ParentCols(p, c) /\ cr.probe_columns = ChildCols(p, c)
        /\ cr.forward = FALSE
    BY <1>3, <1>4, <2>1 DEF CreateOp, FilterOp
  <2>3. /\ pr \in FilterOp /\ ~ pr.is_create /\ pr.build_table = p /\ pr.probe_table = c
        /\ pr.build_columns = ParentCols(p, c) /\ pr.probe_columns = ChildCols(p, c)
        /\ pr.forward = FALSE
    BY <1>3, <1>4, <2>1 DEF CreateOp, ProbeOp, FilterOp
  <2> QED BY <2>2, <2>3
<1> HIDE DEF cr, pr
<1>6. Appended(f, h, p, cr, c, pr)
  <2>1. f \in [Tables -> Seq(FilterOp)] /\ \A t \in Tables : ProbesThenCreates(t, f[t])
    BY <1>1 DEF BackwardInv
  <2> QED BY <1>3, <1>5, <2>1, AppendPair DEF h
<1>7. /\ h \in [Tables -> Seq(FilterOp)]
      /\ \A t \in Tables : ProbesThenCreates(t, h[t])
      /\ Len(f[p]) + 1 \in DOMAIN h[p] /\ h[p][Len(f[p]) + 1] = cr
      /\ Len(f[c]) + 1 \in DOMAIN h[c] /\ h[c][Len(f[c]) + 1] = pr
  BY <1>6 DEF Appended
<1>8. Grown(f, h)
  BY <1>6 DEF Appended, Grown, Wider
<1>9. BackwardOp(level, h, p, cr)
  BY <1>3, <1>4, <1>5 DEF BackwardOp
<1>10. BackwardOp(level, h, c, pr)
  <2>1. ChildCols(p, c)[1] \in ToSet(ChildCols(p, c))
    BY <1>4 DEF ToSet
  <2>2. Supplies(cr, pr)
    BY <1>4, <1>5, <2>1 DEF Supplies
  <2> QED BY <1>3, <1>5, <1>7, <2>2 DEF BackwardOp
<1>11. \A t \in Tables : \A i \in DOMAIN h[t] :
        \/ i \in DOMAIN f[t] /\ h[t][i] = f[t][i]
        \/ /\ BackwardOp(level, h, t, h[t][i])
           /\ h[t][i].is_create => \A e \in todo : level[t] < level[e[2]]
  <2> TAKE t \in Tables
  <2> TAKE i \in DOMAIN h[t]
  <2>1. \/ i \in DOMAIN f[t] /\ h[t][i] = f[t][i]
        \/ t = p /\ h[t][i] = cr
        \/ t = c /\ h[t][i] = pr
    BY <1>6 DEF Appended
  <2>2. CASE t = p /\ h[t][i] = cr
    BY <1>3, <1>9, <2>2
  <2>3. CASE t = c /\ h[t][i] = pr
    BY <1>5, <1>10, <2>3
  <2> QED BY <2>1, <2>2, <2>3
<1>12. BackwardReduced(h, classes, <<p, c>>, ParentCols(p, c)[1])
  BY <1>5, <1>7 DEF BackwardReduced
<1>13. \A s \in equiv_class_bf_source' : s \in equiv_class_bf_source \/ SourceOk(h, s)
  <2> DEFINE new == [class |-> ClassOf(ParentCols(p, c)[1]), table |-> p,
                     columns |-> ParentCols(p, c), index |-> Len(backward_filter_ops[p]) + 1]
  <2>1. /\ new.class = ClassOf(ParentCols(p, c)[1]) /\ new.table = p
        /\ new.columns = ParentCols(p, c) /\ new.index = Len(f[p]) + 1
    OBVIOUS
  <2> HIDE DEF new
  <2>2. SourceOk(h, new)
    BY <1>4, <1>5, <1>7, <2>1 DEF SourceOk
  <2> QED BY <2>2 DEF new
<1>14. NewProbes(f, h, p, ParentCols(p, c), c, ChildCols(p, c))
  BY <1>5, <1>6 DEF Appended, NewProbes
<1> HIDE DEF f
<1>15. StageInv'
  BY <1>2, <1>3, <1>7, <1>8, <1>11, <1>12, <1>13, BackwardStep DEF f
<1> QED BY <1>2, <1>14, <1>15 DEF f

\* A source's CREATE gets more columns, on both sides.
ColumnLists == Seq(Tables \X Columns)

WithColumns(op, pcols, matched) ==
    [op EXCEPT !.probe_columns = @ \o pcols, !.build_columns = @ \o matched]

LEMMA Widened ==
    ASSUME NEW old \in FilterOp, NEW pcols \in ColumnLists, NEW matched \in ColumnLists
    PROVE  LET w == WithColumns(old, pcols, matched) IN
           /\ w \in FilterOp
           /\ w.is_create = old.is_create /\ w.build_table = old.build_table
           /\ w.probe_table = old.probe_table /\ w.forward = old.forward
           /\ ToSet(old.build_columns) \subseteq ToSet(w.build_columns)
           /\ ToSet(w.probe_columns) = ToSet(old.probe_columns) \cup ToSet(pcols)
<1> DEFINE w  == WithColumns(old, pcols, matched)
           S  == Tables \X Columns
           pc == old.probe_columns \o pcols
           bc == old.build_columns \o matched
<1>1. old.probe_columns \in Seq(S) /\ old.build_columns \in Seq(S)
  BY DEF FilterOp
<1>2. pc \in Seq(S) /\ ToSet(pc) = ToSet(old.probe_columns) \cup ToSet(pcols)
  <2>1. pcols \in Seq(S)
    BY DEF ColumnLists
  <2> HIDE DEF S
  <2> QED BY <1>1, <2>1, ToSetConcat
<1>3. bc \in Seq(S) /\ ToSet(bc) = ToSet(old.build_columns) \cup ToSet(matched)
  <2>1. matched \in Seq(S)
    BY DEF ColumnLists
  <2> HIDE DEF S
  <2> QED BY <1>1, <2>1, ToSetConcat
<1>4. w = [old EXCEPT !.probe_columns = pc, !.build_columns = bc]
  BY DEF WithColumns
<1> HIDE DEF pc, bc, w
<1>5. w.probe_columns = pc /\ w.build_columns = bc
  BY <1>4 DEF FilterOp
<1>6. w \in FilterOp
  BY <1>2, <1>3, <1>4 DEF FilterOp
<1>7. /\ w.is_create = old.is_create /\ w.build_table = old.build_table
      /\ w.probe_table = old.probe_table /\ w.forward = old.forward
  BY <1>4 DEF FilterOp
<1> QED BY <1>2, <1>3, <1>5, <1>6, <1>7 DEF w

\* The filter of the class is broadcast to one more child.
LEMMA BroadcastStep ==
    ASSUME StageInv, stage = "backward", NEW p \in Tables, NEW c \in Tables, <<p, c>> \in todo,
           \A o \in todo : level[c] <= level[o[2]],
           NEW source \in SourcesFor(<<p, c>>), Broadcast(<<p, c>>, source),
           todo' = todo \ {<<p, c>>},
           UNCHANGED <<edges, classes, level, forward_filter_ops, stage>>
    PROVE  /\ StageInv'
           /\ NewProbes(backward_filter_ops, backward_filter_ops',
                        source.table, source.columns, c, ChildCols(p, c))
<1> DEFINE f       == backward_filter_ops
           T       == source.table
           I       == source.index
           pcols   == ChildCols(p, c)
           size    == Len(source.columns)
           matched == [i \in DOMAIN pcols |-> source.columns[IF i <= size THEN i ELSE size]]
           use     == ProbeOp(T, source.columns, c, pcols, FALSE, sequence)
           w       == WithColumns(f[T][I], pcols, matched)
           g       == [f EXCEPT ![T] = [@ EXCEPT ![I] = w]]
           h       == [g EXCEPT ![c] = Append(@, use)]
<1>1. GraphInv /\ BackwardInv /\ SourceInv
  BY DEF StageInv
<1>2. /\ source \in equiv_class_bf_source /\ SourceOk(f, source)
      /\ source.class = ClassOf(ParentCols(p, c)[1])
  BY <1>1 DEF SourcesFor, SourceInv
<1>3. /\ T \in Tables /\ source.columns \in Seq(Tables \X Columns) /\ source.columns # << >>
      /\ I \in DOMAIN f[T] /\ f[T][I].is_create
      /\ ToSet(source.columns) \subseteq ToSet(f[T][I].build_columns)
  BY <1>2 DEF SourceOk
<1>4. /\ f \in [Tables -> Seq(FilterOp)] /\ \A t \in Tables : ProbesThenCreates(t, f[t])
      /\ f[T] \in Seq(FilterOp) /\ f[T][I] \in FilterOp
  BY <1>1, <1>3 DEF BackwardInv
<1>5. backward_filter_ops' = h /\ sequence' = sequence + 1 /\ UNCHANGED equiv_class_bf_source
  <2>1. [f EXCEPT ![T][I].probe_columns = @ \o pcols, ![T][I].build_columns = @ \o matched] = g
    BY <1>3, <1>4 DEF WithColumns
  <2> HIDE DEF g
  <2>2. backward_filter_ops' =
            [[f EXCEPT ![T][I].probe_columns = @ \o pcols, ![T][I].build_columns = @ \o matched]
                EXCEPT ![c] = Append(@, use)]
    BY DEF Broadcast
  <2> QED BY <2>1, <2>2 DEF Broadcast
<1> HIDE DEF h
<1>6. /\ Linked(edges, p, c)
      /\ level[T] < level[c]
      /\ \A t \in Tables : \A i \in DOMAIN f[t] : f[t][i].is_create => level[t] < level[c]
      /\ \A i \in DOMAIN f[c] : ~ f[c][i].is_create
      /\ sequence \in Nat /\ sequence + 1 \in Nat
  <2>1. /\ Linked(edges, p, c)
        /\ \A t \in Tables : \A i \in DOMAIN f[t] : f[t][i].is_create => level[t] < level[c]
        /\ \A i \in DOMAIN f[c] : ~ f[c][i].is_create
    BY NextBackwardFacts
  <2>2. level[T] < level[c]
    BY <1>3, <2>1
  <2> QED BY <1>1, <2>1, <2>2 DEF GraphInv
<1>7. /\ pcols \in Seq(Tables \X Columns) /\ 1 \in DOMAIN pcols
      /\ \A x \in ToSet(pcols) : x[1] = c
  BY <1>1, <1>6, EdgeColumns
<1> HIDE DEF pcols
<1>8. matched \in Seq(Tables \X Columns)
  <2>1. size \in Nat \ {0}
    BY <1>3
  <2>2. DOMAIN pcols = 1 .. Len(pcols) /\ Len(pcols) \in Nat
    BY <1>7
  <2>3. \A i \in DOMAIN pcols : source.columns[IF i <= size THEN i ELSE size] \in Tables \X Columns
    BY <1>3, <2>1, <2>2
  <2> HIDE DEF size
  <2> QED BY <2>2, <2>3
<1> HIDE DEF matched
<1>9. /\ w \in FilterOp
      /\ w.is_create = f[T][I].is_create /\ w.build_table = f[T][I].build_table
      /\ w.probe_table = f[T][I].probe_table /\ w.forward = f[T][I].forward
      /\ ToSet(f[T][I].build_columns) \subseteq ToSet(w.build_columns)
      /\ ToSet(w.probe_columns) = ToSet(f[T][I].probe_columns) \cup ToSet(pcols)
  <2> DEFINE old == f[T][I]
  <2>1. old \in FilterOp /\ pcols \in ColumnLists /\ matched \in ColumnLists
    BY <1>4, <1>7, <1>8 DEF ColumnLists
  <2>2. w = WithColumns(old, pcols, matched)
    OBVIOUS
  <2> HIDE DEF old, w
  <2>3. /\ w \in FilterOp
        /\ w.is_create = old.is_create /\ w.build_table = old.build_table
        /\ w.probe_table = old.probe_table /\ w.forward = old.forward
        /\ ToSet(old.build_columns) \subseteq ToSet(w.build_columns)
    BY <2>1, <2>2, Widened
  <2>4. ToSet(WithColumns(old, pcols, matched).probe_columns)
            = ToSet(old.probe_columns) \cup ToSet(pcols)
    BY <2>1, Widened
  <2> QED BY <2>2, <2>3, <2>4 DEF old
<1> HIDE DEF w
<1>10. /\ use \in FilterOp /\ ~ use.is_create /\ use.build_table = T /\ use.probe_table = c
       /\ use.build_columns = source.columns /\ use.probe_columns = pcols /\ ~ use.forward
  BY <1>3, <1>6, <1>7 DEF CreateOp, ProbeOp, FilterOp
<1> HIDE DEF use
<1>11. /\ g \in [Tables -> Seq(FilterOp)]
       /\ \A t \in Tables : DOMAIN g[t] = DOMAIN f[t]
       /\ \A t \in Tables : \A i \in DOMAIN f[t] :
            g[t][i] = IF t = T /\ i = I THEN w ELSE f[t][i]
  <2>1. [f[T] EXCEPT ![I] = w] \in Seq(FilterOp)
    BY <1>3, <1>4, <1>9
  <2> QED BY <1>3, <1>4, <2>1
<1> HIDE DEF g
<1>12. ASSUME NEW t \in Tables
       PROVE  ProbesThenCreates(t, g[t])
  <2>1. ProbesThenCreates(t, f[t])
    BY <1>4
  <2>2. \A i \in DOMAIN g[t] : g[t][i].is_create = f[t][i].is_create
                                /\ g[t][i].build_table = f[t][i].build_table
    BY <1>9, <1>11
  <2> QED BY <1>11, <2>1, <2>2 DEF ProbesThenCreates
<1>13. /\ h \in [Tables -> Seq(FilterOp)]
       /\ h[c] = Append(g[c], use)
       /\ \A t \in Tables : t # c => h[t] = g[t]
       /\ \A t \in Tables : \A i \in DOMAIN g[t] : i \in DOMAIN h[t] /\ h[t][i] = g[t][i]
       /\ Len(g[c]) + 1 \in DOMAIN h[c] /\ h[c][Len(g[c]) + 1] = use
       /\ \A t \in Tables : \A i \in DOMAIN h[t] :
            \/ i \in DOMAIN g[t] /\ h[t][i] = g[t][i]
            \/ t = c /\ h[t][i] = use
  BY <1>10, <1>11, AppendOne DEF h
<1>14. \A t \in Tables : ProbesThenCreates(t, h[t])
  <2>1. \A i \in DOMAIN g[c] : ~ g[c][i].is_create
    BY <1>6, <1>9, <1>11
  <2>2. ProbesThenCreates(c, g[c])
    BY <1>12
  <2>3. ProbesThenCreates(c, Append(g[c], use))
    BY <1>10, <2>1, <2>2, AppendKeepsOrder
  <2> QED BY <1>12, <1>13, <2>3
<1>15. Grown(f, h)
  <2>1. ASSUME NEW t \in Tables, NEW i \in DOMAIN f[t]
        PROVE  i \in DOMAIN h[t] /\ Wider(h[t][i], f[t][i])
    <3>1. i \in DOMAIN h[t] /\ h[t][i] = g[t][i]
      BY <1>11, <1>13
    <3>2. CASE t = T /\ i = I
      BY <1>3, <1>9, <1>11, <3>1, <3>2 DEF Wider
    <3>3. CASE ~ (t = T /\ i = I)
      BY <1>11, <3>1, <3>3 DEF Wider
    <3> QED BY <3>2, <3>3
  <2> QED BY <2>1 DEF Grown
<1>16. I \in DOMAIN h[T] /\ h[T][I] = w
  BY <1>3, <1>11, <1>13
<1>17. BackwardOp(level, h, T, w) /\ \A e \in todo : level[T] < level[e[2]]
  <2>1. /\ BackwardOp(level, f, T, f[T][I])
        /\ f[T][I].is_create => \A e \in todo : level[T] < level[e[2]]
    BY <1>1, <1>3 DEF BackwardInv
  <2>2. \A x \in ToSet(w.probe_columns) : level[T] < level[x[1]]
    BY <1>3, <1>6, <1>7, <1>9, <2>1 DEF BackwardOp
  <2> QED BY <1>3, <1>9, <2>1, <2>2 DEF BackwardOp
<1>18. BackwardOp(level, h, c, use)
  <2>1. pcols[1] \in ToSet(pcols)
    BY <1>7 DEF ToSet
  <2>2. Supplies(w, use)
    BY <1>3, <1>7, <1>9, <1>10, <2>1 DEF Supplies
  <2> QED BY <1>6, <1>10, <1>16, <2>2 DEF BackwardOp
<1>19. \A t \in Tables : \A i \in DOMAIN h[t] :
        \/ i \in DOMAIN f[t] /\ h[t][i] = f[t][i]
        \/ /\ BackwardOp(level, h, t, h[t][i])
           /\ h[t][i].is_create => \A e \in todo : level[t] < level[e[2]]
  <2> TAKE t \in Tables
  <2> TAKE i \in DOMAIN h[t]
  <2>1. CASE t = c /\ h[t][i] = use
    BY <1>10, <1>18, <2>1
  <2>2. CASE i \in DOMAIN g[t] /\ h[t][i] = g[t][i]
    <3>1. i \in DOMAIN f[t] /\ h[t][i] = IF t = T /\ i = I THEN w ELSE f[t][i]
      BY <1>11, <2>2
    <3> QED BY <1>17, <3>1
  <2> QED BY <1>13, <2>1, <2>2
<1>20. BackwardReduced(h, classes, <<p, c>>, ParentCols(p, c)[1])
  <2>1. ClassIn(classes, source.columns[1]) = ClassIn(classes, ParentCols(p, c)[1])
    <3>1. /\ ClassOf(source.columns[1]) = ClassIn(classes, source.columns[1])
          /\ ClassOf(ParentCols(p, c)[1]) = ClassIn(classes, ParentCols(p, c)[1])
      BY DEF ClassOf, ClassIn
    <3>2. source.class = ClassOf(source.columns[1])
      BY <1>2 DEF SourceOk
    <3> QED BY <1>2, <3>1, <3>2
  <2>2. PICK k \in DOMAIN h[c] : h[c][k] = use
    BY <1>13
  <2> QED BY <1>10, <2>1, <2>2 DEF BackwardReduced
<1>21. \A s \in equiv_class_bf_source' : s \in equiv_class_bf_source \/ SourceOk(h, s)
  BY <1>5
<1>22. NewProbes(f, h, T, source.columns, c, pcols)
  <2> SUFFICES ASSUME NEW t \in Tables, NEW i \in DOMAIN h[t], ~ h[t][i].is_create
               PROVE  \/ i \in DOMAIN f[t] /\ h[t][i] = f[t][i]
                      \/ /\ t = c /\ h[t][i].build_table = T
                         /\ h[t][i].build_columns = source.columns /\ h[t][i].probe_columns = pcols
    BY DEF NewProbes
  <2>1. CASE t = c /\ h[t][i] = use
    BY <1>10, <2>1
  <2>2. CASE i \in DOMAIN g[t] /\ h[t][i] = g[t][i]
    <3>1. i \in DOMAIN f[t] /\ h[t][i] = IF t = T /\ i = I THEN w ELSE f[t][i]
      BY <1>11, <2>2
    <3>2. ~ (t = T /\ i = I)
      BY <1>3, <1>9, <3>1
    <3> QED BY <3>1, <3>2
  <2> QED BY <1>13, <2>1, <2>2
<1> HIDE DEF f
<1>23. StageInv'
  BY <1>5, <1>6, <1>13, <1>14, <1>15, <1>19, <1>20, <1>21, BackwardStep DEF f
<1> QED BY <1>5, <1>22, <1>23 DEF f, pcols

-----------------------------------------------------------------------------
\* The children the passes take next.

\* Among some tables there is, for any ranking by numbers, one of least rank and
\* of those the first.
LEMMA FirstOfLeast ==
    ASSUME NEW C, C \subseteq Tables, C # {}, NEW rank, \A c \in C : rank[c] \in Nat
    PROVE  \E c \in C : \A o \in C : rank[c] < rank[o] \/ (rank[c] = rank[o] /\ c <= o)
<1> DEFINE Ranks == {rank[c] : c \in C}
<1>1. Ranks \subseteq Nat /\ Ranks # {}
  OBVIOUS
<1> HIDE DEF Ranks
<1>2. PICK r \in Ranks : \A m \in Ranks : r <= m
  BY <1>1, LeastNat
<1> DEFINE First == {c \in C : rank[c] = r}
<1>3. First \subseteq Nat /\ First # {}
  <2>1. \A c \in C : c \in Nat
    BY NumTablesAssumption DEF Tables
  <2>2. PICK c \in C : rank[c] = r
    BY <1>2 DEF Ranks
  <2> QED BY <2>1, <2>2
<1> HIDE DEF First
<1>4. PICK c \in First : \A m \in First : c <= m
  BY <1>3, LeastNat
<1>5. c \in C /\ rank[c] = r
  BY DEF First
<1>6. \A o \in C : rank[o] \in Nat /\ r \in Nat /\ r <= rank[o] /\ (rank[o] = r => c <= o)
  BY <1>1, <1>2, <1>4 DEF Ranks, First
<1>7. \A o \in C : rank[c] < rank[o] \/ (rank[c] = rank[o] /\ c <= o)
  BY <1>5, <1>6
<1> QED BY <1>5, <1>7

LEMMA NextChildren ==
    ASSUME StageInv, todo # {}
    PROVE  /\ DeepestChild \in Tables /\ \A o \in todo : level[o[2]] <= level[DeepestChild]
           /\ HighestChild \in Tables /\ \A o \in todo : level[HighestChild] <= level[o[2]]
<1>1. /\ todo \subseteq Tables \X Tables
      /\ \A t \in Tables : level[t] \in -1 .. NumTables
  BY DEF StageInv, GraphInv, LevelledEdges
<1>2. ChildrenTodo \subseteq Tables /\ ChildrenTodo # {} /\ \A o \in todo : o[2] \in ChildrenTodo
  BY <1>1 DEF ChildrenTodo
<1> HIDE DEF ChildrenTodo
<1>3. \E c \in ChildrenTodo : \A o \in ChildrenTodo :
        level[c] > level[o] \/ (level[c] = level[o] /\ c <= o)
  <2> DEFINE rank == [t \in Tables |-> NumTables - level[t]]
  <2>1. \A t \in Tables : rank[t] \in Nat
    BY <1>1, NumTablesAssumption
  <2>2. \A t, o \in Tables : /\ rank[t] < rank[o] => level[t] > level[o]
                             /\ rank[t] = rank[o] => level[t] = level[o]
    BY <1>1, NumTablesAssumption
  <2> HIDE DEF rank
  <2>3. PICK c \in ChildrenTodo : \A o \in ChildrenTodo :
            rank[c] < rank[o] \/ (rank[c] = rank[o] /\ c <= o)
    BY <1>2, <2>1, FirstOfLeast
  <2> QED BY <1>2, <2>2, <2>3
<1>4. \E c \in ChildrenTodo : \A o \in ChildrenTodo :
        level[c] < level[o] \/ (level[c] = level[o] /\ c <= o)
  <2> DEFINE rank == [t \in Tables |-> level[t] + 1]
  <2>1. \A t \in Tables : rank[t] \in Nat
    BY <1>1, NumTablesAssumption
  <2>2. \A t, o \in Tables : /\ rank[t] < rank[o] => level[t] < level[o]
                             /\ rank[t] = rank[o] => level[t] = level[o]
    BY <1>1, NumTablesAssumption
  <2> HIDE DEF rank
  <2>3. PICK c \in ChildrenTodo : \A o \in ChildrenTodo :
            rank[c] < rank[o] \/ (rank[c] = rank[o] /\ c <= o)
    BY <1>2, <2>1, FirstOfLeast
  <2> QED BY <1>2, <2>2, <2>3
<1>5. /\ DeepestChild \in ChildrenTodo
      /\ \A o \in ChildrenTodo :
            level[DeepestChild] > level[o] \/ (level[DeepestChild] = level[o] /\ DeepestChild <= o)
  BY <1>3 DEF DeepestChild
<1>6. /\ HighestChild \in ChildrenTodo
      /\ \A o \in ChildrenTodo :
            level[HighestChild] < level[o] \/ (level[HighestChild] = level[o] /\ HighestChild <= o)
  BY <1>4 DEF HighestChild
<1>7. \A t \in Tables : level[t] \in Int
  BY <1>1, NumTablesAssumption
<1>8. \A o \in todo : level[o[2]] <= level[DeepestChild]
  BY <1>2, <1>5, <1>7
<1>9. \A o \in todo : level[HighestChild] <= level[o[2]]
  BY <1>2, <1>6, <1>7
<1> QED BY <1>2, <1>5, <1>6, <1>8, <1>9

-----------------------------------------------------------------------------
\* The invariant of the generation.

\* The depth a table has in the rooted tree.
LEMMA DepthIs ==
    ASSUME NEW t \in Tables
    PROVE  Depth(t) \in -1 .. NumTables
<1> DEFINE N == Near
           Met == {k \in Nat : k <= NumTables /\ t \in N[k]}
<1>1. CASE t \in N[NumTables]
  <2>1. NumTables \in Met
    BY <1>1, NumTablesAssumption
  <2>2. Met \subseteq Nat
    OBVIOUS
  <2>3. PICK k \in Met : \A m \in Met : k <= m
    <3> HIDE DEF Met
    <3> QED BY <2>1, <2>2, LeastNat
  <2>4. k \in 0 .. NumTables /\ t \in N[k]
    BY NumTablesAssumption
  <2>5. k = 0 \/ t \notin N[k - 1]
    <3> SUFFICES ASSUME k # 0, t \in N[k - 1]
                 PROVE  FALSE
      OBVIOUS
    <3>1. k - 1 \in Nat /\ k - 1 <= NumTables /\ ~ (k <= k - 1)
      BY <2>4, NumTablesAssumption
    <3> QED BY <2>3, <3>1
  <2> HIDE DEF N
  <2>6. \E j \in 0 .. NumTables : t \in N[j] /\ (j = 0 \/ t \notin N[j - 1])
    BY <2>4, <2>5
  <2>7. Depth(t) \in 0 .. NumTables
    BY <1>1, <2>6 DEF Depth, N
  <2> QED BY <2>7, NumTablesAssumption
<1>2. CASE t \notin N[NumTables]
  BY <1>2, NumTablesAssumption DEF Depth
<1> QED BY <1>1, <1>2

\* No operation has been made yet.
NoOps == [t \in Tables |-> << >>]

Starts ==
    /\ GraphInv
    /\ stage \in {"tree", "forward"}
    /\ todo = LevelledEdges(edges, level)
    /\ forward_filter_ops = NoOps
    /\ backward_filter_ops = NoOps
    /\ equiv_class_bf_source = {}

LEMMA StageInvStarts == Starts => StageInv
<1> SUFFICES ASSUME Starts PROVE StageInv
  OBVIOUS
<1> USE DEF Starts
<1>1. << >> \in Seq(FilterOp) /\ DOMAIN << >> = {}
  OBVIOUS
<1>2. \A t \in Tables : ProbesThenCreates(t, << >>)
  BY <1>1 DEF ProbesThenCreates
<1>3. ForwardInv
  BY <1>1, <1>2 DEF ForwardInv, NoOps
<1>4. BackwardInv
  BY <1>1, <1>2 DEF BackwardInv, NoOps
<1>5. SourceInv
  BY DEF SourceInv
<1>6. ReducedInv
  BY DEF ReducedInv
<1> QED BY <1>3, <1>4, <1>5, <1>6 DEF StageInv

\* The passes start from the levels of a graph, whatever the graph.
JustLevelled ==
    /\ edges \in Graph
    /\ level = [n \in Tables |-> Level(edges, n)]
    /\ todo = LevelledEdges(edges, level)
    /\ stage = "forward" /\ sequence = 0
    /\ forward_filter_ops = NoOps /\ backward_filter_ops = NoOps
    /\ equiv_class_bf_source = {}

LEMMA JustLevelledStageInv ==
    JustLevelled => StageInv /\ level \in [Tables -> -1 .. NumTables - 1]
<1> SUFFICES ASSUME JustLevelled
             PROVE  StageInv /\ level \in [Tables -> -1 .. NumTables - 1]
  OBVIOUS
<1>1. \A n \in Tables : level[n] = Level(edges, n) /\ level[n] \in -1 .. NumTables - 1
  BY LevelIs, NumTablesAssumption DEF JustLevelled
<1>2. ASSUME NEW e \in LevelledEdges(edges, level)
      PROVE  level[e[1]] < level[e[2]]
  <2>1. /\ e[1] \in Tables /\ e[2] \in Tables /\ Linked(edges, e[1], e[2])
        /\ level[e[2]] >= 1
    BY DEF LevelledEdges
  <2>2. Level(edges, e[2]) >= 0
    BY <1>1, <2>1, NumTablesAssumption
  <2>3. Level(edges, e[1]) < Level(edges, e[2])
    BY <2>1, <2>2, LevelsGrow
  <2> QED BY <1>1, <2>1, <2>3
<1>3. level \in [Tables -> -1 .. NumTables - 1]
  BY <1>1 DEF JustLevelled
<1>4. level \in [Tables -> -1 .. NumTables]
  BY <1>3, NumTablesAssumption
<1>5. GraphInv
  BY <1>2, <1>4 DEF GraphInv, JustLevelled
<1> QED BY <1>3, <1>5, StageInvStarts DEF Starts, JustLevelled

LEMMA HInitStageInv == HInit => StageInv
<1> SUFFICES ASSUME HInit PROVE StageInv
  OBVIOUS
<1>1. CASE heuristic = "join_order" /\ PInit
  <2>1. PICK in \in Inputs : /\ edges = in.edges
                             /\ level = [n \in Tables |-> Level(in.edges, n)]
                             /\ todo = LevelledEdges(in.edges, level)
    BY <1>1 DEF PInit, Init
  <2>2. edges \in Graph
    BY <2>1, InputsAssumption
  <2>3. JustLevelled
    BY <1>1, <2>1, <2>2 DEF JustLevelled, PInit, Init, NoOps
  <2> QED BY <2>3, JustLevelledStageInv
<1>2. CASE /\ heuristic = "largest_root"
           /\ \E in \in JoinEdges : edges = in.edges /\ classes = in.classes
           /\ level = [t \in Tables |-> -1] /\ todo = {}
           /\ forward_filter_ops = NoOps /\ backward_filter_ops = NoOps
           /\ equiv_class_bf_source = {} /\ sequence = 0 /\ stage = "tree"
  <2>1. LevelledEdges(edges, level) = {}
    BY <1>2 DEF LevelledEdges
  <2>2. edges \in Graph
    BY <1>2, JoinEdgesAssumption
  <2>3. level \in [Tables -> -1 .. NumTables]
    BY <1>2, NumTablesAssumption
  <2>4. GraphInv
    BY <1>2, <2>1, <2>2, <2>3 DEF GraphInv
  <2> QED BY <1>2, <2>1, <2>4, StageInvStarts DEF Starts
<1> QED BY <1>1, <1>2 DEF HInit, NoOps

LEMMA StageInvKept ==
    ASSUME StageInv, UNCHANGED vars
    PROVE  StageInv'
<1> USE DEF vars
<1>1. GraphInv'
  BY DEF StageInv, GraphInv
<1>2. ForwardInv'
  BY DEF StageInv, ForwardInv
<1>3. BackwardInv'
  BY DEF StageInv, BackwardInv
<1>4. SourceInv'
  BY DEF StageInv, SourceInv, SourceOk, ClassOf
<1>5. ReducedInv'
  <2>1. \A e : ParentCols(e[1], e[2])' = ParentCols(e[1], e[2])
    BY DEF ParentCols
  <2> QED BY <2>1 DEF StageInv, ReducedInv
<1> QED BY <1>1, <1>2, <1>3, <1>4, <1>5 DEF StageInv

LEMMA BuildRootedTreeStep ==
    ASSUME StageInv, BuildRootedTree
    PROVE  StageInv'
<1>1. /\ stage = "tree" /\ stage' = "forward"
      /\ edges' = [e \in Tables \X Tables |->
                    IF card[root] > 0 /\ ParentOf(e[1], e[2]) THEN ColumnsOf(e[1], e[2])
                    ELSE << >>]
      /\ level' = [t \in Tables |-> Depth(t)]
      /\ todo' = LevelledEdges(edges', level')
      /\ UNCHANGED <<forward_filter_ops, backward_filter_ops, equiv_class_bf_source, sequence>>
  BY DEF BuildRootedTree
<1>2. edges' \in Graph
  <2>1. ASSUME NEW a \in Tables, NEW b \in Tables
        PROVE  ColumnsOf(a, b) \in Seq(ColPair)
    <3>1. edges[a, b] \in Seq(ColPair) /\ edges[b, a] \in Seq(ColPair)
      BY DEF StageInv, GraphInv, Graph
    <3>2. SwapSides(edges[b, a]) \in Seq(ColPair)
      BY <3>1, SwapSidesFacts
    <3> QED BY <3>1, <3>2 DEF ColumnsOf
  <2>2. << >> \in Seq(ColPair)
    OBVIOUS
  <2> QED BY <1>1, <2>1, <2>2 DEF Graph
<1>3. level' \in [Tables -> -1 .. NumTables]
  BY <1>1, DepthIs
<1>4. ASSUME NEW e \in LevelledEdges(edges', level')
      PROVE  level'[e[1]] < level'[e[2]]
  <2>1. e \in Tables \X Tables /\ edges'[e[1], e[2]] # << >>
    BY DEF LevelledEdges, Linked
  <2>2. PICK p \in Tables, c \in Tables : e = <<p, c>>
    <3>1. e \in Tables \X Tables
      BY <2>1
    <3> QED BY ONLY <3>1
  <2>3. edges'[p, c] = IF card[root] > 0 /\ ParentOf(p, c) THEN ColumnsOf(p, c) ELSE << >>
    BY <1>1
  <2>4. ParentOf(p, c)
    BY <2>1, <2>2, <2>3
  <2> QED BY <1>1, <2>2, <2>4 DEF ParentOf
<1>5. GraphInv'
  BY <1>1, <1>2, <1>3, <1>4 DEF StageInv, GraphInv
<1>6. /\ forward_filter_ops' = NoOps /\ backward_filter_ops' = NoOps
      /\ equiv_class_bf_source' = {}
  BY <1>1 DEF StageInv, ForwardInv, BackwardInv, SourceInv, NoOps
<1>7. stage' \in {"tree", "forward"} /\ todo' = LevelledEdges(edges', level')
  BY <1>1
<1>8. Starts'
  BY <1>5, <1>6, <1>7 DEF Starts
<1> QED BY <1>8, StageInvStarts, PTL

\* A step of the generator, with either heuristic.
LEMMA GenerateStep ==
    ASSUME StageInv,
           \/ Next
           \/ ForwardTreeEdge \/ EndForward \/ BackwardTreeEdge \/ EndBackward
    PROVE  StageInv'
<1>1. GraphInv /\ ForwardInv /\ BackwardInv /\ SourceInv /\ ReducedInv
  BY DEF StageInv
<1>2. todo \subseteq Tables \X Tables
  BY <1>1 DEF GraphInv, LevelledEdges
<1>3. CASE ForwardEdge
  <2>1. stage = "forward" /\ todo # {}
    BY <1>3 DEF ForwardEdge
  <2>2. PICK p \in Tables : <<p, DeepestChild>> \in todo /\ AddForward(p, DeepestChild)
    BY <1>3 DEF ForwardEdge
  <2>3. DeepestChild \in Tables /\ \A o \in todo : level[o[2]] <= level[DeepestChild]
    BY <2>1, NextChildren
  <2> HIDE DEF DeepestChild
  <2> QED BY <2>1, <2>2, <2>3, AddForwardStep
<1>4. CASE ForwardTreeEdge
  <2>1. stage = "forward"
    BY <1>4 DEF ForwardTreeEdge
  <2>2. PICK e \in todo : (\A o \in todo : level[o[2]] <= level[e[2]]) /\ AddForward(e[1], e[2])
    BY <1>4 DEF ForwardTreeEdge
  <2>3. e[1] \in Tables /\ e[2] \in Tables /\ <<e[1], e[2]>> \in todo
    BY <1>2
  <2> QED BY <2>1, <2>2, <2>3, AddForwardStep
<1>5. CASE EndForward
  <2>1. /\ stage = "forward" /\ stage' = "backward" /\ todo = {}
        /\ todo' = LevelledEdges(edges, level)
        /\ UNCHANGED <<edges, classes, level, forward_filter_ops, backward_filter_ops,
                       equiv_class_bf_source, sequence>>
    BY <1>5 DEF EndForward
  <2>2. GraphInv'
    BY <1>1, <2>1 DEF GraphInv
  <2>3. ForwardInv'
    BY <1>1, <2>1 DEF ForwardInv
  <2>4. BackwardInv'
    BY <1>1, <2>1 DEF BackwardInv
  <2>5. SourceInv'
    BY <1>1, <2>1 DEF SourceInv
  <2>6. ReducedInv'
    BY <1>1, <2>1 DEF ReducedInv
  <2> QED BY <2>2, <2>3, <2>4, <2>5, <2>6 DEF StageInv
<1>6. CASE BackwardEdge
  <2>1. /\ stage = "backward"
        /\ UNCHANGED <<edges, classes, level, forward_filter_ops, stage>>
    BY <1>6 DEF BackwardEdge
  <2>2. PICK e \in todo : /\ NextBackward(e)
                          /\ IF SourcesFor(e) = {} THEN NewSource(e)
                             ELSE \E source \in SourcesFor(e) : Broadcast(e, source)
                          /\ todo' = todo \ {e}
    BY <1>6 DEF BackwardEdge
  <2>3. PICK p \in Tables, c \in Tables : e = <<p, c>>
    <3>1. e \in Tables \X Tables
      BY <1>2
    <3> QED BY ONLY <3>1
  <2>4. <<p, c>> \in todo /\ e[1] = p /\ e[2] = c /\ todo' = todo \ {<<p, c>>}
    BY <2>2, <2>3
  <2>5. \A o \in todo : level[c] <= level[o[2]]
    <3>1. todo # {} /\ c = HighestChild
      BY <2>2, <2>4 DEF NextBackward
    <3> QED BY <3>1, NextChildren
  <2>6. CASE SourcesFor(e) = {}
    <3>1. NewSource(e)
      BY <2>2, <2>6
    <3>2. /\ AddBackward(p, c)
          /\ equiv_class_bf_source' = equiv_class_bf_source \cup
                {[class |-> ClassOf(ParentCols(p, c)[1]), table |-> p,
                  columns |-> ParentCols(p, c), index |-> Len(backward_filter_ops[p]) + 1]}
      BY <2>4, <3>1 DEF NewSource
    <3> QED BY <2>1, <2>4, <2>5, <3>2, AddBackwardStep
  <2>7. CASE SourcesFor(e) # {}
    <3>1. PICK source \in SourcesFor(<<p, c>>) : Broadcast(<<p, c>>, source)
      BY <2>2, <2>3, <2>7
    <3> QED BY <2>1, <2>4, <2>5, <3>1, BroadcastStep
  <2> QED BY <2>6, <2>7
<1>7. CASE BackwardTreeEdge
  <2>1. /\ stage = "backward"
        /\ UNCHANGED <<edges, classes, level, forward_filter_ops, equiv_class_bf_source, stage>>
    BY <1>7 DEF BackwardTreeEdge
  <2>2. PICK e \in todo : /\ \A o \in todo : level[e[2]] <= level[o[2]]
                          /\ AddBackward(e[1], e[2])
                          /\ todo' = todo \ {e}
    BY <1>7 DEF BackwardTreeEdge
  <2>3. e[1] \in Tables /\ e[2] \in Tables /\ e = <<e[1], e[2]>>
    BY <1>2
  <2> QED BY <2>1, <2>2, <2>3, AddBackwardStep
<1>8. CASE EndBackward
  <2>1. /\ stage = "backward" /\ stage' = "done" /\ todo = {}
        /\ UNCHANGED <<edges, classes, level, todo, forward_filter_ops, backward_filter_ops,
                       equiv_class_bf_source, sequence>>
    BY <1>8 DEF EndBackward
  <2>2. GraphInv'
    BY <1>1, <2>1 DEF GraphInv
  <2>3. ForwardInv'
    BY <1>1, <2>1 DEF ForwardInv
  <2>4. BackwardInv'
    BY <1>1, <2>1 DEF BackwardInv
  <2>5. SourceInv'
    BY <1>1, <2>1 DEF SourceInv, SourceOk, ClassOf
  <2>6. ReducedInv'
    <3>1. \A e : ParentCols(e[1], e[2])' = ParentCols(e[1], e[2])
      BY <2>1 DEF ParentCols
    <3> QED BY <1>1, <2>1, <3>1 DEF ReducedInv
  <2> QED BY <2>2, <2>3, <2>4, <2>5, <2>6 DEF StageInv
<1> QED BY <1>3, <1>4, <1>5, <1>6, <1>7, <1>8 DEF Next

LEMMA StageInvStep == StageInv /\ [HNext]_hvars => StageInv'
<1> SUFFICES ASSUME StageInv, [HNext]_hvars PROVE StageInv'
  OBVIOUS
<1>1. CASE Generate
  BY <1>1, GenerateStep DEF Generate
<1>2. CASE GenerateStageModifications
  BY <1>2, GenerateStep DEF GenerateStageModifications
<1>3. CASE BuildRootedTree
  BY <1>3, BuildRootedTreeStep
<1>4. CASE GrowTree
  BY <1>4, StageInvKept DEF GrowTree, allvars
<1>5. CASE PlaceOperators
  BY <1>5, StageInvKept DEF PlaceOperators, ApplyStageModifications,
     LinkProbeFilterToCreateFilter, SetupDynamicFilterPushdown
<1>6. CASE UNCHANGED hvars
  BY <1>6, StageInvKept DEF hvars, allvars
<1> QED BY <1>1, <1>2, <1>3, <1>4, <1>5, <1>6 DEF HNext

\* The invariant of the generation holds with either heuristic, from the first
\* operation of the forward pass to the last one of the backward pass.
THEOREM StageInvariant == HSpec => []StageInv
<1>1. HInit => StageInv
  BY HInitStageInv
<1>2. StageInv /\ [HNext]_hvars => StageInv'
  BY StageInvStep
<1> QED BY <1>1, <1>2, PTL DEF HSpec

\* In both passes and with either heuristic a table probes all filters that are
\* meant for it before it builds one (robust_optimizer.cpp:1041-1069, 1085-1160).
THEOREM ProbesComeFirst == HSpec => []ProbesBeforeCreates
<1>1. StageInv => ProbesBeforeCreates
  <2> SUFFICES ASSUME StageInv PROVE ProbesBeforeCreates
    OBVIOUS
  <2>1. \A t \in Tables : /\ ProbesThenCreates(t, forward_filter_ops[t])
                          /\ ProbesThenCreates(t, backward_filter_ops[t])
    BY DEF StageInv, ForwardInv, BackwardInv
  <2> QED BY <2>1 DEF ProbesBeforeCreates, ProbesThenCreates
<1> QED BY <1>1, StageInvariant, PTL

\* When the passes are done every edge of the graph has reduced both its tables,
\* whether the child's filter is its parent's own or a broadcast one.
THEOREM AllEdgesReduce == HSpec => []EdgesReduceBothSides
<1>1. StageInv => EdgesReduceBothSides
  <2> SUFFICES ASSUME StageInv, stage = "done", NEW e \in LevelledEdges(edges, level)
               PROVE  /\ \E i \in DOMAIN forward_filter_ops[e[1]] :
                            LET op == forward_filter_ops[e[1]][i] IN
                                ~ op.is_create /\ op.build_table = e[2]
                      /\ \E i \in DOMAIN backward_filter_ops[e[2]] :
                            LET op == backward_filter_ops[e[2]][i] IN
                                /\ ~ op.is_create
                                /\ Equated(op.build_columns[1], ParentCols(e[1], e[2])[1])
    BY DEF EdgesReduceBothSides
  <2>1. /\ ForwardReduced(forward_filter_ops, e)
        /\ BackwardReduced(backward_filter_ops, classes, e, ParentCols(e[1], e[2])[1])
    BY DEF StageInv, ReducedInv
  <2>2. PICK i \in DOMAIN backward_filter_ops[e[2]] :
            /\ ~ backward_filter_ops[e[2]][i].is_create
            /\ ClassIn(classes, backward_filter_ops[e[2]][i].build_columns[1])
                    = ClassIn(classes, ParentCols(e[1], e[2])[1])
    BY <2>1 DEF BackwardReduced
  <2>3. Equated(backward_filter_ops[e[2]][i].build_columns[1], ParentCols(e[1], e[2])[1])
    BY <2>2 DEF Equated, ClassOf, ClassIn
  <2> QED BY <2>1, <2>2, <2>3 DEF ForwardReduced
<1> QED BY <1>1, StageInvariant, PTL

\* Forward filters go up the levels and backward filters, broadcasts included, go
\* down: within a pass no two tables wait for each other.
THEOREM FiltersFollow == HSpec => []FiltersFollowLevels
<1>1. StageInv => FiltersFollowLevels
  <2> SUFFICES ASSUME StageInv PROVE FiltersFollowLevels
    OBVIOUS
  <2>1. ASSUME NEW op \in OpsOf(forward_filter_ops)
        PROVE  level[op.probe_table] < level[op.build_table]
    <3>1. PICK t \in Tables : \E i \in DOMAIN forward_filter_ops[t] : op = forward_filter_ops[t][i]
      BY DEF OpsOf, ToSet
    <3>2. /\ ForwardOp(level, forward_filter_ops, t, op)
          /\ ProbesThenCreates(t, forward_filter_ops[t])
      BY <3>1 DEF StageInv, ForwardInv
    <3>3. op.is_create => op.build_table = t
      BY <3>1, <3>2 DEF ProbesThenCreates
    <3> QED BY <3>2, <3>3 DEF ForwardOp
  <2>2. ASSUME NEW op \in OpsOf(backward_filter_ops), ~ op.is_create
        PROVE  level[op.build_table] < level[op.probe_table]
    <3>1. PICK t \in Tables : \E i \in DOMAIN backward_filter_ops[t] : op = backward_filter_ops[t][i]
      BY DEF OpsOf, ToSet
    <3>2. BackwardOp(level, backward_filter_ops, t, op)
      BY <3>1 DEF StageInv, BackwardInv
    <3> QED BY <2>2, <3>2 DEF BackwardOp
  <2> QED BY <2>1, <2>2 DEF FiltersFollowLevels
<1> QED BY <1>1, StageInvariant, PTL

-----------------------------------------------------------------------------
\* Filters of one column.

\* The two columns of every pair of an edge are equal.
EdgesEquated ==
    \A p, c \in Tables : \A i \in DOMAIN edges[p, c] :
        Equated(<<p, edges[p, c][i][1]>>, <<c, edges[p, c][i][2]>>)

\* A PROBE of a filter of one column tests an equal column with it.
Fits(cls, op) ==
    (Len(op.build_columns) = 1 /\ ~ op.is_create) =>
        /\ 1 \in DOMAIN op.probe_columns
        /\ ClassIn(cls, op.build_columns[1]) = ClassIn(cls, op.probe_columns[1])

AllFit(cls, f) == \A t \in Tables : \A i \in DOMAIN f[t] : Fits(cls, f[t][i])

LEMMA NewProbesFit ==
    ASSUME NEW cls, NEW f, NEW h, NEW b, NEW bcols, NEW a, NEW pcols, AllFit(cls, f),
           NewProbes(f, h, b, bcols, a, pcols), 1 \in DOMAIN pcols,
           ClassIn(cls, bcols[1]) = ClassIn(cls, pcols[1])
    PROVE  AllFit(cls, h)
  BY DEF AllFit, NewProbes, Fits

\* The first pair of an edge.
LEMMA FirstPairEquated ==
    ASSUME GraphInv, EdgesEquated, NEW p \in Tables, NEW c \in Tables, Linked(edges, p, c)
    PROVE  /\ 1 \in DOMAIN ParentCols(p, c) /\ 1 \in DOMAIN ChildCols(p, c)
           /\ ClassIn(classes, ParentCols(p, c)[1]) = ClassIn(classes, ChildCols(p, c)[1])
<1>1. 1 \in DOMAIN ParentCols(p, c) /\ 1 \in DOMAIN ChildCols(p, c)
  BY EdgeColumns
<1>2. 1 \in DOMAIN edges[p, c]
  BY <1>1 DEF ParentCols
<1>3. /\ ParentCols(p, c)[1] = <<p, edges[p, c][1][1]>>
      /\ ChildCols(p, c)[1] = <<c, edges[p, c][1][2]>>
  BY <1>2 DEF ParentCols, ChildCols
<1>4. ClassOf(<<p, edges[p, c][1][1]>>) = ClassOf(<<c, edges[p, c][1][2]>>)
  BY <1>2 DEF EdgesEquated, Equated
<1>5. \A key : ClassIn(classes, key) = ClassOf(key)
  BY DEF ClassOf, ClassIn
<1> QED BY <1>1, <1>3, <1>4, <1>5

LEMMA SingleKeyStep ==
    ASSUME StageInv, EdgesEquated, Next,
           AllFit(classes, forward_filter_ops), AllFit(classes, backward_filter_ops)
    PROVE  /\ classes' = classes
           /\ AllFit(classes, forward_filter_ops')
           /\ AllFit(classes, backward_filter_ops')
<1>1. GraphInv /\ todo \subseteq Tables \X Tables
  BY DEF StageInv, GraphInv, LevelledEdges
<1>2. \A p, c \in Tables : <<p, c>> \in todo => Linked(edges, p, c)
  BY <1>1 DEF GraphInv, LevelledEdges
<1>3. CASE ForwardEdge
  <2>1. stage = "forward" /\ todo # {}
    BY <1>3 DEF ForwardEdge
  <2>2. PICK p \in Tables : <<p, DeepestChild>> \in todo /\ AddForward(p, DeepestChild)
    BY <1>3 DEF ForwardEdge
  <2> DEFINE c == DeepestChild
  <2>3. c \in Tables /\ \A o \in todo : level[o[2]] <= level[c]
    BY <2>1, NextChildren
  <2>4. <<p, c>> \in todo /\ AddForward(p, c)
    BY <2>2
  <2> HIDE DEF c
  <2>5. NewProbes(forward_filter_ops, forward_filter_ops',
                  c, ChildCols(p, c), p, ParentCols(p, c))
    BY <2>1, <2>3, <2>4, AddForwardStep
  <2>6. /\ 1 \in DOMAIN ParentCols(p, c)
        /\ ClassIn(classes, ParentCols(p, c)[1]) = ClassIn(classes, ChildCols(p, c)[1])
    BY <1>1, <1>2, <2>3, <2>4, FirstPairEquated
  <2>7. AllFit(classes, forward_filter_ops')
    BY <2>5, <2>6, NewProbesFit
  <2>8. classes' = classes /\ backward_filter_ops' = backward_filter_ops
    BY <2>4 DEF AddForward
  <2> QED BY <2>7, <2>8
<1>4. CASE BackwardEdge
  <2>1. /\ stage = "backward"
        /\ UNCHANGED <<edges, classes, level, forward_filter_ops, stage>>
    BY <1>4 DEF BackwardEdge
  <2>2. PICK e \in todo : /\ NextBackward(e)
                          /\ IF SourcesFor(e) = {} THEN NewSource(e)
                             ELSE \E source \in SourcesFor(e) : Broadcast(e, source)
                          /\ todo' = todo \ {e}
    BY <1>4 DEF BackwardEdge
  <2>3. PICK p \in Tables, c \in Tables : e = <<p, c>>
    <3>1. e \in Tables \X Tables
      BY <1>1
    <3> QED BY ONLY <3>1
  <2>4. <<p, c>> \in todo /\ e[1] = p /\ e[2] = c /\ todo' = todo \ {<<p, c>>}
    BY <2>2, <2>3
  <2>5. \A o \in todo : level[c] <= level[o[2]]
    <3>1. todo # {} /\ c = HighestChild
      BY <2>2, <2>4 DEF NextBackward
    <3> QED BY <3>1, NextChildren
  <2>6. /\ 1 \in DOMAIN ChildCols(p, c)
        /\ ClassIn(classes, ParentCols(p, c)[1]) = ClassIn(classes, ChildCols(p, c)[1])
    BY <1>1, <1>2, <2>4, FirstPairEquated
  <2>7. CASE SourcesFor(e) = {}
    <3>1. NewSource(e)
      BY <2>2, <2>7
    <3>2. /\ AddBackward(p, c)
          /\ equiv_class_bf_source' = equiv_class_bf_source \cup
                {[class |-> ClassOf(ParentCols(p, c)[1]), table |-> p,
                  columns |-> ParentCols(p, c), index |-> Len(backward_filter_ops[p]) + 1]}
      BY <2>4, <3>1 DEF NewSource
    <3>3. NewProbes(backward_filter_ops, backward_filter_ops',
                    p, ParentCols(p, c), c, ChildCols(p, c))
      BY <2>1, <2>4, <2>5, <3>2, AddBackwardStep
    <3>4. AllFit(classes, backward_filter_ops')
      BY <2>6, <3>3, NewProbesFit
    <3> QED BY <2>1, <3>4
  <2>8. CASE SourcesFor(e) # {}
    <3>1. PICK source \in SourcesFor(<<p, c>>) : Broadcast(<<p, c>>, source)
      BY <2>2, <2>3, <2>8
    <3>2. NewProbes(backward_filter_ops, backward_filter_ops',
                    source.table, source.columns, c, ChildCols(p, c))
      BY <2>1, <2>4, <2>5, <3>1, BroadcastStep
    <3>3. /\ source.class = ClassOf(ParentCols(p, c)[1])
          /\ source.class = ClassOf(source.columns[1])
      BY <3>1 DEF SourcesFor, StageInv, SourceInv, SourceOk
    <3>4. ClassIn(classes, source.columns[1]) = ClassIn(classes, ChildCols(p, c)[1])
      BY <2>6, <3>3 DEF ClassOf, ClassIn
    <3>5. AllFit(classes, backward_filter_ops')
      BY <2>6, <3>2, <3>4, NewProbesFit
    <3> QED BY <2>1, <3>5
  <2> QED BY <2>7, <2>8
<1>5. CASE EndForward \/ EndBackward
  BY <1>5 DEF EndForward, EndBackward
<1> QED BY <1>3, <1>4, <1>5 DEF Next

LEMMA SingleKeysEquated ==
    ASSUME AllFit(classes, forward_filter_ops), AllFit(classes, backward_filter_ops),
           ForwardInv, BackwardInv
    PROVE  SingleKeyProbesEquated
<1> SUFFICES ASSUME NEW op \in OpsOf(forward_filter_ops) \cup OpsOf(backward_filter_ops),
                    Len(op.build_columns) = 1, ~ op.is_create
             PROVE  ProbesComparable(op)
  BY DEF SingleKeyProbesEquated
<1>1. PICK f \in {forward_filter_ops, backward_filter_ops} : op \in OpsOf(f)
  OBVIOUS
<1>2. PICK t \in Tables : op \in ToSet(f[t])
  BY <1>1 DEF OpsOf
<1>3. PICK i \in DOMAIN f[t] : op = f[t][i]
  BY <1>2 DEF ToSet
<1>4. f \in [Tables -> Seq(FilterOp)] /\ AllFit(classes, f)
  BY <1>1 DEF ForwardInv, BackwardInv
<1>5. Fits(classes, op)
  BY <1>3, <1>4 DEF AllFit
<1>6. op \in FilterOp
  BY <1>3, <1>4
<1>7. DOMAIN op.build_columns = {1}
  BY <1>6 DEF FilterOp
<1> QED BY <1>5, <1>7 DEF Fits, ProbesComparable, Equated, ClassOf, ClassIn

-----------------------------------------------------------------------------
\* The placement of the operations.

\* An operator above the scan of t, in a plan st: a CREATE is for tables on the
\* far side of t, a PROBE has a CREATE of its own pass to read.
PlacedOp(lev, st, t, op) ==
    /\ op.is_create =>
        /\ op.build_table = t
        /\ op.forward => \A x \in ToSet(op.probe_columns) : lev[x[1]] < lev[t]
        /\ ~ op.forward => \A x \in ToSet(op.probe_columns) : lev[t] < lev[x[1]]
    /\ ~ op.is_create =>
        /\ op.probe_table = t
        /\ op.forward => lev[t] < lev[op.build_table]
        /\ ~ op.forward => lev[op.build_table] < lev[t]
        /\ \E i \in DOMAIN st[op.build_table] :
                /\ st[op.build_table][i].forward = op.forward
                /\ Supplies(st[op.build_table][i], op)

\* The merged operators of one pass.
PassPlaced(lev, m, fw) ==
    /\ m \in [Tables -> Seq(FilterOp)]
    /\ \A t \in Tables : \A i \in DOMAIN m[t] :
        /\ m[t][i].forward = fw
        /\ PlacedOp(lev, m, t, m[t][i])
        /\ \A j \in DOMAIN m[t] : (m[t][i].is_create /\ m[t][j].is_create) => i = j

\* The operators of a table, both passes.
Layered(lev, st) ==
    /\ st \in [Tables -> Seq(FilterOp)]
    /\ \A t \in Tables : \A i \in DOMAIN st[t] :
        /\ PlacedOp(lev, st, t, st[t][i])
        /\ \A j \in DOMAIN st[t] :
            /\ (st[t][i].forward /\ ~ st[t][j].forward) => i < j
            /\ (st[t][i].is_create /\ st[t][j].is_create /\ st[t][i].forward = st[t][j].forward)
                    => i = j

LEMMA ForwardPlaced ==
    ASSUME StageInv
    PROVE  PassPlaced(level, [t \in Tables |-> MergeCreates(forward_filter_ops[t])], TRUE)
<1> DEFINE f == forward_filter_ops
           m == [t \in Tables |-> MergeCreates(f[t])]
<1>1. /\ f \in [Tables -> Seq(FilterOp)]
      /\ \A t \in Tables : ProbesThenCreates(t, f[t])
      /\ \A t \in Tables : \A i \in DOMAIN f[t] : ForwardOp(level, f, t, f[t][i])
      /\ \A t \in Tables : Len(f[t]) \in Nat /\ DOMAIN f[t] = 1 .. Len(f[t])
  BY DEF StageInv, ForwardInv
<1> HIDE DEF f
<1>2. ASSUME NEW t \in Tables
      PROVE  /\ m[t] \in Seq(FilterOp)
             /\ \A i, j \in DOMAIN m[t] : m[t][i].is_create =>
                    StandsFor(m[t][i], f[t], Len(f[t])) /\ j <= i
             /\ \A i \in DOMAIN m[t] : ~ m[t][i].is_create => \E j \in DOMAIN f[t] : m[t][i] = f[t][j]
             /\ \A j \in DOMAIN f[t] : f[t][j].is_create => \E i \in DOMAIN m[t] : m[t][i].is_create
  BY <1>1, MergeCreatesFacts
<1>3. m \in [Tables -> Seq(FilterOp)]
  BY <1>2
<1> HIDE DEF m
<1>4. ASSUME NEW t \in Tables, NEW i \in DOMAIN m[t], m[t][i].is_create
      PROVE  m[t][i].forward /\ PlacedOp(level, m, t, m[t][i])
  <2> DEFINE op == m[t][i]
  <2>1. StandsFor(op, f[t], Len(f[t]))
    BY <1>2, <1>4
  <2> HIDE DEF op
  <2>2. PICK j \in DOMAIN f[t] :
            /\ f[t][j].is_create /\ op.is_create /\ op.build_table = f[t][j].build_table
            /\ op.forward = f[t][j].forward
    BY <1>1, <2>1 DEF StandsFor
  <2>3. op.build_table = t /\ op.forward
    BY <1>1, <2>2 DEF ProbesThenCreates, ForwardOp
  <2>4. ASSUME NEW x \in ToSet(op.probe_columns)
        PROVE  level[x[1]] < level[t]
    <3>1. PICK k \in DOMAIN f[t] : f[t][k].is_create /\ x \in ToSet(f[t][k].probe_columns)
      BY <1>1, <2>1 DEF StandsFor
    <3>2. ForwardOp(level, f, t, f[t][k])
      BY <1>1
    <3> QED BY <3>1, <3>2 DEF ForwardOp
  <2> QED BY <2>2, <2>3, <2>4 DEF PlacedOp, op
<1>5. ASSUME NEW t \in Tables, NEW i \in DOMAIN m[t], ~ m[t][i].is_create
      PROVE  m[t][i].forward /\ PlacedOp(level, m, t, m[t][i])
  <2> DEFINE op == m[t][i]
  <2>1. PICK j \in DOMAIN f[t] : op = f[t][j]
    BY <1>2, <1>5
  <2>2. op \in FilterOp /\ ForwardOp(level, f, t, op) /\ ~ op.is_create
    BY <1>1, <1>5, <2>1
  <2> HIDE DEF op
  <2> DEFINE b == op.build_table
  <2>3. b \in Tables
    BY <2>2 DEF FilterOp
  <2>4. PICK k \in DOMAIN f[b] : Supplies(f[b][k], op)
    BY <2>2 DEF ForwardOp
  <2>5. f[b][k].is_create
    BY <2>4 DEF Supplies
  <2>6. PICK h \in DOMAIN m[b] : m[b][h].is_create
    BY <1>2, <2>3, <2>5
  <2>7. /\ ToSet(f[b][k].build_columns) \subseteq ToSet(m[b][h].build_columns)
        /\ ToSet(f[b][k].probe_columns) \subseteq ToSet(m[b][h].probe_columns)
    <3>1. StandsFor(m[b][h], f[b], Len(f[b]))
      BY <1>2, <2>3, <2>6
    <3> QED BY <1>1, <2>3, <2>5, <3>1 DEF StandsFor
  <2>8. Supplies(m[b][h], op)
    BY <2>4, <2>6, <2>7 DEF Supplies
  <2>9. m[b][h].forward = op.forward
    BY <1>4, <2>2, <2>3, <2>6 DEF ForwardOp, PlacedOp, FilterOp
  <2> QED BY <2>2, <2>8, <2>9 DEF PlacedOp, ForwardOp, op
<1>6. \A t \in Tables : \A i, j \in DOMAIN m[t] : (m[t][i].is_create /\ m[t][j].is_create) => i = j
  <2> TAKE t \in Tables
  <2>1. m[t] \in Seq(FilterOp) /\ \A i, j \in DOMAIN m[t] : m[t][i].is_create => j <= i
    BY <1>2
  <2>2. \A i \in DOMAIN m[t] : i \in Nat
    BY <2>1
  <2> QED BY <2>1, <2>2
<1>7. \A t \in Tables : \A i \in DOMAIN m[t] : m[t][i] \in FilterOp
  BY <1>3
<1>8. \A t \in Tables : \A i \in DOMAIN m[t] : m[t][i].forward = TRUE
  BY <1>4, <1>5, <1>7 DEF FilterOp
<1>9. PassPlaced(level, m, TRUE)
  BY <1>3, <1>4, <1>5, <1>6, <1>8 DEF PassPlaced
<1> QED BY <1>9 DEF m, f

LEMMA BackwardPlaced ==
    ASSUME StageInv
    PROVE  PassPlaced(level, [t \in Tables |-> MergeCreates(backward_filter_ops[t])], FALSE)
<1> DEFINE f == backward_filter_ops
           m == [t \in Tables |-> MergeCreates(f[t])]
<1>1. /\ f \in [Tables -> Seq(FilterOp)]
      /\ \A t \in Tables : ProbesThenCreates(t, f[t])
      /\ \A t \in Tables : \A i \in DOMAIN f[t] : BackwardOp(level, f, t, f[t][i])
      /\ \A t \in Tables : Len(f[t]) \in Nat /\ DOMAIN f[t] = 1 .. Len(f[t])
  BY DEF StageInv, BackwardInv
<1> HIDE DEF f
<1>2. ASSUME NEW t \in Tables
      PROVE  /\ m[t] \in Seq(FilterOp)
             /\ \A i, j \in DOMAIN m[t] : m[t][i].is_create =>
                    StandsFor(m[t][i], f[t], Len(f[t])) /\ j <= i
             /\ \A i \in DOMAIN m[t] : ~ m[t][i].is_create => \E j \in DOMAIN f[t] : m[t][i] = f[t][j]
             /\ \A j \in DOMAIN f[t] : f[t][j].is_create => \E i \in DOMAIN m[t] : m[t][i].is_create
  BY <1>1, MergeCreatesFacts
<1>3. m \in [Tables -> Seq(FilterOp)]
  BY <1>2
<1> HIDE DEF m
<1>4. ASSUME NEW t \in Tables, NEW i \in DOMAIN m[t], m[t][i].is_create
      PROVE  ~ m[t][i].forward /\ PlacedOp(level, m, t, m[t][i])
  <2> DEFINE op == m[t][i]
  <2>1. StandsFor(op, f[t], Len(f[t]))
    BY <1>2, <1>4
  <2> HIDE DEF op
  <2>2. PICK j \in DOMAIN f[t] :
            /\ f[t][j].is_create /\ op.is_create /\ op.build_table = f[t][j].build_table
            /\ op.forward = f[t][j].forward
    BY <1>1, <2>1 DEF StandsFor
  <2>3. op.build_table = t /\ ~ op.forward
    BY <1>1, <2>2 DEF ProbesThenCreates, BackwardOp
  <2>4. ASSUME NEW x \in ToSet(op.probe_columns)
        PROVE  level[t] < level[x[1]]
    <3>1. PICK k \in DOMAIN f[t] : f[t][k].is_create /\ x \in ToSet(f[t][k].probe_columns)
      BY <1>1, <2>1 DEF StandsFor
    <3>2. BackwardOp(level, f, t, f[t][k])
      BY <1>1
    <3> QED BY <3>1, <3>2 DEF BackwardOp
  <2> QED BY <2>2, <2>3, <2>4 DEF PlacedOp, op
<1>5. ASSUME NEW t \in Tables, NEW i \in DOMAIN m[t], ~ m[t][i].is_create
      PROVE  ~ m[t][i].forward /\ PlacedOp(level, m, t, m[t][i])
  <2> DEFINE op == m[t][i]
  <2>1. PICK j \in DOMAIN f[t] : op = f[t][j]
    BY <1>2, <1>5
  <2>2. op \in FilterOp /\ BackwardOp(level, f, t, op) /\ ~ op.is_create
    BY <1>1, <1>5, <2>1
  <2> HIDE DEF op
  <2> DEFINE b == op.build_table
  <2>3. b \in Tables
    BY <2>2 DEF FilterOp
  <2>4. PICK k \in DOMAIN f[b] : Supplies(f[b][k], op)
    BY <2>2 DEF BackwardOp
  <2>5. f[b][k].is_create
    BY <2>4 DEF Supplies
  <2>6. PICK h \in DOMAIN m[b] : m[b][h].is_create
    BY <1>2, <2>3, <2>5
  <2>7. /\ ToSet(f[b][k].build_columns) \subseteq ToSet(m[b][h].build_columns)
        /\ ToSet(f[b][k].probe_columns) \subseteq ToSet(m[b][h].probe_columns)
    <3>1. StandsFor(m[b][h], f[b], Len(f[b]))
      BY <1>2, <2>3, <2>6
    <3> QED BY <1>1, <2>3, <2>5, <3>1 DEF StandsFor
  <2>8. Supplies(m[b][h], op)
    BY <2>4, <2>6, <2>7 DEF Supplies
  <2>9. m[b][h].forward = op.forward
    <3>1. m[b][h] \in FilterOp
      BY <1>3, <2>3, <2>6
    <3>2. ~ m[b][h].forward /\ ~ op.forward
      BY <1>4, <2>2, <2>3, <2>6 DEF BackwardOp
    <3> QED BY <2>2, <3>1, <3>2 DEF FilterOp
  <2> QED BY <2>2, <2>8, <2>9 DEF PlacedOp, BackwardOp, op
<1>6. \A t \in Tables : \A i, j \in DOMAIN m[t] : (m[t][i].is_create /\ m[t][j].is_create) => i = j
  <2> TAKE t \in Tables
  <2>1. m[t] \in Seq(FilterOp) /\ \A i, j \in DOMAIN m[t] : m[t][i].is_create => j <= i
    BY <1>2
  <2>2. \A i \in DOMAIN m[t] : i \in Nat
    BY <2>1
  <2> QED BY <2>1, <2>2
<1>7. \A t \in Tables : \A i \in DOMAIN m[t] : m[t][i] \in FilterOp
  BY <1>3
<1>8. \A t \in Tables : \A i \in DOMAIN m[t] : m[t][i].forward = FALSE
  BY <1>4, <1>5, <1>7 DEF FilterOp
<1>9. PassPlaced(level, m, FALSE)
  BY <1>3, <1>4, <1>5, <1>6, <1>8 DEF PassPlaced
<1> QED BY <1>9 DEF m, f


\* With robust_pass_mode "forward_only" there is no second pass.
LEMMA NothingPlaced ==
    PassPlaced(level, [t \in Tables |-> MergeCreates(<< >>)], FALSE)
<1> DEFINE e == << >>
           out == MergeCreates(e)
<1>1. e \in Seq(FilterOp) /\ DOMAIN e = {} /\ Len(e) = 0
  OBVIOUS
<1>2. ProbesThenCreates(0, e)
  BY <1>1 DEF ProbesThenCreates
<1> HIDE DEF e
<1>3. /\ out \in Seq(FilterOp)
      /\ \A i, j \in DOMAIN out : out[i].is_create => StandsFor(out[i], e, Len(e)) /\ j <= i
      /\ \A i \in DOMAIN out : ~ out[i].is_create => \E j \in DOMAIN e : out[i] = e[j]
  BY <1>2, MergeCreatesFacts
<1> HIDE DEF out
<1>4. DOMAIN out = {}
  <2>1. ASSUME NEW i \in DOMAIN out
        PROVE  FALSE
    <3>1. StandsFor(out[i], e, 0)
      BY <1>1, <1>3
    <3>2. \E j \in 1 .. 0 : e[j].is_create
      BY <3>1 DEF StandsFor
    <3> QED BY <3>2
  <2> QED BY <2>1
<1>5. PassPlaced(level, [t \in Tables |-> out], FALSE)
  BY <1>3, <1>4 DEF PassPlaced
<1> QED BY <1>5 DEF out, e

\* Where an operator of two lists is in their concatenation, and back.
LEMMA ConcatPlaces ==
    ASSUME NEW S, NEW s \in Seq(S), NEW u \in Seq(S)
    PROVE  /\ s \o u \in Seq(S)
           /\ \A i \in DOMAIN s : i \in DOMAIN (s \o u) /\ (s \o u)[i] = s[i]
           /\ \A i \in DOMAIN u : \E k \in DOMAIN (s \o u) : (s \o u)[k] = u[i]
           /\ \A i \in DOMAIN (s \o u) :
                \/ i \in DOMAIN s /\ (s \o u)[i] = s[i]
                \/ /\ i \in Nat /\ i > Len(s) /\ i - Len(s) \in DOMAIN u
                   /\ (s \o u)[i] = u[i - Len(s)]
<1>1. /\ DOMAIN (s \o u) = 1 .. Len(s) + Len(u)
      /\ DOMAIN s = 1 .. Len(s) /\ DOMAIN u = 1 .. Len(u)
      /\ Len(s) \in Nat /\ Len(u) \in Nat
      /\ s \o u \in Seq(S)
  OBVIOUS
<1>2. \A i \in DOMAIN s : i \in DOMAIN (s \o u) /\ (s \o u)[i] = s[i]
  BY <1>1
<1>3. \A i \in DOMAIN u : Len(s) + i \in DOMAIN (s \o u) /\ (s \o u)[Len(s) + i] = u[i]
  BY <1>1
<1>4. ASSUME NEW i \in DOMAIN (s \o u), i \notin DOMAIN s
      PROVE  /\ i \in Nat /\ i > Len(s) /\ i - Len(s) \in DOMAIN u
             /\ (s \o u)[i] = u[i - Len(s)]
  <2>1. i \in Nat /\ i > Len(s) /\ i - Len(s) \in DOMAIN u /\ Len(s) + (i - Len(s)) = i
    BY <1>1, <1>4
  <2>2. (s \o u)[Len(s) + (i - Len(s))] = u[i - Len(s)]
    BY <1>3, <2>1
  <2> QED BY <2>1, <2>2
<1> QED BY <1>1, <1>2, <1>3, <1>4

\* The two passes on top of each other.
LEMMA StackedLayered ==
    ASSUME NEW lev, NEW F, PassPlaced(lev, F, TRUE), NEW B, PassPlaced(lev, B, FALSE),
           NEW st, st = [t \in Tables |-> F[t] \o B[t]]
    PROVE  Layered(lev, st)
<1>1. \A t \in Tables : /\ F[t] \in Seq(FilterOp) /\ B[t] \in Seq(FilterOp)
                        /\ Len(F[t]) \in Nat /\ Len(B[t]) \in Nat
                        /\ DOMAIN F[t] = 1 .. Len(F[t]) /\ DOMAIN B[t] = 1 .. Len(B[t])
  BY DEF PassPlaced
<1>2. ASSUME NEW t \in Tables
      PROVE  /\ st[t] \in Seq(FilterOp)
             /\ \A i \in DOMAIN F[t] : i \in DOMAIN st[t] /\ st[t][i] = F[t][i]
             /\ \A i \in DOMAIN B[t] : \E k \in DOMAIN st[t] : st[t][k] = B[t][i]
             /\ \A i \in DOMAIN st[t] :
                    \/ i \in DOMAIN F[t] /\ st[t][i] = F[t][i]
                    \/ /\ i \in Nat /\ i > Len(F[t]) /\ i - Len(F[t]) \in DOMAIN B[t]
                       /\ st[t][i] = B[t][i - Len(F[t])]
  <2> DEFINE s == F[t]
             u == B[t]
  <2>1. s \in Seq(FilterOp) /\ u \in Seq(FilterOp) /\ st[t] = s \o u
    BY <1>1
  <2> HIDE DEF s, u
  <2>2. /\ s \o u \in Seq(FilterOp)
        /\ \A i \in DOMAIN s : i \in DOMAIN (s \o u) /\ (s \o u)[i] = s[i]
        /\ \A i \in DOMAIN u : \E k \in DOMAIN (s \o u) : (s \o u)[k] = u[i]
        /\ \A i \in DOMAIN (s \o u) :
                \/ i \in DOMAIN s /\ (s \o u)[i] = s[i]
                \/ /\ i \in Nat /\ i > Len(s) /\ i - Len(s) \in DOMAIN u
                   /\ (s \o u)[i] = u[i - Len(s)]
    BY <2>1, ConcatPlaces
  <2> QED BY <2>1, <2>2 DEF s, u
<1>3. st \in [Tables -> Seq(FilterOp)]
  BY <1>2
<1>4. ASSUME NEW t \in Tables, NEW op \in FilterOp,
             PlacedOp(lev, F, t, op) \/ PlacedOp(lev, B, t, op)
      PROVE  PlacedOp(lev, st, t, op)
  <2>1. op.build_table \in Tables
    BY DEF FilterOp
  <2>2. \/ PlacedOp(lev, st, t, op)
        \/ ~ op.is_create
    BY <1>4 DEF PlacedOp
  <2>3. ASSUME NEW i \in DOMAIN F[op.build_table], F[op.build_table][i].forward = op.forward,
               Supplies(F[op.build_table][i], op)
        PROVE  \E k \in DOMAIN st[op.build_table] : /\ st[op.build_table][k].forward = op.forward
                                                    /\ Supplies(st[op.build_table][k], op)
    BY <1>2, <2>1, <2>3
  <2>4. ASSUME NEW i \in DOMAIN B[op.build_table], B[op.build_table][i].forward = op.forward,
               Supplies(B[op.build_table][i], op)
        PROVE  \E k \in DOMAIN st[op.build_table] : /\ st[op.build_table][k].forward = op.forward
                                                    /\ Supplies(st[op.build_table][k], op)
    <3>1. PICK k \in DOMAIN st[op.build_table] : st[op.build_table][k] = B[op.build_table][i]
      BY <1>2, <2>1
    <3> QED BY <2>4, <3>1
  <2> QED BY <1>4, <2>2, <2>3, <2>4 DEF PlacedOp
<1>5. ASSUME NEW t \in Tables, NEW i \in DOMAIN st[t]
      PROVE  /\ PlacedOp(lev, st, t, st[t][i])
             /\ \A j \in DOMAIN st[t] :
                    /\ (st[t][i].forward /\ ~ st[t][j].forward) => i < j
                    /\ (/\ st[t][i].is_create /\ st[t][j].is_create
                        /\ st[t][i].forward = st[t][j].forward) => i = j
  <2>1. /\ \A k \in DOMAIN F[t] : /\ F[t][k].forward /\ PlacedOp(lev, F, t, F[t][k])
                                  /\ \A j \in DOMAIN F[t] :
                                        (F[t][k].is_create /\ F[t][j].is_create) => k = j
        /\ \A k \in DOMAIN B[t] : /\ ~ B[t][k].forward /\ PlacedOp(lev, B, t, B[t][k])
                                  /\ \A j \in DOMAIN B[t] :
                                        (B[t][k].is_create /\ B[t][j].is_create) => k = j
    BY DEF PassPlaced
  <2>2. \A k \in DOMAIN st[t] :
            \/ k \in 1 .. Len(F[t]) /\ k \in DOMAIN F[t] /\ st[t][k] = F[t][k]
            \/ /\ k \in Nat /\ k > Len(F[t]) /\ k - Len(F[t]) \in DOMAIN B[t]
               /\ st[t][k] = B[t][k - Len(F[t])]
    BY <1>1, <1>2
  <2>3. st[t][i] \in FilterOp
    BY <1>2, ElementOf
  <2>4. PlacedOp(lev, st, t, st[t][i])
    <3>1. PlacedOp(lev, F, t, st[t][i]) \/ PlacedOp(lev, B, t, st[t][i])
      BY <2>1, <2>2
    <3> QED BY <1>4, <2>3, <3>1
  <2>5. \A k \in DOMAIN st[t] : /\ st[t][k].forward => k \in 1 .. Len(F[t]) /\ k \in DOMAIN F[t]
                                                        /\ st[t][k] = F[t][k]
                                /\ ~ st[t][k].forward =>
                                    /\ k \in Nat /\ k > Len(F[t]) /\ k - Len(F[t]) \in DOMAIN B[t]
                                    /\ st[t][k] = B[t][k - Len(F[t])]
    BY <2>1, <2>2
  <2>6. ASSUME NEW j \in DOMAIN st[t], st[t][i].forward, ~ st[t][j].forward
        PROVE  i < j
    <3>1. i \in 1 .. Len(F[t]) /\ j \in Nat /\ j > Len(F[t])
      BY <2>5, <2>6
    <3> QED BY <1>1, <3>1
  <2>7. ASSUME NEW j \in DOMAIN st[t], st[t][i].is_create, st[t][j].is_create,
               st[t][i].forward, st[t][j].forward
        PROVE  i = j
    BY <2>1, <2>5, <2>7
  <2>8. ASSUME NEW j \in DOMAIN st[t], st[t][i].is_create, st[t][j].is_create,
               ~ st[t][i].forward, ~ st[t][j].forward
        PROVE  i = j
    <3>1. i - Len(F[t]) = j - Len(F[t])
      BY <2>1, <2>5, <2>8
    <3> QED BY <1>1, <2>5, <2>8, <3>1
  <2> QED BY <2>4, <2>6, <2>7, <2>8
<1> QED BY <1>3, <1>5 DEF Layered

\* Positions of operators.
LEMMA PositionFacts ==
    /\ \A pos \in Positions : /\ pos[1] \in Tables /\ pos[2] \in DOMAIN stacks[pos[1]]
                              /\ pos = <<pos[1], pos[2]>>
                              /\ Op(pos) = stacks[pos[1]][pos[2]]
    /\ \A t \in Tables : \A i \in DOMAIN stacks[t] :
            <<t, i>> \in Positions /\ Op(<<t, i>>) = stacks[t][i]
<1>1. ASSUME NEW pos \in Positions
      PROVE  /\ pos[1] \in Tables /\ pos[2] \in DOMAIN stacks[pos[1]]
             /\ pos = <<pos[1], pos[2]>>
             /\ Op(pos) = stacks[pos[1]][pos[2]]
  <2>1. PICK t \in Tables : pos \in {t} \X DOMAIN stacks[t]
    BY DEF Positions
  <2>2. pos[1] = t /\ pos[2] \in DOMAIN stacks[t] /\ pos = <<pos[1], pos[2]>>
    BY <2>1
  <2> QED BY <2>2 DEF Op
<1>2. ASSUME NEW t \in Tables, NEW i \in DOMAIN stacks[t]
      PROVE  <<t, i>> \in Positions /\ Op(<<t, i>>) = stacks[t][i]
  <2>1. <<t, i>> \in {t} \X DOMAIN stacks[t]
    OBVIOUS
  <2> QED BY <2>1 DEF Positions, Op
<1> QED BY <1>1, <1>2

\* The link of a PROBE leads to a CREATE of its own pass that builds its filters.
LinkOk(st, pos, c) ==
    /\ c[1] \in Tables /\ c[2] \in DOMAIN st[c[1]] /\ c = <<c[1], c[2]>>
    /\ st[c[1]][c[2]].is_create
    /\ c[1] = st[pos[1]][pos[2]].build_table
    /\ st[c[1]][c[2]].forward = st[pos[1]][pos[2]].forward
    /\ ToSet(st[pos[1]][pos[2]].build_columns) \subseteq ToSet(st[c[1]][c[2]].build_columns)

Linking(st, links) ==
    \A t \in Tables : \A i \in DOMAIN st[t] :
        ~ st[t][i].is_create => <<t, i>> \in DOMAIN links /\ LinkOk(st, <<t, i>>, links[<<t, i>>])

OnlyProbes(st, links) ==
    \A pos \in DOMAIN links : /\ pos[1] \in Tables /\ pos[2] \in DOMAIN st[pos[1]]
                              /\ pos = <<pos[1], pos[2]>>
                              /\ ~ st[pos[1]][pos[2]].is_create

PlaceInv ==
    /\ step \in {"generate", "apply", "link", "pushdown", "planned"}
    /\ step # "generate" => stage = "done"
    /\ step \in {"generate", "apply"} => stacks = NoOps
    /\ step \in {"link", "pushdown", "planned"} => Layered(level, stacks)
    /\ step \in {"pushdown", "planned"} =>
        Linking(stacks, related_create) /\ OnlyProbes(stacks, related_create)

\* A PROBE has exactly one candidate: the CREATE of its own pass.  The CREATE of
\* the other pass is for tables on the other side of its level.
LEMMA OneCandidate ==
    ASSUME GraphInv, Layered(level, stacks), NEW pos \in Probes
    PROVE  \E c \in Candidates(pos) : LinkOk(stacks, pos, c) /\ Candidates(pos) = {c}
<1> DEFINE t  == pos[1]
           op == Op(pos)
           b  == op.build_table
<1>1. /\ t \in Tables /\ pos[2] \in DOMAIN stacks[t] /\ op = stacks[t][pos[2]] /\ ~ op.is_create
      /\ pos \in Positions
  BY PositionFacts DEF Probes
<1>2. PlacedOp(level, stacks, t, op) /\ op \in FilterOp
  <2>1. stacks[t] \in Seq(FilterOp)
    BY <1>1 DEF Layered
  <2>2. stacks[t][pos[2]] \in FilterOp
    BY <1>1, <2>1, ElementOf
  <2> QED BY <1>1, <2>2 DEF Layered
<1> HIDE DEF op
<1>3. b \in Tables /\ op.probe_table = t /\ op.forward \in BOOLEAN
  BY <1>1, <1>2 DEF FilterOp, PlacedOp
<1>4. \A n \in Tables : level[n] \in Int
  BY NumTablesAssumption DEF GraphInv
<1>5. PICK i \in DOMAIN stacks[b] :
        stacks[b][i].forward = op.forward /\ Supplies(stacks[b][i], op)
  BY <1>1, <1>2 DEF PlacedOp
<1> HIDE DEF b
<1> DEFINE c == <<b, i>>
<1>6. c \in Positions /\ Op(c) = stacks[b][i]
  BY <1>3, PositionFacts
<1>7. stacks[b][i].is_create
  BY <1>5 DEF Supplies
<1>8. c \in Candidates(pos)
  <2>1. \E k \in DOMAIN Op(c).probe_columns : Op(c).probe_columns[k][1] = op.probe_table
    BY <1>5, <1>6 DEF Supplies, ToSet
  <2> QED BY <1>6, <1>7, <2>1 DEF Candidates, Creates, op, b
<1>9. ASSUME NEW d \in Candidates(pos)
      PROVE  d = c
  <2>1. /\ d \in Positions /\ d[1] = b /\ Op(d).is_create
        /\ \E k \in DOMAIN Op(d).probe_columns : Op(d).probe_columns[k][1] = t
    BY <1>3 DEF Candidates, Creates, op, b
  <2>2. /\ d[2] \in DOMAIN stacks[b] /\ d = <<b, d[2]>> /\ Op(d) = stacks[b][d[2]]
    BY <2>1, PositionFacts
  <2>3. PICK x \in ToSet(stacks[b][d[2]].probe_columns) : x[1] = t
    BY <2>1, <2>2 DEF ToSet
  <2>4. PlacedOp(level, stacks, b, stacks[b][d[2]])
    BY <1>3, <2>2 DEF Layered
  <2>5. stacks[b][d[2]].forward \in BOOLEAN
    <3>1. stacks[b] \in Seq(FilterOp)
      BY <1>3 DEF Layered
    <3>2. stacks[b][d[2]] \in FilterOp
      BY <2>2, <3>1, ElementOf
    <3> QED BY <3>2 DEF FilterOp
  <2>6. stacks[b][d[2]].forward = op.forward
    <3>1. CASE op.forward
      <4>1. level[t] < level[b]
        BY <1>1, <1>2, <3>1 DEF PlacedOp, b
      <4>2. ~ stacks[b][d[2]].forward => level[b] < level[t]
        BY <2>1, <2>2, <2>3, <2>4 DEF PlacedOp
      <4>3. stacks[b][d[2]].forward
        BY <1>1, <1>3, <1>4, <4>1, <4>2
      <4> QED BY <1>3, <2>5, <3>1, <4>3
    <3>2. CASE ~ op.forward
      <4>1. level[b] < level[t]
        BY <1>1, <1>2, <3>2 DEF PlacedOp, b
      <4>2. stacks[b][d[2]].forward => level[t] < level[b]
        BY <2>1, <2>2, <2>3, <2>4 DEF PlacedOp
      <4>3. ~ stacks[b][d[2]].forward
        BY <1>1, <1>3, <1>4, <4>1, <4>2
      <4> QED BY <1>3, <2>5, <3>2, <4>3
    <3> QED BY <1>3, <3>1, <3>2
  <2>7. d[2] = i
    BY <1>3, <1>5, <1>7, <2>1, <2>2, <2>6 DEF Layered
  <2> QED BY <2>2, <2>7
<1>10. LinkOk(stacks, pos, c)
  BY <1>1, <1>3, <1>5, <1>7 DEF LinkOk, Supplies, b
<1>11. Candidates(pos) = {c}
  BY <1>8, <1>9
<1> QED BY <1>8, <1>10, <1>11

LEMMA PlaceInvStep == StageInv /\ PlaceInv /\ [HNext]_hvars => PlaceInv'
<1> SUFFICES ASSUME StageInv, PlaceInv, [HNext]_hvars PROVE PlaceInv'
  OBVIOUS
<1>1. CASE Generate \/ GenerateStageModifications
  <2>1. /\ step = "generate" /\ step' = IF stage' = "done" THEN "apply" ELSE step
        /\ UNCHANGED stacks
    BY <1>1 DEF Generate, GenerateStageModifications
  <2> QED BY <2>1 DEF PlaceInv
<1>2. CASE BuildRootedTree
  <2>1. stage = "tree" /\ stage' = "forward" /\ UNCHANGED <<step, stacks>>
    BY <1>2 DEF BuildRootedTree, placement
  <2> QED BY <2>1 DEF PlaceInv
<1>3. CASE GrowTree \/ UNCHANGED hvars
  <2>1. UNCHANGED <<step, stage, stacks, level, related_create>>
    BY <1>3 DEF GrowTree, hvars, allvars, vars, placement
  <2> QED BY <2>1 DEF PlaceInv
<1>4. CASE ApplyStageModifications
  <2>1. /\ step = "apply" /\ step' = "link" /\ UNCHANGED <<stage, level>>
        /\ LET backward == IF pass_mode = "forward_only" THEN [t \in Tables |-> << >>]
                           ELSE backward_filter_ops
           IN  stacks' = [t \in Tables |-> Stacked(forward_filter_ops[t], backward[t])]
    BY <1>4 DEF ApplyStageModifications, vars
  <2> DEFINE F == [t \in Tables |-> MergeCreates(forward_filter_ops[t])]
             B == [t \in Tables |-> MergeCreates(backward_filter_ops[t])]
             E == [t \in Tables |-> MergeCreates(<< >>)]
  <2>2. PassPlaced(level, F, TRUE) /\ PassPlaced(level, B, FALSE) /\ PassPlaced(level, E, FALSE)
    BY ForwardPlaced, BackwardPlaced, NothingPlaced
  <2>3. \/ stacks' = [t \in Tables |-> F[t] \o B[t]]
        \/ stacks' = [t \in Tables |-> F[t] \o E[t]]
    BY <2>1 DEF Stacked
  <2> HIDE DEF F, B, E
  <2>4. Layered(level, stacks')
    BY <2>2, <2>3, StackedLayered
  <2> QED BY <2>1, <2>4 DEF PlaceInv
<1>5. CASE LinkProbeFilterToCreateFilter
  <2>1. /\ step = "link" /\ step' = "pushdown" /\ UNCHANGED <<stage, level, stacks>>
        /\ related_create' =
            [pos \in {p \in Probes : Candidates(p) # {}} |->
                CHOOSE c \in Candidates(pos) : \A o \in Candidates(pos) : o[2] <= c[2]]
    BY <1>5 DEF LinkProbeFilterToCreateFilter, vars
  <2>2. Layered(level, stacks) /\ GraphInv
    BY <2>1 DEF PlaceInv, StageInv
  <2>3. ASSUME NEW pos \in Probes
        PROVE  pos \in DOMAIN related_create' /\ LinkOk(stacks, pos, related_create'[pos])
    <3>1. PICK c \in Candidates(pos) : LinkOk(stacks, pos, c) /\ Candidates(pos) = {c}
      BY <2>2, OneCandidate
    <3>2. c[2] <= c[2]
      <4>1. stacks[c[1]] \in Seq(FilterOp) /\ c[2] \in DOMAIN stacks[c[1]]
        BY <2>2, <3>1 DEF LinkOk, Layered
      <4> QED BY <4>1
    <3>3. pos \in DOMAIN related_create'
          /\ related_create'[pos] = CHOOSE d \in {c} : \A o \in {c} : o[2] <= d[2]
      BY <2>1, <3>1
    <3>4. related_create'[pos] = c
      BY <3>2, <3>3
    <3> QED BY <3>1, <3>3, <3>4
  <2>4. Linking(stacks, related_create')
    <3>1. ASSUME NEW t \in Tables, NEW i \in DOMAIN stacks[t], ~ stacks[t][i].is_create
          PROVE  <<t, i>> \in Probes
      BY <3>1, PositionFacts DEF Probes
    <3> QED BY <2>3, <3>1 DEF Linking
  <2>5. OnlyProbes(stacks, related_create')
    <3>1. DOMAIN related_create' \subseteq Probes
      BY <2>1
    <3> QED BY <3>1, PositionFacts DEF OnlyProbes, Probes
  <2> QED BY <2>1, <2>2, <2>4, <2>5 DEF PlaceInv
<1>6. CASE SetupDynamicFilterPushdown
  <2>1. /\ step = "pushdown" /\ step' = "planned"
        /\ UNCHANGED <<stage, level, stacks, related_create>>
    BY <1>6 DEF SetupDynamicFilterPushdown, vars
  <2> QED BY <2>1 DEF PlaceInv
<1> QED BY <1>1, <1>2, <1>3, <1>4, <1>5, <1>6 DEF HNext, PlaceOperators

\* What has been generated stays true of the operators that are stacked, linked
\* and pushed down.
THEOREM PlaceInvariant == HSpec => [](StageInv /\ PlaceInv)
<1>1. HInit => PlaceInv
  BY DEF HInit, PInit, PlaceInv, NoOps
<1>2. StageInv /\ PlaceInv /\ [HNext]_hvars => PlaceInv'
  BY PlaceInvStep
<1> QED BY <1>1, <1>2, StageInvariant, PTL DEF HSpec

-----------------------------------------------------------------------------
\* What follows for the plan.

\* What the invariant says of two operators of one table, and of one operator.
LEMMA PlacedFacts ==
    ASSUME Layered(level, stacks), NEW c \in Positions
    PROVE  /\ c[1] \in Tables /\ c[2] \in Nat /\ Op(c) \in FilterOp
           /\ PlacedOp(level, stacks, c[1], Op(c))
           /\ \A d \in Positions : d[1] = c[1] =>
                /\ (Op(c).forward /\ ~ Op(d).forward) => c[2] < d[2]
                /\ (Op(c).is_create /\ Op(d).is_create /\ Op(c).forward = Op(d).forward) => c = d
<1>1. /\ c[1] \in Tables /\ c[2] \in DOMAIN stacks[c[1]] /\ Op(c) = stacks[c[1]][c[2]]
      /\ c = <<c[1], c[2]>>
  BY PositionFacts
<1>2. stacks[c[1]] \in Seq(FilterOp)
  BY <1>1 DEF Layered
<1>3. Op(c) \in FilterOp
  BY <1>1, <1>2, ElementOf
<1>4. c[2] \in Nat
  BY <1>1, <1>2
<1>5. PlacedOp(level, stacks, c[1], Op(c))
  BY <1>1 DEF Layered
<1>6. ASSUME NEW d \in Positions, d[1] = c[1]
      PROVE  /\ (Op(c).forward /\ ~ Op(d).forward) => c[2] < d[2]
             /\ (Op(c).is_create /\ Op(d).is_create /\ Op(c).forward = Op(d).forward) => c = d
  <2>1. /\ d[2] \in DOMAIN stacks[c[1]] /\ Op(d) = stacks[c[1]][d[2]]
        /\ d = <<c[1], d[2]>>
    BY <1>6, PositionFacts
  <2>2. /\ (Op(c).forward /\ ~ Op(d).forward) => c[2] < d[2]
        /\ (Op(c).is_create /\ Op(d).is_create /\ Op(c).forward = Op(d).forward) => c[2] = d[2]
    BY <1>1, <2>1 DEF Layered
  <2> QED BY <1>1, <2>1, <2>2
<1> QED BY <1>1, <1>3, <1>4, <1>5, <1>6

\* A table builds its filters of a pass in one operator.
THEOREM OneCreateAlways == HSpec => []OneCreatePerPass
<1>1. PlaceInv => OneCreatePerPass
  <2> SUFFICES ASSUME PlaceInv PROVE OneCreatePerPass
    OBVIOUS
  <2>1. CASE stacks = NoOps
    <3>1. Positions = {}
      BY <2>1 DEF Positions, NoOps
    <3> QED BY <3>1 DEF OneCreatePerPass, Creates
  <2>2. CASE Layered(level, stacks)
    BY <2>2, PlacedFacts DEF OneCreatePerPass, Creates
  <2> QED BY <2>1, <2>2 DEF PlaceInv
<1> QED BY <1>1, PlaceInvariant, PTL

\* The CREATE a PROBE is linked to has all filters that the PROBE looks for.
LEMMA ProbesFound == PlaceInv => EveryProbeFindsItsFilters
<1> SUFFICES ASSUME PlaceInv, step \in {"pushdown", "planned"}, NEW pos \in Probes
             PROVE  /\ pos \in DOMAIN related_create
                    /\ Op(related_create[pos]).forward = Op(pos).forward
                    /\ FoundAt(pos) = DOMAIN Op(pos).build_columns
  BY DEF EveryProbeFindsItsFilters
<1>1. Linking(stacks, related_create)
  BY DEF PlaceInv
<1>2. /\ pos[1] \in Tables /\ pos[2] \in DOMAIN stacks[pos[1]] /\ pos = <<pos[1], pos[2]>>
      /\ Op(pos) = stacks[pos[1]][pos[2]] /\ ~ Op(pos).is_create
  BY PositionFacts DEF Probes
<1>3. pos \in DOMAIN related_create /\ LinkOk(stacks, pos, related_create[pos])
  BY <1>1, <1>2 DEF Linking
<1> DEFINE c == related_create[pos]
<1>4. /\ Op(c) = stacks[c[1]][c[2]]
      /\ Op(c).forward = Op(pos).forward
      /\ ToSet(Op(pos).build_columns) \subseteq ToSet(Op(c).build_columns)
  BY <1>2, <1>3 DEF LinkOk, Op
<1> HIDE DEF c
<1>5. \A i \in DOMAIN Op(pos).build_columns :
          Op(pos).build_columns[i] \in ToSet(Op(c).build_columns)
  BY <1>4 DEF ToSet
<1>6. FoundAt(pos) = DOMAIN Op(pos).build_columns
  BY <1>5 DEF FoundAt, c
<1> QED BY <1>3, <1>4, <1>6 DEF c

\* Every PROBE, a broadcast included, is linked to a CREATE of its own pass that
\* builds all the filters it reads (robust_optimizer.cpp:1369-1395).
THEOREM ProbesFindFilters == HSpec => []EveryProbeFindsItsFilters
<1> QED BY ProbesFound, PlaceInvariant, PTL

\* The order the CREATEs can run in: forward ones from the deepest level up, then
\* backward ones from the roots down.
Rank(c) == IF Op(c).forward THEN NumTables - level[c[1]]
                            ELSE 2 * NumTables + 2 + level[c[1]]

LEMMA WaitsForLower ==
    ASSUME StageInv, PlaceInv, step \in {"pushdown", "planned"},
           NEW c \in Creates, NEW d \in WaitsFor(c) \cap Creates
    PROVE  Rank(c) \in Nat /\ Rank(d) \in Nat /\ Rank(d) < Rank(c)
<1>1. /\ Layered(level, stacks) /\ Linking(stacks, related_create)
      /\ OnlyProbes(stacks, related_create)
  BY DEF PlaceInv
<1>2. \A t \in Tables : level[t] \in -1 .. NumTables
  BY DEF StageInv, GraphInv
<1> DEFINE t == c[1]
<1>3. /\ c \in Positions /\ d \in Positions
      /\ t \in Tables /\ c[2] \in Nat /\ Op(c) \in FilterOp /\ Op(c).is_create
      /\ d[1] \in Tables /\ d[2] \in Nat /\ Op(d) \in FilterOp /\ Op(d).is_create
      /\ PlacedOp(level, stacks, t, Op(c))
  BY <1>1, PlacedFacts DEF Creates
<1>4. Op(c).forward \in BOOLEAN /\ Op(d).forward \in BOOLEAN
  BY <1>3 DEF FilterOp
<1>5. Rank(c) \in Nat /\ Rank(d) \in Nat
  BY <1>2, <1>3, NumTablesAssumption DEF Rank
<1>6. \/ ~ Op(c).forward /\ Op(d).forward
      \/ Op(c).forward /\ Op(d).forward /\ level[t] < level[d[1]]
      \/ ~ Op(c).forward /\ ~ Op(d).forward /\ level[d[1]] < level[t]
  <2>1. CASE d[1] = t /\ d[2] < c[2]
    <3>1. d # c
      BY <1>3, <2>1
    <3>2. ~ (Op(c).forward = Op(d).forward)
      BY <1>1, <1>3, <2>1, <3>1, PlacedFacts
    <3>3. ~ (Op(c).forward /\ ~ Op(d).forward)
      <4>1. (Op(c).forward /\ ~ Op(d).forward) => c[2] < d[2]
        BY <1>1, <1>3, <2>1, PlacedFacts
      <4> QED BY <1>3, <2>1, <4>1
    <3> QED BY <1>4, <3>2, <3>3
  <2>2. CASE \E p \in Positions : /\ p[1] = t /\ p[2] < c[2]
                                  /\ p \in DOMAIN related_create /\ d = related_create[p]
    <3>1. PICK p \in Positions : /\ p[1] = t /\ p[2] < c[2]
                                 /\ p \in DOMAIN related_create /\ d = related_create[p]
      BY <2>2
    <3>2. /\ p[2] \in DOMAIN stacks[t] /\ p = <<t, p[2]>> /\ Op(p) = stacks[t][p[2]]
          /\ ~ Op(p).is_create
      BY <1>1, <3>1, PositionFacts DEF OnlyProbes
    <3>3. LinkOk(stacks, p, d)
      BY <1>1, <1>3, <3>1, <3>2 DEF Linking
    <3>4. d[1] = Op(p).build_table /\ Op(d).forward = Op(p).forward
      BY <3>1, <3>2, <3>3 DEF LinkOk, Op
    <3>5. PlacedOp(level, stacks, t, Op(p)) /\ p[2] \in Nat
      BY <1>1, <3>1, PlacedFacts
    <3>6. /\ Op(d).forward => level[t] < level[d[1]]
          /\ ~ Op(d).forward => level[d[1]] < level[t]
      BY <3>2, <3>4, <3>5 DEF PlacedOp
    <3>7. ~ (Op(c).forward /\ ~ Op(p).forward)
      <4>1. (Op(c).forward /\ ~ Op(p).forward) => c[2] < p[2]
        BY <1>1, <1>3, <3>1, PlacedFacts
      <4> QED BY <1>3, <3>1, <3>5, <4>1
    <3> QED BY <1>4, <3>4, <3>6, <3>7
  <2> QED BY <2>1, <2>2 DEF WaitsFor
<1>7. Rank(d) < Rank(c)
  BY <1>2, <1>3, <1>6, NumTablesAssumption DEF Rank
<1> QED BY <1>5, <1>7

\* Of any set of CREATEs the one of least rank waits for none of them.
LEMMA NoCycleOfCreates == StageInv /\ PlaceInv => NoWaitCycle
<1> SUFFICES ASSUME StageInv, PlaceInv, step \in {"pushdown", "planned"},
                    NEW S \in (SUBSET Creates) \ {{}}
             PROVE  \E c \in S : WaitsFor(c) \cap S = {}
  BY DEF NoWaitCycle
<1>1. S \subseteq Creates /\ S # {}
  BY Zenon
<1>2. CASE \E c \in S : WaitsFor(c) \cap Creates = {}
  BY <1>1, <1>2
<1>3. CASE \A c \in S : WaitsFor(c) \cap Creates # {}
  <2> DEFINE Ranks == {Rank(c) : c \in S}
  <2>1. \A c \in S : Rank(c) \in Nat
    BY <1>1, <1>3, WaitsForLower
  <2>2. Ranks \subseteq Nat /\ Ranks # {}
    BY <1>1, <2>1
  <2> HIDE DEF Ranks
  <2>3. PICK r \in Ranks : \A m \in Ranks : r <= m
    BY <2>2, LeastNat
  <2>4. PICK c \in S : Rank(c) = r
    BY DEF Ranks
  <2>5. ASSUME NEW d \in WaitsFor(c) \cap S
        PROVE  FALSE
    <3>1. Rank(d) < Rank(c) /\ Rank(c) \in Nat /\ Rank(d) \in Nat
      BY <1>1, WaitsForLower
    <3>2. Rank(c) <= Rank(d)
      BY <2>3, <2>4 DEF Ranks
    <3> QED BY <3>1, <3>2
  <2> QED BY <2>5
<1> QED BY <1>2, <1>3

\* No CREATE waits for itself over any number of links and stacks, so the
\* pipelines can be run in some order (physical_probe_filter.cpp:232-236,
\* physical_create_filter.cpp:671-697).
THEOREM NobodyWaitsForItself == HSpec => []NoWaitCycle
<1> QED BY NoCycleOfCreates, PlaceInvariant, PTL

-----------------------------------------------------------------------------
\* Types: what is pushed down are columns, and only PROBEs become passthroughs.

PushInv ==
    /\ step \in {"generate", "apply", "link"} => related_create = << >>
    /\ step # "planned" => passthrough = {} /\ pushdown_targets = << >>
    /\ step = "planned" =>
        /\ passthrough \subseteq DOMAIN related_create
        /\ \A c \in DOMAIN pushdown_targets : pushdown_targets[c] \subseteq Tables \X Columns

LEMMA PushInvStep == PlaceInv /\ PushInv /\ [HNext]_hvars => PushInv'
<1> SUFFICES ASSUME PlaceInv, PushInv, [HNext]_hvars PROVE PushInv'
  OBVIOUS
<1>1. CASE UNCHANGED <<step, related_create, passthrough, pushdown_targets>>
  BY <1>1 DEF PushInv
<1>2. CASE Generate \/ GenerateStageModifications
  BY <1>2 DEF Generate, GenerateStageModifications, PushInv
<1>3. CASE ApplyStageModifications
  BY <1>3 DEF ApplyStageModifications, PushInv
<1>4. CASE LinkProbeFilterToCreateFilter
  BY <1>4 DEF LinkProbeFilterToCreateFilter, PushInv
<1>5. CASE SetupDynamicFilterPushdown
  <2>1. /\ step = "pushdown" /\ step' = "planned" /\ passthrough' = PushedProbes
        /\ UNCHANGED <<stacks, related_create>>
    BY <1>5 DEF SetupDynamicFilterPushdown
  <2>2. /\ Layered(level, stacks) /\ OnlyProbes(stacks, related_create)
        /\ \A t \in Tables : \A i \in DOMAIN stacks[t] : stacks[t][i] \in FilterOp
    BY <2>1 DEF PlaceInv, Layered
  <2>3. PushedProbes \subseteq DOMAIN related_create
    BY DEF PushedProbes
  <2>4. ASSUME NEW pos \in PushedProbes
        PROVE  ToSet(Op(pos).probe_columns) \subseteq Tables \X Columns
    <3>1. Op(pos) \in FilterOp
      BY <2>2, <2>3 DEF OnlyProbes, Op
    <3>2. Op(pos).probe_columns \in Seq(Tables \X Columns)
      BY <3>1 DEF FilterOp
    <3> DEFINE cols == Op(pos).probe_columns
               S == Tables \X Columns
    <3> HIDE DEF cols, S
    <3>3. cols \in Seq(S)
      BY <3>2 DEF cols, S
    <3>4. ToSet(cols) \subseteq S
      BY <3>3, ElementOf DEF ToSet
    <3> QED BY <3>4 DEF cols, S
  <2>5. \A c \in DOMAIN pushdown_targets' : pushdown_targets'[c] \subseteq Tables \X Columns
    <3> DEFINE pushed(c) == UNION {ToSet(Op(pos).probe_columns) :
                                pos \in {p \in PushedProbes : related_create[p] = c}}
    <3>1. pushdown_targets' = [c \in {p \in Creates : Op(p).forward} |-> pushed(c)]
      BY <1>5 DEF SetupDynamicFilterPushdown
    <3>2. \A c : pushed(c) \subseteq Tables \X Columns
      BY <2>4
    <3> HIDE DEF pushed
    <3> QED BY <3>1, <3>2
  <2> QED BY <2>1, <2>3, <2>5 DEF PushInv
<1>6. CASE GrowTree \/ BuildRootedTree
  BY <1>1, <1>6 DEF GrowTree, BuildRootedTree, allvars, placement
<1>7. CASE UNCHANGED hvars
  BY <1>1, <1>7 DEF hvars, allvars, placement
<1> QED BY <1>2, <1>3, <1>4, <1>5, <1>6, <1>7 DEF HNext, PlaceOperators

LEMMA PlacedTypes ==
    ASSUME StageInv, PlaceInv, PushInv, level \in [Tables -> -1 .. NumTables - 1],
           card \in [Tables -> Cardinalities], stage # "tree",
           pass_mode \in PassModes, gets \in GetSets
    PROVE  PTypeOK
<1>1. GraphInv /\ ForwardInv /\ BackwardInv
  BY DEF StageInv
<1>2. todo \subseteq Tables \X Tables
  BY <1>1 DEF GraphInv, LevelledEdges
<1>3. TypeOK
  BY <1>1, <1>2 DEF TypeOK, GraphInv, ForwardInv, BackwardInv
<1>4. \A t \in Tables : stacks[t] \in Seq(FilterOp)
  <2>1. << >> \in Seq(FilterOp)
    OBVIOUS
  <2>2. CASE stacks = NoOps
    BY <2>1, <2>2 DEF NoOps
  <2>3. CASE Layered(level, stacks)
    BY <2>3 DEF Layered
  <2> QED BY <2>2, <2>3 DEF PlaceInv
<1>5. DOMAIN related_create \subseteq Probes
  <2>1. CASE step \in {"generate", "apply", "link"}
    BY <2>1 DEF PushInv
  <2>2. CASE step \in {"pushdown", "planned"}
    <3>1. OnlyProbes(stacks, related_create)
      BY <2>2 DEF PlaceInv
    <3> QED BY <3>1, PositionFacts DEF OnlyProbes, Probes
  <2> QED BY <2>1, <2>2 DEF PlaceInv
<1>6. /\ passthrough \subseteq Probes
      /\ \A c \in DOMAIN pushdown_targets : pushdown_targets[c] \subseteq Tables \X Columns
  BY <1>5 DEF PushInv
<1> QED BY <1>3, <1>4, <1>5, <1>6 DEF PTypeOK, PlaceInv

-----------------------------------------------------------------------------
\* The tree of the "largest_root" heuristic.

\* The tree grown so far: every table of it but the root hangs below another one,
\* up[n], that was in the tree before, and these are all its edges.
Hangs(nodes, rt, up, dep) ==
    /\ nodes \subseteq Tables /\ rt \in nodes
    /\ up \in [nodes -> nodes]
    /\ dep \in [nodes -> Nat]
    /\ \A n \in nodes : dep[n] < Cardinality(nodes)
    /\ dep[rt] = 0
    /\ \A n \in nodes \ {rt} : dep[n] = dep[up[n]] + 1

TreeEdge(nodes, rt, up, a, b) ==
    /\ a \in nodes /\ b \in nodes
    /\ (b # rt /\ a = up[b]) \/ (a # rt /\ b = up[a])

GrownTree ==
    /\ \A e \in mst_edges : e \in Tables \X Tables /\ Linked(edges, e[1], e[2])
    /\ \E up, dep :
        /\ Hangs(mst_nodes, root, up, dep)
        /\ \A a, b \in Tables : Neighbours(a, b) <=> TreeEdge(mst_nodes, root, up, a, b)

\* No table can be deeper than there are tables.
LEMMA FewTables ==
    ASSUME NEW nodes, nodes \subseteq Tables
    PROVE  /\ IsFiniteSet(nodes) /\ Cardinality(nodes) \in Nat
           /\ Cardinality(nodes) <= NumTables
<1>1. Tables = 0 .. NumTables - 1 /\ NumTables \in Nat /\ NumTables >= 1
  BY NumTablesAssumption DEF Tables
<1>2. IsFiniteSet(Tables) /\ Cardinality(Tables) = NumTables
  <2>1. IsFiniteSet(0 .. NumTables - 1)
        /\ Cardinality(0 .. NumTables - 1) =
            IF 0 > NumTables - 1 THEN 0 ELSE (NumTables - 1) - 0 + 1
    BY <1>1, FS_Interval
  <2> QED BY <1>1, <2>1
<1> QED BY <1>2, FS_Subset, FS_CardinalityType

\* The first table.
LEMMA OneTable ==
    ASSUME NEW t \in Tables
    PROVE  Hangs({t}, t, [n \in {t} |-> t], [n \in {t} |-> 0])
<1>1. Cardinality({t}) = 1
  BY FS_Singleton
<1> QED BY <1>1 DEF Hangs

\* A table added below one of the tree.
LEMMA TreeGrows ==
    ASSUME NEW nodes, NEW rt, NEW up, NEW dep, Hangs(nodes, rt, up, dep),
           NEW m \in nodes, NEW n \in Tables \ nodes
    PROVE  Hangs(nodes \cup {n}, rt,
                 [x \in nodes \cup {n} |-> IF x = n THEN m ELSE up[x]],
                 [x \in nodes \cup {n} |-> IF x = n THEN dep[m] + 1 ELSE dep[x]])
<1> DEFINE all == nodes \cup {n}
           u == [x \in all |-> IF x = n THEN m ELSE up[x]]
           d == [x \in all |-> IF x = n THEN dep[m] + 1 ELSE dep[x]]
<1>1. /\ nodes \subseteq Tables /\ rt \in nodes /\ up \in [nodes -> nodes]
      /\ dep \in [nodes -> Nat]
  BY DEF Hangs
<1>2. Cardinality(all) = Cardinality(nodes) + 1 /\ Cardinality(nodes) \in Nat
  BY <1>1, FewTables, FS_AddElement
<1>3. u \in [all -> all] /\ d \in [all -> Nat]
  BY <1>1
<1>4. \A x \in all : d[x] < Cardinality(all)
  BY <1>1, <1>2 DEF Hangs
<1>5. d[rt] = 0
  BY <1>1 DEF Hangs
<1>6. \A x \in all \ {rt} : d[x] = d[u[x]] + 1
  <2> TAKE x \in all \ {rt}
  <2>1. CASE x = n
    BY <1>1, <2>1
  <2>2. CASE x # n
    <3>1. x \in nodes /\ up[x] \in nodes /\ up[x] # n /\ dep[x] = dep[up[x]] + 1
      BY <1>1, <2>2 DEF Hangs
    <3> QED BY <2>2, <3>1
  <2> QED BY <2>1, <2>2
<1> HIDE DEF u, d
<1>7. Hangs(all, rt, u, d)
  BY <1>1, <1>3, <1>4, <1>5, <1>6 DEF Hangs
<1> QED BY <1>7 DEF u, d

\* The search from the root meets exactly the tables of the tree, each at its
\* depth.
LEMMA DepthInTree ==
    ASSUME NEW up, NEW dep, Hangs(mst_nodes, root, up, dep),
           \A a, b \in Tables : Neighbours(a, b) <=> TreeEdge(mst_nodes, root, up, a, b)
    PROVE  \A t \in Tables : Depth(t) = IF t \in mst_nodes THEN dep[t] ELSE -1
<1> DEFINE D(k) == {n \in mst_nodes : dep[n] <= k}
           Solves(f) == f = [k \in 0 .. NumTables |->
                IF k = 0 THEN {root}
                ELSE f[k - 1] \cup {t \in Tables : \E s \in f[k - 1] : Neighbours(s, t)}]
<1>1. /\ mst_nodes \subseteq Tables /\ root \in mst_nodes /\ up \in [mst_nodes -> mst_nodes]
      /\ dep \in [mst_nodes -> Nat] /\ dep[root] = 0
      /\ \A n \in mst_nodes \ {root} : dep[n] = dep[up[n]] + 1
      /\ \A n \in mst_nodes : dep[n] < Cardinality(mst_nodes)
  BY DEF Hangs
<1>2. NumTables \in Nat /\ \A n \in mst_nodes : dep[n] < NumTables
  BY <1>1, FewTables, NumTablesAssumption
<1>3. D(0) = {root}
  <2>1. \A n \in mst_nodes : dep[n] <= 0 => n = root
    <3> SUFFICES ASSUME NEW n \in mst_nodes, dep[n] <= 0, n # root PROVE FALSE
      OBVIOUS
    <3>1. dep[n] = dep[up[n]] + 1 /\ dep[up[n]] \in Nat /\ dep[n] \in Nat
      BY <1>1
    <3> QED BY <3>1
  <2> QED BY <1>1, <2>1
<1>4. ASSUME NEW k \in Nat
      PROVE  D(k + 1) = D(k) \cup {t \in Tables : \E s \in D(k) : Neighbours(s, t)}
  <2>1. ASSUME NEW t \in D(k + 1), t \notin D(k)
        PROVE  t \in Tables /\ \E s \in D(k) : Neighbours(s, t)
    <3>1. t \in mst_nodes /\ t # root /\ t \in Tables /\ up[t] \in mst_nodes
      BY <1>1, <2>1
    <3>2. dep[up[t]] \in Nat /\ dep[t] = dep[up[t]] + 1 /\ dep[t] <= k + 1
      BY <1>1, <2>1, <3>1
    <3>3. up[t] \in D(k)
      BY <3>1, <3>2
    <3>4. Neighbours(up[t], t)
      BY <1>1, <3>1 DEF TreeEdge
    <3> QED BY <3>1, <3>3, <3>4
  <2>2. ASSUME NEW t \in Tables, NEW s \in D(k), Neighbours(s, t)
        PROVE  t \in D(k + 1)
    <3>1. s \in mst_nodes /\ s \in Tables /\ dep[s] \in Nat /\ dep[s] <= k
      BY <1>1
    <3>2. TreeEdge(mst_nodes, root, up, s, t)
      BY <2>2, <3>1
    <3>3. t \in mst_nodes /\ dep[t] \in Nat
      BY <1>1, <3>2 DEF TreeEdge
    <3>4. dep[t] = dep[s] + 1 \/ dep[s] = dep[t] + 1
      BY <1>1, <3>1, <3>2, <3>3 DEF TreeEdge
    <3> QED BY <3>1, <3>3, <3>4
  <2>3. D(k) \subseteq D(k + 1)
    <3>1. \A n \in mst_nodes : dep[n] \in Nat
      BY <1>1
    <3> QED BY <3>1
  <2> QED BY <2>1, <2>2, <2>3
<1> HIDE DEF D
<1>5. Solves([k \in 0 .. NumTables |-> D(k)])
  <2> DEFINE h == [k \in 0 .. NumTables |-> D(k)]
  <2>1. ASSUME NEW k \in 0 .. NumTables
        PROVE  h[k] = IF k = 0 THEN {root}
                ELSE h[k - 1] \cup {t \in Tables : \E s \in h[k - 1] : Neighbours(s, t)}
    <3>1. CASE k = 0
      BY <1>2, <1>3, <3>1
    <3>2. CASE k # 0
      <4>1. k - 1 \in Nat /\ k - 1 \in 0 .. NumTables /\ (k - 1) + 1 = k
        BY <1>2, <3>2
      <4>2. h[k] = D(k) /\ h[k - 1] = D(k - 1)
        BY <4>1
      <4>3. D((k - 1) + 1) = D(k - 1) \cup {t \in Tables : \E s \in D(k - 1) : Neighbours(s, t)}
        BY <1>4, <4>1
      <4> QED BY <3>2, <4>1, <4>2, <4>3
    <3> QED BY <3>1, <3>2
  <2>2. h = [k \in 0 .. NumTables |-> h[k]]
    OBVIOUS
  <2> HIDE DEF h
  <2>3. Solves(h)
    BY <2>1, <2>2
  <2> QED BY <2>3 DEF h
<1>6. Solves(Near)
  <2>1. \E f : Solves(f)
    BY <1>5
  <2> QED BY <2>1 DEF Near
<1> DEFINE N == Near
<1>7. /\ N[0] = {root}
      /\ \A k \in 0 .. NumTables - 1 :
            N[k + 1] = N[k] \cup {t \in Tables : \E s \in N[k] : Neighbours(s, t)}
  <2>1. \A k \in 0 .. NumTables : N[k] = IF k = 0 THEN {root}
                ELSE N[k - 1] \cup {t \in Tables : \E s \in N[k - 1] : Neighbours(s, t)}
    BY <1>6
  <2> HIDE DEF N
  <2>2. ASSUME NEW k \in 0 .. NumTables - 1
        PROVE  N[k + 1] = N[k] \cup {t \in Tables : \E s \in N[k] : Neighbours(s, t)}
    <3>1. k + 1 \in 0 .. NumTables /\ k + 1 # 0 /\ (k + 1) - 1 = k
      BY <1>2
    <3>2. N[k + 1] = N[(k + 1) - 1] \cup
                        {t \in Tables : \E s \in N[(k + 1) - 1] : Neighbours(s, t)}
      BY <2>1, <3>1
    <3> QED BY <3>1, <3>2
  <2>3. N[0] = {root}
    <3>1. 0 \in 0 .. NumTables
      BY <1>2
    <3>2. N[0] = IF 0 = 0 THEN {root}
                ELSE N[0 - 1] \cup {t \in Tables : \E s \in N[0 - 1] : Neighbours(s, t)}
      BY <2>1, <3>1
    <3> QED BY <3>2
  <2> QED BY <2>2, <2>3
<1> HIDE DEF N
<1>8. \A k \in 0 .. NumTables : N[k] = D(k)
  <2> DEFINE Good == {k \in Nat : k <= NumTables => N[k] = D(k)}
  <2>1. 0 \in Good
    BY <1>3, <1>7
  <2>2. ASSUME NEW k \in Nat, k \in Good
        PROVE  k + 1 \in Good
    <3> SUFFICES ASSUME k + 1 <= NumTables PROVE N[k + 1] = D(k + 1)
      OBVIOUS
    <3>1. N[k] = D(k) /\ k \in 0 .. NumTables - 1
      BY <1>2, <2>2
    <3>2. N[k + 1] = N[k] \cup {t \in Tables : \E s \in N[k] : Neighbours(s, t)}
      BY <1>7, <3>1
    <3>3. D(k + 1) = D(k) \cup {t \in Tables : \E s \in D(k) : Neighbours(s, t)}
      BY <1>4
    <3> QED BY <3>1, <3>2, <3>3
  <2> HIDE DEF Good
  <2>3. Nat \subseteq Good
    BY <2>1, <2>2, SetInduction
  <2> QED BY <1>2, <2>3 DEF Good
<1>9. ASSUME NEW t \in mst_nodes
      PROVE  Depth(t) = dep[t]
  <2> DEFINE Here(k) == t \in N[k] /\ (k = 0 \/ t \notin N[k - 1])
  <2>1. dep[t] \in 0 .. NumTables
    BY <1>1, <1>2
  <2>2. \A k \in 0 .. NumTables : t \in N[k] <=> dep[t] <= k
    BY <1>8 DEF D
  <2>3. t \in N[NumTables]
    BY <1>2, <2>1, <2>2
  <2>4. \A k \in 0 .. NumTables : Here(k) <=> k = dep[t]
    <3> TAKE k \in 0 .. NumTables
    <3>1. CASE k = 0
      BY <1>2, <2>1, <2>2, <3>1
    <3>2. CASE k # 0
      <4>1. k - 1 \in 0 .. NumTables
        BY <1>2, <3>2
      <4>2. t \in N[k - 1] <=> dep[t] <= k - 1
        BY <2>2, <4>1
      <4> QED BY <1>2, <2>1, <2>2, <3>2, <4>2
    <3> QED BY <3>1, <3>2
  <2>5. Depth(t) = CHOOSE k \in 0 .. NumTables : Here(k)
    BY <2>3 DEF Depth, N
  <2> HIDE DEF Here
  <2> QED BY <2>1, <2>4, <2>5
<1>10. ASSUME NEW t \in Tables \ mst_nodes
       PROVE  Depth(t) = -1
  <2>1. t \notin N[NumTables]
    BY <1>2, <1>8 DEF D
  <2> QED BY <2>1 DEF Depth, N
<1> QED BY <1>9, <1>10

\* One iteration of Prim's algorithm.
LEMMA GrowTreeStep ==
    ASSUME GrownTree, edges \in Graph, GrowTree
    PROVE  GrownTree'
<1>1. PICK up, dep :
        /\ Hangs(mst_nodes, root, up, dep)
        /\ \A a, b \in Tables : Neighbours(a, b) <=> TreeEdge(mst_nodes, root, up, a, b)
  BY DEF GrownTree
<1>2. PICK e \in Tables \X Tables :
        /\ Linked(edges, e[1], e[2])
        /\ (e[1] \in mst_nodes) # (e[2] \in mst_nodes)
        /\ mst_edges' = mst_edges \cup {e}
        /\ mst_nodes' = mst_nodes \cup {e[1], e[2]}
  BY DEF GrowTree, BestEdges, Crossing
<1>3. UNCHANGED <<edges, root>>
  BY DEF GrowTree, allvars, vars
<1>4. PICK m \in mst_nodes, n \in Tables \ mst_nodes : e = <<m, n>> \/ e = <<n, m>>
  <2>1. e[1] \in Tables /\ e[2] \in Tables /\ e = <<e[1], e[2]>>
    OBVIOUS
  <2>2. CASE e[1] \in mst_nodes
    BY <1>2, <2>1, <2>2
  <2>3. CASE e[1] \notin mst_nodes
    <3>1. e[2] \in mst_nodes
      BY <1>2, <2>3
    <3> QED BY <2>1, <2>3, <3>1
  <2> QED BY <2>2, <2>3
<1> DEFINE all == mst_nodes \cup {n}
           u == [x \in all |-> IF x = n THEN m ELSE up[x]]
           d == [x \in all |-> IF x = n THEN dep[m] + 1 ELSE dep[x]]
<1>5. mst_nodes' = all
  BY <1>2, <1>4
<1>6. Hangs(all, root, u, d)
  BY <1>1, <1>4, TreeGrows
<1>7. /\ mst_nodes \subseteq Tables /\ root \in mst_nodes /\ up \in [mst_nodes -> mst_nodes]
      /\ n \notin mst_nodes /\ m \in mst_nodes /\ n # root /\ n # m
      /\ m \in Tables /\ n \in Tables
  BY <1>1, <1>4 DEF Hangs
<1>8. /\ u[n] = m
      /\ \A x \in mst_nodes : u[x] = up[x] /\ x # n /\ up[x] \in mst_nodes
      /\ \A x \in all : x = n \/ x \in mst_nodes
  BY <1>7
<1>9. ASSUME NEW a \in Tables, NEW b \in Tables
      PROVE  Neighbours(a, b)' <=> TreeEdge(all, root, u, a, b)
  <2>1. Neighbours(a, b)' <=> Neighbours(a, b) \/ (a = m /\ b = n) \/ (a = n /\ b = m)
    <3>1. Neighbours(a, b)' <=> <<a, b>> \in mst_edges' \/ <<b, a>> \in mst_edges'
      BY DEF Neighbours
    <3>2. /\ <<a, b>> = e \/ <<b, a>> = e
             <=> (a = m /\ b = n) \/ (a = n /\ b = m)
      BY <1>4
    <3> QED BY <1>2, <3>1, <3>2 DEF Neighbours
  <2>2. Neighbours(a, b) <=> TreeEdge(mst_nodes, root, up, a, b)
    BY <1>1
  <2>3. TreeEdge(all, root, u, a, b) <=>
            TreeEdge(mst_nodes, root, up, a, b) \/ (a = m /\ b = n) \/ (a = n /\ b = m)
    <3>1. CASE a = n
      <4>1. CASE b = n
        BY <1>7, <1>8, <3>1, <4>1 DEF TreeEdge
      <4>2. CASE b # n
        BY <1>7, <1>8, <3>1, <4>2 DEF TreeEdge
      <4> QED BY <4>1, <4>2
    <3>2. CASE a # n
      <4>1. CASE b = n
        BY <1>7, <1>8, <3>2, <4>1 DEF TreeEdge
      <4>2. CASE b # n
        BY <1>7, <1>8, <3>2, <4>2 DEF TreeEdge
      <4> QED BY <4>1, <4>2
    <3> QED BY <3>1, <3>2
  <2> QED BY <2>1, <2>2, <2>3
<1>10. \A x \in mst_edges' : x \in Tables \X Tables /\ Linked(edges, x[1], x[2])
  BY <1>2 DEF GrownTree
<1> HIDE DEF all, u, d
<1>11. \A a, b \in Tables : Neighbours(a, b)' <=> TreeEdge(mst_nodes', root, u, a, b)
  BY <1>5, <1>9
<1>12. Hangs(mst_nodes', root', u, d) /\ root' = root /\ edges' = edges
  BY <1>3, <1>5, <1>6
<1> QED BY <1>10, <1>11, <1>12 DEF GrownTree

\* What LargestIsOnlyRoot asks of the tree.
RootedTree(g, lev, nodes, rt) ==
    /\ Parents(g, rt) = {}
    /\ \A t \in nodes \ {rt} : /\ Cardinality(Parents(g, t)) = 1
                               /\ \A p \in Parents(g, t) : lev[t] = lev[p] + 1
    /\ \A t \in Tables \ nodes : lev[t] = -1
    /\ Connected(g, nodes)

\* The search hangs every table of the tree below the one it was joined to.
LEMMA TreeIsRooted ==
    ASSUME GrownTree, edges \in Graph, NEW g \in Graph, NEW lev,
           \A p, c \in Tables : Linked(g, p, c) <=> ParentOf(p, c),
           \A t \in Tables : lev[t] = Depth(t)
    PROVE  RootedTree(g, lev, mst_nodes, root)
<1>1. PICK up, dep :
        /\ Hangs(mst_nodes, root, up, dep)
        /\ \A a, b \in Tables : Neighbours(a, b) <=> TreeEdge(mst_nodes, root, up, a, b)
  BY DEF GrownTree
<1>2. \A t \in Tables : Depth(t) = IF t \in mst_nodes THEN dep[t] ELSE -1
  BY <1>1, DepthInTree
<1>3. /\ mst_nodes \subseteq Tables /\ root \in mst_nodes /\ up \in [mst_nodes -> mst_nodes]
      /\ dep \in [mst_nodes -> Nat] /\ dep[root] = 0
      /\ \A n \in mst_nodes \ {root} : dep[n] = dep[up[n]] + 1
  BY <1>1 DEF Hangs
<1>4. ASSUME NEW p \in Tables, NEW c \in Tables
      PROVE  Linked(g, p, c) <=> c \in mst_nodes /\ c # root /\ p = up[c]
  <2>1. Linked(g, p, c) <=> Neighbours(p, c) /\ Depth(p) < Depth(c)
    BY DEF ParentOf
  <2>2. Neighbours(p, c) <=> TreeEdge(mst_nodes, root, up, p, c)
    BY <1>1
  <2>3. CASE c \in mst_nodes /\ c # root /\ p = up[c]
    <3>1. p \in mst_nodes /\ dep[p] \in Nat /\ dep[c] = dep[p] + 1
      BY <1>3, <2>3
    <3>2. Depth(p) = dep[p] /\ Depth(c) = dep[c]
      BY <1>2, <2>3, <3>1
    <3> QED BY <2>1, <2>2, <2>3, <3>1, <3>2 DEF TreeEdge
  <2>4. CASE ~ (c \in mst_nodes /\ c # root /\ p = up[c])
    <3> SUFFICES ASSUME TreeEdge(mst_nodes, root, up, p, c), Depth(p) < Depth(c)
                 PROVE  FALSE
      BY <2>1, <2>2, <2>4
    <3>1. p \in mst_nodes /\ c \in mst_nodes /\ p # root /\ c = up[p]
      BY <2>4 DEF TreeEdge
    <3>2. Depth(p) = dep[p] /\ Depth(c) = dep[c] /\ dep[p] = dep[c] + 1 /\ dep[c] \in Nat
      BY <1>2, <1>3, <3>1
    <3> QED BY <3>2
  <2> QED BY <2>3, <2>4
<1>5. Parents(g, root) = {}
  BY <1>3, <1>4 DEF Parents
<1>6. ASSUME NEW t \in mst_nodes \ {root}
      PROVE  /\ Cardinality(Parents(g, t)) = 1
             /\ \A p \in Parents(g, t) : lev[t] = lev[p] + 1
  <2>1. t \in Tables /\ up[t] \in mst_nodes /\ up[t] \in Tables
    BY <1>3
  <2>2. Parents(g, t) = {up[t]}
    BY <1>4, <2>1 DEF Parents
  <2>3. Cardinality({up[t]}) = 1
    BY FS_Singleton
  <2>4. lev[t] = dep[t] /\ lev[up[t]] = dep[up[t]]
    BY <1>2, <2>1
  <2> QED BY <1>3, <2>2, <2>3, <2>4
<1>7. \A t \in Tables \ mst_nodes : lev[t] = -1
  BY <1>2
<1>8. Connected(g, mst_nodes)
  <2> SUFFICES ASSUME NEW S \in (SUBSET mst_nodes) \ {{}, mst_nodes}
               PROVE  \E n \in S, m \in mst_nodes \ S : Linked(g, n, m) \/ Linked(g, m, n)
    BY DEF Connected
  <2> DEFINE Far == IF root \in S THEN mst_nodes \ S ELSE S
             Depths == {dep[x] : x \in Far}
  <2>1. Far # {} /\ root \notin Far /\ Far \subseteq mst_nodes
    BY <1>3
  <2> HIDE DEF Far
  <2>2. Depths \subseteq Nat /\ Depths # {}
    BY <1>3, <2>1
  <2> HIDE DEF Depths
  <2>3. PICK k \in Depths : \A o \in Depths : k <= o
    BY <2>2, LeastNat
  <2>4. PICK x \in Far : dep[x] = k
    BY DEF Depths
  <2>5. x \in mst_nodes /\ x # root /\ up[x] \in mst_nodes /\ x \in Tables /\ up[x] \in Tables
    BY <1>3, <2>1
  <2>6. up[x] \notin Far
    <3> SUFFICES ASSUME up[x] \in Far PROVE FALSE
      OBVIOUS
    <3>1. dep[x] <= dep[up[x]]
      BY <2>3, <2>4 DEF Depths
    <3>2. dep[x] = dep[up[x]] + 1 /\ dep[up[x]] \in Nat
      BY <1>3, <2>5
    <3> QED BY <3>1, <3>2
  <2>7. Linked(g, up[x], x)
    BY <1>4, <2>5
  <2> QED BY <2>1, <2>4, <2>5, <2>6, <2>7 DEF Far
<1> QED BY <1>5, <1>6, <1>7, <1>8 DEF RootedTree

TreeInv ==
    /\ heuristic \in {"join_order", "largest_root"}
    /\ heuristic = "join_order" => stage # "tree"
    /\ heuristic = "largest_root" =>
        /\ \A t \in Tables : card[t] <= card[root]
        /\ stage = "tree" => GrownTree
        /\ (stage # "tree" /\ card[root] > 0) => RootedTree(edges, level, mst_nodes, root)

LEMMA HInitTreeInv == HInit => TreeInv
<1> SUFFICES ASSUME HInit PROVE TreeInv
  OBVIOUS
<1>1. CASE heuristic = "join_order" /\ PInit
  BY <1>1 DEF PInit, Init, TreeInv
<1>2. CASE /\ heuristic = "largest_root" /\ stage = "tree"
           /\ root \in LargestTables /\ mst_nodes = {root} /\ mst_edges = {}
  <2>1. root \in Tables /\ \A t \in Tables : card[t] <= card[root]
    BY <1>2 DEF LargestTables
  <2> DEFINE up  == [n \in {root} |-> root]
             dep == [n \in {root} |-> 0]
  <2>2. Hangs(mst_nodes, root, up, dep)
    BY <1>2, <2>1, OneTable
  <2>3. \A a, b \in Tables : ~ Neighbours(a, b) /\ ~ TreeEdge(mst_nodes, root, up, a, b)
    BY <1>2 DEF Neighbours, TreeEdge
  <2> HIDE DEF up, dep
  <2>4. GrownTree
    BY <1>2, <2>2, <2>3 DEF GrownTree
  <2> QED BY <1>2, <2>1, <2>4 DEF TreeInv
<1> QED BY <1>1, <1>2 DEF HInit

\* The graph that the search leaves has the edges it met.
LEMMA TreeIsBuilt ==
    ASSUME TreeInv, StageInv, BuildRootedTree, heuristic = "largest_root"
    PROVE  TreeInv'
<1>1. /\ stage = "tree" /\ stage' = "forward"
      /\ edges' = [e \in Tables \X Tables |->
                    IF card[root] > 0 /\ ParentOf(e[1], e[2]) THEN ColumnsOf(e[1], e[2])
                    ELSE << >>]
      /\ level' = [t \in Tables |-> Depth(t)]
      /\ UNCHANGED <<card, heuristic, treevars>>
  BY DEF BuildRootedTree
<1>2. GrownTree /\ edges \in Graph /\ \A t \in Tables : card[t] <= card[root]
  BY <1>1 DEF TreeInv, StageInv, GraphInv
<1>3. edges' \in Graph
  BY BuildRootedTreeStep DEF StageInv, GraphInv
<1>4. ASSUME card[root] > 0
      PROVE  RootedTree(edges', level', mst_nodes, root)
  <2>1. \A t \in Tables : level'[t] = Depth(t)
    BY <1>1
  <2>2. ASSUME NEW p \in Tables, NEW c \in Tables
        PROVE  Linked(edges', p, c) <=> ParentOf(p, c)
    <3>1. edges'[p, c] = IF ParentOf(p, c) THEN ColumnsOf(p, c) ELSE << >>
      BY <1>1, <1>4
    <3>2. ParentOf(p, c) => ColumnsOf(p, c) # << >>
      <4> SUFFICES ASSUME ParentOf(p, c) PROVE ColumnsOf(p, c) # << >>
        OBVIOUS
      <4>1. <<p, c>> \in mst_edges \/ <<c, p>> \in mst_edges
        BY DEF ParentOf, Neighbours
      <4>2. CASE <<p, c>> \in mst_edges
        BY <1>2, <4>2 DEF ColumnsOf, GrownTree, Linked
      <4>3. CASE <<p, c>> \notin mst_edges
        <5>1. edges[c, p] \in Seq(ColPair) /\ edges[c, p] # << >>
          BY <1>2, <4>1, <4>3 DEF Graph, GrownTree, Linked
        <5> QED BY <4>3, <5>1, SwapSidesFacts DEF ColumnsOf
      <4> QED BY <4>2, <4>3
    <3> QED BY <3>1, <3>2 DEF Linked
  <2> QED BY <1>2, <1>3, <2>1, <2>2, TreeIsRooted
<1>5. mst_nodes' = mst_nodes /\ root' = root /\ card' = card /\ heuristic' = heuristic
  BY <1>1 DEF treevars
<1> QED BY <1>1, <1>2, <1>4, <1>5 DEF TreeInv

LEMMA TreeInvStep == TreeInv /\ StageInv /\ [HNext]_hvars => TreeInv'
<1> SUFFICES ASSUME TreeInv, StageInv, [HNext]_hvars PROVE TreeInv'
  OBVIOUS
<1>1. CASE /\ UNCHANGED <<edges, level, card, heuristic, treevars>>
           /\ stage # "tree" /\ stage' # "tree"
  BY <1>1 DEF TreeInv, treevars
<1>2. CASE UNCHANGED <<edges, level, card, stage, heuristic, treevars>>
  <2>1. GrownTree' <=> GrownTree
    BY <1>2 DEF GrownTree, Neighbours, treevars
  <2> QED BY <1>2, <2>1 DEF TreeInv, treevars
<1>3. CASE heuristic = "join_order" /\ Generate /\ UNCHANGED <<heuristic, treevars>>
  <2>1. stage' # "tree"
    BY <1>3 DEF Generate, Next, ForwardEdge, EndForward, BackwardEdge, EndBackward, AddForward
  <2> QED BY <1>3, <2>1 DEF TreeInv
<1>4. CASE heuristic = "largest_root" /\ GrowTree
  <2>1. stage = "tree" /\ UNCHANGED <<edges, level, card, stage, heuristic, root>>
    BY <1>4 DEF GrowTree, allvars, vars
  <2>2. GrownTree /\ edges \in Graph
    BY <1>4, <2>1 DEF TreeInv, StageInv, GraphInv
  <2>3. GrownTree'
    BY <1>4, <2>2, GrowTreeStep
  <2> QED BY <2>1, <2>3 DEF TreeInv
<1>5. CASE heuristic = "largest_root" /\ BuildRootedTree
  BY <1>5, TreeIsBuilt
<1>6. CASE GenerateStageModifications
  <2>1. /\ stage \in {"forward", "backward"}
        /\ stage' \in {"forward", "backward", "done"}
        /\ UNCHANGED <<edges, level, card, heuristic, treevars>>
    BY <1>6 DEF GenerateStageModifications, ForwardTreeEdge, EndForward, BackwardTreeEdge,
       EndBackward, AddForward
  <2> QED BY <1>1, <2>1
<1>7. CASE PlaceOperators
  BY <1>2, <1>7 DEF PlaceOperators, ApplyStageModifications, LinkProbeFilterToCreateFilter,
     SetupDynamicFilterPushdown, vars
<1>8. CASE UNCHANGED hvars
  BY <1>2, <1>8 DEF hvars, allvars, vars
<1> QED BY <1>3, <1>4, <1>5, <1>6, <1>7, <1>8 DEF HNext

\* The tree invariant holds throughout, whichever heuristic is chosen and
\* however the stages run.
THEOREM TreeInvariant == HSpec => []TreeInv
<1> QED BY HInitTreeInv, TreeInvStep, StageInvariant, PTL DEF HSpec

\* For any number of tables and any join edges, parallel and cyclic ones
\* included: the rooted tree of the largest_root heuristic hangs every table of
\* its component below one parent, a level above it, with the largest table at
\* the top (robust_optimizer.cpp:216-377).
THEOREM LargestRootIsOnlyRoot == HSpec => []LargestIsOnlyRoot
<1>1. TreeInv => LargestIsOnlyRoot
  BY DEF TreeInv, RootedTree, LargestIsOnlyRoot
<1> QED BY <1>1, TreeInvariant, PTL

-----------------------------------------------------------------------------
\* Which edge an operation is for.

\* The columns of an edge, as ChildCols and ParentCols have them for `edges`.
ColsOfChild(g, p, c)  == [i \in DOMAIN g[p, c] |-> <<c, g[p, c][i][2]>>]
ColsOfParent(g, p, c) == [i \in DOMAIN g[p, c] |-> <<p, g[p, c][i][1]>>]

\* Every CREATE of the forward pass is for an edge, and no two are for one edge.
ForEdges(g, f) ==
    \A t \in Tables : \A i \in DOMAIN f[t] : f[t][i].is_create =>
        /\ f[t][i].probe_table \in Tables
        /\ Linked(g, f[t][i].probe_table, t)
        /\ f[t][i].build_columns = ColsOfChild(g, f[t][i].probe_table, t)
        /\ f[t][i].probe_columns = ColsOfParent(g, f[t][i].probe_table, t)
        /\ \A j \in DOMAIN f[t] :
            (f[t][j].is_create /\ f[t][j].probe_table = f[t][i].probe_table) => i = j

EdgesDone(f, tds) ==
    \A t \in Tables : \A i \in DOMAIN f[t] :
        f[t][i].is_create => <<f[t][i].probe_table, t>> \notin tds

\* A forward PROBE of table t reads the filters of a child of t, a backward PROBE
\* tests the columns that t is joined with to one of its parents.
ForwardProbe(g, t, op) ==
    /\ op.build_table \in Tables
    /\ Linked(g, t, op.build_table)
    /\ op.build_columns = ColsOfChild(g, t, op.build_table)
    /\ op.probe_columns = ColsOfParent(g, t, op.build_table)
BackwardProbe(g, t, op) ==
    /\ op.build_columns # << >>
    /\ \E p \in Tables : Linked(g, p, t) /\ op.probe_columns = ColsOfChild(g, p, t)

ProbesForEdges(g, f, b) ==
    \A t \in Tables :
        /\ \A i \in DOMAIN f[t] : ~ f[t][i].is_create => ForwardProbe(g, t, f[t][i])
        /\ \A i \in DOMAIN b[t] : ~ b[t][i].is_create => BackwardProbe(g, t, b[t][i])

EdgeInv ==
    /\ ForEdges(edges, forward_filter_ops)
    /\ stage = "forward" => EdgesDone(forward_filter_ops, todo)
    /\ ProbesForEdges(edges, forward_filter_ops, backward_filter_ops)

\* The forward pass appends a CREATE that is for an edge of its own.
LEMMA AppendForEdge ==
    ASSUME NEW g, NEW f \in [Tables -> Seq(FilterOp)], ForEdges(g, f),
           NEW tds, EdgesDone(f, tds),
           NEW c \in Tables, NEW p \in Tables, c # p, <<p, c>> \in tds, Linked(g, p, c),
           NEW x \in FilterOp, x.is_create, x.probe_table = p,
           x.build_columns = ColsOfChild(g, p, c), x.probe_columns = ColsOfParent(g, p, c),
           NEW y \in FilterOp, ~ y.is_create
    PROVE  LET h == [f EXCEPT ![c] = Append(@, x), ![p] = Append(@, y)] IN
           /\ ForEdges(g, h)
           /\ EdgesDone(h, tds \ {<<p, c>>})
<1> DEFINE h == [f EXCEPT ![c] = Append(@, x), ![p] = Append(@, y)]
<1>1. /\ h[c] = Append(f[c], x) /\ h[p] = Append(f[p], y)
      /\ \A t \in Tables : (t # c /\ t # p) => h[t] = f[t]
  OBVIOUS
<1> HIDE DEF h
<1>2. /\ \A i \in DOMAIN h[c] : (i \in DOMAIN f[c] /\ h[c][i] = f[c][i])
                                \/ (i = Len(f[c]) + 1 /\ h[c][i] = x)
      /\ \A i \in DOMAIN h[p] : (i \in DOMAIN f[p] /\ h[p][i] = f[p][i]) \/ h[p][i] = y
  <2>1. f[c] \in Seq(FilterOp) /\ f[p] \in Seq(FilterOp)
    OBVIOUS
  <2>2. /\ DOMAIN Append(f[c], x) = DOMAIN f[c] \cup {Len(f[c]) + 1}
        /\ \A i \in DOMAIN f[c] : Append(f[c], x)[i] = f[c][i]
        /\ Append(f[c], x)[Len(f[c]) + 1] = x
    BY <2>1, AppendFacts
  <2>3. /\ DOMAIN Append(f[p], y) = DOMAIN f[p] \cup {Len(f[p]) + 1}
        /\ \A i \in DOMAIN f[p] : Append(f[p], y)[i] = f[p][i]
        /\ Append(f[p], y)[Len(f[p]) + 1] = y
    BY <2>1, AppendFacts
  <2> QED BY <1>1, <2>2, <2>3
<1>3. \A t \in Tables : \A i \in DOMAIN h[t] : h[t][i].is_create =>
        \/ i \in DOMAIN f[t] /\ h[t][i] = f[t][i]
        \/ t = c /\ i = Len(f[c]) + 1 /\ h[t][i] = x
  <2> TAKE t \in Tables
  <2>1. CASE t = c
    BY <1>2, <2>1
  <2>2. CASE t = p
    BY <1>2, <2>2
  <2>3. CASE t # c /\ t # p
    BY <1>1, <2>3
  <2> QED BY <2>1, <2>2, <2>3
<1>4. \A i \in DOMAIN f[c] : f[c][i].is_create => f[c][i].probe_table # p
  BY DEF EdgesDone
<1>5. EdgesDone(h, tds \ {<<p, c>>})
  BY <1>3 DEF EdgesDone
<1>6. ForEdges(g, h)
  <2> SUFFICES ASSUME NEW t \in Tables, NEW i \in DOMAIN h[t], h[t][i].is_create
               PROVE  /\ h[t][i].probe_table \in Tables
                      /\ Linked(g, h[t][i].probe_table, t)
                      /\ h[t][i].build_columns = ColsOfChild(g, h[t][i].probe_table, t)
                      /\ h[t][i].probe_columns = ColsOfParent(g, h[t][i].probe_table, t)
                      /\ \A j \in DOMAIN h[t] :
                            (h[t][j].is_create /\ h[t][j].probe_table = h[t][i].probe_table) => i = j
    BY DEF ForEdges
  <2>1. CASE i \in DOMAIN f[t] /\ h[t][i] = f[t][i]
    BY <1>3, <1>4, <2>1 DEF ForEdges
  <2>2. CASE t = c /\ i = Len(f[c]) + 1 /\ h[t][i] = x
    BY <1>3, <1>4, <2>2
  <2> QED BY <1>3, <2>1, <2>2
<1> QED BY <1>5, <1>6 DEF h

LEMMA NoOpsForEdges ==
    ASSUME NEW g, NEW tds
    PROVE  ForEdges(g, NoOps) /\ EdgesDone(NoOps, tds) /\ ProbesForEdges(g, NoOps, NoOps)
<1>1. \A t \in Tables : DOMAIN NoOps[t] = {}
  BY DEF NoOps
<1> QED BY <1>1 DEF ForEdges, EdgesDone, ProbesForEdges

\* The child creates for the edge, the parent probes for it.
LEMMA ForwardForEdge ==
    ASSUME StageInv, EdgeInv, stage = "forward", NEW p \in Tables, NEW c \in Tables,
           <<p, c>> \in todo, \A o \in todo : level[o[2]] <= level[c], AddForward(p, c)
    PROVE  EdgeInv'
<1> DEFINE f  == forward_filter_ops
           cr == CreateOp(c, ChildCols(p, c), p, ParentCols(p, c), TRUE, sequence)
           pr == ProbeOp(c, ChildCols(p, c), p, ParentCols(p, c), TRUE, sequence + 1)
           h  == [f EXCEPT ![c] = Append(@, cr), ![p] = Append(@, pr)]
<1>1. /\ ForEdges(edges, f) /\ EdgesDone(f, todo)
      /\ ProbesForEdges(edges, f, backward_filter_ops)
      /\ f \in [Tables -> Seq(FilterOp)] /\ GraphInv
  BY DEF EdgeInv, StageInv, ForwardInv
<1>2. /\ forward_filter_ops' = h /\ todo' = todo \ {<<p, c>>}
      /\ UNCHANGED <<edges, backward_filter_ops, stage>>
  BY DEF AddForward
<1>3. NewProbes(f, h, c, ChildCols(p, c), p, ParentCols(p, c))
  BY <1>2, AddForwardStep
<1> HIDE DEF h
<1>4. /\ Linked(edges, p, c) /\ level[p] < level[c] /\ level[p] \in Int
      /\ sequence \in Nat /\ sequence + 1 \in Nat
  BY <1>1, NumTablesAssumption DEF GraphInv, LevelledEdges
<1>5. ParentCols(p, c) \in Seq(Tables \X Columns) /\ ChildCols(p, c) \in Seq(Tables \X Columns)
  BY <1>1, <1>4, EdgeColumns
<1>6. ChildCols(p, c) = ColsOfChild(edges, p, c) /\ ParentCols(p, c) = ColsOfParent(edges, p, c)
  BY DEF ColsOfChild, ColsOfParent, ChildCols, ParentCols
<1>7. /\ cr \in FilterOp /\ cr.is_create /\ cr.probe_table = p
      /\ cr.build_columns = ChildCols(p, c) /\ cr.probe_columns = ParentCols(p, c)
  BY <1>4, <1>5 DEF CreateOp, FilterOp
<1>8. pr \in FilterOp /\ ~ pr.is_create
  BY <1>4, <1>5 DEF CreateOp, ProbeOp, FilterOp
<1> HIDE DEF cr, pr, f
<1>9. ForEdges(edges, h) /\ EdgesDone(h, todo \ {<<p, c>>})
  <2>1. c # p
    BY <1>4
  <2> QED BY <1>1, <1>4, <1>6, <1>7, <1>8, <2>1, AppendForEdge DEF h
<1>10. ProbesForEdges(edges, h, backward_filter_ops)
  <2>1. ASSUME NEW t \in Tables, NEW i \in DOMAIN h[t], ~ h[t][i].is_create
        PROVE  ForwardProbe(edges, t, h[t][i])
    <3>1. CASE i \in DOMAIN f[t] /\ h[t][i] = f[t][i]
      BY <1>1, <2>1, <3>1 DEF ProbesForEdges
    <3>2. CASE /\ t = p /\ h[t][i].build_table = c
               /\ h[t][i].build_columns = ChildCols(p, c) /\ h[t][i].probe_columns = ParentCols(p, c)
      BY <1>4, <1>6, <3>2 DEF ForwardProbe
    <3> QED BY <1>3, <2>1, <3>1, <3>2 DEF NewProbes
  <2> QED BY <1>1, <2>1 DEF ProbesForEdges
<1> QED BY <1>2, <1>9, <1>10 DEF EdgeInv

\* The child probes for the edge, whichever filter of the class it reads.
LEMMA BackwardForEdge ==
    ASSUME StageInv, EdgeInv, stage = "backward", NEW p \in Tables, NEW c \in Tables,
           <<p, c>> \in todo, NEW b, NEW bcols, bcols # << >>,
           NewProbes(backward_filter_ops, backward_filter_ops', b, bcols, c, ChildCols(p, c)),
           UNCHANGED <<edges, forward_filter_ops, stage>>
    PROVE  EdgeInv'
<1>1. /\ ForEdges(edges, forward_filter_ops)
      /\ ProbesForEdges(edges, forward_filter_ops, backward_filter_ops) /\ GraphInv
  BY DEF EdgeInv, StageInv
<1>2. Linked(edges, p, c)
  BY <1>1 DEF GraphInv, LevelledEdges
<1>3. ChildCols(p, c) = ColsOfChild(edges, p, c)
  BY DEF ColsOfChild, ChildCols
<1> DEFINE h == backward_filter_ops'
<1>4. ASSUME NEW t \in Tables, NEW i \in DOMAIN h[t], ~ h[t][i].is_create
      PROVE  BackwardProbe(edges, t, h[t][i])
  <2>1. CASE i \in DOMAIN backward_filter_ops[t] /\ h[t][i] = backward_filter_ops[t][i]
    BY <1>1, <1>4, <2>1 DEF ProbesForEdges
  <2>2. CASE t = c /\ h[t][i].build_columns = bcols /\ h[t][i].probe_columns = ChildCols(p, c)
    BY <1>2, <1>3, <2>2 DEF BackwardProbe
  <2> QED BY <1>4, <2>1, <2>2 DEF NewProbes
<1>5. ProbesForEdges(edges, forward_filter_ops, h)
  BY <1>1, <1>4 DEF ProbesForEdges
<1> QED BY <1>1, <1>5 DEF EdgeInv

LEMMA GenerateForEdges ==
    ASSUME StageInv, EdgeInv,
           \/ Next
           \/ ForwardTreeEdge \/ EndForward \/ BackwardTreeEdge \/ EndBackward
    PROVE  EdgeInv'
<1>1. GraphInv /\ todo \subseteq Tables \X Tables
  BY DEF StageInv, GraphInv, LevelledEdges
<1>2. CASE ForwardEdge
  <2>1. stage = "forward" /\ todo # {}
    BY <1>2 DEF ForwardEdge
  <2>2. PICK p \in Tables : <<p, DeepestChild>> \in todo /\ AddForward(p, DeepestChild)
    BY <1>2 DEF ForwardEdge
  <2> DEFINE c == DeepestChild
  <2>3. c \in Tables /\ \A o \in todo : level[o[2]] <= level[c]
    BY <2>1, NextChildren
  <2>4. <<p, c>> \in todo /\ AddForward(p, c)
    BY <2>2
  <2> HIDE DEF c
  <2> QED BY <2>1, <2>3, <2>4, ForwardForEdge
<1>3. CASE ForwardTreeEdge
  <2>1. PICK e \in todo : /\ \A o \in todo : level[o[2]] <= level[e[2]]
                          /\ AddForward(e[1], e[2])
    BY <1>3 DEF ForwardTreeEdge
  <2>2. e[1] \in Tables /\ e[2] \in Tables /\ <<e[1], e[2]>> \in todo /\ stage = "forward"
    BY <1>1, <1>3 DEF ForwardTreeEdge
  <2> QED BY <2>1, <2>2, ForwardForEdge
<1>4. CASE BackwardEdge
  <2>1. /\ stage = "backward"
        /\ UNCHANGED <<edges, classes, level, forward_filter_ops, stage>>
    BY <1>4 DEF BackwardEdge
  <2>2. PICK e \in todo : /\ NextBackward(e)
                          /\ IF SourcesFor(e) = {} THEN NewSource(e)
                             ELSE \E source \in SourcesFor(e) : Broadcast(e, source)
                          /\ todo' = todo \ {e}
    BY <1>4 DEF BackwardEdge
  <2>3. PICK p \in Tables, c \in Tables : e = <<p, c>>
    <3>1. e \in Tables \X Tables
      BY <1>1
    <3> QED BY ONLY <3>1
  <2>4. <<p, c>> \in todo /\ e[1] = p /\ e[2] = c /\ todo' = todo \ {<<p, c>>}
    BY <2>2, <2>3
  <2>5. \A o \in todo : level[c] <= level[o[2]]
    <3>1. todo # {} /\ c = HighestChild
      BY <2>2, <2>4 DEF NextBackward
    <3> QED BY <3>1, NextChildren
  <2>6. CASE SourcesFor(e) = {}
    <3>1. NewSource(e)
      BY <2>2, <2>6
    <3>2. /\ AddBackward(p, c)
          /\ equiv_class_bf_source' = equiv_class_bf_source \cup
                {[class |-> ClassOf(ParentCols(p, c)[1]), table |-> p,
                  columns |-> ParentCols(p, c), index |-> Len(backward_filter_ops[p]) + 1]}
      BY <2>4, <3>1 DEF NewSource
    <3>3. NewProbes(backward_filter_ops, backward_filter_ops',
                    p, ParentCols(p, c), c, ChildCols(p, c))
      BY <2>1, <2>4, <2>5, <3>2, AddBackwardStep
    <3>4. ParentCols(p, c) # << >>
      BY <1>1, <2>4, EdgeColumns DEF GraphInv, LevelledEdges
    <3> QED BY <2>1, <2>4, <3>3, <3>4, BackwardForEdge
  <2>7. CASE SourcesFor(e) # {}
    <3>1. PICK source \in SourcesFor(<<p, c>>) : Broadcast(<<p, c>>, source)
      BY <2>2, <2>3, <2>7
    <3>2. NewProbes(backward_filter_ops, backward_filter_ops',
                    source.table, source.columns, c, ChildCols(p, c))
      BY <2>1, <2>4, <2>5, <3>1, BroadcastStep
    <3>3. source.columns # << >>
      <4>1. source \in equiv_class_bf_source
        BY <3>1 DEF SourcesFor
      <4> QED BY <4>1 DEF StageInv, SourceInv, SourceOk
    <3> QED BY <2>1, <2>4, <3>2, <3>3, BackwardForEdge
  <2> QED BY <2>6, <2>7
<1>5. CASE BackwardTreeEdge
  <2>1. /\ stage = "backward"
        /\ UNCHANGED <<edges, classes, level, forward_filter_ops, equiv_class_bf_source, stage>>
    BY <1>5 DEF BackwardTreeEdge
  <2>2. PICK e \in todo : /\ \A o \in todo : level[e[2]] <= level[o[2]]
                          /\ AddBackward(e[1], e[2]) /\ todo' = todo \ {e}
    BY <1>5 DEF BackwardTreeEdge
  <2>3. e[1] \in Tables /\ e[2] \in Tables /\ e = <<e[1], e[2]>>
    BY <1>1
  <2>4. NewProbes(backward_filter_ops, backward_filter_ops',
                  e[1], ParentCols(e[1], e[2]), e[2], ChildCols(e[1], e[2]))
    BY <2>1, <2>2, <2>3, AddBackwardStep
  <2>5. ParentCols(e[1], e[2]) # << >>
    BY <1>1, <2>2, <2>3, EdgeColumns DEF GraphInv, LevelledEdges
  <2> QED BY <2>1, <2>2, <2>3, <2>4, <2>5, BackwardForEdge
<1>6. CASE EndForward \/ EndBackward
  BY <1>6 DEF EndForward, EndBackward, EdgeInv
<1> QED BY <1>2, <1>3, <1>4, <1>5, <1>6 DEF Next

LEMMA EdgeInvStep == StageInv /\ EdgeInv /\ [HNext]_hvars => EdgeInv'
<1> SUFFICES ASSUME StageInv, EdgeInv, [HNext]_hvars PROVE EdgeInv'
  OBVIOUS
<1>1. CASE Generate \/ GenerateStageModifications
  BY <1>1, GenerateForEdges DEF Generate, GenerateStageModifications
<1>2. CASE BuildRootedTree
  <2>1. /\ stage = "tree" /\ stage' = "forward"
        /\ UNCHANGED <<forward_filter_ops, backward_filter_ops>>
    BY <1>2 DEF BuildRootedTree
  <2>2. forward_filter_ops' = NoOps /\ backward_filter_ops' = NoOps
    BY <2>1 DEF StageInv, ForwardInv, BackwardInv, NoOps
  <2>3. /\ ForEdges(edges', NoOps) /\ EdgesDone(NoOps, todo')
        /\ ProbesForEdges(edges', NoOps, NoOps)
    BY NoOpsForEdges
  <2> QED BY <2>2, <2>3 DEF EdgeInv
<1>3. CASE GrowTree \/ PlaceOperators \/ UNCHANGED hvars
  <2>1. UNCHANGED vars
    BY <1>3 DEF GrowTree, PlaceOperators, ApplyStageModifications, hvars, allvars,
                LinkProbeFilterToCreateFilter, SetupDynamicFilterPushdown
  <2>2. UNCHANGED <<edges, stage, todo, forward_filter_ops, backward_filter_ops>>
    BY <2>1 DEF vars
  <2> QED BY <2>2 DEF EdgeInv
<1> QED BY <1>1, <1>2, <1>3 DEF HNext

LEMMA HInitEdgeInv == HInit => EdgeInv
<1> SUFFICES ASSUME HInit PROVE EdgeInv
  OBVIOUS
<1>1. forward_filter_ops = NoOps /\ backward_filter_ops = NoOps
  BY DEF HInit, PInit, Init, NoOps
<1>2. /\ ForEdges(edges, NoOps) /\ EdgesDone(NoOps, todo)
      /\ ProbesForEdges(edges, NoOps, NoOps)
  BY NoOpsForEdges
<1> QED BY <1>1, <1>2 DEF EdgeInv

-----------------------------------------------------------------------------
\* Which edge an operator of the plan is for.

\* The forward CREATE of a table with one parent is for that edge.
EdgeOp(g, t, op) ==
    /\ (~ op.is_create /\ op.forward) => ForwardProbe(g, t, op)
    /\ (~ op.is_create /\ ~ op.forward) => BackwardProbe(g, t, op)
    /\ (op.is_create /\ op.forward) => \A p \in Parents(g, t) : Parents(g, t) = {p} =>
        op.build_columns = ColsOfChild(g, p, t) /\ op.probe_columns = ColsOfParent(g, p, t)

\* A forward CREATE lies above the forward PROBEs, a backward CREATE above all.
EdgeStack(g, t, ops) ==
    \A i \in DOMAIN ops :
        /\ EdgeOp(g, t, ops[i])
        /\ ops[i].is_create => \A j \in DOMAIN ops :
            (~ ops[j].is_create /\ (ops[j].forward \/ ~ ops[i].forward)) => j < i

\* The parent of an edge probes the child's filter, and with a second pass the
\* child probes too.
EdgesProbed(g, lev, st, both) ==
    \A e \in LevelledEdges(g, lev) :
        /\ \E i \in DOMAIN st[e[1]] : /\ ~ st[e[1]][i].is_create /\ st[e[1]][i].forward
                                      /\ st[e[1]][i].build_table = e[2]
        /\ both => \E i \in DOMAIN st[e[2]] : ~ st[e[2]][i].is_create /\ ~ st[e[2]][i].forward

StackInv ==
    step \in {"link", "pushdown", "planned"} =>
        /\ \A t \in Tables : EdgeStack(edges, t, stacks[t])
        /\ EdgesProbed(edges, level, stacks, pass_mode = "both")

\* The merged operators of the forward pass.
LEMMA ForwardMerged ==
    ASSUME StageInv, EdgeInv, NEW t \in Tables
    PROVE  LET F == MergeCreates(forward_filter_ops[t]) IN
           /\ F \in Seq(FilterOp)
           /\ \A i \in DOMAIN F : F[i].forward = TRUE /\ EdgeOp(edges, t, F[i])
           /\ \A i, j \in DOMAIN F : F[i].is_create => j <= i
           /\ \A j \in DOMAIN forward_filter_ops[t] : ~ forward_filter_ops[t][j].is_create =>
                \E i \in DOMAIN F : F[i] = forward_filter_ops[t][j]
<1> DEFINE ops == forward_filter_ops[t]
           F   == MergeCreates(ops)
           m   == [u \in Tables |-> MergeCreates(forward_filter_ops[u])]
<1>1. /\ ProbesThenCreates(t, ops)
      /\ ForEdges(edges, forward_filter_ops)
      /\ ProbesForEdges(edges, forward_filter_ops, backward_filter_ops)
  BY DEF StageInv, ForwardInv, EdgeInv
<1>2. PassPlaced(level, m, TRUE) /\ m[t] = F
  BY ForwardPlaced
<1> HIDE DEF m
<1>3. \A i \in DOMAIN F : F[i].forward = TRUE
  BY <1>2 DEF PassPlaced
<1>4. /\ F \in Seq(FilterOp)
      /\ \A i, j \in DOMAIN F : F[i].is_create => j <= i
      /\ \A i \in DOMAIN F : ~ F[i].is_create => \E j \in DOMAIN ops : F[i] = ops[j]
      /\ \A j \in DOMAIN ops : ~ ops[j].is_create => \E i \in DOMAIN F : F[i] = ops[j]
      /\ \A i \in DOMAIN F : F[i].is_create =>
            \/ \E j \in DOMAIN ops : ops[j].is_create /\ F[i] = ops[j]
            \/ \E j, k \in DOMAIN ops : j # k /\ ops[j].is_create /\ ops[k].is_create
  BY <1>1, MergeCreatesFacts
<1> HIDE DEF F
<1>5. ASSUME NEW i \in DOMAIN F
      PROVE  EdgeOp(edges, t, F[i])
  <2>1. CASE ~ F[i].is_create
    <3>1. PICK j \in DOMAIN ops : F[i] = ops[j]
      BY <1>4, <2>1
    <3>2. ForwardProbe(edges, t, ops[j])
      BY <1>1, <2>1, <3>1 DEF ProbesForEdges
    <3> QED BY <1>3, <2>1, <3>1, <3>2 DEF EdgeOp
  <2>2. CASE F[i].is_create
    <3> SUFFICES ASSUME NEW p \in Parents(edges, t), Parents(edges, t) = {p}
                 PROVE  /\ F[i].build_columns = ColsOfChild(edges, p, t)
                        /\ F[i].probe_columns = ColsOfParent(edges, p, t)
      BY <2>2 DEF EdgeOp
    <3>1. \A j \in DOMAIN ops : ops[j].is_create =>
            /\ ops[j].probe_table = p
            /\ ops[j].build_columns = ColsOfChild(edges, p, t)
            /\ ops[j].probe_columns = ColsOfParent(edges, p, t)
            /\ \A k \in DOMAIN ops : (ops[k].is_create /\ ops[k].probe_table = p) => j = k
      <4> SUFFICES ASSUME NEW j \in DOMAIN ops, ops[j].is_create
                   PROVE  /\ ops[j].probe_table = p
                          /\ ops[j].build_columns = ColsOfChild(edges, p, t)
                          /\ ops[j].probe_columns = ColsOfParent(edges, p, t)
                          /\ \A k \in DOMAIN ops :
                                (ops[k].is_create /\ ops[k].probe_table = p) => j = k
        OBVIOUS
      <4>1. /\ ops[j].probe_table \in Tables /\ Linked(edges, ops[j].probe_table, t)
            /\ ops[j].build_columns = ColsOfChild(edges, ops[j].probe_table, t)
            /\ ops[j].probe_columns = ColsOfParent(edges, ops[j].probe_table, t)
            /\ \A k \in DOMAIN ops :
                (ops[k].is_create /\ ops[k].probe_table = ops[j].probe_table) => j = k
        BY <1>1 DEF ForEdges
      <4>2. ops[j].probe_table = p
        BY <4>1 DEF Parents
      <4> QED BY <4>1, <4>2
    <3>2. ~ \E j, k \in DOMAIN ops : j # k /\ ops[j].is_create /\ ops[k].is_create
      BY <3>1
    <3>3. PICK j \in DOMAIN ops : ops[j].is_create /\ F[i] = ops[j]
      BY <1>4, <2>2, <3>2
    <3> QED BY <3>1, <3>3
  <2> QED BY <2>1, <2>2
<1> QED BY <1>3, <1>4, <1>5 DEF F

\* Those of the backward pass, or of none.
LEMMA BackwardMerged ==
    ASSUME StageInv, EdgeInv, NEW t \in Tables, NEW ops \in {backward_filter_ops[t], << >>}
    PROVE  LET B == MergeCreates(ops) IN
           /\ B \in Seq(FilterOp)
           /\ \A i \in DOMAIN B : B[i].forward = FALSE /\ EdgeOp(edges, t, B[i])
           /\ \A i, j \in DOMAIN B : B[i].is_create => j <= i
           /\ \A j \in DOMAIN ops : ~ ops[j].is_create => \E i \in DOMAIN B : B[i] = ops[j]
<1> DEFINE B  == MergeCreates(ops)
           mB == [u \in Tables |-> MergeCreates(backward_filter_ops[u])]
           mE == [u \in Tables |-> MergeCreates(<< >>)]
<1>1. /\ ProbesThenCreates(t, ops)
      /\ \A i \in DOMAIN ops : ~ ops[i].is_create => BackwardProbe(edges, t, ops[i])
  <2>1. << >> \in Seq(FilterOp) /\ DOMAIN << >> = {}
    OBVIOUS
  <2>2. ProbesThenCreates(t, << >>)
    BY <2>1 DEF ProbesThenCreates
  <2> QED BY <2>1, <2>2 DEF StageInv, BackwardInv, EdgeInv, ProbesForEdges
<1>2. /\ PassPlaced(level, mB, FALSE) /\ mB[t] = MergeCreates(backward_filter_ops[t])
      /\ PassPlaced(level, mE, FALSE) /\ mE[t] = MergeCreates(<< >>)
  BY BackwardPlaced, NothingPlaced
<1> HIDE DEF mB, mE
<1>3. B = mB[t] \/ B = mE[t]
  BY <1>2
<1>4. \A i \in DOMAIN B : B[i].forward = FALSE
  BY <1>2, <1>3 DEF PassPlaced
<1>5. /\ B \in Seq(FilterOp)
      /\ \A i, j \in DOMAIN B : B[i].is_create => j <= i
      /\ \A i \in DOMAIN B : ~ B[i].is_create => \E j \in DOMAIN ops : B[i] = ops[j]
      /\ \A j \in DOMAIN ops : ~ ops[j].is_create => \E i \in DOMAIN B : B[i] = ops[j]
  BY <1>1, MergeCreatesFacts
<1> HIDE DEF B
<1>6. \A i \in DOMAIN B : EdgeOp(edges, t, B[i])
  BY <1>1, <1>4, <1>5 DEF EdgeOp
<1> QED BY <1>4, <1>5, <1>6 DEF B

LEMMA StackedForEdges ==
    ASSUME NEW g, NEW t \in Tables, NEW F \in Seq(FilterOp), NEW B \in Seq(FilterOp),
           \A i \in DOMAIN F : F[i].forward = TRUE /\ EdgeOp(g, t, F[i]),
           \A i, j \in DOMAIN F : F[i].is_create => j <= i,
           \A i \in DOMAIN B : B[i].forward = FALSE /\ EdgeOp(g, t, B[i]),
           \A i, j \in DOMAIN B : B[i].is_create => j <= i
    PROVE  EdgeStack(g, t, F \o B)
<1> DEFINE s == F \o B
<1>1. \A i \in DOMAIN s :
        \/ i \in DOMAIN F /\ s[i] = F[i]
        \/ i \in Nat /\ i > Len(F) /\ i - Len(F) \in DOMAIN B /\ s[i] = B[i - Len(F)]
  BY ConcatPlaces
<1>2. /\ DOMAIN F = 1 .. Len(F) /\ Len(F) \in Nat
      /\ DOMAIN B \subseteq Nat
  OBVIOUS
<1> HIDE DEF s
<1> SUFFICES ASSUME NEW i \in DOMAIN s
             PROVE  /\ EdgeOp(g, t, s[i])
                    /\ s[i].is_create => \A j \in DOMAIN s :
                        (~ s[j].is_create /\ (s[j].forward \/ ~ s[i].forward)) => j < i
  BY DEF EdgeStack, s
<1>3. EdgeOp(g, t, s[i])
  BY <1>1
<1>4. ASSUME s[i].is_create, NEW j \in DOMAIN s, ~ s[j].is_create, s[j].forward \/ ~ s[i].forward
      PROVE  j < i
  <2>1. i # j /\ i \in Nat /\ j \in Nat
    BY <1>1, <1>2, <1>4
  <2>2. CASE i \in DOMAIN F /\ s[i] = F[i]
    <3>1. j \in DOMAIN F /\ s[j] = F[j]
      BY <1>1, <1>4, <2>2
    <3>2. j <= i
      BY <1>4, <2>2, <3>1
    <3> QED BY <2>1, <3>2
  <2>3. CASE i > Len(F) /\ i - Len(F) \in DOMAIN B /\ s[i] = B[i - Len(F)]
    <3>1. CASE j \in DOMAIN F
      BY <1>2, <2>1, <2>3, <3>1
    <3>2. CASE j - Len(F) \in DOMAIN B /\ s[j] = B[j - Len(F)]
      <4>1. j - Len(F) <= i - Len(F)
        BY <1>4, <2>3, <3>2
      <4> QED BY <1>2, <2>1, <4>1
    <3> QED BY <1>1, <3>1, <3>2
  <2> QED BY <1>1, <2>2, <2>3
<1> QED BY <1>3, <1>4

LEMMA StackInvStep == StageInv /\ PlaceInv /\ EdgeInv /\ StackInv /\ [HNext]_hvars => StackInv'
<1> SUFFICES ASSUME StageInv, PlaceInv, EdgeInv, StackInv, [HNext]_hvars PROVE StackInv'
  OBVIOUS
<1>1. CASE Generate \/ GenerateStageModifications \/ BuildRootedTree
  <2>1. step' \notin {"link", "pushdown", "planned"}
    BY <1>1 DEF Generate, GenerateStageModifications, BuildRootedTree, placement, PlaceInv
  <2> QED BY <2>1 DEF StackInv
<1>2. CASE GrowTree \/ LinkProbeFilterToCreateFilter \/ SetupDynamicFilterPushdown \/ UNCHANGED hvars
  <2>1. /\ UNCHANGED <<edges, level, stacks, pass_mode>>
        /\ step' \in {"link", "pushdown", "planned"} => step \in {"link", "pushdown", "planned"}
    BY <1>2 DEF GrowTree, LinkProbeFilterToCreateFilter, SetupDynamicFilterPushdown,
                hvars, allvars, vars, placement
  <2> QED BY <2>1 DEF StackInv
<1>3. CASE ApplyStageModifications
  <2>1. /\ step = "apply" /\ stage = "done" /\ UNCHANGED <<edges, level, pass_mode>>
        /\ LET backward == IF pass_mode = "forward_only" THEN [t \in Tables |-> << >>]
                           ELSE backward_filter_ops
           IN  stacks' = [t \in Tables |-> Stacked(forward_filter_ops[t], backward[t])]
    BY <1>3 DEF ApplyStageModifications, vars, PlaceInv
  <2> DEFINE back(t) == IF pass_mode = "forward_only" THEN << >> ELSE backward_filter_ops[t]
             F(t)    == MergeCreates(forward_filter_ops[t])
             B(t)    == MergeCreates(back(t))
  <2>2. \A t \in Tables : stacks'[t] = F(t) \o B(t) /\ back(t) \in {backward_filter_ops[t], << >>}
    BY <2>1 DEF Stacked
  <2>3. ASSUME NEW t \in Tables
        PROVE  /\ F(t) \in Seq(FilterOp) /\ B(t) \in Seq(FilterOp)
               /\ EdgeStack(edges, t, stacks'[t])
               /\ \A i \in DOMAIN F(t) : F(t)[i].forward = TRUE
               /\ \A i \in DOMAIN B(t) : B(t)[i].forward = FALSE
               /\ \A j \in DOMAIN forward_filter_ops[t] : ~ forward_filter_ops[t][j].is_create =>
                    \E i \in DOMAIN F(t) : F(t)[i] = forward_filter_ops[t][j]
               /\ \A j \in DOMAIN back(t) : ~ back(t)[j].is_create =>
                    \E i \in DOMAIN B(t) : B(t)[i] = back(t)[j]
    <3>1. /\ F(t) \in Seq(FilterOp)
          /\ \A i \in DOMAIN F(t) : F(t)[i].forward = TRUE /\ EdgeOp(edges, t, F(t)[i])
          /\ \A i, j \in DOMAIN F(t) : F(t)[i].is_create => j <= i
          /\ \A j \in DOMAIN forward_filter_ops[t] : ~ forward_filter_ops[t][j].is_create =>
                \E i \in DOMAIN F(t) : F(t)[i] = forward_filter_ops[t][j]
      BY ForwardMerged
    <3> DEFINE b == back(t)
    <3>2. b \in {backward_filter_ops[t], << >>} /\ stacks'[t] = F(t) \o B(t)
      BY <2>2
    <3> HIDE DEF b, back, F
    <3>3. LET D == MergeCreates(b) IN
          /\ D \in Seq(FilterOp)
          /\ \A i \in DOMAIN D : D[i].forward = FALSE /\ EdgeOp(edges, t, D[i])
          /\ \A i, j \in DOMAIN D : D[i].is_create => j <= i
          /\ \A j \in DOMAIN b : ~ b[j].is_create => \E i \in DOMAIN D : D[i] = b[j]
      BY <3>2, BackwardMerged
    <3>4. B(t) = MergeCreates(b) /\ b = back(t)
      BY DEF b
    <3> HIDE DEF B
    <3>5. EdgeStack(edges, t, F(t) \o B(t))
      BY <3>1, <3>3, <3>4, StackedForEdges
    <3> QED BY <3>1, <3>2, <3>3, <3>4, <3>5
  <2>4. EdgesProbed(edges, level, stacks', pass_mode = "both")
    <3> SUFFICES ASSUME NEW e \in LevelledEdges(edges, level)
                 PROVE  /\ \E i \in DOMAIN stacks'[e[1]] :
                                /\ ~ stacks'[e[1]][i].is_create /\ stacks'[e[1]][i].forward
                                /\ stacks'[e[1]][i].build_table = e[2]
                        /\ pass_mode = "both" => \E i \in DOMAIN stacks'[e[2]] :
                                ~ stacks'[e[2]][i].is_create /\ ~ stacks'[e[2]][i].forward
      BY DEF EdgesProbed
    <3>1. e[1] \in Tables /\ e[2] \in Tables
      BY DEF LevelledEdges
    <3>2. /\ ForwardReduced(forward_filter_ops, e)
          /\ BackwardReduced(backward_filter_ops, classes, e, ParentCols(e[1], e[2])[1])
      BY <2>1 DEF StageInv, ReducedInv
    <3> HIDE DEF F, B, back
    <3>3. \A t \in Tables :
            /\ \A i \in DOMAIN F(t) : \E k \in DOMAIN stacks'[t] : stacks'[t][k] = F(t)[i]
            /\ \A i \in DOMAIN B(t) : \E k \in DOMAIN stacks'[t] : stacks'[t][k] = B(t)[i]
      <4> TAKE t \in Tables
      <4> DEFINE x == F(t)
                 y == B(t)
      <4>1. x \in Seq(FilterOp) /\ y \in Seq(FilterOp) /\ stacks'[t] = x \o y
        BY <2>2, <2>3
      <4> HIDE DEF x, y
      <4>2. /\ \A i \in DOMAIN x : \E k \in DOMAIN (x \o y) : (x \o y)[k] = x[i]
            /\ \A i \in DOMAIN y : \E k \in DOMAIN (x \o y) : (x \o y)[k] = y[i]
        BY <4>1, ConcatPlaces
      <4> QED BY <4>1, <4>2 DEF x, y
    <3>4. \A t \in Tables : \A j \in DOMAIN forward_filter_ops[t] :
            ~ forward_filter_ops[t][j].is_create =>
                \E k \in DOMAIN stacks'[t] : /\ stacks'[t][k] = forward_filter_ops[t][j]
                                             /\ stacks'[t][k].forward
      <4> TAKE t \in Tables
      <4> DEFINE x == F(t)
      <4>1. /\ \A i \in DOMAIN x : x[i].forward = TRUE
            /\ \A j \in DOMAIN forward_filter_ops[t] : ~ forward_filter_ops[t][j].is_create =>
                    \E i \in DOMAIN x : x[i] = forward_filter_ops[t][j]
        BY <2>3
      <4>2. \A i \in DOMAIN x : \E k \in DOMAIN stacks'[t] : stacks'[t][k] = x[i]
        BY <3>3
      <4> HIDE DEF x
      <4> QED BY ONLY <4>1, <4>2
    <3>5. \A t \in Tables : \A j \in DOMAIN back(t) : ~ back(t)[j].is_create =>
                \E k \in DOMAIN stacks'[t] : /\ stacks'[t][k] = back(t)[j]
                                             /\ ~ stacks'[t][k].forward
      <4> TAKE t \in Tables
      <4> DEFINE x == B(t)
                 y == back(t)
      <4>1. /\ \A i \in DOMAIN x : x[i].forward = FALSE
            /\ \A j \in DOMAIN y : ~ y[j].is_create => \E i \in DOMAIN x : x[i] = y[j]
        BY <2>3
      <4>2. \A i \in DOMAIN x : \E k \in DOMAIN stacks'[t] : stacks'[t][k] = x[i]
        BY <3>3
      <4>3. \A j \in DOMAIN y : ~ y[j].is_create =>
                \E k \in DOMAIN stacks'[t] : stacks'[t][k] = y[j] /\ ~ stacks'[t][k].forward
        <5> HIDE DEF x, y
        <5> QED BY ONLY <4>1, <4>2
      <4> QED BY ONLY <4>3 DEF y
    <3>6. PICK p \in Tables, c \in Tables : e = <<p, c>>
      <4>1. e \in Tables \X Tables
        BY DEF LevelledEdges
      <4> QED BY ONLY <4>1
    <3>7. e[1] = p /\ e[2] = c
      BY <3>6
    <3>8. \E i \in DOMAIN stacks'[p] : /\ ~ stacks'[p][i].is_create /\ stacks'[p][i].forward
                                       /\ stacks'[p][i].build_table = c
      <4>1. PICK j \in DOMAIN forward_filter_ops[p] :
                /\ ~ forward_filter_ops[p][j].is_create
                /\ forward_filter_ops[p][j].build_table = c
        BY <3>2, <3>7 DEF ForwardReduced
      <4>2. PICK k \in DOMAIN stacks'[p] : /\ stacks'[p][k] = forward_filter_ops[p][j]
                                           /\ stacks'[p][k].forward
        BY <3>4, <4>1
      <4> QED BY <4>1, <4>2
    <3>9. ASSUME pass_mode = "both"
          PROVE  \E i \in DOMAIN stacks'[c] : ~ stacks'[c][i].is_create /\ ~ stacks'[c][i].forward
      <4>1. PICK j \in DOMAIN backward_filter_ops[c] : ~ backward_filter_ops[c][j].is_create
        BY <3>2, <3>7 DEF BackwardReduced
      <4>2. back(c) = backward_filter_ops[c]
        BY <3>9 DEF back
      <4> QED BY <3>5, <4>1, <4>2
    <3> QED BY <3>7, <3>8, <3>9
  <2> QED BY <2>1, <2>3, <2>4 DEF StackInv
<1> QED BY <1>1, <1>2, <1>3 DEF HNext, PlaceOperators

\* Every operator of the plan is for an edge of the graph, every edge has its
\* operators, and they lie in the order the reduction needs.
THEOREM OperatorsForEdges == HSpec => [](StageInv /\ PlaceInv /\ EdgeInv /\ StackInv)
<1>1. HInit => EdgeInv /\ StackInv
  BY HInitEdgeInv DEF HInit, PInit, StackInv
<1>2. StageInv /\ PlaceInv /\ EdgeInv /\ StackInv /\ [HNext]_hvars => (EdgeInv /\ StackInv)'
  BY EdgeInvStep, StackInvStep
<1> QED BY <1>1, <1>2, PlaceInvariant, PTL DEF HSpec


-----------------------------------------------------------------------------
\* Filters of a table with one parent.

\* What SetupDynamicFilterPushdown leaves.
PlannedInv ==
    step = "planned" =>
        /\ passthrough = PushedProbes
        /\ \A pos \in PushedProbes :
            /\ related_create[pos] \in DOMAIN pushdown_targets
            /\ ToSet(Op(pos).probe_columns) \subseteq pushdown_targets[related_create[pos]]

LEMMA PlannedInvStep == PlaceInv /\ PlannedInv /\ [HNext]_hvars => PlannedInv'
<1> SUFFICES ASSUME PlaceInv, PlannedInv, [HNext]_hvars PROVE PlannedInv'
  OBVIOUS
<1>1. CASE UNCHANGED <<gets, stacks, related_create, passthrough, pushdown_targets, step>>
  <2>1. PushedProbes' = PushedProbes /\ \A pos : Op(pos)' = Op(pos)
    BY <1>1 DEF PushedProbes, Op
  <2> QED BY <1>1, <2>1 DEF PlannedInv
<1>2. CASE Generate \/ GenerateStageModifications \/ ApplyStageModifications
           \/ LinkProbeFilterToCreateFilter
  <2>1. step' # "planned"
    BY <1>2 DEF Generate, GenerateStageModifications, ApplyStageModifications,
                LinkProbeFilterToCreateFilter
  <2> QED BY <2>1 DEF PlannedInv
<1>3. CASE GrowTree \/ BuildRootedTree \/ UNCHANGED hvars
  BY <1>1, <1>3 DEF GrowTree, BuildRootedTree, hvars, allvars, placement
<1>4. CASE SetupDynamicFilterPushdown
  <2> DEFINE pushed(c) == UNION {ToSet(Op(pos).probe_columns) :
                            pos \in {p \in PushedProbes : related_create[p] = c}}
  <2>1. /\ step = "pushdown" /\ passthrough' = PushedProbes
        /\ UNCHANGED <<gets, stacks, related_create>>
        /\ pushdown_targets' = [c \in {p \in Creates : Op(p).forward} |-> pushed(c)]
    BY <1>4 DEF SetupDynamicFilterPushdown
  <2>2. PushedProbes' = PushedProbes /\ \A pos : Op(pos)' = Op(pos)
    BY <2>1 DEF PushedProbes, Op
  <2>3. ASSUME NEW pos \in PushedProbes
        PROVE  /\ related_create[pos] \in {p \in Creates : Op(p).forward}
               /\ ToSet(Op(pos).probe_columns) \subseteq pushed(related_create[pos])
    <3>1. pos \in DOMAIN related_create /\ Op(related_create[pos]).forward
      BY DEF PushedProbes
    <3>2. /\ pos[1] \in Tables /\ pos[2] \in DOMAIN stacks[pos[1]] /\ pos = <<pos[1], pos[2]>>
          /\ ~ stacks[pos[1]][pos[2]].is_create
      BY <2>1, <3>1 DEF PlaceInv, OnlyProbes
    <3>3. LinkOk(stacks, pos, related_create[pos])
      BY <2>1, <3>2 DEF PlaceInv, Linking
    <3>4. related_create[pos] \in Creates
      BY <3>3, PositionFacts DEF LinkOk, Creates
    <3> QED BY <3>1, <3>4
  <2> HIDE DEF pushed
  <2>4. \A pos \in PushedProbes :
            /\ related_create[pos] \in DOMAIN pushdown_targets'
            /\ ToSet(Op(pos).probe_columns) \subseteq pushdown_targets'[related_create[pos]]
    BY <2>1, <2>3
  <2> QED BY <2>1, <2>2, <2>4 DEF PlannedInv
<1> QED BY <1>2, <1>3, <1>4 DEF HNext, PlaceOperators

LEMMA PlannedInvariant == HSpec => [](PushInv /\ PlannedInv)
<1>1. HInit => PushInv /\ PlannedInv
  <2> SUFFICES ASSUME HInit PROVE PushInv /\ PlannedInv
    OBVIOUS
  <2>1. /\ related_create = << >> /\ passthrough = {} /\ pushdown_targets = << >>
        /\ step = "generate"
    BY DEF HInit, PInit
  <2> QED BY <2>1 DEF PushInv, PlannedInv
<1>2. /\ PlaceInv /\ PushInv /\ [HNext]_hvars => PushInv'
      /\ PlaceInv /\ PlannedInv /\ [HNext]_hvars => PlannedInv'
  BY PushInvStep, PlannedInvStep
<1> QED BY <1>1, <1>2, PlaceInvariant, PTL DEF HSpec

\* What links a forward PROBE of a table's only parent with its CREATE: both are
\* for the same edge, and so have the same columns.
LEMMA SameColumns ==
    ASSUME PlaceInv, StackInv, step \in {"pushdown", "planned"},
           NEW pos \in DOMAIN related_create, Op(pos).forward,
           Cardinality(Parents(edges, Op(pos).build_table)) <= 1
    PROVE  LET op == Op(pos)
               create == Op(related_create[pos])
           IN  /\ Linked(edges, pos[1], op.build_table)
               /\ op.build_columns = ColsOfChild(edges, pos[1], op.build_table)
               /\ op.probe_columns = ColsOfParent(edges, pos[1], op.build_table)
               /\ create.build_columns = op.build_columns
               /\ create.probe_columns = op.probe_columns
<1> DEFINE t  == pos[1]
           op == Op(pos)
           b  == op.build_table
           c  == related_create[pos]
<1>1. /\ t \in Tables /\ pos[2] \in DOMAIN stacks[t] /\ pos = <<t, pos[2]>>
      /\ op = stacks[t][pos[2]] /\ ~ op.is_create
  BY DEF PlaceInv, OnlyProbes, Op
<1>2. LinkOk(stacks, pos, c)
  BY <1>1 DEF PlaceInv, Linking
<1>3. ForwardProbe(edges, t, op)
  BY <1>1 DEF StackInv, EdgeStack, EdgeOp
<1>4. /\ b \in Tables /\ Linked(edges, t, b)
      /\ op.build_columns = ColsOfChild(edges, t, b)
      /\ op.probe_columns = ColsOfParent(edges, t, b)
  BY <1>3 DEF ForwardProbe
<1>5. /\ c[1] = b /\ c[2] \in DOMAIN stacks[b] /\ Op(c) = stacks[b][c[2]]
      /\ Op(c).is_create /\ Op(c).forward
  BY <1>1, <1>2 DEF LinkOk, Op
<1>6. Parents(edges, b) = {t}
  <2>1. t \in Parents(edges, b) /\ Parents(edges, b) \subseteq Tables
    BY <1>1, <1>4 DEF Parents
  <2> HIDE DEF t, b, op
  <2>2. IsFiniteSet(Parents(edges, b)) /\ Cardinality(Parents(edges, b)) \in Nat
    BY <2>1, FewTables
  <2>3. Cardinality(Parents(edges, b)) <= 1
    BY DEF b, op
  <2>4. Cardinality(Parents(edges, b)) # 0
    BY <2>1, <2>2, FS_EmptySet
  <2>5. Cardinality(Parents(edges, b)) = 1
    BY <2>2, <2>3, <2>4
  <2>6. \E x : Parents(edges, b) = {x}
    BY <2>2, <2>5, FS_Singleton
  <2> QED BY <2>1, <2>6
<1>7. EdgeOp(edges, b, Op(c))
  BY <1>4, <1>5 DEF StackInv, EdgeStack
<1>8. t \in Parents(edges, b)
  BY <1>6
<1> HIDE DEF t, b, c, op
<1>9. Op(c).build_columns = ColsOfChild(edges, t, b) /\ Op(c).probe_columns = ColsOfParent(edges, t, b)
  BY <1>5, <1>6, <1>7, <1>8 DEF EdgeOp
<1> QED BY <1>4, <1>9 DEF t, b, c, op

\* A table with one parent loses no forward filter to the pushdown
\* (robust_optimizer.cpp:1452-1505, physical_create_filter.cpp:390-401).
THEOREM SingleParentPushed == HSpec => []SingleParentIsPushed
<1>1. PlaceInv /\ PushInv /\ StageInv /\ StackInv /\ PlannedInv => SingleParentIsPushed
  <2> SUFFICES ASSUME PlaceInv, PushInv, StageInv, StackInv, PlannedInv,
                      NEW pos \in passthrough,
                      Cardinality(Parents(edges, Op(pos).build_table)) = 1,
                      NEW i \in DOMAIN Op(pos).probe_columns,
                      \A k \in 1 .. i - 1 : Op(pos).probe_columns[k] # Op(pos).probe_columns[i]
               PROVE  ReachScan(pos, i) = {Op(pos).build_columns[i]}
    BY DEF SingleParentIsPushed
  <2> DEFINE t      == pos[1]
             c      == related_create[pos]
             build  == Op(c).build_columns
             probe  == Op(c).probe_columns
             target == Op(pos).probe_columns[i]
  <2>1. /\ step = "planned" /\ pos \in PushedProbes /\ pos \in DOMAIN related_create
        /\ Op(pos).forward /\ Op(pos).probe_table \in gets
    BY DEF PushInv, PlannedInv, PushedProbes
  <2>2. /\ Linked(edges, t, Op(pos).build_table)
        /\ Op(pos).build_columns = build /\ Op(pos).probe_columns = probe
        /\ build = ColsOfChild(edges, t, Op(pos).build_table)
        /\ probe = ColsOfParent(edges, t, Op(pos).build_table)
    BY <2>1, SameColumns
  <2>3. target \in pushdown_targets[c]
    BY <2>1 DEF PlannedInv, ToSet
  <2>4. /\ DOMAIN build = DOMAIN probe
        /\ \A k \in DOMAIN probe : k \in Nat /\ k >= 1
    <3>1. edges \in Graph /\ t \in Tables
      BY <2>1 DEF StageInv, GraphInv, PlaceInv, OnlyProbes
    <3>2. Op(pos).build_table \in Tables
      <4>1. ForwardProbe(edges, t, Op(pos))
        BY <2>1 DEF StackInv, EdgeStack, EdgeOp, PlaceInv, OnlyProbes, Op
      <4> QED BY <4>1 DEF ForwardProbe
    <3>3. edges[t, Op(pos).build_table] \in Seq(ColPair)
      BY <3>1, <3>2 DEF Graph
    <3>4. /\ DOMAIN build = DOMAIN edges[t, Op(pos).build_table]
          /\ DOMAIN probe = DOMAIN edges[t, Op(pos).build_table]
      BY <2>2 DEF ColsOfChild, ColsOfParent
    <3> DEFINE pairs == edges[t, Op(pos).build_table]
    <3>5. pairs \in Seq(ColPair) /\ DOMAIN build = DOMAIN pairs /\ DOMAIN probe = DOMAIN pairs
      BY <3>3, <3>4
    <3> HIDE DEF pairs, build, probe
    <3>6. DOMAIN pairs = 1 .. Len(pairs) /\ Len(pairs) \in Nat
      BY <3>5
    <3> QED BY ONLY <3>5, <3>6
  <2>5. ReachScan(pos, i) = PushedFrom(c, target)
    BY <2>1, <2>3 DEF ReachScan
  <2> DEFINE at    == {k \in DOMAIN build \cap DOMAIN probe : probe[k] = target}
             first == {j \in at : \A k \in at : j <= k}
  <2>6. PushedFrom(c, target) = {build[j] : j \in first}
    BY DEF PushedFrom
  <2>7. i \in DOMAIN probe /\ probe[i] = target /\ \A k \in 1 .. i - 1 : probe[k] # target
    BY <2>2
  <2>8. Op(pos).build_columns[i] = build[i]
    BY <2>2
  <2> HIDE DEF build, probe, target, c, t
  <2>9. i \in at /\ \A k \in at : i <= k
    <3>1. ASSUME NEW k \in at PROVE i <= k
      <4>1. k \in Nat /\ k >= 1 /\ i \in Nat /\ i >= 1 /\ probe[k] = target
        BY <2>4, <2>7
      <4>2. k \notin 1 .. i - 1
        BY <2>7, <4>1
      <4> QED BY <4>1, <4>2
    <3> QED BY <2>4, <2>7, <3>1
  <2>10. first = {i}
    <3>1. \A k \in at : k \in Nat
      BY <2>4
    <3> HIDE DEF at
    <3> QED BY <2>9, <3>1
  <2> HIDE DEF first
  <2>11. {build[j] : j \in first} = {build[i]}
    BY <2>10
  <2> QED BY <2>5, <2>6, <2>8, <2>11
<1> QED BY <1>1, PlannedInvariant, OperatorsForEdges, PTL

-----------------------------------------------------------------------------
\* Edges of a graph without cycles.

\* The level loops reach them all.
LevelInv ==
    (stage # "tree" /\ Acyclic(edges)) =>
        \A p, c \in Tables : Linked(edges, p, c) => level[c] >= 1

LEMMA HInitLevelInv == HInit => LevelInv
<1> SUFFICES ASSUME HInit, stage # "tree", Acyclic(edges),
                    NEW p \in Tables, NEW c \in Tables, Linked(edges, p, c)
             PROVE  level[c] >= 1
  BY DEF LevelInv
<1>1. \A n \in Tables : level[n] = Level(edges, n)
  BY DEF HInit, PInit, Init
<1>2. Level(edges, c) >= 0
  BY AcyclicLevels
<1>3. 0 <= Level(edges, p) /\ Level(edges, p) < Level(edges, c)
  BY <1>2, LevelsGrow
<1>4. Level(edges, p) \in Int /\ Level(edges, c) \in Int
  BY LevelIs, NumTablesAssumption
<1> QED BY <1>1, <1>3, <1>4

\* The search meets a child after its parent.
LEMMA TreeIsLevelled ==
    ASSUME TreeInv, StageInv, BuildRootedTree, heuristic = "largest_root",
           NEW p \in Tables, NEW c \in Tables, Linked(edges', p, c)
    PROVE  level'[c] >= 1
<1>1. /\ stage = "tree"
      /\ edges' = [e \in Tables \X Tables |->
                    IF card[root] > 0 /\ ParentOf(e[1], e[2]) THEN ColumnsOf(e[1], e[2])
                    ELSE << >>]
      /\ level' = [t \in Tables |-> Depth(t)]
  BY DEF BuildRootedTree
<1>2. ParentOf(p, c)
  BY <1>1 DEF Linked
<1>3. PICK up, dep :
        /\ Hangs(mst_nodes, root, up, dep)
        /\ \A a, b \in Tables : Neighbours(a, b) <=> TreeEdge(mst_nodes, root, up, a, b)
  BY <1>1 DEF TreeInv, GrownTree
<1>4. \A t \in Tables : Depth(t) = IF t \in mst_nodes THEN dep[t] ELSE -1
  BY <1>3, DepthInTree
<1>5. p \in mst_nodes /\ c \in mst_nodes
  BY <1>2, <1>3 DEF ParentOf, TreeEdge
<1>6. dep[p] \in Nat /\ dep[c] \in Nat
  BY <1>3, <1>5 DEF Hangs
<1>7. dep[p] < dep[c]
  BY <1>2, <1>4, <1>5 DEF ParentOf
<1> QED BY <1>1, <1>4, <1>5, <1>6, <1>7

LEMMA LevelInvStep == TreeInv /\ StageInv /\ LevelInv /\ [HNext]_hvars => LevelInv'
<1> SUFFICES ASSUME TreeInv, StageInv, LevelInv, [HNext]_hvars PROVE LevelInv'
  OBVIOUS
<1>1. CASE UNCHANGED <<edges, level>> /\ (stage' # "tree" => stage # "tree")
  BY <1>1 DEF LevelInv
<1>2. CASE heuristic = "join_order" /\ Generate
  <2>1. UNCHANGED <<edges, level>>
    BY <1>2 DEF Generate, Next, ForwardEdge, EndForward, BackwardEdge, EndBackward, AddForward
  <2> QED BY <1>1, <1>2, <2>1 DEF TreeInv
<1>3. CASE GenerateStageModifications
  <2>1. UNCHANGED <<edges, level>> /\ stage # "tree"
    BY <1>3 DEF GenerateStageModifications, ForwardTreeEdge, EndForward, BackwardTreeEdge,
                EndBackward, AddForward
  <2> QED BY <1>1, <2>1
<1>4. CASE GrowTree \/ PlaceOperators \/ UNCHANGED hvars
  BY <1>1, <1>4 DEF GrowTree, PlaceOperators, ApplyStageModifications, hvars, allvars, vars,
                LinkProbeFilterToCreateFilter, SetupDynamicFilterPushdown
<1>5. CASE heuristic = "largest_root" /\ BuildRootedTree
  BY <1>5, TreeIsLevelled DEF LevelInv
<1> QED BY <1>2, <1>3, <1>4, <1>5 DEF HNext

LEMMA EdgesAreLevelled == HSpec => []LevelInv
<1> QED BY HInitLevelInv, LevelInvStep, StageInvariant, TreeInvariant, PTL DEF HSpec

=============================================================================
