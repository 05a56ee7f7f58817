----------------------------- MODULE FilterLift -----------------------------
(***************************************************************************)
(* LiftCreateFilterAboveMarkJoin and then LiftCreateFilterAboveFilter: the *)
(* filter operators stacked on a scan are lifted above the MARK joins and  *)
(* FILTERs over that scan, so that filters are built from filtered rows.   *)
(*                                                                         *)
(* Both look only along first children, so the plan falls apart into       *)
(* spines: the operators from a scan up, each the first child of the next. *)
(* What hangs below a second child travels with its join.  A spine is a    *)
(* sequence, the scan first; an operator is a record of its kind, the      *)
(* columns it uses and those it adds for the operators above it (named by  *)
(* the table, or by the mark, they come from).                             *)
(***************************************************************************)
EXTENDS Integers, Sequences, FiniteSets, SequencesExt

CONSTANTS
    Sources,     \* the tables, and the marks, that columns come from
    Spines       \* the spines a behaviour may start from

Kinds     == {"SCAN", "PROBE", "CREATE", "JOIN", "MARK", "FILTER"}
Operators == [kind : Kinds, uses : SUBSET Sources, gives : SUBSET Sources,
              pass : {"query", "forward", "backward"}]

\* One scan, at the bottom; each operator adds columns of its own and finds
\* those it uses below it.
IsPlan(s) ==
    /\ s \in Seq(Operators) /\ s # << >>
    /\ \A i \in DOMAIN s : s[i].kind = "SCAN" <=> i = 1
    /\ \A i, j \in DOMAIN s : i # j => s[i].gives \cap s[j].gives = {}
    /\ \A k \in DOMAIN s : s[k].uses \subseteq UNION {s[i].gives : i \in 1 .. k - 1}

ASSUME SpinesAssumption == \A s \in Spines : IsPlan(s)

VARIABLES
    spine,      \* the spine as it is now
    pass,       \* "MARK", "FILTER", "done"
    cursor      \* the operators up to this position have been visited

vars == <<spine, pass, cursor>>

-----------------------------------------------------------------------------

KindsBelow(k, kind) == {i \in 1 .. k - 1 : spine[i].kind = kind}

\* Mutant of DeepestCreate: the first one met from above.
NearestCreate(k) ==
    CHOOSE d \in KindsBelow(k, "CREATE") : \A o \in KindsBelow(k, "CREATE") : d >= o

\* FindDeepestCreateFilter: the lowest CREATE below position k, whatever
\* operators lie in between.
DeepestCreate(k) ==
    CHOOSE d \in KindsBelow(k, "CREATE") : \A o \in KindsBelow(k, "CREATE") : d <= o

\* Mutants of MoveBelow: the operator is not put back; it is put back one too
\* low; the CREATE is lifted without what lies on it.
TakeOut(k, d)     == RemoveAt(spine, k)
MoveTooFar(k, d)  == InsertAt(RemoveAt(spine, k), d - 1, spine[k])
LiftAlone(k, d)   == InsertAt(RemoveAt(spine, d), k, spine[d])

\* The operator at k goes below the deepest CREATE: the block of operators from
\* that CREATE up to k is placed above it.
MoveBelow(k, d) == InsertAt(RemoveAt(spine, k), d, spine[k])

Init ==
    /\ spine \in Spines
    /\ pass = "MARK"
    /\ cursor = 0

\* One node of the recursion, children first.
Visit(kind) ==
    /\ pass = kind
    /\ cursor < Len(spine)
    /\ LET k == cursor + 1
       IN  IF spine[k].kind = kind /\ KindsBelow(k, "CREATE") # {}
           THEN spine' = MoveBelow(k, DeepestCreate(k))
           ELSE UNCHANGED spine
    /\ cursor' = cursor + 1
    /\ UNCHANGED pass

LiftCreateFilterAboveMarkJoin == Visit("MARK")
LiftCreateFilterAboveFilter   == Visit("FILTER")

\* Optimize runs the pass over the MARK joins first.
EndPass ==
    /\ pass \in {"MARK", "FILTER"}
    /\ cursor = Len(spine)
    /\ pass' = IF pass = "MARK" THEN "FILTER" ELSE "done"
    /\ cursor' = 0
    /\ UNCHANGED spine

Next == LiftCreateFilterAboveMarkJoin \/ LiftCreateFilterAboveFilter \/ EndPass

Spec == Init /\ [][Next]_vars

-----------------------------------------------------------------------------

TypeOK ==
    /\ spine \in Seq(Operators)
    /\ pass \in {"MARK", "FILTER", "done"}
    /\ cursor \in 0 .. Len(spine)

\* Afterwards every filter is built above all conditions of its spine: "so bloom
\* filters are built from filtered output" (robust_optimizer.cpp:1665).
FiltersSeeFilteredRows ==
    pass = "done" => \A i, k \in DOMAIN spine :
        (spine[i].kind = "CREATE" /\ spine[k].kind \in {"MARK", "FILTER"}) => k < i

\* The operators of the two passes, each with the number of those below it, keep
\* their order on the spine, which linking and the order of the pipelines rely on.
BuildsAndProbes(s) ==
    LET filters == {i \in DOMAIN s : s[i].kind \in {"CREATE", "PROBE"}}
    IN  {<<Cardinality({j \in filters : j < i}), s[i]>> : i \in filters}

StackOrderKept == [][BuildsAndProbes(spine') = BuildsAndProbes(spine)]_vars

\* The columns the operator at k finds in its input.
VisibleAt(k) == UNION {spine[i].gives : i \in 1 .. k - 1}

Resolves(k) == spine[k].uses \subseteq VisibleAt(k)

ScanColumns == UNION {op.gives : op \in {o \in ToSet(spine) : o.kind = "SCAN"}}

\* A lifted-over condition on the scanned table alone, and on marks computed
\* from it, finds its columns whenever the visit is between two operators: in
\* particular no FILTER sinks below the MARK join whose result it tests.
LocalConditions == {k \in DOMAIN spine :
    \A x \in spine[k].uses : x \in ScanColumns \/
        \E m \in DOMAIN spine : /\ spine[m].kind = "MARK"
                                /\ x \in spine[m].gives
                                /\ spine[m].uses \subseteq ScanColumns}

LocalConditionsResolve == \A k \in LocalConditions : Resolves(k)

=============================================================================
