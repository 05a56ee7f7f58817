---------------------------- MODULE MCFilterSink ----------------------------
EXTENDS FilterSink, TLC

CONSTANTS c1, c2, c3

\* Inputs of up to three chunks: single values, NULLs, two values in a chunk.
Rows == {<<0>>, <<1>>, <<3, 0>>, <<NULL>>, <<NULL, 3>>}
MCInputs == UNION {[cs -> Rows] : cs \in {{}, {c1}, {c1, c2}, {c1, c2, c3}}}

\* Rows of a floating-point column, with a NaN before or after other values.
FloatRows == {<<0>>, <<NaN, 0>>, <<1, NaN>>}
MCFloatInputs == UNION {[cs -> FloatRows] : cs \in {{c1}, {c1, c2}}}

Setting(forward, targets, type, estimate) ==
    [is_forward_pass |-> forward, has_targets |-> targets, filter_type |-> type,
     estimated_cardinality |-> estimate]

MCOperators ==
    {Setting(TRUE, TRUE, type, 1) : type \in {"all", "bf_only", "minmax_only"}} \cup
    {Setting(TRUE, FALSE, "all", 0), Setting(FALSE, FALSE, "all", 0),
     Setting(FALSE, FALSE, "all", 9), Setting(TRUE, FALSE, "all", 5)}

MCFloatOperators == {Setting(TRUE, TRUE, "all", 1)}

Symmetry == Permutations(Threads)
=============================================================================
