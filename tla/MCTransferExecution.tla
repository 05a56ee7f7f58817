------------------------- MODULE MCTransferExecution -------------------------
EXTENDS TransferExecution, MCGraphs

\* A table between two others is not scanned by a LogicalGet.
MCGetSets == {{0, 2}}

\* With a single join the optimizer leaves the plan as it is.
MCInputs    == {in \in ForeignKeyInputs : Cardinality(EquatedBy(in.edges)) > 1}
MCJoinEdges == {in \in JoinTreeInputs : Connected(in.edges, Tables)}

\* Column 0 joins as a key, column 1 as a foreign key; values dangle on both.
Row(k, f) == (0 :> k) @@ (1 :> f)
MCRows == {{}, {Row(0, 0)}, {Row(0, 0), Row(1, 1)}, {Row(0, 1), Row(1, 0)}}
MCContents ==
    {d \in [Tables -> MCRows] : Cardinality({t \in Tables : d[t] = {}}) <= 1}

\* These contents with filters that make no mistakes, and those without an empty
\* table also with filters that let everything pass.
MCExecutions ==
    {[data |-> d, hash |-> [v \in 0 .. 1 |-> v]] : d \in MCContents}
    \cup {[data |-> d, hash |-> [v \in 0 .. 1 |-> 0]] :
            d \in [Tables -> {{Row(0, 0)}, {Row(0, 1), Row(1, 0)}}]}

\* What the theorem about sound plans asks of the inputs.
ASSUME MCInputsAreSound == SoundInputs
=============================================================================
