-------------------------- MODULE MCTransferPlanner --------------------------
EXTENDS TransferPlanner

\* Every leaf of the plan is a LogicalGet.
MCGetSets == {Tables}
=============================================================================
