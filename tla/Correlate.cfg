SPECIFICATION FairSpec
CONSTANT N = 5
INVARIANT TypeOK
INVARIANT PartitionIsClosure
INVARIANT GroupsPartition
INVARIANT GroupsExplained
PROPERTY Termination
CHECK_DEADLOCK FALSE
