SPECIFICATION FairSpec
CONSTANT Proc <- ProcDef
CONSTANT Build <- BuildDef
CONSTANT MaxFaults = 1
CONSTANT MaxCrashes = 1
INVARIANT TypeOK
INVARIANT SchemaMatchesVersion
INVARIANT HandleIsMigrated
INVARIANT NewerIsRefused
PROPERTY VersionsAdvanceByOne
PROPERTY RetryingOpens
