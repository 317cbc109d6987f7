SPECIFICATION Spec
CONSTANT Proc <- Two
CONSTANT Adapters <- TwoAdapters
CONSTANT Origin <- OriginDef
CONSTANT Service = {svc}
CONSTANT Source = {"isc", "file"}
CONSTANT SourceOf <- SourceOfDef
CONSTANT Listing <- ListingDef
CONSTANT Id = {1, 2}
CONSTANT svc = svc
CONSTANT fileA = fileA
CONSTANT fileB = fileB
CONSTANT Empty = Empty
CONSTANT None = None
CONSTANT MaxRuns = 3
CONSTANT MaxCrashes = 1
CONSTANT MaxFaults = 0
CONSTANT Overlap = FALSE
CHECK_DEADLOCK FALSE
INVARIANT Traceable
INVARIANT ReportIsBacked
PROPERTY KeepsEvidence
