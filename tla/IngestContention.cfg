SPECIFICATION Spec
CONSTANT Proc <- Two
CONSTANT Adapters <- TwoAdapters
CONSTANT Origin <- OriginDef
CONSTANT Service = {svc}
CONSTANT Source = {"isc", "file"}
CONSTANT SourceOf <- SourceOfDef
CONSTANT Listing <- ListingDef
CONSTANT Id = {1, 2}
CONSTANT svc = svc
CONSTANT fileA = fileA
CONSTANT fileB = fileB
CONSTANT Empty = Empty
CONSTANT None = None
CONSTANT MaxRuns = 2
CONSTANT MaxCrashes = 0
CONSTANT MaxFaults = 0
CONSTANT Overlap = TRUE
CHECK_DEADLOCK FALSE
INVARIANT Traceable
