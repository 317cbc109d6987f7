SPECIFICATION FairSpec
CONSTANT Proc <- One
CONSTANT Adapters <- OneAdapters
CONSTANT Origin <- OriginDef
CONSTANT Service = {svc}
CONSTANT Source = {"isc", "file"}
CONSTANT SourceOf <- SourceOfDef
CONSTANT Listing <- ListingDef
CONSTANT Id = {1, 2}
CONSTANT svc = svc
CONSTANT fileA = fileA
CONSTANT fileB = fileB
CONSTANT Empty = Empty
CONSTANT None = None
CONSTANT MaxRuns = 2
CONSTANT MaxCrashes = 1
CONSTANT MaxFaults = 1
CONSTANT Overlap = FALSE
CHECK_DEADLOCK FALSE
INVARIANT RunStoresWhatItFetched
INVARIANT CatalogIsReplay
INVARIANT ReportIsBacked
PROPERTY RunCompletes
