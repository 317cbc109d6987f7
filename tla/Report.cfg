SPECIFICATION ReportSpec
CONSTANT Source = {"isc", "file"}
CONSTANT Id = {1}
CONSTANT Body = {"first", "revised"}
CONSTANT None = "none"
CONSTANT Says <- MCSays
CONSTANT TimeOf <- MCTimeOf
CONSTANT Rank <- MCRank
CONSTANT Path = {"a.json"}
CONSTANT Options <- MCOptions
CONSTANT MaxCommands = 2
CHECK_DEADLOCK FALSE
INVARIANT ReportIsOneInstant
