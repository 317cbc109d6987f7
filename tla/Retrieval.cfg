SPECIFICATION Spec
CONSTANT Sources <- SourcesDef
CONSTANT max_response_bytes = 2
CONSTANT max_redirects = 1
CONSTANT MaxSent = 3
CONSTANT max_input_bytes <- InputLimits
CONSTANT MaxRequests = 2
CONSTANT MaxRecords = 2
CONSTANT max_depth = 2
CONSTANT max_string_bytes = 4
CONSTANT max_container_members = 2
CONSTANT max_exponent10 = 1
CONSTANT min_exponent10 <- SmallestOrder
CONSTANT FirstTokens <- Lone
CONSTANT ValueTokens <- Inside
CONSTANT OtherTokens <- Elsewhere
CONSTANT max_children = 2
CONSTANT max_text_bytes = 2
CONSTANT max_element_depth = 1
CONSTANT MaxTokens = 6
CONSTANT LongNames <- TooLong
CONSTANT PrologTokens <- Before
CONSTANT EarlyTokens <- Early
CONSTANT ContentTokens <- Content
CONSTANT max_rows = 2
CONSTANT max_columns = 2
CONSTANT max_field_bytes = 2
CONSTANT Tables <- MCTables
CONSTANT Texts <- MCTexts
CHECK_DEADLOCK FALSE
INVARIANT JsonAcceptsItsGrammar
INVARIANT JsonRefusesNoDocument
INVARIANT WrittenIsReadBack
INVARIANT XmlReturnsItsTree
INVARIANT XmlRefusesWhatIsWrong
INVARIANT CsvReadsItsTable
INVARIANT FetchTellsTheTruth
