SPECIFICATION Spec
CONSTANTS
    INT_MAX = 4
    BIGINT_MAX = 9
    STOI_MAX = 4
    YYINITDEPTH = 16
    JOIN_BUFFER_BYTES = 4
    BUFFER_LENGTH = 260
    MESSAGE_LENGTH = 8
    CompareInTable = FALSE
    Tables <- MCTables
    Databases <- MCDatabases
    Sessions <- MCSessions
INVARIANTS ParsedAsWritten EveryStatementParses AnswerExact ShownExact DmlExact  RowsBounded
