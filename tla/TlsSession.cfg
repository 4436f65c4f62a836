\* Eight connections, every cut of their messages into records, every end of
\* the capture.
SPECIFICATION Spec
CONSTANTS
    Wires <- Connections
    Ids = {"a", "b"}
    Suites = {4865, 49199}
    Certs = {"client", "server"}
    NoSession = NoSession
    None = None
INVARIANTS ReportExact NothingInvented TlsInv ParserMatchesPipeline KeepsPace
CHECK_DEADLOCK FALSE
