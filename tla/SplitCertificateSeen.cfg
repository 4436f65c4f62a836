SPECIFICATION Spec
CONSTANTS
    Wires <- Connections
    Ids = {"a", "b"}
    Suites = {4865, 49199}
    Certs = {"client", "server"}
    NoSession = NoSession
    None = None
INVARIANT SplitCertificateSeen
CHECK_DEADLOCK FALSE
