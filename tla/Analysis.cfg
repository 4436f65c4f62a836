SPECIFICATION Spec
CONSTANTS
    Captures <- Files
    Models <- ModelSet
    MaxFlows = 11
    MaxStreamBytes = 20
    PageCap = 3
INVARIANTS
    TypeOK
    EvidenceInv
    JudgedInv
    PacketsAccounted
    ScenarioVerdict
    VerdictLocal
    LocalInv
    EvidenceBelongs
    FusionBounded
    WorseCountsMore
    HostFindingsExact
    ExpiryExclusive
    ReportAgrees
    PagesCover
