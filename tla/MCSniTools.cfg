CONSTANTS
    None = None
    MaxLines = 3
    HostNames <- MCHostNames
    Corpora <- MCCorpora
    Arguments <- MCArguments
    Hellos <- MCHellos
    TopN = 2
    BarWidth = 30

SPECIFICATION Spec
INVARIANTS TallyIsCorpus ReportRanksHosts ToolsAgree
CHECK_DEADLOCK FALSE
