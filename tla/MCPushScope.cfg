\* Three commits, three turns: two branches, or the cache on and off, or secrets.
SPECIFICATION Spec
CONSTANTS
    lib = lib
    part = part
    tool = tool
    manifest = manifest
    router = router
    doc = doc
    dist = dist
    rule = rule
    quoted = quoted
    dump = dump
    env = env
    Files <- MCFiles
    Versions <- MCVersions
    RustFiles <- Crates
    WorkerTs <- Worker
    WorkspaceConfig <- Manifests
    WorkerConfig = {}
    EnvFiles <- DotEnv
    TriggerFiles <- Triggers
    Excluded <- DistFiles
    SelfExcluded <- RuleFiles
    Opaque = {}
    Quoted <- QuotedFiles
    Bulky <- BulkyFiles
    Uses <- MCUses
    Inputs <- MCInputs
    ReadBy <- MCReadBy
    Origin <- MCOrigin
    Main = "main"
    Branches = {"main", "topic"}
    Rank <- MCRank
    CacheSettings = {TRUE, FALSE}
    SkipDirtyConfirm = TRUE
    MaxTurns = 3
    MaxCommits = 3
CONSTRAINT OneTopic
INVARIANT SecretsEnterUnseen
PROPERTY PushedTreeAccepted
CHECK_DEADLOCK FALSE
