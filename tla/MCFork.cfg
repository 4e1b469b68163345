\* The pipeline carries out the policy, and the walk returns what the block means.
SPECIFICATION FairForkSpec
CONSTANTS
    SNI = server_name
    ECH = encrypted_client_hello
    PSK = pre_shared_key
    ParsedTypes = {alpn}
    OtherTypes = {early_data}
    github = github
    GitHub = GitHub
    githob = githob
    githab = githab
    gitlab = gitlab
    example = example
    Hosts <- MCHosts
    FoldCase <- MCFoldCase
    AllowCache <- MCCache
    Brands <- MCBrands
    Distance <- MCDistance
    MaxDistance = 2
    Parents = {"browser", "mail"}
    Elevated = {"mail"}
    MaxExts = 2
    MaxPlainExts = 4
    Blocks <- MCBlocks
    None = None
INVARIANTS TypeOK OutcomeIsMeaning EchMasksHost NativeIsVisibleAndCached EvidenceComplete
PROPERTIES PolicySpec EveryConnectionRouted
CHECK_DEADLOCK FALSE
