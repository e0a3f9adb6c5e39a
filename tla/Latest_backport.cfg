SPECIFICATION Spec
CONSTANTS
    Parts = {"catalogue"}
    Ids = {1, 2}
    Usernames = {"root", "eve"}
    Subs = {"s", "t"}
    Emails = {"m"}
    Roles = {2}
    Calls = {r1, r2}
    MaxVer = 1
    MaxCalls = 4
    Null = null
    OrgIds = {"a", "b"}
    NoOrg = "none"
    ServedConfigs <- AccessConfigs
    Callers <- AccessCallers
    Slots = {s1, s2}
    Pushes <- IngressPushes
    Watches = {"w1", "w2", "w3"}
    WatchOf <- IngressWatchOf
    lower <- IngressLower
    Admits <- IngressTags
    Listed <- IngressTags
    Fresh = {"w2"}
    Secret = TRUE
    Missing = "none"
    MaxFaults = 1
    MaxRequests = 2
    Documents <- SecretsDocuments
    Templates <- SecretsTemplates
    Labels = {"n4"}
    Values = {"p1", "p2"}
    Slug <- SecretsSlug
    Environ <- SecretsEnviron
    Forges = {"github", "gitlab"}
    Nothing = "-"
    MaxEdits = 2
    Careful = TRUE
    MaxApplies = 2
    Catalogue <- TenantsCatalogue
    Drafts <- TenantsDrafts
    Builtin <- TenantsBuiltin
    MaxPushes = 2
    Setups <- SinksSetups
    Events <- SinksEvents
    TestEvent <- SinksTest
    MaxSends = 2
    Lists <- ChannelsLists
    Variables <- ChannelsVariables
    MaxTurns = 3
    Procs = {"p1", "p2"}
    Binary <- StartupBinary
    Files <- StartupFiles
    Envs <- StartupEnvs
    Databases <- StartupDatabases
    Savable = {"s"}
    MaxStarts = 2
    MaxSaves = 1
    Releases = {1, 2, 3}
    Versioned = {3}
    DateOf <- CatalogueDates
    MaxSteps = 4
    Versions = {1, 2}
    Vulns = {x, y}
    Answers = {{x}, {y}}
    Lookers = {"sweep", "delivery"}
    Batch = 1
    Threshold = 1
    CacheMax = 1
    MaxNews = 1
    MaxFailures = 0
CHECK_DEADLOCK FALSE
INVARIANT StoredTagIsNewest
