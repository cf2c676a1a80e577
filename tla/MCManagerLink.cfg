SPECIFICATION FairLinkSpec
CONSTANTS
    Configs = {c1, c2}
    JwtLife = 3
    Margin = 1
    CacheTtl = 3
    MaxGen = 1
    None = None
INVARIANTS TypeOK FreshWhileJwtValid EnforcedRecently
PROPERTIES RetiredNeverRenewed Converges
