SPECIFICATION FairSpec
CONSTANTS
    z1 = z1
    z2 = z2
    d1 = d1
    d2 = d2
    ip1 = ip1
    None = None
    Zones <- OneZone
    Domains = {d1}
    Ips = {ip1}
    Under <- OneZoneUnder
    NameOrder <- OneZoneOrder
    Configs <- PairConfigs
    JwtLife = 2
    Margin = 1
    CacheTtl = 1
    MaxGen = 0
    DnsTtl = 2
INVARIANTS ProtectedZoneHidden ListedIpExpires
PROPERTIES ImplementsLink CopiesConverge
