SPECIFICATION Spec
CONSTANTS
    z1 = z1
    z2 = z2
    d1 = d1
    d2 = d2
    ip1 = ip1
    None = None
    Zones = {z1, z2}
    Domains = {d1, d2}
    Ips = {ip1}
    Under <- NestedUnder
    NameOrder <- NestedOrder
    Configs <- NestedConfigs
    JwtLife = 2
    Margin = 1
    CacheTtl = 2
    MaxGen = 0
    DnsTtl = 1
INVARIANTS PrivateZonesRequireToken
