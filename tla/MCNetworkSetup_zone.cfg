\* NetworkSetup: three sequential invocations, two zones, every option.
CONSTANTS
    v1 = v1  v2 = v2  s1 = s1  s2 = s2  g1 = g1  g2 = g2  z1 = z1  z2 = z2
    UserVpc = UserVpc  UserSubnet = UserSubnet  NoId = NoId
    VpcIds <- MCVpcIds
    SubnetIds <- MCSubnetIds
    SgIds <- MCSgIds
    Zones <- MCZones
    InitRules <- MCInitRules
    NetModes = {"", "vxlan", "wireguard"}
    MaxRuns = 3
SPECIFICATION Spec
INVARIANT SubnetInZone
