SPECIFICATION Spec
CONSTANTS
    Hosts = {"c1", "c2", "v1", "v2"}
    WrittenPorts = {"", "443", "80", "8443"}
    SiteLists <- TwoSites
INVARIANTS
    OneOwner
    FollowedHome
    SavedHome
PROPERTIES
    NoDoubleRewrite
