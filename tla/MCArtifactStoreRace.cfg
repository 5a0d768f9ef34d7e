SPECIFICATION Spec
CONSTANTS
    s1 = s1  s2 = s2  u1 = u1  u2 = u2  pa = pa  pb = pb  d0 = d0  d1 = d1
    Server = {s1, s2}
    UploadId = {u1, u2}
    Profile = {pa, pb}
    Base = {"app"}
    Ext = {"zip"}
    LongBase = {}
    Allowed <- MCAllowedAll
    Byte = {d0, d1}
    Sha <- ShaOfOne
    Digest <- MCDigest
    Short <- MCShort
    MaxUpload = 1
    MaxChunk = 1
    MaxFile = 2
    SizeArg <- SizeOne
    DataArg <- TwoBytes
    Fault = {"manifest", "close", "remove", "crash"}
    Absent = Absent  Empty = Empty  Torn = Torn
SYMMETRY Symmetry
INVARIANTS TypeOK OneOwner ContentAddressed ManifestTruthful DeployUsesCommitted
