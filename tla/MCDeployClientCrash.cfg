SPECIFICATION ClientSpec
CONSTANTS
    s1 = s1  s2 = s2  u1 = u1  u2 = u2  antd = antd  mixbot = mixbot  mixchat = mixchat  d0 = d0  d1 = d1
    Server = {s1}
    UploadId = {u1, u2}
    Profile = {antd}
    Base = {"app"}
    Ext = {"zip"}
    LocalExt = {"zip"}
    LongBase = {}
    Allowed <- MCAllowed
    Byte = {d0, d1}
    Sha <- MCSha
    Digest <- MCDigest
    Short <- MCShort
    MaxUpload = 2
    MaxChunk = 1
    MaxFile = 2
    SizeArg <- NoData
    DataArg <- NoData
    LocalFile <- FileOne
    Fault = {"crash"}
    ClientFault = {}
    LossBound = 3
    Absent = Absent  Empty = Empty  Torn = Torn
INVARIANTS CommittedIsDeployable
