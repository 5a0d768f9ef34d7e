SPECIFICATION ClientSpec
CONSTANTS
    s1 = s1  s2 = s2  u1 = u1  u2 = u2  antd = antd  mixbot = mixbot  mixchat = mixchat  d0 = d0  d1 = d1
    Server = {s1, s2}
    UploadId = {u1, u2}
    Profile = {antd}
    Base = {"app"}
    Ext = {"zip"}
    LocalExt = {"zip"}
    LongBase = {}
    Allowed <- MCAllowed
    Byte = {d0, d1}
    Sha <- MCSha
    Digest <- MCDigest
    Short <- MCShort
    MaxUpload = 2
    MaxChunk = 2
    MaxFile = 2
    SizeArg <- NoData
    DataArg <- NoData
    LocalFile <- FilesTwo
    Fault = {"rename", "command", "crash"}
    ClientFault = {"lost", "edit", "read"}
    LossBound = 3
    Absent = Absent  Empty = Empty  Torn = Torn
SYMMETRY Symmetry
INVARIANTS ClientTypeOK DeploysItsOwnFile ManifestHasFile
PROPERTIES CommittedStays NothingLeftBehind
