SPECIFICATION Spec
CONSTANTS
    s1 = s1  s2 = s2  u1 = u1  u2 = u2  pa = pa  pb = pb  d0 = d0  d1 = d1
    Server = {s1, s2}
    UploadId = {u1, u2}
    Profile = {pa}
    Base = {"app"}
    Ext = {"zip", "tar.gz"}
    LongBase = {}
    Allowed <- MCAllowedAll
    Byte = {d0, d1}
    Sha <- ShaOfOne
    Digest <- MCDigest
    Short <- MCShort
    MaxUpload = 1
    MaxChunk = 1
    MaxFile = 2
    SizeArg <- Sizes
    DataArg <- Pieces
    Fault = {"create", "write", "hash", "rename", "manifest", "remove", "command", "crash"}
    Absent = Absent  Empty = Empty  Torn = Torn
SYMMETRY Symmetry
CONSTRAINT Orderly
INVARIANTS AcknowledgedBytes
PROPERTIES ImplementsRegistry
