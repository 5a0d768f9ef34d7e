--------------------------- MODULE MCDeployClient ---------------------------
(* Small instances of DeployClient.                                          *)
EXTENDS DeployClient, TLC

CONSTANTS s1, s2, u1, u2, antd, mixbot, mixchat, d0, d1

Symmetry == Permutations(Server) \cup Permutations(UploadId)

MCDigest(c) == <<"sha256", c>>
MCShort(d) == <<"prefix", d[2]>>
MCAllowed(p) == [base : Base, ext : Ext]

\* The patterns of configs/commands.antd-pri-dev.json: antd-pri-dev takes every
\* zip file, mixbot every tarball, mixchat the tarballs named after it.
MCAllowedConfig(p) ==
    CASE p = antd    -> [base : Base, ext : {"zip"} \cap Ext]
      [] p = mixbot  -> [base : Base, ext : {"tar.gz"} \cap Ext]
      [] p = mixchat -> [base : {"mixchat"} \cap Base, ext : {"tar.gz"} \cap Ext]

\* No name and no base is shared: zip files of one, tarballs of the other.
MCAllowedApart(p) ==
    IF p = antd THEN [base : {"app", "long"}, ext : {"zip"}]
                ELSE [base : {"web"}, ext : {"tar.gz"}]

\* An edit may keep a file's length or change it.
FileOne == {<<d0>>}
FilesTwo == {<<d0>>, <<d1>>}
FilesThree == {<<d0>>, <<d1>>, <<d0, d1>>}
MCSha == {MCDigest(f) : f \in LocalFile}
NoData == {}
=============================================================================
