-------------------------- MODULE MCArtifactStore --------------------------
(* Small instances of ArtifactStore.  An artifact is a sequence of one or   *)
(* two units; its digest is a tagged copy of it, so digests are injective   *)
(* and never equal to a content.                                            *)
EXTENDS ArtifactStoreRefinement, TLC

CONSTANTS s1, s2, u1, u2, pa, pb, d0, d1

Symmetry == Permutations(Server) \cup Permutations(UploadId)

MCDigest(c) == <<"sha256", c>>
MCShort(d) == <<"prefix", d[2]>>

\* Both profiles accept every name.
MCAllowedAll(p) == [base : Base, ext : Ext]

OneByte == {<<d0>>}
TwoBytes == {<<d0>>, <<d1>>}
Pieces == {<<>>, <<d0>>, <<d0, d1>>}
ShaOfOne == {MCDigest(<<d0>>)}
Sizes == {0, 1, 2}
SizeOne == {1}
=============================================================================
