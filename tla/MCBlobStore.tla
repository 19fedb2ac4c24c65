----------------------------- MODULE MCBlobStore -----------------------------
EXTENDS BlobStore, TLC

CONSTANTS w1, w2, r1, n1, n2

TwoWriters == {w1, w2}
OneReader == {r1}
TwoNames == {n1, n2}
BothSizes == {1, 2}

BlobSymmetry == Permutations(TwoWriters) \cup Permutations(TwoNames)
=============================================================================
