---------------------------- MODULE MCThreadPool ----------------------------
\* Instances of ThreadPool for TLC.
EXTENDS ThreadPool

CONSTANTS w1, w2, p1, p2, s1, s2, k1, k2, k3
=============================================================================
