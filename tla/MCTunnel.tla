------------------------------ MODULE MCTunnel ------------------------------
EXTENDS Tunnel, TLC
CONSTANTS t1, g1, g2, k1, k2
OneStop == t1 :> "stop"

Sym == Permutations({g1, g2}) \cup Permutations({k1, k2})
=============================================================================
