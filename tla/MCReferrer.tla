----------------------------- MODULE MCReferrer -----------------------------
(* Instances of Referrer for TLC.                                              *)
EXTENDS Referrer, TLC

CONSTANTS t1, t2, n1, d1

\* Every connection of this node has a port of its own, so no two peers see it
\* under the same name.
MCSees == [p \in {t1, t2, n1} |-> <<"name", p>>]

TopsAlike == Permutations({t1, t2})
=============================================================================
