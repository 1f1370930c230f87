------------------------------ MODULE MCImport ------------------------------
\* Instances of Import for TLC.
EXTENDS Import, TLC

CONSTANTS p1, p2, a1, k1, k2, x1, c1

MCHome == (k1 :> <<p1, a1>>) @@ (k2 :> <<p2, a1>>)
MCImported == {<<p1, a1>>}
=============================================================================
