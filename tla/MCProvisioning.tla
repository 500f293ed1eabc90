---------------------------- MODULE MCProvisioning ----------------------------
(* The deployments of the repository as instances of Provisioning.         *)
EXTENDS Provisioning

\* Any of them, in any order, each at most once.
MCAnyPlan ==
    {p \in UNION {[1..n -> 1..4] : n \in 0..4} :
        \A i, j \in DOMAIN p : p[i] = p[j] => i = j}

=============================================================================
