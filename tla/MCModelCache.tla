---------------------------- MODULE MCModelCache -----------------------------
(* Small deployments of ModelCache; callers are alike, and so are engines. *)
EXTENDS ModelCache, TLC

CONSTANTS valid1, valid2, broken

AllModels == {valid1, valid2, broken}
Broken == {broken}

Deployment(engines, persistent, sources, maxSaves, maxDefault) ==
    [engines |-> engines, persistent |-> persistent, sources |-> sources,
     maxSaves |-> maxSaves, maxDefault |-> maxDefault]

\* Two processes on one store.
Shared == Deployment(Engines, TRUE, {valid1}, 2, 0)
\* One process that is given models which do not compile, and numbered defaults.
Updated(e) == Deployment({e}, TRUE, {valid1, broken}, 3, 2)
\* No store: revisions are numbered from the cache.
Embedded(e) == Deployment({e}, FALSE, {valid1, valid2, broken}, 3, 1)

AllDeployments == {Shared} \cup {Updated(e) : e \in Engines} \cup {Embedded(e) : e \in Engines}

MCSymmetry == Permutations(Callers) \cup Permutations(Engines)
=============================================================================
