-------------------------- MODULE MCCdfApplication --------------------------
(* Small instance of CdfApplication: two readable files, one that cannot   *)
(* be opened and one that is not a distribution.                           *)
EXTENDS CdfApplication

MCFiles == {"web", "hadoop", "missing", "garbage"}
MCMissing == {"missing"}
MCGarbage == {"garbage"}
MCAverageOf == [f \in {"web", "hadoop"} |-> IF f = "web" THEN 1 ELSE 2]
MCSizesOf == [f \in {"web", "hadoop"} |-> IF f = "web" THEN {1} ELSE {1, 3}]
=============================================================================
