--------------------------- MODULE MCExperiments ---------------------------
(***************************************************************************)
(* Instance of Experiments for TLC: campaigns of evaluation and of         *)
(* visualisation.                                                          *)
(***************************************************************************)
EXTENDS Experiments

Symmetry == Permutations(Terminals)

Switch(test, big) == [test |-> test, big |-> big]

MCCampaigns ==
  {[scripts |-> {run_topo, run_topo_no_disturbance}, atOnce |-> 1, seeds |-> {1},
    switches |-> {Switch(FALSE, TRUE), Switch(FALSE, FALSE)}, requests |-> {}],
   [scripts |-> {run_topo}, atOnce |-> 2, seeds |-> Seeds,
    switches |-> {Switch(TRUE, TRUE)}, requests |-> {}],
   [scripts |-> {run_topo, run_topo_small}, atOnce |-> 1, seeds |-> {1},
    switches |-> {Switch(TRUE, TRUE), Switch(TRUE, FALSE)}, requests |-> {}],
   [scripts |-> {run_topo_small_tests}, atOnce |-> 1, seeds |-> Seeds, switches |-> {},
    requests |-> {Request("visualise", 1, 1, NotGiven, NotGiven, seed, "cubic", 5) : seed \in Seeds}],
   [scripts |-> {run_topo_small_tests}, atOnce |-> 1, seeds |-> {1}, switches |-> {},
    requests |-> {Request("visualise", 1, 3, "False", NotGiven, 1, "bbr", 5)}],
   [scripts |-> {run_topo_large_tests}, atOnce |-> 1, seeds |-> {1}, switches |-> {},
    requests |-> {Request("switches", 1, 6, NotGiven, NotGiven, 1, "cubic", 5)}]}

MCSeeds ==
  {[scripts |-> {run_topo_small}, atOnce |-> 2, seeds |-> Seeds, switches |-> {},
    requests |-> {}]}
=============================================================================
