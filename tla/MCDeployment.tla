----------------------------- MODULE MCDeployment -----------------------------
(* Small instance of Deployment: command lines of each program.            *)
EXTENDS Deployment

Line(program, apps, rated, congested) ==
  [program |-> program, apps |-> apps, rated |-> rated, congested |-> congested]

MCFlags ==
  {Line("trafficgen_small", 2, rated, congested) :
     rated \in {{1}, {1, 2, 3}}, congested \in {{}, {1}}}
  \union {Line("trafficgen_small_tests", 2, {1, 2}, {1})}
  \union {Line("trafficgen", 2, {1, 3}, congested) : congested \in {{}, {2}, {1, 3}}}
  \union {Line("trafficgen_large_tests", 1, {2}, {})}

MCCongestedFlags == {Line("trafficgen_large_tests", 1, {2}, congested) :
                       congested \in {{1}, {2, 3}}}
=============================================================================
