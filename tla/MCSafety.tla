------------------------------- MODULE MCSafety -------------------------------
(* One sensor of each kind; the simulated power meter and the simulated Omega  *)
(* sensor do what the simulated TSP01 does.                                  *)
EXTENDS Safety

CONSTANTS s1

MCSafeties == <<s1>>
MCKinds ==
  {"snmp_ups", "snmp_ups_sim", "thorlabs_tsp01", "thorlabs_tsp01_sim", "thorlabs_pm",
   "omega_ithx_w3", "safety_manual_check"}
MCFaults == [k \in MCKinds |-> IF k = "thorlabs_tsp01" THEN 2 ELSE 1]
==============================================================================
