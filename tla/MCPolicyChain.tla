--------------------------- MODULE MCPolicyChain ---------------------------
(***************************************************************************)
(* Chains over the statuses that the contents of MCWorld are reported as,  *)
(* under its policies.                                                     *)
(***************************************************************************)
EXTENDS PolicyChain, MCWorld

MCChainPolicies == MCPolicies \ {NoPolicy}

MCReports ==
  {[EmptyMap EXCEPT !["prices"] = ReportedStatus("prices", prices),
                    !["registry"] = ReportedStatus("registry", registry)] :
     prices \in PricesContents, registry \in RegistryContents}
=============================================================================
