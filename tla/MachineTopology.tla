--------------------------- MODULE MachineTopology ---------------------------
(***************************************************************************)
(* The machines of machines/*.orca.md that describe the whole pipeline and *)
(* its AI-assisted layer.  They have no guards and no actions, so each is  *)
(* an edge set; they say in which order the pipeline may do things, and    *)
(* are the abstract specifications the pipeline is compared with.          *)
(***************************************************************************)
AiAssessment ==
  {<<"pending", "analyzing">>, <<"analyzing", "revising">>, <<"analyzing", "failed">>,
   <<"revising", "complete">>, <<"revising", "failed">>}

DocumentPipeline ==
  {<<"received", "ingesting">>, <<"ingesting", "validating">>, <<"ingesting", "failed">>,
   <<"validating", "assessing">>, <<"validating", "failed">>,
   <<"assessing", "complete">>, <<"assessing", "failed">>}
=============================================================================
