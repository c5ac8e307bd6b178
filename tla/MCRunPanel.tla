------------------------------ MODULE MCRunPanel ------------------------------
(* The instance of RunPanel that TLC checks.                                *)
EXTENDS RunPanel

\* The status changes of RunLifecycle with one worker, those that do not keep
\* the status; "running" comes from a submission or from a resume.
LifeOfARun == {<<"running", "completed">>, <<"running", "interrupted">>,
               <<"interrupted", "running">>}
=============================================================================
