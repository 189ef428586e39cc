---------------------------- MODULE MCEngineMain ----------------------------
(* A plain command line and one for each way it can be refused or answered. *)
EXTENDS EngineMain

Line(refused, help, capacity, cpus) ==
  [refused |-> refused, help |-> help, capacity |-> capacity, cpus |-> cpus]

MCArgv ==
  {Line(FALSE, FALSE, 1, {0}), Line(TRUE, TRUE, 1, {}), Line(FALSE, TRUE, 0, {}),
   Line(FALSE, FALSE, 0, {}), Line(FALSE, FALSE, 1, {0, -1})}
==============================================================================
