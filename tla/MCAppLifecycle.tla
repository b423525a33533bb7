--------------------------- MODULE MCAppLifecycle ---------------------------
(* Instances of AppLifecycle: the second component object implements Named. *)
EXTENDS AppLifecycle, TLC

CONSTANTS n1, n2, o1, o2

MCOwnName == (o1 :> NoName) @@ (o2 :> n2)
=============================================================================
