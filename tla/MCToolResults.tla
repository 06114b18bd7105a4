---------------------------- MODULE MCToolResults ----------------------------
(* Instances of ToolResults for TLC. *)
EXTENDS ToolResults, TLC

\* Most objects in one namespace, in the order of the API, so that the others
\* come after a full page of it; kinds with a regular and an irregular plural.
SomeNamespaces == [n \in Names |-> IF n < 4 THEN "a" ELSE "b"]
SomeKinds == [n \in Names |-> IF n = 1 THEN "ingress" ELSE "service"]
Plurals == [ingress |-> <<"ingress", "es">>, service |-> <<"service", "s">>]
=============================================================================
