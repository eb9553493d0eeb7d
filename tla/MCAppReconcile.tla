--------------------------- MODULE MCAppReconcile ---------------------------
(* The specs a user gives the app: one with an HTTP route, and one that was    *)
(* renamed, has no network policy, and has a TCP route behind TLS.             *)
EXTENDS AppReconcile

MCVariants == {
  [name |-> "old", policy |-> "unset", policyConfig |-> FALSE,
   gateway |-> TRUE, route |-> "http", tls |-> FALSE, issuer |-> FALSE],
  [name |-> "new", policy |-> "false", policyConfig |-> FALSE,
   gateway |-> TRUE, route |-> "http", tls |-> TRUE, issuer |-> TRUE]}
=============================================================================
