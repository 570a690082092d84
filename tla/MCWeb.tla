------------------------------- MODULE MCWeb -------------------------------
(***************************************************************************)
(* The instance of Web that TLC checks: three clients on two slots.  They  *)
(* are alike, so that one order of each choice of requests is enough.      *)
(***************************************************************************)
EXTENDS Web

CONSTANTS c1, c2, c3

Plan(a, b, d) ==
  [c \in Conns |-> CASE c = c1 -> a [] c = c2 -> b [] OTHER -> d]

MCPlans ==
  { Plan("login", "save", "save"), Plan("login", "save", "mac"),
    Plan("page", "wrong_login", "save"), Plan("login", "bad_mac", "save") }

=============================================================================
