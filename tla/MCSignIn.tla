------------------------------ MODULE MCSignIn ------------------------------
(* Two requests in one process.  Either passwords are tried, against a      *)
(* window of two ticks, or two logins go through the provider, next to one  *)
(* password, while its keys change.                                         *)
EXTENDS SignIn, TLC

CONSTANTS p1, r1, r2, s1, b1, b2, alice, bob, n1, n2

MCProcess  == {p1}
MCRequest  == {r1, r2}
MCSource   == {s1}
MCBrowser  == {b1, b2}
MCPerson   == {alice, bob}
MCName     == {n1, n2}
MCAccounts == {}
MCSymmetry ==
  Permutations(MCRequest) \cup Permutations(MCBrowser)
    \cup Permutations(MCPerson) \cup Permutations(MCName)

Budget(a, l, t, o, k) ==
  [attempts |-> a, logins |-> l, rotations |-> t, accidents |-> o, ticks |-> k]
MCBudgets == {Budget(6, 0, 0, 2, 3), Budget(1, 2, 0, 2, 0), Budget(0, 2, 1, 0, 4)}
=============================================================================
