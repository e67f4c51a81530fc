SPECIFICATION Spec

CONSTANTS
  Socks = {s1, s2}
  Terms = {t1}
  Users = {u1}
  Dtor = dtor
  NoTerm = noTerm
  Listeners = {l1, l2}
  NoListener = noListener
  MaxGen = 1
  Contract = TRUE
  Torn = FALSE

INVARIANT ConnectFailureReported
