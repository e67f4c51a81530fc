SPECIFICATION Spec

CONSTANTS
  Socks = {s1, s2}
  Terms = {t1, t2}
  Users = {u1, u2}
  Dtor = dtor
  NoTerm = noTerm
  Listeners = {l1}
  NoListener = noListener
  MaxGen = 2
  Contract = TRUE
  Torn = FALSE

SYMMETRY Interchangeable

INVARIANTS
  TypeOK
  SlotsConserved
  TerminalsConserved
  HandlersFindSocket
  ListenersCounted
  AuditsHold
