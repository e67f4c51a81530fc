SPECIFICATION FairSpec

CONSTANTS
  Socks = {s1, s2}
  Terms = {t1}
  Users = {u1}
  Dtor = dtor
  NoTerm = noTerm
  Listeners = {l1}
  NoListener = noListener
  MaxGen = 2
  Contract = TRUE
  Torn = FALSE

PROPERTIES
  TransitionsEnd
  ShutdownEnds
