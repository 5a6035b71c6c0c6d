------------------------- MODULE MCConfigStore -------------------------
EXTENDS ConfigStore, TLC
File == [EmptyConfig EXCEPT !.api = ("k1" :> "n"), !.keys = {"k1"},
                            !.acc = ("a1" :> NewAccount("pw1", "p1")), !.prox = {"p1"},
                            !.infl = 1, !.glob = 2]
Other == [EmptyConfig EXCEPT !.api = ("k2" :> "n"), !.keys = {"k2"},
                             !.acc = ("a2" :> NewAccount("pw1", None)), !.infl = 2]
Setup(env, writeback, vcl, secret, file) ==
  [env |-> env, writeback |-> writeback, vercel |-> vcl, secret |-> secret, file |-> file]
FiveSetups ==
  {Setup(None, FALSE, FALSE, TRUE, File), Setup(Broken, TRUE, FALSE, FALSE, File),
   Setup(Other, TRUE, FALSE, FALSE, None), Setup(Other, FALSE, FALSE, TRUE, File),
   Setup(None, FALSE, TRUE, FALSE, None)}
ActorSymmetry == Permutations(Actors)
OneImport == {[EmptyConfig EXCEPT !.api = ("k2" :> None), !.keys = {"k2"},
                 !.acc = ("a2" :> NewAccount("pw1", None)), !.glob = 1]}
============================================================================
