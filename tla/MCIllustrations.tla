-------------------------- MODULE MCIllustrations --------------------------
(* Illustrations on two chapters with one recurring character.             *)
EXTENDS Illustrations

CONSTANT k

MCScenePlans == {<<{k}, {}>>}

MCRequests ==
  {[ch |-> 0, count |-> 0, force |-> FALSE], [ch |-> 1, count |-> 2, force |-> TRUE]}

AttemptSymmetry == Permutations(Attempts)
============================================================================
