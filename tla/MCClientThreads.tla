-------------------------- MODULE MCClientThreads --------------------------
(***************************************************************************)
(* One client is enough for a lost wakeup or a listener that does not end; *)
(* with two, an iterator that stands on one has another behind it, or one  *)
(* linked in front of it.                                                  *)
(***************************************************************************)
EXTENDS ClientThreads, TLC

CONSTANTS c1, c2, c3, w1, w2
ClientSymmetry == Permutations(Clients)
MCAnswers == {"accept", "hold", "refuse"}
MCAccept == {"accept"}
=============================================================================
