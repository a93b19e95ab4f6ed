-------------------------- MODULE MCCommissioning --------------------------
(* Small instances of Commissioning: one device with two endpoints.        *)
EXTENDS Commissioning, TLC

CONSTANTS d1, n1, n2, user, agent

MCOwner == n1 :> d1 @@ n2 :> d1

(* The user decides while the agent works.                                 *)
MCUserAndAgent ==
  user :> {"decide"} @@ agent :> {"prepare", "establish", "remove"}

MCSymmetry == Permutations(Endpoints)
=============================================================================
