--------------------------- MODULE MCEebusRuntime ---------------------------
(* Small instances of EebusRuntime.                                        *)
EXTENDS EebusRuntime, TLC

MCSymmetry == Permutations(Endpoints)
=============================================================================
