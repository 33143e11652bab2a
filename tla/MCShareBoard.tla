----------------------------- MODULE MCShareBoard -----------------------------
(* Small instances of ShareBoard for TLC. *)
EXTENDS ShareBoard, TLC

(* Every property is about behaviours whose requests have come in good     *)
(* order so far; one that has gone astray stays astray, and TLC need not   *)
(* follow it.                                                              *)
InGoodOrderSoFar == ~astray

(* One failure in a behaviour of all requests, or two in one that has one   *)
(* request less: the second is for the commands that are only reached      *)
(* after a first one.                                                      *)
FailuresForRequests == faults + requests <= MaxRequests + 1

BoardSymmetry ==
    Permutations(Workers) \cup Permutations(Users) \cup Permutations(Files)
===============================================================================
