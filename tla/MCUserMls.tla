------------------------------- MODULE MCUserMls -------------------------------
(* Instances of UserMls for TLC: every message is for the user. *)
EXTENDS UserMls, TLC

MCTo == [m \in Messages |-> {User}]
MCOwner == [s \in Streams |-> User]

Sessions == Permutations(Streams)
===============================================================================
