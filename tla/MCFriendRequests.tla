---- MODULE MCFriendRequests ----
(* A small instance of FriendRequests for TLC: the two users may be friends *)
(* and have requests to each other at first; what a user has with himself   *)
(* he starts later.                                                         *)
EXTENDS FriendRequests

CONSTANTS ana, ben

CrossedRequests == {Request(ana, ben, 0), Request(ben, ana, 0)}
TheTwo == {{ana, ben}}
====
