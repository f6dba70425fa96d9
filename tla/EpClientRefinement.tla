-------------------------- MODULE EpClientRefinement --------------------------
(* EpClient implements ClientSession: a client with a 16-bit clock behaves *)
(* like one with ideal timers.                                             *)
EXTENDS EpClient

\* An age, counted no further than the limit it is compared with.
UpTo(age, limit) == IF age < limit THEN age ELSE limit

QuietSeen == [d \in Devices |-> UpTo(quiet[d], RxTimeout)]
MuteSeen == [d \in Devices |-> UpTo(mute[d], AssocInterval)]

Session == INSTANCE ClientSession WITH quiet <- QuietSeen, mute <- MuteSeen

(***************************************************************************)
(* Every step of the client, seen through real time, is a step of the      *)
(* ideal one: it sends what is due, gives up what is silent and does what  *)
(* it is told at the very same polls, across every wrap-around of the      *)
(* clock, reconnection and restart (ep_impl.c:102-173).                    *)
(***************************************************************************)
ImplementsSession == Session!Spec
=============================================================================
