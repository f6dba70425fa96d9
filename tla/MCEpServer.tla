----------------------------- MODULE MCEpServer -----------------------------
(* EpServer with what its model checking needs, and its relation to the    *)
(* abstract server.                                                        *)
EXTENDS EpServer

\* The peers are treated alike, and no property names one of them.
PeerSymmetry == Permutations(Peers)

-----------------------------------------------------------------------------
\* Of a peer without an Esp object.
NoEsp == [state |-> "NONE", sent |-> PingInterval, recv |-> RxTimeout + 1]

\* The Esp object of a peer, as ServerSession sees it.
Seen(list, a) == IF a \in ListedIn(list) THEN list[Position(list, a)] ELSE NoEsp

QueuedFor(queue, a) ==
  {queue[k].kind : k \in {n \in DOMAIN queue : queue[n].to = a}}

EspSeen  == [a \in Peers |-> Seen(esp_list, a).state]
SentSeen == [a \in Peers |-> Seen(esp_list, a).sent]
RecvSeen == [a \in Peers |-> Seen(esp_list, a).recv]
OutSeen  == [a \in Peers |-> QueuedFor(write_queue, a)]

Session == INSTANCE ServerSession
  WITH esp <- EspSeen, sent <- SentSeen, recv <- RecvSeen, out <- OutSeen

(***************************************************************************)
(* The loop, the list that loses elements while it is walked and the queue *)
(* together are the abstract server: a peer is told what the state of its  *)
(* connection calls for, is dropped for silence alone, and what is queued  *)
(* for one peer depends on no other's position in the list                 *)
(* (esp_lib.py:25-43, 125-229; mqtt_lib.py:25-36).                         *)
(***************************************************************************)
ImplementsSession == Session!Spec
=============================================================================
