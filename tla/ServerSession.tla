---------------------------- MODULE ServerSession ----------------------------
(***************************************************************************)
(* What the clients may rely on from the server of src/server/ep: how far  *)
(* it takes each of them to be, when it pings them and drops them, and     *)
(* whom it tells what.  There is no loop here, no list and no queue.       *)
(* EpServer implements this specification (MCEpServer), EpSystem composes  *)
(* it with the client's.                                                   *)
(***************************************************************************)
EXTENDS Integers

CONSTANTS Peers, PingInterval, RxTimeout

VARIABLES
  esp,   \* how far the connection is, NONE if the peer is not listed
  sent,  \* time since something was sent to the peer, up to PingInterval
  recv,  \* time since something came from it, up to RxTimeout + 1
  out    \* frames on their way to the peer

serverVars == <<esp, sent, recv, out>>

Frames == {"assoc_resp", "dassoc", "ping", "sync", "config", "ota"}

Listed == {a \in Peers : esp[a] # "NONE"}

Init ==
  /\ esp = [a \in Peers |-> "NONE"]
  /\ sent = [a \in Peers |-> PingInterval]
  /\ recv = [a \in Peers |-> RxTimeout + 1]
  /\ out = [a \in Peers |-> {}]

-----------------------------------------------------------------------------
\* The peer becomes s, having been heard; those in told are sent frames.
Settle(a, s, told, frames) ==
  /\ esp' = [esp EXCEPT ![a] = s]
  /\ recv' = [recv EXCEPT ![a] = IF s = "NONE" THEN RxTimeout + 1 ELSE 0]
  /\ sent' = [b \in Peers |-> IF b = a /\ s = "NONE" THEN PingInterval
                              ELSE IF b \in told THEN 0 ELSE sent[b]]
  /\ out' = [b \in Peers |-> IF b \in told THEN out[b] \cup frames ELSE out[b]]

\* A datagram that is not of version 0.
ReadFalseVersion(a) ==
  Settle(a, IF esp[a] = "NONE" THEN "IDLE" ELSE esp[a], {}, {})

ReadNew(a, kind) ==
  /\ esp[a] \in {"NONE", "IDLE"}
  /\ IF kind = "assoc" THEN Settle(a, "ASSOCIATED", {a}, {"assoc_resp"})
                       ELSE Settle(a, "NONE", {}, {})

ReadAssociated(a) ==
  /\ esp[a] = "ASSOCIATED"
  /\ Settle(a, "SYNCED", Listed, {"sync"})

\* Mutant: a client that asks again is taken to be connected already.
ReadSynced_IgnoresRequest(a, kind) ==
  /\ esp[a] = "SYNCED"
  /\ Settle(a, IF kind = "dassoc" THEN "NONE" ELSE "SYNCED", {}, {})

ReadSynced(a, kind) ==
  /\ esp[a] = "SYNCED"
  /\ Settle(a, IF kind \in {"assoc", "dassoc"} THEN "NONE" ELSE "SYNCED", {}, {})

Read(a, kind) ==
  IF kind = "bad_version" THEN ReadFalseVersion(a)
  ELSE ReadNew(a, kind) \/ ReadAssociated(a) \/ ReadSynced(a, kind)

PingDue(a) == a \in Listed /\ sent[a] >= PingInterval

\* Mutant: the limit is reached before a ping can be answered.
Silent_TooSoon(a) == a \in Listed /\ recv[a] >= PingInterval

Silent(a) == a \in Listed /\ recv[a] > RxTimeout

\* A peer is pinged, or dropped, or both.
Walk(a) ==
  /\ PingDue(a) \/ Silent(a)
  /\ out' = [out EXCEPT ![a] = @ \cup (IF PingDue(a) THEN {"ping"} ELSE {})
                                 \cup (IF Silent(a) THEN {"dassoc"} ELSE {})]
  /\ esp' = [esp EXCEPT ![a] = IF Silent(a) THEN "NONE" ELSE @]
  /\ sent' = [sent EXCEPT ![a] = IF Silent(a) THEN PingInterval ELSE 0]
  /\ recv' = [recv EXCEPT ![a] = IF Silent(a) THEN RxTimeout + 1 ELSE @]

\* A command from the broker goes to whoever is listed.
Obey(frame) ==
  /\ frame \in {"ota", "config"}
  /\ out' = [a \in Peers |-> IF a \in Listed THEN out[a] \cup {frame} ELSE out[a]]
  /\ sent' = [a \in Peers |-> IF a \in Listed THEN 0 ELSE sent[a]]
  /\ UNCHANGED <<esp, recv>>

\* Frames are delivered, or lost.
Leave ==
  /\ out' \in [Peers -> SUBSET Frames]
  /\ \A a \in Peers : out'[a] \subseteq out[a]
  /\ UNCHANGED <<esp, sent, recv>>

Older(n, limit) == IF n < limit THEN n + 1 ELSE n

Tick ==
  /\ sent' = [a \in Peers |-> Older(sent[a], PingInterval)]
  /\ recv' = [a \in Peers |-> Older(recv[a], RxTimeout + 1)]
  /\ UNCHANGED <<esp, out>>

Next ==
  \/ Tick
  \/ Leave
  \/ \E a \in Peers : Walk(a)
  \/ \E a \in Peers, kind \in {"assoc", "dassoc", "image", "other", "bad_version"} : Read(a, kind)
  \/ \E frame \in Frames : Obey(frame)

Spec == Init /\ [][Next]_serverVars
=============================================================================
