------------------------------ MODULE EpServer ------------------------------
(***************************************************************************)
(* The Eyeotine Protocol server: the select loop of src/server/ep/main.py, *)
(* the Esp objects of esp_lib.py and the MQTT commands of mqtt_lib.py.     *)
(*                                                                         *)
(* The loop is single-threaded and a pass acts on what select() saw; pc    *)
(* names the part of the pass that comes next.  An Esp object is a record  *)
(* of esp_list; the time stamps it keeps are modelled by their ages, which *)
(* stop counting just past the limit they are compared with.               *)
(***************************************************************************)
EXTENDS Integers, SequencesExt

CONSTANTS
  Peers,         \* the (address, port) pairs that datagrams come from
  PingInterval,  \* 1000 ms
  RxTimeout,     \* 5000 ms
  MaxSock,       \* bound: datagrams waiting in the receive buffer
  MaxMqtt        \* bound: MQTT messages waiting to be read

ASSUME ServerConstants ==
  /\ PingInterval \in Nat \ {0}
  /\ RxTimeout \in Nat \ {0}
  /\ MaxSock \in Nat \ {0}
  /\ MaxMqtt \in Nat

VARIABLES
  esp_list,     \* the Esp objects, in order
  write_queue,  \* frames put and not yet sent
  pc,           \* the part of the pass that comes next
  cursor,       \* index of the loop over esp_list in update_time_and_ping
  inputs,       \* sockets that select() found readable
  outputs,      \* whether select() was asked for the EP socket and had it
  sock,         \* the receive buffer of the EP socket
  mqtt,         \* messages on their way from the broker
  dropped,      \* history: Esp objects removed by the present walk
  told,         \* history: the state of a client that was asking when its
                \*   latest request was answered, and has received, in order,
                \*   every frame put in write_queue for it since
  last_sync     \* history: the peers of the latest SYNC broadcast

vars == <<esp_list, write_queue, pc, cursor, inputs, outputs, sock, mqtt,
          dropped, told, last_sync>>

(***************************************************************************)
(* What a datagram is to the server.  "other" stands for a ping and for    *)
(* everything that SYNCED ignores; a wrong version is seen first.          *)
(***************************************************************************)
Datagrams == {"assoc", "dassoc", "image", "other", "bad_version"}

Frames == {"assoc_resp", "dassoc", "ping", "sync", "config", "ota"}

(***************************************************************************)
(* How far a client is: it asks for an association, it is connected and    *)
(* has had no SYNC since, it has had one, it was told to go, or it stopped *)
(* for an update.                                                          *)
(***************************************************************************)
Clients == {"asking", "joined", "synced", "idle", "stopped"}

Topics == {"ota", "server/camera_config", "tracker"}

Esp == [addr : Peers, state : {"IDLE", "ASSOCIATED", "SYNCED"},
        sent : 0 .. PingInterval, recv : 0 .. RxTimeout + 1, data_queue : Nat]

TypeOK ==
  /\ esp_list \in Seq(Esp)
  /\ write_queue \in Seq([to : Peers, kind : Frames])
  /\ pc \in {"select", "mqtt", "read", "ping", "flush", "collect"}
  /\ cursor \in Nat \ {0}
  /\ inputs \subseteq {"mqtt", "esp"}
  /\ outputs \in BOOLEAN
  /\ sock \in Seq([from : Peers, kind : Datagrams])
  /\ mqtt \in Seq(Topics)
  /\ dropped \in Nat
  /\ told \in [Peers -> Clients]
  /\ last_sync \subseteq Peers

Init ==
  /\ esp_list = <<>>
  /\ write_queue = <<>>
  /\ pc = "select"
  /\ cursor = 1
  /\ inputs = {}
  /\ outputs = FALSE
  /\ sock = <<>>
  /\ mqtt = <<>>
  /\ dropped = 0
  /\ told = [a \in Peers |-> "asking"]
  /\ last_sync = {}

-----------------------------------------------------------------------------
(* Esp objects and the frames they write. *)

\* Esp.__init__ leaves both time stamps 0; read() sets one of them at once.
NewEsp(a) == [addr |-> a, state |-> "IDLE", sent |-> PingInterval,
              recv |-> RxTimeout + 1, data_queue |-> 0]

(***************************************************************************)
(* What a client makes of a frame: asking, it discards all but the         *)
(* response; connected, it obeys, and an update stops it; then, and told   *)
(* to go, it discards everything (ep_impl.c:284-424, eyeotine.c:124-131).  *)
(***************************************************************************)
After(client, frame) ==
  CASE client = "asking" /\ frame = "assoc_resp" -> "joined"
    [] client \in {"joined", "synced"} /\ frame = "sync" -> "synced"
    [] client \in {"joined", "synced"} /\ frame = "dassoc" -> "idle"
    [] client \in {"joined", "synced"} /\ frame = "ota" -> "stopped"
    [] OTHER -> client

\* self.write(frame) to a client, as far as the queue is concerned; sent
\* becomes 0 too.
Write(a, frame, client) ==
  /\ write_queue' = Append(write_queue, [to |-> a, kind |-> frame])
  /\ told' = [told EXCEPT ![a] = After(client, frame)]

WriteNothing == UNCHANGED <<write_queue, told>>

ListedIn(list) == {list[i].addr : i \in DOMAIN list}

\* for esp in list: esp.write(frame)
WriteAll(list, frame) ==
  /\ write_queue' = write_queue \o [i \in DOMAIN list |-> [to |-> list[i].addr, kind |-> frame]]
  /\ told' = [a \in Peers |-> IF a \in ListedIn(list) THEN After(told[a], frame)
                              ELSE told[a]]

AllSent(list) == [i \in DOMAIN list |-> [list[i] EXCEPT !.sent = 0]]

-----------------------------------------------------------------------------
(* One pass of the loop. *)

Select ==
  /\ pc = "select"
  /\ inputs' = (IF mqtt # <<>> THEN {"mqtt"} ELSE {})
                 \cup (IF sock # <<>> THEN {"esp"} ELSE {})
  /\ outputs' = (write_queue # <<>>)
  /\ pc' = "mqtt"
  /\ UNCHANGED <<esp_list, write_queue, cursor, sock, mqtt, dropped, told, last_sync>>

\* send_ota and send_config go to every Esp object, whatever its state.
ObeyMqtt ==
  /\ "mqtt" \in inputs
  /\ mqtt' = Tail(mqtt)
  /\ \/ /\ Head(mqtt) \in {"ota", "server/camera_config"}
        /\ WriteAll(esp_list, IF Head(mqtt) = "ota" THEN "ota" ELSE "config")
        /\ esp_list' = AllSent(esp_list)
     \/ /\ Head(mqtt) = "tracker"
        /\ WriteNothing
        /\ UNCHANGED esp_list

ReadMqtt ==
  /\ pc = "mqtt"
  /\ \/ ObeyMqtt
     \/ /\ "mqtt" \notin inputs
        /\ WriteNothing
        /\ UNCHANGED <<esp_list, mqtt>>
  /\ pc' = "read"
  /\ UNCHANGED <<cursor, inputs, outputs, sock, dropped, last_sync>>

(***************************************************************************)
(* Esp.read: list is esp_list with the sender's object at i, its time of   *)
(* reception already set.                                                  *)
(***************************************************************************)

\* The object stays in whatever state it was in, a new one included.
FalseVersion(list, i, kind) ==
  /\ kind = "bad_version"
  /\ esp_list' = list
  /\ WriteNothing
  /\ UNCHANGED last_sync

ReadIdle(list, i, kind) ==
  /\ kind # "bad_version"
  /\ list[i].state = "IDLE"
  /\ IF kind = "assoc"
     THEN /\ Write(list[i].addr, "assoc_resp", "asking")
          /\ esp_list' = [list EXCEPT ![i].sent = 0, ![i].state = "ASSOCIATED"]
     ELSE /\ WriteNothing
          /\ esp_list' = RemoveAt(list, i)
  /\ UNCHANGED last_sync

\* Mutant: the new client alone is synchronised.
ReadAssociated_SelfOnly(list, i, kind) ==
  /\ kind # "bad_version"
  /\ list[i].state = "ASSOCIATED"
  /\ Write(list[i].addr, "sync", told[list[i].addr])
  /\ esp_list' = [list EXCEPT ![i].sent = 0, ![i].state = "SYNCED"]
  /\ last_sync' = {list[i].addr}

\* Mutant: the other clients alone are synchronised.
ReadAssociated_OthersOnly(list, i, kind) ==
  /\ kind # "bad_version"
  /\ list[i].state = "ASSOCIATED"
  /\ WriteAll(RemoveAt(list, i), "sync")
  /\ esp_list' = [list EXCEPT ![i].state = "SYNCED"]
  /\ last_sync' = ListedIn(RemoveAt(list, i))

\* Any frame will do: it shows that the client has seen the response.
ReadAssociated(list, i, kind) ==
  /\ kind # "bad_version"
  /\ list[i].state = "ASSOCIATED"
  /\ WriteAll(list, "sync")
  /\ esp_list' = [AllSent(list) EXCEPT ![i].state = "SYNCED"]
  /\ last_sync' = ListedIn(list)

ReadSynced(list, i, kind) ==
  /\ list[i].state = "SYNCED"
  /\ \/ kind \in {"assoc", "dassoc"} /\ esp_list' = RemoveAt(list, i)
     \/ kind = "image" /\ esp_list' = [list EXCEPT ![i].data_queue = @ + 1]
     \/ kind = "other" /\ esp_list' = list
  /\ WriteNothing
  /\ UNCHANGED last_sync

\* Mutant: the flag accepted is never set.
accepted_Never(a) == FALSE

\* An object of esp_list has this address and port.
accepted(a) == a \in ListedIn(esp_list)

Position(list, a) == CHOOSE i \in DOMAIN list : list[i].addr = a

ReadDatagram ==
  LET a    == Head(sock).from
      grown == IF accepted(a) THEN esp_list ELSE Append(esp_list, NewEsp(a))
      i    == IF accepted(a) THEN Position(grown, a) ELSE Len(grown)
      list == [grown EXCEPT ![i].recv = 0]
      kind == Head(sock).kind
  IN  /\ "esp" \in inputs
      /\ \/ FalseVersion(list, i, kind)
         \/ ReadIdle(list, i, kind)
         \/ ReadAssociated(list, i, kind)
         \/ ReadSynced(list, i, kind)
      /\ sock' = Tail(sock)

ReadEsp ==
  /\ pc = "read"
  /\ \/ ReadDatagram
     \/ /\ "esp" \notin inputs
        /\ WriteNothing
        /\ UNCHANGED <<esp_list, sock, last_sync>>
  /\ pc' = "ping"
  /\ UNCHANGED <<cursor, inputs, outputs, mqtt, dropped>>

PingDue(esp) == esp.sent >= PingInterval

\* Mutant: the time of the last transmission is taken.
Silent_SendTimer(esp) == esp.sent > RxTimeout

Silent(esp) == esp.recv > RxTimeout

\* Mutant: a transmission excuses the peer from the second test.
PingEsp_ElseIf ==
  LET esp == esp_list[cursor]
  IN  /\ pc = "ping"
      /\ cursor <= Len(esp_list)
      /\ \/ /\ PingDue(esp)
            /\ Write(esp.addr, "ping", told[esp.addr])
            /\ esp_list' = [esp_list EXCEPT ![cursor].sent = 0]
            /\ UNCHANGED dropped
         \/ /\ ~ PingDue(esp)
            /\ Silent(esp)
            /\ Write(esp.addr, "dassoc", told[esp.addr])
            /\ esp_list' = RemoveAt(esp_list, cursor)
            /\ dropped' = dropped + 1
         \/ /\ ~ PingDue(esp)
            /\ ~ Silent(esp)
            /\ WriteNothing
            /\ UNCHANGED <<esp_list, dropped>>
      /\ cursor' = cursor + 1
      /\ UNCHANGED <<pc, inputs, outputs, sock, mqtt, last_sync>>

(***************************************************************************)
(* One round of the loop in update_time_and_ping: Esp.ping, and            *)
(* Esp.on_disconnect, which removes the object from the very list that the *)
(* loop walks by index, so that the next object is passed over.            *)
(***************************************************************************)
PingEsp ==
  LET esp    == esp_list[cursor]
      frames == (IF PingDue(esp) THEN <<"ping">> ELSE <<>>)
                  \o (IF Silent(esp) THEN <<"dassoc">> ELSE <<>>)
  IN  /\ pc = "ping"
      /\ cursor <= Len(esp_list)
      /\ write_queue' = write_queue \o [k \in DOMAIN frames |-> [to |-> esp.addr, kind |-> frames[k]]]
      /\ IF Silent(esp)
         THEN /\ esp_list' = RemoveAt(esp_list, cursor)
              /\ told' = [told EXCEPT ![esp.addr] = After(@, "dassoc")]
              /\ dropped' = dropped + 1
         ELSE /\ esp_list' = [esp_list EXCEPT ![cursor].sent = IF PingDue(esp) THEN 0 ELSE @]
              /\ UNCHANGED <<told, dropped>>
      /\ cursor' = cursor + 1
      /\ UNCHANGED <<pc, inputs, outputs, sock, mqtt, last_sync>>

(***************************************************************************)
(* The index is started afresh by the next walk, what a peer was told by   *)
(* the next answer; setting them here, and what select() returned in       *)
(* Collect, spares TLC states that differ in nothing else.                 *)
(***************************************************************************)
WalkDone ==
  /\ pc = "ping"
  /\ cursor > Len(esp_list)
  /\ pc' = "flush"
  /\ cursor' = 1
  /\ dropped' = 0
  /\ told' = [a \in Peers |-> IF a \in ListedIn(esp_list) THEN told[a] ELSE "asking"]
  /\ UNCHANGED <<esp_list, write_queue, inputs, outputs, sock, mqtt, last_sync>>

\* Mutant: the last frame stays in the queue.
Flush_KeepsLast ==
  /\ pc = "flush"
  /\ write_queue' = IF outputs /\ Len(write_queue) > 1
                    THEN <<Last(write_queue)>> ELSE write_queue
  /\ pc' = "collect"
  /\ UNCHANGED <<esp_list, cursor, inputs, outputs, sock, mqtt, dropped, told,
                 last_sync>>

\* What was put since select() goes out too, if the queue was not empty then.
Flush ==
  /\ pc = "flush"
  /\ write_queue' = IF outputs THEN <<>> ELSE write_queue
  /\ pc' = "collect"
  /\ UNCHANGED <<esp_list, cursor, inputs, outputs, sock, mqtt, dropped, told,
                 last_sync>>

\* Mutant: fragments are collected only when the socket was quiet.
Collect_WhenQuiet ==
  /\ pc = "collect"
  /\ esp_list' = [i \in DOMAIN esp_list |->
                    IF esp_list[i].data_queue > 0 /\ "esp" \notin inputs
                    THEN [esp_list[i] EXCEPT !.data_queue = @ - 1]
                    ELSE esp_list[i]]
  /\ pc' = "select"
  /\ inputs' = {}
  /\ outputs' = FALSE
  /\ UNCHANGED <<write_queue, cursor, sock, mqtt, dropped, told, last_sync>>

\* Mutant: the queue is not asked whether it is empty.
Collect_Unasked ==
  /\ pc = "collect"
  /\ esp_list' = [i \in DOMAIN esp_list |-> [esp_list[i] EXCEPT !.data_queue = @ - 1]]
  /\ pc' = "select"
  /\ inputs' = {}
  /\ outputs' = FALSE
  /\ UNCHANGED <<write_queue, cursor, sock, mqtt, dropped, told, last_sync>>

\* The collector takes one fragment of each Esp object.
Collect ==
  /\ pc = "collect"
  /\ esp_list' = [i \in DOMAIN esp_list |->
                    IF esp_list[i].data_queue > 0
                    THEN [esp_list[i] EXCEPT !.data_queue = @ - 1]
                    ELSE esp_list[i]]
  /\ pc' = "select"
  /\ inputs' = {}
  /\ outputs' = FALSE
  /\ UNCHANGED <<write_queue, cursor, sock, mqtt, dropped, told, last_sync>>

-----------------------------------------------------------------------------
(* The environment.  What arrives in the middle of a pass is first seen by *)
(* the next select(), so it is modelled as arriving then.                  *)

\* A datagram reaches the receive buffer; a full one drops it.
Arrive(a) ==
  /\ pc = "select"
  /\ Len(sock) < MaxSock
  /\ \E k \in Datagrams : sock' = Append(sock, [from |-> a, kind |-> k])
  /\ UNCHANGED <<esp_list, write_queue, pc, cursor, inputs, outputs, mqtt,
                 dropped, told, last_sync>>

Publish ==
  /\ pc = "select"
  /\ Len(mqtt) < MaxMqtt
  /\ \E t \in Topics : mqtt' = Append(mqtt, t)
  /\ UNCHANGED <<esp_list, write_queue, pc, cursor, inputs, outputs, sock,
                 dropped, told, last_sync>>

Older(n, limit) == IF n < limit THEN n + 1 ELSE n

(***************************************************************************)
(* Time passes while select() waits, or before update_time_and_ping reads  *)
(* the clock; at another point of the pass nothing looks at it.            *)
(***************************************************************************)
Tick ==
  /\ pc = "select" \/ (pc = "ping" /\ cursor = 1)
  /\ esp_list' = [i \in DOMAIN esp_list |->
                    [esp_list[i] EXCEPT !.sent = Older(@, PingInterval),
                                        !.recv = Older(@, RxTimeout + 1)]]
  /\ UNCHANGED <<write_queue, pc, cursor, inputs, outputs, sock, mqtt, dropped,
                 told, last_sync>>

-----------------------------------------------------------------------------
Pass == Select \/ ReadMqtt \/ ReadEsp \/ PingEsp \/ WalkDone \/ Flush \/ Collect

Next ==
  \/ Pass
  \/ \E a \in Peers : Arrive(a)
  \/ Publish
  \/ Tick

Spec == Init /\ [][Next]_vars

(***************************************************************************)
(* The loop never blocks, for select() has a timeout of 10 ms.  Time       *)
(* passes, however many passes the loop makes; as Tick is disabled in the  *)
(* middle of each pass, only strong fairness says so.                      *)
(***************************************************************************)
FairSpec == Spec /\ WF_vars(Pass) /\ SF_vars(Tick)
-----------------------------------------------------------------------------
(* Properties. *)

\* The peers that have an Esp object in one of these states.
InState(states) == {e.addr : e \in {esp_list[i] : i \in {j \in DOMAIN esp_list : esp_list[j].state \in states}}}

(***************************************************************************)
(* A peer never has two Esp objects, which would give it two timers and    *)
(* every command twice (esp_lib.py:35-42).                                 *)
(***************************************************************************)
OneEspPerPeer ==
  \A i, j \in DOMAIN esp_list : esp_list[i].addr = esp_list[j].addr => i = j

(***************************************************************************)
(* The server never thinks further of a connection than the client can be: *)
(* if all that was put in the queue arrives in order, the client of an     *)
(* ASSOCIATED object has been answered, and that of a SYNCED one has been  *)
(* synchronised since, whatever was sent to it before; only an update may  *)
(* have stopped it, for its object stays until the client's farewell is    *)
(* read or it has been silent too long (esp_lib.py:149-155, 222-229).      *)
(***************************************************************************)
PeersFollow ==
  /\ \A a \in InState({"ASSOCIATED"}) : told[a] \in {"joined", "synced", "stopped"}
  /\ \A a \in InState({"SYNCED"}) : told[a] \in {"synced", "stopped"}

(***************************************************************************)
(* All synchronised clients count from the same SYNC broadcast: the        *)
(* timestamps of their images can be compared (esp_lib.py:153).            *)
(***************************************************************************)
AllSyncedTogether == InState({"SYNCED"}) \subseteq last_sync

(***************************************************************************)
(* Removing objects from the list while walking it leaves at most as many  *)
(* objects unvisited as were removed: at the end of a walk, and in its     *)
(* middle, no more peers than that are overdue for a ping or for removal   *)
(* (esp_lib.py:27-29, 229).                                                *)
(***************************************************************************)
WalkMissesOnlySuccessors ==
  pc = "ping" =>
    LET overdue == {p \in 1 .. cursor - 1 :
                      p \in DOMAIN esp_list /\ (PingDue(esp_list[p]) \/ Silent(esp_list[p]))}
    IN  Cardinality(overdue) <= dropped

(***************************************************************************)
(* One fragment per pass and object is enough: the queue of fragments of   *)
(* an object never holds more than the one the present pass has read, so   *)
(* no delay builds up between the network and the collector (main.py:91,   *)
(* 104; esp_lib.py:260).                                                   *)
(***************************************************************************)
CollectorKeepsUp ==
  \A i \in DOMAIN esp_list :
    esp_list[i].data_queue <= IF pc \in {"ping", "flush", "collect"} THEN 1 ELSE 0

(***************************************************************************)
(* A peer that has fallen silent loses its object in the end, however      *)
(* often a walk passes over it (esp_lib.py:27-29, 180).                    *)
(***************************************************************************)
Heard(a) == \E i \in DOMAIN esp_list : esp_list[i].addr = a /\ esp_list[i].recv = 0

SilentPeersAreDropped ==
  \A a \in Peers : []<>(a \notin ListedIn(esp_list)) \/ []<>Heard(a)

(***************************************************************************)
(* What is put in the queue is sent, though select() is asked for the      *)
(* socket only in the following pass (main.py:70, 98-101).                 *)
(***************************************************************************)
QueueIsSent == write_queue # <<>> ~> write_queue = <<>>
=============================================================================
