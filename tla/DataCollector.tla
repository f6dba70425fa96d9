--------------------------- MODULE DataCollector ---------------------------
(***************************************************************************)
(* The way of an image from the camera to the MQTT broker: ep_send_img     *)
(* cuts it into numbered fragments, the network loses, duplicates and      *)
(* reorders them, Esp.read queues them, and the DataCollector of           *)
(* src/server/ep/esp_lib.py puts them together and publishes the image.    *)
(*                                                                         *)
(* A payload is the image it is cut from and its place in it, which only   *)
(* the properties look at.  Each device has an address of its own.         *)
(***************************************************************************)
EXTENDS Integers, SequencesExt

CONSTANTS
  Addrs,       \* the IP addresses of the devices
  Timestamps,  \* values of the 10-bit timestamp field
  FragMod,     \* range of the 6-bit fragment number: 64
  MaxFrag,     \* most fragments an image has
  Expiry,      \* 100 ms
  MaxImages,   \* bound: images sent in a behaviour
  None         \* no fragment

ASSUME CollectorConstants ==
  /\ FragMod \in Nat \ {0}
  /\ MaxFrag \in Nat \ {0}
  /\ Expiry \in Nat
  /\ MaxImages \in Nat

VARIABLES
  sent,        \* history: the images given to ep_send_img, and whether each met
               \*   fragments of an earlier one in the bucket of its timestamp
  net,         \* fragments in the network
  esp_list,    \* the addresses with a SYNCED Esp object
  data_queue,  \* Esp.data_queue
  data,        \* DataCollector.data
  pc,          \* the part of the pass of main.py that comes next
  out          \* what the latest pass has published

vars == <<sent, net, esp_list, data_queue, data, pc, out>>

Payload == [img : 1 .. MaxImages, pos : 0 .. MaxFrag - 1]

ASSUME NoneIsNoFragment == None \notin Payload

Fragment == [timestamp : Timestamps, fragment_number : 0 .. FragMod - 1,
             flag : BOOLEAN, data : Payload]

(***************************************************************************)
(* self.data[ip_addr][timestamp]: the fragments by number, and how long    *)
(* ago the last fragment of the image came, -1 if it has not come.  A key  *)
(* that is not in the dictionary is an empty bucket.                       *)
(***************************************************************************)
Bucket == [frags : [0 .. FragMod - 1 -> Payload \cup {None}], finished : -1 .. Expiry + 1]

NoBucket == [frags |-> [n \in 0 .. FragMod - 1 |-> None], finished |-> -1]

TypeOK ==
  /\ sent \in Seq([addr : Addrs, timestamp : Timestamps, size : 1 .. MaxFrag, met : BOOLEAN])
  /\ net \in [Addrs -> SUBSET Fragment]
  /\ esp_list \subseteq Addrs
  /\ data_queue \in [Addrs -> Seq(Fragment)]
  /\ data \in [Addrs -> [Timestamps -> Bucket]]
  /\ pc \in {"read", "collect"}
  /\ \A m \in out : m.source_ipaddr \in Addrs /\ m.data \in Seq(Payload)

Init ==
  /\ sent = <<>>
  /\ net = [a \in Addrs |-> {}]
  /\ esp_list = {}
  /\ data_queue = [a \in Addrs |-> <<>>]
  /\ data = [a \in Addrs |-> [t \in Timestamps |-> NoBucket]]
  /\ pc = "read"
  /\ out = {}

-----------------------------------------------------------------------------
(* The device. *)

\* Mutant: the fragments are numbered from one.
send_img_frag_FromOne(img, pos, timestamp, size) ==
  [timestamp |-> timestamp, fragment_number |-> (pos + 1) % FragMod,
   flag |-> pos = size - 1, data |-> [img |-> img, pos |-> pos]]

\* send_img_frag: the number is cut to its field, the last one is flagged.
send_img_frag(img, pos, timestamp, size) ==
  [timestamp |-> timestamp, fragment_number |-> pos % FragMod,
   flag |-> pos = size - 1, data |-> [img |-> img, pos |-> pos]]

Numbers(b) == {n \in 0 .. FragMod - 1 : b.frags[n] # None}

(***************************************************************************)
(* No fragment with this timestamp waits for the collector, and no bucket  *)
(* has its last one.                                                       *)
(***************************************************************************)
Settled(a, t) ==
  /\ \A i \in DOMAIN data_queue[a] : data_queue[a][i].timestamp # t
  /\ data[a][t].finished = -1

(***************************************************************************)
(* An image is sent up to its end, or to the first fragment that the       *)
(* socket refuses.  A later one may have the same timestamp, which repeats *)
(* every 1024 ms and starts again with each SYNC.  The camera task sleeps  *)
(* for 5 s after each image (eyeotine.c:355): by then what has not arrived *)
(* of the earlier one is lost, and what has arrived is collected, or       *)
(* expired if its last fragment came.                                      *)
(***************************************************************************)
ep_send_img(a) ==
  /\ Len(sent) < MaxImages
  /\ \E t \in Timestamps, size \in 1 .. MaxFrag : \E n \in 1 .. size :
       /\ Settled(a, t)
       /\ sent' = Append(sent, [addr |-> a, timestamp |-> t, size |-> size,
                               met |-> Numbers(data[a][t]) # {}])
       /\ net' = [net EXCEPT ![a] = {f \in @ : f.timestamp # t} \cup
                    {send_img_frag(Len(sent) + 1, pos, t, size) : pos \in 0 .. n - 1}]
  /\ UNCHANGED <<esp_list, data_queue, data, pc, out>>

-----------------------------------------------------------------------------
(* The server reads at most one datagram in a pass, and then collects. *)

\* An image fragment comes in.  The network may keep a copy of it.
Receive(a) ==
  /\ pc = "read"
  /\ a \in esp_list
  /\ \E f \in net[a] :
       /\ data_queue' = [data_queue EXCEPT ![a] = Append(@, f)]
       /\ net' = [net EXCEPT ![a] = @ \ {f}] \/ net' = net
  /\ pc' = "collect"
  /\ UNCHANGED <<sent, esp_list, data, out>>

\* A device associates and is synchronised; its Esp object is new.
Join(a) ==
  /\ pc = "read"
  /\ esp_list' = esp_list \cup {a}
  /\ pc' = "collect"
  /\ UNCHANGED <<sent, net, data_queue, data, out>>

\* There is no datagram, or none that matters here.
ReadNothing ==
  /\ pc = "read"
  /\ pc' = "collect"
  /\ UNCHANGED <<sent, net, esp_list, data_queue, data, out>>

\* The Esp object is removed, by a frame just read or by a timeout.
Leave(a) ==
  /\ pc = "collect"
  /\ a \in esp_list
  /\ esp_list' = esp_list \ {a}
  /\ data_queue' = [data_queue EXCEPT ![a] = <<>>]
  /\ UNCHANGED <<sent, net, data, pc, out>>

-----------------------------------------------------------------------------
(* DataCollector.collect *)

\* The fragment at the head of the queue goes into its bucket.
Store(a) ==
  IF a \in esp_list /\ data_queue[a] # <<>>
  THEN LET f == Head(data_queue[a])
       IN  [data[a] EXCEPT
              ![f.timestamp].frags[f.fragment_number] = f.data,
              ![f.timestamp].finished = IF f.flag THEN 0 ELSE @]
  ELSE data[a]

\* Mutant: milliseconds are compared with a limit in microseconds.
Expired_Never(b) == b.finished > 1000 * Expiry

Expired(b) == b.finished > Expiry

\* Mutant: the last fragment is taken to mean that all have come.
Complete_LastSuffices(b) == b.finished >= 0 /\ ~ Expired(b)

\* Mutant: only the last fragment makes the collector look at the bucket.
Complete_LastComesLast(b) ==
  b.finished = 0 /\ ~ Expired(b) /\ Numbers(b) = 0 .. Max(Numbers(b))

\* range(highest_key + 1) are the numbers received.
Complete(b) ==
  b.finished >= 0 /\ ~ Expired(b) /\ Numbers(b) = 0 .. Max(Numbers(b))

\* The fragments in the order of their numbers.
Image(b) == [k \in 1 .. Max(Numbers(b)) + 1 |-> b.frags[k - 1]]

collect ==
  LET stored == [a \in Addrs |-> Store(a)]
  IN  /\ pc = "collect"
      /\ out' = {[source_ipaddr |-> k[1], timestamp |-> k[2], data |-> Image(stored[k[1]][k[2]])] :
                   k \in {x \in Addrs \X Timestamps : Complete(stored[x[1]][x[2]])}}
      /\ data' = [a \in Addrs |-> [t \in Timestamps |->
                    IF a \notin esp_list \/ Expired(stored[a][t]) \/ Complete(stored[a][t])
                    THEN NoBucket ELSE stored[a][t]]]
      /\ data_queue' = [a \in Addrs |-> IF data_queue[a] = <<>> THEN <<>>
                                        ELSE Tail(data_queue[a])]
      /\ pc' = "read"
      /\ UNCHANGED <<sent, net, esp_list>>

\* Time passes between two passes; an age counts to just past Expiry.
Tick ==
  /\ pc = "read"
  /\ data' = [a \in Addrs |-> [t \in Timestamps |->
                [data[a][t] EXCEPT !.finished = IF @ \in 0 .. Expiry THEN @ + 1 ELSE @]]]
  /\ UNCHANGED <<sent, net, esp_list, data_queue, pc, out>>

-----------------------------------------------------------------------------
Pass == ReadNothing \/ collect \/ \E a \in Addrs : Receive(a) \/ Join(a)

Next ==
  \/ Pass
  \/ Tick
  \/ \E a \in Addrs : ep_send_img(a) \/ Leave(a)

Spec == Init /\ [][Next]_vars

\* The loop never stops; time passes, however many passes it makes.
FairSpec == Spec /\ WF_vars(Pass) /\ SF_vars(Tick)
-----------------------------------------------------------------------------
(* Properties. *)

\* All of image i, in order.
Whole(i) == [k \in 1 .. sent[i].size |-> [img |-> i, pos |-> k - 1]]

(***************************************************************************)
(* What is published under a device and a timestamp is an image that the   *)
(* device sent with this timestamp, all of it and in order, whatever was   *)
(* lost, duplicated or reordered, whichever devices left and came back and *)
(* however often the timestamp was used before.  There are two exceptions: *)
(* fragments of an earlier image were still in the bucket when it was      *)
(* sent, or it has more fragments than their numbers tell apart; even then *)
(* some of it is published (esp_lib.py:256-303; ep_impl.c:441).            *)
(***************************************************************************)
PublishedIsWhole ==
  \A m \in out : \E i \in DOMAIN sent :
    /\ sent[i].addr = m.source_ipaddr /\ sent[i].timestamp = m.timestamp
    /\ \/ m.data = Whole(i)
       \/ /\ sent[i].met \/ sent[i].size > FragMod
          /\ \E k \in DOMAIN m.data : m.data[k].img = i

(***************************************************************************)
(* "test if all fragments received then send image" (esp_lib.py:282): what *)
(* is published is one image.  With what an earlier image has left in the  *)
(* bucket it is not: see README, Findings.                                 *)
(***************************************************************************)
OneImageAtATime ==
  \A m \in out : \E i \in DOMAIN sent :
    sent[i].addr = m.source_ipaddr /\ m.data = Whole(i)

(***************************************************************************)
(* After a pass, an image whose last fragment came, and is still waiting,  *)
(* has a gap: a complete one is not kept back until it expires, in which   *)
(* ever order its fragments came (esp_lib.py:273-291).                     *)
(***************************************************************************)
NothingCompleteWaits ==
  pc = "read" =>
    \A a \in Addrs, t \in Timestamps : data[a][t].finished >= 0 =>
      \E n, m \in 0 .. FragMod - 1 :
        n < m /\ data[a][t].frags[n] = None /\ data[a][t].frags[m] # None

(***************************************************************************)
(* A bucket that got a last fragment does not stay forever, complete or    *)
(* not, unless further last fragments keep coming (esp_lib.py:275-280).    *)
(***************************************************************************)
FinishedBucketsGo ==
  \A a \in Addrs, t \in Timestamps :
    []<>(data[a][t].finished = 0) \/ []<>(data[a][t].finished = -1)
=============================================================================
