--------------------------- MODULE EpServerProofs ---------------------------
(***************************************************************************)
(* Theorems about EpServer, for any set of peers, any time limits and any  *)
(* number of datagrams, messages and passes of the loop.                   *)
(***************************************************************************)
EXTENDS MCEpServer, FiniteSetTheorems, SequenceTheorems, TLAPS

-----------------------------------------------------------------------------
(* Lists of Esp objects. *)

\* A peer has at most one object in the list.
Unique(list) == \A i, j \in DOMAIN list : list[i].addr = list[j].addr => i = j

\* A client that was answered and not told to go, and one synchronised since.
Answered == {"joined", "synced", "stopped"}

Reached == {"synced", "stopped"}

\* The object is not ahead of its client, nor of the latest broadcast.
Follows(esp) ==
  /\ esp.state = "ASSOCIATED" => told[esp.addr] \in Answered
  /\ esp.state = "SYNCED" => told[esp.addr] \in Reached /\ esp.addr \in last_sync

\* All objects of the list follow, with at most n fragments each.
Fits(list, n) ==
  /\ list \in Seq(Esp)
  /\ Unique(list)
  /\ \A i \in DOMAIN list : Follows(list[i]) /\ list[i].data_queue <= n

\* What removing an element leaves.
LEMMA Removed ==
  ASSUME NEW S, NEW s \in Seq(S), NEW k \in DOMAIN s
  PROVE  /\ RemoveAt(s, k) \in Seq(S)
         /\ DOMAIN RemoveAt(s, k) = 1 .. Len(s) - 1
         /\ \A n \in 1 .. Len(s) - 1 :
              RemoveAt(s, k)[n] = IF n < k THEN s[n] ELSE s[n + 1]
<1>1. k \in 1 .. Len(s) /\ Len(s) \in Nat /\ DOMAIN s = 1 .. Len(s)
  OBVIOUS
<1>. DEFINE before == SubSeq(s, 1, k - 1)
            after  == SubSeq(s, k + 1, Len(s))
<1>2. /\ before \in Seq(S) /\ Len(before) = k - 1
      /\ \A n \in 1 .. k - 1 : before[n] = s[n]
  BY <1>1
<1>3. /\ after \in Seq(S) /\ Len(after) = Len(s) - k
      /\ \A n \in 1 .. Len(s) - k : after[n] = s[k + n]
  BY <1>1
<1>4. RemoveAt(s, k) = before \o after
  BY DEF RemoveAt
<1>. HIDE DEF before, after
<1>5. /\ before \o after \in Seq(S)
      /\ Len(before \o after) = Len(s) - 1
  <2>1. before \in Seq(S) /\ after \in Seq(S)
    BY <1>2, <1>3
  <2>2. before \o after \in Seq(S)
    BY <2>1
  <2>3. Len(before \o after) = Len(before) + Len(after)
    BY <2>1, ConcatProperties
  <2>. QED
    BY <1>1, <1>2, <1>3, <2>2, <2>3
<1>6. ASSUME NEW n \in 1 .. Len(s) - 1
      PROVE  (before \o after)[n] = IF n < k THEN s[n] ELSE s[n + 1]
  <2>1. CASE n < k
    BY <1>1, <1>2, <1>3, <2>1
  <2>2. CASE ~ (n < k)
    <3>1. n - (k - 1) \in 1 .. Len(s) - k
      BY <1>1, <2>2
    <3>2. (before \o after)[n] = after[n - (k - 1)]
      BY <1>1, <1>2, <1>3, <2>2, <3>1
    <3>3. after[n - (k - 1)] = s[k + (n - (k - 1))]
      BY <1>3, <3>1
    <3>4. k + (n - (k - 1)) = n + 1
      BY <1>1
    <3>. QED
      BY <2>2, <3>2, <3>3, <3>4
  <2>. QED
    BY <2>1, <2>2
<1>. QED
  BY <1>4, <1>5, <1>6

\* What a sequence is made of.
LEMMA Elements ==
  ASSUME NEW S, NEW s \in Seq(S)
  PROVE  /\ Len(s) \in Nat
         /\ DOMAIN s = 1 .. Len(s)
         /\ \A i \in DOMAIN s : s[i] \in S
  OBVIOUS

\* A function on the domain of a sequence is a sequence.
LEMMA Mapped ==
  ASSUME NEW S, NEW T, NEW s \in Seq(S), NEW f \in [DOMAIN s -> T]
  PROVE  f \in Seq(T) /\ DOMAIN f = DOMAIN s
  OBVIOUS

\* A list that keeps its peers in their places has no new duplicates.
LEMMA UniqueMapped ==
  ASSUME NEW list, NEW new, Unique(list), DOMAIN new = DOMAIN list,
         \A i \in DOMAIN list : new[i].addr = list[i].addr
  PROVE  Unique(new)
  BY DEF Unique

LEMMA UniqueRemoved ==
  ASSUME NEW list \in Seq(Esp), NEW k \in DOMAIN list, Unique(list)
  PROVE  /\ Unique(RemoveAt(list, k))
         /\ \A n \in DOMAIN RemoveAt(list, k) :
              \E m \in DOMAIN list : m # k /\ RemoveAt(list, k)[n] = list[m]
<1>1. k \in 1 .. Len(list) /\ Len(list) \in Nat /\ DOMAIN list = 1 .. Len(list)
  OBVIOUS
<1>2. /\ DOMAIN RemoveAt(list, k) = 1 .. Len(list) - 1
      /\ \A n \in 1 .. Len(list) - 1 :
           RemoveAt(list, k)[n] = IF n < k THEN list[n] ELSE list[n + 1]
  BY Removed
<1>. DEFINE from(n) == IF n < k THEN n ELSE n + 1
<1>3. \A n \in 1 .. Len(list) - 1 :
        from(n) \in DOMAIN list /\ from(n) # k /\ RemoveAt(list, k)[n] = list[from(n)]
  BY <1>1, <1>2
<1>4. \A n, m \in 1 .. Len(list) - 1 : from(n) = from(m) => n = m
  BY <1>1
<1>. HIDE DEF from
<1>5. Unique(RemoveAt(list, k))
  BY <1>2, <1>3, <1>4 DEF Unique
<1>. QED
  BY <1>2, <1>3, <1>5

-----------------------------------------------------------------------------
(* The inductive invariant. *)

\* What a pass does is done in its turn.
InTurn ==
  /\ pc # "ping" => cursor = 1 /\ dropped = 0
  /\ "esp" \in inputs /\ pc \in {"mqtt", "read"} => sock # <<>>
  /\ "mqtt" \in inputs /\ pc = "mqtt" => mqtt # <<>>

\* The most fragments that an object holds at this part of the pass.
Waiting == IF pc \in {"ping", "flush", "collect"} THEN 1 ELSE 0

ServerInv ==
  /\ TypeOK
  /\ InTurn
  /\ Fits(esp_list, Waiting)
  /\ WalkMissesOnlySuccessors

LEMMA ServerInit ==
  ASSUME Init
  PROVE  ServerInv
<1>1. TypeOK
  <2>1. /\ esp_list \in Seq(Esp) /\ write_queue \in Seq([to : Peers, kind : Frames])
        /\ sock \in Seq([from : Peers, kind : Datagrams]) /\ mqtt \in Seq(Topics)
    BY DEF Init
  <2>2. outputs \in BOOLEAN
    BY DEF Init
  <2>. QED
    BY <2>1, <2>2 DEF Init, TypeOK, Clients
<1>2. InTurn
  BY DEF Init, InTurn
<1>3. Fits(esp_list, Waiting)
  <2>1. <<>> \in Seq(Esp) /\ DOMAIN <<>> = {}
    OBVIOUS
  <2>. QED
    BY <2>1 DEF Init, Fits, Unique
<1>4. WalkMissesOnlySuccessors
  BY DEF Init, WalkMissesOnlySuccessors
<1>. QED
  BY <1>1, <1>2, <1>3, <1>4 DEF ServerInv

\* A walk that begins has missed nobody.
LEMMA WalkBegins ==
  ASSUME cursor' = 1, dropped' \in Nat
  PROVE  WalkMissesOnlySuccessors'
<1>. DEFINE overdue == {p \in 1 .. cursor - 1 :
                          p \in DOMAIN esp_list /\ (PingDue(esp_list[p]) \/ Silent(esp_list[p]))}
<1>1. overdue' = {}
  OBVIOUS
<1>2. Cardinality(overdue') = 0
  BY <1>1, FS_EmptySet
<1>. QED
  BY <1>2 DEF WalkMissesOnlySuccessors

LEMMA ServerSelect ==
  ASSUME ServerInv, Select
  PROVE  ServerInv'
<1>1. TypeOK'
  BY DEF ServerInv, TypeOK, Select
<1>2. InTurn'
  BY DEF ServerInv, InTurn, Select
<1>3. Fits(esp_list, Waiting)'
  BY DEF ServerInv, Fits, Waiting, Follows, Unique, Select
<1>4. WalkMissesOnlySuccessors'
  BY DEF Select, WalkMissesOnlySuccessors
<1>. QED
  BY <1>1, <1>2, <1>3, <1>4 DEF ServerInv

LEMMA ServerArrive ==
  ASSUME ServerInv, NEW a \in Peers, Arrive(a)
  PROVE  ServerInv'
<1>1. PICK k \in Datagrams : sock' = Append(sock, [from |-> a, kind |-> k])
  BY DEF Arrive
<1>2. TypeOK'
  BY <1>1 DEF ServerInv, TypeOK, Arrive
<1>3. InTurn'
  BY DEF ServerInv, InTurn, Arrive
<1>4. Fits(esp_list, Waiting)'
  BY DEF ServerInv, Fits, Waiting, Follows, Unique, Arrive
<1>5. WalkMissesOnlySuccessors'
  BY DEF Arrive, WalkMissesOnlySuccessors
<1>. QED
  BY <1>2, <1>3, <1>4, <1>5 DEF ServerInv

LEMMA ServerPublish ==
  ASSUME ServerInv, Publish
  PROVE  ServerInv'
<1>1. PICK t \in Topics : mqtt' = Append(mqtt, t)
  BY DEF Publish
<1>2. TypeOK'
  BY <1>1 DEF ServerInv, TypeOK, Publish
<1>3. InTurn'
  BY DEF ServerInv, InTurn, Publish
<1>4. Fits(esp_list, Waiting)'
  BY DEF ServerInv, Fits, Waiting, Follows, Unique, Publish
<1>5. WalkMissesOnlySuccessors'
  BY DEF Publish, WalkMissesOnlySuccessors
<1>. QED
  BY <1>2, <1>3, <1>4, <1>5 DEF ServerInv

LEMMA ServerFlush ==
  ASSUME ServerInv, Flush
  PROVE  ServerInv'
<1>1. TypeOK'
  BY DEF ServerInv, TypeOK, Flush
<1>2. InTurn'
  BY DEF ServerInv, InTurn, Flush
<1>3. Fits(esp_list, Waiting)'
  BY DEF ServerInv, Fits, Waiting, Follows, Unique, Flush
<1>4. WalkMissesOnlySuccessors'
  BY DEF Flush, WalkMissesOnlySuccessors
<1>. QED
  BY <1>1, <1>2, <1>3, <1>4 DEF ServerInv

LEMMA ServerWalkDone ==
  ASSUME ServerInv, WalkDone
  PROVE  ServerInv'
<1>1. TypeOK'
  <2>1. told' \in [Peers -> Clients]
    BY DEF ServerInv, TypeOK, WalkDone, Clients
  <2>. QED
    BY <2>1 DEF ServerInv, TypeOK, WalkDone
<1>2. InTurn'
  BY DEF ServerInv, InTurn, WalkDone
<1>3. Fits(esp_list, Waiting)'
  <2>1. /\ UNCHANGED <<esp_list, last_sync>>
        /\ told' = [a \in Peers |-> IF a \in ListedIn(esp_list) THEN told[a] ELSE "asking"]
        /\ Waiting = 1 /\ Waiting' = 1
    BY DEF WalkDone, Waiting
  <2>2. \A i \in DOMAIN esp_list : esp_list[i].addr \in Peers /\ esp_list[i].addr \in ListedIn(esp_list)
    <3>1. \A i \in DOMAIN esp_list : esp_list[i] \in Esp
      BY Elements DEF ServerInv, TypeOK
    <3>. QED
      BY <3>1 DEF Esp, ListedIn
  <2>3. \A i \in DOMAIN esp_list : told'[esp_list[i].addr] = told[esp_list[i].addr]
    BY <2>1, <2>2
  <2>. QED
    BY <2>1, <2>3 DEF ServerInv, Fits, Follows, Unique
<1>4. WalkMissesOnlySuccessors'
  BY DEF WalkDone, WalkMissesOnlySuccessors
<1>. QED
  BY <1>1, <1>2, <1>3, <1>4 DEF ServerInv

\* What the collector leaves of an object.
Taken(e) == IF e.data_queue > 0 THEN [e EXCEPT !.data_queue = @ - 1] ELSE e

LEMMA ServerCollect ==
  ASSUME ServerInv, Collect
  PROVE  ServerInv'
<1>1. esp_list \in Seq(Esp)
  BY DEF ServerInv, TypeOK
<1>2. \A e \in Esp :
        /\ Taken(e) \in Esp
        /\ Taken(e).addr = e.addr /\ Taken(e).state = e.state
        /\ e.data_queue <= 1 => Taken(e).data_queue <= 0
  BY DEF Esp, Taken
<1>3. esp_list' = [i \in DOMAIN esp_list |-> Taken(esp_list[i])]
  BY DEF Collect, Taken
<1>4. esp_list' \in Seq(Esp) /\ DOMAIN esp_list' = DOMAIN esp_list
  <2>1. esp_list' \in [DOMAIN esp_list -> Esp]
    <3>1. \A i \in DOMAIN esp_list : esp_list[i] \in Esp
      BY <1>1, Elements
    <3>2. \A i \in DOMAIN esp_list : Taken(esp_list[i]) \in Esp
      BY <1>2, <3>1
    <3>. QED
      BY <1>3, <3>2
  <2>. QED
    BY <1>1, <2>1, Mapped
<1>5. TypeOK'
  BY <1>4 DEF ServerInv, TypeOK, Collect
<1>6. InTurn'
  BY DEF ServerInv, InTurn, Collect
<1>7. Fits(esp_list, Waiting)'
  <2>1. Unique(esp_list')
    <3>1. Unique(esp_list)
      BY DEF ServerInv, Fits
    <3>2. \A i \in DOMAIN esp_list : esp_list'[i].addr = esp_list[i].addr
      BY <1>1, <1>2, <1>3, Elements
    <3>. QED
      BY <1>4, <3>1, <3>2, UniqueMapped
  <2>2. Waiting = 1 /\ Waiting' = 0
    BY DEF Collect, Waiting
  <2>3. ASSUME NEW i \in DOMAIN esp_list
        PROVE  Follows(esp_list[i])' /\ esp_list'[i].data_queue <= 0
    <3>1. Follows(esp_list[i]) /\ esp_list[i].data_queue <= 1 /\ esp_list[i] \in Esp
      BY <1>1, <2>2, Elements DEF ServerInv, Fits
    <3>2. esp_list'[i] = Taken(esp_list[i])
      BY <1>3
    <3>3. told' = told /\ last_sync' = last_sync
      BY DEF Collect
    <3>4. /\ esp_list'[i].addr = esp_list[i].addr /\ esp_list'[i].state = esp_list[i].state
          /\ esp_list'[i].data_queue <= 0
      BY <1>2, <3>1, <3>2
    <3>. QED
      BY <3>1, <3>3, <3>4 DEF Follows
  <2>. QED
    BY <1>4, <2>1, <2>2, <2>3 DEF Fits, Unique
<1>8. WalkMissesOnlySuccessors'
  BY DEF Collect, WalkMissesOnlySuccessors
<1>. QED
  BY <1>5, <1>6, <1>7, <1>8 DEF ServerInv

\* An object that has grown older.
Aged(e) == [e EXCEPT !.sent = Older(@, PingInterval), !.recv = Older(@, RxTimeout + 1)]

LEMMA ServerTick ==
  ASSUME ServerInv, Tick
  PROVE  ServerInv'
<1>1. esp_list \in Seq(Esp)
  BY DEF ServerInv, TypeOK
<1>2. ASSUME NEW e \in Esp
      PROVE  /\ Aged(e) \in Esp /\ Aged(e).addr = e.addr
             /\ Aged(e).state = e.state /\ Aged(e).data_queue = e.data_queue
  <2>1. e.sent \in 0 .. PingInterval /\ e.recv \in 0 .. RxTimeout + 1
    BY DEF Esp
  <2>2. /\ Older(e.sent, PingInterval) \in 0 .. PingInterval
        /\ Older(e.recv, RxTimeout + 1) \in 0 .. RxTimeout + 1
    BY ServerConstants, <2>1 DEF Older
  <2>. QED
    BY <2>2 DEF Esp, Aged
<1>3. esp_list' = [i \in DOMAIN esp_list |-> Aged(esp_list[i])]
  BY DEF Tick, Aged
<1>4. esp_list' \in Seq(Esp) /\ DOMAIN esp_list' = DOMAIN esp_list
  <2>1. esp_list' \in [DOMAIN esp_list -> Esp]
    BY <1>1, <1>2, <1>3, Elements
  <2>. QED
    BY <1>1, <2>1, Mapped
<1>5. TypeOK'
  BY <1>4 DEF ServerInv, TypeOK, Tick
<1>6. InTurn'
  BY DEF ServerInv, InTurn, Tick
<1>7. Fits(esp_list, Waiting)'
  <2>1. Unique(esp_list')
    BY <1>1, <1>2, <1>3, <1>4, Elements, UniqueMapped DEF ServerInv, Fits
  <2>2. Waiting' = Waiting /\ told' = told /\ last_sync' = last_sync
    BY DEF Tick, Waiting
  <2>3. ASSUME NEW i \in DOMAIN esp_list
        PROVE  Follows(esp_list[i])' /\ esp_list'[i].data_queue <= Waiting
    <3>1. Follows(esp_list[i]) /\ esp_list[i].data_queue <= Waiting /\ esp_list[i] \in Esp
      BY <1>1, Elements DEF ServerInv, Fits
    <3>2. esp_list'[i] = Aged(esp_list[i])
      BY <1>3
    <3>. QED
      BY <1>2, <2>2, <3>1, <3>2 DEF Follows
  <2>. QED
    BY <1>4, <2>1, <2>2, <2>3 DEF Fits, Unique
<1>8. WalkMissesOnlySuccessors'
  <2>1. CASE pc = "ping"
    <3>1. cursor' = 1 /\ dropped' \in Nat
      BY <2>1 DEF Tick, ServerInv, TypeOK
    <3>. QED
      BY <3>1, WalkBegins
  <2>2. CASE pc # "ping"
    BY <2>2 DEF Tick, WalkMissesOnlySuccessors
  <2>. QED
    BY <2>1, <2>2
<1>. QED
  BY <1>5, <1>6, <1>7, <1>8 DEF ServerInv

-----------------------------------------------------------------------------
(* What is written, and to whom. *)

Frame == [to : Peers, kind : Frames]

\* The variables that Esp.write touches have their types.
Typed ==
  /\ write_queue \in Seq(Frame)
  /\ told \in [Peers -> Clients]
  /\ last_sync \subseteq Peers

LEMMA AfterType ==
  ASSUME NEW c \in Clients, NEW f \in Frames
  PROVE  After(c, f) \in Clients
  BY DEF After, Clients

\* A frame for one peer: the others know what they knew.
LEMMA Written ==
  ASSUME Typed, NEW a \in Peers, NEW f \in Frames, NEW c \in Clients, Write(a, f, c)
  PROVE  /\ write_queue' \in Seq(Frame)
         /\ told' \in [Peers -> Clients]
         /\ told'[a] = After(c, f)
         /\ \A b \in Peers \ {a} : told'[b] = told[b]
<1>1. [to |-> a, kind |-> f] \in Frame
  BY DEF Frame
<1>2. write_queue' \in Seq(Frame)
  BY <1>1 DEF Typed, Write
<1>3. After(c, f) \in Clients
  BY AfterType
<1>4. told' = [told EXCEPT ![a] = After(c, f)]
  BY DEF Write
<1>. QED
  BY <1>2, <1>3, <1>4 DEF Typed

\* A frame for all: each listed peer has it.
LEMMA WrittenToAll ==
  ASSUME Typed, NEW list \in Seq(Esp), NEW f \in Frames, WriteAll(list, f)
  PROVE  /\ write_queue' \in Seq(Frame)
         /\ told' \in [Peers -> Clients]
         /\ \A i \in DOMAIN list : told'[list[i].addr] = After(told[list[i].addr], f)
         /\ \A b \in Peers : told'[b] \in {told[b], After(told[b], f)}
<1>. DEFINE frames == [i \in DOMAIN list |-> [to |-> list[i].addr, kind |-> f]]
<1>1. \A i \in DOMAIN list : list[i].addr \in Peers
  <2>1. \A i \in DOMAIN list : list[i] \in Esp
    BY Elements
  <2>. QED
    BY <2>1 DEF Esp
<1>2. frames \in [DOMAIN list -> Frame]
  BY <1>1 DEF Frame
<1>3. frames \in Seq(Frame)
  BY <1>2, Mapped
<1>4. write_queue' = write_queue \o frames
  BY DEF WriteAll
<1>. HIDE DEF frames
<1>5. write_queue' \in Seq(Frame)
  BY <1>3, <1>4 DEF Typed
<1>6. told' = [b \in Peers |-> IF b \in ListedIn(list) THEN After(told[b], f) ELSE told[b]]
  BY DEF WriteAll
<1>7. \A b \in Peers : After(told[b], f) \in Clients
  BY AfterType DEF Typed
<1>8. \A i \in DOMAIN list : list[i].addr \in ListedIn(list)
  BY DEF ListedIn
<1>. QED
  BY <1>1, <1>5, <1>6, <1>7, <1>8 DEF Typed

\* Only the time of transmission changes.
LEMMA Sent ==
  ASSUME NEW list \in Seq(Esp)
  PROVE  /\ AllSent(list) \in Seq(Esp)
         /\ DOMAIN AllSent(list) = DOMAIN list
         /\ \A i \in DOMAIN list :
              /\ AllSent(list)[i].addr = list[i].addr
              /\ AllSent(list)[i].state = list[i].state
              /\ AllSent(list)[i].data_queue = list[i].data_queue
<1>1. \A i \in DOMAIN list : list[i] \in Esp
  BY Elements
<1>2. ASSUME NEW i \in DOMAIN list
      PROVE  [list[i] EXCEPT !.sent = 0] \in Esp
  <2>1. 0 \in 0 .. PingInterval
    BY ServerConstants
  <2>2. list[i] \in Esp
    BY <1>1
  <2>. QED
    BY <2>1, <2>2 DEF Esp
<1>3. AllSent(list) \in [DOMAIN list -> Esp]
  BY <1>2 DEF AllSent
<1>4. AllSent(list) \in Seq(Esp) /\ DOMAIN AllSent(list) = DOMAIN list
  BY <1>3, Mapped
<1>. QED
  BY <1>1, <1>4 DEF AllSent, Esp

LEMMA ServerReadMqtt ==
  ASSUME ServerInv, ReadMqtt
  PROVE  ServerInv'
<1>1. Typed /\ esp_list \in Seq(Esp) /\ mqtt \in Seq(Topics)
  BY DEF ServerInv, TypeOK, Typed, Frame
<1>2. /\ write_queue' \in Seq(Frame) /\ told' \in [Peers -> Clients]
      /\ \A b \in Peers : /\ told[b] \in Answered => told'[b] \in Answered
                          /\ told[b] \in Reached => told'[b] \in Reached
      /\ mqtt' \in Seq(Topics)
      /\ esp_list' \in Seq(Esp) /\ DOMAIN esp_list' = DOMAIN esp_list
      /\ \A i \in DOMAIN esp_list :
           /\ esp_list'[i].addr = esp_list[i].addr
           /\ esp_list'[i].state = esp_list[i].state
           /\ esp_list'[i].data_queue = esp_list[i].data_queue
  <2>1. CASE "mqtt" \notin inputs
    BY <1>1, <2>1 DEF ReadMqtt, ObeyMqtt, WriteNothing, Typed
  <2>2. CASE "mqtt" \in inputs
    <3>1. ObeyMqtt
      BY <2>2 DEF ReadMqtt
    <3>2. mqtt' \in Seq(Topics)
      <4>1. mqtt # <<>>
        BY <2>2 DEF ReadMqtt, ServerInv, InTurn
      <4>. QED
        BY <1>1, <3>1, <4>1 DEF ObeyMqtt
    <3>3. CASE WriteNothing /\ UNCHANGED esp_list
      BY <1>1, <3>2, <3>3 DEF WriteNothing, Typed
    <3>4. ASSUME NEW f \in {"ota", "config"}, WriteAll(esp_list, f),
                 esp_list' = AllSent(esp_list)
          PROVE  /\ write_queue' \in Seq(Frame) /\ told' \in [Peers -> Clients]
                 /\ \A b \in Peers : /\ told[b] \in Answered => told'[b] \in Answered
                                     /\ told[b] \in Reached => told'[b] \in Reached
                 /\ esp_list' \in Seq(Esp) /\ DOMAIN esp_list' = DOMAIN esp_list
                 /\ \A i \in DOMAIN esp_list :
                      /\ esp_list'[i].addr = esp_list[i].addr
                      /\ esp_list'[i].state = esp_list[i].state
                      /\ esp_list'[i].data_queue = esp_list[i].data_queue
      <4>1. f \in Frames
        BY DEF Frames
      <4>2. /\ write_queue' \in Seq(Frame)
            /\ told' \in [Peers -> Clients]
            /\ \A b \in Peers : told'[b] \in {told[b], After(told[b], f)}
        BY <1>1, <3>4, <4>1, WrittenToAll
      <4>3. \A c \in Clients : /\ c \in Answered => After(c, f) \in Answered
                               /\ c \in Reached => After(c, f) \in Reached
        BY DEF After, Answered, Reached, Clients
      <4>4. \A b \in Peers : /\ told[b] \in Answered => told'[b] \in Answered
                             /\ told[b] \in Reached => told'[b] \in Reached
        BY <1>1, <4>2, <4>3 DEF Typed
      <4>. QED
        BY <1>1, <3>4, <4>2, <4>4, Sent
    <3>. QED
      BY <3>1, <3>2, <3>3, <3>4 DEF ObeyMqtt
  <2>. QED
    BY <2>1, <2>2
<1>3. /\ pc' = "read" /\ pc = "mqtt"
      /\ UNCHANGED <<cursor, inputs, outputs, sock, dropped, last_sync>>
  BY DEF ReadMqtt
<1>4. TypeOK'
  BY <1>2, <1>3 DEF ServerInv, TypeOK, Frame
<1>5. InTurn'
  BY <1>3 DEF ServerInv, InTurn
<1>6. Fits(esp_list, Waiting)'
  <2>1. Waiting = 0 /\ Waiting' = 0
    BY <1>3 DEF Waiting
  <2>2. Unique(esp_list')
    BY <1>2, UniqueMapped DEF ServerInv, Fits
  <2>3. \A i \in DOMAIN esp_list : Follows(esp_list[i]) /\ esp_list[i].data_queue <= 0
    BY <2>1 DEF ServerInv, Fits
  <2>4. \A i \in DOMAIN esp_list : esp_list[i].addr \in Peers
    <3>1. \A i \in DOMAIN esp_list : esp_list[i] \in Esp
      BY <1>1, Elements
    <3>. QED
      BY <3>1 DEF Esp
  <2>5. \A i \in DOMAIN esp_list : Follows(esp_list[i])' /\ esp_list'[i].data_queue <= 0
    BY <1>2, <1>3, <2>3, <2>4 DEF Follows
  <2>. QED
    BY <1>2, <2>1, <2>2, <2>5 DEF Fits, Unique
<1>7. WalkMissesOnlySuccessors'
  BY <1>3 DEF WalkMissesOnlySuccessors
<1>. QED
  BY <1>4, <1>5, <1>6, <1>7 DEF ServerInv

-----------------------------------------------------------------------------
(* Esp.read.  The lemmas say what each state makes of a datagram, whatever  *)
(* the list it is given, if the list fits.                                  *)

ReadFits == Typed /\ Fits(esp_list, 1)

\* The list as it was.
LEMMA KeptFits ==
  ASSUME Typed, NEW list, Fits(list, 0), WriteNothing, UNCHANGED last_sync,
         esp_list' = list
  PROVE  ReadFits'
<1>1. list \in Seq(Esp) /\ Unique(list)
  BY DEF Fits
<1>2. \A n \in DOMAIN list : list[n] \in Esp
  BY <1>1, Elements
<1>3. ASSUME NEW n \in DOMAIN list
      PROVE  Follows(esp_list[n])' /\ esp_list'[n].data_queue <= 1
  <2>1. Follows(list[n]) /\ list[n].data_queue = 0
    BY <1>2 DEF Fits, Esp
  <2>. QED
    BY <2>1 DEF Follows, WriteNothing
<1>4. Fits(esp_list, 1)'
  BY <1>1, <1>3 DEF Fits, Unique
<1>. QED
  BY <1>4 DEF ReadFits, Typed, WriteNothing

\* A list without one object, the others as they were.
LEMMA RemovedFits ==
  ASSUME Typed, NEW list, Fits(list, 0), NEW i \in DOMAIN list,
         WriteNothing, UNCHANGED last_sync, esp_list' = RemoveAt(list, i)
  PROVE  ReadFits'
<1>1. list \in Seq(Esp) /\ Unique(list)
  BY DEF Fits
<1>2. esp_list' \in Seq(Esp)
  BY <1>1, Removed
<1>3. /\ Unique(esp_list')
      /\ \A n \in DOMAIN esp_list' : \E m \in DOMAIN list : esp_list'[n] = list[m]
  BY <1>1, UniqueRemoved
<1>4. ASSUME NEW n \in DOMAIN esp_list'
      PROVE  Follows(esp_list[n])' /\ esp_list'[n].data_queue <= 1
  <2>1. PICK m \in DOMAIN list : esp_list'[n] = list[m]
    BY <1>3
  <2>2. Follows(list[m]) /\ list[m].data_queue <= 0 /\ list[m] \in Esp
    BY <1>1, Elements DEF Fits
  <2>3. list[m].data_queue \in Nat
    BY <2>2 DEF Esp
  <2>4. Follows(esp_list[n])'
    BY <2>1, <2>2 DEF Follows, WriteNothing
  <2>. QED
    BY <2>1, <2>2, <2>3, <2>4
<1>5. Fits(esp_list, 1)'
  BY <1>2, <1>3, <1>4 DEF Fits, Unique
<1>. QED
  BY <1>5 DEF ReadFits, Typed, WriteNothing

LEMMA ReadingIdle ==
  ASSUME Typed, NEW list, Fits(list, 0), NEW i \in DOMAIN list,
         NEW kind \in Datagrams, ReadIdle(list, i, kind)
  PROVE  ReadFits'
<1>1. CASE kind # "assoc"
  BY <1>1, RemovedFits DEF ReadIdle
<1>2. CASE kind = "assoc"
  <2>1. list \in Seq(Esp) /\ Unique(list)
    BY DEF Fits
  <2>2. \A n \in DOMAIN list : list[n] \in Esp /\ list[n].addr \in Peers
    <3>1. \A n \in DOMAIN list : list[n] \in Esp
      BY <2>1, Elements
    <3>. QED
      BY <3>1 DEF Esp
  <2>3. /\ Write(list[i].addr, "assoc_resp", "asking")
        /\ esp_list' = [list EXCEPT ![i].sent = 0, ![i].state = "ASSOCIATED"]
        /\ last_sync' = last_sync
    BY <1>2 DEF ReadIdle
  <2>4. "assoc_resp" \in Frames /\ "asking" \in Clients
    BY DEF Frames, Clients
  <2>5. /\ write_queue' \in Seq(Frame)
        /\ told' \in [Peers -> Clients]
        /\ told'[list[i].addr] = After("asking", "assoc_resp")
        /\ \A b \in Peers \ {list[i].addr} : told'[b] = told[b]
    BY <2>2, <2>3, <2>4, Written
  <2>6. told'[list[i].addr] = "joined"
    BY <2>5 DEF After
  <2>. DEFINE new == [[list[i] EXCEPT !.sent = 0] EXCEPT !.state = "ASSOCIATED"]
  <2>7. /\ new \in Esp /\ new.addr = list[i].addr /\ new.state = "ASSOCIATED"
        /\ new.data_queue = list[i].data_queue
    <3>1. 0 \in 0 .. PingInterval
      BY ServerConstants
    <3>. QED
      BY <2>2, <3>1 DEF Esp
  <2>8. esp_list' = [list EXCEPT ![i] = new]
    BY <2>1, <2>3
  <2>. HIDE DEF new
  <2>9. esp_list' \in Seq(Esp) /\ DOMAIN esp_list' = DOMAIN list
    BY <2>1, <2>7, <2>8
  <2>10. \A n \in DOMAIN list : esp_list'[n].addr = list[n].addr
    BY <2>1, <2>7, <2>8
  <2>11. Unique(esp_list')
    BY <2>1, <2>9, <2>10, UniqueMapped
  <2>12. ASSUME NEW n \in DOMAIN list
         PROVE  Follows(esp_list[n])' /\ esp_list'[n].data_queue <= 1
    <3>1. Follows(list[n]) /\ list[n].data_queue = 0
      BY <2>2 DEF Fits, Esp
    <3>2. CASE n = i
      <4>1. esp_list'[n] = new
        BY <2>1, <2>8, <3>2
      <4>2. Follows(esp_list[n])'
        BY <2>6, <2>7, <4>1 DEF Follows, Answered
      <4>. QED
        BY <2>7, <3>1, <3>2, <4>1, <4>2
    <3>3. CASE n # i
      <4>1. esp_list'[n] = list[n]
        BY <2>1, <2>8, <3>3
      <4>2. list[n].addr \in Peers \ {list[i].addr}
        BY <2>1, <2>2, <3>3 DEF Unique
      <4>3. Follows(esp_list[n])'
        BY <2>3, <2>5, <3>1, <4>1, <4>2 DEF Follows
      <4>. QED
        BY <3>1, <4>1, <4>3
    <3>. QED
      BY <3>2, <3>3
  <2>13. Fits(esp_list, 1)'
    BY <2>9, <2>11, <2>12 DEF Fits, Unique
  <2>. QED
    BY <2>3, <2>5, <2>13 DEF ReadFits, Typed
<1>. QED
  BY <1>1, <1>2

LEMMA ReadingAssociated ==
  ASSUME Typed, NEW list, Fits(list, 0), NEW i \in DOMAIN list,
         NEW kind \in Datagrams, ReadAssociated(list, i, kind)
  PROVE  ReadFits'
<1>1. list \in Seq(Esp) /\ Unique(list)
  BY DEF Fits
<1>2. \A n \in DOMAIN list : list[n] \in Esp /\ list[n].addr \in Peers
  <2>1. \A n \in DOMAIN list : list[n] \in Esp
    BY <1>1, Elements
  <2>. QED
    BY <2>1 DEF Esp
<1>3. /\ WriteAll(list, "sync")
      /\ esp_list' = [AllSent(list) EXCEPT ![i].state = "SYNCED"]
      /\ last_sync' = ListedIn(list)
      /\ list[i].state = "ASSOCIATED"
  BY DEF ReadAssociated
<1>4. /\ write_queue' \in Seq(Frame)
      /\ told' \in [Peers -> Clients]
      /\ \A n \in DOMAIN list : told'[list[n].addr] = After(told[list[n].addr], "sync")
  <2>1. "sync" \in Frames
    BY DEF Frames
  <2>. QED
    BY <1>1, <1>3, <2>1, WrittenToAll
<1>5. /\ AllSent(list) \in Seq(Esp) /\ DOMAIN AllSent(list) = DOMAIN list
      /\ \A n \in DOMAIN list :
           /\ AllSent(list)[n].addr = list[n].addr
           /\ AllSent(list)[n].state = list[n].state
           /\ AllSent(list)[n].data_queue = list[n].data_queue
  BY <1>1, Sent
<1>. DEFINE new == [AllSent(list)[i] EXCEPT !.state = "SYNCED"]
<1>6. /\ new \in Esp /\ new.addr = list[i].addr /\ new.state = "SYNCED"
      /\ new.data_queue = list[i].data_queue
  <2>1. AllSent(list)[i] \in Esp
    BY <1>5, Elements
  <2>. QED
    BY <1>5, <2>1 DEF Esp
<1>7. esp_list' = [AllSent(list) EXCEPT ![i] = new]
  BY <1>3, <1>5
<1>. HIDE DEF new
<1>8. esp_list' \in Seq(Esp) /\ DOMAIN esp_list' = DOMAIN list
  BY <1>5, <1>6, <1>7
<1>9. \A n \in DOMAIN list : /\ esp_list'[n].addr = list[n].addr
                             /\ esp_list'[n].data_queue = list[n].data_queue
                             /\ n # i => esp_list'[n].state = list[n].state
  BY <1>5, <1>6, <1>7
<1>10. Unique(esp_list')
  BY <1>1, <1>8, <1>9, UniqueMapped
<1>11. ASSUME NEW n \in DOMAIN list
       PROVE  Follows(esp_list[n])' /\ esp_list'[n].data_queue <= 1
  <2>1. Follows(list[n]) /\ list[n].data_queue = 0
    BY <1>2 DEF Fits, Esp
  <2>2. list[n].addr \in last_sync'
    BY <1>3 DEF ListedIn
  <2>3. \/ list[n].state \in {"ASSOCIATED", "SYNCED"}
        \/ esp_list'[n].state \notin {"ASSOCIATED", "SYNCED"}
    BY <1>3, <1>9
  <2>4. ASSUME list[n].state \in {"ASSOCIATED", "SYNCED"}
        PROVE  told'[list[n].addr] \in Reached
    <3>1. told[list[n].addr] \in Answered
      BY <2>1, <2>4 DEF Follows, Answered, Reached
    <3>2. \A c \in Answered : After(c, "sync") \in Reached
      BY DEF After, Answered, Reached
    <3>. QED
      BY <1>4, <3>1, <3>2
  <2>5. Follows(esp_list[n])'
    BY <1>9, <2>2, <2>3, <2>4 DEF Follows, Answered, Reached
  <2>. QED
    BY <1>9, <2>1, <2>5
<1>12. Fits(esp_list, 1)'
  BY <1>8, <1>10, <1>11 DEF Fits, Unique
<1>13. last_sync' \subseteq Peers
  BY <1>2, <1>3 DEF ListedIn
<1>. QED
  BY <1>4, <1>12, <1>13 DEF ReadFits, Typed

LEMMA ReadingSynced ==
  ASSUME Typed, NEW list, Fits(list, 0), NEW i \in DOMAIN list,
         NEW kind \in Datagrams, ReadSynced(list, i, kind)
  PROVE  ReadFits'
<1>1. CASE esp_list' = RemoveAt(list, i)
  BY <1>1, RemovedFits DEF ReadSynced
<1>2. CASE esp_list' = list
  BY <1>2, KeptFits DEF ReadSynced
<1>3. CASE esp_list' = [list EXCEPT ![i].data_queue = @ + 1]
  <2>1. list \in Seq(Esp) /\ Unique(list)
    BY DEF Fits
  <2>2. \A n \in DOMAIN list : list[n] \in Esp
    BY <2>1, Elements
  <2>. DEFINE new == [list[i] EXCEPT !.data_queue = @ + 1]
  <2>3. /\ new \in Esp /\ new.addr = list[i].addr /\ new.state = list[i].state
        /\ new.data_queue = list[i].data_queue + 1
    BY <2>2 DEF Esp
  <2>4. esp_list' = [list EXCEPT ![i] = new]
    BY <1>3
  <2>. HIDE DEF new
  <2>5. esp_list' \in Seq(Esp) /\ DOMAIN esp_list' = DOMAIN list
    BY <2>1, <2>3, <2>4
  <2>6. \A n \in DOMAIN list : /\ esp_list'[n].addr = list[n].addr
                               /\ esp_list'[n].state = list[n].state
                               /\ \/ esp_list'[n].data_queue = list[n].data_queue
                                  \/ esp_list'[n].data_queue = list[n].data_queue + 1
    BY <2>1, <2>3, <2>4
  <2>7. Unique(esp_list')
    BY <2>1, <2>5, <2>6, UniqueMapped
  <2>8. ASSUME NEW n \in DOMAIN list
        PROVE  Follows(esp_list[n])' /\ esp_list'[n].data_queue <= 1
    <3>1. Follows(list[n]) /\ list[n].data_queue = 0
      BY <2>2 DEF Fits, Esp
    <3>2. told' = told /\ last_sync' = last_sync
      BY DEF ReadSynced, WriteNothing
    <3>3. Follows(esp_list[n])'
      BY <2>6, <3>1, <3>2 DEF Follows
    <3>. QED
      BY <2>6, <3>1, <3>3
  <2>9. Fits(esp_list, 1)'
    BY <2>5, <2>7, <2>8 DEF Fits, Unique
  <2>. QED
    BY <2>9 DEF ReadSynced, WriteNothing, ReadFits, Typed
<1>. QED
  BY <1>1, <1>2, <1>3 DEF ReadSynced

\* The parts of Esp.read's LET.
Sender == Head(sock).from
Grown == IF accepted(Sender) THEN esp_list ELSE Append(esp_list, NewEsp(Sender))
Index == IF accepted(Sender) THEN Position(Grown, Sender) ELSE Len(Grown)
Received == [Grown EXCEPT ![Index].recv = 0]

LEMMA ReadDatagramIs ==
  ASSUME ReadDatagram
  PROVE  /\ "esp" \in inputs
         /\ \/ FalseVersion(Received, Index, Head(sock).kind)
            \/ ReadIdle(Received, Index, Head(sock).kind)
            \/ ReadAssociated(Received, Index, Head(sock).kind)
            \/ ReadSynced(Received, Index, Head(sock).kind)
         /\ sock' = Tail(sock)
  BY DEF ReadDatagram, Received, Index, Grown, Sender

\* The sender has one object and one only, whether it had one or not.
LEMMA Recognised ==
  ASSUME esp_list \in Seq(Esp), Fits(esp_list, 0), Sender \in Peers
  PROVE  /\ Fits(Grown, 0)
         /\ Index \in DOMAIN Grown
         /\ Grown[Index].addr = Sender
<1>1. CASE accepted(Sender)
  <2>1. Grown = esp_list /\ Index = Position(esp_list, Sender)
    BY <1>1 DEF Grown, Index
  <2>2. \E n \in DOMAIN esp_list : esp_list[n].addr = Sender
    BY <1>1 DEF accepted, ListedIn
  <2>. QED
    BY <2>1, <2>2 DEF Position
<1>2. CASE ~ accepted(Sender)
  <2>1. NewEsp(Sender) \in Esp
    BY ServerConstants DEF NewEsp, Esp
  <2>2. /\ NewEsp(Sender).addr = Sender /\ NewEsp(Sender).state = "IDLE"
        /\ NewEsp(Sender).data_queue = 0
    BY DEF NewEsp
  <2>3. Grown = Append(esp_list, NewEsp(Sender)) /\ Index = Len(Grown)
    BY <1>2 DEF Grown, Index
  <2>4. /\ Grown \in Seq(Esp) /\ DOMAIN Grown = 1 .. Len(esp_list) + 1
        /\ Len(Grown) = Len(esp_list) + 1 /\ Len(esp_list) \in Nat
        /\ DOMAIN esp_list = 1 .. Len(esp_list)
        /\ Grown[Len(esp_list) + 1] = NewEsp(Sender)
        /\ \A n \in 1 .. Len(esp_list) : Grown[n] = esp_list[n]
    BY <2>1, <2>3
  <2>5. \A n \in DOMAIN esp_list : esp_list[n].addr # Sender
    BY <1>2 DEF accepted, ListedIn
  <2>6. Unique(Grown)
    <3>1. SUFFICES ASSUME NEW n \in DOMAIN Grown, NEW m \in DOMAIN Grown,
                          Grown[n].addr = Grown[m].addr
                   PROVE  n = m
      BY DEF Unique
    <3>2. CASE n = Len(esp_list) + 1
      BY <2>2, <2>4, <2>5, <3>1, <3>2
    <3>3. CASE m = Len(esp_list) + 1
      BY <2>2, <2>4, <2>5, <3>1, <3>3
    <3>4. CASE n # Len(esp_list) + 1 /\ m # Len(esp_list) + 1
      BY <2>4, <3>1, <3>4 DEF Fits, Unique
    <3>. QED
      BY <3>2, <3>3, <3>4
  <2>7. ASSUME NEW n \in DOMAIN Grown
        PROVE  Follows(Grown[n]) /\ Grown[n].data_queue <= 0
    <3>1. CASE n = Len(esp_list) + 1
      BY <2>2, <2>4, <3>1 DEF Follows
    <3>2. CASE n # Len(esp_list) + 1
      BY <2>4, <3>2 DEF Fits
    <3>. QED
      BY <3>1, <3>2
  <2>. QED
    BY <2>2, <2>3, <2>4, <2>6, <2>7 DEF Fits
<1>. QED
  BY <1>1, <1>2

LEMMA ReceivedFits ==
  ASSUME esp_list \in Seq(Esp), Fits(esp_list, 0), Sender \in Peers
  PROVE  Fits(Received, 0) /\ Index \in DOMAIN Received
<1>1. Fits(Grown, 0) /\ Index \in DOMAIN Grown
  BY Recognised
<1>2. Grown \in Seq(Esp) /\ Unique(Grown)
  BY <1>1 DEF Fits
<1>. DEFINE new == [Grown[Index] EXCEPT !.recv = 0]
<1>3. /\ new \in Esp /\ new.addr = Grown[Index].addr
      /\ new.state = Grown[Index].state
      /\ new.data_queue = Grown[Index].data_queue
  <2>1. 0 \in 0 .. RxTimeout + 1
    BY ServerConstants
  <2>2. Grown[Index] \in Esp
    BY <1>1, <1>2, Elements
  <2>. QED
    BY <2>1, <2>2 DEF Esp
<1>4. Received = [Grown EXCEPT ![Index] = new]
  BY DEF Received
<1>. HIDE DEF new
<1>5. Received \in Seq(Esp) /\ DOMAIN Received = DOMAIN Grown
  BY <1>1, <1>2, <1>3, <1>4
<1>6. \A n \in DOMAIN Grown : /\ Received[n].addr = Grown[n].addr
                              /\ Received[n].state = Grown[n].state
                              /\ Received[n].data_queue = Grown[n].data_queue
  BY <1>1, <1>2, <1>3, <1>4
<1>7. Unique(Received)
  BY <1>2, <1>5, <1>6, UniqueMapped
<1>8. \A n \in DOMAIN Grown : Follows(Received[n]) /\ Received[n].data_queue <= 0
  BY <1>1, <1>6 DEF Fits, Follows
<1>. QED
  BY <1>1, <1>5, <1>7, <1>8 DEF Fits

LEMMA ServerReadEsp ==
  ASSUME ServerInv, ReadEsp
  PROVE  ServerInv'
<1>1. Typed /\ esp_list \in Seq(Esp)
  BY DEF ServerInv, TypeOK, Typed, Frame
<1>2. /\ pc = "read" /\ pc' = "ping"
      /\ UNCHANGED <<cursor, inputs, outputs, mqtt, dropped>>
  BY DEF ReadEsp
<1>3. Fits(esp_list, 0)
  BY <1>2 DEF ServerInv, Waiting
<1>4. ReadFits' /\ sock' \in Seq([from : Peers, kind : Datagrams])
  <2>1. CASE "esp" \notin inputs
    <3>1. WriteNothing /\ UNCHANGED <<esp_list, sock, last_sync>>
      BY <2>1 DEF ReadEsp, ReadDatagram
    <3>. QED
      BY <1>1, <1>3, <3>1, KeptFits DEF ServerInv, TypeOK
  <2>2. CASE "esp" \in inputs
    <3>1. ReadDatagram
      BY <2>2 DEF ReadEsp
    <3>2. sock # <<>> /\ sock \in Seq([from : Peers, kind : Datagrams])
      BY <1>2, <2>2 DEF ServerInv, InTurn, TypeOK
    <3>3. Head(sock) \in [from : Peers, kind : Datagrams]
      BY <3>2, HeadTailProperties
    <3>4. Sender \in Peers /\ Head(sock).kind \in Datagrams
      BY <3>3 DEF Sender
    <3>5. Fits(Received, 0) /\ Index \in DOMAIN Received
      BY <1>1, <1>3, <3>4, ReceivedFits
    <3>6. ReadFits'
      BY <1>1, <3>1, <3>4, <3>5, ReadDatagramIs, KeptFits, ReadingIdle,
         ReadingAssociated, ReadingSynced DEF FalseVersion
    <3>7. sock' \in Seq([from : Peers, kind : Datagrams])
      BY <3>1, <3>2, ReadDatagramIs
    <3>. QED
      BY <3>6, <3>7
  <2>. QED
    BY <2>1, <2>2
<1>5. TypeOK'
  BY <1>2, <1>4 DEF ServerInv, TypeOK, ReadFits, Fits, Typed, Frame
<1>6. InTurn'
  BY <1>2 DEF ServerInv, InTurn
<1>7. Fits(esp_list, Waiting)'
  BY <1>2, <1>4 DEF ReadFits, Waiting
<1>8. WalkMissesOnlySuccessors'
  BY <1>2, WalkBegins DEF ServerInv, InTurn, TypeOK
<1>. QED
  BY <1>5, <1>6, <1>7, <1>8 DEF ServerInv

-----------------------------------------------------------------------------
(* The walk of update_time_and_ping. *)

\* The objects behind the loop that ask for a ping or for removal.
Overdue ==
  {p \in 1 .. cursor - 1 :
     p \in DOMAIN esp_list /\ (PingDue(esp_list[p]) \/ Silent(esp_list[p]))}

\* The frames of one round.
PingFrames ==
  (IF PingDue(esp_list[cursor]) THEN <<"ping">> ELSE <<>>)
     \o (IF Silent(esp_list[cursor]) THEN <<"dassoc">> ELSE <<>>)

LEMMA PingFramesType ==
  /\ PingFrames \in Seq({"ping", "dassoc"})
  /\ \A k \in DOMAIN PingFrames : PingFrames[k] \in {"ping", "dassoc"}
<1>1. PingFrames \in Seq({"ping", "dassoc"})
  <2>1. /\ <<"ping">> \in Seq({"ping", "dassoc"})
        /\ <<"dassoc">> \in Seq({"ping", "dassoc"})
        /\ <<>> \in Seq({"ping", "dassoc"})
    OBVIOUS
  <2>2. \A x, y \in Seq({"ping", "dassoc"}) : x \o y \in Seq({"ping", "dassoc"})
    OBVIOUS
  <2>3. PICK x, y \in Seq({"ping", "dassoc"}) : PingFrames = x \o y
    BY <2>1, Zenon DEF PingFrames
  <2>. QED
    BY <2>2, <2>3
<1>. QED
  BY <1>1, Elements

\* Removing objects behind its back, the loop misses one more for each.
LEMMA OverdueGrows ==
  ASSUME ServerInv, PingEsp
  PROVE  IF Silent(esp_list[cursor]) THEN Overdue' \subseteq Overdue \cup {cursor}
         ELSE Overdue' \subseteq Overdue
<1>1. /\ esp_list \in Seq(Esp) /\ cursor \in Nat \ {0} /\ cursor <= Len(esp_list)
      /\ cursor' = cursor + 1
  BY DEF ServerInv, TypeOK, PingEsp
<1>2. cursor \in DOMAIN esp_list /\ Len(esp_list) \in Nat /\ DOMAIN esp_list = 1 .. Len(esp_list)
  BY <1>1, Elements
<1>3. CASE Silent(esp_list[cursor])
  <2>1. esp_list' = RemoveAt(esp_list, cursor)
    BY <1>3 DEF PingEsp
  <2>2. /\ DOMAIN esp_list' = 1 .. Len(esp_list) - 1
        /\ \A n \in 1 .. Len(esp_list) - 1 : n < cursor => esp_list'[n] = esp_list[n]
    BY <1>1, <1>2, <2>1, Removed
  <2>3. ASSUME NEW p \in Overdue', p # cursor
        PROVE  p \in Overdue
    <3>1. /\ p \in 1 .. cursor /\ p \in DOMAIN esp_list'
          /\ PingDue(esp_list'[p]) \/ Silent(esp_list'[p])
      BY <1>1 DEF Overdue, PingDue, Silent
    <3>2. p \in 1 .. cursor - 1 /\ p < cursor /\ p \in DOMAIN esp_list
      BY <1>1, <1>2, <2>2, <2>3, <3>1
    <3>3. esp_list'[p] = esp_list[p]
      BY <2>2, <3>1, <3>2
    <3>. QED
      BY <3>1, <3>2, <3>3 DEF Overdue
  <2>. QED
    BY <1>3, <2>3
<1>4. CASE ~ Silent(esp_list[cursor])
  <2>1. esp_list' = [esp_list EXCEPT ![cursor].sent = IF PingDue(esp_list[cursor]) THEN 0 ELSE @]
    BY <1>4 DEF PingEsp
  <2>2. DOMAIN esp_list' = DOMAIN esp_list
    BY <2>1
  <2>3. ASSUME NEW p \in Overdue'
        PROVE  p \in Overdue
    <3>1. /\ p \in 1 .. cursor /\ p \in DOMAIN esp_list
          /\ PingDue(esp_list'[p]) \/ Silent(esp_list'[p])
      BY <1>1, <2>2 DEF Overdue, PingDue, Silent
    <3>2. p # cursor
      <4>1. esp_list[cursor] \in Esp
        BY <1>1, <1>2, Elements
      <4>2. /\ esp_list'[cursor].recv = esp_list[cursor].recv
            /\ esp_list'[cursor].sent = IF PingDue(esp_list[cursor]) THEN 0
                                        ELSE esp_list[cursor].sent
        BY <1>2, <2>1, <4>1 DEF Esp
      <4>3. ~ PingDue(esp_list'[cursor]) /\ ~ Silent(esp_list'[cursor])
        BY <1>4, <4>2, ServerConstants DEF PingDue, Silent
      <4>. QED
        BY <3>1, <4>3
    <3>3. p \in 1 .. cursor - 1
      BY <1>1, <3>1, <3>2
    <3>4. esp_list'[p] = esp_list[p]
      BY <2>1, <3>1, <3>2
    <3>. QED
      BY <3>1, <3>3, <3>4 DEF Overdue
  <2>. QED
    BY <1>4, <2>3
<1>. QED
  BY <1>3, <1>4

\* The bound of WalkMissesOnlySuccessors moves with the walk.
LEMMA WalkContinues ==
  ASSUME ServerInv, PingEsp
  PROVE  WalkMissesOnlySuccessors'
<1>1. /\ cursor \in Nat \ {0} /\ dropped \in Nat /\ cursor' = cursor + 1
      /\ pc = "ping" /\ pc' = "ping"
  BY DEF ServerInv, TypeOK, PingEsp
<1>2. Cardinality(Overdue) <= dropped
  BY <1>1 DEF ServerInv, WalkMissesOnlySuccessors, Overdue
<1>3. IsFiniteSet(1 .. cursor - 1) /\ Overdue \subseteq 1 .. cursor - 1
  BY <1>1, FS_Interval DEF Overdue
<1>4. IsFiniteSet(Overdue)
  BY <1>3, FS_Subset
<1>5. Cardinality(Overdue) \in Nat
  BY <1>4, FS_CardinalityType
<1>6. Cardinality(Overdue') <= dropped'
  <2>1. CASE Silent(esp_list[cursor])
    <3>1. dropped' = dropped + 1
      BY <2>1 DEF PingEsp
    <3>2. Overdue' \subseteq Overdue \cup {cursor}
      BY <2>1, OverdueGrows
    <3>3. /\ IsFiniteSet(Overdue \cup {cursor})
          /\ Cardinality(Overdue \cup {cursor}) <= Cardinality(Overdue) + 1
      <4>1. /\ IsFiniteSet(Overdue \cup {cursor})
            /\ Cardinality(Overdue \cup {cursor}) =
                 IF cursor \in Overdue THEN Cardinality(Overdue) ELSE Cardinality(Overdue) + 1
        BY <1>4, FS_AddElement
      <4>. QED
        BY <1>5, <4>1
    <3>4. /\ IsFiniteSet(Overdue')
          /\ Cardinality(Overdue') <= Cardinality(Overdue \cup {cursor})
      BY <3>2, <3>3, FS_Subset
    <3>5. Cardinality(Overdue') \in Nat /\ Cardinality(Overdue \cup {cursor}) \in Nat
      BY <3>3, <3>4, FS_CardinalityType
    <3>. QED
      BY <1>1, <1>2, <1>5, <3>1, <3>3, <3>4, <3>5
  <2>2. CASE ~ Silent(esp_list[cursor])
    <3>1. dropped' = dropped
      BY <2>2 DEF PingEsp
    <3>2. Overdue' \subseteq Overdue
      BY <2>2, OverdueGrows
    <3>3. /\ IsFiniteSet(Overdue')
          /\ Cardinality(Overdue') <= Cardinality(Overdue)
      BY <1>4, <3>2, FS_Subset
    <3>4. Cardinality(Overdue') \in Nat
      BY <3>3, FS_CardinalityType
    <3>. QED
      BY <1>1, <1>2, <1>5, <3>1, <3>3, <3>4
  <2>. QED
    BY <2>1, <2>2
<1>. QED
  BY <1>6 DEF WalkMissesOnlySuccessors, Overdue

LEMMA ServerPingEsp ==
  ASSUME ServerInv, PingEsp
  PROVE  ServerInv'
<1>1. /\ esp_list \in Seq(Esp) /\ cursor \in Nat \ {0} /\ cursor <= Len(esp_list)
      /\ write_queue \in Seq(Frame)
      /\ told \in [Peers -> Clients]
      /\ dropped \in Nat
  BY DEF ServerInv, TypeOK, PingEsp, Frame
<1>2. /\ pc = "ping" /\ cursor' = cursor + 1
      /\ UNCHANGED <<pc, inputs, outputs, sock, mqtt, last_sync>>
  BY DEF PingEsp
<1>3. cursor \in DOMAIN esp_list /\ esp_list[cursor] \in Esp
  BY <1>1, Elements
<1>4. esp_list[cursor].addr \in Peers
  BY <1>3 DEF Esp
<1>5. write_queue' \in Seq(Frame)
  <2>. DEFINE put == [k \in DOMAIN PingFrames |-> [to |-> esp_list[cursor].addr, kind |-> PingFrames[k]]]
  <2>1. put \in [DOMAIN PingFrames -> Frame]
    BY <1>4, PingFramesType DEF Frame, Frames
  <2>2. put \in Seq(Frame)
    BY <2>1, PingFramesType, Mapped
  <2>3. write_queue' = write_queue \o put
    BY DEF PingEsp, PingFrames
  <2>. HIDE DEF put
  <2>. QED
    BY <1>1, <2>2, <2>3
<1>6. Unique(esp_list) /\ \A i \in DOMAIN esp_list : Follows(esp_list[i]) /\ esp_list[i].data_queue <= 1
  BY <1>2 DEF ServerInv, Fits, Waiting
<1>7. /\ told' \in [Peers -> Clients] /\ dropped' \in Nat
      /\ Fits(esp_list, 1)'
  <2>1. CASE Silent(esp_list[cursor])
    <3>1. /\ esp_list' = RemoveAt(esp_list, cursor)
          /\ told' = [told EXCEPT ![esp_list[cursor].addr] = After(@, "dassoc")]
          /\ dropped' = dropped + 1
      BY <2>1 DEF PingEsp
    <3>2. esp_list' \in Seq(Esp)
      BY <1>1, <1>3, <3>1, Removed
    <3>3. /\ Unique(esp_list')
          /\ \A n \in DOMAIN esp_list' :
               \E m \in DOMAIN esp_list : m # cursor /\ esp_list'[n] = esp_list[m]
      BY <1>1, <1>3, <1>6, <3>1, UniqueRemoved
    <3>4. ASSUME NEW n \in DOMAIN esp_list'
          PROVE  Follows(esp_list[n])' /\ esp_list'[n].data_queue <= 1
      <4>1. PICK m \in DOMAIN esp_list : m # cursor /\ esp_list'[n] = esp_list[m]
        BY <3>3
      <4>2. esp_list[m] \in Esp
        BY <1>1, Elements
      <4>3. esp_list[m].addr # esp_list[cursor].addr /\ esp_list[m].addr \in Peers
        BY <1>3, <1>6, <4>1, <4>2 DEF Unique, Esp
      <4>4. told'[esp_list[m].addr] = told[esp_list[m].addr]
        BY <1>1, <3>1, <4>3
      <4>5. Follows(esp_list[n])'
        BY <1>2, <1>6, <4>1, <4>4 DEF Follows
      <4>. QED
        BY <1>6, <4>1, <4>5
    <3>5. Fits(esp_list, 1)'
      BY <3>2, <3>3, <3>4 DEF Fits, Unique
    <3>6. told' \in [Peers -> Clients]
      <4>1. After(told[esp_list[cursor].addr], "dassoc") \in Clients
        BY <1>1, <1>4, AfterType DEF Frames
      <4>. QED
        BY <1>1, <3>1, <4>1
    <3>. QED
      BY <1>1, <3>1, <3>5, <3>6
  <2>2. CASE ~ Silent(esp_list[cursor])
    <3>. DEFINE new == [esp_list[cursor] EXCEPT !.sent = IF PingDue(esp_list[cursor]) THEN 0 ELSE @]
    <3>1. esp_list' = [esp_list EXCEPT ![cursor] = new] /\ told' = told /\ dropped' = dropped
      BY <2>2 DEF PingEsp
    <3>2. /\ new \in Esp /\ new.addr = esp_list[cursor].addr
          /\ new.state = esp_list[cursor].state
          /\ new.data_queue = esp_list[cursor].data_queue
      <4>1. 0 \in 0 .. PingInterval
        BY ServerConstants
      <4>. QED
        BY <1>3, <4>1 DEF Esp
    <3>. HIDE DEF new
    <3>3. esp_list' \in Seq(Esp) /\ DOMAIN esp_list' = DOMAIN esp_list
      BY <1>1, <1>3, <3>1, <3>2
    <3>4. \A n \in DOMAIN esp_list : /\ esp_list'[n].addr = esp_list[n].addr
                                     /\ esp_list'[n].state = esp_list[n].state
                                     /\ esp_list'[n].data_queue = esp_list[n].data_queue
      BY <1>1, <1>3, <3>1, <3>2
    <3>5. Unique(esp_list')
      BY <1>6, <3>3, <3>4, UniqueMapped
    <3>6. \A n \in DOMAIN esp_list : Follows(esp_list[n])' /\ esp_list'[n].data_queue <= 1
      BY <1>2, <1>6, <3>1, <3>4 DEF Follows
    <3>7. Fits(esp_list, 1)'
      BY <3>3, <3>5, <3>6 DEF Fits, Unique
    <3>. QED
      BY <1>1, <3>1, <3>7
  <2>. QED
    BY <2>1, <2>2
<1>8. TypeOK'
  BY <1>1, <1>2, <1>5, <1>7 DEF ServerInv, TypeOK, Fits, Frame
<1>9. InTurn'
  BY <1>2 DEF ServerInv, InTurn
<1>10. Fits(esp_list, Waiting)'
  BY <1>2, <1>7 DEF Waiting
<1>11. WalkMissesOnlySuccessors'
  BY WalkContinues
<1>. QED
  BY <1>8, <1>9, <1>10, <1>11 DEF ServerInv

-----------------------------------------------------------------------------
(* The theorems. *)

LEMMA ServerStep ==
  ASSUME ServerInv, [Next]_vars
  PROVE  ServerInv'
<1>1. CASE UNCHANGED vars
  BY <1>1 DEF vars, ServerInv, TypeOK, InTurn, Fits, Unique, Follows, Waiting,
              WalkMissesOnlySuccessors
<1>2. CASE Next
  BY <1>2, ServerSelect, ServerReadMqtt, ServerReadEsp, ServerPingEsp,
     ServerWalkDone, ServerFlush, ServerCollect, ServerArrive, ServerPublish,
     ServerTick DEF Next, Pass
<1>. QED
  BY <1>1, <1>2

\* What the conjuncts of the invariant amount to.
LEMMA ServerInvImplies ==
  ASSUME ServerInv
  PROVE  OneEspPerPeer /\ PeersFollow /\ AllSyncedTogether /\ CollectorKeepsUp
<1>1. OneEspPerPeer
  BY DEF ServerInv, Fits, Unique, OneEspPerPeer
<1>2. \A i \in DOMAIN esp_list : Follows(esp_list[i])
  BY DEF ServerInv, Fits
<1>3. ASSUME NEW states, NEW a \in InState(states)
      PROVE  \E i \in DOMAIN esp_list : esp_list[i].state \in states /\ a = esp_list[i].addr
  BY <1>3 DEF InState
<1>4. PeersFollow
  BY <1>2, <1>3 DEF PeersFollow, Follows, Answered, Reached
<1>5. AllSyncedTogether
  BY <1>2, <1>3 DEF AllSyncedTogether, Follows
<1>6. CollectorKeepsUp
  BY DEF ServerInv, Fits, Waiting, CollectorKeepsUp
<1>. QED
  BY <1>1, <1>4, <1>5, <1>6

\* ServerInv is inductive: it holds in all states that the server reaches.
THEOREM ServerInvariant == Spec => []ServerInv
<1>1. Init => ServerInv
  BY ServerInit
<1>2. ServerInv /\ [Next]_vars => ServerInv'
  BY ServerStep
<1>. QED
  BY <1>1, <1>2, PTL DEF Spec

\* Every variable of the server's loop keeps its type; the times since the last
\* transmission and reception stay within what they are counted to.
THEOREM ServerTypeCorrect == Spec => []TypeOK
<1>1. ServerInv => TypeOK
  BY DEF ServerInv
<1>. QED
  BY <1>1, ServerInvariant, PTL

\* However peers come, go and come back, esp_list has one object for each
\* (esp_lib.py:35-42).
THEOREM ServerOneEspPerPeer == Spec => []OneEspPerPeer
<1>1. ServerInv => OneEspPerPeer
  BY ServerInvImplies
<1>. QED
  BY <1>1, ServerInvariant, PTL

\* The server is never ahead of what it has told its clients
\* (esp_lib.py:149-155, 222-229).
THEOREM ServerPeersFollow == Spec => []PeersFollow
<1>1. ServerInv => PeersFollow
  BY ServerInvImplies
<1>. QED
  BY <1>1, ServerInvariant, PTL

\* All SYNCED clients were reached by the latest broadcast (esp_lib.py:153).
THEOREM ServerAllSyncedTogether == Spec => []AllSyncedTogether
<1>1. ServerInv => AllSyncedTogether
  BY ServerInvImplies
<1>. QED
  BY <1>1, ServerInvariant, PTL

\* The queue of fragments of an object holds one at most, and none when a
\* datagram is read (main.py:91, 104).
THEOREM ServerCollectorKeepsUp == Spec => []CollectorKeepsUp
<1>1. ServerInv => CollectorKeepsUp
  BY ServerInvImplies
<1>. QED
  BY <1>1, ServerInvariant, PTL

\* A walk passes over at most one object for each that it removes
\* (esp_lib.py:27-29, 229).
THEOREM ServerWalkMissesOnlySuccessors == Spec => []WalkMissesOnlySuccessors
<1>1. ServerInv => WalkMissesOnlySuccessors
  BY DEF ServerInv
<1>. QED
  BY <1>1, ServerInvariant, PTL

-----------------------------------------------------------------------------
(***************************************************************************)
(* The refinement: EpServer implements ServerSession.  What is proved      *)
(* about the list, the walk and the queue is seen peer by peer.            *)
(***************************************************************************)

(* How a list is seen. *)

LEMMA SeenListed ==
  ASSUME NEW list, Unique(list), NEW n \in DOMAIN list
  PROVE  /\ list[n].addr \in ListedIn(list)
         /\ Seen(list, list[n].addr) = list[n]
<1>1. list[n].addr \in ListedIn(list)
  BY DEF ListedIn
<1>2. Position(list, list[n].addr) = n
  BY DEF Position, Unique
<1>. QED
  BY <1>1, <1>2 DEF Seen

LEMMA ListedSomewhere ==
  ASSUME NEW list, NEW a \in ListedIn(list)
  PROVE  \E n \in DOMAIN list : list[n].addr = a
  BY DEF ListedIn

\* A peer is listed and its object is seen, or it is not.
LEMMA SeenEither ==
  ASSUME NEW list, Unique(list), NEW a
  PROVE  \/ \E n \in DOMAIN list : /\ list[n].addr = a /\ a \in ListedIn(list)
                                   /\ Seen(list, a) = list[n]
         \/ /\ a \notin ListedIn(list)
            /\ \A n \in DOMAIN list : list[n].addr # a
            /\ Seen(list, a) = NoEsp
<1>1. CASE a \in ListedIn(list)
  BY <1>1, SeenListed, ListedSomewhere
<1>2. CASE a \notin ListedIn(list)
  BY <1>2 DEF ListedIn, Seen
<1>. QED
  BY <1>1, <1>2

\* NONE is seen of those alone that are not listed.
LEMMA SeenType ==
  ASSUME NEW list \in Seq(Esp), Unique(list), NEW a
  PROVE  IF a \in ListedIn(list) THEN Seen(list, a) \in Esp /\ Seen(list, a).state # "NONE"
         ELSE Seen(list, a) = NoEsp /\ Seen(list, a).state = "NONE"
<1>1. \A n \in DOMAIN list : list[n] \in Esp
  BY Elements
<1>2. \A e \in Esp : e.state # "NONE"
  BY DEF Esp
<1>3. NoEsp.state = "NONE"
  BY DEF NoEsp
<1>. QED
  BY <1>1, <1>2, <1>3, SeenEither

\* The list with another object in the place of one.
LEMMA SeenReplaced ==
  ASSUME NEW list \in Seq(Esp), Unique(list), NEW k \in DOMAIN list,
         NEW e, e.addr = list[k].addr, NEW b
  PROVE  Seen([list EXCEPT ![k] = e], b) = IF b = list[k].addr THEN e ELSE Seen(list, b)
<1>. DEFINE new == [list EXCEPT ![k] = e]
<1>1. DOMAIN new = DOMAIN list /\ new[k] = e /\ \A n \in DOMAIN list \ {k} : new[n] = list[n]
  OBVIOUS
<1>. HIDE DEF new
<1>2. \A n \in DOMAIN list : new[n].addr = list[n].addr
  BY <1>1
<1>3. Unique(new)
  BY <1>1, <1>2, UniqueMapped
<1>4. CASE b = list[k].addr
  BY <1>1, <1>3, <1>4, SeenListed DEF new
<1>5. CASE b # list[k].addr
  <2>1. CASE b \in ListedIn(list)
    <3>1. PICK n \in DOMAIN list : list[n].addr = b
      BY <2>1, ListedSomewhere
    <3>2. n # k
      BY <1>5, <3>1
    <3>3. Seen(list, b) = list[n]
      BY <3>1, SeenListed
    <3>4. Seen(new, b) = new[n]
      BY <1>1, <1>2, <1>3, <3>1, SeenListed
    <3>. QED
      BY <1>1, <1>5, <3>2, <3>3, <3>4 DEF new
  <2>2. CASE b \notin ListedIn(list)
    <3>1. b \notin ListedIn(new)
      BY <1>1, <1>2, <2>2 DEF ListedIn
    <3>. QED
      BY <1>5, <2>2, <3>1 DEF Seen, new
  <2>. QED
    BY <2>1, <2>2
<1>. QED
  BY <1>4, <1>5

\* The list without one object.
LEMMA SeenRemoved ==
  ASSUME NEW list \in Seq(Esp), Unique(list), NEW k \in DOMAIN list, NEW b
  PROVE  Seen(RemoveAt(list, k), b) = IF b = list[k].addr THEN NoEsp ELSE Seen(list, b)
<1>. DEFINE new == RemoveAt(list, k)
<1>1. /\ Unique(new)
      /\ \A n \in DOMAIN new : \E m \in DOMAIN list : m # k /\ new[n] = list[m]
  BY UniqueRemoved
<1>2. \A m \in DOMAIN list : m # k => \E n \in DOMAIN new : new[n] = list[m]
  <2>1. /\ k \in 1 .. Len(list) /\ Len(list) \in Nat /\ DOMAIN list = 1 .. Len(list)
        /\ DOMAIN new = 1 .. Len(list) - 1
        /\ \A n \in 1 .. Len(list) - 1 : new[n] = IF n < k THEN list[n] ELSE list[n + 1]
    BY Removed, Elements
  <2>2. SUFFICES ASSUME NEW m \in DOMAIN list, m # k
                 PROVE  \E n \in DOMAIN new : new[n] = list[m]
    OBVIOUS
  <2>. HIDE DEF new
  <2>3. CASE m < k
    <3>1. m \in DOMAIN new /\ new[m] = list[m]
      BY <2>1, <2>2, <2>3
    <3>. QED
      BY <3>1
  <2>4. CASE m > k
    <3>1. m - 1 \in 1 .. Len(list) - 1 /\ ~ (m - 1 < k) /\ m - 1 + 1 = m
      BY <2>1, <2>2, <2>4
    <3>2. m - 1 \in DOMAIN new /\ new[m - 1] = list[m]
      BY <2>1, <3>1
    <3>. QED
      BY <3>2
  <2>. QED
    BY <2>1, <2>2, <2>3, <2>4
<1>. HIDE DEF new
<1>3. CASE b \in ListedIn(new)
  <2>1. PICK n \in DOMAIN new : new[n].addr = b /\ Seen(new, b) = new[n]
    BY <1>1, <1>3, SeenEither
  <2>2. PICK m \in DOMAIN list : m # k /\ new[n] = list[m]
    BY <1>1
  <2>3. b # list[k].addr
    BY <2>1, <2>2 DEF Unique
  <2>4. Seen(list, b) = list[m]
    BY <2>1, <2>2, SeenListed
  <2>. QED
    BY <2>1, <2>2, <2>3, <2>4 DEF new
<1>4. CASE b \notin ListedIn(new)
  <2>1. \A n \in DOMAIN new : new[n].addr # b
    BY <1>4 DEF ListedIn
  <2>2. \A m \in DOMAIN list : m # k => list[m].addr # b
    BY <1>2, <2>1
  <2>3. b = list[k].addr \/ Seen(list, b) = NoEsp
    BY <2>2, SeenEither
  <2>4. Seen(new, b) = NoEsp
    BY <1>4 DEF Seen
  <2>. QED
    BY <2>3, <2>4 DEF new
<1>. QED
  BY <1>3, <1>4

\* A list whose objects have changed but are still the same peers'.
LEMMA SeenMapped ==
  ASSUME NEW list, NEW new, Unique(list), DOMAIN new = DOMAIN list,
         \A n \in DOMAIN list : new[n].addr = list[n].addr
  PROVE  /\ ListedIn(new) = ListedIn(list)
         /\ \A n \in DOMAIN list : Seen(new, list[n].addr) = new[n]
         /\ \A b : b \notin ListedIn(list) => Seen(new, b) = NoEsp
<1>1. Unique(new)
  BY UniqueMapped
<1>2. ListedIn(new) = ListedIn(list)
  BY DEF ListedIn
<1>3. \A n \in DOMAIN list : Seen(new, list[n].addr) = new[n]
  BY <1>1, SeenListed
<1>4. \A b : b \notin ListedIn(list) => Seen(new, b) = NoEsp
  BY <1>2 DEF Seen
<1>. QED
  BY <1>2, <1>3, <1>4

-----------------------------------------------------------------------------
(* What is queued, and for whom. *)

LEMMA QueuedConcat ==
  ASSUME NEW q \in Seq(Frame), NEW r \in Seq(Frame), NEW a
  PROVE  QueuedFor(q \o r, a) = QueuedFor(q, a) \cup QueuedFor(r, a)
<1>1. /\ Len(q) \in Nat /\ Len(r) \in Nat
      /\ DOMAIN q = 1 .. Len(q) /\ DOMAIN r = 1 .. Len(r)
      /\ DOMAIN (q \o r) = 1 .. Len(q) + Len(r)
      /\ \A n \in 1 .. Len(q) : (q \o r)[n] = q[n]
      /\ \A n \in 1 .. Len(r) : (q \o r)[Len(q) + n] = r[n]
  OBVIOUS
<1>2. ASSUME NEW f \in QueuedFor(q \o r, a)
      PROVE  f \in QueuedFor(q, a) \cup QueuedFor(r, a)
  <2>1. PICK n \in DOMAIN (q \o r) : (q \o r)[n].to = a /\ f = (q \o r)[n].kind
    BY <1>2 DEF QueuedFor
  <2>2. CASE n <= Len(q)
    <3>1. n \in DOMAIN q /\ q[n].to = a /\ f = q[n].kind
      BY <1>1, <2>1, <2>2
    <3>. QED
      BY <3>1 DEF QueuedFor
  <2>3. CASE ~ (n <= Len(q))
    <3>1. n - Len(q) \in 1 .. Len(r) /\ Len(q) + (n - Len(q)) = n
      BY <1>1, <2>1, <2>3
    <3>2. n - Len(q) \in DOMAIN r /\ r[n - Len(q)].to = a /\ f = r[n - Len(q)].kind
      BY <1>1, <2>1, <3>1
    <3>. QED
      BY <3>2 DEF QueuedFor
  <2>. QED
    BY <2>2, <2>3
<1>3. ASSUME NEW f \in QueuedFor(q, a)
      PROVE  f \in QueuedFor(q \o r, a)
  <2>1. PICK n \in DOMAIN q : q[n].to = a /\ f = q[n].kind
    BY <1>3 DEF QueuedFor
  <2>2. n \in DOMAIN (q \o r) /\ (q \o r)[n] = q[n]
    BY <1>1
  <2>. QED
    BY <2>1, <2>2 DEF QueuedFor
<1>4. ASSUME NEW f \in QueuedFor(r, a)
      PROVE  f \in QueuedFor(q \o r, a)
  <2>1. PICK n \in DOMAIN r : r[n].to = a /\ f = r[n].kind
    BY <1>4 DEF QueuedFor
  <2>2. Len(q) + n \in DOMAIN (q \o r) /\ (q \o r)[Len(q) + n] = r[n]
    BY <1>1
  <2>. QED
    BY <2>1, <2>2 DEF QueuedFor
<1>. QED
  BY <1>2, <1>3, <1>4

\* One frame put.
LEMMA QueuedAppend ==
  ASSUME NEW q \in Seq(Frame), NEW e \in Frame, NEW a
  PROVE  QueuedFor(q \o <<e>>, a)
           = IF a = e.to THEN QueuedFor(q, a) \cup {e.kind} ELSE QueuedFor(q, a)
<1>1. <<e>> \in Seq(Frame)
  OBVIOUS
<1>2. QueuedFor(<<e>>, a) = IF a = e.to THEN {e.kind} ELSE {}
  <2>1. DOMAIN <<e>> = {1} /\ <<e>>[1] = e
    OBVIOUS
  <2>. QED
    BY <2>1 DEF QueuedFor
<1>3. QueuedFor(q \o <<e>>, a) = QueuedFor(q, a) \cup QueuedFor(<<e>>, a)
  BY <1>1, QueuedConcat
<1>. QED
  BY <1>2, <1>3

\* A frame put for each object of a list.
LEMMA QueuedAll ==
  ASSUME NEW q \in Seq(Frame), NEW list \in Seq(Esp), NEW f \in Frames, NEW a
  PROVE  QueuedFor(q \o [i \in DOMAIN list |-> [to |-> list[i].addr, kind |-> f]], a)
           = IF a \in ListedIn(list) THEN QueuedFor(q, a) \cup {f} ELSE QueuedFor(q, a)
<1>. DEFINE r == [i \in DOMAIN list |-> [to |-> list[i].addr, kind |-> f]]
<1>1. \A i \in DOMAIN list : list[i].addr \in Peers
  <2>1. \A i \in DOMAIN list : list[i] \in Esp
    BY Elements
  <2>. QED
    BY <2>1 DEF Esp
<1>2. r \in Seq(Frame)
  <2>1. r \in [DOMAIN list -> Frame]
    BY <1>1 DEF Frame
  <2>. QED
    BY <2>1, Mapped
<1>3. DOMAIN r = DOMAIN list /\ \A i \in DOMAIN list : r[i].to = list[i].addr /\ r[i].kind = f
  OBVIOUS
<1>. HIDE DEF r
<1>4. QueuedFor(r, a) = IF a \in ListedIn(list) THEN {f} ELSE {}
  BY <1>3 DEF QueuedFor, ListedIn
<1>5. QueuedFor(q \o r, a) = QueuedFor(q, a) \cup QueuedFor(r, a)
  BY <1>2, QueuedConcat
<1>. QED
  BY <1>4, <1>5 DEF r

-----------------------------------------------------------------------------
(* What the abstract server is after a step. *)

LEMMA SeenNext ==
  /\ EspSeen' = [b \in Peers |-> Seen(esp_list', b).state]
  /\ SentSeen' = [b \in Peers |-> Seen(esp_list', b).sent]
  /\ RecvSeen' = [b \in Peers |-> Seen(esp_list', b).recv]
  /\ OutSeen' = [b \in Peers |-> QueuedFor(write_queue', b)]
  BY DEF EspSeen, SentSeen, RecvSeen, OutSeen, Seen, Position, ListedIn, NoEsp,
         QueuedFor

\* Nothing that the clients could tell has happened.
LEMMA SeenUnchanged ==
  ASSUME UNCHANGED <<esp_list, write_queue>>
  PROVE  UNCHANGED Session!serverVars
  BY SeenNext DEF EspSeen, SentSeen, RecvSeen, OutSeen, Session!serverVars

LEMMA ListedSeen ==
  ASSUME ServerInv
  PROVE  \A b \in Peers : b \in Session!Listed <=> b \in ListedIn(esp_list)
<1>1. esp_list \in Seq(Esp) /\ Unique(esp_list)
  BY DEF ServerInv, Fits
<1>2. \A b \in Peers : b \in ListedIn(esp_list) <=> Seen(esp_list, b).state # "NONE"
  BY <1>1, SeenType
<1>. QED
  BY <1>2 DEF Session!Listed, EspSeen

LEMMA InitRefines ==
  ASSUME Init
  PROVE  Session!Init
<1>1. \A b : b \notin ListedIn(esp_list)
  BY DEF Init, ListedIn
<1>2. \A b : Seen(esp_list, b) = NoEsp
  BY <1>1 DEF Seen
<1>3. \A b : QueuedFor(write_queue, b) = {}
  BY DEF Init, QueuedFor
<1>. QED
  BY <1>2, <1>3 DEF EspSeen, SentSeen, RecvSeen, OutSeen, NoEsp, Session!Init

\* The collector's work is not seen.
LEMMA CollectUnseen ==
  ASSUME ServerInv, Collect
  PROVE  UNCHANGED Session!serverVars
<1>1. esp_list \in Seq(Esp) /\ Unique(esp_list) /\ \A n \in DOMAIN esp_list : esp_list[n] \in Esp
  BY Elements DEF ServerInv, Fits
<1>2. \A e \in Esp : /\ Taken(e).addr = e.addr /\ Taken(e).state = e.state
                     /\ Taken(e).sent = e.sent /\ Taken(e).recv = e.recv
  BY DEF Esp, Taken
<1>3. esp_list' = [n \in DOMAIN esp_list |-> Taken(esp_list[n])] /\ write_queue' = write_queue
  BY DEF Collect, Taken
<1>4. DOMAIN esp_list' = DOMAIN esp_list /\ \A n \in DOMAIN esp_list : esp_list'[n] = Taken(esp_list[n])
  BY <1>3
<1>5. \A n \in DOMAIN esp_list : esp_list'[n].addr = esp_list[n].addr
  BY <1>1, <1>2, <1>4
<1>6. /\ \A n \in DOMAIN esp_list : Seen(esp_list', esp_list[n].addr) = esp_list'[n]
      /\ \A b : b \notin ListedIn(esp_list) => Seen(esp_list', b) = NoEsp
  BY <1>1, <1>4, <1>5, SeenMapped
<1>7. ASSUME NEW b \in Peers
      PROVE  /\ Seen(esp_list', b).state = Seen(esp_list, b).state
             /\ Seen(esp_list', b).sent = Seen(esp_list, b).sent
             /\ Seen(esp_list', b).recv = Seen(esp_list, b).recv
  <2>1. CASE b \in ListedIn(esp_list)
    <3>1. PICK n \in DOMAIN esp_list : esp_list[n].addr = b
      BY <2>1, ListedSomewhere
    <3>2. Seen(esp_list, b) = esp_list[n] /\ Seen(esp_list', b) = Taken(esp_list[n])
      BY <1>1, <1>4, <1>6, <3>1, SeenListed
    <3>. QED
      BY <1>1, <1>2, <3>2
  <2>2. CASE b \notin ListedIn(esp_list)
    BY <1>6, <2>2 DEF Seen
  <2>. QED
    BY <2>1, <2>2
<1>. QED
  BY <1>3, <1>7, SeenNext DEF EspSeen, SentSeen, RecvSeen, OutSeen, Session!serverVars

\* All peers age at once, those that are not listed as well.
LEMMA TickTicks ==
  ASSUME ServerInv, Tick
  PROVE  Session!Tick
<1>1. esp_list \in Seq(Esp) /\ Unique(esp_list) /\ \A n \in DOMAIN esp_list : esp_list[n] \in Esp
  BY Elements DEF ServerInv, Fits
<1>2. \A e \in Esp : /\ Aged(e).addr = e.addr /\ Aged(e).state = e.state
                     /\ Aged(e).sent = Older(e.sent, PingInterval)
                     /\ Aged(e).recv = Older(e.recv, RxTimeout + 1)
  BY DEF Esp, Aged
<1>3. esp_list' = [n \in DOMAIN esp_list |-> Aged(esp_list[n])] /\ write_queue' = write_queue
  BY DEF Tick, Aged
<1>4. DOMAIN esp_list' = DOMAIN esp_list /\ \A n \in DOMAIN esp_list : esp_list'[n] = Aged(esp_list[n])
  BY <1>3
<1>5. \A n \in DOMAIN esp_list : esp_list'[n].addr = esp_list[n].addr
  BY <1>1, <1>2, <1>4
<1>6. /\ \A n \in DOMAIN esp_list : Seen(esp_list', esp_list[n].addr) = esp_list'[n]
      /\ \A b : b \notin ListedIn(esp_list) => Seen(esp_list', b) = NoEsp
  BY <1>1, <1>4, <1>5, SeenMapped
<1>7. ASSUME NEW b \in Peers
      PROVE  /\ Seen(esp_list', b).state = Seen(esp_list, b).state
             /\ Seen(esp_list', b).sent = Older(Seen(esp_list, b).sent, PingInterval)
             /\ Seen(esp_list', b).recv = Older(Seen(esp_list, b).recv, RxTimeout + 1)
  <2>1. CASE b \in ListedIn(esp_list)
    <3>1. PICK n \in DOMAIN esp_list : esp_list[n].addr = b
      BY <2>1, ListedSomewhere
    <3>2. Seen(esp_list, b) = esp_list[n] /\ Seen(esp_list', b) = Aged(esp_list[n])
      BY <1>1, <1>4, <1>6, <3>1, SeenListed
    <3>. QED
      BY <1>1, <1>2, <3>2
  <2>2. CASE b \notin ListedIn(esp_list)
    <3>1. Seen(esp_list', b) = NoEsp /\ Seen(esp_list, b) = NoEsp
      BY <1>6, <2>2 DEF Seen
    <3>2. Older(NoEsp.sent, PingInterval) = NoEsp.sent /\ Older(NoEsp.recv, RxTimeout + 1) = NoEsp.recv
      BY ServerConstants DEF NoEsp, Older
    <3>. QED
      BY <3>1, <3>2
  <2>. QED
    BY <2>1, <2>2
<1>8. \A n, limit : Session!Older(n, limit) = Older(n, limit)
  BY DEF Older, Session!Older
<1>. QED
  BY <1>3, <1>7, <1>8, SeenNext DEF EspSeen, SentSeen, RecvSeen, OutSeen, Session!Tick

\* What is sent leaves.
LEMMA FlushLeaves ==
  ASSUME ServerInv, Flush
  PROVE  Session!Leave \/ UNCHANGED Session!serverVars
<1>1. CASE ~ outputs
  BY <1>1, SeenUnchanged DEF Flush
<1>2. CASE outputs
  <2>1. write_queue' = <<>> /\ esp_list' = esp_list
    BY <1>2 DEF Flush
  <2>2. OutSeen' = [b \in Peers |-> {}]
    BY <2>1, SeenNext DEF QueuedFor
  <2>3. OutSeen' \in [Peers -> SUBSET Session!Frames] /\ \A b \in Peers : OutSeen'[b] \subseteq OutSeen[b]
    BY <2>2
  <2>. QED
    BY <2>1, <2>3, SeenNext DEF EspSeen, SentSeen, RecvSeen, Session!Leave
<1>. QED
  BY <1>1, <1>2

\* A command reaches whoever is listed.
LEMMA MqttObeys ==
  ASSUME ServerInv, ReadMqtt
  PROVE  (\E f \in Session!Frames : Session!Obey(f)) \/ UNCHANGED Session!serverVars
<1>1. CASE UNCHANGED <<esp_list, write_queue>>
  BY <1>1, SeenUnchanged
<1>2. ASSUME NEW f \in {"ota", "config"}, WriteAll(esp_list, f),
             esp_list' = AllSent(esp_list)
      PROVE  Session!Obey(f)
  <2>1. /\ esp_list \in Seq(Esp) /\ Unique(esp_list) /\ f \in Frames
        /\ write_queue \in Seq(Frame)
    BY DEF ServerInv, Fits, Frames, TypeOK, Frame
  <2>2. OutSeen' = [b \in Peers |-> IF b \in ListedIn(esp_list) THEN OutSeen[b] \cup {f} ELSE OutSeen[b]]
    BY <1>2, <2>1, SeenNext, QueuedAll DEF WriteAll, OutSeen
  <2>3. DOMAIN esp_list' = DOMAIN esp_list /\ \A n \in DOMAIN esp_list : esp_list'[n].addr = esp_list[n].addr
    BY <1>2, <2>1, Sent
  <2>4. \A n \in DOMAIN esp_list : /\ esp_list[n] \in Esp
                                   /\ esp_list'[n].state = esp_list[n].state
                                   /\ esp_list'[n].recv = esp_list[n].recv
                                   /\ esp_list'[n].sent = 0
    <3>1. \A n \in DOMAIN esp_list : esp_list[n] \in Esp
      BY <2>1, Elements
    <3>. QED
      BY <1>2, <3>1 DEF AllSent, Esp
  <2>5. /\ \A n \in DOMAIN esp_list : Seen(esp_list', esp_list[n].addr) = esp_list'[n]
        /\ \A b : b \notin ListedIn(esp_list) => Seen(esp_list', b) = NoEsp
    BY <2>1, <2>3, SeenMapped
  <2>6. ASSUME NEW b \in Peers
        PROVE  /\ Seen(esp_list', b).state = Seen(esp_list, b).state
               /\ Seen(esp_list', b).recv = Seen(esp_list, b).recv
               /\ Seen(esp_list', b).sent = IF b \in ListedIn(esp_list) THEN 0 ELSE Seen(esp_list, b).sent
    <3>1. CASE b \in ListedIn(esp_list)
      <4>1. PICK n \in DOMAIN esp_list : esp_list[n].addr = b
        BY <3>1, ListedSomewhere
      <4>2. Seen(esp_list, b) = esp_list[n] /\ Seen(esp_list', b) = esp_list'[n]
        BY <2>1, <2>5, <4>1, SeenListed
      <4>. QED
        BY <2>4, <3>1, <4>2
    <3>2. CASE b \notin ListedIn(esp_list)
      BY <2>5, <3>2 DEF Seen
    <3>. QED
      BY <3>1, <3>2
  <2>7. OutSeen' = [b \in Peers |-> IF b \in Session!Listed THEN OutSeen[b] \cup {f} ELSE OutSeen[b]]
    BY <2>2, ListedSeen
  <2>8. SentSeen' = [b \in Peers |-> IF b \in Session!Listed THEN 0 ELSE SentSeen[b]]
    BY <2>6, ListedSeen, SeenNext DEF SentSeen
  <2>9. EspSeen' = EspSeen /\ RecvSeen' = RecvSeen
    BY <2>6, SeenNext DEF EspSeen, RecvSeen
  <2>. QED
    BY <2>7, <2>8, <2>9 DEF Session!Obey
<1>. QED
  BY <1>1, <1>2 DEF ReadMqtt, ObeyMqtt, WriteNothing, Session!Frames

-----------------------------------------------------------------------------
(* One round of the walk. *)

\* What the frames of a round add to the queue.
LEMMA QueuedPing ==
  ASSUME ServerInv, PingEsp, NEW b \in Peers
  PROVE  QueuedFor(write_queue', b)
           = IF b = esp_list[cursor].addr
             THEN QueuedFor(write_queue, b)
                    \cup (IF PingDue(esp_list[cursor]) THEN {"ping"} ELSE {})
                    \cup (IF Silent(esp_list[cursor]) THEN {"dassoc"} ELSE {})
             ELSE QueuedFor(write_queue, b)
<1>. DEFINE put == [k \in DOMAIN PingFrames |-> [to |-> esp_list[cursor].addr, kind |-> PingFrames[k]]]
<1>1. esp_list[cursor].addr \in Peers
  <2>1. esp_list \in Seq(Esp) /\ cursor \in DOMAIN esp_list
    BY Elements DEF ServerInv, TypeOK, PingEsp
  <2>2. esp_list[cursor] \in Esp
    BY <2>1, Elements
  <2>. QED
    BY <2>2 DEF Esp
<1>2. put \in Seq(Frame)
  <2>1. put \in [DOMAIN PingFrames -> Frame]
    BY <1>1, PingFramesType DEF Frame, Frames
  <2>. QED
    BY <2>1, PingFramesType, Mapped
<1>3. write_queue \in Seq(Frame) /\ write_queue' = write_queue \o put
  BY DEF ServerInv, TypeOK, Frame, PingEsp, PingFrames
<1>4. DOMAIN put = DOMAIN PingFrames
      /\ \A k \in DOMAIN PingFrames : put[k].to = esp_list[cursor].addr /\ put[k].kind = PingFrames[k]
  OBVIOUS
<1>5. {PingFrames[k] : k \in DOMAIN PingFrames}
        = (IF PingDue(esp_list[cursor]) THEN {"ping"} ELSE {})
            \cup (IF Silent(esp_list[cursor]) THEN {"dassoc"} ELSE {})
  <2>1. CASE PingDue(esp_list[cursor]) /\ Silent(esp_list[cursor])
    <3>1. PingFrames = <<"ping">> \o <<"dassoc">>
      BY <2>1 DEF PingFrames
    <3>2. DOMAIN PingFrames = {1, 2} /\ PingFrames[1] = "ping" /\ PingFrames[2] = "dassoc"
      BY <3>1
    <3>. QED
      BY <2>1, <3>2
  <2>2. CASE PingDue(esp_list[cursor]) /\ ~ Silent(esp_list[cursor])
    <3>1. PingFrames = <<"ping">> \o <<>>
      BY <2>2 DEF PingFrames
    <3>2. DOMAIN PingFrames = {1} /\ PingFrames[1] = "ping"
      BY <3>1
    <3>. QED
      BY <2>2, <3>2
  <2>3. CASE ~ PingDue(esp_list[cursor]) /\ Silent(esp_list[cursor])
    <3>1. PingFrames = <<>> \o <<"dassoc">>
      BY <2>3 DEF PingFrames
    <3>2. DOMAIN PingFrames = {1} /\ PingFrames[1] = "dassoc"
      BY <3>1
    <3>. QED
      BY <2>3, <3>2
  <2>4. CASE ~ PingDue(esp_list[cursor]) /\ ~ Silent(esp_list[cursor])
    <3>1. PingFrames = <<>> \o <<>>
      BY <2>4 DEF PingFrames
    <3>2. DOMAIN PingFrames = {}
      BY <3>1
    <3>. QED
      BY <2>4, <3>2
  <2>. QED
    BY <2>1, <2>2, <2>3, <2>4
<1>. HIDE DEF put
<1>6. QueuedFor(put, b) = IF b = esp_list[cursor].addr
                          THEN {PingFrames[k] : k \in DOMAIN PingFrames} ELSE {}
  BY <1>4 DEF QueuedFor
<1>7. QueuedFor(write_queue', b) = QueuedFor(write_queue, b) \cup QueuedFor(put, b)
  BY <1>2, <1>3, QueuedConcat
<1>. QED
  BY <1>5, <1>6, <1>7

\* Where the walk stands, the peer is pinged, or dropped, or both, or neither.
LEMMA PingWalks ==
  ASSUME ServerInv, PingEsp
  PROVE  (\E a \in Peers : Session!Walk(a)) \/ UNCHANGED Session!serverVars
<1>. DEFINE esp == esp_list[cursor]
<1>1. /\ esp_list \in Seq(Esp) /\ Unique(esp_list) /\ cursor \in DOMAIN esp_list
      /\ esp \in Esp /\ esp.addr \in Peers
  <2>1. esp_list \in Seq(Esp) /\ Unique(esp_list) /\ cursor \in DOMAIN esp_list
    BY Elements DEF ServerInv, Fits, TypeOK, PingEsp
  <2>2. esp \in Esp
    BY <2>1, Elements
  <2>. QED
    BY <2>1, <2>2 DEF Esp
<1>2. esp.addr \in ListedIn(esp_list) /\ Seen(esp_list, esp.addr) = esp
  BY <1>1, SeenListed
<1>3. /\ Session!PingDue(esp.addr) <=> PingDue(esp)
      /\ Session!Silent(esp.addr) <=> Silent(esp)
  <2>1. /\ esp.addr \in Session!Listed
        /\ SentSeen[esp.addr] = esp.sent /\ RecvSeen[esp.addr] = esp.recv
    BY <1>1, <1>2, ListedSeen DEF SentSeen, RecvSeen
  <2>. QED
    BY <2>1 DEF Session!PingDue, Session!Silent, PingDue, Silent
<1>4. OutSeen' = [OutSeen EXCEPT ![esp.addr] =
                    @ \cup (IF Session!PingDue(esp.addr) THEN {"ping"} ELSE {})
                      \cup (IF Session!Silent(esp.addr) THEN {"dassoc"} ELSE {})]
  BY <1>3, QueuedPing, SeenNext DEF OutSeen
<1>5. CASE Silent(esp)
  <2>1. esp_list' = RemoveAt(esp_list, cursor)
    BY <1>5 DEF PingEsp
  <2>2. \A b : Seen(esp_list', b) = IF b = esp.addr THEN NoEsp ELSE Seen(esp_list, b)
    BY <1>1, <2>1, SeenRemoved
  <2>3. /\ EspSeen' = [EspSeen EXCEPT ![esp.addr] = "NONE"]
        /\ SentSeen' = [SentSeen EXCEPT ![esp.addr] = PingInterval]
        /\ RecvSeen' = [RecvSeen EXCEPT ![esp.addr] = RxTimeout + 1]
    <3>1. NoEsp.state = "NONE" /\ NoEsp.sent = PingInterval /\ NoEsp.recv = RxTimeout + 1
      BY DEF NoEsp
    <3>2. EspSeen' = [EspSeen EXCEPT ![esp.addr] = "NONE"]
      BY <2>2, <3>1, SeenNext DEF EspSeen
    <3>3. SentSeen' = [SentSeen EXCEPT ![esp.addr] = PingInterval]
      BY <2>2, <3>1, SeenNext DEF SentSeen
    <3>4. RecvSeen' = [RecvSeen EXCEPT ![esp.addr] = RxTimeout + 1]
      BY <2>2, <3>1, SeenNext DEF RecvSeen
    <3>. QED
      BY <3>2, <3>3, <3>4
  <2>4. Session!Walk(esp.addr)
    BY <1>3, <1>4, <1>5, <2>3 DEF Session!Walk
  <2>. QED
    BY <1>1, <2>4
<1>6. CASE ~ Silent(esp) /\ PingDue(esp)
  <2>. DEFINE new == [esp EXCEPT !.sent = 0]
  <2>1. esp_list' = [esp_list EXCEPT ![cursor] = new]
    BY <1>6 DEF PingEsp
  <2>2. new.addr = esp.addr /\ new.state = esp.state /\ new.recv = esp.recv /\ new.sent = 0
    BY <1>1 DEF Esp
  <2>. HIDE DEF new
  <2>3. \A b : Seen(esp_list', b) = IF b = esp.addr THEN new ELSE Seen(esp_list, b)
    <3>1. ASSUME NEW b
          PROVE  Seen([esp_list EXCEPT ![cursor] = new], b)
                   = IF b = esp_list[cursor].addr THEN new ELSE Seen(esp_list, b)
      BY <1>1, <2>2, SeenReplaced
    <3>. QED
      BY <2>1, <3>1
  <2>4. /\ EspSeen' = [EspSeen EXCEPT ![esp.addr] = @]
        /\ SentSeen' = [SentSeen EXCEPT ![esp.addr] = 0]
        /\ RecvSeen' = [RecvSeen EXCEPT ![esp.addr] = @]
    BY <1>2, <2>2, <2>3, SeenNext DEF EspSeen, SentSeen, RecvSeen
  <2>5. Session!Walk(esp.addr)
    BY <1>3, <1>4, <1>6, <2>4 DEF Session!Walk
  <2>. QED
    BY <1>1, <2>5
<1>7. CASE ~ Silent(esp) /\ ~ PingDue(esp)
  <2>1. esp_list' = [esp_list EXCEPT ![cursor].sent = @]
    BY <1>7 DEF PingEsp
  <2>2. esp_list' = esp_list
    BY <1>1, <2>1 DEF Esp
  <2>3. OutSeen' = OutSeen
    BY <1>3, <1>4, <1>7 DEF OutSeen
  <2>. QED
    BY <2>2, <2>3, SeenNext DEF EspSeen, SentSeen, RecvSeen, Session!serverVars
<1>. QED
  BY <1>5, <1>6, <1>7

-----------------------------------------------------------------------------
(* A datagram. *)

\* The sender is seen as just heard, an object having been made for it if
\* there was none.
LEMMA ReceivedSeen ==
  ASSUME ServerInv, pc = "read", Sender \in Peers
  PROVE  /\ Fits(Received, 0) /\ Index \in DOMAIN Received
         /\ Received[Index].addr = Sender
         /\ Received[Index].recv = 0
         /\ Received[Index].sent = Seen(esp_list, Sender).sent
         /\ Received[Index].state = IF EspSeen[Sender] = "NONE" THEN "IDLE" ELSE EspSeen[Sender]
         /\ \A b : b # Sender => Seen(Received, b) = Seen(esp_list, b)
         /\ \A b : b \in ListedIn(Received) <=> b = Sender \/ b \in ListedIn(esp_list)
<1>1. esp_list \in Seq(Esp) /\ Unique(esp_list) /\ Fits(esp_list, 0)
  BY DEF ServerInv, Fits, Waiting
<1>2. Fits(Received, 0) /\ Index \in DOMAIN Received
  BY <1>1, ReceivedFits
<1>3. Fits(Grown, 0) /\ Index \in DOMAIN Grown /\ Grown[Index].addr = Sender
  BY <1>1, Recognised
<1>4. Grown \in Seq(Esp) /\ Unique(Grown) /\ Grown[Index] \in Esp
  BY <1>3, Elements DEF Fits
<1>. DEFINE new == [Grown[Index] EXCEPT !.recv = 0]
<1>5. /\ new.addr = Sender /\ new.recv = 0
      /\ new.sent = Grown[Index].sent /\ new.state = Grown[Index].state
  BY <1>3, <1>4 DEF Esp
<1>6. Received = [Grown EXCEPT ![Index] = new]
  BY DEF Received
<1>. HIDE DEF new
<1>7. \A b : Seen(Received, b) = IF b = Sender THEN new ELSE Seen(Grown, b)
  <2>1. ASSUME NEW b
        PROVE  Seen([Grown EXCEPT ![Index] = new], b)
                 = IF b = Grown[Index].addr THEN new ELSE Seen(Grown, b)
    BY <1>3, <1>4, <1>5, SeenReplaced
  <2>. QED
    BY <1>3, <1>6, <2>1
<1>8. ListedIn(Received) = ListedIn(Grown)
  <2>1. DOMAIN Received = DOMAIN Grown /\ \A n \in DOMAIN Grown : Received[n].addr = Grown[n].addr
    BY <1>3, <1>4, <1>5, <1>6
  <2>. QED
    BY <2>1 DEF ListedIn
<1>9. Received[Index] = new
  BY <1>3, <1>4, <1>6
<1>10. /\ Grown[Index].sent = Seen(esp_list, Sender).sent
       /\ Grown[Index].state = IF EspSeen[Sender] = "NONE" THEN "IDLE" ELSE EspSeen[Sender]
       /\ \A b : b # Sender => Seen(Grown, b) = Seen(esp_list, b)
       /\ \A b : b \in ListedIn(Grown) <=> b = Sender \/ b \in ListedIn(esp_list)
  <2>1. EspSeen[Sender] = Seen(esp_list, Sender).state
    BY DEF EspSeen
  <2>2. CASE accepted(Sender)
    <3>1. Grown = esp_list /\ Sender \in ListedIn(esp_list)
      BY <2>2 DEF Grown, accepted
    <3>2. Seen(esp_list, Sender) = Grown[Index] /\ Seen(esp_list, Sender).state # "NONE"
      BY <1>3, <1>4, <3>1, SeenListed, SeenType
    <3>. QED
      BY <2>1, <3>1, <3>2
  <2>3. CASE ~ accepted(Sender)
    <3>1. /\ Sender \notin ListedIn(esp_list)
          /\ Grown = Append(esp_list, NewEsp(Sender)) /\ Index = Len(Grown)
      BY <2>3 DEF Grown, Index, accepted
    <3>2. NewEsp(Sender) \in Esp
      BY ServerConstants DEF NewEsp, Esp
    <3>3. /\ DOMAIN Grown = DOMAIN esp_list \cup {Index} /\ Index \notin DOMAIN esp_list
          /\ Grown[Index] = NewEsp(Sender)
          /\ \A n \in DOMAIN esp_list : Grown[n] = esp_list[n]
      BY <1>1, <3>1, <3>2
    <3>4. Seen(esp_list, Sender) = NoEsp
      BY <3>1 DEF Seen
    <3>5. \A b : b \in ListedIn(Grown) <=> b = Sender \/ b \in ListedIn(esp_list)
      BY <1>3, <3>3 DEF ListedIn
    <3>6. ASSUME NEW b, b # Sender
          PROVE  Seen(Grown, b) = Seen(esp_list, b)
      <4>1. CASE b \in ListedIn(esp_list)
        <5>1. PICK n \in DOMAIN esp_list : esp_list[n].addr = b
          BY <4>1, ListedSomewhere
        <5>2. n \in DOMAIN Grown /\ Grown[n] = esp_list[n]
          BY <3>3
        <5>3. Seen(esp_list, b) = esp_list[n]
          BY <1>1, <5>1, SeenListed
        <5>4. Seen(Grown, b) = Grown[n]
          BY <1>4, <5>1, <5>2, SeenListed
        <5>. QED
          BY <5>2, <5>3, <5>4
      <4>2. CASE b \notin ListedIn(esp_list)
        BY <3>5, <3>6, <4>2 DEF Seen
      <4>. QED
        BY <4>1, <4>2
    <3>. QED
      BY <2>1, <3>3, <3>4, <3>5, <3>6 DEF NewEsp, NoEsp
  <2>. QED
    BY <2>2, <2>3
<1>. QED
  BY <1>2, <1>5, <1>7, <1>8, <1>9, <1>10

\* The sender comes to be seen as e, or as not listed.
LEMMA Settled ==
  ASSUME ServerInv, pc = "read", Sender \in Peers, UNCHANGED write_queue,
         NEW e, \A b : Seen(esp_list', b) = IF b = Sender THEN e ELSE Seen(Received, b),
         NEW s, e.state = s,
         IF s = "NONE" THEN e = NoEsp
         ELSE e.recv = 0 /\ e.sent = Seen(esp_list, Sender).sent
  PROVE  Session!Settle(Sender, s, {}, {})
<1>1. \A b : b # Sender => Seen(Received, b) = Seen(esp_list, b)
  BY ReceivedSeen
<1>2. EspSeen' = [EspSeen EXCEPT ![Sender] = s]
  BY <1>1, SeenNext DEF EspSeen
<1>3. NoEsp.sent = PingInterval /\ NoEsp.recv = RxTimeout + 1
  BY DEF NoEsp
<1>4. RecvSeen' = [RecvSeen EXCEPT ![Sender] = IF s = "NONE" THEN RxTimeout + 1 ELSE 0]
  BY <1>1, <1>3, SeenNext DEF RecvSeen
<1>5. SentSeen' = [b \in Peers |-> IF b = Sender /\ s = "NONE" THEN PingInterval
                                   ELSE IF b \in {} THEN 0 ELSE SentSeen[b]]
  BY <1>1, <1>3, SeenNext DEF SentSeen
<1>6. OutSeen' = [b \in Peers |-> IF b \in {} THEN OutSeen[b] \cup {} ELSE OutSeen[b]]
  BY SeenNext DEF OutSeen
<1>. QED
  BY <1>2, <1>4, <1>5, <1>6 DEF Session!Settle

\* The object is removed.
LEMMA RemovedSettles ==
  ASSUME ServerInv, pc = "read", Sender \in Peers, WriteNothing,
         esp_list' = RemoveAt(Received, Index)
  PROVE  Session!Settle(Sender, "NONE", {}, {})
<1>1. /\ Received \in Seq(Esp) /\ Unique(Received) /\ Index \in DOMAIN Received
      /\ Received[Index].addr = Sender
  BY ReceivedSeen DEF Fits
<1>2. \A b : Seen(esp_list', b) = IF b = Sender THEN NoEsp ELSE Seen(Received, b)
  BY <1>1, SeenRemoved
<1>3. NoEsp.state = "NONE"
  BY DEF NoEsp
<1>. QED
  BY <1>2, <1>3, Settled DEF WriteNothing

\* The object is kept, in the state that it was in or has just got.
LEMMA KeptSettles ==
  ASSUME ServerInv, pc = "read", Sender \in Peers, WriteNothing,
         \/ esp_list' = Received
         \/ esp_list' = [Received EXCEPT ![Index].data_queue = @ + 1]
  PROVE  Session!Settle(Sender, Received[Index].state, {}, {})
<1>1. /\ Received \in Seq(Esp) /\ Unique(Received) /\ Index \in DOMAIN Received
      /\ Received[Index].addr = Sender /\ Received[Index].recv = 0
      /\ Received[Index].sent = Seen(esp_list, Sender).sent
  BY ReceivedSeen DEF Fits
<1>2. Received[Index] \in Esp
  BY <1>1, Elements
<1>3. Received[Index].state # "NONE"
  BY <1>2 DEF Esp
<1>4. CASE esp_list' = Received
  <2>1. Seen(Received, Sender) = Received[Index]
    BY <1>1, SeenListed
  <2>2. \A b : Seen(esp_list', b) = IF b = Sender THEN Received[Index] ELSE Seen(Received, b)
    BY <1>4, <2>1
  <2>. QED
    BY <1>1, <1>3, <2>2, Settled DEF WriteNothing
<1>5. CASE esp_list' = [Received EXCEPT ![Index].data_queue = @ + 1]
  <2>. DEFINE new == [Received[Index] EXCEPT !.data_queue = @ + 1]
  <2>1. esp_list' = [Received EXCEPT ![Index] = new]
    BY <1>5
  <2>2. /\ new.addr = Received[Index].addr /\ new.state = Received[Index].state
        /\ new.recv = Received[Index].recv /\ new.sent = Received[Index].sent
    BY <1>2 DEF Esp
  <2>. HIDE DEF new
  <2>3. ASSUME NEW b
        PROVE  Seen([Received EXCEPT ![Index] = new], b)
                 = IF b = Received[Index].addr THEN new ELSE Seen(Received, b)
    BY <1>1, <2>2, SeenReplaced
  <2>4. \A b : Seen(esp_list', b) = IF b = Sender THEN new ELSE Seen(Received, b)
    BY <1>1, <2>1, <2>3
  <2>. QED
    BY <1>1, <1>3, <2>2, <2>4, Settled DEF WriteNothing
<1>. QED
  BY <1>4, <1>5

\* A request from a new client.
LEMMA AssocSettles ==
  ASSUME ServerInv, pc = "read", Sender \in Peers,
         ReadIdle(Received, Index, "assoc")
  PROVE  Session!Settle(Sender, "ASSOCIATED", {Sender}, {"assoc_resp"})
<1>1. /\ Received \in Seq(Esp) /\ Unique(Received) /\ Index \in DOMAIN Received
      /\ Received[Index].addr = Sender /\ Received[Index].recv = 0
      /\ \A b : b # Sender => Seen(Received, b) = Seen(esp_list, b)
  BY ReceivedSeen DEF Fits
<1>2. Received[Index] \in Esp
  BY <1>1, Elements
<1>. DEFINE new == [[Received[Index] EXCEPT !.sent = 0] EXCEPT !.state = "ASSOCIATED"]
<1>3. esp_list' = [Received EXCEPT ![Index] = new] /\ Write(Received[Index].addr, "assoc_resp", "asking")
  BY <1>1 DEF ReadIdle
<1>4. /\ new.addr = Received[Index].addr /\ new.state = "ASSOCIATED"
      /\ new.recv = 0 /\ new.sent = 0
  BY <1>1, <1>2 DEF Esp
<1>. HIDE DEF new
<1>5. ASSUME NEW b
      PROVE  Seen([Received EXCEPT ![Index] = new], b)
               = IF b = Received[Index].addr THEN new ELSE Seen(Received, b)
  <2>1. Received \in Seq(Esp) /\ Unique(Received) /\ Index \in DOMAIN Received
    BY <1>1
  <2>2. new.addr = Received[Index].addr
    BY <1>4
  <2>. QED
    BY <2>1, <2>2, SeenReplaced
<1>6. /\ Seen(esp_list', Sender) = new
      /\ \A b \in Peers : b # Sender => Seen(esp_list', b) = Seen(esp_list, b)
  <2>1. \A b : Seen(esp_list', b) = IF b = Sender THEN new ELSE Seen(Received, b)
    BY <1>1, <1>3, <1>5
  <2>. QED
    BY <1>1, <2>1
<1>7. EspSeen' = [EspSeen EXCEPT ![Sender] = "ASSOCIATED"]
  BY <1>4, <1>6, SeenNext DEF EspSeen
<1>8. RecvSeen' = [RecvSeen EXCEPT ![Sender] = 0]
  BY <1>4, <1>6, SeenNext DEF RecvSeen
<1>9. SentSeen' = [b \in Peers |-> IF b \in {Sender} THEN 0 ELSE SentSeen[b]]
  BY <1>4, <1>6, SeenNext DEF SentSeen
<1>10. OutSeen' = [b \in Peers |-> IF b \in {Sender} THEN OutSeen[b] \cup {"assoc_resp"} ELSE OutSeen[b]]
  <2>1. write_queue \in Seq(Frame) /\ "assoc_resp" \in Frames
    BY DEF ServerInv, TypeOK, Frame, Frames
  <2>. DEFINE e == [to |-> Sender, kind |-> "assoc_resp"]
  <2>2. write_queue' = Append(write_queue, e)
    BY <1>1, <1>3 DEF Write
  <2>3. e \in Frame /\ e.to = Sender /\ e.kind = "assoc_resp"
    BY <2>1 DEF Frame
  <2>. HIDE DEF e
  <2>4. write_queue' = write_queue \o <<e>>
    BY <2>1, <2>2, <2>3
  <2>5. \A b \in Peers : QueuedFor(write_queue', b)
                           = IF b = Sender THEN QueuedFor(write_queue, b) \cup {"assoc_resp"}
                             ELSE QueuedFor(write_queue, b)
    BY <2>1, <2>3, <2>4, QueuedAppend
  <2>. QED
    BY <2>5, SeenNext DEF OutSeen
<1>. QED
  BY <1>7, <1>8, <1>9, <1>10 DEF Session!Settle

\* The first frame after the response: all are synchronised.
LEMMA SyncSettles ==
  ASSUME ServerInv, pc = "read", Sender \in Peers,
         NEW kind, ReadAssociated(Received, Index, kind)
  PROVE  Session!Settle(Sender, "SYNCED", Session!Listed, {"sync"})
<1>1. /\ Received \in Seq(Esp) /\ Unique(Received) /\ Index \in DOMAIN Received
      /\ Received[Index].addr = Sender /\ Received[Index].recv = 0
      /\ Received[Index].state = IF EspSeen[Sender] = "NONE" THEN "IDLE" ELSE EspSeen[Sender]
      /\ \A b : b # Sender => Seen(Received, b) = Seen(esp_list, b)
      /\ \A b : b \in ListedIn(Received) <=> b = Sender \/ b \in ListedIn(esp_list)
  BY ReceivedSeen DEF Fits
<1>2. \A b \in Peers : b \in Session!Listed <=> b \in ListedIn(Received)
  <2>1. Sender \in Session!Listed
    BY <1>1 DEF Session!Listed, ReadAssociated
  <2>. QED
    BY <1>1, <2>1, ListedSeen
<1>3. \A n \in DOMAIN Received : Received[n] \in Esp
  BY <1>1, Elements
<1>4. /\ DOMAIN AllSent(Received) = DOMAIN Received
      /\ \A n \in DOMAIN Received :
           /\ AllSent(Received)[n].addr = Received[n].addr
           /\ AllSent(Received)[n].state = Received[n].state
           /\ AllSent(Received)[n].recv = Received[n].recv
           /\ AllSent(Received)[n].sent = 0
  BY <1>3 DEF AllSent, Esp
<1>5. AllSent(Received) \in Seq(Esp) /\ Unique(AllSent(Received))
  BY <1>1, <1>4, Sent, UniqueMapped
<1>. DEFINE new == [AllSent(Received)[Index] EXCEPT !.state = "SYNCED"]
<1>6. esp_list' = [AllSent(Received) EXCEPT ![Index] = new] /\ WriteAll(Received, "sync")
  BY DEF ReadAssociated
<1>7. /\ new.addr = Sender /\ new.state = "SYNCED" /\ new.recv = 0 /\ new.sent = 0
  <2>1. AllSent(Received)[Index] \in Esp
    BY <1>1, <1>4, <1>5, Elements
  <2>. QED
    BY <1>1, <1>4, <2>1 DEF Esp
<1>. HIDE DEF new
<1>8. \A b : Seen(esp_list', b) = IF b = Sender THEN new ELSE Seen(AllSent(Received), b)
  <2>1. AllSent(Received)[Index].addr = Sender /\ Index \in DOMAIN AllSent(Received)
    BY <1>1, <1>4
  <2>2. ASSUME NEW b
        PROVE  Seen([AllSent(Received) EXCEPT ![Index] = new], b)
                 = IF b = AllSent(Received)[Index].addr THEN new ELSE Seen(AllSent(Received), b)
    <3>1. new.addr = AllSent(Received)[Index].addr
      BY <1>7, <2>1
    <3>. QED
      BY <1>5, <2>1, <3>1, SeenReplaced
  <2>. QED
    BY <1>6, <2>1, <2>2
<1>9. ASSUME NEW b \in Peers, b # Sender
      PROVE  /\ Seen(esp_list', b).state = Seen(esp_list, b).state
             /\ Seen(esp_list', b).recv = Seen(esp_list, b).recv
             /\ Seen(esp_list', b).sent = IF b \in ListedIn(Received) THEN 0 ELSE Seen(esp_list, b).sent
  <2>1. Seen(esp_list', b) = Seen(AllSent(Received), b) /\ Seen(Received, b) = Seen(esp_list, b)
    BY <1>1, <1>8, <1>9
  <2>2. /\ \A n \in DOMAIN Received : Seen(AllSent(Received), Received[n].addr) = AllSent(Received)[n]
        /\ b \notin ListedIn(Received) => Seen(AllSent(Received), b) = NoEsp
    BY <1>1, <1>4, SeenMapped
  <2>3. CASE b \in ListedIn(Received)
    <3>1. PICK n \in DOMAIN Received : Received[n].addr = b
      BY <2>3, ListedSomewhere
    <3>2. Seen(AllSent(Received), b) = AllSent(Received)[n] /\ Seen(Received, b) = Received[n]
      BY <1>1, <2>2, <3>1, SeenListed
    <3>. QED
      BY <1>4, <2>1, <2>3, <3>2
  <2>4. CASE b \notin ListedIn(Received)
    <3>1. Seen(Received, b) = NoEsp
      BY <2>4 DEF Seen
    <3>. QED
      BY <2>1, <2>2, <2>4, <3>1
  <2>. QED
    BY <2>3, <2>4
<1>10. Seen(esp_list', Sender) = new
  BY <1>8
<1>11. EspSeen' = [EspSeen EXCEPT ![Sender] = "SYNCED"]
  BY <1>7, <1>9, <1>10, SeenNext DEF EspSeen
<1>12. RecvSeen' = [RecvSeen EXCEPT ![Sender] = 0]
  BY <1>7, <1>9, <1>10, SeenNext DEF RecvSeen
<1>13. SentSeen' = [b \in Peers |-> IF b \in Session!Listed THEN 0 ELSE SentSeen[b]]
  <2>1. Sender \in Session!Listed
    BY <1>1, <1>2
  <2>. QED
    BY <1>2, <1>7, <1>9, <1>10, <2>1, SeenNext DEF SentSeen
<1>14. OutSeen' = [b \in Peers |-> IF b \in Session!Listed THEN OutSeen[b] \cup {"sync"} ELSE OutSeen[b]]
  <2>1. write_queue \in Seq(Frame) /\ "sync" \in Frames
    BY DEF ServerInv, TypeOK, Frame, Frames
  <2>2. \A b \in Peers : QueuedFor(write_queue', b)
                           = IF b \in ListedIn(Received) THEN QueuedFor(write_queue, b) \cup {"sync"}
                             ELSE QueuedFor(write_queue, b)
    <3>1. Received \in Seq(Esp)
      BY <1>1
    <3>2. ASSUME NEW b \in Peers
          PROVE  QueuedFor(write_queue \o [i \in DOMAIN Received |->
                                              [to |-> Received[i].addr, kind |-> "sync"]], b)
                   = IF b \in ListedIn(Received) THEN QueuedFor(write_queue, b) \cup {"sync"}
                     ELSE QueuedFor(write_queue, b)
      BY <2>1, <3>1, QueuedAll
    <3>. QED
      BY <1>6, <3>2 DEF WriteAll
  <2>. QED
    BY <1>2, <2>2, SeenNext DEF OutSeen
<1>. QED
  BY <1>11, <1>12, <1>13, <1>14 DEF Session!Settle

\* A datagram is read.
LEMMA DatagramReads ==
  ASSUME ServerInv, pc = "read", ReadDatagram
  PROVE  Session!Next
<1>. DEFINE kind == Head(sock).kind
<1>1. Sender \in Peers /\ kind \in Datagrams
  <2>1. sock # <<>> /\ sock \in Seq([from : Peers, kind : Datagrams])
    BY ReadDatagramIs DEF ServerInv, InTurn, TypeOK
  <2>2. Head(sock) \in [from : Peers, kind : Datagrams]
    BY <2>1, HeadTailProperties
  <2>. QED
    BY <2>2 DEF Sender
<1>2. SUFFICES Session!Read(Sender, kind)
  BY <1>1 DEF Session!Next, Datagrams
<1>3. /\ Received \in Seq(Esp) /\ Index \in DOMAIN Received
      /\ Received[Index].addr = Sender
      /\ Received[Index].state = IF EspSeen[Sender] = "NONE" THEN "IDLE" ELSE EspSeen[Sender]
  BY <1>1, ReceivedSeen DEF Fits
<1>4. CASE FalseVersion(Received, Index, kind)
  <2>1. Session!Settle(Sender, Received[Index].state, {}, {})
    BY <1>1, <1>4, KeptSettles DEF FalseVersion
  <2>. QED
    BY <1>3, <1>4, <2>1 DEF FalseVersion, Session!Read, Session!ReadFalseVersion
<1>5. CASE ReadIdle(Received, Index, kind)
  <2>1. kind # "bad_version" /\ EspSeen[Sender] \in {"NONE", "IDLE"}
    BY <1>3, <1>5 DEF ReadIdle
  <2>2. CASE kind = "assoc"
    <3>1. Session!Settle(Sender, "ASSOCIATED", {Sender}, {"assoc_resp"})
      BY <1>1, <1>5, <2>2, AssocSettles
    <3>. QED
      BY <2>1, <2>2, <3>1 DEF Session!Read, Session!ReadNew
  <2>3. CASE kind # "assoc"
    <3>1. Session!Settle(Sender, "NONE", {}, {})
      BY <1>1, <1>5, <2>3, RemovedSettles DEF ReadIdle
    <3>. QED
      BY <2>1, <2>3, <3>1 DEF Session!Read, Session!ReadNew
  <2>. QED
    BY <2>2, <2>3
<1>6. CASE ReadAssociated(Received, Index, kind)
  <2>1. kind # "bad_version" /\ EspSeen[Sender] = "ASSOCIATED"
    BY <1>3, <1>6 DEF ReadAssociated
  <2>2. Session!Settle(Sender, "SYNCED", Session!Listed, {"sync"})
    BY <1>1, <1>6, SyncSettles
  <2>. QED
    BY <2>1, <2>2 DEF Session!Read, Session!ReadAssociated
<1>7. CASE ReadSynced(Received, Index, kind)
  <2>1. kind # "bad_version" /\ EspSeen[Sender] = "SYNCED" /\ Received[Index].state = "SYNCED"
    BY <1>3, <1>7 DEF ReadSynced
  <2>2. CASE kind \in {"assoc", "dassoc"}
    <3>1. Session!Settle(Sender, "NONE", {}, {})
      BY <1>1, <1>7, <2>2, RemovedSettles DEF ReadSynced
    <3>. QED
      BY <2>1, <2>2, <3>1 DEF Session!Read, Session!ReadSynced
  <2>3. CASE kind \notin {"assoc", "dassoc"}
    <3>1. Session!Settle(Sender, Received[Index].state, {}, {})
      BY <1>1, <1>7, <2>3, KeptSettles DEF ReadSynced
    <3>. QED
      BY <2>1, <2>3, <3>1 DEF Session!Read, Session!ReadSynced
  <2>. QED
    BY <2>2, <2>3
<1>. QED
  BY <1>4, <1>5, <1>6, <1>7, ReadDatagramIs

-----------------------------------------------------------------------------
\* Every step of the server is a step of the abstract one, or none.
LEMMA NextRefines ==
  ASSUME ServerInv, [Next]_vars
  PROVE  [Session!Next]_(Session!serverVars)
<1>1. CASE UNCHANGED vars \/ Select \/ WalkDone \/ Publish \/ \E a \in Peers : Arrive(a)
  BY <1>1, SeenUnchanged DEF vars, Select, WalkDone, Publish, Arrive
<1>2. CASE ReadMqtt
  BY <1>2, MqttObeys DEF Session!Next
<1>3. CASE ReadEsp
  <2>1. CASE ReadDatagram
    BY <1>3, <2>1, DatagramReads DEF ReadEsp
  <2>2. CASE ~ ReadDatagram
    BY <1>3, <2>2, SeenUnchanged DEF ReadEsp, WriteNothing
  <2>. QED
    BY <2>1, <2>2
<1>4. CASE PingEsp
  BY <1>4, PingWalks DEF Session!Next
<1>5. CASE Flush
  BY <1>5, FlushLeaves DEF Session!Next
<1>6. CASE Collect
  BY <1>6, CollectUnseen
<1>7. CASE Tick
  BY <1>7, TickTicks DEF Session!Next
<1>. QED
  BY <1>1, <1>2, <1>3, <1>4, <1>5, <1>6, <1>7 DEF Next, Pass

\* The select loop with its list, its walk and its queue is the abstract
\* server: each peer is told what its connection calls for, is dropped for
\* silence alone, and depends on no other's place in the list
\* (esp_lib.py:25-43, 125-229; mqtt_lib.py:25-36).
THEOREM ServerImplementsSession == Spec => ImplementsSession
<1>1. Init => Session!Init
  BY InitRefines
<1>2. ServerInv /\ [Next]_vars => [Session!Next]_(Session!serverVars)
  BY NextRefines
<1>. QED
  BY <1>1, <1>2, ServerInvariant, PTL DEF Spec, ImplementsSession, Session!Spec
=============================================================================
