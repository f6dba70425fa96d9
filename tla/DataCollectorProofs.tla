------------------------ MODULE DataCollectorProofs ------------------------
(***************************************************************************)
(* Theorems about DataCollector, for any devices and timestamps, any range *)
(* of the fragment number and any age limit.                               *)
(***************************************************************************)
EXTENDS DataCollector, FiniteSetTheorems, SequenceTheorems, ModularArithmetic

-----------------------------------------------------------------------------
(* The invariant. *)

\* A bucket that got a last fragment is not empty.
Marked(b) == b.finished >= 0 => Numbers(b) # {}

AllMarked == \A a \in Addrs, t \in Timestamps : Marked(data[a][t])

CollectorInv == TypeOK /\ AllMarked /\ NothingCompleteWaits

(***************************************************************************)
(* A payload comes from an image that device a sent with timestamp t.      *)
(***************************************************************************)
PartOf(images, a, t, p) ==
  /\ p.img \in DOMAIN images
  /\ images[p.img].addr = a
  /\ images[p.img].timestamp = t
  /\ p.pos < images[p.img].size

\* Image i is the latest that device a sent with timestamp t.
IsLatest(images, a, t, i) ==
  /\ i \in DOMAIN images
  /\ images[i].addr = a
  /\ images[i].timestamp = t
  /\ \A j \in DOMAIN images : images[j].addr = a /\ images[j].timestamp = t => j <= i

(***************************************************************************)
(* A fragment under way is of the latest image with its timestamp.  It     *)
(* carries the number of its place, and the last one the flag.             *)
(***************************************************************************)
Genuine(images, a, f) ==
  /\ PartOf(images, a, f.timestamp, f.data)
  /\ IsLatest(images, a, f.timestamp, f.data.img)
  /\ f.fragment_number = f.data.pos % FragMod
  /\ f.flag => f.data.pos = images[f.data.img].size - 1

\* A fragment of the latest image, the last one unless the numbers wrap.
MarksEnd(images, a, t, b, n) ==
  /\ IsLatest(images, a, t, b.frags[n].img)
  /\ images[b.frags[n].img].size <= FragMod => n = images[b.frags[n].img].size - 1

(***************************************************************************)
(* A bucket that is marked has got a last fragment of the latest image;    *)
(* unless this image met fragments of an earlier one, it is alone in the   *)
(* bucket, each fragment in its place.                                     *)
(***************************************************************************)
Sorted(images, a, t, b) ==
  /\ \A n \in Numbers(b) : PartOf(images, a, t, b.frags[n])
  /\ b.finished >= 0 => \E n \in Numbers(b) : MarksEnd(images, a, t, b, n)
  /\ \A i : IsLatest(images, a, t, i) /\ ~ images[i].met =>
       \A n \in Numbers(b) : b.frags[n].img = i /\ b.frags[n].pos % FragMod = n

NetGenuine == \A a \in Addrs : \A f \in net[a] : Genuine(sent, a, f)

QueuesGenuine == \A a \in Addrs : \A i \in DOMAIN data_queue[a] : Genuine(sent, a, data_queue[a][i])

BucketsSorted == \A a \in Addrs, t \in Timestamps : Sorted(sent, a, t, data[a][t])

WholeInv ==
  CollectorInv /\ NetGenuine /\ QueuesGenuine /\ BucketsSorted /\ PublishedIsWhole

-----------------------------------------------------------------------------
(* The greatest of a set of numbers. *)

\* A nonempty set of numbers up to n has a greatest one.
LEMMA MaxIsGreatest ==
  ASSUME NEW n \in Nat, NEW S \in SUBSET (0 .. n), S # {}
  PROVE  Max(S) \in S /\ \A y \in S : y <= Max(S)
<1>. DEFINE Above == {x .. n : x \in S}
<1>1. IsFiniteSet(0 .. n)
  BY FS_Interval
<1>2. Above \subseteq FiniteSubsetsOf(0 .. n)
  BY <1>1, FS_FiniteSubsetsOfFinite
<1>3. Above # {}
  OBVIOUS
<1>4. IsWellFoundedOn(StrictSubsetOrdering(0 .. n), FiniteSubsetsOf(0 .. n))
  BY FS_StrictSubsetOrderingWellFounded
<1>5. PICK U \in Above : \A W \in Above : ~ (<<W, U>> \in StrictSubsetOrdering(0 .. n))
  <2>. HIDE DEF Above
  <2>. QED
    BY <1>2, <1>3, <1>4, WFMin
<1>6. PICK x \in S : U = x .. n
  BY <1>5
<1>7. ASSUME NEW y \in S, x < y PROVE FALSE
  <2>1. (y .. n) \in Above /\ <<y .. n, U>> \notin StrictSubsetOrdering(0 .. n)
    BY <1>5
  <2>2. (y .. n) \subseteq (x .. n) /\ x \in x .. n /\ x \notin y .. n
    BY <1>7
  <2>3. (x .. n) \subseteq (0 .. n)
    OBVIOUS
  <2>. QED
    BY <2>1, <2>2, <2>3, <1>6 DEF StrictSubsetOrdering
<1>8. \A y \in S : x >= y
  BY <1>7
<1>. QED
  BY <1>8 DEF Max

-----------------------------------------------------------------------------
(* Buckets. *)

\* The bucket with a fragment put into it.
Put(b, f) == [frags |-> [b.frags EXCEPT ![f.fragment_number] = f.data],
              finished |-> IF f.flag THEN 0 ELSE b.finished]

\* What collect's first loop does to one bucket of a device.
LEMMA StoreIsPut ==
  ASSUME TypeOK, NEW a \in Addrs, NEW t \in Timestamps,
         a \in esp_list, data_queue[a] # <<>>
  PROVE  /\ Head(data_queue[a]) \in Fragment
         /\ Store(a)[t] = IF t = Head(data_queue[a]).timestamp
                          THEN Put(data[a][t], Head(data_queue[a])) ELSE data[a][t]
<1>. DEFINE f == Head(data_queue[a])
<1>1. data_queue[a] \in Seq(Fragment)
  BY DEF TypeOK
<1>2. f \in Fragment
  BY <1>1, HeadTailProperties
<1>3. data[a] \in [Timestamps -> Bucket]
  BY DEF TypeOK
<1>4. Store(a) = [data[a] EXCEPT
              ![f.timestamp].frags[f.fragment_number] = f.data,
              ![f.timestamp].finished = IF f.flag THEN 0 ELSE @]
  BY DEF Store
<1>. HIDE DEF f
<1>5. f.timestamp \in Timestamps /\ f.fragment_number \in 0 .. FragMod - 1
  BY <1>2 DEF Fragment
<1>6. Store(a)[t] = IF t = f.timestamp THEN Put(data[a][t], f) ELSE data[a][t]
  BY <1>3, <1>4, <1>5 DEF Bucket, Put
<1>. QED
  BY <1>2, <1>6 DEF f

\* A bucket stays a bucket, and is marked only if it holds something.
LEMMA PutType ==
  ASSUME NEW b \in Bucket, NEW f \in Fragment
  PROVE  Put(b, f) \in Bucket /\ (Marked(b) => Marked(Put(b, f)))
<1>1. f.data \in Payload /\ f.fragment_number \in 0 .. FragMod - 1 /\ f.flag \in BOOLEAN
  BY DEF Fragment
<1>2. Put(b, f) \in Bucket
  BY <1>1, CollectorConstants DEF Bucket, Put
<1>3. f.fragment_number \in Numbers(Put(b, f))
  BY <1>1, NoneIsNoFragment DEF Bucket, Put, Numbers
<1>. QED
  BY <1>2, <1>3 DEF Marked

LEMMA StoreType ==
  ASSUME TypeOK, AllMarked, NEW a \in Addrs, NEW t \in Timestamps
  PROVE  Store(a)[t] \in Bucket /\ Marked(Store(a)[t])
<1>1. data[a][t] \in Bucket /\ Marked(data[a][t])
  BY DEF TypeOK, AllMarked
<1>2. CASE a \in esp_list /\ data_queue[a] # <<>>
  BY <1>1, <1>2, StoreIsPut, PutType
<1>3. CASE ~ (a \in esp_list /\ data_queue[a] # <<>>)
  BY <1>1, <1>3 DEF Store
<1>. QED
  BY <1>2, <1>3

LEMMA NoBucketType == NoBucket \in Bucket /\ NoBucket.finished = -1 /\ Numbers(NoBucket) = {}
  BY CollectorConstants DEF NoBucket, Bucket, Numbers

\* The greatest number in a bucket that is not empty.
LEMMA GreatestNumber ==
  ASSUME NEW b \in Bucket, Numbers(b) # {}
  PROVE  /\ Max(Numbers(b)) \in Numbers(b)
         /\ Max(Numbers(b)) \in 0 .. FragMod - 1
         /\ \A n \in Numbers(b) : n <= Max(Numbers(b))
<1>1. Numbers(b) \in SUBSET (0 .. FragMod - 1) /\ FragMod - 1 \in Nat
  BY CollectorConstants DEF Numbers
<1>. QED
  BY <1>1, MaxIsGreatest

\* A complete bucket makes a sequence of payloads.
LEMMA ImageType ==
  ASSUME NEW b \in Bucket, Marked(b), Complete(b)
  PROVE  Image(b) \in Seq(Payload)
<1>1. Numbers(b) # {} /\ Numbers(b) = 0 .. Max(Numbers(b))
  BY DEF Marked, Complete
<1>2. PICK x \in Nat : x = Max(Numbers(b))
  BY <1>1, GreatestNumber, CollectorConstants
<1>3. \A k \in 1 .. x + 1 : k - 1 \in Numbers(b)
  BY <1>1, <1>2
<1>4. \A n \in Numbers(b) : b.frags[n] \in Payload
  BY DEF Numbers, Bucket
<1>5. Image(b) = [k \in 1 .. x + 1 |-> b.frags[k - 1]]
  BY <1>2 DEF Image
<1>6. [k \in 1 .. x + 1 |-> b.frags[k - 1]] \in [1 .. x + 1 -> Payload]
  BY <1>3, <1>4
<1>7. x + 1 \in Nat
  BY <1>2
<1>8. \A n \in Nat : [1 .. n -> Payload] \subseteq Seq(Payload)
  BY SeqDef
<1>. QED
  BY <1>5, <1>6, <1>7, <1>8

\* A marked bucket that is not complete, and not late, has a gap.
LEMMA IncompleteHasGap ==
  ASSUME NEW b \in Bucket, Marked(b), b.finished >= 0, ~ Complete(b), ~ Expired(b)
  PROVE  \E n, m \in 0 .. FragMod - 1 : n < m /\ b.frags[n] = None /\ b.frags[m] # None
<1>1. Numbers(b) # {} /\ Numbers(b) # 0 .. Max(Numbers(b))
  BY DEF Marked, Complete
<1>2. PICK m \in 0 .. FragMod - 1 : m = Max(Numbers(b)) /\ m \in Numbers(b)
                                    /\ \A n \in Numbers(b) : n <= m
  BY <1>1, GreatestNumber
<1>3. Numbers(b) \subseteq 0 .. m
  BY <1>2 DEF Numbers
<1>4. PICK n \in 0 .. m : n \notin Numbers(b)
  BY <1>1, <1>2, <1>3
<1>5. n \in 0 .. FragMod - 1 /\ n < m
  BY <1>2, <1>4, CollectorConstants
<1>. QED
  BY <1>2, <1>4, <1>5 DEF Numbers

-----------------------------------------------------------------------------
(* The steps preserve CollectorInv. *)

LEMMA InitEstablishes == Init => CollectorInv
<1>. SUFFICES ASSUME Init PROVE CollectorInv
  OBVIOUS
<1>1. TypeOK
  BY NoBucketType, EmptySeq DEF Init, TypeOK
<1>. QED
  BY <1>1, NoBucketType DEF Init, CollectorInv, AllMarked, Marked, NothingCompleteWaits

LEMMA SendPreserves ==
  ASSUME CollectorInv, NEW a \in Addrs, ep_send_img(a)
  PROVE  CollectorInv'
<1>1. TypeOK
  BY DEF CollectorInv
<1>2. PICK t \in Timestamps, size \in 1 .. MaxFrag : \E n \in 1 .. size :
        /\ sent' = Append(sent, [addr |-> a, timestamp |-> t, size |-> size,
                                 met |-> Numbers(data[a][t]) # {}])
        /\ net' = [net EXCEPT ![a] = {f \in @ : f.timestamp # t} \cup
                     {send_img_frag(Len(sent) + 1, pos, t, size) : pos \in 0 .. n - 1}]
  BY DEF ep_send_img
<1>3. PICK n \in 1 .. size : net' = [net EXCEPT ![a] = {f \in @ : f.timestamp # t} \cup
                     {send_img_frag(Len(sent) + 1, pos, t, size) : pos \in 0 .. n - 1}]
  BY <1>2
<1>4. Len(sent) + 1 \in 1 .. MaxImages
  BY <1>1, LenProperties, CollectorConstants DEF ep_send_img, TypeOK
<1>5. \A pos \in 0 .. n - 1 : send_img_frag(Len(sent) + 1, pos, t, size) \in Fragment
  <2>. TAKE pos \in 0 .. n - 1
  <2>1. pos \in Int /\ pos \in 0 .. MaxFrag - 1
    BY CollectorConstants
  <2>2. pos % FragMod \in 0 .. FragMod - 1
    BY <2>1, CollectorConstants, DivisionExists
  <2>3. [img |-> Len(sent) + 1, pos |-> pos] \in Payload
    BY <1>4, <2>1 DEF Payload
  <2>. QED
    BY <2>2, <2>3 DEF send_img_frag, Fragment
<1>6. sent' \in Seq([addr : Addrs, timestamp : Timestamps, size : 1 .. MaxFrag, met : BOOLEAN])
  <2>1. PICK met \in BOOLEAN : met = (Numbers(data[a][t]) # {})
    OBVIOUS
  <2>2. sent' = Append(sent, [addr |-> a, timestamp |-> t, size |-> size, met |-> met])
    BY <1>2, <2>1
  <2>. QED
    BY <1>1, <2>2, AppendProperties DEF TypeOK
<1>7. net' \in [Addrs -> SUBSET Fragment]
  <2>. DEFINE New == {send_img_frag(Len(sent) + 1, pos, t, size) : pos \in 0 .. n - 1}
  <2>1. New \subseteq Fragment
    BY <1>5
  <2>. HIDE DEF New
  <2>2. net' = [net EXCEPT ![a] = {f \in @ : f.timestamp # t} \cup New]
    BY <1>3 DEF New
  <2>. QED
    BY <1>1, <2>1, <2>2 DEF TypeOK
<1>8. UNCHANGED <<esp_list, data_queue, data, pc, out>>
  BY DEF ep_send_img
<1>9. TypeOK'
  BY <1>1, <1>6, <1>7, <1>8 DEF TypeOK
<1>. QED
  BY <1>8, <1>9 DEF CollectorInv, AllMarked, Marked, NothingCompleteWaits, Numbers

LEMMA ReceivePreserves ==
  ASSUME CollectorInv, NEW a \in Addrs, Receive(a)
  PROVE  CollectorInv'
<1>1. TypeOK
  BY DEF CollectorInv
<1>2. PICK f \in net[a] :
        /\ data_queue' = [data_queue EXCEPT ![a] = Append(@, f)]
        /\ net' = [net EXCEPT ![a] = @ \ {f}] \/ net' = net
  BY DEF Receive
<1>3. f \in Fragment
  BY <1>1, <1>2 DEF TypeOK
<1>4. Append(data_queue[a], f) \in Seq(Fragment)
  BY <1>1, <1>3, AppendProperties DEF TypeOK
<1>5. data_queue' \in [Addrs -> Seq(Fragment)]
  BY <1>1, <1>2, <1>4 DEF TypeOK
<1>6. net' \in [Addrs -> SUBSET Fragment]
  BY <1>1, <1>2 DEF TypeOK
<1>7. pc' = "collect" /\ UNCHANGED <<sent, esp_list, data, out>>
  BY DEF Receive
<1>8. TypeOK'
  BY <1>1, <1>5, <1>6, <1>7 DEF TypeOK
<1>. QED
  BY <1>7, <1>8 DEF CollectorInv, AllMarked, Marked, NothingCompleteWaits, Numbers

LEMMA ListPreserves ==
  ASSUME CollectorInv,
         ReadNothing \/ (\E a \in Addrs : Join(a) \/ Leave(a))
  PROVE  CollectorInv'
<1>1. TypeOK
  BY DEF CollectorInv
<1>2. esp_list' \subseteq Addrs /\ UNCHANGED <<sent, net, data, out>>
  BY <1>1 DEF TypeOK, ReadNothing, Join, Leave
<1>3. data_queue' \in [Addrs -> Seq(Fragment)]
  BY <1>1, EmptySeq DEF TypeOK, ReadNothing, Join, Leave
<1>4. pc' = "collect"
  BY DEF ReadNothing, Join, Leave
<1>5. TypeOK'
  BY <1>1, <1>2, <1>3, <1>4 DEF TypeOK
<1>. QED
  BY <1>2, <1>4, <1>5 DEF CollectorInv, AllMarked, Marked, NothingCompleteWaits, Numbers

\* What a pass makes of a bucket.
LEMMA CollectedBucket ==
  ASSUME collect, NEW a \in Addrs, NEW t \in Timestamps
  PROVE  data'[a][t] = IF a \notin esp_list \/ Expired(Store(a)[t]) \/ Complete(Store(a)[t])
                       THEN NoBucket ELSE Store(a)[t]
  BY DEF collect

\* What a pass publishes comes from a bucket that is complete.
LEMMA CollectedImage ==
  ASSUME collect, NEW m \in out'
  PROVE  \E a \in Addrs, t \in Timestamps :
           /\ m = [source_ipaddr |-> a, timestamp |-> t, data |-> Image(Store(a)[t])]
           /\ Complete(Store(a)[t])
  BY DEF collect

LEMMA CollectPreserves ==
  ASSUME CollectorInv, collect
  PROVE  CollectorInv'
<1>1. TypeOK /\ AllMarked
  BY DEF CollectorInv
<1>2. \A a \in Addrs, t \in Timestamps : data'[a][t] \in Bucket /\ Marked(data'[a][t])
  <2>. TAKE a \in Addrs, t \in Timestamps
  <2>1. data'[a][t] = NoBucket \/ data'[a][t] = Store(a)[t]
    BY CollectedBucket
  <2>2. CASE data'[a][t] = NoBucket
    BY <2>2, NoBucketType DEF Marked
  <2>3. CASE data'[a][t] = Store(a)[t]
    BY <1>1, <2>3, StoreType
  <2>. QED
    BY <2>1, <2>2, <2>3
<1>3. data' \in [Addrs -> [Timestamps -> Bucket]]
  <2>1. data' = [a \in Addrs |-> [t \in Timestamps |-> data'[a][t]]]
    BY DEF collect
  <2>. QED
    BY <1>2, <2>1
<1>4. data_queue' \in [Addrs -> Seq(Fragment)]
  <2>1. \A a \in Addrs : data_queue[a] # <<>> => Tail(data_queue[a]) \in Seq(Fragment)
    BY <1>1, HeadTailProperties DEF TypeOK
  <2>2. data_queue' = [a \in Addrs |-> IF data_queue[a] = <<>> THEN <<>>
                                       ELSE Tail(data_queue[a])]
    BY DEF collect
  <2>. QED
    BY <2>1, <2>2, EmptySeq
<1>5. \A m \in out' : m.source_ipaddr \in Addrs /\ m.data \in Seq(Payload)
  <2>. TAKE m \in out'
  <2>1. PICK a \in Addrs, t \in Timestamps :
          /\ m = [source_ipaddr |-> a, timestamp |-> t, data |-> Image(Store(a)[t])]
          /\ Complete(Store(a)[t])
    BY CollectedImage
  <2>2. Image(Store(a)[t]) \in Seq(Payload)
    BY <1>1, <2>1, StoreType, ImageType
  <2>3. m.source_ipaddr = a /\ m.data = Image(Store(a)[t])
    BY <2>1
  <2>. QED
    BY <2>2, <2>3
<1>6. pc' = "read" /\ UNCHANGED <<sent, net, esp_list>>
  BY DEF collect
<1>7. TypeOK'
  BY <1>1, <1>3, <1>4, <1>5, <1>6 DEF TypeOK
<1>8. AllMarked'
  BY <1>2 DEF AllMarked, Marked, Numbers
<1>9. NothingCompleteWaits'
  <2>. SUFFICES ASSUME NEW a \in Addrs, NEW t \in Timestamps, data'[a][t].finished >= 0
                PROVE  \E n, m \in 0 .. FragMod - 1 :
                         n < m /\ data'[a][t].frags[n] = None /\ data'[a][t].frags[m] # None
    BY DEF NothingCompleteWaits
  <2>1. data'[a][t] # NoBucket
    BY NoBucketType
  <2>2. data'[a][t] = Store(a)[t] /\ ~ Expired(Store(a)[t]) /\ ~ Complete(Store(a)[t])
    BY <2>1, CollectedBucket
  <2>. QED
    BY <1>1, <2>2, StoreType, IncompleteHasGap
<1>. QED
  BY <1>7, <1>8, <1>9 DEF CollectorInv

LEMMA TickPreserves ==
  ASSUME CollectorInv, Tick
  PROVE  CollectorInv'
<1>1. TypeOK /\ AllMarked
  BY DEF CollectorInv
<1>2. \A a \in Addrs, t \in Timestamps :
        /\ data'[a][t].frags = data[a][t].frags
        /\ data'[a][t].finished \in -1 .. Expiry + 1
        /\ data'[a][t].finished >= 0 => data[a][t].finished >= 0
        /\ data'[a][t] \in Bucket
  <2>. TAKE a \in Addrs, t \in Timestamps
  <2>1. data[a][t] \in Bucket
    BY <1>1 DEF TypeOK
  <2>2. data'[a][t] = [data[a][t] EXCEPT !.finished = IF @ \in 0 .. Expiry THEN @ + 1 ELSE @]
    BY DEF Tick
  <2>. QED
    BY <2>1, <2>2, CollectorConstants DEF Bucket
<1>3. data' \in [Addrs -> [Timestamps -> Bucket]]
  <2>1. data' = [a \in Addrs |-> [t \in Timestamps |-> data'[a][t]]]
    BY DEF Tick
  <2>. QED
    BY <1>2, <2>1
<1>4. pc = "read" /\ UNCHANGED <<sent, net, esp_list, data_queue, pc, out>>
  BY DEF Tick
<1>5. TypeOK'
  BY <1>1, <1>3, <1>4 DEF TypeOK
<1>6. AllMarked'
  BY <1>1, <1>2 DEF AllMarked, Marked, Numbers
<1>7. NothingCompleteWaits'
  BY <1>2, <1>4 DEF CollectorInv, NothingCompleteWaits
<1>. QED
  BY <1>5, <1>6, <1>7 DEF CollectorInv

LEMMA NextPreserves == CollectorInv /\ [Next]_vars => CollectorInv'
<1>. SUFFICES ASSUME CollectorInv, [Next]_vars PROVE CollectorInv'
  OBVIOUS
<1>1. CASE Pass
  BY <1>1, ListPreserves, CollectPreserves, ReceivePreserves DEF Pass
<1>2. CASE Tick
  BY <1>2, TickPreserves
<1>3. CASE \E a \in Addrs : ep_send_img(a) \/ Leave(a)
  BY <1>3, SendPreserves, ListPreserves
<1>4. CASE UNCHANGED vars
  BY <1>4 DEF CollectorInv, TypeOK, AllMarked, Marked, NothingCompleteWaits, Numbers, vars
<1>. QED
  BY <1>1, <1>2, <1>3, <1>4 DEF Next

(***************************************************************************)
(* The collector's invariant holds, whether or not a device uses a         *)
(* timestamp twice and however many fragments an image has.                *)
(***************************************************************************)
THEOREM CollectorInvariant == Spec => []CollectorInv
  BY InitEstablishes, NextPreserves, PTL DEF Spec

\* The dictionaries and queues of DataCollector.collect keep their types.
THEOREM CollectorTypeCorrect == Spec => []TypeOK
<1>1. CollectorInv => TypeOK
  BY DEF CollectorInv
<1>. QED
  BY <1>1, CollectorInvariant, PTL

(***************************************************************************)
(* No pass of DataCollector.collect keeps an image back whose fragments    *)
(* all came, in whichever order they came (esp_lib.py:273-291).            *)
(***************************************************************************)
THEOREM CollectorKeepsNothingBack == Spec => []NothingCompleteWaits
<1>1. CollectorInv => NothingCompleteWaits
  BY DEF CollectorInv
<1>. QED
  BY <1>1, CollectorInvariant, PTL

-----------------------------------------------------------------------------
(* Published images are whole.                                             *)

ImageSent == [addr : Addrs, timestamp : Timestamps, size : 1 .. MaxFrag, met : BOOLEAN]

\* The images sent are a prefix of those sent later.
Prefix(images, later) ==
  \A i \in DOMAIN images : i \in DOMAIN later /\ later[i] = images[i]

\* No image was sent since by device a with timestamp t.
SameLatest(images, later, a, t) ==
  \A i : IsLatest(later, a, t, i) <=> IsLatest(images, a, t, i)

LEMMA GenuineStays ==
  ASSUME NEW images, NEW later, Prefix(images, later), NEW a, NEW f,
         SameLatest(images, later, a, f.timestamp), Genuine(images, a, f)
  PROVE  Genuine(later, a, f)
  BY DEF Prefix, SameLatest, Genuine, PartOf

LEMMA SortedStays ==
  ASSUME NEW images, NEW later, Prefix(images, later), NEW a, NEW t, NEW b,
         SameLatest(images, later, a, t), Sorted(images, a, t, b)
  PROVE  Sorted(later, a, t, b)
<1>1. \A n \in Numbers(b) : /\ PartOf(images, a, t, b.frags[n])
                            /\ PartOf(later, a, t, b.frags[n])
                            /\ later[b.frags[n].img] = images[b.frags[n].img]
  BY DEF Sorted, Prefix, PartOf
<1>2. \A n \in Numbers(b) : MarksEnd(images, a, t, b, n) => MarksEnd(later, a, t, b, n)
  BY <1>1 DEF MarksEnd, SameLatest
<1>3. \A i : IsLatest(later, a, t, i) => IsLatest(images, a, t, i) /\ later[i] = images[i]
  BY DEF SameLatest, IsLatest, Prefix
<1>. QED
  BY <1>1, <1>2, <1>3 DEF Sorted

\* A device has one latest image with a timestamp.
LEMMA OneLatest ==
  ASSUME NEW images \in Seq(ImageSent), NEW a, NEW t, NEW i, NEW j,
         IsLatest(images, a, t, i), IsLatest(images, a, t, j)
  PROVE  i = j
<1>1. i \in 1 .. Len(images) /\ j \in 1 .. Len(images)
  BY LenProperties DEF IsLatest
<1>2. i <= j /\ j <= i
  BY DEF IsLatest
<1>. QED
  BY <1>1, <1>2, LenProperties

\* An image sent is a record of its device, timestamp, size and bucket.
LEMMA ImageIsSent ==
  ASSUME NEW images \in Seq(ImageSent), NEW i \in DOMAIN images
  PROVE  images[i].size \in Nat /\ images[i].met \in BOOLEAN
<1>1. images[i] \in ImageSent
  OBVIOUS
<1>. QED
  BY <1>1, CollectorConstants DEF ImageSent

\* The places of an image whose numbers do not wrap are the numbers.
LEMMA NumberIsPlace ==
  ASSUME NEW images \in Seq(ImageSent), NEW i \in DOMAIN images, images[i].size <= FragMod,
         NEW pos \in 0 .. MaxFrag - 1, pos < images[i].size
  PROVE  pos % FragMod = pos
<1>1. images[i].size \in Nat
  BY ImageIsSent
<1>2. pos \in 0 .. FragMod - 1 /\ pos = 0 * FragMod + pos
  BY <1>1, CollectorConstants
<1>. QED
  BY <1>2, CollectorConstants, RemainderUnique

\* A fragment put into its bucket keeps the bucket sorted.
LEMMA PutSorts ==
  ASSUME NEW images \in Seq(ImageSent), NEW a, NEW b \in Bucket, NEW f \in Fragment,
         Genuine(images, a, f), Sorted(images, a, f.timestamp, b)
  PROVE  Sorted(images, a, f.timestamp, Put(b, f))
<1>. DEFINE c == Put(b, f)
            k == f.fragment_number
            t == f.timestamp
<1>1. k \in 0 .. FragMod - 1 /\ f.data \in Payload /\ f.flag \in BOOLEAN
  BY DEF Fragment
<1>2. /\ c.frags[k] = f.data
      /\ \A n \in 0 .. FragMod - 1 : n # k => c.frags[n] = b.frags[n]
      /\ c.finished >= 0 => f.flag \/ b.finished >= 0
  BY <1>1 DEF Put, Bucket
<1>. HIDE DEF c
<1>3. k \in Numbers(c) /\ \A n \in 0 .. FragMod - 1 : n # k => (n \in Numbers(c) <=> n \in Numbers(b))
  BY <1>1, <1>2, NoneIsNoFragment DEF Numbers
<1>4. /\ PartOf(images, a, t, f.data) /\ IsLatest(images, a, t, f.data.img)
      /\ k = f.data.pos % FragMod
      /\ f.flag => f.data.pos = images[f.data.img].size - 1
  BY DEF Genuine
<1>5. \A n \in Numbers(c) : n \in 0 .. FragMod - 1 /\ (n # k => n \in Numbers(b) /\ c.frags[n] = b.frags[n])
  BY <1>2, <1>3 DEF Numbers
<1>6. \A n \in Numbers(c) : PartOf(images, a, t, c.frags[n])
  BY <1>2, <1>4, <1>5 DEF Sorted
<1>7. images[f.data.img].size <= FragMod => k = f.data.pos
  <2>1. f.data.pos \in 0 .. MaxFrag - 1
    BY <1>1 DEF Payload
  <2>. QED
    BY <1>4, <2>1, NumberIsPlace DEF PartOf
<1>8. ASSUME f.flag PROVE MarksEnd(images, a, t, c, k)
  BY <1>2, <1>4, <1>7, <1>8 DEF MarksEnd
<1>9. ASSUME b.finished >= 0 PROVE \E n \in Numbers(c) : MarksEnd(images, a, t, c, n)
  <2>1. PICK n \in Numbers(b) : MarksEnd(images, a, t, b, n)
    BY <1>9 DEF Sorted
  <2>2. n \in 0 .. FragMod - 1
    BY DEF Numbers
  <2>3. CASE n = k
    <3>1. f.data.img = b.frags[n].img
      BY <1>4, <2>1, OneLatest DEF MarksEnd
    <3>2. MarksEnd(images, a, t, c, k)
      BY <1>2, <2>1, <2>3, <3>1 DEF MarksEnd
    <3>. QED
      BY <1>3, <3>2
  <2>4. CASE n # k
    <3>1. n \in Numbers(c) /\ c.frags[n] = b.frags[n]
      BY <1>2, <1>3, <2>2, <2>4
    <3>2. MarksEnd(images, a, t, c, n)
      BY <2>1, <3>1 DEF MarksEnd
    <3>. QED
      BY <3>1, <3>2
  <2>. QED
    BY <2>3, <2>4
<1>10. ASSUME NEW i, IsLatest(images, a, t, i), ~ images[i].met, NEW n \in Numbers(c)
       PROVE  c.frags[n].img = i /\ c.frags[n].pos % FragMod = n
  <2>1. CASE n = k
    <3>1. f.data.img = i
      BY <1>4, <1>10, OneLatest
    <3>. QED
      BY <1>2, <1>4, <2>1, <3>1
  <2>2. CASE n # k
    BY <1>5, <1>10, <2>2 DEF Sorted
  <2>. QED
    BY <2>1, <2>2
<1>11. c.finished >= 0 => \E n \in Numbers(c) : MarksEnd(images, a, t, c, n)
  BY <1>2, <1>3, <1>8, <1>9
<1>12. Sorted(images, a, t, c)
  BY <1>6, <1>10, <1>11 DEF Sorted
<1>. QED
  BY <1>12 DEF c

\* What may be published of images under device a and timestamp t.
Publishable(images, a, t, d) ==
  \E i \in DOMAIN images :
    /\ images[i].addr = a /\ images[i].timestamp = t
    /\ \/ d = [k \in 1 .. images[i].size |-> [img |-> i, pos |-> k - 1]]
       \/ /\ images[i].met \/ images[i].size > FragMod
          /\ \E k \in DOMAIN d : d[k].img = i

LEMMA PublishedIsPublishable ==
  PublishedIsWhole <=> \A m \in out : Publishable(sent, m.source_ipaddr, m.timestamp, m.data)
  BY DEF PublishedIsWhole, Publishable, Whole

\* An image that is alone in a complete bucket is there in order.
LEMMA AloneIsWhole ==
  ASSUME NEW images \in Seq(ImageSent), NEW a, NEW t, NEW b \in Bucket,
         Sorted(images, a, t, b), Complete(b),
         NEW i, IsLatest(images, a, t, i), ~ images[i].met, images[i].size <= FragMod,
         NEW last \in Numbers(b), last + 1 = images[i].size
  PROVE  Image(b) = [k \in 1 .. images[i].size |-> [img |-> i, pos |-> k - 1]]
<1>1. i \in DOMAIN images
  BY DEF IsLatest
<1>2. last \in Nat
  BY CollectorConstants DEF Numbers
<1>4. \A n \in Numbers(b) : b.frags[n] \in Payload /\ n \in Int
  BY CollectorConstants DEF Numbers, Bucket
<1>5. \A n \in Numbers(b) : b.frags[n].img = i /\ b.frags[n].pos = n /\ n <= last
  <2>. TAKE n \in Numbers(b)
  <2>1. b.frags[n].img = i /\ b.frags[n].pos % FragMod = n /\ PartOf(images, a, t, b.frags[n])
    BY DEF Sorted
  <2>2. b.frags[n].pos \in 0 .. MaxFrag - 1 /\ b.frags[n].pos < images[i].size
    BY <1>4, <2>1 DEF PartOf, Payload
  <2>3. b.frags[n].pos % FragMod = b.frags[n].pos
    BY <1>1, <2>2, NumberIsPlace
  <2>4. PICK k \in Int : k = b.frags[n].pos
    BY <2>2
  <2>5. k < last + 1
    BY <2>2, <2>4
  <2>6. k <= last
    BY <1>2, <2>5
  <2>. QED
    BY <2>1, <2>3, <2>4, <2>6
<1>6. Max(Numbers(b)) = last
  <2>1. PICK x : x = Max(Numbers(b))
    OBVIOUS
  <2>2. x \in Numbers(b) /\ last <= x
    BY <2>1, GreatestNumber
  <2>3. x \in Int /\ x <= last
    BY <1>4, <1>5, <2>2
  <2>4. x = last
    BY <1>2, <2>2, <2>3
  <2>. QED
    BY <2>1, <2>4
<1>7. Numbers(b) = 0 .. last
  BY <1>6 DEF Complete
<1>8. \A k \in 1 .. last + 1 : b.frags[k - 1] = [img |-> i, pos |-> k - 1]
  <2>. TAKE k \in 1 .. last + 1
  <2>1. k - 1 \in Numbers(b)
    BY <1>2, <1>7
  <2>. QED
    BY <1>4, <1>5, <2>1 DEF Payload
<1>9. Image(b) = [k \in 1 .. last + 1 |-> b.frags[k - 1]]
  BY <1>6 DEF Image
<1>10. Image(b) = [k \in 1 .. last + 1 |-> [img |-> i, pos |-> k - 1]]
  BY <1>8, <1>9
<1>. QED
  BY <1>10

\* What a complete bucket holds may be published.
LEMMA CompleteIsPublishable ==
  ASSUME NEW images \in Seq(ImageSent), NEW a, NEW t, NEW b \in Bucket,
         Sorted(images, a, t, b), Complete(b)
  PROVE  Publishable(images, a, t, Image(b))
<1>1. PICK last \in Numbers(b) : MarksEnd(images, a, t, b, last)
  BY DEF Sorted, Complete
<1>2. PICK i : i = b.frags[last].img
  OBVIOUS
<1>3. i \in DOMAIN images /\ images[i].addr = a /\ images[i].timestamp = t
  BY <1>1, <1>2 DEF MarksEnd, IsLatest
<1>4. images[i].size \in Nat /\ images[i].met \in BOOLEAN
  BY <1>3, ImageIsSent
<1>5. CASE ~ images[i].met /\ images[i].size <= FragMod
  <2>1. IsLatest(images, a, t, i)
    BY <1>1, <1>2 DEF MarksEnd
  <2>2. last = images[i].size - 1
    BY <1>1, <1>2, <1>5 DEF MarksEnd
  <2>3. last + 1 = images[i].size
    BY <1>4, <2>2
  <2>4. Image(b) = [k \in 1 .. images[i].size |-> [img |-> i, pos |-> k - 1]]
    BY <1>5, <2>1, <2>3, AloneIsWhole
  <2>. QED
    BY <1>3, <2>4 DEF Publishable
<1>6. CASE images[i].met \/ images[i].size > FragMod
  <2>1. PICK x : x = Max(Numbers(b))
    OBVIOUS
  <2>2. x \in 0 .. FragMod - 1 /\ last <= x
    BY <2>1, GreatestNumber
  <2>3. last \in 0 .. FragMod - 1
    BY DEF Numbers
  <2>4. Image(b) = [k \in 1 .. x + 1 |-> b.frags[k - 1]]
    BY <2>1 DEF Image
  <2>5. last + 1 \in 1 .. x + 1 /\ (last + 1) - 1 = last
    BY <2>2, <2>3, CollectorConstants
  <2>6. last + 1 \in DOMAIN Image(b) /\ Image(b)[last + 1].img = i
    BY <1>2, <2>4, <2>5
  <2>. QED
    BY <1>3, <1>6, <2>6 DEF Publishable
<1>. QED
  BY <1>4, <1>5, <1>6, CollectorConstants

-----------------------------------------------------------------------------
(* The steps preserve WholeInv. *)

LEMMA InitIsWhole == Init => WholeInv
<1>. SUFFICES ASSUME Init PROVE WholeInv
  OBVIOUS
<1>1. CollectorInv
  BY InitEstablishes
<1>2. \A a \in Addrs, t \in Timestamps : data[a][t] = NoBucket
  BY DEF Init
<1>3. BucketsSorted
  BY <1>2, NoBucketType DEF BucketsSorted, Sorted
<1>4. NetGenuine /\ QueuesGenuine /\ PublishedIsWhole
  BY DEF Init, NetGenuine, QueuesGenuine, PublishedIsWhole
<1>. QED
  BY <1>1, <1>3, <1>4 DEF WholeInv

LEMMA SendKeepsWhole ==
  ASSUME WholeInv, NEW a \in Addrs, ep_send_img(a)
  PROVE  NetGenuine' /\ QueuesGenuine' /\ BucketsSorted' /\ PublishedIsWhole'
<1>1. TypeOK
  BY DEF WholeInv, CollectorInv
<1>2. PICK t \in Timestamps, size \in 1 .. MaxFrag :
        /\ Settled(a, t)
        /\ sent' = Append(sent, [addr |-> a, timestamp |-> t, size |-> size,
                                 met |-> Numbers(data[a][t]) # {}])
        /\ \E n \in 1 .. size :
             net' = [net EXCEPT ![a] = {f \in @ : f.timestamp # t} \cup
                       {send_img_frag(Len(sent) + 1, pos, t, size) : pos \in 0 .. n - 1}]
  BY DEF ep_send_img
<1>3. PICK n \in 1 .. size :
        net' = [net EXCEPT ![a] = {f \in @ : f.timestamp # t} \cup
                  {send_img_frag(Len(sent) + 1, pos, t, size) : pos \in 0 .. n - 1}]
  BY <1>2
<1>4. PICK new \in ImageSent : /\ new.addr = a /\ new.timestamp = t /\ new.size = size
                               /\ new.met = (Numbers(data[a][t]) # {})
                               /\ sent' = Append(sent, new)
  <2>1. PICK met \in BOOLEAN : met = (Numbers(data[a][t]) # {})
    OBVIOUS
  <2>2. PICK new \in ImageSent : new = [addr |-> a, timestamp |-> t, size |-> size, met |-> met]
    BY DEF ImageSent
  <2>. QED
    BY <1>2, <2>1, <2>2
<1>5. sent \in Seq(ImageSent)
  BY <1>1 DEF TypeOK, ImageSent
<1>6. /\ Len(sent) \in Nat
      /\ DOMAIN sent = 1 .. Len(sent)
      /\ DOMAIN sent' = 1 .. Len(sent) + 1
      /\ \A i \in 1 .. Len(sent) : sent'[i] = sent[i]
      /\ sent'[Len(sent) + 1] = new
  BY <1>4, <1>5, LenProperties, AppendProperties
<1>7. Prefix(sent, sent')
  BY <1>6 DEF Prefix
<1>8. UNCHANGED <<data_queue, data, out>>
  BY DEF ep_send_img
<1>9. \A i : IsLatest(sent', a, t, i) <=> i = Len(sent) + 1
  <2>1. IsLatest(sent', a, t, Len(sent) + 1)
    BY <1>4, <1>6 DEF IsLatest
  <2>2. ASSUME NEW i, IsLatest(sent', a, t, i) PROVE i = Len(sent) + 1
    <3>1. i \in 1 .. Len(sent) + 1
      BY <1>6, <2>2 DEF IsLatest
    <3>2. Len(sent) + 1 <= i
      BY <1>4, <1>6, <2>2 DEF IsLatest
    <3>. QED
      BY <1>6, <3>1, <3>2
  <2>. QED
    BY <2>1, <2>2
<1>10. \A c, u : c # a \/ u # t => SameLatest(sent, sent', c, u)
  <2>. SUFFICES ASSUME NEW c, NEW u, c # a \/ u # t PROVE SameLatest(sent, sent', c, u)
    OBVIOUS
  <2>1. \A j \in DOMAIN sent' : sent'[j].addr = c /\ sent'[j].timestamp = u => j \in DOMAIN sent
    BY <1>4, <1>6
  <2>. QED
    BY <1>6, <2>1 DEF SameLatest, IsLatest
<1>11. \A pos \in 0 .. n - 1 : Genuine(sent', a, send_img_frag(Len(sent) + 1, pos, t, size))
  <2>. TAKE pos \in 0 .. n - 1
  <2>. DEFINE f == send_img_frag(Len(sent) + 1, pos, t, size)
  <2>1. pos \in Nat /\ pos < size
    BY CollectorConstants
  <2>2. /\ f.timestamp = t /\ f.fragment_number = pos % FragMod /\ (f.flag => pos = size - 1)
        /\ f.data.img = Len(sent) + 1 /\ f.data.pos = pos
    BY DEF send_img_frag
  <2>. HIDE DEF f
  <2>3. Len(sent) + 1 \in DOMAIN sent' /\ sent'[Len(sent) + 1] = new
    BY <1>6
  <2>4. PartOf(sent', a, t, f.data)
    BY <1>4, <2>1, <2>2, <2>3 DEF PartOf
  <2>5. IsLatest(sent', a, t, f.data.img)
    BY <1>9, <2>2
  <2>6. Genuine(sent', a, f)
    BY <1>4, <2>2, <2>3, <2>4, <2>5 DEF Genuine
  <2>. QED
    BY <2>6 DEF f
<1>12. NetGenuine'
  <2>. SUFFICES ASSUME NEW c \in Addrs, NEW f \in net'[c] PROVE Genuine(sent', c, f)
    BY DEF NetGenuine
  <2>. DEFINE New == {send_img_frag(Len(sent) + 1, pos, t, size) : pos \in 0 .. n - 1}
  <2>1. \A g \in New : Genuine(sent', a, g)
    BY <1>11
  <2>. HIDE DEF New
  <2>2. net' = [net EXCEPT ![a] = {g \in @ : g.timestamp # t} \cup New]
    BY <1>3 DEF New
  <2>3. (f \in net[c] /\ (c # a \/ f.timestamp # t)) \/ (c = a /\ f \in New)
    BY <1>1, <2>2 DEF TypeOK
  <2>4. CASE f \in net[c] /\ (c # a \/ f.timestamp # t)
    <3>1. Genuine(sent, c, f)
      BY <2>4 DEF WholeInv, NetGenuine
    <3>2. SameLatest(sent, sent', c, f.timestamp)
      BY <1>10, <2>4
    <3>. QED
      BY <1>7, <3>1, <3>2, GenuineStays
  <2>. QED
    BY <2>1, <2>3, <2>4
<1>13. QueuesGenuine'
  <2>. SUFFICES ASSUME NEW c \in Addrs, NEW i \in DOMAIN data_queue[c]
                PROVE  Genuine(sent', c, data_queue[c][i])
    BY <1>8 DEF QueuesGenuine
  <2>1. Genuine(sent, c, data_queue[c][i])
    BY DEF WholeInv, QueuesGenuine
  <2>2. SameLatest(sent, sent', c, data_queue[c][i].timestamp)
    BY <1>2, <1>10 DEF Settled
  <2>. QED
    BY <1>7, <2>1, <2>2, GenuineStays
<1>14. BucketsSorted'
  <2>. SUFFICES ASSUME NEW c \in Addrs, NEW u \in Timestamps PROVE Sorted(sent', c, u, data[c][u])
    BY <1>8 DEF BucketsSorted
  <2>1. Sorted(sent, c, u, data[c][u])
    BY DEF WholeInv, BucketsSorted
  <2>2. CASE c # a \/ u # t
    BY <1>7, <1>10, <2>1, <2>2, SortedStays
  <2>3. CASE c = a /\ u = t
    <3>1. data[a][t].finished = -1
      BY <1>2 DEF Settled
    <3>2. \A k \in Numbers(data[a][t]) : PartOf(sent', a, t, data[a][t].frags[k])
      BY <1>7, <2>1, <2>3 DEF Sorted, PartOf, Prefix
    <3>3. ~ sent'[Len(sent) + 1].met => Numbers(data[a][t]) = {}
      BY <1>4, <1>6
    <3>4. Sorted(sent', a, t, data[a][t])
      BY <1>9, <3>1, <3>2, <3>3 DEF Sorted
    <3>. QED
      BY <2>3, <3>4
  <2>. QED
    BY <2>2, <2>3
<1>15. PublishedIsWhole'
  <2>1. \A m \in out : Publishable(sent, m.source_ipaddr, m.timestamp, m.data)
    BY PublishedIsPublishable DEF WholeInv
  <2>2. ASSUME NEW m \in out
        PROVE  Publishable(sent', m.source_ipaddr, m.timestamp, m.data)
    <3>1. PICK i \in DOMAIN sent :
            /\ sent[i].addr = m.source_ipaddr /\ sent[i].timestamp = m.timestamp
            /\ \/ m.data = [k \in 1 .. sent[i].size |-> [img |-> i, pos |-> k - 1]]
               \/ /\ sent[i].met \/ sent[i].size > FragMod
                  /\ \E k \in DOMAIN m.data : m.data[k].img = i
      BY <2>1 DEF Publishable
    <3>2. i \in DOMAIN sent' /\ sent'[i] = sent[i]
      BY <1>7 DEF Prefix
    <3>. QED
      BY <3>1, <3>2 DEF Publishable
  <2>. QED
    BY <1>8, <2>2 DEF PublishedIsWhole, Publishable, Whole
<1>. QED
  BY <1>12, <1>13, <1>14, <1>15

LEMMA ReceiveKeepsWhole ==
  ASSUME WholeInv, NEW a \in Addrs, Receive(a)
  PROVE  NetGenuine' /\ QueuesGenuine' /\ BucketsSorted' /\ PublishedIsWhole'
<1>1. TypeOK
  BY DEF WholeInv, CollectorInv
<1>2. PICK f \in net[a] :
        /\ data_queue' = [data_queue EXCEPT ![a] = Append(@, f)]
        /\ net' = [net EXCEPT ![a] = @ \ {f}] \/ net' = net
  BY DEF Receive
<1>3. f \in Fragment /\ data_queue[a] \in Seq(Fragment)
  BY <1>1, <1>2 DEF TypeOK
<1>4. Genuine(sent, a, f)
  BY <1>2 DEF WholeInv, NetGenuine
<1>5. UNCHANGED <<sent, data, out>>
  BY DEF Receive
<1>6. NetGenuine'
  <2>1. \A c \in Addrs : net'[c] \subseteq net[c]
    BY <1>1, <1>2 DEF TypeOK
  <2>. QED
    BY <1>5, <2>1 DEF WholeInv, NetGenuine
<1>7. QueuesGenuine'
  <2>. SUFFICES ASSUME NEW c \in Addrs, NEW i \in DOMAIN data_queue'[c]
                PROVE  Genuine(sent, c, data_queue'[c][i])
    BY <1>5 DEF QueuesGenuine
  <2>1. CASE c = a
    <3>1. data_queue'[c] = Append(data_queue[a], f)
      BY <1>1, <1>2, <2>1 DEF TypeOK
    <3>2. data_queue'[c][i] = f \/ (i \in DOMAIN data_queue[a] /\ data_queue'[c][i] = data_queue[a][i])
      BY <1>3, <3>1, AppendProperties, LenProperties
    <3>. QED
      BY <1>4, <2>1, <3>2 DEF WholeInv, QueuesGenuine
  <2>2. CASE c # a
    <3>1. data_queue'[c] = data_queue[c]
      BY <1>1, <1>2, <2>2 DEF TypeOK
    <3>. QED
      BY <3>1 DEF WholeInv, QueuesGenuine
  <2>. QED
    BY <2>1, <2>2
<1>. QED
  BY <1>5, <1>6, <1>7 DEF WholeInv, BucketsSorted, PublishedIsWhole, Whole

LEMMA ListKeepsWhole ==
  ASSUME WholeInv,
         ReadNothing \/ (\E a \in Addrs : Join(a) \/ Leave(a))
  PROVE  NetGenuine' /\ QueuesGenuine' /\ BucketsSorted' /\ PublishedIsWhole'
<1>1. TypeOK
  BY DEF WholeInv, CollectorInv
<1>2. UNCHANGED <<sent, net, data, out>>
  BY DEF ReadNothing, Join, Leave
<1>3. \A c \in Addrs : data_queue'[c] = data_queue[c] \/ data_queue'[c] = <<>>
  BY <1>1 DEF TypeOK, ReadNothing, Join, Leave
<1>4. QueuesGenuine'
  BY <1>2, <1>3 DEF WholeInv, QueuesGenuine
<1>. QED
  BY <1>2, <1>4 DEF WholeInv, NetGenuine, BucketsSorted, PublishedIsWhole, Whole

LEMMA StoreSorted ==
  ASSUME WholeInv, NEW a \in Addrs, NEW t \in Timestamps
  PROVE  Sorted(sent, a, t, Store(a)[t])
<1>1. TypeOK /\ sent \in Seq(ImageSent)
  BY DEF WholeInv, CollectorInv, TypeOK, ImageSent
<1>2. Sorted(sent, a, t, data[a][t]) /\ data[a][t] \in Bucket
  BY <1>1 DEF WholeInv, BucketsSorted, TypeOK
<1>3. CASE a \in esp_list /\ data_queue[a] # <<>>
  <2>1. data_queue[a] \in Seq(Fragment)
    BY <1>1 DEF TypeOK
  <2>2. Head(data_queue[a]) = data_queue[a][1] /\ 1 \in DOMAIN data_queue[a]
    BY <1>3, <2>1, HeadTailProperties, LenProperties, EmptySeq
  <2>3. Genuine(sent, a, Head(data_queue[a]))
    BY <2>2 DEF WholeInv, QueuesGenuine
  <2>. QED
    BY <1>1, <1>2, <1>3, <2>3, StoreIsPut, PutSorts
<1>4. CASE ~ (a \in esp_list /\ data_queue[a] # <<>>)
  BY <1>2, <1>4 DEF Store
<1>. QED
  BY <1>3, <1>4

LEMMA CollectKeepsWhole ==
  ASSUME WholeInv, collect
  PROVE  NetGenuine' /\ QueuesGenuine' /\ BucketsSorted' /\ PublishedIsWhole'
<1>1. TypeOK /\ AllMarked
  BY DEF WholeInv, CollectorInv
<1>2. UNCHANGED <<sent, net>>
  BY DEF collect
<1>3. QueuesGenuine'
  <2>. SUFFICES ASSUME NEW a \in Addrs, NEW i \in DOMAIN data_queue'[a]
                PROVE  Genuine(sent, a, data_queue'[a][i])
    BY <1>2 DEF QueuesGenuine
  <2>1. data_queue'[a] = IF data_queue[a] = <<>> THEN <<>> ELSE Tail(data_queue[a])
    BY DEF collect
  <2>2. data_queue[a] \in Seq(Fragment)
    BY <1>1 DEF TypeOK
  <2>3. data_queue[a] # <<>>
    BY <2>1
  <2>4. i + 1 \in DOMAIN data_queue[a] /\ data_queue'[a][i] = data_queue[a][i + 1]
    BY <2>1, <2>2, <2>3, HeadTailProperties, LenProperties
  <2>. QED
    BY <2>4 DEF WholeInv, QueuesGenuine
<1>4. BucketsSorted'
  <2>. SUFFICES ASSUME NEW a \in Addrs, NEW t \in Timestamps
                PROVE  Sorted(sent, a, t, data'[a][t])
    BY <1>2 DEF BucketsSorted
  <2>1. data'[a][t] = NoBucket \/ data'[a][t] = Store(a)[t]
    BY CollectedBucket
  <2>2. CASE data'[a][t] = NoBucket
    BY <2>2, NoBucketType DEF Sorted
  <2>3. CASE data'[a][t] = Store(a)[t]
    BY <2>3, StoreSorted
  <2>. QED
    BY <2>1, <2>2, <2>3
<1>5. PublishedIsWhole'
  <2>. SUFFICES ASSUME NEW m \in out'
                PROVE  Publishable(sent, m.source_ipaddr, m.timestamp, m.data)
    BY <1>2 DEF PublishedIsWhole, Publishable, Whole
  <2>1. PICK a \in Addrs, t \in Timestamps :
          /\ m = [source_ipaddr |-> a, timestamp |-> t, data |-> Image(Store(a)[t])]
          /\ Complete(Store(a)[t])
    BY CollectedImage
  <2>2. Store(a)[t] \in Bucket /\ Sorted(sent, a, t, Store(a)[t])
    BY <1>1, StoreType, StoreSorted
  <2>3. sent \in Seq(ImageSent)
    BY <1>1 DEF TypeOK, ImageSent
  <2>4. PICK b \in Bucket : b = Store(a)[t]
    BY <2>2
  <2>5. Sorted(sent, a, t, b) /\ Complete(b)
    BY <2>1, <2>2, <2>4
  <2>6. Publishable(sent, a, t, Image(b))
    BY <2>3, <2>5, CompleteIsPublishable
  <2>. QED
    BY <2>1, <2>4, <2>6
<1>. QED
  BY <1>2, <1>3, <1>4, <1>5 DEF WholeInv, NetGenuine

LEMMA TickKeepsWhole ==
  ASSUME WholeInv, Tick
  PROVE  NetGenuine' /\ QueuesGenuine' /\ BucketsSorted' /\ PublishedIsWhole'
<1>1. TypeOK
  BY DEF WholeInv, CollectorInv
<1>2. UNCHANGED <<sent, net, data_queue, out>>
  BY DEF Tick
<1>3. \A a \in Addrs, t \in Timestamps :
        /\ data'[a][t].frags = data[a][t].frags
        /\ data'[a][t].finished >= 0 => data[a][t].finished >= 0
  <2>. TAKE a \in Addrs, t \in Timestamps
  <2>1. data[a][t] \in Bucket
    BY <1>1 DEF TypeOK
  <2>2. data'[a][t] = [data[a][t] EXCEPT !.finished = IF @ \in 0 .. Expiry THEN @ + 1 ELSE @]
    BY DEF Tick
  <2>. QED
    BY <2>1, <2>2, CollectorConstants DEF Bucket
<1>4. BucketsSorted'
  <2>. SUFFICES ASSUME NEW a \in Addrs, NEW t \in Timestamps
                PROVE  Sorted(sent, a, t, data'[a][t])
    BY <1>2 DEF BucketsSorted
  <2>1. PICK b : b = data[a][t]
    OBVIOUS
  <2>2. PICK c : c = data'[a][t]
    OBVIOUS
  <2>3. Sorted(sent, a, t, b)
    BY <2>1 DEF WholeInv, BucketsSorted
  <2>4. c.frags = b.frags /\ (c.finished >= 0 => b.finished >= 0)
    BY <1>3, <2>1, <2>2
  <2>5. Sorted(sent, a, t, c)
    BY <2>3, <2>4 DEF Sorted, Numbers, MarksEnd
  <2>. QED
    BY <2>2, <2>5
<1>. QED
  BY <1>2, <1>4 DEF WholeInv, NetGenuine, QueuesGenuine, PublishedIsWhole, Whole

LEMMA NextKeepsWhole == WholeInv /\ [Next]_vars => WholeInv'
<1>. SUFFICES ASSUME WholeInv, [Next]_vars PROVE WholeInv'
  OBVIOUS
<1>1. CollectorInv'
  BY NextPreserves DEF WholeInv
<1>. DEFINE Goal == NetGenuine' /\ QueuesGenuine' /\ BucketsSorted' /\ PublishedIsWhole'
<1>2. CASE Pass
  <2>1. Goal
    BY <1>2, ListKeepsWhole, CollectKeepsWhole, ReceiveKeepsWhole DEF Pass
  <2>. QED
    BY <1>1, <2>1 DEF WholeInv
<1>3. CASE Tick
  BY <1>1, <1>3, TickKeepsWhole DEF WholeInv
<1>4. CASE \E a \in Addrs : ep_send_img(a) \/ Leave(a)
  <2>1. Goal
    BY <1>4, SendKeepsWhole, ListKeepsWhole
  <2>. QED
    BY <1>1, <2>1 DEF WholeInv
<1>5. CASE UNCHANGED vars
  <2>1. UNCHANGED <<sent, net, data_queue, data, out>>
    BY <1>5 DEF vars
  <2>2. NetGenuine' /\ QueuesGenuine' /\ BucketsSorted'
    BY <2>1 DEF WholeInv, NetGenuine, QueuesGenuine, BucketsSorted
  <2>3. PublishedIsWhole'
    BY <2>1 DEF WholeInv, PublishedIsWhole, Whole
  <2>. QED
    BY <1>1, <2>2, <2>3 DEF WholeInv
<1>. QED
  BY <1>2, <1>3, <1>4, <1>5 DEF Next

(***************************************************************************)
(* What the collector publishes is an image of the device and timestamp it *)
(* names, all of it and in order, however its fragments were lost,         *)
(* duplicated, reordered or delayed and however often the timestamp was    *)
(* used, except where an earlier image had left fragments in the bucket    *)
(* when it was sent, or its fragment numbers wrap (esp_lib.py:256-303).    *)
(***************************************************************************)
THEOREM CollectorPublishesWholeImages == Spec => []PublishedIsWhole
<1>1. WholeInv => PublishedIsWhole
  BY DEF WholeInv
<1>2. WholeInv /\ [Next]_vars => WholeInv'
  BY NextKeepsWhole
<1>. QED
  BY <1>1, <1>2, InitIsWhole, PTL DEF Spec
=============================================================================
