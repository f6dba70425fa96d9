--------------------------- MODULE EpTxBufferProofs ---------------------------
(***************************************************************************)
(* Theorems about EpTxBuffer, for images of any length the fragment number *)
(* can count, any timestamps, and every interleaving of the two tasks.     *)
(***************************************************************************)
EXTENDS EpTxBuffer, TLAPS

-----------------------------------------------------------------------------
(* The bits of a frame: each EP_SET_... writes its field and no other.     *)

LEMMA VersionField ==
  ASSUME NEW h \in Byte
  PROVE  /\ EP_SET_VERSION(h, 0) \in Byte
         /\ EP_GET_VERSION(EP_SET_VERSION(h, 0)) = 0
         /\ EP_GET_TYPE(EP_SET_VERSION(h, 0)) = EP_GET_TYPE(h)
         /\ EP_GET_SUBTYPE(EP_SET_VERSION(h, 0)) = EP_GET_SUBTYPE(h)
  BY SMT DEF Byte, EP_SET_VERSION, EP_GET_VERSION, EP_GET_TYPE, EP_GET_SUBTYPE

LEMMA TypeField ==
  ASSUME NEW h \in Byte, NEW v \in 0 .. 3
  PROVE  /\ EP_SET_TYPE(h, v) \in Byte
         /\ EP_GET_VERSION(EP_SET_TYPE(h, v)) = EP_GET_VERSION(h)
         /\ EP_GET_TYPE(EP_SET_TYPE(h, v)) = v
         /\ EP_GET_SUBTYPE(EP_SET_TYPE(h, v)) = EP_GET_SUBTYPE(h)
  BY SMT DEF Byte, EP_SET_TYPE, EP_GET_VERSION, EP_GET_TYPE, EP_GET_SUBTYPE

LEMMA SubtypeField ==
  ASSUME NEW h \in Byte, NEW v \in 0 .. 15
  PROVE  /\ EP_SET_SUBTYPE(h, v) \in Byte
         /\ EP_GET_VERSION(EP_SET_SUBTYPE(h, v)) = EP_GET_VERSION(h)
         /\ EP_GET_TYPE(EP_SET_SUBTYPE(h, v)) = EP_GET_TYPE(h)
         /\ EP_GET_SUBTYPE(EP_SET_SUBTYPE(h, v)) = v
  BY SMT DEF Byte, EP_SET_SUBTYPE, EP_GET_VERSION, EP_GET_TYPE, EP_GET_SUBTYPE

\* A word, split after its lower byte or after its lower six bits.
LEMMA SplitWord ==
  ASSUME NEW x \in Int
  PROVE  /\ x = 256 * (x \div 256) + (x % 256) /\ x \div 256 \in Int /\ x % 256 \in 0 .. 255
         /\ x = 64 * (x \div 64) + (x % 64) /\ x \div 64 \in Int /\ x % 64 \in 0 .. 63
<1>1. x = 256 * (x \div 256) + (x % 256) /\ x \div 256 \in Int /\ x % 256 \in 0 .. 255
  BY SMT
<1>2. x = 64 * (x \div 64) + (x % 64) /\ x \div 64 \in Int /\ x % 64 \in 0 .. 63
  BY SMT
<1>. QED
  BY <1>1, <1>2

LEMMA InWord ==
  \A x : x \in Word <=> x \in Int /\ 0 <= x /\ x <= 65535
<1>1. \A x : x \in Word => x \in Int
  BY DEF Word
<1>2. \A x \in Int : x \in Word <=> 0 <= x /\ x <= 65535
  BY Z3 DEF Word
<1>. QED
  BY <1>1, <1>2

\* The conversion between the byte orders undoes itself.
LEMMA SwapTwice ==
  ASSUME NEW x \in Word
  PROVE  Swap(x) \in Word /\ Swap(Swap(x)) = x
<1>1. x \in Int
  BY InWord
<1>2. PICK b \in Int, a \in 0 .. 255 :
        x = 256 * b + a /\ b = x \div 256 /\ a = x % 256
  BY <1>1, SplitWord
<1>3. b \in 0 .. 255 /\ a \in Int
  BY <1>2, InWord, SMT
<1>4. Swap(x) = 256 * a + b
  BY <1>2 DEF Swap
<1>5. 256 * a + b \in Word
  BY <1>3, InWord, SMT
<1>6. (256 * a + b) \div 256 = a /\ (256 * a + b) % 256 = b
  BY <1>3, SMT
<1>7. Swap(256 * a + b) = 256 * b + a
  BY <1>6 DEF Swap
<1>. QED
  BY <1>2, <1>4, <1>5, <1>7

\* What the server parses is what the board has put into the two fields,
\* whatever stood there and though the two have different byte orders.
LEMMA NumberFields ==
  ASSUME NEW w \in Word, NEW time \in 0 .. 1023, NEW at \in 0 .. 63
  PROVE  LET v == EP_SET_DATA_FRAGMENT_NO(EP_SET_DATA_TIMESTAMP(w, time), at)
         IN  v \in Word /\ timestamp(v) = time /\ fragment_number(v) = at
<1>1. time % 1024 = time /\ at % 64 = at /\ time \in Int
  BY SMT
<1>2. PICK r \in 0 .. 63 : r = Swap(w) % 64
  <2>1. Swap(w) \in Int
    BY SwapTwice, InWord
  <2>. QED
    BY <2>1, SplitWord
<1>3. 64 * time + r \in Word /\ (64 * time + r) \div 64 = time
  <2>1. 64 * time + r \in Word
    BY InWord, SMT
  <2>. QED
    BY <2>1, SMT
<1>4. /\ 64 * time + at \in Word
      /\ (64 * time + at) \div 64 = time /\ (64 * time + at) % 64 = at
  <2>1. 64 * time + at \in Word
    BY InWord, SMT
  <2>2. (64 * time + at) \div 64 = time
    BY SMT
  <2>3. (64 * time + at) % 64 = at
    BY SMT
  <2>. QED
    BY <2>1, <2>2, <2>3
<1>5. EP_SET_DATA_TIMESTAMP(w, time) = Swap(64 * time + r)
  BY <1>1, <1>2 DEF EP_SET_DATA_TIMESTAMP
<1>6. EP_SET_DATA_FRAGMENT_NO(Swap(64 * time + r), at) = Swap(64 * time + at)
  BY <1>1, <1>3, SwapTwice DEF EP_SET_DATA_FRAGMENT_NO
<1>7. ASSUME NEW x
      PROVE  timestamp(x) = Swap(x) \div 64 /\ fragment_number(x) = Swap(x) % 64
  BY DEF timestamp, fragment_number, Swap
<1>8. /\ timestamp(Swap(64 * time + at)) = time
      /\ fragment_number(Swap(64 * time + at)) = at
  BY <1>4, <1>7, SwapTwice
<1>. QED
  BY <1>4, <1>5, <1>6, <1>8, SwapTwice

-----------------------------------------------------------------------------
(* The inductive invariant.  It follows the two tasks through the frames   *)
(* they build: what each of them has written and the other cannot spoil.   *)

\* Every field of a first byte is one that some task writes.
Known(h) ==
  /\ EP_GET_VERSION(h) = 0
  /\ EP_GET_TYPE(h) \in {EP_TYPE_MGMT, EP_TYPE_DATA}
  /\ EP_GET_SUBTYPE(h) \in 0 .. EP_SUBTYPE_MGMT_PING

\* A byte is held only between the read and the write of the same field.
Held == \A t \in Tasks : reg[t] # None => op[t] \in Fields

\* What eyeotine_task is at.
Main ==
  op["main"] # "idle" =>
    /\ frame["main"] \in {"assoc", "ping", "dassoc"}
    /\ op["main"] \in Fields \cup {"flags", "send"}

\* What eyeotine_camera_task is at: a fragment its image has.
Camera ==
  op["camera"] # "idle" =>
    /\ frame["camera"] = "image"
    /\ image.time \in Timestamps
    /\ image.at < image.count

\* Up to its flags, the first request of all is built without interference:
\* the camera waits for a server, and that one for the request.
First ==
  buffer.flags = None =>
    /\ op["camera"] = "idle"
    /\ state = "ASSOCIATING"
    /\ op["main"] # "idle" => frame["main"] = "assoc"
    /\ op["main"] # "send"
    /\ reg["main"] # None => reg["main"] = buffer.header
    /\ op["main"] \in {"type", "subtype", "flags"} => EP_GET_VERSION(buffer.header) = 0
    /\ op["main"] \in {"subtype", "flags"} =>
         EP_GET_TYPE(buffer.header) \in {EP_TYPE_MGMT, EP_TYPE_DATA}
    /\ op["main"] = "flags" => Known(buffer.header)

\* From then on the tasks spoil each other's first byte, in known ways only.
Later ==
  buffer.flags # None =>
    /\ Known(buffer.header)
    /\ \A t \in Tasks : reg[t] # None => Known(reg[t])

\* What the camera task has written of its fragment so far.
Written ==
  /\ op["camera"] \in {"data", "send"} =>
       /\ timestamp(buffer.number) = image.time
       /\ fragment_number(buffer.number) = image.at
  /\ op["camera"] = "send" => buffer.data = image.at
  /\ op["camera"] \in {"number", "data", "send"} /\ buffer.flags = 1 => is_last_fragment

TxInv ==
  /\ TypeOK
  /\ Held /\ Main /\ Camera
  /\ First /\ Later
  /\ Written
  /\ HeadersAreKnown /\ FragmentsAreWhole /\ LastIsLast

\* What follows each part of a frame.
LEMMA AfterOpValues ==
  /\ \A f : /\ AfterOp(f, "begin") = "version"
            /\ AfterOp(f, "version") = "type"
            /\ AfterOp(f, "type") = "subtype"
            /\ AfterOp(f, "number") = "data"
            /\ AfterOp(f, "data") = "send"
  /\ AfterOp("image", "subtype") = "flags" /\ AfterOp("image", "flags") = "number"
  /\ AfterOp("assoc", "subtype") = "flags" /\ AfterOp("assoc", "flags") = "send"
  /\ AfterOp("ping", "subtype") = "send" /\ AfterOp("ping", "flags") = "send"
  /\ AfterOp("dassoc", "subtype") = "send" /\ AfterOp("dassoc", "flags") = "send"
  BY DEF AfterOp

\* Every start satisfies the invariant.
LEMMA TxInit ==
  ASSUME Init
  PROVE  TxInv
<1>1. TypeOK
  <2>1. /\ buffer \in [header : Byte, flags : {0, 1, None}, number : Word,
                       data : (0 .. MaxFrag - 1) \cup {None}]
    BY TxBufferConstants DEF Init
  <2>2. image \in [time : Timestamps \cup {None}, count : 0 .. MaxFrag, at : 0 .. MaxFrag - 1]
    BY TxBufferConstants DEF Init
  <2>. QED
    BY <2>1, <2>2 DEF Init, TypeOK
<1>2. Held /\ Main /\ Camera /\ Written
  BY DEF Init, Held, Main, Camera, Written, Tasks
<1>3. First /\ Later
  BY DEF Init, First, Later, Tasks
<1>4. HeadersAreKnown /\ FragmentsAreWhole /\ LastIsLast
  BY DEF Init, HeadersAreKnown, FragmentsAreWhole, LastIsLast
<1>. QED
  BY <1>1, <1>2, <1>3, <1>4 DEF TxInv

\* A step that sends nothing has nothing to answer for.
LEMMA NothingSent ==
  ASSUME sent' = None
  PROVE  HeadersAreKnown' /\ FragmentsAreWhole' /\ LastIsLast'
  BY DEF HeadersAreKnown, FragmentsAreWhole, LastIsLast

LEMMA TxMainBegins ==
  ASSUME TxInv, MainBegins
  PROVE  TxInv'
<1>1. TypeOK'
  BY AfterOpValues DEF TxInv, TypeOK, MainBegins, Build, Fields, Tasks
<1>2. Held' /\ Main' /\ Camera' /\ Written'
  BY AfterOpValues
  DEF TxInv, TypeOK, MainBegins, Build, Held, Main, Camera, Written, Fields, Tasks,
      is_last_fragment
<1>3. First' /\ Later'
  BY AfterOpValues
  DEF TxInv, TypeOK, MainBegins, Build, Connected, Held, First, Later, Fields, Tasks
<1>4. sent' = None
  BY DEF MainBegins
<1>. QED
  BY <1>1, <1>2, <1>3, <1>4, NothingSent DEF TxInv

LEMMA TxMainSends ==
  ASSUME TxInv, MainSends
  PROVE  TxInv'
<1>1. TypeOK'
  BY DEF TxInv, TypeOK, MainSends, Tasks
<1>2. Held' /\ Main' /\ Camera' /\ Written'
  BY DEF TxInv, TypeOK, MainSends, Held, Main, Camera, Written, Fields, Tasks,
         is_last_fragment
<1>3. First' /\ Later'
  BY DEF TxInv, TypeOK, MainSends, First, Later, Tasks
<1>4. HeadersAreKnown' /\ FragmentsAreWhole' /\ LastIsLast'
  BY DEF TxInv, TypeOK, MainSends, Datagram, First, Later, Known, Main,
         HeadersAreKnown, FragmentsAreWhole, LastIsLast, EP_SUBTYPE_MGMT_PING
<1>. QED
  BY <1>1, <1>2, <1>3, <1>4 DEF TxInv

LEMMA TxStateChanges ==
  ASSUME TxInv, StateChanges
  PROVE  TxInv'
<1>1. TypeOK'
  BY DEF TxInv, TypeOK, StateChanges, Reaches
<1>2. Held' /\ Main' /\ Camera' /\ Written'
  BY DEF TxInv, StateChanges, Held, Main, Camera, Written, is_last_fragment
<1>3. First' /\ Later'
  BY DEF TxInv, StateChanges, First, Later
<1>4. sent' = None
  BY DEF StateChanges
<1>. QED
  BY <1>1, <1>2, <1>3, <1>4, NothingSent DEF TxInv

LEMMA TxCameraBegins ==
  ASSUME TxInv, CameraBegins
  PROVE  TxInv'
<1>1. TypeOK'
  BY AfterOpValues, TxBufferConstants
  DEF TxInv, TypeOK, CameraBegins, Build, Fields, Tasks
<1>2. Held' /\ Main' /\ Camera' /\ Written'
  BY AfterOpValues, TxBufferConstants
  DEF TxInv, TypeOK, CameraBegins, Build, Held, Main, Camera, Written, Fields, Tasks
<1>3. First' /\ Later'
  BY DEF TxInv, TypeOK, CameraBegins, First, Later
<1>4. sent' = None
  BY DEF CameraBegins
<1>. QED
  BY <1>1, <1>2, <1>3, <1>4, NothingSent DEF TxInv

LEMMA TxWriteNumber ==
  ASSUME TxInv, WriteNumber
  PROVE  TxInv'
<1> DEFINE number == EP_SET_DATA_FRAGMENT_NO(
                       EP_SET_DATA_TIMESTAMP(buffer.number, image.time), image.at)
<1>1. number \in Word /\ timestamp(number) = image.time /\ fragment_number(number) = image.at
  <2>1. image.time \in 0 .. 1023 /\ image.at \in 0 .. 63 /\ buffer.number \in Word
    BY TxBufferConstants DEF TxInv, TypeOK, WriteNumber, Camera
  <2>. QED
    BY <2>1, NumberFields
<1> HIDE DEF number
<1>2. /\ op["camera"] = "number" /\ frame["camera"] = "image"
      /\ buffer' = [buffer EXCEPT !.number = number]
      /\ op' = [op EXCEPT !["camera"] = "data"]
      /\ UNCHANGED <<state, frame, reg, image>>
  BY AfterOpValues DEF TxInv, Camera, WriteNumber, GoOn, TypeOK, Tasks, number
<1>3. TypeOK'
  BY <1>1, <1>2 DEF TxInv, TypeOK, Tasks
<1>4. Held' /\ Main' /\ Camera' /\ Written'
  BY <1>1, <1>2
  DEF TxInv, TypeOK, Held, Main, Camera, Written, Fields, Tasks, is_last_fragment
<1>5. First' /\ Later'
  BY <1>2 DEF TxInv, TypeOK, First, Later, Tasks
<1>6. sent' = None
  BY DEF WriteNumber
<1>. QED
  BY <1>3, <1>4, <1>5, <1>6, NothingSent DEF TxInv

LEMMA TxCopyData ==
  ASSUME TxInv, CopyData
  PROVE  TxInv'
<1>1. /\ op["camera"] = "data" /\ frame["camera"] = "image"
      /\ buffer' = [buffer EXCEPT !.data = image.at]
      /\ op' = [op EXCEPT !["camera"] = "send"]
      /\ UNCHANGED <<state, frame, reg, image>>
  BY AfterOpValues DEF TxInv, Camera, CopyData, GoOn, TypeOK, Tasks
<1>2. TypeOK'
  BY <1>1 DEF TxInv, TypeOK, Tasks
<1>3. Held' /\ Main' /\ Camera' /\ Written'
  BY <1>1
  DEF TxInv, TypeOK, Held, Main, Camera, Written, Fields, Tasks, is_last_fragment
<1>4. First' /\ Later'
  BY <1>1 DEF TxInv, TypeOK, First, Later, Tasks
<1>5. sent' = None
  BY DEF CopyData
<1>. QED
  BY <1>2, <1>3, <1>4, <1>5, NothingSent DEF TxInv

LEMMA TxCameraSends ==
  ASSUME TxInv, CameraSends
  PROVE  TxInv'
<1>1. /\ op["camera"] = "send" /\ frame["camera"] = "image" /\ buffer.flags # None
      /\ sent' = Datagram("camera")
      /\ UNCHANGED <<state, buffer, reg>>
  BY DEF TxInv, Camera, First, CameraSends
<1>2. HeadersAreKnown' /\ FragmentsAreWhole' /\ LastIsLast'
  BY <1>1 DEF TxInv, TypeOK, Datagram, Later, Known, Written, is_last_fragment,
         HeadersAreKnown, FragmentsAreWhole, LastIsLast, EP_SUBTYPE_MGMT_PING
<1>3. CASE ~ is_last_fragment /\ image' = [image EXCEPT !.at = @ + 1] /\ Build("camera", "image")
  <2>1. /\ op' = [op EXCEPT !["camera"] = "version"]
        /\ frame' = [frame EXCEPT !["camera"] = "image"]
    BY <1>3, AfterOpValues DEF Build
  <2>2. image.at + 1 < image.count /\ image.at + 1 \in 0 .. MaxFrag - 1 /\ image.time \in Timestamps
    BY <1>1, <1>3, TxBufferConstants DEF TxInv, TypeOK, Camera, is_last_fragment
  <2>3. TypeOK'
    BY <1>1, <1>3, <2>1, <2>2 DEF TxInv, TypeOK, Fields, Tasks
  <2>4. Held' /\ Main' /\ Camera' /\ Written'
    BY <1>1, <1>3, <2>1, <2>2
    DEF TxInv, TypeOK, Held, Main, Camera, Written, Fields, Tasks
  <2>5. First' /\ Later'
    BY <1>1 DEF TxInv, TypeOK, First, Later
  <2>. QED
    BY <1>2, <2>3, <2>4, <2>5 DEF TxInv
<1>4. CASE CameraEnds
  <2>1. TypeOK'
    BY <1>1, <1>4, TxBufferConstants DEF TxInv, TypeOK, CameraEnds, Tasks
  <2>2. Held' /\ Main' /\ Camera' /\ Written'
    BY <1>1, <1>4
    DEF TxInv, TypeOK, CameraEnds, Held, Main, Camera, Written, Fields, Tasks
  <2>3. First' /\ Later'
    BY <1>1 DEF TxInv, TypeOK, First, Later
  <2>. QED
    BY <1>2, <2>1, <2>2, <2>3 DEF TxInv
<1>. QED
  BY <1>3, <1>4 DEF CameraSends

LEMMA TxCameraIsRefused ==
  ASSUME TxInv, CameraIsRefused
  PROVE  TxInv'
<1>1. TypeOK'
  BY TxBufferConstants DEF TxInv, TypeOK, CameraIsRefused, CameraEnds, Tasks
<1>2. Held' /\ Main' /\ Camera' /\ Written'
  BY DEF TxInv, TypeOK, CameraIsRefused, CameraEnds, Held, Main, Camera, Written, Fields, Tasks
<1>3. First' /\ Later'
  BY DEF TxInv, TypeOK, CameraIsRefused, CameraEnds, First, Later, Tasks
<1>4. sent' = None
  BY DEF CameraIsRefused
<1>. QED
  BY <1>1, <1>2, <1>3, <1>4, NothingSent DEF TxInv

LEMMA TxReadHeader ==
  ASSUME TxInv, NEW t \in Tasks, ReadHeader(t)
  PROVE  TxInv'
<1>1. TypeOK'
  BY DEF TxInv, TypeOK, ReadHeader
<1>2. Held' /\ Main' /\ Camera' /\ Written'
  BY DEF TxInv, TypeOK, ReadHeader, Held, Main, Camera, Written, is_last_fragment
<1>3. First' /\ Later'
  BY DEF TxInv, TypeOK, ReadHeader, First, Later, Fields, Tasks
<1>4. sent' = None
  BY DEF ReadHeader
<1>. QED
  BY <1>1, <1>2, <1>3, <1>4, NothingSent DEF TxInv

LEMMA TxWriteFlags ==
  ASSUME TxInv, NEW t \in Tasks, WriteFlags(t)
  PROVE  TxInv'
<1>1. /\ op[t] = "flags"
      /\ Flag(t) \in {0, 1} /\ Flag(t) # None
      /\ buffer' = [buffer EXCEPT !.flags = Flag(t)]
      /\ op' = [op EXCEPT ![t] = IF t = "camera" THEN "number" ELSE "send"]
      /\ UNCHANGED <<state, frame, reg, image>>
  <2>1. /\ op[t] = "flags" /\ UNCHANGED <<state, frame, reg, image>>
        /\ buffer' = [buffer EXCEPT !.flags = Flag(t)]
        /\ op' = [op EXCEPT ![t] = AfterOp(frame[t], "flags")]
    BY DEF WriteFlags, GoOn
  <2>2. Flag(t) \in {0, 1} /\ None # 0 /\ None # 1
    BY TxBufferConstants DEF Flag, Byte
  <2>3. CASE t = "camera"
    <3>1. AfterOp(frame[t], "flags") = "number"
      BY <2>1, <2>3, AfterOpValues DEF TxInv, Camera
    <3>. QED
      BY <2>1, <2>2, <2>3, <3>1
  <2>4. CASE t = "main"
    <3>1. AfterOp(frame[t], "flags") = "send"
      BY <2>1, <2>4, AfterOpValues DEF TxInv, Main
    <3>. QED
      BY <2>1, <2>2, <2>4, <3>1
  <2>. QED
    BY <2>3, <2>4 DEF Tasks
<1>2. TypeOK'
  BY <1>1 DEF TxInv, TypeOK, Fields
<1>3. Held' /\ Main' /\ Camera'
  BY <1>1 DEF TxInv, TypeOK, Held, Main, Camera, Fields, Tasks
<1>4. Written'
  BY <1>1 DEF TxInv, TypeOK, Flag, Main, Camera, Written, Tasks, is_last_fragment
<1>5. First' /\ Later'
  BY <1>1 DEF TxInv, TypeOK, Held, First, Later, Fields, Tasks
<1>6. sent' = None
  BY DEF WriteFlags
<1>. QED
  BY <1>2, <1>3, <1>4, <1>5, <1>6, NothingSent DEF TxInv

\* The first byte after one of its fields has been written.
LEMMA TxWriteHeader ==
  ASSUME TxInv, NEW t \in Tasks, WriteHeader(t)
  PROVE  TxInv'
<1> DEFINE f == frame[t]
           r == reg[t]
           h == buffer'.header
<1>1. /\ op[t] \in Fields /\ r \in Byte /\ r # None
      /\ f \in {"assoc", "ping", "dassoc", "image"}
      /\ t = "camera" => f = "image"
      /\ t = "main" => f # "image"
  BY DEF TxInv, TypeOK, WriteHeader, Main, Camera, Fields, Tasks
<1>2. Type(f) \in {0, 2} /\ Subtype(f) \in {0, 1, 2}
  BY <1>1 DEF Type, Subtype, EP_TYPE_DATA, EP_TYPE_MGMT, EP_SUBTYPE_MGMT_ASSOC,
     EP_SUBTYPE_MGMT_DASSOC, EP_SUBTYPE_MGMT_PING, EP_SUBTYPE_DATA_IMAGE
<1>3. /\ buffer' = [buffer EXCEPT !.header = h]
      /\ reg' = [reg EXCEPT ![t] = None]
      /\ op' = [op EXCEPT ![t] = AfterOp(f, op[t])]
      /\ UNCHANGED <<state, frame, image>>
  <2>1. \E v : buffer' = [buffer EXCEPT !.header = v]
    BY DEF WriteHeader
  <2>2. buffer' = [buffer EXCEPT !.header = h]
    BY <2>1 DEF TxInv, TypeOK
  <2>. QED
    BY <2>2 DEF WriteHeader, GoOn
<1>4. /\ h \in Byte
      /\ op[t] = "version" =>
           /\ EP_GET_VERSION(h) = 0
           /\ EP_GET_TYPE(h) = EP_GET_TYPE(r)
           /\ EP_GET_SUBTYPE(h) = EP_GET_SUBTYPE(r)
      /\ op[t] = "type" =>
           /\ EP_GET_VERSION(h) = EP_GET_VERSION(r)
           /\ EP_GET_TYPE(h) \in {0, 2}
           /\ EP_GET_SUBTYPE(h) = EP_GET_SUBTYPE(r)
      /\ op[t] = "subtype" =>
           /\ EP_GET_VERSION(h) = EP_GET_VERSION(r)
           /\ EP_GET_TYPE(h) = EP_GET_TYPE(r)
           /\ EP_GET_SUBTYPE(h) \in {0, 1, 2}
  <2>1. CASE op[t] = "version"
    <3>1. h = EP_SET_VERSION(r, 0)
      BY <2>1 DEF TxInv, TypeOK, WriteHeader
    <3>. QED
      BY <1>1, <2>1, <3>1, VersionField
  <2>2. CASE op[t] = "type"
    <3>1. h = EP_SET_TYPE(r, Type(f)) /\ Type(f) \in 0 .. 3
      BY <1>2, <2>2 DEF TxInv, TypeOK, WriteHeader
    <3>. QED
      BY <1>1, <1>2, <2>2, <3>1, TypeField
  <2>3. CASE op[t] = "subtype"
    <3>1. h = EP_SET_SUBTYPE(r, Subtype(f)) /\ Subtype(f) \in 0 .. 15
      BY <1>2, <2>3 DEF TxInv, TypeOK, WriteHeader
    <3>. QED
      BY <1>1, <1>2, <2>3, <3>1, SubtypeField
  <2>. QED
    BY <1>1, <2>1, <2>2, <2>3 DEF Fields
<1>5. /\ AfterOp(f, op[t]) \in {"type", "subtype", "flags", "send"}
      /\ AfterOp(f, op[t]) = "type" => op[t] = "version"
      /\ AfterOp(f, op[t]) = "subtype" => op[t] = "type"
      /\ AfterOp(f, op[t]) \in {"flags", "send"} => op[t] = "subtype"
      /\ AfterOp(f, op[t]) = "send" => f \in {"ping", "dassoc"}
  BY <1>1, AfterOpValues DEF Fields
<1> HIDE DEF h
<1>6. TypeOK'
  BY <1>3, <1>4, <1>5 DEF TxInv, TypeOK, Fields
<1>7. Held' /\ Main' /\ Camera' /\ Written'
  BY <1>1, <1>3, <1>5
  DEF TxInv, TypeOK, Held, Main, Camera, Written, Fields, Tasks, is_last_fragment
<1>8. First'
  <2> SUFFICES ASSUME buffer'.flags = None PROVE First'
    BY DEF First
  <2>1. buffer.flags = None
    BY <1>3 DEF TxInv, TypeOK
  <2>2. t = "main" /\ r = buffer.header /\ f = "assoc"
    BY <1>1, <2>1 DEF TxInv, First, Fields, Tasks
  <2>3. buffer'.header = h
    BY DEF h
  <2>. QED
    BY <1>1, <1>3, <1>4, <1>5, <2>1, <2>2, <2>3
    DEF TxInv, TypeOK, First, Known, Tasks, EP_TYPE_MGMT, EP_TYPE_DATA,
        EP_SUBTYPE_MGMT_PING, Fields
<1>9. Later'
  <2> SUFFICES ASSUME buffer'.flags # None PROVE Later'
    BY DEF Later
  <2>1. buffer.flags # None
    BY <1>3 DEF TxInv, TypeOK
  <2>2. Known(r)
    BY <1>1, <2>1 DEF TxInv, Later
  <2>3. Known(h)
    BY <1>1, <1>4, <2>2
    DEF Known, Fields, EP_TYPE_MGMT, EP_TYPE_DATA, EP_SUBTYPE_MGMT_PING
  <2>4. buffer'.header = h
    BY DEF h
  <2>. QED
    BY <1>3, <2>1, <2>3, <2>4 DEF TxInv, TypeOK, Later
<1>10. sent' = None
  BY DEF WriteHeader
<1>. QED
  BY <1>6, <1>7, <1>8, <1>9, <1>10, NothingSent DEF TxInv

-----------------------------------------------------------------------------
\* The invariant holds of every behaviour, however the two tasks interleave
\* (ep_impl.c:117-131, 431-446).
THEOREM TxInvariant == Spec => []TxInv
<1>1. Init => TxInv
  BY TxInit
<1>2. TxInv /\ [Next]_vars => TxInv'
  <2> SUFFICES ASSUME TxInv, [Next]_vars PROVE TxInv'
    OBVIOUS
  <2>1. CASE UNCHANGED vars
    BY <2>1 DEF vars, TxInv, TypeOK, Held, Main, Camera, First, Later, Written,
                is_last_fragment, HeadersAreKnown, FragmentsAreWhole, LastIsLast
  <2>. QED
    BY <2>1, TxMainBegins, TxMainSends, TxStateChanges, TxCameraBegins,
       TxWriteNumber, TxCopyData, TxCameraSends, TxCameraIsRefused, TxReadHeader,
       TxWriteHeader, TxWriteFlags
    DEF Next
<1>. QED
  BY <1>1, <1>2, PTL DEF Spec

\* Every variable keeps its type; the buffer holds bytes and words only.
THEOREM TxTypeCorrect == Spec => []TypeOK
<1>1. TxInv => TypeOK
  BY DEF TxInv
<1>. QED
  BY <1>1, TxInvariant, PTL

\* No interleaving makes the board send a frame of another version, or a
\* command (ep_impl.c:117-119, 434-436).
THEOREM TxHeadersAreKnown == Spec => []HeadersAreKnown
<1>1. TxInv => HeadersAreKnown
  BY DEF TxInv
<1>. QED
  BY <1>1, TxInvariant, PTL

\* What follows the first byte of a fragment is never mixed up: the server
\* reads the time, the number and the bytes that belong together, for all
\* timestamps and up to 64 fragments (ep_impl.c:440-443; esp_lib.py:235-239).
THEOREM TxFragmentsAreWhole == Spec => []FragmentsAreWhole
<1>1. TxInv => FragmentsAreWhole
  BY DEF TxInv
<1>. QED
  BY <1>1, TxInvariant, PTL

\* Only the last fragment of an image says so (ep_impl.c:121, 438).
THEOREM TxLastIsLast == Spec => []LastIsLast
<1>1. TxInv => LastIsLast
  BY DEF TxInv
<1>. QED
  BY <1>1, TxInvariant, PTL
=============================================================================
