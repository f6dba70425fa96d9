------------------------------ MODULE EpTxBuffer ------------------------------
(***************************************************************************)
(* ep.buffer of src/esp32/ep/ep_impl.c, in which two tasks of a board      *)
(* build every frame they send: eyeotine_task its requests, pings and      *)
(* farewells, eyeotine_camera_task the fragments of an image.  There is no *)
(* lock, and each EP_SET_... reads the first byte and writes it back.      *)
(*                                                                         *)
(* Every read and every write of the buffer is a step, sendto()'s copy is  *)
(* one, and a step may be followed by one of the other task (the chip has  *)
(* two cores).  A compiler may merge some of the accesses, which leaves    *)
(* fewer interleavings, not others.                                        *)
(***************************************************************************)
EXTENDS EpHeader

CONSTANTS
  Timestamps,    \* times an image may be taken at: some of 0 .. 1023
  Garbage,       \* what malloc() may leave in the first byte
  GarbageWords,  \* what malloc() may leave in timestamp_fragno
  MaxFrag,       \* bound: fragments of an image
  None           \* no value

ASSUME TxBufferConstants ==
  /\ Timestamps \subseteq 0 .. 1023
  /\ Garbage \subseteq Byte
  /\ GarbageWords \subseteq Word
  /\ MaxFrag \in 1 .. 64
  /\ None \notin Byte

VARIABLES
  state,  \* ep.state
  buffer, \* the buffer: its first byte, flags, timestamp_fragno, and the
          \*   number of the fragment whose bytes follow
  frame,  \* the frame a task is building
  op,     \* what the task does next
  reg,    \* the first byte as the task has read it
  image,  \* the camera task's image: timestamp, number of fragments, and the
          \*   fragment it is at
  sent    \* history: the datagram that this step sent, if any: the frame it
          \*   was meant to be, the image at that time, and the buffer

vars == <<state, buffer, frame, op, reg, image, sent>>

Tasks == {"main", "camera"}

Fields == {"version", "type", "subtype"}

Connected(s) == s \in {"WAIT_FOR_SYNC", "CAMERA_OFF", "CAMERA_ON"}

TypeOK ==
  /\ state \in {"ASSOCIATING", "WAIT_FOR_SYNC", "CAMERA_OFF", "CAMERA_ON", "IDLE", "STOPPED"}
  /\ buffer \in [header : Byte, flags : {0, 1, None}, number : Word, data : (0 .. MaxFrag - 1) \cup {None}]
  /\ frame \in [Tasks -> {"assoc", "ping", "dassoc", "image", None}]
  /\ op \in [Tasks -> Fields \cup {"flags", "number", "data", "send", "idle"}]
  /\ reg \in [Tasks -> Byte \cup {None}]
  /\ image \in [time : Timestamps \cup {None}, count : 0 .. MaxFrag, at : 0 .. MaxFrag - 1]

Init ==
  /\ state = "ASSOCIATING"
  /\ \E b \in Garbage, w \in GarbageWords :
       buffer = [header |-> b, flags |-> None, number |-> w, data |-> None]
  /\ frame = [t \in Tasks |-> None]
  /\ op = [t \in Tasks |-> "idle"]
  /\ reg = [t \in Tasks |-> None]
  /\ image = [time |-> None, count |-> 0, at |-> 0]
  /\ sent = None

-----------------------------------------------------------------------------
(* Building a frame. *)

Type(f) == IF f = "image" THEN EP_TYPE_DATA ELSE EP_TYPE_MGMT

Subtype(f) ==
  CASE f = "assoc" -> EP_SUBTYPE_MGMT_ASSOC
    [] f = "dassoc" -> EP_SUBTYPE_MGMT_DASSOC
    [] f = "ping" -> EP_SUBTYPE_MGMT_PING
    [] f = "image" -> EP_SUBTYPE_DATA_IMAGE

\* Mutant: the frame is built around the version that is there.
AfterOp_NoVersion(f, o) ==
  CASE o = "begin" -> "type"
    [] o = "type" -> "subtype"
    [] o = "subtype" -> IF f \in {"assoc", "image"} THEN "flags" ELSE "send"
    [] o = "flags" -> IF f = "image" THEN "number" ELSE "send"
    [] o = "number" -> "data"
    [] o = "data" -> "send"

\* Mutant: the fragment leaves before its bytes are copied.
AfterOp_SendsEarly(f, o) ==
  CASE o = "begin" -> "version"
    [] o = "version" -> "type"
    [] o = "type" -> "subtype"
    [] o = "subtype" -> IF f \in {"assoc", "image"} THEN "flags" ELSE "send"
    [] o = "flags" -> IF f = "image" THEN "number" ELSE "send"
    [] o \in {"number", "data"} -> "send"

\* The order in which the parts of frame f are written.
AfterOp(f, o) ==
  CASE o = "begin" -> "version"
    [] o = "version" -> "type"
    [] o = "type" -> "subtype"
    [] o = "subtype" -> IF f \in {"assoc", "image"} THEN "flags" ELSE "send"
    [] o = "flags" -> IF f = "image" THEN "number" ELSE "send"
    [] o = "number" -> "data"
    [] o = "data" -> "send"

GoOn(t) == op' = [op EXCEPT ![t] = AfterOp(frame[t], @)]

Build(t, f) ==
  /\ frame' = [frame EXCEPT ![t] = f]
  /\ op' = [op EXCEPT ![t] = AfterOp(f, "begin")]

\* EP_SET_VERSION, EP_SET_TYPE or EP_SET_SUBTYPE: the read, ...
ReadHeader(t) ==
  /\ op[t] \in Fields
  /\ reg[t] = None
  /\ reg' = [reg EXCEPT ![t] = buffer.header]
  /\ sent' = None
  /\ UNCHANGED <<state, buffer, frame, op, image>>

\* ... and the write.
WriteHeader(t) ==
  /\ op[t] \in Fields
  /\ reg[t] # None
  /\ buffer' = [buffer EXCEPT !.header =
                  CASE op[t] = "version" -> EP_SET_VERSION(reg[t], 0)
                    [] op[t] = "type"    -> EP_SET_TYPE(reg[t], Type(frame[t]))
                    [] op[t] = "subtype" -> EP_SET_SUBTYPE(reg[t], Subtype(frame[t]))]
  /\ reg' = [reg EXCEPT ![t] = None]
  /\ GoOn(t)
  /\ sent' = None
  /\ UNCHANGED <<state, frame, image>>

is_last_fragment == image.at + 1 = image.count

\* Mutant: the flag is set for the last fragment and never cleared.
Flag_Sticky(t) == IF frame[t] = "image" /\ is_last_fragment THEN 1
                  ELSE IF buffer.flags = None THEN 0 ELSE buffer.flags

Flag(t) == IF frame[t] = "image" /\ is_last_fragment THEN 1 ELSE 0

WriteFlags(t) ==
  /\ op[t] = "flags"
  /\ buffer' = [buffer EXCEPT !.flags = Flag(t)]
  /\ GoOn(t)
  /\ sent' = None
  /\ UNCHANGED <<state, frame, reg, image>>

\* No other task touches this field and the bytes behind it.
WriteNumber ==
  /\ op["camera"] = "number"
  /\ buffer' = [buffer EXCEPT !.number =
                  EP_SET_DATA_FRAGMENT_NO(EP_SET_DATA_TIMESTAMP(@, image.time), image.at)]
  /\ GoOn("camera")
  /\ sent' = None
  /\ UNCHANGED <<state, frame, reg, image>>

CopyData ==
  /\ op["camera"] = "data"
  /\ buffer' = [buffer EXCEPT !.data = image.at]
  /\ GoOn("camera")
  /\ sent' = None
  /\ UNCHANGED <<state, frame, reg, image>>

\* sendto() copies the buffer as it is.
Datagram(t) == [meant |-> frame[t], of |-> image, frame |-> buffer]

-----------------------------------------------------------------------------
(* eyeotine_task: ep_loop(), ep_stop() *)

MainBegins ==
  /\ op["main"] = "idle"
  /\ \/ state = "ASSOCIATING" /\ Build("main", "assoc")
     \/ Connected(state) /\ \E f \in {"ping", "dassoc"} : Build("main", f)
  /\ sent' = None
  /\ UNCHANGED <<state, buffer, reg, image>>

\* ep_stop() sets the state once its frame has been sent.
MainSends ==
  /\ op["main"] = "send"
  /\ sent' = Datagram("main")
  /\ state' = IF frame["main"] = "dassoc" THEN "STOPPED" ELSE state
  /\ op' = [op EXCEPT !["main"] = "idle"]
  /\ frame' = [frame EXCEPT !["main"] = None]
  /\ UNCHANGED <<buffer, reg, image>>

\* What the task receives, or does not receive, changes the state.
Reaches(s) ==
  CASE s = "ASSOCIATING" -> {"WAIT_FOR_SYNC"}
    [] s = "WAIT_FOR_SYNC" -> {"CAMERA_OFF", "CAMERA_ON", "ASSOCIATING", "IDLE"}
    [] s \in {"CAMERA_OFF", "CAMERA_ON"} -> {"CAMERA_OFF", "CAMERA_ON", "ASSOCIATING", "IDLE"}
    [] OTHER -> {}

\* A server answers only a request, so the first one has left by then.
StateChanges ==
  /\ op["main"] = "idle"
  /\ state' \in Reaches(state)
  /\ buffer.flags # None
  /\ sent' = None
  /\ UNCHANGED <<buffer, frame, op, reg, image>>

-----------------------------------------------------------------------------
(* eyeotine_camera_task: ep_send_img() *)

\* ep.state is looked at once for all the fragments.
CameraBegins ==
  /\ op["camera"] = "idle"
  /\ state = "CAMERA_ON"
  /\ \E n \in 1 .. MaxFrag, now \in Timestamps :
       image' = [time |-> now, count |-> n, at |-> 0]
  /\ Build("camera", "image")
  /\ sent' = None
  /\ UNCHANGED <<state, buffer, reg>>

\* The image is at its end, or the socket refused the fragment.
CameraEnds ==
  /\ op' = [op EXCEPT !["camera"] = "idle"]
  /\ frame' = [frame EXCEPT !["camera"] = None]
  /\ image' = [time |-> None, count |-> 0, at |-> 0]

CameraSends ==
  /\ op["camera"] = "send"
  /\ sent' = Datagram("camera")
  /\ \/ /\ ~ is_last_fragment
        /\ image' = [image EXCEPT !.at = @ + 1]
        /\ Build("camera", "image")
     \/ is_last_fragment /\ CameraEnds
  /\ UNCHANGED <<state, buffer, reg>>

CameraIsRefused ==
  /\ op["camera"] = "send"
  /\ CameraEnds
  /\ sent' = None
  /\ UNCHANGED <<state, buffer, reg>>

-----------------------------------------------------------------------------
Next ==
  \/ MainBegins \/ MainSends \/ StateChanges
  \/ CameraBegins \/ WriteNumber \/ CopyData \/ CameraSends \/ CameraIsRefused
  \/ \E t \in Tasks : ReadHeader(t) \/ WriteHeader(t) \/ WriteFlags(t)

Spec == Init /\ [][Next]_vars
-----------------------------------------------------------------------------
(* Properties. *)

IsImage(f) ==
  /\ EP_GET_TYPE(f.header) = EP_TYPE_DATA
  /\ EP_GET_SUBTYPE(f.header) = EP_SUBTYPE_DATA_IMAGE

(***************************************************************************)
(* Whatever the tasks do to each other's header, and whatever malloc()     *)
(* returned, every datagram is of version 0 and its type and subtype are   *)
(* some that a task has written: never a control frame, which would be a   *)
(* command (ep_impl.c:117-119, 434-436).                                   *)
(***************************************************************************)
HeadersAreKnown ==
  sent # None =>
    /\ EP_GET_VERSION(sent.frame.header) = 0
    /\ EP_GET_TYPE(sent.frame.header) \in {EP_TYPE_MGMT, EP_TYPE_DATA}
    /\ EP_GET_SUBTYPE(sent.frame.header) <= EP_SUBTYPE_MGMT_PING

(***************************************************************************)
(* The server reads from each fragment the time of its image and its own   *)
(* number, and finds its bytes behind them, even when the other task has   *)
(* spoilt the header: images are lost by the race, not mixed up            *)
(* (ep_impl.c:440-443; esp_lib.py:235-239).                                *)
(***************************************************************************)
FragmentsAreWhole ==
  sent # None /\ sent.meant = "image" =>
    /\ timestamp(sent.frame.number) = sent.of.time
    /\ fragment_number(sent.frame.number) = sent.of.at
    /\ sent.frame.data = sent.of.at

(***************************************************************************)
(* A fragment that says it is the last one of its image is, though an      *)
(* association request writes the same byte and images of other lengths    *)
(* were sent before (ep_impl.c:121, 438).                                  *)
(***************************************************************************)
LastIsLast ==
  sent # None /\ sent.meant = "image" /\ sent.frame.flags = 1 =>
    sent.of.at + 1 = sent.of.count

(***************************************************************************)
(* ep_send_img "sends the whole buffer in correctly sized fragments to the *)
(* server" (ep.h:165): what the camera task sends reaches the server as    *)
(* image fragments.  It does not when eyeotine_task builds a frame at the  *)
(* same time: see README, Findings.                                        *)
(***************************************************************************)
SentAsMeant == sent # None /\ sent.meant = "image" => IsImage(sent.frame)
=============================================================================
