---------------------------- MODULE ClientSession ----------------------------
(***************************************************************************)
(* What a server and the board's firmware may rely on from the client of   *)
(* src/esp32/ep/ep_impl.c: the protocol with ideal timers.  There is no    *)
(* clock here that wraps and no time stamp to be compared with it; quiet   *)
(* and mute simply are the times that have passed.  EpClient implements    *)
(* this specification (EpClientRefinement), EpSystem composes it with the  *)
(* server's.                                                               *)
(***************************************************************************)
EXTENDS Integers

CONSTANTS Devices, PingInterval, AssocInterval, RxTimeout, MaxGap

VARIABLES
  state,        \* of the client
  send_images,  \* the flag of the firmware
  ota,          \* what became of the OTA task: none, running, failed
  tx,           \* frames on their way to the server
  quiet,        \* time since a frame was accepted, up to RxTimeout
  mute,         \* time since a request, a ping or a farewell, up to AssocInterval
  gap           \* time since the client was last polled

clientVars == <<state, send_images, ota, tx, quiet, mute, gap>>

Connected(s) == s \in {"WAIT_FOR_SYNC", "CAMERA_OFF", "CAMERA_ON"}

ClientFrames == {"assoc_req", "dassoc", "ping", "image"}

ServerFrames == {"assoc_resp", "dassoc", "ping", "restart", "sync", "config", "ota"}

TypeOK ==
  /\ state \in [Devices -> {"STOPPED", "IDLE", "ASSOCIATING", "WAIT_FOR_SYNC",
                            "CAMERA_OFF", "CAMERA_ON"}]
  /\ send_images \in [Devices -> BOOLEAN]
  /\ ota \in [Devices -> {"none", "running", "failed"}]
  /\ tx \in [Devices -> SUBSET ClientFrames]
  /\ quiet \in [Devices -> 0 .. RxTimeout]
  /\ mute \in [Devices -> 0 .. AssocInterval]
  /\ gap \in [Devices -> 0 .. MaxGap]

Init ==
  /\ state = [d \in Devices |-> "ASSOCIATING"]
  /\ send_images = [d \in Devices |-> FALSE]
  /\ ota = [d \in Devices |-> "none"]
  /\ tx = [d \in Devices |-> {}]
  /\ quiet = [d \in Devices |-> RxTimeout]
  /\ mute = [d \in Devices |-> AssocInterval]
  /\ gap = [d \in Devices |-> 0]

-----------------------------------------------------------------------------
Say(d, f) ==
  /\ tx' = [tx EXCEPT ![d] = @ \cup {f}]
  /\ mute' = [mute EXCEPT ![d] = 0]

SayNothing == UNCHANGED <<tx, mute>>

\* What has to be said, if anything.
Due(d) ==
  IF state[d] = "ASSOCIATING" /\ mute[d] >= AssocInterval THEN {"assoc_req"}
  ELSE IF Connected(state[d]) /\ mute[d] >= PingInterval THEN {"ping"}
  ELSE {}

Poll(d) ==
  /\ IF Due(d) = {} THEN SayNothing ELSE \E f \in Due(d) : Say(d, f)
  /\ state' = IF Connected(state[d]) /\ quiet[d] >= RxTimeout
              THEN [state EXCEPT ![d] = "ASSOCIATING"] ELSE state
  /\ gap' = [gap EXCEPT ![d] = 0]
  /\ UNCHANGED <<send_images, ota, quiet>>

Understands(s, f) == IF s = "ASSOCIATING" THEN f = "assoc_resp"
                     ELSE Connected(s) /\ f # "assoc_resp"

\* The state after frame f, camera being the new value of the flag.
After(s, f, camera) ==
  CASE f = "assoc_resp" -> "WAIT_FOR_SYNC"
    [] f = "sync" /\ s = "WAIT_FOR_SYNC" -> "CAMERA_OFF"
    [] f = "config" -> IF camera THEN "CAMERA_ON" ELSE "CAMERA_OFF"
    [] f = "dassoc" -> "IDLE"
    [] f = "ota" -> "STOPPED"
    [] OTHER -> s

\* Mutant: a disconnected device forgets the operator's command.
Hear_ForgetsCamera(d, f) ==
  /\ Understands(state[d], f)
  /\ send_images' = [send_images EXCEPT ![d] = IF f = "config" THEN ~ @
                                               ELSE @ /\ f # "assoc_resp"]
  /\ state' = [state EXCEPT ![d] = After(@, f, send_images'[d])]
  /\ ota' = IF f = "ota" THEN [ota EXCEPT ![d] = "running"] ELSE ota
  /\ IF f = "ota" THEN Say(d, "dassoc") ELSE SayNothing
  /\ quiet' = [quiet EXCEPT ![d] = 0]
  /\ UNCHANGED gap

\* A frame is received and understood.  An update begins with a farewell.
Hear(d, f) ==
  /\ Understands(state[d], f)
  /\ send_images' = IF f = "config" THEN [send_images EXCEPT ![d] = ~ @] ELSE send_images
  /\ state' = [state EXCEPT ![d] = After(@, f, send_images'[d])]
  /\ ota' = IF f = "ota" THEN [ota EXCEPT ![d] = "running"] ELSE ota
  /\ IF f = "ota" THEN Say(d, "dassoc") ELSE SayNothing
  /\ quiet' = [quiet EXCEPT ![d] = 0]
  /\ UNCHANGED gap

Film(d) ==
  /\ send_images[d] /\ state[d] = "CAMERA_ON"
  /\ tx' = [tx EXCEPT ![d] = @ \cup {"image"}]
  /\ UNCHANGED <<state, send_images, ota, quiet, mute, gap>>

\* A crash, a power cycle, or the end of an update.
Restart(d) ==
  /\ state' = [state EXCEPT ![d] = "ASSOCIATING"]
  /\ send_images' = [send_images EXCEPT ![d] = FALSE]
  /\ ota' = [ota EXCEPT ![d] = "none"]
  /\ quiet' = [quiet EXCEPT ![d] = RxTimeout]
  /\ mute' = [mute EXCEPT ![d] = AssocInterval]
  /\ gap' = [gap EXCEPT ![d] = 0]
  /\ UNCHANGED tx

UpdateFails(d) ==
  /\ ota[d] = "running"
  /\ ota' = [ota EXCEPT ![d] = "failed"]
  /\ UNCHANGED <<state, send_images, tx, quiet, mute, gap>>

\* The frame is delivered, or lost.
Leaves(d, f) ==
  /\ f \in tx[d]
  /\ tx' = [tx EXCEPT ![d] = @ \ {f}]
  /\ UNCHANGED <<state, send_images, ota, quiet, mute, gap>>

Older(n, limit) == IF n < limit THEN n + 1 ELSE n

Tick ==
  /\ \A d \in Devices : gap[d] < MaxGap
  /\ gap' = [d \in Devices |-> gap[d] + 1]
  /\ quiet' = [d \in Devices |-> Older(quiet[d], RxTimeout)]
  /\ mute' = [d \in Devices |-> Older(mute[d], AssocInterval)]
  /\ UNCHANGED <<state, send_images, ota, tx>>

Next ==
  \/ Tick
  \/ \E d \in Devices :
       \/ Poll(d) \/ Film(d) \/ Restart(d) \/ UpdateFails(d)
       \/ \E f \in ServerFrames : Hear(d, f)
       \/ \E f \in ClientFrames : Leaves(d, f)

Spec == Init /\ [][Next]_clientVars
=============================================================================
