------------------------------ MODULE EpClient ------------------------------
(***************************************************************************)
(* The client side of the Eyeotine Protocol: the library                   *)
(* src/esp32/ep/ep_impl.c together with the firmware callbacks of          *)
(* src/esp32/main/eyeotine.c that it runs.                                 *)
(*                                                                         *)
(* eyeotine_task loops forever: ep_loop(), then one non-blocking           *)
(* recvfrom() whose datagram goes to ep_recv_udp().  Everything the task   *)
(* does between two of these calls is one step.  The 16-bit millisecond    *)
(* clock wraps; quiet, mute and since_sync are history variables that      *)
(* measure the time that has really passed, which the code cannot see.     *)
(***************************************************************************)
EXTENDS Integers

CONSTANTS
  Devices,        \* the ESP32 boards
  ClockMod,       \* range of milliclk(), a uint16_t: 65536
  SyncMod,        \* range of an image timestamp: 1024
  PingInterval,   \* 1000 ms
  AssocInterval,  \* 5000 ms
  RxTimeout,      \* 5000 ms
  MaxGap,         \* longest time between two calls of ep_loop()
  EP_LOG_LEVEL    \* compile-time verbosity: 3 unless the build says otherwise

(***************************************************************************)
(* The intervals are far enough below the wrap-around of the clock.  With  *)
(* the code's numbers it means that the task is never kept from polling    *)
(* for 5 s, and MaxGap (10 to 100 ms, says ep.h) is far below that.        *)
(***************************************************************************)
ASSUME ClientConstants ==
  /\ ClockMod \in Nat \ {0}
  /\ SyncMod \in Nat \ {0}
  /\ PingInterval \in Nat \ {0}
  /\ AssocInterval \in Nat
  /\ RxTimeout \in Nat \ {0}
  /\ MaxGap \in Nat
  /\ MaxGap < AssocInterval
  /\ PingInterval <= AssocInterval
  /\ 2 * AssocInterval + MaxGap <= ClockMod
  /\ RxTimeout + MaxGap <= ClockMod
  /\ EP_LOG_LEVEL \in Nat

\* The clock wraps at a whole number of sync periods, as 65536 = 64 * 1024.
ASSUME SyncDividesClock == ClockMod % SyncMod = 0

VARIABLES
  state,         \* ep.state
  time_last_tx,  \* ep.time_last_tx
  time_last_rx,  \* ep.time_last_rx
  sync,          \* ep.sync, -1 until the first SYNC
  send_images,   \* the static flag of eyeotine.c
  ota,           \* what became of the OTA task: not created, running, failed
  pc,            \* the call eyeotine_task makes next
  clk,           \* the value milliclk() returns now
  gap,           \* time since the last ep_loop()
  tx,            \* frames handed to send_udp and still on their way
  quiet,         \* history: time since ep.time_last_rx was set, up to ClockMod
  mute,          \* history: time since ep.time_last_tx was set by a
                 \*   transmission, up to ClockMod; ClockMod if there was none
  since_sync     \* history: time since the last SYNC, modulo SyncMod

vars == <<state, time_last_tx, time_last_rx, sync, send_images, ota, pc, clk,
          gap, tx, quiet, mute, since_sync>>

timers == <<clk, gap, quiet, mute, since_sync>>

Time == 0 .. ClockMod - 1

States == {"STOPPED", "IDLE", "ASSOCIATING", "WAIT_FOR_SYNC", "CAMERA_OFF",
           "CAMERA_ON"}

Connected(s) == s \in {"WAIT_FOR_SYNC", "CAMERA_OFF", "CAMERA_ON"}

ClientFrames == {"assoc_req", "dassoc", "ping", "image"}

(***************************************************************************)
(* "noise" is any datagram recv() discards whatever the state: one that is *)
(* too short, of another version, a data frame, an association request, or *)
(* of a type and subtype it does not know.                                 *)
(***************************************************************************)
ServerFrames == {"assoc_resp", "dassoc", "ping", "restart", "sync", "config",
                 "ota", "noise"}

TypeOK ==
  /\ state \in [Devices -> States]
  /\ time_last_tx \in [Devices -> Time]
  /\ time_last_rx \in [Devices -> Time]
  /\ sync \in [Devices -> {-1} \cup (0 .. SyncMod - 1)]
  /\ send_images \in [Devices -> BOOLEAN]
  /\ ota \in [Devices -> {"none", "running", "failed"}]
  /\ pc \in [Devices -> {"loop", "recv"}]
  /\ clk \in [Devices -> Time]
  /\ gap \in [Devices -> 0 .. MaxGap]
  /\ tx \in [Devices -> SUBSET ClientFrames]
  /\ quiet \in [Devices -> 0 .. ClockMod]
  /\ mute \in [Devices -> 0 .. ClockMod]
  /\ since_sync \in [Devices -> 0 .. SyncMod - 1]

-----------------------------------------------------------------------------
(* Arithmetic of uint16_t clock values. *)

Advance(t, k) == IF t + k < ClockMod THEN t + k ELSE t + k - ClockMod

Elapsed(now, then) == IF now >= then THEN now - then ELSE now - then + ClockMod

Saturate(n) == IF n < ClockMod THEN n + 1 ELSE n

-----------------------------------------------------------------------------
(* Effects on ep.state of the calls that change it. *)

EP_SET_STATE(s, new) == new

ep_associate(s) == IF s = "IDLE" THEN "ASSOCIATING" ELSE s

eyeotine_on_disconnect(s) == ep_associate(s)

\* Connection timeout: the state is assigned, then the callback runs.
AfterTimeout(s) == eyeotine_on_disconnect(EP_SET_STATE(s, "IDLE"))

\* Disassociation frame: the callback runs, then the state is assigned.
handle_disassociation(s) == EP_SET_STATE(eyeotine_on_disconnect(s), "IDLE")

\* Mutant: ep_stop leaves the connection as a timeout does.
ep_stop_Reassociates(s) == eyeotine_on_disconnect(EP_SET_STATE(s, "IDLE"))

ep_stop(s) == EP_SET_STATE(eyeotine_on_disconnect(s), "STOPPED")

-----------------------------------------------------------------------------
Init ==
  /\ clk \in [Devices -> Time]
  /\ state = [d \in Devices |-> ep_associate("IDLE")]
  /\ time_last_tx = [d \in Devices |-> Advance(clk[d], AssocInterval)]
  /\ time_last_rx = [d \in Devices |-> Advance(clk[d], AssocInterval)]
  /\ sync = [d \in Devices |-> -1]
  /\ send_images = [d \in Devices |-> FALSE]
  /\ ota = [d \in Devices |-> "none"]
  /\ pc = [d \in Devices |-> "loop"]
  /\ gap = [d \in Devices |-> 0]
  /\ tx = [d \in Devices |-> {}]
  /\ quiet = [d \in Devices |-> ClockMod]
  /\ mute = [d \in Devices |-> ClockMod]
  /\ since_sync = [d \in Devices |-> 0]

(***************************************************************************)
(* Device d starts again: a power cycle, a crash, or esp_restart() after   *)
(* an update.  All of the RAM is lost.  The clock reads anything, for the  *)
(* task starts only once the Wi-Fi connection stands.                      *)
(***************************************************************************)
Reboot(d) ==
  /\ \E now \in Time :
       /\ clk' = [clk EXCEPT ![d] = now]
       /\ time_last_tx' = [time_last_tx EXCEPT ![d] = Advance(now, AssocInterval)]
       /\ time_last_rx' = [time_last_rx EXCEPT ![d] = Advance(now, AssocInterval)]
  /\ state' = [state EXCEPT ![d] = ep_associate("IDLE")]
  /\ sync' = [sync EXCEPT ![d] = -1]
  /\ send_images' = [send_images EXCEPT ![d] = FALSE]
  /\ ota' = [ota EXCEPT ![d] = "none"]
  /\ pc' = [pc EXCEPT ![d] = "loop"]
  /\ gap' = [gap EXCEPT ![d] = 0]
  /\ quiet' = [quiet EXCEPT ![d] = ClockMod]
  /\ mute' = [mute EXCEPT ![d] = ClockMod]
  /\ since_sync' = [since_sync EXCEPT ![d] = 0]
  /\ UNCHANGED tx

-----------------------------------------------------------------------------
(* Transmission by eyeotine_task.  What sendto() refuses, for its socket   *)
(* does not block, counts as sent and is lost like any other datagram.     *)

Transmit(d, f) ==
  /\ tx' = [tx EXCEPT ![d] = @ \cup {f}]
  /\ time_last_tx' = [time_last_tx EXCEPT ![d] = clk[d]]
  /\ mute' = [mute EXCEPT ![d] = 0]

TransmitNothing == UNCHANGED <<tx, time_last_tx, mute>>

-----------------------------------------------------------------------------
(* ep_loop() *)

AssocDue(d) == Elapsed(clk[d], time_last_tx[d]) >= AssocInterval

\* Mutant: the reception time is taken for the transmission time.
PingDue_WrongTimer(d) == Elapsed(clk[d], time_last_rx[d]) >= PingInterval

PingDue(d) == Elapsed(clk[d], time_last_tx[d]) >= PingInterval

\* Mutant: the difference is not cut back to 16 bits (a dropped cast).
TimedOut_NoCast(d) == clk[d] - time_last_rx[d] >= RxTimeout

\* Mutant: the transmission time is taken for the reception time.
TimedOut_WrongTimer(d) == Elapsed(clk[d], time_last_tx[d]) >= RxTimeout

TimedOut(d) == Elapsed(clk[d], time_last_rx[d]) >= RxTimeout

LoopAssociating(d) ==
  /\ state[d] = "ASSOCIATING"
  /\ IF AssocDue(d) THEN Transmit(d, "assoc_req") ELSE TransmitNothing
  /\ UNCHANGED state

LoopConnected(d) ==
  /\ Connected(state[d])
  /\ IF PingDue(d) THEN Transmit(d, "ping") ELSE TransmitNothing
  /\ state' = IF TimedOut(d) THEN [state EXCEPT ![d] = AfterTimeout(@)]
              ELSE state

LoopInactive(d) ==
  /\ state[d] \in {"IDLE", "STOPPED"}
  /\ TransmitNothing
  /\ UNCHANGED state

ep_loop(d) ==
  /\ pc[d] = "loop"
  /\ \/ LoopAssociating(d)
     \/ LoopConnected(d)
     \/ LoopInactive(d)
  /\ pc' = [pc EXCEPT ![d] = "recv"]
  /\ gap' = [gap EXCEPT ![d] = 0]
  /\ UNCHANGED <<time_last_rx, sync, send_images, ota, clk, quiet, since_sync>>

-----------------------------------------------------------------------------
(* recv(): one action per frame it accepts; they leave ep.time_last_rx to  *)
(* ep_recv_udp.  The call of on_recv_ota stands in an #if of the log       *)
(* level; without it an OTA frame is of an unknown type.                   *)

Accepts(s, f) ==
  \/ s = "ASSOCIATING" /\ f = "assoc_resp"
  \/ Connected(s) /\ f \in {"dassoc", "ping", "restart", "sync", "config"}
  \/ Connected(s) /\ f = "ota" /\ EP_LOG_LEVEL >= 3

RecvAssoc(d) ==
  /\ state' = [state EXCEPT ![d] = "WAIT_FOR_SYNC"]
  /\ TransmitNothing
  /\ UNCHANGED <<sync, send_images, ota, since_sync>>

RecvDassoc(d) ==
  /\ state' = [state EXCEPT ![d] = handle_disassociation(@)]
  /\ TransmitNothing
  /\ UNCHANGED <<sync, send_images, ota, since_sync>>

\* Only the time of reception counts; no callback is set for restart frames.
RecvKeepAlive(d) ==
  /\ TransmitNothing
  /\ UNCHANGED <<state, sync, send_images, ota, since_sync>>

\* Mutant: the time of the previous frame stands for that of the SYNC.
perform_sync_Stale(d) == sync' = [sync EXCEPT ![d] = time_last_rx[d] % SyncMod]

\* Mutant: the time is not reduced to a timestamp.
perform_sync_Unreduced(d) == sync' = [sync EXCEPT ![d] = clk[d]]

perform_sync(d) == sync' = [sync EXCEPT ![d] = clk[d] % SyncMod]

RecvSync(d) ==
  /\ perform_sync(d)
  /\ since_sync' = [since_sync EXCEPT ![d] = 0]
  /\ state' = [state EXCEPT ![d] = IF @ = "WAIT_FOR_SYNC" THEN "CAMERA_OFF" ELSE @]
  /\ TransmitNothing
  /\ UNCHANGED <<send_images, ota>>

\* eyeotine_on_config toggles send_images, whatever the frame carries.
eyeotine_on_config(d) == send_images' = [send_images EXCEPT ![d] = ~ @]

\* Mutant: the callback answers with the flag as it was.
RecvConfig_OldFlag(d) ==
  /\ eyeotine_on_config(d)
  /\ state' = [state EXCEPT ![d] = IF send_images[d] THEN "CAMERA_ON" ELSE "CAMERA_OFF"]
  /\ TransmitNothing
  /\ UNCHANGED <<sync, ota, since_sync>>

RecvConfig(d) ==
  /\ eyeotine_on_config(d)
  /\ state' = [state EXCEPT ![d] = IF send_images'[d] THEN "CAMERA_ON" ELSE "CAMERA_OFF"]
  /\ TransmitNothing
  /\ UNCHANGED <<sync, ota, since_sync>>

\* start_ota() stops the protocol and creates ota_task.
RecvOta(d) ==
  /\ Transmit(d, "dassoc")
  /\ state' = [state EXCEPT ![d] = ep_stop(@)]
  /\ ota' = [ota EXCEPT ![d] = "running"]
  /\ UNCHANGED <<sync, send_images, since_sync>>

\* Mutant: the association response does not count as received.
MarkReceived_NotAssoc(d) ==
  /\ time_last_rx' = IF state[d] = "ASSOCIATING" THEN time_last_rx
                     ELSE [time_last_rx EXCEPT ![d] = clk[d]]
  /\ quiet' = [quiet EXCEPT ![d] = 0]

\* recv() returned true.
MarkReceived(d) ==
  /\ time_last_rx' = [time_last_rx EXCEPT ![d] = clk[d]]
  /\ quiet' = [quiet EXCEPT ![d] = 0]

ep_recv_udp(d, f) ==
  /\ pc[d] = "recv"
  /\ Accepts(state[d], f)
  /\ \/ f = "assoc_resp" /\ RecvAssoc(d)
     \/ f = "dassoc" /\ RecvDassoc(d)
     \/ f \in {"ping", "restart"} /\ RecvKeepAlive(d)
     \/ f = "sync" /\ RecvSync(d)
     \/ f = "config" /\ RecvConfig(d)
     \/ f = "ota" /\ RecvOta(d)
  /\ MarkReceived(d)
  /\ pc' = [pc EXCEPT ![d] = "loop"]
  /\ UNCHANGED <<clk, gap>>

\* A datagram that recv() rejects changes nothing.
Discard(d, f) ==
  /\ pc[d] = "recv"
  /\ ~ Accepts(state[d], f)
  /\ pc' = [pc EXCEPT ![d] = "loop"]
  /\ UNCHANGED <<state, time_last_tx, time_last_rx, sync, send_images, ota, tx>>
  /\ UNCHANGED timers

\* recvfrom() has nothing (EWOULDBLOCK); the task sleeps for 30 ms.
NothingReceived(d) ==
  /\ pc[d] = "recv"
  /\ pc' = [pc EXCEPT ![d] = "loop"]
  /\ UNCHANGED <<state, time_last_tx, time_last_rx, sync, send_images, ota, tx>>
  /\ UNCHANGED timers

Receive(d) ==
  \/ NothingReceived(d)
  \/ \E f \in ServerFrames : ep_recv_udp(d, f) \/ Discard(d, f)

-----------------------------------------------------------------------------
(* The other tasks of the device, and the passage of time. *)

\* ep_send_img's timestamp: (ep.milliclk() + 1024 - ep.sync) % 1024.
Timestamp(d) == (clk[d] + SyncMod - sync[d]) % SyncMod

\* eyeotine_camera_task sends one image; ep_send_img refuses in other states
\* and leaves ep.time_last_tx alone.
SendImage(d) ==
  /\ send_images[d]
  /\ state[d] = "CAMERA_ON"
  /\ tx' = [tx EXCEPT ![d] = @ \cup {"image"}]
  /\ UNCHANGED <<state, time_last_tx, time_last_rx, sync, send_images, ota, pc>>
  /\ UNCHANGED timers

\* ota_task: the update is installed and the board restarts.
OtaInstalled(d) == ota[d] = "running" /\ Reboot(d)

\* ota_task: no update to be had.  The task sleeps forever.
OtaFailed(d) ==
  /\ ota[d] = "running"
  /\ ota' = [ota EXCEPT ![d] = "failed"]
  /\ UNCHANGED <<state, time_last_tx, time_last_rx, sync, send_images, pc, tx>>
  /\ UNCHANGED timers

\* The network delivers, or loses, a frame.
NetworkTakes(d) ==
  /\ \E f \in tx[d] : tx' = [tx EXCEPT ![d] = @ \ {f}]
  /\ UNCHANGED <<state, time_last_tx, time_last_rx, sync, send_images, ota, pc>>
  /\ UNCHANGED timers

Tick ==
  /\ \A d \in Devices : gap[d] < MaxGap
  /\ clk' = [d \in Devices |-> Advance(clk[d], 1)]
  /\ gap' = [d \in Devices |-> gap[d] + 1]
  /\ quiet' = [d \in Devices |-> Saturate(quiet[d])]
  /\ mute' = [d \in Devices |-> Saturate(mute[d])]
  /\ since_sync' = [d \in Devices |-> (since_sync[d] + 1) % SyncMod]
  /\ UNCHANGED <<state, time_last_tx, time_last_rx, sync, send_images, ota, pc, tx>>

-----------------------------------------------------------------------------
Next ==
  \/ Tick
  \/ \E d \in Devices :
       \/ ep_loop(d)
       \/ Receive(d)
       \/ SendImage(d)
       \/ OtaInstalled(d)
       \/ OtaFailed(d)
       \/ NetworkTakes(d)
       \/ Reboot(d)

Spec == Init /\ [][Next]_vars

(***************************************************************************)
(* eyeotine_task is an infinite loop of calls that return, and the         *)
(* highest-priority task of the board; time does not stop.                 *)
(***************************************************************************)
FairSpec ==
  /\ Spec
  /\ WF_vars(Tick)
  /\ \A d \in Devices : WF_vars(ep_loop(d)) /\ WF_vars(Receive(d))
-----------------------------------------------------------------------------
(* Properties. *)

Polls(d) == pc[d] = "loop" /\ pc'[d] = "recv"

(***************************************************************************)
(* A connection is never kept once no frame was accepted for RxTimeout and *)
(* ep_loop() has run: the test on 16-bit times sees every silence, across  *)
(* the wrap-around of the clock (ep_impl.c:144).                           *)
(***************************************************************************)
SilenceIsNoticed ==
  \A d \in Devices : Connected(state[d]) => quiet[d] < RxTimeout + gap[d]

(***************************************************************************)
(* ep_loop() gives a connection up only when no frame was accepted for     *)
(* RxTimeout of real time: no wrap-around, no value left by an earlier     *)
(* connection or by ep_init() ever looks like a silence (ep_impl.c:144).   *)
(***************************************************************************)
TimeoutIsGenuine ==
  [][\A d \in Devices :
       Polls(d) /\ Connected(state[d]) /\ ~ Connected(state'[d])
         => quiet[d] >= RxTimeout]_vars

(***************************************************************************)
(* After each ep_loop(), a device that seeks a server has sent something   *)
(* less than AssocInterval ago, and a connected one less than PingInterval *)
(* ago, measured in real time; the first call after a start sends at once, *)
(* for ep_init() puts ep.time_last_tx ahead of the clock (ep_impl.c:50,    *)
(* 110, 128).                                                              *)
(***************************************************************************)
PollKeepsTalking ==
  [][\A d \in Devices : Polls(d) =>
       /\ state[d] = "ASSOCIATING" => mute'[d] < AssocInterval
       /\ Connected(state[d]) => mute'[d] < PingInterval]_vars

(***************************************************************************)
(* Once a SYNC was received, the timestamp ep_send_img computes is the     *)
(* real time since the last SYNC modulo SyncMod, whatever the clock did in *)
(* between (ep_impl.c:193, 427).                                           *)
(***************************************************************************)
TimestampIsTimeSinceSync ==
  \A d \in Devices : sync[d] # -1 => Timestamp(d) = since_sync[d]

(***************************************************************************)
(* ep_send_img works only if the library is in CAMERA_ON, and is called    *)
(* only if the firmware's own flag is set: the first implies the second,   *)
(* across every disconnect, reconnect, SYNC and restart, so a device that  *)
(* says CAMERA_ON does send (eyeotine.c:117, 345; ep_impl.c:371).          *)
(***************************************************************************)
CameraOnMeansSending ==
  \A d \in Devices : state[d] = "CAMERA_ON" => send_images[d]

(***************************************************************************)
(* From the OTA frame to the restart, and forever if the update fails,     *)
(* eyeotine_task neither seeks a server nor pings one: the disconnect      *)
(* callback that ep_stop() runs must not bring the session back            *)
(* (eyeotine.c:124, ep_impl.c:92-99).                                      *)
(***************************************************************************)
NoSessionDuringUpdate ==
  [][\A d \in Devices : ota[d] # "none" /\ ota'[d] # "none" =>
       (tx'[d] \ tx[d]) \cap {"assoc_req", "ping"} = {}]_vars

(***************************************************************************)
(* A device does not stay connected forever to a server that has fallen    *)
(* silent (ep_impl.c:143-152).                                             *)
(***************************************************************************)
ConnectionNeverHangs ==
  \A d \in Devices : []<>(quiet[d] = 0) \/ []<>(~ Connected(state[d]))

(***************************************************************************)
(* "Idle describes the state in which the client is trying to connect to a *)
(* server" (docs/eyeotine-protocol.md:53).  The code splits that state in  *)
(* IDLE and ASSOCIATING; only the second one sends requests, so a device   *)
(* in IDLE has to reach it.  It does not: see README, Findings.            *)
(***************************************************************************)
IdleTriesToConnect ==
  \A d \in Devices : state[d] = "IDLE" ~> state[d] # "IDLE"
=============================================================================
