--------------------------- MODULE EpClientProofs ---------------------------
(***************************************************************************)
(* Theorems about EpClient, for every set of devices and all values of the *)
(* intervals that satisfy ClientConstants.                                 *)
(***************************************************************************)
EXTENDS EpClientRefinement, ModularArithmetic

-----------------------------------------------------------------------------
(* The 16-bit clock. *)

\* Advancing a clock value yields a clock value.
LEMMA AdvanceType ==
  ASSUME NEW t \in Time, NEW k \in 0 .. ClockMod
  PROVE  Advance(t, k) \in Time
  BY ClientConstants, SMT DEF Advance, Time

\* A difference of clock values is a clock value.
LEMMA ElapsedType ==
  ASSUME NEW t \in Time, NEW u \in Time
  PROVE  Elapsed(t, u) \in Time
  BY ClientConstants, SMT DEF Elapsed, Time

\* One tick lengthens every interval that is about to become visible by one.
LEMMA ElapsedTick ==
  ASSUME NEW t \in Time, NEW u \in Time, Elapsed(t, u) + 1 < ClockMod
  PROVE  Elapsed(Advance(t, 1), u) = Elapsed(t, u) + 1
  BY ClientConstants, SMT DEF Elapsed, Advance, Time

\* No time has passed since now.
LEMMA ElapsedZero ==
  ASSUME NEW t \in Time
  PROVE  Elapsed(t, t) = 0
  BY SMT DEF Elapsed, Time

\* A time stamp AssocInterval ahead of the clock looks long past.
LEMMA ElapsedAhead ==
  ASSUME NEW t \in Time
  PROVE  Elapsed(t, Advance(t, AssocInterval)) = (ClockMod - AssocInterval)
  BY ClientConstants, SMT DEF Elapsed, Advance, Time

\* Saturation stays in range.
LEMMA SaturateType ==
  ASSUME NEW n \in 0 .. ClockMod
  PROVE  Saturate(n) \in 0 .. ClockMod
  BY ClientConstants, SMT DEF Saturate

-----------------------------------------------------------------------------
(* Type correctness. *)

\* The values assigned to ep.state are states.
LEMMA StateTypes ==
  ASSUME NEW s \in States
  PROVE  /\ ep_associate(s) \in States
         /\ AfterTimeout(s) = "ASSOCIATING"
         /\ handle_disassociation(s) = "IDLE"
         /\ ep_stop(s) = "STOPPED"
  BY DEF ep_associate, AfterTimeout, handle_disassociation, ep_stop, States,
         eyeotine_on_disconnect, EP_SET_STATE

\* A reception changes the device's variables within their types.
LEMMA RecvType ==
  ASSUME TypeOK, NEW d \in Devices, NEW f \in ServerFrames, ep_recv_udp(d, f)
  PROVE  TypeOK'
<1>1. /\ time_last_rx' \in [Devices -> Time]
      /\ quiet' \in [Devices -> 0 .. ClockMod]
      /\ pc' \in [Devices -> {"loop", "recv"}]
      /\ clk' \in [Devices -> Time]
      /\ gap' \in [Devices -> 0 .. MaxGap]
  BY ClientConstants DEF TypeOK, ep_recv_udp, MarkReceived
<1>2. CASE RecvAssoc(d)
  BY <1>1, <1>2 DEF TypeOK, RecvAssoc, TransmitNothing, States
<1>3. CASE RecvDassoc(d)
  BY <1>1, <1>3, StateTypes DEF TypeOK, RecvDassoc, TransmitNothing, States
<1>4. CASE RecvKeepAlive(d)
  BY <1>1, <1>4 DEF TypeOK, RecvKeepAlive, TransmitNothing
<1>5. CASE RecvSync(d)
  <2>1. clk[d] % SyncMod \in 0 .. SyncMod - 1 /\ 0 \in 0 .. SyncMod - 1
    <3>1. clk[d] \in Int
      BY DEF TypeOK, Time
    <3>2. clk[d] % SyncMod \in 0 .. SyncMod - 1
      BY <3>1, ClientConstants, DivisionExists
    <3>3. 0 \in 0 .. SyncMod - 1
      BY ClientConstants
    <3>. QED
      BY <3>2, <3>3
  <2>2. sync' \in [Devices -> {-1} \cup (0 .. SyncMod - 1)]
    BY <1>5, <2>1 DEF TypeOK, RecvSync, perform_sync
  <2>3. since_sync' \in [Devices -> 0 .. SyncMod - 1]
    BY <1>5, <2>1 DEF TypeOK, RecvSync
  <2>4. state' \in [Devices -> States]
    BY <1>5 DEF TypeOK, RecvSync, States
  <2>. QED
    BY <1>1, <1>5, <2>2, <2>3, <2>4 DEF TypeOK, RecvSync, TransmitNothing
<1>6. CASE RecvConfig(d)
  <2>1. send_images' \in [Devices -> BOOLEAN]
    BY <1>6 DEF TypeOK, RecvConfig, eyeotine_on_config
  <2>2. state' \in [Devices -> States]
    BY <1>6 DEF TypeOK, RecvConfig, States
  <2>. QED
    BY <1>1, <1>6, <2>1, <2>2 DEF TypeOK, RecvConfig, TransmitNothing
<1>7. CASE RecvOta(d)
  <2>1. state' \in [Devices -> States]
    BY <1>7, StateTypes DEF TypeOK, RecvOta, States
  <2>2. tx' \in [Devices -> SUBSET ClientFrames]
    BY <1>7 DEF TypeOK, RecvOta, Transmit, ClientFrames
  <2>3. mute' \in [Devices -> 0 .. ClockMod] /\ time_last_tx' \in [Devices -> Time]
    BY <1>7, ClientConstants DEF TypeOK, RecvOta, Transmit
  <2>4. ota' \in [Devices -> {"none", "running", "failed"}]
    BY <1>7 DEF TypeOK, RecvOta
  <2>. QED
    BY <1>1, <1>7, <2>1, <2>2, <2>3, <2>4 DEF TypeOK, RecvOta
<1>. QED
  BY <1>2, <1>3, <1>4, <1>5, <1>6, <1>7 DEF ep_recv_udp

\* One pass of ep_loop() changes the device's variables within their types.
LEMMA LoopType ==
  ASSUME TypeOK, NEW d \in Devices, ep_loop(d)
  PROVE  TypeOK'
<1>1. /\ pc' \in [Devices -> {"loop", "recv"}]
      /\ gap' \in [Devices -> 0 .. MaxGap]
  BY ClientConstants DEF TypeOK, ep_loop
<1>2. state' \in [Devices -> States]
  BY StateTypes DEF TypeOK, ep_loop, LoopAssociating, LoopConnected, LoopInactive, States
<1>3. /\ tx' \in [Devices -> SUBSET ClientFrames]
      /\ mute' \in [Devices -> 0 .. ClockMod]
      /\ time_last_tx' \in [Devices -> Time]
  <2>1. CASE TransmitNothing
    BY <2>1 DEF TypeOK, TransmitNothing
  <2>2. CASE Transmit(d, "assoc_req")
    BY <2>2, ClientConstants DEF TypeOK, Transmit, ClientFrames
  <2>3. CASE Transmit(d, "ping")
    BY <2>3, ClientConstants DEF TypeOK, Transmit, ClientFrames
  <2>. QED
    BY <2>1, <2>2, <2>3 DEF ep_loop, LoopAssociating, LoopConnected, LoopInactive
<1>. QED
  BY <1>1, <1>2, <1>3 DEF TypeOK, ep_loop

\* A start leaves the device's variables within their types.
LEMMA RebootType ==
  ASSUME TypeOK, NEW d \in Devices, Reboot(d)
  PROVE  TypeOK'
<1>1. /\ time_last_tx' \in [Devices -> Time]
      /\ time_last_rx' \in [Devices -> Time]
      /\ clk' \in [Devices -> Time]
  BY AdvanceType, ClientConstants DEF TypeOK, Reboot
<1>2. since_sync' \in [Devices -> 0 .. SyncMod - 1] /\ gap' \in [Devices -> 0 .. MaxGap]
  BY ClientConstants DEF TypeOK, Reboot
<1>3. quiet' \in [Devices -> 0 .. ClockMod] /\ mute' \in [Devices -> 0 .. ClockMod]
  BY ClientConstants DEF TypeOK, Reboot
<1>4. state' \in [Devices -> States]
  BY DEF TypeOK, Reboot, States, ep_associate
<1>. QED
  BY <1>1, <1>2, <1>3, <1>4 DEF TypeOK, Reboot

\* The passage of time changes the clocks within their types.
LEMMA TickType ==
  ASSUME TypeOK, Tick
  PROVE  TypeOK'
<1>1. clk' \in [Devices -> Time]
  BY AdvanceType, ClientConstants DEF TypeOK, Tick
<1>2. gap' \in [Devices -> 0 .. MaxGap]
  BY ClientConstants DEF TypeOK, Tick
<1>3. quiet' \in [Devices -> 0 .. ClockMod] /\ mute' \in [Devices -> 0 .. ClockMod]
  BY SaturateType DEF TypeOK, Tick
<1>4. since_sync' \in [Devices -> 0 .. SyncMod - 1]
  <2>1. \A d \in Devices : since_sync[d] + 1 \in Int
    BY ClientConstants DEF TypeOK
  <2>. QED
    BY <2>1, DivisionExists, ClientConstants DEF TypeOK, Tick
<1>. QED
  BY <1>1, <1>2, <1>3, <1>4 DEF TypeOK, Tick

\* Every variable keeps its type in every reachable state.
THEOREM TypeCorrect == Spec => []TypeOK
<1>1. Init => TypeOK
  <2> SUFFICES ASSUME Init PROVE TypeOK
    OBVIOUS
  <2>1. time_last_tx \in [Devices -> Time] /\ time_last_rx \in [Devices -> Time]
    BY AdvanceType, ClientConstants DEF Init
  <2>2. gap \in [Devices -> 0 .. MaxGap] /\ since_sync \in [Devices -> 0 .. SyncMod - 1]
    BY ClientConstants DEF Init
  <2>3. quiet \in [Devices -> 0 .. ClockMod] /\ mute \in [Devices -> 0 .. ClockMod]
    BY ClientConstants DEF Init
  <2>. QED
    BY <2>1, <2>2, <2>3 DEF Init, TypeOK, States, ep_associate
<1>2. TypeOK /\ [Next]_vars => TypeOK'
  <2> SUFFICES ASSUME TypeOK, [Next]_vars PROVE TypeOK'
    OBVIOUS
  <2>1. CASE Tick
    BY <2>1, TickType
  <2>2. ASSUME NEW d \in Devices, ep_loop(d) PROVE TypeOK'
    BY <2>2, LoopType
  <2>3. ASSUME NEW d \in Devices, NEW f \in ServerFrames, ep_recv_udp(d, f)
        PROVE  TypeOK'
    BY <2>3, RecvType
  <2>4. ASSUME NEW d \in Devices, NEW f \in ServerFrames, Discard(d, f)
        PROVE  TypeOK'
    BY <2>4 DEF Discard, TypeOK, timers
  <2>5. ASSUME NEW d \in Devices, NothingReceived(d) PROVE TypeOK'
    BY <2>5 DEF NothingReceived, TypeOK, timers
  <2>6. ASSUME NEW d \in Devices, SendImage(d) PROVE TypeOK'
    BY <2>6 DEF SendImage, TypeOK, timers, ClientFrames
  <2>7. ASSUME NEW d \in Devices, OtaFailed(d) PROVE TypeOK'
    BY <2>7 DEF OtaFailed, TypeOK, timers
  <2>8. ASSUME NEW d \in Devices, NetworkTakes(d) PROVE TypeOK'
    BY <2>8 DEF NetworkTakes, TypeOK, timers
  <2>9. ASSUME NEW d \in Devices, Reboot(d) PROVE TypeOK'
    BY <2>9, RebootType
  <2>10. CASE UNCHANGED vars
    BY <2>10 DEF vars, TypeOK
  <2>. QED
    BY <2>1, <2>2, <2>3, <2>4, <2>5, <2>6, <2>7, <2>8, <2>9, <2>10
    DEF Next, Receive, OtaInstalled
<1>. QED
  BY <1>1, <1>2, PTL DEF Spec

-----------------------------------------------------------------------------
(* The inductive invariant.  What ep_loop() reads off the 16-bit clock is  *)
(* the time that has really passed, because a session always ends, or is   *)
(* spoken in, before a difference of clock values can wrap.                *)

\* The age of ep.time_last_rx is right while connected, and below the limit.
Listening(d) ==
  Connected(state[d]) =>
    /\ quiet[d] = Elapsed(clk[d], time_last_rx[d])
    /\ quiet[d] < RxTimeout + gap[d]

\* The age of ep.time_last_tx is right, or ep_loop() has not run yet.
Speaking(d) ==
  state[d] = "ASSOCIATING" \/ Connected(state[d]) =>
    \/ /\ mute[d] = Elapsed(clk[d], time_last_tx[d])
       /\ mute[d] < AssocInterval + gap[d]
    \/ /\ state[d] = "ASSOCIATING"
       /\ pc[d] = "loop"
       /\ mute[d] = ClockMod
       /\ Elapsed(clk[d], time_last_tx[d]) = (ClockMod - AssocInterval) + gap[d]

\* Once the OTA task exists, the library is stopped.
Updating(d) == ota[d] # "none" => state[d] = "STOPPED"

\* What holds of the device when it is in CAMERA_ON.
Filming(d) == state[d] = "CAMERA_ON" => send_images[d]

ClientInv ==
  /\ TypeOK
  /\ \A d \in Devices : Listening(d) /\ Speaking(d) /\ Updating(d) /\ Filming(d)

\* The invariant speaks of one device at a time: what leaves the variables it
\* mentions alone preserves it.
LEMMA Frame ==
  ASSUME ClientInv, NEW e \in Devices,
         state'[e] = state[e], time_last_tx'[e] = time_last_tx[e],
         time_last_rx'[e] = time_last_rx[e], clk'[e] = clk[e],
         gap'[e] = gap[e], quiet'[e] = quiet[e], mute'[e] = mute[e],
         ota'[e] = ota[e], pc'[e] = pc[e], send_images'[e] = send_images[e]
  PROVE  Listening(e)' /\ Speaking(e)' /\ Updating(e)' /\ Filming(e)'
  BY DEF ClientInv, Listening, Speaking, Updating, Filming, Elapsed

\* The parts of the invariant after one pass of ep_loop().
LEMMA LoopInv ==
  ASSUME ClientInv, NEW d \in Devices, ep_loop(d), NEW e \in Devices
  PROVE  Listening(e)' /\ Speaking(e)' /\ Updating(e)' /\ Filming(e)'
<1>1. CASE e # d
  <2>1. /\ state'[e] = state[e]
        /\ time_last_tx'[e] = time_last_tx[e]
        /\ mute'[e] = mute[e]
        /\ pc'[e] = pc[e]
        /\ gap'[e] = gap[e]
    BY <1>1 DEF ClientInv, TypeOK, ep_loop, LoopAssociating, LoopConnected,
                LoopInactive, Transmit, TransmitNothing
  <2>. QED
    BY <2>1, Frame DEF ep_loop
<1>2. CASE e = d
  <2>1. /\ gap'[d] = 0 /\ clk'[d] = clk[d] /\ quiet'[d] = quiet[d]
        /\ time_last_rx'[d] = time_last_rx[d] /\ ota'[d] = ota[d]
        /\ send_images'[d] = send_images[d]
    BY DEF ep_loop, ClientInv, TypeOK
  <2>2. CASE LoopInactive(d)
    <3>1. state'[d] \in {"IDLE", "STOPPED"} /\ state'[d] = state[d]
      BY <2>2 DEF LoopInactive
    <3>. QED
      BY <1>2, <2>1, <3>1
      DEF ClientInv, Listening, Speaking, Updating, Filming, Connected
  <2>3. CASE LoopAssociating(d)
    <3>1. state'[d] = "ASSOCIATING" /\ state[d] = "ASSOCIATING"
      BY <2>3 DEF LoopAssociating
    <3>2. CASE AssocDue(d)
      <4>1. time_last_tx'[d] = clk[d] /\ mute'[d] = 0
        BY <2>3, <3>2 DEF LoopAssociating, Transmit, ClientInv, TypeOK
      <4>2. Elapsed(clk[d], clk[d]) = 0 /\ AssocInterval > 0
        BY ElapsedZero, ClientConstants DEF ClientInv, TypeOK
      <4>3. Elapsed(clk[d], time_last_tx[d])' = 0
        BY <2>1, <4>1, <4>2 DEF Elapsed
      <4>. QED
        BY <1>2, <2>1, <3>1, <4>1, <4>2, <4>3, ClientConstants
        DEF ClientInv, Listening, Speaking, Updating, Filming, Connected
    <3>3. CASE ~ AssocDue(d)
      <4>1. time_last_tx'[d] = time_last_tx[d] /\ mute'[d] = mute[d]
        BY <2>3, <3>3 DEF LoopAssociating, TransmitNothing
      <4>2. Elapsed(clk[d], time_last_tx[d]) < AssocInterval
        BY <3>3, ElapsedType, ClientConstants DEF AssocDue, ClientInv, TypeOK, Time
      <4>3. mute[d] = Elapsed(clk[d], time_last_tx[d])
        BY <3>1, <4>2, ClientConstants DEF ClientInv, TypeOK, Speaking
      <4>4. Elapsed(clk[d], time_last_tx[d])' = Elapsed(clk[d], time_last_tx[d])
        BY <2>1, <4>1 DEF Elapsed
      <4>. QED
        BY <1>2, <2>1, <3>1, <4>1, <4>2, <4>3, <4>4, ClientConstants
        DEF ClientInv, Listening, Speaking, Updating, Filming, Connected
    <3>. QED
      BY <3>2, <3>3
  <2>4. CASE LoopConnected(d)
    <3>1. Connected(state[d]) /\ state[d] # "STOPPED" /\ state[d] # "ASSOCIATING"
      BY <2>4 DEF LoopConnected, Connected
    <3>2. state'[d] = IF TimedOut(d) THEN "ASSOCIATING" ELSE state[d]
      BY <2>4, StateTypes DEF LoopConnected, ClientInv, TypeOK
    <3>3. Listening(d)'
      <4>1. CASE TimedOut(d)
        BY <3>2, <4>1 DEF Listening, Connected
      <4>2. CASE ~ TimedOut(d)
        <5>1. Elapsed(clk[d], time_last_rx[d]) < RxTimeout
          BY <4>2, ElapsedType, ClientConstants DEF TimedOut, ClientInv, TypeOK, Time
        <5>2. Elapsed(clk[d], time_last_rx[d])' = Elapsed(clk[d], time_last_rx[d])
          BY <2>1 DEF Elapsed
        <5>3. quiet[d] = Elapsed(clk[d], time_last_rx[d])
          BY <3>1 DEF ClientInv, Listening
        <5>. QED
          BY <2>1, <5>1, <5>2, <5>3, ClientConstants DEF Listening
      <4>. QED
        BY <4>1, <4>2
    <3>4. Speaking(d)'
      <4>1. CASE PingDue(d)
        <5>1. time_last_tx'[d] = clk[d] /\ mute'[d] = 0
          BY <2>4, <4>1 DEF LoopConnected, Transmit, ClientInv, TypeOK
        <5>2. Elapsed(clk[d], clk[d]) = 0 /\ AssocInterval > 0
          BY ElapsedZero, ClientConstants DEF ClientInv, TypeOK
        <5>3. Elapsed(clk[d], time_last_tx[d])' = 0
          BY <2>1, <5>1, <5>2 DEF Elapsed
        <5>. QED
          BY <2>1, <5>1, <5>2, <5>3, ClientConstants DEF Speaking
      <4>2. CASE ~ PingDue(d)
        <5>1. time_last_tx'[d] = time_last_tx[d] /\ mute'[d] = mute[d]
          BY <2>4, <4>2 DEF LoopConnected, TransmitNothing
        <5>2. Elapsed(clk[d], time_last_tx[d]) < PingInterval
          BY <4>2, ElapsedType, ClientConstants DEF PingDue, ClientInv, TypeOK, Time
        <5>3. mute[d] = Elapsed(clk[d], time_last_tx[d])
          BY <3>1 DEF ClientInv, Speaking
        <5>4. Elapsed(clk[d], time_last_tx[d])' = Elapsed(clk[d], time_last_tx[d])
          BY <2>1, <5>1 DEF Elapsed
        <5>5. mute[d] \in Int
          BY ClientConstants DEF ClientInv, TypeOK
        <5>. QED
          BY <2>1, <5>1, <5>2, <5>3, <5>4, <5>5, ClientConstants DEF Speaking
      <4>. QED
        BY <4>1, <4>2
    <3>5. Updating(d)' /\ Filming(d)'
      BY <2>1, <3>1, <3>2 DEF ClientInv, Updating, Filming
    <3>. QED
      BY <1>2, <3>3, <3>4, <3>5
  <2>. QED
    BY <2>2, <2>3, <2>4 DEF ep_loop
<1>. QED
  BY <1>1, <1>2

\* The parts of the invariant after an accepted frame.
LEMMA RecvInv ==
  ASSUME ClientInv, NEW d \in Devices, NEW f \in ServerFrames, ep_recv_udp(d, f),
         NEW e \in Devices
  PROVE  Listening(e)' /\ Speaking(e)' /\ Updating(e)' /\ Filming(e)'
<1>1. CASE e # d
  <2>1. /\ state'[e] = state[e] /\ sync'[e] = sync[e]
        /\ send_images'[e] = send_images[e] /\ ota'[e] = ota[e]
        /\ time_last_tx'[e] = time_last_tx[e] /\ mute'[e] = mute[e]
    BY <1>1 DEF ClientInv, TypeOK, ep_recv_udp, RecvAssoc, RecvDassoc, RecvKeepAlive,
                RecvSync, perform_sync, RecvConfig, eyeotine_on_config, RecvOta,
                Transmit, TransmitNothing
  <2>2. time_last_rx'[e] = time_last_rx[e] /\ quiet'[e] = quiet[e]
    BY <1>1 DEF ClientInv, TypeOK, ep_recv_udp, MarkReceived
  <2>3. pc'[e] = pc[e] /\ clk'[e] = clk[e] /\ gap'[e] = gap[e]
    BY <1>1 DEF ClientInv, TypeOK, ep_recv_udp
  <2>. QED
    BY <2>1, <2>2, <2>3, Frame
<1>2. CASE e = d
  <2>1. /\ time_last_rx'[d] = clk[d] /\ quiet'[d] = 0
        /\ clk'[d] = clk[d] /\ gap'[d] = gap[d] /\ pc[d] = "recv"
    BY DEF ClientInv, TypeOK, ep_recv_udp, MarkReceived
  <2>2. Elapsed(clk[d], clk[d]) = 0
    BY ElapsedZero DEF ClientInv, TypeOK
  <2>3. Elapsed(clk[d], time_last_rx[d])' = 0
    BY <2>1, <2>2 DEF Elapsed
  <2>4. Listening(d)'
    BY <2>1, <2>3, ClientConstants DEF Listening, ClientInv, TypeOK
  <2>5. Accepts(state[d], f)
    BY DEF ep_recv_udp
  <2>6. CASE RecvOta(d)
    <3>1. state'[d] = "STOPPED"
      BY <2>6, StateTypes DEF RecvOta, ClientInv, TypeOK
    <3>. QED
      BY <1>2, <2>4, <3>1 DEF Speaking, Updating, Filming, Connected
  <2>7. CASE ~ RecvOta(d)
    <3>1. /\ time_last_tx'[d] = time_last_tx[d] /\ mute'[d] = mute[d]
          /\ ota'[d] = ota[d]
      BY <2>7 DEF ep_recv_udp, RecvAssoc, RecvDassoc, RecvKeepAlive, RecvSync,
                  RecvConfig, TransmitNothing
    <3>2. state[d] = "ASSOCIATING" \/ Connected(state[d])
      BY <2>5 DEF Accepts
    <3>3. /\ mute[d] = Elapsed(clk[d], time_last_tx[d])
          /\ mute[d] < AssocInterval + gap[d]
      BY <2>1, <3>2 DEF ClientInv, Speaking
    <3>4. Elapsed(clk[d], time_last_tx[d])' = Elapsed(clk[d], time_last_tx[d])
      BY <2>1, <3>1 DEF Elapsed
    <3>5. Speaking(d)'
      BY <2>1, <3>1, <3>3, <3>4 DEF Speaking
    <3>6. Updating(d)'
      BY <3>1, <3>2 DEF ClientInv, Updating, Connected
    <3>7. Filming(d)'
      <4>1. CASE RecvConfig(d)
        BY <4>1 DEF RecvConfig, Filming, ClientInv, TypeOK
      <4>2. CASE ~ RecvConfig(d)
        <5>1. send_images'[d] = send_images[d]
          BY <2>7, <4>2 DEF ep_recv_udp, RecvAssoc, RecvDassoc, RecvKeepAlive, RecvSync
        <5>2. state'[d] = "CAMERA_ON" => state[d] = "CAMERA_ON"
          BY <2>7, <4>2, StateTypes
          DEF ep_recv_udp, RecvAssoc, RecvDassoc, RecvKeepAlive, RecvSync,
              ClientInv, TypeOK
        <5>. QED
          BY <5>1, <5>2 DEF ClientInv, Filming
      <4>. QED
        BY <4>1, <4>2
    <3>. QED
      BY <1>2, <2>4, <3>5, <3>6, <3>7
  <2>. QED
    BY <2>6, <2>7
<1>. QED
  BY <1>1, <1>2

\* The parts of the invariant after a start.
LEMMA RebootInv ==
  ASSUME ClientInv, NEW d \in Devices, Reboot(d), NEW e \in Devices
  PROVE  Listening(e)' /\ Speaking(e)' /\ Updating(e)' /\ Filming(e)'
<1>1. CASE e # d
  <2>1. /\ state'[e] = state[e] /\ time_last_tx'[e] = time_last_tx[e]
        /\ time_last_rx'[e] = time_last_rx[e] /\ clk'[e] = clk[e]
        /\ gap'[e] = gap[e] /\ quiet'[e] = quiet[e] /\ mute'[e] = mute[e]
        /\ ota'[e] = ota[e] /\ pc'[e] = pc[e] /\ send_images'[e] = send_images[e]
    BY <1>1 DEF ClientInv, TypeOK, Reboot
  <2>. QED
    BY <2>1, Frame
<1>2. CASE e = d
  <2>1. PICK now \in Time : /\ clk'[d] = now
                            /\ time_last_tx'[d] = Advance(now, AssocInterval)
    BY DEF Reboot, ClientInv, TypeOK
  <2>2. state'[d] = "ASSOCIATING" /\ ota'[d] = "none"
    BY DEF Reboot, ClientInv, TypeOK, ep_associate
  <2>3. pc'[d] = "loop" /\ mute'[d] = ClockMod /\ gap'[d] = 0
    BY DEF Reboot, ClientInv, TypeOK
  <2>4. Elapsed(now, Advance(now, AssocInterval)) = (ClockMod - AssocInterval)
    BY ElapsedAhead
  <2>5. Elapsed(clk[d], time_last_tx[d])' = (ClockMod - AssocInterval) + gap'[d]
    BY <2>1, <2>3, <2>4, ClientConstants DEF Elapsed
  <2>6. Speaking(d)'
    BY <2>2, <2>3, <2>5 DEF Speaking
  <2>. QED
    BY <1>2, <2>2, <2>6 DEF Listening, Updating, Filming, Connected
<1>. QED
  BY <1>1, <1>2

\* The parts of the invariant after a tick.
LEMMA TickInv ==
  ASSUME ClientInv, Tick, NEW e \in Devices
  PROVE  Listening(e)' /\ Speaking(e)' /\ Updating(e)' /\ Filming(e)'
<1>1. /\ state'[e] = state[e] /\ ota'[e] = ota[e] /\ send_images'[e] = send_images[e]
      /\ pc'[e] = pc[e]
      /\ time_last_tx'[e] = time_last_tx[e] /\ time_last_rx'[e] = time_last_rx[e]
      /\ clk'[e] = Advance(clk[e], 1) /\ gap'[e] = gap[e] + 1
      /\ quiet'[e] = Saturate(quiet[e]) /\ mute'[e] = Saturate(mute[e])
  BY DEF Tick
<1>2. /\ gap[e] \in 0 .. MaxGap /\ gap[e] < MaxGap
      /\ quiet[e] \in 0 .. ClockMod /\ mute[e] \in 0 .. ClockMod
      /\ clk[e] \in Time /\ time_last_rx[e] \in Time /\ time_last_tx[e] \in Time
  BY DEF ClientInv, TypeOK, Tick
<1>3. Listening(e)'
  <2>1. SUFFICES ASSUME Connected(state[e])
                 PROVE  /\ quiet'[e] = Elapsed(clk'[e], time_last_rx'[e])
                        /\ quiet'[e] < RxTimeout + gap'[e]
    BY <1>1 DEF Listening, Elapsed
  <2>2. quiet[e] = Elapsed(clk[e], time_last_rx[e]) /\ quiet[e] < RxTimeout + gap[e]
    BY <2>1 DEF ClientInv, Listening
  <2>3. quiet[e] + 1 < ClockMod
    BY <1>2, <2>2, ClientConstants
  <2>4. Elapsed(Advance(clk[e], 1), time_last_rx[e]) = quiet[e] + 1
    BY <1>2, <2>2, <2>3, ElapsedTick
  <2>5. Saturate(quiet[e]) = quiet[e] + 1
    BY <1>2, <2>3, ClientConstants DEF Saturate
  <2>. QED
    BY <1>1, <1>2, <2>2, <2>4, <2>5, ClientConstants
<1>4. Speaking(e)'
  <2>1. SUFFICES ASSUME state[e] = "ASSOCIATING" \/ Connected(state[e])
                 PROVE  Speaking(e)'
    BY <1>1 DEF Speaking
  <2>2. CASE /\ mute[e] = Elapsed(clk[e], time_last_tx[e])
             /\ mute[e] < AssocInterval + gap[e]
    <3>1. mute[e] + 1 < ClockMod
      BY <1>2, <2>2, ClientConstants
    <3>2. Elapsed(Advance(clk[e], 1), time_last_tx[e]) = mute[e] + 1
      BY <1>2, <2>2, <3>1, ElapsedTick
    <3>3. Saturate(mute[e]) = mute[e] + 1
      BY <1>2, <3>1, ClientConstants DEF Saturate
    <3>4. Elapsed(clk[e], time_last_tx[e])' = mute'[e]
      BY <1>1, <3>2, <3>3 DEF Elapsed
    <3>5. mute'[e] < AssocInterval + gap'[e]
      BY <1>1, <1>2, <2>2, <3>3, ClientConstants
    <3>. QED
      BY <3>4, <3>5 DEF Speaking
  <2>3. CASE /\ state[e] = "ASSOCIATING" /\ pc[e] = "loop" /\ mute[e] = ClockMod
             /\ Elapsed(clk[e], time_last_tx[e]) = (ClockMod - AssocInterval) + gap[e]
    <3>1. Elapsed(clk[e], time_last_tx[e]) + 1 < ClockMod
      BY <1>2, <2>3, ClientConstants
    <3>2. Elapsed(Advance(clk[e], 1), time_last_tx[e])
            = (ClockMod - AssocInterval) + gap[e] + 1
      BY <1>2, <2>3, <3>1, ElapsedTick
    <3>3. Elapsed(clk[e], time_last_tx[e])' = (ClockMod - AssocInterval) + gap'[e]
      BY <1>1, <1>2, <3>2, ClientConstants DEF Elapsed
    <3>4. mute'[e] = ClockMod
      BY <1>1, <2>3, ClientConstants DEF Saturate
    <3>. QED
      BY <1>1, <2>3, <3>3, <3>4 DEF Speaking
  <2>. QED
    BY <2>1, <2>2, <2>3 DEF ClientInv, Speaking
<1>5. Updating(e)' /\ Filming(e)'
  BY <1>1 DEF ClientInv, Updating, Filming
<1>. QED
  BY <1>3, <1>4, <1>5

\* The parts of the invariant after a step that disturbs none of them: the
\* variables it may change are ota, from running to failed, and tx.
LEMMA OtherInv ==
  ASSUME ClientInv, NEW d \in Devices, NEW e \in Devices,
         \/ \E f \in ServerFrames : Discard(d, f)
         \/ NothingReceived(d)
         \/ SendImage(d)
         \/ OtaFailed(d)
         \/ NetworkTakes(d)
  PROVE  Listening(e)' /\ Speaking(e)' /\ Updating(e)' /\ Filming(e)'
<1>1. /\ state'[e] = state[e] /\ time_last_tx'[e] = time_last_tx[e]
      /\ time_last_rx'[e] = time_last_rx[e] /\ send_images'[e] = send_images[e]
      /\ clk'[e] = clk[e] /\ gap'[e] = gap[e] /\ quiet'[e] = quiet[e]
      /\ mute'[e] = mute[e]
  BY DEF Discard, NothingReceived, SendImage, OtaFailed, NetworkTakes, timers
<1>2. ota'[e] = ota[e] \/ ota[e] # "none"
  BY DEF Discard, NothingReceived, SendImage, OtaFailed, NetworkTakes,
         ClientInv, TypeOK
<1>3. Listening(e)' /\ Updating(e)' /\ Filming(e)'
  BY <1>1, <1>2 DEF ClientInv, Listening, Updating, Filming, Elapsed
<1>4. Elapsed(clk[e], time_last_tx[e])' = Elapsed(clk[e], time_last_tx[e])
  BY <1>1 DEF Elapsed
<1>5. pc'[e] = pc[e] \/ pc[e] = "recv"
  BY DEF Discard, NothingReceived, SendImage, OtaFailed, NetworkTakes,
         ClientInv, TypeOK
<1>6. Speaking(e)'
  BY <1>1, <1>4, <1>5 DEF ClientInv, Speaking
<1>. QED
  BY <1>3, <1>6

\* Every device starts in a state that satisfies the invariant.
LEMMA InitInv ==
  ASSUME Init, TypeOK
  PROVE  ClientInv
<1> SUFFICES ASSUME NEW d \in Devices
             PROVE  Listening(d) /\ Speaking(d) /\ Updating(d) /\ Filming(d)
  BY DEF ClientInv
<1>1. state[d] = "ASSOCIATING" /\ ota[d] = "none" /\ pc[d] = "loop"
  BY DEF Init, ep_associate
<1>2. mute[d] = ClockMod /\ gap[d] = 0 /\ clk[d] \in Time
  BY DEF Init, TypeOK
<1>3. Elapsed(clk[d], time_last_tx[d]) = (ClockMod - AssocInterval)
  BY <1>2, ElapsedAhead DEF Init
<1>4. Elapsed(clk[d], time_last_tx[d]) = (ClockMod - AssocInterval) + gap[d]
  BY <1>2, <1>3, ClientConstants
<1>. QED
  BY <1>1, <1>2, <1>4 DEF Listening, Speaking, Updating, Filming, Connected

\* No step leaves the invariant.
LEMMA NextInv ==
  ASSUME ClientInv, TypeOK', [Next]_vars
  PROVE  ClientInv'
<1> SUFFICES ASSUME NEW e \in Devices
             PROVE  Listening(e)' /\ Speaking(e)' /\ Updating(e)' /\ Filming(e)'
  BY DEF ClientInv
<1>1. CASE Tick
  BY <1>1, TickInv
<1>2. ASSUME NEW d \in Devices, ep_loop(d)
      PROVE  Listening(e)' /\ Speaking(e)' /\ Updating(e)' /\ Filming(e)'
  BY <1>2, LoopInv
<1>3. ASSUME NEW d \in Devices, NEW f \in ServerFrames, ep_recv_udp(d, f)
      PROVE  Listening(e)' /\ Speaking(e)' /\ Updating(e)' /\ Filming(e)'
  BY <1>3, RecvInv
<1>4. ASSUME NEW d \in Devices,
             \/ \E f \in ServerFrames : Discard(d, f)
             \/ NothingReceived(d)
             \/ SendImage(d)
             \/ OtaFailed(d)
             \/ NetworkTakes(d)
      PROVE  Listening(e)' /\ Speaking(e)' /\ Updating(e)' /\ Filming(e)'
  BY <1>4, OtherInv
<1>5. ASSUME NEW d \in Devices, Reboot(d)
      PROVE  Listening(e)' /\ Speaking(e)' /\ Updating(e)' /\ Filming(e)'
  BY <1>5, RebootInv
<1>6. CASE UNCHANGED vars
  BY <1>6, Frame DEF vars
<1>. QED
  BY <1>1, <1>2, <1>3, <1>4, <1>5, <1>6 DEF Next, Receive, OtaInstalled

\* The inductive invariant holds of every behaviour.
THEOREM ClientInvariant == Spec => []ClientInv
<1>1. Init /\ TypeOK => ClientInv
  BY InitInv
<1>2. ClientInv /\ TypeOK' /\ [Next]_vars => ClientInv'
  BY NextInv
<1>. QED
  BY <1>1, <1>2, TypeCorrect, PTL DEF Spec

-----------------------------------------------------------------------------
(* What follows from the invariant. *)

\* No connection outlives RxTimeout of silence once ep_loop() has run, for
\* every clock that wraps late enough (ep_impl.c:144).
THEOREM SilenceNoticed == Spec => []SilenceIsNoticed
<1>1. ClientInv => SilenceIsNoticed
  BY DEF ClientInv, Listening, SilenceIsNoticed
<1>. QED
  BY <1>1, ClientInvariant, PTL

\* A device in CAMERA_ON is one whose send_images flag is set (eyeotine.c:345).
THEOREM CameraOnSends == Spec => []CameraOnMeansSending
<1>1. ClientInv => CameraOnMeansSending
  BY DEF ClientInv, Filming, CameraOnMeansSending
<1>. QED
  BY <1>1, ClientInvariant, PTL

\* Only ep_loop() takes a device from "loop" to "recv".
LEMMA PollIsLoop ==
  ASSUME TypeOK, [Next]_vars, NEW d \in Devices, Polls(d)
  PROVE  ep_loop(d)
<1>1. ASSUME NEW e \in Devices, ep_loop(e), e # d PROVE pc'[d] = pc[d]
  BY <1>1 DEF ep_loop, TypeOK
<1>2. ASSUME NEW e \in Devices, Receive(e) PROVE pc'[d] # "recv" \/ pc'[d] = pc[d]
  BY <1>2 DEF Receive, ep_recv_udp, Discard, NothingReceived, TypeOK
<1>3. ASSUME NEW e \in Devices,
             Reboot(e) \/ SendImage(e) \/ OtaFailed(e) \/ NetworkTakes(e)
      PROVE  pc'[d] # "recv" \/ pc'[d] = pc[d]
  BY <1>3 DEF Reboot, SendImage, OtaFailed, NetworkTakes, TypeOK
<1>4. CASE Tick
  BY <1>4 DEF Tick, Polls
<1>5. CASE UNCHANGED vars
  BY <1>5 DEF vars, Polls
<1>. QED
  BY <1>1, <1>2, <1>3, <1>4, <1>5 DEF Next, OtaInstalled, Polls

\* ep_loop() never gives up a connection over which a frame was accepted less
\* than RxTimeout ago (ep_impl.c:144).
THEOREM TimeoutGenuine == Spec => TimeoutIsGenuine
<1>1. ASSUME ClientInv, [Next]_vars, NEW d \in Devices,
             Polls(d), Connected(state[d]), ~ Connected(state'[d])
      PROVE  quiet[d] >= RxTimeout
  <2>1. LoopConnected(d)
    BY <1>1, PollIsLoop
    DEF ClientInv, ep_loop, LoopAssociating, LoopInactive, Connected
  <2>2. TimedOut(d)
    BY <1>1, <2>1 DEF LoopConnected
  <2>. QED
    BY <1>1, <2>2 DEF ClientInv, Listening, TimedOut
<1>2. ClientInv /\ [Next]_vars =>
        [\A d \in Devices :
           Polls(d) /\ Connected(state[d]) /\ ~ Connected(state'[d])
             => quiet[d] >= RxTimeout]_vars
  BY <1>1
<1>. QED
  BY <1>2, ClientInvariant, PTL DEF Spec, TimeoutIsGenuine

\* Every ep_loop() leaves a device that seeks a server, or has one, with a
\* transmission that is recent in real time (ep_impl.c:110, 128).
THEOREM KeepsTalking == Spec => PollKeepsTalking
<1>1. ASSUME ClientInv, [Next]_vars, NEW d \in Devices, Polls(d)
      PROVE  /\ state[d] = "ASSOCIATING" => mute'[d] < AssocInterval
             /\ Connected(state[d]) => mute'[d] < PingInterval
  <2>1. ep_loop(d)
    BY <1>1, PollIsLoop DEF ClientInv
  <2>2. CASE state[d] = "ASSOCIATING"
    <3>1. LoopAssociating(d)
      BY <2>1, <2>2 DEF ep_loop, LoopConnected, LoopInactive, Connected
    <3>2. CASE AssocDue(d)
      BY <1>1, <2>2, <3>1, <3>2, ClientConstants
      DEF LoopAssociating, Transmit, ClientInv, TypeOK, Connected
    <3>3. CASE ~ AssocDue(d)
      <4>1. mute'[d] = mute[d]
        BY <3>1, <3>3 DEF LoopAssociating, TransmitNothing
      <4>2. Elapsed(clk[d], time_last_tx[d]) < AssocInterval
        BY <1>1, <3>3, ElapsedType, ClientConstants
        DEF AssocDue, ClientInv, TypeOK, Time
      <4>3. gap[d] \in Nat
        BY <1>1, ClientConstants DEF ClientInv, TypeOK
      <4>4. mute[d] = Elapsed(clk[d], time_last_tx[d])
        BY <1>1, <2>2, <4>2, <4>3, ClientConstants DEF ClientInv, Speaking
      <4>. QED
        BY <2>2, <4>1, <4>2, <4>4 DEF Connected
    <3>. QED
      BY <3>2, <3>3
  <2>3. CASE Connected(state[d])
    <3>1. LoopConnected(d) /\ state[d] # "ASSOCIATING"
      BY <2>1, <2>3 DEF ep_loop, LoopAssociating, LoopInactive, Connected
    <3>2. CASE PingDue(d)
      BY <1>1, <3>1, <3>2, ClientConstants
      DEF LoopConnected, Transmit, ClientInv, TypeOK
    <3>3. CASE ~ PingDue(d)
      <4>1. mute'[d] = mute[d]
        BY <3>1, <3>3 DEF LoopConnected, TransmitNothing
      <4>2. Elapsed(clk[d], time_last_tx[d]) < PingInterval
        BY <1>1, <3>3, ElapsedType, ClientConstants
        DEF PingDue, ClientInv, TypeOK, Time
      <4>3. mute[d] = Elapsed(clk[d], time_last_tx[d])
        BY <1>1, <2>3, <3>1 DEF ClientInv, Speaking
      <4>. QED
        BY <3>1, <4>1, <4>2, <4>3
    <3>. QED
      BY <3>2, <3>3
  <2>. QED
    BY <2>2, <2>3
<1>2. ClientInv /\ [Next]_vars =>
        [\A d \in Devices : Polls(d) =>
           /\ state[d] = "ASSOCIATING" => mute'[d] < AssocInterval
           /\ Connected(state[d]) => mute'[d] < PingInterval]_vars
  BY <1>1
<1>. QED
  BY <1>2, ClientInvariant, PTL DEF Spec, PollKeepsTalking

\* From the OTA frame to the restart the library sends neither an association
\* request nor a ping (eyeotine.c:124, ep_impl.c:92-99).
THEOREM UpdateIsSilent == Spec => NoSessionDuringUpdate
<1>1. ASSUME ClientInv, [Next]_vars, NEW d \in Devices,
             ota[d] # "none", ota'[d] # "none"
      PROVE  (tx'[d] \ tx[d]) \cap {"assoc_req", "ping"} = {}
  <2>1. state[d] = "STOPPED" /\ tx \in [Devices -> SUBSET ClientFrames]
    BY <1>1 DEF ClientInv, TypeOK, Updating
  <2>2. ASSUME NEW e \in Devices, ep_loop(e) PROVE tx'[d] = tx[d]
    <3>1. CASE e = d
      BY <2>1, <2>2, <3>1
      DEF ep_loop, LoopAssociating, LoopConnected, LoopInactive, Connected,
          TransmitNothing
    <3>2. CASE e # d
      BY <2>1, <2>2, <3>2
      DEF ep_loop, LoopAssociating, LoopConnected, LoopInactive, Transmit,
          TransmitNothing
    <3>. QED
      BY <3>1, <3>2
  <2>3. ASSUME NEW e \in Devices, NEW f \in ServerFrames, ep_recv_udp(e, f)
        PROVE  tx'[d] = tx[d]
    <3>1. e # d
      BY <2>1, <2>3 DEF ep_recv_udp, Accepts, Connected
    <3>. QED
      BY <2>1, <2>3, <3>1
      DEF ep_recv_udp, RecvAssoc, RecvDassoc, RecvKeepAlive, RecvSync,
          RecvConfig, RecvOta, Transmit, TransmitNothing
  <2>4. ASSUME NEW e \in Devices, SendImage(e)
        PROVE  tx'[d] \subseteq tx[d] \cup {"image"}
    BY <2>1, <2>4 DEF SendImage
  <2>5. ASSUME NEW e \in Devices, NetworkTakes(e) PROVE tx'[d] \subseteq tx[d]
    BY <2>1, <2>5 DEF NetworkTakes
  <2>6. ASSUME NEW e \in Devices,
               \/ \E f \in ServerFrames : Discard(e, f)
               \/ NothingReceived(e)
               \/ OtaFailed(e)
               \/ Reboot(e)
        PROVE  tx'[d] = tx[d]
    BY <2>6 DEF Discard, NothingReceived, OtaFailed, Reboot
  <2>7. CASE Tick \/ UNCHANGED vars
    BY <2>7 DEF Tick, vars
  <2>. QED
    BY <1>1, <2>2, <2>3, <2>4, <2>5, <2>6, <2>7 DEF Next, Receive, OtaInstalled
<1>2. ClientInv /\ [Next]_vars =>
        [\A d \in Devices : ota[d] # "none" /\ ota'[d] # "none" =>
           (tx'[d] \ tx[d]) \cap {"assoc_req", "ping"} = {}]_vars
  BY <1>1
<1>. QED
  BY <1>2, ClientInvariant, PTL DEF Spec, NoSessionDuringUpdate

-----------------------------------------------------------------------------
(* Image timestamps. *)

\* The clock and the reference differ by the time since the SYNC, modulo SyncMod.
Aligned(d) == sync[d] # -1 => (clk[d] - sync[d]) % SyncMod = since_sync[d]

\* A tick, with or without a wrap-around of the clock, keeps them aligned.
LEMMA AlignedTick ==
  ASSUME TypeOK, Tick, NEW d \in Devices, Aligned(d)
  PROVE  Aligned(d)'
<1>1. /\ clk'[d] = Advance(clk[d], 1) /\ sync'[d] = sync[d]
      /\ since_sync'[d] = (since_sync[d] + 1) % SyncMod
  BY DEF Tick
<1>2. SUFFICES ASSUME sync[d] # -1
               PROVE  (Advance(clk[d], 1) - sync[d]) % SyncMod
                        = (since_sync[d] + 1) % SyncMod
  BY <1>1 DEF Aligned
<1>3. clk[d] \in Int /\ sync[d] \in Int /\ clk[d] - sync[d] \in Int
  BY DEF TypeOK, Time
<1>4. ((clk[d] - sync[d]) + 1) % SyncMod = (since_sync[d] + 1) % SyncMod
  BY <1>2, <1>3, ModSuccessor, ClientConstants DEF Aligned
<1>5. PICK k \in Int : ClockMod = k * SyncMod
  <2>1. ClockMod \in Int
    BY ClientConstants
  <2>2. PICK k \in Int : ClockMod = k * SyncMod + (ClockMod % SyncMod)
    BY <2>1, ClientConstants, DivisionExists
  <2>3. k * SyncMod \in Int
    BY ClientConstants
  <2>. QED
    BY <2>2, <2>3, SyncDividesClock
<1>6. CASE clk[d] + 1 < ClockMod
  <2>1. Advance(clk[d], 1) - sync[d] = (clk[d] - sync[d]) + 1
    BY <1>3, <1>6 DEF Advance
  <2>. QED
    BY <1>4, <2>1
<1>7. CASE ~ (clk[d] + 1 < ClockMod)
  <2>1. Advance(clk[d], 1) - sync[d] = ((clk[d] - sync[d]) + 1) - ClockMod
    BY <1>3, <1>7, ClientConstants DEF Advance
  <2>2. /\ ((clk[d] - sync[d]) + 1) - ClockMod
             = ((clk[d] - sync[d]) + 1) + (-k) * SyncMod
        /\ (clk[d] - sync[d]) + 1 \in Int /\ -k \in Int
    BY <1>3, <1>5, ClientConstants
  <2>3. (((clk[d] - sync[d]) + 1) + (-k) * SyncMod) % SyncMod
          = ((clk[d] - sync[d]) + 1) % SyncMod
    BY <2>2, ModAddMultiple, ClientConstants
  <2>. QED
    BY <1>4, <2>1, <2>2, <2>3
<1>. QED
  BY <1>6, <1>7

\* An accepted frame keeps them aligned; a SYNC aligns them.
LEMMA AlignedRecv ==
  ASSUME TypeOK, NEW e \in Devices, NEW f \in ServerFrames, ep_recv_udp(e, f),
         NEW d \in Devices, Aligned(d)
  PROVE  Aligned(d)'
<1>1. clk'[d] = clk[d]
  BY DEF ep_recv_udp
<1>2. CASE RecvSync(e) /\ e = d
  <2>1. sync'[d] = clk[d] % SyncMod /\ since_sync'[d] = 0
    BY <1>2 DEF RecvSync, perform_sync, TypeOK
  <2>2. clk[d] \in Int
    BY DEF TypeOK, Time
  <2>3. (clk[d] - (clk[d] % SyncMod)) % SyncMod = 0
    BY <2>2, ModOfDifference, ClientConstants
  <2>. QED
    BY <1>1, <2>1, <2>3 DEF Aligned
<1>3. CASE ~ (RecvSync(e) /\ e = d)
  <2>1. sync'[d] = sync[d] /\ since_sync'[d] = since_sync[d]
    BY <1>3 DEF ep_recv_udp, RecvAssoc, RecvDassoc, RecvKeepAlive, RecvSync,
                perform_sync, RecvConfig, RecvOta, TypeOK
  <2>. QED
    BY <1>1, <2>1 DEF Aligned
<1>. QED
  BY <1>2, <1>3

\* Every other step leaves the device's reference alone or forgets it.
LEMMA AlignedNext ==
  ASSUME TypeOK, [Next]_vars, NEW d \in Devices, Aligned(d)
  PROVE  Aligned(d)'
<1>1. CASE Tick
  BY <1>1, AlignedTick
<1>2. ASSUME NEW e \in Devices, NEW f \in ServerFrames, ep_recv_udp(e, f)
      PROVE  Aligned(d)'
  BY <1>2, AlignedRecv
<1>3. ASSUME NEW e \in Devices, Reboot(e) PROVE Aligned(d)'
  <2>1. CASE e = d
    BY <1>3, <2>1 DEF Reboot, TypeOK, Aligned
  <2>2. CASE e # d
    BY <1>3, <2>2 DEF Reboot, TypeOK, Aligned
  <2>. QED
    BY <2>1, <2>2
<1>4. ASSUME NEW e \in Devices,
             \/ ep_loop(e)
             \/ \E f \in ServerFrames : Discard(e, f)
             \/ NothingReceived(e)
             \/ SendImage(e)
             \/ OtaFailed(e)
             \/ NetworkTakes(e)
      PROVE  Aligned(d)'
  BY <1>4 DEF ep_loop, Discard, NothingReceived, SendImage, OtaFailed,
              NetworkTakes, timers, Aligned
<1>5. CASE UNCHANGED vars
  BY <1>5 DEF vars, Aligned
<1>. QED
  BY <1>1, <1>2, <1>3, <1>4, <1>5 DEF Next, Receive, OtaInstalled

\* The timestamp of an image is the time since the last SYNC, modulo SyncMod,
\* for every clock whose range is a multiple of SyncMod (ep_impl.c:193, 427).
THEOREM TimestampsAreRight == Spec => []TimestampIsTimeSinceSync
<1> DEFINE Inv == \A d \in Devices : Aligned(d)
<1>1. Init => Inv
  BY DEF Init, Aligned
<1>2. Inv /\ TypeOK /\ [Next]_vars => Inv'
  BY AlignedNext
<1>3. Inv /\ TypeOK => TimestampIsTimeSinceSync
  <2> SUFFICES ASSUME TypeOK, NEW d \in Devices, sync[d] # -1, Aligned(d)
               PROVE  Timestamp(d) = since_sync[d]
    BY DEF TimestampIsTimeSinceSync
  <2>1. clk[d] - sync[d] \in Int
    BY DEF TypeOK, Time
  <2>2. clk[d] + SyncMod - sync[d] = (clk[d] - sync[d]) + 1 * SyncMod
    BY ClientConstants DEF TypeOK, Time
  <2>3. ((clk[d] - sync[d]) + 1 * SyncMod) % SyncMod = (clk[d] - sync[d]) % SyncMod
    <3>1. \A a \in Int : (a + 1 * SyncMod) % SyncMod = a % SyncMod
      BY ModAddMultiple, ClientConstants, 1 \in Int
    <3>. QED
      BY <2>1, <3>1
  <2>. QED
    BY <2>2, <2>3 DEF Timestamp, Aligned
<1>. QED
  BY <1>1, <1>2, <1>3, TypeCorrect, PTL DEF Spec

-----------------------------------------------------------------------------
(***************************************************************************)
(* The refinement: EpClient implements ClientSession.  The invariant says  *)
(* what the 16-bit time stamps mean; UpTo is all that is left of an age.   *)
(***************************************************************************)

\* A new limit of an age is not reached before the age reaches it.
LEMMA UpToReaches ==
  ASSUME NEW age \in Nat, NEW limit \in Nat, NEW test \in Nat, test <= limit
  PROVE  UpTo(age, limit) >= test <=> age >= test
  BY SMT DEF UpTo

\* An age that starts again, or starts long past, does so in the abstract too.
LEMMA UpToEnds ==
  ASSUME NEW limit \in Nat, limit <= ClockMod
  PROVE  UpTo(0, limit) = 0 /\ UpTo(ClockMod, limit) = limit
  BY ClientConstants, SMT DEF UpTo

\* The two limits of this protocol are below the wrap-around.
LEMMA Limits ==
  /\ RxTimeout \in Nat /\ RxTimeout <= ClockMod
  /\ AssocInterval \in Nat /\ AssocInterval <= ClockMod
  BY ClientConstants

\* What happens to one device's age happens to the age as it is seen.
LEMMA UpToExcept ==
  ASSUME NEW age \in [Devices -> Int], NEW limit, NEW d \in Devices, NEW v,
         NEW new, new = [age EXCEPT ![d] = v]
  PROVE  [e \in Devices |-> UpTo(new[e], limit)]
           = [[e \in Devices |-> UpTo(age[e], limit)] EXCEPT ![d] = UpTo(v, limit)]
  OBVIOUS

\* An age and the age as it is seen grow together.
LEMMA UpToOlder ==
  ASSUME NEW age \in Nat, NEW limit \in Nat, limit <= ClockMod
  PROVE  UpTo(Saturate(age), limit) = Session!Older(UpTo(age, limit), limit)
<1>1. CASE age < limit
  BY <1>1, ClientConstants DEF UpTo, Saturate, Session!Older
<1>2. CASE ~ (age < limit)
  <2>1. Saturate(age) \in Nat /\ ~ (Saturate(age) < limit)
    BY <1>2 DEF Saturate
  <2>. QED
    BY <1>2, <2>1 DEF UpTo, Session!Older
<1>. QED
  BY <1>1, <1>2

\* What a device's timers look like to the abstract client.
LEMMA Seen ==
  ASSUME TypeOK, NEW d \in Devices
  PROVE  /\ QuietSeen[d] = UpTo(quiet[d], RxTimeout)
         /\ MuteSeen[d] = UpTo(mute[d], AssocInterval)
         /\ quiet[d] \in Nat /\ mute[d] \in Nat
  BY ClientConstants DEF TypeOK, QuietSeen, MuteSeen

\* A transmission sets the abstract timer as it sets the real one.
LEMMA TransmitSays ==
  ASSUME TypeOK, NEW d \in Devices, NEW f, Transmit(d, f)
  PROVE  Session!Say(d, f)
<1>1. MuteSeen' = [MuteSeen EXCEPT ![d] = 0]
  <2>1. mute \in [Devices -> Int] /\ mute' = [mute EXCEPT ![d] = 0]
    BY ClientConstants DEF TypeOK, Transmit
  <2>2. MuteSeen' = [e \in Devices |-> UpTo(mute'[e], AssocInterval)]
    BY DEF MuteSeen, UpTo
  <2>3. MuteSeen' = [MuteSeen EXCEPT ![d] = UpTo(0, AssocInterval)]
    BY <2>1, <2>2, UpToExcept DEF MuteSeen
  <2>. QED
    BY <2>3, UpToEnds, Limits
<1>. QED
  BY <1>1 DEF Transmit, Session!Say

\* What leaves the real timers alone leaves the abstract ones alone.
LEMMA TimersUnseen ==
  /\ UNCHANGED quiet => UNCHANGED QuietSeen
  /\ UNCHANGED mute => UNCHANGED MuteSeen
  BY DEF QuietSeen, MuteSeen, UpTo

\* Nothing sent: nothing said.
LEMMA SilenceSaysNothing ==
  ASSUME TransmitNothing
  PROVE  Session!SayNothing
  BY TimersUnseen DEF TransmitNothing, Session!SayNothing

\* The client's start is the abstract client's.
LEMMA InitRefines ==
  ASSUME Init
  PROVE  Session!Init
<1>1. QuietSeen = [d \in Devices |-> RxTimeout]
  BY ClientConstants DEF Init, QuietSeen, UpTo
<1>2. MuteSeen = [d \in Devices |-> AssocInterval]
  BY ClientConstants DEF Init, MuteSeen, UpTo
<1>. QED
  BY <1>1, <1>2 DEF Init, ep_associate, Session!Init

\* The tests of ep_loop() on the 16-bit clock are tests on real time.
LEMMA TestsAreGenuine ==
  ASSUME ClientInv, NEW d \in Devices
  PROVE  /\ state[d] = "ASSOCIATING" =>
              (AssocDue(d) <=> MuteSeen[d] >= AssocInterval)
         /\ Connected(state[d]) =>
              /\ PingDue(d) <=> MuteSeen[d] >= PingInterval
              /\ TimedOut(d) <=> QuietSeen[d] >= RxTimeout
<1>1. /\ QuietSeen[d] = UpTo(quiet[d], RxTimeout)
      /\ MuteSeen[d] = UpTo(mute[d], AssocInterval)
      /\ quiet[d] \in Nat /\ mute[d] \in Nat /\ gap[d] \in 0 .. MaxGap
      /\ Elapsed(clk[d], time_last_tx[d]) \in Time
  BY Seen, ElapsedType DEF ClientInv, TypeOK
<1>2. MuteSeen[d] >= AssocInterval <=> mute[d] >= AssocInterval
  BY <1>1, UpToReaches, ClientConstants
<1>3. MuteSeen[d] >= PingInterval <=> mute[d] >= PingInterval
  BY <1>1, UpToReaches, ClientConstants
<1>4. QuietSeen[d] >= RxTimeout <=> quiet[d] >= RxTimeout
  BY <1>1, UpToReaches, ClientConstants
<1>5. ASSUME state[d] = "ASSOCIATING"
      PROVE  AssocDue(d) <=> mute[d] >= AssocInterval
  BY <1>1, <1>5, ClientConstants DEF ClientInv, Speaking, AssocDue, Time
<1>6. ASSUME Connected(state[d])
      PROVE  /\ PingDue(d) <=> mute[d] >= PingInterval
             /\ TimedOut(d) <=> quiet[d] >= RxTimeout
  <2>1. state[d] # "ASSOCIATING"
    BY <1>6 DEF Connected
  <2>. QED
    BY <1>6, <2>1 DEF ClientInv, Listening, Speaking, PingDue, TimedOut
<1>. QED
  BY <1>2, <1>3, <1>4, <1>5, <1>6

\* One pass of ep_loop() is one poll of the abstract client.
LEMMA LoopPolls ==
  ASSUME ClientInv, NEW d \in Devices, ep_loop(d)
  PROVE  Session!Poll(d)
<1>1. /\ gap' = [gap EXCEPT ![d] = 0]
      /\ UNCHANGED <<send_images, ota, QuietSeen>>
  BY TimersUnseen DEF ep_loop
<1>2. CASE LoopAssociating(d)
  <2>1. state[d] = "ASSOCIATING" /\ UNCHANGED state
    BY <1>2 DEF LoopAssociating
  <2>2. Session!Due(d) = IF AssocDue(d) THEN {"assoc_req"} ELSE {}
    BY <2>1, TestsAreGenuine DEF Session!Due, Session!Connected
  <2>3. IF AssocDue(d) THEN Session!Say(d, "assoc_req") ELSE Session!SayNothing
    BY <1>2, TransmitSays, SilenceSaysNothing DEF LoopAssociating, ClientInv
  <2>4. IF Session!Due(d) = {} THEN Session!SayNothing
        ELSE \E f \in Session!Due(d) : Session!Say(d, f)
    BY <2>2, <2>3
  <2>. QED
    BY <1>1, <2>1, <2>4 DEF Session!Poll, Session!Connected
<1>3. CASE LoopConnected(d)
  <2>1. Connected(state[d]) /\ state[d] # "ASSOCIATING"
    BY <1>3 DEF LoopConnected, Connected
  <2>2. Session!Due(d) = IF PingDue(d) THEN {"ping"} ELSE {}
    BY <2>1, TestsAreGenuine DEF Session!Due, Session!Connected, Connected
  <2>3. IF PingDue(d) THEN Session!Say(d, "ping") ELSE Session!SayNothing
    BY <1>3, TransmitSays, SilenceSaysNothing DEF LoopConnected, ClientInv
  <2>4. IF Session!Due(d) = {} THEN Session!SayNothing
        ELSE \E f \in Session!Due(d) : Session!Say(d, f)
    BY <2>2, <2>3
  <2>5. AfterTimeout(state[d]) = "ASSOCIATING"
    BY StateTypes DEF ClientInv, TypeOK
  <2>6. state' = IF QuietSeen[d] >= RxTimeout
                 THEN [state EXCEPT ![d] = "ASSOCIATING"] ELSE state
    BY <1>3, <2>1, <2>5, TestsAreGenuine DEF LoopConnected
  <2>. QED
    BY <1>1, <2>1, <2>4, <2>6 DEF Session!Poll, Session!Connected, Connected
<1>4. CASE LoopInactive(d)
  <2>1. state[d] \in {"IDLE", "STOPPED"} /\ UNCHANGED state /\ Session!SayNothing
    BY <1>4, SilenceSaysNothing DEF LoopInactive
  <2>2. Session!Due(d) = {} /\ ~ Session!Connected(state[d])
    BY <2>1 DEF Session!Due, Session!Connected
  <2>. QED
    BY <1>1, <2>1, <2>2 DEF Session!Poll
<1>. QED
  BY <1>2, <1>3, <1>4 DEF ep_loop

\* A frame recv() accepts is heard by the abstract client.
LEMMA RecvHears ==
  ASSUME ClientInv, NEW d \in Devices, NEW f \in ServerFrames, ep_recv_udp(d, f)
  PROVE  f \in Session!ServerFrames /\ Session!Hear(d, f)
<1>1. /\ UNCHANGED gap
      /\ f \in Session!ServerFrames
      /\ Session!Understands(state[d], f)
  BY DEF ep_recv_udp, Accepts, Connected, ServerFrames, Session!ServerFrames,
         Session!Understands, Session!Connected
<1>2. QuietSeen' = [QuietSeen EXCEPT ![d] = 0]
  <2>1. quiet \in [Devices -> Int] /\ quiet' = [quiet EXCEPT ![d] = 0]
    BY ClientConstants DEF ClientInv, TypeOK, ep_recv_udp, MarkReceived
  <2>2. QuietSeen' = [e \in Devices |-> UpTo(quiet'[e], RxTimeout)]
    BY DEF QuietSeen, UpTo
  <2>3. QuietSeen' = [QuietSeen EXCEPT ![d] = UpTo(0, RxTimeout)]
    BY <2>1, <2>2, UpToExcept DEF QuietSeen
  <2>. QED
    BY <2>3, UpToEnds, Limits
<1>3. /\ state \in [Devices -> States]
      /\ send_images \in [Devices -> BOOLEAN]
      /\ handle_disassociation(state[d]) = "IDLE"
      /\ ep_stop(state[d]) = "STOPPED"
  BY StateTypes DEF ClientInv, TypeOK
<1>4. CASE f = "assoc_resp" /\ RecvAssoc(d)
  BY <1>1, <1>2, <1>3, <1>4, SilenceSaysNothing
  DEF RecvAssoc, Session!Hear, Session!After
<1>5. CASE f = "dassoc" /\ RecvDassoc(d)
  BY <1>1, <1>2, <1>3, <1>5, SilenceSaysNothing
  DEF RecvDassoc, Session!Hear, Session!After
<1>6. CASE f \in {"ping", "restart"} /\ RecvKeepAlive(d)
  <2>1. state' = [state EXCEPT ![d] = Session!After(@, f, send_images'[d])]
    BY <1>3, <1>6 DEF RecvKeepAlive, Session!After
  <2>. QED
    BY <1>1, <1>2, <1>6, <2>1, SilenceSaysNothing DEF RecvKeepAlive, Session!Hear
<1>7. CASE f = "sync" /\ RecvSync(d)
  <2>1. state' = [state EXCEPT ![d] = Session!After(@, f, send_images'[d])]
    BY <1>3, <1>7 DEF RecvSync, Session!After
  <2>. QED
    BY <1>1, <1>2, <1>7, <2>1, SilenceSaysNothing DEF RecvSync, Session!Hear
<1>8. CASE f = "config" /\ RecvConfig(d)
  <2>1. state' = [state EXCEPT ![d] = Session!After(@, f, send_images'[d])]
    BY <1>3, <1>8 DEF RecvConfig, Session!After
  <2>. QED
    BY <1>1, <1>2, <1>8, <2>1, SilenceSaysNothing
    DEF RecvConfig, eyeotine_on_config, Session!Hear
<1>9. CASE f = "ota" /\ RecvOta(d)
  <2>1. Session!Say(d, "dassoc")
    BY <1>9, TransmitSays DEF RecvOta, ClientInv
  <2>2. state' = [state EXCEPT ![d] = Session!After(@, f, send_images'[d])]
    BY <1>3, <1>9 DEF RecvOta, Session!After
  <2>. QED
    BY <1>1, <1>2, <1>9, <2>1, <2>2 DEF RecvOta, Session!Hear
<1>. QED
  BY <1>1, <1>4, <1>5, <1>6, <1>7, <1>8, <1>9 DEF ep_recv_udp

\* A start is a start.
LEMMA RebootRestarts ==
  ASSUME TypeOK, NEW d \in Devices, Reboot(d)
  PROVE  Session!Restart(d)
<1>1. QuietSeen' = [QuietSeen EXCEPT ![d] = RxTimeout]
  <2>1. quiet \in [Devices -> Int] /\ quiet' = [quiet EXCEPT ![d] = ClockMod]
    BY ClientConstants DEF TypeOK, Reboot
  <2>2. QuietSeen' = [e \in Devices |-> UpTo(quiet'[e], RxTimeout)]
    BY DEF QuietSeen, UpTo
  <2>3. QuietSeen' = [QuietSeen EXCEPT ![d] = UpTo(ClockMod, RxTimeout)]
    BY <2>1, <2>2, UpToExcept DEF QuietSeen
  <2>. QED
    BY <2>3, UpToEnds, Limits
<1>2. MuteSeen' = [MuteSeen EXCEPT ![d] = AssocInterval]
  <2>1. mute \in [Devices -> Int] /\ mute' = [mute EXCEPT ![d] = ClockMod]
    BY ClientConstants DEF TypeOK, Reboot
  <2>2. MuteSeen' = [e \in Devices |-> UpTo(mute'[e], AssocInterval)]
    BY DEF MuteSeen, UpTo
  <2>3. MuteSeen' = [MuteSeen EXCEPT ![d] = UpTo(ClockMod, AssocInterval)]
    BY <2>1, <2>2, UpToExcept DEF MuteSeen
  <2>. QED
    BY <2>3, UpToEnds, Limits
<1>. QED
  BY <1>1, <1>2 DEF Reboot, ep_associate, Session!Restart

\* The abstract timers advance with the real ones, up to their limits.
LEMMA TickTicks ==
  ASSUME TypeOK, Tick
  PROVE  Session!Tick
<1>1. QuietSeen' = [d \in Devices |-> Session!Older(QuietSeen[d], RxTimeout)]
  <2>1. \A d \in Devices :
          UpTo(Saturate(quiet[d]), RxTimeout)
            = Session!Older(UpTo(quiet[d], RxTimeout), RxTimeout)
    BY Seen, UpToOlder, Limits
  <2>2. QuietSeen' = [d \in Devices |-> UpTo(Saturate(quiet[d]), RxTimeout)]
    BY DEF Tick, QuietSeen, UpTo
  <2>. QED
    BY <2>1, <2>2 DEF QuietSeen
<1>2. MuteSeen' = [d \in Devices |-> Session!Older(MuteSeen[d], AssocInterval)]
  <2>1. \A d \in Devices :
          UpTo(Saturate(mute[d]), AssocInterval)
            = Session!Older(UpTo(mute[d], AssocInterval), AssocInterval)
    BY Seen, UpToOlder, Limits
  <2>2. MuteSeen' = [d \in Devices |-> UpTo(Saturate(mute[d]), AssocInterval)]
    BY DEF Tick, MuteSeen, UpTo
  <2>. QED
    BY <2>1, <2>2 DEF MuteSeen
<1>. QED
  BY <1>1, <1>2 DEF Tick, Session!Tick

\* Every step of the client is a step of the abstract one, or none.
LEMMA NextRefines ==
  ASSUME ClientInv, [Next]_vars
  PROVE  [Session!Next]_(Session!clientVars)
<1>1. CASE Tick
  BY <1>1, TickTicks DEF ClientInv, Session!Next
<1>2. ASSUME NEW d \in Devices, ep_loop(d) PROVE Session!Next
  BY <1>2, LoopPolls DEF Session!Next
<1>3. ASSUME NEW d \in Devices, NEW f \in ServerFrames, ep_recv_udp(d, f)
      PROVE  Session!Next
  BY <1>3, RecvHears DEF Session!Next
<1>4. ASSUME NEW d \in Devices,
             NothingReceived(d) \/ \E f \in ServerFrames : Discard(d, f)
      PROVE  UNCHANGED Session!clientVars
  BY <1>4, TimersUnseen DEF NothingReceived, Discard, timers, Session!clientVars
<1>5. ASSUME NEW d \in Devices, SendImage(d) PROVE Session!Next
  <2>1. Session!Film(d)
    BY <1>5, TimersUnseen DEF SendImage, timers, Session!Film
  <2>. QED
    BY <2>1 DEF Session!Next
<1>6. ASSUME NEW d \in Devices, Reboot(d) PROVE Session!Next
  BY <1>6, RebootRestarts DEF ClientInv, Session!Next
<1>7. ASSUME NEW d \in Devices, OtaFailed(d) PROVE Session!Next
  <2>1. Session!UpdateFails(d)
    BY <1>7, TimersUnseen DEF OtaFailed, timers, Session!UpdateFails
  <2>. QED
    BY <2>1 DEF Session!Next
<1>8. ASSUME NEW d \in Devices, NetworkTakes(d) PROVE Session!Next
  <2>1. PICK f \in tx[d] : tx' = [tx EXCEPT ![d] = @ \ {f}]
    BY <1>8 DEF NetworkTakes
  <2>2. f \in Session!ClientFrames
    BY <2>1 DEF ClientInv, TypeOK, ClientFrames, Session!ClientFrames
  <2>3. Session!Leaves(d, f)
    BY <1>8, <2>1, TimersUnseen DEF NetworkTakes, timers, Session!Leaves
  <2>. QED
    BY <2>2, <2>3 DEF Session!Next
<1>9. CASE UNCHANGED vars
  BY <1>9, TimersUnseen DEF vars, Session!clientVars
<1>. QED
  BY <1>1, <1>2, <1>3, <1>4, <1>5, <1>6, <1>7, <1>8, <1>9
  DEF Next, Receive, OtaInstalled

\* A client with a 16-bit clock is one with ideal timers: it sends what is due,
\* gives up what is silent and does what it is told (ep_impl.c:102-173).
THEOREM ClientImplementsSession == Spec => ImplementsSession
<1>1. Init => Session!Init
  BY InitRefines
<1>2. ClientInv /\ [Next]_vars => [Session!Next]_(Session!clientVars)
  BY NextRefines
<1>. QED
  BY <1>1, <1>2, ClientInvariant, PTL DEF Spec, ImplementsSession, Session!Spec
=============================================================================
