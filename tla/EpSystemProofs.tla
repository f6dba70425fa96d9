--------------------------- MODULE EpSystemProofs ---------------------------
(***************************************************************************)
(* Theorems about EpSystem, for any set of devices, any time limits and    *)
(* any number of faults and commands.                                      *)
(***************************************************************************)
EXTENDS EpSystem, TLAPS

\* The types on which the steps below rely.
Typed ==
  /\ configs \in Nat
  /\ send_images \in [Devices -> BOOLEAN]
  /\ out \in [Devices -> SUBSET Server!Frames]

\* The flag is what is wanted, but for a command that is on its way.
Follows(d) ==
  send_images[d] <=> IF "config" \in out[d] THEN ~ Wanted ELSE Wanted

SystemInv ==
  /\ Typed
  /\ \A d \in Devices \ missed : Follows(d)

LEMMA SystemInit ==
  ASSUME Init
  PROVE  SystemInv
<1>1. Typed
  BY DEF Init, Client!Init, Server!Init, Typed
<1>2. ~ Wanted
  BY DEF Init, Wanted
<1>3. \A d \in Devices : Follows(d)
  BY <1>2 DEF Init, Client!Init, Server!Init, Follows
<1>. QED
  BY <1>1, <1>3 DEF SystemInv

\* Steps that leave the flags and the count of commands alone, put no config
\* frame and take none.
LEMMA Undisturbed ==
  ASSUME SystemInv, UNCHANGED <<send_images, configs>>, missed \subseteq missed',
         out' \in [Devices -> SUBSET Server!Frames],
         \A d \in Devices \ missed' : "config" \in out'[d] <=> "config" \in out[d]
  PROVE  SystemInv'
<1>1. Typed'
  BY DEF SystemInv, Typed
<1>2. Wanted' = Wanted
  BY DEF Wanted
<1>3. \A d \in Devices \ missed' : Follows(d)'
  BY <1>2 DEF SystemInv, Follows
<1>. QED
  BY <1>1, <1>3 DEF SystemInv

\* What the server sends when it has read a frame is no command.
LEMMA SettleSends ==
  ASSUME SystemInv, NEW d \in Devices, NEW s, NEW told, NEW frames \in SUBSET Server!Frames,
         "config" \notin frames, Server!Settle(d, s, told, frames)
  PROVE  /\ out' \in [Devices -> SUBSET Server!Frames]
         /\ \A e \in Devices : "config" \in out'[e] <=> "config" \in out[e]
  BY DEF SystemInv, Typed, Server!Settle

LEMMA ReadSends ==
  ASSUME SystemInv, NEW d \in Devices, NEW kind, Server!Read(d, kind)
  PROVE  /\ out' \in [Devices -> SUBSET Server!Frames]
         /\ \A e \in Devices : "config" \in out'[e] <=> "config" \in out[e]
<1>1. /\ {} \in SUBSET Server!Frames /\ {"assoc_resp"} \in SUBSET Server!Frames
      /\ {"sync"} \in SUBSET Server!Frames
      /\ "config" \notin {} /\ "config" \notin {"assoc_resp"} /\ "config" \notin {"sync"}
  BY DEF Server!Frames
<1>2. \E s, told : \E frames \in {{}, {"assoc_resp"}, {"sync"}} :
        Server!Settle(d, s, told, frames)
  BY DEF Server!Read, Server!ReadFalseVersion, Server!ReadNew,
         Server!ReadAssociated, Server!ReadSynced
<1>. QED
  BY <1>1, <1>2, SettleSends

\* A frame that is taken and is no command.
LEMMA TakeOther ==
  ASSUME SystemInv, NEW d \in Devices, NEW f \in Server!Frames, f # "config", Take(d, f)
  PROVE  /\ out' \in [Devices -> SUBSET Server!Frames]
         /\ \A e \in Devices : "config" \in out'[e] <=> "config" \in out[e]
  BY DEF SystemInv, Typed, Take

LEMMA TakeConfig ==
  ASSUME SystemInv, NEW d \in Devices, Take(d, "config")
  PROVE  /\ out' \in [Devices -> SUBSET Server!Frames]
         /\ "config" \in out[d] /\ "config" \notin out'[d]
         /\ \A e \in Devices \ {d} : out'[e] = out[e]
  BY DEF SystemInv, Typed, Take

\* A frame arrives.  A command turns the flag, or is missed.
LEMMA SystemDown ==
  ASSUME SystemInv, NEW d \in Devices, NEW f \in Server!Frames, Down(d, f)
  PROVE  SystemInv'
<1>1. /\ Take(d, f) /\ UNCHANGED configs
      /\ \/ Client!Hear(d, f)
         \/ ~ Client!Understands(state[d], f) /\ UNCHANGED clientVars
      /\ MissedIf(d, f = "config" /\ ~ Client!Understands(state[d], f))
  BY DEF Down
<1>2. CASE f # "config"
  <2>1. send_images' = send_images
    BY <1>1, <1>2 DEF Client!Hear, clientVars
  <2>2. missed' = missed
    BY <1>1, <1>2 DEF MissedIf
  <2>. QED
    BY <1>1, <1>2, <2>1, <2>2, TakeOther, Undisturbed
<1>3. CASE f = "config"
  <2>1. /\ out' \in [Devices -> SUBSET Server!Frames]
        /\ "config" \in out[d] /\ "config" \notin out'[d]
        /\ \A e \in Devices \ {d} : out'[e] = out[e]
    BY <1>1, <1>3, TakeConfig
  <2>2. Wanted' = Wanted
    BY <1>1 DEF Wanted
  <2>3. CASE ~ Client!Understands(state[d], f)
    <3>1. send_images' = send_images /\ missed' = missed \cup {d}
      BY <1>1, <1>3, <2>3 DEF Client!Hear, MissedIf, clientVars
    <3>. QED
      BY <1>1, <2>1, <3>1, Undisturbed
  <2>4. CASE Client!Understands(state[d], f)
    <3>1. send_images' = [send_images EXCEPT ![d] = ~ @] /\ missed' = missed
      BY <1>1, <1>3, <2>4 DEF Client!Hear, MissedIf
    <3>2. Typed'
      BY <1>1, <2>1, <3>1 DEF SystemInv, Typed
    <3>3. ASSUME NEW e \in Devices \ missed'
          PROVE  Follows(e)'
      <4>1. Follows(e)
        BY <3>1 DEF SystemInv
      <4>2. CASE e = d
        <5>1. send_images'[d] = ~ send_images[d]
          BY <3>1 DEF SystemInv, Typed
        <5>. QED
          BY <2>1, <2>2, <4>1, <4>2, <5>1 DEF Follows
      <4>3. CASE e # d
        <5>1. send_images'[e] = send_images[e] /\ out'[e] = out[e]
          BY <2>1, <3>1, <4>3 DEF SystemInv, Typed
        <5>. QED
          BY <2>2, <4>1, <5>1 DEF Follows
      <4>. QED
        BY <4>2, <4>3
    <3>. QED
      BY <3>2, <3>3 DEF SystemInv
  <2>. QED
    BY <2>3, <2>4
<1>. QED
  BY <1>2, <1>3

\* A frame arrives that will come again.  A command then turns the flag twice.
LEMMA SystemDuplicateDown ==
  ASSUME SystemInv, NEW d \in Devices, NEW f \in Server!Frames, DuplicateDown(d, f)
  PROVE  SystemInv'
<1>1. /\ Client!Hear(d, f) /\ MissedIf(d, f = "config")
      /\ UNCHANGED <<out, configs>>
  BY DEF DuplicateDown, serverVars
<1>2. CASE f # "config"
  <2>1. send_images' = send_images /\ missed' = missed
    BY <1>1, <1>2 DEF Client!Hear, MissedIf
  <2>. QED
    BY <1>1, <2>1, Undisturbed DEF SystemInv, Typed
<1>3. CASE f = "config"
  <2>1. send_images' = [send_images EXCEPT ![d] = ~ @] /\ missed' = missed \cup {d}
    BY <1>1, <1>3 DEF Client!Hear, MissedIf
  <2>2. Typed'
    BY <1>1, <2>1 DEF SystemInv, Typed
  <2>3. ASSUME NEW e \in Devices \ missed'
        PROVE  Follows(e)'
    <3>1. Follows(e) /\ send_images'[e] = send_images[e]
      BY <2>1 DEF SystemInv, Typed
    <3>. QED
      BY <1>1, <3>1 DEF Follows, Wanted
  <2>. QED
    BY <2>2, <2>3 DEF SystemInv
<1>. QED
  BY <1>2, <1>3

\* A command is given: all that are there will have it, the others miss it.
LEMMA SystemConfig ==
  ASSUME SystemInv, Config
  PROVE  SystemInv'
<1>1. /\ \A d \in Devices : "config" \notin out[d]
      /\ configs' = configs + 1 /\ send_images' = send_images
      /\ missed' = missed \cup {d \in Devices : ~ Listed(d)}
      /\ out' = [d \in Devices |-> IF Listed(d) THEN out[d] \cup {"config"} ELSE out[d]]
  BY DEF Config, Server!Obey, Server!Listed, Listed, clientVars
<1>2. "config" \in Server!Frames
  BY DEF Server!Frames
<1>3. Typed'
  BY <1>1, <1>2 DEF SystemInv, Typed
<1>4. Wanted' = ~ Wanted
  <2>1. configs \in Nat
    BY DEF SystemInv, Typed
  <2>2. (configs + 1) % 2 = 1 <=> ~ (configs % 2 = 1)
    BY <2>1, SMT
  <2>. QED
    BY <1>1, <2>2 DEF Wanted
<1>5. ASSUME NEW d \in Devices \ missed'
      PROVE  Follows(d)'
  <2>1. Listed(d) /\ Follows(d)
    BY <1>1 DEF SystemInv
  <2>2. "config" \notin out[d] /\ "config" \in out'[d]
    BY <1>1, <2>1
  <2>. QED
    BY <1>1, <1>4, <2>1, <2>2 DEF Follows
<1>. QED
  BY <1>3, <1>5 DEF SystemInv

\* A device starts again with a cleared flag.
LEMMA SystemRestart ==
  ASSUME SystemInv, NEW d \in Devices, Restart(d)
  PROVE  SystemInv'
<1>1. /\ send_images' = [send_images EXCEPT ![d] = FALSE] /\ configs' = configs
      /\ MissedIf(d, Wanted \/ "config" \in out[d])
      /\ ForgetPort(d) \/ UNCHANGED serverVars
  BY DEF Restart, Client!Restart
<1>2. /\ out' \in [Devices -> SUBSET Server!Frames]
      /\ out'[d] \subseteq out[d]
      /\ \A e \in Devices \ {d} : out'[e] = out[e]
  BY <1>1 DEF ForgetPort, serverVars, SystemInv, Typed
<1>3. Typed'
  BY <1>1, <1>2 DEF SystemInv, Typed
<1>4. Wanted' = Wanted
  BY <1>1 DEF Wanted
<1>5. ASSUME NEW e \in Devices \ missed'
      PROVE  Follows(e)'
  <2>1. CASE e = d
    <3>1. ~ Wanted /\ "config" \notin out[d]
      BY <1>1, <2>1 DEF MissedIf
    <3>2. ~ send_images'[d]
      BY <1>1 DEF SystemInv, Typed
    <3>. QED
      BY <1>2, <1>4, <2>1, <3>1, <3>2 DEF Follows
  <2>2. CASE e # d
    <3>1. e \notin missed /\ send_images'[e] = send_images[e] /\ out'[e] = out[e]
      BY <1>1, <1>2, <2>2 DEF MissedIf, SystemInv, Typed
    <3>. QED
      BY <1>4, <3>1 DEF Follows, SystemInv
  <2>. QED
    BY <2>1, <2>2
<1>. QED
  BY <1>3, <1>5 DEF SystemInv

-----------------------------------------------------------------------------
\* Every other step leaves flags and commands as they are.
LEMMA SystemQuiet ==
  ASSUME SystemInv,
         \/ Tick \/ Ota \/ ServerRestart \/ OtherJoins
         \/ \E d \in Devices :
              \/ Poll(d) \/ Film(d) \/ UpdateFails(d) \/ Walk(d) \/ UpAny(d)
              \/ \E f \in Client!ClientFrames : LoseUp(d, f) \/ DuplicateUp(d, f)
              \/ \E f \in Server!Frames : LoseDown(d, f)
  PROVE  SystemInv'
<1>1. out \in [Devices -> SUBSET Server!Frames]
  BY DEF SystemInv, Typed
<1>2. CASE Tick
  BY <1>1, <1>2, Undisturbed DEF Tick, Client!Tick, Server!Tick, history
<1>3. CASE Ota
  <2>1. out' = [d \in Devices |-> IF d \in Server!Listed THEN out[d] \cup {"ota"} ELSE out[d]]
    BY <1>3 DEF Ota, Server!Obey
  <2>2. "ota" \in Server!Frames
    BY DEF Server!Frames
  <2>. QED
    BY <1>1, <1>3, <2>1, <2>2, Undisturbed DEF Ota, clientVars
<1>4. CASE ServerRestart
  BY <1>1, <1>4, Undisturbed DEF ServerRestart, clientVars
<1>5. CASE OtherJoins
  <2>1. "sync" \in Server!Frames
    BY DEF Server!Frames
  <2>. QED
    BY <1>1, <1>5, <2>1, Undisturbed DEF OtherJoins, clientVars, history
<1>6. ASSUME NEW d \in Devices, Poll(d) \/ Film(d) \/ UpdateFails(d)
      PROVE  SystemInv'
  BY <1>1, <1>6, Undisturbed
  DEF Poll, Film, UpdateFails, Client!Poll, Client!Film, Client!UpdateFails,
      serverVars, rest, history
<1>7. ASSUME NEW d \in Devices, Walk(d)
      PROVE  SystemInv'
  <2>1. PICK frames \in SUBSET {"ping", "dassoc"} : out' = [out EXCEPT ![d] = @ \cup frames]
    <3>. DEFINE g == (IF Server!PingDue(d) THEN {"ping"} ELSE {})
                       \cup (IF Server!Silent(d) THEN {"dassoc"} ELSE {})
    <3>1. out' = [out EXCEPT ![d] = @ \cup g] /\ g \in SUBSET {"ping", "dassoc"}
      BY <1>7 DEF Walk, Server!Walk
    <3>. QED
      BY <3>1
  <2>2. frames \in SUBSET Server!Frames /\ "config" \notin frames
    BY DEF Server!Frames
  <2>. QED
    BY <1>1, <1>7, <2>1, <2>2, Undisturbed DEF Walk, clientVars, rest, history
<1>8. ASSUME NEW d \in Devices, UpAny(d)
      PROVE  SystemInv'
  <2>1. PICK f \in Client!ClientFrames : Up(d, f)
    BY <1>8 DEF UpAny
  <2>2. /\ out' \in [Devices -> SUBSET Server!Frames]
        /\ \A e \in Devices : "config" \in out'[e] <=> "config" \in out[e]
    BY <2>1, ReadSends DEF Up
  <2>. QED
    BY <2>1, <2>2, Undisturbed DEF Up, Client!Leaves, rest, history
<1>9. ASSUME NEW d \in Devices, NEW f \in Client!ClientFrames, LoseUp(d, f)
      PROVE  SystemInv'
  BY <1>1, <1>9, Undisturbed DEF LoseUp, Client!Leaves, serverVars
<1>10. ASSUME NEW d \in Devices, NEW f \in Server!Frames, LoseDown(d, f)
       PROVE  SystemInv'
  <2>1. CASE f # "config"
    BY <1>10, <2>1, TakeOther, Undisturbed DEF LoseDown, MissedIf, clientVars
  <2>2. CASE f = "config"
    BY <1>10, <2>2, TakeConfig, Undisturbed DEF LoseDown, MissedIf, clientVars
  <2>. QED
    BY <2>1, <2>2
<1>11. ASSUME NEW d \in Devices, NEW f \in Client!ClientFrames, DuplicateUp(d, f)
       PROVE  SystemInv'
  <2>1. /\ out' \in [Devices -> SUBSET Server!Frames]
        /\ \A e \in Devices : "config" \in out'[e] <=> "config" \in out[e]
    BY <1>11, ReadSends DEF DuplicateUp
  <2>. QED
    BY <1>11, <2>1, Undisturbed DEF DuplicateUp, clientVars
<1>. QED
  BY <1>2, <1>3, <1>4, <1>5, <1>6, <1>7, <1>8, <1>9, <1>10, <1>11

LEMMA SystemStep ==
  ASSUME SystemInv, [Next]_vars
  PROVE  SystemInv'
<1>1. CASE UNCHANGED vars
  BY <1>1, Undisturbed
  DEF vars, clientVars, serverVars, rest, history, SystemInv, Typed
<1>2. CASE Next
  BY <1>2, SystemQuiet, SystemConfig, SystemRestart, SystemDown, SystemDuplicateDown
  DEF Next, DownAny
<1>. QED
  BY <1>1, <1>2

\* The flags follow the commands in every behaviour.
THEOREM SystemInvariant == Spec => []SystemInv
<1>1. Init => SystemInv
  BY SystemInit
<1>2. SystemInv /\ [Next]_vars => SystemInv'
  BY SystemStep
<1>. QED
  BY <1>1, <1>2, PTL DEF Spec

\* No disconnection, timeout, association, update or reordering, and nothing
\* that comes twice but a command, changes the flag of a device that has
\* missed no command (eyeotine.c:117; mqtt_lib.py:33).
THEOREM SystemInStep == Spec => []InStepUnlessMissed
<1>1. SystemInv => InStepUnlessMissed
  BY DEF SystemInv, Typed, Follows, Wanted, InStepUnlessMissed
<1>. QED
  BY <1>1, SystemInvariant, PTL

-----------------------------------------------------------------------------
(* Timeouts mean faults: what is on its way, and how the timers of the two *)
(* ends are related as long as nothing is lost or comes twice.             *)

Timed ==
  /\ state \in [Devices -> {"STOPPED", "IDLE", "ASSOCIATING", "WAIT_FOR_SYNC",
                            "CAMERA_OFF", "CAMERA_ON"}]
  /\ ota \in [Devices -> {"none", "running", "failed"}]
  /\ tx \in [Devices -> SUBSET Client!ClientFrames]
  /\ quiet \in [Devices -> Nat]
  /\ mute \in [Devices -> Nat]
  /\ esp \in [Devices -> {"NONE", "IDLE", "ASSOCIATED", "SYNCED"}]
  /\ sent \in [Devices -> Nat]
  /\ recv \in [Devices -> Nat]
  /\ out \in [Devices -> SUBSET Server!Frames]
  /\ faults \in Nat

\* An update is installed by a client that has said its farewell, and only
\* such a client has.
Leaving(d) ==
  /\ ota[d] = "running" => state[d] = "STOPPED"
  /\ "dassoc" \in tx[d] => state[d] = "STOPPED"

\* A request has just been made, and has no answer yet.
Asking(d) ==
  /\ state[d] = "ASSOCIATING" => tx[d] \subseteq {"assoc_req"}
  /\ "assoc_req" \in tx[d] => state[d] = "ASSOCIATING" /\ mute[d] = 0

\* An answer is to a request that has just been read.
Answered(d) ==
  "assoc_resp" \in out[d] =>
    /\ state[d] = "ASSOCIATING" /\ mute[d] = 0 /\ tx[d] = {}
    /\ esp[d] = "ASSOCIATED" /\ recv[d] = 0

\* Each end has heard of the other since the other last spoke, or is about to.
Attached(d) ==
  Client!Connected(state[d]) =>
    /\ esp[d] \in {"ASSOCIATED", "SYNCED"}
    /\ recv[d] <= PingInterval
    /\ tx[d] # {} \/ recv[d] <= mute[d]
    /\ quiet[d] <= PingInterval
    /\ out[d] # {} \/ quiet[d] <= sent[d]

Calm(d) == Leaving(d) /\ Asking(d) /\ Answered(d) /\ Attached(d)

TimelyInv == Timed /\ (faults = 0 => \A d \in Devices : Calm(d))

LEMMA TimelyInit ==
  ASSUME Init
  PROVE  TimelyInv
<1>1. Timed
  BY SystemConstants DEF Init, Client!Init, Server!Init, Timed
<1>2. ASSUME NEW d \in Devices PROVE Calm(d)
  BY DEF Init, Client!Init, Server!Init, Calm, Leaving, Asking, Answered, Attached,
         Client!Connected
<1>. QED
  BY <1>1, <1>2 DEF TimelyInv

\* The timers of a device, and of the server for it, are left alone; at most
\* the server tells it something.
Spared(d) ==
  /\ state'[d] = state[d] /\ ota'[d] = ota[d] /\ tx'[d] = tx[d]
  /\ mute'[d] = mute[d] /\ quiet'[d] = quiet[d]
  /\ esp'[d] = esp[d] /\ recv'[d] = recv[d]
  /\ "assoc_resp" \in out'[d] => "assoc_resp" \in out[d]
  /\ (out'[d] = out[d] /\ sent'[d] = sent[d]) \/ out'[d] # {}

LEMMA SparedStaysCalm ==
  ASSUME NEW d \in Devices, Calm(d), Spared(d)
  PROVE  Calm(d)'
<1>1. Leaving(d)' /\ Asking(d)' /\ Answered(d)'
  BY DEF Spared, Calm, Leaving, Asking, Answered
<1>2. Attached(d)'
  BY DEF Spared, Calm, Attached, Client!Connected
<1>. QED
  BY <1>1, <1>2 DEF Calm

-----------------------------------------------------------------------------
(* One lemma per action. *)

LEMMA TimelyPoll ==
  ASSUME TimelyInv, NEW d \in Devices, Poll(d)
  PROVE  TimelyInv'
<1>1. Timed /\ faults' = faults
  BY DEF TimelyInv, Poll, rest, history
<1>2. UNCHANGED <<ota, quiet, esp, sent, recv, out>>
  BY DEF Poll, Client!Poll, serverVars
<1>3. /\ Client!Due(d) = {} => tx' = tx /\ mute' = mute
      /\ \A f \in Client!Due(d) : Client!Due(d) = {f}
      /\ Client!Due(d) \subseteq {"assoc_req", "ping"}
  BY DEF Poll, Client!Poll, Client!SayNothing, Client!Due
<1>4. ASSUME NEW f \in Client!Due(d)
      PROVE  tx' = [tx EXCEPT ![d] = @ \cup {f}] /\ mute' = [mute EXCEPT ![d] = 0]
  BY <1>3 DEF Poll, Client!Poll, Client!Say
<1>5. state' = IF Client!Connected(state[d]) /\ quiet[d] >= RxTimeout
               THEN [state EXCEPT ![d] = "ASSOCIATING"] ELSE state
  BY DEF Poll, Client!Poll
<1>6. Timed'
  <2>1. state' \in [Devices -> {"STOPPED", "IDLE", "ASSOCIATING", "WAIT_FOR_SYNC",
                                "CAMERA_OFF", "CAMERA_ON"}]
    BY <1>1, <1>5 DEF Timed
  <2>2. CASE Client!Due(d) = {}
    BY <1>1, <1>2, <1>3, <2>1, <2>2 DEF Timed
  <2>3. ASSUME NEW f \in Client!Due(d) PROVE Timed'
    <3>1. f \in Client!ClientFrames
      BY <1>3, <2>3 DEF Client!ClientFrames
    <3>. QED
      BY <1>1, <1>2, <1>4, <2>1, <3>1 DEF Timed
  <2>. QED
    BY <2>2, <2>3
<1>7. ASSUME faults = 0, NEW e \in Devices PROVE Calm(e)'
  <2>1. Calm(d) /\ Calm(e)
    BY <1>7 DEF TimelyInv
  <2>2. state' = state
    BY <1>1, <1>5, <2>1, SystemConstants DEF Calm, Attached, Timed
  <2>3. CASE e # d \/ Client!Due(d) = {}
    <3>1. tx'[e] = tx[e] /\ mute'[e] = mute[e]
      BY <1>1, <1>3, <1>4, <2>3 DEF Timed
    <3>. QED
      BY <1>2, <2>1, <2>2, <3>1, SparedStaysCalm DEF Spared
  <2>4. ASSUME e = d, NEW f \in Client!Due(d) PROVE Calm(e)'
    <3>1. tx'[d] = tx[d] \cup {f} /\ mute'[d] = 0
      BY <1>1, <1>4, <2>4 DEF Timed
    <3>2. \/ f = "assoc_req" /\ state[d] = "ASSOCIATING" /\ mute[d] >= AssocInterval
          \/ f = "ping" /\ Client!Connected(state[d])
      BY <2>4 DEF Client!Due
    <3>3. Leaving(d)' /\ Asking(d)'
      BY <1>2, <2>1, <2>2, <3>1, <3>2 DEF Calm, Leaving, Asking, Client!Connected
    <3>4. Answered(d)'
      BY <1>1, <1>2, <2>1, <3>2, SystemConstants DEF Calm, Answered, Client!Connected, Timed
    <3>5. Attached(d)'
      BY <1>2, <2>1, <2>2, <3>1 DEF Calm, Attached
    <3>. QED
      BY <2>4, <3>3, <3>4, <3>5 DEF Calm
  <2>. QED
    BY <2>3, <2>4
<1>. QED
  BY <1>1, <1>6, <1>7 DEF TimelyInv

LEMMA TimelyFilm ==
  ASSUME TimelyInv, NEW d \in Devices, Film(d)
  PROVE  TimelyInv'
<1>1. Timed
  BY DEF TimelyInv
<1>2. /\ state[d] = "CAMERA_ON" /\ tx' = [tx EXCEPT ![d] = @ \cup {"image"}]
      /\ UNCHANGED <<state, ota, quiet, mute, esp, sent, recv, out, faults>>
  BY DEF Film, Client!Film, serverVars, history
<1>3. Timed'
  BY <1>1, <1>2 DEF Timed, Client!ClientFrames
<1>4. ASSUME faults = 0, NEW e \in Devices PROVE Calm(e)'
  <2>1. Calm(e)
    BY <1>4 DEF TimelyInv
  <2>2. CASE e # d
    BY <1>1, <1>2, <2>1, <2>2, SparedStaysCalm DEF Spared, Timed
  <2>3. CASE e = d
    <3>1. tx'[d] = tx[d] \cup {"image"}
      BY <1>1, <1>2 DEF Timed
    <3>. QED
      BY <1>2, <2>1, <2>3, <3>1 DEF Calm, Leaving, Asking, Answered, Attached
  <2>. QED
    BY <2>2, <2>3
<1>. QED
  BY <1>2, <1>3, <1>4 DEF TimelyInv

LEMMA TimelyUpdateFails ==
  ASSUME TimelyInv, NEW d \in Devices, UpdateFails(d)
  PROVE  TimelyInv'
<1>1. /\ ota' = [ota EXCEPT ![d] = "failed"]
      /\ UNCHANGED <<state, tx, quiet, mute, esp, sent, recv, out, faults>>
  BY DEF UpdateFails, Client!UpdateFails, serverVars, rest, history
<1>2. Timed'
  BY <1>1 DEF TimelyInv, Timed
<1>3. ASSUME faults = 0, NEW e \in Devices PROVE Calm(e)'
  <2>1. Calm(e) /\ (ota'[e] = "running" => ota[e] = "running")
    BY <1>1, <1>3 DEF TimelyInv, Timed
  <2>. QED
    BY <1>1, <2>1 DEF Calm, Leaving, Asking, Answered, Attached
<1>. QED
  BY <1>1, <1>2, <1>3 DEF TimelyInv

\* The server pings a device, or drops it, which then is not connected.
LEMMA TimelyWalk ==
  ASSUME TimelyInv, NEW d \in Devices, Walk(d)
  PROVE  TimelyInv'
<1>1. Timed
  BY DEF TimelyInv
<1>2. UNCHANGED <<state, ota, tx, quiet, mute, faults>>
  BY DEF Walk, clientVars, rest, history
<1>. DEFINE g == (IF Server!PingDue(d) THEN {"ping"} ELSE {})
                   \cup (IF Server!Silent(d) THEN {"dassoc"} ELSE {})
<1>3. g \subseteq {"ping", "dassoc"} /\ g # {} /\ (g \cap {"assoc_resp"}) = {}
  BY DEF Walk, Server!Walk
<1>4. /\ out' = [out EXCEPT ![d] = @ \cup g]
      /\ esp' = [esp EXCEPT ![d] = IF Server!Silent(d) THEN "NONE" ELSE @]
      /\ sent' = [sent EXCEPT ![d] = IF Server!Silent(d) THEN PingInterval ELSE 0]
      /\ recv' = [recv EXCEPT ![d] = IF Server!Silent(d) THEN RxTimeout + 1 ELSE @]
  BY DEF Walk, Server!Walk
<1>. HIDE DEF g
<1>5. Timed'
  <2>1. g \subseteq Server!Frames
    BY <1>3 DEF Server!Frames
  <2>. QED
    BY <1>1, <1>2, <1>4, <2>1, SystemConstants DEF Timed
<1>6. ASSUME faults = 0, NEW e \in Devices PROVE Calm(e)'
  <2>1. Calm(e)
    BY <1>6 DEF TimelyInv
  <2>2. CASE e # d
    BY <1>1, <1>2, <1>4, <2>1, <2>2, SparedStaysCalm DEF Spared, Timed
  <2>3. CASE e = d /\ ~ Server!Silent(d)
    BY <1>1, <1>2, <1>3, <1>4, <2>1, <2>3, SparedStaysCalm DEF Spared, Timed
  <2>4. CASE e = d /\ Server!Silent(d)
    <3>1. recv[d] > RxTimeout
      BY <2>4 DEF Server!Silent
    <3>2. ~ Client!Connected(state[d]) /\ "assoc_resp" \notin out[d]
      BY <1>1, <2>1, <2>4, <3>1, SystemConstants DEF Calm, Attached, Answered, Timed
    <3>3. "assoc_resp" \notin out'[d]
      BY <1>1, <1>3, <1>4, <3>2 DEF Timed
    <3>. QED
      BY <1>2, <2>1, <2>4, <3>2, <3>3 DEF Calm, Leaving, Asking, Answered, Attached
  <2>. QED
    BY <2>2, <2>3, <2>4
<1>. QED
  BY <1>2, <1>5, <1>6 DEF TimelyInv

\* Where the reading of one frame leaves the server: the peer in state s, and
\* those in told told the frames.
Settled(d, s, told, frames) ==
  /\ esp' \in [Devices -> {"NONE", "IDLE", "ASSOCIATED", "SYNCED"}]
  /\ sent' \in [Devices -> Nat] /\ recv' \in [Devices -> Nat]
  /\ out' \in [Devices -> SUBSET Server!Frames]
  /\ esp'[d] = s /\ (s # "NONE" => recv'[d] = 0)
  /\ \A e \in Devices \ {d} : esp'[e] = esp[e] /\ recv'[e] = recv[e]
  /\ \A e \in Devices : out'[e] = IF e \in told THEN out[e] \cup frames ELSE out[e]
  /\ \A e \in Devices : (e # d \/ s # "NONE") /\ e \notin told => sent'[e] = sent[e]

LEMMA SettleEffect ==
  ASSUME Timed, NEW d \in Devices,
         NEW s \in {"NONE", "IDLE", "ASSOCIATED", "SYNCED"},
         NEW told, NEW frames \in SUBSET Server!Frames, Server!Settle(d, s, told, frames)
  PROVE  Settled(d, s, told, frames)
BY SystemConstants DEF Server!Settle, Settled, Timed

\* What that does to the server's view of the peer and of the others.
Heard(d, kind) ==
  /\ esp' \in [Devices -> {"NONE", "IDLE", "ASSOCIATED", "SYNCED"}]
  /\ sent' \in [Devices -> Nat] /\ recv' \in [Devices -> Nat]
  /\ out' \in [Devices -> SUBSET Server!Frames]
  /\ \A e \in Devices \ {d} :
       /\ esp'[e] = esp[e] /\ recv'[e] = recv[e]
       /\ "assoc_resp" \in out'[e] => "assoc_resp" \in out[e]
       /\ (out'[e] = out[e] /\ sent'[e] = sent[e]) \/ out'[e] # {}
  /\ esp[d] \in {"ASSOCIATED", "SYNCED"} /\ kind \notin {"assoc", "dassoc"} =>
       /\ esp'[d] = "SYNCED" /\ recv'[d] = 0
       /\ (out'[d] = out[d] /\ sent'[d] = sent[d]) \/ out'[d] # {}
  /\ "assoc_resp" \in out'[d] =>
       \/ "assoc_resp" \in out[d]
       \/ kind = "assoc" /\ esp'[d] = "ASSOCIATED" /\ recv'[d] = 0

\* The peer is told nothing, and is connected or no more.
LEMMA HeardInSilence ==
  ASSUME Timed, NEW d \in Devices, NEW kind, NEW s \in {"NONE", "SYNCED"},
         Server!Settle(d, s, {}, {}),
         esp[d] \in {"ASSOCIATED", "SYNCED"} /\ kind \notin {"assoc", "dassoc"} => s = "SYNCED"
  PROVE  Heard(d, kind)
<1>1. PICK none \in SUBSET Server!Frames : none = {}
  OBVIOUS
<1>2. Server!Settle(d, s, none, none) /\ s \in {"NONE", "IDLE", "ASSOCIATED", "SYNCED"}
  BY <1>1
<1>3. Settled(d, s, none, none)
  BY <1>1, <1>2, SettleEffect
<1>4. \A e \in Devices : out'[e] = out[e] /\ e \notin none
  BY <1>1, <1>3 DEF Settled
<1>. QED
  BY <1>3, <1>4 DEF Settled, Heard

\* What the reading of one frame does to the server's view.
LEMMA ReadEffect ==
  ASSUME Timed, NEW d \in Devices, NEW kind, kind # "bad_version", Server!Read(d, kind)
  PROVE  Heard(d, kind)
<1>1. /\ {"assoc_resp"} \in SUBSET Server!Frames
      /\ {"sync"} \in SUBSET Server!Frames
  BY DEF Server!Frames
<1>2. CASE Server!ReadNew(d, kind) /\ kind = "assoc"
  <2>. PICK frames \in SUBSET Server!Frames : frames = {"assoc_resp"}
    BY <1>1
  <2>. PICK told : told = {d}
    OBVIOUS
  <2>1. Server!Settle(d, "ASSOCIATED", told, frames)
        /\ esp[d] \notin {"ASSOCIATED", "SYNCED"}
    BY <1>2 DEF Server!ReadNew
  <2>2. "ASSOCIATED" \in {"NONE", "IDLE", "ASSOCIATED", "SYNCED"}
    OBVIOUS
  <2>3. Settled(d, "ASSOCIATED", told, frames)
    BY <2>1, <2>2, SettleEffect
  <2>4. \A e \in Devices \ {d} : out'[e] = out[e] /\ sent'[e] = sent[e]
    BY <2>3 DEF Settled
  <2>. QED
    BY <1>2, <2>1, <2>3, <2>4 DEF Settled, Heard
<1>3. CASE Server!ReadNew(d, kind) /\ kind # "assoc"
  <2>1. Server!Settle(d, "NONE", {}, {}) /\ esp[d] \notin {"ASSOCIATED", "SYNCED"}
    BY <1>3 DEF Server!ReadNew
  <2>. QED
    BY <2>1, HeardInSilence
<1>4. CASE Server!ReadAssociated(d)
  <2>. PICK frames \in SUBSET Server!Frames : frames = {"sync"}
    BY <1>1
  <2>1. PICK told : told = Server!Listed
    OBVIOUS
  <2>2. Server!Settle(d, "SYNCED", told, frames) /\ d \in told
    BY <1>4, <2>1 DEF Server!ReadAssociated, Server!Listed
  <2>3. "SYNCED" \in {"NONE", "IDLE", "ASSOCIATED", "SYNCED"}
    OBVIOUS
  <2>4. Settled(d, "SYNCED", told, frames)
    BY <2>2, <2>3, SettleEffect
  <2>5. \A e \in Devices :
          /\ "assoc_resp" \in out'[e] => "assoc_resp" \in out[e]
          /\ (out'[e] = out[e] /\ sent'[e] = sent[e]) \/ out'[e] # {}
    BY <2>4 DEF Settled
  <2>. QED
    BY <2>4, <2>5 DEF Settled, Heard
<1>5. CASE Server!ReadSynced(d, kind)
  <2>1. CASE kind \in {"assoc", "dassoc"}
    <3>1. Server!Settle(d, "NONE", {}, {})
      BY <1>5, <2>1 DEF Server!ReadSynced
    <3>. QED
      BY <2>1, <3>1, HeardInSilence
  <2>2. CASE kind \notin {"assoc", "dassoc"}
    <3>1. Server!Settle(d, "SYNCED", {}, {})
      BY <1>5, <2>2 DEF Server!ReadSynced
    <3>. QED
      BY <3>1, HeardInSilence
  <2>. QED
    BY <2>1, <2>2
<1>. QED
  BY <1>2, <1>3, <1>4, <1>5 DEF Server!Read

\* A frame of a device is read.
LEMMA TimelyUp ==
  ASSUME TimelyInv, NEW d \in Devices, NEW f \in Client!ClientFrames, Up(d, f)
  PROVE  TimelyInv'
<1>1. Timed
  BY DEF TimelyInv
<1>2. /\ f \in tx[d] /\ tx' = [tx EXCEPT ![d] = @ \ {f}]
      /\ UNCHANGED <<state, ota, quiet, mute, faults>>
  BY DEF Up, Client!Leaves, rest, history
<1>3. PICK kind : kind = Kind(f)
  OBVIOUS
<1>4. /\ Server!Read(d, kind) /\ kind # "bad_version"
      /\ kind = "assoc" <=> f = "assoc_req"
      /\ kind = "dassoc" <=> f = "dassoc"
  BY <1>3 DEF Up, Kind, Client!ClientFrames
<1>5. /\ esp' \in [Devices -> {"NONE", "IDLE", "ASSOCIATED", "SYNCED"}]
      /\ sent' \in [Devices -> Nat] /\ recv' \in [Devices -> Nat]
      /\ out' \in [Devices -> SUBSET Server!Frames]
  BY <1>1, <1>4, ReadEffect DEF Heard
<1>6. Timed'
  BY <1>1, <1>2, <1>5 DEF Timed
<1>7. ASSUME faults = 0, NEW e \in Devices PROVE Calm(e)'
  <2>1. Calm(e) /\ Calm(d)
    BY <1>7 DEF TimelyInv
  <2>2. CASE e # d
    <3>1. /\ esp'[e] = esp[e] /\ recv'[e] = recv[e]
          /\ "assoc_resp" \in out'[e] => "assoc_resp" \in out[e]
          /\ (out'[e] = out[e] /\ sent'[e] = sent[e]) \/ out'[e] # {}
      BY <1>1, <1>4, <2>2, ReadEffect DEF Heard
    <3>2. tx'[e] = tx[e]
      BY <1>1, <1>2, <2>2 DEF Timed
    <3>. QED
      BY <1>2, <2>1, <3>1, <3>2, SparedStaysCalm DEF Spared
  <2>3. CASE e = d
    <3>1. tx'[d] = tx[d] \ {f}
      BY <1>1, <1>2 DEF Timed
    <3>2. Leaving(d)' /\ Asking(d)'
      BY <1>2, <2>1, <3>1 DEF Calm, Leaving, Asking
    <3>3. Answered(d)'
      <4>1. SUFFICES ASSUME "assoc_resp" \in out'[d] PROVE Answered(d)'
        BY DEF Answered
      <4>2. "assoc_resp" \notin out[d]
        BY <1>2, <2>1 DEF Calm, Answered
      <4>3. f = "assoc_req" /\ esp'[d] = "ASSOCIATED" /\ recv'[d] = 0
        BY <1>1, <1>4, <4>1, <4>2, ReadEffect DEF Heard
      <4>4. state[d] = "ASSOCIATING" /\ mute[d] = 0 /\ tx[d] \subseteq {"assoc_req"}
        BY <1>2, <2>1, <4>3 DEF Calm, Asking
      <4>. QED
        BY <1>2, <3>1, <4>3, <4>4 DEF Answered
    <3>4. Attached(d)'
      <4>1. SUFFICES ASSUME Client!Connected(state[d]) PROVE Attached(d)'
        BY <1>2 DEF Attached
      <4>2. f \notin {"assoc_req", "dassoc"}
        BY <1>2, <2>1, <4>1 DEF Calm, Leaving, Asking, Client!Connected
      <4>3. esp[d] \in {"ASSOCIATED", "SYNCED"} /\ quiet[d] <= PingInterval
            /\ (out[d] # {} \/ quiet[d] <= sent[d])
        BY <2>1, <4>1 DEF Calm, Attached
      <4>4. /\ esp'[d] = "SYNCED" /\ recv'[d] = 0
            /\ (out'[d] = out[d] /\ sent'[d] = sent[d]) \/ out'[d] # {}
        BY <1>1, <1>4, <4>2, <4>3, ReadEffect DEF Heard
      <4>5. mute[d] \in Nat
        BY <1>1 DEF Timed
      <4>. QED
        BY <1>2, <4>3, <4>4, <4>5, SystemConstants DEF Attached
    <3>. QED
      BY <2>3, <3>2, <3>3, <3>4 DEF Calm
  <2>. QED
    BY <2>2, <2>3
<1>. QED
  BY <1>2, <1>6, <1>7 DEF TimelyInv

\* What a frame leaves of a device.
LEMMA HearTyped ==
  ASSUME Timed, NEW d \in Devices, NEW f, Client!Hear(d, f)
  PROVE  /\ state' \in [Devices -> {"STOPPED", "IDLE", "ASSOCIATING", "WAIT_FOR_SYNC",
                                     "CAMERA_OFF", "CAMERA_ON"}]
         /\ ota' \in [Devices -> {"none", "running", "failed"}]
         /\ tx' \in [Devices -> SUBSET Client!ClientFrames]
         /\ quiet' \in [Devices -> Nat] /\ mute' \in [Devices -> Nat]
<1>1. PICK s : s = Client!After(state[d], f, send_images'[d])
  OBVIOUS
<1>2. s \in {"STOPPED", "IDLE", "WAIT_FOR_SYNC", "CAMERA_OFF", "CAMERA_ON", state[d]}
  BY <1>1 DEF Client!After
<1>3. state' = [state EXCEPT ![d] = s]
  BY <1>1 DEF Client!Hear, Timed
<1>4. state' \in [Devices -> {"STOPPED", "IDLE", "ASSOCIATING", "WAIT_FOR_SYNC",
                              "CAMERA_OFF", "CAMERA_ON"}]
  BY <1>2, <1>3 DEF Timed
<1>5. ota' \in [Devices -> {"none", "running", "failed"}] /\ quiet' \in [Devices -> Nat]
  BY DEF Client!Hear, Timed
<1>6. tx' \in [Devices -> SUBSET Client!ClientFrames] /\ mute' \in [Devices -> Nat]
  BY DEF Client!Hear, Client!Say, Client!SayNothing, Client!ClientFrames, Timed
<1>. QED
  BY <1>4, <1>5, <1>6

\* A frame arrives at a device.
LEMMA TimelyDown ==
  ASSUME TimelyInv, NEW d \in Devices, NEW f \in Server!Frames, Down(d, f)
  PROVE  TimelyInv'
<1>1. Timed
  BY DEF TimelyInv
<1>2. /\ f \in out[d] /\ out' = [out EXCEPT ![d] = @ \ {f}]
      /\ UNCHANGED <<esp, sent, recv, faults>>
  BY DEF Down, Take
<1>3. out'[d] = out[d] \ {f} /\ \A e \in Devices \ {d} : out'[e] = out[e]
  BY <1>1, <1>2 DEF Timed
<1>4. out' \in [Devices -> SUBSET Server!Frames]
  BY <1>1, <1>2 DEF Timed
<1>5. CASE ~ Client!Understands(state[d], f)
  <2>1. UNCHANGED clientVars
    BY <1>5 DEF Down, Client!Hear
  <2>2. Timed'
    BY <1>1, <1>2, <1>4, <2>1 DEF Timed, clientVars
  <2>3. ASSUME faults = 0, NEW e \in Devices PROVE Calm(e)'
    <3>1. Calm(e)
      BY <2>3 DEF TimelyInv
    <3>2. e = d /\ Client!Connected(state[d]) => f = "assoc_resp"
      BY <1>5 DEF Client!Understands, Client!Connected
    <3>3. e = d => ~ Client!Connected(state[d])
      BY <1>2, <3>1, <3>2 DEF Calm, Answered, Client!Connected
    <3>. QED
      BY <1>2, <1>3, <2>1, <3>1, <3>3
      DEF clientVars, Calm, Leaving, Asking, Answered, Attached
  <2>. QED
    BY <1>2, <2>2, <2>3 DEF TimelyInv
<1>6. CASE Client!Understands(state[d], f)
  <2>1. Client!Hear(d, f)
    BY <1>6 DEF Down
  <2>2. PICK s : s = Client!After(state[d], f, send_images'[d])
    OBVIOUS
  <2>3. /\ state' = [state EXCEPT ![d] = s]
        /\ ota' = IF f = "ota" THEN [ota EXCEPT ![d] = "running"] ELSE ota
        /\ quiet' = [quiet EXCEPT ![d] = 0]
        /\ f # "ota" => tx' = tx /\ mute' = mute
        /\ f = "ota" => /\ tx' = [tx EXCEPT ![d] = @ \cup {"dassoc"}]
                        /\ mute' = [mute EXCEPT ![d] = 0]
    <3>1. state' = [state EXCEPT ![d] = s]
      BY <1>1, <2>1, <2>2 DEF Client!Hear, Timed
    <3>. QED
      BY <2>1, <3>1 DEF Client!Hear, Client!Say, Client!SayNothing
  <2>4. /\ s \in {"STOPPED", "IDLE", "ASSOCIATING", "WAIT_FOR_SYNC", "CAMERA_OFF", "CAMERA_ON"}
        /\ state[d] = "ASSOCIATING" <=> f = "assoc_resp"
        /\ f # "assoc_resp" => Client!Connected(state[d])
        /\ f = "ota" => s = "STOPPED"
        /\ s # "ASSOCIATING"
    <3>1. state[d] \in {"STOPPED", "IDLE", "ASSOCIATING", "WAIT_FOR_SYNC", "CAMERA_OFF", "CAMERA_ON"}
      BY <1>1 DEF Timed
    <3>2. /\ state[d] = "ASSOCIATING" <=> f = "assoc_resp"
          /\ f # "assoc_resp" => Client!Connected(state[d])
      BY <1>6 DEF Client!Understands, Client!Connected
    <3>3. s \in {"STOPPED", "IDLE", "WAIT_FOR_SYNC", "CAMERA_OFF", "CAMERA_ON", state[d]}
      BY <2>2 DEF Client!After
    <3>4. f = "assoc_resp" => s = "WAIT_FOR_SYNC"
      BY <2>2 DEF Client!After
    <3>5. f = "ota" => s = "STOPPED"
      BY <2>2 DEF Client!After
    <3>. QED
      BY <3>1, <3>2, <3>3, <3>4, <3>5
  <2>5. Timed'
    BY <1>1, <1>2, <1>4, <2>1, HearTyped DEF Timed
  <2>6. ASSUME faults = 0, NEW e \in Devices PROVE Calm(e)'
    <3>1. Calm(e) /\ Calm(d)
      BY <2>6 DEF TimelyInv
    <3>2. CASE e # d
      <4>1. state'[e] = state[e] /\ ota'[e] = ota[e] /\ tx'[e] = tx[e]
            /\ mute'[e] = mute[e] /\ quiet'[e] = quiet[e]
        BY <1>1, <2>3, <3>2 DEF Timed
      <4>. QED
        BY <1>2, <1>3, <3>1, <3>2, <4>1, SparedStaysCalm DEF Spared
    <3>3. CASE e = d
      <4>1. /\ state'[d] = s /\ quiet'[d] = 0
            /\ ota'[d] = IF f = "ota" THEN "running" ELSE ota[d]
            /\ f # "ota" => tx'[d] = tx[d] /\ mute'[d] = mute[d]
            /\ f = "ota" => tx'[d] = tx[d] \cup {"dassoc"}
        BY <1>1, <2>3 DEF Timed
      <4>2. ota[d] # "running" /\ "dassoc" \notin tx[d]
        BY <2>4, <3>1 DEF Calm, Leaving, Client!Connected
      <4>3. "assoc_req" \notin tx[d]
        BY <1>2, <2>4, <3>1 DEF Calm, Asking, Answered, Client!Connected
      <4>4. Leaving(d)' /\ Asking(d)'
        BY <2>4, <4>1, <4>2, <4>3 DEF Leaving, Asking
      <4>5. "assoc_resp" \notin out'[d]
        BY <1>3, <2>4, <3>1 DEF Calm, Answered, Client!Connected
      <4>6. sent[d] \in Nat /\ recv[d] \in Nat /\ mute[d] \in Nat /\ PingInterval \in Nat
        BY <1>1, SystemConstants DEF Timed
      <4>7. Attached(d)'
        <5>1. CASE f = "assoc_resp"
          <6>1. esp[d] = "ASSOCIATED" /\ recv[d] = 0
            BY <1>2, <3>1, <5>1 DEF Calm, Answered
          <6>. QED
            BY <1>2, <4>1, <4>6, <5>1, <6>1 DEF Attached
        <5>2. CASE f # "assoc_resp" /\ f # "ota"
          <6>1. /\ esp[d] \in {"ASSOCIATED", "SYNCED"} /\ recv[d] <= PingInterval
                /\ tx[d] # {} \/ recv[d] <= mute[d]
            BY <2>4, <3>1, <5>2 DEF Calm, Attached
          <6>. QED
            BY <1>2, <4>1, <4>6, <5>2, <6>1 DEF Attached
        <5>3. CASE f = "ota"
          BY <2>4, <4>1, <5>3 DEF Attached, Client!Connected
        <5>. QED
          BY <5>1, <5>2, <5>3
      <4>. QED
        BY <3>3, <4>4, <4>5, <4>7 DEF Calm, Answered
    <3>. QED
      BY <3>2, <3>3
  <2>. QED
    BY <1>2, <2>5, <2>6 DEF TimelyInv
<1>. QED
  BY <1>5, <1>6

\* The server tells all that are listed something, of its own accord.
LEMMA TimelyTold ==
  ASSUME TimelyInv, OtherJoins \/ Config \/ Ota
  PROVE  TimelyInv'
<1>1. Timed
  BY DEF TimelyInv
<1>2. UNCHANGED <<state, ota, tx, quiet, mute, esp, recv, faults>>
  BY DEF OtherJoins, Config, Ota, Server!Obey, clientVars, history
<1>3. PICK g \in {"sync", "config", "ota"} :
        /\ out' = [d \in Devices |-> IF esp[d] # "NONE" THEN out[d] \cup {g} ELSE out[d]]
        /\ sent' = [d \in Devices |-> IF esp[d] # "NONE" THEN 0 ELSE sent[d]]
  <2>1. CASE OtherJoins
    BY <2>1 DEF OtherJoins, Listed
  <2>2. CASE Config
    BY <2>2 DEF Config, Server!Obey, Server!Listed
  <2>3. CASE Ota
    BY <2>3 DEF Ota, Server!Obey, Server!Listed
  <2>. QED
    BY <2>1, <2>2, <2>3
<1>4. Timed'
  <2>1. g \in Server!Frames
    BY DEF Server!Frames
  <2>. QED
    BY <1>1, <1>2, <1>3, <2>1 DEF Timed
<1>5. ASSUME faults = 0, NEW d \in Devices PROVE Calm(d)'
  <2>1. Calm(d)
    BY <1>5 DEF TimelyInv
  <2>2. Spared(d)
    BY <1>2, <1>3 DEF Spared
  <2>. QED
    BY <2>1, <2>2, SparedStaysCalm
<1>. QED
  BY <1>2, <1>4, <1>5 DEF TimelyInv

\* A restart without a fault is that of an updated device, which has said its
\* farewell and to which no answer is on its way.
LEMMA TimelyRestart ==
  ASSUME TimelyInv, NEW d \in Devices, Restart(d)
  PROVE  TimelyInv'
<1>1. Timed
  BY DEF TimelyInv
<1>2. /\ state' = [state EXCEPT ![d] = "ASSOCIATING"] /\ ota' = [ota EXCEPT ![d] = "none"]
      /\ quiet' = [quiet EXCEPT ![d] = RxTimeout] /\ mute' = [mute EXCEPT ![d] = AssocInterval]
      /\ tx' = tx
  BY DEF Restart, Client!Restart
<1>3. /\ faults' \in Nat
      /\ faults' = 0 => faults = 0 /\ ota[d] = "running" /\ tx[d] = {}
  BY <1>1 DEF Restart, Fault, Timed
<1>4. \/ UNCHANGED <<esp, sent, recv, out>>
      \/ /\ esp' = [esp EXCEPT ![d] = "NONE"] /\ sent' = [sent EXCEPT ![d] = PingInterval]
         /\ recv' = [recv EXCEPT ![d] = RxTimeout + 1] /\ out' = [out EXCEPT ![d] = {}]
  BY DEF Restart, ForgetPort, serverVars
<1>5. Timed'
  <2>1. /\ state' \in [Devices -> {"STOPPED", "IDLE", "ASSOCIATING", "WAIT_FOR_SYNC",
                                   "CAMERA_OFF", "CAMERA_ON"}]
        /\ ota' \in [Devices -> {"none", "running", "failed"}]
        /\ quiet' \in [Devices -> Nat] /\ mute' \in [Devices -> Nat]
    BY <1>1, <1>2, SystemConstants DEF Timed
  <2>2. /\ esp' \in [Devices -> {"NONE", "IDLE", "ASSOCIATED", "SYNCED"}]
        /\ sent' \in [Devices -> Nat] /\ recv' \in [Devices -> Nat]
        /\ out' \in [Devices -> SUBSET Server!Frames]
    BY <1>1, <1>4, SystemConstants DEF Timed
  <2>. QED
    BY <1>1, <1>2, <1>3, <2>1, <2>2 DEF Timed
<1>6. ASSUME faults' = 0, NEW e \in Devices PROVE Calm(e)'
  <2>1. Calm(e) /\ Calm(d)
    BY <1>3, <1>6 DEF TimelyInv
  <2>2. CASE e # d
    BY <1>1, <1>2, <1>4, <2>1, <2>2, SparedStaysCalm DEF Spared, Timed
  <2>3. CASE e = d
    <3>1. "assoc_resp" \notin out[d] /\ tx[d] = {}
      BY <1>3, <1>6, <2>1 DEF Calm, Leaving, Answered
    <3>2. "assoc_resp" \notin out'[d] /\ tx'[d] = {} /\ state'[d] = "ASSOCIATING"
          /\ ota'[d] = "none"
      BY <1>1, <1>2, <1>4, <3>1 DEF Timed
    <3>. QED
      BY <2>3, <3>2 DEF Calm, Leaving, Asking, Answered, Attached, Client!Connected
  <2>. QED
    BY <2>2, <2>3
<1>. QED
  BY <1>3, <1>5, <1>6 DEF TimelyInv

\* After a fault nothing is claimed.
LEMMA TimelyFaults ==
  ASSUME TimelyInv,
         \/ ServerRestart
         \/ \E d \in Devices :
              \/ \E f \in Client!ClientFrames : LoseUp(d, f) \/ DuplicateUp(d, f)
              \/ \E f \in Server!Frames : LoseDown(d, f) \/ DuplicateDown(d, f)
  PROVE  TimelyInv'
<1>1. Timed
  BY DEF TimelyInv
<1>2. faults' = faults + 1
  BY DEF ServerRestart, LoseUp, LoseDown, DuplicateUp, DuplicateDown, Fault
<1>3. Timed'
  <2>1. CASE ServerRestart
    BY <1>1, <1>2, <2>1, SystemConstants DEF ServerRestart, clientVars, Timed
  <2>2. ASSUME NEW d \in Devices, NEW f \in Client!ClientFrames, LoseUp(d, f) PROVE Timed'
    BY <1>1, <1>2, <2>2 DEF LoseUp, Client!Leaves, serverVars, Timed
  <2>3. ASSUME NEW d \in Devices, NEW f \in Server!Frames, LoseDown(d, f) PROVE Timed'
    BY <1>1, <1>2, <2>3 DEF LoseDown, Take, clientVars, Timed
  <2>4. ASSUME NEW d \in Devices, NEW f \in Client!ClientFrames, DuplicateUp(d, f) PROVE Timed'
    <3>1. PICK kind : kind = Kind(f)
      OBVIOUS
    <3>2. Server!Read(d, kind) /\ kind # "bad_version"
      BY <2>4, <3>1 DEF DuplicateUp, Kind, Client!ClientFrames
    <3>3. Heard(d, kind)
      BY <1>1, <3>2, ReadEffect
    <3>. QED
      BY <1>1, <1>2, <2>4, <3>3 DEF DuplicateUp, Heard, clientVars, Timed
  <2>5. ASSUME NEW d \in Devices, NEW f \in Server!Frames, DuplicateDown(d, f) PROVE Timed'
    BY <1>1, <1>2, <2>5, HearTyped DEF DuplicateDown, serverVars, Timed
  <2>. QED
    BY <2>1, <2>2, <2>3, <2>4, <2>5
<1>. QED
  BY <1>1, <1>2, <1>3 DEF TimelyInv, Timed

\* Time passes when all is said and read.
LEMMA TimelyTick ==
  ASSUME TimelyInv, Tick
  PROVE  TimelyInv'
<1>1. Timed
  BY DEF TimelyInv
<1>2. /\ quiet' = [d \in Devices |-> Client!Older(quiet[d], RxTimeout)]
      /\ mute' = [d \in Devices |-> Client!Older(mute[d], AssocInterval)]
      /\ sent' = [d \in Devices |-> Server!Older(sent[d], PingInterval)]
      /\ recv' = [d \in Devices |-> Server!Older(recv[d], RxTimeout + 1)]
      /\ UNCHANGED <<state, ota, tx, esp, out, faults>>
  BY DEF Tick, Client!Tick, Server!Tick, history
<1>3. Timed'
  BY <1>1, <1>2 DEF Client!Older, Server!Older, Timed
<1>4. ASSUME faults = 0, NEW d \in Devices PROVE Calm(d)'
  <2>1. Calm(d) /\ tx[d] = {} /\ out[d] = {}
    BY <1>4 DEF TimelyInv, Tick
  <2>2. Leaving(d)' /\ Asking(d)' /\ Answered(d)'
    BY <1>2, <2>1 DEF Calm, Leaving, Asking, Answered
  <2>3. Attached(d)'
    <3>1. SUFFICES ASSUME Client!Connected(state[d]) PROVE Attached(d)'
      BY <1>2 DEF Attached
    <3>2. /\ esp[d] \in {"ASSOCIATED", "SYNCED"}
          /\ recv[d] <= mute[d] /\ quiet[d] <= sent[d]
      BY <2>1, <3>1 DEF Calm, Attached
    <3>3. ~ (mute[d] >= PingInterval)
      BY <3>1 DEF Tick, Client!Due, Client!Connected
    <3>4. ~ (sent[d] >= PingInterval)
      BY <3>2 DEF Tick, Server!PingDue, Server!Listed
    <3>5. recv[d] \in Nat /\ mute[d] \in Nat /\ quiet[d] \in Nat /\ sent[d] \in Nat
      BY <1>1 DEF Timed
    <3>6. /\ recv'[d] <= recv[d] + 1 /\ mute'[d] = mute[d] + 1
          /\ quiet'[d] <= quiet[d] + 1 /\ sent'[d] = sent[d] + 1
          /\ recv'[d] \in Nat /\ quiet'[d] \in Nat
      BY <1>2, <3>3, <3>4, <3>5, SystemConstants DEF Client!Older, Server!Older
    <3>7. /\ recv'[d] <= PingInterval /\ recv'[d] <= mute'[d]
          /\ quiet'[d] <= PingInterval /\ quiet'[d] <= sent'[d]
      BY <3>2, <3>3, <3>4, <3>5, <3>6, SystemConstants
    <3>. QED
      BY <1>2, <3>2, <3>7 DEF Attached
  <2>. QED
    BY <2>2, <2>3 DEF Calm
<1>. QED
  BY <1>2, <1>3, <1>4 DEF TimelyInv

LEMMA TimelyStep ==
  ASSUME TimelyInv, [Next]_vars
  PROVE  TimelyInv'
<1>1. CASE UNCHANGED vars
  <2>1. UNCHANGED <<state, ota, tx, quiet, mute, esp, sent, recv, out, faults>>
    BY <1>1 DEF vars, clientVars, serverVars, rest, history
  <2>. QED
    BY <2>1 DEF TimelyInv, Timed, Calm, Leaving, Asking, Answered, Attached
<1>2. CASE Next
  BY <1>2, TimelyTick, TimelyTold, TimelyFaults, TimelyPoll, TimelyFilm,
     TimelyUpdateFails, TimelyWalk, TimelyRestart, TimelyUp, TimelyDown
  DEF Next, UpAny, DownAny
<1>. QED
  BY <1>1, <1>2

(***************************************************************************)
(* As long as nothing is lost, comes twice or crashes, what is on its way  *)
(* and the timers of both ends are related as TimelyInv says.              *)
(***************************************************************************)
THEOREM TimelyInvariant == Spec => []TimelyInv
<1>1. Init => TimelyInv
  BY TimelyInit
<1>2. TimelyInv /\ [Next]_vars => TimelyInv'
  BY TimelyStep
<1>. QED
  BY <1>1, <1>2, PTL DEF Spec

(***************************************************************************)
(* Neither end takes the other for silent before something was lost, came  *)
(* twice or crashed, if a timeout is longer than the interval of the pings *)
(* (ep_impl.c:128, 144; esp_lib.py:173, 180).                              *)
(***************************************************************************)
THEOREM SystemTimeoutMeansFault == Spec => TimeoutMeansFault
<1>1. ASSUME TimelyInv, NEW d \in Devices, Client!Connected(state[d]),
             \/ Poll(d) /\ state'[d] = "ASSOCIATING"
             \/ Walk(d) /\ esp'[d] = "NONE"
      PROVE  faults > 0
  <2>1. Timed
    BY <1>1 DEF TimelyInv
  <2>2. SUFFICES ASSUME faults = 0 PROVE FALSE
    BY <2>1 DEF Timed
  <2>3. /\ esp[d] \in {"ASSOCIATED", "SYNCED"}
        /\ recv[d] <= PingInterval /\ quiet[d] <= PingInterval
    BY <1>1, <2>2 DEF TimelyInv, Calm, Attached
  <2>4. recv[d] \in Nat /\ quiet[d] \in Nat
    BY <2>1 DEF Timed
  <2>5. CASE Poll(d) /\ state'[d] = "ASSOCIATING"
    <3>1. state' = state
      BY <2>3, <2>4, <2>5, SystemConstants DEF Poll, Client!Poll
    <3>. QED
      BY <1>1, <2>5, <3>1 DEF Client!Connected
  <2>6. CASE Walk(d) /\ esp'[d] = "NONE"
    <3>1. ~ Server!Silent(d)
      BY <2>3, <2>4, SystemConstants DEF Server!Silent
    <3>2. esp' = [esp EXCEPT ![d] = esp[d]]
      BY <2>6, <3>1 DEF Walk, Server!Walk
    <3>. QED
      BY <2>1, <2>3, <2>6, <3>2 DEF Timed
  <2>. QED
    BY <1>1, <2>5, <2>6
<1>2. TimelyInv /\ [Next]_vars =>
        [\A d \in Devices :
           /\ Client!Connected(state[d])
           /\ \/ Poll(d) /\ state'[d] = "ASSOCIATING"
              \/ Walk(d) /\ esp'[d] = "NONE"
           => faults > 0]_vars
  BY <1>1
<1>. QED
  BY <1>2, TimelyInvariant, PTL DEF Spec, TimeoutMeansFault
=============================================================================
