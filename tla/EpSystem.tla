------------------------------- MODULE EpSystem -------------------------------
(***************************************************************************)
(* The devices, the server, the operator and the network between them: the *)
(* composition of ClientSession and ServerSession, which EpClient and      *)
(* EpServer implement.  Time is coarse.  A frame reaches its receiver, or  *)
(* is lost, before the next tick, in any order with the others; between    *)
(* two ticks each client is polled, and the server has pinged and dropped  *)
(* whom it has to.  Clients that are not among Devices matter to these     *)
(* only by the SYNC that each of their associations sends to everybody.    *)
(***************************************************************************)
EXTENDS Integers, FiniteSets

CONSTANTS
  Devices, PingInterval, AssocInterval, RxTimeout, MaxGap,
  Faults,    \* the kinds of fault that may happen
  MaxEvents  \* bound: frames lost or duplicated, crashes of devices and of the
             \*   server, and commands of the operator, together

ASSUME SystemConstants ==
  /\ Faults \subseteq {"loss", "duplicate", "crash"}
  /\ PingInterval \in Nat
  /\ AssocInterval \in Nat \ {0}
  /\ RxTimeout \in Nat
  /\ PingInterval <= AssocInterval
  /\ PingInterval < RxTimeout

VARIABLES
  state, send_images, ota, tx, quiet, mute, gap,  \* of ClientSession
  esp, sent, recv, out,                           \* of ServerSession
  filmed,   \* devices that sent an image since the last tick
  joined,   \* whether another client associated since the last tick
  faults,   \* history: faults so far
  configs,  \* history: config commands so far
  otas,     \* history: OTA commands so far
  missed    \* history: devices whose flag is not what the commands make of it,
            \*   for they were not there, lost a frame or had it twice, or
            \*   lost their memory

Client == INSTANCE ClientSession

Server == INSTANCE ServerSession WITH Peers <- Devices

clientVars == <<state, send_images, ota, tx, quiet, mute, gap>>

serverVars == <<esp, sent, recv, out>>

history == <<faults, configs, otas, missed>>

rest == <<filmed, joined, history>>

vars == <<clientVars, serverVars, rest>>

Init ==
  /\ Client!Init
  /\ Server!Init
  /\ filmed = {}
  /\ joined = FALSE
  /\ faults = 0
  /\ configs = 0
  /\ otas = 0
  /\ missed = {}

Listed(d) == esp[d] # "NONE"

\* What the commands make of the flag of a device that hears all of them.
Wanted == configs % 2 = 1

MayHappen == faults + configs + otas < MaxEvents

Fault(kind) ==
  /\ kind \in Faults
  /\ MayHappen
  /\ faults' = faults + 1

-----------------------------------------------------------------------------
(* The two ends. *)

Poll(d) == Client!Poll(d) /\ UNCHANGED <<serverVars, rest>>

\* The camera task sleeps for 5 s after each image.
Film(d) ==
  /\ d \notin filmed
  /\ Client!Film(d)
  /\ filmed' = filmed \cup {d}
  /\ UNCHANGED <<serverVars, joined, history>>

UpdateFails(d) == Client!UpdateFails(d) /\ UNCHANGED <<serverVars, rest>>

Walk(d) == Server!Walk(d) /\ UNCHANGED <<clientVars, rest>>

\* What a frame of a client is to the server.
Kind(f) ==
  CASE f = "assoc_req" -> "assoc"
    [] f = "ping" -> "other"
    [] OTHER -> f

Up(d, f) ==
  /\ Client!Leaves(d, f)
  /\ Server!Read(d, Kind(f))
  /\ UNCHANGED rest

Take(d, f) ==
  /\ f \in out[d]
  /\ out' = [out EXCEPT ![d] = @ \ {f}]
  /\ UNCHANGED <<esp, sent, recv>>

MissedIf(d, lost) == missed' = IF lost THEN missed \cup {d} ELSE missed

\* A frame that the client does not expect in its state is discarded.
Down(d, f) ==
  /\ Take(d, f)
  /\ \/ Client!Hear(d, f)
     \/ ~ Client!Understands(state[d], f) /\ UNCHANGED clientVars
  /\ MissedIf(d, f = "config" /\ ~ Client!Understands(state[d], f))
  /\ UNCHANGED <<filmed, joined, faults, configs, otas>>

\* ReadAssociated of another client.
OtherJoins ==
  /\ ~ joined
  /\ joined' = TRUE
  /\ out' = [d \in Devices |-> IF Listed(d) THEN out[d] \cup {"sync"} ELSE out[d]]
  /\ sent' = [d \in Devices |-> IF Listed(d) THEN 0 ELSE sent[d]]
  /\ UNCHANGED <<esp, recv, clientVars, filmed, history>>

-----------------------------------------------------------------------------
(* The operator.  Two config frames to one device would be one element of  *)
(* out: commands are further apart than that.                              *)

Config ==
  /\ MayHappen
  /\ \A d \in Devices : "config" \notin out[d]
  /\ Server!Obey("config")
  /\ configs' = configs + 1
  /\ missed' = missed \cup {d \in Devices : ~ Listed(d)}
  /\ UNCHANGED <<clientVars, filmed, joined, faults, otas>>

Ota ==
  /\ MayHappen
  /\ Server!Obey("ota")
  /\ otas' = otas + 1
  /\ UNCHANGED <<clientVars, filmed, joined, faults, configs, missed>>

-----------------------------------------------------------------------------
(* Faults. *)

LoseUp(d, f) ==
  /\ Client!Leaves(d, f)
  /\ Fault("loss")
  /\ UNCHANGED <<serverVars, filmed, joined, configs, otas, missed>>

LoseDown(d, f) ==
  /\ Take(d, f)
  /\ Fault("loss")
  /\ MissedIf(d, f = "config")
  /\ UNCHANGED <<clientVars, filmed, joined, configs, otas>>

\* The network delivers a frame twice: here once, and again by Up or Down.
DuplicateUp(d, f) ==
  /\ f \in tx[d]
  /\ Server!Read(d, Kind(f))
  /\ Fault("duplicate")
  /\ UNCHANGED <<clientVars, filmed, joined, configs, otas, missed>>

DuplicateDown(d, f) ==
  /\ f \in out[d]
  /\ Client!Hear(d, f)
  /\ Fault("duplicate")
  /\ MissedIf(d, f = "config")
  /\ UNCHANGED <<serverVars, filmed, joined, configs, otas>>

\* The device comes back from another port: nothing it sent or is sent by
\* then concerns it, and the server does not know it.
ForgetPort(d) ==
  /\ esp' = [esp EXCEPT ![d] = "NONE"]
  /\ sent' = [sent EXCEPT ![d] = PingInterval]
  /\ recv' = [recv EXCEPT ![d] = RxTimeout + 1]
  /\ out' = [out EXCEPT ![d] = {}]

(***************************************************************************)
(* A device starts again, after an update, which takes longer than a frame *)
(* does, or a crash; its socket has the same port as before, or another    *)
(* one.                                                                    *)
(***************************************************************************)
Restart(d) ==
  /\ Client!Restart(d)
  /\ \/ ota[d] = "running" /\ tx[d] = {} /\ UNCHANGED faults
     \/ Fault("crash")
  /\ ForgetPort(d) \/ UNCHANGED serverVars
  /\ MissedIf(d, Wanted \/ "config" \in out[d])
  /\ UNCHANGED <<filmed, joined, configs, otas>>

\* The server process starts again, with an empty list.
ServerRestart ==
  /\ Fault("crash")
  /\ esp' = [d \in Devices |-> "NONE"]
  /\ sent' = [d \in Devices |-> PingInterval]
  /\ recv' = [d \in Devices |-> RxTimeout + 1]
  /\ UNCHANGED <<out, clientVars, filmed, joined, configs, otas, missed>>

-----------------------------------------------------------------------------
Tick ==
  /\ \A d \in Devices :
       /\ tx[d] = {} /\ out[d] = {}
       /\ Client!Due(d) = {}
       /\ ~ Server!PingDue(d)
       /\ ~ Server!Silent(d)
  /\ Client!Tick
  /\ Server!Tick
  /\ filmed' = {}
  /\ joined' = FALSE
  /\ UNCHANGED history

UpAny(d) == \E f \in Client!ClientFrames : Up(d, f)

DownAny(d) == \E f \in Server!Frames : Down(d, f)

Next ==
  \/ Tick
  \/ Config
  \/ Ota
  \/ ServerRestart
  \/ OtherJoins
  \/ \E d \in Devices :
       \/ Poll(d) \/ Film(d) \/ UpdateFails(d) \/ Walk(d) \/ Restart(d)
       \/ UpAny(d) \/ DownAny(d)
       \/ \E f \in Client!ClientFrames : LoseUp(d, f) \/ DuplicateUp(d, f)
       \/ \E f \in Server!Frames : LoseDown(d, f) \/ DuplicateDown(d, f)

Spec == Init /\ [][Next]_vars

(***************************************************************************)
(* Both loops go on and what is neither lost nor overtaken by a restart is *)
(* delivered.  Time passes however much is said in between: a tick is      *)
(* possible again and again, not all the time.                             *)
(***************************************************************************)
FairSpec ==
  /\ Spec
  /\ SF_vars(Tick)
  /\ \A d \in Devices : WF_vars(Poll(d)) /\ WF_vars(Walk(d))
                          /\ WF_vars(UpAny(d)) /\ WF_vars(DownAny(d))
-----------------------------------------------------------------------------
(* Properties. *)

(***************************************************************************)
(* While nothing is lost, nothing comes twice and nothing crashes, neither *)
(* end ever takes the other for silent: each side's pings come in time for *)
(* the other's timeout, whatever has been said before, through every       *)
(* association and update (ep_impl.c:128, 144; esp_lib.py:176, 180).       *)
(***************************************************************************)
TimeoutMeansFault ==
  [][\A d \in Devices :
       /\ Client!Connected(state[d])
       /\ \/ Poll(d) /\ state'[d] = "ASSOCIATING"
          \/ Walk(d) /\ esp'[d] = "NONE"
       => faults > 0]_vars

(***************************************************************************)
(* The flag of a device is what the config commands so far make of it,     *)
(* unless one of them went without it: no disconnection, timeout or        *)
(* association changes it, so that one more command finds all the devices  *)
(* that were there in step (eyeotine.c:117; mqtt_lib.py:33).               *)
(***************************************************************************)
InStepUnlessMissed ==
  \A d \in Devices \ missed : "config" \notin out[d] => send_images[d] = Wanted

(***************************************************************************)
(* After the last fault the two ends come to agree, on a connection or on  *)
(* none: a device and the server do not hold each other off for ever, with *)
(* requests that only remove the entry or farewells that cross them, and a *)
(* device that has left is forgotten.  A device that waits for its SYNC is *)
(* connected here: that is for SyncedIsAvailable (esp_lib.py:161, 180;     *)
(* ep_impl.c:110, 143, 409).                                               *)
(***************************************************************************)
BothEndsAgree ==
  \A d \in Devices :
    \/ <>[](Client!Connected(state[d]) /\ esp[d] = "SYNCED")
    \/ <>[](state[d] \in {"IDLE", "STOPPED"} /\ ~ Listed(d))

(***************************************************************************)
(* Of the server's state Synced: "In this state, all features of the       *)
(* connection are available" (docs/eyeotine-protocol.md:122).  A client    *)
(* that waits for its SYNC has none of them.  A SYNC that is lost is       *)
(* repeated only when another client associates: see README, Findings.     *)
(***************************************************************************)
SyncedIsAvailable ==
  \A d \in Devices :
    esp[d] = "SYNCED" /\ state[d] = "WAIT_FOR_SYNC"
      ~> ~ (esp[d] = "SYNCED" /\ state[d] = "WAIT_FOR_SYNC")
=============================================================================
