-------------------------------- MODULE Board --------------------------------
(***************************************************************************)
(* A board and its Wi-Fi connection: app_main, wifi_connect, the event     *)
(* handlers, the tasks and the shutdown handler of                         *)
(* src/esp32/main/eyeotine.c.                                              *)
(*                                                                         *)
(* app_main starts the driver and sleeps on a semaphore that the handler   *)
(* of GOT_IP gives; the handlers run in the task of the event loop, one    *)
(* event at a time, whatever the other tasks do.  The driver, the event    *)
(* loop and FreeRTOS are modelled as far as this code uses them.  A failed *)
(* ESP_ERROR_CHECK or assertion resets the board.                          *)
(***************************************************************************)
EXTENDS Naturals, Sequences

CONSTANTS
  MaxTrouble,  \* bound: outages of the access point, failing calls, OTA frames
  NULL         \* a pointer to nothing

ASSUME BoardConstants == MaxTrouble \in Nat /\ NULL \notin Nat

VARIABLES
  main,       \* what app_main does next
  semaphore,  \* s_semph_get_ip_addr: its count, or NULL
  handlers,   \* whether the two event handlers are registered
  driver,     \* the Wi-Fi driver
  events,     \* posted to the event loop and not yet dispatched
  ap,         \* whether the access point can be reached
  eyeotine,   \* eyeotine_task
  camera,     \* eyeotine_camera_task
  ota,        \* ota_task, and the steps of the esp_restart() it calls
  trouble,    \* history: what went wrong so far, and OTA frames
  had_ip,     \* history: whether an address was given since the last reset
  reason      \* history: why the board was last reset

wifi == <<semaphore, handlers, driver, events>>

tasks == <<eyeotine, camera, ota>>

history == <<trouble, had_ip, reason>>

vars == <<main, wifi, ap, tasks, history>>

TypeOK ==
  /\ main \in {"nvs", "wifi", "semaphore", "wait", "tasks", "done"}
  /\ semaphore \in {NULL, 0, 1}
  /\ handlers \in BOOLEAN
  /\ driver \in {"off", "stopped", "started", "connecting", "connected"}
  /\ events \in Seq({"disconnected", "got_ip"})
  /\ ap \in BOOLEAN
  /\ eyeotine \in {"none", "starting", "running", "error"}
  /\ camera \in {"none", "starting", "running", "error"}
  /\ ota \in {"none", "running", "failed", "unregister", "stop", "deinit", "reset"}
  /\ trouble \in 0 .. MaxTrouble
  /\ had_ip \in BOOLEAN
  /\ reason \in {"power", "update", "give", "connect", "failure"}

\* What every start finds: all of the RAM is lost.
Fresh ==
  [main |-> "nvs", semaphore |-> NULL, handlers |-> FALSE, driver |-> "off",
   events |-> <<>>, task |-> "none", had_ip |-> FALSE]

Init ==
  /\ main = Fresh.main
  /\ semaphore = Fresh.semaphore
  /\ handlers = Fresh.handlers
  /\ driver = Fresh.driver
  /\ events = Fresh.events
  /\ eyeotine = Fresh.task
  /\ camera = Fresh.task
  /\ ota = Fresh.task
  /\ had_ip = Fresh.had_ip
  /\ ap \in BOOLEAN
  /\ trouble = 0
  /\ reason = "power"

Reset(why) ==
  /\ main' = Fresh.main
  /\ semaphore' = Fresh.semaphore
  /\ handlers' = Fresh.handlers
  /\ driver' = Fresh.driver
  /\ events' = Fresh.events
  /\ eyeotine' = Fresh.task
  /\ camera' = Fresh.task
  /\ ota' = Fresh.task
  /\ had_ip' = Fresh.had_ip
  /\ reason' = why
  /\ UNCHANGED ap

Trouble ==
  /\ trouble < MaxTrouble
  /\ trouble' = trouble + 1

-----------------------------------------------------------------------------
(* app_main and wifi_connect *)

\* nvs_flash_init, after nvs_flash_erase if need be; esp_netif_init and the
\* event loop.
InitNvs ==
  /\ main = "nvs"
  /\ main' = "wifi"
  /\ UNCHANGED <<wifi, ap, tasks, history>>

\* The driver is set up, started and told to connect; the handlers are there
\* before it is started.
wifi_start ==
  /\ main = "wifi"
  /\ handlers' = TRUE
  /\ driver' = "connecting"
  /\ main' = "semaphore"
  /\ UNCHANGED <<semaphore, events, ap, tasks, history>>

\* An ESP_ERROR_CHECK of app_main fails: of the two, of the registration of
\* wifi_stop, or of the call for the address after the semaphore is taken.
SetUpFails ==
  /\ main \in {"nvs", "wifi", "semaphore", "tasks"}
  /\ Trouble
  /\ Reset("failure")

CreateSemaphore ==
  /\ main = "semaphore"
  /\ semaphore' = 0
  /\ main' = "wait"
  /\ UNCHANGED <<handlers, driver, events, ap, tasks, history>>

\* Mutant: the task does not wait for the semaphore.
TakeSemaphore_Polls ==
  /\ main = "wait"
  /\ semaphore' = 0
  /\ main' = "tasks"
  /\ UNCHANGED <<handlers, driver, events, ap, tasks, history>>

TakeSemaphore ==
  /\ main = "wait"
  /\ semaphore = 1
  /\ semaphore' = 0
  /\ main' = "tasks"
  /\ UNCHANGED <<handlers, driver, events, ap, tasks, history>>

\* The result of xTaskCreate is not looked at, here and below: without
\* memory for it the task is silently missing.
CreateTask ==
  /\ main = "tasks"
  /\ \/ eyeotine' = "starting" /\ UNCHANGED trouble
     \/ Trouble /\ UNCHANGED eyeotine
  /\ main' = "done"
  /\ UNCHANGED <<wifi, ap, camera, ota, had_ip, reason>>

-----------------------------------------------------------------------------
(* The driver, as esp_wifi_connect and the events make it known. *)

Post(event) == events' = Append(events, event)

Connects ==
  /\ driver = "connecting"
  /\ ap
  /\ driver' = "connected"
  /\ Post("got_ip")
  /\ UNCHANGED <<main, semaphore, handlers, ap, tasks, history>>

ConnectionEnds ==
  /\ driver \in {"connecting", "connected"}
  /\ ~ ap
  /\ driver' = "started"
  /\ Post("disconnected")
  /\ UNCHANGED <<main, semaphore, handlers, ap, tasks, history>>

Outage ==
  /\ ap
  /\ Trouble
  /\ ap' = FALSE
  /\ UNCHANGED <<main, wifi, tasks, had_ip, reason>>

ApReturns ==
  /\ ~ ap
  /\ ap' = TRUE
  /\ UNCHANGED <<main, wifi, tasks, history>>

-----------------------------------------------------------------------------
(* The event loop.  Unregistering waits for a handler that is running.     *)

NoHandler ==
  /\ events # <<>>
  /\ ~ handlers
  /\ events' = Tail(events)
  /\ UNCHANGED <<main, semaphore, handlers, driver, ap, tasks, history>>

\* Mutant: a lost connection is given up.
on_wifi_disconnect_GivesUp ==
  /\ events # <<>> /\ Head(events) = "disconnected" /\ handlers
  /\ events' = Tail(events)
  /\ UNCHANGED <<main, semaphore, handlers, driver, ap, tasks, history>>

(***************************************************************************)
(* esp_wifi_connect refuses when the driver is stopped, which the handler  *)
(* expects, and when there is no driver, which it does not.                *)
(***************************************************************************)
on_wifi_disconnect ==
  /\ events # <<>> /\ Head(events) = "disconnected" /\ handlers
  /\ \/ /\ driver = "off"
        /\ Reset("connect")
        /\ UNCHANGED trouble
     \/ /\ driver # "off"
        /\ driver' = IF driver = "started" THEN "connecting" ELSE driver
        /\ events' = Tail(events)
        /\ UNCHANGED <<main, semaphore, handlers, ap, tasks, history>>

\* Mutant: the semaphore counts on.
Given_Uncounted == semaphore + 1

\* xSemaphoreGive: the semaphore holds one at most.
Given == 1

\* Mutant: no semaphore, nothing to give.
on_got_ip_Skips ==
  /\ events # <<>> /\ Head(events) = "got_ip" /\ handlers
  /\ semaphore' = IF semaphore = NULL THEN NULL ELSE Given
  /\ events' = Tail(events)
  /\ had_ip' = TRUE
  /\ UNCHANGED <<main, handlers, driver, ap, tasks, trouble, reason>>

\* A semaphore that is not there yet fails an assertion of xSemaphoreGive.
on_got_ip ==
  /\ events # <<>> /\ Head(events) = "got_ip" /\ handlers
  /\ \/ /\ semaphore = NULL
        /\ Reset("give")
        /\ UNCHANGED trouble
     \/ /\ semaphore # NULL
        /\ semaphore' = Given
        /\ events' = Tail(events)
        /\ had_ip' = TRUE
        /\ UNCHANGED <<main, handlers, driver, ap, tasks, trouble, reason>>

-----------------------------------------------------------------------------
(* The tasks. *)

\* Without a socket eyeotine_task complains for ever and creates no camera task.
StartEyeotine ==
  /\ eyeotine = "starting"
  /\ \/ eyeotine' = "running" /\ camera' = "starting" /\ UNCHANGED trouble
     \/ eyeotine' = "running" /\ Trouble /\ UNCHANGED camera
     \/ eyeotine' = "error" /\ Trouble /\ UNCHANGED camera
  /\ UNCHANGED <<main, wifi, ap, ota, had_ip, reason>>

StartCamera ==
  /\ camera = "starting"
  /\ \/ camera' = "running" /\ UNCHANGED trouble
     \/ camera' = "error" /\ Trouble
  /\ UNCHANGED <<main, wifi, ap, eyeotine, ota, had_ip, reason>>

\* esp_camera_fb_get returns NULL and the task reads through it.
NoPicture ==
  /\ camera = "running"
  /\ Trouble
  /\ Reset("failure")

\* start_ota, in eyeotine_task; a task that is not created counts as failed.
start_ota ==
  /\ eyeotine = "running"
  /\ driver = "connected"
  /\ ota = "none"
  /\ Trouble
  /\ ota' \in {"running", "failed"}
  /\ UNCHANGED <<main, wifi, ap, eyeotine, camera, had_ip, reason>>

\* esp_https_ota returns; with an image installed comes esp_restart(), which
\* runs wifi_stop first.
EndOta ==
  /\ ota = "running"
  /\ \/ driver = "connected" /\ ota' = "unregister"
     \/ ota' = "failed"
  /\ UNCHANGED <<main, wifi, ap, eyeotine, camera, history>>

StopDriver ==
  /\ driver' = "stopped"
  /\ IF driver = "connected" THEN Post("disconnected") ELSE UNCHANGED events

\* Mutant: the handlers are unregistered when the driver is gone.
wifi_stop_Late ==
  /\ \/ /\ ota = "unregister"
        /\ StopDriver
        /\ ota' = "stop"
        /\ UNCHANGED handlers
     \/ /\ ota = "stop"
        /\ driver' = "off"
        /\ ota' = "deinit"
        /\ UNCHANGED <<handlers, events>>
     \/ /\ ota = "deinit"
        /\ handlers' = FALSE
        /\ ota' = "reset"
        /\ UNCHANGED <<driver, events>>
  /\ UNCHANGED <<main, semaphore, ap, eyeotine, camera, history>>

wifi_stop ==
  /\ \/ /\ ota = "unregister"
        /\ handlers' = FALSE
        /\ ota' = "stop"
        /\ UNCHANGED <<driver, events>>
     \/ /\ ota = "stop"
        /\ StopDriver
        /\ ota' = "deinit"
        /\ UNCHANGED handlers
     \/ /\ ota = "deinit"
        /\ driver' = "off"
        /\ ota' = "reset"
        /\ UNCHANGED <<handlers, events>>
  /\ UNCHANGED <<main, semaphore, ap, eyeotine, camera, history>>

Restart ==
  /\ ota = "reset"
  /\ Reset("update")
  /\ UNCHANGED trouble

-----------------------------------------------------------------------------
Main == InitNvs \/ wifi_start \/ TakeSemaphore \/ CreateTask

Loop == NoHandler \/ on_wifi_disconnect \/ on_got_ip

Ota == EndOta \/ wifi_stop \/ Restart

Next ==
  \/ Main \/ CreateSemaphore \/ SetUpFails
  \/ Loop
  \/ Connects \/ ConnectionEnds \/ Outage \/ ApReturns
  \/ StartEyeotine \/ StartCamera \/ NoPicture \/ start_ota \/ Ota

Spec == Init /\ [][Next]_vars

(***************************************************************************)
(* Each task runs when it can, and so does the driver.  An address that    *)
(* comes before the semaphore is there resets the board; it may do so any  *)
(* number of times, not always, for the driver takes far longer to connect *)
(* than app_main to go on.                                                 *)
(***************************************************************************)
FairSpec ==
  /\ Spec
  /\ WF_vars(Main) /\ SF_vars(CreateSemaphore)
  /\ WF_vars(Loop) /\ WF_vars(Connects) /\ WF_vars(ConnectionEnds)
  /\ WF_vars(StartEyeotine) /\ WF_vars(StartCamera) /\ WF_vars(Ota)
-----------------------------------------------------------------------------
(* Properties. *)

(***************************************************************************)
(* app_main is never left asleep with an address there: the give of the    *)
(* handler is not lost, neither before the semaphore exists, where it      *)
(* resets the board instead, nor when connections come and go before       *)
(* app_main looks (eyeotine.c:402, 471-475).                               *)
(***************************************************************************)
WakeUpNotLost ==
  main = "wait" /\ driver = "connected" =>
    semaphore = 1 \/ \E k \in DOMAIN events : events[k] = "got_ip"

(***************************************************************************)
(* No task of the application runs before this start of the board got an   *)
(* address (eyeotine.c:475, 507, 512).                                     *)
(***************************************************************************)
NoWorkWithoutAddress ==
  eyeotine # "none" \/ camera # "none" \/ ota # "none" => had_ip

(***************************************************************************)
(* The handler that reconnects never meets a driver that is gone, though   *)
(* stopping the driver posts the very event it handles: the restart after  *)
(* an update is not cut short by a panic (eyeotine.c:385-389, 452-464).    *)
(***************************************************************************)
ShutdownIsClean == reason # "connect"

(***************************************************************************)
(* However often the access point was away and the board was reset, once   *)
(* the access point stays the board gets through to it, starts its tasks   *)
(* and stays connected or comes back (eyeotine.c:382-390, 467-490).        *)
(***************************************************************************)
ComesOnline == <>[]ap => []<>(driver = "connected" /\ main = "done")
=============================================================================
