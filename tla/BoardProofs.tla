----------------------------- MODULE BoardProofs -----------------------------
(***************************************************************************)
(* Theorems about Board, for any number of outages, failures and updates.  *)
(***************************************************************************)
EXTENDS Board, TLAPS

Event == {"disconnected", "got_ip"}

\* An event that is waiting for its turn.
Pending(event, queue) == \E k \in DOMAIN queue : queue[k] = event

\* What is posted is pending, behind what was pending already.
LEMMA PendingAppend ==
  ASSUME NEW q \in Seq(Event), NEW e \in Event, NEW x \in Event
  PROVE  /\ Append(q, e) \in Seq(Event)
         /\ Pending(e, Append(q, e))
         /\ Pending(x, q) => Pending(x, Append(q, e))
<1>1. Append(q, e) \in Seq(Event)
  OBVIOUS
<1>2. Pending(e, Append(q, e))
  <2>1. Len(q) + 1 \in DOMAIN Append(q, e) /\ Append(q, e)[Len(q) + 1] = e
    OBVIOUS
  <2>. QED
    BY <2>1 DEF Pending
<1>3. ASSUME Pending(x, q) PROVE Pending(x, Append(q, e))
  <2>1. PICK k \in DOMAIN q : q[k] = x
    BY <1>3 DEF Pending
  <2>2. k \in DOMAIN Append(q, e) /\ Append(q, e)[k] = x
    BY <2>1
  <2>. QED
    BY <2>2 DEF Pending
<1>. QED
  BY <1>1, <1>2, <1>3

\* What is pending and not dispatched stays pending.
LEMMA PendingTail ==
  ASSUME NEW q \in Seq(Event), q # <<>>, NEW x \in Event
  PROVE  /\ Tail(q) \in Seq(Event)
         /\ Pending(x, q) /\ Head(q) # x => Pending(x, Tail(q))
<1>1. Tail(q) \in Seq(Event)
  OBVIOUS
<1>2. ASSUME Pending(x, q), Head(q) # x PROVE Pending(x, Tail(q))
  <2>1. PICK k \in DOMAIN q : q[k] = x
    BY <1>2 DEF Pending
  <2>2. k # 1
    BY <1>2, <2>1
  <2>3. k - 1 \in DOMAIN Tail(q) /\ Tail(q)[k - 1] = x
    BY <2>1, <2>2
  <2>. QED
    BY <2>3 DEF Pending
<1>. QED
  BY <1>1, <1>2

-----------------------------------------------------------------------------
(* The inductive invariant: app_main, the driver, the handlers and the     *)
(* tasks are at stages that belong together.                               *)

\* What app_main has set up by now.
SetUp ==
  /\ semaphore = NULL <=> main \in {"nvs", "wifi", "semaphore"}
  /\ handlers <=> main \notin {"nvs", "wifi"} /\ ota \notin {"stop", "deinit", "reset"}
  /\ driver = "off" => main \in {"nvs", "wifi"} \/ ota = "reset"

\* The tasks come after app_main, and after an address.
TasksLast ==
  /\ eyeotine # "none" => main = "done"
  /\ camera # "none" \/ ota # "none" => eyeotine # "none"
  /\ semaphore = 1 \/ main \in {"tasks", "done"} => had_ip

\* An address that app_main will want to know of is on its way to it.
OnItsWay ==
  main \in {"semaphore", "wait"} /\ driver = "connected" =>
    semaphore = 1 \/ Pending("got_ip", events)

BoardInv ==
  /\ TypeOK
  /\ SetUp
  /\ TasksLast
  /\ OnItsWay
  /\ ShutdownIsClean

\* What the invariant is there for.
LEMMA BoardInvImplies ==
  ASSUME BoardInv
  PROVE  WakeUpNotLost /\ NoWorkWithoutAddress
  BY DEF BoardInv, OnItsWay, TasksLast, Pending, WakeUpNotLost, NoWorkWithoutAddress

\* Every start is as the first one.
LEMMA BoardReset ==
  ASSUME BoardInv, NEW why \in {"power", "update", "give", "failure"}, Reset(why),
         trouble' \in 0 .. MaxTrouble
  PROVE  BoardInv'
<1>1. TypeOK'
  BY DEF BoardInv, TypeOK, Reset, Fresh
<1>2. SetUp' /\ TasksLast' /\ OnItsWay' /\ ShutdownIsClean'
  BY BoardConstants
  DEF Reset, Fresh, SetUp, TasksLast, OnItsWay, ShutdownIsClean
<1>. QED
  BY <1>1, <1>2 DEF BoardInv

LEMMA BoardInit ==
  ASSUME Init
  PROVE  BoardInv
<1>1. TypeOK
  BY BoardConstants DEF Init, Fresh, TypeOK
<1>2. SetUp /\ TasksLast /\ OnItsWay /\ ShutdownIsClean
  BY BoardConstants
  DEF Init, Fresh, SetUp, TasksLast, OnItsWay, ShutdownIsClean
<1>. QED
  BY <1>1, <1>2 DEF BoardInv

\* A failure is counted within its bound.
LEMMA TroubleType ==
  ASSUME BoardInv, Trouble
  PROVE  trouble' \in 0 .. MaxTrouble
  BY BoardConstants DEF BoardInv, TypeOK, Trouble

\* app_main, up to its last line.
LEMMA BoardMain ==
  ASSUME BoardInv, Main \/ CreateSemaphore \/ SetUpFails
  PROVE  BoardInv'
<1>1. CASE InitNvs
  BY <1>1 DEF InitNvs, wifi, tasks, history, BoardInv, TypeOK, SetUp, TasksLast,
              OnItsWay, ShutdownIsClean
<1>2. CASE wifi_start
  <2>1. ota = "none" /\ semaphore = NULL /\ driver' = "connecting"
    BY <1>2 DEF wifi_start, BoardInv, TypeOK, SetUp, TasksLast
  <2>. QED
    BY <1>2, <2>1
    DEF wifi_start, tasks, history, BoardInv, TypeOK, SetUp, TasksLast, OnItsWay,
        ShutdownIsClean
<1>3. CASE CreateSemaphore
  <2>1. semaphore = NULL /\ NULL # 0 /\ NULL # 1
    BY <1>3, BoardConstants DEF CreateSemaphore, BoardInv, SetUp
  <2>. QED
    BY <1>3, <2>1
    DEF CreateSemaphore, tasks, history, BoardInv, TypeOK, SetUp, TasksLast,
        OnItsWay, ShutdownIsClean
<1>4. CASE TakeSemaphore
  BY <1>4, BoardConstants
  DEF TakeSemaphore, tasks, history, BoardInv, TypeOK, SetUp, TasksLast, OnItsWay,
      ShutdownIsClean
<1>5. CASE CreateTask
  <2>1. trouble' \in 0 .. MaxTrouble
    BY <1>5, TroubleType DEF CreateTask, BoardInv, TypeOK
  <2>. QED
    BY <1>5, <2>1
    DEF CreateTask, wifi, history, BoardInv, TypeOK, SetUp, TasksLast, OnItsWay,
        ShutdownIsClean
<1>6. CASE SetUpFails
  BY <1>6, TroubleType, BoardReset DEF SetUpFails
<1>. QED
  BY <1>1, <1>2, <1>3, <1>4, <1>5, <1>6 DEF Main

\* The driver and the access point.
LEMMA BoardDriver ==
  ASSUME BoardInv, Connects \/ ConnectionEnds \/ Outage \/ ApReturns
  PROVE  BoardInv'
<1>1. CASE Connects
  <2>1. events' \in Seq(Event) /\ Pending("got_ip", events')
    BY <1>1, PendingAppend DEF Connects, Post, BoardInv, TypeOK, Event
  <2>. QED
    BY <1>1, <2>1
    DEF Connects, tasks, history, Event, BoardInv, TypeOK, SetUp, TasksLast,
        OnItsWay, ShutdownIsClean
<1>2. CASE ConnectionEnds
  <2>1. events' \in Seq(Event)
    BY <1>2, PendingAppend DEF ConnectionEnds, Post, BoardInv, TypeOK, Event
  <2>. QED
    BY <1>2, <2>1
    DEF ConnectionEnds, tasks, history, Event, BoardInv, TypeOK, SetUp, TasksLast,
        OnItsWay, ShutdownIsClean
<1>3. CASE Outage
  <2>1. trouble' \in 0 .. MaxTrouble
    BY <1>3, TroubleType DEF Outage
  <2>2. TypeOK'
    <3>1. ap' \in BOOLEAN /\ handlers' \in BOOLEAN /\ had_ip' \in BOOLEAN
      BY <1>3 DEF Outage, wifi, BoardInv, TypeOK
    <3>2. UNCHANGED <<main, semaphore, driver, events, eyeotine, camera, ota, reason>>
      BY <1>3 DEF Outage, wifi, tasks
    <3>. QED
      BY <2>1, <3>1, <3>2 DEF BoardInv, TypeOK
  <2>3. SetUp' /\ TasksLast' /\ OnItsWay' /\ ShutdownIsClean'
    BY <1>3
    DEF Outage, wifi, tasks, BoardInv, SetUp, TasksLast, OnItsWay, ShutdownIsClean
  <2>. QED
    BY <2>2, <2>3 DEF BoardInv
<1>4. CASE ApReturns
  BY <1>4
  DEF ApReturns, wifi, tasks, history, BoardInv, TypeOK, SetUp, TasksLast,
      OnItsWay, ShutdownIsClean
<1>. QED
  BY <1>1, <1>2, <1>3, <1>4

\* The event loop: the handler of "disconnected" finds a driver, the give of
\* the handler of "got_ip" comes back to app_main or to a board that resets.
LEMMA BoardLoop ==
  ASSUME BoardInv, Loop
  PROVE  BoardInv'
<1>1. events \in Seq(Event) /\ events # <<>>
  BY DEF BoardInv, TypeOK, Event, Loop, NoHandler, on_wifi_disconnect, on_got_ip
<1>2. /\ Tail(events) \in Seq(Event)
      /\ Pending("got_ip", events) /\ Head(events) # "got_ip"
           => Pending("got_ip", Tail(events))
  BY <1>1, PendingTail DEF Event
<1>3. CASE NoHandler
  <2>1. main \notin {"semaphore", "wait"}
    BY <1>3 DEF NoHandler, BoardInv, SetUp, TasksLast
  <2>. QED
    BY <1>2, <1>3, <2>1
    DEF NoHandler, tasks, history, Event, BoardInv, TypeOK, SetUp, TasksLast,
        OnItsWay, ShutdownIsClean
<1>4. CASE on_wifi_disconnect
  <2>1. driver # "off"
    BY <1>4 DEF on_wifi_disconnect, BoardInv, SetUp
  <2>2. /\ driver' = IF driver = "started" THEN "connecting" ELSE driver
        /\ events' = Tail(events) /\ Head(events) = "disconnected"
        /\ UNCHANGED <<main, semaphore, handlers, ap, tasks, history>>
    BY <1>4, <2>1 DEF on_wifi_disconnect
  <2>3. OnItsWay'
    BY <1>2, <2>2 DEF BoardInv, OnItsWay
  <2>. QED
    BY <1>2, <2>1, <2>2, <2>3
    DEF tasks, history, Event, BoardInv, TypeOK, SetUp, TasksLast, ShutdownIsClean
<1>5. CASE on_got_ip
  <2>1. CASE semaphore = NULL
    <3>1. Reset("give") /\ UNCHANGED trouble
      BY <1>5, <2>1 DEF on_got_ip
    <3>. QED
      BY <3>1, BoardReset DEF BoardInv, TypeOK
  <2>2. CASE semaphore # NULL
    <3>1. /\ semaphore' = 1 /\ events' = Tail(events) /\ had_ip'
          /\ UNCHANGED <<main, handlers, driver, ap, tasks, trouble, reason>>
      BY <1>5, <2>2 DEF on_got_ip, Given
    <3>2. NULL # 1
      BY BoardConstants
    <3>3. TypeOK'
      <4>1. ap' \in BOOLEAN /\ handlers' \in BOOLEAN /\ had_ip' \in BOOLEAN
        BY <1>5, <2>2 DEF on_got_ip, BoardInv, TypeOK
      <4>2. UNCHANGED <<main, driver, eyeotine, camera, ota, trouble, reason>>
        BY <3>1 DEF tasks
      <4>. QED
        BY <1>2, <3>1, <4>1, <4>2 DEF Event, BoardInv, TypeOK
    <3>4. SetUp' /\ TasksLast' /\ OnItsWay' /\ ShutdownIsClean'
      BY <2>2, <3>1, <3>2
      DEF tasks, BoardInv, SetUp, TasksLast, OnItsWay, ShutdownIsClean
    <3>. QED
      BY <3>3, <3>4 DEF BoardInv
  <2>. QED
    BY <2>1, <2>2
<1>. QED
  BY <1>3, <1>4, <1>5 DEF Loop

\* The tasks of the application.
LEMMA BoardTasks ==
  ASSUME BoardInv, StartEyeotine \/ StartCamera \/ NoPicture \/ start_ota
  PROVE  BoardInv'
<1>1. ASSUME trouble' = trouble \/ Trouble PROVE trouble' \in 0 .. MaxTrouble
  BY <1>1, TroubleType DEF BoardInv, TypeOK
<1>2. CASE StartEyeotine
  <2>1. trouble' \in 0 .. MaxTrouble
    BY <1>1, <1>2 DEF StartEyeotine
  <2>. QED
    BY <1>2, <2>1
    DEF StartEyeotine, wifi, BoardInv, TypeOK, SetUp, TasksLast, OnItsWay,
        ShutdownIsClean
<1>3. CASE StartCamera
  <2>1. trouble' \in 0 .. MaxTrouble
    BY <1>1, <1>3 DEF StartCamera
  <2>. QED
    BY <1>3, <2>1
    DEF StartCamera, wifi, BoardInv, TypeOK, SetUp, TasksLast, OnItsWay,
        ShutdownIsClean
<1>4. CASE NoPicture
  BY <1>4, TroubleType, BoardReset DEF NoPicture
<1>5. CASE start_ota
  <2>1. trouble' \in 0 .. MaxTrouble
    BY <1>1, <1>5 DEF start_ota
  <2>. QED
    BY <1>5, <2>1
    DEF start_ota, wifi, BoardInv, TypeOK, SetUp, TasksLast, OnItsWay,
        ShutdownIsClean
<1>. QED
  BY <1>2, <1>3, <1>4, <1>5

\* The update, the shutdown handler that takes the driver away, the restart.
LEMMA BoardOta ==
  ASSUME BoardInv, Ota
  PROVE  BoardInv'
<1>1. CASE EndOta
  BY <1>1
  DEF EndOta, wifi, history, BoardInv, TypeOK, SetUp, TasksLast, OnItsWay,
      ShutdownIsClean
<1>2. CASE wifi_stop
  <2>1. main = "done" /\ eyeotine # "none"
    BY <1>2 DEF wifi_stop, BoardInv, TasksLast
  <2>2. events' \in Seq(Event)
    BY <1>2, PendingAppend DEF wifi_stop, StopDriver, Post, BoardInv, TypeOK, Event
  <2>3. TypeOK'
    <3>1. ap' \in BOOLEAN /\ handlers' \in BOOLEAN /\ had_ip' \in BOOLEAN
      BY <1>2 DEF wifi_stop, history, BoardInv, TypeOK
    <3>2. UNCHANGED <<main, semaphore, eyeotine, camera, trouble, reason>>
      BY <1>2 DEF wifi_stop, history
    <3>3. driver' \in {"off", "stopped"} \cup {driver} /\ ota' \in {"stop", "deinit", "reset"}
      BY <1>2 DEF wifi_stop, StopDriver
    <3>. QED
      BY <2>2, <3>1, <3>2, <3>3 DEF Event, BoardInv, TypeOK
  <2>4. SetUp' /\ TasksLast' /\ OnItsWay' /\ ShutdownIsClean'
    BY <1>2, <2>1
    DEF wifi_stop, StopDriver, history, BoardInv, SetUp, TasksLast, OnItsWay,
        ShutdownIsClean
  <2>. QED
    BY <2>3, <2>4 DEF BoardInv
<1>3. CASE Restart
  BY <1>3, BoardReset DEF Restart, BoardInv, TypeOK
<1>. QED
  BY <1>1, <1>2, <1>3 DEF Ota

\* The invariant holds of every behaviour, across all resets and outages.
THEOREM BoardInvariant == Spec => []BoardInv
<1>1. Init => BoardInv
  BY BoardInit
<1>2. BoardInv /\ [Next]_vars => BoardInv'
  <2>1. ASSUME BoardInv, UNCHANGED vars PROVE BoardInv'
    BY <2>1
    DEF vars, wifi, tasks, history, BoardInv, TypeOK, SetUp, TasksLast, OnItsWay,
        ShutdownIsClean
  <2>. QED
    BY <2>1, BoardMain, BoardDriver, BoardLoop, BoardTasks, BoardOta DEF Next
<1>. QED
  BY <1>1, <1>2, PTL DEF Spec

\* Every variable keeps its type.
THEOREM BoardTypeCorrect == Spec => []TypeOK
<1>1. BoardInv => TypeOK
  BY DEF BoardInv
<1>. QED
  BY <1>1, BoardInvariant, PTL

\* app_main does not sleep through an address, in whatever order the driver,
\* the handlers and app_main come (eyeotine.c:402, 471-475).
THEOREM BoardWakesUp == Spec => []WakeUpNotLost
<1>1. BoardInv => WakeUpNotLost
  BY BoardInvImplies
<1>. QED
  BY <1>1, BoardInvariant, PTL

\* No task of the application runs before an address was given (eyeotine.c:475,
\* 507, 512).
THEOREM BoardWorksOnline == Spec => []NoWorkWithoutAddress
<1>1. BoardInv => NoWorkWithoutAddress
  BY BoardInvImplies
<1>. QED
  BY <1>1, BoardInvariant, PTL

\* The shutdown handler unregisters the handlers early enough: none of them
\* ever meets a driver that is gone (eyeotine.c:385-389, 452-464).
THEOREM BoardShutsDown == Spec => []ShutdownIsClean
<1>1. BoardInv => ShutdownIsClean
  BY DEF BoardInv
<1>. QED
  BY <1>1, BoardInvariant, PTL
=============================================================================
