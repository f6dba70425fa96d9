# Eyeotine in TLA+

Eyeotine is a set of ESP32 boards with cameras, a server that they talk to over
UDP with a small protocol of its own (the *Eyeotine Protocol*, EP), and MQTT
services behind that server.  This directory models the parts of it in which
something can go wrong that a test would hardly reach, checks the models with
TLC, and proves the safety properties and the two refinements with TLAPS for
every number of devices and every choice of intervals.

Paths below are relative to the repository; `ep_impl.c` and `ep.h` are in
`src/esp32/ep`, `eyeotine.c` in `src/esp32/main`, `esp_lib.py`, `main.py` and
`mqtt_lib.py` in `src/server/ep`.

## 1. The system

    camera task --+
                  +-- EP client library ==UDP== EP server --MQTT-- broker
    eyeotine task-+     (ep_impl.c)      (main.py, esp_lib.py)       |
    OTA task ----------------HTTP---- OTA web server ---MQTT---------+
                                      OTA publisher, prediction, visualisation

### EP client library (`ep_impl.c`, `ep.h`)

State: `ep.state` (STOPPED, IDLE, ASSOCIATING, WAIT_FOR_SYNC, CAMERA_OFF,
CAMERA_ON), the times of the last transmission and reception (16-bit
milliseconds), the synchronisation reference, one transmit buffer, the
callbacks.  Operations: `ep_init`, `ep_start`, `ep_stop`, `ep_associate`,
`ep_loop` (periodic), `ep_recv_udp` (one datagram), `ep_send_img`.  It calls
back into the firmware: `send_udp`, `milliclk`, `on_disconnect`,
`on_recv_config`, `on_recv_ota`.

What is hard: callbacks that call the library while it is in the middle of a
change of state; a clock that wraps every 65 s; a reference kept modulo 1024
ms; frames that are lost, repeated or out of order; two tasks in one buffer.
Correct means: silence is noticed and only silence is, requests and pings go
out in time, timestamps are the time since the last SYNC, nothing is sent while
the library is stopped.

### Device firmware (`eyeotine.c`)

State: `send_images` (toggled by each config frame), the tasks, the socket.
`eyeotine_task` alternates between `ep_loop` and a non-blocking `recvfrom`;
`eyeotine_camera_task` sends an image when the flag is set; `ota_task`, created
by the OTA callback, installs an update and restarts the board, or sleeps
forever.  Before all that `app_main` starts the Wi-Fi driver and sleeps until an
event handler has an address; the handlers reconnect ever after, and `wifi_stop`
takes the driver down before a restart.  Hard: the flag and the library's state
are changed at different places; the tasks share the library without locks; a
failed update; handlers that run before and after what they need is there; a
16-bit clock computed through a `double`.

### EP server (`main.py`, `esp_lib.py`, `mqtt_lib.py`)

State: `esp_list` (an `Esp` object per client: address, IDLE / ASSOCIATED /
SYNCED, time of last transmission and reception, queue of image fragments), the
write queue, what `select` returned.  One pass of the loop reads at most one
MQTT message and one datagram, walks the list (pings, timeouts), empties the
write queue if `select` found the socket writable, and collects image
fragments.  Hard: objects that remove themselves from the list being walked;
what is queued after `select`; commands and SYNC broadcasts sent to everybody in
the list, whatever their state.  Correct means: one object per peer, never
ahead of what its client has been told; synchronised clients share one
reference; silent peers go; the queues do not grow.

### Image collector (`DataCollector` in `esp_lib.py`)

State: per address and timestamp, the fragments received and the time of the
last one.  `collect` takes one fragment per client and pass, drops a bucket
whose last fragment is older than 100 ms, publishes a bucket that is complete.
Hard: fragments lost, repeated, reordered; 10-bit timestamps that come back;
6-bit fragment numbers; clients that leave and return.  Correct means: what is
published is one image, whole and in order; buckets do not stay forever.

### The others

* *Header codec* (`ep.h` macros, `esp_lib.py` classes): packs version, type and
  subtype in one byte, timestamp and fragment number in a word, with a byte for the
  last-fragment flag between them.  Correct means that one side reads what the other
  wrote.
* *OTA publisher and web server* (`src/ota`): the publisher sends the firmware
  as an MQTT message; the EP server tells the clients, the web server stores
  the file.  Nothing orders the two.
* *Prediction* and *visualisation*: each takes what is published and computes;
  no protocol state.
* *Broker, docker-compose, demo, examples, tests*: configuration and samples.

`docs/ep-server.md` describes an algorithm of buckets and substitute images that
no code implements; it is modelled nowhere.

## 2. Modules

| module | models | status |
| --- | --- | --- |
| `EpClient` | client library, firmware callbacks, OTA task, restarts | checked, proved |
| `ClientSession` | what server and firmware may rely on from a client | abstract specification |
| `EpClientRefinement` | `EpClient` implements `ClientSession` | checked, proved |
| `EpClientProofs` | theorems about `EpClient` and the refinement | proved |
| `EpServer` | the server's loop and its `Esp` objects | checked, proved |
| `ServerSession` | what clients may rely on from the server | abstract specification |
| `MCEpServer` | symmetry; `EpServer` implements `ServerSession` | checked, proved |
| `EpServerProofs` | theorems about `EpServer` and the refinement | proved |
| `EpSystem` | `ClientSession` and `ServerSession`, network, faults, operator | checked |
| `EpSystemProofs` | theorems about `EpSystem` | proved |
| `DataCollector`, `DataCollectorProofs` | fragmentation, network, reassembly | checked, proved |
| `EpHeader` | the bits of a frame, on both sides | used by `EpTxBuffer` |
| `EpTxBuffer`, `EpTxBufferProofs` | two tasks that build frames in one buffer | checked, proved |
| `Board`, `BoardProofs` | start-up, Wi-Fi handlers, tasks, shutdown | checked, proved |
| `MilliClk`, `MilliClkProofs` | `eyeotine_milliclk()` | checked, proved |
| `ModularArithmetic` | lemmas about `%` with a symbolic divisor | proved |

How they fit together:

    EpTxBuffer --> EpHeader        EpSystem (devices + server + network)
    MilliClk, Board                 |                |
                                ClientSession    ServerSession
                                    ^ implements     ^ implements
    EpClientProofs --> EpClient ----+   EpServer ----+     DataCollector

### `EpClient`

One step for each call that `eyeotine_task` makes: `ep_loop(d)`, then
`Receive(d)`, which is `NothingReceived`, `Discard` or `ep_recv_udp`.  Calls
nest in the code; here the effect on `ep.state` of each function is an operator
from the old to the new state, composed in the order of the code:
`AfterTimeout` assigns IDLE and then runs the disconnect callback,
`handle_disassociation` does it the other way round, and `ep_stop` runs the
callback and assigns STOPPED.  `RecvAssoc`, `RecvDassoc`, `RecvKeepAlive`,
`RecvSync`, `RecvConfig`, `RecvOta` are the branches of `recv()`; the update of
`ep.time_last_rx` that `ep_recv_udp` adds (`MarkReceived`) is part of the same
step.  The network and the server are free: any frame may come at any time, so
loss, duplication and reordering need no model of their own; frames sent are
kept in `tx` until the network takes them.  `SendImage`, `OtaInstalled`,
`OtaFailed` are the other tasks, `Reboot` a restart at any moment, with a clock
that reads anything.  `Tick` is time; no more than `MaxGap` passes between two
polls.

`quiet`, `mute` and `since_sync` are history variables: they hold real time,
which the 16-bit clock only approximates, and let the properties say that what
the code reads off its clock is true.  `EP_LOG_LEVEL` is a constant because part
of `recv()` is compiled only for level 3 and above.  Level 4 does not compile
(`ep_impl.c:243` names an undeclared variable), so 0 to 3 are what it can be.

### `ClientSession`, `EpClientRefinement`

The client as the others see it: no clock and no time stamps, only `quiet` and
`mute`, the times that have passed since it heard and said something.  The
refinement mapping takes `EpClient`'s history variables, counted up to the
limits they are compared with; `state`, `send_images`, `ota`, `tx` and `gap` are
the same.  `ImplementsSession` then says that the arithmetic on 16-bit stamps
takes every decision at the poll where the ideal timer would.

### `EpServer`

`pc` names the part of the pass that comes next: `Select`, `ReadMqtt`,
`ReadEsp`, `PingEsp` (one round of the walk) and `WalkDone`, `Flush`,
`Collect`.  Objects are records of the sequence `esp_list`; the walk is an index
into it, which is what Python's `for` over a list is, so that the removal of an
object in `PingEsp` makes the walk pass over its successor.  Times are kept as
ages that stop just past the limit they are compared with, which loses nothing.
The peers are free to send anything.  `told` and `last_sync` relate the server's
view to the clients', `dropped` counts the removals of a walk.  `told` follows,
for each peer, a client that was asking when its latest request was answered and
has had every frame queued for it since, in order: `After` is what `recv()` of
the client makes of a frame, and an OTA frame stops it.  `PeersFollow` therefore
says that the client of an ASSOCIATED object has its response, that of a SYNCED
one has had a SYNC since, and that nothing but an OTA frame has ended either.
`Select` takes the EP socket to be writable whenever the loop asks.

### `ServerSession`, `MCEpServer`

The server as its clients see it: per peer the state of the connection (NONE
for a peer that is not listed), two ages, and a set of frames on their way.  No
loop, no list, no queue, no walk.  The mapping looks the peer up in `esp_list`
(`Seen`) and collects what `write_queue` holds for it (`QueuedFor`);
`MCEpServer` also declares the symmetry of the peers.

### `EpSystem`

`ClientSession` and `ServerSession` side by side, with `Up` and `Down` as the
deliveries that join them: `Client!Leaves` is `Server!Read`, a frame taken from
`out` is `Client!Hear` or, if `Understands` says the client discards it, lost
on it.  `LoseUp` and `LoseDown` lose a frame, `DuplicateUp` and `DuplicateDown`
deliver one that will be delivered again; `Restart` restarts a device, with
the port it had or another one (`ForgetPort`); `ServerRestart` empties the
server's list; `Config` and `Ota` are the operator's commands; `OtherJoins` is a
client outside the model whose association makes the server send SYNC to
everybody.  `Faults` says which kinds of fault a run allows, and `MaxEvents`
bounds faults and commands together, so every behaviour has a last fault and the
liveness properties speak of what comes after it.  A config frame that comes
twice toggles the flag back, and the device counts as one that missed a command.
Abstractions: between two ticks what is due is said, what was said arrives or is
lost, in any order; one image per device and tick (the camera task sleeps for
5 s); config commands are further apart than a delivery; a device does not
restart from an update while its farewell is still on its way.

### `DataCollector`

`ep_send_img` puts the fragments of an image, or a part of them, in the
network; `Receive` takes any of them in any order and may leave a copy; a
fragment that is never taken is lost.  `collect` is the whole handler: store,
expire, test, publish, delete.  A payload is the pair of an image and a position
in it, so that a property can tell what was put together from what.  A device
may use a timestamp any number of times: in the system it comes back every 1024
ms and after each SYNC.  Between two images the camera task sleeps for 5 s
(`eyeotine.c:355`), and `Settled` is what that is taken to mean for an image
with the timestamp of an earlier one: the network has delivered the earlier
one's fragments or lost them, the server has collected them, and a bucket that
got a last fragment is gone, for it was complete or 100 ms have passed.  What
5 s do not end is a bucket without a last fragment; `met` records that an image
found one.

### `EpHeader`, `EpTxBuffer`

`EpHeader` has the macros of `ep.h` as arithmetic on a byte and on a 16-bit
word, the byte swaps of the little-endian board included, and the bit structure
by which the server parses an image header.  In `EpTxBuffer` the two tasks each
build a frame: `op` is the part of it to be written next (`AfterOp` is the order
of the assignments in `ep_loop`, `ep_stop` and `send_img_frag`), and a header
field is a read into `reg` and a later write, as `EP_SET_...` is.  Steps of the
tasks interleave freely.  `sent` holds the datagram of the last step with the
frame it was meant to be.  What `malloc()` leaves in the buffer is a parameter,
`Garbage` and `GarbageWords`: the runs take some values with every kind of false
field, the proofs any.

### `Board`

`main` is where `app_main` is; `wifi_start`, `CreateSemaphore`, `TakeSemaphore`,
`CreateTask` are its steps.  `on_wifi_disconnect` and `on_got_ip` run in the
task of the event loop, one event of `events` at a time. `StartEyeotine`,
`StartCamera`, `start_ota`, `EndOta` are the tasks as far as starting and ending
goes, and `wifi_stop` the shutdown handler, one step per call that others can
see.  A failed `ESP_ERROR_CHECK` or assertion is `Reset`, with the reason kept;
`SetUpFails` stands for all of them in `app_main` and what it calls, up to the
one that asks for the address (`eyeotine.c:483`).  The driver, the event loop
and the access point are external: `esp_wifi_connect` is accepted by a started
driver and answered later by GOT_IP or DISCONNECTED, stopping a connected driver
posts DISCONNECTED.

### `MilliClk`

Two readings of the clock at two times.  A `double` that does not fit a
`uint16_t` is converted as the build does it, by way of a 32-bit integer that
saturates.  In C the conversion is undefined as soon as the board has run for
65 s.

## 3. Runs

| run | question | bounds |
| --- | --- | --- |
| `EpClient` | does the client behave like one with ideal timers; do library, flag and update task agree? | 1 device, clock modulo 6, timestamps modulo 3, intervals 1, 2, 3, gap 1 |
| `EpClient_idle` | finding 1 | clock modulo 8, intervals 1, 3, 3 |
| `EpServer_safety` | does the list agree with what clients were told; what does a walk miss; is it the abstract server? | 2 peers, ping 1, timeout 2, 1 datagram and 1 MQTT message waiting |
| `EpServer_liveness` | are silent peers dropped and queued frames sent? | no MQTT messages |
| `EpSystem` | do connections end only for faults, do both ends agree again, do cameras stay in step? | 1 device and others that join, intervals 1, 3, 3, 4 faults and commands |
| `EpSystem_sync` | finding 3 | 1 lost frame, no other fault or command |
| `DataCollector` | is each image that found an empty bucket published whole; do finished buckets go? | 1 device, 1 timestamp, 3 images of up to 4 fragments, numbers modulo 3, expiry 1 |
| `DataCollector_reuse` | finding 2 | 1 device, 1 timestamp, 2 images |
| `EpTxBuffer` | what can two tasks in one buffer send? | images of up to 3 fragments, timestamps 0 and 1023 |
| `EpTxBuffer_race` | finding 4 | as above |
| `Board` | is no wake-up lost, the shutdown clean, does the board always come back? | 5 outages, failing calls and updates |
| `MilliClk` | is the difference of two readings the time between them? | clock modulo 16, integer below 64, 10 ms a second, 3 us a millisecond, 250 us |

Why the bounds suffice.  *Client*: devices share nothing but time, so one shows
what there is; the clock wraps several times within every behaviour of interest,
and the constants sit close to the limits that `ClientConstants` states.  For
all other values there is the proof.  *Server*: two peers are enough for one
object to be passed over because of another's removal, for a broadcast to
somebody else and for a mixture of states; `RxTimeout` lies above `PingInterval`
as in the code; one waiting datagram is enough because a pass reads at most one
and the next may arrive before any `select`.  Only `select` and the environment
can happen between passes: what comes in later in a pass is seen by the next
`select` and so is modelled as arriving there.  *System*: devices meet only in
the server's list, and what a second one does to the first, a SYNC, is
`OtherJoins`; four events are a frame lost or repeated or a restart at each end
and two commands, in any order, with as many associations and updates as they
lead to.  `BothEndsAgree` counts a device in WAIT_FOR_SYNC as connected, and one
that stays in IDLE (finding 1) or STOPPED and is no longer listed as agreement
too: what such a device is worth is for the findings to say.  The timeouts are
three pings long as against five in the code. *Collector*: three fragments have
a first, a middle and a last one, and with a fourth an image outgrows the
numbers; three images of one device on one timestamp show what each leaves to
the next, after a whole image, an unfinished one or one whose numbers wrapped.
Buckets of different addresses and timestamps meet nowhere in the code, so that
one of each is enough; the theorem is about any number.  *Buffer*: three
fragments again; the two timestamps have all ten bits clear and all set.
*Board*: an outage before, during and after the connection, a task that fails
to start and an update fit into five events.  *Clock*: 250 microseconds are
eight seconds and five overflows, on both sides of the point where the integer
saturates.

`CHECK_DEADLOCK` is turned off where the system may really stop: `EpTxBuffer`
(a client in IDLE or STOPPED builds no more frames) and `Board` (all tasks
running and nothing to happen, or a task that has failed).

Fairness.  *Client*: `ep_loop` and `Receive` are weakly fair because
`eyeotine_task` is an endless loop of calls that return, and no task of
`eyeotine.c` has a priority above its 5 (`ota_task` has the same, the camera
task 4), so that FreeRTOS lets it run again and again; time passes.  No frame
has to arrive, no task but this one has to run.  *Server*: `Pass` is weakly fair
because `select` has a timeout of 10 ms and nothing else in the loop blocks.
`Tick` is strongly fair: time cannot be kept from passing by the speed of the
loop, and in the middle of a pass, where the model does not let time pass
because nothing looks at it, weak fairness would not say so.  The same holds in
`DataCollector`.  *System*: both loops go on, a frame that is not lost arrives
(a loss is one of the `MaxEvents` faults), and `Tick`, which waits for what is
due to be said and delivered, is strongly fair for the same reason.  Nothing
makes an update end.  *Board*: every task, the event loop and the driver are
weakly fair; creating the semaphore is strongly fair, because an address that
comes before it resets the board and takes the step away again: the driver may
be that fast any number of times, not always. Where the code depends on it is
hazard `eyeotine.c:472`.

Every property of a passing run has a mutant in `PROJECT.json`: a change of one
definition, as a plausible bug would make it, for which TLC finds the property
violated.

## 4. Proofs

Every invariant that a passing run checks is a theorem, for any constants that
satisfy the named assumptions, and so are the two refinements and the other
safety properties.  Each inductive invariant below was checked by TLC on the
instance of the component's run before it was proved.

### The client (`EpClientProofs`)

Theorems: `TypeCorrect`, `SilenceNoticed`, `TimeoutGenuine`, `KeepsTalking`,
`CameraOnSends`, `UpdateIsSilent`, and, if also `SyncDividesClock` holds,
`TimestampsAreRight`; `ClientImplementsSession`.

Assumptions.  `ClientConstants` says that the intervals fit in the clock: the
gap between two polls is below the association interval, twice that interval
plus the gap is within the range of the clock, and so is the timeout plus the
gap.  With the code's numbers (1000, 5000, 5000, 65536) it asks for polls at
least every 5 s; `ep.h` asks for 10 to 100 ms.  `SyncDividesClock` is 65536 =
64 * 1024.

Argument.  None of the properties is inductive: all speak of real time, and the
code sees a clock modulo `ClockMod`.  The invariant `ClientInv` adds what links
the two, for each device.  `Listening`: while it is connected, the age of
`time_last_rx` read off the clock *is* `quiet`, and is below `RxTimeout + gap`.
`Speaking`: while it seeks a server or is connected, the age of `time_last_tx`
is `mute`, and is below `AssocInterval + gap`; or else the device has just
started, `time_last_tx` lies ahead of the clock, and the age read off is
`ClockMod - AssocInterval + gap`, which makes the first `ep_loop` send at once.
`Updating`: once the OTA task exists, the library is STOPPED.  `Filming`: in
CAMERA_ON the firmware's flag is set.  For the timestamps a second invariant,
`Aligned`, says that clock minus reference is `since_sync` modulo `SyncMod`.
`Tick` preserves it because an age that is below `ClockMod`
grows by one and does not wrap, which is what `ClientConstants` is needed for;
`ep_loop` re-establishes the bound when `gap` becomes 0.  The proofs have a step
per action; a lemma says once what it takes for a step of one device to leave
the others alone, and the facts about `%` are in `ModularArithmetic`.  For the
refinement, `Listening` and `Speaking` are what makes a comparison of stamps and
one of the ideal timers come out alike; each action is then a step of the same
name, or none.

### The server (`EpServerProofs`)

Theorems: `ServerTypeCorrect`, `ServerOneEspPerPeer`, `ServerPeersFollow`,
`ServerAllSyncedTogether`, `ServerCollectorKeepsUp`,
`ServerWalkMissesOnlySuccessors`; `ServerImplementsSession`.

Assumptions: the limits are positive.  Nothing is asked of the set of peers, not
even that it is finite; the bounds on what waits to be read are arbitrary.

Argument.  The properties of `esp_list` hold for one part of the pass because of
what an earlier one left, so `ServerInv` says them of every element (`Fits`: no
two for one peer, none ahead of its client or of the latest broadcast, at most
`Waiting` fragments, a number that depends on `pc`).  That an object is not
ahead (`Follows`) is said with `Answered` and `Reached`, the states of a client
that was answered, and that was answered and has had a SYNC; both include the
client that an OTA frame has stopped, and both are closed under every frame that
the server sends to an object it keeps.  Further, `InTurn` says that the walk is
over and that what `select` found is still there when it is read.  The walk is
the hard part: `PingEsp` may remove the element that the loop is at, everything
behind it moves one place to the front, and the set of overdue elements behind
the cursor must not outgrow `dropped`. `Removed`, `UniqueRemoved` and
`OverdueGrows` say once what a removal does to the list and to that set.  For
the refinement, `SeenRemoved`, `SeenReplaced`, `SeenMapped` and the `Queued...`
lemmas do the same for what one peer sees of the list and the queue: only the
sender's entry changes but for a broadcast.

### The collector (`DataCollectorProofs`)

Theorems: `CollectorTypeCorrect`, `CollectorKeepsNothingBack` and
`CollectorPublishesWholeImages`, for every number of fragments, every range of
their number and every reuse of timestamps; no theorem has a hypothesis.

The last one says what is published in every behaviour.  Under the address and
the timestamp of an image it is that image, whole and in order, but for two
exceptions.  When the image was sent, fragments of an earlier one were still in
the bucket of its timestamp: then it may be a mixture, which is finding 2.  Or
the image has more fragments than their number can tell apart, and later ones
replace the first (section 5); this concerns that image alone.  Even then it
holds some of the image.  Losses, duplicates, any order, clients that leave and
return, and timestamps that come back to an empty bucket change nothing.  The
assumption is `Settled` (section 2), about what happens within the 5 s between
two images of a device.

Argument.  `CollectorInv` adds to the type and to `NothingCompleteWaits` that a
bucket with its last fragment is not empty (`Marked`), without which the highest
number is the maximum of an empty set.  `WholeInv` follows the fragments.  Those
in the network and in the queues are `Genuine`: of the latest image with their
timestamp (`IsLatest`), numbered by their place, with the flag only if they are
last.  Buckets are `Sorted`: what is in them was sent under this address and
timestamp; one that is marked holds a last fragment of the latest image, in its
place if that image fits its numbers (`MarksEnd`); and if the latest image met
nothing when it was sent, all in the bucket is of it.  Sending an image makes it
the latest, and `Settled` with `met` is what keeps the rest true.  A complete
bucket of an image that met nothing then has the numbers 0 up to its last
(`AloneIsWhole`), and every complete bucket what the property asks for
(`CompleteIsPublishable`).

### The buffer (`EpTxBufferProofs`)

Theorems: `TxTypeCorrect`, `TxHeadersAreKnown`, `TxFragmentsAreWhole`,
`TxLastIsLast`, for images of up to 64 fragments, any timestamps of ten bits and
anything in the memory that `malloc()` returned.

Argument.  First the fields: each setter of `EpHeader` writes its field and
leaves the others, and what the server parses from the word with timestamp and
number is what the board put there, through two byte swaps (`NumberFields`).
The invariant follows both tasks: `First`, up to the first byte of flags ever
written one task is alone; `Later`, after that every byte in the buffer or in a
register has known fields, however the tasks' reads and writes cross;
`Written`, the fields behind the header that only the camera task writes hold
its image and fragment.

### The board (`BoardProofs`)

Theorems: `BoardTypeCorrect`, `BoardWakesUp`, `BoardWorksOnline`,
`BoardShutsDown`, for any number of outages, failures and updates.

Argument.  `SetUp` and `TasksLast` tie together how far `app_main`, the driver,
the handlers and the tasks are.  `OnItsWay` is what `WakeUpNotLost` needs: an
address that `app_main` will wait for is in the semaphore or in an event still
queued.

### The clock (`MilliClkProofs`)

Theorems: `ClockTypeCorrect`, `ClockDifferenceIsTime`, for every range of the
clock and of the integer, and every length of a second and of a millisecond.
The invariant is that the last reading is the clock's value for its time; the
rest is arithmetic: the sum of the seconds' and the microseconds' share, cut at
two places, is the time in milliseconds cut once.

### Devices and server together (`EpSystemProofs`)

Theorems: `SystemInStep` and `SystemTimeoutMeansFault`, for any number of
devices, faults and commands; frames lost and frames that come twice are faults.

Assumptions.  `SystemConstants`: the interval of the pings is at most that of
the association requests and below the timeout.  In the code they are 1 s, 5 s
and 5 s, the same on both sides.  `SystemInStep` does not need it.

Argument.  For `InStepUnlessMissed` the invariant, `Follows`, also says what the
flag is while a command is on its way: the opposite of what is wanted.  A device
that loses a command or gets one twice is `missed` from then on.

For `TimeoutMeansFault` the invariant, `TimelyInv`, relates, as long as there
was no fault, the timers of both ends, what is on its way between them and the
age of the connection.  Its core is `Attached`: the server lists whom a device
is connected to, each end has heard of the other within a ping interval, and
what one end counts since it last heard is at most what the other counts since
it last spoke, or else a frame that makes it so is on its way.  A tick happens
only when nothing is on its way and no ping is due, so the count of the speaker
bounds that of the listener, and is bounded by `PingInterval`; the client's
timer of what it last said stops at `AssocInterval`, which therefore must not be
shorter.  A connection begins that way because of `Asking` and `Answered`: a
request that is still on its way, and an answer to it, belong to this tick, and
with the answer goes an entry that the server has just made.  `Leaving` keeps
farewells and updates apart from connections.

### Model-checked only

* Liveness: `ConnectionNeverHangs`, `SilentPeersAreDropped`, `QueueIsSent`,
  `FinishedBucketsGo`, `ComesOnline`, `BothEndsAgree`.  The provers have no rules
  for fairness.
* The findings: a theorem cannot be about a property that is false.

## 5. Findings

With a run that shows them:

1. **A disassociated device never comes back** (`EpClient_idle`).
   `handle_disassociation` runs the callback, whose `ep_associate` acts only in
   IDLE, and assigns IDLE after that (`ep_impl.c:412-424`).  The device then
   discards everything and sends nothing until it is reset.  The server sends
   this frame when it times a client out.  The protocol document says of Idle
   that "the client is trying to connect to a server".  `ep_loop`'s own timeout
   has the right order.
2. **Images mixed from two** (`DataCollector_reuse`).  A bucket that never got
   its last fragment does not expire (`esp_lib.py:275-280`).  In the trace
   fragment 0 of an image that was never finished waits in its bucket; a later
   image has the same timestamp, its last fragment arrives first, and the two
   are published as one image.
3. **A lost SYNC is never repeated** (`EpSystem_sync`).  The server queues one
   SYNC and takes the connection to be SYNCED (`esp_lib.py:153-155`).  In the
   trace the network loses this one frame and nothing else goes wrong: the client
   waits in WAIT_FOR_SYNC; both sides ping, so nothing times out, and only the
   association of some other client helps.  The protocol
   document says of Synced that "all features of the connection are available".
4. **Two tasks in one buffer** (`EpTxBuffer_race`).  A fragment may leave under
   the header of a ping or an association request, so its image is lost, and in
   SYNCED an association request ends the connection; or a ping leaves as an
   image fragment of one byte, for which `ImageHeader.parse` has too little
   data (`esp_lib.py:262`).  `ep.h` says that the function "sends the whole
   buffer in correctly sized fragments to the server".

For each, `PROJECT.json` gives the line and quotes the text that says otherwise.

Seen while modelling, in the models as the code has it, without a run:

* A config frame is accepted in WAIT_FOR_SYNC and sets CAMERA_ON, so images carry
  timestamps computed from a reference of -1 (`ep_impl.c:363-381`); the protocol
  document says the client waits there because the timestamp could not be filled
  correctly.
* The call of `on_recv_ota` is inside `#if EP_LOG_LEVEL >= 3`
  (`ep_impl.c:329`): a library built with a lower level ignores updates.
* In ASSOCIATED any frame, a disassociation included, makes the connection SYNCED
  and broadcasts SYNC (`esp_lib.py:151-155`).
* Of three error paths for a new peer, one (a wrong version) does not remove it,
  and the server pings it (`esp_lib.py:130-132`).
* The 6-bit fragment number wraps at 64 fragments, 140 800 bytes
  (`ep_impl.c:441`): later fragments replace the first ones, and a bucket with
  the last few fragments alone can be complete.
* When the milliseconds since the start no longer fit the 32-bit integer the
  clock stops but for its milliseconds within the second (`eyeotine.c:102`).

## 6. Not modelled

* *OTA publisher and web server*: what they do is call paho; whether, when and in
  which order a message arrives is the broker's and the library's, and a model
  would only restate assumptions about them.  The device's side of an update,
  success or failure, is in `EpClient`, `EpSystem` and `Board`.
* *The loss of the broker's connection* and *steps of the server's wall clock*:
  hazards `main.py:77` and `esp_lib.py:26`.
* *A server slower than its clients*: `EpSystem` lets every datagram be read
  before the next tick.
* *A full send buffer of the server*: `EpServer` takes the EP socket to be
  writable when `select` is asked.
* *A network that delays a fragment by 5 s*: see `DataCollector` in section 2.
* *Prediction, visualisation, deployment*: no state of the system's own.
  `demo.c` does not compile (line 50); the examples are samples.
* `Esp.restart`, `EP_GET_DATA_...` and the frame setters of the server: called by
  nothing, or writing constants.  The layout of log messages.

## 7. Plan

All components that keep state of their own are modelled and every safety
property that a run checks is proved.  Open are the loss of the broker's
connection, if the server ever gets code that connects again, and a server that
is slower than its clients.
