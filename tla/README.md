# Verification of the Arduino AWS IoT / Greengrass client

TLA+ models, TLC runs and TLAPS proofs for the library of this repository: an
Arduino/ESP32 port of the AWS IoT embedded C SDK 3.0.1 with its MQTT client, device
shadow and jobs, a Greengrass discovery, and the `AWSGreenGrassIoT` class around
them. Source paths below are relative to `src/src/`.

## 1. The system

| component | state it keeps | operations | talks to |
|---|---|---|---|
| **MQTT client** `aws_iot_mqtt_client*.c` | `clientState`; `messageHandlers[5]` with `resubscribed` flags; `isPingOutstanding`, `pingTimer`; `currentReconnectWaitInterval`, `reconnectDelayTimer`; `nextPacketId`; `readBuf`, `writeBuf`; three mutexes | `init`, `connect`, `disconnect`, `publish`, `subscribe`, `unsubscribe`, `resubscribe`, `attempt_reconnect`, `yield` | the network wrapper (calls), the application (message and disconnect handlers, which may call the API again) |
| **Network wrapper** `network_mbedtls_wrapper.c` | the mbedTLS context | connect, read, write, disconnect, destroy | mbedTLS |
| **Timers, mutexes** `timer.c`, `threads_freertos.c` | start and length in 32-bit ticks; a recursive FreeRTOS mutex | countdown, expired, left; lock, trylock, unlock | FreeRTOS |
| **AWSGreenGrassIoT** `AWSGreenGrassIoT.cpp` | `_connected`, `_isGGDiscovered`, one global client | connect to core or Greengrass, publish, subscribe, disconnect; `taskRunner` yields for ever in a task of its own | MQTT client, discovery |
| **Greengrass discovery** `aws_greengrass_discovery.c` | none | find host, port, certificate in the discovery document | jsmn |
| **Device shadow** `aws_iot_shadow*.c` | wait list of 10 actions, list of subscribed topics with counts, registered keys, last version, one receive buffer and one token array | get, update, delete, register delta, yield | MQTT client (subscribes; answers and deltas arrive as message handlers) |
| **Jobs** `aws_iot_jobs_*.c` | none | build topics and documents, subscribe, publish | MQTT client |

How they interact. Every operation of the MQTT client is a blocking call on one
`AWS_IoT_Client`. It claims `clientState` with a compare-and-set under
`state_change_mutex` (`aws_iot_mqtt_set_client_state`), exchanges packets, and
puts a state back. Acknowledgements, messages and PINGRESPs arrive on one byte
stream and are read by whichever call reads. A message is handed to the
application inside the call that read it, and the handler may call the API: calls
nest. The wrapper runs `yield` in a task of its own while `loop()` publishes and
subscribes: calls interleave. `yield` also watches the link, runs the disconnect
handler (which may reconnect by hand) and reconnects and resubscribes by itself.
The shadow is an application of the client: its requests, answers and time-outs
nest in the same way, through static buffers and lists.

What is hard here: the interleavings of two tasks and of handlers with the
compare-and-sets; a compare-and-set that fails and is ignored; links lost at any
point, above all in the middle of a resubscription or of a packet; state that
outlives a session (flags, timers, back-off, half-read packets); timers racing with
answers that wait behind other packets; acknowledgements told apart by their type
only; callbacks that start the next action while the lists of the last are being
changed. `PROJECT.json` lists each hazard at its line.

What makes each component correct:

* client state: a transient state always has a call that will leave it; two tasks
  never exchange packets at once; no yield during a handler; the connected states
  mean a live TLS session; the client always comes back to rest;
* keep-alive: a dead link is noticed within a bound, a live one is never given up;
* reconnect: an idle client on a live session has all its promised subscriptions, or
  was refused them;
  a reconnect ends; the table never loses a promised handler;
* packet reading: what is read is what was sent, whatever the split and the size;
* requests: an accepted acknowledgement is that of the request, a message reaches
  every handler of its topic;
* shadow: each action is called back exactly once; a waiting action hears its
  answers; deltas are handed over in the order of their versions;
* wrapper: the client is not initialised under a task; the connected flag means a
  served client, memory permitting; an application that keeps trying gets connected;
* packets, filters, timers, documents, discovery: the functions on data agree with
  MQTT 3.1.1 and JSON wherever they report success.

## 2. Modules

| module | models | proofs |
|---|---|---|
| `ClientCalls`, `MCClientCalls` | the client-state protocol: tasks, call stacks, claims, handlers, reconnects; implements `ClientSession` | `ClientCalls_proofs` |
| `KeepAlive`, `MCKeepAlive` | the ping timer | `KeepAlive_proofs` |
| `Reconnect`, `MCReconnect` | handler table, resubscription, back-off | `Reconnect_proofs` |
| `Framing`, `MCFraming` | packets off the byte stream; implements `PacketStream` | `Framing_proofs` |
| `Requests`, `MCRequests` | requests, acknowledgements and messages, nested in handlers | `Requests_proofs` |
| `Shadow`, `MCShadow` | shadow actions; implements `ShadowActions` | `Shadow_proofs` |
| `ShadowDeltas` | deltas and versions of the shadow | `Data_proofs` |
| `Wrapper`, `MCWrapper` | the life of an `AWSGreenGrassIoT` object | `Wrapper_proofs` |
| `Timers` | a timer over a tick counter that wraps | `Data_proofs` |
| `Packets`, `TopicFilters`, `Json`, `ShadowDocuments`, `ShadowValues`, `Jobs`, `Discovery`; `MCData` | functions on data | |

The modules share the code, not variables: each keeps the state its properties need
and replaces the rest by choices. `ClientCalls` knows who may read and write when;
`Requests` what the exchanges of one task do to the table and to `readBuf`;
`Reconnect` what a lost session does to the table; `Framing` what one exchange does
to the stream; `Shadow` takes the calls of the client as steps that work or fail.

### ClientCalls

A task is a stack of frames, one per active call. A frame is the call (`op`), its
control point (`at`), the client state it read on entry (`saved`) and the result
of the last call it made (`rc`). Each compare-and-set is two steps: `Lock` (take
`state_change_mutex`; with `TryLock` it fails while another task is inside) and
the step that compares, sets and goes on. Everything between two accesses to the
shared state is one step. The actions follow the functions:

| actions | code |
|---|---|
| `CallRequest`, `ClaimRequest`, `FinishRequest`, `ReleaseRequest`, `UndoUnsubscribe` | `aws_iot_mqtt_publish`, `_subscribe`, `_unsubscribe` |
| the deliver actions | `_aws_iot_mqtt_internal_deliver_message` and `handle_publish` |
| the connect and disconnect actions | `aws_iot_mqtt_connect`, `aws_iot_mqtt_disconnect` |
| the reconnect and resubscribe actions | `aws_iot_mqtt_attempt_reconnect`, `aws_iot_mqtt_resubscribe` |
| the yield actions | `aws_iot_mqtt_yield`, `_aws_iot_mqtt_internal_yield`, `_aws_iot_mqtt_handle_disconnect`, `_aws_iot_mqtt_handle_reconnect` |

Abstracted: packets and topics (an exchange succeeds, fails or meets a message),
timers (an expiry is a choice), the read and write mutexes (held only inside one
step). `MaxNesting` bounds nested handlers; 2 is enough for a handler inside a
handler, and a third level repeats what the second does.

`ClientSession` is what the calls promise of the connection, in eight steps: it is
opened only when there is none, counts as connected only once it is open, is closed
before the client counts as disconnected, and reconnects are scheduled only in that
state. `PhaseOf` reads its phase off the client state, `tls` is its session, and
`SessionImplemented` says that `ClientCalls` takes these steps and stutters. It is
a promise of one task: with a second one TLC finds a request or a disconnect that
falls between the steps of a yield that drops the connection.

### KeepAlive

Time is counted in ticks. A turn of the yield loop reads one packet and then runs
`_aws_iot_mqtt_keep_alive`. The link dies in one of three ways: writes vanish,
writes time out, or reads fail. The broker answers within `Delay`. The contract
of `yield` ("at a rate faster than the keepalive interval ... faster than the
incoming message rate") is `YieldGap`: time does not pass beyond the gap until
yield has found the socket empty. Requests read packets at any time without
looking at the timer. A PINGREQ that could not be written counts as sent, as in
`aws_iot_mqtt_internal_send_packet`.

### Reconnect

One task makes all calls, so that a call is one step, except that a
resubscription is one step per topic: links are lost in between. The state is the
client state without the transient states, the handler table, the `resubscribed`
flags, the back-off (`interval`, in seconds; it starts at the zero that
`aws_iot_mqtt_init` leaves), the loop variables of
`_aws_iot_mqtt_internal_resubscribe`, and the world: network, session and the
subscriptions of the broker (clean sessions, as the wrapper connects). `wanted` is
a history variable: the topics the application was told are subscribed and has not
given up; `steady` is true until the application does anything but subscribe. A
live session delivers every SUBSCRIBE, though the acknowledgement may come too late
for the call that waits. The broker may refuse one (`Answered`): the return code in
the SUBACK is stored and never looked at, the call returns SUCCESS, the handler is
stored and the resubscription goes on. `refused` are the topics whose last
SUBSCRIBE of the session was refused. In `Requests`, `Shadow` and `ShadowDeltas` the
broker grants; which acknowledgement belongs to which request, the subject of
`Requests`, does not depend on it, and an action whose topics are refused waits for
its time-out like one whose answers are lost, which `Shadow` has.

### Framing and PacketStream

A packet is its remaining length, and `consumed` counts the bytes of the first
packet taken off the stream. `at` is where `_aws_iot_mqtt_internal_read_packet`
stands: header byte, remaining length byte by byte, body, or the chunks of a packet
that is dropped. A read may time out between any two bytes (`TimeOut`);
`iot_tls_read` throws away what it has read of the request it was in (`LoseBytes`),
while `readBufIndex` remembers what earlier requests read. `PacketStream` is the
promise: packets come out in the order they were sent, whole, or are dropped whole.
`lost` names the three ways to leave it: bytes dropped by a timed-out read, a
packet to be dropped that is shorter than the first chunk, and a connect call that
empties the buffer of a session it is then refused on. What is read afterwards is
`Garbage` until the session ends.

### Requests

The connection is two queues; the broker acts on requests in order and answers. A
stack holds the calls and deliveries of one task: a request that waits reads what
comes (`cycle_read`), hands messages to the handlers one at a time
(`CallHandler`, `SkipHandler`), and a handler may make a request. `done` is the last
request that returned SUCCESS, `promised` the topics subscribed with SUCCESS,
`stray` the kinds of request of which an acknowledgement went astray: one that gave
up waiting, or that a handler made during another of its kind.

### Shadow and ShadowActions

A key is a thing and an action. `acks` is `AckWaitList`, `subs` is
`SubscriptionList` with the content freed entries keep, `handlers` and `deaf` what
client and broker make of the subscriptions. The stack holds a starting action, an
answer being handled (`AckStatusCallback`), a time-out being reported
(`HandleExpiredResponseCallbacks`) and the callbacks in them, which may start
actions. `ShadowActions` promises each accepted action exactly one callback, or
none when the client connects anew. `ActionsImplemented` ties each step to it: a
drop of everything is a `Connect`; the two exceptions need a call that a callback made
(`acted`) and are spelled out as what they do to the one action concerned: its record
is overtaken (`Overtaken`), or its answer is reported after its time-out
(`AnsweredLate`). `troubled` names the keys of which the code
has brought the subscriptions into disorder. Four things do: the list is full; an
unsubscribe fails; a callback uses a key while a call further out is changing its
subscriptions, or reads its answer while its time-out is being reported; and an
entry passes from one key to another under a call that has it in hand. The last
takes three keys: the second entry of a pair is taken under the topic of its last
user and renamed only after the first subscribe (`aws_iot_shadow_records.c:340`), and
an entry is marked free before its unsubscribe ends (`:372`), so a callback can count
in it, or take it, in between.

### ShadowDeltas

`loops` are the runs of `shadow_delta_callback`, nested when a callback reads the
connection. A loop is `clean` until another message is copied over the one static
buffer. `handed` is the version a clean loop handed each registration last.

### Wrapper

`connectToGG`, `connectToIoTCore`, `disconnect` and the construction of a new
object, as in the examples, over the one global client and a count of the yield
tasks. The network comes and goes; discovery and connection may fail while it is
there. A connection may find no memory for its task: `xTaskCreate` is the last
statement of `_connect`, and its result is not looked at. `starved` says so of the
last connection.

### Timers

One timer over the tick counter, which counts modulo `Wrap`. It is set to
milliseconds or seconds (`CountdownMs`, `CountdownSec`, which overflows as in the
code), polled (`PollTimer`, the whole of `has_timer_expired` with its sleep and
`last_polled_ticks`), and ticks go by. `asked` and `passed` remember what was asked
for and how long ago; `spun` counts the polls of the current tick that were told to
go on waiting without a sleep.

### Functions on data

`Packets` writes and reads packets as bytes, with the remaining length computed
ahead of the fields as the serialisers do, and compares with what a broker reads by
MQTT 3.1.1. `TopicFilters` walks filter and topic by character and compares with
matching level by level, topics that begin with `$` included. `Json` is what the
client sees of jsmn (a flat sequence of tokens) with the conversions of
`aws_iot_json_utils.c`; a search that runs past the last token is an `Overrun`, and
what it finds there any outcome. `ShadowDocuments` builds documents piece by piece in a
bounded buffer, `ShadowValues` finds keys in received ones, `Discovery` an address,
a port and a certificate, `Jobs` prints topics and documents, and the
describe request without a buffer for one.

## 3. Runs

Every run finishes within three minutes.

| run | question | instance |
|---|---|---|
| `calls_single` | can any sequence of nested calls strand the client, confuse the connected states or take the connection through other steps than those of `ClientSession`? | 1 task, all calls, all calls in handlers, nesting 2, faulty links, non-blocking mutex, automatic reconnect |
| `calls_manual` | can a yield read during a handler, also when the disconnect handler reconnects by hand? | 1 task, `AutoReconnect = FALSE`, handlers that make requests and yield |
| `calls_blocking` | two tasks: does the client always come back to rest? | yield task and a task with every other call, blocking mutex, no messages, faulty links; fair |
| `calls_steady` | do two tasks ever use the buffers at once? | 3 tasks, steady connection, non-blocking mutex |
| `keepalive_margins` | is a dead link noticed in time and a live one kept? | interval 6, gap 2, delay 3 (the smallest interval that leaves room), 2 packets in the socket |
| `reconnect` | does any sequence of calls lose a handler; does automatic reconnect restore every subscription, and end? | 3 slots, 2 topics (duplicates and a full table occur), the real ratio of back-off maximum to minimum (128); fair |
| `framing` | is what is read what was sent? | buffer of 8, radix 4, lengths on every branch (0, 3, 4, 6, 8, 9, 17), 3 packets; fair |
| `requests` | do acknowledgements, handlers and messages keep together? | 2 topics, 2 handlers, 3 requests, 2 messages, depth 4 |
| `shadow` | is every action called back exactly once, and does it hear its answers? | 2 keys, a key used with and without a persistent subscription, 2 records, 4 topics, 3 actions, 1 failed call or connection, depth 3; fair |
| `wrapper` | what do the flags promise, is the client initialised under a task, does the application get connected? | 4 successful connections; fair |
| `data` | do the functions on data agree with their definitions; does a timer expire when it should, and a loop that polls it sleep; are deltas handed over in order? | inputs below; one timer; 2 keys, 2 versions, depth 2 |

`calls_steady` turns the deadlock check off: a release that the non-blocking
mutex refuses strands the client, and then every call is refused; the run shows
that even then the exchanges exclude each other.

The bounds of `data`: a write buffer of 136 with payloads on both sides of 127 and
of the full buffer; topics and well-formed filters of up to 4 characters, two
levels and a wildcard at each place; a tick counter that wraps at 16, set at every
moment to every time-out it can hold and one it cannot, ticks of 3 ms in seconds of
5; shadow documents of one and two sections in every size of buffer up to one that
holds them; integers of 3, 4 and 5 bits with values beyond their ends; received
documents with their members in every order; discovery documents of one group with
two cores and two interfaces each, or of two groups, in both orders of members.

In the other runs the bounds are those of the smallest instance in which the
interesting cases occur: two of everything that can be confused, one more call than
it takes to fill a table. The counters of a behaviour (`MaxSent`, `MaxRequests`,
`MaxMessages`, `MaxCalls`, `MaxFaults`, `MaxVersion`, `MaxTasks`, `MaxDepth`) only
stop the world from going on.

### Where code and comments disagree

`calls_v_callback` checks that every transient state has a call that will leave it,
for the two tasks of the wrapper, and finds it violated: `loop()` publishes while
the yield task runs a handler, WAIT_FOR_CB_RETURN is restored after the handler has
left it, and every later call but requests is refused. The finding in
`PROJECT.json` quotes the statement it contradicts.

### What the models also reach

The properties name these cases, or the runs leave them out; none is promised away.

* MQTT client, several tasks. With the non-blocking mutex a release is refused and
  the state stays (`TransientStateOwned` fails with `TryLock = TRUE`). With two
  tasks that unsubscribe, the undo of a refused unsubscribe
  (`aws_iot_mqtt_client_unsubscribe.c:233`) frees the other's state. A request that
  ends during a handler lets another task's yield in. A request slips into the idle
  instant of an automatic reconnect (`aws_iot_mqtt_client_yield.c:92`), and both
  read. `aws_iot_mqtt_connect` ignores a refused claim: two tasks connect at once.
* MQTT client, one task. With `AutoReconnect = FALSE`, a disconnect handler that
  reconnects is followed by DISCONNECTED_ERROR over the live session
  (`aws_iot_mqtt_client_yield.c:69`), which is why `calls_manual` does not check
  `SessionMatchesState`. A handler that disconnects, connects and then yields reads
  inside itself, which is why the handlers of `calls_manual` do neither of the
  first two.
* Reconnect. A SUBACK that refuses is reported as SUCCESS, and counts as a
  resubscription (`aws_iot_mqtt_client_subscribe.c:250`, `:395`). The resubscription stops at a slot that unsubscribe has freed, and what
  lies behind it is lost. After a loss during the resubscription no attempt connects
  again, and the back-off runs out with the network up. With a manual reconnect, an
  attempt that fails pends with automatic reconnect off or with a wait of zero that
  doubling never grows (`aws_iot_mqtt_client_connect.c:611`); one whose
  resubscription fails stays in RESUBSCRIBE_IN_PROGRESS; a second one finds the flags
  of the first set and resubscribes nothing (`aws_iot_mqtt_client_subscribe.c:366`).
* Requests. An acknowledgement that comes after its time-out is taken for that of the
  next request of its kind (`aws_iot_mqtt_client_common_internal.c:670`); a handler
  that subscribes during a subscribe takes the same slot
  (`aws_iot_mqtt_client_subscribe.c:232`); handlers after one that made a request are
  compared with another packet.
* Shadow. An unsubscribe that fails leaves half a pair behind. A callback's action
  takes the record another action has chosen and not yet marked
  (`aws_iot_shadow_actions.c:48`). An answer read by the callback of a time-out is
  reported too (`aws_iot_shadow_records.c:463`). With the list full, an action is
  published though its answers are not subscribed. A publish that fails leaves the
  subscription count up. With three keys, a callback counts in an entry that is passed
  to another key (`:340`), or takes one whose unsubscribe still clears it (`:372`).
* Deltas. A version taken from a thing whose name contains that of this one makes
  its deltas old (`aws_iot_shadow_records.c:171`). An answer copied during a delta
  callback is what the outer loop reads on (`:516`). The delta topic counts as
  subscribed when the subscription failed, and in the next session (`:115`).
* Wrapper. A connection whose task finds no memory (36 KB of stack) sets `_connected`
  and returns SUCCESS, and nobody yields (`AWSGreenGrassIoT.cpp:163`).
  `disconnect()` stops no task, so the next connect initialises the client
  under one. `connectToGG` of an object whose discovery worked and whose connection
  failed does nothing any more (`AWSGreenGrassIoT.cpp:301`). `_connected` stays set
  when yield gives up (`:53`).
* Data. The walk over filters misses `a/#` for `a` and empty levels under a
  wildcard, and lets a wildcard match topics that begin with `$`. The loop that skips
  the metadata of a shadow document has no bound
  (`aws_iot_shadow_json.c:464`): when the metadata is the last member and the key was
  not found before it, it runs over stale tokens and past the array, and `findToken`
  does the same in the last object of a document (`aws_iot_json_utils.c:216`). A
  describe request without a buffer drops the fields it was given. The session-present flag of a CONNACK is read from the wrong end of its
  byte. A value may run past a buffer in which its key just fits
  (`aws_iot_shadow_json.c:168`). A string value spelled like the key is taken for it
  (`:443`). Numbers too large for their variable are stored modulo its width with
  SUCCESS. With several groups, discovery pairs the first address with the
  certificate of the last (`aws_greengrass_discovery.c:427`). A describe request
  without a field prints only its closing brace. A jobs wildcard without a job stands
  for every topic.

### Fairness

`calls_blocking`: every step a call can take inside the code is taken (FreeRTOS
schedules each ready task, time-outs bound every wait), and nothing is assumed of
when tasks start calls, which messages come, or when links fail. `reconnect`:
`taskRunner` calls yield for ever, and a wait for an acknowledgement ends with it
or with the command time-out; nothing is assumed of the network. `framing`: the
client reads for ever, and of the reads of a packet that is there one is long
enough (strong fairness: a time-out may come first any number of times).
`shadow`: the application keeps yielding, calls in progress go on, and a timer runs
out; no answer need come. `wrapper`: the application keeps trying, now and then with
a new object, and what is tried often enough while the network is up succeeds.

## 4. Proofs

| theorem | says, for every value of the constants |
|---|---|
| `ClientCalls_proofs!TypeCorrect` | every variable stays in its range |
| `ClientCalls_proofs!Ownership` | with a single task, or with the blocking mutex and no messages, every transient state has a call that will leave it |
| `ClientCalls_proofs!SteadyExclusion` | in steady use, exchanges exclude each other |
| `ClientCalls_proofs!SessionKept` | one task with automatic reconnect: the connected states mean a live TLS session, and no connect runs over one |
| `ClientCalls_proofs!CallbackQuiet` | one task whose handlers make requests and yield: no yield reads during a handler |
| `ClientCalls_proofs!SessionRefined` | one task with automatic reconnect: the calls implement `ClientSession` |
| `KeepAlive_proofs!TypeCorrect`, `DeadLinkBound`, `LiveLinkKept` | ranges; a dead link is noticed within 2*Interval + 3*YieldGap - 2; a live link is kept when Delay + YieldGap < Interval |
| `Reconnect_proofs!TypeCorrect`, `TableKept`, `ReconnectRestores` | ranges; promised handlers stay; if the application only subscribes, automatic reconnect asks for every promised subscription again: the broker has it or has refused it in this session |
| `Framing_proofs!TypeCorrect`, `BufferInStep`, `ImplementsStream` | ranges; the buffer holds what the stream has lost; reading implements the packet stream |
| `Wrapper_proofs!TypeCorrect`, `Served`, `NeverUnderATask` | ranges; the connected flag means a client that was connected, and a task that serves it unless the last connection found no memory for one; no initialisation under a task without `disconnect()` |
| `Requests_proofs!RequestTypesHold`, `PromisesHold`, `DeliveriesComplete`, `AcksOwned` | ranges; a promised handler stays in the table; a message reaches every handler of its topic before it is acknowledged; an accepted acknowledgement is that of the request |
| `Shadow_proofs!ShadowTypesHold`, `ShadowActionsHold`, `ShadowHeard` | ranges; the records implement `ShadowActions`: no action is called back twice or forgotten, outside the named cases; both answers of an action that waits are heard, unless its key is in disorder |
| `Data_proofs!TypeCorrect`, `VersionKnown`, `InOrderOfVersions` | ranges; the version of the deltas is one that was seen; callbacks get ever newer versions |
| `Data_proofs!TimersAreExact`, `PollingLoopsSleep` | a timer expires and tells what is left to the tick, over the wrap of the counter; a loop that polls it sleeps from its second poll in a tick on |

**Ownership.** `TransientStateOwned` is not inductive: it says nothing of what a
call that is *not* on top of a stack will find when it resumes. The invariant adds
`StackInv`: a state a frame has saved to restore is itself at rest or held by a
frame below (`SavedCovered`); handlers exist only where messages come
(`HandlersNeedMessages`); and a frame that waits for a callee stands where it called
(`Waiting`). One lemma per group of actions, after lemmas about the stack
operations. TLC checks the property in `calls_single`; for two tasks the theorem covers
every instance, and `ReturnsToRest` says there that no state is stranded for good. The
assumption on the tasks is necessary: `calls_v_callback` drops "no messages", and the
first of the further behaviours above the blocking mutex.

**SteadyExclusion.** In steady use a stack has at most one frame; the invariant says
that the state a call holds is the client's state and that at most one call is busy.

**SessionKept.** With one task, nothing changes the client state while a call waits for a
lock, so the call that resumes finds the state it left. `SessionInv` says so frame by
frame: at each control point the innermost call knows which states are possible and
whether the session lives (`SessionAt`); a handler's delivery saves only connected
states (`SavedConnected`); and no call waits for another inside a connect, a disconnect
or the disconnect handler (`Suspended`). It rests on the invariant of Ownership. `AutoReconnect` is necessary: TLC
finds the reconnect of a disconnect handler overwritten by `aws_iot_mqtt_client_yield.c:69`
otherwise.

**SessionRefined.** Every step of `ClientCalls` is a step of `ClientSession` or changes
neither phase nor session. Which of the two depends on where the client state came
from: a state that a request puts back must be of the phase the client is in, the end
of a connect or disconnect must find the state its claim made, and a yield that has
dropped the connection must schedule the reconnect from the closed phase. `SessionInv`
carries this: `SessionAt` says it at the control points (from the drop to the end of
the disconnect handler the state is one of `ClosedStates`), `SavedConnected` that what is
put back is a connected state, and `Suspended` where a call may stand while another runs
above it. `SessionStays` covers the steps that keep the client state and the session,
and one lemma per group of actions (`...StepMoves`) names the step of `ClientSession`
for the others. It holds under the two assumptions of SessionKept, and needs both.

**CallbackQuiet.** `CallbackInv`: everything above a handler is a request or the delivery
of a message a request met, each of which puts the state back to WAIT_FOR_CB_RETURN; a
yield is refused in every state such a stack can be in. `HandlersRequest` (handlers do
not disconnect, connect or resubscribe) is necessary, as above.

**PromisesHold, DeliveriesComplete, AcksOwned.** `PromiseInv`: the slot a waiting
subscribe has chosen stays free unless another subscribe is made meanwhile (`shared`). `DeliveryInv`: the handlers called are those of the topic among the slots the
loop has passed, and the buffer still holds the message, as long as no handler made a
request. `AckInv`: of a kind that is not astray one request waits at a time, and at most one
packet of it is on its way, the request itself or its acknowledgement (`OneAtATime`); so
the acknowledgement that is read is the waiting request's.

**ShadowActionsHold.** `RecordInv`: no two records wait for the same action; an action
that has a record waits, is being answered, or is being timed out; an action that is not
yet published has no record and no one has told of it (`ActFresh`); an answer being
reported owns its record (`AnswerOwns`); a time-out is reported by the outermost frame,
and only a callback's action can take its record (`ExpiryHolds`). Each action of `Shadow`
is then a step of `ShadowActions`, with a drop of everything only at a `Connect`, a
stutter, or one of the two exceptions that `ActionsImplemented` names.

**ShadowHeard.** `WaitingIsHeard` looks at a waiting action, the broker and the handlers;
what keeps it true is the bookkeeping in between. `HearInv` says of each key that is
not in disorder (`KeyInv`) what its entries in `SubscriptionList` look like, and of
the calls that only a callback or a wait for the client has others above it
(`Nested`). Three things make it work.
* *Who counts.* `Users` are the actions that wait, the time-out being released and
  the action about to be published; for the first of the two topics, a release that
  has passed it counts no more. In an entry in use the number of users is at most
  its count (`Good`): at most, because a publish that fails leaves the count raised.
* *How far a change has come.* A key has no entry (`Absent`), both with equal counts
  (`Both`), the first taken down and the second not yet (`Between`), the first
  released and the second not (`Half`), or it is being subscribed to by one call,
  and then nobody counts (`Subscribing`).
* *Whose entry it is.* `Mine` leaves out the entry that was taken under the topic of
  its last user and not yet renamed (`Stale`); no call of another key holds an entry
  that is `Mine` (`Reserved`).

Each action has a lemma for the key it works for (`...Own`) and one for the others
(`...Beside`). TLC checked `HearInv` over the states of `shadow` before the proof
began; with three keys it met the passing of entries described in section 3, which
`troubled` had to name and without which the invariant is not inductive. An action
that waits is a user of both entries, which leaves its key `Both` or `Between`.

**DeadLinkBound, LiveLinkKept.** Linear arithmetic: while the link is dead, the ticks
since are bounded by the gap (a PINGRESP left in the socket), or by what the timer has
run plus one or two intervals and gaps. TLC shows the bound tight: one tick less is
violated with the run's constants. While the link is up and a ping is outstanding,
timer, age of the ping and gap add up to at least the interval, so the timer has not
expired. `Delay + YieldGap < Interval` is needed: with equality TLC finds a false
alarm when a message is queued before the PINGRESP.

**ReconnectRestores.** The invariant: the table has no holes (which is why it is about
applications that have not unsubscribed); while resubscribing on a live session, a set
flag stands for a subscription of that session, granted or refused (`AnswerKept`); flags are clear while a reconnect is
pending; the loop has done what it has passed and everything in use lies before its end.

**BufferInStep, ImplementsStream.** The invariant `Position` ties the place in
`read_packet` to the index: at most the header has been read when a call gives up, the
body is read only into a buffer that holds it, the chunks of a dropped packet start
behind its header. Each action is then a step of `PacketStream`, a stutter, or one
that sets `lost`; the division into chunks needs only that a chunk never passes the end
unless the packet is shorter than the first one.

**Served, NeverUnderATask.** Added to make them inductive: without `disconnect()` an
object that is not connected has no task, and an attempt to connect is only made by an
object that is not. The step that sets the flag starts the task or sets `starved`, and
nothing ends a task.

**InOrderOfVersions.** While old deltas are discarded, the version number is at least
every version handed over; a clean loop is the innermost one, its message is the one in
the buffer, its version is at most the version number and newer than what the
registrations ahead of it were handed last (`OrderInv`). Any copy into the buffer leaves
no loop clean. `VersionKnown` adds that no delta is newer than the shadow.

**TimersAreExact, PollingLoopsSleep.** `TimerInv`: the counter stands `passed` ticks behind
the start of the timer, modulo `Wrap`, for up to a turn; the time-out is what was asked for,
cut to ticks, if 32 bits hold that; and a poll that was told to go on in this tick is
the one the timer remembers. `Counts` gives the difference of two words back as the
number of ticks, and the rest is the arithmetic of the quotient (`Quotient`, `Monotone`).

Only model-checked: liveness (`ReturnsToRest`, `RecoveryEnds`, `StreamServed`,
`EveryActionEnds`, `GetsConnected`), for which the proof system has no rules here; and
the functions on data (`PacketsExact`, `TopicsMatch`, `JobsExact`, `DocumentsWhole`,
`ValuesFound`, `CoreFound`), which are recursive over their inputs: what they compute
for every input is an induction, for which the provers have no rule either.

Assumptions: the ASSUMEs of the modules (types and ranges of the constants), each
evaluated by TLC in a run.

## 5. Not modelled

* External code: mbedTLS, jsmn, FreeRTOS and HTTPClient are what the client sees of
  them. The set-up of a TLS session and the download of the discovery document are
  sequences of library calls that work or fail as a whole.
* Configuration constants, error codes, logging, version numbers and the examples.
* The setters of handlers, packet ids and options of the client: single assignments.
* The rounding of floating-point values, the wording of documents beyond their
  length and order, and packet ids beyond 65535, which no request compares.
* Compositions across the modules of section 2, such as a shadow used from two tasks:
  what two tasks do to one client is in `ClientCalls`, and the shadow has no
  protection of its own against them.
