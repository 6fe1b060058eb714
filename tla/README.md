# Weber Connect Unofficial: TLA+ models, checks and proofs

The repository is a Home Assistant integration for Weber Connect grills and
hubs. A user pairs a hub once over Bluetooth; from then on the integration reads
the hub's telemetry through a WebSocket to Weber's cloud relay. The code is
asyncio: one task per configured hub, blocking HTTPS calls in executor threads,
config flows the user may close at any moment. What can go wrong is mostly the
order of things at `await`s, and that is what these modules are about.

All paths below are under `src/custom_components/weber_connect/` unless they
say otherwise.

## 1. Inventory

| Part | State it keeps | Operations | Hard behaviour |
|---|---|---|---|
| Cloud session, `weber_cloud_socket.py` | the socket, `_subscribed`, the sequence number, the shared wake future, back-off index, recovery clock, status cache with fuel sample times | `async_run` (poll, report, pause), `async_request_status` (30 s timer, one fast recovery), connect / subscribe / send / receive, `async_wake`, `async_close` | cancellation and timeout at every await; stale answers in the socket; rotation, recovery and timer in one poll; a cache that outlives its socket |
| Cloud client, `weber_cloud.py` | the bearer token and its expiry | `token`, `authenticate`, `wake_messaging`, `_open` (401 drops the token), `close` | a cancelled await does not stop the thread: several calls share the token, some after the unload |
| Coordinator, `coordinator.py`, `state.py` | the published data, failure count, last success, repair issue | `_async_status`, `_async_error`, `async_start`, `async_close` | what is shown through failures, outages and restarts |
| Config flow, `config_flow.py` | step, address, evidence, identity, cloud config, pairing result, four tasks, entry data | discovery, user, reauth, reconfigure, confirm, prepare, pair, cloud, retry, start over, complete, remove | several flows at once; a flow closed while a step awaits; partial failure of save / update / remove |
| Pairing records, `pairing_storage.py` | one private file per companion | save, load, remove | a record and the entry that refers to it are written by different stores |
| Saber pairing, `bluetooth.py` | link, two bounded notification queues, last polled response, version, sequence | connect with up to three service attempts, greeting and version negotiation, confirmation wait | queue overflow, stale characteristic values, late answers |
| SiLabs pairing, `silabs_secure.py`, `silabs_pairing.py` | exchange state, cipher, replay sets, version | request, lower version, response, handshake, capabilities, resume, cancel | duplicated, reordered and unrelated frames; late answers to an earlier request |
| Transport family, `transport_family.py`, `protocol_adapters.py` | none | classify an advertisement, a service table; guard pairing | conflicting evidence must never authorise pairing |
| Codecs, `saber_frames.py`, `silabs_frames.py`, `capabilities.py`, `portable.py` | none | TLV scan, CRC, envelopes, payloads down to the published reading | damaged, cut and concatenated frames; a field given twice; a status cut short |
| Entities, `sensor.py`, `binary_sensor.py`, `entity.py`, `__init__.py` | known slots, added keys | create an entity per reported value and slot; load, unload | values that first appear after a failure or a reload; a registry that is saved late; a half-deleted slot |
| Repairs, options, diagnostics, support | a bounded journal | reports, redaction, options form | none over time |

How they interact. `__init__.py` builds a coordinator, which owns a client and a
session and runs `async_run` as the entry's background task. The session calls
the client in executor threads and calls back into the coordinator, which
publishes to the entities and raises or clears the `credentials_rejected` issue.
`repairs.py` turns that issue into a reauthentication: a config flow, which
registers a companion (client), pairs it (Bluetooth), waits for its association
(client), stores its keys (pairing records), and updates and reloads the entry.
`async_close` cancels the task, waits for it, and closes the client.

Each part is right when:

- session: one owned socket, subscribed before it is polled; each poll bounded,
  reported once, followed by another; nothing after the unload;
- client: a call gets a real token; nothing survives the unload;
- coordinator: nothing stale shown as current, nothing retained lost, the
  availability in step with the failure count;
- flow: the secrets of one attempt only, a registered companion and a qualified
  protocol before the hub is contacted, one flow per hub, a repair bound to its
  appliance, the record an entry names always there, no dead end;
- Bluetooth pairing: the confirmation belongs to this request and is not lost,
  no link outlives the attempt, the user is asked once;
- transport family: a controller is paired in its own protocol or not at all,
  except that one known by its product name only is taken for a Saber hub;
- codecs: a message is read as it was sent or not at all, a malformed container
  is marked, and a reading shown is one the hub gave;
- entities: what was ever reported can be seen, a known slot returns whole.

## 2. Modules

| Module | Models | Theorems |
|---|---|---|
| `CloudSession` | the run loop of `WeberCloudSession`, one action per stretch of code between two awaits | 13 in `CloudSessionProofs` |
| `PollContract` | what the coordinator relies on: polls and pauses alternate, one callback per completed poll, none after the stop | abstract specification |
| `Telemetry` | status cache, publication, offline states, repair issue | 9 in `TelemetryProofs` |
| `Entities` | on top of `Telemetry`: an entry's sensors over loads, unloads, crashes and deletions | 3 in `TelemetryProofs` |
| `CloudClient` | the token under executor threads, the run task around it | 5 in `CloudClientProofs` |
| `ConfigFlow` | setup and repair flows, pairing records, entries, crash | 6 in `ConfigFlowProofs` |
| `SaberPairing` | one Bluetooth pairing of a Saber hub: links, queues, greeting, confirmation | 5 in `SaberPairingProofs` |
| `SiLabsPairing` | the SiLabs exchange and its response channel, pairing or resuming | 4 in `SiLabsPairingProofs` |
| `ExchangeContract` | what the flow relies on: at most two requests, a proof of the key before a result, no key left | abstract specification |
| `Tlv` | the scan of a message body into records, one action per way through the loop | 4 in `CodecProofs` |
| `Framing` | the envelopes, their builders and parsers, byte for byte, with the CRC | 3 in `CodecProofs` |
| `Status` | the readers of statuses and capabilities, and `normalize_state` | operators |
| `TransportFamily` | the classification of advertisements and of GATT tables, the guard of the adapters | operators |
| `Wire` | a message on its way from a hub to what is shown, composed of the four above | 7 in `WireProofs` |
| `MC...` | instances for TLC | - |

How they compose. `Entities` extends `Telemetry`, and refines it: each of its
steps is one of `Telemetry` or leaves the data alone. `Wire` extends `Tlv`,
`TransportFamily` and `Status`, which extends `Framing`. `CloudSession` implements
`PollContract`, `SiLabsPairing` implements `ExchangeContract`. What an
interface of one module leaves to another is left free in it: `Telemetry` takes
any schedule of frames and failures, of which `CloudSession` produces some;
`ConfigFlow` takes any outcome of a pairing.

### CloudSession

`pc` is the await the task is suspended at: `check` (`token_needs_refresh`),
`rotate`, `recover`, `fail`, `close` (the four places that await a socket's
`close()`), `token`, `wakeup`, `connect`, `send`, `recv`, `sleep`. Between two
awaits the code is atomic, so an action is everything from one await to the
next: `StatusReceived` is the arrival of the 0x80 frame, the end of the request,
the status callback and the reset of the back-off. The request timer
(`RequestTimeout`) and the cancellation of the unload (`Cancel`) can strike at
every await. Sockets are identities: `live` and `closing` record what the
network still sees, `conn` what `self._connection` names, and the invariant
`OneSocket` says they agree.

The hub and the relay are external and do as they please: the hub answers a 0x05
request or does not, the relay breaks a socket or stays silent. `atHub`, `inbox`
and `age` follow each answer back to the poll whose request it answers. Exceptions are kept as
the three classes the code tells apart: lost connection, rejected credentials,
anything else.

Not in the model: the order in which asyncio would deliver a timeout and a
cancellation that are due at the same instant (either may come first), the
pause between subscription requests (`subscribe_delay`, 0.05 s), and the counters kept for support.

### Telemetry

A fuel value is its age; the cloud status is "reported on this socket" or "on an
earlier one"; every other value is its presence. The session's cache and the
coordinator's data are two views of the same values, so the module composes the
frame handling of the session with the callbacks of the coordinator; when a
poll happens is left free (any frame, loss, failure, tick or reload may come
next), which covers every schedule `CloudSession` can produce.

The status keys are one of each kind the code treats differently: the cloud
status, which is dropped with its socket; `device_state`, which is retained and
published as it is cached; `battery_level`, which is retained and cached as the
hub sent it, but published only if it is a percentage (`Published`, for `_percent`
of `state.py`). A byte above 100 is the value `Beyond`. A fuel percentage out of
range never gets into the cache, so nothing is left to check when it is
published. No fuel key depends on another, so which of the two tags an instance
has (`FuelKeys`) is a parameter: the run has one, the theorems hold for any.

### Entities

Two kinds of entities are created as they are reported: a hub sensor per key
(`DYNAMIC_HUB_SENSORS`) and the two sensors of a probe slot beyond those every
load starts with. `live` is what Home Assistant runs, `registry` and `saved` its
entity registry in memory and on disk, of which only the slot's two identifiers
matter. A load reads the registry for known slots (`Known`), sets up the
sensors for the data so far (`New`), and from then on every publication adds
what is new. `UnloadPlatforms` comes before `CloseEntry`, as in
`async_unload_entry`; it may fail, and the entry then stays as it was. The
sensors of timers and burners, and the binary sensors that are created in the
same way, are not told apart.

### CloudClient

One action per access to the shared token or the network; `job[j].at` is the
statement a thread is at. The run task is reduced to the calls it makes. The
module is where the finding on the token comes from; the properties
`SoloTokenIsReal` and `QuietUnloadDiscards` say when the code does keep its
promises: when no other call is in flight. (A registration left over from a
cancelled await may store a token after `close()` has dropped it.)

### ConfigFlow

A flow is a record of the flow object's fields. The progress steps
(`preparing`, `pairing`, `cloud`) end with the outcomes their tasks can have;
`qualifying`, `saving` and `retiring` are steps suspended in an await of their
own, which run on even when the user closes the dialog (`alive = FALSE`). A
companion value stands for everything `generate_identity` and
`CloudConfig.generate` produce together, so mixing two attempts is visible.

What an advertisement tells (`Advertised`, for `classify_discovery`) depends on
what of it was heard: the company data, which is conclusive for a Saber hub and
to be settled over GATT for a SiLabs hub; only the product name (`name_only`),
which makes a hub of either kind a Saber hub, and `SaberAdapter` accepts that; or
nothing usable. A SiLabs hub may so be asked to pair in Saber's protocol. That it
does not answer such a request (`Understood`) is an assumption about the hub,
outside the code.

The thread that registers a companion is not stopped by cancelling its task, so
whatever ends a flow in `preparing` (closing, a deleted entry, a crash) may still
see it registered (`MayRegister`). `search_again`, `choose_hub` and `start_over` of
a repair whose entry was deleted clear the flow and then fail; the retries from
there find no companion and no result.
Entries are kept twice, in memory and as last saved, because Home Assistant
saves them with a delay while a pairing record is written and removed at once.

External, as the code uses it: the flow manager (progress callbacks, the
in-progress check on a unique identifier, aborting the reauthentication of a
deleted entry, dropping the result of a removed flow), the entry registry, the
hub's approval, Weber's association service. `FlowWhole`, a half of
`OneGeneration`, says what a flow holds when its hub is asked: a registered
companion of one attempt, and evidence of the hub's own protocol or its name;
past the pairing, evidence of its own protocol or the name of a Saber hub.

### SaberPairing

`pc` is again an await of `async_pair`: `connect`, `subscribe`, `status` and
`session` (the setup of one link), `clear`, `drop`, `backoff` (the link is given
up and made again), then `greet`, `greeting`, `request`, `confirm`, `post` and
`farewell`, and `release` for the `finally`. A frame carries what
`_pairing_payload` tells apart, the link it came over and the command it
answers; `Notify` sorts it into one of the two bounded queues. `offered` is the
set of values RESPONSE has had while a read is pending, so a read may return the
value before or after an answer. RESPONSE may start with the answer to an
earlier attempt (`Old`). `open` is the set of links that still need a
`disconnect()`.

### SiLabsPairing

The module composes the two entry points of `bluetooth.py`, the response channel
and the exchange. A wait (`confirmation`, `handshake`, `capabilities`) takes
frames until the answer comes, `MaxResponses` others have come, or its deadline
passes (`StageFails`). Cryptography is reduced to what the exchange can see: a
frame is plain, sealed with the keys of this pairing (`ours`), or sealed with
others (`foreign`). A replay is refused on the sequence, which stands for marker
and nonce together. `n` makes two frames with the same content different values,
as their timestamps and nonces do.

`ExchangeContract` sees only three things: the phase, the number of requests,
and whether a session key is held. The mapping is `Phase`, `requestSeq`,
`cipher`; `ContractKept` is the refinement.

### Wire, and the four modules it is made of

A step is a stage of the code that handles one message. Over Bluetooth:
`Discover` classifies an advertisement, of which a part may be missing or
another family's merged in by the operating system; `QualifyGatt` reads the
services, `RequireSupport` asks the adapter; `Arrive` puts a frame on the way:
whole, disturbed, cut, lengthened, or two frames in one. `Receive`
accepts it or not. A reply in SiLabs capabilities is scanned and read
(`ReadCapabilities`). Over the cloud: a routed message is unwrapped, its body
scanned, an error refused (`ReadError`), an appliance status merged into the
session's cache (`ReadAppliance`), a cook status scanned, its nested records one
scan each (`ReadNested`), and what results is published (`Publish`).

`sent` and `said` keep what the hub meant, so that a property can compare it
with what the code accepted (`got`), learned or published (`shown`). Bytes are
bytes: `Framing` computes checksums, lengths and widths as the code does, since
what a damaged frame is taken for depends on them. `Status` keeps codes in
place of the names the code gives them, and one field of each kind where several
are read alike; `NoReading` is the number that stands for a sensor without one.
A cook status nests records in records: `nest` keeps the outer list, the
record of it being scanned and the rows read so far, which the code has in its
local variables. `Tlv` has an action per way through the loop of `parse_tlv`,
including the two that stop it (`Excess`, `Overrun`), so that the state of the
scan can be reasoned about.

What the hub may say is a parameter: `Reports` and `Statuses` are lists of items
whose values fit the fields they are written in (`WireAssumption`). Everything
that can happen to a message on its way is written in the module, so that it
holds for the proofs as for the runs: where it is cut (`Cuts`, `Broken`), what
noise does to a byte (`Altered`), which advertisements and which service tables
come through (`Advertisements`, `Tables`).

## 3. Runs

| Run | Question | Bounds |
|---|---|---|
| `session` | every interleaving of the run task, timers, hub, wake call and unload: one owned socket, bounded polls, `PollContract` implemented, an unload settles | 3 sockets, sequence wraps at 2, 2 back-offs |
| `session_fresh` | *violation*: is a published status the answer to this poll's request? | 3 sockets |
| `telemetry` | staleness, retention, availability, repair issue; entities over loads, unloads, crashes and deletions | a minute is 1 tick, threshold 2, a fuel key, 2 hub sensors (fuel, battery) and a slot |
| `client` | a solo call gets a token, a quiet unload is clean, every leftover call and the unload end | 3 threads: a leftover, a token call, a wake |
| `client_token` | *violation*, see findings | 3 threads |
| `flow` | secrets, records, hubs and repairs under closing, retry, crash; every progress screen gives way to a form, a menu or the end | 2 flows, a SiLabs hub and a Saber hub, 2 companions, 2 appliances |
| `flow_removed` | *violation*, see findings | 1 flow |
| `saber` | links released, no frame of an earlier link, the decision not lost, one request, pairing ends | queues of 2, 2 links, 1 greeting, 1 other version |
| `saber_confirmed` | *violation*, see findings | 1 link, 1 greeting |
| `silabs` | late answers, replays, `ExchangeContract`, the exchange ends | queue of 2, 2 unrelated frames per wait, versions 9 to 11, 4 frames of the appliance |
| `silabs_replay` | *violation*, see findings | 4 frames |
| `wire` | the family paired, frames accepted, replies routed, containers marked malformed, capabilities and readings kept | at most 3 records to a scan, 2 items relayed, the messages listed in `MCWire` |

Why the bounds are enough. A session never has more than one live socket
(proved for any number), and sockets still closing are interchangeable: two
beside it let a rotation, a recovery and an unload overlap. Ages of answers
saturate at 2, the first value the properties do not allow. The fuel age
saturates at the maximum, past which the code no longer tells ages apart; a
minute of one tick and a threshold of two (the code: three) keep every
comparison, below, at and past its limit, and the properties of the run are
proved for any value. Two companions let a hub be set up and repaired, or set
up twice at once; two flows are the smallest number that can collide, and the
guards that keep flows apart compare pairs. Here too the safety properties are
proved for any number.

`wire` cuts each frame it lists at every length, lengthens and doubles it, and
disturbs each byte of a Saber frame in turn (either end bit, all bits, the byte
lost). A SiLabs frame carries no checksum; radio noise in it is the link layer's
to detect, so it is only cut, lengthened and doubled. Three records to a scan (`MAX_TLV_RECORDS` is 128) let a message
have fewer records than the limit, as many, and more. `MCReports` and
`MCStatuses` hold a message for each case the readers tell apart: a whole status, a
field given twice, values at both ends of their ranges and past them, the codes
for "no reading", rows cut at the limit of what is read of them, slots at and
past the last. Two items relayed are enough for a status to replace, contradict
and complete the one before it.

A hub answers a command at most once, so the code's queue of 8 cannot overflow
with the answers to three greetings and a request; the run keeps that relation
(a queue of 2 for a greeting and a request, `QueueAssumption`), so an answer lost
to telemetry would show. Two links have every
transition between links that three have. Four frames of a SiLabs appliance are
the longest exchange (lower the version, confirm, prove, report); with one of
them spent on a duplicate or an unrelated frame the exchange still reaches the
stage it disturbs. `HubVersions` has one version the code supports and one below
the minimum.

Deadlock is not checked where the system may stop for good: an unloaded
session and client, a pairing that has ended, companions used up. It is checked
in `telemetry` and `wire`, which never stop.

Type invariants are theorems rather than properties of a run, and so are a few
facts too plain for one (one wake request at a time, the recovery clock, what a
failed poll leaves).

### Fairness

- `SaberPairing`: the task's own steps, and the timeouts of its two waits, which
  a frame or a read does not extend. Nothing is assumed of hub, user or radio.
- `SiLabsPairing`: the deadline of each stage, which holds for the writes and
  waits in it, and the five seconds given to a disconnect.
- `CloudSession`: weak fairness of what asyncio and the library do by
  themselves: a runnable task runs, the request timer fires, `close()` is bounded
  by `close_timeout=3`, the pause ends. Nothing is assumed of hub or relay.
- `CloudClient`: threads are scheduled and `urllib`'s timeout ends every
  network step; the unload itself proceeds.
- `ConfigFlow`: tasks end (bounded by their own timeouts), their callers go on.
  Nothing is assumed of the user.
- `Telemetry`, `Entities`, `Wire`: none. What they promise is about what is shown
  when something arrives; that polls go on is `CloudSession`'s promise.

## 4. Findings

1. `session_fresh`: `_async_request_status_once` says it waits "for a fresh
   cook-status frame", but takes the first 0x80 in the socket. A subscription
   asks twice and reads one answer, so every later status answers the previous
   poll's request. `StaleByAtMostOne` shows the lag never grows past one poll.
2. `client_token`: `token() -> str` can return `None` when a leftover call's 401
   falls between storing the token and reading it again.
3. `flow_removed`: a flow removed while it reads the GATT table goes on to start
   its cloud registration.
4. `saber_confirmed`: `async_pair` may return a result on the confirmation of an
   earlier pairing, still readable in RESPONSE, when nothing was read on this
   link before. One value read before the request would be enough to rule it
   out: the code compares what it reads with `last_polled_response`.
5. `silabs_replay`: a frame that is both read and notified can be delivered
   twice, and the exchange then fails with "incoming sequence was replayed"
   though the appliance repeated nothing. `OneRouteOneDelivery` shows it takes a
   characteristic that does both.
6. `wire`, a comment only: `transport_family.py` says that "catalogue names alone
   never authorize a pairing exchange" (line 3) and that it classifies "without
   inferring a protocol from product names" (line 88). The code does both: a
   recognized name without company data is the Saber family, `NAME_ONLY`, and
   `SaberAdapter` asks for no more than the family. `docs/transport-families.md`
   (lines 16 to 18) and a test describe what the code does. `FamilyIsReal` holds
   with this exception and `OneGeneration` allows for it; neither would hold
   without.

## 5. Proofs

### CloudSessionProofs

For any set of sockets, any sequence bound and any number of back-offs: the type
invariant and every safety property of the `session` run; that a failed poll hands no socket on, that
one wake request runs, that the recovery clock follows the back-off, that nothing
is reported after the unload; and that the session implements the safety part of
`PollContract`.

The argument: `TypeOK` and `OneSocket` are inductive on their own, the others
are not. `SessionInv` strengthens them with what each await guarantees:

- `ProtocolInv`: which socket the task holds at each await, that the requests
  still to be sent together with those sent on this socket make up the
  subscription, and that nothing is subscribed without a socket;
- `EffortInv`: how many sockets and read windows a poll may still open, from
  where it is and whether it has used its recovery;
- `LoopInv`: what the flags of the loop say at a pause (recovery clock, back-off
  index, report, wake job).

One step of the proof takes each action, and the properties follow from the
invariant. `ContractKept` maps `start` and `sleep` to `idle`, a closed session to
`stopped` and every other await to `polling`; each action is a step of the
contract or a stutter.

`StaleByAtMostOne` needs an invariant of its own, `StaleInv`, about the answers
still to come: those in the socket and those the hub owes come in order, only
the first can be that of the poll before, and together with the 0x05 requests
the send loop still has to send they are at most two. A poll takes one, so the
next finds one, and it is fresh.

`WakeHonoured` needs only `WakeKept`: between a wake call and the poll that
answers it the event stays set, whatever fails or is cancelled meanwhile.

### TelemetryProofs

For any maximum age and any failure threshold: the type invariant and the six
properties of `Telemetry` in the `telemetry` run. The strengthening adds `CacheInv`: the cache
never holds the cloud status of a socket since dropped, and has a value,
in range or not, for every retained key that is shown; without it neither `CloudStatusCurrent` nor `RetainedStays` follows
from the state before the step. The lemmas say what expiry, the loss of a
socket and each published state do to a value.

The same module has the theorems about `Entities`. `ESpec => Spec`: with the entities around it, the coordinator behaves as
`Telemetry` says, so every theorem about `Telemetry` holds of `Entities` too. And
for any set of hub sensors, `ReportedIsShown` and `KnownSlotsReturn`. The
strengthening (`ShownInv`) says that in a loaded entry what runs is what was
added, that a slot's two sensors come together, and that whoever asks for a
sensor (the data, the known slot, the registry) has it.

### CloudClientProofs

For any set of executor threads: the type invariant, that one wake request runs,
`SoloTokenIsReal` and `QuietUnloadDiscards`. The strengthening says which thread
the task waits for (`WaitInv`), that a running wake request is the shared one
(`WakeInv`), and that while a token call is alone every running thread is the
one awaited (`SoloInv`), so that nobody else can drop the token it stored.

### ConfigFlowProofs

For any number of flows, hubs, companions and appliances: the type invariant and
all safety properties of the `flow` run. They rest on who owns a companion:

- `FlowOK`: what a flow's record holds at each of its steps (an identity before
  it is presented, registered before the hub is contacted, data put together
  from one attempt; the evidence is such as its hub can give, and past the pairing
  the hub has answered in that protocol);
- `Owned`: an identity was generated once and is that of one flow; it is that of
  an entry only while its flow removes the record it replaced; the record being
  removed is nobody's any more;
- `Whole` and `Named`, of the entries in memory and of those on disk: each is of
  one companion, of which no other is, and no flow will create another entry
  under its name;
- `Alone`: open flows have different hubs, and a setup's hub has no entry;
- `Bound`: the appliance checked before a record is saved is still the entry's
  when the save is over, and an entry on disk has the appliance it has in
  memory.

`Bound` holds because a repair in progress keeps other repairs out, a deleted
entry comes back only under another name (`Named`), and nothing else writes the
appliance. `RefStored` needs `Whole` of all entries: a deletion removes only its own
record because no two entries have the same. One lemma moves a single flow
(`MoveKeeps`, with the condition `May` on its next record), one writes an entry
(`WrittenKeeps`), one lets flows end and entries disappear (`FadeKeeps`); each
action is an instance of one of them.

### SaberPairingProofs

For any number of links, greetings and versions: the type invariant, that one
link is held at most and none at the end, that no link is made once something
was sent, that no frame of an earlier link is queued in the exchange, and that
the user's decision is not lost. The last uses `QueueAssumption`, that the queue
for pairing responses is larger than the number of greetings, which the code's
constants satisfy (8 against 3): the hub answers a command once, telemetry goes
to the other queue, so the answers to every command fit behind it. `Kept` counts
them: the frames queued behind the decision and the answers still owed are at
most as many as the greetings.

### SiLabsPairingProofs

For any queue, any number of frames and responses, any range of versions: the
type invariant, `AgreedToLast`, `OneRouteOneDelivery`, and that the exchange over its
channel implements `ExchangeContract`. The strengthening speaks of every frame
under way, in the queue, in the characteristic or being read: a confirmation is
one the appliance gave to that request (`AgreedInv`), a sealed frame has a
sequence the appliance used (`SentInv`). Where only one of the two routes works
and the appliance does not repeat itself, no sealed frame under way was heard
before (`NotifiedInv`, `ReadInv`, the latter but for the value read last, which the
channel skips); with both, neither holds.

### CodecProofs

The scan, for any payload and any limit on the records: the records found lie
one after the other in the payload, and a scan is marked malformed exactly when
the payload is not a whole number of records within the limit. The
specification says well-formed by the existence of a cut of the payload into
records, without scanning; the strengthening (`InEveryCut`) says that any such
cut begins with the records found.

The pure functions, for every input: two messages that differ in one byte have
different checksums (`Crc8Detects`: each step of the CRC is injective in the sum
and in the byte); a number that fits its field is read back as it was written
(`ReadBack`); records laid out within the limit are found again, all of them
(`WholeRead`), and of a message cut anywhere those that end before the cut
(`ReadAsLaid`); the notification callback's test and the decoder agree on every
sequence of bytes (`RouterAndDecoder`); a frame the parsers accept is intact in
terms that do not parse it, and of an intact frame no cut, extension or changed
byte is intact with another message in it (`DamagedByte`, `NotCut`).

These functions are recursive (the checksum, the bytes of a number, the layout
of a list), and the library's induction takes a predicate as parameter, which
no installed prover instantiates. The lemmas go around it: a set of
counterexamples in `Nat` has a least element (`Least`, by `WellFoundedInduction`'s
theorem on minimal elements), so what holds of 0 and of every successor holds up
to n (`UpTo`), and a function given by its first value and its steps exists
(`Recursion`): the recursive definitions have the values they name.

### WireProofs

For every set of reports and statuses, any number of items relayed and any
limit that leaves room for a row's three records: all seven properties of the
`wire` run. Five invariants carry them.

- `LinkInv`: what can be made of a controller of each kind, whatever part of its
  advertisement and of its service table comes through (`Judgements`); so one
  that is paired is of its family, or has a product name alone (`FamilyIsReal`).
- `FrameInv`: what arrives is a frame of the message sent, whole or broken. A
  Saber frame that is accepted is intact, and of the broken ones only those are
  that say the same; a SiLabs frame or a relayed one is accepted only if it has
  exactly the length it announces, which a piece or a double has not
  (`AcceptedAsSent`, `RouterAgrees`).
- `ScanInv`: what is scanned is the message sent, or a record nested in what was
  read of it, and the rows kept so far are those of the items before
  (`NestInv`). With the theorems on the scan this gives what is found: the
  items up to the cut, and of each row the fields up to its own cut.
  `TailIffMalformed` and `CapabilitiesUnambiguous` follow.
- `SaidInv`: each value in the session's cache is one that a report relayed so far
  gives for that reading; merging a report keeps it, one field at a time.
- `ShownInv`: each value published is told (`Told`: by this status, by a report
  before it, for a row by the row of that number) and nothing told is dropped
  (`Kept`). `ReadingsAreSent` and `NothingLost` are its two halves.

Where the code reads two fields alike, one lemma stands for both: a number read
(`DegreesRead`, `NumberRead`), a code looked up (`LookUpIs`, `NamedIs`), a row of any
kind shown (`ShownWasSent`, `SentIsShown`).

### Assumptions and what is left

The assumptions are those the modules name, each evaluated by TLC: of
`CloudSession` (`NoSocket` is no socket, the set of sockets is finite, the two
bounds are positive), `Telemetry` (positive age and threshold), `Entities` (the hub
sensors are keys of the data), `CloudClient` (`NoJob` is no thread), `ConfigFlow` (the
SiLabs hubs are hubs, `None` is nothing else), the two pairing modules (bounds are
positive, versions are numbers, the smallest version is below the largest;
`QueueAssumption`), `Tlv` (the limit is a number) and `Wire` (what the hub says fits
the fields it is written in; at least three records are read, `MAX_TLV_RECORDS`
being 128).

Left to TLC: liveness under fairness, which is out of the prover's reach
(`UnloadEnds`, the liveness half of `PollContract`, `UnloadSettles`, `NeverStuck`,
`PairingEnds`, `ExchangeEnds`). Every other property of a passing run is also a
theorem. The runs still say what the proofs do not: that the interesting
states exist, and that each property fails when the code it is about is changed.

## 6. Not modelled

- Options, diagnostics and support reports: values and layout, no behaviour over
  time; the journal is a bounded list nothing depends on.
- `scripts/` and `.github/`: maintainers' tools, not part of the integration.
- Cryptography, TLS, HTTP and the WebSocket library: external.
- Entity descriptions, units, icons, translations, and the tables that name
  codes: `Status` keeps the codes and which of them have a name.
- `portable.py`: nothing of the integration reads it.
- The clock of the association wait (`_async_wait_for_cloud_association`): `ConfigFlow`
  has its outcomes, not its deadline arithmetic.
- Exceptions raised by the coordinator's own callbacks.
- The record of a flow that is closed while it saves it: it stays behind, named
  by no entry. The code has no promise about it that a property could state.
- What Home Assistant does with an entity that is added while its platform
  unloads.
- A token refused by the WebSocket upgrade (401, 403) stays cached until its
  expiry: `CloudClient` does not tell one token from another.

## 7. Plan

What would add most, in this order:

1. `AssociationWait`: the deadline arithmetic of the cloud step in integer time.
2. Composition of session, client and coordinator, with tokens that have an
   identity: a refused token drives the failures of `CloudSession`, the repair of
   `ConfigFlow` ends them.
3. Timers, burners and the binary sensors in `Entities`.
