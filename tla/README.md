# A TLA+ development of ArduRemoteID

ArduRemoteID is the firmware of an ESP32 module that broadcasts a drone's identity and
position (Open Drone ID over WiFi and Bluetooth).  It takes its data from the flight
controller over MAVLink and DroneCAN, and tells it in return whether the vehicle may arm.
This fork also refuses to arm near airports and prisons and inside listed countries.

This directory holds TLA+ models of the firmware, TLC runs that check them on small
instances, and TLAPS proofs of the main safety properties for all instances.  File names
below are relative to `src/RemoteIDModule/`; `PROJECT.json` maps every definition to the
lines it stands for and lists the hazards the properties are for.  The models follow the
build for `BOARD_AURELIA_RID_S3`: MAVLink, DroneCAN and the flight-area check.

    tlc -workers 2 -config MCLoop_verdict.cfg MCLoop.tla
    tlapm RemoteIDLoopProofs.tla

## The system

One thread runs `loop()`; there is no operating-system concurrency inside the firmware.
What makes it hard is that everything around it is concurrent (two peers with their own
idea of the state, a bus that loses and repeats messages, power that may be cut), and that
one step of the loop calls back into another.

| component | state | operations | talks to |
|---|---|---|---|
| `RemoteIDModule.ino` | `UAS_data`, the pack; `status_reason` | `setup`, `loop`, `set_data`, `check_parse`, `check_flight_area`, `send_ack_response` | everything |
| `transport.cpp` | static: last message of each kind and when it came, `fl_status`, `parse_fail`, ack request and response, session key | `status_check`, `set_ack_response`, `check_signature` | written by both transports, read by the loop |
| `mavlink.cpp` | serial channel, parameter stream | `update`: send heartbeat and arm status, receive, stream parameters | flight controller, ground station |
| `DroneCAN.cpp`, `CANDriver.cpp` | node ID, allocation offset, transmit queue, failure count; controller state | `update`: `do_DNA`, statuses, acks, `processTx`, `processRx`; handlers | flight controller, node ID allocator |
| `flight_checker.cpp` | three arrays of zones, `files_read`, `origin`, `is_inside_banned_country` | `is_flying_allowed`; reading the files, which calls DroneCAN's `update` | SPIFFS, transport |
| `parameters.cpp` | `g` in RAM, a copy in NVS flash | `init`, `set_*`, look-ups, public keys | both transports, `set_data` |
| `BLE_TX.cpp`, `WiFi_TX.cpp` | message counters, phase of the legacy rotation, vendor elements | transmit | radio |
| `mavlink_secure_command.cpp` and its DroneCAN twin | session key, one for each transport | session key, signed configuration, public keys | `scripts/secure_command.py` |
| `webinterface.cpp`, `check_firmware.cpp` | updater, application slots, file system | upload callbacks, check, answer, restart | browser |
| `status.cpp` | none: reads the pack | status page | browser |
| `led.cpp`, `util.cpp`, `romfs.cpp`, `efuse.cpp`, ... | none or constant | output, pure functions | |

What must hold, component by component:

- **loop and transports**: a good verdict is about the pack that is broadcast, and both
  peers hear the same verdict; silence leads to a refusal, lasting evidence to a good verdict;
  an ack request is answered, and with an answer computed for it; the web page hides nothing.
- **flight-area check**: a good verdict means outside every zone found; a list that could not
  be read is not taken for an empty one; arrays stay within bounds; the ray casting says what
  the borders say.
- **parameters**: what is set survives; power cut between two writes leaves a usable state;
  the flight time is never counted twice; a locked identity stays; every visible parameter can
  be listed; a locked module changes nothing but its lock level.
- **CAN node**: only its own node ID, and eventually one; the queue drains after any failure.
- **advertising**: every valid message goes out again and again, whatever comes and goes beside it.
- **updates**: what starts at power-up is replaced in one step by a whole acceptable image; the
  answer given is the true one; a client that goes on succeeds.
- **secure commands**: an accepted change stays; a refusal has a reason; every client ends.

Behaviours that are hard to test: the *nested update* (`flight_checker.cpp:153`): while the
zone files are read, inside `set_data`, DroneCAN messages are handled and an arm status
leaves, in the middle of a verdict; *two variables for one verdict*: MAVLink derives its arm
status from `parse_fail`, DroneCAN from `fl_status`; *sequences of flash writes* that power
may cut; *allocation traffic* that arrives late, twice, or for others; *arrays that double*
while variable-size records are appended; *uploads that break off* and leave the updater as it
was; *requests repeated* after their answer was lost, under a key that has been replaced.

## Modules

    Transport  <-  RemoteIDLoop  <-  RemoteIDLoopProofs,  MCLoop    (verdict, lasting, powerup)
    ParameterStore  <-  ParameterStoreProofs,  MCStore              (store)
    ParamAccess     <-  LinkProofs,            MCAccess             (access, keywipe)
    CanNode         <-  LinkProofs                                  (can)
    ZoneArrays      <-  ZoneArraysProofs,      MCZones              (zones)
    Borders         <-  BordersProofs,         MCBorders            (borders)
    Advertising     <-  AdvertisingProofs,     MCAdvertising        (advert)
    FirmwareUpdate  <-  FirmwareUpdateProofs,  MCUpdate             (update)
          `-- implements Installation
    SecureCommand   <-  SecureCommandProofs,   MCSecure             (secure)

### Transport and RemoteIDLoop: the verdict

`Transport` is the static state of class `Transport` with the handlers of both transports and
`status_check`.  `RemoteIDLoop` extends it with the loop.  `pc` walks through `loop()`:
`mavlink` and `dronecan_*` are the two `update()` calls, one action for each message taken and
each status sent; `Head` marks stale data; `Gate` decides whether to broadcast and computes a
requested ack; `SetData` is the first half of `set_data`, which rebuilds the pack and persists an identity;
`CheckArea`, `CheckZones` and the reading (`ReadNext`, `ReadDone`, `ReadFailed`) are
`is_flying_allowed`; `WatchdogUpdate` enters the nested update (`scan_send`, `scan_receive`);
`Judge` is the second half, `status_check` and the reason it leaves; `Transmit` is the broadcast.

How the data is abstracted:

- A time stamp `last_x_ms` is an age in ticks, saturating above every limit.  This is exact as
  long as no source is silent for the 49 days in which `millis()` wraps.  `millis()` being 0 at
  the moment a message arrives, which the code would take for "never", is ignored.
- A position is a class; `Zones[p]` is the set of lists that have a zone around it.  Geometry
  is in Borders, apart from this module.  What the country file says of the position (`inside`) is
  nondeterministic and kept from when it was read, as in the code.
- An identity is a model value, and a serial number the identity it belongs to.
- The parameters that the verdict reads (`g`) are set over MAVLink and by `param.GetSet` (`handle_ParamSet`, under the lock)
  and by secure commands on either transport, whatever the lock; DroneCAN's are also handled in the nested update.  A
  secure command stands for one NAME=VALUE of it with a valid signature; sessions are `SecureCommand`'s.
- MAVLink sends nothing before it has a system ID (`sysid`), from `MAVLINK_SYSID` or from the vehicle's first heartbeat.
- A SELF_ID or OPERATOR_ID message counts only by its age.  Data that do not encode are followed
  for locations and systems; other encoding faults may happen at will (`OtherFaults`).
- The enumerators with code 0 of the generated dialects, which are not in the repository, are
  written `"ZERO"`: a variable holds it from boot to its first assignment.
- Node ID allocation and the CAN queue are in `CanNode`; here a status that is due is sent.
  Two MAVLink ports behave alike: one is modelled.
- After a failed read the arrays are freed and still used.  This is undefined behaviour: the
  zone checks may then find anything, and properties that speak of the arrays exclude it.

### ParameterStore: RAM, flash and power

`g` and `nvs` are the two copies.  A call that sets several parameters queues its writes in
`todo`; `Set` performs one, in both copies, and `PowerCut` may come between any two.  `Boot` is
`init()`; `FirstInit` is its first-boot part; `Erase` the erasure and restart that a write to `TO_DEFAULTS` makes.
`init()` loads defaults or flash (`Load`), names a network that has no name, in RAM only, and puts the distance of the
test airport back to 0 (`NoTestAirport`, the first write of every boot), so that what a user sets it to lasts until the next restart.
`PersistId` and `CountTime` are the writing parts of `set_data`: the identity, and the two flight-time counters
`FLT_TIME` (total) and `FLT_TIME_AUX` (the flight controller's counter as last seen).
`Fly`, `CounterReset` and `Report` are the vehicle: `flown` is what it has really flown.

Every `nvs_set_*` is taken to reach the flash at once, as the code, which never calls
`nvs_commit`, relies on.  `LOCK_LEVEL` stands for all parameters nobody else reads;
`PUBLIC_KEY5`, which the first boot does not set, is left out.
Wear, a full NVS partition and `DONT_SAVE_BASIC_ID_TO_PARAMETERS` are not followed (with it
fewer writes happen).  `CountersAssumption` says that no ground station sets the hidden
counters: DroneCAN refuses, secure commands are written by the operator, MAVLink lists neither
counter but would accept one by name.  `Field` cuts a text to 20 characters; `StoreAssumption` says that nothing is left of
the empty one only.  A text that is too long is in flash as it came: RAM has its beginning until the next restart, and then nothing.

`SurvivesRestart` names what differs between RAM and what a restart loads, and says that nothing else does:
the test airport's distance, a text that is too long, the empty network name, and a key whose predecessor was set after
`init()`, because `set_char64` clears the neighbour in RAM (run `keywipe`).

### CanNode: node ID and queues

`update()` is `SendStatus` or `do_DNA`, then `processTx` (`SendOk`, `SendFails`, `TxDone`), then
`processRx` (`Receive`, `RxDone`), which takes `RxLimit` frames at most, 60 in the code.  The 16-byte unique ID travels in `Parts` parts; timers are
nondeterministic.  The allocator, stray messages, bus-off and the controller are external.
`calm` says that the bus is no longer disturbed: the liveness properties start there.

### ZoneArrays: reading the zone files

One action per kind of line: a zone within reach, a first coordinate, an edge in or out of
reach, a header.  Each stores what the code stores, after making room or losing the list when
memory runs out.  Country entries carry the number of their polygon, so that `Separated` can
say that no edge joins two polygons.  The module ends when reading does; distances are up to the
environment, and `uint8_t` offsets into the array are not followed (they matter to ray casting over more than 255 coordinates only).

### Borders: inside a country

The other half of `flight_checker.cpp`: `FileHeader`, `FileVertex`, `FileEnd` are the scan at
power-up, which casts a ray over the file.  `ArrayHeader`, `ArrayFirst`, `ArrayEdge`, `ArrayFarEdge` are the second
reading, which fills the array that `is_inside_polygon` then works on; `Fly` moves the vehicle, as far as the battery lasts.

With a reach of 55 km a country is rarely near as a whole.  Of an edge in reach (`Near`) `ArrayEdge` stores the second vertex, and
the first unless it shares a latitude or a longitude with the vertex stored before, whatever edge that was of
(`Apart`; the variable begins uninitialised, as some position).  At the header an open polygon is closed by
`close_polygon`, with corners far out behind its two ends and a third between them, and `check_final_polygon` puts this
third one on the other side of the vehicle where the polygon would say of it what the scan does not.

Coordinates are grid points of a plane and the divisions of `checkEdge` and of the distance are multiplied out, so that the
comparisons are the code's without rounding.  On the sphere a straight line bends, and the corners lie 200 km out;
here they lie some multiple (`Stretch`) of the way out, each of them any.  `polygon_count`, a `uint8_t` in the code, is
not bounded; the offset of a polygon wraps at `OffsetSize`, 256 in the code; there is room for all edges (`ZoneArrays` follows
what is stored when there is not).  The reference is `Within`, a point in triangles, said without any ray.

`ScanIsRight` is about the file, `FlightIsRight` about the array: it says what a file of closed polygons says, at the
place where the file was read (`home`) and wherever the vehicle flies from there, with the exceptions its parts name.
`SeenOpen`: what is near of a country ends in two vertices that are told apart, not on one line with the vehicle.
Where they share a latitude or a longitude the country counts as closed and is cut off by the line between them.
`SameBorders`, away from home only: no vertex behind a gap in the near edges was taken for the one before it, and no
line that the file does not have came within reach.  The code takes the risk of both: it looks at the vehicle's own place
when it closes a polygon (`flight_checker.cpp:508`), and not at where it may go.  `OffsetsFit`: all polygons
begin where a `uint8_t` can say.  `LastSettled`: the country that no header follows is near as a whole, or out of reach.

What is taken for granted of a file is in three assumptions, which TLC evaluates on the files of `borders`.
`BordersAssumption`: it begins with a header, and no vertex is 0,0.  `EvenOddAssumption`: off the border, a point is in a
polygon when a ray from it crosses the border an odd number of times; this is geometry (the triangles against the
ray), not a claim about the code, and `Crosses` states it without `checkEdge`'s quick rejects.  `ApartAssumption`, which
only the array needs: countries do not overlap.  The nine polygons of the file that is shipped
(`airport_check/banned_countries.txt`) are closed, have eleven lines or more, and none has a vertex within another; no header
follows the last one.

### Advertising: the transmitters' turns

`loop()` from `set_data` on: `Beacon`, `Longrange`, `Legacy`, each due or not (`NotDue`).  A pack is the set
of valid messages and those that do not encode.  `NextPhase` is the rotation modulo 6 or 7, `Count` a message
counter, `SetElement` and `ElementFails` the four driver calls of the beacon.  `wait`, `drops`,
`counted` and the ages in `element` are history.

### FirmwareUpdate and Installation

The callbacks of `/update` and `/update_spiffs`, step by step: `UploadStart`, `UploadWrite`,
`UploadEnd` (the flush of 4097 bytes before the check), `Check`, `WriteLead`, `Select`,
`Post`, and the same for files.  Flash is seen in sectors; the updater buffers one, and writes the first
bytes of an image (`lead`) last.  A connection that breaks calls nothing; power may be cut anywhere;
a write may fail.  A signature is a relation between an image and the stored keys, and a descriptor
the last sector of an image.  `Installation` is the promise: `Install` replaces, in one step and at
most once for each restart, what the next power cycle starts; `FirmwareUpdate` implements it under the mapping
`installed <- ImageOf(flash[boot])`, `executing <- ImageOf(flash[running])`.
Two answers go out: the upload's, and one of the final callback (`Post`), which speaks of the updater's error only.  After
a failed check it is OK: `answers` holds both, and `AnswerIsRight` says that the first is the truth and that behind a FAIL
nothing is installed, whatever the second says.
The updater (`Update.begin`, `write`, `end`) is the ESP32 library's, modelled from how it is used.

### SecureCommand: signed changes and a client that repeats

`Handle` is the module's handler, on either transport: `Deny`, `GetSessionKey`, `SetConfig`
(the items one by one, the last of them perhaps a reset), `SetPublicKeys`, `RemovePublicKeys`; `CheckSignature` the rule.
`Send`, `Timeout`, `Receive` are `scripts/secure_command.py`.  The network loses, delays and repeats;
the module restarts and forgets its session key.  Session keys are numbered: that
the random bytes never repeat and that no signature is forged is assumed.  A client's change is
what its signature covers; it names no public key (an item `PUBLIC_KEYx=` would store one, as `SetPublicKeys` does).  The module is
MAVLink's: DroneCAN answers UNSUPPORTED to both operations on public keys.

### ParamAccess: the table from outside

MAVLink lists the numbers one by one (`RequestList`, `Stream`, `Wait`), reads (`Read`) and sets
(`MavlinkSet`); DroneCAN enumerates (`GetByIndex`) and sets (`GetSet`).  The indices and counts are those of
`parameters.cpp`.  A number is kept in halves so that conversions to integers lose something.  `Stored` is the conversion
to the type of the parameter, with the wrap of an `int8_t`; `Raises` compares lock levels as `uint8_t`, as MAVLink does.
Numbers beyond a byte, and negative ones in a message, are left out: -1 and 255 are the same byte in both places.
`HiddenAssumption` says that the hidden entries come last (`parameters.cpp:52-54`): DroneCAN's enumeration, which stops at the
first empty answer, is complete for this reason only.

## Runs

| run | checks | question | bounds |
|---|---|---|---|
| `verdict` | `VerdictsAgree`, `GoodPackWasChecked`, `GoodPackOutsideZones`, `GoodPackNamesVehicle`, `WebShowsRefusal`, `NoGoodWhileReading` | Is a good verdict about the pack that is sent, its position and its identity, whatever arrives while files are read? | three positions (unknown, clear, in a zone), two lists, two identities, a file system that mounts or not, nine messages, options and the identity changed on the way; 2.7 M states |
| `lasting` | `EvidenceArms`, `SilenceIsReported`, `NeedIsAnswered` | Does lasting evidence arm, is silence reported, a request answered? | a module that learns its system ID late, with every source of the arming check; modules under `FORCE_ARM_OK`, broadcasting from power-up or not, with the acks; one list; 247 k states |
| `store` | `TypeOK`, `SurvivesRestart`, `FlightTimeNotTwice`, `ResetCompletes`, `IdentityKept`, `FlightTimeKept` | What does power cut between writes leave? | four texts (one too long), three signed commands, one of which sets a key, the test airport and the network name; flight time to 3; 3.8 M states |
| `can` | `OwnIdOnly`, `GetsAnId`, `QueueDrains` | Does the node get its own ID and recover? | three parts, two frames, two messages queued, two frames taken in one call; 590 k states |
| `zones` | `InBounds`, `Separated`, `LossIsReported` | Are the arrays right up to their limit? | arrays of 5 doubling to a maximum of 10, nine lines per file; 779 k states |
| `borders` | `ScanIsRight`, `FlightIsRight` | Does the ray casting find the vehicle where it is, and does the array go on to? | nine files: concave, with edges along the ray, left open, large countries of which a straight or a bent border, or two, are near, alone and two in a file; read at each of 63 positions; an offset of eight values; 486 k states |
| `advert` | `LocationHasItsTurn`, `BeaconLeads`, `EveryMessageAdvertised`, `BeaconRecovers` | Is every message on the air, again and again? | three packs: one identity, two, nothing to send; 55 k states |
| `update` | `TypeOK`, `AnswerIsRight`, `FilesSettled`, `RetryInstalls`, `InstallsAtOnce` | What is answered, and what is installed? | three images of three sectors, slots of five, two faults, one other upload; 392 k states |
| `secure` | `AcceptedStays`, `DeniedWasSuperseded`, `EveryClientEnds` | Do changes last and clients end? | two clients with overlapping changes; one message lost, one late, one restart, one reset; 513 k states |
| `access` | `ListComplete`, `EnumerationComplete`, `EveryIndexKnown`, `LockHolds` | Is the table complete from outside, and locked when locked? | one parameter of each kind, one of them hidden, set to 1.5 and 255; two list requests, one message lost; 281 k states |
| `powerup` (violation) | `DefaultLocationIsSent` | comment at `RemoteIDModule.ino:556` | |
| `keywipe` (violation) | `SetTouchesOne` | `README.md:129` | |

Why the bounds are enough.  In `verdict` a scan can be interrupted any number of times, and every
message that changes a variable the verdict reads can arrive in it, a stored identity that is replaced by a secure command
included; two lists are the least for which an option can change between one and the next.  Left to the proofs, which cover every
safety property of the run, are a location that does not encode, the country list with what is
kept of it beside its array (`inside`), and a module with `OPTIONS_DONT_SAVE_BASIC_ID`, which `GoodPackNamesVehicle` exempts.
Ages have a limit and one value beyond it; that the limits differ only matters to safety, which is proved for all of them.
`lasting` keeps apart what would multiply: with `FORCE_ARM_OK` the other sources are left out of the verdict and out of the
run (`OneQuestion`, an action constraint), and without it nobody asks for an ack.  The arming check, with each of its sources stopping and coming
back, is thus followed on a module that arms on evidence, and the ack handshake on one that reads its files early and late.
The types of `RemoteIDLoop` are only proved (`TypeCorrect`).
`store` needs three units of flight time: one counted, one reported and not
counted, one not reported.  In `can` the fail limit is 2 instead of 8 and three parts are the real
number.  In `zones` the smallest legal array doubles once and then refuses, and nine lines reach
the closing of a polygon on either side of both events.  In `borders` the polygons have vertices on the
ray's line, edges along it, a notch, and neighbours that share a latitude or a longitude, which is
everything `checkEdge` and `Apart` compare; the strip has a border on either side of the vehicle, so that its near edges have
a gap, with a vertex behind it that is taken for another in one of the two; the country without a header at the end is near or far;
the offset wraps in the longer files.  `advert` holds the rotation over all seven phases with a second
identity that disappears in each of them; the counters wrap at 2.  In `update` three sectors are a first one, with
the lead, a last one, with the descriptor, and one between them; a slot of five has room for one image and a part of
another, so that an appended upload runs out of space, and two faults are a broken connection followed by
a power cut or a failed write.  In `secure` a lost, a late and a repeated message can meet one session.
`access` has a string between numbers, a hidden number, a secret and a name of full length.

`zones` and `borders` disable deadlock checking because reading ends there, `secure` because its clients are done some time; everywhere
else the system never stops.

The two violations are disagreements between text and code, quoted in `PROJECT.json`:
the default location is marked valid and then cleared before it is sent, and setting a public
key clears the one stored after it until the next restart.

Every property of a passing run has a mutant, a plausible bug in one mapped definition
(`Def_Variant` next to `Def` in the modules), under which TLC finds the property violated.

### Fairness

- `RemoteIDLoop!FairSpec`: `loop()` is called for ever (weak fairness of `Progress`); a file ends
  although reading is interrupted (strong, of the end of a file); a status that is due
  periodically is sent (strong: the model's `due` is free, the code's timer of 500 or 100 ms expires
  while the loop keeps asking).  No message has to arrive and time does not have to pass.
  The last restart is taken to be past: a restart needs power, and the properties say "eventually for ever".
- `CanNode!FairSpec`: `update()` is called for ever; a controller told to recover does; the timers
  (1 s for requests, 2 s for recovery) run out when asked again and again.
- `Advertising!Spec`: the loop goes on; a transmission timer looked at in every turn is found expired at some time (strong).
  `BeaconRecovers` assumes in its statement that the driver fails no more.
- `FirmwareUpdate!FairSpec`: callbacks under way go on; somebody goes on uploading the wanted image.
- `SecureCommand!FairSpec`: what is not lost is delivered and handled; a client goes on, and a timeout
  comes when there is nothing to wait for.
- `ParamAccess!Spec`: the loop streams and time passes; the ground station asks again for each index it
  misses below the count it was given.

## Proofs

All for arbitrary constants under the modules' named assumptions, which only say what kind of
thing each constant is (and, for `Borders`, what it takes for granted of a file, above; for `ZoneArrays`, that the
initial size exceeds the four extra coordinates, 16 in the code; for `FirmwareUpdate`, that a slot has room for an image and two sectors more, one of them the
flush's: in the code, that an image leaves 8 KB of its slot).

- `RemoteIDLoopProofs`: `TypeCorrect`; `Invariance`, that `IInv` is inductive; from it `Agreement`,
  `CheckedPack`, `OutsideZones`, `NamesVehicle`, `SilentWhileReading`.  The properties are
  not inductive because they speak of the moment of the broadcast: `IInv` carries along the loop what makes
  them true there.  `PackUnderCheck` ties the pack to the position under check from the rebuild on,
  `RefusedWhileReading` says that the nested update runs under a refusal, and `GoodVerdict` what a
  good verdict has established.  `GoodPackNamesVehicle` says what holds although a message of the nested update may
  replace the stored identity between the fill of the pack and the comparison: the pack is the former one's in that one iteration (`renamed`).  The lemma `JudgeGood` shows that every way into `transmit` provides it.
  `WebTold` is by a look at the one step that leads to the page, `Head`, and at those that may leave it.
- `ParameterStoreProofs`: `StoreTypeCorrect`; `StoreInvariance`; `NotTwice`; `TotalKept`.  The argument
  is a ledger: total + counter <= flown + last seen counter, and the same with the reported time.
  It is kept by the order of the two writes, last-seen first: a cut between them loses time and
  never adds any.  `WritesKeepLedger` says of the writes still due that they preserve it.
  `ResetsEnd` follows from `ResetPendingOnlyOff`: a reset is pending only until the erasure, or while the module is off.
  `RestartSurvived` is by what a boot does to each copy (`RamMatches`) and what is still to be written in one (`BootTodo`): the first
  boot writes the keys from the first to the last, and the one that a write clears in RAM is the next to be written.
  `IdentityStays`: a locked identity is never written again but by a signed command;
  it needs `SurvivesRestart`, so that what is locked in flash is locked in RAM, and `IdentityInRam`.
- `BordersProofs`: `ScanCorrect`.  The argument is one of parity: every line read decides one
  edge at most, and `ScanInv` says that `inside` is the parity of the edges of the present polygon decided so far
  (`Passed`), and that every polygon before it was even.  `RingJudged` says that the edge to the first vertex, which the header adds, makes it
  the parity of the whole polygon; edges are told apart by `Country`, a count of headers, so no induction over the file is
  needed: it is the induction over the steps.  `RayIsExact` says that `checkEdge` with its quick rejects and its case for an edge along a latitude is `Crosses`.
  `FlightIsRight` is only model-checked: where `close_polygon` puts its corners is geometry of far points and not of parity.
- `ZoneArraysProofs`: `NeverPastTheEnd` (one doubling makes room for whatever one line stores),
  `PolygonsSeparated`, `LossReported`.
- `AdvertisingProofs`: `TypeCorrect`, `LocationTurn`, `BeaconFirst`, `CountersInSequence`.  The bound on the
  location's turn is inductive once it also says how far the phase has come: `wait` against `legacy_phase` and `drops`.
- `FirmwareUpdateProofs`: `TypeCorrect`, `FilesAreSettled`, and `AtOnce`, the refinement.  Its invariant says
  that the slot the next restart starts holds a whole image, that nothing is written to it before the restart
  except by the upload that selected it, and that whoever reaches `Select` with a whole image passed the check with an
  acceptable one (`PassedIsAcceptable`); then `Select` is `Install`, `Restart` is `PowerCycle`, and everything else a stutter.
  `AnswerTrue`, that the first answer is the truth as long as no upload was broken off (and, of a FAIL, as long as there was no fault at all), rests on `UploadFollowed`: the updater was free when the upload began
  (`UpdaterFree`, unless one was cut off), it runs as long as nothing failed, and what has been sent is, sector by sector,
  what the slot and the buffer hold (`InFlash`, `InBuffer`), so that what is checked at the end is the file that was sent.
- `SecureCommandProofs`: `TypeCorrect`, `AcceptedIsKept`, `DeniedIsSuperseded`.  `OneHolder` says that a session key is
  in the hands of one client, `LastKey` that the module's is the last one made, `Matching` that what is under way belongs to a request
  its client sent; so a change is applied only under the last key, and whoever overwrites it later holds a later one.
- `LinkProofs`: about `ParamAccess`, `AccessTypeCorrect`; `LockedHolds`, that a locked module changes nothing but its lock level, and that upwards or, by the byte 255, to -1;
  `Enumerated`; `Listed`.  The last one counts: the indices sent so far are those of the visible numbers before the entry
  whose turn it is (`ToldSoFar`), each step through the table adds the next or none (`PrecedingNext`), and at the
  terminator all have been told (`PrecedingEnd`).  `Enumerated` needs `HiddenAssumption`.
  About `CanNode`, whose definitions go by names of their own so that one module extends both: `NodeInvariance`, that a
  confirmation on the bus for this node's unique ID carries this node's ID, and `TakesOwnId`, for any number of parts and
  any queue sizes.

Only model-checked: all liveness (`SilenceIsReported`, `EvidenceArms`, `NeedIsAnswered`, `GetsAnId`,
`QueueDrains`, `EveryMessageAdvertised`, `BeaconRecovers`, `RetryInstalls`, `EveryClientEnds`, `EveryIndexKnown`), which
is beyond the prover, and `FlightIsRight`.  Every other invariant and action property that a run checks is proved.

## Known disagreements and limits of the code

Met while modelling; the models follow the code, and the properties are stated so that they say what holds.

Arming check:

- A repeated MAVLink location refreshes its age (`mavlink.cpp:155`; the comment at 151 says it does not).
- An array that doubled to its maximum of 1024 stores the entry that made it double and no more, and the zones
  left out are not reported (`flight_checker.cpp:80`, `flight_checker.h:19`).
- A list that is bypassed when its turn comes is not read later, when the bypass is lifted (`flight_checker.cpp:648-670`):
  `GoodPackOutsideZones` speaks of the lists in memory.
- An identity set by a message of the nested update is compared at once and broadcast an iteration later.
- A vertex behind a gap in the near edges is lost when it shares a latitude or a longitude with the last one stored, or, for the
  first vertex of the last country without a header after it, with the last of the country before (`flight_checker.cpp:352`).
  An open polygon is right at the place where it was closed, and elsewhere as far as its corners stay out of reach.
- From entry 256 of the array on, `uint8_t` offsets (`flight_checker.cpp:300`, 328) let the ray casting of a polygon begin in another.
- The lists are read only after the flight controller's handshake (`flight_checker.cpp:643`).
- The last polygon of the country file is never judged by the scan unless a header follows it, and a file
  that begins without a header would give its polygon the number 0, "no country".  The shipped file ends without one.
- The scan judges each polygon by itself, the array all of them by one parity (`flight_checker.cpp:225`, 444-479): in a country within a
  banned country the two would disagree.  `ApartAssumption` excludes this; the shipped file has no such country.
- With `OPTIONS_DONT_SAVE_BASIC_ID` slot 0 of the pack is never filled from the stream (`RemoteIDModule.ino:364-380`).

Parameters:

- Power cut in the middle of the three identity writes (`RemoteIDModule.ino:315`) or after the first-boot mark
  (`parameters.cpp:379`) leaves what was not written unwritten (`README.md:121` and 159 say otherwise).
- `param_count_float` is one too small: hidden parameters are already skipped.  The last visible number,
  `TO_DEFAULTS`, is listed but not asked for again when its message is lost.
- Hidden parameters are streamed with index -1 and can be set over MAVLink by name.
- `PARAM_SET` of `LOCK_LEVEL` to 255 on a locked module passes for a raise and is stored as -1, which is no lock
  (`mavlink.cpp:266-280`, `parameters.cpp:290-292`; `README.md:190-194` says that a locked module cannot be changed that way).
- The distance of the test airport is put back to 0 at every boot, whatever was set (`parameters.cpp:374-376`).
- A text longer than its field is cut in RAM and kept as it is in flash, where the next boot does not read it (`parameters.cpp:201-208`, 349-353).
- A name of 16 characters (`MIN_TEST_AIRPORT`) is not found by `PARAM_SET`, as the type that follows is taken for a part of it.
- `LOCK_LEVEL` -1 does not prevent updates (`README.md:115` says any non-zero value does).
- The key parameter's name is built as `PUBLIC_KE1x`: `SET_PUBLIC_KEYS` always fails, `REMOVE_PUBLIC_KEYS` is accepted and removes nothing.

Updates and commands:

- After a failed check the client is answered 500, then 200 OK, and the module restarts with the old image (`webinterface.cpp:102-113`).
- An upload that breaks off leaves the updater running; the next one is appended and fails, or, when a whole image was
  left and no keys are stored, may be answered OK with the earlier image (`AnswerIsRight` excludes this by `cut`).
- `TO_DEFAULTS` in a secure command is never answered; the script repeats it for ever.
- A client that is refused may have been served before, its answer lost; FAILED says that an item failed, the others are applied;
  an item without "=" counts as a success.

Advertising:

- The location is passed over when the second identity disappears in phase 6; if it comes and goes at the wrong moments
  other messages can be passed over for ever (hence the condition in `EveryMessageAdvertised`).
- An empty pack leaves the last one on the air; a WiFi initialisation that fails is not tried again.

## Not modelled

- Distances to airports and prisons, and the sphere.  TLC has no reals; the environment chooses the former, and borders lie in a plane.
- The LED, the status page's layout, the text of reasons: output without effect on state.
- Base64, CRC64, MAC and power tables, byte layouts of frames: pure conversions no property depends on.
- `computeTimings`: with its clock and the only bitrate it is called with it finds no solution, and the result is ignored.
- The fuse write, ROMFS, reading lines from SPIFFS: hardware and constant data.
- Vendored cryptography and inflate, generated dialects, build configuration.
- Reading uninitialised or freed memory after a failed read: the models end there or allow anything.

The component list in `PROJECT.json` gives the reason for each.
