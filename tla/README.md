# A verification project for AOG_Boards_New

The repository is the firmware of two boards for AgOpenGPS: a *navigation* board (GNSS receivers,
corrections, position and heading to the host) and a *steering* board (steering angle from the host,
sensors, failsafe, motor driver). `app_core` builds one role or, in the full-test build, both. This
directory holds TLA+ models of the code in `src/components`, TLC configurations that check them on
small instances, and TLAPS proofs of the safety properties of both boards.

```
tlc -config MCSteering.cfg MCSteering.tla      # one run; runs are listed in PROJECT.json
tlapm NavigationSystem_proofs.tla              # the proofs of one component
```

## 1. The system

### How it runs

One FreeRTOS task, `task_service` (`runtime/runtime.c`), loops: take the time, call the
`service_step` of every registered component in registration order with that one timestamp, sleep
10 ms. Every component runs to completion on this task. A second task, `task_fast`, runs on the other
core but no component installs a callback in it, so nothing is shared. The concurrency of this code
is therefore not preemption but **order and age**: which component has run already in this pass, which
snapshot is from this pass and which from long ago, which bytes are still in a ring, how late a pass
is. Components exchange data in two ways only:

* **byte rings** (`byte_ring_buffer`): one writer, one reader, a full ring takes a prefix of a write and
  says so in a result that every caller but the RTCM router ignores;
* **snapshots** (`snapshot_buffer`): the latest value, with a `valid` flag that is never cleared and no
  age. A reader that wants to know whether a value is current has no means to.

### Components

| component | state | operations | interacts with | correct when |
|---|---|---|---|---|
| byte ring (`runtime_buffers`) | storage, head, tail, size, capacity, overflow counter | init, write, read, available, overflow_count | every transport and application | the redundant indices agree; first in, first out; a call returns |
| snapshot (`runtime_snapshot`) | value, valid, sequence | init, set, get | sensors, applications, control, safety | the reader gets the value last set |
| registry and service task (`runtime_components`, `runtime`) | the list of components | register, step_all | all | order is the data-flow order of the role |
| wiring (`app_core`) | which pointers point where, registration order | `app_core_init` | all | a result is used in the pass that makes it |
| UDP (`transport_udp`) | two rings, `bound` | init, step (drain 64 bytes, receive is a stub) | AOG applications, network | frames leave whole |
| AOG codec (`protocol_aog`) | parser state, length, PGN, data, count | encode, verify, feed one byte | AOG applications | accepts what the verifier accepts; resynchronises |
| AOG steering app | parser, steering input and its snapshot, hello flag, time of last status | step | UDP rings, control | last frame wins; every hello answered |
| sensors (`imu_bno085`, `ads1118`, `was_sensor`) | validity and value, snapshots, calibration | step, set_calibration | SPI, control | a stale sample is not called valid |
| steering control | command and its snapshot | step | input, sensor snapshots, failsafe feed | the watchdog is fed only by a live, sensor-backed command |
| failsafe (`safety_failsafe`) | time of last feed, timeout, triggered, count, snapshot, pin | step, feed, set_timeout | control, actuator, GPIO | trips when not fed, status and pin agree |
| actuator (`actuator_drv8263h`) | enabled, blocked, duty, count of missing commands | step, enable, disable | command and failsafe snapshots, PWM | no drive under a triggered failsafe, nor without a command |
| AOG navigation app | parser, hello flag, time of the last output | step | position and heading snapshots, UDP rings | sends current data at its interval |
| GNSS (`gnss_um980`) and dual heading | NMEA parser, snapshots; both positions, result, heading snapshot | step | UART ring, navigation app | an invalid solution is not sent as valid |
| NMEA parser | state, sentence buffer, checksum, decoded fields | feed, per-sentence parsers | GNSS | fields are those of the sentence; resynchronises |
| NTRIP client | state, started, time of last change, RTCM ring | start, step, transition | TCP ring, router | forwards only when connected, nothing lost or stale |
| RTCM router, passthrough | source, outputs, statistics | add_output, step | NTRIP ring, UART transmit rings | every output gets every byte or the loss is counted |
| TCP, UART transports | two rings each | init, step | hardware | as UDP |
| fast task, statistics, watchdog, health | timing statistics | step | nothing | - |
| message queue | head, tail, count | send, receive | no component | - |
| HAL, boards, feature flags, console, CLI | an operations table never installed; constants; empty stubs | forwarding | - | - |

### What is hard here

PROJECT.json lists every hazard at its line. The themes: a snapshot that is valid for ever (the
steering input, the heading, the wheel angle under a bad calibration); feed, check and use of the
watchdog in one pass with one timestamp; the registration order as the only thing that makes `cmd` in
the actuator initialised, and that keeps the correction bytes from being lost between client and router;
transmit rings of 24 bytes instead of 512, with the number of accepted bytes ignored; flags and counters
that several branches update; timeouts from a start that leaves time 0 behind; an interval on a
millisecond count that wraps; resynchronisation of byte parsers; sentence fields counted one off; and
hand-over between rings where the bytes are taken before they are known to fit.

## 2. Modules

```
 ByteFifo ---- BoundedFifo ---- ByteRingBuffer ---- MCByteRingBuffer      rings
    |   \                             \
    |    ByteFifo_proofs              ByteRingBuffer_proofs
    |                  \
 TransportUdp ---- TransportUdp_proofs
       \
        \                    SnapshotBuffer
         \                  /      |      \
        AogSteeringApp--------      |       SteeringSensors
                 \                  |        /
                  \         SafetyFailsafe  /
                   \             |         /
                    SteeringControl -------
                          |
                    ActuatorDrv8263h
                          |
    SteeringMode <-- SteeringSystem ---- SteeringSystem_proofs            steering board
                          |
                      MCSteering

 AogFrame ---- AogStream ---- MCAogStream                                 AOG frame codec
                        \
                         AogStream_proofs

 NmeaSentence ---- NmeaParser ---- NmeaStream ---- MCNmeaStream           NMEA parser
                                         \
                                          NmeaStream_proofs

 ByteFifo ---- TransportUart ---- GnssReceivers (SnapshotBuffer)
        \             \                |
         NtripClient ---+             AogNavigationApp (TransportUdp)
                         \             |
                      RtcmRouter       |
                             \         |
          LossyPipe <----- NavigationSystem ---- NavigationSystem_proofs  navigation board
                                  |
                             MCNavigation
```

The proofs of both boards extend `TransportUdp_proofs`, which extends `ByteFifo_proofs`; those of both
parsers extend `SequenceFacts`: facts about sequences element by element, and folds over sequences.

**ByteFifo, BoundedFifo, ByteRingBuffer.** `ByteFifo` has the operators every owner of a ring uses:
write the longest prefix that fits, read at most so many. `BoundedFifo` makes them an abstract
specification of two calls. `ByteRingBuffer` is `byte_ring_buffer.c` itself: head, tail, size, storage
and the overflow counter, with each turn of the two copy loops a step of its own. Its variables
`call`, `source`, `length`, `done` and `out` are the call in progress, `returned` what the last one returned.

**SnapshotBuffer.** A record `[value, valid]`; `SnapshotSet` makes it valid. The sequence counter is
left out: no component reads it.

**TransportUdp.** The receive ring holds whole frames, since the applications act only on frames their
parser completed; the parser is treated byte by byte in `AogFrame`. The transmit ring holds bytes
`<<pgn, i>>`, because its capacity cuts frames. The receive half of the code is a stub; the network
appends any frames to the ring. `wire` is what the latest drain took.

**SteeringSensors.** What is left of the three sensors once constants of the stubs are taken out is
validity. `was_raw_span_zero` stands for a calibration whose two raw limits are equal.

**AogSteeringApp.** One step is one pass: how many frames the 64-byte window completes is open, but a
non-empty ring yields at least one (the window is larger than any steering or hello frame; a host
that sends longer frames would make the board wait another pass). `Decode` takes the
last full steering frame, `PublishInput` publishes for short ones as well, `Respond` queues the hello
response before the status report.

**SafetyFailsafe, SteeringControl, ActuatorDrv8263h.** One operator per branch of each service step.
Times are ticks of one clock. The duty cycle is counted in degrees up to `FullScale` (the code divides
by 40 and saturates at 1), with `NaN` a value of its own that both comparisons let through. `AngleRead`
is any angle while the command snapshot was never written: `cmd` is uninitialised then. The count of
steps without a command is a number modulo `CountModulus`, as nothing in the code stops it at the limit;
`blind_steps` is the history variable that says what it stands for, the steps in a row that left the
drive enabled without a command.

**SteeringSystem.** The board: `Registration` is the order of the register calls, `pc` the component
whose turn it is (0 while the task sleeps), `now` the timestamp of the pass. Between two passes time
advances by 0 to `MaxStall` ticks. `CallEnable`, `CallDisable`, `CallSetTimeout` and
`CallSetCalibration` are the public functions app_core leaves to other callers, enabled by `ApiCalls`;
a caller runs between passes. `held_off` and `heard_us` are history variables.

**SteeringMode.** What the user sees: *waiting*, perhaps *tripped*, then *driving* for ever.
`SteeringSystem` implements it with `mode` read off `enabled` and `safety_blocked`.

**AogFrame, AogStream.** The codec with one action per parser state; the history `frame` is the bytes
since the preamble. `AogStream` puts a sender in front of it: frames encoded by `EncodeFrame`, lost
tails (what a full transmit ring does) and foreign bytes between frames, until the noise ends, if ever.
`quiet` counts the bytes of clean frames since the last disturbance, up to the bound `Enough`.
The checksum is a fold of the constant `XorByte`, which the run sets to the real exclusive or.

**NmeaSentence, NmeaParser, NmeaStream.** `NmeaSentence` has what the five sentence parsers read out of
the text between `$` and `*`: `GetField` walks the commas as `nmea_get_field` does, and each parser is a
record with the field indices of the code. A floating-point value is the numeral `atof` stops after.
`ParseLatLon` keeps the code's quirk of using the length of the hemisphere's field for the angle, and
`Junk` is what the uninitialised buffer may hold. `NmeaParser` is the streaming parser with one action
per state; it decodes a sentence whether the checksum is right or not, as the code does. `NmeaStream`
puts a receiver before it that sends whole sentences and a line that loses single characters, or the
rest of a sentence (what a full ring does).

**TransportUart, GnssReceivers, AogNavigationApp.** `uart_opened` says for each port whether
`hal_uart_port_init` succeeded. Where it failed, `transport_uart_init` returns before it installs the
service step, and `app_core` ignores that: the rings are wired, but nothing fills or drains them. Either
port may have failed. (In the repository no HAL backend is installed, so both fail; with a backend each
may.) A receive ring holds whole parsed sentences: the parser is treated in `NmeaParser`. A GGA is its fix
quality and a place; a heading is the pair of places it is computed from, so equal places are the code's
`dlat == 0 && dlon == 0`. `HeadingMissing`, `HeadingWithoutFix` and `HeadingComputed` are the three
outcomes of the step, and only the last publishes. `OutputDue` is the unsigned difference of the code,
modulo `MsModulus`; `since_output` is the history variable that says what it should be.

**NtripClient, RtcmRouter, LossyPipe.** A correction byte is its number in order of arrival, so order,
loss and duplication can be seen. The time of the last state change is kept as its age, and the 0 that
`ntrip_client_start` leaves behind as `unstamped`. `Enter` is what every transition does, the clearing
of the RTCM ring included; the TCP ring is not cleared. `attempt` is history: the time since the attempt
began. `LossyPipe` is what a GNSS receiver can rely on: bytes in order, none twice, none invented.

**NavigationSystem.** The board: ten components, one timestamp, `BeginPass` one to `MaxStall` ticks of
10 ms after the last. `Caller` has the public functions that app_core leaves to others: connect and
disconnect of the TCP transport (nobody calls connect in the repository), start and transition of the
client. A transition by a caller is taken to carry the time of the latest pass.

## 3. Runs

| run | question | bounds and why they suffice |
|---|---|---|
| `ring` | Do the loops of the ring implement the bounded queue, and do calls return? | 3 bytes, transfers up to 4: wraps, fills in the middle of a write, overflows, drains. Two byte values show order. The overflow counter wraps at 3. |
| `steering` | Does the board as wired trip, act, answer as it should? | 50 ms ticks: timeout 2, status due every tick, passes up to 3 ticks apart, so a pass can be later than the timeout; 5 ticks allow boot, trip, clear and a second silence. Two frames per pass and in the ring; angles on both sides of zero, saturated and NaN. Sizes of transmit ring and frames are the real ones. |
| `steering_calls` | The same while enable, disable, set_timeout(0 or 2) and set_calibration are called | 4 ticks and one frame per pass; auto-disable after 2 passes instead of 50, and the count wraps at 4, so that it passes the limit, goes on and wraps while `enable` is called. |
| `aog_stream` | What does the parser accept, hand out, and how soon does it recover? | Bytes of 3 bits, 1 byte of data, so that frames longer than the buffer occur and one length no frame can have. Frames whose checksum is a preamble byte, and frames containing the preamble. A lost tail and the foreign byte 7 make a false frame of 9 bytes, longer than any whole one. |
| `nmea` | What does the NMEA parser accept and name, what does it notice, how does it recover? | Real character codes and exclusive or. A buffer of 12 characters, one sentence of each type, two shorter than a type name and one too long; both line ends; one loss anywhere. One loss suffices: a second one is a loss in a state the first has already led to. |
| `navigation` | Which frames leave the navigation board, when, and whole? | The millisecond count wraps at 5 ticks with an interval of 2 and passes up to 2 apart, so every phase of the wrap occurs; qualities 0 and 1, two places, sizes of ring and frames the real ones. Corrections off. |
| `corrections` | What happens to the correction bytes on their way? | 6 bytes through rings of 4, 4 and 3, chunks of 2 and a UART drain of 1, so both outputs overflow; timeouts of 2 and 1 ticks against passes up to 2 apart; three calls; all four cases of ports opened or not. Sentences and host traffic off. |
| `steering_silence`, `steering_disable`, `nav_outputs`, `nmea_quality`, `nav_heading` | What a comment or header promises and the code does not do | those of the passing run of the module with one frame per pass; `nmea_quality` the real buffer of 128 and two whole GGA sentences |

The navigation board is checked in two halves because no component of one flow reads a variable of the
other: the UARTs carry both, but in separate rings. The theorems hold for the whole.

### What the passing runs say

* `ImplementsFifo`, `HeadFollowsTail`, `CallsReturn`: the ring is a queue at every turn of its loops.
* `FailsafeIsBootTimeout`: as wired, the failsafe is triggered at the end of a pass **if and only if**
  no frame was ever accepted and the boot timeout is over. Both directions matter: no spurious trip in
  a late pass, because feed and check share a timestamp; and, since an input never ages, no trip at all
  after the first frame. The run `steering_silence` shows the consequence against the comment in
  `steering_control.c`.
* `PinFollowsFailsafe`, `FrameActsInSamePass`, `HelloSentWhole`, `StatusCutByHelloOnly`, `HelloKept`,
  `HelloAnswered`: status, pin and count agree; no pass of delay and no older angle; a hello response is
  whole and comes; a status frame is cut only behind a hello response in the same datagram, where 13 and
  14 bytes do not fit into 24. `HelloKept` says so of every step: a request pending at the application
  becomes a whole response in the ring, one in the ring goes out with the next drain.
* `ImplementsOperation`: the board is the three-mode machine; in particular a trip is left only by a
  frame, and driving is never left.
* `TriggeredStopsDrive`, `DutyComesFromHost`, `BlindStepsBounded`: with the public functions in
  play, a triggered failsafe means no drive from the actuator's turn on, no uninitialised or outdated
  command is driven, and the drive is never enabled for more steps in a row without a command than the
  auto-disable allows. One fewer is the rule, as the step that reaches the limit disables; a drive enabled
  by hand right before the step that wraps the count to 0 gains the one more.
* `AcceptedIsVerified`, `InSyncIsDelivered`, `RecoversInTime`, `HearsAgain`: for data that fits, the
  streaming parser accepts exactly what `aog_frame_verify_crc` accepts and hands out what the encoder put
  in, whatever stale data it holds; and after any noise it finds clean frames again, once those frames are
  as long as the largest false frame (in the code 257 bytes, from a false length byte to the checksum) and
  one frame more. Data longer than the buffer is accepted on the checksum of its first bytes
  (`aog_frame.c:139`), where parser and verifier disagree: the property excludes it. A frame containing
  the preamble pair can hold an unlucky parser out of step, so recovery is claimed for clean frames only.
* `InSyncIsAccepted`, `OneLossIsNoticed`: a sentence that begins at an idle parser is accepted as sent
  and stored whole, one too long is refused, and a sentence that lost one character is not accepted.
* `RecoversInOneSentence`, `TypeIsItsOwn`: one whole sentence after any loss leaves the parser idle,
  though the sentence itself may be swallowed; and a sentence is never named after what a longer one
  left in the buffer (the terminator prevents it, except for the one-character sentence `G`).
* `NoBacklog`, `FramesWhole`: although the transport runs before the application, its ring is always
  empty when the application writes; a hello is whole, and without a hello in front of it so is a position.
* `OutputOnTime`: the output round comes in the first pass that is due, over the wrap as well.
* `HelloKept`, `HelloAnswered`: also while output rounds compete for the ring.
* `EveryByteAccounted`, `LossIsLocal`, `ClientLosesNothing`, `OutputsAgree`: corrections are lost at full
  UART rings only, are counted there, and a ring that fills because its port was never opened costs the
  other receiver nothing; where both ports were opened, both receivers miss the same bytes. The third
  depends on the registration order alone: the router empties the client's ring before a transition can
  clear it.
* `WaitsBeforeConnected`: no connection before both waits of the attempt are over, whatever callers do
  (they may start the client and ask for IDLE and ERROR).
* `ConnectsInTheEnd`: left alone, the client ends up connected unless a caller took it to IDLE.
* `ImplementsLossyPipe`: the board refines the pipe to each receiver.

### Findings

Five runs end in a counterexample to a sentence of the repository: a silent host never trips the
failsafe (`steering_silence`); `disable()` lasts one pass (`steering_disable`); the UDP transmit ring gets
the size of its control structure, so a position fills it and the heading of the same round is lost, though
both outputs are mandatory (`nav_outputs`); the fields of every NMEA sentence are read one too early, so
the fix quality of a standard GGA is always 0 (`nmea_quality`); and a heading from before the loss of a fix
is sent on as valid (`nav_heading`). PROJECT.json quotes the lines.

The size of the transmit ring shows on the steering board as well: a status frame behind a hello response
is cut after 11 bytes. What still holds there is `StatusCutByHelloOnly`. With the quality of every standard
GGA read as 0, no position leaves a real board at all: `NavigationSystem` takes the parsed sentence as its
input, any fix quality included, so that what lies behind the parser is still checked.

### Fairness

`steering`, `navigation` and `corrections` assume weak fairness of the service task: its loop has no exit,
the task is pinned to a core of its own and `vTaskDelay` returns. Nothing is assumed of the network or of
callers. `ring` assumes that a call that has begun goes on. `aog_stream` assumes that the sender keeps
sending, and claims recovery only from the moment the noise is over; that it ever ends is not assumed.
`nmea` states no liveness. `ConnectsInTheEnd` needs no fairness of callers, whose calls are bounded.
`CHECK_DEADLOCK` is never switched off.

## 4. Proofs

### Steering board

`SteeringSystem_proofs` proves, for all values of the constants that satisfy the assumptions of the
modules (any clock bound, stall, timeout, ring capacity, frame size, set of angles):

| theorem | property | assumption |
|---|---|---|
| `TypeCorrect` | `TypeOK`, including that no component holds a time ahead of the clock, so the unsigned differences do not wrap | none |
| `TriggeredIsStopped` | `TriggeredStopsDrive` | none: whatever functions are called |
| `FailsafeAtBootOnly` | `FailsafeIsBootTimeout` | `ApiCalls = {}`: as wired |
| `PinAgrees` | `PinFollowsFailsafe` | `ApiCalls = {}` |
| `FrameActsAtOnce` | `FrameActsInSamePass` | `ApiCalls = {}` |
| `OperationImplemented` | `ImplementsOperation` (refinement) | `ApiCalls = {}` |
| `BlindStepsAreFew` | `BlindStepsBounded` | none |
| `DutyIsFromHost` | `DutyComesFromHost` | none |
| `HelloIsSentWhole` | `HelloSentWhole` | `TxCapacity <= DrainSize`, `HelloSize <= TxCapacity` (24, 64 and 13 in the code) |
| `NoHelloLost` | `HelloKept` | the same |
| `StatusIsCutByHelloOnly` | `StatusCutByHelloOnly` | the same and `StatusSize <= TxCapacity` (14) |

The first three wired properties say something only of the end of a pass, and one conjunct each of what
must hold in its middle. The inductive invariant `WiredInv` says, for every position of `pc`, which data
are of this pass and which still of the one before: the sensors are live from their turn on
(`SensorsLive`), the input snapshot is the angle decoded (`InputCurrent`), the command is the input from
control's turn on, else that of the last pass (`CommandCurrent`), the feed is `now` once a frame was
accepted and control had its turn, and the failsafe agrees with it from its own turn on
(`FailsafeCurrent`), the pin is that of the failsafe and the counter leaves 0 only with the trip at boot
(`TripsOnce`), and the duty cycle is that of the command from the actuator's turn on (`DutyCurrent`). TLC
checked each conjunct before it was proved. Each step lemma is one component's turn; the turns of the
others leave its conjunct's variables alone.

The last six rest on invariants of their own:

* `QuietUntilHeard` (for the refinement): until the first frame the drive is off and has no command, and
  it is blocked only once the boot timeout is over. With `WiredInv` each actuator step is then a step of
  `SteeringMode` and every other step a stutter.
* `HostInv` (for `DutyComesFromHost`): once a frame was accepted the input snapshot is the newest angle
  decoded, and before that the command is zero; between control's turn and the actuator's the command
  snapshot is written and holds that angle or zero; and so does the duty cycle after the actuator's. It is
  what the registration order buys, and it needs no assumption on callers.
* `HelloUncut` (for `HelloSentWhole` and `HelloKept`): outside the turns from the application to the
  transport the ring is empty, and neither ring nor datagram holds a part of a hello response. The response
  therefore goes to the front of the ring and stays there whatever is pushed behind it (`PushKeepsFront`),
  and the drain, no smaller than the ring, sends all of it. `HelloKept` is the safety half of
  `HelloAnswered`: what is left to TLC is that passes go on.
* `StatusUncut` (for `StatusCutByHelloOnly`): in ring and datagram a status frame is whole unless a hello
  response is there, too. As the application finds the ring empty, the status is the first frame or stands
  behind a hello.
* `BlindCounted` (for `BlindStepsBounded`): where `blind_steps` is not 0, the count is below the limit and
  `blind_steps` is at most one more than the count. The one more is for the step that wraps the count to 0:
  it alone leaves an enabled drive enabled though the count was at the limit or above.

### Navigation board

`NavigationSystem_proofs` proves, for every receiver, host, capacity, chunk, timeout, interval and
sequence of calls allowed by the assumptions of the modules:

| theorem | property | assumption beyond the modules' |
|---|---|---|
| `NavigationTypeCorrect` | `TypeOK` | none |
| `NothingLostBeforeRouter` | `ClientLosesNothing` | none |
| `ReceiversAgree` | `OutputsAgree` | none |
| `LossesAreLocal` | `LossIsLocal` | none |
| `CorrectionsAccounted` | `EveryByteAccounted` | none |
| `CorrectionsArePiped` | `ImplementsLossyPipe` (refinement) | none |
| `OutputIsOnTime` | `OutputOnTime` | none |
| `ConnectedAfterWaits` | `WaitsBeforeConnected` | callers never ask for AUTHENTICATING or CONNECTED themselves |
| `RingEmptyForOutput` | `NoBacklog` | `TxCapacity <= DrainSize` (24 and 64 in the code) |
| `FramesAreWhole` | `FramesWhole` | `TxCapacity <= DrainSize`, `HelloSize <= TxCapacity`, `PositionSize <= TxCapacity` |
| `NoHelloLost` | `HelloKept` | `TxCapacity <= DrainSize`, `HelloSize <= TxCapacity` |

`LossesAreLocal` and `CorrectionsAccounted` follow from the types step by step. Each of the others rests on
an inductive invariant stronger than the property:

* `HandedOver` (for `ClientLosesNothing`): but for the router's turn the RTCM ring is empty, and it never
  holds more than a client chunk. Without it a transition could be seen to clear bytes, or a write to be
  cut. `CorrectionsAssumption`, that a client chunk fits the ring and the router's chunk (128, 512 and
  128 in the code), is what makes it inductive.
* `InStep` (for `OutputsAgree`): where both ports were opened or neither was, the two outputs agree, except
  between the turns of two opened UARTs, where the primary is one drain ahead.
* `Ordered` (for the refinement): the numbers on the way, from what was sent through the UART ring and
  the RTCM ring to the TCP ring, are increasing across the rings and at most `arrived`. The property
  itself speaks of what was sent only. Each step then maps to `Arrive`, one `Deliver` or a stutter.
* `OutputClock` (for `OutputOnTime`): what the wrapped subtraction yields is the time since the latest
  round, or both have reached the interval; between passes neither has. `MsModulus > SendInterval +
  MaxStall` keeps the wrap from hiding a round.
* `AttemptAge` (for `WaitsBeforeConnected`): the age of the state, and in AUTHENTICATING the first wait
  in addition, are within the age of the attempt.
* `RingEmpty` (for `NoBacklog`): the ring is empty when the application's turn comes.
* `AllUncut` (for `FramesWhole`): in ring and datagram a hello is whole, and without a hello so is a
  position. With `RingEmpty` it gives `HelloKept`, as on the steering board.

### AOG parser

`AogStream_proofs` proves, for every size of byte and of data buffer, every preamble, every function in
the place of the exclusive or, and every stream:

| theorem | property |
|---|---|
| `ParserTypeCorrect` | `TypeOK` |
| `ParserAgreesWithVerifier` | `AcceptedIsVerified` |
| `InSyncDelivered` | `InSyncIsDelivered` |
| `RecoveryIsBounded` | `RecoversInTime` |

`ChecksumIsByte`, that a checksum of bytes is a byte, comes from `FoldType` below. `FrameInv` says for
each parser state which bytes since the preamble the parser holds where (`Stored`), up to the end of the
data buffer; at the end the whole frame is that of the fields handed out, which is what verifier and
encoder are compared with (`BodyIs`, `EncodeIs`). `InSyncInv` adds that a parser in step with the sender
is, after `k` bytes of the frame, in the state that follows `k` bytes.

For `RecoversInTime` the stream counts the bytes of clean frames since the last disturbance (`quiet`).
`BeatInv` says that the parser is `OnBeat`, which means in no frame or in one that ends with the sender's,
or else that `quiet` and the bytes its false frame still takes (`ToGo`) do not exceed the largest false
frame. A clean frame keeps the beat, because only its own preamble leads from `PREAMBLE` into a frame
(`PreambleHeard`, `BeatGoesOn`); off the beat every byte brings the end of the false frame nearer
(`FrameRunsOut`, `LengthRunsOut`). A frame that begins on the beat begins in sync. This is the safety half
of `HearsAgain`; what is left to TLC is that the sender goes on.

### NMEA parser

`NmeaStream_proofs` proves, for every set of sentences and characters, every buffer of at least six
characters and every number of losses:

| theorem | property |
|---|---|
| `SentenceTypeCorrect` | `TypeOK` |
| `InSyncAccepted` | `InSyncIsAccepted` |
| `OneLossNoticed` | `OneLossIsNoticed` |
| `RecoversAtOnce` | `RecoversInOneSentence`, if `LineEnds` has CR LF and LF only, as receivers send |
| `NamedByItself` | `TypeIsItsOwn` |

Of the exclusive or the proofs use what `NmeaStreamAssumption` says: `(x ^ y) ^ y = x`, `x ^ y` differs from
`x` unless `y` is 0, and no printable character has the code 0. The run evaluates the assumption for the
real exclusive or of bytes.

* `LeftInv`: no character still to come is the one that ends a C string, so only the parser writes it.
* `InSyncInv` (for `InSyncIsAccepted`): after `k` characters of a sentence in step the parser is where `k`
  characters put it (`InStep`): the first `k - 1` of the text stored and summed up, then each digit read;
  or, once the buffer is full, idle. Each `Feeds` lemma is one part of the sentence.
* `RecoverInv` (for `RecoversInOneSentence`): as long as nothing of the current sentence was lost, what is
  left is its end, and from the `*` on the parser is in one of two states at each character (`Settled`):
  where the sentence puts it, or idle. Both meet at the end of the line.
* `LossInv` (for `OneLossIsNoticed`): a sentence that is one character short stands, after `k` of its own
  characters, at one of six places (`OneLost`). While the text arrives, the parser's checksum is that of the
  text up to there without one character, hence not the sender's (`LossIsBehind`: two checksums that
  differ still differ after the same characters); with the `*` lost, the parser takes the digits for text;
  with a digit lost, it takes the line end for a digit.
* `NameInv` (for `TypeIsItsOwn`): up to `index` the buffer holds no terminator (`Filled`) and at `index` it
  has one (`Ended`), so the text is exactly what was stored, and a position it does not reach cannot
  complete a name.

### Rings

`ByteRingBuffer_proofs` proves `RingTypeCorrect` (`TypeOK`: no index leaves the storage, never more
bytes than the capacity), `IndicesAgree` (`HeadFollowsTail`) and `RingIsFifo` (`ImplementsFifo`, the
refinement of `BoundedFifo`) for every capacity and transfer length, at every turn of the loops. The
invariant of the first two adds that a write in progress has all its bytes at
hand (`SourceIsWhole`), which the type of the stored byte rests on; the arithmetic is in
`AdvanceWraps`. `InProgress` adds what the refinement needs: a write in progress has its bytes at the end
of the contents, and a read has returned as many as it counted; the turn that ends a call is then the
step of `BoundedFifo`, every other turn a stutter.

`ByteFifo_proofs` has the facts about `FifoWrite` and `FifoRead` that the proofs of both boards rest on:
a write keeps type and capacity, a read splits the queue, what fits is written whole, what is drained
whole leaves nothing. `TransportUdp_proofs` adds those about frames in a ring of bytes: appending one
keeps the frames before it, and a drain sends everything if the ring is no larger than it.

### Folds

The checksums of both protocols are folds over the bytes. The library's induction theorems take an operator
as a parameter, which the provers cannot instantiate, so `SequenceFacts` goes around them: every non-empty
set of natural numbers has a least one (from the library's well-founded order), hence a set that holds 0 and
with every number the next is all of them, up to a bound (`InductionUpTo`). The fold is a recursive function
over subsets of the domain, and over the places of a sequence from the last one down that function exists
(`TurnsExist`). From there `FoldType` (its value is in the set that base and step stay in), `FoldNone` and
`FoldAppend` (one element more is one step more) say all the proofs need.

### Model-checked only

Liveness (`HelloAnswered` of both boards, `CallsReturn`, `HearsAgain`, `ConnectsInTheEnd`), which the
prover cannot treat. Every other property of a passing run is a theorem.

The passing runs and the theorems of the NMEA parser are about the text and type of a sentence, not about
the fields read out of it. The field walk is checked by `nmea_quality` alone, for the fix quality of a GGA;
what `Rmc`, `Gst`, `Gsv` and `Gsa` read is modelled, as those operators decide what `data` holds, but no
property reads it, as no component does.

## 5. Abstractions to keep in mind

* The receive ring is bounded in frames, and a frame lost for lack of room is one that never arrives.
  The code gives this ring its full 512 bytes (`sizeof(rx_storage)`); only the transmit ring has the size
  of its control structure.
* `update_count`, `cycle_count`, the sequence counters, `frame_ready`, speed and measured angles: read
  by no component's decisions, left out.
* The sizes 24 (transmit ring), 13 and 14 (frames) are those of a 32-bit target. The theorems hold for
  all sizes; `HelloSentWhole` needs a hello response to fit.
* `MaxTime` ends the clock in the runs; passes go on without time advancing, so nothing deadlocks and
  the liveness properties still speak of infinitely many passes.
* `reconnect_count`, `last_activity_us`, the RMC data and the counters of sentences and bytes received
  steer nothing and are left out. The router's 32-bit byte counts are numbers: they wrap after 4 GB.
* Both UART ports exist in the board profile, as in every build of the navigation role; whether they
  could be opened is open. The receive halves of
  TCP and UDP are stubs; the models let the network put anything into their rings that fits.
* A GNSS sentence that loses characters in the 256-byte receive ring is one that never arrives in
  `NavigationSystem`; `NmeaStream` treats the loss itself.
* The results of SPI transfers, GPIO calls and UART writes are ignored by their callers, so a failing
  bus is invisible to the model as it is to the code. The one result that has an effect is that of
  `hal_uart_port_init`: `uart_opened`.

## 6. Not modelled

* The fast task, statistics, software watchdog and health functions: no component installs a fast
  callback and the functions are stubs, so no state of theirs reaches a component.
* The message queue: used by no component; its index arithmetic is that of the byte ring.
* HAL forwarding, board and feature tables, console, CLI, Ethernet: stateless, or empty stubs.
* The registry's limit of 32 components: the roles register 8, 10 and 18.
* Payload encodings of the AOG frames (`aog_pgn.c`): copies of bytes that no decision depends on, but for
  the steering input, whose decoding is in `AogSteeringApp`.
* Two boards on one network: a status frame of one is a steering frame to the other, which the environment
  of `SteeringSystem` contains already; nothing in the frame tells them apart.
