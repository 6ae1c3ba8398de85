# Verification of the Shield/Ardbeg HALs

The repository is the Android device tree of the NVIDIA Shield boards on Tegra
K1 (Ardbeg, T124).  Most of it configures a build: make files, init scripts,
overlays, tables.  The program in it is the **power HAL** (`common/power`,
`t124/power`), the **sensors HAL** (`t124/sensors`, `drivers/sensors`) with the
`mllite` part of InvenSense's motion library, a small **lights HAL**, an NFC
stub and a recovery updater.  This directory holds TLA+ models of the parts
with concurrency, descriptors, timeouts, state machines and numerics, the TLC
runs that check them, and TLAPS proofs of the results that matter most.

`PROJECT.json` lists components, runs, theorems, hazards and findings, and maps
every definition to the lines it was translated from.

## 1. Inventory

| Component | State it keeps | Operations | What is hard |
|---|---|---|---|
| `TimeoutPoker` (`timeoutpoker.{h,cpp}`, `barrier.h`) | event table by key, looper messages, callback contexts, open PM QoS nodes | `requestPmQosTimed`, `createPmQosHandle`, `requestPmQos`; looper: messages, pipe hang-ups | who closes which descriptor; hand-over through the caller's stack; failures of `open`, `pipe`, `addFd` |
| Camera hints (`nvpowerhal.cpp`) | thread handle, exit flag, `target_fps`, `usecase_index`, `fd_gpu` | `set_camera_hint`, `regular_hints_threadfunc` | the thread repeats hints once a second while the caller changes and resets them; a lost wake-up; unlocked `fd_gpu` |
| Descriptors of knobs (`nvpowerhal.cpp`) | eight `int` fields | `app_profile_set`, camera caps, `reset_camera_hint` | uninitialised fields, reuse of numbers, a field shared by two threads |
| Rate limiting (`check_hint`, `common_power_hint`) | `hint_time[]` | every power hint | read at the start, stored at the end, on several threads; 32-bit time |
| Poll context (`sensors.cpp`) | poll times, wake pipe, pollfds | `activate`, `setDelay`, `pollEvents` | two threads without a lock; a bounded pipe; a bounded buffer |
| Light, proximity (`lightsensor.cpp`, `ltr558als.cpp`, `max44005.cpp`, drivers of other boards) | enabled, delay, last reading | `enable`, `setDelay`, `hasPendingEvents`, `readEvents` | files written in order, any of which may fail; classes that differ in what counts as news |
| Input device drivers (`InputEventReader.cpp`, `nvs_input.cpp`, `CompassSensor.cpp`) | ring buffer, half-built event | `fill`, `next`, `readEvents` | reads that cut a sample or run past the end of the ring; events left over when the sensor is disabled |
| `MPLSensor.cpp` | sensor masks, delays, rate, window of the last accelerations | `enable`, `setDelay`, `update_delay`, `readEvents`, `executeOnData` | nodes that fail, dropped errors, a poll thread that changes the rate under the control thread |
| mllite path of a sample (`data_builder.c`, `start_manager.c`, `results_holder.c`, `hal_outputs.c`, `message_layer.c`, `mpl.c`) | samples with status bits, table of callbacks, quaternions, messages, statuses of the outputs | register, build, execute, store results, get outputs, turn off | the order of callbacks; marks that are tested, used and cleared at different moments |
| mllite storage (`storage_manager.c`, `ml_stored_data.c`) | keys and handlers, the calibration file | register, save, load | truncate and write, crashes, partial loads, learning goes on during a save |
| mllite mathematics (`ml_math_func.c`) | none | products, turns, matrices, mountings, angles, bytes, checksum | several implementations that must agree; signs and widths |

How they interact: the framework calls the power HAL from several threads
(system server, camera service, applications' profiles).  Hints that last a
moment go to the `TimeoutPoker`, which closes their nodes by itself; knobs that
last are nodes kept in `powerhal_info` and closed by the next setter.  The
sensors HAL has two threads, both of the framework: one in `pollEvents`, one
that enables sensors and sets delays; they share plain fields and a pipe.
`pollEvents` calls `readEvents` of each driver.  That of `MPLSensor` builds
samples in the motion library, executes its callbacks, and asks its outputs for
events; its `enable` turns sensors of the library off and stores the
calibration on the other thread.

What makes them correct, in short: every node that is opened is closed once, by
its owner; no wake-up is lost; every sample goes, whole and in order, to
everybody who asked for it and is reported once; results are not those of an
earlier sample; chips are on just when something needs them, at the least
delay asked for; a calibration that is loaded is one that was stored.

## 2. Modules

| Module | Models | Used by |
|---|---|---|
| `TimeoutPoker` | the poker: IPC threads, looper thread, file table | `MCTimeoutPoker`, proofs |
| `TimeoutPokerInv` | its inductive invariant `IInv` | proofs |
| `PmQosContract` | what the poker promises: a request is answered once; a lease is lifted at most once and never under a client that holds the handle | refined by `TimeoutPoker` |
| `TimeoutPokerProofs` | theorems about the poker | |
| `CameraHints` | `set_camera_hint` against the regular hints thread | `MCCameraHints` |
| `PowerFds` | the descriptors in `powerhal_info` | `MCPowerFds` |
| `PowerHalProofs` | theorems about `CameraHints`, `PowerFds` and `HintTiming` | |
| `HintTiming` | `check_hint` and `common_power_hint` | `MCHintTiming` |
| `SensorPoll`, `SensorPollProofs` | `sensors_poll_context_t` | `MCSensorPoll` |
| `PolledSensors`, `PolledSensorsProofs` | one light or proximity driver of any class, with its files | `MCPolledSensors` |
| `EventReader` | `InputEventCircularReader`: the ring | `NvsInput` |
| `EventFifo` | what the ring promises: a bounded queue between the kernel and the reader | refined by `NvsInput` |
| `NvsInput`, `NvsInputProofs` | an input device driver (or the compass), its ring, the kernel's queue and the calls of `pollEvents` for it | `MCNvsInput` |
| `MessageLayer` | `message_layer.c` | `DataBuilder` |
| `DataBuilder` | samples, biases and the table of callbacks | `ResultsHolder` |
| `ResultsHolder` | what the fusion stores and the outputs read | `HalOutputs`, `Calibration` |
| `HalOutputs`, `MotionLibraryProofs` | the path of a sample: start-up, build, execute, ask; composes the three above with `start_manager.c` and `hal_outputs.c` | `MCHalOutputs` |
| `Calibration`, `CalibrationProofs` | learning, saving, crashing and loading; composes the same three with storage manager and file | `MCCalibration` |
| `MplSensor`, `MplSensorProofs` | `enable` and `setDelay` against the poll thread | `MCMplSensor` |
| `MotionMath`, `MotionLibraryProofs` | fixed-point mathematics | `MCMotionMath` |

`MC…` modules give constants their values; each `.cfg` starts with its bounds.
Operators named `<Action>_<Slip>` are mutants: a plausible slip in that action,
which breaks the property `PROJECT.json` pairs it with.  Every module with
state has a `TypeOK`, which holds in the instance of its run; the runs leave it
out, as the other properties say more.  For `TimeoutPoker` and `NvsInput` it is
also proved.

### TimeoutPoker

Variables are the code's: `mKey`, `mQueuedEvents`, the Barriers, the locals
`ret` and `pipefd`.  `file` is the process's descriptor table.  Each file
carries the request (event key) it was opened for; this is history, which the
properties and the refinement use and no guard of the code's steps does,
except `HungUp`: the kernel knows which pipe two descriptors belong to.  The
looper's `handleMessage` and `pipeCloseCb` are split where a descriptor is
opened or closed, since IPC threads open and close files of their own in
between and get the numbers that were freed.

Looper (external): messages without delay are delivered in the order they were
posted, a delayed one at any later time, a hang-up at any time.  `open`,
`pipe` and `addFd` may fail.  `Looper::prepare` may fail, and then the
constructor waits for ever: this, and the bound on requests, is why the run
does not check deadlock.

### CameraHints

One caller (camera hints have one source, the camera service) and the thread
that repeats the hints.  Each access to `fd_gpu`, `target_fps` and
`usecase_index` is a step, as no lock protects them, and so is each call into
`NvOs`: between them a thread has its own copy of the descriptor (`gpuFd`).
RESET cancels the target in one step and clears `fd_gpu` in another.
`wait_mutex` sections are single steps: nothing inside them waits for anything but the condition.
A failed `pthread_create` leaves the handle as it was or undefined; a join on
an undefined handle returns at once.  `PHS_DEBUG` is defined in the source, so
`fpsHint` sets `target_fps`.  The wait may end without a signal.

### PowerFds

A hint sets a sequence of knobs (`knobs`), one after the other (`at`), and a
setter tests its field and closes, clears it, and opens a node (`phase` says
which is next; setters of the camera overwrite without clearing, `RESET` does
not open).  App profiles and camera hints run at the same time, each between
any two statements of the other.  The kernel gives the lowest free number, and
the rest of the process opens and closes files.  Which knobs a hint sets is
data: `Profiles` and `CameraCaps` are any sets of sequences.  The model starts
where `open` of the module leaves the structure (`calloc`, `Initialize fds`):
three fields are 0.  `init` called before `open` takes the structure from
`malloc`; its contents are then arbitrary and the models do not cover it.
`app_min_freq`, written by both kinds of hint, is excluded from
`NodesAreNamed`: two setters at once do lose a node of it (a listed hazard).

### HintTiming

The clock, the unsynchronised `hint_time`, and per hint a history of the last
boost.  `Stamp` is the value line 95 computes: a 32-bit `long`, as on this
board, made an unsigned 64-bit number afterwards.  The interaction hint has an
interval of 90 ms and a boost of 100 ms, so `Maintained` needs hints at most
10 ms apart.  Touch events at 60 Hz come 16.7 ms apart: the boost has gaps of
a few milliseconds, which the code's comment does not expect.

### SensorPoll

`hasPendingEvents` says whether a polled driver would look at its sensor if it
were called.  For `ltr558Prox`, whose own `hasPendingEvents` is true while it
is enabled, a call before its delay has passed changes nothing in
`pollEvents`, and is left out.  `Enable` covers the drivers that return 0
although their enable file could not be written.  `drains` chooses between
input devices that read what the kernel holds also while they are disabled (mpl
and compass) and those that do not (`NvsInput`); `QueuedAreRead` leaves out a
disabled one of the latter, whose descriptor stays readable.  The elements of `pollfd` for
absent drivers are 0 in the code and are not modelled.

### PolledSensors

One driver, whose class, files and threshold are chosen at the start
(`Devices`): `getSensorPath` and `num_valid_sysfs` take a directory in which
every required file is there, enable and regulator files being optional.
`enable` runs on one thread, file by file, `readEvents` on the other; any read
or write may fail, up to a bound.  The classes share the actions and differ in
their definitions: what `enable` writes (`Writes`) and in which order (`First`), what it
resets (`Forget`), what counts as news (`equals`, `Kept`), and where the delay
begins again.  `Followed` compares what the framework was told, which is
history, with what the raw file says.

### NvsInput

`EventReader` has the pointers and the buffer of the ring as they are, indices
for pointers.  `NvsInput` adds the device, which makes a sample of `Axes` axis
events and an `EV_SYN` readable at once, the enable flag and the call of
`readEvents`.  `mEnabled` is written by the controlling thread without a lock.
The variable `compass` chooses between the two readers of a ring: `NvsInput`
goes on while there is room, the compass (`readCompassEvents`, `readSample`)
takes one sample a call, reads also while disabled, and hands over whatever
number of events the motion library makes of it.  `fill` fails with `EAGAIN`
when the kernel has nothing.  A call for a descriptor that is not readable
happens when `revents` is still set because there was no room: `revents` says
so.

### DataBuilder, ResultsHolder, MessageLayer

They are the state and the operations of the three C files, without a `Next`:
`HalOutputs` and `Calibration` call them.  A reading is a member of a small
set; calibrated data are the pair of the reading and of the bias taken off it,
so that stale data can be told from fresh ones whatever the numbers; the
nine-axis quaternion is the pair of its factors for the same reason.  Status
bits are sets of names.  The bias setters compare with the bias in force, as
the `memcmp` of the code does.

### HalOutputs

Features register start notifications, `inv_start_mpl` runs them, and their
callbacks enter the table by priority.  The poll thread builds samples,
decides what is new, calls callbacks one per step (`exec.kk`), reads the bits
that are new and clears them in two steps (`CheckNew`, `End`), and asks each
enabled sensor's handler (`asking`); `TurnOff` may happen between any two of
these.  `exec.called` and `reported` are history.  The fusion features are in
the binary part of the library: what they do is known from the functions they
are given, which store a quaternion (`RunQuaternion`) or a correction
(`RunCorrection`).  The low-pass filter of the compass is abstracted to whether
it was seeded.

### Calibration

A life of the process registers the blocks of the features, copies the factory
calibration if there is one (`CopyCal`), reads and checks the file and loads it
block by block.  Then the poll thread samples and learns while an IPC thread
stores: the image is gathered block by block, biases and accuracies of the data
builder in two steps (`memcpy` on one thread, assignments on the other), the
file is truncated, then written whole or in part.  `Crash` ends the life at any
point; memory is lost, files stay.  A file is the image and how much of it
there is; that its checksum tells a part from the whole is the one fact about
bytes it takes (`BytesChecked` of `MotionMath` checks the checksum itself, on
strings of four bytes).  `inv_load_mpl_states` also gives up on a block of
another length or with a wrong checksum of its own (`storage_manager.c:149`);
in an image whose own checksum is right, written by the same code, no block is
like that, so `LoadBlock` has no such branch.  `RoundTrip` does not promise that
a stored image lasts: the file is truncated before it is written, so a write
that is cut off loses the image before it too.

### MplSensor

`enable` is split at each sensor's nodes, each of which may fail as the code
lets it: a node that does not open returns a positive `errno`, which
`enableSensors` takes for success, a write that fails ends it.  It holds
`mMplMutex`, under which the poll thread takes only its bytes (`Fill`), so the
test of the local mask, the call of the library, the window of the last
accelerations and the rate of the FIFO interleave with both `enable` and
`setDelay`.  `update_delay` keeps a delay in an `int` (`ToInt`) and divides by
it where no bandwidth is set yet.  `mAccelWindowSum` and `mPollPeriod` are not
initialised: 0 or something else.  Storing the calibration when the last chip
goes off may fail, which the code only logs.  `torn` and `late` are history: a sum that
was never set or was reset amid an update, a sensor built by a sample that was
tested before the mask changed.

### MotionMath

Each action is a call with arbitrary arguments; `result` holds what the
functions give, the invariants say how they agree.  A `long` is four bytes and a
`short` two; how many values a byte has (`ByteSize`) and how many of a `long`
are 1.0 (`One`) are constants, so that TLC can try every word.  The assumption
`4 * One <= LongSize` is what 2^30 and 2^32 satisfy.  Every value the C code
keeps in a `long` is cut to one by `Long`: with 2^30 for 1.0 the number 2.0 is
the least that does not fit, and `inv_quaternion_to_rotation` passes through
it.  (Of a signed overflow C says nothing; the model takes what the processor
leaves, as addition on two's complement does.)  The four ways to turn a
vector are those of `inv_q_rotate`, `inv_quaternion_to_rotation` with the two
matrix products, `inv_get_gravity` and `inv_compass_angle` (up to its arc).
The turns are the 24 quaternions made of halves (`Turns`), and vectors are
multiples of 4 (`Scaled`), so that every product is exact and what is compared
is signs, indices and widths, not roundings.

## 3. Runs

| Run | Bounds | States, time | Properties |
|---|---|---|---|
| `MCTimeoutPoker` | 2 callers, 3 descriptors, 2 requests | 29 544, 40 s | `OneOwner`, `OrphansAreUnwatched`, `WatchedPipesAreOurs`, `ResultHandOver`; under fairness `TimedRequestEnds`, `CreateReturns`, `ClosedHandleReleases`, `ImplementsContract` |
| `MCCameraHints` | 2 thread identities, 3 GPU targets, 3 use cases, 5 calls, 1 failure | 1 210 112, 70 s | `LiveThreadHasHandle`, `NoStaleTarget`, `QuietAfterReset`, `ResetReturns`, `TargetConverges` |
| `MCPowerFds` | 3 descriptors, 1 inherited; hints unbounded | 2 092 496, 45 s | `NodesAreNamed`, `ResetLiftsCamera` |
| `MCHintTiming` | 2 threads, 1 hint, 9 ticks | 337 224, 3 s | `Maintained`, `DroppedOnlyWhileBoosted` |
| `MCSensorPoll` | 2 polled drivers, 1 input device of either kind, 3 calls, pipe of 1 byte, room for 5 | 389 402, 50 s | `NoStaleSleep`, `PolledAreServed`, `QueuedAreRead` |
| `MCPolledSensors` | 9 classes, 3 readings, 2 failures | 722 799, 50 s | `PowerSequence`, `Followed` |
| `MCNvsInput` | ring of 5 events, 6 samples of 3, at most 9 events in the kernel; room 0 to 2 | 13 594, 1 s | `ImplementsFifo`, `SamplesIntact`, `KernelIsRead` |
| `MCHalOutputs` | 3 features and the results, 3 sensors, 2 quaternions of each kind; samples unbounded | 2 702 042, 55 s | `HalQuatIsCurrent`, `TableOrdered`, `SampleSeenByAll`, `MagReportedOnce` |
| `MCCalibration` | 2 blocks, 2 lives, 3 calls | 7 655 783, 2 min | `CalibratedUsesBias`, `MessageIsCurrent`, `RoundTrip` |
| `MCMplSensor` | accelerometer and linear acceleration, 3 calls, window of 2; samples unbounded | 1 189 570, 60 s | `SumIsWindow`, `RateIsMinimum`, `PowerFollowsMask`, `LeavesIdle` |
| `MCMotionMath` | bytes of 8 values, words of 12 bits, 10 behind the point; 24 turns, 48 mountings | 111 080, 8 s | `TurnsAgree`, `MountingUndone`, `ShortestWay`, `BytesChecked` |

Why the bounds are enough:

- Poker: three descriptors are a node and a pipe, just enough for a handle, so
  descriptors run out at every step and each number is reused; two requests
  are two callers at once, or a timed request and a handle that close around
  each other.  The safety properties are proved for all bounds.
- Camera: five calls are a use case, another one, RESET, a use case and FPS: a
  thread is stopped and another one started.
- Descriptors: three numbers with one inherited make every field close, at some
  point, a number another field has.
- Timing: the 32-bit time is negative from tick 6 and would come round at 12.
  The real one comes round after 72 minutes; a hint just then is dropped though
  its boost ended long before, and run and theorem end before that.
- Poll: a pipe of one byte is full after one message.  Room for five events is
  more than two per polled driver; with less, polled drivers that are due in
  every pass fill it and an input device is never reached; the framework's
  buffer (16 events or more) is far from that.
- Input: 5 is no multiple of 3, so reads cut samples and end at every place of
  the ring.
- Polled drivers: the readings are on both sides of the threshold, and two
  failures let both files of an `enable` fail, or one and the read after it.
- Outputs: gyro and compass have different callbacks, the accelerometer is
  faster or slower than the gyro, the results register last and run third.
- Calibration: two lives are one that stores and one that loads; three calls a
  sample, a bias and an accuracy, in any order, around saving.
- MPLSensor: a window of 2 wraps round after every second sample.  Three calls
  enable both sensors and change a delay, or enable one, disable it and enable
  it again after nodes failed.  `LinearAccel` stands for everything fused, and
  resets the window.  That `inv_set_accel_sample_rate` may divide by 0 (before
  any delay was set) ends the process: this run has no deadlock check.
- Mathematics: the 24 quaternions made of halves are the half turns about the
  axes, the thirds of a turn about the diagonals and no turn at all, each with
  both signs (a quarter turn needs a root and is not exact).  Every matrix of 0
  and ±1 that is a mounting, and every word, are tried.  One is a quarter of a
  word, as in the code, and a vector's parts reach -1.0, so sums overflow
  wherever the code's can.

One run shows a disagreement between the code and its comment:
`MCCameraHints_leak` violates `ResetCancelsTarget`.  The caller and the hints
thread both find `fd_gpu` at -1, both open a GPU target, and RESET cancels only
the one whose number was written last.

Other disagreements met while modelling, which have no run of their own; the
models contain the steps, and the properties are stated so that they hold:

- `timeoutpoker.cpp:43`: the result of `addFd` is dropped and that of `pipe`
  tested twice; the handle's node stays open for ever (`OrphansAreUnwatched`
  says that nothing else leaks).
- `nvpowerhal.cpp:241`: three fields are not initialised; the first setter
  closes descriptor 0 of the process.  `:555`: a wait that ends without a
  signal ends the hints thread.  `:228`: an app profile within 200 ms of the
  last one is dropped.  `:853`: MIRACAST falls through to CAMERA.
- `sensors.cpp:247`: a delay set before the sensor is enabled is dropped, and
  `poll` may then have no timeout.  `:443`: if `poll` fails, events that were
  read are lost.
- `nvs_input.cpp:208`: a disabled driver does not read what the kernel holds,
  and `poll` returns at once until it is enabled again.  `:211`: `fill` fails
  with `EAGAIN`, and what is in the ring waits for the next event.
- `lightsensor.cpp:199`: `ret &= -1` forgets that a write failed.  A failed
  enable leaves the regulator on.  `max44005.cpp`: a reading that did not
  change leaves the sensor pending.  `ltr558als.cpp`: a second read that fails
  counts as 0 and lowers `minValue` for ever; its threshold may change at run
  time.  `getSensorPath` does not close the directory for an invalid sensor.
- `MPLSensor.cpp:1113`: errors of `enableSensors` are dropped, a positive
  `errno` passes for success (744).  `:1186`: "limit all rates to 100Hz max" is
  not applied to a delay never set, which is 0 and divides 1000000.  `:1228`:
  the delay is cut to 32 bits.  `:1458`: motion detection is armed also when
  the idle rate could not be written, and stays armed when a fused sensor is
  enabled meanwhile; an idle rate about to be written overwrites the rate a
  `setDelay` has just set, until the device moves.  `:1589`: `mask` is a local,
  so a frame cut in two by the ring loses its first half.
  `mAccelWindowSum` and `mPollPeriod` are not initialised.
- `data_builder.c:946` against `data_builder.h:102`: a sensor turned off
  between test and change ends up contiguous though it was off.  `:924` tests
  the new bit of the quaternion with the constant of another word.  `:99` saves
  biases of one moment and accuracies of another.
- `hal_outputs.c:148`: gyro and accelerometer keep their "updated" status when
  asked; the fused handlers repeat their last value.
- `ml_stored_data.c:154`: the factory calibration (in a directory of its own,
  `init.cal.rc:12`) is copied with a length of 0: the copy is an empty file,
  which the load after it rejects.
- `ml_math_func.c:508`: `inv_wrap_angle` wraps once, and is wrong for angles
  further out.

### Fairness

- Poker: the looper finishes the event it runs (`WF` of `RunEvent`); a message
  that falls due and a hang-up are delivered although other work comes between
  (`SF` per key and per request: `epoll` is level-triggered and messages are
  ordered by time); a waiter whose Barrier is open runs.  Callers owe nothing.
- Camera: a call goes on; the hints thread goes on, as its wait is timed.
- Poll context: both threads run, the framework calls `pollEvents` again, and
  signals do not interrupt every `poll` (`SF` of `PollReturns`).  Nothing makes
  a sensor report.
- Polled drivers: `enable` and `readEvents` go on, time passes (`WF` of
  `DelayPasses`), and `readEvents` finds a due sensor now and then though
  `setDelay` restarts things (`SF` of `ReadEvents`).  Failures are bounded, so
  reads succeed in the end; files of the kernel do.
- Input device: `pollEvents` goes on (`WF` of `PollStep`), and has room for an
  event now and then (`SF` of the calls with room): the framework hands over a
  new buffer with every call.
- MPLSensor: both threads run (`WF`), and the write of the fast rate does not
  fail every time it is tried (`SF` of `FastRate(TRUE)`).  `LeavesIdle` assumes
  in its statement that the device keeps moving.

`HalOutputs`, `Calibration`, `PowerFds`, `HintTiming` and `MotionMath` state
safety only and assume no fairness.

## 4. Proofs

All theorems hold for every value of the constants that meets the named
assumptions, which TLC evaluates in the runs: what kind of values the constants
are, that `NoFd`, `Uninit`, `NoThread` and their like are none of the values
they stand beside, that no hint has an interval longer than its boost
(`TimingAssumption`), that no feature has the data builder's key
(`HalAssumption`), that the accelerometer's range has ends
(`PositionsAssumption`).  What a theorem needs beyond that is a hypothesis of
its own, and is said below.

- **`TimeoutPokerProofs`**: `TypeCorrect`, and `Invariance` of `IInv`, from
  which `NoDoubleClose`, `OnlyUnwatchedLeak`, `WatchedPipes`, `HandedOver`,
  `OneMessagePerEvent` (the last about `EventsMatchMessages`, that events and
  messages correspond one to one).  `OneOwner` is not inductive: that nobody
  else closes a node follows only if a request has one file of each kind
  (`OneFilePerRole`), a pending request has none (`PendingUnserved`, from
  `KeysFresh`), timeouts and contexts of different events serve different
  requests (`ScheduledNodes`), what the looper holds belongs to the request it
  runs and to no other event (`LooperNode`), and a read end is on its way to
  one caller (`HandOver`, `HeldFiles`).  Each action has a lemma, with one step
  per part of `IInv` it can disturb.  Then `Implements`: every step of the poker
  is a step of `PmQosContract` or a stutter under the mapping `Lease`,
  `HasClient`.
- **`PowerHalProofs`**, camera hints: `OneHintsThread`, `NoCancelledTarget` and
  `ResetIsFinal`, for any use cases, threads, calls and failures.  What makes a
  reset final is an order (`ResetOrder`): the thread is joined and the handle
  cleared before the exit flag, both before the target is cancelled, and that
  before `fd_gpu` and the state are cleared; and `QuietState`, that with neither
  a use case nor a frame rate there is no handle, between calls and inside them.
  `NoCancelledTarget` needs the order too: `fd_gpu` names a closed target
  between cancelling and clearing (`TargetsOpen` says that it names an open one
  otherwise), and only because no hints thread lives then is there nobody who
  has read it, or could.
- **`PowerHalProofs`**, descriptors: `NoNodeLeaks` and `ResetLifts`, for any
  profiles, camera tables and number of descriptors.  A field may name a
  descriptor that is somebody else's by now, from the start (0) or because its
  node was closed through another field; so `NodesAreNamed` cannot rest on what
  a field holds.  It rests on `Emptied`: from the moment a setter has tested its
  field until it opens, no node of that field is open.  That needs the two kinds
  of hint to share no field but `app_min_freq` (`OwnKnobs`).  `Lifted` says that
  a reset has left no node of the fields behind it.
- **`PowerHalProofs`**, rate limiting: `DroppedSafely`, that a hint is dropped
  only under a boost, and `SteadyHintsMaintain`, that hints at most `Gap` apart
  keep their boost, for any number of threads and hints, until the clock has
  come round (`MaxTime < Wrap`; the time may turn negative).  The invariant says
  that every stored time, and every time about to be stored, is that of a boost
  requested since; and, for the second, that the last hint was handled at the
  time it was sent and found a boost, or requested one (`HandledAtOnce`).
- **`SensorPollProofs`**: `NoOversleeping`, for any drivers and a pipe of any
  size.  The invariant `PInv` adds the types of what the length of a sleep
  depends on.  `setPollTime` stores the minimum of the requests, so each store
  is followed by a wake-up, and `Wake` leaves a byte in the pipe whether or not
  it was full; that the minimum exists for any set of drivers is `LeastNumber`.
- **`NvsInputProofs`**: `TypeCorrect`, `ImplementsQueue` and `SamplesInOrder`.
  The invariant `NInv` says that `mHead` follows `mCurr` by the number of
  events in the ring (`HeadFollows`, with a third case: an empty ring whose
  head stands at its end after `mCurr` has gone round), that ring and kernel
  hold consecutive events (`StreamInOrder`) and that the pending event has just
  the axes of the new sample that were processed (`HalfBuilt`).  `FillAppends`
  and `AdvanceTakes` are the facts about the ring by itself, `Numbering` the
  arithmetic of events and samples.
- **`MotionLibraryProofs`**, mathematics: `TurnsDoAgree`, `MountingIsUndone`,
  `DifferencesAreShort` and `BytesAreChecked`, for words and a fixed point of any
  size that meets `MathAssumption`.  As `result` is set once from `input`,
  the invariant (`InputOK`) only says what kind of call `input` is; the work is
  in the lemmas about the operators.
  - *Words.*  `LongOfSame`: numbers a multiple of a word apart have one `Long`;
    so sums may be cut at every step or once at the end (`LongAdds`,
    `LongSums`), and what overflows on the way leaves nothing wrong if the end
    fits.
  - *Turns.*  A turn is `Half` times a quaternion of integers of norm 4
    (`TurnIs`).  The product of two such is twice another (`UnitsClosed`, from
    `FourSquares` and a parity argument), so a product of turns is a turn
    (`TurnOfTurns`) and `inv_q_mult` is exact on them (`TurnByTurn`).
    `RotationOf` lists the rotation of one: nine numbers of -1, 0 and 1, one
    other than 0 in each row, and the columns are at right angles
    (`RotationTakenBack`).  `Associative` and `InverseOfProduct` then give
    `TurnedByProduct`, by integers alone, and each function of the library is
    shown to compute that rotation (`RotateTurns`, `MatrixTurns`, `RowsTurn`,
    `HeadingTurns`).
  - *Mountings.*  A mounting is one of six orders and three signs; the octal
    digits of its number give them back (`BitsOfMounting`), and `CrossOfMounted`
    says what its determinant means.
  - *Checksum.*  `ChecksumOfFour`: the hash of four bytes is a polynomial in 33
    cut to a word.  Strings that differ in a byte or a swap have polynomials
    that differ, by less than a word (`WrongByteTold`, `SwappedBytesTold`,
    `RestsDiffer`).  The bound needs bytes of 33 values or more
    (`BytesAreChecked` says so; the code's have 256).  TLC's bytes of 8 values
    do not meet it, and there the property holds by trying every word.
- **`MotionLibraryProofs`**, path of a sample: `TableStaysOrdered`, `NoSampleMissed`,
  `MagneticFieldOnce` and `QuaternionIsCurrent`, for any list of features.
  `TableInv` carries the types of table and start notifications.  `MarkInv` says
  what holds while callbacks run (`Executing`: what is new is in the mode, and
  every registered callback the loop is past was called) and while the outputs
  are asked (`Asking`: nothing is new, and a compass sample that is new or
  waits has not been reported).  That a new mark cannot appear during the loop,
  only disappear, is what lets `TurnOff` interleave.  `QuaternionIsCurrent`
  needs what `data_builder.h:43` says of priorities: whatever stores a
  quaternion or a correction runs before the outputs and for samples of the
  motion sensors, which the outputs are called for too (`Known`); and that no
  quaternion is built as raw data (`"quat" \notin Built`), as on this board.
  Its invariant `NavInv` says that a product not flagged as outdated is that of
  the factors stored (`Navigation`), and that the outputs have the present
  product except within an execution their callback has not had its turn in
  (`Outputs`).
- **`CalibrationProofs`**: `CalibrationInForce`, `WaitingMessageIsCurrent` and
  `CalibrationRoundTrip`, for any features, readings, biases and a crash at any
  point.  `CalibratedUsesBias` is not inductive by itself: a load replaces
  biases under data already calibrated, unless no sample has come yet
  (`NothingBuilt`), which needs to know where a life is.  The third adds
  `TripInv`: an image that is whole begins with the data builder's block
  (`FilesOK`, `BoxesOK`, `SavingOK`), and while it is loaded every block that
  is behind is in memory as the image has it and the others are cleared
  (`LoadOK`).
- **`PolledSensorsProofs`**: `PoweredInOrder`, for drivers of any class, any
  files and any number of failures.  `SequenceInv` ties what is on to what the
  call in progress has yet to write (`OrderOK`): a disable has the chip before
  it or has switched it off, an enable has the regulator before it or has
  switched it on, and a call that gives up has not come to the chip.
- **`MplSensorProofs`**: `SumOfTheWindow`, for a window of any size.
  `SumIsWindow` defines the sum by recursion over the window; `TotalOfMore` and
  `TotalOfOther` say how it changes when a value is added or replaced, and
  `WindowInv` that the index has not run past the values that count while the
  window fills.  `LeastDelayInForce`, provided every delay is less than 2^31 ns
  once it has been raised to the shortest (`IntSpan`): `(int)` in
  `MPLSensor.cpp:1228` turns a longer one into another delay, so without this
  it is false.  The invariant has the delays in the `int` range and the rate at
  the least of them from the moment `update_delay` has set it until `enable` is
  called.  `OnlyNeededIsOn`: within `enable`, what `PowerFollowsMask` says of
  all sensors holds of those `enableSensors` has passed (`PowerInv`, `Passed`).

What the proofs changed in the models.  `Maintained` was false for a hint
without interval, whose boost may be shorter than `Gap`: the statement now asks
for `Gap < Boost`.  `PowerFds` had each hint as a list of statements to do; it
now keeps the knobs of a hint, how far it has come and in which phase of a
setter it is, so that an invariant can speak of them, with the same steps.
`PolledSensors` has the files still to write as a set with an order, for the
list it had before, with the same states.

`MotionMath` had recursive operators (the determinant, the checksum, powers of
two); it now has a determinant by minors, a recursive function and the sizes
themselves.  Its old instance had 12 bits with 4 behind the point, which left
room above 1.0 that the code does not have: 2.0 overflows in
`inv_quaternion_to_rotation`, and a proof for the code's ratio could not go
through without saying what becomes of it.  Sums are now cut to words as the
processor does, and the instance has the code's ratio.

Every safety property of a passing run is stated by a theorem.  With TLC stay
the properties that need fairness (`TimedRequestEnds`, `CreateReturns`,
`ClosedHandleReleases`, `ResetReturns`, `TargetConverges`, `PolledAreServed`,
`QueuedAreRead`, `Followed`, `KernelIsRead`, `LeavesIdle`) and the fairness of the
contract in `ImplementsContract`, whose steps `Implements` proves, as the prover
has no ENABLED.

## 5. Not modelled

- *Power HAL, initialisation and interactive mode*: reads frequency tables and
  writes constant strings.  Its lasting state is in `PowerFds`.
- *What a hint asks for*: the tables of nodes, frequencies and times.
  `CAMERA_HINT_PERF` and throughput hints, which keep nothing.
- *A second `open`, and `init` before `open`* of the power module: the framework
  does neither.
- *Sysfs helpers, DMP loader, OS wrappers*: strings and files without state.
- *Lights HAL*: one write under one mutex.  `lights.c:99` initialises that
  mutex again with every light that is opened.
- *MPLSensor*: the interrupt, DMP and low-power nodes, gyro temperature,
  scaling of events, the list of sensors.
- *mllite*: unregistering callbacks and start notifications (nobody does),
  timestamps, fields that are stored and returned only, the playback log;
  square roots, arcs and the biquad filter, which are floating point.
- *The fusion library*: binary.
- *SYN_DROPPED*: the readers take it for the end of a sample; the kernel of
  `NvsInput` loses nothing.
- *Light and proximity*: what is reported about a sensor, the scaling to lux;
  `isl29028`, `adxl34x`, `hwmon`, drivers of other boards.
- *NFC stub, recovery updater*: a table of constants, straight-line I/O.
- *Build files, init scripts, overlays*: no program (`init.cal.rc` says which
  directories the calibration is in, and `Calibration` uses that).

What is left to do: an instance of `MplSensor` with gyro and compass handles
enabled at once; turns that need rounding, with a bound on how far the ways to
turn a vector may then differ.
