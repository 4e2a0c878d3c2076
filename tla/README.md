# Verification of the AKB-PCR20X driver and firmware

The repository holds a Linux driver for the AKB-PCR20X, a USB receiver for ISDB-S
and ISDB-T built around a Cypress FX2, and the firmware the FX2 runs. This
directory models both ends in TLA+, checks them with TLC and proves the most
important facts about them with TLAPS.

## 1. The system

| Part | Source | State | Operations |
| --- | --- | --- | --- |
| firmware command loop | `fw/akb_pcr20x_fw.c` | EP1 buffers, the two auto pointers, `cmd_cnt`, `ret_cnt`, ports, FIFO configuration | `main_init`, `main_loop` with sixteen commands |
| firmware I2C master | `fw/i2c.c` | I2C registers, retry and timeout counters | `i2c_write`, `i2c_read` |
| firmware start-up | `fw/fw.c`, `fw/dscr.a51` | `dosud`, `dosuspend`, descriptors | `main`, interrupt handlers |
| I2C adapter and control channel | `src/akb_pcr20x.c` | `wbuf`, `rbuf`, `i2c_mutex`, `usb_mutex` | `i2c_xfer`, `transfer_init`, `streaming_ctrl` |
| frontend arbitration | `src/akb_pcr20x.c` | `mutex_fe`, `active_fe`, `open_count` | `init`, `ts_bus_control`, `set_frontend_s`, `set_frontend_t` |
| firmware download | `src/akb_pcr20x.c` | memory and CPU of the FX2 | `identify_state`, `download_firmware` |
| attach and detach | `src/akb_pcr20x.c` | `i2c_clt`, `config`, saved `set_frontend` | `frontend_attach*`, `frontend_detach` |
| STV6110x tuner | `src/stv6110x.c` | register cache | probe, `init`, `sleep`, `set_params`, `get_*` |
| MXL5007T tuner | `src/mxl5007t.c` | register tables, hybrid instances | attach, `release`, `remove`, `init`, `sleep`, `set_params` |
| DVB USB v2, TC90522 | headers only | | external |

(Source paths are relative to the repository; `src/akb_pcr20x.c` is the driver.)

How they interact. The DVB core calls the driver from several threads: the open
and close system calls of applications (`ts_bus_control`), one thread per frontend
(`set_frontend`, which holds `mutex_fe` while it writes registers over I2C), the
feed start and stop (`streaming_ctrl`), and any number of callers of
`i2c_transfer`. All I2C traffic becomes frames on EP1 of the FX2: `i2c_xfer`
composes a frame in the one buffer `priv->wbuf` under `i2c_mutex` and the USB core
sends it under `usb_mutex`, waiting two seconds for the frame to be taken and two
more for an answer. The firmware polls EP1: it takes a frame when EP1OUT holds one
and the last answer has left EP1IN, runs its commands, re-arms EP1OUT, and then hands
over an answer if a command produced bytes; in between the host may send its next
frame. Nothing ties an answer to its frame but
the order of the transfers.

What is hard:

- three kinds of threads write `wbuf`, and one of them takes no lock;
- a timeout on the host does not withdraw the frame from the firmware, so its
  answer may come when nobody waits for it;
- the firmware walks through a frame with two cursors, a byte counter that may wrap
  and a hardware pointer that does not stop at the end of the packet;
- `set_frontend` is a sequence of writes each of which may fail, and may run after
  the last close, when the partner is already in use;
- `init` comes after the frontends are visible to applications;
- the tuner drivers compute in integers and write register after register, the STV6110x
  from a cache it also reads back into, and ignoring most failures.

`PROJECT.json` lists these and the other hazards at their lines, each with the
properties about it.

What makes each component correct:

- command loop: it never reads beyond the frame, never writes over an answer in
  transit, serves every frame, and answers frames in turn;
- control channel: frames arrive as composed, callers get their own answers, calls
  return, the stream is in the state last asked for;
- arbitration: one frontend at a time, the count is the truth, a tuned frontend keeps
  the pins it needs, calls return;
- I2C master: retries are bounded, success means one whole transfer, data are not sent
  twice without a cause, and the counters show where the bus was left held;
- download: either the whole image is loaded and the CPU runs, or the call fails;
- attach: what was probed is released, a device without faults comes up;
- tuners: a tuning that was not disturbed leaves the chip as asked, whatever it was
  before; calibrations and tuning start only when what they need is in place; the
  cache is the chip's; arithmetic stays in range; an instance counts its users.

## 2. Modules

| Module | Models | Kind |
| --- | --- | --- |
| `Fx2CommandLoop` | `main_init`, `main_loop` | component |
| `CommandMailbox` | what EP1 promises the host | abstract specification |
| `Fx2Device` | the command loop under the most general host | composition, refines `CommandMailbox` |
| `Fx2CommandLoopProofs` | | lemmas the next two proof modules share |
| `Fx2DeviceProofs` | | proofs |
| `ControlChannel` | `i2c_xfer`, `transfer_init`, `streaming_ctrl`, USB core, over `Fx2CommandLoop` | composition |
| `ControlChannelProofs` | | proofs |
| `ExclusiveBus` | what `ts_bus_control` promises applications | abstract specification |
| `FrontendArbiter` | `init`, `ts_bus_control`, both `set_frontend` | component, refines `ExclusiveBus` |
| `FrontendArbiterProofs` | | proofs |
| `Fx2I2c` | `i2c_write`, `i2c_read` | component, refines `I2cService` |
| `I2cService` | what the I2C master promises `main_loop` | abstract specification |
| `Fx2I2cProofs` | | proofs |
| `DeviceBringup` | `identify_state`, `download_firmware`, `main`, `frontend_attach*`, `frontend_detach` | composition of driver and device |
| `DeviceBringupProofs` | | proofs |
| `Stv6110x` | `stv6110x.c` with its chip | component |
| `Stv6110xProofs` | | proofs |
| `Mxl5007t` | `mxl5007t.c` with its chip, the instances of `tuner-i2c.h` | component |
| `Mxl5007tProofs` | | proofs |
| `MCTuners` | the two tuner drivers, one at a time | values of the constants for TLC |
| `MCControlTiming` | `ControlChannel` with answers in time, or later | values of the constants for TLC |
| `MCFx2Device`, `MCControlChannel`, `MCFx2I2c`, `MCDeviceBringup` | | values of the constants for TLC |

Definitions keep the names of the code. The definitions called a *slip* in their
comment are not part of any specification: each is a form of the definition that
follows it with one plausible mistake, and the properties must tell them apart.

### Fx2CommandLoop

`ep1out` and `ep1in` are the two endpoint buffers with their busy bits (as in the code,
`busy` of EP1OUT means *armed, waiting for the host*); `ptr` is auto pointer 1,
`cmd_cnt` and `ret_cnt` the counters, which wrap at 256. Each `case` of `main_loop` is
an action, including its early exits; `Poll` is the code before the `for`, `Rearm` (line
305) and `HandOver` (lines 306 to 308) the code after it, with `due` the frame whose
answer is still to be handed over in between; `CutShort` is the exit `cmd_cnt = 0` that
all commands with arguments share, `Unknown` the switch without a default. The bytes of
frames are kept, because they steer the interpreter, and `StaleByte` is what it would
read behind them. Of answers only the number of bytes and the frame they belong to
(`tag`) are kept. Ports are sets of bits. An I2C transfer is one step whose result is
chosen from `I2cResults`. `failed` is a ghost: it remembers that a command of the frame
was refused or not acknowledged, which the firmware tells nobody.

`CommandMailbox` has a place for a request, one for the answer being made up (`pending`)
and one for the answer the host may fetch. A request is served when EP1OUT is free again,
its answer posted later: the host may submit the next request before that, but it is not
served before the answer has been fetched.

Not in it: the diagnostic counters behind CMD_I2C_STATUS (its twelve bytes are), FIFO
resets, the settling delays, and pins beyond ports B and D.

### ControlChannel

`Callers` are threads in `i2c_xfer`, `Attacher` the one in `transfer_init`, `Streamer`
the one in `streaming_ctrl`. `pc` is where a thread stands:

- `lock`: waits for `i2c_mutex` (a signal may end this: `XferInterrupted`);
- `next`: decides about the next message: reject, compose, or return `num`;
- `store`: writes its frame to `wbuf`, byte by byte for the first three bytes, the
  length of the longest streaming frame, and the rest at once;
- `usb`: waits for `usb_mutex`; the streamer skips this;
- `out`, `in`: the two bulk transfers, each of which completes or times out.

`SLOW` says whether a transfer may time out although the firmware is still at work:
nothing in the firmware keeps a frame within the two seconds the host waits. With `SLOW
= FALSE` a transfer times out only if the firmware is idle and will not answer.
`OVERLAP` says which of `streaming_ctrl` and `transfer_init` may run during an I2C
transfer. Nothing in the driver prevents it of either: `streaming_ctrl` takes no lock,
and `transfer_init` stores its frame without `i2c_mutex` when the I2C adapter is already
there for everybody. Run `overlap` has the streamer in it; the passing runs and the
proofs have nobody, so that they are about a driver whose feed control keeps away from
I2C transfers and whose adapter is not used before attach has sent its frame. `Old`
replaces the tag of a frame whose sender has started another call, so that an answer to
the earlier one is not taken for its own. `refused` is a ghost that collects the callers
whose frames failed in the firmware.

External, from the driver's use of it: `usb_mutex`, the bulk transfers and their
timeouts, the outcome of `usb_clear_halt` on a packet in EP1IN (kept or dropped), and
that a bulk-in transfer accepts a shorter answer. The I2C core's own lock on the
adapter is left out: it adds nothing to `i2c_mutex`.

### FrontendArbiter

A session is an open of a frontend device. `ts_bus_control` runs within `mutex_fe` and
touches only what the mutex protects, so `Acquire`, `Refuse` and `Release` are one step
each. `set_frontend` takes the mutex (`Enter`, or `Busy` if the partner is in use), writes
its registers one per step, any of which may fail (`WriteFails`), and calls the
demodulator's own `set_frontend` (`Tune`, which may fail too). `tuned` holds the frontends
whose last `set_frontend` succeeded since they were taken into use. A frontend's thread
lives until its last session has closed, and may be in `set_frontend` then. `DriverInit`
may come at any time; with `EARLY_OPEN = FALSE` no device is opened before it.

### Fx2I2c

One action per observation of the controller. The wait loops and the poll counts that
bound them are one choice: done, bus error, or silence until the limit. `at` is
what comes next on the bus; `retry_count`, `berr_retry` and `cur_byte` are the
variables of the code, `cnt` the diagnostic counters, which wrap at `WordSize`. `wire`
is a ghost, the bytes since the last `bmSTART` and whether each was acknowledged.
`Fx2CommandLoop` takes a whole call for one step: it needs no more than that a call
returns, with either result, which is what `I2cService` says.

Assumed of the controller: `bmSTART` gives up whatever is under way, since a restart
after a bus error relies on it; `bmLASTRD` is down again after its byte or a bus
error. `cancel_i2c_trans` is never set by this firmware. A read of no bytes, which
`main_loop` lets through, clocks one in and acknowledges it: `Complete` says so.
Calls that give up (silence, or the last bus error) leave the bus without a STOP.

### DeviceBringup

`fx2` is the device, `host` the place the driver has reached with it: `identify`,
`cpu_stop`, `load`, `cpu_run` (identification and download), `transfer_init` and the
four chips (attach), `core_init`, `up`, `detach`. Of the image the kinds of its
records are kept. Each transfer takes effect, or is reported as failed with or without
effect (`TransferFails`); it fails for certain if the device has gone (`alive`). The
failures of an attach are those of its transfers, and a satellite demodulator that was
probed but has left no frontend, whose client stays registered (line 657).

External: the USB core probes a device after it is through with its predecessor. The
DVB core goes on to attach after a download that returned 0, and calls
`frontend_detach` for what an attach began. `RENUMERATE` of fx2lib leaves the bus
unless the FX2 has done so since it was powered. The firmware of this repository
keeps the product id 0x8613 (`fw/dscr.a51:60`), so that the device it renumerates to
counts as cold and is loaded a second time, after which it stays on the bus; an image
with product id 0x1004 is modelled beside it. `Reconnect` may come at any time before
the driver has noticed, the driver's transfers then fail.

Not in it: the references on tuner modules, which `frontend_detach` never gives back,
and the fields handed to the chip drivers. A record before the last that writes 0 to
0xE600, and so starts the CPU while the walk goes on, is not among the kinds: the format
the driver describes (lines 139 to 148) has it last. Clients belong to one binding:
`Bind` starts with none.

### Stv6110x

`stv_regs` is the cache, a record of the fields the driver sets, and `stv_chip` the same
fields in the chip. `set_params` is a sequence of steps (`stv_at`), one per transfer: all
registers (`InitRegs`), then those in `Written`, each with the change of the cache that
precedes it (`Prepared`), and the two polling loops (`Poll`). A write is reported as done
or as failed, and the chip has taken all of it, or a first part, or nothing: a chip that
refuses a write is not reported (run `nak`). Only `InitRegs` and `Sleep` look at what they
are told; set_frequency and set_bandwidth do not. A read fills the cache, or fails and
leaves it; that it returns the chip's bytes is assumed (run `late_answer` shows when it
does not). `stv_intact` is a ghost: since `set_params` began all writes were reported and
taken. `TunedTo` and `FilterFits` say what the divider and the filter code are for, from
`get_frequency` and from the bandwidth, without the formulas of the code.

The frontend calls one operation at a time; `StvProbe` stands for removal and a new probe.
SYN, RX and LPT change together and are one field. `Frequencies` are within the limits
the tuner gives the DVB core, in kHz as the core passes them for satellite.

### Mxl5007t

The tables are sequences of rows as in the code, computed by `CalcInitRegs` and
`CalcRfTuneRegs` with `set_reg_bits` and `copy_reg_bits`; rows with constants marked
OVERRIDE are left out. A mask is the range of bits it covers. The two loops of the
calculation are recursive functions: `Cursor` is where `copy_reg_bits` stands in the first
table after `k` rows of the second (`SeekReg` looks on from there), `Halvings` the repeated
halving that finds the fraction of the divider. `MxlWriteReg` writes the
next row and gives up when it is told of a failure. `mxl_count` is the count of the
instance, `mxl_priv` whether the frontend has it. `Attach` is `hybrid_tuner_request_state`,
`AttachSteps` the three transfers that follow. An attach that fails calls `release` when
`tuner_priv` is still NULL: the count stays, and the ghost `mxl_failed` remembers it until
the instance is gone, which then is never. The comment in `tuner-i2c.h` (line 109) calls
the count the number of users: after a failed attach it is one more, and the next probe of
the same adapter and address finds the old instance, whose `config` pointed into the
driver instance that failed. `CountIsUsers` is about instances without that ghost.

No limits of the frequency are assumed: `mxl5007t_tuner_ops.info` has only a name, and the
code checks none. The divider goes into 16 bits, so `TunedComplete` asks for the nearest
multiple of 15.625 kHz only up to what they hold (`Expressible`, some 1024 MHz); above, the
code tunes to another frequency and reports the one asked for.

`MxlRelease` is the operation the DVB core calls, `MxlRemove` the removal of the client;
both end in `LeaveInstance`, in either order, and `tuner_priv` makes the second find
nothing to release. The removal finds the frontend by way of the instance, also after the
operation has freed it: of what such a read can return the model takes the old contents, on
which alone the count can be discussed. `Attach` needs a client that was removed
(`mxl_client`). `mxl_faults` counts what went wrong, up to `MaxFaults`.

## 3. Runs

| Run | Specification | Shows |
| --- | --- | --- |
| `fx2_device` | `Fx2Device`, fair | type, `ParserInSync`, `BuffersReserved`, `AnswersIntact`, `FramesAreServed`, `ImplementsMailbox` |
| `control_safety` | `ControlChannel`, SLOW | type, `StreamingAgrees`, `AnswerFits`, `FrameIntegrity`, whatever times out |
| `control_live` | `MCControlTiming`, fair | `AnswersMatchInTime`, `FramesAreServedInTime` when the firmware answers in time; `EveryCallReturns` also when it does not |
| `arbiter` | `FrontendArbiter`, fair | type, `Exclusive`, `CountMatches`, `RouteHeld`, `CallsReturn`, `ImplementsBus` |
| `i2c_master` | `Fx2I2c`, fair | type, `WholeTransfer`, `NoSilentRepeat`, `FailuresExplained`, `GiveUpsCounted`, `ImplementsService` |
| `bringup` | `DeviceBringup`, fair | type, `RunsWholeImages`, `StartedIfGood`, `DemodsReleased`, `ComesUp` |
| `tuners` | `MCTuners`, fair | types, `CacheAgrees`, `TunedAsAsked`, `CalibratesInOrder`, `StvReturns`, `TunedComplete`, `QuietWhileSet`, `CountIsUsers` |
| `overlap` | `ControlChannel`, OVERLAP | **violates** `FrameIntegrity` |
| `late_answer` | `ControlChannel`, SLOW | **violates** `AnswersMatch` |
| `wedge` | `ControlChannel`, SLOW, fair | **violates** `FramesAreServed` |
| `nak` | `ControlChannel` | **violates** `NoSilentFailure` |
| `early_open` | `FrontendArbiter`, EARLY_OPEN | **violates** `Exclusive` |

Bounds, and why they are enough:

- `fx2_device`: two tags, so an answer can meet a frame that is not its own; every frame
  the driver composes, at the smallest lengths and at 16 and 17 bytes, each diagnostic
  command, frames cut off in arguments and in data, an unknown byte, a read of 200
  bytes. The interpreter's state is only what is left of one frame and the registers, so
  longer frames add nothing but repetitions of these. Whether answers fit EP1INBUF is
  not asked here, for it depends on the host: a frame of six CMD_I2C_STATUS wants 72
  bytes, and `main_loop` would write them. `AnswerFits` is checked and proved
  (`AnswersFit`) of the frames the driver composes, which have at most one read of at
  most 16 bytes.
- `control_*`: two callers contend for both mutexes and can have an answer each in
  flight; the lists are a write, write-read pairs, and one rejected after its first pair
  has been carried out. All data bytes are the opcode of CMD_EP6IN_STOP, so any slip of
  the interpreter or of `wbuf` stops the stream. `control_live` omits the longer lists.
  It chooses at the start between a firmware that answers in time and one that may not
  (`late`); the second has a write-read pair for each caller and chips that acknowledge.
- `arbiter`: two sessions suffice for same-frontend double opens and for partners; the
  proofs below cover any number. `open_count` is bounded by the sessions.
- `i2c_master`: messages of none, one and two bytes and reads of none to two cover
  first, middle and last byte; three bus errors instead of 20 and counters that wrap at
  3 instead of 65536 bring the limits within reach. The proofs cover all values.
- `bringup`: an image has two records, each way to end among them (no end record, an end
  record that starts the CPU or not, cut off in the data, a stub of a header).
  `MaxFaults` lets three things go wrong (transfers, broken files, unplugging), enough
  to fail in a second download after a failed first one.
- `tuners`: three frequencies, one on the first limit, one above the second limit of the
  prescaler, and one whose divider is rounded up; bandwidths for the lowest filter code
  and one in the middle; two trials of each calibration. Of the other tuner, requests
  with and without rounding, at a remainder of 7813 Hz, the first that is rounded up, on
  the limit at 333 MHz, for cable, the largest frequency whose divider has 16 bits and
  the next, and unsupported ones. Two faults (STV6110x: any number) are enough for a
  failed attach and a disturbed tuning, or a tuning disturbed twice. The two drivers
  share only the I2C adapter, which is in neither module, so that each is explored with
  the other at rest.

Fairness. `fx2_device`: `main` calls `main_loop` for ever and the host fetches answers.
`control_live`, `wedge`: a thread inside a call goes on (`Work`, strong, because of its
waits for a mutex: the kernel's mutexes starve nobody), and the firmware runs (weak). No
call is assumed to be started, in particular nobody is assumed to come and fetch a stray
answer. `arbiter`: the same for `mutex_fe`, I2C writes end, and the core calls `init`.
`i2c_master`: the 8051 runs on within a call (`Work`); no call is assumed to be made.
`bringup`: the firmware boots and comes back to the bus (`Device`), USB core and driver
go on (`Driver`); nobody is assumed to plug, unplug or bind anything. `tuners`:
`set_params` of the STV6110x runs on (`StvWork`, weak); no calibration is assumed to end
and no transfer to work.

### What the violations show

- `overlap`: `streaming_ctrl` (line 804) takes neither mutex, though it calls the
  `_locked` variant, whose callers must hold the lock (`src/dvb_usb.h:412`). Its stores
  to `wbuf` land in the frame another thread is composing or sending.
- `late_answer`: a read times out, the firmware answers later, and the next read is given
  that answer: from then on each reader receives the bytes of the one before.
- `wedge`: the same late answer, followed by a frame that needs no answer. The firmware
  never takes that frame while EP1IN is busy, and the host never fetches from EP1IN
  unless it could send a frame first: every later call times out at bulk-out.
- `nak`: the firmware only counts a write that a chip does not acknowledge; `i2c_xfer`
  reports it as done.
- `early_open`: `init` wipes the bookkeeping of a frontend opened before it.

### What the properties leave out

`PROJECT.json` names, with its hazards, what the code does and no property forbids,
because no doc, comment or test says what should happen: chips half in the other mode
after a `set_frontend` that failed; the demodulator whose tuner is not found, which
stays registered (`DemodsReleased` exempts it); a cache of the STV6110x that an ignored
write failure has put out of step with the chip (`stv_intact` exempts it); the init
table of the MXL5007T, which is written while the chip may still be tuned
(`QuietWhileSet` is about the table after it). One more has a comment against it: the
count that a failed attach of the MXL5007T leaves (`CountIsUsers` exempts it, see
section 2).

## 4. Proofs

`Fx2DeviceProofs`, for every set of frames of 1 to 64 bytes, every set of tags, pins and
stale byte: `TypeCorrect`, `ParserStaysInFrame`, `BuffersAreReserved`, `AnswersAreIntact`,
`MailboxRefinement`. The inductive invariant is

    LoopInv == TypeOKFx2 /\ ParserInSync /\ BuffersReserved /\ TagsAgree

`ParserInSync` is needed for type correctness as well: it keeps `cmd_cnt` from wrapping.
`TagsAgree` (a buffer in use has a tag) carries the refinement. The core is the lemma
`CommandsInFrame`: every command moves both cursors by the same amount, or gives up the
rest, and leaves the buffers alone. The assumptions are those declared with the
constants in `Fx2CommandLoop` and `Fx2Device`.

`FrontendArbiterProofs`, for any finite set of sessions: `TypeCorrect`
unconditionally; `BusIsExclusive`, `CountIsTrue`, `RouteIsHeld`, `BusRefinement`
under `EARLY_OPEN = FALSE`, without which they are false (run `early_open`).
The inductive invariant is

    IInv == TypeOK /\ Quiet /\ MutexHeld /\ CountMatches /\ WritesDone /\ RouteHeld

`Quiet`: before `init` nothing is open; `MutexHeld`: whoever is past `Enter` owns the
mutex; `WritesDone`: the registers hold the part of its program a thread has
written. `Exclusive` follows from `CountMatches`; the refinement needs
`CountMatches` to translate the guard on `active_fe` into one on the sessions.

`Fx2I2cProofs`, for every set of messages and lengths up to `I2C_BUF_LEN`, every limit
on bus errors and every word size above 1: `TypeCorrect`, `TransfersAreWhole`,
`RepeatsHaveACause`, `GiveUpsShow`, and `ServiceRefinement` to the safety part of
`I2cService`. The inductive invariant is

    IInv == TypeOK /\ AttemptsLeft /\ Fresh /\ WriteUnderWay /\ ReadUnderWay
            /\ WholeTransfer /\ NoSilentRepeat

`AttemptsLeft`: a call under way has attempts left at both limits; `Fresh`: an attempt at
its address has moved nothing yet; `WriteUnderWay` and `ReadUnderWay` tie `cur_byte`
(and `bmLASTRD`) to what has passed, from which `WholeTransfer` follows at the
last byte. `GiveUpsShow` needs that the bus is held between START and STOP (`BusHeld`) and
that adding one to a counter changes it, hence the word size above 1.

`Stv6110xProofs`, for every frequency from 950 to 2150 MHz, every bandwidth, any number of
trials and every way a transfer may go: `TypeCorrect`, `CacheFollows`, `TuningIsTrue`,
`CalibrationsInOrder`. The inductive invariant is

    IInv == TypeOKStv /\ Synced /\ Prepares /\ TunedAsAsked

`Synced`: while nothing has gone wrong the chip has from the cache what `set_params` has
not still to write (`Outdated`); `Prepares`: what the cache holds at each step. They rest
on two facts about the arithmetic: `DividerRounds`, the divider is below 4096 and within
500 of the frequency in kHz divided by 1000, with `BestDivider` for the loop over the input
dividers; and `CodeFits`, the filter code is within its five bits and fits the bandwidth.
The run tries three frequencies; that the rounding is right for all of them is what the
lemmas add. The limits of the band are assumed (`FrequencyAssumption`): the DVB core keeps
requests within those the tuner announces.

`DeviceBringupProofs`, for every set of images and any number of faults: `TypeCorrect`,
`ImagesAreWhole`, `GoodIsStarted`, `DemodsAreReleased`. The inductive invariant is

    IInv == TypeOK /\ Present /\ WarmRuns /\ RunsWholeImages /\ StartedIfGood
            /\ Loading /\ Registered /\ DemodsReleased

`Loading` says what the driver holds at each place of the download: from `cpu_stop` to
`cpu_run` the device it talks to is cold, and once the walk is complete (`Complete`) it holds
the whole image, if it is still there. `WarmRuns` excludes that a device
passes for warm without its firmware, `Registered` counts the chips an attach has found.
`WalkAssumption` is what the walk makes of a file: one of 13 bytes or more (line 122) starts
with the header of a record, and nothing behind the first record that is not a plain one
is looked at.

`ControlChannelProofs`, for any set of callers and any lists of messages that
`i2c_transfer` may pass: `TypeCorrect` whatever happens; `FramesArriveWhole`,
`FeedIsAsAsked` and `AnswersFit` under `OVERLAP = {}`; `AnswersReachTheirCalls` under
that and `~SLOW`, which is `AnswersMatchInTime` of the run. Without the first, run
`overlap` shows `FrameIntegrity` false; without the second, run `late_answer` shows
`AnswersMatch` false. The two are limits of what can be claimed of the driver, not facts
about it: nothing in it keeps the feed control or the frame of attach out of an I2C
transfer, and the firmware may be slower than two seconds. Each invariant contains the
one before it, and is inductive:

    BaseInv    == LoopInv /\ JobsOK /\ HostOK /\ Unfinished
    ChannelInv == BaseInv /\ Exclusive /\ StoredOK /\ Composed
    FeedInv    == ChannelInv /\ Packets /\ Walk /\ Registers /\ Switching
                  /\ SmallAnswers /\ StreamingAgrees
    TurnInv    == FeedInv /\ AnswersInTurn

`LoopInv` is the invariant of the command loop, proved in `Fx2CommandLoopProofs` for
every host. `Exclusive` ties `i2c_mutex` to the places of the threads, so that one thread at
a time is between `next` and `in`; `StoredOK` says that the part of its frame it has stored
is in `wbuf`, which makes frames whole. That the pins follow the feed control depends on the
commands of the frame: `Composed` and `Packets` say which of the four kinds of frame
(`InitFrame`, `StartFrame`, `StopFrame`, or one of `i2c_xfer`) a thread has composed and
the endpoint holds, `Walk` at which of its bytes the interpreter may stand, `Registers` and
`Switching` what has been set by then. A frame of `i2c_xfer` is a write,
with a read after it or not, and moves no pins; a read of more than 16 bytes is not carried
out, hence `SmallAnswers`. `AnswersInTurn`: a caller that waits has its frame or its
answer on the way, or will get none, and while nobody waits there is nothing to fetch.

`FailuresAddUp`, in `Fx2I2cProofs`: every failed call is counted under one of the causes.
The counters wrap, so that the equation is one between remainders; `Balance` says that
counting a failure in two places keeps it, also when one of them wraps.

`Mxl5007tProofs`, for every configuration the driver knows, every set of requests and any
number of faults: `TypeCorrect`, `InstanceHasItsUsers`, `TunesCompletely`,
`RetunesQuietly`. The inductive invariant is

    UserInv == Places /\ Counted
    TuneInv == UserInv /\ Asked /\ Stored /\ Underway /\ Returned

`Counted`: what the count of an instance has beyond its users is no more than the faults,
and nothing while no attach has failed; `InstanceHasItsUsers` needs the attach that is
under way as a user. `Underway` and `Returned`: while nothing has gone wrong, the rows not
yet written are the end of the table, and for every register whose rows are all written
the chip holds the last of them; the second table touches no register of the first. What
the tables say is found by lemmas: `InitTable`, for the rows `copy_reg_bits` carries over
to the cable table and those it does not; `DigIsNearest`, that the divider is the multiple
of 15.625 kHz nearest to the frequency, for every frequency and not only for those of the
run; `FieldsSet`, that `set_reg_bits` changes the bits of its mask and no others. No limit
of the frequency is assumed.

Every invariant and every safety property of the passing runs is stated by one of these
theorems, one of them in part: of `ImplementsService` the proof covers `Service!Safety`.
Model-checked only is what must eventually happen, since fairness and ENABLED are beyond
the prover: `FramesAreServed`, `FramesAreServedInTime`, `EveryCallReturns`,
`CallsReturn`, `ComesUp`, `StvReturns`, and the liveness half of `ImplementsService`.

## 5. Not modelled

- I2C transfers before attach has sent its frame, and of the hosts of the firmware those
  that overrun EP1INBUF.
- Of the firmware's start-up only `RENUMERATE` and the product id are modelled; suspend,
  standard requests and the other descriptors are hardware glue of fx2lib.
- Of the tuner drivers what nothing in the repository calls (`set_bbgain`, `set_refclock`,
  waking by `set_mode`), registers that keep their defaults, and the lock bits.
- `eeprom_read` and `eeprom_write`, which nothing calls.
- The DVB USB core and the TC90522 are only headers here: external, as far as the
  driver uses them.
- Power management of the USB core; the transport stream itself; build files and scripts.

## 6. Plan

Done: every component that has program logic is modelled, and every safety property of the
passing runs is a theorem. Left:

1. Proofs of hazards that no property covers yet, where a property of several steps can be
   stated: what `sleep` reports of its two writes (`mxl5007t.c:690`), files cut off between
   records (`akb_pcr20x.c:159`).
2. The safety half of what `ControlChannel` promises the I2C core, as an abstract
   specification of its own, from `TurnInv`.
