# A TLA+ verification of the voice assistant firmware

The program is a small voice assistant for a Realtek Ameba Z board (Ameba SDK
4.0c) with a DSP Group D4 voice chip on SPI. The chip listens for a phrase; the
board then pulls the recorded speech out of it, uploads it to a recogniser over
HTTP, sends the recognised text to a speech synthesiser, and cuts the MP3 stream
that comes back into frames. The program's own code is in
`src/sdk-ameba-v4.0c/project/realtek_amebaz_va0_example/src` (below: `S/`); the
rest of the repository is the vendored SDK.

## 1. Inventory

| Component | State | Operations | Interacts with |
|---|---|---|---|
| D4 boot and detection service: `dbmd_init.c`, `Dbmd_LoadFile.c`, `UserCase_1Mic.c`, `Init_D4`/`Run_D4`/`Config_D4` in `UserCase_Common.c` | `init_finish_sema`, `action_sema_control`, `fail_cnt`, the chip's registers and memory | boot (load, verify, run, configure, arm), interrupt handler, service loop | `init_thread` ups `init_finish_sema`; the chip's line runs `d4p_irq_handle`; calls `pull_buffer` |
| Utterance upload: `pull_buffer`, `dump_audio_data` (`UserCase_Common.c`), `send_head_to_baidu`, `send_data_to_baidu`, `get_result_baidu` (`asrmain.c`) | heap buffer, `total_bytes`, retry counters, global `conn` | one request per detection | reads the chip over SPI; writes the HTTP body; leaves the answer in `text`, ups `init_set_tts` |
| Speech pipeline: `asr_baidu_main` (`asrmain.c`), `ttsmain.c`, the tasks of `mp3parse.c` | global `text`, two queues of one pointer each, the records the pointers lead to | request speech, pass on pieces, pass on frames | three tasks, two queues, shared stacks and heap |
| MP3 frame ring: `parse_mp3_frame` (`mp3parse.c`) | `parse_buf`, `start_len`, `end_len`, `parse_flag`, `FrameSize` | put a piece in, describe the frames that are complete | called by `tts_recv_task`; its descriptors are read by `mp3_parse_recv` |
| MP3 header tables: `parse_frame_head`, `GetRateBit` | none (pure) | header to frame size | called by the ring |
| SPI device access: `Dbmd_rtl_Device.c`, `spi_api.c` | `TrDone`, `masterRxDone`, the driver's busy flags, the FIFOs | read, write, registers, interrupt handler | every access to the chip |
| Token fetch: `baidutoken.c`, `run` in `asrmain.c` | global `token` | fetch once at start, search of a string in JSON | used in every request |
| Network join: `wifi_conf.c`, `wifi_ind.c`, `lwip_netconf.c`, `atcmd_wifi.c` under `component/common/api` | `rtw_join_status`, `join_user_data`, `error_flag`, the event handlers, `join_result` and its semaphore, the DHCP client | join, leave, reconnect, get an address | `asr_baidu_main` polls `wifi_is_ready_to_transceive` before it does anything; the driver's tasks run the handlers |
| Startup: `main.c` | - | creates semaphores and tasks | all tasks |
| Button timer: `dbmd_init.c:148-173` | a static count | counts, acts on nothing | none |
| TCP information server: `tcp_clint.c` | sockets | accept, send | dormant: its call in `main.c:41` is commented out |
| Flash lock: `device_lock.c` | a lazily created mutex | lock, unlock | `load_file` |
| libcurl demonstration: `token.c`, `ttscurl.c`, `common.c` | - | - | not in the build |
| SDK: FreeRTOS 8.1.2, lwIP, HTTP client, wifi, drivers | - | - | modelled as the program uses it |

Tasks and priorities (above idle; preemptive, one core): `init_thread` 7,
`mp3_parse_recv` 5, `dbmd_task` 4, `tts_recv_task` 4, `asr_baidu_main` 3.

What is hard here, and what correctness means, by component:

* **Ring.** Wrap-around in three places of a frame, equal cursors, a size that is
  learned once and kept, sizes chosen by a server. Correct: no unread byte is
  overwritten, every complete frame is described at once and exactly, a call
  returns.
* **Pipeline.** Pointers to stack records and to a buffer that is refilled and
  freed go through queues; `text` is shared without a lock; sends whose result is
  ignored. Correct: a pointer is read while what it was sent for is still there,
  nothing is lost or reordered, the latest answer is taken whole.
* **Upload.** A body of announced length made of pieces the chip delivers when it
  can, timeouts in the middle, a network nobody watches. Correct: the body's
  bytes add up, the audio has no gap, the call comes back.
* **Service.** One edge per detection, at any time, to a task that boots, sleeps
  and talks over an unreliable bus. Correct: a wake-up is neither lost, nor
  doubled, nor delivered before there is anything to deliver it to.
* **Join.** Two tasks may be in `wifi_connect` at once, because an event handler
  can wipe the mark that keeps the second one out; the driver calls handlers that
  follow a global pointer into memory a call is about to free. Correct: no handler
  meets a freed `join_result`, nothing is left of a call that ended, every call comes
  back. The semaphore in `join_result` is deleted before the pointer is taken away;
  what holds of that is only that the window is no wider (section 2).
* **SPI.** An interrupt handler and a task that share flags and a buffer pointer,
  with a timeout on one side only.

PROJECT.json lists the hazards line by line, with the properties that cover
each and a note where none does yet.

## 2. Modules

| Module | Models | Checked with | Proofs |
|---|---|---|---|
| `FrameStream` | what the MP3 stage promises: consecutive frames of a numbered byte stream | refined by `Mp3Ring` | |
| `Mp3Ring` | `parse_mp3_frame` | `MCMp3Ring` | `Mp3Ring_proofs` |
| `Mp3Header` | `GetRateBit` and its tables, a pure function of the header's fields | `MCMp3Ring` (an assumption over all 1024 headers) | `Mp3Header_proofs` |
| `HandOver` | what the tasks of the pipeline amount to: one loop of procedure calls | refined by `TtsPipeline` | |
| `TtsPipeline` | `text`, the queues, four tasks and the scheduler | `MCTtsPipeline` | `TtsPipeline_proofs` |
| `Utterance` | what the upload promises the recogniser about one utterance | refined by `PullBuffer` | |
| `PullBuffer` | `pull_buffer`, `dump_audio_data` and the HTTP calls around them | `MCPullBuffer` | `PullBuffer_proofs` |
| `D4Control` | `dbmd_task`, the chip's modes, the interrupt, `init_thread` | `MCD4Control` | `D4Control_proofs` |
| `SpiDevice` | `device_write_spi`, `device_read_spi`, the interrupt handler and the bus below them | `MCSpiDevice` | `SpiDevice_proofs` |
| `WifiJoin` | `wifi_connect`, its handlers, `LwIP_DHCP`, the AT commands and the reconnection that call them | `MCWifiJoin` | `WifiJoin_proofs` |

### Mp3Ring and FrameStream

The globals keep their names; a byte is its number in the order of arrival, so a
slot of `ring` says which byte it holds and a frame read through a descriptor can
be compared with the bytes that followed its header. `PutChunk` is a call up to
its loop (both arms of the copy are `Appended`), `ReadHeader`, `SendFrame` and
`Return` are a turn of the loop: the header, looked at only while `parse_flag` is
0; the descriptor, the send and the cursor; the `break`. `NextStream` starts
another response without resetting anything, as the code does. `start_pos`,
`end_pos` only repeat the cursors (`start_pos` is the header's place: 0 for a
cursor of 2048) and are left out. Reading a frame is part of sending it, because
`mp3_parse_recv` has the higher priority; that this is the same is what
`ImplementsHandOver` of `TtsPipeline` says, and `ActsAsCalls` proves.
What the program prints of a descriptor (address and two lengths) determines the
bytes `BytesOf` collects.

The ring does not check two conditions it needs. `FramesFit`: a frame and a piece
together fit in the ring (frames of up to 1024 bytes, as pieces are up to 1024 of
2048). `HeadsArriveWhole`: a response does not start with less than a header.
Both are assumptions of the theorems and hold in the instance of run `mp3_ring`;
`mp3_short_head` drops the second. `BoardRingWorks` discharges the first for the
sizes in `mp3parse.c` and every stream of speech.

### Mp3Header

`GetRateBit` for every combination of its fields, with the tables as functions
and `column_index`, `fre_index` as the branches of the code. `Unset` stands for
the value of a local variable that no branch assigned. The module has no state;
what it shows are four statements, which TLC evaluates with the runs of `Mp3Ring`
and `Mp3Header_proofs` proves:
every complete header gives a frame longer than its header (`SizesAreFrames`: the
loop ends); the frames of MPEG 2 layer III, at any bit rate, fit with a piece, and at
16 and 24 kHz need no padding (`SpeechFits`: what `FramesFit` and the one size of
`Mp3Ring` stand for); neither is true of all headers (`SpeechOnly`: MPEG 1 layer
III has frames that do not fit with a piece, one of MPEG 2.5 is longer than the
ring, and a stream at 22.05 kHz has frames one byte longer than the first); and
the product stays in 32 bits (`NoOverflow`).

### TtsPipeline

One step per statement that touches something shared. A task's step needs
`MayRun`: not blocked, and no ready task of a higher priority. Tasks of equal
priority interleave freely, which covers time slicing. Pieces, frames and answers
are numbered; `buf`, `http_info`, `ring_info` say what a pointer leads to *now*,
the queue items what it was sent for, and 0 is freed memory or a left stack
frame. `text` and `config.text` have two halves, the least that can be torn.
The 5 s receive timeouts, which only print, are left out, and a send to a full
queue is taken to fail; `NothingLost` shows that no queue is ever full on a send.

`HandOver` is the pipeline without tasks, queues and pointers: read a piece, hear
it, describe and show its frames one by one, each call returning before anything
else happens. The mapping is the identity on the four counts. `QuietMeansTaken`
says the same of the answers, safety only: when `asr_baidu_main` is at rest and
nothing is pending, what it holds is the last answer, whole.

### PullBuffer

`pc` follows `pull_buffer`: the loop on OPERATION_MODE, the head, the two loops
(one variable serves both: `MaxSize` and `AudioEnds` depend on `total_bytes` as
the loops do), `dump_audio_data` inside them, padding, the response. The chip
records on its own (`Record`), may stop (`StopStreaming`), and every register read
may be a timed out 0; an SPI read may time out after any number of bytes, in which
case those bytes are gone from the chip. The link may be missing or drop at any
time. Audio bytes are numbered, 0 is a zero byte, so that a gap or old audio is
visible in `buf`.

`Utterance` is the same promise without registers, buffer, retries and the two
loops: an announced length, gapless audio from some byte on, then only filler; the
connection carries a prefix of it; the request is brought to an end when less
than a piece is missing. `Promised` maps `PullBuffer` to it: a request is open
from the head to the response, `filling` is the place behind the loops, `hand` is
the piece in `buf`.

### D4Control

`dbmd_task` from `init_finish_sema` to the service loop, one action per step that
another actor can see: the interrupt's semaphore, the interrupt enable, the
chip's mode. An edge while the interrupt is off is lost. Registers that the task
only prints are not there; every read may be 0. `pull_buffer` is one step.
`stuck` marks a detection the code overlooks: its edge came before the interrupt
was on, or its word was 0 or above 98. The code has no way back from that
(hazards at `dbmd_init.c:258` and `:308`); the liveness property is about the
others.

### SpiDevice

Three actors: the task in one of the two functions, `ssi_interrupt`, and the bus.
The task's steps are the reads and writes of what it shares with the handler, so
that `ssi_int_write`'s two assignments are two steps (`CallWrite` or `ReadStarts`,
then `SetTxData`). The handler is one step for its RX part and one for its TX part,
between which the bus may go on; a task never runs while an interrupt is pending
or being handled (`TaskRuns`). The bus takes a byte from the TX FIFO (`LoadShift`)
and brings one in (`ShiftDone`), at any pace, so that interrupts may come
arbitrarily late and bytes be lost by overflow. Bytes that come in carry the
number of the dummy byte they came for, or `Junk`. `TxData` and `RxData` are kept as
"in the buffer of this call" or not.

`D4Control` and `PullBuffer` rest on this module for two things: a register that
could not be read reads 0 and never a part of its digits (`ShortReadsWhole`, with
`SuccessIsReply`), and SPI calls come back (`CallReturns`).

A firmware piece is longer than the TX threshold: when `device_write_spi` sees
TrDone, up to a FIFO of its bytes is still to be shifted, and the TX interrupt is
still enabled. A call made then could meet that interrupt between the two
assignments of `ssi_int_write`; without any timing `SentIsGiven` and
`SuccessIsReply` fail on such a write. `PacedSpec` is `Spec` with `PieceLeft`: the
call after a piece comes when the piece has left the bus. Nothing in the code
waits for that; time is what provides it. At 3 MHz (`dbmd_init.c:45`) a FIFO of 64
takes 0.2 ms. The task looks at TrDone every 5 ms of busy waiting, and pieces of
4096, 2340, 2540 and 2934 bytes take 10.9, 6.2, 6.8 and 7.8 ms, so the turn that
sees TrDone comes well after the last byte unless a task of higher priority shifts
it there. Between two pieces the program also reads 4096 bytes from flash. The
places without that are the calls after a last piece: `read_checksum`
(`Dbmd_LoadFile.c:108`) and `Run_D4` in `Load_A_Model`. For a program of commands
only, `PieceLeft` holds of itself (`CommandsArePaced`).

### WifiJoin

One step per statement of `wifi_connect` that touches what handlers or another
call share, in the code's order: the mark, `join_result` and its semaphore with
the handlers, the driver, the pointer `join_user_data`, the wait; and then the
ending, whose order (semaphore, pointer, memory, handlers, mark) is what the
properties are about. The failures that leave the function early are steps of
their own: `BeginRefused` after the mark is set, and the arm of `Begin` without
memory for the password or the semaphore. `join_user_data` is the caller whose
`join_result` it leads to, `results` the ones that are allocated. The driver's
events come at any time its `link` allows: the network is not found, association,
handshake, loss of the link, and the disconnect event of a link that was left,
which may come late (`leaving`). `LwIP_DHCP` follows a success: stopped, an
address, or tries used up; `ready`, `dhcp` and `ip` are what the handlers do to its
branches, and no property but the types is about them (section 6). `refused` is
history: it records that a call has returned with JOIN_CONNECTING set, which no later
call survives.

The ending deletes the semaphore through the local `join_semaphore` (line 603) and
only then sets `join_user_data` to NULL (605); `join_sema` in `join_result` keeps the
old handle. An event between the two makes a handler give a deleted semaphore
(lines 276, 285 and 336). The model reaches this in seven steps: a call that times
out, `FreeSema`, `LinkLost`. It is a defect of the code and no run is about it, since
no line of the repository states what it would refute. `JoinDataAlive` says the two
things that do hold: the `join_result` itself is always allocated, and `SemaGone` (the
pointer leads to a deleted semaphore) is confined to the call's place between those
two lines, whatever a second call does.

## 3. Runs

| Run | Result | Shows | Bounds, and why they are enough |
|---|---|---|---|
| `mp3_ring` | passes | ring invariants, alignment, return, refinement | ring 9, header 2, pieces up to 4, frames 4 and 5: the largest that fit, not dividing the ring, so frames wrap behind, inside and right after the header; 22 bytes, more than two rounds |
| `mp3_short_head` | `HeaderComplete` violated | a header read before it arrived | as above, first piece from 1 byte |
| `tts_pipeline` | passes | pointer lifetimes, order, nothing lost, no answer forgotten, latest taken, refinement of `HandOver` | 3 answers (one spoken, one waiting, one arriving), 4 pieces, up to 2 frames each |
| `pull_buffer` | passes | body, gaps, requests to the chip, termination, refinement of `Utterance` | body 10 in pieces of 4 with a tail of 2 for the second loop, samples of 2, 2 tries, 16 bytes recorded: one request and the start of the next |
| `pull_tail` | `BodyComplete` violated | a body left short | as above |
| `pull_zeros` | `PaddingIsZero` violated | padding is old audio | as above |
| `d4_control` | passes | wake-ups, boot, service | the code's 5 tries; 4 detections: before the interrupt, during service, during the delay |
| `d4_checksum` | `RunsVerifiedFirmware` violated | a failed comparison accepted | as above |
| `spi_device` | passes | replies, commands, return of every call, recovery after a timeout, all under `PieceLeft` | FIFOs of 5 with TX threshold 3; commands of 1 and 3, not above the threshold, as on the board, and a write of 7, longer than the FIFO, like a firmware piece; reads of 3, which fit in the FIFO like a register, and 7 and 12, which need several interrupts and can lose bytes; any number of calls |
| `spi_astray` | `NothingAstray` violated | bytes stored through a dead pointer | as above |
| `wifi_join` | passes | `join_result` behind the handlers and where its semaphore may be gone, nothing left over, return of every call | two callers, all kinds of key, 3 calls: one that is given up, one that overlaps it, one after both |
| `wifi_stuck` | `EveryCallReturns` violated | a refused call blocks the next for ever | as above |

All runs say CHECK_DEADLOCK FALSE: the bounds end every behaviour, the program
waits for a user, and `dbmd_task` may delete itself.

The six violation runs show disagreements of the code with its own comments and
messages: `mp3parse.c:438` (the header needs more than 4 bytes, not tested),
`UserCase_Common.c:615` ("full in zero": not done in the second loop, and not with
zeros in the first), `Dbmd_LoadFile.c:332` ("checksum error", accepted if the
comparison is positive), and `spi_api.c:827` (what comes in during a write is to be
dropped, and is stored after a read that timed out); `wifi_conf.c:459` (returns
with JOIN_CONNECTING set; the next call waits for it to be cleared). PROJECT.json describes each under `findings`.

Every property of a passing run has a mutant of the code under PROJECT.json
`mutants` (a disabled alternative next to the code where there is one) that
violates it.

## 4. Fairness

* `Mp3Ring`: the steps of a call go on (`tts_recv_task` is never starved: only
  `mp3_parse_recv`, `init_thread` and the network threads are above it, and they
  block).
* `TtsPipeline`: each task takes a step if the scheduler lets it for ever; wifi
  comes up; a request for speech gets some answer, if only an error. There is no
  fairness on new answers or on more pieces.
* `PullBuffer`, `D4Control`: the task goes on, that is, SPI and HTTP calls come
  back. For SPI that is `CallReturns` of `SpiDevice`; for HTTP it is assumed. The
  chip, the user and the network are not fair, except that `init_thread` finishes.
* `SpiDevice`: the bus shifts, a pending interrupt is taken in the end, and the
  task in a call polls. No fairness on new calls: `RxRecovers` says itself that it
  is about a program that goes on writing commands.
* `WifiJoin`: a caller in a call goes on; every wait of the code but the one at
  `wifi_conf.c:439` has a limit, and that one is in question. Nothing is asked of
  the driver, the network or the user: an event may be lost, late or repeated.

## 5. Proofs

All for every value of the constants, under the ASSUME of the module.

* `Mp3Header_proofs`: `SizesAlwaysFrames`, `NeverOverflows`, `SpeechAlwaysFits`,
  `OnlySpeechFits`. Bounds on the rows of the tables, and from those on the
  quotient, are enough; no header is evaluated. The frames of speech have the size
  576000 k divided by the sampling rate, which decides whether they need padding.
* `Mp3Ring_proofs`: `TypeCorrect`, `NoUnreadOverwrittenAlways`,
  `ReserveIsUnreadAlways`, `NoFrameLeftBehindAlways`, `FramesAlwaysAligned`,
  `RingImplementsFrameStream`, all but the first under `FramesFit` and `HeadsArriveWhole`;
  `HeaderThenComplete` under the second alone; `BoardRingWorks` with the board's
  sizes and the header tables in place of the first. The invariant adds to
  the types `RoomInv` (what waits is at most a piece plus less than a frame, and
  the cursors differ by it, wrapped) and `LoopInv` (what is known at each place of
  the loop: after a return less than a frame waits). The first is what makes a
  new piece fit; the second is what re-establishes it. Refinement then is a
  matter of the descriptor: three cases of where a frame wraps, each byte of
  `BytesOf` compared with `NextPayload`. For the alignment a second invariant,
  `Aligned`, on top: while responses are complete and of one size, `start_len` and
  the first byte of this response are whole frames from the first byte of all, and
  the multiples of the size among the bytes waiting are the server's frame starts.
* `PullBuffer_proofs`: `TypeCorrect`, `BodyAccountedAlways`,
  `AudioGaplessAlways`, `ReadsOnlyRecordedAlways`, `WholeSamplesAlways`,
  `ImplementsPromise`. The invariant ties
  `total_bytes`, the piece in hand and `body` to `Fifo`, and the numbers in `buf`
  to `audio` and `fetched`. One lemma per group of actions: the chip and the
  network, the framework of `pull_buffer`, `dump_audio_data`, sending.
  `WholeSamplesAlways` rests on `SamplesAssumption` (body and piece are a whole
  number of samples: 160000, 2048 and 16 in the code). For the refinement the
  invariant gains `Counted`: what was passed on and what is in hand is no more
  than announced; each action then is a step of `Utterance` or a stutter. The
  theorem is about its safety part `Promise`; its fairness is checked by TLC.
* `D4Control_proofs`: `TypeCorrect`, `IrqFindsSemaAlways`,
  `WakeNotForgottenAlways`, `OneWakeAlways`, `RearmsAlways`. The invariant orders the boot (no
  semaphore and no interrupt before their steps) and says that a wake-up or a
  pass in progress means a chip in BUFFERING mode, from which no second edge can
  come.

* `TtsPipeline_proofs`: `TypeCorrect`, `PieceAlwaysAlive`, `FrameAlwaysAlive`,
  `NothingEverLost`, `TornTextAlwaysTakenAgain`, `PiecesInOrder`, `QuietAlwaysTaken`,
  `ActsAsCalls`. What makes the
  pointers safe is the scheduler alone, so the invariant says where the lower task
  stands while the higher one has its pointer: `PieceInFlight` (`asr_baidu_main`
  is right behind its send until `tts_recv_task` is blocked again on an empty
  queue) and `FrameInFlight`, the same one floor up. Two lemmas draw on `MayRun`:
  when a task runs, the ones above it are blocked, and where. `TextInFlight` and
  `WakeUps` carry the argument about torn texts: while `text` changes a wake-up is
  on its way. `FrameInFlight` also counts: no more frames than the pieces heard
  complete, which bounds what `TypeOK` says of them. For `ActsAsCalls` the
  invariant gains `FrameOnItsWay` (a frame described and not yet shown is in the
  queue or in the reader's hand, and it is the last), and four steps map to the
  four of `HandOver`, all others to a stutter. `CopyIsPosted` follows an answer
  through the copy by halves: what has been copied since the last wake-up is of the
  last answer posted.
* `SpiDevice_proofs`: `TypeCorrect`, `SuccessAlwaysReply`, `SentAlwaysGiven`,
  `ShortReadsAlwaysWhole`, of `PacedSpec`, for any FIFO, threshold and lengths, and
  `CommandsArePaced`: `Spec` implies `PacedSpec` if no write is longer than the TX
  threshold (`CommandsFit`). The invariant says that outside of transfers nothing
  moves but the end of a firmware piece, and that nothing of what comes in for it is
  stored for a call; that a write has given what it has not left to push; and,
  of a read, counts: what is stored and in the RX FIFO is no more than
  the bytes that came in (`CameIn`), and if it is as many, then each is in its
  place. A read is reported when as many were stored as were pushed at all, so
  nothing can have been lost. No induction over the bytes is needed.
  `NoneMissing`, on top, says that of a read that fits in the FIFO nothing is lost
  on the way, so that time runs out on one only when it was refused.
* `WifiJoin_proofs`: `TypeCorrect`, `DataAlwaysAlive`, `IdleAlwaysClean`, for any set
  of callers. The invariant: `join_user_data` leads to a call between its
  assignment and its unsetting, such a call has its semaphore until it deletes it
  (`SemaInUse`: one torn down for want of a semaphore is never pointed at), handlers belong to some call in progress, and a
  mark without a call is a refused one. About the other side of `wifi_stuck`:
  `RefusedAloneSticks`, `StuckForGood` and `WaitsForGood`. A refused call with no
  other under way ends in `Stuck` (mark set, nobody past it or about to be); without
  handlers no event touches the mark, so `Stuck` is for good; and whoever waits in
  it waits forever. They need no fairness: they say that no fairness would help.

Model-checked only: liveness (`CallReturns`, `PullReturns`, `DetectionServed`,
`BootEnds`, `LatestAnswerTaken`, `RxRecovers`, and the fairness of
`ImplementsUtterance`; out of the prover's reach). Of `LatestAnswerTaken` the safety
part is proved (`QuietAlwaysTaken`), and of `WifiJoin` why a refused call must be
excepted (`RefusedAloneSticks` and the two after it). Every safety invariant, action property and refinement of a passing run is
stated by a theorem.

## 6. What is assumed, and what is left out

* A piece of a response has at most 1024 bytes, a header four, and the server's
  frames within a response have one size. A padding slot, which real MP3 streams
  use and `GetRateBit` computes but does not add, is not modelled; `Mp3Header` says
  which streams need none. Nothing in the repository fixes the bit rate the
  service answers with.
* A damaged firmware does nothing; VT_ENGINE_WORDID keeps its value until the next
  detection; the chip raises its line once per detection and while firmware is
  loaded (the comment at `dbmd_init.c:81-84` says so).
* Contents of requests and responses: JSON, URL encoding, header fields, the
  token. The words spoken, the values of parameters written to the chip.
* SPI: the routines that fill and empty the FIFOs are in the chip's ROM; they are
  taken to move as many bytes as fit or are there. The RX interrupt comes with the
  first byte; the TX threshold is not below the longest register command (8
  bytes). A firmware piece is longer, and the call after it is taken to come when it
  has left the bus (`PieceLeft`, section 2; hazard at `spi_api.c:227`). A read is
  given up after 1000 turns of 5 ms, when the bus has long been quiet: 2048 bytes
  take about 6 ms. Every read of the program follows a command.
* The chip's own audio buffer can overflow while HTTP is slow
  (`UserCase_Common.c:511`); `PullBuffer` numbers audio as the chip keeps it.
* Joining: the driver is a binary library. Its tasks, which call the handlers, are
  taken not to be preempted by the callers, so that looking a handler up and
  calling it is one step. A handler that gives the deleted semaphore between lines 603
  and 605 writes to freed memory; in the model that changes nothing, which stands for
  memory that nobody has taken again, and what it does to whoever took it is not
  modelled. A DHCP round ends with an address, with its tries used up, or stopped.
  `wifi_connect_bssid` (which frees before it unsets the pointer, the order mutant
  `UnsetAfterFree` tries), simple configuration, AirKiss, access point mode,
  scanning, the contents of credentials and the JOIN_SIMPLE_CONFIG bits are left
  out.
* Between the two statements at `lwip_netconf.c:260-262` the link may be lost:
  `error_flag` then says ready without a link. The model has the two steps; no
  property speaks of it, because the code does reach it and nothing in the
  repository claims otherwise.
* Memory: a failed malloc is modelled where the code tests it; stack sizes and
  the heap are not.

## 7. Not modelled

* Token fetch (`baidutoken.c`): runs once, before anything else, and its result is
  ignored; the pipeline goes on with or without a token. What could go wrong is in
  the search for strings in a piece of JSON (a token cut by the end of a piece), and
  there what the code does depends on how the ROM's `snprintf` treats a negative
  size, which is not in the source.
* The missing result at `asrmain.c:339`: `size` is then uninitialised, and an
  arbitrary number of bytes is appended. A model would only say that anything may
  happen.
* Button timer: counts and acts on nothing. TCP information server: its call is
  commented out. Flash lock: taken by one task only in this program. libcurl
  demonstration: not in the build.
* The SDK beyond what the modules above use of it: vendored, partly binary. Most of
  the repository's lines are there, or are sample media in its examples, and no
  code of this program runs them.

## 8. What could come next

1. An abstract register access that `SpiDevice` implements, and the register
   functions of `Dbmd_rtl_Device.c` on top of it.
2. Composition: `PullBuffer` as the refinement of `D4Control`'s `Pull`;
   `HandOver` with the ring instead of a count of frames.
3. `wifi_connect_bssid` beside `wifi_connect`.
