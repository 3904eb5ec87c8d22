# Fr8000x rotary knob: TLA+ models, model checking and proofs

The repository is the SDK of the FR8000x Bluetooth SoC with an LVGL port; the
program this verification is about is its rotary knob,
`examples/evm/gui_demo_rotary_knob`, with the SDK components whose control is
delicate: the input path, the pages, the frame path to the panel, the firmware
update service, the button module and the link between the two cores. File names below are relative to the knob's
`code/` directory unless they start with `components/`.

- Sections 1 and 2: the system and its hazards.
- Section 3: the modules and how they correspond to the code.
- Section 4: the runs, their bounds, fairness.
- Section 5: the proofs. Section 6: disagreements found.
- Section 7: what is not modelled. Section 8: the plan.

To repeat a run: `tlc -config X.cfg M` (`PROJECT.json` names module and
configuration of each run); to repeat the proofs: `tlapm M_proofs.tla`.

## 1. The system

### Threads of control

There is no RTOS. `main_loop` (`proj_main.c:121`) calls the library's
`ble_stack_schedule`, which runs one callback at a time: timer callbacks
(`os_timer_*`), task functions for posted messages (`os_msg_post`), GATT
callbacks. LVGL runs inside such a timer callback (`lv_schedule_timer`, 10 ms).
So callbacks exclude each other, and what interleaves with them is

- the GPIO interrupt of the encoder line (`exti_isr` → `ec11_exti_handle`),
- the DMA interrupt of the panel (`st7789v_dma_isr`) and the channel itself,
- the PMU interrupt of the wake-up pins (`pmu_isr`),
- the UART interrupt of the AT commands (`uart0_isr`),
- on a chip with both cores in use, the UART and request-line interrupts of `ipc.c`,
  with the other core running at its own pace,
- and outside: the user, the BLE client, the power supply.

The scheduler, timers, message queue and the BLE stack are a closed library.
`components/modules/os/include/os_msg_q.h` says that a message is copied when it
is posted.

### Components

| component | state | operations | hard because | must hold |
|---|---|---|---|---|
| push-button driver (`key_driver.c`) | per key: debounce state and count, click state and count; one event ring | `key_scanf`, `read_key_fifo` every 10 ms | two machines per key side by side; the ring is never checked for full; two time windows race | each press is reported once; the ring never fills; double clicks are told from clicks |
| encoder, timers (`input_driver.c`) | lock, interrupt mask, mailbox `g_key_code` | `ec11_exti_handle` (interrupt), `check_handle_cb` (80 ms), `encoder_handle_cb` (10 ms) | the interrupt masks itself and a timer unmasks it | never deaf for ever; one detent per tick |
| keypad device (`gui_main.c:keypad_read`) | copy of the mailbox | called by LVGL | the mailbox is read, used and cleared in three steps | an input counts once; nothing stays in the mailbox |
| LVGL keypad processing (`lv_indev.c`) | last state, long-press flag, focus | `indev_keypad_proc` | returns early without focus; key repeat | no repeat, no long press as a key |
| display flush (`gui_main.c:my_disp_flush`) | `last_disp` | `my_disp_flush`, `my_disp_flush_done` | the interrupt runs anywhere inside it | no torn or lost frame; the right driver is told |
| panel driver (`driver_st7789v.c`) | transfer flag, callback, DMA chain | `set_window`, `display`, `wait_transfer_done`, `dma_isr` | commands and pixels share one SPI; busy waits | no command during a transfer; every transfer ends |
| OTA (`components/ble/profiles/ble_ota`) | session, reassembly (16-bit index and count, buffer), address check, timer; flash | `app_otas_recv_data`, timer, link events | links are lost, writes repeated, power fails, writes come split and are cut off | only a whole image is announced; nothing is written outside it; an update can always be finished (the last two fail: section 6) |
| button module (`components/modules/button/button.c`) | ten-state machine, three timers | pin interrupt, `BUTTON_TOGGLE` task, timers | bouncing, timers against messages, combinations of buttons | no dead end; long presses pair up; the level is never lost |
| pages (`user_app/`) | page, one static value per page, widgets, focus group | LEFT, RIGHT, ENTER, long press, page timer | a timer changes page and picture between any two keys; values outlive pages, widgets do not; signed bytes | every value in its range; what is shown is what is kept; the page without focus is left |
| IPC (`components/modules/ipc/ipc.c`) and the UART driver under it | per core: one list for messages and answers, sending flag, request line, the peer's line as last seen | `ipc_send_msg`, request-line, transmit and receive interrupts | both cores send at once; answers queue behind messages; a frame is "sent" before it has arrived; lines are sampled | messages arrive whole, once and in order; nobody waits for ever |
| AT commands (`app_at.c`) | receive state and buffer | UART interrupt, task | one buffer, byte-wise machine | not modelled (section 7) |

### Who talks to whom

```
pins ─EXTI irq─> input_driver ─┐                         ┌─> pages (LV_EVENT_KEY)
pins ─10 ms──> key_driver ─────┴─> g_key_code ─keypad_read─> LVGL ──┤
                                                         └─> my_disp_flush ─> st7789v ─DMA─> panel
                                                                  ^── dma irq: my_disp_flush_done ──┘
pins ─PMU irq─> button.c ─BUTTON_TOGGLE─> button task ─USER_EVT_BUTTON─> user_task
BLE client ─GATT write─> ota_service.c ─> ota.c ─> flash ─(reset)─> boot code
UART irq ─> app_at.c ─USER_EVT_AT_COMMAND─> user_task
ipc_send_msg ─> ipc.c ─UART, request line─> ipc.c of the other core ─> its callback
```

## 2. Hazards

`PROJECT.json` lists every hazard at its line with the properties that watch it.
In short:

- **Input**: encoder edges while the line is masked; an interrupt between the copy
  and the clearing of `g_key_code`; a lock opened without unmasking; the event ring
  that turns from full to empty; a click window shorter than the debounce time;
  stale LVGL state after a page without focus.
- **Frames**: the transfer-complete interrupt anywhere in `my_disp_flush`; LVGL
  drawing into the buffer being sent; the early return of `st7789v_display`; the
  off-by-one of a frame that fills its last DMA block; a busy wait on a flag that
  only the interrupt sets.
- **Update**: the reassembly state outlives its session, and its 16-bit count of missing
  bytes meets 0 only by luck then; the index runs past the buffer; the buffer is freed while
  the flag that uses it stays up, and a new one has no header; repeated writes; power loss
  between or within erase and write; a client gone silent.
- **Buttons**: the anti-shake comparison drops a level; ten handlers start and stop
  two timers by hand; the release of a long press has to be sent from each of four
  states; click counts carried along by the wrong message.
- **Pages**: the page timer between any two keys; a value kept over a page whose widgets
  are made anew; dials turned in a signed byte before they are compared; the work page,
  which no key can leave.
- **IPC**: answers in the same list as messages that wait for answers; a request line that
  is released and pulled again between two looks; a preamble dropped because the UART is
  still busy; the head of the list read without looking whether there is one.

## 3. The modules

```
KeyDriver <──EXTENDS── KnobInput            KnobPages

DisplayFlush ──implements──> FrameDisplay   Ipc ──implements──> IpcLink

Ota                                         Button
```

`KnobInput` is the composition of the button driver with the encoder, the mailbox
and LVGL; it is shown to implement `KeyDriver`'s specification. `FrameDisplay` and
`IpcLink` are abstract: what the display path promises the GUI and what the link
promises its users. `M_proofs` holds the proofs about `M`; `IpcProgress_proofs` continues
`Ipc_proofs` with what makes the link go on.

### KeyDriver — `key_driver.c`

One action, `KeyScan`: what one 10 ms callback does with the four keys and the
ring. `CheckState/CheckDownCnt/CheckEvent` are `key_check`, `MakeState/
MakeClickCnt/MakePut` are `key_read_state`, `put_buttons_fifo` and
`FifoFront/FifoRest` are the ring. The ring is kept as the sequence of its unread
entries; filling it up empties it, as `rear == front` means empty in the code. The
levels of the wired pins are free at each scan; keys without a pin read 1.
`owed` is a history variable: presses accepted and not yet reported.

### KnobInput — `input_driver.c`, `gui_main.c`, `lv_indev.c`

| action | code |
|---|---|
| `EncoderEdge` | an edge sets the EXTI status bit, masked or not |
| `ec11_exti_handle` | interrupt: code into the mailbox, mask, lock |
| `check_handle_cb` | 80 ms timer: unlock, unmask |
| `encoder_handle_cb` | 10 ms timer: `KeyScan` and the switch on its event |
| `ReadMailbox`, then `FinishKeyRead`, `FinishLongPress` or `FinishIdleRead` | `keypad_read` in two halves, then `indev_keypad_proc` |
| `PageTimer` | `test_page_switch_func`, as far as it gives the focus to a page |

Only the encoder interrupt can run between the halves of `keypad_read`; the timer
callbacks have `~reading` in their guards because they share its thread. Elapsed
time in LVGL (long press, key repeat) is left open: either branch may be taken. Of
the pages the model keeps whether something is focused; ENTER may lead to the work
page, which adds nothing to the group.

### DisplayFlush — `gui_main.c`, `driver_st7789v.c`, LVGL's refresh

`gui_pc` walks the GUI task through rendering (word by word), `draw_buf_flush`,
the five steps of `my_disp_flush` and the buffer swap; `DmaMoveLink` moves one
descriptor of the chain (`Link(i)` is the i-th descriptor `st7789v_display` builds)
and `DmaIsr` is the interrupt with `my_disp_flush_done`. A word of a buffer or of
the panel is the number of the frame it was drawn for, so a torn frame is a panel
with two numbers. When `lv_disp_flush_ready` gets NULL, the store either faults
(`"fault"`) or goes astray and leaves `flushing` set; both are kept.

`EveryFrameInTurn` is the refinement of `FrameDisplay`: a frame is begun when LVGL draws its
first word, given when `my_disp_flush` has started the transfer, and changes the panel until
the interrupt of the last descriptor; while it does, the panel of `FrameDisplay` keeps the
frame before, and afterwards it is the one the words of `DisplayFlush` make up. A frame left
out, repeated, torn, or shown after a later one is no behaviour of it.

### Ota — `ota.c`, `ota_service.c`

The service's commands on the update path, the reassembly of split writes, the
session timer, link events, the two-step write of the information block, power loss
at any point (a page being erased or a chunk being written may end up `torn`), and a
client that keeps to the protocol but repeats late-answered writes, reboots early and
starts again after silence. Flash only clears bits: writing other data over data is
`torn`. `Arrived`, `ota_init`, `ota_deinit` and `ota_stop` are the code's; what they
do not reset (the reassembly state, `ota_addr_check_len`) stays.

Every packet has its length in bytes (`Length` for the commands; a payload packet has any from
1 to what is left). While `ota_recving_data` is set, `Collect` is what `app_otas_recv_data` does with
any packet: it is stored at `ota_recving_data_index`, index and `ota_recving_expected_length` are
changed modulo `WRAP`, and the action depends on what is missing then:

| action | code |
|---|---|
| `RecvPayload` | something is missing: return |
| `RecvLastPayload` | nothing is missing and the header's address, in the image, passes the check: written |
| `RecvLastPayloadBelow` | the same with an address below the storage |
| `RecvLastPayloadElsewhere` | the address does not pass: `ota_stop` |
| `RecvPastBuffer` | the packet does not fit the buffer and the store stops the program; the other outcome, a store nobody notices, is one of the four above |

`header` is the address in the buffer's header, `UNWRITTEN` when the buffer was allocated in the
middle of a write or a wrapped index let a packet fall on the header. An unwritten header reads as
every address, 0 included, with every length. `mixed` is a history variable: the bytes put
together are not one write. Of the flash below the storage (the running image and the information
block) the model keeps that it was written (`lowWritten`) and that the information block may
be torn by it.

### Button — `components/modules/button/button.c`

One operator per row of the table `button_statemachines`, with the code's name; the
events a state has no branch for are `Ignored`. `PinsChange` and
`button_toggle_detected` are the pins and `pmu_isr`'s call; pins may bounce between
any two steps. Starting and stopping `button_state_timer` is `Timed`/`Untimed`; an
expiry comes at any time while the timer runs. A button word is the set of buttons
down (the callback's `^=` already applied). `sent` is what the last step sent to the
user task, `longs` counts long presses sent and not yet released.
`button_int_isr`, an alternative entry that nothing calls, is left out.

### KnobPages — `user_app/user_knob_*.c`

One function, `stored`, for the static variables of the pages (`curr_img_id`, `set_temp`,
`set_power_sta`, `set_water_level`, `work_time`, `led_color`, `curr_set_item`), the page on the
screen, what its widgets show, the label of the home page and the pages with an object in
`g_group`. `Turn` is the LEFT or RIGHT branch of every page's callback (`Turned` says what it
makes of the value), `Enter` the ENTER branches, `ReturnHome` `knob_return_home_page`, and
`test_page_switch_func` the page timer. `Open` is leaving one page and entering another, with
everything the entry function sets; all of these run in one task, each to its end. A widget
is the value it shows, or nothing. Each page timer runs once and its callback creates the
next, so exactly one exists at any time.

### Ipc and IpcLink — `components/modules/ipc/ipc.c`, `components/driver/driver_uart_ex.c`

`core[s]` is what `ipc.c` keeps on core `s`, with the frame its UART driver is feeding; the
helpers (`send_next_frame`, `ipc_recv_request`, `uart_tx_callback`, `uart_transmit_IT`) are
functions of that record and carry the code's names. The actions are

| action | code |
|---|---|
| `SendMsg`, `SendMsgStart` | `ipc_send_msg`: the entry is appended, then sending is started; interrupts come in between |
| `PinInterrupt` | the request line of the peer changed: `ipc_recv_request` |
| `TxInterrupt` | the last byte of a frame is in the FIFO: `uart_tx_callback` |
| `RxReady`, `RxPreamble`, `RxPayload` | a frame has arrived: the branches of `uart_rx_callback` |

`wire[s]` holds the frames that have left core `s`'s driver and have not arrived: a frame is
complete for its sender before its receiver has seen it. With `PulseMissed = FALSE` the peer's
pin interrupt runs before the line changes again; with `TRUE` it may come later and find the
line as it was. `AtRest(s)` says that nothing of core `s` is under way, no call, frame, interrupt
or answer; `NeverStuck` that both cores are at rest only with empty lists. `IpcLink` is the
abstract link: messages handed over are received whole, once
each, in order. The refinement maps `posted` and `got` to themselves.

### Conventions

A definition named `Mut...`, marked `\* mutant`, is a broken version of the
definition after it, used to show that the property it is listed with can fail; no
specification uses it.

## 4. What the runs show

| run | instance | states | shows |
|---|---|---|---|
| `key_driver` | 3 wired keys, LONG_TIME 3 | 67116 | every accepted press becomes one event, a click is settled before the next press, the ring's backlog stays below the number of keys |
| `key_driver_double` | real constants | – | finding: double clicks are never reported |
| `knob_input` | the board's one key, LONG_TIME 3 | 17356 | the encoder is always re-armed, one detent per tick, one key event per input, the mailbox is drained |
| `knob_pages` | all pages, steps of 25, 3 bits of colour | 518000 | values stay in range, the screen shows what is kept, the work page is left |
| `display_flush` | 4 words, 2 descriptors, 6 frames | 286 | `FrameDisplay` is implemented; no torn frame, no command during a transfer, every frame shown unless the flush-ready race is lost |
| `display_flush_ready` | 2 frames | – | finding: `lv_disp_flush_ready(NULL)` |
| `ota` | 3 chunks of 4 bytes, 2 pages, split anywhere, buffer of 16 bytes, counters of 6 bits, 3 faults | 40411 | only a whole image is announced, cut-off reassemblies never reach the image, payload always has a buffer, sessions are timed, only cut-off writes do harm, and without such harm the update gets through |
| `ota_cut` | the same | – | finding: the reassembly of a split write outlives its session and may swallow, or stop, every later update |
| `button` | 2 buttons, 2 messages on the way, counter of 3 | 78498 | no dead end, both timers run exactly where they are waited for, long presses pair up, combinations are several buttons, the last level is never dropped, released buttons bring the machine to rest |
| `button_count` | 2 buttons, counter of 256 | – | finding: the click count leaves with the wrong message |
| `ipc` | 2 messages each way | 15241 | `IpcLink` is implemented, an answer always finds its message, the sending flag is set whenever the UART is fed, the cores never wait for each other while every line change is seen, every message arrives |
| `ipc_pulse` | 2 messages each way, missed pulses | – | finding: both cores wait for ever |

### Bounds, and why they are enough

- `LONG_TIME` 3 instead of 50 scans: the machine compares the count with the threshold
  only, and three scans leave room for a release before, at and after it. `SHORT_TIME`
  is the code's 2, `KEY_FIFO_NUM` its 10.
- Three wired keys: with three, events can meet in the ring; the board has one. The fourth
  stays unwired, as a key that reads 1.
- Four words in blocks of two: the frame ends exactly at a block's end, the case an
  off-by-one in `all_set` would miss, and the chain has a middle and a last descriptor.
  Six frames use each buffer three times. The state is small because every interleaving
  that matters is between few steps; the proofs cover all sizes.
- Three chunks on pages of two: a full page and a partial one, with a write after an
  erase and a write after a write. Three faults let a second fault hit the recovery
  from the first and a third the session after.
- Chunks of 4 bytes with headers of 9 in a buffer of 16: a write has 13 bytes, so that a stale
  command of 3 or 7 bytes may fit, pass the end, or step over 0 and wrap; what a lost link leaves
  (1 to 4 bytes) is below, at and above the 3 bytes of the next session's first command. `WRAP` 64
  for 2^16 is a power of two beyond buffer and header; three times round it, the most a reassembly
  can take to meet 0, stays checkable. `BASE` 4 and `LOW` 1 keep the storage (0x82000 in this
  program, `proj_main.c:65`) above twice any length a header can hold (16 bits). The proofs are
  for all values related so.
- Two buttons give every kind of word (none, single, several) and every change between them;
  a combination that changes to another one needs three and is covered by the proofs, which
  hold for any set of buttons. `CNT_RANGE` 3 makes the counter wrap. `MaxToggles` bounds the
  messages on the way; two already put a stale word before the newest one.
- `KnobPages` takes every key in every state, so only the values are bounded: `DIAL_STEP` 25
  for the code's 5 keeps both wraps (past 99, below 0) and the start value 0 keeps the steps
  from 0 as well as from 100; the colour has 8 values instead of 2^16 with a step that divides
  neither. The proofs are for every step up to 27, the largest for which 100 plus a step
  fits the byte, and so for the code's 5, 10, 2^16, 0xfff0, 100 and 0x00f8.
- Two messages each way: one can wait while the other is under way, on both cores at once,
  which is what puts an answer between messages. With three each way and missed pulses the
  safety properties of `ipc` hold as well (110687 states); the proofs cover every number.

### Fairness

- `KnobInput`: the periodic timers run again and again (they are started once, periodic,
  never stopped), also when other callbacks of the same thread keep coming first: strong
  fairness of `check_handle_cb` and of LVGL's read. A pending unmasked interrupt is taken
  and a callback that has begun ends: weak fairness. No fairness for the user.
- `DisplayFlush`: the GUI task goes on once a refresh began, the channel moves and its
  interrupt is taken. Nothing makes LVGL begin a frame.
- `Ota`: what arrives is handled and the client keeps trying; faults are never forced, and
  only finitely many happen. A store past the buffer may stop the program as often as it
  happens, also after the last fault.
- `KnobPages`: LVGL serves the page timer. Keys are never forced.
- `Ipc`: a call that began ends and interrupts are taken: weak fairness of each. An answer
  that arrives exactly while the core's own answer is being fed makes a preamble that
  `uart_transmit_IT` drops; the line has been released by then and the message is asked for
  again, and the same can happen then. Feeding takes one interrupt, an answer is five bytes
  on the line, so it does not happen at every attempt: strong fairness of `RxReadyIdle`, an
  answer that arrives while nothing is fed. Without it the two cores may keep step for ever.
- `Button`: interrupt, timers and messages are served; buttons are never forced to change,
  the liveness property assumes that they stay released in the end.

Deadlock is checked except where a system may stop: `DisplayFlush` after its last frame
or a fault, `Ota` after the reset with a new image.

### Assumptions about what is outside `src/`

- Callbacks of the scheduler exclude each other; a stopped timer does not fire; starting a
  running timer restarts it; messages are copied and delivered in order.
- The EXTI status bit records edges also while masked (if the hardware forgets them, those
  behaviours are among the model's).
- `PMU_GPIO_XOR_INT_STATUS` stays set while the pins differ from the value written back to
  `PMU_REG_PORTA_LAST_STATUS`.
- The boot code takes a new image when the information block is valid.
- On each core the UART and request-line interrupts have one priority and do not interrupt each
  other. Bytes on the UART between the cores are neither lost nor changed, messages are not
  empty, the callback does not send, `os_malloc` succeeds, and no core sleeps or is reset while
  messages are on their way (the code's sleep hooks are there to prevent it).
- The BLE client is single: it waits for the answer to one write before the next, takes only an
  answer that names its command and address, and sends the header of a split write as a packet
  of its own that announces exactly the bytes that follow.
- A store past the end of `ota_recving_buffer` either hits heap nobody misses or stops the program;
  after a write below the storage the running program is taken to go on. What else such a store or
  write may lead to is not followed: `OnlyCutWritesHarm` says when they can come.

## 5. What is proved

The theorems hold for every value of the constants that satisfies the modules' named
assumptions. Each rests on an inductive invariant, proved initial and kept by every action,
and the last step of each theorem is temporal (`PTL`).

**KeyDriver_proofs** (any set of wired keys, thresholds, ring size above the number of keys).
`KeyTypeCorrect` from types and `CountsBelow` (a count is below its threshold in the state
that counts). `PressAccounting` and `ClickWindow` need more: that a pending click and a held
key exclude each other follows from `ClickBehind`, *while a click is pending the debounce
machine has moved at most as many states as the click machine has counted scans*; with
`SHORT_TIME <= 2`, an explicit hypothesis, the click machine gives up first. From the same
invariant `DoubleClickDead`: disagreement 1 of section 6 for every `LONG_TIME`.

The event ring is never checked for full, so its backlog has to be bounded by timing.
`SingleKeyBacklog` is for the one key the board has (`LiveKeys = {0}`): the ring is empty
after every callback. `BacklogBounded` is for up to three wired keys, a ring of more than four
slots and `SHORT_TIME` at most 2 and below `LONG_TIME`: a key that has put an event puts the next
one three callbacks later at the earliest (`Wait`), a callback takes one, and `BacklogInv` bounds the
entries waiting together with those that can be put within one and within two callbacks.

**KnobInput_proofs**. `InputImplementsKeyDriver`: every behaviour of the input path is one of
`KeySpec`, so the theorems above hold in it. `PathInv` has an `EncoderPart` (a masked line has
the lock set; a detent accepted since the last tick has set it) and a `MailboxPart` (once a key
was sent after the last accepted code, no other code is in the mailbox or in `keypad_read`'s
copy), which give `EncoderNeverDeaf`, `EncoderDebounced` and `InputNotDuplicated`.
`EncoderReadyAfterTick`: `check_handle_cb`
unmasks only where it finds the lock set, and still the line is unmasked after every run of it.

**DisplayFlush_proofs** (any frame and block size that chains, any number of frames).
`FlushInv` says who owns the channel (`Channel`: the flag is down exactly from the claim to the
interrupt), where the chain is (`Chain`: the descriptor being moved begins at the panel's write
position), which buffer is sent (`Sent`) and what buffers and panel hold (`Drawn`, `Panel`: the
panel is the last frame up to the write position and the one before it from there). It gives
`NoTearing`, `BuffersApart`, `NoCommandDuringTransfer` and, with the bound on
the chain (`LinkBound`), `FlushTypeCorrect`: the descriptor index never leaves `Link_Channel`.
`NoFrameDropped` is the refinement: the initial state is one of `FrameDisplay`, and each step
is a step of it or leaves it unchanged. About progress: `BusyWaitEnds` (whoever spins on the
transfer flag is waiting for a channel that moves or an interrupt that is pending),
`LastFrameShown` (at rest the panel shows the frame drawn last) and `FrameBounded` (a measure of
at most `3 * FRAME_WORDS + 12` falls with every step but the beginning of a frame).

**Button_proofs** (any set of buttons, any counter width, any number of messages on the way).
`MachineInv` is the conjunction of the five properties of the machine with its types; none of
them is inductive alone, because a handler relies on what its state says about the timers and
the word, and whether a timeout may come in a state is `StateTimed`. `HandlersKeep` goes through
the ten handlers. `LevelArrives` needs `LevelInv`: with no interrupt pending the acknowledged
level is the pins', and with the anti-shake timer expired as well, the last word posted (or the
machine's word when none is on its way) is that level. `ButtonTypeCorrect` adds what the handlers
save and send. `SettlesInBoundedSteps` weighs a pending interrupt, the anti-shake timer, the
messages and the strikes the state timer still has in the present state: the sum is bounded, every
step lowers it except a change of the pins and the repeats of a held long press, and when it is zero
the machine has the level of the pins.

**Ota_proofs** (any image of at least two chunks, page, chunk, buffer and counter size within
`OtaAssumption`, number of faults; writes cut anywhere).
`OtaInv` has, besides types, four ideas. `Matched`: the request on its way is the one the client
waits for. `Assembled`: while a write is being put together, either it is the client's own (`Synced`:
the service and the client agree how many bytes are missing and of which chunk, and index and
missing bytes add up to the whole write), or `ota_addr_check` is 0 or the link gone. In the second
case the address that is read, whatever the buffer holds, is refused if it is one of the storage,
because the check admits 0 and the last length only, and both are below `BASE`; this gives
`NothingMixedWritten`. `Lead` and `InOrder`:
the second chunk is never the new one unless the first is, because chunks are written in order
and a page is erased before its first chunk is written; this is why the CRC, which leaves out
exactly the first chunk, cannot be fooled. `Announced` draws the conclusion at the moment REBOOT
has checked the CRC and keeps it up to `OnlyWholeAnnounced`. `PayloadBuffered` and
`SessionAlwaysTimed` come from `Buffered` and `SessionTimed`. `OnlyCutWritesDoHarm` rests on `Filled`:
as long as what is put together is one write, its header is in the buffer and its end within it.

That the update also succeeds needs the other direction. `WrittenInv` keeps what the client was
answered: the chunks before its own are whole (`Behind`), the rest of an open page is clear (`Ahead`),
a page is erased at its first chunk only (`PageBegins`). So an answered WRITE_DATA stays written
through faults and repeats (`AnsweredStaysWritten`), and when the client comes to REBOOT the CRC
accepts the image (`CompleteImagePasses`). `PayloadInv` ties `ota_recving_data` to payload
under way: no payload packet is read as a command, even after a timeout in the middle of a write
(`PayloadFollowsHeader`). `UpdateGetsNearer` puts these together: without a fault every step lowers
<<attempts that must still fail, chunks to be answered, steps of the exchange>>, and at zero
the information block is valid. The first component is there because what an earlier session left
in the reassembly swallows the first packets of the next, which then fails. It is large: the count
of missing bytes goes down by the 3 bytes of GET_STR_BASE with each attempt and may step past 0
twice before it meets it (`Packets`, `StalePacket`), so that `WRAP` attempts is all that can be said;
and the step that stops the program at the buffer's end is excluded.

**KnobPages_proofs** (any step, start value and colour width within `PagesAssumption`).
`PagesInv` says of each page that its value is in its range and that the page shown shows it;
`TurnInRange` is the arithmetic of the signed bytes and of the 16-bit colour. It gives
`PagesTyped` and `ScreenIsStored`. `KeysReachShownPage`: the focus group holds the object of the
page shown and no other, a hidden page's value does not change, and nothing keeps the work page.

**Ipc_proofs** (any number of messages, with and without missed pulses). The first half is about
answers. `IpcInv` says that a core's list, its sending flag and the frame being fed fit together
(`Sound`), and that for each direction there is at most one answer, in the list or under way,
and that as long as there is, the request it answers is still pulled and seen (`OneAnswer`).
It gives `Typed`, `AnsweredWithMessage` and `OngoingSound`. The second half is about messages:
for each direction, the messages received, those on the way and those in the list are together
exactly the messages posted, in order, and a payload on the way is preceded by its preamble
(`Links`). Each action changes the two directions in one of a few ways (read, start, post), one
lemma for each, and `ImplementsLink` follows: a step of `Ipc` is a step of `IpcLink` or a stutter.

**IpcProgress_proofs** (any number of messages). `NeverWaitForEachOther`, with the hypothesis
`~PulseMissed`: `ProgressInv` says that a core with something to send that feeds nothing asks for it
(`Asked`), that a request seen has its answer in the peer's list or on the wire (`Owed`), and that of
two answers owed at once one is at the front of its list (`AnswerFirst`, which is what
`ipc_recv_request`'s comment is after). `Owed` is what a missed pulse breaks, and disagreement 5
shows the deadlock then. `EveryFrameFits` and `DeliversFirstMessages` hold with missed pulses too:
a payload always follows its preamble, and what a core was called back with are the first messages
of its peer; the second is proved of `IpcLink` and carried over by the refinement.

**Only model-checked.** Liveness (`EncoderRearmed`, `MailboxDrained`, `FrameShown`,
`UpdateCompletes`, `ReleaseSettles`, `WorkPageLeft`, `EveryMessageArrives`): fairness, and that a
step is enabled, are out of the prover's reach. Their safety halves are proved where there is one:
a measure that falls for `FrameShown`, `UpdateCompletes` and `ReleaseSettles`, what one step
establishes for `EncoderRearmed` and `WorkPageLeft`, no stuck state for
`EveryMessageArrives`; for `MailboxDrained` there is none. The disagreements below are
counterexamples of TLC; the first is also proved. Every safety property of a run that passes
has a theorem, under the hypotheses named above.

## 6. Where the code and what is said of it differ

1. **Double clicks do not exist** (`key_driver_double`). `key_driver.c:2` announces them, but the
   click machine waits two scans and the debouncing of the next press takes three.
2. **The driver handed to `lv_disp_flush_ready` may be NULL** (`display_flush_ready`). The
   transfer-complete interrupt clears `last_disp` before `my_disp_flush` passes it on when the
   task is held up for the time of a transfer.
3. **A split write survives its session, and may be the end of updating** (`ota_cut`).
   `ota_deinit` leaves `ota_recving_data`; the first packets of the next session are taken for
   payload. The count of missing bytes is reduced by whatever comes, in 16 bits, and only 0 ends it.
   The next session's GET_STR_BASE has 3 bytes; unless what is missing is a multiple of 3 the count
   steps past 0 to nearly 2^16. Each later attempt is swallowed as well and stored behind the last,
   past the 512 bytes of the buffer. The update gets through only if nothing depends on what is
   overwritten there, after thousands of attempts (`UpdateCompletes`, `UpdateGetsNearer`).

   The same cause has a second effect, which has no run of its own (it is `RecvLastPayloadBelow` of
   run `ota`, and the reason why `UpdateCompletes` has `lowWritten`). A timeout in the middle of a
   split write frees the buffer; the rest of the write goes into a new one, without a header. The
   address read from it may be 0, and 0 is what `ota_init` has set `ota_addr_check` to, so the
   check of `ota.c:350` passes and flash below the storage is written.

   The image itself is safe (`NoMixedWrite`), and both effects come of nothing but a write that was
   cut off (`OnlyCutWritesHarm`).
4. **The count "only for multi click" leaves with other messages** (`button_count`). A second press
   that is very short or long carries the count of the first click away in `BUTTON_RELEASED` or
   `BUTTON_LONG_PRESSED`, and the click itself is never reported.
5. **The link can block for ever** (`ipc_pulse`). A comment in `ipc_recv_request` (`ipc.c:556`)
   explains that READY must not queue behind a waiting message, or "IPC will blocked forever". It
   goes to the front of the list only while nothing is being sent; and when the pin interrupt comes
   so late that it finds the line released and pulled again, the new request is taken for the old
   one. Both cores then wait for an answer. With every change of the lines seen (`ipc`) it does not
   happen.

## 7. What is not modelled

- AT commands (`app_at.c`): the receive machine is fed by the closed library's UART interrupt, compares
  text and hands strings on. Its control is a prefix match; nothing in the repository says what a
  broken prefix or an overlong command should do, so a property could only repeat the code.
- IPC: `ipc_program_slave` (loads the other core once at start-up, polling), the sleep and wake-up
  hooks. The byte-wise feeding of a frame is one frame; lost bytes are not handled by the code.
- Other panels: the ST77903 and RGB drivers feed lines from an interrupt and share nothing with the
  knob's ST7789V but the idea; the program builds only one of them.
- The pages' drawing, animation and styles; the text on the home page is modelled (`label`) but has no
  property: LEFT leaves it, RIGHT sets it, and nothing says which is meant.
- Register-level peripheral drivers (I2C, SPI, ADC, RTC, PWM, I2S, flash), start-up: straight
  line I/O; the parts the models go through are represented there.
- BLE profiles and GAP callbacks: tables and calls into a closed stack.
- LVGL beyond the refresh and keypad parts, FreeRTOS, crypto, GIF decoding, USB: vendored or unused by
  this program.
- OTA queries that change no state; the exact CRC (a whole image passes, any other does not, except that
  its first 256 bytes are not covered, as in the code); clients that announce one length and send another.
- What the user sees of a press that arrives while the mailbox is full: the code drops one of the two
  and nothing promises otherwise.

## 8. Plan

1. **A measure for the link**: `NeverWaitForEachOther` says that the cores do not stop, not that
   they come nearer to the end. A preamble that `uart_transmit_IT` drops sets an exchange back (see
   the fairness of `RxReadyIdle`), so a measure can fall only from one answer read at rest to the next.
2. **Knob**, the composition of `KnobInput` and `KnobPages`: `KnobInput` leaves open which page has the
   focus, `KnobPages` leaves open when a key arrives; together both are exact. `KnobPages`' values have
   to be abstracted for it (two per dial).
3. **The line pump of the ST77903** (`driver_st77903.c`) against `FrameDisplay`.
4. **IPC with sleep**: the hooks that keep a core awake while messages are on their way.
