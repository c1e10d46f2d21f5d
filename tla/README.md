# ZeroEmbedded in TLA+

This directory is a verification development for the C framework in
`src/core-c`, the superloop of its demonstration node, and what two of its Rust
crates repeat of it: TLA+ modules translated from the code, TLC configurations that
model-check them on small instances, and proofs that TLAPS checks for every
value of the constants. `PROJECT.json` maps every definition to the lines it
stands for, and lists the runs, the hazards and the findings.

    tlc -workers 2 -config MCNvs.cfg MCNvs      # a run
    tlapm SpscProofs.tla                        # a module of proofs

## 1. The system

ZeroEmbedded is a library for microcontrollers. Nothing in it starts a thread:
the application calls it from a superloop, from interrupt handlers (which may
preempt the superloop between any two instructions, and each other if their
levels nest) and, under an RTOS, from tasks. It takes no lock and masks no
interrupt. What outlives a reset is what is in flash or in retained memory.
What is hard about it is therefore: interrupts between the loads and stores of
a call, power cuts between flash operations, counters that wrap, and callers
that call in an order nobody tested.

| Component (`core-c/src`) | State | Operations | What makes it correct |
|---|---|---|---|
| SPSC ring `spsc.c` | `head`, `tail` (free-running), slots | push, pop, write, read, count, available | a FIFO; no slot raced on; counters may wrap |
| Pool `pool.c` | free list inside the blocks, `free_count`, `alloc_bitmap` | init, alloc, free, lookup of an index | one holder per block; list acyclic and complete |
| NVS `nvs.c` | two flash banks; `active_bank`, write offset, sequence | init, format, write, read, delete, compaction, stats | what returned FW_OK is read back, over power cuts |
| OTA metadata `ota.c` | one descriptor in flash, its copy in RAM | init, set_desc, mark_pending_verify, confirm, rollback, verify | what was confirmed stays confirmed; boots counted |
| Watchdog `watchdog.c` | `registered_mask`, `reported_mask`, `last_kick_ms` | register, unregister, heartbeat, service | the hardware is fed only if every task reported |
| Tasklets `tasklet.c` | ring of work items | post, dispatch_one, dispatch_all | accepted work runs once and in order |
| Timer `timer.c` | millisecond counter | tick, get, delay, elapsed | correct over its wrap |
| Deferred log `log.c` | ring of entries | post, flush | entries whole, none used twice |
| Boot guard `boot_guard.c` | boots, crashes in a row, safe mode, in retained memory | init, mark_success, set_safe_mode | safe mode after enough failed boots, and only then |
| Crash dump `crash_dump.c` | dump with magic in retained memory | capture, has_valid, clear | a valid dump is one whole dump |
| Arena `arena.c` | offset | alloc, mark, rewind, reset | live blocks do not overlap |
| Hub `hub.c` | list of pools and arenas, byte counts | register, alloc, try_alloc, free | accounts agree with the backends |
| Hook table `hook.c` | sorted entries | register, unregister, dispatch | a hook runs once per dispatch while registered |
| FSM `fsm.c` | state, table | dispatch | one transition per event, hooks in order |
| Init engine `init.c` | entries by level | register, run level | each initialiser once, in level order |
| ZeroWire `zerowire.c`, dispatcher `dispatcher.c` | receive stream | encode, decode, sync, dispatch | a valid frame in the stream is found |
| UART `uart.c` | two SPSC rings (the ISR is left to the board) | write, read | as the rings |
| Power metrics `power.c` | active and sleeping time, the last wake-up | init, enter_sleep, metrics, reset | every stretch of time is counted once |
| Filters `filter.c` | debounce counter; averages and windows of the caller | update, median, average | debounce needs a stable run; the median is the middle |
| Task monitor `monitor.c` | a table of sums | record, get, reset | see section 8 |
| Crypto `sha256.c`, `chacha20.c` | a block being filled, counters | update, final; crypt | a hash does not depend on how the message is cut; no keystream is used twice |
| Rust crates `zero-sync`, `zero-core` | a queue and a spin lock; the framing | try_lock, enqueue, dequeue, slices; encode, decode | a FIFO behind the lock; agrees with `zerowire.c` |
| Demonstration node `examples/interactive_demo/main.c` | two UART rings, a tasklet, a sequence counter | the superloop | handles only what it sent; answers a ping; falls silent |
| Buffers, spans, DMA, cache, GPIO, RTOS stubs, asserts, other crates | | | see section 8 |

How they interact: UART consists of two SPSC rings that the board's
interrupts, or in the demonstration a loopback in the superloop, fill and drain; the hub allocates from pools and arenas; the dispatcher walks ZeroWire
frames; the watchdog reads the timer; interrupts hand work to the superloop by
the tasklet queue, the ring and the log; the boot guard and the OTA metadata
meet in the device's start-up, and the power metrics read the timer. NVS and OTA call a flash driver through function
pointers the application supplies, the watchdog calls `hw_kick_fn` and
`fault_fn`, the pool and the tasklet queue are given their memory.

## 2. The modules

| Module | Models | Checked by |
|---|---|---|
| `Fifo` | abstract: a bounded queue of bytes, put and taken in chunks | refined by `Spsc` and `RustSync` |
| `Spsc` | `spsc.c`, `spsc.h` | `MCShared`; proofs in `SpscProofs` |
| `Allocator` | abstract: blocks and their holders | refined by `Pool`, `PoolIsr` |
| `Pool` | `pool.c`, a call at a time | within `MCShared`; proofs in `PoolProofs` |
| `PoolIsr` | `pool.c` in two contexts, cut into loads and stores | `MCShared`; proofs in `SharedProofs` |
| `Arena` | `arena.c`, with addresses and sizes that wrap | within `MCHub`; proofs in `HubProofs` |
| `Hub` | `hub.c` over pools and the arena of `Arena` | `MCHub`; proofs in `HubProofs` |
| `KvStore` | abstract: keys whose calls take effect at once or not at all | refined by `Nvs` |
| `Nvs` | `nvs.c`, a flash operation at a time, with faults | `MCNvs`, proofs in `NvsProofs` |
| `Watchdog` | `watchdog.c` and the counter of `timer.c` | `MCShared`, `MCWatchdog`; proofs in `SharedProofs` |
| `RustSync` | queue and spin lock of the crate `zero-sync` | `MCShared`; proofs in `SharedProofs` |
| `Tasklet` | `tasklet.c` on one core with interrupt levels | `MCSuperloop`; proofs in `SuperloopProofs` |
| `Log` | `log.c`: posts from an interrupt and the main thread, the flush | `MCSuperloop`; proofs in `SuperloopProofs` |
| `Power` | `power.c` on the clock of `timer.c` | `MCSuperloop`; proofs in `SuperloopProofs` |
| `Waits` | delays and timeouts of `timer.c` and `timer.h` | `MCSuperloop`; proofs in `SuperloopProofs` |
| `Filter` | `filter.c`, `filter.h` | `MCSuperloop`; proofs in `SuperloopProofs` |
| `Ota` | `ota.c` between resets | within `MCLifecycle`; proofs in `LifecycleProofs` |
| `BootGuard` | `boot_guard.c`, a store at a time | within `MCLifecycle`; proofs in `LifecycleProofs` |
| `CrashDump` | `crash_dump.c`, a word at a time | within `MCLifecycle`; proofs in `LifecycleProofs` |
| `Lifecycle` | a device over its resets: the three composed | `MCLifecycle`; proofs in `LifecycleProofs` |
| `ExchangeSort` | the sort both `hook.c` and `init.c` use | with the two; proofs in `LifecycleProofs` |
| `Hook` | `hook.c` with callbacks that call back in | `MCLifecycle`; proofs in `LifecycleProofs` |
| `Fsm` | `fsm.c`, cut at its callbacks | `MCLifecycle`; proofs in `LifecycleProofs` |
| `InitEngine` | `init.c`, cut at its callbacks | `MCLifecycle`; proofs in `LifecycleProofs` |
| `Words` | the bits of a word, and `^` | with `ZeroWire`, `RustWire` and `CrashDump`; proofs in `WireProofs` |
| `ZeroWire` | `zerowire.c`: frames, CRC, decoding, the scan of a stream | by `MCDispatcher`; proofs in `WireProofs` |
| `RustWire` | framing and CRC table of the crate `zero-core` | `MCDispatcher`; proofs in `WireProofs` |
| `Rpc` | what `fw_cmd_dispatch` accepts and answers | with the next two; proofs in `WireProofs` |
| `Dispatcher` | `dispatcher.c` on a stream with noise | `MCDispatcher`; proofs in `WireProofs` |
| `Node` | `uart.c` and the superloop of `interactive_demo/main.c` | `MCSuperloop`; proofs in `WireProofs` |
| `Streams` | how `sha256.c`, `chacha20.c` and `fw_ota_verify_image` cut data into blocks | `MCDispatcher`; proofs in `WireProofs` |

Operators commented as a "faulty variant" (`ChunkSlotPast`, `TakeOverOldSequence`, ...)
are not part of any specification. Each is a plausible bug in the operator it
stands before; put in that operator's place it makes a run fail. They show that
the property named beside it in `PROJECT.json` depends on the code.

### Spsc
A call of `fw_spsc_push`/`write` is three kinds of steps: `StartPut` (the
snapshot of `tail`, the clipping to the room there is), one `CopyIn` per byte
in any order (memcpy promises none, and the second of the two memcpys handles
the bytes past the end of the buffer), and `Publish` (the store of `head`).
`StartTake`, `CopyOut` and `Release` are the consumer's. `pSeen` and `cSeen`
remember the last answers of `fw_spsc_available` and `fw_spsc_count`. Counters
wrap at `Modulus`, which stands for 2^32 or 2^64 and is a multiple of
`Capacity` as it is in the code. `fw_spsc_init`'s refusal of other capacities is
the assumption `SpscAssumption`. The counters are `volatile` and the code puts
`FW_MEMORY_BARRIER()` between slots and counters (`spsc.c:35`, `45`, `53`); the model
assumes what a barrier instruction gives: a step sees the stores before it. On a
compiler for which `attributes.h` leaves the macro empty nothing would.

### Pool and PoolIsr
`link` is the first word of each block: the next free block while it is free,
and whatever the caller writes (`Use`, any address, a stray one included) while
it is not. `Free(b)` takes every address; `Accepts` is the validation of
`fw_pool_free` (range and alignment are one: `b \in Block`; then the bitmap).
`owner` is history: who holds the block. A caller that still writes to a
block it has freed is not modelled; nothing in the pool could survive it.

In `PoolIsr` the main loop's calls are cut at each load and store of the
pool's fields, and an interrupt makes a whole call in between. `Masked` says
whether the application masks interrupts around its calls. The code does not;
the header calls the pool "suitable for ISR" (`pool.h:8-9`). With `Masked =
FALSE` in `MCShared.cfg` TLC refutes `QuietListSound` and `ImplementsAllocator` at once: an ISR that
allocates between `LoadNode` and `Unlink` is given the block the main loop is
about to return.

### Arena and Hub
`Arena` computes with addresses as the code does, modulo `Space`; `live` is
history: the blocks handed out and not released. Callers release as arenas are
meant to be used: they rewind to a mark they hold, after which younger marks
are gone, or reset. `fw_arena_alloc_zeroed` and `fw_arena_alloc_span` are
`Alloc` with the contents left out.

`Hub` EXTENDS `Arena` and runs all of its actions too (`UseArena`), because the
application keeps its handle. A pool counts as its blocks: `lent` were handed
out by the hub, `direct` by `fw_pool_alloc`. `Candidates` and `Before` say which
backend `fw_mem_hub_alloc` takes: the first that serves in the order of tiers
and registration. The application registers each backend once; a pool
registered twice is credited at its first entry, whichever served the block
(`hub.c:150-160`), and the accounts drift apart. `FreeSpace` is the loop of
`fw_mem_hub_get_free_space`; it adds modulo `Space` as the code does in `fw_size_t`
(`Summed`). `HubAssumption` asks that the memory of different pools and of the arena
lies apart in one address space, so all of it is less than `Space` bytes, and no such
sum wraps; the products of `FreeBytes` are part of that memory and are not reduced.

### Nvs
`header[b]` is the sequence number of bank b's ACTIVE header, `cell[b]` the
words behind it. A record is two header words and its payload. A word is
programmed at once, the words of a record in address order. Erased words read
as ones, so a status never programmed reads as VALID, as in the code. `pc`
names the flash operation under way: a call sets it, each `Work` action
performs one operation and chooses the next as the code's control flow does.
`CutAt`, `TearAt` and `FailAt` say at which operations power may fail, the
programming may stop midway and leave its first words, or the driver may
return an error. `may[k]` is history: what key k is allowed to read as, given
which calls returned FW_OK; `unsure` the keys whose last call did not.

Assumptions: the two banks are adjacent and the device ends after the second
(a tombstone written past the end of bank 0 lands on bank 1's header); the
driver refuses to program a word that is not blank unless with what it holds,
and checks before it programs; an erase is all or nothing; reads never fail;
after a failed format the application mounts again. FW_ERR_OUT_OF_MEMORY
inside the copy (`nvs.c:215`) cannot occur, which the deadlock check
confirms: `Copy` is never blocked. A CRC that holds by accident is left out.

### Watchdog
`masked` and `supervisor` are chosen in `Init` and never change: whether the
application masks interrupts during the main thread's calls, and whether
`fw_wdt_service` runs in the superloop or in a task that preempts it.
`reported_mask |= bit` is a load (`Heartbeat`, `RegisterTask`) and a store
(`StoreSet`). `fw_wdt_service` in the superloop is `Service` (mask computed,
time read), `Kick`, `Reset` or `Wait`. `beaten` and `missed` are history: who
reported since the hardware was last fed, and who had not when it was.
`Tick` advances the counter modulo `Range`; the service is called at most
`MaxLag` ticks apart, and `WatchdogAssumption` asks that the timeout and two
such lags fit the counter, which holds for any sensible timeout and 2^32 ms.
That `fault_fn` resets the CPU is not modelled.

### RustSync
A call of `try_enqueue` or `enqueue_slice` is `Begin` (both counters loaded, the
slice cut to the room), a `WriteSlot` per item and `StoreHead`; `try_dequeue` and
`dequeue_slice` are `Dequeue`, `ReadSlot` and `StoreTail`. Lock and queue are
separate types in `lib.rs`: the queue is `Sync` (`lib.rs:51`), which lets several
threads enqueue although it has room for one producer only, and the crate offers
the spin lock to keep them apart. The senders here are such callers: `TryLock`,
calls, `Unlock`. A failed `try_lock` changes nothing and is tried again.
Acquire and release are assumed to do what they say. A `len` computed by a
third context between the two loads may wrap below zero; no caller here asks.

### Tasklet
A post of level l is `Begin` (the fullness check and the load of `head`),
`WriteItem` and `Publish`; the three fields of an item are one step. A level
runs only while no higher one is in a post. `due` is history: the work whose
post returned FW_OK and that has not run.

### Log
`logHead` and `logTail` are slots, so the ring holds one entry less than it has
slots. A post is `LogBegin` (the check for room and `next_head`), two
`LogWrite`s and `LogPublish`; the flush reads the entry in two steps where it
lies (`FormatMessage`, `FormatLine`), hands it to the sink, during which the
main thread may log, and then frees the slot. `MaskedPosts` says whether the
main thread's posts can be preempted by an interrupt's.

### Hook, Fsm and InitEngine
Each calls the application in the middle of a loop, and the application may
call back in. `Hook` keeps a stack of dispatches under way: `Dispatch` takes
its sorted snapshot of slots, `Call` reads the next slot as it is then, and
between `Call` and `Continue` or `Return` the callback may do anything with the
table. In `Fsm`, `Nested` says which callbacks dispatch again; a dispatch that
finds no row changes nothing. `InitEngine` has the loop over the entries, which
sees what initialisers append; `pass` holds what the C stack holds, and history.
`ExchangeSort` is the exchange sort itself, so that which of two equals comes
first is as in the code.

### ZeroWire and Dispatcher
Frames are real bytes, the CRC included: `CrcStep` is one bit of what the
256-entry table does for eight, and `MCDispatcher` asserts the check value of
the polynomial. Only `MaxPayload` is smaller. `Decides` are the places in the
buffer at which `fw_zerowire_stream_sync` would stop; the first counts. The
host and the line are outside the repository: they append requests and noise,
of which any slice arrives at a time in a buffer of the largest frame's size.
`due` is history: requests not handled yet and where they start in the buffer.
The handler's verdict is free: refused, no answer, or an answer that may be too
long for the transmit buffer.

### RustWire
`CrcTable` is the table the crate computes at compile time, entered by the high byte;
`ZeroWire.CrcStep` has no table. `Agree` compares the codecs on one buffer: results,
frames, and what they write into a buffer that just fits and one a byte too short.
`given` is what both are handed, from one byte on and then from the next.
`MCDispatcher` takes them through every suffix of frames with any one of eight
bytes replaced and the end cut off; `TwinsSpec` through any bytes at all.

### Rpc and Node
`Rpc` is what `Dispatcher` and `Node` have in common: which frames
`fw_cmd_dispatch` hands to a handler, and the answer's header. `Node` is one
iteration of `main.c`'s loop in the order of the code: `Heartbeat`, `Service`
(loopback, read, scan, dispatch), `Tasklets`, `AutoActions`, `Key`. The loopback
empties the transmit ring into the receive ring, byte by byte
(`fw_uart_mock_extract_tx`, `fw_uart_mock_inject_rx`); what does not fit is lost, as
in the code. `Service` reads one slice, handles the first frame in it and drops
the rest (`main.c:158-161`): a frame that shares a slice with an earlier one or is
cut by its end is never handled. That is why `Converses` speaks of a ping sent on a
silent wire. `NodeSizes` says what the code's sizes give: an answer (22 bytes at most),
a heartbeat (43) and what a key sends (43) fit into a slice of 128, and with what
`--auto` sends besides (43 + 22 + 12) into a ring of 256. Nothing in the code says so; if a payload
grew past it, bytes of a frame would be dropped in the middle of the wire. `SentWhole`, a part of `WireWhole`, is what depends on
it. `flying` and `lone` are history. Ring and slice are 64 and
32 bytes for 256 and 128, with payloads cut likewise; times are
left out, so the heartbeat and each `--auto` step may come at any iteration. The LED,
what is printed, and the pool stress test, which frees all it allocates, are
left out.

### Streams
The bytes of a message are 1, 2, 3, ..., so a byte missed, doubled or left over from
an earlier block shows. `absorbed` is history: the blocks handed to
`sha256_transform`, end to end. `Absorb` is a pass of the loop in
`fw_sha256_update` (a memcpy and a transform if the block is full), `FinalHash` the
padding with its possible extra block. `pads` records the keystream bytes
`fw_chacha20_crypt` used, as block number and place. A call starts a block of its own and
drops the rest of the one before (`chacha20.c:90-93`), so pieces come to the whole only if
all but the last end where a block ends; `cut` is history and says that one did not
(`CipheredAsWhole`). Rounds are left out: what a block is
turned into does not matter to which bytes are in it. `CounterRange` excludes a
wrap of the block counter, which in the code would repeat the keystream after 2^32
blocks: 256 GiB in long calls, 4 GiB in calls of a byte each.
In `fw_ota_verify_image` one byte in flash may be flawed; that the CRC32 tells is taken
for granted.

### Ota
`fw_ota_set_desc` is an erase and a write; `fw_ota_init` takes over what it
finds or writes defaults. The bootloader and the application that call it are
outside the repository; they behave as `tests/test_resiliency.c` and the user
guide show. The descriptor is programmed in one step: it carries no checksum of
its own, so a torn one with its magic number in place would be taken over with
arbitrary fields, about which nothing could be said.

### BootGuard
The calls are cut at each store: a reset between the two counters of
`fw_boot_guard_init`, or between the two stores of `fw_boot_guard_mark_success`,
leaves what is there. `streak`, `override` and `settledAt` are history: boots that
got through the guard since the last success, whether safe mode was last
set by hand, and `boot_attempts` at the last success. The wrap of the counters
after 2^32 boots is left out; `BootLimit` caps them.

### CrashDump
`retained` is the structure that `fw_crash_dump_init` was given, which its caller
places where a reset leaves it alone; the default buffer is ordinary memory that
start-up code clears, and would hold nothing over a reset. `memcpy` and `memset`
are a step per word in any order; the magic number and the checksum are stores
after them. The checksum is the code's (`SumOf`). `DumpOf` has the registers as words between magic and
checksum. `Words!Xor` goes through words bit by bit, here `WordBits` of them. `DumpTrue` can only hold for faults whose mixtures the checksum can
tell apart, which is what `CrashDumpAssumption` says and TLC evaluates.

### Lifecycle
Runs the bootloader's part of `Ota` first (`Boot`), then the application: the boot
guard, updates, the report and the clearing of the dump in any order. A
`HardFault` starts a capture from anywhere in the application, a clear or a
flash operation included, and the handler does not return. `CpuReset` keeps the
guard and the dump; `PowerCut` keeps the guard (a register with a battery) and
loses the dump. The application that composes them is outside the repository;
it calls what `tests/test_resiliency.c` and the user guide show.

### Power
The clock is SysTick's 32-bit count times 1000, as `timer.c` computes
it on a target; WFI returns with the next interrupt, so a sleep lasts as long as
it does, whatever `max_sleep_ms` says. `TimeAccounted` holds until the count of
milliseconds wraps (`Wrapped`: it reads less than the time that has passed). The host's `nanosleep` is WFI with another waker.

### Waits
A delay is its start, a look at the counter per turn of the loop, and the return;
at most `LookLag` ticks fall between two looks. `WaitsAssumption` asks that the
longest delay and that lag fit the counter: with a delay near 2^32 ms the loop can miss
the window in which it would end. The ages are history. A timeout may be asked
at any time, so `WaitsRight` says of every state what the answer would be.

### Filter
The sorting network is the code's, exchange by exchange (`Network`). `IsMiddle` is
stated without sorting: fewer than half of the samples are smaller, fewer than half greater.
`recent` and `settledOn` are history: the last levels of the pin, and the last
level that was read so often in a row, which is what the debounced state is
compared with. Shifts to the right of negative numbers are arithmetic, as
compilers for these targets do it.

## 3. What the runs show

Every run checks deadlock too: none of these systems may stop.

| Run | Instance | Shows |
|---|---|---|
| `shared` | ring: 4 slots, counters modulo 8, spans up to 2, 2 bytes; pool: 3 blocks, main loop and ISR, masked; watchdog: 1 task in the main thread, 1 in an ISR, timeout 3, lag 2, counter modulo 8, all four deployments; Rust queue: 2 items, 2 slots, counters modulo 4, 2 senders, slices of 2 | no interleaving of the two sides at any shared access breaks the ring (`SlotsSafe`: a call finds the room it relies on, no slot is read and written at once), a polling consumer drains it. Double and stray frees and overwritten links leave the free list whole; with masking every cut of the main loop's call is safe; implements `Allocator`. No unjust feeding and every hang reported unless a supervision task preempts unmasked calls; no beat lost when masked. The lock makes the queue a `Fifo` |
| `hub` | pools of 2 and 1 blocks, an arena of 6 bytes at the end of an address space of 32, 2 backends, requests of 1, 3 and 31 bytes | blocks apart, accounts true, reserves and reported space kept |
| `nvs` | 2 keys, 2 values, 8-word sectors, sequence modulo 4; cuts everywhere but in the copy, errors everywhere but at `drop` and `compact_source` | nothing acknowledged is lost, RAM agrees with what a mount would find (`RebootAgrees`), one valid bank, calls atomic, calls end |
| `nvs_tear` | the same, torn records and torn format header too | damage stays with the key whose call did not return FW_OK |
| `superloop` | tasklets: 4 slots, counters modulo 8, 2 works, one interrupt level; log: 3 slots, 2 messages, flushes of one and of all; power: milliseconds modulo 8, 6 ms and 3 sleeps to a period; waits: counter modulo 8, delays to 4, lag 2; filters: 3 readings, 3 equal levels; node: payloads to 2 bytes, one a start of frame, rings of 64, slices of 32, sequence numbers modulo 3, with and without `--auto` | what is accepted comes out once, whole and in order; what waits is taken; time is counted once; delays and timeouts are right over the wrap; medians, averages and debounce are right; the node handles only what was sent, answers a ping, and falls silent when it stops sending |
| `stream` | payloads of up to 2 bytes, 3 requests (one with a start of frame in it), 6 kinds of noise, slices of any size; codecs: frames with a damaged byte, cut, from any byte on; hash blocks of 4 with a length of 2, messages to 9; cipher blocks of 2, counter modulo 16; images to 5 in chunks of 2 | each request handled once, nothing else, no jam, whole answers; the two codecs agree; hash and image check do not depend on where the pieces end; no byte of keystream is used twice, and the cipher does not depend on pieces that end where blocks end |
| `lifecycle` | device: 2 images, 2 attempts counted; guard of 2 crashes, 3 boots; dumps of 2 words of 8 bits, 2 faults. Hooks: 2 slots, 2 events, 2 callbacks, dispatches two deep; machine: 3 states, guarded, self and wildcard rows, dispatches three deep from on_enter; initialisers: 4 for 3 entries, 2 levels, 2 priorities | over faults, resets and power cuts between any two steps: the descriptor is what the last successful call wrote, boots are counted, safe mode is right, a dump handed out is one that was captured; each callback as often as it should, in order, whatever callbacks do |

Bounds. A ring or queue of four with counters modulo eight wraps its slots
twice per wrap of the counters; spans of two already wrap past the last slot
and already exceed the room left, so both clippings and both memcpys happen.
Three pool blocks are the fewest with a
list in which a link can be wrong that is neither the first nor the last.
Eight words hold two records of
three and a tombstone, so the log fills, compacts into an equally full log, and
refuses; a sequence modulo 4 wraps with both parities, as 2^32 does. Two
keys suffice for one to be damaged by another's call. A watchdog counter modulo
8 wraps inside most windows. `AttemptLimit` and `BootLimit` cap what boots
count: an image can be booted again unconfirmed, and a device can reach safe
mode, leave it and fail again. Dumps of two words in bytes have
every order of copying and every mixture of two faults and zeros. Six
milliseconds on a counter modulo 8 wrap it from most starting points, and so do
delays and timeouts, which start at all of its values. A sorting network is right for
all numbers if it is for two; the run has three. Two of three backends fit the hub's table,
and 31 bytes plus any offset wrap past 32. Pools of 10 bytes and that arena fit such a space, as `HubAssumption` asks. Two hook slots with two callbacks
suffice to unregister one and have another, or the same one, take its place
under a dispatch; a third entry adds an order, not a case. Four initialisers for
three entries fill the table. A frame of ten bytes fits the receive buffer
exactly, a cut one leaves a header that waits for bytes of the next. A Rust
queue of two slots with slices of two fills, empties and wraps in every order, and
two senders suffice to break the lock's promise if it is not one. The node's ring of 64
holds six of its frames, its slice three: both are filled only in part, frames are cut
by the slice, and a corrupted packet swallows what follows. Hash blocks of
four with a length of two have messages that end at every place of a block, on
both sides of the one from which the length spills; nine bytes fill two.

`MCSuperloop`, `MCShared`, `MCDispatcher` and `MCLifecycle` hold components that share
nothing (the clocks of `Power` and `Waits` are copies of one counter). Their
variable `part` is chosen at the start and lets one of them run, which checks
each alone without the product of their states.

Faults left out of `nvs`, and why. These places make properties of `nvs` false.
Each can be reproduced by adding the place to the set in `MCNvs.cfg`.

- `compact_source` in `FailAt` (`nvs.c:241`): the erase of the old bank fails
  after the copy is complete. `nvs_compact` returns without switching, later
  writes are acknowledged in the old bank, and the next mount takes the copy,
  whose sequence is newer. `Durable` fails.
- `drop` in `FailAt` (`nvs.c:146`, `nvs.c:150`): the mount ignores that the
  erase of the stale bank failed. A format interrupted after erasing the other
  bank leaves the stale one alone on the flash. `Durable` fails.
- `append` in `TearAt` breaks `Durable` (not `DamageContained`): the record
  head is VALID before its payload is there (`nvs.c:283`), and a read answers
  with the last record of a key without falling back on the one before.
- `compact_header` in `TearAt`: a torn header is magic and state with a
  sequence of all ones, newer than any other.

## 4. Findings

Five runs are expected to be violated; each refutes what the repository says.

- `nvs_copy_cut`: `nvs_compact` programs the new bank's ACTIVE header, with the
  newer sequence, before it copies (`nvs.c:175`). A power cut during the copy
  leaves a newer incomplete bank, which the next mount takes; it erases the
  complete one. `nvs.h:7` says "power-fail resilient".
- `nvs_full_delete` (sectors of 6 words, power fails between calls only):
  `fw_nvs_delete` does not check again after `nvs_compact` whether its tombstone
  fits (`nvs.c:383`), as `fw_nvs_write` does (`nvs.c:267`). In a sector full of live
  records the tombstone runs past its end, the call returns FW_OK, the next mount
  does not see it, and the key is back. `nvs.h:104` says "Deletes a key".
- `ota_write_cut`: `fw_ota_set_desc` erases the only copy of the descriptor before it
  writes the new one (`ota.c:70`); a cut in between leads to factory defaults.
  `ota.h:7` says "zero-brick immunity".
- `watchdog_preempt`: a supervision task that preempts a heartbeat between
  load and store has its reset of `reported_mask` undone by the store
  (`watchdog.c:52`), and feeds the hardware although a task hangs. `MCWatchdog`
  registers all tasks before they run and unregisters none, so that TLC's trace is one of
  heartbeats; `fw_wdt_register_task` and `fw_wdt_unregister_task` (`watchdog.c:45`) update the same
  mask in the same way and can undo a reset too. Without
  masking, a heartbeat of an ISR in the same place is lost instead: drop
  `masked` from `BeatsKept` to see it. `watchdog.h:58` says heartbeats are
  "safely called from ISR".
- `cipher_pieces`: two calls of `fw_chacha20_crypt` of a byte each use the first bytes of
  two blocks of keystream, where one call of two bytes uses two bytes of one block
  (`chacha20.c:90-93`). `chacha20.h:6` says "RFC 8439 ChaCha20 Lightweight Symmetric
  Stream Cipher" and `chacha20.h:38` "symmetric stream XOR"; the two ends of a line agree
  only if they cut a message alike or where blocks end.

Observed while modelling, without a run of their own:

- `tasklet.c:37`: two posters on one core lose a post. `Levels = 2` and
  `Poster = {1, 2}` in `MCSuperloop.cfg` refute `PostsKept`.
- `log.c:42`: an interrupt that logs while the main thread does loses an entry
  and repeats the storage's old one, where `log.h:51` says "Safe to call inside
  ISRs". `MaskedPosts = FALSE` refutes `LogKept`.
- `log.c:93`: the length handed to the sink is what snprintf would have written
  and may exceed the 256 bytes of the line.
- `tasklet.c:89`: handlers that post again keep `fw_tasklet_dispatch_all` from
  returning.
- `fsm.c:82-87`: a dispatch nested in `on_exit` or an action is overwritten by
  the outer one, and on_enter and on_exit are no longer paired.
  `Nested = {"exit"}` or `{"action"}` in `MCLifecycle.cfg` refutes `HooksPaired`.
- `hook.c:114-117`: a hook unregistered during a dispatch is still called by it,
  and if its slot is reused the new hook is called in its place, for whatever
  event it registered. Without `~frames[f].reused`, `EachHookOnce`, a part of
  `HooksOnceInOrder`, fails.
- `init.c:65`: a retry after a failure runs the earlier initialisers again, and
  one registered for a level that is through does not run in that pass.
- `hub.c:87-91`: the padding of an arena is not part of the reserve's check;
  `ReserveKept` allows for it. `allocated_bytes` of an arena never goes down,
  not even by a reset, so `fw_mem_hub_get_total_used` is no measure of use.
- `zerowire.h:58` promises FW_ERR_CORRUPTED for an invalid stream;
  `fw_zerowire_stream_sync` never returns it (`zerowire.c:143-145`). A false start of frame
  delays the frame behind it until enough bytes follow; if the line then falls
  silent the request stays unhandled. An answer too long for the transmit
  buffer is dropped and FW_OK returned (`dispatcher.c:101-105`).
- `crash_dump.c:19`: `sum << 1` pushes the top bits of early words out, one per
  word, and XOR lets differences cancel, so a mixture of two dumps, left by a
  reset inside a capture, may pass `fw_crash_dump_has_valid`, where
  `crash_dump.h:69` says "valid, verified". `CrashDumpAssumption` names what the
  run relies on instead.
- `power.c:40`: microseconds are 1000 times a 32-bit count, so after 49.7 days
  the clock jumps back, `active_delta` is short of 2^64 by that jump, and the load is
  no longer the share of time that `power.h` documents. Without `~Wrapped`,
  `TimeAccounted` fails.
- `timer.h:43`: a timeout is pending again once 2^32 ms have passed since its
  start; `WaitsRight` speaks of one range of the counter.
- `fw_uart_irq_handler` has no body (`uart.c`): bytes move between the rings
  and a device only if the board's own interrupt handler moves them.
- `main.c:158-161` of the demonstration: frames behind the first in a slice of
  the receive ring are dropped unhandled.
- `lib.rs:51` of `zero-sync`: `unsafe impl Sync` for a queue with one producer and
  one consumer by contract; without the lock two senders overwrite each other's
  slots.
- Nothing in the repository compares `boot_attempts` with `max_attempts`
  (`ota.c:119`, against `ota.h:42`); the pool's `ISR` sentence above.

## 5. Fairness

- `Spsc`: `WF` on finishing a put, finishing a take, and polling: the copy loops
  do not block, an ISR that preempted the consumer returns, and the superloop
  keeps polling. Nothing is assumed of the producer. Never behind for good (`Drains`) is that the
  ring is empty again and again or `tail` moves again and again.
- `Nvs`: `WF` on `Work`: with power, the CPU runs on. Power may fail again and
  again; `Returns` allows a call to end by it.
- `Watchdog`: `WF` on the tick and on finishing a call; `SF` on the service,
  which is called "periodically in the main superloop or supervision task"
  (`watchdog.h:64`): it is enabled again and again between other calls. In
  `MCShared` each of these and of the ring's is conjoined with its `part`.
- `Tasklet` and `Log`: `WF` on the superloop's steps, which go on for ever, and on
  finishing a post. In `MCSuperloop` each is conjoined with its `part`.
- `Node`: `WF` on `GoesOn`, the advance of the loop to its next piece of code:
  neither the loop nor a call in it blocks. Some step of `NodeNext` always advances it,
  so this rules out nothing but stopping. That the user or `--auto` sends, or stops
  sending, is assumed nowhere.
- The others have no liveness property and no fairness.

## 6. What is proved

`SpscProofs`, `PoolProofs`, `NvsProofs`, `HubProofs`, `LifecycleProofs`, `SharedProofs`,
`SuperloopProofs` and `WireProofs` hold for every value of
the constants that satisfies the assumptions named in the modules they are about:
`SpscAssumption`; `NvsAssumption`; `PoolAssumption`; `ArenaAssumption` and `HubAssumption`;
`OtaAssumption`, `BlankAssumption`, `BootGuardAssumption` and `CrashDumpAssumption`;
`WatchdogAssumption`; `RustSyncAssumption`; `TaskletAssumption`, `LogAssumption`,
`PowerAssumption`, `WaitsAssumption` and `FilterAssumption`; `HookAssumption`, `FsmAssumption` and
`InitAssumption`; `ZeroWireAssumption`, `DispatcherAssumption`, `StreamsAssumption`,
`NodeAssumption` and `NodeSizes`. They ask for no more than that a ring has
slots, a counter a range that its size divides, a table its entries, that a
time to wait fits the counter it is counted on, that priorities are natural numbers,
that a transition leads to a state, that what is sent is bytes and fits its buffers,
and that a checksum tells two captured dumps from their mixtures.

Ring. `SlotsSafe` is `RoomForCalls` and `NoSharedSlot`. `RoomForCalls` is not inductive alone: a put that starts relies on
nothing, but one that publishes must know its chunk fits, and one that copies
must not disturb the take in progress. The inductive invariant `IInv` adds
`TypeOK`, `AnswersHold` with `AnswersUsed` (an answer is used up when the
side that asked acts) and `CopiesHold` (bytes once copied stay). `NoSharedSlot`
follows from it without induction, by arithmetic: the offsets of both chunks
from `tail` lie below `Capacity`, so their slots differ (`RemainderUnique`,
`ChunkSlotInjective`, `PutBehindQueue`), also over the wrap of the counters
because `Capacity` divides `Modulus`. The refinement maps the FIFO to the
elements from `tail` to `head`; only `Publish` and `Release` move it, since
`CopyIn` writes behind `head` (`CopyInInvisible`).

Pool. `FreeListSound` says that some duplicate-free sequence is the list. It
needs `PoolTypeOK`, `BitmapIsOwnership` (callers write only blocks they hold, whose bit
is set, which are therefore not on the list: `UseInv`) and `NoneLost` (so that
the count never passes the capacity). `AllocInv` drops the sequence's first
element, `FreeInv` puts one before it. `Refinement` uses `BitmapIsOwnership`:
a block on the list has no owner, an accepted free has one.

Store. `StoreStaysDurable`, `RebootStaysAgreed` and `StoreImplementsKvStore` have two
hypotheses. `Tame` keeps power cuts and driver errors from where section 4 shows that they
do harm: in the middle of programming, during the copy, and in the erase of a bank that is, or is to be,
given up. `RoomForAll` asks that a record of each key and a tombstone fit into a
sector; without it a compaction may run out of the new bank, and a delete
past its end. Under both, any number of keys, values and sizes, sectors and sequence ranges is covered.

The model finds records by a recursive scan (`Boundaries`). The
proofs first characterise it: `Scanned` says that a set starts at 0, is closed under
"the record here ends there", and holds nothing else, and `BoundariesAre` that the scan is the
one such set. That is induction over the log, done with the least or greatest
counterexample (`Least`, `Greatest`). A programmed record then adds
one boundary (`LogGrows`) and what is written elsewhere none (`LogUntouched`); `Says`
relates a log to what it tells of a key, and `LookupSays` proves that `fw_nvs_read`
answers that. `NvsInv` says that each valid bank is whole records with blank words behind
(`LogSound`), that it answers right and two valid banks alike (`BanksHold`),
and during the copy that the new bank answers for exactly the keys whose live record
has been passed, in no more than `big` words for each (`CopyHolds`), which is why the copy
never overruns. No record begins inside another (`NoneInside`), so the loop
misses none. For the refinement, `ViewOfBank` and `ViewOfNone` show that what a
reader sees is decided by the headers and any one valid bank, so only the
append and the erase in `fw_nvs_format` can change it.

Arena and hub. The heart is `FitsMeansInside`: if the two comparisons of
`arena.c:37-38` hold, the aligned address has not wrapped, lies at or behind the
offset, and block and all end inside the buffer, although every sum in the code
is modulo `Space`. The step of `fw_arena_alloc` is then plain arithmetic
(`AllocPlain`). `BlocksSafe` needs `MarksBetween`, since a rewind may only move
the offset to where no block is cut; together with the types they are
`ArenaInv`. `HubUsesArena` shows that each step of the hub is a step of the arena or
leaves it alone, so that `ArenaStaysSafe` follows for the hub. `AccountsMatch` needs that
a backend is registered once (`OneEach`) and that what is not registered has nothing
out (`NoneUncharged`); `SpaceIsPaid` compares two sums over all backends: an allocation
changes one backend, so all terms but one are the same (`SumChanges`), and that one is
paid from what was spare there (`SparePays`). That is said of plain sums (`Total`); the
code's sums are the same, since what is spare of each backend is some of its memory
(`SpareInside`) and all memory fits one address space (`SpareFits`, `NoSumWraps`). `ReserveStaysKept` follows from `HubInv` step by step, the
padding being bounded by three because the hub asks for an alignment of four.

Boot guard. `SafeModeRight` speaks of the moments between calls, a reset of all
moments, so `GuardInv` says how far the counters are apart inside a call: while a crash is
not compared yet the streak is behind it, while a boot is not counted as a crash
`crashes` is behind `attempts - settledAt`, and a success under way has
already forgotten the crashes. With that each store preserves it, and a reset
disturbs nothing because it stores nothing.

OTA. `DescriptorRemembered` and `BootsAreCounted` have a hypothesis besides the
assumptions: power cuts, resets and driver errors come no later than the erase.
It cannot be dropped, since the code erases the only copy (section 4). `OtaInv`
adds what the sector may be during a call (what was settled, or blank) and
that a descriptor being written carries the next count. `SetDescInv` covers
the four callers of `fw_ota_set_desc` at once.

Crash dump and device. `DumpInv` says what is true of the dump between any two
words: the words copied so far are those of one fault, and what is not is a word of some
capture or zero (`Leftovers`). A dump that passes for valid is then one of `Leftovers` whose
checksum agrees, so it is whole by `CrashDumpAssumption`. The checksum is computed over a copy whose checksum
field is still that of the source; `SumIgnoresItself` shows that it makes no difference. In the composed device a step
is one of the three, or a reset that leaves each in a state of its own invariant
(`GuardInv`, `OtaInv`, `DumpInv`), a fault in the middle of the others' calls included:
`DeviceSafeModeIsRight`, `DeviceRemembers` and `DumpStaysTrue` are about `DeviceSpec`, the
earlier two also about the parts alone.

Watchdog. `KickJustified` speaks of the call of `hw_kick_fn` only. `KickInv` adds
why it holds then: as long as the deployment is `Protected` (no supervision
task that preempts unmasked calls), every bit of `reported_mask`
is that of a task that reported since the last kick, except between the kick and
the reset of the mask; so is every bit that a call under way has loaded, which is what
its store relies on; and a kick decided on finds all registered tasks reported.
`BeatInv` is the converse under masking: whoever reported has its bit, in the mask or
in what a call under way is about to store. Each holds for any sets of tasks, timeout and range
of the counter that `WatchdogAssumption` admits; the steps that only tick, register
or wait leave both alone. `HangCaught`, a liveness property, is not proved.

Pool under interrupts. `MaskedCallsAreWhole`, `QuietListStaysSound` and
`MaskedPoolIsAllocator` have the hypothesis `Masked`, which section 4 shows they
need. A masked call of the main loop has the pool to itself, so it can be seen as one step:
an allocation happens at `Unlink`, a free at `PushNode`. The state variables of
`Pool` are read off a call under way accordingly (`CountNow`, `BitmapNow`, `OwnerNow`
count what it is still to store), and `CallInv` says what the call relies on
between its loads and stores: that what it loaded is still there and its node is
still nobody's. Each step is then a step of `Pool` or none, so the list's soundness
and the refinement of `Allocator` come from `PoolProofs` and are not proved again.

Rust queue. `LockedSendersAreOne` maps any number of senders onto the one producer of
`Spsc`: `OneProducer` says that a call under way belongs to the sender the lock let in, and
started at the `head` it will store. `LockedQueueIsFifo` follows from the ring's
refinement, whose steps `SpscProofs` states one by one (`StartsEmpty`, `StepsShow`).

Tasklets. `PostsStayKept` has the hypothesis `OnePoster`: one interrupt level posts
(section 4 says what happens with two). `SlotKept` adds to `PostsKept` that a post in progress
still holds the head it loaded and room for its item, and that what the superloop
has taken is what lies at the tail until it frees the slot. That a slot number one ring
on is never mistaken for another is the ring's arithmetic, instantiated from
`SpscProofs`.

Log. `LogStaysKept` has the hypothesis `MaskedPosts`. `LogInv` says that at most one
context is in a post, that a post has written the parts behind it into the free slot at
the head (`PostHolds`), that the flush has read what lies at the tail
(`FlushHolds`), and that the entries from tail to head are the accepted messages in
order, without the one the sink has already got (`AcceptedWait`). An entry may come to lie at
any slot, so each step re-indexes that sequence modulo the capacity (`WrapsOnce`, `LogPlaces`).

Power. `TimeAccounted` holds between sleeps; `PowerInv` extends it to sleeps by saying
for either state which reading of the clock the open stretch is counted from (`Charged`). As long as the
counter has not wrapped no 64-bit operation of the accounts wraps (`NoWrapInside`), and the
load is a share (`ShareInPermille`).

Waits. `WaitsInv` ties the readings of the counter to the ticks that have really passed:
the difference modulo the range is the age (`ElapsedTicks`, `TickAddsOne`), because
a waiting delay looks at least every `LookLag` ticks and `MaxDelay + LookLag` is below the
range. Without the lag in the invariant it is not inductive: nothing else keeps an age
from passing the range.

Filters. `PinInv` says that `counter` is the length of the run of other levels at
the end of `recent`. For the median of five the proof follows the network exchange by
exchange and says after each which of the five are known to be in order
(`NetworkSorts`), and that every exchange rearranges; the middle of a sorted
rearrangement is a middle of the samples (`MiddleOfFive`). `EmaBetween`: for a
shift towards minus infinity the new average lies between the old one and the
sample, so neither bound is ever passed nor the narrowing ever felt.

Frames. `DecodeWhole` is the round trip: where an encoded frame lies, decoding finds it, its size and its fields;
`DecodePart`: where only its beginning does, decoding waits for the rest. That holds for any
payload; of the CRC it needs only that it is a word of sixteen bits and the same at both ends.
`SyncIs` says what the scan of `fw_zerowire_stream_sync` stops at and consumes.

Dispatcher. `RoomRemains` and `RepliesReadable` hold whatever arrives. `RequestsAreHandled`
has the hypothesis `OnlyRequestsDecode`: at no place of the buffer where no request starts does the buffer read as
a frame. A checksum of sixteen bits cannot promise that, so it has to be assumed; it holds in every
state of `MCDispatcher`'s instance. `DueInv` says that every request
due lies whole on buffer and line together, in order and without overlap. A slice
that arrives moves bytes from one to the other and disturbs nothing
(`ArrivalMoves`); a pass of `fw_cmd_process_stream` stops at the first request due or before it
(`PlacedDecides`), so what is consumed is noise or that request whole
(`DueProcessed`), also when the buffer ends in the middle of a request.

Node. `SentStaysWhole` has no hypothesis. That each frame lies whole on the wire is not
inductive, since `fw_spsc_write` cuts what does not fit and nobody looks: `NodeInv` adds how full
the wire can be in each part of an iteration (`Load`): an answer, what `--auto` has sent
so far, one key's bytes, one heartbeat. One slice takes all of this but what `--auto` sent, which comes once in a run; hence `NodeSizes`.
`WireStaysWhole` has the hypothesis `OnlySentDecode`, the same about the checksum
as above: where the scan stops, a frame that was sent starts. What it shows then is that the frame handled
is the one sent there, complete, although the slice may end in the middle of others.

Codecs. `CodecsAgree` is about every sequence of bytes and every `MaxPayload`. What it takes is that a CRC
bit by bit is a CRC by a table (`CrcsAgree`). A word is tied to its row of sixteen bits (`IsWord`): each word
has one row (`OwnBits`, `SameBits`) and each row one word (`EveryRow`, `SameWord`), so an equation between words
is one between rows, and shifting, flipping and `^` are given by what they do to rows (`TwiceIs`, `FlipIs`,
`XorIs`). `CrcStep` and `TableStep` then feed a row back at the same three places (`Fed`). `PairStep` goes through the eight
bits of a byte: what the CRC holds is what the table holds, plus the low byte it began with on its way up, plus
the bits of the byte that have not entered; the bit fed back is the same in both. After eight steps the byte
is used up, and the rest is what `crc16_ccitt` puts together (`ByteIs`). The same lemma says why `CrcStep` may stand for
the table of `zerowire.c`. The decoders and encoders are then compared branch by branch (`StatusesAgree`, `EncodersAgree`).

Streams. `HashInv` says how far a message has come: what was absorbed and the bytes of
`buffer` up to `fed % HashBlock` are the message so far. `FinalKeeps` is the
padding, with one block or two, for every block size and width of the length field. `CipherInv`: the
keystream used lies in blocks before `counter`, no two bytes in the same place, and no more blocks than bytes,
so the counter has not come round. `WholeInv`: as long as no call but the last ended inside a
block, the bytes take the keystream as one call would, since blocks are counted the same from any block's
end (`BlocksShift`, `CryptWhole`). `ImageInv`: what `seen` says is about exactly the bytes of the image before `currAddr`.

## 7. What is only model-checked

Two things are checked on the instances above and not proved. What torn programming
leaves in the store (`DamageContained`): the proofs of the store rest on a bank being whole
records with blank words behind, which a torn record breaks. And liveness
(`Drains`, `LogDrains`, `Returns`, `HangCaught`, `Converses`), which, as `ENABLED`, is outside what this prover does.
The type invariants of modules without proofs document their variables. Induction
over data works through least elements of sets of numbers, as in `NvsProofs` and `WireProofs`, but not
through the library's induction theorems, whose parameter is an operator.

## 8. What is not modelled

The rounds of SHA-256 and ChaCha20 and the arithmetic of CRC32: a matter of test
vectors. The task monitor: a table of sums without a protocol.
`fw_delay_micros` on a target: a loop of cycles that no model sees.
`fw_filter_ema_i32`: as the average of 16 bits. DMA, cache and GPIO: copies and
mock registers without a protocol in the host build. `fw_uart_irq_handler` has no
body. Buffers, spans, string views: bounds-checked copies. The
bare-metal RTOS adapter: stubs. Assertions: stop the program. Of the Rust
crates, `zero-hal`, whose type states the compiler checks, `zero-memory`, a
bounds-checked buffer, and the C wrappers and spans of `zero-core`. Tooling, benchmarks and
the other examples: not part of the framework. `fw_nvs_get_stats` and
`fw_crc32_compute` change no state.

## 9. Plan

Done, in this order: ring, pool, pool under interrupts, NVS, watchdog, tasklets,
OTA, arena, hub, callbacks, log, ZeroWire and dispatcher, boot guard, crash dump,
their composition with OTA, power, delays and timeouts, filters, the Rust queue and
codec, the node over its UART, hash, cipher and image check; theorems for ring, pool,
NVS, arena, hub, boot guard, OTA, watchdog, the pool under interrupts, the Rust queue, tasklets,
log, power, waits, the hooks, state machine and initialisers with their sort, the crash dump and the composed device,
filters, frames, dispatcher, node, and streams.

Next modules, most important first:

1. A device with two nodes on a line that loses bytes, `Spsc` in place of the rings' contents.
2. The task monitor's sums.
3. `fw_pool_init`'s layout arithmetic; a hub whose pools are those of `Pool`.

Next theorem: what a torn record leaves in the NVS.
