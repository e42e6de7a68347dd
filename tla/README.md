# Verification of the STM32H7 web server

The program is a secure web server for the STM32H753I-EVAL board: FreeRTOS,
lwIP with mbedTLS and libwebsockets over the on-chip Ethernet MAC, and FatFs and
SQLite on an SD card. The libraries are vendored; what this repository adds, and
what these modules are about, is the code that joins them to each other and to
the hardware: the disk driver below FatFs and the mounting of the card, the link
and DHCP threads around lwIP and the frames below it, the file layers between
SQLite and the card, the log.

All paths below are relative to the repository. The build meant throughout is
`CubeIDE/STM32H7-RTOS-mbedTLS-SQL-Atollic`.

## 1. The parts of the system

| part | code | state it keeps | operations | talks to |
|---|---|---|---|---|
| SD disk driver | `Src/sd_diskio.c`, `FatFs/src/diskio.c` | `Stat`, `SDQueueID`, `scratch`, `is_initialized` | initialize, status, read, write, ioctl; two completion callbacks | called by FatFs under its volume lock; HAL and interrupt through a message queue |
| SD HAL | `stm32h7xx_hal_sd.c`, BSP `stm32h743i_eval_sd.c` | handle state, card size, running transfer | DMA block read and write, interrupt handler | driver, DMA, card |
| Link and DHCP | `Src/ethernetif.c`, `Src/lwip.c`, lwIP `dhcp.c` | `DHCP_state`, netif flags, MAC mode, DHCP client struct | link poll, link callback, state machine, client messages and timers | three threads and the TCP/IP thread share `DHCP_state`, the interface and the client |
| Start-up | `Src/main.c` | none | waits for the address, creates the server task | polls `DHCP_state` |
| SQLite VFS | `SQLite/sqlite_os_freertos.c` | per file: journal buffer, FILE | Open, Close, Read, Write, Sync, Truncate, FileSize, Delete, Access | C library FILE, `fatfs_wrapper.c`, FatFs |
| POSIX wrapper | `Src/fatfs_wrapper.c`, `CubeIDE/syscalls.c` | descriptor table, one directory object, lazily created mutex | open, close, read, write, lseek, fsync, truncate, unlink, rename, directories | FatFs, C library, libwebsockets |
| FatFs | `FatFs/src/ff.c` (vendored) | table of open files, mount, volume lock | open, sync, close, unlink, rename, mount, format | wrapper, disk driver |
| SQLite mutexes | `SQLite/sqlite_mutex_freertos.c` | static mutex table | none in this build (`SQLITE_THREADSAFE` 0) | SQLite |
| SD mount and hot-plug | `Src/fatfs.c` | mount state, card-detect flag | initialise, mount or format, card-detect interrupt | driver, FatFs |
| Ethernet frames | `Src/ethernetif.c`, `stm32h7xx_hal_eth.c` | receive semaphore, two rings of DMA descriptors | input thread, output, receive interrupt, stop and start | lwIP, MAC |
| Logging | `Src/common/logging/…_dynamic_buffers.c` | queue, message number | initialise, print, output task | every task |
| Time, random | `Src/rtc_*.c`, `Src/hardware_rng.c` | lazily created mutex | get/set time, entropy | mbedTLS, SQLite |
| TLS samples | `Src/ssl_server.c`, `Src/ssl_client.c`, `Src/net_sockets.c` | connection contexts | not started in this build | mbedTLS, lwIP |

What is hard in it: a driver that waits with a timeout for a message an
interrupt posts, so that a late message meets the next call; threads of different
priorities that share a state word, a ring of descriptors or a message number
without a lock; a file whose bytes wait in four places at once while any transfer
may fail and power may go; a volume that any call may mount again under the files
that others have open; a format that power cuts short; a wrapping tick counter;
initialisation that may fail half-way and is retried.

What makes each part correct: the driver returns `RES_OK` only for data that
moved, writes no sector it was not asked to, and always returns; the DHCP state
says what the link and the address are, and comes to rest; a file reads as
written, keeps what was synchronised through a crash, and overruns no buffer; the
descriptor table gives every open file a handle of its own and leaks none, and a
file that is open is not opened again for writing, deleted or renamed; a volume
that mounts is sound; a frame is handed to lwIP as it was received and goes out
as lwIP gave it; a log message is printed once, in order, or dropped whole.

## 2. The modules

| module | models | proofs |
|---|---|---|
| `SDDisk` | disk driver, HAL transfer, interrupt, DMA and card | `SDDiskProofs` |
| `TickWait` | the driver's two bounded waits on the tick counter | `SDDiskProofs` |
| `MCSDDriver` | these two in one run | |
| `NetLink` | link thread, link callback, DHCP thread, DHCP client, start of the server | `NetLinkProofs` |
| `EthRx` | reception: DMA ring, receive interrupt, the task EthIf, stop and start | `EthRxProofs` |
| `FileContents` | contents of a file as a function, used by the next two | |
| `VfsFile` | abstract: what SQLite may rely on of a file | |
| `SqliteVfs` | the VFS file with its layers; implements `VfsFile` | `SqliteVfsProofs` |
| `MCSqliteVfs` | `SqliteVfs` with a bounded number of calls | |
| `MCSqliteVfsComments` | the same, noting which comments the calls go against | |
| `EthTx` | transmission: the polling senders, the DMA ring, stop and start | `EthTxProofs` |
| `FileSharing` | abstract: which opens, deletions and renames may succeed | |
| `PosixFiles` | descriptors of the wrapper over FatFs's table of open files, with mounts in between; implements `FileSharing` | `PosixFilesProofs` |
| `MCPosixFiles` | the symmetries of `PosixFiles`, for TLC | |
| `SDMount` | mount, format and hot-plug of the card, power cuts | `SDMountProofs` |
| `LossyLog` | abstract: what the log promises | |
| `Logging` | the log: blocks, numbers, queue, the logging task; implements `LossyLog` | `LoggingProofs` |

Definitions whose names end in `_` and a word (`Callback_AlwaysStart`) are not
part of any specification: each is a bug that the definition of the same stem
could have, kept to show that a property notices it.

### SDDisk

FatFs holds the volume lock around every disk call (`_FS_REENTRANT`), so at most
one call is in progress: `pc`, `req`, `i`, `copied`, `buff`, `res` are its
position and locals. `Stat`, `SDQueueID`, `scratch` are the driver's, `halState`
and `LogBlockNbr` the HAL handle's, `isInit` is `diskio.c`'s flag. `queue` is the
message queue as a sequence. `xfer` is the transfer in flight with the memory it
points at: the caller's buffer (`"buff"`), `scratch`, or memory whose owner has
returned (`"gone"`). `card` is what CMD13 would say.

Between the steps of a call the hardware steps: `TransferEnds` moves the blocks,
`DataEndIRQ` is the interrupt with its message, `ErrorIRQ` an error interrupt
after any of the blocks (no message: the error callback does nothing here),
`CardProgrammed` the end of programming. They may come at any time or never,
which is a card that is slow, or pulled. `CheckTimeout`, `GetTimeout` and
`PollTimeout` are therefore always possible where the code has a timeout; that a
wait lasts at least its bound is the subject of `TickWait`. Every mount attempt
ends in one of `InitOutcomes`, including a failure half-way.

Data is abstracted to a set `Data` of sector contents and `Junk`; a request has
a start sector, a count, and the alignment of its buffer (`fast`), which selects
the code's two paths.

`late` (a wait was given up with its transfer in flight) and `missed` (a wait of
this call got no message, or another's) are history: the properties of the
returned data hold in their absence and the violation runs show what happens in
their presence.

### TickWait

`SD_CheckStatusWithTimeout` compares a difference of ticks, the loop after a fast
write a deadline. Both run over a counter that wraps at `W`. `elapsed` is the
true time since entry, which the code does not see.

### NetLink

One action per access of a thread to `DHCP_state`: `DHCP_Thread` reads it
(`ReadStart`, `ReadWait`, `ReadLinkDown`), calls the client and stores it again,
and `dpc` is where it is in between. The link thread preempts it and does not
block while it handles a change, so `LinkLost` and `LinkFound` are one action
each, callback included. The client's actions are its message handlers (`Offer`,
`Ack`, `Nak`, `Decline`) and timers (`RequestTimeout`, `Renew`, `Expire`) as far
as they change its state, `tries`, the lease timer or the address.

What the driver of the PHY reports is a mode, link-down, or anything else
(negotiating, or a register that could not be read); `linkchanged` and `mode`
stay from one poll to the next, as the variables of the thread do.

`raced` (the last link change fell inside an iteration of `DHCP_Thread`), `lost`
(the server took the lease back) and `failed` (`dhcp_start` failed, a result the
code drops) are history. A client that was never allocated is read through a null
pointer at `lwip.c:128`: address 0 is RAM on this processor, and the model lets
the comparison come out either way.

### EthRx

The ring has one position for each party: `dma` (the hardware), `CurRxDesc`
(the driver) and `tail` (the register that limits the DMA). `own` and `bit30`
are the two bits of a descriptor's last word that matter; the second has one
meaning when the driver wrote the word (interrupt on completion) and another when
the DMA did (context descriptor), and the model keeps it as the one bit it is.

`Receive` is the DMA. `HAL_ETH_RxCpltCallback` and `ClearRI` are the two halves
of the interrupt, between which only the DMA steps. EthIf's steps are the calls
of its loop: `Wake`, `NoFrame`, `HAL_ETH_GetRxDataBuffer`,
`HAL_ETH_BuildRxDescriptors`, `Copy` or `AllocFails`, `Input`. The fourth is several
steps, as the DMA runs meanwhile: `SetOWN`, then `LoadDESC3` and `StoreIOC`, the two
halves of a `SET_BIT` on a word that the DMA may write in between, then `SetTail`;
with a context descriptor all but the last happen twice to the same descriptor. The link thread
has the three writes of `HAL_ETH_Stop_IT` and the three of `HAL_ETH_Start_IT`;
as EthIf has the highest priority they happen only while it sleeps with nothing
to wake it. `HAL_ETH_Start_IT` in `low_level_init` is the same code, and `Init` is
the state before it.

`waiting` (the frames received and not taken), `expected` (the one taken last),
`dropped` (a failed `pbuf_alloc` ended the loop) and `refilled` (the DMA filled a
descriptor that was being given back, while the tail pointer still had its initial
value behind the ring) are history. A frame is one
descriptor long: a buffer has 1536 bytes, more than an Ethernet frame of regular
length; longer ones are not modelled. Of the hardware the model takes that the DMA stops at
the descriptor the tail pointer names without using it (the comment at
`stm32h7xx_hal_eth.c:1445` calls it the last one the application holds), that
it resumes when the pointer moves, and that bit 30 raises the interrupt only when
the frame is complete. Bus errors are not modelled.

The properties are stated for a `Sound` ring, with `AppContextDesc = 0` and not
`refilled`: once the driver has taken a frame for a context descriptor, or the DMA a
descriptor before the tail pointer protected it, driver and DMA disagree about the
ring for good (section 4). `refilled` excuses no such step once the tail pointer has
been written; that there is none is part of what `DeliveredIntact` says.

### VfsFile and SqliteVfs

`VfsFile` has two views of a file: `content`, what a read returns, and `durable`,
at each position the set of what a crash may leave. A write changes the first and
adds to the second; a Sync that returns `SQLITE_OK` makes the second equal to the
first. A read is short only if the file ends there, a size is that of the content,
and what a Truncate cuts off is gone. Once a call returns an error nothing is promised
until the file is closed.

`SqliteVfs` has the real layers: `aBuffer` at `iBufferOfst` (the journal buffer),
`h.at`, `h.bytes` (what the C library's FILE holds back), `h.file` (the file as
FatFs's calls see it) and `h.disk` (at each position, what may be on the card).
Every transfer has a set of outcomes: success, or failure after any number of
bytes. A seek beyond the end makes the file longer (`Extended`, from `f_lseek`,
`ff.c:4134`) by bytes that nobody wrote, also when the call that asked for it then
fails. A write of more than one chunk is a step per iteration of its loop, `z`
being the bytes left. `Crash` may happen between any two steps and leaves at
each position any value handed down since the last `f_sync`.

The refinement mapping is `View` for `content` (the layers on top of each other)
and `Kept` for `durable`. The code does four things that `VfsFile` does not allow:
`TruncateIgnored`, `SizeStale`, `ReadCutShort` and `ReadExtends`. Each goes against a
sentence of the code's comments and is reported in section 4. `KeepsPromise` says that every step is one of
`VfsFile`'s or one of these four, each of which states all that it changes, so that
they excuse no wrong data, no lost write and no empty Sync. What FatFs calls the size of
the file is `f_size`: fewer bytes than `View` has while some of them wait in the FILE.
A file closed after a failed seek keeps what the seek made longer (`OrJunk` in
`Close`).

The C library is not part of the repository: `Flush` and `Fwrite` say what is
used of it, that bytes may be held back until `fflush` or `fseek`, that they
are handed on in order, and that an error drops them; `FseekFails`, that a seek
which fails may have flushed and gone a part of the way.

### EthTx

`low_level_output` and `HAL_ETH_Transmit` as the steps `HAL_ETH_Transmit`,
`Fill`, `NextDescriptor`, `Publish` and `WaitEnds` of a sender: the test of
`gState` and of the first descriptor, two pbufs into each descriptor, the clearing
of the first-descriptor mark in the next one before its OWN bit is looked at, the
undoing when that is not free, the tail pointer, and the wait for the last
descriptor. `Transmit` is the DMA, which may be as slow as it likes; `LinkChange`
the link thread's stop and start.

Sending is by polling, so a thread is interrupted only by those of higher
priority, and `Runs` lets the thread below go on when they have left. Three
threads can send: the holder of lwIP's core lock (`tcpip_thread` or a task, as
`LWIP_TCPIP_CORE_LOCKING` is 1), the link thread (priority normal, `lwip.c:228`)
through `netif_set_link_up`, and `DHCP_Thread` (below normal, 234), the last two
without the lock. Two that are between the test and the tail pointer at once mix
up `TxConfig`, `CurTxDesc` and the descriptors; the model marks that as
`overlapped` and does not say what comes of it.

`line` is what the DMA has read of the frame it is sending; `mixed`, `unmarked`
and `stale` say what went out wrong, `late` that a wait was given up.

### PosixFiles and FileSharing

A call of the wrapper is several calls of FatFs, each under the lock of the
volume and one step here: `pc` says between which of them a task is. `fat_open`
takes a descriptor, `f_open` opens, `AppendSeek` goes to the end; `fat_close` is
`CloseSync` and `CloseUnlock`, as `f_close` takes the volume lock twice;
`free_file_descriptor` gives the memory back whatever came of it. `truncate` opens
an object on its stack and returns (`TruncateReturn`) without closing it;
`opendir` uses the one directory object whatever it holds.

Every call starts with what `find_volume` comes to, `Volume`: the volume is
there; it is mounted again, which wipes the table of open files and makes every
object invalid (`LocksAfter`, `FilAfter`); the card is gone; or the volume lock
is not to be had within `_FS_TIMEOUT` (1000 ticks, while a wait of the disk driver
lasts 30000). `fil` has the objects, of descriptors and of `truncate`'s stack;
`Files` FatFs's table with the counters of `inc_lock` and `dec_lock`. `leaked` is
history: the keys of objects whose call ended without unlocking them.

`FileSharing` says what the table is for. It has no table: an open is granted if
no other open of the file conflicts, and a directory entry changes only if
nobody has it open; each step may first lose all opens to a mount.

### SDMount

One boot is `PowerOn`, `SD_Initialize`, `f_mount`, `FATFS_SDDiskInit` and, if that
finds no FAT32 volume, `f_mkfs` with one `FormatWrite` for every `disk_write` that
matters to a mount, in the order of `Layout`. `find_volume` is any later call on a
file. `card` is what a mount looks at: the partition table, and of the volume at
sector 63 the boot sector, FAT and root directory, each junk, old, being written
or new; and a volume that another system put elsewhere. `aligned` is the linker's
choice of address for `workBuffer`, a `BYTE` array that nothing aligns
(`fatfs.c:78`): unless it is on a 4-byte boundary (`sd_diskio.c:349`) a format takes
the driver's slow path and writes its scratch block. `card.fits` is whether the card
has a size of which `f_mkfs` makes a FAT32 volume; of any other it returns
`FR_MKFS_ABORTED` (`ff.c:5366`, 5369, 5564, 5593, 5598), all before the first write,
and the program goes on.

`fault` (something failed since power-on) and `spoiled` (a format was broken off
over a volume that was there) are history. `PowerCut` and `CardDetect` may come
between any two steps.

### LossyLog and Logging

A task's call is `pvPortMalloc`, `LoadNumber` and `StoreNumber` (the increment of
`xMessageNumber` has no lock), `xQueueSend`, and `vPortFree` if the queue was full.
The logging task is `xQueueReceive` and `PrintString`. A block is a model value
and any free one may be allocated, so that blocks are used again at once.
`LossyLog` knows no blocks: a message is accepted or dropped, and what was
accepted is printed in order.

## 3. What is checked

| run | module, bounds | question |
|---|---|---|
| `sd` | `MCSDDriver`; 2 sectors, requests of up to 2, contents {a, b}, queue of 2, all outcomes of the initialisation; counter of 16, bound of 5; 303820 states | what the result of every call means, that every call returns, and that the waits last as long as they say |
| `sd_slow_write` | `SDDisk`, the same | expected to fail: `SlowWriteWritesBuffer` |
| `netlink` | `NetLink`; 2 PHY modes, otherwise unbounded; 94640 states | when `DHCP_state`, link, address and client agree, and that DHCP comes to rest |
| `eth` | `EthRx`; ring of 4, frames {1, 2}, `Bounded`; 554974 states | that frames are handed over intact, in order and in time, and that the DMA is never left without a descriptor |
| `eth_context` | the same | expected to fail: `ContextIsReal` |
| `eth_tx` | `EthTx`; 3 senders, ring of 4, frames of 1 and 3 pbufs, up to the first overlap; 1.37 million states | when a frame is whole and its memory its own, when it finds no room, when sending stops for good |
| `eth_tx_first` | the same | expected to fail: `FirstMarked` |
| `sql_chunks` | `MCSqliteVfs`; files of up to 3 bytes, buffer of 2, at most 4 calls; 165956 states | that the layers implement `VfsFile` but for four departures; the buffer is not overrun; a write returns |
| `sql_comments` | `MCSqliteVfsComments`; one byte value, at most 6 calls | expected to fail: `SomeSentenceHolds` |
| `posix` | `MCPosixFiles`; 2 tasks, 2 descriptors, 2 files, 1 directory, 2 entries in the table of open files; 178130 states up to symmetry | that the table counts what is open, that descriptors are not lost, and that the layer implements `FileSharing` |
| `mount` | `SDMount`; 2 writes for the FAT; 8092 states | what a boot makes of the card, and what stops the processor |
| `logging` | `Logging`; 2 tasks with 2 messages each, 5 blocks, queue of 2; 302713 states | that every block has one owner, and that the log implements `LossyLog` |

Why the bounds are enough. SDDisk: a second sector and requests of two sectors
are what an off-by-one, a wrong advance or a stray write needs; two contents tell
stale data from fresh; a queue of 2 is below the 10 of the build, so that
`PostFindsRoom`, which the proof shows for every size from 2 on, has the least
room; everything else is unbounded, so any number of calls, failures and late
completions is explored. TickWait: every start value and every pair of times up
to a whole turn. NetLink: `tries` is capped at 6 (`TriesCap`), above which no
comparison of the code tells two values apart; a second mode shows a stale one.
EthRx: the ring of 4 is that of the build, two frames tell an overwritten buffer
from an intact one. `Bounded` cuts off what follows `refilled`, and states with more
frames waiting than descriptors, which a sound ring does not reach (`Ring` in the
proof): a broken ring loses frames without end.
SqliteVfs: two writes fill the buffer of 2 partly, wholly and beyond, inside,
beside and across it, with gaps, in a file of 3; two more calls synchronise, read,
or fail again. Two byte values suffice as bytes are only moved. EthTx: three
senders are all there are, and nested three deep they fill the ring of 4 of the
build; a frame of 3 pbufs takes two descriptors, one of 1 takes one; what happens
after the first overlap is not in the model (`NoOverlapYet`). PosixFiles: two
tasks meet at every pair of steps, two descriptors and two entries run out, two
files can be confused; `MaxReaders` cuts off states with more than two opens for
reading in one entry. The code has no such bound: after 255 opens of one file for
reading that were left behind without a mount in between, the next would make
its counter `WriteMode`. The proofs are for every bound up to 255.
SDMount: a FAT of two writes has a state in which one is done and one is not;
nothing else is bounded. Logging: five blocks are as many as the proof of
`MemoryBounded` says can be in use here; in a queue of 2 messages stand behind one
another, so that its order matters, and the four messages fill and overflow it. What
the bounds of `sql_chunks`, `eth_tx`, `posix`, `mount` and `logging` leave open for
their safety properties the proofs close.

Fairness. `SDDisk`: weak fairness of the task inside the driver (it is never
blocked without a timeout, and the tick runs); none of the hardware. So
`EveryCallReturns` holds for a card that never answers. `NetLink`: weak fairness of the
loops of `DHCP_Thread`, the link thread, the default task and of lwIP's timers,
each an endless loop with a delay, or a timer thread of higher priority; none of
the cable and the server, and `EventuallySettled` is about behaviours in which
these come to rest. `EthRx`: weak fairness of the interrupt and of EthIf, which
nothing but the interrupt preempts; none of the DMA, the network and the link.
`Logging`: weak fairness of the logging task, which has the highest priority
(`configMAX_PRIORITIES - 1`) and polls the UART with a timeout; none of the tasks
that log. The other modules state safety only. The models have no starvation of a
lower-priority thread: the threads above it all block.

## 4. What the code does not keep

Each of these has a run that exhibits it.

- `sd_diskio.c:398`: a write from a buffer that is not 4-byte aligned stores the
  driver's scratch block, and copies it over the caller's data (`sd_slow_write`).
- `stm32h7xx_hal_eth.c:802`: starting reception again sets bit 30 of descriptors
  that hold frames not yet taken; the driver takes the second such frame for a
  context descriptor, loses it, and never gives its descriptor back
  (`eth_context`).
- `stm32h7xx_hal_eth.c:2876`: a frame that finds the ring full takes the mark of a
  first descriptor from a frame that is still waiting for the DMA
  (`eth_tx_first`).
- Three methods of the VFS do not do what the comments above them say. The
  counterexample of `sql_comments` is one behaviour in which no call returns an error
  and all four things are seen.
  - `sqlite_os_freertos.c:463`: Truncate returns `SQLITE_OK` and does nothing.
  - 515: FileSize asks FatFs, which does not know of the bytes that wait in the FILE.
  - 381: a device error in `fread` is answered as a short read with zeros, which SQLite
    takes for the end of the file.
  - 367: a read from beyond the end seeks there, and `f_lseek` (`ff.c:4134`) makes the
    file longer by whatever its clusters hold. SQLite reads 16 bytes at 24 each time it
    locks a database again, an empty one too.

Seen in the same code and in the models as it is, without a run of its own; the
property whose condition is about it is named.

Disk and card:

- A completion whose wait was given up after 30 s stays in the queue and completes
  the next read, which returns `RES_OK` with whatever was in the buffer
  (`sd_diskio.c:267`; `~late` in `FastReadSound`).
- An unaligned read whose wait for one sector times out still returns `RES_OK`
  (`sd_diskio.c:290`; `~missed` in `SlowReadSound`).
- The deadline of the wait after a fast write wraps, so that for 30 s in every 49
  days a write that was stored is reported as failed (`sd_diskio.c:371`; the
  condition in `DeadlineNotEarly`).
- The drive is marked initialised before the attempt (`diskio.c:99`); if that fails
  after the card was identified, a later mount succeeds without a message queue,
  and the first completion interrupt stops the processor in the `configASSERT` of
  `queue.c:929` (`fault` in `StopsOnlyAfterFault`).
- A card that is pulled or plugged stops it as well: the card-detect interrupt posts
  to `ConnectionEvent`, which only `FS_AppThread` would create, and that is
  commented out (`StopsOnlyAfterFault`).
- One failed read while mounting is enough for a FAT32 card to be formatted
  (`fatfs.c:466`, 472-475; `fault` in `SparesFat32`), and a `workBuffer` that is not
  aligned makes a format write junk (`fatfs.c:78`; `aligned` in `BootRecovers`).
- A card too small for FAT32 (`ff.c:5564`) boots with nothing failing and no volume;
  a red LED and `isFsCreated` say so, and nobody looks at the flag (`fatfs.c:475-479`;
  the second case of `BootRecovers`).
- `CTRL_SYNC` answers without asking the card (`sd_diskio.c:446`).

Files:

- A flush of the VFS that fails empties the buffer; the error goes to whichever
  call ran into it, and the next Sync returns `SQLITE_OK`
  (`sqlite_os_freertos.c:297`, 467; `VfsFile` promises nothing after an error until
  the file is closed). Close overwrites the result of its flush (318), a `stat` that
  fails for any reason makes Open empty the file (982), and the locks do nothing
  (534), which is right for the one connection the build has.
- `f_sync` marks the file as unmodified although `sync_fs` failed (`ff.c:3785`), so
  a second attempt would not repeat it.
- An `f_close` that fails leaves its entry in the table of open files, and the
  wrapper frees the object all the same; `truncate` never closes its object, and a
  second `opendir` forgets the first (`leaked` in `LocksReleased`). Of these calls
  only `fat_open` and `fat_close` have users in this build.
- `filehandle_mutex` is created on first use without protection
  (`fatfs_wrapper.c`); only the web server's task uses files. The return with the
  mutex held after a failed `ff_malloc` (236-241) is not a step of the model: the
  hook for a failed allocation never returns (`freertos.c:212`).

Network:

- The initial tail pointer lies behind the ring (`stm32h7xx_hal_eth.c:2704`). If the
  ring is full when the first descriptor is given back, the DMA may fill it between
  OWN (1429) and the tail pointer (1446), and a later frame is delivered in the place
  of an earlier one. If it does so within the `SET_BIT` of 1433, the store either makes
  a context descriptor of the frame or gives it to the DMA again; the frame is lost
  then, and driver and DMA can come to wait at different descriptors for good
  (`~refilled` in `Sound`, the condition of `DeliveredIntact`).
- A link that comes back while `DHCP_Thread` stops the client is forgotten; DHCP
  stays off with the cable in (`lwip.c:152`). The same unprotected store at line 118
  can report an address of a client that was just sent back to discovery
  (`~raced` in `AssignedMeansAddress`). `dhcp_start` and `dhcp_stop` are called
  without the core lock (`lwip.c:111`).
- After a DHCP timeout the "static" address is 0.0.0.0 and nothing retries until
  the cable is replugged (`lwip.c:136`).
- After a first link-up, a poll that reads neither link-down nor a mode
  (negotiation running, or a failed register read, which is negative and kept in an
  unsigned variable) brings the interface up with the previous mode
  (`ethernetif.c:849`).
- A `pbuf_alloc` that fails ends EthIf's loop (601), and with a full ring no
  interrupt starts it again (`~dropped` in `NoLostWakeup`).
- After four frames whose wait was given up every descriptor belongs to the DMA and
  the tail pointer is at its position: nothing is sent again until a reset
  (`StallsOnlyFull`). The pbuf of such a frame is freed while its descriptor still
  points at it, and the DMA sends what is there by then when the link is back
  (`late` in `SentIntact`).
- `low_level_output` drops the result of `HAL_ETH_Transmit` and returns `ERR_OK`.

## 5. What is proved

Every theorem holds for every value of the constants that satisfies the named
assumptions.

`SDDiskProofs`, from `SDAssumption` (at least one sector, a request of at least
one, a queue of at least two, `Junk` no datum). `TypeOK` and the three properties
are not inductive by themselves; `Core` adds what is known at each point of a call
(`CallInv`), of the HAL (`HalInv`: busy exactly while a transfer runs, which lies
on the card) and, for the count, `CountInv`: completions asked for and not yet
taken are at most one outside a wait and two within one. That holds although
waits are given up, because a new transfer is refused while the HAL is busy, and
a given-up wait leaves either the running transfer or its message, and a call
whose wait finds an old message takes it. `OnTime` says that without a given-up
wait transfer and message exist only in the wait for them. From `Core`:
`TypeCorrect`, `CompletionFindsRoom`, `NoDanglingTransfer`, `MessageIsOwn`.

On the data it adds `DataInv`: when the data have moved, buffer and sectors
agree, for the path taken; it depends on `OnTime` for whose data they are. From it
`FastReadIsSound`, `SlowReadIsSound`, `FastWriteIsSound`, and with one lemma on
the steps that change the disk the action property `WritesStayInRequest`.
`CallsShorten` bounds a call: `StepsLeft`, at most two for each sector and three,
falls with every step of the driver and changes with no other. It is the part of
`EveryCallReturns` that is not about fairness. `SlowWriteStores` says what the write
does that `sd_slow_write` finds at fault: with all its messages, it leaves the
scratch block in every sector of the request and in the caller's buffer, so that the
data is lost in both places; `SlowWrite` is its invariant.

The same module has the proofs about the driver's waits (`TickWait`), from
`TickAssumption` (the bound is positive and below the wrap): modular subtraction
undoes modular addition, so the difference is the elapsed time (`SinceIsExact`), and
the loop after a fast write gives up too early only if its deadline wraps
(`DeadlineIsNotEarly`).

`NetLinkProofs`, from `ModesAssumption`: `IInv` has `Unraced`, which ties each
position of `DHCP_Thread` to the state it has seen, the client stopped in the
states that stopped it, and a lease to the address; a race breaks all of it and
the next link change outside an iteration re-establishes it, so it is stated
under `~raced`. From it `NetTypes`, `LinkIsNoted`, `AssignedHasLease`,
`GivenUpIsStopped`. Two more theorems are what `EventuallySettled` rests on, the
fairness apart. `RestComesNearer`: with cables and server at rest, unraced and the
client started (`Started`, inductive besides), a step either ends in `Settled`,
lowers `Rank`, or is one of `LooksOn`, a look of `DHCP_Thread` at a client whose timer
still runs or the start of the web server. `Rank` weighs, in this order, a link change not
yet noticed, the position before the wait, the timeouts the client may still have
(twelve at most), and the way out of the wait; it is at most 932. `RestIsKept`: in
`Settled`, with no link change to notice, the threads and timers stay there.

`EthRxProofs`, from `RingAssumption` (at least two descriptors) and
`FrameAssumption`: `Count` says that the frames waiting are at least as many as the
descriptors the driver holds, `LinkInv` what the stages of stopping and starting
leave, and `Ring` that the waiting frames lie in the ring from `CurRxDesc` to
`dma`, in the buffers of the descriptors that the driver owns and no others;
`Taken` is the frame in EthIf's hands. While it is copied it is safe because `tail` is
its descriptor and `CurRxDesc` the next; while its descriptor is on the way back,
because the pointer still names the one before, which leaves the DMA at most the ring
but for two: so it cannot have come round to it, unless the pointer was never written.
`Ring` and `Taken` are stated for a sound ring. From it `EthTypes`, `FramesIntact`,
`WakeupKept`, `RingStaysReady`. `ContextsAreForged` says where a context descriptor can
come from: `SetIOC` over a ring in which frames wait, which is the finding of
`ContextIsReal`, or a descriptor `refilled` between OWN and IOC. `FrameComesNearer` is `FrameTaken` without
the fairness: while a frame waits there is a step of the interrupt or of EthIf to take
(`NotStuck`), each of them lowers `Distance`, and nothing raises it, at most
`3 * ETH_RX_DESC_CNT + 5` in all.

`LoggingProofs`, from `LogAssumption`: `Owners` says who has each block, `Texts`
that what is on its way is no message of a call still under way (so that nothing
is accepted twice), and `Numbers` that, until two tasks take a number at once,
the counter is the number of numbers taken. From `Owners` follow `OneOwner` and,
by counting, `MemoryBounded`; from `Numbers` follows `NumberedInOrder`; and from
`Owners` and `Texts`, that each step is one of `LossyLog`'s or invisible to it
(`LogIsLossyLog`, the safety part of the refinement). `TasksPrintInOrder` says what
that is worth to a task: the line of what is printed and what waits keeps its
messages in the order of its calls, which printing does not change. For the liveness
of `KeepsLog`, `MessagesComeNearer`: `Turn`, at most `2 * QueueLength + 1`, falls by one
with each step of the logging task and with no other, and while a message waits
that task has a step to take.

`SDMountProofs`, from `FatWritesAssumption`: `Parts` says what the card holds between
any two writes of a format, `Sound` that a card is never left looking like a
volume without being one, `Mounted` that a mounted volume is on the card, and
`Faultless` what a boot relies on while nothing has failed. The writing of the
partition table last is what makes `Sound` inductive. From them `MountTypes`,
`MountsWhole`, `BootsRecover`, `Fat32Spared`, `OnlyCardDetectStops`.

`PosixFilesProofs`, from `PosixAssumption` (finitely many tasks and descriptors,
names apart). `LocksHeld` is not inductive: that a close does not free the entry
of another open needs the counters to be as large as what is open. `Table` relates
file objects, directory object, table and the keys left behind: every open object
finds its entry, no two entries have one key, and each counts at least the objects
that are open, exactly if its key is not among those left behind. Each way in
which the code changes the table has a lemma that keeps `Table` (`OpenKeeps`,
`CloseKeeps`, `ForsakeKeeps`, `RemountKeeps`, `OpenDirKeeps`, `CloseDirKeeps`); they
rest on how the cardinality of the holders of a file changes (`CountChange`).
`Control` is what a task between two calls of FatFs knows of its object whatever
the others do. From these `DescriptorsKept`, `LocksAreHeld`, `LocksAreReleased`, and
with `Named` (what is open has its entry in a directory), which `FileSharing`
itself keeps, the refinement `SharingImplemented`. `PosixTypes` adds the directory
and the mount.

`SqliteVfsProofs`, from `SizeAssumption`. `IInv` adds to the types what the layers
have to do with one another: what the FILE holds lies within the file, what FatFs
has of the file was handed to the card (`Sound`), neither the buffer nor the write in
progress reaches past the largest file, and a file that is not open holds nothing.
Each way of handing bytes down has a lemma that says what it may leave, as a set of
handles (`ExtendedIs`, `FlushIs`, `FseekFailsIs`, `FwriteIs`, `DirectWriteIs`,
`FlushBufferIs`): what was handed down, and any byte where a byte was missing
(`OrJunk`, with its three small lemmas). `KeptIs` turns that into what a crash may
leave, which is what the refinement needs at each step. `SizeKnown` places what FatFs
takes for the size between two others, and `EndMoves` says what a read does to the
end.
`BufferIsLargeEnough` follows. The model gives the outcomes of one iteration of the
loop of a write as a set (`WriteOutcomes`), from which that iteration chooses; that
the set is never empty while bytes are left, and every member leaves fewer, is
`WritesReturn`, the whole of `WriteReturns`. Then, action by action, every step is one of
`VfsFile`'s, one of the four departures, or changes nothing of it
(`VfsImplementsFile`).

`EthTxProofs`, from `SendersAssumption`, `TxRingAssumption` (at least two descriptors)
and `LengthsAssumption`. `IInv` says, until two calls meet: at most one call fills
(`Alone`); from its position on the DMA owns `m` descriptors that were published
and `q` that this call has filled (`Owned`, `Filler`); these hold whole frames, one
behind the other, of which the first may be partly read and the last partly filled
(`Frames`, `Unfinished`); and, before a wait is given up, each belongs to the call
that fills or to one that waits for a later descriptor (`Owners`). Everything is
counted in distances ahead of the DMA, so that its step takes one off each of them,
`Publish` turns `q` into `m`, and a refused frame gives back exactly its `q`. From it
`EthTxTypes`, `FramesAreWhole`, `SentIsIntact`, `OnlyFullStalls` and, by counting,
`RoomIsFound`. That one has a hypothesis: the ring has an even number of descriptors,
as the build's has (four, `stm32h7xx_hal_conf.h:212`). In an odd ring it is false:
in one of three a call that waits for two descriptors and one that has filled the
third leave no room, with only one call waiting. The finding of `eth_tx_first` is made
exact by two action properties about the marks of first descriptors (`AllMarked`), until
two calls meet in the ring: `MarksLostByRefusal`, a mark goes wrong only with a call
that is refused half way through its parts, and `MarksLostByCrowding`, in an even ring
that takes a wait given up or two other calls that wait.

Only model-checked: liveness (`EveryCallReturns`, `EventuallySettled`, `FrameTaken`,
and that of `KeepsLog`), which needs fairness and ENABLED; of each of the four the
part that needs neither is proved (`CallsShorten`, `RestComesNearer` and `RestIsKept`,
`FrameComesNearer`, `MessagesComeNearer`): that the steps that fairness promises lead to the
end, and how many suffice. Every invariant of the passing runs is proved. The
expected violations are counterexamples and stay with TLC; the theorems named above
say how far each of them reaches.

## 6. What is not modelled, and the plan

Next, in this order:

1. What comes of two senders that overlap before the tail pointer is set.
2. `PosixFiles` below `SqliteVfs`: the calls of the one as the transfers of the
   other.

Not planned: cryptography, HTTP and SQL themselves, TCP, the scheduler and the
other vendored libraries, which are modelled only from how this program uses them;
board configuration and clock set-up (straight-line register writes); the SQLite
mutex methods (compiled out), the TLS samples (never started in this build); the
clock (straight-line calls from one task); the random number source (what matters
there is distribution); received frames longer than a buffer and bus errors;
performance. The vendored code, headers and tables are most of the repository's
lines, so the share of all lines that the models stand for is small; of the
application's own files with state, each is the subject of a module.
