# A verification project for Bochs

TLA+ models of the parts of Bochs where the order of events decides whether a
guest works: the clock that drives every device, the interrupt controllers, the
logic by which a processor accepts asynchronous events, the keyboard controller,
the caches of decoded code, and the disk images that grow as they are written. Each module is
translated from the C++ under `src/bochs`; TLC checks it on small instances and
TLAPS proves every safety property of the passing runs for every value of the
parameters, some of them for the guests that their theorem describes.

## The system

Bochs emulates a PC. `cpu_loop` decodes and executes one instruction after the
other; after each one (or each trace of them) it calls `tick1` or `tickn` of
`bx_pc_system_c`, whose countdown calls the timers of the devices. Devices run
only inside such callbacks, inside the port and memory accesses of instructions,
and inside the wait loop of a halted processor. They raise interrupt lines at the
8259 pair and the I/O APIC, which raise events at the processors; a processor
looks at its events between instructions, and only if `async_event` tells it to.
With several processors, `bx_begin_simulation` runs each for a quantum in turn.
So there is one host thread for the guest, and the hard part is not parallelism
but the order in which callbacks, acknowledges, withdrawals, masks and sleeps
happen to follow each other.

| component | state | operations | talks to | hard behaviour | what makes it correct |
|---|---|---|---|---|---|
| timer framework, `pc_system.cc` | slots, one Bit32u countdown, the clock | register, activate, deactivate, unregister, tick1, tickn, countdownEvent | every device, by callback | callbacks re-enter it; deadlines are compared with `==` | no deadline is stepped over, the countdown never wraps |
| 8259 pair, `iodev/pic.cc` | IRR, ISR, IMR, INT of two chips, modes | raise/lower, command words, IAC | devices, CPU (INTR), I/O APIC (same wires) | a request changes between INT and IAC; cascade of two chips; re-initialisation | nothing pending is forgotten, INTR and cascade follow INT, handlers nest |
| CPU events, `cpu/event.cc`, `exception.cc` | pending and masked events, `async_event`, activity state, SMM, shadows | signal, accept, deliver, sleep, wake, IRET, RSM, INIT, SIPI | PIC, APIC, DMA, timers | a hand-kept summary flag; longjmp out of half-done work; SMM inside NMI | no event is lost, sleepers do not run, NMIs do not nest |
| local APIC, `cpu/apic.cc` | IRR, ISR, TMR, LVT, timer | deliver, acknowledge, EOI, IPI | CPU, I/O APIC, other APICs | priority changes between INTR and acknowledge | an accepted vector is delivered once |
| I/O APIC, `iodev/ioapic.cc` | pins, redirection entries, remote IRR | set level, service, EOI | PIC wires, local APICs | level lines that stay up over EOI | no level interrupt lost or stuck |
| virtual timer, `iodev/virt_timer.cc` | a second timer array, real-time sync | as the framework | PIT, CMOS, ACPI | system timer and wall clock disagree | virtual time is monotone, no deadline lost |
| DMA, `iodev/dma.cc` | channels, masks, HRQ/HLDA | register writes, DRQ, transfer | CPU bus hold, floppy, sound | DRQ changes while the bus is granted | counts and terminal count exact |
| 8042, `iodev/keyboard.cc` | one output buffer, three queues, IRQ requests | commands, reads, timed transfer | PIC, GUI, mouse | commands, reads, keys and a timer that disarms itself all fill the buffer | nothing waits for a timer that does not run, offered bytes are announced |
| PIT, CMOS, HPET | counters, comparators, status | writes, timer callbacks | PIC, I/O APIC | wrap-around, skipped ticks | interrupts at the programmed rate |
| instruction cache, `cpu/icache.cc`, `stack.cc` | decoded instructions and traces, page write stamps, the stack cache | fetch, merge, write, flush | memory, other CPUs, DMA | a write while a trace runs; writes that look at a copy of the stamps; code across a page boundary | no stale code |
| TLB, `cpu/paging.cc` | TLB entries | walk, fill, invalidate | page tables | stale entries | no stale translation |
| disk images, `iodev/hdimage` | redolog catalog, bitmaps, one cached bitmap | open, seek, read, write, commit | host files, ATA, SCSI, USB | several host writes per sector; a kill between them | a block device: writes take effect at once, others are left alone |
| disks: ATA, IDE busmaster, floppy | command phase, sectors | commands, timers, image I/O | PIC, DMA, images | timers and commands cross | each command ends in one interrupt |
| serial, network, USB, sound, display | FIFOs, rings, host I/O | registers, host callbacks | PIC, host | late host answers | queues keep order and bounds |
| decoder, instruction execution, softfloat | none beyond registers | pure functions | - | arithmetic | equals the architecture |
| GUI, config, plugins, debugger, save/restore | options, host state | - | user | - | - |

`PROJECT.json` lists every component with its status, and the hazards at their
source lines.

## Modules

### PcTimers, TimerService, PcTimersProofs

`PcTimers` is `bx_pc_system_c`. The array of timer structs is kept field by field:
the boolean fields are the sets of slots where they hold, the others are
functions on slots. `RegisterTimer`, `ActivateTimer`, `DeactivateTimer`,
`UnregisterTimer`, `Tick1`, `Tickn` and `TimeUsecSequential` are the public calls;
`CountdownEvent` is the part of `countdownEvent` that computes the triggered
timers and the next countdown; `CallTimer` and `CallbackReturn` are its call loop,
so that a callback can make every timer call in between, and `TicknResume` is the
rest of the loop of `tickn`. The countdown keeps its width: `Word` stands for 2^32.

`TimerService` is what devices rely on: a clock that never passes a deadline and
one call per reached deadline before the clock moves again, with no countdown.
`PcTimers` implements it (`ImplementsTimerService`).

### Pic, MCPic, PicProofs

`Pic` is the pair of 8259s. A chip is a record of its registers; IRR, ISR, IMR and
the level configuration are sets of lines, `IRQ_in` the kinds of sources that hold
a line up (the code's `IRQ_in` bit mask). `pic_service` is an operator on the pair because servicing the
slave raises or lowers the cascade input of the master, which is serviced in turn.
The actions are the two entry points of devices, every initialisation and
operation command word, the polled read, `IAC` and `reset`. `wires` mirrors what
`set_irq_level` tells the I/O APIC. The number of lines per chip is a constant; the
cascade stays at input 2. `MCPic` defines the wirings and command sets of the runs.

### CpuEvents, CpuEventsProofs

`CpuEvents` is one processor of the build without VMX, SVM and user interrupts.
`pc` is "check" where the loop tests `async_event`, "exec" where the next instruction runs,
and in between the stage of `handleAsyncEvent`, in the order of its priorities;
"deliver_exception" and "deliver_interrupt" are the two ways of being inside
`interrupt()`, which may fault. Instructions are abstracted to what they do to this
state: nothing (`Plain`), `STI`, loads of SS, of the flags, IRET in its two halves,
RSM (and RSM from an image that cannot be restored), HLT and MWAIT, an instruction
that records a debug trap, an OUT that resets the machine (`GuestReset`), a fault. The
environment (devices, timers, other processors, the GUI) acts at "check" only, as in the
code. `Reset` is `bx_pc_system_c::Reset`: of the devices of a hardware reset only the
floppy controller touches the bus request, and it need not be there, so `HRQ` falls or
stays. `OutsideReset` is a reset by another processor or the reset button; the wait
loop of a sleeping processor then goes on with the rest of `handleAsyncEvent`. `nmi_handlers` is a history variable: the modes (SMM or not) in which an NMI
handler has not yet executed IRET.

### Apic, MCApic, ApicProofs

`Apic` is the I/O APIC and the local APICs in xAPIC mode. The bus between them is a
function call, so an entry point runs to its end with everything it delivers: a line,
a write to a redirection entry or an EOI is one action. The registers are sets of pins
(`intin`, `irr`) and sets of vectors (`lapic_irr`, `isr`, `tmr`); an entry is a
record. `service` is `service_ioapic` for the entries that fire together with
`service_local_apic` for the processors concerned. A destination is the pair of the processors that it names
as a physical id and as a logical one. `intr` is the event
`BX_EVENT_PENDING_LAPIC_INTR` of `CpuEvents`. `dropped` is a history variable: the
level triggered vectors that an INIT erased from a local APIC, which nobody will end.

The delivery status bit is left out (nothing reads it but the guest). IER, the LVT and
its timer, the error register, x2APIC, the legacy APIC and the delivery modes SMI, NMI and
INIT are not modelled. The guest programs vectors from 16 only (`trigger_irq` refuses
the others), sets up LDR and DFR beforehand and again before anything is sent after an
INIT (which clears them; a write to them does not look at the I/O APIC again), and enables specific EOIs again after an
INIT if it uses them.

### Redolog, BlockDevice, MCRedolog, RedologProofs

`Redolog` is `redolog_t` with the images built on it: an undoable image is a
read-only base and a redolog file; a growing image is the case of a base of zeros
that is never committed, a volatile one is never reopened. The file is
`disk_catalog` (extent of the disk to extent of the file), `disk_bitmap` and
`disk_block`; what `redolog_t` keeps in memory (`catalog`, `extent_next`, the one
cached `bitmap` and `bitmap_update`, `imagepos`) has variables of its own, because
the two can differ. A write is one action per host write (zero the bitmap, zero the
extent, data, bitmap, catalog), with `pc` in between. `Stop` closes the image or
kills the program at any of these points; the host does not crash, so what was
written stays. The host may refuse the data of a block (`WriteData(FALSE)`). The
commit by `bximage` copies block by block, may fail at each, and may be killed. The order of
the blocks is free, and an error skips any of them, which covers the nested loops.

`BlockDevice` is what `device_image_t` promises its users. `Redolog` implements it
(`ImplementsBlockDevice`): `content` is what the files say of each sector, and a
pending write takes effect at the moment that its sector changes.

### Keyboard, MCKeyboard, KeyboardProofs

`Keyboard` is `bx_keyb_c`. `s` is the struct of the same name with `timer_active`,
and the operators on it are the functions of the source; `irq_lines` are the two
lines to the 8259. Bytes have no contents: `controller_Q` keeps their sources, the
buffers of keyboard and mouse their lengths. Commands that only change what an
answer says are taken together by how many bytes they answer (`KbdCommands`,
`MouseCommands`). A read of port 60h that finds nothing offered changes nothing
and is no action. `Restore` is `after_restore_state` in a new process.

### ICache, MCICache, ICacheProofs

`ICache` is the instruction cache with the trace cache of one processor, the page
write stamps, the ring of traces that cross a page boundary and the stack cache.
Memory has no contents: a decoded copy is `fresh` until a write to one of its
128-byte lines leaves it in place, and a trace made from copies is as fresh as they
are. One address per line is looked at and all pages share the entries of both
caches, so that evictions happen. `fetchModeMask` moves an entry among `Group`
lines. `TraceMiss` is `serveTraceCacheMiss` with `mergeTraces`, `SplitMiss` its case
of an instruction that crosses into the `following` page (`boundaryFetch`),
`ICacheMiss` the fetch of the debugger or of another processor. `Written` is
`decWriteStamp` with `handleSMC` and then the write. `smp` is the build: without
SMP, writes through the stack cache call `decWriteStamp` only if the page had stamps when
the cache was filled. A trace that `STOP_TRACE` ends is no longer `running`.
When the pool of instructions or the time stamp of the links reaches its end, the trace
cache is emptied, which may happen at any fetch or write here.

## Runs

| run | instance | shows |
|---|---|---|
| `pc_timers` | 3 slots, `Word` 3, periods 0 and 4 (within and beyond the countdown), 2 callbacks, 4 ticks, two per microsecond, up to 3 microseconds claimed ahead | type invariant, no timer missed, countdown in range, tickn exact, slots not stolen, sequential time increases, refinement of TimerService, tickn returns (fairness) |
| `pic_nested` | 4 lines per chip, an ISA and a PCI line on the master, a shared line and an ISA line (line 2) on the slave, masks, both EOIs, edge and level | no request forgotten, cascade kept, nesting, I/O APIC levels; a slave request is served (fairness) |
| `pic_commands` | a line per chip; ICW1..ICW4 of either chip at any moment, automatic EOI, special mask and poll on the master, rotation and set priority on the slave, reset | INTR follows INT, the cascade follows the slave, no line announced while in service |
| `cpu_events` | bootstrap and application processor, all events, gates, traps, sleeps, INIT and SIPI; hardware and software resets; shutdown and reset on triple fault | no event overlooked, sleepers do not run, mask mirrors IF, NMIs do not nest, only a reset forgets a bus request; an unblocked NMI is taken (fairness) |
| `cpu_events_triple` | NMI only, shutdown on triple fault | violation: after a shutdown ended by NMI, the double fault is still recorded |
| `apic` | 2 processors; an edge triggered pin (fixed and ExtINT) and a level triggered one (fixed to one processor, lowest priority to both); an IPI of a higher class, both EOIs, two task priorities, INIT, reset | no wake-up lost, handlers nest, level inputs follow their lines, nothing deliverable stays behind, every awaited EOI will be sent |
| `apic_shared` | 1 processor, two level triggered pins with one vector | violation: after an EOI the vector is requested without its TMR bit |
| `redolog` | 2 extents of 2 blocks, two contents, a base of zeros and one with contents, one block per request | a block device, memory agrees with the file, the catalog never runs full |
| `redolog_burst` | the same, requests of 2 blocks | violation: the second block of a read comes from another position |
| `keyboard` | queues of 2, 3 and 1 bytes, packets of 2, 2-byte scan codes; controller, keyboard and mouse commands of every shape | queues in bounds, nothing stuck, offered bytes announced; bytes are offered (fairness) |
| `icache` | 2 pages of 4 lines, groups of 2, five instructions in two modes, one crossing instruction per mode, a ring of 2, builds with and without SMP | cached and running code is what memory holds |
| `icache_split` | the same, and an instruction may end in the page of the stack cache | violation: a push over its second half leaves it cached |

Bounds. In PcTimers what matters is whether a period is shorter than, equal to or
longer than the rest of the countdown, and how many timers meet in one event:
`Word` = 3 with periods 0 (taken as the shortest) and 4, armed at every clock, gives all of them, and three slots give a null
timer, a timer that moves and one that stays. `MaxTime` bounds the clock; it also
plays `BX_MAX_BIT64S`. With `MaxClaims` = 3 the sequential clock can be claimed two
microseconds ahead and asked again after one has passed, so that it catches up by less
than was claimed. In Pic one line above and one below the cascade on the
master and two lines on the slave show every relation of priorities; the tables of
commands are split over two runs because their product is large. CpuEvents and Apic are
finite and unbounded: all their state is explored. In Apic, vectors 33 and 34 share a
priority class and 50 is above them, and the task priorities 0 and 32 are below and
at that class; the instance is small because the proofs cover the others. Redolog
needs two extents (another bitmap to confuse, and a second allocation after a kill
lost the first) of two blocks (one present, one not). In Keyboard a full and an
empty queue, a packet that does not fit and a scan code of which only the first
byte fits all occur. In ICache four lines are two groups, so that the scan of
`handleSMC` ends early, and a ring of two wraps around.

Fairness. `PcTimers!FairSpec` assumes that callbacks return and that the call loop
and `tickn` go on, which is what C++ control flow guarantees. `Pic!FairSpec` assumes a guest that
acknowledges and ends its interrupts. `CpuEvents!FairSpec` assumes only that
`cpu_loop` goes on while it can take a step. `Keyboard!FairSpec` assumes that an active timer
fires, which `PcTimers` shows, and a guest that reads what is offered. Deadlock is
checked in every run but those whose cfg says otherwise: where the bounded clock ends the behaviour,
and in Redolog, where an interrupted commit leaves a redolog that no longer
matches the time stamp of its base and is refused from then on.

`NmiServed` is stated for machines that reset on a triple fault: one that shuts down
keeps the double fault on record (`cpu_events_triple`), and a single-step trap may
shut it down again before it gets to the NMI. `BytesOffered` speaks of a guest that has stopped writing commands, and lets the mouse wait as long as
keys keep coming, because the transfer prefers the keyboard.

## Proofs

TLAPS proves, for every number of slots, width of the countdown, set of periods
and behaviour of the callbacks (`PcTimersProofs`): type correctness,
`NoTimerMissed`, `CountdownInRange`, `TicknExact`, `HandlerKept`, `SequentialTime`
and the refinement of `TimerService`. The inductive invariant `TimersInv` adds to the types that
the null timer is always armed with the longest countdown, that every active
timer lies in the scanned slots with a positive period, and that none is due
before the end of the current countdown. The last part is what every operation
must restore (`SkewKeepsTime` for an earlier timer), and the first is why the
distance to the next event always fits in a Bit32u. `TicknExact` and the
refinement need it; `SequentialTime` needs `ClaimInv` besides.

For every processor configuration (`CpuEventsProofs`): type correctness,
`NoLostEvent`, `SleepersDoNotRun`, `MaskMirrorsIF`, `NmiNotNested` and `BusRequestKept`. They are not
inductive one by one. `CInv` adds `SleepInv` (asleep implies `async_event`; gates,
IRET and instructions are reached awake), `SipiInv` (a processor that waits for a
SIPI has just been reset, so it stands at "check" outside SMM and NMI handlers, which is what lets the SIPI
unmask NMIs) and `SmmInv` (SMM masks SMI, so it is not entered twice, and
`smm_nmi_blocked` remembers an interrupted NMI handler, which RSM restores).
`RaiseKeeps` covers exceptions wherever they are raised, `StepKeeps` has one step
per action; `ResetKeeps` serves every step that resets. `BusRequestKept` then holds
step by step: what resets is exempt, and nothing else clears `async_event` while `HRQ`
is up.

For every number of processors and pins, every set of vectors from 16 and every programming of
the redirection table (`ApicProofs`): type correctness, `ReadyIsSignalled`,
`OneHandlerPerClass`, `LevelFollowsLine`, `PendingIsSent` and `RemoteIrrEnds`.
`ApicInv` adds three parts. `EntryInv`: an entry is as reset left it, which is
masked and edge triggered, or has the fields of a word that the guest writes to that
pin. `LineInv`: before a level pin is programmed it is not pending. `FlightInv`:
the vector of an exclusive pin is at one processor at most, there
requested or in service but not both, with its TMR bit, and its entry waits; this is
what makes `RemoteIrrEnds` inductive, and the shared vectors of `apic_shared` are where it fails.
The lemmas about `service` speak of registers that the operation has already changed,
so that lines, writes and EOIs share them (`Serviced`, `ServedLocally`); `StepKeeps` has
one step per action.

For every number of lines, wiring and set of commands (`PicProofs`): type correctness,
`IntrFollowsINT`, `CascadeCoherent`, `NeverReenter` and `LinesCoherent`. `Safe` is the
inductive invariant: types, INTR equal to the master's INT, the cascade input equal
to the slave's INT and driven by nothing else, never level triggered, no chip announcing a line
that it has in service, and `Levelled` for the inputs. `pic_service` calls itself through the cascade, so
no step looks inside it: `PairServed` says what any number of such calls may do to the
pair (`Prodded`: registers stay, what is announced may be announced, nothing that
waits is forgotten), and every command is a change of registers followed by such
calls. Three properties hold for some guests only, and the theorems say which:

* `CascadeNotLost` for a guest that does not poll or re-initialise the master while
  the slave announces (`MasterLeftAlone`): both take the request away from the master
  and leave the slave's INT up.
* `NestedPriority` when the command set has no rotation, set priority or special mask
  (`FixedPriorities`): each of them reorders lines that are already in service.
* `PendingSignalled` without set priority, which does not call `pic_service`
  (`NoSetPriority`), and with the master not in automatic EOI. There the early return of
  `IAC` after a spurious acknowledge of the slave leaves no line in service whose EOI
  would look at the requests again. The proof attempt found that case: the runs do not
  check `PendingSignalled` with automatic EOI.

For every size of disk and extent, and requests of any length (`RedologProofs`): type
correctness, `CacheCoherent` and `NeverFull`. `CacheInv` adds to the types and
`CacheCoherent` how far a request has come (`Requests`, `Writing`) and that catalogs
are packed (`Catalogs`): the extents of the file below `extent_next` are given away,
each once. `NextExtent` finds that number again after a kill, and `PackedRoom`, a
pigeonhole argument, turns it into `NeverFull`. The refinement of `BlockDevice`
(`Refinement`, `SingleReadsRefine`) needs `DeviceInv` besides. `Stored`: the bitmap of an extent being
allocated is empty until the one block of the write enters it, so the catalog write
shows exactly that block; and what was written is what the block holds. `Copied`: a
commit without errors has copied everything that it need not copy any more, so removing
the redolog changes no sector. `Aligned`: a read finds redolog and base at the same
position. One lemma per action shows a step of the device or none. The write takes
effect at the data write (block in the file), at the bitmap write (new block in a known
extent) or at the catalog write (new extent). `SingleReadsRefine` assumes that reads
are of one block each (writes may be longer), and `Refinement` derives it from `Burst` = 1. The
hypothesis is the complement of `redolog_burst`.

For every size of queues, packets and scan codes and every command set
(`KeyboardProofs`): type correctness, `NothingStuck` and `Announced`. They are inductive only
together: `KInv` says of a state of the controller that it fits, that the timer is
armed, that what may be sent is being sent, and that what is offered is told. The lemmas take the
parts of the operations one by one, because between two calls inside a handler only some
of these hold (after `controller_deQ`, say, the timer is not yet armed).

For every number of pages, lines, groups, modes, instructions and split traces, with and without SMP
(`ICacheProofs`): type correctness, and `NoStaleCode` if no instruction ends in the page of
the stack cache (`~SplitOntoStack`, the complement of `icache_split`). `CodeInv` says why a
write reaches every copy: `CachesGuarded` (each line that a copy was decoded from has its
stamp, the copy starts in the group of its entry or behind, where `handleSMC` scans, and
a split trace is in the ring and ends in the page mapped there), `RunningGuarded` (the
same for the trace being executed) and `StackKnows` (a stack cache that does not look at
stamps is over a page that has none).

Only model-checked: liveness (`TicknReturns`, `SlaveServed`, `NmiServed`,
`BytesOffered`), which is outside TLAPS, and the four violations.

## Findings

* `shutdown()` leaves `exception()` without clearing `last_exception_type`
  (`cpu_events_triple`): after an NMI or SMI has ended the shutdown, the next ordinary
  fault is treated as the third in a row.
* A level triggered vector that is requested again while it is in service (two
  entries with one vector, or one entry with several destinations) loses its TMR bit
  at the first EOI, because `trigger_irq` ignores a vector that is already requested
  (`apic_shared`). The second EOI is then not broadcast, and the entries keep remote IRR.
  `RemoteIrrEnds` holds for pins with a vector of their own and one target at a time.
* A request of a level triggered pin survives a change of the entry to edge
  triggered; if the line falls meanwhile, the pin is pending without a line once
  the entry is level triggered again. `LevelFollowsLine` is stated for guests that
  keep the trigger mode.
* In automatic EOI, a spurious acknowledge of the slave leaves the master without a
  line in service and without `pic_service`: a request of the master that came meanwhile
  is announced only at the next change of a line or the next command. `PendingSignalled` excludes this mode;
  nothing in the repository states what a spurious acknowledge owes to other requests.
* A reset of the processor clears `async_event` while HRQ may be up, so a DMA request
  may wait for the next event: INIT and software resets (ports 92h and 0xCF9, the
  8042) leave HRQ alone, and a hardware reset lowers it only through the floppy
  controller. `BusRequestKept` states resets as the one exception; nothing in the
  repository states what a reset owes to the bus.
* `redolog_t::read` does not advance over a block that it does not have, and the
  base does not advance over one that the redolog has. The SCSI disk and the floppy of the USB
  code read several blocks after one `lseek` and get the wrong ones on growing,
  undoable and volatile images (`redolog_burst`). The ATA disk seeks for every
  sector and is not affected.
* Without SMP, an instruction that crosses into the page of the stack cache is not
  protected against pushes (`icache_split`): `serveTraceCacheMiss` compares only the
  first page with `pAddrStackPage`.
* By reading only, outside the abstraction of the models: `raise_irq` ignores a PIRQ
  that rises while an SCI holds the same input, and when the SCI falls the line falls
  with it although the PCI device still asserts; `kbd_enQ_imm` puts an ACK
  into the output buffer while a mouse byte waits there, and the read of that byte
  drops the ACK; a command byte that forbids IRQ 12 but allows IRQ 1 while a mouse
  byte waits raises line 1 and nothing lowers it; `redolog_t::write` ignores the
  results of its zeroing, bitmap and catalog writes; a split trace is found by the
  physical address of its first page, so two linear mappings of that page with different
  pages after it share one trace; `flushTraceCacheEntries` sets the time stamp of trace
  links back to 0, so that links made before it look valid again when trace linking
  is configured.

## Not modelled

VMX, SVM, FRED and user interrupts in the event logic; what interrupt gates,
descriptors and stacks contain (entering a gate either works or faults);
the vectors' numbers in Pic and CpuEvents; what a reset does to the rest of the machine in CpuEvents; the parts of the APICs named above; `setTimerParam` and `exit` of the timer framework;
save and restore of disk images, host reads that fail (`hdimage.cc`:2027, 2041, 2106), failed
writes of bitmap and catalog, and the image formats of other programs; the output port and the mode of the 8042;
trace linking, writes to flash ROM and remapping of memory by PAM and SMRAM registers in ICache. The
components without a module are listed in `PROJECT.json` with the reason; pure
data paths (decoder, arithmetic, softfloat) are out of reach of explicit-state
checking and have no order of events to get wrong.

## Plan

1. Done: PcTimers with TimerService, Pic, CpuEvents, Apic, Redolog with BlockDevice,
   Keyboard, ICache, and the proofs above.
2. Proofs: weaker hypotheses for the three conditional theorems of Pic
   (`CascadeNotLost` for a guest that re-initialises both chips together).
3. Interrupt fabric: the LVT, its timer and IER of the local APIC; the PCI router
   of `pci2isa.cc` in front of Pic; then Pic, router and CpuEvents composed
   (an asserted line ends in a delivered vector).
4. Time: `VirtTimer` (as PcTimers, with the refinement of TimerService), PIT
   counter modes, CMOS register C, HPET comparators.
5. Transfers: 8237 with the bus grant of CpuEvents, floppy phases, ATA with the
   IDE busmaster.
6. Memory: TLB and invalidation.
