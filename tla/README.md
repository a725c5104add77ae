# A formal model of the cosmo kernel

cosmo is a small x86 kernel: GRUB loads it, `kernel_main` sets up the descriptor
tables, the interrupt controllers and a physical frame allocator, and then halts
and echoes what is typed on the keyboard.  This directory holds TLA+
specifications of its parts, TLC configurations that check them on small
instances, and TLAPS proofs of what its parts promise: every safety property that a
passing run checks is also a theorem.  Paths below are relative to the repository.

## The system

| Part | State | Operations | Talks to |
|---|---|---|---|
| boot stub (`kernel/loader.nasm`, `link.ld`) | page directory, stack | enable paging, call `kernel_main` | hands over the image's addresses and the Multiboot info |
| `kernel_main` (`kernel/kmain.cc`) | program counter | checks the loader, `InitGdt`, `InitIdt`, `InitPic`, `InitPhysicalFrameAllocator`, `Halt` | all parts below |
| frame allocator (`src/VirtualMemoryMgmt`) | bitmap, `used_frames_`, `max_frames_`, `pmmap_size_` | `Init`, `AllocFrame`, `FreeFrame` | Multiboot memory map |
| PIC driver (`src/ProgrammableInterruptController`) | none; the two 8259 chips | `Init`, `SetMask`, `ClearMask`, `SendEOI`, `GetIrr`, `GetIsr` | ports 0x20, 0x21, 0xA0, 0xA1 |
| IDT, stubs, handlers (`src/InterruptDescriptorTable`) | gates, interrupt flag, saved registers | `SetGate`, `FlushIdt`, `isr_handler`, `irq_handler` | PIC, keyboard, logger |
| keyboard driver (`.../IRQ/Keyboard`) | none; the controller's buffer | `ReadScanCode`, `PrintAsciiChar` | port 0x60, PIC, frame buffer |
| frame buffer (`src/FrameBuffer`) | video memory, cursor, colours | `PrintChar`, `PrintString`, `MoveCursor`, `ClearScreen`, `ScrollScreen`, `SetColor` | VGA memory and CRTC ports; called by `kernel_main`, the logger and the keyboard handler |
| logger (`src/Logger`) | `log_buffer_` | `Printf`, `SetLogBuffer`, `SetLogBufferHex` | frame buffer, serial port |
| serial port (`src/SerialPort`) | port, rate, `initialized_`; the UART | `Init`, `PrintChar`, `PrintString` | UART ports |
| GDT (`include/GlobalDescriptorTable`) | descriptors | `SetGate`, `FlushGdt` | processor |
| libc (`src/libc`) | none | `memset`, `memmove`, `memcmp`, `printf`, ... | |

The kernel has one thread.  What is hard about it:

* **Interrupts between any two instructions** once `InitIdt` has executed `sti`:
  the PICs are not yet remapped, then half initialised, then unmasked before
  they are masked again; from then on the keyboard handler shares the frame
  buffer with `kernel_main`, which prints its messages with interrupts on.
* **Protocols with hardware**: the words of the 8259 must come in order; a
  non-specific EOI retires whatever has the highest priority; a rising edge that
  is forgotten does not come again while the line stays high; DLAB changes what
  the UART's registers are; the processor fetches through the page directory as
  soon as PG is set, and keeps translations in its TLB.
* **Contracts nobody checks** between assembly, C++ and the processor: the order of
  `kernel_main`'s parameters, the layout of `InterruptContext`, which exceptions push
  an error code, the bits of descriptors.
* **Long sequences of calls** on the frame allocator, whose two records of the
  same thing (a count and a bitmap) are updated side by side and start out
  different.
* **Boundaries**: partial frames, partial dwords, memory maps with holes,
  memory past the bitmap or past 32 bits, counts that wrap around, 0 and the least
  int, formats that end too early, overlapping ranges.

What makes each part correct: the allocator never shares a frame, never gives out the
kernel, gives out exactly the available frames and returns nullptr only when none is
left; the boot sequence ends, leaves only the keyboard unmasked and takes no device for
an exception once the PICs are remapped; every key is shown, once and in order; the
cursor stays on the screen and the hardware cursor agrees with it; the logger prints the
numbers it is given; the serial port is active only when its chip is set up, and sends
what it is given; the loader never faults and leaves the low half unmapped; every
interrupt runs its own stub and leaves no trace in the code it interrupts; libc's
functions agree with their references.

## Modules

| Module | What it is |
|---|---|
| `FrameAllocator` | `PhysicalFrameAllocator` and its call in `kernel_main` |
| `FramePool` | what the allocator promises, without bitmap or count |
| `FrameAllocatorRefinement` | the mapping from the first to the second |
| `FrameAllocatorProofs` | theorems about `FrameAllocator`, about well-formed memory maps, and the refinement |
| `MCFrameAllocator` | memory maps and sizes for TLC |
| `Pic8259` | one 8259 chip (hardware), as operators on a record |
| `KernelInterrupts` | `kernel_main`, PIC driver, IDT, handlers, keyboard and devices |
| `KernelInterruptsProofs` | theorems about `KernelInterrupts` |
| `MCKernelInterrupts` | masks and scan codes for TLC |
| `FrameBuffer` | the text console, one caller at a time |
| `Terminal` | what a console promises: a page of lines that scrolls |
| `MCFrameBuffer` | a small screen for TLC |
| `Console` | `FrameBuffer` shared by `kernel_main` and the keyboard handler |
| `ConsoleProofs` | theorems about `FrameBuffer`, its refinement of `Terminal`, and `Console` |
| `SerialPort` | `SerialPort` and the UARTs (hardware) |
| `SerialPortProofs` | theorems about `SerialPort` |
| `Logger` | one log call: `Log`, `Printf`, the number formatting |
| `LoggerProofs` | lemmas about `Logger`, down to what its digits are |
| `Loader` | `loader.nasm` with paging and TLB (hardware) |
| `DescriptorTables` | GDT, IDT, `InitGdt`, `InitIdt` and what the processor reads |
| `Boot` | `Loader`, then `DescriptorTables` in the `kernel_main` it calls |
| `BootProofs` | theorems about `Boot`, and so about both |
| `InterruptStub` | the assembly stubs, instruction by instruction |
| `Handlers` | an interrupt through `InterruptStub` to a handler that calls `Logger`, or another log call |
| `HandlersProofs` | theorems about `Handlers`, and so about both |
| `LibcString` | `memset`, `memcpy`, `memmove`, `memcmp`, `strlen` |
| `LibcPrintf` | `printf`, `puts`, `abort` |
| `Libc` | calls of either |
| `LibcProofs` | theorems about `Libc`, and so about both |
| `MCConsole`, `MCSerialPort`, `MCHandlers`, `MCBoot`, `MCLibc` | their constants for TLC |

### FrameAllocator

The bitmap `pmmap` is the set of positions whose bit is 1, counted from the
address in `pmmap_`; positions past `pmmap_size_` dwords are ordinary memory,
which the code does reach.  The other variables are the members of the class;
`owned` (the addresses clients hold) and `result` (the last answer) record what
clients see.  `Init` of the class is three actions, `InitBitmap` (through the
`memset`), `InitAvailableRegions` (one per entry of the memory map) and
`DeinitKernel`; `AllocFrame` and `FreeFrame` are one action each.  `FreeFrame` is
called with an address `AllocFrame` returned, as its documentation demands.
Loops over consecutive frames are set operations on an interval.

The sizes of the machine are constants, words included: arithmetic on
`uint32_t` is modulo `WordMod`.  The conversions are those of the code, with
their oddities: `IsAligned` is true of what is *below* the alignment, `Align`
always adds, `pmmap_size_` counts dwords where `memset` and `DeinitKernel` take
bytes, only the low words of a map entry are read, a region's base is rounded
down, a region smaller than a frame reserves one frame.

The memory under the bitmap holds anything at power-on (`RamContents`), because
`memset` sets only a quarter of it.

### KernelInterrupts and Pic8259

`pc` is where `kernel_main` is; every access to a PIC port, `lidt` and `sti` are
steps of their own, so that interrupts fall between any two.  A byte is the set
of its bits, which makes `|` and `& ~` set operations.  `Pic8259` models the
chips from the way the driver uses them: ICW1 clears mask, latched requests and
in-service lines and starts a sequence of three data words; after it the data
port is the mask; requests are put forward when latched, unmasked and of higher
priority than what is in service; EOI is non-specific; a chip in its
initialisation puts nothing forward.  The slave's output is input 2 of the
master.

`Interrupt` is the processor taking the highest request while `iflag` is set: the
vector selects a gate, an absent gate is the exception 11, vectors below 32 lead
to `isr_handler` (halted for good), 33 to the keyboard's case of `irq_handler` and
the others to its default case.  `handlers` is the stack of activations.  The
keyboard handler has three steps (read port 0x60, EOI, print), the default case
one.  Codes are numbers; only whether the layout covers a code is kept, and
`shown` records the codes handed to `PrintChar`.  `ShownAre(n)` says that `shown` is the
first `n` codes typed without those outside the layout, by the place of each: the
`k`-th code is shown at the place that the number of showable codes up to it gives.

The devices are the timer (IRQ 0), a disk on the slave (IRQ 14) and the keyboard,
whose controller holds one code and keeps its line high until the code is read.
`PrintLogo`, `InitGdt` and the log lines are left out here: they touch none of this
state (`Console` and `DescriptorTables` have them).

### FrameBuffer and Terminal

`video_mem` is flat, as in the code, each cell a glyph and an attribute byte;
`cursor_pos` and `attr_byte` are the members and `crtc` the two cursor registers of
the display controller.  One action per call: `ClearScreen`, `MoveCursor` (with
positions off the screen too), `PrintChar` and `SetColor`; `PrintString` is a
sequence of `PrintChar`.  A character is one of the four controls `PrintChar`
handles, a glyph, or something it ignores (`char` is signed, so bytes past 127
are).  Before `ClearScreen` video memory and registers hold anything.

`Terminal` is a sequence of lines: past the last one, the first is dropped and a
blank one added.  `ImplementsTerminal` maps video memory to `Page`, whose line `r` is
the cells from `(r - 1) * kNumCols` on.

### Console

`Console` extends `FrameBuffer`.  The keyboard handler runs with interrupts off, so a
key is one whole `PrintChar`; `kernel_main` prints with interrupts on, and its
`PrintChar` is split at every access to `cursor_pos_`, to video memory (each cell of
`ScrollScreen` too, its load and its store) and to the cursor's ports, whose index
register `port` is the display's.  There is no lock and no `volatile`, which makes the
shared accesses a race.  `reg` is the copy of the cursor that `kernel_main` works on:
where the source reads a member, `Read` loads it again or goes on with the copy; what the
source writes is in the register first (`dirty`) and reaches memory at any time before
`MoveCursor` stores it (`Store`).  So a build that caches the cursor, one that goes to
memory at every statement, and those in between are all behaviours of one
specification; accesses are otherwise in the order of the source.

`Texts` are what is left of `kernel_main`'s messages after `sti`: glyphs, newlines, tabs,
returns, but no backspace, which `kernel_main` never prints (`ConsoleAssumption`).  The
condition matters: line 82 of `FrameBuffer.cc` tests the column and line 84 decrements it,
and a newline typed between the two would leave it at -1, which `MoveCursor` refuses.
Keys may be backspaces; a key is printed with interrupts off.
`expected` remembers what the current `PrintChar` would do if it were atomic, and is
given up when a key comes.

### SerialPort

The members of the object, and a register file for each UART with its DLAB, divisor,
format, loopback bit and transmit FIFO.  `Init` is one action: nothing else uses the
ports while it runs, and its writes go to the chip in order (`WriteRegs`).  Whether the test byte
comes back decides between `InitFails` and `InitSucceeds`; a chip that works may fail,
because the code reads the byte back at once.  `PrintChar` waits for the FIFO to be
empty, `Transmit` is the chip sending, `Break` a chip that stops answering: its ports
then read as ones, which ends the poll loop.

### Logger

One call.  A format is a sequence of characters, `i` the index of `Printf`'s two
loops and `arg_index` its own; each character or specification is a step.  Digits
are computed as in the code, last first, sign or prefix appended, then reversed.
The largest int is `IntMax`.  `n *= -1` of the least int is undefined: the model has
both the digits a compiler that divides as unsigned gives and the characters a build
that wraps gives.  `Text` is the reference: it gives each position of the format its
role from the roles before it (a character, the `%` of a specifier, the character behind
one), and writes numerals from the left, by powers of the base, a 0 as `0` (`Shown`).
The code parts from it at a decimal 0, of which its loops make no digit: `IsOmitted` names
this one case, and the run `decimal_zero` shows it against the description of `%d` and `%u`.
What `SetLogBuffer` and `SetLogBufferHex` return is left out: `Printf` takes `strlen`.

### Loader

Addresses are numbers and a page is a 4MB page.  Each instruction that changes CR3,
CR4, CR0, `eip`, the page directory, the TLB or the stack is an action, guarded by the
fetch of the instruction itself; `After` is their order.  `CacheTranslation` is the
processor keeping any translation it could walk, at any time: `Translate` prefers
what it keeps, also when the directory has changed.  In `Boot` the processor goes on
keeping translations while `kernel_main` sets up the tables.

### DescriptorTables

Words are sets of bits, `Field(w, lo, hi)` is shift and mask.  `GdtEntry` and
`IdtEntry` are the two `SetGate`s, and `DecodedSegment` and `GateAddress` what the
processor makes of them (Intel's layout).  The actions follow `InitGdt`, `flush_gdt`,
the constructor of the IDT with its 48 calls and `InitIdt`, in which a developer may
add gates where the comment invites it; later callers may set up GDT entry 4, and
interrupts are taken through any present gate.

### InterruptStub

`CommonStub` is the text of `isr_common_stub` and `irq_common_stub` (they differ only in
the handler they call) as a sequence of 44 instructions, executed one at a time on
registers and a stack of words.  The processor's frame and the macro's pushes are
`Deliver`.  `irq_handler` returns and may change what the calling convention lets it:
`eax`, `ecx`, `edx`, its argument and the stack below; `isr_handler` does not return.
`InterruptContext` is the struct, the offset of each field in words, read through the
pointer the handler is passed; `WellPlaced` are the registers it has where the stub pushes
them.  `ds` and `es` are exchanged, and without a field for `eip` every field of the
processor's frame is a word off: a handler that reads `cs` finds `eip`.  The handlers read
`int_no` alone.

### Handlers

An interrupt and the message logged about it.  The handler runs where the stub has its
`call`: `isr_handler` logs every exception and `irq_handler` every IRQ but the keyboard's
(`Unhandled`), both `int_no`, read through the context, as an unsigned argument of a `%X`
(`LogError`); `Logger`'s steps follow, and `irq_handler` returns to the stub when they are
done (`StubStep`).  `isr_handler` then halts.  In the message the words are one character.
A behaviour is an interrupt or any other log call, not both at a time: the messages
`kernel_main` logs have no arguments, so that an interrupted call has nothing in
`log_buffer_`, and what both share, the frame buffer, is the subject of `Console`.

### LibcString, LibcPrintf and Libc

Each memory function is an action on one memory of bytes; its loop is a recursive
function of the rounds made, over the indices in the order of the code.  `LibcPrintf` is
one call of `printf` (or of
`puts` or `abort`, which make one), a round of its loop at a time.  `putchar` only
returns its argument, so `put` is what it is handed and `print` cannot fail.  A
behaviour of `Libc` is any sequence of calls of the memory functions or one call that
prints; the two share no state.  The reference text of a format is made as in `Logger`.

## Runs

| Run | Result | Question |
|---|---|---|
| `frame_allocator` | pass | Seven maps (plain, partial dword, hole, memory past `mem_upper`, past 32 bits, unaligned and overlapping, wrapping size) and three memory contents: types; `BitmapAccounts`; the kernel is never handed out; frames are fresh; the allocator implements `FramePool`; the drift of the count is constant. On well-formed maps: only available memory is handed out, nullptr means exhausted, nothing is written behind the bitmap |
| `bitmap_reserved` | violation | the frame of the bitmap is handed out: `Init` adds `kernel_virtual_start` to a physical address, and reserves memory elsewhere |
| `interrupts` | pass | the boot sequence under interrupts, three keys: its safety, that it ends, and that a keyboard that works when it ends shows every key |
| `keyboard_served` | violation | a tick after ICW4 is never acknowledged and blocks the keyboard; or a key pressed before ICW1 loses its edge |
| `frame_buffer` | pass | the cursor stays on the screen, the hardware cursor follows it, flat memory implements a page of lines |
| `console` | pass | keys at any point of `kernel_main`'s `PrintChar`, whatever copies of the cursor are in registers, texts without a backspace: the cursor is on the screen whenever it returns, every key leaves the hardware cursor right, an undisturbed `PrintChar` is the atomic one whatever came before |
| `console_bounds` | violation | a key while the cursor is past the last line is written outside video memory |
| `serial_port` | pass | a port whose last `Init` succeeded is set up as the object says; bytes reach the line in order; `PrintString` always returns |
| `handlers` | pass | all 48 vectors and 4 alignments: the handler sees the number, the error code and the well placed registers of its interrupt; what it logs of an interrupt nothing handles names it; registers and stack come back. All formats of up to 4 characters, all 8-bit numbers by each specifier: the text is the reference's less every decimal 0, and the format is left where it ends unless a lone `%` ends it |
| `decimal_zero` | violation | a `%d` or `%u` of 0 shows nothing |
| `boot` | pass | no instruction of the loader faults whatever the TLB keeps, parameters arrive in order, the low half ends up unmapped; descriptors decode to what was asked, selectors name usable segments, vectors run their stubs |
| `libc` | pass | copies (overlapping too), fills, comparisons and lengths against references; all formats of up to 5 characters: the text, its length, -1 past `INT_MAX` |

The violations are disagreements of the code with its own comments; the findings
in `PROJECT.json` quote both.

### Where the passing properties stop

Several properties hold only with a condition, which marks a place where the code does
otherwise.  Where no run shows it, the condition is all that the properties say:

* `OnlyAvailableAllocated`, `BitmapInBounds` and `NullMeansExhausted` need a well-formed
  map.  Off it, `memset` sets a quarter of the bitmap (it takes bytes and is given dwords),
  so that a reserved frame in the rest may be handed out, although
  `PhysicalFrameAllocator.cc:132` speaks of all bits; memory past 4GB frees the frames with
  its low words; a region past `mem_upper` is marked behind the bitmap.  The other properties
  of the allocator hold on these maps too: the run has one of each kind.
* `DriftConstant` says that `used_frames_` is off by a constant: `InitRegion` sets bit 0
  again without counting it, and frames reserved twice are counted twice.
* `RemapEndsPanics` leaves the window between `sti` and ICW1 open, in which a tick or a key
  enters an `isr` stub and `isr_handler` halts the machine.
* `UninterruptedIsAtomic` and `KeyShowsCursor` say what is left when keys interrupt
  `PrintChar`: two characters may go to one cell, and a key between the four port
  writes may leave the hardware cursor elsewhere until the next character.  They and
  `CursorReturns` are about texts without a backspace, as above.
* `TestedIsSetUp` speaks of ports whose last `Init` succeeded.  After a second `Init` that
  fails the object is still active, and its port is in loopback at another rate.
* `StringPrinted` assumes that the transmitter of a chip that works goes on sending, and
  that one that stops answering reads as ones.  A chip that stays readable and never
  empties its holding register would keep `PrintChar` in its loop.
* `PrintfShowsText` has a decimal 0 show nothing (`decimal_zero`) and leaves out the least
  int (`n *= -1` overflows); `BeyondOnlyAfterPercent` allows a format that ends in a lone
  `%` to be read past its end, since the guard comes before the `i++`.
* `HandlerSeesInterrupt` leaves out `ds` and `es`, which the struct has the other way about
  (`InterruptHandler.h:48-49` against `InterruptHandler.nasm:41-44`), and `cs`, `eflags`,
  `esp` and `ss` behind `err_code`, where the struct has no field for `eip`.

### Bounds

`MCFrameAllocator` scales the machine down and keeps its proportions: 4-byte frames,
2-byte kilobytes, 2-bit bytes, 2-byte dwords (four frames per dword), words of 64 values,
so that memory of up to 12 frames, partial dwords, maps past the end of the bitmap and
sizes that wrap all occur. The image is a frame and a half. Clients may hold any set of
frames, so every state of the bitmap that calls can reach is explored.
`MCKernelInterrupts` uses the real numbers of lines and vectors, two keys of the layout
and one code outside it, up to `MaxKeys` codes (3: one may be handled while one is in the
buffer and one waits), and two masks a BIOS may leave. Timer and disk interrupt any number
of times. `kNumKeys` is 2 instead of 128. `MCFrameBuffer` has 2 lines of 3 columns, tab
stops every 2 (a tab stays on the line or leaves it), two glyphs, two attribute bytes and
bytes of 3 values, so that positions need both cursor registers; every contents of this
screen is reached. `MCConsole` uses the same screen and up to two keys, one of which may
come while the damage of the other is not repaired yet; keys are glyphs, tabs, newlines,
backspaces and codes without a character; messages print, wrap, tab and scroll.
`MCSerialPort` has two ports, two rates, a FIFO of 2 and strings of up to 3 bytes, so that
a FIFO could overflow. `MCHandlers` has the real stub, registers that hold distinct values
and 8-bit ints (`IntMax` is 127), which all occur with a specifier alone and in a
handler's message. `MCBoot` has four pages, the kernel in the last (the code has 1024 and
uses two), keeps the real widths of descriptors and puts bits at both ends of every field;
52 vectors leave four without a stub. `MCLibc` has four bytes of memory, enough for ranges
that overlap in either direction, and an `INT_MAX` of 4, below the length of some texts.

`LibcPrintf` stops when the call has returned, `Handlers` when the call or the interrupt
has (or has halted): these runs do not check for deadlock.

### Fairness

`KernelInterrupts` assumes weak fairness of `kernel_main`, of the handlers, of the
processor's taking an interrupt that stays pending, and of the keyboard controller's
passing on a code when its buffer is empty. This is the processor executing
instructions; nothing is assumed of the timer, the disk or the typist. `BootEnds` needs
the bound on keys: a keyboard that never pauses could keep the processor in its handler.
`SerialPort` assumes weak fairness of `PrintChar` (the processor executes the poll loop)
and of `Transmit` (a chip that works sends what it holds); nothing is assumed of `Init`
or `Break`. `Console` states weak fairness of `kernel_main`; its properties are safety.
The other modules need none.

## Proofs

A run settles its properties for one small instance; the theorems below settle them
for every value of the constants that the named assumptions of the modules allow.
Each rests on an inductive invariant that TLC also checked on the run's instance before
it was proved.

### The frame allocator

`FrameAllocatorProofs`, for every frame, dword and word size, every image
whose start is on a frame boundary other than 0, every set of memory maps and every
memory content:

* `TypeCorrect`: `TypeOK` is an invariant; the size of memory that `max_frames_`
  stands for fits a word, so that `kFrameSize * p_index` cannot wrap.
* `Accounts`: `BitmapAccounts` is an invariant.  It is the inductive invariant of
  the module, together with `TypeOK`: addresses handed out are `FrameSize * p` for
  distinct marked positions `p`, never 0 and never of the kernel; frame 0 is marked
  from the `memset` on and the kernel from `DeinitKernel` on.  `KernelNeverAllocated`
  alone is not inductive, since `FreeFrame` clears bits and `AllocFrame` only looks
  at bits.
* `KernelIsSafe` and `FramesAreFresh`: `KernelNeverAllocated` and `FreshFrame`.
* `DriftIsConstant`: `DriftConstant`, with the cardinality theorems for the frames
  in use and a lemma that unsigned arithmetic may be wrapped early or late.

The lemmas are: division and remainder by a divisor that is not a literal
(`DivNat`, `ModShift`, ...); the search of the bitmap finds a clear bit below its
bound or all are set (`BitmapFirstUnsetCorrect`, from the well-foundedness of
`<`); the outcomes of `AllocFrame`; and `DeinitKernelCovers`, the argument that the
image is covered although its size is rounded down: the frame of its end is the
first frame of the second region, which is never empty.

The second half of `FrameAllocatorProofs` adds what holds on well-formed maps
(`WellFormed`: memory below 4GB; available entries that start on a frame, are disjoint, lie
in the memory `mem_upper` counts and hold what `DeinitKernel` reserves; and the frames
that are not available among those the `memset` reaches):
`AllocatedIsAvailable`, `NullIsExhaustion`, `BitmapStaysInBounds` and the refinement `AllocatorImplementsPool`.  Its inductive invariant `CountInv` follows
the count.  While the regions are freed, `used_frames_` is `max_frames_` less the number
of frames freed, and the marked frames include all that are not available;
from `DeinitKernel` on, the clear bits are exactly the frames neither withheld nor
held, and `used_frames_` is the number of set bits or one less: bit 0 is set again without
being counted, and a frame the image shares with what lies behind it is counted
twice, which makes up for it.
This is why `AllocFrame` may trust a count that is not exact: with one less it
searches and finds nothing, and it can never be one more.

The refinement is proved under `[]WellFormed(boot)` (`boot` never changes).
Without it the theorem is false although the seven maps of the run satisfy
`ImplementsPool`: when `DeinitKernel` reserves frames in a hole between two regions,
frames that were never freed are counted a second time,
`used_frames_` reaches `max_frames_` early, and nullptr comes while frames are left.  TLC
shows it with available memory at 0..11 and 36..43 of the scaled machine.

### The boot

`BootProofs`, for every page size and number of pages, every page of the kernel but the
first, every image and Multiboot address in the first page, wherever the stubs are
linked and whatever arguments `SetGate` is given (`SegmentArgs`: two words, two bytes):
`EveryInstructionFetched`, `KernelMainParameters`, `NullFaults`, `DescriptorsDecode`,
`SegmentRegistersUsable` and `InterruptsReachTheirStub`.  The inductive invariant is
`BootInv`.  Its first half, `LoaderInv`, relates the control registers and the directory
to the instruction, and bounds what the TLB may keep: what the directory had, the
identity map included until the `invlpg`.  The properties speak of single points of
the loader and say nothing of the TLB in between, so none is inductive alone.  The
second half, `TablesInv`, has every GDT entry the packing of what was asked, the gates
below `next` those of their stubs and the others zero.  `GateRoundTrip` is the
lemma that cutting a word into fields and joining them gives it back.

### Interrupts

`KernelInterruptsProofs`, for every mask the BIOS leaves, every set of scan codes, every
layout size and any number of keys: `OneHandlerAtATime`, `MasksAfterBoot`,
`KeysShownInOrder`, `RemapStopsPanics` and `EoiIsTheKeyboards`.  The inductive invariant
`KernelInv` has a part for each thing that must not go wrong: `Stacked` (interrupts are
accepted only with an empty stack, so handlers do not nest), `Remapped` (which
initialisation word each chip awaits and which base it has, word by word), `MasksKept`
(where the saved and the current masks are on their way), `InService` (until its EOI the
keyboard is in service and line 0 is not, so the non-specific EOI finds line 1: a tick in
service masks the keyboard, and an interrupt of the slave has lower priority) and
`KeysDone`: the codes loaded, less one in the buffer and one in the handler's hands,
are those shown.  `ShownInOrder` is not inductive without the last: it says nothing
of the code on its way.

### The console

`ConsoleProofs` begins with one caller at a time, for a screen and tab stop of any
size that two cursor registers can address, and for any glyphs other than the controls: `CursorStaysOnScreen` (`TypeOK` is
inductive), `DisplayShowsCursor` and the refinement `ConsoleImplementsTerminal`.
The lemmas `CellOf` and `CellUnique` say that `y * kNumCols + x` numbers the cells of the
screen one to one, `RegistersOf` that the two bytes of a position give it back,
and `PutOnPage`, `ScrolledPage` and `ClearedPage` what a write, the copying loop of
`ScrollScreen` and `ClearScreen` do to the lines.

It goes on, with keys between any two accesses of `kernel_main`'s `PrintChar`, any
number of them, any text without a backspace, and whichever members are in registers at
any time: `CursorNearScreen`, `CursorAlwaysReturns`,
`UninterruptedPrintCharIsAtomic` and `KeyRepairsCursor`.  Its inductive invariant
`ConsoleInv` bounds, for each point of `PrintChar`, both copies of the cursor, the one it
works with and the one a key works with (`Copies`); and it says, for each point,
what the rest of `PrintChar` makes of the present screen as long as no key comes, the
half-scrolled screen included (`Progress`, `ScrolledFrom`).  `CursorReturns` alone is not
inductive, since it is silent while `PrintChar` runs.

### The serial port

`SerialPortProofs`, for every set of ports and of rates that two divisor bytes hold, every
size of FIFO, every string and whatever the chips held before: `ReportedRateIsSet`
(`TestedIsSetUp`) and `LineCarriesWhatIsPrinted` (`LineInOrder`).  The inductive invariant
`SerialInv` adds to the two that only an object that is initialised prints and that no chip
is left with DLAB on, its own `Init` failed or not: otherwise a byte that is printed would
be a divisor.  `WriteRegs` is a recursive function over the writes of `Init`; the lemmas
follow it write by write through DLAB, divisor, format, FIFO and loopback, and
`ByteMod * (rate \div ByteMod) + rate % ByteMod` gives back the rate.

### The stubs and the handlers

`HandlersProofs`, for every vector, every position and alignment of the stack with room
for the frame, every error code and any contents of the registers:
`HandlerIsHandedTheInterrupt` (`HandlerSeesInterrupt`: `int_no`, `err_code`, the seven
general registers, `cr2`, `gs` and `fs`, and nothing of the fields that are misplaced) and
`InterruptedCodeIsRestored` (`ReturnsToInterrupted`).  Both speak of one point of the stub
each, so neither is inductive.  `StubInv` says of every instruction what it finds: how many
of the seventeen words are on the stack and that they are those of the interrupt (`Depth`,
`Word`, `StackHolds`), which registers still or again hold the interrupted values (`Away`,
`Holds`), and, around the call, that `ebx` keeps the stack pointer the alignment of `esp`
loses.  The proof goes by kind of instruction: `PushFits`, `PopFits` and `MoveFits` compare
the text of the stub with these tables.

`UnhandledInterruptIsNamed` (`UnhandledIsNamed`) joins the two halves: `HandlersInv` has
whatever is logged begin as `LogInit` has it, and what a handler logs be its message with
the number of its vector, which `InvSeesInterrupt` takes from the context and
`MessageRoles` gives to the `%X`.  From there on the logger's invariant is kept.  It needs
the messages among the formats, and ints of at least 7 bits (`HandlersAssumption`).

### libc

`LibcProofs`, for every size of memory, all contents and ranges: `AnswersAreRight`
(`memcmp` and `strlen`) and `CopiesAreExact` (`CopiesWhatWasThere`).  The invariant is small
(the memory holds bytes, the last answer is right); the work is in what a call computes.
Each loop is a recursive function of the rounds made, which the proof first shows to exist
by giving its values (a copy up to the index reached, the first difference, the first NUL):
`MovesUpward`, `MovesDownward`, `FillsItsRange`, `ComparesByFirstDifference` and
`ScansToTheFirstNul`.  The two directions of `memmove` need that a byte that is still to be
read has not been written, which is where the overlap decides.

`PrintfCounts` (`CountsTheText`) is for every `INT_MAX`, every format and all arguments.
`PrintfInv` says that at every round `put` is the text of the format up to `pos`, `pos` is
where a position begins and `args` is what the rest of the format takes.  A literal run
takes several positions in one round: `RunEnds`, `RunIsLiteral` and `LiteralRun` say that
the scan stops at the next `%` or the end and that the run is its own text, `TextGrows`
that a text too long at some position is too long in all, which `-1` means.

### The logger

For every size of int, every format and all arguments `Arg` can be made from, logged by a
handler or by anyone else: `ShowsItsText` (`PrintfShowsText`) and `LeavesFormatAtItsEnd`
(`BeyondOnlyAfterPercent`), in `HandlersProofs` from the lemmas of `LoggerProofs`.
`PrintfInv` says that Printf, wherever it stands at the beginning of a literal or of a
specification, has taken as many arguments as specifiers lie behind it and put out exactly
the text of these positions (`Piece`, with decimal zeros left out); past the format, that
the last position was a `%`. The property speaks of the end of the call alone.

That a number is shown right rests on `DigitsRight`: the loop that divides makes, last
digit first, the digits that the powers of the base give (`DigitIs`, `DividedTwice`), and
as many as the numeral has, none of them a leading zero (`NumDigitsIs`,
`PowerExceeds`).  `NumeralIsReversed`, `DecimalShown`, `IntShown`, `UnsignedShown` and
`HexShown` add the sign or prefix, which is appended and reversed with the digits;
`ZeroConverted` is the 0 no digit is made of, and `PrintedIs` joins the two.
`Recursion` and `Loop` are the lemmas that a recursive function exists when each value is
made from one before.

### Only model-checked

* Liveness: `BootEnds`, `KeysAppear` and `StringPrinted`.
  The prover handles neither fairness nor ENABLED.
* The least int given to a `%d`: what is then shown depends on the build, and
  `PrintfShowsText` leaves it out.
* `ImplementsPool` on maps that are not well-formed: it depends on the map, as above.

Induction theorems that take an operator as a parameter cannot be instantiated by the
installed provers.  Where a proof needs induction over data (the loops of libc, the digits of
the logger, the roles of a format) it says that a set of numbers is all of `Nat`, from
the well-foundedness of `<` (`Induction`).  The provers do not place a string
literal in `STRING` either, so in `LibcProofs` and `LoggerProofs` `Characters` is `STRING` with the literals of the
code named.

## Not modelled

`GetIrr` and `GetIsr` of the PIC driver, which only read and which nobody calls; the
build scripts.  Spurious interrupts of the 8259, non-maskable interrupts, and the
exceptions of the processor other than an absent gate in `KernelInterrupts`
(`Handlers` has them all, one at a time).  Exceptions before `FlushIdt`, which
find the boot loader's tables.  Multiboot information past the first 4MB, which the
boot page directory does not map, and images larger than that (assumptions of
`Loader`).  Strings of 256 characters and more as arguments of `Logger` (an assumption:
`Arg` copies them into a buffer of 256).  `outb` and `inb` are one step each wherever a
port is used; the registers they move through have no state of interest.

## Plan

1. (done) `FrameAllocator`, `FramePool`, the refinement and the first theorems;
   `Pic8259` and `KernelInterrupts`; `FrameBuffer` and `Terminal`.
2. (done) `Console`, `SerialPort`, `Logger`, `Loader`, `DescriptorTables`,
   `InterruptStub`, `LibcString`, `LibcPrintf`; the compositions `Boot` and `Libc`.
3. (done) Proofs for every value of the constants: the allocator on well-formed maps
   and its refinement of `FramePool`; `Boot`; the safety of `KernelInterrupts`;
   `FrameBuffer` and its refinement of `Terminal`; `Console` under any number of keys.
4. (done) Proofs of the rest: `SerialPort`, `InterruptStub`, `LibcString` and `LibcPrintf`,
   `Logger`; the composition `Handlers`.
