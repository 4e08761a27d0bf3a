# unisys abstract machine: formal models

TLA+ models of the `unisys` port of the Abstract Machine: a bare-metal runtime
for one RISC-V hart (32 bits) on which small kernels and programs run. The
source is C and assembly under `src/am` and `src/klib`; line numbers below are
of that source. There is one hart and no lock anywhere; concurrency comes from
timer interrupts, which preempt threads but no handler, and from devices.

## The system

| component | source | state | operations |
|---|---|---|---|
| CTE, context switching | `cte.c`, `trap.S` | registers, `mscratch`, `satp`, kernel stacks with Contexts, `user_handler` | trap entry and exit, `__am_irq_handle`, `cte_init`, `kcontext`, `ucontext` |
| VME, address spaces | `vme.c`, page macros of `unisys.h`, `riscv.h` | page tables, `kas`, `satp`, `vme_enable` | `vme_init`, `protect`, `map`, `map_query`, `__am_get_cur_as`, `__am_switch` |
| IOE dispatch | `ioe.c`, `amdev.h` | two tables of handlers | `ioe_init`, `ioe_read`, `ioe_write` |
| UART | `uart.c` | device registers | send, receive, status, control, baud |
| GPU and terminal | `gpu.c`, `ascii.S` | framebuffer, terminal cells with dirty bits | draw, terminal put / clear / sync, scroll |
| timer, input, audio, disk | `ioe/*.c` | `time_base` | register reads and writes; audio and disk are stubs |
| TRM, MPE | `trm.c`, `start.S`, `mpe.c` | none of their own | start, `putch`, `halt`; one processor |
| klib | `klib/src` | bump allocator, random seed | strings, `vsprintf`, `malloc`, software division |

How they meet. `trap.S` calls `__am_irq_handle` (CTE), which calls
`__am_get_cur_as` and `__am_switch` (VME) around the kernel's handler and shares
the Context and `satp` with them. `ucontext` (VME) makes Contexts that only
`trap.S` reads. Drivers are called through the tables of `ioe.c`; `putch`,
`printf` and the `panic` of klib end in the UART's `send_data`; the GPU takes its
cells from klib's `malloc`, which shares the heap with the page allocator a
kernel gives to `vme_init`. What a thread from `kcontext` or
`ucontext` calls of the drivers and of klib may be preempted between two
instructions, for their `mstatus` (0x1880) turns interrupts on. A trap turns them
off, and `iset` is empty: a handler runs undisturbed, and handlers nest only
through traps they cause themselves (a yield, a system call, a fault).

What is hard in it, and what makes it correct:

* CTE: one register, `mscratch`, decides where a Context is saved; handlers nest
  and switch between stacks in any order. Correct when no activation's stack is
  written by another, and when saving, switching and restoring cannot be seen by
  the code that was interrupted: registers, stack pointer, interrupt bit and
  address space are its own.
* VME: tables are shared between spaces, and written in several steps. Correct
  when a space is a map that changes only where `map` was asked to change it,
  when no page has two uses, and when the kernel is mapped in every space.
* UART: the device runs by itself, the status register is read and later written
  back. Correct when sent bytes leave once and in order, no byte is received twice.
* GPU: the screen must follow the cells; dirty bits are cleared after drawing.
* IOE: starting a device prints and reads the clock, and a missing register's handler
  panics, which prints again. Correct when nothing is used before it was started, no
  handler gets another register's buffer, and a panic gets its message out and halts.
* Timer: a counter that wraps, a calendar cut out of one number of seconds.
* klib: arithmetic at the ends of its ranges, memory areas that overlap, strings at
  their NUL, the format's and the heap's end, `malloc` in two threads.

## Modules

| module | models | role |
|---|---|---|
| `VirtualCpus` | | abstract: every activation has a processor of its own |
| `Cte` | `cte.c`, `trap.S`, `start.S`, parts of `vme.c` | detailed; implements `VirtualCpus` |
| `AddressSpaces` | | abstract: spaces are maps from pages to pages |
| `Vme` | `vme.c`, page macros | detailed; implements `AddressSpaces` |
| `Uart` | `uart.c` and the device | detailed |
| `Terminal` | | abstract: rows of text, written, cleared, scrolled |
| `Gpu` | the terminal of `gpu.c` | detailed; implements `Terminal` |
| `FbDraw` | drawing a picture, `gpu.c:171-220` | detailed |
| `Ioe` | `ioe.c`, `trm.c`, `amdev.h`, the macros of `klib-macros.h`, an entry of `mpe.c` | start-up, dispatch, stopping |
| `Timer` | `timer.c` and the device | detailed |
| `PowersOfTwo` | | words of `W` bits, shared |
| `SoftDiv`, `SoftMul` | `klib/src/builtin` | the loops, turn by turn |
| `WordBits`, `Int64` | `int64.c` | counts of zeros; the 64-bit divisions |
| `Memory` | | a small memory of bytes, shared |
| `Memcpy`, `Strings` | `string.c` | the loops, turn by turn |
| `Conversions`, `Format` | `stdio.c`, `atoi` of `stdlib.c` | numbers to text; `vsprintf` |
| `Heap` | `malloc` of `stdlib.c` | threads that preempt one another |
| `CteProofs`, `VmeProofs`, `UartProofs`, `GpuProofs` | | proofs about the module of the name |
| `CteRefinement` | | proof that `Cte` implements `VirtualCpus` |
| `DeviceProofs` | | proofs about `Ioe`, `Timer` and `FbDraw` |
| `MemoryProofs` | | about `Memcpy`, `Strings`, `Heap`, `Format` and `Conversions` |
| `ArithProofs` | | about `SoftDiv`, `SoftMul`, `Int64` and `WordBits` |
| `MCCte`, `MCVme`, `MCUart`, `MCGpu` | | instances for TLC |
| `MCDevices` | | an instance of `Ioe`, `Timer` and `FbDraw` |
| `MCArith` | | of `SoftDiv`, `SoftMul`, `Int64` and `WordBits` |
| `MCMemory` | | of `Memcpy`, `Strings`, `Format` and `Heap` |

The last three put machines side by side that have nothing to do with one another:
`use` names the one that runs, and the others stay at their beginning. Their
properties are those of the machine that runs, under the name of its module or, where
the name says too little, of the instance's. `MCUart` and `MCVme` choose in the initial
state between one thread and two (`alone`).

Operators named `...Kept`, `...Not`, `...Short` and the like, each introduced by
a comment "Mutant", are used by no specification: they are plausible slips in the
operator that follows, for which some property must fail.

### Cte

A stack is counted in slots of one Context each, and a stack pointer
`<<t, n>>` has `n` slots of stack `t` in use. An *activation* is a body of code
with a stack of its own to lose: the thread's own code (0) or the handler that
was called with the Context in slot `k` (`k`). `link[t][b]` says in which slot
activation `b` of thread `t` is suspended, if it is. `cur`, `lab`, `link` and
`asOf` are auxiliary: no guard of the AM's own steps reads them.

| definition | code |
|---|---|
| `AsmTrap` | the hart takes a trap; `trap.S:36-102` builds the Context |
| `IrqHandle` | `cte.c:12-25`, up to the call of the handler |
| `HandlerReturn`, `HandlerReturnNull` | the call returns; the assertion of `cte.c:26` |
| `AmSwitch` | `cte.c:28`, `vme.c:69-73` |
| `Restore` | `trap.S:104-140` |
| `CteInit`, `VmeInit`, `Kcontext`, `Ucontext` | the functions of that name |
| `Compute`, `Call`, `Return`, `SetResult` | code above the AM (external) |

The trap path runs with interrupts off on the only hart, so each of its parts
between two calls is one step. The general registers are one value, and `pc`
another. Frames and dead slots carry their owner, so that an overwrite shows.

What the code above the AM must do, taken as guards of the external actions: a
kernel goes on with the Context most recently saved on a stack (`Newest`); it
gives `kcontext` and `ucontext` the stack of a thread that is not running; user
code runs only after `vme_init`; a handler returns with the stack as it found it;
the stacks are deep enough (`MaxSlot`).

Nobody sets `mscratch` before the first trap (`start.S`); `Cte` begins with zero, the
value `trap.S` relies on in kernel code. The saved `mepc` is taken as the address where the code goes on. `cte.c` does not
add 4 to it after `ecall`; whether the hart or the kernel does is not to be seen
in this repository.

### Vme

Addresses are page numbers. `pt[p][i]` is entry `i` of the table in page `p`,
each call of `map` takes one step per access to a table, and calls on different
spaces interleave. `pgalloc` is the client's and gives out zeroed pages, each
once. `Map` has two guards the code leaves to its callers: the page lies in the
space's area (the assertion is commented out, `vme.c:76`), and no other call on the
same space is under way (there is no lock). When the pool is empty the call stops;
the code would go on with NULL. There is no TLB in the model, as there is no
`sfence.vma` in the code.

### Uart

A step is one access to a register. The device sends the byte in TX and clears
the busy bit; a byte that arrives overwrites one that was not read. Whether a
write of the status register also sets `tx_busy` is a property of the device
(`BusyWritable`): if it does, only one thread may use the port; if it does not,
one thread may send while another receives. `__am_uart_init` has run when the
driver is called. Two senders at once are not allowed: the driver has no lock.

### Gpu and FbDraw

`Gpu` cuts the framebuffer into one block per cell and the margin right of the
terminal; a block shows a text, black, or pixels that are none (`Other`). A step
writes one cell or does one part of `__am_write_ascii` (picture, pixels, dirty bit),
so calls preempt one another between any two cells and inside the drawing of one.
A cell is four bytes and taken to be written at once. Drawings of a block
that overlap in time may mix: the second is then `hit`, and what it leaves is the
old picture or `Other`. `stale` and `painted` are auxiliary. The text of a cell is
within the font and its place within the terminal, which the code does not check.

| definition | code |
|---|---|
| `TerminalPut`, `TerminalClear`, `ClearCell`, `TerminalFlush` | `gpu.c:117-134` |
| `SyncCell`, `DrawCell`, `CleanCell`, `SyncVga` | `gpu.c:136-148`, `73-88` |
| `Chscroll`, `MoveCell`, `WipeMargin`, `MarkCell` | `gpu.c:90-114` |
| `FbDraw` | `gpu.c:197-220`, one block at a time |

`FbDraw` (the module) is one call of `__am_gpu_fbdraw` or `__am_gpu_fbdraw256` at
the level of pixels and addresses, for all arguments within bounds, with unsigned
arithmetic modulo `Modulus`. When a picture is cut at the right its lines are sheared,
for the cut width is used as the stride of the source (`gpu.c:205`, `218`); nothing in
the repository says what is to be seen then, so the property claims only that nothing
is drawn outside the rectangle.

The two modules meet in the block: `Gpu`'s `DrawCell` is a call of
`__am_gpu_fbdraw256` for a rectangle that lies on the screen, and `DrawnInside` says
that such a call fills that rectangle and no pixel of another block.

### Ioe

`todo` is what the machine has still to do: a sequence of register accesses and the few
other things start-up does, in the order of `_trm_init` and `ioe_init`. A step does the
first of them. `putch`, `printf` and `panic` end in writes of UART_TX and are that write,
with the text as a whole; the `printf` in a handler that starts a device is put before
what comes after. Which C function is entered for which register is taken entry by
entry from the tables; what it does is left to the device's module, but for what
it needs to have been started (`Needs`). A jump to NULL leads to `lost`.

| definition | code |
|---|---|
| `AM_DEVREG`, `Id` | the register numbers of `amdev.h` |
| `TypeOf`, `ReadEntries`, `WriteEntries` | `ioe.c:10-100` |
| `Fill` | `ioe.c:106-109` |
| `Boot` | `trm.c:26-30`, `ioe.c:105-116`, `timer.c:17-21`, `gpu.c:58-71` |
| `Dispatch` | `ioe.c:103`, `118-119` |
| `Panic`, `Halt`, `Ebreak` | `klib-macros.h:37-44`, `trm.c:19-24` |
| `MainCall`, `MainEnds` | code above the AM (external) |

### Timer

The registers hold numbers below `Modulus`, and a minute, an hour and a day have as many
parts as the parameters say, so that a register of 4 bits holds more than a day. `elapsed` and
`date` are auxiliary: how long the counter has really run, and a calendar that was set
by the last write and counts on by the rules of clocks. `rtc_w` uses neither year nor month,
and `rtc_r` returns month 0 of 1970, with days that go on past 31: `RtcKeepsTime` is
about day, hour, minute and second.

### SoftDiv, SoftMul, WordBits and Int64

One call of each function, a step being one turn of its loop, for words of `W` bits
in place of 32. `b & (1UL << 31)` is the top bit of a word, of the two's
complement in `divsi3`, whose operands are signed. `Int64` works on numbers below
`2^(2H)` and takes their halves as the code does; it has one action for each of the
ways through `__udivmoddi4`, whose guards are the `if`s. Single words are divided by what
`SoftDiv` shows `udivsi3` and `umodsi3` to return, by zero as well. `WordBits` narrows
a word by halves until two bits are left, as the code does for 32; `NarrowedHigh` and
`NarrowedLow` are recursive functions of the number of narrowings.

### Memcpy, Strings, Format and Heap

Memory is the addresses 1 to `M`, and 0 is NULL. A call is any call its callers may
make: areas lie in memory, strings have a NUL, the target has room and is no part of
the source (`Legal`), which `memcpy` alone does without. A step is one turn of a loop,
so that every byte read and written is seen. `Format` is given a text as items (characters,
directives with their arguments), writes them down as a format string, and then reads that
string character by character like `vsprintf`; `itos`, `fpt`, `fptd` and `atoi` are functions. An
`int` has `Bits` bits, and `PrintsRight` compares with the numeral computed digit by digit
from the left. In `Heap` a call of `malloc` has two steps, the load and the store of
`addr`, and threads preempt each other in between; `lost` and `taken` are auxiliary:
one marks a store that undid another's, the other counts the bytes asked for. `malloc` has no
lock, and does not look at the heap's end: that no store undoes another's and that the heap
holds the blocks are conditions of `BlocksApart`, which says nothing of a call that breaks them.
`AccessesInside` likewise leaves out a format that ends inside a directive, which `vsprintf`
reads past its NUL, and `ReceivedOnce` a byte that arrives between the read of `RX` and the
writing back of the status, whose ready bit `get_data` clears unseen.

## Runs

| run | bounds | shows |
|---|---|---|
| `cte_nesting` | main, one kernel and one user thread; 3 slots | `IInv`, `TypeOK`, `ScratchInv`, `StackInv`, and `VirtualCpuSpec` (refinement) |
| `cte_spaces` | main, two user threads, two spaces, two register values; 2 slots | `AddressSpaceInv`, `VirtualCpuSpec` |
| `cte_events` | as above, four causes | violated: `EventCarriesCause` |
| `vme` | two callers and two user pages of different groups, or one caller, three pages and two targets; two spaces, tables of 4 entries, 12 kernel pages in 3 groups, 10 pages for tables | `TypeOK`, `TablesOwned`, `KernelMapped`, `AddressSpacesSpec` (refinement) |
| `vme_prot` | one caller, `prot` 0 or 1 | violated: `NoneIsNoAccess` |
| `uart` | one thread and `BusyWritable`, or a sender and a reader; 4 bytes each way | `SentInOrder`, `ReceivedOnce`, `SendReturns` |
| `gpu_alone` | one thread that also paints, 2 rows of 2 cells, two texts; painting over the first cell and the margin (`FewPainted`) | `TerminalSpec` (refinement), `SyncShows` |
| `gpu_shared` | two threads that also paint, 2 rows of 1 cell | `Coherent` (no write lost but in the known window) |
| `devices` | two accesses of main; a timer of 4 bits, minutes of 2, hours of 3, days of 2, running for 17; a screen of 3 by 2, `x`, `y`, `w`, `h` from 0 to 4, both depths | `StartedFirst`, `BufferFits`, `FailStops`; `UptimeRight`, `RtcKeepsTime`; `DrawnInside`, `DrawEnds` |
| `arith` | `SoftDiv` and `SoftMul` of 5 bits, double words of two times 4, zeros in words of 8 and 16 | `SubtractInv`, `QuotientRight`, `MultipliesRight`, `WideLoopInv`, `DividesRight`, `SignedRight`, `ZerosRight`, `CallsEnd` |
| `soft_div_signed` | `SoftDiv` of 5 bits | violated: `SignedDivides` |
| `memory` | 5 addresses, bytes 0, 1, 2; seven numbers of 7 bits, up to 2 items; 5 calls of `malloc` by two threads, pointers of 7 bits, a heap of 44 bytes that does not begin at a multiple of 8 | `WritesRight`, `ReadsRight`, `CopyInv`, `CopiesRight`, `AccessesInside`, `PrintsRight`, `ReadBack`, `BlocksApart` |

Why the bounds are enough. In `Cte` three slots hold a Context in a handler in a
handler, the least nesting in which an inner trap can damage a middle activation;
two user threads and two spaces are the least for one to run in the other's.
Contexts hold two register values so that a mix-up is seen. In `Vme` two user pages of
one group share a table and two of different groups do not; three groups of
kernel pages include a first, a middle and a last. In `Uart` a byte can be in the
register, on the line and in hand at a time; the fourth comes after all of these. In
`Gpu` there are a first and a last row and column; two texts tell a lost update from none;
`FewPainted` leaves one cell that may be painted over and three that may not. In `FbDraw`
places and sizes lie before, at and beyond both edges.

In `Ioe` the order of start-up has no parameter; one access of main may panic, and a second
comes after one that did not. A register of 4 bits holds two days of 12 seconds
and a bit, and 17 ticks go round once and on. In `SoftDiv` every pair of operands of 5
bits is divided, which has divisors with their top bit set, clear and alone in place; the
theorems say the same for every width. `Int64` with words of 4 bits takes all 65536 pairs,
each way through `__udivmoddi4` and shifts below, at and above the width of a word
among them; words of 8 bits narrow twice in `WordBits`, so that a wrong order of the
halves shows. Five bytes hold a target that overlaps its source from
either side, in one byte or in all but one, and two strings apart; with bytes 0, 1 and 2 a
difference has both signs. Two items of a format are the least for something to slip
over from one to the next. The numbers include the most negative and the largest, and both sides
of the change from one decimal digit to two.

Deadlock is not checked in any run but `arith` and `soft_div_signed`: a halted machine
stops (`cte.c:26`, `trm.c:23`), a machine whose stacks are full takes no trap, and bounds on bytes,
pages and calls, and the end of a call, end the others. In `arith` a call that has returned stutters, so that
a way `__udivmoddi4` does not provide for would show as a deadlock.

Symmetry is declared for user threads, spaces and the terminal's threads only, which no
definition tells apart, and only in runs of safety properties.

### Disagreements between text and code

* `am.h:26` says an Event is "caused by @cause of pointer @ref". `cte.c:15-23`
  fills `event` alone; `cause`, `ref` and `msg` are 0 for every event (`cte_events`).
* `am.h:11` says `MMAP_NONE` is "no access". `map` ignores `prot`, and a page mapped
  so is accessible (`vme_prot`).
* `int64.c:314` declares `__divsi3` as the signed division of the compiler's run-time
  library. `divsi3.c` shifts and compares signed words without taking their signs apart:
  with a negative operand it returns 0 or 1 whatever the quotient (`soft_div_signed`), and
  with a dividend above `2^30` it may return something else. The declaration names the
  function and no more; that it divides is what the library's name for it means.

Three more were met without a run of their own. `memcmp` (`string.c:90-93`) is
`strncmp`, which stops at a NUL: two areas with a common NUL before their first
difference compare equal. `__am_timer_rtc_w` drops year and month, and
`__am_timer_rtc_r` always returns month 0 of 1970 (`timer.c:35-49`), though `amdev.h`
has them in the register. Of the registers of `amdev.h`, those of audio, disk and
network and two of the GPU have no handler, and an access panics (`ioe.c:103`).

## Fairness

One call of one thread returns when the hart goes on: weak fairness of the steps
of `FbDraw` (`DrawEnds`), `SoftDiv` and `SoftMul` (`CallsEnd`). In `Ioe` what the AM does by
itself (`Work`) is fair, for the same reason; `main` (`MainCall`, `MainEnds`) is not, and may run for
ever. `FailStops` needs no more: once the handler of a missing register runs,
nothing is left to `main`. Its transmitter is taken to get every byte out; that it does is
`Uart`'s matter.

`SendReturns` of `Uart` needs weak fairness of the sender's own steps in the driver (its
loops go on while nobody halts the machine) and of the transmitter (a byte in TX leaves
at some time). Callers need not call and bytes need not arrive. Where another thread
receives, the sender's fairness rests on the kernel's scheduler as well, which
is not in this repository; where one thread uses the port it is that of the hart.
`Cte`, `Vme`, `Gpu`, `Timer`, `Heap` and the other modules claim safety only.

## Proofs

`CteProofs` proves, for any threads, spaces, values, causes and stack depth that
satisfy `ThreadsAssumption` and `ValuesAssumption`:

| theorem | says |
|---|---|
| `Inductive` | `Spec => []IInv` |
| `TypeCorrect` | `Spec => []TypeOK` |
| `ScratchCorrect` | `Spec => []ScratchInv` |
| `StacksSafe` | `Spec => []StackInv` |
| `SpacesRight` | `Spec => []AddressSpaceInv` |

`StackInv` is not inductive. Two activations of a stack could overlap without any
harm until one is resumed; `Nested` says they lie above one another. A handler
could outlive the Context it returns into; `Called` says it does not. The running
activation could be below a suspended one; `TrapPath` says it is above, and that
on the trap path `a0` points to its Context. A user Context must lie at the stack's
end for `mscratch` to be restored to it; `UserBody`. `AddressSpaceInv` needs the
space of sleeping threads as well: `Translated` finds it in their Contexts. The
conjunction `IInv` is inductive. The proof has one lemma per action, resting on a
few about writes above all suspended activations (`WriteAbove`) and into the newest
Context (`WriteContext`), and on `Restore` popping the newest one (`RestoreInv`).

`MemoryProofs` proves, for memories of any size, any set of byte values with 0 in it
(`MemoryAssumption`), areas anywhere and of any length:

| theorem | says |
|---|---|
| `Inductive` | `Spec => []IInv` |
| `LoopsSafe` | `Spec => []CopyInv` |
| `CopiesCorrect` | `Spec => []CopiesRight` |
| `StaysInside` | `Spec => []Inside` |
| `HeapInvariant` | `Heap!Spec => []HeapInv` |
| `BlocksLieApart` | `Heap!Spec => []BlocksApart` |
| `StrInvariant` | `Str!Spec => []StrInv` |
| `StringsRight` | `Str!Spec => [](Str!WritesRight /\ Str!ReadsRight /\ Str!Inside)` |
| `StringsWrite`, `StringsRead` | the first two again, for the instance that TLC runs |
| `PrintsItems` | `MCSpec => []PrintsRight` |
| `AccessesStayInside` | `MCSpec => []AccessesInside` |
| `ReadsBack` | `MCSpec => []ReadBack` |

`CopyInv` gives memory at every turn: the part of the target already copied holds the
source's old bytes (`Moved`), the rest is as it was. A turn keeps it because the byte it
reads has not been written: going forwards the target begins before the source or
behind its end, going backwards it begins at or behind the source. `IInv` adds `CopiesRight`
to it, which `CopyInv` alone, silent about what was returned, does not imply.

`HeapInv` puts the blocks one behind another below `HeapTop`, the start of the heap and what was
taken from it, as long as no store undid another's and nothing has wrapped. A store that
finds `addr` as its call loaded it (`~lost`) appends; one that does not sets `lost`. The
threads, sizes and addresses are any that satisfy `Heap!Parameters`.

`StrInv` has one conjunct for each loop of `Strings`: where its pointers are, how far they are apart,
and what memory holds by then (`CopyOf`, `PaddedCopy`, `SetTo`), with `WritesRight` and
`ReadsRight` for calls that are done. No loop runs past the end since a string has a first NUL
(`NulIsFirst`) and the loop has passed none; for `strncpy` and `strncmp` the end is
the NUL or the n-th byte, what comes first (`FinalNul`). That a string with a NUL has a
first one is an induction over numbers, which is had from the library's theorem
that `<` is well-founded on them (`Smallest`). `strcpy`, `strncpy` and `strcat` read what they have not
written because the areas are apart (`Room`, `NcopyRoom`), which is what `Legal` asks of callers.

The last three theorems are about formats of any length, words of any length and any numbers and
widths that satisfy `Format`'s parameters (the characters and the strings of `%c` and `%s` are those
of `Others`). `PrintInv` relates the place in the format string to
the item it belongs to: in the outer loop `vsprintf` is between two items (`Between`), and in the inner one
it has read `j` characters of item `k + 1` (`Within`), which fixes `occupy` and `limit`; in either, what is
printed and taken is what the first `k` items make (`Printed`). That a step keeps it takes what the
format says at each place. `FmtTo`, `OutTo` and `ArgsTo` are the format, the output and the arguments of
the first `k` items, joined one after the other (`Joins`), so that item `k + 1` is where `Lies` says, and
`WrittenRight` has the parts of a directive in their places. A digit is no letter
(`DigitRight`, `LettersAreNoDigits`), so that `vsprintf` reads what was written (`ReadAt`).

What a value is printed as rests on `FptRight` and `FptdRight`: the functions that call themselves for
the digits in front return the numeral that `Numeral` states digit by digit. `AtoiReads` says the
converse of `atoi`: after `k` characters it has read the first digits of the number (`ReadOf`), none of which
overflows, and `AfterSpaces`, `AfterZeros` that the padding does no harm. The inductions in
these are over data, which the provers do not have as such. They are made from the
well-foundedness of `<`: the smallest place where a function differs from what it should be has
one before it where it does not (`PrintsNumerals`, `AtoiReads`), and a function with a recursive definition
exists since what it should be is one (`PrintsExists`, `Recursion`). `PowerAssumption` says
of the powers of 2, 10 and 16 that `b^0` is 1 and each `b` times the one before; TLC evaluates it
for its instance.

`ArithProofs` proves, for words of any width of at least 2 (`WordAssumption`):

| theorem | says |
|---|---|
| `Inductive` | `Spec => []IInv` |
| `TypeCorrect` | `Spec => []TypeOK` |
| `LoopsKeep` | `Spec => []SubtractInv` |
| `Divides` | `Spec => []QuotientRight` |
| `MulInvariant` | `Mul!Spec => []MulInv` |
| `Multiplies` | `Mul!Spec => []MultipliesRight` |
| `WideInvariant` | `Wide!Spec => []WideInv` |
| `WideLoopKeeps` | `Wide!Spec => []WideLoopInv` |
| `WideDivides` | `Wide!Spec => []DividesRight` |
| `WideSignedDivides` | `Wide!Spec => []SignedRight` |
| `CountsZeros` | `MCSpec => []ZerosRight` |

`Accounted` is the loops' invariant: the divisor is shifted by as much as `bit`
(`Shifted`), and `a0 = b0 * res + a` (`Paid`). The first loop does not shift a bit of the
divisor out, as it stops before the top bit or, for signed operands, as the dividend is
small (`NoBitLost`); where it ends `a < 2 * b`, so that one subtraction for each bit is
enough. With the last bit `a < b0`, and `Unique` makes `res` and `a` quotient and
remainder. That `res` stays a word needs `Room`, which holds outside the domain too; a
division by zero, `ZeroInv`. `WordAssumption` says of the powers of two that each is
twice the one before; that they grow follows (`Powers`). In the multiplication what was added and the
product still to be added make `a0 * b0` modulo the word at every turn (`Conserved`), though
bits of both operands are shifted out; `MulInv` adds that nothing is left when the loop ends.

In the double-word division `LoopInv` does not suffice: the code takes whether the divisor
fits from the sign of `d - r - 1`, which is right for large divisors only because the
loop then has one turn and the numerator is as long as the divisor (`StartFits`, `Compared`).
`WideInv` adds that. `PreparedShifts` makes of the three preparations by halves one
shift of the double word, `StartFits` has `r < d` at the loop's entry from the two counts of
leading zeros, `Rotating` and `TurnSum` are a turn, and `ShorterSmaller` says that a numerator
too short for the loop is smaller than the divisor. The special cases are each a division
of digits (`DividingHigh`, `ShiftedWords`). `RingRemainder` has `__divmoddi4`'s remainder, a
difference modulo the double word, agree with `__moddi3`'s. `ExponentAssumption`, which TLC
evaluates for its instance, says of `^`, which the provers do not interpret, that `2^0` is 1 and each
power twice the one before; the rest about exponents is derived (`ExponentSum`, `ExponentGrows`).
`PreparedShifts` and `StartFits` need what the counts of zeros return, which is proved of the code's too
(`ZeroCounts`).

For the counts, a narrowing keeps that the zeros counted and those of the word left are those of the
word, and halves the word left (`SkipHighKeeps`, `SkipKeeps`), so that two bits are left at the last one,
whose zeros are read off (`HighRead`, `LowRead`). It is an induction over the narrowings, by the smallest one that
fails (`HighNarrows`, `LowNarrows`), for words of `2^k` bits with any `k`; `DoubleClz` and `DoubleCtz` put the halves
of a double word together.

`VmeProofs` proves, for tables, memories and user areas of any size, any spaces and any
callers that preempt one another (`MemoryAssumption`, `NamesAssumption`):

| theorem | says |
|---|---|
| `Invariant` | `Spec => []IInv` |
| `TypeCorrect` | `Spec => []TypeOK` |
| `TablesAreOwned` | `Spec => []TablesOwned` |
| `KernelStaysMapped` | `Spec => []KernelMapped` |
| `Refinement` | `Spec => AddressSpacesSpec` |

A page from the pool is a directory, the table an entry of one points to, or the
table a call of `map` has just been given and not yet entered (`Use`); `Owned` says that
each page in use has exactly one of these, and that is what shows that a write to one entry leaves
all others alone. A call holds a page only between two of its accesses, so that
`Calls` is needed, which says what each access relies on; and two calls on one space
would each allocate the same table, so that `Exclusive` is. `Boot` keeps the other callers out
until translation is on. `KernelMapped` speaks of spaces that `protect` has returned;
`Progress` is about those that it still copies the kernel's entries into, `Shared` says
that the entries copied are those of `kas`, `Fresh` that tables are zeroed until something is put
into them, and `KernelDone` that the pages `vme_init` has been over are mapped to themselves. For
the refinement, the two writes of a leaf entry change the abstract map at
the second one, for an entry with its valid bit clear maps nothing.

`UartProofs` proves, for any numbers of bytes, one thread or two:

| theorem | says |
|---|---|
| `Invariant` | `Spec => []IInv` |
| `TypeCorrect` | `Spec => []TypeOK` |
| `SendsInOrder` | `Spec => []SentInOrder` |
| `ReceivesOnce` | `Spec => []ReceivedOnce` |

The transmitter is busy only while `send_data` waits for the byte it wrote (`Busy`). That would break
if a thread that read the status as busy wrote it back after the byte had left; `Copied` says that
it read it as clear, and needs that one thread does both (`UartAssumption`, if `BusyWritable`). `Newest`
says that the byte in RX came after all bytes that were returned, while it is marked ready or has
been found to be.

`GpuProofs` proves, for a terminal of any size:

| theorem | says |
|---|---|
| `Invariant` | `Spec => []IInv` |
| `TypeCorrect` | `Spec => []TypeOK` |
| `CleanMeansShown` | `Spec => []Coherent` |
| `SyncIsShown` | with one thread, `Spec => []SyncShows` |
| `Refinement` | with one thread, `Spec => TerminalSpec` |

`Coherent` takes a picture, pixels and a dirty bit at three different times; `Pictures` says that the
picture a thread holds is the cell's text unless another wrote the cell (`hit`), which is the window
that `Coherent` leaves out. The last two theorems assume `Threads = {c}`, as the run `gpu_alone` does: with
two, a `put` lost in that window never reaches the screen. One thread is never `hit` (`Alone`), and
the cells a loop has passed are clean (`Passed`), so that a sync has shown all.

`CteRefinement` proves `Spec => VirtualCpuSpec`, with a lemma for each action
that says which step of `VirtualCpus` it is, or that no activation's processor
changes. It rests on `IInv` of `CteProofs` (a Context saved is not written until it is
restored) and on `Masked`: on the trap path
interrupts are off and `MPRV` is set. `NoCpuAssumption` says that `NoCpu`, which stands for an
activation that does not exist, is no processor.

`DeviceProofs` is about the three machines of `MCDevices`, each under its own
specification, for any values of its constants that satisfy the assumptions:

| theorem | says |
|---|---|
| `StartsFirst` | `Spec => []StartedFirst` |
| `BuffersFit` | `Spec => []BufferFits` |
| `UptimeIsRight` | `Timer!Spec => []UptimeRight` |
| `ClockKeepsTime` | `Timer!Spec => []RtcKeepsTime` |
| `DrawsInside` | `Draw!Spec => []DrawnInside` |

For `Ioe` the invariant says of every operation of `todo` that what it needs has been
started, or is started by an operation before it (`Ordered`), that the tables are filled before an
access (`FilledFirst`), and that what ends `todo` does not return (`Ending`). Since a dispatch puts an operation of
its own in front of the rest, it is of sequences that change at their head. That each of
the 32 registers' entries is of the right type is proved by going through the tables, with
`NullAssumption`: no handler is NULL. For `Timer`, `Counted` says that the two registers are
the time that passed and the time when the machine started, modulo `Modulus`, and `Kept` that
`date`, which `NextSecond` moves on by carrying, is the calendar of the seconds in `time_base`
and the counter; it needs that dividing by the lengths of minute, hour and day is unique. For
`FbDraw`, `Painted` gives the framebuffer pixel by pixel after so many lines: pixels of different
places have different addresses. Sums do not wrap since the screen, its framebuffer and the arguments
fit in a word (`Parameters`).

The types of `Uart` and `Gpu` are proved only, and checked by no run.

Model-checked only are `SendReturns`, `FailStops`, `CallsEnd` and `DrawEnds`: liveness under fairness is
beyond the proof system. Every safety property of a passing run, and every refinement, is a theorem
as well.

## Not modelled

* `input.c`: one read of a device register, without state.
* `audio.c`, `disk.c`: stubs, entered in no table.
* `mpe.c` but for an entry that returns: constants of one processor, and the compiler's
  atomic exchange.
* The baud register and the configuration registers: constants, or values no code reads back.
* `rand` and `srand`, whose quality is a matter of constants; `abs`; `free`, which is empty;
  `snprintf` and `vsnprintf`, which panic.
* `cpp.c` (empty functions), makefiles, linker script, and the image scripts.
* The branches of `int64.c` for other compilers and machines, which are not compiled.
* The bits of the font (`ascii.S`): a text is its own picture.
* The TLB: a hart is taken to walk the tables at every access.
* What is up to the kernel above: its handler, its scheduler, its page allocator; the
  external actions say what is taken of them.

The hazards of `PROJECT.json` without a property each say why.

## Plan

Done: every component with state of its own is modelled, and the three refinements and all
safety properties that the runs check are proved. Left are the hazards that no property covers, where
a model of what lies outside the AM (a TLB, a stack that nested handlers fill) can say something of
the code itself.
