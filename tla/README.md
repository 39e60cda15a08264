# tartaros: a verification development

tartaros is an x86 kernel with a multiboot loader path, and, beside it, a preemptive
task scheduler that is developed as a Linux program (`scheduler/`) before it moves into the
kernel. This directory holds TLA+ models of it, the TLC configurations that check them on
small instances, and proofs for the TLA+ proof system of what holds for every instance.

Paths are relative to the root of the repository.

## 1. The system: inventory

| Component | State it keeps | Operations | Talks to |
|---|---|---|---|
| Scheduler (`scheduler/scheduler.cpp`) | table of tasks (context, 64 KiB stack, priority, `last_run`, status), `cur`, `main_ctx`, the id counter | `create_task`, `request_priority`, `run_scheduler`, the SIGALRM handler `schedule`, `task_entry_point` | the kernel's signals and timer; the tasks, on whose stacks the handler runs |
| Frame allocator (`src/mm/phys_alloc.cpp`) | `heap_start`, `heap_end` | `init_phys_alloc`, `alloc_phys` | the multiboot parser gives it the heap |
| Paging (`src/mm/paging.cpp`) | page directory, page tables, the processor's translation cache | `map_page`, `map_region`, `unmap_page`, `unmap_region`, the `_or_panic` forms | takes frames for tables from the allocator |
| `mm::alloc`, operator new and delete | none of their own | allocate, free (a stub) | both of the above |
| Bootstrap (`src/bootstrap/`) | a pool of 16 page tables, the page directory, cr0 and cr3 | `enter_virtual`, `map_region`, `map_page` | leaves the tables the kernel starts with |
| `enter_kernel` (`src/early_init/enter_kernel.cpp`) | progress of the boot | runs every initialisation in a fixed order | all of the kernel |
| Multiboot parser (`src/early_init/mb_parser.cpp`) | the parsed heap, framebuffer, command line | `parse_multiboot` | the loader's records |
| GDT, IDT, exceptions, PIC (`src/interrupts/`, `src/early_init/gdt.cpp`) | descriptor tables, the two controllers' masks and offsets, the interrupt flag | remap, mask, end of interrupt, the stubs | the processor, the devices |
| Early consoles (`src/early_init/{console,vga,framebuffer}.cpp`) | cursor, screen memory, the glyph table | put a character, scroll, clear | paging maps their memory |
| Kernel console and VGA driver (`src/kernel/`) | cursor, colours, screen memory | put, scroll, set colours | operator new |
| C++ runtime (`src/libk/cxxabi.cpp`, `src/early_init/constructors.cpp`) | guards of local statics, 32 exit functions | acquire, release, abort, register, finalize | compiler-generated code |
| libk (`src/libk/`) | none | strings, searches, `vsnprintf`, memory moves | everyone |

### Where it is hard

* **Scheduler.** Everything is interrupted everywhere. The handler of a 2 ms `ITIMER_REAL`
  timer swaps contexts while it runs *on the stack of the task it interrupted*; the signal
  mask is part of a context, so where an alarm can nest depends on which context is being
  loaded; finished tasks are erased with their stacks by a handler standing on one of them;
  references into the table are held by preempted code; a task's end must reach `main`; a
  strict-priority choice must not starve anybody.
* **Memory.** A region is mapped page by page; any page may need a new table, which comes from
  the same allocator the caller has just taken the region from; a failure in the middle has
  to be undone; a new table is only reachable through the directory entry that makes it live;
  the translation cache is not coherent; addresses wrap.
* **Boot.** Order: interrupts, controllers, tables, constructors, console, allocator. What is used
  before it is ready, and what an interrupt finds in between.
* **Consoles and strings.** Boundaries: the last column, the last row, the last byte of `n`.

`PROJECT.json` lists these one by one, with their lines, as hazards.

### What makes each part correct

* Scheduler: every unfinished task can be resumed where it was; the processor never stands on
  freed memory; finished tasks lose the processor and their stack; `run_scheduler` returns
  when, and only when, all have finished; nobody starves.
* Memory: live blocks are disjoint and mapped; tables are apart from data; a failed call leaves
  no trace; two-level tables with a recursive entry behave as a flat map; the kernel is never
  unmapped. All of it until the allocator gives out what is in use, which the code does not prevent.
* Bootstrap: every address the kernel uses after the switch is mapped where it is linked.
* Interrupts: a vector without a gate never resets the machine once the table is loaded; no device's
  vector is taken for an exception's; masked controllers stay quiet.
* Consoles: what is on the screen is the last lines of what was written.
* Runtime and strings: each initialiser runs once; results equal a reference definition.

## 2. Modules

| Module | Models | Status |
|---|---|---|
| `Scheduler` | `scheduler/scheduler.cpp` and what its `main` does | done |
| `TaskPool` | the promise of `scheduler.hpp`, abstractly | done |
| `PageTables` | what the bootstrap and `paging.cpp` share: tables, addresses, the processor's walk | done |
| `Memory` | `phys_alloc.cpp`, `paging.cpp`, `alloc.cpp`, `new.cpp`, the calls of `enter_kernel` | done |
| `AddressSpace` | the promise of `paging.hpp`: a flat map | done |
| `Bootstrap` | `bootstrap/enter_virtual.cpp` | done |
| `MbParser` | `early_init/mb_parser.cpp` | done |
| `Interrupts` | `early_init/gdt.cpp`, `interrupts/`, the two 8259 controllers | done |
| `Boot` | `early_init/enter_kernel.cpp`; composes the three above | done |
| `TextScreen` | what a text screen shows, abstractly | done |
| `Console` | `early_init/vga.cpp`, `early_init/console.cpp`, `kernel/console.cpp`, `kernel/vga_driver.cpp` | done |
| `Framebuffer` | `early_init/framebuffer.cpp`: the font's table, the cursor, the pixels | done |
| `Screens` | the choice of `enter_kernel` between the two; composes them | done |
| `Printf` | `libk/vsnprintf.cpp` from the text of the format to the text written, `libk/ctype.cpp` | done |
| `Strings` | `libk/string.cpp`, `libk/algorithm.hpp` on a memory of bytes | done |
| `Libk` | composes `Strings` and `Printf` writing to its memory; the classes of `libk/ctype.cpp` | done |
| `CxxAbi` | `libk/cxxabi.cpp`, `early_init/constructors.cpp` | done |
| `SchedulerProofs`, `MemoryProofs`, `BootProofs`, `ConsoleProofs`, `CxxAbiProofs`, `StringsProofs` | theorems about these (section 5) | done |
| `PageTablesProofs`, `DataInduction` | lemmas that several proofs share: addresses and tables, induction | done |
| `MCMemory`, `MCBoot`, `MCConsole`, `MCLibk` | instances for TLC | done |

### 2.1 Scheduler

One action per call or handler run:

| Action | Code |
|---|---|
| `create_task`, `request_priority` | the functions, called by `main` before `run_scheduler`; for an id that is not in the table `at` throws and `main` ends (`mainPc = "caught"`, `main.cpp:64-67`) |
| `RunNothing` | `run_scheduler` with an empty table |
| `StartTimer` | `run_scheduler` up to and including `start_timer`, with `set_initial_task` (its `tasks[0]` inserts a zeroed task if there is none: `Phantom`) |
| `Launch` | the `swapcontext` of `run_scheduler` |
| `Alarm` | the whole handler `schedule`: `remove_finished`, the fine, the ageing, the choice, the save of the interrupted context and the load of the next |
| `FinishSwap` | the end of a handler's `swapcontext` where an alarm could have nested and did not |
| `StopTimer` | the rest of `run_scheduler` |
| `Finish` | a task's function returns or throws; `task_entry_point` sets the status and pauses for ever |
| `TaskLookup`, `TaskRequest` | `request_priority` called by a task: `tasks.at(id)`, and the write through the reference, with preemptions in between |

The handler is one step because SIGALRM is blocked while it runs. A context is the stack it
is on and the code it continues in; loading a zeroed one, or writing through a dead
reference, leads to `mode = "wild"`, where nothing is known any more. `age` is `now - last_run`,
cut at `AgeQuantum * MaxPriority`, from where more waiting changes nothing because
`do_request_priority` clamps. Time passes in the handler: `Delays` is the set of milliseconds
that may lie between two runs. Ties of `get_next_task` go to the first in the iteration order of an
`unordered_map`; the model takes any of them. Erased entries are `priority = 0`, `age = 0` and a zeroed
context; `status` is kept after erasure as history, and no action reads it for an erased task
except to skip it.

Outside task code an alarm can arrive in four places, the constant `AlarmWindows`:
`"armed"` (timer set, first `swapcontext` not done), `"stop"` (main resumed, timer not yet stopped), and
inside the handler's `swapcontext`, after the target's signal mask is installed by a system
call and before its registers are loaded, when the target is a fresh context (`"freshSwap"`,
`makecontext` inherited an unblocked mask) or main (`"mainSwap"`). Contexts saved by the handler itself
have SIGALRM blocked, so there is no window for them. "armed" and "freshSwap" break the scheduler,
each in a run of its own (section 4); the other two are harmless, and the safety run and the proofs
include them.

`TaskPool` is what a caller of `scheduler.hpp` is promised: tasks are added, exactly one unfinished task
at a time gets the processor, only it can finish, and the call returns when all have. `Scheduler`
implements it with `work <- status`, `running <- stack` and the caller's phase read off `mainPc`.

### 2.2 Memory

`mem` is physical memory read as page tables: page tables really are stored in frames, and the code
reaches a table only by walking the directory through its recursive last entry
(`get_page_table` is `Walk` on page `<<Recursive, i>>`, not a lookup in a separate structure). The bump
allocator, `map_page` and `unmap_page` are operators; a call on a region is a record (`call`) that
`MapNext`, `MapFails`, `UnmapNext` and `Return` advance page by page, in the order of the loops of
`map_region`, `map_region_or_panic` and `unmap_region`. `init_phys_alloc`, `MapVideo`, `UnmapBootstrap` and `UnmapMbi`
are `enter_kernel`'s calls in its order; `Alloc` and `Free` are operator new and delete, which only the
kernel proper uses. `Write` is a block's owner overwriting it (if a table were in the block, the mapping
would change) and `Access` is the processor caching a translation. `flush_tlb` drops the translation the
code makes it drop. Address arithmetic is modulo the size of the address space.

Nothing keeps the heap off what is in use. The parser takes the largest available region, which usually begins
at 1 MiB and holds the kernel image with the page directory and the pool of tables in its `.bss`
(`mb_parser.cpp:64`; `kpend_int` is never used). On such a machine `alloc_phys` gives out those frames in the end, and a size near the
maximum makes it give out all of memory at once, as `page_size * num_pages` wraps (`phys_alloc.cpp:41`). The history variable `intact` is
true until that happens: until frames are given out of which one has an address from the recursive window on, or is a table of
`enter_virtual`'s, or has a number that is a page of the kernel, over which operator new would then map it (`Spare`). `Heaps` may be any regions, and the properties say
what holds while `intact` does. Two things count as in use and are not looked at: the frames of the image that are not
tables, as the properties do not speak of the kernel's data, and the memory for the screen, which is beyond a
heap of less than 1.5 GiB (`enter_kernel.cpp:92`). An access to a table that cannot be reached any more is a `PageFault`,
after which the kernel stops.

`AddressSpace` is a function from pages to frames changed at one page per step, as long as nobody was given the memory it is kept in
(`kept`); `Memory` implements it on the pages below the recursive window with `kept <- intact`.

### 2.3 Boot

`Bootstrap` maps one page per step (`MapPage`: an iteration of `map_region`, or `map_page` of the
multiboot page), with tables from the pool; `enter_virtual` then writes the recursive entry and turns
paging on. `alloc_pt` runs while paging is off but its static `used` is addressed where it is linked,
above `0xC0000000` (`enter_virtual.cpp:78`; `to_phys` is applied to the pool and the directory only). What
is at that physical address depends on the machine: with memory there (`layout.backed`) `used` counts from
whatever word the cell holds (`layout.reads`), without it every read gives the same value. `alloc_pt` only tests for
equality with 16: a count above it is never found to be the end, and the table is then outside the pool, in memory that may be
somebody's or not be there. That is the end of the model (`paging = "stray"`), unless the sum wraps back into the pool. The second case is the
8 GiB machine of `Makefile:105`, whose memory below 4 GiB ends at 3 GiB; every part of the address space then
gets the *same* table, which works because the image is linked a multiple of 4 MiB above where it is
loaded, and only while bootstrap, image and multiboot page have no index in common. `VirtualIsLinked`
says exactly that. A bus that answers with ones takes the page in front of the pool for a table and is one of those strays.

`MbParser` is the parser's loop with its truncation from 64 to 32 bits. `Interrupts` has the processor's
tables and flag, the byte-by-byte initialisation of the controllers, and what happens when a vector arrives:
`Take` runs `handle_exception` if the vector has a usable gate, and otherwise follows the processor to
the general protection fault, the double fault and the reset. The descriptor table's gates name the
kernel's own code segment, so they are of no use before `init_gdt`.

`Boot` runs `enter_kernel` as a list, `Program`, one step per call, except that `init_interrupts` is taken
apart into `init_isrs`, `lidt`, `sti` and the ten bytes written to the controllers. Between any two steps a
device may raise its line (`Device`), the processor may take a request (`Deliver`) and the code may fault
(`Fault`). `Parse` faults when what the multiboot information points to is not on a mapped page, and when the memory map is not a
whole number of entries (`whole`): the loop ends where `p` is `mmap_end` and nowhere else (`mb_parser.cpp:55`). `Unmap` rounds both ends down as
`unmap_region` does (`GivenBack`): a page the bootstrap fills only partly stays mapped. What these calls on memory do
in detail is `Memory`'s.

### 2.4 Consoles

`Console` prints a character per step on either console over one screen memory. `Fault` is an exception
in the middle of a character: the screen and the early cursor are in any state the writer goes through
(`Amid_vga_out_char`: before and after a wrap, in the middle of a scroll, between a scroll and `cursor_x = 0`);
`handle_exception` then prints its message with them and halts. The message has line feeds, as the handler's eight lines and the
two of its panic have (`idt.cpp:140-148`, `panic.cpp:31-34`); `LaidOut` says where each of its characters belongs. `enter_kernel` ends all it
prints in a line feed before the kernel's console can print (`KernelMain`), so that the early cursor, where a message appears, is at the beginning of a line from then on. A tab of the kernel console is four
characters with room for an exception between. `TextScreen` is a list of lines whose first goes when there
is no room; both consoles implement it.

`Framebuffer` counts memory in pixels: `fb` holds the pixels drawn so far. A font is a size, a picture for each
glyph and, for each glyph, the list of characters it shows. `TableText` and `Bytes` are the PSF2 format, the bytes the
linker puts into the kernel; `psf_init` reads the first (`Translations`, a `Translation` for each round of the loop,
`Decoded` in 16 bits), `putchar` the second (`Ink`, with the byte and mask of `Current`, column by column). `FbPrint` and `FbNewLine` are `framebuffer_out_char` with
its static cursor. A write beyond the mapped memory is the end (`fb_phase = "fault"`): the page fault's handler prints to
the same place and faults again. The linked font (`font.psf`: 256 glyphs of 10 by 24, 350 distinct characters of one to
three bytes, the largest U+FFFD) has none of the sequences of characters the format allows, and neither have the model's.

`Screens` starts one console or the other. With a framebuffer nobody maps the VGA memory at `0xC00B8000`, so the
kernel's own console (`core_utils.cpp:57`), which writes there, is not part of that alternative; `kernel::main` does not print.

### 2.5 libk

In `Strings` a behaviour is one legal call on a small memory, or a string taken apart by `strtok`, call by
call. The loops are translated as they stand, on addresses, so overlapping arguments really overlap: a loop is a function of its
counter, whose value is the memory, the address or the count after so many rounds. A character passed as an `int` is any of `Ints`, negative
ones too, and is cut to a byte where the code casts it (`AsByte`). `Libk` adds the calls of `vsnprintf` and the
character classes; `Strings` has no recursive operators, so that theorems can be stated about it.
The properties are reference definitions: what arrived where and what else changed
(`BlocksArrive`, `StringsArrive`), the dictionary's order, the first place of a search, the words of a string.
`Printf` reads a format character by character (`parse_flags` to `parse_spec`, with stars and their arguments) and writes each
conversion with machine words of `CharBits`, `ShortBits` and `IntBits`. `FormatsParse` gives it formats a caller wrote
(`Written`: fields to text, with numbers in the text or as arguments, a negative width for the flag `-`) and compares the
fields read with those meant; `NumbersReadBack` reads the text written as a number again instead of formatting it a second way, and
says which sign, space or `0x` the flags ask for in front of it.
The algorithms take a set for a predicate and `Op` for an operation; results may replace operands where C++ allows it.

`CxxAbi` is what compiled code calls: `__cxa_guard_acquire` when control reaches a local static whose guard is not
`INITIALIZED`, in a constructor, an init function or an exit function too (`constructing` is the stack of constructors running);
`__cxa_guard_release` with the registration of the destructor behind it; `call_constructors`, whose functions register too;
`__cxa_finalize` one exit function per step; `call_destructors`. `MAX_ATEXIT` is the size of the table; callers ignore that it is
full. `IN_PROGRESS` is never read, so a static whose own constructor reaches its definition again is constructed twice:
`LifetimesPaired` says that this is the only way. The two share a run, a behaviour being about one or the other, as they share
no state.

### 2.6 Planted faults

Operators marked `Planted fault` next to an operator are plausible wrong versions of it
(a dropped guard, a forgotten reset, an off-by-one). No action uses them. `PROJECT.json` pairs
each property with the fault that makes TLC find it violated, so that every property is known to
say something about the code.

## 3. Runs that pass

| Run | What it asks | Bounds |
|---|---|---|
| `SchedulerSafety` | consistency of contexts, stacks and table under preemption; refinement of `TaskPool` | 3 tasks, priorities 0-3, fine 2, one priority per 4 ms, alarms 2 or 6 ms apart, tasks asking for priorities for each other, windows `stop` and `mainSwap`, one `run_scheduler` |
| `SchedulerLive` | `BoundedWait`, `NoStarvation`, `FinishedTasksReturn` | the code's constants 100, 2, 20 ms and 2 ms; 3 tasks with priorities from 30, 50, 98; windows `stop` and `mainSwap` |
| `MCMemory` | blocks, tables, failures, refinement of `AddressSpace` | 16 frames of 2 bytes, tables of 4 entries, 13 heaps: up to 12 bytes beside the kernel, over the directory, over all of the image, within it, unaligned, at the end of memory and of the addresses, and at 0; a framebuffer or VGA, sizes 0 to 3 and one that wraps, 3 live blocks; nothing after something in use was given out (`WhileIntact`) |
| `MCBoot` | placement of the kernel, choice of the heap, faults and interrupts at every step of the boot | 64 frames of 2 bytes, tables of 8 entries, a pool of 3; 84 layouts, with 7 states of the cell of `used`; memory maps of up to 3 of 6 regions, two of which begin where the address space ends and one behind, and one that is not a whole number of entries; one device on each controller; page faults; 3 states the loader may leave the controllers' masks in |
| `MCConsole` | the screen is the text; a message printed from an exception can be read; glyphs are found and drawn | 3 columns, 3 rows, characters space, `x` and the control characters, one foreground, a message of two lines and 4 characters; a framebuffer of 8 by 4 pixels, pitch 9, 5 lines mapped; 3 fonts 3 pixels wide with bytes of 2 bits, of 4 or 98 glyphs, with and without lists |
| `MCLibk` | each function against its reference; lifetimes | 5 bytes of memory with values 0, 1, 2, and ints that are these or 256 less; words of 3, 4 and 6 bits; buffers of 0, 1, 3 and 5; formats of one or two conversions with every set of flags, written both ways; 2 statics, a table of 3, constructions nested twice, 2 finalizations, up to 2 functions in each array |

Why these are enough. *Scheduler*: three tasks are the smallest number at which the interrupted, the
next and an erased task are all different, and at which two finished tasks wait for
reclamation while a third runs; with priorities 0-3, fine 2 and two delays every
order of fine, clamp, ageing by zero, by one and by more than one occurs. *Fairness* depends on the
constants themselves, so that run has the code's own. *Memory*: the heap ends, by the choice of its size, in
operator new, in the new table of the first page of a region, in the new table of a later one, and in
the framebuffer's mapping at boot; four entries of four give regions that cross a directory entry;
all 2-byte pages give sizes below, at and above a page. The frames hold garbage at power-on, so
a table that is not cleared shows. Heaps over the image give memory beside it, then up to its last free frame, and then a table;
the properties are checked up to and including the step that gives the table out. *Boot*: the layouts put image and multiboot page in one, two
and three parts of the address space, with and without indices in common, so that the pool of three suffices, is
exhausted, and is stuck; the cell of `used` holds a count below the end of the pool, at it, above it, and so high that it wraps; the maps have an available region beyond the address space, one that is
not available but larger, and equal ones; of those beyond the address space one is cut to a size that beats all others. *Consoles*: with two usable columns and three rows every
character can wrap and every wrap can scroll; the message has a line feed, and beginning in the last column it takes all of the screen. *libk*: five bytes hold two
strings of different lengths with their terminators, overlapping at every distance. *Framebuffer*: characters of one to four bytes,
empty lists, a character in two lists and one in none; a glyph line of two bytes whose second is partly used; room for one and for two lines.
*Runtime*: two statics, and a constructor that reaches its own again, can fill the table of three before, between and during the two
finalizations.

What the properties say is in the comment in front of each definition. The main ones:

* `OwnContext`, `RunningStackLive`: preemption at any point loses no task and frees no stack in use.
* `WildOnlyByStaleReference`: a task that asks for *another* task's priority can be preempted between
  `at()` and the write (`scheduler.cpp:92-93`) until that task has finished and is erased; this is the
  only way to undefined behaviour under the safe windows.
* `RunsThePool`, `ReturnedMeansDone`, `FinishedTasksReturn`: `run_scheduler` returns exactly when all is done.
* `NoStarvation`, `BoundedWait`: strict priority with a fine and ageing.
* `BlocksAreOwned`, `TablesApart`: what operator new returns is its owner's alone, mapped, and never a page table, until `intact` ends.
* `FailureIsClean`, `KernelStaysMapped`, `IsFlat`: a region half mapped when the heap runs out is undone page by
  page and nothing else moves.
* `VirtualIsLinked`, `PoolSuffices`: when paging comes on everything is where it is linked, and nothing else; the
  bootstrap gives up only for lack of tables.
* `FaultsAreReported`, `MaskedIsQuiet`: from `lidt` on no fault and no interrupt resets the machine silently, and after
  `init_interrupts` no device interrupts, whenever it raised its line.
* `HeapIsLargest`: whatever truncation makes of high memory, the heap is a region as reported, if high memory begins where the
  address space ends.
* `MessageReadable`, `IsText`: the exception's message can be read wherever it struck; the consoles are text screens.
* `GlyphsAreTheirs`, `CellShowsGlyph`: a font's table of any UTF-8 is read without slipping, and a character's cell shows its glyph and nothing else changes.
* `LifetimesPaired`: each static once, each exit function once, across nested constructions and repeated finalizations.
* `TokensAreWords`, `TruncatesCleanly`, `NumbersReadBack`, `FormatsParse`: `strtok` over a whole string, and `vsnprintf` at the end of its buffer.

### Deadlock

`CHECK_DEADLOCK FALSE` is set where the system really stops: after `run_scheduler` returned for the last time
the modelled `main` is over, `mode = "wild"` has no defined successor, a panicked, reset or wrongly mapped
(`paging = "lost"`) machine has no next step of the program, a framebuffer write beyond the mapping ends the machine, and a call of libk that has returned is all of its behaviour.

### Fairness

* `WF(Alarm)`: the interval timer has an interval, so it keeps firing until `stop_timer`
  (`scheduler.cpp:212-233`).
* `WF(Launch)`, `SF(StopTimer)`, `SF(FinishSwap)`: straight-line code that an alarm, every 2 ms, may
  delay but cannot hit at the same few instructions for ever. `SF` because the alarm disables the action.
* `SF(Finish)`, `SF(TaskRequest)` are a promise of the tasks and only in `FairSpec`: a task that
  gets the processor again and again eventually finishes. Only the two runs that find `Termination` violated
  assume it, and find it violated all the same. `NoStarvation` must hold among tasks that never finish, and
  `FinishedTasksReturn` takes their end as its condition: once the last has finished, the call returns.
* `Memory`: `WF` on the steps of the region call in progress; nothing else runs in the kernel then.

### How far fairness goes

A task that runs for one alarm loses 2 and regains the maximum at the eleventh alarm after it was
chosen (20 ms for the first point, 22 ms for the second). Up to 11 ready tasks therefore share the
processor whatever the ties; from 12 on, 11 of them can pass the maximum around among themselves,
and as ties go to the first in iteration order the last one starves. The same happens in the model when
scaled down: four tasks with `MaxPriority = 4`, `AgeQuantum = 4`. No document promises a
number of tasks, so this is a limit of `NoStarvation` and not a finding.

## 4. Runs that find a disagreement

| Run | Finding |
|---|---|
| `SchedulerEarlyAlarm` | `run_scheduler` arms the timer (`scheduler.cpp:103`) before its `swapcontext` (104). An alarm in between saves main's stack as the first task's context; the task never runs and `run_scheduler` never returns, though the demo's `main` prints after it. |
| `SchedulerNestedAlarm` | The handler sets `cur` (116) before `swapcontext` (122), which unblocks SIGALRM for a fresh context before it loads its registers. A pending alarm then saves the *old* task's stack under the *new* task's id. |
| `SchedulerSecondRun` | `scheduler.tasks[0]` (200) inserts a zeroed task when task 0 has been erased by an earlier run, and the scheduler switches to it. |
| `MCMemoryTlb` | `flush_tlb` (`paging.cpp:151`) makes `invlpg` take the address of its own parameter, so an unmapped page stays usable for as long as its translation is cached. |
| `MCFramebuffer` | `framebuffer_out_char` wraps its cursor, which `putchar` takes "in characters not in pixels" (`framebuffer.cpp:104`), at the screen's width and height in pixels (174, 186, 187). Text leaves the screen to the right and below; with the linked font's 24 lines and a pitch of 4096 bytes, the 43rd line of text is beyond the 4 MiB that are mapped. |
| `MCBootIrq` | `init_idt` sets the interrupt flag (`idt.cpp:69`) before `init_pic` remaps the controllers. A device interrupt in between comes by a BIOS vector (the timer's is 8) and is reported as the exception of that number, "Double fault", which nobody raised. |

The first two are the usual signal windows: blocking SIGALRM from `start_timer` to the first task,
and setting the mask of fresh contexts as the handler's, would close them.

## 5. Proofs

| Module | Theorems | Rest on |
|---|---|---|
| `SchedulerProofs` | `TypeCorrect`, `NoFreedStack`, `ContextsAreKept`, `ReturnsDone`, `StacksAreReclaimed`, `WildIsStale`, `FinishedIsOff`, `ImplementsPool` | `SafetyInv`; all but the first assume `OneSafeRun` |
| `MemoryProofs` | `TypeCorrect`, `MemoryInvariant`, `NewIsOwned`, `TablesAreNobodys`, `KernelIsKept`, `TablesAreFlat`, `FailuresAreUndone` | `intact => MemoryInv`; no hypotheses beyond the module's assumptions |
| `BootProofs` | `TypeCorrect`, `PoolIsEnough`, `PagingLinks`, `AllFaultsReported`, `DevicesAreQuiet`, `HeapIsTheLargest`, `EachPartHasItsTable` | `BootInv` |
| `ConsoleProofs` | `TypeCorrect`, `MessageIsReadable`, `ImplementsText`, `GlyphsAreAlwaysTheirs`, `CellAlwaysShowsGlyph` | `TextInv`, `MessageInv`, `FbInv` |
| `CxxAbiProofs` | `LifetimesArePaired` | `AbiInv` |
| `StringsProofs` | `TypeCorrect`, `BlocksAlwaysArrive`, `StringsAlwaysArrive`, `OrderIsAlwaysLexical`, `SearchesAlwaysFindTheFirst`, `TokensAreAlwaysWords` | `StringsInv` |

`PageTablesProofs` (addresses, and what a write to one entry does to every page's translation) and
`DataInduction` (induction and iteration) hold lemmas. Each theorem is for every value of the constants that satisfies the named assumptions of its
modules:

* `SizeAssumption`, `BoundsAssumption`, `InputAssumption`, `InfoAssumption`, `DeviceAssumption`, `TextAssumption`,
  `AbiAssumption`, `LayoutAssumption`: numbers are numbers, sizes are not 0, inputs are of their types.
* `MemoryAssumption`: memory has a byte, bytes are numbers below 256 and 0 is one of them, needles are strings without a terminator.
* `PoolAssumption`, `PlacementAssumption`: what `linker.ld` does with the pool, the bootstrap and the image.
* `BootAssumption`, `RegionAssumption`: each directory entry has a table of its own and the last is the directory itself
  (`TablesSound`), which `EachPartHasItsTable` proves of what the boot leaves unless `used` is stuck (2.3); the addresses written in `enter_kernel` are below the recursive window,
  and the memory for the screen is not mapped over the kernel: `0x60000000` and `0xC00B8000` are not pages of the image, which `linker.ld` puts at `0xC0100000`.
* `FbAssumption`, `FontAssumption`: a line of the framebuffer in memory is not shorter than on the screen, and a font has a glyph and no more
  than its 16-bit numbers count. None of its characters is 0xFFFF in 16 bits: `psf_init` does not check (`framebuffer.cpp:94`) and its
  table ends at 0xFFFE (58). Unicode has no character whose code ends in FFFF, and the linked font has none beyond U+FFFD.
* `MessageAssumption`: the exception's message and the line it begins on fit on the screen. It is ten short lines
  (`idt.cpp:140-148`, `panic.cpp:31-34`) and the screen has 25; on a smaller one its beginning would scroll away.

### Scheduler

`OneSafeRun == AlarmWindows \subseteq {"stop", "mainSwap"} /\ Rounds = 1` is the complement of the findings. The invariants are not
inductive by themselves. `SafetyInv` strengthens them with `TableInv` (which
ids are in the table, what a status says about membership, and where every context is), `ControlInv`
(how `mainPc`, `stack`, `mode`, `cur` and `round` go together: while main is suspended the
processor is on the stack of `cur`, otherwise on main's; inside an interruptible switch nothing is
unfinished any more) and `DeadInv` (of the finished tasks in the table at most one is not `cur`: the one the
last handler stood on). The argument is that the handler saves
what it stands on under `cur`, so everything rests on *the stack in use being `cur`'s whenever an
alarm can arrive*: that is exactly what the two unsafe windows break. One lemma per
action shows that the action keeps `SafetyInv`; `ImplementsPool` maps each action to a step of `TaskPool` or
a stutter under it. `FinishedIsOff` is an action property: an alarm gives the processor to `get_next_task`'s choice, which
is unfinished, or to main.

### Memory

The code checks nothing of the memory it is given, and the theorems do not assume anything of it: `Heaps` is any set of regions, over the kernel's
image or not, and `Sizes` any set of words. They say what holds until `alloc_phys` gives out something in use, and `MemoryInvariant` is
`Spec => [](intact => MemoryInv)`. The step that makes `intact` false needs no proof, as it is never taken back (`IntactBefore`); `TypeCorrect` alone also covers what comes after
it, the tables being overwritten included.

`MemoryInv` is `TypeOK` with `HeapInv` (what was allocated ended inside the heap), `CallInv`
(a call is inside the region it was made for, and what a failing `map_region` undoes is inside what it mapped), `OwnedInv` (blocks,
and the region of a call of operator new, are below `heap_start` and share no byte), `TableInv` (tables
are pairwise distinct, the directory is its own last entry, none is in a block, and none that `map_page` made is in the rest of the heap) and `MappedInv` (a block's
pages are mapped where they are, and so are those the current call has done). They lean on one another: that a
new table maps nothing needs that the write which clears it goes through the window to the *new* frame,
that old blocks stay mapped needs that the new frame is in no block, and that needs the order in the heap. `Spare` enters where frames are given out: that no table of `enter_virtual`'s
is in a block, that no address of a call wraps, and that the pages of a block are not the kernel's. For `FailureIsClean` a further invariant (`CleanInv`) says that
of the pages from `heap_start` on only those in use at the start are mapped. `EntryWrite` is the lemma
behind all of it: writing one entry of a table nobody else shares changes one page's translation. The refinement
`TablesAreFlat` maps each page's step to a change of one page of `AddressSpace`.

### Boot

`BootInv` is `BootstrapInv /\ InterruptsInv /\ HeapInv`.

* `BootstrapInv`: while paging is off, the entries of the directory in use are as many as the tables taken since the start,
  each has its own table of those taken, wherever in the pool the count began and even if it wrapped; the other tables of the pool are clear, and what is mapped
  is exactly the pages of the regions done so far; if `used` is stuck, all entries name one table, which holds the pages done as long as no two parts use the same index.
  `PagingLinks` and `PoolIsEnough` follow from it by counting.
* `InterruptsInv`: what the descriptor tables, the flag and each controller's initialisation hold at each `pc`. It is what makes
  `AllFaultsReported` and `DevicesAreQuiet` hold for any device at any moment: both are about steps that devices and exceptions put in
  between.
* `HeapInv`: the heap is what the parser found. Its loop is a recursive function of the number of records read; the proof is an
  induction on that number.

Induction goes through `SetInduction` of `DataInduction`: it speaks about a *set* of numbers, which the provers can instantiate, where the
library's theorems take a predicate.

### Consoles

Text positions are numbered line by line, and `Lines` reads the screen as text. The lemmas say that an index of the
screen memory has one row and one column, that writing a character is `TextPut` on `Lines`, and that a scroll moves every position up by one line. `TextInv` is
`TypeOK` with where the cursors begin (`Beginnings`); `ImplementsText` maps
each step of a writer to one of `TextScreen`, and only `Fault` tears the text. For the message, `LaidOut` puts each character on a line and in a column of its own, later ones behind earlier
ones (`LaidOutIs`); writing the next one changes no cell of those before it (`LegibleWrite`), and a line feed or a wrap that scrolls moves them and the cursor up alike, with none
lost as long as the whole message fits (`LegibleTurn`).

The framebuffer's two theorems are those of `ScreensSpec`. `FbInv` is small: the font is one of the fonts, and `unicode` is what `psf_init` makes of
it; the work is in what that is. For the table: the text of a character is not mistaken for the end of a list, and its first byte tells its length and its bytes the
number (`Utf8Decodes`); by induction over the characters of a list and over the lists (`CharacterRound`, `ListRound`), there is a
round of the loop that is at each of them, with the number of its list as `glyph` and in the table, for each character met so far, the last
list that has it (`IsTable`); behind the last one the loop is done. For a cell: `Current` has a
closed form (`CurrentIs`), the bit of a mask in a byte of a picture is the pixel it was made of (`BitOfByte`, where `HasBit` says the same of the
bytes half read), and a place in memory is one line and one column of one cell (`PixelAt`).

### C++ runtime

`AbiInv` has a part for each of the three tables. *Exit functions*: what ran, followed by what is pending, is what was accepted in
order; a refused function is nowhere. *Statics*: one that never was entered by its own constructor is under construction at most once, or was
constructed once, and a guard is `INITIALIZED` exactly when it was. *Arrays*: `called` is the part of the array in front of the pointer. `AbiSpec` is the
runtime alone; the run checks it beside the functions of `Libk`.

### Strings

`StringsSpec` is the part of `Libk` that `Strings` models, and its theorems hold for memory of any size. There are three layers.

* *Loops.* `ScanFinds` says that a loop which looks for something stops at the first place where it is (`FirstStop`), and the
  searches follow. A loop that writes has a closed form: `ForwardShifts` and `BackwardShifts` say what memory holds after a copy
  in either direction, byte by byte, under the condition on the addresses that makes the direction right (`memmove`'s comparison of
  them establishes it), `FilterKeeps` and `TransformApplies` do the same for `remove`, `copy_if` and `transform`. The closed form
  is shown to satisfy the recursion and `SameLoop` makes it the only function that does.
* *Calls.* One lemma per function (`MoveDoes`, `CopyStringDoes`, `CompareDoes`, `FindStringDoes` ...) from its loops to what its property says.
  The ends of overlapping strings need care: what a copy may overwrite is what the callers' contract leaves to it.
* *`strtok`.* Its property is about many calls, so the invariant needs what holds between two of them. `Parsed` says it with `Split`: the bytes
  in front of `last` have been taken apart, the tokens returned so far are where the words in front of `last` begin, in order; each
  ends in memory where it ended in the string as it was; and from `last` on memory is that string still. `TokensAreWords` follows at
  any call, and all words have been returned when `last` is null.

`StringsInv` is `Basic` (memory holds bytes; nothing has changed before the first call) with `Parsed` and the four properties
of single calls. Loops whose state is more than a position use `Iteration` of `DataInduction`: what n rounds reach from a member of a
set that every round stays in.

### Only model-checked

* Liveness: `NoStarvation`, `FinishedTasksReturn`, `CallsReturn`, and that `Termination` fails. The proof system has neither fairness nor ENABLED.
* `BoundedWait`, which is true of the code's constants for few tasks and false for many (section 3).
* `FormatsParse`, `TruncatesCleanly` and `NumbersReadBack`, since `Printf` parses and converts with recursive operators, and the prover loses
  arithmetic in a module that reaches one; and `ClassesDivideAscii`, which is over 384 characters: TLC tries all of them.

## 6. What the models leave out

* Tasks that create tasks, and the C++ library being interrupted inside `create_task` or `std::print`: the handler
  allocates, so this is undefined behaviour inside libraries the repository does not hold.
* `main` asking for priorities or creating tasks while the scheduler runs: `main` is suspended then.
* System-call failures of the scheduler, which end the program, and `out_debug_info`.
* What happens after `alloc_phys` gave out something in use (2.2): whoever writes to it changes tables or the kernel. From then on only the types are claimed, and
  `page_directory` is taken to be where the kernel reads it. Frames of the image that hold no table may be given out as well; what the kernel's data then is, is not modelled.
* A region that ends at the top of the address space, where the loops of `map_region` and `unmap_region` would not end; the kernel asks for none, and from the recursive window on
  `intact` is over.
* A heap of more than 1.5 GiB reaches the pages of the framebuffer at `0x60000000`, over which operator new would then map it; `KernelStaysMapped` is not about those pages.
* The frames behind the recursive window are not part of `AddressSpace`. `Memory` starts with a table for each part of the
  address space; with a stuck `used` (2.3) the bootstrap leaves one table shared by all, where the pages below 4 MiB are aliases of
  the kernel's.
* The serial line and the position of the hardware cursor, and PSF1 fonts, which the code does not read either.
* Memory maps with a region above 4 GiB that is cut to an address other than 0 (`mb_parser.cpp:56`): it can become the heap. The runs have one, and `HeapIsLargest` leaves it out by its
  condition `WordSized`.
* Fonts with an entry for a character that is `0xFFFF` in 16 bits, which `psf_init` writes behind its table (`FontAssumption`).
* Formats whose digits overflow an `int`, and arguments of another type than the conversion's.
* `__cxa_guard_abort`, `__cxa_throw` and the allocation of exceptions: the kernel is built with `-fno-exceptions`; `__cxa_pure_virtual`, which halts.
* `min`, `exchange` and the casts of `utility.hpp`, which are expressions where they are used.
* The parser's total of memory and its copies of the loader's name and framebuffer fields.
* Operations nobody calls: `clear` and `set_driver` of the kernel console, `mask_irq`, `unmask_irq`, `pic_send_eoi`.
  No interrupt handler returns, so end of interrupt, priorities among interrupts in service and the stubs' epilogues do not occur.
* The loader's own interrupt table: before `lidt` a fault resets the machine. So do the parser's reads of memory that is not mapped (`enter_virtual.cpp:57`); no property excludes it, as
  no document says where a loader puts its structures.
* Which order `__cxa_finalize` owes its callers: `LifetimesPaired` says the order of registration, as the code has it. The C++ ABI asks for the reverse, no document of the repository
  says either, and nothing calls it yet.
* What `strncpy` and `strncat` do beyond C's limits is in the model as in the code: they write one byte more
  (`string.cpp:104, 131-133`), and `StringsArrive` allows it. The calls modelled have room for that byte; one that C allows and that has exactly `n` bytes writes behind them.

## 7. Plan

What is left, most important first:

1. `Printf`'s recursive operators as recursive functions, and `TruncatesCleanly` for any buffer.
2. `BoundedWait` from an inequality between the constants and the number of tasks.
