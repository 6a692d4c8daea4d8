# A verification of the kfs kernel

kfs is a small i686 kernel in Rust. It boots from a multiboot loader, loads its
segment and interrupt tables, turns the loader's memory map into a frame allocator,
builds page tables, runs two heaps on top of them and a shell on a text screen. This
directory holds TLA+ models of its parts, the TLC runs that check them on small
instances, and proofs, checked by TLAPS, of results that hold on every instance.

Paths below are relative to `kernel/src/` unless they say otherwise.

## 1. Inventory

The kernel has one thread and runs with interrupts off. Nothing is persisted. What
makes it hard is not concurrency between its own parts but

- loops that stop half way (a heap that grows runs out of frames, tables or range),
- state that is implicit in memory (block headers, page tables, a bitmap, a stack),
- hardware that acts on its own (the processor caches translations, a non-maskable
  interrupt comes between any two instructions, the keyboard controller is slow),
- `u32` arithmetic that wraps in the release build.

| Part | Source | State | Operations | Module |
| --- | --- | --- | --- | --- |
| memory map | `multiboot.rs` | `RAM` | `probe`, `Ram::push` | `Boot` |
| boot order | `mem.rs`, `lib.rs` | `RAM`, `WINDOW` | `kmain`, `init`, `space_of`, `is_kernel`, `is_demand`, `LAYOUT` | `Boot`, `PageTable`, `Paging`, `Kernel`, `Machine` |
| frames | `pmm.rs` | `FREE`, `TOTAL`, `AVAILABLE` | `init`, `reserve`, `alloc_frame`, `alloc_range`, `free_frame`, `carve`, `largest_run` | `Pmm`, `Boot`, `PmmScan` |
| page tables | `paging.rs`, `boot/boot.asm` | directory, tables, CR0.WP | `init`, `get_page`, `map_page`, `map_new`, `unmap_page`, `protect`, `translate`, `dump`, `describe`, `summary` | `PageTable`, `PageReport` |
| processor's cache | external | cached translations | walk, cache, fault, `invlpg`, CR3 reload | `PageTable`, `Paging` |
| page faults | `idt.rs`, `paging.rs`, `panic.rs` | none | `fault_entry`, `handle_fault` | `Paging`, `Machine` |
| heaps | `heap.rs` | `brk`, block headers | `alloc`, `free`, `brk`, `size`, `stats` | `Heap`, `HeapWalk`, `AllocSpec`, `Kernel` |
| segments and gates | `gdt.rs`, `idt.rs` | GDT, GDTR, IDT, IDTR, selectors | `gdt::install`, `idt::install`, `current`, `selectors` | `Segments`, `Machine` |
| exceptions | `idt.rs`, `panic.rs` | registers, the stack, `OOPS` | the stubs, `isr_common`, `fault_entry`, `oops`, `fatal`, `stop` | `Machine` |
| stack dump | `stack.rs` | none | `print`, `snapshot`, `render` | `StackDump` |
| screen | `vga.rs` | cells, `CURSOR`, `ATTR`, `SCREENS`, `USED`, `ACTIVE`, CRTC | `print`, `put_char`, `backspace`, `clear`, `switch_screen` | `Terminal` |
| keyboard | `keyboard.rs` | `SHIFT` | `poll` | `Terminal` |
| shell | `shell.rs`, `klib.rs` | the line buffer | `run`, `read_line`, `dispatch`, commands, `parse_u32`, `utoa` | `Terminal`, `CommandLine`, `Paging`, `Kernel`, `Machine` |

How they interact: `probe` feeds `pmm::init`; `mem::init` reserves, builds the tables
and carves kmalloc's physical block; `get_page`, `map_new` and `Heap::grow` take
frames; the fault handler and the heaps map pages; every refusal is reported by
`koops!`, everything else that goes wrong stops the machine.

What must be right: the regions are those of the map; no frame is given out twice,
lost, or made of memory that the machine does not have; the first megabyte and the
image stay reserved; the translation the processor uses is the one in the tables;
kernel space is closed to ring 3 and the kernel's code to writes; a refusal costs
nothing; live allocations stay where they are, and a request is refused only when it
must be; a repaired fault goes unnoticed by the code it interrupted, and what a fault
report says is what happened; every loop ends; the line on the screen is the line the
shell will run.
`PROJECT.json` lists the hazards at their source lines with the properties that
would catch them.

## 2. Modules

**`Pmm`** is the allocator as operators on a record `[free, total, available]`. The
bitmap is the set of its set bits, so `set_free` and `set_used` are set operations.
Additions that can wrap go through `Wrap`. `alloc_frame` and `find_run` are stated by
what they return; that the loops return it is the subject of `PmmScan`.

**`PmmScan`** runs the loops of `alloc_frame`, `find_run` and `largest_run`, one turn
per step, over every bitmap.

**`Boot`** is `mem::init` from the loader's information to the carved block, one turn
of each loop per step, followed by arbitrary calls of `alloc_frame` and `free_frame`.
Callers free only what they hold, as all callers in the code do (`held` records it).
The map lies at addresses: an entry has the size it claims, the walk steps by it, and
the last one may be cut off. What stands in an entry is a record, not bytes.

**`PageTable`** is `paging.rs` as operators on the allocator and a record `mmu`: the
directory, the entries of all tables by page number (the recursive window makes
them linear), the cached translations, CR0.WP, and which frames hold only zeros.
`Walk`, `Lookup` and `Fill` are the processor, external to the code.

**`Paging`** adds the accesses of the command `fault`, the page fault they raise, and
the command `user`, one step per call into `paging.rs`, so that the processor can
cache a translation between any two. **`PageReport`** is what `pages` and `virt` print,
as folds and operators over `mmu`.

**`Heap`** composes `PageTable` and `Pmm` with both heaps. `blk[h]` maps the start of
each block that a walk meets to its header. `first_fit`, `grow` and `shrink` take one
step per turn of their loops; `call` is the call that runs, or the last one and its
result. `last_block` and `find_block` only read and are expressions.
**`HeapWalk`** runs these walks and the one of `stats` header by header and compares.
**`AllocSpec`** is the abstract allocator: live allocations and a pending request,
nothing else. `Heap` implements it under the mapping `Live`, `Requested`.

**`Kernel`** composes `Heap`, `Paging` and `PageReport` on one allocator, one directory
and one cache, and adds the command `alloc`: a client of both heaps that makes ten
calls, looks at each result and gives up at the first that is wrong. Its `pattern`
crashes on a page that cannot be written, and reads back other bytes where a page has
no memory or a page table behind it. It cannot notice two pages on one frame: it writes
`i & 0xff`, the same in each page. `EveryFrameHasOneOwner` is about that. Also `LAYOUT`,
the table that `space` prints.

**`Terminal`** is the screen with its virtual screens, the keyboard and the line
editor. Bytes are members of a small set; what a command prints is one of a few texts.
`down`, the shift keys held, belongs to the keyboard.

**`Machine`** is the processor's side. The stack is a sequence of tagged words, a place
in the code a name. `gdt::install` and `idt::install` take a step per instruction that
matters, and so do the stubs: push, `pusha`, the call, `popa`, `iret`. Delivery of an
exception, the double fault and the reset are the processor's (external): they look
at the gate and at the descriptor, from the base and up to the limit that were loaded,
and push on the one stack. `ctx` is a history of what each
exception interrupted. The ends are `stop`, `halt`, and `reboot` with its controller.
It uses **`Segments`** (descriptors and gates as sets of bits, `seg_range`, `seg_type`),
**`CommandLine`** (`dispatch`, `parse_u32`, `utoa`) and **`StackDump`**.

`MCBoot`, `MCHeap`, `MCKernel`, `MCTerminal` and `MCMachine` give the constants small
values. `BootProofs`, `PmmScanProofs`, `HeapProofs`, `TerminalProofs`, `PagingProofs`,
`RangeProofs` and `KernelProofs` hold the theorems and their lemmas.

Beside some definitions stands an operator marked "a slip", with the same parameters:
the mistake a programmer could make at that place. No specification uses it. Put in
the place of the definition, it must make TLC report the property that `PROJECT.json`
names; this shows that the property has teeth.

## 3. Runs

All bounds are in the cfg files and the MC modules.

| Run | Checks | Instance |
| --- | --- | --- |
| `boot` | the regions are the map's, counters, described RAM, reservations, partition, the boot ends unless the map leads its walk round | 12 frames of 4 bytes, maps of up to three entries, of which two are kept: apart, overlapping, unaligned, beyond the address space, of two sizes, cut short, absent, and with sizes that wrap onto an entry or beside one |
| `scan` | first fit, largest run, lowest frame, the scans end | all bitmaps of 8 frames in two words, all counts up to one too many |
| `kernel` | coherent cache, supervisor space, zeroed demand pages, one owner per frame, true reports, `alloc` fails only for want and can be repeated, read-only code, free refusals, commands end | seven slots of seven pages, both heaps; from no free frame to all that is ever used |
| `heap` | tiling, walks and their sums, room, refusal only when full, the abstract allocator, live blocks stay, growth reversible | one heap of three pages of 32 bytes, so that two smallest blocks fit a page; three, two, one or no pages to be had |
| `two_heaps` | mapped to the break and physically contiguous, one owner per frame | both heaps, any calls; kmalloc's range is longer than its block |
| `terminal` | the line is shown, the cursor is on the screen, shift does not stick | two rows of six cells, one screen, all keys, lines of four bytes, output that scrolls, reports in colour |
| `screens` | hardware cursor, separate screens | two rows of three cells, two screens and a key for a third that does not exist |
| `machine` | true frames, true reports, lines and numbers, unharmed resumption, no reset but by reboot or on a full stack, ends are final, a reboot restarts | all 32 vectors at the prompt, three inside the handler, interrupts anywhere, a stack of 36 words, on which two exceptions fit on the shell's words and a third does not; lines of three words and numbers of four characters with 155 as the largest `u32`; two recoveries, two tries of `reboot` (10 in the code) |

Why these are enough to be interesting: in `boot` every outcome of `probe`, every
clamp of `push` and both outcomes of `carve` occur; in `heap` growth breaks off
after no, one or two pages, for want of range, of a frame or of a table, splits leave
exactly the smallest block or just less, and merges span three blocks; `two_heaps`
adds the end of the physical block and a table that cannot be had; in `kernel` each
call of each command meets an empty allocator, `alloc` fails at each of its calls
but the reversals, and a second and third `alloc` meets what the first left; in
`terminal` a full line, an empty line and a scroll in the middle of output meet; in
`machine` an exception or interrupt comes at every place of the stubs, and numbers
overflow at the product and at the sum. The smallest accepted carve is 1 page (16 in
the code), `MAX_REGIONS` is 2 (12). A dump is of words, not bytes, and its window and
row are 3 and 2 words, so that neither divides every length.

Each type invariant is a property of its own (`boot`) or a conjunct of one.
Deadlock is checked in all runs. A stopped machine is an explicit step that changes
nothing.

### Where code and documents disagree

Four runs are expected to report a violation. Each states a sentence of the documents
and finds the code doing otherwise.

| Run | Document | What happens |
| --- | --- | --- |
| `boot_last_page` | MEMORY.md:110 "a partial frame at either edge is dropped" | a region that starts inside the last page wraps to frame 0 when its base is rounded up (`pmm.rs:45`) |
| `heap_refusal` | PANIC.md:57 "the refusal leaves the machine unchanged" | `grow` keeps the pages it got before it broke off (`heap.rs:121`) |
| `heap_shrink` | MEMORY.md:323 "would cut into a used block" | two free blocks at the top that no search has merged stop a shrink (`heap.rs:142`) |
| `terminal_switch` | SHELL.md:137 "must always agree" | bytes typed on another screen are not on the one with the prompt (`shell.rs:67`) |

Met while modelling, and not given a run:

- PANIC.md:78 calls one row of its table "the only one that is not a refusal"; an
  `alloc` may also report that `grow` broke off and then succeed with the pages it got.
- MEMORY.md:345 promises "is freed twice" for a double free; once `first_fit` has
  merged the block away, its pointer is called foreign (`heap.rs:262`).
- STACK.md:382 says that the trap frame carries `esp` as it was at the fault; `pusha`
  saves the one below the five words already pushed. `FrameIsTrue` leaves it out.
- SHELL.md:394 says that a reboot that fails ends in `cmd_halt`; the wait at
  `shell.rs:458` has no limit, so `RebootRestarts` assumes that the controller drains.
- PANIC.md:345 says that "a fault inside the handler triple-faults the machine", and
  ARCHITECTURE.md:1137 names "the fault handler itself" as a cause. `OnlyRebootResets`
  shows that such a fault is delivered through its own gate, on the same stack, and
  reported like the first. The machine resets when faults inside handlers go on until
  the stack has no room for another.
- `at += size + 4` (`multiboot.rs:113`) wraps. An entry whose size leads back to itself
  (0xfffffffc) or to an earlier entry keeps `probe` walking for ever. No document
  speaks of it (MEMORY.md:65 only gives the step), so `BootEnds` states both: the boot
  ends for every other map, and for these it stays in the walk.

## 4. Fairness

There is one thread and nothing blocks it, so a step of a running call is eventually
taken: weak fairness on the steps inside `mem::init` (`Boot`), inside a scan
(`PmmScan`), inside a heap call (`Heap`), inside a command, an access or a heap call
(`Kernel`), and on the kernel's own steps in `Machine`. In `Machine` the controller is
also assumed to take a byte sooner or later, which `cmd_reboot` relies on. Nothing is
assumed of the user, who need not type or call, of the processor's cache, which need
not fill, or of exceptions and interrupts, which need not come. The runs that report
a violation use specifications without fairness; none of their violations is a
liveness property.

## 5. Proofs

TLAPS proves the following for every value of the constants that satisfies the named
assumptions (`PageSizeAssumption`, `MaxFramesAssumption`, `BootAssumption`,
`WordAssumption`, `HeapAssumption`, `SpaceAssumption`, `LayoutAssumption`,
`KernelAssumption`, ...), which TLC evaluates on each instance.

**`KernelProofs!CacheStaysCoherent`**, **`KernelStaysSupervisor`** and
**`CodeStaysUnwritten`**: in the whole composition, whatever commands, faults, heap
calls and fills of the cache are interleaved and wherever frames run out, every cached
translation is the one in the tables, no walk of a page of kernel space yields user rights, and no
write to the kernel's code through its window completes once the rights are installed.
The invariant `KernelInv` has four parts. `MmuInv` (in `PagingProofs`): the tables
have their shape, the cache is coherent, U/S is in no directory entry of kernel space,
and the directory's own slot is present. `Locked`: from `paging::init` on CR0.WP is set and the pages of the code
are not writable. `RangeInv` (in `RangeProofs`): each break, and the place where a call grows or
shrinks, lies in the range of its heap; without it `grow` could map over the code or
over the window on the tables. `CpuInv`: an access has an address. `PagingProofs`
proves once for each operator of `PageTable` that it keeps `MmuInv` and the rights of
the code, given an address that is neither in the window on the tables nor in the
code. `RangeProofs` shows that `grow` and `shrink` only name such addresses, and
`KernelProofs` that every other caller does. `LayoutAssumption`
states what the constants of `mem.rs` must satisfy for this (kernel space starts above
slot 0 and below the window on the tables, the demand window and the page of `user`
lie below it, the code lies in the kernel window and starts on a page), and
`KernelAssumption` that the heaps lie between the kernel window and the tables.

**`TerminalProofs!ScreensNeverMix`**: a step changes what at most one virtual screen
holds, the one on display, and a switch changes none. It needs only that each saved
screen has its three fields. **`ShiftNeverSticks`**: with no shift key down the flag is
clear; it is inductive as it stands. Both hold for every text that is printed.

**`HeapProofs!HeapsAreTiled`**: `Spec => []Tiled`. The blocks tile each heap in every
state of every call. `Tiled` is not inductive: the search must stand on a block or
at the break, growth must start at the break and only go up, a shrink must have cut
the blocks at its target. `TilingInv` adds this. The lemmas say what `take`, `absorb`,
`extend` and `trim` do to a tiling; they use of the page tables nothing at all.

**`PmmScanProofs!FindRunCorrect`** and **`FindRunReturnsFirstFit`**: the loop of
`find_run` returns the lowest run, by the invariant that no run of the wanted length
starts before `frame`. The step that matters is the skip: a run that starts inside a
rejected stretch would contain the used frame that ended it.

**`BootProofs!CounterNeverDrifts`**: `AVAILABLE` is the number of set bits. It needs
that the bitmap is a finite set of frames, and for `alloc_frame` that a set of numbers
has a least member, which `LowestIsLeast` takes from the well-foundedness of the
order. **`BootProofs!BootTypes`**: the types, proved with the same invariant.

Only model-checked: everything else, in particular

- liveness (`BootEnds`, `ScanEnds`, `CommandEnds`, `RebootRestarts`) and so the
  fairness part of the refinement, which the prover does not do;
- `HeapWalk` and `CommandLine`, whose results are computed by recursion over data
  (walks, digits, folds), and `Machine`, which uses them;
- the accounting of frames: who owns each is a sum over the tables, the heaps and the
  commands.

## 6. Not modelled

- What commands print beyond what is checked: `cmd_mem`, `cmd_help`, the list of
  addresses that `virt` shows without an argument, the bits of `print_flags`, the names
  of the exceptions, `printk.rs`, `Ram.highest`, `Ram.source`.
- `strlen` and `strcmp` of `klib.rs`: nothing calls them.
- `port.rs`: two instructions; the ports are the state of the devices in `Terminal` and
  `Machine`.
- The slots of the IDT above the 32 exceptions: they stay empty, and interrupts are off.
- Vector 29, for which some processors push an error code in encrypted guests only.
- What happens once the stack has grown below `stack_bottom`. The page directory lies
  there and no page guards it; `Machine` takes the exception that no longer fits as a
  reset. The stack that the Rust code of a handler uses is not counted.
- The steps inside `paging::init` and inside `get_page` when it makes a table: each is
  one step, so a translation cached between its writes is not seen. A missing flush,
  `invlpg` or CR0.WP is.
- The shift codes that some keyboards send after the prefix 0xE0 with other keys.
- The two bytes of the cursor position that the CRTC takes: they count as one write.
- Contents of memory other than block headers, the stack and "only zeros". PANIC.md:228
  says that frames are not cleared; `map_new` clears them, and `DemandPageReadsZero`
  holds.
- The low window maps the image's frames writable; `CodeIsNeverWritten` speaks of the
  kernel window, which is the one the code protects.
- The boot code before `kmain` other than the tables it builds: straight-line assembly.

## 7. Next

1. The proofs of `ReservedStaysReserved` and `FramesPartitioned` of `Boot`; the
   arithmetic of frames and addresses has its lemmas in `PagingProofs` now.
2. `LiveBlocksStay`, `AllocGivesRoom` and the steps of the refinement of `AllocSpec`,
   from `TilingInv`; `MappedToTheBreak` from `RangeInv` and `MmuInv`.
3. `EveryFrameHasOneOwner` of `Kernel`.
