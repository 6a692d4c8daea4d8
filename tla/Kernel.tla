------------------------------- MODULE Kernel -------------------------------
(***************************************************************************)
(* The running kernel's memory as a whole: both heaps (module Heap), the   *)
(* commands and faults that move mappings (module Paging) and the command  *)
(* `alloc', which exercises the heaps, on one frame allocator, one page    *)
(* directory and one translation cache.                                    *)
(*                                                                         *)
(* There is one thread: the shell runs one command to its end before it    *)
(* reads the next line.  `alloc' is a client of the heaps; its calls run   *)
(* step by step and it looks at each result when the call has returned.    *)
(***************************************************************************)
EXTENDS HeapWalk, Paging, PageReport

CONSTANTS
  SMALL, BIG,   \* bytes that `alloc' asks of kmalloc (64 and 5000)
  TRIPLE        \* and of vmalloc (three pages)

ASSUME KernelAssumption ==
  /\ Heaps = {"kmalloc", "vmalloc"} /\ Contiguous = {"kmalloc"}
  /\ {SMALL, BIG, TRIPLE} \subseteq Nat \ {0}
  /\ BIG > PAGE_SIZE   \* so that the second page of the block exists
  /\ \A h \in Heaps : /\ KERNEL_SPACE + PAGE_SIZE * ENTRIES <= Base[h]
                     /\ Limit[h] <= SELF * (PAGE_SIZE * ENTRIES)

VARIABLE test   \* the command `alloc', and how the last one ended

heapVars == <<brk, blk, call>>
kernelVars == <<pmm, mmu, pool, cpu, heapVars, test>>

KernelInit ==
  /\ PagingInit
  /\ brk = Base
  /\ blk = [h \in Heaps |-> <<>>]
  /\ call = Idle("none", "kmalloc", 0, 0, Null, {})
  /\ test = [pc |-> "off", small |-> Null, big |-> Null, before |-> 0,
             oops |-> {}, result |-> "none", settled |-> <<>>, clean |-> TRUE]

-----------------------------------------------------------------------------
(* The command `alloc' of kernel/src/shell.rs.                             *)

(* heap::ksize and vsize: the size of a block, used or free. *)
size(h, pointer) ==
  LET block  == find_block(blk[h], pointer)
      answer(bytes, oops) == [bytes |-> bytes, oops |-> oops]
  IN  IF pointer = Null THEN answer(0, {})
      ELSE IF block = None THEN answer(0, {"did not come from"})
      ELSE answer(blk[h][block].size, {})

(* What the processor finds for the pages of a range. *)
Spanned(pointer, bytes) ==
  {Lookup(mmu, n) : n \in page_number(pointer) .. page_number(pointer + bytes - 1)}

(* Every byte can be written, so that `pattern' comes back at all. *)
Writable(pointer, bytes) ==
  \A entry \in Spanned(pointer, bytes) : KERNEL_PAGE \subseteq entry.flags

BlockFrames == frame_of(PhysBase["kmalloc"]) .. (frame_of(PhysEnd["kmalloc"]) - 1)
TablesAtBoot == {frame_of(DIRECTORY), frame_of(LOW_TABLE), frame_of(KERNEL_TABLE)}

(* The frames with memory in them: the image and its tables, the block of  *)
(* kmalloc, and those that mem::init found free.                           *)
Memory == (0 .. (ENTRIES - 1)) \cup BlockFrames \cup pool

(* It reads back what it wrote unless some page has no memory behind it,   *)
(* or a table, which then translates otherwise.                            *)
(* Two pages on one frame are not noticed: byte i is written as i & 0xff,  *)
(* a page is a multiple of 256 bytes, and so both write the same.          *)
pattern(pointer, bytes) ==
  \A entry \in Spanned(pointer, bytes) :
    frame_of(entry.frame) \in Memory \ (Tables \cup TablesAtBoot)

Returned(stage) == cpu.pc = "shell" /\ test.pc = stage /\ call.pc = "idle"

(* The command asks ksize for the first block and vsize for the pages. *)
Measured ==
  IF test.pc \in {"small", "free pages"} THEN size(call.heap, call.ret).oops ELSE {}

(* What the calls of this command have reported so far. *)
Reported == test.oops \cup call.oops \cup Measured

(* failed: the command ends here and keeps what it holds. *)
Failed(why) ==
  /\ test' = [test EXCEPT !.pc = "off", !.oops = Reported, !.result = why, !.clean = FALSE]
  /\ UNCHANGED <<pmm, mmu, pool, brk, blk, call, cpu>>

(* A write to a page that is not there: the fault is fatal. *)
Crashed ==
  /\ cpu' = [cpu EXCEPT !.pc = "stopped"]
  /\ UNCHANGED <<pmm, mmu, pool, brk, blk, call, test>>

(* The next call starts. *)
Then(stage, Call) ==
  /\ Call
  /\ test' = [test EXCEPT !.pc = stage, !.oops = Reported]
  /\ UNCHANGED cpu

CmdAlloc ==
  /\ Returned("off")
  /\ Alloc("kmalloc", SMALL)
  /\ test' = [test EXCEPT !.pc = "small", !.oops = {}, !.result = "none"]
  /\ UNCHANGED cpu

AllocSmall ==
  /\ Returned("small")
  /\ IF call.ret = Null THEN Failed("kmalloc returned nothing")
     ELSE IF size("kmalloc", call.ret).bytes < SMALL THEN Failed("ksize")
     ELSE IF ~Writable(call.ret, SMALL) THEN Crashed
     ELSE IF ~pattern(call.ret, SMALL) THEN Failed("does not hold bytes")
     ELSE /\ Alloc("kmalloc", BIG)
          /\ test' = [test EXCEPT !.pc = "big", !.oops = Reported, !.small = call.ret]
          /\ UNCHANGED cpu

(* translate(..).unwrap_or(0) *)
PhysOf(addr) ==
  LET phys == translate(pmm, mmu, addr) IN IF phys = None THEN 0 ELSE phys

AllocBig ==
  /\ Returned("big")
  /\ IF call.ret = Null THEN Failed("kmalloc returned nothing")
     ELSE IF PhysOf(call.ret + PAGE_SIZE) # PhysOf(call.ret) + PAGE_SIZE
     THEN Failed("not contiguous")
     ELSE IF ~Writable(call.ret, BIG) THEN Crashed
     ELSE IF ~pattern(call.ret, BIG) THEN Failed("does not hold bytes")
     ELSE /\ Free("kmalloc", test.small)
          /\ test' = [test EXCEPT !.pc = "free big", !.oops = Reported, !.big = call.ret,
                                  !.before = stats("kmalloc").used]
          /\ UNCHANGED cpu

AllocFreeBig == Returned("free big") /\ Then("pages", Free("kmalloc", test.big))

AllocPages ==
  /\ Returned("pages")
  /\ IF stats("kmalloc").used >= test.before THEN Failed("kfree")
     ELSE Then("free pages", Alloc("vmalloc", TRIPLE))

AllocFreePages ==
  /\ Returned("free pages")
  /\ IF call.ret = Null THEN Failed("vmalloc returned nothing")
     ELSE IF ~Writable(call.ret, TRIPLE) THEN Crashed
     ELSE IF ~pattern(call.ret, TRIPLE) THEN Failed("does not hold bytes")
     ELSE Then("kbrk up", Free("vmalloc", call.ret))

AllocKbrkUp == Returned("kbrk up") /\ Then("kbrk down", Brk("kmalloc", PAGE_SIZE))

AllocKbrkDown ==
  /\ Returned("kbrk down")
  /\ IF call.ret = Null THEN Failed("kbrk could not grow")
     ELSE Then("vbrk up", Brk("kmalloc", -PAGE_SIZE))

AllocVbrkUp ==
  /\ Returned("vbrk up")
  /\ IF call.ret = Null THEN Failed("kbrk could not give back")
     ELSE Then("vbrk down", Brk("vmalloc", 2 * PAGE_SIZE))

(* A slip: only half of the growth is given back. *)
AllocVbrkDownHalf ==
  /\ Returned("vbrk down")
  /\ IF call.ret = Null THEN Failed("vbrk could not grow")
     ELSE Then("end", Brk("vmalloc", -PAGE_SIZE))

AllocVbrkDown ==
  /\ Returned("vbrk down")
  /\ IF call.ret = Null THEN Failed("vbrk could not grow")
     ELSE Then("end", Brk("vmalloc", -2 * PAGE_SIZE))

AllocEnd ==
  /\ Returned("end")
  /\ IF call.ret = Null THEN Failed("vbrk could not give back")
     ELSE /\ test' = [test EXCEPT !.pc = "off", !.oops = Reported, !.result = "passed",
                                  !.settled = IF test.clean THEN <<brk>> ELSE <<>>]
          /\ UNCHANGED <<pmm, mmu, pool, brk, blk, call, cpu>>

AllocCheck ==
  \/ AllocSmall \/ AllocBig \/ AllocFreeBig \/ AllocPages \/ AllocFreePages
  \/ AllocKbrkUp \/ AllocKbrkDown \/ AllocVbrkUp \/ AllocVbrkDown \/ AllocEnd

-----------------------------------------------------------------------------
(* One thread: a call into the heaps runs to its end, and so does the      *)
(* command that made it.  Only the processor's cache moves on its own.     *)

HeapStep == Step /\ UNCHANGED <<cpu, test>>
AccessStep == PagingStep /\ UNCHANGED <<heapVars, test>>
OtherCommand == Returned("off") /\ PagingCommand /\ UNCHANGED <<heapVars, test>>
Cache == \E n \in Cacheable : CacheFill(n) /\ UNCHANGED <<heapVars, test>>
Halted == Stopped /\ UNCHANGED <<heapVars, test>>

Running == HeapStep \/ AccessStep \/ AllocCheck

KernelNext == Running \/ CmdAlloc \/ OtherCommand \/ Cache \/ Halted

(* The processor runs on: a command that has started keeps stepping. *)
KernelSpec == KernelInit /\ [][KernelNext]_kernelVars /\ WF_kernelVars(Running)

-----------------------------------------------------------------------------
(* kernel/src/mem.rs: the table that `space' prints.                       *)

LAYOUT ==
  LET named(name, base, end, space) ==
        [name |-> name, base |-> base, end |-> end, space |-> space]
  IN  << named("low window", 0, LOW_WINDOW_END, "Low"),
         named("user space", LOW_WINDOW_END, DEMAND_BASE, "User"),
         named("user demand", DEMAND_BASE, DEMAND_END, "User"),
         named("user space", DEMAND_END, KERNEL_SPACE, "User"),
         named("kernel image", KERNEL_SPACE, KERNEL_SPACE + PAGE_SIZE * ENTRIES, "Kernel"),
         named("kernel heap", Base["kmalloc"], Limit["kmalloc"], "Kernel"),
         named("vmalloc", Base["vmalloc"], Limit["vmalloc"], "Kernel"),
         named("page tables", SELF * ENTRIES * PAGE_SIZE, PAGE_SIZE * ENTRIES * ENTRIES, "Kernel") >>

-----------------------------------------------------------------------------
(* Properties.                                                             *)

KernelTypeOK ==
  /\ PagingTypeOK
  /\ brk \in [Heaps -> Nat]
  /\ call \in Calls
  /\ test.pc \in {"off", "small", "big", "free big", "pages", "free pages", "kbrk up",
                  "kbrk down", "vbrk up", "vbrk down", "end"}
  /\ test.oops \subseteq Messages
  /\ {test.small, test.big, test.before} \subseteq Nat /\ test.clean \in BOOLEAN

behind(n) == frame_of(mmu.pte[n].frame)

(***************************************************************************)
(* A frame has one owner in the whole kernel: every frame free at boot is  *)
(* free, or a page table, or behind exactly one page of the vmalloc area   *)
(* or of user space; none is lost, whichever command ran out of frames and *)
(* wherever, and no frame of the image or of kmalloc's block is ever among *)
(* them (get_page, map_new, grow, shrink, cmd_user).  The state keeps its  *)
(* types.                                                                  *)
(***************************************************************************)
EveryFrameHasOneOwner ==
  LET single == {n \in Mapped : n \notin InRange("kmalloc")}
      pages  == {behind(n) : n \in single}
  IN  /\ KernelTypeOK
      /\ pool = pmm.free \cup Tables \cup pages
      /\ pmm.free \cap (Tables \cup pages) = {}
      /\ Tables \cap pages = {}
      /\ \A n, k \in single : behind(n) = behind(k) => n = k
      /\ \A n \in Mapped \cap InRange("kmalloc") : behind(n) \in BlockFrames

(***************************************************************************)
(* The table of `space' is true of every mapping there is: a mapped page   *)
(* lies in one named range, is for user mode exactly where that range is   *)
(* user space, and holds what the range is said to hold (mem.rs LAYOUT).   *)
(***************************************************************************)
LayoutIsTrue ==
  \A n \in Pages :
    LET entry  == Walk(mmu, n)
        at     == n * PAGE_SIZE
        ranges == {i \in DOMAIN LAYOUT : LAYOUT[i].base <= at /\ at < LAYOUT[i].end}
        name   == LAYOUT[CHOOSE i \in ranges : TRUE].name
    IN  entry # Absent =>
          /\ Cardinality(ranges) = 1
          /\ \A i \in ranges : /\ LAYOUT[i].space = space_of(at)
                               /\ USER \in entry.flags <=> LAYOUT[i].space = "User"
          /\ name = "low window" => entry.frame = at
          /\ name = "kernel image" => entry.frame = at - KERNEL_SPACE
          /\ name = "kernel heap" => frame_of(entry.frame) \in BlockFrames
          /\ name \in {"vmalloc", "user space", "user demand"} => frame_of(entry.frame) \in pool
          /\ name = "page tables" => frame_of(entry.frame) \in Tables \cup TablesAtBoot

(***************************************************************************)
(* What the commands print of the memory is so in every state: `pages' and *)
(* `virt' (module PageReport) and `space'.                                 *)
(***************************************************************************)
ReportsAreTrue == DumpIsTheTables /\ VirtIsTheProcessor /\ LayoutIsTrue

(***************************************************************************)
(* `alloc' fails only for want of memory: none of its checks on what the   *)
(* heaps gave it (size, contiguity, bytes held, bytes given back, break    *)
(* moved down) ever fails unless a call before reported that frames or the *)
(* range had run out, whatever earlier commands left behind; `did not come *)
(* from' is never reported for what a heap has just returned.  And it      *)
(* never faults: no command but `fault' stops the kernel.  So what kmalloc *)
(* and vmalloc return is mapped, writable, and memory of their own.        *)
(***************************************************************************)
AllocFailsOnlyForWant ==
  /\ test.result \notin {"none", "passed"} =>
       test.oops \cap {"no memory", "no frame for the table", "end of range"} # {}
  /\ "did not come from" \notin test.oops
  /\ cpu.pc = "stopped" => test.pc = "off" /\ cpu.then = "shell"

(***************************************************************************)
(* `alloc' can be repeated for ever: as long as it passes it leaves no     *)
(* live block behind, and every run after the first leaves both breaks     *)
(* where the run before left them.                                         *)
(***************************************************************************)
AllocIsRepeatable ==
  [][AllocEnd /\ test'.result = "passed" /\ test.clean =>
       /\ \A h \in Heaps : \A a \in Blocks(h) : ~blk[h][a].used
       /\ test.settled \in {<<>>, <<brk>>}]_kernelVars

(***************************************************************************)
(* Every command comes back to the prompt or stops the kernel: a faulting  *)
(* instruction is not retried for ever, and the heaps answer (fault_entry, *)
(* alloc, brk).                                                            *)
(***************************************************************************)
CommandEnds == []<>(cpu.pc = "stopped" \/ (cpu.pc = "shell" /\ test.pc = "off"))
=============================================================================
