-------------------------------- MODULE Boot --------------------------------
(***************************************************************************)
(* From the loader's memory map to the first allocated frame: what         *)
(* multiboot::probe and mem::init do to the frame allocator, in the order  *)
(* the code does it, followed by the callers of alloc_frame and free_frame *)
(* once the kernel runs.                                                   *)
(*                                                                         *)
(* Each loop of the code (the walk over the map, pmm::init over the        *)
(* regions, the halving of carve) takes one step per turn.  paging::init,  *)
(* which mem::init calls before the carve, leaves the frame allocator      *)
(* alone and is part of module PageTable.                                  *)
(***************************************************************************)
EXTENDS Pmm, Sequences

CONSTANTS
  Infos,        \* the multiboot information a loader may hand over
  REACHABLE,    \* end of the low window, where the loader's data must be
  SIZE_FIELD,   \* bytes of an entry's size, which the size leaves out (4)
  ENTRY_HEAD,   \* bytes of an entry that must be inside the map (8)
  MAX_REGIONS,  \* regions kept (12)
  U64_MAX,      \* where the 64-bit sum of a base and a length saturates
  KB,           \* bytes per unit of mem_lower and mem_upper (1024)
  BIOS_END,     \* end of the first megabyte, where mem_upper starts
  LOAD,         \* load_phys(): where the image was loaded
  IMAGE_END,    \* kernel_phys(image.end)
  IMAGE_FITS,   \* does the image end inside its 4 MB window
  KHEAP_SIZE,   \* KHEAP_LIMIT - KHEAP_BASE
  CARVE_FLOOR   \* the smallest block carve accepts, in pages (16)

ASSUME BootAssumption ==
  /\ {MAX_REGIONS, U64_MAX, KB, BIOS_END, LOAD, IMAGE_END, KHEAP_SIZE,
      CARVE_FLOOR, REACHABLE, SIZE_FIELD, ENTRY_HEAD} \subseteq Nat
  /\ CARVE_FLOOR > 0
  /\ IMAGE_FITS \in BOOLEAN
  /\ \A info \in Infos :
       /\ {info.magic, info.mmap, info.memory} \subseteq BOOLEAN
       /\ {info.addr, info.mmap_addr, info.mmap_length, info.lower, info.upper} \subseteq Nat
       /\ \A a \in DOMAIN info.entries :
            /\ a \in Nat
            /\ info.entries[a] \in [size : Nat, kind : Nat, base : Nat, length : Nat]

AVAILABLE == 1

VARIABLES
  info,    \* what the loader described; never changes
  ram,     \* the static RAM: the regions kept and the bytes they hold
  stage,   \* where mem::init is
  at,      \* the address of an entry, or the index of the loop that runs
  pages,   \* the size carve tries next
  window,  \* the static WINDOW: the block carved for kmalloc
  held     \* frames that callers of alloc_frame hold (history)

bootVars == <<info, ram, stage, at, pages, window, held>>
vars == <<pmm, bootVars>>

U32_MAX == ADDRESSES - 1

Smaller(a, b) == IF a < b THEN a ELSE b

(* A slip: a region that the clamp has left empty is kept. *)
push_empty(r, base, length) ==
  LET top == Smaller(base + length, U64_MAX)
      end == IF top > U32_MAX THEN page_of(U32_MAX) ELSE top
  IN  IF Len(r.regions) = MAX_REGIONS \/ length = 0 \/ base >= U32_MAX THEN r
      ELSE [regions |-> Append(r.regions, [base |-> base, end |-> end]),
            usable  |-> r.usable + (end - base)]

(* Ram::push. *)
push(r, base, length) ==
  LET top == Smaller(base + length, U64_MAX)
      end == IF top > U32_MAX THEN page_of(U32_MAX) ELSE top
  IN  IF \/ Len(r.regions) = MAX_REGIONS \/ length = 0
         \/ base >= U32_MAX
         \/ end <= base
      THEN r
      ELSE [regions |-> Append(r.regions, [base |-> base, end |-> end]),
            usable  |-> r.usable + (end - base)]

Init ==
  /\ pmm = [free |-> {}, total |-> 0, available |-> 0]
  /\ info \in Infos
  /\ ram = [regions |-> <<>>, usable |-> 0]
  /\ stage = "probe"
  /\ at = 1
  /\ pages = 0
  /\ window = [start |-> 0, end |-> 0]
  /\ held = {}

Goto(s) == stage' = s /\ at' = 1

InLowWindow(addr) == addr # 0 /\ addr < REACHABLE

(* The first two checks of probe; the map is walked only if it is there. *)
Probe ==
  /\ stage = "probe"
  /\ IF ~info.magic \/ ~InLowWindow(info.addr) THEN Goto("panic")
     ELSE IF info.mmap /\ InLowWindow(info.mmap_addr)
     THEN stage' = "map" /\ at' = info.mmap_addr
     ELSE Goto("fallback")
  /\ UNCHANGED <<pmm, info, ram, pages, window, held>>

(* What is read at an address as an entry; next to the entries, zeros. *)
EntryAt(a) ==
  IF a \in DOMAIN info.entries THEN info.entries[a]
  ELSE [size |-> 0, kind |-> 0, base |-> 0, length |-> 0]

MapEnd == Smaller(info.mmap_addr + info.mmap_length, U32_MAX)

(* The next entry's address, in u32; a slip: the size counts itself. *)
NextEntryShort(a, size) == (a + size) % ADDRESSES
NextEntry(a, size) == (a + size + SIZE_FIELD) % ADDRESSES

(* One turn of the walk over the memory map. *)
WalkMap ==
  /\ stage = "map"
  /\ IF (at + ENTRY_HEAD) % ADDRESSES > MapEnd
     THEN Goto("fallback") /\ UNCHANGED ram
     ELSE LET entry == EntryAt(at)
          IN  /\ ram' = IF entry.kind = AVAILABLE
                        THEN push(ram, entry.base, entry.length)
                        ELSE ram
              /\ IF entry.size = 0
                 THEN Goto("fallback")
                 ELSE at' = NextEntry(at, entry.size) /\ UNCHANGED stage
  /\ UNCHANGED <<pmm, info, pages, window, held>>

(* The rest of probe, and the check on the image in mem::init. *)
Fallback ==
  /\ stage = "fallback"
  /\ ram' = IF ram.regions = <<>> /\ info.memory
            THEN push(push(ram, 0, info.lower * KB), BIOS_END, info.upper * KB)
            ELSE ram
  /\ Goto(IF ram'.regions = <<>> \/ ~IMAGE_FITS THEN "panic" ELSE "init")
  /\ UNCHANGED <<pmm, info, pages, window, held>>

(* One turn of pmm::init. *)
InitRegion ==
  /\ stage = "init"
  /\ IF at > Len(ram.regions)
     THEN Goto("reserve") /\ UNCHANGED pmm
     ELSE /\ pmm' = init_region(pmm, ram.regions[at])
          /\ at' = at + 1
          /\ UNCHANGED stage
  /\ UNCHANGED <<info, ram, pages, window, held>>

(* The two reservations of mem::init and the size it asks carve for. *)
Reserve ==
  /\ stage = "reserve"
  /\ pmm' = reserve(reserve(pmm, 0, BIOS_END), LOAD, IMAGE_END)
  /\ pages' = page_of(Smaller(KHEAP_SIZE, ram.usable \div 4)) \div PAGE_SIZE
  /\ Goto("carve")
  /\ UNCHANGED <<info, ram, window, held>>

(* The size carve tries next; a slip: the same size again. *)
NotHalved(n) == n
Halved(n) == n \div 2

(* One turn of carve, then heap::init with the block it found. *)
Carve ==
  /\ stage = "carve"
  /\ LET block == alloc_range(pmm, pages)
     IN  IF pages < CARVE_FLOOR
         THEN Goto("panic") /\ UNCHANGED <<pmm, pages, window>>
         ELSE IF block.frame = None
         THEN /\ pages' = Halved(pages)
              /\ UNCHANGED <<pmm, stage, at, window>>
         ELSE /\ pmm' = block.pmm
              /\ window' = [start |-> block.frame,
                            end   |-> block.frame + pages * PAGE_SIZE]
              /\ Goto("run")
              /\ UNCHANGED pages
  /\ UNCHANGED <<info, ram, held>>

(* The kernel runs: any caller of alloc_frame. *)
AllocFrame ==
  /\ stage = "run"
  /\ LET got == alloc_frame(pmm)
     IN  /\ pmm' = got.pmm
         /\ held' = IF got.frame = None THEN held ELSE held \cup {got.frame}
  /\ UNCHANGED <<info, ram, stage, at, pages, window>>

(* Callers give back what they were given, and nothing else. *)
FreeFrame(phys) ==
  /\ stage = "run"
  /\ phys \in held
  /\ pmm' = free_frame(pmm, phys)
  /\ held' = held \ {phys}
  /\ UNCHANGED <<info, ram, stage, at, pages, window>>

(* panic::stop: the processor halts in a loop. *)
Stopped == stage = "panic" /\ UNCHANGED vars

Next ==
  \/ Probe \/ WalkMap \/ Fallback \/ InitRegion \/ Reserve \/ Carve
  \/ AllocFrame
  \/ \E phys \in held : FreeFrame(phys)
  \/ Stopped

Booting == Probe \/ WalkMap \/ Fallback \/ InitRegion \/ Reserve \/ Carve

Spec == Init /\ [][Next]_vars

(* Nothing interrupts mem::init: a step of it that can be taken is taken. *)
FairSpec == Spec /\ WF_vars(Booting)

-----------------------------------------------------------------------------
(* Properties.                                                             *)

TypeOK ==
  /\ PmmTypeOK
  /\ info \in Infos
  /\ ram.regions \in Seq([base : Nat, end : Nat])
  /\ ram.usable \in Nat
  /\ stage \in {"probe", "map", "fallback", "init", "reserve", "carve", "run",
               "panic"}
  /\ at \in Nat /\ pages \in Nat
  /\ window \in [start : Nat, end : Nat]
  /\ held \subseteq Nat

Bytes(frame) == address_of(frame) .. (address_of(frame) + PAGE_SIZE - 1)

(* Frames that lie wholly inside one of the regions kept. *)
RamFrames ==
  {f \in Frames : \E i \in DOMAIN ram.regions :
     /\ ram.regions[i].base <= address_of(f)
     /\ address_of(f) + PAGE_SIZE <= ram.regions[i].end}

(* Byte n is memory that the loader called usable. *)
Described(n) ==
  \/ /\ info.mmap
     /\ \E a \in DOMAIN info.entries :
          /\ info.entries[a].kind = AVAILABLE
          /\ info.entries[a].base <= n
          /\ n < info.entries[a].base + info.entries[a].length
  \/ info.memory /\ n < info.lower * KB
  \/ info.memory /\ BIOS_END <= n /\ n < BIOS_END + info.upper * KB

HeldFrames == {frame_of(phys) : phys \in held}
WindowFrames == frame_of(window.start) .. (frame_of(window.end) - 1)
ReservedFrames ==
  {f \in Frames : \E n \in Bytes(f) : n < BIOS_END \/ (LOAD <= n /\ n < IMAGE_END)}

(* The entries of the map that are regions of RAM: those inside it, before *)
(* one of size 0, that are usable and not empty below the last page.       *)
RegionEnd(e) ==
  IF e.base + e.length > U32_MAX THEN page_of(U32_MAX) ELSE e.base + e.length
RegionEntries ==
  {a \in DOMAIN info.entries :
     /\ \A b \in DOMAIN info.entries : b < a => info.entries[b].size # 0
     /\ a + ENTRY_HEAD <= info.mmap_addr + info.mmap_length
     /\ info.entries[a].kind = AVAILABLE
     /\ info.entries[a].base < RegionEnd(info.entries[a])}

(***************************************************************************)
(* The regions kept are the map's: after the walk each of the first        *)
(* MAX_REGIONS usable entries, whatever sizes the entries have and         *)
(* wherever the map ends, is there once, in order, cut to the 32-bit       *)
(* space, and only entries past those are dropped (multiboot.rs probe,     *)
(* Ram::push).                                                             *)
(***************************************************************************)
RegionsAreTheMaps ==
  stage = "fallback" /\ info.mmap /\ InLowWindow(info.mmap_addr) =>
    /\ Len(ram.regions) = Smaller(MAX_REGIONS, Cardinality(RegionEntries))
    /\ \A a \in RegionEntries :
         LET rank == Cardinality({b \in RegionEntries : b <= a})
         IN  rank <= MAX_REGIONS =>
               ram.regions[rank] = [base |-> info.entries[a].base,
                                    end  |-> RegionEnd(info.entries[a])]

(***************************************************************************)
(* No frame is handed out that the machine does not have: every frame the  *)
(* allocator considers its own (free, held by a caller or carved) is made  *)
(* only of bytes the loader described as usable (multiboot.rs Ram::push,   *)
(* pmm.rs init: the base is rounded up and the end down).                  *)
(***************************************************************************)
FramesAreDescribedRam ==
  \A f \in pmm.free \cup HeldFrames \cup WindowFrames :
    \A n \in Bytes(f) : Described(n)

(***************************************************************************)
(* The first megabyte and the kernel image are never given to anybody,     *)
(* from the reservations of mem::init on, whatever is allocated and freed  *)
(* later.                                                                  *)
(***************************************************************************)
ReservedStaysReserved ==
  stage \in {"carve", "run"} =>
    ReservedFrames \cap (pmm.free \cup HeldFrames \cup WindowFrames) = {}

(***************************************************************************)
(* The RAM is always partitioned: once the kernel runs each frame of it is *)
(* free, or held by exactly one caller, or part of the block carved for    *)
(* kmalloc, or reserved, and no frame is lost (pmm.rs alloc_range,         *)
(* alloc_frame, free_frame).  TOTAL counts each once, also where regions   *)
(* overlap, so used_frames() = TOTAL - AVAILABLE never wraps below zero.   *)
(***************************************************************************)
FramesPartitioned ==
  /\ used_frames(pmm) >= 0
  /\ stage \in {"reserve", "carve", "run"} => pmm.total = Cardinality(RamFrames)
  /\ stage = "run" =>
       /\ pmm.free \cup HeldFrames \cup WindowFrames \cup (ReservedFrames \cap RamFrames)
            = RamFrames
       /\ pmm.free \cap HeldFrames = {}
       /\ pmm.free \cap WindowFrames = {}
       /\ HeldFrames \cap WindowFrames = {}

(* The map sends the walk round: there are entries of its own, the first   *)
(* among them, each of which leads to one of them.  A size that is past    *)
(* the end of the 32-bit space, with the field before it, leads back.      *)
MapIsEndless ==
  /\ info.magic /\ InLowWindow(info.addr) /\ info.mmap /\ InLowWindow(info.mmap_addr)
  /\ \E round \in SUBSET DOMAIN info.entries :
       /\ info.mmap_addr \in round
       /\ \A a \in round :
            /\ info.entries[a].size > 0
            /\ (a + ENTRY_HEAD) % ADDRESSES <= MapEnd
            /\ (a + SIZE_FIELD + info.entries[a].size) % ADDRESSES \in round

(***************************************************************************)
(* Booting ends: the walk over the map, the loop over the regions and the  *)
(* halving of carve all finish, and the kernel runs or has panicked, with  *)
(* one exception.  `at += size + 4' wraps (multiboot.rs:113), and a map    *)
(* whose sizes lead back, 0xfffffffc onto the same entry, keeps probe busy *)
(* for ever; a jump back to a place that is no entry does not.             *)
(***************************************************************************)
BootEnds ==
  /\ ~MapIsEndless => <>(stage \in {"run", "panic"})
  /\ MapIsEndless => <>[](stage = "map")

=============================================================================
