------------------------------- MODULE Paging -------------------------------
(***************************************************************************)
(* The kernel's own accesses to memory, the page faults they raise and the *)
(* shell commands that move mappings: paging::init, idt::fault_entry,      *)
(* paging::handle_fault, and the commands `fault' and `user'.              *)
(*                                                                         *)
(* There is one thread and interrupts are off, but the processor caches    *)
(* translations on its own between any two of its steps (CacheFill), so    *)
(* the commands take one step per call into paging.rs.  A faulting         *)
(* instruction is tried again after its fault was handled.                 *)
(***************************************************************************)
EXTENDS PageTable

CONSTANTS
  DEMAND_BASE, DEMAND_END,   \* user pages the fault handler maps
  USER_DEMO,                 \* the page of the command `user'
  KHEAP_PAGE,                \* where `user' tries a user page
  Accesses,                  \* [addr, write] the command `fault' performs
  Cacheable                  \* bound: the pages whose translation is cached

ASSUME PagingAssumption ==
  /\ {DEMAND_BASE, DEMAND_END, USER_DEMO, KHEAP_PAGE} \subseteq Nat
  /\ Accesses \subseteq [addr : Nat, write : BOOLEAN]
  /\ Cacheable \subseteq Pages

(* The layout of the address space: mem.rs and linker.ld. *)
ASSUME LayoutAssumption ==
  /\ 0 < KERNEL_DIR /\ KERNEL_DIR < SELF
  /\ DEMAND_END <= KERNEL_SPACE /\ USER_DEMO < KERNEL_SPACE
  /\ KERNEL_SPACE <= IMAGE_START /\ IMAGE_START % PAGE_SIZE = 0
  /\ READONLY_END <= KERNEL_SPACE + PAGE_SIZE * ENTRIES

VARIABLE cpu   \* the command that runs and the access it waits for

pagingVars == <<pmm, mmu, pool, cpu>>

is_demand(addr) == DEMAND_BASE <= addr /\ addr < DEMAND_END

-----------------------------------------------------------------------------

PagingInit ==
  /\ pool \in Pools
  /\ pmm = [free |-> pool, total |-> MAX_FRAMES, available |-> Cardinality(pool)]
  /\ mmu = BootMmu
  /\ cpu = [pc |-> "boot", addr |-> 0, write |-> FALSE, error |-> {},
            faulted |-> FALSE, value |-> "none", then |-> "boot", frame |-> 0]

Goto(pc) == cpu' = [cpu EXCEPT !.pc = pc]

(* Perform the access and go on at `then'. *)
Touch(addr, write, then) ==
  [cpu EXCEPT !.pc = "access", !.addr = addr, !.write = write,
              !.faulted = FALSE, !.value = "none", !.then = then]

InitPaging ==
  /\ cpu.pc = "boot"
  /\ mmu' = paging_init(mmu)
  /\ Goto("shell")
  /\ UNCHANGED <<pmm, pool>>

(* The instruction runs, or it faults and nothing of it has happened. *)
Access ==
  /\ cpu.pc = "access"
  /\ LET entry == Lookup(mmu, page_number(cpu.addr))
         frame == frame_of(entry.frame)
     IN  IF PRESENT \notin entry.flags
         THEN cpu' = [cpu EXCEPT !.pc = "fault", !.error = {}] /\ UNCHANGED mmu
         ELSE IF cpu.write /\ mmu.wp /\ WRITABLE \notin entry.flags
         THEN cpu' = [cpu EXCEPT !.pc = "fault", !.error = {PRESENT}] /\ UNCHANGED mmu
         ELSE /\ cpu' = [cpu EXCEPT !.pc = cpu.then,
                                    !.value = IF frame \in mmu.zero THEN "zero" ELSE "data"]
              /\ mmu' = IF cpu.write THEN [mmu EXCEPT !.zero = @ \ {frame}] ELSE mmu
  /\ UNCHANGED <<pmm, pool>>

(* A slip: the fault counts as handled though map_new refused. *)
handle_fault_unchecked(p, m, addr, error) ==
  IF PRESENT \in error \/ ~is_demand(addr)
  THEN [frame |-> None, oops |-> "none", pmm |-> p, mmu |-> m]
  ELSE [map_new(p, m, page_of(addr), USER_PAGE) EXCEPT !.frame = 0]

handle_fault(p, m, addr, error) ==
  IF PRESENT \in error \/ ~is_demand(addr)
  THEN [frame |-> None, oops |-> "none", pmm |-> p, mmu |-> m]
  ELSE map_new(p, m, page_of(addr), USER_PAGE)

(* fault_entry: a handled fault returns to the same instruction. *)
Fault ==
  /\ cpu.pc = "fault"
  /\ LET got == handle_fault(pmm, mmu, cpu.addr, cpu.error)
     IN  /\ pmm' = got.pmm
         /\ mmu' = got.mmu
         /\ cpu' = IF got.frame # None
                   THEN [cpu EXCEPT !.pc = "access", !.faulted = TRUE]
                   ELSE [cpu EXCEPT !.pc = "stopped"]
  /\ UNCHANGED pool

(* fatal_fault ends in panic::stop: the processor halts in a loop. *)
Stopped == cpu.pc = "stopped" /\ UNCHANGED pagingVars

(* The command `fault'. *)
CmdFault(a) ==
  /\ cpu.pc = "shell"
  /\ cpu' = Touch(a.addr, a.write, "shell")
  /\ UNCHANGED <<pmm, mmu, pool>>

(* The command `user', one step per call it makes. *)
CmdUser ==
  /\ cpu.pc = "shell"
  /\ LET got == unmap_and_free(pmm, mmu, USER_DEMO)
     IN  pmm' = got.pmm /\ mmu' = got.mmu
  /\ Goto("user map")
  /\ UNCHANGED pool

UserMap ==
  /\ cpu.pc = "user map"
  /\ LET got == map_new(pmm, mmu, USER_DEMO, USER_PAGE)
     IN  /\ pmm' = got.pmm
         /\ mmu' = got.mmu
         /\ IF got.frame = None
            THEN Goto("shell")
            ELSE cpu' = [Touch(USER_DEMO, TRUE, "user read") EXCEPT !.frame = got.frame]
  /\ UNCHANGED pool

UserRead ==
  /\ cpu.pc = "user read"
  /\ cpu' = Touch(USER_DEMO, FALSE, "user protect")
  /\ UNCHANGED <<pmm, mmu, pool>>

UserProtect ==
  /\ cpu.pc = "user protect"
  /\ mmu' = protect(pmm, mmu, USER_DEMO, USER_READONLY).mmu
  /\ Goto("user refuse")
  /\ UNCHANGED <<pmm, pool>>

UserRefuse ==
  /\ cpu.pc = "user refuse"
  /\ LET got == map_page(pmm, mmu, KHEAP_PAGE, cpu.frame, USER_PAGE)
     IN  pmm' = got.pmm /\ mmu' = got.mmu
  /\ Goto("user drop")
  /\ UNCHANGED pool

UserDrop ==
  /\ cpu.pc = "user drop"
  /\ LET got == unmap_and_free(pmm, mmu, USER_DEMO)
     IN  pmm' = got.pmm /\ mmu' = got.mmu
  /\ Goto("shell")
  /\ UNCHANGED pool

(* The processor caches a translation whenever it likes. *)
CacheFill(n) ==
  /\ cpu.pc # "stopped"
  /\ n \notin DOMAIN mmu.tlb
  /\ Walk(mmu, n) # Absent
  /\ mmu' = Fill(mmu, n)
  /\ UNCHANGED <<pmm, pool, cpu>>

PagingStep ==
  \/ InitPaging \/ Access \/ Fault
  \/ UserMap \/ UserRead \/ UserProtect \/ UserRefuse \/ UserDrop

PagingCommand ==
  \/ \E a \in Accesses : CmdFault(a)
  \/ CmdUser

-----------------------------------------------------------------------------
(* Properties.                                                             *)

PagingTypeOK ==
  /\ PmmTypeOK
  /\ MmuTypeOK
  /\ pool \subseteq Frames
  /\ cpu.pc \in {"boot", "shell", "access", "fault", "stopped", "user map",
                 "user read", "user protect", "user refuse", "user drop"}
  /\ cpu.addr \in Nat /\ cpu.frame \in Nat

(***************************************************************************)
(* No access ever uses a translation the tables no longer hold: whatever   *)
(* the processor cached, and whenever it did, equals what a walk yields    *)
(* (the invlpg of map_page, unmap_page and protect, the flush of           *)
(* paging::init).                                                          *)
(***************************************************************************)
CacheCoherent == \A n \in DOMAIN mmu.tlb : mmu.tlb[n] = Walk(mmu, n)

(***************************************************************************)
(* Ring 3 can reach no page of kernel space, the low window and the window *)
(* on the page tables included: no walk yields user rights there (map_page *)
(* refuses, get_page keeps U/S out of the directory).                      *)
(***************************************************************************)
KernelSpaceIsSupervisor ==
  \A n \in Pages : space_of(n * PAGE_SIZE) # "User" => USER \notin Walk(mmu, n).flags

(***************************************************************************)
(* A read that was demand paged returns zero, never what the frame held    *)
(* for its last owner (map_new clears the page it mapped).                 *)
(***************************************************************************)
DemandPageReadsZero ==
  cpu.pc = "shell" /\ cpu.faulted /\ cpu.value # "none" => cpu.value = "zero"

(***************************************************************************)
(* Once the rights are installed no write to the kernel's code through the *)
(* kernel window completes, not even by a translation cached before        *)
(* (paging::init: the table, the flush, CR0.WP).                           *)
(***************************************************************************)
CodeIsNeverWritten ==
  [][Access /\ cpu'.pc # "fault" /\ cpu.write
       => ~(IMAGE_START <= cpu.addr /\ cpu.addr < READONLY_END)]_pagingVars

Refused ==
  \/ UserMap /\ cpu'.pc = "shell"
  \/ UserRefuse
  \/ Fault /\ cpu'.pc = "stopped"

(***************************************************************************)
(* A refusal costs nothing: when map_new or map_page refuses, the frames   *)
(* and the tables are what they were (map_new returns the frame it took).  *)
(***************************************************************************)
RefusalCostsNothing ==
  [][Refused => UNCHANGED <<pmm, mmu>>]_pagingVars

=============================================================================
