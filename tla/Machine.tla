------------------------------ MODULE Machine -------------------------------
(***************************************************************************)
(* The processor's side of the kernel: kmain, gdt::install, idt::install,  *)
(* the exception stubs and fault_entry, the fatal report, and the ends of  *)
(* a run (halt, panic, reboot).  What the commands do to the memory is in  *)
(* module Kernel, what mem::init does in module Boot.                      *)
(*                                                                         *)
(* The stack is the sequence of the 32-bit words pushed so far, the last   *)
(* one at esp.  A word carries a tag, what kind of value it is.  A place   *)
(* in the code is a name and, inside the stub of a vector, that vector.    *)
(***************************************************************************)
EXTENDS Segments, CommandLine, StackDump

CONSTANTS
  Lines,        \* the lines a user may enter
  Controllers,  \* kinds of 8042: it "works" or "ignores" the reset
  TRIES,        \* reset commands that reboot sends (10)
  SHELL_DEPTH,  \* words on the stack while the shell runs
  BOTTOM,       \* stack_bottom
  DUMP_MAX,     \* the longest dump asked for, in words
  Nested,       \* bound: the vectors raised inside a handler
  MAX_OOPS      \* bound: recoveries before the shell takes no more lines

VARIABLES
  seg,     \* [gdt, gdtr, cs, ss, ds]; gdt is the memory the tables are in
  idt,     \* [table, idtr]
  cpu,     \* [pc, regs, cr2, blocked]
  stack,
  kbc,     \* the 8042: [kind, full, told]
  left,    \* reset commands still to send, None before reboot
  oops,    \* the static OOPS
  mapped,  \* the page at DEMAND_BASE is there
  cmd,     \* the line read last, and what dispatch makes of it
  ctx      \* what each exception that has not returned interrupted (history)

vars == <<seg, idt, cpu, stack, kbc, left, oops, mapped, cmd, ctx>>

None == TRIES + 1
Vectors == 0 .. 31
PAGE_FAULT == 14
NMI == 2
DOUBLE_FAULT == 8
PROTECTION == 13

At(place) == <<place, 0>>
Word(tag, val) == [tag |-> tag, val |-> val]
Goto(place) == cpu' = [cpu EXCEPT !.pc = At(place)]
Move(from, to) == cpu.pc = At(from) /\ Goto(to)

NoCommand == [text |-> <<>>, call |-> "nothing", args |-> <<>>]

(* The general registers in the order pusha saves them, esp left out. *)
Registers == {"eax", "ecx", "edx", "ebx", "ebp", "esi", "edi"}
PUSHA == <<"eax", "ecx", "edx", "ebx", "esp", "ebp", "esi", "edi">>

-----------------------------------------------------------------------------
(* The processor (external).                                               *)

(* The vectors for which it pushes an error code. *)
ERROR_CODE == {8, 10, 11, 12, 13, 14, 17, 21, 30}

(* It looks from the loaded base on, up to the loaded limit. *)
Descriptor(selector) ==
  LET row == 8 * (selector \div 8)
      at  == seg.gdtr.base + row
  IN  IF row + 7 <= seg.gdtr.limit /\ at \in DOMAIN seg.gdt THEN seg.gdt[at] ELSE {}

CanRun(selector) == IsCode(Descriptor(selector)) /\ Ring(Descriptor(selector)) = 0

CanDeliver(v) ==
  LET g == idt.table[v]
  IN  idt.idtr = "table" /\ IsInterruptGate(g) /\ CanRun(GateSelector(g))

(* isr_table: where the stub of each vector is; high and low half differ. *)
isr_table == [v \in Vectors |-> BitsOf(v) \cup Shift(BitsOf(2 * v), 16) \cup {31}]

(* Push eflags, cs, eip and the error code, and go where the gate says. *)
Enter(v, error, cr2) ==
  LET code == IF v \in ERROR_CODE THEN <<Word("number", error)>> ELSE <<>>
      to   == GateOffset(idt.table[v])
      stub == CHOOSE s \in Vectors : isr_table[s] = to
  IN  /\ stack' = stack \o <<Word("eflags", 0), Word("selector", seg.cs), Word("code", cpu.pc)>>
                        \o code
      /\ cpu' = [cpu EXCEPT !.pc = <<"stub", stub>>,
                            !.cr2 = cr2, !.blocked = cpu.blocked \/ v = NMI]
      /\ seg' = [seg EXCEPT !.cs = GateSelector(idt.table[v])]

(* The words an exception takes until fault_entry runs: eflags, cs, eip,   *)
(* error code, vector, the eight of pusha, esp and the return address.     *)
FRAME_WORDS == 15

(* All of them fit above stack_bottom.  Below are the boot tables, the     *)
(* page directory in use among them, and no page protects them.            *)
HasRoom == Len(stack) + FRAME_WORDS <= TOP - BOTTOM

(* An exception.  One that cannot be delivered is a double fault, and a    *)
(* double fault that cannot be delivered resets the machine; it uses the   *)
(* same stack.  A stack that grows into the page tables is taken to be the *)
(* end at once, though it may take some words more.                        *)
Deliver(v, error, cr2) ==
  /\ IF ~HasRoom THEN Goto("reset") /\ UNCHANGED <<stack, seg>>
     ELSE IF CanDeliver(v) THEN Enter(v, error, cr2)
     ELSE IF CanDeliver(DOUBLE_FAULT) THEN Enter(DOUBLE_FAULT, 0, cr2)
     ELSE Goto("reset") /\ UNCHANGED <<stack, seg>>
  /\ ctx' = Append(ctx, [vector |-> v, error |-> IF v \in ERROR_CODE THEN error ELSE 0,
                         pc |-> cpu.pc, cs |-> seg.cs, regs |-> cpu.regs,
                         depth |-> Len(stack)])
  /\ UNCHANGED <<idt, kbc, left, oops, mapped, cmd>>

-----------------------------------------------------------------------------
(* kmain.                                                                  *)

(* The entry point has pushed the two arguments and a return address.  The *)
(* loader's segments are of its own table, which is not there any more.    *)
Init ==
  /\ seg = [gdt |-> <<>>, gdtr |-> [base |-> 0, limit |-> 0],
            cs |-> 16, ss |-> 24, ds |-> 24]
  /\ idt = [table |-> [v \in Vectors |-> {}], idtr |-> "loader"]
  /\ cpu = [pc |-> At("gdt"), regs |-> [r \in Registers |-> r], cr2 |-> "none",
            blocked |-> FALSE]
  /\ stack = [i \in 1 .. 3 |-> Word("entry", i)]
  /\ kbc \in [kind : Controllers, full : BOOLEAN, told : {FALSE}]
  /\ left = None /\ oops = 0 /\ mapped = FALSE
  /\ cmd = NoCommand /\ ctx = <<>>

Rest == <<stack, kbc, left, oops, mapped, cmd, ctx>>

(* gdt::install: the table, lgdt, the data segments, the far return. *)
InstallGdt ==
  /\ \/ /\ Move("gdt", "lgdt")
        /\ seg' = [seg EXCEPT !.gdt =
                      [a \in {BASE + 8 * (i - 1) : i \in DOMAIN SEGMENTS} |->
                         SEGMENTS[(a - BASE) \div 8 + 1].descriptor]]
     \/ Move("lgdt", "segments") /\ seg' = [seg EXCEPT !.gdtr = [base |-> BASE, limit |-> GDT_LIMIT]]
     \/ Move("segments", "retf") /\ seg' = [seg EXCEPT !.ds = KERNEL_DATA, !.ss = KERNEL_STACK]
     \/ Move("retf", "fill") /\ seg' = [seg EXCEPT !.cs = KERNEL_CODE]
  /\ UNCHANGED <<idt, Rest>>

(* idt::install: the gates, lidt.  The slots above the 32 exceptions stay  *)
(* empty and are not kept here: interrupts are off.                        *)
InstallIdt ==
  /\ \/ /\ Move("fill", "lidt")
        /\ idt' = [idt EXCEPT !.table = [v \in Vectors |-> gate(isr_table[v])]]
     \/ Move("lidt", "mem") /\ idt' = [idt EXCEPT !.idtr = "table"]
  /\ UNCHANGED <<seg, Rest>>

(* mem::init returns or panics (module Boot: or never ends); then          *)
(* shell::run.                                                             *)
MemInit ==
  /\ cpu.pc = At("mem")
  /\ \/ /\ Goto("shell")
        /\ stack' = stack \o [i \in 1 .. (SHELL_DEPTH - Len(stack)) |-> Word("shell", i)]
     \/ Goto("fatal") /\ UNCHANGED stack
  /\ UNCHANGED <<seg, idt, kbc, left, oops, mapped, cmd, ctx>>

-----------------------------------------------------------------------------
(* The shell.                                                              *)

(* read_line returns, and dispatch looks for the command. *)
ReadLine(text) ==
  /\ oops < MAX_OOPS
  /\ Move("shell", "run")
  /\ cmd' = [text |-> text] @@ dispatch(text)
  /\ UNCHANGED <<seg, idt, stack, kbc, left, oops, mapped, ctx>>

(* panic::oops, as far as the machine keeps it. *)
oops_after == (oops + 1) % (U32_MAX + 1)

(* cmd_fault: the place of the access it makes. *)
cmd_fault(args) ==
  CASE args \in {<<>>, <<"demand">>} -> "touch demand"
    [] args = <<"ro">> -> "touch ro"
    [] args = <<"kernel">> -> "touch kernel"
    [] OTHER -> "shell"

(* The call that dispatch makes, as far as it leads the processor elsewhere. *)
Run ==
  LET recover == cmd.call = "panic" /\ cmd.args \in {<<>>, <<"oops">>}
      reboot  == cmd.call = "reboot"
  IN  /\ Move("run", CASE cmd.call = "panic" /\ cmd.args = <<"fatal">> -> "fatal"
                       [] cmd.call = "fault" -> cmd_fault(cmd.args)
                       [] cmd.call = "halt" -> "halt"
                       [] reboot -> "wait"
                       [] OTHER -> "shell")
      /\ oops' = IF recover THEN oops_after ELSE oops
      /\ left' = IF reboot THEN TRIES ELSE left
      /\ cmd' = NoCommand
      /\ UNCHANGED <<seg, idt, stack, kbc, mapped, ctx>>

(* The access of cmd_fault: it faults, or the page is there by now. *)
Touch ==
  \/ /\ cpu.pc = At("touch demand") /\ mapped
     /\ Goto("shell")
     /\ UNCHANGED <<seg, idt, Rest>>
  \/ cpu.pc = At("touch demand") /\ ~mapped /\ Deliver(PAGE_FAULT, 0, "demand")
  \/ cpu.pc = At("touch kernel") /\ Deliver(PAGE_FAULT, 2, "kernel")
  \/ cpu.pc = At("touch ro") /\ Deliver(PAGE_FAULT, 3, "ro")

-----------------------------------------------------------------------------
(* kernel/src/idt.rs: from the gate to Rust and back.                      *)

Push(words) == stack' = stack \o words
Pop(n) == stack' = SubSeq(stack, 1, Len(stack) - n)
Others == <<idt, kbc, left, oops, mapped, cmd, ctx>>

(* The vectors whose stub is made by isr_error.  A slip: not 17. *)
isr_error_short == {8, 10, 11, 12, 13, 14, 21, 30}
isr_error == {8, 10, 11, 12, 13, 14, 17, 21, 30}

Stub ==
  /\ cpu.pc[1] = "stub"
  /\ LET v == cpu.pc[2]
     IN  Push((IF v \in isr_error THEN <<>> ELSE <<Word("number", 0)>>) \o <<Word("number", v)>>)
  /\ Goto("pusha")
  /\ UNCHANGED <<seg, Others>>

(* isr_common up to the call of fault_entry. *)
Save ==
  /\ \/ /\ Move("pusha", "push esp")
        /\ Push([i \in DOMAIN PUSHA |->
                   IF PUSHA[i] = "esp" THEN Word("depth", Len(stack))
                   ELSE Word("register", cpu.regs[PUSHA[i]])])
     \/ Move("push esp", "call") /\ Push(<<Word("depth", Len(stack))>>)
     \/ Move("call", "fault_entry") /\ Push(<<Word("code", At("add 4"))>>)
  /\ UNCHANGED <<seg, Others>>

(* The fields of Frame, from the pointer that was pushed upwards. *)
FrameFields == <<"edi", "esi", "ebp", "esp", "ebx", "edx", "ecx", "eax",
                 "vector", "error", "eip", "cs", "eflags">>

Frame ==
  LET pointer == stack[Len(stack) - 1].val
  IN  [f \in Range(FrameFields) |->
         stack[pointer + 1 - (CHOOSE i \in DOMAIN FrameFields : FrameFields[i] = f)]]

(* paging::handle_fault, in full in module Paging: whether it may map a page. *)
handle_fault(addr, error) == error % 2 = 0 /\ addr = "demand"

(* What a Rust function may leave in the registers that are not its       *)
(* caller's to keep.                                                       *)
Clobbered == [r \in Registers |-> IF r \in {"eax", "ecx", "edx"} THEN "junk" ELSE cpu.regs[r]]

(* fault_entry, up to its return or to fatal_fault: the fault is no page    *)
(* fault, not one to repair, or there is no frame for the page.            *)
FaultEntry ==
  /\ cpu.pc = At("fault_entry")
  /\ \/ /\ Frame.vector.val = PAGE_FAULT
        /\ handle_fault(cpu.cr2, Frame.error.val)
        /\ mapped' = TRUE
        /\ oops' = oops_after
        /\ cpu' = [cpu EXCEPT !.pc = stack[Len(stack)].val, !.regs = Clobbered]
        /\ Pop(1)
     \/ /\ cpu' = [cpu EXCEPT !.pc = At("fatal"), !.regs = Clobbered]
        /\ UNCHANGED <<stack, mapped, oops>>
  /\ UNCHANGED <<seg, idt, kbc, left, cmd, ctx>>

(* What popa loads.  A slip: nothing. *)
popa_none == cpu.regs
popa ==
  LET bottom == Len(stack) - Len(PUSHA)
  IN  [r \in Registers |-> stack[bottom + (CHOOSE i \in DOMAIN PUSHA : PUSHA[i] = r)].val]

(* isr_common after the call, up to iret. *)
Restore ==
  /\ \/ Move("add 4", "popa") /\ Pop(1)
     \/ /\ cpu.pc = At("popa")
        /\ cpu' = [cpu EXCEPT !.pc = At("add 8"), !.regs = popa]
        /\ Pop(Len(PUSHA))
     \/ Move("add 8", "iret") /\ Pop(2)
  /\ UNCHANGED <<seg, Others>>

(* A selector that is not code's makes iret fault itself. *)
Iret ==
  LET eip == stack[Len(stack)]
      cs  == stack[Len(stack) - 1]
  IN  /\ cpu.pc = At("iret")
      /\ IF CanRun(cs.val)
         THEN /\ cpu' = [cpu EXCEPT !.pc = eip.val, !.blocked = FALSE]
              /\ seg' = [seg EXCEPT !.cs = cs.val]
              /\ Pop(3)
              /\ ctx' = Front(ctx)
              /\ UNCHANGED <<idt, kbc, left, oops, mapped, cmd>>
         ELSE Deliver(PROTECTION, 0, cpu.cr2)

-----------------------------------------------------------------------------
(* The ends of a run.                                                      *)

(* machine() prints the window only from inside the stack. *)
machine_shows(esp) == BOTTOM <= esp /\ esp < TOP

(* fatal and fatal_fault report and stop.  A slip: back to the caller. *)
FatalReturns == Move("fatal", "shell") /\ UNCHANGED <<seg, stack, Others>>
Fatal == Move("fatal", "stop") /\ UNCHANGED <<seg, stack, Others>>

(* What lidt loads before int3.  A slip: the table again. *)
NULL_IDT_Table == "table"
NULL_IDT == "null"

(* No try is left. *)
TriesOver(n) == n = 0

(* cmd_reboot: wait until the controller takes a byte and send the         *)
(* command, so often; then the fault that nobody can handle.               *)
RebootWait ==
  /\ Move("wait", IF TriesOver(left) THEN "null" ELSE IF kbc.full THEN "wait" ELSE "command")
  /\ UNCHANGED <<seg, stack, Others>>

RebootCommand ==
  /\ Move("command", "wait")
  /\ kbc' = [kbc EXCEPT !.full = TRUE, !.told = TRUE]
  /\ left' = left - 1
  /\ UNCHANGED <<seg, idt, stack, oops, mapped, cmd, ctx>>

RebootFault ==
  \/ /\ Move("null", "int3")
     /\ idt' = [idt EXCEPT !.idtr = NULL_IDT]
     /\ UNCHANGED <<seg, Rest>>
  \/ cpu.pc = At("int3") /\ Deliver(3, 0, cpu.cr2)

(* panic::stop and cmd_halt: the loops around hlt. *)
Stop == cpu.pc = At("stop") /\ UNCHANGED vars
Halt == cpu.pc = At("halt") /\ UNCHANGED vars

-----------------------------------------------------------------------------
(* What the machine does by itself (external).                             *)

(* An exception in the middle of Rust code. *)
Raise(v) ==
  /\ v \notin {NMI, PAGE_FAULT}
  /\ cpu.pc = At("shell") \/ (cpu.pc = At("fault_entry") /\ v \in Nested)
  /\ Deliver(v, 8, cpu.cr2)

(* A non-maskable interrupt, at any place and also at a hlt (inside        *)
(* dispatch it would be as at the prompt).  There is no second one before  *)
(* the first returns.                                                      *)
Interrupt ==
  /\ ~cpu.blocked
  /\ cpu.pc \notin {At("run"), At("reset")}
  /\ Deliver(NMI, 0, cpu.cr2)

(* The controller takes the byte; one that works pulls the reset line. *)
Drain ==
  /\ kbc.full
  /\ kbc' = [kbc EXCEPT !.full = FALSE]
  /\ IF kbc.told /\ kbc.kind = "works" THEN Goto("reset") ELSE UNCHANGED cpu
  /\ UNCHANGED <<seg, idt, stack, left, oops, mapped, cmd, ctx>>

(* The machine after a reset: it starts again from the loader. *)
Reset == cpu.pc = At("reset") /\ UNCHANGED vars

KernelStep ==
  \/ InstallGdt \/ InstallIdt \/ MemInit \/ Run \/ Touch
  \/ Stub \/ Save \/ FaultEntry \/ Restore \/ Iret
  \/ Fatal \/ RebootWait \/ RebootCommand \/ RebootFault

Next ==
  \/ KernelStep
  \/ \E text \in Lines : ReadLine(text)
  \/ \E v \in Vectors : Raise(v)
  \/ Interrupt
  \/ Drain
  \/ Stop \/ Halt \/ Reset

(* The processor executes, and the controller takes its bytes: cmd_reboot  *)
(* waits for that without a limit.                                         *)
Spec == Init /\ [][Next]_vars /\ WF_vars(KernelStep) /\ WF_vars(Drain)

-----------------------------------------------------------------------------
(* Properties.                                                             *)

MachineTypeOK ==
  /\ Len(stack) <= TOP - BOTTOM
  /\ seg.gdtr \in [base : {0, BASE}, limit : {0, GDT_LIMIT}]
  /\ idt.idtr \in {"loader", "table", "null"}
  /\ cpu.pc \in {"gdt", "lgdt", "segments", "retf", "fill", "lidt", "mem", "shell",
                 "run", "touch demand", "touch ro", "touch kernel", "stub", "pusha",
                 "push esp", "call", "fault_entry", "add 4", "popa", "add 8", "iret",
                 "fatal", "stop", "wait", "command", "null", "int3", "halt", "reset"} \X Vectors
  /\ cpu.cr2 \in {"none", "demand", "ro", "kernel"}
  /\ DOMAIN cpu.regs = Registers
  /\ left \in (0 .. TRIES) \cup {None}
  /\ oops \in 0 .. U32_MAX

(***************************************************************************)
(* What fault_entry reads is what happened: the vector that was raised,    *)
(* its error code or 0, and the place, segment and registers of the code   *)
(* that was interrupted, for all 32 vectors, with and without an error     *)
(* code, and for an exception inside the handler of another (idt.rs stubs, *)
(* isr_common, Frame).  Its esp is the one pusha starts from, not the      *)
(* fault's.  The state keeps its types.                                    *)
(***************************************************************************)
FrameIsTrue ==
  /\ MachineTypeOK
  /\ cpu.pc = At("fault_entry") =>
       LET c == Last(ctx)
       IN  /\ Frame.vector = Word("number", c.vector)
           /\ Frame.error = Word("number", c.error)
           /\ Frame.eip = Word("code", c.pc)
           /\ Frame.cs = Word("selector", c.cs)
           /\ \A r \in Registers : Frame[r] = Word("register", c.regs[r])

(***************************************************************************)
(* A repaired fault is not noticed: when an exception returns, the code it *)
(* interrupted goes on at the same place with the registers, segment and   *)
(* stack it had, although Rust ran in between (idt.rs isr_common).         *)
(***************************************************************************)
ResumesUnharmed ==
  [][Len(ctx') < Len(ctx) =>
       LET c == Last(ctx)
       IN  /\ cpu'.pc = c.pc /\ cpu'.regs = c.regs /\ seg'.cs = c.cs
           /\ stack' = SubSeq(stack, 1, c.depth)]_vars

(***************************************************************************)
(* "With the 32 exception vectors wired, a triple fault now takes          *)
(* deliberate work" (docs/GLOSSARY.md:297): once the table is loaded no    *)
(* exception, at whatever place, resets the machine before the user asks   *)
(* for a reboot, as long as the stack has room for it (gdt.rs flat,        *)
(* idt.rs gate: each gate leads through a code segment that is there).     *)
(* That holds for an exception inside the handler too, of which            *)
(* docs/PANIC.md:345 says that it triple-faults the machine: it is         *)
(* delivered and reported like the first, until such faults have used up   *)
(* the stack.                                                              *)
(***************************************************************************)
OnlyRebootResets ==
  [][cpu'.pc = At("reset") /\ cpu.pc # At("reset") =>
       left # None \/ idt.idtr = "loader" \/ ~HasRoom]_vars

(* The shell never gets the processor again. *)
Over ==
  LET ends == {At("fatal"), At("stop"), At("halt"), At("reset")}
  IN  cpu.pc \in ends \/ \E i \in DOMAIN ctx : ctx[i].pc \in ends

(***************************************************************************)
(* A run that has ended stays ended: after halt, a panic or a fatal fault  *)
(* not even an interrupt that wakes the processor brings the shell back,   *)
(* and once the shell was told to reboot it reads no more lines (panic.rs  *)
(* stop, shell.rs cmd_halt, cmd_reboot).                                   *)
(***************************************************************************)
EndsForGood == [][(Over => Over') /\ (left # None => cmd' = cmd)]_vars

(* What cmd_gdt asks the processor, and its verdict. *)
current == seg.gdtr
selectors == <<seg.cs, seg.ss, seg.ds>>
verdict ==
  IF current.base = BASE /\ current.limit = GDT_LIMIT THEN "as declared" ELSE "does not match"

(***************************************************************************)
(* The command `gdt' tells the truth: at each moment, and so after each    *)
(* step of gdt::install, its verdict would be `as declared' exactly if the *)
(* processor finds the declared descriptor for every row, from the base    *)
(* and limit it uses.  At the prompt it is, and cs, ss and ds are each     *)
(* shown on one row, whose descriptor is the one the processor uses, of    *)
(* ring 0, over the whole address space, executable for cs and writable    *)
(* for the others (shell.rs cmd_gdt, seg_range, seg_type, gdt.rs install,  *)
(* current).                                                               *)
(***************************************************************************)
GdtReportIsTrue ==
  /\ (verdict = "as declared")
       = (\A row \in DOMAIN SEGMENTS :
            Descriptor(SEGMENTS[row].selector) = SEGMENTS[row].descriptor)
  /\ cpu.pc = At("shell") =>
       /\ verdict = "as declared"
       /\ \A held \in Range(selectors) :
            \E row \in DOMAIN SEGMENTS :
              LET d == SEGMENTS[row].descriptor
              IN  /\ RowsOf(held) = {row}
                  /\ Descriptor(held) = d
                  /\ seg_range(d) = <<[lo |-> {}, hi |-> U32_BITS]>>
                  /\ Ring(d) = 0
                  /\ seg_type(d) = IF held = seg.cs THEN "code rx" ELSE "data rw"
                  /\ IF held = seg.cs THEN IsCode(d) ELSE IsWritable(d)

(***************************************************************************)
(* A dump of the stack shows each live word once, in order, up to the top  *)
(* and never past it, whatever length is asked for (stack.rs print,        *)
(* snapshot, render), and the fatal report always has one to show          *)
(* (panic.rs machine).                                                     *)
(***************************************************************************)
DumpIsTheStack ==
  LET esp == TOP - Len(stack)
      reads(row) == [k \in 1 .. row.words |-> row.at + k - 1]
  IN  /\ \A n \in 1 .. DUMP_MAX :
           FlattenSeq([i \in DOMAIN stack_print(esp, n) |-> reads(stack_print(esp, n)[i])])
             = [k \in 1 .. Least(n, Len(stack)) |-> esp + k - 1]
      /\ cpu.pc = At("fatal") => machine_shows(esp)

(***************************************************************************)
(* What the commands `gdt' and `stack' and a fatal report print is so.     *)
(***************************************************************************)
ReportsAreTrue == GdtReportIsTrue /\ DumpIsTheStack

(* Parts of a line that do not start or end with a space. *)
Parts(line) ==
  {p \in {SubSeq(line, i, k) : i, k \in DOMAIN line} \cup {<<>>} :
     p = <<>> \/ SPACE \notin {p[1], Last(p)}}

(***************************************************************************)
(* A line calls a command exactly if its first word is the name of it, and *)
(* the command gets the rest without the spaces around it, wherever        *)
(* spaces stand (shell.rs dispatch).                                       *)
(***************************************************************************)
LineMeansCall ==
  cpu.pc = At("run") =>
    /\ (cmd.call = "nothing") = (\A i \in DOMAIN cmd.text : cmd.text[i] = SPACE)
    /\ cmd.call \in Range(cmd.text) \cup {"nothing", "no such command"}
    /\ \A name \in CMDS \cap Range(cmd.text), args \in Parts(cmd.text) :
         (cmd.call = name /\ cmd.args = args) = IsCall(cmd.text, <<name>>, args)

(***************************************************************************)
(* A number is read as what it denotes, in both radices, and as none if it *)
(* is not one or is past the largest u32; and a number that is written     *)
(* reads back as itself (klib.rs parse_u32, utoa).                         *)
(***************************************************************************)
NumbersAreRead ==
  cpu.pc = At("run") =>
    LET meant  == {Denotes(d.digits, d.radix) : d \in NumbersOf(cmd.args)}
        number == parse_u32(cmd.args)
    IN  /\ Range(number) = meant \cap (0 .. U32_MAX)
        /\ \A n \in Range(number) : parse_u32(utoa(n)) = <<n>>

(***************************************************************************)
(* A line that was read is taken for what it says: the command, its        *)
(* arguments, and the number they stand for.                               *)
(***************************************************************************)
LinesAreRead == LineMeansCall /\ NumbersAreRead

(***************************************************************************)
(* A reboot restarts the machine: by the reset line, or, with a controller *)
(* that ignores the command, by the triple fault; only an interrupt that   *)
(* is reported as fatal can stop it before (shell.rs cmd_reboot).          *)
(***************************************************************************)
RebootRestarts ==
  cpu.pc = At("wait") ~> cpu.pc = At("reset") \/ (cpu.pc = At("stop") /\ cpu.blocked)
=============================================================================
