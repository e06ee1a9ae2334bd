-------------------------------- MODULE Idt ---------------------------------
(***************************************************************************)
(* The interrupt descriptor table as idt_init fills it: a function from    *)
(* the 256 vectors to gate records.  A gate keeps the fields the CPU acts  *)
(* on when it dispatches a vector: present, the privilege level a caller   *)
(* needs (dpl), the code segment, and the type the bits reserved3,         *)
(* reserved2, reserved1 and size spell (bit 0 to bit 3 of the type        *)
(* nibble, descriptor bits 40-43: 0xE is a 32-bit interrupt gate, which    *)
(* clears IF on entry, 0xF a trap gate, which leaves it set; the bit      *)
(* order is the idt_desc_t of the course's x86_desc.h, which is not in    *)
(* the repository).  The handler offsets SET_IDT_ENTRY writes are         *)
(* abstracted to the vector's own number.                                  *)
(* The table is a static array, so vectors idt_init does not write stay   *)
(* zero.                                                                   *)
(***************************************************************************)
EXTENDS Integers, TLC

NUM_VEC == 256
KERNEL_CS == "KERNEL_CS"  \* the kernel code selector (x86_desc.h is not in the repository)
INT_GATE == 14          \* type 0xE
TRAP_GATE == 15         \* type 0xF

\* vectors of idt.h
SYSCALL == 128
PIT_INT == 32
KBD_INT == 33
RTC_INT == 40
RESERVED_EXCP == 15
Exceptions == (0 .. 21) \ {RESERVED_EXCP}      \* ZERO_DIVISION .. CONTROL_PROTECTION

\* an entry of the zero-initialised static idt
Absent == [present |-> 0, dpl |-> 0, type |-> 0, seg |-> "null", handler |-> -1]

\* the type nibble from reserved3 (bit 0), reserved2, reserved1, size (bit 3)
GateType(reserved3, reserved2, reserved1, size) ==
    reserved3 + 2 * reserved2 + 4 * reserved1 + 8 * size

\* the fields the loop body sets for every vector before the switch
Common(i) ==
    [present |-> 1, dpl |-> 0, type |-> GateType(0, 1, 1, 1), seg |-> KERNEL_CS,
     handler |-> i]

\* the vectors the switch writes: the cases other than RESERVED_EXCP
Installed == {SYSCALL, KBD_INT, RTC_INT, PIT_INT} \cup Exceptions

\* the descriptor the switch stores for an installed vector
Desc(i) == IF i = SYSCALL THEN [Common(i) EXCEPT !.dpl = 3] ELSE Common(i)

\* mutant: the case SYSCALL does not raise dpl to ring 3
idt_init_syscall_ring0 ==
    [i \in Installed |-> Common(i)] @@ [i \in 0 .. NUM_VEC - 1 |-> Absent]

\* mutant: the case PIT_INT is missing and falls to default
idt_init_no_pit ==
    [i \in Installed \ {PIT_INT} |-> Desc(i)] @@ [i \in 0 .. NUM_VEC - 1 |-> Absent]

\* idt_init: the loop over all vectors, each installed case stored into
\* idt[i], RESERVED_EXCP and default left as they were; then lidt
idt_init == [i \in Installed |-> Desc(i)] @@ [i \in 0 .. NUM_VEC - 1 |-> Absent]

\* a gate a ring-`cpl` `int n` instruction may go through
Callable(idt, n, cpl) == idt[n].present = 1 /\ cpl <= idt[n].dpl

\* a gate whose handler runs with interrupts disabled
ClearsIF(idt, n) == idt[n].present = 1 /\ idt[n].type = INT_GATE

IdtTypeOK(idt) ==
    idt \in [0 .. NUM_VEC - 1 -> [present : {0, 1}, dpl : 0 .. 3, type : 0 .. 15,
                                   seg : {"null", KERNEL_CS}, handler : -1 .. NUM_VEC - 1]]

=============================================================================
