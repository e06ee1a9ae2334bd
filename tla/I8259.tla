------------------------------- MODULE I8259 -------------------------------
(***************************************************************************)
(* The two cascaded 8259 PICs as i8259.c drives them, as operators on a    *)
(* record of their registers: the interrupt mask registers the code        *)
(* writes and the in-service registers the CPU's acknowledge sets and a    *)
(* specific EOI clears.  Registers are 8-bit values, operated on with the  *)
(* code's own bit arithmetic.  i8259.h is not in the repository; the       *)
(* values below are the ones the PC's wiring fixes (IRQ8-15 on the slave,  *)
(* cascaded into master line 2; OCW2 0x60 | level is a specific EOI).      *)
(* disable_irq has no caller and is not modelled.                          *)
(***************************************************************************)
EXTENDS Integers, Bitwise

IRQ_NUM == 8            \* lines per PIC
IRQ_LOW == 0
IRQ_HIGH == 15
SLAVE_IRQ_LINE == 2
MASK_ALL == 255
EOI == 96               \* 0x60

Bit(n) == 2^n
ClearBit(reg, n) == reg & (255 - Bit(n))          \* reg &= ~(0x01 << n) in a uint8_t
IsSet(reg, n) == (reg & Bit(n)) # 0

ICW2_MASTER == 32       \* "IRQ 0 starts from 0x20"
ICW2_SLAVE == 40        \* "IRQ8 starts from 0x28"

\* the power-on state: in-service registers clear; the BIOS masks and its
\* vector bases (0x08 and 0x70) are replaced by i8259_init before
\* interrupts are enabled
PicPowerOn == [master_mask |-> 0, slave_mask |-> 0, master_isr |-> 0, slave_isr |-> 0,
               master_base |-> 8, slave_base |-> 112]

\* i8259_init: mask all lines, send ICW1-4 to each chip (ICW2 is the chip's
\* vector base), mask all lines again
i8259_init(pic) ==
    [pic EXCEPT !.master_mask = MASK_ALL, !.slave_mask = MASK_ALL,
                !.master_base = ICW2_MASTER, !.slave_base = ICW2_SLAVE]

\* mutant: the slave's bit is taken from irq_num instead of irq_num - IRQ_NUM
enable_irq_unshifted(pic, irq_num) ==
    CASE irq_num < IRQ_LOW \/ irq_num > IRQ_HIGH -> pic
      [] irq_num >= IRQ_NUM ->
           [pic EXCEPT !.slave_mask = (@ & (255 - (Bit(irq_num) % 256)))]
      [] OTHER -> [pic EXCEPT !.master_mask = ClearBit(@, irq_num)]

\* enable_irq: clear the line's bit in its chip's mask register
enable_irq(pic, irq_num) ==
    CASE irq_num < IRQ_LOW \/ irq_num > IRQ_HIGH -> pic
      [] irq_num >= IRQ_NUM -> [pic EXCEPT !.slave_mask = ClearBit(@, irq_num - IRQ_NUM)]
      [] OTHER -> [pic EXCEPT !.master_mask = ClearBit(@, irq_num)]

\* OCW2 specific EOI: clear the in-service bit the low three bits name
SpecificEoi(isr, ocw2) == ClearBit(isr, ocw2 & 7)

\* mutant: the slave's EOI is sent but not the master's for line 2
send_eoi_no_cascade(pic, irq_num) ==
    CASE irq_num < IRQ_LOW \/ irq_num > IRQ_HIGH -> pic
      [] irq_num >= IRQ_NUM ->
           [pic EXCEPT !.slave_isr = SpecificEoi(@, (irq_num - IRQ_NUM) | EOI)]
      [] OTHER -> [pic EXCEPT !.master_isr = SpecificEoi(@, irq_num | EOI)]

\* send_eoi: for a slave line, EOI to the slave and to master line 2
send_eoi(pic, irq_num) ==
    CASE irq_num < IRQ_LOW \/ irq_num > IRQ_HIGH -> pic
      [] irq_num >= IRQ_NUM ->
           [pic EXCEPT !.slave_isr = SpecificEoi(@, (irq_num - IRQ_NUM) | EOI),
                       !.master_isr = SpecificEoi(@, EOI | SLAVE_IRQ_LINE)]
      [] OTHER -> [pic EXCEPT !.master_isr = SpecificEoi(@, irq_num | EOI)]

(***************************************************************************)
(* Hardware: a line's request reaches the CPU when it is unmasked and no   *)
(* line of the same or higher priority (lower number) is in service; a     *)
(* slave line must also get through master line 2.  The CPU's acknowledge  *)
(* sets the in-service bits.                                               *)
(***************************************************************************)
Passes(mask, isr, line) ==
    ~IsSet(mask, line) /\ \A j \in 0..line : ~IsSet(isr, j)

Deliverable(pic, irq) ==
    IF irq >= IRQ_NUM
    THEN /\ Passes(pic.slave_mask, pic.slave_isr, irq - IRQ_NUM)
         /\ Passes(pic.master_mask, pic.master_isr, SLAVE_IRQ_LINE)
    ELSE Passes(pic.master_mask, pic.master_isr, irq)

Acknowledge(pic, irq) ==
    IF irq >= IRQ_NUM
    THEN [pic EXCEPT !.slave_isr = @ | Bit(irq - IRQ_NUM),
                     !.master_isr = @ | Bit(SLAVE_IRQ_LINE)]
    ELSE [pic EXCEPT !.master_isr = @ | Bit(irq)]

\* the vector the CPU receives in the acknowledge cycle for a line
Vector(pic, irq) ==
    IF irq >= IRQ_NUM THEN pic.slave_base + irq - IRQ_NUM ELSE pic.master_base + irq

\* the lines whose requests can reach the CPU: unmasked, and for a slave
\* line with the cascade line unmasked too
Unmasked(pic) ==
    {irq \in IRQ_LOW..IRQ_HIGH \ {SLAVE_IRQ_LINE} :
        IF irq >= IRQ_NUM
        THEN ~IsSet(pic.slave_mask, irq - IRQ_NUM) /\ ~IsSet(pic.master_mask, SLAVE_IRQ_LINE)
        ELSE ~IsSet(pic.master_mask, irq)}

PicTypeOK(pic) ==
    pic \in [master_mask : 0..255, slave_mask : 0..255,
             master_isr : 0..255, slave_isr : 0..255,
             master_base : 0..255, slave_base : 0..255]

=============================================================================
