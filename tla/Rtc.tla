-------------------------------- MODULE Rtc --------------------------------
(***************************************************************************)
(* The RTC driver of rtc.c as the processes of several terminals use it:   *)
(* rtc_open and rtc_write program the rate bits of register A through      *)
(* set_frequency; rtc_read clears the global rtc_signal, spins until the   *)
(* interrupt handler sets it, and clears it again.                         *)
(*                                                                         *)
(* syscall_open and syscall_write enter through an interrupt gate and run  *)
(* with interrupts off, so each is one step.  syscall_read calls sti()     *)
(* first, so the three statements of rtc_read are separate steps between   *)
(* which the RTC interrupt and the PIT (which switches the running          *)
(* terminal) may come.  A reader runs only while its terminal is the       *)
(* running one.  The RTC and PIT interrupts pass through the 8259 PICs     *)
(* (module I8259): boot runs i8259_init, then rtc_init and pit_init unmask *)
(* their lines, and each handler's send_eoi must clear what the CPU's      *)
(* acknowledge set, or its line stays blocked.  Boot also fills the IDT   *)
(* (idt_init, module Idt) that routes the PICs' vectors to the handlers,  *)
(* and turns paging on (paging_init, module Paging).  kernel.c is not in   *)
(* the repository: boot is taken to run i8259_init before the three       *)
(* device inits, idt_init and paging_init in any order, and to enable      *)
(* interrupts and start the shells when all six are done.  The keyboard    *)
(* handler's effects are module Keyboard's; here it would acknowledge and  *)
(* EOI IRQ1 within one step, which leaves the PICs as they were, so it is  *)
(* left out.                                                               *)
(***************************************************************************)
EXTENDS Integers, I8259, Idt, Paging

CONSTANTS
    TERM_NUM,       \* 3 terminals, each with one active process
    Users,          \* the terminals whose process has the RTC open
    Frequencies     \* the int32_t values programs pass to rtc_write

ASSUME Users \subseteq 0..TERM_NUM-1

Terminals == 0..TERM_NUM-1
LOW_FREQUENCY == 2
HIGH_FREQUENCY == 1024
RTC_IRQ == 8
PIT_IRQ == 0
KEYBOARD_IRQ == 1

VARIABLES
    rtc_signal,     \* the global flag of rtc.c
    running_term,   \* whose process the PIT has scheduled
    rtc_pc,         \* user -> "idle", "spin" (line 71) or "ack" (line 72)
    reg_a,          \* RTC status register A: divider bits 6:4, rate bits 3:0
    requested,      \* ghost: the frequency of the last successful set_frequency
    seen,           \* ghost: an RTC interrupt came while the user was spinning
    pic,            \* the registers of the two 8259s
    idt,            \* the interrupt descriptor table
    page_dir,       \* page_dir_base
    page_tables,    \* usr_page_table_base and usrmap_page_table_base
    inits           \* the boot-time init routines that have run

boot_vars == <<idt, page_dir, page_tables>>
vars == <<rtc_signal, running_term, rtc_pc, reg_a, requested, seen, pic, boot_vars, inits>>
pic_vars == <<pic, boot_vars, inits>>

Booted == inits = {"pic", "rtc", "pit", "kbd", "idt", "paging"}

\* the rate the MC146818 runs at for register A: 32768 Hz >> (rate - 1),
\* when the divider bits select the 32.768 kHz time base (010)
HwFrequency(a) ==
    LET rate == a % 16 IN
    CASE (a & 112) # 32 \/ rate = 0 -> 0
      [] rate <= 2                  -> 2^(9 - rate)
      [] OTHER                      -> 2^(16 - rate)

Init ==
    /\ rtc_signal = 0
    /\ running_term \in Terminals
    /\ rtc_pc = [t \in Users |-> "idle"]
    /\ reg_a = 38                   \* 0x26, as the BIOS leaves it; rtc_init keeps it
    /\ requested = 1024
    /\ seen = [t \in Users |-> FALSE]
    /\ pic = PicPowerOn
    /\ idt = [n \in 0 .. NUM_VEC - 1 |-> Absent]
    /\ page_dir = EmptyDir
    /\ page_tables = [t \in Tables |-> EmptyTable]
    /\ inits = {}

\* i8259_init
PicInit ==
    /\ "pic" \notin inits
    /\ pic' = i8259_init(pic)
    /\ inits' = inits \cup {"pic"}
    /\ UNCHANGED <<rtc_signal, running_term, rtc_pc, reg_a, requested, seen, boot_vars>>

\* rtc_init: rtc_signal = 0, periodic interrupts on (register B bit 6),
\* enable_irq(RTC_IRQ), enable_irq(SLAVE_IRQ_LINE)
RtcInit ==
    /\ "pic" \in inits /\ "rtc" \notin inits
    /\ rtc_signal' = 0
    /\ pic' = enable_irq(enable_irq(pic, RTC_IRQ), SLAVE_IRQ_LINE)
    /\ inits' = inits \cup {"rtc"}
    /\ UNCHANGED <<running_term, rtc_pc, reg_a, requested, seen, boot_vars>>

\* pit_init: channel 0 programmed, enable_irq(PIT_IRQ)
PitInit ==
    /\ "pic" \in inits /\ "pit" \notin inits
    /\ pic' = enable_irq(pic, PIT_IRQ)
    /\ inits' = inits \cup {"pit"}
    /\ UNCHANGED <<rtc_signal, running_term, rtc_pc, reg_a, requested, seen, boot_vars>>

\* keyboard_init: the modifier flags (module Keyboard's) cleared,
\* enable_irq(KEYBOARD_IRQ)
KbdInit ==
    /\ "pic" \in inits /\ "kbd" \notin inits
    /\ pic' = enable_irq(pic, KEYBOARD_IRQ)
    /\ inits' = inits \cup {"kbd"}
    /\ UNCHANGED <<rtc_signal, running_term, rtc_pc, reg_a, requested, seen, boot_vars>>

\* idt_init, ending in lidt
IdtInit ==
    /\ "idt" \notin inits
    /\ idt' = idt_init
    /\ inits' = inits \cup {"idt"}
    /\ UNCHANGED <<rtc_signal, running_term, rtc_pc, reg_a, requested, seen, pic,
                   page_dir, page_tables>>

\* paging_init: init_page_dir, init_user_page_table, then CR3, CR4.PSE and
\* CR0.PG (translation through the tables starts with this step)
PagingInit ==
    /\ "paging" \notin inits
    /\ page_dir' = init_page_dir
    /\ page_tables' = init_user_page_table
    /\ inits' = inits \cup {"paging"}
    /\ UNCHANGED <<rtc_signal, running_term, rtc_pc, reg_a, requested, seen, pic, idt>>

\* while (fre >>= 1) log_fre += 1;
RECURSIVE LogLoop(_)
LogLoop(fre) == IF fre \div 2 = 0 THEN 0 ELSE 1 + LogLoop(fre \div 2)

\* mutant: the rate is computed as 15 - log instead of 16 - log
Frame_off_by_one(fre) == 15 - LogLoop(fre)

\* frame = 16 - log_fre;
Frame(fre) == 16 - LogLoop(fre)

\* the bound and power-of-two check of set_frequency
ValidFrequency(fre) ==
    ~(fre < LOW_FREQUENCY \/ fre > HIGH_FREQUENCY \/ ((fre - 1) & fre) # 0)

(***************************************************************************)
(* set_frequency: on a valid frequency, read register A and write back its *)
(* upper four bits with the new rate bits; otherwise return -1.            *)
(***************************************************************************)
set_frequency(fre) ==
    IF ValidFrequency(fre)
    THEN /\ reg_a' = (reg_a & 240) | Frame(fre)
         /\ requested' = fre
    ELSE UNCHANGED <<reg_a, requested>>

Caller(t) == Booted /\ running_term = t /\ rtc_pc[t] = "idle"

\* rtc_open: set_frequency(LOW_FREQUENCY)
RtcOpen(t) ==
    /\ Caller(t)
    /\ set_frequency(LOW_FREQUENCY)
    /\ UNCHANGED <<rtc_signal, running_term, rtc_pc, seen, pic_vars>>

\* rtc_write with nbytes = 4 and a non-NULL buf
RtcWrite(t, fre) ==
    /\ Caller(t)
    /\ set_frequency(fre)
    /\ UNCHANGED <<rtc_signal, running_term, rtc_pc, seen, pic_vars>>

\* mutant: rtc_read does not clear rtc_signal on entry
RtcReadStart_no_clear(t) ==
    /\ Caller(t)
    /\ rtc_pc' = [rtc_pc EXCEPT ![t] = "spin"]
    /\ seen' = [seen EXCEPT ![t] = FALSE]
    /\ UNCHANGED <<rtc_signal, running_term, reg_a, requested, pic_vars>>

\* syscall_read into rtc_read: rtc_signal = 0
RtcReadStart(t) ==
    /\ Caller(t)
    /\ rtc_signal' = 0
    /\ rtc_pc' = [rtc_pc EXCEPT ![t] = "spin"]
    /\ seen' = [seen EXCEPT ![t] = FALSE]
    /\ UNCHANGED <<running_term, reg_a, requested, pic_vars>>

\* while (rtc_signal != 1); leaves the loop
RtcSpinExit(t) ==
    /\ running_term = t
    /\ rtc_pc[t] = "spin"
    /\ rtc_signal = 1
    /\ rtc_pc' = [rtc_pc EXCEPT ![t] = "ack"]
    /\ UNCHANGED <<rtc_signal, running_term, reg_a, requested, seen, pic_vars>>

\* rtc_signal = 0; return 0;
RtcAck(t) ==
    /\ running_term = t
    /\ rtc_pc[t] = "ack"
    /\ rtc_signal' = 0
    /\ rtc_pc' = [rtc_pc EXCEPT ![t] = "idle"]
    /\ UNCHANGED <<running_term, reg_a, requested, seen, pic_vars>>

\* mutant: rtc_signal is incremented like interrupt_time_count
RtcInterrupt_increment ==
    /\ Booted /\ Deliverable(pic, RTC_IRQ)
    /\ rtc_signal' = rtc_signal + 1
    /\ seen' = [t \in Users |-> seen[t] \/ rtc_pc[t] = "spin"]
    /\ pic' = send_eoi(Acknowledge(pic, RTC_IRQ), RTC_IRQ)
    /\ UNCHANGED <<running_term, rtc_pc, reg_a, requested, boot_vars, inits>>

\* rtc_int_handler: rtc_signal = 1 (interrupt_time_count is never read)
RtcInterrupt ==
    /\ Booted /\ Deliverable(pic, RTC_IRQ)
    /\ rtc_signal' = 1
    /\ seen' = [t \in Users |-> seen[t] \/ rtc_pc[t] = "spin"]
    /\ pic' = send_eoi(Acknowledge(pic, RTC_IRQ), RTC_IRQ)
    /\ UNCHANGED <<running_term, rtc_pc, reg_a, requested, boot_vars, inits>>

\* mutant: the round robin wraps to terminal 1 instead of 0
Tick_wrap_to_one ==
    /\ Booted /\ Deliverable(pic, PIT_IRQ)
    /\ running_term' = IF running_term = TERM_NUM - 1 THEN 1 ELSE running_term + 1
    /\ pic' = send_eoi(Acknowledge(pic, PIT_IRQ), PIT_IRQ)
    /\ UNCHANGED <<rtc_signal, rtc_pc, reg_a, requested, seen, boot_vars, inits>>

\* pit_int_handler: send_eoi, then switch to the next terminal
Tick ==
    /\ Booted /\ Deliverable(pic, PIT_IRQ)
    /\ running_term' = (running_term + 1) % TERM_NUM
    /\ pic' = send_eoi(Acknowledge(pic, PIT_IRQ), PIT_IRQ)
    /\ UNCHANGED <<rtc_signal, rtc_pc, reg_a, requested, seen, boot_vars, inits>>

RtcReaderStep(t) == RtcSpinExit(t) \/ RtcAck(t)

Next ==
    \/ \E t \in Users :
         \/ RtcOpen(t)
         \/ \E fre \in Frequencies : RtcWrite(t, fre)
         \/ RtcReadStart(t)
         \/ RtcReaderStep(t)
    \/ PicInit
    \/ RtcInit
    \/ PitInit
    \/ KbdInit
    \/ IdtInit
    \/ PagingInit
    \/ RtcInterrupt
    \/ Tick

(***************************************************************************)
(* Boot runs to the end, the RTC raises IRQ8 periodically and the PIT      *)
(* ticks periodically, each while its line gets through the PICs: weak     *)
(* fairness.  A reader can step only while its terminal is running, which  *)
(* the round-robin PIT makes true infinitely often: strong fairness.       *)
(***************************************************************************)
Fairness ==
    /\ WF_vars(PicInit \/ RtcInit \/ PitInit \/ KbdInit \/ IdtInit \/ PagingInit)
    /\ WF_vars(RtcInterrupt)
    /\ WF_vars(Tick)
    /\ \A t \in Users : SF_vars(RtcReaderStep(t))

Spec == Init /\ [][Next]_vars /\ Fairness

-----------------------------------------------------------------------------

TypeOK ==
    /\ rtc_signal \in {0, 1}
    /\ running_term \in Terminals
    /\ rtc_pc \in [Users -> {"idle", "spin", "ack"}]
    /\ reg_a \in 0..255
    /\ seen \in [Users -> BOOLEAN]
    /\ PicTypeOK(pic)
    /\ IdtTypeOK(idt)
    /\ PagingTypeOK(page_dir, page_tables)

(***************************************************************************)
(* rtc_read blocks until the next interrupt: a reader spinning at line 71  *)
(* that an interrupt has come for since it cleared rtc_signal finds the    *)
(* flag set, whatever the other terminals' readers did in between.         *)
(***************************************************************************)
NoLostInterrupt ==
    \A t \in Users : rtc_pc[t] = "spin" /\ seen[t] => rtc_signal = 1

(***************************************************************************)
(* rtc_read "blocks until the interrupt status is changed": a reader      *)
(* leaves the spin at line 71 only for an RTC interrupt that came after   *)
(* its own rtc_signal = 0 at line 70, never for one that came while it    *)
(* was idle, between its acknowledgement and its next read, or before     *)
(* boot finished.                                                          *)
(***************************************************************************)
RtcReadWaitsForInterrupt ==
    [][\A t \in Users : rtc_pc[t] = "spin" /\ rtc_pc'[t] = "ack" => seen[t]]_vars

(***************************************************************************)
(* The RTC runs at the frequency of the last rtc_open or accepted          *)
(* rtc_write: set_frequency's validity check, log loop and rate formula    *)
(* against the chip's rate table, with the divider bits left as they were. *)
(***************************************************************************)
RateAsRequested == HwFrequency(reg_a) = requested

(***************************************************************************)
(* Every rtc_read returns.                                                 *)
(***************************************************************************)
RtcReadReturns ==
    \A t \in Users : rtc_pc[t] = "spin" ~> rtc_pc[t] = "idle"

(***************************************************************************)
(* Once boot is done, every interrupt line that can reach the CPU through  *)
(* the PICs (the lines rtc_init, pit_init and keyboard_init unmasked)      *)
(* arrives, at the vector i8259_init's ICW2 gives it, at a present kernel  *)
(* interrupt gate of idt_init: the CPU clears IF before the handler runs,  *)
(* which is what lets every module take a handler as one step.             *)
(***************************************************************************)
IrqVectorsInstalled ==
    Booted =>
        \A irq \in Unmasked(pic) :
            LET v == Vector(pic, irq) IN
            ClearsIF(idt, v) /\ idt[v].seg = KERNEL_CS /\ idt[v].dpl = 0

(***************************************************************************)
(* A ring-3 program's int n reaches a handler only for n = 0x80, the      *)
(* system call gate, and that gate clears IF like the others: syscalls    *)
(* run with interrupts off until a handler calls sti.                     *)
(***************************************************************************)
UserGates ==
    Booted =>
        /\ \A n \in 0 .. NUM_VEC - 1 : Callable(idt, n, 3) <=> n = SYSCALL
        /\ ClearsIF(idt, SYSCALL)

\* physical 4 MB - 8 MB: the kernel image, its stacks and the PCBs
KernelPages == 1024 .. 2047

(***************************************************************************)
(* After paging_init the kernel's own addresses still mean what they did  *)
(* before: the kernel's 4 MB and the video pages translate to themselves, *)
(* so pointers into the PCBs and video memory work with paging on.        *)
(***************************************************************************)
KernelIdentity ==
    Booted =>
        \A v \in KernelPages \cup VideoPages : Translate(page_dir, page_tables, v) = v

(***************************************************************************)
(* spec.md: the user/supervisor bit is the memory protection the kernel   *)
(* sets up.  No page a ring-3 program may access maps the kernel's         *)
(* physical 4 MB - 8 MB.                                                   *)
(***************************************************************************)
UserCannotReachKernel ==
    Booted => ~UserReaches(page_dir, page_tables, 1024, 2047)

=============================================================================
