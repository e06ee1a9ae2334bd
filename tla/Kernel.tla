------------------------------- MODULE Kernel -------------------------------
(***************************************************************************)
(* Process lifecycle, scheduler and address-space manager of the MP3      *)
(* kernel (student-distrib/syscall_handler.c, pit.c, terminal.c,          *)
(* paging.c).                                                              *)
(*                                                                         *)
(* Every system call and interrupt handler runs between cli() and the     *)
(* iret that ends it, so each is one atomic action here.  The timer tick   *)
(* (pit_int_handler + schedule) interleaves with them at any point where   *)
(* a user program runs.  Saved stack pointers are abstracted to the kind   *)
(* of frame they point into ("exec": inside syscall_execute, waiting for   *)
(* a child; "sched": inside schedule, preempted).  Video memory content    *)
(* is abstracted to the set of terminals whose output a page holds.        *)
(***************************************************************************)
EXTENDS Integers, Sequences, FiniteSets

CONSTANTS
    MAX_NUM_PROCESS,  \* size of pcb_bitmap (6 in syscall_handler.c)
    TERM_NUM,         \* number of terminals (3 in terminal.h)
    BootRace          \* may user programs run before every terminal has
                      \* been given its base shell by the scheduler?

ASSUME MAX_NUM_PROCESS \in Nat \ {0} /\ TERM_NUM \in Nat \ {0}
ASSUME BootRace \in BOOLEAN

Pids      == 0 .. MAX_NUM_PROCESS - 1
Terminals == 0 .. TERM_NUM - 1
NoPid     == -1            \* cur_pid / parent_pid / terminal pid "none"
VIDEO_PAGE == -1           \* the physical text-mode frame VIDEO (0xB8000);
                           \* t \in Terminals stands for t's vid_mem_buffer
Pages     == {VIDEO_PAGE} \cup Terminals
Statuses  == {0, 255}      \* exit statuses a program passes to halt

VARIABLES
    pcb_bitmap,     \* pcb_bitmap[pid] \in {0,1}
    cur_pid,        \* cur_pid (cur_pcb_ptr is always get_pcb_ptr(cur_pid))
    parent_pid,     \* PCB_t.parent_pid
    saved_ctx,      \* kind of frame PCB_t.esp/ebp point into
    pcb_esp0,       \* PCB_t.tss_esp0, as the pid whose kernel stack it tops
    tss_esp0,       \* tss.esp0, likewise
    pde_user,       \* page_dir_base[128/4].pg_addr (10-bit field)
    term_pid,       \* terminal_t.pid
    running_term,   \* running_term_ptr->tid
    viewing_term,   \* viewing_term_ptr->tid
    pcb_vidmap,     \* PCB_t.vidmap_flag
    term_vidmap,    \* terminal_t.vidmap_flag
    usr_pt,         \* usr_page_table_base[VIDEO>>12].pg_addr (kernel VIDEO)
    usrmap_present, \* usrmap_page_table_base[VIDEO>>12].present
    usrmap_pt,      \* usrmap_page_table_base[VIDEO>>12].pg_addr
    vidmem,         \* terminals whose output each page holds
    exec_ret,       \* what the last finished execute returned, and why
    wild            \* the kernel resumed a context that does not exist

vars == << pcb_bitmap, cur_pid, parent_pid, saved_ctx, pcb_esp0, tss_esp0,
           pde_user, term_pid, running_term, viewing_term, pcb_vidmap,
           term_vidmap, usr_pt, usrmap_present, usrmap_pt, vidmem,
           exec_ret, wild >>

-----------------------------------------------------------------------------
(* Helpers translated from the source.                                     *)

\* the page a terminal's video writes land in: change_vidmem_mapping sets
\* temp_flag = (tid != viewing) and switch_fish_paging picks the frame
FishPageFor(tid, viewing) == IF tid = viewing THEN VIDEO_PAGE ELSE tid
FishPage(tid) == FishPageFor(tid, viewing_term)

\* terminal_init links term_arr[0] -> [1] -> [2] -> [0]; the mutant links
\* the last terminal back to the second
next_term_skipping_first(t) == IF t = TERM_NUM - 1 THEN 1 % TERM_NUM ELSE t + 1
next_term_to_run(t) == (t + 1) % TERM_NUM

\* change_vidmem_mapping(tid) for the current viewing terminal: the kernel's
\* VIDEO page and the vidmap page go to tid's page, present iff tid asked.
\* The mutant remaps for the terminal that is running, not for tid.
change_vidmem_mapping_current(tid) ==
    /\ usr_pt' = FishPage(running_term)
    /\ usrmap_pt' = FishPage(running_term)
    /\ usrmap_present' = term_vidmap[running_term]
\* mutant: switch_fish_paging leaves the vidmap page's present bit alone
change_vidmem_mapping_keeps_present(tid) ==
    /\ usr_pt' = FishPage(tid)
    /\ usrmap_pt' = FishPage(tid)
    /\ UNCHANGED usrmap_present
change_vidmem_mapping(tid) ==
    /\ usr_pt' = FishPage(tid)
    /\ usrmap_pt' = FishPage(tid)
    /\ usrmap_present' = term_vidmap[tid]

\* the mutant scans one slot past the end of pcb_bitmap
record_process_past_end ==
    IF \E p \in Pids : pcb_bitmap[p] = 0
    THEN CHOOSE p \in Pids : pcb_bitmap[p] = 0 /\
                             \A q \in Pids : q < p => pcb_bitmap[q] = 1
    ELSE MAX_NUM_PROCESS

\* record_process: the lowest clear bit, or -1
record_process ==
    IF \E p \in Pids : pcb_bitmap[p] = 0
    THEN CHOOSE p \in Pids : pcb_bitmap[p] = 0 /\
                             \A q \in Pids : q < p => pcb_bitmap[q] = 1
    ELSE NoPid

\* setup_paging_and_flush_tlb: physical_addr = pid + 2 in a 10-bit field
PdeFor(pid) == (pid + 2) % 1024

\* the pid whose context a terminal resumes: the running terminal's is the
\* live cur_pid, the others are what schedule() stored in terminal_t.pid
Leaf(t) == IF t = running_term THEN cur_pid ELSE term_pid[t]

\* the processes of a terminal, root first, following parent_pid
RECURSIVE ChainFrom(_, _)
ChainFrom(p, fuel) ==
    IF p = NoPid \/ fuel = 0 THEN << >>
    ELSE Append(ChainFrom(parent_pid[p], fuel - 1), p)
Chain(t) == ChainFrom(Leaf(t), MAX_NUM_PROCESS)
ChainSet(t) == { Chain(t)[i] : i \in 1 .. Len(Chain(t)) }
Live == UNION { ChainSet(t) : t \in Terminals }

HasShell(t) == Leaf(t) /= NoPid

\* user programs run: a process is current and the kernel is sane
UserRuns == cur_pid /= NoPid /\ ~wild
                  /\ (BootRace \/ \A t \in Terminals : HasShell(t))

-----------------------------------------------------------------------------
Init ==
    /\ pcb_bitmap = [p \in Pids |-> 0]
    /\ cur_pid = NoPid
    /\ parent_pid = [p \in Pids |-> NoPid]
    /\ saved_ctx = [p \in Pids |-> "none"]
    /\ pcb_esp0 = [p \in Pids |-> NoPid]
    /\ tss_esp0 = NoPid
    /\ pde_user = 0
    /\ term_pid = [t \in Terminals |-> NoPid]          \* terminal_init
    /\ running_term = 0
    /\ viewing_term = 0
    /\ pcb_vidmap = [p \in Pids |-> 0]
    /\ term_vidmap = [t \in Terminals |-> 0]
    /\ usr_pt = VIDEO_PAGE                             \* init_user_page_table
    /\ usrmap_present = 1
    /\ usrmap_pt = VIDEO_PAGE
    /\ vidmem = [g \in Pages |-> {}]
    /\ exec_ret = [value |-> 0, cause |-> "none"]
    /\ wild = FALSE

-----------------------------------------------------------------------------
(* The part of syscall_execute after record_process gave it `new`:        *)
(* setup_paging_and_flush_tlb, PCB initialisation, saving the caller's     *)
(* esp/ebp into `ctx` (done by the caller of this operator), cur_pid and   *)
(* tss.esp0.  Arguments and the file table are abstracted.                 *)
\* mutant: tss.esp0 is not switched to the new PCB's kernel stack
StartProcess_keeps_tss(new, parent, ctx, esp0) ==
    /\ pde_user' = PdeFor(new)
    /\ parent_pid' = [parent_pid EXCEPT ![new] = parent]
    /\ pcb_vidmap' = [pcb_vidmap EXCEPT ![new] = 0]
    /\ pcb_esp0' = [esp0 EXCEPT ![new] = new]
    /\ saved_ctx' = [ctx EXCEPT ![new] = "none"]
    /\ cur_pid' = new
    /\ UNCHANGED tss_esp0

StartProcess(new, parent, ctx, esp0) ==
    /\ pde_user' = PdeFor(new)
    /\ parent_pid' = [parent_pid EXCEPT ![new] = parent]
    /\ pcb_vidmap' = [pcb_vidmap EXCEPT ![new] = 0]
    /\ pcb_esp0' = [esp0 EXCEPT ![new] = new]
    /\ saved_ctx' = [ctx EXCEPT ![new] = "none"]
    /\ cur_pid' = new
    /\ tss_esp0' = new

\* the image fails parse_args, read_dentry_by_name or the ELF check
ExecuteRejected ==
    /\ UserRuns
    /\ exec_ret' = [value |-> -1, cause |-> "rejected"]
    /\ UNCHANGED << pcb_bitmap, cur_pid, parent_pid, saved_ctx, pcb_esp0,
                    tss_esp0, pde_user, term_pid, running_term, viewing_term,
                    pcb_vidmap, term_vidmap, usr_pt, usrmap_present,
                    usrmap_pt, vidmem, wild >>

\* record_process finds no free bit: "Reach maximal number of programs!"
ExecuteExhausted ==
    /\ UserRuns
    /\ record_process = NoPid
    /\ exec_ret' = [value |-> 0, cause |-> "exhausted"]
    /\ UNCHANGED << pcb_bitmap, cur_pid, parent_pid, saved_ctx, pcb_esp0,
                    tss_esp0, pde_user, term_pid, running_term, viewing_term,
                    pcb_vidmap, term_vidmap, usr_pt, usrmap_present,
                    usrmap_pt, vidmem, wild >>

\* mutant: the caller's esp/ebp are not saved before switching
Execute_no_save ==
    /\ UserRuns
    /\ record_process /= NoPid
    /\ pcb_bitmap' = [pcb_bitmap EXCEPT ![record_process] = 1]
    /\ StartProcess(record_process, cur_pid, saved_ctx, pcb_esp0)
    /\ UNCHANGED << term_pid, running_term, viewing_term, term_vidmap,
                    usr_pt, usrmap_present, usrmap_pt, vidmem, exec_ret,
                    wild >>

Execute ==
    /\ UserRuns
    /\ record_process /= NoPid
    /\ pcb_bitmap' = [pcb_bitmap EXCEPT ![record_process] = 1]
    /\ StartProcess(record_process, cur_pid,
                    [saved_ctx EXCEPT ![cur_pid] = "exec"], pcb_esp0)
    /\ UNCHANGED << term_pid, running_term, viewing_term, term_vidmap,
                    usr_pt, usrmap_present, usrmap_pt, vidmem, exec_ret,
                    wild >>

(* syscall_halt(status); exceptions call syscall_halt(0xFF).               *)
\* decord_process: clear the pid's bit (its -1 return for a clear bit
\* cannot happen for the running pid)
decord_process(bitmap, pid) == [bitmap EXCEPT ![pid] = 0]

\* mutant: decord_process is skipped, the base shell's pid leaks
HaltRoot_no_decord ==
    /\ UserRuns
    /\ parent_pid[cur_pid] = NoPid
    /\ LET new == record_process IN
       /\ new /= NoPid
       /\ pcb_bitmap' = [pcb_bitmap EXCEPT ![new] = 1]
       /\ StartProcess(new, NoPid, saved_ctx, pcb_esp0)
    /\ UNCHANGED << term_pid, running_term, viewing_term, term_vidmap,
                    usr_pt, usrmap_present, usrmap_pt, vidmem, exec_ret,
                    wild >>

\* mutant: the base shell is not relaunched, the terminal is left idle
HaltRoot_no_relaunch ==
    /\ UserRuns
    /\ parent_pid[cur_pid] = NoPid
    /\ pcb_bitmap' = decord_process(pcb_bitmap, cur_pid)
    /\ cur_pid' = NoPid
    /\ UNCHANGED << parent_pid, saved_ctx, pcb_esp0, tss_esp0, pde_user,
                    term_pid, running_term, viewing_term, pcb_vidmap,
                    term_vidmap, usr_pt, usrmap_present, usrmap_pt, vidmem,
                    exec_ret, wild >>

\* a base shell (parent_pid == -1): its pid is freed and a fresh "shell"
\* is executed with cur_pid = -1; its file table and vidmap are left as is
HaltRoot ==
    /\ UserRuns
    /\ parent_pid[cur_pid] = NoPid
    /\ LET freed == decord_process(pcb_bitmap, cur_pid)
           new   == CHOOSE p \in Pids : freed[p] = 0 /\
                        \A q \in Pids : q < p => freed[q] = 1
       IN /\ pcb_bitmap' = [freed EXCEPT ![new] = 1]
          /\ StartProcess(new, NoPid, saved_ctx, pcb_esp0)
    /\ UNCHANGED << term_pid, running_term, viewing_term, term_vidmap,
                    usr_pt, usrmap_present, usrmap_pt, vidmem, exec_ret,
                    wild >>

\* mutant: cur_pcb_ptr = parent_pcb_ptr before cur_pid =
\* cur_pcb_ptr->parent_pid, so cur_pid becomes the grandparent
HaltChild_swapped(status, cause) ==
    /\ UserRuns
    /\ parent_pid[cur_pid] /= NoPid
    /\ LET parent == parent_pid[cur_pid] IN
       /\ pcb_bitmap' = decord_process(pcb_bitmap, cur_pid)
       /\ tss_esp0' = pcb_esp0[parent]
       /\ pde_user' = PdeFor(parent)
       /\ IF pcb_vidmap[cur_pid] = 1
          THEN /\ pcb_vidmap' = [pcb_vidmap EXCEPT ![cur_pid] = 0]
               /\ term_vidmap' = [term_vidmap EXCEPT ![running_term] = 0]
               /\ usrmap_present' = 0
               /\ usrmap_pt' = FishPage(running_term)
          ELSE UNCHANGED << pcb_vidmap, term_vidmap, usrmap_present,
                            usrmap_pt >>
       /\ cur_pid' = parent_pid[parent]
       /\ saved_ctx' = [saved_ctx EXCEPT ![parent] = "none"]
       /\ exec_ret' = [value |-> IF status = 255 THEN 256 ELSE status,
                       cause |-> cause]
    /\ UNCHANGED << parent_pid, pcb_esp0, term_pid, running_term,
                    viewing_term, usr_pt, vidmem, wild >>

\* a child: restore the parent's TSS and paging, drop the vidmap mapping,
\* and return into the parent's syscall_execute with the status
HaltChild(status, cause) ==
    /\ UserRuns
    /\ parent_pid[cur_pid] /= NoPid
    /\ LET parent == parent_pid[cur_pid] IN
       /\ pcb_bitmap' = decord_process(pcb_bitmap, cur_pid)
       /\ tss_esp0' = pcb_esp0[parent]
       /\ pde_user' = PdeFor(parent)
       /\ IF pcb_vidmap[cur_pid] = 1
          THEN /\ pcb_vidmap' = [pcb_vidmap EXCEPT ![cur_pid] = 0]
               /\ term_vidmap' = [term_vidmap EXCEPT ![running_term] = 0]
               /\ usrmap_present' = 0
               /\ usrmap_pt' = FishPage(running_term)
          ELSE UNCHANGED << pcb_vidmap, term_vidmap, usrmap_present,
                            usrmap_pt >>
       /\ cur_pid' = parent
       /\ saved_ctx' = [saved_ctx EXCEPT ![parent] = "none"]
       /\ exec_ret' = [value |-> IF status = 255 THEN 256 ELSE status,
                       cause |-> cause]
    /\ UNCHANGED << parent_pid, pcb_esp0, term_pid, running_term,
                    viewing_term, usr_pt, vidmem, wild >>

Halt ==
    \/ HaltRoot
    \/ \E status \in Statuses : HaltChild(status, "exit")

\* EXCP_* handlers: syscall_halt(0xFF)
Exception ==
    \/ HaltRoot
    \/ HaltChild(255, "fault")

(* syscall_vidmap(screen_start); `valid` is whether the pointer is in the  *)
(* user window (an invalid one returns -1 and changes nothing).            *)
Vidmap ==
    /\ UserRuns
    /\ usrmap_pt' = FishPage(running_term)
    /\ usrmap_present' = 1
    /\ pcb_vidmap' = [pcb_vidmap EXCEPT ![cur_pid] = 1]
    /\ term_vidmap' = [term_vidmap EXCEPT ![running_term] = 1]
    /\ UNCHANGED << pcb_bitmap, cur_pid, parent_pid, saved_ctx, pcb_esp0,
                    tss_esp0, pde_user, term_pid, running_term, viewing_term,
                    usr_pt, vidmem, exec_ret, wild >>

(* syscall_write to stdout: terminal_write -> nb_putc at virtual VIDEO,    *)
(* which usr_page_table_base routes to usr_pt.                             *)
TerminalWrite ==
    /\ UserRuns
    /\ vidmem' = [vidmem EXCEPT ![usr_pt] = @ \cup {running_term}]
    /\ UNCHANGED << pcb_bitmap, cur_pid, parent_pid, saved_ctx, pcb_esp0,
                    tss_esp0, pde_user, term_pid, running_term, viewing_term,
                    pcb_vidmap, term_vidmap, usr_pt, usrmap_present,
                    usrmap_pt, exec_ret, wild >>

(* A user program storing through the pointer vidmap gave it (FISH_MAP);   *)
(* it faults, and is halted, if the page is not present.                   *)
UserVideoWrite ==
    /\ UserRuns
    /\ usrmap_present = 1
    /\ vidmem' = [vidmem EXCEPT ![usrmap_pt] = @ \cup {running_term}]
    /\ UNCHANGED << pcb_bitmap, cur_pid, parent_pid, saved_ctx, pcb_esp0,
                    tss_esp0, pde_user, term_pid, running_term, viewing_term,
                    pcb_vidmap, term_vidmap, usr_pt, usrmap_present,
                    usrmap_pt, exec_ret, wild >>

\* mutant: the handler echoes without first remapping for the viewing terminal
KeyEcho_unmapped ==
    /\ ~wild
    /\ vidmem' = [vidmem EXCEPT ![usr_pt] = @ \cup {viewing_term}]
    /\ change_vidmem_mapping(running_term)
    /\ UNCHANGED << pcb_bitmap, cur_pid, parent_pid, saved_ctx, pcb_esp0,
                    tss_esp0, pde_user, term_pid, running_term, viewing_term,
                    pcb_vidmap, term_vidmap, exec_ret, wild >>

(* keyboard_int_handler echoing a key or a backspace: it remaps virtual    *)
(* VIDEO for the viewing terminal, nb_putc's there, and remaps for the     *)
(* running terminal, whichever process the interrupt preempted.           *)
KeyEcho ==
    /\ ~wild
    /\ vidmem' = [vidmem EXCEPT ![FishPage(viewing_term)] = @ \cup {viewing_term}]
    /\ change_vidmem_mapping(running_term)
    /\ UNCHANGED << pcb_bitmap, cur_pid, parent_pid, saved_ctx, pcb_esp0,
                    tss_esp0, pde_user, term_pid, running_term, viewing_term,
                    pcb_vidmap, term_vidmap, exec_ret, wild >>

(* pit_int_handler: change_vidmem_mapping(next) then schedule().         *)
(* schedule stores cur_pid in the running terminal, saves the current     *)
(* context, moves to next_term_to_run and resumes its pid, or launches a  *)
(* base shell there when it has none.  When that launch finds no free pid *)
(* syscall_execute returns 0 and schedule carries on with pid -1:         *)
(* setup_paging_and_flush_tlb(-1) and a stack loaded from get_pcb_ptr(-1).*)
Tick ==
    /\ ~wild
    /\ LET next == next_term_to_run(running_term)
           nxt  == term_pid[next]
           ctx  == IF cur_pid /= NoPid
                   THEN [saved_ctx EXCEPT ![cur_pid] = "sched"] ELSE saved_ctx
           esp0 == IF cur_pid /= NoPid
                   THEN [pcb_esp0 EXCEPT ![cur_pid] = tss_esp0] ELSE pcb_esp0
           new  == record_process
       IN /\ change_vidmem_mapping(next)
          /\ term_pid' = [term_pid EXCEPT ![running_term] = cur_pid]
          /\ running_term' = next
          /\ CASE nxt /= NoPid ->
                    /\ cur_pid' = nxt
                    /\ pde_user' = PdeFor(nxt)
                    /\ tss_esp0' = esp0[nxt]
                    /\ saved_ctx' = [ctx EXCEPT ![nxt] = "none"]
                    /\ pcb_esp0' = esp0
                    /\ UNCHANGED << pcb_bitmap, parent_pid, pcb_vidmap, wild >>
               [] nxt = NoPid /\ new /= NoPid ->
                    \* launch_base_shell: syscall_execute with cur_pid = -1
                    /\ pcb_bitmap' = [pcb_bitmap EXCEPT ![new] = 1]
                    /\ StartProcess(new, NoPid, ctx, esp0)
                    /\ UNCHANGED wild
               [] OTHER ->
                    /\ cur_pid' = NoPid
                    /\ pde_user' = PdeFor(NoPid)
                    /\ saved_ctx' = ctx
                    /\ pcb_esp0' = esp0
                    /\ wild' = TRUE
                    /\ UNCHANGED << pcb_bitmap, parent_pid, pcb_vidmap,
                                    tss_esp0 >>
    /\ UNCHANGED << viewing_term, term_vidmap, vidmem, exec_ret >>

(* switch_terminal(target) from the keyboard handler (Alt+F1..F3):        *)
(* change_vidmem_mapping(viewing) routes virtual VIDEO to the screen,     *)
(* the screen is saved to the old terminal's buffer and the target's      *)
(* buffer copied onto it, then the mapping is redone for the running      *)
(* terminal.  The keyboard-buffer part is in the Keyboard module.         *)
SwitchTerminal(target) ==
    /\ ~wild
    /\ target /= viewing_term
    /\ LET screen == FishPage(viewing_term)   \* where virtual VIDEO goes now
           saved  == [vidmem EXCEPT ![viewing_term] = vidmem[screen]]
       IN vidmem' = [saved EXCEPT ![screen] = saved[target]]
    /\ viewing_term' = target
    /\ usr_pt' = FishPageFor(running_term, target)
    /\ usrmap_pt' = FishPageFor(running_term, target)
    /\ usrmap_present' = term_vidmap[running_term]
    /\ UNCHANGED << pcb_bitmap, cur_pid, parent_pid, saved_ctx, pcb_esp0,
                    tss_esp0, pde_user, term_pid, running_term, pcb_vidmap,
                    term_vidmap, exec_ret, wild >>

-----------------------------------------------------------------------------
Next ==
    \/ ExecuteRejected
    \/ ExecuteExhausted
    \/ Execute
    \/ Halt
    \/ Exception
    \/ Vidmap
    \/ TerminalWrite
    \/ UserVideoWrite
    \/ KeyEcho
    \/ Tick
    \/ \E t \in Terminals : SwitchTerminal(t)

\* the PIT fires at 100 Hz and every other handler is short and atomic, so
\* a tick is never postponed forever; user programs and keys are not fair
Fairness == WF_vars(Tick)

Spec == Init /\ [][Next]_vars /\ Fairness

-----------------------------------------------------------------------------
(* Properties.                                                             *)

TypeOK ==
    /\ pcb_bitmap \in [Pids -> {0, 1}]
    /\ cur_pid \in Pids \cup {NoPid}
    /\ parent_pid \in [Pids -> Pids \cup {NoPid}]
    /\ saved_ctx \in [Pids -> {"none", "exec", "sched"}]
    /\ pcb_esp0 \in [Pids -> Pids \cup {NoPid}]
    /\ tss_esp0 \in Pids \cup {NoPid}
    /\ pde_user \in 0 .. 1023
    /\ term_pid \in [Terminals -> Pids \cup {NoPid}]
    /\ running_term \in Terminals /\ viewing_term \in Terminals
    /\ pcb_vidmap \in [Pids -> {0, 1}] /\ term_vidmap \in [Terminals -> {0, 1}]
    /\ usr_pt \in Pages /\ usrmap_pt \in Pages /\ usrmap_present \in {0, 1}
    /\ vidmem \in [Pages -> SUBSET Terminals]
    /\ exec_ret \in [value : {-1, 0, 256} \cup Statuses,
                     cause : {"none", "rejected", "exhausted", "exit", "fault"}]
    /\ wild \in BOOLEAN

(* pcb_bitmap, which record_process/decord_process keep, marks exactly the *)
(* processes reachable from some terminal's current process through       *)
(* parent_pid, and no process belongs to two terminals: the root-halt     *)
(* relaunch, the scheduler's base-shell launch and halt never leak or     *)
(* double-book a pid.                                                      *)
PidsMatchProcesses ==
    ~wild =>
      /\ \A p \in Pids : pcb_bitmap[p] = 1 <=> p \in Live
      /\ \A t, u \in Terminals : t /= u => ChainSet(t) \cap ChainSet(u) = {}

(* Whenever a process is current, the user window's directory entry maps   *)
(* its own 4 MiB frame and tss.esp0 tops its own kernel stack, and every  *)
(* live PCB's saved tss_esp0 is its own: execute, halt (back to the       *)
(* parent) and schedule each install the right address space.             *)
ContextInstalled ==
    /\ (cur_pid /= NoPid => pde_user = PdeFor(cur_pid) /\ tss_esp0 = cur_pid)
    /\ \A p \in Live : pcb_esp0[p] = p

(* Every suspended process can be resumed the way the kernel will resume  *)
(* it: a process with a live child waits inside syscall_execute (halt     *)
(* returns into that frame with leave/ret), and the current process of a  *)
(* terminal that is not running was preempted inside schedule (schedule   *)
(* returns into that frame).                                              *)
SuspendedContexts ==
    ~wild =>
      \A t \in Terminals :
        /\ \A i \in 1 .. Len(Chain(t)) - 1 : saved_ctx[Chain(t)[i]] = "exec"
        /\ (t /= running_term /\ HasShell(t)) =>
              saved_ctx[Leaf(t)] = "sched"

(* The screen shows only the viewing terminal's output and each backing   *)
(* page only its own terminal's: kernel writes to VIDEO, user writes      *)
(* through the vidmap page, the tick's remapping and switch_terminal's    *)
(* copy keep the terminals' output apart.                                 *)
ScreenIsolation ==
    /\ vidmem[VIDEO_PAGE] \subseteq {viewing_term}
    /\ \A t \in Terminals : vidmem[t] \subseteq {t}

(* The vidmap page is present for the running process only if its         *)
(* terminal asked for it (syscall_vidmap), so a program that never called *)
(* vidmap cannot write to video memory.                                   *)
VidmapOnlyIfRequested ==
    cur_pid /= NoPid /\ usrmap_present = 1 => term_vidmap[running_term] = 1

(* Once a terminal has a process it always has one: halting a base shell  *)
(* relaunches a shell in the same step.                                   *)
TerminalNeverEmpty ==
    [][\A t \in Terminals : HasShell(t) => HasShell(t)']_vars

(* Every terminal is resumed with a process in it again and again.        *)
EveryTerminalServed ==
    \A t \in Terminals : []<>(running_term = t /\ HasShell(t))

(* The scheduler never resumes a context that does not exist (pid -1).    *)
NoWildResume == ~wild

(* A process that called vidmap keeps its video page while it runs.       *)
VidmapKept ==
    UserRuns /\ pcb_vidmap[cur_pid] = 1 => usrmap_present = 1

-----------------------------------------------------------------------------
(* Refinement: the chains of parent_pid from each terminal's current      *)
(* process are the abstract sessions, and running_term the active one.    *)
Sessions == INSTANCE ProcessSessions
    WITH Pids <- Pids, TermCount <- TERM_NUM,
         session <- [t \in Terminals |-> Chain(t)], active <- running_term

(* Kernel implements the abstract lifecycle and round-robin scheduler.     *)
ImplementsSessions == Sessions!Spec

=============================================================================
