# TLA+ model of the MP3 teaching kernel

This directory holds TLA+ models of the x86 teaching kernel in `src/`. The
kernel's core is in `student-distrib/` and `mp3_group_10-master/`. The models
are checked with TLC. `PROJECT.json` lists the components, the runs, the
mutants, the source lines each definition models, the findings, and the
hazards.

## 1. Inventory

### Components and their state

| Component | Source | State | Operations |
|---|---|---|---|
| PID allocator | `syscall_handler.c` `record_process`, `decord_process` | `pcb_bitmap[6]` | allocate the lowest free bit; free |
| Process lifecycle | `syscall_handler.c` `syscall_execute`, `syscall_halt`; `exception_handler.c` | PCB per pid at `8M - (pid+1)*8K`: `parent_pid`, `esp`/`ebp`, `tss_esp0`, `vidmap_flag`, `args`, `pcb_fds[8]`; globals `cur_pid`, `cur_pcb_ptr`; `tss.esp0` | execute (reject / no pid / start), halt (base shell relaunch / return to parent), exception = `halt(0xFF)` |
| Scheduler | `syscall_handler.c` `schedule`, `launch_base_shell`; `pit.c` | `terminal_t.pid`, `running_term_ptr`, the `next_term_to_run` ring | 100 Hz tick: save the current context, rotate the ring, resume or launch a base shell |
| Address-space manager | `paging.c`, `setup_paging_and_flush_tlb`, `switch_usrmap`, `terminal.c` `change_vidmem_mapping`/`switch_fish_paging` | directory entry 32 (user 4 MiB window → frame `pid+2`); `usr_page_table_base[VIDEO]` (where the kernel's VIDEO writes land); `usrmap_page_table_base[VIDEO]` (the vidmap page, present bit) | install a pid; remap video for a terminal; vidmap on/off |
| Terminal sessions | `terminal.c` | `term_arr[3]`: `pid`, `kbd_buf`, `buf_pos`, `kbd_buf_ready`, cursor, `vid_mem_buffer`, `vidmap_flag`; `viewing_term_ptr` | `switch_terminal` (Alt+F1..F3), `terminal_write`, `terminal_read` |
| Keyboard | `keyboard.c` | modifier flags, global `kbd_buf` pointer and `buf_pos` (the viewing terminal's) | key interrupt: echo to the screen, append to the buffer, at Enter set the viewing terminal's ready flag; `read_from_kbd_buf_to_buf` spins on the running terminal's flag |
| File descriptors | `syscall_handler.c` `syscall_open/close/read/write`, `init_file_table`, `getargs`; `fs.c` `file_open`, `dir_open` | `pcb_fds[8]` (`op_ptr`, inode, `file_pos`, flags) | open a free slot 2..7, close, dispatch read/write |
| Filesystem | `fs.c` | read-only boot image | `read_dentry_by_name/index`, `read_data`, `file_read`, `dir_read` |
| RTC | `rtc.c` | global `rtc_signal`; register A (rate) | interrupt sets the signal; `rtc_read` clears it and waits for it; `rtc_open`/`rtc_write` set the rate through `set_frequency` |
| PIC / IDT | `i8259.c`, `idt.c`, `interrupt_handler.c` | mask and in-service registers of the two 8259s; the IDT | `i8259_init`, `enable_irq`, `send_eoi`; the IDT is filled once |
| Tux driver (MP2) | `mp2_*/module/tuxctl-ioctl.c` | `ACK`, `button_bits`, `val_led` | receive path: `MTCP_ACK`, `MTCP_RESET`, `MTCP_BIOC_EVENT`; ioctls `TUX_INIT`, `TUX_BUTTONS`, `TUX_SET_LED` |
| Maze game (MP2) | `machine_problem2/mazegame.c` | `next_dir`, `dir`, `move_cnt`, `play_x/y`, `tux_button_flag`, `button_bits`, `quit_flag`, `winner`; one mutex | `rtc_thread` (levels, frames, LEDs, button poll, movement), `keyboard_thread`, `tux_thread`, `main` |

### How they interact

A user program traps into a system call. Every handler runs with interrupts
masked (`cli`) until its `iret`, so each handler is one atomic step. The
exceptions are `syscall_read`, which calls `sti()` and can spin in the
keyboard or RTC read, and the `sti()` just before execute's `iret`.

The PIT interrupt calls `change_vidmem_mapping(next)` and then `schedule()`.
`schedule` moves the CPU to the next terminal. If that terminal has no process
yet, it calls `syscall_execute("shell")` with `cur_pid = -1`. Halting a base
shell also re-executes `"shell"` with `cur_pid = -1`.

Processes share three globals:
- `cur_pid`;
- the user-window directory entry;
- the two video page-table entries.

Terminals share `kbd_buf`/`buf_pos`, which always belong to the *viewing*
terminal. `kbd_buf_ready` is per terminal, and the reader checks the *running*
terminal's flag.

### What is hard

- A tick lands between any two system calls of any terminal.
- The saved context of every suspended process must be the kind of frame it
  will be resumed through. Halt resumes the parent inside `syscall_execute`;
  the scheduler resumes inside `schedule`.
- Pid exhaustion occurs at three call sites: execute, halt's relaunch, and the
  scheduler's launch.
- Video memory is routed through page tables that both the tick and terminal
  switches rewrite.
- The keyboard buffer is written by the interrupt for the viewing terminal and
  read by the process of the running terminal.

### What makes each component correct

- **PID allocator / lifecycle:** a pid's bit is set exactly when it is a live
  process on some terminal's parent chain. No pid is on two terminals.
- **Scheduler:** every terminal is served again and again. A terminal that has
  a shell never loses it. The address space and `tss.esp0` are those of
  `cur_pid`. Suspended contexts are resumable.
- **Address space and display:** the screen holds only the viewing terminal's
  output, and each backing page only its own terminal's. The vidmap page is
  present only for a terminal that asked for it, and stays present for a
  process that asked for it.
- **Keyboard:** the line being typed on a terminal survives terminal
  switches; a read stops at its newline and at nbytes, returns the line
  typed on its own terminal, and returns at all.
- **File descriptors / filesystem:** a slot reads back exactly its file's
  bytes, in order, whatever sizes the reads ask for; no read copies from
  outside a data block.
- **RTC / PIC:** a read returns after the next interrupt, and always
  returns; the chip runs at the rate last requested; every interrupt line
  that boot unmasks keeps reaching the CPU.

- **Maze game / tux driver:** the player stays in the maze's corridors
  whatever the threads do to `next_dir`; the tux thread steers to the held
  button mazegame tests last, also with several held; the LEDs show the level time, also after a
  controller reset; a won game ends.

The `hazards` list in `PROJECT.json` records each risk at its source line.

## 2. Modules

| Module | Models | Checked through |
|---|---|---|
| `Kernel` | PID allocator, execute/halt/exceptions, scheduler, user-window paging, `tss.esp0`, vidmap, the video half of `switch_terminal`, `terminal_write`, the keyboard echo | `MCKernel` |
| `ProcessSessions` | the abstract lifecycle and scheduler that `Kernel` refines | `Kernel`'s `ImplementsSessions` |
| `Keyboard` | `keyboard_int_handler`, the special keys, `read_from_kbd_buf_to_buf`, the buffer half of `switch_terminal`, the tick | `MCKeyboard` |
| `FileSystem` | `read_dentry_by_name`, `read_dentry_by_index`, `read_data` as pure operators over a boot image | `FileDescriptors` |
| `FileDescriptors` | one PCB's `pcb_fds`: `init_file_table`, open, close, read into `file_read`/`dir_read`, halt | `MCFileDescriptors` |
| `I8259` | the two PICs: `i8259_init`, `enable_irq`, `send_eoi` as operators on their registers | `Rtc` |
| `Idt` | `idt_init`'s 256-entry descriptor table as an operator, and the CPU's gate checks | `Rtc` |
| `Paging` | `init_page_dir` and `init_user_page_table` as operators, and the MMU's translation and user/supervisor check | `Rtc` |
| `Rtc` | boot (`i8259_init`, `rtc_init`, `pit_init`, `keyboard_init`, `idt_init`, `paging_init`), `rtc_open`, `rtc_write`/`set_frequency`, `rtc_read` in three steps, the RTC and PIT handlers | `MCRtc` |
| `TuxCtl` | the tux driver's receive path and ioctls, `tux_set_led`, and the controller and serial line as its environment | `MazeGame` |
| `MazeGame` | `mazegame.c`: `main`, `rtc_thread`, `keyboard_thread`, `tux_thread`, with `TuxCtl` | `MCMazeGame` |

## 3. What is modelled (Kernel)

| Kernel definition | Code |
|---|---|
| `pcb_bitmap`, `record_process` | `pcb_bitmap`, `record_process` (lowest clear bit or -1) |
| `cur_pid` | `cur_pid`; `cur_pcb_ptr` always equals `get_pcb_ptr(cur_pid)` between handlers |
| `parent_pid`, `pcb_esp0`, `pcb_vidmap` | PCB fields |
| `saved_ctx[p]` | PCB `esp`/`ebp`, abstracted to the kind of frame they point into: `"exec"` (inside `syscall_execute`, waiting for a child), `"sched"` (inside `schedule`, preempted), `"none"` |
| `tss_esp0` | `tss.esp0`, as the pid whose kernel stack it tops |
| `pde_user` | `page_dir_base[32].pg_addr = pid + 2`, a 10-bit field (so pid -1 gives frame 1) |
| `term_pid`, `running_term`, `viewing_term`, `term_vidmap` | `terminal_t` fields and the two terminal pointers |
| `usr_pt`, `usrmap_pt`, `usrmap_present` | the VIDEO entries of `usr_page_table_base` and `usrmap_page_table_base` |
| `vidmem[page]` | ghost: the set of terminals whose output a page (the screen or a backing buffer) holds |
| `exec_ret` | ghost: the value execute last returned to its caller, with its cause |
| `wild` | the scheduler resumed pid -1 (undefined behaviour; all actions stop) |

Actions:
- `ExecuteRejected`, `ExecuteExhausted`, and `Execute` (through
  `StartProcess`);
- `HaltRoot` and `HaltChild(status, cause)`, inside `Halt` and `Exception`;
- `Vidmap`, `TerminalWrite`, `UserVideoWrite` (a store through the vidmap
  pointer);
- `Tick` (the PIT handler plus `schedule` plus `launch_base_shell`);
- `SwitchTerminal(t)`;
- `KeyEcho`, the keyboard handler's echo of a key to the viewing terminal
  (`change_vidmem_mapping(viewing)`, `putc`, `change_vidmem_mapping(running)`).

The user programs are the environment. Whenever a process is current, it may
make any of these calls.

**Fairness.** `WF_vars(Tick)`. The PIT fires at 100 Hz, and every handler is
short and runs with interrupts masked, so a tick cannot be postponed forever.
User programs and keystrokes get no fairness.

**Environment assumption `BootRace`.** When `BootRace = FALSE`, user programs
act only after the scheduler has given every terminal its base shell. That
takes three ticks (30 ms) after boot. The pass run uses this assumption, and
the `boot_race` run drops it.

## 3a. Keyboard

`Keyboard` keeps, per terminal, the line buffer `kbd_buf[t]` (a function
from indices to bytes), the saved cursor `term_buf_pos[t]` and
`kbd_buf_ready[t]`. The global `buf_pos` is the viewing terminal's cursor;
`CursorOf(t)` picks the live one. `reader[t]` is the `read` in progress on
terminal t: its pc (`wait`, `copy`, `clear`), nbytes, the loop index and the
bytes copied. Ghosts: `typed[t]` (the line being typed), `line[t]` (the last
completed line), `expect[t]` (the line when t's reader saw its flag).

| Action | Code |
|---|---|
| `KeyPress(c)` | `keyboard_int_handler` for a printable key or Enter: store at `buf_pos` while `buf_pos <= KBD_BUF_SIZE - 2`, or Enter in the last slot; Enter resets `buf_pos` and sets the viewing terminal's ready flag |
| `CtrlL`, `Backspace`, `SetCtrl`, `SetAlt`, `AltFunctionKey` | the cases of `check_and_handle_special_button` |
| `switch_terminal_buffers` | the buffer half of `switch_terminal` (save `buf_pos`, point `kbd_buf` at the target's) |
| `Tick` | the PIT moving the running terminal |
| `ReadStart`, `ReadWake`, `ReadByte`, `ReadClear` | `terminal_read`'s `nbytes <= 0` check, then `read_from_kbd_buf_to_buf`: wait for the running terminal's flag, one loop iteration per step copying from the global `kbd_buf`, then clear the running terminal's flag |

Shift and caps lock only choose which character a key produces; keys are
drawn from `Keys`, so those flags are not state. The screen side of a key
(its echo) is `Kernel!KeyEcho`.

**Fairness.** `WF_vars(Tick)`; `SF_vars(ReaderStep(t))` for each reader,
because a reader can step only while its terminal is running, which the
round-robin PIT makes true again and again but not continuously.

**Environment assumption `TypeAhead`.** When FALSE, the user does not type
on the viewing terminal while its completed line is still unread. The
`keyboard` and `keyboard_cross` runs make this assumption; the
`keyboard_type_ahead` run drops it.

## 3b. Filesystem and file descriptors

`FileSystem` holds no state: the boot image is given by constants
(`Dentries`, `InodeLen`, `InodeBlocks`, `DataBlocks`), bytes are model
values, and `read_data(inode, offset, length)` returns the value the C
function returns together with the sequence of its `memcpy` calls as
`[blk, from, count]`. Unsigned arithmetic is kept modulo `2^UINT_BITS` (`U`),
and the returned `end - offset` is read back as an `int32_t` (`S`).
`FileContent(inode)` is the reference: the file's blocks in order, cut at
its length. `Copied` applies the memcpy calls; `SegsInBounds` says each
stays within its block.

`FileDescriptors` keeps one PCB's `pcb_fds` (`op_ptr`, inode, `file_pos`,
flags) and ghosts: `got[fd]`, everything reads on a slot returned since it
was opened; `overrun`, a memcpy ran past its block. Actions: `Open(name)`
(`syscall_open` with `file_open`/`dir_open`), `Close(fd)`, `Read(fd, n)`
(`syscall_read` into `file_read` or `dir_read`), and `HaltAndExecute`
(halt's close loop followed by the next execute's `init_file_table`).
Reads of stdin are `Keyboard`'s, reads of the RTC are `Rtc`'s, and writes
change no descriptor state.

## 3c. RTC and PICs

`I8259` gives the PIC registers as a record (`master_mask`, `slave_mask`,
`master_isr`, `slave_isr`, 8-bit values) and the code's operations on them,
computed with the code's bit arithmetic (`Bitwise`). It also gives the
hardware rules: a request gets through when its line is unmasked and no
line of the same or higher priority is in service, and a slave line must
also get through master line 2 (`Deliverable`). The CPU's acknowledge sets
the in-service bits (`Acknowledge`). `i8259.h` is not in the repository, so
its constants are the values the PC wiring fixes.

`Rtc` keeps `rtc_signal`, `running_term`, each RTC user's position in
`rtc_read` (`rtc_pc`: idle, spinning at line 71, or about to clear at line
72), register A (`reg_a`), the PIC registers and the boot inits done.
Ghosts: `requested`, the frequency of the last successful `set_frequency`;
`seen[t]`, an interrupt came while t was spinning.

| Action | Code |
|---|---|
| `PicInit`, `RtcInit`, `PitInit`, `KbdInit` | `i8259_init`, then `rtc_init`, `pit_init` and `keyboard_init`'s `enable_irq(1)` in any order (`kernel.c` is not in the repository) |
| `IdtInit` | `idt_init`: the table `Idt!idt_init`, then `lidt` |
| `PagingInit` | `paging_init`: `init_page_dir`, `init_user_page_table`, then CR3, CR4.PSE and CR0.PG |
| `RtcOpen(t)`, `RtcWrite(t, fre)` | `rtc_open`, `rtc_write` into `set_frequency` (bounds, `(fre - 1) & fre`, the log loop, `frame = 16 - log`, write of the low four bits) |
| `RtcReadStart`, `RtcSpinExit`, `RtcAck` | the three statements of `rtc_read`, separate steps because `syscall_read` calls `sti()` |
| `RtcInterrupt` | `rtc_int_handler`: set `rtc_signal`, `send_eoi(8)` |
| `Tick` | `pit_int_handler`: `send_eoi(0)`, next terminal |

`syscall_open` and `syscall_write` enter through an interrupt gate (`idt.c`
sets `reserved3 = 0`), so `rtc_open` and `rtc_write` are single steps.
`IrqVectorsInstalled` and `UserGates` check this gate type on the table that
`idt_init` builds.

`Idt` gives the table as a function from the 256 vectors to gate records
(`present`, `dpl`, the type nibble of `reserved3..size`, the selector). It is
built the way the loop fills it: the installed cases of the switch are
overridden (`@@`) on the zero entries of the static array. Vector 0x0F and the
`default` case are never written. `I8259` now also keeps the ICW2 vector bases
that `i8259_init` programs (0x20 and 0x28), so `Vector(pic, irq)` is the
vector the CPU receives for a line.

`Paging` gives the directory and the two page tables entry by entry:
`present`, `user_super`, `pageSize`, the frame, or the table a 4 KB directory
entry points to. `Translate` is the MMU walk, and `UserReaches` is "some page
ring 3 may access maps into these physical pages". Addresses are page numbers.
Boot's tables are constant after `PagingInit`. The later changes
(`setup_paging_and_flush_tlb`, `switch_usrmap`) are `Kernel`'s, on the
entries it keeps.
`HwFrequency(reg_a)` is the MC146818's rate table, the reference for
`set_frequency`.

**Fairness.** Weak fairness for the six boot inits, the RTC interrupt and the
PIT tick: each fires periodically while its line gets through the PICs.
Strong fairness for each RTC reader's steps, for the same reason as in
`Keyboard`.

## 3d. Maze game and tux driver (MP2)

`TuxCtl` keeps the driver's globals `ACK`, `button_bits` (its low byte; the
`~` sets the rest to ones) and `val_led`, and, as the environment, the
controller (`dev`: interrupt-on-change, user LED mode, LED bytes, buttons
held), the packets in flight each way (`to_tux`, `from_tux`), and ghosts:
`reported`, the buttons of the last event decoded, and `faults`, the
button changes and resets so far. `TuxHandleAck`, `TuxHandleReset` and
`TuxHandleBiocEvent` are the cases of `tuxctl_handle_packet`; `TuxInit`,
`TuxButtons`, and `TuxSetLed` with `TuxSetLedClearAck` are the ioctls.
`TUX_SET_LED` takes no lock, so its `ACK` test and put are one step and its
`ACK = 0` another, and a packet can be handled between them.
`tux_set_led(val)` is the `MTCP_LED_SET` packet the code builds, byte by
byte, from `led_vec_predefine`. The controller reads one command at a time
and acknowledges it; it reports button changes only once `MTCP_BIOC_ON` is
in effect; a reset clears its modes and LEDs and sends `MTCP_RESET`.
`mtcp.h` and `tuxctl-ld.c` are not in the repository, so opcodes are
strings, and the line neither loses nor reorders packets.

`MazeGame` extends `TuxCtl` with the game's three threads. Each critical
section under the mutex is one step: no thread blocks inside one. The
actions follow the code's loops:
- `main`: `MainStart` (open, `TUX_INIT`, create the threads), `MainFail`
  (a failing `fcntl`/`tcsetattr`/`set_mode_X` returns first), `MainJoin`.
- `rtc_thread`: `LevelStart` (the player at square (1,1), or a failing
  `prepare_maze_level`), `Frame` (an RTC read of 1..`MaxTicks` interrupts,
  `time2led` into `TUX_SET_LED`, refused while `ACK` is 0), `LedDone`,
  `Poll` (`TUX_BUTTONS`, raise `tux_button_flag`), `Move` (reversal with
  `ReverseCount`, the win test, turn or stop at a wall, one pixel), and
  `RtcThreadEnd`. `open[DIR_STOP]` reads past the end of `open[4]`, so `Move`
  lets it be either value.
- `keyboard_thread`: `KbdCheck` (`while (winner == 0)`) and `KbdKey(key)`, the
  `ESC [ A..D` decoder; `main` makes stdin `O_NONBLOCK`, so EOF is a key.
- `tux_thread`: `TuxThreadStep`, run when the flag is set (the wait re-tests
  it under the mutex), sets `next_dir` from the bits; the last test wins.

Note that `next_dir` starts as `UP`, the key code 65, not `DIR_UP`. The game
resets it at each level, so nothing reads that value.

**Fairness.** The threads are scheduled fairly, and the RTC interrupts
periodically. This gives weak fairness to `main`, to `rtc_thread`, and to
the keyboard thread's loop; its `getc` never blocks. The tux thread is woken
whenever its flag is set. The serial line and the controller deliver and
answer every packet. Keys, button changes and resets have no fairness.

## 4. Runs

| Run | Config | Result | Shows |
|---|---|---|---|
| `kernel` | `MCKernel.cfg` | pass, about 345k states, 1.7 min | 9 properties: type; pid bitmap = live processes, none on two terminals; address space and `tss.esp0` installed; suspended contexts resumable; screen isolation; vidmap page only if requested; a terminal never loses its shell; every terminal served forever; refines `ProcessSessions` |
| `boot_race` | `MCKernel_BootRace.cfg` | violation of `NoWildResume` | the scheduler resumes pid -1 when pids run out before a terminal's first visit |
| `vidmap_lost` | `MCKernel_VidmapKept.cfg` | violation of `VidmapKept` | a child's halt removes the parent's vidmap page |
| `keyboard` | `MCKeyboard.cfg` | pass, about 776k states, 1.2 min | type; the line typed on each terminal is intact in its buffer across switches and backspaces (`TypedLineKept`); a finished read holds at most nbytes and nothing after its newline (`ReadStopsAtNewline`); a reader that finds its line ready returns (`ReadReturns`) |
| `keyboard_cross` | `MCKeyboard_Cross.cfg` | violation of `ReadReturnsOwnLine` | a read on terminal 0 copies terminal 1's buffer after Alt+F2 |
| `keyboard_type_ahead` | `MCKeyboard_TypeAhead.cfg` | violation of `ReadReturnsOwnLine` | on one terminal, a key typed after Enter overwrites the unread line |
| `fds` | `MCFileDescriptors.cfg` | pass, about 451k states, 40 s | type; every open file slot has returned exactly its file's first `file_pos` bytes, and every directory slot the first names (`StreamsFollowFiles`) |
| `fds_negative_nbytes` | `MCFileDescriptors_Negative.cfg` | violation of `ReadDataInBounds` | `read(fd, buf, -1)` after one byte makes a memcpy of `2^w - 1` bytes |
| `rtc` | `MCRtc.cfg` | pass, about 315 states, 15 s | type; a reader leaves its spin only for an interrupt that came after its own `rtc_signal = 0`, never for one left over from before the read (`RtcReadWaitsForInterrupt`, an action property); the chip runs at the last accepted rate (`RateAsRequested`); after boot, every line that can reach the CPU has a present kernel interrupt gate at the vector its PIC sends (`IrqVectorsInstalled`); ring 3 can enter only through `int 0x80`, which also clears IF (`UserGates`); the kernel's 4 MB and the video pages map to themselves (`KernelIdentity`); every `rtc_read` returns (`RtcReadReturns`) |
| `rtc_shared` | `MCRtc_Shared.cfg` | violation of `NoLostInterrupt` | a second reader's `rtc_read` clears the interrupt the first was waiting for |
| `kernel_page_user` | `MCRtc_Paging.cfg` | violation of `UserCannotReachKernel` | `paging_init` makes the kernel's 4 MB page user-accessible |
| `maze` | `MCMazeGame.cfg` | pass, about 264k states, 3.3 min | type; the target square is whole and open, and so is the one behind (`PlayerOnGrid`); `time2led` with `tux_set_led` shows MM.SS against a reference 7-segment font (`TimeEncoding`); once the line is quiet, the controller shows the last accepted time, also after a reset (`LedsShowTime`); the tux thread steers to the held button mazegame tests last, also with two held at once (`SteersAsPressed`); a reset controller gets its modes back (`ResetRecovered`); a won game ends (`GameEnds`; quit is not exercised by this run) |

**Bounds.** The source has 3 terminals, and the model uses 3. It uses 4 pids
where the source has 6. With 4 pids, all three terminals hold a base shell,
one terminal has a child, pids can run out (`ExecuteExhausted`), and a base
shell's relaunch may reuse a lower pid. Six pids make the state space too
large for a 5-minute run; 5 pids took about 10 minutes and 4.9M states and
also passed. Exit statuses are {0, 255}, which covers the 255 → 256 edge (see `exec_ret`).
Symmetry is not used, because pid order matters to `record_process` and
terminal order matters to the ring.

**Bounds of the other modules.**
- `Keyboard`: 2 terminals and a 2-byte buffer. Two slots are enough for a
  key plus Enter, a full buffer that accepts only Enter, and a backspace.
  Keys are {"a", "l"}, where "l" is the one Ctrl+L consumes. Reads of 0 bytes
  (rejected by `terminal_read`), 1 byte (shorter than a line) and 3 bytes
  (longer than the buffer). A 3-byte
  buffer did not finish within 5 minutes.
- `FileDescriptors`: a boot image of 4 entries (".", "rtc", two files). The
  files are 5 and 4 bytes over 2-byte blocks, with blocks shared and out of
  order, so reads span a first, middle and last block and end on a block
  boundary. 5 descriptor slots, so two slots can hold the same file. Read
  sizes {1, 2, 5}. `UINT_BITS = 6` and `BLOCK_SIZE = 2` stand for 32 and
  4096: both scale down together, so the offset-plus-length wrap is
  reachable. `MAX_FILES` keeps its value, 63.
- `Rtc`: 3 terminals, one of them an RTC user (two in `rtc_shared`).
  `rtc_write` values are -2, 0, 3, 1000 (all rejected) and every power of
  two from 2 to 2048, so every rate the log loop can compute is checked
  against the chip's table. The IDT and the page tables are full size
  (256 vectors, 1024-entry directory and tables): they are built once, so
  their size costs time per state, not states.

- `MazeGame`: a corridor of two squares, (1,1) and the exit (2,1), with 3
  pixels per square. A reversal can then come after 1 or 2 pixels, where
  `BLOCK - move_cnt` differs from `move_cnt`. There is one level, reads of one
  interrupt, and one level time (12:34); `TimeEncoding` checks ten more
  times, which between them have every digit in every place. The player
  changes the held tux buttons twice, choosing among `{right}`, `{left}`
  and `{down, left}` (the constant `Holds`). `right` moves toward the exit
  and `left` then reverses mid-square. `{down, left}` holds two buttons at
  once, and mazegame's later test of `down` must win over its test of `left`. Between them, every swap of
  two of the four bits in `tuxctl_handle_packet` or in mazegame's masks
  changes a steered direction. The keyboard sees only the EOF of the
  non-blocking stdin. The arrow keys and the backquote (quit) are not
  exercised by this run: with them, or with every set of the four buttons,
  the run took 6 to 15 minutes. `GameEnds` is therefore checked for a won
  game; the keyboard loop's exit on `winner` is what it needs. The
  controller may have one reset, at any point, including while the game's
  own packets are in flight. Each of these bounds adds its own
  interleavings: a second reset or a third press took the run past 5 minutes.

**Mutants.** Each property of the `kernel` run is broken by a plausible bug in
the code it is about. `PROJECT.json` lists them:
- `record_process` scanning one slot too far;
- halt skipping `decord_process`;
- halt not relaunching the shell;
- halt setting `cur_pid` after `cur_pcb_ptr`;
- execute not saving the caller's `esp`;
- execute not switching `tss.esp0`;
- the PIT handler remapping video for the running terminal instead of the next;
- `switch_fish_paging` not updating the present bit;
- the ring linking terminal 2 back to terminal 1;
- the key echo writing through the running terminal's mapping.

The other pass runs' mutants:
- a key stored one slot past the buffer end;
- `switch_terminal` not saving `buf_pos`;
- the reader waiting on the viewing terminal's flag;
- the copy loop not stopping at the newline;
- `read_data`'s middle-block loop starting at the first block;
- `file_read` not advancing `file_pos`;
- `init_file_table` leaving the slots' flags zeroed;
- the RTC handler incrementing `rtc_signal`;
- `rtc_read` not clearing `rtc_signal` on entry;
- the rate computed as `15 - log`;
- the PIT ring wrapping to terminal 1;
- `idt_init` missing the `PIT_INT` case;
- `idt_init` leaving the system call gate at DPL 0;
- the kernel page's `pg_addr` computed as `KERNEL_START >> 12`, which
  truncates to 0 in the 10-bit field;
- `send_eoi` not sending the master's EOI for a slave line;
- `enable_irq` not subtracting 8 for a slave line;
- the reset handler not resending the LEDs, or not the modes;
- `button_bits` taking byte 1 unmasked, or the up and right bits swapped;
- a reversal keeping `move_cnt`;
- `time2led` swapping the minute digits;
- the keyboard loop testing `quit_flag` instead of `winner`.

## 5. Findings

1. **`boot_race` (code bug).** `schedule` ignores a failed
   `launch_base_shell`. Suppose programs on the first terminals take all the
   pids before the scheduler has reached the last terminal. Then
   `setup_paging_and_flush_tlb(-1)` maps kernel frame 1 into the user window,
   and the stack is loaded from `get_pcb_ptr(-1)`.
2. **`vidmap_lost` (code bug).** The vidmap flag and page are per terminal.
   When a child that called vidmap halts, the page is removed even though its
   parent also called vidmap, and the parent's next store through the vidmap
   pointer faults.
3. **`kernel_page_user` (spec/code divergence, `paging.c:79`).**
   `init_page_dir` sets `user_super = 1` on the 4 MB kernel page ("May be
   accessed by all"), and on every entry it writes. A ring-3 program can
   therefore read and write physical 4-8 MB: the kernel image, the kernel
   stacks and every PCB. spec.md says the user/supervisor bit is the memory
   protection the kernel sets up. The same bit in the 0-4 MB table lets ring
   3 write every terminal's saved screen at 0xB9000-0xBC000 (a hazard, not
   checked).
4. **`keyboard_cross` (code bug, `keyboard.c:265`).** The reader waits on
   the running terminal's ready flag but copies from the global `kbd_buf`,
   which is the viewing terminal's. Press Enter on terminal 0, Alt+F2, and
   terminal 0's read returns terminal 1's buffer.
5. **`keyboard_type_ahead` (code bug, `keyboard.c:202`).** Enter resets
   `buf_pos` to 0 while the line is still unread. The next key overwrites
   `kbd_buf[0]`, and the read returns a line that was never typed.
6. **`fds_negative_nbytes` (code bug, `fs.c:153`).** A negative nbytes
   reaches `read_data` as a huge `uint32_t` length. Once `file_pos > 0`,
   `offset + length` wraps below the file length. `end_off - start_off` is
   then negative, and as an unsigned memcpy count it is about 4 GB.
   `terminal_read` rejects `nbytes <= 0`; the file path does not.
7. **`rtc_shared` (code bug, `rtc.c:70`).** `rtc_signal` is one global, and
   `rtc_read` clears it on entry and after waking, with interrupts on.
   Suppose two processes on different terminals read the RTC. One reader's
   start or acknowledgement can clear the interrupt the other was waiting
   for, so that reader sleeps through it.

## 6. Not modelled, and why

- The byte-level content of program images, arguments, and file data:
  abstracted to valid or invalid.
- `parse_args` and `getargs`: commands and arguments are model values. Their
  faults are about the bytes of one string in one call, so they are listed
  as hazards (`syscall_handler.c:513`, `:533`, `:164`). These faults are:
  - dropping spaces between arguments;
  - reading past the terminator after repeated spaces;
  - a 50-byte memset into a 33-byte array;
  - `getargs` copying nbytes out of a 128-byte field.
- Scan-code decoding (the `scan_code_set_1` table, shift and caps lock):
  `Keyboard` draws characters directly.
- `fs_init`: it only computes pointers into the boot module.
  `file_write`/`dir_write`/`*_close` return constants.
- `rtc_pulse` has no caller, and `disable_irq` has none either.
- `interrupt_handler.c` only forwards to the handlers. The handler
  addresses that `SET_IDT_ENTRY` writes are abstracted to the vector number,
  because the entry stubs are assembly that is not in the repository.
- The halt(255) / exception collision (`syscall_handler.c:397`). Both return
  256, against spec.md 4.3 step 4. One `halt(255)` shows it, so it is a
  hazard and has no run. `Kernel` still records the value and its cause in
  `exec_ret`.
- The keyboard IRQ is not routed through `I8259` in `Keyboard`. `Rtc`'s boot
  unmasks it, so `IrqVectorsInstalled` covers vector 0x21. Also,
  `Keyboard` and `FileDescriptors` are checked apart from `Kernel`. They
  share only `running_term`/`viewing_term` and the PCB, whose interplay
  `Kernel` already covers.
- The maze game's screen: drawing, panning, fruit, the status bar and the
  transparent text. They change only pixels. `maze.c`, which has the maze
  and `check_for_win`, is not in the repository, so the maze is a constant.
- Three behaviours that `MazeGame` reaches but that no run checks, listed
  as hazards:
  - The `TUX_SET_LED` ACK race (`tuxctl-ioctl.c:150`). An `MTCP_ACK` handled
    between the put and `ACK = 0` is erased. After that the driver refuses
    every LED update until the controller resets.
  - An arrow key split by EOF from the non-blocking stdin (`mazegame.c:426`).
  - `button_bits` going stale across a controller reset.
- `TUX_BUTTONS` returns `-EINVAL` when its copy succeeds (`if (ret_val == 0)`
  is inverted). `mazegame` ignores the result, so no state depends on it.
- `dir_read` clears and fills 33 bytes of the caller's buffer, whatever
  nbytes is (`fs.c:278`). One read on a directory shows it, and it is listed
  as a hazard.
- The one-instruction windows around `sti` before `iret`: merged into the
  atomic handler. See the hazard at `syscall_handler.c:318`.
