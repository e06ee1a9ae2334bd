------------------------------ MODULE Keyboard ------------------------------
(***************************************************************************)
(* The keyboard line discipline of student-distrib/keyboard.c and the      *)
(* buffer half of terminal.c.                                              *)
(*                                                                         *)
(* Each terminal owns a line buffer term_arr[t].kbd_buf, a saved cursor    *)
(* term_arr[t].buf_pos and a ready flag.  The keyboard interrupt writes    *)
(* through the globals kbd_buf / buf_pos, which switch_terminal points at  *)
(* the VIEWING terminal.  A read spins on the RUNNING terminal's ready     *)
(* flag and then copies through the same global kbd_buf.  syscall_read     *)
(* runs with interrupts enabled (sti), so every loop iteration of the      *)
(* reader is a step of its own, and keystrokes and timer ticks fall        *)
(* between them.  The keyboard handler runs under cli: one step.           *)
(*                                                                         *)
(* Shift and caps lock only choose which character a key produces; the     *)
(* character is chosen from Keys, so those flags are not state here.      *)
(***************************************************************************)
EXTENDS Integers, Sequences, SequencesExt

CONSTANTS
    TERM_NUM,       \* 3 in terminal.c
    KBD_BUF_SIZE,   \* 128 in keyboard.h
    Keys,           \* printable characters (model values)
    ReadSizes,      \* nbytes values a program passes to read
    TypeAhead       \* may the user type while a completed line is unread?

ASSUME TERM_NUM \in Nat \ {0} /\ KBD_BUF_SIZE >= 2
ASSUME ReadSizes \subseteq Int /\ TypeAhead \in BOOLEAN

Terminals == 0..TERM_NUM-1
Idx == 0..KBD_BUF_SIZE-1
NL == "NL"           \* the newline byte
NUL == "NUL"          \* the zero byte of the static term_arr buffers
Bytes == Keys \cup {NL, NUL}

VARIABLES
    kbd_buf,        \* term_arr[t].kbd_buf, as a function Idx -> Bytes
    buf_pos,        \* global buf_pos: the viewing terminal's cursor
    term_buf_pos,   \* term_arr[t].buf_pos, saved by switch_terminal
    kbd_buf_ready,  \* term_arr[t].kbd_buf_ready
    viewing_term,   \* viewing_term_ptr->tid
    running_term,   \* running_term_ptr->tid
    ctrl_flag,
    alt_flag,
    reader,         \* the read in progress on each terminal (pc, nbytes, i, copied bytes)
    typed,          \* ghost: the characters of the line being typed on t
    line,           \* ghost: the last line completed on t, NL included
    expect          \* ghost: line[t] when t's reader saw the ready flag

vars == <<kbd_buf, buf_pos, term_buf_pos, kbd_buf_ready, viewing_term,
          running_term, ctrl_flag, alt_flag, reader, typed, line, expect>>

IdleReader == [pc |-> "idle", n |-> 0, i |-> 0, got |-> <<>>]

\* The cursor of terminal t: live in buf_pos while t is viewed.
CursorOf(t) == IF t = viewing_term THEN buf_pos ELSE term_buf_pos[t]

(***************************************************************************)
(* keyboard_init and the keyboard part of terminal_init.                   *)
(***************************************************************************)
Init ==
    /\ kbd_buf = [t \in Terminals |-> [j \in Idx |-> NUL]]
    /\ buf_pos = 0
    /\ term_buf_pos = [t \in Terminals |-> 0]
    /\ kbd_buf_ready = [t \in Terminals |-> 0]
    /\ viewing_term = 0
    /\ running_term = 0
    /\ ctrl_flag = FALSE
    /\ alt_flag = FALSE
    /\ reader = [t \in Terminals |-> IdleReader]
    /\ typed = [t \in Terminals |-> <<>>]
    /\ line = [t \in Terminals |-> <<>>]
    /\ expect = [t \in Terminals |-> <<>>]

(***************************************************************************)
(* keyboard_int_handler, a normal key or Enter producing byte c.  The      *)
(* byte is echoed (not modelled) and stored at buf_pos unless the buffer   *)
(* is full: the last slot is reserved for the newline.  Enter resets       *)
(* buf_pos and sets the viewing terminal's ready flag.  When the buffer is *)
(* full and c is not Enter, only the echo happens.                         *)
(***************************************************************************)
KeyPress_off_by_one(c) ==
    LET v == viewing_term IN
    /\ ~(ctrl_flag /\ c = "l")
    /\ TypeAhead \/ kbd_buf_ready[v] = 0
    /\ buf_pos <= KBD_BUF_SIZE - 1 \/ c = NL
    /\ kbd_buf' = [kbd_buf EXCEPT ![v][buf_pos] = c]
    /\ IF c = NL
         THEN /\ buf_pos' = 0
              /\ kbd_buf_ready' = [kbd_buf_ready EXCEPT ![v] = 1]
              /\ line' = [line EXCEPT ![v] = Append(typed[v], NL)]
              /\ typed' = [typed EXCEPT ![v] = <<>>]
         ELSE /\ buf_pos' = buf_pos + 1
              /\ typed' = [typed EXCEPT ![v] = Append(@, c)]
              /\ UNCHANGED <<kbd_buf_ready, line>>
    /\ UNCHANGED <<term_buf_pos, viewing_term, running_term, ctrl_flag,
                   alt_flag, reader, expect>>

KeyPress(c) ==
    LET v == viewing_term IN
    /\ ~(ctrl_flag /\ c = "l")
    /\ TypeAhead \/ kbd_buf_ready[v] = 0
    /\ buf_pos <= KBD_BUF_SIZE - 2 \/ c = NL
    /\ kbd_buf' = [kbd_buf EXCEPT ![v][buf_pos] = c]
    /\ IF c = NL
         THEN /\ buf_pos' = 0
              /\ kbd_buf_ready' = [kbd_buf_ready EXCEPT ![v] = 1]
              /\ line' = [line EXCEPT ![v] = Append(typed[v], NL)]
              /\ typed' = [typed EXCEPT ![v] = <<>>]
         ELSE /\ buf_pos' = buf_pos + 1
              /\ typed' = [typed EXCEPT ![v] = Append(@, c)]
              /\ UNCHANGED <<kbd_buf_ready, line>>
    /\ UNCHANGED <<term_buf_pos, viewing_term, running_term, ctrl_flag,
                   alt_flag, reader, expect>>

\* Ctrl+L clears the screen and drops the key.
CtrlL ==
    /\ ctrl_flag
    /\ ctrl_flag' = FALSE
    /\ UNCHANGED <<kbd_buf, buf_pos, term_buf_pos, kbd_buf_ready, viewing_term,
                   running_term, alt_flag, reader, typed, line, expect>>

\* Backspace erases the last character, if any.
Backspace ==
    /\ buf_pos > 0
    /\ buf_pos' = buf_pos - 1
    /\ typed' = [typed EXCEPT ![viewing_term] = SubSeq(@, 1, Len(@) - 1)]
    /\ UNCHANGED <<kbd_buf, term_buf_pos, kbd_buf_ready, viewing_term,
                   running_term, ctrl_flag, alt_flag, reader, line, expect>>

\* Ctrl and Alt press and release.
SetCtrl(b) ==
    /\ ctrl_flag' = b
    /\ UNCHANGED <<kbd_buf, buf_pos, term_buf_pos, kbd_buf_ready, viewing_term,
                   running_term, alt_flag, reader, typed, line, expect>>

SetAlt(b) ==
    /\ alt_flag' = b
    /\ UNCHANGED <<kbd_buf, buf_pos, term_buf_pos, kbd_buf_ready, viewing_term,
                   running_term, ctrl_flag, reader, typed, line, expect>>

(***************************************************************************)
(* The buffer half of switch_terminal: save buf_pos into the viewed        *)
(* terminal, point kbd_buf at the target's buffer, restore its buf_pos.    *)
(***************************************************************************)
switch_terminal_no_save(target) ==
    /\ buf_pos' = term_buf_pos[target]
    /\ viewing_term' = target
    /\ UNCHANGED term_buf_pos

switch_terminal_buffers(target) ==
    /\ term_buf_pos' = [term_buf_pos EXCEPT ![viewing_term] = buf_pos]
    /\ buf_pos' = term_buf_pos[target]
    /\ viewing_term' = target

\* Alt+F1..F3: switch_terminal(target), which returns at once for the viewed one.
AltFunctionKey(target) ==
    /\ alt_flag
    /\ target # viewing_term
    /\ switch_terminal_buffers(target)
    /\ UNCHANGED <<kbd_buf, kbd_buf_ready, running_term, ctrl_flag, alt_flag,
                   reader, typed, line, expect>>

\* The PIT handler hands the CPU to the next terminal of the ring.
Tick ==
    /\ running_term' = (running_term + 1) % TERM_NUM
    /\ UNCHANGED <<kbd_buf, buf_pos, term_buf_pos, kbd_buf_ready, viewing_term,
                   ctrl_flag, alt_flag, reader, typed, line, expect>>

\* terminal_read: nbytes <= 0 returns -1 before read_from_kbd_buf_to_buf
TerminalReadAccepts(nbytes) == nbytes > 0

(***************************************************************************)
(* read(0, buf, n) by the process of terminal t, which runs only while t   *)
(* is the running terminal: terminal_read's check, then the reader.        *)
(***************************************************************************)
ReadStart(t, n) ==
    /\ running_term = t
    /\ TerminalReadAccepts(n)
    /\ reader[t].pc = "idle"
    /\ reader' = [reader EXCEPT ![t] = [IdleReader EXCEPT !.pc = "wait", !.n = n]]
    /\ UNCHANGED <<kbd_buf, buf_pos, term_buf_pos, kbd_buf_ready, viewing_term,
                   running_term, ctrl_flag, alt_flag, typed, line, expect>>

ReadWake_viewing(t) ==
    /\ running_term = t
    /\ reader[t].pc = "wait"
    /\ kbd_buf_ready[viewing_term] = 1
    /\ reader' = [reader EXCEPT ![t].pc = "copy"]
    /\ expect' = [expect EXCEPT ![t] = line[t]]
    /\ UNCHANGED <<kbd_buf, buf_pos, term_buf_pos, kbd_buf_ready, viewing_term,
                   running_term, ctrl_flag, alt_flag, typed, line>>

\* The spin loop on running_term_ptr->kbd_buf_ready ends.
ReadWake(t) ==
    /\ running_term = t
    /\ reader[t].pc = "wait"
    /\ kbd_buf_ready[running_term] = 1
    /\ reader' = [reader EXCEPT ![t].pc = "copy"]
    /\ expect' = [expect EXCEPT ![t] = line[t]]
    /\ UNCHANGED <<kbd_buf, buf_pos, term_buf_pos, kbd_buf_ready, viewing_term,
                   running_term, ctrl_flag, alt_flag, typed, line>>

ReadByte_past_newline(t) ==
    LET r == reader[t]
        c == kbd_buf[viewing_term][r.i]
    IN
    /\ running_term = t
    /\ r.pc = "copy"
    /\ reader' = [reader EXCEPT ![t] =
                    [r EXCEPT !.i = r.i + 1, !.got = Append(r.got, c),
                              !.pc = IF r.i + 1 >= r.n \/ r.i + 1 > KBD_BUF_SIZE - 1
                                     THEN "clear" ELSE "copy"]]
    /\ UNCHANGED <<kbd_buf, buf_pos, term_buf_pos, kbd_buf_ready, viewing_term,
                   running_term, ctrl_flag, alt_flag, typed, line, expect>>

\* One iteration of the copy loop: read kbd_buf[i], the global pointer's
\* buffer; stop after a newline, after nbytes bytes, or at the buffer's end.
ReadByte(t) ==
    LET r == reader[t]
        c == kbd_buf[viewing_term][r.i]
    IN
    /\ running_term = t
    /\ r.pc = "copy"
    /\ reader' = [reader EXCEPT ![t] =
                    [r EXCEPT !.i = r.i + 1, !.got = Append(r.got, c),
                              !.pc = IF c = NL \/ r.i + 1 >= r.n
                                        \/ r.i + 1 > KBD_BUF_SIZE - 1
                                     THEN "clear" ELSE "copy"]]
    /\ UNCHANGED <<kbd_buf, buf_pos, term_buf_pos, kbd_buf_ready, viewing_term,
                   running_term, ctrl_flag, alt_flag, typed, line, expect>>

\* After the loop: clear the running terminal's ready flag and return.
ReadClear(t) ==
    /\ running_term = t
    /\ reader[t].pc = "clear"
    /\ kbd_buf_ready' = [kbd_buf_ready EXCEPT ![running_term] = 0]
    /\ reader' = [reader EXCEPT ![t] = IdleReader]
    /\ UNCHANGED <<kbd_buf, buf_pos, term_buf_pos, viewing_term, running_term,
                   ctrl_flag, alt_flag, typed, line, expect>>

ReaderStep(t) == ReadWake(t) \/ ReadByte(t) \/ ReadClear(t)

Next ==
    \/ \E c \in Keys \cup {NL} : KeyPress(c)
    \/ CtrlL
    \/ Backspace
    \/ \E b \in BOOLEAN : SetCtrl(b) \/ SetAlt(b)
    \/ \E t \in Terminals : AltFunctionKey(t)
    \/ Tick
    \/ \E t \in Terminals, n \in ReadSizes : ReadStart(t, n)
    \/ \E t \in Terminals : ReaderStep(t)

(***************************************************************************)
(* The PIT fires forever.  A reader gets the CPU whenever its terminal     *)
(* runs, which the ring makes happen infinitely often, and its kernel loop *)
(* then makes progress: strong fairness, since the step is enabled only    *)
(* while its terminal is the running one.  Keys get no fairness.           *)
(***************************************************************************)
Fairness ==
    /\ WF_vars(Tick)
    /\ \A t \in Terminals : SF_vars(ReaderStep(t))

Spec == Init /\ [][Next]_vars /\ Fairness

-----------------------------------------------------------------------------

TypeOK ==
    /\ kbd_buf \in [Terminals -> [Idx -> Bytes]]
    /\ buf_pos \in Idx
    /\ term_buf_pos \in [Terminals -> Idx]
    /\ kbd_buf_ready \in [Terminals -> {0, 1}]
    /\ viewing_term \in Terminals /\ running_term \in Terminals
    /\ ctrl_flag \in BOOLEAN /\ alt_flag \in BOOLEAN
    /\ \A t \in Terminals :
         /\ reader[t].pc \in {"idle", "wait", "copy", "clear"}
         /\ reader[t].i \in 0..KBD_BUF_SIZE
         /\ reader[t].got \in Seq(Bytes)

(***************************************************************************)
(* Every terminal's buffer holds, before that terminal's cursor, exactly   *)
(* the characters typed on it since its last Enter, across any number of  *)
(* Alt+F switches, backspaces and full-buffer drops.  This is about the    *)
(* save/restore of buf_pos in switch_terminal and the bounds of the        *)
(* keyboard handler.                                                       *)
(***************************************************************************)
TypedLineKept ==
    \A t \in Terminals :
        /\ CursorOf(t) = Len(typed[t])
        /\ \A j \in 1..Len(typed[t]) : kbd_buf[t][j-1] = typed[t][j]

(***************************************************************************)
(* A read on terminal t returns a prefix of the line last completed on t   *)
(* when the read saw t's ready flag.  spec.md calls the line buffer        *)
(* single-writer single-reader per terminal; the code copies from the      *)
(* global kbd_buf (the viewing terminal's) after the ready flag is seen.   *)
(***************************************************************************)
ReadReturnsOwnLine ==
    \A t \in Terminals :
        reader[t].pc = "clear" => IsPrefix(reader[t].got, expect[t])

(***************************************************************************)
(* The length contract of terminal_read, whatever buffer the loop copies    *)
(* from and whatever is typed meanwhile: a finished read holds at most      *)
(* nbytes bytes and nothing after its first newline.                        *)
(***************************************************************************)
ReadStopsAtNewline ==
    \A t \in Terminals :
        reader[t].pc = "clear" =>
          /\ Len(reader[t].got) <= reader[t].n
          /\ \A k \in 1..Len(reader[t].got) - 1 : reader[t].got[k] # NL

(***************************************************************************)
(* A reader spinning on its terminal when a line is ready there returns.   *)
(* This needs the spin loop to test the flag the keyboard handler set for  *)
(* that terminal, and the scheduler to come back to the terminal.          *)
(***************************************************************************)
ReadReturns ==
    \A t \in Terminals :
        (reader[t].pc = "wait" /\ kbd_buf_ready[t] = 1) ~> reader[t].pc = "idle"

=============================================================================
