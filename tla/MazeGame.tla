------------------------------ MODULE MazeGame ------------------------------
(***************************************************************************)
(* mazegame.c of MP2 with the tux driver it drives (module TuxCtl).  Three *)
(* threads share next_dir, tux_button_flag and button_bits under one mutex: *)
(*   - rtc_thread: per level, resets the player; per RTC read, shows the   *)
(*     level time on the tux LEDs (time2led, TUX_SET_LED), then for each   *)
(*     tick polls TUX_BUTTONS, raises tux_button_flag and signals the tux  *)
(*     thread, and moves the player one pixel;                             *)
(*   - keyboard_thread: decodes arrow keys (ESC [ A..D) into next_dir and  *)
(*     quits on a backquote;                                               *)
(*   - tux_thread: waits on the condition variable until tux_button_flag  *)
(*     is set and steers next_dir by the direction buttons.                *)
(* Each critical section is one step: the mutex excludes the others and    *)
(* none of them blocks inside it.  The tux thread's wait re-tests the flag *)
(* under the mutex and the flag is only ever raised with a signal, so the  *)
(* thread steps exactly when the flag is set.  The player's pixel moves    *)
(* after the unlock touch only rtc_thread's own variables and are part of  *)
(* its critical section's step.  maze.c, blocks.h and maze.h are not in    *)
(* the repository: the maze is the constant OpenSquares, dir_t is          *)
(* UP RIGHT DOWN LEFT = 0..3 with DIR_STOP = NUM_DIRS = 4, and drawing,    *)
(* fruit and text are left out.                                            *)
(***************************************************************************)
EXTENDS Integers, Sequences, Bitwise, TuxCtl

CONSTANTS
    BLOCK_X_DIM, BLOCK_Y_DIM,   \* pixels per maze square
    OpenSquares,                \* the squares make_maze leaves open
    Exit,                       \* the square check_for_win looks for
    MAX_LEVEL,                  \* the last level (10 in the code)
    MaxTicks,                   \* most RTC interrupts one read can report
    Seconds,                    \* the level times time(NULL) can give
    Keys                        \* the characters getc may return (-1 is EOF)

DIR_UP == 0
DIR_RIGHT == 1
DIR_DOWN == 2
DIR_LEFT == 3
DIR_STOP == 4
Dirs == 0..3
UP == 65
DOWN == 66
RIGHT == 67
LEFT == 68
BACKQUOTE == 96
ESC == 27
BRACKET == 91
EOF == -1

Delta == <<<<0, -1>>, <<1, 0>>, <<0, 1>>, <<-1, 0>>>>     \* by dir + 1
Block(d) == IF d \in {DIR_UP, DIR_DOWN} THEN BLOCK_Y_DIM ELSE BLOCK_X_DIM
Opposite(d, e) == d \in Dirs /\ e \in Dirs /\ (d + 2) % 4 = e
Square(p) == <<p[1] \div BLOCK_X_DIM, p[2] \div BLOCK_Y_DIM>>
Step(p, d, n) == <<p[1] + n * Delta[d + 1][1], p[2] + n * Delta[d + 1][2]>>

\* find_open_directions (maze.c): a direction is open when its neighbour is
OpenDirs(sq) == [d \in Dirs |-> Step(sq, d, 1) \in OpenSquares]

VARIABLES
    main_pc,            \* "init", "join" (threads running) or "exit"
    rtc_pc,             \* "level", "frame", "led", "poll", "move" or "done"
    level, ticks,
    play,               \* <<play_x, play_y>> in pixels
    dir, next_dir, move_cnt,
    quit_flag, winner,
    kbd_pc, kbd_state,  \* keyboard_thread: "check", "getc" or "done"; ESC state
    tux_pc,             \* tux_thread: "run", "done" or "cancelled"
    tux_button_flag,
    game_bits,          \* mazegame's own button_bits, filled by TUX_BUTTONS
    polled,             \* ghost: the buttons the driver had decoded at the poll
    shown               \* ghost: the time of the last TUX_SET_LED accepted, or -1

game_vars == <<main_pc, rtc_pc, level, ticks, play, dir, next_dir, move_cnt,
               quit_flag, winner, kbd_pc, kbd_state, tux_pc, tux_button_flag,
               game_bits, polled, shown>>
vars == <<game_vars, tux_vars>>

Init ==
    /\ TuxInitState
    /\ main_pc = "init" /\ rtc_pc = "level" /\ kbd_pc = "check" /\ tux_pc = "run"
    /\ level = 1 /\ ticks = 0
    /\ play = <<BLOCK_X_DIM, BLOCK_Y_DIM>>
    /\ dir = DIR_STOP /\ next_dir = UP /\ move_cnt = 0    \* int next_dir = UP;
    /\ quit_flag = 0 /\ winner = 0 /\ kbd_state = 0
    /\ tux_button_flag = 0 /\ game_bits = 0 /\ polled = {} /\ shown = -1

-----------------------------------------------------------------------------
(* main                                                                    *)

\* open the RTC, attach the line discipline, TUX_INIT, start the threads
MainStart ==
    /\ main_pc = "init"
    /\ TuxInit
    /\ main_pc' = "join"
    /\ UNCHANGED <<rtc_pc, level, ticks, play, dir, next_dir, move_cnt,
                   quit_flag, winner, kbd_pc, kbd_state, tux_pc, tux_button_flag,
                   game_bits, polled, shown>>

\* a failing fcntl, tcgetattr, tcsetattr, sanity_check or set_mode_X
\* returns from main before any thread is created
MainFail ==
    /\ main_pc = "init"
    /\ TuxInit
    /\ main_pc' = "exit"
    /\ tux_pc' = "cancelled" /\ rtc_pc' = "done" /\ kbd_pc' = "done"
    /\ UNCHANGED <<level, ticks, play, dir, next_dir, move_cnt, quit_flag, winner,
                   kbd_state, tux_button_flag, game_bits, polled, shown>>

\* join rtc_thread and keyboard_thread, then cancel tux_thread
MainJoin ==
    /\ main_pc = "join" /\ rtc_pc = "done" /\ kbd_pc = "done"
    /\ main_pc' = "exit"
    /\ tux_pc' = "cancelled"
    /\ UNCHANGED <<rtc_pc, level, ticks, play, dir, next_dir, move_cnt,
                   quit_flag, winner, kbd_pc, kbd_state, tux_button_flag,
                   game_bits, polled, shown, tux_vars>>

Running == main_pc = "join"

-----------------------------------------------------------------------------
(* rtc_thread                                                              *)

\* mutant: the minute digits go to each other's nibble
time2led_minutes_swapped(total_second) ==
    LET minute == total_second \div 60
        second == total_second % 60
    IN  68091904 + (second % 10) + (second \div 10) * 16
                 + (minute \div 10) * 256 + (minute % 10) * 4096

\* time2led: MM.SS as four nibbles, all LEDs on, the dot of LED 2
time2led(total_second) ==
    LET minute == total_second \div 60
        second == total_second % 60
    IN  68091904 + (second % 10) + (second \div 10) * 16
                 + (minute % 10) * 256 + (minute \div 10) * 4096

\* the end of rtc_thread: if (quit_flag == 0) winner = 1;
RtcThreadEnd ==
    /\ rtc_pc' = "done"
    /\ winner' = IF quit_flag = 0 THEN 1 ELSE winner
    /\ UNCHANGED <<play, move_cnt, dir, next_dir>>

(***************************************************************************)
(* The head of the level loop: past the last level or after a quit the    *)
(* thread ends; else prepare_maze_level, which may fail (and then the      *)
(* player is let win), the player reset to square (1,1) with no direction, *)
(* and the first periodic interrupt read.                                  *)
(***************************************************************************)
LevelStart ==
    /\ Running /\ rtc_pc = "level"
    /\ IF level <= MAX_LEVEL /\ quit_flag = 0
       THEN \/ /\ rtc_pc' = "frame"
               /\ play' = <<BLOCK_X_DIM, BLOCK_Y_DIM>>
               /\ move_cnt' = 0 /\ dir' = DIR_STOP /\ next_dir' = DIR_STOP
               /\ UNCHANGED winner
            \/ RtcThreadEnd
       ELSE RtcThreadEnd
    /\ UNCHANGED <<main_pc, level, ticks, quit_flag, kbd_pc, kbd_state, tux_pc,
                   tux_button_flag, game_bits, polled, shown, tux_vars>>

(***************************************************************************)
(* The head of the frame loop: leave the level after a quit; else read the *)
(* RTC (ticks = the interrupts it reports), and show the level time with   *)
(* time2led.  Its TUX_SET_LED is refused while the driver's ACK is 0.  The *)
(* level time time(NULL) - level_time_init is taken to be any of Seconds.  *)
(***************************************************************************)
Frame ==
    /\ Running /\ rtc_pc = "frame"
    /\ IF quit_flag # 0
       THEN /\ level' = level + 1
            /\ rtc_pc' = "level"
            /\ UNCHANGED <<ticks, shown, tux_vars>>
       ELSE \E k \in 1..MaxTicks, e \in Seconds :
              /\ ticks' = k
              /\ \/ /\ TuxSetLed(time2led(e))
                    /\ shown' = e
                    /\ rtc_pc' = "led"
                 \/ /\ ACK = 0
                    /\ rtc_pc' = "poll"
                    /\ UNCHANGED <<shown, tux_vars>>
              /\ UNCHANGED level
    /\ UNCHANGED <<main_pc, play, dir, next_dir, move_cnt, quit_flag, winner,
                   kbd_pc, kbd_state, tux_pc, tux_button_flag, game_bits, polled>>

\* the rest of TUX_SET_LED: ACK = 0
LedDone ==
    /\ Running /\ rtc_pc = "led"
    /\ TuxSetLedClearAck
    /\ rtc_pc' = "poll"
    /\ UNCHANGED <<main_pc, level, ticks, play, dir, next_dir, move_cnt,
                   quit_flag, winner, kbd_pc, kbd_state, tux_pc, tux_button_flag,
                   game_bits, polled, shown>>

\* TUX_BUTTONS into button_bits; under the mutex, raise tux_button_flag for
\* a direction button and signal the tux thread
Poll ==
    /\ Running /\ rtc_pc = "poll"
    /\ game_bits' = TuxButtons
    /\ polled' = reported
    /\ tux_button_flag' = IF (button_bits & 240) > 0 THEN 1 ELSE 0
    /\ rtc_pc' = "move"
    /\ UNCHANGED <<main_pc, level, ticks, play, dir, next_dir, move_cnt,
                   quit_flag, winner, kbd_pc, kbd_state, tux_pc, shown, tux_vars>>

(***************************************************************************)
(* One tick of movement.  Under the mutex: a reversal takes effect at once *)
(* (move_cnt becomes the pixels back to the square left); on a square, the *)
(* level is won at the exit, else next_dir is taken if open and a blocked  *)
(* dir stops.  After the unlock: one pixel in dir.  open[DIR_STOP] reads   *)
(* past the end of int open[NUM_DIRS]: either value may be read.           *)
(***************************************************************************)
\* unveil_around_player: the maze is unveiled around the player's square
\* (display only) and check_for_win tells whether it is the exit
unveil_around_player(p) == Square(p) = Exit

\* mutant: a reversal turns round without recounting the pixels to go
ReverseCount_kept(rev) == move_cnt

\* a reversal mid-square: move_cnt = BLOCK_?_DIM - move_cnt
ReverseCount(rev) == IF rev /\ move_cnt > 0 THEN Block(dir) - move_cnt ELSE move_cnt

Move ==
    /\ Running /\ rtc_pc = "move"
    /\ LET rev  == next_dir # dir /\ Opposite(dir, next_dir)
           cnt1 == ReverseCount(rev)
           dir1 == IF rev THEN next_dir ELSE dir
       IN  IF cnt1 = 0 /\ unveil_around_player(play)
           THEN /\ dir' = dir1 /\ move_cnt' = cnt1
                /\ level' = level + 1
                /\ rtc_pc' = "level"
                /\ UNCHANGED <<play, ticks>>
           ELSE \E stop_open \in BOOLEAN :
                LET open == [d \in 0..4 |-> IF d = DIR_STOP THEN stop_open
                                            ELSE OpenDirs(Square(play))[d]]
                    dir2 == IF cnt1 = 0 /\ open[next_dir] THEN next_dir ELSE dir1
                    dir3 == IF cnt1 = 0 /\ dir2 # DIR_STOP /\ ~open[dir2] THEN DIR_STOP ELSE dir2
                    cnt2 == IF cnt1 = 0 /\ dir3 # DIR_STOP THEN Block(dir3) ELSE cnt1
                IN  /\ dir' = dir3
                    /\ IF dir3 # DIR_STOP
                       THEN move_cnt' = cnt2 - 1 /\ play' = Step(play, dir3, 1)
                       ELSE move_cnt' = cnt2 /\ UNCHANGED play
                    /\ ticks' = ticks - 1
                    /\ rtc_pc' = IF ticks > 1 THEN "poll" ELSE "frame"
                    /\ UNCHANGED level
    /\ UNCHANGED <<main_pc, next_dir, quit_flag, winner, kbd_pc, kbd_state,
                   tux_pc, tux_button_flag, game_bits, polled, shown, tux_vars>>

-----------------------------------------------------------------------------
(* keyboard_thread                                                         *)

KeyDir == [k \in UP..LEFT |-> CASE k = UP -> DIR_UP [] k = DOWN -> DIR_DOWN
                                [] k = RIGHT -> DIR_RIGHT [] k = LEFT -> DIR_LEFT]

\* mutant: the keyboard loop runs until a quit instead of a win
KbdCheck_until_quit ==
    /\ Running /\ kbd_pc = "check"
    /\ kbd_pc' = IF quit_flag = 0 THEN "getc" ELSE "done"
    /\ UNCHANGED <<main_pc, rtc_pc, level, ticks, play, dir, next_dir, move_cnt,
                   quit_flag, winner, kbd_state, tux_pc, tux_button_flag,
                   game_bits, polled, shown, tux_vars>>

\* while (winner == 0)
KbdCheck ==
    /\ Running /\ kbd_pc = "check"
    /\ kbd_pc' = IF winner = 0 THEN "getc" ELSE "done"
    /\ UNCHANGED <<main_pc, rtc_pc, level, ticks, play, dir, next_dir, move_cnt,
                   quit_flag, winner, kbd_state, tux_pc, tux_button_flag,
                   game_bits, polled, shown, tux_vars>>

\* key = getc(stdin) and its handling: a backquote quits, ESC [ then A..D
\* sets next_dir under the mutex, anything else resets the escape state.
\* main makes stdin O_NONBLOCK, so getc returns EOF when no key is waiting
KbdKey(key) ==
    /\ Running /\ kbd_pc = "getc"
    /\ CASE key = BACKQUOTE ->
              quit_flag' = 1 /\ kbd_pc' = "done" /\ UNCHANGED <<kbd_state, next_dir>>
         [] key = ESC ->
              kbd_state' = 1 /\ kbd_pc' = "check" /\ UNCHANGED <<quit_flag, next_dir>>
         [] key = BRACKET /\ kbd_state = 1 ->
              kbd_state' = 2 /\ kbd_pc' = "check" /\ UNCHANGED <<quit_flag, next_dir>>
         [] OTHER ->
              /\ next_dir' = IF key \in UP..LEFT /\ kbd_state = 2 THEN KeyDir[key] ELSE next_dir
              /\ kbd_state' = 0 /\ kbd_pc' = "check" /\ UNCHANGED quit_flag
    /\ UNCHANGED <<main_pc, rtc_pc, level, ticks, play, dir, move_cnt,
                   winner, tux_pc, tux_button_flag, game_bits, polled, shown, tux_vars>>

-----------------------------------------------------------------------------
(* tux_thread                                                              *)

\* the direction the tests of button_bits leave in next_dir (the last wins)
TuxDir(bits, d) ==
    LET d1 == IF (bits & 128) # 0 THEN DIR_RIGHT ELSE d
        d2 == IF (bits & 64) # 0 THEN DIR_LEFT ELSE d1
        d3 == IF (bits & 16) # 0 THEN DIR_UP ELSE d2
    IN  IF (bits & 32) # 0 THEN DIR_DOWN ELSE d3

\* woken with tux_button_flag set: steer under the mutex, then test the
\* loop condition
TuxThreadStep ==
    /\ Running /\ tux_pc = "run" /\ tux_button_flag = 1
    /\ next_dir' = TuxDir(game_bits, next_dir)
    /\ tux_pc' = IF winner = 0 /\ quit_flag = 0 THEN "run" ELSE "done"
    /\ UNCHANGED <<main_pc, rtc_pc, level, ticks, play, dir, move_cnt,
                   quit_flag, winner, kbd_pc, kbd_state, tux_button_flag,
                   game_bits, polled, shown, tux_vars>>

-----------------------------------------------------------------------------
(* The driver's receive path and the controller run beside the game.  The  *)
(* line discipline is attached by main, and packets reach the driver, and   *)
(* the player and resets reach the controller, while the game runs.        *)

Controller ==
    /\ \/ Running /\ TuxHandlePacket
       \/ DeviceCommand
       \/ Running /\ \E pressed \in Holds : DevicePress(pressed)
       \/ Running /\ DeviceReset
    /\ UNCHANGED game_vars

\* the program has returned from main
Terminated == main_pc = "exit" /\ UNCHANGED vars

RtcThread == LevelStart \/ Frame \/ LedDone \/ Poll \/ Move

Next ==
    \/ MainStart \/ MainFail \/ MainJoin
    \/ RtcThread
    \/ KbdCheck \/ \E key \in Keys : KbdKey(key)
    \/ TuxThreadStep
    \/ Controller
    \/ Terminated

(***************************************************************************)
(* The threads are scheduled fairly and the RTC interrupts periodically,   *)
(* so main, rtc_thread and the keyboard thread make progress (its getc     *)
(* does not block: stdin is O_NONBLOCK); the serial line delivers and the  *)
(* controller answers every command; the receive path handles every        *)
(* packet.  Which key getc returns, button changes and resets are the      *)
(* player's and the hardware's, with no fairness.                          *)
(***************************************************************************)
Fairness ==
    /\ WF_vars(MainStart) /\ WF_vars(MainJoin)
    /\ WF_vars(RtcThread)
    /\ WF_vars(KbdCheck \/ \E key \in Keys : KbdKey(key))
    /\ WF_vars(TuxThreadStep)
    /\ WF_vars(Running /\ TuxHandlePacket /\ UNCHANGED game_vars)
    /\ WF_vars(DeviceCommand /\ UNCHANGED game_vars)

Spec == Init /\ [][Next]_vars /\ Fairness

-----------------------------------------------------------------------------

TypeOK ==
    /\ TuxTypeOK
    /\ rtc_pc \in {"level", "frame", "led", "poll", "move", "done"}
    /\ level \in 1..MAX_LEVEL + 1
    /\ ticks \in 0..MaxTicks
    /\ dir \in Dirs \cup {DIR_STOP}
    /\ next_dir \in Dirs \cup {DIR_STOP, UP}
    /\ move_cnt \in 0..BLOCK_X_DIM \cup 0..BLOCK_Y_DIM
    /\ kbd_state \in 0..2
    /\ tux_button_flag \in {0, 1}
    /\ game_bits \in 0..255
    /\ shown \in Seconds \cup {-1}

(***************************************************************************)
(* The player never leaves the maze's corridors: the square rtc_thread     *)
(* moves the player towards, move_cnt pixels ahead in dir, is a whole      *)
(* square and open, and so is the square behind it while the player is     *)
(* between two.  A reversal mid-square (move_cnt = BLOCK - move_cnt), a    *)
(* keyboard or tux steer landing between two ticks, and the stop at a wall *)
(* must all keep this.                                                     *)
(***************************************************************************)
PlayerOnGrid ==
    rtc_pc \in {"frame", "led", "poll", "move"} =>
        LET target == IF dir = DIR_STOP THEN play ELSE Step(play, dir, move_cnt)
        IN  /\ target[1] % BLOCK_X_DIM = 0 /\ target[2] % BLOCK_Y_DIM = 0
            /\ Square(target) \in OpenSquares
            /\ move_cnt > 0 => Square(Step(target, dir, -Block(dir))) \in OpenSquares
            /\ dir = DIR_STOP => move_cnt = 0

\* the direction next_dir takes for a set of held buttons: of those held,
\* the one mazegame tests last (down, then up, then left, then right);
\* none held leaves d
SteeredDir(bs, d) ==
    CASE "down" \in bs -> DIR_DOWN [] "up" \in bs -> DIR_UP
      [] "left" \in bs -> DIR_LEFT [] "right" \in bs -> DIR_RIGHT [] OTHER -> d

(***************************************************************************)
(* The tux thread steers to the held button mazegame's tests leave last,   *)
(* and keeps next_dir when no direction button is held: from the           *)
(* controller's active-low MTCP_BIOC_EVENT bytes, through                  *)
(* tuxctl_handle_packet's bit shuffle and inversion, the TUX_BUTTONS copy  *)
(* and mazegame's masks, to next_dir, for any set of buttons held at once. *)
(***************************************************************************)
SteersAsPressed ==
    [][TuxThreadStep => next_dir' = SteeredDir(polled, next_dir)]_vars

\* the seven-segment font, with the bit of each segment from the layout
\* comment of tuxctl-ioctl.c (A E F dp G C B D, bit 7 to bit 0)
Segment == [A |-> 128, E |-> 64, F |-> 32, G |-> 8, C |-> 4, B |-> 2, D |-> 1]
Font ==
    <<{"A", "B", "C", "D", "E", "F"}, {"B", "C"}, {"A", "B", "D", "E", "G"},
      {"A", "B", "C", "D", "G"}, {"B", "C", "F", "G"}, {"A", "C", "D", "F", "G"},
      {"A", "C", "D", "E", "F", "G"}, {"A", "B", "C"},
      {"A", "B", "C", "D", "E", "F", "G"}, {"A", "B", "C", "F", "G"}>>

LOCAL Sets == INSTANCE FiniteSetsExt

\* the segment byte of each decimal digit
Glyph == [digit \in 0..9 |-> Sets!MapThenSumSet(LAMBDA seg : Segment[seg], Font[digit + 1])]

\* the four LEDs, rightmost first, reading MM.SS for a level time
ClockFace(t) ==
    LET digits == <<(t % 60) % 10, (t % 60) \div 10, (t \div 60) % 10, (t \div 60) \div 10>>
    IN  [i \in 1..4 |-> Glyph[digits[i]] + (IF i = 3 THEN 16 ELSE 0)]

(***************************************************************************)
(* time2led and tux_set_led together show every level time under 100      *)
(* minutes as MM.SS: checked against the font for the time last shown and *)
(* for sample times that between them have every digit in every place   *)
(* (tens of seconds: 0 to 5).                                              *)
(***************************************************************************)
TimeSamples == {187, 858, 1529, 2190, 2861, 3532, 4143, 4214, 4885, 5556}

Encodes(t) == tux_set_led(time2led(t)).leds = ClockFace(t)

SamplesEncoded == \A t \in TimeSamples : Encodes(t)

TimeEncoding == SamplesEncoded /\ (shown # -1 => Encodes(shown))

(***************************************************************************)
(* Once the line is quiet (every command read, no MTCP_RESET waiting), the *)
(* controller shows the time of the last TUX_SET_LED the driver accepted:  *)
(* after a controller reset the driver's MTCP_RESET handling must put the  *)
(* controller back in user LED mode and resend val_led.                    *)
(***************************************************************************)
LedsShowTime ==
    /\ to_tux = <<>>
    /\ \A i \in 1..Len(from_tux) : from_tux[i].op # "RESET"
    /\ shown # -1
    => Display(dev) = ClockFace(shown)

(***************************************************************************)
(* While the game runs, a controller that is not reporting buttons and     *)
(* showing user LED values (at start, after a reset) eventually is again.  *)
(***************************************************************************)
ResetRecovered ==
    ~(dev.bioc /\ dev.usr) ~> (dev.bioc /\ dev.usr) \/ main_pc = "exit"

(***************************************************************************)
(* A game that is won or quit ends: rtc_thread leaves its level loop, the  *)
(* keyboard thread sees winner or the backquote, main joins both and       *)
(* cancels the tux thread blocked on its condition variable.               *)
(***************************************************************************)
GameEnds ==
    (winner = 1 \/ quit_flag = 1) ~> main_pc = "exit"

=============================================================================
