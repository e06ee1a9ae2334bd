------------------------------- MODULE TuxCtl -------------------------------
(***************************************************************************)
(* The tux controller driver of tuxctl-ioctl.c, the controller at the far  *)
(* end of the serial line, and the line itself.                           *)
(*                                                                         *)
(* The driver keeps three globals: ACK (an MTCP_ACK has come since the     *)
(* last LED command), button_bits (the decoded state of the last button    *)
(* event) and val_led (the last LED value accepted).  Its ioctls run in    *)
(* the calling thread; tuxctl_handle_packet runs from the serial receive   *)
(* path and can come between any two statements of an ioctl that does not *)
(* hold t_lock.  TUX_SET_LED holds no lock, so its test of ACK, its put    *)
(* and its ACK = 0 are separate steps (the put itself only queues bytes;   *)
(* the handler's own tux_set_led rewrites led_info from the same val_led,  *)
(* so their interleaving inside tux_set_led leaves the same bytes).        *)
(*                                                                         *)
(* The controller answers MTCP_BIOC_ON, MTCP_LED_USR and MTCP_LED_SET with *)
(* MTCP_ACK, reports button changes with MTCP_BIOC_EVENT once interrupt-  *)
(* on-change is on (buttons active low), and after a reset forgets its    *)
(* modes and LED values and sends MTCP_RESET.  mtcp.h and tuxctl-ld.c are  *)
(* not in the repository: opcodes are strings, a put queues whole packets, *)
(* and the line neither loses nor reorders them.                           *)
(***************************************************************************)
EXTENDS Integers, Sequences, Bitwise

LOCAL FS == INSTANCE FiniteSetsExt

CONSTANTS
    Holds,          \* the sets of buttons the player may hold at once
    MaxPresses,     \* bound on button changes
    MaxResets       \* bound on controller resets

\* the MTCP_BIOC_EVENT layout (comment at lines 86-93): byte 1 carries
\* C B A START in bits 3..0, byte 2 right down left up; both active low
ButtonByte == [start |-> 1, a |-> 1, b |-> 1, c |-> 1,
               up |-> 2, left |-> 2, down |-> 2, right |-> 2]
ButtonBit == [start |-> 1, a |-> 2, b |-> 4, c |-> 8,
              up |-> 1, left |-> 2, down |-> 4, right |-> 8]

\* the buttons the player may press
Buttons == UNION Holds

ASSUME Buttons \subseteq DOMAIN ButtonBit

VARIABLES
    ACK,            \* the driver's MTCP_ACK flag
    button_bits,    \* low byte of the driver's button_bits (the rest is ~0)
    val_led,        \* the last argument TUX_SET_LED accepted
    reported,       \* ghost: the buttons pressed in the last event decoded
    dev,            \* the controller: modes, LED values, pressed buttons
    to_tux,         \* packets the driver has put and the controller not read
    from_tux,       \* packets the controller has sent and the driver not handled
    faults          \* ghost: button changes and resets so far

tux_vars == <<ACK, button_bits, val_led, reported, dev, to_tux, from_tux, faults>>

NoLeds == <<0, 0, 0, 0>>

Cmd(op) == [op |-> op, leds |-> NoLeds]
Resp(op) == [op |-> op, b |-> 0, c |-> 0, pressed |-> {}]

\* seven-segment patterns for the hex digits, bits A E F dp G C B D
led_vec_predefine ==
    <<231, 6, 203, 143, 46, 173, 237, 134, 239, 174, 238, 109, 225, 79, 233, 232>>

(***************************************************************************)
(* tux_set_led: the four LED bytes of an MTCP_LED_SET for val_led.  Digit  *)
(* i is the nibble at 4*i, shown when bit 16+i is set, with its dot when   *)
(* bit 24+i is set (dotpoint_flag << 4); an LED not shown gets 0x00.       *)
(***************************************************************************)
LedByte(val, i) ==
    LET digit == (val \div 2^(4 * i)) % 16
        dot   == IF ((val \div 2^24) & 2^i) = 0 THEN 0 ELSE 1
    IN  IF ((val \div 2^16) & 2^i) = 0 THEN 0
        ELSE dot * 16 + led_vec_predefine[digit + 1]

tux_set_led(val) == [op |-> "LED_SET", leds |-> [i \in 1..4 |-> LedByte(val, i - 1)]]

Init_info == <<Cmd("BIOC_ON"), Cmd("LED_USR")>>

\* what the controller shows: the user LED values in user mode, else its clock
Display(d) == IF d.usr THEN d.leds ELSE "clock"

TuxInitState ==
    /\ ACK = 0
    /\ button_bits = 0
    /\ val_led = 0
    /\ reported = {}
    /\ dev = [bioc |-> FALSE, usr |-> FALSE, leds |-> NoLeds, pressed |-> {}]
    /\ to_tux = <<>>
    /\ from_tux = <<>>
    /\ faults = [presses |-> 0, resets |-> 0]

-----------------------------------------------------------------------------
(* The driver.                                                             *)

\* case MTCP_ACK: ACK = 1 under t_lock
TuxHandleAck ==
    /\ from_tux # <<>> /\ Head(from_tux).op = "ACK"
    /\ from_tux' = Tail(from_tux)
    /\ ACK' = 1
    /\ UNCHANGED <<button_bits, val_led, reported, dev, to_tux, faults>>

\* mutant: the reset handler restores the modes but not the LED values
TuxHandleReset_no_led ==
    /\ from_tux # <<>> /\ Head(from_tux).op = "RESET"
    /\ from_tux' = Tail(from_tux)
    /\ to_tux' = to_tux \o Init_info
    /\ UNCHANGED <<ACK, button_bits, val_led, reported, dev, faults>>

\* mutant: the reset handler resends the LED values only
TuxHandleReset_no_init ==
    /\ from_tux # <<>> /\ Head(from_tux).op = "RESET"
    /\ from_tux' = Tail(from_tux)
    /\ to_tux' = Append(to_tux, tux_set_led(val_led))
    /\ UNCHANGED <<ACK, button_bits, val_led, reported, dev, faults>>

\* case MTCP_RESET: put BIOC_ON and LED_USR, then tux_set_led(val_led)
TuxHandleReset ==
    /\ from_tux # <<>> /\ Head(from_tux).op = "RESET"
    /\ from_tux' = Tail(from_tux)
    /\ to_tux' = to_tux \o Init_info \o <<tux_set_led(val_led)>>
    /\ UNCHANGED <<ACK, button_bits, val_led, reported, dev, faults>>

\* mutant: the up and right bits land in each other's place
ButtonBitsOf_up_right_swapped(b, c) ==
    (b & 15) + (c & 1) * 128 + (c & 4) * 8 + (c & 2) * 32 + (c & 8) * 2

\* mutant: byte 1 is taken whole, its framing bit 7 included
ButtonBitsOf_unmasked(b, c) ==
    b + (c & 1) * 16 + (c & 4) * 8 + (c & 2) * 32 + (c & 8) * 16

\* the button_bits computation of case MTCP_BIOC_EVENT, before the ~
ButtonBitsOf(b, c) ==
    (b & 15) + (c & 1) * 16 + (c & 4) * 8 + (c & 2) * 32 + (c & 8) * 16

\* case MTCP_BIOC_EVENT: button_bits = ~(...) under t_lock (low byte kept)
TuxHandleBiocEvent ==
    /\ from_tux # <<>> /\ Head(from_tux).op = "BIOC_EVENT"
    /\ from_tux' = Tail(from_tux)
    /\ button_bits' = 255 - ButtonBitsOf(Head(from_tux).b, Head(from_tux).c)
    /\ reported' = Head(from_tux).pressed
    /\ UNCHANGED <<ACK, val_led, dev, to_tux, faults>>

\* ioctl TUX_INIT: clear ACK and button_bits, put BIOC_ON and LED_USR
TuxInit ==
    /\ ACK' = 0
    /\ button_bits' = 0
    /\ to_tux' = to_tux \o Init_info
    /\ UNCHANGED <<val_led, reported, dev, from_tux, faults>>

\* ioctl TUX_BUTTONS: the value copy_to_user hands the caller under t_lock
\* (it then returns -EINVAL on success, which mazegame ignores)
TuxButtons == button_bits

\* ioctl TUX_SET_LED up to its tux_set_led: refused while ACK is 0,
\* else val_led = arg and the packet is put
TuxSetLed(arg) ==
    /\ ACK = 1
    /\ val_led' = arg
    /\ to_tux' = Append(to_tux, tux_set_led(arg))
    /\ UNCHANGED <<ACK, button_bits, reported, dev, from_tux, faults>>

\* ioctl TUX_SET_LED after tux_set_led returns: ACK = 0
TuxSetLedClearAck ==
    /\ ACK' = 0
    /\ UNCHANGED <<button_bits, val_led, reported, dev, to_tux, from_tux, faults>>

-----------------------------------------------------------------------------
(* The controller.                                                         *)

\* the controller reads one command and acknowledges it
DeviceCommand ==
    /\ to_tux # <<>>
    /\ LET p == Head(to_tux) IN
         dev' = CASE p.op = "BIOC_ON" -> [dev EXCEPT !.bioc = TRUE]
                  [] p.op = "LED_USR" -> [dev EXCEPT !.usr = TRUE]
                  [] p.op = "LED_SET" -> [dev EXCEPT !.leds = p.leds]
    /\ to_tux' = Tail(to_tux)
    /\ from_tux' = Append(from_tux, Resp("ACK"))
    /\ UNCHANGED <<ACK, button_bits, val_led, reported, faults>>

\* the active-low bytes 1 and 2 of an MTCP_BIOC_EVENT for a set of buttons
EventByte(pressed, byte) ==
    128 + 15 - FS!MapThenSumSet(LAMBDA x : IF ButtonByte[x] = byte THEN ButtonBit[x] ELSE 0,
                                pressed)

\* the player changes the buttons held; with interrupt-on-change on, the
\* controller reports the new state
DevicePress(pressed) ==
    /\ faults.presses < MaxPresses
    /\ pressed # dev.pressed
    /\ dev' = [dev EXCEPT !.pressed = pressed]
    /\ from_tux' = IF dev.bioc
                   THEN Append(from_tux, [op |-> "BIOC_EVENT",
                                          b |-> EventByte(pressed, 1),
                                          c |-> EventByte(pressed, 2),
                                          pressed |-> pressed])
                   ELSE from_tux
    /\ faults' = [faults EXCEPT !.presses = @ + 1]
    /\ UNCHANGED <<ACK, button_bits, val_led, reported, to_tux>>

\* the controller resets: modes and LED values are lost, MTCP_RESET is sent
DeviceReset ==
    /\ faults.resets < MaxResets
    /\ dev' = [dev EXCEPT !.bioc = FALSE, !.usr = FALSE, !.leds = NoLeds]
    /\ from_tux' = Append(from_tux, Resp("RESET"))
    /\ faults' = [faults EXCEPT !.resets = @ + 1]
    /\ UNCHANGED <<ACK, button_bits, val_led, reported, to_tux>>

TuxHandlePacket == TuxHandleAck \/ TuxHandleReset \/ TuxHandleBiocEvent

TuxTypeOK ==
    /\ ACK \in {0, 1}
    /\ button_bits \in 0..255
    /\ reported \subseteq Buttons
    /\ dev.pressed \subseteq Buttons
    /\ dev.bioc \in BOOLEAN /\ dev.usr \in BOOLEAN
    /\ dev.leds \in [1..4 -> 0..255]

=============================================================================
