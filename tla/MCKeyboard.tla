----------------------------- MODULE MCKeyboard -----------------------------
EXTENDS Keyboard

\* Two printable keys, one of them the 'l' that Ctrl+L consumes.
MCKeys == {"a", "l"}
\* A read terminal_read rejects, a one-byte read, and a read longer than
\* the buffer.
MCReadSizes == {0, 1, 3}
=============================================================================
