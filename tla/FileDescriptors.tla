--------------------------- MODULE FileDescriptors ---------------------------
(***************************************************************************)
(* The file descriptor table of one PCB (pcb_fds[8]) and the system calls  *)
(* that use it: init_file_table at execute, open, close, and read through  *)
(* the slot's operation table into file_read (read_data) or dir_read.      *)
(* Reads of stdin are the Keyboard module, reads of the RTC the Rtc        *)
(* module; writes change no state here (terminal_write is in Kernel,       *)
(* file_write and dir_write return -1).                                    *)
(***************************************************************************)
EXTENDS FileSystem

CONSTANTS
    FD_COUNT,       \* 8 slots in pcb_fds
    OpenNames,      \* names a program passes to open
    ReadSizes       \* nbytes values a program passes to read (int32_t)

ASSUME FD_COUNT >= 3

Fds == 0..FD_COUNT-1
OERROR == 0
IN_USE == 1
FREE == 2
Ops == {"stdin", "stdout", "dir", "rtc", "file", "none"}

VARIABLES
    pcb_fds,    \* slot -> [op_ptr, inode, file_pos, flags]
    got,        \* ghost: slot -> what reads returned since it was opened
    overrun     \* ghost: a memcpy of read_data ran past its data block

vars == <<pcb_fds, got, overrun>>

Entry(op, inode) == [op_ptr |-> op, inode |-> inode, file_pos |-> 0, flags |-> IN_USE]

\* mutant: the free slots keep the zeroed flags of fresh memory (0 = OERROR)
init_file_table_zeroed ==
    [i \in Fds |-> CASE i = 0 -> Entry("stdin", 0)
                     [] i = 1 -> Entry("stdout", 0)
                     [] OTHER -> [Entry("none", 0) EXCEPT !.flags = 0]]

(***************************************************************************)
(* init_file_table, with the loop of syscall_execute that frees 2..7       *)
(* again: stdin and stdout in use, every other slot free.                  *)
(***************************************************************************)
init_file_table ==
    [i \in Fds |-> CASE i = 0 -> Entry("stdin", 0)
                     [] i = 1 -> Entry("stdout", 0)
                     [] OTHER -> [Entry("none", 0) EXCEPT !.flags = FREE]]

Init ==
    /\ pcb_fds = init_file_table
    /\ got = [i \in Fds |-> << >>]
    /\ overrun = FALSE

\* the op table a dentry type selects; an unknown type leaves op_ptr as it was
OpFor(type, old) ==
    CASE type = DIR -> "dir" [] type = USER_RTC -> "rtc"
      [] type = REGULAR -> "file" [] OTHER -> old

\* file_open and dir_open: the entry for the name, flags OERROR if unknown
OpenEntry(name, op) ==
    LET d == read_dentry_by_name(name) IN
    IF d = -1 THEN [Entry(op, 0) EXCEPT !.flags = OERROR]
              ELSE Entry(op, Dentries[d].inode)

file_open(name) == OpenEntry(name, "file")
dir_open(name) == OpenEntry(name, "dir")

(***************************************************************************)
(* syscall_open: look the name up, take the lowest free slot from 2, fill  *)
(* it by the dentry's type, failing if dir_open or file_open does (they    *)
(* look the name up again); rtc_open's rate is the Rtc module's.           *)
(***************************************************************************)
Open(name) ==
    LET d    == read_dentry_by_name(name)
        free == {i \in 2..FD_COUNT-1 : pcb_fds[i].flags = FREE}
        idx  == CHOOSE i \in free : \A j \in free : i <= j
    IN /\ d # -1
       /\ free # {}
       /\ Dentries[d].type = DIR => dir_open(name).flags # OERROR
       /\ Dentries[d].type = REGULAR => file_open(name).flags # OERROR
       /\ pcb_fds' = [pcb_fds EXCEPT ![idx] =
                        Entry(OpFor(Dentries[d].type, @.op_ptr), Dentries[d].inode)]
       /\ got' = [got EXCEPT ![idx] = << >>]
       /\ UNCHANGED overrun

\* syscall_close: slots 2..7 that are not free.
Close(fd) ==
    /\ fd \in 2..FD_COUNT-1
    /\ pcb_fds[fd].flags # FREE
    /\ pcb_fds' = [pcb_fds EXCEPT ![fd].flags = FREE]
    /\ UNCHANGED <<got, overrun>>

(***************************************************************************)
(* file_read: read_data at file_pos; the uint32_t result advances file_pos *)
(* unless it equals -1.  nbytes is passed on as a uint32_t length.         *)
(***************************************************************************)
file_read_no_advance(fd, n) ==
    LET e   == pcb_fds[fd]
        r   == read_data(e.inode, e.file_pos, U(n))
        ok  == SegsInBounds(r.segs)
    IN /\ UNCHANGED pcb_fds
       /\ got' = [got EXCEPT ![fd] = IF ok THEN @ \o Copied(r.segs) ELSE @]
       /\ overrun' = (overrun \/ ~ok)

file_read(fd, n) ==
    LET e   == pcb_fds[fd]
        r   == read_data(e.inode, e.file_pos, U(n))
        ok  == SegsInBounds(r.segs)
    IN /\ pcb_fds' = IF U(r.ret) # U(-1)
                     THEN [pcb_fds EXCEPT ![fd].file_pos = U(@ + r.ret)]
                     ELSE pcb_fds
       /\ got' = [got EXCEPT ![fd] = IF ok THEN @ \o Copied(r.segs) ELSE @]
       /\ overrun' = (overrun \/ ~ok)

(***************************************************************************)
(* dir_read: the file_pos-th directory entry's name, one per call, 0 past  *)
(* the last.  It clears 33 bytes of buf whatever nbytes is.                *)
(***************************************************************************)
dir_read(fd, n) ==
    LET index == pcb_fds[fd].file_pos IN
    IF index >= Len(Dentries)
    THEN UNCHANGED <<pcb_fds, got, overrun>>
    ELSE /\ pcb_fds' = [pcb_fds EXCEPT ![fd].file_pos = @ + 1]
         /\ got' = [got EXCEPT ![fd] = Append(@, read_dentry_by_index(index).name)]
         /\ UNCHANGED overrun

(***************************************************************************)
(* syscall_read on a file or directory slot: fd in 0..7, not 1, not free,  *)
(* then the slot's read operation.                                         *)
(***************************************************************************)
Read(fd, n) ==
    /\ fd # 1
    /\ pcb_fds[fd].flags # FREE
    /\ \/ pcb_fds[fd].op_ptr = "file" /\ file_read(fd, n)
       \/ pcb_fds[fd].op_ptr = "dir" /\ dir_read(fd, n)

(***************************************************************************)
(* syscall_halt closes every slot of the exiting PCB and the next execute  *)
(* into it runs init_file_table.                                           *)
(***************************************************************************)
HaltAndExecute ==
    /\ pcb_fds' = [i \in Fds |-> IF i >= 2 THEN [pcb_fds[i] EXCEPT !.flags = FREE]
                                          ELSE pcb_fds[i]]
    /\ UNCHANGED <<got, overrun>>

Next ==
    \/ \E name \in OpenNames : Open(name)
    \/ \E fd \in Fds : Close(fd)
    \/ \E fd \in Fds, n \in ReadSizes : Read(fd, n)
    \/ HaltAndExecute

Spec == Init /\ [][Next]_vars

-----------------------------------------------------------------------------

TypeOK ==
    /\ pcb_fds \in [Fds -> [op_ptr : Ops, inode : Nat, file_pos : 0..UMOD-1,
                            flags : {IN_USE, FREE}]]
    /\ overrun \in BOOLEAN

(***************************************************************************)
(* Every open file or directory slot has returned, over all its reads so   *)
(* far, exactly the first file_pos bytes of its file (read_data's block    *)
(* and offset arithmetic against the file's bytes) or the first file_pos   *)
(* names of the directory, whatever nbytes each read asked for.            *)
(***************************************************************************)
StreamsFollowFiles ==
    \A fd \in 2..FD_COUNT-1 :
        pcb_fds[fd].flags = IN_USE =>
          LET e == pcb_fds[fd] IN
          /\ e.op_ptr = "file" =>
               /\ e.file_pos <= InodeLen[e.inode]
               /\ got[fd] = SubSeq(FileContent(e.inode), 1, e.file_pos)
          /\ e.op_ptr = "dir" =>
               /\ e.file_pos <= Len(Dentries)
               /\ got[fd] = [k \in 1..e.file_pos |-> Dentries[k].name]

(***************************************************************************)
(* read_data never copies from outside the data block it reads: each       *)
(* memcpy's start plus count stays within BLOCK_SIZE.                      *)
(***************************************************************************)
ReadDataInBounds == ~overrun

=============================================================================
