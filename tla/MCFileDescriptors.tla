------------------------- MODULE MCFileDescriptors -------------------------
(* A boot image with 2-byte blocks: the directory ".", the RTC device and  *)
(* two regular files, one of 5 bytes over three blocks and one of exactly  *)
(* two blocks, whose block list has a third (unused, zero) entry as the    *)
(* zero-filled inodes of the real image do.                                *)
EXTENDS FileDescriptors

MCDentries ==
    << [name |-> ".",      type |-> DIR,      inode |-> 0],
       [name |-> "rtc",    type |-> USER_RTC, inode |-> 0],
       [name |-> "frame0", type |-> REGULAR,  inode |-> 1],
       [name |-> "frame1", type |-> REGULAR,  inode |-> 2] >>
MCInodeLen    == (0 :> 0 @@ 1 :> 5 @@ 2 :> 4)
MCInodeBlocks == (0 :> <<0>> @@ 1 :> <<0, 2, 1>> @@ 2 :> <<1, 2, 0>>)
MCDataBlocks  == << <<"p", "q">>, <<"r", "s">>, <<"t", "u">> >>
MCOpenNames   == {".", "rtc", "frame0", "frame1"}
\* reads of 1 and 2 bytes cross block boundaries at every offset; 5 reads to the end
MCReadSizes   == {1, 2, 5}
\* a caller's negative nbytes, and a short buffer for a directory read
MCNegativeSizes == {1, -1}
MCShortSizes    == {1}
=============================================================================
