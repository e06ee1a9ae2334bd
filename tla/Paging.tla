------------------------------- MODULE Paging -------------------------------
(***************************************************************************)
(* The boot-time page tables of paging.c as operators: the page directory  *)
(* init_page_dir fills, the two 4 KB page tables init_user_page_table      *)
(* fills (usr_page_table_base for 0-4 MB and usrmap_page_table_base for    *)
(* 132-136 MB), and the translation the MMU does through them once         *)
(* paging_init has loaded CR3 and set CR4.PSE and CR0.PG.  An entry keeps  *)
(* the bits that decide a translation: present, user_super, pageSize and   *)
(* the frame (pg_addr, in 4 MB units for a 4 MB page and 4 KB units in a   *)
(* page table) or, for a 4 KB directory entry, which table it points to.   *)
(* r_w is 1 in every entry the code writes; caching and accessed/dirty    *)
(* bits do not change a translation and are left out.  Addresses are      *)
(* page numbers: a virtual or physical 4 KB page number n stands for      *)
(* addresses n * 4096 .. n * 4096 + 4095.                                  *)
(***************************************************************************)
EXTENDS Integers, TLC

NUM_PAGE_TABLE_DESC == 1024
NUM_PAGE_DESC == 1024
VIDEO_PAGE == 184                     \* VIDEO_START >> 12, 0xB8000 >> 12
KERNEL_START_4M == 1                  \* KERNEL_START >> 22
USRMAP_PDE == 33                      \* 132 / 4
Tables == {"usr", "usrmap"}

DirEntries == 0 .. NUM_PAGE_TABLE_DESC - 1
TableEntries == 0 .. NUM_PAGE_DESC - 1

\* a page_dir_entry_4KB_t pointing at one of the page tables
PDE4KB(table) == [present |-> 1, user_super |-> 1, pageSize |-> 0, pg_addr |-> 0, table |-> table]

\* a page_dir_entry_4MB_t
PDE4MB(present, pg_addr) ==
    [present |-> present, user_super |-> 1, pageSize |-> 1, pg_addr |-> pg_addr, table |-> "none"]

\* a page_table_entry_t
PTE(present, pg_addr) == [present |-> present, usr_super |-> 1, pg_addr |-> pg_addr]

\* the zero-initialised static arrays before paging_init
EmptyDir == [i \in DirEntries |-> [PDE4MB(0, 0) EXCEPT !.user_super = 0, !.pageSize = 0]]
EmptyTable == [i \in TableEntries |-> [PTE(0, 0) EXCEPT !.usr_super = 0]]

\* mutant: the kernel page's pg_addr is KERNEL_START >> 12, as for a 4 KB
\* entry; the 10-bit field keeps 1024 % 2^10 = 0
init_page_dir_kernel_shift12 ==
    (0 :> PDE4KB("usr")) @@ (1 :> PDE4MB(1, 1024 % 2^10)) @@ (USRMAP_PDE :> PDE4KB("usrmap"))
        @@ [i \in DirEntries |-> PDE4MB(0, i)]

\* init_page_dir: entry 0 the usr table, entry 1 the 4 MB kernel page,
\* entry 33 the usrmap table, and 2..1023 but 33 absent 4 MB pages with
\* pg_addr = i * _4M >> 22
init_page_dir ==
    (0 :> PDE4KB("usr")) @@ (1 :> PDE4MB(1, KERNEL_START_4M)) @@ (USRMAP_PDE :> PDE4KB("usrmap"))
        @@ [i \in DirEntries |-> PDE4MB(0, i)]

\* the four pages B8000 - BC000: the screen and the terminals' buffers
VideoPages == VIDEO_PAGE .. VIDEO_PAGE + 3

\* init_user_page_table: identity entries in both tables, present only for
\* the video pages in usr and for VIDEO_START >> 12 in usrmap
init_user_page_table ==
    [usr    |-> [i \in TableEntries |-> PTE(IF i \in VideoPages THEN 1 ELSE 0, i)],
     usrmap |-> [i \in TableEntries |-> PTE(IF i = VIDEO_PAGE THEN 1 ELSE 0, i)]]

(***************************************************************************)
(* The MMU: the physical page a virtual page maps to (-1 on a fault), and  *)
(* whether ring 3 may touch it (user_super set at both levels).            *)
(***************************************************************************)
Translate(dir, tbl, vpage) ==
    LET pde == dir[vpage \div NUM_PAGE_DESC]
        pte == tbl[pde.table][vpage % NUM_PAGE_DESC]
    IN CASE pde.present = 0 -> -1
         [] pde.pageSize = 1 -> pde.pg_addr * NUM_PAGE_DESC + (vpage % NUM_PAGE_DESC)
         [] pte.present = 0 -> -1
         [] OTHER -> pte.pg_addr

\* some page ring 3 may access maps into physical pages lo..hi
UserReaches(dir, tbl, lo, hi) ==
    \E d \in DirEntries :
        LET pde == dir[d] IN
        /\ pde.present = 1 /\ pde.user_super = 1
        /\ IF pde.pageSize = 1
           THEN pde.pg_addr * NUM_PAGE_DESC <= hi /\ lo < (pde.pg_addr + 1) * NUM_PAGE_DESC
           ELSE \E j \in TableEntries :
                   /\ tbl[pde.table][j].present = 1 /\ tbl[pde.table][j].usr_super = 1
                   /\ tbl[pde.table][j].pg_addr \in lo .. hi

PagingTypeOK(dir, tbl) ==
    /\ dir \in [DirEntries -> [present : {0, 1}, user_super : {0, 1}, pageSize : {0, 1},
                               pg_addr : 0 .. 1023, table : Tables \cup {"none"}]]
    /\ tbl \in [Tables -> [TableEntries -> [present : {0, 1}, usr_super : {0, 1},
                                            pg_addr : 0 .. 2^20 - 1]]]

=============================================================================
