-------------------------------- MODULE Mem --------------------------------
(***************************************************************************)
(* Paging-based memory: src/libmem.c, src/mm-vm.c and the 5-level tables   *)
(* of src/mm64.c, for a set of processes that execute ALLOC, FREE, READ,   *)
(* WRITE and the memmap system call on as many CPUs and share one RAM.     *)
(*                                                                         *)
(* Everything in a process's mm_struct is touched by its own CPU only; the *)
(* processes meet in the free-frame list of the RAM and in its contents.   *)
(* MEMPHY_get_freefp and MEMPHY_put_freefp read the head of the list and   *)
(* later store a new head, with no lock, so each is two actions, and an    *)
(* instruction that faults is a series of them.  An instruction that does  *)
(* not fault is one action.                                                *)
(*                                                                         *)
(* Page numbers are below MAX_PGN, so the PGD, P4D and PUD index is always *)
(* 0 and only the PMD index varies: tab[p] holds the frames of the P4D,    *)
(* PUD and PMD table (keys 1, 2, 3) and of the page tables (keys 4, ...).  *)
(* Of a register only whether it is 0 matters (libfree).  fifo_pgn,        *)
(* vm_freerg_list and the swap devices are written but never read by these *)
(* instructions and are left out.  Of memmap this module has what          *)
(* sys_mem.c:69-92 does once it has its caller; module Syscall has the     *)
(* search for the caller.                                                  *)
(***************************************************************************)
EXTENDS Integers, Sequences, FiniteSets

CONSTANTS
    Procs,
    NumFrames,      \* RAM size in frames
    PAGESZ,         \* 4096 in mm.h
    MAX_PGN,        \* 1024: PAGING_CPU_BUS_WIDTH is 22 bits
    PT_ENTRIES,     \* 512 pages to a page table
    InitEnd,        \* 0x100000, vm_end of a new process
    DefaultSize,    \* 100, the region an access allocates by itself
    Wrap,           \* 2^64, the range of addr_t
    Regions,        \* ids that name a region and a register, 0 to 9
    Sizes, Offsets, Vals,    \* arguments of the instructions
    MapArgs,        \* arguments of SYSMEM_MAP_OP: [addr, pgnum]
    IncAreas,       \* area numbers, as int, given to SYSMEM_INC_OP
    IoAddrs,        \* physical addresses given to SYSMEM_IO_WRITE
    Pattern,        \* 0xdeadbeef, the frame MAP begins with
    FpnRange,       \* 2^13, the frame numbers a PTE can hold
    MaxInstr        \* bound: instructions per process

ASSUME MemAssumption ==
    /\ {NumFrames, PAGESZ, MAX_PGN, PT_ENTRIES, Wrap} \subseteq Nat \ {0}
    /\ {InitEnd, DefaultSize, MaxInstr} \subseteq Nat
    /\ PAGESZ <= InitEnd /\ InitEnd < Wrap
    /\ Sizes \subseteq Nat /\ Offsets \subseteq Nat
    /\ Vals \subseteq Nat
    /\ MapArgs \subseteq [addr : Nat, pgnum : Nat]
    /\ IncAreas \subseteq Int /\ IoAddrs \subseteq Nat
    /\ Pattern \in Nat /\ FpnRange \in Nat \ {0} /\ NumFrames <= FpnRange

Frames  == 0 .. NumFrames - 1
None    == -1                        \* no frame
Pages   == 0 .. MAX_PGN - 1
Depth   == 4                         \* tables on the way to a PTE
Keys    == 1 .. Depth + (MAX_PGN - 1) \div PT_ENTRIES

\* Variant: a page number mask that is too narrow.
PGN_Narrow(addr) == (addr \div PAGESZ) % 2

PGN(addr) == (addr \div PAGESZ) % MAX_PGN

\* Variant: an offset mask that is too narrow.
OFFST_Narrow(addr) == 0

OFFST(addr) == addr % PAGESZ

\* The table at a level on the way to page g.
Key(level, g) == IF level < Depth THEN level ELSE Depth + g \div PT_ENTRIES

VARIABLES
    freefp,         \* mram->free_fp_list
    ram,            \* mram->storage, data bytes only
    sbrk, vm_end,   \* of the one vm_area of each process
    symrgtbl,       \* regions: [lo |-> rg_start, hi |-> rg_end]
    regs,           \* 0 or 1 for "not 0"
    tab, pte,       \* frames of the tables, frame of each page
    mpc,            \* where each process is in its instruction
    op,             \* the access that faulted
    want,           \* the level the fault needs a frame for, 0 for the data
    dataf,          \* the data frame it has
    seen,           \* the free list it has read
    lost,           \* the tables it builds are not linked (init_pte, fpn 0)
    stat,           \* result of the last instruction
    left,           \* instructions left
    shadow,         \* history: what each process last wrote where
    wild,           \* an access has left a device or overwritten a table
    orphans,        \* history: frames of tables, and of pages below them,
                    \* that no entry refers to
    mapped,         \* history: the pages SYSMEM_MAP_OP has set
    overlaid,       \* history: the frames these pages had before
    raw,            \* history: bytes last written by SYSMEM_IO_WRITE
    wraps,          \* history: which of sbrk and vm_end went past 2^64
    raced           \* history: two threads were in the free list at once

ramVars   == <<ram, raw, wild>>
procVars  == <<sbrk, vm_end, symrgtbl, wraps>>
tableVars == <<tab, pte, orphans, mapped, overlaid>>
faultVars == <<op, want, dataf, seen, lost>>
vars == <<freefp, ramVars, procVars, regs, tableVars, mpc, faultVars, stat, left,
          shadow, raced>>

Hole  == [lo |-> 0, hi |-> 0]
NoOp  == [kind |-> "none", addr |-> 0, val |-> 0, dest |-> 0]
Addrs == 0 .. Wrap - 1
Cells == 0 .. MAX_PGN * PAGESZ - 1    \* the addresses page numbers tell apart

\* load() leaves regs as malloc returned them; init_mm sets the rest.
Init ==
    /\ freefp = [i \in 1 .. NumFrames |-> i - 1]
    /\ ram = [f \in Frames |-> [o \in 0 .. PAGESZ - 1 |-> 0]]
    /\ sbrk = [p \in Procs |-> PAGESZ]
    /\ vm_end = [p \in Procs |-> InitEnd]
    /\ symrgtbl = [p \in Procs |-> [r \in Regions |-> Hole]]
    /\ regs \in [Procs -> {[r \in Regions |-> 0], [r \in Regions |-> 1]}]
    /\ tab = [p \in Procs |-> [k \in Keys |-> None]]
    /\ pte = [p \in Procs |-> [g \in Pages |-> None]]
    /\ mpc = [p \in Procs |-> "idle"]
    /\ op = [p \in Procs |-> NoOp]
    /\ want = [p \in Procs |-> 0]
    /\ dataf = [p \in Procs |-> None]
    /\ seen = [p \in Procs |-> <<>>]
    /\ lost = [p \in Procs |-> FALSE]
    /\ stat = [p \in Procs |-> "ok"]
    /\ left = [p \in Procs |-> MaxInstr]
    /\ shadow = [p \in Procs |-> [a \in Cells |-> 0]]
    /\ orphans = {} /\ overlaid = {} /\ raw = {}
    /\ mapped = [p \in Procs |-> {}]
    /\ wraps = [p \in Procs |-> {}]
    /\ raced = FALSE /\ wild = FALSE

Result(p, res) == stat' = [stat EXCEPT ![p] = res]

\* The next instruction of p.
Fetch(p) ==
    /\ mpc[p] = "idle" /\ left[p] > 0
    /\ left' = [left EXCEPT ![p] = left[p] - 1]

-----------------------------------------------------------------------------
(* Regions.                                                                *)

IsHole(rg) == rg.lo = 0 /\ rg.hi = 0

AlignUp(n) == (((n + PAGESZ - 1) % Wrap) \div PAGESZ) * PAGESZ

\* Variant: the new limit is not stored.
inc_vma_limit_Forgets(end, inc) == end

\* inc_vma_limit never fails: vm_map_ram maps nothing and returns 0.
inc_vma_limit(end, inc) == (end + AlignUp(inc)) % Wrap

\* __alloc for an empty entry: what it does to the area, and the region.
NewRegion(p, size) ==
    LET end   == (sbrk[p] + size) % Wrap
        start == IF sbrk[p] = 0 THEN PAGESZ ELSE sbrk[p]
    IN  [rg  |-> [lo |-> start, hi |-> (start + size) % Wrap],
         end |-> IF end > vm_end[p]
                   THEN inc_vma_limit(vm_end[p], (end - sbrk[p]) % Wrap)
                   ELSE vm_end[p]]

__alloc(p, r, size) ==
    LET new == NewRegion(p, size) IN
    /\ symrgtbl' = [symrgtbl EXCEPT ![p][r] = new.rg]
    /\ sbrk' = [sbrk EXCEPT ![p] = new.rg.hi]
    /\ vm_end' = [vm_end EXCEPT ![p] = new.end]
    /\ wraps' = [wraps EXCEPT ![p] = @ \cup
                    (IF new.rg.hi < sbrk[p] THEN {"sbrk"} ELSE {})
                    \cup (IF new.end < vm_end[p] THEN {"vm_end"} ELSE {})]

\* An id of 30 or more is refused, with the same effect as libfree of an empty
\* entry; the ids from 10 to 29, whose register is beyond regs[10], are left out.
liballoc(p, r, size) ==
    /\ Fetch(p)
    /\ IF IsHole(symrgtbl[p][r])
         THEN /\ __alloc(p, r, size)
              /\ regs' = [regs EXCEPT ![p][r] = 1]
              /\ Result(p, "ok")
         ELSE Result(p, "error") /\ UNCHANGED <<procVars, regs>>
    /\ UNCHANGED <<freefp, ramVars, tableVars, mpc, faultVars, shadow, raced>>

\* libfree and __free: only the table entry is reset.
libfree(p, r) ==
    LET rg == symrgtbl[p][r] IN
    /\ Fetch(p)
    /\ IF regs[p][r] # 0 /\ ~IsHole(rg) /\ rg.lo < rg.hi
         THEN /\ symrgtbl' = [symrgtbl EXCEPT ![p][r] = Hole]
              /\ Result(p, "ok")
         ELSE Result(p, "error") /\ UNCHANGED symrgtbl
    /\ UNCHANGED <<freefp, ramVars, sbrk, vm_end, wraps, regs, tableVars, mpc, faultVars,
                   shadow, raced>>

-----------------------------------------------------------------------------
(* Reads and writes.                                                       *)

\* The walk through the tables: the frame of page g, or None.
pte_get_entry(p, g) ==
    IF \A l \in 1 .. Depth : tab[p][Key(l, g)] # None THEN pte[p][g] ELSE None

Cell(f, o) == f * PAGESZ + o

\* The frames that hold tables, linked or in use by a fault that lost them.
Tables == ({tab[p][k] : p \in Procs, k \in Keys} \ {None})
             \cup (IF \E p \in Procs : lost[p] THEN orphans ELSE {})

\* MEMPHY_read or MEMPHY_write of frame f, and the register of a READ.  The
\* devices check no bounds: beyond the RAM anything may happen.  An entry set
\* by MAP may lead to a frame that holds a table: a write overwrites it, and a
\* read may find anything.
Transfer(p, o, f) ==
    \/ /\ f \notin Frames \/ (o.kind = "write" /\ f \in Tables)
       /\ wild' = TRUE
       /\ UNCHANGED <<ram, raw, regs, shadow>>
    \/ /\ f \in Frames \ Tables /\ o.kind = "write"
       /\ ram' = [ram EXCEPT ![f][OFFST(o.addr)] = o.val]
       /\ raw' = raw \ {Cell(f, OFFST(o.addr))}
       /\ shadow' = IF o.addr \in Cells
                      THEN [shadow EXCEPT ![p][o.addr] = o.val] ELSE shadow
       /\ UNCHANGED <<regs, wild>>
    \/ /\ f \in Frames /\ o.kind = "read"
       /\ \E v \in {0, 1} :
             /\ f \notin Tables => (v = 0 <=> ram[f][OFFST(o.addr)] = 0)
             /\ regs' = [regs EXCEPT ![p][o.dest] = v]
       /\ UNCHANGED <<ramVars, shadow>>

\* __read and __write: an access to an unallocated region allocates it; then
\* the offset is checked and the page looked up.
Access(p, r, off, kind, val, dest) ==
    LET hole == IsHole(symrgtbl[p][r])
        rg   == IF hole THEN NewRegion(p, DefaultSize).rg ELSE symrgtbl[p][r]
        o    == [kind |-> kind, addr |-> rg.lo + off, val |-> val, dest |-> dest]
        f    == pte_get_entry(p, PGN(o.addr))
        inside == rg.lo < rg.hi /\ off < rg.hi - rg.lo
    IN
    /\ Fetch(p)
    /\ IF hole THEN __alloc(p, r, DefaultSize) ELSE UNCHANGED procVars
    /\ \/ /\ ~inside
          /\ Result(p, "error")
          /\ UNCHANGED <<ramVars, regs, shadow, mpc, op>>
       \/ /\ inside /\ f # None
          /\ Transfer(p, o, f)
          /\ Result(p, "ok")
          /\ UNCHANGED <<mpc, op>>
       \/ /\ inside /\ f = None
          /\ mpc' = [mpc EXCEPT ![p] = "load"]
          /\ op' = [op EXCEPT ![p] = o]
          /\ UNCHANGED <<ramVars, regs, shadow, stat>>
    /\ UNCHANGED <<freefp, tableVars, want, dataf, seen, lost, raced>>

libread(p, r, off, dest) == Access(p, r, off, "read", 0, dest)
libwrite(p, val, r, off) == Access(p, r, off, "write", val, r)

-----------------------------------------------------------------------------
(* Page faults: pg_getpage, pte_set_fpn, ensure_pte_mapping.               *)

\* Another thread is between its read and its store of the list head.
InList(p) == \E q \in Procs \ {p} : mpc[q] \in {"store", "putstore"}

\* Variant: the last level is not looked at.
FirstMissing_Short(p, a, l, linked) ==
    LET missing == {k \in l .. Depth - 1 :
                       ~linked \/ tab[p][Key(k, PGN(a))] = None}
    IN  IF missing = {} THEN Depth + 1
        ELSE CHOOSE k \in missing : \A j \in missing : k <= j

\* The first level from l on with no table for address a, or Depth + 1.
FirstMissing(p, a, l, linked) ==
    LET missing == {k \in l .. Depth :
                       ~linked \/ tab[p][Key(k, PGN(a))] = None}
    IN  IF missing = {} THEN Depth + 1
        ELSE CHOOSE k \in missing : \A j \in missing : k <= j

\* The fault is over: back to the next instruction.
EndFault(p) ==
    /\ mpc' = [mpc EXCEPT ![p] = "idle"]
    /\ op' = [op EXCEPT ![p] = NoOp]
    /\ want' = [want EXCEPT ![p] = 0]
    /\ dataf' = [dataf EXCEPT ![p] = None]
    /\ seen' = [seen EXCEPT ![p] = <<>>]
    /\ lost' = [lost EXCEPT ![p] = FALSE]

\* vmap_pgd_memset, one page: pte_set_fpn looks for the tables of o.addr.
MemsetPage(p, o) ==
    LET next == FirstMissing(p, o.addr, 1, TRUE) IN
    /\ op' = [op EXCEPT ![p] = o]
    /\ want' = [want EXCEPT ![p] = next]
    /\ mpc' = [mpc EXCEPT ![p] = IF next > Depth THEN "map" ELSE "load"]
    /\ seen' = [seen EXCEPT ![p] = <<>>]
    /\ lost' = [lost EXCEPT ![p] = FALSE]
    /\ UNCHANGED dataf

\* vmap_pgd_memset goes on to the next page (val counts the pages left, dest
\* those done), whether or not the last one could be mapped.
NextPage(p) ==
    IF op[p].val = 1
      THEN EndFault(p) /\ Result(p, "ok")
      ELSE /\ MemsetPage(p, [op[p] EXCEPT !.addr = (@ + PAGESZ) % Wrap,
                                          !.val = @ - 1, !.dest = @ + 1])
           /\ UNCHANGED stat

\* MEMPHY_get_freefp, first half.
FrameLoad(p) ==
    /\ mpc[p] = "load" /\ freefp # <<>>
    /\ seen' = [seen EXCEPT ![p] = freefp]
    /\ mpc' = [mpc EXCEPT ![p] = "store"]
    /\ raced' = (raced \/ InList(p))
    /\ UNCHANGED <<freefp, ramVars, procVars, regs, tableVars, op, want, dataf,
                   lost, stat, left, shadow>>

\* No free frame.  Without the data frame the access just fails; a data frame
\* that cannot be mapped goes back to the list.
OutOfFrames(p) ==
    /\ mpc[p] = "load" /\ freefp = <<>>
    /\ \/ op[p].kind = "map" /\ NextPage(p)
       \/ op[p].kind # "map" /\ want[p] = 0 /\ EndFault(p) /\ Result(p, "nomem")
       \/ /\ op[p].kind # "map" /\ want[p] # 0
          /\ mpc' = [mpc EXCEPT ![p] = "putload"]
          /\ UNCHANGED <<faultVars, stat>>
    /\ UNCHANGED <<freefp, ramVars, procVars, regs, tableVars, left, shadow, raced>>

\* MEMPHY_get_freefp, second half, for the data frame.
DataFrame(p) ==
    LET f    == Head(seen[p])
        next == FirstMissing(p, op[p].addr, 1, TRUE)
    IN
    /\ mpc[p] = "store" /\ want[p] = 0
    /\ freefp' = Tail(seen[p])
    /\ dataf' = [dataf EXCEPT ![p] = f]
    /\ seen' = [seen EXCEPT ![p] = <<>>]
    /\ want' = [want EXCEPT ![p] = next]
    /\ mpc' = [mpc EXCEPT ![p] = IF next > Depth THEN "map" ELSE "load"]
    /\ UNCHANGED <<ramVars, procVars, regs, tableVars, op, lost, stat, left, shadow,
                   raced>>

\* Whether init_pte sets an entry to frame f.
init_pte(f) == f # 0

\* The same for a table: link it and fill it with zeros.  A table in frame 0 is
\* not linked: the tables below it are built but cannot be found again.
TableFrame(p) ==
    LET f      == Head(seen[p])
        linked == init_pte(f) /\ ~lost[p]
        next   == FirstMissing(p, op[p].addr, want[p] + 1, linked)
    IN
    /\ mpc[p] = "store" /\ want[p] # 0
    /\ freefp' = Tail(seen[p])
    /\ ram' = [ram EXCEPT ![f] = [o \in 0 .. PAGESZ - 1 |-> 0]]
    /\ raw' = raw \ {Cell(f, o) : o \in 0 .. PAGESZ - 1}
    /\ IF linked
         THEN /\ tab' = [tab EXCEPT ![p][Key(want[p], PGN(op[p].addr))] = f]
              /\ UNCHANGED orphans
         ELSE orphans' = orphans \cup {f} /\ UNCHANGED tab
    /\ lost' = [lost EXCEPT ![p] = ~linked]
    /\ seen' = [seen EXCEPT ![p] = <<>>]
    /\ want' = [want EXCEPT ![p] = next]
    /\ mpc' = [mpc EXCEPT ![p] = IF next > Depth THEN "map" ELSE "load"]
    /\ UNCHANGED <<procVars, regs, pte, mapped, overlaid, wild, op, dataf, stat,
                   left, shadow, raced>>

\* Every table is there: set the PTE and make the access.
MapPage(p) ==
    /\ mpc[p] = "map" /\ op[p].kind # "map"
    /\ IF lost[p]
         THEN orphans' = orphans \cup {dataf[p]} /\ UNCHANGED pte
         ELSE /\ pte' = [pte EXCEPT ![p][PGN(op[p].addr)] = dataf[p]]
              /\ UNCHANGED orphans
    /\ Transfer(p, op[p], dataf[p])
    /\ Result(p, "ok")
    /\ EndFault(p)
    /\ UNCHANGED <<freefp, procVars, tab, mapped, overlaid, left, raced>>

\* Variant: the mask of the frame number is missing.
PTE_FPN_Unmasked(fpn) == fpn

\* The frame number a PTE set to fpn holds.
PTE_FPN(fpn) == fpn % FpnRange

\* The same for vmap_pgd_memset: the PTE gets the pattern, whatever it held,
\* and no frame is taken or given back.
MemsetPte(p) ==
    LET g == PGN(op[p].addr) IN
    /\ mpc[p] = "map" /\ op[p].kind = "map"
    /\ IF lost[p]
         THEN UNCHANGED <<pte, mapped, overlaid>>
         ELSE /\ pte' = [pte EXCEPT ![p][g] = PTE_FPN(Pattern + op[p].dest)]
              /\ mapped' = [mapped EXCEPT ![p] = @ \cup {g}]
              /\ overlaid' = IF g \in mapped[p] THEN overlaid
                             ELSE overlaid \cup ({pte[p][g]} \ {None})
    /\ NextPage(p)
    /\ UNCHANGED <<freefp, ramVars, procVars, regs, tab, orphans, left, shadow,
                   raced>>

\* MEMPHY_put_freefp, in two halves.
PutLoad(p) ==
    /\ mpc[p] = "putload"
    /\ seen' = [seen EXCEPT ![p] = freefp]
    /\ mpc' = [mpc EXCEPT ![p] = "putstore"]
    /\ raced' = (raced \/ InList(p))
    /\ UNCHANGED <<freefp, ramVars, procVars, regs, tableVars, op, want, dataf,
                   lost, stat, left, shadow>>

\* Variant: the data frame is not given back.
PutStore_Leaks(p) ==
    /\ mpc[p] = "putstore"
    /\ freefp' = seen[p]
    /\ EndFault(p)
    /\ Result(p, "nomem")
    /\ UNCHANGED <<ramVars, procVars, regs, tableVars, left, shadow, raced>>

PutStore(p) ==
    /\ mpc[p] = "putstore"
    /\ freefp' = <<dataf[p]>> \o seen[p]
    /\ EndFault(p)
    /\ Result(p, "nomem")
    /\ UNCHANGED <<ramVars, procVars, regs, tableVars, left, shadow, raced>>

pg_getpage(p) ==
    \/ FrameLoad(p) \/ OutOfFrames(p) \/ DataFrame(p) \/ TableFrame(p)
    \/ MapPage(p) \/ MemsetPte(p) \/ PutLoad(p) \/ PutStore(p)

-----------------------------------------------------------------------------
(* The operations of __sys_memmap.                                         *)

\* SYSMEM_MAP_OP.
SysMap(p, addr, pgnum) ==
    /\ Fetch(p)
    /\ IF pgnum = 0
         THEN Result(p, "ok") /\ UNCHANGED <<mpc, faultVars>>
         ELSE /\ MemsetPage(p, [kind |-> "map", addr |-> addr, val |-> pgnum,
                                dest |-> 0])
              /\ UNCHANGED stat
    /\ UNCHANGED <<freefp, ramVars, procVars, regs, tableVars, shadow, raced>>

\* SYSMEM_INC_OP: get_vma_by_num stops at the one area for every number up
\* to 0, and the result of inc_vma_limit is not looked at.
SysInc(p, area, size) ==
    LET end == IF area <= 0 THEN inc_vma_limit(vm_end[p], size) ELSE vm_end[p] IN
    /\ Fetch(p)
    /\ vm_end' = [vm_end EXCEPT ![p] = end]
    /\ wraps' = [wraps EXCEPT ![p] =
                    IF end < vm_end[p] THEN @ \cup {"vm_end"} ELSE @]
    /\ Result(p, "ok")
    /\ UNCHANGED <<freefp, ramVars, sbrk, symrgtbl, regs, tableVars, mpc,
                   faultVars, shadow, raced>>

\* SYSMEM_IO_WRITE: a byte anywhere in the RAM, tables included.
SysIoWrite(p, addr, val) ==
    LET f == addr \div PAGESZ IN
    /\ Fetch(p)
    /\ IF f \in Frames \ Tables
         THEN /\ ram' = [ram EXCEPT ![f][addr % PAGESZ] = val]
              /\ raw' = raw \cup {addr}
              /\ UNCHANGED wild
         ELSE wild' = TRUE /\ UNCHANGED <<ram, raw>>
    /\ Result(p, "ok")
    /\ UNCHANGED <<freefp, procVars, regs, tableVars, mpc, faultVars, shadow,
                   raced>>

\* SYSMEM_IO_READ, whose value stays in the copy of the registers, SYSMEM_SWP_OP,
\* which copies a frame to a device nothing reads, and unknown operations.  The
\* first two may be given an address or a frame that the device has not got.
SysOther(p) ==
    /\ Fetch(p)
    /\ wild' \in BOOLEAN
    /\ Result(p, "ok")
    /\ UNCHANGED <<freefp, ram, raw, procVars, regs, tableVars, mpc, faultVars,
                   shadow, raced>>

memmap(p) ==
    \/ \E m \in MapArgs : SysMap(p, m.addr, m.pgnum)
    \/ \E area \in IncAreas, size \in Sizes : SysInc(p, area, size)
    \/ \E addr \in IoAddrs, val \in Vals : SysIoWrite(p, addr, val)
    \/ IoAddrs # {} /\ SysOther(p)

Instruction(p) ==
    \/ \E r \in Regions :
          \/ \E size \in Sizes : liballoc(p, r, size)
          \/ libfree(p, r)
          \/ \E off \in Offsets :
                \/ \E dest \in Regions : libread(p, r, off, dest)
                \/ \E val \in Vals : libwrite(p, val, r, off)
    \/ memmap(p)

-----------------------------------------------------------------------------
(* The places a frame can be: <<kind, owner, index, frame>>.               *)

Places ==
    {<<"free", "ram", i, freefp[i]>> : i \in DOMAIN freefp}
    \cup {<<"table", p, k, tab[p][k]>> : p \in Procs, k \in Keys}
    \cup (UNION {{<<"page", p, g, pte[p][g]>> : g \in Pages \ mapped[p]} :
                    p \in Procs})
    \cup {<<"overlaid", "ram", 0, f>> : f \in overlaid}
    \cup {<<"hand", p, 0, dataf[p]>> : p \in Procs}
    \cup {<<"orphan", "ram", 0, f>> : f \in orphans}

InUse  == {x \in Places : x[4] # None}
Placed == {x[4] : x \in InUse}

\* Two users of one frame.  After a race for the free list tables and data
\* then overwrite each other, and the model stops; so it does after a wild
\* access.
Shared == Cardinality(InUse) # Cardinality(Placed)
Broken == wild \/ (raced /\ Shared)

AllDone == \A p \in Procs : mpc[p] = "idle" /\ left[p] = 0

Stop == (Broken \/ AllDone) /\ UNCHANGED vars

Next ==
    \/ ~Broken /\ \E p \in Procs : Instruction(p) \/ pg_getpage(p)
    \/ Stop

Spec == Init /\ [][Next]_vars

-----------------------------------------------------------------------------
(* Properties.                                                             *)

\* Type invariant.
TypeOK ==
    /\ \A i \in DOMAIN freefp : freefp[i] \in Frames
    /\ sbrk \in [Procs -> Addrs] /\ vm_end \in [Procs -> Addrs]
    /\ symrgtbl \in [Procs -> [Regions -> [lo : Addrs, hi : Addrs]]]
    /\ regs \in [Procs -> [Regions -> {0, 1}]]
    /\ tab \in [Procs -> [Keys -> Frames \cup {None}]]
    /\ \A p \in Procs, g \in Pages : pte[p][g] \in
          IF g \in mapped[p] THEN 0 .. FpnRange - 1 ELSE Frames \cup {None}
    /\ mpc \in [Procs -> {"idle", "load", "store", "map", "putload", "putstore"}]
    /\ want \in [Procs -> 0 .. Depth + 1]
    /\ dataf \in [Procs -> Frames \cup {None}]
    /\ stat \in [Procs -> {"ok", "error", "nomem"}]
    /\ orphans \subseteq Frames /\ overlaid \subseteq Frames
    /\ raw \subseteq 0 .. NumFrames * PAGESZ - 1
    /\ wraps \in [Procs -> SUBSET {"sbrk", "vm_end"}]

\* Through faults, failed faults and put-backs of all processes every frame
\* is free, or a table of one process, or one page of one process, or in one
\* thread's hands, or orphaned: none is lost and none is shared, as long as
\* no two threads are in the free list at once (libmem.c:169-209,
\* mm64.c:245-325).
FrameAccounting == raced \/ (~Shared /\ Placed = Frames)

\* "The memory engine isolates process spaces" (README.md:20): what a process
\* last wrote at an address is what the page tables lead it to, whatever the
\* others write, as long as the list is not raced for, no table is lost and
\* the process stays below the bus width; bytes it has replaced itself, by a
\* MAP of the page or an IO_WRITE, excepted.
ReadBack ==
    \/ raced \/ orphans # {}
    \/ \A p \in Procs, a \in Cells :
          LET f == pte[p][PGN(a)] IN
          \/ f = None \/ PGN(a) \in mapped[p]
          \/ "sbrk" \in wraps[p] \/ sbrk[p] > MAX_PGN * PAGESZ
          \/ Cell(f, OFFST(a)) \in raw
          \/ ram[f][OFFST(a)] = shadow[p][a]

\* A page is reachable only through linked tables (mm64.c:334-401).
PagesHaveTables ==
    \A p \in Procs, g \in Pages : pte[p][g] # None =>
        \A l \in 1 .. Depth : tab[p][Key(l, g)] # None

\* Until sbrk itself passes 2^64, the regions of a process lie between the
\* first page and sbrk and no two of them share an address, in whatever order
\* regions are allocated, freed and allocated by an access, and even after the
\* limit of the area has wrapped; until then sbrk stays within the area
\* (libmem.c:49-94, mm-vm.c:94-135).
RegionsDisjoint ==
    \A p \in Procs : "sbrk" \in wraps[p] \/
        /\ wraps[p] = {} => sbrk[p] <= vm_end[p]
        /\ \A r \in Regions : LET a == symrgtbl[p][r] IN
              ~IsHole(a) =>
                /\ PAGESZ <= a.lo /\ a.lo <= a.hi /\ a.hi <= sbrk[p]
                /\ \A s \in Regions \ {r} : LET b == symrgtbl[p][s] IN
                      IsHole(b) \/ a.hi <= b.lo \/ b.hi <= a.lo

-----------------------------------------------------------------------------
(* What the repository says of the code, without provisos.                 *)

\* "isolates process spaces" (README.md:20), with no proviso on the race.
Isolated == ~Shared

\* "Ensure all page table levels are allocated and return final PTE"
\* (mm64.c:244): a table that was allocated is linked.
TablesAreLinked == orphans = {}
=============================================================================
