--------------------------- MODULE ReadBackProofs ---------------------------
(***************************************************************************)
(* What a process wrote is what it reads (ReadBack of module Mem), for     *)
(* every number of processes, frames, pages and regions.  On top of the    *)
(* layers of MemProofs:                                                    *)
(*                                                                         *)
(*   - AccessInv: where the access of a fault goes, and how far a MAP is;  *)
(*   - BytesInv: the frames nobody uses are clear, a process has written   *)
(*     nothing to pages it does not have, and the bytes of the pages it    *)
(*     has are what it wrote.                                              *)
(***************************************************************************)
EXTENDS MemProofs

Bytes == 0 .. PAGESZ - 1

\* The frame numbers MAP writes are not those of the RAM.  0xdeadbeef leaves
\* 7919 of the 8192 a PTE holds, beyond the 256 frames of the default RAM, as
\* long as no call maps more than 273 pages.
PatternOutside ==
    \A m \in MapArgs : \A i \in 0 .. m.pgnum - 1 :
        PTE_FPN(Pattern + i) \notin Frames

-----------------------------------------------------------------------------
(* The invariants.                                                         *)

\* An access with break s and history w is below the break, and a MAP counts
\* the pages of one of its arguments.
AccessOK(o, s, w) ==
    /\ o.kind \in {"read", "write"} => "sbrk" \in w \/ o.addr < s
    /\ o.kind = "map" => \E m \in MapArgs : o.dest + o.val = m.pgnum

AccessInv == \A p \in Procs : AccessOK(op[p], sbrk[p], wraps[p])

\* The pages MAP has set lead out of the RAM.
MappedInv ==
    \A p \in Procs : \A g \in mapped[p] : pte[p][g] \notin Frames

\* The processes ReadBack does not speak of: sbrk has wrapped or is beyond
\* the addresses that page numbers tell apart.
Beyond == {p \in Procs : "sbrk" \in wraps[p] \/ sbrk[p] > MAX_PGN * PAGESZ}

\* The frames nobody has put anything in.
Unused ==
    {f \in Frames : \/ \E i \in 1 .. Len(freefp) : freefp[i] = f
                    \/ \E p \in Procs : dataf[p] = f}

\* Frames in U hold 0 in storage rm, but for the raw bytes rw.
ClearOK(U, rm, rw) ==
    \A f \in U : \A o \in Bytes : rm[f][o] = 0 \/ Cell(f, o) \in rw

\* A process has written (sh) only to pages it has.
UnwrittenOK(pt, sh) ==
    \A p \in Procs : \A a \in Cells : pt[p][PGN(a)] = None => sh[p][a] = 0

\* The byte of page table pt, in storage rm, is the one last written.
ByteOK(p, a, pt, mp, E, rm, rw, sh) ==
    LET f == pt[p][PGN(a)] IN
    \/ f = None \/ PGN(a) \in mp[p] \/ p \in E
    \/ Cell(f, OFFST(a)) \in rw
    \/ rm[f][OFFST(a)] = sh[p][a]

ReadOK(pt, mp, E, rm, rw, sh) ==
    \A p \in Procs : \A a \in Cells : ByteOK(p, a, pt, mp, E, rm, rw, sh)

ByteType ==
    /\ ram \in [Frames -> [Bytes -> Nat]]
    /\ shadow \in [Procs -> [Cells -> Nat]]

\* The three together, with unused frames U and the processes E left out.
BytesOK(pt, mp, U, E, rm, rw, sh) ==
    ClearOK(U, rm, rw) /\ UnwrittenOK(pt, sh) /\ ReadOK(pt, mp, E, rm, rw, sh)

BytesInv ==
    \/ raced \/ orphans # {}
    \/ ByteType /\ BytesOK(pte, mapped, Unused, Beyond, ram, raw, shadow)

-----------------------------------------------------------------------------
(* Addresses.                                                              *)

\* A number is its quotient and its remainder.
LEMMA DivMod ==
    ASSUME NEW a \in Nat, NEW d \in Nat \ {0}
    PROVE  a % d = a - (a \div d) * d
  OBVIOUS

\* Quotient and remainder tell numbers apart.
LEMMA DivModUnique ==
    ASSUME NEW a \in Nat, NEW b \in Nat, NEW d \in Nat \ {0},
           a \div d = b \div d, a % d = b % d
    PROVE  a = b
  OBVIOUS

\* Multiples of d and remainders are told apart.
LEMMA DivUnique ==
    ASSUME NEW d \in Nat \ {0}, NEW f \in Nat, NEW h \in Nat,
           NEW o \in 0 .. d - 1, NEW q \in 0 .. d - 1,
           f * d + o = h * d + q
    PROVE  f = h /\ o = q
  <1>1. ASSUME NEW m \in Nat, NEW n \in Nat, m < n
        PROVE  m * d + d <= n * d
    <2>1. PICK k \in Nat : n = m + 1 + k
      BY <1>1
    <2>2. n * d = m * d + d + k * d /\ k * d >= 0
      BY <2>1
    <2> QED BY <2>2
  <1>2. ~(f < h) /\ ~(h < f)
    <2>1. PICK x \in Int, y \in Int : x = f * d /\ y = h * d
      OBVIOUS
    <2>2. x + o = y + q
      BY <2>1
    <2>3. f < h => x + d <= y
      BY <1>1, <2>1
    <2>4. h < f => y + d <= x
      BY <1>1, <2>1
    <2> QED BY <2>2, <2>3, <2>4
  <1> QED BY <1>2

\* Different bytes of the RAM have different numbers.
LEMMA CellsDiffer ==
    ASSUME NEW f \in Frames, NEW h \in Frames, NEW o \in Bytes, NEW q \in Bytes,
           Cell(f, o) = Cell(h, q)
    PROVE  f = h /\ o = q
  <1>1. f \in Nat /\ h \in Nat /\ PAGESZ \in Nat \ {0}
    BY MemAssumption DEF Frames
  <1> QED BY <1>1, DivUnique DEF Cell, Bytes

\* The page and the offset of an address.
LEMMA CellRange ==
    ASSUME NEW a \in Nat
    PROVE  PGN(a) \in Pages /\ OFFST(a) \in Bytes
  <1>1. PAGESZ \in Nat \ {0}
    BY MemAssumption
  <1>2. a % PAGESZ \in 0 .. PAGESZ - 1
    BY <1>1, ModRange
  <1> QED BY <1>2, PgnRange DEF OFFST, Bytes

\* Below the bus width an address is its page and its offset.
LEMMA CellsUnique ==
    ASSUME NEW a \in Cells, NEW b \in Cells, PGN(a) = PGN(b),
           OFFST(a) = OFFST(b)
    PROVE  a = b
  <1>1. PAGESZ \in Nat \ {0} /\ MAX_PGN \in Nat \ {0}
    BY MemAssumption
  <1>2. ASSUME NEW c \in Cells
        PROVE  c \in Nat /\ PGN(c) = c \div PAGESZ
    <2>1. c \in Nat /\ c < MAX_PGN * PAGESZ
      BY <1>1 DEF Cells
    <2>2. PICK k \in Nat : k = c \div PAGESZ /\ k * PAGESZ <= c
      BY <1>1, <2>1, DivBounds
    <2>3. k < MAX_PGN
      <3>1. CASE k >= MAX_PGN
        <4>1. PICK j \in Nat : k = MAX_PGN + j
          BY <1>1, <3>1
        <4>2. k * PAGESZ = MAX_PGN * PAGESZ + j * PAGESZ /\ j * PAGESZ >= 0
          BY <1>1, <4>1
        <4> QED BY <1>1, <2>1, <2>2, <4>2
      <3> QED BY <1>1, <3>1
    <2> QED BY <1>1, <2>1, <2>2, <2>3, ModSmall DEF PGN
  <1>3. a \div PAGESZ = b \div PAGESZ /\ a % PAGESZ = b % PAGESZ
    BY <1>2 DEF OFFST
  <1> QED BY <1>1, <1>2, <1>3, DivModUnique

-----------------------------------------------------------------------------
(* Accesses.                                                               *)

\* The break grows or wraps, and a wrap is not forgotten.
Grows ==
    \A p \in Procs : /\ wraps[p] \subseteq wraps'[p]
                     /\ "sbrk" \in wraps'[p] \/ sbrk[p] <= sbrk'[p]

\* __alloc moves the break up.
LEMMA AllocGrows ==
    ASSUME AreaInv, NEW p \in Procs, NEW r \in Regions, NEW size \in Nat,
           __alloc(p, r, size)
    PROVE  Grows /\ sbrk'[p] = NewRegion(p, size).rg.hi
  <1>1. AreaType
    BY DEF AreaInv
  <1>2. PICK hi, w : /\ hi = NewRegion(p, size).rg.hi
                     /\ w = (IF hi < sbrk[p] THEN {"sbrk"} ELSE {})
                     /\ sbrk' = [sbrk EXCEPT ![p] = hi]
                     /\ wraps[p] \cup w \subseteq wraps'[p]
                     /\ \A q \in Procs : q # p => wraps'[q] = wraps[q]
    BY <1>1 DEF __alloc, AreaType
  <1>3. hi \in Nat
    BY <1>1, <1>2, NewRegionProps, MemAssumption DEF Spans, Addrs
  <1>4. \A q \in Procs : sbrk[q] \in Nat
    BY <1>1, MemAssumption DEF AreaType, Addrs
  <1>5. sbrk'[p] = hi /\ \A q \in Procs : q # p => sbrk'[q] = sbrk[q]
    BY <1>1, <1>2 DEF AreaType
  <1> QED BY <1>2, <1>3, <1>4, <1>5 DEF Grows

\* No step but an allocation moves the break.
LEMMA BreakGrows ==
    ASSUME AreaInv, [Next]_vars
    PROVE  Grows
  <1>1. \A q \in Procs : sbrk[q] \in Nat
    BY MemAssumption DEF AreaInv, AreaType, Addrs
  <1>2. ASSUME UNCHANGED <<sbrk, wraps>>
        PROVE  Grows
    BY <1>1, <1>2 DEF Grows
  <1>3. ASSUME NEW p \in Procs, Acts(p)
        PROVE  Grows
    <2>1. ASSUME NEW r \in Regions, NEW size \in Nat, liballoc(p, r, size)
          PROVE  Grows
      BY <1>2, <2>1, AllocGrows DEF liballoc, procVars
    <2>2. ASSUME NEW r \in Regions, libfree(p, r)
          PROVE  Grows
      BY <1>2, <2>2 DEF libfree
    <2>3. ASSUME NEW r \in Regions, NEW dest \in Regions, NEW off \in Nat,
                 NEW val \in Nat, NEW kind \in {"read", "write"},
                 Access(p, r, off, kind, val, dest)
          PROVE  Grows
      <3>1. __alloc(p, r, DefaultSize) \/ UNCHANGED procVars
        BY <2>3 DEF Access
      <3>2. DefaultSize \in Nat
        BY MemAssumption
      <3> QED BY <1>2, <3>1, <3>2, AllocGrows DEF procVars
    <2>4. ASSUME NEW area \in Int, NEW size \in Nat, SysInc(p, area, size)
          PROVE  Grows
      <3>1. sbrk' = sbrk /\ \A q \in Procs : wraps[q] \subseteq wraps'[q]
        BY <2>4 DEF SysInc, AreaInv, AreaType
      <3> QED BY <1>1, <3>1 DEF Grows
    <2>5. ASSUME \/ \E m \in MapArgs : SysMap(p, m.addr, m.pgnum)
                 \/ \E addr \in Nat, val \in Nat : SysIoWrite(p, addr, val)
                 \/ SysOther(p) \/ pg_getpage(p)
          PROVE  Grows
      <3>1. UNCHANGED procVars
        BY <2>5 DEF SysMap, SysIoWrite, SysOther, pg_getpage, FrameLoad,
                    OutOfFrames, DataFrame, TableFrame, MapPage, MemsetPte,
                    PutLoad, PutStore
      <3> QED BY <1>2, <3>1 DEF procVars
    <2> QED BY <1>3, <2>1, <2>2, <2>3, <2>4, <2>5 DEF Acts
  <1> QED BY <1>2, <1>3, NextCases DEF vars, procVars

\* A process that is beyond the bus width stays there.
LEMMA BeyondGrows ==
    ASSUME AreaInv, AreaInv', Grows
    PROVE  Beyond \subseteq Beyond'
  <1>1. \A p \in Procs : sbrk[p] \in Nat /\ sbrk'[p] \in Nat
    BY MemAssumption DEF AreaInv, AreaType, Addrs
  <1>2. PICK n \in Int : n = MAX_PGN * PAGESZ
    BY MemAssumption
  <1>3. ASSUME NEW p \in Beyond
        PROVE  p \in Beyond'
    <2>1. p \in Procs /\ ("sbrk" \in wraps[p] \/ sbrk[p] > n)
      BY <1>2 DEF Beyond
    <2>2. "sbrk" \in wraps'[p] \/ sbrk'[p] > n
      BY <1>1, <2>1 DEF Grows
    <2> QED BY <1>2, <2>1, <2>2 DEF Beyond
  <1> QED BY <1>3

\* What an access does: it fails, it reaches the RAM, or it faults.
LEMMA AccessCases ==
    ASSUME AreaInv, NEW p \in Procs, NEW r \in Regions, NEW dest \in Regions,
           NEW off \in Nat, NEW val \in Nat, NEW kind \in {"read", "write"},
           Access(p, r, off, kind, val, dest)
    PROVE  \/ UNCHANGED <<ramVars, shadow, op>>
           \/ \E o \in Ops :
                 /\ o.kind = kind /\ AccessOK(o, sbrk'[p], wraps'[p])
                 /\ \/ /\ pte_get_entry(p, PGN(o.addr)) # None
                       /\ Transfer(p, o, pte_get_entry(p, PGN(o.addr)))
                       /\ op' = op
                    \/ /\ op' = [op EXCEPT ![p] = o]
                       /\ UNCHANGED <<ramVars, shadow>>
  <1>1. PICK rg : rg = IF IsHole(symrgtbl[p][r]) THEN NewRegion(p, DefaultSize).rg
                       ELSE symrgtbl[p][r]
    OBVIOUS
  <1>2. PICK o : o = [kind |-> kind, addr |-> rg.lo + off, val |-> val,
                      dest |-> dest]
    OBVIOUS
  <1>3. DefaultSize \in Nat /\ Wrap \in Nat \ {0}
    BY MemAssumption
  <1>4. rg.lo \in Nat /\ rg.hi \in Nat
    <2>1. rg \in Spans
      BY <1>1, <1>3, NewRegionProps DEF AreaInv, AreaType
    <2> QED BY <1>3, <2>1 DEF Spans, Addrs
  <1>5. o \in Ops /\ o.kind = kind /\ o.addr = rg.lo + off
    BY <1>2, <1>4 DEF Ops, Kinds
  <1>6. ASSUME rg.lo < rg.hi, off < rg.hi - rg.lo
        PROVE  AccessOK(o, sbrk'[p], wraps'[p])
    <2>1. o.addr < rg.hi
      BY <1>4, <1>5, <1>6
    <2>2. "sbrk" \in wraps'[p] \/ rg.hi <= sbrk'[p]
      <3>1. CASE IsHole(symrgtbl[p][r])
        <4>1. __alloc(p, r, DefaultSize)
          BY <3>1 DEF Access
        <4>2. sbrk'[p] = rg.hi
          BY <1>1, <1>3, <3>1, <4>1, AllocGrows
        <4> QED BY <1>4, <4>2
      <3>2. CASE ~IsHole(symrgtbl[p][r])
        <4>1. UNCHANGED procVars
          BY <3>2 DEF Access
        <4>2. "sbrk" \in wraps[p] \/ rg.hi <= sbrk[p]
          BY <1>1, <3>2 DEF AreaInv, AreaOK
        <4> QED BY <4>1, <4>2 DEF procVars
      <3> QED BY <3>1, <3>2
    <2>3. sbrk'[p] \in Nat
      <3>1. AreaInv'
        BY <1>3, AllocKeeps DEF Access, AreaInv, AreaType, procVars
      <3> QED BY <1>3, <3>1 DEF AreaInv, AreaType, Addrs
    <2>4. "sbrk" \in wraps'[p] \/ o.addr < sbrk'[p]
      BY <1>4, <1>5, <2>1, <2>2, <2>3
    <2> QED BY <1>5, <2>4 DEF AccessOK
  <1>7. CASE ~(rg.lo < rg.hi /\ off < rg.hi - rg.lo)
    BY <1>1, <1>7 DEF Access
  <1>8. CASE rg.lo < rg.hi /\ off < rg.hi - rg.lo
    <2>1. AccessOK(o, sbrk'[p], wraps'[p])
      BY <1>6, <1>8
    <2>2. \/ /\ pte_get_entry(p, PGN(o.addr)) # None
             /\ Transfer(p, o, pte_get_entry(p, PGN(o.addr)))
             /\ op' = op
          \/ /\ op' = [op EXCEPT ![p] = o]
             /\ UNCHANGED <<ramVars, shadow>>
      BY <1>1, <1>2, <1>8 DEF Access
    <2> QED BY <1>5, <2>1, <2>2
  <1> QED BY <1>7, <1>8

\* It is enough to look at the access of the process that acts.
LEMMA AccessSet ==
    ASSUME AreaInv, AreaInv', FaultInv, AccessInv, Grows, NEW p \in Procs, NEW o,
           op' = [op EXCEPT ![p] = o],
           o = op[p] \/ AccessOK(o, sbrk'[p], wraps'[p])
    PROVE  AccessInv'
  <1>1. ASSUME NEW q \in Procs
        PROVE  AccessOK(op[q], sbrk'[q], wraps'[q])
    <2>1. op[q].addr \in Nat
      BY FaultTyped, <1>1 DEF Ops
    <2>2. sbrk[q] \in Nat /\ sbrk'[q] \in Nat
      BY MemAssumption DEF AreaInv, AreaType, Addrs
    <2>3. AccessOK(op[q], sbrk[q], wraps[q])
      BY DEF AccessInv
    <2> QED BY <2>1, <2>2, <2>3 DEF AccessOK, Grows
  <1>2. ASSUME NEW q \in Procs
        PROVE  AccessOK(op'[q], sbrk'[q], wraps'[q])
    <2>1. op'[q] = IF q = p THEN o ELSE op[q]
      BY DEF FaultInv, FaultType
    <2> QED BY <1>1, <2>1
  <1> QED BY <1>2 DEF AccessInv

\* The next page of a MAP.
LEMMA NextPageAccess ==
    ASSUME AreaInv, AreaInv', FaultInv, AccessInv, Grows, NEW p \in Procs,
           op[p].kind = "map", NextPage(p)
    PROVE  AccessInv'
  <1>1. op[p] \in Ops /\ op[p].val # 0 /\ op[p].dest \in Nat
    BY FaultTyped DEF FaultOK
  <1>2. CASE op[p].val = 1
    <2>1. op' = [op EXCEPT ![p] = NoOp]
      BY <1>2 DEF NextPage, EndFault
    <2>2. AccessOK(NoOp, sbrk'[p], wraps'[p])
      BY DEF AccessOK, NoOp
    <2> QED BY <2>1, <2>2, AccessSet
  <1>3. CASE op[p].val # 1
    <2>1. PICK o : o = [op[p] EXCEPT !.addr = (@ + PAGESZ) % Wrap,
                                     !.val = @ - 1, !.dest = @ + 1]
      OBVIOUS
    <2>2. op' = [op EXCEPT ![p] = o]
      BY <1>3, <2>1 DEF NextPage, MemsetPage
    <2>3. /\ o.kind = "map" /\ o.val = op[p].val - 1 /\ o.dest = op[p].dest + 1
      BY <1>1, <1>3, <2>1, NextOp
    <2>4. PICK m \in MapArgs : op[p].dest + op[p].val = m.pgnum
      BY DEF AccessInv, AccessOK
    <2>5. o.dest + o.val = m.pgnum
      BY <1>1, <2>3, <2>4 DEF Ops
    <2>6. AccessOK(o, sbrk'[p], wraps'[p])
      BY <2>3, <2>5 DEF AccessOK
    <2> QED BY <2>2, <2>6, AccessSet
  <1> QED BY <1>2, <1>3

\* Every step keeps AccessInv.
LEMMA AccessNext ==
    ASSUME AreaInv, FaultInv, AccessInv, [Next]_vars
    PROVE  AccessInv'
  <1>1. AreaInv' /\ Grows
    BY AreaNext, BreakGrows
  <1>2. ASSUME op' = op
        PROVE  AccessInv'
    <2>1. CASE Procs = {}
      BY <2>1 DEF AccessInv
    <2>2. ASSUME NEW p \in Procs
          PROVE  AccessInv'
      <3>1. op' = [op EXCEPT ![p] = op[p]]
        BY <1>2 DEF FaultInv, FaultType
      <3> QED BY <1>1, <3>1, AccessSet
    <2> QED BY <2>1, <2>2
  <1>3. ASSUME NEW p \in Procs, op' = [op EXCEPT ![p] = NoOp]
        PROVE  AccessInv'
    <2>1. AccessOK(NoOp, sbrk'[p], wraps'[p])
      BY DEF AccessOK, NoOp
    <2> QED BY <1>1, <1>3, <2>1, AccessSet
  <1>4. ASSUME NEW p \in Procs, Acts(p)
        PROVE  AccessInv'
    <2>1. ASSUME \/ \E r \in Regions, size \in Nat : liballoc(p, r, size)
                 \/ \E r \in Regions : libfree(p, r)
                 \/ \E area \in Int, size \in Nat : SysInc(p, area, size)
                 \/ \E addr \in Nat, val \in Nat : SysIoWrite(p, addr, val)
                 \/ SysOther(p) \/ FrameLoad(p) \/ DataFrame(p)
                 \/ TableFrame(p) \/ PutLoad(p)
          PROVE  AccessInv'
      <3>1. op' = op
        BY <2>1 DEF liballoc, libfree, SysInc, SysIoWrite, SysOther, FrameLoad,
                    DataFrame, TableFrame, PutLoad, faultVars
      <3> QED BY <1>2, <3>1
    <2>2. ASSUME NEW r \in Regions, NEW dest \in Regions, NEW off \in Nat,
                 NEW val \in Nat, NEW kind \in {"read", "write"},
                 Access(p, r, off, kind, val, dest)
          PROVE  AccessInv'
      <3>1. \/ op' = op
            \/ \E o \in Ops : /\ AccessOK(o, sbrk'[p], wraps'[p])
                              /\ op' = [op EXCEPT ![p] = o]
        BY <2>2, AccessCases
      <3> QED BY <1>1, <1>2, <3>1, AccessSet
    <2>3. ASSUME NEW m \in MapArgs, SysMap(p, m.addr, m.pgnum)
          PROVE  AccessInv'
      <3>1. CASE m.pgnum = 0
        BY <1>2, <2>3, <3>1 DEF SysMap, faultVars
      <3>2. CASE m.pgnum # 0
        <4>1. PICK o : o = [kind |-> "map", addr |-> m.addr,
                            val |-> m.pgnum, dest |-> 0]
          OBVIOUS
        <4>2. op' = [op EXCEPT ![p] = o]
          BY <2>3, <3>2, <4>1 DEF SysMap, MemsetPage
        <4>3. o.kind = "map" /\ o.dest + o.val = m.pgnum
          BY <4>1, MemAssumption
        <4>4. AccessOK(o, sbrk'[p], wraps'[p])
          BY <4>3 DEF AccessOK
        <4> QED BY <1>1, <4>2, <4>4, AccessSet
      <3> QED BY <3>1, <3>2
    <2>4. ASSUME OutOfFrames(p)
          PROVE  AccessInv'
      <3>1. CASE op[p].kind = "map" /\ NextPage(p)
        BY <1>1, <3>1, NextPageAccess
      <3>2. CASE EndFault(p)
        BY <1>3, <3>2 DEF EndFault
      <3>3. CASE UNCHANGED faultVars
        BY <1>2, <3>3 DEF faultVars
      <3> QED BY <2>4, <3>1, <3>2, <3>3 DEF OutOfFrames
    <2>5. ASSUME MapPage(p) \/ PutStore(p)
          PROVE  AccessInv'
      BY <1>3, <2>5 DEF MapPage, PutStore, EndFault
    <2>6. ASSUME MemsetPte(p)
          PROVE  AccessInv'
      BY <1>1, <2>6, NextPageAccess DEF MemsetPte
    <2> QED BY <1>4, <2>1, <2>2, <2>3, <2>4, <2>5, <2>6 DEF Acts, pg_getpage
  <1> QED BY <1>2, <1>4, NextCases DEF vars, faultVars

\* A MAP leads out of the RAM.
LEMMA PatternPage ==
    ASSUME PatternOutside, FaultInv, AccessInv, NEW p \in Procs,
           op[p].kind = "map"
    PROVE  PTE_FPN(Pattern + op[p].dest) \notin Frames
  <1>1. op[p] \in Ops /\ op[p].val # 0 /\ op[p].dest \in Nat
    BY FaultTyped DEF FaultOK
  <1>2. PICK m \in MapArgs : op[p].dest + op[p].val = m.pgnum
    BY DEF AccessInv, AccessOK
  <1>3. op[p].dest \in 0 .. m.pgnum - 1
    BY <1>1, <1>2, MemAssumption DEF Ops
  <1> QED BY <1>2, <1>3 DEF PatternOutside

\* Every step keeps MappedInv.
LEMMA MappedNext ==
    ASSUME PatternOutside, AreaInv, FaultInv, TableInv, AccessInv, MappedInv,
           [Next]_vars
    PROVE  MappedInv'
  <1>1. ASSUME UNCHANGED <<pte, mapped>>
        PROVE  MappedInv'
    BY <1>1 DEF MappedInv
  <1>2. TableType
    BY DEF TableInv
  <1>3. ASSUME NEW p \in Procs, Acts(p)
        PROVE  MappedInv'
    <2>1. ASSUME ~MapPage(p), ~MemsetPte(p)
          PROVE  MappedInv'
      <3>1. CASE /\ \A r \in Regions, dest \in Regions, off \in Nat, val \in Nat,
                       kind \in {"read", "write"} :
                          ~Access(p, r, off, kind, val, dest)
                 /\ ~pg_getpage(p)
        <4>1. UNCHANGED tableVars
          BY <1>3, <3>1 DEF Acts, liballoc, libfree, SysMap, SysInc, SysIoWrite,
                            SysOther
        <4> QED BY <1>1, <4>1 DEF tableVars
      <3>2. CASE \E r \in Regions, dest \in Regions, off \in Nat, val \in Nat,
                    kind \in {"read", "write"} :
                       Access(p, r, off, kind, val, dest)
        <4>1. UNCHANGED tableVars
          BY <3>2 DEF Access
        <4> QED BY <1>1, <4>1 DEF tableVars
      <3>3. CASE pg_getpage(p)
        <4>1. UNCHANGED <<pte, mapped>>
          BY <2>1, <3>3 DEF pg_getpage, FrameLoad, OutOfFrames, DataFrame,
                            TableFrame, PutLoad, PutStore, tableVars
        <4> QED BY <1>1, <4>1
      <3> QED BY <3>1, <3>2, <3>3
    <2>2. ASSUME MapPage(p)
          PROVE  MappedInv'
      <3>1. mapped' = mapped
        BY <2>2 DEF MapPage
      <3>2. PICK g \in Pages : g = PGN(op[p].addr)
        BY FaultTyped, PgnRange DEF Ops
      <3>3. pte[p][g] = None
        <4>1. op[p].kind \in {"read", "write"}
          BY <2>2, FaultTyped DEF MapPage, FaultOK, Ops, Kinds
        <4> QED BY <3>2, <4>1, TableTyped DEF TableOK
      <3>4. g \notin mapped[p]
        <4>1. None \notin 0 .. FpnRange - 1
          BY MemAssumption DEF None
        <4> QED BY <1>2, <3>3, <4>1 DEF TableType, PteRange
      <3>5. pte' = pte \/ pte' = [pte EXCEPT ![p][g] = dataf[p]]
        BY <2>2, <3>2 DEF MapPage
      <3>6. \A q \in Procs : \A h \in mapped[q] : pte'[q][h] = pte[q][h]
        BY <1>2, <3>4, <3>5 DEF TableType
      <3> QED BY <3>1, <3>6 DEF MappedInv
    <2>3. ASSUME MemsetPte(p)
          PROVE  MappedInv'
      <3>1. PICK g \in Pages : g = PGN(op[p].addr)
        BY FaultTyped, PgnRange DEF Ops
      <3>2. PICK f : f = PTE_FPN(Pattern + op[p].dest)
        OBVIOUS
      <3>3. f \notin Frames
        BY <2>3, <3>2, PatternPage DEF MemsetPte
      <3>4. \/ UNCHANGED <<pte, mapped>>
            \/ /\ pte' = [pte EXCEPT ![p][g] = f]
               /\ mapped' = [mapped EXCEPT ![p] = @ \cup {g}]
        BY <2>3, <3>1, <3>2 DEF MemsetPte
      <3>5. ASSUME pte' = [pte EXCEPT ![p][g] = f],
                   mapped' = [mapped EXCEPT ![p] = @ \cup {g}],
                   NEW q \in Procs, NEW h \in mapped'[q]
            PROVE  pte'[q][h] \notin Frames
        <4>1. h \in Pages /\ (h \in mapped[q] \/ (q = p /\ h = g))
          BY <1>2, <3>5 DEF TableType
        <4>2. pte'[q][h] = IF q = p /\ h = g THEN f ELSE pte[q][h]
          BY <1>2, <3>5, <4>1 DEF TableType
        <4> QED BY <3>3, <4>1, <4>2 DEF MappedInv
      <3> QED BY <1>1, <3>4, <3>5 DEF MappedInv
    <2> QED BY <2>1, <2>2, <2>3
  <1> QED BY <1>1, <1>3, NextCases DEF vars, tableVars

-----------------------------------------------------------------------------
(* Bytes.                                                                  *)

\* Pages have frames of the RAM that are not in U, each one its own.
Apart(pt, mp, U) ==
    \A p \in Procs : \A g \in Pages \ mp[p] : pt[p][g] # None =>
        /\ pt[p][g] \in Frames \ U
        /\ \A q \in Procs : \A h \in Pages \ mp[q] :
              pt[q][h] = pt[p][g] => q = p /\ h = g

\* FrameInv keeps the pages apart.
LEMMA PagesApart ==
    FaultInv /\ TableInv /\ FrameInv /\ ~raced => Apart(pte, mapped, Unused)
  <1> SUFFICES ASSUME FaultInv, TableInv, FrameInv, ~raced
               PROVE  Apart(pte, mapped, Unused)
    OBVIOUS
  <1>1. OneUser(freefp, Others)
    BY DEF FrameInv
  <1>2. ASSUME NEW p \in Procs, NEW g \in Pages \ mapped[p], pte[p][g] # None
        PROVE  <<"page", p, g, pte[p][g]>> \in Others
    BY <1>2 DEF Others, PageUse
  <1>3. ASSUME NEW p \in Procs, dataf[p] # None
        PROVE  <<"hand", p, 0, dataf[p]>> \in Others
    BY <1>3 DEF Others, HandUse
  <1>4. ASSUME NEW p \in Procs, NEW g \in Pages \ mapped[p], pte[p][g] # None
        PROVE  /\ pte[p][g] \in Frames \ Unused
               /\ \A q \in Procs : \A h \in Pages \ mapped[q] :
                     pte[q][h] = pte[p][g] => q = p /\ h = g
    <2>1. PICK x : x = <<"page", p, g, pte[p][g]>> /\ x \in Others
      BY <1>2, <1>4
    <2>2. x[4] = pte[p][g] /\ x[1] = "page" /\ x[2] = p /\ x[3] = g
      BY <2>1
    <2>3. pte[p][g] \in Frames /\ \A i \in 1 .. Len(freefp) : freefp[i] # pte[p][g]
      BY <1>1, <2>1, <2>2 DEF OneUser
    <2>4. ASSUME NEW q \in Procs, dataf[q] = pte[p][g]
          PROVE  FALSE
      <3>1. PICK y : y = <<"hand", q, 0, dataf[q]>> /\ y \in Others
        BY <1>3, <1>4, <2>4
      <3>2. y[4] = x[4] /\ y[1] = "hand"
        BY <2>2, <2>4, <3>1
      <3>3. x = y
        BY <1>1, <2>1, <3>1, <3>2 DEF OneUser
      <3> QED BY <2>2, <3>2, <3>3
    <2>5. ASSUME NEW q \in Procs, NEW h \in Pages \ mapped[q],
                 pte[q][h] = pte[p][g]
          PROVE  q = p /\ h = g
      <3>1. PICK y : y = <<"page", q, h, pte[q][h]>> /\ y \in Others
        BY <1>2, <1>4, <2>5
      <3>2. y[4] = x[4] /\ y[2] = q /\ y[3] = h
        BY <2>2, <2>5, <3>1
      <3>3. x = y
        BY <1>1, <2>1, <3>1, <3>2 DEF OneUser
      <3> QED BY <2>2, <3>2, <3>3
    <2> QED BY <2>3, <2>4, <2>5 DEF Unused
  <1> QED BY <1>4 DEF Apart

\* Fewer unused frames and more processes left out ask for less.
LEMMA BytesWeaken ==
    ASSUME NEW pt, NEW mp, NEW U, NEW E, NEW rm, NEW rw, NEW sh,
           BytesOK(pt, mp, U, E, rm, rw, sh),
           NEW U2 \in SUBSET U, NEW E2, E \subseteq E2
    PROVE  BytesOK(pt, mp, U2, E2, rm, rw, sh)
  BY DEF BytesOK, ClearOK, ReadOK, ByteOK

\* What BytesOK says of a byte it does not leave out.
LEMMA PageByte ==
    ASSUME NEW pt, NEW mp, NEW U, NEW E, NEW rm, NEW rw, NEW sh,
           Apart(pt, mp, U), BytesOK(pt, mp, U, E, rm, rw, sh),
           NEW q \in Procs, NEW a \in Cells, NEW h, NEW b,
           h = pt[q][PGN(a)], b = OFFST(a),
           h # None, PGN(a) \notin mp[q], q \notin E
    PROVE  /\ PGN(a) \in Pages /\ b \in Bytes /\ h \in Frames \ U
           /\ Cell(h, b) \in rw \/ rm[h][b] = sh[q][a]
  <1>1. PGN(a) \in Pages /\ b \in Bytes
    BY CellRange, MemAssumption DEF Cells
  <1>2. ByteOK(q, a, pt, mp, E, rm, rw, sh)
    BY DEF BytesOK, ReadOK
  <1> QED BY <1>1, <1>2 DEF Apart, ByteOK

\* Sets of raw bytes that differ only at byte c of frame f agree on all others.
LEMMA OtherBytes ==
    ASSUME NEW f \in Frames, NEW c \in Bytes, NEW rw, NEW rw2,
           \A n : n # Cell(f, c) => (n \in rw2 <=> n \in rw),
           NEW h \in Frames, NEW b \in Bytes, h # f \/ b # c
    PROVE  Cell(h, b) \in rw2 <=> Cell(h, b) \in rw
  BY CellsDiffer

\* MEMPHY_write through page table pt: the byte changes in one place only.
LEMMA WriteKeeps ==
    ASSUME ByteType,
           NEW pt, NEW mp \in [Procs -> SUBSET Pages], NEW U \in SUBSET Frames, NEW E,
           Apart(pt, mp, U), BytesOK(pt, mp, U, E, ram, raw, shadow),
           NEW p \in Procs, NEW o \in Ops, NEW f \in Frames,
           pt[p][PGN(o.addr)] = f, PGN(o.addr) \notin mp[p],
           o.addr \in Cells \/ p \in E,
           ram' = [ram EXCEPT ![f][OFFST(o.addr)] = o.val],
           raw' = raw \ {Cell(f, OFFST(o.addr))},
           shadow' = IF o.addr \in Cells
                       THEN [shadow EXCEPT ![p][o.addr] = o.val] ELSE shadow
    PROVE  ByteType' /\ BytesOK(pt, mp, U, E, ram', raw', shadow')
  <1>1. PICK g \in Pages, c \in Bytes : g = PGN(o.addr) /\ c = OFFST(o.addr)
    BY CellRange DEF Ops
  <1>2. f # None /\ o.val \in Nat
    BY MemAssumption DEF Frames, None, Ops
  <1>3. f \notin U
    BY <1>1, <1>2 DEF Apart
  <1>4. \A h \in Frames : \A b \in Bytes :
           ram'[h][b] = IF h = f /\ b = c THEN o.val ELSE ram[h][b]
    BY <1>1 DEF ByteType
  <1>5. \A q \in Procs : \A a \in Cells :
           shadow'[q][a] = IF q = p /\ a = o.addr THEN o.val ELSE shadow[q][a]
    BY DEF ByteType
  <1>6. \A h \in Frames : \A b \in Bytes : h # f \/ b # c =>
           (Cell(h, b) \in raw' <=> Cell(h, b) \in raw)
    BY <1>1, OtherBytes
  <1>7. ByteType'
    BY <1>1, <1>2 DEF ByteType
  <1>8. ClearOK(U, ram', raw')
    BY <1>3, <1>4, <1>6 DEF BytesOK, ClearOK
  <1>9. UnwrittenOK(pt, shadow')
    <2>1. UnwrittenOK(pt, shadow)
      BY DEF BytesOK
    <2> QED BY <1>2, <1>5, <2>1 DEF UnwrittenOK
  <1>10. ASSUME NEW q \in Procs, NEW a \in Cells
         PROVE  ByteOK(q, a, pt, mp, E, ram', raw', shadow')
    <2>1. PICK h, i, b : h = pt[q][PGN(a)] /\ i = PGN(a) /\ b = OFFST(a)
      OBVIOUS
    <2>2. SUFFICES ASSUME h # None, i \notin mp[q], q \notin E
                   PROVE  Cell(h, b) \in raw' \/ ram'[h][b] = shadow'[q][a]
      BY <2>1 DEF ByteOK
    <2>3. /\ i \in Pages /\ b \in Bytes /\ h \in Frames
          /\ Cell(h, b) \in raw \/ ram[h][b] = shadow[q][a]
      BY <2>1, <2>2, PageByte
    <2>4. CASE h = f /\ b = c
      <3>1. q = p /\ i = g
        <4>1. g \in Pages \ mp[p] /\ pt[p][g] = f /\ pt[p][g] # None
          BY <1>1, <1>2
        <4>2. i \in Pages \ mp[q] /\ pt[q][i] = pt[p][g]
          BY <1>1, <2>1, <2>2, <2>3, <2>4
        <4> QED BY <4>1, <4>2 DEF Apart
      <3>2. o.addr \in Cells
        BY <2>2, <3>1
      <3>3. a = o.addr
        BY <1>1, <2>1, <2>4, <3>1, <3>2, CellsUnique
      <3> QED BY <1>4, <1>5, <2>3, <2>4, <3>1, <3>3
    <2>5. CASE ~(h = f /\ b = c)
      <3>1. ~(q = p /\ a = o.addr)
        BY <1>1, <2>1, <2>5
      <3> QED BY <1>4, <1>5, <1>6, <2>3, <2>5, <3>1
    <2> QED BY <2>4, <2>5
  <1> QED BY <1>7, <1>8, <1>9, <1>10 DEF BytesOK, ReadOK

\* MEMPHY_read and MEMPHY_write through page table pt.
LEMMA TransferKeeps ==
    ASSUME ByteType,
           NEW pt, NEW mp \in [Procs -> SUBSET Pages], NEW U \in SUBSET Frames, NEW E,
           Apart(pt, mp, U), BytesOK(pt, mp, U, E, ram, raw, shadow),
           NEW p \in Procs, NEW o \in Ops, NEW f,
           pt[p][PGN(o.addr)] = f, f \in Frames => PGN(o.addr) \notin mp[p],
           o.addr \in Cells \/ p \in E,
           Transfer(p, o, f)
    PROVE  ByteType' /\ BytesOK(pt, mp, U, E, ram', raw', shadow')
  <1>1. CASE UNCHANGED <<ram, raw, shadow>>
    BY <1>1 DEF ByteType
  <1>2. CASE /\ f \in Frames
             /\ ram' = [ram EXCEPT ![f][OFFST(o.addr)] = o.val]
             /\ raw' = raw \ {Cell(f, OFFST(o.addr))}
             /\ shadow' = IF o.addr \in Cells
                            THEN [shadow EXCEPT ![p][o.addr] = o.val] ELSE shadow
    BY <1>2, WriteKeeps
  <1> QED BY <1>1, <1>2 DEF Transfer, ramVars

\* IO_WRITE of byte n: it is a raw byte from then on.
LEMMA IoWriteKeeps ==
    ASSUME ByteType,
           NEW pt, NEW mp, NEW U \in SUBSET Frames, NEW E,
           Apart(pt, mp, U), BytesOK(pt, mp, U, E, ram, raw, shadow),
           NEW n \in Nat, NEW val \in Nat, n \div PAGESZ \in Frames,
           ram' = [ram EXCEPT ![n \div PAGESZ][n % PAGESZ] = val],
           raw' = raw \cup {n}, shadow' = shadow
    PROVE  ByteType' /\ BytesOK(pt, mp, U, E, ram', raw', shadow')
  <1>1. PAGESZ \in Nat \ {0}
    BY MemAssumption
  <1>2. PICK f \in Frames, c \in Bytes : f = n \div PAGESZ /\ c = n % PAGESZ
    BY <1>1, ModRange DEF Bytes
  <1>3. Cell(f, c) = n
    <2>1. PICK m \in Int : m = (n \div PAGESZ) * PAGESZ
      BY <1>1, DivBounds
    <2>2. c = n - m
      BY <1>1, <1>2, <2>1, DivMod
    <2> QED BY <1>2, <2>1, <2>2 DEF Cell
  <1>4. \A h \in Frames : \A b \in Bytes :
           (h = f /\ b = c) \/ ram'[h][b] = ram[h][b]
    BY <1>2 DEF ByteType
  <1>5. \A h \in Frames : \A b \in Bytes :
           \/ Cell(h, b) \in raw'
           \/ ram'[h][b] = ram[h][b] /\ Cell(h, b) \notin raw
    BY <1>3, <1>4
  <1>6. ByteType'
    BY <1>2 DEF ByteType
  <1>7. ClearOK(U, ram', raw')
    BY <1>5 DEF BytesOK, ClearOK
  <1>8. ASSUME NEW q \in Procs, NEW a \in Cells
        PROVE  ByteOK(q, a, pt, mp, E, ram', raw', shadow')
    <2>1. PICK h, b : h = pt[q][PGN(a)] /\ b = OFFST(a)
      OBVIOUS
    <2>2. SUFFICES ASSUME h # None, PGN(a) \notin mp[q], q \notin E
                   PROVE  Cell(h, b) \in raw' \/ ram'[h][b] = shadow[q][a]
      BY <2>1 DEF ByteOK
    <2>3. /\ b \in Bytes /\ h \in Frames
          /\ Cell(h, b) \in raw \/ ram[h][b] = shadow[q][a]
      BY <2>1, <2>2, PageByte
    <2> QED BY <1>5, <2>3
  <1> QED BY <1>6, <1>7, <1>8 DEF BytesOK, ReadOK, UnwrittenOK

\* A frame nobody uses is filled with zeros.
LEMMA ZeroKeeps ==
    ASSUME ByteType,
           NEW pt, NEW mp, NEW U \in SUBSET Frames, NEW E,
           Apart(pt, mp, U), BytesOK(pt, mp, U, E, ram, raw, shadow),
           NEW f \in U,
           ram' = [ram EXCEPT ![f] = [o \in 0 .. PAGESZ - 1 |-> 0]],
           raw' = raw \ {Cell(f, o) : o \in 0 .. PAGESZ - 1},
           shadow' = shadow
    PROVE  ByteType' /\ BytesOK(pt, mp, U, E, ram', raw', shadow')
  <1>1. \A b \in Bytes : ram'[f][b] = 0
    BY DEF ByteType, Bytes
  <1>2. \A h \in Frames : h # f => ram'[h] = ram[h]
    BY DEF ByteType
  <1>3. \A h \in Frames : \A b \in Bytes : h # f =>
           (Cell(h, b) \in raw' <=> Cell(h, b) \in raw)
    BY CellsDiffer DEF Bytes
  <1>4. ByteType'
    BY DEF ByteType, Bytes
  <1>5. ClearOK(U, ram', raw')
    BY <1>1, <1>2, <1>3 DEF BytesOK, ClearOK
  <1>6. ASSUME NEW q \in Procs, NEW a \in Cells
        PROVE  ByteOK(q, a, pt, mp, E, ram', raw', shadow')
    <2>1. PICK h, b : h = pt[q][PGN(a)] /\ b = OFFST(a)
      OBVIOUS
    <2>2. SUFFICES ASSUME h # None, PGN(a) \notin mp[q], q \notin E
                   PROVE  Cell(h, b) \in raw' \/ ram'[h][b] = shadow[q][a]
      BY <2>1 DEF ByteOK
    <2>3. /\ b \in Bytes /\ h \in Frames /\ h # f
          /\ Cell(h, b) \in raw \/ ram[h][b] = shadow[q][a]
      BY <2>1, <2>2, PageByte
    <2> QED BY <1>2, <1>3, <2>3
  <1> QED BY <1>4, <1>5, <1>6 DEF BytesOK, ReadOK, UnwrittenOK

\* A frame that was not used becomes page g of process p, which had none.
LEMMA NewPageKeeps ==
    ASSUME NEW pt, NEW mp, NEW U \in SUBSET Frames, NEW E, NEW rm, NEW rw, NEW sh,
           BytesOK(pt, mp, U, E, rm, rw, sh),
           NEW p \in Procs, NEW g \in Pages, NEW f \in U, pt[p][g] = None,
           NEW t2, \A q \in Procs : \A h \in Pages :
                      t2[q][h] = IF q = p /\ h = g THEN f ELSE pt[q][h]
    PROVE  BytesOK(t2, mp, U, E, rm, rw, sh)
  <1>1. f # None
    BY MemAssumption DEF Frames, None
  <1>2. \A a \in Cells : PGN(a) \in Pages /\ OFFST(a) \in Bytes
    BY CellRange, MemAssumption DEF Cells
  <1>3. ClearOK(U, rm, rw) /\ UnwrittenOK(pt, sh) /\ ReadOK(pt, mp, E, rm, rw, sh)
    BY DEF BytesOK
  <1>4. UnwrittenOK(t2, sh)
    BY <1>1, <1>2, <1>3 DEF UnwrittenOK
  <1>5. ASSUME NEW q \in Procs, NEW a \in Cells
        PROVE  ByteOK(q, a, t2, mp, E, rm, rw, sh)
    <2>1. CASE q = p /\ PGN(a) = g
      <3>1. t2[q][PGN(a)] = f /\ sh[q][a] = 0
        BY <1>3, <2>1 DEF UnwrittenOK
      <3>2. rm[f][OFFST(a)] = 0 \/ Cell(f, OFFST(a)) \in rw
        BY <1>2, <1>3 DEF ClearOK
      <3> QED BY <3>1, <3>2 DEF ByteOK
    <2>2. CASE ~(q = p /\ PGN(a) = g)
      <3>1. t2[q][PGN(a)] = pt[q][PGN(a)]
        BY <1>2, <2>2
      <3>2. ByteOK(q, a, pt, mp, E, rm, rw, sh)
        BY <1>3 DEF ReadOK
      <3> QED BY <3>1, <3>2 DEF ByteOK
    <2> QED BY <2>1, <2>2
  <1> QED BY <1>3, <1>4, <1>5 DEF BytesOK, ReadOK

\* MAP sets page g of process p to f, and the page is left out from then on.
LEMMA MapPageKeeps ==
    ASSUME NEW pt, NEW mp, NEW U, NEW E, NEW rm, NEW rw, NEW sh,
           BytesOK(pt, mp, U, E, rm, rw, sh),
           NEW p \in Procs, NEW g \in Pages, NEW f, f # None,
           NEW t2, \A q \in Procs : \A h \in Pages :
                      t2[q][h] = IF q = p /\ h = g THEN f ELSE pt[q][h],
           NEW m2, g \in m2[p], \A q \in Procs : mp[q] \subseteq m2[q]
    PROVE  BytesOK(t2, m2, U, E, rm, rw, sh)
  <1>1. \A a \in Cells : PGN(a) \in Pages
    BY CellRange, MemAssumption DEF Cells
  <1>2. UnwrittenOK(pt, sh) /\ ReadOK(pt, mp, E, rm, rw, sh)
    BY DEF BytesOK
  <1>3. UnwrittenOK(t2, sh)
    BY <1>1, <1>2 DEF UnwrittenOK
  <1>4. ASSUME NEW q \in Procs, NEW a \in Cells
        PROVE  ByteOK(q, a, t2, m2, E, rm, rw, sh)
    <2>1. CASE q = p /\ PGN(a) = g
      BY <2>1 DEF ByteOK
    <2>2. CASE ~(q = p /\ PGN(a) = g)
      <3>1. t2[q][PGN(a)] = pt[q][PGN(a)]
        BY <1>1, <2>2
      <3>2. ByteOK(q, a, pt, mp, E, rm, rw, sh)
        BY <1>2 DEF ReadOK
      <3> QED BY <3>1, <3>2 DEF ByteOK
    <2> QED BY <2>1, <2>2
  <1> QED BY <1>3, <1>4 DEF BytesOK, ReadOK

-----------------------------------------------------------------------------
(* Unused frames.                                                          *)

\* What a process takes or puts in the list was not used before.
LEMMA UnusedShrinks ==
    ASSUME FaultInv, NEW p \in Procs,
           NEW m, NEW o, NEW w, NEW d, NEW s, NEW b,
           FaultSet(p, m, o, w, d, s, b),
           d = dataf[p] \/ d = None \/ d \in Unused,
           \A i \in 1 .. Len(freefp') : freefp'[i] \in Unused
    PROVE  Unused' \subseteq Unused
  <1>1. None \notin Frames
    BY MemAssumption DEF None, Frames
  <1>2. \A q \in Procs : dataf'[q] = IF q = p THEN d ELSE dataf[q]
    BY DEF FaultSet, FaultInv, FaultType
  <1> QED BY <1>1, <1>2 DEF Unused

\* The free frames are unused.
LEMMA FreeUnused ==
    ASSUME FaultInv
    PROVE  \A i \in 1 .. Len(freefp) : freefp[i] \in Unused
  <1>1. \A i \in 1 .. Len(freefp) : freefp[i] \in Frames
    BY DEF FaultInv, FaultType
  <1> QED BY <1>1 DEF Unused

\* The frame at the head of the list, and the list without it.
LEMMA HeadUnused ==
    ASSUME FaultInv, freefp # <<>>
    PROVE  /\ Head(freefp) \in Unused
           /\ \A i \in 1 .. Len(Tail(freefp)) : Tail(freefp)[i] \in Unused
  <1>1. freefp \in Seq(Frames)
    BY DEF FaultInv, FaultType
  <1>2. Len(freefp) \in Nat \ {0} /\ Head(freefp) = freefp[1]
    BY <1>1
  <1>3. Head(freefp) \in Unused
    BY <1>2, FreeUnused
  <1>4. ASSUME NEW i \in 1 .. Len(Tail(freefp))
        PROVE  Tail(freefp)[i] \in Unused
    <2>1. Tail(freefp)[i] = freefp[i + 1] /\ i + 1 \in 1 .. Len(freefp)
      BY <1>1, <1>2
    <2> QED BY <2>1, FreeUnused
  <1> QED BY <1>3, <1>4

\* A step that takes nothing from the list and maps nothing.
LEMMA QuietStep ==
    ASSUME FaultInv, NEW p \in Procs, freefp' = freefp, NEW m, NEW o, NEW w,
           NEW d, NEW s, NEW b, FaultSet(p, m, o, w, d, s, b),
           d = dataf[p] \/ d = None
    PROVE  Unused' \subseteq Unused
  BY FreeUnused, UnusedShrinks

-----------------------------------------------------------------------------
(* The steps.                                                              *)

\* The bytes are as they were and no frame has become unused.
LEMMA SameBytes ==
    ASSUME AreaInv, AreaInv', Grows, ByteType,
           BytesOK(pte, mapped, Unused, Beyond, ram, raw, shadow),
           UNCHANGED <<ram, raw, shadow, pte, mapped>>, Unused' \subseteq Unused
    PROVE  /\ ByteType'
           /\ BytesOK(pte, mapped, Unused, Beyond, ram, raw, shadow)'
  <1>1. Beyond \subseteq Beyond'
    BY BeyondGrows
  <1>2. BytesOK(pte, mapped, Unused', Beyond', ram, raw, shadow)
    BY <1>1, BytesWeaken
  <1> QED BY <1>2 DEF ByteType

\* An access below break t is to a cell, or t is beyond the bus width.
LEMMA CellOrBeyond ==
    ASSUME NEW o \in Ops, o.kind \in {"read", "write"}, NEW t \in Nat, NEW w,
           AccessOK(o, t, w)
    PROVE  o.addr \in Cells \/ "sbrk" \in w \/ t > MAX_PGN * PAGESZ
  <1>1. o.addr \in Nat
    BY DEF Ops
  <1>2. PICK n \in Nat : n = MAX_PGN * PAGESZ
    BY MemAssumption
  <1>3. "sbrk" \in w \/ o.addr < t
    BY DEF AccessOK
  <1>4. o.addr \in 0 .. n - 1 \/ "sbrk" \in w \/ t > n
    BY <1>1, <1>2, <1>3
  <1> QED BY <1>2, <1>4 DEF Cells

\* An access that does not fault.
LEMMA AccessBytes ==
    ASSUME AreaInv, AreaInv', Grows, FaultInv, TableInv, FrameInv, ~raced,
           MappedInv, ByteType,
           BytesOK(pte, mapped, Unused, Beyond, ram, raw, shadow),
           NEW p \in Procs, NEW o \in Ops, o.kind \in {"read", "write"},
           AccessOK(o, sbrk'[p], wraps'[p]),
           pte_get_entry(p, PGN(o.addr)) # None,
           Transfer(p, o, pte_get_entry(p, PGN(o.addr))),
           UNCHANGED <<pte, mapped>>, Unused' \subseteq Unused
    PROVE  /\ ByteType'
           /\ BytesOK(pte, mapped, Unused, Beyond, ram, raw, shadow)'
  <1>1. PICK g \in Pages : g = PGN(o.addr)
    BY PgnRange DEF Ops
  <1> DEFINE f == pte[p][g]
  <1>2. pte_get_entry(p, g) = f
    BY <1>1 DEF pte_get_entry
  <1>3. f \in Frames => g \notin mapped[p]
    BY <1>1 DEF MappedInv
  <1>4. o.addr \in Cells \/ p \in Beyond'
    <2>1. sbrk'[p] \in Nat
      BY MemAssumption DEF AreaInv, AreaType, Addrs
    <2> QED BY <2>1, CellOrBeyond DEF Beyond
  <1>5. Beyond \subseteq Beyond'
    BY BeyondGrows
  <1>6. BytesOK(pte, mapped, Unused, Beyond', ram, raw, shadow)
    BY <1>5, BytesWeaken
  <1>7. Apart(pte, mapped, Unused)
    BY PagesApart
  <1>8. mapped \in [Procs -> SUBSET Pages] /\ Unused \in SUBSET Frames
    BY DEF TableInv, TableType, Unused
  <1>9. ByteType' /\ BytesOK(pte, mapped, Unused, Beyond', ram', raw', shadow')
    BY <1>1, <1>2, <1>3, <1>4, <1>6, <1>7, <1>8, TransferKeeps
  <1>10. BytesOK(pte, mapped, Unused', Beyond', ram', raw', shadow')
    BY <1>9, BytesWeaken
  <1> QED BY <1>9, <1>10

\* The end of a fault: the data frame becomes the page, and the access is made.
LEMMA MapPageBytes ==
    ASSUME AreaInv, FaultInv, TableInv, AccessInv, ByteType,
           BytesOK(pte, mapped, Unused, Beyond, ram, raw, shadow),
           NEW p \in Procs, MapPage(p), orphans' = {},
           Apart(pte, mapped, Unused)'
    PROVE  /\ ByteType'
           /\ BytesOK(pte, mapped, Unused, Beyond, ram, raw, shadow)'
  <1>1. /\ mpc[p] = "map" /\ op[p].kind # "map" /\ Transfer(p, op[p], dataf[p])
        /\ UNCHANGED <<freefp, procVars, mapped>> /\ EndFault(p)
    BY DEF MapPage
  <1>2. /\ op[p] \in Ops /\ op[p].kind \in {"read", "write"}
        /\ dataf[p] \in Frames
    BY <1>1, FaultTyped DEF FaultOK, Ops, Kinds, Depth
  <1>3. PICK g \in Pages, f \in Frames : g = PGN(op[p].addr) /\ f = dataf[p]
    BY <1>2, PgnRange DEF Ops
  <1>4. pte[p][g] = None
    BY <1>2, <1>3, TableTyped DEF TableOK
  <1>5. f \in Unused /\ Unused \in SUBSET Frames
    BY <1>3 DEF Unused
  <1>6. pte' = [pte EXCEPT ![p][g] = f]
    BY <1>3 DEF MapPage
  <1>7. \A q \in Procs : \A h \in Pages :
           pte'[q][h] = IF q = p /\ h = g THEN f ELSE pte[q][h]
    BY <1>6 DEF TableInv, TableType
  <1>8. BytesOK(pte', mapped, Unused, Beyond, ram, raw, shadow)
    BY <1>4, <1>5, <1>7, NewPageKeeps
  <1>9. Unused' \subseteq Unused /\ Unused' \in SUBSET Frames
    <2>1. FaultSet(p, "idle", NoOp, 0, None, <<>>, FALSE)
      BY <1>1, EndEffect
    <2> QED BY <1>1, <1>5, <2>1, QuietStep
  <1>10. Beyond' = Beyond
    BY <1>1 DEF procVars, Beyond
  <1>11. BytesOK(pte', mapped, Unused', Beyond, ram, raw, shadow)
    BY <1>8, <1>9, BytesWeaken
  <1>12. op[p].addr \in Cells \/ p \in Beyond
    <2>1. sbrk[p] \in Nat
      BY MemAssumption DEF AreaInv, AreaType, Addrs
    <2>2. AccessOK(op[p], sbrk[p], wraps[p])
      BY DEF AccessInv
    <2> QED BY <1>2, <2>1, <2>2, CellOrBeyond DEF Beyond
  <1>13. g \notin mapped[p] /\ mapped \in [Procs -> SUBSET Pages]
    <2>1. None \notin 0 .. FpnRange - 1
      BY MemAssumption DEF None
    <2> QED BY <1>4, <2>1 DEF TableInv, TableType, PteRange
  <1>14. Apart(pte', mapped, Unused')
    BY <1>1
  <1>15. ByteType' /\ BytesOK(pte', mapped, Unused', Beyond, ram', raw', shadow')
    BY <1>1, <1>2, <1>3, <1>7, <1>9, <1>11, <1>12, <1>13, <1>14, TransferKeeps
  <1> QED BY <1>1, <1>10, <1>15

\* A table: the frame at the head of the list is filled with zeros.
LEMMA TableBytes ==
    ASSUME FaultInv, TableInv, FrameInv, ~raced, ByteType,
           BytesOK(pte, mapped, Unused, Beyond, ram, raw, shadow),
           NEW p \in Procs, TableFrame(p)
    PROVE  /\ ByteType'
           /\ BytesOK(pte, mapped, Unused, Beyond, ram, raw, shadow)'
  <1>1. /\ mpc[p] = "store" /\ freefp' = Tail(seen[p])
        /\ ram' = [ram EXCEPT ![Head(seen[p])] = [o \in 0 .. PAGESZ - 1 |-> 0]]
        /\ raw' = raw \ {Cell(Head(seen[p]), o) : o \in 0 .. PAGESZ - 1}
        /\ UNCHANGED <<procVars, pte, mapped, shadow>>
    BY DEF TableFrame
  <1>2. seen[p] = freefp /\ freefp # <<>>
    BY <1>1, HasRead, FaultTyped DEF MidList, FaultOK
  <1>3. /\ Head(freefp) \in Unused
        /\ \A i \in 1 .. Len(freefp') : freefp'[i] \in Unused
    BY <1>1, <1>2, HeadUnused
  <1>4. Apart(pte, mapped, Unused) /\ Unused \in SUBSET Frames
    BY PagesApart DEF Unused
  <1>5. ByteType' /\ BytesOK(pte, mapped, Unused, Beyond, ram', raw', shadow')
    BY <1>1, <1>2, <1>3, <1>4, ZeroKeeps
  <1>6. Unused' \subseteq Unused
    <2>1. PICK n : n = FirstMissing(p, op[p].addr, want[p] + 1, Links(p))
      OBVIOUS
    <2>2. FaultSet(p, Pc(n), op[p], n, dataf[p], <<>>, ~Links(p))
      BY <2>1, TableEffect
    <2> QED BY <1>3, <2>2, UnusedShrinks
  <1>7. Beyond' = Beyond
    BY <1>1 DEF procVars, Beyond
  <1>8. BytesOK(pte, mapped, Unused', Beyond, ram', raw', shadow')
    BY <1>5, <1>6, BytesWeaken
  <1> QED BY <1>1, <1>5, <1>7, <1>8

\* MAP sets one PTE.
LEMMA MemsetBytes ==
    ASSUME FaultInv, TableInv, ByteType,
           BytesOK(pte, mapped, Unused, Beyond, ram, raw, shadow),
           NEW p \in Procs, MemsetPte(p)
    PROVE  /\ ByteType'
           /\ BytesOK(pte, mapped, Unused, Beyond, ram, raw, shadow)'
  <1>1. /\ op[p].kind = "map" /\ NextPage(p)
        /\ UNCHANGED <<freefp, ramVars, procVars, shadow>>
    BY DEF MemsetPte
  <1>2. Unused' \subseteq Unused
    BY <1>1, NextPageMoves, QuietStep
  <1>3. Beyond' = Beyond
    BY <1>1 DEF procVars, Beyond
  <1>4. PICK g \in Pages : g = PGN(op[p].addr)
    BY FaultTyped, PgnRange DEF Ops
  <1>5. PICK f : f = PTE_FPN(Pattern + op[p].dest)
    OBVIOUS
  <1>6. f # None
    <2>1. op[p].dest \in Nat /\ FpnRange \in Nat \ {0} /\ Pattern \in Nat
      BY <1>1, FaultTyped, MemAssumption DEF FaultOK
    <2>2. f \in 0 .. FpnRange - 1
      <3>1. Pattern + op[p].dest \in Int
        BY <2>1
      <3> QED BY <1>5, <2>1, <3>1, ModRange DEF PTE_FPN
    <2> QED BY <2>1, <2>2 DEF None
  <1>7. BytesOK(pte', mapped', Unused, Beyond, ram, raw, shadow)
    <2>1. CASE UNCHANGED <<pte, mapped>>
      BY <2>1
    <2>2. CASE /\ pte' = [pte EXCEPT ![p][g] = f]
               /\ mapped' = [mapped EXCEPT ![p] = @ \cup {g}]
      <3>1. \A q \in Procs : \A h \in Pages :
               pte'[q][h] = IF q = p /\ h = g THEN f ELSE pte[q][h]
        BY <2>2 DEF TableInv, TableType
      <3>2. g \in mapped'[p] /\ \A q \in Procs : mapped[q] \subseteq mapped'[q]
        BY <2>2 DEF TableInv, TableType
      <3>3. PICK t2, m2 : t2 = pte' /\ m2 = mapped'
        OBVIOUS
      <3>4. BytesOK(t2, m2, Unused, Beyond, ram, raw, shadow)
        BY <1>6, <3>1, <3>2, <3>3, MapPageKeeps
      <3> QED BY <3>3, <3>4
    <2> QED BY <1>4, <1>5, <2>1, <2>2 DEF MemsetPte
  <1>8. BytesOK(pte', mapped', Unused', Beyond, ram, raw, shadow)
    BY <1>2, <1>7, BytesWeaken
  <1> QED BY <1>1, <1>3, <1>8 DEF ramVars, ByteType

\* IO_WRITE.
LEMMA IoWriteBytes ==
    ASSUME FaultInv, TableInv, FrameInv, ~raced, ByteType,
           BytesOK(pte, mapped, Unused, Beyond, ram, raw, shadow),
           NEW p \in Procs, NEW addr \in Nat, NEW val \in Nat,
           SysIoWrite(p, addr, val)
    PROVE  /\ ByteType'
           /\ BytesOK(pte, mapped, Unused, Beyond, ram, raw, shadow)'
  <1>1. UNCHANGED <<freefp, procVars, tableVars, faultVars, shadow>>
    BY DEF SysIoWrite
  <1>2. Unused' = Unused /\ Beyond' = Beyond
    BY <1>1 DEF faultVars, procVars, Unused, Beyond
  <1>3. Apart(pte, mapped, Unused) /\ Unused \in SUBSET Frames
    BY PagesApart DEF Unused
  <1>4. CASE UNCHANGED <<ram, raw>>
    BY <1>1, <1>2, <1>4 DEF tableVars, ByteType
  <1>5. CASE /\ addr \div PAGESZ \in Frames
             /\ ram' = [ram EXCEPT ![addr \div PAGESZ][addr % PAGESZ] = val]
             /\ raw' = raw \cup {addr}
    <2>1. ByteType' /\ BytesOK(pte, mapped, Unused, Beyond, ram', raw', shadow')
      BY <1>1, <1>3, <1>5, IoWriteKeeps
    <2> QED BY <1>1, <1>2, <2>1 DEF tableVars
  <1> QED BY <1>4, <1>5 DEF SysIoWrite

\* What has been raced for or lost stays so.
LEMMA HistoryStays ==
    ASSUME [Next]_vars
    PROVE  (raced => raced') /\ orphans \subseteq orphans'
  <1>1. ASSUME NEW p \in Procs, Acts(p)
        PROVE  (raced => raced') /\ orphans \subseteq orphans'
    <2>1. CASE pg_getpage(p)
      <3>1. CASE FrameLoad(p) \/ PutLoad(p)
        <4>1. raced' = (raced \/ InList(p)) /\ orphans' = orphans
          BY <3>1 DEF FrameLoad, PutLoad, tableVars
        <4>2. raced => raced'
          BY <4>1, Zenon
        <4> QED BY <4>1, <4>2
      <3>2. CASE OutOfFrames(p) \/ PutStore(p) \/ DataFrame(p)
        <4>1. UNCHANGED <<tableVars, raced>>
          BY <3>2 DEF OutOfFrames, PutStore, DataFrame
        <4> QED BY <4>1 DEF tableVars
      <3>3. CASE TableFrame(p) \/ MapPage(p) \/ MemsetPte(p)
        BY <3>3 DEF TableFrame, MapPage, MemsetPte
      <3> QED BY <2>1, <3>1, <3>2, <3>3 DEF pg_getpage
    <2>2. CASE \E r \in Regions, dest \in Regions, off \in Nat, val \in Nat,
                  kind \in {"read", "write"} :
                     Access(p, r, off, kind, val, dest)
      <3>1. UNCHANGED <<tableVars, raced>>
        BY <2>2 DEF Access
      <3> QED BY <3>1 DEF tableVars
    <2>3. CASE \/ \E r \in Regions, size \in Nat : liballoc(p, r, size)
               \/ \E r \in Regions : libfree(p, r)
               \/ \E m \in MapArgs : SysMap(p, m.addr, m.pgnum)
               \/ \E area \in Int, size \in Nat : SysInc(p, area, size)
               \/ \E addr \in Nat, val \in Nat : SysIoWrite(p, addr, val)
               \/ SysOther(p)
      <3>1. UNCHANGED <<tableVars, raced>>
        BY <2>3 DEF liballoc, libfree, SysMap, SysInc, SysIoWrite, SysOther
      <3> QED BY <3>1 DEF tableVars
    <2> QED BY <1>1, <2>1, <2>2, <2>3 DEF Acts
  <1> QED BY <1>1, NextCases DEF vars, tableVars

\* Every step keeps BytesInv.
LEMMA BytesNext ==
    ASSUME AreaInv, FaultInv, TableInv, FrameInv, AccessInv, MappedInv, BytesInv,
           [Next]_vars, Apart(pte, mapped, Unused)' \/ raced'
    PROVE  BytesInv'
  <1> DEFINE OK == ByteType /\ BytesOK(pte, mapped, Unused, Beyond, ram, raw, shadow)
  <1> SUFFICES ASSUME ~raced', orphans' = {}
               PROVE  OK'
    BY DEF BytesInv
  <1>1. ~raced /\ orphans = {} /\ Apart(pte, mapped, Unused)'
    BY HistoryStays
  <1>2. ByteType /\ BytesOK(pte, mapped, Unused, Beyond, ram, raw, shadow)
    BY <1>1 DEF BytesInv
  <1>3. AreaInv' /\ Grows
    BY AreaNext, BreakGrows
  <1>4. ASSUME UNCHANGED <<ram, raw, shadow, tableVars>>, Unused' \subseteq Unused
        PROVE  OK'
    BY <1>2, <1>3, <1>4, SameBytes DEF tableVars
  <1>5. ASSUME UNCHANGED <<freefp, dataf>>
        PROVE  Unused' \subseteq Unused
    BY <1>5 DEF Unused
  <1>6. ASSUME NEW p \in Procs, Acts(p)
        PROVE  OK'
    <2>1. CASE \/ \E r \in Regions, size \in Nat : liballoc(p, r, size)
               \/ \E r \in Regions : libfree(p, r)
               \/ \E area \in Int, size \in Nat : SysInc(p, area, size)
               \/ SysOther(p) \/ FrameLoad(p) \/ PutLoad(p)
      <3>1. UNCHANGED <<freefp, dataf, ram, raw, shadow, tableVars>>
        BY <2>1 DEF liballoc, libfree, SysInc, SysOther, FrameLoad, PutLoad,
                    faultVars, ramVars
      <3> QED BY <1>4, <1>5, <3>1
    <2>2. ASSUME NEW m \in MapArgs, SysMap(p, m.addr, m.pgnum)
          PROVE  OK'
      <3>1. UNCHANGED <<freefp, dataf, ramVars, shadow, tableVars>>
        BY <2>2 DEF SysMap, MemsetPage, faultVars
      <3> QED BY <1>4, <1>5, <3>1 DEF ramVars
    <2>3. ASSUME NEW r \in Regions, NEW dest \in Regions, NEW off \in Nat,
                 NEW val \in Nat, NEW kind \in {"read", "write"},
                 Access(p, r, off, kind, val, dest)
          PROVE  OK'
      <3>1. UNCHANGED <<freefp, dataf, tableVars>>
        BY <2>3 DEF Access
      <3>2. CASE UNCHANGED <<ramVars, shadow>>
        BY <1>4, <1>5, <3>1, <3>2 DEF ramVars
      <3>3. ASSUME NEW o \in Ops, o.kind = kind,
                   AccessOK(o, sbrk'[p], wraps'[p]),
                   pte_get_entry(p, PGN(o.addr)) # None,
                   Transfer(p, o, pte_get_entry(p, PGN(o.addr)))
            PROVE  OK'
        <4>1. UNCHANGED <<pte, mapped>>
          BY <3>1 DEF tableVars
        <4> QED BY <1>1, <1>2, <1>3, <1>5, <3>1, <3>3, <4>1, AccessBytes
      <3> QED BY <2>3, <3>2, <3>3, AccessCases
    <2>4. ASSUME NEW addr \in Nat, NEW val \in Nat, SysIoWrite(p, addr, val)
          PROVE  OK'
      BY <1>1, <1>2, <2>4, IoWriteBytes
    <2>5. CASE OutOfFrames(p)
      <3>1. UNCHANGED <<freefp, ramVars, tableVars, shadow>>
        BY <2>5 DEF OutOfFrames
      <3>2. Unused' \subseteq Unused
        <4>1. CASE op[p].kind = "map" /\ NextPage(p)
          BY <3>1, <4>1, NextPageMoves, QuietStep
        <4>2. CASE EndFault(p)
          BY <3>1, <4>2, EndEffect, QuietStep
        <4>3. CASE UNCHANGED faultVars
          BY <1>5, <3>1, <4>3 DEF faultVars
        <4> QED BY <2>5, <4>1, <4>2, <4>3 DEF OutOfFrames
      <3> QED BY <1>4, <3>1, <3>2 DEF ramVars
    <2>6. CASE DataFrame(p)
      <3>1. /\ mpc[p] = "store" /\ freefp' = Tail(seen[p])
            /\ UNCHANGED <<ramVars, tableVars, shadow>>
        BY <2>6 DEF DataFrame
      <3>2. seen[p] = freefp /\ freefp # <<>>
        BY <1>1, <3>1, HasRead, FaultTyped DEF MidList, FaultOK
      <3>3. PICK n : n = FirstMissing(p, op[p].addr, 1, TRUE)
        OBVIOUS
      <3>4. FaultSet(p, Pc(n), op[p], n, Head(seen[p]), <<>>, lost[p])
        BY <2>6, <3>3, DataEffect
      <3>5. Unused' \subseteq Unused
        BY <3>1, <3>2, <3>4, HeadUnused, UnusedShrinks
      <3> QED BY <1>4, <3>1, <3>5 DEF ramVars
    <2>7. CASE TableFrame(p)
      BY <1>1, <1>2, <2>7, TableBytes
    <2>8. CASE MapPage(p)
      BY <1>1, <1>2, <2>8, MapPageBytes
    <2>9. CASE MemsetPte(p)
      BY <1>2, <2>9, MemsetBytes
    <2>10. CASE PutStore(p)
      <3>1. /\ mpc[p] = "putstore" /\ freefp' = <<dataf[p]>> \o seen[p]
            /\ EndFault(p) /\ UNCHANGED <<ramVars, tableVars, shadow>>
        BY <2>10 DEF PutStore
      <3>2. seen[p] = freefp /\ freefp \in Seq(Frames)
        BY <1>1, <3>1, HasRead, FaultTyped DEF MidList
      <3>3. dataf[p] \in Frames
        BY <3>1, FaultTyped DEF FaultOK
      <3>4. dataf[p] \in Unused
        BY <3>3 DEF Unused
      <3>5. ASSUME NEW i \in 1 .. Len(freefp')
            PROVE  freefp'[i] \in Unused
        <4>1. freefp'[i] = IF i = 1 THEN dataf[p] ELSE freefp[i - 1]
          BY <3>1, <3>2, <3>3
        <4>2. i # 1 => i - 1 \in 1 .. Len(freefp)
          BY <3>1, <3>2, <3>3
        <4> QED BY <3>4, <4>1, <4>2, FreeUnused
      <3>6. Unused' \subseteq Unused
        BY <3>1, <3>5, EndEffect, UnusedShrinks
      <3> QED BY <1>4, <3>1, <3>6 DEF ramVars
    <2> QED BY <1>6, <2>1, <2>2, <2>3, <2>4, <2>5, <2>6, <2>7, <2>8, <2>9, <2>10
            DEF Acts, pg_getpage
  <1>7. CASE UNCHANGED vars
    BY <1>4, <1>5, <1>7 DEF vars, faultVars, ramVars
  <1> QED BY <1>6, <1>7, NextCases

-----------------------------------------------------------------------------
(* The theorem.                                                            *)

ReadInv == AccessInv /\ MappedInv /\ BytesInv

\* At the start the RAM is clear and nothing is mapped.
LEMMA ReadInit ==
    ASSUME Init
    PROVE  ReadInv
  <1>1. AccessInv
    BY DEF Init, AccessInv, AccessOK, NoOp
  <1>2. MappedInv
    BY DEF Init, MappedInv
  <1>3. ByteType
    BY DEF Init, ByteType, Bytes
  <1>4. \A a \in Cells : PGN(a) \in Pages
    BY CellRange, MemAssumption DEF Cells
  <1>5. ClearOK(Unused, ram, raw)
    <2>1. \A f \in Frames : \A o \in Bytes : ram[f][o] = 0
      BY DEF Init, Bytes
    <2> QED BY <2>1 DEF ClearOK, Unused
  <1>6. UnwrittenOK(pte, shadow)
    BY DEF Init, UnwrittenOK
  <1>7. ReadOK(pte, mapped, Beyond, ram, raw, shadow)
    BY <1>4 DEF Init, ReadOK, ByteOK
  <1> QED BY <1>1, <1>2, <1>3, <1>5, <1>6, <1>7 DEF ReadInv, BytesInv, BytesOK

\* A process reads what it last wrote: whatever the processes allocate, free,
\* read, write and map, in whatever order their faults take and return frames
\* (libmem.c:169-360, mm64.c:245-401), as long as the free list is not raced
\* for and no table is lost, and MAP leads out of the RAM.
THEOREM ReadsWhatItWrote == PatternOutside => (Spec => []ReadBack)
  <1> SUFFICES ASSUME PatternOutside
               PROVE  Spec => []ReadBack
    OBVIOUS
  <1> DEFINE All == AreaInv /\ FaultInv /\ TableInv /\ FrameInv
  <1>1. Init => ReadInv
    BY ReadInit
  <1>2. All' /\ ~raced' => Apart(pte, mapped, Unused)'
    BY PagesApart, PTL
  <1>3. All /\ All' /\ ReadInv /\ [Next]_vars => ReadInv'
    <2> SUFFICES ASSUME All, All', ReadInv, [Next]_vars
                 PROVE  ReadInv'
      OBVIOUS
    <2>1. AccessInv'
      BY AccessNext DEF ReadInv
    <2>2. MappedInv'
      BY MappedNext DEF ReadInv
    <2>3. BytesInv'
      BY <1>2, BytesNext DEF ReadInv
    <2> QED BY <2>1, <2>2, <2>3 DEF ReadInv
  <1>4. ReadInv => ReadBack
    <2> SUFFICES ASSUME BytesInv, ~raced, orphans = {},
                        NEW p \in Procs, NEW a \in Cells
                 PROVE  LET f == pte[p][PGN(a)] IN
                        \/ f = None \/ PGN(a) \in mapped[p]
                        \/ "sbrk" \in wraps[p] \/ sbrk[p] > MAX_PGN * PAGESZ
                        \/ Cell(f, OFFST(a)) \in raw
                        \/ ram[f][OFFST(a)] = shadow[p][a]
      BY DEF ReadInv, ReadBack
    <2>1. ByteOK(p, a, pte, mapped, Beyond, ram, raw, shadow)
      BY DEF BytesInv, BytesOK, ReadOK
    <2> QED BY <2>1 DEF ByteOK, Beyond
  <1>5. Spec => []All
    BY FrameAlways
  <1> QED BY <1>1, <1>3, <1>4, <1>5, PTL DEF Spec
=============================================================================
