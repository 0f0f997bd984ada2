----------------------------- MODULE MemProofs -----------------------------
(***************************************************************************)
(* Proofs about the paging memory of module Mem, for every number of       *)
(* processes, frames, pages and regions.  The invariants are layered:      *)
(*                                                                         *)
(*   - AreaInv: the regions of a process and its area;                     *)
(*   - FaultInv: what a process in the middle of a fault has in its hands; *)
(*   - TableInv: which tables are linked while a fault builds them;        *)
(*   - FrameInv: every frame has one user, until the free list is raced    *)
(*     for.                                                                *)
(***************************************************************************)
EXTENDS Mem, TLAPS, SequenceTheorems, FiniteSetTheorems

-----------------------------------------------------------------------------
(* Arithmetic.                                                             *)

\* The remainder of addr_t arithmetic is in range.
LEMMA ModRange ==
    ASSUME NEW a \in Int, NEW n \in Nat \ {0}
    PROVE  a % n \in 0 .. n - 1
  OBVIOUS

\* A value in range is not changed by it.
LEMMA ModSmall ==
    ASSUME NEW n \in Nat \ {0}, NEW a \in 0 .. n - 1
    PROVE  a % n = a
  OBVIOUS

\* One that passes the range once comes back by the range.
LEMMA ModOnce ==
    ASSUME NEW n \in Nat \ {0}, NEW a \in n .. 2 * n - 1
    PROVE  a % n = a - n
  OBVIOUS

\* A quotient and its multiple.
LEMMA DivBounds ==
    ASSUME NEW a \in Nat, NEW d \in Nat \ {0}
    PROVE  /\ a \div d \in Nat
           /\ (a \div d) * d <= a
           /\ a < (a \div d) * d + d
  OBVIOUS

\* Division keeps the order.
LEMMA DivMonotone ==
    ASSUME NEW a \in Nat, NEW b \in Nat, NEW d \in Nat \ {0}, a <= b
    PROVE  a \div d <= b \div d
  OBVIOUS

\* A byte of one of n frames is below the size of the n frames.
LEMMA DivLess ==
    ASSUME NEW a \in Nat, NEW n \in Nat, NEW d \in Nat \ {0},
           a \div d \in 0 .. n - 1
    PROVE  a \in 0 .. n * d - 1
  OBVIOUS

-----------------------------------------------------------------------------
(* The steps.                                                              *)

\* What a process may do, with the types of the arguments.
Acts(p) ==
    \/ \E r \in Regions, size \in Nat : liballoc(p, r, size)
    \/ \E r \in Regions : libfree(p, r)
    \/ \E r \in Regions, dest \in Regions, off \in Nat, val \in Nat,
          kind \in {"read", "write"} : Access(p, r, off, kind, val, dest)
    \/ \E m \in MapArgs : SysMap(p, m.addr, m.pgnum)
    \/ \E area \in Int, size \in Nat : SysInc(p, area, size)
    \/ \E addr \in Nat, val \in Nat : SysIoWrite(p, addr, val)
    \/ SysOther(p)
    \/ pg_getpage(p)

\* A step of the memory is one of these, or changes nothing.
LEMMA NextCases ==
    ASSUME [Next]_vars
    PROVE  (\E p \in Procs : Acts(p) /\ ~Broken) \/ UNCHANGED vars
  <1>1. ASSUME NEW p \in Procs, Instruction(p)
        PROVE  Acts(p)
    <2>1. ASSUME NEW r \in Regions, NEW size \in Sizes, liballoc(p, r, size)
          PROVE  Acts(p)
      BY <2>1, MemAssumption DEF Acts
    <2>2. ASSUME NEW r \in Regions, libfree(p, r)
          PROVE  Acts(p)
      BY <2>2 DEF Acts
    <2>3. ASSUME NEW r \in Regions, NEW off \in Offsets, NEW dest \in Regions,
                 libread(p, r, off, dest)
          PROVE  Acts(p)
      <3>1. off \in Nat /\ 0 \in Nat
        BY MemAssumption
      <3>2. Access(p, r, off, "read", 0, dest)
        BY <2>3 DEF libread
      <3> QED BY <3>1, <3>2 DEF Acts
    <2>4. ASSUME NEW r \in Regions, NEW off \in Offsets, NEW val \in Vals,
                 libwrite(p, val, r, off)
          PROVE  Acts(p)
      <3>1. off \in Nat /\ val \in Nat
        BY MemAssumption
      <3>2. Access(p, r, off, "write", val, r)
        BY <2>4 DEF libwrite
      <3> QED BY <3>1, <3>2 DEF Acts
    <2>5. ASSUME memmap(p)
          PROVE  Acts(p)
      BY <2>5, MemAssumption DEF memmap, Acts
    <2> QED BY <1>1, <2>1, <2>2, <2>3, <2>4, <2>5 DEF Instruction
  <1>2. ASSUME NEW p \in Procs, pg_getpage(p)
        PROVE  Acts(p)
    BY <1>2 DEF Acts
  <1> QED BY <1>1, <1>2 DEF Next, Stop

-----------------------------------------------------------------------------
(* Regions.                                                                *)

\* What RegionsDisjoint says of one process with program break s, limit e,
\* regions rgs and history w, and that s is beyond the first page: a region
\* begins at s, so one that began at 0 would look like an empty entry.
AreaOK(s, e, rgs, w) ==
    "sbrk" \in w \/
      /\ PAGESZ <= s
      /\ w = {} => s <= e
      /\ \A r \in Regions : ~IsHole(rgs[r]) =>
            /\ PAGESZ <= rgs[r].lo /\ rgs[r].lo <= rgs[r].hi /\ rgs[r].hi <= s
            /\ \A t \in Regions \ {r} :
                  \/ IsHole(rgs[t])
                  \/ rgs[r].hi <= rgs[t].lo \/ rgs[t].hi <= rgs[r].lo

Spans == [lo : Addrs, hi : Addrs]

AreaType ==
    /\ sbrk \in [Procs -> Addrs] /\ vm_end \in [Procs -> Addrs]
    /\ symrgtbl \in [Procs -> [Regions -> Spans]]
    /\ wraps \in [Procs -> SUBSET {"sbrk", "vm_end"}]

AreaInv ==
    /\ AreaType
    /\ \A p \in Procs : AreaOK(sbrk[p], vm_end[p], symrgtbl[p], wraps[p])

\* An aligned increment that does not overflow is enough and in range.
LEMMA AlignUpEnough ==
    ASSUME NEW n \in Nat, n + PAGESZ - 1 < Wrap
    PROVE  AlignUp(n) \in n .. Wrap - 1
  <1>1. PAGESZ \in Nat \ {0} /\ Wrap \in Nat \ {0}
    BY MemAssumption
  <1>2. (n + PAGESZ - 1) % Wrap = n + PAGESZ - 1
    BY <1>1, ModSmall
  <1>3. PICK m \in Nat : m = n + PAGESZ - 1
    BY <1>1
  <1>4. /\ m \div PAGESZ \in Nat
        /\ (m \div PAGESZ) * PAGESZ <= m
        /\ m < (m \div PAGESZ) * PAGESZ + PAGESZ
    BY <1>1, DivBounds
  <1>5. PICK a \in Int : a = (m \div PAGESZ) * PAGESZ
    BY <1>1, <1>4
  <1>6. a <= m /\ m < a + PAGESZ
    BY <1>4, <1>5
  <1>7. AlignUp(n) = a
    BY <1>2, <1>3, <1>5 DEF AlignUp
  <1> QED BY <1>1, <1>3, <1>6, <1>7

\* The new limit is an address; it is not below the old one unless it has
\* wrapped, and the increment is in it.
LEMMA LimitProps ==
    ASSUME NEW e \in Addrs, NEW n \in Nat
    PROVE  /\ inc_vma_limit(e, n) \in Addrs
           /\ n + PAGESZ - 1 < Wrap /\ e <= inc_vma_limit(e, n)
                => e + n <= inc_vma_limit(e, n)
  <1>1. PAGESZ \in Nat \ {0} /\ Wrap \in Nat \ {0}
    BY MemAssumption
  <1>2. AlignUp(n) \in Int
    <2>1. (n + PAGESZ - 1) % Wrap \in Nat
      BY <1>1, ModRange
    <2>2. ((n + PAGESZ - 1) % Wrap) \div PAGESZ \in Nat
      BY <1>1, <2>1, DivBounds
    <2> QED BY <1>1, <2>2 DEF AlignUp
  <1>3. inc_vma_limit(e, n) \in Addrs
    <2>1. e + AlignUp(n) \in Int
      BY <1>1, <1>2 DEF Addrs
    <2>2. (e + AlignUp(n)) % Wrap \in 0 .. Wrap - 1
      BY <1>1, <2>1, ModRange
    <2> QED BY <2>2 DEF inc_vma_limit, Addrs
  <1>4. ASSUME n + PAGESZ - 1 < Wrap, e <= inc_vma_limit(e, n)
        PROVE  e + n <= inc_vma_limit(e, n)
    <2>1. PICK a \in n .. Wrap - 1 : a = AlignUp(n)
      BY <1>4, AlignUpEnough
    <2>2. inc_vma_limit(e, n) = (e + a) % Wrap
      BY <2>1 DEF inc_vma_limit
    <2>3. CASE e + a < Wrap
      BY <1>1, <2>1, <2>2, <2>3, ModSmall DEF Addrs
    <2>4. CASE Wrap <= e + a
      <3>1. e + a \in Wrap .. 2 * Wrap - 1
        BY <1>1, <2>1, <2>4 DEF Addrs
      <3>2. (e + a) % Wrap = e + a - Wrap
        <4>1. PICK b \in Wrap .. 2 * Wrap - 1 : b = e + a
          BY <3>1
        <4>2. b % Wrap = b - Wrap
          BY <1>1, ModOnce
        <4> QED BY <1>1, <2>1, <4>1, <4>2 DEF Addrs
      <3> QED BY <1>1, <1>4, <2>1, <2>2, <3>2 DEF Addrs
    <2> QED BY <1>1, <2>1, <2>3, <2>4 DEF Addrs
  <1> QED BY <1>3, <1>4

\* Which region __alloc adds, and what becomes of the area.
LEMMA NewRegionProps ==
    ASSUME AreaType, NEW p \in Procs, NEW size \in Nat
    PROVE  LET new == NewRegion(p, size) IN
           /\ new.rg \in Spans /\ new.end \in Addrs
           /\ PAGESZ <= sbrk[p] =>
                /\ new.rg.lo = sbrk[p]
                /\ (sbrk[p] <= vm_end[p] /\ sbrk[p] <= new.rg.hi
                      /\ vm_end[p] <= new.end) => new.rg.hi <= new.end
  <1> DEFINE end   == (sbrk[p] + size) % Wrap
             start == IF sbrk[p] = 0 THEN PAGESZ ELSE sbrk[p]
             hi    == (start + size) % Wrap
             inc   == (end - sbrk[p]) % Wrap
             lim   == IF end > vm_end[p] THEN inc_vma_limit(vm_end[p], inc)
                      ELSE vm_end[p]
  <1>1. PAGESZ \in Nat \ {0} /\ Wrap \in Nat \ {0} /\ PAGESZ < Wrap
    BY MemAssumption
  <1>2. sbrk[p] \in Addrs /\ vm_end[p] \in Addrs
    BY DEF AreaType
  <1>3. NewRegion(p, size) = [rg |-> [lo |-> start, hi |-> hi], end |-> lim]
    BY DEF NewRegion
  <1>4. start \in Addrs
    BY <1>1, <1>2 DEF Addrs
  <1> HIDE DEF start
  <1>5. end \in Addrs /\ hi \in Addrs
    <2>1. sbrk[p] + size \in Int /\ start + size \in Int
      BY <1>1, <1>2, <1>4 DEF Addrs
    <2> QED BY <1>1, <2>1, ModRange DEF Addrs
  <1> HIDE DEF end, hi
  <1>6. inc \in Addrs
    <2>1. end - sbrk[p] \in Int
      BY <1>1, <1>2, <1>5 DEF Addrs
    <2> QED BY <1>1, <2>1, ModRange DEF Addrs
  <1> HIDE DEF inc
  <1>7. lim \in Addrs
    <2>1. inc \in Nat
      BY <1>1, <1>6 DEF Addrs
    <2>2. inc_vma_limit(vm_end[p], inc) \in Addrs
      BY <1>2, <2>1, LimitProps
    <2> QED BY <1>2, <2>2
  <1>8. ASSUME PAGESZ <= sbrk[p]
        PROVE  /\ start = sbrk[p]
               /\ sbrk[p] <= vm_end[p] /\ sbrk[p] <= hi /\ vm_end[p] <= lim
                    => hi <= lim
    <2>1. start = sbrk[p]
      BY <1>1, <1>8, <1>2 DEF start, Addrs
    <2>2. end = hi
      BY <2>1 DEF end, hi
    <2>3. ASSUME sbrk[p] <= vm_end[p], sbrk[p] <= hi, vm_end[p] <= lim,
                 hi > vm_end[p]
          PROVE  hi <= lim
      <3>1. hi - sbrk[p] \in 0 .. Wrap - 1
        BY <1>1, <1>2, <1>5, <2>3 DEF Addrs
      <3>2. inc = hi - sbrk[p]
        BY <1>1, <2>2, <3>1, ModSmall DEF inc
      <3>3. inc + PAGESZ - 1 < Wrap
        BY <1>1, <1>2, <1>5, <1>8, <3>2 DEF Addrs
      <3>4. lim = inc_vma_limit(vm_end[p], inc)
        BY <2>2, <2>3
      <3>5. vm_end[p] + inc <= inc_vma_limit(vm_end[p], inc)
        <4>1. inc \in Nat
          BY <1>1, <1>6 DEF Addrs
        <4>2. vm_end[p] <= inc_vma_limit(vm_end[p], inc)
          BY <2>3, <3>4
        <4> QED BY <1>2, <3>3, <4>1, <4>2, LimitProps
      <3> HIDE DEF lim
      <3> QED BY <1>1, <1>2, <1>5, <1>7, <2>3, <3>2, <3>4, <3>5 DEF Addrs
    <2>4. ~(hi > vm_end[p]) => lim = vm_end[p]
      BY <2>2
    <2> QED BY <1>1, <1>2, <1>5, <2>1, <2>3, <2>4 DEF Addrs
  <1> HIDE DEF lim
  <1>9. /\ NewRegion(p, size).rg = [lo |-> start, hi |-> hi]
        /\ NewRegion(p, size).rg.lo = start /\ NewRegion(p, size).rg.hi = hi
        /\ NewRegion(p, size).end = lim
    BY <1>3
  <1>10. [lo |-> start, hi |-> hi] \in Spans
    BY <1>4, <1>5 DEF Spans
  <1> QED BY <1>7, <1>8, <1>9, <1>10

\* A region from the old program break to a new one keeps the rest.
LEMMA AddRegion ==
    ASSUME NEW s \in Addrs, NEW e \in Addrs, NEW rgs \in [Regions -> Spans],
           NEW w \in SUBSET {"sbrk", "vm_end"},
           AreaOK(s, e, rgs, w),
           NEW r \in Regions, NEW rg \in Spans, NEW e2 \in Addrs,
           NEW w2 \in SUBSET {"sbrk", "vm_end"},
           w \subseteq w2,
           rg.hi < s => "sbrk" \in w2,
           e2 < e => "vm_end" \in w2,
           PAGESZ <= s => /\ rg.lo = s
                          /\ s <= e /\ s <= rg.hi /\ e <= e2 => rg.hi <= e2
    PROVE  AreaOK(rg.hi, e2, [rgs EXCEPT ![r] = rg], w2)
  <1> DEFINE new == [rgs EXCEPT ![r] = rg]
  <1> SUFFICES ASSUME "sbrk" \notin w2
               PROVE  AreaOK(rg.hi, e2, new, w2)
    BY DEF AreaOK
  <1>1. /\ PAGESZ \in Nat \ {0} /\ Wrap \in Nat \ {0}
        /\ s \in Nat /\ e \in Nat /\ e2 \in Nat /\ rg.lo \in Nat /\ rg.hi \in Nat
    BY MemAssumption DEF Addrs, Spans
  <1>2. /\ PAGESZ <= s
        /\ w = {} => s <= e
        /\ \A q \in Regions : ~IsHole(rgs[q]) =>
              /\ PAGESZ <= rgs[q].lo /\ rgs[q].lo <= rgs[q].hi /\ rgs[q].hi <= s
              /\ \A t \in Regions \ {q} :
                    \/ IsHole(rgs[t])
                    \/ rgs[q].hi <= rgs[t].lo \/ rgs[t].hi <= rgs[q].lo
    BY DEF AreaOK
  <1>3. s <= rg.hi /\ rg.lo = s
    BY <1>1, <1>2
  <1>4. w2 = {} => rg.hi <= e2
    BY <1>1, <1>2, <1>3
  <1>5. \A q \in Regions : new[q] = IF q = r THEN rg ELSE rgs[q]
    OBVIOUS
  <1>6. \A q \in Regions : rgs[q].lo \in Nat /\ rgs[q].hi \in Nat
    BY DEF Spans, Addrs
  <1>7. ASSUME NEW q \in Regions, ~IsHole(new[q])
        PROVE  /\ PAGESZ <= new[q].lo /\ new[q].lo <= new[q].hi
               /\ new[q].hi <= rg.hi
               /\ \A t \in Regions \ {q} :
                     \/ IsHole(new[t])
                     \/ new[q].hi <= new[t].lo \/ new[t].hi <= new[q].lo
    <2> HIDE DEF new
    <2>1. CASE q = r
      BY <1>1, <1>2, <1>3, <1>5, <1>6, <2>1
    <2>2. CASE q # r
      BY <1>1, <1>2, <1>3, <1>5, <1>6, <1>7, <2>2
    <2> QED BY <2>1, <2>2
  <1> HIDE DEF new
  <1> QED BY <1>1, <1>2, <1>3, <1>4, <1>7 DEF AreaOK

\* __alloc, from liballoc or from an access to an empty entry.
LEMMA AllocKeeps ==
    ASSUME AreaInv, NEW p \in Procs, NEW r \in Regions, NEW size \in Nat,
           __alloc(p, r, size)
    PROVE  AreaInv'
  <1>1. PICK new : new = NewRegion(p, size)
    OBVIOUS
  <1>2. /\ symrgtbl' = [symrgtbl EXCEPT ![p][r] = new.rg]
        /\ sbrk' = [sbrk EXCEPT ![p] = new.rg.hi]
        /\ vm_end' = [vm_end EXCEPT ![p] = new.end]
        /\ wraps' = [wraps EXCEPT ![p] = @ \cup
                        (IF new.rg.hi < sbrk[p] THEN {"sbrk"} ELSE {})
                        \cup (IF new.end < vm_end[p] THEN {"vm_end"} ELSE {})]
    BY <1>1 DEF __alloc
  <1>3. /\ new.rg \in Spans /\ new.end \in Addrs
        /\ PAGESZ <= sbrk[p] =>
              /\ new.rg.lo = sbrk[p]
              /\ (sbrk[p] <= vm_end[p] /\ sbrk[p] <= new.rg.hi
                    /\ vm_end[p] <= new.end) => new.rg.hi <= new.end
    BY <1>1, NewRegionProps DEF AreaInv
  <1>4. PICK rg \in Spans : rg = new.rg
    BY <1>3
  <1>5. PICK e2 \in Addrs : e2 = new.end
    BY <1>3
  <1>6. AreaType
    BY DEF AreaInv
  <1>7. PICK w2 \in SUBSET {"sbrk", "vm_end"} :
           w2 = wraps[p] \cup (IF rg.hi < sbrk[p] THEN {"sbrk"} ELSE {})
                   \cup (IF e2 < vm_end[p] THEN {"vm_end"} ELSE {})
    BY <1>6 DEF AreaType
  <1>8. /\ symrgtbl' = [symrgtbl EXCEPT ![p] = [symrgtbl[p] EXCEPT ![r] = rg]]
        /\ sbrk' = [sbrk EXCEPT ![p] = rg.hi]
        /\ vm_end' = [vm_end EXCEPT ![p] = e2]
        /\ wraps' = [wraps EXCEPT ![p] = w2]
    BY <1>2, <1>4, <1>5, <1>6, <1>7 DEF AreaType
  <1>9. AreaOK(rg.hi, e2, [symrgtbl[p] EXCEPT ![r] = rg], w2)
    <2>1. /\ sbrk[p] \in Addrs /\ vm_end[p] \in Addrs
          /\ symrgtbl[p] \in [Regions -> Spans]
          /\ wraps[p] \in SUBSET {"sbrk", "vm_end"}
      BY <1>6 DEF AreaType
    <2>2. AreaOK(sbrk[p], vm_end[p], symrgtbl[p], wraps[p])
      BY DEF AreaInv
    <2>3. /\ wraps[p] \subseteq w2
          /\ rg.hi < sbrk[p] => "sbrk" \in w2
          /\ e2 < vm_end[p] => "vm_end" \in w2
      BY <1>7
    <2>4. PAGESZ <= sbrk[p] =>
             /\ rg.lo = sbrk[p]
             /\ (sbrk[p] <= vm_end[p] /\ sbrk[p] <= rg.hi /\ vm_end[p] <= e2)
                   => rg.hi <= e2
      BY <1>3, <1>4, <1>5
    <2> QED BY <2>1, <2>2, <2>3, <2>4, AddRegion
  <1>10. AreaType'
    <2>1. [symrgtbl[p] EXCEPT ![r] = rg] \in [Regions -> Spans]
      BY <1>6 DEF AreaType
    <2>2. rg.hi \in Addrs
      BY DEF Spans
    <2> QED BY <1>6, <1>8, <2>1, <2>2 DEF AreaType
  <1>11. \A q \in Procs :
            AreaOK(sbrk'[q], vm_end'[q], symrgtbl'[q], wraps'[q])
    <2> SUFFICES ASSUME NEW q \in Procs
                 PROVE  AreaOK(sbrk'[q], vm_end'[q], symrgtbl'[q], wraps'[q])
      OBVIOUS
    <2>1. CASE q = p
      <3>1. /\ sbrk'[q] = rg.hi /\ vm_end'[q] = e2 /\ wraps'[q] = w2
            /\ symrgtbl'[q] = [symrgtbl[p] EXCEPT ![r] = rg]
        BY <1>6, <1>8, <2>1 DEF AreaType
      <3> QED BY <1>9, <3>1
    <2>2. CASE q # p
      <3>1. /\ sbrk'[q] = sbrk[q] /\ vm_end'[q] = vm_end[q]
            /\ wraps'[q] = wraps[q] /\ symrgtbl'[q] = symrgtbl[q]
        BY <1>6, <1>8, <2>2 DEF AreaType
      <3> QED BY <3>1 DEF AreaInv
    <2> QED BY <2>1, <2>2
  <1> QED BY <1>10, <1>11 DEF AreaInv

\* libfree empties an entry.
LEMMA FreeKeeps ==
    ASSUME AreaInv, NEW p \in Procs, NEW r \in Regions,
           symrgtbl' = [symrgtbl EXCEPT ![p][r] = Hole],
           UNCHANGED <<sbrk, vm_end, wraps>>
    PROVE  AreaInv'
  <1>1. AreaType
    BY DEF AreaInv
  <1>2. Hole \in Spans /\ IsHole(Hole)
    BY MemAssumption DEF Hole, Spans, Addrs, IsHole
  <1>3. AreaType'
    BY <1>1, <1>2 DEF AreaType
  <1>4. ASSUME NEW q \in Procs
        PROVE  AreaOK(sbrk'[q], vm_end'[q], symrgtbl'[q], wraps'[q])
    <2>1. /\ sbrk'[q] = sbrk[q] /\ vm_end'[q] = vm_end[q] /\ wraps'[q] = wraps[q]
          /\ AreaOK(sbrk[q], vm_end[q], symrgtbl[q], wraps[q])
      BY DEF AreaInv
    <2>2. \A t \in Regions : \/ symrgtbl'[q][t] = symrgtbl[q][t]
                             \/ IsHole(symrgtbl'[q][t])
      BY <1>1, <1>2 DEF AreaType
    <2> QED BY <2>1, <2>2 DEF AreaOK
  <1> QED BY <1>3, <1>4 DEF AreaInv

\* SYSMEM_INC_OP moves the limit only.
LEMMA IncKeeps ==
    ASSUME AreaInv, NEW p \in Procs, NEW area \in Int, NEW size \in Nat,
           SysInc(p, area, size)
    PROVE  AreaInv'
  <1>1. AreaType
    BY DEF AreaInv
  <1>2. PICK e2 \in Addrs :
           e2 = IF area <= 0 THEN inc_vma_limit(vm_end[p], size) ELSE vm_end[p]
    BY <1>1, LimitProps DEF AreaType
  <1>3. /\ vm_end' = [vm_end EXCEPT ![p] = e2]
        /\ wraps' = [wraps EXCEPT ![p] =
                        IF e2 < vm_end[p] THEN @ \cup {"vm_end"} ELSE @]
        /\ UNCHANGED <<sbrk, symrgtbl>>
    BY <1>2 DEF SysInc
  <1>4. AreaType'
    BY <1>1, <1>3 DEF AreaType
  <1>5. ASSUME NEW q \in Procs
        PROVE  AreaOK(sbrk'[q], vm_end'[q], symrgtbl'[q], wraps'[q])
    <2>1. /\ sbrk'[q] = sbrk[q] /\ symrgtbl'[q] = symrgtbl[q]
          /\ wraps[q] \subseteq wraps'[q]
          /\ vm_end'[q] < vm_end[q] => wraps'[q] # {}
      <3>1. CASE q = p
        <4>1. vm_end'[q] = e2
          BY <1>1, <1>3, <3>1 DEF AreaType
        <4>2. wraps'[q] = IF e2 < vm_end[q] THEN wraps[q] \cup {"vm_end"}
                          ELSE wraps[q]
          BY <1>1, <1>3, <3>1 DEF AreaType
        <4> QED BY <1>3, <4>1, <4>2
      <3>2. CASE q # p
        <4>1. vm_end'[q] = vm_end[q] /\ wraps'[q] = wraps[q]
          BY <1>1, <1>3, <3>2 DEF AreaType
        <4>2. vm_end[q] \in Int
          BY <1>1, MemAssumption DEF AreaType, Addrs
        <4> QED BY <1>3, <4>1, <4>2
      <3> QED BY <3>1, <3>2
    <2>2. AreaOK(sbrk[q], vm_end[q], symrgtbl[q], wraps[q])
      BY DEF AreaInv
    <2>3. sbrk[q] \in Nat /\ vm_end[q] \in Nat /\ vm_end'[q] \in Nat
      BY <1>1, <1>4, MemAssumption DEF AreaType, Addrs
    <2>4. wraps'[q] = {} => wraps[q] = {}
      BY <2>1
    <2> QED BY <2>1, <2>2, <2>3, <2>4 DEF AreaOK
  <1> QED BY <1>4, <1>5 DEF AreaInv

\* Every step keeps AreaInv.
LEMMA AreaNext ==
    ASSUME AreaInv, [Next]_vars
    PROVE  AreaInv'
  <1>1. ASSUME UNCHANGED procVars
        PROVE  AreaInv'
    BY <1>1 DEF procVars, AreaInv, AreaType
  <1>2. ASSUME NEW p \in Procs, Acts(p)
        PROVE  AreaInv'
    <2>1. ASSUME NEW r \in Regions, NEW size \in Nat, liballoc(p, r, size)
          PROVE  AreaInv'
      BY <1>1, <2>1, AllocKeeps DEF liballoc
    <2>2. ASSUME NEW r \in Regions, libfree(p, r)
          PROVE  AreaInv'
      <3>1. CASE UNCHANGED symrgtbl
        BY <1>1, <2>2, <3>1 DEF libfree, procVars
      <3>2. CASE symrgtbl' = [symrgtbl EXCEPT ![p][r] = Hole]
        BY <2>2, <3>2, FreeKeeps DEF libfree
      <3> QED BY <2>2, <3>1, <3>2 DEF libfree
    <2>3. ASSUME NEW r \in Regions, NEW dest \in Regions, NEW off \in Nat,
                 NEW val \in Nat, NEW kind \in {"read", "write"},
                 Access(p, r, off, kind, val, dest)
          PROVE  AreaInv'
      <3>1. __alloc(p, r, DefaultSize) \/ UNCHANGED procVars
        BY <2>3 DEF Access
      <3>2. DefaultSize \in Nat
        BY MemAssumption
      <3> QED BY <1>1, <3>1, <3>2, AllocKeeps
    <2>4. ASSUME NEW m \in MapArgs, SysMap(p, m.addr, m.pgnum)
          PROVE  AreaInv'
      BY <1>1, <2>4 DEF SysMap
    <2>5. ASSUME NEW area \in Int, NEW size \in Nat, SysInc(p, area, size)
          PROVE  AreaInv'
      BY <2>5, IncKeeps
    <2>6. ASSUME NEW addr \in Nat, NEW val \in Nat, SysIoWrite(p, addr, val)
          PROVE  AreaInv'
      BY <1>1, <2>6 DEF SysIoWrite
    <2>7. ASSUME SysOther(p)
          PROVE  AreaInv'
      BY <1>1, <2>7 DEF SysOther
    <2>8. ASSUME pg_getpage(p)
          PROVE  UNCHANGED procVars
      BY <2>8 DEF pg_getpage, FrameLoad, OutOfFrames, DataFrame, TableFrame,
                  MapPage, MemsetPte, PutLoad, PutStore
    <2> QED BY <1>1, <1>2, <2>1, <2>2, <2>3, <2>4, <2>5, <2>6, <2>7, <2>8
            DEF Acts
  <1> QED BY <1>1, <1>2, NextCases DEF vars, procVars

\* A new process has one page below its break and no region.
LEMMA AreaInit ==
    ASSUME Init
    PROVE  AreaInv
  <1>1. PAGESZ \in Addrs /\ InitEnd \in Addrs /\ PAGESZ <= InitEnd
    BY MemAssumption DEF Addrs
  <1>2. Hole \in Spans /\ IsHole(Hole)
    BY MemAssumption DEF Hole, Spans, Addrs, IsHole
  <1>3. /\ sbrk = [p \in Procs |-> PAGESZ]
        /\ vm_end = [p \in Procs |-> InitEnd]
        /\ symrgtbl = [p \in Procs |-> [r \in Regions |-> Hole]]
        /\ wraps = [p \in Procs |-> {}]
    BY DEF Init
  <1>4. AreaType
    BY <1>1, <1>2, <1>3 DEF AreaType
  <1>5. ASSUME NEW p \in Procs
        PROVE  AreaOK(sbrk[p], vm_end[p], symrgtbl[p], wraps[p])
    BY <1>1, <1>2, <1>3, MemAssumption DEF AreaOK, Addrs
  <1> QED BY <1>4, <1>5 DEF AreaInv

\* AreaInv holds throughout.
LEMMA AreaAlways == Spec => []AreaInv
  BY AreaInit, AreaNext, PTL DEF Spec

\* The regions of a process stay apart from each other, from the first page
\* and from what is beyond sbrk, in whatever order ALLOC, FREE and accesses to
\* empty entries come and whatever memmap does to the limit, and sbrk stays
\* within the area until an address wraps (libmem.c:49-94, mm-vm.c:94-135).
THEOREM RegionsStayDisjoint == Spec => []RegionsDisjoint
  <1>1. AreaInv => RegionsDisjoint
    BY DEF AreaInv, AreaOK, RegionsDisjoint
  <1> QED BY <1>1, AreaAlways, PTL

-----------------------------------------------------------------------------
(* What a process has in its hands.                                        *)

Kinds == {"none", "read", "write", "map"}
Ops   == [kind : Kinds, addr : Nat, val : Nat, dest : Nat \cup Regions]
Pcs   == {"idle", "load", "store", "map", "putload", "putstore"}

\* A process at m in its instruction, with access o, wanted level w, data
\* frame d, list s it has read and tables that are lost or not (b).
FaultOK(m, o, w, d, s, b) ==
    /\ m = "idle" <=> o.kind = "none"
    /\ m = "idle" => w = 0 /\ ~b
    /\ o.kind = "map" => o.val # 0 /\ o.dest \in Nat /\ w # 0 /\ d = None
    /\ o.kind # "map" => (d = None <=> w = 0)
    /\ m = "store" => s # <<>>
    /\ m = "map" <=> w = Depth + 1
    /\ m \in {"putload", "putstore"} => w # 0 /\ o.kind # "map"

FaultType ==
    /\ freefp \in Seq(Frames)
    /\ mpc \in [Procs -> Pcs]
    /\ op \in [Procs -> Ops]
    /\ want \in [Procs -> 0 .. Depth + 1]
    /\ dataf \in [Procs -> Frames \cup {None}]
    /\ seen \in [Procs -> Seq(Frames)]
    /\ lost \in [Procs -> BOOLEAN]

FaultInv ==
    /\ FaultType
    /\ \A p \in Procs :
          FaultOK(mpc[p], op[p], want[p], dataf[p], seen[p], lost[p])

\* Process p is at m, with o, w, d, s and b, in the next state.
FaultSet(p, m, o, w, d, s, b) ==
    /\ mpc' = [mpc EXCEPT ![p] = m]
    /\ op' = [op EXCEPT ![p] = o]
    /\ want' = [want EXCEPT ![p] = w]
    /\ dataf' = [dataf EXCEPT ![p] = d]
    /\ seen' = [seen EXCEPT ![p] = s]
    /\ lost' = [lost EXCEPT ![p] = b]

\* It is enough to look at the process that acts.
LEMMA FaultSetKeeps ==
    ASSUME FaultInv, NEW p \in Procs, freefp' \in Seq(Frames),
           NEW m \in Pcs, NEW o \in Ops, NEW w \in 0 .. Depth + 1,
           NEW d \in Frames \cup {None}, NEW s \in Seq(Frames),
           NEW b \in BOOLEAN,
           FaultSet(p, m, o, w, d, s, b),
           FaultOK(m, o, w, d, s, b)
    PROVE  FaultInv'
  <1>1. FaultType
    BY DEF FaultInv
  <1>2. FaultType'
    BY <1>1 DEF FaultType, FaultSet
  <1>3. ASSUME NEW q \in Procs
        PROVE  FaultOK(mpc'[q], op'[q], want'[q], dataf'[q], seen'[q], lost'[q])
    <2>1. CASE q = p
      <3>1. /\ mpc'[q] = m /\ op'[q] = o /\ want'[q] = w
            /\ dataf'[q] = d /\ seen'[q] = s /\ lost'[q] = b
        BY <1>1, <2>1 DEF FaultType, FaultSet
      <3> QED BY <3>1
    <2>2. CASE q # p
      <3>1. /\ mpc'[q] = mpc[q] /\ op'[q] = op[q] /\ want'[q] = want[q]
            /\ dataf'[q] = dataf[q] /\ seen'[q] = seen[q] /\ lost'[q] = lost[q]
        BY <1>1, <2>2 DEF FaultType, FaultSet
      <3> QED BY <3>1 DEF FaultInv
    <2> QED BY <2>1, <2>2
  <1> QED BY <1>2, <1>3 DEF FaultInv

\* The walk finds the first level that is missing, and only tables before it.
LEMMA FirstMissingProps ==
    ASSUME NEW p \in Procs, NEW a, NEW l \in 1 .. Depth + 1,
           NEW linked \in BOOLEAN
    PROVE  LET n == FirstMissing(p, a, l, linked) IN
           /\ n \in l .. Depth + 1
           /\ \A k \in 1 .. Depth : l <= k /\ k < n =>
                 tab[p][Key(k, PGN(a))] # None
           /\ n <= Depth /\ linked => tab[p][Key(n, PGN(a))] = None
           /\ ~linked => n = l
  <1> DEFINE missing == {k \in l .. Depth :
                            ~linked \/ tab[p][Key(k, PGN(a))] = None}
             n == FirstMissing(p, a, l, linked)
  <1>1. Depth = 4
    BY DEF Depth
  <1>2. n = IF missing = {} THEN Depth + 1
            ELSE CHOOSE k \in missing : \A j \in missing : k <= j
    BY DEF FirstMissing
  <1>3. CASE missing = {}
    <2>1. n = Depth + 1
      BY <1>2, <1>3
    <2> QED BY <1>1, <1>3, <2>1
  <1>4. CASE missing # {}
    <2>1. missing \subseteq {1, 2, 3, 4}
      BY <1>1
    <2>2. \E k \in missing : \A j \in missing : k <= j
      <3> HIDE DEF missing
      <3>1. CASE 1 \in missing
        BY <2>1, <3>1
      <3>2. CASE 1 \notin missing /\ 2 \in missing
        BY <2>1, <3>2
      <3>3. CASE 1 \notin missing /\ 2 \notin missing /\ 3 \in missing
        BY <2>1, <3>3
      <3>4. CASE missing = {4}
        BY <3>4
      <3> QED BY <1>4, <2>1, <3>1, <3>2, <3>3, <3>4
    <2>3. n \in missing /\ \A j \in missing : n <= j
      BY <1>2, <1>4, <2>2
    <2>4. n \in l .. Depth
      BY <2>3
    <2> HIDE DEF n
    <2>5. \A k \in 1 .. Depth : l <= k /\ k < n => k \notin missing
      BY <1>1, <2>3, <2>4
    <2>6. ~linked => n = l
      BY <1>1, <2>3, <2>4
    <2>7. \A k \in 1 .. Depth : l <= k /\ k < n =>
             tab[p][Key(k, PGN(a))] # None
      BY <1>1, <2>4, <2>5
    <2>8. linked => tab[p][Key(n, PGN(a))] = None
      BY <2>3
    <2> QED BY <1>1, <2>4, <2>6, <2>7, <2>8 DEF n
  <1> QED BY <1>3, <1>4

\* Where a process is that wants level n.
Pc(n) == IF n > Depth THEN "map" ELSE "load"

\* The types of what a process has, and what FaultOK says of it.
LEMMA FaultTyped ==
    ASSUME FaultInv, NEW p \in Procs
    PROVE  /\ freefp \in Seq(Frames)
           /\ mpc[p] \in Pcs /\ op[p] \in Ops /\ want[p] \in 0 .. Depth + 1
           /\ dataf[p] \in Frames \cup {None} /\ seen[p] \in Seq(Frames)
           /\ lost[p] \in BOOLEAN
           /\ FaultOK(mpc[p], op[p], want[p], dataf[p], seen[p], lost[p])
  BY DEF FaultInv, FaultType

\* The effect of the steps on what the process has in its hands: the end of a
\* fault, the next page of a MAP, and the halves of get_freefp and put_freefp.
LEMMA EndEffect ==
    ASSUME NEW p \in Procs, EndFault(p)
    PROVE  FaultSet(p, "idle", NoOp, 0, None, <<>>, FALSE)
  BY DEF EndFault, FaultSet

\* vmap_page_memset starts the walk of a call of its own, with no frame yet.
LEMMA MemsetEffect ==
    ASSUME FaultInv, NEW p \in Procs, NEW o, MemsetPage(p, o),
           NEW n, n = FirstMissing(p, o.addr, 1, TRUE)
    PROVE  FaultSet(p, Pc(n), o, n, dataf[p], <<>>, FALSE)
  BY DEF MemsetPage, FaultSet, Pc, FaultInv, FaultType

\* The head of the free list is read before it is stored back.
LEMMA LoadEffect ==
    ASSUME FaultInv, NEW p \in Procs, FrameLoad(p)
    PROVE  FaultSet(p, "store", op[p], want[p], dataf[p], freefp, lost[p])
  BY DEF FrameLoad, FaultSet, FaultInv, FaultType

\* The data frame is the head that was read; the walk is next.
LEMMA DataEffect ==
    ASSUME FaultInv, NEW p \in Procs, DataFrame(p),
           NEW n, n = FirstMissing(p, op[p].addr, 1, TRUE)
    PROVE  FaultSet(p, Pc(n), op[p], n, Head(seen[p]), <<>>, lost[p])
  BY DEF DataFrame, FaultSet, Pc, FaultInv, FaultType

\* Whether TableFrame links the frame it has got.
Links(p) == init_pte(Head(seen[p])) /\ ~lost[p]

\* A table's frame is linked or lost, and the walk goes on from the next level.
LEMMA TableEffect ==
    ASSUME FaultInv, NEW p \in Procs, TableFrame(p),
           NEW n, n = FirstMissing(p, op[p].addr, want[p] + 1, Links(p))
    PROVE  FaultSet(p, Pc(n), op[p], n, dataf[p], <<>>, ~Links(p))
  BY DEF TableFrame, FaultSet, Pc, FaultInv, FaultType, Links

\* Putting a frame back reads the list before it stores it, too.
LEMMA PutLoadEffect ==
    ASSUME FaultInv, NEW p \in Procs, PutLoad(p)
    PROVE  FaultSet(p, "putstore", op[p], want[p], dataf[p], freefp, lost[p])
  BY DEF PutLoad, FaultSet, FaultInv, FaultType

\* A failed walk changes nothing of the fault but its next step.
LEMMA GiveUpEffect ==
    ASSUME FaultInv, NEW p \in Procs, mpc' = [mpc EXCEPT ![p] = "putload"],
           UNCHANGED faultVars
    PROVE  FaultSet(p, "putload", op[p], want[p], dataf[p], seen[p], lost[p])
  BY DEF faultVars, FaultSet, FaultInv, FaultType

\* A fault begins with the access that met it and a clean record.
LEMMA BeginEffect ==
    ASSUME FaultInv, NEW p \in Procs, NEW o, mpc' = [mpc EXCEPT ![p] = "load"],
           op' = [op EXCEPT ![p] = o], UNCHANGED <<want, dataf, seen, lost>>
    PROVE  FaultSet(p, "load", o, want[p], dataf[p], seen[p], lost[p])
  BY DEF FaultSet, FaultInv, FaultType

\* The end of a fault.
LEMMA EndKeeps ==
    ASSUME FaultInv, NEW p \in Procs, EndFault(p), freefp' \in Seq(Frames)
    PROVE  FaultInv'
  <1>1. FaultSet(p, "idle", NoOp, 0, None, <<>>, FALSE)
    BY EndEffect
  <1>2. /\ "idle" \in Pcs /\ NoOp \in Ops /\ 0 \in 0 .. Depth + 1
        /\ None \in Frames \cup {None} /\ <<>> \in Seq(Frames)
    BY DEF Pcs, NoOp, Ops, Kinds, Depth
  <1>3. FaultOK("idle", NoOp, 0, None, <<>>, FALSE)
    BY DEF FaultOK, NoOp, Depth
  <1> QED BY <1>1, <1>2, <1>3, FaultSetKeeps

\* A page of a MAP: the process has no data frame in its hands.
LEMMA MemsetKeeps ==
    ASSUME FaultInv, NEW p \in Procs, NEW o \in Ops, MemsetPage(p, o),
           o.kind = "map", o.val # 0, o.dest \in Nat, dataf[p] = None,
           freefp' = freefp
    PROVE  FaultInv'
  <1>1. PICK n : n = FirstMissing(p, o.addr, 1, TRUE)
    OBVIOUS
  <1>2. n \in 1 .. Depth + 1
    <2>1. 1 \in 1 .. Depth + 1
      BY DEF Depth
    <2> QED BY <1>1, <2>1, FirstMissingProps
  <1>3. FaultSet(p, Pc(n), o, n, None, <<>>, FALSE)
    BY <1>1, MemsetEffect
  <1>4. /\ Pc(n) \in Pcs /\ n \in 0 .. Depth + 1 /\ <<>> \in Seq(Frames)
        /\ None \in Frames \cup {None}
    BY <1>2 DEF Pc, Pcs, Depth
  <1>5. FaultOK(Pc(n), o, n, None, <<>>, FALSE)
    BY <1>2 DEF FaultOK, Pc, Depth
  <1>6. freefp' \in Seq(Frames)
    BY FaultTyped
  <1> QED BY <1>3, <1>4, <1>5, <1>6, FaultSetKeeps

\* The record of the page after it.
LEMMA NextOp ==
    ASSUME NEW x \in Ops, x.kind = "map", x.val \notin {0, 1}, x.dest \in Nat,
           NEW o, o = [x EXCEPT !.addr = (@ + PAGESZ) % Wrap,
                                !.val = @ - 1, !.dest = @ + 1]
    PROVE  /\ o \in Ops /\ o.kind = "map" /\ o.val # 0 /\ o.dest \in Nat
           /\ o.val = x.val - 1 /\ o.dest = x.dest + 1
  <1>1. PAGESZ \in Nat /\ Wrap \in Nat \ {0}
    BY MemAssumption
  <1>2. x.addr + PAGESZ \in Int
    BY <1>1 DEF Ops
  <1>3. (x.addr + PAGESZ) % Wrap \in Nat
    BY <1>1, <1>2, ModRange
  <1>4. x.val - 1 \in Nat \ {0} /\ x.dest + 1 \in Nat
    BY DEF Ops
  <1> QED BY <1>3, <1>4 DEF Ops

\* The page after it, or the end.
LEMMA NextPageKeeps ==
    ASSUME FaultInv, NEW p \in Procs, NextPage(p), op[p].kind = "map",
           freefp' = freefp
    PROVE  FaultInv'
  <1>1. CASE op[p].val = 1
    <2>1. EndFault(p)
      BY <1>1 DEF NextPage
    <2> QED BY <2>1, EndKeeps, FaultTyped
  <1>2. CASE op[p].val # 1
    <2>1. op[p] \in Ops /\ op[p].val # 0 /\ op[p].dest \in Nat /\ dataf[p] = None
      BY FaultTyped DEF FaultOK
    <2>2. PICK o : o = [op[p] EXCEPT !.addr = (@ + PAGESZ) % Wrap,
                                    !.val = @ - 1, !.dest = @ + 1]
      OBVIOUS
    <2>3. MemsetPage(p, o)
      BY <1>2, <2>2 DEF NextPage
    <2>4. o \in Ops /\ o.kind = "map" /\ o.val # 0 /\ o.dest \in Nat
      BY <1>2, <2>1, <2>2, NextOp
    <2> QED BY <2>1, <2>3, <2>4, MemsetKeeps
  <1> QED BY <1>1, <1>2

\* The first half of get_freefp, of a fault that goes on.
LEMMA LoadKeeps ==
    ASSUME FaultInv, NEW p \in Procs, FrameLoad(p)
    PROVE  FaultInv'
  <1>1. FaultSet(p, "store", op[p], want[p], dataf[p], freefp, lost[p])
    BY LoadEffect
  <1>2. mpc[p] = "load" /\ freefp # <<>> /\ freefp' = freefp
    BY DEF FrameLoad
  <1>3. FaultOK("store", op[p], want[p], dataf[p], freefp, lost[p])
    BY <1>2, FaultTyped DEF FaultOK
  <1>4. "store" \in Pcs
    BY DEF Pcs
  <1> QED BY <1>1, <1>2, <1>3, <1>4, FaultTyped, FaultSetKeeps

\* No free frame: the next page of a MAP, the end of the fault, or the data
\* frame goes back.
LEMMA OutOfFramesKeeps ==
    ASSUME FaultInv, NEW p \in Procs, OutOfFrames(p)
    PROVE  FaultInv'
  <1>1. freefp' = freefp /\ mpc[p] = "load"
    BY DEF OutOfFrames
  <1>2. CASE op[p].kind = "map" /\ NextPage(p)
    BY <1>1, <1>2, NextPageKeeps
  <1>3. CASE EndFault(p)
    BY <1>1, <1>3, EndKeeps, FaultTyped
  <1>4. CASE /\ op[p].kind # "map" /\ want[p] # 0
             /\ mpc' = [mpc EXCEPT ![p] = "putload"]
             /\ UNCHANGED faultVars
    <2>1. FaultSet(p, "putload", op[p], want[p], dataf[p], seen[p], lost[p])
      BY <1>4, GiveUpEffect
    <2>2. FaultOK("putload", op[p], want[p], dataf[p], seen[p], lost[p])
      BY <1>1, <1>4, FaultTyped DEF FaultOK
    <2>3. "putload" \in Pcs
      BY DEF Pcs
    <2> QED BY <1>1, <2>1, <2>2, <2>3, FaultTyped, FaultSetKeeps
  <1> QED BY <1>2, <1>3, <1>4 DEF OutOfFrames

\* The second half of get_freefp, for the data frame.
LEMMA DataKeeps ==
    ASSUME FaultInv, NEW p \in Procs, DataFrame(p)
    PROVE  FaultInv'
  <1>1. PICK n : n = FirstMissing(p, op[p].addr, 1, TRUE)
    OBVIOUS
  <1>2. n \in 1 .. Depth + 1
    <2>1. 1 \in 1 .. Depth + 1
      BY DEF Depth
    <2> QED BY <1>1, <2>1, FirstMissingProps
  <1>3. FaultSet(p, Pc(n), op[p], n, Head(seen[p]), <<>>, lost[p])
    BY <1>1, DataEffect
  <1>4. mpc[p] = "store" /\ want[p] = 0 /\ freefp' = Tail(seen[p])
    BY DEF DataFrame
  <1>5. /\ seen[p] \in Seq(Frames) /\ seen[p] # <<>> /\ op[p].kind # "map"
        /\ op[p].kind # "none" /\ op[p] \in Ops /\ lost[p] \in BOOLEAN
    BY <1>4, FaultTyped DEF FaultOK
  <1>6. Head(seen[p]) \in Frames /\ freefp' \in Seq(Frames)
    BY <1>4, <1>5, HeadTailProperties
  <1>7. Head(seen[p]) # None
    BY <1>6, MemAssumption DEF Frames, None
  <1>8. /\ Pc(n) \in Pcs /\ n \in 0 .. Depth + 1 /\ <<>> \in Seq(Frames)
        /\ Head(seen[p]) \in Frames \cup {None}
    BY <1>2, <1>6 DEF Pc, Pcs, Depth
  <1>9. FaultOK(Pc(n), op[p], n, Head(seen[p]), <<>>, lost[p])
    BY <1>2, <1>5, <1>7 DEF FaultOK, Pc, Depth
  <1> QED BY <1>3, <1>5, <1>6, <1>8, <1>9, FaultSetKeeps

\* The same for a table.
LEMMA TableKeeps ==
    ASSUME FaultInv, NEW p \in Procs, TableFrame(p)
    PROVE  FaultInv'
  <1>1. PICK n : n = FirstMissing(p, op[p].addr, want[p] + 1, Links(p))
    OBVIOUS
  <1>2. mpc[p] = "store" /\ want[p] # 0 /\ freefp' = Tail(seen[p])
    BY DEF TableFrame
  <1>3. /\ seen[p] \in Seq(Frames) /\ seen[p] # <<>> /\ want[p] \in 1 .. Depth
        /\ op[p].kind # "none" /\ op[p] \in Ops
        /\ dataf[p] \in Frames \cup {None}
        /\ op[p].kind # "map" => dataf[p] # None
        /\ op[p].kind = "map" =>
              op[p].val # 0 /\ op[p].dest \in Nat /\ dataf[p] = None
    BY <1>2, FaultTyped DEF FaultOK, Depth
  <1>4. Links(p) \in BOOLEAN
    BY DEF Links
  <1>5. n \in 2 .. Depth + 1
    <2>1. want[p] + 1 \in 1 .. Depth + 1
      BY <1>3 DEF Depth
    <2>2. n \in want[p] + 1 .. Depth + 1
      BY <1>1, <1>4, <2>1, FirstMissingProps
    <2> QED BY <1>3, <2>2 DEF Depth
  <1>6. FaultSet(p, Pc(n), op[p], n, dataf[p], <<>>, ~Links(p))
    BY <1>1, TableEffect
  <1>7. freefp' \in Seq(Frames)
    BY <1>2, <1>3, HeadTailProperties
  <1>8. /\ Pc(n) \in Pcs /\ n \in 0 .. Depth + 1 /\ <<>> \in Seq(Frames)
        /\ (~Links(p)) \in BOOLEAN
    BY <1>5 DEF Pc, Pcs, Depth
  <1>9. FaultOK(Pc(n), op[p], n, dataf[p], <<>>, ~Links(p))
    BY <1>3, <1>5 DEF FaultOK, Pc, Depth
  <1> QED BY <1>3, <1>6, <1>7, <1>8, <1>9, FaultSetKeeps

\* put_freefp.
LEMMA PutLoadKeeps ==
    ASSUME FaultInv, NEW p \in Procs, PutLoad(p)
    PROVE  FaultInv'
  <1>1. FaultSet(p, "putstore", op[p], want[p], dataf[p], freefp, lost[p])
    BY PutLoadEffect
  <1>2. mpc[p] = "putload" /\ freefp' = freefp
    BY DEF PutLoad
  <1>3. FaultOK("putstore", op[p], want[p], dataf[p], freefp, lost[p])
    BY <1>2, FaultTyped DEF FaultOK
  <1>4. "putstore" \in Pcs
    BY DEF Pcs
  <1> QED BY <1>1, <1>2, <1>3, <1>4, FaultTyped, FaultSetKeeps

\* The second half of MEMPHY_put_freefp stores a list of frames.
LEMMA PutStoreKeeps ==
    ASSUME FaultInv, NEW p \in Procs, PutStore(p)
    PROVE  FaultInv'
  <1>1. mpc[p] = "putstore" /\ freefp' = <<dataf[p]>> \o seen[p] /\ EndFault(p)
    BY DEF PutStore
  <1>2. seen[p] \in Seq(Frames) /\ dataf[p] \in Frames
    BY <1>1, FaultTyped DEF FaultOK
  <1>3. freefp' \in Seq(Frames)
    BY <1>1, <1>2, ConcatProperties
  <1> QED BY <1>1, <1>3, EndKeeps

\* An access that faults.
LEMMA BeginKeeps ==
    ASSUME FaultInv, NEW p \in Procs, NEW o \in Ops,
           o.kind \in {"read", "write"}, mpc[p] = "idle",
           mpc' = [mpc EXCEPT ![p] = "load"], op' = [op EXCEPT ![p] = o],
           UNCHANGED <<freefp, want, dataf, seen, lost>>
    PROVE  FaultInv'
  <1>1. FaultSet(p, "load", o, want[p], dataf[p], seen[p], lost[p])
    BY BeginEffect
  <1>2. FaultOK("load", o, want[p], dataf[p], seen[p], lost[p])
    BY FaultTyped DEF FaultOK, Depth
  <1>3. "load" \in Pcs
    BY DEF Pcs
  <1>4. /\ freefp' \in Seq(Frames) /\ want[p] \in 0 .. Depth + 1
        /\ dataf[p] \in Frames \cup {None} /\ seen[p] \in Seq(Frames)
        /\ lost[p] \in BOOLEAN
    BY FaultTyped
  <1> QED BY <1>1, <1>2, <1>3, <1>4, FaultSetKeeps

\* Where an access is made.
LEMMA AccessAddress ==
    ASSUME AreaType, NEW p \in Procs, NEW r \in Regions, NEW size \in Nat
    PROVE  NewRegion(p, size).rg.lo \in Nat /\ symrgtbl[p][r].lo \in Nat
  BY NewRegionProps, MemAssumption DEF AreaType, Spans, Addrs

\* Every step keeps FaultInv.
LEMMA FaultNext ==
    ASSUME AreaInv, FaultInv, [Next]_vars
    PROVE  FaultInv'
  <1>1. ASSUME UNCHANGED <<freefp, mpc, faultVars>>
        PROVE  FaultInv'
    BY <1>1 DEF faultVars, FaultInv, FaultType
  <1>2. ASSUME NEW p \in Procs, Acts(p)
        PROVE  FaultInv'
    <2>1. ASSUME NEW r \in Regions, NEW size \in Nat, liballoc(p, r, size)
          PROVE  FaultInv'
      BY <1>1, <2>1 DEF liballoc
    <2>2. ASSUME NEW r \in Regions, libfree(p, r)
          PROVE  FaultInv'
      BY <1>1, <2>2 DEF libfree
    <2>3. ASSUME NEW r \in Regions, NEW dest \in Regions, NEW off \in Nat,
                 NEW val \in Nat, NEW kind \in {"read", "write"},
                 Access(p, r, off, kind, val, dest)
          PROVE  FaultInv'
      <3>1. PICK lo \in Nat :
               lo = IF IsHole(symrgtbl[p][r]) THEN NewRegion(p, DefaultSize).rg.lo
                    ELSE symrgtbl[p][r].lo
        BY AccessAddress, MemAssumption DEF AreaInv
      <3>2. PICK o \in Ops : o = [kind |-> kind, addr |-> lo + off,
                                  val |-> val, dest |-> dest]
        <4>1. kind \in Kinds /\ lo + off \in Nat /\ dest \in Nat \cup Regions
          BY DEF Kinds
        <4> QED BY <4>1 DEF Ops
      <3>3. CASE UNCHANGED <<mpc, op>>
        BY <1>1, <2>3, <3>3 DEF Access, faultVars
      <3>4. CASE /\ mpc' = [mpc EXCEPT ![p] = "load"]
                 /\ op' = [op EXCEPT ![p] = o]
        <4>1. mpc[p] = "idle" /\ UNCHANGED <<freefp, want, dataf, seen, lost>>
          BY <2>3 DEF Access, Fetch
        <4>2. o.kind \in {"read", "write"}
          BY <3>2
        <4> QED BY <3>4, <4>1, <4>2, BeginKeeps
      <3> QED BY <2>3, <3>1, <3>2, <3>3, <3>4 DEF Access
    <2>4. ASSUME NEW m \in MapArgs, SysMap(p, m.addr, m.pgnum)
          PROVE  FaultInv'
      <3>1. m.addr \in Nat /\ m.pgnum \in Nat
        BY MemAssumption
      <3>2. mpc[p] = "idle" /\ freefp' = freefp
        BY <2>4 DEF SysMap, Fetch
      <3>3. dataf[p] = None
        BY <3>2, FaultTyped DEF FaultOK
      <3>4. CASE m.pgnum = 0
        BY <1>1, <2>4, <3>4 DEF SysMap
      <3>5. CASE m.pgnum # 0
        <4>1. PICK o \in Ops : o = [kind |-> "map", addr |-> m.addr,
                                    val |-> m.pgnum, dest |-> 0]
          BY <3>1 DEF Ops, Kinds
        <4>2. MemsetPage(p, o)
          BY <2>4, <3>5, <4>1 DEF SysMap
        <4>3. o.kind = "map" /\ o.val # 0 /\ o.dest \in Nat
          BY <3>5, <4>1
        <4> QED BY <3>2, <3>3, <4>2, <4>3, MemsetKeeps
      <3> QED BY <3>4, <3>5
    <2>5. ASSUME NEW area \in Int, NEW size \in Nat, SysInc(p, area, size)
          PROVE  FaultInv'
      BY <1>1, <2>5 DEF SysInc
    <2>6. ASSUME NEW addr \in Nat, NEW val \in Nat, SysIoWrite(p, addr, val)
          PROVE  FaultInv'
      BY <1>1, <2>6 DEF SysIoWrite
    <2>7. ASSUME SysOther(p)
          PROVE  FaultInv'
      BY <1>1, <2>7 DEF SysOther
    <2>8. ASSUME MapPage(p)
          PROVE  FaultInv'
      BY <2>8, EndKeeps, FaultTyped DEF MapPage
    <2>9. ASSUME MemsetPte(p)
          PROVE  FaultInv'
      BY <2>9, NextPageKeeps DEF MemsetPte
    <2>10. ASSUME pg_getpage(p)
           PROVE  FaultInv'
      BY <2>8, <2>9, <2>10, LoadKeeps, OutOfFramesKeeps, DataKeeps, TableKeeps,
         PutLoadKeeps, PutStoreKeeps DEF pg_getpage
    <2> QED BY <1>2, <2>1, <2>2, <2>3, <2>4, <2>5, <2>6, <2>7, <2>10 DEF Acts
  <1> QED BY <1>1, <1>2, NextCases DEF vars

-----------------------------------------------------------------------------
(* Tables.                                                                 *)

\* The tables t and PTEs pt of a process with access o, wanted level w, and
\* tables that are lost or not (b).  The last two parts make the first one
\* inductive: a fault walks a path that has every table above w and not w, and
\* is about a page that has no frame.
TableOK(t, pt, o, w, b) ==
    /\ \A g \in Pages : pt[g] # None => \A l \in 1 .. Depth : t[Key(l, g)] # None
    /\ o.kind \in {"read", "write"} => pt[PGN(o.addr)] = None
    /\ ~b => /\ \A l \in 1 .. w - 1 : t[Key(l, PGN(o.addr))] # None
             /\ w \in 1 .. Depth => t[Key(w, PGN(o.addr))] = None

Entries == Frames \cup {None}

\* What the PTE of page g may be, given the pages MAP has set.
PteRange(g, mp) == IF g \in mp THEN 0 .. FpnRange - 1 ELSE Entries

TableType ==
    /\ tab \in [Procs -> [Keys -> Entries]]
    /\ pte \in [Procs -> [Pages -> Int]]
    /\ mapped \in [Procs -> SUBSET Pages]
    /\ \A p \in Procs : \A g \in Pages : pte[p][g] \in PteRange(g, mapped[p])
    /\ orphans \subseteq Frames /\ overlaid \subseteq Frames

TableInv ==
    /\ TableType
    /\ \A p \in Procs : TableOK(tab[p], pte[p], op[p], want[p], lost[p])

\* Process p has tables t, PTEs pt and mapped pages mp in the next state.
TableSet(p, t, pt, mp) ==
    /\ tab' = [tab EXCEPT ![p] = t]
    /\ pte' = [pte EXCEPT ![p] = pt]
    /\ mapped' = [mapped EXCEPT ![p] = mp]

\* A page number is below MAX_PGN, and its tables have keys.
LEMMA PgnRange ==
    ASSUME NEW a \in Nat
    PROVE  PGN(a) \in Pages
  <1>1. PAGESZ \in Nat \ {0} /\ MAX_PGN \in Nat \ {0}
    BY MemAssumption
  <1>2. a \div PAGESZ \in Int
    BY <1>1, DivBounds
  <1> QED BY <1>1, <1>2, ModRange DEF PGN, Pages

\* Every level of the walk to a page has an index in the tables.
LEMMA KeyRange ==
    ASSUME NEW g \in Pages, NEW l \in 1 .. Depth
    PROVE  Key(l, g) \in Keys
  <1>1. PT_ENTRIES \in Nat \ {0} /\ MAX_PGN - 1 \in Nat /\ g \in Nat
    BY MemAssumption DEF Pages
  <1>2. g <= MAX_PGN - 1
    BY <1>1 DEF Pages
  <1>3. g \div PT_ENTRIES \in Nat /\ (MAX_PGN - 1) \div PT_ENTRIES \in Nat
    BY <1>1, DivBounds
  <1>4. PICK m \in Nat : m = MAX_PGN - 1
    BY <1>1
  <1>5. g \div PT_ENTRIES <= (MAX_PGN - 1) \div PT_ENTRIES
    BY <1>1, <1>2, <1>4, DivMonotone
  <1> QED BY <1>3, <1>5 DEF Key, Keys, Depth

\* The tables on a path are different ones.
LEMMA KeysDiffer ==
    ASSUME NEW g \in Pages, NEW l \in 1 .. Depth, NEW k \in 1 .. Depth, k # l
    PROVE  Key(k, g) # Key(l, g)
  <1>1. PT_ENTRIES \in Nat \ {0} /\ g \in Nat
    BY MemAssumption DEF Pages
  <1>2. g \div PT_ENTRIES \in Nat
    BY <1>1, DivBounds
  <1> QED BY <1>2 DEF Key, Depth

\* It is enough to look at the process that acts.
LEMMA TableSetKeeps ==
    ASSUME FaultInv, TableInv, NEW p \in Procs,
           NEW t \in [Keys -> Entries], NEW pt \in [Pages -> Int],
           NEW mp \in SUBSET Pages, \A g \in Pages : pt[g] \in PteRange(g, mp),
           orphans' \subseteq Frames, overlaid' \subseteq Frames,
           NEW m, NEW o, NEW w, NEW d, NEW s, NEW b,
           FaultSet(p, m, o, w, d, s, b), TableSet(p, t, pt, mp),
           TableOK(t, pt, o, w, b)
    PROVE  TableInv'
  <1>1. FaultType /\ TableType
    BY DEF FaultInv, TableInv
  <1>2. ASSUME NEW q \in Procs
        PROVE  /\ TableOK(tab'[q], pte'[q], op'[q], want'[q], lost'[q])
               /\ \A g \in Pages : pte'[q][g] \in PteRange(g, mapped'[q])
    <2>1. CASE q = p
      <3>1. /\ op'[q] = o /\ want'[q] = w /\ lost'[q] = b
            /\ tab'[q] = t /\ pte'[q] = pt /\ mapped'[q] = mp
        BY <1>1, <2>1 DEF FaultType, FaultSet, TableType, TableSet
      <3> QED BY <3>1
    <2>2. CASE q # p
      <3>1. /\ op'[q] = op[q] /\ want'[q] = want[q] /\ lost'[q] = lost[q]
            /\ tab'[q] = tab[q] /\ pte'[q] = pte[q] /\ mapped'[q] = mapped[q]
        BY <1>1, <2>2 DEF FaultType, FaultSet, TableType, TableSet
      <3> QED BY <1>1, <3>1 DEF TableInv, TableType
    <2> QED BY <2>1, <2>2
  <1>3. TableType'
    BY <1>1, <1>2 DEF TableType, TableSet
  <1> QED BY <1>2, <1>3 DEF TableInv

\* What a process has of tables.
LEMMA TableTyped ==
    ASSUME TableInv, NEW p \in Procs
    PROVE  /\ tab[p] \in [Keys -> Entries] /\ pte[p] \in [Pages -> Int]
           /\ mapped[p] \in SUBSET Pages
           /\ \A g \in Pages : pte[p][g] \in PteRange(g, mapped[p])
           /\ orphans \subseteq Frames /\ overlaid \subseteq Frames
           /\ TableOK(tab[p], pte[p], op[p], want[p], lost[p])
  BY DEF TableInv, TableType

\* A step that only moves the process on.
LEMMA WalkOn ==
    ASSUME FaultInv, TableInv, NEW p \in Procs, UNCHANGED tableVars,
           NEW m, NEW o, NEW w, NEW d, NEW s, NEW b,
           FaultSet(p, m, o, w, d, s, b), TableOK(tab[p], pte[p], o, w, b)
    PROVE  TableInv'
  <1>1. TableSet(p, tab[p], pte[p], mapped[p])
    BY DEF tableVars, TableSet, TableInv, TableType
  <1>2. orphans' \subseteq Frames /\ overlaid' \subseteq Frames
    BY TableTyped DEF tableVars
  <1> QED BY <1>1, <1>2, TableTyped, TableSetKeeps

\* Depth is the last level.
LEMMA LevelBound ==
    /\ \A l \in 1 .. Depth : l <= Depth
    /\ \A n \in 1 .. Depth + 1 : \A l \in 1 .. n - 1 :
          l \in 1 .. Depth /\ 1 <= l /\ l < n
  BY DEF Depth

\* The tables of address a when the first one wanted is n.
LEMMA WalkFrom ==
    ASSUME NEW p \in Procs, NEW a \in Nat, NEW n,
           n = FirstMissing(p, a, 1, TRUE)
    PROVE  /\ \A l \in 1 .. n - 1 : tab[p][Key(l, PGN(a))] # None
           /\ n \in 1 .. Depth => tab[p][Key(n, PGN(a))] = None
  <1>1. 1 \in 1 .. Depth + 1
    BY DEF Depth
  <1>2. /\ n \in 1 .. Depth + 1
        /\ \A k \in 1 .. Depth : 1 <= k /\ k < n =>
              tab[p][Key(k, PGN(a))] # None
        /\ n <= Depth => tab[p][Key(n, PGN(a))] = None
    BY <1>1, FirstMissingProps
  <1> QED BY <1>2, LevelBound

\* The same of its access o, with PTEs pt.
LEMMA WalkBegins ==
    ASSUME NEW p \in Procs, NEW o \in Ops, NEW n, NEW b \in BOOLEAN,
           n = FirstMissing(p, o.addr, 1, TRUE), NEW pt \in [Pages -> Int],
           \A g \in Pages : pt[g] # None =>
              \A l \in 1 .. Depth : tab[p][Key(l, g)] # None,
           o.kind \in {"read", "write"} => pt[PGN(o.addr)] = None
    PROVE  TableOK(tab[p], pt, o, n, b)
  <1>1. o.addr \in Nat
    BY DEF Ops
  <1>2. /\ \A l \in 1 .. n - 1 : tab[p][Key(l, PGN(o.addr))] # None
        /\ n \in 1 .. Depth => tab[p][Key(n, PGN(o.addr))] = None
    BY <1>1, WalkFrom
  <1> QED BY <1>2 DEF TableOK

\* A process with no fault.
LEMMA NoWalk ==
    ASSUME NEW t, NEW pt,
           \A g \in Pages : pt[g] # None =>
              \A l \in 1 .. Depth : t[Key(l, g)] # None
    PROVE  TableOK(t, pt, NoOp, 0, FALSE)
  BY DEF TableOK, NoOp, Depth

\* The page whose tables a fault has found is set in the PTE; the others keep
\* what they have.
LEMMA SetPage ==
    ASSUME TableInv, FaultInv, NEW p \in Procs, mpc[p] = "map", ~lost[p],
           NEW f \in Int, NEW pt, pt = [pte[p] EXCEPT ![PGN(op[p].addr)] = f]
    PROVE  \A g \in Pages : pt[g] # None =>
              \A l \in 1 .. Depth : tab[p][Key(l, g)] # None
  <1>1. want[p] - 1 = Depth
    BY FaultTyped DEF FaultOK, Depth
  <1>2. /\ TableOK(tab[p], pte[p], op[p], want[p], lost[p])
        /\ pte[p] \in [Pages -> Int]
    BY TableTyped
  <1>3. \A l \in 1 .. Depth : tab[p][Key(l, PGN(op[p].addr))] # None
    BY <1>1, <1>2 DEF TableOK
  <1> QED BY <1>2, <1>3 DEF TableOK

\* The next page of a MAP, with PTEs pt and mapped pages mp.
LEMMA NextPageWalks ==
    ASSUME FaultInv, TableInv, NEW p \in Procs, op[p].kind = "map", NextPage(p),
           NEW pt \in [Pages -> Int], NEW mp \in SUBSET Pages,
           \A g \in Pages : pt[g] \in PteRange(g, mp),
           \A g \in Pages : pt[g] # None =>
              \A l \in 1 .. Depth : tab[p][Key(l, g)] # None,
           TableSet(p, tab[p], pt, mp),
           orphans' \subseteq Frames, overlaid' \subseteq Frames
    PROVE  TableInv'
  <1>0. tab[p] \in [Keys -> Entries]
    BY TableTyped
  <1>1. CASE op[p].val = 1
    <2>1. FaultSet(p, "idle", NoOp, 0, None, <<>>, FALSE)
      BY <1>1, EndEffect DEF NextPage
    <2>2. TableOK(tab[p], pt, NoOp, 0, FALSE)
      BY NoWalk
    <2> QED BY <1>0, <2>1, <2>2, TableSetKeeps
  <1>2. CASE op[p].val # 1
    <2>1. op[p] \in Ops /\ op[p].val # 0 /\ op[p].dest \in Nat
      BY FaultTyped DEF FaultOK
    <2>2. PICK o : o = [op[p] EXCEPT !.addr = (@ + PAGESZ) % Wrap,
                                    !.val = @ - 1, !.dest = @ + 1]
      OBVIOUS
    <2>3. MemsetPage(p, o)
      BY <1>2, <2>2 DEF NextPage
    <2>4. o \in Ops /\ o.kind = "map"
      BY <1>2, <2>1, <2>2, NextOp
    <2>5. PICK n : n = FirstMissing(p, o.addr, 1, TRUE)
      OBVIOUS
    <2>6. FaultSet(p, Pc(n), o, n, dataf[p], <<>>, FALSE)
      BY <2>3, <2>5, MemsetEffect
    <2>7. TableOK(tab[p], pt, o, n, FALSE)
      BY <2>4, <2>5, WalkBegins
    <2> QED BY <1>0, <2>6, <2>7, TableSetKeeps
  <1> QED BY <1>1, <1>2

\* A frame is linked as the table the walk wants; the walk goes on below it.
LEMMA LinkKeeps ==
    ASSUME FaultInv, TableInv, NEW p \in Procs, TableFrame(p), Links(p)
    PROVE  TableInv'
  <1>1. PICK n : n = FirstMissing(p, op[p].addr, want[p] + 1, TRUE)
    OBVIOUS
  <1>2. PICK f \in Frames : f = Head(seen[p])
    <2>1. seen[p] \in Seq(Frames) /\ seen[p] # <<>>
      BY FaultTyped DEF FaultOK, TableFrame
    <2> QED BY <2>1, HeadTailProperties
  <1>3. PICK w \in 1 .. Depth : w = want[p]
    BY FaultTyped DEF FaultOK, TableFrame, Depth
  <1>4. PICK g \in Pages : g = PGN(op[p].addr)
    BY FaultTyped, PgnRange DEF Ops
  <1>5. PICK t : t = [tab[p] EXCEPT ![Key(w, g)] = f]
    OBVIOUS
  <1>6. /\ tab[p] \in [Keys -> Entries] /\ pte[p] \in [Pages -> Int]
        /\ mapped[p] \in SUBSET Pages
        /\ \A h \in Pages : pte[p][h] \in PteRange(h, mapped[p])
        /\ TableOK(tab[p], pte[p], op[p], want[p], lost[p])
    BY TableTyped
  <1>7. t \in [Keys -> Entries]
    BY <1>5, <1>6 DEF Entries
  <1>8. /\ tab' = [tab EXCEPT ![p][Key(w, g)] = f]
        /\ UNCHANGED <<pte, mapped, orphans, overlaid>>
    BY <1>2, <1>3, <1>4 DEF TableFrame, Links
  <1>9. TableSet(p, t, pte[p], mapped[p])
    <2>1. tab' = [tab EXCEPT ![p] = t]
      BY <1>5, <1>8 DEF TableInv, TableType
    <2> QED BY <1>8, <2>1 DEF TableSet, TableInv, TableType
  <1>10. FaultSet(p, Pc(n), op[p], n, dataf[p], <<>>, FALSE)
    <2>1. Links(p) = TRUE /\ (~Links(p)) = FALSE
      OBVIOUS
    <2>2. n = FirstMissing(p, op[p].addr, want[p] + 1, Links(p))
      BY <1>1, <2>1
    <2>3. FaultSet(p, Pc(n), op[p], n, dataf[p], <<>>, ~Links(p))
      BY <2>2, TableEffect
    <2> QED BY <2>1, <2>3
  <1>11. /\ n \in w + 1 .. Depth + 1
         /\ \A l \in w + 1 .. n - 1 : tab[p][Key(l, g)] # None
         /\ n <= Depth => tab[p][Key(n, g)] = None
    <2>1. w + 1 \in 1 .. Depth + 1
      BY <1>3 DEF Depth
    <2>2. PICK a \in Nat : a = op[p].addr
      BY FaultTyped DEF Ops
    <2>3. n = FirstMissing(p, a, w + 1, TRUE)
      BY <1>1, <1>3, <2>2
    <2>4. n \in w + 1 .. Depth + 1
      BY <2>1, <2>3, FirstMissingProps
    <2>5. ASSUME NEW l \in w + 1 .. n - 1
          PROVE  tab[p][Key(l, PGN(a))] # None
      <3>1. l \in 1 .. Depth /\ w + 1 <= l /\ l < n
        BY <1>3, <2>4 DEF Depth
      <3> QED BY <2>1, <2>3, <3>1, FirstMissingProps
    <2>6. n <= Depth => tab[p][Key(n, PGN(a))] = None
      BY <2>1, <2>3, FirstMissingProps
    <2> QED BY <1>4, <2>2, <2>4, <2>5, <2>6
  <1>12. \A l \in 1 .. w - 1 : tab[p][Key(l, g)] # None
    BY <1>3, <1>4, <1>6 DEF TableOK, Links
  <1>13. f # None
    BY <1>2, MemAssumption DEF Frames, None
  <1>14. \A k \in Keys : tab[p][k] # None => t[k] # None
    BY <1>5, <1>6, <1>13
  <1>15. t[Key(w, g)] = f
    BY <1>3, <1>5, <1>6, KeyRange
  <1>16. \A l \in 1 .. n - 1 : t[Key(l, g)] # None
    <2> SUFFICES ASSUME NEW l \in 1 .. n - 1
                 PROVE  t[Key(l, g)] # None
      OBVIOUS
    <2>1. l \in 1 .. Depth
      BY <1>11, <1>3 DEF Depth
    <2>2. Key(l, g) \in Keys
      BY <2>1, KeyRange
    <2>3. CASE l = w
      BY <1>13, <1>15, <2>3
    <2>4. CASE l # w
      <3>1. l \in 1 .. w - 1 \/ l \in w + 1 .. n - 1
        BY <1>3, <1>11, <2>4 DEF Depth
      <3> QED BY <1>11, <1>12, <1>14, <2>2, <3>1
    <2> QED BY <2>3, <2>4
  <1>17. ASSUME n \in 1 .. Depth
         PROVE  t[Key(n, g)] = None
    <2>1. n # w /\ n <= Depth
      BY <1>3, <1>11, <1>17 DEF Depth
    <2>2. Key(n, g) \in Keys /\ Key(n, g) # Key(w, g)
      BY <1>3, <1>17, <2>1, KeyRange, KeysDiffer
    <2> QED BY <1>5, <1>6, <1>11, <2>1, <2>2
  <1>18. TableOK(t, pte[p], op[p], n, FALSE)
    <2>1. \A h \in Pages : pte[p][h] # None =>
             \A l \in 1 .. Depth : t[Key(l, h)] # None
      BY <1>6, <1>14, KeyRange DEF TableOK
    <2>2. op[p].kind \in {"read", "write"} => pte[p][PGN(op[p].addr)] = None
      BY <1>6 DEF TableOK
    <2> QED BY <1>4, <1>16, <1>17, <2>1, <2>2 DEF TableOK
  <1>19. orphans' \subseteq Frames /\ overlaid' \subseteq Frames
    BY <1>8, TableTyped
  <1> QED BY <1>6, <1>7, <1>9, <1>10, <1>18, <1>19, TableSetKeeps

\* A frame that is not linked leaves the tables as they are.
LEMMA LoseKeeps ==
    ASSUME FaultInv, TableInv, NEW p \in Procs, TableFrame(p), ~Links(p)
    PROVE  TableInv'
  <1>1. PICK n : n = FirstMissing(p, op[p].addr, want[p] + 1, Links(p))
    OBVIOUS
  <1>2. PICK f \in Frames : f = Head(seen[p])
    <2>1. seen[p] \in Seq(Frames) /\ seen[p] # <<>>
      BY FaultTyped DEF FaultOK, TableFrame
    <2> QED BY <2>1, HeadTailProperties
  <1>3. /\ UNCHANGED <<tab, pte, mapped, overlaid>>
        /\ orphans' = orphans \cup {f}
    BY <1>2 DEF TableFrame, Links
  <1>4. TableSet(p, tab[p], pte[p], mapped[p])
    BY <1>3 DEF TableSet, TableInv, TableType
  <1>5. FaultSet(p, Pc(n), op[p], n, dataf[p], <<>>, TRUE)
    <2>1. (~Links(p)) = TRUE
      OBVIOUS
    <2>2. FaultSet(p, Pc(n), op[p], n, dataf[p], <<>>, ~Links(p))
      BY <1>1, TableEffect
    <2> QED BY <2>1, <2>2
  <1>6. TableOK(tab[p], pte[p], op[p], n, TRUE)
    BY TableTyped DEF TableOK
  <1>7. orphans' \subseteq Frames /\ overlaid' \subseteq Frames
    BY <1>3, TableTyped
  <1> QED BY <1>4, <1>5, <1>6, <1>7, TableTyped, TableSetKeeps

\* The PTE of the page that faulted is set, or its frame is lost.
LEMMA MapKeeps ==
    ASSUME FaultInv, TableInv, NEW p \in Procs, MapPage(p)
    PROVE  TableInv'
  <1>1. /\ mpc[p] = "map" /\ op[p].kind # "map"
        /\ EndFault(p) /\ UNCHANGED <<tab, mapped, overlaid>>
    BY DEF MapPage
  <1>2. PICK d \in Frames : d = dataf[p]
    BY <1>1, FaultTyped DEF FaultOK, Depth
  <1>3. FaultSet(p, "idle", NoOp, 0, None, <<>>, FALSE)
    BY <1>1, EndEffect
  <1>4. PICK g \in Pages : g = PGN(op[p].addr)
    BY FaultTyped, PgnRange DEF Ops
  <1>5. /\ tab[p] \in [Keys -> Entries] /\ pte[p] \in [Pages -> Int]
        /\ mapped[p] \in SUBSET Pages
        /\ \A h \in Pages : pte[p][h] \in PteRange(h, mapped[p])
        /\ orphans \subseteq Frames /\ overlaid \subseteq Frames
        /\ TableOK(tab[p], pte[p], op[p], want[p], lost[p])
    BY TableTyped
  <1>6. CASE lost[p]
    <2>1. orphans' = orphans \cup {d} /\ pte' = pte
      BY <1>2, <1>6 DEF MapPage
    <2>2. TableSet(p, tab[p], pte[p], mapped[p])
      BY <1>1, <2>1 DEF TableSet, TableInv, TableType
    <2>3. TableOK(tab[p], pte[p], NoOp, 0, FALSE)
      BY <1>5, NoWalk DEF TableOK
    <2>4. orphans' \subseteq Frames /\ overlaid' \subseteq Frames
      BY <1>1, <1>5, <2>1
    <2> QED BY <1>3, <1>5, <2>2, <2>3, <2>4, TableSetKeeps
  <1>7. CASE ~lost[p]
    <2>1. PICK pt : pt = [pte[p] EXCEPT ![g] = d]
      OBVIOUS
    <2>2. orphans' = orphans /\ pte' = [pte EXCEPT ![p][g] = d]
      BY <1>2, <1>4, <1>7 DEF MapPage
    <2>3. pte' = [pte EXCEPT ![p] = pt]
      BY <2>1, <2>2 DEF TableInv, TableType
    <2>4. TableSet(p, tab[p], pt, mapped[p])
      BY <1>1, <2>3 DEF TableSet, TableInv, TableType
    <2>5. g \notin mapped[p]
      <3>1. op[p].kind \in {"read", "write"}
        BY <1>1, FaultTyped DEF FaultOK, Ops, Kinds
      <3>2. pte[p][g] = None
        BY <1>4, <1>5, <3>1 DEF TableOK
      <3> QED BY <1>5, <3>2, MemAssumption DEF PteRange, None
    <2>6. d \in Int
      BY MemAssumption DEF Frames
    <2>7. pt \in [Pages -> Int]
      BY <1>5, <2>1, <2>6
    <2>8. \A h \in Pages : pt[h] \in PteRange(h, mapped[p])
      BY <1>5, <2>1, <2>5 DEF PteRange, Entries
    <2>9. TableOK(tab[p], pt, NoOp, 0, FALSE)
      BY <1>1, <1>4, <1>7, <2>1, <2>6, SetPage, NoWalk
    <2>10. orphans' \subseteq Frames /\ overlaid' \subseteq Frames
      BY <1>1, <1>5, <2>2
    <2> QED BY <1>3, <1>5, <2>4, <2>7, <2>8, <2>9, <2>10, TableSetKeeps
  <1> QED BY <1>6, <1>7

\* The PTE of a page of a MAP is set.
LEMMA MemsetPteKeeps ==
    ASSUME FaultInv, TableInv, NEW p \in Procs, MemsetPte(p)
    PROVE  TableInv'
  <1>1. /\ mpc[p] = "map" /\ op[p].kind = "map" /\ NextPage(p)
        /\ UNCHANGED <<tab, orphans>>
    BY DEF MemsetPte
  <1>2. PICK g \in Pages : g = PGN(op[p].addr)
    BY FaultTyped, PgnRange DEF Ops
  <1>3. /\ tab[p] \in [Keys -> Entries] /\ pte[p] \in [Pages -> Int]
        /\ mapped[p] \in SUBSET Pages
        /\ \A h \in Pages : pte[p][h] \in PteRange(h, mapped[p])
        /\ orphans \subseteq Frames /\ overlaid \subseteq Frames
        /\ TableOK(tab[p], pte[p], op[p], want[p], lost[p])
    BY TableTyped
  <1>4. CASE lost[p]
    <2>1. UNCHANGED <<pte, mapped, overlaid>>
      BY <1>4 DEF MemsetPte
    <2>2. TableSet(p, tab[p], pte[p], mapped[p])
      BY <1>1, <2>1 DEF TableSet, TableInv, TableType
    <2>3. orphans' \subseteq Frames /\ overlaid' \subseteq Frames
      BY <1>1, <1>3, <2>1
    <2>4. \A h \in Pages : pte[p][h] # None =>
             \A l \in 1 .. Depth : tab[p][Key(l, h)] # None
      BY <1>3 DEF TableOK
    <2> QED BY <1>1, <1>3, <2>2, <2>3, <2>4, NextPageWalks
  <1>5. CASE ~lost[p]
    <2>1. PICK f \in 0 .. FpnRange - 1 : f = PTE_FPN(Pattern + op[p].dest)
      <3>1. op[p].dest \in Nat
        BY <1>1, FaultTyped DEF FaultOK
      <3>2. FpnRange \in Nat \ {0} /\ Pattern + op[p].dest \in Int
        BY <3>1, MemAssumption
      <3> QED BY <3>2, ModRange DEF PTE_FPN
    <2>2. PICK pt : pt = [pte[p] EXCEPT ![g] = f]
      OBVIOUS
    <2>3. PICK mp : mp = mapped[p] \cup {g}
      OBVIOUS
    <2>4. /\ pte' = [pte EXCEPT ![p][g] = f]
          /\ mapped' = [mapped EXCEPT ![p] = mapped[p] \cup {g}]
          /\ overlaid' = IF g \in mapped[p] THEN overlaid
                         ELSE overlaid \cup ({pte[p][g]} \ {None})
      BY <1>2, <1>5, <2>1 DEF MemsetPte
    <2>5. pte' = [pte EXCEPT ![p] = pt]
      BY <2>2, <2>4 DEF TableInv, TableType
    <2>6. TableSet(p, tab[p], pt, mp)
      BY <1>1, <2>3, <2>4, <2>5 DEF TableSet, TableInv, TableType
    <2>7. f \in Int
      BY MemAssumption
    <2>8. pt \in [Pages -> Int] /\ mp \in SUBSET Pages
      BY <1>3, <2>2, <2>3, <2>7
    <2>9. \A h \in Pages : pt[h] \in PteRange(h, mp)
      BY <1>3, <2>2, <2>3 DEF PteRange
    <2>10. \A h \in Pages : pt[h] # None =>
              \A l \in 1 .. Depth : tab[p][Key(l, h)] # None
      BY <1>1, <1>2, <1>5, <2>2, <2>7, SetPage
    <2>11. orphans' \subseteq Frames /\ overlaid' \subseteq Frames
      BY <1>1, <1>3, <2>4 DEF PteRange, Entries
    <2> QED BY <1>1, <2>6, <2>8, <2>9, <2>10, <2>11, NextPageWalks
  <1> QED BY <1>4, <1>5

\* An access that faults is to a page that has no frame: the walk would have
\* found one.
LEMMA FaultIsFresh ==
    ASSUME TableInv, NEW p \in Procs, NEW g \in Pages,
           pte_get_entry(p, g) = None
    PROVE  pte[p][g] = None
  BY TableTyped DEF pte_get_entry, TableOK

\* Every step keeps TableInv.
LEMMA TableNext ==
    ASSUME AreaInv, FaultInv, TableInv, [Next]_vars
    PROVE  TableInv'
  <1>1. ASSUME UNCHANGED <<tableVars, faultVars>>
        PROVE  TableInv'
    BY <1>1 DEF faultVars, tableVars, TableInv, TableType
  <1>2. ASSUME NEW p \in Procs, Acts(p)
        PROVE  TableInv'
    <2>1. ASSUME NEW r \in Regions, NEW size \in Nat, liballoc(p, r, size)
          PROVE  TableInv'
      BY <1>1, <2>1 DEF liballoc
    <2>2. ASSUME NEW r \in Regions, libfree(p, r)
          PROVE  TableInv'
      BY <1>1, <2>2 DEF libfree
    <2>3. ASSUME NEW r \in Regions, NEW dest \in Regions, NEW off \in Nat,
                 NEW val \in Nat, NEW kind \in {"read", "write"},
                 Access(p, r, off, kind, val, dest)
          PROVE  TableInv'
      <3>1. PICK lo \in Nat :
               lo = IF IsHole(symrgtbl[p][r]) THEN NewRegion(p, DefaultSize).rg.lo
                    ELSE symrgtbl[p][r].lo
        BY AccessAddress, MemAssumption DEF AreaInv
      <3>2. PICK o : o = [kind |-> kind, addr |-> lo + off,
                          val |-> val, dest |-> dest]
        OBVIOUS
      <3>3. CASE UNCHANGED <<mpc, op>>
        BY <1>1, <2>3, <3>3 DEF Access, faultVars
      <3>4. CASE /\ mpc' = [mpc EXCEPT ![p] = "load"]
                 /\ op' = [op EXCEPT ![p] = o]
                 /\ pte_get_entry(p, PGN(o.addr)) = None
        <4>1. /\ mpc[p] = "idle" /\ UNCHANGED <<freefp, want, dataf, seen, lost>>
              /\ UNCHANGED tableVars
          BY <2>3 DEF Access, Fetch
        <4>2. FaultSet(p, "load", o, want[p], dataf[p], seen[p], lost[p])
          BY <3>4, <4>1, BeginEffect
        <4>3. want[p] = 0
          BY <4>1, FaultTyped DEF FaultOK
        <4>4. o.addr \in Nat
          BY <3>2
        <4>5. pte[p][PGN(o.addr)] = None
          BY <3>4, <4>4, PgnRange, FaultIsFresh
        <4>6. TableOK(tab[p], pte[p], o, want[p], lost[p])
          BY <4>3, <4>5, TableTyped DEF TableOK
        <4> QED BY <4>1, <4>2, <4>6, WalkOn
      <3> QED BY <2>3, <3>1, <3>2, <3>3, <3>4 DEF Access
    <2>4. ASSUME NEW m \in MapArgs, SysMap(p, m.addr, m.pgnum)
          PROVE  TableInv'
      <3>1. CASE m.pgnum = 0
        BY <1>1, <2>4, <3>1 DEF SysMap
      <3>2. CASE m.pgnum # 0
        <4>1. PICK o \in Ops : o = [kind |-> "map", addr |-> m.addr,
                                    val |-> m.pgnum, dest |-> 0]
          BY MemAssumption DEF Ops, Kinds
        <4>2. MemsetPage(p, o) /\ UNCHANGED tableVars
          BY <2>4, <3>2, <4>1 DEF SysMap
        <4>3. PICK n : n = FirstMissing(p, o.addr, 1, TRUE)
          OBVIOUS
        <4>4. FaultSet(p, Pc(n), o, n, dataf[p], <<>>, FALSE)
          BY <4>2, <4>3, MemsetEffect
        <4>5. TableOK(tab[p], pte[p], o, n, FALSE)
          <5>1. pte[p] \in [Pages -> Int] /\ o.kind \notin {"read", "write"}
            BY <4>1, TableTyped
          <5>2. \A g \in Pages : pte[p][g] # None =>
                   \A l \in 1 .. Depth : tab[p][Key(l, g)] # None
            BY TableTyped DEF TableOK
          <5> QED BY <4>3, <5>1, <5>2, WalkBegins
        <4> QED BY <4>2, <4>4, <4>5, WalkOn
      <3> QED BY <3>1, <3>2
    <2>5. ASSUME NEW area \in Int, NEW size \in Nat, SysInc(p, area, size)
          PROVE  TableInv'
      BY <1>1, <2>5 DEF SysInc
    <2>6. ASSUME NEW addr \in Nat, NEW val \in Nat, SysIoWrite(p, addr, val)
          PROVE  TableInv'
      BY <1>1, <2>6 DEF SysIoWrite
    <2>7. ASSUME SysOther(p)
          PROVE  TableInv'
      BY <1>1, <2>7 DEF SysOther
    <2>8. ASSUME EndFault(p), UNCHANGED tableVars
          PROVE  TableInv'
      <3>1. FaultSet(p, "idle", NoOp, 0, None, <<>>, FALSE)
        BY <2>8, EndEffect
      <3>2. TableOK(tab[p], pte[p], NoOp, 0, FALSE)
        BY TableTyped, NoWalk DEF TableOK
      <3> QED BY <2>8, <3>1, <3>2, WalkOn
    <2>9. ASSUME FrameLoad(p)
          PROVE  TableInv'
      BY <2>9, LoadEffect, TableTyped, WalkOn DEF FrameLoad
    <2>10. ASSUME OutOfFrames(p)
           PROVE  TableInv'
      <3>1. UNCHANGED tableVars
        BY <2>10 DEF OutOfFrames
      <3>2. CASE op[p].kind = "map" /\ NextPage(p)
        <4>1. TableSet(p, tab[p], pte[p], mapped[p])
          BY <3>1 DEF tableVars, TableSet, TableInv, TableType
        <4>2. orphans' \subseteq Frames /\ overlaid' \subseteq Frames
          BY <3>1, TableTyped DEF tableVars
        <4>3. \A h \in Pages : pte[p][h] # None =>
                 \A l \in 1 .. Depth : tab[p][Key(l, h)] # None
          BY TableTyped DEF TableOK
        <4> QED BY <3>2, <4>1, <4>2, <4>3, TableTyped, NextPageWalks
      <3>3. CASE EndFault(p)
        BY <2>8, <3>1, <3>3
      <3>4. CASE mpc' = [mpc EXCEPT ![p] = "putload"] /\ UNCHANGED faultVars
        BY <3>1, <3>4, <1>1
      <3> QED BY <2>10, <3>2, <3>3, <3>4 DEF OutOfFrames
    <2>11. ASSUME DataFrame(p)
           PROVE  TableInv'
      <3>1. PICK n : n = FirstMissing(p, op[p].addr, 1, TRUE)
        OBVIOUS
      <3>2. FaultSet(p, Pc(n), op[p], n, Head(seen[p]), <<>>, lost[p])
        BY <2>11, <3>1, DataEffect
      <3>3. TableOK(tab[p], pte[p], op[p], n, lost[p])
        <4>1. pte[p] \in [Pages -> Int]
          BY TableTyped
        <4>2. \A g \in Pages : pte[p][g] # None =>
                 \A l \in 1 .. Depth : tab[p][Key(l, g)] # None
          BY TableTyped DEF TableOK
        <4>3. op[p].kind \in {"read", "write"} => pte[p][PGN(op[p].addr)] = None
          BY TableTyped DEF TableOK
        <4>4. op[p] \in Ops /\ lost[p] \in BOOLEAN
          BY FaultTyped
        <4> QED BY <3>1, <4>1, <4>2, <4>3, <4>4, WalkBegins
      <3>4. UNCHANGED tableVars
        BY <2>11 DEF DataFrame
      <3> QED BY <3>2, <3>3, <3>4, WalkOn
    <2>12. ASSUME PutLoad(p)
           PROVE  TableInv'
      BY <2>12, PutLoadEffect, TableTyped, WalkOn DEF PutLoad
    <2>13. ASSUME PutStore(p)
           PROVE  TableInv'
      BY <2>8, <2>13 DEF PutStore
    <2>14. ASSUME pg_getpage(p)
           PROVE  TableInv'
      BY <2>9, <2>10, <2>11, <2>12, <2>13, <2>14, LinkKeeps, LoseKeeps,
         MapKeeps, MemsetPteKeeps DEF pg_getpage
    <2> QED BY <1>2, <2>1, <2>2, <2>3, <2>4, <2>5, <2>6, <2>7, <2>14 DEF Acts
  <1> QED BY <1>1, <1>2, NextCases DEF vars

\* At the start no fault is under way and no table exists.
LEMMA TablesInit ==
    ASSUME Init
    PROVE  FaultInv /\ TableInv
  <1>1. /\ freefp = [i \in 1 .. NumFrames |-> i - 1]
        /\ tab = [p \in Procs |-> [k \in Keys |-> None]]
        /\ pte = [p \in Procs |-> [g \in Pages |-> None]]
        /\ mpc = [p \in Procs |-> "idle"] /\ op = [p \in Procs |-> NoOp]
        /\ want = [p \in Procs |-> 0] /\ dataf = [p \in Procs |-> None]
        /\ seen = [p \in Procs |-> <<>>] /\ lost = [p \in Procs |-> FALSE]
        /\ orphans = {} /\ overlaid = {} /\ mapped = [p \in Procs |-> {}]
    BY DEF Init
  <1>2. freefp \in Seq(Frames)
    <2>1. NumFrames \in Nat
      BY MemAssumption
    <2>2. \A i \in 1 .. NumFrames : i - 1 \in Frames
      BY <2>1 DEF Frames
    <2> QED BY <1>1, <2>1, <2>2, IsASeq
  <1>3. /\ "idle" \in Pcs /\ NoOp \in Ops /\ 0 \in 0 .. Depth + 1
        /\ <<>> \in Seq(Frames)
    BY DEF Pcs, NoOp, Ops, Kinds, Depth
  <1>4. FaultOK("idle", NoOp, 0, None, <<>>, FALSE)
    BY DEF FaultOK, NoOp, Depth
  <1>5. FaultInv
    BY <1>1, <1>2, <1>3, <1>4 DEF FaultInv, FaultType
  <1>6. None \in Int /\ None \in Entries
    BY DEF None, Entries
  <1>7. TableType
    BY <1>1, <1>6 DEF TableType, PteRange
  <1>8. ASSUME NEW p \in Procs
        PROVE  TableOK(tab[p], pte[p], op[p], want[p], lost[p])
    <2>1. \A g \in Pages : pte[p][g] = None
      BY <1>1
    <2>2. TableOK(tab[p], pte[p], NoOp, 0, FALSE)
      BY <2>1, NoWalk
    <2> QED BY <1>1, <2>2
  <1> QED BY <1>5, <1>7, <1>8 DEF TableInv

\* AreaInv, FaultInv and TableInv hold throughout.
LEMMA TablesAlways == Spec => [](AreaInv /\ FaultInv /\ TableInv)
  BY AreaInit, TablesInit, AreaNext, FaultNext, TableNext, PTL DEF Spec

\* A page is in a process's tables only if every table on the way to it is
\* linked, whatever mix of faults, lost tables, MAPs and put-backs it and the
\* other processes go through, races for the free list included
\* (mm64.c:245-401).
THEOREM PagesAreReachable == Spec => []PagesHaveTables
  <1>1. TableInv => PagesHaveTables
    BY DEF TableInv, TableOK, PagesHaveTables
  <1> QED BY <1>1, TablesAlways, PTL

-----------------------------------------------------------------------------
(* Types.                                                                  *)

OutputType ==
    /\ regs \in [Procs -> [Regions -> {0, 1}]]
    /\ stat \in [Procs -> {"ok", "error", "nomem"}]
    /\ raw \subseteq 0 .. NumFrames * PAGESZ - 1

\* MEMPHY_read and MEMPHY_write leave the registers and the bytes in range.
LEMMA TransferTypes ==
    ASSUME OutputType, NEW p \in Procs, NEW o, NEW f, Transfer(p, o, f)
    PROVE  /\ regs' \in [Procs -> [Regions -> {0, 1}]]
           /\ raw' \subseteq 0 .. NumFrames * PAGESZ - 1
  <1>1. CASE UNCHANGED <<raw, regs>>
    BY <1>1 DEF OutputType
  <1>2. CASE raw' = raw \ {Cell(f, OFFST(o.addr))} /\ regs' = regs
    BY <1>2 DEF OutputType
  <1>3. CASE raw' = raw /\ \E v \in {0, 1} : regs' = [regs EXCEPT ![p][o.dest] = v]
    <2>1. PICK v \in {0, 1} : regs' = [regs EXCEPT ![p][o.dest] = v]
      BY <1>3
    <2>2. PICK d : d = o.dest
      OBVIOUS
    <2>3. regs' = [regs EXCEPT ![p][d] = v]
      BY <2>1, <2>2
    <2>4. regs' \in [Procs -> [Regions -> {0, 1}]]
      BY <2>3 DEF OutputType
    <2>5. raw' = raw
      BY <1>3
    <2> QED BY <2>4, <2>5 DEF OutputType
  <1> QED BY <1>1, <1>2, <1>3 DEF Transfer, ramVars

\* Every step keeps OutputType.
LEMMA OutputNext ==
    ASSUME OutputType, [Next]_vars
    PROVE  OutputType'
  <1> DEFINE SR == {"ok", "error", "nomem"}
  <1>1. ASSUME UNCHANGED <<regs, raw>>, stat' \in [Procs -> SR]
        PROVE  OutputType'
    BY <1>1 DEF OutputType
  <1>2. \A p \in Procs, x \in SR : Result(p, x) => stat' \in [Procs -> SR]
    BY DEF Result, OutputType
  <1>3. stat' = stat => stat' \in [Procs -> SR]
    BY DEF OutputType
  <1>4. \A p \in Procs : NextPage(p) => stat' \in [Procs -> SR]
    BY <1>2, <1>3 DEF NextPage
  <1>5. ASSUME NEW p \in Procs, Acts(p)
        PROVE  OutputType'
    <2>1. ASSUME NEW r \in Regions, NEW size \in Nat, liballoc(p, r, size)
          PROVE  OutputType'
      <3>1. raw' = raw /\ stat' \in [Procs -> SR]
        BY <1>2, <2>1 DEF liballoc, ramVars
      <3>2. regs' = regs \/ regs' = [regs EXCEPT ![p][r] = 1]
        BY <2>1 DEF liballoc
      <3> QED BY <3>1, <3>2 DEF OutputType
    <2>2. ASSUME NEW r \in Regions, libfree(p, r)
          PROVE  OutputType'
      BY <1>1, <1>2, <2>2 DEF libfree, ramVars
    <2>3. ASSUME NEW r \in Regions, NEW dest \in Regions, NEW off \in Nat,
                 NEW val \in Nat, NEW kind \in {"read", "write"},
                 Access(p, r, off, kind, val, dest)
          PROVE  OutputType'
      <3>1. \/ UNCHANGED <<regs, raw>> /\ Result(p, "error")
            \/ UNCHANGED <<regs, raw, stat>>
            \/ Result(p, "ok") /\ \E o, f : Transfer(p, o, f)
        BY <2>3 DEF Access, ramVars
      <3> QED BY <1>1, <1>2, <1>3, <3>1, TransferTypes DEF OutputType
    <2>4. ASSUME NEW m \in MapArgs, SysMap(p, m.addr, m.pgnum)
          PROVE  OutputType'
      BY <1>1, <1>2, <1>3, <2>4 DEF SysMap, ramVars
    <2>5. ASSUME NEW area \in Int, NEW size \in Nat, SysInc(p, area, size)
          PROVE  OutputType'
      BY <1>1, <1>2, <2>5 DEF SysInc, ramVars
    <2>6. ASSUME NEW addr \in Nat, NEW val \in Nat, SysIoWrite(p, addr, val)
          PROVE  OutputType'
      <3>1. regs' = regs /\ stat' \in [Procs -> SR]
        BY <1>2, <2>6 DEF SysIoWrite
      <3>2. raw' = raw \/ (raw' = raw \cup {addr} /\ addr \div PAGESZ \in Frames)
        BY <2>6 DEF SysIoWrite
      <3>3. addr \div PAGESZ \in Frames => addr \in 0 .. NumFrames * PAGESZ - 1
        BY DivLess, MemAssumption DEF Frames
      <3> QED BY <3>1, <3>2, <3>3 DEF OutputType
    <2>7. ASSUME SysOther(p)
          PROVE  OutputType'
      BY <1>1, <1>2, <2>7 DEF SysOther, ramVars
    <2>8. ASSUME MapPage(p)
          PROVE  OutputType'
      BY <1>2, <2>8, TransferTypes DEF MapPage, OutputType
    <2>9. ASSUME TableFrame(p)
          PROVE  OutputType'
      <3>1. UNCHANGED <<regs, stat>> /\ raw' \subseteq raw
        BY <2>9 DEF TableFrame
      <3> QED BY <3>1 DEF OutputType
    <2>10. ASSUME OutOfFrames(p)
           PROVE  OutputType'
      BY <1>1, <1>2, <1>3, <1>4, <2>10 DEF OutOfFrames, ramVars
    <2>11. ASSUME MemsetPte(p)
           PROVE  OutputType'
      BY <1>1, <1>4, <2>11 DEF MemsetPte, ramVars
    <2>12. ASSUME FrameLoad(p) \/ DataFrame(p) \/ PutLoad(p) \/ PutStore(p)
           PROVE  OutputType'
      BY <1>1, <1>2, <1>3, <2>12
         DEF FrameLoad, DataFrame, PutLoad, PutStore, ramVars
    <2>13. ASSUME pg_getpage(p)
           PROVE  OutputType'
      BY <2>8, <2>9, <2>10, <2>11, <2>12, <2>13 DEF pg_getpage
    <2> QED BY <1>5, <2>1, <2>2, <2>3, <2>4, <2>5, <2>6, <2>7, <2>13 DEF Acts
  <1> QED BY <1>1, <1>3, <1>5, NextCases DEF vars, ramVars

\* The initial values, whatever malloc left in the registers.
LEMMA OutputInit ==
    ASSUME Init
    PROVE  OutputType
  BY DEF Init, OutputType

\* Every address stays in range of addr_t, every frame number in the RAM or,
\* where MAP has set it, in a PTE, and every process at a point of its
\* instruction, through all faults and races.
THEOREM MemTyped == Spec => []TypeOK
  <1>1. AreaInv /\ FaultInv /\ TableInv /\ OutputType => TypeOK
    <2> SUFFICES ASSUME AreaInv, FaultInv, TableInv, OutputType
                 PROVE  TypeOK
      OBVIOUS
    <2>1. \A i \in DOMAIN freefp : freefp[i] \in Frames
      BY DEF FaultInv, FaultType
    <2>2. /\ sbrk \in [Procs -> Addrs] /\ vm_end \in [Procs -> Addrs]
          /\ symrgtbl \in [Procs -> [Regions -> [lo : Addrs, hi : Addrs]]]
          /\ wraps \in [Procs -> SUBSET {"sbrk", "vm_end"}]
      BY DEF AreaInv, AreaType, Spans
    <2>3. /\ tab \in [Procs -> [Keys -> Frames \cup {None}]]
          /\ \A p \in Procs, g \in Pages : pte[p][g] \in
                IF g \in mapped[p] THEN 0 .. FpnRange - 1 ELSE Frames \cup {None}
          /\ orphans \subseteq Frames /\ overlaid \subseteq Frames
      BY DEF TableInv, TableType, Entries, PteRange
    <2>4. /\ mpc \in [Procs -> {"idle", "load", "store", "map", "putload",
                                "putstore"}]
          /\ want \in [Procs -> 0 .. Depth + 1]
          /\ dataf \in [Procs -> Frames \cup {None}]
      BY DEF FaultInv, FaultType, Pcs
    <2> QED BY <2>1, <2>2, <2>3, <2>4 DEF TypeOK, OutputType
  <1>2. Spec => []OutputType
    BY OutputInit, OutputNext, PTL DEF Spec
  <1> QED BY <1>1, <1>2, TablesAlways, PTL

-----------------------------------------------------------------------------
(* Frames.                                                                 *)

\* The places of Places other than the free list, by kind, that have a frame.
TableUse(tb) ==
    {x \in {<<"table", p, k, tb[p][k]>> : p \in Procs, k \in Keys} : x[4] # None}
PageUse(pt, mp) ==
    {x \in UNION {{<<"page", p, g, pt[p][g]>> : g \in Pages \ mp[p]} : p \in Procs} :
        x[4] # None}
HandUse(df)   == {x \in {<<"hand", p, 0, df[p]>> : p \in Procs} : x[4] # None}
OverUse(ov)   == {<<"overlaid", "ram", 0, f>> : f \in ov}
OrphanUse(oz) == {<<"orphan", "ram", 0, f>> : f \in oz}

Others == TableUse(tab) \cup PageUse(pte, mapped) \cup HandUse(dataf)
             \cup OverUse(overlaid) \cup OrphanUse(orphans)

\* Every frame is once in the list ff or has one of the places in U.
OneUser(ff, U) ==
    /\ \A i, j \in 1 .. Len(ff) : ff[i] = ff[j] => i = j
    /\ \A x \in U : x[4] \in Frames /\ \A i \in 1 .. Len(ff) : ff[i] # x[4]
    /\ \A x, y \in U : x[4] = y[4] => x = y
    /\ \A f \in Frames : \/ \E i \in 1 .. Len(ff) : ff[i] = f
                         \/ \E x \in U : x[4] = f

\* Between its read and its store of the list head.
MidList(m) == m \in {"store", "putstore"}

\* Until two threads are in the free list at once, the one that is in it has
\* read the list as it is, and every frame has one user.
ListOK(p) ==
    MidList(mpc[p]) =>
        seen[p] = freefp /\ \A q \in Procs \ {p} : ~MidList(mpc[q])

FrameInv == raced \/ ((\A p \in Procs : ListOK(p)) /\ OneUser(freefp, Others))

\* A frame leaves the list for a place.
LEMMA TakeFrame ==
    ASSUME NEW ff \in Seq(Frames), NEW U, OneUser(ff, U), ff # <<>>,
           NEW y, y[4] = Head(ff)
    PROVE  OneUser(Tail(ff), U \cup {y})
  <1>1. /\ Len(ff) \in Nat \ {0} /\ Head(ff) = ff[1] /\ ff[1] \in Frames
        /\ Len(Tail(ff)) = Len(ff) - 1
        /\ \A i \in 1 .. Len(ff) - 1 : Tail(ff)[i] = ff[i + 1]
    BY HeadTailProperties
  <1>2. PICK n \in Nat \ {0} : n = Len(ff)
    BY <1>1
  <1>3. PICK tf : tf = Tail(ff)
    OBVIOUS
  <1>4. Len(tf) = n - 1 /\ \A i \in 1 .. n - 1 : tf[i] = ff[i + 1]
    BY <1>1, <1>2, <1>3
  <1>5. /\ \A i, j \in 1 .. n : ff[i] = ff[j] => i = j
        /\ \A x \in U : x[4] \in Frames /\ \A i \in 1 .. n : ff[i] # x[4]
        /\ \A x, z \in U : x[4] = z[4] => x = z
        /\ \A f \in Frames : \/ \E i \in 1 .. n : ff[i] = f
                             \/ \E x \in U : x[4] = f
    BY <1>2 DEF OneUser
  <1>6. y[4] = ff[1] /\ ff[1] \in Frames /\ 1 \in 1 .. n
    BY <1>1, <1>2
  <1>7. \A i, j \in 1 .. n - 1 : tf[i] = tf[j] => i = j
    BY <1>4, <1>5
  <1>8. \A x \in U \cup {y} :
           x[4] \in Frames /\ \A i \in 1 .. n - 1 : tf[i] # x[4]
    BY <1>4, <1>5, <1>6
  <1>9. \A x, z \in U \cup {y} : x[4] = z[4] => x = z
    BY <1>5, <1>6
  <1>10. ASSUME NEW f \in Frames
         PROVE  \/ \E i \in 1 .. n - 1 : tf[i] = f
                \/ \E x \in U \cup {y} : x[4] = f
    <2>1. CASE \E x \in U : x[4] = f
      BY <2>1
    <2>2. CASE f = ff[1]
      BY <1>6, <2>2
    <2>3. ASSUME NEW i \in 1 .. n, i # 1, ff[i] = f
          PROVE  \E j \in 1 .. n - 1 : tf[j] = f
      <3>1. i - 1 \in 1 .. n - 1 /\ (i - 1) + 1 = i
        BY <2>3
      <3>2. tf[i - 1] = ff[i]
        BY <1>4, <3>1
      <3> QED BY <2>3, <3>1, <3>2
    <2> QED BY <1>5, <2>1, <2>2, <2>3
  <1> QED BY <1>3, <1>4, <1>7, <1>8, <1>9, <1>10 DEF OneUser

\* A frame goes from one place to another.
LEMMA MoveFrame ==
    ASSUME NEW ff, NEW U, OneUser(ff, U), NEW x \in U, NEW y, y[4] = x[4]
    PROVE  OneUser(ff, (U \ {x}) \cup {y})
  <1>1. \A i, j \in 1 .. Len(ff) : ff[i] = ff[j] => i = j
    BY DEF OneUser
  <1>2. \A z \in (U \ {x}) \cup {y} :
           z[4] \in Frames /\ \A i \in 1 .. Len(ff) : ff[i] # z[4]
    BY DEF OneUser
  <1>3. \A z, v \in (U \ {x}) \cup {y} : z[4] = v[4] => z = v
    BY DEF OneUser
  <1>4. \A f \in Frames : \/ \E i \in 1 .. Len(ff) : ff[i] = f
                          \/ \E z \in (U \ {x}) \cup {y} : z[4] = f
    BY DEF OneUser
  <1> QED BY <1>1, <1>2, <1>3, <1>4 DEF OneUser

\* A frame goes back to the list.
LEMMA ReturnFrame ==
    ASSUME NEW ff \in Seq(Frames), NEW U, OneUser(ff, U), NEW x \in U,
           NEW f \in Frames, x[4] = f
    PROVE  OneUser(<<f>> \o ff, U \ {x})
  <1>1. PICK n \in Nat : n = Len(ff)
    OBVIOUS
  <1>2. PICK cf : cf = <<f>> \o ff
    OBVIOUS
  <1>3. /\ Len(cf) = n + 1 /\ cf[1] = f
        /\ \A i \in 2 .. n + 1 : cf[i] = ff[i - 1]
    <2>1. <<f>> \in Seq(Frames) /\ Len(<<f>>) = 1 /\ <<f>>[1] = f
      OBVIOUS
    <2>2. /\ Len(cf) = 1 + n
          /\ \A i \in 1 .. 1 + n : cf[i] = IF i <= 1 THEN <<f>>[i] ELSE ff[i - 1]
      BY <1>1, <1>2, <2>1, ConcatProperties
    <2> QED BY <2>1, <2>2
  <1>4. /\ \A i, j \in 1 .. n : ff[i] = ff[j] => i = j
        /\ \A z \in U : z[4] \in Frames /\ \A i \in 1 .. n : ff[i] # z[4]
        /\ \A z, v \in U : z[4] = v[4] => z = v
        /\ \A h \in Frames : \/ \E i \in 1 .. n : ff[i] = h
                             \/ \E z \in U : z[4] = h
    BY <1>1 DEF OneUser
  <1>5. \A i \in 2 .. n + 1 : i - 1 \in 1 .. n
    OBVIOUS
  <1>6. \A i \in 2 .. n + 1 : cf[i] # f
    BY <1>3, <1>4, <1>5
  <1>7. \A i, j \in 1 .. n + 1 : cf[i] = cf[j] => i = j
    <2> SUFFICES ASSUME NEW i \in 1 .. n + 1, NEW j \in 1 .. n + 1, cf[i] = cf[j]
                 PROVE  i = j
      OBVIOUS
    <2>1. CASE i = 1 \/ j = 1
      BY <1>3, <1>6, <2>1
    <2>2. CASE i # 1 /\ j # 1
      <3>1. i - 1 \in 1 .. n /\ j - 1 \in 1 .. n /\ ff[i - 1] = ff[j - 1]
        BY <1>3, <2>2
      <3>2. i - 1 = j - 1
        BY <1>4, <3>1
      <3> QED BY <3>2
    <2> QED BY <2>1, <2>2
  <1>8. \A z \in U \ {x} : z[4] # f
    BY <1>4
  <1>9. \A z \in U \ {x} :
           z[4] \in Frames /\ \A i \in 1 .. n + 1 : cf[i] # z[4]
    <2> SUFFICES ASSUME NEW z \in U \ {x}, NEW i \in 1 .. n + 1
                 PROVE  z[4] \in Frames /\ cf[i] # z[4]
      BY <1>4
    <2>1. CASE i = 1
      BY <1>3, <1>4, <1>8, <2>1
    <2>2. CASE i # 1
      BY <1>3, <1>4, <1>5, <2>2
    <2> QED BY <2>1, <2>2
  <1>10. ASSUME NEW h \in Frames
         PROVE  \/ \E i \in 1 .. n + 1 : cf[i] = h
                \/ \E z \in U \ {x} : z[4] = h
    <2>1. CASE h = f
      <3>1. 1 \in 1 .. n + 1
        OBVIOUS
      <3> QED BY <1>3, <2>1, <3>1
    <2>2. ASSUME NEW i \in 1 .. n, ff[i] = h
          PROVE  \E j \in 1 .. n + 1 : cf[j] = h
      <3>1. i + 1 \in 2 .. n + 1 /\ i + 1 \in 1 .. n + 1 /\ (i + 1) - 1 = i
        OBVIOUS
      <3> QED BY <1>3, <2>2, <3>1
    <2>3. ASSUME NEW z \in U, z[4] = h, h # f
          PROVE  \E v \in U \ {x} : v[4] = h
      BY <2>3
    <2> QED BY <1>4, <2>1, <2>2, <2>3
  <1>11. \A z, v \in U \ {x} : z[4] = v[4] => z = v
    BY <1>4
  <1> QED BY <1>2, <1>3, <1>7, <1>9, <1>10, <1>11 DEF OneUser

\* A table, a page and a hand that get a frame; a page and a hand that give
\* theirs up.
LEMMA TableUseLink ==
    ASSUME NEW tb \in [Procs -> [Keys -> Entries]], NEW p \in Procs,
           NEW k \in Keys, tb[p][k] = None, NEW f \in Frames, f # None,
           NEW t2, \A q \in Procs, j \in Keys :
                      t2[q][j] = IF q = p /\ j = k THEN f ELSE tb[q][j]
    PROVE  TableUse(t2) = TableUse(tb) \cup {<<"table", p, k, f>>}
  <1>1. ASSUME NEW x \in TableUse(t2)
        PROVE  x \in TableUse(tb) \cup {<<"table", p, k, f>>}
    <2>1. PICK q \in Procs, j \in Keys : x = <<"table", q, j, t2[q][j]>>
      BY DEF TableUse
    <2>2. t2[q][j] # None
      BY <2>1 DEF TableUse
    <2> QED BY <2>1, <2>2 DEF TableUse
  <1>2. ASSUME NEW x \in TableUse(tb)
        PROVE  x \in TableUse(t2)
    <2>1. PICK q \in Procs, j \in Keys : x = <<"table", q, j, tb[q][j]>>
      BY DEF TableUse
    <2>2. tb[q][j] # None
      BY <2>1 DEF TableUse
    <2>3. t2[q][j] = tb[q][j]
      BY <2>2
    <2> QED BY <2>1, <2>2, <2>3 DEF TableUse
  <1>3. <<"table", p, k, f>> \in TableUse(t2)
    BY DEF TableUse
  <1> QED BY <1>1, <1>2, <1>3

\* Storing a frame in an empty entry adds one user.
LEMMA PageUseSet ==
    ASSUME NEW pt \in [Procs -> [Pages -> Int]], NEW mp \in [Procs -> SUBSET Pages],
           NEW p \in Procs, NEW g \in Pages, g \notin mp[p], pt[p][g] = None,
           NEW f \in Frames, f # None,
           NEW t2, \A q \in Procs, j \in Pages :
                      t2[q][j] = IF q = p /\ j = g THEN f ELSE pt[q][j]
    PROVE  PageUse(t2, mp) = PageUse(pt, mp) \cup {<<"page", p, g, f>>}
  <1>1. ASSUME NEW x \in PageUse(t2, mp)
        PROVE  x \in PageUse(pt, mp) \cup {<<"page", p, g, f>>}
    <2>1. PICK q \in Procs : \E j \in Pages \ mp[q] : x = <<"page", q, j, t2[q][j]>>
      BY DEF PageUse
    <2>2. PICK j \in Pages \ mp[q] : x = <<"page", q, j, t2[q][j]>>
      BY <2>1
    <2>3. t2[q][j] # None
      BY <2>2 DEF PageUse
    <2> QED BY <2>2, <2>3 DEF PageUse
  <1>2. ASSUME NEW x \in PageUse(pt, mp)
        PROVE  x \in PageUse(t2, mp)
    <2>1. PICK q \in Procs : \E j \in Pages \ mp[q] : x = <<"page", q, j, pt[q][j]>>
      BY DEF PageUse
    <2>2. PICK j \in Pages \ mp[q] : x = <<"page", q, j, pt[q][j]>>
      BY <2>1
    <2>3. pt[q][j] # None
      BY <2>2 DEF PageUse
    <2>4. t2[q][j] = pt[q][j]
      BY <2>3
    <2> QED BY <2>2, <2>3, <2>4 DEF PageUse
  <1>3. <<"page", p, g, f>> \in PageUse(t2, mp)
    BY DEF PageUse
  <1> QED BY <1>1, <1>2, <1>3

\* A MAP of page g of process p takes PTEs pt and mapped pages mp to t2 and m2.
Covers(p, g, pt, mp, t2, m2) ==
    \A q \in Procs, j \in Pages :
       /\ ~(q = p /\ j = g) => t2[q][j] = pt[q][j]
       /\ j \in m2[q] <=> j \in mp[q] \/ (q = p /\ j = g)

\* The frame of that page is no longer its own.
LEMMA PageUseDrop ==
    ASSUME NEW pt \in [Procs -> [Pages -> Int]], NEW mp \in [Procs -> SUBSET Pages],
           NEW p \in Procs, NEW g \in Pages, NEW t2, NEW m2,
           Covers(p, g, pt, mp, t2, m2)
    PROVE  PageUse(t2, m2) = PageUse(pt, mp) \ {<<"page", p, g, pt[p][g]>>}
  <1> USE DEF Covers
  <1>1. ASSUME NEW x \in PageUse(t2, m2)
        PROVE  x \in PageUse(pt, mp) \ {<<"page", p, g, pt[p][g]>>}
    <2>1. PICK q \in Procs : \E j \in Pages \ m2[q] : x = <<"page", q, j, t2[q][j]>>
      BY DEF PageUse
    <2>2. PICK j \in Pages \ m2[q] : x = <<"page", q, j, t2[q][j]>>
      BY <2>1
    <2>3. j \notin mp[q] /\ ~(q = p /\ j = g)
      BY <2>2
    <2>4. t2[q][j] = pt[q][j] /\ t2[q][j] # None
      BY <2>2, <2>3 DEF PageUse
    <2> QED BY <2>2, <2>3, <2>4 DEF PageUse
  <1>2. ASSUME NEW x \in PageUse(pt, mp), x # <<"page", p, g, pt[p][g]>>
        PROVE  x \in PageUse(t2, m2)
    <2>1. PICK q \in Procs : \E j \in Pages \ mp[q] : x = <<"page", q, j, pt[q][j]>>
      BY DEF PageUse
    <2>2. PICK j \in Pages \ mp[q] : x = <<"page", q, j, pt[q][j]>>
      BY <2>1
    <2>3. ~(q = p /\ j = g)
      BY <1>2, <2>2
    <2>4. j \notin m2[q] /\ t2[q][j] = pt[q][j] /\ pt[q][j] # None
      BY <2>2, <2>3 DEF PageUse
    <2> QED BY <2>2, <2>4 DEF PageUse
  <1> QED BY <1>1, <1>2

\* A frame taken by a thread that had none adds one user.
LEMMA HandUseTake ==
    ASSUME NEW df \in [Procs -> Entries], NEW p \in Procs, df[p] = None,
           NEW f \in Frames, f # None
    PROVE  HandUse([df EXCEPT ![p] = f]) = HandUse(df) \cup {<<"hand", p, 0, f>>}
  <1>1. PICK d2 : d2 = [df EXCEPT ![p] = f]
    OBVIOUS
  <1>2. \A q \in Procs : d2[q] = IF q = p THEN f ELSE df[q]
    BY <1>1
  <1>3. ASSUME NEW x \in HandUse(d2)
        PROVE  x \in HandUse(df) \cup {<<"hand", p, 0, f>>}
    <2>1. PICK q \in Procs : x = <<"hand", q, 0, d2[q]>>
      BY DEF HandUse
    <2>2. d2[q] # None
      BY <2>1 DEF HandUse
    <2> QED BY <1>2, <2>1, <2>2 DEF HandUse
  <1>4. ASSUME NEW x \in HandUse(df)
        PROVE  x \in HandUse(d2)
    <2>1. PICK q \in Procs : x = <<"hand", q, 0, df[q]>>
      BY DEF HandUse
    <2>2. df[q] # None
      BY <2>1 DEF HandUse
    <2>3. d2[q] = df[q]
      BY <1>2, <2>2
    <2> QED BY <2>1, <2>2, <2>3 DEF HandUse
  <1>5. <<"hand", p, 0, f>> \in HandUse(d2)
    BY <1>2 DEF HandUse
  <1> QED BY <1>1, <1>3, <1>4, <1>5

\* A thread that lets go of its frame is no longer a user.
LEMMA HandUseDrop ==
    ASSUME NEW df \in [Procs -> Entries], NEW p \in Procs
    PROVE  HandUse([df EXCEPT ![p] = None]) =
              HandUse(df) \ {<<"hand", p, 0, df[p]>>}
  <1>1. PICK d2 : d2 = [df EXCEPT ![p] = None]
    OBVIOUS
  <1>2. \A q \in Procs : d2[q] = IF q = p THEN None ELSE df[q]
    BY <1>1
  <1>3. ASSUME NEW x \in HandUse(d2)
        PROVE  x \in HandUse(df) \ {<<"hand", p, 0, df[p]>>}
    <2>1. PICK q \in Procs : x = <<"hand", q, 0, d2[q]>>
      BY DEF HandUse
    <2>2. d2[q] # None
      BY <2>1 DEF HandUse
    <2>3. q # p /\ d2[q] = df[q]
      BY <1>2, <2>2
    <2> QED BY <2>1, <2>2, <2>3 DEF HandUse
  <1>4. ASSUME NEW x \in HandUse(df), x # <<"hand", p, 0, df[p]>>
        PROVE  x \in HandUse(d2)
    <2>1. PICK q \in Procs : x = <<"hand", q, 0, df[q]>>
      BY DEF HandUse
    <2>2. q # p /\ df[q] # None
      BY <1>4, <2>1 DEF HandUse
    <2>3. d2[q] = df[q]
      BY <1>2, <2>2
    <2> QED BY <2>1, <2>2, <2>3 DEF HandUse
  <1> QED BY <1>1, <1>3, <1>4

\* The kind of a place is its first component, so places of different kinds
\* are different.
LEMMA UseKinds ==
    /\ \A tb : \A x \in TableUse(tb) : x[1] = "table"
    /\ \A pt, mp : \A x \in PageUse(pt, mp) : x[1] = "page"
    /\ \A df : \A x \in HandUse(df) : x[1] = "hand"
    /\ \A ov : \A x \in OverUse(ov) : x[1] = "overlaid"
    /\ \A oz : \A x \in OrphanUse(oz) : x[1] = "orphan"
  BY DEF TableUse, PageUse, HandUse, OverUse, OrphanUse

\* The list part of FrameInv, when process p goes to m with list s.
LEMMA ListKeeps ==
    ASSUME FaultInv, FrameInv, ~raced, NEW p \in Procs,
           NEW m, NEW o, NEW w, NEW d, NEW s, NEW b,
           FaultSet(p, m, o, w, d, s, b),
           \/ ~MidList(m) /\ (freefp' = freefp \/ MidList(mpc[p]))
           \/ s = freefp /\ freefp' = freefp /\ ~InList(p)
    PROVE  \A q \in Procs : ListOK(q)'
  <1>1. /\ FaultType
        /\ \A q \in Procs : MidList(mpc[q]) =>
              seen[q] = freefp /\ \A z \in Procs \ {q} : ~MidList(mpc[z])
    BY DEF FaultInv, FrameInv, ListOK
  <1>2. \A q \in Procs : /\ mpc'[q] = IF q = p THEN m ELSE mpc[q]
                         /\ seen'[q] = IF q = p THEN s ELSE seen[q]
    BY <1>1 DEF FaultType, FaultSet
  <1>3. ASSUME NEW q \in Procs, MidList(mpc'[q])
        PROVE  seen'[q] = freefp' /\ \A z \in Procs \ {q} : ~MidList(mpc'[z])
    <2>1. CASE ~MidList(m) /\ freefp' = freefp
      BY <1>1, <1>2, <1>3, <2>1
    <2>2. CASE ~MidList(m) /\ MidList(mpc[p])
      BY <1>1, <1>2, <1>3, <2>2
    <2>3. CASE s = freefp /\ freefp' = freefp /\ ~InList(p)
      <3>1. \A z \in Procs \ {p} : ~MidList(mpc[z])
        BY <2>3 DEF InList, MidList
      <3> QED BY <1>1, <1>2, <1>3, <2>3, <3>1
    <2> QED BY <2>1, <2>2, <2>3
  <1> QED BY <1>3 DEF ListOK, MidList

\* Nothing but the process's place in its instruction changes.
LEMMA SameFrames ==
    ASSUME FaultInv, FrameInv, NEW p \in Procs,
           freefp' = freefp, raced' = raced, UNCHANGED tableVars,
           NEW m, NEW o, NEW w, NEW s, NEW b,
           FaultSet(p, m, o, w, dataf[p], s, b), ~MidList(m)
    PROVE  FrameInv'
  <1>1. CASE raced
    BY <1>1 DEF FrameInv
  <1>2. CASE ~raced
    <2>1. \A q \in Procs : ListOK(q)'
      BY <1>2, ListKeeps
    <2>2. dataf' = dataf
      BY DEF FaultSet, FaultInv, FaultType
    <2>3. Others' = Others
      BY <2>2 DEF Others, tableVars
    <2>4. OneUser(freefp, Others)
      BY <1>2 DEF FrameInv
    <2>5. OneUser(freefp', Others')
      BY <2>3, <2>4
    <2> QED BY <2>1, <2>5 DEF FrameInv
  <1> QED BY <1>1, <1>2

\* The first half of get_freefp and put_freefp.
LEMMA ReadList ==
    ASSUME FaultInv, FrameInv, NEW p \in Procs,
           freefp' = freefp, raced' = (raced \/ InList(p)), UNCHANGED tableVars,
           NEW m, FaultSet(p, m, op[p], want[p], dataf[p], freefp, lost[p])
    PROVE  FrameInv'
  <1>1. CASE raced'
    BY <1>1 DEF FrameInv
  <1>2. CASE ~raced'
    <2>0. ~raced /\ ~InList(p)
      BY <1>2
    <2>1. \A q \in Procs : ListOK(q)'
      BY <2>0, ListKeeps
    <2>2. dataf' = dataf
      BY DEF FaultSet, FaultInv, FaultType
    <2>3. Others' = Others
      BY <2>2 DEF Others, tableVars
    <2>4. OneUser(freefp, Others)
      BY <2>0 DEF FrameInv
    <2>5. OneUser(freefp', Others')
      BY <2>3, <2>4
    <2> QED BY <2>1, <2>5 DEF FrameInv
  <1> QED BY <1>1, <1>2

\* A step that moves a frame, of a process that is not in the list after it.
LEMMA MovedFrames ==
    ASSUME FaultInv, FrameInv, NEW p \in Procs, raced' = raced,
           NEW m, NEW o, NEW w, NEW d, NEW s, NEW b,
           FaultSet(p, m, o, w, d, s, b), ~MidList(m),
           freefp' = freefp \/ MidList(mpc[p]),
           ~raced => OneUser(freefp', Others')
    PROVE  FrameInv'
  <1>1. CASE raced
    BY <1>1 DEF FrameInv
  <1>2. CASE ~raced
    <2>1. \A q \in Procs : ListOK(q)'
      BY <1>2, ListKeeps
    <2> QED BY <1>2, <2>1 DEF FrameInv
  <1> QED BY <1>1, <1>2

\* The process that is in the list has read it as it is.
LEMMA HasRead ==
    ASSUME FrameInv, ~raced, NEW p \in Procs, MidList(mpc[p])
    PROVE  seen[p] = freefp /\ OneUser(freefp, Others)
  BY DEF FrameInv, ListOK

\* Where a process that wants level n is, it is not in the list.
LEMMA PcNotMid ==
    /\ \A n : ~MidList(Pc(n))
    /\ ~MidList("idle") /\ ~MidList("putload") /\ ~MidList("load")
  BY DEF MidList, Pc

\* A page of a MAP, or the end of it.
LEMMA NextPageMoves ==
    ASSUME FaultInv, NEW p \in Procs, op[p].kind = "map", NextPage(p)
    PROVE  \E m, o, w, s, b :
              FaultSet(p, m, o, w, dataf[p], s, b) /\ ~MidList(m)
  <1>1. CASE op[p].val = 1
    <2>1. FaultSet(p, "idle", NoOp, 0, None, <<>>, FALSE)
      BY <1>1, EndEffect DEF NextPage
    <2>2. dataf[p] = None
      BY FaultTyped DEF FaultOK
    <2> QED BY <2>1, <2>2, PcNotMid
  <1>2. CASE op[p].val # 1
    <2>1. PICK o : o = [op[p] EXCEPT !.addr = (@ + PAGESZ) % Wrap,
                                    !.val = @ - 1, !.dest = @ + 1]
      OBVIOUS
    <2>2. MemsetPage(p, o)
      BY <1>2, <2>1 DEF NextPage
    <2>3. PICK n : n = FirstMissing(p, o.addr, 1, TRUE)
      OBVIOUS
    <2>4. FaultSet(p, Pc(n), o, n, dataf[p], <<>>, FALSE)
      BY <2>2, <2>3, MemsetEffect
    <2> QED BY <2>4, PcNotMid
  <1> QED BY <1>1, <1>2

\* DataFrame: from the list to the hands of the process.
LEMMA DataMoves ==
    ASSUME FaultInv, TableInv, FrameInv, NEW p \in Procs, DataFrame(p)
    PROVE  FrameInv'
  <1>1. PICK n : n = FirstMissing(p, op[p].addr, 1, TRUE)
    OBVIOUS
  <1>2. FaultSet(p, Pc(n), op[p], n, Head(seen[p]), <<>>, lost[p])
    BY <1>1, DataEffect
  <1>3. /\ mpc[p] = "store" /\ want[p] = 0 /\ freefp' = Tail(seen[p])
        /\ raced' = raced /\ UNCHANGED tableVars
    BY DEF DataFrame
  <1>4. dataf[p] = None
    BY <1>3, FaultTyped DEF FaultOK
  <1>5. ASSUME ~raced
        PROVE  OneUser(freefp', Others')
    <2>1. seen[p] = freefp /\ OneUser(freefp, Others)
      BY <1>3, <1>5, HasRead DEF MidList
    <2>2. freefp \in Seq(Frames) /\ freefp # <<>>
      BY <1>3, <2>1, FaultTyped DEF FaultOK
    <2>3. PICK f \in Frames : f = Head(freefp)
      BY <2>2, HeadTailProperties
    <2>4. f # None
      BY MemAssumption DEF Frames, None
    <2>5. dataf' = [dataf EXCEPT ![p] = f]
      BY <1>2, <2>1, <2>3 DEF FaultSet
    <2>6. HandUse(dataf') = HandUse(dataf) \cup {<<"hand", p, 0, f>>}
      <3>1. dataf \in [Procs -> Entries]
        BY DEF FaultInv, FaultType, Entries
      <3>2. HandUse([dataf EXCEPT ![p] = f]) =
               HandUse(dataf) \cup {<<"hand", p, 0, f>>}
        BY <1>4, <2>4, <3>1, HandUseTake
      <3> QED BY <2>5, <3>2
    <2>7. Others' = Others \cup {<<"hand", p, 0, f>>}
      BY <1>3, <2>6 DEF Others, tableVars
    <2>8. OneUser(Tail(freefp), Others \cup {<<"hand", p, 0, f>>})
      <3>1. PICK y : y = <<"hand", p, 0, f>>
        OBVIOUS
      <3>2. y[4] = Head(freefp)
        BY <2>3, <3>1
      <3> QED BY <2>1, <2>2, <3>1, <3>2, TakeFrame
    <2> QED BY <1>3, <2>1, <2>7, <2>8
  <1>6. MidList(mpc[p])
    BY <1>3 DEF MidList
  <1> QED BY <1>2, <1>3, <1>5, <1>6, PcNotMid, MovedFrames

\* TableFrame: from the list to the table, or lost.
LEMMA TableMoves ==
    ASSUME FaultInv, TableInv, FrameInv, NEW p \in Procs, TableFrame(p)
    PROVE  FrameInv'
  <1>1. PICK n : n = FirstMissing(p, op[p].addr, want[p] + 1, Links(p))
    OBVIOUS
  <1>2. FaultSet(p, Pc(n), op[p], n, dataf[p], <<>>, ~Links(p))
    BY <1>1, TableEffect
  <1>3. /\ mpc[p] = "store" /\ want[p] # 0 /\ freefp' = Tail(seen[p])
        /\ raced' = raced /\ UNCHANGED <<pte, mapped, overlaid, dataf>>
    BY DEF TableFrame
  <1>4. ASSUME ~raced
        PROVE  OneUser(freefp', Others')
    <2>1. seen[p] = freefp /\ OneUser(freefp, Others)
      BY <1>3, <1>4, HasRead DEF MidList
    <2>2. freefp \in Seq(Frames) /\ freefp # <<>>
      BY <1>3, <2>1, FaultTyped DEF FaultOK
    <2>3. PICK f \in Frames : f = Head(freefp)
      BY <2>2, HeadTailProperties
    <2>4. f # None
      BY MemAssumption DEF Frames, None
    <2>5. PICK g \in Pages : g = PGN(op[p].addr)
      BY FaultTyped, PgnRange DEF Ops
    <2>6. PICK w \in 1 .. Depth : w = want[p]
      BY <1>3, FaultTyped DEF FaultOK, Depth
    <2>7. PICK k \in Keys : k = Key(w, g)
      BY KeyRange
    <2>8. PICK y : /\ Others' = Others \cup {y}
                   /\ y[4] = f
      <3>1. CASE Links(p)
        <4>1. tab' = [tab EXCEPT ![p][k] = f] /\ orphans' = orphans
          BY <2>1, <2>3, <2>5, <2>6, <2>7, <3>1 DEF TableFrame, Links
        <4>2. tab[p][k] = None
          BY <2>5, <2>6, <2>7, <3>1, TableTyped DEF TableOK, Links
        <4>3. TableUse(tab') = TableUse(tab) \cup {<<"table", p, k, f>>}
          <5>1. tab \in [Procs -> [Keys -> Entries]]
            BY DEF TableInv, TableType
          <5>2. \A q \in Procs, j \in Keys :
                   tab'[q][j] = IF q = p /\ j = k THEN f ELSE tab[q][j]
            BY <4>1, <5>1
          <5> QED BY <2>4, <4>2, <5>1, <5>2, TableUseLink
        <4>4. PICK y : y = <<"table", p, k, f>>
          OBVIOUS
        <4>5. Others' = Others \cup {y}
          BY <1>3, <4>1, <4>3, <4>4 DEF Others
        <4>6. y[4] = f
          BY <4>4
        <4> QED BY <4>5, <4>6
      <3>2. CASE ~Links(p)
        <4>1. tab' = tab /\ orphans' = orphans \cup {f}
          BY <2>1, <2>3, <3>2 DEF TableFrame, Links
        <4>2. PICK y : y = <<"orphan", "ram", 0, f>>
          OBVIOUS
        <4>3. OrphanUse(orphans') = OrphanUse(orphans) \cup {y}
          BY <4>1, <4>2 DEF OrphanUse
        <4>4. Others' = Others \cup {y}
          BY <1>3, <4>1, <4>3 DEF Others
        <4>5. y[4] = f
          BY <4>2
        <4> QED BY <4>4, <4>5
      <3> QED BY <3>1, <3>2
    <2>9. OneUser(Tail(freefp), Others \cup {y})
      BY <2>1, <2>2, <2>3, <2>8, TakeFrame
    <2> QED BY <1>3, <2>1, <2>8, <2>9
  <1>5. MidList(mpc[p])
    BY <1>3 DEF MidList
  <1> QED BY <1>2, <1>3, <1>4, <1>5, PcNotMid, MovedFrames

\* What the end of a fault takes from the hands of the process.
LEMMA EmptyHands ==
    ASSUME FaultInv, NEW p \in Procs, NEW m, NEW o, NEW w, NEW s, NEW b,
           FaultSet(p, m, o, w, None, s, b), dataf[p] # None
    PROVE  LET x == <<"hand", p, 0, dataf[p]>> IN
           /\ HandUse(dataf') = HandUse(dataf) \ {x}
           /\ x \in HandUse(dataf) /\ x[4] = dataf[p]
  <1>1. dataf' = [dataf EXCEPT ![p] = None] /\ dataf \in [Procs -> Entries]
    BY DEF FaultSet, FaultInv, FaultType, Entries
  <1>2. HandUse(dataf') = HandUse(dataf) \ {<<"hand", p, 0, dataf[p]>>}
    BY <1>1, HandUseDrop
  <1>3. <<"hand", p, 0, dataf[p]>> \in HandUse(dataf)
    BY DEF HandUse
  <1> QED BY <1>2, <1>3

\* MapPage: from the hands of the process to its page, or lost.
LEMMA MapMoves ==
    ASSUME FaultInv, TableInv, FrameInv, NEW p \in Procs, MapPage(p)
    PROVE  FrameInv'
  <1>1. /\ mpc[p] = "map" /\ op[p].kind # "map" /\ freefp' = freefp
        /\ EndFault(p) /\ UNCHANGED <<tab, mapped, overlaid, raced>>
    BY DEF MapPage
  <1>2. PICK f \in Frames : f = dataf[p]
    BY <1>1, FaultTyped DEF FaultOK, Depth
  <1>3. f # None
    BY MemAssumption DEF Frames, None
  <1>4. FaultSet(p, "idle", NoOp, 0, None, <<>>, FALSE)
    BY <1>1, EndEffect
  <1>5. PICK x : x = <<"hand", p, 0, f>>
    OBVIOUS
  <1>6. /\ HandUse(dataf') = HandUse(dataf) \ {x}
        /\ x \in HandUse(dataf) /\ x[4] = f /\ x[1] = "hand"
    BY <1>2, <1>3, <1>4, <1>5, EmptyHands
  <1>7. PICK g \in Pages : g = PGN(op[p].addr)
    BY FaultTyped, PgnRange DEF Ops
  <1>8. PICK y : /\ Others' = (Others \ {x}) \cup {y}
                 /\ y[4] = f
    <2>1. CASE lost[p]
      <3>1. orphans' = orphans \cup {f} /\ pte' = pte
        BY <1>2, <2>1 DEF MapPage
      <3>2. PICK y : y = <<"orphan", "ram", 0, f>>
        OBVIOUS
      <3>3. OrphanUse(orphans') = OrphanUse(orphans) \cup {y}
        BY <3>1, <3>2 DEF OrphanUse
      <3>4. Others' = (Others \ {x}) \cup {y}
        BY <1>1, <1>6, <3>1, <3>3, UseKinds DEF Others
      <3> QED BY <3>2, <3>4
    <2>2. CASE ~lost[p]
      <3>1. orphans' = orphans /\ pte' = [pte EXCEPT ![p][g] = f]
        BY <1>2, <1>7, <2>2 DEF MapPage
      <3>2. PICK y : y = <<"page", p, g, f>>
        OBVIOUS
      <3>3. pte[p][g] = None /\ g \notin mapped[p]
        <4>1. op[p].kind \in {"read", "write"}
          BY <1>1, FaultTyped DEF FaultOK, Ops, Kinds
        <4>2. pte[p][g] = None /\ pte[p][g] \in PteRange(g, mapped[p])
          BY <1>7, <4>1, TableTyped DEF TableOK
        <4> QED BY <4>2, MemAssumption DEF PteRange, None
      <3>4. PageUse(pte', mapped) = PageUse(pte, mapped) \cup {y}
        <4>1. /\ pte \in [Procs -> [Pages -> Int]]
              /\ mapped \in [Procs -> SUBSET Pages]
          BY DEF TableInv, TableType
        <4>2. \A q \in Procs, j \in Pages :
                 pte'[q][j] = IF q = p /\ j = g THEN f ELSE pte[q][j]
          BY <3>1, <4>1
        <4>3. PICK t2 : t2 = pte'
          OBVIOUS
        <4>4. \A q \in Procs, j \in Pages :
                 t2[q][j] = IF q = p /\ j = g THEN f ELSE pte[q][j]
          BY <4>2, <4>3
        <4>5. PageUse(t2, mapped) = PageUse(pte, mapped) \cup {<<"page", p, g, f>>}
          BY <1>3, <3>3, <4>1, <4>4, PageUseSet
        <4> QED BY <3>2, <4>3, <4>5
      <3>5. Others' = (Others \ {x}) \cup {y}
        BY <1>1, <1>6, <3>1, <3>4, UseKinds DEF Others
      <3> QED BY <3>2, <3>5
    <2> QED BY <2>1, <2>2
  <1>9. ~raced => OneUser(freefp', Others')
    <2>1. x \in Others
      BY <1>6 DEF Others
    <2> QED BY <1>1, <1>6, <1>8, <2>1, MoveFrame DEF FrameInv
  <1> QED BY <1>1, <1>4, <1>9, PcNotMid, MovedFrames

\* MemsetPte: the frame of a page that MAP sets for the first time is
\* overlaid.
LEMMA MemsetMoves ==
    ASSUME FaultInv, TableInv, FrameInv, NEW p \in Procs, MemsetPte(p)
    PROVE  FrameInv'
  <1>1. /\ mpc[p] = "map" /\ op[p].kind = "map" /\ NextPage(p)
        /\ UNCHANGED <<freefp, tab, orphans, raced>>
    BY DEF MemsetPte
  <1>2. PICK m, o, w, s, b : FaultSet(p, m, o, w, dataf[p], s, b) /\ ~MidList(m)
    BY <1>1, NextPageMoves
  <1>3. dataf' = dataf
    BY <1>2 DEF FaultSet, FaultInv, FaultType
  <1>4. PICK g \in Pages : g = PGN(op[p].addr)
    BY FaultTyped, PgnRange DEF Ops
  <1>5. ~raced => OneUser(freefp', Others')
    <2> SUFFICES ASSUME ~raced
                 PROVE  OneUser(freefp, Others')
      BY <1>1
    <2>1. OneUser(freefp, Others)
      BY DEF FrameInv
    <2>2. CASE lost[p]
      <3>1. UNCHANGED <<pte, mapped, overlaid>>
        BY <2>2 DEF MemsetPte
      <3>2. Others' = Others
        BY <1>1, <1>3, <3>1 DEF Others
      <3> QED BY <2>1, <3>2
    <2>3. CASE ~lost[p]
      <3>1. PICK v \in Int : v = PTE_FPN(Pattern + op[p].dest)
        <4>1. op[p].dest \in Nat
          BY <1>1, FaultTyped DEF FaultOK
        <4>2. FpnRange \in Nat \ {0} /\ Pattern + op[p].dest \in Int
          BY <4>1, MemAssumption
        <4> QED BY <4>2, ModRange DEF PTE_FPN
      <3>2. /\ pte' = [pte EXCEPT ![p][g] = v]
            /\ mapped' = [mapped EXCEPT ![p] = mapped[p] \cup {g}]
            /\ overlaid' = IF g \in mapped[p] THEN overlaid
                           ELSE overlaid \cup ({pte[p][g]} \ {None})
        BY <1>4, <2>3, <3>1 DEF MemsetPte
      <3>3. PICK x : x = <<"page", p, g, pte[p][g]>>
        OBVIOUS
      <3>4. PageUse(pte', mapped') = PageUse(pte, mapped) \ {x}
        <4>1. /\ pte \in [Procs -> [Pages -> Int]]
              /\ mapped \in [Procs -> SUBSET Pages]
          BY DEF TableInv, TableType
        <4>2. \A q \in Procs, j \in Pages :
                 /\ ~(q = p /\ j = g) => pte'[q][j] = pte[q][j]
                 /\ j \in mapped'[q] <=> j \in mapped[q] \/ (q = p /\ j = g)
          BY <3>2, <4>1
        <4>3. PICK t2 : t2 = pte'
          OBVIOUS
        <4>4. PICK m2 : m2 = mapped'
          OBVIOUS
        <4>5. Covers(p, g, pte, mapped, t2, m2)
          BY <4>2, <4>3, <4>4 DEF Covers
        <4>6. PageUse(t2, m2) = PageUse(pte, mapped) \ {<<"page", p, g, pte[p][g]>>}
          BY <4>1, <4>5, PageUseDrop
        <4> QED BY <3>3, <4>3, <4>4, <4>6
      <3>5. CASE g \in mapped[p] \/ pte[p][g] = None
        <4>1. x \notin PageUse(pte, mapped)
          <5>1. CASE pte[p][g] = None
            BY <3>3, <5>1 DEF PageUse
          <5>2. CASE g \in mapped[p]
            <6> SUFFICES ASSUME x \in PageUse(pte, mapped)
                         PROVE  FALSE
              OBVIOUS
            <6>1. PICK q \in Procs :
                     \E j \in Pages \ mapped[q] : x = <<"page", q, j, pte[q][j]>>
              BY DEF PageUse
            <6> QED BY <3>3, <5>2, <6>1
          <5> QED BY <3>5, <5>1, <5>2
        <4>2. overlaid' = overlaid
          BY <3>2, <3>5
        <4>3. PageUse(pte', mapped') = PageUse(pte, mapped)
          BY <3>4, <4>1
        <4>4. Others' = Others
          BY <1>1, <1>3, <4>2, <4>3 DEF Others
        <4> QED BY <2>1, <4>4
      <3>6. CASE g \notin mapped[p] /\ pte[p][g] # None
        <4>1. PICK f : f = pte[p][g]
          OBVIOUS
        <4>2. PICK y : y = <<"overlaid", "ram", 0, f>>
          OBVIOUS
        <4>3. overlaid' = overlaid \cup {f}
          BY <3>2, <3>6, <4>1
        <4>4. OverUse(overlaid') = OverUse(overlaid) \cup {y}
          BY <4>2, <4>3 DEF OverUse
        <4>5. x \in PageUse(pte, mapped) /\ x[1] = "page" /\ x[4] = f
          BY <3>3, <3>6, <4>1 DEF PageUse
        <4>6. Others' = (Others \ {x}) \cup {y}
          BY <1>1, <1>3, <3>4, <4>4, <4>5, UseKinds DEF Others
        <4>7. x \in Others /\ y[4] = x[4]
          BY <4>2, <4>5 DEF Others
        <4> QED BY <2>1, <4>6, <4>7, MoveFrame
      <3> QED BY <3>5, <3>6
    <2> QED BY <2>2, <2>3
  <1> QED BY <1>1, <1>2, <1>5, MovedFrames

\* PutStore: from the hands of the process back to the list.
LEMMA PutMoves ==
    ASSUME FaultInv, TableInv, FrameInv, NEW p \in Procs, PutStore(p)
    PROVE  FrameInv'
  <1>1. /\ mpc[p] = "putstore" /\ freefp' = <<dataf[p]>> \o seen[p]
        /\ EndFault(p) /\ UNCHANGED <<tableVars, raced>>
    BY DEF PutStore
  <1>2. PICK f \in Frames : f = dataf[p]
    BY <1>1, FaultTyped DEF FaultOK
  <1>3. f # None
    BY MemAssumption DEF Frames, None
  <1>4. FaultSet(p, "idle", NoOp, 0, None, <<>>, FALSE)
    BY <1>1, EndEffect
  <1>5. PICK x : x = <<"hand", p, 0, f>>
    OBVIOUS
  <1>6. /\ HandUse(dataf') = HandUse(dataf) \ {x}
        /\ x \in HandUse(dataf) /\ x[4] = f /\ x[1] = "hand"
    BY <1>2, <1>3, <1>4, <1>5, EmptyHands
  <1>7. Others' = Others \ {x} /\ x \in Others
    BY <1>1, <1>6, UseKinds DEF Others, tableVars
  <1>8. ASSUME ~raced
        PROVE  OneUser(freefp', Others')
    <2>1. seen[p] = freefp /\ OneUser(freefp, Others)
      BY <1>1, <1>8, HasRead DEF MidList
    <2>2. freefp \in Seq(Frames)
      BY FaultTyped
    <2>3. OneUser(<<f>> \o freefp, Others \ {x})
      BY <1>6, <1>7, <2>1, <2>2, ReturnFrame
    <2> QED BY <1>1, <1>2, <1>7, <2>1, <2>3
  <1>9. MidList(mpc[p])
    BY <1>1 DEF MidList
  <1> QED BY <1>1, <1>4, <1>8, <1>9, PcNotMid, MovedFrames

\* Every step keeps FrameInv.
LEMMA FrameNext ==
    ASSUME AreaInv, FaultInv, TableInv, FrameInv, [Next]_vars
    PROVE  FrameInv'
  <1>1. ASSUME UNCHANGED <<freefp, mpc, faultVars, tableVars, raced>>
        PROVE  FrameInv'
    <2>1. UNCHANGED <<freefp, mpc, raced>> /\ seen' = seen /\ Others' = Others
      BY <1>1 DEF faultVars, tableVars, Others
    <2>2. OneUser(freefp, Others) => OneUser(freefp', Others')
      BY <2>1
    <2> QED BY <2>1, <2>2 DEF FrameInv, ListOK
  <1>2. ASSUME NEW p \in Procs, Acts(p)
        PROVE  FrameInv'
    <2>1. ASSUME NEW r \in Regions, NEW size \in Nat, liballoc(p, r, size)
          PROVE  FrameInv'
      BY <1>1, <2>1 DEF liballoc
    <2>2. ASSUME NEW r \in Regions, libfree(p, r)
          PROVE  FrameInv'
      BY <1>1, <2>2 DEF libfree
    <2>3. ASSUME NEW r \in Regions, NEW dest \in Regions, NEW off \in Nat,
                 NEW val \in Nat, NEW kind \in {"read", "write"},
                 Access(p, r, off, kind, val, dest)
          PROVE  FrameInv'
      <3>1. /\ UNCHANGED <<freefp, tableVars, raced, want, dataf, seen, lost>>
            /\ \/ UNCHANGED <<mpc, op>>
               \/ /\ mpc' = [mpc EXCEPT ![p] = "load"]
                  /\ \E o : op' = [op EXCEPT ![p] = o]
        BY <2>3 DEF Access
      <3>2. CASE UNCHANGED <<mpc, op>>
        BY <1>1, <3>1, <3>2 DEF faultVars
      <3>3. ASSUME NEW o, mpc' = [mpc EXCEPT ![p] = "load"],
                   op' = [op EXCEPT ![p] = o]
            PROVE  FrameInv'
        <4>1. FaultSet(p, "load", o, want[p], dataf[p], seen[p], lost[p])
          BY <3>1, <3>3, BeginEffect
        <4> QED BY <3>1, <4>1, PcNotMid, SameFrames
      <3> QED BY <3>1, <3>2, <3>3
    <2>4. ASSUME NEW m \in MapArgs, SysMap(p, m.addr, m.pgnum)
          PROVE  FrameInv'
      <3>1. CASE m.pgnum = 0
        BY <1>1, <2>4, <3>1 DEF SysMap
      <3>2. CASE m.pgnum # 0
        <4>1. PICK o : o = [kind |-> "map", addr |-> m.addr,
                            val |-> m.pgnum, dest |-> 0]
          OBVIOUS
        <4>2. MemsetPage(p, o) /\ UNCHANGED <<freefp, tableVars, raced>>
          BY <2>4, <3>2, <4>1 DEF SysMap
        <4>3. PICK n : n = FirstMissing(p, o.addr, 1, TRUE)
          OBVIOUS
        <4>4. FaultSet(p, Pc(n), o, n, dataf[p], <<>>, FALSE)
          BY <4>2, <4>3, MemsetEffect
        <4> QED BY <4>2, <4>4, PcNotMid, SameFrames
      <3> QED BY <3>1, <3>2
    <2>5. ASSUME NEW area \in Int, NEW size \in Nat, SysInc(p, area, size)
          PROVE  FrameInv'
      BY <1>1, <2>5 DEF SysInc
    <2>6. ASSUME NEW addr \in Nat, NEW val \in Nat, SysIoWrite(p, addr, val)
          PROVE  FrameInv'
      BY <1>1, <2>6 DEF SysIoWrite
    <2>7. ASSUME SysOther(p)
          PROVE  FrameInv'
      BY <1>1, <2>7 DEF SysOther
    <2>8. ASSUME FrameLoad(p)
          PROVE  FrameInv'
      BY <2>8, LoadEffect, ReadList DEF FrameLoad
    <2>9. ASSUME PutLoad(p)
          PROVE  FrameInv'
      BY <2>9, PutLoadEffect, ReadList DEF PutLoad
    <2>10. ASSUME OutOfFrames(p)
           PROVE  FrameInv'
      <3>1. UNCHANGED <<freefp, tableVars, raced>>
        BY <2>10 DEF OutOfFrames
      <3>2. CASE op[p].kind = "map" /\ NextPage(p)
        BY <3>1, <3>2, NextPageMoves, SameFrames
      <3>3. CASE op[p].kind # "map" /\ want[p] = 0 /\ EndFault(p)
        <4>1. dataf[p] = None
          BY <3>3, FaultTyped DEF FaultOK
        <4>2. FaultSet(p, "idle", NoOp, 0, dataf[p], <<>>, FALSE)
          BY <3>3, <4>1, EndEffect
        <4> QED BY <3>1, <4>2, PcNotMid, SameFrames
      <3>4. CASE mpc' = [mpc EXCEPT ![p] = "putload"] /\ UNCHANGED faultVars
        BY <3>1, <3>4, GiveUpEffect, PcNotMid, SameFrames
      <3> QED BY <2>10, <3>2, <3>3, <3>4 DEF OutOfFrames
    <2>11. ASSUME pg_getpage(p)
           PROVE  FrameInv'
      BY <2>8, <2>9, <2>10, <2>11, DataMoves, TableMoves, MapMoves,
         MemsetMoves, PutMoves DEF pg_getpage
    <2> QED BY <1>2, <2>1, <2>2, <2>3, <2>4, <2>5, <2>6, <2>7, <2>11 DEF Acts
  <1> QED BY <1>1, <1>2, NextCases DEF vars

\* At the start every frame is in the list, once.
LEMMA FrameInit ==
    ASSUME Init
    PROVE  FrameInv
  <1>1. /\ freefp = [i \in 1 .. NumFrames |-> i - 1]
        /\ tab = [p \in Procs |-> [k \in Keys |-> None]]
        /\ pte = [p \in Procs |-> [g \in Pages |-> None]]
        /\ mpc = [p \in Procs |-> "idle"] /\ dataf = [p \in Procs |-> None]
        /\ orphans = {} /\ overlaid = {} /\ mapped = [p \in Procs |-> {}]
    BY DEF Init
  <1>2. NumFrames \in Nat
    BY MemAssumption
  <1>3. Len(freefp) = NumFrames
    BY <1>1, <1>2
  <1>4. TableUse(tab) = {}
    BY <1>1 DEF TableUse
  <1>5. PageUse(pte, mapped) = {}
    <2> SUFFICES ASSUME NEW x \in PageUse(pte, mapped)
                 PROVE  FALSE
      OBVIOUS
    <2>1. PICK q \in Procs :
             \E j \in Pages \ mapped[q] : x = <<"page", q, j, pte[q][j]>>
      BY DEF PageUse
    <2>2. PICK j \in Pages \ mapped[q] : x = <<"page", q, j, pte[q][j]>>
      BY <2>1
    <2>3. pte[q][j] # None
      BY <2>2 DEF PageUse
    <2> QED BY <1>1, <2>3
  <1>6. HandUse(dataf) = {}
    BY <1>1 DEF HandUse
  <1>7. OverUse(overlaid) = {} /\ OrphanUse(orphans) = {}
    BY <1>1 DEF OverUse, OrphanUse
  <1>8. Others = {}
    BY <1>4, <1>5, <1>6, <1>7 DEF Others
  <1>9. \A i \in 1 .. NumFrames : freefp[i] = i - 1
    BY <1>1
  <1>10. \A i, j \in 1 .. NumFrames : freefp[i] = freefp[j] => i = j
    BY <1>2, <1>9
  <1>11. ASSUME NEW f \in Frames
         PROVE  \E i \in 1 .. NumFrames : freefp[i] = f
    <2>1. f + 1 \in 1 .. NumFrames /\ (f + 1) - 1 = f
      BY <1>2 DEF Frames
    <2> QED BY <1>9, <2>1
  <1>12. OneUser(freefp, Others)
    BY <1>3, <1>8, <1>10, <1>11 DEF OneUser
  <1>13. \A p \in Procs : ListOK(p)
    BY <1>1 DEF ListOK, MidList
  <1> QED BY <1>12, <1>13 DEF FrameInv

\* FrameInv holds throughout.
LEMMA FrameAlways == Spec => [](AreaInv /\ FaultInv /\ TableInv /\ FrameInv)
  BY AreaInit, TablesInit, FrameInit, AreaNext, FaultNext, TableNext,
     FrameNext, PTL DEF Spec

\* The frames that are in the free list.
FreeUse == {<<"free", "ram", i, freefp[i]>> : i \in DOMAIN freefp}

\* The places that have a frame are those in the free list and the others.
LEMMA InUseParts ==
    ASSUME FaultInv, TableInv
    PROVE  InUse = FreeUse \cup Others
  <1> DEFINE T == {<<"table", p, k, tab[p][k]>> : p \in Procs, k \in Keys}
             P == UNION {{<<"page", p, g, pte[p][g]>> : g \in Pages \ mapped[p]} :
                            p \in Procs}
             O == {<<"overlaid", "ram", 0, f>> : f \in overlaid}
             H == {<<"hand", p, 0, dataf[p]>> : p \in Procs}
             Z == {<<"orphan", "ram", 0, f>> : f \in orphans}
  <1>1. Places = FreeUse \cup T \cup P \cup O \cup H \cup Z
    BY DEF Places, FreeUse
  <1>2. \A f \in Frames : f # None
    BY MemAssumption DEF Frames, None
  <1>3. \A x \in FreeUse : x[4] # None
    <2> SUFFICES ASSUME NEW i \in DOMAIN freefp
                 PROVE  freefp[i] # None
      BY DEF FreeUse
    <2>1. freefp \in Seq(Frames)
      BY DEF FaultInv, FaultType
    <2>2. freefp[i] \in Frames
      BY <2>1
    <2> QED BY <1>2, <2>2
  <1>4. (\A x \in O : x[4] # None) /\ (\A x \in Z : x[4] # None)
    BY <1>2 DEF TableInv, TableType
  <1>5. /\ TableUse(tab) = {x \in T : x[4] # None}
        /\ PageUse(pte, mapped) = {x \in P : x[4] # None}
        /\ HandUse(dataf) = {x \in H : x[4] # None}
        /\ OverUse(overlaid) = O /\ OrphanUse(orphans) = Z
    BY DEF TableUse, PageUse, HandUse, OverUse, OrphanUse
  <1> HIDE DEF T, P, O, H, Z
  <1> QED BY <1>1, <1>3, <1>4, <1>5 DEF InUse, Others

\* Through faults, failed faults, put-backs, MAPs and lost tables of every
\* process, every frame of the RAM is free, or a table, or a page, or in one
\* thread's hands, or overlaid or orphaned, and only one of these, as long as
\* no two threads are in the free list at once (libmem.c:169-209,
\* mm64.c:245-325).
THEOREM FramesAccountedFor == Spec => []FrameAccounting
  <1>1. FaultInv /\ TableInv /\ FrameInv => FrameAccounting
    <2> SUFFICES ASSUME FaultInv, TableInv, FrameInv, ~raced
                 PROVE  ~Shared /\ Placed = Frames
      BY DEF FrameAccounting
    <2>1. InUse = FreeUse \cup Others
      BY InUseParts
    <2>2. freefp \in Seq(Frames) /\ DOMAIN freefp = 1 .. Len(freefp)
      BY DEF FaultInv, FaultType
    <2>3. OneUser(freefp, Others)
      BY DEF FrameInv
    <2>4. ASSUME NEW x \in InUse
          PROVE  x[4] \in Frames
      <3>1. CASE x \in Others
        BY <2>3, <3>1 DEF OneUser
      <3>2. CASE x \in FreeUse
        <4>1. PICK i \in DOMAIN freefp : x = <<"free", "ram", i, freefp[i]>>
          BY <3>2 DEF FreeUse
        <4>2. freefp[i] \in Frames
          BY <2>2
        <4> QED BY <4>1, <4>2
      <3> QED BY <2>1, <3>1, <3>2
    <2>5. ASSUME NEW x \in InUse, NEW y \in InUse, x[4] = y[4]
          PROVE  x = y
      <3>1. ASSUME NEW u \in FreeUse, NEW v \in FreeUse, u[4] = v[4]
            PROVE  u = v
        <4>1. PICK i \in DOMAIN freefp : u = <<"free", "ram", i, freefp[i]>>
          BY DEF FreeUse
        <4>2. PICK j \in DOMAIN freefp : v = <<"free", "ram", j, freefp[j]>>
          BY DEF FreeUse
        <4>3. freefp[i] = freefp[j]
          BY <3>1, <4>1, <4>2
        <4>4. i = j
          BY <2>2, <2>3, <4>3 DEF OneUser
        <4> QED BY <4>1, <4>2, <4>4
      <3>2. ASSUME NEW u \in FreeUse, NEW v \in Others, u[4] = v[4]
            PROVE  FALSE
        <4>1. PICK i \in DOMAIN freefp : u = <<"free", "ram", i, freefp[i]>>
          BY DEF FreeUse
        <4>2. freefp[i] = v[4]
          BY <3>2, <4>1
        <4> QED BY <2>2, <2>3, <4>2 DEF OneUser
      <3>3. \A u, v \in Others : u[4] = v[4] => u = v
        BY <2>3 DEF OneUser
      <3> QED BY <2>1, <2>5, <3>1, <3>2, <3>3
    <2>6. ASSUME NEW f \in Frames
          PROVE  \E x \in InUse : x[4] = f
      <3>1. CASE \E x \in Others : x[4] = f
        BY <2>1, <3>1
      <3>2. ASSUME NEW i \in 1 .. Len(freefp), freefp[i] = f
            PROVE  \E x \in InUse : x[4] = f
        <4>1. PICK x : x = <<"free", "ram", i, f>>
          OBVIOUS
        <4>2. x \in FreeUse
          BY <2>2, <3>2, <4>1 DEF FreeUse
        <4>3. x[4] = f
          BY <4>1
        <4> QED BY <2>1, <4>2, <4>3
      <3> QED BY <2>3, <3>1, <3>2 DEF OneUser
    <2>7. Placed = Frames
      BY <2>4, <2>6 DEF Placed
    <2>8. IsFiniteSet(Frames)
      BY MemAssumption, FS_Interval DEF Frames
    <2>9. ExistsBijection(Frames, InUse)
      <3>1. PICK F : F = [f \in Frames |-> CHOOSE x \in InUse : x[4] = f]
        OBVIOUS
      <3>2. \A f \in Frames : F[f] \in InUse /\ F[f][4] = f
        BY <2>6, <3>1
      <3>3. F \in [Frames -> InUse]
        BY <3>1, <3>2
      <3>4. \A f, h \in Frames : F[f] = F[h] => f = h
        BY <3>2
      <3>5. \A x \in InUse : \E f \in Frames : F[f] = x
        BY <2>4, <2>5, <3>2
      <3>6. F \in Bijection(Frames, InUse)
        BY <3>3, <3>4, <3>5 DEF Bijection, Injection, Surjection, IsInjective
      <3> QED BY <3>6 DEF ExistsBijection
    <2>10. Cardinality(InUse) = Cardinality(Frames)
      BY <2>8, <2>9, FS_Bijection
    <2> QED BY <2>7, <2>10 DEF Shared
  <1> QED BY <1>1, FrameAlways, PTL
=============================================================================
