-------------------------------- MODULE Memory ---------------------------------
(***************************************************************************)
(* The memory and swap figures of a report. All arithmetic is that of      *)
(* unsigned words. info holds the fields of /proc/meminfo, in bytes.       *)
(***************************************************************************)
EXTENDS Integers

CONSTANT Word   \* 2^64

ASSUME WordAssumption == Word \in Nat \ {0}

Words == 0..(Word - 1)
Infos == [total : Words, free : Words, available : Words, buffers : Words,
          cached : Words, reclaimable : Words, shmem : Words]
Swaps == [total : Words, free : Words, cached : Words]

Plus(a, b) == (a + b) % Word
Minus(a, b) == (a - b) % Word

Use(total, used) == [total |-> total, used |-> used]
Unknown == Use(0, 0)

\* Memory that is not in use, as htop adds it up.
Deductions(info) ==
    Plus(Plus(Plus(info.free, info.cached), info.reclaimable), info.buffers)

MemoryHtopLike(info) ==
    IF info.total = 0 THEN Unknown
    ELSE Use(info.total,
             Plus(IF info.total >= Deductions(info)
                    THEN Minus(info.total, Deductions(info))
                    ELSE Minus(info.total, info.free),
                  info.shmem))

\* A mutant: without the comparison.
AvailableUnchecked(info) ==
    IF info.total = 0 \/ info.available = 0 THEN Unknown
    ELSE Use(info.total, Minus(info.total, info.available))

ramInfoFromAvailable(info) ==
    IF info.total = 0 \/ info.available = 0 THEN Unknown
    ELSE Use(info.total,
             IF info.available < info.total THEN Minus(info.total, info.available) ELSE 0)

\* gopsutil's figures are those of the same file.
MemoryGopsutil(info) == Use(info.total, Minus(info.total, info.available))

\* On Linux. Kernels without MemAvailable get the older heuristic.
RAM(includeCache, reportRawUsed, info) ==
    IF includeCache THEN Use(info.total, Minus(info.total, info.free))
    ELSE IF reportRawUsed THEN MemoryHtopLike(info)
    ELSE IF ramInfoFromAvailable(info).total > 0 THEN ramInfoFromAvailable(info)
    ELSE IF MemoryHtopLike(info).total > 0 THEN MemoryHtopLike(info)
    ELSE MemoryGopsutil(info)

Swap(swap) ==
    LET deductions == Plus(swap.free, swap.cached) IN
    Use(swap.total, IF swap.total >= deductions THEN Minus(swap.total, deductions)
                    ELSE Minus(swap.total, swap.free))

-----------------------------------------------------------------------------

\* What a kernel reports: free, cached, reclaimable and buffer pages are distinct
\* pages of the total, and shared memory is cached. Nothing is assumed of
\* MemAvailable, which is an estimate.
Consistent(info) ==
    /\ info.free + info.cached + info.reclaimable + info.buffers <= info.total
    /\ info.shmem <= info.cached /\ info.total > 0

\* No figure of a report claims more than there is, on whichever of the paths it
\* is computed, and whatever an old kernel or an exhausted one leaves at zero.
UsedWithinTotal(info, ram) ==
    Consistent(info) => ram.total \in {0, info.total} /\ ram.used \in 0..ram.total

SwapWithinTotal(swap, use) == swap.free <= swap.total => use.used \in 0..use.total
=============================================================================
