--------------------------------- MODULE Disks ---------------------------------
(***************************************************************************)
(* The disk figures of a report, and the list of disks. A partition is a   *)
(* record of what the code looks at; its mount point has a length.         *)
(***************************************************************************)
EXTENDS Naturals, Sequences, FiniteSets, FiniteSetsExt, SequencesExt, Loops

\* What isPhysicalDisk asks, in its order: the root; a system directory; an
\* automount trigger; NTFS, or Android's /sdcard, on FUSE; a virtual or network
\* file system; a network drive; a loop device.
isPhysicalDisk(part) ==
    \/ part.place = "root"
    \/ /\ part.place # "system"
       /\ ~(part.fstype = "autofs" /\ part.node # "dev")
       /\ \/ part.fstype = "fuseblk"
          \/ part.fstype = "fuse" /\ part.node = "fuse" /\ part.place = "sdcard"
          \/ /\ part.fstype \notin {"virtual", "network", "fuse"}
             /\ ~part.remote /\ part.node # "loop"

\* A mutant: the data sets of a pool count as disks of their own.
DeviceAsIs(part) == part.device

\* The data sets of one ZFS pool are one disk.
Device(part) == IF part.fstype = "zfs" THEN <<part.device[1]>> ELSE part.device

\* Of two mounts of a device, the earlier one stands for it, unless the later has
\* a greater total (for the sums) or a shorter path (for the list).
Replaces(part, kept, by) ==
    IF by = "total" THEN part.total > kept.total ELSE part.length < kept.length

\* The loop over the partitions, with its deviceMap: device -> the mount that
\* stands for it.
Added(map, part, by) ==
    LET d == Device(part) IN
    IF d \in DOMAIN map /\ ~Replaces(part, map[d], by) THEN map
    ELSE [x \in DOMAIN map \cup {d} |-> IF x = d THEN part ELSE map[x]]

Chosen(parts, by) == FoldLeft(LAMBDA map, part : Added(map, part, by), <<>>, parts)

Physical(parts) == {p \in Range(parts) : isPhysicalDisk(p)}
Usable(parts) == {p \in Range(parts) : ~p.fails}

\* The sums over the map.
TotalOf(map) == MapThenSumSet(LAMBDA d : map[d].total, DOMAIN map)
UsedOf(map) == MapThenSumSet(LAMBDA d : map[d].used, DOMAIN map)

\* A mount whose usage cannot be read is left out.
Disk(parts) ==
    LET map == Chosen(Kept(parts, Physical(parts) \cap Usable(parts)), "total")
    IN  [total |-> TotalOf(map), used |-> UsedOf(map)]

\* With include_mountpoints: the readable ones of them, as often as they are named.
DiskOf(mounts) ==
    LET usable == Kept(mounts, Usable(mounts)) IN
    [total |-> FoldLeft(LAMBDA sum, p : sum + p.total, 0, usable),
     used |-> FoldLeft(LAMBDA sum, p : sum + p.used, 0, usable)]

DiskList(parts) ==
    LET map == Chosen(Kept(parts, Physical(parts)), "path") IN {map[d] : d \in DOMAIN map}

-----------------------------------------------------------------------------

\* The disk a mount belongs to, by its name.
DiskOfMount(p) == IF p.fstype = "zfs" THEN <<p.device[1]>> ELSE p.device

CountsDevicesOnce(parts, use) ==
    LET good == {p \in Range(parts) : isPhysicalDisk(p) /\ ~p.fails}
        devices == {DiskOfMount(p) : p \in good}
    IN  \E stands \in [devices -> good] :
            /\ \A d \in devices : DiskOfMount(stands[d]) = d
            /\ \A p \in good : p.total <= stands[DiskOfMount(p)].total
            /\ use.total = TotalOf(stands) /\ use.used = UsedOf(stands)

ListsDevicesOnce(parts, list) ==
    LET physical == {p \in Range(parts) : isPhysicalDisk(p)} IN
    /\ list \subseteq physical
    /\ {DiskOfMount(p) : p \in list} = {DiskOfMount(p) : p \in physical}
    /\ \A p, q \in list : DiskOfMount(p) = DiskOfMount(q) => p = q
    /\ \A p \in list, q \in physical : DiskOfMount(p) = DiskOfMount(q) => p.length <= q.length
=============================================================================
