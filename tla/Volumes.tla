------------------------------ MODULE Volumes ------------------------------
(***************************************************************************)
(* The loader's block devices: the device registry (device/device.c), the  *)
(* BIOS disks (biosdisk.c over bios/disk.c), the MBR, GPT and partition    *)
(* drivers on top of them, the start-up that probes them (bios/init.c) and *)
(* the file system registry (filesystem/fs.c) with the probe and mount     *)
(* routines of its drivers.                                                *)
(*                                                                         *)
(* vmach is the machine (drives, contents, firmware answers) and does not  *)
(* change; vdisk is what was written to the drives.  A device is a record in *)
(* vd.dev, and vd.list is the linked list through device_list_head.  The   *)
(* struct of a device that was freed is "gone"; a device whose private     *)
(* data was freed while it stayed in the list is "stale".  vd.lost says    *)
(* that the program read freed memory or overran a buffer: nothing is      *)
(* followed from there.                                                    *)
(***************************************************************************)
EXTENDS Integers, FiniteSets, Sequences, SequencesExt, TLC

CONSTANTS
  VolMachines,   \* the machines to start on, by number
  VolBuffer,     \* 512-byte blocks of the BIOS transfer buffer
  VolLbas,       \* block numbers asked for by requests, relative to a device
  VolCounts,     \* numbers of blocks asked for
  VolTables,     \* tables a chain of extended partitions has at most
  VolParts,      \* partitions a table has at most
  VolRequests    \* number of requests after start-up

VARIABLES vmach, vdisk, vd, vqueue, vfs, vphase, vboot, vreq, vbefore, vasked

volumesVars == <<vmach, vdisk, vd, vqueue, vfs, vphase, vboot, vreq, vbefore, vasked>>

None == 0
NoDevices == [list |-> <<>>, dev |-> <<>>, lost |-> FALSE]
NoRequest == [op |-> "none"]
NoEntry == [type |-> "none", base |-> 0, count |-> 0]

\* A block: boot signature and the four MBR entries, GPT header, GPT entries,
\* the file system its first sector announces and a number that tells blocks apart.
PlainBlock == [sig |-> FALSE, entries |-> <<NoEntry, NoEntry, NoEntry, NoEntry>>,
               efi |-> FALSE, count |-> 0, list |-> 0, guids |-> <<>>,
               fs |-> "none", at |-> 0, id |-> 0]

Machines == VolMachines
M == Machines[vmach]

\* What a drive holds: what was written, what was there, or a block of its own.
BlockAt(disks, drive, lba) ==
  IF lba \in DOMAIN disks[drive] THEN disks[drive][lba]
  ELSE IF lba \in DOMAIN M.drives[drive].blocks THEN M.drives[drive].blocks[lba]
  ELSE [PlainBlock EXCEPT !.id = lba]

-----------------------------------------------------------------------------
(* The firmware *)

Drive(n) == M.drives[n]
Exists(n) == n \in DOMAIN M.drives

\* INT 13h AH=08h and what disk.c makes of its registers.
VlBiosP_GetDiskParams(n) ==
  IF Exists(n) /\ Drive(n).chs
  THEN [ok |-> TRUE, head |-> (Drive(n).heads - 1) + 1, sector |-> Drive(n).spt % 64, count |-> M.int13]
  ELSE [ok |-> FALSE, head |-> 0, sector |-> 0, count |-> 0]

\* INT 13h AH=41h: "none" also when the signature does not come back.
VlBiosP_CheckDiskExtension(n) == Exists(n) /\ Drive(n).edd \in {"packet", "noparams"}

\* INT 13h AH=48h.
VlBiosP_GetDiskParamsExtended(n) == Drive(n).edd = "packet"

\* Whether the firmware transfers this block.
Transfers(n, lba) == lba < Drive(n).size /\ lba \notin Drive(n).bad

\* VlDisk_LbaToChs, the packing of the registers and the firmware's reading of them.
VlDisk_LbaToChs(lba, g) ==
  [sector |-> (lba % g.sector) + 1, head |-> (lba \div g.sector) % g.head,
   cylinder |-> (lba \div g.sector) \div g.head]

\* The block the firmware makes of the packed registers.
ChsBlock(n, chs) ==
  LET cx == [ch |-> chs.cylinder % 256,
             cl |-> ((chs.cylinder \div 256) % 4) * 64 + (chs.sector % 64)]
      cylinder == cx.ch + (cx.cl \div 64) * 256
  IN ((cylinder * Drive(n).heads) + chs.head) * Drive(n).spt + (cx.cl % 64) - 1

\* The calls that transfer: one block by cylinder, head and sector, or a run of
\* blocks by number, which fails as a whole.
VlBiosP_ReadDisk(n, chs) == Transfers(n, ChsBlock(n, chs))
VlBiosP_WriteDisk(n, chs) == Transfers(n, ChsBlock(n, chs))
VlBiosP_ReadDiskExtended(n, lba, count) == \A k \in 0 .. (count - 1) : Transfers(n, lba + k)
VlBiosP_WriteDiskExtended(n, lba, count) == \A k \in 0 .. (count - 1) : Transfers(n, lba + k)

read_chunk(bd, lba, count) ==
  IF bd.packet THEN VlBiosP_ReadDiskExtended(bd.drive, lba, count)
  ELSE VlBiosP_ReadDisk(bd.drive, VlDisk_LbaToChs(lba, bd.geometry))

write_chunk(bd, lba, count) ==
  IF bd.packet THEN VlBiosP_WriteDiskExtended(bd.drive, lba, count)
  ELSE VlBiosP_WriteDisk(bd.drive, VlDisk_LbaToChs(lba, bd.geometry))

\* The block of the drive a disk's block number reaches.
BlockOf(bd, lba) == IF bd.packet THEN lba ELSE ChsBlock(bd.drive, VlDisk_LbaToChs(lba, bd.geometry))

-----------------------------------------------------------------------------
(* The device registry *)

Linked(r) == {r.list[k] : k \in DOMAIN r.list}

\* The list position of a device, and what its next pointer says.
NextOf(r, id) ==
  LET after == {k \in 1 .. (Len(r.list) - 1) : r.list[k] = id}
  IN IF after = {} THEN None ELSE r.list[(CHOOSE k \in after : TRUE) + 1]

\* The end of the chain of siblings; a freed device ends it too.
LastSibling(r, first) ==
  FoldLeft(LAMBDA id, d : IF r.dev[id].gone \/ r.dev[id].sib = None THEN id ELSE r.dev[id].sib, first, r.dev)

NewDevice(driver, parent) ==
  [name |-> <<>>, driver |-> driver, parent |-> parent, first |-> None, sib |-> None,
   stale |-> FALSE, gone |-> FALSE, bd |-> <<>>, lo |-> 0, hi |-> 0]

\* The new device at the end of the list, and behind the last child of its parent.
LinkLast(r, id, last) ==
  IF r.dev[last].gone THEN [r EXCEPT !.lost = TRUE] ELSE [r EXCEPT !.dev[last].sib = id]

LinkChild(r, id, parent) ==
  IF parent = None THEN r
  ELSE IF r.dev[parent].first = None THEN [r EXCEPT !.dev[parent].first = id]
  ELSE LinkLast(r, id, LastSibling(r, r.dev[parent].first))

VlDev_Create(r, driver, parent) ==
  LinkChild([r EXCEPT !.list = Append(@, Len(r.dev) + 1), !.dev = Append(@, NewDevice(driver, parent))],
            Len(r.dev) + 1, parent)

\* The loop looks for both predecessors but stops as soon as the pointers that
\* are not null have theirs, so the last device of the list stays where it is.
Seen(S, k) == \E j \in S : j <= k

Stop(r, id, last, prev, prevsib) ==
  LET stops == {k \in 1 .. last : /\ NextOf(r, id) = None \/ Seen(prev, k)
                                  /\ r.dev[id].sib = None \/ Seen(prevsib, k)}
  IN IF stops = {} THEN last ELSE CHOOSE k \in stops : \A j \in stops : k <= j

Unlink(r, id, found, before) ==
  IF ~found
  THEN [r EXCEPT !.list = IF @ # <<>> /\ Head(@) = id THEN Tail(@) ELSE @]
  ELSE [r EXCEPT !.list = SelectSeq(@, LAMBDA x : x # id),
                 !.dev = [d \in DOMAIN @ |->
                            IF d = id THEN [@[d] EXCEPT !.gone = TRUE]
                            ELSE IF d \in before THEN [@[d] EXCEPT !.sib = r.dev[id].sib]
                            ELSE @[d]]]

RemoveWith(r, id, prev, prevsib, stop) ==
  Unlink(r, id, Seen(prev, stop), {r.list[k] : k \in {j \in prevsib : j <= stop}})

RemoveFound(r, id, prev, prevsib) ==
  RemoveWith(r, id, prev, prevsib, Stop(r, id, Len(r.list) - 1, prev, prevsib))

VlDev_Remove(r, id) ==
  RemoveFound(r, id, {k \in 1 .. (Len(r.list) - 1) : r.list[k + 1] = id},
                     {k \in 1 .. (Len(r.list) - 1) : r.dev[r.list[k]].sib = id})

\* The next number after the highest one in use behind this base name.
Above(used) == IF used = {} THEN 0 ELSE (CHOOSE n \in used : \A k \in used : k <= n) + 1

VlDev_GenerateName(r, base) ==
  Append(base, Above({r.dev[id].name[Len(base) + 1] :
                        id \in {x \in Linked(r) : /\ Len(r.dev[x].name) = Len(base) + 1
                                                  /\ SubSeq(r.dev[x].name, 1, Len(base)) = base}}))

VlDev_Find(r, name) ==
  LET at == {k \in DOMAIN r.list : r.dev[r.list[k]].name = name}
  IN IF at = {} THEN None ELSE r.list[CHOOSE k \in at : \A j \in at : k <= j]

\* VlDev_Create and VlDev_GenerateName, as every probe begins.
GiveName(r, base) ==
  IF r.lost THEN r ELSE [r EXCEPT !.dev[Len(r.dev)].name = VlDev_GenerateName(r, base)]

Named(r, driver, parent, base) == GiveName(VlDev_Create(r, driver, parent), base)

debugout_probe(r) == Named(r, "debugout", None, <<"dbg">>)
bioskbd_probe(r) == Named(r, "bioskbd", None, <<"kbd">>)
rtc_isa_probe(r) == Named(r, "rtc_isa", None, <<"rtc">>)
uart_isa_probe(r) == Named(r, "uart_isa", None, <<"ser">>)
ieee1284_isa_probe(r) == Named(r, "ieee1284_isa", None, <<"par">>)

-----------------------------------------------------------------------------
(* Block requests.  An answer says which blocks of which drive were reached, *)
(* in order; n is how many of them were transferred.                         *)

Answer(status, drive, lba, n) == [st |-> status, drive |-> drive, lba |-> lba, n |-> n]
Refused(status) == Answer(status, None, 0, 0)
Overrun == Refused("overrun")

\* biosdisk.c read and write: clamp to the size if it is known, then one chunk
\* after the other through the transfer buffer; a failing chunk ends the call.
Most(bd) == IF bd.packet THEN (VolBuffer * 512) \div bd.block ELSE 1

Chunk(op, bd, lba, count) == IF op = "read" THEN read_chunk(bd, lba, count) ELSE write_chunk(bd, lba, count)

Broken(op, bd, lba, count, most) ==
  {c \in 0 .. (count - 1) :
     c % most = 0 /\ ~Chunk(op, bd, lba + c, IF count - c < most THEN count - c ELSE most)}

Chunks(bd, lba, count, broken) ==
  IF broken = {} THEN Answer("SUCCESS", bd.drive, lba, count)
  ELSE Answer("IO", bd.drive, lba, CHOOSE c \in broken : \A k \in broken : c <= k)

DiskClamped(op, bd, lba, count, room) ==
  IF count > room THEN Overrun ELSE Chunks(bd, lba, count, Broken(op, bd, lba, count, Most(bd)))

DiskRequest(op, bd, lba, count, room) ==
  IF lba < 0 \/ (bd.total > 0 /\ lba >= bd.total) THEN Refused("INVALID_VALUE")
  ELSE IF bd.block > VolBuffer * 512 THEN Refused("NOT_SUPPORTED")
  ELSE DiskClamped(op, bd, lba, IF bd.total > 0 /\ lba + count > bd.total THEN bd.total - lba ELSE count, room)


\* part.c read and write: part_limit is taken as the block behind the last one,
\* and a start behind it makes the count wrap around.
PartClamp(base, limit, lba, count) ==
  IF base + lba + count > limit
  THEN IF limit - base - lba < 0 THEN 2147483647 - (base + lba) ELSE limit - base - lba
  ELSE count

\* The request through a device: the table drivers hand it on, a partition
\* moves it by its base, the disk carries it out.
DiskOf(r, id) ==
  CASE r.dev[id].driver = "biosdisk" -> r.dev[id].bd
    [] r.dev[id].driver \in {"mbr", "gpt"} -> r.dev[r.dev[id].parent].bd
    [] r.dev[id].driver = "part" -> r.dev[r.dev[r.dev[id].parent].parent].bd

PartRequest(op, bd, base, lba, count, room) ==
  IF count < 1 THEN Refused("SUCCESS") ELSE DiskRequest(op, bd, base + lba, count, room)

Request(op, r, id, lba, count, room) ==
  IF r.dev[id].driver # "part" THEN DiskRequest(op, DiskOf(r, id), lba, count, room)
  ELSE IF lba > r.dev[id].hi THEN Refused("INVALID_VALUE")
  ELSE PartRequest(op, DiskOf(r, id), r.dev[id].lo, lba,
                   PartClamp(r.dev[id].lo, r.dev[id].hi, lba, count), room)

BlockSize(r, id) == DiskOf(r, id).block

IsBlock(r, id) == r.dev[id].driver \in {"biosdisk", "mbr", "gpt", "part"}

\* The blocks a request reaches, in the order it reaches them.
Reached(bd, a) == [k \in 1 .. a.n |-> BlockOf(bd, a.lba + k - 1)]

\* One block read into a buffer of the given size: its content, or a failure.
OneBlock(bd, a, bytes) ==
  IF bd.block > bytes THEN [st |-> "overrun", block |-> PlainBlock]
  ELSE IF a.n = 1 THEN [st |-> a.st, block |-> BlockAt(vdisk, a.drive, BlockOf(bd, a.lba))]
  ELSE [st |-> IF a.st = "SUCCESS" THEN "EMPTY" ELSE a.st, block |-> PlainBlock]

ReadOne(r, id, lba, bytes) == OneBlock(DiskOf(r, id), Request("read", r, id, lba, 1, 1), bytes)

-----------------------------------------------------------------------------
(* Partitions and disks *)

PartMade(r, lo, hi) ==
  IF r.lost THEN [r |-> r, ok |-> FALSE]
  ELSE [r |-> [r EXCEPT !.dev[Len(r.dev)].lo = lo, !.dev[Len(r.dev)].hi = hi], ok |-> TRUE]

part_probe(r, parent, lo, hi) ==
  IF lo > hi THEN [r |-> r, ok |-> FALSE]
  ELSE PartMade(Named(r, "part", parent, Append(r.dev[parent].name, "p")), lo, hi)

part_remove(r, id) == VlDev_Remove([r EXCEPT !.dev[id].stale = TRUE], id)

\* The loop over the children reads partdev->sibling after the child was removed.
NextChild(r, child) == [r |-> r, child |-> r.dev[child].sib]
RemoveChild(acc) == IF acc.child = None THEN acc ELSE NextChild(part_remove(acc.r, acc.child), acc.child)

\* The error path of both table drivers.
DropBare(r, id) == VlDev_Remove([r EXCEPT !.dev[id].stale = TRUE], id)
DropTable(r, id) ==
  DropBare(FoldLeft(LAMBDA acc, k : RemoveChild(acc), [r |-> r, child |-> r.dev[id].first],
                    [k \in 1 .. VolParts |-> k]).r, id)

\* An extended entry leads to the next table; every base is relative to the
\* table that holds the entry.  todo is what the recursion has still to visit.
EnterTable(acc, base, got) ==
  IF got.st = "overrun" THEN [acc EXCEPT !.r.lost = TRUE, !.ok = FALSE]
  ELSE IF got.st # "SUCCESS" \/ ~got.block.sig \/ got.block.entries[1].type = "gpt"
  THEN [acc EXCEPT !.ok = FALSE]
  ELSE [acc EXCEPT !.todo = [k \in 1 .. 4 |-> [base |-> base, e |-> got.block.entries[k]]] \o @]

PutPart(acc, put) == [acc EXCEPT !.r = put.r, !.ok = put.ok]

EnterEntry(acc, table, base, e) ==
  CASE e.type = "none" -> acc
    [] e.type = "extended" ->
         EnterTable(acc, base + e.base, ReadOne(acc.r, acc.r.dev[table].parent, base + e.base, 512))
    [] OTHER -> PutPart(acc, part_probe(acc.r, table, base + e.base, base + e.base + e.count - 1))

Visit(acc, table) ==
  IF ~acc.ok \/ acc.todo = <<>> THEN acc
  ELSE EnterEntry([acc EXCEPT !.todo = Tail(@)], table, Head(acc.todo).base, Head(acc.todo).e)

register_partitions(r, table) ==
  FoldLeft(LAMBDA acc, k : Visit(acc, table),
           EnterTable([r |-> r, ok |-> TRUE, todo |-> <<>>], 0, ReadOne(r, r.dev[table].parent, 0, 512)),
           [k \in 1 .. (4 * VolTables) |-> k])

\* A probe that failed takes its device back.
Settle(done, id) ==
  IF done.ok \/ done.r.lost THEN [r |-> done.r, ok |-> done.ok]
  ELSE [r |-> DropTable(done.r, id), ok |-> FALSE]

mbr_filled(r) == IF r.lost THEN [r |-> r, ok |-> FALSE] ELSE Settle(register_partitions(r, Len(r.dev)), Len(r.dev))
mbr_probe(r, disk) == mbr_filled(Named(r, "mbr", disk, Append(r.dev[disk].name, "pt")))

\* The entries of the table, sector after sector; the status of the read of the
\* next sector is not looked at.
NextGuid(acc, put, over, more) ==
  [acc EXCEPT !.r = put.r, !.ok = put.ok,
              !.slot = IF over THEN 1 ELSE @ + 1,
              !.lba = IF over THEN @ + 1 ELSE @,
              !.guids = IF over /\ more.st = "SUCCESS" THEN more.block.guids ELSE @]

GuidEntry(acc, table, e, per) ==
  NextGuid(acc, part_probe(acc.r, table, e.base, e.limit), acc.slot = per,
           ReadOne(acc.r, acc.r.dev[table].parent, acc.lba + 1, 512))

GptStep(acc, table, per) ==
  IF ~acc.ok \/ acc.done \/ acc.slot \notin DOMAIN acc.guids THEN [acc EXCEPT !.done = TRUE]
  ELSE GuidEntry(acc, table, acc.guids[acc.slot], per)

GptEntries(r, table, head, first) ==
  FoldLeft(LAMBDA acc, i : GptStep(acc, table, head.at),
           [r |-> r, ok |-> TRUE, done |-> FALSE, slot |-> 1, lba |-> head.list, guids |-> first.guids],
           [i \in 1 .. head.count |-> i])

\* The protective MBR, the header it points to, the first sector of the list.
GptListed(r, id, head, first) ==
  IF first.st # "SUCCESS" THEN [r |-> r, ok |-> FALSE] ELSE GptEntries(r, id, head, first.block)

GptHeader(r, id, disk, head) ==
  IF head.st # "SUCCESS" \/ ~head.block.efi THEN [r |-> r, ok |-> FALSE]
  ELSE GptListed(r, id, head.block, ReadOne(r, disk, head.block.list, 512))

GptProtective(r, id, disk, prot) ==
  IF prot.st = "overrun" THEN [r |-> [r EXCEPT !.lost = TRUE], ok |-> FALSE]
  ELSE IF prot.st # "SUCCESS" \/ ~prot.block.sig \/ prot.block.entries[1].type # "gpt" THEN [r |-> r, ok |-> FALSE]
  ELSE GptHeader(r, id, disk, ReadOne(r, disk, prot.block.entries[1].base, 512))

gpt_filled(r, disk) ==
  IF r.lost THEN [r |-> r, ok |-> FALSE]
  ELSE Settle(GptProtective(r, Len(r.dev), disk, ReadOne(r, disk, 0, 512)), Len(r.dev))

gpt_probe(r, disk) == gpt_filled(Named(r, "gpt", disk, Append(r.dev[disk].name, "pt")), disk)

OrGpt(done, disk) == IF done.ok \/ done.r.lost THEN done.r ELSE gpt_probe(done.r, disk).r
detect_partitions(r, disk) == OrGpt(mbr_probe(r, disk), disk)

DiskData(n, packet, params, g) ==
  [drive |-> n, packet |-> packet,
   block |-> IF params /\ Drive(n).bps # 0 THEN Drive(n).bps ELSE 512,
   total |-> IF params THEN Drive(n).total ELSE 0,
   geometry |-> [head |-> g.head, sector |-> g.sector]]

IsFixed(n, bd, params, g) ==
  /\ n >= 128 /\ n < 224 /\ bd.block # 2048
  /\ ~(g.ok /\ Drive(n).atapi) /\ ~(params /\ Drive(n).removable)

Searching(r, skip) == IF skip THEN r ELSE detect_partitions(r, Len(r.dev))
WithDisk(r, bd) == [r EXCEPT !.dev[Len(r.dev)].bd = bd]

DiskMade(r, n, bd, params, g, skip) ==
  IF ~g.ok /\ ~bd.packet THEN [r |-> r, ok |-> FALSE]
  ELSE [r |-> Searching(WithDisk(Named(r, "biosdisk", None, IF IsFixed(n, bd, params, g) THEN <<"fd">> ELSE <<"rd">>), bd), skip),
        ok |-> TRUE]

DiskParams(r, n, packet, params, g, skip) == DiskMade(r, n, DiskData(n, packet, params, g), params, g, skip)

biosdisk_probe(r, n, skip) ==
  DiskParams(r, n, VlBiosP_CheckDiskExtension(n),
             VlBiosP_CheckDiskExtension(n) /\ VlBiosP_GetDiskParamsExtended(n),
             VlBiosP_GetDiskParams(n), skip)

-----------------------------------------------------------------------------
(* File systems *)

Drivers == <<"folifs", "fat", "iso9660">>

Present(list, name) == \E k \in DOMAIN list : list[k].name = name

VlFs_Find(list, name) == CHOOSE k \in DOMAIN list : list[k].name = name /\ \A j \in 1 .. (k - 1) : list[j].name # name

\* At the end of the list; the name was seen to be free.
VlFs_Create(list, driver, id, name) == Append(list, [name |-> name, driver |-> driver, dev |-> id, stale |-> FALSE])

\* The head of the list has no predecessor and stays.
VlFs_Remove(list, name) ==
  LET k == VlFs_Find(list, name)
  IN IF k = 1 THEN [list EXCEPT ![1].stale = TRUE] ELSE RemoveAt(list, k)

\* The descriptors from block 16 to the terminator: the first primary one, or 0.
IsoEnded(kinds, k) ==
  \E j \in 1 .. k : kinds[j].st # "SUCCESS" \/ kinds[j].block.fs \notin {"primary", "secondary"}

IsoFirst(kinds, first) ==
  IF first # {} /\ \E k \in DOMAIN kinds : /\ ~IsoEnded(kinds, k - 1) /\ kinds[k].st = "SUCCESS"
                                           /\ kinds[k].block.fs = "terminator"
  THEN 15 + (CHOOSE k \in first : \A j \in first : k <= j) ELSE 0

IsoScan(kinds) == IsoFirst(kinds, {k \in DOMAIN kinds : ~IsoEnded(kinds, k) /\ kinds[k].block.fs = "primary"})
IsoPrimary(id) == IsoScan([k \in 1 .. 3 |-> ReadOne(vd, id, 15 + k, 2048)])

FolifsFirst(zero) == zero.st = "SUCCESS" /\ zero.block.sig /\ zero.block.fs = "folifs"
folifs_probe(id) == BlockSize(vd, id) = 512 /\ FolifsFirst(ReadOne(vd, id, 0, 512))

FatInfo(info) == info.st = "SUCCESS" /\ info.block.fs = "fsinfo"
FatFirst(id, zero) ==
  /\ zero.st = "SUCCESS" /\ zero.block.sig /\ zero.block.fs \in {"fat12", "fat32"}
  /\ zero.block.fs = "fat32" => FatInfo(ReadOne(vd, id, zero.block.at, 512))
fat_probe(id) == BlockSize(vd, id) = 512 /\ FatFirst(id, ReadOne(vd, id, 0, 512))

iso9660_probe(id) == BlockSize(vd, id) = 2048 /\ IsoPrimary(id) # 0

\* After VlFs_Create: the first block, the first block of the root block and the whole of it.
FolifsRoot(id, at, rdb) ==
  rdb.st = "SUCCESS" /\ Request("read", vd, id, at, rdb.block.count, rdb.block.count).st = "SUCCESS"
FolifsAt(id, at) == FolifsRoot(id, at, ReadOne(vd, id, at, 512))
FolifsZero(id, zero) == FolifsFirst(zero) /\ FolifsAt(id, zero.block.at)
folifs_mount(id) == FolifsZero(id, ReadOne(vd, id, 0, 512))

\* The BPB again, and the FSINFO sector of a FAT32 volume without a look at its content.
FatBpb(id, zero) ==
  /\ zero.st = "SUCCESS" /\ zero.block.sig /\ zero.block.fs \in {"fat12", "fat32"}
  /\ zero.block.fs = "fat32" => ReadOne(vd, id, zero.block.at, 512).st = "SUCCESS"
fat_mount(id) == FatBpb(id, ReadOne(vd, id, 0, 512))

\* After VlFs_Create: the descriptors again, then the path table.
iso9660_mount(id) ==
  ReadOne(vd, id, ReadOne(vd, id, IsoPrimary(id), 2048).block.list, 2048).st = "SUCCESS"

FsProbe(driver, id) ==
  CASE driver = "folifs" -> folifs_probe(id)
    [] driver = "fat" -> fat_probe(id)
    [] driver = "iso9660" -> iso9660_probe(id)

FsMount(driver, id) ==
  CASE driver = "folifs" -> folifs_mount(id)
    [] driver = "fat" -> fat_mount(id)
    [] driver = "iso9660" -> iso9660_mount(id)

\* Every driver in turn: probe, then mount, which registers the name first and
\* takes it back when a later step fails.
Mounted(new, name, ok) == IF ok THEN [list |-> new, ok |-> TRUE] ELSE [list |-> VlFs_Remove(new, name), ok |-> FALSE]

TryDriver(acc, driver, id, name) ==
  IF acc.ok \/ Present(acc.list, name) \/ ~FsProbe(driver, id) THEN acc
  ELSE Mounted(VlFs_Create(acc.list, driver, id, name), name, FsMount(driver, id))

VlFs_MountAuto(list, id, name) ==
  FoldLeft(LAMBDA acc, driver : TryDriver(acc, driver, id, name), [list |-> list, ok |-> FALSE], Drivers)

-----------------------------------------------------------------------------
(* Start-up *)

VolumesInit ==
  /\ vmach \in DOMAIN VolMachines
  /\ vdisk = [n \in DOMAIN M.drives |-> <<>>]
  /\ vd = NoDevices /\ vqueue = <<>> /\ vfs = <<>>
  /\ vphase = "reload" /\ vboot = PlainBlock
  /\ vreq = NoRequest /\ vbefore = vdisk /\ vasked = 0

\* The boot sector of the partition the loader came from.
reload_boot_sector ==
  /\ vphase = "reload"
  /\ LET n == M.boot
         g == VlBiosP_GetDiskParams(n)
         at == IF VlBiosP_CheckDiskExtension(n) THEN M.part ELSE ChsBlock(n, VlDisk_LbaToChs(M.part, g))
         fine == IF VlBiosP_CheckDiskExtension(n) THEN VlBiosP_ReadDiskExtended(n, M.part, 1)
                 ELSE g.ok /\ VlBiosP_ReadDisk(n, VlDisk_LbaToChs(M.part, g))
     IN /\ vphase' = IF fine THEN "legacy" ELSE "dead"
        /\ vboot' = IF fine THEN BlockAt(vdisk, n, at) ELSE vboot
  /\ UNCHANGED <<vmach, vdisk, vd, vqueue, vfs, vreq, vbefore, vasked>>

\* 0x80 and up as many as the BIOS data area or INT 13h say, whichever is more.
get_bios_fixed_disk_count ==
  LET g == VlBiosP_GetDiskParams(128)
  IN IF g.ok /\ M.bda < g.count THEN g.count ELSE M.bda

get_bios_removable_disk_count ==
  IF M.boot < 128 /\ M.floppies <= M.boot THEN M.boot + 1 ELSE M.floppies

\* The boot drive is required; the others are tried in the order of their numbers,
\* removable ones without looking for partitions.
init_bios_disks ==
  LET Others(from, to) == SelectSeq([k \in 1 .. (to - from) |-> from + k - 1], LAMBDA n : n # M.boot)
      Probes(ns, skip) == [k \in DOMAIN ns |-> [drive |-> ns[k], required |-> FALSE, skip |-> skip]]
  IN <<[drive |-> M.boot, required |-> TRUE, skip |-> FALSE]>>
     \o Probes(Others(128, 128 + get_bios_fixed_disk_count), FALSE)
     \o Probes(Others(0, get_bios_removable_disk_count), TRUE)
     \o Probes(Others(224, 240), TRUE)

\* The devices in front of the disks, then the disks to probe.
init_nonpnp_devices ==
  /\ vphase = "legacy"
  /\ LET clock == rtc_isa_probe(bioskbd_probe(debugout_probe(vd)))
         serial == FoldLeft(LAMBDA r, p : IF p = 0 THEN r ELSE uart_isa_probe(r), clock, M.com)
     IN vd' = FoldLeft(LAMBDA r, p : IF p = 0 THEN r ELSE ieee1284_isa_probe(r), serial, M.lpt)
  /\ vqueue' = init_bios_disks
  /\ vphase' = "disks"
  /\ UNCHANGED <<vmach, vdisk, vfs, vboot, vreq, vbefore, vasked>>

probe_bios_disk ==
  /\ vphase = "disks" /\ vqueue # <<>>
  /\ \E done \in {biosdisk_probe(vd, Head(vqueue).drive, Head(vqueue).skip)} :
       /\ vd' = done.r
       /\ vphase' = IF done.r.lost \/ (Head(vqueue).required /\ ~done.ok) THEN "dead" ELSE "disks"
  /\ vqueue' = Tail(vqueue)
  /\ UNCHANGED <<vmach, vdisk, vfs, vboot, vreq, vbefore, vasked>>

VgaProbe ==
  /\ vphase = "disks" /\ vqueue = <<>>
  /\ vd' = Named(vd, "vga", None, <<"video">>)
  /\ vphase' = "mount"
  /\ UNCHANGED <<vmach, vdisk, vqueue, vfs, vboot, vreq, vbefore, vasked>>

\* The devices in list order up to the first whose first block is the boot sector.
\* A stale one is read through freed memory: unchanged, or anything.
IsBoot(zero) == zero.st = "SUCCESS" /\ zero.block = vboot
BootHits(blocks) == {k \in DOMAIN blocks : BlockSize(vd, blocks[k]) <= 512 /\ IsBoot(ReadOne(vd, blocks[k], 0, 512))}
FirstHit(hits, none) == IF hits = {} THEN none ELSE CHOOSE k \in hits : \A j \in hits : k <= j

BootFrom(blocks, hit) ==
  \E intact \in (IF \E k \in DOMAIN blocks : k <= hit /\ vd.dev[blocks[k]].stale THEN BOOLEAN ELSE {TRUE}) :
    /\ vphase' = IF intact THEN "run" ELSE "dead"
    /\ vd' = [vd EXCEPT !.lost = ~intact]
    /\ vfs' = IF intact /\ hit <= Len(blocks) THEN VlFs_MountAuto(vfs, blocks[hit], "boot").list ELSE vfs

mount_boot_filesystem ==
  /\ vphase = "mount"
  /\ \E blocks \in {SelectSeq(vd.list, LAMBDA id : IsBlock(vd, id))} :
     \E hit \in {FirstHit(BootHits(blocks), Len(blocks) + 1)} : BootFrom(blocks, hit)
  /\ UNCHANGED <<vmach, vdisk, vqueue, vboot, vreq, vbefore, vasked>>

-----------------------------------------------------------------------------
(* The running loader *)

InUse(id) == IsBlock(vd, id) /\ ~vd.dev[id].stale
May == vphase = "run" /\ vasked < VolRequests

\* The block interface as the file system drivers call it.
BlockRead ==
  /\ May
  /\ \E id \in {x \in Linked(vd) : InUse(x)}, lba \in VolLbas, count \in VolCounts :
       \E a \in {Request("read", vd, id, lba, count, count)} :
         /\ vreq' = [op |-> "read", dev |-> id, lba |-> lba, count |-> count, st |-> a.st, n |-> a.n,
                     got |-> IF a.n = 0 THEN <<>>
                             ELSE [k \in 1 .. a.n |-> BlockAt(vdisk, a.drive, Reached(DiskOf(vd, id), a)[k])]]
         /\ vphase' = IF a.st = "overrun" THEN "dead" ELSE "run"
         /\ vd' = [vd EXCEPT !.lost = a.st = "overrun"]
  /\ vasked' = vasked + 1 /\ vbefore' = vdisk
  /\ UNCHANGED <<vmach, vdisk, vqueue, vfs, vboot>>

BlockWrite ==
  /\ May
  /\ \E id \in {x \in Linked(vd) : InUse(x)}, lba \in VolLbas, count \in VolCounts :
       \E a \in {Request("write", vd, id, lba, count, count)} :
         LET data == [k \in 1 .. a.n |-> [PlainBlock EXCEPT !.id = -k]]
             at == Reached(DiskOf(vd, id), a)
         IN /\ vreq' = [op |-> "write", dev |-> id, lba |-> lba, count |-> count, st |-> a.st, n |-> a.n,
                        got |-> data]
            /\ vdisk' = IF a.n = 0 THEN vdisk
                        ELSE [vdisk EXCEPT ![a.drive] =
                                [b \in {at[k] : k \in 1 .. a.n} |-> data[CHOOSE k \in 1 .. a.n : at[k] = b]] @@ @]
            /\ vphase' = IF a.st = "overrun" THEN "dead" ELSE "run"
            /\ vd' = [vd EXCEPT !.lost = a.st = "overrun"]
  /\ vasked' = vasked + 1 /\ vbefore' = vdisk
  /\ UNCHANGED <<vmach, vqueue, vfs, vboot>>

readblk_handler ==
  /\ May
  /\ \E name \in {vd.dev[x].name : x \in {y \in Linked(vd) : InUse(y)}}, lba \in VolLbas :
       \E z \in {ReadOne(vd, VlDev_Find(vd, name), lba, 2048)} :
         vreq' = [op |-> "readblk", dev |-> VlDev_Find(vd, name), lba |-> lba, count |-> 1, st |-> z.st,
                  n |-> IF z.st = "SUCCESS" THEN 1 ELSE 0,
                  got |-> IF z.st = "SUCCESS" THEN <<z.block>> ELSE <<>>]
  /\ vasked' = vasked + 1 /\ vbefore' = vdisk
  /\ UNCHANGED <<vmach, vdisk, vd, vqueue, vfs, vphase, vboot>>

mount_handler ==
  /\ May
  /\ \E id \in {x \in Linked(vd) : InUse(x)}, name \in {"boot", "more"} :
       \E done \in {VlFs_MountAuto(vfs, VlDev_Find(vd, vd.dev[id].name), name)} :
         /\ vfs' = done.list
         /\ vreq' = [op |-> "mount", dev |-> id, name |-> name, ok |-> done.ok, had |-> vfs]
  /\ vasked' = vasked + 1 /\ vbefore' = vdisk
  /\ UNCHANGED <<vmach, vdisk, vd, vqueue, vphase, vboot>>

\* A device, its children and its siblings, in the order they are printed.
print_dev_tree(r, top) ==
  LET tree[id \in 0 .. Len(r.dev)] ==
        IF id = None THEN <<>>
        ELSE IF r.dev[id].gone THEN <<None>>
        ELSE <<id>> \o tree[r.dev[id].first] \o tree[r.dev[id].sib]
  IN tree[top]

lsdev_handler ==
  /\ May
  /\ LET roots == SelectSeq(vd.list, LAMBDA id : vd.dev[id].parent = None)
         shown == FoldLeft(LAMBDA s, id : s \o <<id>> \o print_dev_tree(vd, vd.dev[id].first), <<>>, roots)
     IN /\ vreq' = [op |-> "lsdev", got |-> shown]
        /\ vphase' = IF None \in ToSet(shown) THEN "dead" ELSE "run"
        /\ vd' = [vd EXCEPT !.lost = None \in ToSet(shown)]
  /\ vasked' = vasked + 1 /\ vbefore' = vdisk
  /\ UNCHANGED <<vmach, vdisk, vqueue, vfs, vboot>>

VolumesNext ==
  \/ reload_boot_sector \/ init_nonpnp_devices \/ probe_bios_disk \/ VgaProbe \/ mount_boot_filesystem
  \/ BlockRead \/ BlockWrite \/ readblk_handler \/ mount_handler \/ lsdev_handler

-----------------------------------------------------------------------------
(* What is to hold *)

Block0(n, lba) == BlockAt([k \in {n} |-> <<>>], n, lba)
Sound(n, lba) == Transfers(n, lba) /\ Block0(n, lba).sig

\* The partitions the tables of a drive declare: the primary ones, and the logical
\* one of each table of the extended partition, whose links count from its start.
LogicalParts(n, ext) ==
  LET one == Block0(n, ext)
      next == ext + one.entries[2].base
  IN {<<ext + one.entries[1].base, ext + one.entries[1].base + one.entries[1].count - 1>>}
     \cup (IF one.entries[2].type # "extended" THEN {}
           ELSE LET e == Block0(n, next).entries[1] IN {<<next + e.base, next + e.base + e.count - 1>>})

Declared(n) ==
  LET z == Block0(n, 0)
      head == Block0(n, z.entries[1].base)
      primary == {e \in ToSet(z.entries) : e.type \notin {"none", "extended"}}
      extended == {e \in ToSet(z.entries) : e.type = "extended"}
  IN IF z.entries[1].type = "gpt"
     THEN UNION {{<<g.base, g.limit>> : g \in ToSet(Block0(n, head.list + k).guids)} : k \in 0 .. 2}
     ELSE {<<e.base, e.base + e.count - 1>> : e \in primary} \cup UNION {LogicalParts(n, e.base) : e \in extended}

\* Every table on the way can be read, carries its signature and has no empty entry.
Orderly(n) ==
  LET z == Block0(n, 0)
      head == Block0(n, z.entries[1].base)
      extended == {e.base : e \in {x \in ToSet(z.entries) : x.type = "extended"}}
  IN /\ Sound(n, 0) /\ \A p \in Declared(n) : p[1] <= p[2]
     /\ IF z.entries[1].type = "gpt"
        THEN head.efi /\ \A b \in {z.entries[1].base, head.list, head.list + 1, head.list + 2} : Transfers(n, b)
        ELSE \A b \in extended :
               /\ Sound(n, b)
               /\ Block0(n, b).entries[2].type = "extended" => Sound(n, b + Block0(n, b).entries[2].base)

\* The linked devices of a drive that work, by driver.
DevicesOf(n, driver) ==
  {id \in Linked(vd) : /\ vd.dev[id].driver = driver /\ ~vd.dev[id].stale
                       /\ LET up == vd.dev[id].parent
                              disk == IF driver = "biosdisk" THEN id ELSE IF driver = "part" THEN vd.dev[up].parent ELSE up
                          IN vd.dev[disk].bd.drive = n}

Answers(n) == Drive(n).chs \/ Drive(n).edd \in {"packet", "noparams"}
Searched(n) == n = M.boot \/ (n >= 128 /\ n < 224)

\* The names are the handles by which every later command finds a device.
NamesTell ==
  \A i, j \in Linked(vd) : i # j => vd.dev[i].name # vd.dev[j].name

\* Once start-up is through: one device per drive that answers, and on the drives
\* that are searched exactly the declared partitions, each once; a table that is
\* not in order leaves no partition that works, except that the status of the
\* later sectors of a GPT is ignored and earlier entries appear again.
DrivesFound ==
  \A n \in DOMAIN M.drives :
    Answers(n) =>
      /\ Cardinality(DevicesOf(n, "biosdisk")) = 1
      /\ LET parts == DevicesOf(n, "part")
             spans == {<<vd.dev[p].lo, vd.dev[p].hi>> : p \in parts}
         IN IF Searched(n) /\ Orderly(n)
            THEN spans = Declared(n) /\ Cardinality(parts) = Cardinality(spans)
            ELSE spans \subseteq (IF Block0(n, 0).entries[1].type = "gpt" THEN Declared(n) ELSE {})

\* The boot file system sits on the partition the loader was started from.
BootRight ==
  \A k \in DOMAIN vfs : (vfs[k].name = "boot" /\ vreq.op # "mount" /\ vreq.op # "write" /\ vdisk = vbefore) =>
    LET dev == vd.dev[vfs[k].dev]
    IN Block0(M.boot, M.part) = vboot /\
       (vasked = 0 => IF dev.driver = "part" THEN dev.lo = M.part ELSE M.part = 0)

\* A name stands for one file system, and a failed mount adds none that works.
MountsSound ==
  /\ \A i, j \in DOMAIN vfs : i # j => vfs[i].name # vfs[j].name
  /\ vreq.op = "mount" =>
       IF vreq.ok THEN ~Present(vreq.had, vreq.name) /\ vfs[Len(vfs)].dev = vreq.dev /\ ~vfs[Len(vfs)].stale
       ELSE SelectSeq(vfs, LAMBDA f : ~f.stale) = SelectSeq(vreq.had, LAMBDA f : ~f.stale)

\* The blocks of the drive that are a device's own.
Start(id) == IF vd.dev[id].driver = "part" THEN vd.dev[id].lo ELSE 0
Limit(id) == IF vd.dev[id].driver = "part" THEN vd.dev[id].hi ELSE Drive(DiskOf(vd, id).drive).size

Exact(n, from, asked) ==
  /\ vreq.n <= asked
  /\ vreq.st = "SUCCESS" => vreq.n = asked
  /\ \A k \in 1 .. vreq.n : BlockAt(vdisk, n, from + k - 1) = vreq.got[k]
  /\ vdisk # vbefore =>
       \A m \in DOMAIN vdisk : \A b \in DOMAIN vdisk[m] :
         BlockAt(vdisk, m, b) # BlockAt(vbefore, m, b) =>
           vreq.op = "write" /\ m = n /\ b \in from .. (from + vreq.n - 1)

\* A request inside a device reaches the device's own blocks in order and no
\* others, and all of those asked for below its limit when it succeeds.
Within(n, from, limit) ==
  from <= limit => Exact(n, from, IF from + vreq.count > limit THEN limit - from ELSE vreq.count)

RequestsExact ==
  vreq.op \in {"read", "write", "readblk"} =>
    Within(DiskOf(vd, vreq.dev).drive, Start(vreq.dev) + vreq.lba, Limit(vreq.dev))

\* lsdev prints every device once.
ListsAll == vreq.op = "lsdev" => /\ ToSet(vreq.got) = Linked(vd)
                                 /\ Len(vreq.got) = Cardinality(Linked(vd))

=============================================================================
