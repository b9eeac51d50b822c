-------------------------------- MODULE Fat --------------------------------
(***************************************************************************)
(* The loader's FAT driver (vellum/filesystem/fat/fat.c): probing and      *)
(* mounting a volume, following cluster chains through the one-sector FAT  *)
(* buffer, reading and seeking in a file, and iterating directories with   *)
(* their long names, all through one data buffer that holds a sector or a  *)
(* cluster.                                                                *)
(*                                                                         *)
(* A byte of the data area is the pair of its sector and its offset; a     *)
(* slot of a directory is named by its first byte.  The bytes of the FAT   *)
(* are numbers, so that the packing of the three entry widths is the       *)
(* code's.  A call runs one turn of its loop per step, and the disk reads  *)
(* of a turn may fail.                                                     *)
(***************************************************************************)
EXTENDS Integers, Sequences, SequencesExt, FiniteSets

CONSTANTS
    FatVolumes,    \* the disks offered to the driver
    SectorSize,    \* bytes of a sector
    EntrySize,     \* bytes of a directory slot
    ReadLens,      \* lengths asked of read
    SeekTargets,   \* pairs of an origin and an offset asked of seek
    FaultLimit     \* disk reads that may fail

ASSUME FatGeometry == SectorSize % EntrySize = 0

VARIABLES
    fvol,      \* the disk mounted, or NoVolume
    flay,      \* struct fat_data: the layout mount worked out
    fatbuf,    \* the FAT sector held, with its sector number
    databuf,   \* the bytes held, with the number of their first sector
    ffile,     \* struct fat_file_data of the open file, or NoFile
    fdir,      \* struct fat_dir_data of the open directory, or NoDir
    fcall,     \* the call in progress, or Idle
    fout,      \* what the last call returned
    ffaults    \* disk reads that have failed

fatVars == <<fvol, flay, fatbuf, databuf, ffile, fdir, fcall, fout, ffaults>>

NoVolume == [none |-> "volume"]
NoFile == [none |-> "file"]
NoDir == [none |-> "directory"]
Idle == [op |-> "idle"]
NoLba == -1
Smaller(x, y) == IF x < y THEN x ELSE y

-----------------------------------------------------------------------------
(* The disk. *)

\* A FAT entry of the disk, and byte i of its table: twelve-bit entries are
\* packed two to three bytes, the top four bits of a wide entry are reserved.
FatEntry(v, c) == IF c \in DOMAIN v.fat THEN v.fat[c] ELSE 0

FatByte(v, i) ==
    CASE v.width = 12 ->
           (CASE i % 3 = 0 -> FatEntry(v, 2 * (i \div 3)) % 256
              [] i % 3 = 1 -> (FatEntry(v, 2 * (i \div 3)) \div 256)
                              + 16 * (FatEntry(v, 2 * (i \div 3) + 1) % 16)
              [] i % 3 = 2 -> FatEntry(v, 2 * (i \div 3) + 1) \div 16)
      [] v.width = 16 -> (FatEntry(v, i \div 2) \div (256 ^ (i % 2))) % 256
      [] v.width = 32 -> ((FatEntry(v, i \div 4) \div (256 ^ (i % 4))) % 256)
                         + (IF i % 4 = 3 THEN 16 * v.resv ELSE 0)

FatSector(v, s) == [i \in 0..(SectorSize - 1) |-> FatByte(v, s * SectorSize + i)]

DataBytes(lba, n) ==
    [i \in 0..(n * SectorSize - 1) |-> <<lba + (i \div SectorSize), i % SectorSize>>]

Junk == [kind |-> "junk", name |-> "junk", head |-> 0, size |-> 0]

\* Slot k of a buffer seen as directory entries: what the disk holds at the
\* slot's first byte, and whatever lies behind the buffer when k is too large.
EntryAt(v, bytes, k) ==
    IF k * EntrySize \notin DOMAIN bytes THEN Junk
    ELSE IF bytes[k * EntrySize] \in DOMAIN v.slots THEN v.slots[bytes[k * EntrySize]]
    ELSE [Junk EXCEPT !.kind = "end"]

-----------------------------------------------------------------------------
(* Mounting. *)

MaxCluster(type) ==
    CASE type = 12 -> 4084 [] type = 16 -> 65524 [] type = 32 -> 268435446

Sectors(v) ==
    LET root == (v.rootEntries * EntrySize + SectorSize - 1) \div SectorSize
        data == v.reserved + v.fatCount * v.fatSize
    IN  [root |-> root, data |-> data, clusters |-> (v.total - data - root) \div v.spc]

\* The width of the entries follows from the number of clusters alone.
FatTypeOf(clusters) ==
    IF clusters <= MaxCluster(12) THEN 12 ELSE IF clusters <= MaxCluster(16) THEN 16 ELSE 32

FatProbe(v) ==
    CASE v.blockSize # SectorSize -> "size"
      [] ~v.signed -> "signature"
      [] FatTypeOf(Sectors(v).clusters) = 32 /\ ~v.fsinfo -> "signature"
      [] OTHER -> "ok"

\* struct fat_data.  Mounting does not set fatbuf_lba, nor root_cluster unless
\* the volume is FAT32.  Either the fresh memory holds numbers that do no harm,
\* or ("unset") it holds that of a FAT sector never read or some cluster for the
\* root directory: what the driver does from there is not followed.
FatMount ==
    /\ fvol = NoVolume
    /\ \E v \in FatVolumes, unset \in BOOLEAN :
         /\ FatProbe(v) = "ok"
         /\ \E s \in {Sectors(v)} : \E type \in {FatTypeOf(s.clusters)} :
              flay' = [type |-> type, spc |-> v.spc, csize |-> v.spc * SectorSize,
                       reserved |-> v.reserved, dataBegin |-> s.data, rootSectors |-> s.root,
                       rootCluster |-> IF type = 32 THEN v.rootCluster ELSE 0,
                       unset |-> unset]
         /\ fvol' = v
         /\ fatbuf' = [lba |-> NoLba, bytes |-> [i \in 0..(SectorSize - 1) |-> 0]]
         /\ databuf' = [lba |-> NoLba, bytes |-> [i \in 0..(v.spc * SectorSize - 1) |-> <<NoLba, 0>>]]
    /\ fout' = [op |-> "mount", st |-> "ok"]
    /\ UNCHANGED <<ffile, fdir, fcall, ffaults>>

FatRefuse ==
    /\ fvol = NoVolume
    /\ \E v \in FatVolumes :
         /\ FatProbe(v) # "ok"
         /\ fout' = [op |-> "mount", st |-> FatProbe(v)]
    /\ UNCHANGED <<fvol, flay, fatbuf, databuf, ffile, fdir, fcall, ffaults>>

-----------------------------------------------------------------------------
(* Buffers and chains. *)

LastCluster == MaxCluster(flay.type)

fatcluster_to_sector(c) ==
    (c - 2) * flay.spc + flay.dataBegin + (IF flay.type = 32 THEN 0 ELSE flay.rootSectors)

read_fat(b, s) ==
    IF b.lba = flay.reserved + s THEN b
    ELSE [lba |-> flay.reserved + s, bytes |-> FatSector(fvol, s)]

\* The FAT sectors the entry of cluster c lies in, and its offset in the first.
Touched(c) ==
    CASE flay.type = 12 ->
           LET i == c + (c \div 2) IN
             IF i % SectorSize = SectorSize - 1 THEN <<i \div SectorSize, (i \div SectorSize) + 1>>
             ELSE <<i \div SectorSize>>
      [] flay.type = 16 -> <<c \div (SectorSize \div 2)>>
      [] flay.type = 32 -> <<c \div (SectorSize \div 4)>>


\* The entry of cluster c, with b the buffer after its first sector was read
\* and e the buffer after its last.
get_next_cluster12_OneSector(b, e, c) ==
    LET i == (c + (c \div 2)) % SectorSize
        hi == b.bytes[(i + 1) % SectorSize]
    IN  IF c % 2 = 1 THEN (b.bytes[i] \div 16) + 16 * hi ELSE b.bytes[i] + 256 * (hi % 16)

get_next_cluster12(b, e, c) ==
    LET i == (c + (c \div 2)) % SectorSize
        hi == IF i = SectorSize - 1 THEN e.bytes[0] ELSE b.bytes[i + 1]
    IN  IF c % 2 = 1 THEN (b.bytes[i] \div 16) + 16 * hi ELSE b.bytes[i] + 256 * (hi % 16)

get_next_cluster16(b, c) ==
    LET i == 2 * (c % (SectorSize \div 2)) IN b.bytes[i] + 256 * b.bytes[i + 1]

get_next_cluster32(b, c) ==
    LET i == 4 * (c % (SectorSize \div 4))
    IN  b.bytes[i] + 256 * b.bytes[i + 1] + 65536 * b.bytes[i + 2]
        + 16777216 * (b.bytes[i + 3] % 16)

\* Following the chain once from cluster c: the status, the cluster reached
\* (overwritten even when it is beyond the last), and the FAT buffer.
NextCluster(b, e, c) ==
    LET n == CASE flay.type = 12 -> get_next_cluster12(b, e, c)
               [] flay.type = 16 -> get_next_cluster16(e, c)
               [] flay.type = 32 -> get_next_cluster32(e, c)
    IN  [st |-> IF n > LastCluster THEN "end" ELSE "ok", c |-> n, buf |-> e]

MayFail == ffaults < FaultLimit

NextOutcomes(c) ==
    IF c > LastCluster THEN {[st |-> "invalid", c |-> c, buf |-> fatbuf]}
    ELSE UNION {UNION {
            {NextCluster(b, e, c)}
            \cup {[st |-> "io", c |-> c, buf |-> x] :
                    x \in (IF MayFail /\ b.lba # fatbuf.lba THEN {fatbuf} ELSE {})
                          \cup (IF MayFail /\ e.lba # b.lba THEN {b} ELSE {})} :
            e \in {read_fat(b, Last(Touched(c)))}} :
         b \in {read_fat(fatbuf, Head(Touched(c)))}}

\* read_sector and read_cluster: n sectors from lba on into the front of the
\* buffer, unless it starts with that sector already.  A read that fails may
\* have replaced the first sectors while the sector number stays.
Filled(lba, n) == [i \in DOMAIN databuf.bytes |->
                     IF i \in DOMAIN DataBytes(lba, n) THEN DataBytes(lba, n)[i] ELSE databuf.bytes[i]]

BufferOutcomes(lba, n) ==
    IF databuf.lba = lba THEN {[st |-> "ok", buf |-> databuf]}
    ELSE {[st |-> "ok", buf |-> [lba |-> lba, bytes |-> Filled(lba, n)]]}
         \cup {[st |-> "io", buf |-> [databuf EXCEPT !.bytes = Filled(lba, k)]] :
                 k \in IF MayFail THEN 0..(n - 1) ELSE {}}

Fault(st) == ffaults' = IF st = "io" THEN ffaults + 1 ELSE ffaults

\* Whether the bytes held are those of the sectors the buffer is said to hold.
Holds(buf, n) == \A i \in DOMAIN DataBytes(buf.lba, n) : buf.bytes[i] = DataBytes(buf.lba, n)[i]

Return(o) ==
    /\ fcall' = Idle
    /\ fout' = o

-----------------------------------------------------------------------------
(* Files.  "lost" marks a file whose cursor moved on while its cluster did   *)
(* not, because the FAT could not be read.  As in fopen, the directory is     *)
(* closed before the file is used.                                           *)

FatRead ==
    /\ fcall = Idle /\ ffile # NoFile /\ fdir = NoDir
    /\ \E len \in ReadLens :
         IF ffile.cursor >= ffile.size
         THEN Return([op |-> "read", st |-> "eof", at |-> ffile.cursor])
         ELSE /\ fcall' = [op |-> "read", at |-> ffile.cursor, fair |-> ~ffile.lost, asked |-> len,
                           len |-> IF ffile.cursor + len >= ffile.size
                                   THEN ffile.size - ffile.cursor ELSE len,
                           got |-> <<>>]
              /\ UNCHANGED fout
    /\ UNCHANGED <<fvol, flay, fatbuf, databuf, ffile, fdir, ffaults>>

ReadResult(st, got, fair) ==
    [op |-> "read", st |-> st, at |-> fcall.at, asked |-> fcall.asked, got |-> got, fair |-> fair]

\* The turn of the loop that goes through the data buffer: one cluster at most.
ReadByCluster ==
    /\ fcall.op = "read" /\ fcall.len > 0
    /\ \E off \in {ffile.cursor % flay.csize} :
         /\ ~(off = 0 /\ fcall.len >= 2 * flay.csize)
         /\ \E n \in {Smaller(flay.csize - off, fcall.len)},
               r \in BufferOutcomes(fatcluster_to_sector(ffile.current), flay.spc) :
              /\ databuf' = r.buf
              /\ IF r.st # "ok"
                 THEN /\ Return(ReadResult(r.st, fcall.got, FALSE))
                      /\ Fault(r.st)
                      /\ UNCHANGED <<fatbuf, ffile>>
                 ELSE \E got \in {fcall.got \o [i \in 1..n |-> r.buf.bytes[off + i - 1]]},
                         fair \in {fcall.fair /\ Holds(r.buf, flay.spc)} :
                        IF off + n < flay.csize
                        THEN /\ ffile' = [ffile EXCEPT !.cursor = @ + n]
                             /\ fcall' = [fcall EXCEPT !.len = @ - n, !.got = got, !.fair = fair]
                             /\ UNCHANGED <<fatbuf, fout, ffaults>>
                        ELSE \E x \in NextOutcomes(ffile.current) :
                               /\ fatbuf' = x.buf
                               /\ ffile' = [ffile EXCEPT !.cursor = @ + n, !.current = x.c,
                                                         !.lost = @ \/ x.st = "io"]
                               /\ Fault(x.st)
                               /\ IF x.st = "ok"
                                  THEN /\ fcall' = [fcall EXCEPT !.len = @ - n, !.got = got, !.fair = fair]
                                       /\ UNCHANGED fout
                                  ELSE Return(ReadResult("ok", got, fair /\ x.st # "io"))
    /\ UNCHANGED <<fvol, flay, fdir>>

\* read_contiguous_clusters: find how far the clusters are consecutive, ...
ReadDirect ==
    /\ fcall.op = "read" /\ fcall.len >= 2 * flay.csize /\ ffile.cursor % flay.csize = 0
    /\ fcall' = [fcall EXCEPT !.op = "scan"]
                @@ [c |-> ffile.current, count |-> 1, next |-> NoLba, over |-> FALSE]
    /\ UNCHANGED <<fvol, flay, fatbuf, databuf, ffile, fdir, fout, ffaults>>

ScanStep ==
    /\ fcall.op = "scan" /\ ~fcall.over
    /\ \E x \in NextOutcomes(fcall.c) :
         /\ fatbuf' = x.buf
         /\ Fault(x.st)
         /\ fcall' = CASE x.st # "ok" -> [fcall EXCEPT !.over = TRUE, !.fair = @ /\ x.st # "io"]
                       [] x.st = "ok" /\ (x.c # fcall.c + 1 \/ fcall.count = fcall.len \div flay.csize) ->
                            [fcall EXCEPT !.over = TRUE, !.next = x.c]
                       [] OTHER -> [fcall EXCEPT !.c = x.c, !.count = @ + 1]
    /\ UNCHANGED <<fvol, flay, databuf, ffile, fdir, fout>>

\* ... and read them into the caller's buffer at once.
ReadRun ==
    /\ fcall.op = "scan" /\ fcall.over
    /\ \E st \in {"ok"} \cup (IF MayFail THEN {"io"} ELSE {}) :
         /\ Fault(st)
         /\ IF st = "io"
            THEN /\ Return(ReadResult(st, fcall.got, FALSE))
                 /\ UNCHANGED <<databuf, ffile>>
            ELSE /\ databuf' = [databuf EXCEPT !.lba = NoLba]
                 /\ \E n \in {fcall.count * flay.csize} :
                    \E got \in {fcall.got \o
                         [i \in 1..n |-> DataBytes(fatcluster_to_sector(ffile.current),
                                                   fcall.count * flay.spc)[i - 1]]} :
                      /\ ffile' = [ffile EXCEPT !.cursor = @ + n,
                                     !.current = IF fcall.next = NoLba THEN @ ELSE fcall.next,
                                     !.lost = @ \/ fcall.next = NoLba]
                      /\ IF fcall.next = NoLba
                         THEN Return(ReadResult("ok", got, fcall.fair))
                         ELSE /\ fcall' = [op |-> "read", at |-> fcall.at, fair |-> fcall.fair,
                                           asked |-> fcall.asked, len |-> fcall.len - n, got |-> got]
                              /\ UNCHANGED fout
    /\ UNCHANGED <<fvol, flay, fatbuf, fdir>>

ReadDone ==
    /\ fcall.op = "read" /\ fcall.len = 0
    /\ Return(ReadResult("ok", fcall.got, fcall.fair))
    /\ UNCHANGED <<fvol, flay, fatbuf, databuf, ffile, fdir, ffaults>>

\* seek: the offset clamped to the file's size, then the chain followed from
\* its head; the file only changes when the cluster was found.
FatSeek ==
    /\ fcall = Idle /\ ffile # NoFile /\ fdir = NoDir
    /\ \E t \in SeekTargets :
       \E to \in {t.offset + (CASE t.origin = "set" -> 0 [] t.origin = "cur" -> ffile.cursor
                                [] t.origin = "end" -> ffile.size)} :
         IF to < 0 THEN Return([op |-> "seek", st |-> "invalid", to |-> to])
         ELSE \E at \in {Smaller(to, ffile.size)} :
              /\ fcall' = [op |-> "seek", to |-> at, c |-> ffile.head, hops |-> at \div flay.csize]
              /\ UNCHANGED fout
    /\ UNCHANGED <<fvol, flay, fatbuf, databuf, ffile, fdir, ffaults>>

SeekStep ==
    /\ fcall.op = "seek"
    /\ IF fcall.hops = 0
       THEN /\ ffile' = [ffile EXCEPT !.cursor = fcall.to, !.current = fcall.c, !.lost = FALSE]
            /\ Return([op |-> "seek", st |-> "ok", to |-> fcall.to])
            /\ UNCHANGED <<fatbuf, ffaults>>
       ELSE \E x \in NextOutcomes(fcall.c) :
            /\ fatbuf' = x.buf
            /\ Fault(x.st)
            /\ IF x.st = "ok"
               THEN /\ fcall' = [fcall EXCEPT !.c = x.c, !.hops = @ - 1]
                    /\ UNCHANGED fout
               ELSE Return([op |-> "seek", st |-> x.st, to |-> fcall.to])
            /\ UNCHANGED ffile
    /\ UNCHANGED <<fvol, flay, databuf, fdir>>

FatClose ==
    /\ fcall = Idle /\ ffile # NoFile /\ fdir = NoDir
    /\ ffile' = NoFile
    /\ Return([op |-> "close", st |-> "ok"])
    /\ UNCHANGED <<fvol, flay, fatbuf, databuf, fdir, ffaults>>

-----------------------------------------------------------------------------
(* Directories.  "seen" counts the entries returned since the last rewind;   *)
(* "lost" marks a directory whose position no longer fits its cluster.       *)

NewDir(head, root) ==
    [head |-> head, current |-> head, index |-> 0, root |-> root,
     seen |-> 0, lost |-> FALSE]

FatOpenRoot ==
    /\ fcall = Idle /\ fvol # NoVolume /\ ~flay.unset /\ fdir = NoDir
    /\ fdir' = NewDir(IF flay.type = 32 THEN flay.rootCluster ELSE 0, TRUE)
    /\ Return([op |-> "root", st |-> "ok"])
    /\ UNCHANGED <<fvol, flay, fatbuf, databuf, ffile, ffaults>>

FatCloseDir ==
    /\ fcall = Idle /\ fdir # NoDir
    /\ fdir' = NoDir
    /\ Return(Idle)
    /\ UNCHANGED <<fvol, flay, fatbuf, databuf, ffile, ffaults>>

rewind_directory(d) ==
    [d EXCEPT !.current = d.head, !.index = 0, !.seen = 0, !.lost = FALSE]

NoLong == [on |-> FALSE, parts |-> <<>>, ends |-> 0]

Look(op, name) == [op |-> op, name |-> name, long |-> NoLong]

FatIterate ==
    /\ fcall = Idle /\ fdir # NoDir
    /\ fcall' = Look("iterate", <<>>)
    /\ UNCHANGED <<fvol, flay, fatbuf, databuf, ffile, fdir, fout, ffaults>>

FatOpen ==
    /\ fcall = Idle /\ fdir # NoDir /\ ffile = NoFile
    /\ \E name \in fvol.names : fcall' = Look("open", name)
    /\ fdir' = rewind_directory(fdir)
    /\ UNCHANGED <<fvol, flay, fatbuf, databuf, ffile, fout, ffaults>>

FatOpenDirectory ==
    /\ fcall = Idle /\ fdir # NoDir /\ ffile = NoFile
    /\ \E name \in fvol.names \cup {<<"..">>, <<".">>} :
         IF fdir.root /\ name \in {<<"..">>, <<".">>}
         THEN /\ fdir' = NewDir(IF flay.type = 32 THEN flay.rootCluster ELSE 0, TRUE)
              /\ Return([op |-> "root", st |-> "ok"])
         ELSE /\ fcall' = Look("opendir", name)
              /\ fdir' = rewind_directory(fdir)
              /\ UNCHANGED fout
    /\ UNCHANGED <<fvol, flay, fatbuf, databuf, ffile, ffaults>>

FatRewind ==
    /\ fcall = Idle /\ fdir # NoDir /\ fdir.seen > 0
    /\ fdir' = rewind_directory(fdir)
    /\ Return([op |-> "rewind", st |-> "ok"])
    /\ UNCHANGED <<fvol, flay, fatbuf, databuf, ffile, ffaults>>

Looking == fcall.op \in {"iterate", "open", "opendir"}
InRootArea == flay.type # 32 /\ fdir.head = 0
PerBlock == (IF InRootArea THEN SectorSize ELSE flay.csize) \div EntrySize

LookResult(st, d) == [op |-> fcall.op, st |-> st, name |-> fcall.name, fair |-> ~d.lost]

\* The directory runs out before a block is fetched: the root area is over, or
\* the chain has no further cluster.
IterateEnds ==
    /\ Looking
    /\ IF InRootArea
       THEN /\ fdir.index \div PerBlock >= flay.rootSectors
            /\ Return(LookResult("end", fdir))
            /\ UNCHANGED <<fatbuf, ffaults>>
       ELSE /\ fdir.index >= PerBlock
            /\ \E x \in NextOutcomes(fdir.current) :
                 /\ x.st # "ok"
                 /\ fatbuf' = x.buf
                 /\ Fault(x.st)
                 /\ Return(LookResult(x.st, fdir))
    /\ UNCHANGED <<fvol, flay, databuf, ffile, fdir>>

\* get_lfn_filename: a fragment goes to its place; the last one ends the name.
get_lfn_filename(long, e) ==
    [on |-> TRUE, ends |-> IF e.last THEN e.seq ELSE long.ends,
     parts |-> [i \in 1..(IF e.seq > Len(long.parts) THEN e.seq ELSE Len(long.parts)) |->
                  IF i = e.seq THEN e.name ELSE IF i <= Len(long.parts) THEN long.parts[i] ELSE "junk"]]

NameOf(long, e) == IF long.on THEN SubSeq(long.parts, 1, long.ends) ELSE <<e.name>>

\* The slot at the index of directory d in buffer b.  A slot that names a file
\* or a directory is read again without reducing the index to the block.
AtSlot(d, b) ==
    LET e == EntryAt(fvol, b.bytes, d.index % PerBlock)
        found == EntryAt(fvol, b.bytes, d.index)
        name == NameOf(fcall.long, found)
        after == [d EXCEPT !.index = @ + 1, !.seen = @ + 1]
    IN  CASE e.kind = "end" -> fdir' = d /\ Return(LookResult("end", d)) /\ UNCHANGED ffile
          [] e.kind \in {"deleted", "lfn", "volume"} ->
               /\ fdir' = [d EXCEPT !.index = @ + 1]
               /\ fcall' = [fcall EXCEPT !.long =
                              CASE e.kind = "lfn" -> get_lfn_filename(@, e)
                                [] e.kind = "volume" -> [@ EXCEPT !.on = FALSE]
                                [] OTHER -> @]
               /\ UNCHANGED <<fout, ffile>>
          [] fcall.op = "iterate" ->
               /\ fdir' = after
               /\ Return([op |-> "iterate", st |-> "ok", name |-> name, entry |-> found,
                          beyond |-> InRootArea /\ d.index >= PerBlock, fair |-> ~d.lost])
               /\ UNCHANGED ffile
          [] fcall.op # "iterate" /\ name # fcall.name ->
               /\ fdir' = after
               /\ fcall' = [fcall EXCEPT !.long = NoLong]
               /\ UNCHANGED <<fout, ffile>>
          [] fcall.op = "open" /\ name = fcall.name ->
               /\ fdir' = after
               /\ IF found.kind = "dir"
                  THEN Return(LookResult("type", d)) /\ UNCHANGED ffile
                  ELSE /\ ffile' = [head |-> found.head, current |-> found.head, cursor |-> 0,
                                    size |-> found.size, lost |-> FALSE]
                       /\ Return(LookResult("ok", d))
          [] fcall.op = "opendir" /\ name = fcall.name ->
               /\ IF found.kind # "dir"
                  THEN fdir' = after /\ Return(LookResult("type", d))
                  ELSE /\ fdir' = IF found.head = 0 THEN NewDir(flay.rootCluster, TRUE)
                                  ELSE NewDir(found.head, FALSE)
                       /\ Return(LookResult("ok", d))
               /\ UNCHANGED ffile

\* One slot of iter_directory: fetch its block, then look at it.
IterateStep ==
    /\ Looking
    /\ IF InRootArea
       THEN /\ fdir.index \div PerBlock < flay.rootSectors
            /\ \E r \in BufferOutcomes(flay.dataBegin + (fdir.index \div PerBlock), 1) :
                 /\ databuf' = r.buf
                 /\ Fault(r.st)
                 /\ IF r.st = "ok" THEN AtSlot([fdir EXCEPT !.lost = @ \/ ~Holds(r.buf, 1)], r.buf)
                    ELSE Return(LookResult(r.st, fdir)) /\ UNCHANGED <<fdir, ffile>>
            /\ UNCHANGED fatbuf
       ELSE \E x \in IF fdir.index >= PerBlock THEN NextOutcomes(fdir.current)
                     ELSE {[st |-> "ok", c |-> fdir.current, buf |-> fatbuf]} :
            /\ x.st = "ok"
            /\ fatbuf' = x.buf
            /\ \E at \in {IF fdir.index >= PerBlock THEN 0 ELSE fdir.index},
                  r \in BufferOutcomes(fatcluster_to_sector(x.c), flay.spc) :
                 /\ databuf' = r.buf
                 /\ Fault(r.st)
                 /\ IF r.st = "ok"
                    THEN AtSlot([fdir EXCEPT !.index = at, !.current = x.c,
                                         !.lost = @ \/ ~Holds(r.buf, flay.spc)], r.buf)
                    ELSE /\ fdir' = [fdir EXCEPT !.index = at, !.lost = @ \/ x.c # fdir.current]
                         /\ Return(LookResult(r.st, fdir))
                         /\ UNCHANGED ffile
    /\ UNCHANGED <<fvol, flay>>

-----------------------------------------------------------------------------
FatInit ==
    /\ fvol = NoVolume /\ flay = NoVolume
    /\ fatbuf = [lba |-> NoLba, bytes |-> <<>>] /\ databuf = [lba |-> NoLba, bytes |-> <<>>]
    /\ ffile = NoFile /\ fdir = NoDir
    /\ fcall = Idle /\ fout = Idle
    /\ ffaults = 0

FatNext ==
    \/ FatMount \/ FatRefuse
    \/ FatRead \/ ReadByCluster \/ ReadDirect \/ ScanStep \/ ReadRun \/ ReadDone
    \/ FatSeek \/ SeekStep \/ FatClose
    \/ FatOpenRoot \/ FatCloseDir \/ FatIterate \/ FatOpen \/ FatOpenDirectory \/ FatRewind
    \/ IterateEnds \/ IterateStep

-----------------------------------------------------------------------------
(* What the volume holds, told from its chains and directories rather than   *)
(* from its sectors.                                                         *)

TrueSector(v, c) ==
    v.reserved + v.fatCount * v.fatSize + v.rootSectors + (c - 2) * v.spc

\* Byte i of the file or directory whose chain starts at head.
TrueByte(v, head, i) ==
    LET c == v.chains[head][(i \div (v.spc * SectorSize)) + 1]
        off == i % (v.spc * SectorSize)
    IN  <<TrueSector(v, c) + (off \div SectorSize), off % SectorSize>>

\* The live entries of the slots of a directory, with their names: the long
\* name is the fragments just before the entry, last one first.
Live(slots) ==
    LET stop == {i \in DOMAIN slots : slots[i].kind = "end"}
        alive == {i \in DOMAIN slots : slots[i].kind \in {"file", "dir"} /\ \A j \in stop : i < j}
        First(i) == CHOOSE j \in 1..i : /\ \A k \in j..(i - 1) : slots[k].kind = "lfn"
                                        /\ j = 1 \/ slots[j - 1].kind # "lfn"
        Name(i) == IF First(i) = i THEN <<slots[i].name>>
                   ELSE [k \in 1..(i - First(i)) |-> slots[i - k].name]
        Nth(n) == CHOOSE i \in alive : Cardinality({j \in alive : j <= i}) = n
    IN  [n \in 1..Cardinality(alive) |-> [name |-> Name(Nth(n)), entry |-> slots[Nth(n)]]]

LiveIn(d) == Live(fvol.dirs[IF InRootArea THEN 0 ELSE d.head])

\* read returns the bytes of the file from the cursor on, as many as were
\* asked for or are left, whichever of the two paths each cluster took and
\* whatever the buffers held before; the cluster remembered is the one of the
\* cursor.  Left out: a file whose position was lost because the FAT could not be read, and a
\* buffer half replaced by a failed read.
ReadsRight ==
    (ffile # NoFile) =>
       /\ (fout.op = "read" /\ fout.st = "ok" /\ fout.fair) =>
             fout.got = [i \in 1..Smaller(fout.asked, ffile.size - fout.at) |->
                            TrueByte(fvol, ffile.head, fout.at + i - 1)]
       /\ (fcall = Idle /\ ~ffile.lost /\ ffile.cursor < ffile.size) =>
             ffile.current = fvol.chains[ffile.head][(ffile.cursor \div flay.csize) + 1]

\* seek only fails when the FAT cannot be read, or when the target is the end
\* of a file that fills its last cluster: there is no cluster to stand on.
SeeksRight ==
    (ffile # NoFile /\ fout.op = "seek") =>
        CASE fout.st = "ok" -> fcall = Idle => ffile.cursor = fout.to
          [] fout.st = "end" -> fout.to = ffile.size /\ ffile.size % flay.csize = 0
          [] fout.st = "invalid" -> fout.to < 0
          [] OTHER -> ffaults > 0

\* A directory lists its live entries in order, each under its long name if it
\* has one, and ends after the last of them; opening a name finds the entry of
\* that name.  Left out besides the cases above: the entries of a FAT12 or
\* FAT16 root directory behind its first sector, which are read from the wrong
\* place of the buffer.
ListsRight ==
    (fdir # NoDir /\ fcall = Idle) =>
       /\ (fout.op = "iterate" /\ fout.fair) =>
             \E live \in {LiveIn(fdir)} :
                CASE fout.st = "ok" /\ ~fout.beyond ->
                       fdir.seen \in DOMAIN live
                       /\ [name |-> fout.name, entry |-> fout.entry] = live[fdir.seen]
                  [] fout.st = "end" -> fdir.seen = Len(live)
                  [] OTHER -> TRUE
       /\ (fout.op = "open" /\ fout.fair /\ fout.st = "ok" /\ ~InRootArea) =>
             \E x \in Range(LiveIn(fdir)) :
                x.name = fout.name /\ x.entry.head = ffile.head /\ x.entry.size = ffile.size

\* The FAT driver reads, seeks and lists what the volume holds, for the three
\* widths of its table.
FatExact ==
    fvol # NoVolume =>
       /\ flay.type = fvol.width
       /\ ReadsRight
       /\ SeeksRight
       /\ ListsRight
=============================================================================
