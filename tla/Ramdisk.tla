------------------------------ MODULE Ramdisk ------------------------------
(***************************************************************************)
(* The boot ramdisk from end to end: the loader writes a directory tree    *)
(* into an image (vellum/modules/load_folios/ramdisk.c) and the kernel     *)
(* finds files in it by path and lists it (strata/init/main.c).            *)
(*                                                                         *)
(* The image maps the offset of every record to the record; a file's data  *)
(* is one record.  The builder's recursion is a stack, one loop turn per   *)
(* step.  Every call of the file system and every allocation may fail.     *)
(***************************************************************************)
EXTENDS Integers, Sequences, SequencesExt, FiniteSets

CONSTANTS
    RdTrees,       \* the directory trees: sequences of directories, root first
    RdPaths,       \* the paths asked of the kernel, as sequences of names
    RdPage,        \* PAGE_SIZE
    RdFaultLimit   \* calls of the loader that may fail

VARIABLES
    rtree,    \* the tree the image is built from
    rb,       \* struct ramdisk_builder
    rstk,     \* the calls of append_ramdisk_directory, innermost first
    rhandles, \* the directories and files the builder holds open
    rret,     \* "building", "failing", and what Lf_BuildRamdisk returned
    rfound,   \* the kernel's last answer
    rapp,     \* g_system_manager_app_image: the path and the answer kept
    rcopies,  \* images materialised and not freed
    rfaults   \* calls that have failed

ramdiskVars == <<rtree, rb, rstk, rhandles, rret, rfound, rapp, rcopies, rfaults>>

RdDirent == 16     \* sizeof(struct StLoad_RamdiskDirEntry)
RdHeader == 4      \* sizeof(struct StLoad_RamdiskHeader)
RdNameMax == 255   \* UINT8_MAX
NoTree == <<>>
NoAnswer == [path |-> <<>>, status |-> "none"]
RdRound(n) == 4 * ((n + 3) \div 4)

RdFault == rfaults < RdFaultLimit /\ rfaults' = rfaults + 1

-----------------------------------------------------------------------------
(* The builder. *)

\* The capacity after doubling until it holds n bytes.
RdCapacity(cap, n) ==
    LET start == IF cap = 0 THEN RdPage ELSE cap
    IN  start * 2 ^ (CHOOSE k \in 0..n : /\ start * 2 ^ k >= n
                                        /\ (k > 0 => start * 2 ^ (k - 1) < n))

\* The builder after n more bytes, zeroed; their offset is the old size.
ramdisk_reserve(b, n) ==
    LET size == RdRound(b.size + n)
    IN  [b EXCEPT !.size = size,
                  !.capacity = IF size > @ THEN RdCapacity(@, size) ELSE @]

RdWrite(b, offset, record) ==
    [b EXCEPT !.data = [o \in DOMAIN @ \cup {offset} |->
                          IF o = offset THEN record ELSE @[o]]]

\* rdent as it is written when its directory is scanned, and the end mark.
RdEntry(e, size) == [type |-> e.kind, name |-> e.name, entrySize |-> size,
                     fileSize |-> 0, at |-> 0]
RdEnd == [type |-> "end", name |-> "", entrySize |-> RdDirent, fileSize |-> 0, at |-> 0]

\* A call of append_ramdisk_directory that has reserved its offset.
RdCall(dir, offset) == [dir |-> dir, at |-> offset, phase |-> "scan", pos |-> 1,
                        entries |-> <<>>]
RdHandle(dir, i) == <<rtree[dir][i].kind, dir, i>>
RdTop == Head(rstk)
RdListed == rtree[RdTop.dir]
RdBuilding == rret = "building"

\* Lf_BuildRamdisk up to the call for the root: room for the header, then the
\* directory the path names, which stays open during the build.
RamdiskBuild(tree) ==
    /\ rret = "idle"
    /\ rtree' = tree
    /\ rb' = ramdisk_reserve(rb, RdHeader)
    /\ \/ /\ rstk' = <<RdCall(1, rb'.size)>>
          /\ rhandles' = {<<"dir", 0, 1>>}
          /\ rret' = "building"
          /\ UNCHANGED rfaults
       \/ /\ RdFault
          /\ rret' = "failing"
          /\ UNCHANGED <<rstk, rhandles>>
    /\ UNCHANGED <<rfound, rapp, rcopies>>

\* One turn of the loop over a directory: "." and ".." are skipped, a name that
\* does not fit ends the build, any other entry is opened as a directory and
\* then as a file, and gets its record.
ScanEntry ==
    /\ RdBuilding /\ rstk # <<>> /\ RdTop.phase = "scan"
    /\ RdTop.pos <= Len(RdListed)
    /\ LET e == RdListed[RdTop.pos]
           size == RdRound(RdDirent + e.len)
       IN  IF e.kind = "dot"
           THEN /\ rstk' = [rstk EXCEPT ![1].pos = @ + 1]
                /\ UNCHANGED <<rb, rhandles, rret>>
           ELSE IF e.len > RdNameMax
           THEN rret' = "failing" /\ UNCHANGED <<rb, rstk, rhandles>>
           ELSE /\ rhandles' = rhandles \cup {RdHandle(RdTop.dir, RdTop.pos)}
                /\ rb' = RdWrite(ramdisk_reserve(rb, size), rb.size, RdEntry(e, size))
                /\ rstk' = [rstk EXCEPT ![1].pos = @ + 1,
                                        ![1].entries = Append(@, [pos |-> RdTop.pos,
                                                                  offset |-> rb.size])]
                /\ UNCHANGED rret
    /\ UNCHANGED <<rtree, rfound, rapp, rcopies, rfaults>>

\* The directory is exhausted: its end mark.
ScanEnd ==
    /\ RdBuilding /\ rstk # <<>> /\ RdTop.phase = "scan"
    /\ RdTop.pos > Len(RdListed)
    /\ rb' = RdWrite(ramdisk_reserve(rb, RdDirent), rb.size, RdEnd)
    /\ rstk' = [rstk EXCEPT ![1].phase = "fill", ![1].pos = 1]
    /\ UNCHANGED <<rtree, rhandles, rret, rfound, rapp, rcopies, rfaults>>

\* append_ramdisk_file for the next entry, and its record completed.
FillFile ==
    /\ RdBuilding /\ rstk # <<>> /\ RdTop.phase = "fill"
    /\ RdTop.pos <= Len(RdTop.entries)
    /\ LET it == RdTop.entries[RdTop.pos]
           e == RdListed[it.pos]
           filled == RdWrite(ramdisk_reserve(rb, e.size), rb.size, [type |-> "data", of |-> e.data])
       IN  /\ e.kind = "file"
           /\ rb' = RdWrite(IF e.size = 0 THEN ramdisk_reserve(rb, 0) ELSE filled, it.offset,
                            [rb.data[it.offset] EXCEPT !.fileSize = e.size, !.at = rb.size])
    /\ rstk' = [rstk EXCEPT ![1].pos = @ + 1]
    /\ UNCHANGED <<rtree, rhandles, rret, rfound, rapp, rcopies, rfaults>>

\* The recursive call for a directory entry.
FillDirectory ==
    /\ RdBuilding /\ rstk # <<>> /\ RdTop.phase = "fill"
    /\ RdTop.pos <= Len(RdTop.entries)
    /\ LET e == RdListed[RdTop.entries[RdTop.pos].pos]
       IN  e.kind = "dir" /\ rstk' = <<RdCall(e.sub, rb.size)>> \o rstk
    /\ rb' = ramdisk_reserve(rb, 0)
    /\ UNCHANGED <<rtree, rhandles, rret, rfound, rapp, rcopies, rfaults>>

\* close_ramdisk_build_entries of a call.
RdClosed(call) == rhandles \ {RdHandle(call.dir, call.entries[k].pos) : k \in DOMAIN call.entries}

\* A mutant: the record of a directory gets the offset behind it.
FillReturn_Late ==
    /\ RdBuilding /\ rstk # <<>> /\ RdTop.phase = "fill"
    /\ RdTop.pos > Len(RdTop.entries)
    /\ rhandles' = RdClosed(RdTop)
    /\ LET up == rstk[2]
           offset == up.entries[up.pos].offset
       IN  IF Len(rstk) = 1
           THEN /\ rb' = RdWrite(rb, 0, [type |-> "header", at |-> RdTop.at])
                /\ rstk' = <<>>
           ELSE /\ rb' = RdWrite(rb, offset, [rb.data[offset] EXCEPT !.at = rb.size])
                /\ rstk' = [Tail(rstk) EXCEPT ![1].pos = @ + 1]
    /\ UNCHANGED <<rtree, rret, rfound, rapp, rcopies, rfaults>>

\* The call returns: its entries are closed, the caller completes its record
\* or, from the root's call, the header gets the offset of the root.
FillReturn ==
    /\ RdBuilding /\ rstk # <<>> /\ RdTop.phase = "fill"
    /\ RdTop.pos > Len(RdTop.entries)
    /\ rhandles' = RdClosed(RdTop)
    /\ LET up == rstk[2]
           offset == up.entries[up.pos].offset
       IN  IF Len(rstk) = 1
           THEN /\ rb' = RdWrite(rb, 0, [type |-> "header", at |-> RdTop.at])
                /\ rstk' = <<>>
           ELSE /\ rb' = RdWrite(rb, offset, [rb.data[offset] EXCEPT !.at = RdTop.at])
                /\ rstk' = [Tail(rstk) EXCEPT ![1].pos = @ + 1]
    /\ UNCHANGED <<rtree, rret, rfound, rapp, rcopies, rfaults>>

\* A failing turn: the iteration, calloc, open, realloc, seek or read; what the
\* turn has opened itself it closes before it leaves the loop.
RamdiskFault ==
    /\ RdBuilding /\ rstk # <<>>
    /\ RdFault
    /\ rret' = "failing"
    /\ UNCHANGED <<rtree, rb, rstk, rhandles, rfound, rapp, rcopies>>

\* has_error: every call closes its entries and returns the error.
Unwind ==
    /\ rret = "failing" /\ rstk # <<>>
    /\ rhandles' = RdClosed(RdTop)
    /\ rstk' = Tail(rstk)
    /\ UNCHANGED <<rtree, rb, rret, rfound, rapp, rcopies, rfaults>>

\* The end of Lf_BuildRamdisk: the image moves to pages of its own, which may
\* fail; both ways the root directory is closed and the builder freed.
RamdiskReturn ==
    /\ rret \in {"building", "failing"} /\ rstk = <<>>
    /\ rhandles' = rhandles \ {<<"dir", 0, 1>>}
    /\ \/ /\ rret = "building"
          /\ rret' = "built"
          /\ UNCHANGED rfaults
       \/ /\ rret = "building" /\ RdFault
          /\ rret' = "failed"
       \/ /\ rret = "failing"
          /\ rret' = "failed"
          /\ UNCHANGED rfaults
    /\ UNCHANGED <<rtree, rb, rstk, rfound, rapp, rcopies>>

-----------------------------------------------------------------------------
(* The kernel. *)

\* ramdisk_validate_dirent: whether a record of the image starts at offset o.
ramdisk_validate_dirent(o) ==
    /\ o <= rb.size /\ rb.size - o >= RdDirent
    /\ o \in DOMAIN rb.data
    /\ rb.data[o].type \in {"end", "dir", "file"}
    /\ rb.data[o].entrySize >= RdDirent /\ rb.data[o].entrySize <= rb.size - o

RdInside(e) == e.at <= rb.size /\ e.fileSize <= rb.size - e.at

\* The record of a name in the directory at an offset, or the error.
ramdisk_find_child_in_dir(dir, name) ==
    LET find[o \in 0..rb.size] ==
            IF ~ramdisk_validate_dirent(o) THEN [status |-> "INVALID_FORMAT"]
            ELSE LET e == rb.data[o]
                 IN  CASE e.type = "end" -> [status |-> "ENTRY_NOT_FOUND"]
                       [] e.type # "end" /\ ~RdInside(e) -> [status |-> "INVALID_FORMAT"]
                       [] e.type # "end" /\ RdInside(e) /\ e.name = name ->
                            [status |-> "SUCCESS", entry |-> e]
                       [] OTHER -> find[o + e.entrySize]
    IN  IF dir >= rb.size THEN [status |-> "INVALID_FORMAT"] ELSE find[dir]

\* The walk from the root along a path.  An answer is the offset and the size.
ramdisk_find_file_by_path(path) ==
    LET walk[i \in 1..Len(path) + 1, dir \in 0..rb.size] ==
            IF i > Len(path) \/ path[i] \in {".", ".."} THEN [status |-> "INVALID_VALUE"]
            ELSE LET child == ramdisk_find_child_in_dir(dir, path[i])
                 IN  IF child.status # "SUCCESS" THEN child
                     ELSE IF i = Len(path)
                          THEN IF child.entry.type # "file" THEN [status |-> "INVALID_FORMAT"]
                               ELSE [status |-> "SUCCESS", at |-> child.entry.at,
                                     size |-> child.entry.fileSize]
                          ELSE IF child.entry.type # "dir" THEN [status |-> "INVALID_FORMAT"]
                               ELSE walk[i + 1, child.entry.at]
    IN  walk[1, rb.data[0].at]

\* The listing of the image: depth and name of every record, in order.
dump_ramdisk_dir(root) ==
    LET dump[o \in 0..rb.size, depth \in 0..Len(rtree)] ==
            IF ~ramdisk_validate_dirent(o) THEN <<"INVALID_FORMAT">>
            ELSE LET e == rb.data[o]
                     line == <<<<depth, e.type, e.name, e.fileSize>>>>
                 IN  CASE e.type = "end" -> <<>>
                       [] e.type = "file" ->
                            IF RdInside(e) THEN line \o dump[o + e.entrySize, depth]
                            ELSE <<"INVALID_FORMAT">>
                       [] e.type = "dir" ->
                            line \o dump[e.at, depth + 1] \o dump[o + e.entrySize, depth]
    IN  IF root >= rb.size THEN <<"INVALID_FORMAT">> ELSE dump[root, 0]

\* open_system_manager_from_ramdisk: the file found once is kept and opened
\* again; otherwise the image is materialised, searched, and freed again when
\* there is no such file or it is not an ELF image.
RamdiskOpen(path) ==
    /\ rret = "built"
    /\ IF rapp # NoAnswer
       THEN rfound' = rapp /\ UNCHANGED <<rapp, rcopies, rfaults>>
       ELSE \/ /\ rfound' = [path |-> path] @@ ramdisk_find_file_by_path(path)
               /\ IF rfound'.status = "SUCCESS"
                  THEN rapp' = rfound' /\ rcopies' = rcopies + 1
                  ELSE UNCHANGED <<rapp, rcopies>>
               /\ UNCHANGED rfaults
            \/ /\ RdFault
               /\ rfound' = [path |-> path, status |-> "INSUFFICIENT_SPACE"]
               /\ UNCHANGED <<rapp, rcopies>>
    /\ UNCHANGED <<rtree, rb, rstk, rhandles, rret>>

\* dump_boot_ramdisk: a copy of the image is listed and freed.
RamdiskDump ==
    /\ rret = "built"
    /\ rfound' = [path |-> <<>>, status |-> "LISTED", lines |-> dump_ramdisk_dir(rb.data[0].at)]
    /\ UNCHANGED <<rtree, rb, rstk, rhandles, rret, rapp, rcopies, rfaults>>

-----------------------------------------------------------------------------
RamdiskInit ==
    /\ rtree = NoTree
    /\ rb = [size |-> 0, capacity |-> 0, data |-> <<>>]
    /\ rstk = <<>> /\ rhandles = {} /\ rret = "idle"
    /\ rfound = NoAnswer /\ rapp = NoAnswer /\ rcopies = 0 /\ rfaults = 0

RamdiskNext ==
    \/ \E tree \in RdTrees : RamdiskBuild(tree)
    \/ ScanEntry \/ ScanEnd
    \/ FillFile \/ FillDirectory \/ FillReturn
    \/ RamdiskFault \/ Unwind \/ RamdiskReturn
    \/ \E path \in RdPaths : RamdiskOpen(path)
    \/ RamdiskDump

-----------------------------------------------------------------------------
(* What the image must be. *)

\* The entry a path names in the source tree, as a set of at most one.
RdNamed(path) ==
    LET walk[i \in 1..Len(path), d \in DOMAIN rtree] ==
            LET here == {e \in Range(rtree[d]) : e.kind # "dot" /\ e.name = path[i]}
            IN  IF i = Len(path) THEN here
                ELSE UNION {walk[i + 1, e.sub] : e \in {x \in here : x.kind = "dir"}}
    IN  IF path = <<>> THEN {} ELSE walk[1, 1]

\* The lines of the tree itself.
RdLines ==
    LET list[d \in DOMAIN rtree, depth \in 0..Len(rtree)] ==
            FlattenSeq([i \in DOMAIN rtree[d] |->
                LET e == rtree[d][i]
                IN  IF e.kind = "dot" THEN <<>>
                    ELSE <<<<depth, e.kind, e.name, e.size>>>>
                         \o (IF e.kind = "dir" THEN list[e.sub, depth + 1] ELSE <<>>)])
    IN  list[1, 0]

\* The kernel reads back the tree the loader was given: a path is found exactly
\* when it names a file, with that file's size and data behind its offset, and
\* the listing is the tree in order (ramdisk_find_file_by_path, dump_ramdisk_dir
\* against append_ramdisk_directory, whose records are completed only after the
\* buffer has moved); records never overlap; whichever call fails, the builder
\* leaves no directory or file open, and the kernel keeps one copy of the image
\* exactly when it keeps a file of it.
RamdiskExact ==
    /\ rfound.status = "SUCCESS" =>
         /\ rfound.path # <<>>
         /\ \E e \in RdNamed(rfound.path) :
              /\ e.kind = "file" /\ rfound.size = e.size
              /\ e.size > 0 => rb.data[rfound.at] = [type |-> "data", of |-> e.data]
    /\ rfound.status \in {"ENTRY_NOT_FOUND", "INVALID_VALUE", "INVALID_FORMAT"} =>
         ~\E e \in RdNamed(rfound.path) : e.kind = "file"
    /\ rfound.status = "LISTED" => rfound.lines = RdLines
    /\ rb.size <= rb.capacity
    /\ rret \in {"built", "failed"} => rhandles = {}
    /\ rcopies = IF rapp = NoAnswer THEN 0 ELSE 1
    /\ \A o, p \in DOMAIN rb.data :
         (o < p /\ rb.data[o].type \in {"dir", "file", "end"}) => o + rb.data[o].entrySize <= p
=============================================================================
