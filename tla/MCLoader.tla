------------------------------- MODULE MCLoader -------------------------------
(* The parts of the loader and the libraries it uses, in one run: `part'      *)
(* says which of them the behaviour is about, the others rest in their        *)
(* initial state.                                                             *)
EXTENDS Fat, Ramdisk, Handover, Display, Volumes, Heap, Modules, Config, Shell,
        TLC

VARIABLE part

parts == <<fatVars, ramdiskVars, handoverVars, displayVars, volumesVars, heapVars,
           modulesVars, configVars, shellVars>>

-------------------------------------------------------------------------------
\* FAT: a FAT12, a FAT16 and a FAT32 volume at the limits of their cluster
\* counts, with fragmented and consecutive files, files that fill their last
\* cluster, directories of two clusters and long names; and disks that are refused.
FileSlot(name, head, size) == [kind |-> "file", name |-> name, head |-> head, size |-> size]
DirSlot(name, head) == [kind |-> "dir", name |-> name, head |-> head, size |-> 0]
LongSlot(frag, seq, last) == [kind |-> "lfn", name |-> frag, seq |-> seq, last |-> last]
OtherSlot(kind) == [kind |-> kind, name |-> "x"]
EndOfChain(w) == CASE w = 12 -> 4095 [] w = 16 -> 65535 [] w = 32 -> 268435455
FatVol(w, spc, clusters, rootEntries, chains, dirs) ==
    LET rs == (rootEntries * EntrySize + SectorSize - 1) \div SectorSize
        base == 19 + rs
        used == UNION {Range(chains[h]) : h \in DOMAIN chains}
        After(c) ==
            LET h == CHOOSE h \in DOMAIN chains : c \in Range(chains[h])
                i == CHOOSE i \in DOMAIN chains[h] : chains[h][i] = c
            IN  IF i = Len(chains[h]) THEN EndOfChain(w) ELSE chains[h][i + 1]
        per == spc * SectorSize
        Place(h, o) ==
            IF h = 0 THEN <<19 + (o \div SectorSize), o % SectorSize>>
            ELSE LET c == chains[h][(o \div per) + 1]
                 IN  <<base + (c - 2) * spc + ((o % per) \div SectorSize), o % SectorSize>>
        spots == UNION {{<<h, i>> : i \in DOMAIN dirs[h]} : h \in DOMAIN dirs}
        PlaceOf(p) == Place(p[1], (p[2] - 1) * EntrySize)
    IN  [width |-> w, spc |-> spc, reserved |-> 1, fatCount |-> 2, fatSize |-> 9,
         total |-> base + clusters * spc, rootEntries |-> rootEntries, rootSectors |-> rs,
         rootCluster |-> 2, resv |-> 5, blockSize |-> SectorSize, signed |-> TRUE,
         fsinfo |-> TRUE, chains |-> chains, dirs |-> dirs,
         fat |-> [c \in used \cup {0, 1} |-> IF c = 0 THEN EndOfChain(w) - 7
                                             ELSE IF c = 1 THEN EndOfChain(w) ELSE After(c)],
         slots |-> [b \in {PlaceOf(p) : p \in spots} |->
                      LET p == CHOOSE p \in spots : PlaceOf(p) = b IN dirs[p[1]][p[2]]],
         names |-> {<<"A">>, <<"L1", "L2">>, <<"D">>}]
MCFatVolumes ==
    LET blank == FatVol(12, 1, 100, 2, <<>>, <<>>)
    IN  {FatVol(12, 1, 4084, 4, 2 :> <<2, 3, 5>> @@ 6 :> <<6, 4>>,
            0 :> <<OtherSlot("volume"), FileSlot("A", 2, 11), DirSlot("D", 6), FileSlot("E", 0, 0)>>
            @@ 6 :> <<DirSlot(".", 6), DirSlot("..", 0), FileSlot("A", 2, 11)>>),
         FatVol(16, 2, 4085, 2, 2 :> <<2, 3, 4>> @@ 7 :> <<7, 6>>,
            0 :> <<DirSlot("D", 7)>> @@
            7 :> <<LongSlot("L2", 2, TRUE), LongSlot("L1", 1, FALSE), FileSlot("LL", 2, 24),
                   OtherSlot("deleted"), FileSlot("A", 2, 20)>>),
         FatVol(32, 1, 65525, 0, 2 :> <<2, 8>> @@ 3 :> <<3, 4, 6>> @@ 9 :> <<9>>,
            2 :> <<LongSlot("L1", 1, TRUE), DirSlot("A", 9), DirSlot("D", 9)>>
            @@ 9 :> <<FileSlot("A", 3, 12)>>),
         [blank EXCEPT !.signed = FALSE], [blank EXCEPT !.blockSize = 2048],
         [FatVol(32, 1, 65525, 0, <<>>, <<>>) EXCEPT !.fsinfo = FALSE]}
MCSeekTargets == {[origin |-> "set", offset |-> 5], [origin |-> "cur", offset |-> -3],
                  [origin |-> "end", offset |-> 0]}

-------------------------------------------------------------------------------
\* Ramdisk: nested and empty directories, empty files, names at the limit.
RdFile(name, len, size, data) == [kind |-> "file", name |-> name, len |-> len, size |-> size, data |-> data, sub |-> 0]
RdDir(name, len, sub) == [kind |-> "dir", name |-> name, len |-> len, size |-> 0, data |-> "none", sub |-> sub]
RdDot == [kind |-> "dot", name |-> ".", len |-> 1, size |-> 0, data |-> "none", sub |-> 0]
MCRdTrees ==
    {<< <<RdFile("a", 1, 5, "A"), RdDir("d", 3, 2), RdFile("e", 4, 0, "E"), RdDir("f", 9, 3)>>,
        <<RdDot, RdDot, RdFile("a", 1, 130, "DA"), RdDir("d", 2, 4)>>,
        <<RdDot>>,
        <<RdDot, RdFile("e", 4, 8, "DDE")>> >>,
     << <<>> >>,
     << <<RdFile("a", 1, 3, "A"), RdFile("long", 256, 1, "L")>> >>,
     << <<RdFile("a", 1, 4, "A"), RdFile("b", 255, 9, "B"), RdFile("e", 2, 0, "E")>> >> }
MCRdPaths == {<<"a">>, <<"d", "a">>, <<"d", "d", "e">>, <<"e">>, <<"d">>, <<"a", "e">>, <<"x">>,
              <<"f", "a">>, <<"d", "..", "a">>, <<>>}

-------------------------------------------------------------------------------
HdArea(base, size, free) == [base |-> base, size |-> size, free |-> free]
HdWord(w, len, value) == [word |-> w, len |-> len, value |-> value]
\* Handover: a memory map with an area inside the free one, and one with little
\* memory; kernels with and without something to load.
MCHdMaps == {<<HdArea(0, 700, TRUE), HdArea(700, 324, FALSE), HdArea(1024, 3712, TRUE), HdArea(1900, 200, FALSE)>>,
             <<HdArea(1024, 1600, TRUE), HdArea(0, 640, TRUE)>>}
MCHdKernels == {<<[paddr |-> 12288, memsz |-> 100], [paddr |-> 12500, memsz |-> 130]>>,
                <<[paddr |-> 12288, memsz |-> 0]>>}
MCHdArgvs == {<<HdWord("-ramdisk=", 12, "rd"), HdWord("-v", 2, "-v"), HdWord("-sysman", 7, "x"), HdWord("word", 60, "/app")>>,
              <<HdWord("-v", 2, "-v")>>,
              <<HdWord("-ramdisk", 8, "x"), HdWord("-ramdisk", 8, "x"), HdWord("-sysman=", 12, "/sys")>>,
              <<HdWord("-ramdisk", 8, "x"), HdWord("word", 4, "rd"), HdWord("-sysman", 7, "-sysman")>>}

-------------------------------------------------------------------------------
\* Display: cards without VBE, with it, and with one that lists the text modes.
DspMode(mode, model, w, h, bpp) == [mode |-> mode, model |-> model, w |-> w, h |-> h, bpp |-> bpp]
MCDspVgaCols == (\h00 :> 4) @@ (\h03 :> 12)
MCDspMachines ==
    {[vbe |-> FALSE, font |-> FALSE, list |-> <<>>, answers |-> FALSE],
     [vbe |-> TRUE, font |-> FALSE, answers |-> FALSE, list |-> <<>>],
     [vbe |-> TRUE, font |-> TRUE, answers |-> TRUE, list |->
        <<DspMode(\h101, "packed", 32, 32, 8), DspMode(\h112, "direct", 32, 32, 24),
          DspMode(\h108, "text", 12, 2, 0)>>],
     [vbe |-> TRUE, font |-> FALSE, answers |-> FALSE, list |->
        <<DspMode(\h03, "text", 12, 2, 0), DspMode(\h115, "direct", 32, 32, 32)>>]}
\* Characters of one to four bytes, of no, one and two columns.
DspChars == {97, \h4E2D, 10}
DspCsi(s) == <<27, 91>> \o s
DspItems ==
    {<<\h200B>>, <<\h1F600>>, <<127>>, <<7>>, <<8>>, <<9>>, <<11>>, <<13>>, <<27, 78, 97>>, <<27, 99>>,
     DspCsi(<<65>>), DspCsi(<<66>>), DspCsi(<<67>>), DspCsi(<<50, 68>>), DspCsi(<<69>>),
     DspCsi(<<70>>), DspCsi(<<50, 71>>), DspCsi(<<50, 59, 51, 72>>), DspCsi(<<63, 50, 53, 108>>),
     DspCsi(<<63, 50, 53, 104>>), DspCsi(<<74>>), DspCsi(<<49, 74>>), DspCsi(<<50, 74>>), DspCsi(<<75>>),
     DspCsi(<<49, 75>>), DspCsi(<<50, 75>>), DspCsi(<<83>>), DspCsi(<<84>>), DspCsi(<<109>>),
     DspCsi(<<55, 109>>), DspCsi(<<51, 49, 109>>), DspCsi(<<57, 52, 109>>), DspCsi(<<52, 50, 109>>),
     DspCsi(<<51, 56, 59, 53, 59, 57, 57, 109>>), DspCsi(<<52, 56, 59, 50, 59, 49, 59, 50, 59, 51, 109>>),
     DspCsi(<<115>>) \o <<97>> \o DspCsi(<<117>>), DspCsi(<<110>>), DspCsi(<<49, 48, 52, 109>>)}
DspLong ==
    UNION {[1..n -> DspChars] : n \in 1..2} \cup
    {<<97, \h4E2D, \h4E2D>>, <<97, 97, 97, \h4E2D>>, <<10, 10, 233, 98>>} \cup
    {[i \in 1..n |-> 97 + i] : n \in {4, 9, 12}} \cup
    {<<97, 10, \h4E2D>> \o item \o <<98>> : item \in DspItems}
MCDspTexts == (0 :> {<<97>>}) @@ (1 :> DspLong)

-------------------------------------------------------------------------------
VolEntry(type, base, count) == [type |-> type, base |-> base, count |-> count]
VolTable(es) == [PlainBlock EXCEPT !.sig = TRUE, !.entries = [k \in 1 .. 4 |-> IF k \in DOMAIN es THEN es[k] ELSE NoEntry], !.id = 100]
VolFat(id) == [PlainBlock EXCEPT !.sig = TRUE, !.fs = "fat12", !.id = id]
VolFat32(id) == [PlainBlock EXCEPT !.sig = TRUE, !.fs = "fat32", !.at = 1, !.id = id]
VolInfo == [PlainBlock EXCEPT !.fs = "fsinfo"]
VolFoli(id) == [PlainBlock EXCEPT !.sig = TRUE, !.fs = "folifs", !.at = 1, !.id = id]
VolRdb == [PlainBlock EXCEPT !.count = 2]
VolHead(count, at) == [PlainBlock EXCEPT !.efi = TRUE, !.count = count, !.list = 2, !.at = at]
VolGuids(gs) == [PlainBlock EXCEPT !.guids = gs]
VolGuid(base, limit) == [base |-> base, limit |-> limit]

VolDisk(edd, size, blocks, bad) ==
  [edd |-> edd, chs |-> TRUE, heads |-> 2, spt |-> 3, bps |-> 512, size |-> size, total |-> size,
   removable |-> FALSE, atapi |-> FALSE, bad |-> bad, blocks |-> blocks]

\* Three primary partitions, one of them extended with two logical ones.
VolMbr(edd, bad) ==
  VolDisk(edd, 60,
    0 :> VolTable(<<VolEntry("fat", 2, 6), VolEntry("extended", 10, 30), VolEntry("foli", 42, 8)>>)
    @@ 2 :> VolFat32(1) @@ 3 :> VolInfo
    @@ 10 :> VolTable(<<VolEntry("fat", 1, 4), VolEntry("extended", 8, 8)>>)
    @@ 18 :> VolTable(<<VolEntry("fat", 1, 4)>>) @@ 19 :> VolFat(3)
    @@ 42 :> VolFoli(2) @@ 43 :> VolRdb, bad)

\* Three GPT partitions, two entries to a sector.
VolGpt(bad) ==
  VolDisk("packet", 40,
    0 :> VolTable(<<VolEntry("gpt", 1, 39)>>) @@ 1 :> VolHead(4, 2)
    @@ 2 :> VolGuids(<<VolGuid(6, 9), VolGuid(10, 17)>>) @@ 3 :> VolGuids(<<VolGuid(20, 29)>>)
    @@ 10 :> VolFat(5), bad)

\* A disk without partitions and a disc.
VolFloppy == VolDisk("none", 12, 0 :> VolFat(6), {})
VolDisc == [VolDisk("packet", 24, 16 :> [PlainBlock EXCEPT !.fs = "secondary"]
                                  @@ 17 :> [PlainBlock EXCEPT !.fs = "primary", !.list = 20]
                                  @@ 18 :> [PlainBlock EXCEPT !.fs = "terminator"], {})
            EXCEPT !.bps = 2048, !.chs = FALSE, !.atapi = TRUE]

VolMachine(boot, at, drives, com) ==
  [boot |-> boot, part |-> at, drives |-> drives, bda |-> 1, int13 |-> 2, floppies |-> 1,
   com |-> com, lpt |-> <<0, 1, 0>>]

MCVolMachines ==
  LET mixed(e, bad) == VolMachine(128, 2, 128 :> VolMbr(e, bad) @@ 129 :> VolGpt({}), <<1, 0, 1, 0>>)
      gpt(bad) == VolMachine(129, 10, 128 :> VolMbr("noparams", {44}) @@ 129 :> VolGpt(bad) @@ 224 :> VolDisc, <<0, 0, 0, 0>>)
  IN <<mixed("packet", {}), mixed("none", {}), mixed("packet", {18}), mixed("none", {43}),
       gpt({}), gpt({3}), gpt({10}),
       VolMachine(0, 0, 0 :> VolFloppy @@ 128 :> VolMbr("packet", {5}), <<0, 0, 0, 0>>)>>

-------------------------------------------------------------------------------
MdS(name) == [name |-> name, at |-> 0, size |-> 0, rels |-> <<>>]
MdR(name, rels) == [name |-> name, at |-> 0, size |-> 0, rels |-> rels]
MdA(name, at, size) == [name |-> name, at |-> at, size |-> size, rels |-> <<>>]
MdY(name, value) == [name |-> name, here |-> TRUE, value |-> value]
MdU(name) == [name |-> name, here |-> FALSE, value |-> 0]
MdName == [key |-> "name", type |-> 1]

\* A module as the linker leaves it: 1 calls f, 2 reads through the table's
\* slot 7, 3 calls an exported function, 4 is the array of constructors, 5 the
\* one of destructors, 6 the table, 9 and 10 have no words in the file.  The
\* symbols of .rel.dyn are numbers of another symbol table.
MdGood ==
  [class |-> 32, dyn |-> TRUE, entry |-> 2, accepts |-> TRUE, ctors |-> <<8>>,
   segs |-> <<[load |-> TRUE, vaddr |-> 0, filesz |-> 4, memsz |-> 4], [load |-> FALSE, vaddr |-> 90, filesz |-> 1, memsz |-> 1],
              [load |-> TRUE, vaddr |-> 4, filesz |-> 5, memsz |-> 7], [load |-> TRUE, vaddr |-> 6, filesz |-> 2, memsz |-> 2]>>,
   data |-> [a \in 0 .. 8 |-> CASE a = 1 -> 7 [] a = 2 -> 1 [] a = 3 -> 0 [] a = 4 -> 8 [] a = 5 -> 0 [] OTHER -> 0],
   syms |-> <<MdU(""), MdY(".text", 0), MdY("f", 8), MdU("puts"), MdY("_GLOBAL_OFFSET_TABLE_", 6)>>,
   secs |-> <<MdS(""), MdR(".rel.dyn", <<[type |-> "RELATIVE", sym |-> 0, at |-> 4], [type |-> "RELATIVE", sym |-> 0, at |-> 5],
                                         [type |-> "GLOB_DAT", sym |-> 1, at |-> 7]>>),
              MdR(".rel.text", <<[type |-> "PC32", sym |-> 2, at |-> 1], [type |-> "GOT32", sym |-> 3, at |-> 2],
                                 [type |-> "PC32", sym |-> 3, at |-> 3]>>),
              MdA(".init_array", 4, 1), MdA(".fini_array", 5, 1), MdS(".note.vellum"), MdS(".strtab"), MdS(".symtab")>>,
   notes |-> <<[key |-> "version", type |-> 2], MdName>>,
   refs |-> {[at |-> 1, kind |-> "call", to |-> "f"], [at |-> 7, kind |-> "pointer", to |-> "puts"],
             [at |-> 3, kind |-> "call", to |-> "puts"], [at |-> 4, kind |-> "pointer", to |-> "f"]}]

\* A small one without relocations of code and without an entry point.
MdPlain ==
  [class |-> 32, dyn |-> TRUE, entry |-> 0, accepts |-> TRUE, ctors |-> <<>>,
   segs |-> <<[load |-> TRUE, vaddr |-> 0, filesz |-> 2, memsz |-> 3]>>, data |-> [a \in 0 .. 1 |-> a],
   syms |-> <<MdU(""), MdY("_GLOBAL_OFFSET_TABLE_", 1), MdY("d", 2), MdU("puts")>>,
   secs |-> <<MdS(".strtab"), MdS(".symtab"), MdR(".rel.dyn", <<[type |-> "32", sym |-> 2, at |-> 0]>>), MdA(".init_array", 0, 0),
              MdR(".rel.got", <<[type |-> "JMP_SLOT", sym |-> 3, at |-> 2]>>), MdS(".note.vellum")>>,
   notes |-> <<MdName>>, refs |-> {[at |-> 0, kind |-> "pointer", to |-> "d"], [at |-> 2, kind |-> "pointer", to |-> "puts"]}]

MdDrop(f, name) == [f EXCEPT !.secs = SelectSeq(@, LAMBDA s : s.name # name)]
MdRel(f, r) == [f EXCEPT !.secs = Append(@, MdR(".rel.text", <<r>>))]
MdRl(type, sym) == [type |-> type, sym |-> sym, at |-> 1]

MdAll ==
  [good |-> MdGood, plain |-> MdPlain, rejects |-> [MdGood EXCEPT !.accepts = FALSE],
   script |-> [MdPlain EXCEPT !.class = 0], program |-> [MdPlain EXCEPT !.dyn = FALSE], wide |-> [MdPlain EXCEPT !.class = 64],
   stripped |-> MdDrop(MdPlain, ".symtab"), bare |-> MdDrop(MdPlain, ".note.vellum"), plainC |-> MdDrop(MdGood, ".init_array"),
   nogot |-> [MdPlain EXCEPT !.syms = <<MdU("")>>], unnamed |-> [MdPlain EXCEPT !.notes = <<[key |-> "version", type |-> 1]>>],
   typed |-> [MdPlain EXCEPT !.notes = <<[key |-> "na", type |-> 2]>>],
   none |-> MdRel(MdPlain, MdRl("NONE", 0)), past |-> MdRel(MdPlain, MdRl("32", 9)), tls |-> MdRel(MdPlain, MdRl("TLS", 1)),
   gotoff |-> MdRel(MdPlain, MdRl("GOTOFF", 3)), gotpc |-> MdRel(MdPlain, MdRl("GOTPC", 3))]

MdSyms == [puts |-> 900]
MdFails == [n \in DOMAIN MdAll |-> {"none"} \cup (IF n = "good" THEN {"fopen", "tables", "pages", "rel", "note", "mod", "name"} ELSE {})]

-------------------------------------------------------------------------------
\* Texts and values, built together the way the repository's files are written.
CfQuoted(s) == <<Quote>> \o s \o <<Quote>>
CfS(s) == [text |-> CfQuoted(<<s>>), value |-> JStr(<<s>>)]
CfN(digits, n) == [text |-> digits, value |-> JNum(n)]
CfB(b) == [text |-> <<IF b THEN "true" ELSE "false">>, value |-> JBool(b)]
CfNull == [text |-> <<"null">>, value |-> JNull]
CfSep(texts) == LET f[n \in DOMAIN texts] == IF n = 1 THEN texts[1] ELSE f[n - 1] \o <<",", " ">> \o texts[n] IN f[Len(texts)]
CfA(ds) == [text |-> <<"[">> \o CfSep([i \in DOMAIN ds |-> ds[i].text]) \o <<"]">>,
            value |-> JArr([i \in DOMAIN ds |-> ds[i].value])]
CfK(k, x) == [key |-> <<k>>, text |-> CfQuoted(<<k>>) \o <<":", " ">> \o x.text, value |-> x.value]
CfO(ms) == [text |-> <<"{", "\n">> \o CfSep([i \in DOMAIN ms |-> ms[i].text]) \o <<"\n", "}">>,
            value |-> JObj([i \in DOMAIN ms |-> [key |-> ms[i].key, value |-> ms[i].value]])]
CfFile(x) == [text |-> x.text \o <<"\n">>, value |-> x.value]
CfOpt(n, more) == CfO(more \o <<CfK("name", CfS(n))>>)
CfMenu(opts, more) == CfO(<<CfK("options", CfA(opts))>> \o more)
CfOnly(m) == CfFile(CfO(<<CfK("menu", m)>>))
CfZero == CfN(<<"0">>, 0)
\* An escaped character is left out.
CfEscaped == [text |-> CfQuoted(<<"T", "\\", Quote, "U">>), value |-> JStr(<<"T", "U">>)]

CfSub == CfMenu(<<CfOpt("c", <<CfK("script", CfS("y"))>>)>>, <<CfK("default", CfN(<<"1">>, 1))>>)

CfCatalogue ==
  [settings |-> CfFile(CfO(<<
      CfK("password", CfEscaped), CfK("timezone", CfN(<<"-", "1", "2", "0">>, -120)), CfK("rtc_utc", CfB(FALSE)),
      CfK("start_script", CfA(<<CfS("s"), CfS("t")>>))>>)),
   menus |-> CfFile(CfO(<<CfK("menu", CfMenu(
      <<CfOpt("b", <<CfK("submenu", CfSub), CfK("script", CfS("w"))>>), CfOpt("a", <<CfK("script", CfA(<<CfS("x"), CfS("z")>>))>>)>>,
      <<CfK("title", CfS("T")), CfK("timeout", CfN(<<"1", "0">>, 10)), CfK("default", CfN(<<"1">>, 1))>>)),
      CfK("start_script", CfS("s"))>>)),
   nested |-> CfOnly(CfMenu(<<CfOpt("b", <<CfK("submenu", CfMenu(<<CfOpt("e", <<CfK("submenu", CfMenu(<<CfOpt("f", <<>>)>>, <<>>))>>)>>, <<>>))>>)>>, <<>>)),
   plain |-> CfFile(CfO(<<CfK("timezone", CfS("zone")), CfK("start_script", CfS("s")), CfK("start_script", CfS("t"))>>)),
   number |-> CfFile(CfN(<<"7">>, 7)),
   badtype |-> CfFile(CfO(<<CfK("password", CfNull)>>)),
   badstart |-> CfFile(CfO(<<CfK("start_script", CfA(<<CfS("s"), CfZero>>))>>)),
   badmenu |-> CfOnly(CfB(TRUE)),
   nooptions |-> CfOnly(CfO(<<CfK("title", CfS("T"))>>)),
   noname |-> CfOnly(CfMenu(<<CfOpt("a", <<>>), CfO(<<CfK("script", CfS("x"))>>)>>, <<>>)),
   badscript |-> CfOnly(CfMenu(<<CfOpt("a", <<CfK("script", CfZero)>>)>>, <<>>)),
   badsub |-> CfOnly(CfMenu(<<CfOpt("a", <<CfK("submenu", CfZero)>>)>>, <<>>)),
   badoption |-> CfOnly(CfMenu(<<CfOpt("a", <<CfK("submenu", CfO(<<CfK("options", CfZero)>>))>>)>>, <<>>)),
   below |-> CfOnly(CfMenu(<<CfOpt("a", <<>>)>>, <<CfK("default", CfN(<<"-", "1">>, -1))>>)),
   above |-> CfOnly(CfMenu(<<CfOpt("a", <<>>)>>, <<CfK("default", CfN(<<"2">>, 2))>>)),
   none |-> CfNull]
CfBehind == {" ", "}", "0"}
CfMaxKeys == 7
CfCuts == {"settings", "menus", "number"}

-------------------------------------------------------------------------------
Plainly(word) == [n \in 1..Len(word) |-> <<word[n]>>]
Words(words) == [n \in 1..Len(words) |-> Plainly(words[n])]
Spaced(words) == LET upto[n \in 0..Len(words)] ==
                       IF n = 0 THEN <<>>
                       ELSE upto[n - 1] \o (IF n = 1 THEN <<>> ELSE <<" ">>) \o words[n]
                 IN upto[Len(words)]
OfWords(words) == [typed |-> Spaced(words), words |-> Words(words)]

ShLinesDef == <<
  OfWords(<<<<"shell">>>>),
  OfWords(<<<<"exit">>>>),
  OfWords(<<<<"cd">>, <<"f", ":", "/", "a", "/", "b">>>>),
  OfWords(<<<<"cd">>, <<"/", "a", "/", ".", ".">>>>),
  OfWords(<<<<"cd">>, <<"b", "/", "c">>>>),
  OfWords(<<<<"cd">>, <<".", ".", "/", ".", ".">>>>),
  OfWords(<<<<"cd">>, <<"g", ":">>>>),
  OfWords(<<<<"cd">>, <<".">>>>),
  OfWords(<<<<"ls">>, <<"b", "/", ".">>>>),
  OfWords(<<<<"ls">>, <<"f", ":", "/", "a">>>>),
  OfWords(<<<<"ls">>>>),
  OfWords(<<<<"help">>>>),
  [typed |-> <<"set", " ", "v", " ", "'", "a", " ", "b", "'">>,
   words |-> <<Plainly(<<"set">>), Plainly(<<"v">>), Plainly(<<"a", " ", "b">>)>>],
  OfWords(<<<<"set">>, <<"v", "w">>, <<"a">>>>),
  OfWords(<<<<"set">>, <<"w">>, <<"f", ":", "/", "a">>>>),
  OfWords(<<<<"set">>, <<"w">>, <<"g", ":">>>>),
  [typed |-> <<"cd", " ", "$", "w", "/", "x", "BS", "b">>,
   words |-> <<Plainly(<<"cd">>), <<<<"$", "w">>>> \o Plainly(<<"/", "b">>)>>],
  [typed |-> <<"boot", " ", "\"", "$", "v", "\"", "\\", "1", "0", "1">>,
   words |-> <<Plainly(<<"boot">>), <<<<"$", "v">>, <<"A">>>>>>],
  [typed |-> <<"boot", " ", "$", "w", "$", "w", "$", "w">>,
   words |-> <<Plainly(<<"boot">>), <<<<"$", "w">>, <<"$", "w">>, <<"$", "w">>>>>>],
  [typed |-> <<"boot", " ", "$", "w", "$", "w", "/", "c">>,
   words |-> <<Plainly(<<"boot">>), <<<<"$", "w">>, <<"$", "w">>, <<"/">>, <<"c">>>>>>],
  [typed |-> <<"$", "w", "$", "w", "$", "w", "$", "w">>,
   words |-> <<<<<<"$", "w">>, <<"$", "w">>, <<"$", "w">>, <<"$", "w">>>>>>],
  OfWords(<<<<"cd">>>>),
  OfWords(<<<<"set">>, <<"v">>>>)
>>
ShTreesDef == [f |-> {<<>>, <<"a">>, <<"b">>, <<"a", "b">>, <<"a", "b", "c">>, <<"b", "c">>},
               g |-> {<<>>, <<"b">>}]
ShFilesDef == [f |-> {<<"k">>, <<"a", "k">>}, g |-> {<<"l">>}]
ShBuiltinDef == <<"set", "help", "shell", "cd", "ls">>
ShAlnumDef == {"a", "b", "c", "f", "g", "v", "w", "x", "1", "0"}
ShChrDef == (65 :> "A")
ShProbesDef ==
  {prefix \o p : prefix \in {<<"f", ":", "/">>, <<"f", ":">>, <<>>},
               p \in UNION {[1..n -> {"/", ".", "a"}] : n \in 1..5}}

-------------------------------------------------------------------------------
LoaderInit ==
    /\ part \in {"fat", "ramdisk", "handover", "display", "volumes", "heap", "modules", "config", "shell"}
    /\ FatInit /\ RamdiskInit /\ HandoverInit /\ DisplayInit /\ VolumesInit
    /\ HeapInit /\ ModulesInit /\ ConfigInit /\ ShellInit
    /\ part = "display" \/ dmach = CHOOSE x \in DspMachines : TRUE
    /\ part = "volumes" \/ vmach = 1
    /\ part = "config" \/ cfile = [doc |-> "none", cut |-> 0, past |-> " ", lacks |-> "nothing"]

LoaderNext ==
    /\ UNCHANGED part
    /\ \/ part = "fat" /\ FatNext
          /\ UNCHANGED <<ramdiskVars, handoverVars, displayVars, volumesVars,
                         heapVars, modulesVars, configVars,
                         shellVars>>
       \/ part = "ramdisk" /\ RamdiskNext
          /\ UNCHANGED <<fatVars, handoverVars, displayVars, volumesVars, heapVars,
                         modulesVars, configVars, shellVars>>
       \/ part = "handover" /\ HandoverNext
          /\ UNCHANGED <<fatVars, ramdiskVars, displayVars, volumesVars, heapVars,
                         modulesVars, configVars, shellVars>>
       \/ part = "display" /\ DisplayNext
          /\ UNCHANGED <<fatVars, ramdiskVars, handoverVars, volumesVars, heapVars,
                         modulesVars, configVars, shellVars>>
       \/ part = "volumes" /\ VolumesNext
          /\ UNCHANGED <<fatVars, ramdiskVars, handoverVars, displayVars, heapVars,
                         modulesVars, configVars, shellVars>>
       \/ part = "heap" /\ HeapNext
          /\ UNCHANGED <<fatVars, ramdiskVars, handoverVars, displayVars,
                         volumesVars, modulesVars,
                         configVars, shellVars>>
       \/ part = "modules" /\ ModulesNext
          /\ UNCHANGED <<fatVars, ramdiskVars, handoverVars, displayVars,
                         volumesVars, heapVars, configVars,
                         shellVars>>
       \/ part = "config" /\ ConfigNext
          /\ UNCHANGED <<fatVars, ramdiskVars, handoverVars, displayVars,
                         volumesVars, heapVars, modulesVars,
                         shellVars>>
       \/ part = "shell" /\ ShellNext
          /\ UNCHANGED <<fatVars, ramdiskVars, handoverVars, displayVars,
                         volumesVars, heapVars, modulesVars,
                         configVars>>

LoaderSpec == LoaderInit /\ [][LoaderNext]_<<part, parts>>
===============================================================================
