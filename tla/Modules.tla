------------------------------- MODULE Modules -------------------------------
(***************************************************************************)
(* Loading and unloading of the loader's modules: the ELF reader           *)
(* (elf/elf.c) and VlModule_Load and VlModule_Unload (module/module.c).    *)
(*                                                                         *)
(* A file is a value of MdFiles: what the reader finds in it and, in refs, *)
(* what its code refers to, which is what relocation has to bring about.   *)
(* Addresses count machine words and wrap at MdWord.  A load is one call:  *)
(* the record l is its local state, with held the resources that exist and *)
(* ptr the local pointers that are not NULL.                               *)
(***************************************************************************)
EXTENDS Integers, FiniteSets, Sequences, SequencesExt

CONSTANTS
  MdFiles,      \* the files, by name
  MdExports,    \* addresses of the loader's exported symbols
  MdFaults,     \* what may fail in the load of a file, by its name
  MdPage,       \* words of a page
  MdWord,       \* values of a word
  MdCalls       \* calls at most

VARIABLES mloads, mlist, mvpn, mbad, mstop, mcalls

modulesVars == <<mloads, mlist, mvpn, mbad, mstop, mcalls>>

Wrap(n) == n % MdWord
FirstOf(ks) == IF ks = {} THEN 0 ELSE CHOOSE k \in ks : \A j \in ks : k <= j
PagesOfWords(n) == (n + MdPage - 1) \div MdPage

NewLoad(name) ==
  [name |-> name, st |-> "ok", held |-> {}, ptr |-> {}, vpn |-> 0, pages |-> {}, img |-> <<>>,
   ran |-> <<>>, bad |-> FALSE]
ModuleFiles == MdFiles
FileOf(l) == ModuleFiles[l.name]
Base(l) == l.vpn * MdPage
Ended(l, st) == [l EXCEPT !.st = st]
Takes(l, ks) == [l EXCEPT !.held = @ \cup ks]
Gives(l, ks) == [l EXCEPT !.held = @ \ ks, !.bad = @ \/ ~(ks \subseteq l.held)]

-----------------------------------------------------------------------------
(* The ELF reader *)

VlElf_FindSection(f, name) == FirstOf({k \in DOMAIN f.secs : f.secs[k].name = name})
VlElf_GetSectionHeader(f, k) == f.secs[k]
VlElf_LoadSection(f, k) == f.secs[k].rels
VlElf_FindSymbol(f, name) == FirstOf({k \in DOMAIN f.syms : f.syms[k].name = name})

\* Symbols are counted from 0; there are none to get from a 64-bit file.
VlElf_GetSymbol(f, idx) ==
  IF f.class = 64 THEN "unsupported" ELSE IF idx >= Len(f.syms) THEN "invalid" ELSE "ok"

\* A 64-bit header read as a 32-bit one shows no program headers.
VlElf_GetHeader(f) == IF f.class = 32 THEN f.segs ELSE <<>>

Tables == {"shstrtab", "strtab", "symtab"}

\* Identification, machine and the three tables; a failure frees what it had.
VlElf_Open(l, fault) ==
  IF fault = "tables" THEN Ended(l, "lost")
  ELSE IF \/ fault = "fopen" \/ FileOf(l).class \notin {32, 64}
          \/ VlElf_FindSection(FileOf(l), ".strtab") = 0
          \/ VlElf_FindSection(FileOf(l), ".symtab") = 0
  THEN Ended(l, "refused")
  ELSE [Takes(l, {"elf", "fp"} \cup Tables) EXCEPT !.ptr = {"elf"}]

\* The tables stay behind.
VlElf_Close(l) == Gives(l, {"fp", "elf"})

\* One program segment: its pages are there already, the file's words, then zeros.
Covered(l, s) == ((Base(l) + s.vaddr) \div MdPage) .. ((Base(l) + s.vaddr + s.memsz - 1) \div MdPage)
VlElf_LoadProgram(l, s) ==
  [l EXCEPT !.pages = @ \cup Covered(l, s),
            !.img = [a \in DOMAIN @ \cup (s.vaddr .. (s.vaddr + s.memsz - 1)) |->
                       IF a \in s.vaddr .. (s.vaddr + s.filesz - 1) THEN FileOf(l).data[a]
                       ELSE IF a \in s.vaddr .. (s.vaddr + s.memsz - 1) THEN 0 ELSE @[a]]]

-----------------------------------------------------------------------------
(* Relocation *)

\* A symbol of the module, or one the loader exports.
_module_find_vellum_symbol(name) == IF name \in DOMAIN MdExports THEN MdExports[name] ELSE 0
resolve_symbol_addr(l, y) ==
  IF y.here THEN Base(l) + y.value ELSE _module_find_vellum_symbol(y.name)

\* The word stored, by the relocation's type; A is the word found at P.
Stored(l, r, y, S, A, GOT) ==
  CASE r.type \in {"GLOB_DAT", "JMP_SLOT"} -> S
    [] r.type = "32" -> S + A
    [] r.type = "RELATIVE" -> Base(l) + A
    [] r.type = "PC32" /\ ~y.here -> S + A - (Base(l) + r.at)
    [] r.type = "GOTOFF" /\ ~y.here -> S + A - GOT
    [] r.type = "GOTPC" /\ ~y.here -> GOT + A - (Base(l) + r.at)
    [] OTHER -> A

Known == {"NONE", "32", "PC32", "GOT32", "GLOB_DAT", "JMP_SLOT", "RELATIVE", "GOTOFF", "GOTPC"}

\* GOT32 stores into the slot of the table that the word at P names.
Where(r, A, got) == IF r.type = "GOT32" THEN A + got ELSE r.at
What(l, r, y, S, A, got) ==
  IF r.type = "GOT32" THEN S ELSE Stored(l, r, y, S, A, Base(l) + got)

Patch(l, r, y, S, A, got) ==
  IF r.type \notin Known THEN Ended(l, "panic")
  ELSE [l EXCEPT !.img[Where(r, A, got)] = Wrap(What(l, r, y, S, A, got))]

\* An unknown symbol returns without freeing the copy of the section.
OneOf(l, r, y, got) ==
  IF r.type # "RELATIVE" /\ resolve_symbol_addr(l, y) = 0 THEN Ended(l, "unknown")
  ELSE Patch(l, r, y, resolve_symbol_addr(l, y), l.img[r.at], got)

NoSymbol == [name |-> "", here |-> TRUE, value |-> 0]
Relocate(l, r, got) ==
  IF l.st # "ok" THEN l
  ELSE IF r.type = "RELATIVE" THEN OneOf(l, r, NoSymbol, got)
  ELSE IF VlElf_GetSymbol(FileOf(l), r.sym) # "ok" THEN Ended(Gives(l, {"rel"}), "invalid")
  ELSE OneOf(l, r, FileOf(l).syms[r.sym + 1], got)

relocate_section(l, rels, got) == FoldLeft(LAMBDA m, r : Relocate(m, r, got), Takes(l, {"rel"}), rels)
RelDone(l) == IF l.st = "ok" THEN Gives(l, {"rel"}) ELSE l

Section(l, name, got, fault) ==
  IF l.st # "ok" \/ VlElf_FindSection(FileOf(l), name) = 0 THEN l
  ELSE IF fault = "rel" THEN Ended(l, "lost")
  ELSE RelDone(relocate_section(l, VlElf_LoadSection(FileOf(l), VlElf_FindSection(FileOf(l), name)), got))

-----------------------------------------------------------------------------
(* The stages of VlModule_Load *)

Size(f) == FoldLeft(LAMBDA n, s : IF s.load /\ n < s.vaddr + s.memsz THEN s.vaddr + s.memsz ELSE n,
                    0, VlElf_GetHeader(f))

\* Memory for the program.  A refusal leaves what was mapped, and everything open.
Paged(l, vpn, fault) ==
  IF fault = "pages" THEN [l EXCEPT !.st = "nopages", !.pages = IF Size(FileOf(l)) > MdPage THEN {vpn} ELSE {}]
  ELSE [l EXCEPT !.vpn = vpn, !.pages = vpn .. (vpn + PagesOfWords(Size(FileOf(l))) - 1), !.ptr = @ \cup {"load_vpn"}]

Copied(l) ==
  FoldLeft(LAMBDA m, s : IF s.load THEN VlElf_LoadProgram(m, s) ELSE m, l, VlElf_GetHeader(FileOf(l)))

\* The table's offset, then the three sections of relocations.
GotSymbol(f) == VlElf_FindSymbol(f, "_GLOBAL_OFFSET_TABLE_")
Sections(l, got, fault) ==
  Section(Section(Section(l, ".rel.dyn", got, fault), ".rel.got", got, fault), ".rel.text", got, fault)

Relocated(l, fault) ==
  IF GotSymbol(FileOf(l)) = 0 THEN Ended(l, "nosymbol")
  ELSE IF VlElf_GetSymbol(FileOf(l), GotSymbol(FileOf(l)) - 1) # "ok" THEN Ended(l, "unsupported")
  ELSE Sections(l, FileOf(l).syms[GotSymbol(FileOf(l))].value, fault)

\* The note: strncmp over the key's own length takes any beginning of "name".
NameKeys == {"", "n", "na", "nam", "name"}
NameNote(f) == FirstOf({k \in DOMAIN f.notes : f.notes[k].key \in NameKeys})
NameFound(l, fault) ==
  IF NameNote(FileOf(l)) = 0 \/ fault = "name" THEN Ended(l, "invalid")
  ELSE IF FileOf(l).notes[NameNote(FileOf(l))].type # 1 THEN Ended(l, "invalid")
  ELSE [Takes(l, {"name"}) EXCEPT !.ptr = @ \cup {"name"}]

Described(l, fault) ==
  IF fault = "mod" THEN Ended(l, "nomemory")
  ELSE NameFound([Takes(l, {"mod"}) EXCEPT !.ptr = @ \cup {"mod"}], fault)

Noted(l, fault) ==
  IF VlElf_FindSection(FileOf(l), ".note.vellum") = 0 THEN Ended(l, "nonote")
  ELSE IF fault = "note" THEN Ended(l, "nomemory")
  ELSE Described([Takes(l, {"note"}) EXCEPT !.ptr = @ \cup {"note"}], fault)


NoteFreed(l) == [Gives(l, {"note"}) EXCEPT !.ptr = @ \ {"note"}]

\* The functions of an array are called at the addresses the image holds.
run_func_array(l, s) == [l EXCEPT !.ran = @ \o [k \in 1 .. s.size |-> l.img[s.at + k - 1]]]
RunArray(l, k, missing) == IF k = 0 THEN Ended(l, missing) ELSE run_func_array(l, VlElf_GetSectionHeader(FileOf(l), k))
Constructed(l) == RunArray(l, VlElf_FindSection(FileOf(l), ".init_array"), "noarray")

Entered(l) ==
  IF FileOf(l).entry = 0 THEN [l EXCEPT !.ptr = @ \cup {"entry"}]
  ELSE [l EXCEPT !.ptr = @ \cup {"entry"}, !.ran = Append(@, Base(l) + FileOf(l).entry),
                 !.st = IF FileOf(l).accepts THEN "ok" ELSE "rejected"]

\* has_error: every pointer that is set is freed.
FiniRun(l) == RunArray(l, VlElf_FindSection(FileOf(l), ".fini_array"), l.st)
Finalised(l) == IF "entry" \in l.ptr THEN FiniRun(l) ELSE l
Objects(l) == Gives(l, l.ptr \cap {"name", "note", "mod"})
Unpaged(l) == IF "load_vpn" \in l.ptr
              THEN [l EXCEPT !.pages = @ \ (l.vpn .. (l.vpn + PagesOfWords(Size(FileOf(l))) - 1))] ELSE l
Closed(l) == IF "elf" \in l.ptr THEN VlElf_Close(l) ELSE l
has_error(l) == Closed(Unpaged(Objects(Finalised(l))))

Stage1(l, vpn, fault) == IF l.st # "ok" THEN l ELSE IF ~FileOf(l).dyn THEN Ended(l, "notdyn") ELSE Paged(l, vpn, fault)
Stage2(l, fault) == IF l.st # "ok" THEN l ELSE Relocated(Copied(l), fault)
Stage3(l, fault) == IF l.st # "ok" THEN l ELSE Noted(l, fault)
Stage4(l) == IF l.st # "ok" THEN l ELSE Constructed(NoteFreed(l))
Stage5(l) == IF l.st # "ok" THEN l ELSE Entered(l)
Returned(l) == IF l.st \in {"ok", "lost", "panic", "nopages"} THEN l ELSE has_error(l)

Load(name, vpn, fault) ==
  Returned(Stage5(Stage4(Stage3(Stage2(Stage1(VlElf_Open(NewLoad(name), fault), vpn, fault), fault), fault))))

\* The module joins the list behind the last one.
Recorded(l) ==
  /\ mloads' = Append(mloads, l)
  /\ mlist' = IF l.st = "ok" THEN Append(mlist, Len(mloads) + 1) ELSE mlist
  /\ mvpn' = IF l.st \in {"refused", "notdyn", "lost"} THEN mvpn ELSE mvpn + PagesOfWords(Size(FileOf(l)))
  /\ mbad' = (mbad \/ l.bad)
  /\ mstop' = (l.st \in {"lost", "panic"})

VlModule_Load(name, fault) == \E l \in {Load(name, mvpn, fault)} : Recorded(l)

\* The search looks behind each module, so the first one is never found.
Unloaded(l) == VlElf_Close(Unpaged(Gives(FiniRun(l), {"name", "mod"})))
VlModule_Unload(k) ==
  /\ IF k = 1 THEN UNCHANGED <<mloads, mlist, mbad>>
     ELSE \E l \in {Unloaded(mloads[mlist[k]])} :
            /\ mloads' = [mloads EXCEPT ![mlist[k]] = [l EXCEPT !.st = "unloaded"]]
            /\ mlist' = RemoveAt(mlist, k)
            /\ mbad' = (mbad \/ l.bad)
  /\ UNCHANGED <<mvpn, mstop>>

ModulesInit ==
  /\ mloads = <<>>
  /\ mlist = <<>>
  /\ mvpn = 1
  /\ mbad = FALSE
  /\ mstop = FALSE
  /\ mcalls = 0

ModulesNext ==
  /\ ~mstop
  /\ mcalls < MdCalls
  /\ mcalls' = mcalls + 1
  /\ \/ \E name \in DOMAIN MdFiles : \E fault \in MdFaults[name] : VlModule_Load(name, fault)
     \/ \E k \in DOMAIN mlist : VlModule_Unload(k)

-----------------------------------------------------------------------------

\* What a reference of the module's code has to find at run time.
Target(l, x) == IF x.to \in DOMAIN MdExports THEN MdExports[x.to]
                ELSE Base(l) + FileOf(l).syms[VlElf_FindSymbol(FileOf(l), x.to)].value
Meant(l, x) == IF x.kind = "pointer" THEN Target(l, x) ELSE Wrap(Target(l, x) - (Base(l) + x.at))
Runs(l) == [k \in 1 .. Len(FileOf(l).ctors) |-> Base(l) + FileOf(l).ctors[k]]
           \o (IF FileOf(l).entry = 0 THEN <<>> ELSE <<Base(l) + FileOf(l).entry>>)
Listed == ToSet(mlist)

=============================================================================
