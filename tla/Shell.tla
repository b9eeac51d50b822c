------------------------------- MODULE Shell -------------------------------
(***************************************************************************)
(* The loader's command shell: reading and expanding a line, splitting it  *)
(* into arguments, variables, the command list, nested shells, and the two *)
(* commands that walk directories, cd and ls, with the path functions they *)
(* rest on (src/vellum/shell, src/vellum/core/path.c).                     *)
(*                                                                         *)
(* A string is a sequence of one-character tokens; a file or command name  *)
(* is one token.  Memory never runs out.  The bodies of the commands that  *)
(* only print are left out.                                                *)
(***************************************************************************)
EXTENDS Integers, Sequences, FiniteSets, SequencesExt

CONSTANTS
  ShLines,      \* what is typed: [typed: keys, words: the words meant]
  ShTrees,      \* file system name -> its directories, sequences of names
  ShFiles,      \* file system name -> its files
  ShBuiltin,    \* the command list after start-up
  ShModule,     \* commands a module registers
  ShAlnum,      \* the tokens that may stand in a variable's name
  ShChr,        \* code -> token, for numeric escapes
  ShProbes,     \* paths given to VlPath_Normalize as they are
  ShRead,       \* line_buf of shell_handler
  ShLine,       \* line_buf of VlShell_Execute
  ShElem,       \* elem_buf
  ShArgs,       \* newargv
  ShKey,        \* var_key
  ShPath,       \* working_dir_path
  ShMaxCalls, ShMaxDepth, ShMaxFaults

VARIABLES
  sstack,       \* global_inst, then one instance per running shell
  scmds,        \* command_list_head
  sdirs,        \* the open directories: number -> where
  sseen,        \* what the last line did
  sleaks,       \* directories nobody will close
  sprobe,       \* a path for VlPath_Normalize
  sfaults, scalls, slost

shellVars == <<sstack, scmds, sdirs, sseen, sleaks, sprobe, sfaults, scalls, slost>>

(* The catalogues under names of their own.                                *)
Typed == ShLines
Trees == ShTrees
TreeFiles == ShFiles
NameTokens == ShAlnum
Probes == ShProbes

(***************************************************************************)
(* Paths                                                                   *)
(***************************************************************************)
At(s, i) == IF i \in 1..Len(s) THEN s[i] ELSE ""

FirstAt(s, c, i) ==
  IF \E j \in i..Len(s) : s[j] = c
  THEN CHOOSE j \in i..Len(s) : s[j] = c /\ \A k \in i..(j - 1) : s[k] # c
  ELSE 0

VlPath_IsAbsolute(path) ==
  \/ At(path, 1) = "/"
  \/ LET colon == FirstAt(path, ":", 1)
     IN colon # 0 /\ At(path, colon + 1) \in {"/", ""}

(* The file system's name and where the elements begin.                    *)
VlPath_InitIter(path) ==
  LET colon == FirstAt(path, ":", 1)
  IN [element |-> SubSeq(path, 1, colon - 1), cursor |-> colon + 1]

(* One element; `end` is the result of the call.                           *)
VlPath_AdvanceIter(path, cursor) ==
  LET p == IF At(path, cursor) = "/" THEN cursor + 1 ELSE cursor
      slash == FirstAt(path, "/", p)
      next == IF slash = 0 THEN Len(path) + 1 ELSE slash
  IN [element |-> SubSeq(path, p, next - 1), cursor |-> next, end |-> next > Len(path)]

(* The elements a do-while over the iterator visits.                       *)
Elements(path) ==
  LET from[i \in 1..(Len(path) + 1)] ==
        LET it == VlPath_AdvanceIter(path, i)
        IN <<it.element>> \o (IF it.end THEN <<>> ELSE from[it.cursor])
  IN from[VlPath_InitIter(path).cursor]

VlPath_Join(dest, src) == dest \o <<"/">> \o src

Dots == <<".", ".">>

LastSlash(dest, low, high) ==
  IF high <= low THEN high
  ELSE CHOOSE q \in low..high : (q = low \/ dest[q] = "/")
                                /\ \A k \in (q + 1)..high : dest[k] # "/"


Ascent(dest, low) ==
  LastSlash(dest, low, IF Last(dest) = "/" THEN Len(dest) - 1 ELSE Len(dest))

WithSlash(dest, len) == IF Len(dest) < len - 1 THEN Append(dest, "/") ELSE dest

(* ".." behind a root: colon is 0 without a file system.                   *)
UpFromRoot(dest, colon, len) ==
  IF Ascent(dest, 1) <= colon + 1
  THEN WithSlash(SubSeq(dest, 1, colon), len)
  ELSE SubSeq(dest, 1, Ascent(dest, 1))

UpInFs(dest, colon, len) ==
  IF Len(dest) > colon
  THEN SubSeq(dest, 1, IF Ascent(dest, colon + 1) <= colon + 1 THEN colon
                       ELSE Ascent(dest, colon + 1))
  ELSE IF Len(dest) + 2 < len - 1 THEN dest \o Dots ELSE dest

UpPlain(dest, len) ==
  LET d1 == IF dest # <<>> THEN WithSlash(dest, len) ELSE dest
  IN IF Len(d1) + 2 < len - 1 THEN d1 \o Dots ELSE d1

AddElement(dest, element, len) ==
  LET d1 == IF dest # <<>> /\ Last(dest) # "/" THEN WithSlash(dest, len) ELSE dest
  IN IF Len(d1) + Len(element) < len - 1 THEN d1 \o element ELSE d1

NormalStep(dest, element, absolute, colon, len) ==
  CASE element \in {<<>>, <<".">>} -> dest
    [] element = Dots /\ absolute -> UpFromRoot(dest, colon, len)
    [] element = Dots /\ ~absolute /\ colon # 0 -> UpInFs(dest, colon, len)
    [] element = Dots /\ ~absolute /\ colon = 0 -> UpPlain(dest, len)
    [] OTHER -> AddElement(dest, element, len)

NormalEnd(dest, colon) ==
  LET d1 == IF colon = 0 /\ dest = <<>> THEN <<".">> ELSE dest
  IN IF Len(d1) > 1 /\ Last(d1) = "/" /\ (colon = 0 \/ Len(d1) > colon + 1)
     THEN Front(d1) ELSE d1

VlPath_Normalize(src, len) ==
  LET fsname == VlPath_InitIter(src).element
      colon == IF fsname = <<>> THEN 0 ELSE Len(fsname) + 1
      absolute == At(src, VlPath_InitIter(src).cursor) = "/"
      start == IF colon = 0 THEN <<>> ELSE Append(fsname, ":")
      elements == Elements(src)
      dest[n \in 0..Len(elements)] ==
        IF n = 0 THEN (IF absolute THEN WithSlash(start, len) ELSE start)
        ELSE NormalStep(dest[n - 1], elements[n], absolute, colon, len)
  IN IF colon # 0 /\ Len(fsname) + 1 >= len - 1 THEN <<>>
     ELSE NormalEnd(dest[Len(elements)], colon)

(***************************************************************************)
(* Variables                                                               *)
(***************************************************************************)
NoVariables == [list |-> <<>>, ended |-> TRUE]

(* strncmp over the stored key's length: a stored key that begins the      *)
(* wanted one is taken for it.  0 when the list has no such entry.         *)
VarAt(vars, key) ==
  IF \E j \in 1..Len(vars.list) : IsPrefix(vars.list[j].key, key)
  THEN CHOOSE j \in 1..Len(vars.list) :
         /\ IsPrefix(vars.list[j].key, key)
         /\ \A k \in 1..(j - 1) : ~IsPrefix(vars.list[k].key, key)
  ELSE 0

(* The walk leaves the list behind an entry whose next was never set.      *)
Strays(vars, key) == VarAt(vars, key) = 0 /\ ~vars.ended

VlShell_GetVariable(vars, key) ==
  IF VarAt(vars, key) = 0 THEN <<>> ELSE vars.list[VarAt(vars, key)].value

(* ended is what the memory of a new entry holds where its next will be:   *)
(* nothing stores into it.                                                 *)
VlShell_SetVariable(vars, key, value, ended) ==
  LET entry == [key |-> key, value |-> value]
  IN IF VarAt(vars, key) # 0
     THEN [vars EXCEPT !.list[VarAt(vars, key)] = entry]
     ELSE [list |-> Append(vars.list, entry), ended |-> ended]

(***************************************************************************)
(* From a typed line to arguments                                          *)
(***************************************************************************)
Backspace == "BS"

(* Backspace takes one back; what does not fit is not taken.               *)
KeyTaken(buf, key, len) ==
  IF key = Backspace THEN SubSeq(buf, 1, Len(buf) - 1)
  ELSE IF Len(buf) >= len - 1 THEN buf ELSE Append(buf, key)

VlShell_Readline(keys, len) ==
  LET buf[n \in 0..Len(keys)] ==
        IF n = 0 THEN <<>> ELSE KeyTaken(buf[n - 1], keys[n], len)
  IN buf[Len(keys)]

Expanded(text, stray, rest) == [text |-> text \o rest.text, stray |-> stray \/ rest.stray]

NothingLeft == [text |-> <<>>, stray |-> FALSE]

(* The variable's name that starts at i.                                   *)
KeyAt(line, i) ==
  LET end == CHOOSE j \in i..(Len(line) + 1) :
               /\ \A k \in i..(j - 1) : line[k] \in NameTokens
               /\ j > Len(line) \/ line[j] \notin NameTokens \/ j - i = ShKey - 1
               /\ j - i <= ShKey - 1
  IN SubSeq(line, i, end - 1)

VlShell_Expand(vars, line) ==
  LET from[i \in 1..(Len(line) + 2)] ==
        CASE i > Len(line) -> NothingLeft
          [] At(line, i) = "\\" /\ At(line, i + 1) = "$" -> Expanded(<<"$">>, FALSE, from[i + 2])
          [] At(line, i) = "$" ->
               LET key == KeyAt(line, i + 1)
               IN Expanded(VlShell_GetVariable(vars, key), Strays(vars, key),
                           from[i + 1 + Len(key)])
          [] OTHER -> Expanded(<<line[i]>>, FALSE, from[i + 1])
  IN from[1]

Quotes == {"\"", "'"}
Spaces == {" ", "TAB"}
Selves == {"\\", "\"", "'", "?"} \cup Spaces
Escapes == [a |-> "BEL", b |-> "BS", e |-> "ESC", f |-> "FF",
            n |-> "LF", r |-> "CR", t |-> "TAB", v |-> "VT"]
Octal == <<"0", "1", "2", "3", "4", "5", "6", "7">>
Hex == Octal \o <<"8", "9", "a", "b", "c", "d", "e", "f">>

(* strtol: the digits from i on, and their value.                          *)
DigitsEnd(line, i, digits) ==
  CHOOSE j \in i..(Len(line) + 1) :
    /\ \A k \in i..(j - 1) : Contains(digits, line[k])
    /\ j > Len(line) \/ ~Contains(digits, line[j])

Coded(line, i, digits) ==
  LET value[j \in (i - 1)..(DigitsEnd(line, i, digits) - 1)] ==
        IF j < i THEN 0
        ELSE value[j - 1] * Len(digits)
             + (CHOOSE k \in DOMAIN digits : digits[k] = line[j]) - 1
      code == value[DigitsEnd(line, i, digits) - 1]
  IN IF code \in DOMAIN ShChr THEN ShChr[code] ELSE "?"

Pushed(c, rest) == [text |-> <<c>> \o rest.text, end |-> rest.end]

NoArgument == [text |-> <<>>, end |-> 0]

FirstOfWord(line, start) ==
  CHOOSE j \in start..(Len(line) + 1) :
    /\ \A k \in start..(j - 1) : line[k] \in Spaces
    /\ j > Len(line) \/ line[j] \notin Spaces

Word(line, first) ==
  LET word[i \in first..(Len(line) + 1), quote \in Quotes \cup {""}] ==
        CASE i > Len(line) -> [text |-> <<>>, end |-> i]
          [] At(line, i) \in Quotes ->
               word[i + 1, IF quote = line[i] THEN "" ELSE line[i]]
          [] At(line, i) = "\\" ->
               LET next == At(line, i + 1)
               IN CASE next \in Selves -> Pushed(next, word[i + 2, quote])
                    [] next \in DOMAIN Escapes -> Pushed(Escapes[next], word[i + 1, quote])
                    [] Contains(Octal, next) ->
                         Pushed(Coded(line, i + 1, Octal),
                                word[DigitsEnd(line, i + 1, Octal), quote])
                    [] next = "x" ->
                         Pushed(Coded(line, i + 2, Hex), word[DigitsEnd(line, i + 2, Hex), quote])
                    [] OTHER -> word[i + 1, quote]
          [] At(line, i) \in Spaces /\ quote = "" -> [text |-> <<>>, end |-> i]
          [] OTHER -> Pushed(line[i], word[i + 1, quote])
  IN word[first, ""]

Fitting(word, room) == IF Len(word.text) > room THEN NoArgument ELSE word

(* The first argument behind start and where it ends; end is 0 when there  *)
(* is none or it does not fit.                                             *)
VlShell_Parse(line, start, room) ==
  IF FirstOfWord(line, start) > Len(line) THEN NoArgument
  ELSE Fitting(Word(line, FirstOfWord(line, start)), room)

NextArgument(old, new) ==
  IF new.end = 0 THEN [old EXCEPT !.at = 0]
  ELSE [argv |-> Append(old.argv, new.text), at |-> new.end,
        room |-> old.room - (Len(new.text) + 1), stray |-> Len(new.text) >= old.room]

ParseNext(line, old) ==
  IF old.at = 0 \/ old.stray THEN old
  ELSE NextArgument(old, VlShell_Parse(line, old.at, old.room))

(* newargv; stray when an argument fills the buffer, which leaves it       *)
(* without an end and wraps elem_buf_len around.                           *)
Arguments(line) ==
  LET args[n \in 0..ShArgs] ==
        IF n = 0 THEN [argv |-> <<>>, at |-> 1, room |-> ShElem, stray |-> FALSE]
        ELSE ParseNext(line, args[n - 1])
  IN args[ShArgs]

(***************************************************************************)
(* Directories: the drivers' functions, as the commands use them           *)
(***************************************************************************)
NoDirectory == 0

Spot(fs, names) == [fs |-> fs, names |-> names]

(* ".." of a root is the root, as the FAT driver has it.                   *)
Below(place, element) ==
  IF element = Dots
  THEN Spot(place.fs, IF place.names = <<>> THEN <<>> ELSE Front(place.names))
  ELSE Spot(place.fs, place.names \o element)

IsDirectory(place) == place.names \in Trees[place.fs]

FreeNumber(dirs) ==
  CHOOSE k \in 1..(Cardinality(DOMAIN dirs) + 1) :
    k \notin DOMAIN dirs /\ \A j \in 1..(k - 1) : j \in DOMAIN dirs

OpenDirectory(dirs, place) ==
  [k \in DOMAIN dirs \cup {FreeNumber(dirs)} |->
     IF k \in DOMAIN dirs THEN dirs[k] ELSE place]

CloseDirectory(dirs, dir) == [k \in DOMAIN dirs \ {dir} |-> dirs[k]]

OpenNext(old, place, good, keep) ==
  LET opened == IF good THEN OpenDirectory(old.dirs, place) ELSE old.dirs
  IN [dirs |-> IF old.cur = keep THEN opened ELSE CloseDirectory(opened, old.cur),
      cur |-> IF good THEN FreeNumber(old.dirs) ELSE old.cur,
      ok |-> good]

VisitElement(old, element, failing, keep) ==
  IF ~old.ok \/ element \in {<<>>, <<".">>} THEN old
  ELSE LET place == Below(old.dirs[old.cur], element)
       IN OpenNext(old, place, ~failing /\ IsDirectory(place), keep)

(* Opens element after element from cur; closes all but the last and keep. *)
(* The open of element number fault fails.                                 *)
WalkElements(dirs, cur, keep, elements, fault) ==
  LET walk[n \in 0..Len(elements)] ==
        IF n = 0 THEN [dirs |-> dirs, cur |-> cur, ok |-> TRUE]
        ELSE VisitElement(walk[n - 1], elements[n], n = fault, keep)
  IN walk[Len(elements)]

(* newfs of an absolute path: "" when it is not there.                     *)
FileSystemOf(inst, path) ==
  LET name == VlPath_InitIter(path).element
  IN IF name = <<>> THEN inst.fs
     ELSE IF Len(name) = 1 /\ name[1] \in DOMAIN Trees THEN name[1] ELSE ""

(* The walk of an absolute path begins with the root, fault 0 is its       *)
(* failure; that of a relative one begins with the working directory.      *)
Reach(inst, dirs, path, fault) ==
  IF VlPath_IsAbsolute(path)
  THEN IF FileSystemOf(inst, path) = "" \/ fault = 0
       THEN [dirs |-> dirs, cur |-> NoDirectory, ok |-> FALSE]
       ELSE WalkElements(OpenDirectory(dirs, Spot(FileSystemOf(inst, path), <<>>)),
                         FreeNumber(dirs), NoDirectory, Elements(path), fault)
  ELSE IF inst.fs = "" THEN [dirs |-> dirs, cur |-> NoDirectory, ok |-> FALSE]
       ELSE WalkElements(dirs, inst.dir, inst.dir, Elements(path), fault)

NoFault == -1

(***************************************************************************)
(* Executing a line                                                        *)
(***************************************************************************)
(* vals and fit are not in the code: the values set, and whether the path  *)
(* has always fitted in working_dir_path.                                  *)
NewInstance == [fs |-> "", dir |-> NoDirectory, path |-> <<>>, vars |-> NoVariables,
                vals |-> <<>>, fit |-> TRUE]

NothingSeen == [argv |-> <<>>, meant |-> <<>>, sure |-> FALSE, result |-> 0, shown |-> {}]

Inst == Last(sstack)

(* The meaning of a word: its characters, variables replaced.              *)
MeantWord(word, vals) ==
  LET upto[n \in 0..Len(word)] ==
        IF n = 0 THEN <<>>
        ELSE upto[n - 1] \o (IF Len(word[n]) = 1 THEN word[n]
                             ELSE IF Tail(word[n]) \in DOMAIN vals THEN vals[Tail(word[n])]
                             ELSE <<>>)
  IN upto[Len(word)]

MeantWords(words, vals) ==
  SelectSeq([n \in 1..Len(words) |-> MeantWord(words[n], vals)], LAMBDA w : w # <<>>)

Cells(argv) ==
  LET upto[n \in 0..Len(argv)] == IF n = 0 THEN 0 ELSE upto[n - 1] + Len(argv[n]) + 1
  IN upto[Len(argv)]

(* No name begins another one.                                             *)
Distinct(keys) == \A k, l \in keys : IsPrefix(k, l) => k = l

Fits(l, text, meant) ==
  /\ Len(sstack) > 1 => Len(l.typed) < ShRead
  /\ Len(text) < ShLine /\ Len(meant) <= ShArgs /\ Cells(meant) <= ShElem
  /\ Distinct(DOMAIN Inst.vals)

Saw(l, text, argv, result, shown) ==
  \E meant \in {MeantWords(l.words, Inst.vals)} :
    sseen' = [argv |-> argv, meant |-> meant, sure |-> Fits(l, text, meant),
              result |-> result, shown |-> shown]

Gone ==
  /\ slost' = TRUE
  /\ sseen' = NothingSeen
  /\ UNCHANGED <<sstack, scmds, sdirs, sleaks, sfaults>>

(* A command that changes nothing the shell keeps.                         *)
Replies(l, text, argv, result, shown) ==
  /\ Saw(l, text, argv, result, shown)
  /\ UNCHANGED <<sstack, scmds, sdirs, sleaks, sfaults, slost>>

SetInst(inst) == sstack' = [sstack EXCEPT ![Len(sstack)] = inst]

(* One failing call to a driver at most, and only where there is a call.   *)
Faults(path) == {NoFault} \cup (IF sfaults < ShMaxFaults THEN 0..Len(Elements(path)) ELSE {})

FaultUsed(fault) == sfaults' = IF fault = NoFault THEN sfaults ELSE sfaults + 1

DepthsFit(inst, path) ==
  LET elements == Elements(path)
      place[n \in 0..Len(elements)] ==
        IF n = 0 THEN (IF VlPath_IsAbsolute(path) THEN <<>> ELSE sdirs[inst.dir].names)
        ELSE IF elements[n] \in {<<>>, <<".">>} THEN place[n - 1]
        ELSE Below(Spot("", place[n - 1]), elements[n]).names
  IN \A n \in 0..Len(elements) : 2 + 2 * Len(place[n]) < ShPath - 1

(* chdir: the new path of the working directory.                           *)
NewPath(inst, fs, path) ==
  VlPath_Normalize(CASE VlPath_IsAbsolute(path) /\ FirstAt(path, ":", 1) = 0 ->
                          <<fs, ":">> \o path
                     [] VlPath_IsAbsolute(path) /\ FirstAt(path, ":", 1) # 0 -> path
                     [] OTHER -> VlPath_Join(inst.path, path),
                   ShPath)

(* A relative path that names no element closes the directory it keeps.    *)
Moved(l, text, argv, inst, reached, fault) ==
  IF reached.cur = inst.dir THEN Gone
  ELSE /\ SetInst([inst EXCEPT
            !.fs = reached.dirs[reached.cur].fs,
            !.dir = reached.cur,
            !.path = NewPath(inst, reached.dirs[reached.cur].fs, argv[2]),
            !.fit = (VlPath_IsAbsolute(argv[2]) \/ inst.fit) /\ DepthsFit(inst, argv[2])])
       /\ sdirs' = CloseDirectory(reached.dirs, inst.dir)
       /\ FaultUsed(fault)
       /\ Saw(l, text, argv, 0, {})
       /\ UNCHANGED <<scmds, sleaks, slost>>

Unreached(l, text, argv, reached, fault) ==
  /\ sdirs' = reached.dirs
  /\ FaultUsed(fault)
  /\ Saw(l, text, argv, 1, {})
  /\ UNCHANGED <<sstack, scmds, sleaks, slost>>

chdir_handler(l, text, argv, inst) ==
  IF Len(argv) < 2 THEN Replies(l, text, argv, 1, {})
  ELSE \E fault \in Faults(argv[2]) : \E reached \in {Reach(inst, sdirs, argv[2], fault)} :
         IF reached.ok THEN Moved(l, text, argv, inst, reached, fault)
         ELSE Unreached(l, text, argv, reached, fault)

(* list_directory prints all but the dot entries.                          *)
list_directory(place) ==
  {Last(p) : p \in {q \in (Trees[place.fs] \cup TreeFiles[place.fs]) \ {<<>>} :
                      Front(q) = place.names}}

(* A directory opened for listing is not closed.                           *)
ShowsEntries(l, text, argv, inst, reached, fault) ==
  /\ sdirs' = reached.dirs
  /\ sleaks' = IF reached.cur = inst.dir THEN sleaks ELSE sleaks + 1
  /\ FaultUsed(fault)
  /\ Saw(l, text, argv, 0, list_directory(reached.dirs[reached.cur]))
  /\ UNCHANGED <<sstack, scmds, slost>>

lsfile_handler(l, text, argv, inst) ==
  IF Len(argv) < 2
  THEN IF inst.dir = NoDirectory THEN Replies(l, text, argv, 1, {})
       ELSE Replies(l, text, argv, 0, list_directory(sdirs[inst.dir]))
  ELSE \E fault \in Faults(argv[2]) : \E reached \in {Reach(inst, sdirs, argv[2], fault)} :
         IF reached.ok THEN ShowsEntries(l, text, argv, inst, reached, fault)
         ELSE Unreached(l, text, argv, reached, fault)

Valued(vals, key, value) ==
  [k \in DOMAIN vals \cup {key} |-> IF k = key THEN value ELSE vals[k]]

set_handler(l, text, argv, inst) ==
  IF Len(argv) # 3 THEN Replies(l, text, argv, 1, {})
  ELSE IF Strays(inst.vars, argv[2]) THEN Gone
  ELSE \E ended \in BOOLEAN :
         /\ SetInst([inst EXCEPT
              !.vars = VlShell_SetVariable(inst.vars, argv[2], argv[3], ended),
              !.vals = Valued(inst.vals, argv[2], argv[3])])
         /\ Saw(l, text, argv, 0, {})
         /\ UNCHANGED <<scmds, sdirs, sleaks, sfaults, slost>>

help_handler(l, text, argv) ==
  Replies(l, text, argv, 0,
          {scmds[n] : n \in {k \in 1..Len(scmds) : Len(argv) > 1 => <<scmds[k]>> = argv[2]}})

(* The new shell's first line is the next one typed.                       *)
shell_handler(l, text, argv) ==
  /\ Len(sstack) < ShMaxDepth
  /\ sstack' = Append(sstack, NewInstance)
  /\ sseen' = NothingSeen
  /\ UNCHANGED <<scmds, sdirs, sleaks, sfaults, slost>>

(* The innermost shell returns 0; its directory stays open.  A script's    *)
(* "exit" runs in the global instance and ends nothing.                    *)
Exit(l, text, argv) ==
  IF Len(sstack) = 1 THEN Replies(l, text, argv, -1, {})
  ELSE /\ sstack' = Front(sstack)
       /\ sleaks' = IF Inst.dir = NoDirectory THEN sleaks ELSE sleaks + 1
       /\ sseen' = NothingSeen
       /\ UNCHANGED <<scmds, sdirs, sfaults, slost>>

IsCommand(argv, name) == argv # <<>> /\ argv[1] = <<name>>

Registered == {scmds[n] : n \in 1..Len(scmds)}

Handled(l, text, argv) ==
  \/ argv = <<>> /\ Replies(l, text, argv, 0, {})
  \/ IsCommand(argv, "exit") /\ Exit(l, text, argv)
  \/ IsCommand(argv, "cd") /\ chdir_handler(l, text, argv, Inst)
  \/ IsCommand(argv, "ls") /\ lsfile_handler(l, text, argv, Inst)
  \/ IsCommand(argv, "set") /\ set_handler(l, text, argv, Inst)
  \/ IsCommand(argv, "help") /\ help_handler(l, text, argv)
  \/ IsCommand(argv, "shell") /\ shell_handler(l, text, argv)
  \/ /\ argv # <<>>
     /\ \A name \in {"exit", "cd", "ls", "set", "help", "shell"} : argv[1] # <<name>>
     /\ Replies(l, text, argv, IF \E c \in Registered : argv[1] = <<c>> THEN 0 ELSE 1, {})

VlShell_Execute(l, keys) ==
  \E text \in {VlShell_Expand(Inst.vars, keys)} :
    IF text.stray \/ Len(text.text) = ShLine THEN Gone
    ELSE IF Len(text.text) > ShLine THEN Replies(l, text.text, <<>>, 1, {})
    ELSE \E args \in {Arguments(text.text)} :
           IF args.stray THEN Gone ELSE Handled(l, text.text, args.argv)

(***************************************************************************)
(* Steps                                                                   *)
(***************************************************************************)
Prompting == ~slost /\ scalls < ShMaxCalls /\ sprobe = <<>>

(* A line typed in the innermost shell, or, when none runs, a script's     *)
(* line: VlShell_Execute(NULL, line).                                      *)
ShellLine ==
  /\ Prompting
  /\ \E n \in 1..Len(Typed) :
       /\ Len(sstack) = 1 => ~Contains(Typed[n].typed, Backspace)
       /\ VlShell_Execute(Typed[n], IF Len(sstack) = 1 THEN Typed[n].typed
                                    ELSE VlShell_Readline(Typed[n].typed, ShRead))
  /\ scalls' = scalls + 1
  /\ UNCHANGED sprobe

VlShell_RegisterCommand(cmd) == scmds' = Append(scmds, cmd)

(* Never the first one.                                                    *)
VlShell_UnregisterCommand(cmd) ==
  scmds' = <<scmds[1]>> \o SelectSeq(Tail(scmds), LAMBDA c : c # cmd)

ShellModule ==
  /\ Prompting
  /\ \E cmd \in ShModule : IF cmd \in Registered THEN VlShell_UnregisterCommand(cmd)
                           ELSE VlShell_RegisterCommand(cmd)
  /\ scalls' = scalls + 1
  /\ sseen' = NothingSeen
  /\ UNCHANGED <<sstack, sdirs, sleaks, sprobe, sfaults, slost>>

ShellInit ==
  /\ sstack = <<NewInstance>>
  /\ scmds = ShBuiltin
  /\ sdirs = <<>>
  /\ sseen = NothingSeen
  /\ sleaks = 0
  /\ sprobe = <<>>
  /\ sfaults = 0 /\ scalls = 0 /\ slost = FALSE

(* VlPath_Normalize is given a path.                                       *)
ShellProbe ==
  /\ Prompting /\ scalls = 0
  /\ sprobe' \in Probes
  /\ UNCHANGED <<sstack, scmds, sdirs, sseen, sleaks, sfaults, scalls, slost>>

ShellNext == ShellLine \/ ShellModule \/ ShellProbe

(***************************************************************************)
(* What the shell promises                                                 *)
(***************************************************************************)
(* What a path without dots and doubled separators names.                  *)
NamesIn(path) ==
  SelectSeq(SubSeq(path, FirstAt(path, ":", 1) + 1, Len(path)), LAMBDA c : c # "/")

Wanted(elements) == SelectSeq(elements, LAMBDA e : e \notin {<<>>, <<".">>})

Resolved(elements) ==
  LET upto[n \in 0..Len(elements)] ==
        IF n = 0 THEN <<>>
        ELSE IF elements[n] # Dots THEN Append(upto[n - 1], elements[n])
        ELSE SubSeq(upto[n - 1], 1, Len(upto[n - 1]) - 1)
  IN upto[Len(elements)]

Climbs(elements) ==
  \E n \in 1..Len(elements) :
    Cardinality({k \in 1..n : elements[k] = Dots}) * 2 > n

Slashed(elements) ==
  LET upto[n \in 0..Len(elements)] ==
        IF n = 0 THEN <<>>
        ELSE IF n = 1 THEN elements[1] ELSE VlPath_Join(upto[n - 1], elements[n])
  IN upto[Len(elements)]

(* VlPath_Normalize keeps what a path names: behind a root, and behind a   *)
(* file system's name where the path does not climb above its start, every *)
(* ".." is carried out and one separator stands between two names; of a    *)
(* plain relative path only the empty and the "." elements go.             *)
ProbeRight(probe, normal) ==
  LET elements == Wanted(Elements(probe))
      rooted == VlPath_IsAbsolute(probe)
      named == FirstAt(probe, ":", 1) # 0
      prefix == SubSeq(probe, 1, FirstAt(probe, ":", 1))
      whole == prefix \o <<"/">> \o Slashed(Resolved(elements))
  IN CASE rooted \/ (named /\ ~Climbs(elements)) ->
            normal = whole \/ (~rooted /\ Resolved(elements) = <<>> /\ normal = prefix)
       [] ~rooted /\ ~named ->
            normal = IF elements = <<>> THEN <<".">> ELSE Slashed(elements)
       [] OTHER -> TRUE

(* The working directory is open, no two shells share it, and it is the    *)
(* directory that the displayed path names, as long as the path fits.      *)
WorkingRight ==
  \A n \in 1..Len(sstack) :
    LET inst == sstack[n]
    IN IF inst.dir = NoDirectory THEN inst.fs = "" /\ inst.path = <<>>
       ELSE /\ inst.dir \in DOMAIN sdirs
            /\ sdirs[inst.dir].fs = inst.fs
            /\ \A k \in 1..(n - 1) : sstack[k].dir # inst.dir
            /\ inst.fit => /\ inst.path[1] = inst.fs
                           /\ NamesIn(inst.path) = sdirs[inst.dir].names

(* Nothing else is open but what ls opened and ended shells left behind.   *)
NothingElseOpen ==
  Cardinality(DOMAIN sdirs)
    = Cardinality({n \in 1..Len(sstack) : sstack[n].dir # NoDirectory}) + sleaks

(* ls shows the entries of the directory its path names.                   *)
ListingRight ==
  LET argv == sseen.argv
  IN IsCommand(argv, "ls") /\ sseen.result = 0 /\ Inst.fit /\ Inst.fs # "" =>
       \E path \in {VlPath_Normalize(
            IF Len(argv) < 2 THEN Inst.path
            ELSE IF ~VlPath_IsAbsolute(argv[2]) THEN VlPath_Join(Inst.path, argv[2])
            ELSE IF FirstAt(argv[2], ":", 1) = 0 THEN <<Inst.fs, ":">> \o argv[2]
            ELSE argv[2], 100)} :
         sseen.shown = list_directory(Spot(path[1], NamesIn(path)))

=============================================================================
