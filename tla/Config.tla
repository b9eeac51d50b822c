------------------------------- MODULE Config -------------------------------
(***************************************************************************)
(* The loader's main program: setup_tty, read_config, show_menu and main   *)
(* of core/main.c, and the JSON parser (json/json.c) that reads            *)
(* boot:/config/boot.json.                                                 *)
(*                                                                         *)
(* A text is a sequence of tokens: punctuation, blanks, digits, and one    *)
(* token for a word inside quotes and for each of true, false and null.    *)
(* The file may be cut short.  The parser looks at the byte behind the     *)
(* text, which is not the file's: it is one of CfPast.  What it may read   *)
(* further on never decides anything, since every cursor behind the end    *)
(* is refused.  Running a script is noted in cran.                         *)
(***************************************************************************)
EXTENDS Integers, Sequences, FiniteSets, SequencesExt

CONSTANTS
  CfDocs,       \* a function: documents, their text and the value written
  CfShort,      \* the documents that may be cut short
  CfPast,       \* what may lie behind the text
  CfKeys        \* keys pressed at most

VARIABLES cphase, cfile, cdata, cset, cstack, cran, cchosen, ckeys

configVars == <<cphase, cfile, cdata, cset, cstack, cran, cchosen, ckeys>>

-----------------------------------------------------------------------------
(* The parser.  Cursors count from 0, as in the code. *)

Blanks == {" ", "\n"}
Quote == "\""
NumberDigits == <<"0", "1", "2", "3", "4", "5", "6", "7", "8", "9">>
DigitOf(c) == CHOOSE d \in 0 .. 9 : NumberDigits[d + 1] = c
IsDigit(c) == c \in ToSet(NumberDigits)

AtEnd(t, i) == i >= Len(t.text)
CharAt(t, i) == IF AtEnd(t, i) THEN t.past ELSE t.text[i + 1]

Wrong == [ok |-> FALSE, at |-> 0, val |-> <<>>]
Right(at, val) == [ok |-> TRUE, at |-> at, val |-> val]

skip_whitespace(t, i) ==
  IF AtEnd(t, i) THEN i
  ELSE CHOOSE j \in i .. Len(t.text) : /\ AtEnd(t, j) \/ CharAt(t, j) \notin Blanks
                                       /\ \A k \in i .. (j - 1) : CharAt(t, k) \in Blanks

\* A string ends at its quote; a backslash and the character behind it are left out.
\* Something has to follow the quote.
Longer(c, r) == IF r.ok THEN Right(r.at, <<c>> \o r.val) ELSE Wrong
StringBody(t, from) ==
  LET f[i \in from .. (Len(t.text) + 1)] ==
        IF AtEnd(t, i) THEN Wrong
        ELSE IF CharAt(t, i) = "\\" THEN f[i + 2]
        ELSE IF CharAt(t, i) = Quote THEN IF AtEnd(t, i + 1) THEN Wrong ELSE Right(i + 1, <<>>)
        ELSE Longer(CharAt(t, i), f[i + 1])
  IN f[from]
parse_string_literal(t, i) == IF CharAt(t, i) # Quote THEN Wrong ELSE StringBody(t, i + 1)

JStr(s) == [type |-> "str", str |-> s]
JNum(n) == [type |-> "num", num |-> n]
JBool(b) == [type |-> "bool", boolean |-> b]
JNull == [type |-> "null"]
JArr(e) == [type |-> "arr", elem |-> e]
JObj(e) == [type |-> "obj", elem |-> e]

Missing == [type |-> "none"]

StringValue(r) == IF r.ok THEN Right(r.at, JStr(r.val)) ELSE Wrong
parse_string(t, i) == StringValue(parse_string_literal(t, i))

NumberEnd(t, i) ==
  CHOOSE j \in i .. Len(t.text) : /\ AtEnd(t, j) \/ ~IsDigit(CharAt(t, j))
                                  /\ \A k \in i .. (j - 1) : IsDigit(CharAt(t, k))
NumberOf(t, i, j) == LET n[k \in i .. j] == IF k = i THEN 0 ELSE (n[k - 1] * 10) + DigitOf(CharAt(t, k - 1)) IN n[j]
parse_number(t, i) ==
  IF AtEnd(t, i + 1) THEN Wrong
  ELSE IF CharAt(t, i) = "-" THEN Right(NumberEnd(t, i + 1), JNum(-NumberOf(t, i + 1, NumberEnd(t, i + 1))))
  ELSE Right(NumberEnd(t, i), JNum(NumberOf(t, i, NumberEnd(t, i))))

parse_other(t, i) ==
  IF AtEnd(t, i + 1) THEN Wrong
  ELSE Right(i + 1, CASE CharAt(t, i) = "true" -> JBool(TRUE) [] CharAt(t, i) = "false" -> JBool(FALSE)
                      [] CharAt(t, i) = "null" -> JNull)

\* Behind an element: the closing bracket, or a comma.  The cursor moves on by one
\* behind the bracket and by two behind the comma, and may not reach the end.
Closes(t, close, i) == CharAt(t, i) = close /\ ~AtEnd(t, i + 1)
Continues(t, i) == CharAt(t, i) = "," /\ ~AtEnd(t, i + 1) /\ ~AtEnd(t, i + 2)

\* p is the parser: by what is expected, and the cursor.  What is read in front of a
\* list is joined to it.
Joined(first, rest) == IF rest.ok THEN [rest EXCEPT !.val.elem = <<first>> \o @] ELSE Wrong
Element(p, t, v, i) ==
  IF ~v.ok THEN Wrong
  ELSE IF Closes(t, "]", i) THEN Right(i + 1, JArr(<<v.val>>))
  ELSE IF Continues(t, i) THEN Joined(v.val, p["elements", i + 2])
  ELSE Wrong
parse_array(p, t, i) == IF AtEnd(t, i + 1) THEN Wrong ELSE p["elements", i + 1]

Member(p, t, key, v, i) ==
  IF ~v.ok THEN Wrong
  ELSE IF Closes(t, "}", i) THEN Right(i + 1, JObj(<<[key |-> key, value |-> v.val]>>))
  ELSE IF Continues(t, i) THEN Joined([key |-> key, value |-> v.val], p["members", i + 2])
  ELSE Wrong
Colon(t, key, i) == key.ok /\ CharAt(t, i) = ":" /\ ~AtEnd(t, i + 1)
parse_object(p, t, i) == IF AtEnd(t, i + 1) THEN Wrong ELSE p["members", i + 1]

parse_value(p, t, i) ==
  CASE CharAt(t, i) = "{" -> parse_object(p, t, i)
    [] CharAt(t, i) = "[" -> parse_array(p, t, i)
    [] CharAt(t, i) = Quote -> parse_string(t, i)
    [] IsDigit(CharAt(t, i)) \/ CharAt(t, i) = "-" -> parse_number(t, i)
    [] CharAt(t, i) \in {"true", "false", "null"} -> parse_other(t, i)
    [] OTHER -> Wrong

Expected == {"value", "members", "elements"}
VlJson_Parse(t) ==
  LET p[k \in Expected, i \in 0 .. Len(t.text)] ==
        CASE k = "value" -> parse_value(p, t, skip_whitespace(t, i))
          [] k = "elements" -> LET v == p["value", i] IN Element(p, t, v, skip_whitespace(t, v.at))
          [] k = "members" ->
               LET key == parse_string_literal(t, skip_whitespace(t, i))
                   j == skip_whitespace(t, key.at)
                   v == IF Colon(t, key, j) THEN p["value", j + 1] ELSE Wrong
               IN Member(p, t, key.val, v, skip_whitespace(t, v.at))
  IN p["value", 0]

\* The first member of that name.
Keyed(obj, key) == {i \in DOMAIN obj.elem : obj.elem[i].key = <<key>>}
FirstKeyed(obj, S) == IF S = {} THEN Missing ELSE obj.elem[CHOOSE i \in S : \A j \in S : i <= j].value
VlJson_GetObjectElementValue(obj, key) == FirstKeyed(obj, Keyed(obj, key))
VlJson_GetArrayElementValue(arr, idx) == IF idx + 1 \in DOMAIN arr.elem THEN arr.elem[idx + 1] ELSE Missing
VlJson_GetArrayElementCount(arr) == Len(arr.elem)

-----------------------------------------------------------------------------
(* read_config *)

\* A script is a string or an array of strings; those in front of another value run.
Strings(v) == IF v.type = "str" THEN <<v.str>> ELSE [i \in DOMAIN v.elem |-> v.elem[i].str]
GoodRun(v) == CHOOSE n \in 0 .. Len(v.elem) : /\ \A i \in 1 .. n : v.elem[i].type = "str"
                                              /\ n < Len(v.elem) => v.elem[n + 1].type # "str"
Executed(v, n) == [ran |-> Strings([type |-> "arr", elem |-> SubSeq(v.elem, 1, n)]), panic |-> n < Len(v.elem)]
RunScript(v) ==
  CASE v.type = "none" -> [ran |-> <<>>, panic |-> FALSE]
    [] v.type = "str" -> [ran |-> Strings(v), panic |-> FALSE]
    [] v.type = "arr" -> Executed(v, GoodRun(v))
    [] OTHER -> [ran |-> <<>>, panic |-> TRUE]

NoSettings == [password |-> Missing, offset |-> 0, utc |-> FALSE]
Defaults == [password |-> Missing, offset |-> 0, utc |-> TRUE]

\* A time zone's name leaves the offset as it was.
Offset(v) == IF v.type = "num" THEN v.num ELSE 0
Settings(password, timezone, rtc_utc) ==
  [password |-> password, offset |-> Offset(timezone), utc |-> IF rtc_utc.type = "bool" THEN rtc_utc.boolean ELSE TRUE]
TypesRight(password, timezone, rtc_utc) ==
  password.type \in {"none", "str"} /\ timezone.type \in {"none", "str", "num"} /\ rtc_utc.type \in {"none", "bool"}

Panic == cphase' = "panic" /\ UNCHANGED <<cfile, cdata, cset, cstack, cran, cchosen, ckeys>>

Started(data, run) ==
  /\ cran' = run.ran
  /\ cphase' = IF run.panic THEN "panic" ELSE "menu"
  /\ cdata' = data
  /\ UNCHANGED <<cfile, cstack, cchosen, ckeys>>

Configure(data, password, timezone, rtc_utc) ==
  IF TypesRight(password, timezone, rtc_utc)
  THEN /\ cset' = Settings(password, timezone, rtc_utc)
       /\ Started(data, RunScript(VlJson_GetObjectElementValue(data, "start_script")))
  ELSE Panic

Parsed(r) ==
  IF ~r.ok \/ r.val.type # "obj" THEN Panic
  ELSE Configure(r.val, VlJson_GetObjectElementValue(r.val, "password"),
                 VlJson_GetObjectElementValue(r.val, "timezone"), VlJson_GetObjectElementValue(r.val, "rtc_utc"))

Documents == CfDocs
TextOf(f) == [text |-> SubSeq(Documents[f.doc].text, 1, Len(Documents[f.doc].text) - f.cut), past |-> f.past]

read_config ==
  /\ cphase = "config"
  /\ IF cfile.doc = "none"
     THEN cset' = Defaults /\ cphase' = "menu" /\ UNCHANGED <<cfile, cdata, cstack, cran, cchosen, ckeys>>
     ELSE \E r \in {VlJson_Parse(TextOf(cfile))} : Parsed(r)

-----------------------------------------------------------------------------
(* setup_tty *)

\* What it asks for, in order; the first that is not there ends the loader.
TtySteps == <<"video0", "framebuffer", "vconsole driver", "vconsole", "console", "ansiterm driver", "ansiterm",
              "stdout", "stderr", "stdin">>

setup_tty ==
  /\ cphase = "start"
  /\ IF cfile.lacks \in ToSet(TtySteps) THEN Panic
     ELSE cphase' = "config" /\ UNCHANGED <<cfile, cdata, cset, cstack, cran, cchosen, ckeys>>

-----------------------------------------------------------------------------
(* show_menu: the innermost menu is the last of cstack. *)

OptionsOf(menu) == VlJson_GetObjectElementValue(menu, "options")
Count(menu) == VlJson_GetArrayElementCount(OptionsOf(menu))
DefaultOf(v) == IF v.type = "num" THEN v.num ELSE 0
Selection(menu) == DefaultOf(VlJson_GetObjectElementValue(menu, "default"))

\* What the menu and the drawing of its options ask for.
CanDraw(option) == option.type = "obj" /\ VlJson_GetObjectElementValue(option, "name").type = "str"
CanShow(menu) ==
  /\ VlJson_GetObjectElementValue(menu, "title").type \in {"none", "str"}
  /\ VlJson_GetObjectElementValue(menu, "timeout").type \in {"none", "num"}
  /\ VlJson_GetObjectElementValue(menu, "default").type \in {"none", "num"}
  /\ cfile.lacks # "kbd0"
  /\ OptionsOf(menu).type = "arr" /\ \A i \in DOMAIN OptionsOf(menu).elem : CanDraw(OptionsOf(menu).elem[i])

\* way: the options that led here.
Frame(menu, way) == [menu |-> menu, way |-> way, selection |-> Selection(menu)]

Opened(stack, menu, way, ran) ==
  /\ cran' = ran
  /\ IF CanShow(menu) THEN cstack' = Append(stack, Frame(menu, way)) /\ cphase' = "keys"
     ELSE cstack' = stack /\ cphase' = "panic"

ToShell(ran) == cran' = ran /\ cphase' = "shell" /\ cstack' = <<>>

\* main, behind read_config.
MainMenu(menu) ==
  CASE menu.type = "none" -> ToShell(cran)
    [] menu.type = "obj" -> Opened(<<>>, menu, <<>>, cran)
    [] OTHER -> cphase' = "panic" /\ UNCHANGED <<cstack, cran>>

main ==
  /\ cphase = "menu"
  /\ IF cdata = Missing THEN ToShell(cran) ELSE MainMenu(VlJson_GetObjectElementValue(cdata, "menu"))
  /\ UNCHANGED <<cfile, cdata, cset, cchosen, ckeys>>

IsRoot(stack) == Len(stack) = 1
Key(new) ==
  /\ cphase = "keys"
  /\ ckeys < CfKeys
  /\ ckeys' = ckeys + 1
  /\ cstack' = [cstack EXCEPT ![Len(cstack)].selection = new]
  /\ UNCHANGED <<cphase, cfile, cdata, cset, cran, cchosen>>

Current == Last(cstack)

KeyUp == cphase = "keys" /\ Key(IF Current.selection > 0 THEN Current.selection - 1 ELSE Current.selection)

\* The comparison is unsigned: a selection below 0 is above every limit.
DownLimit(stack) == IF IsRoot(stack) THEN Count(Last(stack).menu) - 1 ELSE Count(Last(stack).menu)
KeyDown ==
  /\ cphase = "keys"
  /\ Key(IF Current.selection >= 0 /\ Current.selection < DownLimit(cstack) THEN Current.selection + 1
         ELSE Current.selection)

\* Another key, a key released, a wait or a poll that fails.
KeyNone == cphase = "keys" /\ Key(Current.selection)

\* The option's submenu, behind its script; without one every menu ends.
Submenu(sub, way, ran) ==
  CASE sub.type = "none" -> ToShell(ran)
    [] sub.type = "obj" -> Opened(cstack, sub, way, ran)
    [] OTHER -> cran' = ran /\ cphase' = "panic" /\ UNCHANGED cstack

Run(option, way, run) ==
  IF run.panic THEN cran' = cran \o run.ran /\ cphase' = "panic" /\ UNCHANGED cstack
  ELSE Submenu(VlJson_GetObjectElementValue(option, "submenu"), way, cran \o run.ran)

Choose(option, way) ==
  IF option.type # "obj" THEN cphase' = "panic" /\ UNCHANGED <<cstack, cran>>
  ELSE Run(option, way, RunScript(VlJson_GetObjectElementValue(option, "script")))

\* Go Back: the menu above starts anew with its default.
Reselect(stack) == [stack EXCEPT ![Len(stack)].selection = Selection(Last(stack).menu)]
GoBack ==
  IF IsRoot(cstack) THEN ToShell(cran)
  ELSE cstack' = Reselect(Front(cstack)) /\ UNCHANGED <<cphase, cran>>

KeyEnter ==
  /\ cphase = "keys"
  /\ ckeys < CfKeys
  /\ ckeys' = ckeys + 1
  /\ cchosen' = Append(cchosen, Append(Current.way, Current.selection))
  /\ IF Current.selection = Count(Current.menu) THEN GoBack
     ELSE Choose(VlJson_GetArrayElementValue(OptionsOf(Current.menu), Current.selection),
                 Append(Current.way, Current.selection))
  /\ UNCHANGED <<cfile, cdata, cset>>

-----------------------------------------------------------------------------
Files == [doc : DOMAIN Documents \ {"none"}, cut : {0}, past : CfPast, lacks : {"nothing"}]
CutFiles(d) == [doc : {d}, cut : 1 .. Len(Documents[d].text), past : CfPast, lacks : {"nothing"}]
Others == [doc : {"none"}, cut : {0}, past : {" "}, lacks : {"nothing", "kbd0"} \cup ToSet(TtySteps)]

ConfigStart(f) ==
  /\ cphase = "start" /\ cfile = f /\ cdata = Missing /\ cset = NoSettings
  /\ cstack = <<>> /\ cran = <<>> /\ cchosen = <<>> /\ ckeys = 0

ConfigInit == \E f \in Files \cup Others \cup UNION {CutFiles(d) : d \in CfShort} : ConfigStart(f)

ConfigNext == setup_tty \/ read_config \/ main \/ KeyUp \/ KeyDown \/ KeyNone \/ KeyEnter

-----------------------------------------------------------------------------
(* What a configuration means, from the value written. *)

Written == Documents[cfile.doc].value
Whole == cfile.doc # "none" /\ cfile.cut = 0
Get(v, key) == IF v.type = "obj" THEN VlJson_GetObjectElementValue(v, key) ELSE Missing

OptionSet(menu) == IF Get(menu, "options").type = "arr" THEN ToSet(Get(menu, "options").elem) ELSE {}
SubmenusOf(S) == {Get(o, "submenu") : o \in UNION {OptionSet(x) : x \in S}} \ {Missing}
MenuLevels(S) == S \cup SubmenusOf(S) \cup SubmenusOf(SubmenusOf(S))

IsScript(v) == \/ v.type \in {"none", "str"}
               \/ v.type = "arr" /\ \A i \in DOMAIN v.elem : v.elem[i].type = "str"
SoundMenu(x, top) ==
  /\ x.type = "obj"
  /\ Get(x, "title").type \in {"none", "str"} /\ Get(x, "timeout").type \in {"none", "num"}
  /\ Get(x, "options").type = "arr"
  /\ \A o \in OptionSet(x) : Get(o, "name").type = "str" /\ IsScript(Get(o, "script"))
  /\ Get(x, "default").type \in {"none", "num"}
  /\ DefaultOf(Get(x, "default")) \in 0 .. (Len(Get(x, "options").elem) - (IF top THEN 1 ELSE 0))

\* A configuration whose values have the types the program asks for.
SoundConfig(v) ==
  /\ v.type = "obj"
  /\ TypesRight(Get(v, "password"), Get(v, "timezone"), Get(v, "rtc_utc"))
  /\ IsScript(Get(v, "start_script"))
  /\ Get(v, "menu") = Missing \/ (/\ SoundMenu(Get(v, "menu"), TRUE)
                                  /\ \A x \in MenuLevels({Get(v, "menu")}) \ {Get(v, "menu")} : SoundMenu(x, FALSE))

\* The option a way of selections leads to, in what was written.
OptionAt(menu, i) == IF i + 1 \in DOMAIN Get(menu, "options").elem THEN Get(menu, "options").elem[i + 1] ELSE Missing
OptionOn(way) ==
  LET o[n \in DOMAIN way] == OptionAt(IF n = 1 THEN Get(Written, "menu") ELSE Get(o[n - 1], "submenu"), way[n])
  IN o[Len(way)]

ScriptOf(v) == IF v.type = "none" THEN <<>> ELSE Strings(v)
ScriptsMeant ==
  LET s[n \in 0 .. Len(cchosen)] ==
        IF n = 0 THEN ScriptOf(Get(Written, "start_script"))
        ELSE s[n - 1] \o ScriptOf(Get(OptionOn(cchosen[n]), "script"))
  IN s[Len(cchosen)]

\* A way one entry past the options is "Go Back": a menu is left for the one above.
SelectionsIn == \A i \in DOMAIN cstack : cstack[i].selection \in 0 .. (Count(cstack[i].menu) - (IF i = 1 THEN 1 ELSE 0))

=============================================================================
