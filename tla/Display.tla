------------------------------ MODULE Display -------------------------------
(***************************************************************************)
(* What the loader writes on the screen: the terminal with its escape      *)
(* sequences (device/char/ansiterm.c) on a console (device/video/          *)
(* vconsole.c) on the graphics card (device/video/vga.c), and the vmode    *)
(* command.                                                                *)
(*                                                                         *)
(* d holds all three devices.  In a text mode the console hands its calls  *)
(* to the card's console; d.con keeps both, "vga" and "frame".  A buffer   *)
(* is a function of the index y * width + x, as in the code, and an access *)
(* outside it sets d.lost, from which nothing is followed.  Pixels are     *)
(* kept per character cell: the drawing in the frame buffer and its copy   *)
(* on the screen.                                                          *)
(***************************************************************************)
EXTENDS Glyphs, FiniteSets, TLC

CONSTANTS
    DspMachines,  \* [vbe, list, answers, font]: VBE, its modes, whether it knows
                  \* the modes of the card, whether a font file is in use
    DspVgaCols,   \* columns of the modes 0x00 and 0x03 of the card
    DspVgaRows,   \* their rows
    DspStates,    \* what the terminal may find in the state it does not set
    DspTexts,     \* the texts to write after so many changes of the mode
    DspPiece,     \* bytes of a write that does not write all that is left
    DspSwitches   \* how often the mode may be changed

VARIABLES
    dmach,  \* the machine
    d,      \* the devices; NoDisplay before and without them
    dtext,  \* the characters being written
    dpos,   \* bytes of dtext already passed to write()
    dbase,  \* d when the text was begun
    dswitches

displayVars == <<dmach, d, dtext, dpos, dbase, dswitches>>

NoDisplay == [lost |-> FALSE, none |-> TRUE]
NoText == <<>>
RightHalf == -1     \* the codepoint 0xFFFFFFFF behind a wide character

Black == [fg |-> 0, bg |-> 0, blink |-> 0, bold |-> 0, dim |-> 0, italic |-> 0,
          underline |-> 0, strike |-> 0, overlined |-> 0, reversed |-> 0]
Plain == [Black EXCEPT !.fg = palette(15)]
Blank == [cp |-> 0, attr |-> Black]

-----------------------------------------------------------------------------
(* The video modes, vga.c. *)

VgaModes ==
    [m \in {\h00, \h03} |-> [mode |-> m, text |-> TRUE, w |-> DspVgaCols[m], h |-> DspVgaRows, bpp |-> 0]]

Usable(m) == m.model \in {"direct", "text"}
Offers(mach) == \E i \in 1..Len(mach.list) : mach.list[i].mode < \h100
VbeInfo(m) == [mode |-> m.mode, text |-> m.model = "text", w |-> m.w, h |-> m.h, bpp |-> m.bpp]

get_mode_info_vga(mode) ==
    LET num == IF mode < 0 THEN \h00 ELSE mode
    IN  IF num \in DOMAIN VgaModes
        THEN [status |-> "ok", info |-> VgaModes[num], next |-> IF num = \h00 THEN \h03 ELSE -1]
        ELSE [status |-> "not found"]

\* The first usable mode, or the one asked for if it is usable; the next one
\* is the usable mode behind it.  A BIOS that lists modes below 0x100 has no
\* more to add, and one asked for such a mode that it does not list answers
\* without filling the information in.
get_mode_info_vbe(mach, mode) ==
    LET asked == SelectSeq(mach.list, Usable)
        at == IF mode < 0 THEN IF asked = <<>> THEN 0 ELSE 1
              ELSE SelectInSeq(asked, LAMBDA m : m.mode = mode)
    IN  IF at # 0 THEN
             [status |-> "ok", info |-> VbeInfo(asked[at]),
              next |-> IF at < Len(asked) THEN asked[at + 1].mode
                       ELSE IF Offers(mach) THEN -1 ELSE \h00]
        ELSE IF Offers(mach) THEN [status |-> "unfilled"]
        ELSE get_mode_info_vga(mode)

get_mode_info(mach, mode) ==
    IF mach.vbe THEN get_mode_info_vbe(mach, mode) ELSE get_mode_info_vga(mode)

\* The walk of the vmode command over the modes, at most n of them.
RECURSIVE DspWalk(_, _, _)
DspWalk(mach, mode, n) ==
    LET answer == get_mode_info(mach, mode)
    IN  IF n = 0 \/ answer.status # "ok" THEN <<>>
        ELSE <<answer.info>> \o
             (IF answer.next < 0 THEN <<>> ELSE DspWalk(mach, answer.next, n - 1))
list_modes(mach) == DspWalk(mach, -1, Len(mach.list) + 3)

-----------------------------------------------------------------------------
(* The consoles. *)

Con(t) == IF t.text THEN "vga" ELSE "frame"
Width(t) == t.con[Con(t)].w
Height(t) == t.con[Con(t)].h
Buf(t) == t.con[Con(t)].buf
X(t) == t.con[Con(t)].x
Y(t) == t.con[Con(t)].y
Lost(t) == [t EXCEPT !.lost = TRUE]

NewBuffer(w, h) == [i \in 0..(w * h - 1) |-> Blank]

\* The card's console keeps a coordinate given as negative, vconsole does not.
set_cursor_pos(t, col, row) ==
    IF t.text
    THEN [t EXCEPT !.con["vga"].x = IF col < 0 THEN @ ELSE col,
                   !.con["vga"].y = IF row < 0 THEN @ ELSE row]
    ELSE [t EXCEPT !.con["frame"].x = col, !.con["frame"].y = row]

\* Stores into the buffer and marks, or stores and does not mark.
Store(t, cells, cell) ==
    IF cells \subseteq DOMAIN Buf(t)
    THEN [t EXCEPT !.con[Con(t)].buf = [i \in DOMAIN @ |-> IF i \in cells THEN cell ELSE @[i]]]
    ELSE Lost(t)

invalidate(t, cells) == [t EXCEPT !.con[Con(t)].dirty = @ \cup (cells \cap DOMAIN Buf(t))]

\* The byte and the colours of one cell of the text screen.
VgaCell(c) ==
    LET byte == VlEnc_Utf32ToCp437(c.cp)
        front == rgb_to_irgb(IF c.attr.reversed = 1 THEN c.attr.bg ELSE c.attr.fg)
        back == rgb_to_irgb(IF c.attr.reversed = 1 THEN c.attr.fg ELSE c.attr.bg)
    IN  <<IF byte = NoByte THEN 63 ELSE byte,
          IF c.attr.dim = 1 THEN front % 8 ELSE front, IF c.attr.dim = 1 THEN back % 8 ELSE back>>

con_flush(t) ==
    LET c == t.con["vga"]
    IN  [t EXCEPT !.screen = [i \in DOMAIN @ |-> IF i \in c.dirty THEN VgaCell(c.buf[i]) ELSE @[i]],
                  !.con["vga"].dirty = {},
                  !.lost = @ \/ \E i \in c.dirty : VgaCell(c.buf[i])[1] = Astray]

\* The regions of 16 by 16 pixels, two cells each, that cover columns of a row.
Regions(t, row, cols) == {<<row, (8 * col) \div 16>> : col \in cols}

\* draw_char(): the glyph of a font file may be 16 pixels wide; the built-in
\* font has only glyphs of 8 pixels and shows a box for most characters.
draw_char(t, i) ==
    LET cell == t.con["frame"].buf[i]
        w == t.con["frame"].w
        wide == t.font /\ wcwidth(cell.cp) = 2
        part(side) == [cp |-> cell.cp, attr |-> cell.attr, side |-> side, cursor |-> FALSE]
    IN  IF cell.cp = RightHalf THEN t
        ELSE IF wide /\ i + 1 \notin DOMAIN t.frame THEN Lost(t)
        ELSE [t EXCEPT !.frame = [j \in DOMAIN @ |-> IF j = i THEN part("left")
                                   ELSE IF wide /\ j = i + 1 THEN part("right") ELSE @[j]],
                       !.regions = @ \cup Regions(t, i \div w, {i % w} \cup
                                                  (IF wide THEN {(i % w) + 1} ELSE {}))]

draw_cursor(t) ==
    LET c == t.con["frame"]
        i == c.y * c.w + c.x
    IN  IF c.x \notin 0..(c.w - 1) \/ c.y \notin 0..(c.h - 1) THEN Lost(t)
        ELSE [t EXCEPT !.frame[i].cursor = TRUE, !.regions = @ \cup Regions(t, c.y, {c.x})]

fb_flush(t) ==
    LET w == t.con["frame"].w
    IN  [t EXCEPT !.screen = [i \in DOMAIN @ |->
                       IF <<i \div w, (8 * (i % w)) \div 16>> \in t.regions THEN t.frame[i] ELSE @[i]],
                  !.regions = {}]

\* Cells row by row.
InOrder(t, cells) ==
    SelectSeq([i \in 1..Cardinality(DOMAIN t.frame) |-> i - 1], LAMBDA i : i \in cells)

\* A flush that forgets the cell the cursor has left.
FrameFlush_Trail(t) ==
    LET c == t.con["frame"]
        moved == <<c.px, c.py>> # <<c.x, c.y>>
        drawn == [FoldLeft(draw_char, t, InOrder(t, c.dirty)) EXCEPT
                      !.con["frame"].dirty = {}, !.con["frame"].px = c.x, !.con["frame"].py = c.y]
    IN  fb_flush(IF moved /\ c.visible THEN draw_cursor(drawn) ELSE drawn)

\* vconsole's flush(): cells marked, the cell the cursor has left, the cursor.
FrameFlush(t) ==
    LET c == t.con["frame"]
        moved == <<c.px, c.py>> # <<c.x, c.y>>
        left == {i \in DOMAIN c.buf : moved /\ <<i % c.w, i \div c.w>> = <<c.px, c.py>>}
        drawn == [FoldLeft(draw_char, t, InOrder(t, c.dirty \cup left)) EXCEPT !.con["frame"].dirty = {},
                      !.con["frame"].px = c.x, !.con["frame"].py = c.y]
    IN  fb_flush(IF moved /\ c.visible THEN draw_cursor(drawn) ELSE drawn)

flush(t) == IF t.text THEN con_flush(t) ELSE FrameFlush(t)

\* vconsole flushes when the cursor is shown or hidden.
set_cursor_visibility(t, shown) ==
    IF t.text THEN [t EXCEPT !.con["vga"].visible = shown]
    ELSE FrameFlush([t EXCEPT !.con["frame"].visible = shown])

-----------------------------------------------------------------------------
(* Setting a mode. *)

setup_text_buffer(t, w, h) ==
    [t EXCEPT !.con["vga"].w = w, !.con["vga"].h = h, !.con["vga"].buf = NewBuffer(w, h),
              !.con["vga"].dirty = {}, !.frame = <<>>,
              !.screen = [i \in 0..(w * h - 1) |-> VgaCell(Blank)]]

BlankPart == [cp |-> 0, attr |-> Black, side |-> "left", cursor |-> FALSE]
setup_bitmap_buffer(t, w, h) ==
    LET cells == 0..((w \div 8) * (h \div 16) - 1)
    IN  [t EXCEPT !.con["vga"].buf = <<>>, !.regions = {},
                  !.frame = [i \in cells |-> BlankPart], !.screen = [i \in cells |-> BlankPart]]

Home(t) == [t EXCEPT !.con["vga"].x = 0, !.con["vga"].y = 0]

set_mode_vga(t, mode) ==
    IF mode \notin DOMAIN VgaModes THEN [status |-> "not found", t |-> t]
    ELSE [status |-> "ok",
          t |-> Home([setup_text_buffer(t, VgaModes[mode].w, VgaModes[mode].h)
                      EXCEPT !.mode = mode, !.byvbe = FALSE])]

\* The card's cursor goes home while the old mode is still the current one: a
\* card that showed graphics refuses, and the cursor stays where it was.
set_mode_vbe(mach, t, mode) ==
    LET at == SelectInSeq(mach.list, LAMBDA m : m.mode = mode)
        known == at # 0 \/ (mach.answers /\ mode \in DOMAIN VgaModes)
        info == IF at # 0 THEN VbeInfo(mach.list[at]) ELSE VgaModes[mode]
        graphics == t.byvbe /\ ~t.info.text
        text == setup_text_buffer(t, info.w, info.h)
        shown == IF info.text THEN IF graphics THEN text ELSE Home(text)
                 ELSE setup_bitmap_buffer(t, info.w, info.h)
    IN  IF ~known THEN IF Offers(mach) THEN set_mode_vga(t, mode)
                       ELSE [status |-> "unknown", t |-> t]
        ELSE [status |-> "ok",
              t |-> [shown EXCEPT !.mode = mode, !.byvbe = TRUE, !.info = info]]

\* vconsole's callback; what it invalidates and flushes is refused, because it
\* is switching modes.
video_mode_callback(mach, t, mode) ==
    LET answer == get_mode_info(mach, mode)
        cols == answer.info.w \div 8
        rows == answer.info.h \div 16
    IN  CASE answer.status = "ok" /\ answer.info.text ->
                [t EXCEPT !.text = TRUE, !.con["frame"] = [@ EXCEPT !.buf = <<>>, !.dirty = {},
                             !.x = 0, !.y = 0, !.px = 0, !.py = 0]]
          [] answer.status = "ok" /\ ~answer.info.text ->
                [t EXCEPT !.text = FALSE, !.con["frame"] =
                     [@ EXCEPT !.w = cols, !.h = rows, !.buf = NewBuffer(cols, rows), !.dirty = {},
                               !.x = 0, !.y = 0, !.px = 0, !.py = 0]]
          [] answer.status # "ok" -> Lost(t)

\* The callbacks run whatever became of the mode.
set_mode(mach, t, mode) ==
    LET set == IF mach.vbe THEN set_mode_vbe(mach, t, mode) ELSE set_mode_vga(t, mode)
    IN  [set EXCEPT !.t = IF t.console THEN video_mode_callback(mach, @, mode) ELSE @]

NewConsole == [w |-> 0, h |-> 0, buf |-> <<>>, dirty |-> {}, x |-> 0, y |-> 0,
               px |-> -1, py |-> -1, visible |-> TRUE]

\* The probes of the card, which the BIOS left in a mode below 0x100, of the
\* console and of the terminal.  The terminal does not set the state of its
\* parser, which may be anything.
vga_probe(mach) ==
    set_mode(mach, [lost |-> FALSE, none |-> FALSE, console |-> FALSE, font |-> mach.font,
                    text |-> TRUE, mode |-> -1, byvbe |-> FALSE, info |-> VgaModes[\h03],
                    con |-> [c \in {"vga", "frame"} |-> NewConsole],
                    frame |-> <<>>, regions |-> {}, screen |-> <<>>,
                    state |-> "none", args |-> <<>>, number |-> FALSE, zeroed |-> FALSE,
                    sx |-> 0, sy |-> 0, attr |-> Black, fragment |-> <<>>], \h03)

vconsole_probe(mach, t) == [video_mode_callback(mach, t, t.mode) EXCEPT !.console = TRUE]

ansiterm_probe(t, state) ==
    set_cursor_pos([t EXCEPT !.state = state, !.attr = Plain], 0, 0)

-----------------------------------------------------------------------------
(* The terminal's drawing. *)

Area(t, x0, y0, x1, y1) == {y * Width(t) + x : x \in x0..x1, y \in y0..y1}

console_erase(t, x0, y0, x1, y1) ==
    invalidate(Store(t, Area(t, x0, y0, x1, y1), [cp |-> 0, attr |-> t.attr]),
               Area(t, x0, y0, x1, y1))

\* Rows move up by a positive amount and down by a negative one; going down,
\* one row more than was vacated is erased.
console_scroll(t, amount) ==
    LET w == Width(t)
        h == Height(t)
        from(i) == i + amount * w
        moved == [t EXCEPT !.con[Con(t)].buf =
                      [i \in DOMAIN @ |-> IF from(i) \in DOMAIN @ THEN @[from(i)] ELSE @[i]]]
        all == Area(t, 0, 0, w - 1, h - 1)
    IN  CASE amount = 0 -> t
          [] amount > 0 -> invalidate(console_erase(moved, 0, h - amount, w - 1, h - 1), all)
          [] amount < 0 -> invalidate(console_erase(moved, 0, 0, w - 1, -amount), all)

\* The second cell of a wide character is stored and not marked.
console_putchar(t, ch) ==
    LET i == Y(t) * Width(t) + X(t)
        first == invalidate(Store(t, {i}, [cp |-> ch, attr |-> t.attr]), {i})
    IN  IF wcwidth(ch) > 1 /\ X(t) + 1 < Width(t)
        THEN Store(first, {i + 1}, [cp |-> RightHalf, attr |-> t.attr])
        ELSE first

\* The column a backspace goes to: over one character, or over the empty cells
\* of a tab.
console_backspace(t) ==
    LET at(x) == Buf(t)[Y(t) * Width(t) + x].cp
        stop == 8 * ((X(t) - 1) \div 8)
        full == {x \in stop..(X(t) - 2) : at(x) # 0}
    IN  IF X(t) < 1 THEN X(t)
        ELSE IF at(X(t) - 1) # 0 THEN X(t) - 1
        ELSE IF full # {} THEN Max(full) + 1 ELSE stop

\* One row down, scrolling at the end of the screen.
LineFeed(t, x, y) ==
    IF y + 1 < Height(t) THEN set_cursor_pos(t, x, y + 1)
    ELSE set_cursor_pos(console_scroll(t, 1), x, Height(t) - 1)

-----------------------------------------------------------------------------
(* The control sequences; each ends with the parser in its default state. *)

Arg(t, n, default) == IF Len(t.args) < n THEN default ELSE t.args[n]

handle_cuu(t) == set_cursor_pos(t, -1, Y(t) - Min({Arg(t, 1, 1), Y(t)}))
handle_cud(t) == set_cursor_pos(t, -1, Y(t) + Min({Arg(t, 1, 1), Height(t) - Y(t)}))
handle_cuf(t) == set_cursor_pos(t, X(t) + Min({Arg(t, 1, 1), Width(t) - X(t)}), -1)
handle_cub(t) == set_cursor_pos(t, X(t) - Min({Arg(t, 1, 1), X(t)}), -1)
handle_cnl(t) == set_cursor_pos(t, 0, Y(t) + Min({Arg(t, 1, 1), Height(t) - Y(t)}))
handle_cpl(t) == set_cursor_pos(t, 0, Y(t) - Min({Arg(t, 1, 1), Y(t)}))
handle_cha(t) == set_cursor_pos(t, Max({Arg(t, 1, 1) - 1, 0}), -1)
handle_cup_hvp(t) ==
    set_cursor_pos(t, Max({Arg(t, 2, 1) - 1, 0}), Max({Arg(t, 1, 1) - 1, 0}))

\* The rows below the cursor are erased only when there are none, the rows
\* above it only when it is in the first column.
handle_ed(t) ==
    LET w == Width(t)
        h == Height(t)
        option == Arg(t, 1, 0)
        after == console_erase(t, X(t), Y(t), w - 1, Y(t))
        before == console_erase(t, 0, Y(t), X(t), Y(t))
    IN  CASE option = 0 -> IF Y(t) < h - 1 THEN after
                           ELSE console_erase(after, 0, Y(t) + 1, w - 1, h - 1)
          [] option = 1 -> IF X(t) > 0 THEN before
                           ELSE console_erase(before, 0, 0, w - 1, Y(t) - 1)
          [] option \in {2, 3} -> console_erase(t, 0, 0, w - 1, h - 1)
          [] OTHER -> t

handle_el(t) ==
    LET w == Width(t)
        option == Arg(t, 1, 0)
    IN  CASE option = 0 -> console_erase(t, X(t), Y(t), w - 1, Y(t))
          [] option = 1 -> console_erase(t, 0, Y(t), X(t), Y(t))
          [] option = 2 -> console_erase(t, 0, Y(t), w - 1, Y(t))
          [] OTHER -> t

handle_su(t) == console_scroll(t, Arg(t, 1, 1))
handle_sd(t) == console_scroll(t, -Arg(t, 1, 1))

\* The attributes an option of SGR sets.
SgrFlags ==
    (1 :> [bold |-> 1]) @@ (2 :> [dim |-> 1]) @@ (3 :> [italic |-> 1]) @@
    (4 :> [underline |-> 1]) @@ (5 :> [blink |-> 1]) @@ (6 :> [blink |-> 2]) @@
    (7 :> [reversed |-> 1]) @@ (8 :> [blink |-> 3]) @@ (9 :> [strike |-> 1]) @@
    (22 :> [bold |-> 0, dim |-> 0]) @@ (23 :> [italic |-> 0]) @@ (24 :> [underline |-> 0]) @@
    (25 :> [blink |-> 0]) @@ (27 :> [reversed |-> 0]) @@ (28 :> [blink |-> 0]) @@
    (29 :> [strike |-> 0]) @@ (39 :> [fg |-> palette(7)]) @@ (49 :> [bg |-> palette(0)]) @@
    (53 :> [overlined |-> 1]) @@ (55 :> [overlined |-> 0])

\* 38 and 48: a colour of the palette or its three parts; no colour if the
\* arguments are incomplete.
SgrColor(t, old) ==
    CASE Arg(t, 2, 0) = 5 /\ Len(t.args) >= 3 -> palette(t.args[3])
      [] Arg(t, 2, 0) = 2 /\ Len(t.args) >= 5 ->
            Rgb(t.args[3] % 256, t.args[4] % 256, t.args[5] % 256)
      [] OTHER -> old

handle_sgr(t) ==
    LET option == Arg(t, 1, 0)
        astray == option \in {38, 48} /\ Arg(t, 2, 0) = 5 /\ Arg(t, 3, 0) \notin 0..255
    IN  IF astray THEN Lost(t) ELSE
        [t EXCEPT !.attr =
            CASE option = 0 -> Plain
              [] option \in DOMAIN SgrFlags -> SgrFlags[option] @@ @
              [] option \in 30..37 -> [@ EXCEPT !.fg = palette(option - 30)]
              [] option \in 40..47 -> [@ EXCEPT !.bg = palette(option - 40)]
              [] option \in 90..97 -> [@ EXCEPT !.fg = palette(option - 82)]
              [] option \in 100..107 -> [@ EXCEPT !.bg = palette(option - 92)]
              [] option = 38 -> [@ EXCEPT !.fg = SgrColor(t, @)]
              [] option = 48 -> [@ EXCEPT !.bg = SgrColor(t, @)]
              [] OTHER -> @]

handle_scosc(t) == [t EXCEPT !.sx = X(t), !.sy = Y(t)]
handle_scorc(t) == set_cursor_pos(t, t.sx, t.sy)

-----------------------------------------------------------------------------
(* The parser. *)

Default(t) == [t EXCEPT !.state = "default"]

\* Of the states a character behind ESC leads to, only CSI does anything.
handle_esc(t, ch) ==
    [t EXCEPT !.args = <<>>, !.number = FALSE, !.zeroed = TRUE,
              !.state = CASE ch = 91 -> "csi"
                          [] ch \in {78, 79, 80, 92, 93, 88, 94, 95} -> "other"
                          [] OTHER -> "default"]

\* A digit of an argument.  No digit is taken once there are eight arguments.
handle_digit(t, digit) ==
    LET args == IF t.number THEN t.args ELSE Append(t.args, 0)
    IN  IF Len(t.args) >= 8 THEN t
        ELSE IF ~t.zeroed THEN Lost(t)
        ELSE [t EXCEPT !.number = TRUE, !.args = [args EXCEPT ![Len(args)] = @ * 10 + digit]]

handle_csi(t, ch) ==
    CASE ch = 65 -> Default(handle_cuu(t))              \* A
      [] ch = 66 -> Default(handle_cud(t))              \* B
      [] ch = 67 -> Default(handle_cuf(t))              \* C
      [] ch = 68 -> Default(handle_cub(t))              \* D
      [] ch = 69 -> Default(handle_cnl(t))              \* E
      [] ch = 70 -> Default(handle_cpl(t))              \* F
      [] ch = 71 -> Default(handle_cha(t))              \* G
      [] ch \in {102, 72} -> Default(handle_cup_hvp(t)) \* f, H
      [] ch = 104 -> Default(set_cursor_visibility(t, TRUE))   \* h
      [] ch = 74 -> Default(handle_ed(t))               \* J
      [] ch = 75 -> Default(handle_el(t))               \* K
      [] ch = 108 -> Default(set_cursor_visibility(t, FALSE))  \* l
      [] ch = 83 -> Default(handle_su(t))               \* S
      [] ch = 84 -> Default(handle_sd(t))               \* T
      [] ch = 109 -> Default(handle_sgr(t))             \* m
      [] ch = 115 -> Default(handle_scosc(t))           \* s
      [] ch = 117 -> Default(handle_scorc(t))           \* u
      [] ch = 63 -> IF Len(t.args) >= 8 THEN t ELSE [t EXCEPT !.args = Append(@, -63)]  \* ?
      [] ch \in 48..57 -> handle_digit(t, ch - 48)
      [] ch \in {58, 59} -> [t EXCEPT !.number = FALSE]
      [] OTHER -> Default(t)                            \* n (DSR) and the rest

\* A printable character: a wide one does not start in the last column, and
\* the cursor behind it wraps.
PutGlyph(t, ch) ==
    LET cw == wcwidth(ch)
        start == IF cw > 1 /\ X(t) + cw > Width(t) THEN LineFeed(t, 0, Y(t)) ELSE t
        put == console_putchar(start, ch)
        x == X(start) + cw
    IN  IF x < Width(t) THEN set_cursor_pos(put, x, Y(start)) ELSE LineFeed(put, 0, Y(start))

PutTab(t) ==
    LET stop == 8 * (X(t) \div 8 + 1)
        erased == console_erase(t, X(t), Y(t), stop, Y(t))
    IN  IF stop < Width(t) THEN set_cursor_pos(erased, stop, Y(t)) ELSE LineFeed(erased, 0, Y(t))

put_char(t, ch) ==
    CASE t.lost -> t
      [] ~t.lost /\ t.state = "esc" -> handle_esc(t, ch % 256)
      [] ~t.lost /\ t.state = "csi" -> handle_csi(t, ch % 256)
      [] ~t.lost /\ t.state = "other" -> Default(t)
      [] ~t.lost /\ t.state = "default" ->
            CASE ch = 8 -> IF Y(t) * Width(t) + X(t) - 1 \in DOMAIN Buf(t) \/ X(t) < 1
                           THEN set_cursor_pos(t, console_backspace(t), Y(t)) ELSE Lost(t)
              [] ch = 9 -> PutTab(t)
              [] ch = 10 -> LineFeed(t, 0, Y(t))
              [] ch = 11 -> LineFeed(t, X(t), Y(t))
              [] ch = 13 -> set_cursor_pos(t, 0, Y(t))
              [] ch = 27 -> set_cursor_pos([t EXCEPT !.state = "esc"], X(t), Y(t))
              [] ch >= 32 -> PutGlyph(t, ch)
              [] OTHER -> set_cursor_pos(t, X(t), Y(t))

\* write(): a character that is not complete is kept for the next call.  The
\* kept bytes are part of the first character only.
RECURSIVE WriteLoop(_, _)
WriteLoop(t, bytes) ==
    LET all == t.fragment \o bytes
        first == DecodeFirst(all)
        used == first.len - Len(t.fragment)
    IN  CASE bytes = <<>> \/ t.lost -> t
          [] bytes # <<>> /\ ~t.lost /\ Len(all) < CharLen(all[1]) ->
                IF Len(all) > 6 THEN Lost(t) ELSE [t EXCEPT !.fragment = all]
          [] bytes # <<>> /\ ~t.lost /\ Len(all) >= CharLen(all[1]) ->
                IF used < 0 THEN Lost(t)
                ELSE WriteLoop([put_char(t, first.cp) EXCEPT !.fragment = <<>>],
                               SubSeq(bytes, used + 1, Len(bytes)))
write(t, bytes) == LET out == WriteLoop(t, bytes) IN IF out.lost THEN out ELSE flush(out)

wwrite(t, chars) == LET out == FoldLeft(put_char, t, chars) IN IF out.lost THEN out ELSE flush(out)

-----------------------------------------------------------------------------
(* The loader at work. *)

\* UTF-8 as it is defined.
Utf8(cp) ==
    LET tail(n) == [i \in 1..n |-> \h80 + ((cp \div (64 ^ (n - i))) % 64)]
    IN  CASE cp < \h80 -> <<cp>>
          [] cp \in \h80..\h7FF -> <<\hC0 + (cp \div 64)>> \o tail(1)
          [] cp \in \h800..\hFFFF -> <<\hE0 + (cp \div 4096)>> \o tail(2)
          [] cp >= \h10000 -> <<\hF0 + (cp \div 262144)>> \o tail(3)
Bytes(chars) == FlattenSeq([i \in 1..Len(chars) |-> Utf8(chars[i])])

DisplayInit ==
    /\ dmach \in DspMachines
    /\ d = NoDisplay /\ dtext = NoText /\ dpos = 0 /\ dbase = NoDisplay /\ dswitches = 0

DisplayStart ==
    /\ d.none
    /\ vga_probe(dmach).status = "ok"
    /\ \E state \in DspStates :
          d' = ansiterm_probe(vconsole_probe(dmach, vga_probe(dmach).t), state)
    /\ UNCHANGED <<dmach, dtext, dpos, dbase, dswitches>>

Working == ~d.none /\ ~d.lost
Finished == dpos = Len(Bytes(dtext))

DisplayText ==
    /\ Working /\ dtext = NoText
    /\ dtext' \in DspTexts[dswitches]
    /\ dpos' = 0 /\ dbase' = d
    /\ UNCHANGED <<dmach, d, dswitches>>

\* printf() and the shell write in pieces of any length.
DisplayWrite ==
    /\ Working
    /\ \E n \in (1..DspPiece \cup {Len(Bytes(dtext)) - dpos}) \cap (1..(Len(Bytes(dtext)) - dpos)) :
          /\ d' = write(d, SubSeq(Bytes(dtext), dpos + 1, dpos + n))
          /\ dpos' = dpos + n
    /\ UNCHANGED <<dmach, dtext, dbase, dswitches>>

DisplayWwrite ==
    /\ Working /\ dtext # NoText /\ dpos = 0
    /\ d' = wwrite(d, dtext)
    /\ dpos' = Len(Bytes(dtext))
    /\ UNCHANGED <<dmach, dtext, dbase, dswitches>>

\* The vmode command takes the first mode of the list with the size asked for.
vmode_set_mode ==
    /\ Working /\ Finished /\ dswitches < DspSwitches
    /\ \E i \in 1..Len(list_modes(dmach)) :
          LET asked == list_modes(dmach)[i]
              same(m) == <<m.text, m.w, m.h, m.bpp>> = <<asked.text, asked.w, asked.h, asked.bpp>>
              found == SelectInSeq(list_modes(dmach), same)
          IN  d' = set_mode(dmach, d, list_modes(dmach)[found].mode).t
    /\ dtext' = NoText /\ dpos' = 0 /\ dbase' = NoDisplay
    /\ dswitches' = dswitches + 1
    /\ UNCHANGED dmach

DisplayNext == DisplayStart \/ DisplayText \/ DisplayWrite \/ DisplayWwrite \/ vmode_set_mode

-----------------------------------------------------------------------------
(* Properties. *)

\* What a sequence of characters without controls but newlines looks like: the
\* lines it breaks into; the screen is a window on the last of them.
Lines(chars, w) ==
    LET put(lines, ch) ==
            LET last == lines[Len(lines)]
                glyph == IF wcwidth(ch) = 2 THEN <<ch, RightHalf>> ELSE <<ch>>
                line == IF Len(last) + Len(glyph) > w THEN Append(lines, glyph)
                        ELSE [lines EXCEPT ![Len(lines)] = @ \o glyph]
            IN  IF ch = 10 THEN Append(lines, <<>>)
                ELSE IF Len(line[Len(line)]) = w THEN Append(line, <<>>) ELSE line
    IN  FoldLeft(put, << <<>> >>, chars)

ShowsLines(t, lines) ==
    LET top == Max({0, Len(lines) - Height(t)})
        at(x, y) == IF top + y + 1 <= Len(lines) /\ x < Len(lines[top + y + 1])
                    THEN lines[top + y + 1][x + 1] ELSE 0
    IN  /\ X(t) = Len(lines[Len(lines)]) /\ Y(t) = Len(lines) - top - 1
        /\ \A x \in 0..(Width(t) - 1), y \in 0..(Height(t) - 1) :
              Buf(t)[y * Width(t) + x].cp = at(x, y)

Printed(chars) == \A i \in 1..Len(chars) : chars[i] = 10 \/ wcwidth(chars[i]) \in {1, 2}
Fresh(t) == t.state = "default" /\ X(t) = 0 /\ Y(t) = 0 /\ Buf(t) = NewBuffer(Width(t), Height(t))

\* The part of the devices that does not depend on when they were flushed.
Logical(t) == <<t.lost, t.state, t.args, t.number, t.attr, t.sx, t.sy, Buf(t), X(t), Y(t)>>

\* The cells a flush keeps up to date: not the second cell of a wide character,
\* and not a cell the wide glyph in front of it may be drawn over.
Tracked(t, i) ==
    /\ Buf(t)[i].cp # RightHalf
    /\ ~t.text /\ i - 1 \in DOMAIN Buf(t) => wcwidth(Max({Buf(t)[i - 1].cp, 0})) # 2

Shows(t) ==
    /\ t.con[Con(t)].dirty = {} /\ t.regions = {}
    /\ \A i \in DOMAIN Buf(t) : Tracked(t, i) =>
          IF t.text THEN t.screen[i] = VgaCell(Buf(t)[i])
          ELSE /\ t.screen[i].cp = Buf(t)[i].cp /\ t.screen[i].attr = Buf(t)[i].attr
               /\ t.screen[i].side = "left"
               /\ t.screen[i].cursor => i = Y(t) * Width(t) + X(t)

\* Text does not depend on how it is cut into writes, even in the middle of a
\* character or of an escape sequence; printed text appears as lines of which
\* the screen shows the last ones; what is on the screen after a write is what
\* the buffer holds, without traces of earlier cursors; the console and the
\* card agree on the mode after every change; and the vmode command lists every
\* mode that can be shown once.
DisplayExact ==
    /\ Working =>
          /\ Shows(d)
          /\ d.text = IF d.byvbe THEN d.info.text ELSE TRUE
          /\ d.text => DOMAIN d.screen = DOMAIN d.con["vga"].buf
          /\ ~d.text => DOMAIN d.frame = DOMAIN d.con["frame"].buf
          /\ (dtext # NoText /\ Finished) =>
                /\ Logical(d) = Logical(FoldLeft(put_char, dbase, dtext))
                /\ d.fragment = <<>>
                /\ Printed(dtext) /\ Fresh(dbase) => ShowsLines(d, Lines(dtext, Width(d)))
    /\ Working /\ dtext = NoText =>
       LET listed == list_modes(dmach)
           vbe == SelectSeq(dmach.list, Usable)
       IN  [i \in 1..Len(listed) |-> listed[i].mode] =
              (IF dmach.vbe THEN [i \in 1..Len(vbe) |-> vbe[i].mode] ELSE <<>>) \o
              (IF dmach.vbe /\ Offers(dmach) THEN <<>> ELSE <<\h00, \h03>>)
=============================================================================
