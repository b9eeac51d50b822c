------------------------------- MODULE Glyphs -------------------------------
(***************************************************************************)
(* The conversions between a byte stream and what the screen shows: UTF-8  *)
(* (device/char/ansiterm.c), column widths (stdc/wchar/wcwidth.c), code    *)
(* page 437 (encoding/cp437.c) and colours (ansiterm.c, device/video/vga.c)*)
(***************************************************************************)
EXTENDS Integers, Sequences, SequencesExt

-----------------------------------------------------------------------------
(* wcwidth.c *)

\* combining: characters that take no column.
Combining ==
    <<
      <<\h0300, \h036F>>, <<\h0483, \h0486>>, <<\h0488, \h0489>>,
      <<\h0591, \h05BD>>, <<\h05BF, \h05BF>>, <<\h05C1, \h05C2>>,
      <<\h05C4, \h05C5>>, <<\h05C7, \h05C7>>, <<\h0600, \h0603>>,
      <<\h0610, \h0615>>, <<\h064B, \h065E>>, <<\h0670, \h0670>>,
      <<\h06D6, \h06E4>>, <<\h06E7, \h06E8>>, <<\h06EA, \h06ED>>,
      <<\h070F, \h070F>>, <<\h0711, \h0711>>, <<\h0730, \h074A>>,
      <<\h07A6, \h07B0>>, <<\h07EB, \h07F3>>, <<\h0901, \h0902>>,
      <<\h093C, \h093C>>, <<\h0941, \h0948>>, <<\h094D, \h094D>>,
      <<\h0951, \h0954>>, <<\h0962, \h0963>>, <<\h0981, \h0981>>,
      <<\h09BC, \h09BC>>, <<\h09C1, \h09C4>>, <<\h09CD, \h09CD>>,
      <<\h09E2, \h09E3>>, <<\h0A01, \h0A02>>, <<\h0A3C, \h0A3C>>,
      <<\h0A41, \h0A42>>, <<\h0A47, \h0A48>>, <<\h0A4B, \h0A4D>>,
      <<\h0A70, \h0A71>>, <<\h0A81, \h0A82>>, <<\h0ABC, \h0ABC>>,
      <<\h0AC1, \h0AC5>>, <<\h0AC7, \h0AC8>>, <<\h0ACD, \h0ACD>>,
      <<\h0AE2, \h0AE3>>, <<\h0B01, \h0B01>>, <<\h0B3C, \h0B3C>>,
      <<\h0B3F, \h0B3F>>, <<\h0B41, \h0B43>>, <<\h0B4D, \h0B4D>>,
      <<\h0B56, \h0B56>>, <<\h0B82, \h0B82>>, <<\h0BC0, \h0BC0>>,
      <<\h0BCD, \h0BCD>>, <<\h0C3E, \h0C40>>, <<\h0C46, \h0C48>>,
      <<\h0C4A, \h0C4D>>, <<\h0C55, \h0C56>>, <<\h0CBC, \h0CBC>>,
      <<\h0CBF, \h0CBF>>, <<\h0CC6, \h0CC6>>, <<\h0CCC, \h0CCD>>,
      <<\h0CE2, \h0CE3>>, <<\h0D41, \h0D43>>, <<\h0D4D, \h0D4D>>,
      <<\h0DCA, \h0DCA>>, <<\h0DD2, \h0DD4>>, <<\h0DD6, \h0DD6>>,
      <<\h0E31, \h0E31>>, <<\h0E34, \h0E3A>>, <<\h0E47, \h0E4E>>,
      <<\h0EB1, \h0EB1>>, <<\h0EB4, \h0EB9>>, <<\h0EBB, \h0EBC>>,
      <<\h0EC8, \h0ECD>>, <<\h0F18, \h0F19>>, <<\h0F35, \h0F35>>,
      <<\h0F37, \h0F37>>, <<\h0F39, \h0F39>>, <<\h0F71, \h0F7E>>,
      <<\h0F80, \h0F84>>, <<\h0F86, \h0F87>>, <<\h0F90, \h0F97>>,
      <<\h0F99, \h0FBC>>, <<\h0FC6, \h0FC6>>, <<\h102D, \h1030>>,
      <<\h1032, \h1032>>, <<\h1036, \h1037>>, <<\h1039, \h1039>>,
      <<\h1058, \h1059>>, <<\h1160, \h11FF>>, <<\h135F, \h135F>>,
      <<\h1712, \h1714>>, <<\h1732, \h1734>>, <<\h1752, \h1753>>,
      <<\h1772, \h1773>>, <<\h17B4, \h17B5>>, <<\h17B7, \h17BD>>,
      <<\h17C6, \h17C6>>, <<\h17C9, \h17D3>>, <<\h17DD, \h17DD>>,
      <<\h180B, \h180D>>, <<\h18A9, \h18A9>>, <<\h1920, \h1922>>,
      <<\h1927, \h1928>>, <<\h1932, \h1932>>, <<\h1939, \h193B>>,
      <<\h1A17, \h1A18>>, <<\h1B00, \h1B03>>, <<\h1B34, \h1B34>>,
      <<\h1B36, \h1B3A>>, <<\h1B3C, \h1B3C>>, <<\h1B42, \h1B42>>,
      <<\h1B6B, \h1B73>>, <<\h1DC0, \h1DCA>>, <<\h1DFE, \h1DFF>>,
      <<\h200B, \h200F>>, <<\h202A, \h202E>>, <<\h2060, \h2063>>,
      <<\h206A, \h206F>>, <<\h20D0, \h20EF>>, <<\h302A, \h302F>>,
      <<\h3099, \h309A>>, <<\hA806, \hA806>>, <<\hA80B, \hA80B>>,
      <<\hA825, \hA826>>, <<\hFB1E, \hFB1E>>, <<\hFE00, \hFE0F>>,
      <<\hFE20, \hFE23>>, <<\hFEFF, \hFEFF>>, <<\hFFF9, \hFFFB>>,
      <<\h10A01, \h10A03>>, <<\h10A05, \h10A06>>, <<\h10A0C, \h10A0F>>,
      <<\h10A38, \h10A3A>>, <<\h10A3F, \h10A3F>>, <<\h1D167, \h1D169>>,
      <<\h1D173, \h1D182>>, <<\h1D185, \h1D18B>>, <<\h1D1AA, \h1D1AD>>,
      <<\h1D242, \h1D244>>, <<\hE0001, \hE0001>>, <<\hE0020, \hE007F>>,
      <<\hE0100, \hE01EF>>
    >>

\* The bisection keeps min and max; it ends when they cross.
bisearch(ucs, tbl) ==
    LET Find[bounds \in (0..Len(tbl)) \X (-1..Len(tbl))] ==
            LET lo  == bounds[1]
                hi  == bounds[2]
                mid == (lo + hi) \div 2
            IN  IF hi < lo THEN FALSE
                ELSE IF ucs > tbl[mid + 1][2] THEN Find[<<mid + 1, hi>>]
                ELSE IF ucs < tbl[mid + 1][1] THEN Find[<<lo, mid - 1>>]
                ELSE TRUE
    IN  ucs >= tbl[1][1] /\ ucs <= tbl[Len(tbl)][2] /\ Find[<<0, Len(tbl) - 1>>]

\* wcwidth(): the ranges of characters that take two columns come last.
wcwidth(ucs) ==
    CASE ucs = 0 -> 0
      [] ucs # 0 /\ (ucs < 32 \/ ucs \in \h7F..\h9F) -> -1
      [] OTHER ->
            IF bisearch(ucs, Combining) THEN 0
            ELSE IF \/ ucs \in \h1100..\h115F
                    \/ ucs \in {\h2329, \h232A}
                    \/ ucs \in (\h2E80..\hA4CF) \ {\h303F}
                    \/ ucs \in \hAC00..\hD7A3
                    \/ ucs \in \hF900..\hFAFF
                    \/ ucs \in \hFE10..\hFE19
                    \/ ucs \in \hFE30..\hFE6F
                    \/ ucs \in \hFF00..\hFF60
                    \/ ucs \in \hFFE0..\hFFE6
                    \/ ucs >= \h20000 /\ ucs <= \h2FFFD
                    \/ ucs >= \h30000 /\ ucs <= \h3FFFD
                 THEN 2 ELSE 1

-----------------------------------------------------------------------------
(* cp437.c, read from the bytes: the character each one shows. *)

\* Bytes 1 to 31.
Cp437Low ==
    <<
      \h263A, \h263B, \h2665, \h2666, \h2663, \h2660, \h2022, \h25D8, \h25CB,
      \h25D9, \h2642, \h2640, \h266A, \h266B, \h263C, \h25BA, \h25C4, \h2195,
      \h203C, \h00B6, \h00A7, \h25AC, \h2198, \h2191, \h2193, \h2192, \h2190,
      \h221F, \h2194, \h25B2, \h25BC
    >>

\* Bytes 127 to 255.
Cp437High ==
    <<
      \h2302, \h00C7, \h00FC, \h00E9, \h00E2, \h00E4, \h00E0, \h00E5, \h00E7,
      \h00EA, \h00EB, \h00E8, \h00EF, \h00EE, \h00EC, \h00C4, \h00C5, \h00C9,
      \h00E6, \h00C6, \h00F4, \h00F6, \h00F2, \h00FB, \h00F9, \h00FF, \h00D6,
      \h00DC, \h00A2, \h00A3, \h00A5, \h20A7, \h0192, \h00E1, \h00ED, \h00F3,
      \h00FA, \h00F1, \h00D1, \h00AA, \h00BA, \h00BF, \h2310, \h00AC, \h00BD,
      \h00BC, \h00A1, \h00AB, \h00BB, \h2591, \h2592, \h2593, \h2502, \h2524,
      \h2561, \h2562, \h2556, \h2555, \h2563, \h2551, \h2557, \h255D, \h255C,
      \h255B, \h2510, \h2514, \h2534, \h252C, \h251C, \h2500, \h253C, \h255E,
      \h255F, \h255A, \h2554, \h2569, \h2566, \h2560, \h2550, \h256C, \h2567,
      \h2568, \h2564, \h2565, \h2559, \h2558, \h2552, \h2553, \h256B, \h256A,
      \h2518, \h250C, \h2588, \h2584, \h258C, \h2590, \h2580, \h03B1, \h00DF,
      \h0393, \h03C0, \h03A3, \h03C3, \h00B5, \h03C4, \h03A6, \h0398, \h03A9,
      \h03B4, \h221E, \h03C6, \h03B5, \h2229, \h2261, \h00B1, \h2265, \h2264,
      \h2320, \h2321, \h00F7, \h2248, \h00B0, \h2219, \h00B7, \h221A, \h207F,
      \h00B2, \h25A0, \h00A0
    >>

\* The tables and cases of VlEnc_Utf32ToCp437() behind the ASCII characters.
Cp437Bytes ==
    [cp \in ToSet(Cp437Low) \cup ToSet(Cp437High) |->
        IF cp \in ToSet(Cp437Low) THEN SelectInSeq(Cp437Low, LAMBDA c : c = cp)
        ELSE 126 + SelectInSeq(Cp437High, LAMBDA c : c = cp)]

\* VlEnc_Utf32ToCp437(): the byte, or no byte; below U+0390 the second table
\* is read in front of its first entry, and what is found there is not followed.
NoByte == -1
Astray == -2
VlEnc_Utf32ToCp437(cp) ==
    CASE cp = 0 -> 0
      [] cp \in \h20..\h7E -> cp
      [] cp \in \h300..\h38F -> Astray
      [] cp \notin (0..0) \cup (\h20..\h7E) \cup (\h300..\h38F) ->
            IF cp \in DOMAIN Cp437Bytes THEN Cp437Bytes[cp] ELSE NoByte

-----------------------------------------------------------------------------
(* Colours are 24-bit numbers. *)

Rgb(r, g, b) == ((r * 256) + g) * 256 + b

RgbiColors ==
    <<\h000000, \hAA0000, \h00AA00, \hAA5500, \h0000AA, \hAA00AA, \h00AAAA, \hAAAAAA,
      \h555555, \hFF5555, \h55FF55, \hFFFF55, \h5555FF, \hFF55FF, \h55FFFF, \hFFFFFF>>

\* palette[]: 16 base colours, a cube of 6 levels of each colour, 24 greys.
palette(n) ==
    LET level(k) == <<\h00, \h5F, \h87, \hAF, \hD7, \hFF>>[k + 1]
        grey == 8 + 10 * (n - 232)
    IN  CASE n \in 0..15 -> RgbiColors[n + 1]
          [] n \in 16..231 ->
                Rgb(level((n - 16) \div 36), level(((n - 16) \div 6) % 6), level((n - 16) % 6))
          [] n \in 232..255 -> Rgb(grey, grey, grey)

\* rgb_to_irgb(): greys by their brightness, the others by their strong parts.
rgb_to_irgb(color) ==
    LET r == (color \div 65536) % 256
        g == (color \div 256) % 256
        b == color % 256
        most == Max({r, g, b})
        least == Min({r, g, b})
        grey == (most + least) \div 2
        bit(c, weight) == IF c >= \h80 THEN weight ELSE 0
    IN  IF most - least < \h50
        THEN CASE grey < \h40 -> 0
               [] grey >= \h40 /\ grey <= \h80 -> 8
               [] grey > \h80 /\ grey < \hC0 -> 7
               [] grey >= \hC0 -> 15
        ELSE (IF most >= 192 THEN 8 ELSE 0) + bit(r, 4) + bit(g, 2) + bit(b, 1)

-----------------------------------------------------------------------------
(* UTF-8 as write() of ansiterm.c takes it apart. *)

\* char_len by the first byte.  Beyond 0xF7 it is -1, which the comparison
\* with the bytes at hand turns into the largest size.
CharLen(byte) ==
    CASE byte < \h80 -> 1
      [] byte \in \h80..\hDF -> 2
      [] byte \in \hE0..\hEF -> 3
      [] byte \in \hF0..\hF7 -> 4
      [] byte >= \hF8 -> 2147483647

LeadBits(byte) ==
    CASE byte < \h80 -> byte
      [] byte \in \h80..\hDF -> byte % 32
      [] byte \in \hE0..\hEF -> byte % 16
      [] byte \in \hF0..\hF7 -> byte % 8

\* The first character of bytes that hold all of it: how many bytes it takes
\* and its value; a byte that does not continue it ends it as U+FFFD.
DecodeFirst(bytes) ==
    LET len == CharLen(bytes[1])
        bad == {i \in 2..len : bytes[i] \notin \h80..\hBF}
        rest == FoldLeft(LAMBDA acc, b : acc * 64 + (b % 64), LeadBits(bytes[1]),
                         SubSeq(bytes, 2, len))
    IN  IF bad = {} THEN [len |-> len, cp |-> rest]
        ELSE [len |-> Min(bad) - 1, cp |-> \hFFFD]
=============================================================================
