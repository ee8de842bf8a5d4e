------------------------------ MODULE Annotations ------------------------------
(***************************************************************************)
(* The annotation rasteriser of the contracts crate (annotation.rs): a     *)
(* pure function from a framebuffer and a list of annotations to the       *)
(* picture that is exported.                                               *)
(*                                                                         *)
(* A framebuffer is the code's row-major buffer, one value per pixel.  Of  *)
(* a colour the model keeps where it comes from: a pixel of the source, a  *)
(* paint, a mean of source pixels (blur), or the plate and the tint chosen *)
(* from the luminance of the source pixels below a text box.  Text comes   *)
(* split: a sequence of paragraphs, each a sequence of words.              *)
(***************************************************************************)
EXTENDS Geometry, Sequences, SequencesExt

CONSTANT Font                           \* ASCII_GLYPHS: seven rows of five bits for each byte

Size(w, h) == [w |-> w, h |-> h]
Area(size) == size.w * size.h
Buffer(size, pixel(_, _)) == [i \in 0..(Area(size) - 1) |-> pixel(i % size.w, i \div size.w)]

\* The annotations there can be: AnnotationGeometry, and what every kind has.
Colors  == {"red", "green", "blue", "yellow", "white"}
Strokes == {"thin", "medium", "thick"}
Extents == [x : Int32, y : Int32, w : Nat, h : Nat]
AnnotationGeometry(a) ==
  \/ a.kind = "arrow" /\ a.tail \in Point /\ a.tip \in Point
  \/ a.kind = "badge" /\ a.center \in Point /\ a.radius \in Nat /\ a.number \in Nat
  \/ a.kind = "blur" /\ a.radius \in Nat /\ a.box \in Extents
  \/ a.kind \in {"rectangle", "text"} /\ a.box \in Extents
IsAnnotation(a) ==
  /\ AnnotationGeometry(a)
  /\ a.id \in Nat /\ a.z \in Int /\ a.color \in Colors /\ a.stroke \in Strokes

Drawn(id, kind, color, stroke, z) ==
  [id |-> id, kind |-> kind, color |-> color, stroke |-> stroke, z |-> z]
Arrow(id, tail, tip, color, stroke, z) ==
  Drawn(id, "arrow", color, stroke, z) @@ [tail |-> tail, tip |-> tip]
Rectangle(id, box, color, stroke, z) ==
  Drawn(id, "rectangle", color, stroke, z) @@ [box |-> box]
NumberedBadge(id, center, radius, number, color, stroke, z) ==
  Drawn(id, "badge", color, stroke, z) @@ [center |-> center, radius |-> radius, number |-> number]
Text(id, box, text, color, stroke, z) ==
  Drawn(id, "text", color, stroke, z) @@ [box |-> box, text |-> text]
Blur(id, box, radius, z) ==                       \* its colour and stroke mean nothing
  Drawn(id, "blur", "white", "medium", z) @@ [box |-> box, radius |-> radius]

PaintColor(r, g, b) == [r |-> r, g |-> g, b |-> b]
Rgba(color) ==
  CASE color = "red"    -> PaintColor(229, 59, 59)
    [] color = "green"  -> PaintColor(59, 229, 92)
    [] color = "blue"   -> PaintColor(59, 130, 229)
    [] color = "yellow" -> PaintColor(246, 227, 59)
    [] color = "white"  -> PaintColor(255, 255, 255)

\* plot_pixel and the segment painters: what falls outside the buffer is
\* dropped.
Plot(dst, size, ink, color) ==
  [i \in DOMAIN dst |-> IF <<i % size.w, i \div size.w>> \in ink THEN color ELSE dst[i]]

Horizontal(x0, x1, y) == (x0..(x1 - 1)) \X {y}
Vertical(x, y0, y1)   == {x} \X (y0..(y1 - 1))

\* The offsets of a stroke around its middle.
WidthPx(stroke) == CASE stroke = "thin" -> 2 [] stroke = "medium" -> 4 [] stroke = "thick" -> 8
Across(width)   == -(width \div 2) .. (width - 1 - width \div 2)

--------------------------------------------------------------------------------
\* Bresenham's line, a square of the stroke's width stamped at every step.
Sign(n) == IF n > 0 THEN 1 ELSE -1
Abs(n)  == IF n < 0 THEN -n ELSE n

Walk(a, b) ==
  LET dx == Abs(b.x - a.x)
      dy == -Abs(b.y - a.y)
      step(s) == LET e2    == 2 * s.err
                     along == e2 >= dy
                     down  == e2 <= dx
                 IN  [x   |-> IF along THEN s.x + Sign(b.x - a.x) ELSE s.x,
                      y   |-> IF down THEN s.y + Sign(b.y - a.y) ELSE s.y,
                      err |-> s.err + (IF along THEN dy ELSE 0) + (IF down THEN dx ELSE 0)]
      at[n \in 0..Larger(dx, -dy)] ==
        IF n = 0 THEN [x |-> a.x, y |-> a.y, err |-> dx + dy] ELSE step(at[n - 1])
  IN  {at[n] : n \in DOMAIN at}

LineInk(a, b, width) ==
  UNION {{<<p.x + ox, p.y + oy>> : ox \in Across(width), oy \in Across(width)} : p \in Walk(a, b)}

\* `as i32' of n / d, d > 0; and f64::round of n / sqrt(d), d > 0.
Trunc(n, d) == IF n >= 0 THEN n \div d ELSE -((-n) \div d)
RoundRoot(n, d) ==
  Sign(n) * Max({k \in 0..Abs(n) : k = 0 \/ (2 * k - 1) * (2 * k - 1) * d <= 4 * n * n})

\* Scanlines between the edges p-q and r-s, over the rows of p-q.
Scanlines(p, q, r, s) ==
  IF q[2] = p[2] THEN {}
  ELSE UNION {LET xa(y) == Trunc(p[1] * (q[2] - p[2]) + (q[1] - p[1]) * (y - p[2]), q[2] - p[2])
                  xb(y) == Trunc(r[1] * (s[2] - r[2]) + (s[1] - r[1]) * (y - r[2]), s[2] - r[2])
              IN  Horizontal(Smaller(xa(row), xb(row)), Larger(xa(row), xb(row)) + 1, row)
              : row \in p[2]..q[2]}

TriangleInk(a, b, c) ==
  LET pts == SortSeq(<<a, b, c>>, LAMBDA p, q : p[2] < q[2])
  IN  Scanlines(pts[1], pts[2], pts[1], pts[3]) \cup Scanlines(pts[2], pts[3], pts[1], pts[3])

\* The head: four strokes long, at most 32, its corners 0.6 of that aside.
HeadInk(tail, tip, width) ==
  LET head == Smaller(4 * width, 32)
      dx == tail.x - tip.x
      dy == tail.y - tip.y
      len2 == dx * dx + dy * dy
      corner(s) == <<tip.x + RoundRoot(head * (10 * dx - s * 6 * dy), 100 * len2),
                     tip.y + RoundRoot(head * (10 * dy + s * 6 * dx), 100 * len2)>>
  IN  IF len2 = 0 THEN {} ELSE TriangleInk(corner(1), corner(-1), <<tip.x, tip.y>>)

ArrowInk(a) == LineInk(a.tail, a.tip, WidthPx(a.stroke)) \cup HeadInk(a.tail, a.tip, WidthPx(a.stroke))

RectangleInk(a) ==
  LET x1 == Saturate(a.box.x + Wrap(a.box.w))
      y1 == Saturate(a.box.y + Wrap(a.box.h))
  IN  UNION {Horizontal(a.box.x, x1, a.box.y + d) \cup Horizontal(a.box.x, x1, y1 + d)
             \cup Vertical(a.box.x + d, a.box.y, y1) \cup Vertical(x1 + d, a.box.y, y1)
             : d \in Across(WidthPx(a.stroke))}

--------------------------------------------------------------------------------
\* The badge: a disc, its dark ring, and one digit, 9 for everything larger.
DigitWidth  == 5
DigitHeight == 7
Digits == <<<<14, 17, 19, 21, 25, 17, 14>>, <<4, 12, 4, 4, 4, 4, 14>>, <<14, 17, 1, 2, 4, 8, 31>>,
            <<30, 1, 1, 14, 1, 1, 30>>, <<2, 6, 10, 18, 31, 2, 2>>, <<31, 16, 30, 1, 1, 17, 14>>,
            <<6, 8, 16, 30, 17, 17, 14>>, <<31, 1, 2, 4, 8, 8, 8>>, <<14, 17, 17, 14, 17, 17, 14>>,
            <<14, 17, 17, 15, 1, 2, 12>>>>

\* The cells a bitmap paints, every bit a square of `scale' pixels.
GlyphInk(rows, x, y, scale) ==
  LET set(r, c)  == (rows[r] \div 2^(DigitWidth - 1 - c)) % 2 = 1
      cell(r, c) == {<<x + c * scale + sx, y + (r - 1) * scale + sy>> :
                       sx \in 0..(scale - 1), sy \in 0..(scale - 1)}
  IN  UNION {IF set(r, c) THEN cell(r, c) ELSE {} : r \in 1..DigitHeight, c \in 0..(DigitWidth - 1)}

Disc(a, r) == {<<a.center.x + d[1], a.center.y + d[2]>> :
                 d \in {d \in (-r..r) \X (-r..r) : d[1] * d[1] + d[2] * d[2] <= r * r}}
Ring(a)    == Disc(a, a.radius) \ Disc(a, Larger(a.radius - WidthPx(a.stroke), 0))

DigitInk(c, number) ==
  GlyphInk(Digits[Smaller(number, 9) + 1], c.x - DigitWidth \div 2, c.y - DigitHeight \div 2, 1)

\* White on a fill of less than half the luminance, else nearly black.
DigitColorForLuminance(fill) ==
  IF 2126 * fill.r + 7152 * fill.g + 722 * fill.b < 5000 * 255 THEN PaintColor(255, 255, 255)
                                                              ELSE PaintColor(20, 20, 20)

PaintBadge(dst, size, a) ==
  Plot(Plot(Plot(dst, size, Disc(a, a.radius), [paint |-> Rgba(a.color)]),
            size, Ring(a), [paint |-> PaintColor(26, 26, 26)]),
       size, DigitInk(a.center, a.number), [paint |-> DigitColorForLuminance(Rgba(a.color))])

--------------------------------------------------------------------------------
TextPadding(stroke) == CASE stroke = "thin" -> 2 [] stroke = "medium" -> 4 [] stroke = "thick" -> 6
TextScale(stroke)   == CASE stroke = "thin" -> 1 [] stroke = "medium" -> 2 [] stroke = "thick" -> 3

\* wrap_text, in cells.  A word goes on the line if it fits after a space; a
\* word longer than a line is broken, except the first of its paragraph.
Broken(word, cells) ==
  FoldLeft(LAMBDA s, ch : IF Len(s.chunk) + 1 > cells /\ s.chunk # <<>>
                            THEN [lines |-> Append(s.lines, s.chunk), chunk |-> <<ch>>]
                            ELSE [s EXCEPT !.chunk = Append(@, ch)],
           [lines |-> <<>>, chunk |-> <<>>], word)

Placed(word, s, cells) ==
  IF s.current = <<>> THEN [s EXCEPT !.current = word]
  ELSE IF Len(s.current) + 1 + Len(word) <= cells
    THEN [s EXCEPT !.current = @ \o <<" ">> \o word]
  ELSE LET parts == Broken(word, cells)
       IN  IF Len(word) > cells
             THEN [lines |-> Append(s.lines, s.current) \o parts.lines, current |-> parts.chunk]
             ELSE [lines |-> Append(s.lines, s.current), current |-> word]

Wrapped(paragraph, cells) ==
  LET s == FoldLeft(LAMBDA acc, word : Placed(word, acc, cells),
                    [lines |-> <<>>, current |-> <<>>], paragraph)
  IN  IF paragraph = <<<<>>>> THEN <<<<>>>>
      ELSE IF s.current = <<>> THEN s.lines ELSE Append(s.lines, s.current)

WrapText(text, cells) ==
  LET lines == FlattenSeq([n \in DOMAIN text |-> Wrapped(text[n], cells)])
  IN  IF lines = <<>> THEN <<<<>>>> ELSE lines

Blank == [n \in 1..DigitHeight |-> 0]
AsciiGlyph(byte) == IF byte \in DOMAIN Font THEN Font[byte] ELSE Blank

\* The lines and cells that still fit on the plate.
TextInk(a) ==
  LET pad   == TextPadding(a.stroke)
      scale == TextScale(a.stroke)
      cellW == (DigitWidth + 1) * scale
      cellH == (DigitHeight + 1) * scale
      lines == WrapText(a.text, (a.box.w - 2 * pad) \div cellW)
      x(c)  == a.box.x + pad + (c - 1) * cellW
      y(l)  == a.box.y + pad + (l - 1) * cellH
      fits  == {lc \in (1..Len(lines)) \X (1..a.box.w) :
                  /\ lc[2] <= Len(lines[lc[1]])
                  /\ x(lc[2]) + DigitWidth * scale <= a.box.x + a.box.w
                  /\ y(lc[1]) + DigitHeight * scale <= a.box.y + a.box.h}
  IN  UNION {GlyphInk(AsciiGlyph(lines[lc[1]][lc[2]]), x(lc[2]), y(lc[1]), scale) : lc \in fits}

BoxInk(b) == (b.x..(b.x + b.w - 1)) \X (b.y..(b.y + b.h - 1))

\* The source pixels inside a box.
Under(src, size, b) == {src[i] : i \in {j \in DOMAIN src : <<j % size.w, j \div size.w>> \in BoxInk(b)}}

\* The contrast to the plate, mixed with the paint.
TintGlyph(base, user) == [contrast |-> base, tint |-> user]

PaintText(src, dst, size, a) ==
  LET base == Under(src, size, a.box)
  IN  IF Smaller(a.box.w, a.box.h) <= 2 * TextPadding(a.stroke) THEN dst
      ELSE Plot(Plot(dst, size, BoxInk(a.box), [plate |-> base]),
                size, TextInk(a), TintGlyph(base, Rgba(a.color)))

\* The kernel around a pixel.  Mutant: it ends before its last row and column.
KernelShort(x, y, r) == Rect(x - r, y - r, 2 * r, 2 * r)
Kernel(x, y, r) == Rect(x - r, y - r, 2 * r + 1, 2 * r + 1)

\* Each pixel of the box is the mean of the source around it.
PaintBlur(src, dst, size, a) ==
  [i \in DOMAIN dst |->
     LET x == i % size.w
         y == i \div size.w
     IN  IF <<x, y>> \in BoxInk(a.box) THEN [mean |-> Under(src, size, Kernel(x, y, a.radius))] ELSE dst[i]]

--------------------------------------------------------------------------------
PaintAnnotation(src, dst, size, a) ==
  CASE a.kind = "arrow"     -> Plot(dst, size, ArrowInk(a), [paint |-> Rgba(a.color)])
    [] a.kind = "rectangle" -> Plot(dst, size, RectangleInk(a), [paint |-> Rgba(a.color)])
    [] a.kind = "badge"     -> PaintBadge(dst, size, a)
    [] a.kind = "text"      -> PaintText(src, dst, size, a)
    [] a.kind = "blur"      -> PaintBlur(src, dst, size, a)

\* The annotation painted last: the topmost, of one height the one with the
\* highest id, of one id the last in the list.
Below(annotations, m, n) ==
  LET a == annotations[m]
      b == annotations[n]
  IN  a.z < b.z \/ (a.z = b.z /\ (a.id < b.id \/ (a.id = b.id /\ m <= n)))
Topmost(annotations, set) == CHOOSE n \in set : \A m \in set : Below(annotations, m, n)

FlattenAnnotations(src, size, annotations) ==
  MapThenFoldSet(LAMBDA a, dst : PaintAnnotation(src, dst, size, a), src,
                 LAMBDA n : annotations[n], LAMBDA set : Topmost(annotations, set), DOMAIN annotations)
================================================================================
