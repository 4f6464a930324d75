-------------------------- MODULE WordCloud_proofs --------------------------
(***************************************************************************)
(* For a canvas of any size and words of any shape: no word is painted     *)
(* over another but at the rim of a scaled one, a word that fits is not    *)
(* cut and not read past the end, and none is left out for nothing, but    *)
(* for the cases the properties name.  All rest on how offsets stand for   *)
(* pixels (within a row's length, different pixels have different          *)
(* offsets), the first also on how far a bitmap of the size rounded up is  *)
(* squeezed by the size itself: by less than a pixel, whatever the length. *)
(***************************************************************************)
EXTENDS WordCloud, TLAPS

Drawings == UNION {DrawingsOf[word] : word \in Words}
Tries == [word: Words, drawing: Drawings, x: Nat, y: Nat, reused: BOOLEAN, kept: BOOLEAN,
          paint: SUBSET Pixels]

\* Where a try starts.
Started(t) ==
    t.x \in Starts(Width, t.drawing.width) /\ t.y \in Starts(Height, t.drawing.height)

Consistent ==
    /\ TypeOK
    /\ tries \in Seq(Tries)
    /\ \A i \in DOMAIN tries : Started(tries[i])
    /\ \A i \in DOMAIN tries : tries[i].kept => tries[i].paint \subseteq currentImage
    /\ WordsApart

\* Within the length of a row no two pixels have the same offset.
LEMMA OffsetsUnique ==
  ASSUME NEW w \in Nat, NEW x1 \in 0..w - 1, NEW x2 \in 0..w - 1, NEW y1 \in Int, NEW y2 \in Int,
         w * y1 + x1 = w * y2 + x2
  PROVE  x1 = x2 /\ y1 = y2
<1>1. ASSUME NEW a \in Int, NEW b \in Int, a < b
      PROVE  w * a + w <= w * b
  <2>1. b - a - 1 \in Nat
    BY <1>1
  <2>2. w * (b - a - 1) \in Nat
    BY <2>1
  <2>3. w * (b - a - 1) = w * b - w * a - w
    OBVIOUS
  <2> QED
    BY <2>2, <2>3
<1>2. ~(y1 < y2)
  BY <1>1
<1>3. ~(y2 < y1)
  BY <1>1
<1> QED
  BY <1>2, <1>3

\* What is known of a drawing.
LEMMA DrawingFacts ==
  ASSUME NEW t, IsTry(t)
  PROVE  LET d == t.drawing IN
         /\ d.width \in Nat \ {0} /\ d.height \in Nat \ {0} /\ d.stride \in Nat
         /\ d.columns \in Nat \ {0} /\ d.rows \in Nat \ {0}
         /\ RoundedUp(d.width, d.columns) /\ RoundedUp(d.height, d.rows)
         /\ d.ink \subseteq WordPixels(d)
         /\ t.x \in Nat /\ t.y \in Nat
BY DrawingsAssumption DEF IsTry, WordPixels

\* A larger factor does not give a smaller product.
LEMMA Monotone ==
  ASSUME NEW f \in Nat, NEW a \in Int, NEW b \in Int, a <= b
  PROVE  f * a <= f * b
<1>1. f * (b - a) \in Nat
  BY b - a \in Nat
<1>2. f * (b - a) = f * b - f * a
  OBVIOUS
<1> QED
  BY <1>1, <1>2

\* Scaled from n pixels to a length that rounds up to them, the c-th pixel
\* touches, counted from where the length begins, no pixel but the c-th and the
\* one before it, and that one only if the length is not whole.
LEMMA Squeezed ==
  ASSUME NEW length \in Nat \ {0}, NEW n \in Nat \ {0}, RoundedUp(length, n),
         NEW c \in 0..n - 1, NEW k \in Int,
         k * Unit * n < (c + 1) * length, (k + 1) * Unit * n > c * length
  PROVE  c - k \in Slack(length, n)
<1> DEFINE m == Unit * n
<1>1. Unit \in Nat \ {0} /\ m \in Nat
  BY SizeAssumption
<1>2. k * Unit * n = m * k /\ (k + 1) * Unit * n = m * (k + 1)
  BY <1>1
<1>3. length <= m /\ m - Unit < length
  <2>1. n * Unit = m /\ (n - 1) * Unit = m - Unit
    BY <1>1
  <2> QED
    BY <2>1 DEF RoundedUp
<1>4. (c + 1) * length <= m * (c + 1)
  <2>1. (c + 1) * length <= (c + 1) * m
    BY <1>1, <1>3, Monotone
  <2> QED
    BY <1>1, <2>1
<1>5. k <= c
  <2>1. m * k < m * (c + 1)
    BY <1>1, <1>2, <1>4
  <2>2. ~(c + 1 <= k)
    <3> SUFFICES ASSUME c + 1 <= k PROVE FALSE
      OBVIOUS
    <3>1. m * (c + 1) <= m * k
      BY <1>1, Monotone
    <3>2. m * (c + 1) \in Int /\ m * k \in Int
      BY <1>1
    <3> HIDE DEF m
    <3> QED
      BY <2>1, <3>1, <3>2
  <2> QED
    BY <2>2
<1>6. CASE length = n * Unit
  <2>1. length = m /\ c * length = m * c
    BY <1>1, <1>6
  <2>2. ~(k + 1 <= c)
    <3> SUFFICES ASSUME k + 1 <= c PROVE FALSE
      OBVIOUS
    <3>1. m * (k + 1) <= m * c
      BY <1>1, Monotone
    <3>2. m * (k + 1) \in Int /\ m * c \in Int
      BY <1>1
    <3>3. m * (k + 1) > m * c
      BY <1>2, <2>1
    <3> HIDE DEF m
    <3> QED
      BY <3>1, <3>2, <3>3
  <2>3. c - k = 0
    BY <1>5, <2>2
  <2> QED
    BY <1>6, <2>3 DEF Slack
<1>7. CASE length # n * Unit
  <2>1. c * (m - Unit) <= c * length
    BY <1>1, <1>3, Monotone
  <2>2. m * (c - 1) <= c * (m - Unit)
    <3>1. Unit * c <= Unit * n
      BY <1>1, Monotone
    <3>2. m * (c - 1) = m * c - m /\ c * (m - Unit) = m * c - Unit * c
      BY <1>1
    <3>3. m * c \in Int /\ Unit * c \in Int
      BY <1>1
    <3> QED
      BY <1>1, <3>1, <3>2, <3>3
  <2>3. m * (c - 1) < m * (k + 1)
    <3>1. /\ m * (c - 1) \in Int /\ m * (k + 1) \in Int
          /\ c * length \in Int /\ c * (m - Unit) \in Int
      BY <1>1
    <3>2. c * length < m * (k + 1)
      BY <1>2
    <3> HIDE DEF m
    <3> QED
      BY <2>1, <2>2, <3>1, <3>2
  <2>4. ~(k + 1 <= c - 1)
    <3> SUFFICES ASSUME k + 1 <= c - 1 PROVE FALSE
      OBVIOUS
    <3>1. m * (k + 1) <= m * (c - 1)
      BY <1>1, Monotone
    <3>2. m * (k + 1) \in Int /\ m * (c - 1) \in Int
      BY <1>1
    <3> HIDE DEF m
    <3> QED
      BY <2>3, <3>1, <3>2
  <2>5. c - k \in {0, 1}
    BY <1>5, <2>4
  <2> QED
    BY <1>7, <2>5 DEF Slack
<1> QED
  BY <1>6, <1>7

\* The canvas is drawn upside down twice: what a bitmap covers is where the
\* comparison looked for it, and the rim.
LEMMA CoveredPlace ==
  ASSUME NEW t, IsTry(t)
  PROVE  Covered(t) \subseteq Compared(t) \cup Rim(t)
<1> DEFINE d == t.drawing
<1> SUFFICES ASSUME NEW q \in Covered(t), q \notin Compared(t)
             PROVE  q \in Rim(t)
  OBVIOUS
<1>1. /\ d.width \in Nat \ {0} /\ d.height \in Nat \ {0}
      /\ d.columns \in Nat \ {0} /\ d.rows \in Nat \ {0}
      /\ RoundedUp(d.width, d.columns) /\ RoundedUp(d.height, d.rows)
      /\ d.ink \subseteq WordPixels(d) /\ t.x \in Nat /\ t.y \in Nat
      /\ Width \in Nat /\ Height \in Nat /\ Unit \in Nat
  BY DrawingFacts, SizeAssumption
<1>2. q \in Pixels /\ q[1] \in Int /\ q[2] \in Int /\ q = <<q[1], q[2]>>
  BY <1>1 DEF Covered, Pixels
<1>3. PICK p \in d.ink :
        /\ Touches(q[1], t.x * Unit, d.width, d.columns, p[1])
        /\ Touches(Height - 1 - q[2], ReversedY(t.y, d.height), d.height, d.rows,
                   d.rows - 1 - p[2])
  BY DEF Covered
<1>4. p[1] \in 0..d.columns - 1 /\ p[2] \in 0..d.rows - 1
  BY <1>1 DEF WordPixels
<1>5. p[1] - (q[1] - t.x) \in Slack(d.width, d.columns)
  <2> DEFINE k == q[1] - t.x
  <2>1. /\ q[1] * Unit * d.columns < t.x * Unit * d.columns + (p[1] + 1) * d.width
        /\ (q[1] + 1) * Unit * d.columns > t.x * Unit * d.columns + p[1] * d.width
    BY <1>3 DEF Touches
  <2>2. /\ k * Unit * d.columns = q[1] * Unit * d.columns - t.x * Unit * d.columns
        /\ (k + 1) * Unit * d.columns = (q[1] + 1) * Unit * d.columns - t.x * Unit * d.columns
    BY <1>1, <1>2
  <2>3. /\ q[1] * Unit * d.columns \in Int /\ t.x * Unit * d.columns \in Int
        /\ (q[1] + 1) * Unit * d.columns \in Int
        /\ (p[1] + 1) * d.width \in Int /\ p[1] * d.width \in Int /\ k \in Int
    BY <1>1, <1>2, <1>4
  <2> HIDE DEF k
  <2>4. k * Unit * d.columns < (p[1] + 1) * d.width
    BY <2>1, <2>2, <2>3
  <2>5. (k + 1) * Unit * d.columns > p[1] * d.width
    BY <2>1, <2>2, <2>3
  <2>6. p[1] - k \in Slack(d.width, d.columns)
    BY <1>1, <1>4, <2>3, <2>4, <2>5, Squeezed
  <2> QED
    BY <2>6 DEF k
<1>6. p[2] - (q[2] - t.y) \in Slack(d.height, d.rows)
  <2> DEFINE k == q[2] - t.y
             b == Height - 1 - q[2]
             from == Height * Unit - t.y * Unit - d.height
             e == d.rows - 1 - p[2]
  <2>1. /\ b * Unit * d.rows < from * d.rows + (e + 1) * d.height
        /\ (b + 1) * Unit * d.rows > from * d.rows + e * d.height
    BY <1>3 DEF Touches, ReversedY
  <2>2. k \in Int /\ b = Height - 1 - k - t.y
    BY <1>1, <1>2
  <2> DEFINE z == Height * Unit * d.rows - t.y * Unit * d.rows
  <2>3. /\ b * Unit * d.rows = z - (k + 1) * Unit * d.rows
        /\ (b + 1) * Unit * d.rows = z - k * Unit * d.rows
    <3> HIDE DEF k, b
    <3> QED
      BY <1>1, <2>2
  <2>4. /\ from * d.rows + (e + 1) * d.height = z - p[2] * d.height
        /\ from * d.rows + e * d.height = z - (p[2] + 1) * d.height
    <3>1. p[2] \in Int /\ e + 1 = d.rows - p[2] /\ e = d.rows - (p[2] + 1)
      BY <1>1, <1>4
    <3>2. from * d.rows = z - d.height * d.rows
      BY <1>1
    <3>3. /\ (d.rows - p[2]) * d.height = d.height * d.rows - p[2] * d.height
          /\ (d.rows - (p[2] + 1)) * d.height = d.height * d.rows - (p[2] + 1) * d.height
      BY <1>1, <3>1
    <3>4. /\ d.height * d.rows \in Int /\ p[2] * d.height \in Int /\ (p[2] + 1) * d.height \in Int
          /\ z \in Int
      BY <1>1, <3>1
    <3> HIDE DEF from, z, e
    <3> QED
      BY <3>1, <3>2, <3>3, <3>4
  <2>5. /\ z \in Int /\ (k + 1) * Unit * d.rows \in Int /\ k * Unit * d.rows \in Int
        /\ p[2] * d.height \in Int /\ (p[2] + 1) * d.height \in Int
    <3> HIDE DEF k
    <3> QED
      BY <1>1, <1>4, <2>2
  <2> HIDE DEF k, b, from, e, z
  <2>6. k * Unit * d.rows < (p[2] + 1) * d.height
    BY <2>1, <2>3, <2>4, <2>5
  <2>7. (k + 1) * Unit * d.rows > p[2] * d.height
    BY <2>1, <2>3, <2>4, <2>5
  <2>8. p[2] - k \in Slack(d.height, d.rows)
    BY <1>1, <1>4, <2>2, <2>6, <2>7, Squeezed
  <2> QED
    BY <2>8 DEF k
<1>7. /\ (t.x + p[1]) - (p[1] - (q[1] - t.x)) = q[1]
      /\ (t.y + p[2]) - (p[2] - (q[2] - t.y)) = q[2]
  BY <1>1, <1>2, <1>4
<1>8. <<t.x + p[1], t.y + p[2]>> \in Compared(t)
  BY DEF Compared
<1> QED
  BY <1>2, <1>5, <1>6, <1>7, <1>8 DEF Rim

\* A word that fits lies on the canvas, and its offsets in the buffer.
LEMMA FitsInside ==
  ASSUME NEW t, IsTry(t), Started(t), ~TooLarge(t)
  PROVE  /\ t.x * Unit + t.drawing.width <= Width * Unit
         /\ ReversedY(t.y, t.drawing.height) >= 0
         /\ ReversedY(t.y, t.drawing.height) + t.drawing.height <= Height * Unit
         /\ t.x + t.drawing.columns <= Width /\ t.y + t.drawing.rows <= Height
         /\ PastTheEnd(t) = {}
<1> DEFINE d == t.drawing
<1>1. /\ d.width \in Nat \ {0} /\ d.height \in Nat \ {0} /\ t.x \in Nat /\ t.y \in Nat
      /\ d.columns \in Nat \ {0} /\ d.rows \in Nat \ {0}
      /\ Width \in Nat \ {0} /\ Height \in Nat \ {0} /\ Unit \in Nat \ {0}
  BY DrawingFacts, SizeAssumption
<1>2. ASSUME NEW canvas \in Nat, NEW size \in Nat, NEW n \in Nat, NEW x \in Nat,
             size <= canvas * Unit, x \in Starts(canvas, size), RoundedUp(size, n)
      PROVE  x * Unit + size <= canvas * Unit /\ x + n <= canvas
  <2>1. canvas * Unit \in Int /\ x * Unit \in Int /\ (n - 1) * Unit \in Int
    BY <1>1
  <2>2. x * Unit <= canvas * Unit - size
    BY <1>2, <2>1 DEF Starts, Magnitude
  <2>3. (n - 1) * Unit < canvas * Unit - x * Unit
    BY <1>2, <2>1, <2>2 DEF RoundedUp
  <2>4. ~(canvas - x <= n - 1)
    <3> SUFFICES ASSUME canvas - x <= n - 1 PROVE FALSE
      OBVIOUS
    <3>1. Unit * (canvas - x) <= Unit * (n - 1)
      BY <1>1, Monotone
    <3>2. Unit * (canvas - x) = canvas * Unit - x * Unit /\ Unit * (n - 1) = (n - 1) * Unit
      BY <1>1
    <3> QED
      BY <2>1, <2>3, <3>1, <3>2
  <2> QED
    BY <2>1, <2>2, <2>4
<1>3. RoundedUp(d.width, d.columns) /\ RoundedUp(d.height, d.rows)
  BY DrawingFacts
<1>4. d.width <= Width * Unit /\ d.height <= Height * Unit
  <2>1. Width * Unit \in Int /\ Height * Unit \in Int
    BY <1>1
  <2> QED
    BY <1>1, <2>1 DEF TooLarge
<1>5. t.x * Unit + d.width <= Width * Unit /\ t.x + d.columns <= Width
  BY <1>1, <1>2, <1>3, <1>4 DEF Started
<1>6. t.y * Unit + d.height <= Height * Unit /\ t.y + d.rows <= Height
  BY <1>1, <1>2, <1>3, <1>4 DEF Started
<1>7. /\ ReversedY(t.y, d.height) >= 0
      /\ ReversedY(t.y, d.height) + d.height <= Height * Unit
  <2>1. t.y * Unit \in Nat /\ Height * Unit \in Int
    BY <1>1
  <2> QED
    BY <1>1, <1>6, <2>1 DEF ReversedY
<1>8. ASSUME NEW p \in WordPixels(d)
      PROVE  CanvasOffset(t, p) < Width * Height
  <2>1. p[1] \in 0..d.columns - 1 /\ p[2] \in 0..d.rows - 1
    BY DEF WordPixels
  <2>2. t.x + p[1] \in 0..Width - 1 /\ t.y + p[2] \in 0..Height - 1
    BY <1>1, <1>5, <1>6, <2>1
  <2>3. Width * (t.y + p[2]) + Width <= Width * Height
    <3>1. Width * ((t.y + p[2]) + 1) <= Width * Height
      BY <1>1, <2>2, Monotone
    <3>2. Width * ((t.y + p[2]) + 1) = Width * (t.y + p[2]) + Width
      BY <1>1, <2>2
    <3> QED
      BY <3>1, <3>2
  <2> DEFINE a == Width * (t.y + p[2])
  <2>4. a \in Int /\ Width * Height \in Int
    BY <1>1, <2>2
  <2> HIDE DEF a
  <2>5. a + t.x + p[1] < Width * Height
    BY <1>1, <2>1, <2>2, <2>3, <2>4 DEF a
  <2> QED
    BY <2>5 DEF CanvasOffset, a
<1>9. PastTheEnd(t) = {}
  <2> SUFFICES ASSUME NEW p \in PastTheEnd(t) PROVE FALSE
    OBVIOUS
  <2>1. p \in WordPixels(d) /\ CanvasOffset(t, p) >= Width * Height
    BY DEF PastTheEnd
  <2>2. CanvasOffset(t, p) \in Int /\ Width * Height \in Int
    BY <1>1, <2>1 DEF CanvasOffset, WordPixels
  <2> QED
    BY <1>8, <2>1, <2>2
<1> QED
  BY <1>5, <1>6, <1>7, <1>9

\* A comparison that is to be trusted finds every inked pixel that lies on ink.
LEMMA MissesNothing ==
  ASSUME NEW t, IsTry(t), ~Padded(t), Compared(t) \cap currentImage # {}
  PROVE  Meets(t)
<1> DEFINE d == t.drawing
<1>1. PICK q \in d.ink : <<t.x + q[1], t.y + q[2]>> \in currentImage
  BY DEF Compared
<1>2. q \in WordPixels(d)
  BY DrawingFacts
<1>3. InkRead(d, q)
  BY <1>1 DEF InkRead, WordOffset, Padded
<1>4. BackgroundRead(t, q)
  <2>1. q[1] \in Int /\ q[2] \in Int /\ t.x \in Int /\ t.y \in Int /\ Width \in Int
    BY <1>2, DrawingFacts, SizeAssumption DEF WordPixels
  <2>2. Width * (t.y + q[2]) + (t.x + q[1]) = Width * (t.y + q[2]) + t.x + q[1]
    BY <2>1
  <2> QED
    BY <1>1, <2>2 DEF BackgroundRead, CanvasOffset
<1> QED
  BY <1>2, <1>3, <1>4 DEF Meets

\* For a word that fits it finds nothing else.
LEMMA FindsOnlyCovered ==
  ASSUME NEW t, IsTry(t), Started(t), ~TooLarge(t), ~Padded(t), currentImage \subseteq Pixels,
         Meets(t)
  PROVE  Compared(t) \cap currentImage # {}
<1> DEFINE d == t.drawing
<1>1. PICK p \in WordPixels(d) : InkRead(d, p) /\ BackgroundRead(t, p)
  BY DEF Meets
<1>2. /\ d.columns \in Nat \ {0} /\ d.ink \subseteq (0..d.columns - 1) \X (0..d.rows - 1)
      /\ Width \in Nat /\ Height \in Nat /\ d.rows \in Nat /\ t.x \in Nat /\ t.y \in Nat
  BY DrawingFacts, SizeAssumption DEF WordPixels
<1>3. p[1] \in 0..d.columns - 1 /\ p[2] \in 0..d.rows - 1 /\ p = <<p[1], p[2]>>
  BY DEF WordPixels
<1>4. p \in d.ink
  <2>1. PICK q \in d.ink : d.columns * q[2] + q[1] = d.columns * p[2] + p[1]
    BY <1>1 DEF InkRead, WordOffset, Padded
  <2>2. q[1] \in 0..d.columns - 1 /\ q[2] \in Int /\ q = <<q[1], q[2]>>
    BY <1>2
  <2>3. q[1] = p[1] /\ q[2] = p[2]
    BY <1>2, <1>3, <2>1, <2>2, OffsetsUnique
  <2> QED
    BY <1>3, <2>2, <2>3
<1>5. t.x + p[1] \in 0..Width - 1 /\ t.y + p[2] \in Int
  BY <1>2, <1>3, FitsInside
<1>6. <<t.x + p[1], t.y + p[2]>> \in currentImage
  <2>1. PICK q \in currentImage : Width * q[2] + q[1] = Width * (t.y + p[2]) + t.x + p[1]
    BY <1>1 DEF BackgroundRead, CanvasOffset
  <2>2. q[1] \in 0..Width - 1 /\ q[2] \in Int /\ q = <<q[1], q[2]>>
    BY DEF Pixels
  <2>4. Width * (t.y + p[2]) + t.x + p[1] = Width * (t.y + p[2]) + (t.x + p[1])
    BY <1>2, <1>3
  <2>5. q[1] = t.x + p[1] /\ q[2] = t.y + p[2]
    BY <1>2, <1>5, <2>1, <2>2, <2>4, OffsetsUnique
  <2> QED
    BY <2>2, <2>5
<1> QED
  BY <1>4, <1>6 DEF Compared

-----------------------------------------------------------------------------
\* What a step does: t is the word tried, kept or left out.
Tried(t) ==
    /\ IsTry(t) /\ t \in Tries /\ Started(t) /\ tries' = Append(tries, t)
    /\ \/ /\ t.kept /\ (~Meets(t) \/ t.reused) /\ t.paint \subseteq Covered(t)
          /\ currentImage' = currentImage \cup t.paint /\ crashed' = crashed
       \/ /\ ~t.kept /\ currentImage' = currentImage /\ crashed' \in BOOLEAN
          /\ Meets(t) \/ t.reused \/ PastTheEnd(t) # {}

LEMMA StepTries ==
  ASSUME Consistent, AddNext
  PROVE  \E t : Tried(t)
<1>a. PICK word \in Words : \E d \in DrawingsOf[word] :
        \E x \in Starts(Width, d.width), y \in Starts(Height, d.height), o \in BOOLEAN :
        Add([word |-> word, drawing |-> d, x |-> x, y |-> y, reused |-> o,
             kept |-> FALSE, paint |-> {}])
  BY DEF AddNext
<1>b. PICK d \in DrawingsOf[word] :
        \E x \in Starts(Width, d.width), y \in Starts(Height, d.height), o \in BOOLEAN :
        Add([word |-> word, drawing |-> d, x |-> x, y |-> y, reused |-> o,
             kept |-> FALSE, paint |-> {}])
  BY <1>a
<1>1. PICK x \in Starts(Width, d.width), y \in Starts(Height, d.height), o \in BOOLEAN :
        Add([word |-> word, drawing |-> d, x |-> x, y |-> y, reused |-> o,
             kept |-> FALSE, paint |-> {}])
  BY <1>b
<1> DEFINE f == [word |-> word, drawing |-> d, x |-> x, y |-> y, reused |-> o,
                 kept |-> FALSE, paint |-> {}]
<1>2. f \in Tries /\ Started(f) /\ ~f.kept
  <2>1. d \in Drawings
    BY DEF Drawings
  <2>2. x \in Nat /\ y \in Nat
    <3>1. Width + d.width \in Int /\ Height + d.height \in Int
      BY DrawingsAssumption, SizeAssumption
    <3> QED
      BY <3>1 DEF Starts
  <2> QED
    BY <2>1, <2>2 DEF Tries, Started
<1>3. f.word = word /\ f.drawing = d /\ d \in DrawingsOf[word]
  OBVIOUS
<1>4. Add(f)
  BY <1>1
<1> HIDE DEF f
<1>0. IsTry(f)
  BY <1>2, <1>3 DEF IsTry, Tries
<1>5. CASE MayMeet(f) /\ tries' = Append(tries, f) /\ UNCHANGED <<currentImage, crashed>>
  <2>1. Meets(f) \/ f.reused \/ PastTheEnd(f) # {}
    BY <1>5 DEF MayMeet
  <2>2. currentImage' = currentImage /\ crashed' \in BOOLEAN
    BY <1>5 DEF Consistent, TypeOK
  <2> QED
    BY <1>0, <1>2, <1>5, <2>1, <2>2 DEF Tried
<1>6. CASE /\ MayMiss(f)
           /\ \E paint \in Joined(f) :
                  /\ tries' = Append(tries, [f EXCEPT !.kept = TRUE, !.paint = paint])
                  /\ currentImage' = currentImage \cup paint
           /\ UNCHANGED crashed
  <2>1. PICK paint \in Joined(f) :
          /\ tries' = Append(tries, [f EXCEPT !.kept = TRUE, !.paint = paint])
          /\ currentImage' = currentImage \cup paint
    BY <1>6
  <2>2. paint \subseteq Covered(f) /\ paint \subseteq Pixels
    BY DEF Joined, Covered
  <2> DEFINE u == [f EXCEPT !.kept = TRUE, !.paint = paint]
  <2>3. u \in Tries
    BY <1>2, <2>2 DEF Tries
  <2>4. /\ u.word = f.word /\ u.drawing = f.drawing /\ u.x = f.x /\ u.y = f.y
        /\ u.reused = f.reused
    BY <1>2 DEF Tries
  <2>5. u.kept /\ u.paint = paint
    BY <1>2 DEF Tries
  <2> HIDE DEF u
  <2>6. IsTry(u) /\ Started(u)
    BY <1>0, <1>2, <2>3, <2>4 DEF IsTry, Tries, Started
  <2>7. Meets(u) = Meets(f)
    BY <2>4 DEF Meets, BackgroundRead, CanvasOffset
  <2>8. Covered(u) = Covered(f)
    BY <2>4 DEF Covered
  <2>9. ~Meets(u) \/ u.reused
    BY <1>6, <2>4, <2>7 DEF MayMiss
  <2>10. tries' = Append(tries, u)
    BY <2>1 DEF u
  <2> QED
    BY <1>6, <2>1, <2>2, <2>3, <2>5, <2>6, <2>8, <2>9, <2>10 DEF Tried
<1>7. CASE (PastTheEnd(f) # {} \/ f.reused) /\ tries' = Append(tries, f)
           /\ crashed' = TRUE /\ UNCHANGED currentImage
  BY <1>0, <1>2, <1>7 DEF Tried
<1> QED
  BY <1>4, <1>5, <1>6, <1>7 DEF Add

LEMMA ConsistentStep ==
  ASSUME Consistent, [Next]_vars
  PROVE  Consistent'
<1>1. CASE AddNext
  <2>1. PICK t : Tried(t)
    BY <1>1, StepTries
  <2>2. /\ tries \in Seq(Tries) /\ tries' \in Seq(Tries) /\ Len(tries') = Len(tries) + 1
        /\ DOMAIN tries = 1..Len(tries) /\ DOMAIN tries' = 1..Len(tries) + 1 /\ Len(tries) \in Nat
        /\ tries'[Len(tries) + 1] = t
        /\ \A i \in DOMAIN tries : tries'[i] = tries[i]
    BY <2>1 DEF Consistent, Tried
  <2>3. currentImage \subseteq currentImage' /\ (t.kept => t.paint \subseteq currentImage')
    BY <2>1 DEF Tried
  <2>4. TypeOK'
    <3>1. crashed' \in BOOLEAN
      BY <2>1 DEF Consistent, TypeOK, Tried
    <3>2. currentImage' \subseteq Pixels
      BY <2>1 DEF Consistent, TypeOK, Tried, IsTry
    <3>3. \A i \in DOMAIN tries' : IsTry(tries'[i])
      BY <2>1, <2>2 DEF Consistent, TypeOK, Tried
    <3> QED
      BY <3>1, <3>2, <3>3 DEF TypeOK, IsTry
  <2>5. \A i \in DOMAIN tries' : Started(tries'[i])
    BY <2>1, <2>2 DEF Consistent, Tried
  <2>6. \A i \in DOMAIN tries' : tries'[i].kept => tries'[i].paint \subseteq currentImage'
    BY <2>2, <2>3 DEF Consistent
  <2>7. ASSUME NEW i \in DOMAIN tries', NEW j \in DOMAIN tries', i < j,
               tries'[i].kept, tries'[j].kept
        PROVE  \/ tries'[i].paint \cap tries'[j].paint \subseteq Rim(tries'[j])
               \/ Padded(tries'[j]) \/ tries'[j].reused
    <3>1. CASE j \in DOMAIN tries
      BY <2>2, <2>7, <3>1 DEF Consistent, WordsApart
    <3>2. CASE j = Len(tries) + 1
      <4>1. i \in DOMAIN tries /\ tries'[i] = tries[i] /\ tries'[j] = t
        BY <2>2, <2>7, <3>2
      <4>2. tries[i].paint \subseteq currentImage
        BY <2>7, <4>1 DEF Consistent
      <4>3. (~Meets(t) \/ t.reused) /\ t.paint \subseteq Covered(t) /\ IsTry(t)
        BY <2>1, <2>7, <4>1 DEF Tried
      <4>4. Covered(t) \subseteq Compared(t) \cup Rim(t)
        BY <4>3, CoveredPlace
      <4>5. Padded(t) \/ t.reused \/ Compared(t) \cap currentImage = {}
        BY <4>3, MissesNothing
      <4> QED
        BY <4>1, <4>2, <4>3, <4>4, <4>5
    <3> QED
      BY <2>2, <3>1, <3>2
  <2>8. WordsApart'
    BY <2>7 DEF WordsApart, Rim, Compared, Slack, Padded
  <2> QED
    BY <2>2, <2>4, <2>5, <2>6, <2>8 DEF Consistent, Started
<1>2. CASE UNCHANGED vars
  BY <1>2 DEF vars, Consistent, TypeOK, WordsApart, IsTry, Rim, Compared, Padded, Started
<1> QED
  BY <1>1, <1>2 DEF Next

(* The inductive invariant: everything Consistent says holds always. *)
THEOREM ConsistentAlways == Spec => []Consistent
<1>1. Init => Consistent
  <2> SUFFICES ASSUME Init PROVE Consistent
    OBVIOUS
  <2>1. tries = <<>> /\ DOMAIN tries = {} /\ tries \in Seq(Tries)
    BY DEF Init
  <2>2. TypeOK
    BY <2>1 DEF Init, TypeOK
  <2>3. WordsApart
    BY <2>1 DEF WordsApart
  <2> QED
    BY <2>1, <2>2, <2>3 DEF Consistent
<1> QED
  BY <1>1, ConsistentStep, PTL DEF Spec

(* The types. *)
THEOREM TypeCorrect == Spec => []TypeOK
<1>1. Consistent => TypeOK
  BY DEF Consistent
<1> QED
  BY <1>1, ConsistentAlways, PTL

(* No word is painted over another, but for the rim of a scaled one. *)
THEOREM WordsApartAlways == Spec => []WordsApart
<1>1. Consistent => WordsApart
  BY DEF Consistent
<1> QED
  BY <1>1, ConsistentAlways, PTL

(* No word that fits is cut, or read past the end. *)
THEOREM WordsWholeAlways == Spec => []WordsWhole
<1>1. Consistent => WordsWhole
  <2> SUFFICES ASSUME Consistent, NEW i \in DOMAIN tries, ~TooLarge(tries[i])
               PROVE  /\ tries[i].x * Unit + tries[i].drawing.width <= Width * Unit
                      /\ ReversedY(tries[i].y, tries[i].drawing.height) >= 0
                      /\ ReversedY(tries[i].y, tries[i].drawing.height) + tries[i].drawing.height
                            <= Height * Unit
                      /\ PastTheEnd(tries[i]) = {}
    BY DEF WordsWhole
  <2>1. IsTry(tries[i]) /\ Started(tries[i])
    BY DEF Consistent, TypeOK
  <2> QED
    BY <2>1, FitsInside
<1> QED
  BY <1>1, ConsistentAlways, PTL

(* No word is left out for nothing. *)
THEOREM DropsExplainedAlways == Spec => DropsExplained
<1> DEFINE Explained ==
      \A i \in DOMAIN tries' :
          i \notin DOMAIN tries /\ ~tries'[i].kept =>
              \/ Compared(tries'[i]) \cap currentImage # {}
              \/ TooLarge(tries'[i]) \/ Padded(tries'[i]) \/ tries'[i].reused
<1>1. Consistent /\ [Next]_vars => [Explained]_vars
  <2> SUFFICES ASSUME Consistent, AddNext, NEW i \in DOMAIN tries', i \notin DOMAIN tries,
                      ~tries'[i].kept
               PROVE  \/ Compared(tries'[i]) \cap currentImage # {}
                      \/ TooLarge(tries'[i]) \/ Padded(tries'[i]) \/ tries'[i].reused
    BY DEF Next
  <2>1. PICK t : Tried(t)
    BY StepTries
  <2>2. tries'[i] = t
    BY <2>1 DEF Consistent, Tried
  <2>3. IsTry(t) /\ Started(t) /\ (Meets(t) \/ t.reused \/ PastTheEnd(t) # {})
    BY <2>1, <2>2 DEF Tried
  <2>4. currentImage \subseteq Pixels
    BY DEF Consistent, TypeOK
  <2> QED
    BY <2>2, <2>3, <2>4, FitsInside, FindsOnlyCovered
<1> QED
  BY <1>1, ConsistentAlways, PTL DEF Spec, DropsExplained
=============================================================================
