----------------------------- MODULE WordCloud -----------------------------
(***************************************************************************)
(* The word cloud of the home screen (Canvas.swift).  Each keyword is      *)
(* drawn in a random size, put in a random place of the canvas, compared   *)
(* pixel by pixel with the picture so far, and joined to it unless two     *)
(* inked pixels meet.  A text's size is a fraction of pixels: its bitmap   *)
(* is the size rounded up, the comparison takes the bitmap as it is, and   *)
(* join scales it into the fraction, so that a pixel's ink may reach the   *)
(* pixel to its left or above.  Pixels are found by their offset in        *)
(* a buffer, in three ways the buffer may answer otherwise: rows of the    *)
(* word's buffer may be longer than the word (UIKit aligns them), a word   *)
(* larger than the canvas reaches past a row or past the end, and both     *)
(* buffers have been released by the time they are read, so their memory   *)
(* may have been reused, or be gone.  The canvas is in whole pixels, as    *)
(* the image view of the storyboard is.                                    *)
(***************************************************************************)
EXTENDS Integers, Sequences

CONSTANTS
    Width, Height,  \* of the canvas, in pixels
    Unit,           \* the fractions a pixel is divided into
    Words,          \* keywordDictionary.keys
    DrawingsOf      \* what draw may make of a word, depending on the font size

\* A drawing has its size in fractions of a pixel, the columns and rows of its
\* bitmap (the size rounded up), the pixels of a row of its buffer, and the
\* pixels <<column, row>> of the bitmap that are inked.
ASSUME SizeAssumption == Width \in Nat \ {0} /\ Height \in Nat \ {0} /\ Unit \in Nat \ {0}
RoundedUp(size, pixels) == (pixels - 1) * Unit < size /\ size <= pixels * Unit
ASSUME DrawingsAssumption ==
    \A word \in Words : \A d \in DrawingsOf[word] :
        /\ d.width \in Nat \ {0} /\ d.height \in Nat \ {0}
        /\ d.columns \in Nat \ {0} /\ RoundedUp(d.width, d.columns)
        /\ d.rows \in Nat \ {0} /\ RoundedUp(d.height, d.rows)
        /\ d.stride \in Nat /\ d.stride >= d.columns
        /\ d.ink \subseteq (0..d.columns - 1) \X (0..d.rows - 1)

VARIABLES
    currentImage,  \* the inked pixels of the canvas
    tries,         \* history: what became of each word, in their order
    crashed        \* a read ended the app

vars == <<currentImage, tries, crashed>>

Pixels == (0..Width - 1) \X (0..Height - 1)

Init ==
    /\ currentImage = {}
    /\ tries = <<>>
    /\ crashed = FALSE

-----------------------------------------------------------------------------
Magnitude(n) == IF n < 0 THEN -n ELSE n

\* Mutant: as if a word were a point.
Starts_Anywhere(canvas, size) == 0..canvas - 1

\* Mutant: a word larger than the canvas sticks out on both sides.
Starts_BothSides(canvas, size) ==
    {x \in -size..canvas : x * Unit <= Magnitude(canvas * Unit - size)}

\* Where a word may start, along one side of the canvas: the whole pixels of
\* 0...abs(canvas - word).
Starts(canvas, size) ==
    {x \in 0..canvas + size : x * Unit <= Magnitude(canvas * Unit - size)}

\* Mutant: the canvas is not drawn upside down.
ReversedY_Not(y, height) == y * Unit

\* The context's rows count from the bottom.
ReversedY(y, height) == Height * Unit - y * Unit - height

\* Whether the c-th of the n parts of a length, which begins at from, touches
\* pixel k.
Touches(k, from, length, n, c) ==
    /\ k * Unit * n < from * n + (c + 1) * length
    /\ (k + 1) * Unit * n > from * n + c * length

\* The pixels that the scaled bitmap's ink touches, clipped to the canvas.
Covered(t) ==
    {q \in Pixels :
        \E p \in t.drawing.ink :
            /\ Touches(q[1], t.x * Unit, t.drawing.width, t.drawing.columns, p[1])
            /\ Touches(Height - 1 - q[2], ReversedY(t.y, t.drawing.height), t.drawing.height,
                       t.drawing.rows, t.drawing.rows - 1 - p[2])}

Scaled(d) == d.width # d.columns * Unit \/ d.height # d.rows * Unit

\* What join may paint: of a bitmap that is scaled, a pixel touched may get too
\* little of the ink to show.
Joined(t) == IF Scaled(t.drawing) THEN SUBSET Covered(t) ELSE {Covered(t)}

\* Offsets in pixels, as intersected computes them.
WordOffset(d, p) == d.columns * p[2] + p[1]
CanvasOffset(t, p) == Width * (t.y + p[2]) + t.x + p[1]

\* Mutant: the word's rectangle counts, blank or inked.
InkRead_Any(d, p) == TRUE

\* The alpha found for pixel p of the word: that of the pixel at its offset.
InkRead(d, p) == \E q \in d.ink : d.stride * q[2] + q[1] = WordOffset(d, p)

\* Mutant: rows of the word's height.
BackgroundRead_Height(t, p) ==
    \E q \in currentImage : Width * q[2] + q[1] = Height * (t.y + p[2]) + t.x + p[1]

BackgroundRead(t, p) == \E q \in currentImage : Width * q[2] + q[1] = CanvasOffset(t, p)

WordPixels(d) == (0..d.columns - 1) \X (0..d.rows - 1)

PastTheEnd(t) == {p \in WordPixels(t.drawing) : CanvasOffset(t, p) >= Width * Height}

\* What intersected may answer, and whether it may fault.
Meets(t) == \E p \in WordPixels(t.drawing) : InkRead(t.drawing, p) /\ BackgroundRead(t, p)
MayMeet(t) == Meets(t) \/ t.reused \/ \E p \in PastTheEnd(t) : InkRead(t.drawing, p)
MayMiss(t) == ~Meets(t) \/ t.reused

\* add(word:): the word is left out, joined, or ends the app.
Add(t) ==
    \/ /\ MayMeet(t)
       /\ tries' = Append(tries, t)
       /\ UNCHANGED <<currentImage, crashed>>
    \/ /\ MayMiss(t)
       /\ \E paint \in Joined(t) :
              /\ tries' = Append(tries, [t EXCEPT !.kept = TRUE, !.paint = paint])
              /\ currentImage' = currentImage \cup paint
       /\ UNCHANGED crashed
    \/ /\ PastTheEnd(t) # {} \/ t.reused
       /\ tries' = Append(tries, t)
       /\ crashed' = TRUE
       /\ UNCHANGED currentImage

\* The next key of the dictionary, in the order of its hashes.
AddNext ==
    /\ ~crashed
    /\ \E word \in Words \ {tries[i].word : i \in DOMAIN tries} : \E d \in DrawingsOf[word] :
           \E x \in Starts(Width, d.width), y \in Starts(Height, d.height), o \in BOOLEAN :
               Add([word |-> word, drawing |-> d, x |-> x, y |-> y, reused |-> o,
                    kept |-> FALSE, paint |-> {}])

Next == AddNext

Spec == Init /\ [][Next]_vars

-----------------------------------------------------------------------------
IsTry(t) ==
    /\ t.word \in Words /\ t.drawing \in DrawingsOf[t.word]
    /\ t.x \in Nat /\ t.y \in Nat
    /\ t.reused \in BOOLEAN /\ t.kept \in BOOLEAN /\ t.paint \subseteq Pixels

TypeOK ==
    /\ currentImage \subseteq Pixels
    /\ \A i \in DOMAIN tries : IsTry(tries[i])
    /\ crashed \in BOOLEAN

\* The word is larger than the canvas; its buffer has longer rows than it has.
TooLarge(t) == t.drawing.width > Width * Unit \/ t.drawing.height > Height * Unit
Padded(t) == t.drawing.stride # t.drawing.columns

\* The pixels of the canvas that the comparison looks up for the word's ink, and
\* those beside them that only scaling can reach.
Compared(t) == {<<t.x + p[1], t.y + p[2]>> : p \in t.drawing.ink}
Slack(size, pixels) == IF size = pixels * Unit THEN {0} ELSE {0, 1}
Rim(t) ==
    {q \in Pixels \ Compared(t) :
        \E p \in Compared(t), i \in Slack(t.drawing.width, t.drawing.columns),
           j \in Slack(t.drawing.height, t.drawing.rows) : q = <<p[1] - i, p[2] - j>>}

(* No word is painted over another, but for the rim of the later one where *)
(* it is scaled: a pixel to the left of one of its own, or above it, which  *)
(* was never compared.  A word of whole pixels has no rim and meets no word *)
(* before it, nor is a word larger than the canvas an exception; a padded   *)
(* buffer and reused memory are (intersected and join together).            *)
WordsApart ==
    \A i, j \in DOMAIN tries :
        i < j /\ tries[i].kept /\ tries[j].kept =>
            \/ tries[i].paint \cap tries[j].paint \subseteq Rim(tries[j])
            \/ Padded(tries[j]) \/ tries[j].reused

(* A word that fits on the canvas is never cut by its edge, and only one    *)
(* that does not fit makes the comparison read past the end of the buffer.  *)
WordsWhole ==
    \A i \in DOMAIN tries :
        LET t == tries[i] IN
            \/ TooLarge(t)
            \/ /\ t.x * Unit + t.drawing.width <= Width * Unit
               /\ ReversedY(t.y, t.drawing.height) >= 0
               /\ ReversedY(t.y, t.drawing.height) + t.drawing.height <= Height * Unit
               /\ PastTheEnd(t) = {}

(* No word is left out for nothing: some pixel of its bitmap, where it      *)
(* would have begun to be drawn, lay on ink, unless the word is larger than *)
(* the canvas, its buffer is padded or its memory was reused.               *)
DropsExplained ==
    [][\A i \in DOMAIN tries' :
           i \notin DOMAIN tries /\ ~tries'[i].kept =>
               \/ Compared(tries'[i]) \cap currentImage # {}
               \/ TooLarge(tries'[i]) \/ Padded(tries'[i]) \/ tries'[i].reused]_vars
=============================================================================
