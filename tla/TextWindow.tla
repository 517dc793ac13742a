----------------------------- MODULE TextWindow -----------------------------
(***************************************************************************)
(* The character screen the text functions of the sprite library offer: a  *)
(* window of COLS x ROWS cells in the upper left of a larger map, a cursor *)
(* in it, and four scrolls that move the window's contents by one cell.    *)
(***************************************************************************)
EXTENDS Integers

CONSTANTS Cells, Chars, Blank, COLS, ROWS,
          Loads       \* maps the program copies over the whole plane

VARIABLES text, col, row

vars == <<text, col, row>>

Window == (0 .. COLS - 1) \X (0 .. ROWS - 1)

\* The window's contents moved so that each cell shows what was dx, dy away;
\* what moves in is blank, what is outside the window stays.
Moved(t, dx, dy) ==
    [c \in Cells |->
        IF c \notin Window THEN t[c]
        ELSE IF <<c[1] + dx, c[2] + dy>> \in Window THEN t[<<c[1] + dx, c[2] + dy>>]
        ELSE Blank]

\* A line is ended: the cursor goes to the next row, or the text moves up.
Ended(t, r) ==
    IF r + 1 < ROWS THEN [text |-> t, row |-> r + 1]
                    ELSE [text |-> Moved(t, 0, 1), row |-> r]

\* A full row is ended only when the next code arrives, whatever code it is.
Opened ==
    IF col < COLS THEN [text |-> text, col |-> col, row |-> row]
    ELSE LET e == Ended(text, row) IN [text |-> e.text, col |-> 0, row |-> e.row]

Init ==
    /\ text = [c \in Cells |-> Blank]
    /\ col = 0
    /\ row = 0

Type(chr) ==
    LET r == Opened IN
    /\ text' = [r.text EXCEPT ![<<r.col, r.row>>] = chr]
    /\ col' = r.col + 1
    /\ row' = r.row

NewLine ==
    LET r == Opened
        e == Ended(r.text, r.row)
    IN  /\ text' = e.text
        /\ col' = 0
        /\ row' = e.row

Scroll(dx, dy) ==
    /\ text' = Moved(text, dx, dy)
    /\ UNCHANGED <<col, row>>

Erase ==
    /\ text' = [c \in Cells |-> IF c \in Window THEN Blank ELSE text[c]]
    /\ col' = 0
    /\ row' = 0

MoveTo(x, y) ==
    /\ col' = x
    /\ row' = y
    /\ UNCHANGED text

Poke(c, chr) ==
    /\ text' = [text EXCEPT ![c] = chr]
    /\ UNCHANGED <<col, row>>

Load(m) ==
    /\ text' = m
    /\ UNCHANGED <<col, row>>

Restart ==
    /\ text' = [c \in Cells |-> Blank]
    /\ col' = 0
    /\ row' = 0

Next ==
    \/ \E chr \in Chars : Type(chr)
    \/ NewLine
    \/ Scroll(0, 1) \/ Scroll(0, -1) \/ Scroll(1, 0) \/ Scroll(-1, 0)
    \/ Erase
    \/ Restart
    \/ \E x \in 0 .. COLS, y \in 0 .. ROWS - 1 : MoveTo(x, y)
    \/ \E c \in Cells, chr \in Chars : Poke(c, chr)
    \/ \E m \in Loads : Load(m)

Spec == Init /\ [][Next]_vars
=============================================================================
