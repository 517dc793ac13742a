------------------------------ MODULE Sprite_proofs ------------------------------
(***************************************************************************)
(* The sprite library, for every size of the screen, the planes and the    *)
(* text window: first its maps and its text, then its drawing.             *)
(***************************************************************************)
EXTENDS SpriteBG, SpriteRaster, LoopLemmas

-----------------------------------------------------------------------------
(***************************************************************************)
(* Maps and text, for any size of the planes and of the text window.       *)
(* First the change check by itself: drawing only the cells that changed   *)
(* implements a screen that draws every cell on every frame.  Then the     *)
(* loops of the text functions: working in place, they compute what a      *)
(* character window calls moving its contents.  Then the library under     *)
(* whatever calls a program makes: each is a step of the change check, so  *)
(* what holds of that holds of the library, and a step of the window.      *)
(***************************************************************************)

\* The copies of the maps hold drawn codes from the first state on.
LEMMA CacheInitInv == CacheInit => CacheInv
  <1> SUFFICES ASSUME CacheInit PROVE CacheInv
    OBVIOUS
  <1>1. /\ bga \in [Planes -> [Cells -> Chars]]
        /\ bgb \in [Planes -> [Cells -> Chars \union {Invalid}]]
        /\ bgf \in [Planes -> [Cells -> Glyphs \union {Undrawn}]]
    BY CacheAssumption DEF CacheInit, Everywhere
  <1>2. \A p \in Planes, c \in Cells : bgb[p][c] = Invalid
    BY DEF CacheInit, Everywhere
  <1>3. QED
    BY <1>1, <1>2 DEF CacheInit, CacheInv, CacheTypeOK, CopiesTellTheTruth

\* Every operation keeps the copies and the frame buffers in agreement.
LEMMA CacheStepInv == CacheInv /\ [CacheNext]_cacheVars => CacheInv'
  <1> SUFFICES ASSUME CacheInv, [CacheNext]_cacheVars PROVE CacheInv'
    OBVIOUS
  <1> USE DEF CacheInv, CacheTypeOK, CopiesTellTheTruth
  <1>1. ASSUME NEW p \in Planes, NEW m \in [Cells -> Chars], WriteMap(p, m)
        PROVE  CacheInv'
    BY <1>1 DEF WriteMap
  <1>2. ASSUME NEW q \in Patterns, SetPatternAdr(q) PROVE CacheInv'
    BY <1>2 DEF SetPatternAdr
  <1>3. CASE BGFlush
    BY <1>3 DEF BGFlush, Everywhere
  <1>4. ASSUME NEW q \in Patterns, SpriteInit(q) PROVE CacheInv'
    BY <1>4, CacheAssumption DEF SpriteInit, Everywhere
  <1>5. ASSUME NEW S \in SUBSET Planes, MakeFrame(S) PROVE CacheInv'
    <2>1. CacheTypeOK'
      BY <1>5 DEF MakeFrame, BgCheck, Glyph, Glyphs
    <2>2. CopiesTellTheTruth'
      BY <1>5, CacheAssumption DEF MakeFrame, BgCheck
    <2>3. QED
      BY <2>1, <2>2
  <1>6. CASE UNCHANGED cacheVars
    BY <1>6 DEF cacheVars
  <1>7. QED
    BY <1>1, <1>2, <1>3, <1>4, <1>5, <1>6 DEF CacheNext

\* In every reachable state the copies tell the truth about the frame buffers.
THEOREM CacheCorrect == CacheSpec => []CacheInv
  BY CacheInitInv, CacheStepInv, PTL DEF CacheSpec

\* One frame with the check is one frame that draws every cell of the checked
\* planes: a cell that is not redrawn already shows what drawing would give.
LEMMA FrameDrawsAll ==
  ASSUME CacheInv, NEW S \in SUBSET Planes, MakeFrame(S)
  PROVE  Screen!Frame(S)
  <1>1. ~owed /\ UNCHANGED <<bga, pat, owed>>
    BY DEF MakeFrame
  <1>2. \A p \in S, c \in Cells : bgf'[p][c] = Screen!Glyph(bga[p][c], pat)
    BY CacheAssumption
       DEF MakeFrame, BgCheck, CacheInv, CacheTypeOK, CopiesTellTheTruth, Glyph, Screen!Glyph
  <1>3. \A p \in Planes \ S : bgf'[p] = bgf[p]
    BY DEF MakeFrame, BgCheck, CacheInv, CacheTypeOK
  <1>4. bgf' = [p \in Planes |-> [c \in Cells |-> bgf'[p][c]]]
    BY DEF MakeFrame, BgCheck
  <1>5. bgf' = [p \in Planes |-> IF p \in S THEN Screen!Drawn(bga[p], pat) ELSE bgf[p]]
    BY <1>2, <1>3, <1>4 DEF Screen!Drawn
  <1>6. QED
    BY <1>1, <1>5 DEF Screen!Frame

\* Every step of the cached library is a step of the plain screen or leaves it
\* as it is.
LEMMA CacheStepRefines ==
  CacheInv /\ [CacheNext]_cacheVars => [Screen!Next]_(Screen!vars)
  <1> SUFFICES ASSUME CacheInv, [CacheNext]_cacheVars
               PROVE  [Screen!Next]_(Screen!vars)
    OBVIOUS
  <1>1. ASSUME NEW p \in Planes, NEW m \in [Cells -> Chars], WriteMap(p, m)
        PROVE  Screen!Write(p, m)
    BY <1>1 DEF WriteMap, Screen!Write
  <1>2. ASSUME NEW q \in Patterns, SetPatternAdr(q) PROVE Screen!SetPattern(q)
    BY <1>2 DEF SetPatternAdr, Screen!SetPattern
  <1>3. CASE BGFlush
    BY <1>3 DEF BGFlush, Screen!Flush, Screen!Next
  <1>4. ASSUME NEW q \in Patterns, SpriteInit(q) PROVE Screen!Next
    <2>1. Everywhere(Blank) \in [Planes -> [Cells -> Chars]]
      BY CacheAssumption DEF Everywhere
    <2>2. Screen!Restart(Everywhere(Blank), q)
      BY <1>4 DEF SpriteInit, Screen!Restart
    <2>3. QED
      BY <2>1, <2>2 DEF Screen!Next
  <1>5. ASSUME NEW S \in SUBSET Planes, MakeFrame(S) PROVE Screen!Frame(S)
    BY <1>5, FrameDrawsAll
  <1>6. CASE UNCHANGED cacheVars
    BY <1>6 DEF cacheVars, Screen!vars
  <1>7. QED
    BY <1>1, <1>2, <1>3, <1>4, <1>5, <1>6 DEF CacheNext, Screen!Next

\* A cleared and invalidated library is an initial screen.
LEMMA CacheInitRefines == CacheInit => Screen!Init
  BY CacheAssumption DEF CacheInit, Screen!Init, Everywhere, Undrawn, Screen!Undrawn

\* The change check implements the plain screen: skipping the cells whose code
\* is the one drawn last never changes what a frame shows.
THEOREM CacheImplementsScreen == CacheSpec => DrawsLikeScreen
  BY CacheCorrect, CacheInitRefines, CacheStepRefines, PTL
     DEF CacheSpec, DrawsLikeScreen, Screen!Spec

-----------------------------------------------------------------------------
\* The rows from the given one towards d, n passes of them, have been copied.
LEMMA CopyRowsMoves ==
  ASSUME NEW m, m \in [Cells -> Chars], NEW first, NEW d,
         \/ first = cur_uy /\ d = 1
         \/ first = cur_dy - 1 /\ d = -1
  PROVE  \A c \in Cells :
           CopyRows(m, first, d)[c] =
             IF Inside(c[1]) /\ c[2] \in 0 .. cur_dy - 1 /\ c[2] + d \in 0 .. cur_dy - 1
               THEN m[<<c[1], c[2] + d>>] ELSE m[c]
  <1> USE SpriteAssumption DEF cur_uy, cur_lx, Rows, Inside
  <1> DEFINE Done(k, y) == IF d = 1 THEN 0 <= y /\ y < k ELSE cur_dy - k <= y /\ y < cur_dy
             After(k) == [c \in Cells |-> IF Inside(c[1]) /\ Done(k, c[2])
                                             THEN m[<<c[1], c[2] + d>>] ELSE m[c]]
             Pass(f, k) == IF k = 0 THEN m
                           ELSE LET y == first + d * (k - 1) IN CopyRow(f[k - 1], y, y + d)
             after == CHOOSE f : f = [k \in 0 .. Rows - 1 |-> Pass(f, k)]
             g == [k \in 0 .. Rows - 1 |-> After(k)]
  <1>1. Rows - 1 \in Nat
    OBVIOUS
  <1>2. After(0) = m
    OBVIOUS
  <1>3. ASSUME NEW k \in 1 .. Rows - 1
        PROVE  LET y == first + d * (k - 1) IN CopyRow(After(k - 1), y, y + d) = After(k)
    <2> DEFINE y == first + d * (k - 1)
    <2>1. y = IF d = 1 THEN k - 1 ELSE cur_dy - k
      OBVIOUS
    <2>2. y \in 0 .. cur_dy - 1 /\ y + d \in 0 .. cur_dy - 1 /\ y \in Int /\ d \in {1, -1}
      BY <2>1
    <2> HIDE DEF y
    <2>3. ASSUME NEW c \in Cells
          PROVE  (IF c[2] = y /\ Inside(c[1]) THEN After(k - 1)[<<c[1], y + d>>] ELSE After(k - 1)[c])
                   = After(k)[c]
      <3>1. c[1] \in Int /\ c[2] \in Int /\ c = <<c[1], c[2]>>
        OBVIOUS
      <3>2. CASE c[2] = y /\ Inside(c[1])
        <4>1. <<c[1], y + d>> \in Cells
          BY <2>2
        <4>2. ~Done(k - 1, y + d)
          BY <2>1, <2>2
        <4>3. After(k - 1)[<<c[1], y + d>>] = m[<<c[1], y + d>>]
          BY <4>1, <4>2
        <4>4. Done(k, c[2])
          BY <2>1, <2>2, <3>2
        <4> QED BY <3>2, <4>3, <4>4
      <3>3. CASE ~(c[2] = y /\ Inside(c[1]))
        <4>1. Inside(c[1]) => (Done(k, c[2]) <=> Done(k - 1, c[2]))
          BY <2>1, <2>2, <3>1, <3>3
        <4> QED BY <3>3, <4>1
      <3> QED BY <3>2, <3>3
    <2> QED BY <2>3 DEF CopyRow
  <1>4. g = [k \in 0 .. Rows - 1 |-> Pass(g, k)]
    <2>1. ASSUME NEW k \in 0 .. Rows - 1 PROVE g[k] = Pass(g, k)
      <3>1. CASE k = 0
        BY <3>1, <1>2
      <3>2. CASE k # 0
        <4>1. k \in 1 .. Rows - 1 /\ k - 1 \in 0 .. Rows - 1
          BY <3>2
        <4>2. g[k] = After(k) /\ g[k - 1] = After(k - 1)
          BY <4>1
        <4> HIDE DEF g, After
        <4> QED BY <1>3, <3>2, <4>1, <4>2
      <3> QED BY <3>1, <3>2
    <2> QED BY <2>1
  <1>5. after = [k \in 0 .. Rows - 1 |-> Pass(after, k)]
    <2> HIDE DEF g
    <2> QED BY <1>4, Zenon
  <1>6. \A k \in 0 .. Rows - 1 : after[k] = After(k)
    <2> HIDE DEF after, After
    <2> DEFINE S == {k \in Nat : k \in 0 .. Rows - 1 => after[k] = After(k)}
    <2>1. 0 \in S
      BY <1>2, <1>5, <1>1
    <2>2. ASSUME NEW k \in Nat, k \in S PROVE k + 1 \in S
      <3> SUFFICES ASSUME k + 1 \in 0 .. Rows - 1 PROVE after[k + 1] = After(k + 1)
        OBVIOUS
      <3>1. after[k + 1] = Pass(after, k + 1)
        BY <1>5
      <3>2. after[k] = After(k) /\ k + 1 # 0 /\ (k + 1) - 1 = k /\ k + 1 \in 1 .. Rows - 1
        BY <2>2
      <3> QED BY <3>1, <3>2, <1>3
    <2> HIDE DEF S
    <2>3. Nat \subseteq S
      BY <2>1, <2>2, SetInduction
    <2> QED BY <2>3 DEF S
  <1>7. CopyRows(m, first, d) = after[Rows - 1]
    BY DEF CopyRows
  <1>8. CopyRows(m, first, d) = After(Rows - 1)
    <2>1. Rows - 1 \in 0 .. Rows - 1
      BY <1>1
    <2> HIDE DEF after, After
    <2> QED BY <2>1, <1>6, <1>7
  <1>9. ASSUME NEW c \in Cells
        PROVE  Done(Rows - 1, c[2]) <=> c[2] \in 0 .. cur_dy - 1 /\ c[2] + d \in 0 .. cur_dy - 1
    OBVIOUS
  <1> QED BY <1>8, <1>9

\* The same of CopyCols and the columns.
LEMMA CopyColsMoves ==
  ASSUME NEW m, m \in [Cells -> Chars], NEW first, NEW d,
         \/ first = cur_lx /\ d = 1
         \/ first = cur_rx - 1 /\ d = -1
  PROVE  \A c \in Cells :
           CopyCols(m, first, d)[c] =
             IF 0 <= c[2] /\ c[2] < cur_dy /\ c[1] \in 0 .. cur_rx - 1 /\ c[1] + d \in 0 .. cur_rx - 1
               THEN m[<<c[1] + d, c[2]>>] ELSE m[c]
  <1> USE SpriteAssumption DEF cur_uy, cur_lx, Cols, Inside
  <1> DEFINE Done(k, x) == IF d = 1 THEN 0 <= x /\ x < k ELSE cur_rx - k <= x /\ x < cur_rx
             After(k) == [c \in Cells |-> IF 0 <= c[2] /\ c[2] < cur_dy /\ Done(k, c[1])
                                             THEN m[<<c[1] + d, c[2]>>] ELSE m[c]]
             Pass(f, k) == IF k = 0 THEN m
                           ELSE LET x == first + d * (k - 1) IN CopyCol(f[k - 1], x, x + d)
             after == CHOOSE f : f = [k \in 0 .. Cols - 1 |-> Pass(f, k)]
             g == [k \in 0 .. Cols - 1 |-> After(k)]
  <1>1. Cols - 1 \in Nat
    OBVIOUS
  <1>2. After(0) = m
    OBVIOUS
  <1>3. ASSUME NEW k \in 1 .. Cols - 1
        PROVE  LET x == first + d * (k - 1) IN CopyCol(After(k - 1), x, x + d) = After(k)
    <2> DEFINE x == first + d * (k - 1)
    <2>1. x = IF d = 1 THEN k - 1 ELSE cur_rx - k
      OBVIOUS
    <2>2. x \in 0 .. cur_rx - 1 /\ x + d \in 0 .. cur_rx - 1 /\ x \in Int /\ d \in {1, -1}
      BY <2>1
    <2> HIDE DEF x
    <2>3. ASSUME NEW c \in Cells
          PROVE  (IF c[1] = x /\ 0 <= c[2] /\ c[2] < cur_dy THEN After(k - 1)[<<x + d, c[2]>>] ELSE After(k - 1)[c])
                   = After(k)[c]
      <3>1. c[1] \in Int /\ c[2] \in Int /\ c = <<c[1], c[2]>>
        OBVIOUS
      <3>2. CASE c[1] = x /\ 0 <= c[2] /\ c[2] < cur_dy
        <4>1. <<x + d, c[2]>> \in Cells
          BY <2>2
        <4>2. ~Done(k - 1, x + d)
          BY <2>1, <2>2
        <4>3. After(k - 1)[<<x + d, c[2]>>] = m[<<x + d, c[2]>>]
          BY <4>1, <4>2
        <4>4. Done(k, c[1])
          BY <2>1, <2>2, <3>2
        <4> QED BY <3>2, <4>3, <4>4
      <3>3. CASE ~(c[1] = x /\ 0 <= c[2] /\ c[2] < cur_dy)
        <4>1. 0 <= c[2] /\ c[2] < cur_dy => (Done(k, c[1]) <=> Done(k - 1, c[1]))
          BY <2>1, <2>2, <3>1, <3>3
        <4> QED BY <3>3, <4>1
      <3> QED BY <3>2, <3>3
    <2> QED BY <2>3 DEF CopyCol
  <1>4. g = [k \in 0 .. Cols - 1 |-> Pass(g, k)]
    <2>1. ASSUME NEW k \in 0 .. Cols - 1 PROVE g[k] = Pass(g, k)
      <3>1. CASE k = 0
        BY <3>1, <1>2
      <3>2. CASE k # 0
        <4>1. k \in 1 .. Cols - 1 /\ k - 1 \in 0 .. Cols - 1
          BY <3>2
        <4>2. g[k] = After(k) /\ g[k - 1] = After(k - 1)
          BY <4>1
        <4> HIDE DEF g, After
        <4> QED BY <1>3, <3>2, <4>1, <4>2
      <3> QED BY <3>1, <3>2
    <2> QED BY <2>1
  <1>5. after = [k \in 0 .. Cols - 1 |-> Pass(after, k)]
    <2> HIDE DEF g
    <2> QED BY <1>4, Zenon
  <1>6. \A k \in 0 .. Cols - 1 : after[k] = After(k)
    <2> HIDE DEF after, After
    <2> DEFINE S == {k \in Nat : k \in 0 .. Cols - 1 => after[k] = After(k)}
    <2>1. 0 \in S
      BY <1>2, <1>5, <1>1
    <2>2. ASSUME NEW k \in Nat, k \in S PROVE k + 1 \in S
      <3> SUFFICES ASSUME k + 1 \in 0 .. Cols - 1 PROVE after[k + 1] = After(k + 1)
        OBVIOUS
      <3>1. after[k + 1] = Pass(after, k + 1)
        BY <1>5
      <3>2. after[k] = After(k) /\ k + 1 # 0 /\ (k + 1) - 1 = k /\ k + 1 \in 1 .. Cols - 1
        BY <2>2
      <3> QED BY <3>1, <3>2, <1>3
    <2> HIDE DEF S
    <2>3. Nat \subseteq S
      BY <2>1, <2>2, SetInduction
    <2> QED BY <2>3 DEF S
  <1>7. CopyCols(m, first, d) = after[Cols - 1]
    BY DEF CopyCols
  <1>8. CopyCols(m, first, d) = After(Cols - 1)
    <2>1. Cols - 1 \in 0 .. Cols - 1
      BY <1>1
    <2> HIDE DEF after, After
    <2> QED BY <2>1, <1>6, <1>7
  <1>9. ASSUME NEW c \in Cells
        PROVE  Done(Cols - 1, c[1]) <=> c[1] \in 0 .. cur_rx - 1 /\ c[1] + d \in 0 .. cur_rx - 1
    OBVIOUS
  <1> QED BY <1>8, <1>9

\* Clearing the rows of the window one by one clears the window and nothing else.
LEMMA ClearRowsErases ==
  ASSUME NEW m, m \in [Cells -> Chars]
  PROVE  ClearRows(m) = [c \in Cells |-> IF c \in Text!Window THEN Blank ELSE m[c]]
  <1> USE SpriteAssumption DEF cur_uy, cur_lx, Rows, Inside
  <1> DEFINE After(k) == [c \in Cells |-> IF Inside(c[1]) /\ 0 <= c[2] /\ c[2] < k THEN Blank ELSE m[c]]
             Pass(f, k) == IF k = 0 THEN m ELSE ClearRow(f[k - 1], cur_uy + (k - 1))
             after == CHOOSE f : f = [k \in 0 .. Rows |-> Pass(f, k)]
             g == [k \in 0 .. Rows |-> After(k)]
  <1>1. Rows \in Nat /\ Rows \in 0 .. Rows
    OBVIOUS
  <1>2. After(0) = m
    OBVIOUS
  <1>3. ASSUME NEW k \in 1 .. Rows PROVE ClearRow(After(k - 1), cur_uy + (k - 1)) = After(k)
    <2>1. ASSUME NEW c \in Cells
          PROVE  (IF c[2] = cur_uy + (k - 1) /\ Inside(c[1]) THEN Blank ELSE After(k - 1)[c]) = After(k)[c]
      OBVIOUS
    <2> QED BY <2>1 DEF ClearRow
  <1>4. g = [k \in 0 .. Rows |-> Pass(g, k)]
    <2>1. ASSUME NEW k \in 0 .. Rows PROVE g[k] = Pass(g, k)
      <3>1. CASE k = 0
        BY <3>1, <1>2
      <3>2. CASE k # 0
        <4>1. k \in 1 .. Rows /\ k - 1 \in 0 .. Rows
          BY <3>2
        <4>2. g[k] = After(k) /\ g[k - 1] = After(k - 1)
          BY <4>1
        <4> HIDE DEF g, After
        <4> QED BY <1>3, <3>2, <4>1, <4>2
      <3> QED BY <3>1, <3>2
    <2> QED BY <2>1
  <1>5. after = [k \in 0 .. Rows |-> Pass(after, k)]
    <2> HIDE DEF g
    <2> QED BY <1>4, Zenon
  <1>6. \A k \in 0 .. Rows : after[k] = After(k)
    <2> HIDE DEF after, After
    <2> DEFINE S == {k \in Nat : k \in 0 .. Rows => after[k] = After(k)}
    <2>1. 0 \in S
      BY <1>2, <1>5, <1>1
    <2>2. ASSUME NEW k \in Nat, k \in S PROVE k + 1 \in S
      <3> SUFFICES ASSUME k + 1 \in 0 .. Rows PROVE after[k + 1] = After(k + 1)
        OBVIOUS
      <3>1. after[k + 1] = Pass(after, k + 1)
        BY <1>5
      <3>2. after[k] = After(k) /\ k + 1 # 0 /\ (k + 1) - 1 = k /\ k + 1 \in 1 .. Rows
        BY <2>2
      <3> QED BY <3>1, <3>2, <1>3
    <2> HIDE DEF S
    <2>3. Nat \subseteq S
      BY <2>1, <2>2, SetInduction
    <2> QED BY <2>3 DEF S
  <1>7. ClearRows(m) = after[Rows]
    BY DEF ClearRows
  <1>8. ClearRows(m) = After(Rows)
    <2> HIDE DEF after, After
    <2> QED BY <1>1, <1>6, <1>7
  <1>9. ASSUME NEW c \in Cells
        PROVE  c \in Text!Window <=> Inside(c[1]) /\ 0 <= c[2] /\ c[2] < Rows
    BY DEF Text!Window
  <1> QED BY <1>8, <1>9

\* Each scroll moves the window's contents by one cell and blanks what moves in.
LEMMA ScrollsMove ==
  ASSUME NEW m, m \in [Cells -> Chars]
  PROVE  /\ ScrollUp(m) = Text!Moved(m, 0, 1)
         /\ ScrollDown(m) = Text!Moved(m, 0, -1)
         /\ ScrollLeft(m) = Text!Moved(m, 1, 0)
         /\ ScrollRight(m) = Text!Moved(m, -1, 0)
  <1>1. ScrollUp(m) = Text!Moved(m, 0, 1)
    <2> DEFINE r == CopyRows(m, cur_uy, 1)
    <2>1. \A c \in Cells : r[c] = IF Inside(c[1]) /\ c[2] \in 0 .. cur_dy - 1 /\ c[2] + 1 \in 0 .. cur_dy - 1
                               THEN m[<<c[1], c[2] + 1>>] ELSE m[c]
      BY CopyRowsMoves
    <2> HIDE DEF r
    <2> USE SpriteAssumption DEF cur_uy, cur_lx, Inside
    <2>2. ASSUME NEW c \in Cells
          PROVE  (IF c[2] = cur_dy - 1 /\ Inside(c[1]) THEN Blank ELSE r[c]) = Text!Moved(m, 0, 1)[c]
      BY <2>1 DEF Text!Moved, Text!Window
    <2>3. ScrollUp(m) = ClearRow(r, cur_dy - 1)
      BY DEF ScrollUp, r
    <2> QED BY <2>2, <2>3 DEF ClearRow, Text!Moved
  <1>2. ScrollDown(m) = Text!Moved(m, 0, -1)
    <2> DEFINE r == CopyRows(m, cur_dy - 1, -1)
    <2>1. \A c \in Cells : r[c] = IF Inside(c[1]) /\ c[2] \in 0 .. cur_dy - 1 /\ c[2] + -1 \in 0 .. cur_dy - 1
                               THEN m[<<c[1], c[2] + -1>>] ELSE m[c]
      BY CopyRowsMoves
    <2> HIDE DEF r
    <2> USE SpriteAssumption DEF cur_uy, cur_lx, Inside
    <2>2. ASSUME NEW c \in Cells
          PROVE  (IF c[2] = cur_uy /\ Inside(c[1]) THEN Blank ELSE r[c]) = Text!Moved(m, 0, -1)[c]
      BY <2>1 DEF Text!Moved, Text!Window
    <2>3. ScrollDown(m) = ClearRow(r, cur_uy)
      BY DEF ScrollDown, r
    <2> QED BY <2>2, <2>3 DEF ClearRow, Text!Moved
  <1>3. ScrollLeft(m) = Text!Moved(m, 1, 0)
    <2> DEFINE r == CopyCols(m, cur_lx, 1)
    <2>1. \A c \in Cells : r[c] = IF 0 <= c[2] /\ c[2] < cur_dy /\ c[1] \in 0 .. cur_rx - 1 /\ c[1] + 1 \in 0 .. cur_rx - 1
                               THEN m[<<c[1] + 1, c[2]>>] ELSE m[c]
      BY CopyColsMoves
    <2> HIDE DEF r
    <2> USE SpriteAssumption DEF cur_uy, cur_lx, Inside
    <2>2. ASSUME NEW c \in Cells
          PROVE  (IF c[1] = cur_rx - 1 /\ cur_uy <= c[2] /\ c[2] < cur_dy THEN Blank ELSE r[c]) = Text!Moved(m, 1, 0)[c]
      BY <2>1 DEF Text!Moved, Text!Window
    <2>3. ScrollLeft(m) = ClearCol(r, cur_rx - 1)
      BY DEF ScrollLeft, r
    <2> QED BY <2>2, <2>3 DEF ClearCol, Text!Moved
  <1>4. ScrollRight(m) = Text!Moved(m, -1, 0)
    <2> DEFINE r == CopyCols(m, cur_rx - 1, -1)
    <2>1. \A c \in Cells : r[c] = IF 0 <= c[2] /\ c[2] < cur_dy /\ c[1] \in 0 .. cur_rx - 1 /\ c[1] + -1 \in 0 .. cur_rx - 1
                               THEN m[<<c[1] + -1, c[2]>>] ELSE m[c]
      BY CopyColsMoves
    <2> HIDE DEF r
    <2> USE SpriteAssumption DEF cur_uy, cur_lx, Inside
    <2>2. ASSUME NEW c \in Cells
          PROVE  (IF c[1] = cur_lx /\ cur_uy <= c[2] /\ c[2] < cur_dy THEN Blank ELSE r[c]) = Text!Moved(m, -1, 0)[c]
      BY <2>1 DEF Text!Moved, Text!Window
    <2>3. ScrollRight(m) = ClearCol(r, cur_lx)
      BY DEF ScrollRight, r
    <2> QED BY <2>2, <2>3 DEF ClearCol, Text!Moved
  <1> QED BY <1>1, <1>2, <1>3, <1>4

\* What moves, is erased or is ended in the window stays a map.
LEMMA MovedTypes ==
  ASSUME NEW m \in [Cells -> Chars], NEW dx, NEW dy
  PROVE  Text!Moved(m, dx, dy) \in [Cells -> Chars]
  <1>1. Text!Window \subseteq Cells
    BY SpriteAssumption DEF Text!Window
  <1> QED BY <1>1, CacheAssumption DEF Text!Moved

\* The end of a row, with its two lines of scrolling, is the end of a line.
LEMMA FeedEnds ==
  ASSUME NEW m \in [Cells -> Chars], NEW y \in 0 .. cur_dy - 1
  PROVE  /\ Feed(m, y).m = Text!Ended(m, y).text
         /\ Feed(m, y).y = Text!Ended(m, y).row
         /\ Feed(m, y).m \in [Cells -> Chars]
         /\ Feed(m, y).y \in 0 .. cur_dy - 1
  <1>1. ScrollUp(m) = Text!Moved(m, 0, 1) /\ Text!Moved(m, 0, 1) \in [Cells -> Chars]
    BY ScrollsMove, MovedTypes
  <1> QED BY <1>1, SpriteAssumption DEF Feed, Text!Ended

\* The wrap before a code is written is the opening of a new row.
LEMMA WrappedOpens ==
  ASSUME TypeOK
  PROVE  /\ Wrapped.m = Text!Opened.text /\ Wrapped.m \in [Cells -> Chars]
         /\ Wrapped.x = Text!Opened.col /\ Wrapped.x \in 0 .. cur_rx - 1
         /\ Wrapped.y = Text!Opened.row /\ Wrapped.y \in 0 .. cur_dy - 1
  <1>1. /\ bga[0] \in [Cells -> Chars]
        /\ cursor_x \in 0 .. cur_rx /\ cursor_y \in 0 .. cur_dy - 1
        /\ cur_rx \in Nat \ {0} /\ cur_dy \in Nat \ {0}
    BY SpriteAssumption DEF TypeOK, CacheTypeOK
  <1>2. /\ Feed(bga[0], cursor_y).m = Text!Ended(bga[0], cursor_y).text
        /\ Feed(bga[0], cursor_y).y = Text!Ended(bga[0], cursor_y).row
        /\ Feed(bga[0], cursor_y).m \in [Cells -> Chars]
        /\ Feed(bga[0], cursor_y).y \in 0 .. cur_dy - 1
    BY <1>1, FeedEnds
  <1> QED BY <1>1, <1>2 DEF Wrapped, Text!Opened, cur_lx

\* Writing a map is a step of the change check.
LEMMA WriteIsCacheStep ==
  ASSUME TypeOK, NEW p \in Planes, NEW m \in [Cells -> Chars], WriteMap(p, m)
  PROVE  CacheNext /\ CacheTypeOK' /\ bga'[0] = IF p = 0 THEN m ELSE bga[0]
  BY SpriteAssumption DEF TypeOK, CacheTypeOK, WriteMap, CacheNext

\* Every call is a step of the change check, of the character window, or of
\* neither, and keeps the types.
LEMMA CallSteps ==
  ASSUME TypeOK, Next
  PROVE  [CacheNext]_cacheVars /\ [Text!Next]_(Text!vars) /\ TypeOK'
  <1> DEFINE Good == [CacheNext]_cacheVars /\ [Text!Next]_(Text!vars) /\ TypeOK'
             CalledOK == calls' \in 0 .. CALLS
             RestOK == ready' \in BOOLEAN /\ disp' \subseteq DispFlags
                       /\ sreg' \in [1 .. SPRMAX -> SpriteRegs \union {Hidden}]
             CursorOK == cursor_x' \in 0 .. cur_rx /\ cursor_y' \in 0 .. cur_dy - 1
  <1> USE SpriteAssumption
  <1>0. /\ 0 \in Planes /\ cur_rx \in Nat \ {0} /\ cur_dy \in Nat \ {0}
        /\ bga[0] \in [Cells -> Chars] /\ Text!Window \subseteq Cells
        /\ cursor_x \in 0 .. cur_rx /\ cursor_y \in 0 .. cur_dy - 1
        /\ (Call => CalledOK) /\ (OnlyMap => RestOK)
    BY DEF TypeOK, CacheTypeOK, Text!Window, Call, OnlyMap
  <1>14. CacheTypeOK' /\ CalledOK /\ RestOK /\ CursorOK => TypeOK'
    BY DEF TypeOK
  <1>1. ASSUME NEW q \in Patterns, LibInit(q) PROVE Good
    <2>1. Everywhere(Blank) \in [Planes -> [Cells -> Chars]]
          /\ Everywhere(Invalid) \in [Planes -> [Cells -> Chars \union {Invalid}]]
      BY CacheAssumption DEF Everywhere
    <2>2. CacheNext /\ CacheTypeOK'
      BY <1>1, <2>1 DEF LibInit, SpriteInit, CacheNext, TypeOK, CacheTypeOK
    <2>3. Text!Restart
      BY <1>1, <1>0 DEF LibInit, SpriteInit, Everywhere, Text!Restart
    <2>4. CalledOK /\ RestOK /\ CursorOK
      BY <1>1, <1>0 DEF LibInit, DispFlags, Hidden
    <2> QED BY <2>2, <2>3, <2>4, <1>14 DEF Text!Next
  <1>2. ASSUME NEW q \in Patterns, ChangePatterns(q) PROVE Good
    <2>1. CacheNext /\ CacheTypeOK' /\ bga' = bga
      BY <1>2 DEF ChangePatterns, SetPatternAdr, CacheNext, TypeOK, CacheTypeOK
    <2>2. CalledOK /\ RestOK /\ CursorOK /\ UNCHANGED <<cursor_x, cursor_y>>
      BY <1>2, <1>0 DEF ChangePatterns, cursor
    <2> QED BY <2>1, <2>2, <1>14 DEF Text!vars
  <1>3. ASSUME NEW p \in Planes, NEW c \in SetCells, NEW chr \in PutChars, BGSetCharacter(p, c, chr)
        PROVE  Good
    <2>1. [bga[p] EXCEPT ![c] = chr] \in [Cells -> Chars]
      BY DEF TypeOK, CacheTypeOK
    <2>2. CacheNext /\ CacheTypeOK' /\ bga'[0] = IF p = 0 THEN [bga[p] EXCEPT ![c] = chr] ELSE bga[0]
      BY <1>3, <2>1, WriteIsCacheStep DEF BGSetCharacter
    <2>3. CalledOK /\ RestOK /\ CursorOK /\ UNCHANGED <<cursor_x, cursor_y>>
      BY <1>3, <1>0 DEF BGSetCharacter, cursor
    <2>4. c \in Cells /\ chr \in Chars
      OBVIOUS
    <2>5. p = 0 => Text!Poke(c, chr)
      BY <2>2, <2>3 DEF Text!Poke
    <2>6. p # 0 => UNCHANGED Text!vars
      BY <2>2, <2>3 DEF Text!vars
    <2> QED BY <2>2, <2>3, <2>4, <2>5, <2>6, <1>14 DEF Text!Next
  <1>4. ASSUME NEW p \in Planes, NEW m \in Maps, FillMap(p, m) PROVE Good
    <2>1. m \in [Cells -> Chars]
      OBVIOUS
    <2>2. CacheNext /\ CacheTypeOK' /\ bga'[0] = IF p = 0 THEN m ELSE bga[0]
      BY <1>4, <2>1, WriteIsCacheStep DEF FillMap
    <2>3. CalledOK /\ RestOK /\ CursorOK /\ UNCHANGED <<cursor_x, cursor_y>>
      BY <1>4, <1>0 DEF FillMap, cursor
    <2>5. p = 0 => Text!Load(m)
      BY <2>2, <2>3 DEF Text!Load
    <2>6. p # 0 => UNCHANGED Text!vars
      BY <2>2, <2>3 DEF Text!vars
    <2> QED BY <2>2, <2>3, <2>5, <2>6, <1>14 DEF Text!Next
  <1>5. ASSUME NEW chr \in PutChars, BGPutCharacter(chr) PROVE Good
    <2> DEFINE m == [Wrapped.m EXCEPT ![<<Wrapped.x, Wrapped.y>>] = chr]
    <2>1. chr \in Chars /\ m \in [Cells -> Chars]
      BY WrappedOpens
    <2>2. CacheNext /\ CacheTypeOK' /\ bga'[0] = m
      BY <1>5, <1>0, <2>1, WriteIsCacheStep DEF BGPutCharacter
    <2>3. cursor_x' = Wrapped.x + 1 /\ cursor_y' = Wrapped.y /\ CalledOK /\ RestOK
      BY <1>5, <1>0 DEF BGPutCharacter
    <2>4. CursorOK
      BY <2>3, <1>0, WrappedOpens
    <2>5. Text!Type(chr)
      BY <2>2, <2>3, WrappedOpens DEF Text!Type
    <2> QED BY <2>1, <2>2, <2>3, <2>4, <2>5, <1>14 DEF Text!Next
  <1>6. CASE BGPutNewline
    <2> DEFINE f == Feed(Wrapped.m, Wrapped.y)
    <2>1. /\ f.m = Text!Ended(Text!Opened.text, Text!Opened.row).text /\ f.m \in [Cells -> Chars]
          /\ f.y = Text!Ended(Text!Opened.text, Text!Opened.row).row /\ f.y \in 0 .. cur_dy - 1
      <3>1. /\ Wrapped.m \in [Cells -> Chars] /\ Wrapped.m = Text!Opened.text
            /\ Wrapped.y \in 0 .. cur_dy - 1 /\ Wrapped.y = Text!Opened.row
        BY WrappedOpens
      <3>2. /\ f.m = Text!Ended(Wrapped.m, Wrapped.y).text /\ f.m \in [Cells -> Chars]
            /\ f.y = Text!Ended(Wrapped.m, Wrapped.y).row /\ f.y \in 0 .. cur_dy - 1
        BY <3>1, FeedEnds
      <3> HIDE DEF f
      <3> QED BY <3>1, <3>2
    <2>2. WriteMap(0, f.m) /\ cursor_x' = cur_lx /\ cursor_y' = f.y /\ CalledOK /\ RestOK
      BY <1>6, <1>0 DEF BGPutNewline
    <2> HIDE DEF f
    <2>3. CacheNext /\ CacheTypeOK' /\ bga'[0] = f.m
      BY <1>0, <2>1, <2>2, WriteIsCacheStep
    <2>4. CursorOK
      BY <2>1, <2>2, <1>0 DEF cur_lx
    <2>5. Text!NewLine
      BY <2>1, <2>2, <2>3 DEF Text!NewLine, cur_lx
    <2> QED BY <2>2, <2>3, <2>4, <2>5, <1>14 DEF Text!Next
  <1>7. CASE BGClear
    <2>1. ClearRows(bga[0]) = [c \in Cells |-> IF c \in Text!Window THEN Blank ELSE bga[0][c]]
      BY <1>0, ClearRowsErases
    <2>2. ClearRows(bga[0]) \in [Cells -> Chars]
      BY <1>0, <2>1, CacheAssumption
    <2>3. CacheNext /\ CacheTypeOK' /\ bga'[0] = ClearRows(bga[0])
      BY <1>7, <1>0, <2>2, WriteIsCacheStep DEF BGClear
    <2>4. cursor_x' = 0 /\ cursor_y' = 0 /\ CalledOK /\ RestOK
      BY <1>7, <1>0 DEF BGClear, cur_lx, cur_uy
    <2>5. Text!Erase
      BY <2>1, <2>3, <2>4 DEF Text!Erase
    <2> QED BY <2>3, <2>4, <2>5, <1>0, <1>14 DEF Text!Next
  <1>8. ASSUME NEW dir \in {"UP", "DN", "LF", "RI"}, BGScroll(dir) PROVE Good
    <2>1. PICK dx, dy : /\ <<dx, dy>> \in {<<0, 1>>, <<0, -1>>, <<1, 0>>, <<-1, 0>>}
                        /\ WriteMap(0, Text!Moved(bga[0], dx, dy))
      <3>1. /\ ScrollUp(bga[0]) = Text!Moved(bga[0], 0, 1)
            /\ ScrollDown(bga[0]) = Text!Moved(bga[0], 0, -1)
            /\ ScrollLeft(bga[0]) = Text!Moved(bga[0], 1, 0)
            /\ ScrollRight(bga[0]) = Text!Moved(bga[0], -1, 0)
        BY <1>0, ScrollsMove
      <3>2. CASE dir = "UP"
        BY <1>8, <3>1, <3>2 DEF BGScroll
      <3>3. CASE dir = "DN"
        BY <1>8, <3>1, <3>3 DEF BGScroll
      <3>4. CASE dir = "LF"
        BY <1>8, <3>1, <3>4 DEF BGScroll
      <3>5. CASE dir = "RI"
        BY <1>8, <3>1, <3>5 DEF BGScroll
      <3> QED BY <3>2, <3>3, <3>4, <3>5
    <2>2. CacheNext /\ CacheTypeOK' /\ bga'[0] = Text!Moved(bga[0], dx, dy)
      BY <1>0, <2>1, MovedTypes, WriteIsCacheStep
    <2>3. CalledOK /\ RestOK /\ CursorOK /\ UNCHANGED <<cursor_x, cursor_y>>
      BY <1>8, <1>0 DEF BGScroll, cursor
    <2>4. Text!Scroll(dx, dy)
      BY <2>2, <2>3 DEF Text!Scroll
    <2> QED BY <2>1, <2>2, <2>3, <2>4, <1>14 DEF Text!Next
  <1>9. ASSUME NEW t \in Targets, BGSetCursor(t[1], t[2]) PROVE Good
    <2>1. t[1] \in Int /\ t[2] \in Int
      OBVIOUS
    <2>2. CursorOK /\ CalledOK /\ RestOK /\ UNCHANGED cacheVars
      BY <1>9, <1>0, <2>1 DEF BGSetCursor, Inside, cur_lx, cur_uy
    <2>3. CacheTypeOK' /\ bga' = bga
      BY <2>2 DEF cacheVars, TypeOK, CacheTypeOK
    <2>4. Text!MoveTo(cursor_x', cursor_y')
      BY <2>3 DEF Text!MoveTo
    <2> QED BY <2>2, <2>3, <2>4, <1>14 DEF Text!Next
  <1>10. CASE Flush
    <2>1. CacheNext /\ CacheTypeOK' /\ bga' = bga
      BY <1>10, CacheAssumption DEF Flush, BGFlush, Everywhere, CacheNext, TypeOK, CacheTypeOK
    <2>2. CalledOK /\ RestOK /\ CursorOK /\ UNCHANGED <<cursor_x, cursor_y>>
      BY <1>10, <1>0 DEF Flush, cursor
    <2> QED BY <2>1, <2>2, <1>14 DEF Text!vars
  <1>11. ASSUME NEW d \in DispModes, DispMode(d) PROVE Good
    <2>1. UNCHANGED cacheVars /\ CacheTypeOK' /\ bga' = bga
      BY <1>11 DEF DispMode, cacheVars, TypeOK, CacheTypeOK
    <2>2. CalledOK /\ RestOK /\ CursorOK /\ UNCHANGED <<cursor_x, cursor_y>>
      BY <1>11, <1>0 DEF DispMode, cursor, TypeOK
    <2> QED BY <2>1, <2>2, <1>14 DEF Text!vars
  <1>12. ASSUME NEW i \in 1 .. SPRMAX, NEW r \in SpriteRegs, SpriteSetCharacter(i, r) PROVE Good
    <2>1. UNCHANGED cacheVars /\ CacheTypeOK' /\ bga' = bga
      BY <1>12 DEF SpriteSetCharacter, cacheVars, TypeOK, CacheTypeOK
    <2>2. CalledOK /\ RestOK /\ CursorOK /\ UNCHANGED <<cursor_x, cursor_y>>
      BY <1>12, <1>0 DEF SpriteSetCharacter, cursor, TypeOK
    <2> QED BY <2>1, <2>2, <1>14 DEF Text!vars
  <1>13. CASE BGMakeFrame
    <2>1. CacheNext /\ bga' = bga
      BY <1>13 DEF BGMakeFrame, MakeFrame, CacheNext, Checked
    <2>2. CacheTypeOK'
      BY <1>13 DEF BGMakeFrame, MakeFrame, BgCheck, Glyph, Glyphs, TypeOK, CacheTypeOK
    <2>3. CalledOK /\ RestOK /\ CursorOK /\ UNCHANGED <<cursor_x, cursor_y>>
      BY <1>13, <1>0 DEF BGMakeFrame, cursor, TypeOK
    <2> QED BY <2>1, <2>2, <2>3, <1>14 DEF Text!vars
  <1> QED
    BY <1>1, <1>2, <1>3, <1>4, <1>5, <1>6, <1>7, <1>8, <1>9, <1>10, <1>11, <1>12, <1>13 DEF Next

-----------------------------------------------------------------------------
\* What every reachable state of the library satisfies.
LibraryInv == TypeOK /\ CopiesTellTheTruth

\* It holds at the start, and every call keeps it.
LEMMA LibraryInvHolds == Spec => []LibraryInv
  <1>1. Init => LibraryInv
    <2> SUFFICES ASSUME Init PROVE LibraryInv
      OBVIOUS
    <2>1. CacheInv
      BY CacheInitInv DEF Init
    <2>2. /\ cursor_x \in 0 .. cur_rx /\ cursor_y \in 0 .. cur_dy - 1 /\ calls \in 0 .. CALLS
          /\ sreg \in [1 .. SPRMAX -> SpriteRegs \union {Hidden}]
      BY SpriteAssumption DEF Init
    <2> QED BY <2>1, <2>2 DEF Init, LibraryInv, TypeOK, CacheInv
  <1>2. LibraryInv /\ [Next]_spriteVars => LibraryInv'
    <2> SUFFICES ASSUME LibraryInv, [Next]_spriteVars PROVE LibraryInv'
      OBVIOUS
    <2>1. CASE Next
      <3>1. TypeOK' /\ CacheInv /\ [CacheNext]_cacheVars
        BY <2>1, CallSteps DEF LibraryInv, TypeOK, CacheInv
      <3> QED BY <3>1, CacheStepInv DEF LibraryInv, CacheInv
    <2>2. CASE UNCHANGED spriteVars
      BY <2>2 DEF spriteVars, cacheVars, LibraryInv, TypeOK, CacheTypeOK, CopiesTellTheTruth
    <2> QED BY <2>1, <2>2
  <1> QED BY <1>1, <1>2, PTL DEF Spec

\* Whatever the program calls, a cell whose copy holds a code shows that code's
\* glyph in the patterns in force, unless it still owes the flush.
THEOREM CopiesAlwaysTrue == Spec => []CopiesTellTheTruth
  <1>1. LibraryInv => CopiesTellTheTruth
    BY DEF LibraryInv
  <1> QED BY <1>1, LibraryInvHolds, PTL

\* The maps stay maps of codes, the cursor stays in the window or right behind
\* a full row, whatever the program calls.
THEOREM LibraryTyped == Spec => []TypeOK
  <1>1. LibraryInv => TypeOK
    BY DEF LibraryInv
  <1> QED BY <1>1, LibraryInvHolds, PTL

\* The whole library, not the change check alone, draws like a screen that
\* draws every cell on every frame.
THEOREM LibraryDrawsLikeScreen == Spec => DrawsLikeScreen
  <1>1. Init => CacheInit
    BY DEF Init
  <1>2. LibraryInv /\ [Next]_spriteVars => [CacheNext]_cacheVars
    BY CallSteps DEF LibraryInv, spriteVars, cacheVars
  <1>3. Spec => CacheSpec
    BY <1>1, <1>2, LibraryInvHolds, PTL DEF Spec, CacheSpec
  <1> QED BY <1>3, CacheImplementsScreen

\* The text functions implement a character window with a cursor, for every
\* size of the window and of the map around it.
THEOREM TextIsWindow == Spec => PlaysTextWindow
  <1>1. Init => Text!Init
    BY SpriteAssumption DEF Init, CacheInit, Everywhere, Text!Init
  <1>2. LibraryInv /\ [Next]_spriteVars => [Text!Next]_(Text!vars)
    BY CallSteps DEF LibraryInv, spriteVars, cacheVars, Text!vars
  <1> QED BY <1>1, <1>2, LibraryInvHolds, PTL DEF Spec, PlaysTextWindow, Text!Spec

\* The planes a frame checks are up to date in it.
LEMMA CheckedPlanesShown ==
  ASSUME LibraryInv, BGMakeFrame, NEW p \in Checked
  PROVE  bgf'[p] = [c \in Cells |-> Glyph(bga[p][c], pat)]
  <1>1. p \in Planes /\ MakeFrame(Checked)
    BY DEF Checked, BGMakeFrame
  <1>2. bgf'[p] = [c \in Cells |-> bgf'[p][c]]
    BY <1>1 DEF MakeFrame, BgCheck
  <1>3. ASSUME NEW c \in Cells PROVE bgf'[p][c] = Glyph(bga[p][c], pat)
    <2>1. bgf'[p][c] = IF bga[p][c] # bgb[p][c] THEN Glyph(bga[p][c], pat) ELSE bgf[p][c]
      BY <1>1 DEF MakeFrame, BgCheck
    <2>2. bga[p][c] # Invalid
      BY <1>1, CacheAssumption DEF LibraryInv, TypeOK, CacheTypeOK
    <2>3. bgb[p][c] # Invalid => bgf[p][c] = Glyph(bgb[p][c], pat)
      BY <1>1 DEF LibraryInv, CopiesTellTheTruth, MakeFrame
    <2> QED BY <2>1, <2>2, <2>3
  <1> QED BY <1>2, <1>3

\* Layers put behind layers are layers.
LEMMA LayersJoined ==
  ASSUME NEW S, NEW s \in Seq(S), NEW t \in Seq(S)
  PROVE  s \o t \in Seq(S)
  OBVIOUS

\* A frame shows every plane it checks as the map stands, whatever was switched
\* off, skipped, flushed or initialised before.
THEOREM FramesFresh == Spec => FrameIsFresh
  <1> DEFINE FreshFrame ==
        BGMakeFrame =>
          \A i \in DOMAIN fram' :
             fram'[i][1] = "plane" /\ fram'[i][2] \in Checked
                => fram'[i][3] = [c \in Cells |-> Glyph(bga[fram'[i][2]][c], pat)]
  <1>1. LibraryInv => FreshFrame
    <2> SUFFICES ASSUME LibraryInv, BGMakeFrame, NEW i \in DOMAIN fram',
                        fram'[i][1] = "plane", fram'[i][2] \in Checked
                 PROVE  fram'[i][3] = [c \in Cells |-> Glyph(bga[fram'[i][2]][c], pat)]
      OBVIOUS
    <2> DEFINE Layers == {<<"fill">>, <<"nothing">>} \union {<<"sprite", k, sreg[k]>> : k \in 1 .. SPRMAX}
                         \union {PlaneLayer(p, bgf'[p]) : p \in Planes}
               back  == << IF Displayed(Back) THEN PlaneLayer(Back, bgf'[Back]) ELSE <<"fill">> >>
               front == IF Displayed(1 - Back) THEN <<PlaneLayer(1 - Back, bgf'[1 - Back])>> ELSE << >>
    <2>1. Back \in Planes /\ 1 - Back \in Planes
      BY SpriteAssumption DEF Back
    <2>2. back \in Seq(Layers) /\ front \in Seq(Layers)
      BY <2>1
    <2>3. SpriteLayers(FALSE) \in Seq(Layers) /\ SpriteLayers(TRUE) \in Seq(Layers)
      <3> SUFFICES ASSUME NEW b \in BOOLEAN PROVE SpriteLayers(b) \in Seq(Layers)
        OBVIOUS
      <3> DEFINE drawn(k) == IF sreg[k].on /\ sreg[k].prio = b THEN <<"sprite", k, sreg[k]>> ELSE <<"nothing">>
      <3>1. \A k \in 1 .. SPRMAX : drawn(k) \in Layers
        OBVIOUS
      <3> HIDE DEF drawn, Layers
      <3>2. [k \in 1 .. SPRMAX |-> drawn(k)] \in Seq(Layers)
        BY <3>1, SpriteAssumption
      <3> QED BY <3>2 DEF SpriteLayers, drawn
    <2>4. fram' = back \o SpriteLayers(FALSE) \o front \o SpriteLayers(TRUE)
      BY DEF BGMakeFrame
    <2> HIDE DEF Layers, back, front
    <2>5. fram' \in Seq(Layers)
      <3>1. back \o SpriteLayers(FALSE) \in Seq(Layers)
        BY <2>2, <2>3, LayersJoined
      <3>2. back \o SpriteLayers(FALSE) \o front \in Seq(Layers)
        BY <2>2, <3>1, LayersJoined
      <3> QED BY <2>3, <2>4, <3>2, LayersJoined
    <2>6. fram'[i] \in Layers
      BY <2>5
    <2>7. PICK p \in Planes : fram'[i] = <<"plane", p, bgf'[p]>>
      BY <2>6 DEF Layers, PlaneLayer
    <2> QED BY <2>7, CheckedPlanesShown
  <1>2. LibraryInv /\ [Next]_spriteVars => [FreshFrame]_spriteVars
    BY <1>1
  <1> QED BY <1>2, LibraryInvHolds, PTL DEF Spec, FrameIsFresh

-----------------------------------------------------------------------------
(***************************************************************************)
(* The raster functions, the sprites and the characters draw every pixel   *)
(* where it belongs, for every position, size of the screen and number of  *)
(* lines.  From bits to words (what the shifts, rotates and masks of the   *)
(* four shapes of the shift leave of two neighbouring words), from words   *)
(* to the rows of a plane, and the clipped rows and columns of a sprite    *)
(* in closed form; the only thing a state has to carry along is the line   *)
(* of the plane the source pointer stands behind (RasterInv).              *)
(***************************************************************************)
-----------------------------------------------------------------------------
(***************************************************************************)
(* Words, bit by bit.                                                      *)
(***************************************************************************)
\* A word has the bits 0 to 31.
LEMMA BitNumbers ==
    ASSUME NEW i
    PROVE  i \in Bits <=> i \in Nat /\ i <= 31
BY DEF Bits

\* A set bit is not a clear one.
LEMMA OneIsNotZero == One # Zero
BY DEF One, Zero

\* Shifts and rotates by up to 8 places move bits.
LEMMA Moves ==
    ASSUME NEW w, NEW n \in Nat, n <= 8, NEW i \in Bits
    PROVE  /\ srl(w, n)[i] = IF i + n <= 31 THEN w[i + n] ELSE Zero
           /\ sll(w, n)[i] = IF 0 <= i - n THEN w[i - n] ELSE Zero
           /\ rr(w, n)[i] = w[(i + n) % 32]
           /\ rl(w, n)[i] = w[(i - n) % 32]
<1>1. n \in 0 .. 8 /\ i \in Nat /\ i <= 31
      BY BitNumbers
<1>2. (i + n \in Bits <=> i + n <= 31) /\ (i - n \in Bits <=> 0 <= i - n)
      BY <1>1, BitNumbers
<1>3. /\ srl(w, n) = [k \in Bits |-> IF k + n \in Bits THEN w[k + n] ELSE Zero]
      /\ sll(w, n) = [k \in Bits |-> IF k - n \in Bits THEN w[k - n] ELSE Zero]
      /\ rr(w, n) = [k \in Bits |-> w[(k + n) % 32]]
      /\ rl(w, n) = [k \in Bits |-> w[(k - n) % 32]]
      BY <1>1 DEF Within, srl, sll, rr, rl
<1> QED BY <1>2, <1>3

\* The complement of a word, bit by bit.
LEMMA NotBit ==
    ASSUME NEW w, NEW i \in Bits
    PROVE  not(w)[i] = IF w[i] = Zero THEN One ELSE Zero
BY DEF not

\* What a mask leaves of a word.
LEMMA AndBit ==
    ASSUME NEW w, NEW mask, NEW i \in Bits
    PROVE  and(w, mask)[i] = IF mask[i] = One THEN w[i] ELSE Zero
BY DEF and

\* Two words ored; where both have something, their bits clash.
LEMMA OrBit ==
    ASSUME NEW v, NEW w, NEW i \in Bits
    PROVE  or(v, w)[i] = IF v[i] = Zero THEN w[i] ELSE IF w[i] = Zero THEN v[i] ELSE Clash
BY DEF or

\* A constant of the program.
LEMMA OnesBit ==
    ASSUME NEW from \in Int, NEW to \in Int, NEW i \in Bits
    PROVE  Ones(from, to)[i] = IF from <= i /\ i <= to THEN One ELSE Zero
<1>1. i \in Int
      BY BitNumbers
<1> QED BY <1>1 DEF Ones

-----------------------------------------------------------------------------
(***************************************************************************)
(* A row of a plane: every function shifts by h = x % 32, the four of them *)
(* in different ways.                                                      *)
(***************************************************************************)
\* A row of ones moves like any other word.
LEMMA OnesMoved ==
    ASSUME NEW from \in Int, NEW to \in Int, NEW n \in Nat, n <= 8, NEW i \in Bits
    PROVE  /\ srl(Ones(from, to), n)[i] =
                IF i + n <= 31 /\ from <= i + n /\ i + n <= to THEN One ELSE Zero
           /\ sll(Ones(from, to), n)[i] =
                IF 0 <= i - n /\ from <= i - n /\ i - n <= to THEN One ELSE Zero
<1> DEFINE w == Ones(from, to)
<1> DEFINE k == i + n
<1> DEFINE l == i - n
<1>1. i \in Nat /\ i <= 31
      BY BitNumbers
<1>2. /\ srl(w, n)[i] = IF k <= 31 THEN w[k] ELSE Zero
      /\ sll(w, n)[i] = IF 0 <= l THEN w[l] ELSE Zero
      BY Moves
<1>3. k \in Nat /\ l \in Int /\ l <= 31
      BY <1>1
<1> HIDE DEF k, l
<1>4. k <= 31 => w[k] = IF from <= k /\ k <= to THEN One ELSE Zero
  <2>1. k <= 31 => k \in Bits
        BY <1>3, BitNumbers
  <2> QED BY <2>1, OnesBit
<1>5. 0 <= l => w[l] = IF from <= l /\ l <= to THEN One ELSE Zero
  <2>1. 0 <= l => l \in Bits
        BY <1>3, BitNumbers
  <2> QED BY <2>1, OnesBit
<1> HIDE DEF w
<1> QED BY <1>2, <1>4, <1>5 DEF w, k, l

\* A shift by h is one of four kinds.
LEMMA FourShifts ==
    ASSUME NEW h \in Nat, h <= 31
    PROVE  \/ h \div 8 = 0 /\ h <= 7
           \/ h \div 8 = 1 /\ 8 <= h /\ h <= 15
           \/ h \div 8 = 2 /\ 16 <= h /\ h <= 23
           \/ h \div 8 = 3 /\ 24 <= h
OBVIOUS

\* What is kept of a turned word are its first 32 - h bits.
LEMMA KeepsFirst ==
    ASSUME NEW h \in Nat, h <= 31, NEW i \in Bits
    PROVE  Keep(h)[i] = IF i + h <= 31 THEN One ELSE Zero
<1>0. i \in Nat /\ i <= 31 /\ One # Zero
      BY BitNumbers, OneIsNotZero
<1>1. CASE h \div 8 = 0
  <2>1. h \in Nat /\ h <= 8 /\ Keep(h) = srl(Ones(0, 31), h)
        BY <1>1, FourShifts DEF Keep
  <2>2. 0 \in Int /\ 31 \in Int
        OBVIOUS
  <2>3. srl(Ones(0, 31), h)[i] = IF i + h <= 31 /\ 0 <= i + h /\ i + h <= 31 THEN One ELSE Zero
        BY <2>1, <2>2, OnesMoved
  <2> QED BY <1>0, <2>1, <2>3
<1>2. CASE h \div 8 = 1
  <2> DEFINE n == h - 8
  <2>1. n \in Nat /\ n <= 8
        BY <1>2, FourShifts
  <2>2. 0 \in Int /\ 23 \in Int
        OBVIOUS
  <2>3. Keep(h) = srl(Ones(0, 23), n)
        BY <1>2 DEF Keep
  <2>4. n = h - 8
        OBVIOUS
  <2> HIDE DEF n
  <2>5. srl(Ones(0, 23), n)[i] = IF i + n <= 31 /\ 0 <= i + n /\ i + n <= 23 THEN One ELSE Zero
        BY <2>1, <2>2, OnesMoved
  <2> QED BY <1>0, <2>1, <2>3, <2>4, <2>5
<1>3. CASE h \div 8 = 2
  <2> DEFINE n == 24 - h
  <2>1. n \in Nat /\ n <= 8
        BY <1>3, FourShifts
  <2>2. 8 \in Int /\ 31 \in Int
        OBVIOUS
  <2>3. Keep(h) = not(sll(Ones(8, 31), n))
        BY <1>3 DEF Keep
  <2>4. n = 24 - h
        OBVIOUS
  <2> HIDE DEF n
  <2>5. sll(Ones(8, 31), n)[i] = IF 0 <= i - n /\ 8 <= i - n /\ i - n <= 31 THEN One ELSE Zero
        BY <2>1, <2>2, OnesMoved
  <2>6. Keep(h)[i] = IF sll(Ones(8, 31), n)[i] = Zero THEN One ELSE Zero
        BY <2>3, NotBit
  <2> QED BY <1>0, <2>1, <2>4, <2>5, <2>6
<1>4. CASE h \div 8 = 3
  <2> DEFINE n == 32 - h
  <2>1. n \in Nat /\ n <= 8
        BY <1>4, FourShifts
  <2>2. 0 \in Int /\ 31 \in Int
        OBVIOUS
  <2>3. Keep(h) = not(sll(Ones(0, 31), n))
        BY <1>4 DEF Keep
  <2>4. n = 32 - h
        OBVIOUS
  <2> HIDE DEF n
  <2>5. sll(Ones(0, 31), n)[i] = IF 0 <= i - n /\ 0 <= i - n /\ i - n <= 31 THEN One ELSE Zero
        BY <2>1, <2>2, OnesMoved
  <2>6. Keep(h)[i] = IF sll(Ones(0, 31), n)[i] = Zero THEN One ELSE Zero
        BY <2>3, NotBit
  <2> QED BY <1>0, <2>1, <2>4, <2>5, <2>6
<1> QED BY <1>1, <1>2, <1>3, <1>4, FourShifts

\* The rest are its last h bits.
LEMMA RestIsLast ==
    ASSUME NEW h \in Nat, h <= 31, NEW i \in Bits
    PROVE  Rest(h)[i] = IF i + h <= 31 THEN Zero ELSE One
BY KeepsFirst, NotBit, OneIsNotZero DEF Rest

\* Every way of turning a word turns it by h bits.
LEMMA Turned ==
    ASSUME NEW w, NEW h \in Nat, h <= 31, NEW i \in Bits
    PROVE  Turn(w, h)[i] = w[(i + h) % 32]
<1>0. i \in Nat /\ i <= 31
      BY BitNumbers
<1>1. CASE h \div 8 = 0
  <2>1. h <= 8 /\ Turn(w, h) = rr(w, h)
        BY <1>1 DEF Turn
  <2> QED BY <2>1, Moves
<1>2. CASE h \div 8 = 1
  <2> DEFINE n == h - 8
  <2> DEFINE k == (i + n) % 32
  <2>1. n \in Nat /\ n <= 8 /\ Turn(w, h) = rr(rr(w, 8), n)
        BY <1>2 DEF Turn
  <2>2. k \in Nat /\ k <= 31
        BY <1>0, <2>1
  <2>3. (k + 8) % 32 = (i + h) % 32
        BY <1>0, <2>1
  <2> HIDE DEF n
  <2>4. Turn(w, h)[i] = rr(w, 8)[k]
        BY <2>1, Moves
  <2> HIDE DEF k
  <2>5. rr(w, 8)[k] = w[(k + 8) % 32]
    <3>1. k \in Bits /\ 8 \in Nat /\ 8 <= 8
          BY <2>2, BitNumbers
    <3> QED BY <3>1, Moves
  <2> QED BY <2>3, <2>4, <2>5
<1>3. CASE h \div 8 = 2
  <2> DEFINE n == 24 - h
  <2> DEFINE k == (i - n) % 32
  <2>1. n \in Nat /\ n <= 8 /\ Turn(w, h) = rl(rl(w, 8), n)
        BY <1>3 DEF Turn
  <2>2. k \in Nat /\ k <= 31
        BY <1>0, <2>1
  <2>3. (k - 8) % 32 = (i + h) % 32
        BY <1>0, <2>1
  <2> HIDE DEF n
  <2>4. Turn(w, h)[i] = rl(w, 8)[k]
        BY <2>1, Moves
  <2> HIDE DEF k
  <2>5. rl(w, 8)[k] = w[(k - 8) % 32]
    <3>1. k \in Bits /\ 8 \in Nat /\ 8 <= 8
          BY <2>2, BitNumbers
    <3> QED BY <3>1, Moves
  <2> QED BY <2>3, <2>4, <2>5
<1>4. CASE h \div 8 = 3
  <2> DEFINE n == 32 - h
  <2>1. n \in Nat /\ n <= 8 /\ Turn(w, h) = rl(w, n)
        BY <1>4 DEF Turn
  <2>2. (i - n) % 32 = (i + h) % 32
        BY <1>0, <2>1
  <2> HIDE DEF n
  <2> QED BY <2>1, <2>2, Moves
<1> QED BY <1>1, <1>2, <1>3, <1>4

\* The first word gives its last 32 - h bits to the first bits of the frame.
LEMMA FirstShifted ==
    ASSUME NEW w, NEW h \in Nat, h <= 31, NEW i \in Bits
    PROVE  First(w, h)[i] = IF i + h <= 31 THEN w[i + h] ELSE Zero
<1>0. i \in Nat /\ i <= 31
      BY BitNumbers
<1>1. CASE h \div 8 = 0
  <2>1. h <= 8 /\ First(w, h) = srl(w, h)
        BY <1>1 DEF First
  <2> QED BY <2>1, Moves
<1>2. CASE h \div 8 = 1
  <2> DEFINE n == h - 8
  <2>1. n \in Nat /\ n <= 8 /\ First(w, h) = srl(srl(w, 8), n)
        BY <1>2 DEF First
  <2>2. n = h - 8
        OBVIOUS
  <2> HIDE DEF n
  <2>3. First(w, h)[i] = IF i + n <= 31 THEN srl(w, 8)[i + n] ELSE Zero
        BY <2>1, Moves
  <2> DEFINE k == i + n
  <2>4. k \in Nat
        BY <1>0, <2>1
  <2>5. k <= 31 => srl(w, 8)[k] = IF k + 8 <= 31 THEN w[k + 8] ELSE Zero
    <3> HIDE DEF k
    <3>1. k <= 31 => k \in Bits
          BY <2>4, BitNumbers
    <3>2. 8 \in Nat /\ 8 <= 8
          OBVIOUS
    <3>3. k <= 31 => srl(w, 8)[k] = IF k + 8 <= 31 THEN w[k + 8] ELSE Zero
          BY <3>1, <3>2, Moves
    <3> QED BY <3>3
  <2>6. k + 8 = i + h
        BY <1>0, <2>1, <2>2
  <2> QED BY <1>0, <2>2, <2>3, <2>5, <2>6
<1>3. CASE h \div 8 \in {2, 3}
  <2>1. First(w, h) = and(Turn(w, h), Keep(h))
        BY <1>3 DEF First
  <2>2. First(w, h)[i] = IF i + h <= 31 THEN w[(i + h) % 32] ELSE Zero
        BY <2>1, AndBit, KeepsFirst, Turned, OneIsNotZero
  <2>3. i + h <= 31 => (i + h) % 32 = i + h
        BY <1>0
  <2> QED BY <2>2, <2>3
<1> QED BY <1>1, <1>2, <1>3

\* A word of the frame: the last bits of one word of the line, then the first
\* of the next; nothing is lost and nothing clashes.
LEMMA WordJoined ==
    ASSUME NEW a, NEW e, NEW offset, NEW h \in Nat, h <= 31, NEW n \in 0 .. 3, NEW i \in Bits
    PROVE  RasterWords(a, e, h, offset)[n][i] =
             IF i + h <= 31 THEN Source(Walk(a, e)[n + 1] + offset)[i + h]
                            ELSE Source(Walk(a, e)[n + 2] + offset)[i + h - 32]
<1> DEFINE v == Source(Walk(a, e)[n + 1] + offset)
<1> DEFINE w == Source(Walk(a, e)[n + 2] + offset)
<1> DEFINE own == IF n = 0 THEN First(v, h) ELSE and(Turn(v, h), Keep(h))
<1> DEFINE next == and(Turn(w, h), Rest(h))
<1>0. i \in Nat /\ i <= 31 /\ One # Zero
      BY BitNumbers, OneIsNotZero
<1>1. RasterWords(a, e, h, offset)[n] = or(own, next)
  <2>1. n = 0 => v = Source(Walk(a, e)[0 + 1] + offset)
        OBVIOUS
  <2>2. (n + 1) + 1 = n + 2
        OBVIOUS
  <2> QED BY <2>1, <2>2 DEF RasterWords
<1>2. i + h <= 31 => (i + h) % 32 = i + h
      BY <1>0
<1>3. i + h > 31 => (i + h) % 32 = i + h - 32
      BY <1>0
<1> HIDE DEF v, w
<1>4. own[i] = IF i + h <= 31 THEN v[i + h] ELSE Zero
  <2>1. First(v, h)[i] = IF i + h <= 31 THEN v[i + h] ELSE Zero
        BY FirstShifted
  <2>2. and(Turn(v, h), Keep(h))[i] = IF i + h <= 31 THEN v[(i + h) % 32] ELSE Zero
        BY AndBit, KeepsFirst, Turned, OneIsNotZero
  <2> QED BY <1>2, <2>1, <2>2
<1>5. next[i] = IF i + h <= 31 THEN Zero ELSE w[(i + h) % 32]
      BY AndBit, RestIsLast, Turned, OneIsNotZero
<1> HIDE DEF own, next
<1>6. or(own, next)[i] = IF own[i] = Zero THEN next[i] ELSE IF next[i] = Zero THEN own[i] ELSE Clash
      BY OrBit
<1>7. CASE i + h <= 31
      BY <1>1, <1>4, <1>5, <1>6, <1>7 DEF v
<1>8. CASE ~(i + h <= 31)
  <2>1. (i + h) % 32 = i + h - 32
        BY <1>0, <1>3, <1>8
  <2> QED BY <1>1, <1>4, <1>5, <1>6, <1>8, <2>1 DEF w
<1> QED BY <1>7, <1>8

\* The five words read, round the end of the line.
LEMMA WalksRound ==
    ASSUME NEW e \in Int, NEW k \in Nat, k <= 7, NEW m \in 0 .. 4
    PROVE  Walk(e - 8 + k, e)[m + 1] = e - 8 + ((k + m) % 8)
<1> DEFINE a == e - 8 + k
<1> DEFINE b == Step(a, e)
<1> DEFINE c == Step(b, e)
<1> DEFINE d == Step(c, e)
<1> DEFINE f == Step(d, e)
<1>1. ASSUME NEW j \in Nat, j <= 7
      PROVE  (j + 1) % 8 \in Nat /\ (j + 1) % 8 <= 7 /\ Step(e - 8 + j, e) = e - 8 + ((j + 1) % 8)
      BY <1>1 DEF Step
<1>2. b = e - 8 + ((k + 1) % 8)
      BY <1>1
<1>3. c = e - 8 + ((k + 2) % 8)
  <2>1. (((k + 1) % 8) + 1) % 8 = (k + 2) % 8 /\ (k + 1) % 8 \in Nat /\ (k + 1) % 8 <= 7
        OBVIOUS
  <2> HIDE DEF b
  <2> QED BY <1>1, <1>2, <2>1
<1>4. d = e - 8 + ((k + 3) % 8)
  <2>1. (((k + 2) % 8) + 1) % 8 = (k + 3) % 8 /\ (k + 2) % 8 \in Nat /\ (k + 2) % 8 <= 7
        OBVIOUS
  <2> HIDE DEF c
  <2> QED BY <1>1, <1>3, <2>1
<1>5. f = e - 8 + ((k + 4) % 8)
  <2>1. (((k + 3) % 8) + 1) % 8 = (k + 4) % 8 /\ (k + 3) % 8 \in Nat /\ (k + 3) % 8 <= 7
        OBVIOUS
  <2> HIDE DEF d
  <2> QED BY <1>1, <1>4, <2>1
<1>6. Walk(a, e) = <<a, b, c, d, f>>
      BY DEF Walk
<1>7. k = (k + 0) % 8
      OBVIOUS
<1> HIDE DEF a, b, c, d, f
<1>8. m \in {0, 1, 2, 3, 4}
      OBVIOUS
<1>9. <<a, b, c, d, f>>[m + 1] = IF m = 0 THEN a ELSE IF m = 1 THEN b ELSE IF m = 2 THEN c ELSE IF m = 3 THEN d ELSE f
      BY <1>8
<1>10. a = e - 8 + ((k + 0) % 8)
      BY <1>7 DEF a
<1> QED BY <1>2, <1>3, <1>4, <1>5, <1>6, <1>8, <1>9, <1>10 DEF a

\* The bits of the words of one line.
LEMMA LineBit ==
    ASSUME NEW line \in Int, NEW q \in 0 .. 2, NEW k \in Nat, k <= 7, NEW i \in Bits
    PROVE  Source(line * 24 + 8 * q + k)[i] = <<"bit", line, q, k * 32 + i>>
<1> DEFINE a == line * 24 + 8 * q + k
<1>1. a \div 24 = line /\ (a % 24) \div 8 = q /\ a % 8 = k
      OBVIOUS
<1> HIDE DEF a
<1> QED BY <1>1 DEF Source, a

\* The pixel of a line that bit i of word n shows.
Pixel(line, q, x, n, i) == <<"bit", line, q, (x + 32 * n + i) % 256>>

\* The words of the frame made of the group of a line that ends at e.
Group(x, e, offset) == RasterWords(StartWord(x, e), e, x % 32, offset)

\* The words at offset from a group that ends at e are group q of the line.
IsGroup(line, q, e, offset) ==
    /\ q \in 0 .. 2 /\ e \in Int /\ offset \in Int
    /\ e - 8 + offset = line * 24 + 8 * q

\* One group of a line, shifted into the frame: 128 pixels from x on, round
\* the line's end.
LEMMA GroupShown ==
    ASSUME NEW line \in Int, NEW x \in Int, NEW n \in 0 .. 3, NEW i \in Bits,
           NEW q, NEW e, NEW offset, IsGroup(line, q, e, offset)
    PROVE  Group(x, e, offset)[n][i] = Pixel(line, q, x, n, i)
<1> DEFINE h == x % 32
<1> DEFINE k == (x % 256) \div 32
<1> DEFINE a == StartWord(x, e)
<1>0. i \in Nat /\ i <= 31
      BY BitNumbers
<1>1. h \in Nat /\ h <= 31 /\ k \in Nat /\ k <= 7 /\ x % 256 = 32 * k + h
      OBVIOUS
<1>2. q \in 0 .. 2 /\ e \in Int /\ offset \in Int /\ e - 8 + offset = line * 24 + 8 * q
      BY DEF IsGroup
<1>3. a = e - 8 + k
      BY <1>1, <1>2 DEF StartWord
<1>10. q \in 0 .. 2
      BY <1>2
<1>4. ASSUME NEW m \in 0 .. 4, NEW j \in Bits
      PROVE  Source(Walk(a, e)[m + 1] + offset)[j] = <<"bit", line, q, ((k + m) % 8) * 32 + j>>
  <2> DEFINE p == (k + m) % 8
  <2>1. p \in Nat /\ p <= 7
        BY <1>1
  <2> HIDE DEF k, a
  <2>2. Walk(a, e)[m + 1] = e - 8 + p
    <3>1. Walk(e - 8 + k, e)[m + 1] = e - 8 + p
          BY <1>1, <1>2, WalksRound
    <3> HIDE DEF p
    <3> QED BY <1>3, <3>1
  <2> HIDE DEF p
  <2>3. e - 8 + p + offset = line * 24 + 8 * q + p
        BY <1>2, <2>1
  <2>4. Source(line * 24 + 8 * q + p)[j] = <<"bit", line, q, p * 32 + j>>
        BY <1>10, <2>1, LineBit
  <2> QED BY <2>2, <2>3, <2>4 DEF p
<1>5. (x + 32 * n + i) % 256 = (32 * k + h + 32 * n + i) % 256
      BY <1>0, <1>1
<1> HIDE DEF h, k, a
<1>6. RasterWords(a, e, h, offset)[n][i] =
             IF i + h <= 31 THEN Source(Walk(a, e)[n + 1] + offset)[i + h]
                            ELSE Source(Walk(a, e)[n + 2] + offset)[i + h - 32]
      BY <1>1, WordJoined
<1>7. CASE i + h <= 31
  <2>1. i + h \in Bits
        BY <1>0, <1>1, <1>7, BitNumbers
  <2>2. Source(Walk(a, e)[n + 1] + offset)[i + h] = <<"bit", line, q, ((k + n) % 8) * 32 + (i + h)>>
        BY <1>4, <2>1
  <2>3. ((k + n) % 8) * 32 + (i + h) = (32 * k + h + 32 * n + i) % 256
        BY <1>0, <1>1, <1>7
  <2> QED BY <1>5, <1>6, <1>7, <2>2, <2>3 DEF h, a, Pixel, Group
<1>8. CASE ~(i + h <= 31)
  <2>1. i + h - 32 \in Bits
        BY <1>0, <1>1, <1>8, BitNumbers
  <2>2. n + 1 \in 0 .. 4 /\ (n + 1) + 1 = n + 2
        OBVIOUS
  <2>3. Source(Walk(a, e)[n + 2] + offset)[i + h - 32] = <<"bit", line, q, ((k + (n + 1)) % 8) * 32 + (i + h - 32)>>
        BY <1>4, <2>1, <2>2
  <2>4. ((k + (n + 1)) % 8) * 32 + (i + h - 32) = (32 * k + h + 32 * n + i) % 256
        BY <1>0, <1>1, <1>8
  <2> QED BY <1>5, <1>6, <1>8, <2>3, <2>4 DEF h, a, Pixel, Group
<1> QED BY <1>7, <1>8

\* What is drawn of a line, by either of the two functions.
DrawnOf(o, x, line) == o = RasterCopy(x, LineEnd(line)) \/ o = RasterMerge(x, LineEnd(line))

\* Both functions that draw a line draw it like this, in each of its groups.
LEMMA LineDrawn ==
    ASSUME NEW line \in Int, NEW x \in Int, NEW o, DrawnOf(o, x, line),
           NEW q \in DOMAIN o, NEW n \in 0 .. 3, NEW i \in Bits
    PROVE  o[q][n][i] = Pixel(line, q - 1, x, n, i)
<1> DEFINE e == LineEnd(line)
<1> DEFINE f == e + 8
<1>1. e \in Int /\ f \in Int /\ e - 8 = line * 24 /\ f - 8 = line * 24 + 8
      BY DEF LineEnd
<1>2. /\ IsGroup(line, 0, e, 0) /\ IsGroup(line, 1, f, 0)
      /\ IsGroup(line, 1, e, 8) /\ IsGroup(line, 2, e, 16)
      BY <1>1 DEF IsGroup
<1>3. /\ RasterCopy(x, e) = <<Group(x, e, 0), Group(x, f, 0)>>
      /\ RasterMerge(x, e) = <<Group(x, e, 0), Group(x, e, 8), Group(x, e, 16)>>
      BY DEF RasterCopy, RasterMerge, Group
<1>4. o = RasterCopy(x, e) \/ o = RasterMerge(x, e)
      BY DEF DrawnOf
<1> HIDE DEF e, f
<1>5. /\ Group(x, e, 0)[n][i] = Pixel(line, 0, x, n, i)
      /\ Group(x, f, 0)[n][i] = Pixel(line, 1, x, n, i)
      /\ Group(x, e, 8)[n][i] = Pixel(line, 1, x, n, i)
      /\ Group(x, e, 16)[n][i] = Pixel(line, 2, x, n, i)
      BY <1>2, GroupShown
<1>6. CASE o = RasterCopy(x, e)
  <2>1. q \in {1, 2}
        BY <1>3, <1>6
  <2> QED BY <1>3, <1>5, <1>6, <2>1
<1>7. CASE o = RasterMerge(x, e)
  <2>1. q \in {1, 2, 3}
        BY <1>3, <1>7
  <2> QED BY <1>3, <1>5, <1>7, <2>1
<1> QED BY <1>4, <1>6, <1>7

\* Counting round a plane of any number of lines.
LEMMA NextRound ==
    ASSUME NEW a \in Int, NEW L \in Nat \ {0}
    PROVE  /\ a % L \in Nat /\ a % L < L
           /\ (a + 1) % L = IF (a % L) + 1 = L THEN 0 ELSE (a % L) + 1
<1> DEFINE r == a % L
<1> DEFINE s == (a + 1) % L
<1> DEFINE d == ((a + 1) \div L) - (a \div L)
<1>1. /\ r \in Nat /\ r < L /\ a = L * (a \div L) + r /\ a \div L \in Int
      /\ s \in Nat /\ s < L /\ a + 1 = L * ((a + 1) \div L) + s /\ (a + 1) \div L \in Int
      OBVIOUS
<1>2. d \in Int /\ L * d = 1 + r - s
      BY <1>1
<1> HIDE DEF r, s, d
<1>3. d >= 2 => L * d >= 2 * L
  <2> SUFFICES ASSUME d >= 2 PROVE L * d >= 2 * L
      OBVIOUS
  <2>1. d - 2 \in Nat /\ L * (d - 2) \in Nat
        BY <1>2
  <2>2. L * (d - 2) = L * d - 2 * L
        BY <1>2
  <2> QED BY <1>2, <2>1, <2>2
<1>4. d <= -1 => L * d <= -L
  <2> SUFFICES ASSUME d <= -1 PROVE L * d <= -L
      OBVIOUS
  <2>1. -1 - d \in Nat /\ L * (-1 - d) \in Nat
        BY <1>2
  <2>2. L * (-1 - d) = -L - L * d
        BY <1>2
  <2> QED BY <1>2, <2>1, <2>2
<1>5. d = 0 \/ d = 1
      BY <1>1, <1>2, <1>3, <1>4
<1>6. s = IF r + 1 = L THEN 0 ELSE r + 1
  <2>1. CASE d = 0
    <3>1. L * d = 0
          BY <2>1
    <3> QED BY <1>1, <1>2, <3>1
  <2>2. CASE d = 1
    <3>1. L * d = L
          BY <2>2
    <3> QED BY <1>1, <1>2, <3>1
  <2> QED BY <1>5, <2>1, <2>2
<1> QED BY <1>1, <1>6 DEF r, s

\* The next line of the plane, from its last one back to its first.
LEMMA NextLineFollows ==
    ASSUME NEW a \in Int
    PROVE  NextLine(LineEnd(a % Lines)) = LineEnd((a + 1) % Lines)
<1> DEFINE l == a % Lines
<1>1. Lines \in Nat \ {0}
      BY RasterAssumption
<1>2. l \in Nat /\ l < Lines /\ (a + 1) % Lines = IF l + 1 = Lines THEN 0 ELSE l + 1
      BY <1>1, NextRound
<1> HIDE DEF l
<1>3. NextLine(LineEnd(l)) = LineEnd(IF l + 1 = Lines THEN 0 ELSE l + 1)
      BY <1>1, <1>2 DEF NextLine, LineEnd
<1> QED BY <1>2, <1>3 DEF l

-----------------------------------------------------------------------------
(***************************************************************************)
(* Characters.                                                             *)
(***************************************************************************)
\* Where the pointer that goes up the lines stands.
LEMMA UpwardsIs ==
    ASSUME NEW n \in Nat, n <= 23
    PROVE  Upwards[n] = 32 * (n % 3) - 160 - 96 * (n \div 3)
<1> DEFINE Up(f) == [k \in 0 .. 23 |-> (IF k = 0 THEN 0 ELSE f[k - 1]) + (IF k % 3 = 0 THEN -160 ELSE 32)]
<1> DEFINE at(k) == 32 * (k % 3) - 160 - 96 * (k \div 3)
<1> DEFINE g == [k \in 0 .. 23 |-> at(k)]
<1>1. ASSUME NEW k \in 0 .. 23
      PROVE  at(k) = (IF k = 0 THEN 0 ELSE at(k - 1)) + (IF k % 3 = 0 THEN -160 ELSE 32)
      BY <1>1
<1>2. \E f : f = Up(f)
  <2>1. g = Up(g)
    <3> HIDE DEF at
    <3>1. \A k \in 0 .. 23 : k # 0 => k - 1 \in 0 .. 23
          OBVIOUS
    <3> QED BY <1>1, <3>1
  <2> HIDE DEF g, Up
  <2> QED BY <2>1
<1>3. Upwards = Up(Upwards)
  <2>1. Upwards = CHOOSE f : f = Up(f)
        BY DEF Upwards
  <2> HIDE DEF Up
  <2> QED BY <1>2, <2>1
<1>4. ASSUME NEW k \in 0 .. 23
      PROVE  Upwards[k] = (IF k = 0 THEN 0 ELSE Upwards[k - 1]) + (IF k % 3 = 0 THEN -160 ELSE 32)
      BY <1>3
<1> HIDE DEF Up, g
<1> DEFINE S == {k \in Nat : k <= 23 => Upwards[k] = at(k)}
<1>5. 0 \in S
  <2>1. 0 \in 0 .. 23
        OBVIOUS
  <2>2. Upwards[0] = at(0)
        BY <1>1, <1>4, <2>1
  <2> HIDE DEF at
  <2> QED BY <2>2
<1>6. ASSUME NEW k \in Nat, k \in S PROVE k + 1 \in S
  <2> HIDE DEF at
  <2> SUFFICES ASSUME k + 1 <= 23 PROVE Upwards[k + 1] = at(k + 1)
      OBVIOUS
  <2>1. k + 1 \in 0 .. 23 /\ (k + 1) - 1 = k /\ k + 1 # 0 /\ Upwards[k] = at(k)
        BY <1>6
  <2> QED BY <1>1, <1>4, <2>1
<1>7. n \in S
  <2> HIDE DEF S
  <2> QED BY <1>5, <1>6, SetInduction
<1> QED BY <1>7

\* Turning over twice is not turning over.
LEMMA MirroredTwice ==
    ASSUME NEW k \in Nat, k <= 7, NEW rev \in BOOLEAN
    PROVE  Mirrored(k, rev) \in Nat /\ Mirrored(k, rev) <= 7 /\ Mirrored(Mirrored(k, rev), rev) = k
BY DEF Mirrored

\* Byte n belongs to row n \div 3 of the pattern, which is a line of the character.
LEMMA CharByte ==
    ASSUME NEW x \in Int, NEW y \in Int, NEW rev \in BOOLEAN, NEW n \in Nat, n <= 23
    PROVE  CharOffset(x, y, rev, n) = (8 * y + Mirrored(n \div 3, rev)) * 96 + 32 * (n % 3) + x
<1>1. ASSUME rev
      PROVE  CharOffset(x, y, rev, n) = (8 * y + Mirrored(n \div 3, rev)) * 96 + 32 * (n % 3) + x
  <2> DEFINE u == Upwards[n]
  <2>1. u = 32 * (n % 3) - 160 - 96 * (n \div 3)
        BY UpwardsIs
  <2>2. CharOffset(x, y, rev, n) = y * 768 + x + (832 + u)
        BY <1>1 DEF CharOffset
  <2>3. Mirrored(n \div 3, rev) = 7 - (n \div 3)
        BY <1>1 DEF Mirrored
  <2> HIDE DEF u
  <2> QED BY <2>1, <2>2, <2>3
<1>2. ASSUME ~rev
      PROVE  CharOffset(x, y, rev, n) = (8 * y + Mirrored(n \div 3, rev)) * 96 + 32 * (n % 3) + x
  <2>1. CharOffset(x, y, rev, n) = y * 768 + x + 32 * n
        BY <1>2 DEF CharOffset
  <2>2. Mirrored(n \div 3, rev) = n \div 3
        BY <1>2 DEF Mirrored
  <2> QED BY <2>1, <2>2
<1> QED BY <1>1, <1>2

\* The bytes of a character are its rows, each on its line.
LEMMA CharDrawn ==
    ASSUME NEW x \in Int, NEW y \in Int, NEW hrev, NEW vrev \in BOOLEAN
    PROVE  CharBytes(x, y, hrev, vrev) =
             { <<(8 * y + l) * 96 + 32 * q + x, PatternByte(Mirrored(l, vrev), q, hrev)>> :
                 l \in 0 .. 7, q \in 0 .. 2 }
<1> DEFINE Here(l, q) == <<(8 * y + l) * 96 + 32 * q + x, PatternByte(Mirrored(l, vrev), q, hrev)>>
<1> DEFINE There(n) == <<CharOffset(x, y, vrev, n), PatternByte(n \div 3, n % 3, hrev)>>
<1>1. ASSUME NEW n \in 0 .. 23
      PROVE  \E l \in 0 .. 7, q \in 0 .. 2 : There(n) = Here(l, q)
  <2> DEFINE r == n \div 3
  <2> DEFINE q == n % 3
  <2> DEFINE l == Mirrored(r, vrev)
  <2>1. n \in Nat /\ n <= 23 /\ r \in Nat /\ r <= 7 /\ q \in 0 .. 2
        OBVIOUS
  <2>2. l \in 0 .. 7 /\ Mirrored(l, vrev) = r
    <3> HIDE DEF r
    <3> QED BY <2>1, MirroredTwice
  <2>3. CharOffset(x, y, vrev, n) = (8 * y + l) * 96 + 32 * q + x
        BY <2>1, CharByte
  <2>4. There(n) = <<CharOffset(x, y, vrev, n), PatternByte(r, q, hrev)>>
        OBVIOUS
  <2> HIDE DEF r, q, l, There
  <2>5. There(n) = Here(l, q)
    <3>1. There(n) = <<(8 * y + l) * 96 + 32 * q + x, PatternByte(Mirrored(l, vrev), q, hrev)>>
          BY <2>2, <2>3, <2>4, Zenon
    <3> QED BY <3>1, Zenon
  <2> HIDE DEF Here
  <2> QED BY <2>1, <2>2, <2>5
<1>2. ASSUME NEW l \in 0 .. 7, NEW q \in 0 .. 2
      PROVE  \E n \in 0 .. 23 : There(n) = Here(l, q)
  <2> DEFINE r == Mirrored(l, vrev)
  <2> DEFINE n == 3 * r + q
  <2>1. r \in Nat /\ r <= 7 /\ Mirrored(r, vrev) = l
        BY MirroredTwice
  <2> HIDE DEF r
  <2>2. n \in 0 .. 23 /\ n \in Nat /\ n <= 23 /\ n \div 3 = r /\ n % 3 = q
        BY <2>1
  <2> HIDE DEF n
  <2>3. CharOffset(x, y, vrev, n) = (8 * y + l) * 96 + 32 * q + x
    <3>1. CharOffset(x, y, vrev, n) = (8 * y + Mirrored(n \div 3, vrev)) * 96 + 32 * (n % 3) + x
          BY <2>2, CharByte
    <3>2. n \div 3 = r /\ n % 3 = q /\ Mirrored(r, vrev) = l
          BY <2>1, <2>2
    <3>3. Mirrored(n \div 3, vrev) = l
          BY <3>2, Zenon
    <3> QED BY <3>1, <3>2, <3>3
  <2>4. There(n) = Here(l, q)
        BY <2>2, <2>3 DEF r
  <2> HIDE DEF There, Here
  <2> QED BY <2>2, <2>4
<1>3. CharBytes(x, y, hrev, vrev) = {There(n) : n \in 0 .. 23}
      BY DEF CharBytes
<1> HIDE DEF There, Here
<1>4. {There(n) : n \in 0 .. 23} = {Here(l, q) : l \in 0 .. 7, q \in 0 .. 2}
      BY <1>1, <1>2
<1> QED BY <1>3, <1>4 DEF Here

-----------------------------------------------------------------------------
(***************************************************************************)
(* Sprites.                                                                *)
(***************************************************************************)
\* What frame bit i of byte b has of row r of the pattern at column x: in colour
\* plane q, or in the mask (q = 2).
Shown(x, b, r, q, hrev, i) ==
    IF x <= 8 * b + i /\ 8 * b + i <= x + 7
       THEN <<"pat", r, q, Mirrored((8 * b + i) - x, hrev)>>
       ELSE IF q = 2 THEN One ELSE Zero

\* Frame bit i of byte b shows bit j of a pattern at column x.
IsBit(j, x, b, i) == j = (8 * b + i) - x

\* A byte of the pattern, bit by bit.
LEMMA PatternBit ==
    ASSUME NEW r, NEW q, NEW hrev \in BOOLEAN, NEW j \in Bits
    PROVE  PatternByte(r, q, hrev)[j] =
             IF j <= 7 THEN <<"pat", r, q, Mirrored(j, hrev)>>
                       ELSE IF q = 2 THEN One ELSE Zero
<1>1. j \in Nat /\ j <= 31
      BY BitNumbers
<1>2. CASE hrev
      BY <1>1, <1>2 DEF PatternByte, Mirrored
<1>3. CASE ~hrev
      BY <1>1, <1>3 DEF PatternByte, Mirrored
<1> QED BY <1>2, <1>3

\* A bit of the pattern that stands on the screen at 8 * b + i, or a blank one.
LEMMA BitOfPattern ==
    ASSUME NEW r, NEW q, NEW hrev \in BOOLEAN,
           NEW x \in Int, NEW b \in Int, NEW i \in Int, NEW j \in Bits,
           IsBit(j, x, b, i)
    PROVE  PatternByte(r, q, hrev)[j] = Shown(x, b, r, q, hrev, i)
<1>1. j \in Nat /\ j <= 31
      BY BitNumbers
<1>2. j = (8 * b + i) - x
      BY DEF IsBit
<1>3. j <= 7 <=> x <= 8 * b + i /\ 8 * b + i <= x + 7
      BY <1>1, <1>2
<1> QED BY <1>2, <1>3, PatternBit DEF Shown

\* Left of the sprite's first pixel, a word turned in from the right is blank.
LEMMA BlankBefore ==
    ASSUME NEW r, NEW q, NEW hrev \in BOOLEAN,
           NEW x \in Int, NEW b \in Int, NEW i \in Int,
           NEW j \in Int, IsBit(j, x, b, i), j < 0
    PROVE  Shown(x, b, r, q, hrev, i) = IF q = 2 THEN One ELSE Zero
<1>1. ~(x <= 8 * b + i)
      BY DEF IsBit
<1> QED BY <1>1 DEF Shown

\* What is written to byte b of frame row f, in colour plane q.
ShownByte(x, b, r, q, hrev) ==
    [i \in 0 .. 7 |-> <<Shown(x, b, r, 2, hrev, i), Shown(x, b, r, q, hrev, i)>>]
Written(x, b, f, r, q, hrev) == <<32 * f + 16 * q + b, ShownByte(x, b, r, q, hrev)>>

\* The byte of the frame the sprite's first pixel is in, the bit it is there and
\* the byte after.
StartsIn(x, c, n, d) == c = x \div 8 /\ n = x % 8 /\ d = c + 1

\* What is written to those two.
LEMMA ShiftedRight ==
    ASSUME NEW x \in Int, NEW c, NEW n, NEW d, StartsIn(x, c, n, d),
           NEW r, NEW hrev \in BOOLEAN, NEW q, q # 2
    PROVE  /\ Byte(rl(PatternByte(r, 2, hrev), n), sll(PatternByte(r, q, hrev), n))
                = ShownByte(x, c, r, q, hrev)
           /\ Byte(srl(rl(PatternByte(r, 2, hrev), n), 8), srl(sll(PatternByte(r, q, hrev), n), 8))
                = ShownByte(x, d, r, q, hrev)
<1> DEFINE m == PatternByte(r, 2, hrev)
<1> DEFINE p == PatternByte(r, q, hrev)
<1>1. ASSUME NEW i \in 0 .. 7
      PROVE  /\ rl(m, n)[i] = Shown(x, c, r, 2, hrev, i)
             /\ sll(p, n)[i] = Shown(x, c, r, q, hrev, i)
             /\ srl(rl(m, n), 8)[i] = Shown(x, d, r, 2, hrev, i)
             /\ srl(sll(p, n), 8)[i] = Shown(x, d, r, q, hrev, i)
  <2> DEFINE j == (i - n) % 32
  <2> DEFINE k == (i + 8 - n) % 32
  <2> DEFINE l == i - n
  <2> DEFINE u == i + 8
  <2> DEFINE v == u - n
  <2>1. /\ n \in Nat /\ n <= 8 /\ n <= 7 /\ c \in Int /\ d \in Int /\ x = 8 * c + n
        /\ i \in Int /\ 0 <= i /\ i <= 7 /\ d = c + 1
        BY DEF StartsIn
  <2>2. /\ u \in Nat /\ u <= 31 /\ v \in Nat /\ v <= 31 /\ l \in Int /\ l <= 7
        /\ i \in Nat /\ i <= 31
        /\ k = v /\ (0 <= l => j = l) /\ (l < 0 => j \in Nat /\ j <= 31 /\ j > 7)
        /\ (u - n) % 32 = v
        BY <2>1
  <2>3. i \in Bits /\ u \in Bits /\ v \in Bits /\ (0 <= l => l \in Bits) /\ (l < 0 => j \in Bits)
        BY <2>2, BitNumbers
  <2>4. IsBit(l, x, c, i) /\ IsBit(v, x, d, i)
        BY <2>1, <2>2 DEF IsBit
  <2>5. 2 # q
        OBVIOUS
  <2> HIDE DEF m, p, l, u, v, j, k
  <2>6. 8 \in Nat /\ 8 <= 8
        OBVIOUS
  <2>7. n \in Nat /\ n <= 8 /\ i \in Bits /\ u \in Bits
        BY <2>1, <2>3
  <2>8. i + 8 <= 31 /\ i + 8 = u
        BY <2>1 DEF u
  <2>9. rl(m, n)[i] = m[j] /\ sll(p, n)[i] = IF 0 <= l THEN p[l] ELSE Zero
        BY <2>7, Moves DEF j, l
  <2>10. i + 8 = u /\ u <= 31 /\ u - n = v /\ 0 <= v
        BY <2>2 DEF u, v
  <2>11. srl(rl(m, n), 8)[i] = rl(m, n)[u] /\ srl(sll(p, n), 8)[i] = sll(p, n)[u]
    <3>1. /\ srl(rl(m, n), 8)[i] = IF i + 8 <= 31 THEN rl(m, n)[i + 8] ELSE Zero
          /\ srl(sll(p, n), 8)[i] = IF i + 8 <= 31 THEN sll(p, n)[i + 8] ELSE Zero
          BY <2>6, <2>7, Moves
    <3> QED BY <2>8, <3>1
  <2>12. rl(m, n)[u] = m[v] /\ sll(p, n)[u] = p[v]
    <3>1. rl(m, n)[u] = m[(u - n) % 32] /\ sll(p, n)[u] = IF 0 <= u - n THEN p[u - n] ELSE Zero
          BY <2>7, Moves
    <3> QED BY <2>2, <2>10, <3>1
  <2>13. m[v] = Shown(x, d, r, 2, hrev, i) /\ p[v] = Shown(x, d, r, q, hrev, i)
        BY <2>1, <2>3, <2>4, BitOfPattern DEF m, p
  <2>14. CASE 0 <= l
    <3>1. m[l] = Shown(x, c, r, 2, hrev, i) /\ p[l] = Shown(x, c, r, q, hrev, i)
      <4>1. c \in Int /\ i \in Int /\ l \in Bits /\ IsBit(l, x, c, i)
            BY <2>1, <2>3, <2>4, <2>14
      <4> QED BY <4>1, BitOfPattern DEF m, p
    <3>2. j = l
          BY <2>2, <2>14
    <3> QED BY <2>9, <2>11, <2>12, <2>13, <2>14, <3>1, <3>2
  <2>15. CASE l < 0
    <3>1. m[j] = One
      <4>1. j \in Bits /\ ~(j <= 7)
            BY <2>2, <2>3, <2>15
      <4>2. m[j] = IF j <= 7 THEN <<"pat", r, 2, Mirrored(j, hrev)>> ELSE IF 2 = 2 THEN One ELSE Zero
            BY <4>1, PatternBit DEF m
      <4> QED BY <4>1, <4>2
    <3>2. Shown(x, c, r, 2, hrev, i) = One /\ Shown(x, c, r, q, hrev, i) = Zero
      <4>1. l \in Int /\ l < 0 /\ c \in Int /\ i \in Int /\ IsBit(l, x, c, i)
            BY <2>1, <2>2, <2>4, <2>15
      <4> QED BY <2>5, <4>1, BlankBefore
    <3>3. sll(p, n)[i] = Zero
          BY <2>2, <2>9, <2>15
    <3> QED BY <2>9, <2>11, <2>12, <2>13, <3>1, <3>2, <3>3
  <2> QED BY <2>2, <2>14, <2>15
<1> HIDE DEF m, p
<1>2. /\ Byte(rl(m, n), sll(p, n)) = ShownByte(x, c, r, q, hrev)
      /\ Byte(srl(rl(m, n), 8), srl(sll(p, n), 8)) = ShownByte(x, d, r, q, hrev)
      BY <1>1 DEF Byte, ShownByte
<1> QED BY <1>2 DEF m, p

\* A sprite that sticks out at the left is moved the other way.
LEMMA ShiftedLeft ==
    ASSUME NEW x \in Int, -7 <= x, x < 0, NEW r, NEW q, NEW hrev \in BOOLEAN, NEW i \in 0 .. 7
    PROVE  srl(PatternByte(r, q, hrev), -x)[i] = Shown(x, 0, r, q, hrev, i)
<1> DEFINE n == -x
<1> DEFINE k == i + n
<1>1. n \in Nat /\ n <= 8 /\ i \in Int /\ i \in Nat /\ i <= 31 /\ k \in Nat /\ k <= 31 /\ k = 8 * 0 + i - x
      OBVIOUS
<1>2. i \in Bits /\ k \in Bits
      BY <1>1, BitNumbers
<1>3. 0 \in Int /\ IsBit(k, x, 0, i)
      BY <1>1 DEF IsBit
<1> HIDE DEF k
<1>4. PatternByte(r, q, hrev)[k] = Shown(x, 0, r, q, hrev, i)
      BY <1>1, <1>2, <1>3, BitOfPattern
<1> HIDE DEF n
<1>5. srl(PatternByte(r, q, hrev), n)[i] = PatternByte(r, q, hrev)[i + n]
      BY <1>1, <1>2, Moves
<1> QED BY <1>1, <1>4, <1>5 DEF n, k

\* The bytes of a frame row that a sprite at column x is written to.
Columns(x) ==
    IF x < -7 THEN {} ELSE IF x < 0 THEN {0}
    ELSE IF x <= 120 THEN {x \div 8, (x \div 8) + 1} ELSE {x \div 8}

\* All that is written to frame row f, and where it starts.
RowWritten(x, f, r, hrev) == {Written(x, b, f, r, q, hrev) : b \in Columns(x), q \in {0, 1}}
RowBase(x, f) == (x \div 8) + 32 * f

\* A row of a sprite, at any column of the screen or off it.
LEMMA RowDrawn ==
    ASSUME NEW x \in Int, NEW f \in Int, NEW r, NEW hrev \in BOOLEAN
    PROVE  SpriteRow(x, RowBase(x, f), r, hrev) = RowWritten(x, f, r, hrev)
<1> DEFINE c == x \div 8
<1> DEFINE d == c + 1
<1> DEFINE base == c + 32 * f
<1> DEFINE p(q) == PatternByte(r, q, hrev)
<1> DEFINE n == x % 8
<1> DEFINE left(q) == IF q = 2 THEN rl(p(2), n) ELSE sll(p(q), n)
<1> DEFINE own(q) == <<base + 16 * q, Byte(left(2), left(q))>>
<1> DEFINE next(q) == <<base + 1 + 16 * q, Byte(srl(left(2), 8), srl(left(q), 8))>>
<1> DEFINE cut(q) == <<base + 1 + 16 * q, Byte(srl(p(2), -x), srl(p(q), -x))>>
<1>1. SpriteRow(x, base, r, hrev) =
        IF x \in 0 .. 120 THEN {own(q) : q \in {0, 1}} \union {next(q) : q \in {0, 1}}
        ELSE IF x > 120 THEN {own(q) : q \in {0, 1}}
        ELSE IF x >= -7 THEN {cut(q) : q \in {0, 1}} ELSE {}
      BY DEF SpriteRow
<1>2. ASSUME NEW q \in {0, 1}
      PROVE  own(q) = Written(x, c, f, r, q, hrev) /\ next(q) = Written(x, d, f, r, q, hrev)
  <2>1. left(2) = rl(p(2), n) /\ left(q) = sll(p(q), n)
        BY <1>2
  <2>2. q # 2 /\ StartsIn(x, c, n, d)
        BY <1>2 DEF StartsIn
  <2> HIDE DEF left, c, d, n
  <2>3. /\ Byte(rl(p(2), n), sll(p(q), n)) = ShownByte(x, c, r, q, hrev)
        /\ Byte(srl(rl(p(2), n), 8), srl(sll(p(q), n), 8)) = ShownByte(x, d, r, q, hrev)
        BY <2>2, ShiftedRight
  <2> HIDE DEF p
  <2>4. c \in Int /\ base + 16 * q = 32 * f + 16 * q + c /\ base + 1 + 16 * q = 32 * f + 16 * q + d
        BY DEF c, d
  <2> HIDE DEF base
  <2> QED BY <2>1, <2>3, <2>4 DEF Written
<1>3. ASSUME NEW q \in {0, 1}, -7 <= x, x < 0
      PROVE  cut(q) = Written(x, 0, f, r, q, hrev)
  <2>1. ASSUME NEW i \in 0 .. 7
        PROVE  srl(p(2), -x)[i] = Shown(x, 0, r, 2, hrev, i) /\ srl(p(q), -x)[i] = Shown(x, 0, r, q, hrev, i)
        BY <1>3, ShiftedLeft
  <2> HIDE DEF p
  <2>2. Byte(srl(p(2), -x), srl(p(q), -x)) = ShownByte(x, 0, r, q, hrev)
        BY <2>1 DEF Byte, ShownByte
  <2>3. base + 1 + 16 * q = 32 * f + 16 * q + 0
        BY <1>3
  <2> HIDE DEF base
  <2> QED BY <2>2, <2>3 DEF Written
<1> HIDE DEF own, next, cut, left, c, d, n, p, base
<1>4. CASE x \in 0 .. 120
  <2>1. Columns(x) = {c, d}
        BY <1>4 DEF Columns, c, d
  <2>2. SpriteRow(x, base, r, hrev) = {own(q) : q \in {0, 1}} \union {next(q) : q \in {0, 1}}
        BY <1>1, <1>4
  <2> HIDE DEF Written
  <2> QED BY <1>2, <2>1, <2>2 DEF base, c, RowBase, RowWritten
<1>5. CASE x > 120
  <2>1. Columns(x) = {c}
        BY <1>5 DEF Columns, c
  <2>2. SpriteRow(x, base, r, hrev) = {own(q) : q \in {0, 1}}
        BY <1>1, <1>5
  <2> QED BY <1>2, <2>1, <2>2 DEF base, c, RowBase, RowWritten
<1>6. CASE -7 <= x /\ x < 0
  <2>1. Columns(x) = {0}
        BY <1>6 DEF Columns
  <2>2. SpriteRow(x, base, r, hrev) = {cut(q) : q \in {0, 1}}
        BY <1>1, <1>6
  <2> QED BY <1>3, <1>6, <2>1, <2>2 DEF base, c, RowBase, RowWritten
<1>7. CASE x < -7
  <2>1. Columns(x) = {}
        BY <1>7 DEF Columns
  <2>2. SpriteRow(x, base, r, hrev) = {}
        BY <1>1, <1>7
  <2> QED BY <2>1, <2>2 DEF base, c, RowBase, RowWritten
<1> QED BY <1>4, <1>5, <1>6, <1>7

\* The rows of the screen the sprite's box takes.
BoxRows(y) == (y .. y + 7) \cap (0 .. 87)

\* The k-th row drawn: the row of the frame and the row of the pattern.
FrameRow(y, vrev, k) == FirstFrameRow(y, vrev) + (IF vrev THEN -k ELSE k)
PatternRow(y, vrev, k) == FirstPatternRow(y, vrev) + k

\* Every row drawn is on the screen and belongs to its row of the pattern.
LEMMA RowOnScreen ==
    ASSUME NEW y \in Int, NEW vrev \in BOOLEAN, NEW k \in 0 .. RowsDrawn(y) - 1
    PROVE  /\ FrameRow(y, vrev, k) \in BoxRows(y)
           /\ PatternRow(y, vrev, k) = Mirrored(FrameRow(y, vrev, k) - y, vrev)
<1>1. CASE vrev
      BY <1>1 DEF BoxRows, FrameRow, PatternRow, FirstFrameRow, FirstPatternRow, RowsDrawn, Mirrored
<1>2. CASE ~vrev
      BY <1>2 DEF BoxRows, FrameRow, PatternRow, FirstFrameRow, FirstPatternRow, RowsDrawn, Mirrored
<1> QED BY <1>1, <1>2

\* Every row of the box that is on the screen is drawn.
LEMMA RowIsDrawn ==
    ASSUME NEW y \in Int, NEW vrev \in BOOLEAN, NEW f \in BoxRows(y)
    PROVE  \E k \in 0 .. RowsDrawn(y) - 1 :
              FrameRow(y, vrev, k) = f /\ PatternRow(y, vrev, k) = Mirrored(f - y, vrev)
<1>1. f \in Int /\ y <= f /\ f <= y + 7 /\ 0 <= f /\ f <= 87
      BY DEF BoxRows
<1>2. CASE vrev
  <2> DEFINE k == FirstFrameRow(y, vrev) - f
  <2>1. k \in 0 .. RowsDrawn(y) - 1 /\ FrameRow(y, vrev, k) = f
        BY <1>1, <1>2 DEF FrameRow, FirstFrameRow, RowsDrawn
  <2> HIDE DEF k
  <2> QED BY <2>1, RowOnScreen
<1>3. CASE ~vrev
  <2> DEFINE k == f - FirstFrameRow(y, vrev)
  <2>1. k \in 0 .. RowsDrawn(y) - 1 /\ FrameRow(y, vrev, k) = f
        BY <1>1, <1>3 DEF FrameRow, FirstFrameRow, RowsDrawn
  <2> HIDE DEF k
  <2> QED BY <2>1, RowOnScreen
<1> QED BY <1>2, <1>3

\* What a job says of its position.
LEMMA JobKinds ==
    ASSUME job \in PlaneJob \union LineJob \union SpriteJob \union CharJob
    PROVE  /\ job.kind \in {"copy", "merge", "copyline", "mergeline", "sprite", "char"}
           /\ job.kind \notin {"sprite", "char"} => job.x \in Int /\ job.y \in Int
           /\ job.kind = "sprite" =>
                /\ job.x \in Int /\ -128 <= job.x /\ job.x <= 127 /\ job.y \in Int
                /\ job.hrev \in BOOLEAN /\ job.vrev \in BOOLEAN
           /\ job.kind = "char" =>
                job.x \in Int /\ job.y \in Int /\ job.hrev \in BOOLEAN /\ job.vrev \in BOOLEAN
<1>1. CASE job \in PlaneJob
      BY <1>1, RasterAssumption DEF PlaneJob
<1>2. CASE job \in LineJob
      BY <1>2, RasterAssumption DEF LineJob
<1>3. CASE job \in SpriteJob
  <2>1. job.x \in SignedBytes /\ job.y \in SignedBytes /\ job.kind = "sprite"
        /\ job.hrev \in BOOLEAN /\ job.vrev \in BOOLEAN
        BY <1>3, RasterAssumption DEF SpriteJob
  <2>2. \A n \in SignedBytes : n \in Int /\ -128 <= n /\ n <= 127
        BY DEF SignedBytes
  <2> QED BY <2>1, <2>2
<1>4. CASE job \in CharJob
      BY <1>4 DEF CharJob
<1> QED BY <1>1, <1>2, <1>3, <1>4

\* What is drawn of a sprite: its rows on the screen, in its columns.
LEMMA SpriteDrawn ==
    ASSUME NEW x \in Int, NEW y \in Int, NEW hrev \in BOOLEAN, NEW vrev \in BOOLEAN
    PROVE  SpriteBytes(x, y, hrev, vrev) =
             {Written(x, b, f, Mirrored(f - y, vrev), q, hrev) :
                b \in Columns(x), f \in BoxRows(y), q \in {0, 1}}
<1> DEFINE Passes == 0 .. RowsDrawn(y) - 1
<1> DEFINE Box == BoxRows(y)
<1> DEFINE Drawn(k) == SpriteRow(x, RowBase(x, FrameRow(y, vrev, k)), PatternRow(y, vrev, k), hrev)
<1> DEFINE Line(f) == RowWritten(x, f, Mirrored(f - y, vrev), hrev)
<1>1. SpriteBytes(x, y, hrev, vrev) = UNION {Drawn(k) : k \in Passes}
      BY DEF SpriteBytes, FrameRow, PatternRow, RowBase
<1>2. ASSUME NEW k \in Passes
      PROVE  FrameRow(y, vrev, k) \in Box /\ Drawn(k) = Line(FrameRow(y, vrev, k))
  <2> DEFINE f == FrameRow(y, vrev, k)
  <2>1. f \in Box /\ PatternRow(y, vrev, k) = Mirrored(f - y, vrev)
        BY RowOnScreen
  <2>2. f \in Int
        BY <2>1 DEF BoxRows
  <2> HIDE DEF f, Box
  <2>3. SpriteRow(x, RowBase(x, f), PatternRow(y, vrev, k), hrev) =
          RowWritten(x, f, PatternRow(y, vrev, k), hrev)
        BY <2>2, RowDrawn
  <2> QED BY <2>1, <2>3 DEF f
<1>3. ASSUME NEW f \in Box
      PROVE  \E k \in Passes : FrameRow(y, vrev, k) = f
      BY RowIsDrawn
<1> HIDE DEF Drawn, Line, Box, Passes
<1>4. UNION {Drawn(k) : k \in Passes} = UNION {Line(f) : f \in Box}
      BY <1>2, <1>3
<1> DEFINE All == {Written(x, b, f, Mirrored(f - y, vrev), q, hrev) : b \in Columns(x), f \in Box, q \in {0, 1}}
<1>5. UNION {Line(f) : f \in Box} = All
      BY DEF Line, RowWritten
<1> HIDE DEF All
<1>6. SpriteBytes(x, y, hrev, vrev) = All
      BY <1>1, <1>4, <1>5
<1> QED BY <1>6 DEF All, Box

\* A column of the box that is on the screen lies in one of the bytes written.
LEMMA ColumnWritten ==
    ASSUME NEW x \in Int, x <= 127, NEW c \in (x .. x + 7) \cap (0 .. 127)
    PROVE  c \div 8 \in Columns(x) /\ c % 8 \in 0 .. 7 /\ 8 * (c \div 8) + (c % 8) = c
BY DEF Columns

\* The byte and the bit of a pixel of a row.
LEMMA ByteAndBit ==
    ASSUME NEW b \in Int, NEW i \in 0 .. 7
    PROVE  8 * b + i \in Int /\ (8 * b + i) \div 8 = b /\ (8 * b + i) % 8 = i
OBVIOUS

\* Bit i of byte b is in a sprite's box.
InBox(x, b, i) == x <= 8 * b + i /\ 8 * b + i <= x + 7

\* A bit that shows a bit of the pattern is on the screen.
LEMMA BitOnScreen ==
    ASSUME NEW x \in Int, x <= 127, NEW b \in Columns(x), NEW i \in 0 .. 7, InBox(x, b, i)
    PROVE  /\ b \in Int
           /\ 8 * b + i \in (x .. x + 7) \cap (0 .. 127)
           /\ (8 * b + i) \div 8 = b /\ (8 * b + i) % 8 = i
<1>0. x <= 8 * b + i /\ 8 * b + i <= x + 7
      BY DEF InBox
<1>1. CASE x < -7
      BY <1>0, <1>1 DEF Columns
<1>2. CASE -7 <= x /\ x < 0
      BY <1>0, <1>2 DEF Columns
<1>3. CASE 0 <= x /\ x <= 120
  <2>1. b = x \div 8 \/ b = (x \div 8) + 1
        BY <1>3 DEF Columns
  <2>2. b \in Int /\ 0 <= b
        BY <1>3, <2>1
  <2>3. 8 * b + i \in Int /\ 0 <= 8 * b + i /\ 8 * b + i <= 127
        BY <1>0, <1>3, <2>2
  <2>4. (8 * b + i) \div 8 = b /\ (8 * b + i) % 8 = i
        BY <2>2, ByteAndBit
  <2> QED BY <1>0, <2>2, <2>3, <2>4
<1>4. CASE 120 < x
  <2>1. b = x \div 8
        BY <1>4 DEF Columns
  <2> QED BY <1>0, <1>4, <2>1
<1> QED BY <1>1, <1>2, <1>3, <1>4

\* A sprite drawn fills its box.
LEMMA BoxFilled ==
    job \in SpriteJob /\ out = SpriteBytes(job.x, job.y, job.hrev, job.vrev)
      => SpriteFillsItsBox
<1> SUFFICES ASSUME job \in SpriteJob, out = SpriteBytes(job.x, job.y, job.hrev, job.vrev)
             PROVE  SpriteFillsItsBox
    OBVIOUS
<1> DEFINE x == job.x
<1> DEFINE y == job.y
<1> DEFINE hrev == job.hrev
<1> DEFINE vrev == job.vrev
<1> DEFINE W(b, f, q) == Written(x, b, f, Mirrored(f - y, vrev), q, hrev)
<1>1. x \in Int /\ x <= 127 /\ y \in Int /\ hrev \in BOOLEAN /\ vrev \in BOOLEAN
  <2>1. job.kind = "sprite"
        BY DEF SpriteJob
  <2> QED BY <2>1, JobKinds
<1>2. out = {W(b, f, q) : b \in Columns(x), f \in BoxRows(y), q \in {0, 1}}
      BY <1>1, SpriteDrawn
<1>3. OnScreen = ((x .. x + 7) \cap (0 .. 127)) \X BoxRows(y)
      BY DEF OnScreen, BoxRows
<1>7. ASSUME NEW p, NEW q
      PROVE  /\ PixelOffset(p, q) = 32 * p[2] + 16 * q + (p[1] \div 8)
             /\ SpritePixel(p, q) = << <<"pat", Mirrored(p[2] - y, vrev), 2, Mirrored(p[1] - x, hrev)>>,
                                       <<"pat", Mirrored(p[2] - y, vrev), q, Mirrored(p[1] - x, hrev)>> >>
      BY DEF PixelOffset, SpritePixel
<1> HIDE DEF x, y, hrev, vrev
<1>4. ASSUME NEW b, NEW f, NEW q, NEW i \in 0 .. 7
      PROVE  /\ W(b, f, q)[1] = 32 * f + 16 * q + b
             /\ W(b, f, q)[2][i] = <<Shown(x, b, Mirrored(f - y, vrev), 2, hrev, i),
                                     Shown(x, b, Mirrored(f - y, vrev), q, hrev, i)>>
      BY DEF Written, ShownByte
<1> HIDE DEF W
<1>5. ASSUME NEW p \in OnScreen, NEW q \in {0, 1}
      PROVE  \E w \in out : w[1] = PixelOffset(p, q) /\ w[2][p[1] % 8] = SpritePixel(p, q)
  <2> DEFINE c == p[1]
  <2> DEFINE f == p[2]
  <2> DEFINE b == c \div 8
  <2> DEFINE i == c % 8
  <2> DEFINE r == Mirrored(f - y, vrev)
  <2>1. c \in (x .. x + 7) \cap (0 .. 127) /\ f \in BoxRows(y)
        BY <1>3
  <2>8. /\ PixelOffset(p, q) = 32 * f + 16 * q + b
        /\ SpritePixel(p, q) = << <<"pat", r, 2, Mirrored(c - x, hrev)>>, <<"pat", r, q, Mirrored(c - x, hrev)>> >>
        BY <1>7
  <2> HIDE DEF c, f
  <2>2. b \in Columns(x) /\ i \in 0 .. 7 /\ 8 * b + i = c
        BY <1>1, <2>1, ColumnWritten
  <2>5. x <= 8 * b + i /\ 8 * b + i <= x + 7
        BY <1>1, <2>1, <2>2
  <2>9. c % 8 = i
        OBVIOUS
  <2> HIDE DEF b, i
  <2>3. W(b, f, q) \in out
        BY <1>2, <2>1, <2>2
  <2>4. W(b, f, q)[1] = PixelOffset(p, q)
        BY <1>4, <2>2, <2>8
  <2>6. ASSUME NEW k
        PROVE  Shown(x, b, r, k, hrev, i) = <<"pat", r, k, Mirrored(c - x, hrev)>>
    <3> DEFINE z == 8 * b + i
    <3>1. Shown(x, b, r, k, hrev, i) = <<"pat", r, k, Mirrored(z - x, hrev)>>
      <4> HIDE DEF r
      <4>1. x <= z /\ z <= x + 7
            BY <2>5
      <4> QED BY <4>1 DEF Shown
    <3>2. z = c
          BY <2>2
    <3> HIDE DEF z
    <3> QED BY <3>1, <3>2
  <2>7. W(b, f, q)[2][i] = SpritePixel(p, q)
    <3>1. W(b, f, q)[2][i] = <<Shown(x, b, r, 2, hrev, i), Shown(x, b, r, q, hrev, i)>>
          BY <1>4, <2>2
    <3> HIDE DEF r
    <3> QED BY <2>6, <2>8, <3>1
  <2> QED BY <2>3, <2>4, <2>7, <2>9 DEF c
<1>6. ASSUME NEW w \in out, NEW i \in 0 .. 7
      PROVE  w[2][i] = <<One, Zero>>
             \/ \E p \in OnScreen, q \in {0, 1} : w[1] = PixelOffset(p, q) /\ p[1] % 8 = i
  <2>1. PICK b \in Columns(x), f \in BoxRows(y), q \in {0, 1} : w = W(b, f, q)
        BY <1>2
  <2>2. CASE x <= 8 * b + i /\ 8 * b + i <= x + 7
    <3> DEFINE p == <<8 * b + i, f>>
    <3>1. /\ b \in Int /\ 8 * b + i \in (x .. x + 7) \cap (0 .. 127)
          /\ (8 * b + i) \div 8 = b /\ (8 * b + i) % 8 = i
      <4>1. InBox(x, b, i)
            BY <2>2 DEF InBox
      <4> QED BY <1>1, <4>1, BitOnScreen, SMTT(30)
    <3>2. p \in OnScreen /\ p[1] % 8 = i
          BY <1>3, <3>1
    <3>3. w[1] = PixelOffset(p, q)
      <4>1. w[1] = 32 * f + 16 * q + b
            BY <1>4, <2>1
      <4>2. p[2] = f /\ p[1] \div 8 = b
            BY <3>1
      <4> HIDE DEF p
      <4> QED BY <1>7, <4>1, <4>2
    <3> HIDE DEF p
    <3> QED BY <3>2, <3>3
  <2>3. CASE ~(x <= 8 * b + i /\ 8 * b + i <= x + 7)
    <3>1. q # 2
          OBVIOUS
    <3>2. /\ Shown(x, b, Mirrored(f - y, vrev), 2, hrev, i) = One
          /\ Shown(x, b, Mirrored(f - y, vrev), q, hrev, i) = Zero
          BY <2>3, <3>1 DEF Shown
    <3>3. w[2][i] = <<Shown(x, b, Mirrored(f - y, vrev), 2, hrev, i),
                      Shown(x, b, Mirrored(f - y, vrev), q, hrev, i)>>
          BY <1>4, <2>1
    <3> QED BY <3>2, <3>3
  <2> QED BY <2>2, <2>3
<1> QED BY <1>5, <1>6 DEF SpriteFillsItsBox

\* A row drawn of line l shows that line.
LEMMA PlaneShown ==
    /\ job \in PlaneJob \union LineJob /\ row \in Int
    /\ \/ out = RasterCopy(job.x, LineEnd((job.y + row - 1) % Lines))
       \/ out = RasterMerge(job.x, LineEnd((job.y + row - 1) % Lines))
    => RowShowsPlane
<1> DEFINE l == (job.y + row - 1) % Lines
<1> SUFFICES ASSUME job \in PlaneJob \union LineJob, row \in Int,
                    out = RasterCopy(job.x, LineEnd(l)) \/ out = RasterMerge(job.x, LineEnd(l))
             PROVE  RowShowsPlane
    OBVIOUS
<1>1. job.x \in Int /\ job.y + row - 1 \in Int
  <2>1. job.kind \notin {"sprite", "char"}
        BY DEF PlaneJob, LineJob
  <2>2. job.x \in Int /\ job.y \in Int
        BY <2>1, JobKinds
  <2> QED BY <2>2
<1>2. l \in Int
      BY <1>1, RasterAssumption, NextRound
<1>3. RowShowsPlane <=>
        (job.kind \notin {"sprite", "char"} /\ row > 0 =>
          \A q \in DOMAIN out, n \in 0 .. 3, i \in Bits : out[q][n][i] = Pixel(l, q - 1, job.x, n, i))
      BY DEF RowShowsPlane, Pixel
<1> HIDE DEF l
<1>4. \A q \in DOMAIN out, n \in 0 .. 3, i \in Bits : out[q][n][i] = Pixel(l, q - 1, job.x, n, i)
  <2>1. DrawnOf(out, job.x, l)
        BY DEF DrawnOf
  <2> QED BY <1>1, <1>2, <2>1, LineDrawn
<1> QED BY <1>3, <1>4

-----------------------------------------------------------------------------
\* The invariant: ed ends the line the next row is to show.
RasterInv ==
    /\ job \in PlaneJob \union LineJob \union SpriteJob \union CharJob
    /\ row \in Nat
    /\ job.kind \in {"copy", "merge"} => ed = LineEnd((job.y + row) % Lines)
    /\ job.kind \in {"copyline", "mergeline"} => ed = LineEnd(job.y % Lines)
    /\ RowShowsPlane /\ SpriteFillsItsBox /\ CharacterInPlace

\* What is drawn is what was to be drawn, and a plane is drawn from the line
\* its row of the screen is to show (write_bg0..1_line, sp_write_1c, bg_write_1c).
THEOREM RasterInductive == RasterSpec => []RasterInv
<1>1. RasterInit => RasterInv
  <2> SUFFICES ASSUME RasterInit PROVE RasterInv
      OBVIOUS
  <2>1. job \in PlaneJob \union LineJob \union SpriteJob \union CharJob /\ row = 0
        BY DEF RasterInit
  <2>2. job.kind \notin {"sprite", "char"} => job.y \in Int /\ job.y + row = job.y
        BY <2>1, JobKinds
  <2>3. job.kind \notin {"sprite", "char"} => ed = LineEnd(job.y % Lines)
        BY DEF RasterInit
  <2>4. RowShowsPlane /\ SpriteFillsItsBox /\ CharacterInPlace
        BY <2>1 DEF RowShowsPlane, SpriteFillsItsBox, CharacterInPlace
  <2> QED BY <2>1, <2>2, <2>3, <2>4 DEF RasterInv
<1>2. RasterInv /\ [RasterNext]_rasterVars => RasterInv'
  <2> SUFFICES ASSUME RasterInv, [RasterNext]_rasterVars PROVE RasterInv'
      OBVIOUS
  <2>0. job \in PlaneJob \union LineJob \union SpriteJob \union CharJob /\ row \in Nat
        BY DEF RasterInv
  <2>1. CASE DrawRow
    <3>1. /\ job.kind \in {"copy", "merge"} /\ job.y \in Int
          /\ job' = job /\ row' = row + 1 /\ ed' = NextLine(ed)
          /\ out' = RasterCopy(job.x, ed) \/ out' = RasterMerge(job.x, ed)
          /\ ed = LineEnd((job.y + row) % Lines)
          BY <2>0, <2>1, JobKinds DEF DrawRow, RasterInv
    <3>2. job \in PlaneJob \union LineJob
          BY <2>0, <3>1 DEF SpriteJob, CharJob
    <3>3. /\ job.y + row \in Int /\ (job.y + row) + 1 = job'.y + row'
          /\ job'.y + row' - 1 = job.y + row
          BY <2>0, <3>1
    <3>4. ed' = LineEnd((job'.y + row') % Lines)
          BY <3>1, <3>3, NextLineFollows
    <3>5. RowShowsPlane'
      <4>1. (/\ job \in PlaneJob \union LineJob /\ row \in Int
             /\ \/ out = RasterCopy(job.x, LineEnd((job.y + row - 1) % Lines))
                \/ out = RasterMerge(job.x, LineEnd((job.y + row - 1) % Lines)))'
            BY <2>0, <3>1, <3>2, <3>3
      <4> QED BY <4>1, PlaneShown, PTL
    <3>6. SpriteFillsItsBox' /\ CharacterInPlace'
          BY <3>1 DEF SpriteFillsItsBox, CharacterInPlace
    <3>7. row' \in Nat
          BY <2>0, <3>1
    <3> QED BY <2>0, <3>1, <3>4, <3>5, <3>6, <3>7 DEF RasterInv
  <2>2. CASE DrawScrolledRow
    <3>1. /\ job.kind \in {"copyline", "mergeline"} /\ job.y \in Int
          /\ job' = job /\ row' = 1 /\ ed' = ed
          /\ out' = RasterCopy(job.x, ed) \/ out' = RasterMerge(job.x, ed)
          /\ ed = LineEnd(job.y % Lines)
          BY <2>0, <2>2, JobKinds DEF DrawScrolledRow, RasterInv
    <3>2. job \in PlaneJob \union LineJob
          BY <2>0, <3>1 DEF SpriteJob, CharJob
    <3>3. RowShowsPlane'
      <4>1. job'.y + row' - 1 = job.y
            BY <3>1
      <4>2. (/\ job \in PlaneJob \union LineJob /\ row \in Int
             /\ \/ out = RasterCopy(job.x, LineEnd((job.y + row - 1) % Lines))
                \/ out = RasterMerge(job.x, LineEnd((job.y + row - 1) % Lines)))'
            BY <3>1, <3>2, <4>1
      <4> QED BY <4>2, PlaneShown, PTL
    <3>4. SpriteFillsItsBox' /\ CharacterInPlace'
          BY <3>1 DEF SpriteFillsItsBox, CharacterInPlace
    <3> QED BY <2>0, <3>1, <3>3, <3>4 DEF RasterInv
  <2>3. CASE DrawSprite
    <3>1. /\ job.kind = "sprite" /\ job' = job /\ row' = 1
          /\ out' = SpriteBytes(job.x, job.y, job.hrev, job.vrev)
          BY <2>3 DEF DrawSprite
    <3>2. job \in SpriteJob
          BY <2>0, <3>1 DEF PlaneJob, LineJob, CharJob
    <3>3. SpriteFillsItsBox'
      <4>1. (job \in SpriteJob /\ out = SpriteBytes(job.x, job.y, job.hrev, job.vrev))'
            BY <3>1, <3>2
      <4> QED BY <4>1, BoxFilled, PTL
    <3>4. RowShowsPlane' /\ CharacterInPlace'
          BY <3>1 DEF RowShowsPlane, CharacterInPlace
    <3> QED BY <2>0, <3>1, <3>3, <3>4 DEF RasterInv
  <2>4. CASE DrawChar
    <3>1. /\ job.kind = "char" /\ job' = job /\ row' = 1
          /\ out' = CharBytes(job.x, job.y, job.hrev, job.vrev)
          BY <2>4 DEF DrawChar
    <3>2. job.x \in Int /\ job.y \in Int /\ job.vrev \in BOOLEAN
          BY <2>0, <3>1, JobKinds
    <3>3. CharBytes(job.x, job.y, job.hrev, job.vrev) =
            { <<(8 * job.y + l) * 96 + 32 * q + job.x, PatternByte(Mirrored(l, job.vrev), q, job.hrev)>> :
                l \in 0 .. 7, q \in 0 .. 2 }
          BY <3>2, CharDrawn
    <3>4. CharacterInPlace'
          BY <3>1, <3>3 DEF CharacterInPlace
    <3>5. RowShowsPlane' /\ SpriteFillsItsBox'
          BY <3>1 DEF RowShowsPlane, SpriteFillsItsBox
    <3> QED BY <2>0, <3>1, <3>4, <3>5 DEF RasterInv
  <2>5. CASE UNCHANGED rasterVars
    <3>1. job' = job /\ row' = row /\ ed' = ed /\ out' = out
          BY <2>5 DEF rasterVars
    <3>2. RowShowsPlane /\ SpriteFillsItsBox /\ CharacterInPlace
          BY DEF RasterInv
    <3>3. RowShowsPlane'
          BY <3>1, <3>2 DEF RowShowsPlane
    <3>4. SpriteFillsItsBox'
      <4>1. OnScreen' = OnScreen
            BY <3>1 DEF OnScreen
      <4>2. ASSUME NEW p, NEW q PROVE SpritePixel(p, q)' = SpritePixel(p, q)
            BY <3>1 DEF SpritePixel
      <4> QED BY <3>1, <3>2, <4>1, <4>2 DEF SpriteFillsItsBox
    <3>5. CharacterInPlace'
          BY <3>1, <3>2 DEF CharacterInPlace
    <3> QED BY <3>1, <3>3, <3>4, <3>5 DEF RasterInv
  <2> QED BY <2>1, <2>2, <2>3, <2>4, <2>5 DEF RasterNext
<1> QED BY <1>1, <1>2, PTL DEF RasterSpec

\* The four raster functions show 128 pixels of the line a row stands for, from
\* the scroll position on and round the plane's edges, whatever the position.
THEOREM RowsShowPlane == RasterSpec => []RowShowsPlane
<1>1. RasterInv => RowShowsPlane
      BY DEF RasterInv
<1> QED BY <1>1, RasterInductive, PTL

\* A sprite is drawn pixel by pixel where it is on the screen, turned as it is
\* to be, and nowhere else, at every position a signed byte can name.
THEOREM SpritesFillTheirBoxes == RasterSpec => []SpriteFillsItsBox
<1>1. RasterInv => SpriteFillsItsBox
      BY DEF RasterInv
<1> QED BY <1>1, RasterInductive, PTL

\* A character's rows lie on its lines, in order or turned over.
THEOREM CharactersInPlace == RasterSpec => []CharacterInPlace
<1>1. RasterInv => CharacterInPlace
      BY DEF RasterInv
<1> QED BY <1>1, RasterInductive, PTL
=============================================================================
