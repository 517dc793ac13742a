--------------------------------- MODULE Menu ---------------------------------
(***************************************************************************)
(* The launcher src/app/menu2: getdir of launch.c lists the programs on    *)
(* the flash file system, and OS_Main of os.c shows them as a grid of      *)
(* icons, three to a row and two rows at a time, moves the cursor and      *)
(* starts the program under it.  Meanwhile a PC may change the files over  *)
(* USB.  The screen is abstracted to whose icon stands where, the place of *)
(* the cursor and the name beside it, and the arrows for more rows.        *)
(***************************************************************************)
EXTENDS SequencesExt, FiniteSetsExt, SeqLoops

CONSTANTS FMAX,        \* entries of files[]
          PRESSED,     \* bound on the buttons pressed at once
          Disks        \* directories the PC may leave, as sequences of files

\* A file is a record of its name and its kind.
Pexes == {"pex", "plain"}              \* a program with an icon, and one without
Kinds == Pexes \union {"startup", "other", "short"}
ASSUME MenuAssumption ==
    /\ FMAX \in Nat \ {0} /\ PRESSED \in 1 .. 6
    /\ \A d \in Disks : /\ d \in Seq({d[k] : k \in DOMAIN d})
                        /\ \A k \in DOMAIN d : d[k].kind \in Kinds
                        /\ \A j, k \in DOMAIN d : d[j].name = d[k].name => j = k

VARIABLES disk,        \* the directory, in the order FindNext gives it
          files,       \* files[]: name and iconf; entries past filec keep what they held
          filec,
          px, py,      \* os.px, os.py: the cursor
          frame,       \* os.frame: the top row on the screen
          pos,         \* the entry whose name is shown and which A starts
          inMain,      \* Sequence = OS_MAIN
          screen,
          started,     \* the name that the last call handed to pceAppExecFile
          stray        \* history: renewpos has moved a cursor that was out of range,
                       \* and no direction, which sets pos, has been pressed since

menuVars == <<disk, files, filec, px, py, frame, pos, inMain, screen, started, stray>>

NoName == "none"
FilesEntry(name, iconf) == [name |-> name, iconf |-> iconf]
Directions == {"LF", "RI", "UP", "DN"}
TRG == Directions \union {"A", "B+SELECT"}
Pads == UNION {kSubset(k, TRG) : k \in 1 .. PRESSED}

MenuInit ==
    /\ disk \in Disks
    /\ files = [i \in 0 .. FMAX - 1 |-> FilesEntry(NoName, FALSE)]
    /\ filec = 0
    /\ px = 0 /\ py = 0 /\ frame = 0 /\ pos = 0
    /\ inMain = FALSE
    /\ screen = <<>> /\ started = NoName
    /\ stray = FALSE

\* nameck and getfh: programs other than the menu itself whose header is there.
Listed(d) == Selected(d, {k \in DOMAIN d : d[k].kind \in Pexes})

\* filec after getdir, and files[].
Count(d) == LET num == Len(Listed(d)) IN IF num > FMAX THEN FMAX ELSE num
getdir(d) == LET listed == Listed(d)
                 num == Count(d)
             IN  [i \in 0 .. FMAX - 1 |->
                    IF i < num THEN FilesEntry(listed[i + 1].name, listed[i + 1].kind = "pex") ELSE files[i]]

At(c) == c.px + 3 * c.py

\* renewpos' check that the cursor is in range.
InRange(c, num) ==
    IF At(c) > num
    THEN [c EXCEPT !.px = num % 3, !.py = num \div 3,
                   !.frame = IF num \div 3 <= 0 THEN 0 ELSE num \div 3 - 1]
    ELSE c

\* The row of the cursor has three files.
FullRow(c, num) == (num + 2) \div 3 - 1 > c.py \/ num % 3 = 0

Left(c, num) ==
    LET x == IF FullRow(c, num) THEN (IF c.px = 0 THEN 2 ELSE c.px - 1)
             ELSE IF num % 3 = 1 THEN 0
             ELSE IF c.px = 0 THEN 1 ELSE 0
    IN  [c EXCEPT !.px = x, !.pos = x + 3 * c.py]

Right(c, num) ==
    LET x == IF FullRow(c, num) THEN (IF c.px = 2 THEN 0 ELSE c.px + 1)
             ELSE IF num % 3 = 1 THEN 0
             ELSE IF c.px = 0 THEN 1 ELSE 0
    IN  [c EXCEPT !.px = x, !.pos = x + 3 * c.py]

\* Mutated: pos is left to the next move.
Up_KeepsPos(c) ==
    IF c.py = 0 THEN c ELSE [c EXCEPT !.py = @ - 1, !.frame = c.py - 1]

Up(c) ==
    LET y == IF c.py > 0 THEN c.py - 1 ELSE c.py
    IN  [c EXCEPT !.py = y, !.frame = IF c.py > 0 THEN y ELSE @, !.pos = c.px + 3 * y]

\* In the last row the cursor may have to move to the last file.
Down(c, num) ==
    LET y == c.py + 1
        x == IF 3 * y + c.px < num THEN c.px ELSE (num + 2) % 3
    IN  IF 3 * y < num
        THEN [c EXCEPT !.px = x, !.py = y, !.frame = IF y > 1 THEN y - 1 ELSE @,
                       !.pos = x + 3 * y]
        ELSE [c EXCEPT !.pos = At(c)]

\* What is read as files[p]: past the array, some other word of the program.
NameAt(fs, p) == IF p \in DOMAIN fs THEN fs[p].name ELSE "other memory"

\* renewpos: the directions in the order the code tests them.
renewpos(c, dir, num) ==
    LET c0 == InRange(c, num)
        c1 == IF "LF" \in dir THEN Left(c0, num) ELSE c0
        c2 == IF "RI" \in dir THEN Right(c1, num) ELSE c1
        c3 == IF "UP" \in dir THEN Up(c2) ELSE c2
    IN  IF "DN" \in dir THEN Down(c3, num) ELSE c3

\* A program that had no icon when the directory was read is shown by the default
\* one.  For the others geticondata reads the icon of the file that has the name now;
\* if there is none, the buffer keeps what was in it.
IconOf(d, f) ==
    IF ~f.iconf THEN "default_img"
    ELSE IF \E k \in DOMAIN d : d[k].name = f.name /\ d[k].kind = "pex" THEN f.name
    ELSE "left in buff"

\* draw_frame: two rows of icons from the top row on and the upper edge of a
\* third, the corners about the selected one, its caption and the arrows.
draw_frame(c, fs, num, d) ==
    [icon    |-> [at \in 0 .. 8 |-> LET i == 3 * c.frame + at
                                    IN  IF i < num THEN IconOf(d, fs[i]) ELSE NoName],
     corners |-> c.px + 3 * (c.py - c.frame),
     caption |-> NameAt(fs, c.pos),
     up      |-> c.frame # 0,
     down    |-> ~(num <= 3 * c.frame + 6 \/ 3 * (c.py + 1) >= num)]

Cursor == [px |-> px, py |-> py, frame |-> frame, pos |-> pos]

SetCursor(c) == px' = c.px /\ py' = c.py /\ frame' = c.frame /\ pos' = c.pos

\* The first call: OS_INIT.  The directory is read whatever is pressed.
FirstProc ==
    LET c == [px |-> 0, py |-> 0, frame |-> 0, pos |-> 0]
    IN  /\ ~inMain
        /\ inMain' = TRUE
        /\ filec' = Count(disk)
        /\ files' = getdir(disk)
        /\ SetCursor(c)
        /\ screen' = draw_frame(c, files', filec', disk)
        /\ UNCHANGED <<disk, started, stray>>

\* The rest of a call with a button pressed, after getdir: renewpos and draw_frame.
OS_Main(pad) ==
    LET c == renewpos(Cursor, pad, filec')
    IN  /\ SetCursor(c)
        /\ screen' = draw_frame(c, files', filec', disk')
        /\ started' = IF "A" \in pad THEN NameAt(files', c.pos) ELSE NoName
        /\ stray' = (pad \intersect Directions = {} /\ (stray \/ At(Cursor) > filec'))

pceAppProc(pad) ==
    /\ inMain /\ "B+SELECT" \notin pad
    /\ filec' = Count(disk)
    /\ files' = getdir(disk)
    /\ UNCHANGED <<disk, inMain>>
    /\ OS_Main(pad)

\* The PC deletes files and copies others, to any place of the directory.
PcChanges ==
    /\ disk' \in Disks
    /\ UNCHANGED <<files, filec, px, py, frame, pos, inMain, screen, started, stray>>

\* SELECT and B: the console sleeps between getdir and OS_Main, and when it wakes
\* the files may be others than the list has.
go_standby(pad) ==
    /\ inMain /\ "B+SELECT" \in pad
    /\ filec' = Count(disk)
    /\ files' = getdir(disk)
    /\ disk' \in Disks
    /\ OS_Main(pad)
    /\ UNCHANGED inMain

MenuNext ==
    \/ FirstProc \/ PcChanges
    \/ \E pad \in Pads : pceAppProc(pad) \/ go_standby(pad)
MenuSpec == MenuInit /\ [][MenuNext]_menuVars

-----------------------------------------------------------------------------
OnFile == /\ px \in 0 .. 2 /\ px + 3 * py < filec
          /\ pos = px + 3 * py

\* renewpos' comment promises a check of the position, "the processing when it
\* is out of range": so the cursor is on a file also when a deletion has made the
\* list, which is read just before the check, shorter.
CursorInRange == inMain /\ filec > 0 => OnFile

\* Pressing A alone reads the list anew and starts the program of it that is under
\* the cursor, one on the disk, if the cursor is on the list and was not moved by
\* renewpos' check, which leaves pos behind; and wherever programs are out of sight an
\* arrow says so.  If the list is still the one on the screen, that program is the
\* one whose name is shown, and the corners stand about its icon (or what was left
\* in the buffer, if its file was away while the screen was drawn), in a row that is on
\* the screen as a whole.  If the PC has changed the files since, it may be another
\* program than the one shown: that is what the code does.
StartsShownProgram ==
    [][pceAppProc({"A"}) /\ ~stray /\ At(Cursor) < filec' =>
          LET is == CHOOSE k \in DOMAIN disk : disk[k].name = started'
              Sees(k) == k - 1 \in 3 * frame' .. 3 * frame' + 5
          IN  /\ started' = files'[px' + 3 * py'].name
              /\ \E k \in DOMAIN disk : disk[k].name = started' /\ disk[k].kind \in Pexes
              /\ \A k \in DOMAIN Listed(disk) : k <= FMAX /\ ~Sees(k) =>
                    IF k <= 3 * frame' THEN screen'.up ELSE screen'.down
              /\ files' = files /\ filec' = filec =>
                    /\ started' = screen.caption
                    /\ screen.corners \in 0 .. 5
                    /\ \/ screen.icon[screen.corners] = IF disk[is].kind = "pex" THEN started' ELSE "default_img"
                       \/ screen.icon[screen.corners] = "left in buff"]_menuVars
=============================================================================
