------------------------------- MODULE FpkArchive -------------------------------
(***************************************************************************)
(* The archive of the music player (app/fpkplay): fpk.c reads it through a *)
(* cache of one sector, decode.c unpacks a song, fpkplay.c chooses one by  *)
(* the buttons and shows what it plays.  (How the driver is stopped and    *)
(* started meanwhile is Fpkplay's subject.)                                *)
(*                                                                         *)
(* A byte of the archive is a number or, where the program takes it apart, *)
(* a row of bits or a pair; header and entries are bytes that know of what *)
(* they are which byte.                                                    *)
(***************************************************************************)
EXTENDS Integers, FiniteSetsExt, SeqLoops

CONSTANTS
  SCT,         \* bytes in a sector (4096)
  N, F,        \* the ring of the decoder and its longest copy (4096, 18)
  FLAGS,       \* bits in a flag byte (8)
  HDR, ENT,    \* sizes of the header and of an entry (8, 24)
  BUFFER,      \* bytes in seq_buffer and fpk_buffer (65536)
  INDEX_CAP,   \* bound on the index when there is no file
  Songs,       \* archives: sequences of files [filename, pmd, items, size], or the empty one
  PadSets      \* sets of buttons triggered at once

VARIABLES
  archive,
  signature,   \* what the archive begins with: "KAPF", or another kind's
  fpk,         \* the archive's bytes
  app          \* all of fpkplay's and fpk.c's static variables

fpkVars == <<archive, signature, fpk, app>>

-----------------------------------------------------------------------------
(***************************************************************************)
(* What fpack -e writes: header, entries, packed files, or the files as    *)
(* they are in an archive of another kind.  An item is a byte [ch] or a    *)
(* copy [off, len] of the ring.                                            *)
(***************************************************************************)
IsCopy(item) == "off" \in DOMAIN item

Flags(items, k) == [b \in 0 .. FLAGS - 1 |-> k + b \in DOMAIN items /\ ~IsCopy(items[k + b])]
Bytes(item) == IF IsCopy(item) THEN <<item.off % (N \div 2), <<item.off \div (N \div 2), item.len - 3>>>>
               ELSE <<item.ch>>
Group(items, k) == (IF (k - 1) % FLAGS = 0 THEN <<Flags(items, k)>> ELSE <<>>) \o Bytes(items[k])
Packed(file) == <<file.size>> \o Joined([k \in DOMAIN file.items |-> Group(file.items, k)])

Part(x, n) == [k \in 1 .. n |-> [of |-> x, byte |-> k]]

\* Where the bytes of an item come from: itself, or cells of the ring.
Sources(item) == IF IsCopy(item) THEN [i \in 1 .. item.len |-> [cell |-> (item.off + i - 1) % N]] ELSE <<item>>

\* The last of n bytes that is put into a cell of the ring, 0 if none is.
Latest(n, cell) == LET put == {j \in 1 .. n : (N - F + j - 1) % N = cell} IN IF put = {} THEN 0 ELSE Max(put)

\* What the bytes of a file are: a copy takes each from the last place where
\* the ring's cell was written, or finds the 0 it began with.
Plain(file) ==
  LET sources == Joined([k \in DOMAIN file.items |-> Sources(file.items[k])])
      byte[j \in 0 .. file.size] ==
        IF j = 0 THEN 0 ELSE IF "ch" \in DOMAIN sources[j] THEN sources[j].ch ELSE byte[Latest(j - 1, sources[j].cell)]
  IN  [j \in 1 .. file.size |-> byte[j]]

FileBytes(file) == IF signature = "KAPF" THEN Packed(file) ELSE Plain(file)
Entry(i)   == [filename |-> archive[i].filename, pmd |-> archive[i].pmd, size |-> Len(FileBytes(archive[i])),
               offset |-> HDR + Len(archive) * ENT + Total([k \in 1 .. i - 1 |-> Len(FileBytes(archive[k]))])]
Image      == Part([signature |-> signature, files_count |-> Len(archive)], HDR)
              \o Joined([i \in DOMAIN archive |-> Part(Entry(i), ENT)])
              \o Joined([i \in DOMAIN archive |-> FileBytes(archive[i])])

\* There is an archive, and of the kind that the player takes.
Supported == archive # <<>> /\ signature = "KAPF"

\* An archive: files of different names, none bigger than the buffers; a size
\* tells how many of the bytes its items stand for a file has.
IsItem(item) == IF IsCopy(item) THEN item.off \in 0 .. N - 1 /\ item.len \in Nat /\ item.len >= 3
                ELSE "ch" \in DOMAIN item
IsFile(file) ==
  /\ file.items \in Seq({file.items[k] : k \in DOMAIN file.items}) /\ \A k \in DOMAIN file.items : IsItem(file.items[k])
  /\ file.pmd \in BOOLEAN /\ file.size \in 0 .. BUFFER /\ Len(Packed(file)) <= BUFFER
  /\ file.size <= Len(Joined([k \in DOMAIN file.items |-> Sources(file.items[k])]))
ASSUME FpkAssumption ==
  /\ {SCT, N, FLAGS, HDR, ENT} \subseteq Nat \ {0} /\ N % 2 = 0 /\ F \in 1 .. N /\ BUFFER \in Nat
  /\ \A files \in Songs :
        /\ files \in Seq({files[i] : i \in DOMAIN files}) /\ \A i \in DOMAIN files : IsFile(files[i])
        /\ \A i, j \in DOMAIN files : files[i].filename = files[j].filename => i = j

-----------------------------------------------------------------------------
(***************************************************************************)
(* fpk.c                                                                   *)
(***************************************************************************)
\* pceFileReadSct: a sector of the file; the kernel refuses one outside, and
\* what lies behind the end is unknown to fpack.
ReadSct(a, sct) ==
  IF a.open /\ sct >= 0 /\ sct * SCT < Len(fpk)
  THEN [k \in 1 .. SCT |-> IF sct * SCT + k \in DOMAIN fpk THEN fpk[sct * SCT + k] ELSE "pad"]
  ELSE a.cache

\* A pass of fpkFileReadPos' loop: up to the sector's end, then from the next
\* one's beginning.
ReadOn(s) ==
  LET cache == IF s.g_sct # s.sct THEN ReadSct(s, s.sct) ELSE s.cache
      len   == Min({SCT - s.pos, s.rem})
  IN  IF s.rem = 0 THEN s
      ELSE [s EXCEPT !.cache = cache, !.g_sct = s.sct, !.sct = @ + 1, !.pos = 0, !.rem = @ - len,
                     !.buf = @ \o SubSeq(cache, s.pos + 1, s.pos + len)]

fpkFileReadPos(a, pos, size) ==
  LET first == [sct |-> pos \div SCT, pos |-> pos % SCT, rem |-> size, buf |-> <<>>,
                g_sct |-> a.g_sct, cache |-> a.cache, open |-> a.open]
      loop[i \in 0 .. size] == IF i = 0 THEN first ELSE ReadOn(loop[i - 1])
  IN  loop[size]

Reads(a, r) == [a EXCEPT !.g_sct = r.g_sct, !.cache = r.cache]
IsWhole(bytes) == \A k \in DOMAIN bytes : bytes[k] \in [of : {bytes[1].of}, byte : {k}]

\* What an entry is read to be where there is none.
NoEntry == [filename |-> "", pmd |-> FALSE, offset |-> 0, size |-> 0]

fpkGetFileInfoN(a, index, field) ==
  LET r == fpkFileReadPos(a, HDR + index * ENT, ENT)
      entry == IF index + 1 \in DOMAIN archive /\ IsWhole(r.buf) THEN r.buf[1].of ELSE NoEntry
  IN  [Reads(a, r) EXCEPT ![field] = entry]

Over(buffer, bytes) == [k \in DOMAIN buffer |-> IF k \in DOMAIN bytes THEN bytes[k] ELSE buffer[k]]

fpkExtractToBuffer(a, entry) ==
  LET r == fpkFileReadPos(a, entry.offset, entry.size)
  IN  [Reads(a, r) EXCEPT !.fpk_buffer = Over(@, r.buf)]

-----------------------------------------------------------------------------
(***************************************************************************)
(* decode.c                                                                *)
(***************************************************************************)
Put(s, c) == [s EXCEPT !.ring[s.r] = c, !.out = Append(@, c), !.r = (@ + 1) % N]

\* A pass of the loop over the bytes of a copy.
CopyOne(s, cell, max) == IF Len(s.out) < max THEN Put(s, s.ring[cell % N]) ELSE s
Copy(s, off, len, max) ==
  LET loop[i \in 0 .. len] == IF i = 0 THEN s ELSE CopyOne(loop[i - 1], off + i - 1, max) IN loop[len]

\* A pass of the loop over the items.
Flagged(p, s) == IF s.flagCount = 0 THEN [s EXCEPT !.flags = p[s.at], !.flagCount = FLAGS, !.at = @ + 1] ELSE s
Item(p, s, max) ==
  IF s.flags[FLAGS - s.flagCount] THEN Put([s EXCEPT !.at = @ + 1], p[s.at])
  ELSE Copy([s EXCEPT !.at = @ + 2], p[s.at] + p[s.at + 1][1] * (N \div 2), p[s.at + 1][2] + 3, max)
ItemOn(p, srcSize, max, s) ==
  IF Len(s.out) < max /\ s.at <= srcSize
  THEN LET t == Item(p, Flagged(p, s), max) IN [t EXCEPT !.flagCount = @ - 1] ELSE s

Decode(pSrc, srcSize, destSize, r) ==
  LET max == Min({destSize, pSrc[1]})
      first == [at |-> 2, r |-> r, flags |-> [b \in 0 .. FLAGS - 1 |-> FALSE], flagCount |-> 0,
                out |-> <<>>, ring |-> [k \in 0 .. N - 1 |-> 0]]
      loop[i \in 0 .. srcSize] == IF i = 0 THEN first ELSE ItemOn(pSrc, srcSize, max, loop[i - 1])
  IN  loop[srcSize].out

\* Mutated: the ring is filled from its first cell on.
decodeLZSS_FromZero(pSrc, srcSize, destSize) == Decode(pSrc, srcSize, destSize, 0)

decodeLZSS(pSrc, srcSize, destSize) == Decode(pSrc, srcSize, destSize, N - F)

-----------------------------------------------------------------------------
(***************************************************************************)
(* fpkplay.c.  The screen is what is written on it.                        *)
(***************************************************************************)
Cls(a)             == [a EXCEPT !.screen = [seek |-> "", playing |-> ""], !.g_fDraw = TRUE]
PrintSelection(a)  == [a EXCEPT !.screen.seek = a.selection.filename, !.g_fDraw = TRUE]
ShowNowPlaying(a)  == PrintSelection([Cls(a) EXCEPT !.screen.playing = a.playing.filename])
Refresh(a)         == IF a.g_fDraw /\ ~a.g_fHold THEN [a EXCEPT !.lcd = a.screen, !.g_fDraw = FALSE] ELSE a
musStopImmediately(a) == [a EXCEPT !.sounds = FALSE]

\* The archive's data in seq_buffer: of one that was not taken it is not packed, and
\* what the decoder makes of it is noise.
SongOf(a) == IF Supported THEN decodeLZSS(a.fpk_buffer, a.playing.size, BUFFER) ELSE [k \in 1 .. BUFFER |-> "noise"]

\* A file of another kind leaves the player silent, and the screen as it was.
fpkPlayMusic(a, index) ==
  LET s == fpkGetFileInfoN(musStopImmediately(a), index, "playing")
      x == fpkExtractToBuffer(s, s.playing)
      d == [x EXCEPT !.seq_buffer = Over(@, SongOf(x)), !.sounds = TRUE]
  IN  IF s.playing.pmd THEN ShowNowPlaying(d) ELSE s

Select(a, index) == PrintSelection(fpkGetFileInfoN([a EXCEPT !.index = index], index, "selection"))

\* files_count is unsigned: the index -1 of an empty archive is its end, too.
Final(a) == a.files_count - 1
LeftButton(a)  == Select(a, IF a.index > 0 THEN a.index - 1 ELSE Final(a))
RightButton(a) == Select(a, IF a.files_count = 0 THEN a.index + 1 ELSE IF a.index < Final(a) THEN a.index + 1 ELSE 0)

StartButton(a) == [a EXCEPT !.g_fDraw = @ \/ a.g_fHold, !.g_fHold = ~@]
AButton(a)     == fpkPlayMusic(musStopImmediately(a), a.index)
BButton(a)     == PrintSelection(Cls(musStopImmediately(a)))

\* The handlers of one call in their order; on hold there is only START.
Buttons(pad, a) ==
  LET c == IF "START" \in pad THEN StartButton(a) ELSE a
      d == IF "A" \in pad THEN AButton(c) ELSE c
      e == IF "B" \in pad THEN BButton(d) ELSE d
      f == IF "LEFT" \in pad THEN LeftButton(e) ELSE e
  IN  IF c.g_fHold THEN c ELSE IF "RIGHT" \in pad THEN RightButton(f) ELSE f

Statics == [callback |-> "Init", open |-> FALSE, files_count |-> 0, g_sct |-> -1, cache |-> [k \in 1 .. SCT |-> 0], index |-> -1,
         selection |-> NoEntry, playing |-> NoEntry, sounds |-> FALSE,
         fpk_buffer |-> [k \in 1 .. BUFFER |-> 0], seq_buffer |-> [k \in 1 .. BUFFER |-> 0],
         screen |-> [seek |-> "", playing |-> ""], lcd |-> [seek |-> "", playing |-> ""],
         g_fDraw |-> FALSE, g_fHold |-> FALSE, error_shown |-> FALSE]

\* fpkOpenArchive: without a file the header stays 0.  If the signature is another
\* one the file is closed, but the number of files and the sector in the cache stay.
Opened(a) ==
  LET r      == fpkFileReadPos([a EXCEPT !.open = TRUE], 0, HDR)
      header == r.buf[1].of
  IN  IF archive = <<>> THEN a
      ELSE [Reads(a, r) EXCEPT !.open = (header.signature = "KAPF"), !.files_count = header.files_count]

pceAppInit ==
  /\ app.callback = "Init"
  /\ LET a == Opened(Cls(app))
         s == fpkGetFileInfoN([a EXCEPT !.index = 0], 0, "selection")
         p == fpkPlayMusic([s EXCEPT !.playing = s.selection], 0)
     IN  app' = [IF a.open /\ a.files_count > 0 THEN PrintSelection(ShowNowPlaying(p)) ELSE a EXCEPT !.callback = "Proc"]
  /\ UNCHANGED <<archive, signature, fpk>>

FpkInit == archive \in Songs /\ signature \in {"KAPF", "other"} /\ fpk = Image /\ app = Statics

\* pceAppProc: the first call without an archive says so and looks at no button.
SaysSo ==
  /\ app.callback = "Proc" /\ app.index < 0 /\ ~app.error_shown
  /\ app' = [Refresh(app) EXCEPT !.error_shown = TRUE] /\ UNCHANGED <<archive, signature, fpk>>

Answers ==
  /\ app.callback = "Proc" /\ ~(app.index < 0 /\ ~app.error_shown)
  /\ \E pad \in PadSets : app' = Refresh(Buttons(pad, app))
  /\ app'.index <= INDEX_CAP
  /\ UNCHANGED <<archive, signature, fpk>>

pceAppExit ==
  /\ app.callback = "Proc"
  /\ app' = [musStopImmediately(app) EXCEPT !.open = FALSE, !.callback = "none"]
  /\ UNCHANGED <<archive, signature, fpk>>

FpkNext == pceAppInit \/ SaysSo \/ Answers \/ pceAppExit
FpkSpec == FpkInit /\ [][FpkNext]_fpkVars

-----------------------------------------------------------------------------
\* Whatever is pressed in whatever order: while music sounds, the screen says
\* which file it is, and the buffer holds that file, byte for byte as it was
\* before it was packed; the file the screen offers is the one A would play;
\* and what is on the display is the screen, unless it is yet to be drawn.  An
\* archive that is not one of fpack -e is closed again, but the buttons still play
\* from what was read of it, and what is heard then is not the file.
ShowsWhatItPlays ==
  LET song == Plain(CHOOSE f \in {archive[i] : i \in DOMAIN archive} : f.filename = app.playing.filename)
  IN  /\ app.sounds => /\ app.screen.playing = app.playing.filename
                       /\ Supported => SubSeq(app.seq_buffer, 1, Len(song)) = song
      /\ Supported /\ app.callback # "Init" => app.screen.seek = archive[app.index + 1].filename
      /\ app.lcd = app.screen \/ app.g_fDraw
=============================================================================
