# A TLA+ verification of piece-toolchain-llvm

The repository is a tool chain and run-time library for the P/ECE, a handheld
console with an EPSON S1C33209: converters between object formats, a linker
script, a packer, a C run-time, and the libraries a program is linked with —
threads, music, sprites — plus a few applications. This directory models the
parts where order, interruption, state that outlives its use or arithmetic at a
boundary decides whether the code is right, checks them with TLC on small
instances and proves the central ones with TLAPS for every value of their
constants.

Contents: [inventory](#1-inventory) ·
[modules](#2-modules-and-their-correspondence-to-the-code) ·
[runs](#3-what-the-runs-check) · [fairness](#4-fairness) ·
[proofs](#5-what-is-proved) · [findings](#6-findings) ·
[not modelled](#7-what-is-not-modelled) · [plan](#8-plan)

## 1. Inventory

### The run-time libraries

| Component | State | Operations | What is hard | What makes it correct |
|---|---|---|---|---|
| **Thread library** `tools/simple/thread.c` | saved stack pointers, slot states, sleep counters, `now_id`, `lock_flag`, `timer_flag`, `old_ct` | create, return, terminate, wait, wait_term, lock, unlock, gr_stop/cont, timer interrupt, idle thread | a 1 ms interrupt between any two instructions; a lock without levels which the library itself takes and releases; slots that are reused; a clock read only when switching | critical sections exclude; only runnable threads run; every resumed thread has a frame; the lock does not outlive its owner; round robin; ready threads run and sleeps end |
| **Application frame** `tools/simple/simple.c` | `smain_id`, `errorflag` | `pceAppInit/Proc/Exit`, `simple_error` | the OS calls the parent back every 12 ms while the children run; outside the callbacks the lock is all that keeps children off the CPU | the OS is not interrupted by children; an error reaches the screen |
| **Music functions** `tools/simple/pmdplay.c`, `pmdload.c` | `initflag`, `pmdbuff` | `pmdplay`, `pmdstop`, `pmdload` | two threads in it at once; a lock released by an inner function; a buffer the interrupt reads while a thread loads into it | playing starts; what plays is what was loaded; no score is read while half loaded |
| **Music driver, ring** `tools/muslib/mus.c` | `finish`, `blkip`, `blkop`, `waveinfo`, `wavebuff`, `runf` | `InitMusic`, `PlayMusic`, `StopMusic`, `MusicCheck`, `BuffFree` (interrupt) | producer and consumer are the same interrupt, started and stopped from the main program without a lock | a queued block stays intact and in order; a driver that is not stopped has something queued |
| **Music driver, sequencer** `tools/muslib/seq.c` | per part: position, countdown, stack of calls and loops, gate, ties, key; tempo accumulator | `StartSeq`, `ProcSeq`, 32 commands | arbitrary nesting of loops, breaks, calls and drums on one stack; gates and ties; an inner loop inside an interrupt | the score is played as written, on time; `ProcSeq` returns; songs end |
| **Music driver, tone generator** `mus.c`, `musfast_llvm.s`, `exp12.c` | per voice: envelope, vibrato, slide, place in the wave | set instrument, volume, envelope, vibrato; note on and off; one block | fixed-point arithmetic in 16 and 32 bits; a place that outlives its wave; an assembler twin of the C | reads stay inside the wave; a released voice ends; the twin mixes the same |
| **Sprites** `tools/sprite` | two maps, copies of what was drawn, frame buffers, cursor, sprite registers | set/put character, scroll, cursor, clear, flush, display mode, make frame | the dirty test; scrolling in place; drawing at bit shifts with clipping and wrapping | the frame shows the maps; the text functions are a character screen; each pixel in its place |
| **C run-time** `tools/crt` | `crt_initialized`, the program's memory | Init/Proc/Exit/Notify; `memcpy`, `memset` | callbacks before initialisation; a second start over the remains of the first; the choice of a loop | nothing before Init, everything in place after it; the bytes meant and no others are moved |

### Applications and tools

| Component | State | What is hard | What makes it correct |
|---|---|---|---|
| **fpkplay** `app/fpkplay` | mode, selection, active state; sector cache, ring of the decoder | a busy wait for an interrupt; entries and files across sectors; buttons in any order | stopping returns; the screen and the buffer are the song that plays |
| **piece.ld, ppack** | sections and segments; the output file | bytes stored at one place and run at another; a buffer filled by address | every word reaches the address it runs at |
| **elf2srf / srf2elf / srf_dump** | sections, extern lists, relocations, file offsets, archives | lists that grow while indices into them are written; locals before globals; offsets computed apart from the writing | a relocation means the same after the conversion; what is written is what is read |
| **asm33conv, objdump2asm** | a line; a listing's items, modules and labels | immediates widened by `ext` in two ways; labels that are dropped, renamed or shared | the same instructions with the same effect and targets |
| **menu2** `os.c`, `menu.c`, `launch.c` | file list, page, cursor, screen | files come and go over USB between two keys | the program shown is the program started |

### How they interact

* The OS kernel calls `pceAppInit`, `pceAppProc` and `pceAppExit` on the parent's
  stack, the thread switcher from the 1 ms timer interrupt, and `BuffFree` from
  the wave interrupt when a block has been played.
* Threads call the thread library directly; the music functions use
  `thread_lock` against each other. No lock excludes `BuffFree`.
* `BuffFree` lets each voice mix a block, calls `ProcSeq` once per block and stops
  the driver when `ProcSeq` returns 0. `ProcSeq` reads the score through a pointer
  into memory the main program owns, and gives the voices their commands.
* The sprite library draws nothing until `pclSpriteMakeFrame`, which compares the
  maps with its copies of what was drawn before.
* A program is laid out by `piece.ld`, packed by `ppack`, loaded by the kernel and
  unpacked to its run-time addresses by `crt0.c`; `menu2` starts it.
* `srf2elf` turns the old libraries' objects into ELF for the linker, `elf2srf` the
  other way; `asm33conv` and `objdump2asm` feed and recover assembler sources.

## 2. Modules and their correspondence to the code

```
threads     Threads ─┬─ ThreadSleep ─── Threads_proofs ─┐
                     ├─ ThreadJoin                      │
                     ├─ MCThreads                       │
                     └─ SimpleApp ──────────────────────┘

music       MusicRing ─┬─ Fpkplay ─┐
                       └─ PmdPlay ─┼─ Music_proofs
            Sequencer ── SequencerScores ─┐
            ScoreLanguage ── MCSequencer ─┼─ MCMusic
            Voice ── Voice_proofs         (MCMusic: PmdPlay, Fpkplay and Voice too)

sprites     SpriteScreen ◁─ SpriteCache ── SpriteBG ─▷ TextWindow
                                              │          (◁ ▷ implements)
            SpriteRaster ─┬── MCSprites ──────┤          (MCSprites: part of MCTools)
                          └── Sprite_proofs ──┘

tools       PieceLink ─┬─ Ppack ── AppStart ─┐
                       └─ SrfExec ───────────┼─ Tools_proofs
            MemRoutines ─────────────────────┘
            Menu ────────────────────────────┘
            RelocTypes ── ElfToSrf, SrfToElf
            ElfToSrf, SrfToElf, ArLibrary, Asm33conv ── Converters_proofs
            ElfToSrf, SrfToElf, ArLibrary, Asm33conv, Menu ───┬── MCTools
            ObjectFiles, Objdump2asm, FpkArchive ── MCFiles ──┘
            FpkArchive ── Fpk_proofs   (MCTools: AppStart and SrfExec,
                                        MCFiles: MemRoutines too)

common      SeqLoops      what a loop over a sequence arrives at: selected elements, a sum,
                          lists joined; used by the converters, the menu and the archive
            LoopLemmas    facts about them, least and greatest elements, induction over sets
```

`PROJECT.json` maps each definition to its lines. Definitions marked `Mutated:`
are plausible slips in the code; each is put in place of the definition below it
to show that a property notices.

**Threads** is all of `thread.c`. The variables are the file's own
(`sp`, `th_ct`, `state`, `now_id`, `lock_flag`, `timer_flag`), the kernel's
(`elapsed` for `pceTimerGetCount() - old_ct`, `switcher` for the installed
callback) and the program counters of all contexts. Between `change_th_check`,
which assigns `now_id`, and `thread_exec_as`, which jumps, the processor still
executes the old thread; `cpu` is that thread. Each library function is split
where an interrupt could make a difference: taking the lock, looking at the
shared state, clearing `timer_flag`, the switch with interrupts masked. A child's
program is arbitrary: in user code (`"run"`) it may call anything. A thread
outside `Nesters` does not call, inside its own critical section, a function that
takes the lock ("thread_lock has no levels", thread.c:20); those in `Nesters` do,
and lock up to `MaxNest` times. `thread_gr_exit` equals
`thread_gr_stop`; `thread_currentid` and `thread_status` only read.
`Uses` names the optional parts of the library a program uses: waiting for other
threads (`thread_wait_term`), and stopping the switcher.
The saturation of `elapsed` at `DCT_CAP + 1` loses nothing: every larger gap is
treated alike. **ThreadSleep** and **ThreadJoin** add one history variable each:
the true milliseconds left of a sleep, and whether the thread waited for has ended,
which takes that its slot was in use during the wait and has been freed.
A word of `sp` says whose frame it points at: the one its context resumes from, one
that was resumed before or belonged to a terminated thread (`"stale"`), or another
context's (`"foreign"`, had an interrupt come between `now_id` and the jump), so that
a slot cannot be given an old stack unnoticed.

**SimpleApp** is the application frame, `simple.c`, as a program of Threads. The
parent runs the OS's callbacks: `app` says where it is in `pceAppInit`,
`pceAppProc` or `pceAppExit`, and `"os"` stands for the time between two of them,
in which the CPU is the kernel's. Each call of the library is a call of the
corresponding action of Threads; the next statement is reached when that call has
returned. smain and the threads it makes are arbitrary programs of Threads, which
may also report errors as the library's loading functions do, while they hold the
lock (`bgload.c`, `ppdload.c`, `pmdload.c`). `ended` and `unseen` are history.

**MusicRing** is the block ring of `mus.c`: `BuffFree` as one action of the
interrupt (its loop over free blocks in closed form), `PlayMusic` in the three
stretches an interrupt can separate, `init_wk`. The kernel's wave queue is
external. A block's samples are reduced to the block's number in the stream.
**Fpkplay** composes it with the player's main program, **PmdPlay** with threads
that call `pmdplay`, `pmdstop` and `pmdload`. PmdPlay uses `thread_lock` as
mutual exclusion, which is what the runs and the theorem about Threads show of
it, including that the *first* unlock ends it.

**Sequencer** is `ProcSeq` with every command. A command with its operands has
one address. `nestd` has `LEVELS` levels of three words; the third word of a level
keeps what its last user left, as in the code. **ScoreLanguage** is the
reference: structured scores, `Compile` into commands, and `Meaning`, the list of
timed events they stand for, defined without a stack, counters or flags.
**SequencerScores** adds the history of what is played and compares the two.

**Voice** is what happens inside a block: one voice with its envelope
(`genenv`, states A, D, S, R), vibrato (`genvib`), slide and place in the wave
(`freqwk`, 18.14 bits), in the widths the C types have. The commands that
only shape the sound, one action in Sequencer, are here what they do. `MakeWave` is
the C of the three mixing loops, `MakeWaveFast` the assembler that is linked,
with `mlt.h`, split shifts and offsets as it has them. `over` records a read behind
the wave, `off` the blocks since the release.

**SpriteScreen** is what a drawing program may rely on: after a frame is made,
each checked plane's picture is its map, drawn with the patterns of the last
flush. **SpriteCache** is how the library does it: maps, copies of the codes drawn last,
frame buffers, and `bg_check`. It implements SpriteScreen
(`CacheImplementsScreen`, a refinement that is proved). **SpriteBG** has the calls
on top of it — characters, cursor, scrolling, clearing, flush, display mode,
sprite registers, initialisation, `pclSpriteMakeFrame` with its layers.
**TextWindow** is the character screen its text functions promise; SpriteBG
implements it (`PlaysTextWindow`, checked in MCSprites and proved). **SpriteRaster** is the assembler: a word is a function from bit to a
symbolic pixel, shifts, rotates, masks and `or` are those of the CPU, and a bit
into which two sources fall is a clash.

**PieceLink** is the linker script: sections with the address they run at (`Vma`)
and are stored at (`Lma`). **Ppack** packs the segments, **AppStart** composes it
with a kernel that loads the file over whatever memory held (external) and with
`crt0.c`, callback by callback and step by step, for several launches. A word of
memory is the place of the image it comes from. **SrfExec** groups the same
sections into an SRF executable.

**ElfToSrf** and **SrfToElf** are the object conversions relocation by relocation.
Their meaning is external to both: which bits of which address go where, with the types
by their numbers in the two formats (**RelocTypes**) and an extern of an SRF relocation
in the list of the section `r_scnndx`, as `docs/SRF33_FORMAT_SPEC.md:188-189` has it.
`srf2elf.py` looks into the list of the relocation's own section first; `ElfMeansSrf` is
about relocations for which both find the same extern (`Agreed`; section 6). An SRF
object is well formed (`WellFormed`) when its sections have different numbers and each
relocation is for a word of a section that has bytes and names an extern which, if it
is defined, labels a word of its section; that is what a reader of the format may
expect of a file, and srf2elf does not look. Objects with a second BSS section are
left out of what `ElfMeansSrf` says (`Placed`; section 6).
**ArLibrary** converts a lib33 archive, with all offsets as `build_ar` computes
them. **ObjectFiles** is the serialisation: writers `elf_to_srf` and
`exec_elf_to_srf`, and the layout of `srf_to_elf`, to bytes that carry the field
they belong to; readers `srf_parse`, `parse_elf`, `srf_dump` and the round-trip
check. **Asm33conv** translates one line of each form and evaluates the result
with the CPU's `ext`. Offsets from `%sp` and steps of it go out without `ext`, whatever
their size (asm33conv.py:148–154, 299–306); the fields of the instructions (6 bits for
an access, 10 for a step: `IMM`, `SPIMM`) bound what `ComputesTheSame` says of them
(`InReach`). **Objdump2asm** takes a listing to assembler files.

**Menu** is the launcher: list, cursor, the screen as whose icon stands where, and
standby, while the PC may change the files at any time: copy some to any place in the
directory, delete others, replace one by one without an icon. A call reads the list
before it moves the cursor and starts a program, so that an A press can start another
program than the screen shows (menu.c:81, os.c:374). `StartsShownProgram` says what is
started in any case, and that it is what is shown as long as the list has not
changed since. `stray` is history: renewpos has put back a cursor that was out of range,
which leaves `pos` behind (finding 5). **FpkArchive** is the
player's archive: packed by an external packer, read through the sector cache,
decoded, and selected by buttons. An archive of another kind, with another signature and
unpacked files, is closed again by `fpkOpenArchive`, which leaves `files_count` and the
cached sector; the buttons go on working with them, and what is decoded then is
`"noise"`. `Plain` says what a packed file stands for without
the decoder: a copied byte is the one the ring's cell was last written with. **MemRoutines** is `memcpy` and `memset`, one
step per pass of a loop, with the registers of the CPU.

MCMusic and MCTools (with MCFiles and MCSprites) hold several components that do not
share state, so that a run's `mode` is one of them and the others are at rest. MCThreads
restricts the thread library's programs in two ways, between which a behaviour chooses
at the start.

## 3. What the runs check

| Run | Instance | Shows |
|---|---|---|
| `threads` | 2 children, parent, idle, or 1 child and `thread_wait_term`, gr_stop/cont; child 0 nests the lock, the others do not; waits of 0 and 1 | `CriticalSectionsExclude`, `OnlyReadyRun`, `NeverPassesReady`, `LockHasOwner`, `ResumesSavedFrame` |
| `sleep` | 1 child; waits of 0, 1 and 3 > cap; fair | `EarlyByOneGapAtMost`, `ReadyRuns`, `SleepEnds` |
| `simple_app` | smain as the only child, errors at any time; fair | `OsUndisturbed`, `ErrorNotSilent`, `ErrorShown`, `ChildrenRun` |
| `music` | player and ring; one thread and two files; about 1300 scores; one voice; fair | `QueueIntact`, `StopReturns`; `DriverReadsWholeScore`; `PlaysScore`, `EndsOnTime`, `EverySongEnds`; `ReadsInTable`, `ReleasedVoiceEnds`, `FastMixesSame` |
| `tools` | one tool or program at a time, see below; the sprite library: 5 calls on planes of 4 × 4 cells, a window of 3 × 3; rows, sprites and characters at full width | `ImageInPlace`, `CallbacksAfterInit`, `StoredBytesKept`, `SrfMeansElf`, `ElfMeansSrf`, `ArFindsMembers`, `FilesKeepObject`, `ComputesTheSame`, `SameProgram`, `StartsShownProgram`, `ShowsWhatItPlays`, `MovesExactly`; `CopiesTellTheTruth`, `FrameIsFresh`, `PlaysTextWindow`; `RowShowsPlane`, `SpriteFillsItsBox`, `CharacterInPlace` |
| `sleep_early` | 1 child; waits of 0, 1, 4; cap 2 | violates `NeverEarly` (finding 1) |
| `join_reuse` | 2 children | violates `JoinEndsWithTarget` (finding 2) |
| `pmdload_two` | two threads in `pmdload` | violates `PlaysLoadedFile` (finding 3) |
| `pmdplay_two` | two threads in `pmdplay` | violates `PlayStarts` (finding 4) |
| `menu_range` | the menu of `tools` | violates `CursorInRange` (finding 5) |
| `xld_negative` | asm33conv of `tools` | violates `AccessesItsOffset` (finding 6) |
| `reloc_types` | the tables of `tools` | violates `BackToTheSameType` (finding 7) |

The bounds, and why they are enough:

* `MAX_TH`: two children and the parent make a third thread that can be passed
  over while two others hand the CPU to each other; the code's own value is 3 and
  the theorems hold for every value. One child nests the lock, two levels
  deep, and the other and the parent meet it. Liveness is checked
  with one child and the parent: the hazards there are between one thread and the
  interrupt or its own lock. `DCT_CAP` (100 in the code) is 1 or 2, with sleeps
  longer and shorter than it, and gaps below, at and above it.
* `simple_app` has one child: the races are between smain, the parent and the
  interrupt. `pceAppProc`'s sleep of 10 ms (`FRAME`) is 1: how long it is does not
  matter, as the interrupt is not bound to the time the code takes.
* `music`: `BLKN = 4` is the code's value; block numbers are kept modulo
  `2 * BLKN`, enough to tell all blocks of the ring and their successors apart.
  `Hurried` assumes that the last queued block does not end between two adjacent
  statements of the main program (a block lasts 8 ms). `MCOUNT` (5000) and tempo
  (1920 at first) are scaled to 5 and 2, and tempo commands go up to `MCOUNT`;
  events are counted in ticks. The scores: every pair of an item out of plain ones,
  loops over all short bodies, breaks, nestings of those, calls and drums, followed
  by a loop or drum that would notice what the first left behind, and two parts
  side by side; `LEVELS = 3` is deeper than any of them nests.
  A voice gets up to `CALLS = 4` commands at most `HOLD = 3` blocks apart, with
  blocks of `BLKS = 8` samples; constants of pitch and envelope are the code's, with
  values that make the arithmetic wrap, a loop end inside a block and a drum of six
  samples with its guard sample.
* The sprites of `tools`: an operation moves, clears or writes cells; a map of cells that all
  differ shows any that goes wrong, and four columns around a window of three leave
  cells on every side. Five calls suffice for each of the slips tried. The drawing
  functions are explored on their own at full width: all 32 shifts within a
  word, both ends of the line, and sprites at every way of being clipped.
* `tools`: an external RAM of 13 words and an internal one of 4, with sections of 0
  to 2 words and a `.bss` of up to 9, and a pack buffer of 9, so that some programs
  fill either to the end; two launches, so that the second finds the remains of the
  first. Two relocations per object, so that the second finds the lists the first
  has extended; two of three SRF sections of a kind. Immediates have
  `EXT = 8` values in an extension and `IMM = 8` in an instruction (2^13 and 2^6 in the
  CPU), so that all values of a register's width, signed and unsigned, are tried, and `SPIMM = 16` in a step of `%sp`, with numbers on
  both sides of what the fields hold. Five directories between which the PC
  changes in any order, some of which have
  the same programs in other places, with a list of `FMAX = 7` that one of them
  overfills, and two buttons at once (`PRESSED`). Archives with sectors of
  5 bytes, a ring of 8 and copies of up to 4, so that entries and files straddle
  sectors and copies wrap round the ring. `memcpy` and `memset` with every address and
  length in 13 bytes, all of whose contents differ.
* Deadlock is checked in the runs about threads and in `pmdload_two` and `pmdplay_two`; a song, a
  conversion or a bounded number of calls ends.

## 4. Fairness

* Threads: weak fairness of each context's library steps (the CPU executes the
  code it is in), of the idle loop, of the timer interrupt with the kernel's veto
  absent again and again, and of `thread_unlock` for a thread in a critical
  section. User code may otherwise loop for ever. Weak fairness suffices, since a
  context off the CPU is not enabled and `ReadyRuns` has to come from the switcher.
* SimpleApp: the same, and the OS calls `pceAppProc` again and again. The contexts'
  own steps get strong fairness: `pceAppProc` holds the lock nearly all the time,
  and without it the interrupt might take the CPU away from a context, again and
  again, before it has executed a single instruction; the interrupt comes once in a
  millisecond, thousands of instructions later. smain's user code may loop for ever.
* Music: the player's statements are executed, queued blocks end; the sequencer's
  step as a whole is executed, as blocks keep being played. Nothing is assumed of keys
  or of what commands a voice gets. `ReleasedVoiceEnds` counts blocks instead.
* Everything else is sequential and its properties are of safety.

## 5. What is proved

The constants are bound only by the `ASSUME` of the module that declares them.
Every theorem about a specification rests on an inductive invariant, named here;
the properties themselves are seldom inductive. 29 of the 39
properties the passing runs check have a theorem for every value of the constants.

### Threads

`Threads_proofs`, for every number of threads, gap limit and set of sleep times
(`ConstantsAssumption`):

| Theorem | States |
|---|---|
| `Inductive` | `Spec => []IInv` |
| `TypeCorrect` | `Spec => []TypeOK` |
| `MutualExclusion` | `Spec => []CriticalSectionsExclude`, for every thread outside `Nesters` |
| `ReadyThreadsRun` | `Spec => []OnlyReadyRun` |
| `NoIdling` | `Spec => []IdleOnlyWhenNoneReady` |
| `FramesSaved` | `Spec => []ResumesSavedFrame` |
| `NoLockLeftBehind` | `Spec => []LockHasOwner` |
| `RoundRobin` | `Spec => NeverPassesReady` |
| `SleepInductive` | `SleepSpec => []SleepInv` |
| `SleepsOneGapEarly` | `SleepSpec => EarlyByOneGapAtMost` |

That only a runnable thread runs
needs to know that `now_id` runs ahead of the CPU only in two labels
(`SwitchState`); that the CPU's thread is alive needs that a slot is freed only by
its own thread on its way out or by another thread (`SlotState`); that mutual
exclusion holds needs that every context off the CPU is outside the locked
stretches (`LockedIsOnCpu`) and that a program which does not nest still holds
the lock it took (`SectionState`). `IInv` is their conjunction. The proof goes
action by action; everything `change_th_check` does is one lemma, `CheckStep`,
and everything the `exec` step does another. `SleepInv` adds to `IInv` that what is
truly left of a sleep is at most what its counter says and one believed gap
(`DCT_CAP`), less the time the switcher has not looked at yet: the gap is what a
sleeper is charged with although it passed before the sleep began, and since the
counter is charged only once for it, it is never more than one.

Of SimpleApp, for the same constants and whatever smain and its threads do:
`AppIsThreads` (the frame is one of the library's programs), `AppInductive`
(`[]IInv`), `OsKeepsCpu` (`[]OsUndisturbed`), `AppKeepsInv` (`[]AppInv`) and
`ErrorIsNotSilent` (`ErrorNotSilent`). `OsUndisturbed` is inductive by itself: with
the lock set and the parent outside the library no step of anybody else is possible
but an interrupt that is deferred. `ErrorNotSilent` needs `AppInv`: an error not yet
shown keeps `errorflag` at 1 (`ErrorKept`), smain's slot is empty only before
`thread_create` has filled it or after its end (`SmainMade`, which rests on the
library's `IInv`), and an error reported after the second look at `errorflag` cannot
be smain's (`EndLookedAt`).

### Music

`Music_proofs`, for every `BLKN` of at least 3 (`RingAssumption`; with two blocks
there is no free one to render into while one plays):

| Theorem | States |
|---|---|
| `PlayerQueueIntact` | the player: `[]QueueIntact` |
| `SimpleQueueIntact` | one thread in `pmdplay`, `pmdstop`, `pmdload`: `[]QueueIntact` |
| `ScoreReadWhole` | the same thread: `[]DriverReadsWholeScore` |
| `DrainShrinks` | a block that ends while the player waits leaves one queued less |

`RingInv` sees the queue from `blkip`: the queued blocks are the ones before it, in
order round the ring, and while the driver plays, `blkop` is the oldest of them.
`BuffFree`, `PlayMusic`'s stretches and `StopMusic` each keep it. What a client adds
(`ThreadInv`, `PlayerInv`) is where `finish`, the cursors and the queue stand at each
of its statements, since the interrupt may come between any two of them.

`Voice_proofs`, for every table of instruments, block length and sequence of
commands: `VoiceInductive` (`[]VoiceInv`), `WavesReadInside` (`[]ReadsInTable`),
`ReleasesEnd` (`[]ReleasedVoiceEnds`), `AssemblerMixesC` (`[]FastMixesSame`).
`VoiceAssumption` says of the tables what `wavetable.c` and the drums keep to: a wave
ends with a whole sample, and the shortest loop (16 samples) is longer than the longest
step (4 samples). That the array holds the sample behind the last one, which
interpolation reads too, is a matter of the data; seven drums lack it (section 6). A block is an induction over its turns, for the C loop, the
assembler loop and both together (`Mix` is a recursive function; its sum of products,
shifts and 16-bit halves is compared term by term for volumes up to 32767). A
released voice's level starts at 0 at most and falls by `ENVRR` a block, so that the
voice is off after eight.

### Sprites

`Sprite_proofs`, for every size of the planes and the window and every program:

| Theorem | States |
|---|---|
| `CopiesAlwaysTrue` | `Spec => []CopiesTellTheTruth` |
| `FramesFresh` | `Spec => FrameIsFresh` |
| `TextIsWindow` | `Spec => PlaysTextWindow`, a refinement of TextWindow |
| `CacheImplementsScreen`, `LibraryDrawsLikeScreen` | `CacheSpec` and `Spec` refine SpriteScreen |
| `LibraryTyped` | `Spec => []TypeOK` |

`CopiesTellTheTruth` is inductive with the types: a cell's copy is invalid, or the
cell shows the copy's code in the patterns in force — or a flush is owed, for the
program has changed the patterns. The invariant makes the cells `bg_check` skips
equal to what drawing them would give, which is the step of SpriteScreen. The loops
that scroll, clear and copy rows in place are brought to closed form by induction over
their turns (`SetInduction`), which shows that no turn reads what an earlier one has
overwritten; the closed form is the step of TextWindow.

The drawing, for every size of the screen and number of lines, every
position, and signed-byte positions of sprites: `RowsShowPlane` (`[]RowShowsPlane`),
`SpritesFillTheirBoxes` (`[]SpriteFillsItsBox`), `CharactersInPlace`
(`[]CharacterInPlace`). Bit by bit: the four shapes of the shift turn a word by the
same amount (`Turned`) and keep the same bits (`KeepsFirst`), so a word of the frame
is the end of one source word and the beginning of the next, without loss or clash
(`WordJoined`); the source pointer's five steps are steps round the line
(`WalksRound`). A sprite's writes are brought to closed form (`SpriteDrawn`), whose
rows and columns are the box on the screen. `RasterInv` carries which line the
source pointer stands behind.

### Tools and C run-time

`Tools_proofs`, for every program that fits, memory map that keeps the internal RAM
below the external, kernel and number of launches:

| Theorem | States |
|---|---|
| `StartInductive` | `Spec => []StartInv` |
| `InitRunsFirst` | `Spec => []CallbacksAfterInit` |
| `VersionIsChecked` | no function of a program runs on a BIOS that is too old |
| `ImageReachesItsPlace` | `Spec => []ImageInPlace` |
| `SrfKeepsStoredWords` | `SrfSpec => []StoredBytesKept` |
| `MemInductive`, `MovesWhatItShould` | the memory routines: `[]MovesExactly` |
| `MenuInductive` | `MenuSpec => []MenuInv` |
| `ShownProgramStarts` | `MenuSpec => StartsShownProgram` |

For the callbacks the key lemma is
`FlagPlace`: `crt_initialized` is a word of `.bss`, in the external RAM and outside
everything `crt0.c` copies or clears later, so that once cleared it is 0 until set.
`ImageInPlace` follows the bytes: the pack buffer holds every segment at its address
(`PackInv`), so does the loaded file (`PexInv`), and each of `crt0.c`'s four loops puts
one section where it runs without touching the others (`PlacesInv`, from the linker
script's layout: `Layout`, `RunPlaces`, `RunsApart`). `StoredBytesKept` needs that
merging the sections of a kind in the order of their addresses never puts one over
another (`SrfInv`).

For `memcpy` and `memset`, of every size of the memory, address and length: between
two passes of a loop a prefix of the bytes
has been moved (`Moved(r12 - dst)`), `r5` passes and the remainder are what is
left, both addresses are multiples of the loop's size, and the source read next
has not been overwritten, as the areas are apart or the copy goes down.

The menu's theorems are about every launcher and whatever the PC does to the files.
`MenuInv`: the list has as many entries as `getdir` counted, the cursor is on the grid
with `pos` under it unless the range check has moved it since (`stray`), and the row at
the top, caption and icons are those of the list as it was read. The
proof goes call by call: `getdir`, `renewpos`, the redrawing of the icons, and the four
directions of the cursor, which stops or goes round at the ends of a list whose last row
may be short. `ShownProgramStarts` then compares the call in which A is pressed with the
screen before it, which it needs only when the list is still the same.

### Music player

`Fpk_proofs`, for every archive, of the player's kind or not, sizes of sectors, ring and buffers and sequence of
buttons. `FpkAssumption` asks that the ring's size is even and at least the longest
copy, that the files have different names, and that packed and unpacked they fit the
buffers (the code does not check either).

| Theorem | States |
|---|---|
| `DecodesPlain` | `decodeLZSS` of a packed file is `Plain` of it |
| `ShownIsPlayed` | `FpkSpec => []ShowsWhatItPlays` |

Three loops are brought to closed form one after the other. *Reading*: the cache is the
sector whose number it has (`Cached`), so a pass adds the bytes that come next in the
file (`Reading`), also where they go on in the next sector. *Decoding*: after an item
the decoder stands at the first byte of the next, with the flags of its group, and ring
and output hold the plain bytes so far (`Unpacked`, `Before`); a copy may read cells
it writes itself, as each byte's source is a byte before it. *The image*: header,
entries and packed files lie where the entries say (`ImageIs`, sums over the lengths
before). `FpkInv` then holds between two callbacks: the cache is good,
the selection is the entry of the index and stands on the screen, and what sounds is
a file of the archive that the buffer begins with. A button's handler keeps it
although it goes through states in which the three variables disagree, so the proof
follows each handler call by call.

### Converters

`Converters_proofs`:

| Theorem | For every | States |
|---|---|---|
| `ObjInductive`, `RelocationsMeanTheSame` | symbol table, sections and relocations | elf2srf: `[]ObjInv`, `[]SrfMeansElf` |
| `ElfRelocationsMeanTheSame` | well-formed SRF object, any number of sections | srf2elf: `[]ElfMeansSrf`, of relocations whose extern format and converter agree on |
| `ArchiveOffsets` | library, names of any length, cut off anywhere | srf2elf: `[]ArFindsMembers` |
| `TranslationComputes` | line, width of registers and immediates | asm33conv: `[]ComputesTheSame`, of numbers in reach |

*elf2srf.* An extern's index is written into the SRF relocation while the list still
grows. `ObjInv` has that the entry at a symbol's index is that symbol's (`ListFits`),
that every index written is one of its list's, and that what is converted so far means
what was read. A step adds an entry at the end or fills in the place of a first
reference (`Grown`), so that an index once written stays good, also while the second of
the two ELF sections that share a list adds to it.

*srf2elf.* Locals have to stand before globals, so that an extern's place in the
symbol table is known only when all sections are through. `ElfInv` has two parts: while
sections are read, the two lists are those of the sections so far (`SymbolsUpTo`);
afterwards the index gives every extern its entry (`Indexed`). The first follows a loop over
the externs of every section, the second two numberings of one table; offsets in the merged sections are
sums over the sections of a kind before, of which each section's stretch is its own.
That the invariant does not say what a relocation means, but only which function of the
object it is, keeps it short; the meaning is compared at the end, list by list.

*Archives.* `ArInv`: the modules found so far are the first of the library, at the
offset the sizes before them add up to; the symbol table's offsets are sums over sizes
rounded up to even; and each member is written at the offset worked out for it,
which is what had been written by then (`SofarAt`). The theorem includes libraries that end within a module.

*asm33conv.* A line is translated in one step, so that the invariant says which lines are
produced for it. The theorem is about numbers: what `ext` instructions put before an
immediate gives the operand back, in two's complement or without sign as the
instruction takes it, for fields of any even width, and a shift by more than one
instruction can do is the sum of several.

These four are folds over lists. They are stated with the recursive functions of
SeqLoops, whose values at `k + 1` are reached from those at `k` by induction over a set
of numbers (`SetInduction`); lemmas of LoopLemmas say of each what its length, type and
elements are.

### Only model-checked

* *Liveness* (`ReadyRuns`, `SleepEnds`, `ErrorShown`, `ChildrenRun`, `StopReturns`,
  `EndsOnTime`, `EverySongEnds`): out of the prover's reach, as fairness needs ENABLED.
  `RoundRobin` and `DrainShrinks` are the steps two of them rest on.
* `PlaysScore`: what is played is compared with `Meaning`, which is recursive over
  structured scores; it would be an induction over data.
* `FilesKeepObject`, `SameProgram`: a reader gives back what a writer was given, over
  recursively built files and listings: likewise.

## 6. Findings

1. `sleep_early` — `thread_wait` may return early by the gap since the last check,
   which is charged to the thread that has just gone to sleep.
2. `join_reuse` — `thread_wait_term` compares slot numbers; it waits on for an
   unrelated thread if the slot is reused between two polls.
3. `pmdload_two` — `pmdstop` inside `pmdload` releases `pmdload`'s lock.
4. `pmdplay_two` — `pmdplay` is two critical sections; a second thread that has passed
   its own `pmdstop` can start its music between them, and the first one's `PlayMusic`
   starts the ring over while a block is queued.
5. `menu_range` — after a deletion `renewpos` compares with `>` and corrects the
   cursor to `num`, which is one past the last program.
6. `xld_negative` — asm33conv takes the 13 bits of one `ext` for a signed offset of a
   memory access; the manual in `docs/` adds them unsigned.
7. `reloc_types` — elf2srf.py:91 writes `R_S1C33_REL21` as SRF type 5, which the format and
   srf2elf.py:48 have as `REL_AH`, one half of a pair; line 84 calls the table the
   inverse of srf2elf's. `SrfMeansElf` leaves REL21 out for that reason.

Met on the way, without a run of their own; for most, nothing in the repository states what
should happen, or the model leaves the data out:

* *srf2elf.* A second BSS section gets base 0 (683–697). LOCAL externs of another
  section come back in the list's section. `r_exndx` is looked up in the own list
  first (533–540), although by `docs/SRF33_FORMAT_SPEC.md:188-189` it indexes the list of
  section `r_scnndx`; it falls back to that list only if the index is past the own one.
* *elf2srf.* It writes its relocations by the converters' rule: `r_exndx` for the own
  list (473), `r_scnndx` the section the symbol is defined in (478), so that by the
  document a relocation across sections names another extern. The ELF types
  `R_S1C33_REL_AH` and `REL_AL` have no entry in its table and are dropped with a warning,
  though SRF has both. Globals of a program become LOCAL. Relocations against unnamed symbols of
  other sections are dropped; `.init_array` is dropped from executables; the extent of
  BSS covers whatever lies between. A name of over 255 bytes ends in an error.
* *ppack.* A missing icon is counted in `ofs_data`; `main` returns 0 after errors.
* *asm33conv.* `%sp` offsets and steps beyond the instruction's field are emitted as they
  are. `.comm sym , 4` gets two commas; `xld.w %rd, symbol` passes unchanged.
* *Tone generator.* Seven drum tables (`HANDCLAP`, `BD909`, `TOML1`, `SD909`, `HC909`,
  `SDGATE`, `HO909`) lack the guard sample, so the interpolation reads one byte past
  them. The assembler differs from the C for volumes above 32767. With an attack of 0
  an envelope stays in its first state. `gexp` returns 0 above its range, so such a
  note is silent. `wavetable.c` has `0 -0x7f` for two samples in `saw`. Vibrato speeds
  from 192 up are negative.
* *fpkplay.* The comment in `fpack.h:7` gives the signature backwards; a name without a
  dot passes NULL to `strcmp`; after "no archive" the buttons still work, with index
  −1; after an archive of the wrong kind they play what the decoder makes of it, while
  the screen names the file (the message, fpkplay.c:92–101, says such an archive is not
  supported); a sector that failed to read is taken as cached.
* *menu2.* Icons of the third row are drawn over the down arrow. After standby the list
  is stale until the next key, and a deleted program shows the icon drawn before it. An A
  press reads the list anew (menu.c:81–82) and starts what is under the cursor then (os.c:374),
  which need not be what the screen shows.

## 7. What is not modelled

* *Data and formatting*: constant tables (waves, drums, fonts, character types), headers,
  printing, command lines, the text of a line of assembler beyond its kind, operands
  and symbols.
* *Sprites*: the getters; `conv_fram`, which transposes the finished frame; `#if 0`
  code; `pclspritefast.s` and `pclspbgcheck.c`, older copies that nothing links.
* *Simple library*: drawing wrappers (pixel loops behind a lock); `back_sprite`.
* *Run-time*: `cxxrt.c`, `cxxnew.c`, `picesbrk.c` and the newlib glue, a few assignments
  each; `musfast.s`, an older build.
* *Tools*: zlib and `iz.c`; raw binaries and names in ppack; debug records of SRF
  files; `gen_pceapi.py`.
* *Samples*: dhrystone, cpptest, hello, jien, pcecircle.
* `thread_terminate(-1)` and `thread_wait_term(-1)` (the result of a failed
  `thread_create` passed on) touch memory in front of `state[]` and are outside the
  model. Scores with a loop count of 0, or a break in a loop of one pass, have no
  meaning the repository states, and are not generated.

The components in `PROJECT.json` with status `not_modelled` each carry their reason.

## 8. Plan

1. **ThreadsAbs**: what the library promises (a set of threads, one running, a lock that
   excludes) with Threads as its implementation by a refinement mapping.
2. **Sequencer**: that the stack of a part never holds more levels than the score nests,
   as a theorem.
3. **CxxRuntime**: static guards and `sbrk` under preemption by the switcher.
4. Several voices of Voice driven by Sequencer in one composition.
