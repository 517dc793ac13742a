------------------------------- MODULE AppStart -------------------------------
(***************************************************************************)
(* A packed program is loaded by the kernel and started by tools/crt:      *)
(* pceAppInit00 of crt0.c clears and copies the program's sections, checks *)
(* the BIOS version and runs the constructors and pceAppInit; the other    *)
(* callbacks are passed on once crt_initialized, itself a word of .bss, is *)
(* set.  The kernel is external: it loads the payload, puts the first mark *)
(* of its heap at bss_end, and may notify the program from any call the    *)
(* program makes and between callbacks.                                    *)
(***************************************************************************)
EXTENDS Ppack

CONSTANTS LAUNCHES    \* bound on the launches of the program

VARIABLES mem,        \* the words of both RAMs
          bios,       \* "new" or "old", compared with APPSYSVER
          ctors,      \* the pointers of .init_array called so far
          call,       \* the last function of the program that was called
          inited,     \* pceAppInit has returned in this launch
          launches

startVars == <<mem, bios, ctors, call, inited, launches>>
programVars == <<packVars, pc, startVars>>

ZeroWord == <<"zero", 0>>
OneWord == <<"one", 0>>
JunkWord == <<"junk", 0>>
HeapMark == <<"heap", 0>>

crt_initialized == Vma(size).bss

StartInit ==
    /\ PpackInit
    /\ mem = [a \in Addresses |-> JunkWord]
    /\ bios \in {"new", "old"}
    /\ ctors = <<>> /\ call = "none"
    /\ inited = FALSE /\ launches = 0

Packing == Pack /\ UNCHANGED startVars

\* The kernel reads the payload where the header says and checks it; then
\* ResetHeap(bss_end) writes the heap's first mark.
LoadApp ==
    /\ pc \in {"packed", "exited"} /\ launches < LAUNCHES
    /\ pex.ofs_data = pex.at
    /\ mem' = [a \in Addresses |->
                 IF a = _pceheapstart(size) THEN HeapMark
                 ELSE IF a \in Words(pex.top_adrs, pex.length) THEN pex.data[a - pex.top_adrs]
                 ELSE mem[a]]
    /\ pc' = "clear_bss"
    /\ ctors' = <<>> /\ call' = "none" /\ inited' = FALSE
    /\ launches' = launches + 1
    /\ UNCHANGED <<packVars, bios>>

Memset(s) == [a \in Addresses |-> IF a \in RunsAt(size, s) THEN ZeroWord ELSE mem[a]]
Memcpy(s) ==
    [a \in Addresses |->
        IF a \in RunsAt(size, s) THEN mem[Lma(size)[s] + (a - Vma(size)[s])] ELSE mem[a]]

ClearBss ==
    /\ pc = "clear_bss"
    /\ mem' = Memset("bss")
    /\ pc' = "copy_fastrun"
    /\ UNCHANGED <<packVars, bios, ctors, call, inited, launches>>

CopyFastrun ==
    /\ pc = "copy_fastrun"
    /\ mem' = Memcpy("fastrun")
    /\ pc' = "copy_fastdata"
    /\ UNCHANGED <<packVars, bios, ctors, call, inited, launches>>

CopyFastdata ==
    /\ pc = "copy_fastdata"
    /\ mem' = Memcpy("fastdata")
    /\ pc' = "clear_fastbss"
    /\ UNCHANGED <<packVars, bios, ctors, call, inited, launches>>

ClearFastbss ==
    /\ pc = "clear_fastbss"
    /\ mem' = Memset("fastbss")
    /\ pc' = "version_check"
    /\ UNCHANGED <<packVars, bios, ctors, call, inited, launches>>

VersionCheck ==
    /\ pc = "version_check"
    /\ pc' = IF bios = "old" THEN "running" ELSE "constructors"
    /\ UNCHANGED <<packVars, startVars>>

Constructor ==
    /\ pc = "constructors" /\ Len(ctors) < size.init_array
    /\ ctors' = Append(ctors, mem[Vma(size).init_array + Len(ctors)])
    /\ call' = "constructor"
    /\ UNCHANGED <<packVars, pc, mem, bios, inited, launches>>

CallInit ==
    /\ pc = "constructors" /\ Len(ctors) = size.init_array
    /\ call' = "Init"
    /\ pc' = "in_init"
    /\ UNCHANGED <<packVars, mem, bios, ctors, inited, launches>>

\* The program has stored in every word it may.
Scribbled ==
    [a \in Addresses |->
        IF a # crt_initialized
           /\ \E s \in {"data", "fastdata", "fastbss", "bss"} : a \in RunsAt(size, s)
        THEN JunkWord ELSE mem[a]]

\* pceAppInit returns, having used its variables.
InitReturns ==
    /\ pc = "in_init"
    /\ mem' = Scribbled
    /\ inited' = TRUE
    /\ pc' = "set_flag"
    /\ UNCHANGED <<packVars, bios, ctors, call, launches>>

SetFlag ==
    /\ pc = "set_flag"
    /\ mem' = [mem EXCEPT ![crt_initialized] = OneWord]
    /\ pc' = "running"
    /\ UNCHANGED <<packVars, bios, ctors, call, inited, launches>>

\* Mutated: the flag is not tested.
PassesOn_Always == bios = "new"

\* What pceAppProc00, pceAppExit00 and pceAppNotify00 test before they pass a
\* call on to the program.
PassesOn == bios = "new" /\ mem[crt_initialized] # ZeroWord

pceAppProc00 ==
    /\ pc = "running"
    /\ call' = IF PassesOn THEN "Proc" ELSE call
    /\ UNCHANGED <<packVars, pc, mem, bios, ctors, inited, launches>>

pceAppExit00 ==
    /\ pc = "running"
    /\ call' = IF PassesOn THEN "Exit" ELSE call
    /\ pc' = "exited"
    /\ UNCHANGED <<packVars, mem, bios, ctors, inited, launches>>

\* The kernel runs in the calls of the version check, of the constructors and
\* of pceAppInit, and between the callbacks.
pceAppNotify00 ==
    /\ pc \in {"version_check", "constructors", "in_init", "running"}
    /\ call' = IF PassesOn THEN "Notify" ELSE call
    /\ UNCHANGED <<packVars, pc, mem, bios, ctors, inited, launches>>

\* Another program has used the memory in the meantime.
OtherProgram ==
    /\ pc = "exited" /\ launches < LAUNCHES
    /\ mem' = [a \in Addresses |-> JunkWord]
    /\ UNCHANGED <<packVars, pc, bios, ctors, call, inited, launches>>

Init00 == ClearBss \/ CopyFastrun \/ CopyFastdata \/ ClearFastbss \/ VersionCheck
              \/ Constructor \/ CallInit \/ InitReturns \/ SetFlag
StartNext == Packing \/ LoadApp \/ Init00 \/ pceAppProc00 \/ pceAppExit00
            \/ pceAppNotify00 \/ OtherProgram

StartSpec == StartInit /\ [][StartNext]_programVars

-----------------------------------------------------------------------------
\* When the first function of the program is about to run, in a first launch
\* or a later one, every word of every section is at the address it was linked
\* to run at: stored bytes survived packing, the kernel's heap mark and the
\* clearing of .bss, and what has no bytes is zero.
ImageInPlace ==
    pc = "constructors" /\ ctors = <<>> =>
        \A s \in Sections : \A a \in RunsAt(size, s) :
            mem[a] = IF s \in NoBits THEN ZeroWord ELSE InImage(s, a - Vma(size)[s])

\* The program's pceAppProc, pceAppExit and pceAppNotify are called only after
\* its pceAppInit has returned in the same launch, wherever the kernel sends a
\* notification and whatever an earlier launch left in memory.
CallbacksAfterInit == call \in {"Proc", "Exit", "Notify"} => inited

\* On a BIOS older than APPSYSVER no function of the program runs at all.
OldBiosRunsNothing == bios = "old" => call = "none"
=============================================================================
