---------------------------- MODULE Tools_proofs ----------------------------
(***************************************************************************)
(* The start-up code keeps the program's functions apart for every program *)
(* that fits the linker script and any number of launches.  What has to be *)
(* carried along is the word crt_initialized, which is one of the words    *)
(* the start-up code itself clears: zero from the clearing of .bss on, it  *)
(* must survive the copying into the internal RAM.  Then: the image comes  *)
(* through ppack, the kernel's loader and the start-up copies to the place *)
(* it was linked to run at, and through elf2srf to the srf file.  At the   *)
(* end, memcpy and memset move what they are told to, for every memory     *)
(* size, address and length; and the menu starts the program it shows,     *)
(* whatever happens to its list.                                           *)
(***************************************************************************)
EXTENDS AppStart, SrfExec, MemRoutines, Menu, LoopLemmas

Cleared == {"copy_fastrun", "copy_fastdata", "clear_fastbss", "version_check",
            "constructors", "in_init"}

\* The invariant: where the flag is known, and who may have been called.
StartInv ==
    /\ size \in Sizes /\ Fits(size)
    /\ DOMAIN mem = Addresses
    /\ bios \in {"new", "old"}
    /\ pc \in Cleared => mem[crt_initialized] = ZeroWord
    /\ pc = "running" => mem[crt_initialized] = ZeroWord \/ inited
    /\ pc = "set_flag" => inited
    /\ pc \in {"constructors", "in_init"} => bios = "new"
    /\ CallbacksAfterInit
    /\ OldBiosRunsNothing

\* The word crt_initialized is in .bss and outside the internal RAM, where
\* .fastrun, .fastdata and .fastbss run.
LEMMA FlagPlace ==
    ASSUME size \in Sizes, Fits(size)
    PROVE  /\ crt_initialized \in Addresses
           /\ crt_initialized \in RunsAt(size, "bss")
           /\ crt_initialized \notin RunsAt(size, "fastrun")
           /\ crt_initialized \notin RunsAt(size, "fastdata")
           /\ crt_initialized \notin RunsAt(size, "fastbss")
<1> DEFINE V == Vma(size)
<1>1. /\ size.text \in Nat /\ size.init_array \in Nat /\ size.data \in Nat
      /\ size.fastdata \in Nat /\ size.fastbss \in Nat /\ size.fastrun \in Nat
      /\ size.bss \in Nat \ {0}
      BY DEF Sizes
<1>2. /\ V.bss = SRAM + size.text + size.init_array + size.data + size.fastdata + size.fastrun
      /\ V.fastdata = IRAM
      /\ V.fastbss = IRAM + size.fastdata
      /\ V.fastrun = IRAM + size.fastdata + size.fastbss
      BY <1>1, LinkAssumption DEF Vma, Lma
<1>3. /\ V.fastrun + size.fastrun <= IRAM_END
      /\ V.bss + size.bss <= SRAM_END
      BY DEF Fits, _pceheapstart
<1>4. /\ V.bss \in Int /\ V.bss >= SRAM /\ V.bss < V.bss + size.bss
      BY <1>1, <1>2, LinkAssumption
<1>5. V.bss \in Addresses /\ V.bss \in RunsAt(size, "bss")
      BY <1>1, <1>3, <1>4, LinkAssumption DEF Addresses, RunsAt, Words
<1>6. \A a \in RunsAt(size, "fastrun") \union RunsAt(size, "fastdata") \union RunsAt(size, "fastbss") :
          a < IRAM_END
      BY <1>1, <1>2, <1>3, LinkAssumption DEF RunsAt, Words
<1>7. IRAM_END < V.bss
      BY <1>4, LinkAssumption
<1> QED BY <1>4, <1>5, <1>6, <1>7, LinkAssumption DEF crt_initialized

\* The start-up's invariant holds before the file is opened.
LEMMA StartInvInit == StartInit => StartInv
<1> SUFFICES ASSUME StartInit PROVE StartInv OBVIOUS
<1> USE DEF StartInit, PpackInit
<1>1. DOMAIN mem = Addresses OBVIOUS
<1>2. size \in Sizes /\ Fits(size) /\ bios \in {"new", "old"}
      BY ProgramsAssumption
<1>3. pc = "open" /\ call = "none" OBVIOUS
<1> QED BY <1>1, <1>2, <1>3 DEF StartInv, Cleared, CallbacksAfterInit, OldBiosRunsNothing

\* And every step of packing, loading and starting keeps it.
LEMMA StartInvNext == StartInv /\ [StartNext]_programVars => StartInv'
<1> SUFFICES ASSUME StartInv, [StartNext]_programVars PROVE StartInv' OBVIOUS
<1>f. /\ crt_initialized \in Addresses
      /\ crt_initialized \in RunsAt(size, "bss")
      /\ crt_initialized \notin RunsAt(size, "fastrun")
      /\ crt_initialized \notin RunsAt(size, "fastdata")
      /\ crt_initialized \notin RunsAt(size, "fastbss")
      BY FlagPlace DEF StartInv
<1>s. ASSUME size' = size PROVE crt_initialized' = crt_initialized
      BY <1>s DEF crt_initialized
<1> USE DEF StartInv, Cleared, CallbacksAfterInit, OldBiosRunsNothing
<1>1. CASE Packing
      <2>1. /\ UNCHANGED <<size, mem, bios, call, inited>>
            /\ pc' \in {"open", "copy", "failed", "packed"}
            BY <1>1 DEF Packing, Pack, FirstPass, Unreadable, CopySegment, EncodePack, packVars, startVars
      <2> QED BY <2>1
<1>2. CASE LoadApp
      <2>1. /\ UNCHANGED <<size, bios>> /\ DOMAIN mem' = Addresses
            /\ pc' = "clear_bss" /\ call' = "none"
            BY <1>2 DEF LoadApp, packVars
      <2> QED BY <2>1
<1>3. CASE ClearBss
      <2>1. /\ UNCHANGED <<size, bios, call, inited>> /\ mem' = Memset("bss")
            /\ pc' = "copy_fastrun"
            BY <1>3 DEF ClearBss, packVars
      <2>2. DOMAIN mem' = Addresses /\ mem'[crt_initialized] = ZeroWord
            BY <2>1, <1>f DEF Memset
      <2> QED BY <2>1, <2>2, <1>s
<1>4. CASE CopyFastrun
      <2>1. /\ UNCHANGED <<size, bios, call, inited>> /\ mem' = Memcpy("fastrun")
            /\ pc = "copy_fastrun" /\ pc' = "copy_fastdata"
            BY <1>4 DEF CopyFastrun, packVars
      <2>2. DOMAIN mem' = Addresses /\ mem'[crt_initialized] = ZeroWord
            BY <2>1, <1>f DEF Memcpy
      <2> QED BY <2>1, <2>2, <1>s
<1>5. CASE CopyFastdata
      <2>1. /\ UNCHANGED <<size, bios, call, inited>> /\ mem' = Memcpy("fastdata")
            /\ pc = "copy_fastdata" /\ pc' = "clear_fastbss"
            BY <1>5 DEF CopyFastdata, packVars
      <2>2. DOMAIN mem' = Addresses /\ mem'[crt_initialized] = ZeroWord
            BY <2>1, <1>f DEF Memcpy
      <2> QED BY <2>1, <2>2, <1>s
<1>6. CASE ClearFastbss
      <2>1. /\ UNCHANGED <<size, bios, call, inited>> /\ mem' = Memset("fastbss")
            /\ pc = "clear_fastbss" /\ pc' = "version_check"
            BY <1>6 DEF ClearFastbss, packVars
      <2>2. DOMAIN mem' = Addresses /\ mem'[crt_initialized] = ZeroWord
            BY <2>1, <1>f DEF Memset
      <2> QED BY <2>1, <2>2, <1>s
<1>7. CASE VersionCheck
      <2>1. /\ UNCHANGED <<size, mem, bios, call, inited>> /\ pc = "version_check"
            /\ pc' = IF bios = "old" THEN "running" ELSE "constructors"
            BY <1>7 DEF VersionCheck, packVars, startVars
      <2> QED BY <2>1, <1>s
<1>8. CASE Constructor
      <2>1. /\ UNCHANGED <<size, pc, mem, bios, inited>> /\ pc = "constructors"
            /\ call' = "constructor"
            BY <1>8 DEF Constructor, packVars
      <2> QED BY <2>1, <1>s
<1>9. CASE CallInit
      <2>1. /\ UNCHANGED <<size, mem, bios, inited>> /\ pc = "constructors"
            /\ pc' = "in_init" /\ call' = "Init"
            BY <1>9 DEF CallInit, packVars
      <2> QED BY <2>1, <1>s
<1>10. CASE InitReturns
      <2>1. /\ UNCHANGED <<size, bios, call>> /\ pc = "in_init" /\ pc' = "set_flag"
            /\ inited' /\ DOMAIN mem' = Addresses
            BY <1>10 DEF InitReturns, packVars, Scribbled
      <2> QED BY <2>1, <1>s
<1>11. CASE SetFlag
      <2>1. /\ UNCHANGED <<size, bios, call, inited>> /\ pc = "set_flag" /\ pc' = "running"
            /\ DOMAIN mem' = DOMAIN mem
            BY <1>11 DEF SetFlag, packVars
      <2> QED BY <2>1, <1>s
<1>12. CASE pceAppProc00
      <2>1. /\ UNCHANGED <<size, pc, mem, bios, inited>> /\ pc = "running"
            /\ call' = IF PassesOn THEN "Proc" ELSE call
            BY <1>12 DEF pceAppProc00, packVars
      <2> QED BY <2>1, <1>s DEF PassesOn
<1>13. CASE pceAppExit00
      <2>1. /\ UNCHANGED <<size, mem, bios, inited>> /\ pc = "running" /\ pc' = "exited"
            /\ call' = IF PassesOn THEN "Exit" ELSE call
            BY <1>13 DEF pceAppExit00, packVars
      <2> QED BY <2>1, <1>s DEF PassesOn
<1>14. CASE pceAppNotify00
      <2>1. /\ UNCHANGED <<size, pc, mem, bios, inited>>
            /\ pc \in {"version_check", "constructors", "in_init", "running"}
            /\ call' = IF PassesOn THEN "Notify" ELSE call
            BY <1>14 DEF pceAppNotify00, packVars
      <2> QED BY <2>1, <1>s DEF PassesOn
<1>15. CASE OtherProgram
      <2>1. /\ UNCHANGED <<size, pc, bios, call, inited>> /\ pc = "exited"
            /\ DOMAIN mem' = Addresses
            BY <1>15 DEF OtherProgram, packVars
      <2> QED BY <2>1
<1>16. CASE UNCHANGED programVars
      <2>1. UNCHANGED <<size, pc, mem, bios, call, inited>>
            BY <1>16 DEF programVars, packVars, startVars
      <2> QED BY <2>1, <1>s
<1> QED BY <1>1, <1>2, <1>3, <1>4, <1>5, <1>6, <1>7, <1>8, <1>9, <1>10, <1>11, <1>12,
           <1>13, <1>14, <1>15, <1>16 DEF StartNext, Init00

\* The invariant holds in every state.
THEOREM StartInductive == StartSpec => []StartInv
BY StartInvInit, StartInvNext, PTL DEF StartSpec

\* Whatever the program and whenever the kernel notifies, pceAppProc,
\* pceAppExit and pceAppNotify run only after pceAppInit has returned.
THEOREM InitRunsFirst == StartSpec => []CallbacksAfterInit
<1>1. StartInv => CallbacksAfterInit BY DEF StartInv
<1> QED BY StartInductive, <1>1, PTL

\* On an old BIOS no function of the program runs, not even a constructor.
THEOREM VersionIsChecked == StartSpec => []OldBiosRunsNothing
<1>1. StartInv => OldBiosRunsNothing BY DEF StartInv
<1> QED BY StartInductive, <1>1, PTL

-----------------------------------------------------------------------------
(***************************************************************************)
(* Every word reaches the address it runs at.  The words are followed from *)
(* the packer's buffer through the payload into the external RAM, where    *)
(* .fastrun and .fastdata wait for the start-up code.                      *)
(***************************************************************************)

\* The sections with bytes in the file.
StoredSections == Sections \ NoBits

\* A word of section s in a buffer that begins with the program's first word.
PackedWord(buffer, s, k) == buffer[Lma(size)[s] + k - SRAM] = InImage(s, k)

\* Between two program headers: those read so far are in databuff.
PackInv ==
    /\ pc \in {"open", "copy"} => endadrs \in Nat /\ DOMAIN databuff = 0 .. BUFF - 1
    /\ pc = "copy" =>
        /\ topadrs = SRAM /\ seg \in 1 .. 8
        /\ \A j \in 1 .. seg - 1 : Order[j] \in StoredSections =>
              \A k \in 0 .. size[Order[j]] - 1 :
                 /\ Lma(size)[Order[j]] + k < endadrs
                 /\ Lma(size)[Order[j]] + k - SRAM \in 0 .. BUFF - 1
                 /\ PackedWord(databuff, Order[j], k)

\* From then on they are in the payload.
PexInv ==
    pc \notin {"open", "copy", "failed"} =>
        /\ pex.top_adrs = SRAM
        /\ \A s \in StoredSections : \A k \in 0 .. size[s] - 1 :
              /\ Lma(size)[s] + k \in Words(SRAM, pex.length)
              /\ PackedWord(pex.data, s, k)

\* Where the words are in memory, before and after the start-up code moves them.
AtLma(s) == \A k \in 0 .. size[s] - 1 : mem[Lma(size)[s] + k] = InImage(s, k)
InPlace(s) ==
    \A a \in RunsAt(size, s) :
        mem[a] = IF s \in NoBits THEN ZeroWord ELSE InImage(s, a - Vma(size)[s])

Starting == {"clear_bss", "copy_fastrun", "copy_fastdata", "clear_fastbss",
             "version_check", "constructors"}

PlacesInv ==
    /\ pc \in Starting => \A s \in StoredSections : AtLma(s)
    /\ pc \in Starting \ {"clear_bss"} => InPlace("bss")
    /\ pc \in Starting \ {"clear_bss", "copy_fastrun"} => InPlace("fastrun")
    /\ pc \in {"clear_fastbss", "version_check", "constructors"} => InPlace("fastdata")
    /\ pc \in {"version_check", "constructors"} => InPlace("fastbss")

\* The sections in the linker script's order.
LEMMA OrderFacts ==
    /\ Len(Order) = 7 /\ DOMAIN Order = 1 .. 7
    /\ \A k \in 1 .. 7 : Order[k] \in Sections
    /\ \A s \in Sections : \E k \in 1 .. 7 : Order[k] = s
    /\ \A j, k \in 1 .. 7 : Order[j] = Order[k] => j = k
BY DEF Order, Sections

\* The sizes are numbers, and the linker script lays out the stored bytes one
\* section after the other from SRAM on, .bss behind them.
LEMMA Layout ==
    ASSUME NEW prog \in Sizes, Fits(prog)
    PROVE  /\ \A s \in Sections : prog[s] \in Nat /\ Lma(prog)[s] \in Nat /\ Vma(prog)[s] \in Nat
           /\ \A s \in StoredSections : SRAM <= Lma(prog)[s] /\ Lma(prog)[s] + prog[s] <= Vma(prog).bss
           /\ \A s, r \in StoredSections : s # r =>
                 Lma(prog)[s] + prog[s] <= Lma(prog)[r] \/ Lma(prog)[r] + prog[r] <= Lma(prog)[s]
           /\ Vma(prog).bss + prog.bss <= SRAM_END /\ prog.bss > 0
           /\ (\E s \in StoredSections : prog[s] > 0) => \E s \in StoredSections : prog[s] > 0 /\ Lma(prog)[s] = SRAM
<1>1. /\ prog.text \in Nat /\ prog.init_array \in Nat /\ prog.data \in Nat
      /\ prog.fastdata \in Nat /\ prog.fastbss \in Nat /\ prog.fastrun \in Nat
      /\ prog.bss \in Nat \ {0}
      BY DEF Sizes
<1> DEFINE L == Lma(prog)
<1> DEFINE V == Vma(prog)
<1>2. /\ L.text = SRAM
      /\ L.init_array = SRAM + prog.text
      /\ L.data = SRAM + prog.text + prog.init_array
      /\ L.fastdata = SRAM + prog.text + prog.init_array + prog.data
      /\ L.fastrun = SRAM + prog.text + prog.init_array + prog.data + prog.fastdata
      /\ L.bss = SRAM + prog.text + prog.init_array + prog.data + prog.fastdata + prog.fastrun
      /\ L.fastbss = IRAM + prog.fastdata
      BY DEF Lma
<1>3. /\ V.text = L.text /\ V.init_array = L.init_array /\ V.data = L.data /\ V.bss = L.bss
      /\ V.fastdata = IRAM
      /\ V.fastbss = IRAM + prog.fastdata
      /\ V.fastrun = IRAM + prog.fastdata + prog.fastbss
      BY DEF Vma, Lma
<1>4. SRAM \in Nat /\ IRAM \in Nat
      BY LinkAssumption
<1>5. V.bss + prog.bss <= SRAM_END
      BY DEF Fits, _pceheapstart
<1> HIDE DEF L, V
<1>6. \A s \in Sections : prog[s] \in Nat /\ L[s] \in Nat /\ V[s] \in Nat
      BY <1>1, <1>2, <1>3, <1>4 DEF Sections
<1>7. \A s \in StoredSections : SRAM <= L[s] /\ L[s] + prog[s] <= V.bss
      BY <1>1, <1>2, <1>3, <1>4 DEF StoredSections, Sections, NoBits
<1>8. \A s, r \in StoredSections : s # r => L[s] + prog[s] <= L[r] \/ L[r] + prog[r] <= L[s]
      BY <1>1, <1>2, <1>3, <1>4 DEF StoredSections, Sections, NoBits
<1>9. ASSUME \E s \in StoredSections : prog[s] > 0
      PROVE  \E s \in StoredSections : prog[s] > 0 /\ L[s] = SRAM
      BY <1>1, <1>2, <1>4, <1>9 DEF StoredSections, Sections, NoBits
<1> QED BY <1>1, <1>5, <1>6, <1>7, <1>8, <1>9 DEF L, V

\* Where the sections run: those with no copy to make where they are stored,
\* the others apart from each other in the internal RAM.
LEMMA RunPlaces ==
    ASSUME NEW prog \in Sizes, Fits(prog)
    PROVE  /\ \A s \in {"text", "init_array", "data", "bss"} : Vma(prog)[s] = Lma(prog)[s]
           /\ \A s \in {"fastdata", "fastbss", "fastrun"} : RunsAt(prog, s) \subseteq IRAM .. IRAM_END - 1
           /\ \A s, r \in {"fastdata", "fastbss", "fastrun"} : s # r =>
                 RunsAt(prog, s) \cap RunsAt(prog, r) = {}
           /\ \A s \in Sections : RunsAt(prog, s) \subseteq Addresses
<1>1. /\ prog.text \in Nat /\ prog.init_array \in Nat /\ prog.data \in Nat
      /\ prog.fastdata \in Nat /\ prog.fastbss \in Nat /\ prog.fastrun \in Nat
      /\ prog.bss \in Nat \ {0}
      BY DEF Sizes
<1> DEFINE L == Lma(prog)
<1> DEFINE V == Vma(prog)
<1>2. /\ L.text = SRAM
      /\ L.init_array = SRAM + prog.text
      /\ L.data = SRAM + prog.text + prog.init_array
      /\ L.bss = SRAM + prog.text + prog.init_array + prog.data + prog.fastdata + prog.fastrun
      BY DEF Lma
<1>3. /\ V.text = L.text /\ V.init_array = L.init_array /\ V.data = L.data /\ V.bss = L.bss
      /\ V.fastdata = IRAM
      /\ V.fastbss = IRAM + prog.fastdata
      /\ V.fastrun = IRAM + prog.fastdata + prog.fastbss
      BY DEF Vma, Lma
<1>4. /\ V.fastrun + prog.fastrun <= IRAM_END
      /\ V.bss + prog.bss <= SRAM_END
      BY DEF Fits, _pceheapstart
<1> HIDE DEF L, V
<1>5. \A s \in {"text", "init_array", "data", "bss"} : V[s] = L[s]
      BY <1>3
<1>6. \A s \in {"fastdata", "fastbss", "fastrun"} : Words(V[s], prog[s]) \subseteq IRAM .. IRAM_END - 1
      BY <1>1, <1>3, <1>4, LinkAssumption DEF Words
<1>7. \A s, r \in {"fastdata", "fastbss", "fastrun"} : s # r => Words(V[s], prog[s]) \cap Words(V[r], prog[r]) = {}
      BY <1>1, <1>3, LinkAssumption DEF Words
<1>8. \A s \in {"text", "init_array", "data", "bss"} : Words(V[s], prog[s]) \subseteq Addresses
      BY <1>1, <1>2, <1>3, <1>4, LinkAssumption DEF Words, Addresses
<1>9. IRAM .. IRAM_END - 1 \subseteq Addresses
      BY LinkAssumption DEF Addresses
<1> QED BY <1>5, <1>6, <1>7, <1>8, <1>9 DEF L, V, RunsAt, Sections

\* No two sections run in the same place.
LEMMA RunsApart ==
    ASSUME NEW prog \in Sizes, Fits(prog), NEW s \in Sections, NEW r \in Sections, s # r
    PROVE  RunsAt(prog, s) \cap RunsAt(prog, r) = {}
<1> DEFINE fast == {"fastdata", "fastbss", "fastrun"}
<1> DEFINE slow == {"text", "init_array", "data", "bss"}
<1>1. \A t \in slow : \A a \in RunsAt(prog, t) : a \in Int /\ a >= SRAM
  <2>1. \A t \in slow : Vma(prog)[t] \in Nat /\ prog[t] \in Nat /\ Vma(prog)[t] >= SRAM
    <3>1. \A t \in Sections : prog[t] \in Nat /\ Vma(prog)[t] \in Nat /\ Lma(prog)[t] \in Nat
          BY Layout
    <3>2. \A t \in {"text", "init_array", "data"} : Lma(prog)[t] >= SRAM /\ Lma(prog)[t] + prog[t] <= Vma(prog).bss
          BY Layout, LinkAssumption, <3>1 DEF StoredSections, NoBits, Sections
    <3>3. Vma(prog).bss >= SRAM
          BY <3>1, <3>2, LinkAssumption DEF Sections
    <3> QED BY <3>1, <3>2, <3>3, RunPlaces DEF Sections
  <2> QED BY <2>1, LinkAssumption DEF RunsAt, Words
<1>2. \A t \in fast : \A a \in RunsAt(prog, t) : a \in Int /\ a < SRAM
      BY RunPlaces, LinkAssumption
<1>3. s \in fast /\ r \in fast => RunsAt(prog, s) \cap RunsAt(prog, r) = {}
      BY RunPlaces
<1>4. s \in slow /\ r \in slow => RunsAt(prog, s) \cap RunsAt(prog, r) = {}
  <2> SUFFICES ASSUME s \in slow, r \in slow PROVE RunsAt(prog, s) \cap RunsAt(prog, r) = {}
      OBVIOUS
  <2>1. \A t \in Sections : prog[t] \in Nat /\ Vma(prog)[t] \in Nat /\ Lma(prog)[t] \in Nat
        BY Layout
  <2>2. Vma(prog)[s] = Lma(prog)[s] /\ Vma(prog)[r] = Lma(prog)[r]
        BY RunPlaces
  <2>3. Vma(prog)[s] + prog[s] <= Vma(prog)[r] \/ Vma(prog)[r] + prog[r] <= Vma(prog)[s]
    <3>1. CASE s = "bss"
          BY <3>1, <2>2, Layout DEF StoredSections, NoBits, Sections
    <3>2. CASE r = "bss"
          BY <3>2, <2>2, Layout DEF StoredSections, NoBits, Sections
    <3>3. CASE s # "bss" /\ r # "bss"
          BY <3>3, <2>2, Layout DEF StoredSections, NoBits, Sections
    <3> QED BY <3>1, <3>2, <3>3
  <2> QED BY <2>1, <2>3 DEF RunsAt, Words
<1>5. (s \in slow /\ r \in fast) \/ (r \in slow /\ s \in fast) \/ (s \in fast /\ r \in fast) \/ (s \in slow /\ r \in slow)
      BY DEF Sections
<1> QED BY <1>1, <1>2, <1>3, <1>4, <1>5, LinkAssumption

\* The packer keeps its buffer right.  The first pass takes SRAM for the lowest
\* address, for the first section that has bytes is stored there.
LEMMA PackKeepsInv ==
    ASSUME StartInv, PackInv, PexInv, Packing
    PROVE  PackInv' /\ PexInv'
<1> USE OrderFacts
<1>0. size \in Sizes /\ Fits(size)
      BY DEF StartInv
<1>l. /\ \A s \in Sections : size[s] \in Nat /\ Lma(size)[s] \in Nat /\ Vma(size)[s] \in Nat
      /\ \A s \in StoredSections : SRAM <= Lma(size)[s] /\ Lma(size)[s] + size[s] <= Vma(size).bss
      /\ \A s, r \in StoredSections : s # r =>
            Lma(size)[s] + size[s] <= Lma(size)[r] \/ Lma(size)[r] + size[r] <= Lma(size)[s]
      /\ (\E s \in StoredSections : size[s] > 0) => \E s \in StoredSections : size[s] > 0 /\ Lma(size)[s] = SRAM
      BY <1>0, Layout
<1>s. /\ DOMAIN Segments(size) = 1 .. 7 /\ Len(Segments(size)) = 7
      /\ \A k \in 1 .. 7 : Segments(size)[k] = Segment(size, Order[k])
      BY DEF Segments, Order
<1>k. SRAM \in Nat /\ BUFF \in Nat
      BY LinkAssumption, ProgramsAssumption
<1>1. CASE FirstPass
  <2>1. size' = size /\ endadrs' = endadrs /\ databuff' = databuff /\ pex' = pex /\ pc = "open"
        BY <1>1 DEF FirstPass
  <2>2. CASE Loaded = {}
        BY <1>1, <2>1, <2>2 DEF FirstPass, PackInv, PexInv
  <2>3. CASE Loaded # {}
    <3> DEFINE stored == {Segments(size)[k].p_paddr : k \in Loaded}
    <3>1. pc' = "copy" /\ seg' = 1 /\ topadrs' = Min(stored)
          BY <1>1, <2>3 DEF FirstPass
    <3>2. \A k \in 1 .. 7 : k \in Loaded <=> Order[k] \in StoredSections /\ size[Order[k]] > 0
          BY <1>s, <1>l DEF Loaded, Segment, StoredSections
    <3>3. stored = {Lma(size)[Order[k]] : k \in Loaded}
          BY <1>s DEF Loaded, Segment
    <3>4. \A a \in stored : a \in Nat /\ SRAM <= a
          BY <3>2, <3>3, <1>l, <1>s DEF Loaded, StoredSections
    <3>5. SRAM \in stored
      <4>1. \E s \in StoredSections : size[s] > 0
            BY <2>3, <3>2, <1>s DEF Loaded
      <4>2. PICK s \in StoredSections : size[s] > 0 /\ Lma(size)[s] = SRAM
            BY <4>1, <1>l
      <4>3. PICK k \in 1 .. 7 : Order[k] = s
            BY DEF StoredSections
      <4> QED BY <4>2, <4>3, <3>2, <3>3
    <3>6. Min(stored) = SRAM
          BY <3>4, <3>5, <1>k DEF Min
    <3> QED BY <2>1, <3>1, <3>6 DEF PackInv, PexInv
  <2> QED BY <2>2, <2>3
<1>2. CASE Unreadable
      BY <1>2 DEF Unreadable, packVars, PackInv, PexInv
<1>3. CASE CopySegment
  <2>1. /\ pc = "copy" /\ seg \in 1 .. 7 /\ topadrs = SRAM
        /\ UNCHANGED <<size, topadrs, pex>>
        BY <1>3, <1>s DEF CopySegment, PackInv
  <2> DEFINE s == Order[seg]
  <2> DEFINE ph == Segment(size, s)
  <2> DEFINE at == Lma(size)[s] - SRAM
  <2>2. /\ ph.sec = s /\ ph.p_paddr = Lma(size)[s]
        /\ ph.p_filesz = IF s \in NoBits THEN 0 ELSE size[s]
        BY DEF Segment
  <2>3. Segments(size)[seg] = ph /\ s \in Sections
        BY <2>1, <1>s
  <2>4. CASE ph.p_filesz = 0 /\ seg' = seg + 1 /\ UNCHANGED <<pc, endadrs, databuff>>
    <3>1. \A j \in 1 .. seg' - 1 : j \in 1 .. seg - 1 \/ j = seg
          BY <2>1, <2>4
    <3>2. s \in StoredSections => size[s] = 0
          BY <2>2, <2>3, <2>4 DEF StoredSections
    <3>3. \A j \in 1 .. seg' - 1 : Order[j] \in StoredSections =>
             \A k \in 0 .. size[Order[j]] - 1 : j \in 1 .. seg - 1
          BY <3>1, <3>2
    <3>4. seg' \in 1 .. 8
          BY <2>1, <2>4
    <3> QED BY <2>1, <2>4, <3>3, <3>4 DEF PackInv, PexInv, PackedWord
  <2>5. CASE pc' = "failed" /\ UNCHANGED <<seg, endadrs, databuff>>
        BY <2>1, <2>5 DEF PackInv, PexInv
  <2>6. CASE /\ ph.p_filesz > 0 /\ at + ph.p_filesz < BUFF
             /\ databuff' = [k \in DOMAIN databuff |->
                   IF k \in Words(at, ph.p_filesz) THEN InImage(s, k - at) ELSE databuff[k]]
             /\ endadrs' = Max({endadrs, Lma(size)[s] + ph.p_filesz})
             /\ seg' = seg + 1
             /\ UNCHANGED pc
    <3>1. s \in StoredSections /\ ph.p_filesz = size[s]
          BY <2>2, <2>3, <2>6 DEF StoredSections
    <3>2. size[s] \in Nat /\ Lma(size)[s] \in Nat /\ SRAM <= Lma(size)[s]
          BY <2>3, <3>1, <1>l
    <3>3. endadrs \in Nat /\ DOMAIN databuff = 0 .. BUFF - 1
          BY <2>1 DEF PackInv
    <3>4. endadrs' \in Nat /\ endadrs <= endadrs' /\ Lma(size)[s] + size[s] <= endadrs'
      <4> DEFINE top == Lma(size)[s] + size[s]
      <4>1. endadrs' = Max({endadrs, top}) /\ top \in Nat
            BY <2>6, <3>1, <3>2
      <4>2. Max({endadrs, top}) = IF endadrs >= top THEN endadrs ELSE top
            BY <4>1, <3>3 DEF Max
      <4> QED BY <4>1, <4>2, <3>3
    <3>5. \A k \in 0 .. BUFF - 1 :
             databuff'[k] = IF k \in Words(at, size[s]) THEN InImage(s, k - at) ELSE databuff[k]
          BY <2>6, <3>1, <3>3
    <3>6. ASSUME NEW j \in 1 .. seg' - 1, Order[j] \in StoredSections, NEW k \in 0 .. size[Order[j]] - 1
          PROVE  /\ Lma(size)[Order[j]] + k < endadrs'
                 /\ Lma(size)[Order[j]] + k - SRAM \in 0 .. BUFF - 1
                 /\ PackedWord(databuff', Order[j], k)
      <4>1. CASE j = seg
        <5>1. k \in Nat /\ k < size[s]
              BY <4>1, <3>2
        <5>2. Lma(size)[s] + k - SRAM \in Words(at, size[s]) /\ Lma(size)[s] + k - SRAM \in 0 .. BUFF - 1
              BY <5>1, <2>6, <3>1, <3>2, <1>k DEF Words
        <5>4. PackedWord(databuff', s, k)
          <6> DEFINE i == Lma(size)[s] + k - SRAM
          <6>1. databuff'[i] = InImage(s, i - at)
                BY <5>2, <3>5
          <6>2. i - at = k
                BY <5>1, <3>2, <1>k
          <6>3. databuff'[i] = InImage(s, k)
                BY <6>1, <6>2
          <6> QED BY <6>3 DEF PackedWord
        <5>5. Lma(size)[s] + k < endadrs'
              BY <5>1, <3>2, <3>4
        <5> QED BY <4>1, <5>2, <5>4, <5>5
      <4>2. CASE j # seg
        <5> DEFINE r == Order[j]
        <5>1. j \in 1 .. seg - 1 /\ j \in 1 .. 7
              BY <2>1, <2>6, <4>2
        <5>2. /\ Lma(size)[r] + k < endadrs /\ Lma(size)[r] + k - SRAM \in 0 .. BUFF - 1
              /\ PackedWord(databuff, r, k)
              BY <2>1, <3>6, <5>1 DEF PackInv
        <5>3. r # s /\ size[r] \in Nat /\ Lma(size)[r] \in Nat
              BY <2>1, <5>1, <4>2, <1>l, <3>6
        <5>4. Lma(size)[r] + k - SRAM \notin Words(at, size[s])
              BY <5>3, <3>1, <3>2, <3>6, <1>l, <1>k DEF Words
        <5> QED BY <5>2, <5>3, <5>4, <3>3, <3>4, <3>5, <3>6 DEF PackedWord
      <4> QED BY <4>1, <4>2
    <3>7. DOMAIN databuff' = 0 .. BUFF - 1 /\ seg' \in 1 .. 8
          BY <2>1, <2>6, <3>3
    <3>8. PexInv'
          BY <2>1, <2>6 DEF PexInv
    <3>9. PackInv'
      <4>1. \A j \in 1 .. seg' - 1 : Order[j] \in StoredSections =>
              \A k \in 0 .. size'[Order[j]] - 1 :
                 /\ Lma(size')[Order[j]] + k < endadrs'
                 /\ Lma(size')[Order[j]] + k - SRAM \in 0 .. BUFF - 1
                 /\ databuff'[Lma(size')[Order[j]] + k - SRAM] = InImage(Order[j], k)
            BY <2>1, <3>6 DEF PackedWord
      <4> QED BY <2>1, <2>6, <3>4, <3>7, <4>1 DEF PackInv, PackedWord
    <3> QED BY <3>8, <3>9
  <2>7. \/ ph.p_filesz = 0 /\ seg' = seg + 1 /\ UNCHANGED <<pc, endadrs, databuff>>
        \/ pc' = "failed" /\ UNCHANGED <<seg, endadrs, databuff>>
        \/ /\ ph.p_filesz > 0 /\ at + ph.p_filesz < BUFF
           /\ databuff' = [k \in DOMAIN databuff |->
                 IF k \in Words(at, ph.p_filesz) THEN InImage(s, k - at) ELSE databuff[k]]
           /\ endadrs' = Max({endadrs, Lma(size)[s] + ph.p_filesz})
           /\ seg' = seg + 1
           /\ UNCHANGED pc
    <3> HIDE DEF ph, s
    <3> QED BY <1>3, <2>1, <2>2, <2>3 DEF CopySegment
  <2> QED BY <2>4, <2>5, <2>6, <2>7
<1>4. CASE EncodePack
  <2>1. /\ pc = "copy" /\ seg = 8 /\ pc' = "packed" /\ size' = size
        /\ topadrs = SRAM /\ endadrs \in Nat
        BY <1>4, <1>s DEF EncodePack, PackInv
  <2>2. /\ pex'.top_adrs = SRAM /\ pex'.length = endadrs - SRAM
        /\ pex'.data = [k \in 0 .. endadrs - SRAM - 1 |-> databuff[k]]
        BY <1>4, <2>1 DEF EncodePack, arcs
  <2>3. ASSUME NEW s \in StoredSections, NEW k \in 0 .. size[s] - 1
        PROVE  /\ Lma(size)[s] + k \in Words(SRAM, pex'.length)
               /\ PackedWord(pex'.data, s, k)
    <3>1. PICK j \in 1 .. 7 : Order[j] = s
          BY DEF StoredSections
    <3>2. Lma(size)[s] + k < endadrs /\ PackedWord(databuff, s, k)
          BY <2>1, <2>3, <3>1 DEF PackInv
    <3>3. size[s] \in Nat /\ Lma(size)[s] \in Nat /\ SRAM <= Lma(size)[s]
          BY <1>l DEF StoredSections
    <3>4. /\ Lma(size)[s] + k - SRAM \in 0 .. endadrs - SRAM - 1
          /\ Lma(size)[s] + k \in Words(SRAM, endadrs - SRAM)
          BY <2>1, <3>2, <3>3, <1>k DEF Words
    <3> QED BY <2>2, <3>2, <3>4 DEF PackedWord
  <2> QED BY <2>1, <2>2, <2>3 DEF PackInv, PexInv, PackedWord
<1> QED BY <1>1, <1>2, <1>3, <1>4 DEF Packing, Pack

\* The packer leaves memory alone, and the other steps leave the packer alone.
LEMMA ImageInvInit == StartInit => PackInv /\ PexInv /\ PlacesInv
BY ProgramsAssumption DEF StartInit, PpackInit, PackInv, PexInv, PlacesInv, Starting

\* Clearing or copying a section leaves every place outside it as it was.
LEMMA OnlyThere ==
    ASSUME NEW s, NEW a \in Addresses, a \notin RunsAt(size, s)
    PROVE  Memset(s)[a] = mem[a] /\ Memcpy(s)[a] = mem[a]
BY DEF Memset, Memcpy

\* Where the stored words are is neither in .bss nor in the internal RAM.
LEMMA StoredApart ==
    ASSUME size \in Sizes, Fits(size), NEW s \in StoredSections, NEW k \in 0 .. size[s] - 1
    PROVE  /\ Lma(size)[s] + k \in Addresses
           /\ \A r \in {"bss", "fastrun", "fastdata", "fastbss"} :
                 Lma(size)[s] + k \notin RunsAt(size, r)
<1> DEFINE a == Lma(size)[s] + k
<1>1. /\ size[s] \in Nat /\ Lma(size)[s] \in Nat /\ SRAM <= Lma(size)[s]
      /\ Lma(size)[s] + size[s] <= Vma(size).bss /\ Vma(size).bss + size.bss <= SRAM_END
      /\ size.bss \in Nat /\ Vma(size).bss \in Nat
      BY Layout DEF StoredSections, Sections
<1>2. SRAM <= a /\ a < Vma(size).bss /\ a \in Int
      BY <1>1, LinkAssumption
<1>3. a \in Addresses
      BY <1>1, <1>2, LinkAssumption DEF Addresses
<1>4. a \notin RunsAt(size, "bss")
      BY <1>1, <1>2 DEF RunsAt, Words
<1>5. \A r \in {"fastrun", "fastdata", "fastbss"} : a \notin RunsAt(size, r)
      BY <1>2, RunPlaces, LinkAssumption
<1> QED BY <1>3, <1>4, <1>5

\* The kernel puts every stored word at its place in the external RAM: the
\* payload begins at SRAM, and the first mark of the heap lies behind .bss.
LEMMA LoadAppStores ==
    ASSUME StartInv, PexInv, LoadApp
    PROVE  PlacesInv'
<1>0. size \in Sizes /\ Fits(size)
      BY DEF StartInv
<1>1. /\ pc \notin {"open", "copy", "failed"} /\ pc' = "clear_bss" /\ size' = size
      /\ mem' = [a \in Addresses |->
                    IF a = _pceheapstart(size) THEN HeapMark
                    ELSE IF a \in Words(pex.top_adrs, pex.length) THEN pex.data[a - pex.top_adrs]
                    ELSE mem[a]]
      BY DEF LoadApp, packVars
<1>2. ASSUME NEW s \in StoredSections, NEW k \in 0 .. size[s] - 1
      PROVE  mem'[Lma(size)[s] + k] = InImage(s, k)
  <2> DEFINE a == Lma(size)[s] + k
  <2>1. a \in Addresses
        BY <1>0, <1>2, StoredApart
  <2>2. a # _pceheapstart(size)
    <3>1. /\ size[s] \in Nat /\ Lma(size)[s] \in Nat /\ Lma(size)[s] + size[s] <= Vma(size).bss
          /\ size.bss \in Nat /\ Vma(size).bss \in Nat
          BY <1>0, Layout DEF StoredSections, Sections
    <3> QED BY <3>1 DEF _pceheapstart
  <2>3. /\ pex.top_adrs = SRAM /\ a \in Words(SRAM, pex.length)
        /\ PackedWord(pex.data, s, k)
        BY <1>1, <1>2 DEF PexInv
  <2>4. pex.data[a - SRAM] = InImage(s, k)
    <3>1. size[s] \in Nat /\ Lma(size)[s] \in Nat /\ SRAM \in Nat
          BY <1>0, Layout, LinkAssumption DEF StoredSections, Sections
    <3> QED BY <2>3, <3>1 DEF PackedWord
  <2> QED BY <1>1, <2>1, <2>2, <2>3, <2>4
<1> QED BY <1>1, <1>2 DEF PlacesInv, AtLma, Starting

Relocated == {"bss", "fastrun", "fastdata", "fastbss"}

\* Clearing or copying one of them leaves the stored words and the other
\* sections that are in place.
LEMMA OthersStay ==
    ASSUME size \in Sizes, Fits(size), size' = size,
           NEW r \in Relocated, mem' = Memset(r) \/ mem' = Memcpy(r)
    PROVE  /\ (\A s \in StoredSections : AtLma(s)) => \A s \in StoredSections : AtLma(s)'
           /\ \A s \in Relocated : s # r /\ InPlace(s) => InPlace(s)'
<1>1. \A a \in Addresses : a \notin RunsAt(size, r) => mem'[a] = mem[a]
      BY OnlyThere
<1>2. ASSUME NEW s \in StoredSections, AtLma(s)
      PROVE  AtLma(s)'
  <2>1. \A k \in 0 .. size[s] - 1 : mem'[Lma(size)[s] + k] = mem[Lma(size)[s] + k]
        BY <1>1, StoredApart DEF Relocated
  <2> QED BY <1>2, <2>1 DEF AtLma
<1>3. ASSUME NEW s \in Relocated, s # r, InPlace(s)
      PROVE  InPlace(s)'
  <2>1. \A a \in RunsAt(size, s) : a \in Addresses /\ a \notin RunsAt(size, r)
        BY <1>3, RunsApart, RunPlaces DEF Relocated, Sections
  <2>2. \A a \in RunsAt(size, s) : mem'[a] = mem[a]
        BY <1>1, <2>1
  <2> QED BY <1>3, <2>2 DEF InPlace
<1> QED BY <1>2, <1>3

\* A cleared section is in place.
LEMMA ClearedInPlace ==
    ASSUME size \in Sizes, Fits(size), size' = size,
           NEW r \in Relocated \cap NoBits, mem' = Memset(r)
    PROVE  InPlace(r)'
<1>1. RunsAt(size, r) \subseteq Addresses
      BY RunPlaces DEF Relocated, Sections
<1> QED BY <1>1 DEF InPlace, Memset

\* So is a copied one, whose words lie stored in order.
LEMMA CopiedInPlace ==
    ASSUME size \in Sizes, Fits(size), size' = size,
           NEW r \in Relocated \ NoBits, mem' = Memcpy(r), AtLma(r)
    PROVE  InPlace(r)'
<1>1. RunsAt(size, r) \subseteq Addresses
      BY RunPlaces DEF Relocated, Sections
<1>2. size[r] \in Nat /\ Vma(size)[r] \in Nat
      BY Layout DEF Relocated, Sections
<1>3. ASSUME NEW a \in RunsAt(size, r)
      PROVE  mem'[a] = InImage(r, a - Vma(size)[r])
  <2>1. a - Vma(size)[r] \in 0 .. size[r] - 1
        BY <1>2 DEF RunsAt, Words
  <2>2. mem'[a] = mem[Lma(size)[r] + (a - Vma(size)[r])]
        BY <1>1 DEF Memcpy
  <2> QED BY <2>1, <2>2 DEF AtLma
<1> QED BY <1>3 DEF InPlace

\* What memory holds, section by section, stays where the step before left it
\* or goes where it belongs.
LEMMA MemInvNext == StartInv /\ PackInv /\ PexInv /\ PlacesInv /\ [StartNext]_programVars => PlacesInv' /\ PackInv' /\ PexInv'
<1> SUFFICES ASSUME StartInv, PackInv, PexInv, PlacesInv, [StartNext]_programVars
             PROVE  PlacesInv' /\ PackInv' /\ PexInv'
    OBVIOUS
<1>0. size \in Sizes /\ Fits(size)
      BY DEF StartInv
<1>q. ASSUME UNCHANGED packVars, pc' \notin {"open", "copy", "failed"}, pc \notin {"open", "copy", "failed"}
      PROVE  PackInv' /\ PexInv'
      BY <1>q DEF packVars, PackInv, PexInv, PackedWord
<1>m. ASSUME UNCHANGED <<size, mem>>
      PROVE  /\ \A s : InPlace(s)' <=> InPlace(s)
             /\ \A s : AtLma(s)' <=> AtLma(s)
      BY <1>m DEF InPlace, AtLma
<1>1. CASE Packing
  <2>1. PackInv' /\ PexInv'
        BY <1>1, PackKeepsInv
  <2>2. pc' \notin Starting
        BY <1>1 DEF Packing, Pack, FirstPass, Unreadable, CopySegment, EncodePack, packVars, Starting
  <2> QED BY <2>1, <2>2 DEF PlacesInv, Starting
<1>2. CASE LoadApp
  <2>1. PlacesInv'
        BY <1>2, LoadAppStores
  <2> QED BY <2>1, <1>2, <1>q DEF LoadApp
<1>3. CASE ClearBss
  <2>1. /\ UNCHANGED packVars /\ size' = size /\ mem' = Memset("bss")
        /\ pc = "clear_bss" /\ pc' = "copy_fastrun"
        BY <1>3 DEF ClearBss, packVars
  <2>2. (\A s \in StoredSections : AtLma(s)') /\ InPlace("bss")'
        BY <1>0, <2>1, OthersStay, ClearedInPlace DEF PlacesInv, Starting, Relocated, NoBits
  <2> QED BY <1>q, <2>1, <2>2 DEF PlacesInv, Starting
<1>4. CASE CopyFastrun
  <2>1. /\ UNCHANGED packVars /\ size' = size /\ mem' = Memcpy("fastrun")
        /\ pc = "copy_fastrun" /\ pc' = "copy_fastdata"
        BY <1>4 DEF CopyFastrun, packVars
  <2>2. (\A s \in StoredSections : AtLma(s)') /\ InPlace("bss")'
        BY <1>0, <2>1, OthersStay DEF PlacesInv, Starting, Relocated
  <2>3. InPlace("fastrun")'
        BY <1>0, <2>1, CopiedInPlace DEF PlacesInv, Starting, Relocated, NoBits, StoredSections, Sections
  <2> QED BY <1>q, <2>1, <2>2, <2>3 DEF PlacesInv, Starting
<1>5. CASE CopyFastdata
  <2>1. /\ UNCHANGED packVars /\ size' = size /\ mem' = Memcpy("fastdata")
        /\ pc = "copy_fastdata" /\ pc' = "clear_fastbss"
        BY <1>5 DEF CopyFastdata, packVars
  <2>2. (\A s \in StoredSections : AtLma(s)') /\ InPlace("bss")' /\ InPlace("fastrun")'
        BY <1>0, <2>1, OthersStay DEF PlacesInv, Starting, Relocated
  <2>3. InPlace("fastdata")'
        BY <1>0, <2>1, CopiedInPlace DEF PlacesInv, Starting, Relocated, NoBits, StoredSections, Sections
  <2> QED BY <1>q, <2>1, <2>2, <2>3 DEF PlacesInv, Starting
<1>6. CASE ClearFastbss
  <2>1. /\ UNCHANGED packVars /\ size' = size /\ mem' = Memset("fastbss")
        /\ pc = "clear_fastbss" /\ pc' = "version_check"
        BY <1>6 DEF ClearFastbss, packVars
  <2>2. /\ \A s \in StoredSections : AtLma(s)'
        /\ InPlace("bss")' /\ InPlace("fastrun")' /\ InPlace("fastdata")'
        BY <1>0, <2>1, OthersStay DEF PlacesInv, Starting, Relocated
  <2>3. InPlace("fastbss")'
        BY <1>0, <2>1, ClearedInPlace DEF Relocated, NoBits
  <2> QED BY <1>q, <2>1, <2>2, <2>3 DEF PlacesInv, Starting
<1>7. CASE VersionCheck
  <2>1. /\ UNCHANGED packVars /\ UNCHANGED <<size, mem>>
        /\ pc = "version_check" /\ pc' \in {"running", "constructors"}
        BY <1>7 DEF VersionCheck, packVars, startVars
  <2> QED BY <1>m, <1>q, <2>1 DEF PlacesInv, Starting
<1>8. CASE Constructor \/ pceAppProc00 \/ pceAppNotify00
  <2>1. /\ UNCHANGED packVars /\ UNCHANGED <<size, mem, pc>>
        /\ pc \notin {"open", "copy", "failed"}
        BY <1>8 DEF Constructor, pceAppProc00, pceAppNotify00, packVars
  <2> QED BY <1>m, <1>q, <2>1 DEF PlacesInv
<1>9. CASE CallInit \/ InitReturns \/ SetFlag \/ pceAppExit00 \/ OtherProgram
  <2>1. /\ UNCHANGED packVars /\ pc \notin {"open", "copy", "failed"}
        /\ pc' \in {"in_init", "set_flag", "running", "exited"}
        BY <1>9 DEF CallInit, InitReturns, SetFlag, pceAppExit00, OtherProgram, packVars
  <2> QED BY <1>q, <2>1 DEF PlacesInv, Starting
<1>10. CASE UNCHANGED programVars
  <2>1. UNCHANGED packVars /\ UNCHANGED <<size, mem, pc>>
        BY <1>10 DEF programVars, packVars, startVars
  <2> QED BY <1>m, <2>1 DEF PlacesInv, PackInv, PexInv, PackedWord, packVars
<1> QED BY <1>1, <1>2, <1>3, <1>4, <1>5, <1>6, <1>7, <1>8, <1>9, <1>10 DEF StartNext, Init00

\* Whatever the sizes of its sections, when the first function of a program is
\* about to run every word of every section is at the address it runs at, in
\* the first launch and in every later one.
THEOREM ImageReachesItsPlace == StartSpec => []ImageInPlace
<1>1. StartInit => PackInv /\ PexInv /\ PlacesInv
      BY ImageInvInit
<1>2. StartInv /\ PlacesInv => ImageInPlace
  <2> SUFFICES ASSUME StartInv, PlacesInv, pc = "constructors", NEW s \in Sections
               PROVE  InPlace(s)
      BY DEF ImageInPlace, InPlace
  <2>1. size \in Sizes /\ Fits(size)
        BY DEF StartInv
  <2>2. CASE s \in Relocated
        BY <2>2 DEF PlacesInv, Starting, Relocated
  <2>3. CASE s \in {"text", "init_array", "data"}
    <3>1. Vma(size)[s] = Lma(size)[s] /\ Vma(size)[s] \in Nat /\ size[s] \in Nat
          BY <2>1, <2>3, RunPlaces, Layout
    <3>2. AtLma(s) /\ s \notin NoBits
          BY <2>3 DEF PlacesInv, Starting, StoredSections, NoBits
    <3>3. ASSUME NEW a \in RunsAt(size, s)
          PROVE  mem[a] = InImage(s, a - Vma(size)[s])
      <4>1. a - Vma(size)[s] \in 0 .. size[s] - 1 /\ a = Lma(size)[s] + (a - Vma(size)[s])
            BY <3>1 DEF RunsAt, Words
      <4> QED BY <3>2, <4>1 DEF AtLma
    <3> QED BY <3>2, <3>3 DEF InPlace
  <2> QED BY <2>2, <2>3 DEF Sections, Relocated
<1> QED BY <1>1, <1>2, StartInductive, MemInvNext, PTL DEF StartSpec

-----------------------------------------------------------------------------
(***************************************************************************)
(* The conversion of a program to SRF (SrfExec): the sections of a group   *)
(* are stored apart from each other, so merging them loses nothing, and    *)
(* the program header that covers a section is its own.                    *)
(***************************************************************************)

\* The code and the data sections that are not empty.
CodeSections == {s \in EXECINSTR : sz[s] > 0}
DataSections == {s \in PROGBITS \ EXECINSTR : sz[s] > 0}

\* The sections read so far are in their groups.
SrfInv ==
    /\ sz \in Sizes /\ Fits(sz)
    /\ index \in 1 .. 9
    /\ DOMAIN groups = {"code", "data", "bss"}
    /\ groups.code = {s \in CodeSections : \E j \in 1 .. 7 : j < index /\ Order[j] = s}
    /\ groups.data = {s \in DataSections : \E j \in 1 .. 7 : j < index /\ Order[j] = s}
    /\ StoredBytesKept

\* vma_to_lma finds the program header of the section itself.
LEMMA LoadAddress ==
    ASSUME sz \in Sizes, Fits(sz), NEW s \in PROGBITS, sz[s] > 0
    PROVE  load_addr(s) = Lma(sz)[s]
<1> DEFINE V == Vma(sz)[s]
<1> DEFINE covering == {k \in load_segments : V \in Words(Segments(sz)[k].p_vaddr, Segments(sz)[k].p_memsz)}
<1>1. /\ \A r \in Sections : sz[r] \in Nat /\ Lma(sz)[r] \in Nat /\ Vma(sz)[r] \in Nat
      BY Layout
<1>2. s \in Sections
      BY DEF PROGBITS, Sections
<1>3. PICK i \in 1 .. 7 : Order[i] = s
      BY <1>2, OrderFacts
<1>4. /\ DOMAIN Segments(sz) = 1 .. 7
      /\ \A k \in 1 .. 7 : Segments(sz)[k] = Segment(sz, Order[k])
      BY OrderFacts DEF Segments
<1>5. i \in covering
      BY <1>1, <1>2, <1>3, <1>4 DEF load_segments, Segment, Words
<1>6. \A r \in Sections : r # s => V \notin RunsAt(sz, r)
  <2>1. ASSUME NEW r \in Sections, r # s PROVE V \notin RunsAt(sz, r)
    <3>1. V \in RunsAt(sz, s)
          BY <1>1, <1>2 DEF RunsAt, Words
    <3> QED BY <3>1, <2>1, <1>2, RunsApart
  <2> QED BY <2>1
<1>7. covering = {i}
  <2>1. ASSUME NEW k \in covering PROVE k = i
    <3>1. k \in 1 .. 7 /\ V \in RunsAt(sz, Order[k])
          BY <1>4 DEF load_segments, Segment, RunsAt
    <3> QED BY <3>1, <1>3, <1>6, OrderFacts
  <2> QED BY <2>1, <1>5
<1>8. Min(covering) = i
      BY <1>7 DEF Min
<1> HIDE DEF covering
<1>9. /\ Segments(sz)[i].p_paddr = Lma(sz)[s] /\ Segments(sz)[i].p_vaddr = V
      BY <1>3, <1>4 DEF Segment
<1>10. load_addr(s) = Lma(sz)[s] + (V - V)
      BY <1>5, <1>8, <1>9 DEF load_addr, covering
<1> QED BY <1>1, <1>2, <1>10

\* A merged section has every word of its parts at its load address: the base is
\* the least of the load addresses, the end the greatest of the ends, and no
\* other part is stored at the same place.
LEMMA MergeKeeps ==
    ASSUME sz \in Sizes, Fits(sz),
           NEW hdrs, hdrs \subseteq PROGBITS, \A s \in hdrs : sz[s] > 0,
           NEW s \in hdrs, NEW k \in 0 .. sz[s] - 1
    PROVE  /\ Lma(sz)[s] + k - merge_sections(hdrs).s_off \in DOMAIN merge_sections(hdrs).raw
           /\ merge_sections(hdrs).raw[Lma(sz)[s] + k - merge_sections(hdrs).s_off] = <<s, k>>
<1> DEFINE L(t) == Lma(sz)[t]
<1> DEFINE bases == {load_addr(t) : t \in hdrs}
<1> DEFINE ends == {load_addr(t) + sz[t] : t \in hdrs}
<1> DEFINE base == Min(bases)
<1> DEFINE end == Max(ends)
<1> DEFINE Holders(a) == {t \in hdrs : a \in Words(load_addr(t), sz[t])}
<1> DEFINE a == L(s) + k
<1>1. \A t \in hdrs : load_addr(t) = L(t)
      BY LoadAddress
<1>2. /\ \A t \in hdrs : /\ sz[t] \in Nat /\ L(t) \in Nat /\ L(t) >= SRAM
                         /\ L(t) + sz[t] <= Vma(sz).bss
      /\ \A t, r \in hdrs : t # r => L(t) + sz[t] <= L(r) \/ L(r) + sz[r] <= L(t)
      /\ Vma(sz).bss \in Nat
      BY Layout DEF PROGBITS, StoredSections, Sections, NoBits
<1>3. base \in bases /\ \A x \in bases : base <= x
  <2>1. bases \subseteq Nat /\ bases # {}
        BY <1>1, <1>2
  <2> HIDE DEF bases
  <2> QED BY <2>1, MinIsLeast
<1>4. end \in ends /\ \A x \in ends : x <= end
  <2>1. ends \subseteq Nat /\ ends # {} /\ Vma(sz).bss \in Nat /\ \A x \in ends : x <= Vma(sz).bss
        BY <1>1, <1>2
  <2> HIDE DEF ends
  <2> QED BY <2>1, MaxIsGreatest
<1>5. base \in Nat /\ end \in Nat /\ base <= L(s) /\ L(s) + sz[s] <= end
      BY <1>1, <1>2, <1>3, <1>4
<1> HIDE DEF base, end
<1>6. a \in Nat /\ a - base \in 0 .. end - base - 1 /\ base + (a - base) = a
      BY <1>2, <1>5
<1>7. Holders(a) = {s}
  <2>1. s \in Holders(a)
        BY <1>1, <1>2 DEF Words
  <2>2. ASSUME NEW t \in Holders(a) PROVE t = s
        BY <1>1, <1>2 DEF Words
  <2> HIDE DEF Holders
  <2> QED BY <2>1, <2>2
<1> DEFINE i == a - base
<1>8. i \in 0 .. end - base - 1 /\ Holders(base + i) = {s} /\ base + i - load_addr(s) = k
  <2>1. base + i = a /\ base + i - load_addr(s) = k
        BY <1>1, <1>2, <1>5
  <2> HIDE DEF Holders, a
  <2>2. Holders(base + i) = {s}
        BY <1>7, <2>1, Zenon
  <2> QED BY <1>6, <2>1, <2>2
<1>9. Lma(sz)[s] + k - base = i
      BY <1>2, <1>5
<1> HIDE DEF i, Holders
<1>10. merge_sections(hdrs) =
          [s_off |-> base,
           raw |-> [j \in 0 .. end - base - 1 |->
              IF Holders(base + j) = {} THEN Filler
              ELSE LET t == CHOOSE t \in Holders(base + j) : TRUE IN <<t, base + j - load_addr(t)>>]]
  <2>1. hdrs # {}
        OBVIOUS
  <2> QED BY <2>1 DEF merge_sections, base, end, Holders
<1>11. /\ merge_sections(hdrs).s_off = base
       /\ i \in DOMAIN merge_sections(hdrs).raw
       /\ merge_sections(hdrs).raw[i] = <<s, k>>
       BY <1>8, <1>10
<1> QED BY <1>9, <1>11, Zenon

\* elf2srf's invariant holds before the headers are read.
LEMMA SrfInvInit ==
    ASSUME NEW progs, progs \subseteq Sizes, SrfInit(progs)
    PROVE  SrfInv
BY OrderFacts DEF SrfInit, SrfInv, CodeSections, DataSections, EXECINSTR, PROGBITS,
                  StoredBytesKept, Converted

\* And reading and writing the sections keep it.
LEMMA SrfInvNext == SrfInv /\ [SrfNext]_srfVars => SrfInv'
<1> SUFFICES ASSUME SrfInv, [SrfNext]_srfVars PROVE SrfInv' OBVIOUS
<1> USE OrderFacts
<1>1. CASE ReadHeader
  <2>1. /\ sz' = sz /\ index' = index + 1 /\ index \in 1 .. 7
        /\ index' \in 1 .. 9 /\ ~Converted'
        BY <1>1 DEF ReadHeader, SrfInv, Converted
  <2> DEFINE s == Order[index]
  <2> DEFINE group == IF s \in EXECINSTR THEN {"code"} ELSE IF s \in PROGBITS THEN {"data"}
                      ELSE IF s \in NoBits THEN {"bss"} ELSE {}
  <2>2. groups' = [g \in DOMAIN groups |->
                      IF sz[s] > 0 /\ g \in group THEN groups[g] \union {s} ELSE groups[g]]
        BY <1>1 DEF ReadHeader
  <2>3. \A j \in 1 .. 7 : j < index' <=> j < index \/ j = index
        BY <2>1
  <2>4. groups'.code = {t \in CodeSections : \E j \in 1 .. 7 : j < index' /\ Order[j] = t}
    <3>1. groups'.code = IF s \in CodeSections THEN groups.code \union {s} ELSE groups.code
          BY <2>2 DEF SrfInv, CodeSections
    <3> QED BY <2>1, <2>3, <3>1 DEF SrfInv
  <2>5. groups'.data = {t \in DataSections : \E j \in 1 .. 7 : j < index' /\ Order[j] = t}
    <3>1. groups'.data = IF s \in DataSections THEN groups.data \union {s} ELSE groups.data
          BY <2>2 DEF SrfInv, DataSections
    <3> QED BY <2>1, <2>3, <3>1 DEF SrfInv
  <2>6. DOMAIN groups' = {"code", "data", "bss"}
        BY <2>2 DEF SrfInv
  <2> QED BY <2>1, <2>4, <2>5, <2>6 DEF SrfInv, CodeSections, DataSections, StoredBytesKept
<1>2. CASE exec_elf_to_srf
  <2>1. /\ sz' = sz /\ groups' = groups /\ index = 8 /\ index' = 9
        /\ srf'.code = merge_sections(groups.code) /\ srf'.data = merge_sections(groups.data)
        BY <1>2 DEF exec_elf_to_srf
  <2>2. groups.code = CodeSections /\ groups.data = DataSections
    <3>1. \A s \in PROGBITS : \E j \in 1 .. 7 : j < index /\ Order[j] = s
          BY <2>1 DEF PROGBITS, Sections
    <3>2. EXECINSTR \subseteq PROGBITS
          BY DEF EXECINSTR, PROGBITS
    <3> QED BY <3>1, <3>2 DEF SrfInv, CodeSections, DataSections
  <2> DEFINE scn(s) == IF s \in EXECINSTR THEN srf'.code ELSE srf'.data
  <2>3. ASSUME NEW s \in PROGBITS, NEW k \in 0 .. sz[s] - 1
        PROVE  /\ Lma(sz)[s] + k - scn(s).s_off \in DOMAIN scn(s).raw
               /\ scn(s).raw[Lma(sz)[s] + k - scn(s).s_off] = <<s, k>>
    <3>1. sz[s] > 0
      <4>1. sz[s] \in Nat
            BY DEF SrfInv, Sizes, PROGBITS
      <4> QED BY <4>1, <2>3
    <3> DEFINE hdrs == IF s \in EXECINSTR THEN CodeSections ELSE DataSections
    <3>2. /\ s \in hdrs /\ hdrs \subseteq PROGBITS /\ \A t \in hdrs : sz[t] > 0
          /\ scn(s) = merge_sections(hdrs)
          BY <2>1, <2>2, <2>3, <3>1 DEF CodeSections, DataSections, EXECINSTR, PROGBITS
    <3> HIDE DEF hdrs, scn
    <3> QED BY <2>3, <3>2, MergeKeeps DEF SrfInv
  <2>4. StoredBytesKept'
        BY <2>1, <2>3 DEF StoredBytesKept
  <2>5. CodeSections' = CodeSections /\ DataSections' = DataSections
        BY <2>1 DEF CodeSections, DataSections
  <2>6. \A j \in 1 .. 7 : j < index' <=> j < index
        BY <2>1
  <2> QED BY <2>1, <2>2, <2>4, <2>5, <2>6 DEF SrfInv
<1>3. CASE UNCHANGED srfVars
  <2>1. /\ UNCHANGED <<sz, index, groups, srf>>
        /\ CodeSections' = CodeSections /\ DataSections' = DataSections
        BY <1>3 DEF srfVars, CodeSections, DataSections
  <2>2. StoredBytesKept'
        BY <2>1 DEF SrfInv, StoredBytesKept, Converted
  <2> QED BY <2>1, <2>2 DEF SrfInv
<1> QED BY <1>1, <1>2, <1>3 DEF SrfNext

\* For every program the linker script has room for, exec_elf_to_srf keeps every
\* stored word, at the load address the start-up code copies it from.
THEOREM SrfKeepsStoredWords ==
    ASSUME NEW CONSTANT progs, progs \subseteq Sizes
    PROVE  SrfInit(progs) /\ [][SrfNext]_srfVars => []StoredBytesKept
<1>1. SrfInit(progs) => SrfInv
      BY SrfInvInit
<1>2. SrfInv => StoredBytesKept
      BY DEF SrfInv
<1> QED BY <1>1, <1>2, SrfInvNext, PTL

-----------------------------------------------------------------------------
(***************************************************************************)
(* The memory routines.                                                    *)
(***************************************************************************)
\* One more store of u bytes at the end of what was moved (Advance): the bytes
\* come from where nothing was stored yet, since the areas are apart or the
\* copy goes down.
LEMMA StoreExtends ==
  ASSUME LAST \in Nat, Areas, Along, memory = Moved(r12 - dst), NEW u \in Nat, r12 + u <= dst + length,
         routine = "memset" => \A k \in 0 .. u - 1 : r13c[k] = fill[0]
  PROVE  Stored(u) = Moved(r12 + u - dst)
<1>0. /\ dst \in Nat /\ src \in Nat /\ length \in Nat /\ r12 \in Int /\ dst <= r12
      /\ dst + length <= LAST + 1 /\ src + length <= LAST + 1 /\ (dst <= src \/ src + length <= dst)
  BY DEF Areas, Along
<1>1. ASSUME NEW a \in Space, a \in r12 .. r12 + u - 1
      PROVE  Stored(u)[a] = Moved(r12 + u - dst)[a]
  <2>1. a \in dst .. dst + (r12 + u - dst) - 1 /\ a \in Int /\ a - r12 \in 0 .. u - 1 /\ r12 <= a /\ a < r12 + u
    BY <1>0, <1>1 DEF Space
  <2>2. CASE routine = "memcpy"
    <3>1. r13 + (a - r12) = src + (a - dst)
      BY <1>0, <2>1, <2>2 DEF Along
    <3>2. src + (a - dst) \in Space
      BY <1>0, <2>1 DEF Space
    <3>3. src + (a - dst) \notin dst .. dst + (r12 - dst) - 1
      BY <1>0, <2>1
    <3>4. memory[src + (a - dst)] = before[src + (a - dst)]
      BY <3>2, <3>3 DEF Moved
    <3> QED
      BY <1>1, <2>1, <2>2, <3>1, <3>4 DEF Stored, Moved
  <2>3. CASE routine = "memset"
    <3>1. r13c[a - r12] = fill[0]
      BY <2>1, <2>3
    <3> QED
      BY <1>1, <2>1, <2>3, <3>1 DEF Stored, Moved
  <2> QED
    BY <2>2, <2>3 DEF Areas
<1>2. ASSUME NEW a \in Space, a \notin r12 .. r12 + u - 1
      PROVE  Stored(u)[a] = Moved(r12 + u - dst)[a]
  <2>1. a \in dst .. dst + (r12 + u - dst) - 1 <=> a \in dst .. dst + (r12 - dst) - 1
    BY <1>0, <1>2 DEF Space
  <2>2. Stored(u)[a] = memory[a]
    BY <1>2 DEF Stored
  <2> QED
    BY <1>2, <2>1, <2>2 DEF Moved
<1>3. Stored(u) = [a \in Space |-> Stored(u)[a]] /\ Moved(r12 + u - dst) = [a \in Space |-> Moved(r12 + u - dst)[a]]
  BY DEF Stored, Moved
<1> QED
  BY <1>1, <1>2, <1>3

\* A pass of a loop that stores u bytes and leaves the rest counted.
LEMMA PassKeeps ==
  ASSUME LAST \in Nat, MemInv, NEW u \in 1 .. 4, Advance(u), r12 + u <= dst + length,
         routine = "memset" => \A k \in 0 .. u - 1 : r13c[k] = fill[0]
  PROVE  Areas' /\ Along' /\ (memory = Moved(r12 - dst))'
<1>1. Areas' /\ Along'
  BY DEF MemInv, Areas, Along, Advance, callVars, Register
<1>2. memory' = Moved(r12 + u - dst)
  BY StoreExtends DEF MemInv, Advance
<1>3. Moved(r12 - dst)' = Moved(r12 + u - dst)
  <2>1. UNCHANGED <<routine, before, dst, src, fill>> /\ r12' = r12 + u /\ r12 \in Int /\ dst \in Nat
    BY DEF Advance, callVars, MemInv, Areas, Along
  <2>2. (r12 - dst)' = r12 + u - dst
    BY <2>1
  <2> QED
    BY <2>1, <2>2, Zenon DEF Moved
<1> QED
  BY <1>1, <1>2, <1>3

\* What holds between any two passes of a loop: the bytes moved so far, and a
\* counter that fits what is left (memcpy.s, memset.s).
THEOREM MemInductive ==
  ASSUME LAST \in Nat, 0 \in ByteValues
  PROVE  MemSpec => []MemInv
<1>1. MemInit => MemInv
  <2> SUFFICES ASSUME MemInit PROVE MemInv
    OBVIOUS
  <2>1. Areas /\ Along /\ Fill /\ Counted
    BY DEF MemInit, Areas, Along, Fill, Counted, Space, Register
  <2>2. \A a \in Space : a \notin dst .. dst + (r12 - dst) - 1
    BY <2>1 DEF MemInit, Along, Areas
  <2>3. before = [a \in Space |-> before[a]]
    BY DEF MemInit
  <2>4. memory = Moved(r12 - dst)
    BY <2>2, <2>3 DEF MemInit, Moved
  <2> QED
    BY <2>1, <2>4 DEF MemInv
<1>2. MemInv /\ [MemNext]_memVars => MemInv'
  <2> SUFFICES ASSUME MemInv, [MemNext]_memVars PROVE MemInv'
    OBVIOUS
  <2>1. CASE Enter
    <3>1. UNCHANGED <<callVars, memory, r12, r13, r14>> /\ r12 = dst /\ r14 = length /\ length \in Nat /\ dst \in Nat
      BY <2>1 DEF Enter, MemInv, Counted, Areas
    <3>2. Areas' /\ Along'
      BY <3>1 DEF MemInv, Areas, Along, callVars, Register
    <3>3. (memory = Moved(r12 - dst))'
      BY <3>1 DEF MemInv, Moved, callVars
    <3>4. Fill'
      BY <2>1, <3>1 DEF Enter, Unit, Spread, MemInv, Fill, Register, callVars, Areas
    <3>5. /\ length = 4 * (length \div 4) + (length % 4) /\ length % 4 \in 0 .. 3 /\ length \div 4 \in Nat
          /\ length = 2 * (length \div 2) + (length % 2) /\ length % 2 \in 0 .. 1 /\ length \div 2 \in Nat
      BY <3>1
    <3>6. Counted'
      <4>1. CASE label' = "half"
        BY <2>1, <3>1, <3>5, <4>1 DEF Enter, Unit, Counted, callVars
      <4>2. CASE label' = "word"
        BY <2>1, <3>1, <3>5, <4>2 DEF Enter, Unit, Counted, callVars
      <4>3. CASE label' \in {"byte", "ret"}
        BY <2>1, <3>1, <4>3 DEF Enter, Unit, Counted, callVars
      <4>4. label' \in {"half", "word", "byte", "ret"}
        BY <2>1 DEF Enter
      <4> QED
        BY <4>1, <4>2, <4>3, <4>4
    <3> QED
      BY <3>2, <3>3, <3>4, <3>6 DEF MemInv
  <2>2. CASE ByteLoop
    <3>0. /\ dst \in Nat /\ length \in Nat /\ r12 \in Int /\ r10 = dst /\ r14 \in Nat \ {0} /\ r12 + r14 = dst + length
          /\ r12 + 1 <= dst + length /\ r13c[0] = fill[0] /\ UNCHANGED <<callVars, r10, r13c>> /\ r12' = r12 + 1
      BY <2>2 DEF ByteLoop, Advance, MemInv, Areas, Along, Fill, Counted
    <3>1. Areas' /\ Along' /\ (memory = Moved(r12 - dst))'
      BY <2>2, <3>0, PassKeeps DEF ByteLoop
    <3>2. Fill'
      BY <2>2, <3>0 DEF ByteLoop, MemInv, Fill, callVars, Register
    <3>3. Counted'
      BY <2>2, <3>0 DEF ByteLoop, Counted, callVars
    <3> QED
      BY <3>1, <3>2, <3>3 DEF MemInv
  <2>3. CASE HalfLoop
    <3>0. /\ dst \in Nat /\ length \in Nat /\ r12 \in Int /\ r13 \in Int /\ r10 = dst /\ r14 = length
          /\ r5 \in Nat \ {0} /\ r12 + 2 * r5 + (length % 2) = dst + length /\ r12 % 2 = 0 /\ (routine = "memcpy" => r13 % 2 = 0)
          /\ UNCHANGED <<callVars, r10, r13c>> /\ r12' = r12 + 2 /\ r13' = IF routine = "memcpy" THEN r13 + 2 ELSE r13
      BY <2>3 DEF HalfLoop, Advance, MemInv, Areas, Along, Counted
    <3>1. length % 2 \in 0 .. 1
      BY <3>0
    <3>2. r12 + 2 <= dst + length /\ (routine = "memset" => \A k \in 0 .. 1 : r13c[k] = fill[0])
      BY <2>3, <3>0, <3>1 DEF HalfLoop, MemInv, Fill
    <3>3. Areas' /\ Along' /\ (memory = Moved(r12 - dst))'
      BY <2>3, <3>2, PassKeeps DEF HalfLoop
    <3>4. Fill'
      BY <2>3, <3>0 DEF HalfLoop, AfterLoop, MemInv, Fill, callVars, Register
    <3>5. Counted'
      <4>1. CASE r5' = 0
        BY <2>3, <3>0, <3>1, <4>1 DEF HalfLoop, AfterLoop, Counted, callVars
      <4>2. CASE r5' # 0
        BY <2>3, <3>0, <4>2 DEF HalfLoop, Counted, callVars
      <4> QED
        BY <4>1, <4>2
    <3> QED
      BY <3>3, <3>4, <3>5 DEF MemInv
  <2>4. CASE WordLoop
    <3>0. /\ dst \in Nat /\ length \in Nat /\ r12 \in Int /\ r13 \in Int /\ r10 = dst /\ r14 = length
          /\ r5 \in Nat \ {0} /\ r12 + 4 * r5 + (length % 4) = dst + length /\ r12 % 4 = 0 /\ (routine = "memcpy" => r13 % 4 = 0)
          /\ UNCHANGED <<callVars, r10, r13c>> /\ r12' = r12 + 4 /\ r13' = IF routine = "memcpy" THEN r13 + 4 ELSE r13
      BY <2>4 DEF WordLoop, Advance, MemInv, Areas, Along, Counted
    <3>1. length % 4 \in 0 .. 3
      BY <3>0
    <3>2. r12 + 4 <= dst + length /\ (routine = "memset" => \A k \in 0 .. 3 : r13c[k] = fill[0])
      BY <2>4, <3>0, <3>1 DEF WordLoop, MemInv, Fill
    <3>3. Areas' /\ Along' /\ (memory = Moved(r12 - dst))'
      BY <2>4, <3>2, PassKeeps DEF WordLoop
    <3>4. Fill'
      BY <2>4, <3>0 DEF WordLoop, AfterLoop, MemInv, Fill, callVars, Register
    <3>5. Counted'
      <4>1. CASE r5' = 0
        BY <2>4, <3>0, <3>1, <4>1 DEF WordLoop, AfterLoop, Counted, callVars
      <4>2. CASE r5' # 0
        BY <2>4, <3>0, <4>2 DEF WordLoop, Counted, callVars
      <4> QED
        BY <4>1, <4>2
    <3> QED
      BY <3>3, <3>4, <3>5 DEF MemInv
  <2>5. CASE UNCHANGED memVars
    BY <2>5 DEF memVars, callVars, MemInv, Areas, Along, Fill, Counted, Moved, Register
  <2> QED
    BY <2>1, <2>2, <2>3, <2>4, <2>5 DEF MemNext
<1> QED
  BY <1>1, <1>2, PTL DEF MemSpec

\* As many bytes as asked for are moved and no other byte changes, by aligned accesses only,
\* whatever the memory, the addresses and the length.
THEOREM MovesWhatItShould ==
  ASSUME LAST \in Nat, 0 \in ByteValues
  PROVE  MemSpec => []MovesExactly
<1>1. MemInv => MovesExactly
  <2> SUFFICES ASSUME MemInv PROVE MovesExactly
    OBVIOUS
  <2>1. label = "ret" => r12 - dst = length /\ r10 = dst
    BY DEF MemInv, Areas, Along, Counted
  <2> QED
    BY <2>1 DEF MemInv, Counted, MovesExactly
<1> QED
  BY <1>1, MemInductive, PTL

-----------------------------------------------------------------------------
\* A program of the list is a file of the directory.
LEMMA ListedIsThere ==
    ASSUME NEW d, d \in Seq({d[k] : k \in DOMAIN d}), NEW k \in 1 .. Len(Listed(d))
    PROVE  \E j \in DOMAIN d : Listed(d)[k] = d[j] /\ d[j].kind \in Pexes
<1> DEFINE keep == {j \in DOMAIN d : d[j].kind \in Pexes}
<1> DEFINE T == {d[j] : j \in 1 .. Len(d) \cap keep}
<1>1. Len(d) \in Nat /\ DOMAIN d = 1 .. Len(d)
      OBVIOUS
<1>2. Listed(d) \in Seq(T)
  <2>1. Listed(d) = Selected(d, keep)
        BY DEF Listed
  <2> HIDE DEF keep
  <2> QED BY <1>1, <2>1, SelectedFrom
<1>3. Listed(d)[k] \in T
  <2> HIDE DEF T
  <2> QED BY <1>2
<1> QED BY <1>1, <1>3

\* What getdir makes of a directory.
LEMMA GetdirLists ==
    ASSUME NEW d \in Disks
    PROVE  /\ Len(Listed(d)) \in Nat /\ DOMAIN Listed(d) = 1 .. Len(Listed(d))
           /\ Count(d) \in 0 .. FMAX /\ Count(d) <= Len(Listed(d)) /\ DOMAIN getdir(d) = 0 .. FMAX - 1
           /\ \A i \in 0 .. Count(d) - 1 :
                 getdir(d)[i] = FilesEntry(Listed(d)[i + 1].name, Listed(d)[i + 1].kind = "pex")
           /\ \A n \in Nat : n <= FMAX /\ n <= Len(Listed(d)) => n <= Count(d)
<1>1. Listed(d) \in Seq({d[i] : i \in DOMAIN d})
      BY MenuAssumption, SelectedTyped DEF Listed
<1>2. FMAX \in Nat \ {0} /\ Len(Listed(d)) \in Nat /\ DOMAIN Listed(d) = 1 .. Len(Listed(d))
      BY <1>1, MenuAssumption
<1>3. Count(d) \in 0 .. FMAX /\ Count(d) <= Len(Listed(d))
      BY <1>2 DEF Count
<1>4. \A n \in Nat : n <= FMAX /\ n <= Len(Listed(d)) => n <= Count(d)
      BY <1>2 DEF Count
<1> QED BY <1>2, <1>3, <1>4 DEF getdir

\* A place of the cursor in the grid: its row is the top one on the screen or the
\* one below.
OnGrid(c) ==
    \E x \in 0 .. 2, y \in Nat, f \in Nat, q \in Nat :
        /\ c = [px |-> x, py |-> y, frame |-> f, pos |-> q]
        /\ f <= y /\ y <= f + 1

\* pos is the entry under the cursor.
Settled(c) == c.pos = c.px + 3 * c.py

\* The check of the range leaves a cursor in the grid, and alone if it is in range.
LEMMA RangeKept ==
    ASSUME NEW num \in Nat, NEW c, OnGrid(c)
    PROVE  OnGrid(InRange(c, num)) /\ (At(c) <= num => InRange(c, num) = c)
<1> PICK x \in 0 .. 2, y \in Nat, f \in Nat, q \in Nat :
        c = [px |-> x, py |-> y, frame |-> f, pos |-> q] /\ f <= y /\ y <= f + 1
    BY DEF OnGrid
<1>1. At(c) = x + 3 * y
      BY DEF At
<1>2. CASE At(c) > num
  <2> PICK z, v, g : z = num % 3 /\ v = num \div 3 /\ g = IF v <= 0 THEN 0 ELSE v - 1
      OBVIOUS
  <2>1. z \in 0 .. 2 /\ v \in Nat /\ g \in Nat /\ g <= v /\ v <= g + 1
        OBVIOUS
  <2>2. InRange(c, num) = [px |-> z, py |-> v, frame |-> g, pos |-> q]
        BY <1>2 DEF InRange
  <2>3. ~(At(c) <= num)
        BY <1>1, <1>2
  <2> QED BY <2>1, <2>2, <2>3 DEF OnGrid
<1>3. CASE ~(At(c) > num)
      BY <1>3 DEF InRange
<1> QED BY <1>2, <1>3

\* The keys move the cursor in the grid and set pos: the key to the left,
LEMMA LeftStays ==
    ASSUME NEW num \in Nat, NEW c, OnGrid(c)
    PROVE  OnGrid(Left(c, num)) /\ Settled(Left(c, num))
<1> PICK x \in 0 .. 2, y \in Nat, f \in Nat, q \in Nat :
        c = [px |-> x, py |-> y, frame |-> f, pos |-> q] /\ f <= y /\ y <= f + 1
    BY DEF OnGrid
<1> PICK z : z = IF FullRow(c, num) THEN (IF c.px = 0 THEN 2 ELSE c.px - 1)
                 ELSE IF num % 3 = 1 THEN 0 ELSE IF c.px = 0 THEN 1 ELSE 0
    OBVIOUS
<1>1. Left(c, num) = [px |-> z, py |-> y, frame |-> f, pos |-> z + 3 * y]
  <2>1. Left(c, num) = [c EXCEPT !.px = z, !.pos = z + 3 * c.py]
        BY DEF Left
  <2> QED BY <2>1
<1>2. z \in 0 .. 2 /\ z + 3 * y \in Nat
      OBVIOUS
<1>3. OnGrid(Left(c, num))
      BY <1>1, <1>2 DEF OnGrid
<1>4. Settled(Left(c, num))
      BY <1>1 DEF Settled
<1> QED BY <1>3, <1>4

\* the key to the right,
LEMMA RightStays ==
    ASSUME NEW num \in Nat, NEW c, OnGrid(c)
    PROVE  OnGrid(Right(c, num)) /\ Settled(Right(c, num))
<1> PICK x \in 0 .. 2, y \in Nat, f \in Nat, q \in Nat :
        c = [px |-> x, py |-> y, frame |-> f, pos |-> q] /\ f <= y /\ y <= f + 1
    BY DEF OnGrid
<1> PICK z : z = IF FullRow(c, num) THEN (IF c.px = 2 THEN 0 ELSE c.px + 1)
                 ELSE IF num % 3 = 1 THEN 0 ELSE IF c.px = 0 THEN 1 ELSE 0
    OBVIOUS
<1>1. Right(c, num) = [px |-> z, py |-> y, frame |-> f, pos |-> z + 3 * y]
  <2>1. Right(c, num) = [c EXCEPT !.px = z, !.pos = z + 3 * c.py]
        BY DEF Right
  <2> QED BY <2>1
<1>2. z \in 0 .. 2 /\ z + 3 * y \in Nat
      OBVIOUS
<1>3. OnGrid(Right(c, num))
      BY <1>1, <1>2 DEF OnGrid
<1>4. Settled(Right(c, num))
      BY <1>1 DEF Settled
<1> QED BY <1>3, <1>4

\* the key up
LEMMA UpStays ==
    ASSUME NEW c, OnGrid(c)
    PROVE  OnGrid(Up(c)) /\ Settled(Up(c))
<1> PICK x \in 0 .. 2, y \in Nat, f \in Nat, q \in Nat :
        c = [px |-> x, py |-> y, frame |-> f, pos |-> q] /\ f <= y /\ y <= f + 1
    BY DEF OnGrid
<1> PICK v, g : v = (IF y > 0 THEN y - 1 ELSE y) /\ g = IF y > 0 THEN v ELSE f
    OBVIOUS
<1>1. Up(c) = [px |-> x, py |-> v, frame |-> g, pos |-> x + 3 * v]
  <2>1. Up(c) = [c EXCEPT !.py = v, !.frame = g, !.pos = c.px + 3 * v]
        BY DEF Up
  <2> QED BY <2>1
<1>2. v \in Nat /\ g \in Nat /\ x + 3 * v \in Nat /\ g <= v /\ v <= g + 1
      OBVIOUS
<1>3. OnGrid(Up(c))
      BY <1>1, <1>2 DEF OnGrid
<1>4. Settled(Up(c))
      BY <1>1 DEF Settled
<1> QED BY <1>3, <1>4

\* and the key down.
LEMMA DownStays ==
    ASSUME NEW num \in Nat, NEW c, OnGrid(c)
    PROVE  OnGrid(Down(c, num)) /\ Settled(Down(c, num))
<1> PICK x \in 0 .. 2, y \in Nat, f \in Nat, q \in Nat :
        c = [px |-> x, py |-> y, frame |-> f, pos |-> q] /\ f <= y /\ y <= f + 1
    BY DEF OnGrid
<1>1. CASE 3 * (y + 1) < num
  <2> PICK v, z, g : /\ v = y + 1 /\ z = (IF 3 * v + x < num THEN x ELSE (num + 2) % 3)
                     /\ g = IF v > 1 THEN v - 1 ELSE f
      OBVIOUS
  <2>1. Down(c, num) = [px |-> z, py |-> v, frame |-> g, pos |-> z + 3 * v]
        BY <1>1 DEF Down
  <2>2. z \in 0 .. 2 /\ z + 3 * v \in Nat
        BY <1>1
  <2>3. v \in Nat /\ g \in Nat /\ g <= v /\ v <= g + 1
        OBVIOUS
  <2>4. OnGrid(Down(c, num))
        BY <2>1, <2>2, <2>3 DEF OnGrid
  <2>5. Settled(Down(c, num))
        BY <2>1 DEF Settled
  <2> QED BY <2>4, <2>5
<1>2. CASE ~(3 * (y + 1) < num)
  <2>1. Down(c, num) = [px |-> x, py |-> y, frame |-> f, pos |-> x + 3 * y]
        BY <1>2 DEF Down, At
  <2>2. x + 3 * y \in Nat
        OBVIOUS
  <2>3. OnGrid(Down(c, num))
        BY <2>1, <2>2 DEF OnGrid
  <2>4. Settled(Down(c, num))
        BY <2>1 DEF Settled
  <2> QED BY <2>3, <2>4
<1> QED BY <1>1, <1>2

\* So a press of any buttons leaves the cursor in the grid, and pos under it if a
\* direction is among them or the cursor was on the list; A alone does not move it then.
LEMMA MoveStays ==
    ASSUME NEW num \in Nat, NEW c, OnGrid(c), NEW dir
    PROVE  /\ OnGrid(renewpos(c, dir, num))
           /\ dir \intersect Directions # {} \/ (Settled(c) /\ At(c) <= num) => Settled(renewpos(c, dir, num))
           /\ At(c) <= num => renewpos(c, {"A"}, num) = c
<1> PICK c0, c1, c2, c3 : /\ c0 = InRange(c, num)
                          /\ c1 = (IF "LF" \in dir THEN Left(c0, num) ELSE c0)
                          /\ c2 = (IF "RI" \in dir THEN Right(c1, num) ELSE c1)
                          /\ c3 = (IF "UP" \in dir THEN Up(c2) ELSE c2)
    OBVIOUS
<1>1. renewpos(c, dir, num) = IF "DN" \in dir THEN Down(c3, num) ELSE c3
      BY DEF renewpos
<1>2. OnGrid(c0) /\ (At(c) <= num => c0 = c)
      BY RangeKept
<1>3. OnGrid(c1) /\ ("LF" \in dir \/ Settled(c0) => Settled(c1))
      BY <1>2, LeftStays
<1>4. OnGrid(c2) /\ ("RI" \in dir \/ Settled(c1) => Settled(c2))
      BY <1>3, RightStays
<1>5. OnGrid(c3) /\ ("UP" \in dir \/ Settled(c2) => Settled(c3))
      BY <1>4, UpStays
<1>6. OnGrid(renewpos(c, dir, num)) /\ ("DN" \in dir \/ Settled(c3) => Settled(renewpos(c, dir, num)))
      BY <1>1, <1>5, DownStays
<1>7. dir \intersect Directions # {} => "LF" \in dir \/ "RI" \in dir \/ "UP" \in dir \/ "DN" \in dir
      BY DEF Directions
<1>8. At(c) <= num => renewpos(c, {"A"}, num) = c
      BY <1>2 DEF renewpos
<1> QED BY <1>2, <1>3, <1>4, <1>5, <1>6, <1>7, <1>8

-----------------------------------------------------------------------------
\* The icon of an entry.
IconFor(f) == IF f.iconf THEN f.name ELSE "default_img"

\* What draw_frame leaves of its arguments on the screen.
Shows(scr, c, fs, num) ==
    /\ scr.caption = NameAt(fs, c.pos) /\ scr.corners = c.px + 3 * (c.py - c.frame)
    /\ \A at \in 0 .. 5 : 3 * c.frame + at < num =>
          scr.icon[at] = IconFor(fs[3 * c.frame + at]) \/ scr.icon[at] = "left in buff"

\* The list has the size getdir gives it, the cursor is in the grid with pos under it
\* unless it was moved by renewpos' check, and the screen shows the list.
MenuInv ==
    /\ disk \in Disks
    /\ inMain =>
          /\ filec \in 0 .. FMAX /\ DOMAIN files = 0 .. FMAX - 1
          /\ OnGrid(Cursor) /\ (~stray => Settled(Cursor))
          /\ Shows(screen, Cursor, files, filec)

\* draw_frame shows the list, whatever the directory has become.
LEMMA DrawShows ==
    ASSUME NEW c, NEW fs, NEW num, NEW d
    PROVE  Shows(draw_frame(c, fs, num, d), c, fs, num)
<1>1. \A f : IconOf(d, f) = IconFor(f) \/ IconOf(d, f) = "left in buff"
      BY DEF IconOf, IconFor
<1>2. \A at \in 0 .. 5 : 3 * c.frame + at < num =>
          draw_frame(c, fs, num, d).icon[at] = IconOf(d, fs[3 * c.frame + at])
      BY DEF draw_frame
<1>3. draw_frame(c, fs, num, d).caption = NameAt(fs, c.pos)
      /\ draw_frame(c, fs, num, d).corners = c.px + 3 * (c.py - c.frame)
      BY DEF draw_frame
<1> QED BY <1>1, <1>2, <1>3 DEF Shows

\* SetCursor gives the variables the cursor's values.
LEMMA CursorSet == ASSUME NEW c, OnGrid(c), SetCursor(c) PROVE Cursor' = c
BY DEF OnGrid, SetCursor, Cursor

\* A call that reads the directory and draws keeps the invariant.
LEMMA MainKeeps ==
    ASSUME MenuInv, inMain, NEW pad, OS_Main(pad), filec' = Count(disk), files' = getdir(disk), disk' \in Disks
    PROVE  MenuInv'
<1> PICK c : c = renewpos(Cursor, pad, Count(disk))
    OBVIOUS
<1>1. filec' \in Nat /\ filec' \in 0 .. FMAX /\ DOMAIN files' = 0 .. FMAX - 1
      BY GetdirLists, MenuAssumption DEF MenuInv
<1>2. OnGrid(Cursor) /\ (~stray => Settled(Cursor))
      BY DEF MenuInv
<1>3. At(Cursor) \in Int
      BY <1>2 DEF OnGrid, At
<1>4. OnGrid(c) /\ (pad \intersect Directions # {} \/ (Settled(Cursor) /\ At(Cursor) <= filec') => Settled(c))
      BY <1>1, <1>2, MoveStays
<1>5. Cursor' = c /\ screen' = draw_frame(c, files', filec', disk')
      /\ (stray' <=> pad \intersect Directions = {} /\ (stray \/ At(Cursor) > filec'))
      BY <1>4, CursorSet DEF OS_Main
<1>6. ~stray' => Settled(c)
      BY <1>1, <1>2, <1>3, <1>4, <1>5
<1>7. Shows(screen', c, files', filec')
      BY <1>5, DrawShows
<1> QED BY <1>1, <1>4, <1>5, <1>6, <1>7 DEF MenuInv

\* So does every step of the menu.
LEMMA MenuInvNext == MenuInv /\ [MenuNext]_menuVars => MenuInv'
<1> SUFFICES ASSUME MenuInv, [MenuNext]_menuVars PROVE MenuInv'
    OBVIOUS
<1>1. CASE FirstProc
  <2> PICK c : c = [px |-> 0, py |-> 0, frame |-> 0, pos |-> 0]
      OBVIOUS
  <2>1. disk' = disk /\ filec' = Count(disk) /\ files' = getdir(disk) /\ SetCursor(c)
        /\ screen' = draw_frame(c, files', filec', disk)
        BY <1>1 DEF FirstProc
  <2>2. disk \in Disks /\ filec' \in 0 .. FMAX /\ DOMAIN files' = 0 .. FMAX - 1
        BY <2>1, GetdirLists DEF MenuInv
  <2>3. OnGrid(c) /\ Settled(c)
        BY DEF OnGrid, Settled
  <2>4. Cursor' = c /\ Shows(screen', c, files', filec')
        BY <2>1, <2>3, CursorSet, DrawShows
  <2> QED BY <2>1, <2>2, <2>3, <2>4 DEF MenuInv
<1>2. CASE PcChanges
      BY <1>2 DEF PcChanges, MenuInv, Cursor
<1>3. ASSUME NEW pad \in Pads, pceAppProc(pad) PROVE MenuInv'
  <2>1. inMain /\ filec' = Count(disk) /\ files' = getdir(disk) /\ disk' \in Disks /\ OS_Main(pad)
        BY <1>3 DEF pceAppProc, MenuInv
  <2> QED BY <2>1, MainKeeps
<1>4. ASSUME NEW pad \in Pads, go_standby(pad) PROVE MenuInv'
  <2>1. inMain /\ filec' = Count(disk) /\ files' = getdir(disk) /\ disk' \in Disks /\ OS_Main(pad)
        BY <1>4 DEF go_standby
  <2> QED BY <2>1, MainKeeps
<1>5. CASE UNCHANGED menuVars
      BY <1>5 DEF menuVars, MenuInv, Cursor
<1> QED BY <1>1, <1>2, <1>3, <1>4, <1>5 DEF MenuNext

\* Whatever keys are pressed and whatever the PC does to the files, the screen
\* shows the list as it was last read, and the cursor stands in a row of it that
\* is on the screen.
THEOREM MenuInductive == MenuSpec => []MenuInv
<1>1. MenuInit => MenuInv
      BY DEF MenuInit, MenuInv
<1> QED BY <1>1, MenuInvNext, PTL DEF MenuSpec

\* Pressing A starts the program under the cursor, the one that is shown if the
\* list has not changed.
LEMMA PressA ==
    ASSUME MenuInv, pceAppProc({"A"}), ~stray, At(Cursor) < filec'
    PROVE  LET is == CHOOSE k \in DOMAIN disk : disk[k].name = started'
               Sees(k) == k - 1 \in 3 * frame' .. 3 * frame' + 5
           IN  /\ started' = files'[px' + 3 * py'].name
               /\ \E k \in DOMAIN disk : disk[k].name = started' /\ disk[k].kind \in Pexes
               /\ \A k \in DOMAIN Listed(disk) : k <= FMAX /\ ~Sees(k) =>
                     IF k <= 3 * frame' THEN screen'.up ELSE screen'.down
               /\ files' = files /\ filec' = filec =>
                     /\ started' = screen.caption
                     /\ screen.corners \in 0 .. 5
                     /\ \/ screen.icon[screen.corners] = IF disk[is].kind = "pex" THEN started' ELSE "default_img"
                        \/ screen.icon[screen.corners] = "left in buff"
<1>0. inMain /\ disk' = disk /\ disk \in Disks /\ filec' = Count(disk) /\ files' = getdir(disk)
      /\ OS_Main({"A"})
      BY DEF pceAppProc, MenuInv
<1>1. OnGrid(Cursor) /\ Settled(Cursor) /\ Shows(screen, Cursor, files, filec)
      BY <1>0 DEF MenuInv
<1>2. /\ px \in 0 .. 2 /\ py \in Nat /\ frame \in Nat /\ pos = px + 3 * py /\ At(Cursor) = pos
      /\ frame <= py /\ py <= frame + 1
      BY <1>1 DEF OnGrid, Settled, Cursor, At
<1>3. /\ Len(Listed(disk)) \in Nat /\ DOMAIN Listed(disk) = 1 .. Len(Listed(disk)) /\ FMAX \in Nat
      /\ Count(disk) \in 0 .. FMAX /\ Count(disk) <= Len(Listed(disk)) /\ DOMAIN getdir(disk) = 0 .. FMAX - 1
      /\ \A i \in 0 .. Count(disk) - 1 :
            getdir(disk)[i] = FilesEntry(Listed(disk)[i + 1].name, Listed(disk)[i + 1].kind = "pex")
      /\ \A n \in Nat : n <= FMAX /\ n <= Len(Listed(disk)) => n <= Count(disk)
      BY <1>0, GetdirLists, MenuAssumption
<1> PICK p, num : p = pos /\ num = Count(disk)
    OBVIOUS
<1>4. p \in Nat /\ p < num /\ num \in Nat /\ p \in 0 .. FMAX - 1 /\ p + 1 \in 1 .. Len(Listed(disk))
      BY <1>0, <1>2, <1>3
<1>5. renewpos(Cursor, {"A"}, num) = Cursor
      BY <1>1, <1>2, <1>4, MoveStays
<1>6. /\ px' = px /\ py' = py /\ frame' = frame
      /\ screen' = draw_frame(Cursor, files', num, disk) /\ started' = NameAt(files', p)
      BY <1>0, <1>5 DEF OS_Main, SetCursor, Cursor
<1>7. /\ files'[p].name = Listed(disk)[p + 1].name /\ files'[p].iconf = (Listed(disk)[p + 1].kind = "pex")
      /\ started' = files'[p].name
  <2>1. p \in 0 .. Count(disk) - 1 /\ files' = getdir(disk) /\ p \in DOMAIN files'
        BY <1>0, <1>3, <1>4
  <2>2. files'[p] = FilesEntry(Listed(disk)[p + 1].name, Listed(disk)[p + 1].kind = "pex")
        BY <1>3, <2>1
  <2>3. \A n, i : FilesEntry(n, i).name = n /\ FilesEntry(n, i).iconf = i
        BY Zenon DEF FilesEntry
  <2>4. started' = files'[p].name
        BY <1>6, <2>1 DEF NameAt
  <2>5. /\ FilesEntry(Listed(disk)[p + 1].name, Listed(disk)[p + 1].kind = "pex").name = Listed(disk)[p + 1].name
        /\ FilesEntry(Listed(disk)[p + 1].name, Listed(disk)[p + 1].kind = "pex").iconf
              = (Listed(disk)[p + 1].kind = "pex")
        BY <2>3, Zenon
  <2> QED BY <2>2, <2>4, <2>5, Zenon
<1>8. PICK j \in DOMAIN disk : Listed(disk)[p + 1] = disk[j] /\ disk[j].kind \in Pexes
      BY <1>0, <1>4, ListedIsThere, MenuAssumption
<1>9. (CHOOSE k \in DOMAIN disk : disk[k].name = started') = j
  <2>1. \A k \in DOMAIN disk : disk[k].name = started' <=> k = j
        BY <1>0, <1>7, <1>8, MenuAssumption
  <2> QED BY <2>1
<1>10. ASSUME NEW k \in DOMAIN Listed(disk), k <= FMAX, ~(k - 1 \in 3 * frame' .. 3 * frame' + 5)
       PROVE  IF k <= 3 * frame' THEN screen'.up ELSE screen'.down
  <2>1. k \in Nat \ {0} /\ k <= Len(Listed(disk))
        BY <1>3
  <2>2. k <= num
        BY <1>3, <1>10, <2>1
  <2>3. screen'.up <=> frame # 0
        BY <1>6 DEF draw_frame, Cursor
  <2>4. screen'.down <=> ~(num <= 3 * frame + 6 \/ 3 * (py + 1) >= num)
        BY <1>6 DEF draw_frame, Cursor
  <2>5. CASE k <= 3 * frame
        BY <1>2, <1>6, <2>1, <2>3, <2>5
  <2>6. CASE ~(k <= 3 * frame)
    <3>1. k > 3 * frame + 6
          BY <1>2, <1>6, <1>10, <2>1, <2>6
    <3> QED BY <1>2, <1>4, <1>6, <2>1, <2>2, <2>4, <2>6, <3>1
  <2> QED BY <1>6, <2>5, <2>6
<1>11. ASSUME files' = files, filec' = filec
       PROVE  /\ started' = screen.caption
              /\ screen.corners \in 0 .. 5
              /\ \/ screen.icon[screen.corners] = IF disk[j].kind = "pex" THEN started' ELSE "default_img"
                 \/ screen.icon[screen.corners] = "left in buff"
  <2>1. /\ screen.caption = NameAt(files, p) /\ screen.corners = px + 3 * (py - frame)
        /\ \A at \in 0 .. 5 : 3 * frame + at < filec =>
              screen.icon[at] = IconFor(files[3 * frame + at]) \/ screen.icon[at] = "left in buff"
        BY <1>1 DEF Shows, Cursor
  <2>2. screen.corners \in 0 .. 5 /\ 3 * frame + screen.corners = p
    <3>1. py - frame \in {0, 1} /\ 3 * (py - frame) = 3 * py - 3 * frame
          BY <1>2
    <3>2. px + 3 * (py - frame) \in 0 .. 5 /\ 3 * frame + (px + 3 * (py - frame)) = px + 3 * py
          BY <1>2, <3>1
    <3> QED BY <1>2, <2>1, <3>2
  <2>3. screen.icon[screen.corners] = IconFor(files[p]) \/ screen.icon[screen.corners] = "left in buff"
        BY <1>0, <1>4, <1>11, <2>1, <2>2
  <2>4. IconFor(files[p]) = IF disk[j].kind = "pex" THEN started' ELSE "default_img"
        BY <1>7, <1>8, <1>11, Zenon DEF IconFor
  <2> QED BY <1>6, <1>11, <2>1, <2>2, <2>3, <2>4
<1>12. started' = files'[px' + 3 * py'].name
       BY <1>2, <1>6, <1>7
<1>13. \E k \in DOMAIN disk : disk[k].name = started' /\ disk[k].kind \in Pexes
       BY <1>7, <1>8
<1> QED BY <1>9, <1>10, <1>11, <1>12, <1>13

\* A starts the program under the cursor, one of the disk, and the one whose name and
\* icon are on the screen if the list read on the press is the one shown; whatever the
\* rows shown leave out, an arrow points to.
THEOREM ShownProgramStarts == MenuSpec => StartsShownProgram
<1>1. MenuInv => [pceAppProc({"A"}) /\ ~stray /\ At(Cursor) < filec' =>
          LET is == CHOOSE k \in DOMAIN disk : disk[k].name = started'
              Sees(k) == k - 1 \in 3 * frame' .. 3 * frame' + 5
          IN  /\ started' = files'[px' + 3 * py'].name
              /\ \E k \in DOMAIN disk : disk[k].name = started' /\ disk[k].kind \in Pexes
              /\ \A k \in DOMAIN Listed(disk) : k <= FMAX /\ ~Sees(k) =>
                    IF k <= 3 * frame' THEN screen'.up ELSE screen'.down
              /\ files' = files /\ filec' = filec =>
                    /\ started' = screen.caption
                    /\ screen.corners \in 0 .. 5
                    /\ \/ screen.icon[screen.corners] = IF disk[is].kind = "pex" THEN started' ELSE "default_img"
                       \/ screen.icon[screen.corners] = "left in buff"]_menuVars
      BY PressA
<1> QED BY <1>1, MenuInductive, PTL DEF StartsShownProgram
=============================================================================
