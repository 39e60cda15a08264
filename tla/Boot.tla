--------------------------------- MODULE Boot ---------------------------------
(***************************************************************************)
(* From the loader to the kernel's main: the bootstrap turns paging on,    *)
(* and enter_kernel (early_init/enter_kernel.cpp) runs its steps, while    *)
(* devices raise interrupts and code may fault at any moment.  The calls   *)
(* on memory it makes in between are module Memory's.                      *)
(***************************************************************************)
EXTENDS Bootstrap, MbParser, Interrupts

CONSTANT Infos    \* what the loader can report

ASSUME InfoAssumption ==
  Infos \subseteq [magic : BOOLEAN, has_memory : BOOLEAN, has_mmap : BOOLEAN, whole : BOOLEAN,
                   mmap : Seq([addr : Nat, len : Nat, available : BOOLEAN])]

VARIABLES
  info,    \* what the loader reported, while it can be read
  pc,      \* the step of Program that is next
  heap     \* what parse_multiboot found

vars == <<bootstrapVars, interruptVars, info, pc, heap>>
kernelVars == <<interruptVars, info, pc, heap>>

Unknown == [magic |-> FALSE, has_memory |-> FALSE, has_mmap |-> FALSE,
            whole |-> TRUE, mmap |-> <<>>]

\* enter_kernel; init_interrupts calls init_idt and init_pic with 0x20.
Call(name) == [do |-> name]
Program ==
  <<Call("parse_multiboot"), Call("init_phys_alloc"), Call("setup_output"),
    Call("unmap_unused"), Call("init_gdt"), Call("init_isrs"), Call("lidt"), Call("sti")>>
    \o init_pic(32) \o <<Call("call_constructors")>>
InMain == pc > Len(Program)

TypeOK ==
  /\ BootstrapTypeOK /\ InterruptsTypeOK
  /\ info \in Infos \cup {Unknown}
  /\ pc \in 1 .. Len(Program) + 1
  /\ heap \in [ok : BOOLEAN, base : Address, size : Address]

Init ==
  /\ BootstrapInit /\ InterruptsInit
  /\ info = Unknown
  /\ pc = 1
  /\ heap = Failed

-----------------------------------------------------------------------------
InBootstrap == (MapPage \/ enter_virtual) /\ UNCHANGED kernelVars

Runs == paging = "on" /\ cpu = "runs"
At(name) == Runs /\ ~InMain /\ Program[pc].do = name

panic == cpu' = "halted" /\ if_flag' = FALSE /\ UNCHANGED <<gdt, idt, idtr, pic, said, pc>>

\* The parser, and the printf of the boot loader's name, read what the fields of
\* the multiboot information point to.  The loop over the memory map ends where p is
\* mmap_end and nowhere else: unless the map is a whole number of entries, it runs
\* on until it reads a page that is not mapped (mb_parser.cpp:55).
Readable(i) == i.whole /\ \A v \in layout.others : Walk(mem, v) # None

Parse(i) ==
  /\ At("parse_multiboot")
  /\ IF i.magic /\ i.has_memory /\ i.has_mmap /\ ~Readable(i)
       THEN Take(14, "processor") /\ UNCHANGED <<info, pc, heap>>
       ELSE LET h == parse_multiboot(i, Words)
            IN  /\ info' = i /\ heap' = h
                /\ IF h.ok THEN pc' = pc + 1 /\ UNCHANGED interruptVars ELSE panic
  /\ UNCHANGED bootstrapVars

\* Planted fault: any address will do.
AnyBase == TRUE
\* init_phys_alloc refuses address 0.
GoodBase == heap.base # 0
InitAlloc ==
  /\ At("init_phys_alloc")
  /\ IF GoodBase THEN pc' = pc + 1 /\ UNCHANGED interruptVars ELSE panic
  /\ UNCHANGED <<bootstrapVars, info, heap>>

\* setup_framebuffer or setup_vga: the memory for the screen is mapped, or panic.
SetUpOutput ==
  /\ At("setup_output")
  /\ (pc' = pc + 1 /\ UNCHANGED interruptVars) \/ panic
  /\ UNCHANGED <<bootstrapVars, info, heap>>

\* unmap_region over the bootstrap, both ends rounded down, and unmap_page on the
\* multiboot page: a last page that the bootstrap fills only partly stays mapped.
GivenBack ==
  {v \in PagesFrom(AlignDown(layout.bootstrap_start), AlignDown(layout.bootstrap_end))
          \cup {PageOf(layout.mbi)} : mem[Pd][v[1]] # None}
Unmap ==
  /\ At("unmap_unused")
  /\ mem' = [f \in TableFrames |->
               [i \in Index |-> IF \E v \in GivenBack : f = mem[Pd][v[1]] /\ i = v[2]
                                THEN None ELSE mem[f][i]]]
  /\ info' = Unknown
  /\ pc' = pc + 1
  /\ UNCHANGED <<layout, used, todo, paging, interruptVars, heap>>

SetUp ==
  /\ \/ At("init_gdt") /\ init_gdt
     \/ At("init_isrs") /\ init_isrs
     \/ At("lidt") /\ lidt
     \/ At("sti") /\ sti
     \/ /\ At("outb")
        /\ outb(Program[pc].which, Program[pc].port, Program[pc].value)
     \/ At("call_constructors") /\ UNCHANGED interruptVars
  /\ pc' = pc + 1
  /\ UNCHANGED <<bootstrapVars, info, heap>>

\* A device raises its request line.
Device(irq) == Runs /\ RaiseIrq(irq) /\ UNCHANGED <<bootstrapVars, info, pc, heap>>

\* The processor takes a request, between any two instructions.
Deliver == Runs /\ Interrupt /\ UNCHANGED <<bootstrapVars, info, pc, heap>>

\* The code at pc faults.
Fault(v) == Runs /\ Take(v, "processor") /\ UNCHANGED <<bootstrapVars, info, pc, heap>>

Next ==
  \/ InBootstrap \/ InitAlloc \/ SetUpOutput \/ Unmap \/ SetUp \/ Deliver
  \/ \E i \in Infos : Parse(i)
  \/ \E irq \in Irqs : Device(irq)
  \/ \E v \in Exceptions : Fault(v)

Spec == Init /\ [][Next]_vars

-----------------------------------------------------------------------------
\* Addresses and lengths are cut to a machine word, so that a region from Words
\* on, where a machine's high memory begins, looks like one at 0 and may beat all
\* others.  init_phys_alloc refuses 0: what becomes the heap is an available
\* region as the loader reported it, and no available one below Words is larger
\* (mb_parser.cpp:55-67, phys_alloc.cpp:29-34).
Below == {k \in DOMAIN info.mmap : info.mmap[k].addr < Words}
WordSized == \A k \in DOMAIN info.mmap :
               IF k \in Below THEN info.mmap[k].len < Words ELSE info.mmap[k].addr = Words
HeapIsLargest ==
  pc > 2 /\ info # Unknown /\ WordSized =>
    LET available == {info.mmap[k] : k \in {b \in Below : info.mmap[b].available}}
    IN  /\ \E r \in available : r.addr = heap.base /\ r.len = heap.size
        /\ \A r \in available : r.len <= heap.size

\* Only before the interrupt table is loaded can a fault reset the machine; from
\* then on whatever happens is reported, whatever vector it comes by, because the
\* gates name the segment init_gdt installed before (enter_kernel.cpp:67-69).
Loaded == pc > CHOOSE k \in DOMAIN Program : Program[k].do = "lidt"
FaultsAreReported ==
  [][Loaded =>
       /\ cpu' # "reset"
       /\ cpu' # cpu => cpu' = "halted" /\ said' # Nothing]_vars

\* Once init_interrupts has returned, no device can interrupt the kernel any more,
\* whenever it raised its line (pic.cpp:32-43).
Initialised == pc > Len(Program) - 1
MaskedIsQuiet == Initialised => MasterRequests = {}

\* The exception the kernel reports ("Double fault", idt.cpp:133) is one the
\* processor raised.
ReportIsTrue == said.by # "device"
=============================================================================
