------------------------------ MODULE Interrupts ------------------------------
(***************************************************************************)
(* Interrupts as the kernel sets them up (early_init/gdt.cpp,              *)
(* interrupts/idt.cpp, interrupts/pic.cpp) and as the processor and the    *)
(* two 8259 controllers deliver them.  No handler returns: each prints     *)
(* what happened and halts, so end of interrupt and priorities among       *)
(* interrupts in service do not occur.                                     *)
(***************************************************************************)
EXTENDS Integers, Sequences, FiniteSetsExt

CONSTANTS
  Irqs,         \* request lines with a device, of 0 .. 15
  Exceptions,   \* vectors of the exceptions code may raise
  LoaderMasks   \* masks <<master, slave>> the loader may leave

ASSUME DeviceAssumption ==
  /\ Irqs \subseteq 0 .. 15 /\ Exceptions \subseteq 0 .. 31
  /\ LoaderMasks \subseteq (SUBSET (0 .. 7)) \X (SUBSET (0 .. 7))

VARIABLES
  gdt,          \* whose segments the processor uses: "loader" or "kernel"
  idt,          \* vectors with a gate
  idtr,         \* is the table loaded?
  if_flag,      \* does the processor take interrupts?
  pic,          \* the controllers
  cpu,          \* "runs"; "halted" by panic; "reset" by a fault nobody could serve
  said          \* what was reported: the vector, and who caused it

interruptVars == <<gdt, idt, idtr, if_flag, pic, cpu, said>>

\* icw: the initialisation word expected next, 0 if none.
Controller == [icw : {0, 2, 3, 4}, base : 0 .. 255, mask : SUBSET (0 .. 7), irr : SUBSET (0 .. 7)]
Nothing == [vector |-> -1, by |-> "nobody"]

InterruptsTypeOK ==
  /\ gdt \in {"loader", "kernel"}
  /\ idt \subseteq 0 .. 255
  /\ idtr \in BOOLEAN /\ if_flag \in BOOLEAN
  /\ pic \in [{"master", "slave"} -> Controller]
  /\ cpu \in {"runs", "halted", "reset"}
  /\ said \in [vector : 0 .. 255, by : {"processor", "device"}] \cup {Nothing}

\* A loader leaves interrupts off and the controllers as the BIOS set them.
InterruptsInit ==
  /\ gdt = "loader"
  /\ idt = {} /\ idtr = FALSE /\ if_flag = FALSE
  /\ \E masks \in LoaderMasks :
       pic = [master |-> [icw |-> 0, base |-> 8, mask |-> masks[1], irr |-> {}],
              slave |-> [icw |-> 0, base |-> 112, mask |-> masks[2], irr |-> {}]]
  /\ cpu = "runs"
  /\ said = Nothing

-----------------------------------------------------------------------------
(***************************************************************************)
(* The steps of the kernel.                                                *)
(***************************************************************************)
\* Planted fault: the processor keeps the loader's segments.
GdtNotLoaded == "loader"
KernelGdt == "kernel"
init_gdt == gdt' = KernelGdt /\ UNCHANGED <<idt, idtr, if_flag, pic, cpu, said>>

init_isrs == idt' = 0 .. 31 /\ UNCHANGED <<gdt, idtr, if_flag, pic, cpu, said>>
lidt == idtr' = TRUE /\ UNCHANGED <<gdt, idt, if_flag, pic, cpu, said>>
sti == if_flag' = TRUE /\ UNCHANGED <<gdt, idt, idtr, pic, cpu, said>>

BitsOf(value) == {i \in 0 .. 7 : (value \div 2 ^ i) % 2 = 1}

\* A byte written to a controller's command port begins its initialisation, the
\* next three to its data port are words 2 to 4, later ones masks.
Received(p, port, value) ==
  CASE port = "cmd" -> [p EXCEPT !.icw = 2, !.mask = {}, !.irr = {}]
    [] port = "data" /\ p.icw = 2 -> [p EXCEPT !.icw = 3, !.base = value]
    [] port = "data" /\ p.icw = 3 -> [p EXCEPT !.icw = 4]
    [] port = "data" /\ p.icw = 4 -> [p EXCEPT !.icw = 0]
    [] port = "data" /\ p.icw = 0 -> [p EXCEPT !.mask = BitsOf(value)]

outb(which, port, value) ==
  /\ pic' = [pic EXCEPT ![which] = Received(pic[which], port, value)]
  /\ UNCHANGED <<gdt, idt, idtr, if_flag, cpu, said>>

Out(which, port, value) == [do |-> "outb", which |-> which, port |-> port, value |-> value]

mask_all == <<Out("master", "data", 255), Out("slave", "data", 255)>>

Remap(offset) ==
  <<Out("master", "cmd", 17), Out("slave", "cmd", 17),
    Out("master", "data", offset), Out("slave", "data", offset + 8),
    Out("master", "data", 4), Out("slave", "data", 2),
    Out("master", "data", 1), Out("slave", "data", 1)>>

\* Planted fault: the masks are written first, and lost.
MaskThenRemap(offset) == mask_all \o Remap(offset)
init_pic(offset) == Remap(offset) \o mask_all

-----------------------------------------------------------------------------
(***************************************************************************)
(* What devices, controllers and the processor do.                         *)
(***************************************************************************)
RaiseIrq(irq) ==
  /\ LET which == IF irq < 8 THEN "master" ELSE "slave"
     IN  /\ irq % 8 \notin pic[which].irr
         /\ pic' = [pic EXCEPT ![which].irr = @ \cup {irq % 8}]
  /\ UNCHANGED <<gdt, idt, idtr, if_flag, cpu, said>>

Requests(p, more) == IF p.icw = 0 THEN (p.irr \cup more) \ p.mask ELSE {}
SlaveRequests == Requests(pic["slave"], {})
MasterRequests == Requests(pic["master"], IF SlaveRequests # {} THEN {2} ELSE {})
RequestedVector ==
  IF Min(MasterRequests) = 2 /\ SlaveRequests # {}
    THEN pic["slave"].base + Min(SlaveRequests)
    ELSE pic["master"].base + Min(MasterRequests)

\* A gate serves its vector if the selector in it is the kernel's code segment.
Serves(v) == idtr /\ v \in idt /\ gdt = "kernel"

\* Vector v arrives.  handle_exception reports the vector and panics; a vector
\* without a gate is a general protection fault, then a double fault, then a reset.
Take(v, by) ==
  /\ \/ Serves(v) /\ cpu' = "halted" /\ said' = [vector |-> v, by |-> by]
     \/ /\ ~Serves(v) /\ cpu' = "halted"
        /\ \/ Serves(13) /\ said' = [vector |-> 13, by |-> "processor"]
           \/ ~Serves(13) /\ Serves(8) /\ said' = [vector |-> 8, by |-> "processor"]
     \/ /\ ~Serves(v) /\ ~Serves(13) /\ ~Serves(8)
        /\ cpu' = "reset" /\ UNCHANGED said
  /\ if_flag' = FALSE
  /\ UNCHANGED <<gdt, idt, idtr, pic>>

Interrupt == if_flag /\ MasterRequests # {} /\ Take(RequestedVector, "device")
=============================================================================
