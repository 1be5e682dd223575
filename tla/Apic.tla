-------------------------------- MODULE Apic --------------------------------
(***************************************************************************)
(* The I/O APIC of bochs/iodev/ioapic.cc, the local APICs of               *)
(* bochs/cpu/apic.cc and the bus between them, which is a function call:   *)
(* service_ioapic delivers to every target before it returns, and an EOI   *)
(* reaches the I/O APIC inside the write that caused it.  Each entry point *)
(* is one action.                                                          *)
(*                                                                         *)
(* Bit registers are sets: of pins in the I/O APIC, of vectors in a local  *)
(* APIC.  A destination is a pair: the processors whose id it is, and      *)
(* those whose LDR and DFR (set up before) match it.  Delivery modes are   *)
(* fixed, lowest priority (of an xAPIC) and ExtINT; the vector of an       *)
(* ExtINT, which the 8259 supplies, is left out.                           *)
(***************************************************************************)
EXTENDS Integers

CONSTANTS
  NumCpus,     \* BX_SMP_PROCESSORS
  Pins,        \* the inputs in use, of BX_IOAPIC_NUM_PINS
  Vectors,     \* the vectors in use
  Words,       \* per pin: the low parts that the guest writes to its entry
  Dests,       \* per pin: the destinations that the guest writes to its entry
  Ipis,        \* the interprocessor interrupts that the guest sends
  Priorities,  \* the task priorities that the guest sets
  SeoiEnabled  \* xapic_ext: specific EOI, of processors with BX_ISA_XAPIC_EXT

Cpus == 0 .. NumCpus - 1
Modes == {"fixed", "lowpri", "extint"}

\* The writable fields of the low part of a redirection entry.
Word == [vector : Vectors \union {0}, masked : BOOLEAN, level : BOOLEAN,
         mode : Modes, logical : BOOLEAN]

Destination == [physical : SUBSET Cpus, logical : SUBSET Cpus]

ASSUME ApicAssumption ==
  /\ NumCpus \in Nat \ {0} /\ Pins \subseteq Nat
  /\ Vectors \subseteq 16 .. 255   \* trigger_irq refuses vectors below 16
  /\ Priorities \subseteq 0 .. 255
  /\ Words \in [Pins -> SUBSET Word]
  /\ \A p \in Pins : \A w \in Words[p] : w.vector \in Vectors
  /\ Dests \in [Pins -> SUBSET Destination]
  /\ Ipis \subseteq [vector : Vectors, level : BOOLEAN, lowpri : BOOLEAN,
                     dest : SUBSET Cpus]
  /\ SeoiEnabled \in BOOLEAN

VARIABLES
  \* the I/O APIC
  intin, irr, ioredtbl,
  \* per processor: the local APIC (its IRR is lapic_irr), and the pending
  \* event BX_EVENT_PENDING_LAPIC_INTR
  lapic_irr, isr, tmr, task_priority, extint_pending, intr,
  \* history: level vectors in a local APIC when an INIT cleared it
  dropped

vars == <<intin, irr, ioredtbl, lapic_irr, isr, tmr, task_priority,
          extint_pending, intr, dropped>>

-----------------------------------------------------------------------------
(* Priorities and destinations. *)

\* Mutant of Class: priorities are compared to the last bit.
ClassIsVector(v) == v

\* The upper four bits: vector & 0xf0.
Class(v) == v \div 16

\* The highest request is of a higher class than the processor priority.
\* Evaluated in the registers as the operation leaves them.
Ready(c, requests) ==
  \E v \in requests : /\ Class(v) > Class(task_priority'[c])
                      /\ \A k \in isr'[c] : Class(v) > Class(k)

\* apic_bus_deliver_lowest_priority: the first processor of lowest priority.
LowestPriority(dest) ==
  {c \in dest : \A k \in dest : \/ task_priority[c] < task_priority[k]
                                \/ task_priority[c] = task_priority[k] /\ c <= k}

Matched(w, d) == IF w.logical THEN d.logical ELSE d.physical

\* Where an entry sends to.  Lowest priority needs a logical destination.
Targets(e) ==
  IF e.mode # "lowpri" THEN Matched(e, e.dest)
  ELSE IF e.logical THEN LowestPriority(e.dest.logical) ELSE {}

-----------------------------------------------------------------------------
(* Delivery. *)

\* Mutant of trigger_irq: the trigger mode is forgotten.
trigger_irq_no_tmr(in, level, tm) ==
  /\ lapic_irr' = [c \in Cpus |-> lapic_irr[c] \union in[c]]
  /\ tmr' = [c \in Cpus |-> tm[c] \ (in[c] \ lapic_irr[c])]

\* trigger_irq for the vectors in[c] at every processor c, of which level[c]
\* are level triggered.  A vector that is already requested is not accepted.
trigger_irq(in, level, tm) ==
  /\ lapic_irr' = [c \in Cpus |-> lapic_irr[c] \union in[c]]
  /\ tmr' = [c \in Cpus |->
               LET new == in[c] \ lapic_irr[c]
               IN  (tm[c] \ new) \union (new \intersect level[c])]

\* The entries that service_ioapic delivers: a level triggered one waits for
\* its EOI.
Fires(table, requests) ==
  {p \in requests : /\ ~table[p].masked
                    /\ ~(table[p].level /\ table[p].remote_irr)}

\* Of the entries F: those that send their vector to a processor, and those
\* that send it an ExtINT.
Sent(F, table, c) == {p \in F : c \in Targets(table[p]) /\ table[p].mode # "extint"}
ExtInts(F, table, c) == {p \in F : c \in Targets(table[p]) /\ table[p].mode = "extint"}

\* The vectors that arrive at the processors, and those of them that arrive as
\* level triggered: the first of several entries with a vector decides.
Sends(F, table) == [c \in Cpus |-> {table[p].vector : p \in Sent(F, table, c)}]

SendsLevel(F, table) ==
  [c \in Cpus |->
     {v \in Vectors : \E p \in Sent(F, table, c) :
        /\ table[p].vector = v /\ table[p].level
        /\ \A q \in Sent(F, table, c) : table[q].vector = v => p <= q}]

\* The entry after its delivery, if it had a target.
Delivered(F, table, p) ==
  IF /\ p \in F /\ Targets(table[p]) # {}
     /\ table[p].level /\ table[p].mode # "extint"
  THEN [table[p] EXCEPT !.remote_irr = TRUE]
  ELSE table[p]

\* service_ioapic, for the entries F that fire, and service_local_apic of the
\* processors C and of those that accept a vector.
service(F, table, requests, tm, C) ==
  /\ irr' = requests \ {p \in F : ~table[p].level /\ Targets(table[p]) # {}}
  /\ ioredtbl' = [p \in Pins |-> Delivered(F, table, p)]
  /\ trigger_irq(Sends(F, table), SendsLevel(F, table), tm)
  /\ extint_pending' = [c \in Cpus |-> extint_pending[c] \/ ExtInts(F, table, c) # {}]
  /\ intr' = [c \in Cpus |->
       \/ intr[c]
       \/ ExtInts(F, table, c) # {}
       \/ /\ c \in C \/ ~(Sends(F, table)[c] \subseteq lapic_irr[c])
          /\ Ready(c, lapic_irr'[c])]

service_ioapic(table, requests) ==
  service(Fires(table, requests), table, requests, tmr, {})

-----------------------------------------------------------------------------
(* The I/O APIC: device lines and register writes. *)

\* set_irq_level, line going up.  An edge at a masked entry is ignored.
RaiseLine(p) ==
  /\ p \notin intin
  /\ intin' = intin \union {p}
  /\ UNCHANGED <<isr, task_priority, dropped>>
  /\ IF ioredtbl[p].level \/ ~ioredtbl[p].masked
     THEN service_ioapic(ioredtbl, irr \union {p})
     ELSE UNCHANGED <<irr, ioredtbl, lapic_irr, tmr, extint_pending, intr>>

\* set_irq_level, line going down.
LowerLine(p) ==
  /\ p \in intin
  /\ intin' = intin \ {p}
  /\ irr' = IF ioredtbl[p].level THEN irr \ {p} ELSE irr
  /\ UNCHANGED <<ioredtbl, lapic_irr, isr, tmr, task_priority, extint_pending,
                 intr, dropped>>

\* Mutant of Sampled: the line is not looked at.
SampledNever(p, e) == irr

\* A level triggered input is pending while its line is up.
Sampled(p, e) == IF e.level /\ p \in intin THEN irr \union {p} ELSE irr

\* set_lo_part: remote IRR is read only, and kept for level triggered entries.
Entry(w, e) ==
  [vector |-> w.vector, masked |-> w.masked, level |-> w.level, mode |-> w.mode,
   logical |-> w.logical, dest |-> e.dest, remote_irr |-> w.level /\ e.remote_irr]

\* write_aligned to the low part of an entry ...
WriteLo(p, w) ==
  /\ UNCHANGED <<intin, isr, task_priority, dropped>>
  /\ service_ioapic([ioredtbl EXCEPT ![p] = Entry(w, @)],
                    Sampled(p, Entry(w, ioredtbl[p])))

\* Mutant of WriteHi: a pending interrupt is not sent to the new destination.
WriteHiQuietly(p, d) ==
  /\ ioredtbl' = [ioredtbl EXCEPT ![p].dest = d]
  /\ UNCHANGED <<intin, irr, lapic_irr, isr, tmr, task_priority, extint_pending,
                 intr, dropped>>

\* ... and to the high part.
WriteHi(p, d) ==
  /\ UNCHANGED <<intin, isr, task_priority, dropped>>
  /\ service_ioapic([ioredtbl EXCEPT ![p].dest = d], irr)

-----------------------------------------------------------------------------
(* The local APICs. *)

\* acknowledge_int: an ExtINT first, then the highest request if it is still
\* above the processor priority, else the spurious vector.
AcknowledgeExtInt(c) ==
  /\ intr[c] /\ extint_pending[c]
  /\ extint_pending' = [extint_pending EXCEPT ![c] = FALSE]
  /\ UNCHANGED <<intin, irr, ioredtbl, lapic_irr, isr, tmr, task_priority, dropped>>
  /\ intr' = [intr EXCEPT ![c] = Ready(c, lapic_irr[c])]

Highest(c, v) == v \in lapic_irr[c] /\ \A k \in lapic_irr[c] : k <= v

\* The comparison of acknowledge_int with get_ppr.
Outranks(c, v) == /\ Class(v) > Class(task_priority[c])
                  /\ \A k \in isr[c] : Class(v) > Class(k)

AcknowledgeInt(c, v) ==
  /\ intr[c] /\ ~extint_pending[c]
  /\ Highest(c, v) /\ Outranks(c, v)
  /\ lapic_irr' = [lapic_irr EXCEPT ![c] = @ \ {v}]
  /\ isr' = [isr EXCEPT ![c] = @ \union {v}]
  /\ UNCHANGED <<intin, irr, ioredtbl, tmr, task_priority, extint_pending, dropped>>
  /\ intr' = [intr EXCEPT ![c] = Ready(c, lapic_irr'[c])]

AcknowledgeSpurious(c) ==
  /\ intr[c] /\ ~extint_pending[c]
  /\ \A v \in lapic_irr[c] : Highest(c, v) => ~Outranks(c, v)
  /\ intr' = [intr EXCEPT ![c] = FALSE]
  /\ UNCHANGED <<intin, irr, ioredtbl, lapic_irr, isr, tmr, task_priority,
                 extint_pending, dropped>>

\* bx_ioapic_c::receive_eoi, with the local APIC's own service_local_apic.
Ended(v) == {p \in Pins : /\ ioredtbl[p].level /\ ioredtbl[p].remote_irr
                          /\ ioredtbl[p].vector = v}

Cleared(v) == [p \in Pins |-> IF p \in Ended(v)
                              THEN [ioredtbl[p] EXCEPT !.remote_irr = FALSE]
                              ELSE ioredtbl[p]]

receive_eoi(c, v, tm) ==
  service(IF Ended(v) = {} THEN {} ELSE Fires(Cleared(v), irr),
          Cleared(v), irr, tm, {c})

\* The end of receive_EOI and receive_SEOI: a vector leaves service, and the
\* I/O APIC hears of it if it was level triggered.
EndOfInterrupt(c, v) ==
  /\ isr' = [isr EXCEPT ![c] = @ \ {v}]
  /\ UNCHANGED <<intin, task_priority, dropped>>
  /\ IF v \in tmr[c]
     THEN receive_eoi(c, v, [tmr EXCEPT ![c] = @ \ {v}])
     ELSE service({}, ioredtbl, irr, tmr, {c})

receive_EOI(c, v) ==
  /\ v \in isr[c] /\ \A k \in isr[c] : k <= v
  /\ EndOfInterrupt(c, v)

receive_SEOI(c, v) ==
  /\ SeoiEnabled
  /\ v \in isr[c]
  /\ EndOfInterrupt(c, v)

\* Mutant of set_tpr: requests held back are not looked at again.
set_tpr_quietly(c, priority) ==
  /\ task_priority' = [task_priority EXCEPT ![c] = priority]
  /\ UNCHANGED <<intin, irr, ioredtbl, lapic_irr, isr, tmr, extint_pending,
                 intr, dropped>>

\* set_tpr: a lower priority lets requests through.
set_tpr(c, priority) ==
  /\ task_priority' = [task_priority EXCEPT ![c] = priority]
  /\ UNCHANGED <<intin, isr, dropped>>
  /\ service({}, ioredtbl, irr, tmr,
             IF priority < task_priority[c] THEN {c} ELSE {})

\* send_ipi, with a destination or a shorthand for one.
IpiTargets(i) == IF i.lowpri THEN LowestPriority(i.dest) ELSE i.dest
IpiSends(i) == [c \in Cpus |-> IF c \in IpiTargets(i) THEN {i.vector} ELSE {}]

send_ipi(i) ==
  /\ UNCHANGED <<intin, irr, ioredtbl, isr, task_priority, extint_pending, dropped>>
  /\ trigger_irq(IpiSends(i), [c \in Cpus |-> IF i.level THEN IpiSends(i)[c] ELSE {}], tmr)
  /\ intr' = [c \in Cpus |->
       \/ intr[c]
       \/ ~(IpiSends(i)[c] \subseteq lapic_irr[c]) /\ Ready(c, lapic_irr'[c])]

\* The reset of one processor by INIT: its local APIC forgets everything and
\* tells nobody.
InitCpu(c) ==
  /\ lapic_irr' = [lapic_irr EXCEPT ![c] = {}]
  /\ isr' = [isr EXCEPT ![c] = {}]
  /\ tmr' = [tmr EXCEPT ![c] = {}]
  /\ task_priority' = [task_priority EXCEPT ![c] = 0]
  /\ extint_pending' = [extint_pending EXCEPT ![c] = FALSE]
  /\ intr' = [intr EXCEPT ![c] = FALSE]
  /\ dropped' = dropped \union (tmr[c] \intersect (lapic_irr[c] \union isr[c]))
  /\ UNCHANGED <<intin, irr, ioredtbl>>

-----------------------------------------------------------------------------
\* bx_ioapic_c::reset of an entry: destination 0.
ResetDest == [physical |-> {0}, logical |-> {}]

ResetEntry ==
  [vector |-> 0, masked |-> TRUE, level |-> FALSE, mode |-> "fixed",
   logical |-> FALSE, dest |-> ResetDest, remote_irr |-> FALSE]

Init ==
  /\ intin = {} /\ irr = {} /\ ioredtbl = [p \in Pins |-> ResetEntry]
  /\ lapic_irr = [c \in Cpus |-> {}] /\ isr = [c \in Cpus |-> {}]
  /\ tmr = [c \in Cpus |-> {}] /\ task_priority = [c \in Cpus |-> 0]
  /\ extint_pending = [c \in Cpus |-> FALSE] /\ intr = [c \in Cpus |-> FALSE]
  /\ dropped = {}

\* Mutant of Reset: set_lo_part keeps the remote IRR of an entry that it makes
\* edge triggered.
ResetKeepsRemoteIrr ==
  /\ ioredtbl' = [p \in Pins |-> [ResetEntry EXCEPT !.remote_irr = ioredtbl[p].remote_irr]]
  /\ intin' = {} /\ irr' = {}
  /\ lapic_irr' = [c \in Cpus |-> {}] /\ isr' = [c \in Cpus |-> {}]
  /\ tmr' = [c \in Cpus |-> {}] /\ task_priority' = [c \in Cpus |-> 0]
  /\ extint_pending' = [c \in Cpus |-> FALSE] /\ intr' = [c \in Cpus |-> FALSE]
  /\ dropped' = {}

\* Hardware reset of processors and devices.
Reset ==
  /\ intin' = {} /\ irr' = {} /\ ioredtbl' = [p \in Pins |-> ResetEntry]
  /\ lapic_irr' = [c \in Cpus |-> {}] /\ isr' = [c \in Cpus |-> {}]
  /\ tmr' = [c \in Cpus |-> {}] /\ task_priority' = [c \in Cpus |-> 0]
  /\ extint_pending' = [c \in Cpus |-> FALSE] /\ intr' = [c \in Cpus |-> FALSE]
  /\ dropped' = {}

Next ==
  \/ \E p \in Pins :
       \/ RaiseLine(p) \/ LowerLine(p)
       \/ \E w \in Words[p] : WriteLo(p, w)
       \/ \E d \in Dests[p] : WriteHi(p, d)
  \/ \E c \in Cpus :
       \/ AcknowledgeExtInt(c) \/ AcknowledgeSpurious(c) \/ InitCpu(c)
       \/ \E v \in Vectors :
            AcknowledgeInt(c, v) \/ receive_EOI(c, v) \/ receive_SEOI(c, v)
       \/ \E t \in Priorities : set_tpr(c, t)
  \/ \E i \in Ipis : send_ipi(i)
  \/ Reset

Spec == Init /\ [][Next]_vars

-----------------------------------------------------------------------------
(* Properties. *)

EntryType == [vector : Vectors \union {0}, masked : BOOLEAN, level : BOOLEAN,
              mode : Modes, logical : BOOLEAN, dest : Destination,
              remote_irr : BOOLEAN]

\* Types of the registers; remote IRR exists in level triggered entries only.
TypeOK ==
  /\ intin \subseteq Pins /\ irr \subseteq Pins
  /\ ioredtbl \in [Pins -> EntryType]
  /\ \A p \in Pins : ioredtbl[p].remote_irr => ioredtbl[p].level
  /\ lapic_irr \in [Cpus -> SUBSET Vectors] /\ isr \in [Cpus -> SUBSET Vectors]
  /\ tmr \in [Cpus -> SUBSET Vectors] /\ task_priority \in [Cpus -> 0 .. 255]
  /\ extint_pending \in [Cpus -> BOOLEAN] /\ intr \in [Cpus -> BOOLEAN]
  /\ dropped \subseteq Vectors

\* No wake-up is lost: a processor with a request above its priority, or with
\* an ExtINT, has the event pending, whichever of the request, the end of a
\* handler, the acknowledge or the change of priority came last.
ReadyIsSignalled ==
  \A c \in Cpus : (\E v \in lapic_irr[c] : Outranks(c, v)) \/ extint_pending[c]
                    => intr[c]

\* Handlers nest strictly: no two vectors of one priority class are in service
\* at a processor, although priorities change between INTR and acknowledge.
OneHandlerPerClass ==
  \A c \in Cpus : \A v, k \in isr[c] : v \div 16 = k \div 16 => v = k

\* The guest uses a pin as level triggered only.
LevelPin(p) == \A w \in Words[p] : w.level

\* "A level triggered input is sampled continuously": it is pending exactly
\* while its line is up, however its entry is programmed, masked and sent.
\* Holds for a guest that does not change the trigger mode.
LevelFollowsLine ==
  \A p \in Pins : LevelPin(p) /\ ioredtbl[p].level => (p \in irr <=> p \in intin)

\* What is pending and can be sent has been sent: an unmasked entry with a
\* target is pending only if it is level triggered and waits for its EOI (or
\* is an ExtINT, which is sent again at every occasion).
PendingIsSent ==
  \A p \in irr : ~ioredtbl[p].masked /\ Targets(ioredtbl[p]) # {}
                   => /\ ioredtbl[p].level
                      /\ ioredtbl[p].remote_irr \/ ioredtbl[p].mode = "extint"

\* A level triggered pin with a vector of its own, sent to one processor at a
\* time.
Exclusive(p) ==
  /\ LevelPin(p)
  /\ \A w \in Words[p] :
       /\ \A x \in Words[p] : x.vector = w.vector
       /\ \A q \in Pins \ {p} : \A x \in Words[q] : x.vector # w.vector
       /\ \A i \in Ipis : i.vector # w.vector
       /\ \A d \in Dests[p] \union {ResetDest} : w.mode # "lowpri" =>
            \A c, k \in Matched(w, d) : c = k

\* An entry that waits for an EOI gets one: its vector is requested or in
\* service at a processor which will report the end of it, unless an INIT has
\* cleared that processor.  Otherwise the line would be dead.
RemoteIrrEnds ==
  \A p \in Pins :
    LET v == ioredtbl[p].vector
    IN  Exclusive(p) /\ ioredtbl[p].remote_irr =>
          \/ \E c \in Cpus : v \in tmr[c] /\ v \in lapic_irr[c] \union isr[c]
          \/ v \in dropped

\* receive_EOI: the re-delivery of a level triggered interrupt "sets the TMR
\* bit again", so a requested vector that is always level triggered has its
\* TMR bit.
RequestedLevelHasTmr ==
  \A c \in Cpus : \A v \in lapic_irr[c] :
    \/ v \in tmr[c]
    \/ \E p \in Pins : \E w \in Words[p] : w.vector = v /\ ~w.level
    \/ \E i \in Ipis : i.vector = v
=============================================================================
