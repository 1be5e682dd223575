--------------------------------- MODULE Pic ---------------------------------
(***************************************************************************)
(* The pair of 8259A interrupt controllers of bochs/iodev/pic.cc, with the *)
(* slave's INT output on input 2 of the master, the CPU's INTR line and    *)
(* the lines forwarded to the I/O APIC.                                    *)
(*                                                                         *)
(* Every public operation (raise_irq, lower_irq, the port writes and       *)
(* reads, IAC) runs to completion on the emulator thread, so each is one   *)
(* action.  Inside, the code calls raise_irq -> pic_service ->             *)
(* raise_irq(2) -> pic_service on the other chip: these are written as     *)
(* functions from a state of the pair to the next, composed in the order   *)
(* of the code.  8-bit registers are sets of lines.  interrupt_offset is   *)
(* left out, and with it the value that IAC returns.                       *)
(***************************************************************************)
EXTENDS Integers, FiniteSetsExt

CONSTANTS
  LineCount,  \* inputs of one chip: 8
  Wired,      \* the <<chip, line, type>> that devices drive
  Masks,      \* the values that the guest writes to an IMR
  Levels,     \* the <<chip, lines>> that the guest writes to an ELCR
  Commands    \* the <<chip, command>> that the guest uses

Chips == {"master", "slave"}
Lines == 0 .. LineCount - 1
Cascade == 2
Types == {"ISA", "PIRQ", "SCI"}

ASSUME PicAssumption ==
  /\ LineCount \in Nat /\ LineCount > Cascade
  /\ Wired \subseteq Chips \X Lines \X Types
  /\ \A t \in Types : <<"master", Cascade, t>> \notin Wired
  \* an ISA line is not shared: raise_irq panics on it
  /\ \A c \in Chips, l \in Lines, t \in Types \ {"ISA"} :
       {<<c, l, "ISA">>, <<c, l, t>>} \subseteq Wired => FALSE
  /\ Masks \subseteq SUBSET Lines /\ Levels \subseteq Chips \X SUBSET Lines
  \* the ELCR bit of the cascade input is read-only zero (pci2isa.cc)
  /\ \A l \in Levels : l[1] = "master" => Cascade \notin l[2]

VARIABLES
  master_pic, slave_pic,
  intr,     \* the CPU's INTR input: BX_RAISE_INTR / BX_CLEAR_INTR
  wires,    \* per chip: the lines that the I/O APIC sees high
  spurious  \* the last IAC ended in the early return for a slave without requests

vars == <<master_pic, slave_pic, intr, wires, spurious>>

\* A state of the pair, for the functions below.
Now == [master |-> master_pic, slave |-> slave_pic, intr |-> intr, wires |-> wires]

Become(s) ==
  /\ master_pic' = s.master /\ slave_pic' = s.slave
  /\ intr' = s.intr /\ wires' = s.wires

\* Mutant of ResetPic: the priorities start one past the last line.
ResetPicPastLast ==
  [imr |-> Lines, isr |-> {}, irr |-> {}, irq |-> 0, INT |-> FALSE,
   IRQ_in |-> [l \in Lines |-> {}], lowest_priority |-> LineCount,
   special_mask |-> FALSE, polled |-> FALSE, auto_eoi |-> FALSE,
   rotate_on_autoeoi |-> FALSE, edge_level |-> {},
   byte_expected |-> 0, requires_4 |-> FALSE]

\* bx_pic_c::reset: everything masked, nothing pending.
ResetPic ==
  [imr |-> Lines, isr |-> {}, irr |-> {}, irq |-> 0, INT |-> FALSE,
   IRQ_in |-> [l \in Lines |-> {}], lowest_priority |-> LineCount - 1,
   special_mask |-> FALSE, polled |-> FALSE, auto_eoi |-> FALSE,
   rotate_on_autoeoi |-> FALSE, edge_level |-> {},
   byte_expected |-> 0,   \* 0: not in_init
   requires_4 |-> FALSE]

-----------------------------------------------------------------------------
(* Priorities. *)

\* 0 for the highest priority: the line after lowest_priority, going round.
Rank(p, l) == (l - p.lowest_priority - 1) % LineCount

Highest(p, S) == CHOOSE l \in S : \A k \in S : Rank(p, l) <= Rank(p, k)

\* irr & ~imr
Requests(p) == p.irr \ p.imr

\* Mutant of Eligible: lines in service do not hold back their own level.
EligibleAgain(p) ==
  IF p.special_mask
  THEN Requests(p)
  ELSE {l \in Requests(p) : \A k \in p.isr : Rank(p, l) <= Rank(p, k)}

\* The requests that the lines in service do not hold back.
Eligible(p) ==
  IF p.special_mask
  THEN Requests(p) \ p.isr
  ELSE {l \in Requests(p) : \A k \in p.isr : Rank(p, l) < Rank(p, k)}

\* pic_service returns at once when the highest priority is in service.
TopInService(p) == ~p.special_mask /\ \E l \in p.isr : Rank(p, l) = 0

\* The conditions of pic_service: what INT does.
Signals(p) == ~TopInService(p) /\ Eligible(p) # {} /\ ~p.INT
Withdraws(p) == ~TopInService(p) /\ Requests(p) = {} /\ p.INT

Latched(p) == [p EXCEPT !.INT = TRUE, !.irq = Highest(p, Eligible(p))]

-----------------------------------------------------------------------------
(* pic_service, raise_irq and lower_irq. *)

\* Mutant of service_master: a withdrawn request leaves INTR up.
service_keeps_intr(s) ==
  IF Signals(s.master)
  THEN [s EXCEPT !.master = Latched(s.master), !.intr = TRUE]
  ELSE IF Withdraws(s.master) THEN [s EXCEPT !.master.INT = FALSE]
  ELSE s

service_master(s) ==
  IF Signals(s.master)
  THEN [s EXCEPT !.master = Latched(s.master), !.intr = TRUE]
  ELSE IF Withdraws(s.master)
  THEN [s EXCEPT !.master.INT = FALSE, !.intr = FALSE]
  ELSE s

\* The cascade input is driven by the slave only and is not forwarded.
raise_cascade(s) ==
  LET p == [s.master EXCEPT !.IRQ_in[Cascade] = @ \union {"ISA"}]
  IN  IF Cascade \in p.irr
      THEN [s EXCEPT !.master = p]
      ELSE service_master([s EXCEPT !.master = [p EXCEPT !.irr = @ \union {Cascade}]])

lower_cascade(s) ==
  IF "ISA" \in s.master.IRQ_in[Cascade]
  THEN [s EXCEPT !.master.IRQ_in[Cascade] = {}, !.master.irr = @ \ {Cascade}]
  ELSE s

\* Mutant of service_slave: the cascade input is left up on withdrawal.
service_slave_keeps_cascade(s) ==
  IF Signals(s.slave)
  THEN raise_cascade([s EXCEPT !.slave = Latched(s.slave)])
  ELSE IF Withdraws(s.slave) THEN [s EXCEPT !.slave.INT = FALSE]
  ELSE s

service_slave(s) ==
  IF Signals(s.slave)
  THEN raise_cascade([s EXCEPT !.slave = Latched(s.slave)])
  ELSE IF Withdraws(s.slave)
  THEN LET t == lower_cascade(s) IN [t EXCEPT !.slave.INT = FALSE]
  ELSE s

pic_service(s, c) == IF c = "master" THEN service_master(s) ELSE service_slave(s)

raise_irq(s, c, l, type) ==
  LET p == [s[c] EXCEPT !.IRQ_in[l] = @ \union {type}]
      q == [p EXCEPT !.irr = @ \union {l}]
      t == pic_service([s EXCEPT ![c] = q], c)
  IN  IF s[c].IRQ_in[l] \ {type} # {} THEN s
      ELSE IF l \in p.irr THEN [s EXCEPT ![c] = p]
      ELSE [t EXCEPT !.wires[c] = @ \union {l}]

\* Mutant of lower_irq: the request register is not cleared.
lower_irq_keeps_irr(s, c, l, type) ==
  LET in == s[c].IRQ_in[l] \ {type}
  IN  IF type \notin s[c].IRQ_in[l] THEN s
      ELSE IF in # {} THEN [s EXCEPT ![c].IRQ_in[l] = in]
      ELSE [s EXCEPT ![c].IRQ_in[l] = in, !.wires[c] = @ \ {l}]

lower_irq(s, c, l, type) ==
  LET in == s[c].IRQ_in[l] \ {type}
      t == [s EXCEPT ![c].IRQ_in[l] = in]
  IN  IF type \notin s[c].IRQ_in[l] THEN s
      ELSE IF in # {} THEN t
      ELSE [t EXCEPT ![c].irr = @ \ {l}, !.wires[c] = @ \ {l}]

-----------------------------------------------------------------------------
(* Actions of the devices. *)

RaiseIrq(c, l, type) ==
  /\ <<c, l, type>> \in Wired
  /\ Become(raise_irq(Now, c, l, type))
  /\ UNCHANGED spurious

LowerIrq(c, l, type) ==
  /\ <<c, l, type>> \in Wired
  /\ Become(lower_irq(Now, c, l, type))
  /\ UNCHANGED spurious

\* set_mode, from a write to ELCR.
SetMode(c, level) ==
  /\ Become([Now EXCEPT ![c].edge_level = level])
  /\ UNCHANGED spurious

-----------------------------------------------------------------------------
(* Actions of the guest: port writes and the polled read. *)

Uses(c, cmd) == <<c, cmd>> \in Commands /\ UNCHANGED spurious

\* ICW1.  INT is withdrawn; the inputs keep their level.
Icw1(c, four) ==
  /\ Uses(c, "icw1")
  /\ LET p == [Now[c] EXCEPT
                 !.byte_expected = 2, !.requires_4 = four,
                 !.imr = {}, !.isr = {}, !.irr = {},
                 !.lowest_priority = LineCount - 1, !.auto_eoi = FALSE,
                 !.rotate_on_autoeoi = FALSE, !.special_mask = FALSE,
                 !.polled = FALSE, !.INT = FALSE]
         s == [Now EXCEPT ![c] = p]
     IN  Become(IF c = "master" THEN [s EXCEPT !.intr = FALSE]
                ELSE [s EXCEPT !.master.IRQ_in[Cascade] = @ \ {"ISA"}])

\* ICW2, ICW3 and ICW4, in the order that byte_expected prescribes.  After ICW3
\* requires_4 is not read before the next ICW1 sets it: the model forgets it.
IcwNext(c, auto) ==
  /\ Uses(c, "icw1")
  /\ Now[c].byte_expected # 0
  /\ LET p == Now[c]
         q == CASE p.byte_expected = 2 -> [p EXCEPT !.byte_expected = 3]
                [] p.byte_expected = 3 ->
                     [p EXCEPT !.byte_expected = IF p.requires_4 THEN 4 ELSE 0,
                               !.requires_4 = FALSE]
                [] p.byte_expected = 4 ->
                     [p EXCEPT !.byte_expected = 0, !.auto_eoi = auto]
     IN  Become([Now EXCEPT ![c] = q])

\* OCW1: the interrupt mask register.
WriteImr(c, mask) ==
  /\ Uses(c, "imr")
  /\ Now[c].byte_expected = 0
  /\ Become(pic_service([Now EXCEPT ![c].imr = mask], c))

\* OCW2 non-specific EOI (clear_highest_interrupt), with and without rotation.
Eoi(c, rotate) ==
  /\ Uses(c, IF rotate THEN "eoi_rotate" ELSE "eoi")
  /\ LET p == Now[c]
         q == [p EXCEPT !.isr = IF @ = {} THEN @ ELSE @ \ {Highest(p, @)},
                        !.lowest_priority =
                           IF rotate THEN (@ + 1) % LineCount ELSE @]
     IN  Become(pic_service([Now EXCEPT ![c] = q], c))

\* Mutant of SpecificEoi: requests held back are not looked at again.
SpecificEoiNoService(c, l, rotate) ==
  /\ Uses(c, IF rotate THEN "seoi_rotate" ELSE "seoi")
  /\ Become([Now EXCEPT ![c].isr = @ \ {l},
                        ![c].lowest_priority = IF rotate THEN l ELSE @])

\* OCW2 specific EOI, with and without rotation.
SpecificEoi(c, l, rotate) ==
  /\ Uses(c, IF rotate THEN "seoi_rotate" ELSE "seoi")
  /\ LET q == [Now[c] EXCEPT !.isr = @ \ {l},
                             !.lowest_priority = IF rotate THEN l ELSE @]
     IN  Become(pic_service([Now EXCEPT ![c] = q], c))

\* OCW2 set priority: no pic_service.
SetPriority(c, l) ==
  /\ Uses(c, "set_priority")
  /\ Become([Now EXCEPT ![c].lowest_priority = l])

\* OCW2 rotate in automatic EOI mode, set and clear.
RotateOnAutoEoi(c, on) ==
  /\ Uses(c, "rotate_auto")
  /\ Become([Now EXCEPT ![c].rotate_on_autoeoi = on])

\* OCW3 special mask mode; only setting it services the requests.
SpecialMask(c, on) ==
  /\ Uses(c, "special_mask")
  /\ LET s == [Now EXCEPT ![c].special_mask = on]
     IN  Become(IF on THEN pic_service(s, c) ELSE s)

\* OCW3 poll command ...
Poll(c) ==
  /\ Uses(c, "poll")
  /\ Become([Now EXCEPT ![c].polled = TRUE])

\* What an acknowledge of the latched line does to a chip.
Acknowledged(p) ==
  [p EXCEPT !.irr = IF p.irq \in p.edge_level THEN @ ELSE @ \ {p.irq},
            !.isr = IF p.auto_eoi THEN @ ELSE @ \union {p.irq},
            !.lowest_priority =
               IF p.auto_eoi /\ p.rotate_on_autoeoi THEN p.irq ELSE @]

\* ... and the read that follows it: poll_command.
PollRead(c) ==
  /\ Uses(c, "poll")
  /\ Now[c].polled
  /\ LET s == [Now EXCEPT ![c].polled = FALSE]
         off == [s EXCEPT ![c].INT = FALSE]
         t == IF c = "master" THEN [off EXCEPT !.intr = FALSE]
              ELSE lower_cascade(off)
     IN  Become(pic_service(IF s[c].INT
                            THEN [t EXCEPT ![c] = Acknowledged(t[c])]
                            ELSE s, c))

-----------------------------------------------------------------------------
(* The CPU. *)

\* Mutant of IAC: the slave is not serviced again after its acknowledge, and
\* its INT stays up.
IACKeepsSlave ==
  /\ intr
  /\ LET s == [Now EXCEPT !.master.INT = FALSE, !.intr = FALSE]
         m == [s EXCEPT !.master = Acknowledged(s.master)]
         c == [m EXCEPT !.master.IRQ_in[Cascade] = @ \ {"ISA"}]
         a == [c EXCEPT !.slave = Acknowledged(c.slave)]
     IN  /\ spurious' = (master_pic.irq = Cascade /\ Requests(master_pic) # {}
                         /\ Requests(slave_pic) = {})
         /\ Become(IF Requests(master_pic) = {} THEN s
                   ELSE IF master_pic.irq # Cascade THEN service_master(m)
                   ELSE IF Requests(slave_pic) = {} THEN c
                   ELSE service_master(a))

\* IAC, called when the CPU takes the interrupt that INTR announces.
IAC ==
  /\ intr
  /\ LET s == [Now EXCEPT !.master.INT = FALSE, !.intr = FALSE]
         m == [s EXCEPT !.master = Acknowledged(s.master)]
         c == [m EXCEPT !.slave.INT = FALSE,
                        !.master.IRQ_in[Cascade] = @ \ {"ISA"}]
         a == service_slave([c EXCEPT !.slave = Acknowledged(c.slave)])
     IN  /\ spurious' = (master_pic.irq = Cascade /\ Requests(master_pic) # {}
                         /\ Requests(slave_pic) = {})
         /\ Become(IF Requests(master_pic) = {} THEN s
                   ELSE IF master_pic.irq # Cascade THEN service_master(m)
                   ELSE IF Requests(slave_pic) = {} THEN c
                   ELSE service_master(a))

\* Hardware reset: the CPU is reset first, so its INTR event is gone too,
\* and the I/O APIC forgets its inputs.
Reset ==
  /\ Uses("master", "reset")
  /\ Become([master |-> ResetPic, slave |-> ResetPic, intr |-> FALSE,
             wires |-> [c \in Chips |-> {}]])

-----------------------------------------------------------------------------
Init ==
  /\ master_pic = ResetPic /\ slave_pic = ResetPic
  /\ intr = FALSE
  /\ wires = [c \in Chips |-> {}]
  /\ spurious = FALSE

Next ==
  \/ \E w \in Wired : RaiseIrq(w[1], w[2], w[3]) \/ LowerIrq(w[1], w[2], w[3])
  \/ \E l \in Levels : SetMode(l[1], l[2])
  \/ \E c \in Chips :
       \/ \E f \in BOOLEAN : Icw1(c, f) \/ IcwNext(c, f)
       \/ \E m \in Masks : WriteImr(c, m)
       \/ \E r \in BOOLEAN : Eoi(c, r) \/ \E l \in Lines : SpecificEoi(c, l, r)
       \/ \E l \in Lines : SetPriority(c, l)
       \/ \E on \in BOOLEAN : RotateOnAutoEoi(c, on) \/ SpecialMask(c, on)
       \/ Poll(c) \/ PollRead(c)
  \/ IAC
  \/ Reset

Spec == Init /\ [][Next]_vars

\* The guest's handlers run: a CPU with interrupts enabled acknowledges INTR,
\* and a handler ends the interrupts in service.
Fairness ==
  /\ []<>~intr \/ []<><<IAC>>_vars
  /\ \A c \in Chips : []<>(Now[c].isr = {}) \/ []<><<Eoi(c, FALSE)>>_vars

FairSpec == Spec /\ Fairness

-----------------------------------------------------------------------------
(* Properties. *)

PicType ==
  [imr : SUBSET Lines, isr : SUBSET Lines, irr : SUBSET Lines, irq : Lines,
   INT : BOOLEAN, IRQ_in : [Lines -> SUBSET Types], lowest_priority : Lines,
   special_mask : BOOLEAN, polled : BOOLEAN, auto_eoi : BOOLEAN,
   rotate_on_autoeoi : BOOLEAN, edge_level : SUBSET Lines,
   byte_expected : {0, 2, 3, 4}, requires_4 : BOOLEAN]

\* Types of the registers.
TypeOK ==
  /\ master_pic \in PicType /\ slave_pic \in PicType
  /\ intr \in BOOLEAN /\ wires \in [Chips -> SUBSET Lines] /\ spurious \in BOOLEAN

\* The CPU's INTR line follows the INT output of the master through every
\* command, acknowledge and withdrawal: the CPU never waits for an interrupt
\* that the chip believes it has announced.
IntrFollowsINT == intr = master_pic.INT

\* The slave's INT output and the level of the master's input 2 agree.
CascadeCoherent == slave_pic.INT <=> "ISA" \in master_pic.IRQ_in[Cascade]

\* A chip never announces a line that is in service, in any of the priority
\* modes: handlers are not re-entered before their EOI.
NeverReenter == \A c \in Chips : Now[c].INT => Now[c].irq \notin Now[c].isr

\* A request of a device line is backed by the level of the line, and the
\* I/O APIC sees that same level whatever the guest does to the 8259s.
LinesCoherent ==
  \A c \in Chips, l \in Lines :
    \/ c = "master" /\ l = Cascade
    \/ /\ l \in Now[c].irr => Now[c].IRQ_in[l] # {}
       /\ l \in wires[c] <=> Now[c].IRQ_in[l] # {}

\* After a spurious acknowledge of the slave, IAC returns before it services
\* the master: a request of a higher priority waits for the next EOI.
SpuriousWindow == spurious /\ Cascade \in master_pic.isr

\* No request is forgotten: as soon as a chip has a request that is neither
\* masked nor held back by a line in service, its INT output is up.  Holds
\* for a guest that does not use the set-priority command, which does not
\* look at the requests again, nor automatic EOI on the master, which would
\* open the window above with no line in service.
PendingSignalled ==
  \A c \in Chips :
    Eligible(Now[c]) # {} => Now[c].INT \/ (c = "master" /\ SpuriousWindow)

\* As long as the slave announces an interrupt the master holds its request:
\* the acknowledge of the one always reaches the other.  Holds for a guest
\* that neither polls nor re-initialises the master alone.
CascadeNotLost == slave_pic.INT => Cascade \in master_pic.irr

\* The interrupt that a chip announces is of higher priority than all that
\* are in service: fully nested handlers.  Holds in normal mode for a guest
\* that does not change priorities.
NestedPriority ==
  \A c \in Chips : Now[c].INT =>
    \A k \in Now[c].isr : Rank(Now[c], Now[c].irq) < Rank(Now[c], k)

\* A line of a higher priority, of the slave or above the cascade, is
\* requested or in service, or the line or the cascade is masked.
HeldBack(l) ==
  \/ \E k \in slave_pic.irr \union slave_pic.isr : Rank(slave_pic, k) < Rank(slave_pic, l)
  \/ \E k \in master_pic.irr \union master_pic.isr :
        Rank(master_pic, k) < Rank(master_pic, Cascade)
  \/ l \in slave_pic.imr \/ Cascade \in master_pic.imr

\* A request of the slave that nothing of a higher priority competes with is
\* served, whatever other lines come and go: spurious interrupts, withdrawn
\* requests and the cascade never strand it.
SlaveServed ==
  \A w \in Wired : w[1] = "slave" =>
    (w[2] \in slave_pic.irr ~> \/ w[2] \notin slave_pic.irr \/ w[2] \in slave_pic.isr
                               \/ HeldBack(w[2]))
=============================================================================
