----------------------------- MODULE PicProofs -----------------------------
(***************************************************************************)
(* Proofs about Pic, for all numbers of lines, wirings and commands.       *)
(***************************************************************************)
EXTENDS Pic, WellFoundedInduction, TLAPS

Pairs == [master : PicType, slave : PicType, intr : BOOLEAN, wires : [Chips -> SUBSET Lines]]

\* A chip does not announce a line in service.
Entered(p) == p.INT => p.irq \notin p.isr

\* The slave's output and the master's input agree.
Coherent(s) ==
  /\ s.slave.INT <=> "ISA" \in s.master.IRQ_in[Cascade]
  /\ s.master.IRQ_in[Cascade] \subseteq {"ISA"}

\* The master holds the request of a slave that announces.
Held(s) == s.slave.INT => Cascade \in s.master.irr

\* What holds of the pair after every call, whatever the guest programs.
Sound(s) ==
  /\ s \in Pairs
  /\ s.intr = s.master.INT
  /\ Coherent(s)
  /\ Cascade \notin s.master.edge_level
  /\ Entered(s.master) /\ Entered(s.slave)

\* LinesCoherent of the line l of a chip p, the level w seen by the I/O APIC.
Level(p, l, w) ==
  /\ l \in p.irr => p.IRQ_in[l] # {}
  /\ w <=> p.IRQ_in[l] # {}

Levelled(s) ==
  /\ \A l \in Lines \ {Cascade} : Level(s.master, l, l \in s.wires.master)
  /\ \A l \in Lines : Level(s.slave, l, l \in s.wires.slave)

-----------------------------------------------------------------------------
(* Priorities. *)

LEMMA RankInLines ==
  ASSUME NEW p \in PicType, NEW l \in Lines
  PROVE  Rank(p, l) \in Lines /\ Rank(p, l) \in Nat
<1>1. p.lowest_priority \in Int /\ l \in Int /\ LineCount \in Nat /\ LineCount > 0
  BY PicAssumption DEF PicType, Lines, Cascade
<1>2. l - p.lowest_priority - 1 \in Int
  BY <1>1
<1> DEFINE a == l - p.lowest_priority - 1
<1> HIDE DEF a
<1>3. a % LineCount \in 0 .. LineCount - 1
  BY <1>1, <1>2 DEF a
<1> QED BY <1>3 DEF Rank, a, Lines

LEMMA HighestExists ==
  ASSUME NEW p \in PicType, NEW S \in SUBSET Lines, S # {}
  PROVE  Highest(p, S) \in S /\ \A k \in S : Rank(p, Highest(p, S)) <= Rank(p, k)
<1> DEFINE R == {Rank(p, l) : l \in S}
<1>1. \A l \in S : Rank(p, l) \in Nat
  BY RankInLines
<1>2. PICK x \in R : \A y \in R : <<y, x>> \notin OpToRel(<, Nat)
  <2>1. R \subseteq Nat /\ R # {}
    BY <1>1
  <2> QED BY <2>1, NatLessThanWellFounded, WFMin
<1>3. \A y \in R : ~(y < x)
  BY <1>1, <1>2 DEF OpToRel
<1>4. \E l \in S : \A k \in S : Rank(p, l) <= Rank(p, k)
  <2>1. PICK l \in S : x = Rank(p, l)
    OBVIOUS
  <2>2. ASSUME NEW k \in S PROVE Rank(p, l) <= Rank(p, k)
    <3>1. ~(Rank(p, k) < Rank(p, l))
      BY <1>3, <2>1
    <3> QED BY <1>1, <3>1
  <2> QED BY <2>2
<1> QED BY <1>4 DEF Highest

\* What the priority resolver lets through is requested and not in service.
LEMMA EligibleLines ==
  ASSUME NEW p \in PicType
  PROVE  /\ Eligible(p) \subseteq Requests(p) /\ Requests(p) \subseteq Lines
         /\ \A l \in Eligible(p) : l \notin p.isr
         /\ Eligible(p) # {} => ~TopInService(p)
         /\ ~p.special_mask =>
              \A l \in Eligible(p) : \A k \in p.isr : Rank(p, l) < Rank(p, k)
<1>1. Eligible(p) \subseteq Requests(p) /\ Requests(p) \subseteq Lines
  BY DEF Eligible, Requests, PicType
<1>2. ASSUME NEW l \in Lines PROVE ~(Rank(p, l) < Rank(p, l)) /\ ~(Rank(p, l) < 0)
  BY RankInLines
<1>3. \A l \in Eligible(p) : l \notin p.isr
  BY <1>1, <1>2 DEF Eligible
<1>4. ~p.special_mask => \A l \in Eligible(p) : \A k \in p.isr : Rank(p, l) < Rank(p, k)
  BY DEF Eligible
<1>5. Eligible(p) # {} => ~TopInService(p)
  BY <1>1, <1>2, <1>4 DEF TopInService
<1> QED BY <1>1, <1>3, <1>4, <1>5

-----------------------------------------------------------------------------
(* pic_service, raise_irq and lower_irq. *)

\* The registers that pic_service leaves alone.
SameRegisters(p, q) ==
  /\ q.imr = p.imr /\ q.isr = p.isr /\ q.irr = p.irr /\ q.IRQ_in = p.IRQ_in
  /\ q.lowest_priority = p.lowest_priority /\ q.special_mask = p.special_mask
  /\ q.auto_eoi = p.auto_eoi /\ q.rotate_on_autoeoi = p.rotate_on_autoeoi
  /\ q.edge_level = p.edge_level

\* q is p after pic_service looked at it.
Serviced(p, q) ==
  /\ q \in PicType /\ SameRegisters(p, q)
  /\ Eligible(p) # {} => q.INT
  /\ q.INT => q.irq \in Eligible(p) \/ (p.INT /\ q.irq = p.irq)

\* What a chip serves depends on its registers only.
LEMMA SameEligible ==
  ASSUME NEW p, NEW q, SameRegisters(p, q)
  PROVE  /\ Requests(q) = Requests(p) /\ Eligible(q) = Eligible(p)
         /\ \A l : Rank(q, l) = Rank(p, l)
<1>1. Requests(q) = Requests(p) /\ \A l : Rank(q, l) = Rank(p, l)
  BY DEF SameRegisters, Requests, Rank
<1> QED BY <1>1 DEF SameRegisters, Eligible

LEMMA ServiceChip ==
  ASSUME NEW p \in PicType
  PROVE  /\ Signals(p) => Serviced(p, Latched(p)) /\ Latched(p).INT
         /\ Withdraws(p) => Serviced(p, [p EXCEPT !.INT = FALSE])
         /\ ~Signals(p) /\ ~Withdraws(p) => Serviced(p, p)
<1>1. CASE Signals(p)
  <2> DEFINE h == Highest(p, Eligible(p))
  <2>1. Eligible(p) # {} /\ Eligible(p) \in SUBSET Lines
    BY <1>1, EligibleLines DEF Signals
  <2>2. h \in Eligible(p) /\ h \in Lines
    BY <2>1, HighestExists
  <2>3. Latched(p) = [p EXCEPT !.INT = TRUE, !.irq = h]
    BY DEF Latched
  <2> HIDE DEF h
  <2>4. Serviced(p, Latched(p)) /\ Latched(p).INT
    BY <2>2, <2>3 DEF Serviced, SameRegisters, PicType
  <2> QED BY <1>1, <2>4 DEF Signals, Withdraws
<1>2. CASE Withdraws(p)
  <2>1. Eligible(p) = {}
    BY <1>2, EligibleLines DEF Withdraws
  <2>2. Serviced(p, [p EXCEPT !.INT = FALSE])
    BY <2>1 DEF Serviced, SameRegisters, PicType
  <2> QED BY <1>2, <2>2 DEF Signals, Withdraws
<1>3. CASE ~Signals(p) /\ ~Withdraws(p)
  <2>1. Eligible(p) # {} => p.INT
    BY <1>3, EligibleLines DEF Signals
  <2> QED BY <1>3, <2>1 DEF Serviced, SameRegisters
<1> QED BY <1>1, <1>2, <1>3

\* A serviced chip announces no line in service, and the most urgent if the
\* old one was.
LEMMA ServicedEnters ==
  ASSUME NEW p \in PicType, NEW q, Serviced(p, q)
  PROVE  Entered(p) => Entered(q)
BY EligibleLines DEF Serviced, SameRegisters, Entered

LEMMA ServiceMaster ==
  ASSUME NEW s \in Pairs
  PROVE  LET t == service_master(s) IN
         /\ t \in Pairs /\ t.slave = s.slave /\ t.wires = s.wires
         /\ Serviced(s.master, t.master)
         /\ s.intr = s.master.INT => t.intr = t.master.INT
<1> DEFINE p == s.master
<1>1. p \in PicType
  BY DEF Pairs
<1>2. CASE Signals(p)
  <2>1. service_master(s) = [s EXCEPT !.master = Latched(p), !.intr = TRUE]
    BY <1>2 DEF service_master
  <2>2. Serviced(p, Latched(p)) /\ Latched(p).INT /\ Latched(p) \in PicType
    BY <1>1, <1>2, ServiceChip DEF Serviced
  <2>3. Latched(p).INT = TRUE
    BY <2>2 DEF PicType
  <2> QED BY <2>1, <2>2, <2>3 DEF Pairs
<1>3. CASE ~Signals(p) /\ Withdraws(p)
  <2> DEFINE q == [p EXCEPT !.INT = FALSE]
  <2>1. service_master(s) = [s EXCEPT !.master = q, !.intr = FALSE]
    BY <1>3 DEF service_master, Pairs
  <2>2. Serviced(p, q) /\ q.INT = FALSE /\ q \in PicType
    BY <1>1, <1>3, ServiceChip DEF Serviced, PicType
  <2> HIDE DEF q
  <2> QED BY <2>1, <2>2 DEF Pairs
<1>4. CASE ~Signals(p) /\ ~Withdraws(p)
  BY <1>1, <1>4, ServiceChip DEF service_master
<1> QED BY <1>2, <1>3, <1>4

\* Line l may be announced: it is not in service, and in normal mode nothing
\* as urgent is.
Admits(p, l) ==
  /\ l \notin p.isr
  /\ ~p.special_mask => \A k \in p.isr : Rank(p, l) < Rank(p, k)

\* The modes and what is in service.
SameService(p, q) ==
  /\ q.isr = p.isr /\ q.imr = p.imr /\ q.lowest_priority = p.lowest_priority
  /\ q.special_mask = p.special_mask /\ q.auto_eoi = p.auto_eoi
  /\ q.rotate_on_autoeoi = p.rotate_on_autoeoi /\ q.edge_level = p.edge_level

\* q is p after calls that touch no input but the cascade: what it announces
\* may be announced, and nothing that waits is forgotten.
Prodded(p, q) ==
  /\ q \in PicType /\ SameService(p, q)
  /\ \A l \in Lines \ {Cascade} : q.IRQ_in[l] = p.IRQ_in[l] /\ (l \in q.irr <=> l \in p.irr)
  /\ q.INT => Admits(q, q.irq) \/ (p.INT /\ q.irq = p.irq)
  /\ Eligible(q) # {} /\ ~q.INT => Eligible(p) # {} /\ ~p.INT

LEMMA SameAdmits ==
  ASSUME NEW p, NEW q, SameService(p, q), NEW l
  PROVE  Admits(q, l) <=> Admits(p, l)
BY DEF SameService, Admits, Rank

LEMMA ServicedIsProdded ==
  ASSUME NEW p \in PicType, NEW q, Serviced(p, q)
  PROVE  Prodded(p, q) /\ q.irr = p.irr /\ q.IRQ_in = p.IRQ_in
<1>1. SameService(p, q) /\ q \in PicType /\ q.irr = p.irr /\ q.IRQ_in = p.IRQ_in
      /\ SameRegisters(p, q)
  BY DEF Serviced, SameRegisters, SameService
<1>2. Eligible(q) = Eligible(p)
  BY <1>1, SameEligible
<1>3. \A l \in Eligible(q) : Admits(q, l)
  BY <1>1, EligibleLines DEF Admits
<1> QED BY <1>1, <1>2, <1>3 DEF Prodded, Serviced

LEMMA ProddedTwice ==
  ASSUME NEW p, NEW q, NEW r, Prodded(p, q), Prodded(q, r)
  PROVE  Prodded(p, r)
<1>1. SameService(p, r) /\ SameService(q, r)
  BY DEF Prodded, SameService
<1>2. r.INT => Admits(r, r.irq) \/ (p.INT /\ r.irq = p.irq)
  BY <1>1, SameAdmits DEF Prodded
<1> QED BY <1>1, <1>2 DEF Prodded

LEMMA ProddedEnters ==
  ASSUME NEW p, NEW q, Prodded(p, q)
  PROVE  Entered(p) => Entered(q)
BY DEF Prodded, SameService, Entered, Admits

LEMMA CascadeLine == Cascade \in Lines /\ "ISA" \in Types
BY PicAssumption DEF Lines, Cascade, Types

\* The slave's output goes up.
LEMMA RaiseCascade ==
  ASSUME NEW s \in Pairs
  PROVE  LET t == raise_cascade(s) IN
         /\ t \in Pairs /\ t.slave = s.slave /\ t.wires = s.wires
         /\ Prodded(s.master, t.master)
         /\ Cascade \in t.master.irr
         /\ t.master.IRQ_in[Cascade] = s.master.IRQ_in[Cascade] \union {"ISA"}
         /\ s.intr = s.master.INT => t.intr = t.master.INT
<1> DEFINE m == s.master
           p == [m EXCEPT !.IRQ_in[Cascade] = @ \union {"ISA"}]
           q == [p EXCEPT !.irr = @ \union {Cascade}]
<1>1. m \in PicType
  BY DEF Pairs
<1>2. /\ p \in PicType /\ SameService(m, p) /\ p.INT = m.INT /\ p.irq = m.irq /\ p.irr = m.irr
      /\ p.IRQ_in[Cascade] = m.IRQ_in[Cascade] \union {"ISA"}
      /\ \A l \in Lines \ {Cascade} : p.IRQ_in[l] = m.IRQ_in[l]
  BY <1>1, CascadeLine DEF PicType, SameService
<1> HIDE DEF p
<1>3. /\ q \in PicType /\ SameService(m, q) /\ q.INT = m.INT /\ q.irq = m.irq
      /\ q.irr = m.irr \union {Cascade} /\ q.IRQ_in = p.IRQ_in
  BY <1>2, CascadeLine DEF PicType, SameService
<1>4. CASE Cascade \in m.irr
  <2>1. raise_cascade(s) = [s EXCEPT !.master = p]
    BY <1>2, <1>4 DEF raise_cascade, p
  <2>2. SameRegisters(m, p) \/ Eligible(p) = Eligible(m)
    BY <1>2 DEF Eligible, Requests, Rank, SameService
  <2>3. Eligible(p) = Eligible(m)
    BY <2>2, SameEligible
  <2>4. Prodded(m, p)
    BY <1>2, <2>3 DEF Prodded
  <2> QED BY <1>2, <1>4, <2>1, <2>4 DEF Pairs
<1>5. CASE Cascade \notin m.irr
  <2> DEFINE u == [s EXCEPT !.master = q]
             t == service_master(u)
  <2>1. raise_cascade(s) = t
    BY <1>2, <1>5 DEF raise_cascade, p
  <2>2. u \in Pairs /\ u.master = q /\ u.slave = s.slave /\ u.wires = s.wires /\ u.intr = s.intr
    BY <1>3 DEF Pairs
  <2> HIDE DEF u, q
  <2>3. /\ t \in Pairs /\ t.slave = s.slave /\ t.wires = s.wires /\ Serviced(q, t.master)
        /\ s.intr = m.INT => t.intr = t.master.INT
    BY <1>3, <2>2, ServiceMaster
  <2> HIDE DEF t
  <2>4. Prodded(q, t.master) /\ t.master.irr = q.irr /\ t.master.IRQ_in = q.IRQ_in
        /\ (Eligible(t.master) # {} => t.master.INT)
    <3>1. Eligible(t.master) = Eligible(q)
      BY <2>3, SameEligible DEF Serviced
    <3> QED BY <1>3, <2>3, <3>1, ServicedIsProdded DEF Serviced
  <2>5. Prodded(m, t.master)
    BY <1>2, <1>3, <2>4 DEF Prodded, SameService
  <2> QED BY <1>2, <1>3, <2>1, <2>3, <2>4, <2>5
<1> QED BY <1>4, <1>5

\* The slave's output goes down.
LEMMA LowerCascade ==
  ASSUME NEW s \in Pairs, s.master.IRQ_in[Cascade] \subseteq {"ISA"}
  PROVE  LET t == lower_cascade(s) IN
         /\ t \in Pairs /\ t.slave = s.slave /\ t.wires = s.wires /\ t.intr = s.intr
         /\ Prodded(s.master, t.master) /\ t.master.INT = s.master.INT
         /\ t.master.irq = s.master.irq
         /\ t.master.IRQ_in[Cascade] = {}
<1> DEFINE m == s.master
           p == [m EXCEPT !.IRQ_in[Cascade] = {}, !.irr = @ \ {Cascade}]
<1>1. m \in PicType
  BY DEF Pairs
<1>2. CASE "ISA" \in m.IRQ_in[Cascade]
  <2>1. /\ p \in PicType /\ SameService(m, p) /\ p.INT = m.INT /\ p.irq = m.irq
        /\ p.irr = m.irr \ {Cascade} /\ p.IRQ_in[Cascade] = {}
        /\ \A l \in Lines \ {Cascade} : p.IRQ_in[l] = m.IRQ_in[l]
    BY <1>1, CascadeLine DEF PicType, SameService
  <2>2. lower_cascade(s) = [s EXCEPT !.master = p]
    BY <1>1, <1>2 DEF lower_cascade, Pairs
  <2> HIDE DEF p
  <2>3. Eligible(p) \subseteq Eligible(m)
    BY <2>1 DEF Eligible, Requests, Rank, SameService
  <2>4. Prodded(m, p)
    BY <2>1, <2>3 DEF Prodded
  <2> QED BY <2>1, <2>2, <2>4 DEF Pairs
<1>3. CASE "ISA" \notin m.IRQ_in[Cascade]
  <2>1. lower_cascade(s) = s /\ m.IRQ_in[Cascade] = {}
    BY <1>3 DEF lower_cascade
  <2> QED BY <1>1, <2>1 DEF Prodded, SameService
<1> QED BY <1>2, <1>3

\* t is s after calls of pic_service.
PairServed(s, t) ==
  /\ t \in Pairs /\ t.wires = s.wires
  /\ Prodded(s.master, t.master) /\ Prodded(s.slave, t.slave)
  /\ t.slave.irr = s.slave.irr /\ t.slave.IRQ_in = s.slave.IRQ_in
  /\ Coherent(t)
  /\ Held(s) => Held(t)
  /\ s.intr = s.master.INT => t.intr = t.master.INT

\* Nothing that chip p could announce waits.
Told(p) == Eligible(p) # {} => p.INT

LEMMA NotProdded ==
  ASSUME NEW p \in PicType
  PROVE  Prodded(p, p)
BY DEF Prodded, SameService

LEMMA MasterIsServed ==
  ASSUME NEW s \in Pairs, Coherent(s)
  PROVE  PairServed(s, service_master(s)) /\ Told(service_master(s).master)
<1> DEFINE t == service_master(s)
<1>1. s.master \in PicType /\ s.slave \in PicType
  BY DEF Pairs
<1>2. /\ t \in Pairs /\ t.slave = s.slave /\ t.wires = s.wires
      /\ Serviced(s.master, t.master)
      /\ s.intr = s.master.INT => t.intr = t.master.INT
  BY ServiceMaster
<1> HIDE DEF t
<1>3. Prodded(s.master, t.master) /\ t.master.irr = s.master.irr /\ t.master.IRQ_in = s.master.IRQ_in
  BY <1>1, <1>2, ServicedIsProdded
<1>4. Told(t.master)
  <2>1. Eligible(t.master) = Eligible(s.master)
    BY <1>2, SameEligible DEF Serviced
  <2> QED BY <1>2, <2>1 DEF Told, Serviced
<1>5. PairServed(s, t)
  BY <1>1, <1>2, <1>3, NotProdded DEF PairServed, Coherent, Held
<1> QED BY <1>4, <1>5 DEF t

LEMMA SlaveIsServed ==
  ASSUME NEW s \in Pairs, Coherent(s)
  PROVE  PairServed(s, service_slave(s)) /\ Told(service_slave(s).slave)
<1> DEFINE p == s.slave
<1>1. p \in PicType /\ s.master \in PicType
  BY DEF Pairs
<1>2. CASE Signals(p)
  <2> DEFINE q == Latched(p)
             u == [s EXCEPT !.slave = q]
             t == raise_cascade(u)
  <2>1. service_slave(s) = t
    BY <1>2 DEF service_slave
  <2>2. Serviced(p, q) /\ q.INT /\ q \in PicType
    BY <1>1, <1>2, ServiceChip DEF Serviced
  <2> HIDE DEF q
  <2>3. /\ u \in Pairs /\ u.master = s.master /\ u.slave = q
        /\ u.wires = s.wires /\ u.intr = s.intr
    BY <2>2 DEF Pairs
  <2> HIDE DEF u
  <2>4. /\ t \in Pairs /\ t.slave = q /\ t.wires = s.wires
        /\ Prodded(s.master, t.master)
        /\ Cascade \in t.master.irr
        /\ t.master.IRQ_in[Cascade] = s.master.IRQ_in[Cascade] \union {"ISA"}
        /\ s.intr = s.master.INT => t.intr = t.master.INT
    BY <2>3, RaiseCascade
  <2> HIDE DEF t
  <2>5. Prodded(p, q) /\ q.irr = p.irr /\ q.IRQ_in = p.IRQ_in
    BY <1>1, <2>2, ServicedIsProdded
  <2>6. Coherent(t) /\ Held(t)
    BY <2>2, <2>4 DEF Coherent, Held
  <2> QED BY <2>1, <2>2, <2>4, <2>5, <2>6 DEF PairServed, Told
<1>3. CASE ~Signals(p) /\ Withdraws(p)
  <2> DEFINE q == [p EXCEPT !.INT = FALSE]
             u == lower_cascade(s)
             t == [u EXCEPT !.slave.INT = FALSE]
  <2>1. service_slave(s) = t
    BY <1>3 DEF service_slave
  <2>2. Serviced(p, q) /\ ~q.INT /\ q \in PicType
    BY <1>1, <1>3, ServiceChip DEF Serviced, PicType
  <2>3. /\ u \in Pairs /\ u.slave = p /\ u.wires = s.wires /\ u.intr = s.intr
        /\ Prodded(s.master, u.master) /\ u.master.INT = s.master.INT
        /\ u.master.IRQ_in[Cascade] = {}
    BY LowerCascade DEF Coherent
  <2> HIDE DEF u
  <2>4. t = [u EXCEPT !.slave = q]
    BY <2>3 DEF Pairs
  <2> HIDE DEF q, t
  <2>5. t \in Pairs /\ t.master = u.master /\ t.slave = q /\ t.wires = s.wires /\ t.intr = s.intr
    BY <2>2, <2>3, <2>4 DEF Pairs
  <2>6. Prodded(p, q) /\ q.irr = p.irr /\ q.IRQ_in = p.IRQ_in
    BY <1>1, <2>2, ServicedIsProdded
  <2>7. Coherent(t) /\ Held(t)
    BY <2>2, <2>3, <2>5 DEF Coherent, Held
  <2>8. Told(q)
    <3>1. Eligible(q) = Eligible(p)
      BY <2>2, SameEligible DEF Serviced
    <3> QED BY <2>2, <3>1 DEF Told, Serviced
  <2> QED BY <2>1, <2>3, <2>5, <2>6, <2>7, <2>8 DEF PairServed
<1>4. CASE ~Signals(p) /\ ~Withdraws(p)
  <2>1. service_slave(s) = s
    BY <1>4 DEF service_slave
  <2>2. Told(p)
    BY <1>1, <1>4, ServiceChip DEF Told, Serviced
  <2> QED BY <1>1, <2>1, <2>2, NotProdded DEF PairServed
<1> QED BY <1>2, <1>3, <1>4

LEMMA ServedTwice ==
  ASSUME NEW s, NEW t, NEW u, PairServed(s, t), PairServed(t, u)
  PROVE  PairServed(s, u)
BY ProddedTwice DEF PairServed

-----------------------------------------------------------------------------
(* What the calls keep. *)

\* Normal mode with fixed priorities.
Fixed(p) == ~p.special_mask /\ ~p.rotate_on_autoeoi /\ p.lowest_priority = LineCount - 1

\* What chip p announces goes before all that it has in service.
Nested(p) == p.INT => \A k \in p.isr : Rank(p, p.irq) < Rank(p, k)

Plain(s) == Fixed(s.master) /\ Fixed(s.slave) /\ Nested(s.master) /\ Nested(s.slave)

\* PendingSignalled, w: the last acknowledge of the slave was spurious.
Waits(s, w) ==
  /\ Eligible(s.master) # {} => s.master.INT \/ (w /\ Cascade \in s.master.isr)
  /\ Told(s.slave)

LEMMA ServedKeeps ==
  ASSUME NEW s, NEW t, Sound(s), PairServed(s, t), NEW w
  PROVE  /\ Sound(t)
         /\ Levelled(s) => Levelled(t)
         /\ Held(s) => Held(t)
         /\ Plain(s) => Plain(t)
         /\ Waits(s, w) => Waits(t, w)
<1>1. Sound(t)
  BY ProddedEnters DEF Sound, PairServed, Prodded, SameService
<1>2. Levelled(s) => Levelled(t)
  BY DEF Levelled, Level, PairServed, Prodded
<1>3. Held(s) => Held(t)
  BY DEF PairServed
<1>4. ASSUME NEW p, NEW q, Prodded(p, q), Fixed(p), Nested(p)
      PROVE  Fixed(q) /\ Nested(q)
  <2>1. Fixed(q) /\ q.isr = p.isr
    BY <1>4 DEF Fixed, Prodded, SameService
  <2>2. \A l : Rank(q, l) = Rank(p, l)
    BY <1>4 DEF Prodded, SameService, Rank
  <2> QED BY <1>4, <2>1, <2>2 DEF Nested, Prodded, Admits, Fixed
<1>5. Plain(s) => Plain(t)
  BY <1>4 DEF Plain, PairServed
<1>6. Waits(s, w) => Waits(t, w)
  BY DEF Waits, Told, PairServed, Prodded, SameService
<1> QED BY <1>1, <1>2, <1>3, <1>5, <1>6

\* A register of chip c is written: q instead of p.
Edit(c, p, q) ==
  /\ q \in PicType /\ q.INT = p.INT /\ q.irq = p.irq /\ q.isr \subseteq p.isr
  /\ c = "master" => /\ Cascade \notin q.edge_level
                     /\ q.IRQ_in[Cascade] = p.IRQ_in[Cascade]
                     /\ Cascade \in p.irr => Cascade \in q.irr

Put(s, c, q) == [s EXCEPT ![c] = q]

LEMMA PutChip ==
  ASSUME NEW s \in Pairs, NEW c \in Chips, NEW q \in PicType
  PROVE  LET u == Put(s, c, q) IN
         /\ u \in Pairs /\ u[c] = q /\ u.wires = s.wires /\ u.intr = s.intr
         /\ c = "master" => u.master = q /\ u.slave = s.slave /\ s[c] = s.master
         /\ c = "slave" => u.slave = q /\ u.master = s.master /\ s[c] = s.slave
BY DEF Pairs, Chips, Put

LEMMA EditKeeps ==
  ASSUME NEW s, Sound(s), NEW c \in Chips, NEW q, Edit(c, s[c], q)
  PROVE  LET u == Put(s, c, q) IN
         /\ Sound(u)
         /\ Held(s) => Held(u)
         /\ Plain(s) /\ Fixed(q) => Plain(u)
<1> DEFINE u == Put(s, c, q)
<1>1. s \in Pairs /\ q \in PicType
  BY DEF Sound, Edit
<1>2. CASE c = "master"
  <2>1. /\ u \in Pairs /\ u.wires = s.wires /\ u.intr = s.intr /\ u.master = q /\ u.slave = s.slave
        /\ Edit("master", s.master, q)
    BY <1>1, <1>2, PutChip
  <2> HIDE DEF u
  <2>2. Sound(u) /\ (Held(s) => Held(u))
    BY <2>1 DEF Sound, Coherent, Entered, Held, Edit
  <2>3. Plain(s) /\ Fixed(q) => Plain(u)
    BY <2>1 DEF Plain, Fixed, Nested, Edit, Rank
  <2> QED BY <2>2, <2>3 DEF u
<1>3. CASE c = "slave"
  <2>1. /\ u \in Pairs /\ u.wires = s.wires /\ u.intr = s.intr /\ u.slave = q /\ u.master = s.master
        /\ Edit("slave", s.slave, q)
    BY <1>1, <1>3, PutChip
  <2> HIDE DEF u
  <2>2. Sound(u) /\ (Held(s) => Held(u))
    BY <2>1 DEF Sound, Coherent, Entered, Held, Edit
  <2>3. Plain(s) /\ Fixed(q) => Plain(u)
    BY <2>1 DEF Plain, Fixed, Nested, Edit, Rank
  <2> QED BY <2>2, <2>3 DEF u
<1> QED BY <1>2, <1>3 DEF Chips

\* The levels, where they are not written.
LEMMA EditLevels ==
  ASSUME NEW s \in Pairs, Levelled(s), NEW c \in Chips, NEW q \in PicType,
         q.irr \subseteq s[c].irr, q.IRQ_in = s[c].IRQ_in
  PROVE  Levelled(Put(s, c, q))
<1>2. CASE c = "master"
  BY <1>2, PutChip DEF Levelled, Level
<1>3. CASE c = "slave"
  BY <1>3, PutChip DEF Levelled, Level
<1> QED BY <1>2, <1>3 DEF Chips

\* Requests that are served or shrink do not wait.
LEMMA EditWaits ==
  ASSUME NEW s \in Pairs, NEW c \in Chips, NEW q \in PicType, NEW w, Waits(s, w),
         Eligible(q) \subseteq Eligible(s[c]), q.INT = s[c].INT, q.isr = s[c].isr
  PROVE  Waits(Put(s, c, q), w)
<1>2. CASE c = "master"
  BY <1>2, PutChip DEF Waits, Told
<1>3. CASE c = "slave"
  BY <1>3, PutChip DEF Waits, Told
<1> QED BY <1>2, <1>3 DEF Chips

\* An edit of chip c followed by pic_service.
LEMMA EditServed ==
  ASSUME NEW s, Sound(s), NEW c \in Chips, NEW q, Edit(c, s[c], q), NEW w
  PROVE  LET u == Put(s, c, q)
             t == pic_service(u, c) IN
         /\ PairServed(u, t) /\ Sound(t)
         /\ Levelled(u) => Levelled(t)
         /\ Held(s) => Held(t)
         /\ Plain(s) /\ Fixed(q) => Plain(t)
         /\ Waits(s, w) => Waits(t, w)
<1> DEFINE u == Put(s, c, q)
           t == pic_service(u, c)
<1>1. s \in Pairs /\ q \in PicType
  BY DEF Sound, Edit
<1>2. /\ Sound(u) /\ (Held(s) => Held(u)) /\ (Plain(s) /\ Fixed(q) => Plain(u))
      /\ u \in Pairs /\ Coherent(u)
  BY EditKeeps DEF Sound
<1>3. c = "master" => u.slave = s.slave
  BY <1>1, PutChip
<1>4. c = "slave" => u.master = s.master
  BY <1>1, PutChip
<1> HIDE DEF u
<1>5. /\ PairServed(u, t)
      /\ c = "master" => Told(t.master)
      /\ c = "slave" => Told(t.slave)
  BY <1>2, MasterIsServed, SlaveIsServed DEF pic_service, Chips
<1> HIDE DEF t
<1>6. /\ Sound(t) /\ (Levelled(u) => Levelled(t)) /\ (Held(u) => Held(t))
      /\ Plain(u) => Plain(t)
  BY <1>2, <1>5, ServedKeeps
<1>7. ASSUME Waits(s, w) PROVE Waits(t, w)
  <2>1. CASE c = "master"
    BY <1>3, <1>5, <1>7, <2>1 DEF Waits, PairServed, Prodded, Told
  <2>2. CASE c = "slave"
    BY <1>4, <1>5, <1>7, <2>2 DEF Waits, PairServed, Prodded, Told, SameService
  <2> QED BY <2>1, <2>2 DEF Chips
<1> QED BY <1>2, <1>5, <1>6, <1>7 DEF u, t

-----------------------------------------------------------------------------
(* The actions. *)

\* What every action keeps.
Safe(s) == Sound(s) /\ Levelled(s)

LEMMA Became ==
  ASSUME NEW t \in Pairs, Become(t)
  PROVE  Now' = t
BY DEF Become, Now, Pairs

\* A register is written and the requests are looked at again.
LEMMA WrittenAndServed ==
  ASSUME Safe(Now), NEW c \in Chips, NEW q, Edit(c, Now[c], q),
         q.irr = Now[c].irr, q.IRQ_in = Now[c].IRQ_in,
         Become(pic_service(Put(Now, c, q), c)), spurious' = spurious
  PROVE  /\ Safe(Now)'
         /\ Held(Now) => Held(Now)'
         /\ Plain(Now) /\ Fixed(q) => Plain(Now)'
         /\ Waits(Now, spurious) => Waits(Now, spurious)'
<1> DEFINE u == Put(Now, c, q)
           t == pic_service(u, c)
<1>1. Now \in Pairs /\ q \in PicType /\ Sound(Now) /\ Levelled(Now)
  BY DEF Safe, Sound, Edit
<1>2. /\ Sound(t) /\ (Levelled(u) => Levelled(t))
      /\ Held(Now) => Held(t)
      /\ Plain(Now) /\ Fixed(q) => Plain(t)
      /\ Waits(Now, spurious) => Waits(t, spurious)
  BY <1>1, EditServed
<1>3. Levelled(u)
  BY <1>1, EditLevels
<1> HIDE DEF t
<1>4. Now' = t
  <2>1. t \in Pairs /\ Become(t)
    BY <1>2 DEF Sound, t
  <2> QED BY <2>1, Became
<1> QED BY <1>2, <1>3, <1>4 DEF Safe

\* A register is written and nothing else happens.
LEMMA WrittenOnly ==
  ASSUME Safe(Now), NEW c \in Chips, NEW q, Edit(c, Now[c], q),
         q.irr = Now[c].irr, q.IRQ_in = Now[c].IRQ_in,
         Become(Put(Now, c, q)), spurious' = spurious
  PROVE  /\ Safe(Now)'
         /\ Held(Now) => Held(Now)'
         /\ Plain(Now) /\ Fixed(q) => Plain(Now)'
         /\ Eligible(q) \subseteq Eligible(Now[c]) /\ q.isr = Now[c].isr =>
              (Waits(Now, spurious) => Waits(Now, spurious)')
<1> DEFINE u == Put(Now, c, q)
<1>1. Now \in Pairs /\ q \in PicType /\ Sound(Now) /\ Levelled(Now) /\ q.INT = Now[c].INT
  BY DEF Safe, Sound, Edit
<1>2. /\ Sound(u) /\ Levelled(u)
      /\ Held(Now) => Held(u)
      /\ Plain(Now) /\ Fixed(q) => Plain(u)
  BY <1>1, EditKeeps, EditLevels
<1>3. Eligible(q) \subseteq Eligible(Now[c]) /\ q.isr = Now[c].isr =>
        (Waits(Now, spurious) => Waits(u, spurious))
  BY <1>1, EditWaits
<1> HIDE DEF u
<1>4. Now' = u
  <2>1. u \in Pairs /\ Become(u)
    BY <1>2 DEF Sound, u
  <2> QED BY <2>1, Became
<1> QED BY <1>2, <1>3, <1>4 DEF Safe

\* A chip of the pair.
LEMMA ChipOf ==
  ASSUME Safe(Now), NEW c \in Chips
  PROVE  /\ Now \in Pairs /\ Now[c] \in PicType
         /\ c = "master" => Now[c] = Now.master /\ Cascade \notin Now[c].edge_level
         /\ c = "slave" => Now[c] = Now.slave
BY DEF Safe, Sound, Pairs, Chips

LEMMA WriteImrKeeps ==
  ASSUME Safe(Now), NEW c \in Chips, NEW mask \in Masks, WriteImr(c, mask)
  PROVE  /\ Safe(Now)'
         /\ Held(Now) => Held(Now)'
         /\ Plain(Now) => Plain(Now)'
         /\ Waits(Now, spurious) => Waits(Now, spurious)'
<1> DEFINE p == Now[c]
           q == [p EXCEPT !.imr = mask]
<1>1. Now \in Pairs /\ p \in PicType /\ mask \in SUBSET Lines
      /\ (c = "master" => Cascade \notin p.edge_level) /\ c \in {"master", "slave"}
      /\ (c = "master" => p = Now.master) /\ (c = "slave" => p = Now.slave)
  BY ChipOf, PicAssumption DEF Chips
<1>2. Become(pic_service(Put(Now, c, q), c)) /\ spurious' = spurious
  BY <1>1 DEF WriteImr, Uses, Put, Pairs
<1> HIDE DEF p
<1>3. Edit(c, p, q) /\ q.irr = p.irr /\ q.IRQ_in = p.IRQ_in
      /\ (Fixed(p) => Fixed(q))
  BY <1>1 DEF Edit, PicType, Fixed
<1>4. Plain(Now) => Fixed(p)
  BY <1>1 DEF Plain
<1> HIDE DEF q
<1> QED BY <1>2, <1>3, <1>4, WrittenAndServed DEF p

\* clear_highest_interrupt.
LEMMA EoiKeeps ==
  ASSUME Safe(Now), NEW c \in Chips, NEW rotate \in BOOLEAN, Eoi(c, rotate)
  PROVE  /\ Safe(Now)'
         /\ Held(Now) => Held(Now)'
         /\ Plain(Now) /\ ~rotate => Plain(Now)'
         /\ Waits(Now, spurious) => Waits(Now, spurious)'
<1> DEFINE p == Now[c]
           i == IF p.isr = {} THEN p.isr ELSE p.isr \ {Highest(p, p.isr)}
           lp == IF rotate THEN (p.lowest_priority + 1) % LineCount ELSE p.lowest_priority
           q == [p EXCEPT !.isr = i, !.lowest_priority = lp]
<1>1. Now \in Pairs /\ p \in PicType
      /\ (c = "master" => Cascade \notin p.edge_level) /\ c \in {"master", "slave"}
      /\ (c = "master" => p = Now.master) /\ (c = "slave" => p = Now.slave)
  BY ChipOf DEF Chips
<1>2. Become(pic_service(Put(Now, c, q), c)) /\ spurious' = spurious
  BY <1>1 DEF Eoi, Uses, Put, Pairs, PicType
<1> HIDE DEF p
<1>3. i \in SUBSET Lines /\ i \subseteq p.isr
  BY <1>1 DEF PicType
<1>4. lp \in Lines /\ (~rotate => lp = p.lowest_priority)
  <2>1. p.lowest_priority \in 0 .. LineCount - 1 /\ LineCount \in Nat /\ LineCount > 0
    BY <1>1, PicAssumption DEF PicType, Lines, Cascade
  <2>2. (p.lowest_priority + 1) % LineCount \in 0 .. LineCount - 1
    BY <2>1
  <2> QED BY <2>1, <2>2 DEF Lines
<1> HIDE DEF i, lp
<1>5. Edit(c, p, q) /\ q.irr = p.irr /\ q.IRQ_in = p.IRQ_in
      /\ (Fixed(p) /\ ~rotate => Fixed(q))
  BY <1>1, <1>3, <1>4 DEF Edit, PicType, Fixed
<1>6. Plain(Now) => Fixed(p)
  BY <1>1 DEF Plain
<1> HIDE DEF q
<1> QED BY <1>2, <1>5, <1>6, WrittenAndServed DEF p

LEMMA SpecificEoiKeeps ==
  ASSUME Safe(Now), NEW c \in Chips, NEW l \in Lines, NEW rotate \in BOOLEAN,
         SpecificEoi(c, l, rotate)
  PROVE  /\ Safe(Now)'
         /\ Held(Now) => Held(Now)'
         /\ Plain(Now) /\ ~rotate => Plain(Now)'
         /\ Waits(Now, spurious) => Waits(Now, spurious)'
<1> DEFINE p == Now[c]
           q == [p EXCEPT !.isr = p.isr \ {l},
                          !.lowest_priority = IF rotate THEN l ELSE p.lowest_priority]
<1>1. Now \in Pairs /\ p \in PicType
      /\ (c = "master" => Cascade \notin p.edge_level) /\ c \in {"master", "slave"}
      /\ (c = "master" => p = Now.master) /\ (c = "slave" => p = Now.slave)
  BY ChipOf DEF Chips
<1>2. Become(pic_service(Put(Now, c, q), c)) /\ spurious' = spurious
  BY <1>1 DEF SpecificEoi, Uses, Put, Pairs, PicType
<1> HIDE DEF p
<1>3. Edit(c, p, q) /\ q.irr = p.irr /\ q.IRQ_in = p.IRQ_in
      /\ (Fixed(p) /\ ~rotate => Fixed(q))
  BY <1>1 DEF Edit, PicType, Fixed
<1>4. Plain(Now) => Fixed(p)
  BY <1>1 DEF Plain
<1> HIDE DEF q
<1> QED BY <1>2, <1>3, <1>4, WrittenAndServed DEF p

\* Special mask mode off: what was held back before stays held back.
LEMMA SpecialMaskKeeps ==
  ASSUME Safe(Now), NEW c \in Chips, NEW on \in BOOLEAN, SpecialMask(c, on)
  PROVE  /\ Safe(Now)'
         /\ Held(Now) => Held(Now)'
         /\ Waits(Now, spurious) => Waits(Now, spurious)'
<1> DEFINE p == Now[c]
           q == [p EXCEPT !.special_mask = on]
<1>1. Now \in Pairs /\ p \in PicType
      /\ (c = "master" => Cascade \notin p.edge_level) /\ c \in {"master", "slave"}
      /\ (c = "master" => p = Now.master) /\ (c = "slave" => p = Now.slave)
  BY ChipOf DEF Chips
<1>2. Become(IF on THEN pic_service(Put(Now, c, q), c) ELSE Put(Now, c, q))
      /\ spurious' = spurious
  BY <1>1 DEF SpecialMask, Uses, Put, Pairs, PicType
<1> HIDE DEF p
<1>3. Edit(c, p, q) /\ q.irr = p.irr /\ q.IRQ_in = p.IRQ_in /\ q.isr = p.isr
      /\ q.imr = p.imr /\ q.lowest_priority = p.lowest_priority /\ q.special_mask = on
      /\ q \in PicType
  BY <1>1 DEF Edit, PicType
<1> HIDE DEF q
<1>4. CASE on
  BY <1>2, <1>3, <1>4, WrittenAndServed DEF p
<1>5. CASE ~on
  <2>1. Requests(q) = Requests(p) /\ \A l : Rank(q, l) = Rank(p, l)
    BY <1>3 DEF Requests, Rank
  <2>2. Eligible(q) \subseteq Eligible(p)
    <3>1. SUFFICES ASSUME NEW l \in Eligible(q) PROVE l \in Eligible(p)
      OBVIOUS
    <3>2. l \in Requests(p) /\ l \notin p.isr
      BY <1>3, <2>1, EligibleLines
    <3>3. \A k \in p.isr : Rank(p, l) < Rank(p, k)
      BY <1>3, <1>5, <2>1, EligibleLines
    <3> QED BY <3>2, <3>3 DEF Eligible
  <2>3. Become(Put(Now, c, q)) /\ spurious' = spurious
    BY <1>2, <1>5
  <2> QED BY <1>3, <2>2, <2>3, WrittenOnly DEF p
<1> QED BY <1>4, <1>5

LEMMA SetPriorityKeeps ==
  ASSUME Safe(Now), NEW c \in Chips, NEW l \in Lines, SetPriority(c, l)
  PROVE  /\ Safe(Now)'
         /\ Held(Now) => Held(Now)'
<1> DEFINE p == Now[c]
           q == [p EXCEPT !.lowest_priority = l]
<1>1. Now \in Pairs /\ p \in PicType
      /\ (c = "master" => Cascade \notin p.edge_level) /\ c \in {"master", "slave"}
      /\ (c = "master" => p = Now.master) /\ (c = "slave" => p = Now.slave)
  BY ChipOf DEF Chips
<1>2. Become(Put(Now, c, q)) /\ spurious' = spurious
  BY <1>1 DEF SetPriority, Uses, Put, Pairs, PicType
<1> HIDE DEF p
<1>3. Edit(c, p, q) /\ q.irr = p.irr /\ q.IRQ_in = p.IRQ_in
  BY <1>1 DEF Edit, PicType, Fixed
<1> HIDE DEF q
<1> QED BY <1>2, <1>3, WrittenOnly DEF p

LEMMA RotateOnAutoEoiKeeps ==
  ASSUME Safe(Now), NEW c \in Chips, NEW on \in BOOLEAN, RotateOnAutoEoi(c, on)
  PROVE  /\ Safe(Now)'
         /\ Held(Now) => Held(Now)'
         /\ Waits(Now, spurious) => Waits(Now, spurious)'
<1> DEFINE p == Now[c]
           q == [p EXCEPT !.rotate_on_autoeoi = on]
<1>1. Now \in Pairs /\ p \in PicType
      /\ (c = "master" => Cascade \notin p.edge_level) /\ c \in {"master", "slave"}
      /\ (c = "master" => p = Now.master) /\ (c = "slave" => p = Now.slave)
  BY ChipOf DEF Chips
<1>2. Become(Put(Now, c, q)) /\ spurious' = spurious
  BY <1>1 DEF RotateOnAutoEoi, Uses, Put, Pairs, PicType
<1> HIDE DEF p
<1>3. Edit(c, p, q) /\ q.irr = p.irr /\ q.IRQ_in = p.IRQ_in
      /\ q.isr = p.isr /\ q.imr = p.imr /\ q.special_mask = p.special_mask
      /\ q.lowest_priority = p.lowest_priority
  BY <1>1 DEF Edit, PicType, Fixed
<1> HIDE DEF q
<1>5. Eligible(q) = Eligible(p)
  BY <1>3 DEF Eligible, Requests, Rank
<1> QED BY <1>2, <1>3, <1>5, WrittenOnly DEF p

LEMMA PollKeeps ==
  ASSUME Safe(Now), NEW c \in Chips, Poll(c)
  PROVE  /\ Safe(Now)'
         /\ Held(Now) => Held(Now)'
         /\ Plain(Now) => Plain(Now)'
         /\ Waits(Now, spurious) => Waits(Now, spurious)'
<1> DEFINE p == Now[c]
           q == [p EXCEPT !.polled = TRUE]
<1>1. Now \in Pairs /\ p \in PicType
      /\ (c = "master" => Cascade \notin p.edge_level) /\ c \in {"master", "slave"}
      /\ (c = "master" => p = Now.master) /\ (c = "slave" => p = Now.slave)
  BY ChipOf DEF Chips
<1>2. Become(Put(Now, c, q)) /\ spurious' = spurious
  BY <1>1 DEF Poll, Uses, Put, Pairs, PicType
<1> HIDE DEF p
<1>3. Edit(c, p, q) /\ q.irr = p.irr /\ q.IRQ_in = p.IRQ_in
      /\ (Fixed(p) => Fixed(q))
      /\ q.isr = p.isr /\ q.imr = p.imr /\ q.special_mask = p.special_mask
      /\ q.lowest_priority = p.lowest_priority
  BY <1>1 DEF Edit, PicType, Fixed
<1>4. Plain(Now) => Fixed(p)
  BY <1>1 DEF Plain
<1> HIDE DEF q
<1>5. Eligible(q) = Eligible(p)
  BY <1>3 DEF Eligible, Requests, Rank
<1> QED BY <1>2, <1>3, <1>4, <1>5, WrittenOnly DEF p

LEMMA IcwNextKeeps ==
  ASSUME Safe(Now), NEW c \in Chips, NEW auto \in BOOLEAN, IcwNext(c, auto)
  PROVE  /\ Safe(Now)'
         /\ Held(Now) => Held(Now)'
         /\ Plain(Now) => Plain(Now)'
         /\ Waits(Now, spurious) => Waits(Now, spurious)'
<1> DEFINE p == Now[c]
           q == CASE p.byte_expected = 2 -> [p EXCEPT !.byte_expected = 3]
                  [] p.byte_expected = 3 ->
                       [p EXCEPT !.byte_expected = IF p.requires_4 THEN 4 ELSE 0,
                                 !.requires_4 = FALSE]
                  [] p.byte_expected = 4 ->
                       [p EXCEPT !.byte_expected = 0, !.auto_eoi = auto]
<1>1. Now \in Pairs /\ p \in PicType
      /\ (c = "master" => Cascade \notin p.edge_level) /\ c \in {"master", "slave"}
      /\ (c = "master" => p = Now.master) /\ (c = "slave" => p = Now.slave)
  BY ChipOf DEF Chips
<1>2. Become(Put(Now, c, q)) /\ spurious' = spurious /\ p.byte_expected # 0
  BY DEF IcwNext, Uses, Put
<1> HIDE DEF p
<1>3. Edit(c, p, q) /\ q.irr = p.irr /\ q.IRQ_in = p.IRQ_in
      /\ (Fixed(p) => Fixed(q))
      /\ q.isr = p.isr /\ q.imr = p.imr /\ q.special_mask = p.special_mask
      /\ q.lowest_priority = p.lowest_priority
  <2>1. p.byte_expected \in {2, 3, 4}
    BY <1>1, <1>2 DEF PicType
  <2>2. CASE p.byte_expected = 2
    BY <1>1, <2>2 DEF Edit, PicType, Fixed
  <2>3. CASE p.byte_expected = 3
    BY <1>1, <2>3 DEF Edit, PicType, Fixed
  <2>4. CASE p.byte_expected = 4
    BY <1>1, <2>4 DEF Edit, PicType, Fixed
  <2> QED BY <2>1, <2>2, <2>3, <2>4
<1>4. Plain(Now) => Fixed(p)
  BY <1>1 DEF Plain
<1> HIDE DEF q
<1>5. Eligible(q) = Eligible(p)
  BY <1>3 DEF Eligible, Requests, Rank
<1> QED BY <1>2, <1>3, <1>4, <1>5, WrittenOnly DEF p

\* The ELCR does not reach the cascade input.
LEMMA SetModeKeeps ==
  ASSUME Safe(Now), NEW m \in Levels, SetMode(m[1], m[2])
  PROVE  /\ Safe(Now)'
         /\ Held(Now) => Held(Now)'
         /\ Plain(Now) => Plain(Now)'
         /\ Waits(Now, spurious) => Waits(Now, spurious)'
<1> DEFINE c == m[1]
           level == m[2]
           p == Now[c]
           q == [p EXCEPT !.edge_level = level]
<1>0. /\ c \in Chips /\ level \in SUBSET Lines /\ SetMode(c, level)
      /\ c = "master" => Cascade \notin level
  BY PicAssumption
<1> HIDE DEF c, level
<1>1. Now \in Pairs /\ p \in PicType
      /\ (c = "master" => Cascade \notin p.edge_level) /\ c \in {"master", "slave"}
      /\ (c = "master" => p = Now.master) /\ (c = "slave" => p = Now.slave)
  BY <1>0, ChipOf DEF Chips
<1>2. Become(Put(Now, c, q)) /\ spurious' = spurious
  BY <1>0, <1>1 DEF SetMode, Put, Pairs, PicType
<1> HIDE DEF p
<1>3. Edit(c, p, q) /\ q.irr = p.irr /\ q.IRQ_in = p.IRQ_in
      /\ (Fixed(p) => Fixed(q))
      /\ q.isr = p.isr /\ q.imr = p.imr /\ q.special_mask = p.special_mask
      /\ q.lowest_priority = p.lowest_priority
  BY <1>0, <1>1 DEF Edit, PicType, Fixed
<1>4. Plain(Now) => Fixed(p)
  BY <1>1 DEF Plain
<1> HIDE DEF q
<1>5. Eligible(q) = Eligible(p)
  BY <1>3 DEF Eligible, Requests, Rank
<1> QED BY <1>0, <1>2, <1>3, <1>4, <1>5, WrittenOnly DEF p

\* The I/O APIC is told the levels W of chip c.
Forward(s, c, W) == [s EXCEPT !.wires[c] = W]

LEMMA Forwarded ==
  ASSUME NEW s \in Pairs, NEW c \in Chips, NEW W \in SUBSET Lines, NEW w
  PROVE  LET t == Forward(s, c, W) IN
         /\ t \in Pairs /\ t.master = s.master /\ t.slave = s.slave /\ t.intr = s.intr
         /\ c = "master" => t.wires.master = W /\ t.wires.slave = s.wires.slave
         /\ c = "slave" => t.wires.slave = W /\ t.wires.master = s.wires.master
         /\ Sound(s) => Sound(t)
         /\ Held(s) => Held(t)
         /\ Plain(s) => Plain(t)
         /\ Waits(s, w) => Waits(t, w)
<1> DEFINE t == Forward(s, c, W)
<1>1. /\ t \in Pairs /\ t.master = s.master /\ t.slave = s.slave /\ t.intr = s.intr
      /\ c = "master" => t.wires.master = W /\ t.wires.slave = s.wires.slave
      /\ c = "slave" => t.wires.slave = W /\ t.wires.master = s.wires.master
  BY DEF Pairs, Chips, Forward
<1> HIDE DEF t
<1> QED BY <1>1 DEF Sound, Coherent, Held, Plain, Waits, t

\* The device lines of one chip, and the level of each at the I/O APIC.
Ports(c, p, W) == \A l \in Lines : (c = "master" /\ l = Cascade) \/ Level(p, l, l \in W)

LEMMA LevelledPorts ==
  ASSUME NEW s
  PROVE  Levelled(s) <=> /\ Ports("master", s.master, s.wires.master)
                         /\ Ports("slave", s.slave, s.wires.slave)
BY DEF Levelled, Ports

\* pic_service does not touch the device lines.
LEMMA ServedPorts ==
  ASSUME NEW s, NEW t, PairServed(s, t), NEW W
  PROVE  /\ Ports("master", s.master, W) => Ports("master", t.master, W)
         /\ Ports("slave", s.slave, W) => Ports("slave", t.slave, W)
BY DEF PairServed, Prodded, Ports, Level

\* Who drives what.
LEMMA WiredLines ==
  ASSUME NEW w \in Wired
  PROVE  /\ w[1] \in Chips /\ w[2] \in Lines /\ w[3] \in Types
         /\ w[1] = "master" => w[2] # Cascade
<1>1. w = <<w[1], w[2], w[3]>> /\ w[1] \in Chips /\ w[2] \in Lines /\ w[3] \in Types
  BY PicAssumption
<1> QED BY <1>1, PicAssumption

\* raise_irq: a request of a shared line that is up already changes nothing,
\* a new one is looked at.
LEMMA RaiseIrqKeeps ==
  ASSUME Safe(Now), NEW c \in Chips, NEW l \in Lines, NEW type \in Types,
         c = "master" => l # Cascade, RaiseIrq(c, l, type)
  PROVE  /\ Safe(Now)'
         /\ Held(Now) => Held(Now)'
         /\ Plain(Now) => Plain(Now)'
         /\ Waits(Now, spurious) => Waits(Now, spurious)'
<1> DEFINE o == Now[c]
           p == [o EXCEPT !.IRQ_in[l] = @ \union {type}]
           q == [p EXCEPT !.irr = @ \union {l}]
<1>1. Now \in Pairs /\ o \in PicType
      /\ (c = "master" => Cascade \notin o.edge_level) /\ c \in {"master", "slave"}
      /\ (c = "master" => o = Now.master) /\ (c = "slave" => o = Now.slave)
      /\ Sound(Now) /\ Levelled(Now) /\ Now.wires \in [Chips -> SUBSET Lines]
  BY ChipOf DEF Chips, Safe, Pairs
<1>2. Become(raise_irq(Now, c, l, type)) /\ spurious' = spurious
  BY DEF RaiseIrq
<1>3. raise_irq(Now, c, l, type) =
        IF o.IRQ_in[l] \ {type} # {} THEN Now
        ELSE IF l \in p.irr THEN Put(Now, c, p)
        ELSE LET t == pic_service(Put(Now, c, q), c) IN Forward(t, c, t.wires[c] \union {l})
  BY DEF raise_irq, Put, Forward
<1> HIDE DEF o
<1>4. /\ p \in PicType /\ p.irr = o.irr /\ p.isr = o.isr /\ p.imr = o.imr /\ p.INT = o.INT
      /\ p.irq = o.irq /\ p.special_mask = o.special_mask
      /\ p.lowest_priority = o.lowest_priority /\ p.edge_level = o.edge_level
      /\ p.rotate_on_autoeoi = o.rotate_on_autoeoi
      /\ p.IRQ_in[l] = o.IRQ_in[l] \union {type}
      /\ \A k \in Lines \ {l} : p.IRQ_in[k] = o.IRQ_in[k]
  BY <1>1 DEF PicType
<1> HIDE DEF p
<1>5. /\ q \in PicType /\ q.irr = o.irr \union {l} /\ q.isr = o.isr /\ q.INT = o.INT
      /\ q.irq = o.irq /\ q.edge_level = o.edge_level /\ q.special_mask = o.special_mask
      /\ q.lowest_priority = o.lowest_priority
      /\ q.rotate_on_autoeoi = o.rotate_on_autoeoi /\ q.IRQ_in = p.IRQ_in
  BY <1>4 DEF PicType
<1> HIDE DEF q
<1>6. Edit(c, o, p) /\ Edit(c, o, q) /\ (Fixed(o) => Fixed(p) /\ Fixed(q))
  BY <1>1, <1>4, <1>5, CascadeLine DEF Edit, Fixed
<1>7. Plain(Now) => Fixed(o)
  BY <1>1 DEF Plain
<1>8. Ports(c, o, Now.wires[c])
  BY <1>1, LevelledPorts
<1>9. CASE o.IRQ_in[l] \ {type} # {}
  <2>1. Now' = Now
    BY <1>1, <1>2, <1>3, <1>9, Became
  <2> QED BY <1>2, <2>1
<1>10. CASE o.IRQ_in[l] \ {type} = {} /\ l \in p.irr
  <2> DEFINE u == Put(Now, c, p)
  <2>1. Become(u)
    BY <1>2, <1>3, <1>10
  <2>2. Eligible(p) = Eligible(o)
    BY <1>4 DEF Eligible, Requests, Rank
  <2>3. /\ Sound(u) /\ (Held(Now) => Held(u)) /\ (Plain(Now) => Plain(u))
        /\ Waits(Now, spurious) => Waits(u, spurious)
    BY <1>1, <1>4, <1>6, <1>7, <2>2, EditKeeps, EditWaits DEF o
  <2>4. u \in Pairs /\ u.wires = Now.wires
        /\ (c = "master" => u.master = p /\ u.slave = Now.slave)
        /\ (c = "slave" => u.slave = p /\ u.master = Now.master)
    BY <1>1, <1>4, PutChip
  <2> HIDE DEF u
  <2>5. Ports(c, p, Now.wires[c])
    BY <1>4, <1>8, <1>10 DEF Ports, Level
  <2>6. Levelled(u)
    BY <1>1, <2>4, <2>5, LevelledPorts
  <2>7. Now' = u
    BY <2>1, <2>4, Became
  <2> QED BY <1>2, <2>3, <2>6, <2>7 DEF Safe
<1>11. CASE o.IRQ_in[l] \ {type} = {} /\ l \notin p.irr
  <2> DEFINE u == Put(Now, c, q)
             t == pic_service(u, c)
             W == t.wires[c] \union {l}
             r == Forward(t, c, W)
  <2>1. Become(r)
    BY <1>2, <1>3, <1>11
  <2>2. /\ PairServed(u, t) /\ Sound(t) /\ (Held(Now) => Held(t)) /\ (Plain(Now) => Plain(t))
        /\ Waits(Now, spurious) => Waits(t, spurious)
    BY <1>1, <1>6, <1>7, EditServed DEF o
  <2>3. u \in Pairs /\ u.wires = Now.wires
        /\ (c = "master" => u.master = q /\ u.slave = Now.slave)
        /\ (c = "slave" => u.slave = q /\ u.master = Now.master)
    BY <1>1, <1>5, PutChip
  <2> HIDE DEF u, t
  <2>4. t \in Pairs /\ t.wires = Now.wires /\ W = Now.wires[c] \union {l} /\ W \in SUBSET Lines
    BY <1>1, <2>2, <2>3 DEF PairServed
  <2> HIDE DEF W
  <2>5. /\ r \in Pairs /\ r.master = t.master /\ r.slave = t.slave
        /\ c = "master" => r.wires.master = W /\ r.wires.slave = t.wires.slave
        /\ c = "slave" => r.wires.slave = W /\ r.wires.master = t.wires.master
        /\ Sound(r) /\ (Held(t) => Held(r)) /\ (Plain(t) => Plain(r))
        /\ Waits(t, spurious) => Waits(r, spurious)
    BY <2>2, <2>4, Forwarded
  <2> HIDE DEF r
  <2>6. Ports(c, q, W)
    BY <1>4, <1>5, <1>8, <2>4 DEF Ports, Level
  <2>7. Levelled(r)
    <3>1. CASE c = "master"
      <4>1. Ports("master", t.master, W)
        BY <2>2, <2>3, <2>6, <3>1, ServedPorts
      <4>2. Ports("slave", t.slave, Now.wires.slave)
        BY <1>1, <2>2, <2>3, <3>1, LevelledPorts, ServedPorts
      <4> QED BY <2>4, <2>5, <3>1, <4>1, <4>2, LevelledPorts
    <3>2. CASE c = "slave"
      <4>1. Ports("slave", t.slave, W)
        BY <2>2, <2>3, <2>6, <3>2, ServedPorts
      <4>2. Ports("master", t.master, Now.wires.master)
        BY <1>1, <2>2, <2>3, <3>2, LevelledPorts, ServedPorts
      <4> QED BY <2>4, <2>5, <3>2, <4>1, <4>2, LevelledPorts
    <3> QED BY <1>1, <3>1, <3>2
  <2>8. Now' = r
    BY <2>1, <2>5, Became
  <2> QED BY <1>2, <2>2, <2>5, <2>7, <2>8 DEF Safe
<1> QED BY <1>9, <1>10, <1>11

\* lower_irq: only the last driver of a shared line takes the request away.
LEMMA LowerIrqKeeps ==
  ASSUME Safe(Now), NEW c \in Chips, NEW l \in Lines, NEW type \in Types,
         c = "master" => l # Cascade, LowerIrq(c, l, type)
  PROVE  /\ Safe(Now)'
         /\ Held(Now) => Held(Now)'
         /\ Plain(Now) => Plain(Now)'
         /\ Waits(Now, spurious) => Waits(Now, spurious)'
<1> DEFINE o == Now[c]
           in == o.IRQ_in[l] \ {type}
           p == [o EXCEPT !.IRQ_in[l] = in]
           q == [p EXCEPT !.irr = @ \ {l}]
           W == Now.wires[c] \ {l}
<1>1. Now \in Pairs /\ o \in PicType
      /\ (c = "master" => Cascade \notin o.edge_level) /\ c \in {"master", "slave"}
      /\ (c = "master" => o = Now.master) /\ (c = "slave" => o = Now.slave)
      /\ Sound(Now) /\ Levelled(Now) /\ Now.wires \in [Chips -> SUBSET Lines]
      /\ W \in SUBSET Lines
  BY ChipOf DEF Chips, Safe, Pairs
<1>2. Become(lower_irq(Now, c, l, type)) /\ spurious' = spurious
  BY DEF LowerIrq
<1>3. lower_irq(Now, c, l, type) =
        IF type \notin o.IRQ_in[l] THEN Now
        ELSE IF in # {} THEN Put(Now, c, p)
        ELSE Forward(Put(Now, c, q), c, W)
  BY <1>1 DEF lower_irq, Put, Forward, Pairs, PicType, Chips
<1> HIDE DEF o
<1>4. /\ p \in PicType /\ p.irr = o.irr /\ p.isr = o.isr /\ p.imr = o.imr /\ p.INT = o.INT
      /\ p.irq = o.irq /\ p.special_mask = o.special_mask
      /\ p.lowest_priority = o.lowest_priority /\ p.edge_level = o.edge_level
      /\ p.rotate_on_autoeoi = o.rotate_on_autoeoi
      /\ p.IRQ_in[l] = in
      /\ \A k \in Lines \ {l} : p.IRQ_in[k] = o.IRQ_in[k]
  BY <1>1 DEF PicType
<1> HIDE DEF p
<1>5. /\ q \in PicType /\ q.irr = o.irr \ {l} /\ q.isr = o.isr /\ q.imr = o.imr /\ q.INT = o.INT
      /\ q.irq = o.irq /\ q.edge_level = o.edge_level /\ q.special_mask = o.special_mask
      /\ q.lowest_priority = o.lowest_priority
      /\ q.rotate_on_autoeoi = o.rotate_on_autoeoi /\ q.IRQ_in = p.IRQ_in
  BY <1>4 DEF PicType
<1> HIDE DEF q
<1>6. Edit(c, o, p) /\ Edit(c, o, q) /\ (Fixed(o) => Fixed(p) /\ Fixed(q))
  BY <1>1, <1>4, <1>5, CascadeLine DEF Edit, Fixed
<1>7. Plain(Now) => Fixed(o)
  BY <1>1 DEF Plain
<1>8. Ports(c, o, Now.wires[c])
  BY <1>1, LevelledPorts
<1>9. CASE type \notin o.IRQ_in[l]
  <2>1. Now' = Now
    BY <1>1, <1>2, <1>3, <1>9, Became
  <2> QED BY <1>2, <2>1
<1>10. CASE type \in o.IRQ_in[l] /\ in # {}
  <2> DEFINE u == Put(Now, c, p)
  <2>1. Become(u)
    BY <1>2, <1>3, <1>10
  <2>2. Eligible(p) = Eligible(o)
    BY <1>4 DEF Eligible, Requests, Rank
  <2>3. /\ Sound(u) /\ (Held(Now) => Held(u)) /\ (Plain(Now) => Plain(u))
        /\ Waits(Now, spurious) => Waits(u, spurious)
    BY <1>1, <1>4, <1>6, <1>7, <2>2, EditKeeps, EditWaits DEF o
  <2>4. u \in Pairs /\ u.wires = Now.wires
        /\ (c = "master" => u.master = p /\ u.slave = Now.slave)
        /\ (c = "slave" => u.slave = p /\ u.master = Now.master)
    BY <1>1, <1>4, PutChip
  <2> HIDE DEF u
  <2>5. Ports(c, p, Now.wires[c])
    BY <1>4, <1>8, <1>10 DEF Ports, Level
  <2>6. Levelled(u)
    BY <1>1, <2>4, <2>5, LevelledPorts
  <2>7. Now' = u
    BY <2>1, <2>4, Became
  <2> QED BY <1>2, <2>3, <2>6, <2>7 DEF Safe
<1>11. CASE type \in o.IRQ_in[l] /\ in = {}
  <2> DEFINE u == Put(Now, c, q)
             r == Forward(u, c, W)
  <2>1. Become(r)
    BY <1>2, <1>3, <1>11
  <2>2. Eligible(q) \subseteq Eligible(o)
    BY <1>5 DEF Eligible, Requests, Rank
  <2>3. /\ Sound(u) /\ (Held(Now) => Held(u)) /\ (Plain(Now) => Plain(u))
        /\ Waits(Now, spurious) => Waits(u, spurious)
    BY <1>1, <1>5, <1>6, <1>7, <2>2, EditKeeps, EditWaits DEF o
  <2>4. u \in Pairs /\ u.wires = Now.wires
        /\ (c = "master" => u.master = q /\ u.slave = Now.slave)
        /\ (c = "slave" => u.slave = q /\ u.master = Now.master)
    BY <1>1, <1>5, PutChip
  <2> HIDE DEF u
  <2>6. Ports(c, q, W)
    BY <1>4, <1>5, <1>8, <1>11 DEF Ports, Level
  <2> HIDE DEF W
  <2>5. /\ r \in Pairs /\ r.master = u.master /\ r.slave = u.slave
        /\ c = "master" => r.wires.master = W /\ r.wires.slave = u.wires.slave
        /\ c = "slave" => r.wires.slave = W /\ r.wires.master = u.wires.master
        /\ Sound(r) /\ (Held(u) => Held(r)) /\ (Plain(u) => Plain(r))
        /\ Waits(u, spurious) => Waits(r, spurious)
    BY <1>1, <2>3, <2>4, Forwarded
  <2> HIDE DEF r
  <2>7. Levelled(r)
    <3>1. CASE c = "master"
      BY <1>1, <2>4, <2>5, <2>6, <3>1, LevelledPorts
    <3>2. CASE c = "slave"
      BY <1>1, <2>4, <2>5, <2>6, <3>2, LevelledPorts
    <3> QED BY <1>1, <3>1, <3>2
  <2>8. Now' = r
    BY <2>1, <2>5, Became
  <2> QED BY <1>2, <2>3, <2>5, <2>7, <2>8 DEF Safe
<1> QED BY <1>9, <1>10, <1>11

-----------------------------------------------------------------------------
(* Acknowledge, poll and initialisation: INT is withdrawn first. *)

\* The pair with chips q and r and the CPU's INTR input b.
Pair(q, r, b) == [master |-> q, slave |-> r, intr |-> b, wires |-> wires]

LEMMA Unpacked ==
  ASSUME Safe(Now)
  PROVE  /\ master_pic \in PicType /\ slave_pic \in PicType
         /\ wires \in [Chips -> SUBSET Lines]
         /\ intr = master_pic.INT /\ intr \in BOOLEAN
         /\ Now = Pair(master_pic, slave_pic, intr)
         /\ Now.master = master_pic /\ Now.slave = slave_pic
         /\ Now["master"] = master_pic /\ Now["slave"] = slave_pic
         /\ master_pic.IRQ_in[Cascade] \subseteq {"ISA"}
         /\ slave_pic.INT <=> "ISA" \in master_pic.IRQ_in[Cascade]
         /\ Cascade \notin master_pic.edge_level
BY DEF Safe, Sound, Pairs, Coherent, Now, Pair

LEMMA PairFields ==
  ASSUME NEW q \in PicType, NEW r \in PicType, NEW b \in BOOLEAN,
         wires \in [Chips -> SUBSET Lines]
  PROVE  /\ Pair(q, r, b) \in Pairs
         /\ Pair(q, r, b).master = q /\ Pair(q, r, b).slave = r
         /\ Pair(q, r, b).intr = b /\ Pair(q, r, b).wires = wires
BY DEF Pair, Pairs

LEMMA SamePair ==
  ASSUME NEW s \in Pairs, s.wires = wires
  PROVE  s = Pair(s.master, s.slave, s.intr)
BY DEF Pair, Pairs

\* q is chip p with its output down and perhaps less requested.
Quiet(p, q) ==
  /\ q \in PicType /\ q.INT = FALSE /\ q.irr \subseteq p.irr
  /\ q.edge_level = p.edge_level
  /\ \A l \in Lines \ {Cascade} : q.IRQ_in[l] = p.IRQ_in[l]
  /\ Fixed(p) => Fixed(q)

LEMMA QuietPorts ==
  ASSUME NEW p, NEW q, Quiet(p, q), NEW W
  PROVE  /\ Ports("master", p, W) => Ports("master", q, W)
         /\ q.IRQ_in = p.IRQ_in /\ Ports("slave", p, W) => Ports("slave", q, W)
BY DEF Quiet, Ports, Level

\* The acknowledge of a chip whose output is down.
LEMMA AckQuiet ==
  ASSUME NEW p \in PicType, p.INT = FALSE
  PROVE  /\ Quiet(p, Acknowledged(p)) /\ Acknowledged(p).IRQ_in = p.IRQ_in
         /\ p.irq # Cascade /\ Cascade \in p.irr => Cascade \in Acknowledged(p).irr
         /\ ~p.auto_eoi => p.irq \in Acknowledged(p).isr
BY DEF Acknowledged, Quiet, PicType, Fixed

\* The master's output goes down.
LEMMA MasterQuiet ==
  ASSUME Safe(Now), NEW q, Quiet(master_pic, q), q.IRQ_in = master_pic.IRQ_in
  PROVE  LET u == Pair(q, slave_pic, FALSE) IN
         /\ Sound(u) /\ Levelled(u) /\ u.master = q /\ u.slave = slave_pic
         /\ Held(Now) /\ (Cascade \in master_pic.irr => Cascade \in q.irr) => Held(u)
         /\ Plain(Now) => Plain(u)
<1> DEFINE u == Pair(q, slave_pic, FALSE)
<1>1. /\ master_pic \in PicType /\ slave_pic \in PicType /\ wires \in [Chips -> SUBSET Lines]
      /\ Now.master = master_pic /\ Now.slave = slave_pic /\ Now.wires = wires
      /\ Sound(Now) /\ Levelled(Now)
  BY Unpacked DEF Safe, Now
<1>2. q \in PicType /\ q.INT = FALSE
  BY DEF Quiet
<1>3. /\ u \in Pairs /\ u.master = q /\ u.slave = slave_pic /\ u.intr = FALSE /\ u.wires = wires
  BY <1>1, <1>2, PairFields
<1> HIDE DEF u
<1>4. Sound(u)
  BY <1>1, <1>2, <1>3 DEF Sound, Coherent, Entered, Quiet
<1>5. Levelled(u)
  BY <1>1, <1>3, QuietPorts, LevelledPorts
<1>6. Held(Now) /\ (Cascade \in master_pic.irr => Cascade \in q.irr) => Held(u)
  BY <1>1, <1>3 DEF Held
<1>7. Plain(Now) => Plain(u)
  BY <1>1, <1>2, <1>3 DEF Plain, Nested, Quiet
<1> QED BY <1>3, <1>4, <1>5, <1>6, <1>7 DEF u

\* Both outputs and the cascade input go down.
LEMMA BothQuiet ==
  ASSUME Safe(Now), NEW q, Quiet(master_pic, q), q.IRQ_in[Cascade] = {},
         NEW r, Quiet(slave_pic, r), r.IRQ_in = slave_pic.IRQ_in
  PROVE  LET u == Pair(q, r, FALSE) IN
         /\ Sound(u) /\ Levelled(u) /\ Held(u) /\ u.master = q /\ u.slave = r
         /\ Plain(Now) => Plain(u)
<1> DEFINE u == Pair(q, r, FALSE)
<1>1. /\ master_pic \in PicType /\ slave_pic \in PicType /\ wires \in [Chips -> SUBSET Lines]
      /\ Now.master = master_pic /\ Now.slave = slave_pic /\ Now.wires = wires
      /\ Sound(Now) /\ Levelled(Now)
  BY Unpacked DEF Safe, Now
<1>2. q \in PicType /\ q.INT = FALSE /\ r \in PicType /\ r.INT = FALSE
  BY DEF Quiet
<1>3. /\ u \in Pairs /\ u.master = q /\ u.slave = r /\ u.intr = FALSE /\ u.wires = wires
  BY <1>1, <1>2 DEF Pair, Pairs
<1> HIDE DEF u
<1>4. Sound(u) /\ Held(u)
  BY <1>1, <1>2, <1>3 DEF Sound, Coherent, Entered, Quiet, Held
<1>5. Levelled(u)
  <2>1. Ports("master", master_pic, wires.master) /\ Ports("slave", slave_pic, wires.slave)
    BY <1>1, LevelledPorts
  <2>2. Ports("master", q, wires.master)
    BY <2>1, QuietPorts
  <2>3. Ports("slave", r, wires.slave)
    BY <2>1, QuietPorts
  <2> QED BY <1>3, <2>2, <2>3, LevelledPorts
<1>6. Plain(Now) => Plain(u)
  BY <1>1, <1>2, <1>3 DEF Plain, Nested, Quiet
<1> QED BY <1>3, <1>4, <1>5, <1>6 DEF u

\* The slave's output and the cascade input go down.
LEMMA SlaveQuiet ==
  ASSUME Safe(Now), NEW m, Prodded(master_pic, m), m.INT = master_pic.INT,
         m.irq = master_pic.irq, m.IRQ_in[Cascade] = {},
         NEW r, Quiet(slave_pic, r), r.IRQ_in = slave_pic.IRQ_in
  PROVE  LET u == Pair(m, r, intr) IN
         /\ Sound(u) /\ Levelled(u) /\ Held(u) /\ u.master = m /\ u.slave = r
         /\ Plain(Now) => Plain(u)
<1> DEFINE u == Pair(m, r, intr)
<1>1. /\ master_pic \in PicType /\ slave_pic \in PicType /\ wires \in [Chips -> SUBSET Lines]
      /\ Now.master = master_pic /\ Now.slave = slave_pic /\ Now.wires = wires
      /\ intr \in BOOLEAN /\ intr = master_pic.INT /\ Sound(Now) /\ Levelled(Now)
  BY Unpacked DEF Safe, Now
<1>2. m \in PicType /\ r \in PicType /\ r.INT = FALSE
  BY DEF Quiet, Prodded
<1>3. /\ u \in Pairs /\ u.master = m /\ u.slave = r /\ u.intr = intr /\ u.wires = wires
  BY <1>1, <1>2, PairFields
<1> HIDE DEF u
<1>4. Sound(u) /\ Held(u)
  BY <1>1, <1>2, <1>3 DEF Sound, Coherent, Entered, Quiet, Held, Prodded, SameService
<1>5. Levelled(u)
  <2>1. Ports("master", master_pic, wires.master) => Ports("master", m, wires.master)
    BY DEF Ports, Level, Prodded
  <2> QED BY <1>1, <1>3, <2>1, QuietPorts, LevelledPorts
<1>6. Plain(Now) => Plain(u)
  <2>1. Fixed(master_pic) /\ Nested(master_pic) => Fixed(m) /\ Nested(m)
    BY DEF Prodded, SameService, Fixed, Nested, Rank
  <2> QED BY <1>1, <1>2, <1>3, <2>1 DEF Plain, Nested, Quiet
<1> QED BY <1>3, <1>4, <1>5, <1>6 DEF u

\* The state u is served and becomes the next one.
LEMMA ThenServed ==
  ASSUME NEW u, Sound(u), Levelled(u), NEW t, PairServed(u, t), Become(t)
  PROVE  /\ Safe(Now)'
         /\ Held(u) => Held(Now)'
         /\ Plain(u) => Plain(Now)'
         /\ Told(t.master) /\ Told(t.slave) => Waits(Now, spurious)'
<1>1. Sound(t) /\ Levelled(t) /\ (Held(u) => Held(t)) /\ (Plain(u) => Plain(t))
  BY ServedKeeps
<1>2. Now' = t
  BY Became DEF PairServed
<1>3. Told(t.master) /\ Told(t.slave) => Waits(t, spurious')
  BY DEF Waits, Told
<1> QED BY <1>1, <1>2, <1>3 DEF Safe

\* The state u becomes the next one.
LEMMA ThenDone ==
  ASSUME NEW u, Sound(u), Levelled(u), Become(u)
  PROVE  /\ Safe(Now)'
         /\ Held(u) => Held(Now)'
         /\ Plain(u) => Plain(Now)'
         /\ Waits(u, spurious') => Waits(Now, spurious)'
<1>1. Now' = u
  BY Became DEF Sound
<1> QED BY <1>1 DEF Safe

\* ICW1 clears what a chip has in service and requests.
LEMMA Icw1Keeps ==
  ASSUME Safe(Now), NEW c \in Chips, NEW four \in BOOLEAN, Icw1(c, four)
  PROVE  /\ Safe(Now)'
         /\ Held(Now) /\ (c = "master" => ~slave_pic.INT) => Held(Now)'
         /\ Plain(Now) => Plain(Now)'
         /\ Waits(Now, spurious) => Waits(Now, spurious)'
<1> DEFINE Cleared(p) ==
             [p EXCEPT
                !.byte_expected = 2, !.requires_4 = four,
                !.imr = {}, !.isr = {}, !.irr = {},
                !.lowest_priority = LineCount - 1, !.auto_eoi = FALSE,
                !.rotate_on_autoeoi = FALSE, !.special_mask = FALSE,
                !.polled = FALSE, !.INT = FALSE]
<1>1. ASSUME NEW p \in PicType
      PROVE  /\ Quiet(p, Cleared(p)) /\ Cleared(p).IRQ_in = p.IRQ_in
             /\ Cleared(p).irr = {}
  <2>1. LineCount - 1 \in Lines
    BY PicAssumption DEF Lines, Cascade
  <2> QED BY <2>1 DEF Quiet, PicType, Fixed
<1>2. ASSUME NEW p \in PicType PROVE Eligible(Cleared(p)) = {}
  <2>1. Cleared(p).irr = {}
    BY <1>1
  <2> QED BY <2>1 DEF Eligible, Requests
<1>3. /\ master_pic \in PicType /\ slave_pic \in PicType /\ spurious' = spurious
      /\ Now.master = master_pic /\ Now.slave = slave_pic
      /\ master_pic.IRQ_in[Cascade] \subseteq {"ISA"}
  BY Unpacked DEF Icw1, Uses
<1>4. CASE c = "master"
  <2> DEFINE q == Cleared(master_pic)
             u == Pair(q, slave_pic, FALSE)
  <2>1. Become(u)
    BY <1>4 DEF Icw1, Now, Pair, Become
  <2>2. Quiet(master_pic, q) /\ q.IRQ_in = master_pic.IRQ_in /\ Eligible(q) = {}
    BY <1>1, <1>2, <1>3
  <2> HIDE DEF q
  <2>3. /\ Sound(u) /\ Levelled(u) /\ u.master = q /\ u.slave = slave_pic
        /\ Plain(Now) => Plain(u)
    BY <2>2, MasterQuiet
  <2> HIDE DEF u
  <2>4. (~slave_pic.INT => Held(u)) /\ (Waits(Now, spurious) => Waits(u, spurious'))
    BY <1>3, <2>2, <2>3 DEF Held, Waits
  <2> QED BY <1>4, <2>1, <2>3, <2>4, ThenDone
<1>5. CASE c = "slave"
  <2> DEFINE r == Cleared(slave_pic)
             m == [master_pic EXCEPT !.IRQ_in[Cascade] = @ \ {"ISA"}]
             u == Pair(m, r, intr)
  <2>1. Become(u)
    BY <1>5 DEF Icw1, Now, Pair, Become
  <2>2. Quiet(slave_pic, r) /\ r.IRQ_in = slave_pic.IRQ_in /\ Eligible(r) = {}
    BY <1>1, <1>2, <1>3
  <2> HIDE DEF r
  <2>3. /\ m \in PicType /\ SameService(master_pic, m) /\ m.INT = master_pic.INT
        /\ m.irq = master_pic.irq /\ m.irr = master_pic.irr /\ m.IRQ_in[Cascade] = {}
        /\ \A l \in Lines \ {Cascade} : m.IRQ_in[l] = master_pic.IRQ_in[l]
    BY <1>3, CascadeLine DEF PicType, SameService
  <2> HIDE DEF m
  <2>4. Eligible(m) = Eligible(master_pic)
    BY <2>3 DEF Eligible, Requests, Rank, SameService
  <2>5. Prodded(master_pic, m)
    BY <2>3, <2>4 DEF Prodded
  <2>6. /\ Sound(u) /\ Levelled(u) /\ Held(u) /\ u.master = m /\ u.slave = r
        /\ Plain(Now) => Plain(u)
    BY <2>2, <2>3, <2>5, SlaveQuiet
  <2> HIDE DEF u
  <2>7. Waits(Now, spurious) => Waits(u, spurious')
    BY <1>3, <2>2, <2>3, <2>4, <2>6 DEF Waits, Told, SameService
  <2> QED BY <2>1, <2>6, <2>7, ThenDone
<1> QED BY <1>4, <1>5 DEF Chips

\* poll_command: an acknowledge of one chip by its own read.
LEMMA PollReadKeeps ==
  ASSUME Safe(Now), NEW c \in Chips, PollRead(c)
  PROVE  /\ Safe(Now)'
         /\ Held(Now) /\ (c = "master" => ~slave_pic.INT) => Held(Now)'
         /\ Plain(Now) => Plain(Now)'
         /\ Waits(Now, spurious) => Waits(Now, spurious)'
<1>1. /\ master_pic \in PicType /\ slave_pic \in PicType /\ spurious' = spurious
      /\ wires \in [Chips -> SUBSET Lines] /\ intr \in BOOLEAN
      /\ Now.master = master_pic /\ Now.slave = slave_pic
      /\ Now["master"] = master_pic /\ Now["slave"] = slave_pic
      /\ master_pic.IRQ_in[Cascade] \subseteq {"ISA"}
  BY Unpacked DEF PollRead, Uses
<1>2. CASE ~Now[c].INT
  <2> DEFINE p == Now[c]
             q == [p EXCEPT !.polled = FALSE]
  <2>1. Now \in Pairs /\ p \in PicType
        /\ (c = "master" => Cascade \notin p.edge_level) /\ c \in {"master", "slave"}
        /\ (c = "master" => p = Now.master) /\ (c = "slave" => p = Now.slave)
    BY ChipOf DEF Chips
  <2>2. Put(Now, c, q)[c].INT = p.INT
    BY <2>1 DEF Put, PicType, Pairs
  <2>3. Become(pic_service(Put(Now, c, q), c))
    BY <1>2, <2>1, <2>2 DEF PollRead, Put, Pairs, PicType
  <2> HIDE DEF p
  <2>4. Edit(c, p, q) /\ q.irr = p.irr /\ q.IRQ_in = p.IRQ_in /\ (Fixed(p) => Fixed(q))
    BY <2>1 DEF Edit, PicType, Fixed
  <2>5. Plain(Now) => Fixed(p)
    BY <2>1 DEF Plain
  <2> HIDE DEF q
  <2> QED BY <1>1, <2>3, <2>4, <2>5, WrittenAndServed DEF p
<1>3. CASE c = "master" /\ Now[c].INT
  <2> DEFINE s == [Now EXCEPT !["master"].polled = FALSE]
             off == [s EXCEPT !["master"].INT = FALSE]
             v == [off EXCEPT !.intr = FALSE]
             o == v["master"]
             q == Acknowledged(o)
             u == Pair(q, slave_pic, FALSE)
             t == service_master(u)
  <2>1. /\ s \in Pairs /\ s["master"].INT = master_pic.INT /\ s.slave = slave_pic
        /\ s["master"] = [master_pic EXCEPT !.polled = FALSE] /\ s.wires = wires
    BY <1>1 DEF Now, Pairs, PicType
  <2> HIDE DEF s
  <2>2. /\ v \in Pairs /\ v.slave = slave_pic /\ v.wires = wires /\ v.intr = FALSE
        /\ o = [s["master"] EXCEPT !.INT = FALSE]
    BY <2>1 DEF Pairs, PicType
  <2>3. Become(pic_service(IF s["master"].INT
                            THEN [v EXCEPT !["master"] = q]
                            ELSE s, "master"))
    BY <1>3 DEF PollRead, s
  <2> HIDE DEF v, o
  <2>4. o \in PicType /\ o.INT = FALSE /\ Quiet(master_pic, o) /\ o.IRQ_in = master_pic.IRQ_in
    BY <1>1, <2>1, <2>2 DEF PicType, Quiet, Fixed
  <2>5. Quiet(master_pic, q) /\ q.IRQ_in = master_pic.IRQ_in
    BY <2>4, AckQuiet DEF Quiet
  <2>6. Become(t)
    <3>1. q \in PicType
      BY <2>5 DEF Quiet
    <3> HIDE DEF q
    <3> DEFINE x == [v EXCEPT !["master"] = q]
    <3>2. /\ x \in Pairs /\ x.master = q /\ x.slave = slave_pic
          /\ x.intr = FALSE /\ x.wires = wires
      BY <2>2, <3>1 DEF Pairs
    <3> HIDE DEF x
    <3>3. x = u
      BY <3>2, SamePair
    <3>4. Become(pic_service(x, "master"))
      BY <1>1, <1>3, <2>1, <2>3 DEF x
    <3> QED BY <3>3, <3>4 DEF pic_service
  <2> HIDE DEF q
  <2>7. /\ Sound(u) /\ Levelled(u) /\ u.master = q /\ u.slave = slave_pic
        /\ Plain(Now) => Plain(u)
    BY <2>5, MasterQuiet
  <2> HIDE DEF u
  <2>8. PairServed(u, t) /\ Told(t.master)
    BY <2>7, MasterIsServed DEF Sound
  <2> HIDE DEF t
  <2>9. ~slave_pic.INT => Held(u)
    BY <2>7 DEF Held
  <2>10. Waits(Now, spurious) => Told(t.slave)
    BY <1>1, <2>7, <2>8 DEF Waits, Told, PairServed, Prodded
  <2> QED BY <1>3, <2>6, <2>7, <2>8, <2>9, <2>10, ThenServed
<1>4. CASE c = "slave" /\ Now[c].INT
  <2> DEFINE o == [slave_pic EXCEPT !.polled = FALSE, !.INT = FALSE]
             off == Pair(master_pic, o, intr)
             v == lower_cascade(off)
             m == v.master
             r == Acknowledged(o)
             u == Pair(m, r, intr)
             t == service_slave(u)
  <2>1. o \in PicType /\ o.INT = FALSE /\ Quiet(slave_pic, o) /\ o.IRQ_in = slave_pic.IRQ_in
    BY <1>1 DEF PicType, Quiet, Fixed
  <2>2. off \in Pairs /\ off.master = master_pic /\ off.slave = o /\ off.intr = intr /\ off.wires = wires
    BY <1>1, <2>1, PairFields
  <2>3. [[Now EXCEPT !["slave"].polled = FALSE] EXCEPT !["slave"].INT = FALSE] = off
    BY <1>1 DEF Now, Pair, PicType
  <2> HIDE DEF o, off
  <2>4. /\ v \in Pairs /\ v.slave = o /\ v.wires = wires /\ v.intr = intr
        /\ Prodded(master_pic, m) /\ m.INT = master_pic.INT /\ m.irq = master_pic.irq
        /\ m.IRQ_in[Cascade] = {}
    BY <1>1, <2>2, LowerCascade
  <2>5. [v EXCEPT !["slave"] = r] = u /\ v["slave"] = o
    <3>1. r \in PicType
      BY <2>1, AckQuiet DEF Quiet
    <3> HIDE DEF v, r, m
    <3> DEFINE x == [v EXCEPT !["slave"] = r]
    <3>2. /\ x \in Pairs /\ x.master = v.master /\ x.slave = r /\ v["slave"] = o
          /\ x.intr = intr /\ x.wires = wires
      BY <2>4, <3>1 DEF Pairs
    <3> HIDE DEF x
    <3>3. x = u
      BY <3>2, SamePair DEF m
    <3> QED BY <3>2, <3>3 DEF x
  <2>6. Become(t)
    <3> DEFINE s == [Now EXCEPT !["slave"].polled = FALSE]
    <3>1. s["slave"].INT
      BY <1>1, <1>4 DEF Now, PicType
    <3>2. Become(pic_service(IF s["slave"].INT
                             THEN LET x == lower_cascade([s EXCEPT !["slave"].INT = FALSE])
                                  IN  [x EXCEPT !["slave"] = Acknowledged(x["slave"])]
                             ELSE s, "slave"))
      BY <1>4 DEF PollRead
    <3> HIDE DEF u, v
    <3>3. lower_cascade([s EXCEPT !["slave"].INT = FALSE]) = v
      BY <2>3 DEF v
    <3> HIDE DEF s
    <3>4. Become(pic_service([v EXCEPT !["slave"] = Acknowledged(v["slave"])], "slave"))
      BY <3>1, <3>2, <3>3
    <3>5. [v EXCEPT !["slave"] = Acknowledged(v["slave"])] = u
      BY <2>5
    <3> QED BY <3>4, <3>5 DEF pic_service
  <2> HIDE DEF v, m
  <2>7. Quiet(slave_pic, r) /\ r.IRQ_in = slave_pic.IRQ_in
    BY <2>1, AckQuiet DEF Quiet
  <2> HIDE DEF r
  <2>8. /\ Sound(u) /\ Levelled(u) /\ Held(u) /\ u.master = m /\ u.slave = r
        /\ Plain(Now) => Plain(u)
    BY <2>4, <2>7, SlaveQuiet
  <2> HIDE DEF u
  <2>9. PairServed(u, t) /\ Told(t.slave)
    BY <2>8, SlaveIsServed DEF Sound
  <2> HIDE DEF t
  <2>10. Now' = t
    BY <2>6, <2>9, Became DEF PairServed
  <2>11. Waits(Now, spurious) => Waits(t, spurious')
    BY <1>1, <2>4, <2>8, <2>9 DEF Waits, PairServed, Prodded, SameService
  <2>12. Waits(Now, spurious) => Waits(Now, spurious)'
    BY <2>10, <2>11
  <2> QED BY <2>6, <2>8, <2>9, <2>12, ThenServed
<1> QED BY <1>2, <1>3, <1>4 DEF Chips

\* IAC in its four cases: the request is gone, it is the master's own, it is
\* the cascade with nothing behind it, or the slave's.
LEMMA IACKeeps ==
  ASSUME Safe(Now), IAC
  PROVE  /\ Safe(Now)' /\ spurious' \in BOOLEAN
         /\ Held(Now) => Held(Now)'
         /\ Plain(Now) => Plain(Now)'
         /\ ~master_pic.auto_eoi => (Waits(Now, spurious) => Waits(Now, spurious)')
<1> DEFINE s == [Now EXCEPT !.master.INT = FALSE, !.intr = FALSE]
           m == [s EXCEPT !.master = Acknowledged(s.master)]
           c == [m EXCEPT !.slave.INT = FALSE, !.master.IRQ_in[Cascade] = @ \ {"ISA"}]
           d == [c EXCEPT !.slave = Acknowledged(c.slave)]
           o == s.master
           q == m.master
           k == c.master
           e == c.slave
           r == d.slave
           sp == master_pic.irq = Cascade /\ Requests(master_pic) # {}
                   /\ Requests(slave_pic) = {}
<1>1. /\ master_pic \in PicType /\ slave_pic \in PicType
      /\ wires \in [Chips -> SUBSET Lines]
      /\ Now.master = master_pic /\ Now.slave = slave_pic
      /\ master_pic.IRQ_in[Cascade] \subseteq {"ISA"}
  BY Unpacked
<1>2. Become(IF Requests(master_pic) = {} THEN s
             ELSE IF master_pic.irq # Cascade THEN service_master(m)
             ELSE IF Requests(slave_pic) = {} THEN c
             ELSE service_master(service_slave(d)))
  BY DEF IAC
<1>3. spurious' = sp /\ sp \in BOOLEAN
  BY DEF IAC
<1>4. /\ s \in Pairs /\ s.slave = slave_pic /\ s.intr = FALSE /\ s.wires = wires
      /\ o = [master_pic EXCEPT !.INT = FALSE]
  BY <1>1 DEF Now, Pairs, PicType
<1> HIDE DEF s
<1>5. /\ o \in PicType /\ Quiet(master_pic, o) /\ o.INT = FALSE /\ o.IRQ_in = master_pic.IRQ_in
      /\ o.irq = master_pic.irq /\ o.auto_eoi = master_pic.auto_eoi /\ o.irr = master_pic.irr
      /\ o.imr = master_pic.imr
  BY <1>1, <1>4 DEF PicType, Quiet, Fixed
<1> DEFINE A == Acknowledged(o)
<1>6. /\ A \in PicType /\ Quiet(master_pic, A) /\ A.IRQ_in = master_pic.IRQ_in
      /\ master_pic.irq # Cascade /\ Cascade \in master_pic.irr => Cascade \in A.irr
      /\ ~master_pic.auto_eoi => master_pic.irq \in A.isr
  BY <1>5, AckQuiet DEF Quiet
<1>7. m = [s EXCEPT !.master = A]
  OBVIOUS
<1> HIDE DEF A, m, o
<1>8. /\ m \in Pairs /\ m.slave = slave_pic /\ m.intr = FALSE /\ m.wires = wires /\ q = A
  BY <1>4, <1>6, <1>7 DEF Pairs
<1>9. /\ c \in Pairs /\ c.intr = FALSE /\ c.wires = wires
      /\ k = [q EXCEPT !.IRQ_in[Cascade] = @ \ {"ISA"}]
      /\ e = [slave_pic EXCEPT !.INT = FALSE]
  <2> DEFINE k0 == [m.master EXCEPT !.IRQ_in[Cascade] = @ \ {"ISA"}]
             e0 == [m.slave EXCEPT !.INT = FALSE]
  <2>1. k0 \in PicType
    BY <1>6, <1>8, CascadeLine DEF PicType
  <2>2. e0 \in PicType
    BY <1>1, <1>8 DEF PicType
  <2>3. c = [m EXCEPT !.slave = e0, !.master = k0]
    BY <1>8 DEF Pairs
  <2> HIDE DEF k0, e0, c
  <2>4. c \in Pairs /\ c.intr = FALSE /\ c.wires = wires /\ k = k0 /\ e = e0
    BY <1>8, <2>1, <2>2, <2>3 DEF Pairs
  <2> QED BY <1>8, <2>4 DEF k0, e0
<1> HIDE DEF c
<1>10. /\ k \in PicType /\ k.IRQ_in[Cascade] = {} /\ Quiet(master_pic, k) /\ k.isr = A.isr
       /\ e \in PicType /\ Quiet(slave_pic, e) /\ e.INT = FALSE /\ e.IRQ_in = slave_pic.IRQ_in
       /\ e.irr = slave_pic.irr /\ e.imr = slave_pic.imr
  <2>1. /\ k \in PicType /\ k.isr = A.isr /\ k.irr = A.irr /\ k.INT = A.INT
        /\ k.edge_level = A.edge_level /\ k.special_mask = A.special_mask
        /\ k.rotate_on_autoeoi = A.rotate_on_autoeoi
        /\ k.lowest_priority = A.lowest_priority
        /\ k.IRQ_in = [A.IRQ_in EXCEPT ![Cascade] = @ \ {"ISA"}]
    BY <1>6, <1>8, <1>9, CascadeLine DEF PicType
  <2>2. k.IRQ_in[Cascade] = {} /\ \A l \in Lines \ {Cascade} : k.IRQ_in[l] = A.IRQ_in[l]
    BY <1>1, <1>6, <2>1, CascadeLine DEF PicType
  <2>3. Quiet(master_pic, k)
    BY <1>6, <2>1, <2>2 DEF Quiet, Fixed
  <2>4. /\ e \in PicType /\ Quiet(slave_pic, e) /\ e.INT = FALSE
        /\ e.IRQ_in = slave_pic.IRQ_in
        /\ e.irr = slave_pic.irr /\ e.imr = slave_pic.imr
    BY <1>1, <1>9 DEF Quiet, PicType, Fixed
  <2> QED BY <2>1, <2>2, <2>3, <2>4
<1> DEFINE B == Acknowledged(e)
<1>11. B \in PicType /\ Quiet(slave_pic, B) /\ B.IRQ_in = slave_pic.IRQ_in
  BY <1>10, AckQuiet DEF Quiet
<1>12. d = [c EXCEPT !.slave = B]
  OBVIOUS
<1> HIDE DEF B, d, e
<1>13. /\ d \in Pairs /\ d.master = k /\ d.intr = FALSE /\ d.wires = wires /\ r = B
  BY <1>9, <1>11, <1>12 DEF Pairs
<1> HIDE DEF q, k, r, sp
<1>14. CASE Requests(master_pic) = {}
  <2>1. s = Pair(o, slave_pic, FALSE)
    BY <1>4, SamePair DEF o
  <2>2. /\ Sound(s) /\ Levelled(s) /\ (Held(Now) => Held(s)) /\ (Plain(Now) => Plain(s))
        /\ s.master = o
    BY <1>5, <2>1, MasterQuiet
  <2>3. Eligible(o) = {}
    BY <1>5, <1>14 DEF Eligible, Requests
  <2>4. Waits(Now, spurious) => Waits(s, spurious')
    BY <1>1, <1>4, <2>2, <2>3 DEF Waits
  <2> QED BY <1>2, <1>3, <1>14, <2>2, <2>4, ThenDone
<1>15. CASE Requests(master_pic) # {} /\ master_pic.irq # Cascade
  <2> DEFINE t == service_master(m)
  <2>1. m = Pair(A, slave_pic, FALSE)
    BY <1>8, SamePair DEF q
  <2>2. /\ Sound(m) /\ Levelled(m) /\ (Held(Now) => Held(m)) /\ (Plain(Now) => Plain(m))
        /\ m.slave = slave_pic
    BY <1>6, <1>15, <2>1, MasterQuiet
  <2>3. PairServed(m, t) /\ Told(t.master)
    BY <2>2, MasterIsServed DEF Sound
  <2>4. Become(t)
    BY <1>2, <1>15
  <2> HIDE DEF t
  <2>5. Waits(Now, spurious) => Told(t.slave)
    BY <1>1, <2>2, <2>3 DEF Waits, Told, PairServed, Prodded
  <2> QED BY <1>3, <2>2, <2>3, <2>4, <2>5, ThenServed
<1>16. CASE Requests(master_pic) # {} /\ master_pic.irq = Cascade /\ Requests(slave_pic) = {}
  <2>1. c = Pair(k, e, FALSE)
    BY <1>9, SamePair DEF k, e
  <2>2. /\ Sound(c) /\ Levelled(c) /\ Held(c) /\ (Plain(Now) => Plain(c))
        /\ c.master = k /\ c.slave = e
    <3> DEFINE u == Pair(k, e, FALSE)
    <3>1. Sound(u) /\ Levelled(u) /\ Held(u) /\ (Plain(Now) => Plain(u))
      BY <1>10, BothQuiet
    <3> QED BY <2>1, <3>1 DEF k, e
  <2>3. Eligible(e) = {}
    BY <1>10, <1>16 DEF Eligible, Requests
  <2>4. ~master_pic.auto_eoi => Waits(c, spurious')
    <3>1. spurious' = TRUE
      BY <1>3, <1>16 DEF sp
    <3>2. ~master_pic.auto_eoi => Cascade \in k.isr
      BY <1>6, <1>10, <1>16
    <3> QED BY <2>2, <2>3, <3>1, <3>2 DEF Waits, Told
  <2>5. Become(c)
    BY <1>2, <1>16
  <2> QED BY <1>3, <2>2, <2>4, <2>5, ThenDone
<1>17. CASE Requests(master_pic) # {} /\ master_pic.irq = Cascade /\ Requests(slave_pic) # {}
  <2> DEFINE a == service_slave(d)
             t == service_master(a)
  <2>1. d = Pair(k, B, FALSE)
    BY <1>13, SamePair DEF r
  <2>2. /\ Sound(d) /\ Levelled(d) /\ Held(d) /\ (Plain(Now) => Plain(d))
    BY <1>10, <1>11, <2>1, BothQuiet
  <2>3. Become(t)
    BY <1>2, <1>17
  <2>4. PairServed(d, a) /\ Told(a.slave)
    BY <2>2, SlaveIsServed DEF Sound
  <2> HIDE DEF a
  <2>5. PairServed(a, t) /\ Told(t.master)
    BY <2>4, MasterIsServed DEF PairServed
  <2> HIDE DEF t
  <2>6. PairServed(d, t) /\ Told(t.slave)
    BY <2>4, <2>5, ServedTwice DEF PairServed, Prodded, Told
  <2> QED BY <1>3, <2>2, <2>3, <2>5, <2>6, ThenServed
<1> QED BY <1>14, <1>15, <1>16, <1>17

-----------------------------------------------------------------------------
(* All steps. *)

LEMMA ResetIsSound ==
  ASSUME NEW u, u = [master |-> ResetPic, slave |-> ResetPic, intr |-> FALSE,
                     wires |-> [c \in Chips |-> {}]], NEW w
  PROVE  Sound(u) /\ Levelled(u) /\ Held(u) /\ Plain(u) /\ Waits(u, w)
<1>1. /\ ResetPic \in PicType /\ ResetPic.INT = FALSE /\ ResetPic.irr = {}
      /\ \A l \in Lines : ResetPic.IRQ_in[l] = {}
      /\ ResetPic.edge_level = {} /\ Fixed(ResetPic)
  <2>1. LineCount - 1 \in Lines /\ 0 \in Lines
    BY PicAssumption DEF Lines, Cascade
  <2> QED BY <2>1 DEF ResetPic, PicType, Fixed
<1>2. Eligible(ResetPic) = {}
  BY <1>1 DEF Eligible, Requests
<1>3. u \in Pairs /\ u.master = ResetPic /\ u.slave = ResetPic /\ u.intr = FALSE
      /\ u.wires.master = {} /\ u.wires.slave = {}
  BY <1>1 DEF Pairs, Chips
<1> HIDE DEF ResetPic
<1>4. Sound(u) /\ Held(u)
  BY <1>1, <1>3, CascadeLine DEF Sound, Coherent, Entered, Held
<1>5. Levelled(u)
  BY <1>1, <1>3 DEF Levelled, Level
<1>6. Plain(u) /\ Waits(u, w)
  BY <1>1, <1>2, <1>3 DEF Plain, Nested, Waits, Told
<1> QED BY <1>4, <1>5, <1>6

LEMMA InitHolds ==
  ASSUME Init
  PROVE  /\ Safe(Now) /\ spurious \in BOOLEAN
         /\ Held(Now) /\ Plain(Now) /\ Waits(Now, spurious)
<1>1. Now = [master |-> ResetPic, slave |-> ResetPic, intr |-> FALSE,
             wires |-> [c \in Chips |-> {}]]
  BY DEF Init, Now
<1> QED BY <1>1, ResetIsSound DEF Safe, Init

\* The guest leaves the priorities alone.
FixedPriorities ==
  \A c \in Chips : \A cmd \in {"eoi_rotate", "seoi_rotate", "set_priority",
                               "rotate_auto", "special_mask"} : <<c, cmd>> \notin Commands

NoSetPriority == \A c \in Chips : <<c, "set_priority">> \notin Commands

\* The guest neither polls nor re-initialises the master while the slave
\* announces an interrupt.
MasterLeftAlone ==
  slave_pic.INT => ~PollRead("master") /\ \A f \in BOOLEAN : ~Icw1("master", f)

LEMMA StepKeeps ==
  ASSUME Safe(Now), spurious \in BOOLEAN, [Next]_vars
  PROVE  /\ Safe(Now)' /\ spurious' \in BOOLEAN
         /\ Held(Now) /\ [MasterLeftAlone]_vars => Held(Now)'
         /\ Plain(Now) /\ FixedPriorities => Plain(Now)'
         /\ Waits(Now, spurious) /\ ~master_pic.auto_eoi /\ NoSetPriority =>
              Waits(Now, spurious)'
<1> DEFINE Goal ==
      /\ Safe(Now)' /\ spurious' \in BOOLEAN
      /\ Held(Now) /\ [MasterLeftAlone]_vars => Held(Now)'
      /\ Plain(Now) /\ FixedPriorities => Plain(Now)'
      /\ Waits(Now, spurious) /\ ~master_pic.auto_eoi /\ NoSetPriority => Waits(Now, spurious)'
<1>0. ASSUME UNCHANGED vars PROVE Goal
  <2>1. Now' = Now /\ spurious' = spurious
    BY <1>0 DEF vars, Now
  <2> QED BY <2>1
<1>1. ASSUME NEW w \in Wired, RaiseIrq(w[1], w[2], w[3]) PROVE Goal
  <2>1. spurious' = spurious
    BY <1>1 DEF RaiseIrq
  <2> QED BY <1>1, <2>1, WiredLines, RaiseIrqKeeps
<1>2. ASSUME NEW w \in Wired, LowerIrq(w[1], w[2], w[3]) PROVE Goal
  <2>1. spurious' = spurious
    BY <1>2 DEF LowerIrq
  <2> QED BY <1>2, <2>1, WiredLines, LowerIrqKeeps
<1>3. ASSUME NEW l \in Levels, SetMode(l[1], l[2]) PROVE Goal
  <2>1. spurious' = spurious
    BY <1>3 DEF SetMode
  <2> QED BY <1>3, <2>1, SetModeKeeps
<1>4. ASSUME NEW c \in Chips, NEW f \in BOOLEAN, Icw1(c, f) PROVE Goal
  <2>1. spurious' = spurious
    BY <1>4 DEF Icw1, Uses
  <2>2. /\ Safe(Now)'
        /\ Held(Now) /\ (c = "master" => ~slave_pic.INT) => Held(Now)'
        /\ Plain(Now) => Plain(Now)'
        /\ Waits(Now, spurious) => Waits(Now, spurious)'
    BY <1>4, Icw1Keeps
  <2>3. CASE c = "master" /\ slave_pic.INT /\ [MasterLeftAlone]_vars
    <3>1. ~MasterLeftAlone
      BY <1>4, <2>3 DEF MasterLeftAlone
    <3>2. Now' = Now
      BY <2>3, <3>1 DEF vars, Now
    <3> QED BY <2>1, <2>2, <3>2
  <2> QED BY <2>1, <2>2, <2>3
<1>5. ASSUME NEW c \in Chips, NEW f \in BOOLEAN, IcwNext(c, f) PROVE Goal
  <2>1. spurious' = spurious
    BY <1>5 DEF IcwNext, Uses
  <2> QED BY <1>5, <2>1, IcwNextKeeps
<1>6. ASSUME NEW c \in Chips, NEW m \in Masks, WriteImr(c, m) PROVE Goal
  <2>1. spurious' = spurious
    BY <1>6 DEF WriteImr, Uses
  <2> QED BY <1>6, <2>1, WriteImrKeeps
<1>7. ASSUME NEW c \in Chips, NEW r \in BOOLEAN, Eoi(c, r) PROVE Goal
  <2>1. spurious' = spurious /\ (FixedPriorities => ~r)
    BY <1>7 DEF Eoi, Uses, FixedPriorities
  <2> QED BY <1>7, <2>1, EoiKeeps
<1>8. ASSUME NEW c \in Chips, NEW r \in BOOLEAN, NEW l \in Lines, SpecificEoi(c, l, r) PROVE Goal
  <2>1. spurious' = spurious /\ (FixedPriorities => ~r)
    BY <1>8 DEF SpecificEoi, Uses, FixedPriorities
  <2> QED BY <1>8, <2>1, SpecificEoiKeeps
<1>9. ASSUME NEW c \in Chips, NEW l \in Lines, SetPriority(c, l) PROVE Goal
  <2>1. spurious' = spurious /\ ~FixedPriorities /\ ~NoSetPriority
    BY <1>9 DEF SetPriority, Uses, FixedPriorities, NoSetPriority
  <2> QED BY <1>9, <2>1, SetPriorityKeeps
<1>10. ASSUME NEW c \in Chips, NEW on \in BOOLEAN, RotateOnAutoEoi(c, on) PROVE Goal
  <2>1. spurious' = spurious /\ ~FixedPriorities
    BY <1>10 DEF RotateOnAutoEoi, Uses, FixedPriorities
  <2> QED BY <1>10, <2>1, RotateOnAutoEoiKeeps
<1>11. ASSUME NEW c \in Chips, NEW on \in BOOLEAN, SpecialMask(c, on) PROVE Goal
  <2>1. spurious' = spurious /\ ~FixedPriorities
    BY <1>11 DEF SpecialMask, Uses, FixedPriorities
  <2> QED BY <1>11, <2>1, SpecialMaskKeeps
<1>12. ASSUME NEW c \in Chips, Poll(c) PROVE Goal
  <2>1. spurious' = spurious
    BY <1>12 DEF Poll, Uses
  <2> QED BY <1>12, <2>1, PollKeeps
<1>13. ASSUME NEW c \in Chips, PollRead(c) PROVE Goal
  <2>1. spurious' = spurious
    BY <1>13 DEF PollRead, Uses
  <2>2. /\ Safe(Now)'
        /\ Held(Now) /\ (c = "master" => ~slave_pic.INT) => Held(Now)'
        /\ Plain(Now) => Plain(Now)'
        /\ Waits(Now, spurious) => Waits(Now, spurious)'
    BY <1>13, PollReadKeeps
  <2>3. CASE c = "master" /\ slave_pic.INT /\ [MasterLeftAlone]_vars
    <3>1. ~MasterLeftAlone
      BY <1>13, <2>3 DEF MasterLeftAlone
    <3>2. Now' = Now
      BY <2>3, <3>1 DEF vars, Now
    <3> QED BY <2>1, <2>2, <3>2
  <2> QED BY <2>1, <2>2, <2>3
<1>14. ASSUME IAC PROVE Goal
  BY <1>14, IACKeeps
<1>15. ASSUME Reset PROVE Goal
  <2> DEFINE u == [master |-> ResetPic, slave |-> ResetPic, intr |-> FALSE,
                   wires |-> [c \in Chips |-> {}]]
  <2>1. Become(u) /\ spurious' = spurious
    BY <1>15 DEF Reset, Uses
  <2> HIDE DEF u
  <2>2. Sound(u) /\ Levelled(u) /\ Held(u) /\ Plain(u) /\ Waits(u, spurious')
    BY ResetIsSound DEF u
  <2> QED BY <2>1, <2>2, ThenDone
<1> HIDE DEF Goal
<1>16. Goal
  BY <1>0, <1>1, <1>2, <1>3, <1>4, <1>5, <1>6, <1>7, <1>8, <1>9, <1>10, <1>11,
     <1>12, <1>13, <1>14, <1>15 DEF Next
<1> QED BY <1>16 DEF Goal

-----------------------------------------------------------------------------
(* The theorems. *)

LEMMA AlwaysSafe == Spec => [](Safe(Now) /\ spurious \in BOOLEAN)
<1>1. Init => Safe(Now) /\ spurious \in BOOLEAN
  BY InitHolds
<1>2. Safe(Now) /\ spurious \in BOOLEAN /\ [Next]_vars =>
        Safe(Now)' /\ (spurious \in BOOLEAN)'
  BY StepKeeps
<1> QED BY <1>1, <1>2, PTL DEF Spec

\* The registers of both chips keep their types, whatever is wired and
\* whatever the guest writes.
THEOREM TypesHold == Spec => []TypeOK
<1>1. Safe(Now) /\ spurious \in BOOLEAN => TypeOK
  BY Unpacked DEF TypeOK
<1> QED BY <1>1, AlwaysSafe, PTL

\* The CPU's INTR input always equals the INT output of the master.
THEOREM IntrFollowsINTHolds == Spec => []IntrFollowsINT
<1>1. Safe(Now) => IntrFollowsINT
  BY Unpacked DEF IntrFollowsINT
<1> QED BY <1>1, AlwaysSafe, PTL

\* The slave's INT output always agrees with the level of the master's input 2.
THEOREM CascadeCoherentHolds == Spec => []CascadeCoherent
<1>1. Safe(Now) => CascadeCoherent
  BY Unpacked DEF CascadeCoherent
<1> QED BY <1>1, AlwaysSafe, PTL

\* In every priority mode, no line in service is announced again.
THEOREM NeverReenterHolds == Spec => []NeverReenter
<1>1. Safe(Now) => NeverReenter
  BY DEF NeverReenter, Safe, Sound, Entered, Chips, Now
<1> QED BY <1>1, AlwaysSafe, PTL

\* Requests are backed by the level of their line, and the I/O APIC sees the
\* levels that the 8259s see.
THEOREM LinesCoherentHolds == Spec => []LinesCoherent
<1>1. Safe(Now) => LinesCoherent
  BY DEF LinesCoherent, Safe, Levelled, Level, Chips, Now
<1> QED BY <1>1, AlwaysSafe, PTL

\* The request of a slave that announces an interrupt is held by the master,
\* unless the guest polls or re-initialises the master in that very state.
THEOREM CascadeNotLostHolds ==
  Spec /\ [][MasterLeftAlone]_vars => []CascadeNotLost
<1>1. Init => Held(Now)
  BY InitHolds
<1>2. Safe(Now) /\ spurious \in BOOLEAN /\ Held(Now) /\ [Next]_vars /\ [MasterLeftAlone]_vars =>
        Held(Now)'
  BY StepKeeps
<1>3. Safe(Now) /\ Held(Now) => CascadeNotLost
  BY Unpacked DEF Held, CascadeNotLost
<1> QED BY <1>1, <1>2, <1>3, AlwaysSafe, PTL DEF Spec

\* A guest that leaves the priorities alone sees fully nested interrupts.
THEOREM NestedPriorityHolds ==
  ASSUME FixedPriorities
  PROVE  Spec => []NestedPriority
<1>1. Init => Plain(Now)
  BY InitHolds
<1>2. Safe(Now) /\ spurious \in BOOLEAN /\ Plain(Now) /\ [Next]_vars => Plain(Now)'
  BY StepKeeps
<1>3. Plain(Now) => NestedPriority
  BY DEF Plain, Nested, NestedPriority, Chips, Now
<1> QED BY <1>1, <1>2, <1>3, AlwaysSafe, PTL DEF Spec

\* No request that could be served waits unannounced, in every mode but
\* automatic EOI of the master, for a guest without the set-priority command.
THEOREM PendingSignalledHolds ==
  ASSUME NoSetPriority
  PROVE  Spec /\ [](~master_pic.auto_eoi) => []PendingSignalled
<1>1. Init => Waits(Now, spurious)
  BY InitHolds
<1>2. Safe(Now) /\ spurious \in BOOLEAN /\ Waits(Now, spurious) /\ ~master_pic.auto_eoi
        /\ [Next]_vars => Waits(Now, spurious)'
  BY StepKeeps
<1>3. Waits(Now, spurious) => PendingSignalled
  BY DEF Waits, Told, PendingSignalled, SpuriousWindow, Chips, Now
<1> QED BY <1>1, <1>2, <1>3, AlwaysSafe, PTL DEF Spec
=============================================================================
