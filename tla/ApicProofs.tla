----------------------------- MODULE ApicProofs -----------------------------
(***************************************************************************)
(* Proofs about Apic, for every number of processors and pins and every    *)
(* programming of the redirection table.                                   *)
(***************************************************************************)
EXTENDS Apic, WellFoundedInduction, TLAPS

-----------------------------------------------------------------------------
(* The inductive invariant, part by part.  The parts that delivery changes *)
(* are operators of the registers, because service is applied to registers *)
(* that an operation has already changed.                                  *)

\* An entry is as reset left it, or as the guest wrote it.
EntryOK(p, e) ==
  /\ e \in EntryType
  /\ e.remote_irr => e.level
  /\ e.dest \in Dests[p] \union {ResetDest}
  /\ \/ e.vector = 0 /\ e.masked /\ ~e.level
     \/ \E w \in Words[p] : /\ e.vector = w.vector /\ e.level = w.level
                            /\ e.mode = w.mode /\ e.logical = w.logical

\* A level triggered input is pending while its line is up; before the guest
\* programs it, it is masked and not pending.
LineOK(p, e, requests, lines) ==
  LevelPin(p) => /\ e.level => (p \in requests <=> p \in lines)
                 /\ ~e.level => e.masked /\ p \notin requests

\* The vector v of an exclusive pin p is at no processor, or at one and there
\* either requested or in service, marked as level triggered; its entry then
\* waits for the EOI.
FlightOK(v, e, li, is, tm, dr) ==
  /\ \A c \in Cpus : v \in li[c] \union is[c] => v \in tm[c] /\ e.remote_irr
  /\ \A c, k \in Cpus : v \in li[c] \union is[c] /\ v \in li[k] \union is[k] => c = k
  /\ \A c \in Cpus : ~(v \in li[c] /\ v \in is[c])
  /\ e.remote_irr => v \in dr \/ \E c \in Cpus : v \in li[c] \union is[c]

EntryInv == \A p \in Pins : EntryOK(p, ioredtbl[p])
LineInv == \A p \in Pins : LineOK(p, ioredtbl[p], irr, intin)
FlightInv ==
  \A p \in Pins : Exclusive(p) => \A w \in Words[p] :
    FlightOK(w.vector, ioredtbl[p], lapic_irr, isr, tmr, dropped)

ApicInv == /\ TypeOK /\ EntryInv
           /\ ReadyIsSignalled /\ OneHandlerPerClass
           /\ LineInv /\ PendingIsSent /\ FlightInv

-----------------------------------------------------------------------------
(* Delivery. *)

\* The state before delivery, in the registers as the operation has left them:
\* what the lemmas below assume of table, requests and tm.
Typed(table, requests, tm) ==
  /\ requests \subseteq Pins
  /\ table \in [Pins -> EntryType]
  /\ \A p \in Pins : EntryOK(p, table[p])
  /\ tm \in [Cpus -> SUBSET Vectors]

\* Entries that fire are unmasked, so the guest wrote them.
LEMMA FiringVector ==
  ASSUME NEW p \in Pins, NEW e, EntryOK(p, e), ~e.masked
  PROVE  e.vector \in Vectors
BY ApicAssumption DEF EntryOK

\* A processor of lowest priority is one of the destination.
LEMMA TargetsAreCpus ==
  ASSUME NEW e \in EntryType
  PROVE  Targets(e) \subseteq Cpus
BY DEF Targets, Matched, LowestPriority, EntryType, Destination

\* Setting and clearing remote IRR leaves the other fields alone.
LEMMA RemoteIrrSet ==
  ASSUME NEW e \in EntryType, NEW b \in BOOLEAN
  PROVE  LET d == [e EXCEPT !.remote_irr = b]
         IN  /\ d \in EntryType
             /\ d.remote_irr = b
             /\ d.vector = e.vector /\ d.masked = e.masked /\ d.level = e.level
             /\ d.mode = e.mode /\ d.logical = e.logical /\ d.dest = e.dest
BY DEF EntryType

\* service preserves the types (trigger_irq, service_ioapic).
LEMMA ServiceTypes ==
  ASSUME TypeOK, NEW table, NEW requests, NEW tm, NEW C, NEW F,
         Typed(table, requests, tm), F \subseteq Fires(table, requests),
         service(F, table, requests, tm, C)
  PROVE  /\ irr' \subseteq Pins
         /\ ioredtbl' \in [Pins -> EntryType]
         /\ EntryInv'
         /\ lapic_irr' \in [Cpus -> SUBSET Vectors]
         /\ tmr' \in [Cpus -> SUBSET Vectors]
         /\ extint_pending' \in [Cpus -> BOOLEAN]
         /\ intr' \in [Cpus -> BOOLEAN]
<1>1. irr' \subseteq Pins
  BY DEF service, Typed
<1>2. \A p \in Pins : ioredtbl'[p] = Delivered(F, table, p)
  BY DEF service
<1>3. ASSUME NEW p \in Pins PROVE EntryOK(p, Delivered(F, table, p))
  <2>1. EntryOK(p, table[p]) /\ table[p] \in EntryType
    BY DEF Typed
  <2>2. CASE Delivered(F, table, p) = table[p]
    BY <2>1, <2>2
  <2>3. CASE table[p].level /\ Delivered(F, table, p) = [table[p] EXCEPT !.remote_irr = TRUE]
    <3>1. EntryOK(p, [table[p] EXCEPT !.remote_irr = TRUE])
      BY <2>1, <2>3, RemoteIrrSet DEF EntryOK
    <3>. QED BY <3>1, <2>3
  <2>. QED BY <2>2, <2>3 DEF Delivered
<1>4. EntryInv' /\ ioredtbl' \in [Pins -> EntryType]
  <2>1. ioredtbl' = [p \in Pins |-> Delivered(F, table, p)]
    BY DEF service
  <2>2. \A p \in Pins : Delivered(F, table, p) \in EntryType
    BY <1>3 DEF EntryOK
  <2>. QED BY <1>2, <1>3, <2>1, <2>2 DEF EntryInv, EntryOK
<1>5. \A p \in F : table[p].vector \in Vectors
  BY FiringVector DEF Typed, Fires
<1>6. \A c \in Cpus : Sends(F, table)[c] \subseteq Vectors
  BY <1>5 DEF Sends, Sent
<1>7. lapic_irr' \in [Cpus -> SUBSET Vectors] /\ tmr' \in [Cpus -> SUBSET Vectors]
  BY <1>6 DEF service, trigger_irq, TypeOK, Typed, Sends
<1>8. extint_pending' \in [Cpus -> BOOLEAN] /\ intr' \in [Cpus -> BOOLEAN]
  BY DEF service, TypeOK, Ready
<1>. QED BY <1>1, <1>4, <1>7, <1>8

\* A ready vector is signalled after service if it was before, wherever
\* service_local_apic is not called.
LEMMA ServiceReady ==
  ASSUME TypeOK, NEW table, NEW requests, NEW tm, NEW C, NEW F,
         service(F, table, requests, tm, C),
         \A c \in Cpus : Ready(c, lapic_irr[c]) /\ c \notin C => intr[c],
         \A c \in Cpus : extint_pending[c] => intr[c]
  PROVE  ReadyIsSignalled'
<1>1. SUFFICES ASSUME NEW c \in Cpus,
                      (\E v \in lapic_irr'[c] : Outranks(c, v)') \/ extint_pending'[c]
               PROVE  intr'[c]
  BY DEF ReadyIsSignalled
<1>2. intr'[c] = (\/ intr[c] \/ ExtInts(F, table, c) # {}
                  \/ /\ c \in C \/ ~(Sends(F, table)[c] \subseteq lapic_irr[c])
                     /\ Ready(c, lapic_irr'[c]))
  BY DEF service
<1>3. CASE extint_pending'[c]
  BY <1>2, <1>3 DEF service
<1>4. CASE \E v \in lapic_irr'[c] : Outranks(c, v)'
  <2>1. Ready(c, lapic_irr'[c])
    BY <1>4 DEF Ready, Outranks
  <2>2. CASE c \in C \/ ~(Sends(F, table)[c] \subseteq lapic_irr[c])
    BY <1>2, <2>1, <2>2
  <2>3. CASE c \notin C /\ Sends(F, table)[c] \subseteq lapic_irr[c]
    <3>1. lapic_irr'[c] = lapic_irr[c] \union Sends(F, table)[c]
      BY DEF service, trigger_irq
    <3>2. lapic_irr'[c] = lapic_irr[c]
      BY <3>1, <2>3
    <3>. QED BY <1>2, <2>1, <2>3, <3>2
  <2>. QED BY <2>2, <2>3
<1>. QED BY <1>1, <1>3, <1>4

\* service_ioapic drops no request of a level triggered pin.
LEMMA ServiceLine ==
  ASSUME NEW table, NEW requests, NEW tm, NEW C, NEW F,
         Typed(table, requests, tm), F \subseteq Fires(table, requests),
         \A p \in Pins : LineOK(p, table[p], requests, intin'),
         service(F, table, requests, tm, C)
  PROVE  LineInv'
<1>1. SUFFICES ASSUME NEW p \in Pins, LevelPin(p)
               PROVE  /\ ioredtbl'[p].level => (p \in irr' <=> p \in intin')
                      /\ ~ioredtbl'[p].level => ioredtbl'[p].masked /\ p \notin irr'
  BY DEF LineInv, LineOK, LevelPin
<1>2. /\ ioredtbl'[p].level = table[p].level
      /\ ioredtbl'[p].masked = table[p].masked
  BY DEF service, Delivered, Typed, EntryType
<1>3. p \in irr' <=> p \in requests /\ ~(p \in F /\ ~table[p].level /\ Targets(table[p]) # {})
  BY DEF service
<1>4. LineOK(p, table[p], requests, intin')
  OBVIOUS
<1>. QED BY <1>1, <1>2, <1>3, <1>4 DEF LineOK

\* After service_ioapic nothing deliverable is left.
LEMMA ServicePending ==
  ASSUME NEW table, NEW requests, NEW tm, NEW C,
         Typed(table, requests, tm), task_priority' = task_priority,
         service(Fires(table, requests), table, requests, tm, C)
  PROVE  PendingIsSent'
<1>1. SUFFICES ASSUME NEW p \in irr', ~ioredtbl'[p].masked,
                      Targets(ioredtbl[p])' # {}
               PROVE  /\ ioredtbl'[p].level
                      /\ ioredtbl'[p].remote_irr \/ ioredtbl'[p].mode = "extint"
  BY DEF PendingIsSent
<1>2. p \in requests /\ p \in Pins
  BY DEF service, Typed
<1>3. ioredtbl'[p] = Delivered(Fires(table, requests), table, p)
  BY <1>2 DEF service
<1>4. /\ ioredtbl'[p].masked = table[p].masked
      /\ ioredtbl'[p].level = table[p].level
      /\ ioredtbl'[p].mode = table[p].mode
      /\ ioredtbl'[p].logical = table[p].logical
      /\ ioredtbl'[p].dest = table[p].dest
  BY <1>2, <1>3 DEF Delivered, Typed, EntryType
<1>5. Targets(table[p]) # {}
  BY <1>1, <1>4 DEF Targets, Matched, LowestPriority
<1>6. CASE p \in Fires(table, requests)
  <2>1. table[p].level
    BY <1>2, <1>5, <1>6 DEF service
  <2>2. ioredtbl'[p].remote_irr \/ table[p].mode = "extint"
    BY <1>2, <1>3, <1>5, <1>6, <2>1 DEF Delivered, Typed, EntryType
  <2>. QED BY <2>1, <2>2, <1>4
<1>7. CASE p \notin Fires(table, requests)
  <2>1. table[p].level /\ table[p].remote_irr
    BY <1>1, <1>2, <1>4, <1>7 DEF Fires
  <2>2. ioredtbl'[p] = table[p]
    BY <1>3, <1>7 DEF Delivered
  <2>. QED BY <2>1, <2>2
<1>. QED BY <1>6, <1>7

\* Processors and their priorities are natural numbers.
LEMMA CpuTypes ==
  ASSUME TypeOK, NEW c \in Cpus
  PROVE  c \in Nat /\ task_priority[c] \in Nat
<1>1. NumCpus \in Nat
  BY ApicAssumption
<1>2. task_priority[c] \in 0 .. 255
  BY DEF TypeOK
<1>. QED BY <1>1, <1>2 DEF Cpus

\* At most one processor is the target of an exclusive pin.
LEMMA OneTarget ==
  ASSUME TypeOK, NEW p \in Pins, Exclusive(p), NEW e, EntryOK(p, e), ~e.masked,
         NEW c \in Targets(e), NEW k \in Targets(e)
  PROVE  c = k
<1>1. PICK w \in Words[p] : /\ e.vector = w.vector /\ e.level = w.level
                            /\ e.mode = w.mode /\ e.logical = w.logical
  BY DEF EntryOK
<1>2. CASE e.mode # "lowpri"
  BY <1>1, <1>2 DEF Exclusive, Targets, Matched, EntryOK
<1>3. CASE e.mode = "lowpri"
  <2>1. c \in LowestPriority(e.dest.logical) /\ k \in LowestPriority(e.dest.logical)
    BY <1>3 DEF Targets
  <2>2. e.dest.logical \subseteq Cpus
    BY DEF EntryOK, EntryType, Destination
  <2>3. /\ c \in Cpus /\ k \in Cpus
        /\ task_priority[c] \in Int /\ task_priority[k] \in Int
        /\ c \in Int /\ k \in Int
    <3>1. c \in Cpus /\ k \in Cpus
      BY <2>1, <2>2 DEF LowestPriority
    <3>. QED BY <3>1, CpuTypes
  <2>. QED BY <2>1, <2>3 DEF LowestPriority
<1>. QED BY <1>2, <1>3

\* No pin but an exclusive one sends its vector.
LEMMA OwnVector ==
  ASSUME NEW p \in Pins, Exclusive(p), NEW w \in Words[p],
         NEW q \in Pins, NEW e, EntryOK(q, e), e.vector = w.vector
  PROVE  q = p
<1>1. w.vector # 0
  BY ApicAssumption
<1>2. PICK x \in Words[q] : e.vector = x.vector
  BY <1>1 DEF EntryOK
<1>. QED BY <1>2 DEF Exclusive

\* Delivery keeps an exclusive vector at one processor at most, and there
\* marked as level triggered.
LEMMA ServiceFlight ==
  ASSUME TypeOK, NEW table, NEW requests, NEW tm, NEW C, NEW F,
         Typed(table, requests, tm), F \subseteq Fires(table, requests),
         isr' \in [Cpus -> SUBSET Vectors],
         service(F, table, requests, tm, C),
         NEW p \in Pins, Exclusive(p), NEW w \in Words[p],
         FlightOK(w.vector, table[p], lapic_irr, isr', tm, dropped')
  PROVE  FlightOK(w.vector, ioredtbl'[p], lapic_irr', isr', tmr', dropped')
<1> DEFINE v == w.vector
           e == table[p]
<1>1. v \in Vectors
  BY ApicAssumption
<1>2. \A c \in Cpus : v \in Sends(F, table)[c] <=> p \in Sent(F, table, c) /\ e.vector = v
  <2>1. \A c \in Cpus : \A q \in Sent(F, table, c) : table[q].vector = v => q = p
    BY OwnVector DEF Sent, Fires, Typed
  <2>. QED BY <2>1 DEF Sends
<1>3. \A c \in Cpus : lapic_irr'[c] = lapic_irr[c] \union Sends(F, table)[c]
  BY DEF service, trigger_irq
<1>4. \A c \in Cpus : v \in tmr'[c] <=>
        \/ v \in tm[c] /\ v \notin Sends(F, table)[c] \ lapic_irr[c]
        \/ v \in Sends(F, table)[c] \ lapic_irr[c] /\ v \in SendsLevel(F, table)[c]
  BY DEF service, trigger_irq
<1>5. ioredtbl'[p] = Delivered(F, table, p)
  BY DEF service
<1>6. CASE \E c \in Cpus : v \in Sends(F, table)[c]
  <2>1. PICK c \in Cpus : v \in Sends(F, table)[c]
    BY <1>6
  <2>2. /\ p \in F /\ c \in Targets(e) /\ e.mode # "extint" /\ e.vector = v
        /\ p \in Sent(F, table, c)
    BY <1>2, <2>1 DEF Sent
  <2>3. EntryOK(p, e) /\ e \in EntryType /\ ~e.masked /\ ~(e.level /\ e.remote_irr)
    BY <2>2 DEF Typed, Fires
  <2>4. e.level
    BY <2>3 DEF EntryOK, Exclusive, LevelPin
  <2>5. ~e.remote_irr
    BY <2>3, <2>4
  <2>6. \A k \in Cpus : v \notin lapic_irr[k] /\ v \notin isr'[k]
    BY <2>5 DEF FlightOK
  <2>7. \A k \in Cpus : v \in Sends(F, table)[k] => k = c
    BY <1>2, <2>2, <2>3, OneTarget DEF Sent
  <2>8. v \in SendsLevel(F, table)[c]
    <3>1. \A q \in Sent(F, table, c) : table[q].vector = v => p <= q
      BY OwnVector, ApicAssumption DEF Sent, Fires, Typed
    <3>. QED BY <1>1, <2>2, <2>4, <3>1 DEF SendsLevel
  <2>9. ioredtbl'[p].remote_irr
    BY <1>5, <2>2, <2>3, <2>4, RemoteIrrSet DEF Delivered
  <2>10. \A k \in Cpus : v \in lapic_irr'[k] \union isr'[k] <=> k = c
    BY <1>3, <2>1, <2>6, <2>7
  <2>11. v \in tmr'[c]
    BY <1>4, <2>1, <2>6, <2>8
  <2>. QED BY <2>6, <2>9, <2>10, <2>11 DEF FlightOK
<1>7. CASE \A c \in Cpus : v \notin Sends(F, table)[c]
  <2>1. \A c \in Cpus : /\ v \in lapic_irr'[c] <=> v \in lapic_irr[c]
                        /\ v \in tmr'[c] <=> v \in tm[c]
    BY <1>3, <1>4, <1>7
  <2>2. ioredtbl'[p].remote_irr = e.remote_irr
    <3>1. CASE ioredtbl'[p] = e
      BY <3>1
    <3>2. CASE /\ p \in F /\ Targets(e) # {} /\ e.mode # "extint" /\ e.level
      <4>1. EntryOK(p, e) /\ e \in EntryType
        BY DEF Typed
      <4>2. PICK c \in Cpus : c \in Targets(e)
        BY <3>2, <4>1, TargetsAreCpus
      <4>3. e.vector = v
        BY <3>2, <4>1 DEF EntryOK, Exclusive
      <4>4. v \in Sends(F, table)[c]
        BY <1>2, <3>2, <4>2, <4>3 DEF Sent
      <4>. QED BY <4>4, <1>7
    <3>. QED BY <1>5, <3>1, <3>2 DEF Delivered
  <2>. QED BY <2>1, <2>2 DEF FlightOK
<1>. QED BY <1>6, <1>7

-----------------------------------------------------------------------------
(* The invariant is preserved. *)

\* A non-empty set of natural numbers has a smallest element.
LEMMA Smallest ==
  ASSUME NEW S, S \subseteq Nat, S # {}
  PROVE  \E x \in S : \A y \in S : x <= y
<1>1. PICK x \in S : \A y \in S : <<y, x>> \notin OpToRel(<, Nat)
  BY NatLessThanWellFounded, WFMin
<1>2. \A y \in S : ~(y < x)
  BY <1>1 DEF OpToRel
<1>. QED BY <1>2

\* Some processor of a destination has the lowest priority.
LEMMA HasLowest ==
  ASSUME TypeOK, NEW dest, dest \subseteq Cpus, dest # {}
  PROVE  LowestPriority(dest) # {}
<1> DEFINE prios == {task_priority[c] : c \in dest}
<1>1. \A c \in dest : task_priority[c] \in Nat /\ c \in Nat
  BY CpuTypes
<1>2. PICK t \in prios : \A u \in prios : t <= u
  <2>1. prios \subseteq Nat /\ prios # {}
    BY <1>1
  <2>. QED BY <2>1, Smallest
<1> DEFINE first == {c \in dest : task_priority[c] = t}
<1>3. PICK c \in first : \A k \in first : c <= k
  <2>1. first \subseteq Nat /\ first # {}
    BY <1>1, <1>2
  <2>. QED BY <2>1, Smallest
<1>4. c \in LowestPriority(dest)
  BY <1>1, <1>2, <1>3 DEF LowestPriority
<1>. QED BY <1>4

\* What holds after service_ioapic on registers that an operation has changed.
LEMMA Serviced ==
  ASSUME TypeOK, NEW table, NEW requests, NEW tm, NEW C,
         Typed(table, requests, tm),
         service(Fires(table, requests), table, requests, tm, C),
         intin' \subseteq Pins, isr' \in [Cpus -> SUBSET Vectors],
         task_priority' = task_priority, dropped' = dropped,
         OneHandlerPerClass',
         \A c \in Cpus : Ready(c, lapic_irr[c]) /\ c \notin C => intr[c],
         \A c \in Cpus : extint_pending[c] => intr[c],
         \A p \in Pins : LineOK(p, table[p], requests, intin'),
         \A p \in Pins : Exclusive(p) => \A w \in Words[p] :
           FlightOK(w.vector, table[p], lapic_irr, isr', tm, dropped')
  PROVE  ApicInv'
<1> DEFINE F == Fires(table, requests)
<1>1. /\ irr' \subseteq Pins /\ ioredtbl' \in [Pins -> EntryType] /\ EntryInv'
      /\ lapic_irr' \in [Cpus -> SUBSET Vectors] /\ tmr' \in [Cpus -> SUBSET Vectors]
      /\ extint_pending' \in [Cpus -> BOOLEAN] /\ intr' \in [Cpus -> BOOLEAN]
  BY ServiceTypes
<1>2. TypeOK'
  BY <1>1 DEF TypeOK, EntryInv, EntryOK
<1>3. ReadyIsSignalled'
  BY ServiceReady
<1>4. LineInv'
  BY ServiceLine
<1>5. PendingIsSent'
  BY ServicePending
<1>6. FlightInv'
  <2>1. SUFFICES ASSUME NEW p \in Pins, Exclusive(p), NEW w \in Words[p]
                 PROVE  FlightOK(w.vector, ioredtbl'[p], lapic_irr', isr', tmr', dropped')
    BY DEF FlightInv
  <2>2. FlightOK(w.vector, table[p], lapic_irr, isr', tm, dropped')
    BY <2>1
  <2>3. F \subseteq Fires(table, requests)
    OBVIOUS
  <2>. QED BY <2>1, <2>2, <2>3, ServiceFlight
<1>. QED BY <1>1, <1>2, <1>3, <1>4, <1>5, <1>6 DEF ApicInv

\* service without an entry to deliver is service_local_apic.
LEMMA ServiceNothing ==
  ASSUME TypeOK, NEW tm \in [Cpus -> SUBSET Vectors], NEW C,
         service({}, ioredtbl, irr, tm, C)
  PROVE  /\ irr' = irr /\ ioredtbl' = ioredtbl /\ lapic_irr' = lapic_irr
         /\ tmr' = tm /\ extint_pending' = extint_pending
         /\ intr' \in [Cpus -> BOOLEAN]
         /\ \A c \in Cpus : intr'[c] <=> intr[c] \/ (c \in C /\ Ready(c, lapic_irr[c]))
<1>1. irr' = irr
  BY DEF service
<1>2. ioredtbl' = ioredtbl
  BY DEF service, Delivered, TypeOK
<1>3. Sends({}, ioredtbl) = [c \in Cpus |-> {}]
  BY DEF Sends, Sent
<1>4. lapic_irr' = lapic_irr
  BY <1>3 DEF service, trigger_irq, TypeOK
<1>5. tmr' = tm
  BY <1>3 DEF service, trigger_irq
<1>6. \A c \in Cpus : ExtInts({}, ioredtbl, c) = {}
  BY DEF ExtInts
<1>7. extint_pending' = extint_pending
  BY <1>6 DEF service, TypeOK
<1>8. ASSUME NEW c \in Cpus
      PROVE  intr'[c] <=> intr[c] \/ (c \in C /\ Ready(c, lapic_irr[c]))
  <2>1. Sends({}, ioredtbl)[c] \subseteq lapic_irr[c]
    BY <1>3
  <2>2. intr'[c] = (\/ intr[c] \/ ExtInts({}, ioredtbl, c) # {}
                    \/ /\ c \in C \/ ~(Sends({}, ioredtbl)[c] \subseteq lapic_irr[c])
                       /\ Ready(c, lapic_irr'[c]))
    BY DEF service
  <2>3. ExtInts({}, ioredtbl, c) = {} /\ lapic_irr'[c] = lapic_irr[c]
    BY <1>4, <1>6
  <2>. QED BY <2>1, <2>2, <2>3
<1>9. intr' \in [Cpus -> BOOLEAN]
  BY DEF service, TypeOK, Ready
<1>. QED BY <1>1, <1>2, <1>4, <1>5, <1>7, <1>8, <1>9

\* Ready of registers that did not change is what ReadyIsSignalled speaks of.
LEMMA ReadyBefore ==
  ASSUME ReadyIsSignalled, isr' = isr, task_priority' = task_priority
  PROVE  /\ \A c \in Cpus : Ready(c, lapic_irr[c]) => intr[c]
         /\ \A c \in Cpus : extint_pending[c] => intr[c]
BY DEF ReadyIsSignalled, Ready, Outranks

\* set_irq_level, line going up.
LEMMA RaiseLineKeeps ==
  ASSUME ApicInv, NEW p \in Pins, RaiseLine(p)
  PROVE  ApicInv'
<1>1. intin' = intin \union {p} /\ isr' = isr /\ task_priority' = task_priority
      /\ dropped' = dropped
  BY DEF RaiseLine
<1>2. OneHandlerPerClass'
  BY <1>1 DEF ApicInv, OneHandlerPerClass
<1>3. CASE ioredtbl[p].level \/ ~ioredtbl[p].masked
  <2>1. service(Fires(ioredtbl, irr \union {p}), ioredtbl, irr \union {p}, tmr, {})
    BY <1>3 DEF RaiseLine, service_ioapic
  <2>2. Typed(ioredtbl, irr \union {p}, tmr)
    BY DEF ApicInv, TypeOK, Typed, EntryInv
  <2>3. \A q \in Pins : LineOK(q, ioredtbl[q], irr \union {p}, intin')
    BY <1>1, <1>3 DEF ApicInv, LineInv, LineOK
  <2>4. \A q \in Pins : Exclusive(q) => \A w \in Words[q] :
          FlightOK(w.vector, ioredtbl[q], lapic_irr, isr', tmr, dropped')
    BY <1>1 DEF ApicInv, FlightInv
  <2>5. intin' \subseteq Pins /\ isr' \in [Cpus -> SUBSET Vectors]
    BY <1>1 DEF ApicInv, TypeOK
  <2>6. TypeOK /\ ReadyIsSignalled
    BY DEF ApicInv
  <2>. QED BY <1>1, <1>2, <2>1, <2>2, <2>3, <2>4, <2>5, <2>6, ReadyBefore, Serviced
<1>4. CASE ~(ioredtbl[p].level \/ ~ioredtbl[p].masked)
  <2>1. UNCHANGED <<irr, ioredtbl, lapic_irr, tmr, extint_pending, intr>>
    BY <1>4 DEF RaiseLine
  <2>2. TypeOK' /\ EntryInv'
    BY <1>1, <2>1 DEF ApicInv, TypeOK, EntryInv
  <2>3. ReadyIsSignalled'
    BY <1>1, <2>1 DEF ApicInv, ReadyIsSignalled, Outranks
  <2>4. LineInv'
    BY <1>1, <1>4, <2>1 DEF ApicInv, LineInv, LineOK
  <2>5. PendingIsSent'
    BY <1>1, <2>1 DEF ApicInv, PendingIsSent, Targets, Matched, LowestPriority
  <2>6. FlightInv'
    BY <1>1, <2>1 DEF ApicInv, FlightInv
  <2>. QED BY <1>2, <2>2, <2>3, <2>4, <2>5, <2>6 DEF ApicInv
<1>. QED BY <1>3, <1>4

\* set_irq_level, line going down.
LEMMA LowerLineKeeps ==
  ASSUME ApicInv, NEW p \in Pins, LowerLine(p)
  PROVE  ApicInv'
<1>1. /\ intin' = intin \ {p} /\ irr' = IF ioredtbl[p].level THEN irr \ {p} ELSE irr
      /\ UNCHANGED <<ioredtbl, lapic_irr, isr, tmr, task_priority, extint_pending,
                     intr, dropped>>
  BY DEF LowerLine
<1>2. TypeOK' /\ EntryInv'
  BY <1>1 DEF ApicInv, TypeOK, EntryInv
<1>3. ReadyIsSignalled' /\ OneHandlerPerClass'
  BY <1>1 DEF ApicInv, ReadyIsSignalled, Outranks, OneHandlerPerClass
<1>4. LineInv'
  BY <1>1 DEF ApicInv, LineInv, LineOK
<1>5. PendingIsSent'
  BY <1>1 DEF ApicInv, PendingIsSent, Targets, Matched, LowestPriority
<1>6. FlightInv'
  BY <1>1 DEF ApicInv, FlightInv
<1>. QED BY <1>2, <1>3, <1>4, <1>5, <1>6 DEF ApicInv

\* A write to the low part of an entry.
LEMMA WriteLoKeeps ==
  ASSUME ApicInv, NEW p \in Pins, NEW w \in Words[p], WriteLo(p, w)
  PROVE  ApicInv'
<1> DEFINE e == Entry(w, ioredtbl[p])
           table == [ioredtbl EXCEPT ![p] = e]
           requests == Sampled(p, e)
<1>1. intin' = intin /\ isr' = isr /\ task_priority' = task_priority /\ dropped' = dropped
  BY DEF WriteLo
<1>2. service(Fires(table, requests), table, requests, tmr, {})
  BY DEF WriteLo, service_ioapic
<1>3. TypeOK /\ EntryInv /\ ReadyIsSignalled
  BY DEF ApicInv
<1>4. w \in Word /\ w.vector \in Vectors
  BY ApicAssumption
<1>5. /\ e \in EntryType
      /\ e.vector = w.vector /\ e.level = w.level /\ e.mode = w.mode
      /\ e.logical = w.logical /\ e.dest = ioredtbl[p].dest
      /\ e.remote_irr = (w.level /\ ioredtbl[p].remote_irr)
  BY <1>3, <1>4 DEF Entry, EntryType, Word, TypeOK
<1>6. EntryOK(p, e)
  BY <1>3, <1>5 DEF EntryOK, EntryInv
<1>7. table \in [Pins -> EntryType] /\ table[p] = e
      /\ \A q \in Pins \ {p} : table[q] = ioredtbl[q]
  BY <1>3, <1>5 DEF TypeOK
<1>8. requests \subseteq Pins
  BY <1>3 DEF Sampled, TypeOK
<1>9. Typed(table, requests, tmr)
  BY <1>3, <1>6, <1>7, <1>8 DEF Typed, TypeOK, EntryInv
<1>10. \A q \in Pins : LineOK(q, table[q], requests, intin')
  <2>1. \A q \in Pins \ {p} : q \in requests <=> q \in irr
    BY DEF Sampled
  <2>2. \A q \in Pins \ {p} : LineOK(q, table[q], requests, intin')
    BY <1>1, <1>7, <2>1 DEF ApicInv, LineInv, LineOK
  <2>3. LineOK(p, table[p], requests, intin')
    BY <1>1, <1>5, <1>7 DEF ApicInv, LineInv, LineOK, LevelPin, Sampled
  <2>. QED BY <2>2, <2>3
<1>11. ASSUME NEW q \in Pins, Exclusive(q), NEW x \in Words[q]
       PROVE  FlightOK(x.vector, table[q], lapic_irr, isr', tmr, dropped')
  <2>1. table[q].remote_irr = ioredtbl[q].remote_irr
    BY <1>11, <1>3, <1>5, <1>7 DEF Exclusive, LevelPin, TypeOK, EntryType
  <2>2. FlightOK(x.vector, ioredtbl[q], lapic_irr, isr, tmr, dropped)
    BY <1>11 DEF ApicInv, FlightInv
  <2>. QED BY <1>1, <2>1, <2>2 DEF FlightOK
<1>12. OneHandlerPerClass' /\ intin' \subseteq Pins /\ isr' \in [Cpus -> SUBSET Vectors]
  BY <1>1 DEF ApicInv, OneHandlerPerClass, TypeOK
<1>. QED BY <1>1, <1>2, <1>3, <1>9, <1>10, <1>11, <1>12, ReadyBefore, Serviced

\* A write to the high part of an entry.
LEMMA WriteHiKeeps ==
  ASSUME ApicInv, NEW p \in Pins, NEW d \in Dests[p], WriteHi(p, d)
  PROVE  ApicInv'
<1> DEFINE e == [ioredtbl[p] EXCEPT !.dest = d]
           table == [ioredtbl EXCEPT ![p].dest = d]
<1>1. intin' = intin /\ isr' = isr /\ task_priority' = task_priority /\ dropped' = dropped
  BY DEF WriteHi
<1>2. service(Fires(table, irr), table, irr, tmr, {})
  BY DEF WriteHi, service_ioapic
<1>3. TypeOK /\ EntryInv /\ ReadyIsSignalled
  BY DEF ApicInv
<1>4. d \in Destination
  BY ApicAssumption
<1>5. ioredtbl[p] \in EntryType
  BY <1>3 DEF TypeOK
<1>6. /\ e \in EntryType /\ e.dest = d
      /\ e.vector = ioredtbl[p].vector /\ e.level = ioredtbl[p].level
      /\ e.mode = ioredtbl[p].mode /\ e.masked = ioredtbl[p].masked
      /\ e.logical = ioredtbl[p].logical /\ e.remote_irr = ioredtbl[p].remote_irr
  BY <1>4, <1>5 DEF EntryType
<1>7. EntryOK(p, e)
  BY <1>3, <1>6 DEF EntryOK, EntryInv
<1>8. table \in [Pins -> EntryType] /\ table[p] = e
      /\ \A q \in Pins \ {p} : table[q] = ioredtbl[q]
  BY <1>3, <1>6 DEF TypeOK
<1>9. Typed(table, irr, tmr)
  BY <1>3, <1>7, <1>8 DEF Typed, TypeOK, EntryInv
<1>10. \A q \in Pins : /\ table[q].level = ioredtbl[q].level
                       /\ table[q].masked = ioredtbl[q].masked
                       /\ table[q].remote_irr = ioredtbl[q].remote_irr
  BY <1>6, <1>8
<1>11. \A q \in Pins : LineOK(q, table[q], irr, intin')
  BY <1>1, <1>10 DEF ApicInv, LineInv, LineOK
<1>12. ASSUME NEW q \in Pins, Exclusive(q), NEW x \in Words[q]
       PROVE  FlightOK(x.vector, table[q], lapic_irr, isr', tmr, dropped')
  <2>1. FlightOK(x.vector, ioredtbl[q], lapic_irr, isr, tmr, dropped)
    BY <1>12 DEF ApicInv, FlightInv
  <2>. QED BY <1>1, <1>10, <2>1 DEF FlightOK
<1>13. OneHandlerPerClass' /\ intin' \subseteq Pins /\ isr' \in [Cpus -> SUBSET Vectors]
  BY <1>1 DEF ApicInv, OneHandlerPerClass, TypeOK
<1>. QED BY <1>1, <1>2, <1>3, <1>9, <1>11, <1>12, <1>13, ReadyBefore, Serviced

\* A change of priorities takes no entry its last target.
LEMMA TargetsStay ==
  ASSUME TypeOK, ioredtbl' = ioredtbl, NEW p \in Pins, Targets(ioredtbl[p])' # {}
  PROVE  Targets(ioredtbl[p]) # {}
<1>1. ioredtbl[p] \in EntryType
  BY DEF TypeOK
<1>2. ioredtbl[p].dest.logical \subseteq Cpus
  BY <1>1 DEF EntryType, Destination
<1>3. CASE ioredtbl[p].mode # "lowpri"
  BY <1>3 DEF Targets, Matched
<1>4. CASE ioredtbl[p].mode = "lowpri"
  <2>1. ioredtbl[p].logical /\ ioredtbl[p].dest.logical # {}
    BY <1>4 DEF Targets, LowestPriority
  <2>. QED BY <1>2, <1>4, <2>1, HasLowest DEF Targets
<1>. QED BY <1>3, <1>4

\* service_local_apic of some processors, after their registers have changed.
LEMMA ServedLocally ==
  ASSUME ApicInv, NEW tm \in [Cpus -> SUBSET Vectors], NEW C,
         service({}, ioredtbl, irr, tm, C),
         intin' = intin, dropped' = dropped,
         isr' \in [Cpus -> SUBSET Vectors], task_priority' \in [Cpus -> 0 .. 255],
         OneHandlerPerClass',
         \A c \in Cpus : Ready(c, lapic_irr[c]) /\ c \notin C => intr[c],
         \A p \in Pins : Exclusive(p) => \A w \in Words[p] :
           FlightOK(w.vector, ioredtbl[p], lapic_irr, isr', tm, dropped)
  PROVE  ApicInv'
<1>1. TypeOK
  BY DEF ApicInv
<1>2. /\ irr' = irr /\ ioredtbl' = ioredtbl /\ lapic_irr' = lapic_irr
      /\ tmr' = tm /\ extint_pending' = extint_pending
      /\ intr' \in [Cpus -> BOOLEAN]
  BY <1>1, ServiceNothing
<1>3. TypeOK' /\ EntryInv'
  BY <1>2 DEF ApicInv, TypeOK, EntryInv
<1>4. ReadyIsSignalled'
  <2>1. \A c \in Cpus : extint_pending[c] => intr[c]
    BY DEF ApicInv, ReadyIsSignalled
  <2>. QED BY <1>1, <2>1, ServiceReady
<1>5. LineInv'
  BY <1>2 DEF ApicInv, LineInv, LineOK
<1>6. PendingIsSent'
  BY <1>1, <1>2, TargetsStay DEF ApicInv, PendingIsSent, TypeOK
<1>7. FlightInv'
  BY <1>2 DEF FlightInv
<1>. QED BY <1>3, <1>4, <1>5, <1>6, <1>7 DEF ApicInv

\* acknowledge_int of an ExtINT.
LEMMA AcknowledgeExtIntKeeps ==
  ASSUME ApicInv, NEW c \in Cpus, AcknowledgeExtInt(c)
  PROVE  ApicInv'
<1>1. UNCHANGED <<intin, irr, ioredtbl, lapic_irr, isr, tmr, task_priority, dropped>>
  BY DEF AcknowledgeExtInt
<1>2. /\ extint_pending' = [extint_pending EXCEPT ![c] = FALSE]
      /\ intr' = [intr EXCEPT ![c] = Ready(c, lapic_irr[c])]
  BY DEF AcknowledgeExtInt
<1>3. TypeOK' /\ EntryInv'
  BY <1>1, <1>2 DEF ApicInv, TypeOK, EntryInv, Ready
<1>4. ReadyIsSignalled'
  <2>1. SUFFICES ASSUME NEW k \in Cpus,
                        (\E v \in lapic_irr[k] : Outranks(k, v)) \/ extint_pending'[k]
                 PROVE  intr'[k]
    BY <1>1 DEF ReadyIsSignalled, Outranks
  <2>2. CASE k = c
    BY <1>1, <1>2, <2>1, <2>2 DEF ApicInv, TypeOK, Ready, Outranks
  <2>3. CASE k # c
    BY <1>2, <2>1, <2>3 DEF ApicInv, TypeOK, ReadyIsSignalled
  <2>. QED BY <2>2, <2>3
<1>5. OneHandlerPerClass' /\ LineInv' /\ FlightInv'
  BY <1>1 DEF ApicInv, OneHandlerPerClass, LineInv, LineOK, FlightInv
<1>6. PendingIsSent'
  BY <1>1 DEF ApicInv, PendingIsSent, Targets, Matched, LowestPriority
<1>. QED BY <1>3, <1>4, <1>5, <1>6 DEF ApicInv

\* acknowledge_int of the highest request, which outranks what is in service.
LEMMA AcknowledgeIntKeeps ==
  ASSUME ApicInv, NEW c \in Cpus, NEW v \in Vectors, AcknowledgeInt(c, v)
  PROVE  ApicInv'
<1>1. UNCHANGED <<intin, irr, ioredtbl, tmr, task_priority, extint_pending, dropped>>
  BY DEF AcknowledgeInt
<1>2. /\ lapic_irr' = [lapic_irr EXCEPT ![c] = @ \ {v}]
      /\ isr' = [isr EXCEPT ![c] = @ \union {v}]
      /\ intr' = [intr EXCEPT ![c] = Ready(c, lapic_irr'[c])]
  BY DEF AcknowledgeInt
<1>3. v \in lapic_irr[c] /\ ~extint_pending[c] /\ \A k \in isr[c] : Class(v) > Class(k)
  BY DEF AcknowledgeInt, Highest, Outranks
<1>4. TypeOK' /\ EntryInv'
  BY <1>1, <1>2 DEF ApicInv, TypeOK, EntryInv, Ready
<1>5. \A k \in Cpus : /\ k # c => lapic_irr'[k] = lapic_irr[k] /\ isr'[k] = isr[k]
                      /\ lapic_irr'[c] = lapic_irr[c] \ {v}
                      /\ isr'[c] = isr[c] \union {v}
  BY <1>2 DEF ApicInv, TypeOK
<1>6. ReadyIsSignalled'
  <2>1. SUFFICES ASSUME NEW k \in Cpus,
                        (\E u \in lapic_irr'[k] : Outranks(k, u)') \/ extint_pending'[k]
                 PROVE  intr'[k]
    BY DEF ReadyIsSignalled
  <2>2. CASE k = c
    BY <1>1, <1>2, <1>3, <2>1, <2>2 DEF ApicInv, TypeOK, Ready, Outranks
  <2>3. CASE k # c
    BY <1>1, <1>2, <1>5, <2>1, <2>3 DEF ApicInv, TypeOK, ReadyIsSignalled, Outranks
  <2>. QED BY <2>2, <2>3
<1>7. OneHandlerPerClass'
  <2>1. SUFFICES ASSUME NEW k \in Cpus, NEW x \in isr'[k], NEW y \in isr'[k],
                        x \div 16 = y \div 16
                 PROVE  x = y
    BY DEF OneHandlerPerClass
  <2>2. CASE x \in isr[k] /\ y \in isr[k]
    BY <2>1, <2>2 DEF ApicInv, OneHandlerPerClass
  <2>3. CASE ~(x \in isr[k] /\ y \in isr[k])
    <3>1. k = c /\ x \in isr[c] \union {v} /\ y \in isr[c] \union {v}
      BY <1>5, <2>3
    <3>2. \A u \in isr[c] : u \in Int /\ u \div 16 \in Int /\ u \div 16 # v \div 16
      <4>1. v \in Int /\ \A u \in isr[c] : u \in Int
        BY ApicAssumption DEF ApicInv, TypeOK
      <4>. QED BY <1>3, <4>1 DEF Class
    <3>. QED BY <2>1, <2>3, <3>1, <3>2
  <2>. QED BY <2>2, <2>3
<1>8. LineInv'
  BY <1>1 DEF ApicInv, LineInv, LineOK
<1>9. PendingIsSent'
  BY <1>1 DEF ApicInv, PendingIsSent, Targets, Matched, LowestPriority
<1>10. FlightInv'
  <2>1. SUFFICES ASSUME NEW p \in Pins, Exclusive(p), NEW w \in Words[p]
                 PROVE  FlightOK(w.vector, ioredtbl'[p], lapic_irr', isr', tmr', dropped')
    BY DEF FlightInv
  <2>2. FlightOK(w.vector, ioredtbl[p], lapic_irr, isr, tmr, dropped)
    BY <2>1 DEF ApicInv, FlightInv
  <2>3. \A k \in Cpus : w.vector \in lapic_irr'[k] \union isr'[k]
                          <=> w.vector \in lapic_irr[k] \union isr[k]
    BY <1>3, <1>5
  <2>4. \A k \in Cpus : ~(w.vector \in lapic_irr'[k] /\ w.vector \in isr'[k])
    BY <1>5, <2>2 DEF FlightOK
  <2>. QED BY <1>1, <2>2, <2>3, <2>4 DEF FlightOK
<1>. QED BY <1>4, <1>6, <1>7, <1>8, <1>9, <1>10 DEF ApicInv

\* A non-empty set of vectors has a highest element (highest_priority_int).
LEMMA HasHighest ==
  ASSUME NEW S, S \subseteq 16 .. 255, S # {}
  PROVE  \E x \in S : \A y \in S : y <= x
<1> DEFINE R == {255 - x : x \in S}
<1>1. R \subseteq Nat /\ R # {}
  <2>1. \A x \in S : x \in Int /\ 16 <= x /\ x <= 255
    OBVIOUS
  <2>2. \A x \in S : 255 - x \in Nat
    BY <2>1
  <2>. QED BY <2>2
<1>2. PICK r \in R : \A y \in R : r <= y
  BY <1>1, Smallest
<1>3. PICK x \in S : r = 255 - x
  OBVIOUS
<1>4. ASSUME NEW y \in S PROVE y <= x
  <2>1. 255 - y \in R
    OBVIOUS
  <2>2. 255 - x <= 255 - y
    BY <1>2, <1>3, <2>1
  <2>3. x \in Int /\ y \in Int
    OBVIOUS
  <2>. QED BY <2>2, <2>3
<1>. QED BY <1>4

\* acknowledge_int of the spurious vector: if the highest request is held
\* back, all are.
LEMMA AcknowledgeSpuriousKeeps ==
  ASSUME ApicInv, NEW c \in Cpus, AcknowledgeSpurious(c)
  PROVE  ApicInv'
<1>1. UNCHANGED <<intin, irr, ioredtbl, lapic_irr, isr, tmr, task_priority,
                  extint_pending, dropped>>
  BY DEF AcknowledgeSpurious
<1>2. intr' = [intr EXCEPT ![c] = FALSE] /\ ~extint_pending[c]
  BY DEF AcknowledgeSpurious
<1>3. TypeOK' /\ EntryInv'
  BY <1>1, <1>2 DEF ApicInv, TypeOK, EntryInv
<1>4. \A v \in lapic_irr[c] : ~Outranks(c, v)
  <2>1. SUFFICES ASSUME NEW v \in lapic_irr[c], Outranks(c, v)
                 PROVE  FALSE
    OBVIOUS
  <2>2. lapic_irr[c] \subseteq 16 .. 255 /\ isr[c] \subseteq 16 .. 255
        /\ task_priority[c] \in 0 .. 255
    BY ApicAssumption DEF ApicInv, TypeOK
  <2>3. PICK h \in lapic_irr[c] : \A y \in lapic_irr[c] : y <= h
    BY <2>2, HasHighest
  <2>4. Class(h) >= Class(v) /\ Class(h) \in Int /\ Class(v) \in Int
    <3>1. h \in 16 .. 255 /\ v \in 16 .. 255 /\ v <= h
      BY <2>2, <2>3
    <3>. QED BY <3>1 DEF Class
  <2>5. Class(task_priority[c]) \in Int /\ \A k \in isr[c] : Class(k) \in Int
    BY <2>2 DEF Class
  <2>6. Outranks(c, h)
    BY <2>1, <2>4, <2>5 DEF Outranks
  <2>. QED BY <2>3, <2>6 DEF AcknowledgeSpurious, Highest
<1>5. ReadyIsSignalled'
  <2>1. SUFFICES ASSUME NEW k \in Cpus,
                        (\E v \in lapic_irr[k] : Outranks(k, v)) \/ extint_pending[k]
                 PROVE  intr'[k]
    BY <1>1 DEF ReadyIsSignalled, Outranks
  <2>. QED BY <1>2, <1>4, <2>1 DEF ApicInv, TypeOK, ReadyIsSignalled
<1>6. OneHandlerPerClass' /\ LineInv' /\ FlightInv'
  BY <1>1 DEF ApicInv, OneHandlerPerClass, LineInv, LineOK, FlightInv
<1>7. PendingIsSent'
  BY <1>1 DEF ApicInv, PendingIsSent, Targets, Matched, LowestPriority
<1>. QED BY <1>3, <1>5, <1>6, <1>7 DEF ApicInv

\* A lower priority is of no higher class.
LEMMA ClassMonotone ==
  ASSUME NEW x \in 0 .. 255, NEW y \in 0 .. 255, x >= y
  PROVE  Class(x) >= Class(y)
BY DEF Class

\* set_tpr: a request let through is signalled; a higher priority lets none
\* through that was held back.
LEMMA SetTprKeeps ==
  ASSUME ApicInv, NEW c \in Cpus, NEW t \in Priorities, set_tpr(c, t)
  PROVE  ApicInv'
<1> DEFINE C == IF t < task_priority[c] THEN {c} ELSE {}
<1>1. TypeOK /\ ReadyIsSignalled /\ t \in 0 .. 255
  BY ApicAssumption DEF ApicInv
<1>2. intin' = intin /\ isr' = isr /\ dropped' = dropped
      /\ task_priority' = [task_priority EXCEPT ![c] = t]
  BY DEF set_tpr
<1>3. service({}, ioredtbl, irr, tmr, C)
  BY DEF set_tpr
<1>4. isr' \in [Cpus -> SUBSET Vectors] /\ task_priority' \in [Cpus -> 0 .. 255]
      /\ tmr \in [Cpus -> SUBSET Vectors]
  BY <1>1, <1>2 DEF TypeOK
<1>5. OneHandlerPerClass'
  BY <1>2 DEF ApicInv, OneHandlerPerClass
<1>6. ASSUME NEW k \in Cpus, Ready(k, lapic_irr[k]), k \notin C
      PROVE  intr[k]
  <2>1. PICK v \in lapic_irr[k] : /\ Class(v) > Class(task_priority'[k])
                                  /\ \A j \in isr[k] : Class(v) > Class(j)
    BY <1>2, <1>6 DEF Ready
  <2>2. v \in 16 .. 255 /\ task_priority[k] \in 0 .. 255 /\ task_priority'[k] \in 0 .. 255
    BY <1>1, <1>4, ApicAssumption DEF TypeOK
  <2>3. task_priority'[k] >= task_priority[k]
    BY <1>1, <1>2, <1>6, <2>2 DEF TypeOK
  <2>4. Class(task_priority'[k]) >= Class(task_priority[k])
    BY <2>2, <2>3, ClassMonotone
  <2>5. Class(v) > Class(task_priority[k])
    <3>1. /\ Class(v) \in Int /\ Class(task_priority[k]) \in Int
          /\ Class(task_priority'[k]) \in Int
      BY <2>2 DEF Class
    <3>. QED BY <2>1, <2>4, <3>1
  <2>. QED BY <1>1, <2>1, <2>5 DEF ReadyIsSignalled, Outranks
<1>7. \A p \in Pins : Exclusive(p) => \A w \in Words[p] :
        FlightOK(w.vector, ioredtbl[p], lapic_irr, isr', tmr, dropped)
  BY <1>2 DEF ApicInv, FlightInv
<1>. HIDE DEF C
<1>. QED BY <1>2, <1>3, <1>4, <1>5, <1>6, <1>7, ServedLocally

\* receive_EOI and receive_SEOI: the vector of an exclusive pin is marked as
\* level triggered, so the EOI reaches its entry, which is served again.
LEMMA EndOfInterruptKeeps ==
  ASSUME ApicInv, NEW c \in Cpus, NEW v \in isr[c], EndOfInterrupt(c, v)
  PROVE  ApicInv'
<1> DEFINE tm == [tmr EXCEPT ![c] = @ \ {v}]
<1>1. TypeOK /\ EntryInv /\ ReadyIsSignalled
  BY DEF ApicInv
<1>2. intin' = intin /\ task_priority' = task_priority /\ dropped' = dropped
      /\ isr' = [isr EXCEPT ![c] = @ \ {v}]
  BY DEF EndOfInterrupt
<1>3. /\ isr' \in [Cpus -> SUBSET Vectors] /\ isr'[c] = isr[c] \ {v}
      /\ \A k \in Cpus : k # c => isr'[k] = isr[k]
  BY <1>1, <1>2 DEF TypeOK
<1>4. /\ tm \in [Cpus -> SUBSET Vectors] /\ tm[c] = tmr[c] \ {v}
      /\ \A k \in Cpus : k # c => tm[k] = tmr[k]
  BY <1>1 DEF TypeOK
<1>5. OneHandlerPerClass'
  BY <1>3 DEF ApicInv, OneHandlerPerClass
<1>6. \A k \in Cpus : Ready(k, lapic_irr[k]) /\ k \notin {c} => intr[k]
  BY <1>1, <1>2, <1>3 DEF Ready, ReadyIsSignalled, Outranks
<1>7. \A k \in Cpus : extint_pending[k] => intr[k]
  BY <1>1 DEF ReadyIsSignalled
<1>8. ASSUME NEW p \in Pins, Exclusive(p), NEW w \in Words[p]
      PROVE  /\ FlightOK(w.vector, ioredtbl[p], lapic_irr, isr, tmr, dropped)
             /\ w.vector = v => v \in tmr[c] /\ p \in Ended(v)
             /\ w.vector # v => p \notin Ended(v)
  <2>1. FlightOK(w.vector, ioredtbl[p], lapic_irr, isr, tmr, dropped)
    BY <1>8 DEF ApicInv, FlightInv
  <2>2. ioredtbl[p].remote_irr => ioredtbl[p].level /\ ioredtbl[p].vector = w.vector
    BY <1>1, <1>8 DEF EntryInv, EntryOK, Exclusive
  <2>3. w.vector = v => v \in tmr[c] /\ ioredtbl[p].remote_irr
    BY <2>1 DEF FlightOK
  <2>. QED BY <2>1, <2>2, <2>3 DEF Ended
<1>9. ASSUME NEW p \in Pins, Exclusive(p), NEW w \in Words[p], w.vector # v
      PROVE  /\ FlightOK(w.vector, ioredtbl[p], lapic_irr, isr', tmr, dropped)
             /\ FlightOK(w.vector, ioredtbl[p], lapic_irr, isr', tm, dropped)
  <2>1. FlightOK(w.vector, ioredtbl[p], lapic_irr, isr, tmr, dropped)
    BY <1>8, <1>9
  <2>2. \A k \in Cpus : /\ w.vector \in isr'[k] <=> w.vector \in isr[k]
                        /\ w.vector \in tm[k] <=> w.vector \in tmr[k]
    BY <1>3, <1>4, <1>9
  <2>. QED BY <2>1, <2>2 DEF FlightOK
<1>10. CASE v \notin tmr[c]
  <2>1. service({}, ioredtbl, irr, tmr, {c})
    BY <1>10 DEF EndOfInterrupt
  <2>2. \A p \in Pins : Exclusive(p) => \A w \in Words[p] :
          FlightOK(w.vector, ioredtbl[p], lapic_irr, isr', tmr, dropped)
    BY <1>8, <1>9, <1>10
  <2>3. tmr \in [Cpus -> SUBSET Vectors] /\ task_priority' \in [Cpus -> 0 .. 255]
    BY <1>1, <1>2 DEF TypeOK
  <2>. QED BY <1>2, <1>3, <1>5, <1>6, <2>1, <2>2, <2>3, ServedLocally
<1>11. CASE v \in tmr[c] /\ Ended(v) = {}
  <2>1. Cleared(v) = ioredtbl
    BY <1>1, <1>11 DEF Cleared, TypeOK
  <2>2. service({}, ioredtbl, irr, tm, {c})
    BY <1>11, <2>1 DEF EndOfInterrupt, receive_eoi
  <2>3. \A p \in Pins : Exclusive(p) => \A w \in Words[p] :
          FlightOK(w.vector, ioredtbl[p], lapic_irr, isr', tm, dropped)
    BY <1>8, <1>9, <1>11
  <2>4. task_priority' \in [Cpus -> 0 .. 255]
    BY <1>1, <1>2 DEF TypeOK
  <2>. HIDE DEF tm
  <2>. QED BY <1>2, <1>3, <1>4, <1>5, <1>6, <2>2, <2>3, <2>4, ServedLocally
<1>12. CASE v \in tmr[c] /\ Ended(v) # {}
  <2> DEFINE table == Cleared(v)
  <2>1. service(Fires(table, irr), table, irr, tm, {c})
    BY <1>12 DEF EndOfInterrupt, receive_eoi
  <2>2. ASSUME NEW p \in Pins
        PROVE  /\ EntryOK(p, table[p])
               /\ table[p].level = ioredtbl[p].level
               /\ table[p].masked = ioredtbl[p].masked
               /\ p \in Ended(v) => ~table[p].remote_irr
               /\ p \notin Ended(v) => table[p] = ioredtbl[p]
    <3>1. EntryOK(p, ioredtbl[p]) /\ ioredtbl[p] \in EntryType
      BY <1>1 DEF EntryInv, TypeOK
    <3>2. CASE p \notin Ended(v)
      BY <3>1, <3>2 DEF Cleared
    <3>3. CASE p \in Ended(v)
      <4>1. table[p] = [ioredtbl[p] EXCEPT !.remote_irr = FALSE]
        BY <3>3 DEF Cleared
      <4>2. EntryOK(p, [ioredtbl[p] EXCEPT !.remote_irr = FALSE])
        BY <3>1, RemoteIrrSet DEF EntryOK
      <4>. QED BY <3>1, <3>3, <4>1, <4>2, RemoteIrrSet
    <3>. QED BY <3>2, <3>3
  <2>3. Typed(table, irr, tm)
    <3>1. table \in [Pins -> EntryType]
      BY <2>2 DEF Cleared, EntryOK
    <3>. QED BY <1>1, <1>4, <2>2, <3>1 DEF Typed, TypeOK
  <2>4. \A p \in Pins : LineOK(p, table[p], irr, intin')
    BY <1>2, <2>2 DEF ApicInv, LineInv, LineOK
  <2>5. ASSUME NEW p \in Pins, Exclusive(p), NEW w \in Words[p]
        PROVE  FlightOK(w.vector, table[p], lapic_irr, isr', tm, dropped')
    <3>1. CASE w.vector # v
      <4>1. table[p] = ioredtbl[p]
        BY <1>8, <2>2, <2>5, <3>1
      <4>2. FlightOK(w.vector, ioredtbl[p], lapic_irr, isr', tm, dropped)
        BY <1>9, <2>5, <3>1
      <4>. QED BY <1>2, <4>1, <4>2
    <3>2. CASE w.vector = v
      <4>1. ~table[p].remote_irr
        BY <1>8, <2>2, <2>5, <3>2
      <4>2. \A k \in Cpus : v \notin lapic_irr[k] \union isr'[k]
        <5>1. FlightOK(v, ioredtbl[p], lapic_irr, isr, tmr, dropped)
          BY <1>8, <2>5, <3>2
        <5>. QED BY <1>3, <5>1 DEF FlightOK
      <4>. QED BY <3>2, <4>1, <4>2 DEF FlightOK
    <3>. QED BY <3>1, <3>2
  <2>6. intin' \subseteq Pins
    BY <1>1, <1>2 DEF TypeOK
  <2>. HIDE DEF tm, table
  <2>. QED BY <1>1, <1>2, <1>3, <1>5, <1>6, <1>7, <2>1, <2>3, <2>4, <2>5, <2>6, Serviced
<1>. QED BY <1>10, <1>11, <1>12

\* send_ipi: no interprocessor interrupt has the vector of an exclusive pin.
LEMMA SendIpiKeeps ==
  ASSUME ApicInv, NEW i \in Ipis, send_ipi(i)
  PROVE  ApicInv'
<1>1. UNCHANGED <<intin, irr, ioredtbl, isr, task_priority, extint_pending, dropped>>
  BY DEF send_ipi
<1>2. i.vector \in Vectors /\ i.level \in BOOLEAN
  BY ApicAssumption
<1>3. \A c \in Cpus : IpiSends(i)[c] \subseteq {i.vector}
  BY DEF IpiSends
<1>4. /\ lapic_irr' = [c \in Cpus |-> lapic_irr[c] \union IpiSends(i)[c]]
      /\ tmr' \in [Cpus -> SUBSET Vectors]
      /\ \A c \in Cpus : \A v \in Vectors \ {i.vector} : v \in tmr'[c] <=> v \in tmr[c]
  BY <1>2, <1>3 DEF ApicInv, TypeOK, send_ipi, trigger_irq
<1>5. \A c \in Cpus : intr'[c] <=>
        \/ intr[c]
        \/ ~(IpiSends(i)[c] \subseteq lapic_irr[c]) /\ Ready(c, lapic_irr'[c])
  BY DEF send_ipi
<1>6. lapic_irr' \in [Cpus -> SUBSET Vectors]
  BY <1>2, <1>3, <1>4 DEF ApicInv, TypeOK
<1>7. intr' \in [Cpus -> BOOLEAN]
  BY DEF ApicInv, TypeOK, send_ipi, Ready
<1>8. TypeOK' /\ EntryInv'
  BY <1>1, <1>4, <1>6, <1>7 DEF ApicInv, TypeOK, EntryInv
<1>9. ReadyIsSignalled'
  <2>1. SUFFICES ASSUME NEW k \in Cpus,
                        (\E v \in lapic_irr'[k] : Outranks(k, v)') \/ extint_pending'[k]
                 PROVE  intr'[k]
    BY DEF ReadyIsSignalled
  <2>2. CASE extint_pending'[k]
    BY <1>1, <1>5, <2>2 DEF ApicInv, ReadyIsSignalled
  <2>3. CASE \E v \in lapic_irr'[k] : Outranks(k, v)'
    <3>1. Ready(k, lapic_irr'[k])
      BY <2>3 DEF Ready, Outranks
    <3>2. CASE ~(IpiSends(i)[k] \subseteq lapic_irr[k])
      BY <1>5, <3>1, <3>2
    <3>3. CASE IpiSends(i)[k] \subseteq lapic_irr[k]
      <4>1. lapic_irr'[k] = lapic_irr[k]
        BY <1>4, <3>3
      <4>. QED BY <1>1, <1>5, <2>3, <4>1 DEF ApicInv, ReadyIsSignalled, Outranks
    <3>. QED BY <3>2, <3>3
  <2>. QED BY <2>1, <2>2, <2>3
<1>10. OneHandlerPerClass' /\ LineInv'
  BY <1>1 DEF ApicInv, OneHandlerPerClass, LineInv, LineOK
<1>11. PendingIsSent'
  BY <1>1 DEF ApicInv, PendingIsSent, Targets, Matched, LowestPriority
<1>12. FlightInv'
  <2>1. SUFFICES ASSUME NEW p \in Pins, Exclusive(p), NEW w \in Words[p]
                 PROVE  FlightOK(w.vector, ioredtbl'[p], lapic_irr', isr', tmr', dropped')
    BY DEF FlightInv
  <2>2. FlightOK(w.vector, ioredtbl[p], lapic_irr, isr, tmr, dropped)
    BY <2>1 DEF ApicInv, FlightInv
  <2>3. w.vector \in Vectors \ {i.vector}
    BY <2>1, ApicAssumption DEF Exclusive
  <2>4. \A k \in Cpus : /\ w.vector \in lapic_irr'[k] <=> w.vector \in lapic_irr[k]
                        /\ w.vector \in tmr'[k] <=> w.vector \in tmr[k]
    BY <1>3, <1>4, <2>3
  <2>. QED BY <1>1, <2>2, <2>4 DEF FlightOK
<1>. QED BY <1>8, <1>9, <1>10, <1>11, <1>12 DEF ApicInv

\* INIT: what the processor forgets is recorded as dropped.
LEMMA InitCpuKeeps ==
  ASSUME ApicInv, NEW c \in Cpus, InitCpu(c)
  PROVE  ApicInv'
<1>1. UNCHANGED <<intin, irr, ioredtbl>>
      /\ dropped' = dropped \union (tmr[c] \intersect (lapic_irr[c] \union isr[c]))
  BY DEF InitCpu
<1>2. TypeOK
  BY DEF ApicInv
<1>3. /\ lapic_irr' = [lapic_irr EXCEPT ![c] = {}] /\ isr' = [isr EXCEPT ![c] = {}]
      /\ tmr' = [tmr EXCEPT ![c] = {}] /\ task_priority' = [task_priority EXCEPT ![c] = 0]
      /\ extint_pending' = [extint_pending EXCEPT ![c] = FALSE]
      /\ intr' = [intr EXCEPT ![c] = FALSE]
  BY DEF InitCpu
<1>4. TypeOK'
  BY <1>1, <1>2, <1>3 DEF TypeOK
<1>5. /\ lapic_irr'[c] = {} /\ isr'[c] = {} /\ ~extint_pending'[c]
      /\ \A k \in Cpus : k # c =>
           /\ lapic_irr'[k] = lapic_irr[k] /\ isr'[k] = isr[k] /\ tmr'[k] = tmr[k]
           /\ task_priority'[k] = task_priority[k]
           /\ extint_pending'[k] = extint_pending[k] /\ intr'[k] = intr[k]
  BY <1>2, <1>3 DEF TypeOK
<1>6. EntryInv' /\ LineInv'
  BY <1>1 DEF ApicInv, EntryInv, LineInv, LineOK
<1>7. ReadyIsSignalled'
  BY <1>5 DEF ApicInv, ReadyIsSignalled, Outranks
<1>8. OneHandlerPerClass'
  BY <1>5 DEF ApicInv, OneHandlerPerClass
<1>9. PendingIsSent'
  BY <1>1, <1>2, TargetsStay DEF ApicInv, PendingIsSent, TypeOK
<1>10. FlightInv'
  <2>1. SUFFICES ASSUME NEW p \in Pins, Exclusive(p), NEW w \in Words[p]
                 PROVE  FlightOK(w.vector, ioredtbl'[p], lapic_irr', isr', tmr', dropped')
    BY DEF FlightInv
  <2>2. FlightOK(w.vector, ioredtbl[p], lapic_irr, isr, tmr, dropped)
    BY <2>1 DEF ApicInv, FlightInv
  <2>3. \A k \in Cpus : w.vector \in lapic_irr'[k] \union isr'[k] =>
          /\ k # c /\ w.vector \in tmr'[k]
          /\ w.vector \in lapic_irr[k] \union isr[k]
    BY <1>5, <2>2 DEF FlightOK
  <2>4. \A k \in Cpus : w.vector \in lapic_irr[k] \union isr[k] =>
          \/ w.vector \in dropped'
          \/ w.vector \in lapic_irr'[k] \union isr'[k]
    BY <1>1, <1>5, <2>2 DEF FlightOK
  <2>5. \A k \in Cpus : ~(w.vector \in lapic_irr'[k] /\ w.vector \in isr'[k])
    BY <1>5, <2>2 DEF FlightOK
  <2>6. w.vector \in dropped => w.vector \in dropped'
    BY <1>1
  <2>. QED BY <1>1, <2>2, <2>3, <2>4, <2>5, <2>6 DEF FlightOK
<1>. QED BY <1>4, <1>6, <1>7, <1>8, <1>9, <1>10 DEF ApicInv

\* The state after reset.
LEMMA InitHolds == Init => ApicInv
<1>1. SUFFICES ASSUME Init PROVE ApicInv
  OBVIOUS
<1>2. ResetEntry \in EntryType /\ ResetDest \in Destination
  <2>1. 0 \in Cpus
    BY ApicAssumption DEF Cpus
  <2>. QED BY <2>1 DEF ResetEntry, ResetDest, EntryType, Destination, Modes
<1>3. \A p \in Pins : ioredtbl[p] = ResetEntry
  BY <1>1 DEF Init
<1>4. TypeOK
  <2>1. 0 \in 0 .. 255
    OBVIOUS
  <2>. QED BY <1>1, <1>2, <2>1 DEF Init, TypeOK, ResetEntry
<1>5. EntryInv
  <2>1. /\ ResetEntry.vector = 0 /\ ResetEntry.masked /\ ~ResetEntry.level
        /\ ~ResetEntry.remote_irr /\ ResetEntry.dest = ResetDest
    BY DEF ResetEntry
  <2>. QED BY <1>2, <1>3, <2>1 DEF EntryInv, EntryOK
<1>6. ReadyIsSignalled /\ OneHandlerPerClass /\ PendingIsSent
  BY <1>1 DEF Init, ReadyIsSignalled, OneHandlerPerClass, PendingIsSent
<1>7. LineInv
  BY <1>1, <1>3 DEF Init, LineInv, LineOK, ResetEntry
<1>8. FlightInv
  BY <1>1, <1>3 DEF Init, FlightInv, FlightOK, ResetEntry
<1>. QED BY <1>4, <1>5, <1>6, <1>7, <1>8 DEF ApicInv

\* A hardware reset leads to the initial state.
LEMMA ResetKeeps == Reset => ApicInv'
<1>1. SUFFICES ASSUME Reset PROVE ApicInv'
  OBVIOUS
<1>2. Init'
  BY <1>1 DEF Reset, Init
<1>. QED BY <1>2, InitHolds, PTL

\* Every step preserves the invariant.
LEMMA StepKeeps ==
  ASSUME ApicInv, [Next]_vars
  PROVE  ApicInv'
<1>1. ASSUME NEW p \in Pins, RaiseLine(p) \/ LowerLine(p)
      PROVE  ApicInv'
  BY <1>1, RaiseLineKeeps, LowerLineKeeps
<1>2. ASSUME NEW p \in Pins, NEW w \in Words[p], WriteLo(p, w)
      PROVE  ApicInv'
  BY <1>2, WriteLoKeeps
<1>3. ASSUME NEW p \in Pins, NEW d \in Dests[p], WriteHi(p, d)
      PROVE  ApicInv'
  BY <1>3, WriteHiKeeps
<1>4. ASSUME NEW c \in Cpus, AcknowledgeExtInt(c) \/ AcknowledgeSpurious(c) \/ InitCpu(c)
      PROVE  ApicInv'
  BY <1>4, AcknowledgeExtIntKeeps, AcknowledgeSpuriousKeeps, InitCpuKeeps
<1>5. ASSUME NEW c \in Cpus, NEW v \in Vectors,
             AcknowledgeInt(c, v) \/ receive_EOI(c, v) \/ receive_SEOI(c, v)
      PROVE  ApicInv'
  BY <1>5, AcknowledgeIntKeeps, EndOfInterruptKeeps DEF receive_EOI, receive_SEOI
<1>6. ASSUME NEW c \in Cpus, NEW t \in Priorities, set_tpr(c, t)
      PROVE  ApicInv'
  BY <1>6, SetTprKeeps
<1>7. ASSUME NEW i \in Ipis, send_ipi(i)
      PROVE  ApicInv'
  BY <1>7, SendIpiKeeps
<1>8. CASE Reset
  BY <1>8, ResetKeeps
<1>9. CASE UNCHANGED vars
  BY <1>9 DEF vars, ApicInv, TypeOK, EntryInv, ReadyIsSignalled, Outranks,
              OneHandlerPerClass, LineInv, PendingIsSent, Targets, Matched,
              LowestPriority, FlightInv
<1>. QED BY <1>1, <1>2, <1>3, <1>4, <1>5, <1>6, <1>7, <1>8, <1>9 DEF Next

-----------------------------------------------------------------------------
(* Theorems. *)

\* The inductive invariant holds in every reachable state.
THEOREM ApicInvariant == Spec => []ApicInv
<1>1. Init => ApicInv
  BY InitHolds
<1>2. ApicInv /\ [Next]_vars => ApicInv'
  BY StepKeeps
<1>. QED BY <1>1, <1>2, PTL DEF Spec

\* The registers of both APICs keep their types: an entry that is edge
\* triggered never waits for an EOI (set_lo_part).
THEOREM ApicTypes == Spec => []TypeOK
<1>1. ApicInv => TypeOK
  BY DEF ApicInv
<1>. QED BY <1>1, ApicInvariant, PTL

\* No wake-up is lost between trigger_irq, acknowledge_int, the EOI and
\* set_tpr.
THEOREM NoLostWakeup == Spec => []ReadyIsSignalled
<1>1. ApicInv => ReadyIsSignalled
  BY DEF ApicInv
<1>. QED BY <1>1, ApicInvariant, PTL

\* acknowledge_int nests handlers by priority class.
THEOREM HandlersNest == Spec => []OneHandlerPerClass
<1>1. ApicInv => OneHandlerPerClass
  BY DEF ApicInv
<1>. QED BY <1>1, ApicInvariant, PTL

\* The request of a level triggered pin follows its line through every
\* set_irq_level and every write to the entry.
THEOREM LevelFollows == Spec => []LevelFollowsLine
<1>1. ApicInv => LevelFollowsLine
  BY DEF ApicInv, LineInv, LineOK, LevelFollowsLine
<1>. QED BY <1>1, ApicInvariant, PTL

\* service_ioapic leaves nothing that can be delivered, and no operation
\* makes something deliverable without calling it.
THEOREM PendingSent == Spec => []PendingIsSent
<1>1. ApicInv => PendingIsSent
  BY DEF ApicInv
<1>. QED BY <1>1, ApicInvariant, PTL

\* An entry of an exclusive pin that waits for an EOI will get it from the
\* processor that has its vector.
THEOREM RemoteIrrCovered == Spec => []RemoteIrrEnds
<1>1. ApicInv => RemoteIrrEnds
  <2>1. SUFFICES ASSUME ApicInv, NEW p \in Pins, Exclusive(p), ioredtbl[p].remote_irr
                 PROVE  LET v == ioredtbl[p].vector
                        IN  \/ \E c \in Cpus : /\ v \in tmr[c]
                                               /\ v \in lapic_irr[c] \union isr[c]
                            \/ v \in dropped
    BY DEF RemoteIrrEnds
  <2>2. PICK w \in Words[p] : ioredtbl[p].vector = w.vector
    BY <2>1 DEF ApicInv, EntryInv, EntryOK
  <2>3. FlightOK(w.vector, ioredtbl[p], lapic_irr, isr, tmr, dropped)
    BY <2>1 DEF ApicInv, FlightInv
  <2>. QED BY <2>1, <2>2, <2>3 DEF FlightOK
<1>. QED BY <1>1, ApicInvariant, PTL
=============================================================================
