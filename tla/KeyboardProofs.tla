--------------------------- MODULE KeyboardProofs ---------------------------
(***************************************************************************)
(* Proofs about Keyboard, for all sizes of the queues and all commands.    *)
(***************************************************************************)
EXTENDS Keyboard, SequenceTheorems, TLAPS

States == [outb : BOOLEAN, auxb : BOOLEAN,
           kbd_clock_enabled : BOOLEAN, aux_clock_enabled : BOOLEAN,
           allow_irq1 : BOOLEAN, allow_irq12 : BOOLEAN,
           irq1_requested : BOOLEAN, irq12_requested : BOOLEAN,
           timer_pending : BOOLEAN, timer_active : BOOLEAN,
           expecting_port60h : {"no", "command_byte", "mouse", "kbd_outb", "aux_outb"},
           bat_in_progress : BOOLEAN, scanning_enabled : BOOLEAN,
           mouse_enable : BOOLEAN, kbd_initialized : BOOLEAN,
           controller_Q : Seq({"kbd", "mouse"}),
           kbd_elements : 0 .. KbdElements, mouse_elements : 0 .. MouseBuffSize,
           delayed : 0 .. MotionLimit]

\* A state of the controller of the right types.
Fits(k) == k \in States /\ Len(k.controller_Q) <= ControllerQSize

\* The timer runs while there is something to do.
Armed(k) == k.timer_pending \/ k.irq1_requested \/ k.irq12_requested => k.timer_active

\* What may be sent has its transfer requested.
Sending(k) ==
  ~k.outb =>
    /\ k.kbd_elements > 0 /\ k.kbd_clock_enabled => k.timer_pending
    /\ k.mouse_elements > 0 /\ k.aux_clock_enabled => k.timer_pending
    /\ k.delayed > 0 /\ k.mouse_elements = 0 => k.timer_pending
    /\ k.controller_Q = << >> /\ ~k.auxb

\* The offered byte is announced, the lines being raised.
Told(k, lines) ==
  /\ k.outb /\ k.auxb /\ k.allow_irq12 => k.irq12_requested \/ 12 \in lines
  /\ k.outb /\ ~k.auxb /\ k.allow_irq1 => k.irq1_requested \/ 1 \in lines

Sound(k, lines) == Fits(k) /\ Armed(k) /\ Sending(k) /\ Told(k, lines)

\* The inductive invariant.
KInv == Sound(s, irq_lines) /\ irq_lines \subseteq {1, 12}

-----------------------------------------------------------------------------
LEMMA Sizes ==
  /\ KbdElements \in Nat \ {0} /\ MouseBuffSize \in Nat \ {0}
  /\ ControllerQSize \in Nat \ {0} /\ PacketBytes \in Nat \ {0} /\ MotionLimit \in Nat \ {0}
BY KeyboardAssumption

LEMMA RequestedLines ==
  ASSUME NEW k
  PROVE  /\ Requested(k) # {} <=> k.irq1_requested \/ k.irq12_requested
         /\ 1 \in Requested(k) <=> k.irq1_requested
         /\ 12 \in Requested(k) <=> k.irq12_requested
         /\ Requested(k) \subseteq {1, 12}
BY DEF Requested

\* A timer that runs is all that is missing.
LEMMA Started ==
  ASSUME NEW k, Fits(k), Sending(k), NEW lines, Told(k, lines)
  PROVE  Sound(start_timer(k), lines)
BY DEF Sound, Fits, States, Sending, Armed, Told, start_timer

\* The transfer is requested.
LEMMA Activated ==
  ASSUME NEW k, Fits(k), NEW lines, Told(k, lines),
         ~k.outb => k.controller_Q = << >> /\ ~k.auxb
  PROVE  Sound(activate_timer(k), lines)
BY DEF Sound, Fits, States, Sending, Armed, Told, activate_timer

LEMMA OfferKbdKeeps ==
  ASSUME NEW k, Fits(k), NEW lines
  PROVE  LET o == OfferKbd(k) IN
         /\ Fits(o) /\ Sending(o) /\ o.outb
         /\ ~k.auxb \/ (k.outb /\ Told(k, lines)) => Told(o, lines)
BY DEF OfferKbd, Fits, States, Sending, Told

LEMMA OfferAuxKeeps ==
  ASSUME NEW k, Fits(k), NEW lines
  PROVE  LET o == OfferAux(k) IN
         Fits(o) /\ Sending(o) /\ Told(o, lines) /\ o.outb
BY DEF OfferAux, Fits, States, Sending, Told

LEMMA OfferKeeps ==
  ASSUME NEW k, Fits(k), NEW source \in {"kbd", "mouse"}, NEW lines
  PROVE  LET o == Offer(k, source) IN
         /\ Fits(o) /\ Sending(o) /\ Told(o, lines) /\ o.outb
         /\ o.controller_Q = k.controller_Q
BY DEF Fits, States, Sending, Told, Offer, OfferAux, OfferKbd

\* The queue of the controller behind an offered byte.
LEMMA Queued ==
  ASSUME NEW k, NEW lines, Sound(k, lines), NEW q \in Seq({"kbd", "mouse"}),
         Len(q) <= ControllerQSize, k.outb \/ q = << >>
  PROVE  Sound([k EXCEPT !.controller_Q = q], lines)
BY DEF Sound, Fits, States, Sending, Armed, Told

\* controller_enQ never fills the queue beyond its size, and never leaves a
\* byte in it while none is offered.
LEMMA ControllerEnQKeeps ==
  ASSUME NEW k, NEW lines, Fits(k), NEW source \in {"kbd", "mouse"}, NEW n \in Nat,
         k.outb \/ n = 0 => Sound(k, lines), ~k.outb => k.controller_Q = << >>
  PROVE  Sound(controller_enQ(k, source, n), lines)
<1> DEFINE start == IF k.outb \/ n = 0 THEN k ELSE start_timer(Offer(k, source))
           waiting == IF k.outb \/ n = 0 THEN n ELSE n - 1
           room == ControllerQSize - Len(k.controller_Q)
           taken == IF waiting < room THEN waiting ELSE room
           more == [i \in 1 .. taken |-> source]
           q == k.controller_Q \o more
<1>1. Sound(start, lines) /\ start.controller_Q = k.controller_Q /\ (start.outb \/ n = 0)
  <2>1. CASE k.outb \/ n = 0
    BY <2>1
  <2>2. CASE ~(k.outb \/ n = 0)
    <3>2. Sound(start_timer(Offer(k, source)), lines)
      BY OfferKeeps, Started
    <3>3. /\ start_timer(Offer(k, source)).controller_Q = k.controller_Q
          /\ start_timer(Offer(k, source)).outb
      BY OfferKeeps DEF start_timer, Fits, States
    <3> QED BY <2>2, <3>2, <3>3
  <2> QED BY <2>1, <2>2
<1>2. k.controller_Q \in Seq({"kbd", "mouse"}) /\ Len(k.controller_Q) <= ControllerQSize
  BY DEF Fits, States
<1>3. room \in Nat /\ waiting \in Nat
  BY <1>2, Sizes
<1>4. taken \in Nat /\ taken <= room /\ (n = 0 => taken = 0)
  BY <1>3
<1> HIDE DEF taken, waiting
<1>5. more \in Seq({"kbd", "mouse"}) /\ Len(more) = taken
  BY <1>4
<1>6. q \in Seq({"kbd", "mouse"}) /\ Len(q) <= ControllerQSize
  BY <1>2, <1>4, <1>5, Sizes
<1>7. start.outb \/ q = << >>
  <2>1. CASE start.outb
    BY <2>1
  <2>2. CASE ~start.outb
    <3>1. taken = 0 /\ k.controller_Q = << >>
      BY <1>1, <1>4, <2>2 DEF Sound, Sending
    <3> QED BY <1>6, <1>5, <3>1
  <2> QED BY <2>1, <2>2
<1>8. controller_enQ(k, source, n) = [start EXCEPT !.controller_Q = q]
  <2>1. start \in States
    BY <1>1 DEF Sound, Fits
  <2> QED BY <1>1, <2>1 DEF controller_enQ, taken, waiting
<1> HIDE DEF start, q
<1> QED BY <1>1, <1>6, <1>7, <1>8, Queued

LEMMA KbdEnQKeeps ==
  ASSUME NEW k, NEW lines, Sound(k, lines), NEW n \in Nat
  PROVE  Sound(kbd_enQ(k, n), lines)
<1> DEFINE room == KbdElements - k.kbd_elements
           taken == IF n < room THEN n ELSE room
           next == [k EXCEPT !.kbd_elements = k.kbd_elements + taken]
<1>1. k \in States /\ k.kbd_elements \in 0 .. KbdElements
  BY DEF Sound, Fits, States
<1>2. taken \in Nat /\ k.kbd_elements + taken \in 0 .. KbdElements
  BY <1>1, Sizes
<1>3. kbd_enQ(k, n) = IF taken > 0 /\ ~k.outb /\ k.kbd_clock_enabled
                      THEN activate_timer(next) ELSE next
  BY DEF kbd_enQ
<1> HIDE DEF taken
<1>4. Fits(next) /\ Told(next, lines) /\ (~next.outb => next.controller_Q = << >> /\ ~next.auxb)
  BY <1>1, <1>2 DEF Sound, Fits, States, Sending, Told
<1>5. CASE taken > 0 /\ ~k.outb /\ k.kbd_clock_enabled
  BY <1>3, <1>4, <1>5, Activated
<1>6. CASE ~(taken > 0 /\ ~k.outb /\ k.kbd_clock_enabled)
  <2>1. Sending(next) /\ Armed(next)
    BY <1>1, <1>2, <1>6 DEF Sound, Sending, States, Armed
  <2> QED BY <1>3, <1>4, <1>6, <2>1 DEF Sound
<1> QED BY <1>5, <1>6

LEMMA KbdEnQImmKeeps ==
  ASSUME NEW k, NEW lines, Sound(k, lines)
  PROVE  Sound(kbd_enQ_imm(k), lines)
<1>1. Fits(k) /\ (~k.auxb \/ (k.outb /\ Told(k, lines)))
  BY DEF Sound, Sending
<1>2. Sound(start_timer(OfferKbd(k)), lines)
  BY <1>1, OfferKbdKeeps, Started
<1> QED BY <1>2 DEF kbd_enQ_imm

\* A packet is queued only where there is room for all of it.  Motion of zero
\* is what mouse_enQ_packet needs when there is none.
LEMMA MousePacketKeeps ==
  ASSUME NEW k, NEW lines, Fits(k), Armed(k), Told(k, lines),
         ~k.outb =>
           /\ k.kbd_elements > 0 /\ k.kbd_clock_enabled => k.timer_pending
           /\ k.mouse_elements > 0 /\ k.aux_clock_enabled => k.timer_pending
           /\ k.controller_Q = << >> /\ ~k.auxb,
         k.delayed > 0 /\ k.mouse_elements = 0 /\ ~k.outb => k.timer_pending
  PROVE  Sound(mouse_enQ_packet(k), lines)
<1> DEFINE next == [k EXCEPT !.mouse_elements = k.mouse_elements + PacketBytes]
<1>1. k \in States /\ k.mouse_elements \in 0 .. MouseBuffSize
  BY DEF Fits, States
<1>2. CASE k.mouse_elements + PacketBytes >= MouseBuffSize
  BY <1>2 DEF mouse_enQ_packet, Sound, Sending
<1>3. CASE ~(k.mouse_elements + PacketBytes >= MouseBuffSize)
  <2>1. k.mouse_elements + PacketBytes \in 1 .. MouseBuffSize
    BY <1>1, <1>3, Sizes
  <2>2. Fits(next) /\ Told(next, lines) /\ (~next.outb => next.controller_Q = << >> /\ ~next.auxb)
    BY <1>1, <2>1 DEF Fits, States, Told
  <2>3. mouse_enQ_packet(k) = IF ~k.outb /\ k.aux_clock_enabled THEN activate_timer(next) ELSE next
    BY <1>3 DEF mouse_enQ_packet
  <2>4. CASE ~k.outb /\ k.aux_clock_enabled
    BY <2>2, <2>3, <2>4, Activated
  <2>5. CASE ~(~k.outb /\ k.aux_clock_enabled)
    <3>1. Sending(next) /\ Armed(next)
      BY <1>1, <2>1, <2>5 DEF Sending, States, Armed
    <3> QED BY <2>2, <2>3, <2>5, <3>1 DEF Sound
  <2> QED BY <2>4, <2>5
<1> QED BY <1>2, <1>3

LEMMA ClocksKeep ==
  ASSUME NEW k, NEW lines, Fits(k), Armed(k), Sending(k), NEW value \in BOOLEAN
  PROVE  /\ LET c == set_kbd_clock_enable(k, value)
            IN  /\ Fits(c) /\ Armed(c) /\ Sending(c)
                /\ c.outb = k.outb /\ c.auxb = k.auxb
                /\ c.allow_irq1 = k.allow_irq1 /\ c.allow_irq12 = k.allow_irq12
                /\ c.irq1_requested = k.irq1_requested
                /\ c.irq12_requested = k.irq12_requested
         /\ LET c == set_aux_clock_enable(k, value)
            IN  /\ Fits(c) /\ Armed(c) /\ Sending(c)
                /\ c.outb = k.outb /\ c.auxb = k.auxb
                /\ c.allow_irq1 = k.allow_irq1 /\ c.allow_irq12 = k.allow_irq12
                /\ c.irq1_requested = k.irq1_requested
                /\ c.irq12_requested = k.irq12_requested
BY DEF Fits, States, Armed, Sending, set_kbd_clock_enable, set_aux_clock_enable, activate_timer

\* Motion d waits or is reported; more than a packet reports is waiting only
\* when some waited before.
LEMMA MotionKeeps ==
  ASSUME NEW k, NEW lines, Sound(k, lines), NEW d \in 0 .. MotionLimit + 1,
         NEW force \in BOOLEAN, d > MotionLimit => force /\ k.delayed > 0
  PROVE  Sound(create_mouse_packet([k EXCEPT !.delayed = d], force), lines)
<1> DEFINE moved == [k EXCEPT !.delayed = d]
           left == IF d > MotionLimit THEN d - MotionLimit ELSE 0
           next == [k EXCEPT !.delayed = left]
<1>1. k \in States /\ d \in Nat /\ left \in 0 .. MotionLimit
  BY Sizes DEF Sound, Fits
<1>2. moved.delayed = d /\ moved.mouse_elements = k.mouse_elements
      /\ [moved EXCEPT !.delayed = left] = next
  BY <1>1 DEF States
<1>3. CASE ~force /\ (k.mouse_elements > 0 \/ d = 0)
  <2>1. create_mouse_packet(moved, force) = moved
    BY <1>2, <1>3 DEF create_mouse_packet
  <2>2. Sound(moved, lines)
    <3>1. d \in 0 .. MotionLimit /\ (d > 0 => k.mouse_elements > 0)
      BY <1>1, <1>3, Sizes
    <3>2. Fits(moved) /\ Armed(moved) /\ Told(moved, lines)
      BY <3>1 DEF Sound, Fits, States, Armed, Told
    <3>3. Sending(moved)
      BY <1>1, <3>1 DEF Sound, States, Sending
    <3> QED BY <3>2, <3>3 DEF Sound
  <2> QED BY <2>1, <2>2
<1>4. CASE ~(~force /\ (k.mouse_elements > 0 \/ d = 0))
  <2>1. create_mouse_packet(moved, force) = mouse_enQ_packet(next)
    <3>1. ~(~force /\ (moved.mouse_elements > 0 \/ moved.delayed = 0))
      BY <1>2, <1>4
    <3>2. [moved EXCEPT !.delayed = IF @ > MotionLimit THEN @ - MotionLimit ELSE 0] = next
      BY <1>1, <1>2
    <3> HIDE DEF moved, next
    <3> QED BY <3>1, <3>2 DEF create_mouse_packet
  <2>2. left > 0 => k.delayed > 0
    OBVIOUS
  <2> HIDE DEF left
  <2>3. /\ Fits(next) /\ Armed(next) /\ Told(next, lines)
        /\ ~next.outb =>
           /\ next.kbd_elements > 0 /\ next.kbd_clock_enabled => next.timer_pending
           /\ next.mouse_elements > 0 /\ next.aux_clock_enabled => next.timer_pending
           /\ next.controller_Q = << >> /\ ~next.auxb
        /\ next.delayed > 0 /\ next.mouse_elements = 0 /\ ~next.outb => next.timer_pending
    BY <1>1, <2>2 DEF Sound, Fits, States, Armed, Sending, Told
  <2> HIDE DEF next
  <2> QED BY <2>1, <2>3, MousePacketKeeps
<1> QED BY <1>3, <1>4

LEMMA SelfTestKeeps ==
  ASSUME NEW k, NEW lines, Sound(k, lines)
  PROVE  Sound(SelfTest(k), lines)
<1>1. CASE k.kbd_initialized
  <2>1. Fits(k) /\ (~k.outb => k.controller_Q = << >>)
    BY DEF Sound, Sending
  <2>2. Sound(controller_enQ(k, "kbd", 1), lines)
    BY <2>1, ControllerEnQKeeps
  <2> QED BY <1>1, <2>2 DEF SelfTest
<1>2. CASE ~k.kbd_initialized
  <2>1. Fits(Emptied(k)) /\ ~Emptied(k).outb /\ Emptied(k).controller_Q = << >>
    <3>1. << >> \in Seq({"kbd", "mouse"}) /\ Len(<< >>) <= ControllerQSize
      BY Sizes
    <3>2. /\ Emptied(k) \in States /\ ~Emptied(k).outb
          /\ Emptied(k).controller_Q = << >>
      BY <3>1 DEF Sound, Fits, States, Emptied
    <3> QED BY <3>1, <3>2 DEF Fits
  <2>2. Sound(controller_enQ(Emptied(k), "kbd", 1), lines)
    <3> DEFINE e == Emptied(k)
    <3>1. Fits(e) /\ (e.outb \/ 1 = 0 => Sound(e, lines)) /\ (~e.outb => e.controller_Q = << >>)
      BY <2>1
    <3> HIDE DEF e
    <3>2. Sound(controller_enQ(e, "kbd", 1), lines)
      BY <3>1, ControllerEnQKeeps
    <3> QED BY <3>2 DEF e
  <2> QED BY <1>2, <2>1, <2>2 DEF SelfTest
<1> QED BY <1>1, <1>2

\* What a command expects next and the flags that only gate the user's input.
LEMMA FlagsKeep ==
  ASSUME NEW k, NEW lines, Sound(k, lines),
         NEW e \in {"no", "command_byte", "mouse", "kbd_outb", "aux_outb"},
         NEW a \in BOOLEAN, NEW b \in BOOLEAN
  PROVE  /\ Sound([k EXCEPT !.expecting_port60h = e], lines)
         /\ Sound([k EXCEPT !.expecting_port60h = e, !.mouse_enable = a], lines)
         /\ Sound([k EXCEPT !.bat_in_progress = a, !.scanning_enabled = b], lines)
         /\ Sound([k EXCEPT !.kbd_elements = 0], lines)
<1> USE DEF Sound, Fits, States, Armed, Sending, Told
<1>1. Sound([k EXCEPT !.expecting_port60h = e], lines)
  OBVIOUS
<1>2. Sound([k EXCEPT !.expecting_port60h = e, !.mouse_enable = a], lines)
  OBVIOUS
<1>3. Sound([k EXCEPT !.bat_in_progress = a, !.scanning_enabled = b], lines)
  OBVIOUS
<1>4. Sound([k EXCEPT !.kbd_elements = 0], lines)
  BY Sizes
<1> QED BY <1>1, <1>2, <1>3, <1>4

-----------------------------------------------------------------------------
(* The actions. *)

LEMMA ReadDataKeeps == KInv /\ ReadData => KInv'
<1> SUFFICES ASSUME KInv, ReadData PROVE KInv'
  OBVIOUS
<1> DEFINE read == IF s.auxb
                   THEN [s EXCEPT !.outb = FALSE, !.auxb = FALSE, !.irq12_requested = FALSE]
                   ELSE [s EXCEPT !.outb = FALSE, !.irq1_requested = FALSE,
                                  !.bat_in_progress = FALSE]
           next == IF s.controller_Q # << >> THEN controller_deQ(read) ELSE read
<1>1. s \in States /\ Len(s.controller_Q) <= ControllerQSize
  BY DEF KInv, Sound, Fits
<1>2. /\ Fits(read) /\ ~read.outb /\ ~read.auxb
      /\ read.controller_Q = s.controller_Q
  BY <1>1 DEF Fits, States
<1>3. s' = activate_timer(next)
  BY DEF ReadData
<1>4. irq_lines' \subseteq {1, 12}
  BY DEF ReadData, KInv
<1> HIDE DEF read
<1>5. Fits(next) /\ Told(next, irq_lines') /\ (~next.outb => next.controller_Q = << >> /\ ~next.auxb)
  <2>1. CASE s.controller_Q = << >>
    BY <1>2, <2>1 DEF Told
  <2>2. CASE s.controller_Q # << >>
    <3> DEFINE shorter == [read EXCEPT !.controller_Q = Tail(read.controller_Q)]
               source == Head(read.controller_Q)
    <3>1. read.controller_Q \in Seq({"kbd", "mouse"}) /\ read.controller_Q # << >>
          /\ Len(read.controller_Q) <= ControllerQSize
      BY <1>2, <2>2 DEF Fits, States
    <3>2. /\ source \in {"kbd", "mouse"}
          /\ Tail(read.controller_Q) \in Seq({"kbd", "mouse"})
          /\ Len(Tail(read.controller_Q)) <= ControllerQSize
      BY <3>1, Sizes
    <3>3. Fits(shorter)
      BY <1>2, <3>2 DEF Fits, States
    <3>4. next = Offer(shorter, source)
      BY <2>2 DEF controller_deQ
    <3> HIDE DEF shorter, source
    <3> QED BY <3>2, <3>3, <3>4, OfferKeeps
  <2> QED BY <2>1, <2>2
<1> HIDE DEF next
<1>6. Sound(s', irq_lines')
  BY <1>3, <1>5, Activated
<1> QED BY <1>4, <1>6 DEF KInv

LEMMA WriteControlKeeps ==
  ASSUME KInv, NEW c \in Controls, WriteControl(c)
  PROVE  KInv'
<1> DEFINE k == [s EXCEPT !.expecting_port60h = "no"]
<1>1. Sound(s, irq_lines) /\ irq_lines' = irq_lines
  BY DEF KInv, WriteControl
<1>2. Sound(k, irq_lines) /\ k \in States
  BY <1>1, FlagsKeep DEF Sound, Fits
<1>3. \/ s' = k
      \/ s' = controller_enQ(k, "kbd", 1)
      \/ s' = SelfTest(k)
      \/ \E value \in BOOLEAN : s' = set_aux_clock_enable(k, value)
      \/ \E value \in BOOLEAN : s' = set_kbd_clock_enable(k, value)
      \/ \E e \in {"command_byte", "mouse", "kbd_outb", "aux_outb"} :
           s' = [k EXCEPT !.expecting_port60h = e]
  <2> HIDE DEF k
  <2>1. s' = CASE c = "get_command_byte" -> IF k.outb THEN k ELSE controller_enQ(k, "kbd", 1)
               [] c = "test" -> controller_enQ(k, "kbd", 1)
               [] c = "self_test" -> SelfTest(k)
               [] c = "disable_aux" -> set_aux_clock_enable(k, FALSE)
               [] c = "enable_aux" -> set_aux_clock_enable(k, TRUE)
               [] c = "disable_kbd" -> set_kbd_clock_enable(k, FALSE)
               [] c = "enable_kbd" -> set_kbd_clock_enable(k, TRUE)
               [] c \in {"command_byte", "mouse", "kbd_outb", "aux_outb"} ->
                    [k EXCEPT !.expecting_port60h = c]
               [] OTHER -> k
    BY DEF WriteControl, k
  <2>2. CASE c \in {"command_byte", "mouse", "kbd_outb", "aux_outb"}
    BY <2>1, <2>2
  <2>3. CASE c \in {"get_command_byte", "test", "self_test"}
    BY <2>1, <2>3
  <2>4. CASE c \in {"disable_aux", "enable_aux", "disable_kbd", "enable_kbd"}
    BY <2>1, <2>4
  <2>5. CASE c \notin {"command_byte", "mouse", "kbd_outb", "aux_outb", "get_command_byte", "test",
                      "self_test", "disable_aux", "enable_aux", "disable_kbd", "enable_kbd"}
    BY <2>1, <2>5
  <2> QED BY <2>2, <2>3, <2>4, <2>5
<1> HIDE DEF k
<1>4. Sound(controller_enQ(k, "kbd", 1), irq_lines)
  <2>1. Fits(k) /\ (~k.outb => k.controller_Q = << >>)
    BY <1>2 DEF Sound, Sending
  <2> QED BY <1>2, <2>1, ControllerEnQKeeps
<1>5. ASSUME NEW value \in BOOLEAN
      PROVE  /\ Sound(set_aux_clock_enable(k, value), irq_lines)
             /\ Sound(set_kbd_clock_enable(k, value), irq_lines)
  BY <1>2, ClocksKeep DEF Sound, Told
<1>6. Sound(s', irq_lines)
  <2>1. Sound(SelfTest(k), irq_lines)
    BY <1>2, SelfTestKeeps
  <2>2. \A e \in {"command_byte", "mouse", "kbd_outb", "aux_outb"} :
          Sound([k EXCEPT !.expecting_port60h = e], irq_lines)
    BY <1>2, FlagsKeep
  <2>3. CASE \E e \in {"command_byte", "mouse", "kbd_outb", "aux_outb"} :
               s' = [k EXCEPT !.expecting_port60h = e]
    <3>1. PICK e \in {"command_byte", "mouse", "kbd_outb", "aux_outb"} :
            s' = [k EXCEPT !.expecting_port60h = e]
      BY <2>3
    <3> QED BY <2>2, <3>1
  <2> QED BY <1>2, <1>3, <1>4, <1>5, <2>1, <2>3
<1> QED BY <1>1, <1>6 DEF KInv

\* The command byte changes which interrupts are allowed, and announces the
\* offered byte again.
LEMMA WriteCommandByteKeeps ==
  ASSUME KInv, NEW parts, WriteCommandByte(parts)
  PROVE  KInv'
<1> DEFINE a1 == "irq1" \in parts
           a12 == "irq12" \in parts
           irqs == [s EXCEPT !.expecting_port60h = "no", !.allow_irq1 = a1, !.allow_irq12 = a12]
           c1 == "kbd_clock" \in parts
           c12 == "aux_clock" \in parts
           kbd == set_kbd_clock_enable(irqs, c1)
           clocks == set_aux_clock_enable(kbd, c12)
           r12 == clocks.irq12_requested \/ (clocks.allow_irq12 /\ clocks.auxb)
           r1 == clocks.irq1_requested \/
                 (~(clocks.allow_irq12 /\ clocks.auxb) /\ clocks.allow_irq1 /\ clocks.outb)
           next == [clocks EXCEPT !.irq12_requested = r12, !.irq1_requested = r1]
<1>1. Fits(s) /\ Armed(s) /\ Sending(s) /\ irq_lines' = irq_lines
  BY DEF KInv, Sound, WriteCommandByte
<1>2. a1 \in BOOLEAN /\ a12 \in BOOLEAN /\ c1 \in BOOLEAN /\ c12 \in BOOLEAN
  OBVIOUS
<1> HIDE DEF a1, a12, c1, c12
<1>3. Fits(irqs) /\ Armed(irqs) /\ Sending(irqs)
  BY <1>1, <1>2 DEF Fits, States, Armed, Sending
<1>4. s' = IF next.irq1_requested \/ next.irq12_requested THEN start_timer(next) ELSE next
  BY DEF WriteCommandByte, a1, a12, c1, c12
<1> HIDE DEF irqs
<1>5. Fits(kbd) /\ Armed(kbd) /\ Sending(kbd)
  BY <1>2, <1>3, ClocksKeep
<1> HIDE DEF kbd
<1>6. Fits(clocks) /\ Armed(clocks) /\ Sending(clocks)
  BY <1>2, <1>5, ClocksKeep
<1> HIDE DEF clocks
<1>7. r1 \in BOOLEAN /\ r12 \in BOOLEAN
  BY <1>6 DEF Fits, States
<1>8. /\ clocks.outb /\ clocks.auxb /\ clocks.allow_irq12 => r12
      /\ clocks.outb /\ ~clocks.auxb /\ clocks.allow_irq1 => r1
  OBVIOUS
<1> HIDE DEF r1, r12
<1>9. /\ Fits(next) /\ Sending(next) /\ Told(next, irq_lines)
      /\ ~next.irq1_requested /\ ~next.irq12_requested => ~r1 /\ ~r12
      /\ next.timer_pending = clocks.timer_pending /\ next.timer_active = clocks.timer_active
  BY <1>6, <1>7, <1>8 DEF Fits, States, Sending, Told
<1> HIDE DEF next
<1>10. CASE next.irq1_requested \/ next.irq12_requested
  BY <1>1, <1>4, <1>9, <1>10, Started DEF KInv
<1>11. CASE ~(next.irq1_requested \/ next.irq12_requested)
  <2>1. Armed(next)
    BY <1>6, <1>9, <1>11 DEF Armed
  <2> QED BY <1>1, <1>4, <1>9, <1>11, <2>1 DEF KInv, Sound
<1> QED BY <1>10, <1>11

LEMMA WriteOutputBufferKeeps ==
  ASSUME KInv, NEW source \in {"kbd", "mouse"}, WriteOutputBuffer(source)
  PROVE  KInv'
<1> DEFINE k == [s EXCEPT !.expecting_port60h = "no"]
<1>1. Sound(k, irq_lines)
  BY FlagsKeep DEF KInv
<1>2. s' = controller_enQ(k, source, 1) /\ irq_lines' = irq_lines
  BY DEF WriteOutputBuffer
<1> HIDE DEF k
<1>3. Fits(k) /\ (~k.outb => k.controller_Q = << >>)
  BY <1>1 DEF Sound, Sending
<1>4. Sound(s', irq_lines)
  BY <1>1, <1>2, <1>3, ControllerEnQKeeps
<1> QED BY <1>2, <1>4 DEF KInv

LEMMA WriteMouseKeeps ==
  ASSUME KInv, NEW c \in MouseCommands, WriteMouse(c)
  PROVE  KInv'
<1> DEFINE enable == IF c.enable = {} THEN s.mouse_enable ELSE TRUE \in c.enable
           k == [s EXCEPT !.expecting_port60h = "no", !.mouse_enable = enable]
           answered == controller_enQ(k, "mouse", c.answers)
<1>1. Sound(s, irq_lines) /\ s.mouse_enable \in BOOLEAN /\ c.answers \in Nat
  BY KeyboardAssumption DEF KInv, Sound, Fits, States
<1>2. enable \in BOOLEAN
  <2>1. (TRUE \in c.enable) \in BOOLEAN
    OBVIOUS
  <2> QED BY <1>1, <2>1
<1>3. s' = (IF c.packet THEN mouse_enQ_packet(answered) ELSE answered) /\ irq_lines' = irq_lines
  BY DEF WriteMouse
<1> HIDE DEF enable
<1>4. Sound(k, irq_lines)
  BY <1>1, <1>2, FlagsKeep
<1> HIDE DEF k
<1>5. Fits(k) /\ (~k.outb => k.controller_Q = << >>)
  BY <1>4 DEF Sound, Sending
<1>6. Sound(answered, irq_lines)
  BY <1>1, <1>4, <1>5, ControllerEnQKeeps
<1> HIDE DEF answered
<1>7. Sound(mouse_enQ_packet(answered), irq_lines)
  BY <1>6, MousePacketKeeps DEF Sound, Sending
<1> QED BY <1>3, <1>6, <1>7 DEF KInv

LEMMA WriteKeyboardKeeps ==
  ASSUME KInv, NEW c \in KbdCommands, WriteKeyboard(c)
  PROVE  KInv'
<1> DEFINE k == set_kbd_clock_enable(s, TRUE)
           flushed == IF c.flush THEN [k EXCEPT !.kbd_elements = 0] ELSE k
           answered == IF c.imm THEN kbd_enQ_imm(flushed) ELSE kbd_enQ(flushed, c.answers)
           bat == answered.bat_in_progress \/ c.bat
           scanning == IF c.scanning = {} THEN answered.scanning_enabled ELSE TRUE \in c.scanning
<1>1. Sound(s, irq_lines) /\ c.answers \in Nat /\ c.bat \in BOOLEAN
  BY KeyboardAssumption DEF KInv
<1>2. s' = [answered EXCEPT !.bat_in_progress = bat, !.scanning_enabled = scanning]
      /\ irq_lines' = irq_lines
  BY DEF WriteKeyboard
<1>3. Sound(k, irq_lines)
  BY <1>1, ClocksKeep DEF Sound, Told
<1> HIDE DEF k
<1>4. Sound(flushed, irq_lines)
  BY <1>3, FlagsKeep
<1> HIDE DEF flushed
<1>5. Sound(answered, irq_lines)
  BY <1>1, <1>4, KbdEnQKeeps, KbdEnQImmKeeps
<1> HIDE DEF answered
<1>6. bat \in BOOLEAN /\ scanning \in BOOLEAN
  <2>1. answered.bat_in_progress \in BOOLEAN /\ answered.scanning_enabled \in BOOLEAN
    BY <1>5 DEF Sound, Fits, States
  <2>2. (TRUE \in c.scanning) \in BOOLEAN
    OBVIOUS
  <2>3. bat \in BOOLEAN
    BY <1>1, <2>1
  <2>4. scanning \in BOOLEAN
    BY <2>1, <2>2
  <2> QED BY <2>3, <2>4
<1> HIDE DEF bat, scanning
<1> QED BY <1>2, <1>5, <1>6, FlagsKeep DEF KInv

\* Keys, motion and the capture of the mouse.
LEMMA UserKeeps ==
  ASSUME KInv, \/ \E n \in KeyBytes : Key(n)
               \/ \E button \in BOOLEAN : MouseMotion(button)
               \/ MouseCapture
  PROVE  KInv'
<1>1. Sound(s, irq_lines) /\ irq_lines' = irq_lines
  BY DEF KInv, Key, MouseMotion, MouseCapture
<1>2. s.delayed \in 0 .. MotionLimit /\ s \in States
  BY <1>1 DEF Sound, Fits, States
<1>3. [s EXCEPT !.delayed = s.delayed] = s
  BY <1>2 DEF States
<1> DEFINE p == create_mouse_packet([s EXCEPT !.delayed = s.delayed], TRUE)
<1>4. Sound(p, irq_lines)
  <2>1. s.delayed \in 0 .. MotionLimit + 1 /\ ~(s.delayed > MotionLimit)
    BY <1>2, Sizes
  <2> QED BY <1>1, <2>1, MotionKeeps
<1>5. CASE \E n \in KeyBytes : Key(n)
  BY <1>1, <1>5, KbdEnQKeeps, KeyboardAssumption DEF Key, KInv
<1>6. CASE MouseMotion(TRUE)
  <2>1. s' = p
    BY <1>3, <1>6 DEF MouseMotion
  <2> QED BY <1>1, <1>4, <2>1 DEF KInv
<1>7. CASE MouseMotion(FALSE)
  <2> DEFINE d == s.delayed + 1
             force == d > MotionLimit
  <2>1. [s EXCEPT !.delayed = d].delayed = d
    BY <1>2 DEF States
  <2>2. s' = create_mouse_packet([s EXCEPT !.delayed = d], force)
    BY <1>7, <2>1 DEF MouseMotion
  <2>3. /\ d \in 0 .. MotionLimit + 1 /\ force \in BOOLEAN
        /\ d > MotionLimit => force /\ s.delayed > 0
    BY <1>2, Sizes
  <2> HIDE DEF d, force
  <2>4. Sound(s', irq_lines)
    BY <1>1, <2>2, <2>3, MotionKeeps
  <2> QED BY <1>1, <2>4 DEF KInv
<1>8. CASE MouseCapture
  <2>1. s' = [p EXCEPT !.delayed = 0]
    BY <1>3, <1>8 DEF MouseCapture
  <2> HIDE DEF p
  <2>3. Sound([p EXCEPT !.delayed = 0], irq_lines)
    BY <1>4, Sizes DEF Sound, Fits, States, Armed, Sending, Told
  <2> QED BY <1>1, <2>1, <2>3 DEF KInv
<1> QED BY <1>5, <1>6, <1>7, <1>8

\* An empty output buffer, nothing but a packet that waits for its clock.
Reported(k, p) ==
  /\ Fits(p) /\ ~p.outb /\ ~p.auxb /\ p.controller_Q = << >>
  /\ p.kbd_elements = k.kbd_elements /\ p.kbd_clock_enabled = k.kbd_clock_enabled
  /\ p.delayed = 0 \/ p.mouse_elements > 0

\* Motion that waits is reported when the last packet is sent.
LEMMA PacketMade ==
  ASSUME NEW k, Fits(k), ~k.outb, k.controller_Q = << >>, ~k.auxb
  PROVE  Reported(k, create_mouse_packet(k, FALSE))
<1>1. k \in States /\ k.delayed \in 0 .. MotionLimit /\ k.mouse_elements \in 0 .. MouseBuffSize
  BY DEF Fits, States
<1>2. CASE k.mouse_elements > 0 \/ k.delayed = 0
  <2>1. create_mouse_packet(k, FALSE) = k
    BY <1>2 DEF create_mouse_packet
  <2>2. Reported(k, k)
    BY <1>2 DEF Reported
  <2> QED BY <2>1, <2>2
<1>3. CASE ~(k.mouse_elements > 0 \/ k.delayed = 0)
  <2> DEFINE m == [k EXCEPT !.delayed = 0]
             next == [m EXCEPT !.mouse_elements = m.mouse_elements + PacketBytes]
  <2>1. ~(k.delayed > MotionLimit)
    BY <1>1, Sizes
  <2>2. create_mouse_packet(k, FALSE) = mouse_enQ_packet(m)
    <3>1. [k EXCEPT !.delayed = IF @ > MotionLimit THEN @ - MotionLimit ELSE 0] = m
      BY <2>1
    <3> HIDE DEF m
    <3> QED BY <1>3, <3>1 DEF create_mouse_packet
  <2>3. /\ Reported(k, m) /\ m.delayed = 0
        /\ m \in States /\ m.mouse_elements \in 0 .. MouseBuffSize
    BY <1>1, Sizes DEF Fits, States, Reported
  <2> HIDE DEF m
  <2>4. CASE m.mouse_elements + PacketBytes >= MouseBuffSize
    <3>1. mouse_enQ_packet(m) = m
      BY <2>4 DEF mouse_enQ_packet
    <3> QED BY <2>2, <2>3, <3>1
  <2>5. CASE ~(m.mouse_elements + PacketBytes >= MouseBuffSize)
    <3>1. m.mouse_elements + PacketBytes \in 0 .. MouseBuffSize
      BY <2>3, <2>5, Sizes
    <3>2. Reported(k, next) /\ next.delayed = 0
      BY <2>3, <3>1 DEF Fits, States, Reported
    <3>3. mouse_enQ_packet(m) = next \/ mouse_enQ_packet(m) = activate_timer(next)
      BY <2>5 DEF mouse_enQ_packet
    <3> HIDE DEF next
    <3>4. Reported(k, activate_timer(next))
      BY <3>2 DEF Fits, States, activate_timer, Reported
    <3> QED BY <2>2, <3>2, <3>3, <3>4
  <2> QED BY <2>4, <2>5
<1> QED BY <1>2, <1>3

\* periodic leaves nothing that could be sent and is not offered.
LEMMA TransferKeeps ==
  ASSUME NEW k, NEW lines, Fits(k), Told(k, lines),
         ~k.outb => k.controller_Q = << >> /\ ~k.auxb
  PROVE  Fits(Transfer(k)) /\ Sending(Transfer(k)) /\ Told(Transfer(k), lines)
<1> DEFINE packet == create_mouse_packet(k, FALSE)
<1>1. CASE k.outb
  BY <1>1 DEF Transfer, Sending
<1>2. CASE ~k.outb
  <2>1. /\ Fits(packet) /\ ~packet.outb /\ ~packet.auxb /\ packet.controller_Q = << >>
        /\ packet.kbd_elements = k.kbd_elements
        /\ packet.kbd_clock_enabled = k.kbd_clock_enabled
        /\ packet.delayed = 0 \/ packet.mouse_elements > 0
    BY <1>2, PacketMade DEF Reported
  <2> HIDE DEF packet
  <2>2. CASE k.kbd_elements > 0 /\ (k.kbd_clock_enabled \/ k.bat_in_progress)
    <3> DEFINE m == [k EXCEPT !.kbd_elements = k.kbd_elements - 1]
    <3>1. Transfer(k) = OfferKbd(m)
      BY <1>2, <2>2 DEF Transfer
    <3>2. k.kbd_elements - 1 \in 0 .. KbdElements
      BY <2>2, Sizes DEF Fits, States
    <3>3. Fits(m) /\ ~m.auxb
      BY <1>2, <3>2 DEF Fits, States
    <3> HIDE DEF m
    <3> QED BY <3>1, <3>3, OfferKbdKeeps
  <2>3. CASE /\ ~(k.kbd_elements > 0 /\ (k.kbd_clock_enabled \/ k.bat_in_progress))
             /\ packet.aux_clock_enabled /\ packet.mouse_elements > 0
    <3> DEFINE m == [packet EXCEPT !.mouse_elements = packet.mouse_elements - 1]
    <3>1. Transfer(k) = OfferAux(m)
      BY <1>2, <2>3 DEF Transfer, packet
    <3>2. packet.mouse_elements - 1 \in 0 .. MouseBuffSize
      BY <2>1, <2>3, Sizes DEF Fits, States
    <3>3. Fits(m)
      BY <2>1, <3>2 DEF Fits, States
    <3> HIDE DEF m
    <3> QED BY <3>1, <3>3, OfferAuxKeeps
  <2>4. CASE /\ ~(k.kbd_elements > 0 /\ (k.kbd_clock_enabled \/ k.bat_in_progress))
             /\ ~(packet.aux_clock_enabled /\ packet.mouse_elements > 0)
    <3>1. Transfer(k) = packet
      BY <1>2, <2>4 DEF Transfer, packet
    <3>2. Sending(packet)
      <4>1. ~(packet.kbd_elements > 0 /\ packet.kbd_clock_enabled)
        BY <2>1, <2>4
      <4>2. ~(packet.delayed > 0 /\ packet.mouse_elements = 0)
        BY <2>1 DEF Fits, States
      <4> QED BY <2>1, <2>4, <4>1, <4>2 DEF Sending
    <3>3. Told(packet, lines)
      BY <2>1 DEF Told
    <3> QED BY <2>1, <3>1, <3>2, <3>3
  <2> QED BY <2>2, <2>3, <2>4
<1> QED BY <1>1, <1>2

\* The timer goes on exactly as long as it is not Idle.
LEMMA Rearmed ==
  ASSUME NEW k, NEW lines, Fits(k), Sending(k), Told(k, lines), NEW i \in BOOLEAN
  PROVE  /\ Sound([k EXCEPT !.timer_active = ~Idle(k)], lines)
         /\ Sound([k EXCEPT !.timer_active = ~Idle(k), !.kbd_initialized = i], lines)
<1> DEFINE a == ~Idle(k)
<1>1. /\ a \in BOOLEAN
      /\ k.timer_pending \/ k.irq1_requested \/ k.irq12_requested => a
  BY RequestedLines DEF Idle
<1> HIDE DEF a
<1>2. Sound([k EXCEPT !.timer_active = a], lines)
  BY <1>1 DEF Sound, Fits, States, Armed, Sending, Told
<1>3. Sound([k EXCEPT !.timer_active = a, !.kbd_initialized = i], lines)
  BY <1>1 DEF Sound, Fits, States, Armed, Sending, Told
<1> QED BY <1>2, <1>3 DEF a

LEMMA TimerKeeps == KInv /\ Timer => KInv'
<1> SUFFICES ASSUME KInv, Timer PROVE KInv'
  OBVIOUS
<1> DEFINE k == [s EXCEPT !.irq1_requested = FALSE, !.irq12_requested = FALSE,
                          !.timer_pending = FALSE]
           next == IF s.timer_pending THEN Transfer(k) ELSE k
           lines == irq_lines \union Requested(s)
<1>1. Fits(s) /\ Sending(s) /\ Told(s, irq_lines)
  BY DEF KInv, Sound
<1>2. s' = [next EXCEPT !.timer_active = ~Idle(next)] /\ irq_lines' = lines
  BY DEF Timer
<1>3. lines \subseteq {1, 12}
  BY RequestedLines DEF KInv
<1>4. /\ 12 \in irq_lines \/ s.irq12_requested => 12 \in lines
      /\ 1 \in irq_lines \/ s.irq1_requested => 1 \in lines
  BY RequestedLines
<1> HIDE DEF lines
<1>5. Fits(k) /\ Told(k, lines) /\ (~k.outb => k.controller_Q = << >> /\ ~k.auxb)
  BY <1>1, <1>4 DEF Fits, States, Told, Sending
<1>6. ~s.timer_pending => Sending(k)
  BY <1>1 DEF Fits, States, Sending
<1> HIDE DEF k
<1>7. Fits(next) /\ Sending(next) /\ Told(next, lines)
  BY <1>5, <1>6, TransferKeeps
<1> HIDE DEF next
<1> QED BY <1>2, <1>3, <1>7, Rearmed DEF KInv

LEMMA RestoreKeeps == KInv /\ Restore => KInv'
<1> SUFFICES ASSUME KInv, Restore PROVE KInv'
  OBVIOUS
<1>1. Fits(s) /\ Sending(s) /\ Told(s, irq_lines) /\ FALSE \in BOOLEAN
  BY DEF KInv, Sound
<1>2. Sound([s EXCEPT !.timer_active = ~Idle(s), !.kbd_initialized = FALSE], irq_lines)
  BY <1>1, Rearmed
<1> QED BY <1>2 DEF KInv, Restore

LEMMA InitKInv == Init => KInv
<1> SUFFICES ASSUME Init PROVE KInv
  OBVIOUS
<1>1. << >> \in Seq({"kbd", "mouse"}) /\ Len(<< >>) <= ControllerQSize
  BY Sizes
<1>2. Fits(s)
  BY <1>1, Sizes DEF Init, Fits, States
<1> QED BY <1>2 DEF Init, KInv, Sound, Armed, Sending, Told

LEMMA StepKInv == KInv /\ [Next]_vars => KInv'
<1> SUFFICES ASSUME KInv, [Next]_vars PROVE KInv'
  OBVIOUS
<1>1. CASE ReadData
  BY <1>1, ReadDataKeeps
<1>2. CASE \/ \E n \in KeyBytes : Key(n)
           \/ \E button \in BOOLEAN : MouseMotion(button)
           \/ MouseCapture
  BY <1>2, UserKeeps
<1>3. CASE Timer \/ Restore
  BY <1>3, TimerKeeps, RestoreKeeps
<1>4. CASE \E c \in Controls : WriteControl(c)
  BY <1>4, WriteControlKeeps
<1>5. CASE \E parts \in CommandBytes : WriteCommandByte(parts)
  BY <1>5, WriteCommandByteKeeps
<1>6. CASE \E source \in {"kbd", "mouse"} : WriteOutputBuffer(source)
  BY <1>6, WriteOutputBufferKeeps
<1>7. CASE \E c \in MouseCommands : WriteMouse(c)
  BY <1>7, WriteMouseKeeps
<1>8. CASE \E c \in KbdCommands : WriteKeyboard(c)
  BY <1>8, WriteKeyboardKeeps
<1>9. CASE UNCHANGED vars
  BY <1>9 DEF vars, KInv, Sound, Fits, Armed, Sending, Told
<1> QED BY <1>1, <1>2, <1>3, <1>4, <1>5, <1>6, <1>7, <1>8, <1>9 DEF Next, Quiet, Write

-----------------------------------------------------------------------------
(* Theorems. *)

\* controller_enQ, kbd_enQ and mouse_enQ_packet never take a byte for which
\* their queue has no room, and create_mouse_packet never lets more motion
\* wait than the next packet reports: for every size and every command.
THEOREM TypesHold == Spec => []TypeOK
<1>1. KInv => TypeOK
  BY DEF KInv, Sound, Fits, States, TypeOK
<1> QED BY <1>1, InitKInv, StepKInv, PTL DEF Spec

\* Whatever the guest, the user and the timer do, and in whichever order, the
\* timer runs while something waits for it (timer_handler disarms it only when
\* nothing does), what can be sent has its transfer requested unless a byte is
\* offered, and the controller's queue is empty while none is.
THEOREM NothingStuckHolds == Spec => []NothingStuck
<1>1. KInv => NothingStuck
  BY RequestedLines DEF KInv, Sound, Armed, Sending, NothingStuck
<1> QED BY <1>1, InitKInv, StepKInv, PTL DEF Spec

\* An offered byte whose interrupt is allowed has it requested or its line
\* raised, across reads that offer the next byte, command bytes that change
\* what is allowed, and periods of the timer.
THEOREM AnnouncedHolds == Spec => []Announced
<1>1. KInv => Announced
  BY DEF KInv, Sound, Told, Announced
<1> QED BY <1>1, InitKInv, StepKInv, PTL DEF Spec
=============================================================================
