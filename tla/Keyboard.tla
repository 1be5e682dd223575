------------------------------ MODULE Keyboard ------------------------------
(***************************************************************************)
(* The 8042 keyboard controller with keyboard and PS/2 mouse (bx_keyb_c in *)
(* iodev/keyboard.cc).  Bytes for the guest come from three queues: the    *)
(* controller's own answers and those of the mouse (controller_Q), the     *)
(* keyboard's (kbd_internal_buffer) and the mouse's movement packets       *)
(* (mouse_internal_buffer).  One output buffer, shared by a keyboard and a *)
(* mouse register, is filled by the commands, by the guest's own read and  *)
(* by a timer, which also raises IRQ 1 and IRQ 12 one period later.        *)
(*                                                                         *)
(* What a byte says is left out; so are the settings that only change what *)
(* an answer says (scan code sets, sample rate, LEDs, wrap mode): such a   *)
(* command is one with so many answer bytes, and so is its parameter.      *)
(* Commands D1h and CBh, whose data stays in the controller, are left out. *)
(***************************************************************************)
EXTENDS Integers, Sequences

CONSTANTS
  KbdElements,      \* BX_KBD_ELEMENTS
  MouseBuffSize,    \* BX_MOUSE_BUFF_SIZE
  ControllerQSize,  \* BX_KBD_CONTROLLER_QSIZE
  PacketBytes,      \* bytes of a movement packet
  MotionLimit,      \* motion that a packet reports (254 or 255)
  Controls,         \* commands that the guest writes to port 64h
  CommandBytes,     \* command bytes, as sets of enabled parts
  KbdCommands,      \* commands to the keyboard
  MouseCommands,    \* commands to the mouse
  KeyBytes          \* lengths of scan codes

Parts == {"kbd_clock", "aux_clock", "irq1", "irq12"}

ASSUME KeyboardAssumption ==
  /\ {KbdElements, MouseBuffSize, ControllerQSize, PacketBytes, MotionLimit}
       \subseteq Nat \ {0}
  /\ CommandBytes \subseteq SUBSET Parts
  /\ KbdCommands \subseteq [answers : Nat, imm : BOOLEAN, flush : BOOLEAN,
                            bat : BOOLEAN, scanning : {{}, {TRUE}, {FALSE}}]
  /\ MouseCommands \subseteq [answers : Nat, packet : BOOLEAN,
                              enable : {{}, {TRUE}, {FALSE}}]
  /\ KeyBytes \subseteq Nat \ {0}

VARIABLES
  s,           \* the state s and timer_active of bx_keyb_c
  irq_lines    \* the IRQ lines that the controller drives: 1 and 12

vars == <<s, irq_lines>>

-----------------------------------------------------------------------------
(* The timer and the output buffer. *)

start_timer(k) == [k EXCEPT !.timer_active = TRUE]
activate_timer(k) == [k EXCEPT !.timer_active = TRUE, !.timer_pending = TRUE]

\* A byte of the keyboard or the controller, or of the mouse, is offered.
OfferKbd(k) ==
  [k EXCEPT !.outb = TRUE, !.irq1_requested = @ \/ k.allow_irq1]
OfferAux(k) ==
  [k EXCEPT !.outb = TRUE, !.auxb = TRUE, !.irq12_requested = @ \/ k.allow_irq12]
Offer(k, source) ==
  IF source = "mouse" THEN OfferAux(k) ELSE OfferKbd([k EXCEPT !.auxb = FALSE])

\* Mutant of controller_enQ: the queue takes one byte too many.
controller_enQ_past_end(k, source, n) ==
  LET start == IF k.outb \/ n = 0 THEN k ELSE start_timer(Offer(k, source))
      waiting == IF k.outb \/ n = 0 THEN n ELSE n - 1
      room == ControllerQSize + 1 - Len(k.controller_Q)
      taken == IF waiting < room THEN waiting ELSE room
  IN  [start EXCEPT !.controller_Q = @ \o [i \in 1 .. taken |-> source]]

\* controller_enQ of n bytes, one after the other: the first one is offered if
\* nothing else is, the others wait; what finds the queue full is lost.
controller_enQ(k, source, n) ==
  LET start == IF k.outb \/ n = 0 THEN k ELSE start_timer(Offer(k, source))
      waiting == IF k.outb \/ n = 0 THEN n ELSE n - 1
      room == ControllerQSize - Len(k.controller_Q)
      taken == IF waiting < room THEN waiting ELSE room
  IN  [start EXCEPT !.controller_Q = @ \o [i \in 1 .. taken |-> source]]

\* Mutant of controller_deQ: the byte is offered without its interrupt.
controller_deQ_quietly(k) ==
  [k EXCEPT !.controller_Q = Tail(@), !.outb = TRUE,
            !.auxb = Head(k.controller_Q) = "mouse"]

controller_deQ(k) ==
  Offer([k EXCEPT !.controller_Q = Tail(@)], Head(k.controller_Q))

-----------------------------------------------------------------------------
(* The queues of keyboard and mouse. *)

\* kbd_enQ of n bytes, one after the other; what finds no room is ignored.
kbd_enQ(k, n) ==
  LET room == KbdElements - k.kbd_elements
      taken == IF n < room THEN n ELSE room
      next == [k EXCEPT !.kbd_elements = @ + taken]
  IN  IF taken > 0 /\ ~k.outb /\ k.kbd_clock_enabled THEN activate_timer(next) ELSE next

\* The answer goes to the output buffer, whatever is there.
kbd_enQ_imm(k) ==
  IF k.kbd_elements >= KbdElements THEN k ELSE start_timer(OfferKbd(k))

\* A packet is queued whole or not at all.
mouse_enQ_packet(k) ==
  LET next == [k EXCEPT !.mouse_elements = @ + PacketBytes]
  IN  IF k.mouse_elements + PacketBytes >= MouseBuffSize THEN k
      ELSE IF ~k.outb /\ k.aux_clock_enabled THEN activate_timer(next) ELSE next

\* Motion waits until the last packet is sent; a forced packet is sent now,
\* and its motion is gone even when there is no room for it.
create_mouse_packet(k, force) ==
  IF ~force /\ (k.mouse_elements > 0 \/ k.delayed = 0) THEN k
  ELSE mouse_enQ_packet([k EXCEPT !.delayed = IF @ > MotionLimit THEN @ - MotionLimit
                                              ELSE 0])

\* Mutant of set_kbd_clock_enable: nobody looks for bytes that waited.
set_kbd_clock_quietly(k, value) == [k EXCEPT !.kbd_clock_enabled = value]

\* A byte that waited for the clock is sent now.
set_kbd_clock_enable(k, value) ==
  LET next == [k EXCEPT !.kbd_clock_enabled = value]
  IN  IF value /\ ~k.kbd_clock_enabled /\ ~k.outb THEN activate_timer(next) ELSE next

set_aux_clock_enable(k, value) ==
  LET next == [k EXCEPT !.aux_clock_enabled = value]
  IN  IF value /\ ~k.aux_clock_enabled /\ ~k.outb THEN activate_timer(next) ELSE next

-----------------------------------------------------------------------------
(* The guest reads and writes the ports. *)

\* Read of port 60h.  The mouse goes first; the next byte of the controller
\* follows at once.
ReadData ==
  /\ s.outb
  /\ LET read == IF s.auxb
                 THEN [s EXCEPT !.outb = FALSE, !.auxb = FALSE, !.irq12_requested = FALSE]
                 ELSE [s EXCEPT !.outb = FALSE, !.irq1_requested = FALSE,
                                !.bat_in_progress = FALSE]
         next == IF s.controller_Q # << >> THEN controller_deQ(read) ELSE read
     IN  s' = activate_timer(next)
  /\ irq_lines' = irq_lines \ {IF s.auxb THEN 12 ELSE 1}

\* The first self test of the session empties the output buffer.
Emptied(k) == [k EXCEPT !.controller_Q = << >>, !.outb = FALSE, !.kbd_initialized = TRUE]

\* The self test answers only into an empty output buffer.
SelfTest(k) ==
  LET start == IF k.kbd_initialized THEN k ELSE Emptied(k)
  IN  IF start.outb THEN start ELSE controller_enQ(start, "kbd", 1)

\* Write to port 64h.
WriteControl(c) ==
  /\ c \in Controls
  /\ LET k == [s EXCEPT !.expecting_port60h = "no"]
     IN  s' = CASE c = "get_command_byte" -> IF k.outb THEN k ELSE controller_enQ(k, "kbd", 1)
                [] c = "test" -> controller_enQ(k, "kbd", 1)
                [] c = "self_test" -> SelfTest(k)
                [] c = "disable_aux" -> set_aux_clock_enable(k, FALSE)
                [] c = "enable_aux" -> set_aux_clock_enable(k, TRUE)
                [] c = "disable_kbd" -> set_kbd_clock_enable(k, FALSE)
                [] c = "enable_kbd" -> set_kbd_clock_enable(k, TRUE)
                [] c \in {"command_byte", "mouse", "kbd_outb", "aux_outb"} ->
                     [k EXCEPT !.expecting_port60h = c]
                [] OTHER -> k
  /\ UNCHANGED irq_lines

\* The data of command 60h: a byte that waits is announced again.
WriteCommandByte(parts) ==
  /\ s.expecting_port60h = "command_byte"
  /\ LET irqs == [s EXCEPT !.expecting_port60h = "no",
                           !.allow_irq1 = "irq1" \in parts, !.allow_irq12 = "irq12" \in parts]
         clocks == set_aux_clock_enable(
                     set_kbd_clock_enable(irqs, "kbd_clock" \in parts), "aux_clock" \in parts)
         again12 == clocks.allow_irq12 /\ clocks.auxb
         again1 == ~again12 /\ clocks.allow_irq1 /\ clocks.outb
         next == [clocks EXCEPT !.irq12_requested = @ \/ again12,
                                !.irq1_requested = @ \/ again1]
     IN  s' = IF next.irq1_requested \/ next.irq12_requested THEN start_timer(next) ELSE next
  /\ UNCHANGED irq_lines

\* The data of commands D2h and D3h.
WriteOutputBuffer(source) ==
  /\ s.expecting_port60h = IF source = "mouse" THEN "aux_outb" ELSE "kbd_outb"
  /\ s' = controller_enQ([s EXCEPT !.expecting_port60h = "no"], source, 1)
  /\ UNCHANGED irq_lines

\* The data of command D4h, and kbd_ctrl_to_mouse.
WriteMouse(c) ==
  /\ s.expecting_port60h = "mouse"
  /\ LET k == [s EXCEPT !.expecting_port60h = "no",
                        !.mouse_enable = IF c.enable = {} THEN @ ELSE TRUE \in c.enable]
         answered == controller_enQ(k, "mouse", c.answers)
     IN  s' = IF c.packet THEN mouse_enQ_packet(answered) ELSE answered
  /\ UNCHANGED irq_lines

\* Any other write to port 60h, and kbd_ctrl_to_kbd.
WriteKeyboard(c) ==
  /\ s.expecting_port60h = "no"
  /\ LET k == set_kbd_clock_enable(s, TRUE)
         flushed == IF c.flush THEN [k EXCEPT !.kbd_elements = 0] ELSE k
         answered == IF c.imm THEN kbd_enQ_imm(flushed) ELSE kbd_enQ(flushed, c.answers)
     IN  s' = [answered EXCEPT !.bat_in_progress = @ \/ c.bat,
                               !.scanning_enabled = IF c.scanning = {} THEN @
                                                    ELSE TRUE \in c.scanning]
  /\ UNCHANGED irq_lines

-----------------------------------------------------------------------------
(* The user, the timer, and a restored session. *)

\* gen_scancode.
Key(n) ==
  /\ s.kbd_clock_enabled /\ s.scanning_enabled
  /\ s' = kbd_enQ(s, n)
  /\ UNCHANGED irq_lines

\* mouse_motion; a button or too much motion forces a packet.
MouseMotion(button) ==
  /\ s.mouse_enable
  /\ LET moved == IF button THEN s ELSE [s EXCEPT !.delayed = @ + 1]
     IN  s' = create_mouse_packet(moved, button \/ moved.delayed > MotionLimit)
  /\ UNCHANGED irq_lines

\* mouse_enabled_changed: the user captures or releases the mouse.
MouseCapture ==
  /\ s.delayed > 0
  /\ s' = [create_mouse_packet(s, TRUE) EXCEPT !.delayed = 0]
  /\ UNCHANGED irq_lines

\* periodic: one byte goes to an empty output buffer, the keyboard's first.
Transfer(k) ==
  LET packet == create_mouse_packet(k, FALSE)
  IN  IF k.outb THEN k
      ELSE IF k.kbd_elements > 0 /\ (k.kbd_clock_enabled \/ k.bat_in_progress)
      THEN OfferKbd([k EXCEPT !.kbd_elements = @ - 1])
      ELSE IF packet.aux_clock_enabled /\ packet.mouse_elements > 0
      THEN OfferAux([packet EXCEPT !.mouse_elements = @ - 1])
      ELSE packet

Requested(k) == {l \in {1, 12} : IF l = 1 THEN k.irq1_requested ELSE k.irq12_requested}

\* Mutant of Idle: requests that the next period has to raise are forgotten.
IdleTooEarly(k) == ~k.timer_pending

\* timer_handler: nothing is left to do.
Idle(k) == ~k.timer_pending /\ Requested(k) = {}

\* timer_handler and periodic: the interrupts requested before this period
\* are raised after the transfer.
Timer ==
  /\ s.timer_active
  /\ LET k == [s EXCEPT !.irq1_requested = FALSE, !.irq12_requested = FALSE,
                        !.timer_pending = FALSE]
         next == IF s.timer_pending THEN Transfer(k) ELSE k
     IN  s' = [next EXCEPT !.timer_active = ~Idle(next)]
  /\ irq_lines' = irq_lines \union Requested(s)

\* after_restore_state in a new session: timer_active is not saved, and the
\* self test's kbd_initialized is a static variable.
Restore ==
  /\ s' = [s EXCEPT !.timer_active = ~Idle(s), !.kbd_initialized = FALSE]
  /\ UNCHANGED irq_lines

-----------------------------------------------------------------------------
Init ==
  /\ s = [outb |-> FALSE, auxb |-> FALSE,
          kbd_clock_enabled |-> TRUE, aux_clock_enabled |-> FALSE,
          allow_irq1 |-> TRUE, allow_irq12 |-> TRUE,
          irq1_requested |-> FALSE, irq12_requested |-> FALSE,
          timer_pending |-> FALSE, timer_active |-> FALSE,
          expecting_port60h |-> "no", bat_in_progress |-> FALSE,
          scanning_enabled |-> TRUE, mouse_enable |-> FALSE,
          kbd_initialized |-> FALSE, controller_Q |-> << >>,
          kbd_elements |-> 0, mouse_elements |-> 0, delayed |-> 0]
  /\ irq_lines = {}

Write ==
  \/ \E c \in Controls : WriteControl(c)
  \/ \E parts \in CommandBytes : WriteCommandByte(parts)
  \/ \E source \in {"kbd", "mouse"} : WriteOutputBuffer(source)
  \/ \E c \in MouseCommands : WriteMouse(c)
  \/ \E c \in KbdCommands : WriteKeyboard(c)

\* Everything but commands.
Quiet ==
  \/ ReadData
  \/ \E n \in KeyBytes : Key(n)
  \/ \E button \in BOOLEAN : MouseMotion(button)
  \/ MouseCapture \/ Timer \/ Restore

Next == Quiet \/ Write

Spec == Init /\ [][Next]_vars

\* An active timer fires, and a guest that sees a byte offered reads it.
FairSpec == Spec /\ WF_vars(Timer) /\ WF_vars(ReadData)

-----------------------------------------------------------------------------
(* Properties. *)

\* Types of the variables; the three queues keep to their sizes, and motion
\* that waits is less than a packet reports.
TypeOK ==
  /\ s \in [outb : BOOLEAN, auxb : BOOLEAN,
            kbd_clock_enabled : BOOLEAN, aux_clock_enabled : BOOLEAN,
            allow_irq1 : BOOLEAN, allow_irq12 : BOOLEAN,
            irq1_requested : BOOLEAN, irq12_requested : BOOLEAN,
            timer_pending : BOOLEAN, timer_active : BOOLEAN,
            expecting_port60h : {"no", "command_byte", "mouse", "kbd_outb", "aux_outb"},
            bat_in_progress : BOOLEAN, scanning_enabled : BOOLEAN,
            mouse_enable : BOOLEAN, kbd_initialized : BOOLEAN,
            controller_Q : Seq({"kbd", "mouse"}),
            kbd_elements : 0 .. KbdElements, mouse_elements : 0 .. MouseBuffSize,
            delayed : 0 .. MotionLimit]
  /\ Len(s.controller_Q) <= ControllerQSize
  /\ irq_lines \subseteq {1, 12}

\* Nothing waits for an event that is not coming: the timer runs while it has
\* a transfer or an interrupt to deliver; a byte or a motion that may be sent
\* has the transfer requested unless a byte is offered, whose read will; and
\* the controller's queue waits only behind an offered byte.
NothingStuck ==
  /\ s.timer_pending \/ Requested(s) # {} => s.timer_active
  /\ ~s.outb =>
       /\ s.kbd_elements > 0 /\ s.kbd_clock_enabled => s.timer_pending
       /\ s.mouse_elements > 0 /\ s.aux_clock_enabled => s.timer_pending
       /\ s.delayed > 0 /\ s.mouse_elements = 0 => s.timer_pending
       /\ s.controller_Q = << >> /\ ~s.auxb

\* A byte that is offered, and whose interrupt the guest allows, is announced:
\* its interrupt is requested or its line is up, whatever commands, reads and
\* periods of the timer came since.
Announced ==
  /\ s.outb /\ s.auxb /\ s.allow_irq12 => s.irq12_requested \/ 12 \in irq_lines
  /\ s.outb /\ ~s.auxb /\ s.allow_irq1 => s.irq1_requested \/ 1 \in irq_lines

\* Once the guest stops writing commands, a byte of the keyboard whose clock
\* runs is offered, and one of the mouse is, unless keys come again and again.
BytesOffered ==
  <>[][Quiet]_vars =>
    /\ s.kbd_elements > 0 /\ s.kbd_clock_enabled ~>
         (s.outb /\ ~s.auxb) \/ ~s.kbd_clock_enabled
    /\ s.mouse_elements > 0 /\ s.aux_clock_enabled ~>
         s.auxb \/ ~s.aux_clock_enabled \/ s.kbd_elements > 0
=============================================================================
