----------------------------- MODULE MCKeyboard -----------------------------
(* Small instances of Keyboard for TLC. *)
EXTENDS Keyboard

KbdCommand(answers) ==
  [answers |-> answers, imm |-> FALSE, flush |-> FALSE, bat |-> FALSE, scanning |-> {}]

\* LED write (EDh), reset (FFh), enable (F4h).
LedWrite == [KbdCommand(0) EXCEPT !.imm = TRUE]
MCKbdCommands ==
  {LedWrite,
   [KbdCommand(2) EXCEPT !.flush = TRUE, !.bat = TRUE],
   [KbdCommand(1) EXCEPT !.scanning = {TRUE}]}

\* Enable (F4h), get information (E9h), read data (EBh).
MCMouseCommands ==
  {[answers |-> 1, packet |-> FALSE, enable |-> {TRUE}],
   [answers |-> 4, packet |-> FALSE, enable |-> {}],
   [answers |-> 1, packet |-> TRUE, enable |-> {}]}

MCControls ==
  {"get_command_byte", "test", "self_test", "disable_aux", "enable_aux", "disable_kbd",
   "enable_kbd", "command_byte", "mouse", "aux_outb"}

\* Both interrupts, or the keyboard's only.
MCCommandBytes == {Parts, {"kbd_clock", "irq1"}}
=============================================================================
