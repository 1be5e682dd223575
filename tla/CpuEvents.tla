------------------------------ MODULE CpuEvents ------------------------------
(***************************************************************************)
(* How one processor of bochs/cpu accepts asynchronous events: the pending *)
(* and masked event sets, the async_event flag that makes the instruction  *)
(* loop look at them, the sleep states, interrupt shadows, system          *)
(* management mode, NMI blocking, and the delivery of exceptions with its  *)
(* escalation to double fault and shutdown.  The build without VMX, SVM    *)
(* and user interrupts.                                                    *)
(*                                                                         *)
(* The instruction loop is "check" (async_event tested) then "exec".       *)
(* handleAsyncEvent runs its priorities in order, one stage per value of   *)
(* pc; other parts of the emulator (timers, devices, other processors)     *)
(* run only at "check", between instructions or inside the wait loop.      *)
(* Instructions are abstracted to what they do to this state.              *)
(***************************************************************************)
EXTENDS Naturals

CONSTANTS
  Signals,   \* the events that the environment signals
  Gates,     \* the IDT gates in use: "interrupt", "trap"
  Traps,     \* the debug traps that instructions record
  Sleeps     \* the sleep states that instructions enter

Events == {"NMI", "SMI", "INIT", "INTR", "LAPIC_INTR"}
External == {"INTR", "LAPIC_INTR"}
AllTraps == {"task_switch", "breakpoint", "single_step"}
Activities == {"ACTIVE", "HLT", "SHUTDOWN", "WAIT_FOR_SIPI", "MWAIT", "MWAIT_IF"}
Faults == {"benign", "contributory", "page_fault"}
MovSS == {"interrupts", "debug"}   \* BX_INHIBIT_INTERRUPTS_BY_MOVSS

ASSUME CpuAssumption ==
  /\ Signals \subseteq Events
  /\ Gates \subseteq {"interrupt", "trap"}
  /\ Traps \subseteq AllTraps \ {"single_step"}
  /\ Sleeps \subseteq {"HLT", "MWAIT", "MWAIT_IF"}

VARIABLES
  bsp,                  \* the bootstrap processor, not an application processor
  reset_on_triple_fault,   \* the option of that name
  pc,                   \* where the loop stands
  pending_event, event_mask,
  async_event,
  activity_state,
  iflag, tflag,         \* EFLAGS.IF, EFLAGS.TF
  debug_trap,
  inhibit_mask,         \* the inhibits of this instruction boundary
  in_smm, smm_nmi_blocked,
  HRQ,                  \* the DMA controller wants the bus
  last_exception_type,
  nmi_handlers          \* modes in which an NMI handler has not executed IRET

flags == <<iflag, tflag>>
smm == <<in_smm, smm_nmi_blocked>>
config == <<bsp, reset_on_triple_fault>>   \* fixed when the machine starts
vars == <<config, pc, pending_event, event_mask, async_event, activity_state, flags,
          debug_trap, inhibit_mask, smm, HRQ, last_exception_type, nmi_handlers>>

-----------------------------------------------------------------------------
(* Events and masks. *)

Unmasked == pending_event \ event_mask

signal_event(e) ==
  /\ pending_event' = pending_event \union {e}
  /\ async_event' = (async_event \/ e \notin event_mask)

\* handleInterruptMaskChange, for the new value of EFLAGS.IF.
MaskFor(if) == IF if THEN event_mask \ External ELSE event_mask \union External

\* setEFlags: the mask follows a change of IF, TF makes the loop look.
SetFlags(if, tf) ==
  /\ iflag' = if /\ tflag' = tf
  /\ event_mask' = IF if = iflag THEN event_mask ELSE MaskFor(if)
  /\ async_event' = (async_event \/ tf
                       \/ (if /\ ~iflag /\ pending_event \intersect External # {}))

\* wakeup_monitor: the activity state after it.
Awake == IF activity_state \in {"MWAIT", "MWAIT_IF"} THEN "ACTIVE" ELSE activity_state

Mode == IF in_smm THEN "smm" ELSE "normal"

\* Mutant of ResetCpu: the mask is not recomputed for the cleared IF.
ResetCpuUnmasked ==
  /\ pending_event' = {}
  /\ event_mask' = IF bsp THEN {} ELSE Events
  /\ async_event' = ~bsp
  /\ activity_state' = IF bsp THEN "ACTIVE" ELSE "WAIT_FOR_SIPI"
  /\ iflag' = FALSE /\ tflag' = FALSE
  /\ debug_trap' = {} /\ inhibit_mask' = {}
  /\ in_smm' = FALSE /\ smm_nmi_blocked' = FALSE
  /\ last_exception_type' = "none"
  /\ nmi_handlers' = {}

\* reset() of this processor.  An application processor waits for a SIPI.
ResetCpu ==
  /\ pending_event' = {}
  /\ event_mask' = IF bsp THEN External ELSE Events
  /\ async_event' = ~bsp
  /\ activity_state' = IF bsp THEN "ACTIVE" ELSE "WAIT_FOR_SIPI"
  /\ iflag' = FALSE /\ tflag' = FALSE
  /\ debug_trap' = {} /\ inhibit_mask' = {}
  /\ in_smm' = FALSE /\ smm_nmi_blocked' = FALSE
  /\ last_exception_type' = "none"
  /\ nmi_handlers' = {}

\* bx_pc_system_c::Reset.  Of the devices that a hardware reset resets only the
\* floppy controller, if there is one, drops the bus request; a software reset
\* leaves it alone.
Reset(hardware) ==
  /\ ResetCpu
  /\ HRQ' \in IF hardware THEN {FALSE, HRQ} ELSE {HRQ}

-----------------------------------------------------------------------------
(* Exceptions and the delivery of interrupts. *)

\* is_exception_OK: the second is delivered by itself.
Serial(first, second) ==
  \/ first \in {"none", "benign"} \/ second = "benign"
  \/ first = "contributory" /\ second = "page_fault"

\* interrupt(): traps and inhibits are discarded, then the gate is entered.
StartInterrupt ==
  /\ activity_state' = "ACTIVE"
  /\ debug_trap' = {} /\ inhibit_mask' = {}

\* exception(t): what is delivered, or a third exception in a row.
Raise(t) ==
  \/ /\ last_exception_type # "double_fault"
     /\ last_exception_type' =
          IF Serial(last_exception_type, t) THEN t ELSE "double_fault"
     /\ StartInterrupt
     /\ pc' = "deliver_exception"
     /\ UNCHANGED <<pending_event, event_mask, async_event, flags, smm, HRQ, nmi_handlers>>
  \/ /\ last_exception_type = "double_fault" /\ ~reset_on_triple_fault
     /\ activity_state' = "SHUTDOWN"       \* shutdown()
     /\ iflag' = FALSE /\ event_mask' = MaskFor(FALSE)
     /\ async_event' = TRUE
     /\ pc' = "check"
     /\ UNCHANGED <<pending_event, tflag, debug_trap, inhibit_mask, smm, HRQ,
                    last_exception_type, nmi_handlers>>
  \/ /\ last_exception_type = "double_fault" /\ reset_on_triple_fault
     /\ Reset(TRUE)
     /\ pc' = "check"

\* A fault while the handler of an interrupt or an exception is entered.
DeliveryFaults(t) ==
  /\ pc \in {"deliver_exception", "deliver_interrupt"}
  /\ t # "benign"
  /\ Raise(t)

\* The gate is entered: an exception goes back to the start of the loop, an
\* interrupt to the rest of handleAsyncEvent.
Deliver(gate) ==
  /\ pc \in {"deliver_exception", "deliver_interrupt"}
  /\ iflag' = (iflag /\ gate = "trap") /\ tflag' = FALSE
  /\ event_mask' = IF gate = "trap" THEN event_mask ELSE MaskFor(FALSE)
  /\ IF pc = "deliver_exception"
     THEN pc' = "check" /\ last_exception_type' = "none"
     ELSE pc' = "tail" /\ UNCHANGED last_exception_type
  /\ UNCHANGED <<pending_event, async_event, activity_state, debug_trap,
                 inhibit_mask, smm, HRQ, nmi_handlers>>

-----------------------------------------------------------------------------
(* The environment. *)

Outside == pc = "check" /\ UNCHANGED pc

\* raise_INTR, deliver_NMI, deliver_SMI, and the local APIC.
Signal(e) ==
  /\ Outside
  /\ e # "INIT" /\ (e = "INTR" => bsp)
  /\ signal_event(e)
  /\ UNCHANGED <<event_mask, activity_state, flags, debug_trap, inhibit_mask,
                 smm, HRQ, last_exception_type, nmi_handlers>>

\* The PIC withdraws its request.
clear_INTR ==
  /\ Outside
  /\ pending_event' = pending_event \ {"INTR"}
  /\ UNCHANGED <<event_mask, async_event, activity_state, flags, debug_trap,
                 inhibit_mask, smm, HRQ, last_exception_type, nmi_handlers>>

\* Dropped while INIT is masked.
deliver_INIT ==
  /\ Outside
  /\ "INIT" \in Signals \ event_mask
  /\ signal_event("INIT")
  /\ UNCHANGED <<event_mask, activity_state, flags, debug_trap, inhibit_mask,
                 smm, HRQ, last_exception_type, nmi_handlers>>

\* Ignored unless the processor waits for it.
deliver_SIPI ==
  /\ Outside
  /\ activity_state = "WAIT_FOR_SIPI"
  /\ activity_state' = "ACTIVE"
  /\ event_mask' = event_mask \ {"INIT", "SMI", "NMI"}
  /\ async_event' = (async_event \/ pending_event \intersect {"INIT", "SMI", "NMI"} # {})
  /\ UNCHANGED <<pending_event, flags, debug_trap, inhibit_mask, smm, HRQ,
                 last_exception_type, nmi_handlers>>

\* Only the bootstrap processor is told.
set_HRQ(val) ==
  /\ Outside
  /\ HRQ' = val
  /\ async_event' = (async_event \/ (val /\ bsp))
  /\ UNCHANGED <<pending_event, event_mask, activity_state, flags, debug_trap,
                 inhibit_mask, smm, last_exception_type, nmi_handlers>>

\* check_monitor and the MWAITX timer: the monitored line was written.
wakeup_monitor ==
  /\ Outside
  /\ activity_state' = Awake
  /\ UNCHANGED <<pending_event, event_mask, async_event, flags, debug_trap,
                 inhibit_mask, smm, HRQ, last_exception_type, nmi_handlers>>

\* Another processor, or the reset button of the GUI, resets the machine.  The
\* wait loop of a sleeping processor finds itself active and leaves for the rest
\* of handleAsyncEvent; with several processors that loop is not on the stack.
OutsideReset(hardware) ==
  /\ pc = "check"
  /\ Reset(hardware)
  /\ pc' \in IF bsp /\ activity_state # "ACTIVE" THEN {"check", "smi"} ELSE {"check"}

-----------------------------------------------------------------------------
(* handleAsyncEvent. *)

\* handleWaitForEvent: the events that end a sleep.
WakesUp ==
  \/ Unmasked # {}
  \/ activity_state = "MWAIT_IF" /\ pending_event \intersect External # {}

\* The loop enters handleAsyncEvent and, if asleep, has a reason to wake up.
BeginEvents ==
  /\ pc = "check" /\ async_event
  /\ \/ activity_state = "ACTIVE" /\ UNCHANGED <<inhibit_mask, activity_state>>
     \/ /\ activity_state \notin {"ACTIVE", "WAIT_FOR_SIPI"} /\ WakesUp
        /\ inhibit_mask' = {}
        /\ activity_state' = Awake
  /\ pc' = "smi"
  /\ UNCHANGED <<pending_event, event_mask, async_event, flags, debug_trap, smm,
                 HRQ, last_exception_type, nmi_handlers>>

\* A sleeping processor grants the bus; the DMA controller may keep it.
SleepDma(again) ==
  /\ pc = "check" /\ async_event
  /\ activity_state \notin {"ACTIVE", "WAIT_FOR_SIPI"} /\ ~WakesUp
  /\ HRQ /\ HRQ' = again
  /\ UNCHANGED <<pc, pending_event, event_mask, async_event, activity_state, flags,
                 debug_trap, inhibit_mask, smm, last_exception_type, nmi_handlers>>

\* Priority 2, the trap of a task switch, and 3: SMI.
SmiStage ==
  /\ pc = "smi"
  /\ \/ "task_switch" \in debug_trap /\ Raise("benign")
     \/ /\ "task_switch" \notin debug_trap /\ "SMI" \in Unmasked
        /\ pending_event' = pending_event \ {"SMI"}
        /\ in_smm' = TRUE                  \* enter_system_management_mode
        /\ smm_nmi_blocked' = ("NMI" \in event_mask)
        /\ event_mask' = event_mask \union {"SMI", "NMI"} \union External
        /\ iflag' = FALSE /\ tflag' = FALSE
        /\ activity_state' = Awake
        /\ nmi_handlers' = nmi_handlers \ {"smm"}
        /\ pc' = "init"
        /\ UNCHANGED <<async_event, debug_trap, inhibit_mask, HRQ, last_exception_type>>
     \/ /\ "task_switch" \notin debug_trap /\ "SMI" \notin Unmasked
        /\ pc' = "init"
        /\ UNCHANGED <<pending_event, event_mask, async_event, activity_state, flags,
                       debug_trap, inhibit_mask, smm, HRQ, last_exception_type, nmi_handlers>>

\* Priority 3: INIT.  An application processor leaves the loop.
InitStage ==
  /\ pc = "init"
  /\ pc' = IF "INIT" \in Unmasked /\ ~bsp THEN "check" ELSE "trap"
  /\ IF "INIT" \in Unmasked THEN ResetCpu
     ELSE UNCHANGED <<pending_event, event_mask, async_event, activity_state, flags,
                      debug_trap, inhibit_mask, smm, last_exception_type, nmi_handlers>>
  /\ UNCHANGED HRQ

\* Priority 4: debug traps of the previous instruction.
TrapStage ==
  /\ pc = "trap"
  /\ \/ "debug" \notin inhibit_mask /\ debug_trap # {} /\ Raise("benign")
     \/ /\ "debug" \in inhibit_mask \/ debug_trap = {}
        /\ pc' = "external"
        /\ UNCHANGED <<pending_event, event_mask, async_event, activity_state, flags,
                       debug_trap, inhibit_mask, smm, HRQ, last_exception_type, nmi_handlers>>

Inhibited == "interrupts" \in inhibit_mask

\* Priority 5: NMI ...
AcceptNmi ==
  /\ pc = "external" /\ ~Inhibited /\ "NMI" \in Unmasked
  /\ pending_event' = pending_event \ {"NMI"}
  /\ event_mask' = event_mask \union {"NMI"}
  /\ nmi_handlers' = nmi_handlers \union {Mode}
  /\ StartInterrupt
  /\ pc' = "deliver_interrupt"
  /\ UNCHANGED <<async_event, flags, smm, HRQ, last_exception_type>>

\* ... external interrupts, of the local APIC first: the controller that is
\* acknowledged may announce the next one at once (more) ...
HandleExtInterrupt(more) ==
  /\ pc = "external" /\ ~Inhibited /\ "NMI" \notin Unmasked
  /\ Unmasked \intersect External # {}
  /\ LET acked == IF "LAPIC_INTR" \in pending_event THEN "LAPIC_INTR" ELSE "INTR"
     IN  IF more THEN signal_event(acked)
         ELSE pending_event' = pending_event \ {acked} /\ UNCHANGED async_event
  /\ StartInterrupt
  /\ pc' = "deliver_interrupt"
  /\ UNCHANGED <<event_mask, flags, smm, HRQ, last_exception_type, nmi_handlers>>

\* ... and the bus request, if there is nothing else.
NoInterrupt(again) ==
  /\ pc = "external"
  /\ Inhibited \/ Unmasked \intersect (External \union {"NMI"}) = {}
  /\ HRQ' = (HRQ /\ (Inhibited \/ again))
  /\ pc' = "tail"
  /\ UNCHANGED <<pending_event, event_mask, async_event, activity_state, flags,
                 debug_trap, inhibit_mask, smm, last_exception_type, nmi_handlers>>

\* Mutant of Tail: an event that was inhibited is forgotten.
TailForgetsInhibited ==
  /\ pc = "tail"
  /\ debug_trap' = IF tflag THEN debug_trap \union {"single_step"} ELSE debug_trap
  /\ async_event' = (async_event /\ (debug_trap' # {} \/ HRQ))
  /\ activity_state' = "ACTIVE"
  /\ pc' = "exec"
  /\ UNCHANGED <<pending_event, event_mask, flags, inhibit_mask, smm, HRQ,
                 last_exception_type, nmi_handlers>>

\* Mutant of Tail: the bus request is forgotten.
TailForgetsHrq ==
  /\ pc = "tail"
  /\ debug_trap' = IF tflag THEN debug_trap \union {"single_step"} ELSE debug_trap
  /\ async_event' = (async_event /\ (Unmasked # {} \/ debug_trap' # {}))
  /\ activity_state' = "ACTIVE"
  /\ pc' = "exec"
  /\ UNCHANGED <<pending_event, event_mask, flags, inhibit_mask, smm, HRQ,
                 last_exception_type, nmi_handlers>>

\* The end: single step, and the flag is cleared if nothing is left.
Tail ==
  /\ pc = "tail"
  /\ debug_trap' = IF tflag THEN debug_trap \union {"single_step"} ELSE debug_trap
  /\ async_event' = (async_event /\ (Unmasked # {} \/ debug_trap' # {} \/ HRQ))
  /\ activity_state' = "ACTIVE"
  /\ pc' = "exec"
  /\ UNCHANGED <<pending_event, event_mask, flags, inhibit_mask, smm, HRQ,
                 last_exception_type, nmi_handlers>>

-----------------------------------------------------------------------------
(* Instructions, by what they do to this state. *)

\* The loop executes one: handleAsyncEvent returned 0 or was not called.
CanExecute == pc = "exec" \/ (pc = "check" /\ ~async_event)

\* Instructions that complete; an inhibit lasts for one of them.
Execute == CanExecute /\ pc' = "check" /\ UNCHANGED HRQ

\* One that touches none of this.
Plain ==
  /\ Execute /\ inhibit_mask' = {}
  /\ UNCHANGED <<pending_event, event_mask, async_event, activity_state, flags,
                 debug_trap, smm, last_exception_type, nmi_handlers>>

STI ==
  /\ Execute
  /\ inhibit_mask' = IF iflag THEN {} ELSE {"interrupts"}
  /\ iflag' = TRUE /\ UNCHANGED tflag
  /\ event_mask' = IF iflag THEN event_mask ELSE MaskFor(TRUE)
  /\ async_event' = (async_event \/ (~iflag /\ pending_event \intersect External # {}))
  /\ UNCHANGED <<pending_event, activity_state, debug_trap, smm,
                 last_exception_type, nmi_handlers>>

\* Mutant of LoadSS: every one inhibits.
LoadSSAlways ==
  /\ Execute
  /\ inhibit_mask' = MovSS
  /\ UNCHANGED <<pending_event, event_mask, async_event, activity_state, flags,
                 debug_trap, smm, last_exception_type, nmi_handlers>>

\* Mutant of LoadSS: only debug traps are inhibited.
LoadSSDebugOnly ==
  /\ Execute
  /\ inhibit_mask' = {"debug"}
  /\ UNCHANGED <<pending_event, event_mask, async_event, activity_state, flags,
                 debug_trap, smm, last_exception_type, nmi_handlers>>

\* MOV SS and POP SS: a second one in a row does not inhibit.
LoadSS ==
  /\ Execute
  /\ inhibit_mask' = IF inhibit_mask = MovSS THEN {} ELSE MovSS
  /\ UNCHANGED <<pending_event, event_mask, async_event, activity_state, flags,
                 debug_trap, smm, last_exception_type, nmi_handlers>>

\* POPF, CLI.
LoadFlags(if, tf) ==
  /\ Execute /\ inhibit_mask' = {}
  /\ SetFlags(if, tf)
  /\ UNCHANGED <<pending_event, activity_state, debug_trap, smm,
                 last_exception_type, nmi_handlers>>

\* IRET unblocks NMIs first; it may fault after that ...
IretUnblocks ==
  /\ CanExecute /\ pc' = "iret"
  /\ event_mask' = event_mask \ {"NMI"}
  /\ async_event' = (async_event \/ "NMI" \in pending_event)
  /\ nmi_handlers' = nmi_handlers \ {Mode}
  /\ UNCHANGED <<pending_event, activity_state, flags, debug_trap, inhibit_mask,
                 smm, HRQ, last_exception_type>>

\* ... or load the flags.
IretLoads(if, tf) ==
  /\ pc = "iret" /\ pc' = "check"
  /\ inhibit_mask' = {}
  /\ SetFlags(if, tf)
  /\ UNCHANGED <<pending_event, activity_state, debug_trap, smm, HRQ,
                 last_exception_type, nmi_handlers>>

\* Mutant of Sleep: the loop is not told.
SleepQuietly(state) ==
  /\ Execute /\ inhibit_mask' = {}
  /\ activity_state' = state
  /\ UNCHANGED <<pending_event, event_mask, async_event, flags, debug_trap, smm,
                 last_exception_type, nmi_handlers>>

\* HLT, MWAIT: enter_sleep_state.
Sleep(state) ==
  /\ Execute /\ inhibit_mask' = {}
  /\ activity_state' = state
  /\ async_event' = TRUE
  /\ UNCHANGED <<pending_event, event_mask, flags, debug_trap, smm,
                 last_exception_type, nmi_handlers>>

\* Mutant of RSM: the blocking of NMIs is not restored.
RsmUnblocks(if, tf) ==
  /\ in_smm /\ in_smm' = FALSE
  /\ Execute /\ inhibit_mask' = {}
  /\ iflag' = if /\ tflag' = tf
  /\ event_mask' = (IF if = iflag THEN event_mask ELSE MaskFor(if)) \ {"SMI", "NMI"}
  /\ async_event' = (async_event \/ tf \/ pending_event \intersect {"SMI", "NMI"} # {}
                       \/ (if /\ ~iflag /\ pending_event \intersect External # {}))
  /\ UNCHANGED <<pending_event, activity_state, debug_trap, smm_nmi_blocked,
                 last_exception_type, nmi_handlers>>

\* RSM restores the flags from SMRAM, which the handler may have changed.
RSM(if, tf) ==
  /\ in_smm /\ in_smm' = FALSE
  /\ Execute /\ inhibit_mask' = {}
  /\ iflag' = if /\ tflag' = tf
  /\ event_mask' = ((IF if = iflag THEN event_mask ELSE MaskFor(if)) \ {"SMI", "NMI"})
                     \union (IF smm_nmi_blocked THEN {"NMI"} ELSE {})
  /\ async_event' = (async_event \/ tf \/ pending_event \intersect {"SMI", "NMI"} # {}
                       \/ (if /\ ~iflag /\ pending_event \intersect External # {}))
  /\ UNCHANGED <<pending_event, activity_state, debug_trap, smm_nmi_blocked,
                 last_exception_type, nmi_handlers>>

\* A state in SMRAM that cannot be restored (before or after the flags are
\* loaded) panics; the simulation may go on, and RSM ends in shutdown().
RsmFails(tf) ==
  /\ in_smm /\ in_smm' = FALSE
  /\ CanExecute /\ pc' = "check"
  /\ iflag' = FALSE /\ tflag' = tf
  /\ event_mask' = (MaskFor(FALSE) \ {"SMI", "NMI"})
                     \union (IF smm_nmi_blocked THEN {"NMI"} ELSE {})
  /\ activity_state' = "SHUTDOWN"
  /\ async_event' = TRUE
  /\ UNCHANGED <<pending_event, debug_trap, inhibit_mask, smm_nmi_blocked, HRQ,
                 last_exception_type, nmi_handlers>>

\* A task switch to a TSS with the T bit, a data or I/O breakpoint.
RecordTrap(trap) ==
  /\ Execute /\ inhibit_mask' = {}
  /\ debug_trap' = debug_trap \union {trap}
  /\ async_event' = TRUE
  /\ UNCHANGED <<pending_event, event_mask, activity_state, flags, smm,
                 last_exception_type, nmi_handlers>>

\* OUT to a port that resets the machine: 92h, 0xCF9, the keyboard controller,
\* ACPI.
GuestReset(hardware) ==
  /\ CanExecute /\ pc' = "check"
  /\ Reset(hardware)

Fault(t) == (CanExecute \/ pc = "iret") /\ Raise(t)

-----------------------------------------------------------------------------
Init ==
  /\ bsp \in BOOLEAN /\ reset_on_triple_fault \in BOOLEAN
  /\ pc = "check"
  /\ pending_event = {}
  /\ event_mask = IF bsp THEN External ELSE Events
  /\ async_event = ~bsp
  /\ activity_state = IF bsp THEN "ACTIVE" ELSE "WAIT_FOR_SIPI"
  /\ iflag = FALSE /\ tflag = FALSE
  /\ debug_trap = {} /\ inhibit_mask = {}
  /\ in_smm = FALSE /\ smm_nmi_blocked = FALSE
  /\ HRQ = FALSE
  /\ last_exception_type = "none"
  /\ nmi_handlers = {}

Environment ==
  \/ \E e \in Signals : Signal(e)
  \/ clear_INTR \/ deliver_INIT \/ deliver_SIPI \/ wakeup_monitor
  \/ \E val \in BOOLEAN : set_HRQ(val)
  \/ \E hardware \in BOOLEAN : OutsideReset(hardware)

HandleAsyncEvent ==
  \/ BeginEvents \/ SmiStage \/ InitStage \/ TrapStage \/ AcceptNmi \/ Tail
  \/ \E b \in BOOLEAN : SleepDma(b) \/ HandleExtInterrupt(b) \/ NoInterrupt(b)
  \/ \E t \in Faults : DeliveryFaults(t)
  \/ \E gate \in Gates : Deliver(gate)

Instruction ==
  \/ Plain \/ STI \/ LoadSS \/ IretUnblocks
  \/ \E if, tf \in BOOLEAN : LoadFlags(if, tf) \/ IretLoads(if, tf) \/ RSM(if, tf)
  \/ \E tf \in BOOLEAN : RsmFails(tf)
  \/ \E state \in Sleeps : Sleep(state)
  \/ \E trap \in Traps : RecordTrap(trap)
  \/ \E hardware \in BOOLEAN : GuestReset(hardware)
  \/ \E t \in Faults : Fault(t)

Next == (Environment \/ HandleAsyncEvent \/ Instruction) /\ UNCHANGED config

Spec == Init /\ [][Next]_vars

\* The instruction loop goes on as long as it has something to do.
FairSpec == Spec /\ WF_vars((HandleAsyncEvent \/ Instruction) /\ UNCHANGED config)

-----------------------------------------------------------------------------
(* Properties. *)

\* Types of the variables.
TypeOK ==
  /\ bsp \in BOOLEAN /\ reset_on_triple_fault \in BOOLEAN
  /\ pc \in {"check", "smi", "init", "trap", "external", "tail", "exec", "iret",
             "deliver_exception", "deliver_interrupt"}
  /\ pending_event \subseteq Events /\ event_mask \subseteq Events
  /\ activity_state \in Activities
  /\ debug_trap \subseteq AllTraps
  /\ inhibit_mask \in {{}, {"interrupts"}, MovSS}
  /\ async_event \in BOOLEAN /\ iflag \in BOOLEAN /\ tflag \in BOOLEAN
  /\ in_smm \in BOOLEAN /\ smm_nmi_blocked \in BOOLEAN /\ HRQ \in BOOLEAN
  /\ last_exception_type \in Faults \union {"none", "double_fault"}
  /\ nmi_handlers \subseteq {"normal", "smm"}

\* Nothing deliverable is overlooked: an unmasked event, a recorded debug trap
\* or TF always comes with async_event.  async_event is a summary kept by hand
\* in every place that signals, unmasks, inhibits or handles an event.
NoLostEvent == Unmasked # {} \/ debug_trap # {} \/ tflag => async_event

\* A processor that sleeps, is shut down or waits for a SIPI executes no
\* instruction: only async_event keeps the loop from it.
SleepersDoNotRun == CanExecute => activity_state = "ACTIVE"

\* The event mask that the loop consults mirrors EFLAGS.IF through interrupts,
\* shutdown, SMM entry and exit, and reset.
MaskMirrorsIF ==
  IF iflag THEN event_mask \intersect External = {} ELSE External \subseteq event_mask

\* An NMI handler is not interrupted by another NMI before it executes IRET,
\* although SMM may interrupt it, take an NMI of its own and execute IRET.
NmiNotNested == Mode \in nmi_handlers => "NMI" \in event_mask

\* The bootstrap processor knows of the bus request of the DMA controller.
DmaNoticed == bsp /\ HRQ => async_event

\* A bus request is not forgotten through inhibited boundaries, sleep, traps,
\* exceptions and SMM.  Only a reset of the processor forgets it, whether it comes
\* from an INIT, a triple fault, the guest or the user: it clears async_event
\* and may leave HRQ up.
BusRequestKept == [][DmaNoticed => DmaNoticed' \/ ResetCpu]_vars

\* An NMI that is not blocked is taken, whatever the guest executes: interrupt
\* shadows, traps, faults and sleep states do not keep it out.  Holds for a
\* machine that resets on a triple fault; one that shuts down keeps the double
\* fault on record (see ThirdExceptionInDelivery), and a single-step trap then
\* shuts it down again before it ever gets to the NMI.
NmiServed ==
  reset_on_triple_fault /\ "NMI" \in Unmasked ~> "NMI" \notin Unmasked

\* exception(): a third exception with no resolution is one that is raised
\* while the second is being delivered.
ThirdExceptionInDelivery ==
  last_exception_type # "none" => pc = "deliver_exception" \/ activity_state = "SHUTDOWN"
=============================================================================
