--------------------------- MODULE CpuEventsProofs ---------------------------
(***************************************************************************)
(* Proofs about CpuEvents, for every configuration of the processor: no    *)
(* deliverable event is overlooked, sleepers do not run, the event mask    *)
(* mirrors EFLAGS.IF, and NMI handlers do not nest.                        *)
(***************************************************************************)
EXTENDS CpuEvents, TLAPS

\* Asleep, the processor keeps async_event; instructions, gates and the end
\* of IRET are reached awake.
SleepInv ==
  /\ activity_state # "ACTIVE" => async_event
  /\ pc \in {"exec", "iret", "deliver_exception", "deliver_interrupt"}
       => activity_state = "ACTIVE"

\* Waiting for a SIPI follows a reset, and nothing happens before the SIPI.
SipiInv ==
  activity_state = "WAIT_FOR_SIPI" => pc = "check" /\ ~in_smm /\ nmi_handlers = {}

\* SMM is not entered twice, and remembers that it interrupted an NMI handler.
SmmInv ==
  in_smm => /\ "SMI" \in event_mask
            /\ "normal" \in nmi_handlers => smm_nmi_blocked

\* The inductive invariant.
CInv == TypeOK /\ NoLostEvent /\ SleepInv /\ SipiInv /\ MaskMirrorsIF /\ NmiNotNested /\ SmmInv

-----------------------------------------------------------------------------
\* A reset establishes the invariant, wherever the loop then goes on.
LEMMA ResetKeeps ==
  ASSUME CInv, ResetCpu, HRQ' \in BOOLEAN, UNCHANGED config,
         pc' \in {"check", "smi", "trap"}, pc' # "check" => bsp
  PROVE  CInv'
<1> USE CpuAssumption DEF config, ResetCpu
<1>1. TypeOK'
  BY DEF CInv, TypeOK, Mode, Events, External, Activities, AllTraps, Faults, MovSS
<1>2. NoLostEvent'
  BY DEF CInv, NoLostEvent, Unmasked, TypeOK, External
<1>3. (SleepInv /\ SipiInv)'
  BY DEF CInv, SleepInv, SipiInv, NoLostEvent, Unmasked
<1>4. MaskMirrorsIF'
  BY DEF CInv, MaskMirrorsIF, External, Events
<1>5. (NmiNotNested /\ SmmInv)'
  BY DEF CInv, NmiNotNested, SmmInv, SleepInv, SipiInv, Mode, Unmasked, External
<1> QED
  BY <1>1, <1>2, <1>3, <1>4, <1>5 DEF CInv

\* An exception keeps the invariant wherever it is raised.
LEMMA RaiseKeeps == ASSUME NEW t \in Faults, CInv, Raise(t), UNCHANGED config PROVE CInv'
<1>1. CASE last_exception_type = "double_fault" /\ reset_on_triple_fault
  BY <1>1, ResetKeeps DEF Raise, Reset, CInv, TypeOK
<1>2. CASE last_exception_type # "double_fault"
  <2> USE CpuAssumption DEF config
  <2>0. /\ last_exception_type' \in {t, "double_fault"}
        /\ activity_state' = "ACTIVE"
        /\ debug_trap' = {} /\ inhibit_mask' = {}
        /\ pc' = "deliver_exception"
        /\ UNCHANGED <<pending_event, event_mask, async_event, iflag, tflag, in_smm,
                       smm_nmi_blocked, HRQ, nmi_handlers>>
    BY <1>2 DEF Raise, StartInterrupt, flags, smm
  <2>1. TypeOK'
    BY <2>0 DEF CInv, TypeOK, Mode, Events, External, Activities, AllTraps, Faults, MovSS
  <2>2. NoLostEvent'
    BY <2>0 DEF CInv, NoLostEvent, Unmasked, TypeOK, External
  <2>3. (SleepInv /\ SipiInv)'
    BY <2>0 DEF CInv, SleepInv, SipiInv, NoLostEvent, Unmasked
  <2>4. MaskMirrorsIF'
    BY <2>0 DEF CInv, MaskMirrorsIF, External, Events
  <2>5. (NmiNotNested /\ SmmInv)'
    BY <2>0 DEF CInv, NmiNotNested, SmmInv, SleepInv, SipiInv, Mode, Unmasked, External
  <2> QED
    BY <2>1, <2>2, <2>3, <2>4, <2>5 DEF CInv
<1>3. CASE last_exception_type = "double_fault" /\ ~reset_on_triple_fault
  <2> USE CpuAssumption DEF config
  <2>0. /\ activity_state' = "SHUTDOWN"
        /\ iflag' = FALSE /\ event_mask' = event_mask \union External
        /\ async_event' = TRUE
        /\ pc' = "check"
        /\ UNCHANGED <<pending_event, tflag, debug_trap, inhibit_mask, in_smm,
                       smm_nmi_blocked, HRQ, last_exception_type, nmi_handlers>>
    BY <1>3 DEF Raise, MaskFor, smm
  <2>1. TypeOK'
    BY <2>0 DEF CInv, TypeOK, Mode, Events, External, Activities, AllTraps, Faults, MovSS
  <2>2. NoLostEvent'
    BY <2>0 DEF CInv, NoLostEvent, Unmasked, TypeOK, External
  <2>3. (SleepInv /\ SipiInv)'
    BY <2>0 DEF CInv, SleepInv, SipiInv, NoLostEvent, Unmasked
  <2>4. MaskMirrorsIF'
    BY <2>0 DEF CInv, MaskMirrorsIF, External, Events
  <2>5. (NmiNotNested /\ SmmInv)'
    BY <2>0 DEF CInv, NmiNotNested, SmmInv, SleepInv, SipiInv, Mode, Unmasked, External
  <2> QED
    BY <2>1, <2>2, <2>3, <2>4, <2>5 DEF CInv
<1> QED
  BY <1>1, <1>2, <1>3

\* Every step keeps it.
LEMMA StepKeeps == CInv /\ [Next]_vars => CInv'
<1> SUFFICES ASSUME CInv, [Next]_vars PROVE CInv'
  OBVIOUS
<1>0. UNCHANGED config
  BY DEF Next, vars
<1> USE CpuAssumption, <1>0 DEF flags, smm, config
<1>1. ASSUME NEW e \in Signals, Signal(e) PROVE CInv'
  <2> USE <1>1 DEF Signal, signal_event, Outside
  <2>1. TypeOK'
    BY DEF CInv, TypeOK, Mode, Events, External, Activities, AllTraps, Faults, MovSS
  <2>2. NoLostEvent'
    BY DEF CInv, NoLostEvent, Unmasked, TypeOK, External
  <2>3. (SleepInv /\ SipiInv)'
    BY DEF CInv, SleepInv, SipiInv, NoLostEvent, Unmasked
  <2>4. MaskMirrorsIF'
    BY DEF CInv, MaskMirrorsIF, External, Events
  <2>5. (NmiNotNested /\ SmmInv)'
    BY DEF CInv, NmiNotNested, SmmInv, SleepInv, SipiInv, Mode, Unmasked, External
  <2> QED
    BY <2>1, <2>2, <2>3, <2>4, <2>5 DEF CInv
<1>2. ASSUME clear_INTR PROVE CInv'
  BY <1>2 DEF clear_INTR, Outside, CInv, TypeOK, NoLostEvent, SleepInv, SipiInv, MaskMirrorsIF,
     NmiNotNested, SmmInv, Unmasked, Mode, Events, External, Activities, AllTraps, Faults, MovSS
<1>3. ASSUME deliver_INIT PROVE CInv'
  <2> USE <1>3 DEF deliver_INIT, signal_event, Outside
  <2>1. TypeOK'
    BY DEF CInv, TypeOK, Mode, Events, External, Activities, AllTraps, Faults, MovSS
  <2>2. NoLostEvent'
    BY DEF CInv, NoLostEvent, Unmasked, TypeOK, External
  <2>3. (SleepInv /\ SipiInv)'
    BY DEF CInv, SleepInv, SipiInv, NoLostEvent, Unmasked
  <2>4. MaskMirrorsIF'
    BY DEF CInv, MaskMirrorsIF, External, Events
  <2>5. (NmiNotNested /\ SmmInv)'
    BY DEF CInv, NmiNotNested, SmmInv, SleepInv, SipiInv, Mode, Unmasked, External
  <2> QED
    BY <2>1, <2>2, <2>3, <2>4, <2>5 DEF CInv
<1>4. ASSUME deliver_SIPI PROVE CInv'
  <2> USE <1>4 DEF deliver_SIPI, Outside
  <2>1. TypeOK'
    BY DEF CInv, TypeOK, Mode, Events, External, Activities, AllTraps, Faults, MovSS
  <2>2. NoLostEvent'
    BY DEF CInv, NoLostEvent, Unmasked, TypeOK, External
  <2>3. (SleepInv /\ SipiInv)'
    BY DEF CInv, SleepInv, SipiInv, NoLostEvent, Unmasked
  <2>4. MaskMirrorsIF'
    BY DEF CInv, MaskMirrorsIF, External, Events
  <2>5. (NmiNotNested /\ SmmInv)'
    BY DEF CInv, NmiNotNested, SmmInv, SleepInv, SipiInv, Mode, Unmasked, External
  <2> QED
    BY <2>1, <2>2, <2>3, <2>4, <2>5 DEF CInv
<1>5. ASSUME wakeup_monitor PROVE CInv'
  BY <1>5 DEF wakeup_monitor, Awake, Outside, CInv, TypeOK, NoLostEvent, SleepInv, SipiInv, MaskMirrorsIF,
     NmiNotNested, SmmInv, Unmasked, Mode, Events, External, Activities, AllTraps, Faults, MovSS
<1>6. ASSUME NEW val \in BOOLEAN, set_HRQ(val) PROVE CInv'
  BY <1>6 DEF set_HRQ, Outside, CInv, TypeOK, NoLostEvent, SleepInv, SipiInv, MaskMirrorsIF,
     NmiNotNested, SmmInv, Unmasked, Mode, Events, External, Activities, AllTraps, Faults, MovSS
<1>7. ASSUME BeginEvents PROVE CInv'
  <2> USE <1>7 DEF BeginEvents, Awake, WakesUp
  <2>1. TypeOK'
    BY DEF CInv, TypeOK, Mode, Events, External, Activities, AllTraps, Faults, MovSS
  <2>2. NoLostEvent'
    BY DEF CInv, NoLostEvent, Unmasked, TypeOK, External
  <2>3. (SleepInv /\ SipiInv)'
    BY DEF CInv, SleepInv, SipiInv, NoLostEvent, Unmasked
  <2>4. MaskMirrorsIF'
    BY DEF CInv, MaskMirrorsIF, External, Events
  <2>5. (NmiNotNested /\ SmmInv)'
    BY DEF CInv, NmiNotNested, SmmInv, SleepInv, SipiInv, Mode, Unmasked, External
  <2> QED
    BY <2>1, <2>2, <2>3, <2>4, <2>5 DEF CInv
<1>8. ASSUME NEW b \in BOOLEAN, SleepDma(b) PROVE CInv'
  BY <1>8 DEF SleepDma, CInv, TypeOK, NoLostEvent, SleepInv, SipiInv, MaskMirrorsIF,
     NmiNotNested, SmmInv, Unmasked, Mode, Events, External, Activities, AllTraps, Faults, MovSS
<1>9. ASSUME SmiStage PROVE CInv'
  <2>1. CASE "task_switch" \in debug_trap
    BY <1>9, <2>1, RaiseKeeps DEF SmiStage, Faults
  <2>2. CASE "task_switch" \notin debug_trap /\ "SMI" \in Unmasked
    <3> USE <2>2 DEF Awake
    <3>0. /\ pc' = "init" /\ pending_event' = pending_event \ {"SMI"}
          /\ in_smm' = TRUE /\ smm_nmi_blocked' = ("NMI" \in event_mask)
          /\ event_mask' = event_mask \union {"SMI", "NMI"} \union External
          /\ iflag' = FALSE /\ tflag' = FALSE
          /\ activity_state' = Awake
          /\ nmi_handlers' = nmi_handlers \ {"smm"}
          /\ UNCHANGED <<async_event, debug_trap, inhibit_mask, HRQ, last_exception_type>>
          /\ pc = "smi"
      BY <1>9 DEF SmiStage
    <3>1. TypeOK'
      <4>1. /\ pending_event' \subseteq Events /\ event_mask' \subseteq Events
            /\ nmi_handlers' \subseteq {"normal", "smm"}
        BY <3>0 DEF CInv, TypeOK, Events, External
      <4>2. activity_state' \in Activities /\ pc' = "init"
        BY <3>0 DEF CInv, TypeOK, Activities
      <4>3. smm_nmi_blocked' \in BOOLEAN
        BY <3>0
      <4> QED
        BY <3>0, <4>1, <4>2, <4>3 DEF CInv, TypeOK, Faults
    <3>2. NoLostEvent'
      BY <3>0 DEF CInv, NoLostEvent, Unmasked, TypeOK, External
    <3>3. (SleepInv /\ SipiInv)'
      BY <3>0 DEF CInv, SleepInv, SipiInv, NoLostEvent, Unmasked
    <3>4. MaskMirrorsIF'
      BY <3>0 DEF CInv, MaskMirrorsIF, External, Events
    <3>5. (NmiNotNested /\ SmmInv)'
      BY <3>0 DEF CInv, NmiNotNested, SmmInv, SleepInv, SipiInv, Mode, Unmasked, External
    <3> QED
      BY <3>1, <3>2, <3>3, <3>4, <3>5 DEF CInv
  <2>3. CASE "task_switch" \notin debug_trap /\ "SMI" \notin Unmasked
    <3> USE <2>3
    <3>0. /\ pc = "smi" /\ pc' = "init"
          /\ UNCHANGED <<pending_event, event_mask, async_event, activity_state,
                         iflag, tflag, debug_trap, inhibit_mask, in_smm,
                         smm_nmi_blocked, HRQ, last_exception_type, nmi_handlers>>
      BY <1>9 DEF SmiStage
    <3> QED
      BY <3>0 DEF CInv, TypeOK, NoLostEvent, SleepInv, SipiInv, MaskMirrorsIF,
         NmiNotNested, SmmInv, Unmasked, Mode, Events, External, Activities, AllTraps, Faults, MovSS
  <2> QED
    BY <2>1, <2>2, <2>3
<1>10. ASSUME InitStage PROVE CInv'
  <2>1. CASE "INIT" \in Unmasked
    <3>1. /\ pc = "init" /\ ResetCpu /\ UNCHANGED HRQ
          /\ pc' = IF bsp THEN "trap" ELSE "check"
      BY <1>10, <2>1 DEF InitStage
    <3> QED
      BY <3>1, ResetKeeps DEF CInv, TypeOK
  <2>2. CASE "INIT" \notin Unmasked
    <3> USE <2>2
    <3>0. /\ pc = "init" /\ pc' = "trap"
          /\ UNCHANGED <<pending_event, event_mask, async_event, activity_state,
                         iflag, tflag, debug_trap, inhibit_mask, in_smm,
                         smm_nmi_blocked, HRQ, last_exception_type, nmi_handlers>>
      BY <1>10 DEF InitStage
    <3> QED
      BY <3>0 DEF CInv, TypeOK, NoLostEvent, SleepInv, SipiInv, MaskMirrorsIF,
         NmiNotNested, SmmInv, Unmasked, Mode, Events, External, Activities, AllTraps, Faults, MovSS
  <2> QED
    BY <2>1, <2>2
<1>11. ASSUME TrapStage PROVE CInv'
  <2>1. CASE "debug" \notin inhibit_mask /\ debug_trap # {}
    BY <1>11, <2>1, RaiseKeeps DEF TrapStage, Faults
  <2>2. CASE "debug" \in inhibit_mask \/ debug_trap = {}
    <3> USE <2>2
    <3>0. /\ pc = "trap" /\ pc' = "external"
          /\ UNCHANGED <<pending_event, event_mask, async_event, activity_state,
                         iflag, tflag, debug_trap, inhibit_mask, in_smm,
                         smm_nmi_blocked, HRQ, last_exception_type, nmi_handlers>>
      BY <1>11 DEF TrapStage
    <3> QED
      BY <3>0 DEF CInv, TypeOK, NoLostEvent, SleepInv, SipiInv, MaskMirrorsIF,
         NmiNotNested, SmmInv, Unmasked, Mode, Events, External, Activities, AllTraps, Faults, MovSS
  <2> QED
    BY <2>1, <2>2
<1>12. ASSUME AcceptNmi PROVE CInv'
  <2> USE <1>12 DEF AcceptNmi, StartInterrupt, Inhibited
  <2>1. TypeOK'
    BY DEF CInv, TypeOK, Mode, Events, External, Activities, AllTraps, Faults, MovSS
  <2>2. NoLostEvent'
    BY DEF CInv, NoLostEvent, Unmasked, TypeOK, External
  <2>3. (SleepInv /\ SipiInv)'
    BY DEF CInv, SleepInv, SipiInv, NoLostEvent, Unmasked
  <2>4. MaskMirrorsIF'
    BY DEF CInv, MaskMirrorsIF, External, Events
  <2>5. (NmiNotNested /\ SmmInv)'
    BY DEF CInv, NmiNotNested, SmmInv, SleepInv, SipiInv, Mode, Unmasked, External
  <2> QED
    BY <2>1, <2>2, <2>3, <2>4, <2>5 DEF CInv
<1>13. ASSUME NEW b \in BOOLEAN, HandleExtInterrupt(b) PROVE CInv'
  <2> USE <1>13 DEF HandleExtInterrupt, signal_event, StartInterrupt
  <2>1. TypeOK'
    BY DEF CInv, TypeOK, Mode, Events, External, Activities, AllTraps, Faults, MovSS
  <2>2. NoLostEvent'
    BY DEF CInv, NoLostEvent, Unmasked, TypeOK, External
  <2>3. (SleepInv /\ SipiInv)'
    BY DEF CInv, SleepInv, SipiInv, NoLostEvent, Unmasked
  <2>4. MaskMirrorsIF'
    BY DEF CInv, MaskMirrorsIF, External, Events
  <2>5. (NmiNotNested /\ SmmInv)'
    BY DEF CInv, NmiNotNested, SmmInv, SleepInv, SipiInv, Mode, Unmasked, External
  <2> QED
    BY <2>1, <2>2, <2>3, <2>4, <2>5 DEF CInv
<1>14. ASSUME NEW b \in BOOLEAN, NoInterrupt(b) PROVE CInv'
  BY <1>14 DEF NoInterrupt, Inhibited, CInv, TypeOK, NoLostEvent, SleepInv, SipiInv, MaskMirrorsIF,
     NmiNotNested, SmmInv, Unmasked, Mode, Events, External, Activities, AllTraps, Faults, MovSS
<1>15. ASSUME Tail PROVE CInv'
  <2> USE <1>15 DEF Tail
  <2>1. TypeOK'
    BY DEF CInv, TypeOK, Mode, Events, External, Activities, AllTraps, Faults, MovSS
  <2>2. NoLostEvent'
    BY DEF CInv, NoLostEvent, Unmasked, TypeOK, External
  <2>3. (SleepInv /\ SipiInv)'
    BY DEF CInv, SleepInv, SipiInv, NoLostEvent, Unmasked
  <2>4. MaskMirrorsIF'
    BY DEF CInv, MaskMirrorsIF, External, Events
  <2>5. (NmiNotNested /\ SmmInv)'
    BY DEF CInv, NmiNotNested, SmmInv, SleepInv, SipiInv, Mode, Unmasked, External
  <2> QED
    BY <2>1, <2>2, <2>3, <2>4, <2>5 DEF CInv
<1>16. ASSUME NEW t \in Faults, DeliveryFaults(t) PROVE CInv'
  BY <1>16, RaiseKeeps DEF DeliveryFaults
<1>17. ASSUME NEW gate \in Gates, Deliver(gate) PROVE CInv'
  <2> USE <1>17 DEF Deliver, MaskFor
  <2>1. TypeOK'
    <3>1. event_mask' \subseteq Events
      BY DEF CInv, TypeOK, Events, External
    <3>2. (iflag \in BOOLEAN /\ tflag \in BOOLEAN)'
      BY DEF CInv, TypeOK
    <3>3. pc' \in {"check", "tail"} /\ last_exception_type' \in {last_exception_type, "none"}
      OBVIOUS
    <3> QED
      BY <3>1, <3>2, <3>3 DEF CInv, TypeOK
  <2>2. NoLostEvent'
    BY DEF CInv, NoLostEvent, Unmasked, TypeOK, External
  <2>3. (SleepInv /\ SipiInv)'
    BY DEF CInv, SleepInv, SipiInv, NoLostEvent, Unmasked
  <2>4. MaskMirrorsIF'
    BY DEF CInv, MaskMirrorsIF, External, Events
  <2>5. (NmiNotNested /\ SmmInv)'
    BY DEF CInv, NmiNotNested, SmmInv, SleepInv, SipiInv, Mode, Unmasked, External
  <2> QED
    BY <2>1, <2>2, <2>3, <2>4, <2>5 DEF CInv
<1>18. ASSUME Plain PROVE CInv'
  BY <1>18 DEF Plain, Execute, CanExecute, CInv, TypeOK, NoLostEvent, SleepInv, SipiInv, MaskMirrorsIF,
     NmiNotNested, SmmInv, Unmasked, Mode, Events, External, Activities, AllTraps, Faults, MovSS
<1>19. ASSUME STI PROVE CInv'
  <2> USE <1>19 DEF STI, MaskFor, Execute, CanExecute
  <2>1. TypeOK'
    BY DEF CInv, TypeOK, Mode, Events, External, Activities, AllTraps, Faults, MovSS
  <2>2. NoLostEvent'
    BY DEF CInv, NoLostEvent, Unmasked, TypeOK, External
  <2>3. (SleepInv /\ SipiInv)'
    BY DEF CInv, SleepInv, SipiInv, NoLostEvent, Unmasked
  <2>4. MaskMirrorsIF'
    BY DEF CInv, MaskMirrorsIF, External, Events
  <2>5. (NmiNotNested /\ SmmInv)'
    BY DEF CInv, NmiNotNested, SmmInv, SleepInv, SipiInv, Mode, Unmasked, External
  <2> QED
    BY <2>1, <2>2, <2>3, <2>4, <2>5 DEF CInv
<1>20. ASSUME LoadSS PROVE CInv'
  BY <1>20 DEF LoadSS, Execute, CanExecute, CInv, TypeOK, NoLostEvent, SleepInv, SipiInv, MaskMirrorsIF,
     NmiNotNested, SmmInv, Unmasked, Mode, Events, External, Activities, AllTraps, Faults, MovSS
<1>21. ASSUME IretUnblocks PROVE CInv'
  <2> USE <1>21 DEF IretUnblocks, CanExecute
  <2>1. TypeOK'
    BY DEF CInv, TypeOK, Mode, Events, External, Activities, AllTraps, Faults, MovSS
  <2>2. NoLostEvent'
    BY DEF CInv, NoLostEvent, Unmasked, TypeOK, External
  <2>3. (SleepInv /\ SipiInv)'
    BY DEF CInv, SleepInv, SipiInv, NoLostEvent, Unmasked
  <2>4. MaskMirrorsIF'
    BY DEF CInv, MaskMirrorsIF, External, Events
  <2>5. (NmiNotNested /\ SmmInv)'
    BY DEF CInv, NmiNotNested, SmmInv, SleepInv, SipiInv, Mode, Unmasked, External
  <2> QED
    BY <2>1, <2>2, <2>3, <2>4, <2>5 DEF CInv
<1>22. ASSUME NEW if \in BOOLEAN, NEW tf \in BOOLEAN, LoadFlags(if, tf) PROVE CInv'
  <2> USE <1>22 DEF LoadFlags, SetFlags, MaskFor, Execute, CanExecute
  <2>1. TypeOK'
    BY DEF CInv, TypeOK, Mode, Events, External, Activities, AllTraps, Faults, MovSS
  <2>2. NoLostEvent'
    BY DEF CInv, NoLostEvent, Unmasked, TypeOK, External
  <2>3. (SleepInv /\ SipiInv)'
    BY DEF CInv, SleepInv, SipiInv, NoLostEvent, Unmasked
  <2>4. MaskMirrorsIF'
    BY DEF CInv, MaskMirrorsIF, External, Events
  <2>5. (NmiNotNested /\ SmmInv)'
    BY DEF CInv, NmiNotNested, SmmInv, SleepInv, SipiInv, Mode, Unmasked, External
  <2> QED
    BY <2>1, <2>2, <2>3, <2>4, <2>5 DEF CInv
<1>23. ASSUME NEW if \in BOOLEAN, NEW tf \in BOOLEAN, IretLoads(if, tf) PROVE CInv'
  <2> USE <1>23 DEF IretLoads, SetFlags, MaskFor
  <2>1. TypeOK'
    BY DEF CInv, TypeOK, Mode, Events, External, Activities, AllTraps, Faults, MovSS
  <2>2. NoLostEvent'
    BY DEF CInv, NoLostEvent, Unmasked, TypeOK, External
  <2>3. (SleepInv /\ SipiInv)'
    BY DEF CInv, SleepInv, SipiInv, NoLostEvent, Unmasked
  <2>4. MaskMirrorsIF'
    BY DEF CInv, MaskMirrorsIF, External, Events
  <2>5. (NmiNotNested /\ SmmInv)'
    BY DEF CInv, NmiNotNested, SmmInv, SleepInv, SipiInv, Mode, Unmasked, External
  <2> QED
    BY <2>1, <2>2, <2>3, <2>4, <2>5 DEF CInv
<1>24. ASSUME NEW if \in BOOLEAN, NEW tf \in BOOLEAN, RSM(if, tf) PROVE CInv'
  <2> USE <1>24 DEF RSM, MaskFor, Execute, CanExecute
  <2>1. TypeOK'
    BY DEF CInv, TypeOK, Mode, Events, External, Activities, AllTraps, Faults, MovSS
  <2>2. NoLostEvent'
    BY DEF CInv, NoLostEvent, Unmasked, TypeOK, External
  <2>3. (SleepInv /\ SipiInv)'
    BY DEF CInv, SleepInv, SipiInv, NoLostEvent, Unmasked
  <2>4. MaskMirrorsIF'
    BY DEF CInv, MaskMirrorsIF, External, Events
  <2>5. (NmiNotNested /\ SmmInv)'
    BY DEF CInv, NmiNotNested, SmmInv, SleepInv, SipiInv, Mode, Unmasked, External
  <2> QED
    BY <2>1, <2>2, <2>3, <2>4, <2>5 DEF CInv
<1>25. ASSUME NEW state \in Sleeps, Sleep(state) PROVE CInv'
  BY <1>25 DEF Sleep, Execute, CanExecute, CInv, TypeOK, NoLostEvent, SleepInv, SipiInv, MaskMirrorsIF,
     NmiNotNested, SmmInv, Unmasked, Mode, Events, External, Activities, AllTraps, Faults, MovSS
<1>26. ASSUME NEW trap \in Traps, RecordTrap(trap) PROVE CInv'
  BY <1>26 DEF RecordTrap, Execute, CanExecute, CInv, TypeOK, NoLostEvent, SleepInv, SipiInv, MaskMirrorsIF,
     NmiNotNested, SmmInv, Unmasked, Mode, Events, External, Activities, AllTraps, Faults, MovSS
<1>27. ASSUME NEW t \in Faults, Fault(t) PROVE CInv'
  BY <1>27, RaiseKeeps DEF Fault
<1>28. ASSUME NEW tf \in BOOLEAN, RsmFails(tf) PROVE CInv'
  <2> USE <1>28 DEF RsmFails, MaskFor, CanExecute
  <2>1. TypeOK'
    BY DEF CInv, TypeOK, Mode, Events, External, Activities, AllTraps, Faults, MovSS
  <2>2. NoLostEvent'
    BY DEF CInv, NoLostEvent, Unmasked, TypeOK, External
  <2>3. (SleepInv /\ SipiInv)'
    BY DEF CInv, SleepInv, SipiInv, NoLostEvent, Unmasked
  <2>4. MaskMirrorsIF'
    BY DEF CInv, MaskMirrorsIF, External, Events
  <2>5. (NmiNotNested /\ SmmInv)'
    BY DEF CInv, NmiNotNested, SmmInv, SleepInv, SipiInv, Mode, Unmasked, External
  <2> QED
    BY <2>1, <2>2, <2>3, <2>4, <2>5 DEF CInv
<1>29. ASSUME NEW hardware \in BOOLEAN, OutsideReset(hardware) PROVE CInv'
  BY <1>29, ResetKeeps DEF OutsideReset, Reset, CInv, TypeOK
<1>30. ASSUME NEW hardware \in BOOLEAN, GuestReset(hardware) PROVE CInv'
  BY <1>30, ResetKeeps DEF GuestReset, Reset, CInv, TypeOK
<1>31. CASE UNCHANGED vars
  BY <1>31 DEF vars, CInv, TypeOK, NoLostEvent, SleepInv, SipiInv, MaskMirrorsIF,
     NmiNotNested, SmmInv, Unmasked, Mode
<1> QED
  BY <1>1, <1>2, <1>3, <1>4, <1>5, <1>6, <1>7, <1>8, <1>9, <1>10, <1>11, <1>12, <1>13,
     <1>14, <1>15, <1>16, <1>17, <1>18, <1>19, <1>20, <1>21, <1>22, <1>23, <1>24, <1>25,
     <1>26, <1>27, <1>28, <1>29, <1>30, <1>31
     DEF Next, Environment, HandleAsyncEvent, Instruction

\* CInv is an invariant of the processor, for every set of events, gates,
\* traps and sleep states, bootstrap processor or not.
THEOREM CpuInvariant == Spec => []CInv
<1>1. Init => CInv
  BY CpuAssumption DEF Init, CInv, TypeOK, NoLostEvent, SleepInv, SipiInv, MaskMirrorsIF,
     NmiNotNested, SmmInv, Unmasked, Mode, Events, External, Activities, AllTraps, Faults
<1> QED
  BY <1>1, StepKeeps, PTL DEF Spec

\* Type correctness of the event state of handleAsyncEvent and exception().
THEOREM TypeCorrect == Spec => []TypeOK
<1>1. CInv => TypeOK
  BY DEF CInv
<1> QED
  BY <1>1, CpuInvariant, PTL

\* async_event, the summary that signal_event, unmask_event, setEFlags and the
\* end of handleAsyncEvent keep by hand, never misses a deliverable event.
THEOREM EventsNotLost == Spec => []NoLostEvent
<1>1. CInv => NoLostEvent
  BY DEF CInv
<1> QED
  BY <1>1, CpuInvariant, PTL

\* cpu_loop executes no instruction while the processor sleeps, is shut down
\* or waits for a SIPI.
THEOREM SleepersStop == Spec => []SleepersDoNotRun
<1>1. CInv => SleepersDoNotRun
  BY DEF CInv, TypeOK, SleepInv, SleepersDoNotRun, CanExecute
<1> QED
  BY <1>1, CpuInvariant, PTL

\* The interrupt bits of event_mask follow EFLAGS.IF through
\* handleInterruptMaskChange, SMM, shutdown and reset.
THEOREM MaskFollowsIF == Spec => []MaskMirrorsIF
<1>1. CInv => MaskMirrorsIF
  BY DEF CInv
<1> QED
  BY <1>1, CpuInvariant, PTL

\* NMIs stay blocked from their acceptance to the IRET of their handler, with
\* SMM entered and left (RSM) in between.
THEOREM NmiHandlersDoNotNest == Spec => []NmiNotNested
<1>1. CInv => NmiNotNested
  BY DEF CInv
<1> QED
  BY <1>1, CpuInvariant, PTL

\* set_HRQ(1) is remembered in async_event until the bus has been granted; of
\* all steps only those that reset the processor forget it.
THEOREM BusRequestsAreKept == Spec => BusRequestKept
<1>1. CInv /\ [Next]_vars => [DmaNoticed => DmaNoticed' \/ ResetCpu]_vars
  <2> SUFFICES ASSUME CInv, Next, DmaNoticed, ~ResetCpu PROVE DmaNoticed'
    OBVIOUS
  <2>0. UNCHANGED config
    BY DEF Next
  <2> USE <2>0 DEF config, DmaNoticed, CInv, TypeOK
  <2>1. ASSUME NEW t \in Faults, Raise(t) PROVE DmaNoticed'
    BY <2>1 DEF Raise, Reset
  <2>2. CASE Environment
    BY <2>2 DEF Environment, Signal, clear_INTR, deliver_INIT, deliver_SIPI, wakeup_monitor,
                set_HRQ, signal_event, OutsideReset, Reset
  <2>3. CASE HandleAsyncEvent
    <3>1. CASE SmiStage \/ TrapStage \/ \E t \in Faults : DeliveryFaults(t)
      BY <3>1, <2>1 DEF SmiStage, TrapStage, DeliveryFaults, Faults
    <3>2. CASE InitStage
      BY <3>2 DEF InitStage
    <3>3. CASE BeginEvents \/ AcceptNmi \/ Tail \/ \E gate \in Gates : Deliver(gate)
      BY <3>3 DEF BeginEvents, AcceptNmi, Tail, Deliver
    <3>4. CASE \E b \in BOOLEAN : SleepDma(b) \/ HandleExtInterrupt(b) \/ NoInterrupt(b)
      <4>1. ASSUME NEW b \in BOOLEAN, SleepDma(b) \/ NoInterrupt(b) PROVE DmaNoticed'
        BY <4>1 DEF SleepDma, NoInterrupt
      <4>2. ASSUME NEW b \in BOOLEAN, HandleExtInterrupt(b) PROVE DmaNoticed'
        BY <4>2 DEF HandleExtInterrupt, signal_event
      <4> QED
        BY <3>4, <4>1, <4>2
    <3> QED
      BY <2>3, <3>1, <3>2, <3>3, <3>4 DEF HandleAsyncEvent
  <2>4. CASE Instruction
    <3>1. CASE \E t \in Faults : Fault(t)
      BY <3>1, <2>1 DEF Fault
    <3>2. CASE Plain \/ STI \/ LoadSS \/ IretUnblocks
      BY <3>2 DEF Plain, STI, LoadSS, IretUnblocks, Execute
    <3>3. CASE \E if, tf \in BOOLEAN : LoadFlags(if, tf) \/ IretLoads(if, tf) \/ RSM(if, tf)
      BY <3>3 DEF LoadFlags, IretLoads, RSM, SetFlags, Execute
    <3>4. CASE \/ \E tf \in BOOLEAN : RsmFails(tf)
               \/ \E state \in Sleeps : Sleep(state)
               \/ \E trap \in Traps : RecordTrap(trap)
               \/ \E hardware \in BOOLEAN : GuestReset(hardware)
      BY <3>4 DEF RsmFails, Sleep, RecordTrap, Execute, GuestReset, Reset
    <3> QED
      BY <2>4, <3>1, <3>2, <3>3, <3>4 DEF Instruction
  <2> QED
    BY <2>2, <2>3, <2>4 DEF Next
<1> QED
  BY <1>1, CpuInvariant, PTL DEF Spec, BusRequestKept
=============================================================================
