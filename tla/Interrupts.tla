------------------------------- MODULE Interrupts -------------------------------
(***************************************************************************)
(* Interrupts and exceptions on the Nios II: alt_irq_handler.c, alt_iic.c, *)
(* alt_iic_isr_register.c, alt_legacy_irq.h, alt_irq.h, and the entry code *)
(* that saves the status and decides what an exception is.  The processor  *)
(* works on the top of a stack of frames: the program below, and above it  *)
(* the handlers that interrupted each other.  Interrupt 0 has the highest  *)
(* priority.  A line stays up until its handler has served the device.     *)
(***************************************************************************)
EXTENDS Integers, Sequences

CONSTANTS NIrq,          \* ALT_NIRQ
          Handlers,      \* handlers to register, each with a context of its own
          NULL,
          ChangeInIsr    \* handlers enable and disable interrupts too

ASSUME NIrqAssumption    == NIrq \in Nat \ {0}
ASSUME HandlerAssumption == NULL \notin Handlers /\ ChangeInIsr \in BOOLEAN

VARIABLES alt_irq,            \* the table of handlers and contexts
          alt_irq_active,     \* the enables, kept in memory
          alt_priority_mask,  \* what an interruptible handler lets in
          ienable, pie,       \* the processor's registers
          lines,              \* interrupt lines that are up
          frames,
          excHandler, halted  \* for instructions that fault

table == <<alt_irq, alt_irq_active, alt_priority_mask>>
cpu   == <<ienable, pie>>
exc   == <<excHandler, halted>>
interruptVars  == <<table, cpu, lines, frames, exc>>

Irqs == 0..(NIrq - 1)
NoEntry == [handler |-> NULL, context |-> NULL]

(* A frame: where it is, the interrupt it serves (-1 in the program), what *)
(* the status and the mask were, and the registration it is making.        *)
Program == [pc |-> "run", irq |-> -1, estatus |-> TRUE, mask |-> Irqs, nested |-> FALSE,
            context |-> TRUE, id |-> 0, isr |-> NULL, active |-> {}]
Top == frames[Len(frames)]
At(pc) == ~halted /\ Top.pc = pc
SetTop(f) == frames' = [frames EXCEPT ![Len(frames)] = f]
Goto(pc) == SetTop([Top EXCEPT !.pc = pc])

InterruptInit ==
  /\ alt_irq = [i \in Irqs |-> NoEntry]
  /\ alt_irq_active = {} /\ alt_priority_mask = Irqs
  /\ ienable = {} /\ pie = TRUE
  /\ lines = {}
  /\ frames = <<Program>>
  /\ excHandler = FALSE /\ halted = FALSE

alt_irq_pending == lines \cap ienable

Device == \E i \in Irqs \ lines : lines' = lines \cup {i} /\ UNCHANGED <<table, cpu, frames, exc>>

-------------------------------------------------------------------------------
(* alt_iic_isr_register, and alt_ic_irq_enable and disable: a section with *)
(* interrupts off, which ends with the status it began with.               *)
MayChange == At("run") \/ (ChangeInIsr /\ At("body"))

LeaveOn(id, isr) ==                                \* mutant of StartRegister
  /\ At("run") /\ id < NIrq
  /\ SetTop([Top EXCEPT !.pc = "handler", !.context = pie, !.id = id, !.isr = isr])
  /\ UNCHANGED <<table, cpu, lines, exc>>
StartRegister(id, isr) ==
  /\ At("run") /\ id < NIrq
  /\ pie' = FALSE
  /\ SetTop([Top EXCEPT !.pc = "handler", !.context = pie, !.id = id, !.isr = isr])
  /\ UNCHANGED <<table, ienable, lines, exc>>

RegisterHandler ==
  /\ At("handler") /\ Goto("context")
  /\ alt_irq' = [alt_irq EXCEPT ![Top.id].handler = Top.isr]
  /\ UNCHANGED <<alt_irq_active, alt_priority_mask, cpu, lines, exc>>

RegisterContext ==
  /\ At("context") /\ Goto(IF Top.isr # NULL THEN "enable" ELSE "disable")
  /\ alt_irq' = [alt_irq EXCEPT ![Top.id].context = Top.isr]
  /\ UNCHANGED <<alt_irq_active, alt_priority_mask, cpu, lines, exc>>

(* Only what has a handler is enabled by hand.                             *)
StartChange(id) ==
  /\ MayChange /\ alt_irq[id].handler # NULL
  /\ pie' = FALSE
  /\ \E pc \in {"enable", "disable"} :
       SetTop([Top EXCEPT !.pc = pc, !.context = pie, !.id = id])
  /\ UNCHANGED <<table, ienable, lines, exc>>

(* The enables are written without regard to alt_priority_mask.            *)
WriteIenable(active, here) ==
  /\ At(here)
  /\ alt_irq_active' = active /\ ienable' = active
  /\ Goto("restore")
  /\ UNCHANGED <<alt_irq, alt_priority_mask, pie, lines, exc>>
alt_irq_enable  == WriteIenable(alt_irq_active \cup {Top.id}, "enable")
alt_irq_disable == WriteIenable(alt_irq_active \ {Top.id}, "disable")

alt_irq_enable_all ==
  /\ At("restore")
  /\ pie' = Top.context
  /\ SetTop([Top EXCEPT !.pc = IF Len(frames) = 1 THEN "run" ELSE "body",
                        !.context = TRUE, !.id = 0, !.isr = NULL])
  /\ UNCHANGED <<table, ienable, lines, exc>>

-------------------------------------------------------------------------------
(* The processor takes an interrupt between two instructions.  The entry   *)
(* code keeps the status; alt_irq_handler calls the handler of the lowest  *)
(* number until nothing is pending.                                        *)
TakeInterrupt ==
  /\ ~halted /\ pie /\ alt_irq_pending # {}
  /\ pie' = FALSE
  /\ frames' = Append(frames, [Program EXCEPT !.pc = "dispatch", !.active = alt_irq_pending])
  /\ UNCHANGED <<table, ienable, lines, exc>>

LeastUrgent(active) == CHOOSE i \in active : \A j \in active : i >= j  \* mutant of First
First(active) == CHOOSE i \in active : \A j \in active : i <= j

Dispatch ==
  /\ At("dispatch")
  /\ LET i == First(Top.active) IN
       SetTop([Top EXCEPT !.pc = "serve", !.irq = i, !.active = {}])
  /\ UNCHANGED <<table, cpu, lines, exc>>

(* The handler serves its device.                                          *)
Serve ==
  /\ At("serve") /\ Goto("body")
  /\ lines' = lines \ {Top.irq}
  /\ UNCHANGED <<table, cpu, exc>>

(* It may let more urgent ones in, and must end that before it returns.    *)
MaskIncluding(priority) == 0..priority              \* mutant of MaskBelow
MaskBelow(priority) == 0..(priority - 1)

alt_irq_interruptible ==
  /\ At("body") /\ ~Top.nested
  /\ SetTop([Top EXCEPT !.nested = TRUE, !.mask = alt_priority_mask])
  /\ alt_priority_mask' = MaskBelow(Top.irq)
  /\ ienable' = alt_irq_active \cap MaskBelow(Top.irq)
  /\ pie' = TRUE
  /\ UNCHANGED <<alt_irq, alt_irq_active, lines, exc>>

ForgetEnables ==                                   \* mutant of alt_irq_non_interruptible
  /\ At("body") /\ Top.nested
  /\ SetTop([Top EXCEPT !.nested = FALSE, !.pc = "end"])
  /\ alt_priority_mask' = Top.mask
  /\ pie' = FALSE
  /\ UNCHANGED <<alt_irq, alt_irq_active, ienable, lines, exc>>
alt_irq_non_interruptible ==
  /\ At("body") /\ Top.nested
  /\ SetTop([Top EXCEPT !.nested = FALSE, !.pc = "end"])
  /\ alt_priority_mask' = Top.mask
  /\ ienable' = Top.mask \cap alt_irq_active
  /\ pie' = FALSE
  /\ UNCHANGED <<alt_irq, alt_irq_active, lines, exc>>

HandlerReturns ==
  /\ At("end") \/ (At("body") /\ ~Top.nested)
  /\ IF alt_irq_pending # {}
     THEN /\ SetTop([Top EXCEPT !.pc = "dispatch", !.irq = -1,
                                !.active = alt_irq_pending])
          /\ UNCHANGED pie
     ELSE frames' = SubSeq(frames, 1, Len(frames) - 1) /\ pie' = Top.estatus
  /\ UNCHANGED <<table, ienable, lines, exc>>

-------------------------------------------------------------------------------
(* An instruction of the program faults.  With an interrupt pending it is  *)
(* taken for the interrupt, and issued again; otherwise it goes to the     *)
(* registered handler, which has it issued again or skipped.  With none    *)
(* the processor stops.                                                    *)
alt_instruction_exception_register ==
  /\ At("run")
  /\ excHandler' \in BOOLEAN
  /\ UNCHANGED <<table, cpu, lines, frames, halted>>

Fault == At("run") /\ Goto("fault") /\ UNCHANGED <<table, cpu, lines, exc>>

alt_instruction_exception_entry ==
  /\ At("fault") /\ (~pie \/ alt_irq_pending = {})
  /\ IF excHandler
     THEN (Goto("run") \/ UNCHANGED frames) /\ UNCHANGED halted
     ELSE halted' = TRUE /\ UNCHANGED frames
  /\ UNCHANGED <<table, cpu, lines, excHandler>>

Stopped == halted /\ UNCHANGED interruptVars

Change == RegisterHandler \/ RegisterContext \/ alt_irq_enable \/ alt_irq_disable
          \/ alt_irq_enable_all
Handle == Dispatch \/ Serve \/ alt_irq_non_interruptible \/ HandlerReturns
InterruptNext ==
  \/ Device \/ TakeInterrupt \/ Change \/ Handle \/ alt_irq_interruptible
  \/ \E id \in 0..NIrq, isr \in Handlers \cup {NULL} : StartRegister(id, isr)
  \/ \E id \in Irqs : StartChange(id)
  \/ alt_instruction_exception_register \/ Fault \/ alt_instruction_exception_entry \/ Stopped

InterruptSpec == InterruptInit /\ [][InterruptNext]_interruptVars
FairInterrupts == InterruptSpec /\ WF_interruptVars(Change) /\ SF_interruptVars(Handle) /\ SF_interruptVars(TakeInterrupt)

-------------------------------------------------------------------------------
InHandler == {k \in 2..Len(frames) : frames[k].irq # -1}

(* alt_irq_register.c 76-83, alt_iic_isr_register.c 82-97: an entry is     *)
(* never used while it is being changed, so no handler meets the context   *)
(* of another, and address zero is not called.                             *)
EntryWhole ==
  At("dispatch") => LET e == alt_irq[First(Top.active)] IN e.handler # NULL /\ e.context = e.handler

(* alt_legacy_irq.h 103-105: a handler is interrupted by more urgent ones  *)
(* only, and by those only between interruptible and non_interruptible.    *)
MoreUrgentOnly ==
  \A j, k \in InHandler : j < k => frames[k].irq < frames[j].irq /\ frames[j].nested

(* alt_legacy_irq.h 101-149: when the last handler has returned, every     *)
(* enabled interrupt is let in again, and the program has its status back. *)
MaskRestored ==
  Len(frames) = 1 /\ Top.pc \in {"run", "fault"} =>
    ienable = alt_irq_active /\ alt_priority_mask = Irqs /\ pie

(* alt_irq_handler.c 112-159: the most urgent interrupt is served, even if *)
(* the others never cease.                                                 *)
UrgentServed ==
  0 \in lines /\ 0 \in alt_irq_active ~> 0 \notin lines \/ 0 \notin alt_irq_active \/ halted
===============================================================================
