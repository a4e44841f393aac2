--------------------------- MODULE Interrupts_proofs ---------------------------
(***************************************************************************)
(* Interrupts for any number of lines and any set of handlers.  The frames *)
(* above the program are handlers that each let in what is more urgent, so *)
(* the masks they saved are those of the frames below them, and the last   *)
(* one to return leaves what the program had.                              *)
(***************************************************************************)
EXTENDS Interrupts, WellFoundedInduction, TLAPS

Section == {"handler", "context", "enable", "disable", "restore"}
Frame == [pc : Section \cup {"run", "fault", "dispatch", "serve", "body", "end"},
          irq : Irqs \cup {-1}, estatus : BOOLEAN, mask : SUBSET Irqs, nested : BOOLEAN,
          context : BOOLEAN, id : Irqs, isr : Handlers \cup {NULL}, active : SUBSET Irqs]

(* The stack.  Only its top is not waiting; the frames between it and the  *)
(* program are handlers that made themselves interruptible.                *)
Stack ==
  /\ frames \in Seq(Frame) /\ Len(frames) >= 1
  /\ frames[1].irq = -1 /\ ~frames[1].nested
  /\ \A k \in 1..Len(frames) : frames[k].estatus
  /\ Len(frames) > 1 => frames[1].pc \in {"run", "fault"}
  /\ \A k \in 2..(Len(frames) - 1) :
       frames[k].pc = "body" /\ frames[k].nested /\ frames[k].irq \in Irqs

TopFrame ==
  /\ Len(frames) = 1 => Top.pc \in Section \cup {"run", "fault"}
  /\ Len(frames) > 1 =>
       /\ Top.pc \in {"dispatch", "serve", "body", "end", "enable", "disable", "restore"}
       /\ Top.pc = "dispatch" <=> Top.irq = -1
       /\ Top.nested => Top.pc \in {"body", "enable", "disable", "restore"}
       /\ Top.pc \in {"enable", "disable", "restore"} => ChangeInIsr

(* Interrupts are off in a section and in a handler that lets none in.     *)
Status ==
  /\ pie \in BOOLEAN
  /\ pie <=> IF Len(frames) = 1 THEN Top.pc \in {"run", "fault"} ELSE Top.nested /\ Top.pc = "body"
  /\ Top.pc \in Section => (Top.context <=> Len(frames) = 1 \/ Top.nested)

(* What the frames below the k-th let in.                                  *)
LetIn(k) == IF k <= 2 THEN Irqs ELSE MaskBelow(frames[k - 1].irq)

Masks ==
  /\ \A k \in 2..Len(frames) : frames[k].nested => frames[k].mask = LetIn(k)
  /\ alt_priority_mask = IF Top.nested THEN MaskBelow(Top.irq) ELSE LetIn(Len(frames))

Enables ==
  /\ alt_irq_active \subseteq Irqs /\ ienable \subseteq alt_irq_active
  /\ Len(frames) = 1 \/ (Len(frames) = 2 /\ ~Top.nested) => ienable = alt_irq_active
  /\ ~ChangeInIsr => ienable = alt_irq_active \cap alt_priority_mask
  /\ Top.pc = "dispatch" => Top.active # {} /\ Top.active \subseteq ienable

(* The entries are whole but for the one being registered.                 *)
Entries ==
  /\ alt_irq \in [Irqs -> [handler : Handlers \cup {NULL}, context : Handlers \cup {NULL}]]
  /\ \A i \in Irqs :
       /\ alt_irq[i].context = alt_irq[i].handler \/ (Top.pc = "context" /\ Top.id = i)
       /\ i \in alt_irq_active =>
            alt_irq[i].handler # NULL \/ (Top.pc \in {"context", "disable"} /\ Top.id = i)
  /\ Top.pc = "enable" => alt_irq[Top.id].handler # NULL
  /\ Top.pc = "context" => alt_irq[Top.id].handler = Top.isr

Order ==
  ~ChangeInIsr => \A j, k \in 2..Len(frames) :
                    j < k /\ frames[k].irq # -1 => frames[k].irq < frames[j].irq

IInv == Stack /\ TopFrame /\ Status /\ Masks /\ Enables /\ Entries /\ Order

LEMMA Numbers ==
  /\ NIrq \in Nat /\ NIrq > 0 /\ 0 \in Irqs /\ -1 \notin Irqs /\ Irqs \subseteq Nat
  /\ \A i \in Irqs : MaskBelow(i) \subseteq Irqs /\ \A j \in MaskBelow(i) : j < i
BY NIrqAssumption DEF Irqs, MaskBelow

LEMMA FirstIsOne ==
  ASSUME NEW active, active \subseteq Irqs, active # {}
  PROVE  First(active) \in active
<1>1. PICK i \in active : \A j \in active : ~ (<<j, i>> \in OpToRel(<, Nat))
  BY Numbers, NatLessThanWellFounded, WFMin
<1>2. \A j \in active : ~(j < i) /\ j \in Nat /\ i \in Nat
  BY <1>1, Numbers DEF OpToRel
<1>3. \A j \in active : i <= j
  BY <1>2
<1> QED
  BY <1>3 DEF First

LEMMA Start ==
  ASSUME InterruptInit
  PROVE  IInv
<1>1. Program \in Frame
  BY Numbers DEF Program, Frame, Section
<1>2. frames \in Seq(Frame) /\ Len(frames) = 1 /\ frames[1] = Program /\ Top = Program
  BY <1>1 DEF InterruptInit, Top
<1>3. Stack /\ TopFrame
  BY <1>2 DEF Stack, TopFrame, Program
<1>4. Status
  BY <1>2 DEF InterruptInit, Status, Program, Section
<1>5. Masks /\ Enables
  BY <1>2 DEF InterruptInit, Masks, Enables, LetIn, Program
<1>6. Entries
  BY <1>2 DEF InterruptInit, Entries, NoEntry, Program
<1>7. Order
  BY <1>2 DEF Order
<1> QED
  BY <1>3, <1>4, <1>5, <1>6, <1>7 DEF IInv

(* A step of the frame on top: the rest of the stack is as it was.         *)
LEMMA TopChanged ==
  ASSUME frames \in Seq(Frame), Len(frames) >= 1, NEW f \in Frame, SetTop(f)
  PROVE  /\ frames' \in Seq(Frame) /\ Len(frames') = Len(frames) /\ frames'[Len(frames)] = f
         /\ \A k \in 1..(Len(frames) - 1) : frames'[k] = frames[k]
         /\ Top \in Frame /\ Top = frames[Len(frames)] /\ Top' = f
BY DEF SetTop, Top

(* Where the frame's own mask and interrupt stay, so do all the masks.     *)
LEMMA SameMasks ==
  ASSUME IInv, NEW f \in Frame, SetTop(f), f.irq = Top.irq, f.nested = Top.nested,
         f.mask = Top.mask, UNCHANGED alt_priority_mask
  PROVE  Masks' /\ Order'
<1>1. PICK n \in Nat : n = Len(frames) /\ n >= 1
  BY DEF IInv, Stack
<1>2. /\ Len(frames') = n /\ frames'[n] = f /\ Top = frames[n] /\ Top' = f
      /\ \A k \in 1..(n - 1) : frames'[k] = frames[k]
  BY <1>1, TopChanged DEF IInv, Stack
<1>3. \A k \in 1..n : /\ frames'[k].irq = frames[k].irq /\ frames'[k].nested = frames[k].nested
                      /\ frames'[k].mask = frames[k].mask
  BY <1>1, <1>2
<1>4. \A k \in 1..n : LetIn(k)' = LetIn(k)
  BY <1>1, <1>3 DEF LetIn
<1> QED
  BY <1>1, <1>2, <1>3, <1>4 DEF IInv, Masks, Order

LEMMA SameStack ==
  ASSUME IInv, NEW f \in Frame, SetTop(f), f.estatus,
         Len(frames) = 1 => f.irq = -1 /\ ~f.nested
  PROVE  Stack'
<1>1. PICK n \in Nat : n = Len(frames) /\ n >= 1
  BY DEF IInv, Stack
<1>2. /\ frames' \in Seq(Frame) /\ Len(frames') = n /\ frames'[n] = f
      /\ \A k \in 1..(n - 1) : frames'[k] = frames[k]
  BY <1>1, TopChanged DEF IInv, Stack
<1> QED
  BY <1>1, <1>2 DEF IInv, Stack

LEMMA TopIs ==
  ASSUME IInv
  PROVE  /\ Top \in Frame /\ Top = frames[Len(frames)] /\ Top.estatus
         /\ Len(frames) = 1 => Top.irq = -1 /\ ~Top.nested
         /\ Len(frames) \in Nat /\ Len(frames) >= 1
BY DEF IInv, Stack, Top

LEMMA ProgramAlone ==
  ASSUME IInv, Top.pc \in {"run", "fault", "handler", "context"}
  PROVE  Len(frames) = 1 /\ ~(Len(frames) > 1) /\ Top.irq = -1 /\ ~Top.nested
<1>1. ~(Len(frames) > 1)
  BY DEF IInv, TopFrame
<1> QED
  BY <1>1, TopIs

LEMMA HandlerAbove ==
  ASSUME IInv, Top.pc \in {"dispatch", "serve", "body", "end"}
  PROVE  Len(frames) > 1 /\ Len(frames) # 1 /\ (Top.pc # "dispatch" => Top.irq \in Irqs)
<1>1. Len(frames) # 1
  BY DEF IInv, TopFrame, Section
<1>2. PICK n \in Nat : n = Len(frames) /\ n >= 1
  BY DEF IInv, Stack
<1>3. Len(frames) > 1
  BY <1>1, <1>2
<1>4. Top.pc # "dispatch" => Top.irq # -1
  BY <1>3 DEF IInv, TopFrame
<1> QED
  BY <1>1, <1>3, <1>4, TopIs DEF Frame
-------------------------------------------------------------------------------
(* The sections that change the table and the enables.                     *)
LEMMA StartRegisterStep ==
  ASSUME IInv, NEW i \in 0..NIrq, NEW isr \in Handlers \cup {NULL}, StartRegister(i, isr)
  PROVE  IInv'
<1>1. PICK f : f = [Top EXCEPT !.pc = "handler", !.context = pie, !.id = i, !.isr = isr]
  OBVIOUS
<1>2. SetTop(f) /\ Top.pc = "run" /\ pie' = FALSE /\ UNCHANGED <<table, ienable>>
  BY <1>1 DEF StartRegister, At
<1>3. i \in Irqs
  BY NIrqAssumption DEF StartRegister, Irqs
<1>4. /\ f \in Frame /\ f.pc = "handler" /\ (f.context <=> pie) /\ f.id = i
      /\ f.irq = Top.irq /\ f.nested = Top.nested /\ f.mask = Top.mask /\ f.estatus
  BY <1>1, <1>3, TopIs DEF Frame, Section, IInv, Status
<1>5. Len(frames') = Len(frames) /\ Top' = f /\ Len(frames) = 1
  BY <1>2, <1>4, ProgramAlone, TopChanged DEF IInv, Stack
<1>6. Stack' /\ Masks' /\ Order'
  BY <1>2, <1>4, SameStack, SameMasks, TopIs DEF table
<1>7. TopFrame' /\ Status'
  BY <1>2, <1>4, <1>5, TopIs DEF IInv, TopFrame, Status, Section
<1>8. Enables' /\ Entries'
  BY <1>2, <1>4, <1>5 DEF IInv, Enables, Entries, table
<1> QED
  BY <1>6, <1>7, <1>8 DEF IInv

LEMMA RegisterHandlerStep ==
  ASSUME IInv, RegisterHandler
  PROVE  IInv'
<1>1. PICK f : f = [Top EXCEPT !.pc = "context"]
  OBVIOUS
<1>2. SetTop(f) /\ Top.pc = "handler" /\ UNCHANGED <<alt_irq_active, alt_priority_mask, cpu>>
      /\ alt_irq' = [alt_irq EXCEPT ![Top.id].handler = Top.isr]
  BY <1>1 DEF RegisterHandler, At, Goto
<1>3. /\ f \in Frame /\ f.pc = "context" /\ f.context = Top.context /\ f.id = Top.id
      /\ f.irq = Top.irq /\ f.nested = Top.nested /\ f.mask = Top.mask /\ f.estatus
      /\ f.isr = Top.isr
  BY <1>1, TopIs DEF Frame, Section
<1>4. Len(frames') = Len(frames) /\ Top' = f /\ Len(frames) = 1
  BY <1>2, <1>3, ProgramAlone, TopChanged DEF IInv, Stack
<1>5. Stack' /\ Masks' /\ Order'
  BY <1>2, <1>3, SameStack, SameMasks, TopIs
<1>6. TopFrame' /\ Status' /\ Enables'
  BY <1>2, <1>3, <1>4, TopIs DEF IInv, TopFrame, Status, Section, cpu, Enables
<1>7. Top.id \in Irqs /\ Top.isr \in Handlers \cup {NULL}
  BY TopIs DEF Frame
<1>8. /\ alt_irq' \in [Irqs -> [handler : Handlers \cup {NULL}, context : Handlers \cup {NULL}]]
      /\ alt_irq'[Top.id].handler = Top.isr
      /\ \A i \in Irqs : i # Top.id => alt_irq'[i] = alt_irq[i]
  BY <1>2, <1>7 DEF IInv, Entries
<1>9. Entries'
  BY <1>2, <1>3, <1>4, <1>8 DEF IInv, Entries
<1> QED
  BY <1>5, <1>6, <1>9 DEF IInv

LEMMA RegisterContextStep ==
  ASSUME IInv, RegisterContext
  PROVE  IInv'
<1>1. PICK f : f = [Top EXCEPT !.pc = IF Top.isr # NULL THEN "enable" ELSE "disable"]
  OBVIOUS
<1>2. SetTop(f) /\ Top.pc = "context" /\ UNCHANGED <<alt_irq_active, alt_priority_mask, cpu>>
      /\ alt_irq' = [alt_irq EXCEPT ![Top.id].context = Top.isr]
  BY <1>1 DEF RegisterContext, At, Goto
<1>3. /\ f \in Frame /\ f.pc = (IF Top.isr # NULL THEN "enable" ELSE "disable")
      /\ f.irq = Top.irq /\ f.nested = Top.nested /\ f.mask = Top.mask /\ f.estatus
      /\ f.context = Top.context /\ f.id = Top.id
  BY <1>1, TopIs DEF Frame, Section
<1>4. Len(frames') = Len(frames) /\ Top' = f /\ Len(frames) = 1
  BY <1>2, <1>3, ProgramAlone, TopChanged DEF IInv, Stack
<1>5. Stack' /\ Masks' /\ Order'
  BY <1>2, <1>3, SameStack, SameMasks, TopIs
<1>6. TopFrame' /\ Status' /\ Enables'
  BY <1>2, <1>3, <1>4, TopIs DEF IInv, TopFrame, Status, Section, cpu, Enables
<1>7. Top.id \in Irqs /\ Top.isr \in Handlers \cup {NULL}
  BY TopIs DEF Frame
<1>8. /\ alt_irq' \in [Irqs -> [handler : Handlers \cup {NULL}, context : Handlers \cup {NULL}]]
      /\ alt_irq'[Top.id].context = Top.isr /\ alt_irq'[Top.id].handler = alt_irq[Top.id].handler
      /\ \A i \in Irqs : i # Top.id => alt_irq'[i] = alt_irq[i]
  BY <1>2, <1>7 DEF IInv, Entries
<1>9. Entries'
  BY <1>2, <1>3, <1>4, <1>7, <1>8 DEF IInv, Entries
<1> QED
  BY <1>5, <1>6, <1>9 DEF IInv

LEMMA StartChangeStep ==
  ASSUME IInv, NEW i \in Irqs, StartChange(i)
  PROVE  IInv'
<1>1. PICK pc \in {"enable", "disable"} : SetTop([Top EXCEPT !.pc = pc, !.context = pie, !.id = i])
  BY DEF StartChange
<1>2. PICK f : f = [Top EXCEPT !.pc = pc, !.context = pie, !.id = i]
  OBVIOUS
<1>3. SetTop(f) /\ Top.pc \in {"run", "body"} /\ pie' = FALSE /\ UNCHANGED <<table, ienable>>
      /\ alt_irq[i].handler # NULL
  BY <1>1, <1>2 DEF StartChange, MayChange, At
<1>4. /\ f \in Frame /\ f.pc = pc /\ (f.context <=> pie) /\ f.id = i
      /\ f.irq = Top.irq /\ f.nested = Top.nested /\ f.mask = Top.mask /\ f.estatus
  BY <1>2, TopIs DEF Frame, Section, IInv, Status
<1>5. Len(frames') = Len(frames) /\ Top' = f
  BY <1>3, <1>4, TopChanged DEF IInv, Stack
<1>6. Stack' /\ Masks' /\ Order'
  BY <1>3, <1>4, SameStack, SameMasks, TopIs DEF table
<1>7. TopFrame' /\ Status'
  <2>1. f.pc \in {"enable", "disable"} /\ (Len(frames) > 1 => f.irq # -1)
    BY <1>3, <1>4, TopIs DEF IInv, TopFrame
  <2>2. TopFrame'
    <3>1. Len(frames) > 1 => ChangeInIsr
      <4>1. Top.pc = "run" \/ ChangeInIsr
        BY DEF StartChange, MayChange, At
      <4>2. Top.pc = "run" => ~(Len(frames) > 1)
        BY ProgramAlone
      <4> QED
        BY <4>1, <4>2
    <3> QED
      BY <1>3, <1>4, <1>5, <2>1, <3>1, TopIs DEF TopFrame, Section
  <2>3. f.context <=> Len(frames) = 1 \/ f.nested
    <3>1. CASE Top.pc = "run"
      BY <1>4, <3>1, ProgramAlone DEF IInv, Status
    <3>2. CASE Top.pc = "body"
      <4>1. Len(frames) # 1
        BY <3>2, HandlerAbove
      <4> QED
        BY <1>4, <3>2, <4>1 DEF IInv, Status
    <3> QED
      BY <1>3, <3>1, <3>2
  <2>4. Status'
    BY <1>3, <1>5, <2>1, <2>3, TopIs DEF Status
  <2> QED
    BY <2>2, <2>4
<1>8. Enables' /\ Entries'
  BY <1>3, <1>4, <1>5 DEF IInv, Enables, Entries, table
<1> QED
  BY <1>6, <1>7, <1>8 DEF IInv

LEMMA WriteStep ==
  ASSUME IInv, alt_irq_enable \/ alt_irq_disable
  PROVE  IInv'
<1>1. PICK f : f = [Top EXCEPT !.pc = "restore"]
  OBVIOUS
<1>2. PICK active : /\ \/ active = alt_irq_active \cup {Top.id} /\ Top.pc = "enable"
                       \/ active = alt_irq_active \ {Top.id} /\ Top.pc = "disable"
                    /\ alt_irq_active' = active /\ ienable' = active
                    /\ UNCHANGED <<alt_irq, alt_priority_mask, pie>> /\ SetTop(f)
  BY <1>1 DEF alt_irq_enable, alt_irq_disable, WriteIenable, At, Goto
<1>3. /\ f \in Frame /\ f.pc = "restore" /\ f.irq = Top.irq /\ f.nested = Top.nested
      /\ f.mask = Top.mask /\ f.estatus /\ f.context = Top.context
  BY <1>1, TopIs DEF Frame, Section
<1>4. Len(frames') = Len(frames) /\ Top' = f
  BY <1>2, <1>3, TopChanged DEF IInv, Stack
<1>5. Stack' /\ Masks' /\ Order'
  BY <1>2, <1>3, SameStack, SameMasks, TopIs
<1>6. TopFrame'
  BY <1>2, <1>3, <1>4, TopIs DEF IInv, TopFrame, Section
<1>7. Status'
  BY <1>2, <1>3, <1>4, TopIs DEF IInv, Status, Section
<1>8. Top.id \in Irqs /\ active \subseteq Irqs
  BY <1>2, TopIs DEF IInv, Enables, Frame
<1>9. ~ChangeInIsr => alt_priority_mask = Irqs
  <2>1. ~ChangeInIsr => ~(Len(frames) > 1)
    BY <1>2 DEF IInv, TopFrame
  <2>2. PICK n \in Nat : n = Len(frames) /\ n >= 1
    BY DEF IInv, Stack
  <2> QED
    BY <2>1, <2>2, TopIs DEF IInv, Masks, LetIn
<1>10. Enables'
  BY <1>2, <1>3, <1>4, <1>8, <1>9 DEF IInv, Enables
<1>11. Entries'
  BY <1>2, <1>3, <1>4, <1>8 DEF IInv, Entries
<1> QED
  BY <1>5, <1>6, <1>7, <1>10, <1>11 DEF IInv

LEMMA RestoreStep ==
  ASSUME IInv, alt_irq_enable_all
  PROVE  IInv'
<1>1. PICK f : f = [Top EXCEPT !.pc = IF Len(frames) = 1 THEN "run" ELSE "body",
                               !.context = TRUE, !.id = 0, !.isr = NULL]
  OBVIOUS
<1>2. SetTop(f) /\ Top.pc = "restore" /\ pie' = Top.context /\ UNCHANGED <<table, ienable>>
  BY <1>1 DEF alt_irq_enable_all, At
<1>3. /\ f \in Frame /\ f.pc = (IF Len(frames) = 1 THEN "run" ELSE "body")
      /\ f.irq = Top.irq /\ f.nested = Top.nested /\ f.mask = Top.mask /\ f.estatus
  BY <1>1, Numbers, TopIs DEF Frame, Section
<1>4. Len(frames') = Len(frames) /\ Top' = f
  BY <1>2, <1>3, TopChanged DEF IInv, Stack
<1>5. Stack' /\ Masks' /\ Order'
  BY <1>2, <1>3, SameStack, SameMasks, TopIs DEF table
<1>6. TopFrame'
  BY <1>2, <1>3, <1>4, TopIs DEF IInv, TopFrame, Section
<1>7. Status'
  <2>1. Top.context \in BOOLEAN /\ (Top.context <=> Len(frames) = 1 \/ Top.nested)
    BY <1>2, TopIs DEF IInv, Status, Section, Frame
  <2> QED
    BY <1>2, <1>3, <1>4, <2>1, TopIs DEF Status, Section
<1>8. Enables' /\ Entries'
  BY <1>2, <1>3, <1>4 DEF IInv, Enables, Entries, table
<1> QED
  BY <1>5, <1>6, <1>7, <1>8 DEF IInv
-------------------------------------------------------------------------------
(* The entry code, the dispatch and the handlers.                          *)
LEMMA TakeStep ==
  ASSUME IInv, TakeInterrupt
  PROVE  IInv'
<1>1. PICK f : f = [Program EXCEPT !.pc = "dispatch", !.active = alt_irq_pending]
  OBVIOUS
<1>2. PICK n \in Nat : n = Len(frames) /\ n >= 1
  BY DEF IInv, Stack
<1>3. /\ pie /\ alt_irq_pending # {} /\ pie' = FALSE /\ frames' = Append(frames, f)
      /\ UNCHANGED <<table, ienable>>
  BY <1>1 DEF TakeInterrupt
<1>4. alt_irq_pending \subseteq ienable /\ alt_irq_pending \subseteq Irqs
  BY DEF alt_irq_pending, IInv, Enables
<1>5. /\ f \in Frame /\ f.pc = "dispatch" /\ f.irq = -1 /\ ~f.nested /\ f.estatus
      /\ f.active = alt_irq_pending
  BY <1>1, <1>4, Numbers DEF Program, Frame, Section
<1>6. /\ frames' \in Seq(Frame) /\ Len(frames') = n + 1 /\ frames'[n + 1] = f /\ Top' = f
      /\ \A k \in 1..n : frames'[k] = frames[k]
      /\ Top = frames[n]
  BY <1>2, <1>3, <1>5 DEF IInv, Stack, Top
<1>7. /\ n = 1 => Top.pc \in {"run", "fault"}
      /\ n > 1 => Top.nested /\ Top.pc = "body" /\ Top.irq \in Irqs
  BY <1>2, <1>3, HandlerAbove DEF IInv, Status
<1>8. Stack'
  BY <1>2, <1>5, <1>6, <1>7 DEF IInv, Stack
<1>9. TopFrame' /\ Status'
  <2>1. Len(frames') # 1 /\ f.pc \notin Section /\ Top'.pc = "dispatch" /\ Top'.irq = -1
    BY <1>2, <1>5, <1>6 DEF Section
  <2>2. TopFrame'
    BY <1>5, <1>6, <2>1 DEF TopFrame
  <2> QED
    BY <1>3, <1>5, <1>6, <2>1, <2>2 DEF Status
<1>10. /\ \A k \in 1..n : LetIn(k)' = LetIn(k)
       /\ LetIn(n + 1)' = alt_priority_mask
  BY <1>2, <1>6, <1>7, TopIs DEF IInv, Masks, LetIn
<1>11. Masks'
  BY <1>2, <1>3, <1>5, <1>6, <1>10 DEF IInv, Masks, table
<1>12. Enables' /\ Entries'
  BY <1>2, <1>3, <1>4, <1>5, <1>6, <1>7, TopIs DEF IInv, Enables, Entries, table
<1>13. Order'
  BY <1>2, <1>5, <1>6 DEF IInv, Order
<1> QED
  BY <1>8, <1>9, <1>11, <1>12, <1>13 DEF IInv

LEMMA DispatchStep ==
  ASSUME IInv, Dispatch
  PROVE  IInv'
<1>1. PICK i : i = First(Top.active)
  OBVIOUS
<1>2. PICK f : f = [Top EXCEPT !.pc = "serve", !.irq = i, !.active = {}]
  OBVIOUS
<1>3. SetTop(f) /\ Top.pc = "dispatch" /\ UNCHANGED <<table, cpu>>
  BY <1>1, <1>2 DEF Dispatch, At
<1>4. i \in Irqs /\ (~ChangeInIsr => i \in alt_priority_mask)
  BY <1>1, <1>3, FirstIsOne DEF IInv, Enables
<1>5. ~Top.nested /\ Len(frames) > 1 /\ Len(frames) # 1
  BY <1>3, HandlerAbove DEF IInv, TopFrame
<1>6. /\ f \in Frame /\ f.pc = "serve" /\ f.irq = i /\ f.nested = Top.nested /\ f.estatus
  BY <1>2, <1>4, TopIs DEF Frame
<1>7. PICK n \in Nat : n = Len(frames) /\ n > 1
  BY <1>5 DEF IInv, Stack
<1>8. /\ Len(frames') = n /\ frames'[n] = f /\ Top = frames[n] /\ Top' = f
      /\ \A k \in 1..(n - 1) : frames'[k] = frames[k]
  BY <1>3, <1>6, <1>7, TopChanged DEF IInv, Stack
<1>9. Stack'
  BY <1>3, <1>5, <1>6, SameStack
<1>10. TopFrame' /\ Status'
  <2>1. i # -1 /\ Len(frames') # 1 /\ f.pc \notin Section
    BY <1>4, <1>6, <1>7, <1>8, Numbers DEF Section
  <2>2. pie' = pie /\ ~pie
    BY <1>3, <1>5 DEF cpu, IInv, Status
  <2>3. TopFrame'
    BY <1>5, <1>6, <1>8, <2>1 DEF TopFrame
  <2> QED
    BY <1>5, <1>6, <1>8, <2>1, <2>2, <2>3 DEF IInv, Status
<1>11. \A k \in 1..n : LetIn(k)' = LetIn(k)
  BY <1>7, <1>8 DEF LetIn
<1>12. Masks'
  BY <1>3, <1>5, <1>6, <1>7, <1>8, <1>11 DEF IInv, Masks, table
<1>13. Enables' /\ Entries'
  BY <1>3, <1>5, <1>6, <1>7, <1>8 DEF IInv, Enables, Entries, table, cpu
<1>14. Order'
  <2> SUFFICES ASSUME ~ChangeInIsr, NEW j \in 2..n, NEW k \in 2..n, j < k, frames'[k].irq # -1
               PROVE  frames'[k].irq < frames'[j].irq
    BY <1>8 DEF Order
  <2>1. CASE k < n
    BY <1>7, <1>8, <2>1 DEF IInv, Order
  <2>2. CASE k = n
    <3>1. n > 2 /\ frames[n - 1].irq \in Irqs /\ frames'[j] = frames[j] /\ frames[j].irq \in Irqs
      BY <1>7, <1>8, <2>2 DEF IInv, Stack
    <3>2. alt_priority_mask = MaskBelow(frames[n - 1].irq)
      BY <1>5, <1>7, <3>1 DEF IInv, Masks, LetIn
    <3>3. PICK p \in Nat, q \in Nat : p = frames[n - 1].irq /\ q = frames[j].irq /\ p # -1
      BY <3>1, Numbers
    <3>4. i < p /\ i \in Nat
      BY <1>4, <3>1, <3>2, <3>3, Numbers
    <3>5. p <= q
      <4>1. j = n - 1 => p = q
        BY <3>3
      <4>2. j < n - 1 => p < q
        BY <1>7, <3>3 DEF IInv, Order
      <4> QED
        BY <1>7, <2>2, <4>1, <4>2, <3>3
    <3>6. i < q
      BY <3>3, <3>4, <3>5
    <3> QED
      BY <1>6, <1>8, <2>2, <3>1, <3>3, <3>6
  <2> QED
    BY <1>7, <2>1, <2>2
<1> QED
  BY <1>9, <1>10, <1>12, <1>13, <1>14 DEF IInv

(* Steps on the top frame that leave the table and the processor alone.    *)
LEMMA ServeStep ==
  ASSUME IInv, Serve
  PROVE  IInv'
<1>1. PICK f : f = [Top EXCEPT !.pc = "body"]
  OBVIOUS
<1>2. SetTop(f) /\ Top.pc = "serve" /\ UNCHANGED <<table, cpu>>
  BY <1>1 DEF Serve, At, Goto
<1>3. /\ f \in Frame /\ f.pc = "body" /\ f.irq = Top.irq /\ f.nested = Top.nested
      /\ f.mask = Top.mask /\ f.estatus
  BY <1>1, TopIs DEF Frame
<1>4. Len(frames') = Len(frames) /\ Top' = f /\ Len(frames) # 1 /\ Len(frames) > 1
  BY <1>2, <1>3, HandlerAbove, TopChanged DEF IInv, Stack
<1>5. Stack' /\ Masks' /\ Order'
  BY <1>2, <1>3, SameStack, SameMasks, TopIs DEF table
<1>6. TopFrame' /\ Status'
  BY <1>2, <1>3, <1>4 DEF IInv, TopFrame, Status, Section, cpu
<1>7. Enables' /\ Entries'
  BY <1>2, <1>3, <1>4 DEF IInv, Enables, Entries, table, cpu
<1> QED
  BY <1>5, <1>6, <1>7 DEF IInv

LEMMA ProgramStep ==
  ASSUME IInv, Fault \/ alt_instruction_exception_entry
  PROVE  IInv'
<1>1. PICK f : f = [Top EXCEPT !.pc = IF Top.pc = "run" THEN "fault" ELSE "run"]
  OBVIOUS
<1>2. SetTop(f) \/ UNCHANGED frames
  BY <1>1 DEF Fault, alt_instruction_exception_entry, At, Goto
<1>3. Top.pc \in {"run", "fault"} /\ UNCHANGED <<table, cpu>>
  BY DEF Fault, alt_instruction_exception_entry, At
<1>4. CASE SetTop(f)
  <2>1. /\ f \in Frame /\ f.pc \in {"run", "fault"} /\ f.irq = Top.irq /\ f.nested = Top.nested
        /\ f.mask = Top.mask /\ f.estatus
    BY <1>1, TopIs DEF Frame
  <2>2. Len(frames') = Len(frames) /\ Top' = f /\ Len(frames) = 1 /\ ~(Len(frames) > 1)
    BY <1>3, <1>4, <2>1, ProgramAlone, TopChanged DEF IInv, Stack
  <2>3. Stack' /\ Masks' /\ Order'
    BY <1>3, <1>4, <2>1, SameStack, SameMasks, TopIs DEF table
  <2>4. TopFrame' /\ Status'
    BY <1>3, <2>1, <2>2 DEF IInv, TopFrame, Status, Section, cpu
  <2>5. Enables' /\ Entries'
    BY <1>3, <2>1, <2>2 DEF IInv, Enables, Entries, table, cpu
  <2> QED
    BY <2>3, <2>4, <2>5 DEF IInv
<1>5. CASE UNCHANGED frames
  BY <1>3, <1>5 DEF IInv, Stack, TopFrame, Status, Masks, LetIn, Enables, Entries, Order, Top,
                    table, cpu
<1> QED
  BY <1>2, <1>4, <1>5

LEMMA InterruptibleStep ==
  ASSUME IInv, alt_irq_interruptible
  PROVE  IInv'
<1>1. PICK f : f = [Top EXCEPT !.nested = TRUE, !.mask = alt_priority_mask]
  OBVIOUS
<1>2. /\ SetTop(f) /\ Top.pc = "body" /\ ~Top.nested
      /\ alt_priority_mask' = MaskBelow(Top.irq)
      /\ ienable' = alt_irq_active \cap MaskBelow(Top.irq)
      /\ pie' = TRUE /\ UNCHANGED <<alt_irq, alt_irq_active>>
  BY <1>1 DEF alt_irq_interruptible, At
<1>3. PICK n \in Nat : n = Len(frames) /\ n > 1
  BY <1>2, HandlerAbove DEF IInv, Stack
<1>4. alt_priority_mask = LetIn(n) /\ alt_priority_mask \subseteq Irqs
  <2>1. alt_priority_mask = LetIn(n)
    BY <1>2, <1>3 DEF IInv, Masks
  <2>2. n > 2 => frames[n - 1].irq \in Irqs
    BY <1>3 DEF IInv, Stack
  <2>3. LetIn(n) \subseteq Irqs
    <3>1. CASE n > 2
      BY <2>2, <3>1, Numbers DEF LetIn
    <3>2. CASE ~(n > 2)
      BY <3>2 DEF LetIn
    <3> QED
      BY <3>1, <3>2
  <2> QED
    BY <2>1, <2>3
<1>5. /\ f \in Frame /\ f.pc = "body" /\ f.irq = Top.irq /\ f.nested /\ f.estatus
      /\ f.mask = alt_priority_mask
  BY <1>1, <1>2, <1>4, TopIs DEF Frame
<1>6. /\ frames' \in Seq(Frame) /\ Len(frames') = n /\ frames'[n] = f /\ Top = frames[n] /\ Top' = f
      /\ \A k \in 1..(n - 1) : frames'[k] = frames[k]
  BY <1>2, <1>3, <1>5, TopChanged DEF IInv, Stack
<1>7. Stack'
  BY <1>2, <1>5, HandlerAbove, SameStack
<1>8. TopFrame'
  BY <1>2, <1>3, <1>5, <1>6 DEF IInv, TopFrame
<1>9. Status'
  BY <1>2, <1>3, <1>5, <1>6 DEF Status, Section
<1>10. \A k \in 1..n : LetIn(k)' = LetIn(k)
  BY <1>3, <1>6 DEF LetIn
<1>11. Masks'
  BY <1>2, <1>3, <1>4, <1>5, <1>6, <1>10 DEF IInv, Masks
<1>12. Enables'
  BY <1>2, <1>3, <1>5, <1>6 DEF IInv, Enables
<1>13. Entries'
  BY <1>2, <1>5, <1>6 DEF IInv, Entries
<1>14. Order'
  BY <1>3, <1>5, <1>6 DEF IInv, Order
<1> QED
  BY <1>7, <1>8, <1>9, <1>11, <1>12, <1>13, <1>14 DEF IInv

LEMMA NonInterruptibleStep ==
  ASSUME IInv, alt_irq_non_interruptible
  PROVE  IInv'
<1>1. PICK f : f = [Top EXCEPT !.nested = FALSE, !.pc = "end"]
  OBVIOUS
<1>2. /\ SetTop(f) /\ Top.pc = "body" /\ Top.nested
      /\ alt_priority_mask' = Top.mask /\ ienable' = Top.mask \cap alt_irq_active
      /\ pie' = FALSE /\ UNCHANGED <<alt_irq, alt_irq_active>>
  BY <1>1 DEF alt_irq_non_interruptible, At
<1>3. PICK n \in Nat : n = Len(frames) /\ n > 1
  BY <1>2, HandlerAbove DEF IInv, Stack
<1>4. /\ f \in Frame /\ f.pc = "end" /\ f.irq = Top.irq /\ ~f.nested /\ f.estatus
  BY <1>1, TopIs DEF Frame
<1>5. /\ frames' \in Seq(Frame) /\ Len(frames') = n /\ frames'[n] = f /\ Top = frames[n] /\ Top' = f
      /\ \A k \in 1..(n - 1) : frames'[k] = frames[k]
  BY <1>2, <1>3, <1>4, TopChanged DEF IInv, Stack
<1>6. Stack'
  BY <1>2, <1>4, HandlerAbove, SameStack
<1>7. TopFrame'
  BY <1>2, <1>3, <1>4, <1>5 DEF IInv, TopFrame
<1>8. Status'
  BY <1>2, <1>3, <1>4, <1>5 DEF Status, Section
<1>9. \A k \in 1..n : LetIn(k)' = LetIn(k)
  BY <1>3, <1>5 DEF LetIn
<1>10. Top.mask = LetIn(n)
  BY <1>2, <1>3, <1>5 DEF IInv, Masks
<1>11. Masks'
  BY <1>2, <1>3, <1>4, <1>5, <1>9, <1>10 DEF IInv, Masks
<1>12. Enables'
  <2>1. n = 2 => Top.mask = Irqs
    BY <1>10 DEF LetIn
  <2> QED
    BY <1>2, <1>3, <1>4, <1>5, <2>1 DEF IInv, Enables
<1>13. Entries'
  BY <1>2, <1>4, <1>5 DEF IInv, Entries
<1>14. Order'
  BY <1>3, <1>4, <1>5 DEF IInv, Order
<1> QED
  BY <1>6, <1>7, <1>8, <1>11, <1>12, <1>13, <1>14 DEF IInv

(* With more pending it goes on; else the frame below has its status back. *)
LEMMA AgainStep ==
  ASSUME IInv, HandlerReturns, alt_irq_pending # {}
  PROVE  IInv'
<1>1. PICK f : f = [Top EXCEPT !.pc = "dispatch", !.irq = -1, !.active = alt_irq_pending]
  OBVIOUS
<1>2. /\ SetTop(f) /\ Top.pc \in {"body", "end"} /\ (Top.pc = "body" => ~Top.nested)
      /\ UNCHANGED <<table, cpu>>
  BY <1>1 DEF HandlerReturns, At, cpu
<1>3. PICK n \in Nat : n = Len(frames) /\ n > 1
  BY <1>2, HandlerAbove DEF IInv, Stack
<1>4. ~Top.nested
  BY <1>2, <1>3 DEF IInv, TopFrame
<1>5. alt_irq_pending \subseteq ienable /\ alt_irq_pending \subseteq Irqs
  BY DEF alt_irq_pending, IInv, Enables
<1>6. /\ f \in Frame /\ f.pc = "dispatch" /\ f.irq = -1 /\ ~f.nested /\ f.estatus
      /\ f.active = alt_irq_pending
  BY <1>1, <1>4, <1>5, TopIs DEF Frame
<1>7. /\ frames' \in Seq(Frame) /\ Len(frames') = n /\ frames'[n] = f /\ Top = frames[n] /\ Top' = f
      /\ \A k \in 1..(n - 1) : frames'[k] = frames[k]
  BY <1>2, <1>3, <1>6, TopChanged DEF IInv, Stack
<1>8. Stack'
  BY <1>2, <1>6, HandlerAbove, SameStack
<1>9. TopFrame' /\ Status'
  <2>1. ~pie /\ pie' = pie
    BY <1>2, <1>3, <1>4 DEF IInv, Status, cpu
  <2>2. TopFrame'
    BY <1>3, <1>6, <1>7 DEF TopFrame
  <2>3. Len(frames') # 1 /\ f.pc \notin Section
    BY <1>3, <1>6, <1>7 DEF Section
  <2>4. pie \in BOOLEAN
    BY DEF IInv, Status
  <2>5. Status'
    BY <1>6, <1>7, <2>1, <2>3, <2>4 DEF Status
  <2> QED
    BY <2>2, <2>5
<1>10. \A k \in 1..n : LetIn(k)' = LetIn(k)
  BY <1>3, <1>7 DEF LetIn
<1>11. Masks'
  BY <1>2, <1>3, <1>4, <1>6, <1>7, <1>10 DEF IInv, Masks, table
<1>12. Enables' /\ Entries'
  BY <1>2, <1>3, <1>4, <1>5, <1>6, <1>7 DEF IInv, Enables, Entries, table, cpu
<1>13. Order'
  BY <1>3, <1>6, <1>7 DEF IInv, Order
<1> QED
  BY <1>8, <1>9, <1>11, <1>12, <1>13 DEF IInv

LEMMA ReturnStep ==
  ASSUME IInv, HandlerReturns, alt_irq_pending = {}
  PROVE  IInv'
<1>1. /\ frames' = SubSeq(frames, 1, Len(frames) - 1) /\ pie' = Top.estatus
      /\ Top.pc \in {"body", "end"} /\ (Top.pc = "body" => ~Top.nested)
      /\ UNCHANGED <<table, ienable>>
  BY DEF HandlerReturns, At
<1>2. PICK n \in Nat : n = Len(frames) /\ n > 1
  BY <1>1, HandlerAbove DEF IInv, Stack
<1>3. ~Top.nested /\ Top = frames[n]
  BY <1>1, <1>2, TopIs DEF IInv, TopFrame
<1>4. /\ frames' \in Seq(Frame) /\ Len(frames') = n - 1
      /\ \A k \in 1..(n - 1) : frames'[k] = frames[k]
  BY <1>1, <1>2 DEF IInv, Stack
<1>5. PICK f : f = frames[n - 1]
  OBVIOUS
<1>6. Top' = f
  BY <1>2, <1>4, <1>5 DEF Top
<1>7. /\ n = 2 => f.pc \in {"run", "fault"} /\ ~f.nested
      /\ n > 2 => f.pc = "body" /\ f.nested /\ f.irq \in Irqs
  BY <1>2, <1>5 DEF IInv, Stack
<1>8. pie' \in BOOLEAN /\ pie'
  BY <1>1, TopIs DEF Frame
<1>9. Stack'
  BY <1>2, <1>4 DEF IInv, Stack
<1>10. TopFrame' /\ Status'
  <2>1. CASE n = 2
    <3>1. PICK m \in Nat : m = Len(frames') /\ m = 1
      BY <1>4, <2>1
    <3>2. TopFrame'
      BY <1>6, <1>7, <2>1, <3>1 DEF TopFrame
    <3>3. Status'
      BY <1>6, <1>7, <1>8, <2>1, <3>1 DEF Status, Section
    <3> QED
      BY <3>2, <3>3
  <2>2. CASE n > 2
    <3>1. TopFrame'
      BY <1>2, <1>4, <1>6, <1>7, <2>2, Numbers DEF TopFrame
    <3>2. Status'
      BY <1>2, <1>4, <1>6, <1>7, <1>8, <2>2 DEF Status, Section
    <3> QED
      BY <3>1, <3>2
  <2> QED
    BY <1>2, <2>1, <2>2
<1>11. \A k \in 1..(n - 1) : LetIn(k)' = LetIn(k)
  BY <1>2, <1>4 DEF LetIn
<1>12. Masks'
  <2>1. \A k \in 2..(n - 1) : frames[k].nested => frames[k].mask = LetIn(k)
    BY <1>2 DEF IInv, Masks
  <2>2. alt_priority_mask' = IF f.nested THEN MaskBelow(f.irq) ELSE LetIn(n - 1)
    BY <1>1, <1>2, <1>3, <1>5, <1>7 DEF IInv, Masks, LetIn, table
  <2> QED
    BY <1>2, <1>4, <1>6, <1>11, <2>1, <2>2 DEF Masks
<1>13. Enables' /\ Entries'
  <2>1. n = 2 => ienable = alt_irq_active
    BY <1>2, <1>3 DEF IInv, Enables
  <2>2. f.pc \notin {"dispatch", "context", "enable", "disable"}
    BY <1>2, <1>7
  <2>3. Enables'
    BY <1>1, <1>2, <1>4, <1>6, <1>7, <2>1, <2>2 DEF IInv, Enables, table
  <2> QED
    BY <1>1, <1>6, <2>2, <2>3 DEF IInv, Entries, table
<1>14. Order'
  BY <1>2, <1>4 DEF IInv, Order
<1> QED
  BY <1>9, <1>10, <1>12, <1>13, <1>14 DEF IInv

LEMMA OtherStep ==
  ASSUME IInv, Device \/ alt_instruction_exception_register \/ UNCHANGED interruptVars
  PROVE  IInv'
BY DEF Device, alt_instruction_exception_register, interruptVars, table, cpu, exc, IInv, Stack, TopFrame,
       Status, Masks, LetIn, Enables, Entries, Order, Top

LEMMA NextStep ==
  ASSUME IInv, [InterruptNext]_interruptVars
  PROVE  IInv'
<1>1. HandlerReturns => IInv'
  BY AgainStep, ReturnStep
<1> QED
  BY <1>1, StartRegisterStep, RegisterHandlerStep, RegisterContextStep, StartChangeStep, WriteStep,
     RestoreStep, TakeStep, DispatchStep, ServeStep, ProgramStep, InterruptibleStep,
     NonInterruptibleStep, OtherStep DEF InterruptNext, Change, Handle, Stopped

LEMMA Invariance == InterruptSpec => []IInv
<1>1. InterruptInit => IInv
  BY Start
<1>2. IInv /\ [InterruptNext]_interruptVars => IInv'
  BY NextStep
<1> QED
  BY <1>1, <1>2, PTL DEF InterruptSpec
-------------------------------------------------------------------------------
(* alt_irq_register.c 76-83, alt_iic_isr_register.c 82-97: whatever is     *)
(* registered, enabled and interrupted, by the program or by handlers, a   *)
(* dispatched handler is there and gets its own context.                   *)
THEOREM HandlersWhole == InterruptSpec => []EntryWhole
<1>1. IInv => EntryWhole
  <2> SUFFICES ASSUME IInv, Top.pc = "dispatch"
               PROVE  alt_irq[First(Top.active)].handler # NULL
                      /\ alt_irq[First(Top.active)].context = alt_irq[First(Top.active)].handler
    BY DEF EntryWhole, At
  <2>1. PICK i : i = First(Top.active)
    OBVIOUS
  <2>2. i \in Irqs /\ i \in alt_irq_active
    BY <2>1, FirstIsOne DEF IInv, Enables
  <2> QED
    BY <2>1, <2>2 DEF IInv, Entries
<1> QED
  BY <1>1, Invariance, PTL

(* alt_legacy_irq.h 103-105: for any number of lines handlers are only     *)
(* interrupted by more urgent ones, where no handler changes the enables.  *)
THEOREM MoreUrgent ==
  ASSUME ~ChangeInIsr
  PROVE  InterruptSpec => []MoreUrgentOnly
<1>1. IInv => MoreUrgentOnly
  <2> SUFFICES ASSUME IInv, NEW j \in InHandler, NEW k \in InHandler, j < k
               PROVE  frames[k].irq < frames[j].irq /\ frames[j].nested
    BY DEF MoreUrgentOnly
  <2>1. PICK n \in Nat : n = Len(frames)
    BY DEF IInv, Stack
  <2>2. j \in 2..n /\ k \in 2..n /\ frames[k].irq # -1 /\ j \in 2..(n - 1)
    BY <2>1 DEF InHandler
  <2>3. frames[j].nested
    BY <2>1, <2>2 DEF IInv, Stack
  <2> QED
    BY <2>1, <2>2, <2>3 DEF IInv, Order
<1> QED
  BY <1>1, Invariance, PTL

(* alt_legacy_irq.h 101-149: however handlers nest, and whatever they      *)
(* enable and disable, the program gets back all enables and its status.   *)
THEOREM Restored == InterruptSpec => []MaskRestored
<1>1. IInv => MaskRestored
  BY TopIs DEF IInv, Masks, LetIn, Enables, Status, MaskRestored
<1> QED
  BY <1>1, Invariance, PTL
===============================================================================
