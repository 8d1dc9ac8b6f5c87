-------------------------- MODULE D4Control_proofs --------------------------
(***************************************************************************)
(* Proofs about D4Control, for any number of tries and detections.         *)
(***************************************************************************)
EXTENDS D4Control, TLAPS

BeforeSema == {"await", "load", "run", "model", "usecase", "sema", "err", "deleted"}

(* The order of the boot: what is there at each of its places.             *)
BootOrder ==
  /\ pc \in BeforeSema <=> action_sema_control = NoSema
  /\ irq_on <=> pc \notin BeforeSema \union {"irq"}
  /\ pc \in BeforeSema \ {"sema"} => mode \in {"off", "IDLE"}
  /\ pc \in {"await", "load"} => fail_cnt < MaxTries
  /\ ~wlan_up => init_finish_sema = 0

(* A wake-up, waiting or being served, means that the chip is buffering:   *)
(* it cannot detect another phrase, so there cannot be another wake-up.    *)
WakeMeansBuffering ==
  action_sema_control > 0 \/ Serving => mode = "BUFFERING"

Inv ==
  /\ TypeOK
  /\ BootOrder
  /\ WakeMeansBuffering
  /\ IrqFindsSema
  /\ WakeNotForgotten
  /\ OneWakePerDetection
  /\ RearmsWhatItServed

(* The boot starts with no semaphore, no interrupt and a silent chip.      *)
LEMMA InvInit == Init => Inv
<1> SUFFICES ASSUME Init PROVE Inv
  OBVIOUS
<1>1. TypeOK
  <2>1. {wlan_up, irq_on, isr_fault, verified, model, known_word, stuck} \subseteq BOOLEAN
    BY DEF Init
  <2>2. /\ fail_cnt \in 0 .. MaxTries
        /\ init_finish_sema \in {0, 1}
        /\ detections \in 0 .. MaxDetections /\ serving \in 0 .. detections
    BY ControlAssumption DEF Init
  <2>3. QED BY <2>1, <2>2 DEF Init, TypeOK
<1>2. QED
  BY <1>1, ControlAssumption DEF Init, Inv, BootOrder, BeforeSema, WakeMeansBuffering,
     IrqFindsSema, WakeNotForgotten, OneWakePerDetection, RearmsWhatItServed, Serving, NoSema

(* The chip and init_thread.                                               *)
LEMMA EnvironmentKeepsInv == Inv /\ (Detect \/ WlanUp) => Inv'
<1> SUFFICES ASSUME Inv, Detect \/ WlanUp PROVE Inv'
  OBVIOUS
<1> USE ControlAssumption DEF Inv, BootOrder, BeforeSema, WakeMeansBuffering, IrqFindsSema,
        WakeNotForgotten, OneWakePerDetection, RearmsWhatItServed, Serving, NoSema
<1>1. CASE Detect
  <2>1. /\ mode = "DETECTION" /\ mode' = "BUFFERING"
        /\ action_sema_control \in {NoSema, 0} /\ ~Serving
    BY <1>1 DEF TypeOK, Detect
  <2>2. action_sema_control' = IF irq_on THEN 1 ELSE action_sema_control
    BY <1>1, <2>1 DEF TypeOK, Detect, Edge
  <2>3. ~isr_fault'
    BY <1>1, <2>1 DEF TypeOK, Detect, Edge
  <2>4. stuck' <=> ~irq_on
    BY <1>1 DEF Detect
  <2>5. stuck' \in BOOLEAN /\ isr_fault' \in BOOLEAN /\ known_word' \in BOOLEAN
    BY <1>1 DEF Detect, Edge
  <2>6. detections' \in 0 .. MaxDetections /\ serving \in 0 .. detections'
    BY <1>1 DEF TypeOK, Detect
  <2>7. UNCHANGED <<pc, fail_cnt, op_mode, init_finish_sema, wlan_up, irq_on, firmware,
                    verified, model, serving>>
    BY <1>1 DEF Detect, Edge, sched
  <2>8. TypeOK' BY <2>1, <2>2, <2>5, <2>6, <2>7 DEF TypeOK
  <2>9. QED BY <2>1, <2>2, <2>3, <2>4, <2>7, <2>8
<1>2. CASE WlanUp BY <1>2 DEF TypeOK, WlanUp, irq, chip
<1>3. QED BY <1>1, <1>2

(* The steps of the boot.                                                  *)
LEMMA BootKeepsInv == Inv /\ Boot => Inv'
<1> SUFFICES ASSUME Inv, Boot PROVE Inv'
  OBVIOUS
<1> USE ControlAssumption DEF Inv, TypeOK, BootOrder, BeforeSema, WakeMeansBuffering,
        IrqFindsSema, WakeNotForgotten, OneWakePerDetection, RearmsWhatItServed, Serving,
        NoSema, irq, chip, sched
<1>1. CASE StartDevice BY <1>1 DEF StartDevice
<1>2. CASE LoadFirmware
  <2>1. /\ fail_cnt < MaxTries
        /\ UNCHANGED <<op_mode, sched, mode, model, known_word, detections, serving, stuck>>
        /\ action_sema_control = NoSema /\ ~irq_on /\ mode \in {"off", "IDLE"}
    BY <1>2 DEF LoadFirmware
  <2>2. UNCHANGED irq BY <1>2, <2>1 DEF LoadFirmware, Edge
  <2>3. /\ fail_cnt' \in 0 .. MaxTries
        /\ pc' \in {"run", "err", "load"}
        /\ pc' = "load" => fail_cnt' < MaxTries
        /\ firmware' \in {"none", "good", "damaged"} /\ verified' \in BOOLEAN
    BY <1>2, <2>1 DEF LoadFirmware, FailCount, OutOfTries
  <2>4. pc = "load" BY <1>2 DEF LoadFirmware
  <2>5. QED BY <2>1, <2>2, <2>3, <2>4
<1>3. CASE RunFirmware BY <1>3 DEF RunFirmware
<1>4. CASE LoadModel BY <1>4 DEF LoadModel
<1>5. CASE UseCase BY <1>5 DEF UseCase, Armed
<1>6. CASE CreateSema BY <1>6 DEF CreateSema
<1>7. CASE EnableIrq BY <1>7 DEF EnableIrq
<1>8. CASE GiveUp BY <1>8 DEF GiveUp
<1>9. QED BY <1>1, <1>2, <1>3, <1>4, <1>5, <1>6, <1>7, <1>8 DEF Boot

(* The steps of a pass through the loop.                                   *)
LEMMA ServeKeepsInv == Inv /\ Serve => Inv'
<1> SUFFICES ASSUME Inv, Serve PROVE Inv'
  OBVIOUS
<1> USE ControlAssumption DEF Inv, TypeOK, BootOrder, BeforeSema, WakeMeansBuffering,
        IrqFindsSema, WakeNotForgotten, OneWakePerDetection, RearmsWhatItServed, Serving,
        NoSema, irq, chip, sched
<1>1. CASE DownAction BY <1>1 DEF DownAction
<1>2. CASE ReadWord
  <2>1. /\ pc = "word" /\ pc' \in {"mode", "delay"} /\ serving' = detections
        /\ mode = "BUFFERING"
        /\ UNCHANGED <<fail_cnt, op_mode, sched, irq, chip>>
    BY <1>2 DEF ReadWord
  <2>2. pc' = "delay" => stuck'
    BY <1>2, <2>1 DEF ReadWord
  <2>3. stuck' \in BOOLEAN
    BY <1>2 DEF ReadWord
  <2>4. QED BY <2>1, <2>2, <2>3
<1>3. CASE ReadMode
  <2>1. /\ pc = "mode" /\ pc' \in {"pull", "rearm"}
        /\ op_mode' \in {"off", "IDLE", "DETECTION", "BUFFERING"}
        /\ UNCHANGED <<fail_cnt, sched, irq, chip, serving, stuck>>
    BY <1>3 DEF ReadMode
  <2>2. QED BY <2>1
<1>4. CASE Pull BY <1>4 DEF Pull
<1>5. CASE Rearm BY <1>5 DEF Rearm, Armed
<1>6. CASE Delay BY <1>6 DEF Delay
<1>7. QED BY <1>1, <1>2, <1>3, <1>4, <1>5, <1>6 DEF Serve

(* Every step of the task, the chip and the interrupt keeps the invariant. *)
LEMMA InvStep == Inv /\ [Next]_vars => Inv'
<1> SUFFICES ASSUME Inv, [Next]_vars PROVE Inv'
  OBVIOUS
<1>1. CASE Next
  BY <1>1, EnvironmentKeepsInv, BootKeepsInv, ServeKeepsInv DEF Next
<1>2. CASE UNCHANGED vars
  BY <1>2 DEF vars, irq, chip, sched, Inv, TypeOK, BootOrder, WakeMeansBuffering,
     IrqFindsSema, WakeNotForgotten, OneWakePerDetection, RearmsWhatItServed, Serving
<1>3. QED BY <1>1, <1>2

(* The invariant holds throughout.                                         *)
LEMMA InvAlways == Spec => []Inv
  BY InvInit, InvStep, PTL DEF Spec

-----------------------------------------------------------------------------

(* Every variable keeps its type: Init_D4 never tries more than MaxTries   *)
(* times.                                                                  *)
THEOREM TypeCorrect == Spec => []TypeOK
<1>1. Inv => TypeOK BY DEF Inv
<1>2. QED BY <1>1, InvAlways, PTL

(* The interrupt handler never runs before its semaphore is there.         *)
THEOREM IrqFindsSemaAlways == Spec => []IrqFindsSema
<1>1. Inv => IrqFindsSema BY DEF Inv
<1>2. QED BY <1>1, InvAlways, PTL

(* A detection that was not overlooked is going to be served.              *)
THEOREM WakeNotForgottenAlways == Spec => []WakeNotForgotten
<1>1. Inv => WakeNotForgotten BY DEF Inv
<1>2. QED BY <1>1, InvAlways, PTL

(* A detection wakes dbmd_task once.                                       *)
THEOREM OneWakeAlways == Spec => []OneWakePerDetection
<1>1. Inv => OneWakePerDetection BY DEF Inv
<1>2. QED BY <1>1, InvAlways, PTL

(* No other detection comes before the chip is armed again: what is armed  *)
(* again is what was served.                                               *)
THEOREM RearmsAlways == Spec => []RearmsWhatItServed
<1>1. Inv => RearmsWhatItServed BY DEF Inv
<1>2. QED BY <1>1, InvAlways, PTL
=============================================================================
