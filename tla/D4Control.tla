----------------------------- MODULE D4Control -----------------------------
(***************************************************************************)
(* dbmd_task (dbmd_init.c): it boots the D4 voice chip and then serves its *)
(* detections, woken through action_sema_control by the interrupt that the *)
(* chip raises.  With it the chip itself and init_thread, which brings the *)
(* radio up first and lets dbmd_task go.                                   *)
(*                                                                         *)
(* A register read that times out gives 0 (read_register_spi), so every    *)
(* read can give 0.  What the chip says about a phrase is abstracted to    *)
(* whether VT_ENGINE_WORDID is one of 1 .. 98.  pull_buffer is one step    *)
(* here; PullBuffer has the detail.                                        *)
(***************************************************************************)
EXTENDS Integers

CONSTANTS
  MaxTries,       (* firmware loads before Init_D4 gives up (5)            *)
  MaxDetections   (* bound: phrases the chip detects in a behaviour        *)

ASSUME ControlAssumption == MaxTries \in Nat \ {0} /\ MaxDetections \in Nat

NoSema == -1      (* action_sema_control before rtw_init_sema              *)

VARIABLES
  pc,             (* where dbmd_task is                                    *)
  fail_cnt,       (* in Init_D4                                            *)
  op_mode,        (* what dbmd_task read from OPERATION_MODE last          *)
  init_finish_sema,
  wlan_up,        (* init_thread has upped it and is gone                  *)
  action_sema_control,
  irq_on,         (* gpio_irq_enable was called                            *)
  isr_fault,      (* the handler upped a semaphore that is not there       *)
  firmware,       (* in the chip's memory: "none", "good", "damaged"       *)
  verified,       (* the last read_checksum found the sums equal           *)
  mode,           (* the chip's: "off", "IDLE", "DETECTION", "BUFFERING"   *)
  model,          (* the acoustic model in the chip is usable              *)
  known_word,     (* VT_ENGINE_WORDID is in 1 .. 98                        *)
  detections,     (* phrases detected                                      *)
  serving,        (* the one whose word dbmd_task read last                *)
  stuck           (* the one buffered was overlooked: its edge came before *)
                  (* the interrupt was on, or its word could not be read   *)

sched == <<init_finish_sema, wlan_up>>
irq == <<action_sema_control, irq_on, isr_fault>>
chip == <<firmware, verified, mode, model, known_word, detections>>
vars == <<pc, fail_cnt, op_mode, sched, irq, chip, serving, stuck>>

Init ==
  /\ pc = "await"
  /\ fail_cnt = 0
  /\ op_mode = "IDLE"
  /\ init_finish_sema = 0
  /\ wlan_up = FALSE
  /\ action_sema_control = NoSema
  /\ irq_on = FALSE
  /\ isr_fault = FALSE
  /\ firmware = "none"
  /\ verified = FALSE
  /\ mode = "off"
  /\ model = FALSE
  /\ known_word = FALSE
  /\ detections = 0
  /\ serving = 0
  /\ stuck = FALSE

-----------------------------------------------------------------------------
(* The interrupt.  An edge that comes while it is not enabled is lost;     *)
(* one that comes while it is runs d4p_irq_handle at once.                 *)
Edge ==
  /\ action_sema_control' =
       IF irq_on /\ action_sema_control # NoSema
         THEN action_sema_control + 1 ELSE action_sema_control
  /\ isr_fault' = (isr_fault \/ (irq_on /\ action_sema_control = NoSema))
  /\ UNCHANGED irq_on

(* The chip, armed, hears a phrase, buffers the speech and raises its line. *)
Detect ==
  /\ mode = "DETECTION" /\ model
  /\ detections < MaxDetections
  /\ detections' = detections + 1
  /\ mode' = "BUFFERING"
  /\ known_word' \in BOOLEAN
  /\ Edge
  /\ stuck' = ~irq_on
  /\ UNCHANGED <<pc, fail_cnt, op_mode, sched, firmware, verified, model, serving>>

(* init_thread: wifi_on, then rtw_up_sema(&init_finish_sema).              *)
WlanUp ==
  /\ ~wlan_up
  /\ wlan_up' = TRUE
  /\ init_finish_sema' = init_finish_sema + 1
  /\ UNCHANGED <<pc, fail_cnt, op_mode, irq, chip, serving, stuck>>

-----------------------------------------------------------------------------
(* dbmd_task boots the chip.                                               *)

(* Mutant: the interrupt is enabled with the other pins, as in the disabled *)
(* lines 105-109.                                                          *)
StartDeviceWithIrq ==
  /\ pc = "await" /\ init_finish_sema > 0
  /\ init_finish_sema' = init_finish_sema - 1
  /\ mode' = "off" /\ firmware' = "none"
  /\ irq_on' = TRUE
  /\ pc' = "load"
  /\ UNCHANGED <<fail_cnt, op_mode, wlan_up, action_sema_control, isr_fault, verified, model,
                 known_word, detections, serving, stuck>>

(* The semaphore, rtl_dev_init and set_d4p_reset.                          *)
StartDevice ==
  /\ pc = "await" /\ init_finish_sema > 0
  /\ init_finish_sema' = init_finish_sema - 1
  /\ mode' = "off" /\ firmware' = "none"
  /\ pc' = "load"
  /\ UNCHANGED <<fail_cnt, op_mode, wlan_up, irq, verified, model, known_word, detections,
                 serving, stuck>>

(* What read_checksum returns after a load: 0 for the chip's sum equal to  *)
(* the file's, the sign of strncmp for another, -1 if the read timed out.  *)
ChecksumResults(loaded) == IF loaded = "good" THEN {0, -1} ELSE {1, -1}

(* Init_D4 takes load_file for failed if it returns less than 0.           *)
LoadFailed(rc) == rc < 0

(* Mutant: a failure starts the count over.                                *)
FailCountRestarted(rc) == IF LoadFailed(rc) THEN 1 ELSE fail_cnt

FailCount(rc) == IF LoadFailed(rc) THEN fail_cnt + 1 ELSE fail_cnt

(* Mutant: one try too many.                                               *)
OutOfTriesLate(count) == count > MaxTries

OutOfTries(count) == count >= MaxTries

(* A turn of the loop in Init_D4: load_file(FIRMWARE_TYPE, 4).  There is   *)
(* no memory, or the firmware is sent, which arrives well or not and makes *)
(* the chip raise its line, and the checksums are compared.                *)
LoadFirmware ==
  /\ pc = "load"
  /\ \E loaded \in {"good", "damaged"}, sent \in BOOLEAN :
       \E rc \in IF sent THEN ChecksumResults(loaded) ELSE {-1} :
         /\ firmware' = IF sent THEN loaded ELSE firmware
         /\ verified' = (sent /\ rc = 0)
         /\ IF sent THEN Edge ELSE UNCHANGED irq
         /\ fail_cnt' = FailCount(rc)
         /\ pc' = IF ~LoadFailed(rc) THEN "run"
                  ELSE IF OutOfTries(FailCount(rc)) THEN "err" ELSE "load"
  /\ UNCHANGED <<op_mode, sched, mode, model, known_word, detections, serving, stuck>>

(* Run_D4 and Config_D4: registers are written, and what is read of them   *)
(* is only printed.  A damaged firmware does nothing.                      *)
RunFirmware ==
  /\ pc = "run"
  /\ mode' = IF firmware = "good" THEN "IDLE" ELSE "off"
  /\ pc' = "model"
  /\ UNCHANGED <<fail_cnt, op_mode, sched, irq, firmware, verified, model, known_word,
                 detections, serving, stuck>>

(* Load_A_Model, whose result is ignored.                                  *)
LoadModel ==
  /\ pc = "model"
  /\ model' \in BOOLEAN
  /\ pc' = "usecase"
  /\ UNCHANGED <<fail_cnt, op_mode, sched, irq, firmware, verified, mode, known_word,
                 detections, serving, stuck>>

Armed == IF mode = "off" THEN "off" ELSE "DETECTION"

(* use_case_AEC_1mic_mono: parameters, and at last OPERATION_MODE is set   *)
(* to DETECTION.                                                           *)
UseCase ==
  /\ pc = "usecase"
  /\ mode' = Armed
  /\ pc' = "sema"
  /\ UNCHANGED <<fail_cnt, op_mode, sched, irq, firmware, verified, model, known_word,
                 detections, serving, stuck>>

(* Mutant: the semaphore starts with a count of 1.                         *)
CreateSemaGiven ==
  /\ pc = "sema"
  /\ action_sema_control' = 1
  /\ pc' = "irq"
  /\ UNCHANGED <<fail_cnt, op_mode, sched, irq_on, isr_fault, chip, serving, stuck>>

CreateSema ==
  /\ pc = "sema"
  /\ action_sema_control' = 0
  /\ pc' = "irq"
  /\ UNCHANGED <<fail_cnt, op_mode, sched, irq_on, isr_fault, chip, serving, stuck>>

(* rtl_int_init                                                            *)
EnableIrq ==
  /\ pc = "irq"
  /\ irq_on' = TRUE
  /\ pc' = "wait"
  /\ UNCHANGED <<fail_cnt, op_mode, sched, action_sema_control, isr_fault, chip, serving,
                 stuck>>

(* spi_free and vTaskDelete.                                               *)
GiveUp ==
  /\ pc = "err"
  /\ pc' = "deleted"
  /\ UNCHANGED <<fail_cnt, op_mode, sched, irq, chip, serving, stuck>>

-----------------------------------------------------------------------------
(* dbmd_task serves detections.                                            *)

DownAction ==
  /\ pc = "wait" /\ action_sema_control > 0
  /\ action_sema_control' = action_sema_control - 1
  /\ pc' = "word"
  /\ UNCHANGED <<fail_cnt, op_mode, sched, irq_on, isr_fault, chip, serving, stuck>>

(* VT_ENGINE_WORDID: in 1 .. 98, or the pass is over.                      *)
ReadWord ==
  /\ pc = "word"
  /\ serving' = detections
  /\ \/ known_word /\ pc' = "mode" /\ UNCHANGED stuck
     \/ pc' = "delay" /\ stuck' = (stuck \/ mode = "BUFFERING")
  /\ UNCHANGED <<fail_cnt, op_mode, sched, irq, chip>>

(* AUDIO_STREAMING_SOURCE_SELECT and OPERATION_MODE: if the first is not   *)
(* 0xffff and the second says BUFFERING, the speech is fetched.            *)
ReadMode ==
  /\ pc = "mode"
  /\ op_mode' \in {mode, "IDLE"}
  /\ pc' \in IF op_mode' = "BUFFERING" THEN {"pull", "rearm"} ELSE {"rearm"}
  /\ UNCHANGED <<fail_cnt, sched, irq, chip, serving, stuck>>

(* pull_buffer; nobody looks at what it returns.                           *)
Pull ==
  /\ pc = "pull"
  /\ pc' = "rearm"
  /\ UNCHANGED <<fail_cnt, op_mode, sched, irq, chip, serving, stuck>>

(* Mutant: only a chip whose speech was fetched is armed again.            *)
RearmIfPulled ==
  /\ pc = "rearm"
  /\ mode' = IF op_mode = "BUFFERING" THEN Armed ELSE mode
  /\ pc' = "delay"
  /\ UNCHANGED <<fail_cnt, op_mode, sched, irq, firmware, verified, model, known_word,
                 detections, serving, stuck>>

Rearm ==
  /\ pc = "rearm"
  /\ mode' = Armed
  /\ pc' = "delay"
  /\ UNCHANGED <<fail_cnt, op_mode, sched, irq, firmware, verified, model, known_word,
                 detections, serving, stuck>>

(* Mutant: wake-ups that came during the delay are taken for late ones.    *)
DelayDrains ==
  /\ pc = "delay"
  /\ action_sema_control' = 0
  /\ pc' = "wait"
  /\ UNCHANGED <<fail_cnt, op_mode, sched, irq_on, isr_fault, chip, serving, stuck>>

(* vTaskDelay(1000)                                                        *)
Delay ==
  /\ pc = "delay"
  /\ pc' = "wait"
  /\ UNCHANGED <<fail_cnt, op_mode, sched, irq, chip, serving, stuck>>

Boot ==
  \/ StartDevice \/ LoadFirmware \/ RunFirmware \/ LoadModel \/ UseCase
  \/ CreateSema \/ EnableIrq \/ GiveUp

Serve == DownAction \/ ReadWord \/ ReadMode \/ Pull \/ Rearm \/ Delay

Next == Detect \/ WlanUp \/ Boot \/ Serve

(* The tasks run, and their calls come back; nobody has to speak.          *)
Spec == Init /\ [][Next]_vars /\ WF_vars(WlanUp) /\ WF_vars(Boot \/ Serve)

-----------------------------------------------------------------------------
(* Properties.                                                             *)

(* The types: at most five tries of a load, and no pass of the loop serves a *)
(* detection that has not been made.                                       *)
TypeOK ==
  /\ pc \in {"await", "load", "run", "model", "usecase", "sema", "irq", "err", "deleted",
             "wait", "word", "mode", "pull", "rearm", "delay"}
  /\ fail_cnt \in 0 .. MaxTries
  /\ op_mode \in {"off", "IDLE", "DETECTION", "BUFFERING"}
  /\ init_finish_sema \in {0, 1}
  /\ wlan_up \in BOOLEAN
  /\ action_sema_control \in {NoSema} \union Nat
  /\ irq_on \in BOOLEAN
  /\ isr_fault \in BOOLEAN
  /\ firmware \in {"none", "good", "damaged"}
  /\ verified \in BOOLEAN
  /\ mode \in {"off", "IDLE", "DETECTION", "BUFFERING"}
  /\ model \in BOOLEAN
  /\ known_word \in BOOLEAN
  /\ detections \in 0 .. MaxDetections
  /\ serving \in 0 .. detections
  /\ stuck \in BOOLEAN

(* The handler never runs before the semaphore it ups is there.            *)
IrqFindsSema == ~isr_fault

Serving == pc \in {"word", "mode", "pull", "rearm"}

(* A detection that was not overlooked has a wake-up waiting, or dbmd_task *)
(* is at it: as long as the chip buffers, somebody will put it back.       *)
WakeNotForgotten ==
  mode = "BUFFERING" /\ ~stuck => action_sema_control > 0 \/ Serving

(* There is no second wake-up for a detection: each would be a pass that   *)
(* re-arms the chip without having been asked.                             *)
OneWakePerDetection == action_sema_control > 0 => action_sema_control = 1 /\ ~Serving

(* No phrase is detected between the look at the word and the re-arming,   *)
(* which would throw the speech away unheard.                              *)
RearmsWhatItServed == pc \in {"mode", "pull", "rearm"} => serving = detections

(* A detection that was not overlooked ends with the chip armed again.     *)
DetectionServed ==
  mode = "BUFFERING" /\ ~stuck ~> mode = "DETECTION" \/ stuck

(* dbmd_task gets to its loop, or gives up and deletes itself.             *)
BootEnds == <>(pc \in {"wait", "deleted"})

(* What Init_D4 accepts, and runs, is firmware whose checksum was right.   *)
RunsVerifiedFirmware == pc = "run" => verified
=============================================================================
