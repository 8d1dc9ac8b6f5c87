---------------------------- MODULE TtsPipeline ----------------------------
(***************************************************************************)
(* From a recognised sentence to the frames of its synthesised speech:     *)
(*                                                                         *)
(*   dbmd_task     get_result_baidu writes the answer into the global      *)
(*                 text and ups init_set_tts            (asrmain.c)        *)
(*   asr_baidu_main  copies text, requests speech, reads the body piece by *)
(*                 piece into buf and sends the address of a record on its *)
(*                 own stack through recv_tts_queue     (ttsmain.c)        *)
(*   tts_recv_task copies the piece that record points at and sends the    *)
(*                 address of a record on its stack, one frame at a time,  *)
(*                 through parse_recv_mp3_queue         (mp3parse.c)       *)
(*   mp3_parse_recv  reads that record                                     *)
(*                                                                         *)
(* Both queues carry pointers and hold one item; the senders go on using,  *)
(* freeing and leaving what the pointers point at.  What keeps that right  *)
(* is the FreeRTOS scheduler: one core, and always a ready task of the     *)
(* highest priority.  Every step of a task is guarded by MayRun.           *)
(*                                                                         *)
(* Pieces, frames and answers are numbered.  What a pointer leads to is    *)
(* the number stored there now; the queue remembers, next to the pointer,  *)
(* the number that was there when it was sent.                             *)
(***************************************************************************)
EXTENDS Integers, Sequences

CONSTANTS
  MaxAnswers,   (* bound: answers recognised in a behaviour                *)
  MaxChunks,    (* bound: pieces read in a behaviour                       *)
  MaxFrames     (* bound: frames completed by one piece                    *)

ASSUME PipelineAssumption ==
  MaxAnswers \in Nat /\ MaxChunks \in Nat /\ MaxFrames \in Nat

Tasks == {"dbmd", "asr", "tts", "mp3"}

(* Mutants: the receiver of pieces below their sender;                     *)
(* the reader of frames below theirs.                                      *)
PriorityTtsBelow == [dbmd |-> 4, asr |-> 3, tts |-> 2, mp3 |-> 5]
PriorityMp3Below == [dbmd |-> 4, asr |-> 3, tts |-> 4, mp3 |-> 3]

(* Above tskIDLE_PRIORITY.                                                 *)
Priority == [dbmd |-> 4, asr |-> 3, tts |-> 4, mp3 |-> 5]

Gone == 0      (* what a dangling pointer leads to: a freed buffer, a left  *)
               (* stack frame                                               *)

VARIABLES
  pc,           (* where each task is                                      *)
  text,         (* global text: the answers its two halves belong to       *)
  init_set_tts, (* the semaphore's count                                   *)
  cfg_text,     (* config.text in run_start_tts                            *)
  buf,          (* the piece in the heap buffer of run_tts                 *)
  http_info,    (* the piece run_tts' tmp_entity describes                 *)
  recv_tts_queue,
  tts_got,      (* the piece sent with the pointer tts_recv_task received  *)
  ring_info,    (* the frame parse_mp3_frame's tmp_entity describes        *)
  parse_recv_mp3_queue,
  mp3_got,      (* the frame sent with the pointer mp3_parse_recv received *)
  frames_left,  (* frames the piece being parsed completes, bound MaxFrames *)
  answers,      (* answers begun: written to text or being written         *)
  posted,       (* the last answer written and posted                      *)
  chunks,       (* pieces read                                             *)
  heard,        (* the last piece copied by tts_recv_task                  *)
  frames,       (* frames described                                        *)
  shown,        (* the last frame read by mp3_parse_recv                   *)
  lost          (* sends given up because the queue was full               *)

answerVars == <<text, init_set_tts, cfg_text, answers, posted>>
chunkVars  == <<buf, http_info, chunks>>
ttsVars    == <<tts_got, ring_info, frames_left, heard, frames>>
mp3Vars    == <<mp3_got, shown>>
queues     == <<recv_tts_queue, parse_recv_mp3_queue, lost>>
vars == <<pc, answerVars, chunkVars, ttsVars, mp3Vars, queues>>

Init ==
  /\ pc = [dbmd |-> "listen", asr |-> "boot", tts |-> "none", mp3 |-> "none"]
  /\ text = <<0, 0>>
  /\ init_set_tts = 0
  /\ cfg_text = <<0, 0>>
  /\ buf = Gone
  /\ http_info = Gone
  /\ recv_tts_queue = <<>>
  /\ tts_got = 0
  /\ ring_info = Gone
  /\ parse_recv_mp3_queue = <<>>
  /\ mp3_got = 0
  /\ frames_left = 0
  /\ answers = 0
  /\ posted = 0
  /\ chunks = 0
  /\ heard = 0
  /\ frames = 0
  /\ shown = 0
  /\ lost = 0

-----------------------------------------------------------------------------
(* The scheduler.  A task that waits for the network is blocked until the  *)
(* network lets it go on; one that waits for a semaphore or a queue is     *)
(* blocked while that is empty.  The 5 s timeouts of the two receivers     *)
(* only print and wait again, so they are left out.                        *)
Blocked(t) ==
  \/ pc[t] \in {"none", "boot", "listen", "network"}
  \/ t = "asr" /\ pc[t] = "down" /\ init_set_tts = 0
  \/ t = "tts" /\ pc[t] = "receive" /\ recv_tts_queue = <<>>
  \/ t = "mp3" /\ pc[t] = "receive" /\ parse_recv_mp3_queue = <<>>

MayRun(t) ==
  /\ ~Blocked(t)
  /\ \A u \in Tasks : Blocked(u) \/ Priority[u] <= Priority[t]

Step(t, from, to) ==
  /\ pc[t] = from
  /\ MayRun(t)
  /\ pc' = [pc EXCEPT ![t] = to]

(* What the network does to a task waiting for it; no task runs for it.    *)
Wake(t, from, to) == pc[t] = from /\ pc' = [pc EXCEPT ![t] = to]

(* xQueueSend to a queue of one item.  The 1000 ticks it waits for room in *)
(* a full queue are taken to pass in vain; NothingLost shows that it never *)
(* has to wait.                                                            *)
Send(queue, item) == IF queue = <<>> THEN <<item>> ELSE queue
LossOf(queue) == IF queue = <<>> THEN 0 ELSE 1

-----------------------------------------------------------------------------
(* dbmd_task, in get_result_baidu.                                         *)

(* A response with a result: httpc_response_read_data returns its body.    *)
AnswerArrives ==
  /\ answers < MaxAnswers
  /\ Wake("dbmd", "listen", "clear")
  /\ answers' = answers + 1
  /\ UNCHANGED <<text, init_set_tts, cfg_text, posted, chunkVars, ttsVars, mp3Vars, queues>>

ClearText ==
  /\ Step("dbmd", "clear", "encode1")
  /\ text' = <<0, 0>>
  /\ UNCHANGED <<init_set_tts, cfg_text, answers, posted, chunkVars, ttsVars, mp3Vars, queues>>

(* one_urlencode_utf_8 appends the answer to text, in two halves.          *)
EncodeText(half, from, to) ==
  /\ Step("dbmd", from, to)
  /\ text' = [text EXCEPT ![half] = answers]
  /\ UNCHANGED <<init_set_tts, cfg_text, answers, posted, chunkVars, ttsVars, mp3Vars, queues>>

(* Mutants: a binary semaphore given only to a waiting task; two ups.      *)
UpIfWaiting == IF pc["asr"] = "down" THEN init_set_tts + 1 ELSE init_set_tts
UpTwice == init_set_tts + 2

UpCount == init_set_tts + 1

UpInitSetTts ==
  /\ Step("dbmd", "up", "listen")
  /\ init_set_tts' = UpCount
  /\ posted' = answers
  /\ UNCHANGED <<text, cfg_text, answers, chunkVars, ttsVars, mp3Vars, queues>>

Dbmd ==
  \/ ClearText
  \/ EncodeText(1, "encode1", "encode2")
  \/ EncodeText(2, "encode2", "up")
  \/ UpInitSetTts

-----------------------------------------------------------------------------
(* asr_baidu_main.                                                         *)

(* Wifi is ready and run() has come back, with or without a token.         *)
WifiReady ==
  /\ Wake("asr", "boot", "create_tts")
  /\ UNCHANGED <<answerVars, chunkVars, ttsVars, mp3Vars, queues>>

(* init_queue_to_recv_tts, then init_queue_to_recv_parse_mp3: a queue and  *)
(* its task, which runs at once.                                           *)
CreateTask(t, from, to) ==
  /\ pc["asr"] = from
  /\ MayRun("asr")
  /\ pc' = [pc EXCEPT !["asr"] = to, ![t] = "receive"]
  /\ UNCHANGED <<answerVars, chunkVars, ttsVars, mp3Vars, queues>>

DownInitSetTts ==
  /\ Step("asr", "down", "fill1")
  /\ init_set_tts' = init_set_tts - 1
  /\ UNCHANGED <<text, cfg_text, answers, posted, chunkVars, ttsVars, mp3Vars, queues>>

(* fill_config_tts copies text, in two halves; nothing keeps dbmd_task out. *)
FillConfig(half, from, to) ==
  /\ Step("asr", from, to)
  /\ cfg_text' = [cfg_text EXCEPT ![half] = text[half]]
  /\ UNCHANGED <<text, init_set_tts, answers, posted, chunkVars, ttsVars, mp3Vars, queues>>

(* run_tts: the buffer is there, with nothing in it, and the request goes  *)
(* out; or malloc or httpc_conn_new fails and the answer is not spoken.    *)
RunTts ==
  /\ \E to \in {"network", "down"} : Step("asr", "run", to)
  /\ UNCHANGED <<answerVars, chunkVars, ttsVars, mp3Vars, queues>>

(* The network answers: a piece of the body, or an end of it.  The end     *)
(* stands for every way out of the request: no connection, no header, a    *)
(* status other than 200, another content type, a read of 0 or less.       *)
PieceArrives ==
  /\ chunks < MaxChunks
  /\ Wake("asr", "network", "read")
  /\ UNCHANGED <<answerVars, chunkVars, ttsVars, mp3Vars, queues>>

RequestEnds ==
  /\ Wake("asr", "network", "cleanup")
  /\ UNCHANGED <<answerVars, chunkVars, ttsVars, mp3Vars, queues>>

(* A read into buf, whatever became of the piece before, and the record    *)
(* that describes it.                                                      *)
ReadPiece ==
  /\ chunks < MaxChunks
  /\ Step("asr", "read", "send")
  /\ chunks' = chunks + 1
  /\ buf' = chunks'
  /\ http_info' = chunks'
  /\ UNCHANGED <<answerVars, ttsVars, mp3Vars, queues>>

SendPiece ==
  /\ Step("asr", "send", "more")
  /\ recv_tts_queue' = Send(recv_tts_queue, http_info)
  /\ lost' = lost + LossOf(recv_tts_queue)
  /\ UNCHANGED <<answerVars, chunkVars, ttsVars, mp3Vars, parse_recv_mp3_queue>>

(* size > 0: another read, which finds data already there or waits for it; *)
(* otherwise the body is complete.                                         *)
MorePieces ==
  /\ \E to \in {"read", "network", "cleanup"} :
       /\ to = "read" => chunks < MaxChunks
       /\ Step("asr", "more", to)
  /\ UNCHANGED <<answerVars, chunkVars, ttsVars, mp3Vars, queues>>

(* free(buf), and run_tts returns: the record on its stack is gone too.    *)
Cleanup ==
  /\ Step("asr", "cleanup", "down")
  /\ buf' = Gone
  /\ http_info' = Gone
  /\ UNCHANGED <<answerVars, chunks, ttsVars, mp3Vars, queues>>

Asr ==
  \/ CreateTask("tts", "create_tts", "create_mp3")
  \/ CreateTask("mp3", "create_mp3", "down")
  \/ DownInitSetTts
  \/ FillConfig(1, "fill1", "fill2")
  \/ FillConfig(2, "fill2", "run")
  \/ RunTts
  \/ ReadPiece
  \/ SendPiece
  \/ MorePieces
  \/ Cleanup

-----------------------------------------------------------------------------
(* tts_recv_task.                                                          *)

ReceivePiece ==
  /\ Step("tts", "receive", "copy")
  /\ tts_got' = Head(recv_tts_queue)
  /\ recv_tts_queue' = Tail(recv_tts_queue)
  /\ UNCHANGED <<answerVars, chunkVars, ring_info, frames_left, heard, frames, mp3Vars,
                 parse_recv_mp3_queue, lost>>

(* memcpy through the pointer: what is copied is what is in buf now.       *)
CopyPiece ==
  /\ Step("tts", "copy", "parse")
  /\ heard' = buf
  /\ frames_left' \in 0 .. MaxFrames
  /\ UNCHANGED <<answerVars, chunkVars, tts_got, ring_info, frames, mp3Vars, queues>>

(* A turn of parse_mp3_frame's loop: the record of the next frame, or out. *)
NextFrame ==
  /\ frames_left > 0
  /\ Step("tts", "parse", "send")
  /\ frames_left' = frames_left - 1
  /\ frames' = frames + 1
  /\ ring_info' = frames'
  /\ UNCHANGED <<answerVars, chunkVars, tts_got, heard, mp3Vars, queues>>

SendFrame ==
  /\ Step("tts", "send", "parse")
  /\ parse_recv_mp3_queue' = Send(parse_recv_mp3_queue, ring_info)
  /\ lost' = lost + LossOf(parse_recv_mp3_queue)
  /\ UNCHANGED <<answerVars, chunkVars, ttsVars, mp3Vars, recv_tts_queue>>

ParseReturns ==
  /\ frames_left = 0
  /\ Step("tts", "parse", "receive")
  /\ ring_info' = Gone
  /\ UNCHANGED <<answerVars, chunkVars, tts_got, frames_left, heard, frames, mp3Vars, queues>>

Tts == ReceivePiece \/ CopyPiece \/ NextFrame \/ SendFrame \/ ParseReturns

(* mp3_parse_recv.                                                         *)

ReceiveFrame ==
  /\ Step("mp3", "receive", "print")
  /\ mp3_got' = Head(parse_recv_mp3_queue)
  /\ parse_recv_mp3_queue' = Tail(parse_recv_mp3_queue)
  /\ UNCHANGED <<answerVars, chunkVars, ttsVars, shown, recv_tts_queue, lost>>

PrintFrame ==
  /\ Step("mp3", "print", "receive")
  /\ shown' = ring_info
  /\ UNCHANGED <<answerVars, chunkVars, ttsVars, mp3_got, queues>>

Mp3 == ReceiveFrame \/ PrintFrame

Network == PieceArrives \/ RequestEnds

Next == AnswerArrives \/ WifiReady \/ Network \/ Dbmd \/ Asr \/ Tts \/ Mp3

(* Tasks run when the scheduler lets them; wifi comes up, and a request    *)
(* gets some answer in the end.  Speaking to the device is up to the user. *)
Spec ==
  /\ Init /\ [][Next]_vars
  /\ WF_vars(WifiReady) /\ WF_vars(Network)
  /\ WF_vars(Dbmd) /\ WF_vars(Asr) /\ WF_vars(Tts) /\ WF_vars(Mp3)

-----------------------------------------------------------------------------
(* Properties.                                                             *)

(* The types: the semaphore counts at most one wake-up for an answer, and a *)
(* queue holds one item.                                                   *)
TypeOK ==
  /\ pc \in [Tasks -> {"none", "boot", "listen", "network", "receive", "clear", "encode1",
                       "encode2", "up", "create_tts", "create_mp3", "down", "fill1", "fill2",
                       "run", "read", "send", "more", "cleanup", "copy", "parse", "print"}]
  /\ text \in (0 .. MaxAnswers) \X (0 .. MaxAnswers)
  /\ cfg_text \in (0 .. MaxAnswers) \X (0 .. MaxAnswers)
  /\ init_set_tts \in 0 .. MaxAnswers
  /\ {answers, posted} \subseteq 0 .. MaxAnswers
  /\ {buf, http_info, tts_got, chunks, heard} \subseteq 0 .. MaxChunks
  /\ {ring_info, mp3_got, frames, shown} \subseteq 0 .. MaxChunks * MaxFrames
  /\ frames_left \in 0 .. MaxFrames
  /\ recv_tts_queue \in {<<>>} \union {<<c>> : c \in 0 .. MaxChunks}
  /\ parse_recv_mp3_queue \in {<<>>} \union {<<f>> : f \in 0 .. MaxChunks * MaxFrames}
  /\ lost \in Nat

(* When tts_recv_task copies a piece through the pointer it was sent, the  *)
(* sender's record and the buffer still hold that piece: neither was       *)
(* refilled, freed or left in between.                                     *)
PiecePointerAlive == pc["tts"] = "copy" => http_info = tts_got /\ buf = tts_got

(* The same for the record of a frame on the stack of parse_mp3_frame.     *)
FramePointerAlive == pc["mp3"] = "print" => ring_info = mp3_got

(* No send ever meets a full queue, so none is given up: both call sites   *)
(* ignore what xQueueSend returns.                                         *)
NothingLost == lost = 0

(* The pieces of the speech are parsed once each, in the order they came.  *)
PiecesHeardInOrder == [][heard' # heard => heard' = heard + 1]_vars

(* fill_config_tts can copy a mixture of two answers, because dbmd_task    *)
(* may write text meanwhile; when it does, another round of the loop of    *)
(* asr_baidu_main is due that copies text again.                           *)
TornTextTakenAgain ==
  pc["asr"] = "run" /\ cfg_text[1] # cfg_text[2] => init_set_tts > 0 \/ pc["dbmd"] # "listen"

(* What asr_baidu_main speaks is the last answer posted, whole, whenever   *)
(* it has no wake-up left, no answer is being written and it is not in the *)
(* middle of copying text: no answer is forgotten, though the semaphore    *)
(* carries none of them and text only the last.                            *)
QuietMeansTaken ==
  pc["asr"] \notin {"fill1", "fill2"} /\ init_set_tts = 0 /\ pc["dbmd"] = "listen" =>
    cfg_text = <<posted, posted>>

(* The tasks and the queues of pointers amount to procedure calls: a piece *)
(* is heard before the next is read, and a frame is shown before the next  *)
(* is described or another piece is read.                                  *)
Calls == INSTANCE HandOver
ImplementsHandOver == Calls!Spec

(* An answer that is posted is taken whole by run_start_tts in the end,    *)
(* unless a later one has replaced it.                                     *)
LatestAnswerTaken ==
  \A n \in 1 .. MaxAnswers :
    posted = n ~> (cfg_text[1] = cfg_text[2] /\ cfg_text[1] >= n)
=============================================================================
