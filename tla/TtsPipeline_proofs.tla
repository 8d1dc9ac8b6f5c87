------------------------- MODULE TtsPipeline_proofs -------------------------
(***************************************************************************)
(* Proofs about TtsPipeline, for any number of answers, pieces and frames. *)
(*                                                                         *)
(* The pointers are safe because of the scheduler alone, so the invariant  *)
(* says where the lower task stands while the higher one has its pointer:  *)
(* a piece in flight, in the queue or being copied, finds asr_baidu_main   *)
(* right behind its send, and it stays there until tts_recv_task is        *)
(* blocked again with its queue empty.  The same holds of frames.          *)
(***************************************************************************)
EXTENDS TtsPipeline, TLAPS

(* Who is blocked when a task of lower priority runs.                      *)
LEMMA AsrRunsLast ==
  MayRun("asr") => Blocked("dbmd") /\ Blocked("tts") /\ Blocked("mp3")
<1>1. /\ Priority["asr"] = 3 /\ Priority["tts"] = 4
      /\ Priority["dbmd"] = 4 /\ Priority["mp3"] = 5
  BY DEF Priority
<1> QED
  BY <1>1 DEF MayRun, Tasks

(* tts_recv_task runs only while the reader of its frames is blocked.      *)
LEMMA TtsYieldsToMp3 == MayRun("tts") => Blocked("mp3")
<1>1. Priority["tts"] = 4 /\ Priority["mp3"] = 5
  BY DEF Priority
<1> QED
  BY <1>1 DEF MayRun, Tasks

(* The places of each task, and which tasks are there yet.                 *)
Places ==
  /\ pc \in [Tasks -> {"none", "boot", "listen", "network", "receive", "clear", "encode1",
                       "encode2", "up", "create_tts", "create_mp3", "down", "fill1", "fill2",
                       "run", "read", "send", "more", "cleanup", "copy", "parse", "print"}]
  /\ pc["dbmd"] \in {"listen", "clear", "encode1", "encode2", "up"}
  /\ pc["asr"] \in {"boot", "create_tts", "create_mp3", "down", "fill1", "fill2", "run",
                    "network", "read", "send", "more", "cleanup"}
  /\ pc["tts"] \in {"none", "receive", "copy", "parse", "send"}
  /\ pc["mp3"] \in {"none", "receive", "print"}
  /\ pc["tts"] = "none" <=> pc["asr"] \in {"boot", "create_tts"}
  /\ pc["mp3"] = "none" <=> pc["asr"] \in {"boot", "create_tts", "create_mp3"}

(* A piece was read and not copied yet.                                    *)
InFlight == pc["asr"] = "send" \/ recv_tts_queue # <<>> \/ pc["tts"] = "copy"

PieceInFlight ==
  /\ recv_tts_queue # <<>> =>
       pc["asr"] = "more" /\ pc["tts"] = "receive" /\ recv_tts_queue = <<http_info>>
  /\ pc["tts"] = "copy" => pc["asr"] = "more" /\ tts_got = http_info
  /\ pc["tts"] \in {"parse", "send"} => pc["asr"] = "more"
  /\ InFlight => http_info = buf /\ buf = chunks /\ heard = chunks - 1
  /\ ~InFlight => heard = chunks

(* A frame was described and not read yet.                                 *)
FrameOnItsWay == pc["tts"] = "send" \/ parse_recv_mp3_queue # <<>> \/ pc["mp3"] = "print"

FrameInFlight ==
  /\ parse_recv_mp3_queue # <<>> =>
       pc["tts"] = "parse" /\ pc["mp3"] = "receive" /\ parse_recv_mp3_queue = <<ring_info>>
  /\ pc["mp3"] = "print" => pc["tts"] = "parse" /\ mp3_got = ring_info
  /\ pc["tts"] \notin {"parse", "send"} => frames_left = 0
  /\ frames + frames_left <= heard * MaxFrames
  /\ FrameOnItsWay => ring_info = frames /\ shown = frames - 1
  /\ ~FrameOnItsWay => shown = frames

(* text is whole while dbmd_task listens; a copy of it that is not the     *)
(* same any more is one that will be taken again.                          *)
TextInFlight ==
  /\ pc["dbmd"] = "listen" => text[1] = posted /\ text[2] = posted
  /\ pc["dbmd"] = "up" => text[1] = answers /\ text[2] = answers
  /\ pc["dbmd"] = "encode2" => text[1] = answers
  /\ pc["asr"] = "fill2" /\ cfg_text[1] # text[1] => init_set_tts > 0 \/ pc["dbmd"] # "listen"

(* What is copied and not due again is the answer posted last.             *)
CopyIsPosted ==
  pc["asr"] \notin {"fill1", "fill2"} /\ init_set_tts = 0 /\ pc["dbmd"] = "listen" =>
    cfg_text[1] = posted /\ cfg_text[2] = posted

(* An answer ups the semaphore once.                                       *)
WakeUps == init_set_tts + (IF pc["dbmd"] = "listen" THEN 0 ELSE 1) <= answers

Values ==
  /\ text \in (0 .. MaxAnswers) \X (0 .. MaxAnswers)
  /\ cfg_text \in (0 .. MaxAnswers) \X (0 .. MaxAnswers)
  /\ init_set_tts \in Nat /\ answers \in 0 .. MaxAnswers /\ posted \in 0 .. MaxAnswers
  /\ buf \in 0 .. MaxChunks /\ http_info \in 0 .. MaxChunks /\ tts_got \in 0 .. MaxChunks
  /\ chunks \in 0 .. MaxChunks /\ heard \in Nat
  /\ frames \in Nat /\ frames_left \in 0 .. MaxFrames
  /\ ring_info \in 0 .. frames /\ mp3_got \in 0 .. frames /\ shown \in 0 .. frames
  /\ lost = 0
  /\ recv_tts_queue = <<>> \/ \E c \in 0 .. MaxChunks : recv_tts_queue = <<c>>
  /\ parse_recv_mp3_queue = <<>> \/ \E f \in 0 .. frames : parse_recv_mp3_queue = <<f>>

Inv ==
  /\ Places
  /\ Values
  /\ PieceInFlight
  /\ FrameInFlight
  /\ TextInFlight
  /\ CopyIsPosted
  /\ WakeUps
  /\ TornTextTakenAgain

(* Nothing is in flight before the tasks are created.                      *)
LEMMA InitInv == Init => Inv
<1> SUFFICES ASSUME Init PROVE Inv
  OBVIOUS
<1>1. Places
  BY DEF Init, Places, Tasks
<1>2. Values
  BY PipelineAssumption DEF Init, Values, Gone
<1>3. PieceInFlight /\ FrameInFlight
  BY PipelineAssumption DEF Init, PieceInFlight, FrameInFlight, InFlight, FrameOnItsWay
<1> QED
  BY <1>1, <1>2, <1>3 DEF Init, Inv, TextInFlight, CopyIsPosted, WakeUps, TornTextTakenAgain

(* asr_baidu_main runs with no piece in the queue, none being copied or    *)
(* parsed, no frame on its way, and the text in one piece.                 *)
LEMMA AsrAlone ==
  ASSUME Inv, MayRun("asr")
  PROVE  /\ pc["dbmd"] = "listen"
         /\ pc["tts"] \in {"none", "receive"} /\ recv_tts_queue = <<>>
         /\ pc["mp3"] \in {"none", "receive"} /\ parse_recv_mp3_queue = <<>>
<1>1. Blocked("dbmd") /\ Blocked("tts")
  BY AsrRunsLast
<1>2. pc["dbmd"] = "listen"
  BY <1>1 DEF Blocked, Inv, Places
<1>3. pc["tts"] \in {"none", "receive"} /\ recv_tts_queue = <<>>
  BY <1>1 DEF Blocked, Inv, Places, PieceInFlight
<1>4. pc["mp3"] \in {"none", "receive"}
  BY AsrRunsLast, Zenon DEF Blocked, Inv, Places
<1> QED
  BY <1>2, <1>3, <1>4 DEF Inv, FrameInFlight

(* tts_recv_task runs with asr_baidu_main right behind its send, and with  *)
(* mp3_parse_recv waiting for a frame.                                     *)
LEMMA TtsAlone ==
  ASSUME Inv, MayRun("tts")
  PROVE  /\ pc["asr"] = "more"
         /\ pc["mp3"] = "receive" /\ parse_recv_mp3_queue = <<>>
<1>1. ~Blocked("tts") /\ Blocked("mp3")
  BY TtsYieldsToMp3 DEF MayRun
<1>2. pc["asr"] = "more"
  BY <1>1 DEF Blocked, Inv, Places, PieceInFlight
<1>3. pc["mp3"] = "receive"
  BY <1>1, <1>2, Zenon DEF Blocked, Inv, Places
<1> QED
  BY <1>1, <1>2, <1>3 DEF Blocked

(* The one item of a queue is its head, and nothing is behind it.           *)
LEMMA OneItem == ASSUME NEW x PROVE Head(<<x>>) = x /\ Tail(<<x>>) = <<>>
  OBVIOUS

(* A piece more allows for its own frames, however many it completes.      *)
LEMMA OneMoreShare ==
  ASSUME NEW h \in Nat, NEW f \in Nat, NEW m \in Nat, NEW l \in 0 .. m, f <= h * m
  PROVE  f + l <= (h + 1) * m
<1> DEFINE done == h * m
<1>1. (h + 1) * m = done + m /\ done \in Int /\ f <= done
  OBVIOUS
<1> HIDE DEF done
<1> QED
  BY <1>1

(* A task is created once, and moves from place to place as its code does. *)
LEMMA PlacesStep ==
  ASSUME Inv, Next PROVE Places'
<1> USE PipelineAssumption DEF Inv, Places, Tasks, answerVars, chunkVars,
   ttsVars, mp3Vars, queues
<1>1. CASE AnswerArrives \/ WifiReady \/ PieceArrives \/ RequestEnds
  BY <1>1 DEF AnswerArrives, Wake, WifiReady, PieceArrives, RequestEnds
<1>2. CASE Dbmd
  BY <1>2 DEF Dbmd, ClearText, EncodeText, UpInitSetTts, UpCount, Step
<1>3. CASE Asr
  BY <1>3, AsrAlone DEF Asr, CreateTask, DownInitSetTts, MayRun, Blocked,
     FillConfig, RunTts, ReadPiece, SendPiece, Send, LossOf, MorePieces,
     Cleanup, Gone, Step
<1>4. CASE Tts
  BY <1>4, TtsAlone DEF Tts, ReceivePiece, CopyPiece, NextFrame, SendFrame,
     Send, LossOf, ParseReturns, Gone, Step
<1>5. CASE Mp3
  BY <1>5 DEF Mp3, ReceiveFrame, PrintFrame, Step
<1> QED
  BY <1>1, <1>2, <1>3, <1>4, <1>5
     DEF Next, Network, Dbmd, Asr, Tts, Mp3

(* Every count and number stays where it belongs, and no send is given up. *)
LEMMA ValuesStep ==
  ASSUME Inv, Next PROVE Values'
<1> USE PipelineAssumption DEF Inv, Values, InFlight, PieceInFlight,
   FrameInFlight, WakeUps, Places, Tasks, answerVars, chunkVars, ttsVars,
   mp3Vars, queues
<1>1. CASE AnswerArrives
  BY <1>1 DEF AnswerArrives, Wake
<1>2. CASE WifiReady
  BY <1>2 DEF WifiReady, Wake
<1>3. CASE PieceArrives
  BY <1>3 DEF PieceArrives, Wake
<1>4. CASE RequestEnds
  BY <1>4 DEF RequestEnds, Wake
<1>5. CASE ClearText
  BY <1>5 DEF ClearText, Step
<1>6. CASE EncodeText(1, "encode1", "encode2")
  BY <1>6 DEF EncodeText, Step
<1>7. CASE EncodeText(2, "encode2", "up")
  BY <1>7 DEF EncodeText, Step
<1>8. CASE UpInitSetTts
  BY <1>8 DEF UpInitSetTts, UpCount, Step
<1>9. CASE CreateTask("tts", "create_tts", "create_mp3")
  BY <1>9, AsrAlone DEF CreateTask
<1>10. CASE CreateTask("mp3", "create_mp3", "down")
  BY <1>10, AsrAlone DEF CreateTask
<1>11. CASE DownInitSetTts
  BY <1>11, AsrAlone DEF DownInitSetTts, MayRun, Blocked, Step
<1>12. CASE FillConfig(1, "fill1", "fill2")
  BY <1>12, AsrAlone DEF FillConfig, Step
<1>13. CASE FillConfig(2, "fill2", "run")
  BY <1>13, AsrAlone DEF FillConfig, Step
<1>14. CASE RunTts
  BY <1>14, AsrAlone DEF RunTts, Step
<1>15. CASE ReadPiece
  BY <1>15, AsrAlone DEF ReadPiece, Step
<1>16. CASE SendPiece
  BY <1>16, AsrAlone DEF SendPiece, Send, LossOf, Step
<1>17. CASE MorePieces
  BY <1>17, AsrAlone DEF MorePieces, Step
<1>18. CASE Cleanup
  BY <1>18, AsrAlone DEF Cleanup, Gone, Step
<1>19. CASE ReceivePiece
  <2>1. recv_tts_queue = <<http_info>>
    BY <1>19 DEF ReceivePiece, Step, MayRun, Blocked
  <2>2. tts_got' = http_info /\ recv_tts_queue' = <<>>
    BY <1>19, <2>1, OneItem DEF ReceivePiece
  <2> QED
    BY <1>19, <2>2 DEF ReceivePiece, Step
<1>20. CASE CopyPiece
  BY <1>20, TtsAlone DEF CopyPiece, Step
<1>21. CASE NextFrame
  BY <1>21, TtsAlone DEF NextFrame, Step
<1>22. CASE SendFrame
  BY <1>22, TtsAlone DEF SendFrame, Send, LossOf, Step
<1>23. CASE ParseReturns
  BY <1>23, TtsAlone DEF ParseReturns, Gone, Step
<1>24. CASE PrintFrame
  BY <1>24 DEF PrintFrame, Step
<1>25. CASE ReceiveFrame
  <2>1. parse_recv_mp3_queue = <<ring_info>>
    BY <1>25 DEF ReceiveFrame, Step, MayRun, Blocked
  <2>2. mp3_got' = ring_info /\ parse_recv_mp3_queue' = <<>>
    BY <1>25, <2>1, OneItem DEF ReceiveFrame
  <2> QED
    BY <1>25, <2>2 DEF ReceiveFrame, Step
<1> QED
  BY <1>1, <1>2, <1>3, <1>4, <1>5, <1>6, <1>7, <1>8, <1>9, <1>10, <1>11,
     <1>12, <1>13, <1>14, <1>15, <1>16, <1>17, <1>18, <1>19, <1>20, <1>21,
     <1>22, <1>23, <1>24, <1>25
     DEF Next, Network, Dbmd, Asr, Tts, Mp3

(* A piece on its way is the piece in the buffer, and the last one read.   *)
LEMMA PieceInFlightStep ==
  ASSUME Inv, Next PROVE PieceInFlight'
<1> USE PipelineAssumption DEF Inv, Values, InFlight, PieceInFlight, Places,
   Tasks, answerVars, chunkVars, ttsVars, mp3Vars, queues
<1>1. CASE AnswerArrives \/ WifiReady \/ PieceArrives \/ RequestEnds
  BY <1>1 DEF AnswerArrives, Wake, WifiReady, PieceArrives, RequestEnds
<1>2. CASE Dbmd
  BY <1>2 DEF Dbmd, ClearText, EncodeText, UpInitSetTts, UpCount, Step
<1>3. CASE CreateTask("tts", "create_tts", "create_mp3")
  BY <1>3, AsrAlone DEF CreateTask
<1>4. CASE CreateTask("mp3", "create_mp3", "down")
  BY <1>4, AsrAlone DEF CreateTask
<1>5. CASE DownInitSetTts
  BY <1>5, AsrAlone DEF DownInitSetTts, MayRun, Blocked, Step
<1>6. CASE FillConfig(1, "fill1", "fill2")
  BY <1>6, AsrAlone DEF FillConfig, Step
<1>7. CASE FillConfig(2, "fill2", "run")
  BY <1>7, AsrAlone DEF FillConfig, Step
<1>8. CASE RunTts
  BY <1>8, AsrAlone DEF RunTts, Step
<1>9. CASE ReadPiece
  BY <1>9, AsrAlone DEF ReadPiece, Step
<1>10. CASE SendPiece
  BY <1>10, AsrAlone DEF SendPiece, Send, LossOf, Step
<1>11. CASE MorePieces
  BY <1>11, AsrAlone DEF MorePieces, Step
<1>12. CASE Cleanup
  BY <1>12, AsrAlone DEF Cleanup, Gone, Step
<1>13. CASE CopyPiece \/ NextFrame \/ SendFrame \/ ParseReturns
  BY <1>13, TtsAlone DEF CopyPiece, NextFrame, SendFrame, Send, LossOf,
     ParseReturns, Gone, Step
<1>14. CASE ReceivePiece
  <2>1. pc["tts"] = "receive" /\ recv_tts_queue # <<>>
    BY <1>14 DEF ReceivePiece, Step, MayRun, Blocked
  <2>2. recv_tts_queue = <<http_info>> /\ pc["asr"] = "more" /\ InFlight
    BY <2>1
  <2>3. tts_got' = http_info /\ recv_tts_queue' = <<>>
    BY <1>14, <2>2, OneItem DEF ReceivePiece
  <2> QED
    BY <1>14, <2>1, <2>2, <2>3 DEF ReceivePiece, Step
<1>15. CASE Mp3
  BY <1>15 DEF Mp3, ReceiveFrame, PrintFrame, Step
<1> QED
  BY <1>1, <1>2, <1>3, <1>4, <1>5, <1>6, <1>7, <1>8, <1>9, <1>10, <1>11,
     <1>12, <1>13, <1>14, <1>15
     DEF Next, Network, Dbmd, Asr, Tts, Mp3

(* A frame on its way is the one described last; a piece has its share.    *)
LEMMA FrameInFlightStep ==
  ASSUME Inv, Next PROVE FrameInFlight'
<1> USE PipelineAssumption DEF Inv, Values, InFlight, PieceInFlight,
   FrameInFlight, FrameOnItsWay, Places, Tasks, answerVars, chunkVars, ttsVars, mp3Vars,
   queues
<1>1. CASE AnswerArrives \/ WifiReady \/ PieceArrives \/ RequestEnds
  BY <1>1 DEF AnswerArrives, Wake, WifiReady, PieceArrives, RequestEnds
<1>2. CASE Dbmd
  BY <1>2 DEF Dbmd, ClearText, EncodeText, UpInitSetTts, UpCount, Step
<1>3. CASE Asr
  BY <1>3, AsrAlone DEF Asr, CreateTask, DownInitSetTts, MayRun, Blocked,
     FillConfig, RunTts, ReadPiece, SendPiece, Send, LossOf, MorePieces,
     Cleanup, Gone, Step
<1>4. CASE ReceivePiece
  BY <1>4, TtsAlone DEF ReceivePiece, Step
<1>5. CASE CopyPiece
  <2>1. heard' = heard + 1 /\ heard \in Nat /\ frames_left = 0 /\ frames \in Nat
    BY <1>5 DEF CopyPiece, Step
  <2>2. frames' = frames /\ frames_left' \in 0 .. MaxFrames /\ frames <= heard * MaxFrames
    BY <1>5, <2>1 DEF CopyPiece
  <2>3. (frames + frames_left <= heard * MaxFrames)'
    BY <2>1, <2>2, OneMoreShare
  <2> QED
    BY <1>5, <2>3, TtsAlone DEF CopyPiece, Step
<1>6. CASE NextFrame
  BY <1>6, TtsAlone DEF NextFrame, Step
<1>7. CASE SendFrame
  BY <1>7, TtsAlone DEF SendFrame, Send, LossOf, Step
<1>8. CASE ParseReturns
  BY <1>8, TtsAlone DEF ParseReturns, Gone, Step
<1>9. CASE PrintFrame
  BY <1>9 DEF PrintFrame, Step
<1>10. CASE ReceiveFrame
  <2>1. parse_recv_mp3_queue = <<ring_info>> /\ pc["tts"] = "parse"
    BY <1>10 DEF ReceiveFrame, Step, MayRun, Blocked
  <2>2. mp3_got' = ring_info /\ parse_recv_mp3_queue' = <<>>
    BY <1>10, <2>1, OneItem DEF ReceiveFrame
  <2> QED
    BY <1>10, <2>1, <2>2 DEF ReceiveFrame, Step
<1> QED
  BY <1>1, <1>2, <1>3, <1>4, <1>5, <1>6, <1>7, <1>8, <1>9, <1>10
     DEF Next, Network, Dbmd, Asr, Tts, Mp3

(* What is copied of a text that changes is copied again.                  *)
LEMMA TextInFlightStep ==
  ASSUME Inv, Next PROVE TextInFlight'
<1> USE PipelineAssumption DEF Inv, Values, TextInFlight, Places, WakeUps,
   Tasks, answerVars, chunkVars, ttsVars, mp3Vars, queues
<1>1. CASE AnswerArrives \/ WifiReady \/ PieceArrives \/ RequestEnds
  BY <1>1 DEF AnswerArrives, Wake, WifiReady, PieceArrives, RequestEnds
<1>2. CASE ClearText
  BY <1>2 DEF ClearText, Step
<1>3. CASE EncodeText(1, "encode1", "encode2")
  BY <1>3 DEF EncodeText, Step
<1>4. CASE EncodeText(2, "encode2", "up")
  BY <1>4 DEF EncodeText, Step
<1>5. CASE UpInitSetTts
  BY <1>5 DEF UpInitSetTts, UpCount, Step
<1>6. CASE CreateTask("tts", "create_tts", "create_mp3")
  BY <1>6, AsrAlone DEF CreateTask
<1>7. CASE CreateTask("mp3", "create_mp3", "down")
  BY <1>7, AsrAlone DEF CreateTask
<1>8. CASE DownInitSetTts
  BY <1>8, AsrAlone DEF DownInitSetTts, MayRun, Blocked, Step
<1>9. CASE FillConfig(1, "fill1", "fill2")
  BY <1>9, AsrAlone DEF FillConfig, Step
<1>10. CASE FillConfig(2, "fill2", "run")
  BY <1>10, AsrAlone DEF FillConfig, Step
<1>11. CASE RunTts
  BY <1>11, AsrAlone DEF RunTts, Step
<1>12. CASE ReadPiece
  BY <1>12, AsrAlone DEF ReadPiece, Step
<1>13. CASE SendPiece
  BY <1>13, AsrAlone DEF SendPiece, Send, LossOf, Step
<1>14. CASE MorePieces
  BY <1>14, AsrAlone DEF MorePieces, Step
<1>15. CASE Cleanup
  BY <1>15, AsrAlone DEF Cleanup, Gone, Step
<1>16. CASE Tts
  BY <1>16, TtsAlone DEF Tts, ReceivePiece, CopyPiece, NextFrame, SendFrame,
     Send, LossOf, ParseReturns, Gone, Step
<1>17. CASE Mp3
  BY <1>17 DEF Mp3, ReceiveFrame, PrintFrame, Step
<1> QED
  BY <1>1, <1>2, <1>3, <1>4, <1>5, <1>6, <1>7, <1>8, <1>9, <1>10, <1>11,
     <1>12, <1>13, <1>14, <1>15, <1>16, <1>17
     DEF Next, Network, Dbmd, Asr, Tts, Mp3

(* A copy is made of the text posted, or another one is due.               *)
LEMMA CopyIsPostedStep ==
  ASSUME Inv, Next PROVE CopyIsPosted'
<1> USE PipelineAssumption DEF Inv, Values, TextInFlight, CopyIsPosted, Places, WakeUps,
   Tasks, answerVars, chunkVars, ttsVars, mp3Vars, queues
<1>1. CASE AnswerArrives \/ WifiReady \/ PieceArrives \/ RequestEnds
  BY <1>1 DEF AnswerArrives, Wake, WifiReady, PieceArrives, RequestEnds
<1>2. CASE ClearText
  BY <1>2 DEF ClearText, Step
<1>3. CASE EncodeText(1, "encode1", "encode2")
  BY <1>3 DEF EncodeText, Step
<1>4. CASE EncodeText(2, "encode2", "up")
  BY <1>4 DEF EncodeText, Step
<1>5. CASE UpInitSetTts
  BY <1>5 DEF UpInitSetTts, UpCount, Step
<1>6. CASE CreateTask("tts", "create_tts", "create_mp3")
  BY <1>6, AsrAlone DEF CreateTask
<1>7. CASE CreateTask("mp3", "create_mp3", "down")
  BY <1>7, AsrAlone DEF CreateTask
<1>8. CASE DownInitSetTts
  BY <1>8, AsrAlone DEF DownInitSetTts, MayRun, Blocked, Step
<1>9. CASE FillConfig(1, "fill1", "fill2")
  BY <1>9, AsrAlone DEF FillConfig, Step
<1>10. CASE FillConfig(2, "fill2", "run")
  BY <1>10, AsrAlone DEF FillConfig, Step
<1>11. CASE RunTts
  BY <1>11, AsrAlone DEF RunTts, Step
<1>12. CASE ReadPiece
  BY <1>12, AsrAlone DEF ReadPiece, Step
<1>13. CASE SendPiece
  BY <1>13, AsrAlone DEF SendPiece, Send, LossOf, Step
<1>14. CASE MorePieces
  BY <1>14, AsrAlone DEF MorePieces, Step
<1>15. CASE Cleanup
  BY <1>15, AsrAlone DEF Cleanup, Gone, Step
<1>16. CASE Tts
  BY <1>16, TtsAlone DEF Tts, ReceivePiece, CopyPiece, NextFrame, SendFrame,
     Send, LossOf, ParseReturns, Gone, Step
<1>17. CASE Mp3
  BY <1>17 DEF Mp3, ReceiveFrame, PrintFrame, Step
<1> QED
  BY <1>1, <1>2, <1>3, <1>4, <1>5, <1>6, <1>7, <1>8, <1>9, <1>10, <1>11,
     <1>12, <1>13, <1>14, <1>15, <1>16, <1>17
     DEF Next, Network, Dbmd, Asr, Tts, Mp3

(* There is at most one wake-up for an answer.                             *)
LEMMA WakeUpsStep ==
  ASSUME Inv, Next PROVE WakeUps'
<1> USE PipelineAssumption DEF Inv, Values, WakeUps, Places, Tasks,
   answerVars, chunkVars, ttsVars, mp3Vars, queues
<1>1. CASE AnswerArrives
  BY <1>1 DEF AnswerArrives, Wake
<1>2. CASE WifiReady
  BY <1>2 DEF WifiReady, Wake
<1>3. CASE PieceArrives
  BY <1>3 DEF PieceArrives, Wake
<1>4. CASE RequestEnds
  BY <1>4 DEF RequestEnds, Wake
<1>5. CASE ClearText
  BY <1>5 DEF ClearText, Step
<1>6. CASE EncodeText(1, "encode1", "encode2")
  BY <1>6 DEF EncodeText, Step
<1>7. CASE EncodeText(2, "encode2", "up")
  BY <1>7 DEF EncodeText, Step
<1>8. CASE UpInitSetTts
  BY <1>8 DEF UpInitSetTts, UpCount, Step
<1>9. CASE CreateTask("tts", "create_tts", "create_mp3")
  BY <1>9, AsrAlone DEF CreateTask
<1>10. CASE CreateTask("mp3", "create_mp3", "down")
  BY <1>10, AsrAlone DEF CreateTask
<1>11. CASE DownInitSetTts
  BY <1>11, AsrAlone DEF DownInitSetTts, MayRun, Blocked, Step
<1>12. CASE FillConfig(1, "fill1", "fill2")
  BY <1>12, AsrAlone DEF FillConfig, Step
<1>13. CASE FillConfig(2, "fill2", "run")
  BY <1>13, AsrAlone DEF FillConfig, Step
<1>14. CASE RunTts
  BY <1>14, AsrAlone DEF RunTts, Step
<1>15. CASE ReadPiece
  BY <1>15, AsrAlone DEF ReadPiece, Step
<1>16. CASE SendPiece
  BY <1>16, AsrAlone DEF SendPiece, Send, LossOf, Step
<1>17. CASE MorePieces
  BY <1>17, AsrAlone DEF MorePieces, Step
<1>18. CASE Cleanup
  BY <1>18, AsrAlone DEF Cleanup, Gone, Step
<1>19. CASE Tts
  BY <1>19, TtsAlone DEF Tts, ReceivePiece, CopyPiece, NextFrame, SendFrame,
     Send, LossOf, ParseReturns, Gone, Step
<1>20. CASE Mp3
  BY <1>20 DEF Mp3, ReceiveFrame, PrintFrame, Step
<1> QED
  BY <1>1, <1>2, <1>3, <1>4, <1>5, <1>6, <1>7, <1>8, <1>9, <1>10, <1>11,
     <1>12, <1>13, <1>14, <1>15, <1>16, <1>17, <1>18, <1>19, <1>20
     DEF Next, Network, Dbmd, Asr, Tts, Mp3

(* A torn copy is only ever there when another one is due.                 *)
LEMMA TornTextTakenAgainStep ==
  ASSUME Inv, Next PROVE TornTextTakenAgain'
<1> USE PipelineAssumption DEF Inv, Values, TornTextTakenAgain, TextInFlight,
   Places, Tasks, answerVars, chunkVars, ttsVars, mp3Vars, queues
<1>1. CASE AnswerArrives \/ WifiReady \/ PieceArrives \/ RequestEnds
  BY <1>1 DEF AnswerArrives, Wake, WifiReady, PieceArrives, RequestEnds
<1>2. CASE ClearText
  BY <1>2 DEF ClearText, Step
<1>3. CASE EncodeText(1, "encode1", "encode2")
  BY <1>3 DEF EncodeText, Step
<1>4. CASE EncodeText(2, "encode2", "up")
  BY <1>4 DEF EncodeText, Step
<1>5. CASE UpInitSetTts
  BY <1>5 DEF UpInitSetTts, UpCount, Step
<1>6. CASE CreateTask("tts", "create_tts", "create_mp3")
  BY <1>6, AsrAlone DEF CreateTask
<1>7. CASE CreateTask("mp3", "create_mp3", "down")
  BY <1>7, AsrAlone DEF CreateTask
<1>8. CASE DownInitSetTts
  BY <1>8, AsrAlone DEF DownInitSetTts, MayRun, Blocked, Step
<1>9. CASE FillConfig(1, "fill1", "fill2")
  BY <1>9, AsrAlone DEF FillConfig, Step
<1>10. CASE FillConfig(2, "fill2", "run")
  BY <1>10, AsrAlone DEF FillConfig, Step
<1>11. CASE RunTts
  BY <1>11, AsrAlone DEF RunTts, Step
<1>12. CASE ReadPiece
  BY <1>12, AsrAlone DEF ReadPiece, Step
<1>13. CASE SendPiece
  BY <1>13, AsrAlone DEF SendPiece, Send, LossOf, Step
<1>14. CASE MorePieces
  BY <1>14, AsrAlone DEF MorePieces, Step
<1>15. CASE Cleanup
  BY <1>15, AsrAlone DEF Cleanup, Gone, Step
<1>16. CASE Tts
  BY <1>16, TtsAlone DEF Tts, ReceivePiece, CopyPiece, NextFrame, SendFrame,
     Send, LossOf, ParseReturns, Gone, Step
<1>17. CASE Mp3
  BY <1>17 DEF Mp3, ReceiveFrame, PrintFrame, Step
<1> QED
  BY <1>1, <1>2, <1>3, <1>4, <1>5, <1>6, <1>7, <1>8, <1>9, <1>10, <1>11,
     <1>12, <1>13, <1>14, <1>15, <1>16, <1>17
     DEF Next, Network, Dbmd, Asr, Tts, Mp3

(* Every step, and every stutter, preserves the invariant.                 *)
LEMMA NextInv == Inv /\ [Next]_vars => Inv'
<1> SUFFICES ASSUME Inv, [Next]_vars PROVE Inv'
  OBVIOUS
<1>1. CASE Next
  BY <1>1, PlacesStep, ValuesStep, PieceInFlightStep, FrameInFlightStep, TextInFlightStep,
     CopyIsPostedStep, WakeUpsStep, TornTextTakenAgainStep DEF Inv
<1>2. CASE UNCHANGED vars
  BY <1>2 DEF vars, answerVars, chunkVars, ttsVars, mp3Vars, queues, Inv, Places, Values,
              InFlight, PieceInFlight, FrameOnItsWay, FrameInFlight, TextInFlight, CopyIsPosted,
              WakeUps, TornTextTakenAgain
<1> QED
  BY <1>1, <1>2

(* The invariant holds throughout.                                         *)
LEMMA InvAlways == Spec => []Inv
<1> QED
  BY InitInv, NextInv, PTL DEF Spec

(* No more frames are described than the pieces read complete, if each     *)
(* completes as many as it may.                                            *)
LEMMA FramesBounded == ASSUME Inv PROVE frames <= MaxChunks * MaxFrames
<1>1. heard \in Nat /\ heard <= MaxChunks /\ frames + frames_left <= heard * MaxFrames
  BY PipelineAssumption DEF Inv, Values, PieceInFlight, FrameInFlight
<1>2. heard * MaxFrames <= MaxChunks * MaxFrames
  BY <1>1, PipelineAssumption
<1>3. frames \in Nat /\ frames_left \in Nat
  BY PipelineAssumption DEF Inv, Values
<1> DEFINE done == heard * MaxFrames
           most == MaxChunks * MaxFrames
<1>4. done \in Int /\ most \in Int /\ frames + frames_left <= done /\ done <= most
  BY <1>1, <1>2, PipelineAssumption
<1> HIDE DEF done, most
<1>5. frames <= most
  BY <1>3, <1>4
<1> QED
  BY <1>5 DEF most

(* The types hold for any number of answers, pieces and frames: the        *)
(* semaphore's count stays below the answers, the frames below the pieces. *)
THEOREM TypeCorrect == Spec => []TypeOK
<1>1. ASSUME Inv PROVE TypeOK
  <2>1. Places /\ Values /\ WakeUps
    BY <1>1 DEF Inv
  <2>2. init_set_tts \in 0 .. MaxAnswers /\ {answers, posted} \subseteq 0 .. MaxAnswers
    BY <2>1, PipelineAssumption DEF Values, WakeUps
  <2>3. heard \in 0 .. MaxChunks
    BY <1>1, PipelineAssumption DEF Inv, Values, PieceInFlight
  <2>4. {buf, http_info, tts_got, chunks, heard} \subseteq 0 .. MaxChunks
    BY <2>1, <2>3 DEF Values
  <2> DEFINE most == MaxChunks * MaxFrames
  <2>5. most \in Int /\ frames <= most
    BY <1>1, FramesBounded, PipelineAssumption
  <2> HIDE DEF most
  <2>6. {ring_info, mp3_got, frames, shown} \subseteq 0 .. most
    BY <2>1, <2>5 DEF Values
  <2>7. parse_recv_mp3_queue \in {<<>>} \union {<<f>> : f \in 0 .. most}
    BY <2>1, <2>5 DEF Values
  <2>8. recv_tts_queue \in {<<>>} \union {<<c>> : c \in 0 .. MaxChunks}
    BY <2>1 DEF Values
  <2>9. lost \in Nat
    BY <2>1 DEF Values
  <2> QED
    BY <2>1, <2>2, <2>4, <2>6, <2>7, <2>8, <2>9 DEF TypeOK, Places, Values, most
<1> QED
  BY <1>1, InvAlways, PTL

(* What tts_recv_task copies is the piece it was sent the address of, for  *)
(* every interleaving the scheduler allows.                                *)
THEOREM PieceAlwaysAlive == Spec => []PiecePointerAlive
<1>1. Inv => PiecePointerAlive
  BY DEF Inv, PieceInFlight, InFlight, PiecePointerAlive
<1> QED
  BY <1>1, InvAlways, PTL

(* What mp3_parse_recv reads is the frame it was sent the address of.      *)
THEOREM FrameAlwaysAlive == Spec => []FramePointerAlive
<1>1. Inv => FramePointerAlive
  BY DEF Inv, FrameInFlight, FramePointerAlive
<1> QED
  BY <1>1, InvAlways, PTL

(* Neither queue is ever full when something is sent to it.                *)
THEOREM NothingEverLost == Spec => []NothingLost
<1>1. Inv => NothingLost
  BY DEF Inv, Values, NothingLost
<1> QED
  BY <1>1, InvAlways, PTL

(* A mixture of two answers is never the last thing asr_baidu_main takes.  *)
THEOREM TornTextAlwaysTakenAgain == Spec => []TornTextTakenAgain
<1>1. Inv => TornTextTakenAgain
  BY DEF Inv
<1> QED
  BY <1>1, InvAlways, PTL

(* The pieces are parsed once each, in the order they came: copying is the *)
(* only step that counts one as heard, and it copies the next.             *)
THEOREM PiecesInOrder == Spec => PiecesHeardInOrder
<1>1. ASSUME Inv, [Next]_vars PROVE [heard' # heard => heard' = heard + 1]_vars
  <2>1. CASE CopyPiece
    <3>1. pc["tts"] = "copy" /\ heard' = buf
      BY <2>1 DEF CopyPiece, Step
    <3>2. buf = chunks /\ heard = chunks - 1 /\ chunks \in Int
      BY <1>1, <3>1, PipelineAssumption DEF Inv, Values, PieceInFlight, InFlight
    <3> QED
      BY <3>1, <3>2
  <2>2. CASE ~CopyPiece
    BY <1>1, <2>2 DEF Next, Network, Dbmd, Asr, Tts, Mp3, AnswerArrives, WifiReady, PieceArrives,
         RequestEnds, ClearText, EncodeText, UpInitSetTts, CreateTask, DownInitSetTts,
         FillConfig, RunTts, ReadPiece, SendPiece, MorePieces, Cleanup, ReceivePiece,
         NextFrame, SendFrame, ParseReturns, ReceiveFrame, PrintFrame, vars, ttsVars
  <2> QED
    BY <2>1, <2>2
<1> QED
  BY <1>1, InvAlways, PTL DEF Spec, PiecesHeardInOrder

(* What asr_baidu_main speaks, once nothing is pending, is the last answer  *)
(* posted and no other: the semaphore counts the answers, the text is one,  *)
(* and none is forgotten between the two.                                  *)
THEOREM QuietAlwaysTaken == Spec => []QuietMeansTaken
<1>1. ASSUME Inv PROVE QuietMeansTaken
  <2>1. CopyIsPosted /\ cfg_text \in (0 .. MaxAnswers) \X (0 .. MaxAnswers)
    BY <1>1 DEF Inv, Values
  <2>2. cfg_text = <<cfg_text[1], cfg_text[2]>>
    BY <2>1
  <2> QED
    BY <2>1, <2>2 DEF CopyIsPosted, QuietMeansTaken
<1> QED
  BY <1>1, InvAlways, PTL

(* A piece is read when the pieces before it are heard and their frames    *)
(* shown.                                                                  *)
LEMMA ReadIsReadNext == ASSUME Inv, ReadPiece PROVE Calls!ReadNext
<1>1. pc["asr"] = "read" /\ recv_tts_queue = <<>> /\ pc["tts"] = "receive"
  BY AsrAlone DEF ReadPiece, Step, Inv, Places
<1>2. heard = chunks
  BY <1>1 DEF Inv, PieceInFlight, InFlight
<1>3. shown = frames
  BY <1>1, AsrAlone DEF ReadPiece, Step, Inv, FrameInFlight, FrameOnItsWay
<1> QED
  BY <1>2, <1>3 DEF ReadPiece, ttsVars, mp3Vars, Calls!ReadNext, Calls!Settled

(* What is copied through the pointer is the piece that was read last.     *)
LEMMA CopyIsHear == ASSUME Inv, CopyPiece PROVE Calls!Hear
<1>1. pc["tts"] = "copy" /\ pc["mp3"] = "receive" /\ parse_recv_mp3_queue = <<>>
  BY TtsAlone DEF CopyPiece, Step
<1>2. buf = chunks /\ heard = chunks - 1 /\ chunks \in Int
  BY <1>1, PipelineAssumption DEF Inv, Values, PieceInFlight, InFlight
<1>3. shown = frames
  BY <1>1 DEF Inv, FrameInFlight, FrameOnItsWay
<1> QED
  BY <1>2, <1>3 DEF CopyPiece, chunkVars, mp3Vars, Calls!Hear

(* A frame is described when the piece is heard and the frame before shown. *)
LEMMA FrameIsDescribe == ASSUME Inv, NextFrame PROVE Calls!Describe
<1>1. /\ pc["tts"] = "parse" /\ pc["asr"] = "more" /\ pc["mp3"] = "receive"
      /\ parse_recv_mp3_queue = <<>> /\ frames_left > 0
  BY TtsAlone DEF NextFrame, Step
<1>2. heard = chunks
  BY <1>1 DEF Inv, PieceInFlight, InFlight
<1>3. shown = frames
  BY <1>1 DEF Inv, FrameInFlight, FrameOnItsWay
<1>4. chunks > 0
  <2>1. SUFFICES ASSUME chunks = 0 PROVE FALSE
    BY PipelineAssumption DEF Inv, Values
  <2>2. frames + frames_left <= 0
    BY <1>2, <2>1, PipelineAssumption DEF Inv, FrameInFlight
  <2> QED
    BY <1>1, <2>2, PipelineAssumption DEF Inv, Values
<1> QED
  BY <1>2, <1>3, <1>4 DEF NextFrame, chunkVars, mp3Vars, Calls!Describe, Calls!Settled

(* What mp3_parse_recv reads through the pointer is the frame described    *)
(* last, and no other.                                                     *)
LEMMA PrintIsShow == ASSUME Inv, PrintFrame PROVE Calls!Show
<1>1. pc["mp3"] = "print" /\ pc["tts"] = "parse" /\ pc["asr"] = "more"
  BY DEF PrintFrame, Step, Inv, FrameInFlight, PieceInFlight
<1>2. ring_info = frames /\ shown = frames - 1 /\ frames \in Nat
  BY <1>1 DEF Inv, Values, FrameInFlight, FrameOnItsWay
<1>3. heard = chunks
  BY <1>1 DEF Inv, PieceInFlight, InFlight
<1> QED
  BY <1>2, <1>3 DEF PrintFrame, chunkVars, ttsVars, Calls!Show

(* The tasks, their queues and their pointers implement the plain loop of   *)
(* procedure calls, for every interleaving the priorities allow.           *)
THEOREM ActsAsCalls == Spec => ImplementsHandOver
<1>1. Init => Calls!Init
  BY DEF Init, Calls!Init
<1>2. ASSUME Inv, [Next]_vars PROVE [Calls!Next]_(Calls!vars)
  <2>1. CASE ReadPiece \/ CopyPiece \/ NextFrame \/ PrintFrame
    BY <1>2, <2>1, ReadIsReadNext, CopyIsHear, FrameIsDescribe, PrintIsShow DEF Calls!Next
  <2>2. CASE ~(ReadPiece \/ CopyPiece \/ NextFrame \/ PrintFrame)
    <3>1. UNCHANGED <<chunks, heard, frames, shown>>
      BY <1>2, <2>2
         DEF Next, Network, Dbmd, Asr, Tts, Mp3, AnswerArrives, WifiReady, PieceArrives,
             RequestEnds, ClearText, EncodeText, UpInitSetTts, CreateTask, DownInitSetTts,
             FillConfig, RunTts, SendPiece, MorePieces, Cleanup, ReceivePiece, SendFrame,
             ParseReturns, ReceiveFrame, vars, chunkVars, ttsVars, mp3Vars
    <3> QED
      BY <3>1 DEF Calls!vars
  <2> QED
    BY <2>1, <2>2
<1> QED
  BY <1>1, <1>2, InvAlways, PTL DEF Spec, ImplementsHandOver, Calls!Spec

=============================================================================
