------------------------------ MODULE WifiJoin ------------------------------
(***************************************************************************)
(* How the board gets on the network that asr_baidu_main waits for:        *)
(* wifi_connect and the event handlers of wifi_conf.c, LwIP_DHCP behind    *)
(* it, and its two callers, the AT command task (fATWC, fATWD) and the     *)
(* thread the driver starts to join again (wifi_autoreconnect_thread).     *)
(*                                                                         *)
(* The driver is a binary library: its events come whenever its state      *)
(* allows, or not at all.  It calls the handlers from a task of its own    *)
(* (CONFIG_WIFI_IND_USE_THREAD is 0), and the call is one step here: the   *)
(* driver's tasks are taken not to be preempted by the callers.            *)
(***************************************************************************)
EXTENDS Integers

CONSTANTS
  Callers,      (* the tasks that call wifi_connect                        *)
  Keys,         (* what they call it with: "open", "wpa2", or a password   *)
                (* of a length that cannot be right, "bad"                 *)
  MaxCalls      (* bound: commands and reconnections in a behaviour        *)

ASSUME JoinAssumption ==
  /\ Keys \subseteq {"open", "wpa2", "bad"}
  /\ MaxCalls \in Nat

NoOne == "none"
ASSUME NoOneAssumption == NoOne \notin Callers

VARIABLES
  pc,               (* where each caller is, "idle" outside of its command *)
  sec,              (* security_type of its call                           *)
  joined,           (* its result is RTW_SUCCESS                           *)
  sema,             (* the count of its join_sema, Deleted after the free  *)
  results,          (* the callers whose join_result is allocated          *)
  connecting,       (* JOIN_CONNECTING is set in rtw_join_status           *)
  join_user_data,   (* the caller whose join_result it points to           *)
  handlers,         (* the three handlers of a join are registered         *)
  ready,            (* error_flag is RTW_NO_ERROR                          *)
  link,             (* the driver: "down", "joining", "assoc", "up"        *)
  leaving,          (* the driver owes a disconnect event for an old link  *)
  dhcp,             (* the DHCP client is not in state DHCP_OFF            *)
  ip,               (* the address of the interface is not 0               *)
  calls,            (* calls made                                          *)
  refused           (* a call ended with JOIN_CONNECTING set               *)

Deleted == -1

made == <<calls, refused>>
call == <<pc, sec, joined, sema, results, made>>
join == <<connecting, join_user_data, handlers>>
driver == <<link, leaving>>
net == <<dhcp, ip>>
vars == <<call, join, ready, driver, net>>

Init ==
  /\ pc = [c \in Callers |-> "idle"]
  /\ sec = [c \in Callers |-> "open"]
  /\ joined = [c \in Callers |-> FALSE]
  /\ sema = [c \in Callers |-> Deleted]
  /\ results = {}
  /\ connecting = FALSE
  /\ join_user_data = NoOne
  /\ handlers = FALSE
  /\ ready = FALSE
  /\ link = "down" /\ leaving = FALSE
  /\ dhcp = FALSE /\ ip = FALSE
  /\ calls = 0
  /\ refused = FALSE

-----------------------------------------------------------------------------
(* The driver and its events.                                              *)

(* The semaphore that join_user_data leads to was deleted: rtw_free_sema    *)
(* of line 603 is given the local join_semaphore, and join_sema is not     *)
(* reset.                                                                  *)
SemaGone == join_user_data # NoOne /\ sema[join_user_data] = Deleted

(* rtw_up_sema of the join that join_user_data leads to.  To give a        *)
(* deleted semaphore writes to freed memory; what is modelled is that      *)
(* nobody has taken that memory again, and JoinDataAlive says when it may  *)
(* happen.                                                                 *)
UpJoinSema ==
  sema' = IF join_user_data = NoOne \/ SemaGone
            THEN sema
            ELSE [sema EXCEPT ![join_user_data] = @ + 1]

(* wifi_no_network_hdl sets the status to JOIN_NO_NETWORKS, and with that  *)
(* takes JOIN_CONNECTING out of it.                                        *)
NoNetwork ==
  /\ link = "joining"
  /\ handlers /\ join_user_data # NoOne
  /\ connecting' = FALSE
  /\ UNCHANGED <<call, join_user_data, handlers, ready, driver, net>>

(* wifi_connected_hdl: a join without a handshake is complete.             *)
Connected ==
  /\ link = "joining"
  /\ link' \in {"assoc", "up"}
  /\ IF handlers /\ join_user_data # NoOne
       THEN /\ connecting' = TRUE
            /\ IF sec[join_user_data] = "open" THEN UpJoinSema ELSE UNCHANGED sema
       ELSE UNCHANGED <<connecting, sema>>
  /\ UNCHANGED <<pc, sec, joined, results, made, join_user_data, handlers, ready, leaving,
                 net>>

(* wifi_handshake_done_hdl sets JOIN_CONNECTING whoever is there.          *)
HandshakeDone ==
  /\ link = "assoc"
  /\ link' = "up"
  /\ IF handlers THEN connecting' = TRUE /\ UpJoinSema ELSE UNCHANGED <<connecting, sema>>
  /\ UNCHANGED <<pc, sec, joined, results, made, join_user_data, handlers, ready, leaving,
                 net>>

(* wifi_disconn_hdl; it stays registered after the first call.  Only a     *)
(* join of an open network, not yet told JOIN_NO_NETWORKS, leaves          *)
(* error_flag as it is: the last condition for the others is always true.  *)
DisconnHdl ==
  /\ ready' \in IF join_user_data # NoOne /\ sec[join_user_data] = "open"
                  THEN {ready, ready /\ connecting} ELSE {FALSE}
  /\ dhcp' = FALSE
  /\ UpJoinSema
  /\ UNCHANGED <<pc, sec, joined, results, made, join, ip>>

(* The join fails or the link is lost.                                     *)
LinkLost ==
  /\ link # "down"
  /\ link' = "down"
  /\ DisconnHdl
  /\ UNCHANGED leaving

(* The old link is left, for wifi_disconnect or a new join.                *)
LinkLeft ==
  /\ leaving
  /\ leaving' = FALSE
  /\ DisconnHdl
  /\ UNCHANGED link

(* The DHCP server gives an address (dhcp_recv, on lwIP's task).           *)
Lease ==
  /\ dhcp /\ ~ip /\ link = "up"
  /\ ip' = TRUE
  /\ UNCHANGED <<call, join, ready, driver, dhcp>>

Driver == NoNetwork \/ Connected \/ HandshakeDone \/ LinkLost \/ LinkLeft \/ Lease

-----------------------------------------------------------------------------
(* wifi_connect.                                                           *)

(* fATWC, or the driver's reconnection, calls it.  If a join is in         *)
(* progress the driver is told to leave (wifi_disconnect), which it may    *)
(* refuse.                                                                 *)
CallConnect(c) ==
  /\ pc[c] = "idle" /\ calls < MaxCalls
  /\ calls' = calls + 1
  /\ \E k \in Keys : sec' = [sec EXCEPT ![c] = k]
  /\ joined' = [joined EXCEPT ![c] = FALSE]
  /\ \/ /\ ~connecting
        /\ pc' = [pc EXCEPT ![c] = "begin"]
        /\ UNCHANGED driver
     \/ /\ connecting
        /\ pc' = [pc EXCEPT ![c] = "wait"]
        /\ link' = "down"
        /\ leaving' = (leaving \/ link # "down")
     \/ /\ connecting
        /\ UNCHANGED <<pc, driver>>
  /\ UNCHANGED <<sema, results, join, refused, ready, net>>

(* The loop at line 439.                                                   *)
OtherJoinEnds(c) ==
  /\ pc[c] = "wait" /\ ~connecting
  /\ pc' = [pc EXCEPT ![c] = "begin"]
  /\ UNCHANGED <<sec, joined, sema, results, made, join, ready, driver, net>>

(* The returns after JOIN_CONNECTING is set: an invalid key, or no memory  *)
(* for join_result, which any call may meet.                               *)
BeginRefused(c) ==
  /\ pc[c] = "begin"
  /\ connecting' = TRUE
  /\ refused' = TRUE
  /\ ready' = FALSE
  /\ pc' = [pc EXCEPT ![c] = "idle"]
  /\ UNCHANGED <<sec, joined, sema, results, calls, join_user_data, handlers, driver, net>>

(* join_result, its password and its semaphore, and the handlers; without  *)
(* memory for one of the middle two the call is torn down (and deletes,    *)
(* as its semaphore, what its stack happens to hold).                      *)
Begin(c) ==
  /\ pc[c] = "begin"
  /\ sec[c] # "bad"
  /\ connecting' = TRUE
  /\ ready' = FALSE
  /\ results' = results \union {c}
  /\ \/ /\ sema' = [sema EXCEPT ![c] = 0]
        /\ handlers' = TRUE
        /\ pc' = [pc EXCEPT ![c] = "tell"]
     \/ /\ pc' = [pc EXCEPT ![c] = "free_sema"]
        /\ UNCHANGED <<sema, handlers>>
  /\ UNCHANGED <<sec, joined, made, join_user_data, driver, net>>

(* wifi_connect_local; its result is ignored.                              *)
TellDriver(c) ==
  /\ pc[c] = "tell"
  /\ \/ link' = "joining" /\ leaving' = (leaving \/ link # "down")
     \/ UNCHANGED driver
  /\ pc' = [pc EXCEPT ![c] = "assign"]
  /\ UNCHANGED <<sec, joined, sema, results, made, join, ready, net>>

SetJoinUserData(c) ==
  /\ pc[c] = "assign"
  /\ join_user_data' = c
  /\ pc' = [pc EXCEPT ![c] = "join"]
  /\ UNCHANGED <<sec, joined, sema, results, made, connecting, handlers, ready, driver, net>>

(* join_sema does not come within 15 s.                                    *)
JoinTimesOut(c) ==
  /\ pc[c] = "join" /\ sema[c] = 0
  /\ pc' = [pc EXCEPT ![c] = "free_sema"]
  /\ UNCHANGED <<sec, joined, sema, results, made, join, ready, driver, net>>

(* It comes, and wifi_is_connected_to_ap is asked.                         *)
JoinAnswered(c) ==
  /\ pc[c] = "join" /\ sema[c] > 0
  /\ sema' = [sema EXCEPT ![c] = @ - 1]
  /\ joined' = [joined EXCEPT ![c] = link \in {"assoc", "up"}]
  /\ pc' = [pc EXCEPT ![c] = "free_sema"]
  /\ UNCHANGED <<sec, results, made, join, ready, driver, net>>

(* The end of the call, from the label error on.                           *)
FreeSema(c) ==
  /\ pc[c] = "free_sema"
  /\ sema' = [sema EXCEPT ![c] = Deleted]
  /\ pc' = [pc EXCEPT ![c] = "unset"]
  /\ UNCHANGED <<sec, joined, results, made, join, ready, driver, net>>

(* Mutant: join_result is freed first, as wifi_connect_bssid does.         *)
UnsetAfterFree(c) ==
  /\ pc[c] = "unset"
  /\ join_user_data' = IF c \in results THEN join_user_data ELSE NoOne
  /\ results' = results \ {c}
  /\ pc' = IF c \in results THEN pc ELSE [pc EXCEPT ![c] = "release"]
  /\ UNCHANGED <<sec, joined, sema, made, connecting, handlers, ready, driver, net>>

UnsetJoinUserData(c) ==
  /\ pc[c] = "unset"
  /\ join_user_data' = NoOne
  /\ pc' = [pc EXCEPT ![c] = "release"]
  /\ UNCHANGED <<sec, joined, sema, results, made, connecting, handlers, ready, driver, net>>

(* Mutants: join_result is not freed; the handlers are still there when    *)
(* JOIN_CONNECTING is cleared.                                             *)
ReleaseLeaking(c) ==
  /\ pc[c] = "release"
  /\ handlers' = FALSE
  /\ pc' = [pc EXCEPT ![c] = "clear"]
  /\ UNCHANGED <<sec, joined, sema, results, made, connecting, join_user_data, ready, driver,
                 net>>
ReleaseLate(c) ==
  /\ pc[c] = "release"
  /\ results' = results \ {c}
  /\ IF c \in results
       THEN connecting' = FALSE /\ UNCHANGED <<handlers, pc>>
       ELSE /\ handlers' = FALSE
            /\ pc' = [pc EXCEPT ![c] = IF joined[c] THEN "dhcp_start" ELSE "idle"]
            /\ UNCHANGED connecting
  /\ UNCHANGED <<sec, joined, sema, made, join_user_data, ready, driver, net>>

(* join_result is freed and the handlers are unregistered.                 *)
Release(c) ==
  /\ pc[c] = "release"
  /\ results' = results \ {c}
  /\ handlers' = FALSE
  /\ pc' = [pc EXCEPT ![c] = "clear"]
  /\ UNCHANGED <<sec, joined, sema, made, connecting, join_user_data, ready, driver, net>>

(* Mutant: JOIN_CONNECTING is cleared by a success only.                   *)
ClearIfJoined(c) ==
  /\ pc[c] = "clear"
  /\ connecting' = (connecting /\ ~joined[c])
  /\ pc' = [pc EXCEPT ![c] = IF joined[c] THEN "dhcp_start" ELSE "idle"]
  /\ UNCHANGED <<sec, joined, sema, results, made, join_user_data, handlers, ready, driver,
                 net>>

ClearConnecting(c) ==
  /\ pc[c] = "clear"
  /\ connecting' = FALSE
  /\ pc' = [pc EXCEPT ![c] = IF joined[c] THEN "dhcp_start" ELSE "idle"]
  /\ UNCHANGED <<sec, joined, sema, results, made, join_user_data, handlers, ready, driver,
                 net>>

-----------------------------------------------------------------------------
(* LwIP_DHCP(0, DHCP_START), which the callers call after a success.       *)

(* dhcp_start, which ends in dhcp_stop if the first message fails.         *)
DhcpStart(c) ==
  /\ pc[c] = "dhcp_start"
  /\ ip' = FALSE
  /\ dhcp' \in BOOLEAN
  /\ pc' = [pc EXCEPT ![c] = "dhcp_wait"]
  /\ UNCHANGED <<sec, joined, sema, results, made, join, ready, driver>>

(* A turn of the loop in DHCP_WAIT_ADDRESS that ends it: the client was    *)
(* stopped; there is an address; the client's tries are used up.  Without  *)
(* an address the static one is set.                                       *)
DhcpStopped(c) ==
  /\ pc[c] = "dhcp_wait" /\ ~dhcp
  /\ ip' = TRUE
  /\ pc' = [pc EXCEPT ![c] = "idle"]
  /\ UNCHANGED <<sec, joined, sema, results, made, join, ready, driver, dhcp>>

DhcpAddress(c) ==
  /\ pc[c] = "dhcp_wait" /\ dhcp /\ ip
  /\ pc' = [pc EXCEPT ![c] = "dhcp_assigned"]
  /\ UNCHANGED <<sec, joined, sema, results, made, join, ready, driver, net>>

DhcpTimesOut(c) ==
  /\ pc[c] = "dhcp_wait" /\ dhcp /\ ~ip
  /\ dhcp' = FALSE
  /\ ip' = TRUE
  /\ ready' = FALSE
  /\ pc' = [pc EXCEPT ![c] = "idle"]
  /\ UNCHANGED <<sec, joined, sema, results, made, join, driver>>

SetNoError(c) ==
  /\ pc[c] = "dhcp_assigned"
  /\ ready' = TRUE
  /\ pc' = [pc EXCEPT ![c] = "idle"]
  /\ UNCHANGED <<sec, joined, sema, results, made, join, driver, net>>

-----------------------------------------------------------------------------
(* fATWD: wifi_disconnect, up to 20 s of waiting, LwIP_ReleaseIP.          *)
CallDisconnect(c) ==
  /\ pc[c] = "idle" /\ calls < MaxCalls
  /\ link \in {"assoc", "up"}
  /\ calls' = calls + 1
  /\ \/ /\ link' = "down" /\ leaving' = TRUE
        /\ pc' = [pc EXCEPT ![c] = "release_ip"]
     \/ UNCHANGED <<driver, pc>>
  /\ UNCHANGED <<sec, joined, sema, results, join, refused, ready, net>>

ReleaseIP(c) ==
  /\ pc[c] = "release_ip"
  /\ ip' = FALSE
  /\ pc' = [pc EXCEPT ![c] = "idle"]
  /\ UNCHANGED <<sec, joined, sema, results, made, join, ready, driver, dhcp>>

Connect(c) ==
  \/ OtherJoinEnds(c) \/ BeginRefused(c) \/ Begin(c) \/ TellDriver(c) \/ SetJoinUserData(c)
  \/ JoinTimesOut(c) \/ JoinAnswered(c)
  \/ FreeSema(c) \/ UnsetJoinUserData(c) \/ Release(c) \/ ClearConnecting(c)

Address(c) ==
  DhcpStart(c) \/ DhcpStopped(c) \/ DhcpAddress(c) \/ DhcpTimesOut(c) \/ SetNoError(c)

Goes(c) == Connect(c) \/ Address(c) \/ ReleaseIP(c)

Next == Driver \/ \E c \in Callers : CallConnect(c) \/ CallDisconnect(c) \/ Goes(c)

(* A task that is in a call goes on.  Nothing is asked of the driver, the  *)
(* network or the user.                                                    *)
Spec == Init /\ [][Next]_vars /\ \A c \in Callers : WF_vars(Goes(c))

-----------------------------------------------------------------------------
(* Properties.                                                             *)

(* The types; a call has its join_result from the allocation to the free,  *)
(* and its semaphore while it waits for it.                                *)
TypeOK ==
  /\ pc \in [Callers -> {"idle", "wait", "begin", "tell", "assign", "join", "free_sema",
                         "unset", "release", "clear", "dhcp_start", "dhcp_wait",
                         "dhcp_assigned", "release_ip"}]
  /\ sec \in [Callers -> {"open"} \union Keys]
  /\ joined \in [Callers -> BOOLEAN]
  /\ sema \in [Callers -> Nat \union {Deleted}]
  /\ results = {c \in Callers :
                  pc[c] \in {"tell", "assign", "join", "free_sema", "unset", "release"}}
  /\ \A c \in Callers : pc[c] \in {"tell", "assign", "join"} => sema[c] # Deleted
  /\ join_user_data \in Callers \union {NoOne}
  /\ {connecting, handlers, refused, ready, leaving, dhcp, ip} \subseteq BOOLEAN
  /\ link \in {"down", "joining", "assoc", "up"}
  /\ calls \in 0 .. MaxCalls

(* What an event handler finds in join_user_data is nothing, or a          *)
(* join_result that is still allocated, also when a second call began      *)
(* because JOIN_NO_NETWORKS wiped the mark of the first.  The semaphore in *)
(* it is not as safe: it is gone already while the call it belongs to is   *)
(* between lines 603 and 605, where the handlers would give it (lines 276, *)
(* 285 and 336), and this is the only place.                               *)
JoinDataAlive ==
  /\ join_user_data # NoOne => join_user_data \in results
  /\ SemaGone => pc[join_user_data] = "unset"

(* A call is past the mark it set and has not cleared it.                  *)
InConnect(c) ==
  pc[c] \in {"tell", "assign", "join", "free_sema", "unset", "release", "clear"}

(* With no call in progress nothing is left of one: no handler of a join   *)
(* is there that could set JOIN_CONNECTING, and the mark itself, which     *)
(* only a call in progress clears and the next one waits for, is off,      *)
(* unless a call was refused.                                              *)
IdleIsClean ==
  (\A c \in Callers : ~InConnect(c)) =>
    ~handlers /\ join_user_data = NoOne /\ (refused \/ ~connecting)

(* Every command and every reconnection comes back.                        *)
EveryCallReturns == \A c \in Callers : pc[c] # "idle" ~> pc[c] = "idle"

(* It is only after a refused call that one may not come back: neither an  *)
(* overlapping call nor an event that is late, lost or repeated does that. *)
CallReturns == []~refused => EveryCallReturns
=============================================================================
