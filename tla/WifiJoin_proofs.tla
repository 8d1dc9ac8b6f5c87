--------------------------- MODULE WifiJoin_proofs ---------------------------
(***************************************************************************)
(* The safety of WifiJoin for any tasks, any keys and any number of calls. *)
(*                                                                         *)
(* None of the invariants is inductive: JoinDataAlive holds because only a *)
(* call between the assignment of join_user_data and its reset is ever     *)
(* pointed at, and none that is torn down for want of a semaphore,         *)
(* IdleIsClean because handlers and mark are there only while some call is *)
(* on its way to take them off.                                            *)
(***************************************************************************)
EXTENDS WifiJoin, TLAPS

(* A call may have handlers registered, which it will take off.            *)
HasHandlers(c) == pc[c] \in {"tell", "assign", "join", "free_sema", "unset", "release"}

(* What join_user_data points to has set it and will reset it.             *)
DataInUse ==
  \A c \in Callers : join_user_data = c => pc[c] \in {"join", "free_sema", "unset"}

(* A call that is pointed at keeps its semaphore until it deletes it.      *)
SemaInUse ==
  \A c \in Callers :
    join_user_data = c /\ pc[c] = "free_sema" => sema[c] # Deleted

HandlersInUse == handlers => \E c \in Callers : HasHandlers(c)

MarkInUse == connecting => refused \/ \E c \in Callers : InConnect(c)

Inv == TypeOK /\ DataInUse /\ SemaInUse /\ HandlersInUse /\ MarkInUse

(* At the start nothing is allocated, registered or marked.                *)
LEMMA InitInv == Init => Inv
<1> SUFFICES ASSUME Init PROVE Inv
  OBVIOUS
<1>1. {connecting, handlers, refused, ready, leaving, dhcp, ip} \subseteq BOOLEAN
  BY Zenon DEF Init
<1>2. joined \in [Callers -> BOOLEAN]
  BY Zenon DEF Init
<1>3. TypeOK
  BY <1>1, <1>2, JoinAssumption DEF Init, TypeOK, Deleted
<1>4. DataInUse /\ SemaInUse /\ HandlersInUse /\ MarkInUse
  BY NoOneAssumption DEF Init, DataInUse, SemaInUse, HandlersInUse, MarkInUse
<1> QED
  BY <1>3, <1>4 DEF Inv

(* A semaphore that is there stays there when it is given.                 *)
LEMMA UpKeepsSemas ==
  ASSUME TypeOK, UpJoinSema
  PROVE  /\ sema' \in [Callers -> Nat \union {Deleted}]
         /\ \A c \in Callers : sema[c] # Deleted => sema'[c] # Deleted
<1> USE DEF TypeOK, Deleted
<1>1. CASE join_user_data = NoOne \/ SemaGone
  BY <1>1 DEF UpJoinSema
<1>2. CASE ~(join_user_data = NoOne \/ SemaGone)
  <2>1. join_user_data \in Callers /\ sema[join_user_data] \in Nat
    BY <1>2 DEF SemaGone
  <2>2. sema' = [sema EXCEPT ![join_user_data] = sema[join_user_data] + 1]
    BY <1>2 DEF UpJoinSema
  <2> QED
    BY <2>1, <2>2
<1> QED
  BY <1>1, <1>2

(* The types survive an event: no handler moves a call.                    *)
LEMMA DriverType == ASSUME TypeOK, Driver PROVE TypeOK'
<1> USE DEF TypeOK, call, join, driver, net, made
<1>1. CASE NoNetwork
  BY <1>1 DEF NoNetwork
<1>2. CASE Connected
  <2>1. /\ sema' \in [Callers -> Nat \union {Deleted}]
        /\ \A c \in Callers : sema[c] # Deleted => sema'[c] # Deleted
    BY <1>2, UpKeepsSemas DEF Connected
  <2>2. connecting' \in BOOLEAN
    BY <1>2 DEF Connected
  <2> QED
    BY <1>2, <2>1, <2>2 DEF Connected
<1>3. CASE HandshakeDone
  <2>1. /\ sema' \in [Callers -> Nat \union {Deleted}]
        /\ \A c \in Callers : sema[c] # Deleted => sema'[c] # Deleted
    BY <1>3, UpKeepsSemas DEF HandshakeDone
  <2>2. connecting' \in BOOLEAN
    BY <1>3 DEF HandshakeDone
  <2> QED
    BY <1>3, <2>1, <2>2 DEF HandshakeDone
<1>4. CASE DisconnHdl /\ link' = "down" /\ UNCHANGED leaving
  <2>1. ready' \in BOOLEAN
    BY <1>4 DEF DisconnHdl
  <2> QED
    BY <1>4, <2>1, UpKeepsSemas DEF DisconnHdl
<1>5. CASE DisconnHdl /\ leaving' = FALSE /\ UNCHANGED link
  <2>1. ready' \in BOOLEAN
    BY <1>5 DEF DisconnHdl
  <2> QED
    BY <1>5, <2>1, UpKeepsSemas DEF DisconnHdl
<1>6. CASE Lease
  BY <1>6 DEF Lease
<1> QED
  BY <1>1, <1>2, <1>3, <1>4, <1>5, <1>6 DEF Driver, LinkLost, LinkLeft

(* The types survive a step of wifi_connect: join_result and semaphore are  *)
(* there where the place in the call says so.                              *)
LEMMA ConnectType == ASSUME NEW c \in Callers, TypeOK, Connect(c) PROVE TypeOK'
<1> USE NoOneAssumption DEF TypeOK, call, join, driver, net, made, Deleted
<1>1. CASE OtherJoinEnds(c)
  BY <1>1 DEF OtherJoinEnds
<1>2. CASE BeginRefused(c)
  BY <1>2 DEF BeginRefused
<1>3. CASE Begin(c)
  <2>1. /\ connecting' = TRUE /\ ready' = FALSE
        /\ results' = results \union {c}
        /\ UNCHANGED <<sec, joined, made, join_user_data, driver, net>>
    BY <1>3 DEF Begin
  <2> HIDE <1>3
  <2>2. CASE /\ sema' = [sema EXCEPT ![c] = 0] /\ handlers' = TRUE
             /\ pc' = [pc EXCEPT ![c] = "tell"]
    <3>1. results' = {d \in Callers : pc'[d] \in {"tell", "assign", "join", "free_sema", "unset",
                                                 "release"}}
      BY <2>1, <2>2
    <3>2. /\ sema' \in [Callers -> Nat \union {Deleted}]
          /\ \A d \in Callers : pc'[d] \in {"tell", "assign", "join"} => sema'[d] # Deleted
      BY <2>2
    <3> QED
      BY <2>1, <2>2, <3>1, <3>2
  <2>3. CASE /\ pc' = [pc EXCEPT ![c] = "free_sema"] /\ UNCHANGED <<sema, handlers>>
    BY <2>1, <2>3
  <2> QED
    BY <1>3, <2>2, <2>3 DEF Begin
<1>4. CASE TellDriver(c)
  BY <1>4 DEF TellDriver
<1>5. CASE SetJoinUserData(c)
  BY <1>5 DEF SetJoinUserData
<1>6. CASE JoinTimesOut(c)
  BY <1>6 DEF JoinTimesOut
<1>7. CASE JoinAnswered(c)
  BY <1>7 DEF JoinAnswered
<1>8. CASE FreeSema(c)
  BY <1>8 DEF FreeSema
<1>9. CASE UnsetJoinUserData(c)
  BY <1>9 DEF UnsetJoinUserData
<1>10. CASE Release(c)
  BY <1>10 DEF Release
<1>11. CASE ClearConnecting(c)
  BY <1>11 DEF ClearConnecting
<1> QED
  BY <1>1, <1>2, <1>3, <1>4, <1>5, <1>6, <1>7, <1>8, <1>9, <1>10, <1>11 DEF Connect

(* The types survive a step of LwIP_DHCP.                                  *)
LEMMA AddressType == ASSUME NEW c \in Callers, TypeOK, Address(c) PROVE TypeOK'
<1> USE DEF TypeOK, call, join, driver, net, made, Deleted
<1>1. CASE DhcpStart(c)
  BY <1>1 DEF DhcpStart
<1>2. CASE DhcpStopped(c)
  BY <1>2 DEF DhcpStopped
<1>3. CASE DhcpAddress(c)
  BY <1>3 DEF DhcpAddress
<1>4. CASE DhcpTimesOut(c)
  BY <1>4 DEF DhcpTimesOut
<1>5. CASE SetNoError(c)
  BY <1>5 DEF SetNoError
<1> QED
  BY <1>1, <1>2, <1>3, <1>4, <1>5 DEF Address

(* The types survive the beginning and the end of a command.               *)
LEMMA CallType == ASSUME NEW c \in Callers, TypeOK, CallConnect(c) \/ CallDisconnect(c) \/ ReleaseIP(c) PROVE TypeOK'
<1> USE JoinAssumption DEF TypeOK, call, join, driver, net, made, Deleted
<1>1. CASE CallConnect(c)
  <2>1. /\ sec' \in [Callers -> {"open"} \union Keys]
        /\ joined' \in [Callers -> BOOLEAN]
        /\ calls' \in 0 .. MaxCalls
    BY <1>1 DEF CallConnect
  <2>2. leaving' \in BOOLEAN /\ link' \in {"down", "joining", "assoc", "up"}
    BY <1>1 DEF CallConnect
  <2>3. /\ pc' \in {[pc EXCEPT ![c] = "begin"], [pc EXCEPT ![c] = "wait"], pc}
        /\ pc[c] = "idle"
        /\ UNCHANGED <<sema, results, join, refused, ready, net>>
    BY <1>1 DEF CallConnect
  <2> HIDE <1>1
  <2>4. pc' \in [Callers -> {"idle", "wait", "begin", "tell", "assign", "join", "free_sema",
                             "unset", "release", "clear", "dhcp_start", "dhcp_wait",
                             "dhcp_assigned", "release_ip"}]
    BY <2>3
  <2>5. \A d \in Callers :
          LET waiting == {"tell", "assign", "join"}
              holding == waiting \union {"free_sema", "unset", "release"}
          IN  /\ pc'[d] \in waiting <=> pc[d] \in waiting
              /\ pc'[d] \in holding <=> pc[d] \in holding
    BY <2>3
  <2> QED
    BY <2>1, <2>2, <2>3, <2>4, <2>5
<1>2. CASE CallDisconnect(c)
  <2>1. /\ pc[c] = "idle" /\ calls' \in 0 .. MaxCalls
        /\ UNCHANGED <<sec, joined, sema, results, join, refused, ready, net>>
    BY <1>2 DEF CallDisconnect
  <2>2. CASE UNCHANGED <<driver, pc>>
    BY <2>1, <2>2
  <2>3. CASE link' = "down" /\ leaving' = TRUE /\ pc' = [pc EXCEPT ![c] = "release_ip"]
    BY <2>1, <2>3
  <2> QED
    BY <1>2, <2>2, <2>3 DEF CallDisconnect
<1>3. CASE ReleaseIP(c)
  BY <1>3 DEF ReleaseIP
<1> QED
  BY <1>1, <1>2, <1>3 DEF TypeOK

(* Every step keeps the types.                                             *)
LEMMA TypeInv == TypeOK /\ [Next]_vars => TypeOK'
<1> SUFFICES ASSUME TypeOK, [Next]_vars PROVE TypeOK'
  OBVIOUS
<1>1. CASE UNCHANGED vars
  BY <1>1 DEF vars, call, join, driver, net, made, TypeOK
<1>2. CASE Driver
  BY <1>2, DriverType
<1>3. ASSUME NEW c \in Callers, CallConnect(c) \/ CallDisconnect(c) \/ Goes(c) PROVE TypeOK'
  BY <1>3, ConnectType, AddressType, CallType DEF Goes
<1> QED
  BY <1>1, <1>2, <1>3 DEF Next

(* join_user_data points to nothing but a call between its assignment and   *)
(* its reset: the reset sets it to NULL whoever it points to, so that an    *)
(* overlapping call can only take it away, never leave it behind.           *)
LEMMA DataInUseInv ==
  ASSUME TypeOK, DataInUse, [Next]_vars
  PROVE  DataInUse'
<1> USE NoOneAssumption DEF DataInUse, TypeOK, call, join, driver, net, made
<1>1. CASE Driver
  BY <1>1 DEF Driver, NoNetwork, Connected, HandshakeDone, LinkLost, LinkLeft, DisconnHdl, Lease
<1>2. CASE \E c \in Callers : CallConnect(c) \/ CallDisconnect(c) \/ ReleaseIP(c)
  BY <1>2 DEF CallConnect, CallDisconnect, ReleaseIP
<1>3. ASSUME NEW c \in Callers, Address(c) PROVE DataInUse'
  BY <1>3 DEF Address, DhcpStart, DhcpStopped, DhcpAddress, DhcpTimesOut, SetNoError
<1>4. ASSUME NEW c \in Callers, Connect(c) PROVE DataInUse'
  <2>1. CASE OtherJoinEnds(c)
    BY <1>4, <2>1 DEF OtherJoinEnds
  <2>2. CASE BeginRefused(c)
    BY <1>4, <2>2 DEF BeginRefused
  <2>3. CASE Begin(c)
    BY <1>4, <2>3 DEF Begin
  <2>4. CASE TellDriver(c)
    BY <1>4, <2>4 DEF TellDriver
  <2>5. CASE SetJoinUserData(c)
    BY <1>4, <2>5 DEF SetJoinUserData
  <2>6. CASE JoinTimesOut(c)
    BY <1>4, <2>6 DEF JoinTimesOut
  <2>7. CASE JoinAnswered(c)
    BY <1>4, <2>7 DEF JoinAnswered
  <2>8. CASE FreeSema(c)
    BY <1>4, <2>8 DEF FreeSema
  <2>9. CASE UnsetJoinUserData(c)
    BY <1>4, <2>9 DEF UnsetJoinUserData
  <2>10. CASE Release(c)
    BY <1>4, <2>10 DEF Release
  <2>11. CASE ClearConnecting(c)
    BY <1>4, <2>11 DEF ClearConnecting
  <2> QED
    BY <1>4, <2>1, <2>2, <2>3, <2>4, <2>5, <2>6, <2>7, <2>8, <2>9, <2>10, <2>11 DEF Connect
<1>5. CASE UNCHANGED vars
  BY <1>5 DEF vars
<1> QED
  BY <1>1, <1>2, <1>3, <1>4, <1>5 DEF Next, Goes

(* A call is pointed at only after it got its semaphore, which nobody else *)
(* deletes; one torn down without it has not set join_user_data.           *)
LEMMA SemaInUseInv ==
  ASSUME TypeOK, DataInUse, SemaInUse, [Next]_vars
  PROVE  SemaInUse'
<1> USE NoOneAssumption DEF SemaInUse, call, join, driver, net, made
<1>1. CASE Driver
  <2>1. UNCHANGED <<pc, join_user_data>>
    BY <1>1 DEF Driver, NoNetwork, Connected, HandshakeDone, LinkLost, LinkLeft, DisconnHdl, Lease
  <2>2. UNCHANGED sema \/ UpJoinSema
    BY <1>1 DEF Driver, NoNetwork, Connected, HandshakeDone, LinkLost, LinkLeft, DisconnHdl, Lease
  <2>3. \A c \in Callers : sema[c] # Deleted => sema'[c] # Deleted
    BY <2>2, UpKeepsSemas
  <2> QED
    BY <2>1, <2>3
<1>2. ASSUME NEW c \in Callers, CallConnect(c) \/ CallDisconnect(c) \/ ReleaseIP(c)
      PROVE  SemaInUse'
  BY <1>2 DEF TypeOK, CallConnect, CallDisconnect, ReleaseIP
<1>3. ASSUME NEW c \in Callers, Address(c) PROVE SemaInUse'
  BY <1>3 DEF TypeOK, Address, DhcpStart, DhcpStopped, DhcpAddress, DhcpTimesOut, SetNoError
<1>4. ASSUME NEW c \in Callers, Connect(c) PROVE SemaInUse'
  <2> USE DEF TypeOK
  <2>1. CASE OtherJoinEnds(c)
    BY <2>1 DEF OtherJoinEnds
  <2>2. CASE BeginRefused(c)
    BY <2>2 DEF BeginRefused
  <2>3. CASE Begin(c)
    <3>1. pc[c] = "begin" /\ join_user_data # c /\ join_user_data' = join_user_data
      BY <2>3 DEF Begin, DataInUse
    <3>2. \A d \in Callers : d # c => pc'[d] = pc[d] /\ sema'[d] = sema[d]
      BY <2>3 DEF Begin
    <3> QED
      BY <3>1, <3>2
  <2>4. CASE TellDriver(c)
    BY <2>4 DEF TellDriver
  <2>5. CASE SetJoinUserData(c)
    BY <2>5 DEF SetJoinUserData
  <2>6. CASE JoinTimesOut(c)
    BY <2>6 DEF JoinTimesOut, Deleted
  <2>7. CASE JoinAnswered(c)
    BY <2>7 DEF JoinAnswered, Deleted
  <2>8. CASE FreeSema(c)
    BY <2>8 DEF FreeSema
  <2>9. CASE UnsetJoinUserData(c)
    BY <2>9 DEF UnsetJoinUserData
  <2>10. CASE Release(c)
    BY <2>10 DEF Release
  <2>11. CASE ClearConnecting(c)
    BY <2>11 DEF ClearConnecting
  <2> QED
    BY <1>4, <2>1, <2>2, <2>3, <2>4, <2>5, <2>6, <2>7, <2>8, <2>9, <2>10, <2>11 DEF Connect
<1>5. CASE UNCHANGED vars
  BY <1>5 DEF vars
<1> QED
  BY <1>1, <1>2, <1>3, <1>4, <1>5 DEF Next, Goes

(* Handlers that are registered have a call that will take them off: the    *)
(* one that does so takes them from every other call as well.               *)
LEMMA HandlersInUseInv ==
  ASSUME TypeOK, HandlersInUse, [Next]_vars
  PROVE  HandlersInUse'
<1> USE DEF HandlersInUse, HasHandlers, TypeOK, call, join, driver, net, made
<1>1. CASE Driver
  BY <1>1 DEF Driver, NoNetwork, Connected, HandshakeDone, LinkLost, LinkLeft, DisconnHdl, Lease
<1>2. CASE \E c \in Callers : CallConnect(c) \/ CallDisconnect(c) \/ ReleaseIP(c)
  BY <1>2 DEF CallConnect, CallDisconnect, ReleaseIP
<1>3. ASSUME NEW c \in Callers, Address(c) PROVE HandlersInUse'
  BY <1>3 DEF Address, DhcpStart, DhcpStopped, DhcpAddress, DhcpTimesOut, SetNoError
<1>4. ASSUME NEW c \in Callers, Connect(c) PROVE HandlersInUse'
  <2>1. CASE OtherJoinEnds(c)
    BY <1>4, <2>1 DEF OtherJoinEnds
  <2>2. CASE BeginRefused(c)
    BY <1>4, <2>2 DEF BeginRefused
  <2>3. CASE Begin(c)
    BY <1>4, <2>3 DEF Begin
  <2>4. CASE TellDriver(c)
    BY <1>4, <2>4 DEF TellDriver
  <2>5. CASE SetJoinUserData(c)
    BY <1>4, <2>5 DEF SetJoinUserData
  <2>6. CASE JoinTimesOut(c)
    BY <1>4, <2>6 DEF JoinTimesOut
  <2>7. CASE JoinAnswered(c)
    BY <1>4, <2>7 DEF JoinAnswered
  <2>8. CASE FreeSema(c)
    BY <1>4, <2>8 DEF FreeSema
  <2>9. CASE UnsetJoinUserData(c)
    BY <1>4, <2>9 DEF UnsetJoinUserData
  <2>10. CASE Release(c)
    BY <1>4, <2>10 DEF Release
  <2>11. CASE ClearConnecting(c)
    BY <1>4, <2>11 DEF ClearConnecting
  <2> QED
    BY <1>4, <2>1, <2>2, <2>3, <2>4, <2>5, <2>6, <2>7, <2>8, <2>9, <2>10, <2>11 DEF Connect
<1>5. CASE UNCHANGED vars
  BY <1>5 DEF vars
<1> QED
  BY <1>1, <1>2, <1>3, <1>4, <1>5 DEF Next, Goes

(* JOIN_CONNECTING is set by a handler only while handlers are registered,  *)
(* and by a call that is on its way to clear it, or is refused.             *)
LEMMA MarkInUseInv ==
  ASSUME TypeOK, HandlersInUse, MarkInUse, [Next]_vars
  PROVE  MarkInUse'
<1> USE DEF HandlersInUse, HasHandlers, MarkInUse, InConnect, TypeOK, call, join, driver, net, made
<1>1. CASE Driver
  BY <1>1 DEF Driver, NoNetwork, Connected, HandshakeDone, LinkLost, LinkLeft, DisconnHdl, Lease
<1>2. ASSUME NEW c \in Callers, CallConnect(c) \/ CallDisconnect(c) \/ ReleaseIP(c)
      PROVE  MarkInUse'
  <2>1. /\ pc[c] \in {"idle", "release_ip"} /\ UNCHANGED <<connecting, refused>>
        /\ \A d \in Callers : d # c => pc'[d] = pc[d]
    BY <1>2 DEF CallConnect, CallDisconnect, ReleaseIP
  <2> QED
    BY <2>1
<1>3. ASSUME NEW c \in Callers, Address(c) PROVE MarkInUse'
  BY <1>3 DEF Address, DhcpStart, DhcpStopped, DhcpAddress, DhcpTimesOut, SetNoError
<1>4. ASSUME NEW c \in Callers, Connect(c) PROVE MarkInUse'
  <2>1. CASE OtherJoinEnds(c)
    BY <1>4, <2>1 DEF OtherJoinEnds
  <2>2. CASE BeginRefused(c)
    BY <1>4, <2>2 DEF BeginRefused
  <2>3. CASE Begin(c)
    BY <1>4, <2>3 DEF Begin
  <2>4. CASE TellDriver(c)
    BY <1>4, <2>4 DEF TellDriver
  <2>5. CASE SetJoinUserData(c)
    BY <1>4, <2>5 DEF SetJoinUserData
  <2>6. CASE JoinTimesOut(c)
    BY <1>4, <2>6 DEF JoinTimesOut
  <2>7. CASE JoinAnswered(c)
    BY <1>4, <2>7 DEF JoinAnswered
  <2>8. CASE FreeSema(c)
    BY <1>4, <2>8 DEF FreeSema
  <2>9. CASE UnsetJoinUserData(c)
    BY <1>4, <2>9 DEF UnsetJoinUserData
  <2>10. CASE Release(c)
    BY <1>4, <2>10 DEF Release
  <2>11. CASE ClearConnecting(c)
    BY <1>4, <2>11 DEF ClearConnecting
  <2> QED
    BY <1>4, <2>1, <2>2, <2>3, <2>4, <2>5, <2>6, <2>7, <2>8, <2>9, <2>10, <2>11 DEF Connect
<1>5. CASE UNCHANGED vars
  BY <1>5 DEF vars
<1> QED
  BY <1>1, <1>2, <1>3, <1>4, <1>5 DEF Next, Goes

(* A step of anything keeps the invariant.                                 *)
LEMMA NextInv == Inv /\ [Next]_vars => Inv'
  BY TypeInv, DataInUseInv, SemaInUseInv, HandlersInUseInv, MarkInUseInv DEF Inv

(* The types, and with them that join_result is allocated and freed once   *)
(* in every call.                                                          *)
THEOREM TypeCorrect == Spec => []TypeOK
<1>1. Inv => TypeOK
  BY DEF Inv
<1> QED
  BY <1>1, InitInv, NextInv, PTL DEF Spec

(* However many tasks join at once, join_user_data never leads to a        *)
(* join_result that was freed, and to a deleted semaphore only while the   *)
(* call that deleted it has not yet passed line 605.  There an event does  *)
(* give a deleted semaphore; nothing in wifi_conf.c keeps it from it.      *)
THEOREM DataAlwaysAlive == Spec => []JoinDataAlive
<1>1. ASSUME Inv PROVE JoinDataAlive
  <2>1. ASSUME join_user_data # NoOne PROVE join_user_data \in results
    BY <1>1, <2>1 DEF Inv, TypeOK, DataInUse
  <2>2. ASSUME SemaGone PROVE pc[join_user_data] = "unset"
    <3>1. join_user_data \in Callers /\ sema[join_user_data] = Deleted
      BY <1>1, <2>2 DEF Inv, TypeOK, SemaGone
    <3> QED
      BY <1>1, <3>1 DEF Inv, TypeOK, DataInUse, SemaInUse
  <2> QED
    BY <2>1, <2>2 DEF JoinDataAlive
<1> QED
  BY <1>1, InitInv, NextInv, PTL DEF Spec

(* When no call is in progress, none has left anything behind.             *)
THEOREM IdleAlwaysClean == Spec => []IdleIsClean
<1>1. Inv => IdleIsClean
  BY NoOneAssumption
     DEF Inv, TypeOK, DataInUse, HandlersInUse, HasHandlers, MarkInUse, InConnect, IdleIsClean
<1> QED
  BY <1>1, InitInv, NextInv, PTL DEF Spec

-----------------------------------------------------------------------------
(* After a call that was refused.                                          *)

(* A call neither is in wifi_connect past the mark nor about to pass it.   *)
Outside(c) == ~InConnect(c) /\ pc[c] # "begin"

(* The mark is on, and nobody is there who would take it off.              *)
Stuck == connecting /\ \A c \in Callers : Outside(c)

(* With no handlers no event touches the mark, and a call that finds it on *)
(* waits or gives up.                                                      *)
LEMMA StuckStep ==
  ASSUME Inv, Stuck, [Next]_vars
  PROVE  Stuck' /\ \A c \in Callers : pc[c] = "wait" => pc'[c] = "wait"
<1> USE DEF Stuck, Outside, InConnect, call, join, driver, net, made
<1>1. ~handlers /\ TypeOK
  BY DEF Inv, HandlersInUse, HasHandlers
<1>2. CASE Driver
  BY <1>1, <1>2 DEF Driver, NoNetwork, Connected, HandshakeDone, LinkLost, LinkLeft, DisconnHdl,
     Lease
<1>3. ASSUME NEW c \in Callers, CallConnect(c) \/ CallDisconnect(c) \/ Goes(c)
      PROVE  Stuck' /\ \A d \in Callers : pc[d] = "wait" => pc'[d] = "wait"
  <2>1. connecting /\ pc[c] # "begin" /\ ~InConnect(c)
    OBVIOUS
  <2>2. CASE CallConnect(c) \/ CallDisconnect(c)
    BY <1>1, <2>1, <2>2 DEF TypeOK, CallConnect, CallDisconnect
  <2>3. CASE Connect(c)
    BY <2>1, <2>3 DEF Connect, OtherJoinEnds, BeginRefused, Begin, TellDriver, SetJoinUserData,
       JoinTimesOut, JoinAnswered, FreeSema, UnsetJoinUserData, Release, ClearConnecting
  <2>4. CASE Address(c) \/ ReleaseIP(c)
    BY <1>1, <2>1, <2>4 DEF TypeOK, Address, DhcpStart, DhcpStopped, DhcpAddress, DhcpTimesOut,
       SetNoError, ReleaseIP
  <2> QED
    BY <1>3, <2>2, <2>3, <2>4 DEF Goes
<1>4. CASE UNCHANGED vars
  BY <1>4 DEF vars
<1> QED
  BY <1>2, <1>3, <1>4 DEF Next

(* A call that is refused (an invalid key, no memory) while no other one is *)
(* under way leaves JOIN_CONNECTING set with nobody to clear it.           *)
THEOREM RefusedAloneSticks ==
  Spec => [][\A c \in Callers :
               BeginRefused(c) /\ (\A d \in Callers \ {c} : Outside(d)) => Stuck']_vars
<1>1. ASSUME Inv, [Next]_vars
      PROVE  [\A c \in Callers :
                BeginRefused(c) /\ (\A d \in Callers \ {c} : Outside(d)) => Stuck']_vars
  BY <1>1 DEF Inv, TypeOK, BeginRefused, Outside, Stuck, InConnect
<1> QED
  BY <1>1, InitInv, NextInv, PTL DEF Spec

(* It happens only so, and it is for good: no event and no later command   *)
(* ever brings the board on a network again.                               *)
THEOREM StuckForGood == Spec => [](Stuck => refused /\ []Stuck)
<1>1. Inv /\ Stuck => refused
  BY DEF Inv, MarkInUse, Stuck, Outside
<1>2. Inv /\ Stuck /\ [Next]_vars => Stuck'
  BY StuckStep
<1> QED
  BY <1>1, <1>2, InitInv, NextInv, PTL DEF Spec

(* Whoever waits then for the other join to end waits forever: fATWC, and  *)
(* with it the console, and the driver's thread.                           *)
THEOREM WaitsForGood ==
  ASSUME NEW c \in Callers
  PROVE  Spec => [](Stuck /\ pc[c] = "wait" => [](pc[c] = "wait"))
<1>1. Inv /\ Stuck /\ pc[c] = "wait" /\ [Next]_vars => Stuck' /\ (pc[c] = "wait")'
  BY StuckStep
<1> QED
  BY <1>1, InitInv, NextInv, PTL DEF Spec
=============================================================================
