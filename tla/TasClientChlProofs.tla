--------------------------- MODULE TasClientChlProofs ---------------------------
(******************************************************************************)
(* Properties of the channel client for every server, device, channel and     *)
(* message: RequestsFit, ResetsTold, SessionAgreed, TargetsOfOneSample and    *)
(* TypeOK.                                                                    *)
(******************************************************************************)
EXTENDS TasClientChl, TasClientServerConProofs

--------------------------------------------------------------------------------
(* What packets to the client say, late ones included.                        *)

\* A device announces a length of messages; a reset is only told of in messages.
Understood(p) ==
    /\ p.cmd \in {"SESSION_START", "PING"} /\ p.full /\ p.err = "NO_ERROR" => p.v.c2d \in Nat
    /\ p.err = "DEV_RESET" => p.cmd = "CHL_MSG_D2C"

PacketInv == IsSeq(fromServer) /\ \A k \in 1..Len(fromServer) : Understood(fromServer[k])

LEMMA PacketsTaken ==
    ASSUME PacketInv, fromServer # <<>>
    PROVE  /\ Understood(Head(fromServer))
           /\ fromServer' = Tail(fromServer) => PacketInv'
<1>1. /\ IsSeq(Tail(fromServer)) /\ Len(fromServer) \in Nat /\ Len(Tail(fromServer)) = Len(fromServer) - 1
      /\ Len(fromServer) > 0 /\ Head(fromServer) = fromServer[1]
      /\ \A k \in 1..Len(Tail(fromServer)) : Tail(fromServer)[k] = fromServer[k + 1]
  BY TailAny DEF PacketInv, IsSeq
<1>2. 1 \in 1..Len(fromServer) /\ \A k \in 1..Len(Tail(fromServer)) : k + 1 \in 1..Len(fromServer)
  BY <1>1, SMT
<1> QED BY <1>1, <1>2 DEF PacketInv

LEMMA PacketsTold ==
    ASSUME PacketInv, NEW p, Understood(p), fromServer' = Append(fromServer, p)
    PROVE  PacketInv'
<1>1. /\ IsSeq(fromServer') /\ Len(fromServer) \in Nat /\ Len(fromServer') = Len(fromServer) + 1
      /\ \A k \in 1..Len(fromServer) : fromServer'[k] = fromServer[k]
      /\ fromServer'[Len(fromServer) + 1] = p
  BY AppendAny DEF PacketInv, IsSeq
<1>2. \A k \in 1..Len(fromServer') : k \in 1..Len(fromServer) \/ k = Len(fromServer) + 1
  BY <1>1, SMT
<1> QED BY <1>1, <1>2 DEF PacketInv

\* Calls, and what a client does with a packet, put none into the connection.
LEMMA PacketsKept ==
    ASSUME PacketInv, fromServer' = fromServer \/ fromServer' = <<>>
    PROVE  PacketInv'
BY ShortSeq DEF PacketInv

LEMMA PacketCall ==
    ASSUME PacketInv, Call
    PROVE  PacketInv'
<1>1. fromServer' = fromServer \/ fromServer' = <<>>
  <2> USE DEF Refuse, Execute, Send
  <2>1. CASE BaseCall
    BY <2>1 DEF BaseCall, server_connect, server_unlock, get_targets, get_target_clients,
                device_unlock_get_challenge, device_unlock_set_key, BeginQuery, WithoutPacket
  <2>2. CASE session_start
    BY <2>2 DEF session_start, WithoutChannel, mSessionStart
  <2>3. CASE device_connect
    BY <2>3 DEF device_connect, WithoutChannel, mDeviceConnect, BeginQuery
  <2>4. CASE target_ping
    BY <2>4 DEF target_ping, WithoutChannel, PingBegun
  <2>5. CASE device_reset_occurred
    BY <2>5 DEF device_reset_occurred
  <2>6. CASE subscribe \/ unsubscribe
    BY <2>6 DEF subscribe, unsubscribe
  <2>7. CASE send_msg
    BY <2>7 DEF send_msg, Disconnect
  <2>8. CASE rcv_msg
    BY <2>8 DEF rcv_msg
  <2> QED BY <2>1, <2>2, <2>3, <2>4, <2>5, <2>6, <2>7, <2>8 DEF Call
<1> QED BY <1>1, PacketsKept

LEMMA PacketStep ==
    ASSUME PacketInv, Step \/ TimePasses
    PROVE  PacketInv'
<1> USE DEF Received, Take
<1>1. CASE BaseStep
  BY <1>1, PacketsTaken DEF BaseStep, ServerConnected, KeySet, set_pkt_rsp_get_targets, set_pkt_rsp_get_target_clients
<1>2. CASE ChlSessionStarted \/ ChlDeviceConnected \/ Pinged
  BY <1>2, PacketsTaken DEF ChlSessionStarted, SessionStarted, ChlDeviceConnected, DeviceConnected, Pinged
<1>3. CASE GivenUp
  BY <1>3, PacketsKept DEF GivenUp, Timeout, Lost, Overrun, Disconnect
<1>4. CASE Subscribed \/ MsgReceived
  BY <1>4, PacketsTaken DEF Subscribed, MsgReceived
<1>5. CASE Unsubscribed \/ Discarded
  BY <1>5, PacketsTaken DEF Unsubscribed, Discarded
<1>6. CASE TimePasses
  BY <1>6, PacketsKept DEF TimePasses, baseVars
<1> QED BY <1>1, <1>2, <1>3, <1>4, <1>5, <1>6 DEF Step

LEMMA PacketEnvironment ==
    ASSUME PacketInv, Environment
    PROVE  PacketInv'
<1> DEFINE rq == Head(toServer)
<1>1. CASE ServerSendsTargets
  <2>1. \E v : fromServer' = Append(fromServer, Answer(rq.cmd, rq.call, "NO_ERROR", v))
    BY <1>1 DEF ServerSendsTargets, Push
  <2> QED BY <1>1, <2>1, PacketsTold DEF ServerSendsTargets, Pending, Answer, Understood
<1>2. CASE ServerSendsClients
  <2>1. \E v : fromServer' = Append(fromServer, Answer(rq.cmd, rq.call, "NO_ERROR", v))
    BY <1>2 DEF ServerSendsClients, Push
  <2> QED BY <1>2, <2>1, PacketsTold DEF ServerSendsClients, Pending, Answer, Understood
<1>3. CASE ServerSendsConInfo
  <2>1. \E info \in ConInfos : fromServer' = Append(fromServer, Answer(rq.cmd, rq.call, "NO_ERROR", info))
    BY <1>3 DEF ServerSendsConInfo, Push
  <2> QED BY <2>1, PacketsTold, ChlAssumption DEF Answer, Understood
<1>4. CASE ServerSendsOk
  <2>1. \E v : fromServer' = Append(fromServer, Answer(rq.cmd, rq.call, "NO_ERROR", v))
    BY <1>4 DEF ServerSendsOk, Push
  <2> QED BY <1>4, <2>1, PacketsTold DEF ServerSendsOk, Pending, Answer, Understood
<1>5. CASE ServerSendsError
  <2>1. PICK e \in Errs(rq) : fromServer' = Append(fromServer,
            IF e.full THEN Answer(rq.cmd, rq.call, e.err, e.v) ELSE HeaderOnly(rq.cmd, rq.call, e.err))
    BY <1>5 DEF ServerSendsError, Push
  <2>2. e.err # "NO_ERROR" /\ e.err # "DEV_RESET"
    BY ErrorAssumption, ChlAssumption DEF Errs
  <2> QED BY <2>1, <2>2, PacketsTold DEF Answer, HeaderOnly, Understood
<1>6. CASE ServerSubscribes
  <2>1. \E err \in {"NO_ERROR", "CMD_FAILED"} : \E v : fromServer' = Append(fromServer, Answer(rq.cmd, rq.call, err, v))
    BY <1>6 DEF ServerSubscribes, Push
  <2> QED BY <1>6, <2>1, PacketsTold DEF ServerSubscribes, Pending, Answer, Understood
<1>7. CASE ServerUnsubscribes
  BY <1>7, PacketsTold DEF ServerUnsubscribes, Push, Answer, Understood
<1>8. CASE ServerTakesMsg
  BY <1>8, PacketsKept DEF ServerTakesMsg
<1>9. CASE DeviceSends
  <2>1. \E err, v : fromServer' = Append(fromServer, Answer("CHL_MSG_D2C", 0, err, v))
    BY <1>9 DEF DeviceSends, Push
  <2> QED BY <2>1, PacketsTold DEF Answer, Understood
<1>10. CASE ServerTellsReset
  BY <1>10, PacketsTold DEF ServerTellsReset, Push, Answer, Understood
<1>11. CASE ChlServerCloses
  BY <1>11, PacketsKept DEF ChlServerCloses, ServerCloses
<1> QED BY <1>1, <1>2, <1>3, <1>4, <1>5, <1>6, <1>7, <1>8, <1>9, <1>10, <1>11 DEF Environment, Server

--------------------------------------------------------------------------------
(* Requests and their buffers.                                                *)

AllFit(rqs) == IsSeq(rqs) /\ \A k \in 1..Len(rqs) : RqFits(rqs[k])

\* Why a message fits: a length is only sent that a device has announced in a packet
\* that ValidConInfo() let through.
FitInv ==
    /\ PacketInv /\ AllFit(toServer)
    /\ chlConInfo.c2d \in Nat /\ chlConInfo.c2d <= TAS_PL1_CHL_MAX_MSG_SIZE
    /\ pc = "smashed" => arg.bytes >= 65536

LEMMA FitSizes ==
    /\ RqFits(get_pkt_rq_server_connect) /\ RqFits(get_pkt_rq_session_start) /\ RqFits(get_pkt_rq_ping)
    /\ RqFits(get_pkt_rq_device_connect) /\ RqFits(get_pkt_rq_device_unlock_set_key(TAS_UNLOCK_MAX_KEY_LEN))
    /\ \A n : RqFits(get_pkt_rq_get_targets(n)) /\ RqFits(get_pkt_rq_get_target_clients(n))
    /\ \A v : RqFits(get_pkt_rq_subscribe(v)) /\ RqFits(get_pkt_rq_unsubscribe(v))
    /\ \A chl, length : \A n \in Nat : n <= TAS_PL1_CHL_MAX_MSG_SIZE =>
            RqFits(get_pkt_send_msg([chl |-> chl, length |-> length, bytes |-> n]))
<1> USE DEF RqFits, RqSizeOf, Request, PL2, PL1, mMaxRqSize, mMaxRqSizeChl, MAX_PKT_RQ_SIZE,
            TAS_PL1_CHL_MAX_MSG_SIZE
<1>1. RqFits(get_pkt_rq_server_connect) /\ RqFits(get_pkt_rq_session_start)
  BY DEF get_pkt_rq_server_connect, get_pkt_rq_session_start, tas_pl1rq_server_connect_st,
         tas_pl1rq_session_start_st, Name64, Name32, Name16
<1>2. RqFits(get_pkt_rq_ping) /\ RqFits(get_pkt_rq_device_connect)
  BY DEF get_pkt_rq_ping, get_pkt_rq_device_connect, tas_pl1rq_ping_st, tas_pl1rq_device_connect_st
<1>3. RqFits(get_pkt_rq_device_unlock_set_key(TAS_UNLOCK_MAX_KEY_LEN))
  BY DEF get_pkt_rq_device_unlock_set_key, tas_pl1rq_set_device_key_st, TAS_UNLOCK_MAX_KEY_LEN
<1>4. \A n : RqFits(get_pkt_rq_get_targets(n)) /\ RqFits(get_pkt_rq_get_target_clients(n))
  BY DEF get_pkt_rq_get_targets, get_pkt_rq_get_target_clients, tas_pl1rq_get_targets_st,
         tas_pl1rq_get_clients_st, Name64
<1>5. \A v : RqFits(get_pkt_rq_subscribe(v)) /\ RqFits(get_pkt_rq_unsubscribe(v))
  BY DEF get_pkt_rq_subscribe, get_pkt_rq_unsubscribe, tas_pl1rq_chl_subscribe_st, tas_pl1rq_chl_unsubscribe_st
<1>6. \A chl, length : \A n \in Nat : n <= TAS_PL1_CHL_MAX_MSG_SIZE =>
            RqFits(get_pkt_send_msg([chl |-> chl, length |-> length, bytes |-> n]))
  BY DEF get_pkt_send_msg, tas_pl1rq_chl_msg_c2d_st
<1> QED BY <1>1, <1>2, <1>3, <1>4, <1>5, <1>6

\* The call a request is given when it is sent takes no room.
LEMMA FitCalled ==
    ASSUME NEW cmd, NEW v, NEW id, RqFits(Request(cmd, v))
    PROVE  RqFits([Request(cmd, v) EXCEPT !.call = id])
<1>1. [Request(cmd, v) EXCEPT !.call = id] = [cmd |-> cmd, call |-> id, v |-> v]
  BY DEF Request
<1> QED BY <1>1 DEF RqFits, RqSizeOf, Request

LEMMA FitSent ==
    ASSUME AllFit(toServer), NEW cmd, NEW v, NEW id, RqFits(Request(cmd, v))
    PROVE  AllFit(Sent(id, Request(cmd, v)))
<1> DEFINE rq == [Request(cmd, v) EXCEPT !.call = id]
<1>1. RqFits(rq)
  BY FitCalled
<1>2. Sent(id, Request(cmd, v)) = Append(toServer, rq) \/ Sent(id, Request(cmd, v)) = toServer
  BY DEF Sent
<1> HIDE DEF rq
<1>3. /\ IsSeq(Append(toServer, rq)) /\ Len(toServer) \in Nat /\ Len(Append(toServer, rq)) = Len(toServer) + 1
      /\ \A k \in 1..Len(toServer) : Append(toServer, rq)[k] = toServer[k]
      /\ Append(toServer, rq)[Len(toServer) + 1] = rq
  BY AppendAny DEF AllFit, IsSeq
<1>4. \A k \in 1..Len(Append(toServer, rq)) : k \in 1..Len(toServer) \/ k = Len(toServer) + 1
  BY <1>3, SMT
<1>5. AllFit(Append(toServer, rq))
  BY <1>1, <1>3, <1>4 DEF AllFit
<1> QED BY <1>2, <1>5

LEMMA FitTaken ==
    ASSUME AllFit(toServer), toServer # <<>>
    PROVE  AllFit(Tail(toServer))
<1>1. /\ IsSeq(Tail(toServer)) /\ Len(toServer) \in Nat /\ Len(Tail(toServer)) = Len(toServer) - 1
      /\ \A k \in 1..Len(Tail(toServer)) : Tail(toServer)[k] = toServer[k + 1]
  BY TailAny DEF AllFit, IsSeq
<1>2. \A k \in 1..Len(Tail(toServer)) : k + 1 \in 1..Len(toServer)
  BY <1>1, SMT
<1> QED BY <1>1, <1>2 DEF AllFit

LEMMA FitNone == AllFit(<<>>)
BY ShortSeq DEF AllFit

\* A request is made and sent, or the call is refused.
LEMMA FitExecute ==
    ASSUME AllFit(toServer), NEW cmd, NEW v, RqFits(Request(cmd, v)), NEW name, NEW a, NEW err,
           Refuse(name, a, err) \/ Execute(name, a, Request(cmd, v))
    PROVE  AllFit(toServer')
<1>1. CASE Refuse(name, a, err)
  BY <1>1 DEF Refuse
<1>2. CASE Execute(name, a, Request(cmd, v))
  BY <1>2, FitSent DEF Execute, Send
<1> QED BY <1>1, <1>2

LEMMA FitCall ==
    ASSUME FitInv, Call
    PROVE  AllFit(toServer')
<1>0. AllFit(toServer)
  BY DEF FitInv
<1>1. CASE server_connect
  <2> DEFINE rq == [get_pkt_rq_server_connect EXCEPT !.call = call + 1]
  <2>1. toServer' = toServer \/ toServer' = <<>> \/ toServer' = <<rq>>
    BY <1>1 DEF server_connect, Refuse
  <2>2. RqFits(rq)
    BY FitSizes, FitCalled DEF get_pkt_rq_server_connect
  <2> HIDE DEF rq
  <2>3. AllFit(<<rq>>)
    <3>1. IsSeq(<<rq>>) /\ Len(<<rq>>) = 1 /\ <<rq>>[1] = rq
      BY ShortSeq
    <3>2. \A k \in 1..1 : k = 1
      OBVIOUS
    <3> QED BY <2>2, <3>1, <3>2 DEF AllFit
  <2> QED BY <1>0, <2>1, <2>3, FitNone
<1>2. CASE server_unlock \/ device_unlock_get_challenge
  BY <1>0, <1>2 DEF server_unlock, device_unlock_get_challenge, WithoutPacket, Refuse
<1>3. CASE get_targets
  BY <1>0, <1>3, FitSizes, FitExecute DEF get_targets, BeginQuery, get_pkt_rq_get_targets
<1>4. CASE get_target_clients
  BY <1>0, <1>4, FitSizes, FitExecute DEF get_target_clients, BeginQuery, get_pkt_rq_get_target_clients
<1>5. CASE device_unlock_set_key
  BY <1>0, <1>5, FitSizes, FitExecute DEF device_unlock_set_key, BeginQuery, get_pkt_rq_device_unlock_set_key
<1>6. CASE session_start
  BY <1>0, <1>6, FitSizes, FitExecute DEF session_start, WithoutChannel, mSessionStart, get_pkt_rq_session_start
<1>7. CASE device_connect
  BY <1>0, <1>7, FitSizes, FitExecute DEF device_connect, WithoutChannel, mDeviceConnect, BeginQuery,
                                          get_pkt_rq_device_connect
<1>8. CASE target_ping
  BY <1>0, <1>8, FitSizes, FitExecute DEF target_ping, WithoutChannel, PingBegun, get_pkt_rq_ping
<1>9. CASE device_reset_occurred \/ rcv_msg
  BY <1>0, <1>9 DEF device_reset_occurred, rcv_msg, Refuse
<1>10. CASE subscribe
  <2>1. PICK v : \/ \E err : Refuse("subscribe", NoArg, err)
                 \/ Execute("subscribe", v, get_pkt_rq_subscribe(v))
    BY <1>10 DEF subscribe
  <2>2. RqFits(get_pkt_rq_subscribe(v))
    BY FitSizes
  <2> QED BY <1>0, <2>1, <2>2, FitExecute DEF get_pkt_rq_subscribe
<1>11. CASE unsubscribe
  <2>1. toServer' = toServer \/ toServer' = Sent(call + 1, get_pkt_rq_unsubscribe(mChlNum))
    BY <1>11 DEF unsubscribe, Refuse, Send
  <2>2. RqFits(get_pkt_rq_unsubscribe(mChlNum))
    BY FitSizes
  <2> QED BY <1>0, <2>1, <2>2, FitSent DEF get_pkt_rq_unsubscribe
<1>12. CASE send_msg
  <2>1. PICK v : \/ toServer' = toServer \/ toServer' = <<>>
                 \/ /\ RqSizeOf(get_pkt_send_msg(v)) <= mMaxRqSizeChl
                    /\ toServer' = Sent(call + 1, get_pkt_send_msg(v))
    BY <1>12 DEF send_msg, Refuse, Disconnect
  <2>2. RqSizeOf(get_pkt_send_msg(v)) <= mMaxRqSizeChl => RqFits(get_pkt_send_msg(v))
    BY DEF RqFits, get_pkt_send_msg, Request
  <2> QED BY <1>0, <2>1, <2>2, FitNone, FitSent DEF get_pkt_send_msg
<1> QED BY <1>1, <1>2, <1>3, <1>4, <1>5, <1>6, <1>7, <1>8, <1>9, <1>10, <1>11, <1>12 DEF Call, BaseCall

LEMMA FitOther ==
    ASSUME FitInv, Step \/ TimePasses \/ Environment
    PROVE  AllFit(toServer')
<1>0. AllFit(toServer)
  BY DEF FitInv
<1>1. CASE BaseStep
  <2>1. \/ toServer' = toServer
        \/ \E n : toServer' = Sent(call, get_pkt_rq_get_targets(n))
    BY <1>1 DEF BaseStep, ServerConnected, KeySet, set_pkt_rsp_get_targets, set_pkt_rsp_get_target_clients
  <2> QED BY <1>0, <2>1, FitSizes, FitSent DEF get_pkt_rq_get_targets
<1>2. CASE GivenUp
  BY <1>0, <1>2, FitNone DEF GivenUp, Timeout, Lost, Overrun, Disconnect
<1>3. CASE ChlSessionStarted \/ ChlDeviceConnected \/ Pinged
  BY <1>0, <1>3 DEF ChlSessionStarted, SessionStarted, ChlDeviceConnected, DeviceConnected, Pinged
<1>4. CASE Subscribed \/ Unsubscribed \/ Discarded \/ MsgReceived
  BY <1>0, <1>4 DEF Subscribed, Unsubscribed, Discarded, MsgReceived
<1>5. CASE TimePasses
  BY <1>0, <1>5 DEF TimePasses, baseVars
<1>6. CASE Server \/ ServerSubscribes \/ ServerUnsubscribes \/ ServerTakesMsg
  <2>1. toServer # <<>> /\ toServer' = Tail(toServer)
    BY <1>6 DEF Server, ServerSendsTargets, ServerSendsClients, ServerSendsConInfo, ServerSendsOk, ServerSendsError,
                ServerSubscribes, ServerUnsubscribes, ServerTakesMsg, Pending, Answered
  <2> QED BY <1>0, <2>1, FitTaken
<1>7. CASE DeviceSends \/ ServerTellsReset \/ ChlServerCloses
  BY <1>0, <1>7, FitNone DEF DeviceSends, ServerTellsReset, ChlServerCloses, ServerCloses
<1> QED BY <1>1, <1>2, <1>3, <1>4, <1>5, <1>6, <1>7 DEF Step, Environment

\* The limit of messages changes with a ping and the start of a session only.
LEMMA LimitStep ==
    ASSUME FitInv, Next
    PROVE  chlConInfo'.c2d \in Nat /\ chlConInfo'.c2d <= TAS_PL1_CHL_MAX_MSG_SIZE
<1> DEFINE p == Head(fromServer)
           Ok(info) == info.c2d \in Nat /\ info.c2d <= TAS_PL1_CHL_MAX_MSG_SIZE
<1>1. Ok(chlConInfo) /\ Ok(NoConInfo)
  BY DEF FitInv, NoConInfo, TAS_PL1_CHL_MAX_MSG_SIZE
<1>2. ASSUME fromServer # <<>>, NEW cmd \in {"SESSION_START", "PING"}, set_pkt_rsp_ping(p, cmd, TRUE) = "NONE"
      PROVE  Ok(p.v)
  <2>1. p.cmd = cmd /\ p.full /\ p.err = "NO_ERROR" /\ ValidConInfo(p.v)
    BY <1>2 DEF set_pkt_rsp_ping, mHandlePktError
  <2>2. Understood(p)
    BY <1>2, PacketsTaken DEF FitInv
  <2> QED BY <2>1, <2>2 DEF Understood, ValidConInfo
<1> HIDE DEF Ok
<1>3. CASE ChlSessionStarted
  <2>1. \/ chlConInfo' = chlConInfo
        \/ /\ fromServer # <<>> /\ set_pkt_rsp_ping(p, "SESSION_START", TRUE) = "NONE"
           /\ chlConInfo' = ConInfoAfterPing(p, "SESSION_START", TRUE)
    BY <1>3 DEF ChlSessionStarted, SessionStarted, Received
  <2>2. Ok(chlConInfo')
    BY <1>1, <1>2, <2>1 DEF ConInfoAfterPing
  <2> QED BY <2>2 DEF Ok
<1>4. CASE Pinged
  <2>1. fromServer # <<>> /\ chlConInfo' = ConInfoAfterPing(p, "PING", TRUE)
    BY <1>4 DEF Pinged, Received
  <2>2. Ok(chlConInfo')
    BY <1>1, <1>2, <2>1 DEF ConInfoAfterPing
  <2> QED BY <2>2 DEF Ok
<1>5. CASE chlConInfo' = chlConInfo
  BY <1>1, <1>5 DEF Ok
<1>6. CASE Call
  <2>1. chlConInfo' = chlConInfo
    BY <1>6 DEF Call, session_start, device_connect, target_ping, device_reset_occurred, subscribe,
                unsubscribe, send_msg, rcv_msg, chlVars
  <2> QED BY <1>5, <2>1
<1>7. CASE (BaseStep /\ UNCHANGED chlVars) \/ ChlDeviceConnected \/ GivenUp
  <2>1. chlConInfo' = chlConInfo
    BY <1>7 DEF ChlDeviceConnected, GivenUp, chlVars
  <2> QED BY <1>5, <2>1
<1>8. CASE Subscribed \/ Unsubscribed \/ Discarded \/ MsgReceived \/ TimePasses
  <2>1. chlConInfo' = chlConInfo
    BY <1>8 DEF Subscribed, Unsubscribed, Discarded, MsgReceived, TimePasses, chlVars
  <2> QED BY <1>5, <2>1
<1>9. CASE Environment
  <2>1. chlConInfo' = chlConInfo
    BY <1>9 DEF Environment, ServerSubscribes, ServerUnsubscribes, ServerTakesMsg, DeviceSends,
                ServerTellsReset, ChlServerCloses, chlVars
  <2> QED BY <1>5, <2>1
<1> QED BY <1>3, <1>4, <1>6, <1>7, <1>8, <1>9 DEF Next, Step

\* A message runs over the buffer only if 16 bits do not hold its length: otherwise
\* what is compared with the limit is what is copied.
LEMMA SmashedLong ==
    ASSUME FitInv, Next, pc' = "smashed"
    PROVE  arg'.bytes >= 65536
<1>1. CASE send_msg
  <2>1. PICK length \in MsgLengths, init \in Inits :
            LET bytes == length + (IF init THEN 4 ELSE 0)
                msgLength == bytes % 65536
                v == [chl |-> mChlNum, length |-> msgLength, bytes |-> bytes]
            IN  msgLength <= chlConInfo.c2d /\ arg' = v /\ RqSizeOf(get_pkt_send_msg(v)) > mMaxRqSizeChl
    BY <1>1 DEF send_msg, Refuse, Called, Return
  <2> DEFINE bytes == length + (IF init THEN 4 ELSE 0)
             v == [chl |-> mChlNum, length |-> bytes % 65536, bytes |-> bytes]
  <2>2. bytes \in Nat
    BY ChlAssumption
  <2>3. arg'.bytes = bytes /\ bytes % 65536 <= chlConInfo.c2d /\ RqSizeOf(get_pkt_send_msg(v)) > mMaxRqSizeChl
    BY <2>1
  <2>4. RqSizeOf(get_pkt_send_msg(v)) = PL2 + (tas_pl1rq_chl_msg_c2d_st + bytes)
    BY DEF RqSizeOf, get_pkt_send_msg, Request
  <2> HIDE DEF bytes, v
  <2>5. bytes > TAS_PL1_CHL_MAX_MSG_SIZE
    BY <2>2, <2>3, <2>4 DEF PL2, tas_pl1rq_chl_msg_c2d_st, PL1, mMaxRqSizeChl, TAS_PL1_CHL_MAX_MSG_SIZE
  <2>6. bytes % 65536 <= TAS_PL1_CHL_MAX_MSG_SIZE
    <3> DEFINE m == bytes % 65536
               c == chlConInfo.c2d
    <3>1. m \in Nat /\ c \in Nat /\ m <= c /\ c <= TAS_PL1_CHL_MAX_MSG_SIZE
      BY <2>2, <2>3 DEF FitInv
    <3> HIDE DEF m, c
    <3>2. m <= TAS_PL1_CHL_MAX_MSG_SIZE
      BY <3>1 DEF TAS_PL1_CHL_MAX_MSG_SIZE
    <3> QED BY <3>2 DEF m
  <2>7. bytes < 65536 => bytes % 65536 = bytes
    BY <2>2, SMT
  <2>8. bytes >= 65536
    BY <2>2, <2>5, <2>6, <2>7 DEF TAS_PL1_CHL_MAX_MSG_SIZE
  <2> QED BY <2>3, <2>8
<1>2. CASE Call /\ ~send_msg
  <2> USE DEF Refuse, Execute, Called, Send, Return
  <2>1. pc' \in {"idle", "wait", "null"}
    <3>1. CASE BaseCall
      BY <3>1 DEF BaseCall, server_connect, server_unlock, get_targets, get_target_clients,
                  device_unlock_get_challenge, device_unlock_set_key, BeginQuery, WithoutPacket, mHandleErrorServerConnect
    <3>2. CASE session_start \/ device_connect \/ target_ping
      BY <3>2 DEF session_start, mSessionStart, device_connect, mDeviceConnect, BeginQuery, target_ping,
                  WithoutChannel, PingBegun
    <3>3. CASE device_reset_occurred \/ subscribe \/ unsubscribe \/ rcv_msg
      BY <3>3 DEF device_reset_occurred, subscribe, unsubscribe, rcv_msg
    <3> QED BY <1>2, <3>1, <3>2, <3>3 DEF Call
  <2> QED BY <2>1
<1>3. CASE Step
  <2> USE DEF Return
  <2>1. pc' \in {"idle", "overrun"} \/ (pc' = pc /\ pc = "wait")
    BY <1>3 DEF Step, BaseStep, ServerConnected, KeySet, set_pkt_rsp_get_targets, set_pkt_rsp_get_target_clients,
                ChlSessionStarted, SessionStarted, ChlDeviceConnected, DeviceConnected, Pinged, GivenUp, Timeout, Lost,
                Overrun, Subscribed, Unsubscribed, Discarded, MsgReceived, Received
  <2> QED BY <2>1
<1>4. CASE TimePasses \/ Environment
  <2>1. UNCHANGED <<pc, arg>>
    BY <1>4 DEF TimePasses, baseVars, Environment, Server, ServerSendsTargets, ServerSendsClients, ServerSendsConInfo,
                ServerSendsOk, ServerSendsError, ServerSubscribes, ServerUnsubscribes, ServerTakesMsg, Answered,
                DeviceSends, ServerTellsReset, ChlServerCloses, ServerCloses
  <2> QED BY <2>1 DEF FitInv
<1> QED BY <1>1, <1>2, <1>3, <1>4 DEF Next

\* Whatever devices announce: no request overruns the buffer it is written into, and no
\* message either unless its length with the init word needs more than 16 bits, although
\* send_msg() compares the length with the limit that a device has announced, not with
\* the buffer.
THEOREM RequestsCorrect == Spec => []RequestsFit
<1>1. Init => FitInv
  <2> SUFFICES ASSUME Init PROVE FitInv
    OBVIOUS
  <2>1. toServer = <<>> /\ fromServer = <<>> /\ chlConInfo = NoConInfo /\ pc # "smashed"
    BY DEF Init, BaseInit
  <2>2. PacketInv
    BY <2>1, ShortSeq DEF PacketInv
  <2>3. chlConInfo.c2d \in Nat /\ chlConInfo.c2d <= TAS_PL1_CHL_MAX_MSG_SIZE
    BY <2>1 DEF NoConInfo, TAS_PL1_CHL_MAX_MSG_SIZE
  <2> QED BY <2>1, <2>2, <2>3, FitNone DEF FitInv
<1>2. FitInv /\ [Next]_vars => FitInv'
  <2> SUFFICES ASSUME FitInv, [Next]_vars PROVE FitInv'
    OBVIOUS
  <2>1. CASE Next
    <3>1. PacketInv'
      BY <2>1, PacketCall, PacketStep, PacketEnvironment DEF Next, FitInv
    <3>2. AllFit(toServer')
      BY <2>1, FitCall, FitOther DEF Next
    <3>3. chlConInfo'.c2d \in Nat /\ chlConInfo'.c2d <= TAS_PL1_CHL_MAX_MSG_SIZE
      BY <2>1, LimitStep
    <3>4. pc' = "smashed" => arg'.bytes >= 65536
      BY <2>1, SmashedLong
    <3> QED BY <3>1, <3>2, <3>3, <3>4 DEF FitInv
  <2>2. CASE UNCHANGED vars
    BY <2>2 DEF FitInv, PacketInv, vars, baseVars, chlVars
  <2> QED BY <2>1, <2>2
<1>3. FitInv => RequestsFit
  <2> SUFFICES ASSUME FitInv PROVE RequestsFit
    OBVIOUS
  <2>1. DOMAIN toServer = 1..Len(toServer)
    BY DEF FitInv, AllFit, IsSeq
  <2> QED BY <2>1 DEF FitInv, AllFit, RequestsFit
<1> QED BY <1>1, <1>2, <1>3, PTL DEF Spec

--------------------------------------------------------------------------------
(* Resets of the device.                                                      *)

\* What device_reset_occurred() compares is what it has not told of.
Compared ==
    /\ PacketInv
    /\ call \in Nat /\ resetCount \in Nat /\ untold \in BOOLEAN
    /\ mDeviceResetCount # NoCount =>
        mDeviceResetCount \in Nat /\ mDeviceResetCount <= resetCount /\ untold = (resetCount > mDeviceResetCount)

LEMMA CallCounts ==
    ASSUME call \in Nat, Next
    PROVE  /\ call' \in Nat
           /\ call' = call \/ (Call /\ call' = call + 1)
<1>1. CASE Call
  <2>1. call' = call + 1
    <3> USE DEF Refuse, Execute, Called
    <3>1. CASE BaseCall
      BY <3>1 DEF BaseCall, server_connect, server_unlock, get_targets, get_target_clients,
                  device_unlock_get_challenge, device_unlock_set_key, BeginQuery, WithoutPacket
    <3>2. CASE session_start \/ device_connect \/ target_ping
      BY <3>2 DEF session_start, mSessionStart, device_connect, mDeviceConnect, BeginQuery, target_ping,
                  WithoutChannel, PingBegun
    <3>3. CASE device_reset_occurred \/ subscribe \/ unsubscribe
      BY <3>3 DEF device_reset_occurred, subscribe, unsubscribe
    <3>4. CASE send_msg
      <4>1. \E name, v : Called(name, v)
        BY <3>4 DEF send_msg
      <4> QED BY <4>1
    <3>5. CASE rcv_msg
      BY <3>5 DEF rcv_msg
    <3> QED BY <1>1, <3>1, <3>2, <3>3, <3>4, <3>5 DEF Call
  <2> QED BY <1>1, <2>1, SMT
<1>2. CASE Step
  <2>1. CASE BaseStep
    BY <2>1 DEF BaseStep, ServerConnected, KeySet, set_pkt_rsp_get_targets, set_pkt_rsp_get_target_clients, Take
  <2>2. CASE ChlSessionStarted \/ ChlDeviceConnected \/ Pinged
    BY <2>2 DEF ChlSessionStarted, SessionStarted, ChlDeviceConnected, DeviceConnected, Pinged, Take
  <2>3. CASE GivenUp
    BY <2>3 DEF GivenUp, Timeout, Lost, Overrun, Failed
  <2>4. CASE Subscribed \/ Unsubscribed \/ Discarded \/ MsgReceived
    BY <2>4 DEF Subscribed, Unsubscribed, Discarded, MsgReceived, Take
  <2> QED BY <1>2, <2>1, <2>2, <2>3, <2>4 DEF Step
<1>3. CASE TimePasses
  BY <1>3 DEF TimePasses, baseVars
<1>4. CASE Environment
  <2>1. call' = call
    BY <1>4 DEF Environment, Server, ServerSendsTargets, ServerSendsClients, ServerSendsConInfo, ServerSendsOk,
                ServerSendsError, Answered, ChlServerCloses, ServerCloses, ServerSubscribes, ServerUnsubscribes,
                ServerTakesMsg, DeviceSends, ServerTellsReset
  <2> QED BY <2>1
<1> QED BY <1>1, <1>2, <1>3, <1>4 DEF Next

LEMMA ComparedStep ==
    ASSUME Compared, Next
    PROVE  Compared'
<1>1. call' \in Nat /\ PacketInv'
  BY CallCounts, PacketCall, PacketStep, PacketEnvironment DEF Compared, Next
<1>2. CASE UNCHANGED <<resetCount, mDeviceResetCount, untold>>
  BY <1>1, <1>2 DEF Compared
<1>3. CASE resetCount' = resetCount /\ mDeviceResetCount' = resetCount /\ untold' = FALSE
  <2>1. resetCount <= resetCount /\ ~(resetCount > resetCount)
    BY DEF Compared
  <2>2. (resetCount > resetCount) = FALSE
    BY <2>1
  <2>3. untold' = (resetCount' > mDeviceResetCount')
    BY <1>3, <2>2
  <2>4. mDeviceResetCount' \in Nat /\ mDeviceResetCount' <= resetCount' /\ resetCount' \in Nat
    BY <1>3, <2>1 DEF Compared
  <2>5. untold' \in BOOLEAN
    BY <1>3
  <2> QED BY <1>1, <2>3, <2>4, <2>5, Zenon DEF Compared
<1>4. CASE MsgReceived
  <2> DEFINE p == Head(fromServer)
  <2>1. fromServer # <<>> /\ mDeviceResetCount' = mDeviceResetCount
    BY <1>4 DEF MsgReceived, Received, stateVars
  <2>2. p.err = "DEV_RESET" => CountsReset(p)
    BY <2>1, PacketsTaken DEF Compared, Understood, CountsReset
  <2>3. resetCount \in Nat /\ resetCount + 0 = resetCount /\ resetCount + 1 \in Nat
    BY SMT DEF Compared
  <2>4. CASE CountsReset(p)
    <3>1. resetCount' = resetCount + 1 /\ untold' = TRUE
      BY <1>4, <2>4 DEF MsgReceived, CountsReset
    <3>2. ASSUME mDeviceResetCount # NoCount
          PROVE  /\ mDeviceResetCount \in Nat /\ mDeviceResetCount <= resetCount + 1
                 /\ resetCount + 1 > mDeviceResetCount
      BY <3>2, SMT DEF Compared
    <3> QED BY <1>1, <2>1, <2>3, <3>1, <3>2, Zenon DEF Compared
  <2>5. CASE ~CountsReset(p)
    <3>1. resetCount' = resetCount + 0
      BY <1>4, <2>5 DEF MsgReceived
    <3>2. untold' = (untold \/ p.err = "DEV_RESET")
      BY <1>4 DEF MsgReceived
    <3>3. untold' = untold
      BY <2>2, <2>5, <3>2, Zenon DEF Compared
    <3> QED BY <1>2, <2>1, <2>3, <3>1, <3>3
  <2> QED BY <2>4, <2>5
<1>5. CASE session_start
  <2>1. /\ UNCHANGED <<resetCount, untold>>
        /\ mDeviceResetCount' = mDeviceResetCount \/ mDeviceResetCount' = NoCount
    BY <1>5 DEF session_start, WithoutChannel, mSessionStart, chlVars, stateVars
  <2> QED BY <1>1, <2>1 DEF Compared
<1>6. CASE device_reset_occurred
  <2>1. /\ resetCount' = resetCount
        /\ \/ UNCHANGED <<mDeviceResetCount, untold>>
           \/ mDeviceResetCount' = resetCount /\ untold' = FALSE
    BY <1>6 DEF device_reset_occurred
  <2> QED BY <1>2, <1>3, <2>1
<1>7. CASE ChlDeviceConnected \/ GivenUp
  <2>1. /\ resetCount' = resetCount
        /\ \/ UNCHANGED <<mDeviceResetCount, untold>>
           \/ mDeviceResetCount' = resetCount /\ untold' = FALSE
    BY <1>7 DEF ChlDeviceConnected, GivenUp, TakesCount
  <2> QED BY <1>2, <1>3, <2>1
<1>8. CASE ChlSessionStarted \/ Pinged \/ (BaseStep /\ UNCHANGED chlVars)
  <2>1. UNCHANGED <<resetCount, mDeviceResetCount, untold>>
    BY <1>8 DEF ChlSessionStarted, SessionStarted, Pinged, Counted, BaseStep, ServerConnected, KeySet,
                set_pkt_rsp_get_targets, set_pkt_rsp_get_target_clients, chlVars, stateVars
  <2> QED BY <1>2, <2>1
<1>9. CASE Subscribed \/ Unsubscribed \/ Discarded \/ TimePasses
  <2>1. UNCHANGED <<resetCount, mDeviceResetCount, untold>>
    BY <1>9 DEF Subscribed, Unsubscribed, Discarded, TimePasses, Counted, chlVars, stateVars, baseVars
  <2> QED BY <1>2, <2>1
<1>10. CASE BaseCall /\ UNCHANGED chlVars
  <2>1. UNCHANGED <<resetCount, mDeviceResetCount, untold>>
    BY <1>10 DEF BaseCall, server_connect, server_unlock, get_targets, get_target_clients,
                 device_unlock_get_challenge, device_unlock_set_key, BeginQuery, WithoutPacket, chlVars, stateVars
  <2> QED BY <1>2, <2>1
<1>11. CASE device_connect \/ target_ping
  <2>1. UNCHANGED <<resetCount, mDeviceResetCount, untold>>
    BY <1>11 DEF device_connect, mDeviceConnect, BeginQuery, target_ping, WithoutChannel, PingBegun,
                 chlVars, stateVars
  <2> QED BY <1>2, <2>1
<1>12. CASE subscribe \/ unsubscribe \/ send_msg \/ rcv_msg
  <2>1. UNCHANGED <<resetCount, mDeviceResetCount, untold>>
    BY <1>12 DEF subscribe, unsubscribe, send_msg, rcv_msg, Counted, stateVars
  <2> QED BY <1>2, <2>1
<1>13. CASE Environment
  <2>1. UNCHANGED <<resetCount, mDeviceResetCount, untold>>
    BY <1>13 DEF Environment, Server, ServerSendsTargets, ServerSendsClients, ServerSendsConInfo, ServerSendsOk,
                 ServerSendsError, Answered, ChlServerCloses, ServerCloses, ServerSubscribes, ServerUnsubscribes,
                 ServerTakesMsg, DeviceSends, ServerTellsReset, Counted, chlVars, stateVars
  <2> QED BY <1>2, <2>1
<1> QED BY <1>4, <1>5, <1>6, <1>7, <1>8, <1>9, <1>10, <1>11, <1>12, <1>13 DEF Next, Call, Step

\* For every device and however messages and notifications follow each other: no reset
\* that rcv_msg() was told of gets lost, and none is told of twice.
THEOREM ResetsCorrect == Spec => ResetsTold
<1>1. Init => Compared
  <2> SUFFICES ASSUME Init PROVE Compared
    OBVIOUS
  <2>1. call = 0 /\ resetCount = 0 /\ untold = FALSE /\ mDeviceResetCount = NoCount /\ fromServer = <<>>
    BY DEF Init, BaseInit
  <2>2. call \in Nat /\ resetCount \in Nat /\ untold \in BOOLEAN
    BY <2>1
  <2>3. PacketInv
    BY <2>1, ShortSeq DEF PacketInv
  <2> QED BY <2>1, <2>2, <2>3, Zenon DEF Compared
<1>2. Compared /\ [Next]_vars => Compared'
  <2>1. CASE UNCHANGED vars
    BY <2>1 DEF Compared, PacketInv, vars, baseVars, stateVars, chlVars
  <2> QED BY <2>1, ComparedStep
<1>3. Compared /\ [Next]_vars =>
        [(call' = call + 1 /\ op' = "device_reset_occurred"
          /\ mSessionStarted /\ mDeviceResetCount # NoCount) => arg'.reset = untold]_vars
  <2> SUFFICES ASSUME Compared, Next, call' = call + 1, op' = "device_reset_occurred",
                      mSessionStarted, mDeviceResetCount # NoCount
               PROVE  arg'.reset = untold
    OBVIOUS
  <2>1. call' # call
    BY DEF Compared
  <2>2. Call
    BY <2>1, CallCounts DEF Compared
  <2>3. device_reset_occurred
    <3> USE DEF Refuse, Execute, Called
    <3>1. ~BaseCall
      BY DEF BaseCall, server_connect, server_unlock, get_targets, get_target_clients,
             device_unlock_get_challenge, device_unlock_set_key, BeginQuery, WithoutPacket
    <3>2. ~session_start /\ ~device_connect /\ ~target_ping
      BY DEF session_start, mSessionStart, device_connect, mDeviceConnect, BeginQuery, target_ping,
             WithoutChannel, PingBegun
    <3>3. ~subscribe /\ ~unsubscribe /\ ~send_msg /\ ~rcv_msg
      BY DEF subscribe, unsubscribe, send_msg, rcv_msg
    <3> QED BY <2>2, <3>1, <3>2, <3>3 DEF Call
  <2>4. ~(mDeviceResetCount > resetCount) /\ untold = (resetCount > mDeviceResetCount)
    <3>1. mDeviceResetCount \in Nat /\ resetCount \in Nat /\ mDeviceResetCount <= resetCount
      BY DEF Compared
    <3>2. ~(mDeviceResetCount > resetCount)
      BY <3>1, SMT
    <3> QED BY <3>2 DEF Compared
  <2>5. arg' = [reset |-> resetCount > mDeviceResetCount]
    BY <2>3, <2>4 DEF device_reset_occurred, Refuse, Called
  <2> QED BY <2>4, <2>5
<1> QED BY <1>1, <1>2, <1>3, PTL DEF Spec, ResetsTold

--------------------------------------------------------------------------------
(* The session.                                                               *)

LEMMA ChlSessionCall ==
    ASSUME SessionInv, Call
    PROVE  SessionInv'
<1> USE DEF Refuse, Execute, Called, Send, Return, serverVars, stateVars
<1>1. CASE BaseCall
  BY <1>1, SessionBaseCall
<1>2. ASSUME NEW name, NEW v, Refuse(name, v, "FN_USAGE"), UNCHANGED <<mServerIpAddr, stateVars>>
      PROVE  SessionInv'
  BY <1>2, SessionKept
<1>3. CASE session_start \/ device_connect
  BY <1>2, <1>3, SessionBegins DEF session_start, device_connect, WithoutChannel
<1>4. CASE target_ping
  <2>1. UNCHANGED <<mServerIpAddr, stateVars>>
    BY <1>4 DEF target_ping, WithoutChannel, PingBegun
  <2>2. CASE PingBegun
    BY <2>1, <2>2, SessionKept DEF PingBegun
  <2> QED BY <1>2, <1>4, <2>1, <2>2 DEF target_ping, WithoutChannel
<1>5. CASE device_reset_occurred
  BY <1>5, SessionKept DEF device_reset_occurred
<1>6. CASE subscribe \/ unsubscribe
  BY <1>6, SessionKept DEF subscribe, unsubscribe
<1>7. CASE send_msg
  BY <1>7, SessionKept DEF send_msg, Disconnect
<1>8. CASE rcv_msg
  BY <1>8, SessionKept DEF rcv_msg
<1> QED BY <1>1, <1>3, <1>4, <1>5, <1>6, <1>7, <1>8 DEF Call

LEMMA ChlSessionStep ==
    ASSUME SessionInv, Step \/ TimePasses
    PROVE  SessionInv'
<1> USE DEF Received, Take, Return, serverVars, stateVars
<1>1. CASE BaseStep
  BY <1>1, SessionBaseStep
<1>2. CASE ChlSessionStarted
  BY <1>2, SessionStarts DEF ChlSessionStarted
<1>3. CASE ChlDeviceConnected
  BY <1>3, SessionConnected DEF ChlDeviceConnected
<1>4. CASE Pinged
  BY <1>4, SessionTaken DEF Pinged
<1>5. CASE GivenUp
  BY <1>5, SessionGivenUp DEF GivenUp
<1>6. CASE Subscribed \/ MsgReceived
  BY <1>6, SessionTaken DEF Subscribed, MsgReceived
<1>7. CASE Unsubscribed \/ Discarded
  BY <1>7, SessionTaken DEF Unsubscribed, Discarded
<1>8. CASE TimePasses
  BY <1>8 DEF TimePasses, baseVars, SessionInv, SessionAgreed
<1> QED BY <1>1, <1>2, <1>3, <1>4, <1>5, <1>6, <1>7, <1>8 DEF Step

LEMMA ChlSessionEnvironment ==
    ASSUME SessionInv, Environment
    PROVE  SessionInv'
<1> DEFINE rq == Head(toServer)
<1> USE DEF Answered, serverVars, stateVars
<1>1. CASE Server
  BY <1>1, SessionServer
<1>2. CASE ServerSubscribes
  <2>1. \E err, v : fromServer' = Append(fromServer, Answer(rq.cmd, rq.call, err, v))
    BY <1>2 DEF ServerSubscribes, Push
  <2> QED BY <1>2, <2>1, SessionTold DEF ServerSubscribes, Pending, Answer, StartsSession
<1>3. CASE ServerUnsubscribes
  BY <1>3, SessionTold DEF ServerUnsubscribes, Push, Answer, StartsSession
<1>4. CASE ServerTakesMsg
  BY <1>4, SessionKept DEF ServerTakesMsg
<1>5. CASE DeviceSends
  <2>1. \E err, v : fromServer' = Append(fromServer, Answer("CHL_MSG_D2C", 0, err, v))
    BY <1>5 DEF DeviceSends, Push
  <2> QED BY <1>5, <2>1, SessionTold DEF DeviceSends, Answer, StartsSession
<1>6. CASE ServerTellsReset
  BY <1>6, SessionTold DEF ServerTellsReset, Push, Answer, StartsSession
<1>7. CASE ChlServerCloses
  BY <1>7, SessionServer DEF ChlServerCloses
<1> QED BY <1>1, <1>2, <1>3, <1>4, <1>5, <1>6, <1>7 DEF Environment

\* For every server: as long as the connection holds, a client that believes to have a
\* session has one, although unsubscribe() and rcv_msg() leave packets behind that
\* session_start() may take.
THEOREM SessionCorrect == Spec => []SessionAgreed
<1>1. Init => SessionInv
  BY ShortSeq DEF Init, BaseInit, SessionInv, SessionAgreed
<1>2. SessionInv /\ [Next]_vars => SessionInv'
  <2> SUFFICES ASSUME SessionInv, [Next]_vars PROVE SessionInv'
    OBVIOUS
  <2>1. CASE UNCHANGED vars
    BY <2>1 DEF SessionInv, SessionAgreed, vars, baseVars, stateVars, serverVars
  <2> QED BY <2>1, ChlSessionCall, ChlSessionStep, ChlSessionEnvironment DEF Next
<1>3. SessionInv => SessionAgreed
  BY DEF SessionInv
<1> QED BY <1>1, <1>2, <1>3, PTL DEF Spec

--------------------------------------------------------------------------------
(* The lists of targets and clients.                                          *)

LEMMA ChlListCall ==
    ASSUME ListInv, Call
    PROVE  ListInv'
<1> USE DEF Refuse, Execute, Called, Send, Return, serverVars, samples, stateVars
<1>1. CASE BaseCall
  BY <1>1, ListBaseCall
<1>2. ASSUME NEW name, name \notin {"get_targets", "get_target_clients"}, NEW cmd, cmd # "GET_TARGETS", NEW v,
             op' = name, UNCHANGED <<listVars, samples, fromServer>>,
             \/ pc' # "wait" /\ toServer' = toServer
             \/ toServer' = Sent(call + 1, Request(cmd, v)) /\ pc' = "wait"
      PROVE  ListInv'
  BY <1>2, ListBegins
<1>3. ASSUME NEW name, name \notin {"get_targets", "get_target_clients"}, NEW v, NEW err,
             Refuse(name, v, err), UNCHANGED listVars
      PROVE  ListInv'
  <2>1. pc' # "wait" /\ toServer' = toServer /\ op' = name /\ UNCHANGED <<listVars, samples, fromServer>>
    BY <1>3
  <2> QED BY <1>2, <1>3, <2>1
<1>4. CASE session_start \/ device_connect
  BY <1>3, <1>4, ListSession DEF session_start, device_connect, WithoutChannel
<1>5. CASE target_ping
  <2>1. CASE PingBegun
    <3>1. /\ op' = "target_ping" /\ UNCHANGED <<listVars, samples, fromServer>>
          /\ toServer' = Sent(call + 1, Request("PING", NoArg)) /\ pc' = "wait"
      BY <2>1 DEF PingBegun, get_pkt_rq_ping
    <3> QED BY <1>2, <3>1
  <2> QED BY <1>3, <1>5, <2>1 DEF target_ping, WithoutChannel
<1>6. CASE device_reset_occurred
  BY <1>3, <1>6 DEF device_reset_occurred
<1>7. CASE subscribe
  <2>1. UNCHANGED listVars
    BY <1>7 DEF subscribe
  <2>2. ASSUME NEW v, Execute("subscribe", v, get_pkt_rq_subscribe(v))
        PROVE  ListInv'
    <3>1. /\ op' = "subscribe" /\ UNCHANGED <<listVars, samples, fromServer>>
          /\ toServer' = Sent(call + 1, Request("CHL_SUBSCRIBE", v)) /\ pc' = "wait"
      BY <2>1, <2>2 DEF get_pkt_rq_subscribe
    <3> QED BY <1>2, <3>1
  <2> QED BY <1>3, <1>7, <2>1, <2>2 DEF subscribe
<1>8. CASE unsubscribe
  <2>1. UNCHANGED listVars
    BY <1>8 DEF unsubscribe
  <2>2. CASE mChlCht = "NONE"
    BY <1>3, <1>8, <2>1, <2>2 DEF unsubscribe
  <2>3. CASE mChlCht # "NONE"
    <3>1. /\ op' = "unsubscribe" /\ UNCHANGED <<listVars, samples, fromServer>>
          /\ toServer' = Sent(call + 1, Request("CHL_UNSUBSCRIBE", [chl |-> mChlNum])) /\ pc' = "wait"
      BY <1>8, <2>3 DEF unsubscribe, get_pkt_rq_unsubscribe
    <3> QED BY <1>2, <3>1
  <2> QED BY <2>2, <2>3
<1>9. CASE send_msg
  <2>1. /\ op' = "send_msg" /\ UNCHANGED <<listVars, samples>>
        /\ \/ UNCHANGED <<fromServer, toServer>>
           \/ fromServer' = <<>> /\ toServer' = <<>>
           \/ \E v : fromServer' = fromServer /\ toServer' = Sent(call + 1, Request("CHL_MSG_C2D", v))
    BY <1>9 DEF send_msg, Disconnect, get_pkt_send_msg
  <2>2. ListMoves
    <3>1. \A c, v : [cmd |-> "CHL_MSG_C2D", call |-> c, v |-> v].cmd # "GET_TARGETS"
      OBVIOUS
    <3> QED BY <2>1, <3>1, SentRequest DEF ListMoves, listVars, Listing
  <2> QED BY <2>2, ListKept
<1>10. CASE rcv_msg
  <2>1. /\ op' = "rcv_msg" /\ UNCHANGED <<listVars, samples, fromServer, toServer>>
    BY <1>10 DEF rcv_msg
  <2>2. ListMoves
    BY <2>1 DEF ListMoves, listVars, Listing
  <2> QED BY <2>2, ListKept
<1> QED BY <1>1, <1>4, <1>5, <1>6, <1>7, <1>8, <1>9, <1>10 DEF Call

LEMMA ChlListStep ==
    ASSUME ListInv, Step \/ TimePasses
    PROVE  ListInv'
<1> USE DEF Received, Take, serverVars, samples
<1>1. CASE BaseStep
  BY <1>1, ListBaseStep
<1>2. CASE ChlSessionStarted
  BY <1>2, ListSessionStep DEF ChlSessionStarted
<1>3. CASE ChlDeviceConnected
  BY <1>3, ListSessionStep DEF ChlDeviceConnected
<1>4. CASE Pinged \/ Subscribed \/ MsgReceived
  BY <1>4, ListTaken DEF Pinged, Subscribed, MsgReceived
<1>5. CASE Unsubscribed \/ Discarded
  BY <1>5, ListTaken DEF Unsubscribed, Discarded
<1>6. CASE GivenUp
  BY <1>6, ListGivenUp DEF GivenUp
<1>7. CASE TimePasses
  BY <1>7, ListStays DEF TimePasses, baseVars
<1> QED BY <1>1, <1>2, <1>3, <1>4, <1>5, <1>6, <1>7 DEF Step

LEMMA ChlListEnvironment ==
    ASSUME ListInv, Environment
    PROVE  ListInv'
<1> USE DEF serverVars, samples
<1>1. CASE Server \/ ServerCloses
  BY <1>1, ListServer
<1>2. \A cmd \in {"CHL_SUBSCRIBE", "CHL_UNSUBSCRIBE", "CHL_MSG_D2C"} : \A c, e, v :
        LET p == Answer(cmd, c, e, v) IN ~IsTargetPage(p) /\ ~IsClientPage(p)
  BY DEF Answer, IsTargetPage, IsClientPage
<1>3. ASSUME UNCHANGED <<listVars, sampled, targetSample, pc, op, ret>>,
             toServer' = toServer \/ (toServer # <<>> /\ toServer' = Tail(toServer)),
             \/ fromServer' = fromServer
             \/ \E cmd \in {"CHL_SUBSCRIBE", "CHL_UNSUBSCRIBE", "CHL_MSG_D2C"} : \E c, e, v :
                    fromServer' = Append(fromServer, Answer(cmd, c, e, v))
      PROVE  ListInv'
  BY <1>2, <1>3, ListTold
<1>4. CASE ServerSubscribes
  <2>1. \E c, e, v : fromServer' = Append(fromServer, Answer("CHL_SUBSCRIBE", c, e, v))
    BY <1>4 DEF ServerSubscribes, Push, Pending
  <2>2. /\ UNCHANGED <<listVars, sampled, targetSample, pc, op, ret>>
        /\ toServer # <<>> /\ toServer' = Tail(toServer)
    BY <1>4 DEF ServerSubscribes, Answered, Pending
  <2> QED BY <1>3, <2>1, <2>2
<1>5. CASE ServerUnsubscribes
  <2>1. \E c, e, v : fromServer' = Append(fromServer, Answer("CHL_UNSUBSCRIBE", c, e, v))
    BY <1>5 DEF ServerUnsubscribes, Push
  <2>2. /\ UNCHANGED <<listVars, sampled, targetSample, pc, op, ret>>
        /\ toServer # <<>> /\ toServer' = Tail(toServer)
    BY <1>5 DEF ServerUnsubscribes, Answered, Pending
  <2> QED BY <1>3, <2>1, <2>2
<1>6. CASE ServerTakesMsg
  BY <1>3, <1>6 DEF ServerTakesMsg, Answered, Pending
<1>7. CASE DeviceSends \/ ServerTellsReset
  <2>1. \E c, e, v : fromServer' = Append(fromServer, Answer("CHL_MSG_D2C", c, e, v))
    BY <1>7 DEF DeviceSends, ServerTellsReset, Push
  <2>2. UNCHANGED <<listVars, sampled, targetSample, pc, op, ret, toServer>>
    BY <1>7 DEF DeviceSends, ServerTellsReset
  <2> QED BY <1>3, <2>1, <2>2
<1>8. CASE ChlServerCloses
  BY <1>1, <1>8 DEF ChlServerCloses
<1> QED BY <1>1, <1>4, <1>5, <1>6, <1>7, <1>8 DEF Environment

\* The invariant of the lists holds with messages underway.
LEMMA ChlLists == Spec => []ListInv
<1>1. Init => ListInv
  BY ListInit DEF Init
<1>2. ListInv /\ [Next]_vars => ListInv'
  <2> SUFFICES ASSUME ListInv, [Next]_vars PROVE ListInv'
    OBVIOUS
  <2>1. CASE UNCHANGED vars
    BY <2>1, ListStays DEF vars, baseVars, serverVars, samples
  <2> QED BY <2>1, ChlListCall, ChlListStep, ChlListEnvironment DEF Next
<1> QED BY <1>1, <1>2, PTL DEF Spec

\* For every server and every length of a list: the targets that get_targets() tells
\* of are those of one list the server has sampled, although the list is fetched page
\* by page, and pages of an earlier call may come late.
THEOREM TargetsCorrect == Spec => []TargetsOfOneSample
<1>1. ListInv => TargetsOfOneSample
  BY DEF ListInv
<1> QED BY <1>1, ChlLists, PTL

--------------------------------------------------------------------------------
(* Types.                                                                     *)

ChlNotes == {"CHL_MSG_D2C"}

\* The channel of the client, and the one it asks for.
ChannelTypes ==
    /\ mChlCht \in Types \cup {"NONE"} /\ mChlNum \in 0..TAS_CHL_NUM_MAX
    /\ mChlCht = "NONE" <=> mChlNum = TAS_CHL_NUM_MAX
    /\ mRcvChlActive = (mChlCht \in Receiving)
    /\ pc = "wait" /\ op = "subscribe" => arg.chl \in 0..(TAS_CHL_NUM_MAX - 1) /\ arg.cht \in Types

ResetTypes ==
    /\ resets \in 0..MaxResets
    /\ CountOK(fromServer, ChlNotes, resetCount, resets)

TypeInv == Simple /\ ChannelTypes /\ ResetTypes

LEMMA ChlNotified == Notified(ChlNotes)
BY ChlAssumption DEF Notified, ChlNotes

LEMMA ChannelKept ==
    ASSUME ChannelTypes, UNCHANGED <<mChlCht, mChlNum, mRcvChlActive>>,
           \/ pc' # "wait" \/ op' # "subscribe"
           \/ arg'.chl \in 0..(TAS_CHL_NUM_MAX - 1) /\ arg'.cht \in Types
    PROVE  ChannelTypes'
BY DEF ChannelTypes

LEMMA ResetsKept ==
    ASSUME ResetTypes, UNCHANGED <<resets, resetCount>>,
           \/ fromServer' = fromServer \/ fromServer' = <<>>
           \/ fromServer # <<>> /\ fromServer' = Tail(fromServer)
           \/ \E p : fromServer' = Append(fromServer, p) /\ ~TellsReset(p, ChlNotes)
    PROVE  ResetTypes'
BY CountKept DEF ResetTypes

LEMMA ChlTypeCall ==
    ASSUME TypeInv, Call
    PROVE  TypeInv'
<1> USE DEF Refuse, Execute, Called, Send, Return, serverVars, stateVars
<1>0. Simple /\ ChannelTypes /\ ResetTypes
  BY DEF TypeInv
<1>1. CASE BaseCall /\ UNCHANGED chlVars
  <2>1. op' # "subscribe" /\ mRcvChlActive' = mRcvChlActive
    BY <1>1 DEF BaseCall, server_connect, server_unlock, device_unlock_get_challenge, WithoutPacket, get_targets,
         get_target_clients, device_unlock_set_key, BeginQuery
  <2>2. Simple' /\ CountOK(fromServer', ChlNotes, resetCount, resets)
    BY <1>0, <1>1, SimpleCall, CountOther DEF ResetTypes
  <2> QED BY <1>0, <1>1, <2>1, <2>2, ChannelKept DEF TypeInv, ResetTypes, chlVars
<1>2. ASSUME UNCHANGED <<mServerIpAddr, mSessionStarted, session, inStep>>, link' \in {link, "none"},
             mRcvChlActive' \in BOOLEAN, ChannelTypes',
             fromServer' = fromServer \/ fromServer' = <<>>, UNCHANGED <<resets, resetCount>>,
             pc' \in {"idle", "wait", "smashed"}, ret' \in {ret, "NONE", "FN_USAGE", "FN_PARAM", "SERVER_CON"}
      PROVE  TypeInv'
  <2>1. ret' \in Returns
    BY <1>0, <1>2 DEF Simple, Returns
  <2>2. Simple'
    BY <1>0, <1>2, <2>1, Zenon DEF Simple
  <2> QED BY <1>0, <1>2, <2>2, ResetsKept DEF TypeInv
<1>3. ASSUME UNCHANGED <<mServerIpAddr, mSessionStarted, session, inStep>>, link' \in {link, "none"},
             UNCHANGED <<mChlCht, mChlNum, mRcvChlActive>>,
             \/ pc' # "wait" \/ op' # "subscribe"
             \/ arg'.chl \in 0..(TAS_CHL_NUM_MAX - 1) /\ arg'.cht \in Types,
             fromServer' = fromServer \/ fromServer' = <<>>, UNCHANGED <<resets, resetCount>>,
             pc' \in {"idle", "wait", "smashed"}, ret' \in {ret, "NONE", "FN_USAGE", "FN_PARAM", "SERVER_CON"}
      PROVE  TypeInv'
  <2>1. ChannelTypes'
    BY <1>0, <1>3, ChannelKept
  <2>2. mRcvChlActive' \in BOOLEAN
    BY <1>0, <1>3 DEF Simple
  <2> QED BY <1>2, <1>3, <2>1, <2>2
<1>4. CASE session_start \/ device_connect \/ target_ping
  <2>1. /\ UNCHANGED <<mServerIpAddr, mSessionStarted, session, inStep, link, mRcvChlActive, fromServer>>
        /\ op' # "subscribe" /\ pc' \in {"idle", "wait"} /\ ret' \in {ret, "FN_USAGE"}
    BY <1>4 DEF session_start, device_connect, target_ping, WithoutChannel, PingBegun, mSessionStart, mDeviceConnect,
         BeginQuery
  <2>2. UNCHANGED <<mChlCht, mChlNum, resets, resetCount>>
    BY <1>4 DEF session_start, device_connect, target_ping, chlVars
  <2> QED BY <1>3, <2>1, <2>2
<1>5. CASE device_reset_occurred
  BY <1>3, <1>5 DEF device_reset_occurred, Channel, Device
<1>6. CASE subscribe
  <2>1. PICK chl \in Chls, cht \in Types \cup {"NONE"} :
            \/ Refuse("subscribe", NoArg, "FN_USAGE")
            \/ Refuse("subscribe", NoArg, "FN_PARAM")
            \/ /\ chl < TAS_CHL_NUM_MAX /\ cht \in Types
               /\ Execute("subscribe", [chl |-> chl, cht |-> cht], get_pkt_rq_subscribe([chl |-> chl, cht |-> cht]))
    BY <1>6 DEF subscribe
  <2>2. chl \in Nat
    BY ChlAssumption
  <2>3. chl < TAS_CHL_NUM_MAX => chl \in 0..(TAS_CHL_NUM_MAX - 1)
    BY <2>2 DEF TAS_CHL_NUM_MAX
  <2>4. [chl |-> chl, cht |-> cht].chl = chl /\ [chl |-> chl, cht |-> cht].cht = cht
    OBVIOUS
  <2>5. /\ UNCHANGED <<mServerIpAddr, mSessionStarted, session, inStep, link, mRcvChlActive, fromServer,
                       mChlCht, mChlNum, resets, resetCount>>
        /\ pc' \in {"idle", "wait"} /\ ret' \in {ret, "FN_USAGE", "FN_PARAM"}
    BY <1>6, <2>1 DEF subscribe, Channel, Counted, Device
  <2>6. \/ pc' # "wait" \/ op' # "subscribe"
        \/ arg'.chl \in 0..(TAS_CHL_NUM_MAX - 1) /\ arg'.cht \in Types
    BY <2>1, <2>3, <2>4
  <2> QED BY <1>3, <2>5, <2>6
<1>7. CASE unsubscribe
  <2>1. /\ UNCHANGED <<mServerIpAddr, mSessionStarted, session, inStep, link, fromServer, resets, resetCount>>
        /\ op' = "unsubscribe" /\ pc' \in {"idle", "wait"} /\ ret' \in {ret, "NONE"}
        /\ mChlCht' = "NONE" /\ mChlNum' = TAS_CHL_NUM_MAX /\ mRcvChlActive' = FALSE
    BY <1>7 DEF unsubscribe, Counted, Device
  <2>2. ChannelTypes'
    <3>1. (mChlCht' \in Receiving) = FALSE
      BY <2>1 DEF Receiving
    <3>2. mRcvChlActive' = (mChlCht' \in Receiving)
      BY <2>1, <3>1, Zenon
    <3>3. TAS_CHL_NUM_MAX \in 0..TAS_CHL_NUM_MAX
      BY DEF TAS_CHL_NUM_MAX
    <3> QED BY <2>1, <3>2, <3>3, Zenon DEF ChannelTypes
  <2> QED BY <1>2, <2>1, <2>2
<1>8. CASE send_msg
  <2>1. /\ UNCHANGED <<mServerIpAddr, mSessionStarted, session, inStep, mRcvChlActive>> /\ op' = "send_msg" /\ pc' \in {"idle", "smashed"}
        /\ ret' \in {ret, "NONE", "FN_USAGE", "FN_PARAM", "SERVER_CON"} /\ link' \in {link, "none"}
        /\ fromServer' = fromServer \/ fromServer' = <<>>
    BY <1>8 DEF send_msg, Disconnect
  <2>2. UNCHANGED <<mChlCht, mChlNum, resets, resetCount>>
    BY <1>8 DEF send_msg, Channel, Counted, Device
  <2> QED BY <1>3, <2>1, <2>2
<1>9. CASE rcv_msg
  BY <1>3, <1>9 DEF rcv_msg, Channel, Counted, Device
<1> QED BY <1>1, <1>4, <1>5, <1>6, <1>7, <1>8, <1>9 DEF Call

LEMMA ChlTypeStep ==
    ASSUME TypeInv, Step \/ TimePasses
    PROVE  TypeInv'
<1> USE DEF Received, Take, Return, serverVars, stateVars
<1> DEFINE p == Head(fromServer)
<1>0. Simple /\ ChannelTypes /\ ResetTypes
  BY DEF TypeInv
<1>1. CASE BaseStep /\ UNCHANGED chlVars
  <2>1. UNCHANGED <<op, mRcvChlActive>> /\ op # "subscribe"
    BY <1>1 DEF BaseStep, ServerConnected, KeySet, set_pkt_rsp_get_targets, set_pkt_rsp_get_target_clients
  <2>2. Simple' /\ CountOK(fromServer', ChlNotes, resetCount, resets)
    BY <1>0, <1>1, SimpleStep, CountOther DEF ResetTypes
  <2> QED BY <1>0, <1>1, <2>1, <2>2, ChannelKept DEF TypeInv, ResetTypes, chlVars
<1>2. CASE ChlSessionStarted
  <2>1. SessionStarted(ret', TRUE)
    BY <1>2 DEF ChlSessionStarted
  <2>2. Simple' /\ CountOK(fromServer', ChlNotes, resetCount, resets)
    BY <1>0, <2>1, SimpleStarts, CountOther DEF ResetTypes
  <2>3. pc' = "idle" /\ UNCHANGED <<mRcvChlActive, mChlCht, mChlNum, resets, resetCount>>
    BY <1>2, <2>1 DEF ChlSessionStarted, SessionStarted, Channel, Counted, Device
  <2> QED BY <1>0, <2>2, <2>3, ChannelKept DEF TypeInv, ResetTypes
<1>3. CASE ChlDeviceConnected
  <2>1. Simple' /\ CountOK(fromServer', ChlNotes, resetCount, resets)
    BY <1>0, <1>3, SimpleStep, CountOther DEF ResetTypes, ChlDeviceConnected
  <2>2. pc' = "idle" /\ UNCHANGED <<mRcvChlActive, mChlCht, mChlNum, resets, resetCount>>
    BY <1>3 DEF ChlDeviceConnected, DeviceConnected, Channel, Device
  <2> QED BY <1>0, <2>1, <2>2, ChannelKept DEF TypeInv, ResetTypes
<1>4. CASE GivenUp
  <2>1. Simple' /\ CountOK(fromServer', ChlNotes, resetCount, resets)
    BY <1>0, <1>4, SimpleGivenUp, CountOther DEF ResetTypes, GivenUp
  <2>2. pc' # "wait" /\ UNCHANGED <<mRcvChlActive, mChlCht, mChlNum, resets, resetCount>>
    BY <1>4 DEF GivenUp, Timeout, Lost, Overrun, Failed, Channel, Device
  <2> QED BY <1>0, <2>1, <2>2, ChannelKept DEF TypeInv, ResetTypes
<1>5. ASSUME UNCHANGED <<mServerIpAddr, mSessionStarted, session, link, mRcvChlActive, mChlCht, mChlNum, resets, resetCount>>,
             inStep' \in BOOLEAN, fromServer # <<>>, fromServer' = Tail(fromServer),
             \/ pc' = "idle" /\ ret' \in Returns
             \/ UNCHANGED <<pc, ret>> /\ op' # "subscribe"
      PROVE  TypeInv'
  <2>1. Simple'
    BY <1>0, <1>5, Zenon DEF Simple
  <2> QED BY <1>0, <1>5, <2>1, ChannelKept, ResetsKept DEF TypeInv
<1>6. inStep \in BOOLEAN
  BY <1>0 DEF Simple
<1>7. CASE Pinged
  BY <1>5, <1>6, <1>7, ReturnsOf DEF Pinged, Channel, Counted, Device
<1>8. CASE Subscribed
  <2>1. set_pkt_rsp_subscribe(p) \in Returns
    BY DEF set_pkt_rsp_subscribe, Returns
  <2>2. /\ UNCHANGED <<mServerIpAddr, mSessionStarted, session, inStep, link, resets, resetCount>>
        /\ fromServer # <<>> /\ fromServer' = Tail(fromServer) /\ pc' = "idle" /\ ret' \in Returns
    BY <1>8, <2>1 DEF Subscribed, Counted, Device
  <2>3. CASE set_pkt_rsp_subscribe(p) = "NONE"
    <3>1. mChlCht' = arg.cht /\ mChlNum' = arg.chl /\ mRcvChlActive' = (arg.cht \in Receiving)
      BY <1>8, <2>3 DEF Subscribed
    <3>2. arg.chl \in 0..(TAS_CHL_NUM_MAX - 1) /\ arg.cht \in Types
      BY <1>0, <1>8 DEF Subscribed, ChannelTypes
    <3>3. arg.chl \in 0..TAS_CHL_NUM_MAX /\ arg.chl # TAS_CHL_NUM_MAX /\ arg.cht # "NONE"
      BY <3>2 DEF TAS_CHL_NUM_MAX, Types
    <3>4. mRcvChlActive' \in BOOLEAN
      <4>1. CASE arg.cht \in Receiving
        BY <3>1, <4>1
      <4>2. CASE arg.cht \notin Receiving
        BY <3>1, <4>2
      <4> QED BY <4>1, <4>2
    <3>5. Simple'
      BY <1>0, <2>2, <3>4, Zenon DEF Simple
    <3>6. mRcvChlActive' = (mChlCht' \in Receiving)
      BY <3>1, Zenon
    <3>7. ChannelTypes'
      BY <2>2, <3>1, <3>2, <3>3, <3>6 DEF ChannelTypes
    <3> QED BY <1>0, <2>2, <3>5, <3>7, ResetsKept DEF TypeInv
  <2>4. CASE set_pkt_rsp_subscribe(p) # "NONE"
    <3>1. UNCHANGED <<mChlCht, mChlNum, mRcvChlActive>>
      BY <1>8, <2>4 DEF Subscribed, Channel
    <3> QED BY <1>5, <1>6, <2>2, <3>1
  <2> QED BY <2>3, <2>4
<1>9. CASE Unsubscribed
  <2>1. inStep' \in BOOLEAN
    BY <1>6, <1>9, Zenon DEF Unsubscribed
  <2>2. set_pkt_rsp_unsubscribe(p) \in Returns
    BY DEF set_pkt_rsp_unsubscribe, Returns
  <2> QED BY <1>5, <1>9, <2>1, <2>2 DEF Unsubscribed, Channel, Counted, Device
<1>10. CASE Discarded
  BY <1>5, <1>6, <1>10 DEF Discarded, chlVars
<1>11. CASE MsgReceived
  <2>1. set_pkt_rcv_msg(p) \in Returns
    BY DEF set_pkt_rcv_msg, Returns
  <2>2. /\ UNCHANGED <<mServerIpAddr, mSessionStarted, session, inStep, link, mRcvChlActive, mChlCht, mChlNum, resets>>
        /\ fromServer # <<>> /\ fromServer' = Tail(fromServer) /\ pc' = "idle" /\ ret' \in Returns
        /\ resetCount' = resetCount + (IF CountsReset(p) THEN 1 ELSE 0)
    BY <1>11, <2>1 DEF MsgReceived, Channel, Device
  <2>3. CountsReset(p) => TellsReset(p, ChlNotes)
    BY DEF CountsReset, TellsReset, ChlNotes
  <2>4. resetCount \in Nat
    BY <1>0, CountBounds DEF ResetTypes
  <2>5. resetCount' = resetCount \/ (resetCount' = resetCount + 1 /\ TellsReset(p, ChlNotes))
    BY <2>2, <2>3, <2>4
  <2>6. ResetTypes'
    BY <1>0, <2>2, <2>5, CountTaken DEF ResetTypes
  <2>7. Simple'
    BY <1>0, <2>2, Zenon DEF Simple
  <2> QED BY <1>0, <2>2, <2>6, <2>7, ChannelKept DEF TypeInv
<1>12. CASE TimePasses
  <2>1. /\ UNCHANGED <<mServerIpAddr, mSessionStarted, mRcvChlActive, session, inStep, link, pc, op, arg, ret, fromServer>>
        /\ UNCHANGED <<mChlCht, mChlNum, resets, resetCount>>
    BY <1>12 DEF TimePasses, baseVars, Channel, Counted, Device
  <2>2. Simple'
    BY <1>0, <2>1, Zenon DEF Simple
  <2> QED BY <1>0, <2>1, <2>2 DEF TypeInv, ChannelTypes, ResetTypes
<1> QED BY <1>1, <1>2, <1>3, <1>4, <1>7, <1>8, <1>9, <1>10, <1>11, <1>12 DEF Step

LEMMA ChlTypeEnvironment ==
    ASSUME TypeInv, Environment
    PROVE  TypeInv'
<1> DEFINE rq == Head(toServer)
<1> USE DEF Answered, serverVars, stateVars
<1>0. Simple /\ ChannelTypes /\ ResetTypes
  BY DEF TypeInv
<1>1. /\ UNCHANGED <<mServerIpAddr, mSessionStarted, mRcvChlActive, pc, op, arg, ret>>
      /\ UNCHANGED <<mChlCht, mChlNum, resetCount>>
  BY DEF Environment, Server, ServerSendsTargets, ServerSendsClients, ServerSendsConInfo, ServerSendsOk, ServerSendsError,
         ServerSubscribes, ServerUnsubscribes, ServerTakesMsg, DeviceSends, ServerTellsReset, ChlServerCloses, ServerCloses,
         chlVars, Channel, Counted
<1>2. ChannelTypes'
  BY <1>0, <1>1 DEF ChannelTypes
<1>3. CASE Server /\ UNCHANGED chlVars
  <2>1. Simple' /\ CountOK(fromServer', ChlNotes, resetCount, resets)
    BY <1>0, <1>3, SimpleServer, CountServer, ChlNotified DEF ResetTypes
  <2> QED BY <1>0, <1>2, <1>3, <2>1 DEF TypeInv, ResetTypes, chlVars
<1>4. CASE ChlServerCloses
  <2>1. Simple' /\ CountOK(fromServer', ChlNotes, resetCount, resets)
    BY <1>0, <1>4, SimpleServer, CountServer, ChlNotified DEF ResetTypes, ChlServerCloses
  <2> QED BY <1>0, <1>1, <1>2, <1>4, <2>1 DEF TypeInv, ResetTypes, ChlServerCloses
<1>5. ASSUME UNCHANGED <<session, link>>, inStep' \in BOOLEAN, ResetTypes'
      PROVE  TypeInv'
  <2>1. Simple'
    BY <1>0, <1>1, <1>5, Zenon DEF Simple
  <2> QED BY <1>2, <1>5, <2>1 DEF TypeInv
<1>6. inStep \in BOOLEAN
  BY <1>0 DEF Simple
<1>7. CASE ServerSubscribes \/ ServerUnsubscribes
  <2>1. /\ UNCHANGED <<session, link, inStep, resets>>
        /\ \E cmd \in {"CHL_SUBSCRIBE", "CHL_UNSUBSCRIBE"} : \E c, e, v : fromServer' = Append(fromServer, Answer(cmd, c, e, v))
    <3>1. CASE ServerSubscribes
      BY <3>1 DEF ServerSubscribes, Push, Pending
    <3>2. CASE ServerUnsubscribes
      BY <3>2 DEF ServerUnsubscribes, Push
    <3> QED BY <1>7, <3>1, <3>2
  <2>2. \A cmd \in {"CHL_SUBSCRIBE", "CHL_UNSUBSCRIBE"} : \A c, e, v : ~TellsReset(Answer(cmd, c, e, v), ChlNotes)
    BY DEF TellsReset, Answer, ChlNotes
  <2>3. ResetTypes'
    BY <1>0, <1>1, <2>1, <2>2, ResetsKept
  <2> QED BY <1>5, <1>6, <2>1, <2>3
<1>8. CASE ServerTakesMsg
  <2>1. UNCHANGED <<session, link, inStep, resets, fromServer>>
    BY <1>8 DEF ServerTakesMsg
  <2>2. ResetTypes'
    BY <1>0, <1>1, <2>1, ResetsKept
  <2> QED BY <1>5, <1>6, <2>1, <2>2
<1>9. CASE DeviceSends
  <2>1. PICK words \in MsgWords, reset \in BOOLEAN :
            /\ reset => resets < MaxResets
            /\ resets' = resets + (IF reset THEN 1 ELSE 0)
            /\ fromServer' = Append(fromServer, Answer("CHL_MSG_D2C", 0, IF reset THEN "DEV_RESET" ELSE "NO_ERROR",
                       [chl |-> subscribed.chl, words |-> words]))
    BY <1>9 DEF DeviceSends, Push
  <2> DEFINE q == Answer("CHL_MSG_D2C", 0, IF reset THEN "DEV_RESET" ELSE "NO_ERROR", [chl |-> subscribed.chl, words |-> words])
  <2>2. TellsReset(q, ChlNotes) => reset
    BY DEF TellsReset, Answer, ChlNotes
  <2>3. MaxResets \in Nat
    BY ChlAssumption
  <2>4. resets' \in 0..MaxResets /\ (resets' = resets + 1 \/ (resets' = resets /\ ~reset))
    BY <1>0, <2>1, <2>3 DEF ResetTypes
  <2>5. CountOK(fromServer', ChlNotes, resetCount, resets')
    BY <1>0, <2>1, <2>2, <2>4, CountTold DEF ResetTypes
  <2>6. UNCHANGED <<session, link, inStep>>
    BY <1>9 DEF DeviceSends
  <2>7. ResetTypes'
    BY <1>1, <2>4, <2>5 DEF ResetTypes
  <2> QED BY <1>5, <1>6, <2>6, <2>7
<1>10. CASE ServerTellsReset
  <2>1. /\ UNCHANGED <<session, link>> /\ inStep' = (inStep /\ subscribed.cht \in Receiving)
        /\ resets < MaxResets /\ resets' = resets + 1 /\ \E q : fromServer' = Append(fromServer, q)
    BY <1>10 DEF ServerTellsReset, Push
  <2>2. inStep' \in BOOLEAN
    BY <2>1, Zenon
  <2>3. MaxResets \in Nat
    BY ChlAssumption
  <2>4. resets' \in 0..MaxResets
    BY <1>0, <2>1, <2>3 DEF ResetTypes
  <2>5. CountOK(fromServer', ChlNotes, resetCount, resets')
    BY <1>0, <2>1, CountTold DEF ResetTypes
  <2>6. ResetTypes'
    BY <1>1, <2>4, <2>5 DEF ResetTypes
  <2> QED BY <1>5, <2>1, <2>2, <2>6
<1> QED BY <1>3, <1>4, <1>7, <1>8, <1>9, <1>10 DEF Environment

LEMMA Typing == Spec => []TypeInv
<1>1. Init => TypeInv
  <2> SUFFICES ASSUME Init PROVE TypeInv
    OBVIOUS
  <2>1. fromServer = <<>> /\ resetCount = 0 /\ resets = 0
    BY DEF Init, BaseInit
  <2>2. CountOK(fromServer, ChlNotes, resetCount, resets)
    BY <2>1, CountStart
  <2>3. 0 \in 0..MaxResets
    BY ChlAssumption
  <2>4. ChannelTypes
    <3>1. mChlCht = "NONE" /\ mRcvChlActive = FALSE
      BY DEF Init, BaseInit
    <3>2. (mChlCht \in Receiving) = FALSE
      BY <3>1 DEF Receiving
    <3>3. mRcvChlActive = (mChlCht \in Receiving)
      BY <3>1, <3>2, Zenon
    <3>4. TAS_CHL_NUM_MAX \in 0..TAS_CHL_NUM_MAX
      BY DEF TAS_CHL_NUM_MAX
    <3>5. pc = "idle" /\ mChlCht = "NONE" /\ mChlNum = TAS_CHL_NUM_MAX
      BY DEF Init, BaseInit
    <3> QED BY <3>3, <3>4, <3>5, Zenon DEF ChannelTypes
  <2>5. Simple
    BY SimpleInit DEF Init
  <2> QED BY <2>1, <2>2, <2>3, <2>4, <2>5 DEF TypeInv, ResetTypes
<1>2. TypeInv /\ [Next]_vars => TypeInv'
  <2> SUFFICES ASSUME TypeInv, [Next]_vars PROVE TypeInv'
    OBVIOUS
  <2>1. CASE UNCHANGED vars
    BY <2>1, Zenon DEF TypeInv, Simple, ChannelTypes, ResetTypes, vars, baseVars, serverVars, stateVars, chlVars
  <2> QED BY <2>1, ChlTypeCall, ChlTypeStep, ChlTypeEnvironment DEF Next
<1> QED BY <1>1, <1>2, PTL DEF Spec

\* For every server and device: mRcvChlActive says whether messages may come, no page
\* is written behind the end of a list, and the client counts no more resets than the
\* device had.
THEOREM TypeCorrect == Spec => []TypeOK
<1>1. TypeInv /\ ListInv => TypeOK
  <2> SUFFICES ASSUME TypeInv, ListInv PROVE TypeOK
    OBVIOUS
  <2>1. resetCount \in 0..MaxResets
    BY CountBounds, ChlAssumption DEF TypeInv, ResetTypes
  <2> QED BY <2>1, TypesAre DEF TypeOK, TypeInv, ChannelTypes
<1> QED BY <1>1, Typing, ChlLists, PTL
================================================================================
