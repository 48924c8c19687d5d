--------------------------- MODULE TasClientRwProofs ---------------------------
(******************************************************************************)
(* Properties of the RW client for every server, list, limit and access:      *)
(* SuccessIsExecuted with the invariant it rests on, LimitsUsable, ResetsTold,*)
(* SessionAgreed, ClientsOfOnePage, FillsExactly and TypeOK.                  *)
(******************************************************************************)
EXTENDS TasClientRw, TasClientServerConProofs

--------------------------------------------------------------------------------
(* InOrder is kept by everything that is done with the packets.               *)

LEMMA Begins ==
    ASSUME NEW c, NEW rqs, NEW rsps, NEW last, InOrder(c, rqs, rsps, last)
    PROVE  InOrder(c + 1, rqs, rsps, last)
BY SMT DEF InOrder

LEMMA Drops ==
    ASSUME NEW c, NEW rqs, NEW rsps, NEW last, InOrder(c, rqs, rsps, last)
    PROVE  InOrder(c, <<>>, rsps, last) /\ InOrder(c, rqs, <<>>, last) /\ InOrder(c, <<>>, <<>>, last)
BY ShortSeq, SMT DEF InOrder

LEMMA Asks ==
    ASSUME NEW c, NEW rqs, NEW rsps, NEW last, InOrder(c, rqs, rsps, last),
           c > 0, NEW rq, rq.call = c, rq.cmd # "PL0_START"
    PROVE  InOrder(c, Append(rqs, rq), rsps, last)
<1>1. IsSeq(rqs)
  BY DEF InOrder
<1> DEFINE new == Append(rqs, rq)
<1>2. /\ IsSeq(new) /\ Len(new) = Len(rqs) + 1 /\ Len(rqs) \in Nat
      /\ \A k \in 1..Len(rqs) : new[k] = rqs[k]
      /\ new[Len(rqs) + 1] = rq
  BY <1>1, AppendAny DEF IsSeq
<1> HIDE DEF new
<1>3. /\ c \in Nat /\ c \in 1..c
      /\ \A k \in 1..Len(new) : k \in 1..Len(rqs) \/ k = Len(rqs) + 1
      /\ Len(rqs) + 1 \notin 1..Len(rqs)
  <2>1. c \in Nat
    BY DEF InOrder
  <2> QED BY <1>2, <2>1, SMT
<1>4. \A k \in 1..Len(new) : new[k].call \in 1..c /\ new[k].cmd # "PL0_START"
  BY <1>2, <1>3 DEF InOrder
<1>5. ASSUME NEW j \in 1..Len(new), NEW k \in 1..Len(new), j <= k
      PROVE  new[j].call <= new[k].call
  <2>1. CASE k = Len(rqs) + 1
    <3>1. new[k].call = c /\ new[j].call \in 1..c
      BY <1>2, <1>4, <2>1
    <3> QED BY <1>3, <3>1, SMT
  <2>2. CASE k \in 1..Len(rqs)
    <3>1. j \in 1..Len(rqs)
      BY <1>2, <1>3, <1>5, <2>2, SMT
    <3> QED BY <1>2, <1>5, <2>2, <3>1 DEF InOrder
  <2> QED BY <1>3, <2>1, <2>2
<1>6. last = c => \A k \in 1..Len(new) : new[k].call = c
  BY <1>2, <1>3 DEF InOrder
<1>7. InOrder(c, new, rsps, last)
  BY <1>2, <1>4, <1>5, <1>6 DEF InOrder
<1> QED BY <1>7 DEF new

LEMMA Takes ==
    ASSUME NEW c, NEW rqs, NEW rsps, NEW last, InOrder(c, rqs, rsps, last), rsps # <<>>
    PROVE  /\ InOrder(c, rqs, Tail(rsps), last)
           /\ Head(rsps).call \in 0..c
           /\ Head(rsps).cmd = "PL0_START" => Head(rsps).call = 0
           /\ Head(rsps).cmd = "RW" /\ Head(rsps).err \notin {"DEV_ACCESS", "RW_READ"} /\ Head(rsps).call = c
                => last = c
<1>1. IsSeq(rsps)
  BY DEF InOrder
<1> DEFINE rest == Tail(rsps)
<1>2. /\ IsSeq(rest) /\ Len(rsps) > 0 /\ Len(rest) = Len(rsps) - 1 /\ Len(rsps) \in Nat
      /\ \A k \in 1..Len(rest) : rest[k] = rsps[k + 1]
      /\ Head(rsps) = rsps[1]
  BY <1>1, TailAny DEF IsSeq
<1> HIDE DEF rest
<1>3. InOrder(c, rqs, rest, last)
  <2>1. \A k \in 1..Len(rest) : k + 1 \in 1..Len(rsps)
    BY <1>2, SMT
  <2>2. \A k \in 1..Len(rest) :
            /\ rest[k].call \in 0..c
            /\ rest[k].cmd = "PL0_START" => rest[k].call = 0
            /\ rest[k].cmd = "RW" /\ rest[k].err \notin {"DEV_ACCESS", "RW_READ"} /\ rest[k].call = c => last = c
    BY <1>2, <2>1 DEF InOrder
  <2> QED BY <1>2, <2>2 DEF InOrder
<1>4. 1 \in 1..Len(rsps)
  BY <1>2, SMT
<1> QED BY <1>2, <1>3, <1>4 DEF InOrder, rest

LEMMA Tells ==
    ASSUME NEW c, NEW rqs, NEW rsps, NEW last, InOrder(c, rqs, rsps, last),
           NEW p, p.call \in 0..c,
           p.cmd = "PL0_START" => p.call = 0,
           p.cmd = "RW" /\ p.err \notin {"DEV_ACCESS", "RW_READ"} /\ p.call = c => last = c
    PROVE  InOrder(c, rqs, Append(rsps, p), last)
<1>1. IsSeq(rsps)
  BY DEF InOrder
<1> DEFINE new == Append(rsps, p)
<1>2. /\ IsSeq(new) /\ Len(new) = Len(rsps) + 1 /\ Len(rsps) \in Nat
      /\ \A k \in 1..Len(rsps) : new[k] = rsps[k]
      /\ new[Len(rsps) + 1] = p
  BY <1>1, AppendAny DEF IsSeq
<1> HIDE DEF new
<1>3. \A k \in 1..Len(new) : k \in 1..Len(rsps) \/ k = Len(rsps) + 1
  BY <1>2, SMT
<1>4. \A k \in 1..Len(new) :
        /\ new[k].call \in 0..c
        /\ new[k].cmd = "PL0_START" => new[k].call = 0
        /\ new[k].cmd = "RW" /\ new[k].err \notin {"DEV_ACCESS", "RW_READ"} /\ new[k].call = c => last = c
  BY <1>2, <1>3 DEF InOrder
<1>5. InOrder(c, rqs, new, last)
  BY <1>2, <1>4 DEF InOrder
<1> QED BY <1>5 DEF new

LEMMA Removes ==
    ASSUME NEW c, NEW rqs, NEW rsps, NEW last, InOrder(c, rqs, rsps, last), rqs # <<>>
    PROVE  /\ c \in Nat /\ Head(rqs).call \in 1..c /\ Head(rqs).cmd # "PL0_START"
           /\ last = c => Head(rqs).call = c
           /\ InOrder(c, Tail(rqs), rsps, last)
           /\ InOrder(c, Tail(rqs), rsps, Head(rqs).call)
<1>1. IsSeq(rqs)
  BY DEF InOrder
<1> DEFINE rest == Tail(rqs)
<1>2. /\ IsSeq(rest) /\ Len(rqs) > 0 /\ Len(rest) = Len(rqs) - 1 /\ Len(rqs) \in Nat
      /\ \A k \in 1..Len(rest) : rest[k] = rqs[k + 1]
      /\ Head(rqs) = rqs[1]
  BY <1>1, TailAny DEF IsSeq
<1> HIDE DEF rest
<1>3. 1 \in 1..Len(rqs)
  BY <1>2, SMT
<1>4. /\ Head(rqs).call \in 1..c /\ Head(rqs).cmd # "PL0_START"
      /\ last = c => Head(rqs).call = c
  BY <1>2, <1>3 DEF InOrder
<1>5. InOrder(c, rest, rsps, last)
  <2>1. \A k \in 1..Len(rest) : k + 1 \in 1..Len(rqs)
    BY <1>2, SMT
  <2>2. \A k \in 1..Len(rest) : rest[k].call \in 1..c /\ rest[k].cmd # "PL0_START"
    BY <1>2, <2>1 DEF InOrder
  <2>3. \A j, k \in 1..Len(rest) : j <= k => rest[j].call <= rest[k].call
    <3> SUFFICES ASSUME NEW j \in 1..Len(rest), NEW k \in 1..Len(rest), j <= k
                 PROVE  rqs[j + 1].call <= rqs[k + 1].call
      BY <1>2
    <3>1. j + 1 <= k + 1
      BY <1>2, SMT
    <3> QED BY <2>1, <3>1 DEF InOrder
  <2>4. last = c => \A k \in 1..Len(rest) : rest[k].call = c
    BY <1>2, <2>1 DEF InOrder
  <2> QED BY <1>2, <2>2, <2>3, <2>4 DEF InOrder
<1>6. \A k \in 1..Len(rest) : k + 1 \in 1..Len(rqs) /\ 1 <= k + 1 /\ rest[k] = rqs[k + 1]
  BY <1>2, SMT
<1>7. \A k \in 1..Len(rest) : rqs[1].call <= rest[k].call /\ rest[k].call \in 1..c
  BY <1>3, <1>6 DEF InOrder
<1>8. InOrder(c, rest, rsps, rqs[1].call)
  <2>1. c \in Nat /\ rqs[1].call \in 1..c
    BY <1>2, <1>4 DEF InOrder
  <2>2. rqs[1].call \in 0..c
    BY <2>1, SMT
  <2>3. ASSUME rqs[1].call = c, NEW k \in 1..Len(rest)
        PROVE  rest[k].call = c
    <3>1. c <= rest[k].call /\ rest[k].call \in 1..c
      BY <1>7, <2>3
    <3> QED BY <2>1, <3>1, SMT
  <2>4. ASSUME NEW k \in 1..Len(rsps),
               rsps[k].cmd = "RW", rsps[k].err \notin {"DEV_ACCESS", "RW_READ"}, rsps[k].call = c
        PROVE  rqs[1].call = c
    <3>1. last = c
      BY <2>4 DEF InOrder
    <3> QED BY <1>3, <3>1 DEF InOrder
  <2>5. /\ IsSeq(rest) /\ IsSeq(rsps)
        /\ \A k \in 1..Len(rest) : rest[k].call \in 1..c /\ rest[k].cmd # "PL0_START"
        /\ \A j, k \in 1..Len(rest) : j <= k => rest[j].call <= rest[k].call
        /\ \A k \in 1..Len(rsps) : rsps[k].call \in 0..c /\ (rsps[k].cmd = "PL0_START" => rsps[k].call = 0)
    BY <1>5 DEF InOrder
  <2> QED BY <2>1, <2>2, <2>3, <2>4, <2>5 DEF InOrder
<1>9. c \in Nat
  BY DEF InOrder
<1> QED BY <1>2, <1>4, <1>5, <1>8, <1>9 DEF rest

--------------------------------------------------------------------------------
(* The steps of a call keep the invariant.                                    *)

Inv == ExecInv /\ SuccessIsExecuted

LEMMA NotDone ==
    ASSUME pc' # "idle" \/ op' \notin RwOps \/ ret' # "NONE"
    PROVE  SuccessIsExecuted'
BY DEF SuccessIsExecuted, Done

LEMMA RefuseInv ==
    ASSUME Inv, executed' = executed, NEW name, NEW v, NEW err, Refuse(name, v, err),
           name \notin RwOps \/ err # "NONE"
    PROVE  Inv'
<1>1. /\ call' = call + 1 /\ pc' = "idle" /\ op' = name /\ ret' = err
      /\ toServer' = toServer /\ fromServer' = fromServer
  BY DEF Refuse, Called, Return
<1>2. InOrder(call + 1, toServer, fromServer, executed.call)
  BY Begins DEF Inv, ExecInv
<1>3. ExecInv'
  BY <1>1, <1>2 DEF ExecInv
<1>4. SuccessIsExecuted'
  BY <1>1, NotDone
<1> QED BY <1>3, <1>4 DEF Inv

LEMMA SentInOrder ==
    ASSUME NEW id, NEW rsps, NEW last, InOrder(id, toServer, rsps, last), id > 0,
           NEW cmd, cmd # "PL0_START", NEW w
    PROVE  InOrder(id, Sent(id, Request(cmd, w)), rsps, last)
<1> DEFINE rq == [Request(cmd, w) EXCEPT !.call = id]
<1>1. rq.call = id /\ rq.cmd = cmd
  BY DEF Request
<1> HIDE DEF rq
<1>2. InOrder(id, Append(toServer, rq), rsps, last)
  BY <1>1, Asks
<1> QED BY <1>2 DEF Sent, rq

LEMMA ExecuteInv ==
    ASSUME Inv, executed' = executed, NEW name, NEW v, NEW cmd, cmd # "PL0_START", NEW w,
           Execute(name, v, Request(cmd, w))
    PROVE  Inv'
<1>1. /\ call' = call + 1 /\ pc' = "wait"
      /\ toServer' = Sent(call + 1, Request(cmd, w)) /\ fromServer' = fromServer
  BY DEF Execute, Called, Send
<1>2. call \in Nat /\ InOrder(call + 1, toServer, fromServer, executed.call)
  BY Begins DEF Inv, ExecInv, InOrder
<1>3. call + 1 > 0
  BY <1>2, SMT
<1>4. InOrder(call + 1, Sent(call + 1, Request(cmd, w)), fromServer, executed.call)
  BY <1>2, <1>3, SentInOrder
<1>5. ExecInv'
  BY <1>1, <1>3, <1>4 DEF ExecInv
<1>6. SuccessIsExecuted'
  BY <1>1, NotDone
<1> QED BY <1>5, <1>6 DEF Inv

LEMMA UndefinedInv ==
    ASSUME Inv, executed' = executed, NEW name, NEW v, Called(name, v), pc' \notin {"idle", "wait"},
           UNCHANGED <<toServer, fromServer>>
    PROVE  Inv'
<1>1. InOrder(call + 1, toServer, fromServer, executed.call)
  BY Begins DEF Inv, ExecInv
<1>2. ExecInv'
  BY <1>1 DEF ExecInv, Called
<1>3. SuccessIsExecuted'
  BY NotDone
<1> QED BY <1>2, <1>3 DEF Inv

LEMMA TakenInv ==
    ASSUME Inv, executed' = executed, NEW name, name \notin RwOps, Received(name),
           fromServer' = Tail(fromServer), UNCHANGED <<call, op>>,
           \/ toServer' = toServer
           \/ \E start : toServer' = Sent(call, get_pkt_rq_get_targets(start))
    PROVE  Inv'
<1>1. pc = "wait" /\ op = name /\ fromServer # <<>>
  BY DEF Received
<1>2. call > 0 /\ InOrder(call, toServer, Tail(fromServer), executed.call)
  BY <1>1, Takes DEF Inv, ExecInv
<1>3. InOrder(call, toServer', Tail(fromServer), executed.call)
  <2>1. CASE toServer' = toServer
    BY <1>2, <2>1
  <2>2. ASSUME NEW start, toServer' = Sent(call, get_pkt_rq_get_targets(start))
        PROVE  InOrder(call, toServer', Tail(fromServer), executed.call)
    BY <1>2, <2>2, SentInOrder DEF get_pkt_rq_get_targets
  <2> QED BY <2>1, <2>2
<1>4. ExecInv'
  BY <1>2, <1>3 DEF ExecInv
<1>5. SuccessIsExecuted'
  BY <1>1, NotDone
<1> QED BY <1>4, <1>5 DEF Inv

--------------------------------------------------------------------------------
(* A call begins.                                                             *)

LEMMA QueryInv ==
    ASSUME Inv, executed' = executed, NEW name, name \notin RwOps, NEW v, NEW cmd, cmd # "PL0_START", NEW w,
           BeginQuery(name, v, Request(cmd, w))
    PROVE  Inv'
<1>1. CASE mRcvChlActive
  <2>1. Refuse(name, v, "FN_USAGE")
    BY <1>1 DEF BeginQuery
  <2> QED BY <2>1, RefuseInv
<1>2. CASE ~mRcvChlActive
  <2>1. Execute(name, v, Request(cmd, w))
    BY <1>2 DEF BeginQuery
  <2> QED BY <2>1, ExecuteInv
<1> QED BY <1>1, <1>2

LEMMA WithoutPacketInv ==
    ASSUME Inv, executed' = executed, NEW name, name \notin RwOps, WithoutPacket(name)
    PROVE  Inv'
<1>1. CASE mRcvChlActive
  <2>1. Refuse(name, NoArg, "FN_USAGE")
    BY <1>1 DEF WithoutPacket
  <2> QED BY <2>1, RefuseInv
<1>2. CASE ~mRcvChlActive
  <2>1. /\ Called(name, NoArg) /\ pc' = "null"
        /\ UNCHANGED <<toServer, fromServer>>
    BY <1>2 DEF WithoutPacket
  <2> QED BY <2>1, UndefinedInv
<1> QED BY <1>1, <1>2

LEMMA ConnectInv ==
    ASSUME Inv, executed' = executed, server_connect
    PROVE  Inv'
<1>1. CASE mServerIpAddr
  <2>1. Refuse("server_connect", NoArg, "FN_USAGE")
    BY <1>1 DEF server_connect
  <2> QED BY <2>1, RefuseInv DEF RwOps
<1>2. CASE ~mServerIpAddr
  <2> DEFINE rq == [get_pkt_rq_server_connect EXCEPT !.call = call + 1]
  <2>1. /\ call' = call + 1 /\ op' = "server_connect" /\ fromServer' = <<>>
        /\ toServer' = <<rq>> \/ toServer' = <<>>
    BY <1>2 DEF server_connect, Called
  <2>2. rq.call = call + 1 /\ rq.cmd = "SERVER_CONNECT"
    BY DEF get_pkt_rq_server_connect, Request
  <2> HIDE DEF rq
  <2>3. /\ InOrder(call + 1, toServer, fromServer, executed.call)
        /\ call \in Nat
    BY Begins DEF Inv, ExecInv, InOrder
  <2>4. InOrder(call + 1, <<>>, <<>>, executed.call) /\ call + 1 > 0
    BY <2>3, Drops, SMT
  <2>5. InOrder(call + 1, Append(<<>>, rq), <<>>, executed.call)
    BY <2>2, <2>4, Asks
  <2>6. Append(<<>>, rq) = <<rq>>
    BY SMT
  <2>7. ExecInv'
    BY <2>1, <2>4, <2>5, <2>6 DEF ExecInv
  <2>8. SuccessIsExecuted'
    BY <2>1, NotDone DEF RwOps
  <2> QED BY <2>7, <2>8 DEF Inv
<1> QED BY <1>1, <1>2

LEMMA ExecuteTransInv ==
    ASSUME Inv, executed' = executed, NEW name, NEW a, execute_trans(name, a)
    PROVE  Inv'
<1>1. CASE Refuse(name, NoAccess, "FN_USAGE")
  BY <1>1, RefuseInv
<1>2. CASE Refuse(name, NoAccess, "FN_PARAM")
  BY <1>2, RefuseInv
<1>3. CASE Execute(name, a, Request("RW", a))
  BY <1>3, ExecuteInv
<1>4. CASE Called(name, a) /\ pc' = "runaway" /\ UNCHANGED <<toServer, fromServer>>
  BY <1>4, UndefinedInv
<1> QED BY <1>1, <1>2, <1>3, <1>4 DEF execute_trans

LEMMA CallInv ==
    ASSUME Inv, Call
    PROVE  Inv'
<1> USE DEF RwOps
<1>1. CASE BaseCall /\ UNCHANGED rwVars
  <2>1. executed' = executed
    BY <1>1 DEF rwVars
  <2>2. CASE server_connect
    BY <2>1, <2>2, ConnectInv
  <2>3. CASE server_unlock
    BY <2>1, <2>3, WithoutPacketInv DEF server_unlock
  <2>4. CASE get_targets
    BY <2>1, <2>4, QueryInv DEF get_targets, get_pkt_rq_get_targets
  <2>5. CASE get_target_clients
    BY <2>1, <2>5, QueryInv DEF get_target_clients, get_pkt_rq_get_target_clients
  <2>6. CASE device_unlock_get_challenge
    BY <2>1, <2>6, WithoutPacketInv DEF device_unlock_get_challenge
  <2>7. CASE device_unlock_set_key
    BY <2>1, <2>7, QueryInv DEF device_unlock_set_key, get_pkt_rq_device_unlock_set_key
  <2> QED BY <1>1, <2>2, <2>3, <2>4, <2>5, <2>6, <2>7 DEF BaseCall
<1>2. CASE session_start
  <2> DEFINE v == [chl |-> FALSE]
  <2>1. executed' = executed
    BY <1>2 DEF session_start, rwVars
  <2>2. Refuse("session_start", v, "FN_USAGE") \/ Execute("session_start", v, get_pkt_rq_session_start)
    BY <1>2 DEF session_start, mSessionStart
  <2>3. CASE Refuse("session_start", v, "FN_USAGE")
    BY <2>1, <2>3, RefuseInv
  <2>4. CASE Execute("session_start", v, get_pkt_rq_session_start)
    BY <2>1, <2>4, ExecuteInv DEF get_pkt_rq_session_start
  <2> QED BY <2>2, <2>3, <2>4
<1>3. CASE target_ping
  <2> DEFINE v == [chl |-> FALSE]
  <2>1. executed' = executed
    BY <1>3 DEF target_ping, rwVars
  <2>2. Refuse("target_ping", v, "FN_USAGE") \/ Execute("target_ping", v, get_pkt_rq_ping)
    BY <1>3 DEF target_ping
  <2>3. CASE Refuse("target_ping", v, "FN_USAGE")
    BY <2>1, <2>3, RefuseInv
  <2>4. CASE Execute("target_ping", v, get_pkt_rq_ping)
    BY <2>1, <2>4, ExecuteInv DEF get_pkt_rq_ping
  <2> QED BY <2>2, <2>3, <2>4
<1>4. CASE device_connect
  <2>1. executed' = executed
    BY <1>4 DEF device_connect, rwVars
  <2> QED BY <1>4, <2>1, QueryInv DEF device_connect, mDeviceConnect, get_pkt_rq_device_connect
<1>5. CASE device_reset_occurred
  <2>1. executed' = executed
    BY <1>5 DEF device_reset_occurred, Device
  <2>2. \E v : Refuse("device_reset_occurred", v, "NONE")
    BY <1>5 DEF device_reset_occurred
  <2> QED BY <2>1, <2>2, RefuseInv
<1>6. CASE ExecuteTrans
  <2>1. executed' = executed
    BY <1>6 DEF ExecuteTrans, rwVars
  <2> QED BY <1>6, <2>1, ExecuteTransInv DEF ExecuteTrans
<1>7. CASE mExecuteSingleTrans
  <2>1. executed' = executed
    BY <1>7 DEF mExecuteSingleTrans, Device
  <2> QED BY <1>7, <2>1, ExecuteTransInv DEF mExecuteSingleTrans
<1>8. CASE fill32
  <2>1. executed' = executed
    BY <1>8 DEF fill32, rwVars
  <2>2. Refuse("fill32", NoAccess, "FN_PARAM") \/ \E a : execute_trans("fill32", a)
    BY <1>8 DEF fill32
  <2> QED BY <2>1, <2>2, RefuseInv, ExecuteTransInv
<1>9. CASE fill64
  <2>1. executed' = executed
    BY <1>9 DEF fill64, rwVars
  <2>2. Refuse("fill64", NoAccess, "FN_PARAM") \/ \E a : execute_trans("fill64", a)
    BY <1>9 DEF fill64
  <2> QED BY <2>1, <2>2, RefuseInv, ExecuteTransInv
<1> QED BY <1>1, <1>2, <1>3, <1>4, <1>5, <1>6, <1>7, <1>8, <1>9 DEF Call

--------------------------------------------------------------------------------
(* A call takes a packet or is given up.                                      *)

LEMMA RespondedInv ==
    ASSUME Inv, Responded
    PROVE  Inv'
<1> DEFINE p == Head(fromServer)
<1>1. /\ pc = "wait" /\ fromServer # <<>> /\ fromServer' = Tail(fromServer)
      /\ toServer' = toServer /\ call' = call /\ op' = op /\ taken' = p.call /\ executed' = executed
      /\ ret' = rw_set_rsp(p)
      /\ op = "read" => num_bytes_ok' = IF ret' = "NONE" /\ p.cmd = "RW" THEN arg.bytes ELSE 0
  BY DEF Responded, Received, Return, Take, Device
<1>2. /\ call > 0 /\ InOrder(call, toServer, Tail(fromServer), executed.call)
      /\ p.cmd = "PL0_START" => p.call = 0
      /\ p.cmd = "RW" /\ p.err \notin {"DEV_ACCESS", "RW_READ"} /\ p.call = call => executed.call = call
  BY <1>1, Takes DEF Inv, ExecInv
<1>3. ExecInv'
  BY <1>1, <1>2 DEF ExecInv
<1> HIDE DEF p
<1>4. rw_set_rsp(p) = "NONE" =>
        \/ p.cmd = "PL0_START"
        \/ p.cmd = "RW" /\ p.err \notin {"DEV_ACCESS", "RW_READ"} /\ p.call = call
  BY DEF rw_set_rsp
<1>5. SuccessIsExecuted'
  <2> SUFFICES ASSUME NEW name \in RwOps, Done(name)', ret' = "NONE",
                      taken' # 0 \/ (name = "read" /\ num_bytes_ok' # 0)
               PROVE  taken' = call' /\ executed'.call = call'
    BY DEF SuccessIsExecuted
  <2>1. op = name
    BY <1>1 DEF Done
  <2>2. p.cmd # "PL0_START"
    BY <1>1, <1>2, <2>1
  <2> QED BY <1>1, <1>2, <1>4, <2>2
<1> QED BY <1>3, <1>5 DEF Inv

LEMMA GivenUpInv ==
    ASSUME Inv, GivenUp
    PROVE  Inv'
<1>1. executed' = executed /\ call' = call
  BY DEF GivenUp, Device, Timeout, Lost, Overrun, Failed
<1>2. /\ pc = "wait"
      /\ pc' # "idle" \/ ret' # "NONE"
      /\ \/ UNCHANGED <<toServer, fromServer>>
         \/ toServer' = <<>> /\ fromServer' = <<>>
  BY DEF GivenUp, Timeout, Lost, Overrun, Return, Disconnect
<1>3. /\ call > 0 /\ InOrder(call, toServer, fromServer, executed.call)
      /\ InOrder(call, <<>>, <<>>, executed.call)
  BY <1>2, Drops DEF Inv, ExecInv
<1>4. ExecInv'
  BY <1>1, <1>2, <1>3 DEF ExecInv
<1>5. SuccessIsExecuted'
  BY <1>2, NotDone
<1> QED BY <1>4, <1>5 DEF Inv

LEMMA StepInv ==
    ASSUME Inv, Step
    PROVE  Inv'
<1> USE DEF RwOps
<1>1. CASE BaseStep /\ UNCHANGED rwVars
  <2>1. executed' = executed
    BY <1>1 DEF rwVars
  <2>2. CASE ServerConnected
    BY <2>1, <2>2, TakenInv DEF ServerConnected, Take
  <2>3. CASE KeySet
    BY <2>1, <2>3, TakenInv DEF KeySet, Take
  <2>4. CASE set_pkt_rsp_get_targets
    <3>1. /\ Received("get_targets") /\ fromServer' = Tail(fromServer) /\ UNCHANGED <<call, op>>
          /\ \/ toServer' = toServer
             \/ \E start : toServer' = Sent(call, get_pkt_rq_get_targets(start))
      BY <2>4 DEF set_pkt_rsp_get_targets, Take
    <3> QED BY <2>1, <3>1, TakenInv
  <2>5. CASE set_pkt_rsp_get_target_clients
    BY <2>1, <2>5, TakenInv DEF set_pkt_rsp_get_target_clients, Take
  <2> QED BY <1>1, <2>2, <2>3, <2>4, <2>5 DEF BaseStep
<1>2. CASE RwSessionStarted
  BY <1>2, TakenInv DEF RwSessionStarted, SessionStarted, Take, Device
<1>3. CASE Pinged
  BY <1>3, TakenInv DEF Pinged, Take, Device
<1>4. CASE RwDeviceConnected
  BY <1>4, TakenInv DEF RwDeviceConnected, DeviceConnected, Take, Device
<1>5. CASE Responded
  BY <1>5, RespondedInv
<1>6. CASE GivenUp
  BY <1>6, GivenUpInv
<1> QED BY <1>1, <1>2, <1>3, <1>4, <1>5, <1>6 DEF Step

--------------------------------------------------------------------------------
(* The server.                                                                *)

LEMMA SameDone ==
    ASSUME SuccessIsExecuted, UNCHANGED <<pc, op, ret, taken, num_bytes_ok, call>>,
           executed.call = call => executed'.call = call
    PROVE  SuccessIsExecuted'
BY DEF SuccessIsExecuted, Done

LEMMA AnsweredInv ==
    ASSUME Inv, Answered, UNCHANGED rwVars, toServer # <<>>,
           NEW p, fromServer' = Append(fromServer, p), p.call = Head(toServer).call,
           p.cmd \notin {"RW", "PL0_START"}
    PROVE  Inv'
<1>1. /\ toServer' = Tail(toServer) /\ executed' = executed
      /\ UNCHANGED <<pc, op, ret, taken, num_bytes_ok, call>>
  BY DEF Answered, rwVars
<1>2. /\ InOrder(call, Tail(toServer), fromServer, executed.call)
      /\ call \in Nat /\ p.call \in 1..call
  BY Removes DEF Inv, ExecInv
<1>3. p.call \in 0..call
  BY <1>2, SMT
<1>4. InOrder(call, Tail(toServer), Append(fromServer, p), executed.call)
  BY <1>2, <1>3, Tells
<1>5. ExecInv'
  BY <1>1, <1>4 DEF Inv, ExecInv
<1>6. SuccessIsExecuted'
  BY <1>1, SameDone DEF Inv
<1> QED BY <1>5, <1>6 DEF Inv

LEMMA ExecutesInv ==
    ASSUME Inv, ServerExecutes
    PROVE  Inv'
<1> DEFINE rq == Head(toServer)
<1>1. /\ toServer # <<>> /\ toServer' = Tail(toServer)
      /\ UNCHANGED <<pc, op, ret, taken, num_bytes_ok, call>>
  BY DEF ServerExecutes, Pending, Answered
<1>2. PICK e \in RwErrors \cup {"NO_ERROR"}, reset \in BOOLEAN :
        /\ executed' = IF e = "NO_ERROR" THEN [call |-> rq.call, words |-> Words(rq.v.trans)] ELSE executed
        /\ fromServer' = Append(fromServer, Answer("RW", rq.call, e, [reset |-> reset, bytes |-> rq.v.bytes]))
  BY DEF ServerExecutes, Push
<1> DEFINE p == Answer("RW", rq.call, e, [reset |-> reset, bytes |-> rq.v.bytes])
           last == IF e = "NO_ERROR" THEN rq.call ELSE executed.call
<1>3. p.cmd = "RW" /\ p.call = rq.call /\ p.err = e
  BY DEF Answer
<1>4. executed'.call = last
  BY <1>2
<1>5. e # "NO_ERROR" => e \in {"DEV_ACCESS", "RW_READ"}
  BY AnswerAssumption
<1>6. /\ call \in Nat /\ rq.call \in 1..call
      /\ executed.call = call => rq.call = call
      /\ InOrder(call, Tail(toServer), fromServer, executed.call)
  BY <1>1, Removes DEF Inv, ExecInv
<1>7. InOrder(call, toServer, fromServer, last)
  <2>1. CASE e = "NO_ERROR"
    <3>1. IsSeq(toServer) /\ Len(toServer) > 0 /\ Head(toServer) = toServer[1] /\ Len(toServer) \in Nat
      BY <1>1, TailAny DEF Inv, ExecInv, InOrder, IsSeq
    <3>2. 1 \in 1..Len(toServer) /\ \A k \in 1..Len(toServer) : 1 <= k
      BY <3>1, SMT
    <3>3. \A k \in 1..Len(toServer) : rq.call <= toServer[k].call /\ toServer[k].call \in 1..call
      BY <3>1, <3>2 DEF Inv, ExecInv, InOrder
    <3>4. rq.call = call => \A k \in 1..Len(toServer) : toServer[k].call = call
      <4> HIDE DEF rq
      <4> QED BY <1>6, <3>3, SMT
    <3>5. rq.call \in 0..call
      <4> HIDE DEF rq
      <4> QED BY <1>6, SMT
    <3> QED BY <1>6, <2>1, <3>4, <3>5 DEF Inv, ExecInv, InOrder
  <2>2. CASE e # "NO_ERROR"
    BY <2>2 DEF Inv, ExecInv
  <2> QED BY <2>1, <2>2
<1> HIDE DEF last, p
<1>8. InOrder(call, Tail(toServer), fromServer, last)
  BY <1>1, <1>7, Removes
<1>9. /\ p.call \in 0..call
      /\ p.cmd = "RW" /\ p.err \notin {"DEV_ACCESS", "RW_READ"} /\ p.call = call => last = call
  <2>1. rq.call \in 0..call
    <3> HIDE DEF rq
    <3> QED BY <1>6, SMT
  <2> QED BY <1>3, <1>5, <2>1 DEF last
<1>10. InOrder(call, Tail(toServer), Append(fromServer, p), last)
  BY <1>3, <1>8, <1>9, Tells
<1>11. ExecInv'
  BY <1>1, <1>2, <1>4, <1>10 DEF Inv, ExecInv, p
<1>12. executed.call = call => executed'.call = call
  BY <1>4, <1>6 DEF last
<1>13. SuccessIsExecuted'
  BY <1>1, <1>12, SameDone DEF Inv
<1> QED BY <1>11, <1>13 DEF Inv

LEMMA TellsResetInv ==
    ASSUME Inv, ServerTellsReset
    PROVE  Inv'
<1> DEFINE p == HeaderOnly("PL0_START", 0, "DEV_RESET")
<1>1. /\ fromServer' = Append(fromServer, p)
      /\ UNCHANGED <<toServer, executed>>
      /\ UNCHANGED <<pc, op, ret, taken, num_bytes_ok, call>>
  BY DEF ServerTellsReset, Push
<1>2. p.cmd = "PL0_START" /\ p.call = 0
  BY DEF HeaderOnly
<1>3. 0 \in 0..call
  <2>1. call \in Nat
    BY DEF Inv, ExecInv, InOrder
  <2> QED BY <2>1, SMT
<1> HIDE DEF p
<1>4. InOrder(call, toServer, Append(fromServer, p), executed.call)
  BY <1>2, <1>3, Tells DEF Inv, ExecInv
<1>5. ExecInv'
  BY <1>1, <1>4 DEF Inv, ExecInv
<1>6. SuccessIsExecuted'
  BY <1>1, SameDone DEF Inv
<1> QED BY <1>5, <1>6 DEF Inv

LEMMA EnvironmentInv ==
    ASSUME Inv, Environment
    PROVE  Inv'
<1> DEFINE rq == Head(toServer)
<1>1. CASE ServerSendsTargets /\ UNCHANGED rwVars
  <2>1. Answered /\ toServer # <<>> /\ rq.cmd = "GET_TARGETS"
    BY <1>1 DEF ServerSendsTargets, Pending
  <2>2. \E v : fromServer' = Append(fromServer, Answer(rq.cmd, rq.call, "NO_ERROR", v))
    BY <1>1 DEF ServerSendsTargets, Push
  <2> QED BY <1>1, <2>1, <2>2, AnsweredInv DEF Answer
<1>2. CASE ServerSendsClients /\ UNCHANGED rwVars
  <2>1. Answered /\ toServer # <<>> /\ rq.cmd = "GET_CLIENTS"
    BY <1>2 DEF ServerSendsClients, Pending
  <2>2. \E v : fromServer' = Append(fromServer, Answer(rq.cmd, rq.call, "NO_ERROR", v))
    BY <1>2 DEF ServerSendsClients, Push
  <2> QED BY <1>2, <2>1, <2>2, AnsweredInv DEF Answer
<1>3. CASE ServerSendsConInfo /\ UNCHANGED rwVars
  <2>1. Answered /\ toServer # <<>> /\ rq.cmd \in {"SESSION_START", "PING"}
    BY <1>3 DEF ServerSendsConInfo, Pending
  <2>2. \E v : fromServer' = Append(fromServer, Answer(rq.cmd, rq.call, "NO_ERROR", v))
    BY <1>3 DEF ServerSendsConInfo, Push
  <2> QED BY <1>3, <2>1, <2>2, AnsweredInv DEF Answer
<1>4. CASE ServerSendsOk /\ UNCHANGED rwVars
  <2>1. Answered /\ toServer # <<>> /\ rq.cmd \in {"SERVER_CONNECT", "SET_DEVICE_KEY", "DEVICE_CONNECT"}
    BY <1>4 DEF ServerSendsOk, Pending
  <2>2. \E v : fromServer' = Append(fromServer, Answer(rq.cmd, rq.call, "NO_ERROR", v))
    BY <1>4 DEF ServerSendsOk, Push
  <2> QED BY <1>4, <2>1, <2>2, AnsweredInv DEF Answer
<1>5. CASE ServerSendsError /\ UNCHANGED rwVars
  <2>1. Answered /\ toServer # <<>>
    BY <1>5 DEF ServerSendsError
  <2>2. PICK e \in Errs(rq) :
          fromServer' = Append(fromServer, IF e.full THEN Answer(rq.cmd, rq.call, e.err, e.v)
                                           ELSE HeaderOnly(rq.cmd, rq.call, e.err))
    BY <1>5 DEF ServerSendsError, Push
  <2>3. rq.cmd \notin {"RW", "PL0_START"}
    BY <2>2, AnswerAssumption DEF Errs
  <2> QED BY <1>5, <2>1, <2>2, <2>3, AnsweredInv DEF Answer, HeaderOnly
<1>6. CASE ServerCloses /\ UNCHANGED rwVars
  <2>1. /\ toServer' = <<>> /\ UNCHANGED <<fromServer, executed>>
        /\ UNCHANGED <<pc, op, ret, taken, num_bytes_ok, call>>
    BY <1>6 DEF ServerCloses, rwVars
  <2>2. InOrder(call, <<>>, fromServer, executed.call)
    BY Drops DEF Inv, ExecInv
  <2>3. ExecInv'
    BY <2>1, <2>2 DEF Inv, ExecInv
  <2>4. SuccessIsExecuted'
    BY <2>1, SameDone DEF Inv
  <2> QED BY <2>3, <2>4 DEF Inv
<1>7. CASE ServerExecutes
  BY <1>7, ExecutesInv
<1>8. CASE ServerTellsReset
  BY <1>8, TellsResetInv
<1> QED BY <1>1, <1>2, <1>3, <1>4, <1>5, <1>6, <1>7, <1>8 DEF Environment, Server

--------------------------------------------------------------------------------
(* The theorems.                                                              *)

LEMMA Executing == Spec => []Inv
<1>1. Init => Inv
  <2> SUFFICES ASSUME Init PROVE Inv
    OBVIOUS
  <2>1. /\ call = 0 /\ toServer = <<>> /\ fromServer = <<>> /\ executed.call = 0
        /\ pc = "idle" /\ op = ""
    BY DEF Init, BaseInit
  <2>2. InOrder(0, <<>>, <<>>, 0)
    BY ShortSeq, SMT DEF InOrder
  <2>3. ExecInv
    BY <2>1, <2>2 DEF ExecInv
  <2>4. SuccessIsExecuted
    BY <2>1 DEF SuccessIsExecuted, Done, RwOps
  <2> QED BY <2>3, <2>4 DEF Inv
<1>2. Inv /\ [Next]_vars => Inv'
  <2> SUFFICES ASSUME Inv, [Next]_vars PROVE Inv'
    OBVIOUS
  <2>1. CASE UNCHANGED vars
    <3>1. UNCHANGED <<pc, op, ret, taken, num_bytes_ok, call, executed, toServer, fromServer>>
      BY <2>1 DEF vars, baseVars, rwVars
    <3>2. ExecInv'
      BY <3>1 DEF Inv, ExecInv
    <3>3. SuccessIsExecuted'
      BY <3>1, SameDone DEF Inv
    <3> QED BY <3>2, <3>3 DEF Inv
  <2> QED BY <2>1, CallInv, StepInv, EnvironmentInv DEF Next
<1> QED BY <1>1, <1>2, PTL DEF Spec

\* Whatever the server answers, and however late: an access that succeeds by a packet
\* that answers a request has been executed, by rw_set_rsp() and the count it compares.
THEOREM SuccessCorrect == Spec => []SuccessIsExecuted
<1>1. Inv => SuccessIsExecuted
  BY DEF Inv
<1> QED BY <1>1, Executing, PTL

\* The limits by which rw_start() and the block loops divide accesses are those of a
\* device that set_pkt_rsp_ping() let through, unless a ping has failed.
THEOREM LimitsCorrect == Spec => []LimitsUsable
<1>1. Init => LimitsUsable
  BY DEF Init, LimitsUsable
<1>2. LimitsUsable /\ [Next]_vars => LimitsUsable'
  <2> SUFFICES ASSUME LimitsUsable, [Next]_vars PROVE LimitsUsable'
    OBVIOUS
  <2> DEFINE Limited(info) == info.rq >= TAS_PL2_MAX_PKT_SIZE_MIN /\ info.rsp >= TAS_PL2_MAX_PKT_SIZE_MIN
  <2>1. ASSUME NEW p, NEW cmd, set_pkt_rsp_ping(p, cmd, FALSE) = "NONE"
        PROVE  ConInfoAfterPing(p, cmd, FALSE) = p.v /\ Limited(p.v)
    <3>1. ValidConInfo(p.v)
      BY <2>1 DEF set_pkt_rsp_ping, mHandlePktError
    <3> QED BY <2>1, <3>1 DEF ConInfoAfterPing, ValidConInfo
  <2>2. CASE UNCHANGED <<mTphRw, rwConInfo, pingFailed>>
    BY <2>2 DEF LimitsUsable
  <2>3. CASE RwSessionStarted
    BY <2>1, <2>3 DEF RwSessionStarted, SessionStarted, Return, LimitsUsable
  <2>4. CASE Pinged
    BY <2>1, <2>4 DEF Pinged, Return, LimitsUsable
  <2>5. CASE Call
    <3>1. UNCHANGED <<mTphRw, rwConInfo, pingFailed>>
      BY <2>5 DEF Call, session_start, target_ping, device_connect, device_reset_occurred, ExecuteTrans,
                  mExecuteSingleTrans, fill32, fill64, rwVars, Handler
    <3> QED BY <2>2, <3>1
  <2>6. CASE (BaseStep /\ UNCHANGED rwVars) \/ RwDeviceConnected \/ Responded \/ GivenUp
    <3>1. UNCHANGED <<mTphRw, rwConInfo, pingFailed>>
      BY <2>6 DEF RwDeviceConnected, Responded, GivenUp, rwVars, Handler
    <3> QED BY <2>2, <3>1
  <2>7. CASE Environment
    <3>1. UNCHANGED <<mTphRw, rwConInfo, pingFailed>>
      BY <2>7 DEF Environment, ServerExecutes, ServerTellsReset, rwVars, Handler
    <3> QED BY <2>2, <3>1
  <2>8. CASE UNCHANGED vars
    BY <2>2, <2>8 DEF vars, rwVars
  <2> QED BY <2>3, <2>4, <2>5, <2>6, <2>7, <2>8 DEF Next, Step
<1> QED BY <1>1, <1>2, PTL DEF Spec

--------------------------------------------------------------------------------
(* Resets of the device.                                                      *)

\* What device_reset_occurred() compares is what it has not told of.
Compared ==
    /\ call \in Nat /\ resetCount \in Nat /\ untold \in BOOLEAN
    /\ mDeviceResetCount # NoCount =>
        mDeviceResetCount \in Nat /\ mDeviceResetCount <= resetCount /\ untold = (resetCount > mDeviceResetCount)

LEMMA CallCounts ==
    ASSUME call \in Nat, Next
    PROVE  /\ call' \in Nat
           /\ call' = call \/ (Call /\ call' = call + 1)
<1>1. CASE Call
  <2>1. call' = call + 1
    <3> USE DEF Refuse, Execute, Called
    <3>1. CASE BaseCall
      BY <3>1 DEF BaseCall, server_connect, server_unlock, get_targets, get_target_clients,
                  device_unlock_get_challenge, device_unlock_set_key, BeginQuery, WithoutPacket
    <3>2. CASE session_start \/ target_ping \/ device_connect \/ device_reset_occurred
      BY <3>2 DEF session_start, mSessionStart, target_ping, device_connect, mDeviceConnect, BeginQuery,
                  device_reset_occurred
    <3>3. CASE ExecuteTrans \/ mExecuteSingleTrans \/ fill32 \/ fill64
      BY <3>3 DEF ExecuteTrans, mExecuteSingleTrans, fill32, fill64, execute_trans
    <3> QED BY <1>1, <3>1, <3>2, <3>3 DEF Call
  <2> QED BY <1>1, <2>1, SMT
<1>2. CASE Step
  <2>1. call' = call
    BY <1>2 DEF Step, BaseStep, ServerConnected, KeySet, set_pkt_rsp_get_targets, set_pkt_rsp_get_target_clients,
                RwSessionStarted, SessionStarted, Pinged, RwDeviceConnected, DeviceConnected, Responded, GivenUp,
                Timeout, Lost, Overrun, Failed, Take
  <2> QED BY <2>1
<1>3. CASE Environment
  <2>1. call' = call
    BY <1>3 DEF Environment, Server, ServerSendsTargets, ServerSendsClients, ServerSendsConInfo, ServerSendsOk,
                ServerSendsError, Answered, ServerCloses, ServerExecutes, ServerTellsReset
  <2> QED BY <2>1
<1> QED BY <1>1, <1>2, <1>3 DEF Next

LEMMA ComparedStep ==
    ASSUME Compared, Next
    PROVE  Compared'
<1>1. call' \in Nat
  BY CallCounts DEF Compared
<1>2. CASE UNCHANGED <<resetCount, mDeviceResetCount, untold>>
  BY <1>1, <1>2 DEF Compared
<1>3. CASE resetCount' = resetCount /\ mDeviceResetCount' = resetCount /\ untold' = FALSE
  <2>1. resetCount <= resetCount /\ ~(resetCount > resetCount)
    BY DEF Compared
  <2>2. (resetCount > resetCount) = FALSE
    BY <2>1
  <2>3. untold' = (resetCount' > mDeviceResetCount')
    BY <1>3, <2>2
  <2>4. mDeviceResetCount' \in Nat /\ mDeviceResetCount' <= resetCount' /\ resetCount' \in Nat
    BY <1>3, <2>1 DEF Compared
  <2>5. untold' \in BOOLEAN
    BY <1>3
  <2> QED BY <1>1, <2>3, <2>4, <2>5, Zenon DEF Compared
<1>4. CASE Responded
  <2>1. /\ mDeviceResetCount' = mDeviceResetCount
        /\ \/ resetCount' = resetCount + 1 /\ untold' = TRUE
           \/ resetCount' = resetCount + 0 /\ untold' = untold
    <3>1. CASE CountsReset(Head(fromServer))
      BY <1>4, <3>1 DEF Responded, stateVars
    <3>2. CASE ~CountsReset(Head(fromServer))
      <4>1. mDeviceResetCount' = mDeviceResetCount /\ resetCount' = resetCount + 0
        BY <1>4, <3>2 DEF Responded, stateVars
      <4>2. untold' = (untold \/ CountsReset(Head(fromServer)))
        BY <1>4 DEF Responded
      <4>3. untold' = untold
        BY <3>2, <4>2, Zenon DEF Compared
      <4> QED BY <4>1, <4>3
    <3> QED BY <3>1, <3>2
  <2>2. resetCount \in Nat
    BY DEF Compared
  <2>3. resetCount + 0 = resetCount /\ resetCount + 1 \in Nat
    BY <2>2, SMT
  <2>4. CASE resetCount' = resetCount + 1 /\ untold' = TRUE
    <3>1. ASSUME mDeviceResetCount # NoCount
          PROVE  /\ mDeviceResetCount \in Nat /\ mDeviceResetCount <= resetCount + 1
                 /\ resetCount + 1 > mDeviceResetCount
      BY <3>1, SMT DEF Compared
    <3> QED BY <1>1, <2>1, <2>3, <2>4, <3>1, Zenon DEF Compared
  <2>5. CASE resetCount' = resetCount + 0 /\ untold' = untold
    BY <1>1, <2>1, <2>3, <2>5 DEF Compared
  <2> QED BY <2>1, <2>4, <2>5
<1>5. CASE session_start
  <2>1. /\ UNCHANGED <<resetCount, untold>>
        /\ mDeviceResetCount' = mDeviceResetCount \/ mDeviceResetCount' = NoCount
    BY <1>5 DEF session_start, mSessionStart, rwVars
  <2> QED BY <1>1, <2>1 DEF Compared
<1>6. CASE device_reset_occurred
  <2>1. /\ resetCount' = resetCount
        /\ \/ UNCHANGED <<mDeviceResetCount, untold>>
           \/ mDeviceResetCount' = resetCount /\ untold' = FALSE
    BY <1>6 DEF device_reset_occurred
  <2> QED BY <1>2, <1>3, <2>1
<1>7. CASE RwDeviceConnected \/ GivenUp
  <2>1. /\ resetCount' = resetCount
        /\ \/ UNCHANGED <<mDeviceResetCount, untold>>
           \/ mDeviceResetCount' = resetCount /\ untold' = FALSE
    BY <1>7 DEF RwDeviceConnected, GivenUp, TakesCount
  <2> QED BY <1>2, <1>3, <2>1
<1>8. CASE RwSessionStarted \/ Pinged \/ (BaseStep /\ UNCHANGED rwVars)
  <2>1. UNCHANGED <<resetCount, mDeviceResetCount, untold>>
    BY <1>8 DEF RwSessionStarted, SessionStarted, Pinged, Counted, BaseStep, ServerConnected, KeySet,
                set_pkt_rsp_get_targets, set_pkt_rsp_get_target_clients, rwVars, stateVars
  <2> QED BY <1>2, <2>1
<1>9. CASE \/ BaseCall /\ UNCHANGED rwVars
           \/ target_ping \/ device_connect \/ ExecuteTrans \/ mExecuteSingleTrans \/ fill32 \/ fill64
  <2>1. CASE BaseCall /\ UNCHANGED rwVars
    <3>1. UNCHANGED <<resetCount, mDeviceResetCount, untold>>
      BY <2>1 DEF BaseCall, server_connect, server_unlock, get_targets, get_target_clients,
                  device_unlock_get_challenge, device_unlock_set_key, BeginQuery, WithoutPacket, rwVars, stateVars
    <3> QED BY <1>2, <3>1
  <2>2. CASE target_ping \/ device_connect
    <3>1. UNCHANGED <<resetCount, mDeviceResetCount, untold>>
      BY <2>2 DEF target_ping, device_connect, mDeviceConnect, BeginQuery, rwVars, stateVars
    <3> QED BY <1>2, <3>1
  <2>3. CASE ExecuteTrans \/ mExecuteSingleTrans
    <3>1. UNCHANGED <<resetCount, mDeviceResetCount, untold>>
      BY <2>3 DEF ExecuteTrans, mExecuteSingleTrans, execute_trans, rwVars, stateVars
    <3> QED BY <1>2, <3>1
  <2>4. CASE fill32 \/ fill64
    <3>1. UNCHANGED <<resetCount, mDeviceResetCount, untold>>
      BY <2>4 DEF fill32, fill64, execute_trans, rwVars, stateVars
    <3> QED BY <1>2, <3>1
  <2> QED BY <1>9, <2>1, <2>2, <2>3, <2>4
<1>10. CASE Environment
  <2>1. UNCHANGED <<resetCount, mDeviceResetCount, untold>>
    BY <1>10 DEF Environment, Server, ServerSendsTargets, ServerSendsClients, ServerSendsConInfo, ServerSendsOk,
                 ServerSendsError, Answered, ServerCloses, ServerExecutes, ServerTellsReset, rwVars, stateVars
  <2> QED BY <1>2, <2>1
<1> QED BY <1>4, <1>5, <1>6, <1>7, <1>8, <1>9, <1>10 DEF Next, Call, Step

\* No reset of which an access was told gets lost, and none is told of twice, in any
\* order of accesses, device_connect() and device_reset_occurred(), failed ones included.
THEOREM ResetsCorrect == Spec => ResetsTold
<1>1. Init => Compared
  <2> SUFFICES ASSUME Init PROVE Compared
    OBVIOUS
  <2>1. call = 0 /\ resetCount = 0 /\ untold = FALSE /\ mDeviceResetCount = NoCount
    BY DEF Init, BaseInit
  <2>2. call \in Nat /\ resetCount \in Nat /\ untold \in BOOLEAN
    BY <2>1
  <2> QED BY <2>1, <2>2, Zenon DEF Compared
<1>2. Compared /\ [Next]_vars => Compared'
  <2>1. CASE UNCHANGED vars
    BY <2>1 DEF Compared, vars, baseVars, stateVars, rwVars
  <2> QED BY <2>1, ComparedStep
<1>3. Compared /\ [Next]_vars =>
        [(call' = call + 1 /\ op' = "device_reset_occurred"
          /\ mSessionStarted /\ mDeviceResetCount # NoCount) => arg'.reset = untold]_vars
  <2> SUFFICES ASSUME Compared, Next, call' = call + 1, op' = "device_reset_occurred",
                      mSessionStarted, mDeviceResetCount # NoCount
               PROVE  arg'.reset = untold
    OBVIOUS
  <2>1. call' # call
    BY DEF Compared
  <2>2. Call
    BY <2>1, CallCounts DEF Compared
  <2>3. device_reset_occurred
    <3> USE DEF Refuse, Execute, Called
    <3>1. ~BaseCall
      BY DEF BaseCall, server_connect, server_unlock, get_targets, get_target_clients,
             device_unlock_get_challenge, device_unlock_set_key, BeginQuery, WithoutPacket
    <3>2. ~session_start /\ ~target_ping /\ ~device_connect
      BY DEF session_start, mSessionStart, target_ping, device_connect, mDeviceConnect, BeginQuery
    <3>3. ~ExecuteTrans /\ ~mExecuteSingleTrans /\ ~fill32 /\ ~fill64
      BY DEF ExecuteTrans, mExecuteSingleTrans, fill32, fill64, execute_trans
    <3> QED BY <2>2, <3>1, <3>2, <3>3 DEF Call
  <2>4. ~(mDeviceResetCount > resetCount) /\ untold = (resetCount > mDeviceResetCount)
    <3>1. mDeviceResetCount \in Nat /\ resetCount \in Nat /\ mDeviceResetCount <= resetCount
      BY DEF Compared
    <3>2. ~(mDeviceResetCount > resetCount)
      BY <3>1, SMT
    <3> QED BY <3>2 DEF Compared
  <2>5. arg' = [reset |-> resetCount > mDeviceResetCount]
    BY <2>3, <2>4 DEF device_reset_occurred, Refuse, Called
  <2> QED BY <2>4, <2>5
<1> QED BY <1>1, <1>2, <1>3, PTL DEF Spec, ResetsTold

--------------------------------------------------------------------------------
(* The session.                                                               *)

LEMMA RwSessionCall ==
    ASSUME SessionInv, Call
    PROVE  SessionInv'
<1> USE DEF Refuse, Execute, Called, Send, Return, serverVars, stateVars
<1>1. CASE BaseCall
  BY <1>1, SessionBaseCall
<1>2. CASE session_start \/ device_connect
  BY <1>2, SessionBegins DEF session_start, device_connect
<1>3. CASE target_ping
  BY <1>3, SessionKept DEF target_ping
<1>4. CASE device_reset_occurred
  BY <1>4, SessionKept DEF device_reset_occurred
<1>5. CASE ExecuteTrans \/ mExecuteSingleTrans
  BY <1>5, SessionKept DEF ExecuteTrans, mExecuteSingleTrans, execute_trans
<1>6. CASE fill32 \/ fill64
  BY <1>6, SessionKept DEF fill32, fill64, execute_trans
<1> QED BY <1>1, <1>2, <1>3, <1>4, <1>5, <1>6 DEF Call

\* For every server: as long as the connection holds, a client that believes to have a
\* session has one. server_connect() and session_start() may be called, fail and be
\* answered late in any order.
THEOREM SessionCorrect == Spec => []SessionAgreed
<1>1. Init => SessionInv
  BY ShortSeq DEF Init, BaseInit, SessionInv, SessionAgreed
<1>2. SessionInv /\ [Next]_vars => SessionInv'
  <2> SUFFICES ASSUME SessionInv, [Next]_vars PROVE SessionInv'
    OBVIOUS
  <2>1. CASE Call
    BY <2>1, RwSessionCall
  <2>2. CASE BaseStep
    BY <2>2, SessionBaseStep
  <2>3. CASE RwSessionStarted
    BY <2>3, SessionStarts DEF RwSessionStarted
  <2>4. CASE RwDeviceConnected
    BY <2>4, SessionConnected DEF RwDeviceConnected
  <2>5. CASE Pinged
    BY <2>5, SessionTaken DEF Pinged, Received, Take, Return, serverVars, stateVars
  <2>6. CASE Responded
    BY <2>6, SessionTaken DEF Responded, Received, Take, Return, serverVars, stateVars
  <2>7. CASE GivenUp
    BY <2>7, SessionGivenUp DEF GivenUp
  <2>8. CASE Server \/ ServerCloses
    BY <2>8, SessionServer
  <2>9. CASE ServerExecutes
    <3>1. \E e, v : fromServer' = Append(fromServer, Answer("RW", Head(toServer).call, e, v))
      BY <2>9 DEF ServerExecutes, Push
    <3> QED BY <2>9, <3>1, SessionTold DEF ServerExecutes, Answered, Answer, StartsSession, stateVars
  <2>10. CASE ServerTellsReset
    BY <2>10, SessionTold DEF ServerTellsReset, Push, HeaderOnly, StartsSession, stateVars, serverVars
  <2>11. CASE UNCHANGED vars
    BY <2>11 DEF SessionInv, SessionAgreed, vars, baseVars, stateVars, serverVars
  <2> QED BY <2>1, <2>2, <2>3, <2>4, <2>5, <2>6, <2>7, <2>8, <2>9, <2>10, <2>11 DEF Next, Step, Environment
<1>3. SessionInv => SessionAgreed
  BY DEF SessionInv
<1> QED BY <1>1, <1>2, <1>3, PTL DEF Spec

--------------------------------------------------------------------------------
(* The lists of targets and clients.                                          *)

LEMMA RwListCall ==
    ASSUME ListInv, Call
    PROVE  ListInv'
<1> USE DEF Refuse, Execute, Called, Send, Return, serverVars, samples, stateVars
<1>1. CASE BaseCall
  BY <1>1, ListBaseCall
<1>2. CASE session_start \/ device_connect
  BY <1>2, ListSession DEF session_start, device_connect
<1>3. ASSUME NEW name, name \notin {"get_targets", "get_target_clients"}, NEW cmd, cmd # "GET_TARGETS", NEW v,
             op' = name, UNCHANGED <<listVars, samples, fromServer>>,
             \/ pc' # "wait" /\ toServer' = toServer
             \/ toServer' = Sent(call + 1, Request(cmd, v)) /\ pc' = "wait"
      PROVE  ListInv'
  BY <1>3, ListBegins
<1>4. CASE target_ping
  <2>1. /\ op' = "target_ping" /\ UNCHANGED <<listVars, samples, fromServer>>
        /\ \/ pc' # "wait" /\ toServer' = toServer
           \/ toServer' = Sent(call + 1, Request("PING", NoArg)) /\ pc' = "wait"
    BY <1>4 DEF target_ping, get_pkt_rq_ping
  <2> QED BY <1>3, <2>1
<1>5. CASE device_reset_occurred
  <2>1. /\ op' = "device_reset_occurred" /\ UNCHANGED <<listVars, samples, fromServer>>
        /\ pc' # "wait" /\ toServer' = toServer
    BY <1>5 DEF device_reset_occurred
  <2> QED BY <1>3, <2>1
<1>6. ASSUME NEW name \in RwOps, NEW a, execute_trans(name, a)
      PROVE  ListInv'
  <2>1. /\ op' = name /\ UNCHANGED <<listVars, samples, fromServer>>
        /\ \/ pc' # "wait" /\ toServer' = toServer
           \/ toServer' = Sent(call + 1, Request("RW", a)) /\ pc' = "wait"
    BY <1>6 DEF execute_trans
  <2> QED BY <1>3, <2>1 DEF RwOps
<1>7. CASE ExecuteTrans \/ mExecuteSingleTrans
  BY <1>6, <1>7 DEF ExecuteTrans, mExecuteSingleTrans, RwOps
<1>8. CASE fill32 \/ fill64
  <2>1. ASSUME NEW name \in RwOps, Refuse(name, NoAccess, "FN_PARAM"), UNCHANGED listVars
        PROVE  ListInv'
    BY <1>3, <2>1 DEF RwOps
  <2> QED BY <1>6, <1>8, <2>1 DEF fill32, fill64, RwOps
<1> QED BY <1>1, <1>2, <1>4, <1>5, <1>7, <1>8 DEF Call

LEMMA RwListStep ==
    ASSUME ListInv, Step
    PROVE  ListInv'
<1> USE DEF Received, Take, serverVars, samples
<1>1. CASE BaseStep
  BY <1>1, ListBaseStep
<1>2. CASE RwSessionStarted
  BY <1>2, ListSessionStep DEF RwSessionStarted
<1>3. CASE RwDeviceConnected
  BY <1>3, ListSessionStep DEF RwDeviceConnected
<1>4. CASE Pinged
  BY <1>4, ListTaken DEF Pinged
<1>5. CASE Responded
  BY <1>5, ListTaken DEF Responded, RwOps
<1>6. CASE GivenUp
  BY <1>6, ListGivenUp DEF GivenUp
<1> QED BY <1>1, <1>2, <1>3, <1>4, <1>5, <1>6 DEF Step

LEMMA RwListEnvironment ==
    ASSUME ListInv, Environment
    PROVE  ListInv'
<1> USE DEF serverVars, samples
<1>1. CASE Server \/ ServerCloses
  BY <1>1, ListServer
<1>2. CASE ServerExecutes
  <2>1. \E e, v : fromServer' = Append(fromServer, Answer("RW", Head(toServer).call, e, v))
    BY <1>2 DEF ServerExecutes, Push
  <2>2. \A c, e, v : LET p == Answer("RW", c, e, v) IN ~IsTargetPage(p) /\ ~IsClientPage(p)
    BY DEF Answer, IsTargetPage, IsClientPage
  <2>3. /\ UNCHANGED <<listVars, sampled, targetSample, pc, op, ret>>
        /\ toServer # <<>> /\ toServer' = Tail(toServer)
    BY <1>2 DEF ServerExecutes, Answered, Pending
  <2> QED BY <2>1, <2>2, <2>3, ListTold
<1>3. CASE ServerTellsReset
  <2>1. fromServer' = Append(fromServer, HeaderOnly("PL0_START", 0, "DEV_RESET"))
    BY <1>3 DEF ServerTellsReset, Push
  <2>2. LET p == HeaderOnly("PL0_START", 0, "DEV_RESET") IN ~IsTargetPage(p) /\ ~IsClientPage(p)
    BY DEF HeaderOnly, IsTargetPage, IsClientPage
  <2>3. UNCHANGED <<listVars, sampled, targetSample, pc, op, ret, toServer>>
    BY <1>3 DEF ServerTellsReset
  <2> QED BY <2>1, <2>2, <2>3, ListTold
<1> QED BY <1>1, <1>2, <1>3 DEF Environment

\* The invariant of the lists holds with both kinds of packets underway.
LEMMA RwLists == Spec => []ListInv
<1>1. Init => ListInv
  BY ListInit DEF Init
<1>2. ListInv /\ [Next]_vars => ListInv'
  <2> SUFFICES ASSUME ListInv, [Next]_vars PROVE ListInv'
    OBVIOUS
  <2>1. CASE UNCHANGED vars
    BY <2>1, ListStays DEF vars, baseVars, serverVars, samples
  <2> QED BY <2>1, RwListCall, RwListStep, RwListEnvironment DEF Next
<1> QED BY <1>1, <1>2, PTL DEF Spec

\* For every server and every length of a list: the clients that get_target_clients()
\* tells of are those of one list the server has sampled, ordered by their time, if a
\* packet has room for them: never entries of the page or the call before.
THEOREM ClientsCorrect == Spec => []ClientsOfOnePage
<1>1. ListInv => ClientsOfOnePage
  BY DEF ListInv
<1> QED BY <1>1, RwLists, PTL

--------------------------------------------------------------------------------
(* Types.                                                                     *)

RwNotes == {"PL0_START", "RW"}

TypeInv ==
    /\ Simple
    /\ mTphRw \in BOOLEAN /\ mTphRw = mSessionStarted
    /\ pc = "wait" /\ op = "session_start" => ~mSessionStarted
    /\ op = "read" => arg.bytes \in Nat
    /\ num_bytes_ok \in Nat
    /\ resets \in 0..MaxResets
    /\ CountOK(fromServer, RwNotes, resetCount, resets)

LEMMA RwNotified == Notified(RwNotes)
BY AnswerAssumption DEF Notified, RwNotes

LEMMA RwTypeCall ==
    ASSUME TypeInv, Call
    PROVE  TypeInv'
<1> USE DEF Refuse, Execute, Called, Send, Return, serverVars, stateVars
<1>1. resets' = resets /\ resetCount' = resetCount /\ UNCHANGED <<mTphRw, mSessionStarted>>
  BY DEF Call, BaseCall, server_connect, server_unlock, device_unlock_get_challenge, WithoutPacket, get_targets,
         get_target_clients, device_unlock_set_key, BeginQuery, session_start, device_connect, mDeviceConnect,
         mSessionStart, target_ping, device_reset_occurred, ExecuteTrans, mExecuteSingleTrans, execute_trans,
         fill32, fill64, rwVars, Counted, Device, Handler
<1>2. CASE BaseCall /\ UNCHANGED rwVars
  <2>1. op' \notin {"read", "session_start"}
    BY <1>2 DEF BaseCall, server_connect, server_unlock, device_unlock_get_challenge, WithoutPacket, get_targets,
         get_target_clients, device_unlock_set_key, BeginQuery
  <2>2. Simple' /\ CountOK(fromServer', RwNotes, resetCount, resets)
    BY <1>2, SimpleCall, CountOther DEF TypeInv
  <2> QED BY <1>1, <1>2, <2>1, <2>2, Zenon DEF TypeInv, rwVars
<1>3. CASE session_start \/ device_connect
  <2>1. /\ op' # "read" /\ num_bytes_ok' = num_bytes_ok
        /\ (pc' = "wait" /\ op' = "session_start" => ~mSessionStarted')
    BY <1>3 DEF session_start, device_connect, mSessionStart, mDeviceConnect, BeginQuery, rwVars
  <2>2. Simple' /\ CountOK(fromServer', RwNotes, resetCount, resets)
    BY <1>3, SimpleCall, CountOther DEF session_start, device_connect, TypeInv
  <2> QED BY <1>1, <2>1, <2>2, Zenon DEF TypeInv
<1>4. ASSUME UNCHANGED <<mServerIpAddr, mSessionStarted, mRcvChlActive, session, inStep, link, fromServer>>,
             pc' \in {"idle", "wait", "runaway"}, ret' \in {ret, "NONE", "FN_USAGE", "FN_PARAM"},
             op' # "session_start", op' = "read" => arg'.bytes \in Nat, num_bytes_ok' \in {num_bytes_ok, 0}
      PROVE  TypeInv'
  <2>1. Simple'
    BY <1>4, SimpleKept DEF TypeInv, Returns
  <2>2. num_bytes_ok' \in Nat
    BY <1>4 DEF TypeInv
  <2> QED BY <1>1, <1>4, <2>1, <2>2, Zenon DEF TypeInv
<1>5. CASE target_ping \/ device_reset_occurred
  <2>1. /\ UNCHANGED <<mServerIpAddr, mSessionStarted, mRcvChlActive, session, inStep, link, fromServer, num_bytes_ok>>
        /\ pc' \in {"idle", "wait"} /\ ret' \in {ret, "NONE", "FN_USAGE"} /\ op' \in {"target_ping", "device_reset_occurred"}
    BY <1>5 DEF target_ping, device_reset_occurred, rwVars
  <2> QED BY <1>4, <2>1
<1>6. ASSUME NEW name \in RwOps, NEW a, execute_trans(name, a), name = "read" => a.bytes \in Nat,
             num_bytes_ok' \in {num_bytes_ok, 0}
      PROVE  TypeInv'
  <2>1. NoAccess.bytes \in Nat
    BY DEF NoAccess, Access
  <2>2. /\ UNCHANGED <<mServerIpAddr, mSessionStarted, mRcvChlActive, session, inStep, link, fromServer>>
        /\ pc' \in {"idle", "wait", "runaway"} /\ ret' \in {ret, "FN_USAGE", "FN_PARAM"}
        /\ op' = name /\ arg' \in {NoAccess, a}
    BY <1>6 DEF execute_trans
  <2> QED BY <1>4, <1>6, <2>1, <2>2 DEF RwOps
<1>7. CASE ExecuteTrans \/ mExecuteSingleTrans
  <2>1. \A kind : Access(kind).bytes \in Nat
    BY DEF Access
  <2> QED BY <1>6, <1>7, <2>1 DEF ExecuteTrans, mExecuteSingleTrans, RwOps, rwVars
<1>8. CASE fill32 \/ fill64
  <2>1. num_bytes_ok' = num_bytes_ok
    BY <1>8 DEF fill32, fill64, rwVars
  <2>2. ASSUME NEW name \in {"fill32", "fill64"}, Refuse(name, NoAccess, "FN_PARAM"), UNCHANGED <<mServerIpAddr, stateVars>>
        PROVE  TypeInv'
    BY <1>4, <2>1, <2>2
  <2> QED BY <1>6, <1>8, <2>1, <2>2 DEF fill32, fill64, RwOps
<1> QED BY <1>2, <1>3, <1>5, <1>7, <1>8 DEF Call

LEMMA RwTypeStep ==
    ASSUME TypeInv, Step
    PROVE  TypeInv'
<1> USE DEF Received, Take, Return, serverVars, stateVars
<1> DEFINE p == Head(fromServer)
<1>1. CASE BaseStep /\ UNCHANGED rwVars
  <2>1. UNCHANGED <<mSessionStarted, op, arg>> /\ (pc' = "wait" => pc = "wait")
    BY <1>1 DEF BaseStep, ServerConnected, KeySet, set_pkt_rsp_get_targets, set_pkt_rsp_get_target_clients
  <2>2. Simple' /\ CountOK(fromServer', RwNotes, resetCount, resets)
    BY <1>1, SimpleStep, CountOther DEF TypeInv
  <2> QED BY <1>1, <2>1, <2>2, Zenon DEF TypeInv, rwVars
<1>2. CASE RwSessionStarted
  <2>1. SessionStarted(ret', FALSE)
    BY <1>2 DEF RwSessionStarted
  <2>2. /\ pc = "wait" /\ op = "session_start" /\ pc' = "idle" /\ op' = op
        /\ mSessionStarted' = (ret' = "NONE") /\ mTphRw' = (mTphRw \/ ret' = "NONE")
        /\ UNCHANGED <<num_bytes_ok, resets, resetCount>>
    BY <1>2, <2>1 DEF RwSessionStarted, SessionStarted, Started, Device
  <2>3. Simple' /\ CountOK(fromServer', RwNotes, resetCount, resets)
    BY <2>1, SimpleStarts, CountOther DEF TypeInv
  <2>4. ~mSessionStarted /\ mTphRw = mSessionStarted
    BY <2>2 DEF TypeInv
  <2>5. mTphRw' \in BOOLEAN /\ mTphRw' = mSessionStarted'
    BY <2>2, <2>4, Zenon
  <2> QED BY <2>2, <2>3, <2>5, Zenon DEF TypeInv
<1>3. CASE RwDeviceConnected
  <2>1. /\ UNCHANGED <<mSessionStarted, op, arg, mTphRw, num_bytes_ok, resets, resetCount>> /\ pc' = "idle"
    BY <1>3 DEF RwDeviceConnected, DeviceConnected, Handler, Device
  <2>2. Simple' /\ CountOK(fromServer', RwNotes, resetCount, resets)
    BY <1>3, SimpleStep, CountOther DEF TypeInv, RwDeviceConnected
  <2> QED BY <2>1, <2>2, Zenon DEF TypeInv
<1>4. CASE Pinged
  <2>1. /\ UNCHANGED <<mServerIpAddr, mSessionStarted, mRcvChlActive, session, inStep, link, op, arg, mTphRw, num_bytes_ok,
                       resets, resetCount>>
        /\ pc' = "idle" /\ fromServer # <<>> /\ fromServer' = Tail(fromServer)
        /\ ret' = set_pkt_rsp_ping(p, "PING", FALSE)
    BY <1>4 DEF Pinged, Counted, Device
  <2>2. Simple' /\ CountOK(fromServer', RwNotes, resetCount, resets)
    BY <2>1, ReturnsOf, SimpleKept, CountKept DEF TypeInv
  <2> QED BY <2>1, <2>2, Zenon DEF TypeInv
<1>5. CASE Responded
  <2>1. /\ UNCHANGED <<mServerIpAddr, mSessionStarted, mRcvChlActive, session, inStep, link, op, arg, mTphRw, resets>>
        /\ pc' = "idle" /\ fromServer # <<>> /\ fromServer' = Tail(fromServer)
        /\ ret' = rw_set_rsp(p)
        /\ resetCount' = resetCount + (IF CountsReset(p) THEN 1 ELSE 0)
    BY <1>5 DEF Responded, Device, Handler
  <2>2. rw_set_rsp(p) \in Returns
    BY DEF rw_set_rsp, Returns
  <2>3. Simple'
    BY <2>1, <2>2, SimpleKept DEF TypeInv
  <2>4. CountsReset(p) => TellsReset(p, RwNotes)
    BY DEF CountsReset, TellsReset, RwNotes
  <2>5. resetCount \in Nat
    BY CountBounds DEF TypeInv
  <2>6. resetCount' = resetCount \/ (resetCount' = resetCount + 1 /\ TellsReset(p, RwNotes))
    BY <2>1, <2>4, <2>5
  <2>7. CountOK(fromServer', RwNotes, resetCount', resets)
    BY <2>1, <2>6, CountTaken DEF TypeInv
  <2>8. num_bytes_ok' \in Nat
    BY <1>5 DEF Responded, TypeInv
  <2> QED BY <2>1, <2>3, <2>7, <2>8, Zenon DEF TypeInv
<1>6. CASE GivenUp
  <2>1. /\ UNCHANGED <<mSessionStarted, op, arg, mTphRw, resets, resetCount>> /\ pc' # "wait"
    BY <1>6 DEF GivenUp, Timeout, Lost, Overrun, Failed, Return, Handler, Device
  <2>2. Simple' /\ CountOK(fromServer', RwNotes, resetCount, resets)
    BY <1>6, SimpleGivenUp, CountOther DEF TypeInv, GivenUp
  <2>3. num_bytes_ok' \in Nat
    BY <1>6 DEF GivenUp, TypeInv
  <2> QED BY <2>1, <2>2, <2>3, Zenon DEF TypeInv
<1> QED BY <1>1, <1>2, <1>3, <1>4, <1>5, <1>6 DEF Step

LEMMA RwTypeEnvironment ==
    ASSUME TypeInv, Environment
    PROVE  TypeInv'
<1> USE DEF Answered, serverVars, stateVars
<1>1. UNCHANGED <<mSessionStarted, op, arg, pc, ret, mTphRw, num_bytes_ok, resetCount>>
  BY DEF Environment, Server, ServerCloses, ServerSendsTargets, ServerSendsClients, ServerSendsConInfo, ServerSendsOk,
         ServerSendsError, ServerExecutes, ServerTellsReset, Handler, rwVars
<1>2. CASE (Server \/ ServerCloses) /\ UNCHANGED rwVars
  <2>1. Simple' /\ CountOK(fromServer', RwNotes, resetCount, resets)
    BY <1>2, SimpleServer, CountServer, RwNotified DEF TypeInv
  <2> QED BY <1>1, <1>2, <2>1, Zenon DEF TypeInv, rwVars
<1>3. resets \in 0..MaxResets /\ CountOK(fromServer, RwNotes, resetCount, resets)
  BY DEF TypeInv
<1>4. CASE ServerExecutes
  <2>1. PICK e \in RwErrors \cup {"NO_ERROR"}, reset \in BOOLEAN :
            /\ reset => resets < MaxResets
            /\ resets' = resets + (IF reset THEN 1 ELSE 0)
            /\ fromServer' = Append(fromServer,
                    Answer("RW", Head(toServer).call, e, [reset |-> reset, bytes |-> Head(toServer).v.bytes]))
    BY <1>4 DEF ServerExecutes, Push
  <2> DEFINE q == Answer("RW", Head(toServer).call, e, [reset |-> reset, bytes |-> Head(toServer).v.bytes])
  <2>2. e # "DEV_RESET"
    BY <2>1, AnswerAssumption
  <2>3. TellsReset(q, RwNotes) => reset
    BY <2>2 DEF TellsReset, Answer
  <2>4. resets' \in 0..MaxResets /\ (resets' = resets + 1 \/ (resets' = resets /\ ~reset))
    BY <1>3, <2>1, ResetsAssumption
  <2>5. CountOK(fromServer', RwNotes, resetCount, resets')
    BY <1>3, <2>1, <2>3, <2>4, CountTold
  <2>6. UNCHANGED <<mServerIpAddr, mRcvChlActive, session, inStep, link>>
    BY <1>4 DEF ServerExecutes
  <2>7. Simple'
    BY <1>1, <2>6, SimpleKept DEF TypeInv
  <2> QED BY <1>1, <2>4, <2>5, <2>7, Zenon DEF TypeInv
<1>5. CASE ServerTellsReset
  <2>1. /\ UNCHANGED <<mServerIpAddr, mRcvChlActive, session, link>> /\ inStep' = FALSE
        /\ resets < MaxResets /\ resets' = resets + 1 /\ \E q : fromServer' = Append(fromServer, q)
    BY <1>5 DEF ServerTellsReset, Push
  <2>2. resets' \in 0..MaxResets
    BY <1>3, <2>1, ResetsAssumption
  <2>3. CountOK(fromServer', RwNotes, resetCount, resets')
    BY <1>3, <2>1, CountTold
  <2>4. Simple'
    BY <1>1, <2>1, Zenon DEF TypeInv, Simple
  <2> QED BY <1>1, <2>2, <2>3, <2>4, Zenon DEF TypeInv
<1> QED BY <1>2, <1>4, <1>5 DEF Environment

\* For every server, also one that answers late: the client holds its handler as long
\* as its session, no page is written behind the end of a list, and it counts no more
\* resets than the device had.
THEOREM TypeCorrect == Spec => []TypeOK
<1>1. Init => TypeInv
  <2> SUFFICES ASSUME Init PROVE TypeInv
    OBVIOUS
  <2>1. fromServer = <<>> /\ resetCount = 0 /\ resets = 0
    BY DEF Init, BaseInit
  <2>2. CountOK(fromServer, RwNotes, resetCount, resets)
    BY <2>1, CountStart
  <2>3. 0 \in 0..MaxResets
    BY ResetsAssumption
  <2>4. Simple /\ mTphRw = FALSE /\ mSessionStarted = FALSE /\ op = "" /\ num_bytes_ok = 0
    BY SimpleInit DEF Init, BaseInit
  <2> QED BY <2>1, <2>2, <2>3, <2>4 DEF TypeInv
<1>2. TypeInv /\ [Next]_vars => TypeInv'
  <2> SUFFICES ASSUME TypeInv, [Next]_vars PROVE TypeInv'
    OBVIOUS
  <2>1. CASE UNCHANGED vars
    BY <2>1, Zenon DEF TypeInv, Simple, vars, baseVars, serverVars, stateVars, rwVars
  <2> QED BY <2>1, RwTypeCall, RwTypeStep, RwTypeEnvironment DEF Next
<1>3. TypeInv /\ ListInv => TypeOK
  <2> SUFFICES ASSUME TypeInv, ListInv PROVE TypeOK
    OBVIOUS
  <2>1. resetCount \in 0..MaxResets
    BY CountBounds, ResetsAssumption DEF TypeInv
  <2> QED BY <2>1, TypesAre DEF TypeOK, TypeInv
<1> QED BY <1>1, <1>2, <1>3, RwLists, PTL DEF Spec

--------------------------------------------------------------------------------
(* Fills. The transactions of a fill write a range: head, blocks and tail follow *)
(* each other without a gap.                                                  *)

Covers(trans, addr, num) ==
    \A x \in Nat :
        (\E k \in DOMAIN trans : trans[k].addr <= x /\ x < trans[k].addr + trans[k].num_bytes)
            <=> addr <= x /\ x < addr + num

Transactions == [type : {"WR", "FILL"}, addr : Nat, num_bytes : Nat]

LEMMA CoversNone ==
    ASSUME NEW addr \in Nat
    PROVE  Covers(<<>>, addr, 0) /\ <<>> \in Seq(Transactions)
<1>1. <<>> \in Seq(Transactions) /\ DOMAIN <<>> = {}
  BY SMT
<1>2. \A x \in Nat : ~(addr <= x /\ x < addr + 0)
  BY SMT
<1> QED BY <1>1, <1>2 DEF Covers

LEMMA CoversOne ==
    ASSUME NEW type \in {"WR", "FILL"}, NEW addr \in Nat, NEW num \in Nat
    PROVE  /\ Covers(<<Trans(type, addr, num)>>, addr, num)
           /\ <<Trans(type, addr, num)>> \in Seq(Transactions)
<1> DEFINE t == Trans(type, addr, num)
<1>1. t.addr = addr /\ t.num_bytes = num /\ t \in Transactions
  BY DEF Trans, Transactions
<1> HIDE DEF t
<1>2. DOMAIN <<t>> = {1} /\ <<t>>[1] = t /\ <<t>> \in Seq(Transactions)
  BY <1>1, SMT
<1>3. Covers(<<t>>, addr, num)
  BY <1>1, <1>2 DEF Covers
<1> QED BY <1>2, <1>3 DEF t

LEMMA CoversBoth ==
    ASSUME NEW s \in Seq(Transactions), NEW t \in Seq(Transactions),
           NEW addr \in Nat, NEW m \in Nat, NEW n \in Nat,
           Covers(s, addr, m), Covers(t, addr + m, n)
    PROVE  Covers(s \o t, addr, m + n) /\ s \o t \in Seq(Transactions)
<1> DEFINE u == s \o t
           In(tr, x) == tr.addr <= x /\ x < tr.addr + tr.num_bytes
<1>1. /\ u \in Seq(Transactions) /\ Len(u) = Len(s) + Len(t) /\ Len(s) \in Nat /\ Len(t) \in Nat
      /\ \A k \in 1..Len(s) : u[k] = s[k]
      /\ \A k \in 1..Len(t) : u[Len(s) + k] = t[k]
      /\ DOMAIN u = 1..Len(u) /\ DOMAIN s = 1..Len(s) /\ DOMAIN t = 1..Len(t)
  BY SMT
<1> HIDE DEF u
<1>2. /\ \A k \in 1..Len(s) : k \in 1..Len(u)
      /\ \A k \in 1..Len(t) : Len(s) + k \in 1..Len(u)
      /\ \A k \in 1..Len(u) : k \in 1..Len(s) \/ (k - Len(s) \in 1..Len(t) /\ Len(s) + (k - Len(s)) = k)
  BY <1>1, SMT
<1>3. ASSUME NEW x \in Nat
      PROVE  (\E k \in DOMAIN u : In(u[k], x)) <=> (\E k \in DOMAIN s : In(s[k], x)) \/ (\E k \in DOMAIN t : In(t[k], x))
  <2> HIDE DEF In
  <2>1. ASSUME NEW k \in DOMAIN s, In(s[k], x) PROVE \E j \in DOMAIN u : In(u[j], x)
    BY <1>1, <1>2, <2>1, Zenon
  <2>2. ASSUME NEW k \in DOMAIN t, In(t[k], x) PROVE \E j \in DOMAIN u : In(u[j], x)
    <3>1. Len(s) + k \in DOMAIN u /\ u[Len(s) + k] = t[k]
      BY <1>1, <1>2, Zenon
    <3> QED BY <2>2, <3>1, Zenon
  <2>3. ASSUME NEW k \in DOMAIN u, In(u[k], x)
        PROVE  (\E j \in DOMAIN s : In(s[j], x)) \/ (\E j \in DOMAIN t : In(t[j], x))
    <3>1. CASE k \in 1..Len(s)
      BY <1>1, <2>3, <3>1, Zenon
    <3>2. CASE k - Len(s) \in 1..Len(t) /\ Len(s) + (k - Len(s)) = k
      BY <1>1, <2>3, <3>2, Zenon
    <3> QED BY <1>1, <1>2, <3>1, <3>2, Zenon
  <2> QED BY <2>1, <2>2, <2>3, Zenon
<1>4. ASSUME NEW x \in Nat
      PROVE  (addr <= x /\ x < addr + (m + n)) <=>
             (addr <= x /\ x < addr + m) \/ (addr + m <= x /\ x < (addr + m) + n)
  BY SMT
<1>5. Covers(u, addr, m + n)
  BY <1>3, <1>4, Zenon DEF Covers
<1> QED BY <1>1, <1>5 DEF u

LEMMA Fill32Covers ==
    ASSUME NEW addr \in Nat, NEW num \in Nat, addr % 4 = 0, num # 0, num % 4 = 0
    PROVE  Covers(fill32_trans(addr, num), addr, num) /\ fill32_trans(addr, num) \in Seq(Transactions)
<1> DEFINE head == IF addr % 8 # 0 THEN 4 ELSE 0
           blk  == ((num - head) \div 8) * 8
           tail == num - head - blk
           s == IF head > 0 THEN <<Trans("WR", addr, 4)>> ELSE <<>>
           t == IF blk > 0 THEN <<Trans("FILL", addr + head, blk)>> ELSE <<>>
           u == IF num > head + blk THEN <<Trans("WR", addr + head + blk, 4)>> ELSE <<>>
<1>1. head \in {0, 4} /\ num - head \in Nat /\ (num - head) % 4 = 0
  BY SMT
<1> HIDE DEF head
<1>2. blk \in Nat /\ tail \in {0, 4}
  <2> DEFINE m == num - head
  <2>1. m \in Nat /\ m % 4 = 0
    BY <1>1
  <2> HIDE DEF m
  <2>2. (m \div 8) * 8 \in Nat /\ m - (m \div 8) * 8 \in {0, 4}
    BY <2>1, SMT
  <2>3. blk = (m \div 8) * 8 /\ tail = m - blk
    BY DEF m
  <2> QED BY <2>2, <2>3
<1>3. tail = num - head - blk
  OBVIOUS
<1> HIDE DEF blk, tail
<1>4. /\ (head > 0 => head = 4) /\ (~(head > 0) => head = 0)
      /\ (~(blk > 0) => blk = 0)
      /\ (num > head + blk => tail = 4) /\ (~(num > head + blk) => tail = 0)
      /\ head \in Nat /\ tail \in Nat /\ addr + head \in Nat /\ addr + (head + blk) \in Nat
      /\ (addr + head) + blk = addr + (head + blk) /\ addr + head + blk = addr + (head + blk)
      /\ head + blk \in Nat /\ (head + blk) + tail = num
  BY <1>1, <1>2, <1>3, SMT
<1>5. Covers(s, addr, head) /\ s \in Seq(Transactions)
  <2>1. CASE head > 0
    <3>1. Covers(<<Trans("WR", addr, 4)>>, addr, 4) /\ <<Trans("WR", addr, 4)>> \in Seq(Transactions)
      BY CoversOne
    <3> QED BY <1>4, <2>1, <3>1
  <2>2. CASE ~(head > 0)
    BY <1>4, <2>2, CoversNone
  <2> QED BY <2>1, <2>2
<1>6. Covers(t, addr + head, blk) /\ t \in Seq(Transactions)
  <2>1. CASE blk > 0
    <3>1. /\ Covers(<<Trans("FILL", addr + head, blk)>>, addr + head, blk)
          /\ <<Trans("FILL", addr + head, blk)>> \in Seq(Transactions)
      BY <1>2, <1>4, CoversOne
    <3> QED BY <2>1, <3>1
  <2>2. CASE ~(blk > 0)
    BY <1>4, <2>2, CoversNone
  <2> QED BY <2>1, <2>2
<1>7. Covers(u, addr + (head + blk), tail) /\ u \in Seq(Transactions)
  <2>1. CASE num > head + blk
    <3>1. /\ Covers(<<Trans("WR", addr + (head + blk), 4)>>, addr + (head + blk), 4)
          /\ <<Trans("WR", addr + (head + blk), 4)>> \in Seq(Transactions)
      BY <1>4, CoversOne
    <3> QED BY <1>4, <2>1, <3>1
  <2>2. CASE ~(num > head + blk)
    BY <1>4, <2>2, CoversNone
  <2> QED BY <2>1, <2>2
<1>8. fill32_trans(addr, num) = s \o t \o u
  BY DEF fill32_trans, head, blk
<1> HIDE DEF s, t, u
<1>9. Covers(s \o t, addr, head + blk) /\ s \o t \in Seq(Transactions)
  BY <1>2, <1>4, <1>5, <1>6, CoversBoth
<1>10. Covers((s \o t) \o u, addr, (head + blk) + tail) /\ (s \o t) \o u \in Seq(Transactions)
  BY <1>4, <1>7, <1>9, CoversBoth
<1> QED BY <1>4, <1>8, <1>10

\* The end of a range bounds its words.
LEMMA WordsAre ==
    ASSUME NEW addr \in Nat, NEW num \in Nat, NEW w
    PROVE  w \in WordsIn(addr, num) <=> w \in Nat /\ addr <= 4 * w /\ 4 * w < addr + num
<1>1. CASE w \in Nat
  <2>1. 4 * w < addr + num => w <= (addr + num) \div 4
    BY <1>1, SMT
  <2>2. (addr + num) \div 4 \in Nat
    BY SMT
  <2>3. 4 * w < addr + num => w \in 0..((addr + num) \div 4)
    BY <1>1, <2>1, <2>2, SMT
  <2> QED BY <1>1, <2>3 DEF WordsIn
<1>2. CASE w \notin Nat
  <2>1. w \notin 0..((addr + num) \div 4)
    BY <1>2, SMT
  <2> QED BY <1>2, <2>1 DEF WordsIn
<1> QED BY <1>1, <1>2

\* What an access is called with tells the words that it fills.
Exact(a) == Words(a.trans) = WordsIn(a.addr, a.bytes)

LEMMA CoversExactly ==
    ASSUME NEW addr \in Nat, NEW num \in Nat, NEW trans, trans \in Seq(Transactions), Covers(trans, addr, num)
    PROVE  Exact(Fill(addr, num, trans))
<1>1. ASSUME NEW k \in DOMAIN trans
      PROVE  trans[k].addr \in Nat /\ trans[k].num_bytes \in Nat
  <2>1. trans[k] \in Transactions
    BY <1>1, SMT
  <2> QED BY <2>1 DEF Transactions
<1>2. ASSUME NEW w
      PROVE  w \in UNION {WordsIn(trans[k].addr, trans[k].num_bytes) : k \in DOMAIN trans} <=> w \in WordsIn(addr, num)
  <2>1. (\E k \in DOMAIN trans : w \in WordsIn(trans[k].addr, trans[k].num_bytes)) <=>
        w \in Nat /\ \E k \in DOMAIN trans : trans[k].addr <= 4 * w /\ 4 * w < trans[k].addr + trans[k].num_bytes
    BY <1>1, WordsAre
  <2>2. w \in Nat => 4 * w \in Nat
    BY SMT
  <2>3. w \in Nat => ((\E k \in DOMAIN trans : trans[k].addr <= 4 * w /\ 4 * w < trans[k].addr + trans[k].num_bytes)
                      <=> addr <= 4 * w /\ 4 * w < addr + num)
    BY <2>2, Zenon DEF Covers
  <2>4. w \in WordsIn(addr, num) <=> w \in Nat /\ addr <= 4 * w /\ 4 * w < addr + num
    BY WordsAre
  <2> QED BY <2>1, <2>3, <2>4
<1>3. UNION {WordsIn(trans[k].addr, trans[k].num_bytes) : k \in DOMAIN trans} = WordsIn(addr, num)
  BY <1>2
<1> QED BY <1>3 DEF Exact, Fill, Words

LEMMA NoneExact == Exact(NoAccess)
<1>1. NoAccess.trans = <<>> /\ NoAccess.addr = 0 /\ NoAccess.bytes = 0
  BY DEF NoAccess, Access
<1>2. Covers(<<>>, 0, 0) /\ <<>> \in Seq(Transactions)
  BY CoversNone
<1>3. Exact(Fill(0, 0, <<>>))
  BY <1>2, CoversExactly
<1> QED BY <1>1, <1>3 DEF Exact, Fill

--------------------------------------------------------------------------------
(* The access of a running fill, where it is underway and where it was executed. *)

Fills == {"fill32", "fill64"}

\* Requests of the running call are to do what it was called with.
Asked(rqs, c, a) ==
    \A k \in 1..Len(rqs) : rqs[k].cmd = "RW" /\ rqs[k].call = c => rqs[k].v = a

FillInv ==
    op \in Fills =>
        /\ Exact(arg) /\ Asked(toServer, call, arg)
        /\ executed.call = call => executed.words = Words(arg.trans)

LEMMA FillKept ==
    ASSUME FillInv, op' \notin Fills \/ UNCHANGED <<op, arg, call, executed>>,
           IsSeq(toServer),
           \/ op' \notin Fills
           \/ toServer' = toServer
           \/ toServer' = <<>>
           \/ toServer # <<>> /\ toServer' = Tail(toServer)
    PROVE  FillInv'
<1>1. CASE op' \notin Fills
  BY <1>1 DEF FillInv
<1>2. CASE UNCHANGED <<op, arg, call, executed>> /\ op' \in Fills
  <2>1. Exact(arg) /\ Asked(toServer, call, arg) /\ (executed.call = call => executed.words = Words(arg.trans))
    BY <1>2 DEF FillInv
  <2>2. Asked(toServer', call, arg)
    <3>1. CASE toServer' = toServer
      BY <2>1, <3>1
    <3>2. CASE toServer' = <<>>
      <4>1. \A k \in 1..Len(<<>>) : FALSE
        BY ShortSeq, SMT
      <4> QED BY <3>2, <4>1 DEF Asked
    <3>3. CASE toServer # <<>> /\ toServer' = Tail(toServer)
      <4>1. /\ Len(Tail(toServer)) = Len(toServer) - 1 /\ Len(toServer) \in Nat
            /\ \A k \in 1..Len(Tail(toServer)) : Tail(toServer)[k] = toServer[k + 1]
        BY <3>3, TailAny DEF IsSeq
      <4>2. \A k \in 1..Len(Tail(toServer)) : k + 1 \in 1..Len(toServer)
        BY <4>1, SMT
      <4> QED BY <2>1, <3>3, <4>1, <4>2, Zenon DEF Asked
    <3> QED BY <1>2, <3>1, <3>2, <3>3
  <2> QED BY <1>2, <2>1, <2>2 DEF FillInv
<1> QED BY <1>1, <1>2

\* A fill that begins, as execute_trans() or a refusal.
LEMMA FillBegins ==
    ASSUME Inv, executed' = executed, NEW name, NEW a, Exact(a), execute_trans(name, a)
    PROVE  FillInv'
<1>1. /\ IsSeq(toServer) /\ call \in Nat /\ executed.call # call + 1
      /\ \A k \in 1..Len(toServer) : toServer[k].call # call + 1
  <2>1. IsSeq(toServer) /\ call \in Nat /\ executed.call \in 0..call /\ \A k \in 1..Len(toServer) : toServer[k].call \in 1..call
    BY DEF Inv, ExecInv, InOrder
  <2>2. \A c \in 0..call : c # call + 1
    BY <2>1, SMT
  <2>3. \A c \in 1..call : c # call + 1
    BY <2>1, SMT
  <2> QED BY <2>1, <2>2, <2>3
<1>2. /\ call' = call + 1 /\ arg' \in {a, NoAccess}
      /\ toServer' = toServer \/ (toServer' = Sent(call + 1, Request("RW", a)) /\ arg' = a)
  BY DEF execute_trans, Execute, Refuse, Called, Send
<1>3. Exact(arg')
  BY <1>2, NoneExact
<1>4. executed'.call # call'
  BY <1>1, <1>2
<1>5. Asked(toServer', call', arg')
  <2>1. CASE toServer' = toServer
    BY <1>1, <1>2, <2>1 DEF Asked
  <2>2. CASE toServer' = Append(toServer, [Request("RW", a) EXCEPT !.call = call + 1]) /\ arg' = a
    <3> DEFINE rq == [Request("RW", a) EXCEPT !.call = call + 1]
    <3>1. rq.v = a
      BY DEF Request
    <3> HIDE DEF rq
    <3>2. /\ Len(Append(toServer, rq)) = Len(toServer) + 1 /\ Len(toServer) \in Nat
          /\ \A k \in 1..Len(toServer) : Append(toServer, rq)[k] = toServer[k]
          /\ Append(toServer, rq)[Len(toServer) + 1] = rq
      BY <1>1, AppendAny DEF IsSeq
    <3>3. \A k \in 1..Len(Append(toServer, rq)) : k \in 1..Len(toServer) \/ k = Len(toServer) + 1
      BY <3>2, SMT
    <3>4. toServer' = Append(toServer, rq)
      BY <2>2 DEF rq
    <3> QED BY <1>1, <1>2, <2>2, <3>1, <3>2, <3>3, <3>4, Zenon DEF Asked
  <2> QED BY <1>2, <2>1, <2>2 DEF Sent
<1> QED BY <1>3, <1>4, <1>5 DEF FillInv

LEMMA FillRefused ==
    ASSUME Inv, executed' = executed, NEW name, NEW err, Refuse(name, NoAccess, err)
    PROVE  FillInv'
<1>1. /\ call \in Nat /\ executed.call # call + 1
      /\ \A k \in 1..Len(toServer) : toServer[k].call # call + 1
  <2>1. call \in Nat /\ executed.call \in 0..call /\ \A k \in 1..Len(toServer) : toServer[k].call \in 1..call
    BY DEF Inv, ExecInv, InOrder
  <2>2. \A c \in 0..call : c # call + 1
    BY <2>1, SMT
  <2>3. \A c \in 1..call : c # call + 1
    BY <2>1, SMT
  <2> QED BY <2>1, <2>2, <2>3
<1>2. call' = call + 1 /\ arg' = NoAccess /\ toServer' = toServer
  BY DEF Refuse, Called
<1>3. Asked(toServer', call', arg') /\ executed'.call # call'
  BY <1>1, <1>2 DEF Asked
<1> QED BY <1>2, <1>3, NoneExact DEF FillInv

LEMMA FillCall ==
    ASSUME Inv, FillInv, Call
    PROVE  FillInv'
<1>0. IsSeq(toServer)
  BY DEF Inv, ExecInv, InOrder
<1>1. CASE fill32
  <2>1. executed' = executed
    BY <1>1 DEF fill32, rwVars
  <2>2. PICK range \in Ranges :
          \/ Refuse("fill32", NoAccess, "FN_PARAM")
          \/ /\ range[1] % 4 = 0 /\ range[2] # 0 /\ range[2] % 4 = 0
             /\ execute_trans("fill32", Fill(range[1], range[2], fill32_trans(range[1], range[2])))
    BY <1>1, Zenon DEF fill32
  <2>3. range[1] \in Nat /\ range[2] \in Nat
    BY RangesAssumption
  <2>4. CASE Refuse("fill32", NoAccess, "FN_PARAM")
    BY <2>1, <2>4, FillRefused
  <2>5. CASE /\ range[1] % 4 = 0 /\ range[2] # 0 /\ range[2] % 4 = 0
             /\ execute_trans("fill32", Fill(range[1], range[2], fill32_trans(range[1], range[2])))
    <3>1. /\ Covers(fill32_trans(range[1], range[2]), range[1], range[2])
          /\ fill32_trans(range[1], range[2]) \in Seq(Transactions)
      BY <2>3, <2>5, Fill32Covers
    <3>2. Exact(Fill(range[1], range[2], fill32_trans(range[1], range[2])))
      BY <2>3, <3>1, CoversExactly
    <3> QED BY <2>1, <2>5, <3>2, FillBegins
  <2> QED BY <2>2, <2>4, <2>5
<1>2. CASE fill64
  <2>1. executed' = executed
    BY <1>2 DEF fill64, rwVars
  <2>2. PICK range \in Ranges :
          \/ Refuse("fill64", NoAccess, "FN_PARAM")
          \/ execute_trans("fill64", Fill(range[1], range[2], <<Trans("FILL", range[1], range[2])>>))
    BY <1>2, Zenon DEF fill64
  <2>3. range[1] \in Nat /\ range[2] \in Nat
    BY RangesAssumption
  <2>4. /\ Covers(<<Trans("FILL", range[1], range[2])>>, range[1], range[2])
        /\ <<Trans("FILL", range[1], range[2])>> \in Seq(Transactions)
    BY <2>3, CoversOne
  <2>5. Exact(Fill(range[1], range[2], <<Trans("FILL", range[1], range[2])>>))
    BY <2>3, <2>4, CoversExactly
  <2> QED BY <2>1, <2>2, <2>5, FillRefused, FillBegins
<1>3. CASE ~fill32 /\ ~fill64
  <2>1. op' \notin Fills
    <3>1. CASE BaseCall
      BY <3>1 DEF BaseCall, server_connect, server_unlock, get_targets, get_target_clients, device_unlock_get_challenge,
                  device_unlock_set_key, BeginQuery, WithoutPacket, Refuse, Execute, Called, Fills
    <3>2. CASE session_start \/ target_ping \/ device_connect \/ device_reset_occurred
      BY <3>2 DEF session_start, target_ping, device_connect, device_reset_occurred, mSessionStart, mDeviceConnect,
                  BeginQuery, Refuse, Execute, Called, Fills
    <3>3. CASE ExecuteTrans \/ mExecuteSingleTrans
      BY <3>3 DEF ExecuteTrans, mExecuteSingleTrans, execute_trans, Refuse, Execute, Called, Fills
    <3> QED BY <1>3, <3>1, <3>2, <3>3 DEF Call
  <2> QED BY <1>0, <2>1, FillKept
<1> QED BY <1>1, <1>2, <1>3

LEMMA FillStep ==
    ASSUME Inv, FillInv, Step
    PROVE  FillInv'
<1>0. IsSeq(toServer)
  BY DEF Inv, ExecInv, InOrder
<1>1. CASE BaseStep \/ RwSessionStarted \/ Pinged \/ RwDeviceConnected
  <2>1. op' \notin Fills
    BY <1>1 DEF BaseStep, ServerConnected, KeySet, set_pkt_rsp_get_targets, set_pkt_rsp_get_target_clients,
                RwSessionStarted, SessionStarted, Pinged, RwDeviceConnected, DeviceConnected, Received, Take, Fills
  <2> QED BY <1>0, <2>1, FillKept
<1>2. CASE Responded
  <2>1. UNCHANGED <<op, arg, call, executed, toServer>>
    BY <1>2 DEF Responded, Take, Device
  <2> QED BY <1>0, <2>1, FillKept
<1>3. CASE GivenUp
  <2>1. UNCHANGED <<op, arg, call, executed>> /\ (toServer' = toServer \/ toServer' = <<>>)
    BY <1>3 DEF GivenUp, Timeout, Lost, Overrun, Failed, Disconnect, Device
  <2> QED BY <1>0, <2>1, FillKept
<1> QED BY <1>1, <1>2, <1>3 DEF Step

LEMMA FillEnvironment ==
    ASSUME Inv, FillInv, Environment
    PROVE  FillInv'
<1>0. IsSeq(toServer)
  BY DEF Inv, ExecInv, InOrder
<1>1. CASE (Server \/ ServerCloses) /\ UNCHANGED rwVars
  <2>1. UNCHANGED <<op, arg, call, executed>>
    BY <1>1 DEF Server, ServerSendsTargets, ServerSendsClients, ServerSendsConInfo, ServerSendsOk, ServerSendsError,
                ServerCloses, Answered, rwVars
  <2>2. toServer' = <<>> \/ (toServer # <<>> /\ toServer' = Tail(toServer))
    BY <1>1 DEF Server, ServerSendsTargets, ServerSendsClients, ServerSendsConInfo, ServerSendsOk, ServerSendsError,
                ServerCloses, Answered, Pending
  <2> QED BY <1>0, <2>1, <2>2, FillKept
<1>2. CASE ServerTellsReset
  <2>1. UNCHANGED <<op, arg, call, executed, toServer>>
    BY <1>2 DEF ServerTellsReset
  <2> QED BY <1>0, <2>1, FillKept
<1>3. CASE ServerExecutes
  <2> DEFINE rq == Head(toServer)
  <2>1. /\ toServer # <<>> /\ toServer' = Tail(toServer) /\ UNCHANGED <<op, arg, call>> /\ rq.cmd = "RW"
        /\ executed' = executed \/ executed' = [call |-> rq.call, words |-> Words(rq.v.trans)]
    BY <1>3 DEF ServerExecutes, Pending, Answered
  <2>2. CASE executed' = executed
    BY <1>0, <2>1, <2>2, FillKept
  <2>3. CASE executed' = [call |-> rq.call, words |-> Words(rq.v.trans)] /\ op \in Fills
    <3>1. Exact(arg) /\ Asked(toServer, call, arg)
      BY <2>3 DEF FillInv
    <3>2. /\ rq = toServer[1] /\ Len(toServer) > 0 /\ Len(toServer) \in Nat
          /\ Len(Tail(toServer)) = Len(toServer) - 1
          /\ \A k \in 1..Len(Tail(toServer)) : Tail(toServer)[k] = toServer[k + 1]
      BY <1>0, <2>1, TailAny DEF IsSeq
    <3> HIDE DEF rq
    <3>3. 1 \in 1..Len(toServer) /\ \A k \in 1..Len(Tail(toServer)) : k + 1 \in 1..Len(toServer)
      BY <3>2, SMT
    <3>4. rq.call = call => rq.v = arg
      BY <2>1, <3>1, <3>2, <3>3 DEF Asked
    <3>5. Asked(Tail(toServer), call, arg)
      BY <3>1, <3>2, <3>3, Zenon DEF Asked
    <3>6. executed'.call = call => executed'.words = Words(arg.trans)
      BY <2>3, <3>4
    <3> QED BY <2>1, <3>1, <3>5, <3>6 DEF FillInv
  <2>4. CASE op \notin Fills
    BY <2>1, <2>4 DEF FillInv
  <2> QED BY <2>1, <2>2, <2>3, <2>4
<1> QED BY <1>1, <1>2, <1>3 DEF Environment

\* For every range: what the device executes for fill32() and fill64(), which cut the
\* range at multiples of eight, are the words of the range and no others.
THEOREM FillsCorrect == Spec => []FillsExactly
<1>1. Init => FillInv
  BY DEF Init, BaseInit, FillInv, Fills
<1>2. Inv /\ FillInv /\ [Next]_vars => FillInv'
  <2> SUFFICES ASSUME Inv, FillInv, [Next]_vars PROVE FillInv'
    OBVIOUS
  <2>1. CASE UNCHANGED vars
    <3>1. UNCHANGED <<op, arg, call, executed, toServer>>
      BY <2>1 DEF vars, baseVars, rwVars
    <3> QED BY <3>1 DEF FillInv
  <2> QED BY <2>1, FillCall, FillStep, FillEnvironment DEF Next
<1>3. FillInv => FillsExactly
  BY DEF FillInv, FillsExactly, Fills, Exact
<1> QED BY <1>1, <1>2, <1>3, Executing, PTL DEF Spec
================================================================================
