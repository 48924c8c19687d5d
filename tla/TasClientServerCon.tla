--------------------------- MODULE TasClientServerCon ---------------------------
(***************************************************************************)
(* CTasClientServerCon with CTasPktHandlerServerCon and CTasPktHandlerBase:  *)
(* what the RW client and the channel client have in common: the connection  *)
(* to the server, the lists of targets and clients that are fetched page by  *)
(* page, the session, and the connection to the device. TasClientRw and      *)
(* TasClientChl extend this module; the class has no objects of its own.     *)
(*                                                                          *)
(* Below is the mailbox, seen as TasPktChannel says: execute() sends a       *)
(* request and takes the next packet of the connection, whichever it         *)
(* answers; a timeout leaves the answer to the next call. Above is a caller  *)
(* that calls the methods in any order, the others after server_connect()    *)
(* has succeeded. A call is an action that begins it, and one that takes the *)
(* packet it waits for.                                                      *)
(*                                                                          *)
(* A definition with a suffix after its name is a faulty version of the     *)
(* definition below it, see TasPktHandlerRw.                                *)
(***************************************************************************)
EXTENDS TasPkt, Sequences, TLC

CONSTANTS
    Calls,              \* the methods that are called
    MaxNumBytesRsp,     \* what the mailbox was configured with
    NumTargetMax, NumTargetClientMax,
    TargetPage, ClientPage, \* entries the server sends in a packet
    TargetLens, ClientLens, \* lengths of the lists of the server
    ConInfos,           \* what a device may announce
    ErrorAnswers,       \* the errors a server may answer
    MaxCalls, MaxFaults \* bounds of the model: no call begins after more of them

\* A list has room for more than a packet holds: 64 targets and 32 clients, where the
\* page of a packet is at most 11 of either.
ASSUME PageAssumption ==
    /\ NumTargetMax \in Nat /\ NumTargetClientMax \in Nat
    /\ TargetPage \in Nat \ {0} /\ ClientPage \in Nat \ {0}
    /\ TargetPage <= NumTargetMax /\ ClientPage < NumTargetClientMax
    /\ PL2 + tas_pl1rsp_get_targets_st + TargetPage * tas_target_info_st <= TAS_MAX_PKT_SIZE_1KB
    /\ PL2 + tas_pl1rsp_get_clients_st + ClientPage * tas_target_client_info_st <= TAS_MAX_PKT_SIZE_1KB

ASSUME LensAssumption == TargetLens \subseteq Nat /\ ClientLens \subseteq Nat

\* There are no entries in a page that goes with an error.
ASSUME ErrorAssumption ==
    \A e \in ErrorAnswers :
        /\ e.err # "NO_ERROR"
        /\ e.full \in BOOLEAN
        /\ e.cmd \in {"GET_TARGETS", "GET_CLIENTS"} /\ e.full => e.v.items = <<>>

VARIABLES
    mServerIpAddr,      \* whether it is set: server_connect() has succeeded
    mSessionStarted, mRcvChlActive,
    mDeviceResetCount,  \* NoCount until the first device_connect()
    mConInfo,           \* of the handler mTphsc
    mStartIndex,
    mNumTarget, mTargetInfo,
    mNumTargetClient, mTargetClientInfo,
    pc,     \* "idle", "wait" for a packet; "null", "overrun", "smashed" and
            \* "runaway" are undefined behaviour, after which nothing can be said
    op, arg, \* the running or last call
    ret,    \* what it returned
    \* the connection and the server
    link,   \* "none", "bad" (a socket that is not connected), "up", "closed" by the server
    toServer, fromServer,
    sampled,            \* lengths of the lists the server has sampled
    targetSample,       \* the last list of targets
    session,            \* the server has a session with this client
    \* history
    faults,             \* errors answered, targets announced that are refused, answers late,
                        \* connections closed
    call, taken,        \* number of calls, and which one the last packet taken answers
    inStep              \* no timeout or unrequested packet has put a packet into the
                        \* connection that no call waits for

listVars == <<mStartIndex, mNumTarget, mTargetInfo, mNumTargetClient, mTargetClientInfo>>
stateVars == <<mSessionStarted, mRcvChlActive, mDeviceResetCount, mConInfo>>
samples == <<sampled, targetSample>>
serverVars == <<samples, session, faults>>
baseVars == <<mServerIpAddr, stateVars, listVars, pc, op, arg, ret, link, toServer, fromServer,
              serverVars, call, taken, inStep>>

\* Stands for ~0, which TLC cannot count to; no count comes near it.
NoCount == 2147483647
NoConInfo == [ver |-> 0, rq |-> 0, rsp |-> 0, c2d |-> 0, d2c |-> 0]
NoEntry == <<0, 0>>
NoArg == [none |-> TRUE]

MAX_PKT_RQ_SIZE == 1024

least(a, b) == IF a < b THEN a ELSE b

\* A sequence of elements of any kind.
IsSeq(s) == Len(s) \in Nat /\ s = [k \in 1..Len(s) |-> s[k]]

--------------------------------------------------------------------------------
(* Packets. An answer knows its command, the call it answers (0 for none), its *)
(* error, whether it is more than a header, and its content.                   *)

Answer(cmd, id, err, v) == [cmd |-> cmd, call |-> id, err |-> err, full |-> TRUE, v |-> v]
HeaderOnly(cmd, id, err) == [cmd |-> cmd, call |-> id, err |-> err, full |-> FALSE, v |-> NoArg]

SizeOf(p) ==
    PL2 + IF ~p.full THEN PL1 ELSE
          CASE p.cmd = "SERVER_CONNECT"      -> tas_pl1rsp_server_connect_st
            [] p.cmd = "GET_TARGETS"         -> tas_pl1rsp_get_targets_st + Len(p.v.items) * tas_target_info_st
            [] p.cmd = "GET_CLIENTS"         -> tas_pl1rsp_get_clients_st + Len(p.v.items) * tas_target_client_info_st
            [] p.cmd \in {"SESSION_START", "PING"} -> tas_pl1rsp_ping_st
            [] p.cmd = "SET_DEVICE_KEY"      -> tas_pl1rsp_set_device_key_st
            [] p.cmd = "DEVICE_CONNECT"      -> tas_pl1rsp_device_connect_st
            [] p.cmd = "PL0_START"           -> tas_pl1rsp_pl0_start_st
            [] p.cmd = "RW"                  -> tas_pl1rsp_pl0_start_st + p.v.bytes + tas_pl1rsp_pl0_end_st
            [] p.cmd = "CHL_SUBSCRIBE"       -> tas_pl1rsp_chl_subscribe_st
            [] p.cmd = "CHL_UNSUBSCRIBE"     -> tas_pl1rsp_chl_unsubscribe_st
            [] p.cmd = "CHL_MSG_D2C"         -> tas_pl1rsp_chl_msg_d2c_st + 4 * p.v.words

\* A request knows its command, its call, which is filled in when it is sent, and what
\* the server has to know of it.
Request(cmd, v) == [cmd |-> cmd, call |-> 0, v |-> v]

get_pkt_rq_server_connect == Request("SERVER_CONNECT", NoArg)
get_pkt_rq_get_targets(start) == Request("GET_TARGETS", [start |-> start])
get_pkt_rq_get_target_clients(start) == Request("GET_CLIENTS", [start |-> start])
get_pkt_rq_session_start == Request("SESSION_START", NoArg)
get_pkt_rq_ping == Request("PING", NoArg)
get_pkt_rq_device_unlock_set_key(length) == Request("SET_DEVICE_KEY", [length |-> length])
get_pkt_rq_device_connect == Request("DEVICE_CONNECT", NoArg)

\* What is written into the buffer mRqBuf of the handler that makes the request.
RqSizeOf(rq) ==
    PL2 + CASE rq.cmd = "SERVER_CONNECT"  -> tas_pl1rq_server_connect_st
            [] rq.cmd = "GET_TARGETS"     -> tas_pl1rq_get_targets_st
            [] rq.cmd = "GET_CLIENTS"     -> tas_pl1rq_get_clients_st
            [] rq.cmd = "SESSION_START"   -> tas_pl1rq_session_start_st
            [] rq.cmd = "PING"            -> tas_pl1rq_ping_st
            [] rq.cmd = "SET_DEVICE_KEY"  -> tas_pl1rq_set_device_key_st + rq.v.length
            [] rq.cmd = "DEVICE_CONNECT"  -> tas_pl1rq_device_connect_st
            [] rq.cmd = "CHL_SUBSCRIBE"   -> tas_pl1rq_chl_subscribe_st
            [] rq.cmd = "CHL_UNSUBSCRIBE" -> tas_pl1rq_chl_unsubscribe_st
            [] rq.cmd = "CHL_MSG_C2D"     -> tas_pl1rq_chl_msg_c2d_st + rq.v.bytes

mMaxRqSize == MAX_PKT_RQ_SIZE + 64

\* Buffers on the stack have the size of the response that is expected.
BufSize(rsp) == PL2 + rsp

\* The buffer of the running call.
Buffer ==
    CASE op = "server_connect"  -> BufSize(tas_pl1rsp_server_connect_st)
      [] op \in {"get_targets", "get_target_clients"} -> TAS_MAX_PKT_SIZE_1KB
      [] op = "session_start"   -> BufSize(tas_pl1rsp_ping_st)
      [] op = "device_unlock_set_key" -> BufSize(tas_pl1rsp_set_device_key_st)
      [] op = "device_connect"  -> BufSize(tas_pl1rsp_device_connect_st)
      [] op = "subscribe"       -> BufSize(tas_pl1rsp_chl_subscribe_st)
      [] op = "unsubscribe"     -> TAS_PL1_CHL_MAX_MSG_SIZE + 32
      [] op = "rcv_msg"         -> 4 * TAS_PL1_CHL_MAX_MSG_SIZE
      [] op = "target_ping" /\ arg.chl -> BufSize(tas_pl1rsp_ping_st)
      [] OTHER                       -> MaxNumBytesRsp

--------------------------------------------------------------------------------
(* The mailbox.                                                               *)

\* The caller.
May(name) == pc = "idle" /\ name \in Calls /\ call < MaxCalls /\ faults <= MaxFaults

Called(name, v) == call' = call + 1 /\ op' = name /\ arg' = v /\ taken' = call + 1

Return(err) == pc' = "idle" /\ ret' = err

\* A call that returns without a packet.
Refuse(name, v, err) ==
    /\ Called(name, v) /\ Return(err)
    /\ UNCHANGED <<link, toServer, fromServer, serverVars, inStep>>

\* What is sent over a connection that is not there is lost, and noticed later (Lost).
Sent(id, rq) == IF link = "up" THEN Append(toServer, [rq EXCEPT !.call = id]) ELSE toServer

\* Sends a request and begins to wait.
Send(id, rq) ==
    /\ toServer' = Sent(id, rq)
    /\ pc' = "wait"
    /\ UNCHANGED <<ret, link, fromServer, serverVars, inStep>>

Execute(name, v, rq) == Called(name, v) /\ Send(call + 1, rq)

Disconnect == link' = "none" /\ toServer' = <<>> /\ fromServer' = <<>>

\* The next packet is taken by the running call, which it may not answer.
Received(name) == pc = "wait" /\ op = name /\ fromServer # <<>> /\ SizeOf(Head(fromServer)) <= least(Buffer, MaxNumBytesRsp)

Take ==
    /\ fromServer' = Tail(fromServer)
    /\ taken' = Head(fromServer).call
    /\ UNCHANGED <<op, arg, link, serverVars, call, inStep>>

\* The call is given up. A client may still take the count of device resets.
Failed == UNCHANGED <<mServerIpAddr, mSessionStarted, mRcvChlActive, mConInfo, listVars, op, arg,
                      samples, session, call, taken>>

\* A timeout is no error of the mailbox that ends the connection.
Timeout ==
    /\ pc = "wait" /\ link = "up" /\ fromServer = <<>>
    /\ Return(IF op = "rcv_msg" THEN "CHL_RCV" ELSE "SERVER_CON")
    /\ inStep' = (inStep /\ op = "rcv_msg")
    /\ faults' = faults + (IF op = "rcv_msg" THEN 0 ELSE 1)
    /\ UNCHANGED <<link, toServer, fromServer>>
    /\ Failed

\* There is no connection, the server has closed it, or sends more than the mailbox takes.
Lost ==
    /\ pc = "wait"
    /\ IF link # "up" \/ fromServer = <<>> THEN link # "up" ELSE SizeOf(Head(fromServer)) > MaxNumBytesRsp
    /\ Return(IF op = "rcv_msg" THEN "CHL_RCV" ELSE "SERVER_CON")
    /\ Disconnect
    /\ UNCHANGED <<inStep, faults>>
    /\ Failed

\* The mailbox writes behind the buffer.
Overrun ==
    /\ pc = "wait" /\ fromServer # <<>>
    /\ LET n == SizeOf(Head(fromServer)) IN n <= MaxNumBytesRsp /\ n > Buffer
    /\ pc' = "overrun"
    /\ UNCHANGED <<ret, link, toServer, fromServer, inStep, faults>>
    /\ Failed

--------------------------------------------------------------------------------
(* CTasPktHandlerBase.                                                        *)

\* An answer to another command, or with an error the command does not have.
Foreign(p, cmd, errs) == p.cmd # cmd \/ ~p.full \/ p.err \notin errs

\* An answer that is only a header.
mHandlePktError(p, cmd) ==
    IF p.cmd # cmd \/ p.full THEN "SERVER_CON"
    ELSE CASE p.err = "USAGE"         -> "FN_USAGE"
           [] p.err = "NOT_SUPPORTED" -> "FN_NOT_SUPPORTED"
           [] OTHER                   -> "GENERAL"

\* The lengths of messages are not checked.
ValidConInfo_NoLengths(info) ==
    /\ info.ver = 1
    /\ \A size \in {info.rq, info.rsp} :
        size % 4 = 0 /\ size >= TAS_PL2_MAX_PKT_SIZE_MIN /\ size <= TAS_PL2_MAX_PKT_SIZE

\* The smallest size of packets is not checked.
ValidConInfo_NoMin(info) == info.ver = 1 /\ info.rq <= TAS_PL2_MAX_PKT_SIZE /\ info.rsp <= TAS_PL2_MAX_PKT_SIZE

\* The version of the protocol and the sizes that a device announces.
ValidConInfo(info) ==
    /\ info.ver = 1
    /\ \A size \in {info.rq, info.rsp} :
        size % 4 = 0 /\ size >= TAS_PL2_MAX_PKT_SIZE_MIN /\ size <= TAS_PL2_MAX_PKT_SIZE
    /\ \A length \in {info.c2d, info.d2c} : length % 4 = 0 /\ length <= TAS_PL1_CHL_MAX_MSG_SIZE

\* What the call returns, for a response to a ping or to the start of a session.
set_pkt_rsp_ping(p, cmd, chl) ==
    IF p.cmd # cmd \/ ~p.full THEN mHandlePktError(p, cmd)
    ELSE IF p.v.ver # 1 THEN "SERVER_CON"
    ELSE CASE p.err \in {"SESSION", "NOT_SUPPORTED"} -> "FN_PARAM"
           [] p.err = "CMD_FAILED" -> IF chl THEN "CHL_SETUP" ELSE "DEVICE_ACCESS"
           [] p.err = "NO_ERROR"   -> IF ValidConInfo(p.v) THEN "NONE" ELSE "SERVER_CON"
           [] OTHER                -> "SERVER_CON"

\* What is left in mConInfo: the member was cleared first.
ConInfoAfterPing(p, cmd, chl) ==
    IF set_pkt_rsp_ping(p, cmd, chl) = "NONE" THEN p.v ELSE NoConInfo

--------------------------------------------------------------------------------
(* server_connect(), which may be tried again until it has succeeded.         *)

mHandleErrorServerConnect == link' = "bad" /\ Return("SERVER_CON")

\* A new socket: packets of the one before are not read any more.
server_connect ==
    /\ May("server_connect")
    /\ IF mServerIpAddr
       THEN Refuse("server_connect", NoArg, "FN_USAGE") /\ UNCHANGED mServerIpAddr
       ELSE /\ Called("server_connect", NoArg)
            /\ fromServer' = <<>> /\ inStep' = TRUE /\ session' = FALSE /\ UNCHANGED faults
            /\ \/ /\ link' = "up" /\ pc' = "wait" /\ UNCHANGED ret
                  /\ toServer' = <<[get_pkt_rq_server_connect EXCEPT !.call = call + 1]>>
               \/ /\ mHandleErrorServerConnect
                  /\ toServer' = <<>>
            /\ UNCHANGED <<mServerIpAddr, samples>>
    /\ UNCHANGED <<stateVars, listVars>>

set_pkt_rsp_server_connect(p) ==
    IF Foreign(p, "SERVER_CONNECT", {"NO_ERROR", "CMD_FAILED", "SERVER_LOCKED"}) THEN "SERVER_CON"
    ELSE CASE p.err = "SERVER_LOCKED" -> "SERVER_LOCKED"
           [] p.err = "CMD_FAILED"    -> "SERVER_CON"
           [] p.err = "NO_ERROR"      -> "NONE"

ServerConnected ==
    /\ Received("server_connect")
    /\ LET err == set_pkt_rsp_server_connect(Head(fromServer))
       IN  Return(err) /\ mServerIpAddr' = (err = "NONE")
    /\ Take
    /\ UNCHANGED <<toServer, stateVars, listVars>>

--------------------------------------------------------------------------------
(* Methods that are refused while a channel is subscribed for receiving, since *)
(* the next packet may then be a message.                                      *)

\* The channel is not looked at.
BeginQuery_Always(name, v, rq) ==
    mServerIpAddr /\ May(name) /\ Execute(name, v, rq) /\ UNCHANGED <<mServerIpAddr, stateVars>>

BeginQuery(name, v, rq) ==
    /\ mServerIpAddr /\ May(name)
    /\ IF mRcvChlActive THEN Refuse(name, v, "FN_USAGE") ELSE Execute(name, v, rq)
    /\ UNCHANGED <<mServerIpAddr, stateVars>>

\* get_pkt_rq_server_unlock() and get_pkt_rq_device_unlock_get_challenge() return
\* no packet, and the mailbox reads its size.
WithoutPacket(name) ==
    /\ mServerIpAddr /\ May(name)
    /\ IF mRcvChlActive THEN Refuse(name, NoArg, "FN_USAGE")
       ELSE /\ Called(name, NoArg) /\ pc' = "null"
            /\ UNCHANGED <<ret, link, toServer, fromServer, serverVars, inStep>>
    /\ UNCHANGED <<mServerIpAddr, stateVars, listVars>>

server_unlock == WithoutPacket("server_unlock")
device_unlock_get_challenge == WithoutPacket("device_unlock_get_challenge")

device_unlock_set_key ==
    /\ BeginQuery("device_unlock_set_key", NoArg, get_pkt_rq_device_unlock_set_key(TAS_UNLOCK_MAX_KEY_LEN))
    /\ UNCHANGED listVars

KeySet ==
    /\ Received("device_unlock_set_key")
    /\ Return(IF Foreign(Head(fromServer), "SET_DEVICE_KEY", {"NO_ERROR"}) THEN "SERVER_CON" ELSE "NONE")
    /\ Take
    /\ UNCHANGED <<mServerIpAddr, toServer, stateVars, listVars>>

--------------------------------------------------------------------------------
(* get_targets() and get_target_clients().                                    *)

get_targets ==
    /\ BeginQuery("get_targets", NoArg, get_pkt_rq_get_targets(0))
    /\ mStartIndex' = IF mRcvChlActive THEN mStartIndex ELSE 0
    /\ UNCHANGED <<mNumTarget, mTargetInfo, mNumTargetClient, mTargetClientInfo>>

get_target_clients ==
    /\ BeginQuery("get_target_clients", NoArg, get_pkt_rq_get_target_clients(0))
    /\ mStartIndex' = IF mRcvChlActive THEN mStartIndex ELSE 0
    /\ UNCHANGED <<mNumTarget, mTargetInfo, mNumTargetClient, mTargetClientInfo>>

\* The index where the page begins is not compared.
BadPage_NoStart(p, num, max) ==
    \/ mStartIndex > 0 /\ num < max /\ p.v.num # num
    \/ p.v.start # 0 /\ p.v.start + Len(p.v.items) > num

\* The page does not continue the list that was begun; num is its length so far known.
BadPage(p, num, max) ==
    \/ p.v.start # mStartIndex
    \/ mStartIndex > 0 /\ num < max /\ p.v.num # num
    \/ p.v.start # 0 /\ p.v.start + Len(p.v.items) > num

\* memcpy() of the entries of a page, from index on.
Copy(info, index, items) ==
    [k \in 1..(IF index + Len(items) > Len(info) THEN index + Len(items) ELSE Len(info)) |->
        IF k > index /\ k <= index + Len(items) THEN items[k - index] ELSE info[k]]

\* What a page means for the call; num is the length of the list that was begun.
PageError(p, cmd, errs, num, max) ==
    IF Foreign(p, cmd, errs \cup {"NO_ERROR", "SERVER_LOCKED"}) THEN "SERVER_CON"
    ELSE IF BadPage(p, num, max) THEN "SERVER_CON"
    ELSE CASE p.err = "NO_ERROR"      -> "NONE"
           [] p.err = "PARAM"         -> "FN_PARAM"
           [] p.err = "SERVER_LOCKED" -> "SERVER_LOCKED"

\* A page of targets, and the request for the next one.
set_pkt_rsp_get_targets ==
    /\ Received("get_targets")
    /\ Take
    /\ LET p    == Head(fromServer)
           num  == IF mStartIndex = 0 THEN 0 ELSE mNumTarget
           len  == IF mStartIndex = 0 THEN least(p.v.num, NumTargetMax) ELSE num
           next == (mStartIndex + Len(p.v.items)) % 256
           err  == PageError(p, "GET_TARGETS", {}, num, NumTargetMax)
       IN  \/ /\ err # "NONE"
              /\ Return(err)
              /\ mNumTarget' = num
              /\ UNCHANGED <<mTargetInfo, mStartIndex, toServer>>
           \/ /\ err = "NONE"
              /\ mNumTarget' = len
              /\ mTargetInfo' = Copy(mTargetInfo, mStartIndex, p.v.items)
              /\ IF next < len
                 THEN /\ mStartIndex' = next
                      /\ toServer' = Sent(call, get_pkt_rq_get_targets(next))
                      /\ UNCHANGED <<pc, ret>>
                 ELSE Return("NONE") /\ UNCHANGED <<mStartIndex, toServer>>
    /\ UNCHANGED <<mServerIpAddr, stateVars, mNumTargetClient, mTargetClientInfo>>

\* Entries are compared by the time of the connection; later samples come later.
ConnectTime(entry) == 100 * entry[2] + entry[1]

\* The clients as they are in the array.
get_target_clients_info_Unsorted(info, num) == info

\* An order of the first entries that is not decreasing: each of them has a place.
Sorts(order, info, num) ==
    \A i, j \in 1..num :
        /\ order[i] = order[j] => i = j
        /\ i < j => ConnectTime(info[order[i]]) <= ConnectTime(info[order[j]])

ByTime(info, num) == CHOOSE f \in [1..num -> 1..num] : Sorts(f, info, num)

\* qsort() of as many entries as there are clients.
get_target_clients_info(info, num) ==
    [k \in 1..Len(info) |-> IF k <= num THEN info[ByTime(info, num)[k]] ELSE info[k]]

\* The first page of clients. The number of clients is not passed on to
\* get_target_clients(), which therefore never asks for the next.
set_pkt_rsp_get_target_clients ==
    /\ Received("get_target_clients")
    /\ Take
    /\ LET p   == Head(fromServer)
           num == least(p.v.num, NumTargetClientMax)
           err == PageError(p, "GET_CLIENTS", {"PARAM"}, 0, NumTargetClientMax)
       IN  /\ Return(err)
           /\ mNumTargetClient' = IF err = "NONE" THEN num ELSE 0
           /\ mTargetClientInfo' =
                IF err = "NONE" THEN get_target_clients_info(Copy(mTargetClientInfo, 0, p.v.items), num)
                ELSE mTargetClientInfo
    /\ UNCHANGED <<mServerIpAddr, stateVars, toServer, mStartIndex, mNumTarget, mTargetInfo>>

--------------------------------------------------------------------------------
(* The session and the device. The clients add what they do with the result.  *)

mSessionStart(v) ==
    /\ mServerIpAddr /\ May("session_start")
    /\ IF mSessionStarted
       THEN Refuse("session_start", v, "FN_USAGE") /\ UNCHANGED mDeviceResetCount
       ELSE Execute("session_start", v, get_pkt_rq_session_start) /\ mDeviceResetCount' = NoCount
    /\ UNCHANGED <<mServerIpAddr, mSessionStarted, mRcvChlActive, mConInfo, listVars>>

\* The session counts as started whatever the server answers.
Started_Always(err) == TRUE

Started(err) == err = "NONE"

\* err is what the call returns.
SessionStarted(err, chl) ==
    /\ Received("session_start")
    /\ err = set_pkt_rsp_ping(Head(fromServer), "SESSION_START", chl)
    /\ Return(err)
    /\ Take
    /\ mConInfo' = ConInfoAfterPing(Head(fromServer), "SESSION_START", chl)
    /\ mSessionStarted' = Started(err)
    /\ UNCHANGED <<mServerIpAddr, mRcvChlActive, mDeviceResetCount, toServer, listVars>>

set_pkt_rsp_device_connect(p) ==
    IF ~p.full THEN mHandlePktError(p, "DEVICE_CONNECT")
    ELSE IF p.cmd # "DEVICE_CONNECT" THEN "SERVER_CON"
    ELSE CASE p.err = "NO_ERROR"      -> "NONE"
           [] p.err = "DEV_ACCESS"    -> "DEVICE_ACCESS"
           [] p.err = "DEV_LOCKED"    -> "DEVICE_LOCKED"
           [] p.err = "CMD_FAILED"    -> IF p.v.device THEN "FN_PARAM" ELSE "DEVICE_ACCESS"
           [] OTHER                   -> "SERVER_CON"

\* mDeviceConnect() is given up without a packet: the client still takes the count.
mDeviceConnect == BeginQuery("device_connect", NoArg, get_pkt_rq_device_connect) /\ UNCHANGED listVars

DeviceConnected ==
    /\ Received("device_connect")
    /\ Return(set_pkt_rsp_device_connect(Head(fromServer)))
    /\ Take
    /\ UNCHANGED <<mServerIpAddr, mSessionStarted, mRcvChlActive, mConInfo, toServer, listVars>>

--------------------------------------------------------------------------------
(* The server and the network.                                                *)

Entries(s, start, page) ==
    [k \in 1..(IF start < sampled[s] THEN least(page, sampled[s] - start) ELSE 0) |-> <<s, start + k>>]

\* The latest clients first.
Reversed(entries) == [k \in DOMAIN entries |-> entries[Len(entries) + 1 - k]]

PageOf(s, start, page) == [num |-> sampled[s], start |-> start, items |-> Entries(s, start, page)]

Push(p) == fromServer' = Append(fromServer, p)

Errs(rq) == {e \in ErrorAnswers : e.cmd = rq.cmd}

Pending(cmds) == link = "up" /\ toServer # <<>> /\ Head(toServer).cmd \in cmds

Answered == toServer' = Tail(toServer) /\
    UNCHANGED <<mServerIpAddr, stateVars, listVars, pc, op, arg, ret, link, call, taken, inStep>>

\* The list of all targets or clients is sampled when its first page is asked for.
ServerSendsTargets ==
    /\ Pending({"GET_TARGETS"})
    /\ Answered
    /\ LET rq == Head(toServer)
       IN  IF rq.v.start = 0
           THEN \E n \in TargetLens :
                /\ sampled' = Append(sampled, n)
                /\ targetSample' = Len(sampled) + 1
                /\ Push(Answer(rq.cmd, rq.call, "NO_ERROR",
                    [num |-> n, start |-> 0, items |-> [k \in 1..least(TargetPage, n) |-> <<Len(sampled) + 1, k>>]]))
           ELSE /\ Push(Answer(rq.cmd, rq.call, "NO_ERROR", PageOf(targetSample, rq.v.start, TargetPage)))
                /\ UNCHANGED <<sampled, targetSample>>
    /\ UNCHANGED <<session, faults>>

ServerSendsClients ==
    /\ Pending({"GET_CLIENTS"})
    /\ Answered
    /\ LET rq == Head(toServer)
       IN  \E n \in ClientLens :
                /\ sampled' = Append(sampled, n)
                /\ Push(Answer(rq.cmd, rq.call, "NO_ERROR",
                    [num |-> n, start |-> 0,
                     items |-> Reversed([k \in 1..least(ClientPage, n) |-> <<Len(sampled) + 1, k>>])]))
    /\ UNCHANGED <<targetSample, session, faults>>

\* A ping or the start of a session is answered with what the device announces.
ServerSendsConInfo ==
    /\ Pending({"SESSION_START", "PING"})
    /\ Answered
    /\ \E info \in ConInfos :
        /\ Push(Answer(Head(toServer).cmd, Head(toServer).call, "NO_ERROR", info))
        /\ faults' = faults + (IF ValidConInfo(info) THEN 0 ELSE 1)
    /\ session' = (session \/ Head(toServer).cmd = "SESSION_START")
    /\ UNCHANGED samples

ServerSendsOk ==
    /\ Pending({"SERVER_CONNECT", "SET_DEVICE_KEY", "DEVICE_CONNECT"})
    /\ Answered
    /\ Push(Answer(Head(toServer).cmd, Head(toServer).call, "NO_ERROR", [device |-> TRUE]))
    /\ UNCHANGED serverVars

\* The content that goes with an error: a page without entries, no device, or what
\* was announced.
ServerSendsError ==
    /\ toServer # <<>> /\ link = "up"
    /\ Answered
    /\ \E e \in Errs(Head(toServer)) :
        LET rq == Head(toServer)
        IN  Push(IF e.full THEN Answer(rq.cmd, rq.call, e.err, e.v) ELSE HeaderOnly(rq.cmd, rq.call, e.err))
    /\ faults' = faults + 1
    /\ UNCHANGED <<samples, session>>

ServerCloses ==
    /\ link = "up" /\ faults < MaxFaults
    /\ link' = "closed" /\ toServer' = <<>> /\ session' = FALSE /\ faults' = faults + 1
    /\ UNCHANGED <<mServerIpAddr, stateVars, listVars, pc, op, arg, ret, fromServer, samples, call,
                   taken, inStep>>

Server == ServerSendsTargets \/ ServerSendsClients \/ ServerSendsConInfo \/ ServerSendsOk \/ ServerSendsError

--------------------------------------------------------------------------------

BaseInit ==
    /\ mServerIpAddr = FALSE /\ mSessionStarted = FALSE /\ mRcvChlActive = FALSE
    /\ mDeviceResetCount = NoCount /\ mConInfo = NoConInfo
    /\ mStartIndex = 0 /\ mNumTarget = 0 /\ mNumTargetClient = 0
    /\ mTargetInfo = [k \in 1..NumTargetMax |-> NoEntry]
    /\ mTargetClientInfo = [k \in 1..NumTargetClientMax |-> NoEntry]
    /\ pc = "idle" /\ op = "" /\ arg = NoArg /\ ret = "NONE"
    /\ link = "none" /\ toServer = <<>> /\ fromServer = <<>>
    /\ sampled = <<>> /\ targetSample = 0 /\ session = FALSE /\ faults = 0
    /\ call = 0 /\ taken = 0 /\ inStep = TRUE

\* The methods that the clients do not extend, and the packets they take. A client
\* adds what it does when a call is given up (Timeout, Lost, Overrun).
BaseCall ==
    \/ server_connect \/ server_unlock
    \/ get_targets \/ get_target_clients
    \/ device_unlock_get_challenge \/ device_unlock_set_key

BaseStep ==
    \/ ServerConnected \/ KeySet
    \/ set_pkt_rsp_get_targets \/ set_pkt_rsp_get_target_clients

--------------------------------------------------------------------------------
(* Properties.                                                                *)

Returns == {"NONE", "GENERAL", "FN_NOT_SUPPORTED", "FN_USAGE", "FN_PARAM", "SERVER_CON",
            "SERVER_LOCKED", "DEVICE_ACCESS", "DEVICE_LOCKED", "RW_READ", "CHL_SETUP", "CHL_RCV"}

\* Types. No page is written behind the end of mTargetInfo or mTargetClientInfo.
BaseTypeOK ==
    /\ {mServerIpAddr, mSessionStarted, mRcvChlActive, session, inStep} \subseteq BOOLEAN
    /\ pc \in {"idle", "wait", "null", "overrun", "smashed", "runaway"} /\ ret \in Returns
    /\ link \in {"none", "bad", "up", "closed"}
    /\ mStartIndex \in 0..255
    /\ mNumTarget \in 0..NumTargetMax /\ Len(mTargetInfo) = NumTargetMax
    /\ mNumTargetClient \in 0..NumTargetClientMax /\ Len(mTargetClientInfo) = NumTargetClientMax

Done(name) == pc = "idle" /\ op = name

\* The targets that get_targets() reports are one list that the server has sampled,
\* as far as there is room for it: never a mixture of lists, also when pages were late.
TargetsOfOneSample ==
    Done("get_targets") /\ ret = "NONE" =>
        \E s \in DOMAIN sampled :
            /\ mNumTarget = least(sampled[s], NumTargetMax)
            /\ \A k \in 1..mNumTarget : mTargetInfo[k] = <<s, k>>

\* The clients of a target, in the order in which they connected, if the packet of
\* the response has room for all of them.
ClientsOfOnePage ==
    Done("get_target_clients") /\ ret = "NONE" /\ mNumTargetClient <= ClientPage =>
        \E s \in DOMAIN sampled :
            /\ mNumTargetClient = sampled[s]
            /\ \A k \in 1..mNumTargetClient : mTargetClientInfo[k] = <<s, k>>

\* As long as no call has timed out, and no packet came that none asked for, a call
\* takes the packet that answers its own request. This is what mRcvChlActive is for.
OwnResponse == inStep => taken = call

\* Under the same condition no response is longer than the buffer of its call.
BuffersHold == inStep => pc # "overrun"

\* The client believes to have a session only while the server has one for it, or
\* the connection is lost.
SessionAgreed == mSessionStarted /\ link = "up" => session

\* Every call returns: it is answered, or times out, or finds the connection lost,
\* unless it has run into undefined behaviour.
CallReturns == pc = "wait" ~> pc # "wait"
================================================================================
