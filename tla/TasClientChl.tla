----------------------------- MODULE TasClientChl -----------------------------
(***************************************************************************)
(* CTasClientChl and CTasPktHandlerChl over CTasClientServerCon: a client that *)
(* subscribes to one channel of a device, sends and receives messages, and    *)
(* unsubscribes. Messages come over the connection on which other methods     *)
(* wait for their answers.                                                   *)
(*                                                                          *)
(* A message is its channel and its length in words. The server knows what   *)
(* the client has subscribed, and a device sends messages without end as      *)
(* long as the channel is there for receiving.                               *)
(***************************************************************************)
EXTENDS TasClientServerCon

CONSTANTS
    Chls,           \* what subscribe() is called with
    MsgWords,       \* lengths of messages of the device
    MsgLengths, Inits, \* what send_msg() is called with
    MaxQueue, MaxResets \* bounds of the model: packets underway, notifications of resets

\* The server answers errors of commands; of a reset it tells in messages. It does not
\* answer messages, nor refuse to unsubscribe. No message is longer than the protocol
\* allows.
ASSUME ChlAssumption ==
    /\ Chls \subseteq Nat /\ MsgLengths \subseteq Nat /\ MaxResets \in Nat
    /\ \A words \in MsgWords : words \in Nat /\ 4 * words <= TAS_PL1_CHL_MAX_MSG_SIZE
    /\ \A info \in ConInfos : info.c2d \in Nat
    /\ \A e \in ErrorAnswers :
        e.err # "DEV_RESET" /\ e.cmd \notin {"CHL_UNSUBSCRIBE", "CHL_MSG_C2D"}

VARIABLES
    mChlCht, mChlNum,   \* the channel as the client sees it
    mChl, mCht,         \* as its handler mTphChl expects it in the next response
    chlConInfo,         \* mConInfo of the handler
    resetCount,         \* its count of device resets
    timeout,            \* of the mailbox: "default", or "zero" as rcv_msg() was called with
    late,               \* unsubscribe() has waited for TAS_DEFAULT_TIMEOUT_MS
    \* the server
    subscribed,         \* the channel as the server sees it
    resets,             \* notifications sent
    \* history
    untold,             \* a reset was received that device_reset_occurred() has not told of
    stray               \* the server received a message for no channel it may be sent to

chlVars == <<mChlCht, mChlNum, mChl, mCht, chlConInfo, resetCount, timeout, late,
             subscribed, resets, untold, stray>>
vars == <<baseVars, chlVars>>

get_pkt_rq_subscribe(v) == Request("CHL_SUBSCRIBE", v)
get_pkt_rq_unsubscribe(chl) == Request("CHL_UNSUBSCRIBE", [chl |-> chl])
get_pkt_send_msg(v) == Request("CHL_MSG_C2D", v)

mMaxRqSizeChl == TAS_PL1_CHL_MAX_MSG_SIZE + 64

NoChl == [chl |-> TAS_CHL_NUM_MAX, cht |-> "NONE"]
Types == {"SEND", "RCV", "BIDI"}
Sending == {"SEND", "BIDI"}
Receiving == {"RCV", "BIDI"}

Channel == UNCHANGED <<mChlCht, mChlNum>>
Expected == UNCHANGED <<mChl, mCht>>
Counted == UNCHANGED <<resetCount, untold>>
Clock == UNCHANGED <<timeout, late>>
Device == UNCHANGED <<subscribed, resets, stray>>

--------------------------------------------------------------------------------
(* Session, device and ping: refused while a channel is subscribed.           *)

\* A method of a client without a channel.
WithoutChannel(name, v, Begin) ==
    IF mChlCht = "NONE" THEN Begin
    ELSE May(name) /\ Refuse(name, v, "FN_USAGE") /\ UNCHANGED <<mServerIpAddr, stateVars, listVars>>

session_start ==
    WithoutChannel("session_start", [chl |-> TRUE], mSessionStart([chl |-> TRUE])) /\ UNCHANGED chlVars

ChlSessionStarted ==
    /\ SessionStarted(ret', TRUE)
    /\ chlConInfo' = IF ret' = "NONE" THEN mConInfo' ELSE chlConInfo
    /\ Channel /\ Expected /\ Counted /\ Clock /\ Device

device_connect == WithoutChannel("device_connect", NoArg, mDeviceConnect) /\ UNCHANGED chlVars

TakesCount ==
    IF op = "device_connect"
    THEN mDeviceResetCount' = resetCount /\ untold' = FALSE
    ELSE UNCHANGED <<mDeviceResetCount, untold>>

ChlDeviceConnected ==
    /\ DeviceConnected /\ TakesCount
    /\ UNCHANGED <<chlConInfo, resetCount>> /\ Channel /\ Expected /\ Clock /\ Device

GivenUp ==
    /\ Timeout \/ Lost \/ Overrun
    /\ TakesCount
    /\ UNCHANGED <<chlConInfo, resetCount>> /\ Channel /\ Expected /\ Clock /\ Device

PingBegun ==
    /\ May("target_ping") /\ Execute("target_ping", [chl |-> TRUE], get_pkt_rq_ping)
    /\ UNCHANGED <<mServerIpAddr, stateVars, listVars>>

target_ping == WithoutChannel("target_ping", [chl |-> TRUE], PingBegun) /\ UNCHANGED chlVars

\* After a ping that failed no message may have any length.
Pinged ==
    /\ Received("target_ping")
    /\ Return(set_pkt_rsp_ping(Head(fromServer), "PING", TRUE))
    /\ chlConInfo' = ConInfoAfterPing(Head(fromServer), "PING", TRUE)
    /\ Take
    /\ UNCHANGED <<mServerIpAddr, toServer, stateVars, listVars>>
    /\ Channel /\ Expected /\ Counted /\ Clock /\ Device

\* Its result is kept in arg.
device_reset_occurred ==
    /\ May("device_reset_occurred")
    /\ IF ~mSessionStarted \/ mDeviceResetCount > resetCount
       THEN Refuse("device_reset_occurred", [reset |-> FALSE], "NONE") /\ UNCHANGED <<mDeviceResetCount, untold>>
       ELSE /\ Refuse("device_reset_occurred", [reset |-> resetCount > mDeviceResetCount], "NONE")
            /\ mDeviceResetCount' = resetCount /\ untold' = FALSE
    /\ UNCHANGED <<mServerIpAddr, mSessionStarted, mRcvChlActive, mConInfo, listVars, chlConInfo, resetCount>>
    /\ Channel /\ Expected /\ Clock /\ Device

--------------------------------------------------------------------------------
(* subscribe().                                                               *)

subscribe ==
    /\ May("subscribe")
    /\ \E chl \in Chls, cht \in Types \cup {"NONE"} :
        LET v == [chl |-> chl, cht |-> cht]
        IN  \/ /\ ~mSessionStarted \/ mChlCht # "NONE"
               /\ Refuse("subscribe", NoArg, "FN_USAGE")
               /\ Expected
            \/ /\ mSessionStarted /\ mChlCht = "NONE"
               /\ chl >= TAS_CHL_NUM_MAX \/ cht \notin Types
               /\ Refuse("subscribe", NoArg, "FN_PARAM")
               /\ Expected
            \/ /\ mSessionStarted /\ mChlCht = "NONE"
               /\ chl < TAS_CHL_NUM_MAX /\ cht \in Types
               /\ Execute("subscribe", v, get_pkt_rq_subscribe(v))
               /\ mChl' = chl /\ mCht' = cht
    /\ UNCHANGED <<mServerIpAddr, stateVars, listVars, chlConInfo>>
    /\ Channel /\ Counted /\ Clock /\ Device

\* The error of the response is not looked at.
set_pkt_rsp_subscribe_NoErr(p) ==
    IF p.cmd # "CHL_SUBSCRIBE" \/ ~p.full THEN "SERVER_CON"
    ELSE IF p.v.chl # mChl THEN "SERVER_CON"
    ELSE "NONE"

\* The error says that another client has the channel.
set_pkt_rsp_subscribe(p) ==
    IF p.cmd # "CHL_SUBSCRIBE" \/ ~p.full THEN "SERVER_CON"
    ELSE IF p.v.chl # mChl THEN "SERVER_CON"
    ELSE CASE p.err = "NO_ERROR"   -> IF p.v.cht \in Types THEN "NONE" ELSE "SERVER_CON"
           [] p.err = "CMD_FAILED" -> IF p.v.cht # mCht THEN "CHL_SETUP" ELSE "SERVER_CON"
           [] OTHER                -> "SERVER_CON"

Subscribed ==
    /\ Received("subscribe")
    /\ LET err == set_pkt_rsp_subscribe(Head(fromServer))
       IN  /\ Return(err)
           /\ IF err = "NONE"
              THEN mChlCht' = arg.cht /\ mChlNum' = arg.chl /\ mRcvChlActive' = (arg.cht \in Receiving)
              ELSE Channel /\ UNCHANGED mRcvChlActive
    /\ Take
    /\ UNCHANGED <<mServerIpAddr, toServer, mSessionStarted, mDeviceResetCount, mConInfo, listVars, chlConInfo>>
    /\ Expected /\ Counted /\ Clock /\ Device

--------------------------------------------------------------------------------
(* unsubscribe() forgets the channel, and then takes packets until its answer  *)
(* comes. Messages and notifications before it are thrown away.               *)

unsubscribe ==
    /\ May("unsubscribe")
    /\ IF mChlCht = "NONE"
       THEN Refuse("unsubscribe", NoArg, "NONE") /\ UNCHANGED <<mChl, late>>
       ELSE /\ Called("unsubscribe", NoArg) /\ Send(call + 1, get_pkt_rq_unsubscribe(mChlNum))
            /\ mChl' = mChlNum /\ late' = FALSE
    /\ mChlCht' = "NONE" /\ mChlNum' = TAS_CHL_NUM_MAX /\ mRcvChlActive' = FALSE
    /\ UNCHANGED <<mServerIpAddr, mSessionStarted, mDeviceResetCount, mConInfo, listVars, chlConInfo, mCht,
                   timeout>>
    /\ Counted /\ Device

set_pkt_rsp_unsubscribe(p) ==
    IF p.cmd = "CHL_UNSUBSCRIBE" /\ p.err = "NO_ERROR" /\ p.v.chl = mChl THEN "NONE" ELSE "SERVER_CON"

\* The time is not looked at.
EndsUnsubscribe_NoLimit(p) == p.cmd = "CHL_UNSUBSCRIBE"

EndsUnsubscribe(p) == p.cmd = "CHL_UNSUBSCRIBE" \/ late

Unsubscribed ==
    /\ Received("unsubscribe")
    /\ EndsUnsubscribe(Head(fromServer))
    /\ Return(set_pkt_rsp_unsubscribe(Head(fromServer)))
    /\ fromServer' = Tail(fromServer)
    /\ taken' = Head(fromServer).call
    /\ inStep' = (inStep /\ (late => Head(fromServer).cmd = "CHL_UNSUBSCRIBE"))
    /\ UNCHANGED <<mServerIpAddr, stateVars, listVars, op, arg, link, toServer, serverVars, call, chlConInfo>>
    /\ Channel /\ Expected /\ Counted /\ Clock /\ Device

Discarded ==
    /\ Received("unsubscribe")
    /\ ~EndsUnsubscribe(Head(fromServer))
    /\ fromServer' = Tail(fromServer)
    /\ UNCHANGED <<mServerIpAddr, stateVars, listVars, pc, op, arg, ret, link, toServer, serverVars,
                   call, taken, inStep, chlVars>>

\* Time passes while packets come.
TimePasses ==
    /\ pc = "wait" /\ op = "unsubscribe" /\ ~late
    /\ late' = TRUE
    /\ UNCHANGED <<baseVars, chlConInfo, timeout>> /\ Channel /\ Expected /\ Counted /\ Device

--------------------------------------------------------------------------------
(* Messages.                                                                  *)

\* A channel of any type will do.
MaySend_AnyType == mChlCht # "NONE"

MaySend == mChlCht \in Sending

\* 16 bits hold the length with the init word; what is copied into the request buffer
\* are all bytes of the message. Behind the buffer anything may be hit.
send_msg ==
    /\ May("send_msg")
    /\ \E length \in MsgLengths, init \in Inits :
        LET bytes == length + (IF init THEN 4 ELSE 0)
            msgLength == bytes % 65536
            v == [chl |-> mChlNum, length |-> msgLength, bytes |-> bytes]
            rq == get_pkt_send_msg(v)
        IN  \/ /\ ~MaySend
               /\ Refuse("send_msg", NoArg, "FN_USAGE")
               /\ UNCHANGED mChl
            \/ /\ MaySend /\ msgLength > chlConInfo.c2d
               /\ Refuse("send_msg", NoArg, "FN_PARAM")
               /\ UNCHANGED mChl
            \/ /\ MaySend /\ msgLength <= chlConInfo.c2d
               /\ Called("send_msg", v)
               /\ mChl' = 255
               /\ \/ /\ RqSizeOf(rq) > mMaxRqSizeChl
                     /\ pc' = "smashed" /\ UNCHANGED <<ret, link, toServer, fromServer>>
                  \/ /\ RqSizeOf(rq) <= mMaxRqSizeChl /\ link # "none"
                     /\ toServer' = Sent(call + 1, rq)
                     /\ Return("NONE") /\ UNCHANGED <<link, fromServer>>
                  \/ /\ RqSizeOf(rq) <= mMaxRqSizeChl /\ link # "up"
                     /\ Return("SERVER_CON") /\ Disconnect
               /\ UNCHANGED <<serverVars, inStep>>
    /\ UNCHANGED <<mServerIpAddr, stateVars, listVars, chlConInfo, mCht>>
    /\ Channel /\ Counted /\ Clock /\ Device

\* The mailbox keeps the timeout for what is called next.
rcv_msg ==
    /\ May("rcv_msg")
    /\ IF mChlCht \notin Receiving
       THEN Refuse("rcv_msg", NoArg, "FN_USAGE") /\ UNCHANGED timeout
       ELSE /\ Called("rcv_msg", NoArg) /\ pc' = "wait"
            /\ timeout' \in {"default", "zero"}
            /\ UNCHANGED <<ret, link, toServer, fromServer, serverVars, inStep>>
    /\ UNCHANGED <<mServerIpAddr, stateVars, listVars, chlConInfo, late>>
    /\ Channel /\ Expected /\ Counted /\ Device

\* A message without a notification counts as well.
CountsReset_AnyErr(p) == p.cmd = "CHL_MSG_D2C"

\* Only a packet without a message.
CountsReset_Alone(p) == p.cmd = "CHL_MSG_D2C" /\ p.err = "DEV_RESET" /\ p.v.words = 0

\* A notification of a reset comes alone or with a message.
CountsReset(p) == p.cmd = "CHL_MSG_D2C" /\ p.err = "DEV_RESET"

set_pkt_rcv_msg(p) ==
    IF p.cmd # "CHL_MSG_D2C" THEN "SERVER_CON"
    ELSE IF p.v.words = 0 THEN (IF p.err = "DEV_RESET" THEN "NONE" ELSE "SERVER_CON")
    ELSE IF p.err \notin {"NO_ERROR", "DEV_RESET"} \/ p.v.chl # mChlNum THEN "SERVER_CON"
    ELSE IF 4 * p.v.words > chlConInfo.d2c THEN "GENERAL"
    ELSE "NONE"

MsgReceived ==
    /\ Received("rcv_msg")
    /\ LET p == Head(fromServer)
       IN  /\ Return(set_pkt_rcv_msg(p))
           /\ resetCount' = resetCount + (IF CountsReset(p) THEN 1 ELSE 0)
           /\ untold' = (untold \/ p.err = "DEV_RESET")
           /\ taken' = IF p.cmd = "CHL_MSG_D2C" THEN call ELSE p.call
    /\ fromServer' = Tail(fromServer)
    /\ UNCHANGED <<mServerIpAddr, stateVars, listVars, op, arg, link, toServer, serverVars, call, inStep, chlConInfo>>
    /\ Channel /\ Expected /\ Clock /\ Device

--------------------------------------------------------------------------------
(* The server and the device.                                                 *)

\* One client has one channel; another client may have this one.
ServerSubscribes ==
    /\ Pending({"CHL_SUBSCRIBE"})
    /\ Answered
    /\ LET rq == Head(toServer)
       IN  \/ /\ subscribed = NoChl
              /\ subscribed' = rq.v
              /\ Push(Answer(rq.cmd, rq.call, "NO_ERROR", rq.v))
              /\ UNCHANGED faults
           \/ /\ Push(Answer(rq.cmd, rq.call, "CMD_FAILED", [rq.v EXCEPT !.cht = "NONE"]))
              /\ faults' = faults + 1
              /\ UNCHANGED subscribed
    /\ UNCHANGED <<samples, session, resets, stray, chlConInfo>> /\ Channel /\ Expected /\ Counted /\ Clock

ServerUnsubscribes ==
    /\ Pending({"CHL_UNSUBSCRIBE"})
    /\ Answered
    /\ subscribed' = NoChl
    /\ Push(Answer("CHL_UNSUBSCRIBE", Head(toServer).call, "NO_ERROR", Head(toServer).v))
    /\ UNCHANGED <<serverVars, resets, stray, chlConInfo>> /\ Channel /\ Expected /\ Counted /\ Clock

ServerTakesMsg ==
    /\ Pending({"CHL_MSG_C2D"})
    /\ Answered
    /\ stray' = (stray \/ subscribed.cht \notin Sending \/ subscribed.chl # Head(toServer).v.chl)
    /\ UNCHANGED <<serverVars, fromServer, subscribed, resets, chlConInfo>>
    /\ Channel /\ Expected /\ Counted /\ Clock

\* A message of the device, with the notification of a reset or without.
DeviceSends ==
    /\ link = "up" /\ Len(fromServer) < MaxQueue /\ subscribed.cht \in Receiving
    /\ \E words \in MsgWords, reset \in BOOLEAN :
        /\ reset => resets < MaxResets
        /\ resets' = resets + (IF reset THEN 1 ELSE 0)
        /\ Push(Answer("CHL_MSG_D2C", 0, IF reset THEN "DEV_RESET" ELSE "NO_ERROR",
                       [chl |-> subscribed.chl, words |-> words]))
    /\ UNCHANGED <<mServerIpAddr, stateVars, listVars, pc, op, arg, ret, link, toServer, serverVars,
                   call, taken, inStep, subscribed, stray, chlConInfo>>
    /\ Channel /\ Expected /\ Counted /\ Clock

\* A notification alone goes to every client, whether it has a channel or not.
ServerTellsReset ==
    /\ session /\ link = "up" /\ Len(fromServer) < MaxQueue /\ resets < MaxResets
    /\ resets' = resets + 1
    /\ Push(Answer("CHL_MSG_D2C", 0, "DEV_RESET", [chl |-> 0, words |-> 0]))
    /\ inStep' = (inStep /\ subscribed.cht \in Receiving)
    /\ UNCHANGED <<mServerIpAddr, stateVars, listVars, pc, op, arg, ret, link, toServer, serverVars,
                   call, taken, subscribed, stray, chlConInfo>>
    /\ Channel /\ Expected /\ Counted /\ Clock

ChlServerCloses ==
    /\ ServerCloses
    /\ subscribed' = NoChl
    /\ UNCHANGED <<resets, stray, chlConInfo>> /\ Channel /\ Expected /\ Counted /\ Clock

--------------------------------------------------------------------------------

Init ==
    /\ BaseInit
    /\ mChlCht = "NONE" /\ mChlNum = TAS_CHL_NUM_MAX /\ mChl = 0 /\ mCht = "NONE"
    /\ chlConInfo = NoConInfo /\ resetCount = 0 /\ timeout = "default" /\ late = FALSE
    /\ subscribed = NoChl /\ resets = 0
    /\ untold = FALSE /\ stray = FALSE

Call ==
    \/ BaseCall /\ UNCHANGED chlVars
    \/ session_start \/ device_connect \/ target_ping \/ device_reset_occurred
    \/ subscribe \/ unsubscribe \/ send_msg \/ rcv_msg

Step ==
    \/ BaseStep /\ UNCHANGED chlVars
    \/ ChlSessionStarted \/ ChlDeviceConnected \/ Pinged \/ GivenUp
    \/ Subscribed \/ Unsubscribed \/ Discarded \/ MsgReceived

Environment ==
    \/ Server /\ UNCHANGED chlVars
    \/ ServerSubscribes \/ ServerUnsubscribes \/ ServerTakesMsg
    \/ DeviceSends \/ ServerTellsReset \/ ChlServerCloses

Next == Call \/ Step \/ TimePasses \/ Environment

Spec == Init /\ [][Next]_vars

\* A call goes on by itself: its packet comes or its time runs out. Time passes, also
\* while packets come without end.
FairSpec == Spec /\ WF_vars(Step) /\ WF_vars(TimePasses)

--------------------------------------------------------------------------------
(* Properties.                                                                *)

\* Types and array bounds, see BaseTypeOK. The client has a channel or none, and
\* mRcvChlActive says whether messages may come.
TypeOK ==
    /\ BaseTypeOK
    /\ mChlCht \in Types \cup {"NONE"} /\ mChlNum \in 0..TAS_CHL_NUM_MAX
    /\ mChlCht = "NONE" <=> mChlNum = TAS_CHL_NUM_MAX
    /\ mRcvChlActive = (mChlCht \in Receiving)
    /\ resetCount \in 0..MaxResets

\* Between calls the client and the server agree on the channel and its type, as
\* long as the connection holds and no packet was left behind.
SubscriptionAgreed ==
    pc = "idle" /\ inStep /\ link = "up" =>
        subscribed = [chl |-> mChlNum, cht |-> mChlCht]

\* Under the same condition the server receives messages only for a channel that
\* this client has subscribed for sending.
NoStrayMsg == inStep => ~stray

\* The request buffer of the handler that makes a request has room for it.
RqFits(rq) ==
    RqSizeOf(rq) <= IF rq.cmd \in {"PING", "CHL_SUBSCRIBE", "CHL_UNSUBSCRIBE", "CHL_MSG_C2D"}
                    THEN mMaxRqSizeChl ELSE mMaxRqSize

\* What a handler writes into its request buffer fits there, a message that is not
\* refused included, as long as 16 bits hold its length with the init word: the buffer
\* of mTphChl is fixed, whereas the length is limited by what a device has announced in
\* a ping.
RequestsFit ==
    /\ \A k \in DOMAIN toServer : RqFits(toServer[k])
    /\ pc = "smashed" => arg.bytes >= 65536

\* A message and its init word are sent only if they are not longer than the device
\* allows; so the header and the assertions of get_pkt_send_msg() say.
MsgsFit == pc # "smashed"

\* device_reset_occurred() tells of every reset that rcv_msg() was told of since the
\* last device_connect(), alone or with a message, and tells of it once.
ResetsTold ==
    [][(call' = call + 1 /\ op' = "device_reset_occurred"
        /\ mSessionStarted /\ mDeviceResetCount # NoCount) => arg'.reset = untold]_vars

\* unsubscribe() gives up waiting for its answer only after the time it is meant to
\* wait, TAS_DEFAULT_TIMEOUT_MS.
UnsubscribeWaits ==
    [][(op = "unsubscribe" /\ link = "up" /\ fromServer = <<>> /\ pc = "wait" /\ pc' = "idle")
        => timeout = "default"]_vars
================================================================================
