------------------------------ MODULE TasClientRw ------------------------------
(***************************************************************************)
(* CTasClientRw and CTasClientRwBase over CTasClientServerCon: a client that  *)
(* starts a session, pings its target, reads, writes and fills, and asks      *)
(* whether the device was reset.                                             *)
(*                                                                          *)
(* Of the handler mTphRw this module knows what the client sees of it: that  *)
(* it exists, the limits in its mConInfo, its count of device resets, and    *)
(* what rw_set_rsp() says of a packet (TasPktHandlerRw and TasPktHandlerRwRsp *)
(* model the handler itself). An access is one packet and has one answer.    *)
(***************************************************************************)
EXTENDS TasClientServerCon

CONSTANTS
    Accesses,       \* what execute_trans() is called with, "bad" for what rw_set_trans() refuses
    Ranges,         \* what fill32() and fill64() are called with
    RwErrors,       \* what the server answers to an access
    MaxResets       \* bound of the model

\* ServerExecutes answers accesses, not ServerSendsError.
ASSUME AnswerAssumption ==
    /\ RwErrors \subseteq {"DEV_ACCESS", "RW_READ"}
    /\ \A e \in ErrorAnswers : e.cmd \notin {"RW", "PL0_START"}

ASSUME ResetsAssumption == MaxResets \in Nat

\* Addresses and lengths.
ASSUME RangesAssumption == Ranges \subseteq Nat \X Nat

VARIABLES
    mTphRw,         \* whether the handler exists
    rwConInfo,      \* its mConInfo
    resetCount,     \* its count of device resets
    num_bytes_ok,   \* what the last read() told of the bytes that were transferred
    \* the server
    executed,       \* the last accesses executed: of which call, and the words that they fill
    resets,         \* notifications sent
    \* history
    untold,         \* a reset was counted that device_reset_occurred() has not told of
    pingFailed      \* the last ping failed

rwVars == <<mTphRw, rwConInfo, resetCount, num_bytes_ok, executed, resets, untold, pingFailed>>
vars == <<baseVars, rwVars>>

Handler == UNCHANGED <<mTphRw, rwConInfo>>
Counted == UNCHANGED <<resetCount, untold>>
Device == UNCHANGED <<executed, resets>>

--------------------------------------------------------------------------------
(* Session and ping.                                                          *)

session_start == mSessionStart([chl |-> FALSE]) /\ UNCHANGED rwVars

\* The handler is made with the limits of the target, and counts resets from zero.
RwSessionStarted ==
    /\ SessionStarted(ret', FALSE)
    /\ mTphRw' = (mTphRw \/ ret' = "NONE")
    /\ rwConInfo' = IF ret' = "NONE" THEN mConInfo' ELSE rwConInfo
    /\ UNCHANGED <<resetCount, num_bytes_ok, untold, pingFailed>> /\ Device

\* There is no handler before a session.
target_ping ==
    /\ May("target_ping")
    /\ IF mTphRw THEN Execute("target_ping", [chl |-> FALSE], get_pkt_rq_ping) ELSE Refuse("target_ping", [chl |-> FALSE], "FN_USAGE")
    /\ UNCHANGED <<mServerIpAddr, stateVars, listVars, rwVars>>

\* A ping that fails leaves the handler without limits.
Pinged ==
    /\ Received("target_ping")
    /\ LET p == Head(fromServer)
       IN  /\ Return(set_pkt_rsp_ping(p, "PING", FALSE))
           /\ rwConInfo' = ConInfoAfterPing(p, "PING", FALSE)
    /\ Take
    /\ pingFailed' = (ret' # "NONE")
    /\ UNCHANGED <<mServerIpAddr, toServer, stateVars, listVars, mTphRw, num_bytes_ok>> /\ Counted /\ Device

--------------------------------------------------------------------------------
(* Resets of the device.                                                      *)

device_connect == mDeviceConnect /\ UNCHANGED rwVars

\* The count is taken whatever came of mDeviceConnect().
TakesCount ==
    IF op = "device_connect" /\ mTphRw
    THEN mDeviceResetCount' = resetCount /\ untold' = FALSE
    ELSE UNCHANGED <<mDeviceResetCount, untold>>

RwDeviceConnected ==
    /\ DeviceConnected /\ TakesCount
    /\ UNCHANGED <<resetCount, num_bytes_ok, pingFailed>> /\ Handler /\ Device

GivenUp ==
    /\ Timeout \/ Lost \/ Overrun
    /\ TakesCount
    /\ num_bytes_ok' = IF op = "read" THEN 0 ELSE num_bytes_ok
    /\ UNCHANGED <<resetCount, pingFailed>> /\ Handler /\ Device

\* The count that was compared is not kept.
device_reset_occurred_NotTaken ==
    /\ May("device_reset_occurred")
    /\ Refuse("device_reset_occurred", [reset |-> mSessionStarted /\ mDeviceResetCount < resetCount], "NONE")
    /\ untold' = (untold /\ (~mSessionStarted \/ mDeviceResetCount > resetCount))
    /\ UNCHANGED <<mServerIpAddr, stateVars, listVars, resetCount, num_bytes_ok, pingFailed>> /\ Handler /\ Device

\* Its result is kept in arg. Before the first device_connect() the count taken is
\* higher than any other and stays so.
device_reset_occurred ==
    /\ May("device_reset_occurred")
    /\ IF ~mSessionStarted \/ mDeviceResetCount > resetCount
       THEN Refuse("device_reset_occurred", [reset |-> FALSE], "NONE") /\ UNCHANGED <<mDeviceResetCount, untold>>
       ELSE /\ Refuse("device_reset_occurred", [reset |-> resetCount > mDeviceResetCount], "NONE")
            /\ mDeviceResetCount' = resetCount /\ untold' = FALSE
    /\ UNCHANGED <<mServerIpAddr, mSessionStarted, mRcvChlActive, mConInfo, listVars,
                   resetCount, num_bytes_ok, pingFailed>>
    /\ Handler /\ Device

--------------------------------------------------------------------------------
(* Accesses. One is its length and the transactions that fill memory.         *)

Access(kind) == [bytes |-> IF kind = "block" THEN 2048 ELSE 8, block |-> kind = "block",
                 ok |-> kind # "bad", addr |-> 0, trans |-> <<>>]

NoAccess == [Access("small") EXCEPT !.bytes = 0]

Trans(type, addr, num) == [type |-> type, addr |-> addr, num_bytes |-> num]

\* The words, of four bytes, that begin in a range of addresses.
WordsIn(addr, num) == {w \in 0..((addr + num) \div 4) : addr <= 4 * w /\ 4 * w < addr + num}

\* The words that transactions write.
Words(trans) == UNION {WordsIn(trans[k].addr, trans[k].num_bytes) : k \in DOMAIN trans}

\* A block of a read or write that begins at a multiple of eight cannot be divided
\* when the limits are zero: packets without end are put into the request.
Endless(a) == a.block /\ (rwConInfo.rsp = 0 \/ rwConInfo.rq = 0)

\* execute_trans(), called for name.
execute_trans(name, a) ==
    /\ May(name)
    /\ \/ ~mTphRw /\ Refuse(name, NoAccess, "FN_USAGE")
       \/ mTphRw /\ ~a.ok /\ Refuse(name, NoAccess, "FN_PARAM")
       \/ mTphRw /\ a.ok /\ ~Endless(a) /\ Execute(name, a, Request("RW", a))
       \/ /\ mTphRw /\ a.ok /\ Endless(a) /\ Called(name, a) /\ pc' = "runaway"
          /\ UNCHANGED <<ret, link, toServer, fromServer, serverVars, inStep>>
    /\ UNCHANGED <<mServerIpAddr, stateVars, listVars>>

ExecuteTrans ==
    /\ \E kind \in Accesses : execute_trans("execute_trans", Access(kind))
    /\ UNCHANGED rwVars

\* read8() to write64(), read() and write(): mExecuteSingleTrans().
mExecuteSingleTrans ==
    /\ \E kind \in Accesses : execute_trans("read", Access(kind))
    /\ num_bytes_ok' = 0
    /\ UNCHANGED <<resetCount, untold, pingFailed>> /\ Handler /\ Device

\* A last block of just eight bytes is not filled.
fill32_trans_Above8(addr, num) ==
    LET head == IF addr % 8 # 0 THEN 4 ELSE 0
        blk  == IF num - head > 8 THEN ((num - head) \div 8) * 8 ELSE 0
    IN  (IF head > 0 THEN <<Trans("WR", addr, 4)>> ELSE <<>>)
        \o (IF blk > 0 THEN <<Trans("FILL", addr + head, blk)>> ELSE <<>>)
        \o (IF num > head + blk THEN <<Trans("WR", addr + head + blk, 4)>> ELSE <<>>)

\* A word up to the next multiple of eight, blocks of eight bytes, and a last word.
fill32_trans(addr, num) ==
    LET head == IF addr % 8 # 0 THEN 4 ELSE 0
        blk  == ((num - head) \div 8) * 8
    IN  (IF head > 0 THEN <<Trans("WR", addr, 4)>> ELSE <<>>)
        \o (IF blk > 0 THEN <<Trans("FILL", addr + head, blk)>> ELSE <<>>)
        \o (IF num > head + blk THEN <<Trans("WR", addr + head + blk, 4)>> ELSE <<>>)

Fill(addr, num, trans) == [bytes |-> num, block |-> FALSE, ok |-> TRUE, addr |-> addr, trans |-> trans]

fill32 ==
    /\ May("fill32")
    /\ \E range \in Ranges : LET addr == range[1] num == range[2] IN
        IF addr % 4 # 0 \/ num = 0 \/ num % 4 # 0
        THEN /\ Refuse("fill32", NoAccess, "FN_PARAM")
             /\ UNCHANGED <<mServerIpAddr, stateVars, listVars>>
        ELSE execute_trans("fill32", Fill(addr, num, fill32_trans(addr, num)))
    /\ UNCHANGED rwVars

fill64 ==
    /\ May("fill64")
    /\ \E range \in Ranges : LET addr == range[1] num == range[2] IN
        IF addr % 8 # 0 \/ num = 0 \/ num % 8 # 0
        THEN /\ Refuse("fill64", NoAccess, "FN_PARAM")
             /\ UNCHANGED <<mServerIpAddr, stateVars, listVars>>
        ELSE execute_trans("fill64", Fill(addr, num, <<Trans("FILL", addr, num)>>))
    /\ UNCHANGED rwVars

\* The count at the end of the packet is not compared.
rw_set_rsp_NoCnt(p) ==
    IF p.cmd = "PL0_START" THEN "NONE"
    ELSE IF p.cmd # "RW" THEN "SERVER_CON"
    ELSE CASE p.err = "DEV_ACCESS" -> "DEVICE_ACCESS"
           [] p.err = "RW_READ"    -> "RW_READ"
           [] OTHER                -> "NONE"

\* An answer that an earlier call did not wait for has another count, or does not fit.
\* A notification of a reset is only a header.
rw_set_rsp(p) ==
    IF p.cmd = "PL0_START" THEN "NONE"
    ELSE IF p.cmd # "RW" \/ p.v.bytes > arg.bytes THEN "SERVER_CON"
    ELSE CASE p.err = "DEV_ACCESS" -> "DEVICE_ACCESS"
           [] p.err = "RW_READ"    -> IF p.call = call THEN "RW_READ" ELSE "SERVER_CON"
           [] OTHER                -> IF p.call = call THEN "NONE" ELSE "SERVER_CON"

\* The header is read before the rest.
CountsReset(p) ==
    IF p.cmd = "RW" THEN p.v.reset /\ p.err # "DEV_ACCESS" /\ p.v.bytes <= arg.bytes
    ELSE p.cmd = "PL0_START"

RwOps == {"execute_trans", "read", "fill32", "fill64"}

Responded ==
    /\ \E name \in RwOps : Received(name)
    /\ LET p == Head(fromServer)
       IN  /\ Return(rw_set_rsp(p))
           /\ resetCount' = resetCount + (IF CountsReset(p) THEN 1 ELSE 0)
           /\ untold' = (untold \/ CountsReset(p))
           /\ num_bytes_ok' = IF op # "read" THEN num_bytes_ok
                              ELSE IF ret' = "NONE" /\ p.cmd = "RW" THEN arg.bytes ELSE 0
    /\ Take
    /\ UNCHANGED <<mServerIpAddr, toServer, stateVars, listVars, pingFailed>> /\ Handler /\ Device

--------------------------------------------------------------------------------
(* The server. It may tell of a reset in the answer to an access, or in a packet *)
(* of its own.                                                                *)

ServerExecutes ==
    /\ Pending({"RW"})
    /\ Answered
    /\ LET rq == Head(toServer)
       IN  \E e \in RwErrors \cup {"NO_ERROR"}, reset \in BOOLEAN :
            /\ reset => resets < MaxResets
            /\ resets' = resets + (IF reset THEN 1 ELSE 0)
            /\ executed' = IF e = "NO_ERROR" THEN [call |-> rq.call, words |-> Words(rq.v.trans)] ELSE executed
            /\ faults' = faults + (IF e = "NO_ERROR" THEN 0 ELSE 1)
            /\ Push(Answer("RW", rq.call, e, [reset |-> reset, bytes |-> rq.v.bytes]))
    /\ UNCHANGED <<samples, session, resetCount, num_bytes_ok, untold, pingFailed>> /\ Handler

ServerTellsReset ==
    /\ session /\ link = "up" /\ resets < MaxResets
    /\ resets' = resets + 1
    /\ Push(HeaderOnly("PL0_START", 0, "DEV_RESET"))
    /\ inStep' = FALSE
    /\ UNCHANGED <<mServerIpAddr, stateVars, listVars, pc, op, arg, ret, link, toServer, serverVars, call, taken,
                   executed, resetCount, num_bytes_ok, untold, pingFailed>>
    /\ Handler

--------------------------------------------------------------------------------

Init ==
    /\ BaseInit
    /\ mTphRw = FALSE /\ rwConInfo = NoConInfo /\ resetCount = 0 /\ num_bytes_ok = 0
    /\ executed = [call |-> 0, words |-> {}] /\ resets = 0
    /\ untold = FALSE /\ pingFailed = FALSE

Call ==
    \/ BaseCall /\ UNCHANGED rwVars
    \/ session_start \/ target_ping \/ device_connect \/ device_reset_occurred
    \/ ExecuteTrans \/ mExecuteSingleTrans \/ fill32 \/ fill64

Step ==
    \/ BaseStep /\ UNCHANGED rwVars
    \/ RwSessionStarted \/ Pinged \/ RwDeviceConnected \/ Responded \/ GivenUp

Environment ==
    \/ (Server \/ ServerCloses) /\ UNCHANGED rwVars
    \/ ServerExecutes \/ ServerTellsReset

Next == Call \/ Step \/ Environment

Spec == Init /\ [][Next]_vars

\* A call goes on by itself: its packet comes or its time runs out.
FairSpec == Spec /\ WF_vars(Step)

--------------------------------------------------------------------------------
(* Properties.                                                                *)

\* Types and array bounds, see BaseTypeOK. The handler lives as long as the session.
TypeOK ==
    /\ BaseTypeOK
    /\ mTphRw = mSessionStarted
    /\ resetCount \in 0..MaxResets /\ num_bytes_ok \in Nat

\* device_reset_occurred() tells of every reset that an access was told of since
\* the last device_connect(), and tells of it once.
ResetsTold ==
    [][(call' = call + 1 /\ op' = "device_reset_occurred"
        /\ mSessionStarted /\ mDeviceResetCount # NoCount) => arg'.reset = untold]_vars

\* A read that tells of bytes transferred has been executed by the server, and an
\* access that succeeds too, if no notification was taken for its answer: also when
\* answers of earlier calls are late.
SuccessIsExecuted ==
    \A name \in RwOps :
        Done(name) /\ ret = "NONE" /\ (taken # 0 \/ (name = "read" /\ num_bytes_ok # 0))
            => taken = call /\ executed.call = call

\* What a fill writes is what it was asked to fill, every word and no other.
FillsExactly ==
    op \in {"fill32", "fill64"} /\ executed.call = call => executed.words = WordsIn(arg.addr, arg.bytes)

\* An access is only divided by limits that a device has announced, with room for
\* a transaction in every packet, unless a ping has failed.
LimitsUsable ==
    mTphRw /\ ~pingFailed =>
        rwConInfo.rq >= TAS_PL2_MAX_PKT_SIZE_MIN /\ rwConInfo.rsp >= TAS_PL2_MAX_PKT_SIZE_MIN

\* The requests and packets underway after c calls, when the server has executed an
\* access of call last: requests are in the order of their calls, so that a packet that
\* answers the running call without an error is what the server executed last, and no
\* request of an earlier call is left that it could execute after.
InOrder(c, rqs, rsps, last) ==
    /\ c \in Nat /\ last \in 0..c /\ IsSeq(rqs) /\ IsSeq(rsps)
    /\ \A k \in 1..Len(rqs) : rqs[k].call \in 1..c /\ rqs[k].cmd # "PL0_START"
    /\ \A j, k \in 1..Len(rqs) : j <= k => rqs[j].call <= rqs[k].call
    /\ last = c => \A k \in 1..Len(rqs) : rqs[k].call = c
    /\ \A k \in 1..Len(rsps) :
        /\ rsps[k].call \in 0..c
        /\ rsps[k].cmd = "PL0_START" => rsps[k].call = 0
        /\ rsps[k].cmd = "RW" /\ rsps[k].err \notin {"DEV_ACCESS", "RW_READ"} /\ rsps[k].call = c => last = c

\* Why SuccessIsExecuted holds: with it this is an inductive invariant.
ExecInv ==
    /\ InOrder(call, toServer, fromServer, executed.call)
    /\ pc = "wait" => call > 0

\* execute_trans() returns, whatever calls came before.
NoRunaway == pc # "runaway"
================================================================================
