--------------------------- MODULE TasPktHandlerRwRsp ---------------------------
(***************************************************************************)
(* The response side of CTasPktHandlerRw (tas_pkt_handler_rw.cpp): how      *)
(* rw_set_rsp() assigns the answers of the server to the PL0 accesses of    *)
(* the request, and how rw_get_trans_rsp() merges them to results of the    *)
(* transactions.                                                            *)
(*                                                                          *)
(* A request is a member of Requests: its transactions, and its PL0         *)
(* accesses in packets, as TasPktHandlerRw makes them. The server answers   *)
(* packets in their order; it may fail at any access, and it sends a packet *)
(* of its own when the device was reset. The caller may give up waiting, as *)
(* the mailbox does after its timeout, and go on with its next request: the *)
(* answers it did not wait for are still in the stream.                     *)
(*                                                                          *)
(* A response is a sequence of its parts, E(...); their sizes are counted   *)
(* in words as in the code. Read data is left out: rw_set_rsp() copies      *)
(* num_bytes_ok bytes of it into the buffer of the access, and the field    *)
(* call of an access says which call this buffer belongs to.                *)
(*                                                                          *)
(* A definition with a suffix after its name is a faulty version of the     *)
(* definition below it, see TasPktHandlerRw.                                *)
(***************************************************************************)
EXTENDS Integers, Sequences, SequencesExt, FiniteSetsExt

CONSTANTS
    Requests,       \* requests the caller may make
    FirstCnt,       \* mPl1CntOutstandingLast before the first one
    MaxRspSize,     \* mMaxRspSize, in words
    PlErrs,         \* errors of an access
    MaxCalls,       \* bound of the model: requests
    MaxResets       \* bound of the model: unsolicited packets

DataBlkWords == 256             \* TAS_PL0_DATA_BLK_SIZE / 4

\* The count does not wrap.
Inc16_NoWrap(c) == c + 1

UInt16 == {n \in Nat : n < 65536}
Plus16(c, n) == (c + n) % 65536     \* uint16_t c + n
Inc16(c) == (c + 1) % 65536
Words(a) == (a.num_bytes + 3) \div 4
Accesses(r) == FlattenSeq(r.pkts)

Types == {"RD", "WR", "FILL"}
Pl0Access == [type : Types, addr : Nat, num_bytes : 1..(4 * DataBlkWords), rw : Nat \ {0}]

ASSUME ConstantAssumption == FirstCnt \in UInt16 /\ MaxRspSize \in Nat /\ MaxCalls \in Nat
ASSUME ErrorAssumption == "NO_ERROR" \notin PlErrs
ASSUME RequestTypes ==
    \A r \in Requests : /\ r.rw \in Seq([type : Types, addr : Nat, num_bytes : Nat \ {0}])
                        /\ r.pkts \in Seq(Seq(Pl0Access))

\* What TasPktHandlerRw guarantees: the accesses of the transactions tile them
\* in their order (field rw: the transaction of an access), and a packet is begun
\* for an access.
ASSUME RequestAssumption ==
    \A r \in Requests :
        LET acc == Accesses(r)
            first(i) == i = 1 \/ acc[i - 1].rw # acc[i].rw
            last(i)  == i = Len(acc) \/ acc[i + 1].rw # acc[i].rw
        IN  /\ r.pkts # <<>> /\ r.pkts[Len(r.pkts)] # <<>>
            /\ \A i \in DOMAIN acc :
                /\ acc[i].type = r.rw[acc[i].rw].type
                /\ IF first(i) THEN /\ acc[i].addr = r.rw[acc[i].rw].addr
                                    /\ acc[i].rw = (IF i = 1 THEN 1 ELSE acc[i - 1].rw + 1)
                   ELSE acc[i].addr = acc[i - 1].addr + acc[i - 1].num_bytes
                /\ last(i) => acc[i].addr + acc[i].num_bytes
                                = r.rw[acc[i].rw].addr + r.rw[acc[i].rw].num_bytes
            /\ acc[Len(acc)].rw = Len(r.rw)

VARIABLES
    \* members of the packet handler
    mPl0Trans, mPl0TransRsp,    \* arrays; a new request overwrites their beginning
    mPl0NumTrans, mRwTrans, mRwTransRsp, mNumPl2Pkt, mRspSize,
    mPl1CntOutstandingOldest, mPl1CntOutstandingLast,
    mDeviceResetCount,
    tas_err,        \* of the error info the handler shares with the client
    \* the call that is running
    phase,          \* "idle", "sent", "parse", "done" (rw_set_rsp() returned),
                    \* "merged" (rw_get_trans_rsp() returned)
    rsp,            \* parts of the response that are not parsed yet
    p,              \* wi, wiPktStartNext and iTrans of rw_set_rsp()
    \* the environment
    call,           \* number of the request
    stream,         \* packets the server has to answer, in order
    resets          \* unsolicited packets so far

requestVars == <<mPl0Trans, mPl0NumTrans, mRwTrans, mNumPl2Pkt, mRspSize,
                 mPl1CntOutstandingLast>>
vars == <<requestVars, mPl0TransRsp, mRwTransRsp, mPl1CntOutstandingOldest,
          mDeviceResetCount, tas_err, phase, rsp, p, call, stream, resets>>

\* Words of the response to accesses acc, with pkts packets around them.
RspWords(pkts, acc) ==
    FoldLeft(LAMBDA n, a : n + 1 + (IF a.type = "RD" THEN Words(a) ELSE 0), 3 * pkts, acc)

\* PktLimits of TasPktHandlerRw.
ASSUME RspSizeAssumption ==
    \A r \in Requests : \A k \in DOMAIN r.pkts : RspWords(1, r.pkts[k]) <= MaxRspSize

--------------------------------------------------------------------------------
(* The server.                                                                *)

\* A part of a response: n is the size in words of the packet that begins with
\* a PL0_START, the count of a PL0_END, or wlrd or wlwr of an answer; rq is the
\* call it answers.
E(cmd, wl, n, err, rq) == [cmd |-> cmd, wl |-> wl, n |-> n, err |-> err, rq |-> rq]

PartWords(e) ==
    CASE e.cmd = "PL0_START" -> 2           \* with the packet header before it
      [] e.cmd = "RDBLK1KB"  -> 1 + DataBlkWords
      [] OTHER -> 1 + e.wl

NumWords(parts) == FoldLeft(LAMBDA n, e : n + PartWords(e), 0, parts)

IsBlk(a) == a.num_bytes > 8

OkAnswer(a, rq) ==
    LET n == Words(a) % 256
    IN  IF a.type = "RD"
        THEN E(IF ~IsBlk(a) THEN "RD" ELSE IF Words(a) = DataBlkWords THEN "RDBLK1KB" ELSE "RDBLK",
               n, n, "NO_ERROR", rq)
        ELSE E(IF a.type = "FILL" THEN "FILL" ELSE IF IsBlk(a) THEN "WRBLK" ELSE "WR",
               0, n, "NO_ERROR", rq)

\* A block may have been transferred in part, n words of it.
ErrAnswer(a, n, err, rq) ==
    IF a.type = "RD" THEN E(IF IsBlk(a) THEN "RDBLK" ELSE "RD", n, n, err, rq)
    ELSE E(IF a.type = "FILL" THEN "FILL" ELSE IF IsBlk(a) THEN "WRBLK" ELSE "WR", 0, n, err, rq)

PartialWords(a) == IF IsBlk(a) /\ a.type # "FILL" THEN {0, 1} ELSE {0}

\* The answers to accesses acc of which the first to fail is number k, if any.
Answers(acc, rq, k, n, err) ==
    [i \in DOMAIN acc |->
        IF i < k THEN OkAnswer(acc[i], rq)
        ELSE IF i = k THEN ErrAnswer(acc[i], n, err, rq)
        ELSE ErrAnswer(acc[i], 0, "CONSEQUENTIAL", rq)]

Framed(start, q, ans) ==
    <<E("PL0_START", 0, 3 + NumWords(ans), start, q.rq)>> \o ans
        \o <<E("PL0_END", 0, q.cnt, "NO_ERROR", q.rq)>>

OnlyStart(err, q) == <<E("PL0_START", 0, 2, err, q.rq)>>

\* All the server may answer to packet q. A packet of its own (rq = 0) tells
\* that the device was reset.
ServerAnswers(q) ==
    IF q.rq = 0 THEN {OnlyStart("DEV_RESET", q)}
    ELSE {OnlyStart("DEV_ACCESS", q)}
         \cup {Framed(start, q, Answers(q.acc, q.rq, Len(q.acc) + 1, 0, "DATA")) :
                    start \in {"NO_ERROR", "DEV_RESET"}}
         \cup UNION {{Framed("NO_ERROR", q, Answers(q.acc, q.rq, k, n, err)) :
                        n \in PartialWords(q.acc[k]), err \in PlErrs} : k \in DOMAIN q.acc}

\* The same for several packets, one behind the other.
Joined(S, T) == {s \o t : s \in S, t \in T}
Responses(qs) == FoldLeft(LAMBDA S, q : Joined(S, ServerAnswers(q)), {<<>>}, qs)

--------------------------------------------------------------------------------
(* The caller: rw_set_trans() and rw_get_rq(), and the mailbox.               *)

Overwrite(old, new) ==
    [i \in 1..(IF Len(old) > Len(new) THEN Len(old) ELSE Len(new)) |->
        IF i <= Len(new) THEN new[i] ELSE old[i]]

\* Result of an access or transaction that has no answer yet; rq is the call
\* whose answer has set it.
Unanswered == [num_bytes_ok |-> 0, pl_err |-> "PROTOCOL", rq |-> 0]

Request(r) ==
    /\ phase \in {"idle", "done", "merged"} /\ call < MaxCalls
    /\ call' = call + 1
    /\ mPl0Trans' = Overwrite(mPl0Trans,
            [i \in DOMAIN Accesses(r) |-> [a |-> Accesses(r)[i], call |-> call + 1]])
    /\ mPl0TransRsp' = Overwrite(mPl0TransRsp, [i \in DOMAIN Accesses(r) |-> Unanswered])
    /\ mPl0NumTrans' = Len(Accesses(r))
    /\ mRwTrans' = r.rw
    /\ mRwTransRsp' = [t \in DOMAIN r.rw |-> [num_bytes_ok |-> 0, pl_err |-> "PROTOCOL"]]
    /\ mNumPl2Pkt' = Len(r.pkts)
    /\ mRspSize' = RspWords(Len(r.pkts), Accesses(r))
    /\ mPl1CntOutstandingOldest' = Inc16(mPl1CntOutstandingLast)
    /\ mPl1CntOutstandingLast' = Plus16(mPl1CntOutstandingLast, Len(r.pkts))
    /\ stream' = stream \o
            [k \in DOMAIN r.pkts |->
                [rq |-> call + 1, cnt |-> Plus16(mPl1CntOutstandingLast, k), acc |-> r.pkts[k]]]
    /\ phase' = "sent"
    /\ UNCHANGED <<mDeviceResetCount, tas_err, rsp, p, resets>>

DeviceReset ==
    /\ resets < MaxResets
    /\ resets' = resets + 1
    /\ \E at \in 0..Len(stream) : stream' = InsertAt(stream, at + 1, [rq |-> 0, cnt |-> 0, acc |-> <<>>])
    /\ UNCHANGED <<requestVars, mPl0TransRsp, mRwTransRsp, mPl1CntOutstandingOldest,
                   mDeviceResetCount, tas_err, phase, rsp, p, call>>

\* The mailbox has received fewer packets than were sent when its time is over.
Timeout ==
    /\ phase = "sent"
    /\ \E k \in 0..(mNumPl2Pkt - 1) :
        k <= Len(stream) /\ stream' = SubSeq(stream, k + 1, Len(stream))
    /\ phase' = "idle"
    /\ tas_err' = "SERVER_CON"
    /\ UNCHANGED <<requestVars, mPl0TransRsp, mRwTransRsp, mPl1CntOutstandingOldest,
                   mDeviceResetCount, rsp, p, call, resets>>

\* The size check is forgotten.
rw_set_rsp_AnySize(parts) ==
    /\ rsp' = parts
    /\ p' = [wi |-> 0, next |-> 0, iTrans |-> 0]
    /\ tas_err' = "NONE"
    /\ phase' = "parse"

\* rw_set_rsp() up to its loop. (A response of less than 8 bytes or of parts of
\* words does not leave the mailbox.)
rw_set_rsp(parts) ==
    /\ rsp' = parts
    /\ p' = [wi |-> 0, next |-> 0, iTrans |-> 0]
    /\ IF NumWords(parts) > mRspSize
       THEN tas_err' = "SERVER_CON" /\ phase' = "done"
       ELSE tas_err' = "NONE" /\ phase' = "parse"

Receive ==
    /\ phase = "sent" /\ mNumPl2Pkt <= Len(stream)
    /\ \E parts \in Responses(SubSeq(stream, 1, mNumPl2Pkt)) : rw_set_rsp(parts)
    /\ stream' = SubSeq(stream, mNumPl2Pkt + 1, Len(stream))
    /\ UNCHANGED <<requestVars, mPl0TransRsp, mRwTransRsp, mPl1CntOutstandingOldest,
                   mDeviceResetCount, call, resets>>

--------------------------------------------------------------------------------
(* The loop of rw_set_rsp(), one turn per part of the response.               *)

Return(err) == phase' = "done" /\ tas_err' = err

Part == Head(rsp)
AtStart == p.wi = p.next

\* Every turn: the next part, or the end of the loop.
Turn == phase = "parse" /\ rsp # <<>>
Consume(q) ==
    /\ rsp' = Tail(rsp)
    /\ p' = [q EXCEPT !.wi = @ + PartWords(Part)]

parseEnv == <<requestVars, mRwTransRsp, call, stream, resets>>

ParseStart ==
    /\ Turn /\ AtStart
    /\ IF Part.cmd # "PL0_START" \/ Part.n > MaxRspSize
       THEN Return("SERVER_CON") /\ UNCHANGED <<rsp, p, mDeviceResetCount>>
       ELSE IF Part.err = "DEV_ACCESS"
       THEN Return("DEVICE_ACCESS") /\ UNCHANGED <<rsp, p, mDeviceResetCount>>
       ELSE /\ Consume([p EXCEPT !.next = @ + Part.n])
            /\ mDeviceResetCount' = mDeviceResetCount + (IF Part.err = "DEV_RESET" THEN 1 ELSE 0)
            /\ UNCHANGED <<phase, tas_err>>
    /\ UNCHANGED <<parseEnv, mPl0TransRsp, mPl1CntOutstandingOldest>>

\* The count is not compared.
ParseEnd_NoCount ==
    /\ Turn /\ ~AtStart /\ Part.cmd = "PL0_END"
    /\ IF p.iTrans = mPl0NumTrans
       THEN Return(tas_err) /\ UNCHANGED <<rsp, p, mPl1CntOutstandingOldest>>
       ELSE /\ Consume(p)
            /\ mPl1CntOutstandingOldest' = Inc16(mPl1CntOutstandingOldest)
            /\ UNCHANGED <<phase, tas_err>>
    /\ UNCHANGED <<parseEnv, mPl0TransRsp, mDeviceResetCount>>

\* The count of the next packet is not expected.
ParseEnd_KeepsOldest ==
    /\ Turn /\ ~AtStart /\ Part.cmd = "PL0_END"
    /\ IF Part.n # mPl1CntOutstandingOldest
       THEN Return("SERVER_CON") /\ UNCHANGED <<rsp, p, mPl1CntOutstandingOldest>>
       ELSE IF p.iTrans = mPl0NumTrans
       THEN Return(tas_err) /\ UNCHANGED <<rsp, p, mPl1CntOutstandingOldest>>
       ELSE /\ Consume(p)
            /\ UNCHANGED <<mPl1CntOutstandingOldest, phase, tas_err>>
    /\ UNCHANGED <<parseEnv, mPl0TransRsp, mDeviceResetCount>>

\* The loop is left at the end of the first packet.
ParseEnd_FirstPkt ==
    /\ Turn /\ ~AtStart /\ Part.cmd = "PL0_END"
    /\ Return(IF Part.n # mPl1CntOutstandingOldest THEN "SERVER_CON" ELSE tas_err)
    /\ UNCHANGED <<parseEnv, rsp, p, mPl0TransRsp, mPl1CntOutstandingOldest, mDeviceResetCount>>

\* The loop is left at the end of the packet that has the last answer.
ParseEnd ==
    /\ Turn /\ ~AtStart /\ Part.cmd = "PL0_END"
    /\ IF Part.n # mPl1CntOutstandingOldest
       THEN Return("SERVER_CON") /\ UNCHANGED <<rsp, p, mPl1CntOutstandingOldest>>
       ELSE IF p.iTrans = mPl0NumTrans
       THEN Return(tas_err) /\ UNCHANGED <<rsp, p, mPl1CntOutstandingOldest>>
       ELSE /\ Consume(p)
            /\ mPl1CntOutstandingOldest' = Inc16(mPl1CntOutstandingOldest)
            /\ UNCHANGED <<phase, tas_err>>
    /\ UNCHANGED <<parseEnv, mPl0TransRsp, mDeviceResetCount>>

\* The access answered. With a response to an earlier request iTrans may be
\* beyond mPl0NumTrans, where the arrays still have what that request left.
Entry == mPl0Trans[p.iTrans + 1]

\* The last failing access decides.
mSetPktRspErrPl0Data_Last(err, plErr, dflt) ==
    CASE plErr = "DEV_LOCKED" -> "DEVICE_LOCKED"
      [] plErr = "DEV_ACCESS" -> "DEVICE_ACCESS"
      [] OTHER -> dflt

\* The first failing access decides what the call returns.
mSetPktRspErrPl0Data(err, plErr, dflt) ==
    IF err # "NONE" THEN err
    ELSE CASE plErr = "DEV_LOCKED" -> "DEVICE_LOCKED"
           [] plErr = "DEV_ACCESS" -> "DEVICE_ACCESS"
           [] OTHER -> dflt

Answered(numBytesOk, plErr) ==
    mPl0TransRsp' = [mPl0TransRsp EXCEPT ![p.iTrans + 1] =
                        [num_bytes_ok |-> numBytesOk, pl_err |-> plErr, rq |-> Part.rq]]

\* An answer is accepted with numBytesOk, or refused; dflt is the error of a
\* failed access. A failed write is noted before its word count is looked at.
Accept(ok, noted, numBytesOk, dflt) ==
    /\ IF ok
       THEN /\ Answered(numBytesOk, Part.err)
            /\ Consume([p EXCEPT !.iTrans = @ + 1])
            /\ tas_err' = IF Part.err = "NO_ERROR" THEN tas_err
                          ELSE mSetPktRspErrPl0Data(tas_err, Part.err, dflt)
            /\ UNCHANGED phase
       ELSE /\ Return("SERVER_CON") /\ UNCHANGED <<rsp, p>>
            /\ IF noted THEN Answered(mPl0TransRsp[p.iTrans + 1].num_bytes_ok, Part.err)
               ELSE UNCHANGED mPl0TransRsp
    /\ UNCHANGED <<parseEnv, mPl1CntOutstandingOldest, mDeviceResetCount>>

ParseWr ==
    LET a == Entry.a
        isWr == Part.wl = 0 /\ a.type \in {"WR", "FILL"}
    IN  /\ Turn /\ ~AtStart /\ Part.cmd \in {"WR", "WRBLK", "FILL"}
        /\ Accept(
            isWr /\ IF Part.err # "NO_ERROR"
                    THEN IF Part.cmd = "WRBLK" THEN Part.n < Words(a) ELSE Part.n = 0
                    ELSE Part.n = Words(a) % 256,
            isWr /\ Part.err # "NO_ERROR",
            IF Part.err = "NO_ERROR" THEN a.num_bytes ELSE IF Part.cmd = "WRBLK" THEN 4 * Part.n ELSE 0,
            "RW_WRITE")

ParseRd ==
    LET a == Entry.a
    IN  /\ Turn /\ ~AtStart /\ Part.cmd \in {"RD", "RDBLK", "RDBLK1KB"}
        /\ Accept(
            /\ Part.wl = Part.n
            /\ a.type = "RD"
            /\ IF Part.cmd = "RDBLK1KB"
               THEN Words(a) = DataBlkWords /\ Part.wl = 0 /\ Part.err = "NO_ERROR"
               ELSE IF Part.err # "NO_ERROR"
               THEN IF Part.cmd = "RDBLK" THEN Part.n <= Words(a) ELSE Part.n = 0
               ELSE Part.n = Words(a) % 256,
            FALSE,
            IF Part.err = "NO_ERROR" THEN a.num_bytes ELSE IF Part.cmd = "RDBLK" THEN 4 * Part.n ELSE 0,
            "RW_READ")

\* The response has no more parts, though an answer or the end may be missing.
ParseOut ==
    /\ phase = "parse" /\ rsp = <<>>
    /\ Return(tas_err)
    /\ UNCHANGED <<parseEnv, rsp, p, mPl0TransRsp, mPl1CntOutstandingOldest, mDeviceResetCount>>

--------------------------------------------------------------------------------
(* rw_get_trans_rsp(): one turn per access; t is the transaction it belongs   *)
(* to, recognised by its address.                                             *)

NoBytes == [num_bytes_ok |-> 0, pl_err |-> "NO_ERROR"]

\* The error of the last access stays.
Merged_Last(tr, acc) == [num_bytes_ok |-> (tr.num_bytes_ok + acc.num_bytes_ok) % 65536,
                         pl_err |-> acc.pl_err]

\* Only up to the first error.
Merged(tr, acc) ==
    IF tr.pl_err # "NO_ERROR" THEN tr
    ELSE [num_bytes_ok |-> (tr.num_bytes_ok + acc.num_bytes_ok) % 65536, pl_err |-> acc.pl_err]

\* m.out are the results so far, of which the last one is still growing.
MergeTurn(m, i) ==
    LET a    == mPl0Trans[i].a
        t    == Len(m.out)
        end  == IF a.addr = mRwTrans[t].addr THEN a.addr + mRwTrans[t].num_bytes ELSE m.addrEnd
        out  == [m.out EXCEPT ![t] = Merged(@, mPl0TransRsp[i])]
    IN  IF m.done THEN m
        ELSE [addrEnd |-> end,
              done |-> a.addr + a.num_bytes >= end /\ t = Len(mRwTrans),
              out  |-> IF a.addr + a.num_bytes >= end /\ t < Len(mRwTrans)
                       THEN Append(out, NoBytes) ELSE out]

TransRsp == FoldLeft(MergeTurn, [addrEnd |-> 0, done |-> FALSE, out |-> <<NoBytes>>],
                     [i \in 1..mPl0NumTrans |-> i]).out

rw_get_trans_rsp ==
    /\ phase = "done" \/ (phase = "idle" /\ call > 0)
    /\ mRwTransRsp' = TransRsp \o SubSeq(mRwTransRsp, Len(TransRsp) + 1, Len(mRwTransRsp))
    /\ phase' = "merged"
    /\ UNCHANGED <<requestVars, mPl0TransRsp, mPl1CntOutstandingOldest,
                   mDeviceResetCount, tas_err, rsp, p, call, stream, resets>>

--------------------------------------------------------------------------------

Init ==
    /\ mPl0Trans = <<>> /\ mPl0TransRsp = <<>> /\ mPl0NumTrans = 0
    /\ mRwTrans = <<>> /\ mRwTransRsp = <<>>
    /\ mNumPl2Pkt = 0 /\ mRspSize = 0
    /\ mPl1CntOutstandingLast = FirstCnt
    /\ mPl1CntOutstandingOldest = Inc16(FirstCnt)
    /\ mDeviceResetCount = 0
    /\ tas_err = "NONE"
    /\ phase = "idle" /\ rsp = <<>> /\ p = [wi |-> 0, next |-> 0, iTrans |-> 0]
    /\ call = 0 /\ stream = <<>> /\ resets = 0

Next ==
    \/ \E r \in Requests : Request(r)
    \/ DeviceReset
    \/ Timeout
    \/ Receive
    \/ ParseStart
    \/ ParseEnd
    \/ ParseWr
    \/ ParseRd
    \/ ParseOut
    \/ rw_get_trans_rsp

Spec == Init /\ [][Next]_vars

--------------------------------------------------------------------------------
(* Properties.                                                                *)

Trans == 1..mPl0NumTrans
Failed(i) == mPl0TransRsp[i].pl_err # "NO_ERROR"
Success == phase = "done" /\ tas_err = "NONE"

PlErr == PlErrs \cup {"NO_ERROR", "PROTOCOL", "CONSEQUENTIAL"}

\* Types of the members and of the locals of rw_set_rsp(). No index leaves the
\* part of the arrays that was ever written.
TypeOK ==
    /\ mPl0NumTrans <= Len(mPl0Trans) /\ Len(mPl0TransRsp) = Len(mPl0Trans)
    /\ \A i \in DOMAIN mPl0TransRsp : mPl0TransRsp[i].pl_err \in PlErr
    /\ \A t \in DOMAIN mRwTransRsp :
        /\ mRwTransRsp[t].pl_err \in PlErr
        /\ tas_err # "SERVER_CON" => mRwTransRsp[t].num_bytes_ok <= mRwTrans[t].num_bytes
    /\ {mPl1CntOutstandingOldest, mPl1CntOutstandingLast} \subseteq UInt16
    /\ tas_err \in {"NONE", "SERVER_CON", "DEVICE_ACCESS", "DEVICE_LOCKED", "RW_READ", "RW_WRITE"}
    /\ phase \in {"idle", "sent", "parse", "done", "merged"}
    /\ p.wi <= p.next /\ p.iTrans <= Len(mPl0Trans)

\* When rw_set_rsp() returns TAS_ERR_NONE, no result comes from a response to
\* an earlier request, whatever was still in the stream, and no access has
\* failed.
SuccessIsOwn ==
    Success => \A i \in Trans : \/ mPl0TransRsp[i].rq = call /\ ~Failed(i)
                                \/ mPl0TransRsp[i] = Unanswered

\* As long as the server sends nothing but answers, rw_set_rsp() returns
\* TAS_ERR_NONE only if all accesses of all packets were answered, and it has
\* taken the counts of all packets.
SuccessIsComplete ==
    Success /\ resets = 0 =>
        /\ \A i \in Trans : mPl0TransRsp[i].rq = call
        /\ mPl1CntOutstandingOldest = mPl1CntOutstandingLast

\* A response is only refused because of a part that answers something else
\* than this request: the checks of rw_set_rsp() let all answers of the server
\* pass, also partial blocks and those after a failed access.
OwnNotRefused ==
    [][(phase' = "done" /\ tas_err' = "SERVER_CON")
        => IF phase = "parse" THEN Part.rq # call
           ELSE \E i \in DOMAIN rsp' : rsp'[i].rq # call]_vars

ErrorOf(i) ==
    IF mPl0TransRsp[i].pl_err = "DEV_LOCKED" THEN "DEVICE_LOCKED"
    ELSE IF mPl0Trans[i].a.type = "RD" THEN "RW_READ" ELSE "RW_WRITE"

\* What rw_set_rsp() returns for failed accesses is the error of the first one,
\* not of those that failed as a consequence.
FirstErrorWins ==
    phase = "done" /\ tas_err \in {"DEVICE_LOCKED", "RW_READ", "RW_WRITE"} =>
        \E i \in Trans : /\ Failed(i) /\ ErrorOf(i) = tas_err
                         /\ \A j \in 1..(i - 1) : ~Failed(j)

\* rw_get_trans_rsp() gives to each transaction the first error of its own
\* accesses and the bytes transferred until then, also for transactions of the
\* same address, and whatever rw_set_rsp() has returned.
MergedRight ==
    phase = "merged" => \A t \in DOMAIN mRwTrans :
        LET mine == {i \in Trans : mPl0Trans[i].a.rw = t}
            bad  == {i \in mine : Failed(i)}
            upto == IF bad = {} THEN mine ELSE {i \in mine : i <= Min(bad)}
        IN  /\ mRwTransRsp[t].pl_err = IF bad = {} THEN "NO_ERROR"
                                       ELSE mPl0TransRsp[Min(bad)].pl_err
            /\ mRwTransRsp[t].num_bytes_ok =
                    MapThenSumSet(LAMBDA i : mPl0TransRsp[i].num_bytes_ok, upto)

\* Data is only copied to buffers of the running call, when it has at most two
\* packets. The count that tells apart a late response comes after its data; it is
\* the check of the size that keeps a longer response from reaching accesses, and
\* buffers, of the past. With three packets it lets one more answer pass, if the
\* packets that follow have none.
NoStrayCopy ==
    [][(mNumPl2Pkt <= 2 /\ ParseRd /\ p'.iTrans > p.iTrans /\ mPl0TransRsp'[p'.iTrans].num_bytes_ok > 0)
        => Entry.call = call]_vars

\* rw_set_rsp() returns "TAS_ERR_NONE on success" (tas_pkt_handler_rw.h:134):
\* all accesses were executed. The packet the server sends on its own when the
\* device was reset is taken for a response without answers.
SuccessMeansExecuted == Success => \A i \in Trans : ~Failed(i)
================================================================================
