---------------------------- MODULE TasPktHandlerRw ----------------------------
(***************************************************************************)
(* The request side of CTasPktHandlerRw (tas_pkt_handler_rw.cpp): how a     *)
(* list of read, write and fill transactions of the caller (RW level) is    *)
(* cut into naturally aligned PL0 accesses, and how these are packed into   *)
(* PL1/PL2 packets that respect the limits the server announced in          *)
(* tas_con_info_st.                                                         *)
(*                                                                          *)
(* The request being built is the record b: the finished packets of mRqBuf  *)
(* and the packet under construction, b.cur; the private methods that touch *)
(* it are operators from b to b.  rw_add_rd() and its siblings are cut into *)
(* steps: the guards of the call, then one step per PL0 access (one turn of *)
(* the block loop).  op.nb > 0 while such a call is running, and no other   *)
(* call of the object can start before it has returned.                     *)
(*                                                                          *)
(* Sizes are bytes everywhere (the code counts request words, mRqBufWi).    *)
(* Payload data is left out; what is kept of mRqBuf is its sequence of      *)
(* finished packets, each with its commands.                                *)
(*                                                                          *)
(* A definition with a suffix after its name, as in PktAdd_NoCount, is a    *)
(* faulty version of the definition below it, as a mistake in the code      *)
(* could make it. It is not part of the specification: it shows which       *)
(* property notices the mistake.                                            *)
(***************************************************************************)
EXTENDS Integers, Sequences

CONSTANTS
    Addrs, Sizes, AccModes, AddrMaps,   \* arguments the caller may pass
    MaxRqSize,      \* mMaxRqSize:  request buffer less BUF_ALLOWANCE
    MaxRspSize,     \* mMaxRspSize: response buffer less BUF_ALLOWANCE
    MaxPl2Rq,       \* mConInfo.max_pl2rq_pkt_size
    MaxPl2Rsp,      \* mConInfo.max_pl2rsp_pkt_size
    Pl0MaxNumRw,    \* mConInfo.pl0_max_num_rw
    NumTransMax,    \* mNumTransMax: entries of mPl0Trans[] and mRwTrans[]
    Pl1Cnts,        \* values mPl1CntOutstandingLast may have at the start
    AddrWindow,     \* reach of a 16 bit offset from the base address: 0x10000
    Addr4G,         \* first address that needs a 64 bit base: 0x100000000
    TwoTo32,        \* modulus of uint32_t
    MaxRwTrans,     \* bound of the model: transactions added per rw_start()
    MaxStarts       \* bound of the model: calls of rw_start() and rw_set_trans()

UInt8  == {n \in Nat : n < 256}
UInt16 == {n \in Nat : n < 65536}
AddrMapId == {n \in Nat : n <= 15}    \* address maps of a packet's mask

\* set_pkt_rsp_ping() accepts no smaller or unaligned packet sizes.
ASSUME ConInfoAssumption ==
    /\ MaxPl2Rq  \in Nat /\ MaxPl2Rq  >= 128 /\ MaxPl2Rq  % 4 = 0
    /\ MaxPl2Rsp \in Nat /\ MaxPl2Rsp >= 128 /\ MaxPl2Rsp % 4 = 0
    /\ Pl0MaxNumRw \in Nat /\ Pl0MaxNumRw >= 1

\* CTasClientRw::session_start() makes the handler with pl0_max_num_rw entries; a
\* handler made with a number of its own gets pl0_max_num_rw from a later ping.
ASSUME NumTransAssumption == NumTransMax \in Nat /\ NumTransMax >= 1

\* mInit() asserts buffers of at least 4 * BUF_ALLOWANCE bytes.
ASSUME BufferAssumption ==
    /\ MaxRqSize  \in Nat /\ MaxRqSize  >= 192 /\ MaxRqSize  % 4 = 0
    /\ MaxRspSize \in Nat /\ MaxRspSize >= 192 /\ MaxRspSize % 4 = 0
    /\ TwoTo32 \in Nat /\ TwoTo32 > MaxRqSize + MaxPl2Rq + 4096

ASSUME ArgumentAssumption ==
    /\ Addrs \subseteq Nat /\ Sizes \subseteq Nat
    /\ AccModes \subseteq Nat /\ AddrMaps \subseteq UInt8
    /\ Pl1Cnts \subseteq UInt16
    /\ AddrWindow \in Nat /\ AddrWindow > 0
    /\ Addr4G \in Nat
    /\ MaxRwTrans \in Nat /\ MaxStarts \in Nat

VARIABLES
    b,                  \* the request being built
    mPl0Trans,          \* the PL0 accesses of the request
    mRwTrans,           \* the transactions of the caller, once added
    mPl1CntOutstandingOldest,
    mGetPktRqWasCalled,
    op,     \* the rw_add_rd/wr/fill() call that is running
    mode,   \* "add": rw_start()/rw_add_*() calls; "set": inside rw_set_trans()
    starts  \* calls of rw_start() and rw_set_trans() so far

transVars == <<mPl0Trans, mRwTrans>>
vars == <<b, mPl0Trans, mRwTrans, mPl1CntOutstandingOldest, mGetPktRqWasCalled,
          op, mode, starts>>

--------------------------------------------------------------------------------
(* sizeof() of the packet structs, and the fixed limits of the protocol.      *)

Pl2Header    == 4
Pl1RqStart   == 8
Pl1RqEnd     == 4
Pl1RspStart  == 4
Pl1RspEnd    == 4
Pl0RqAddrMap == 4
Pl0RqAccMode == 4
Pl0RqBase32  == 4
Pl0RqBase64  == 8
Pl0RqRd      == 4
Pl0RqRdBlk   == 8
Pl0RqWrBlk   == 4
Pl0RqFill    == 16
Pl0RspRd     == 4
Pl0RspWr     == 4

DataBlkSize   == 1024           \* TAS_PL0_DATA_BLK_SIZE
BufAllowance  == 64             \* BUF_ALLOWANCE
AM12          == 12             \* first address map for special usage
AM15          == 15
AM132         == 132            \* DAS alias of AM15

MinOf(x, y)   == IF x <= y THEN x ELSE y
WordBytes(n)  == ((n + 3) \div 4) * 4
Floor8(n)     == n - (n % 8)                             \* n & ~0x7
Sub32(x, y)   == IF x >= y THEN x - y ELSE TwoTo32 - (y - x)  \* uint32_t x - y
Inc16(c)      == (c + 1) % 65536                         \* uint16_t c + 1

--------------------------------------------------------------------------------
(* Packets. A request g is a record with                                      *)
(*   mRqBuf   the finished packets                                            *)
(*   rqDone   their size (4 * mPl2HdrWi), rspDone the size of the responses   *)
(*            they announce (mPl2RspPktStart)                                 *)
(*   cur      the packet under construction: its size so far (rq), that of    *)
(*            its response (rsp), its commands, and the settings in force     *)
(*   mPl0NumTrans, mPl1CntOutstandingLast                                     *)

RqSize(g)  == g.rqDone + g.cur.rq        \* 4 * mRqBufWi
RspSize(g) == g.rspDone + g.cur.rsp      \* mRspSize

\* The packet header and PL0_START are reserved; access mode, address map and
\* base address are what the server assumes at the start of a packet.
mPl2PktInit ==
    [rq |-> Pl2Header + Pl1RqStart, rsp |-> Pl2Header + Pl1RspStart,
     cmds |-> <<>>, mPl2NumTrans |-> 0, mPl0AddrMap |-> 0, mPl0AccMode |-> 0,
     mPl0BaseAddr |-> 0, mPl0AddrMapMask |-> {}]

NoPkt ==
    [rq |-> 0, rsp |-> 0,
     cmds |-> <<>>, mPl2NumTrans |-> 0, mPl0AddrMap |-> 0, mPl0AccMode |-> 0,
     mPl0BaseAddr |-> 0, mPl0AddrMapMask |-> {}]

\* The packet under construction with its PL0_END, as it is sent.
Closed(g) ==
    [pl1_cnt       |-> Inc16(g.mPl1CntOutstandingLast),
     addr_map_mask |-> g.cur.mPl0AddrMapMask,
     num_pl0_rw    |-> g.mPl0NumTrans,
     numTrans      |-> g.cur.mPl2NumTrans,
     length        |-> g.cur.rq + Pl1RqEnd,
     rspMax        |-> g.cur.rsp + Pl1RspEnd,
     cmds          |-> g.cur.cmds]

ClosePkt(g, next) ==
    [mRqBuf  |-> Append(g.mRqBuf, Closed(g)),
     rqDone  |-> g.rqDone + (g.cur.rq + Pl1RqEnd),
     rspDone |-> g.rspDone + (g.cur.rsp + Pl1RspEnd),
     mPl0NumTrans |-> g.mPl0NumTrans,
     mPl1CntOutstandingLast |-> Inc16(g.mPl1CntOutstandingLast),
     cur |-> next]

\* A member is not reset for the next packet.
mPktFinalize_KeepsAccMode(g) ==
    ClosePkt(g, [mPl2PktInit EXCEPT !.mPl0AccMode = g.cur.mPl0AccMode])
mPktFinalize_KeepsBaseAddr(g) ==
    ClosePkt(g, [mPl2PktInit EXCEPT !.mPl0BaseAddr = g.cur.mPl0BaseAddr])
mPktFinalize_KeepsMask(g) ==
    ClosePkt(g, [mPl2PktInit EXCEPT !.mPl0AddrMapMask = g.cur.mPl0AddrMapMask])

mPktFinalize(g) == ClosePkt(g, mPl2PktInit)

FinalizeIf(cond, g) == IF cond THEN mPktFinalize(g) ELSE g

mGetRemainingSizeInPktRq(g) ==
    LET max == MinOf(MaxPl2Rq, MaxRqSize)
    IN  IF g.cur.rq < max THEN max - g.cur.rq ELSE 0

\* mPl2RspPktStart is not subtracted.
mGetRemainingSizeInPktRsp_WholeRsp(g) ==
    LET max == MinOf(MaxPl2Rsp, MaxRspSize)
    IN  IF RspSize(g) < max THEN max - RspSize(g) ELSE 0

mGetRemainingSizeInPktRsp(g) ==
    LET max == MinOf(MaxPl2Rsp, MaxRspSize)
    IN  IF g.cur.rsp < max THEN max - g.cur.rsp ELSE 0

mCheckRemainingPktSizeSufficient(g, needRq, needRsp) ==
    /\ needRq  <= mGetRemainingSizeInPktRq(g)
    /\ needRsp <= mGetRemainingSizeInPktRsp(g)

mPktFinalizeIfNeeded(g, needRq, needRsp) ==
    FinalizeIf(~mCheckRemainingPktSizeSufficient(g, needRq, needRsp), g)

\* Only the new address map is looked at.
mCheckAddrMapRulesInPkt_NewOnly(g, am) ==
    LET mask == g.cur.mPl0AddrMapMask
    IN  mask = {} \/ mask = {am} \/ am < AM12

\* Address maps from 12 on have a packet of their own.
mCheckAddrMapRulesInPkt(g, am) ==
    LET mask == g.cur.mPl0AddrMapMask
    IN  mask = {} \/ mask = {am} \/ (am < AM12 /\ \A m \in mask : m < AM12)

--------------------------------------------------------------------------------
(* Adding one PL0 access.                                                     *)

InWindow(g, a) ==
    g.cur.mPl0BaseAddr <= a /\ a <= g.cur.mPl0BaseAddr + (AddrWindow - 1)

\* Size in bytes of the state setting commands an access needs first.
mGetNumBytesAddrMapAccModeBaseAddr(g, am, acc, a) ==
    (IF am  # g.cur.mPl0AddrMap THEN Pl0RqAddrMap ELSE 0)
  + (IF acc # g.cur.mPl0AccMode THEN Pl0RqAccMode ELSE 0)
  + (IF InWindow(g, a) THEN 0 ELSE IF a < Addr4G THEN Pl0RqBase32 ELSE Pl0RqBase64)

Cmd(c, v, wl) == [cmd |-> c, val |-> v, wl |-> wl]

BaseFor(g, a) == IF InWindow(g, a) THEN g.cur.mPl0BaseAddr ELSE a - (a % AddrWindow)

mPktAdd_SetAddrMapAccModeBaseAddr(g, am, acc, a) ==
    (IF am  = g.cur.mPl0AddrMap THEN <<>> ELSE <<Cmd("ADDR_MAP", am, 0)>>)
    \o (IF acc = g.cur.mPl0AccMode THEN <<>> ELSE <<Cmd("ACCESS_MODE", acc, 0)>>)
    \o (IF InWindow(g, a) THEN <<>>
        ELSE <<Cmd("BASE_ADDR", BaseFor(g, a), IF a < Addr4G THEN 0 ELSE 1)>>)

\* One access command with the settings it needs, in the current packet.
Emit(g, a, acc, am, cmd, rq, rsp) ==
    [mRqBuf |-> g.mRqBuf, rqDone |-> g.rqDone, rspDone |-> g.rspDone,
     mPl1CntOutstandingLast |-> g.mPl1CntOutstandingLast,
     mPl0NumTrans |-> g.mPl0NumTrans + 1,
     cur |->
        [rq   |-> g.cur.rq + mGetNumBytesAddrMapAccModeBaseAddr(g, am, acc, a) + rq,
         rsp  |-> g.cur.rsp + rsp,
         cmds |-> Append(g.cur.cmds \o mPktAdd_SetAddrMapAccModeBaseAddr(g, am, acc, a), cmd),
         mPl2NumTrans    |-> g.cur.mPl2NumTrans + 1,
         mPl0AddrMap     |-> am,
         mPl0AccMode     |-> acc,
         mPl0BaseAddr    |-> BaseFor(g, a),
         mPl0AddrMapMask |-> g.cur.mPl0AddrMapMask \cup {am}]]

\* The number of accesses in the packet is not checked.
PktAdd_NoCount(g, a, acc, am, needRq, needRsp, cmd, rq, rsp) ==
    LET g2 == mPktFinalizeIfNeeded(g,
                 mGetNumBytesAddrMapAccModeBaseAddr(g, am, acc, a) + needRq, needRsp)
    IN  Emit(g2, a, acc, am, cmd, rq, rsp)

\* The part common to the three mPktAdd_*() methods: a new packet when the
\* current one is full, then the access.
PktAdd(g, a, acc, am, needRq, needRsp, cmd, rq, rsp) ==
    LET g1 == FinalizeIf(g.cur.mPl2NumTrans >= Pl0MaxNumRw, g)
        g2 == mPktFinalizeIfNeeded(g1,
                 mGetNumBytesAddrMapAccModeBaseAddr(g1, am, acc, a) + needRq, needRsp)
    IN  Emit(g2, a, acc, am, cmd, rq, rsp)

\* wl, wlrd and wlwr are uint8_t: 256 words are encoded as 0.
Wl(n) == (n \div 4) % 256

mPktAdd_Rd(g, a, n, acc, am) ==
    IF n = 0 THEN g
    ELSE PktAdd(g, a, acc, am,
            Pl0RqRdBlk + Pl1RqEnd,
            Pl0RspRd + WordBytes(n) + Pl1RspEnd,
            IF n <= 8 THEN Cmd("RD", a % AddrWindow, n) ELSE Cmd("RDBLK", a % AddrWindow, Wl(n)),
            IF n <= 8 THEN Pl0RqRd ELSE Pl0RqRdBlk,
            Pl0RspRd + (IF n < 8 THEN 4 ELSE n))

mPktAdd_Wr(g, a, n, acc, am) ==
    IF n = 0 THEN g
    ELSE PktAdd(g, a, acc, am,
            Pl0RqWrBlk + WordBytes(n) + Pl1RqEnd,
            Pl0RspWr + Pl1RspEnd,
            IF n <= 8 THEN Cmd("WR", a % AddrWindow, n) ELSE Cmd("WRBLK", a % AddrWindow, Wl(n)),
            4 + (IF n <= 4 THEN 4 ELSE IF n <= 8 THEN 8 ELSE n),
            Pl0RspWr)

\* The need is computed with the size of a block write header and 8 bytes of
\* data, 4 bytes less than the command that is then written.
mPktAdd_Fill(g, a, n, acc, am) ==
    PktAdd(g, a, acc, am,
        Pl0RqWrBlk + 8 + Pl1RqEnd,
        Pl0RspWr + Pl1RspEnd,
        Cmd("FILL", a % AddrWindow, Wl(n)),
        Pl0RqFill,
        Pl0RspWr)

--------------------------------------------------------------------------------
(* What the current packet can still take.                                    *)

tphrCheckIfNaturalAligned(a, n) == n \in {1, 2, 4, 8} /\ a % n = 0

\* Number of PL0 accesses the code reckons with, payload spread over packets
\* of perPkt bytes.
NumTransEstimate(a, n, payload, perPkt) ==
    IF n <= 8
    THEN IF tphrCheckIfNaturalAligned(a, n) THEN 1
         ELSE IF n = 8 /\ a % 8 = 4 THEN 2 ELSE 4
    ELSE (payload + perPkt - 1) \div perPkt
         + (IF n % 8 = 0 /\ a % 8 = 0 THEN 0 ELSE 3)

mNumTransManageableRd(g, a, n) ==
    g.cur.mPl2NumTrans + NumTransEstimate(a, n, n,
        MaxPl2Rsp - (Pl2Header + Pl1RspStart + Pl0RspWr + Pl1RspEnd)) <= NumTransMax

mNumTransManageableWr(g, a, n) ==
    g.cur.mPl2NumTrans + NumTransEstimate(a, n,
        n + Pl0RqAccMode + Pl0RqAddrMap + Pl0RqBase64,
        MaxPl2Rq - (Pl2Header + Pl1RqStart + Pl0RqWrBlk + Pl1RqEnd)) <= NumTransMax

mCheckLimits(g, nRd, nWr) ==
    /\ RqSize(g) + nWr + 4 < MaxRqSize
    /\ RspSize(g) + nRd + 4 < MaxRspSize

mMaxWrDataBlkSizeInPktRq == MinOf(MaxPl2Rq - 24, DataBlkSize)
mMaxRdDataBlkSizeInPktRsp == MinOf(MaxPl2Rsp - 24, DataBlkSize)

\* A block is cut at what the protocol allows, not at what the packet takes.
mGetWrDataBlkSizeInPktRq_NoRoom(g, n, a) == Floor8(MinOf(n, DataBlkSize))

\* The 64 bit base address is taken off without looking whether enough is
\* left: the uint32_t wraps.
mGetWrDataBlkSizeInPktRq(g, n, a) ==
    LET left == mGetRemainingSizeInPktRq(g)
        room == IF a >= Addr4G THEN Sub32(left - (Pl0RqWrBlk + Pl1RqEnd), Pl0RqBase64)
                ELSE left - (Pl0RqWrBlk + Pl1RqEnd)
    IN  IF Pl0RqWrBlk + Pl1RqEnd >= left THEN 0
        ELSE Floor8(MinOf(MinOf(n, room), mMaxWrDataBlkSizeInPktRq))

mGetRdDataBlkSizeInPktRsp(g, n) ==
    LET left == mGetRemainingSizeInPktRsp(g)
    IN  IF Pl0RspRd + Pl1RspEnd >= left THEN 0
        ELSE Floor8(MinOf(MinOf(n, left - (Pl0RspRd + Pl1RspEnd)),
                          mMaxRdDataBlkSizeInPktRsp))

--------------------------------------------------------------------------------
(* The calls.                                                                 *)

NoOp == [type |-> "RD", addr |-> 0, num_bytes |-> 0, acc_mode |-> 0,
         addr_map |-> 0, a |-> 0, nb |-> 0]

\* mPl0Trans[] and mRwTrans[] have mNumTransMax entries and mRqBuf[] has
\* BUF_ALLOWANCE bytes beyond mMaxRqSize. No code checks these bounds where it
\* writes: once they are exceeded the behaviour of the program is undefined,
\* and the model ends.
Defined ==
    /\ b.mPl0NumTrans <= NumTransMax
    /\ Len(mRwTrans) <= NumTransMax
    /\ RqSize(b) <= MaxRqSize + BufAllowance

Idle == Defined /\ op.nb = 0
Busy == Defined /\ op.nb > 0

\* rw_start() leaves mPl1CntOutstandingLast alone: the numbers of packets that
\* were built and dropped are not used again.
EmptyRequest(cnt) ==
    [mRqBuf |-> <<>>, rqDone |-> 0, rspDone |-> 0, mPl0NumTrans |-> 0,
     mPl1CntOutstandingLast |-> cnt, cur |-> mPl2PktInit]

\* The counts of the packets dropped are not skipped.
Restart_KeepsOldest ==
    /\ b' = EmptyRequest(b.mPl1CntOutstandingLast)
    /\ mPl0Trans' = <<>>
    /\ mRwTrans' = <<>>
    /\ mGetPktRqWasCalled' = FALSE
    /\ UNCHANGED mPl1CntOutstandingOldest

Restart ==
    /\ b' = EmptyRequest(b.mPl1CntOutstandingLast)
    /\ mPl0Trans' = <<>>
    /\ mRwTrans' = <<>>
    /\ mPl1CntOutstandingOldest' = Inc16(b.mPl1CntOutstandingLast)
    /\ mGetPktRqWasCalled' = FALSE

rw_start ==
    /\ Idle /\ mode = "add" /\ starts < MaxStarts
    /\ Restart
    /\ starts' = starts + 1
    /\ UNCHANGED <<op, mode>>

\* A call of rw_add_*() that returns false has changed nothing; inside
\* rw_set_trans() it throws away everything ("all or nothing").
Refuse ==
    /\ \/ mode = "set" /\ Restart
       \/ mode = "add" /\ UNCHANGED <<b, transVars, mPl1CntOutstandingOldest, mGetPktRqWasCalled>>
    /\ mode' = "add"
    /\ UNCHANGED <<op, starts>>

\* A call that goes on from request g to its accesses.
Begin(type, g, addr, n, acc, am) ==
    /\ b' = g
    /\ op' = [type |-> type, addr |-> addr, num_bytes |-> n, acc_mode |-> acc,
              addr_map |-> am, a |-> addr, nb |-> n]
    /\ UNCHANGED <<transVars, mPl1CntOutstandingOldest, mGetPktRqWasCalled, mode, starts>>

CanAdd == Idle /\ ~mGetPktRqWasCalled /\ Len(mRwTrans) < MaxRwTrans

AddrMapOf(addr_map) == IF addr_map = AM132 THEN AM15 ELSE addr_map

\* rw_add_rd() and rw_add_wr() up to the first access: the guards, and the two
\* places where the packet under construction is closed first. Transactions
\* that are small or for special address maps shall stay in one packet.
Whole(n, addr_map) == addr_map >= AM12 \/ n <= 16

rw_add_rd(addr, n, acc, addr_map) ==
    LET am == AddrMapOf(addr_map)
        b1 == FinalizeIf(~mNumTransManageableRd(b, addr, n), b)
        fits == mCheckRemainingPktSizeSufficient(b1, 32,
                    IF Whole(n, addr_map) THEN 16 + WordBytes(n) ELSE 64)
    IN  /\ CanAdd
        /\ IF n = 0 \/ ~mCheckLimits(b, n, 0) \/ am > AM15
           THEN Refuse
           ELSE Begin("RD", FinalizeIf(~fits \/ ~mCheckAddrMapRulesInPkt(b1, am), b1),
                      addr, n, acc, am)

rw_add_wr(addr, n, acc, addr_map) ==
    LET am == AddrMapOf(addr_map)
        b1 == FinalizeIf(~mNumTransManageableWr(b, addr, n), b)
        fits == mCheckRemainingPktSizeSufficient(b1,
                    IF Whole(n, addr_map) THEN 32 + WordBytes(n) ELSE 80, 32)
    IN  /\ CanAdd
        /\ IF n = 0 \/ ~mCheckLimits(b, 0, n) \/ am > AM15
           THEN Refuse
           ELSE Begin("WR", FinalizeIf(~fits \/ ~mCheckAddrMapRulesInPkt(b1, am), b1),
                      addr, n, acc, am)

rw_add_fill(addr, n, acc, am) ==
    LET b1 == FinalizeIf(~mNumTransManageableWr(b, addr, 8), b)
        fits == mCheckRemainingPktSizeSufficient(b1, 32 + 8, 32)
    IN  /\ CanAdd
        /\ IF \/ addr % 8 # 0 \/ n = 0 \/ n % 8 # 0 \/ acc # 0 \/ am >= AM12
              \/ ~mCheckLimits(b, 0, n)
           THEN Refuse
           ELSE Begin("FILL", FinalizeIf(~fits \/ ~mCheckAddrMapRulesInPkt(b1, am), b1),
                      addr, n, acc, am)

\* The 64 bit aligned middle part of a read or write.
InBlock == op.type # "FILL" /\ op.nb >= 8 /\ op.a % 8 = 0

\* A half word is taken without looking whether two bytes are left.
PieceSize_NoSizeCheck ==
    IF op.type = "FILL" THEN MinOf(op.nb, DataBlkSize)
    ELSE IF op.a % 2 = 1 THEN 1
    ELSE IF op.a % 4 = 2 THEN 2
    ELSE IF op.a % 8 = 4 /\ op.nb >= 4 THEN 4
    ELSE IF op.nb >= 8 THEN IF op.type = "RD" THEN mGetRdDataBlkSizeInPktRsp(b, op.nb)
                            ELSE mGetWrDataBlkSizeInPktRq(b, op.nb, op.a)
    ELSE IF op.nb >= 4 THEN 4
    ELSE IF op.nb >= 2 THEN 2
    ELSE 1

\* Blocks begin at 32 bit alignment.
PieceSize_NoWordHead ==
    IF op.type = "FILL" THEN MinOf(op.nb, DataBlkSize)
    ELSE IF op.a % 2 = 1 THEN 1
    ELSE IF op.a % 4 = 2 /\ op.nb >= 2 THEN 2
    ELSE IF op.nb >= 8 THEN IF op.type = "RD" THEN mGetRdDataBlkSizeInPktRsp(b, op.nb)
                            ELSE mGetWrDataBlkSizeInPktRq(b, op.nb, op.a)
    ELSE IF op.nb >= 4 THEN 4
    ELSE IF op.nb >= 2 THEN 2
    ELSE 1

\* Size of the next access: head of 1, 2, 4 bytes up to 64 bit alignment,
\* blocks, tail of 4, 2, 1 bytes.
PieceSize ==
    IF op.type = "FILL" THEN MinOf(op.nb, DataBlkSize)
    ELSE IF op.a % 2 = 1 THEN 1
    ELSE IF op.a % 4 = 2 /\ op.nb >= 2 THEN 2
    ELSE IF op.a % 8 = 4 /\ op.nb >= 4 THEN 4
    ELSE IF op.nb >= 8 THEN IF op.type = "RD" THEN mGetRdDataBlkSizeInPktRsp(b, op.nb)
                            ELSE mGetWrDataBlkSizeInPktRq(b, op.nb, op.a)
    ELSE IF op.nb >= 4 THEN 4
    ELSE IF op.nb >= 2 THEN 2
    ELSE 1

\* The step of a running call that has led from b to g with an access of n
\* bytes: mPl0Trans gets the access, and mRwTrans the transaction after its
\* last access. The index of its transaction (rw) and the position of its
\* command in the packet (pos) are recorded for the properties only.
Added(g, n) ==
    /\ mPl0Trans' = IF n = 0 THEN mPl0Trans
                    ELSE Append(mPl0Trans,
                           [type |-> op.type, addr |-> op.a, num_bytes |-> n,
                            acc_mode |-> g.cur.mPl0AccMode, addr_map |-> g.cur.mPl0AddrMap,
                            rw |-> Len(mRwTrans) + 1, pos |-> Len(g.cur.cmds)])
    /\ mRwTrans' = IF op.nb > n THEN mRwTrans
                   ELSE Append(mRwTrans,
                          [type |-> op.type, addr |-> op.addr, num_bytes |-> op.num_bytes,
                           acc_mode |-> g.cur.mPl0AccMode, addr_map |-> g.cur.mPl0AddrMap])
    /\ op' = [op EXCEPT !.a = @ + n, !.nb = @ - n]
    /\ UNCHANGED <<mPl1CntOutstandingOldest, mGetPktRqWasCalled, mode, starts>>

\* The block loop leaves it to mPktAdd_Rd() and mPktAdd_Wr() to close a full packet.
AddPiece_KeepsFullPkt ==
    LET n  == PieceSize
        b1 == IF op.type = "RD" THEN mPktAdd_Rd(b, op.a, n, op.acc_mode, op.addr_map)
              ELSE mPktAdd_Wr(b, op.a, n, op.acc_mode, op.addr_map)
    IN  /\ Busy /\ op.type # "FILL"
        /\ b' = b1
        /\ Added(b1, n)

\* One access of rw_add_rd() or rw_add_wr(). A block that is neither of the
\* maximum size nor the last one has filled its packet.
AddPiece ==
    LET n  == PieceSize
        b1 == IF op.type = "RD" THEN mPktAdd_Rd(b, op.a, n, op.acc_mode, op.addr_map)
              ELSE mPktAdd_Wr(b, op.a, n, op.acc_mode, op.addr_map)
        full == InBlock /\ n < DataBlkSize /\ n < Floor8(op.nb)
    IN  /\ Busy /\ op.type # "FILL"
        /\ b' = FinalizeIf(full, b1)
        /\ Added(b1, n)

\* One turn of the loop of rw_add_fill().
AddFill ==
    LET n  == PieceSize
        b1 == mPktAdd_Fill(b, op.a, n, op.acc_mode, op.addr_map)
    IN  /\ Busy /\ op.type = "FILL"
        /\ b' = b1
        /\ Added(b1, n)

\* rw_set_trans(): rw_start(), then the transactions of the list one by one.
rw_set_trans ==
    /\ Idle /\ mode = "add" /\ starts < MaxStarts
    /\ Restart
    /\ mode' = "set"
    /\ starts' = starts + 1
    /\ UNCHANGED op

rw_set_trans_done ==
    /\ Idle /\ mode = "set" /\ mRwTrans # <<>>
    /\ mode' = "add"
    /\ UNCHANGED <<b, transVars, mPl1CntOutstandingOldest, mGetPktRqWasCalled, op, starts>>

\* The packet under construction is finished and no other one is begun.
rw_get_rq ==
    /\ Idle /\ mode = "add" /\ ~mGetPktRqWasCalled
    /\ b' = ClosePkt(b, NoPkt)
    /\ mGetPktRqWasCalled' = TRUE
    /\ UNCHANGED <<transVars, mPl1CntOutstandingOldest, op, mode, starts>>

--------------------------------------------------------------------------------

\* The object after its first rw_start(). mInit() sets the same members to 0;
\* calls before rw_start() are not part of the protocol of the class.
Init ==
    /\ \E c \in Pl1Cnts : b = EmptyRequest(c) /\ mPl1CntOutstandingOldest = Inc16(c)
    /\ mPl0Trans = <<>>
    /\ mRwTrans = <<>>
    /\ mGetPktRqWasCalled = FALSE
    /\ op = NoOp
    /\ mode = "add"
    /\ starts = 1

Next ==
    \/ rw_start
    \/ \E addr \in Addrs, n \in Sizes, acc \in AccModes, am \in AddrMaps :
        /\ am >= AM12 => addr < Addr4G      \* asserted by rw_add_rd() and rw_add_wr()
        /\ \/ rw_add_rd(addr, n, acc, am)
           \/ rw_add_wr(addr, n, acc, am)
           \/ rw_add_fill(addr, n, acc, am)
    \/ AddPiece
    \/ AddFill
    \/ rw_set_trans
    \/ rw_set_trans_done
    \/ rw_get_rq

Spec == Init /\ [][Next]_vars

\* The steps of a call that is running follow each other: it is one thread in
\* straight line code. Whether a call is made at all is up to the caller.
FairSpec == Spec /\ WF_vars(AddPiece) /\ WF_vars(AddFill)

--------------------------------------------------------------------------------
(* Properties.                                                                *)

Trans == [type : {"RD", "WR", "FILL"}, addr : Nat, num_bytes : Nat,
          acc_mode : Nat, addr_map : AddrMapId]
Pl0Trans == [type : {"RD", "WR", "FILL"}, addr : Nat, num_bytes : Nat,
             acc_mode : Nat, addr_map : AddrMapId, rw : Nat, pos : Nat]
Command == [cmd : {"ADDR_MAP", "ACCESS_MODE", "BASE_ADDR", "RD", "RDBLK", "WR", "WRBLK", "FILL"},
            val : Nat, wl : Nat]
Packet == [pl1_cnt : UInt16, addr_map_mask : SUBSET AddrMapId, num_pl0_rw : Nat,
           numTrans : Nat, length : Nat, rspMax : Nat, cmds : Seq(Command)]
OpenPacket == [rq : Nat, rsp : Nat, cmds : Seq(Command), mPl2NumTrans : Nat,
               mPl0AddrMap : AddrMapId, mPl0AccMode : Nat, mPl0BaseAddr : Nat,
               mPl0AddrMapMask : SUBSET AddrMapId]
Request == [mRqBuf : Seq(Packet), rqDone : Nat, rspDone : Nat, mPl0NumTrans : Nat,
            mPl1CntOutstandingLast : UInt16, cur : OpenPacket]
Operation == [type : {"RD", "WR", "FILL"}, addr : Nat, num_bytes : Nat,
              acc_mode : Nat, addr_map : AddrMapId, a : Nat, nb : Nat]

\* Types of the members of CTasPktHandlerRw and of the locals of a running call.
TypeOK ==
    /\ b \in Request
    /\ mPl0Trans \in Seq(Pl0Trans)
    /\ mRwTrans \in Seq(Trans)
    /\ mPl1CntOutstandingOldest \in UInt16
    /\ mGetPktRqWasCalled \in BOOLEAN
    /\ op \in Operation
    /\ mode \in {"add", "set"}
    /\ starts \in Nat

\* The RW transaction with index t: finished, or the one being added.
RwAt(t) == IF t <= Len(mRwTrans) THEN mRwTrans[t] ELSE op

EndOf(x) == x.addr + x.num_bytes

Aligned(x) == IF x.num_bytes <= 8 THEN tphrCheckIfNaturalAligned(x.addr, x.num_bytes)
              ELSE x.addr % 8 = 0 /\ x.num_bytes % 8 = 0 /\ x.num_bytes <= DataBlkSize

\* Access p of trans belongs to transaction t.
Continues(trans, p, t) ==
    LET x == trans[p]
    IN  /\ x.type = t.type /\ x.acc_mode = t.acc_mode /\ x.addr_map = t.addr_map
        /\ Aligned(x)
        /\ x.addr = IF p > 1 /\ trans[p - 1].rw = x.rw THEN EndOf(trans[p - 1]) ELSE t.addr

\* Every PL0 access is naturally aligned, continues the access before it or
\* starts its RW transaction, and carries the type, access mode and address map
\* the caller asked for (what rw_get_trans_rsp() relies on to merge responses).
AccessesContinue ==
    \A p \in 1..Len(mPl0Trans) : Continues(mPl0Trans, p, RwAt(mPl0Trans[p].rw))

\* The accesses of a finished RW transaction reach exactly its end, and no
\* transaction is without an access: with AccessesContinue, they tile it.
AccessesComplete ==
    \A t \in 1..Len(mRwTrans) :
        \E p \in 1..Len(mPl0Trans) :
            /\ mPl0Trans[p].rw = t
            /\ EndOf(mPl0Trans[p]) = EndOf(mRwTrans[t])
            /\ p < Len(mPl0Trans) => mPl0Trans[p + 1].rw = t + 1

\* The accesses of finished transactions tile them, whatever their alignment and
\* however they are divided over packets: no byte is lost, none is transferred twice.
AccessesTile == AccessesContinue /\ AccessesComplete

--------------------------------------------------------------------------------
(* How the server reads a packet. The server is not part of the repository:   *)
(* this is the meaning tas_pkt.h gives to the commands.                       *)

IsAccess(c) == c.cmd \in {"RD", "RDBLK", "WR", "WRBLK", "FILL"}

\* Value of the last command cmd before position i of a packet, 0 if none.
Setting(cmds, i, cmd) ==
    LET before == {j \in 1..(i - 1) : cmds[j].cmd = cmd}
    IN  IF before = {} THEN 0
        ELSE cmds[CHOOSE j \in before : \A k \in before : k <= j].val

\* Blocks and fills give a number of words, 0 standing for 256.
NumBytes(c) == IF c.cmd \in {"RD", "WR"} THEN c.wl
               ELSE IF c.wl = 0 THEN 1024 ELSE 4 * c.wl

\* Command i of a packet makes the server execute access x.
Executes(cmds, i, x) ==
    /\ x.type = IF cmds[i].cmd \in {"RD", "RDBLK"} THEN "RD"
                ELSE IF cmds[i].cmd \in {"WR", "WRBLK"} THEN "WR" ELSE "FILL"
    /\ x.addr = Setting(cmds, i, "BASE_ADDR") + cmds[i].val
    /\ x.num_bytes = NumBytes(cmds[i])
    /\ x.acc_mode = Setting(cmds, i, "ACCESS_MODE")
    /\ x.addr_map = Setting(cmds, i, "ADDR_MAP")

\* The packets of request g, the one under construction included: their
\* commands, the index of their last access, the indices of all of them, and the
\* address maps they announce.
NumPkts(g) == Len(g.mRqBuf) + 1
CmdsOf(g, k) == IF k <= Len(g.mRqBuf) THEN g.mRqBuf[k].cmds ELSE g.cur.cmds
LastOf(g, k) == IF k = 0 THEN 0
                ELSE IF k <= Len(g.mRqBuf) THEN g.mRqBuf[k].num_pl0_rw ELSE g.mPl0NumTrans
Mine(g, k) == (LastOf(g, k - 1) + 1)..LastOf(g, k)
MaskOf(g, k) == IF k <= Len(g.mRqBuf) THEN g.mRqBuf[k].addr_map_mask
                ELSE g.cur.mPl0AddrMapMask

\* The commands of a packet make the server execute the accesses mine of trans,
\* in their order, and no other.
Decodes(cmds, trans, mine) ==
    /\ \A p \in mine : /\ trans[p].pos \in 1..Len(cmds)
                       /\ IsAccess(cmds[trans[p].pos])
                       /\ Executes(cmds, trans[p].pos, trans[p])
                       /\ p - 1 \in mine => trans[p - 1].pos < trans[p].pos
    /\ \A i \in 1..Len(cmds) : IsAccess(cmds[i]) => \E p \in mine : trans[p].pos = i

\* What the server decodes from each packet alone is what mPl0Trans says was
\* asked for: leaving out ADDR_MAP, ACCESS_MODE and BASE_ADDR commands when the
\* setting has not changed never applies a setting of another packet.
ServerSeesTransactions ==
    \A k \in 1..NumPkts(b) : Decodes(CmdsOf(b, k), mPl0Trans, Mine(b, k))

\* An address map from 12 on is never mixed with another one in a packet.
Exclusive(mask) == \A m \in mask : m >= AM12 => mask = {m}

AddrMapsExclusive == \A k \in 1..NumPkts(b) : Exclusive(MaskOf(b, k))

Maps(trans, mine) == {trans[p].addr_map : p \in mine}

\* PL0_START announces exactly the address maps of the accesses that follow, in
\* mPl0Trans too: the server routes the packet by them.
AddrMapsAnnounced ==
    \A k \in 1..NumPkts(b) : MaskOf(b, k) = Maps(mPl0Trans, Mine(b, k))

\* No packet has more accesses than the server takes, none asks for a response
\* larger than the server sends or rw_set_rsp() accepts, and none is larger than
\* the server takes, except with a block write or a fill: these are added with up
\* to 12 bytes more than the code has looked for room for (the settings before a
\* block of the maximum size, the half of a fill), and by no more than that.
MaxPktRsp == MinOf(MaxPl2Rsp, MaxRspSize)
BlockExcess == 12
HasBlock(cmds) == \E i \in 1..Len(cmds) : cmds[i].cmd \in {"WRBLK", "FILL"}
MaxPktRq(cmds) == IF HasBlock(cmds) THEN MaxPl2Rq + BlockExcess ELSE MaxPl2Rq

WithinLimits(pkt) ==
    /\ pkt.numTrans <= Pl0MaxNumRw
    /\ pkt.rspMax <= MaxPktRsp
    /\ pkt.length <= MaxPktRq(pkt.cmds)

PktLimits == \A k \in 1..Len(b.mRqBuf) : WithinLimits(b.mRqBuf[k])

\* rw_set_rsp() compares the count of the first response packet with
\* mPl1CntOutstandingOldest and counts up from there: the packets carry
\* consecutive counts from it, also over the wrap of uint16_t and after packets
\* that were built and dropped.
CountsConsecutive ==
    \A k \in 1..Len(b.mRqBuf) :
        b.mRqBuf[k].pl1_cnt = (mPl1CntOutstandingOldest + (k - 1)) % 65536

\* A turn of the block loop that transfers nothing closes a packet that has
\* accesses, so that the next turn transfers something: the loop terminates.
BlockLoopProgress ==
    [][op.nb > 0 => op'.nb < op.nb \/ b.cur.mPl2NumTrans > 0]_vars

\* Every rw_add_rd(), rw_add_wr() and rw_add_fill() returns: a call that closes
\* packet after packet without transferring anything would run out of mRqBuf
\* with bytes left to transfer.
AddReturns == op.nb > 0 ~> op.nb = 0

--------------------------------------------------------------------------------
(* The inductive invariant of TasPktHandlerRwProofs: what the operators on     *)
(* requests keep, what a running call knows about its request, how the        *)
(* packets follow the accesses, and how these tile the transactions.          *)

\* The packet under construction can be closed within the limits, and one
\* without accesses is as mPl2PktInit() made it.
Room(g) ==
    /\ g.cur.rq >= 12 /\ g.cur.rsp >= 8
    /\ g.cur.mPl2NumTrans <= Pl0MaxNumRw
    /\ g.cur.mPl2NumTrans = 0 => g.cur.rq = 12 /\ g.cur.rsp = 8
    /\ g.cur.rsp + Pl1RspEnd <= MaxPktRsp
    /\ g.cur.rq + Pl1RqEnd <= MaxPktRq(g.cur.cmds)

\* The packets already closed, the oldest of them having the count oldest.
Sent(g, oldest) ==
    /\ Inc16(g.mPl1CntOutstandingLast) = (oldest + Len(g.mRqBuf)) % 65536
    /\ \A k \in 1..Len(g.mRqBuf) :
          /\ WithinLimits(g.mRqBuf[k])
          /\ Exclusive(g.mRqBuf[k].addr_map_mask)
          /\ g.mRqBuf[k].pl1_cnt = (oldest + (k - 1)) % 65536

\* The packets of g stand for the accesses trans, and the settings remembered
\* for the packet under construction are those the server has at its end. A base
\* address is a multiple of the window, so that the offset of an access in the
\* window is the remainder of its address.
Follows(g, trans) ==
    /\ g.mPl0NumTrans = Len(trans)
    /\ \A k \in 1..NumPkts(g) : /\ LastOf(g, k) <= Len(trans)
                                /\ Decodes(CmdsOf(g, k), trans, Mine(g, k))
                                /\ MaskOf(g, k) = Maps(trans, Mine(g, k))
    /\ LET now(cmd) == Setting(g.cur.cmds, Len(g.cur.cmds) + 1, cmd)
       IN  /\ now("ADDR_MAP")    = g.cur.mPl0AddrMap
           /\ now("ACCESS_MODE") = g.cur.mPl0AccMode
           /\ now("BASE_ADDR")   = g.cur.mPl0BaseAddr
    /\ g.cur.mPl0BaseAddr % AddrWindow = 0

\* The last access belongs to the transaction with index t.
LastIsOf(t) == mPl0Trans # <<>> /\ mPl0Trans[Len(mPl0Trans)].rw = t

\* Transactions are finished one after the other. A running call goes on where
\* its last access has ended, with what is left of its transaction.
Tiles ==
    LET done == Len(mRwTrans)
    IN  /\ AccessesTile
        /\ \A p \in 1..Len(mPl0Trans) :
              mPl0Trans[p].rw \in 1..(IF op.nb > 0 THEN done + 1 ELSE done)
        /\ mPl0Trans # <<>> => LastIsOf(done) \/ LastIsOf(done + 1)
        /\ op.nb > 0 =>
              /\ op.a + op.nb = EndOf(op)
              /\ op.type = "FILL" => op.a % 8 = 0 /\ op.nb % 8 = 0
              /\ op.a = IF LastIsOf(done + 1) THEN EndOf(mPl0Trans[Len(mPl0Trans)])
                        ELSE op.addr

PktInv ==
    /\ TypeOK
    /\ Sent(b, mPl1CntOutstandingOldest)
    /\ Exclusive(b.cur.mPl0AddrMapMask)
    /\ ~mGetPktRqWasCalled => Room(b)
    /\ op.nb > 0 => ~mGetPktRqWasCalled /\ mCheckAddrMapRulesInPkt(b, op.addr_map)

IInv == PktInv /\ Follows(b, mPl0Trans) /\ Tiles

--------------------------------------------------------------------------------
(* What comments and assertions of the code claim, and the code does not keep. *)

\* tas_pkt_handler_rw.h: the limits, the number of transactions among them,
\* "are for all generated PL2 packets together" and rw_add_*() "return false
\* and do not add" when they are violated. mPl0Trans[] has that many entries.
NumTransWithinMax == Len(mPl0Trans) <= NumTransMax
================================================================================
